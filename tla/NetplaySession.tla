---------------------------- MODULE NetplaySession ----------------------------
(***************************************************************************)
(* The netplay session (netplay_session.cpp): the lobby on the main        *)
(* thread, the SessionUI the network thread calls into, and the runtimes   *)
(* one session creates and runs, one after another.  The network client    *)
(* and server are external: they deliver the callbacks below in any order  *)
(* the session lets them.  main is where the main thread is; a lobby frame *)
(* is "head", "body" and "tail", and the network thread comes between.     *)
(***************************************************************************)
EXTENDS RuntimeHost

CONSTANTS
  MaxControllers,   \* local controllers there are
  MaxGames          \* bound on the games of a session

ASSUME NetplayAssumption == MaxControllers \in Nat \ {0} /\ MaxGames \in Nat

VARIABLES
  main,          \* the main thread, see Places
  role,          \* "local", "host" or "join"
  client,        \* the client object lives
  server,        \* the server object lives
  uiClient,      \* SessionUI::m_client is set
  uiRuntime,     \* SessionUI::m_runtime is set
  uiBoot,        \* m_boot_data is set
  startAsked,    \* m_start_requested
  lost,          \* m_connection_lost
  controllers,   \* how many controllers options.controllers has
  assigned,      \* how many slots the server has assigned
  ready,         \* the local player is ready
  round,         \* the network's view: "idle", "called", "told", "started" or "on"
  games          \* games called so far

uiVars    == <<uiClient, uiRuntime, uiBoot, startAsked, lost>>
peerVars  == <<role, client, server, controllers, assigned, ready, round, games>>
lobbyVars == <<main, uiVars, peerVars>>

Places == {"begin", "creating", "running", "watching", "destroying", "exited", "killed",
           "head", "body", "tail", "stopping", "leave", "close"}

SessionInit ==
  /\ main = "begin" /\ role \in {"local", "host", "join"}
  /\ client = FALSE /\ server = FALSE /\ uiClient = FALSE /\ uiRuntime = FALSE
  /\ uiBoot = FALSE /\ startAsked = FALSE /\ lost = FALSE
  /\ controllers \in 1..MaxControllers /\ assigned = 0 /\ ready = FALSE
  /\ round = "idle" /\ games = 0

Netplay == role # "local"
Goes(here, there) == main = here /\ main' = there

hostRest == <<opts, rt, stop, core, hook, runError, active, bootData, armed, seen,
              bootVars, threadVars, modVars>>

-----------------------------------------------------------------------------
(* The main thread around the lobby. *)

\* Dolphin's services, the game, its fingerprint, and the connection; each
\* failure shuts the services down and ends the process.
Connect ==
  /\ Netplay
  /\ Goes("begin", "head")
  /\ common' = TRUE /\ external' = TRUE
  /\ client' = TRUE /\ server' = (role = "host") /\ uiClient' = TRUE
  /\ UNCHANGED <<hostRest, uiRuntime, uiBoot, startAsked, lost, role, controllers,
                 assigned, ready, round, games>>

ConnectFails ==
  /\ Netplay
  /\ Goes("begin", "exited")
  /\ UNCHANGED <<hostRest, common, external, uiVars, peerVars>>

\* The head of a frame: cut the selection down to what was assigned, hand a
\* start to the client, and leave for the game when there is boot data.
Trimmed == IF assigned > 0 /\ controllers > assigned THEN assigned ELSE controllers

FrameHead ==
  /\ main = "head"
  /\ controllers' = Trimmed
  /\ startAsked' = FALSE
  /\ round' = IF startAsked THEN "started" ELSE round
  /\ uiBoot' = FALSE
  /\ bootData' = (bootData \/ uiBoot)
  /\ IF uiBoot THEN main' = "creating" /\ rt' = "create"
               ELSE main' = "body" /\ rt' = rt
  /\ UNCHANGED <<opts, stop, core, hook, common, runError, active, external, armed, seen,
                 bootVars, threadVars, modVars, uiClient, uiRuntime, lost, role, client,
                 server, assigned, ready, games>>

\* The window cannot be opened, or is closed.
LeaveLobby ==
  /\ Goes("head", "leave")
  /\ UNCHANGED <<hostRest, common, external, uiVars, peerVars>>

\* As a bug would have it: the last controller can be dropped.
SelectableToNone(n) == {n - 1, n + 1} \cap 0..MaxControllers

\* A checkbox adds a controller while there are slots, or drops one, but the
\* last one stays.
Selectable(n) == {n - 1, n + 1} \cap 1..MaxControllers

\* The widgets: the selection changes, ready is toggled, the host
\* starts the game.  Generating or saving the configuration may fail, and then
\* the client is not told and the player stays ready.
Select ==
  /\ Goes("body", "tail")
  /\ controllers' \in Selectable(controllers)
  /\ ready' \in {FALSE, ready}
  /\ UNCHANGED <<hostRest, common, external, uiVars, role, client, server, assigned,
                 round, games>>

ToggleReady ==
  /\ Goes("body", "tail")
  /\ ready' = ~ready
  /\ UNCHANGED <<hostRest, common, external, uiVars, role, client, server, controllers,
                 assigned, round, games>>

CanStart == ready /\ assigned > 0 /\ round = "idle" /\ games < MaxGames

HostStart ==
  /\ Goes("body", "tail")
  /\ server /\ CanStart
  /\ round' = "called" /\ games' = games + 1
  /\ UNCHANGED <<hostRest, common, external, uiVars, role, client, server, controllers,
                 assigned, ready>>

NoInput ==
  /\ Goes("body", "tail")
  /\ UNCHANGED <<hostRest, common, external, uiVars, peerVars>>

FrameTail ==
  /\ main = "tail"
  /\ main' = IF lost THEN "leave" ELSE "head"
  /\ UNCHANGED <<hostRest, common, external, uiVars, peerVars>>

-----------------------------------------------------------------------------
(* The main thread around a game. *)

\* The network thread may reach the runtime from here on.
SetRuntime ==
  /\ Netplay /\ Goes("creating", "running")
  /\ At("created", "run")
  /\ uiRuntime' = TRUE
  /\ UNCHANGED <<opts, stop, core, hook, common, runError, sharedVars, bootVars,
                 threadVars, modVars, uiClient, uiBoot, startAsked, lost, peerVars>>

CreateFailed ==
  /\ Netplay /\ Goes("creating", "leave")
  /\ At("failed", "none")
  /\ UNCHANGED <<opts, stop, core, hook, common, runError, sharedVars, bootVars,
                 threadVars, modVars, uiVars, peerVars>>

\* SetRuntime(nullptr) waits for a call that is under way.
ClearRuntime ==
  /\ Netplay /\ rt = "ran" /\ Goes("running", "stopping")
  /\ uiRuntime' = FALSE
  /\ UNCHANGED <<hostRest, common, external, uiClient, uiBoot, startAsked, lost,
                 peerVars>>

StopClient ==
  /\ Goes("stopping", "destroying")
  /\ At("ran", "dtor")
  /\ round' = "idle"
  /\ UNCHANGED <<opts, stop, core, hook, common, runError, sharedVars, bootVars,
                 threadVars, modVars, uiVars, role, client, server, controllers,
                 assigned, ready, games>>

BackToLobby ==
  /\ Netplay /\ main = "destroying"
  /\ At("gone", "none")
  /\ ready' = FALSE
  /\ main' = IF lost THEN "leave" ELSE "head"
  /\ UNCHANGED <<opts, stop, core, hook, common, runError, sharedVars, bootVars,
                 threadVars, modVars, uiVars, role, client, server, controllers,
                 assigned, round, games>>

Disconnect ==
  /\ Goes("leave", "close")
  /\ client' = FALSE /\ server' = FALSE
  /\ UNCHANGED <<hostRest, common, external, uiVars, role, controllers, assigned, ready,
                 round, games>>

CloseServices ==
  /\ Goes("close", "exited")
  /\ external' = FALSE /\ common' = FALSE
  /\ UNCHANGED <<hostRest, uiVars, peerVars>>

LobbyMain == Connect \/ ConnectFails \/ FrameHead \/ Select \/ ToggleReady \/ HostStart
               \/ NoInput \/ FrameTail \/ SetRuntime \/ CreateFailed \/ ClearRuntime
               \/ StopClient \/ BackToLobby \/ LeaveLobby \/ Disconnect \/ CloseServices

-----------------------------------------------------------------------------
(* The network thread, which lives as long as the client. *)

\* StopGame reaches the runtime that is set, under the mutex, or nobody.
StopGame == stop' = (stop \/ uiRuntime)

NetAssigns ==
  /\ client /\ ~lost
  /\ assigned' \in 1..controllers /\ assigned' # assigned
  /\ UNCHANGED <<main, hostRest, common, external, uiVars, role, client, server,
                 controllers, ready, round, games>>

\* A remote host starts a game for which everybody is ready.
NetCalls ==
  /\ client /\ ~lost /\ role = "join" /\ CanStart
  /\ round' = "called" /\ games' = games + 1
  /\ UNCHANGED <<main, hostRest, common, external, uiVars, role, client, server,
                 controllers, assigned, ready>>

OnMsgStartGame ==
  /\ client /\ ~lost /\ round = "called"
  /\ startAsked' = TRUE /\ round' = "told"
  /\ UNCHANGED <<main, hostRest, common, external, uiClient, uiRuntime, uiBoot, lost,
                 role, client, server, controllers, assigned, ready, games>>

\* The client answers StartGame with the session's boot data, or gives up.
BootGame ==
  /\ client /\ ~lost /\ round = "started"
  /\ uiBoot' = TRUE /\ round' = "on"
  /\ UNCHANGED <<main, hostRest, common, external, uiClient, uiRuntime, startAsked, lost,
                 role, client, server, controllers, assigned, ready, games>>

OnGameStartAborted ==
  /\ client /\ ~lost /\ round = "started"
  /\ round' = "idle"
  /\ UNCHANGED <<main, hostRest, common, external, uiVars, role, client, server,
                 controllers, assigned, ready, games>>

\* OnMsgStopGame, OnMsgPowerButton and OnDesync.
OnMsgStopGame ==
  /\ client /\ ~lost /\ round = "on"
  /\ StopGame
  /\ UNCHANGED <<main, opts, rt, core, hook, common, runError, sharedVars, bootVars,
                 threadVars, modVars, uiVars, peerVars>>

OnConnectionLost ==
  /\ client /\ ~lost
  /\ lost' = TRUE
  /\ StopGame
  /\ UNCHANGED <<main, opts, rt, core, hook, common, runError, sharedVars, bootVars,
                 threadVars, modVars, uiClient, uiRuntime, uiBoot, startAsked, peerVars>>

NetThread == NetAssigns \/ NetCalls \/ OnMsgStartGame \/ BootGame \/ OnGameStartAborted
               \/ OnMsgStopGame \/ OnConnectionLost

-----------------------------------------------------------------------------
LobbyTypeOK ==
  /\ main \in Places /\ role \in {"local", "host", "join"}
  /\ \A b \in {client, server, uiClient, uiRuntime, uiBoot, startAsked, lost, ready} :
       b \in BOOLEAN
  /\ controllers \in 1..MaxControllers /\ assigned \in 0..MaxControllers
  /\ round \in {"idle", "called", "told", "started", "on"} /\ games \in 0..MaxGames
=============================================================================
