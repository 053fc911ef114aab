------------------------------- MODULE Session -------------------------------
(***************************************************************************)
(* The runner's process from the creation of its runtime to its exit:      *)
(* RunMain's end for a local game, or the netplay session; the signals,    *)
(* the thread that watches for them, and the guest with the one mod that   *)
(* can end a run from inside, input-script.                                *)
(***************************************************************************)
EXTENDS NetplaySession

CONSTANTS
  Scripts,      \* scripts as is_load_script accepts them, <<>> among them
  MaxTick,      \* bound on the ticks of a run
  ScriptMod,    \* the id of the input-script package
  MaxSignals    \* bound on the signals from outside

ASSUME SessionAssumption ==
  /\ \A cmds \in Scripts : cmds \in Seq(Range(cmds))
  /\ MaxTick \in Nat /\ MaxSignals \in Nat

VARIABLES
  script,       \* s_cmds: the environment's script, <<>> when disabled
  idx,          \* s_idx: commands consumed
  tick,         \* s_tick
  pad,          \* s_cur
  quitFired,    \* s_quit_fired
  handlers,     \* HandleStopSignal is installed
  sig,          \* s_stop_requested
  watcher,      \* signal_watcher: "none", "polling" or "over"
  watchStop,    \* it has been asked to stop
  signals       \* signals sent from outside

scriptVars == <<script, idx, tick, pad, quitFired>>
signalVars == <<handlers, sig, watcher, watchStop, signals>>
vars == <<hostVars, modVars, lobbyVars, scriptVars, signalVars>>

-----------------------------------------------------------------------------
(* The input-script mod: a file of commands, each due at a tick, that      *)
(* replaces what the guest reads from controller 0 and can end the run.    *)
(* A tick is one dispatch of the entry hook on PADRead.  A pad command is  *)
(* a value of its own; a script that failed to parse is the empty one.     *)

Neutral == "neutral"

Accepted(cmds) == \A i \in 1..(Len(cmds) - 1) : cmds[i].tick <= cmds[i + 1].tick

ScriptInit ==
  /\ script \in Scripts
  /\ idx = 0 /\ tick = 0 /\ pad = Neutral /\ quitFired = FALSE

\* on_load and on_unload both start over.
ScriptReset ==
  /\ idx' = 0 /\ tick' = 0 /\ pad' = Neutral /\ quitFired' = FALSE
  /\ UNCHANGED script

\* The hooks are left out of the descriptor when there is no script.
Enabled == Len(script) > 0 /\ Accepted(script)

Due == {i \in (idx + 1)..Len(script) : \A j \in (idx + 1)..i : script[j].tick <= tick}

\* on_padread: every due command, the last pad of them stays; the first
\* quit of a load raises SIGTERM.  raises says whether this one does.
PadRead(raises) ==
  LET pads == {i \in Due : ~script[i].quit}
      last == CHOOSE i \in pads : \A j \in pads : j <= i
  IN  /\ Enabled /\ tick < MaxTick
      /\ raises <=> (~quitFired /\ \E i \in Due : script[i].quit)
      /\ quitFired' = (quitFired \/ \E i \in Due : script[i].quit)
      /\ pad' = IF pads = {} THEN pad ELSE script[last].pad
      /\ idx' = idx + Cardinality(Due)
      /\ tick' = tick + 1
      /\ UNCHANGED script

ScriptTypeOK ==
  /\ script \in Scripts /\ idx \in 0..Len(script) /\ tick \in 0..MaxTick
  /\ quitFired \in BOOLEAN

-----------------------------------------------------------------------------
Init ==
  /\ HostInit /\ ModInit /\ SessionInit /\ ScriptInit
  /\ handlers = FALSE /\ sig = FALSE /\ watcher = "none" /\ watchStop = FALSE
  /\ signals = 0

hostAll == <<hostVars, modVars>>

-----------------------------------------------------------------------------
(* RunMain, a local game. *)

LocalCreate ==
  /\ ~Netplay /\ Goes("begin", "creating")
  /\ At("none", "create")
  /\ UNCHANGED <<opts, stop, core, hook, common, runError, sharedVars, bootVars,
                 threadVars, modVars, uiVars, peerVars, scriptVars, signalVars>>

LocalFails ==
  /\ ~Netplay /\ Goes("creating", "exited")
  /\ At("failed", "none")
  /\ UNCHANGED <<opts, stop, core, hook, common, runError, sharedVars, bootVars,
                 threadVars, modVars, uiVars, peerVars, scriptVars, signalVars>>

InstallHandlers ==
  /\ ~Netplay /\ main = "creating" /\ rt = "created"
  /\ ~handlers /\ handlers' = TRUE
  /\ UNCHANGED <<hostAll, lobbyVars, scriptVars, sig, watcher, watchStop, signals>>

LocalRun ==
  /\ ~Netplay /\ Goes("creating", "running")
  /\ handlers
  /\ At("created", "run")
  /\ watcher' = "polling"
  /\ UNCHANGED <<opts, stop, core, hook, common, runError, sharedVars, bootVars,
                 threadVars, modVars, uiVars, peerVars, scriptVars, handlers, sig,
                 watchStop, signals>>

StopWatching ==
  /\ ~Netplay /\ rt = "ran" /\ Goes("running", "watching")
  /\ watchStop' = TRUE
  /\ UNCHANGED <<hostAll, uiVars, peerVars, scriptVars, handlers, sig, watcher, signals>>

\* As a bug would have it: the runtime goes before the watcher is joined.
JoinWatcherLate ==
  /\ Goes("watching", "destroying")
  /\ At("ran", "dtor")
  /\ UNCHANGED <<opts, stop, core, hook, common, runError, sharedVars, bootVars,
                 threadVars, modVars, uiVars, peerVars, scriptVars, signalVars>>

\* Locals go in reverse order of declaration: the watcher is joined, then the
\* runtime it captured goes.
JoinWatcher ==
  /\ Goes("watching", "destroying")
  /\ watcher = "over"
  /\ At("ran", "dtor")
  /\ UNCHANGED <<opts, stop, core, hook, common, runError, sharedVars, bootVars,
                 threadVars, modVars, uiVars, peerVars, scriptVars, signalVars>>

LocalExit ==
  /\ ~Netplay /\ Goes("destroying", "exited")
  /\ At("gone", "none")
  /\ UNCHANGED <<opts, stop, core, hook, common, runError, sharedVars, bootVars,
                 threadVars, modVars, uiVars, peerVars, scriptVars, signalVars>>

LocalMain == LocalCreate \/ LocalFails \/ InstallHandlers \/ LocalRun \/ StopWatching
               \/ JoinWatcher \/ LocalExit

Watcher ==
  /\ watcher = "polling" /\ (watchStop \/ sig)
  /\ watcher' = "over"
  /\ IF watchStop THEN UNCHANGED <<sig, stop>> ELSE sig' = FALSE /\ RequestStop
  /\ UNCHANGED <<opts, rt, core, hook, common, runError, sharedVars, bootVars, threadVars,
                 modVars, lobbyVars, scriptVars, handlers, watchStop, signals>>

-----------------------------------------------------------------------------
(* Signals and the guest. *)

\* A netplay session installs no handler: the signal ends the process.
Raise ==
  IF handlers THEN sig' = TRUE /\ main' = main
              ELSE sig' = sig /\ main' = "killed"

Signal ==
  /\ main # "exited"
  /\ signals < MaxSignals /\ signals' = signals + 1
  /\ Raise
  /\ UNCHANGED <<hostAll, uiVars, peerVars, scriptVars, handlers, watcher, watchStop>>

\* The guest reads controller 0: the hooks of the script run on its thread.
GuestReads ==
  /\ core /\ ScriptMod \in UpIds
  /\ \E raises \in BOOLEAN :
       /\ PadRead(raises)
       /\ IF raises THEN Raise ELSE UNCHANGED <<sig, main>>
  /\ UNCHANGED <<hostAll, uiVars, peerVars, handlers, watcher, watchStop, signals>>

-----------------------------------------------------------------------------
(* The whole process. *)

\* The script starts over in its own on_load and on_unload.
TellsScript == \/ OnLoad   /\ Loading = ScriptMod
               \/ OnUnload /\ Unloading = ScriptMod

HostMainStep ==
  /\ HostMain
  /\ IF TellsScript THEN ScriptReset ELSE UNCHANGED scriptVars
  /\ UNCHANGED <<lobbyVars, signalVars>>

MainThread ==
  \/ HostMainStep
  \/ LocalMain
  \/ LobbyMain /\ UNCHANGED <<scriptVars, signalVars>>

TitleThread == (TitleStarts \/ TitleSet) /\ UNCHANGED <<lobbyVars, scriptVars, signalVars>>
TimerThread == Timer /\ UNCHANGED <<lobbyVars, scriptVars, signalVars>>
SaveThread  == SaveEnds /\ UNCHANGED <<lobbyVars, scriptVars, signalVars>>
Outside     == (CoreEnds \/ CloseGame) /\ UNCHANGED <<lobbyVars, scriptVars, signalVars>>
Network     == NetThread /\ UNCHANGED <<scriptVars, signalVars>>

Next ==
  /\ main # "killed"
  /\ \/ MainThread \/ TitleThread \/ TimerThread \/ SaveThread \/ Watcher
     \/ Outside \/ Network \/ Signal \/ GuestReads

\* Every thread of the process is scheduled; the outside, the network and the
\* guest owe nothing.
Spec ==
  /\ Init /\ [][Next]_vars
  /\ WF_vars(MainThread /\ main # "killed")
  /\ WF_vars(TitleThread /\ main # "killed")
  /\ WF_vars(TimerThread /\ main # "killed")
  /\ WF_vars(SaveThread /\ main # "killed")
  /\ WF_vars(Watcher /\ main # "killed")

-----------------------------------------------------------------------------
TypeOK ==
  /\ HostTypeOK /\ ModTypeOK /\ LobbyTypeOK /\ ScriptTypeOK
  /\ handlers \in BOOLEAN /\ sig \in BOOLEAN /\ watchStop \in BOOLEAN
  /\ watcher \in {"none", "polling", "over"} /\ signals \in 0..MaxSignals

\* No thread can reach an object that is gone: whoever holds a pointer to the
\* runtime (the network thread through SessionUI, the watcher, the auto-stop
\* thread) holds it to a live one, the title thread and the state hook end
\* before the window and the locals they use, the process-wide platform
\* pointer is cleared before the platform goes, guest code runs only over mods
\* that are all loaded, and Dolphin's services stay up as long as a runtime or
\* the lobby uses them (netplay_session.cpp:685, moderngekko_run.cpp:796,
\* dolphin_runtime.cpp:683).
HandlesAlive ==
  main # "killed" =>
    /\ uiRuntime => RuntimeLives
    /\ watcher = "polling" => RuntimeLives
    /\ timer = "armed" => RuntimeLives
    /\ title # "none" => rt \in {"loop", "saving", "joining"}
    /\ active \/ hook => PlatformLives
    /\ core => modState = "ready"
    /\ RuntimeLives \/ main \in {"head", "body", "tail"} => common
    /\ client => uiClient /\ common

\* A stop that was asked for while a runtime could hear it makes Run return,
\* and a signal that was caught ends the process, whatever the title thread,
\* the auto-stop thread and the save of the exit state are doing
\* (dolphin_runtime.cpp:842, moderngekko_run.cpp:796).
Returned == rt \in {"ran", "dtor", "unset", "members", "gone", "none"} \/ main = "killed"
StopReturns ==
  /\ stop ~> Returned
  /\ sig ~> main \in {"exited", "killed"}
=============================================================================
