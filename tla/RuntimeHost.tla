----------------------------- MODULE RuntimeHost -----------------------------
(***************************************************************************)
(* One Runtime (dolphin_runtime.cpp): Create, Run and the destructor, the  *)
(* threads Run starts, and the process-wide state they share.  rt is where *)
(* the main thread is in it.  Dolphin's core, its platform and its boot    *)
(* are external: they succeed or fail, and the platform remembers that it  *)
(* has been asked to stop.  No thread but the title thread takes           *)
(* s_runtime_mutex while the main thread may want it, and the main thread  *)
(* does not want it while that thread lives: the mutex is left out.        *)
(***************************************************************************)
EXTENDS ModSet

CONSTANTS
  Options,     \* [save, fps, limit, load : BOOLEAN]: the command line's part of it
  SyncTitle    \* SetTitle waits for the window's thread to take the message

VARIABLES
  opts,        \* the options of this process
  rt,          \* where the runtime is, see Stages
  active,      \* s_runtime_active, and with it s_platform
  stop,        \* the platform has been asked to stop
  core,        \* Dolphin's core runs, and with it guest code and hooks
  hook,        \* state_hook is installed
  common,      \* UICommon is initialized
  external,    \* s_external_ui_common
  bootData,    \* s_boot_session_data is set
  booting,     \* what Run boots: "plain", "state" or "session"
  armed,       \* s_executable_game_id is set
  seen,        \* s_artifact_title_callback_seen
  gameId,      \* the running game's id: "none", "artifact" or "real"
  layers,      \* whose GameSettings layers are installed: the same
  title,       \* the title thread: "none", "resting", "naming" or "gone"
  titleStop,   \* it has been asked to stop
  timer,       \* the auto-stop thread: "none", "armed" or "over"
  saver,       \* the save of the exit state: "none", "busy", "ok" or "failed"
  runError     \* Run returned an error

sharedVars == <<active, external, bootData, armed, seen>>
bootVars   == <<booting, gameId, layers>>
threadVars == <<title, titleStop, timer, saver>>
hostVars   == <<opts, rt, stop, core, hook, common, runError, sharedVars, bootVars,
                threadVars>>

Stages == {"none", "create", "mods", "platform", "rejected", "failed",
           "created", "run", "hooked", "layered", "named", "threads", "loop",
           "saving", "joining", "stopping", "returning", "ran",
           "dtor", "unset", "members", "gone"}

HostInit ==
  /\ opts \in Options
  /\ rt = "none" /\ active = FALSE /\ stop = FALSE /\ core = FALSE /\ hook = FALSE
  /\ common = FALSE /\ external = FALSE /\ bootData = FALSE /\ booting = "plain"
  /\ armed = FALSE /\ seen = FALSE /\ gameId = "none" /\ layers = "none"
  /\ title = "none" /\ titleStop = FALSE /\ timer = "none" /\ saver = "none"
  /\ runError = FALSE

At(here, there) == rt = here /\ rt' = there

-----------------------------------------------------------------------------
(* Create. *)

\* Another runtime is active, or the game or its module is not accepted.
RejectCreate ==
  /\ At("create", "failed")
  /\ UNCHANGED <<opts, stop, core, hook, common, runError, modVars, sharedVars,
                 bootVars, threadVars>>

CreateMods ==
  /\ ~active
  /\ At("create", "mods")
  /\ \E inst \in Installs : Load(inst)
  /\ UNCHANGED <<opts, stop, core, hook, common, runError, sharedVars, bootVars,
                 threadVars>>

TellMods ==
  /\ rt = "mods" /\ rt' = rt
  /\ OnLoad
  /\ UNCHANGED <<opts, stop, core, hook, common, runError, sharedVars, bootVars,
                 threadVars>>

\* UICommon, unless the netplay session owns it, and the platform.
CreateServices ==
  /\ At("mods", "platform")
  /\ Loaded
  /\ common' = TRUE
  /\ UNCHANGED <<opts, stop, core, hook, runError, sharedVars, bootVars, threadVars>>

OwnsCommon == ~external

PlatformFails ==
  /\ At("platform", "rejected")
  /\ common' = IF OwnsCommon THEN FALSE ELSE common
  /\ StartUnload
  /\ UNCHANGED <<opts, stop, core, hook, runError, sharedVars, bootVars, threadVars>>

\* The process-wide state is set last, when nothing can fail any more.
Publish ==
  /\ At("platform", "created")
  /\ active' = TRUE /\ armed' = TRUE /\ seen' = FALSE
  /\ saver' = "none" /\ runError' = FALSE
  /\ UNCHANGED <<opts, stop, core, hook, common, external, bootData, modVars, bootVars,
                 title, titleStop, timer>>

Create == RejectCreate \/ CreateMods \/ TellMods \/ CreateServices
            \/ PlatformFails \/ Publish

-----------------------------------------------------------------------------
(* Run: the boot. *)

RunFails ==
  /\ rt' = "ran" /\ runError' = TRUE

\* The session's boot data, the saved state or neither; it is consumed even
\* when the disc is rejected.
TakeBootData ==
  /\ rt = "run"
  /\ booting' = IF bootData THEN "session" ELSE IF opts.load THEN "state" ELSE "plain"
  /\ bootData' = FALSE
  /\ \/ rt' = "hooked" /\ hook' = TRUE /\ runError' = runError
     \/ RunFails /\ hook' = hook
  /\ UNCHANGED <<opts, stop, core, common, modVars, active, external, armed, seen,
                 gameId, layers, threadVars>>

\* As a bug would have it: the id is repaired in the first callback.
TitleChangedAtOnce(id, below) ==
  /\ seen' = seen
  /\ IF armed /\ id = "artifact"
     THEN gameId' = "real" /\ layers' = "real" /\ armed' = FALSE
     ELSE gameId' = id /\ layers' = below /\ armed' = armed

\* Host_TitleChanged, called with the running game's id just set to id.
TitleChanged(id, below) ==
  IF armed /\ id = "artifact"
  THEN IF seen
       THEN /\ gameId' = "real" /\ layers' = "real"
            /\ armed' = FALSE /\ seen' = FALSE
       ELSE /\ gameId' = id /\ layers' = below
            /\ seen' = TRUE /\ armed' = armed
  ELSE gameId' = id /\ layers' = below /\ UNCHANGED <<armed, seen>>

\* SetRunningGameMetadata names the game after main.dol and calls back.
NameArtifact ==
  /\ At("hooked", "layered")
  /\ TitleChanged("artifact", layers)
  /\ UNCHANGED <<opts, stop, core, hook, common, runError, modVars, active, external,
                 bootData, booting, threadVars>>

\* It goes on to install the settings of the id it was given; then the boot
\* of an executable calls back once more.
LayerAndName ==
  /\ At("layered", "named")
  /\ TitleChanged(gameId, "artifact")
  /\ UNCHANGED <<opts, stop, core, hook, common, runError, modVars, active, external,
                 bootData, booting, threadVars>>

BootCore ==
  /\ rt = "named"
  /\ \/ rt' = "threads" /\ core' = TRUE /\ runError' = runError
     \/ RunFails /\ core' = core
  /\ UNCHANGED <<opts, stop, hook, common, modVars, sharedVars, bootVars, threadVars>>

StartThreads ==
  /\ At("threads", "loop")
  /\ timer' = IF opts.limit THEN "armed" ELSE timer
  /\ title' = IF opts.fps THEN "resting" ELSE title
  /\ titleStop' = FALSE
  /\ UNCHANGED <<opts, stop, core, hook, common, runError, modVars, sharedVars,
                 bootVars, saver>>

-----------------------------------------------------------------------------
(* Run: from the main loop to the return. *)

\* MainLoop returns once the platform has been asked to stop.
LeaveLoop ==
  /\ rt = "loop" /\ stop
  /\ IF opts.save /\ core
     THEN rt' = "saving" /\ saver' = "busy" /\ titleStop' = titleStop
     ELSE rt' = "joining" /\ saver' = saver /\ titleStop' = TRUE
  /\ UNCHANGED <<opts, stop, core, hook, common, runError, modVars, sharedVars,
                 bootVars, title, timer>>

\* The save lock is tried, never waited for, and messages are pumped between.
SaveLanded ==
  /\ At("saving", "joining")
  /\ saver # "busy"
  /\ titleStop' = TRUE
  /\ UNCHANGED <<opts, stop, core, hook, common, runError, modVars, sharedVars,
                 bootVars, title, timer, saver>>

JoinTitle ==
  /\ At("joining", "stopping")
  /\ title \in {"none", "gone"}
  /\ title' = "none"
  /\ UNCHANGED <<opts, stop, core, hook, common, runError, modVars, sharedVars,
                 bootVars, titleStop, timer, saver>>

StopCore ==
  /\ At("stopping", "returning")
  /\ core' = FALSE
  /\ stop' = (stop \/ hook)
  /\ runError' = (saver = "failed")
  /\ UNCHANGED <<opts, hook, common, modVars, sharedVars, bootVars, threadVars>>

\* The auto-stop thread is joined as Run's locals go.
Return ==
  /\ At("returning", "ran")
  /\ timer \in {"none", "over"}
  /\ timer' = "none"
  /\ UNCHANGED <<opts, stop, core, hook, common, runError, modVars, sharedVars,
                 bootVars, title, titleStop, saver>>

Run == TakeBootData \/ NameArtifact \/ LayerAndName \/ BootCore \/ StartThreads
         \/ LeaveLoop \/ SaveLanded \/ JoinTitle \/ StopCore \/ Return

-----------------------------------------------------------------------------
(* The destructor. *)

StopAll ==
  /\ At("dtor", "unset")
  /\ stop' = TRUE /\ core' = FALSE /\ hook' = FALSE
  /\ common' = IF OwnsCommon THEN FALSE ELSE common
  /\ UNCHANGED <<opts, runError, modVars, sharedVars, bootVars, threadVars>>

Unpublish ==
  /\ At("unset", "members")
  /\ active' = FALSE /\ armed' = FALSE /\ seen' = FALSE
  /\ StartUnload
  /\ UNCHANGED <<opts, stop, core, hook, common, runError, external, bootData, bootVars,
                 threadVars>>

\* Members go in reverse order of declaration: the mods, then the platform.
UnloadMods ==
  /\ rt \in {"members", "rejected"}
  /\ OnUnload \/ NullSlots \/ CloseLibraries
  /\ rt' = IF modState' # "empty" THEN rt
           ELSE IF rt = "members" THEN "gone" ELSE "failed"
  /\ stop' = (stop /\ modState' # "empty")
  /\ UNCHANGED <<opts, core, hook, common, runError, sharedVars, bootVars,
                 threadVars>>

Destroy == StopAll \/ Unpublish \/ UnloadMods

HostMain == Create \/ Run \/ Destroy

-----------------------------------------------------------------------------
(* The other threads. *)

\* RequestStop, and what every other thread does to a runtime.
RequestStop == stop' = TRUE

\* As a bug would have it: the title thread is joined without pumping.
PumpingNoJoin == rt \in {"loop", "saving"}

\* The window's thread takes messages: in MainLoop and, by PumpShutdownMessages,
\* in the two waits after it.
Pumping == rt \in {"loop", "saving", "joining"}

TitleStarts ==
  /\ title = "resting"
  /\ title' = IF titleStop THEN "gone" ELSE "naming"
  /\ UNCHANGED <<opts, rt, stop, core, hook, common, runError, modVars, sharedVars,
                 bootVars, titleStop, timer, saver>>

TitleSet ==
  /\ title = "naming" /\ (SyncTitle => Pumping)
  /\ title' = "resting"
  /\ UNCHANGED <<opts, rt, stop, core, hook, common, runError, modVars, sharedVars,
                 bootVars, titleStop, timer, saver>>

Timer ==
  /\ timer = "armed" /\ timer' = "over"
  /\ IF rt = "returning" THEN stop' \in {stop, TRUE} ELSE RequestStop
  /\ UNCHANGED <<opts, rt, core, hook, common, runError, modVars, sharedVars,
                 bootVars, title, titleStop, saver>>

SaveEnds ==
  /\ saver = "busy" /\ saver' \in {"ok", "failed"}
  /\ UNCHANGED <<opts, rt, stop, core, hook, common, runError, modVars, sharedVars,
                 bootVars, title, titleStop, timer>>

\* The core goes down by itself, or the user closes the window.
CoreEnds ==
  /\ core /\ rt = "loop"
  /\ core' = FALSE /\ stop' = (stop \/ hook)
  /\ UNCHANGED <<opts, rt, hook, common, runError, modVars, sharedVars, bootVars,
                 threadVars>>

CloseGame ==
  /\ rt = "loop" /\ ~stop
  /\ RequestStop
  /\ UNCHANGED <<opts, rt, core, hook, common, runError, modVars, sharedVars, bootVars,
                 threadVars>>

-----------------------------------------------------------------------------
\* There is a Runtime to call, and until its members go a platform under it.
RuntimeLives  == rt \in {"created", "run", "hooked", "layered", "named", "threads",
                         "loop", "saving", "joining", "stopping", "returning", "ran"}
PlatformLives == RuntimeLives \/ rt \in {"platform", "dtor", "unset", "members"}

HostTypeOK ==
  /\ opts \in Options /\ rt \in Stages
  /\ \A b \in {active, stop, core, hook, common, external, bootData, armed, seen,
               titleStop, runError} : b \in BOOLEAN
  /\ booting \in {"plain", "state", "session"}
  /\ gameId \in {"none", "artifact", "real"} /\ layers \in {"none", "artifact", "real"}
  /\ title \in {"none", "resting", "naming", "gone"}
  /\ timer \in {"none", "armed", "over"}
  /\ saver \in {"none", "busy", "ok", "failed"}

\* Guest code only ever runs under the real disc's id and its settings, though
\* the boot of main.dol first invents an id, installs that id's settings after
\* the first title callback and repairs the id in the second
\* (dolphin_runtime.cpp:238).
LayersReal == core => gameId = "real" /\ layers = "real"
=============================================================================
