------------------------------ MODULE Launcher ------------------------------
(* The launcher's window (moderngekko_launcher.cpp): settings and controller *)
(* ports that are saved with every change, the choice of a game, and a loop  *)
(* whose frames poll the module build, hear of devices, take a finished      *)
(* extraction, serve one input of the user and decide whether to go on; and  *)
(* the thread of ExtractDisc, which turns a disc image into a game folder.   *)
EXTENDS ModuleBuild, Runner

CONSTANTS
  Extracted,     \* the folder the extraction writes
  Devices,       \* the input devices, each of a source of its own, the preferred first
  Aspects,       \* ratios the user picks, of SupportedAspectRatios
  Values,        \* values of Option the user picks
  Resolutions,   \* resolutions the user picks, listed ones
  Builder        \* the release carries the module builder

ASSUME ExtractedAssumption == Extracted \in Roots

ASSUME LauncherAssumption ==
  /\ Aspects \subseteq SupportedAspectRatios
  /\ Resolutions \subseteq Range(SupportedResolutions)
  /\ Values \subseteq DOMAIN Spellings[Option]

VARIABLES
  ex,        \* the extraction thread: where it is, what its staging folder holds
  finished,  \* ExtractionState.finished_game, until the window takes it
  at,        \* where the launcher is
  mem,       \* the settings in memory
  pads,      \* the ports in memory
  exists,    \* controller_profile_exists
  listed,    \* the devices enumerated last
  current,   \* current_game
  ready,     \* current_metadata: the game may be played
  done, mode, pending,   \* the loop's end, launch_mode, pending_launch
  built,     \* module_setup_ready
  raced      \* history: an extraction was taken while a module was being built

-----------------------------------------------------------------------------
(* ExtractDisc.  It keeps an extraction it would accept, else builds a new   *)
(* one next to it and puts that in its place, and writes down the folder for *)
(* the next start.                                                           *)

ExIdle == [at |-> "idle", staged |-> "none"]

ExGoes(from, to) == ex.at = from /\ ex' = [ex EXCEPT !.at = to]
ExFails(from)    == ex.at = from /\ ex' = ExIdle

\* The image is opened, and prepared when it is the accepted source disc.
ExPrepare ==
  /\ ExGoes("prepare", "existing") \/ ExFails("prepare")
  /\ UNCHANGED <<root, saved, finished, faults>>

\* An extraction that is there is patched, which a damaged executable and a
\* failed write refuse, and kept if it is then accepted.
KeepsNone(c) == FALSE   \* as a bug would have it: always extracted again
KeepsExisting(c) == Accepted(c)

ExExisting ==
  LET c == root[Extracted] IN
  /\ \/ /\ c = "none" \/ Patchable(c)
        /\ root' = [root EXCEPT ![Extracted] = PatchOf(c)]
        /\ IF KeepsExisting(PatchOf(c)) THEN ExGoes("existing", "save")
                                        ELSE ExGoes("existing", "export")
        /\ faults' = faults
     \/ /\ c # "none" /\ ~Patchable(c)
        /\ ExFails("existing")
        /\ UNCHANGED <<root, faults>>
     \/ /\ PatchOf(c) # c /\ Pays(1)
        /\ ExFails("existing")
        /\ UNCHANGED root
  /\ UNCHANGED <<saved, finished>>

\* The staging folder is made anew and filled, patched and inspected.  That
\* files could not be written is not looked at (the result of ExportDirectory
\* is dropped): the inspection has to notice.
ExExport ==
  /\ \/ /\ \E c \in {"plain", "wrong"} :
             /\ Pays(IF c = "plain" THEN 0 ELSE 1)
             /\ IF Accepted(PatchOf(c))
                THEN /\ ex.at = "export"
                     /\ ex' = [at |-> "remove", staged |-> PatchOf(c)]
                ELSE ExFails("export")
     \/ Pays(1) /\ ExFails("export")
  /\ UNCHANGED <<root, saved, finished>>

\* remove_all of what is there, of which a part may stay.
ExRemove ==
  /\ ExGoes("remove", "rename")
  /\ \/ root' = [root EXCEPT ![Extracted] = "none"] /\ faults' = faults
     \/ /\ root[Extracted] # "none" /\ Pays(1)
        /\ \E c \in {"nodol", "part"} : root' = [root EXCEPT ![Extracted] = c]
  /\ UNCHANGED <<saved, finished>>

ExRename ==
  /\ \/ /\ root[Extracted] = "none"
        /\ root' = [root EXCEPT ![Extracted] = ex.staged]
        /\ ExGoes("rename", "save") /\ faults' = faults
     \/ /\ Pays(IF root[Extracted] = "none" THEN 1 ELSE 0)
        /\ ExFails("rename") /\ UNCHANGED root
  /\ UNCHANGED <<saved, finished>>

\* The folder is written down and handed to the window, which may take it
\* before the thread is over.
ExSave ==
  \E w \in WriteDefaultGame(Extracted) :
    /\ w.alive /\ Pays(w.fault)
    /\ saved' = w.file
    /\ IF w.ok THEN ExGoes("save", "end") /\ finished' = Extracted
               ELSE ExFails("save") /\ UNCHANGED finished
    /\ UNCHANGED root

ExEnd == ExFails("end") /\ UNCHANGED <<root, saved, finished, faults>>

ExStep == ExPrepare \/ ExExisting \/ ExExport \/ ExRemove \/ ExRename \/ ExSave \/ ExEnd

\* What a death of the process leaves of a folder that is being removed, and
\* of a file that is being written.
CutRoots ==
  IF ex.at = "remove" /\ root[Extracted] # "none"
  THEN {[root EXCEPT ![Extracted] = c] : c \in {"none", "nodol", "part"}}
  ELSE {}
CutSaved == IF ex.at = "save" THEN {NoRoot, "junk"} ELSE {}

-----------------------------------------------------------------------------
(* The window.                                                               *)

padVars  == <<mem, pads, exists>>
gameVars == <<current, ready>>
goVars   == <<done, mode, pending, built, raced>>
diskVars == <<config, profile, saved, root, faults>>
launcherVars == <<at, padVars, listed, gameVars, goVars>>

\* at: "off", "extract", "start", "devices", then the frames' "poll", "events",
\* "replug", "take", "widgets", "defer", and "join", "launch", "waiting".
\* mode: "None", "Solo", "Host", "Join".

LauncherInit ==
  /\ at = "off"
  /\ mem = DefaultConfig /\ pads = NoProfile.port /\ exists = FALSE /\ listed = {}
  /\ current = NoRoot /\ ready = FALSE
  /\ done = FALSE /\ mode = "None" /\ pending = "None" /\ built = FALSE /\ raced = FALSE

\* The process is gone, with its thread and all it held.
Forgotten ==
  /\ at' = "off"
  /\ mem' = DefaultConfig /\ pads' = NoProfile.port /\ exists' = FALSE /\ listed' = {}
  /\ current' = NoRoot /\ ready' = FALSE
  /\ done' = FALSE /\ mode' = "None" /\ pending' = "None" /\ built' = FALSE /\ raced' = FALSE
  /\ ex' = ExIdle /\ finished' = NoRoot

Gone   == Forgotten /\ Closed
Killed == Forgotten /\ Left

\* Snapped: the list stands at its first entry for a resolution not in it.
Snapped(r) == IF r \in Range(SupportedResolutions) THEN r ELSE SupportedResolutions[1]

BoundDevices(p) == Named([i \in Ports |-> p[i].device])

\* sync_config
SyncConfig(c, p) == [c EXCEPT !.res = Snapped(c.res), !.pads = BoundDevices(p)]

-----------------------------------------------------------------------------
(* Saving.  A result is the files and the memory after it, whether it went   *)
(* well, and what of the faults it took.                                     *)

Result(pf, cf, m, p, x, w, fault) ==
  [profile |-> pf, config |-> cf, mem |-> m, pads |-> p, exists |-> x,
   ok |-> w.ok, alive |-> w.alive, fault |-> fault]

Well == Outcome(NoFile, TRUE, TRUE, 0)
Badly == Outcome(NoFile, FALSE, TRUE, 0)

\* The result becomes the state, and then what a success or a failure is
\* followed by; or the process died in it.
Serve(r, Then(_)) ==
  /\ Pays(r.fault)
  /\ profile' = r.profile /\ config' = r.config
  /\ IF r.alive THEN mem' = r.mem /\ pads' = r.pads /\ exists' = r.exists /\ Then(r.ok)
                ELSE Killed
  /\ UNCHANGED <<saved, root, run>>

\* A change of a setting: saved, and taken back when the save fails.
SettingStays(new, back) ==   \* as a bug would have it
  {Result(profile, w.file, new, pads, exists, w, w.fault) : w \in SaveConfig(config, new)}
SettingResults(new, back) ==
  {Result(profile, w.file, IF w.ok THEN new ELSE back, pads, exists, w, w.fault) :
     w \in SaveConfig(config, new)}

\* config.ini with the ports p, after a write w of the profile.
Mirror(w, c, p) ==
  {Result(w.file, v.file, SyncConfig(c, p), p, TRUE, v, w.fault + v.fault) :
     v \in SaveConfig(config, SyncConfig(c, p))}

\* persist_controllers: the profile, then config.ini with the same ports.  The
\* ports in memory stay as they are when one of the two fails.
PersistControllers(p, x) ==
  UNION {IF w.ok THEN Mirror(w, mem, p) ELSE {Result(w.file, config, mem, p, x, w, w.fault)} :
           w \in SaveControllerProfile(profile, p)}

\* device_available and pick_fallback_device
Fallback(there) == SelectSeq(Devices, LAMBDA d : d \in there)

\* bootstrap_port1: a device for a profile without one: the configured one if
\* it is there, or the best there is.
BootstrapPort1(there, p, x) ==
  LET configured == mem.pads # <<>> /\ mem.pads[1] \in there
      device == IF configured THEN mem.pads[1] ELSE Head(Fallback(there))
  IN IF ~configured /\ Fallback(there) = <<>>
     THEN {Result(profile, config, mem, p, x, Badly, 0)}
     ELSE UNION {IF w.ok THEN Mirror(w, mem, ReadControllerProfile(w.file))
                 ELSE {Result(w.file, config, mem, p, x, w, w.fault)} :
                   w \in EnsureControllerConfig(profile, <<device>>)}

\* ensure_controller: the profile is read again; without a device in it, port 1
\* gets one, and when the device of port 1 is not there another takes its
\* place, with its own mapping.
EnsureController ==
  LET p == ReadControllerProfile(profile)
      x == ControllerConfigExists(profile)
      instead == Fallback(listed)
  IN IF ~x THEN BootstrapPort1(listed, p, x)
     ELSE IF p[1].device # "" /\ p[1].device \notin listed /\ instead # <<>>
     THEN PersistControllers([p EXCEPT ![1] = Bound(instead[1])], x)
     ELSE {Result(profile, config, mem, p, x, Well, 0)}

\* refresh_controllers: a profile that has a device is left alone.
RefreshControllers(there) ==
  IF exists THEN {Result(profile, config, mem, pads, exists, Well, 0)}
  ELSE BootstrapPort1(there, pads, exists)

-----------------------------------------------------------------------------
(* The start.                                                              *)

\* Only an extraction is asked for: no window, no settings.
ExtractOnly ==
  /\ at = "off" /\ at' = "extract"
  /\ ex' = [ExIdle EXCEPT !.at = "prepare"]
  /\ UNCHANGED <<diskVars, finished, setupVars, padVars, listed, gameVars, goVars, run>>

ExtractOnlyEnds ==
  /\ at = "extract" /\ ex = ExIdle
  /\ Gone /\ UNCHANGED <<diskVars, run>>

\* The settings are loaded or, without a file, written; settings that are
\* refused end it.
ReadSettings ==
  /\ at = "off"
  /\ \E l \in LoadConfig(config) :
       /\ Pays(l.write.fault)
       /\ config' = l.write.file
       /\ IF l.write.alive /\ l.config # {} THEN at' = "start" /\ mem' \in l.config
                                            ELSE UNCHANGED <<at, mem>>
  /\ UNCHANGED <<profile, saved, root, ex, finished, setupVars, pads, exists, listed, gameVars,
                 goVars, run>>

\* The folder written down is patched and inspected, the ports are read.
OpenWindow ==
  /\ at = "start" /\ at' = "devices"
  /\ current' = SavedRoot
  /\ LET c == Held(SavedRoot) IN
     \/ /\ root' = [r \in Roots |-> IF r = SavedRoot THEN PatchOf(c) ELSE root[r]]
        /\ ready' = Accepted(PatchOf(c)) /\ faults' = faults
     \/ /\ PatchOf(c) # c /\ Pays(1)
        /\ ready' = FALSE /\ root' = root
  /\ pads' = ReadControllerProfile(profile)
  /\ exists' = ControllerConfigExists(profile)
  /\ UNCHANGED <<config, profile, saved, ex, finished, setupVars, mem, listed, goVars, run>>

\* The devices are listed: before the first frame, and when some come or go.
Relist(from, to) ==
  /\ at = from
  /\ \E there \in SUBSET Range(Devices) : \E r \in RefreshControllers(there) :
       Serve(r, LAMBDA ok : /\ at' = to /\ listed' = there
                            /\ UNCHANGED <<ex, finished, setupVars, gameVars, goVars>>)

-----------------------------------------------------------------------------
(* A frame.                                                                *)

\* The build is looked at: with a module to show for it, what was asked for
\* before it goes on.
PollSetup ==
  /\ at = "poll" /\ at' = "events"
  /\ Poll
  /\ pending' = IF Ended(child) THEN "None" ELSE pending
  /\ IF Ended(child) /\ module' # NoModule
     THEN built' = TRUE /\ mode' = pending /\ done' = TRUE
     ELSE UNCHANGED <<built, mode, done>>
  /\ UNCHANGED <<diskVars, ex, finished, padVars, listed, gameVars, raced, run>>

\* The window may be closed, devices may have come or gone.
Events ==
  /\ at = "events" /\ at' \in {"replug", "take"}
  /\ done' \in {done, TRUE}
  /\ UNCHANGED <<diskVars, ex, finished, setupVars, padVars, listed, gameVars, mode, pending,
                 built, raced, run>>

\* A finished extraction becomes the game and is played, if there is a
\* controller; also while a build asked for earlier is under way.
TakeExtraction ==
  /\ at = "take"
  /\ IF finished = NoRoot
     THEN /\ at' = "widgets"
          /\ UNCHANGED <<diskVars, ex, finished, setupVars, padVars, listed, gameVars, goVars,
                         run>>
     ELSE \E r \in EnsureController :
            Serve(r, LAMBDA ok :
              /\ at' = "widgets" /\ finished' = NoRoot
              /\ current' = finished /\ ready' = Accepted(root[finished])
              /\ raced' = (raced \/ (current # finished /\ (built \/ (Running /\ pending # "None"))))
              /\ IF ok THEN mode' = "Solo" /\ done' = TRUE ELSE UNCHANGED <<mode, done>>
              /\ UNCHANGED <<ex, setupVars, listed, pending, built>>)

\* An input is served by saving, and the frame goes on.
Input(results) ==
  /\ at = "widgets"
  /\ \E r \in results :
       Serve(r, LAMBDA ok : /\ at' = "defer"
                            /\ UNCHANGED <<ex, finished, setupVars, listed, gameVars, goVars>>)

\* An input that launches the game when it is served well.
Launches(results, how) ==
  /\ at = "widgets" /\ ~Running /\ ready
  /\ \E r \in results :
       Serve(r, LAMBDA ok :
         /\ at' = "defer"
         /\ IF ok THEN mode' = how /\ done' = TRUE ELSE UNCHANGED <<mode, done>>
         /\ UNCHANGED <<ex, finished, setupVars, listed, gameVars, pending, built, raced>>)

NoInput == Input({Result(profile, config, mem, pads, exists, Well, 0)})

\* A combo box or check box of the settings; the widgets are off during a build.
Choose(field, value) ==
  LET new == SyncConfig([mem EXCEPT ![field] = value], pads)
  IN ~Running /\ Input(SettingResults(new, [new EXCEPT ![field] = mem[field]]))
ChooseAspect(ratio) == Choose("aspect", ratio)
ChooseOption(value) == Choose("option", value)
ChooseResolution(r) ==
  LET new == SyncConfig([mem EXCEPT !.res = r], pads)
  IN ~Running /\ Input(SettingResults(new, [new EXCEPT !.res = Snapped(mem.res)]))

\* A port is turned off, bound to a listed device (with the controls it has),
\* has its controls reset, or its camera axis turned, which is taken back when
\* it cannot be saved.
Ported(i, pad) == PersistControllers([pads EXCEPT ![i] = pad], exists)

Disconnect(i) == ~Running /\ Input(Ported(i, Off))
BindPort(i, device) ==
  /\ ~Running /\ device \in listed
  /\ Input(Ported(i, Merged(pads, [j \in {i} |-> device])[i]))
ResetControls(i) ==
  /\ ~Running /\ pads[i].device # ""
  /\ Input(Ported(i, Bound(pads[i].device)))
InvertAxis(i) ==
  /\ ~Running /\ pads[i].controls \notin {"", "own"}
  /\ Input({IF r.ok THEN r ELSE [r EXCEPT !.pads = ReadControllerProfile(r.profile)] :
              r \in Ported(i, [pads[i] EXCEPT !.controls = "own"])})

\* A control was pressed for the binding that waits for one; the wait goes on
\* during a build.
Capture(i) ==
  /\ pads[i].controls # ""
  /\ Input(Ported(i, [pads[i] EXCEPT !.controls = "own"]))

Play == Launches(EnsureController, "Solo")

\* Host and Join: with what is in the netplay fields, which stays in memory
\* when it cannot be saved.
NetplayResults(typed) ==
  UNION {LET c == SyncConfig([r.mem EXCEPT !.netplay = typed], r.pads)
         IN IF ~r.ok THEN {r}
            ELSE {[r EXCEPT !.config = w.file, !.mem = c, !.ok = w.ok, !.alive = w.alive,
                            !.fault = r.fault + w.fault] : w \in SaveConfig(r.config, c)} :
           r \in EnsureController}
Netplay(how, typed) == Launches(NetplayResults(typed), how)

ExtractAndPlay ==
  /\ at = "widgets" /\ ~Running /\ ex = ExIdle
  /\ at' = "defer"
  /\ ex' = [ExIdle EXCEPT !.at = "prepare"] /\ finished' = NoRoot
  /\ UNCHANGED <<diskVars, setupVars, padVars, listed, gameVars, goVars, run>>

CancelSetup ==
  /\ at = "widgets" /\ Running
  /\ at' = "defer"
  /\ Cancel /\ pending' = "None"
  /\ UNCHANGED <<diskVars, ex, finished, padVars, listed, gameVars, done, mode, built, raced,
                 run>>

\* A launch waits for the module to be built, when the release can build it.
Defer ==
  /\ at = "defer"
  /\ IF done /\ mode # "None" /\ ~built /\ Builder
     THEN /\ at' = "poll"
          /\ pending' = mode /\ mode' = "None" /\ done' = FALSE
          /\ IF Running THEN UNCHANGED setupVars ELSE Start(current)
     ELSE /\ at' = IF done THEN "join" ELSE "poll"
          /\ UNCHANGED <<pending, mode, done, setupVars>>
  /\ UNCHANGED <<diskVars, ex, finished, padVars, listed, gameVars, built, raced, run>>

-----------------------------------------------------------------------------
(* The end: the extraction is waited for, a build is cancelled, and the game *)
(* is written down and started.                                              *)

Join ==
  /\ at = "join" /\ ex = ExIdle
  /\ IF mode = "None" THEN Gone
     ELSE /\ at' = "launch" /\ Cancel
          /\ UNCHANGED <<ex, finished, padVars, listed, gameVars, goVars>>
  /\ UNCHANGED <<diskVars, run>>

Launch ==
  /\ at = "launch"
  /\ \E w \in WriteDefaultGame(current) :
       /\ Pays(w.fault)
       /\ saved' = w.file
       /\ \/ /\ w.ok /\ w.alive
             /\ at' = "waiting"
             /\ run' = Spawned(current, mode # "Solo", IF built THEN module ELSE NoModule, raced)
             /\ UNCHANGED <<ex, finished, setupVars, padVars, listed, gameVars, goVars>>
          \/ w.alive /\ Gone /\ UNCHANGED run
          \/ ~w.alive /\ Killed /\ UNCHANGED run
  /\ UNCHANGED <<config, profile, root>>

RunnerOver ==
  /\ at = "waiting" /\ run = RunOff
  /\ Gone /\ UNCHANGED <<diskVars, run>>

\* The process is killed, also in the middle of what its thread is writing.
Die ==
  /\ at # "off"
  /\ Killed
  /\ \/ saved' = saved /\ root' \in {root} \cup CutRoots
     \/ saved' \in CutSaved /\ root' = root
  /\ UNCHANGED <<config, profile, faults, run>>

StartStep == OpenWindow \/ Relist("devices", "poll") \/ ExtractOnlyEnds
FrameStep == PollSetup \/ Events \/ Relist("replug", "take") \/ TakeExtraction \/ NoInput
             \/ CancelSetup \/ Defer
EndStep   == Join \/ Launch \/ RunnerOver \/ Die
=============================================================================
