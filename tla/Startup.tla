------------------------------- MODULE Startup -------------------------------
(* The launcher and the runner with those around them: a user who starts the *)
(* one or the other, one at a time, and plays or changes something; devices  *)
(* and a drive that come and go; a build that ends; a disc image; files that *)
(* cannot be written; and processes that are killed.                         *)
EXTENDS Launcher

CONSTANTS
  Edited,      \* the ports whose bindings the user changes
  Drive,       \* a folder on a drive that can be unplugged
  MaxStarts,   \* bound on the starts
  FirstFiles(_)  \* [config, profile, saved, root] a user of a kind may begin with

Kinds == {"tuner", "binder", "player", "builder"}

\* The extraction writes below the program's own data, on no drive of its own.
ASSUME StartupAssumption ==
  /\ Drive \in Roots \ {Extracted} /\ MaxStarts \in Nat
  /\ \A kind \in Kinds : \A f \in FirstFiles(kind) : f.root \in [Roots -> Contents]

VARIABLES
  user,    \* what the user is about: "tuner", "binder", "player" or "builder"
  starts   \* how often a process was started

vars == <<diskVars, ex, finished, setupVars, at, padVars, listed, gameVars, goVars, run, user,
          starts>>

Init ==
  /\ user \in Kinds
  /\ \E f \in FirstFiles(user) :
       config = f.config /\ profile = f.profile /\ saved = f.saved /\ root = f.root
  /\ faults = 0 /\ starts = 0
  /\ ex = ExIdle /\ finished = NoRoot /\ SetupInit
  /\ LauncherInit /\ run = RunOff

\* One process is started at a time.
StartsOne ==
  /\ at = "off" /\ run = RunOff
  /\ starts < MaxStarts /\ starts' = starts + 1
  /\ \/ ReadSettings
     \/ user = "player" /\ ExtractOnly
     \/ /\ user \in {"binder", "player"}
        /\ \E net \in BOOLEAN : RunAlone(net)
        /\ UNCHANGED <<ex, finished, setupVars, launcherVars>>
  /\ UNCHANGED user

\* What the user of each kind does in the window.
Tunes ==
  \/ \E a \in Aspects : ChooseAspect(a)
  \/ \E v \in Values : ChooseOption(v)
  \/ \E r \in Resolutions : ChooseResolution(r)
  \/ \E typed \in {"good", "blank", "bad"} : Netplay("Host", typed)

Binds ==
  \/ \E i \in Edited : Disconnect(i) \/ ResetControls(i) \/ InvertAxis(i) \/ Capture(i)
                       \/ \E d \in Range(Devices) : BindPort(i, d)
  \/ Play \/ Netplay("Join", "good")

Plays == Play \/ ExtractAndPlay

LauncherStep ==
  /\ StartStep \/ FrameStep \/ EndStep
     \/ (user = "tuner" /\ Tunes) \/ (user = "binder" /\ Binds) \/ (user = "player" /\ Plays)
     \/ (user = "builder" /\ Play)
  /\ user = "binder" \/ listed' \in {{}, Range(Devices)}
  /\ user = "builder" \/ orphan' = NoChild
  /\ UNCHANGED <<starts, user>>

\* Only the builder's user looks at how a module is built.
BuildStep ==
  \/ user = "builder" /\ (ChildBuilds \/ OrphanBuilds \/ OrphanEnds)
  \/ user # "builder" /\ BuildsAtOnce

\* The extraction's thread, the build and the runner on their own.
OthersStep ==
  /\ \/ ExStep /\ UNCHANGED <<config, profile, setupVars, launcherVars, run>>
     \/ BuildStep /\ UNCHANGED <<module, diskVars, ex, finished, launcherVars, run>>
     \/ RunStep /\ UNCHANGED <<ex, finished, setupVars, launcherVars>>
  /\ UNCHANGED <<starts, user>>

Unplug ==
  /\ user = "player" /\ root[Drive] # "none"
  /\ root' = [root EXCEPT ![Drive] = "none"]
  /\ UNCHANGED <<config, profile, saved, faults, ex, finished, setupVars, launcherVars, run,
                 starts, user>>

Damage ==
  /\ user = "builder" /\ Pays(1)
  /\ Spoils
  /\ UNCHANGED <<config, profile, saved, root, ex, finished, module, launcherVars, run, starts,
                 user>>

Next == StartsOne \/ LauncherStep \/ OthersStep \/ Unplug \/ Damage

Spec == Init /\ [][Next]_vars

-----------------------------------------------------------------------------
(* Properties.                                                             *)

\* While the window is up, what it shows of the settings is what the next
\* start will read, whatever saves failed before: a combo box whose save fails
\* goes back to what the file still says.  Left out are a file that a failed
\* write cut, settings the next start will refuse, and a resolution that is
\* not in the list (which the next save replaces by the first of the list).
MemoryIsFile ==
  at \in {"poll", "events", "take", "widgets", "defer"} /\ config.by \in {"hand", "save"} =>
    \A c \in LoadText(config) :
      /\ c.aspect = mem.aspect /\ c.option = mem.option
      /\ c.res \in Range(SupportedResolutions) => c.res = mem.res

\* The module the launcher hands to the runner was built from the game it
\* hands over, through builds cancelled and started anew and extractions that
\* finish meanwhile; left out is the extraction that is taken while a build
\* asked for before it is under way, whose module is then used for it.
BootsAsBuilt == run.module # NoModule => run.module.game = run.game \/ run.raced

\* Wherever builders are killed or fail, and whatever is damaged between them, a
\* module is published only complete, and one that was published, delivered to
\* the launcher or given to the runner is not removed, moved or built over.
PublishedWhole ==
  [][/\ active' # active => dir'[active'] = "whole"
     /\ \A d \in {active, module.dir, run.module.dir} \ {NoDir} :
          dir'[d] \in {dir[d], "spoilt"}]_vars

\* A game folder that the launcher would accept is never taken away or spoilt
\* by an extraction into it, however that is interrupted.
AcceptedKept == [][Accepted(root[Extracted]) => Accepted(root'[Extracted])]_vars

\* A ratio that was written by a save is read again.
SavedReloads ==
  config.by = "save" /\ config.aspect # Absent => ParseAspectRatio(config.aspect) # {}
=============================================================================
