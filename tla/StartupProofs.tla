--------------------------- MODULE StartupProofs ---------------------------
(***************************************************************************)
(* Theorems about Startup, for any folders, attempts, devices, files to    *)
(* begin with and writes that go wrong: a published module stays whole, a  *)
(* game folder that would be accepted is not taken away, the runner gets   *)
(* the module of its game, and the window shows what the next start reads. *)
(***************************************************************************)
EXTENDS Startup, TLAPS

-----------------------------------------------------------------------------
(* The inductive invariant.                                                *)

Folders == Roots \cup {NoRoot}
Places  == Dirs \cup {NoDir}
Modules == [game : Folders, dir : Places]

Builders ==
  [at : {"none", "busy", "waits", "finds", "makes", "moves", "points", "publishes", "built",
         "broken"},
   game : Folders, dir : Places]

\* What a builder works on, when the directories hold f.
WorksOn(b, f) ==
  /\ b.at \in {"busy", "waits", "finds"} => b.dir = NoDir
  /\ b.at = "makes" => b.dir \in Attempts /\ f[b.dir] = "cut"
  /\ b.at = "moves" => b.dir \in Attempts
  /\ b.at \in {"moves", "points", "publishes"} => b.dir # NoDir /\ f[b.dir] = "whole"
  /\ b.at = "built" /\ b.dir # NoDir => f[b.dir] \in {"whole", "spoilt"}

\* Two builders, of which one has the lock, and the directories K of modules
\* that are in use: these stay what they are, since an attempt that will be
\* renamed is nobody else's.
Apart(b, o, K) ==
  /\ ~(Locked(b) /\ Locked(o))
  /\ b.at = "moves" => b.dir \notin K /\ (o.at = "built" => b.dir # o.dir)
  /\ o.at = "moves" => o.dir \notin K /\ (b.at = "built" => o.dir # b.dir)

InUse == {pointer, active, module.dir, run.module.dir} \ {NoDir}

SetupTyped ==
  /\ dir \in [Dirs -> {"none", "cut", "whole", "spoilt"}]
  /\ pointer \in Places /\ active \in Places
  /\ child \in Builders /\ orphan \in Builders /\ module \in Modules

SetupInv ==
  /\ SetupTyped
  /\ WorksOn(child, dir) /\ WorksOn(orphan, dir) /\ Apart(child, orphan, InUse)
  /\ \A d \in InUse : dir[d] \in {"whole", "spoilt"}

\* The runner, which starts where the launcher waits or is not there, and never
\* asks for another folder than the one it was given.
RunTyped ==
  /\ run = [at |-> run.at, game |-> run.game, cli |-> run.cli, net |-> run.net,
            module |-> run.module, raced |-> run.raced, settings |-> run.settings]
  /\ run.game \in Folders /\ run.module \in Modules

RunInv ==
  /\ RunTyped
  /\ run # RunOff => at \in {"off", "waiting"}
  /\ run.module # NoModule => run.cli /\ (run.module.game = run.game \/ run.raced)
  /\ run.at \in {"asks", "asks-again"} => ~run.cli

\* What will be played, and for which game its module is being built.
GoInv ==
  /\ current \in Folders
  /\ at \in {"off", "extract", "start", "devices"} => child = NoChild /\ ~built
  /\ Running => ~built /\ pending # "None" /\ (child.game = current \/ raced)
  /\ built => module.game = current \/ raced

\* The game folders, and the one the extraction is about to replace.
RootInv ==
  /\ root \in [Roots -> Contents] /\ finished \in Folders
  /\ ex \in [at : {"idle", "prepare", "existing", "export", "remove", "rename", "save", "end"},
             staged : Contents]
  /\ at \in {"off", "start", "devices", "launch", "waiting"} => ex = ExIdle
  /\ ex.at \in {"export", "remove", "rename"} => ~Accepted(root[Extracted])

\* The settings in memory, from the moment they are read.
IsAspect(a) ==
  a = Unset \/ a \in {Ratio(k) : k \in DOMAIN RatioWords} \/ a = Custom(a.w, a.h)

IsSettings(m) ==
  /\ m = [res |-> m.res, aspect |-> m.aspect, option |-> m.option, netplay |-> m.netplay,
          pads |-> m.pads]
  /\ IsAspect(m.aspect)
  /\ m.option \in {"unset"} \cup DOMAIN Spellings[Option]

\* What a file says is what memory holds.
Agrees(f, m) ==
  f.by \in {"hand", "save"} =>
    \A c \in LoadText(f) :
      /\ c.aspect = m.aspect /\ c.option = m.option
      /\ c.res \in Range(SupportedResolutions) => c.res = m.res

Shown == {"start", "devices", "poll", "events", "replug", "take", "widgets", "defer"}

MemInv == at \in Shown => IsSettings(mem) /\ Agrees(config, mem)

IInv == SetupInv /\ RunInv /\ GoInv /\ RootInv /\ MemInv

-----------------------------------------------------------------------------
(* The builders.                                                           *)

\* What a step of builder b to n, while o stands still, keeps: what each works
\* on, and what is in use.
Keeps(b, n, o) ==
  /\ dir' \in [Dirs -> {"none", "cut", "whole", "spoilt"}]
  /\ pointer' \in Places /\ active' \in Places
  /\ WorksOn(n, dir') /\ WorksOn(o, dir') /\ Apart(n, o, InUse')
  /\ \A d \in InUse' : dir'[d] \in {"whole", "spoilt"}
  /\ \A d \in InUse : dir'[d] = dir[d]
  /\ active' # active => dir'[active'] = "whole"
  /\ n.at # "none" /\ n.game = b.game

LEMMA InUseDirs == ASSUME SetupTyped, RunTyped PROVE InUse \subseteq Dirs
  BY DEF SetupTyped, RunTyped, InUse, Modules, Places

LEMMA BuilderStep ==
  ASSUME SetupInv, RunTyped, NEW b \in Builders, NEW n \in Builders, NEW o \in Builders,
         WorksOn(b, dir), WorksOn(o, dir), Apart(b, o, InUse),
         b.at = "waits" /\ n.at = "finds" => ~Locked(o),
         Builds(b, n), UNCHANGED <<module, run>>
  PROVE  Keeps(b, n, o)
<1> USE DEF SetupInv, SetupTyped, WorksOn, Apart, InUse, Builders, Locked, Places, Dirs, Keeps
<1>0. NoDir \notin Dirs /\ InUse \subseteq Dirs
  BY BuildAssumption, InUseDirs
<1>1. CASE Checks(b, n)
  BY <1>0, <1>1 DEF Checks, buildVars
<1>2. CASE Locks(b, n)
  BY <1>0, <1>2 DEF Locks, buildVars
<1>3. CASE Finds(b, n)
  <2>1. CASE /\ dir[Artifact] = "whole" /\ n = [b EXCEPT !.at = "publishes", !.dir = Artifact]
             /\ UNCHANGED <<dir, pointer, active>>
    BY <1>0, <1>3, <2>1 DEF Finds, Artifact
  <2>2. ASSUME NEW d \in Attempts, Swept[d] = "none", dir' = [Swept EXCEPT ![d] = "cut"],
               n = [b EXCEPT !.at = "makes", !.dir = d], UNCHANGED <<pointer, active>>
        PROVE  Keeps(b, n, o)
    <3>1. dir[d] \in {"none", "cut"}
      BY <2>2 DEF Swept, Stale
    <3>2. \A e \in Dirs : dir[e] \in {"whole", "spoilt"} => dir'[e] = dir[e]
      BY <2>2, <3>1 DEF Swept, Stale
    <3>3. dir'[d] = "cut"
      BY <2>2 DEF Swept
    <3>4. dir' \in [Dirs -> {"none", "cut", "whole", "spoilt"}]
      BY <2>2 DEF Swept
    <3>5. InUse' = InUse
      BY <2>2
    <3>6. \A e \in InUse : dir'[e] = dir[e] /\ dir[e] \in {"whole", "spoilt"}
      BY <1>0, <3>2
    <3>7. WorksOn(o, dir')
      BY <1>0, <1>3, <3>2 DEF Finds
    <3>8. WorksOn(n, dir') /\ Apart(n, o, InUse')
      BY <1>0, <1>3, <2>2, <3>3, <3>5 DEF Finds
    <3> HIDE DEF InUse, WorksOn, Apart
    <3> QED BY <2>2, <3>4, <3>5, <3>6, <3>7, <3>8
  <2> QED BY <1>3, <2>1, <2>2 DEF Finds
<1>4. CASE Makes(b, n)
  BY <1>0, <1>4 DEF Makes
<1>5. CASE Moves(b, n)
  <2>1. CASE UNCHANGED dir
    BY <1>0, <1>5, <2>1 DEF Moves, Artifact
  <2>2. CASE /\ dir[Artifact] = "none" /\ n = [b EXCEPT !.at = "points", !.dir = Artifact]
             /\ dir' = [dir EXCEPT ![Artifact] = "whole", ![b.dir] = "none"]
    <3> DEFINE a == Artifact
    <3>0. a \in Dirs /\ b.dir \in Dirs /\ a # b.dir
      BY <1>0, <1>5, <2>2 DEF Moves, Artifact
    <3>1. \A e \in Dirs : e # b.dir /\ dir[e] # "none" => dir'[e] = dir[e]
      BY <2>2, <3>0
    <3>2. dir'[a] = "whole"
      BY <2>2, <3>0
    <3>3. dir' \in [Dirs -> {"none", "cut", "whole", "spoilt"}]
      BY <2>2, <3>0
    <3>4. InUse' = InUse
      BY <1>5 DEF Moves
    <3>5. \A e \in InUse : dir'[e] = dir[e] /\ dir[e] \in {"whole", "spoilt"}
      BY <1>0, <1>5, <3>1 DEF Moves
    <3>6. WorksOn(o, dir')
      BY <1>0, <1>5, <3>1 DEF Moves
    <3>7. WorksOn(n, dir') /\ Apart(n, o, InUse')
      BY <1>0, <1>5, <2>2, <3>0, <3>2, <3>4 DEF Moves
    <3> HIDE DEF InUse, WorksOn, Apart
    <3> QED BY <1>5, <2>2, <3>3, <3>4, <3>5, <3>6, <3>7 DEF Moves
  <2> QED BY <1>5, <2>1, <2>2 DEF Moves
<1>6. CASE Points(b, n)
  BY <1>0, <1>6 DEF Points
<1>7. CASE Publishes(b, n)
  BY <1>0, <1>7 DEF Publishes
<1>8. CASE Breaks(b, n)
  BY <1>0, <1>8 DEF Breaks, Ended, buildVars
<1> QED BY <1>1, <1>2, <1>3, <1>4, <1>5, <1>6, <1>7, <1>8 DEF Builds

-----------------------------------------------------------------------------
(* The steps that serve a change of the settings or the ports: the launcher *)
(* goes on with nothing but its files, settings and ports changed, or dies. *)

Over ==
  /\ Forgotten /\ child' = NoChild /\ module' = NoModule /\ UNCHANGED buildVars
  /\ orphan' \in {orphan, IF orphan = NoChild THEN child ELSE orphan}

Dies == Over /\ UNCHANGED <<saved, root, run>>

LEMMA GoneOver == Gone \/ Killed => Over
  BY DEF Gone, Killed, Closed, Left, Over

\* What a served change leaves alone.
Calm == UNCHANGED <<ex, finished, setupVars, current, ready, pending, built, raced, saved,
                    root, run>>

Passes(from, to) == at = from /\ at' = to

Serves ==
  Relist("devices", "poll") \/ Relist("replug", "take") \/ NoInput \/ Tunes \/ Binds \/ Play

LEMMA InputIs ==
  ASSUME NEW results, Input(results)
  PROVE  /\ (Calm /\ Passes("widgets", "defer")) \/ Dies
         /\ \E r \in results : config' = r.config /\ (at' # "off" => mem' = r.mem)
<1>1. PICK r \in results :
        Serve(r, LAMBDA ok : /\ at' = "defer"
                             /\ UNCHANGED <<ex, finished, setupVars, listed, gameVars, goVars>>)
  BY Zenon DEF Input
<1>2. config' = r.config /\ UNCHANGED <<saved, root, run>>
  BY <1>1, Zenon DEF Serve
<1>3. CASE r.alive
  <2>1. mem' = r.mem /\ at' = "defer"
        /\ UNCHANGED <<ex, finished, setupVars, listed, gameVars, goVars>>
    BY <1>1, <1>3, Zenon DEF Serve
  <2> QED BY <1>2, <2>1 DEF Input, Calm, Passes, gameVars, goVars
<1>4. CASE ~r.alive
  <2>1. Killed
    BY <1>1, <1>4, Zenon DEF Serve
  <2> QED BY <1>2, <2>1, GoneOver DEF Dies, Killed, Forgotten
<1> QED BY <1>3, <1>4

LEMMA LaunchesIs ==
  ASSUME NEW results, NEW how, Launches(results, how)
  PROVE  /\ (Calm /\ Passes("widgets", "defer")) \/ Dies
         /\ \E r \in results : config' = r.config /\ (at' # "off" => mem' = r.mem)
<1>1. PICK r \in results :
        Serve(r, LAMBDA ok :
         /\ at' = "defer"
         /\ IF ok THEN mode' = how /\ done' = TRUE ELSE UNCHANGED <<mode, done>>
         /\ UNCHANGED <<ex, finished, setupVars, listed, gameVars, pending, built, raced>>)
  BY Zenon DEF Launches
<1>2. config' = r.config /\ UNCHANGED <<saved, root, run>>
  BY <1>1, Zenon DEF Serve
<1>3. CASE r.alive
  <2>1. mem' = r.mem /\ at' = "defer"
        /\ UNCHANGED <<ex, finished, setupVars, listed, gameVars, pending, built, raced>>
    BY <1>1, <1>3, Zenon DEF Serve
  <2> QED BY <1>2, <2>1 DEF Launches, Calm, Passes, gameVars
<1>4. CASE ~r.alive
  <2>1. Killed
    BY <1>1, <1>4, Zenon DEF Serve
  <2> QED BY <1>2, <2>1, GoneOver DEF Dies, Killed, Forgotten
<1> QED BY <1>3, <1>4

LEMMA RelistIs ==
  ASSUME NEW from, NEW to, Relist(from, to)
  PROVE  /\ (Calm /\ Passes(from, to)) \/ Dies
         /\ \E there \in SUBSET Range(Devices) : \E r \in RefreshControllers(there) :
              config' = r.config /\ (at' # "off" => mem' = r.mem)
<1>1. PICK there \in SUBSET Range(Devices) : \E r \in RefreshControllers(there) :
        Serve(r, LAMBDA ok : /\ at' = to /\ listed' = there
                             /\ UNCHANGED <<ex, finished, setupVars, gameVars, goVars>>)
  BY Zenon DEF Relist
<1>2. PICK r \in RefreshControllers(there) :
        Serve(r, LAMBDA ok : /\ at' = to /\ listed' = there
                             /\ UNCHANGED <<ex, finished, setupVars, gameVars, goVars>>)
  BY <1>1, Zenon
<1>3. config' = r.config /\ UNCHANGED <<saved, root, run>>
  BY <1>2, Zenon DEF Serve
<1>4. CASE r.alive
  <2>1. mem' = r.mem /\ at' = to /\ UNCHANGED <<ex, finished, setupVars, gameVars, goVars>>
    BY <1>2, <1>4, Zenon DEF Serve
  <2>2. Calm /\ Passes(from, to)
    BY <1>3, <2>1 DEF Relist, Calm, Passes, gameVars, goVars
  <2> QED BY <1>3, <2>1, <2>2, Zenon
<1>5. CASE ~r.alive
  <2>1. Killed
    BY <1>2, <1>5, Zenon DEF Serve
  <2>2. Dies /\ at' = "off"
    BY <1>3, <2>1, GoneOver DEF Dies, Killed, Forgotten
  <2> QED BY <1>3, <2>2, Zenon
<1> QED BY <1>4, <1>5

\* An extraction that was finished becomes the game.
Takes ==
  /\ Passes("take", "widgets") /\ finished # NoRoot /\ finished' = NoRoot /\ current' = finished
  /\ raced' = (raced \/ (current # finished /\ (built \/ (Running /\ pending # "None"))))
  /\ UNCHANGED <<ex, setupVars, pending, built, saved, root, run>>

LEMMA TakeIs ==
  ASSUME TakeExtraction
  PROVE  \/ Calm /\ Passes("take", "widgets") /\ UNCHANGED <<config, mem>>
         \/ /\ Takes \/ Dies
            /\ \E r \in EnsureController : config' = r.config /\ (at' # "off" => mem' = r.mem)
<1>1. CASE finished = NoRoot
  BY <1>1 DEF TakeExtraction, Calm, Passes, diskVars, padVars, gameVars, goVars
<1>2. CASE finished # NoRoot
  <2>1. PICK r \in EnsureController :
            Serve(r, LAMBDA ok :
              /\ at' = "widgets" /\ finished' = NoRoot
              /\ current' = finished /\ ready' = Accepted(root[finished])
              /\ raced' = (raced \/ (current # finished /\ (built \/ (Running /\ pending # "None"))))
              /\ IF ok THEN mode' = "Solo" /\ done' = TRUE ELSE UNCHANGED <<mode, done>>
              /\ UNCHANGED <<ex, setupVars, listed, pending, built>>)
    BY <1>2, Zenon DEF TakeExtraction
  <2>2. config' = r.config /\ UNCHANGED <<saved, root, run>>
    BY <2>1, Zenon DEF Serve
  <2>3. CASE r.alive
    <3>1. /\ mem' = r.mem /\ at' = "widgets" /\ finished' = NoRoot /\ current' = finished
          /\ raced' = (raced \/ (current # finished /\ (built \/ (Running /\ pending # "None"))))
          /\ UNCHANGED <<ex, setupVars, pending, built>>
      BY <2>1, <2>3, Zenon DEF Serve
    <3>2. Takes
      BY <1>2, <2>2, <3>1, Zenon DEF TakeExtraction, Takes, Passes
    <3> QED BY <2>2, <3>1, <3>2, Zenon
  <2>4. CASE ~r.alive
    <3>1. Killed
      BY <2>1, <2>4, Zenon DEF Serve
    <3>2. Dies /\ at' = "off"
      BY <2>2, <3>1, GoneOver DEF Dies, Killed, Forgotten
    <3> QED BY <2>2, <3>2, Zenon
  <2> QED BY <2>3, <2>4
<1> QED BY <1>1, <1>2

-----------------------------------------------------------------------------
(* What the steps do to the builders.                                      *)

\* What is asked of a step.
PublishedStep ==
  /\ active' # active => dir'[active'] = "whole"
  /\ \A d \in {active, module.dir, run.module.dir} \ {NoDir} : dir'[d] \in {dir[d], "spoilt"}

SetupKept == SetupInv' /\ PublishedStep

\* Nothing happens, but that the runner may be given the launcher's module.
LEMMA SetupRests ==
  ASSUME SetupInv, UNCHANGED setupVars, run'.module \in {run.module, module, NoModule}
  PROVE  SetupKept
<1>1. InUse' \subseteq InUse
  BY DEF setupVars, buildVars, InUse, NoModule
<1> QED BY <1>1 DEF SetupKept, SetupInv, SetupTyped, PublishedStep, setupVars, buildVars, Apart

\* The launcher forgets its builder, or leaves it behind.
LEMMA SetupDrops ==
  ASSUME SetupInv, RunTyped, child' = NoChild, module' \in {module, NoModule}, UNCHANGED buildVars,
         orphan' \in {orphan, IF orphan = NoChild THEN child ELSE orphan},
         UNCHANGED run
  PROVE  SetupKept
<1>1. InUse' \subseteq InUse
  BY DEF buildVars, InUse, NoModule
<1>2. NoChild \in Builders /\ NoModule \in Modules
  BY DEF NoChild, NoModule, Builders, Modules, Folders, Places
<1>3. WorksOn(child', dir') /\ WorksOn(orphan', dir') /\ Apart(child', orphan', InUse')
  BY <1>1 DEF NoChild, WorksOn, Apart, Locked, SetupInv, buildVars
<1>4. SetupTyped'
  BY <1>2 DEF SetupInv, SetupTyped, buildVars
<1> QED BY <1>1, <1>3, <1>4 DEF SetupKept, SetupInv, PublishedStep, buildVars

LEMMA SetupStarts ==
  ASSUME SetupInv, RunTyped, NEW game \in Folders, Start(game), UNCHANGED run
  PROVE  SetupKept
<1>1. InUse' \subseteq InUse
  BY DEF Start, buildVars, InUse, NoModule
<1>0. child' = NoChild \/ child' = [at |-> "busy", game |-> game, dir |-> NoDir]
  BY DEF Start, Begun, Cancelled, NoChild
<1>2. NoModule \in Modules /\ child' \in Builders
  BY <1>0 DEF NoChild, NoModule, Builders, Modules, Folders, Places
<1>3. child'.at \in {"none", "busy"} /\ child'.dir = NoDir
  BY <1>0 DEF NoChild
<1>4. WorksOn(child', dir') /\ WorksOn(orphan', dir') /\ Apart(child', orphan', InUse')
  BY <1>1, <1>3 DEF WorksOn, Apart, Locked, SetupInv, Start, buildVars
<1>5. SetupTyped'
  BY <1>2 DEF SetupInv, SetupTyped, Start, buildVars
<1> QED BY <1>1, <1>4, <1>5 DEF SetupKept, SetupInv, PublishedStep, Start, buildVars

\* An ended build is delivered.
LEMMA SetupPolls ==
  ASSUME SetupInv, RunTyped, Poll, UNCHANGED run
  PROVE  SetupKept
<1>1. NoChild \in Builders /\ NoModule \in Modules
  BY DEF NoChild, NoModule, Builders, Modules, Folders, Places
<1>2. child' \in {child, NoChild} /\ module' \in Modules
  BY <1>1 DEF Poll, SetupInv, SetupTyped, Builders, Modules
<1>3. SetupTyped'
  BY <1>1, <1>2 DEF Poll, SetupInv, SetupTyped, buildVars
<1>4. InUse' \subseteq InUse \cup (IF child.at = "built" THEN {child.dir} ELSE {})
  BY DEF Poll, InUse, buildVars, NoModule
<1>5. NoDir \notin InUse'
  BY DEF InUse
<1>6. \A d \in InUse' : dir'[d] \in {"whole", "spoilt"}
  BY <1>4, <1>5 DEF Poll, SetupInv, WorksOn, buildVars
<1>7. WorksOn(child', dir') /\ WorksOn(orphan', dir')
  BY <1>2 DEF Poll, SetupInv, WorksOn, buildVars, NoChild
<1>8. Apart(child', orphan', InUse')
  BY <1>2, <1>4 DEF Poll, SetupInv, Apart, Locked, Ended, NoChild
<1> QED BY <1>3, <1>6, <1>7, <1>8 DEF SetupKept, SetupInv, PublishedStep, Poll, buildVars

\* The launcher's builder or the orphan goes on.
LEMMA SetupBuilds ==
  ASSUME SetupInv, RunTyped, BuildStep, UNCHANGED <<module, run>>
  PROVE  /\ SetupKept
         /\ child' # child => child.at # "none" /\ child'.at # "none" /\ child'.game = child.game
<1>0. \A b, n : b \in Builders /\ Builds(b, n) => n \in Builders
  <2> SUFFICES ASSUME NEW b \in Builders, NEW n, Builds(b, n) PROVE n \in Builders
    OBVIOUS
  <2>1. Artifact \in Dirs \/ Artifact = pointer
    BY DEF Artifact, Dirs
  <2>2. Artifact \in Places
    BY <2>1 DEF SetupInv, SetupTyped, Places
  <2> QED BY <2>2 DEF Builds, Checks, Locks, Finds, Makes, Moves, Points, Publishes, Breaks, Builders,
                      Places, Dirs
<1>1. SetupTyped
  BY DEF SetupInv
<1>2. CASE ChildBuilds
  <2>1. child' \in Builders
    BY <1>0, <1>1, <1>2 DEF ChildBuilds, SetupTyped
  <2>2. child.at = "waits" /\ child'.at = "finds" => ~Locked(orphan)
    BY <1>1, <1>2 DEF ChildBuilds, Builds, Checks, Locks, Finds, Makes, Moves, Points, Publishes,
                      Breaks, SetupTyped, Builders
  <2>3. Keeps(child, child', orphan)
    BY <1>1, <1>2, <2>1, <2>2, BuilderStep DEF ChildBuilds, SetupTyped, SetupInv
  <2>4. child.at # "none"
    BY <1>2 DEF ChildBuilds, Builds, Checks, Locks, Finds, Makes, Moves, Points, Publishes, Breaks
  <2>5. orphan' = orphan
    BY <1>2 DEF ChildBuilds
  <2>6. SetupTyped'
    BY <1>1, <2>1, <2>3, <2>5 DEF SetupTyped, Keeps
  <2>7. \A d \in {active, module.dir, run.module.dir} \ {NoDir} : dir'[d] = dir[d]
    BY <2>3 DEF Keeps, InUse
  <2> QED BY <2>3, <2>4, <2>5, <2>6, <2>7 DEF Keeps, SetupKept, SetupInv, PublishedStep
<1>3. CASE OrphanBuilds
  <2>1. orphan' \in Builders
    BY <1>0, <1>1, <1>3 DEF OrphanBuilds, SetupTyped
  <2>2. orphan.at = "waits" /\ orphan'.at = "finds" => ~Locked(child)
    BY <1>1, <1>3 DEF OrphanBuilds, Builds, Checks, Locks, Finds, Makes, Moves, Points, Publishes,
                      Breaks, SetupTyped, Builders
  <2>3. Apart(orphan, child, InUse)
    BY DEF SetupInv, Apart
  <2>4. Keeps(orphan, orphan', child)
    BY <1>1, <1>3, <2>1, <2>2, <2>3, BuilderStep DEF OrphanBuilds, SetupTyped, SetupInv
  <2>5. child' = child
    BY <1>3 DEF OrphanBuilds
  <2>6. SetupTyped'
    BY <1>1, <2>1, <2>4, <2>5 DEF SetupTyped, Keeps
  <2>7. \A d \in {active, module.dir, run.module.dir} \ {NoDir} : dir'[d] = dir[d]
    BY <2>4 DEF Keeps, InUse
  <2>8. Apart(child', orphan', InUse')
    BY <2>4, <2>5 DEF Keeps, Apart
  <2> QED BY <2>4, <2>5, <2>6, <2>7, <2>8 DEF Keeps, SetupKept, SetupInv, PublishedStep
<1>4. CASE OrphanEnds
  <2>1. NoChild \in Builders
    BY DEF NoChild, Builders, Folders, Places
  <2>2. SetupTyped' /\ InUse' = InUse
    BY <1>1, <1>4, <2>1 DEF OrphanEnds, SetupTyped, buildVars, InUse
  <2>3. WorksOn(orphan', dir') /\ Apart(child', orphan', InUse')
    BY <1>4, <2>2 DEF OrphanEnds, SetupInv, WorksOn, Apart, Locked, NoChild, buildVars
  <2> QED BY <1>4, <2>2, <2>3 DEF OrphanEnds, SetupKept, SetupInv, PublishedStep, buildVars
<1>5. CASE BuildsAtOnce
  <2>1. PICK how \in {"built", "broken"} : child' = [child EXCEPT !.at = how]
    BY <1>5 DEF BuildsAtOnce
  <2>2. child' \in Builders /\ child'.at = how /\ child'.dir = NoDir /\ child'.game = child.game
    BY <1>1, <1>5, <2>1 DEF SetupInv, SetupTyped, Builders, BuildsAtOnce, WorksOn
  <2>3. SetupTyped' /\ InUse' = InUse
    BY <1>1, <1>5, <2>2 DEF BuildsAtOnce, SetupTyped, buildVars, InUse
  <2>4. orphan.at = "moves" => orphan.dir # NoDir
    BY DEF SetupInv, WorksOn
  <2>5. WorksOn(child', dir') /\ Apart(child', orphan', InUse')
    BY <1>5, <2>2, <2>3, <2>4 DEF BuildsAtOnce, SetupInv, WorksOn, Apart, Locked, buildVars
  <2> QED BY <1>5, <2>2, <2>3, <2>5 DEF BuildsAtOnce, SetupKept, SetupInv, PublishedStep, buildVars
<1> QED BY <1>2, <1>3, <1>4, <1>5 DEF BuildStep

LEMMA SetupSpoils ==
  ASSUME SetupInv, RunTyped, Spoils, UNCHANGED <<module, run>>
  PROVE  SetupKept
<1>1. PICK d \in Dirs : dir[d] = "whole" /\ dir' = [dir EXCEPT ![d] = "spoilt"]
  BY DEF Spoils
<1>2. SetupTyped' /\ InUse' = InUse
  BY <1>1 DEF SetupInv, SetupTyped, Spoils, InUse
<1>3. InUse \subseteq Dirs
  BY InUseDirs DEF SetupInv
<1>4. \A e \in Dirs : dir'[e] \in {dir[e], "spoilt"}
  BY <1>1 DEF SetupInv, SetupTyped
<1>5. \A e \in InUse' : dir'[e] \in {"whole", "spoilt"}
  BY <1>2, <1>3, <1>4 DEF SetupInv
<1>6. WorksOn(child', dir') /\ WorksOn(orphan', dir') /\ Apart(child', orphan', InUse')
  BY <1>2 DEF Spoils, WorksOn, Apart, NoChild, Locked
<1>7. PublishedStep
  <2>1. {active, module.dir, run.module.dir} \ {NoDir} \subseteq InUse
    BY DEF InUse
  <2> QED BY <1>3, <1>4, <2>1 DEF PublishedStep, Spoils
<1> QED BY <1>2, <1>5, <1>6, <1>7 DEF SetupKept, SetupInv

-----------------------------------------------------------------------------
(* What the steps do to the runner, the launch and the folders.            *)

RootStep == Accepted(root[Extracted]) => Accepted(root'[Extracted])

Safe == SetupInv /\ RunInv /\ GoInv /\ RootInv
SafeKept == SetupKept /\ RunInv' /\ GoInv' /\ RootInv' /\ RootStep

LEMMA Patched ==
  ASSUME NEW c \in Contents
  PROVE  PatchOf(c) \in Contents /\ (Accepted(c) => Accepted(PatchOf(c)))
  BY DEF PatchOf, Contents, Accepted, Inspected, Required

LEMMA RunOffTyped == RunOff = [at |-> "off", game |-> NoRoot, cli |-> FALSE, net |-> FALSE,
                               module |-> NoModule, raced |-> FALSE, settings |-> DefaultConfig]
                     /\ NoModule \in Modules /\ NoRoot \in Folders
  BY DEF RunOff, NoModule, Modules, Folders, Places

\* A step that goes on in a frame, or begins them.
LEMMA CalmKept ==
  ASSUME Safe, Calm, at \notin {"off", "waiting"},
         at' \in {"poll", "events", "replug", "take", "widgets", "defer"}
  PROVE  SafeKept
<1>1. SetupKept
  BY SetupRests DEF Calm, Safe
<1>2. RunInv'
  BY DEF Calm, Safe, RunInv, RunTyped
<1>3. GoInv'
  BY DEF Calm, Safe, GoInv, Running, setupVars
<1>4. RootInv' /\ RootStep
  BY DEF Calm, Safe, RootInv, RootStep
<1> QED BY <1>1, <1>2, <1>3, <1>4 DEF SafeKept

\* The launcher's process ends.
LEMMA OverKept ==
  ASSUME Safe, Over, UNCHANGED run, root' \in [Roots -> Contents], RootStep
  PROVE  SafeKept
<1>1. SetupKept
  BY SetupDrops DEF Over, Safe, RunInv
<1>2. RunInv'
  BY DEF Over, Forgotten, Safe, RunInv, RunTyped
<1>3. GoInv'
  BY DEF Over, Forgotten, GoInv, Running, NoChild, Folders
<1>4. RootInv'
  BY DEF Over, Forgotten, RootInv, ExIdle, Folders, Contents
<1> QED BY <1>1, <1>2, <1>3, <1>4 DEF SafeKept

LEMMA DiesKept ==
  ASSUME Safe, Dies PROVE SafeKept
  BY OverKept DEF Dies, Safe, RootInv, RootStep

LEMMA TakesKept ==
  ASSUME Safe, Takes PROVE SafeKept
<1>1. SetupKept
  BY SetupRests DEF Takes, Safe
<1>2. RunInv'
  BY DEF Takes, Passes, Safe, RunInv, RunTyped
<1>3. GoInv'
  BY DEF Takes, Passes, Safe, GoInv, RootInv, Running, setupVars
<1>4. RootInv' /\ RootStep
  BY DEF Takes, Passes, Safe, RootInv, RootStep, Folders
<1> QED BY <1>1, <1>2, <1>3, <1>4 DEF SafeKept

-----------------------------------------------------------------------------
(* The launcher.                                                           *)

USE DEF diskVars, padVars, gameVars, goVars, launcherVars

LEMMA OpenWindowKept ==
  ASSUME Safe, OpenWindow PROVE SafeKept
<1>1. SetupKept
  BY SetupRests DEF OpenWindow, Safe
<1>2. RunInv'
  BY DEF OpenWindow, Safe, RunInv, RunTyped
<1>3. GoInv'
  BY DEF OpenWindow, Safe, GoInv, Running, setupVars, SavedRoot, Folders, NoChild
<1>4. /\ root' \in [Roots -> Contents]
      /\ \A r \in Roots : root'[r] \in {root[r], PatchOf(root[r])}
  <2>1. CASE root' = root
    BY <2>1 DEF Safe, RootInv
  <2>2. CASE root' = [r \in Roots |-> IF r = SavedRoot THEN PatchOf(Held(SavedRoot)) ELSE root[r]]
    <3>1. \A r \in Roots : r = SavedRoot => Held(SavedRoot) = root[r]
      BY FilesAssumption DEF Held
    <3>2. \A r \in Roots : PatchOf(root[r]) \in Contents /\ root[r] \in Contents
      BY Patched DEF Safe, RootInv
    <3> QED BY <2>2, <3>1, <3>2
  <2> QED BY <2>1, <2>2 DEF OpenWindow
<1>5. RootStep
  BY <1>4, ExtractedAssumption, Patched DEF RootStep, Safe, RootInv
<1>6. RootInv'
  BY <1>4 DEF OpenWindow, Safe, RootInv, ExIdle
<1> QED BY <1>1, <1>2, <1>3, <1>5, <1>6 DEF SafeKept

LEMMA PollSetupKept ==
  ASSUME Safe, PollSetup PROVE SafeKept
<1>1. SetupKept
  BY SetupPolls DEF PollSetup, Safe, RunInv
<1>2. RunInv'
  BY DEF PollSetup, Safe, RunInv, RunTyped
<1>3. GoInv'
  <2>1. CASE Ended(child) /\ module' # NoModule
    <3>1. module'.game = child.game /\ Running
      BY <2>1 DEF PollSetup, Poll, Ended, Running
    <3>2. child' = NoChild /\ UNCHANGED <<current, raced>>
      BY <2>1 DEF PollSetup, Poll
    <3> QED BY <3>1, <3>2 DEF PollSetup, Safe, GoInv, Running, NoChild
  <2>2. CASE Ended(child) /\ module' = NoModule
    <3>1. Running /\ ~built
      BY <2>2 DEF Safe, GoInv, Ended, Running
    <3>2. child' = NoChild /\ UNCHANGED <<current, raced, built>>
      BY <2>2 DEF PollSetup, Poll
    <3> QED BY <3>1, <3>2 DEF PollSetup, Safe, GoInv, Running, NoChild
  <2>3. CASE ~Ended(child)
    <3>1. UNCHANGED <<child, module, pending, built, current, raced>>
      BY <2>3 DEF PollSetup, Poll, Ended
    <3> QED BY <3>1 DEF PollSetup, Safe, GoInv, Running
  <2> QED BY <2>1, <2>2, <2>3
<1>4. RootInv' /\ RootStep
  BY DEF PollSetup, Safe, RootInv, RootStep
<1> QED BY <1>1, <1>2, <1>3, <1>4 DEF SafeKept

LEMMA EventsKept ==
  ASSUME Safe, Events PROVE SafeKept
  BY CalmKept DEF Events, Calm

LEMMA CancelSetupKept ==
  ASSUME Safe, CancelSetup PROVE SafeKept
<1>1. SetupKept
  BY SetupDrops DEF CancelSetup, Cancel, Cancelled, Safe, RunInv
<1>2. RunInv'
  BY DEF CancelSetup, Safe, RunInv, RunTyped
<1>3. GoInv'
  BY DEF CancelSetup, Cancel, Cancelled, Safe, GoInv, Running, NoChild
<1>4. RootInv' /\ RootStep
  BY DEF CancelSetup, Safe, RootInv, RootStep
<1> QED BY <1>1, <1>2, <1>3, <1>4 DEF SafeKept

LEMMA DeferKept ==
  ASSUME Safe, Defer PROVE SafeKept
<1>1. CASE Start(current) /\ ~Running /\ pending' = mode /\ mode # "None" /\ ~built /\ at' = "poll"
  <2>0. UNCHANGED <<run, current, built, raced, root, ex, finished>> /\ at = "defer"
    BY DEF Defer
  <2>1. SetupKept
    BY <1>1, <2>0, SetupStarts DEF Safe, RunInv, GoInv
  <2>2. RunInv'
    BY <1>1, <2>0 DEF Safe, RunInv, RunTyped
  <2>3. child' = NoChild \/ child' = [at |-> "busy", game |-> current, dir |-> NoDir]
    BY <1>1 DEF Start, Begun, Cancelled, NoChild
  <2>4. GoInv'
    BY <1>1, <2>0, <2>3 DEF Safe, GoInv, Running, NoChild
  <2>5. RootInv' /\ RootStep
    BY <1>1, <2>0 DEF Safe, RootInv, RootStep
  <2> QED BY <2>1, <2>2, <2>4, <2>5 DEF SafeKept
<1>2. CASE UNCHANGED setupVars
  <2>0. /\ UNCHANGED <<run, current, built, raced, root, ex, finished>> /\ at = "defer"
        /\ at' \in {"poll", "join"} /\ (pending' = pending \/ (pending' = mode /\ mode # "None"))
    BY DEF Defer
  <2>1. SetupKept
    BY <1>2, <2>0, SetupRests DEF Safe
  <2>2. RunInv'
    BY <2>0 DEF Safe, RunInv, RunTyped
  <2>3. GoInv'
    BY <1>2, <2>0 DEF Safe, GoInv, Running, setupVars
  <2>4. RootInv' /\ RootStep
    BY <2>0 DEF Safe, RootInv, RootStep
  <2> QED BY <2>1, <2>2, <2>3, <2>4 DEF SafeKept
<1> QED BY <1>1, <1>2 DEF Defer

LEMMA GoneKept ==
  ASSUME Safe, Gone, UNCHANGED <<diskVars, run>> PROVE SafeKept
  BY GoneOver, OverKept DEF Safe, RootInv, RootStep

LEMMA JoinKept ==
  ASSUME Safe, Join PROVE SafeKept
<1>1. CASE Gone
  BY <1>1, GoneKept DEF Join
<1>2. CASE at' = "launch" /\ Cancel /\ UNCHANGED <<ex, finished, padVars, listed, gameVars, goVars>>
  <2>0. UNCHANGED <<diskVars, run>> /\ at = "join" /\ ex = ExIdle
    BY DEF Join
  <2>1. SetupKept
    BY <1>2, <2>0, SetupDrops DEF Cancel, Cancelled, Safe, RunInv
  <2>2. RunInv'
    BY <1>2, <2>0 DEF Safe, RunInv, RunTyped
  <2>3. GoInv'
    BY <1>2, <2>0 DEF Cancel, Cancelled, Safe, GoInv, Running, NoChild
  <2>4. RootInv' /\ RootStep
    BY <1>2, <2>0 DEF Safe, RootInv, RootStep
  <2> QED BY <2>1, <2>2, <2>3, <2>4 DEF SafeKept
<1> QED BY <1>1, <1>2 DEF Join

LEMMA LaunchKept ==
  ASSUME Safe, Launch PROVE SafeKept
<1>0. at = "launch" /\ UNCHANGED root /\ RootStep
  BY DEF Launch, RootStep
<1>1. CASE (Gone \/ Killed) /\ UNCHANGED run
  BY <1>0, <1>1, GoneOver, OverKept DEF Safe, RootInv
<1>2. CASE /\ at' = "waiting"
           /\ run' = Spawned(current, mode # "Solo", IF built THEN module ELSE NoModule, raced)
           /\ UNCHANGED <<ex, finished, setupVars, padVars, listed, gameVars, goVars>>
  <2> DEFINE m == IF built THEN module ELSE NoModule
             net == mode # "Solo"
  <2>1. run' = [at |-> "probe", game |-> current, cli |-> TRUE, net |-> net, module |-> m,
                raced |-> raced, settings |-> DefaultConfig]
    BY <1>2 DEF Spawned, RunOff
  <2>2. m \in {module, NoModule} /\ m \in Modules /\ current \in Folders
    BY RunOffTyped DEF Safe, SetupInv, SetupTyped, GoInv
  <2>3. m # NoModule => m.game = current \/ raced
    BY DEF Safe, GoInv
  <2> HIDE DEF m, net
  <2>4. /\ run'.module = m /\ run'.at = "probe" /\ run'.game = current /\ run'.cli = TRUE
        /\ run'.raced = raced
    BY <2>1
  <2>5. SetupKept
    BY <1>2, <2>2, <2>4, SetupRests DEF Safe
  <2>6. RunTyped'
    BY <2>1, <2>2 DEF RunTyped
  <2>7. RunInv'
    BY <1>2, <2>3, <2>4, <2>6 DEF RunInv
  <2>8. GoInv'
    BY <1>0, <1>2 DEF Safe, GoInv, Running, setupVars
  <2>9. RootInv'
    BY <1>0, <1>2 DEF Safe, RootInv
  <2> QED BY <1>0, <2>5, <2>7, <2>8, <2>9 DEF SafeKept
<1> QED BY <1>1, <1>2 DEF Launch

LEMMA DieKept ==
  ASSUME Safe, Die PROVE SafeKept
<1>1. UNCHANGED run /\ Over
  BY GoneOver DEF Die
<1>2. root' \in {root} \cup CutRoots
  BY DEF Die
<1>3. CASE root' = root
  BY <1>1, <1>3, OverKept DEF Safe, RootInv, RootStep
<1>4. CASE root' \in CutRoots
  <2>1. ex.at = "remove" /\ \E c \in {"none", "nodol", "part"} : root' = [root EXCEPT ![Extracted] = c]
    BY <1>4 DEF CutRoots
  <2>2. root' \in [Roots -> Contents] /\ RootStep
    BY <2>1, ExtractedAssumption DEF Safe, RootInv, RootStep, Contents
  <2> QED BY <1>1, <2>2, OverKept
<1> QED BY <1>2, <1>3, <1>4

LEMMA ExtractAndPlayKept ==
  ASSUME Safe, ExtractAndPlay PROVE SafeKept
<1>1. SetupKept
  BY SetupRests DEF ExtractAndPlay, Safe
<1>2. RunInv'
  BY DEF ExtractAndPlay, Safe, RunInv, RunTyped
<1>3. GoInv'
  BY DEF ExtractAndPlay, Safe, GoInv, Running, setupVars
<1>4. RootInv' /\ RootStep
  BY DEF ExtractAndPlay, ExIdle, Safe, RootInv, RootStep, Folders
<1> QED BY <1>1, <1>2, <1>3, <1>4 DEF SafeKept

LEMMA StartsOneKept ==
  ASSUME Safe, StartsOne PROVE SafeKept
<1>0. at = "off" /\ run = RunOff
  BY DEF StartsOne
<1>1. CASE ReadSettings
  <2>0. /\ UNCHANGED <<setupVars, run, root, ex, finished, gameVars, goVars>>
        /\ at' \in {"off", "start"}
    BY <1>0, <1>1 DEF ReadSettings
  <2>1. SetupKept
    BY <2>0, SetupRests DEF Safe
  <2>2. RunInv'
    BY <1>0, <2>0 DEF Safe, RunInv, RunTyped
  <2>3. GoInv'
    BY <1>0, <2>0 DEF Safe, GoInv, Running, setupVars
  <2>4. RootInv' /\ RootStep
    BY <1>0, <2>0 DEF Safe, RootInv, RootStep
  <2> QED BY <2>1, <2>2, <2>3, <2>4 DEF SafeKept
<1>2. CASE ExtractOnly
  <2>1. SetupKept
    BY <1>2, SetupRests DEF ExtractOnly, Safe
  <2>2. RunInv'
    BY <1>0, <1>2 DEF ExtractOnly, Safe, RunInv, RunTyped
  <2>3. GoInv'
    BY <1>2 DEF ExtractOnly, Safe, GoInv, Running, setupVars
  <2>4. RootInv' /\ RootStep
    BY <1>2 DEF ExtractOnly, ExIdle, Safe, RootInv, RootStep
  <2> QED BY <2>1, <2>2, <2>3, <2>4 DEF SafeKept
<1>3. CASE /\ \E net \in BOOLEAN : RunAlone(net)
           /\ UNCHANGED <<ex, finished, setupVars, launcherVars>>
  <2>1. PICK net \in BOOLEAN : RunAlone(net)
    BY <1>3
  <2>2. run' = [at |-> "probe", game |-> SavedRoot, cli |-> FALSE, net |-> net,
                module |-> NoModule, raced |-> FALSE, settings |-> DefaultConfig]
    BY <2>1 DEF RunAlone, RunOff
  <2>3. run'.module = NoModule /\ run'.at = "probe" /\ run'.game = SavedRoot
    BY <2>2
  <2>4. SetupKept
    BY <1>3, <2>3, SetupRests DEF Safe
  <2>5. SavedRoot \in Folders
    BY DEF SavedRoot, Folders
  <2>6. RunTyped'
    BY <2>2, <2>5, RunOffTyped DEF RunTyped
  <2>7. RunInv'
    BY <1>0, <1>3, <2>3, <2>6 DEF RunInv
  <2>8. GoInv' /\ RootInv' /\ RootStep
    BY <1>3, <2>1 DEF RunAlone, Safe, GoInv, RootInv, RootStep, Running, setupVars
  <2> QED BY <2>4, <2>7, <2>8 DEF SafeKept
<1> QED BY <1>1, <1>2, <1>3 DEF StartsOne

-----------------------------------------------------------------------------
(* The extraction's thread, the runner, the builds and the outside.        *)

LEMMA ExtractionKept ==
  ASSUME Safe, ExStep, UNCHANGED <<config, profile, setupVars, launcherVars, run>>
  PROVE  SafeKept
<1>1. SetupKept
  BY SetupRests DEF Safe
<1>2. RunInv' /\ GoInv'
  BY DEF Safe, RunInv, RunTyped, GoInv, Running, setupVars
<1>3. /\ ex # ExIdle /\ root \in [Roots -> Contents] /\ finished \in Folders
      /\ at \notin {"off", "start", "devices", "launch", "waiting"}
      /\ ex \in [at : {"idle", "prepare", "existing", "export", "remove", "rename", "save", "end"},
                 staged : Contents]
      /\ Extracted \in Roots /\ root[Extracted] \in Contents
  <2>1. ex.at # "idle"
    BY DEF ExStep, ExPrepare, ExExisting, ExExport, ExRemove, ExRename, ExSave, ExEnd, ExGoes, ExFails
  <2> QED BY <2>1, ExtractedAssumption DEF Safe, RootInv, ExIdle
<1>4. ExIdle.at = "idle" /\ ExIdle.staged \in Contents /\ at' = at
  BY DEF ExIdle, Contents
<1> SUFFICES RootInv' /\ RootStep
  BY <1>1, <1>2 DEF SafeKept
<1> USE DEF RootInv, RootStep
<1>5. CASE ExPrepare
  BY <1>3, <1>4, <1>5 DEF ExPrepare, ExGoes, ExFails, ExIdle
<1>6. CASE ExExisting
  <2> DEFINE c == root[Extracted]
             p == PatchOf(root[Extracted])
  <2>1. p \in Contents /\ (Accepted(c) => Accepted(p))
    BY <1>3, Patched
  <2>2. CASE /\ root' = [root EXCEPT ![Extracted] = p]
             /\ IF KeepsExisting(p) THEN ExGoes("existing", "save")
                                    ELSE ExGoes("existing", "export")
    <3>1. root' \in [Roots -> Contents] /\ root'[Extracted] = p
      BY <1>3, <2>1, <2>2
    <3>2. CASE Accepted(p)
      BY <1>3, <2>1, <2>2, <3>1, <3>2, <1>4, <1>6 DEF ExExisting, ExGoes, KeepsExisting
    <3>3. CASE ~Accepted(p)
      BY <1>3, <2>1, <2>2, <3>1, <3>3, <1>4, <1>6 DEF ExExisting, ExGoes, KeepsExisting
    <3> QED BY <3>2, <3>3
  <2>3. CASE ExFails("existing") /\ root' = root
    BY <1>3, <1>4, <1>6, <2>3 DEF ExExisting, ExFails, ExIdle
  <2> QED BY <1>6, <2>2, <2>3 DEF ExExisting
<1>7. CASE ExExport
  <2>1. root' = root /\ finished' = finished /\ ex.at = "export"
    BY <1>7 DEF ExExport, ExFails
  <2>2. ex' = ExIdle \/ \E c \in {"plain", "wrong"} : ex' = [at |-> "remove", staged |-> PatchOf(c)]
    BY <1>7 DEF ExExport, ExFails
  <2>3. \A c \in {"plain", "wrong"} : PatchOf(c) \in Contents
    BY DEF PatchOf, Contents
  <2> QED BY <1>3, <1>4, <2>1, <2>2, <2>3 DEF ExIdle, Safe
<1>8. CASE ExRemove
  <2>1. \E c \in {"none", "nodol", "part"} : root' = [root EXCEPT ![Extracted] = c]
    BY <1>8 DEF ExRemove
  <2>2. PICK c \in {"none", "nodol", "part"} : root' = [root EXCEPT ![Extracted] = c]
    BY <2>1
  <2>3. c \in Contents /\ ~Accepted(c)
    BY DEF Contents, Accepted, Inspected
  <2>4. root' \in [Roots -> Contents] /\ root'[Extracted] = c
    BY <1>3, <2>2, <2>3
  <2>5. ex.at = "remove" /\ ex' = [ex EXCEPT !.at = "rename"] /\ finished' = finished
    BY <1>8 DEF ExRemove, ExGoes
  <2> QED BY <1>3, <1>4, <2>3, <2>4, <2>5 DEF Safe
<1>9. CASE ExRename
  <2>1. CASE /\ root' = [root EXCEPT ![Extracted] = ex.staged] /\ ExGoes("rename", "save")
    <3>1. root' \in [Roots -> Contents]
      BY <1>3, <2>1
    <3>2. ~Accepted(root[Extracted])
      BY <2>1 DEF Safe, ExGoes
    <3> QED BY <1>3, <1>4, <1>9, <2>1, <3>1, <3>2 DEF ExRename, ExGoes
  <2>2. CASE ExFails("rename") /\ root' = root
    BY <1>3, <1>4, <1>9, <2>2 DEF ExRename, ExFails, ExIdle
  <2> QED BY <1>9, <2>1, <2>2 DEF ExRename
<1>10. CASE ExSave
  <2>1. UNCHANGED root /\ ex.at = "save"
    BY <1>10 DEF ExSave, ExGoes, ExFails
  <2>2. \/ ex' = [ex EXCEPT !.at = "end"] /\ finished' = Extracted
        \/ ex' = ExIdle /\ finished' = finished
    BY <1>10 DEF ExSave, ExGoes, ExFails
  <2> QED BY <1>3, <1>4, <2>1, <2>2 DEF Folders, ExIdle
<1>11. CASE ExEnd
  BY <1>3, <1>4, <1>11 DEF ExEnd, ExFails, ExIdle
<1> QED BY <1>5, <1>6, <1>7, <1>8, <1>9, <1>10, <1>11 DEF ExStep

\* A step of the runner: it ends, or goes on with the module it was given; it
\* takes another folder only where it asks, and asks only when it was not given
\* one.
RunGoes ==
  /\ run'.module = run.module /\ run'.cli = run.cli /\ run'.raced = run.raced /\ RunTyped'
  /\ run'.game # run.game => run.at \in {"asks", "asks-again"}
  /\ run'.at \in {"asks", "asks-again"} => ~run.cli

LEMMA RunnerIs ==
  ASSUME RunTyped, root \in [Roots -> Contents], RunStep
  PROVE  /\ run' = RunOff \/ RunGoes
         /\ run.at # "off"
         /\ root' \in [Roots -> Contents] /\ RootStep
<1> USE DEF RunAt, RunTo, GivesUp, RunTyped, RunGoes, RootStep
<1>1. CASE Probe
  BY <1>1 DEF Probe, Asks
<1>2. ASSUME NEW asked, NEW back, Prompt(asked, back),
             asked \in {"asks", "asks-again"}, back \in {"settings", "inspect"}
      PROVE  /\ run' = RunOff \/ RunGoes
             /\ run.at # "off"
             /\ root' \in [Roots -> Contents] /\ RootStep
  <2>1. run.at = asked /\ root' = root
    BY <1>2 DEF Prompt
  <2>2. \/ run' = RunOff \/ run' = [run EXCEPT !.at = back]
        \/ \E r \in Roots : run' = [run EXCEPT !.at = back, !.game = r]
    BY <1>2 DEF Prompt
  <2>3. ASSUME NEW r \in Roots, run' = [run EXCEPT !.at = back, !.game = r] PROVE RunGoes
    BY <1>2, <2>1, <2>3 DEF Folders
  <2>4. ASSUME run' = [run EXCEPT !.at = back] PROVE RunGoes
    BY <1>2, <2>1, <2>4
  <2> QED BY <1>2, <2>1, <2>2, <2>3, <2>4
<1>3. CASE RunSettings
  <2>1. run.at = "settings" /\ root' = root
    BY <1>3 DEF RunSettings
  <2>2. run' = RunOff \/ \E c : run' = [run EXCEPT !.at = "pads", !.settings = c]
    BY <1>3 DEF RunSettings
  <2>3. ASSUME NEW c, run' = [run EXCEPT !.at = "pads", !.settings = c] PROVE RunGoes
    BY <2>1, <2>3
  <2> QED BY <2>1, <2>2, <2>3
<1>4. ASSUME NEW devices, NEW next, Ensures(devices, next), next \in {"inspect", "record"},
             run.at # "off"
      PROVE  (run' = RunOff \/ RunGoes) /\ root' = root
  BY <1>4 DEF Ensures
<1>5. CASE RunPads
  BY <1>4, <1>5 DEF RunPads
<1>6. CASE Inspect
  <2> DEFINE c == Held(run.game)
  <2>1. run.at = "inspect" /\ (run' = RunOff \/ RunGoes)
    BY <1>6 DEF Inspect, Asks
  <2>2. CASE root' = root
    BY <2>1, <2>2
  <2>3. CASE run.game # NoRoot /\ root' = [root EXCEPT ![run.game] = PatchOf(c)]
    <3>1. run.game \in Roots /\ c = root[run.game]
      BY <2>3 DEF Folders, Held
    <3>2. PatchOf(c) \in Contents /\ (Accepted(c) => Accepted(PatchOf(c)))
      BY <3>1, Patched
    <3> QED BY <2>1, <2>3, <3>1, <3>2, ExtractedAssumption
  <2> QED BY <1>6, <2>2, <2>3 DEF Inspect
<1>7. CASE Pins
  BY <1>7 DEF Pins
<1>8. CASE RunControllers
  BY <1>4, <1>8 DEF RunControllers
<1>9. CASE Record
  BY <1>9 DEF Record
<1>10. CASE RunEnds
  BY <1>10 DEF RunEnds
<1> QED BY <1>1, <1>2, <1>3, <1>5, <1>6, <1>7, <1>8, <1>9, <1>10 DEF RunStep

LEMMA RunnerKept ==
  ASSUME Safe, RunStep, UNCHANGED <<ex, finished, setupVars, launcherVars>>
  PROVE  SafeKept
<1>1. /\ run' = RunOff \/ RunGoes
      /\ run.at # "off"
      /\ root' \in [Roots -> Contents] /\ RootStep
  BY RunnerIs DEF Safe, RunInv, RootInv
<1>2. run # RunOff /\ at \in {"off", "waiting"} /\ ex = ExIdle
  BY <1>1, RunOffTyped DEF Safe, RunInv, RootInv
<1>3. run'.module \in {run.module, NoModule}
  BY <1>1, RunOffTyped DEF RunGoes
<1>4. SetupKept
  BY <1>3, SetupRests DEF Safe
<1>5. RunInv'
  <2>1. CASE run' = RunOff
    BY <2>1, RunOffTyped DEF RunInv, RunTyped
  <2>2. CASE RunGoes
    BY <1>2, <2>2 DEF RunGoes, RunInv, Safe
  <2> QED BY <1>1, <2>1, <2>2
<1>6. GoInv' /\ RootInv'
  BY <1>1, <1>2 DEF Safe, GoInv, RootInv, Running, setupVars, ExIdle
<1> QED BY <1>1, <1>4, <1>5, <1>6 DEF SafeKept

LEMMA BuildsKept ==
  ASSUME Safe, BuildStep, UNCHANGED <<module, diskVars, ex, finished, launcherVars, run>>
  PROVE  SafeKept
<1>1. /\ SetupKept
      /\ child' # child => child.at # "none" /\ child'.at # "none" /\ child'.game = child.game
  BY SetupBuilds DEF Safe, RunInv
<1>2. RunInv' /\ RootInv' /\ RootStep
  BY DEF Safe, RunInv, RunTyped, RootInv, RootStep
<1>3. GoInv'
  BY <1>1 DEF Safe, GoInv, Running, NoChild
<1> QED BY <1>1, <1>2, <1>3 DEF SafeKept

LEMMA UnplugKept ==
  ASSUME Safe, Unplug PROVE SafeKept
<1>1. SetupKept
  BY SetupRests DEF Unplug, Safe
<1>2. RunInv' /\ GoInv'
  BY DEF Unplug, Safe, RunInv, RunTyped, GoInv, Running, setupVars
<1>3. root' \in [Roots -> Contents] /\ root'[Extracted] = root[Extracted]
  BY StartupAssumption, ExtractedAssumption DEF Unplug, Safe, RootInv, Contents
<1>4. RootInv' /\ RootStep
  BY <1>3 DEF Unplug, Safe, RootInv, RootStep
<1> QED BY <1>1, <1>2, <1>4 DEF SafeKept

LEMMA DamageKept ==
  ASSUME Safe, Damage PROVE SafeKept
<1>1. SetupKept
  BY SetupSpoils DEF Damage, Safe, RunInv
<1>2. RunInv' /\ RootInv' /\ RootStep
  BY DEF Damage, Safe, RunInv, RunTyped, RootInv, RootStep
<1>3. GoInv'
  BY DEF Damage, Spoils, Safe, GoInv, Running
<1> QED BY <1>1, <1>2, <1>3 DEF SafeKept

\* The steps that serve something, in the classes above.
LEMMA ServesKept ==
  ASSUME Safe, Serves \/ TakeExtraction PROVE SafeKept
<1>1. CASE Relist("devices", "poll")
  BY <1>1, RelistIs, CalmKept, DiesKept DEF Passes
<1>2. CASE Relist("replug", "take")
  BY <1>2, RelistIs, CalmKept, DiesKept DEF Passes
<1>3. ASSUME NEW results, Input(results) PROVE SafeKept
  BY <1>3, InputIs, CalmKept, DiesKept DEF Passes
<1>4. ASSUME NEW results, NEW how, Launches(results, how) PROVE SafeKept
  BY <1>4, LaunchesIs, CalmKept, DiesKept DEF Passes
<1>5. CASE TakeExtraction
  BY <1>5, TakeIs, TakesKept, CalmKept, DiesKept DEF Passes
<1>6. CASE NoInput
  BY <1>3, <1>6 DEF NoInput
<1>7. CASE Tunes
  BY <1>3, <1>4, <1>7 DEF Tunes, ChooseAspect, ChooseOption, ChooseResolution, Choose, Netplay
<1>8. CASE Play
  BY <1>4, <1>8 DEF Play
<1>9. CASE Binds
  BY <1>3, <1>4, <1>8, <1>9 DEF Binds, Disconnect, ResetControls, InvertAxis, Capture, BindPort, Netplay
<1> QED BY <1>1, <1>2, <1>5, <1>6, <1>7, <1>8, <1>9 DEF Serves

LEMMA NextKept ==
  ASSUME Safe, [Next]_vars PROVE SafeKept
<1>1. CASE StartsOne
  BY <1>1, StartsOneKept
<1>2. CASE LauncherStep
  <2>1. CASE OpenWindow
    BY <2>1, OpenWindowKept
  <2>2. CASE ExtractOnlyEnds
    BY <2>2, GoneKept DEF ExtractOnlyEnds
  <2>3. CASE PollSetup
    BY <2>3, PollSetupKept
  <2>4. CASE Events
    BY <2>4, EventsKept
  <2>5. CASE CancelSetup
    BY <2>5, CancelSetupKept
  <2>6. CASE Defer
    BY <2>6, DeferKept
  <2>7. CASE Join
    BY <2>7, JoinKept
  <2>8. CASE Launch
    BY <2>8, LaunchKept
  <2>9. CASE RunnerOver
    BY <2>9, GoneKept DEF RunnerOver
  <2>10. CASE Die
    BY <2>10, DieKept
  <2>11. CASE ExtractAndPlay
    BY <2>11, ExtractAndPlayKept
  <2>12. CASE Serves \/ TakeExtraction
    BY <2>12, ServesKept
  <2> QED BY <1>2, <2>1, <2>2, <2>3, <2>4, <2>5, <2>6, <2>7, <2>8, <2>9, <2>10, <2>11, <2>12
      DEF LauncherStep, StartStep, FrameStep, EndStep, Plays, Serves
<1>3. CASE OthersStep
  BY <1>3, ExtractionKept, BuildsKept, RunnerKept DEF OthersStep
<1>4. CASE Unplug
  BY <1>4, UnplugKept
<1>5. CASE Damage
  BY <1>5, DamageKept
<1>6. CASE UNCHANGED vars
  <2>1. SetupKept
    BY <1>6, SetupRests DEF vars, Safe
  <2>2. RunInv' /\ GoInv' /\ RootInv' /\ RootStep
    BY <1>6 DEF vars, Safe, RunInv, RunTyped, GoInv, RootInv, RootStep, Running, setupVars
  <2> QED BY <2>1, <2>2 DEF SafeKept
<1> QED BY <1>1, <1>2, <1>3, <1>4, <1>5, <1>6 DEF Next

-----------------------------------------------------------------------------
(* Words: no word of an option or of the ratios has two meanings.          *)

Distinct(s) == \A u, v \in DOMAIN s : \A w : w \in Range(s[u]) /\ w \in Range(s[v]) => u = v

LEMMA RatioWordsDistinct == Distinct(RatioWords)
  BY DEF RatioWords, Range, Distinct

LEMMA OneWord == ASSUME NEW a, NEW w, w \in Range(<<a>>) PROVE w = a
  BY DEF Range
LEMMA FiveWords ==
  ASSUME NEW a, NEW b, NEW c, NEW d, NEW e, NEW w, w \in Range(<<a, b, c, d, e>>)
  PROVE  w \in {a, b, c, d, e}
  BY DEF Range
LEMMA EightWords ==
  ASSUME NEW a, NEW b, NEW c, NEW d, NEW e, NEW f, NEW g, NEW h, NEW w,
         w \in Range(<<a, b, c, d, e, f, g, h>>)
  PROVE  w \in {a, b, c, d, e, f, g, h}
  BY DEF Range

LEMMA OneFirst == ASSUME NEW a PROVE a \in Range(<<a>>)
<1>1. 1 \in DOMAIN <<a>> /\ <<a>>[1] = a
  OBVIOUS
<1> QED BY <1>1 DEF Range
LEMMA FiveFirsts ==
  ASSUME NEW a, NEW b, NEW c, NEW d, NEW e PROVE a \in Range(<<a, b, c, d, e>>)
<1>1. 1 \in DOMAIN <<a, b, c, d, e>> /\ <<a, b, c, d, e>>[1] = a
  OBVIOUS
<1> QED BY <1>1 DEF Range
LEMMA EightFirsts ==
  ASSUME NEW a, NEW b, NEW c, NEW d, NEW e, NEW f, NEW g, NEW h
  PROVE  a \in Range(<<a, b, c, d, e, f, g, h>>)
<1>1. 1 \in DOMAIN <<a, b, c, d, e, f, g, h>> /\ <<a, b, c, d, e, f, g, h>>[1] = a
  OBVIOUS
<1> QED BY <1>1 DEF Range

\* What a word of the antialiasing modes means.
AaOff == {"off", "none", "disabled", "false", "0", "1x", "msaa1x", "msaa 1x"}
Aa2x == {"2x", "2", "msaa2", "msaa2x", "msaa 2x"}
Aa4x == {"4x", "4", "msaa4", "msaa4x", "msaa 4x"}
Aa8x == {"8x", "8", "msaa8", "msaa8x", "msaa 8x"}

LEMMA AaDistinct == Distinct(Spellings.aa)
<1>1. /\ DOMAIN Spellings.aa = {"Off", "Fxaa", "Msaa2x", "Msaa4x", "Msaa8x"}
      /\ Spellings.aa["Off"] = <<"off", "none", "disabled", "false", "0", "1x", "msaa1x",
                                 "msaa 1x">>
      /\ Spellings.aa["Fxaa"] = <<"fxaa">>
      /\ Spellings.aa["Msaa2x"] = <<"2x", "2", "msaa2", "msaa2x", "msaa 2x">>
      /\ Spellings.aa["Msaa4x"] = <<"4x", "4", "msaa4", "msaa4x", "msaa 4x">>
      /\ Spellings.aa["Msaa8x"] = <<"8x", "8", "msaa8", "msaa8x", "msaa 8x">>
  BY DEF Spellings
<1>2. \A w : w \in Range(Spellings.aa["Off"]) => w \in AaOff
  BY <1>1, EightWords, Zenon DEF AaOff
<1>3. \A w : w \in Range(Spellings.aa["Fxaa"]) => w = "fxaa"
  BY <1>1, OneWord, Zenon
<1>4. \A w : w \in Range(Spellings.aa["Msaa2x"]) => w \in Aa2x
  BY <1>1, FiveWords, Zenon DEF Aa2x
<1>5. \A w : w \in Range(Spellings.aa["Msaa4x"]) => w \in Aa4x
  BY <1>1, FiveWords, Zenon DEF Aa4x
<1>6. \A w : w \in Range(Spellings.aa["Msaa8x"]) => w \in Aa8x
  BY <1>1, FiveWords, Zenon DEF Aa8x
<1>7. \A w : ~(w \in AaOff /\ w \in Aa2x)
  BY Zenon DEF AaOff, Aa2x
<1>8. \A w : ~(w \in AaOff /\ w \in Aa4x)
  BY Zenon DEF AaOff, Aa4x
<1>9. \A w : ~(w \in AaOff /\ w \in Aa8x)
  BY Zenon DEF AaOff, Aa8x
<1>10. \A w : ~(w \in Aa2x /\ w \in Aa4x) /\ ~(w \in Aa2x /\ w \in Aa8x) /\ ~(w \in Aa4x /\ w \in Aa8x)
  BY Zenon DEF Aa2x, Aa4x, Aa8x
<1>11. "fxaa" \notin AaOff /\ "fxaa" \notin Aa2x /\ "fxaa" \notin Aa4x /\ "fxaa" \notin Aa8x
  BY Zenon DEF AaOff, Aa2x, Aa4x, Aa8x
<1>12. DOMAIN Spellings.aa = {"Off", "Fxaa", "Msaa2x", "Msaa4x", "Msaa8x"}
  BY <1>1
<1> QED BY <1>2, <1>3, <1>4, <1>5, <1>6, <1>7, <1>8, <1>9, <1>10, <1>11, <1>12 DEF Distinct

LEMMA OptionWordsDistinct == ASSUME NEW name \in DOMAIN Spellings PROVE Distinct(Spellings[name])
<1>1. DOMAIN Spellings = {"present_mode", "anisotropy", "window_mode", "aa", "frame_rate",
                          "backend", "boolean"}
  BY DEF Spellings
<1>2. Distinct(Spellings.present_mode)
  BY DEF Spellings, Range, Distinct
<1>3. Distinct(Spellings.anisotropy)
  BY DEF Spellings, Range, Distinct
<1>4. Distinct(Spellings.window_mode)
  BY DEF Spellings, Range, Distinct
<1>5. Distinct(Spellings.frame_rate)
  BY DEF Spellings, Range, Distinct
<1>6. Distinct(Spellings.backend)
  BY DEF Spellings, Range, Distinct
<1>7. Distinct(Spellings.boolean)
  BY DEF Spellings, Range, Distinct
<1> QED BY <1>1, <1>2, <1>3, <1>4, <1>5, <1>6, <1>7, AaDistinct

\* What an option prints is one of its words.
LEMMA FirstWord ==
  ASSUME NEW name \in DOMAIN Spellings, NEW v \in DOMAIN Spellings[name]
  PROVE  Spellings[name][v][1] \in Range(Spellings[name][v]) /\ Spellings[name][v][1] # ""
<1>1. DOMAIN Spellings = {"present_mode", "anisotropy", "window_mode", "aa", "frame_rate",
                          "backend", "boolean"}
  BY DEF Spellings
<1>2. CASE name = "present_mode"
  <2>1. Spellings.present_mode[v][1] \in {"fifo", "mailbox", "immediate"}
    BY <1>2 DEF Spellings
  <2>2. "" \notin {"fifo", "mailbox", "immediate"}
    BY Zenon
  <2>3. 1 \in DOMAIN Spellings.present_mode[v]
    BY <1>2 DEF Spellings
  <2>4. Spellings.present_mode[v][1] \in Range(Spellings.present_mode[v])
    BY <2>3 DEF Range
  <2> QED BY <1>2, <2>1, <2>2, <2>4, Zenon
<1>3. CASE name = "anisotropy"
  <2>1. Spellings.anisotropy[v][1] \in {"default", "1x", "2x", "4x", "8x", "16x"}
    BY <1>3 DEF Spellings
  <2>2. "" \notin {"default", "1x", "2x", "4x", "8x", "16x"}
    BY Zenon
  <2>3. 1 \in DOMAIN Spellings.anisotropy[v]
    BY <1>3 DEF Spellings
  <2>4. Spellings.anisotropy[v][1] \in Range(Spellings.anisotropy[v])
    BY <2>3 DEF Range
  <2> QED BY <1>3, <2>1, <2>2, <2>4, Zenon
<1>4. CASE name = "window_mode"
  <2>1. Spellings.window_mode[v][1] \in {"windowed", "maximized", "fullscreen"}
    BY <1>4 DEF Spellings
  <2>2. "" \notin {"windowed", "maximized", "fullscreen"}
    BY Zenon
  <2>3. 1 \in DOMAIN Spellings.window_mode[v]
    BY <1>4 DEF Spellings
  <2>4. Spellings.window_mode[v][1] \in Range(Spellings.window_mode[v])
    BY <2>3 DEF Range
  <2> QED BY <1>4, <2>1, <2>2, <2>4, Zenon
<1>5. CASE name = "aa"
  <2>0. v \in {"Off", "Fxaa", "Msaa2x", "Msaa4x", "Msaa8x"}
    <3>1. DOMAIN Spellings.aa = {"Off", "Fxaa", "Msaa2x", "Msaa4x", "Msaa8x"}
      BY DEF Spellings
    <3> QED BY <1>5, <3>1
  <2>1. Spellings.aa[v][1] \in {"off", "fxaa", "2x", "4x", "8x"}
    <3>1. /\ Spellings.aa["Off"][1] = "off"
          /\ Spellings.aa["Fxaa"][1] = "fxaa"
          /\ Spellings.aa["Msaa2x"][1] = "2x"
          /\ Spellings.aa["Msaa4x"][1] = "4x"
          /\ Spellings.aa["Msaa8x"][1] = "8x"
      BY DEF Spellings
    <3> QED BY <2>0, <3>1
  <2>2. "" \notin {"off", "fxaa", "2x", "4x", "8x"}
    BY Zenon
  <2>4. Spellings.aa[v][1] \in Range(Spellings.aa[v])
    <3>1. "off" \in Range(Spellings.aa["Off"])
      <4>1. Spellings.aa["Off"] = <<"off", "none", "disabled", "false", "0", "1x", "msaa1x", "msaa 1x">>
        BY DEF Spellings
      <4> QED BY <4>1, EightFirsts, Zenon
    <3>6. Spellings.aa["Off"][1] = "off"
      BY DEF Spellings
    <3>2. "fxaa" \in Range(Spellings.aa["Fxaa"])
      <4>1. Spellings.aa["Fxaa"] = <<"fxaa">>
        BY DEF Spellings
      <4> QED BY <4>1, OneFirst, Zenon
    <3>7. Spellings.aa["Fxaa"][1] = "fxaa"
      BY DEF Spellings
    <3>3. "2x" \in Range(Spellings.aa["Msaa2x"])
      <4>1. Spellings.aa["Msaa2x"] = <<"2x", "2", "msaa2", "msaa2x", "msaa 2x">>
        BY DEF Spellings
      <4> QED BY <4>1, FiveFirsts, Zenon
    <3>8. Spellings.aa["Msaa2x"][1] = "2x"
      BY DEF Spellings
    <3>4. "4x" \in Range(Spellings.aa["Msaa4x"])
      <4>1. Spellings.aa["Msaa4x"] = <<"4x", "4", "msaa4", "msaa4x", "msaa 4x">>
        BY DEF Spellings
      <4> QED BY <4>1, FiveFirsts, Zenon
    <3>9. Spellings.aa["Msaa4x"][1] = "4x"
      BY DEF Spellings
    <3>5. "8x" \in Range(Spellings.aa["Msaa8x"])
      <4>1. Spellings.aa["Msaa8x"] = <<"8x", "8", "msaa8", "msaa8x", "msaa 8x">>
        BY DEF Spellings
      <4> QED BY <4>1, FiveFirsts, Zenon
    <3>10. Spellings.aa["Msaa8x"][1] = "8x"
      BY DEF Spellings
    <3> QED BY <2>0, <3>1, <3>2, <3>3, <3>4, <3>5, <3>6, <3>7, <3>8, <3>9, <3>10
  <2> QED BY <1>5, <2>1, <2>2, <2>4, Zenon
<1>6. CASE name = "frame_rate"
  <2>1. Spellings.frame_rate[v][1] \in {"uncapped", "capped"}
    BY <1>6 DEF Spellings
  <2>2. "" \notin {"uncapped", "capped"}
    BY Zenon
  <2>3. 1 \in DOMAIN Spellings.frame_rate[v]
    BY <1>6 DEF Spellings
  <2>4. Spellings.frame_rate[v][1] \in Range(Spellings.frame_rate[v])
    BY <2>3 DEF Range
  <2> QED BY <1>6, <2>1, <2>2, <2>4, Zenon
<1>7. CASE name = "backend"
  <2>1. Spellings.backend[v][1] \in {"vulkan", "ogl"}
    BY <1>7 DEF Spellings
  <2>2. "" \notin {"vulkan", "ogl"}
    BY Zenon
  <2>3. 1 \in DOMAIN Spellings.backend[v]
    BY <1>7 DEF Spellings
  <2>4. Spellings.backend[v][1] \in Range(Spellings.backend[v])
    BY <2>3 DEF Range
  <2> QED BY <1>7, <2>1, <2>2, <2>4, Zenon
<1>8. CASE name = "boolean"
  <2>1. Spellings.boolean[v][1] \in {"true", "false"}
    BY <1>8 DEF Spellings
  <2>2. "" \notin {"true", "false"}
    BY Zenon
  <2>3. 1 \in DOMAIN Spellings.boolean[v]
    BY <1>8 DEF Spellings
  <2>4. Spellings.boolean[v][1] \in Range(Spellings.boolean[v])
    BY <2>3 DEF Range
  <2> QED BY <1>8, <2>1, <2>2, <2>4, Zenon
<1> QED BY <1>1, <1>2, <1>3, <1>4, <1>5, <1>6, <1>7, <1>8

-----------------------------------------------------------------------------
(* What is written is read again.                                          *)

\* A text has one meaning at most, which is a ratio.
LEMMA RatioRead ==
  ASSUME NEW t, NEW a \in ParseAspectRatio(t), NEW b \in ParseAspectRatio(t)
  PROVE  a = b /\ IsAspect(a)
<1>1. CASE t.form = "word"
  <2>1. PICK k \in DOMAIN RatioWords : t.word \in Range(RatioWords[k]) /\ a = Ratio(k)
    BY <1>1 DEF ParseAspectRatio
  <2>2. PICK m \in DOMAIN RatioWords : t.word \in Range(RatioWords[m]) /\ b = Ratio(m)
    BY <1>1 DEF ParseAspectRatio
  <2> QED BY <2>1, <2>2, RatioWordsDistinct DEF Distinct, IsAspect
<1>2. CASE t.form # "word"
  <2> DEFINE sides == CASE t.form = "pair"    -> IF ParseAspectInt(t.w) /\ ParseAspectInt(t.h)
                                          THEN {<<t.w, t.h>>} ELSE {}
                 [] t.form = "decimal" -> ParseAspectDecimal(t)
                 [] OTHER              -> {}
  <2>1. \A p, q \in sides : p = q
    BY DEF ParseAspectDecimal
  <2>2. ParseAspectRatio(t) = {Custom(s[1], s[2]) : s \in {q \in sides : q[1] > 0 /\ InWindow(q[1], q[2])}}
    BY <1>2 DEF ParseAspectRatio
  <2> HIDE DEF sides
  <2>3. \A p \in ParseAspectRatio(t) : \E s \in sides : p = Custom(s[1], s[2])
    BY <2>2
  <2>4. PICK s \in sides : a = Custom(s[1], s[2])
    BY <2>3
  <2>5. a = b
    BY <2>1, <2>3, <2>4
  <2>6. a.w = s[1] /\ a.h = s[2]
    BY <2>4 DEF Custom
  <2> QED BY <2>4, <2>5, <2>6 DEF IsAspect
<1> QED BY <1>1, <1>2

LEMMA RatioReread ==
  ASSUME NEW a, IsAspect(a), a # Unset, NEW t \in AspectRatioToString(a), NEW b \in ParseAspectRatio(t)
  PROVE  b = a
<1>1. CASE a \in {Ratio(k) : k \in DOMAIN RatioWords}
  <2>1. PICK k \in DOMAIN RatioWords : a = Ratio(k)
    BY <1>1
  <2>2. a.mode = k /\ k # "Custom"
    BY <2>1 DEF Ratio, RatioWords
  <2>3. t = Word(RatioWords[k][1])
    BY <2>2 DEF AspectRatioToString
  <2>4. t.form = "word" /\ t.word = RatioWords[k][1]
    BY <2>3 DEF Word
  <2>5. RatioWords[k][1] \in Range(RatioWords[k])
    BY DEF RatioWords, Range
  <2>6. PICK m \in DOMAIN RatioWords : t.word \in Range(RatioWords[m]) /\ b = Ratio(m)
    BY <2>4 DEF ParseAspectRatio
  <2> QED BY <2>1, <2>4, <2>5, <2>6, RatioWordsDistinct DEF Distinct
<1>2. CASE a = Custom(a.w, a.h)
  <2>1. a.mode = "Custom"
    BY <1>2 DEF Custom
  <2>2. t = Pair(a.w, a.h)
    BY <2>1 DEF AspectRatioToString
  <2>3. t.form = "pair" /\ t.w = a.w /\ t.h = a.h
    BY <2>2 DEF Pair
  <2>4. \E s \in {<<a.w, a.h>>} : b = Custom(s[1], s[2])
    BY <2>3 DEF ParseAspectRatio
  <2> QED BY <1>2, <2>4
<1> QED BY <1>1, <1>2 DEF IsAspect

\* What one reading of a file gives is what any other gives.
LEMMA LoadsAgree ==
  ASSUME NEW f, NEW c \in LoadText(f)
  PROVE  IsSettings(c) /\ Agrees(f, c)
<1> DEFINE as == IF f.aspect = Absent THEN {Unset} ELSE ParseAspectRatio(f.aspect)
           os == IF f.option = "" THEN {"unset"} ELSE ParseOption(Option, f.option)
<1>1. \A d \in LoadText(f) : \E a \in as : \E o \in os :
        d = [res |-> f.res, aspect |-> a, option |-> o, netplay |-> "good",
             pads |-> Named(f.pads)]
  BY DEF LoadText
<1>2. \A a, b \in as : a = b /\ IsAspect(a)
  BY RatioRead DEF IsAspect
<1>3. \A o, u \in os : o = u /\ o \in {"unset"} \cup DOMAIN Spellings[Option]
  BY OptionWordsDistinct, ConfigAssumption DEF ParseOption, Distinct
<1> HIDE DEF as, os
<1>4. PICK a \in as, o \in os :
        c = [res |-> f.res, aspect |-> a, option |-> o, netplay |-> "good",
             pads |-> Named(f.pads)]
  BY <1>1
<1>5. IsSettings(c)
  BY <1>2, <1>3, <1>4 DEF IsSettings
<1>6. ASSUME NEW d \in LoadText(f) PROVE d.aspect = a /\ d.option = o /\ d.res = f.res
  <2>1. PICK b \in as, u \in os :
          d = [res |-> f.res, aspect |-> b, option |-> u, netplay |-> "good",
               pads |-> Named(f.pads)]
    BY <1>1
  <2> QED BY <1>2, <1>3, <2>1
<1>7. c.aspect = a /\ c.option = o /\ c.res = f.res
  BY <1>4
<1> QED BY <1>5, <1>6, <1>7 DEF Agrees

\* Settings that are saved are what is read then.
LEMMA TextAgrees ==
  ASSUME NEW c, IsSettings(c), Valid(c) PROVE Agrees(Text(c), c)
<1> DEFINE f == Text(c)
<1>1. /\ f.res = c.res
      /\ f.aspect = IF c.aspect = Unset THEN Absent
                    ELSE CHOOSE t \in AspectRatioToString(c.aspect) : TRUE
      /\ f.option = IF c.option = "unset" THEN "" ELSE OptionToString(Option, c.option)
  BY DEF Text
<1> HIDE DEF f
<1>2. ASSUME NEW d \in LoadText(f)
      PROVE  d.aspect = c.aspect /\ d.option = c.option /\ d.res = c.res
  <2>1. PICK a \in IF f.aspect = Absent THEN {Unset} ELSE ParseAspectRatio(f.aspect),
             o \in IF f.option = "" THEN {"unset"} ELSE ParseOption(Option, f.option) :
          d = [res |-> f.res, aspect |-> a, option |-> o, netplay |-> "good",
               pads |-> Named(f.pads)]
    BY <1>2 DEF LoadText
  <2>2. a = c.aspect
    <3>1. CASE c.aspect = Unset
      BY <1>1, <2>1, <3>1
    <3>2. CASE c.aspect # Unset
      <4>1. f.aspect \in AspectRatioToString(c.aspect)
        BY <1>1, <3>2 DEF Valid
      <4>2. f.aspect.form = "word" \/ f.aspect.form = "pair"
        <5>1. \/ \E w : f.aspect = Word(w)
              \/ \E w, h : f.aspect = Pair(w, h)
          BY <4>1, Zenon DEF AspectRatioToString
        <5>2. \A w, h : Word(w).form = "word" /\ Pair(w, h).form = "pair"
          BY DEF Word, Pair
        <5> QED BY <5>1, <5>2, Zenon
      <4>3. a \in ParseAspectRatio(f.aspect)
        <5>1. Absent.form = "absent"
          BY DEF Absent
        <5>2. f.aspect # Absent
          BY <4>2, <5>1
        <5> QED BY <2>1, <5>2
      <4> QED BY <3>2, <4>1, <4>3, RatioReread DEF IsSettings
    <3> QED BY <3>1, <3>2
  <2>3. o = c.option
    <3>1. CASE c.option = "unset"
      BY <1>1, <2>1, <3>1
    <3>2. CASE c.option # "unset"
      <4>1. c.option \in DOMAIN Spellings[Option] /\ f.option = Spellings[Option][c.option][1]
        BY <1>1, <3>2 DEF IsSettings, OptionToString
      <4>2. f.option \in Range(Spellings[Option][c.option])
        BY <4>1, FirstWord, ConfigAssumption
      <4>3. f.option # ""
        BY <4>1, FirstWord, ConfigAssumption
      <4>4. o \in DOMAIN Spellings[Option] /\ f.option \in Range(Spellings[Option][o])
        BY <2>1, <4>3 DEF ParseOption
      <4> QED BY <4>1, <4>2, <4>4, OptionWordsDistinct, ConfigAssumption DEF Distinct
    <3> QED BY <3>1, <3>2
  <2> QED BY <1>1, <2>1, <2>2, <2>3
<1> QED BY <1>2 DEF Agrees, f

\* What a save leaves behind.
LEMMA SaveLeaves ==
  ASSUME NEW f, NEW c, NEW w \in SaveConfig(f, c)
  PROVE  \/ w.ok /\ Valid(c) /\ w.file = Text(c)
         \/ ~w.ok /\ (w.file = f \/ w.file.by = "cut")
<1>1. CASE ~Valid(c)
  BY <1>1 DEF SaveConfig, Outcome
<1>2. CASE Valid(c)
  <2>1. w \in InPlace(f, Text(c), ConfigCuts(c), TRUE)
    BY <1>2 DEF SaveConfig
  <2>2. \A x \in ConfigCuts(c) : x.by = "cut"
    <3>1. TornFile.by = "cut"
      BY DEF TornFile
    <3>2. \A d : [Text(d) EXCEPT !.by = "cut"].by = "cut"
      BY DEF Text
    <3> QED BY <3>1, <3>2 DEF ConfigCuts
  <2>3. \/ w = Outcome(Text(c), TRUE, TRUE, 0) \/ w = Outcome(f, FALSE, TRUE, 1)
        \/ \E x \in ConfigCuts(c) :
             w = Outcome(x, FALSE, TRUE, 1) \/ w = Outcome(x, FALSE, FALSE, 1)
    <3> DEFINE t == Text(c)
               cuts == ConfigCuts(c)
    <3> HIDE DEF t, cuts
    <3>1. w \in InPlace(f, t, cuts, TRUE)
      BY <2>1 DEF t, cuts
    <3>2. \/ w = Outcome(t, TRUE, TRUE, 0) \/ w = Outcome(f, FALSE, TRUE, 1)
          \/ \E x \in cuts : w = Outcome(x, ~TRUE, TRUE, 1) \/ w = Outcome(x, FALSE, FALSE, 1)
      BY <3>1, Zenon DEF InPlace
    <3>3. (~TRUE) = FALSE
      OBVIOUS
    <3> QED BY <3>2, <3>3, Zenon DEF t, cuts
  <2>4. CASE w = Outcome(Text(c), TRUE, TRUE, 0)
    <3>1. w.ok = TRUE /\ w.file = Text(c)
      BY <2>4, Zenon DEF Outcome
    <3> QED BY <1>2, <3>1, Zenon
  <2>5. CASE w = Outcome(f, FALSE, TRUE, 1)
    <3>1. w.ok = FALSE /\ w.file = f
      BY <2>5, Zenon DEF Outcome
    <3> QED BY <3>1, Zenon
  <2>6. ASSUME NEW x \in ConfigCuts(c),
               w = Outcome(x, FALSE, TRUE, 1) \/ w = Outcome(x, FALSE, FALSE, 1)
        PROVE  ~w.ok /\ (w.file = f \/ w.file.by = "cut")
    <3>1. PICK alive \in BOOLEAN : w = Outcome(x, FALSE, alive, 1)
      BY <2>6
    <3>2. w.ok = FALSE /\ w.file = x
      BY <3>1, Zenon DEF Outcome
    <3> QED BY <2>2, <3>2, Zenon
  <2> QED BY <2>3, <2>4, <2>5, <2>6, Zenon
<1> QED BY <1>1, <1>2

\* Settings that differ from others in nothing a file is asked about.
Alike(m, n) ==
  m.aspect = n.aspect /\ m.option = n.option /\ n.res \in {m.res, Snapped(m.res)}

LEMMA AlikeAgree ==
  ASSUME NEW f, NEW m, NEW n, Agrees(f, m), Alike(m, n) PROVE Agrees(f, n)
<1>1. m.res \in Range(SupportedResolutions) => n.res = m.res
  BY DEF Alike, Snapped
<1> QED BY <1>1 DEF Agrees, Alike

LEMMA SaveAgrees ==
  ASSUME NEW f, NEW m, NEW c, IsSettings(c), Agrees(f, m), NEW w \in SaveConfig(f, c)
  PROVE  /\ w.ok => Agrees(w.file, c)
         /\ ~w.ok => Agrees(w.file, m)
         /\ Alike(m, c) => Agrees(w.file, c)
<1>1. w.file.by = "cut" => Agrees(w.file, m) /\ Agrees(w.file, c)
  BY DEF Agrees
<1> QED BY <1>1, SaveLeaves, TextAgrees, AlikeAgree
-----------------------------------------------------------------------------
(* What is served leaves memory as the file has it.                        *)

Remembered == IsSettings(mem) /\ Agrees(config, mem)

\* A result after which memory is what the file says.
Fine(r) ==
  /\ r = [profile |-> r.profile, config |-> r.config, mem |-> r.mem, pads |-> r.pads,
          exists |-> r.exists, ok |-> r.ok, alive |-> r.alive, fault |-> r.fault]
  /\ IsSettings(r.mem) /\ Agrees(r.config, r.mem)

LEMMA ResultFine ==
  ASSUME NEW pf, NEW cf, NEW m, NEW p, NEW x, NEW w, NEW n, IsSettings(m), Agrees(cf, m)
  PROVE  Fine(Result(pf, cf, m, p, x, w, n))
  BY DEF Fine, Result

LEMMA SnappedTwice == ASSUME NEW r PROVE Snapped(Snapped(r)) = Snapped(r)
<1>1. SupportedResolutions[1] \in Range(SupportedResolutions)
  BY DEF SupportedResolutions, Range
<1> QED BY <1>1 DEF Snapped

LEMMA SyncAlike ==
  ASSUME NEW m, NEW p, IsSettings(m)
  PROVE  /\ IsSettings(SyncConfig(m, p)) /\ Alike(m, SyncConfig(m, p))
         /\ SyncConfig(m, p) = [res |-> Snapped(m.res), aspect |-> m.aspect,
                                option |-> m.option, netplay |-> m.netplay,
                                pads |-> BoundDevices(p)]
<1>1. SyncConfig(m, p) = [res |-> Snapped(m.res), aspect |-> m.aspect, option |-> m.option,
                          netplay |-> m.netplay, pads |-> BoundDevices(p)]
  <2>1. m = [res |-> m.res, aspect |-> m.aspect, option |-> m.option, netplay |-> m.netplay,
             pads |-> m.pads]
    BY DEF IsSettings
  <2>2. [m EXCEPT !.res = Snapped(m.res)] =
          [res |-> Snapped(m.res), aspect |-> m.aspect, option |-> m.option,
           netplay |-> m.netplay, pads |-> m.pads]
    BY <2>1
  <2>3. [m EXCEPT !.res = Snapped(m.res), !.pads = BoundDevices(p)] =
          [[m EXCEPT !.res = Snapped(m.res)] EXCEPT !.pads = BoundDevices(p)]
    BY <2>1
  <2>4. [[res |-> Snapped(m.res), aspect |-> m.aspect, option |-> m.option,
           netplay |-> m.netplay, pads |-> m.pads] EXCEPT !.pads = BoundDevices(p)] =
          [res |-> Snapped(m.res), aspect |-> m.aspect, option |-> m.option,
           netplay |-> m.netplay, pads |-> BoundDevices(p)]
    OBVIOUS
  <2>5. SyncConfig(m, p) = [[m EXCEPT !.res = Snapped(m.res)] EXCEPT !.pads = BoundDevices(p)]
    BY <2>3, Zenon DEF SyncConfig
  <2> QED BY <2>2, <2>4, <2>5, Zenon
<1> QED BY <1>1 DEF IsSettings, Alike

LEMMA MirrorFine ==
  ASSUME Remembered, NEW w, NEW p, NEW r \in Mirror(w, mem, p) PROVE Fine(r)
<1> DEFINE c == SyncConfig(mem, p)
<1>1. IsSettings(c) /\ Alike(mem, c)
  BY SyncAlike DEF Remembered
<1>2. PICK v \in SaveConfig(config, c) :
        r = Result(w.file, v.file, c, p, TRUE, v, w.fault + v.fault)
  BY DEF Mirror
<1>3. Agrees(v.file, c)
  BY <1>1, SaveAgrees DEF Remembered
<1> QED BY <1>1, <1>2, <1>3, ResultFine

LEMMA SameFine ==
  ASSUME Remembered, NEW pf, NEW p, NEW x, NEW w, NEW n
  PROVE  Fine(Result(pf, config, mem, p, x, w, n))
  BY ResultFine DEF Remembered

LEMMA PersistFine ==
  ASSUME Remembered, NEW p, NEW x, NEW r \in PersistControllers(p, x) PROVE Fine(r)
<1>1. PICK w \in SaveControllerProfile(profile, p) :
        r \in IF w.ok THEN Mirror(w, mem, p)
              ELSE {Result(w.file, config, mem, p, x, w, w.fault)}
  BY DEF PersistControllers
<1> QED BY <1>1, MirrorFine, SameFine

LEMMA BootstrapFine ==
  ASSUME Remembered, NEW there, NEW p, NEW x, NEW r \in BootstrapPort1(there, p, x)
  PROVE  Fine(r)
<1> DEFINE configured == mem.pads # <<>> /\ mem.pads[1] \in there
           device == IF configured THEN mem.pads[1] ELSE Head(Fallback(there))
           written == EnsureControllerConfig(profile, <<device>>)
<1>1. \/ r = Result(profile, config, mem, p, x, Badly, 0)
      \/ r \in UNION {IF w.ok THEN Mirror(w, mem, ReadControllerProfile(w.file))
                      ELSE {Result(w.file, config, mem, p, x, w, w.fault)} : w \in written}
  BY Zenon DEF BootstrapPort1
<1> HIDE DEF written
<1>2. \/ r = Result(profile, config, mem, p, x, Badly, 0)
      \/ \E w \in written : \/ r \in Mirror(w, mem, ReadControllerProfile(w.file))
                            \/ r = Result(w.file, config, mem, p, x, w, w.fault)
  BY <1>1
<1> QED BY <1>2, MirrorFine, SameFine

LEMMA EnsureFine ==
  ASSUME Remembered, NEW r \in EnsureController PROVE Fine(r)
<1> DEFINE p == ReadControllerProfile(profile)
           x == ControllerConfigExists(profile)
           q == [p EXCEPT ![1] = Bound(Fallback(listed)[1])]
<1>1. \/ r \in BootstrapPort1(listed, p, x)
      \/ r \in PersistControllers(q, x)
      \/ r = Result(profile, config, mem, p, x, Well, 0)
  BY Zenon DEF EnsureController
<1> QED BY <1>1, BootstrapFine, PersistFine, SameFine

LEMMA RefreshFine ==
  ASSUME Remembered, NEW there, NEW r \in RefreshControllers(there) PROVE Fine(r)
  BY BootstrapFine, SameFine DEF RefreshControllers

LEMMA NetplayFine ==
  ASSUME Remembered, NEW typed, NEW r \in NetplayResults(typed) PROVE Fine(r)
<1> DEFINE c(s) == SyncConfig([s.mem EXCEPT !.netplay = typed], s.pads)
<1>1. PICK s \in EnsureController :
        r \in IF ~s.ok THEN {s}
              ELSE {[s EXCEPT !.config = w.file, !.mem = c(s), !.ok = w.ok, !.alive = w.alive,
                              !.fault = s.fault + w.fault] : w \in SaveConfig(s.config, c(s))}
  BY Zenon DEF NetplayResults
<1>2. Fine(s)
  BY EnsureFine
<1>3. CASE r = s
  BY <1>2, <1>3
<1>4. CASE s.ok
  <2> DEFINE d == c(s)
             t == [s.mem EXCEPT !.netplay = typed]
  <2>1. t = [res |-> s.mem.res, aspect |-> s.mem.aspect, option |-> s.mem.option,
             netplay |-> typed, pads |-> s.mem.pads]
    BY <1>2 DEF Fine, IsSettings
  <2>2. IsSettings(t) /\ t.aspect = s.mem.aspect /\ t.option = s.mem.option /\ t.res = s.mem.res
    BY <1>2, <2>1 DEF Fine, IsSettings
  <2> HIDE DEF t
  <2>3. IsSettings(SyncConfig(t, s.pads)) /\ Alike(s.mem, SyncConfig(t, s.pads))
    BY <2>2, SyncAlike DEF Alike
  <2>4. IsSettings(d) /\ Alike(s.mem, d)
    BY <2>3 DEF t
  <2>5. r \in {[s EXCEPT !.config = w.file, !.mem = d, !.ok = w.ok, !.alive = w.alive,
                         !.fault = s.fault + w.fault] : w \in SaveConfig(s.config, d)}
    BY <1>1, <1>4
  <2> HIDE DEF d
  <2>6. PICK w \in SaveConfig(s.config, d) :
          r = [s EXCEPT !.config = w.file, !.mem = d, !.ok = w.ok, !.alive = w.alive,
                        !.fault = s.fault + w.fault]
    BY <2>5
  <2>7. r = [profile |-> s.profile, config |-> w.file, mem |-> d, pads |-> s.pads,
             exists |-> s.exists, ok |-> w.ok, alive |-> w.alive, fault |-> s.fault + w.fault]
    BY <1>2, <2>6 DEF Fine
  <2>8. Agrees(w.file, d)
    BY <1>2, <2>4, SaveAgrees DEF Fine
  <2> QED BY <2>4, <2>7, <2>8 DEF Fine
<1> QED BY <1>1, <1>3, <1>4

LEMMA SettingFine ==
  ASSUME Remembered, NEW new, NEW back, IsSettings(new), IsSettings(back), Alike(mem, back),
         NEW r \in SettingResults(new, back)
  PROVE  Fine(r)
<1>1. PICK w \in SaveConfig(config, new) :
        r = Result(profile, w.file, IF w.ok THEN new ELSE back, pads, exists, w, w.fault)
  BY DEF SettingResults
<1>2. CASE w.ok
  <2>1. Agrees(w.file, new)
    BY <1>2, SaveAgrees DEF Remembered
  <2> QED BY <1>1, <1>2, <2>1, ResultFine
<1>3. CASE ~w.ok
  <2>1. Agrees(w.file, back)
    BY <1>3, SaveAgrees, AlikeAgree DEF Remembered
  <2> QED BY <1>1, <1>3, <2>1, ResultFine
<1> QED BY <1>2, <1>3

LEMMA InvertFine ==
  ASSUME Remembered, NEW p, NEW x, NEW r \in PersistControllers(p, x), NEW q
  PROVE  Fine([r EXCEPT !.pads = q])
<1>1. Fine(r)
  BY PersistFine
<1>2. [r EXCEPT !.pads = q] =
        [profile |-> r.profile, config |-> r.config, mem |-> r.mem, pads |-> q,
         exists |-> r.exists, ok |-> r.ok, alive |-> r.alive, fault |-> r.fault]
  BY <1>1 DEF Fine
<1> QED BY <1>1, <1>2 DEF Fine

LEMMA RatioWordKeys == DOMAIN RatioWords = {"Auto", "Wide", "Standard", "Stretch"}
  BY DEF RatioWords

\* The inputs of the user, of which each saves something.
LEMMA TunesFine ==
  ASSUME Remembered, Tunes
  PROVE  \/ \E results : Input(results) /\ \A r \in results : Fine(r)
         \/ \E results : \E how : Launches(results, how) /\ \A r \in results : Fine(r)
<1>1. ASSUME NEW a \in Aspects, ChooseAspect(a)
      PROVE  \E results : Input(results) /\ \A r \in results : Fine(r)
  <2> DEFINE t == [mem EXCEPT !.aspect = a]
             new == SyncConfig(t, pads)
             back == [new EXCEPT !.aspect = mem.aspect]
  <2>1. t = [res |-> mem.res, aspect |-> a, option |-> mem.option, netplay |-> mem.netplay,
             pads |-> mem.pads]
    BY DEF Remembered, IsSettings
  <2>2. IsAspect(a)
    BY LauncherAssumption, RatioWordKeys DEF SupportedAspectRatios, IsAspect, Custom
  <2>3. IsSettings(t)
    BY <2>1, <2>2 DEF Remembered, IsSettings
  <2>4. new = [res |-> Snapped(mem.res), aspect |-> a, option |-> mem.option,
               netplay |-> mem.netplay, pads |-> BoundDevices(pads)]
    BY <2>1, <2>3, SyncAlike
  <2> HIDE DEF new
  <2>5. back = [res |-> Snapped(mem.res), aspect |-> mem.aspect, option |-> mem.option,
                netplay |-> mem.netplay, pads |-> BoundDevices(pads)]
    BY <2>4
  <2> HIDE DEF back
  <2>6. IsSettings(new) /\ IsSettings(back) /\ Alike(mem, back)
    BY <2>2, <2>4, <2>5 DEF Remembered, IsSettings, Alike
  <2>7. Input(SettingResults(new, back))
    BY <1>1, Zenon DEF ChooseAspect, Choose, new, back
  <2> QED BY <2>6, <2>7, SettingFine
<1>2. ASSUME NEW v \in Values, ChooseOption(v)
      PROVE  \E results : Input(results) /\ \A r \in results : Fine(r)
  <2> DEFINE t == [mem EXCEPT !.option = v]
             new == SyncConfig(t, pads)
             back == [new EXCEPT !.option = mem.option]
  <2>1. t = [res |-> mem.res, aspect |-> mem.aspect, option |-> v, netplay |-> mem.netplay,
             pads |-> mem.pads]
    BY DEF Remembered, IsSettings
  <2>2. v \in DOMAIN Spellings[Option]
    BY LauncherAssumption
  <2>3. IsSettings(t)
    BY <2>1, <2>2 DEF Remembered, IsSettings
  <2>4. new = [res |-> Snapped(mem.res), aspect |-> mem.aspect, option |-> v,
               netplay |-> mem.netplay, pads |-> BoundDevices(pads)]
    BY <2>1, <2>3, SyncAlike
  <2> HIDE DEF new
  <2>5. back = [res |-> Snapped(mem.res), aspect |-> mem.aspect, option |-> mem.option,
                netplay |-> mem.netplay, pads |-> BoundDevices(pads)]
    BY <2>4
  <2> HIDE DEF back
  <2>6. IsSettings(new) /\ IsSettings(back) /\ Alike(mem, back)
    BY <2>2, <2>4, <2>5 DEF Remembered, IsSettings, Alike
  <2>7. Input(SettingResults(new, back))
    BY <1>2, Zenon DEF ChooseOption, Choose, new, back
  <2> QED BY <2>6, <2>7, SettingFine
<1>3. ASSUME NEW q \in Resolutions, ChooseResolution(q)
      PROVE  \E results : Input(results) /\ \A r \in results : Fine(r)
  <2> DEFINE t == [mem EXCEPT !.res = q]
             new == SyncConfig(t, pads)
             back == [new EXCEPT !.res = Snapped(mem.res)]
  <2>1. t = [res |-> q, aspect |-> mem.aspect, option |-> mem.option, netplay |-> mem.netplay,
             pads |-> mem.pads]
    BY DEF Remembered, IsSettings
  <2>3. IsSettings(t)
    BY <2>1 DEF Remembered, IsSettings
  <2>4. new = [res |-> Snapped(q), aspect |-> mem.aspect, option |-> mem.option,
               netplay |-> mem.netplay, pads |-> BoundDevices(pads)]
    BY <2>1, <2>3, SyncAlike
  <2> HIDE DEF new
  <2>5. back = [res |-> Snapped(mem.res), aspect |-> mem.aspect, option |-> mem.option,
                netplay |-> mem.netplay, pads |-> BoundDevices(pads)]
    BY <2>4
  <2> HIDE DEF back
  <2>6. IsSettings(new) /\ IsSettings(back) /\ Alike(mem, back)
    BY <2>4, <2>5 DEF Remembered, IsSettings, Alike
  <2>7. Input(SettingResults(new, back))
    BY <1>3, Zenon DEF ChooseResolution, new, back
  <2> QED BY <2>6, <2>7, SettingFine
<1>4. ASSUME NEW typed, Netplay("Host", typed)
      PROVE  \E results : \E how : Launches(results, how) /\ \A r \in results : Fine(r)
  BY <1>4, NetplayFine DEF Netplay
<1> QED BY <1>1, <1>2, <1>3, <1>4, Zenon DEF Tunes

LEMMA BindsFine ==
  ASSUME Remembered, Binds
  PROVE  \/ \E results : Input(results) /\ \A r \in results : Fine(r)
         \/ \E results : \E how : Launches(results, how) /\ \A r \in results : Fine(r)
<1>1. ASSUME NEW p, NEW x, Input(PersistControllers(p, x))
      PROVE  \E results : Input(results) /\ \A r \in results : Fine(r)
  BY <1>1, PersistFine
<1>2. ASSUME NEW i, Disconnect(i) \/ ResetControls(i) \/ Capture(i)
      PROVE  \E results : Input(results) /\ \A r \in results : Fine(r)
  BY <1>1, <1>2, Zenon DEF Disconnect, ResetControls, Capture, Ported
<1>3. ASSUME NEW i, NEW d, BindPort(i, d)
      PROVE  \E results : Input(results) /\ \A r \in results : Fine(r)
  BY <1>1, <1>3, Zenon DEF BindPort, Ported
<1>4. ASSUME NEW i, InvertAxis(i)
      PROVE  \E results : Input(results) /\ \A r \in results : Fine(r)
  <2> DEFINE p == [pads EXCEPT ![i] = [pads[i] EXCEPT !.controls = "own"]]
             results == {IF r.ok THEN r ELSE [r EXCEPT !.pads = ReadControllerProfile(r.profile)] :
                           r \in PersistControllers(p, exists)}
  <2>1. Input(results)
    BY <1>4, Zenon DEF InvertAxis, Ported
  <2> HIDE DEF p
  <2>2. ASSUME NEW s \in results PROVE Fine(s)
    <3>1. PICK r \in PersistControllers(p, exists) :
            s = IF r.ok THEN r ELSE [r EXCEPT !.pads = ReadControllerProfile(r.profile)]
      BY <2>2
    <3> QED BY <3>1, PersistFine, InvertFine
  <2> QED BY <2>1, <2>2
<1>5. ASSUME Play \/ Netplay("Join", "good")
      PROVE  \E results : \E how : Launches(results, how) /\ \A r \in results : Fine(r)
  BY <1>5, EnsureFine, NetplayFine DEF Play, Netplay
<1> QED BY <1>2, <1>3, <1>4, <1>5, Zenon DEF Binds

LEMMA FineRemembered ==
  ASSUME NEW r, Fine(r), config' = r.config, at' # "off" => mem' = r.mem PROVE MemInv'
  BY DEF Fine, MemInv, Shown

LEMMA ServesRemembered ==
  ASSUME MemInv, Serves \/ TakeExtraction PROVE MemInv'
<1>1. ASSUME NEW from, NEW to, from \in Shown, Relist(from, to) PROVE MemInv'
  <2>1. Remembered
    BY <1>1 DEF Relist, MemInv, Remembered
  <2> QED BY <1>1, <2>1, RelistIs, RefreshFine, FineRemembered
<1>2. ASSUME NEW results, Input(results), \A r \in results : Fine(r) PROVE MemInv'
  BY <1>2, InputIs, FineRemembered
<1>3. ASSUME NEW results, NEW how, Launches(results, how), \A r \in results : Fine(r)
      PROVE MemInv'
  BY <1>3, LaunchesIs, FineRemembered
<1>4. CASE TakeExtraction
  <2>1. Remembered
    BY <1>4 DEF TakeExtraction, MemInv, Remembered, Shown
  <2>2. CASE UNCHANGED <<config, mem>>
    BY <2>1, <2>2 DEF Remembered, MemInv
  <2> QED BY <1>4, <2>1, <2>2, TakeIs, EnsureFine, FineRemembered
<1>5. CASE Relist("devices", "poll") \/ Relist("replug", "take")
  BY <1>1, <1>5 DEF Shown
<1>6. ASSUME NoInput \/ Tunes \/ Binds \/ Play PROVE at = "widgets"
  BY <1>6 DEF NoInput, Tunes, Binds, Play, Input, Launches, ChooseAspect, ChooseOption,
              ChooseResolution, Choose, Netplay, Disconnect, ResetControls, InvertAxis, Capture,
              BindPort
<1>7. CASE NoInput \/ Tunes \/ Binds \/ Play
  <2>1. Remembered
    BY <1>6, <1>7 DEF MemInv, Remembered, Shown
  <2>2. CASE NoInput
    BY <1>2, <2>1, <2>2, SameFine DEF NoInput
  <2>3. CASE Play
    BY <1>3, <2>1, <2>3, EnsureFine DEF Play
  <2>4. CASE Tunes
    BY <1>2, <1>3, <2>1, <2>4, TunesFine
  <2>5. CASE Binds
    BY <1>2, <1>3, <2>1, <2>5, BindsFine
  <2> QED BY <1>7, <2>2, <2>3, <2>4, <2>5
<1> QED BY <1>4, <1>5, <1>7 DEF Serves

LEMMA MemRests ==
  ASSUME MemInv, UNCHANGED <<config, mem>>, at \in Shown PROVE MemInv'
  BY DEF MemInv

LEMMA MemHidden == ASSUME at' \notin Shown PROVE MemInv'
  BY DEF MemInv

LEMMA ReadRemembered ==
  ASSUME at = "off", ReadSettings PROVE MemInv'
<1>1. PICK l \in LoadConfig(config) :
        /\ config' = l.write.file
        /\ IF l.write.alive /\ l.config # {} THEN at' = "start" /\ mem' \in l.config
                                             ELSE UNCHANGED <<at, mem>>
  BY DEF ReadSettings
<1>2. CASE l.write.alive /\ l.config # {}
  <2>1. l.config = LoadText(l.write.file) \/ l.config = {}
    <3>1. CASE config.by # "none"
      <4>1. l = [write |-> Outcome(config, TRUE, TRUE, 0), config |-> LoadText(config)]
        BY <3>1 DEF LoadConfig
      <4>2. Outcome(config, TRUE, TRUE, 0).file = config
        BY DEF Outcome
      <4> QED BY <4>1, <4>2
    <3>2. CASE config.by = "none"
      <4>1. PICK w \in SaveConfig(config, DefaultConfig) :
              l = [write |-> w, config |-> IF w.ok THEN LoadText(w.file) ELSE {}]
        BY <3>2 DEF LoadConfig
      <4> QED BY <4>1
    <3> QED BY <3>1, <3>2
  <2>2. mem' \in LoadText(config')
    BY <1>1, <1>2, <2>1
  <2>3. IsSettings(mem') /\ Agrees(config', mem')
    BY <2>2, LoadsAgree
  <2> QED BY <2>3 DEF MemInv
<1>3. CASE ~(l.write.alive /\ l.config # {})
  BY <1>1, <1>3, MemHidden DEF Shown
<1> QED BY <1>2, <1>3

LEMMA NextRemembered ==
  ASSUME IInv, [Next]_vars PROVE MemInv'
<1> USE DEF Shown
<1>1. MemInv
  BY DEF IInv
<1>2. CASE StartsOne
  <2>1. CASE ReadSettings
    BY <1>2, <2>1, ReadRemembered DEF StartsOne
  <2>2. CASE ExtractOnly
    BY <2>2, MemHidden DEF ExtractOnly
  <2>3. CASE UNCHANGED launcherVars
    BY <1>2, <2>3, MemHidden DEF StartsOne, launcherVars
  <2> QED BY <1>2, <2>1, <2>2, <2>3 DEF StartsOne
<1>3. CASE LauncherStep
  <2>1. CASE OpenWindow \/ PollSetup \/ Events \/ CancelSetup \/ ExtractAndPlay
    <3>1. at \in Shown /\ UNCHANGED <<config, mem>>
      BY <2>1 DEF OpenWindow, PollSetup, Events, CancelSetup, ExtractAndPlay, diskVars, padVars
    <3> QED BY <1>1, <3>1, MemRests
  <2>2. CASE Gone \/ Killed
    BY <2>2, MemHidden DEF Gone, Killed, Forgotten
  <2>3. CASE Defer
    <3>1. at \in Shown /\ UNCHANGED <<config, mem>>
      BY <2>3 DEF Defer, diskVars, padVars
    <3> QED BY <1>1, <3>1, MemRests
  <2>4. CASE ExtractOnlyEnds \/ RunnerOver \/ Die
    BY <2>2, <2>4 DEF ExtractOnlyEnds, RunnerOver, Die
  <2>5. CASE Join
    BY <2>2, <2>5, MemHidden DEF Join
  <2>6. CASE Launch
    BY <2>2, <2>6, MemHidden DEF Launch
  <2>7. CASE Serves \/ TakeExtraction
    BY <1>1, <2>7, ServesRemembered
  <2> QED BY <1>3, <2>1, <2>3, <2>4, <2>5, <2>6, <2>7
      DEF LauncherStep, StartStep, FrameStep, EndStep, Plays, Serves
<1>4. CASE OthersStep
  <2>1. UNCHANGED <<at, mem>>
    BY <1>4 DEF OthersStep, launcherVars, padVars
  <2>2. CASE UNCHANGED config
    BY <1>1, <2>1, <2>2 DEF MemInv
  <2>3. CASE RunStep
    <3>1. run.at # "off"
      BY <2>3, RunnerIs DEF IInv, RunInv, RootInv
    <3>2. at \in {"off", "waiting"}
      BY <3>1, RunOffTyped DEF IInv, RunInv
    <3> QED BY <2>1, <3>2, MemHidden
  <2> QED BY <1>4, <2>2, <2>3 DEF OthersStep, diskVars
<1>5. CASE Unplug \/ Damage \/ UNCHANGED vars
  <2>1. UNCHANGED <<at, mem, config>>
    BY <1>5 DEF Unplug, Damage, vars, launcherVars, diskVars, padVars
  <2> QED BY <1>1, <2>1 DEF MemInv
<1> QED BY <1>2, <1>3, <1>4, <1>5 DEF Next

-----------------------------------------------------------------------------
(* The theorems.                                                           *)

LEMMA InitSafe == ASSUME Init PROVE IInv
<1> USE DEF Init, SetupInit, BuildInit, LauncherInit
<1>1. SetupInv
  <2>1. run.module = NoModule
    BY RunOffTyped
  <2>2. InUse = {}
    BY <2>1 DEF InUse, NoModule
  <2> QED BY <2>2 DEF SetupInv, SetupTyped, WorksOn, Apart, Locked, NoChild, NoModule, Builders,
                      Modules, Folders, Places
<1>2. RunInv
  BY RunOffTyped DEF RunInv, RunTyped
<1>3. GoInv
  BY DEF GoInv, Folders, Running, NoChild
<1>4. RootInv
  BY StartupAssumption DEF RootInv, ExIdle, Folders, Contents
<1>5. MemInv
  BY DEF MemInv, Shown
<1> QED BY <1>1, <1>2, <1>3, <1>4, <1>5 DEF IInv

LEMMA StepSafe ==
  ASSUME IInv, [Next]_vars PROVE IInv' /\ PublishedStep /\ RootStep
<1>1. Safe
  BY DEF IInv, Safe
<1>2. SafeKept
  BY <1>1, NextKept
<1> QED BY <1>2, NextRemembered DEF SafeKept, SetupKept, IInv

\* Every state of a start, of those after it and of what goes wrong between
\* them is one of the invariant.
THEOREM Invariant == Spec => []IInv
<1>1. Init => IInv
  BY InitSafe
<1>2. IInv /\ [Next]_vars => IInv'
  BY StepSafe
<1> QED BY <1>1, <1>2, PTL DEF Spec

\* What the window shows of the settings is what the next start will read,
\* whatever saves failed, in a file of any words, ratios and resolutions.
THEOREM ShowsWhatIsSaved == Spec => []MemoryIsFile
<1>1. IInv => MemoryIsFile
  BY DEF IInv, MemInv, Agrees, MemoryIsFile, Shown
<1> QED BY <1>1, Invariant, PTL

\* The runner is given the module of the game it is given, or an extraction
\* was taken while another game's module was being built.
THEOREM ModuleOfGame == Spec => []BootsAsBuilt
<1>1. IInv => BootsAsBuilt
  BY DEF IInv, RunInv, BootsAsBuilt
<1> QED BY <1>1, Invariant, PTL

\* Only a whole module is published, and one in use is not removed, moved or
\* built over, with any number of attempts and builders killed in any order.
THEOREM Published == Spec => PublishedWhole
<1>1. IInv /\ [Next]_vars =>
        [/\ active' # active => dir'[active'] = "whole"
         /\ \A d \in {active, module.dir, run.module.dir} \ {NoDir} :
              dir'[d] \in {dir[d], "spoilt"}]_vars
  BY StepSafe DEF PublishedStep
<1> QED BY <1>1, Invariant, PTL DEF Spec, PublishedWhole

\* No step of an extraction, of a patch or of their being killed takes away a
\* game that would be accepted from the folder extractions go to.
THEOREM AcceptedStays == Spec => AcceptedKept
<1>1. IInv /\ [Next]_vars => [Accepted(root[Extracted]) => Accepted(root'[Extracted])]_vars
  BY StepSafe DEF RootStep
<1> QED BY <1>1, Invariant, PTL DEF Spec, AcceptedKept
=============================================================================
