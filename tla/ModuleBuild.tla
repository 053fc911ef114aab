----------------------------- MODULE ModuleBuild -----------------------------
(* The module builder (scripts/disc_builder/build.py), the launcher's child, *)
(* and the directories it leaves: each attempt builds in a fresh one, which  *)
(* gets a receipt when the module is complete, then the recipe's own name if *)
(* that is free, and then is pointed at and published.  A builder may be     *)
(* killed after any step.  The cache directory's lock is the system's: it    *)
(* goes with the process.  There is one recipe.                              *)
EXTENDS FrontendConfig

CONSTANTS
  KeyDir,    \* the directory named by the recipe's digest
  Attempts   \* bound: the names of the build- directories

Dirs == Attempts \cup {KeyDir}

ASSUME BuildAssumption == KeyDir \notin Attempts /\ NoDir \notin Dirs

VARIABLES
  dir,      \* "none", "cut", "whole" with its receipt, or "spoilt": its module
            \* is not what the receipt says
  pointer,  \* the recipe's pointer file, or NoDir
  active,   \* active-module.txt: the directory of its module, or NoDir
  child,    \* the launcher's builder
  orphan    \* a builder whose launcher was killed

buildVars == <<dir, pointer, active>>

\* A builder: how far it is, for which game, and the directory it works in or
\* delivers.
NoChild == [at |-> "none", game |-> NoRoot, dir |-> NoDir]
Begun(game) == [NoChild EXCEPT !.at = "busy", !.game = game]

\* at: "none"; "busy" checking the game; "waits" for the lock; then, with the
\* lock, "finds", "makes", "moves", "points", "publishes"; "built", "broken".
Locked(b) == b.at \in {"finds", "makes", "moves", "points", "publishes"}
Ended(b)  == b.at \in {"built", "broken"}

BuildInit ==
  /\ dir = [d \in Dirs |-> "none"] /\ pointer = NoDir /\ active = NoDir
  /\ child = NoChild /\ orphan = NoChild

\* Where the recipe's module is looked for, and would be moved to.
Artifact == IF pointer # NoDir THEN pointer ELSE KeyDir

\* As a bug would have it: what does not have the recipe's name is swept.
StaleAll == Attempts

\* Attempts that never got a receipt.
Stale == {d \in Attempts : dir[d] = "cut"}

Swept == [d \in Dirs |-> IF d \in Stale THEN "none" ELSE dir[d]]

-----------------------------------------------------------------------------
(* The steps of a builder b, which is n after it.                          *)

Checks(b, n) ==
  /\ b.at = "busy"
  /\ Accepted(Held(b.game)) /\ n = [b EXCEPT !.at = "waits"]
  /\ UNCHANGED buildVars

Locks(b, n) ==
  /\ b.at = "waits" /\ n = [b EXCEPT !.at = "finds"]
  /\ ~Locked(child) /\ ~Locked(orphan)
  /\ UNCHANGED buildVars

\* A module that still has the receipt's digest is published again; otherwise
\* leftovers are swept and a new attempt begins.
Finds(b, n) ==
  /\ b.at = "finds"
  /\ \/ /\ dir[Artifact] = "whole"
        /\ n = [b EXCEPT !.at = "publishes", !.dir = Artifact]
        /\ UNCHANGED dir
     \/ /\ dir[Artifact] # "whole"
        /\ \E d \in Attempts :
             /\ Swept[d] = "none"
             /\ dir' = [Swept EXCEPT ![d] = "cut"]
             /\ n = [b EXCEPT !.at = "makes", !.dir = d]
  /\ UNCHANGED <<pointer, active>>

\* Translated, compiled, linked and cleaned up; then the receipt is written.
Makes(b, n) ==
  /\ b.at = "makes" /\ n = [b EXCEPT !.at = "moves"]
  /\ dir' = [dir EXCEPT ![b.dir] = "whole"]
  /\ UNCHANGED <<pointer, active>>

\* The attempt takes the recipe's name, or stays where it is: when the name is
\* taken, or it cannot be renamed.
Moves(b, n) ==
  /\ b.at = "moves"
  /\ \/ n = [b EXCEPT !.at = "points"] /\ UNCHANGED dir
     \/ /\ dir[Artifact] = "none"
        /\ n = [b EXCEPT !.at = "points", !.dir = Artifact]
        /\ dir' = [dir EXCEPT ![Artifact] = "whole", ![b.dir] = "none"]
  /\ UNCHANGED <<pointer, active>>

Points(b, n) ==
  /\ b.at = "points" /\ n = [b EXCEPT !.at = "publishes"]
  /\ pointer' = b.dir
  /\ UNCHANGED <<dir, active>>

Publishes(b, n) ==
  /\ b.at = "publishes" /\ n = [b EXCEPT !.at = "built"]
  /\ active' = b.dir
  /\ UNCHANGED <<dir, pointer>>

\* Any step may fail; the directory stays for its logs.
Breaks(b, n) ==
  /\ b.at # "none" /\ ~Ended(b)
  /\ n = [b EXCEPT !.at = "broken", !.dir = NoDir]
  /\ UNCHANGED buildVars

Builds(b, n) ==
  Checks(b, n) \/ Locks(b, n) \/ Finds(b, n) \/ Makes(b, n) \/ Moves(b, n)
    \/ Points(b, n) \/ Publishes(b, n) \/ Breaks(b, n)

\* The build at once, for those who look only at how it ends.
BuildsAtOnce ==
  /\ child.at = "busy"
  /\ \E how \in {"built", "broken"} : child' = [child EXCEPT !.at = how]
  /\ UNCHANGED <<buildVars, orphan>>

ChildBuilds  == Builds(child, child') /\ UNCHANGED orphan
OrphanBuilds == Builds(orphan, orphan') /\ UNCHANGED child

\* Nobody waits for an orphan.
OrphanEnds == Ended(orphan) /\ orphan' = NoChild /\ UNCHANGED <<buildVars, child>>

\* A module is damaged, by what is no part of this, while no builder runs.
Spoils ==
  /\ child = NoChild /\ orphan = NoChild
  /\ \E d \in Dirs : dir[d] = "whole" /\ dir' = [dir EXCEPT ![d] = "spoilt"]
  /\ UNCHANGED <<pointer, active, child, orphan>>

-----------------------------------------------------------------------------
(* The launcher's side (launcher_module_setup.hpp): a child process that the  *)
(* window polls, starts anew or kills.                                     *)

VARIABLE module    \* m_module: the module the last build delivered, and its game

setupVars == <<buildVars, child, orphan, module>>

SetupInit == BuildInit /\ module = NoModule

Running == child.at # "none"

\* Killed, waited for and forgotten, whatever it had got done.
LeftRunning == child   \* as a bug would have it
Cancelled == NoChild

\* Start: first cancel; the folder or the process may be refused.
Start(game) ==
  /\ module' = NoModule
  /\ child' \in {Cancelled, Begun(game)}
  /\ UNCHANGED <<buildVars, orphan>>

\* Poll: an ended child is reaped; a module that is not there after all counts
\* as none.
Poll ==
  /\ child' = IF Ended(child) THEN NoChild ELSE child
  /\ module' = CASE child.at = "built"  -> [game |-> child.game, dir |-> child.dir]
                 [] child.at = "broken" -> NoModule
                 [] OTHER               -> module
  /\ UNCHANGED <<buildVars, orphan>>

\* Cancel
Cancel == child' = Cancelled /\ UNCHANGED <<buildVars, orphan, module>>

\* The launcher is gone: with a build cancelled, or, when it was killed, perhaps
\* with the builder left behind (bound: one such).
Closed == child' = NoChild /\ module' = NoModule /\ UNCHANGED <<buildVars, orphan>>
Left ==
  /\ child' = NoChild /\ module' = NoModule
  /\ orphan' \in {orphan, IF orphan = NoChild THEN child ELSE orphan}
  /\ UNCHANGED buildVars
=============================================================================
