---------------------------- MODULE Frame60Looks ----------------------------
(***************************************************************************)
(* What the interpolation half of frame60-accum rewrites in guest memory,  *)
(* as the mechanisms share it.  A look is what an object's matrices,       *)
(* positions or colours show; the mod stores looks half way between two.   *)
(* A value is a pair of looks: Plain(v) is what the guest's production     *)
(* writes, Mix(x, y) what the mod writes between x and y (how far between  *)
(* is left out).                                                           *)
(*                                                                         *)
(* Each mechanism is a set of operators on a state s of two records: s.obj *)
(* is the guest object, s.mod what the mod remembers of it.                *)
(***************************************************************************)
EXTENDS Integers, FiniteSets

CONSTANTS
  Looks,    \* what production can make of the object
  FarPairs, \* the looks too far apart to be one motion (teleport, camera cut)
  Alien     \* what other owners of the object's memory keep there

ASSUME LooksAssumption == Alien \notin Looks /\ FarPairs \subseteq Looks \X Looks

Plain(v)  == <<v, v>>
Mix(x, y) == <<x[1], y[2]>>
Nothing   == <<>>
Far(x, y) == <<x[2], y[2]>> \in FarPairs

Plains == {Plain(v) : v \in Looks}
Values == Looks \X Looks
Stored == Values \cup {Plain(Alien), Nothing}

\* write_mtx_arr_diff: of x, only what differs from ref is written over live.
Diff(live, x, ref) == <<IF x[1] # ref[1] THEN x[1] ELSE live[1],
                        IF x[2] # ref[2] THEN x[2] ELSE live[2]>>

(* The guest object: two cells of memory (a double-buffered object uses    *)
(* both, cur is the one in use), what production last wrote to each, who   *)
(* owns the memory, the word that identifies the object (0 when it has     *)
(* been overwritten) and the object's age.                                 *)
Cells == 0..1
MaxAge == 3

Objects == [mem : [Cells -> Stored], wrote : [Cells -> Stored], cur : Cells,
            own : {"object", "other"}, tag : 0..2, age : 0..MaxAge, new : BOOLEAN]

Fresh(v) == [mem |-> [c \in Cells |-> Plain(v)], wrote |-> [c \in Cells |-> Plain(v)],
             cur |-> 0, own |-> "object", tag |-> 1, age |-> 0, new |-> TRUE]

\* Production writes x to cell c and makes it the current one.
Wrote(o, c, x) ==
  [o EXCEPT !.mem[c] = x, !.wrote[c] = x, !.cur = c]

\* The object dies and its memory goes to another owner, header included when
\* overwritten.
Taken(o, tag) ==
  [o EXCEPT !.mem = [c \in Cells |-> Plain(Alien)],
            !.wrote = [c \in Cells |-> Plain(Alien)], !.own = "other", !.tag = tag]

Live(s)     == s.obj.mem[s.obj.cur]
Truth(s)    == s.obj.wrote[s.obj.cur]
Put(s, x)   == [s EXCEPT !.obj.mem[s.obj.cur] = x]
Owned(s)    == s.obj.own = "object"
=============================================================================
