---------------------------- MODULE PoseHistory ----------------------------
(***************************************************************************)
(* The two histories of frame60-accum: the poses of a model, and at the    *)
(* end of the module the views of the camera.                              *)
(*                                                                         *)
(* The pose history of one J3D model: a slot of s_hist.  A model keeps its *)
(* matrices in one array (the node layout) or in two that production swaps *)
(* (the buffered layout).  The slot is filled by the hook on calc, which   *)
(* runs before the new pose is written; the Painter hook compares it with  *)
(* memory, and on R frames stores the pose half way.                       *)
(***************************************************************************)
EXTENDS Frame60Looks

Slots ==
  [used : BOOLEAN,    \* the slot is allocated
   data : 0..2,       \* model_data, 0 when unconfigured
   stale : BOOLEAN,   \* seen_epoch differs from s_purge_epoch
   has : BOOLEAN, dirty : BOOLEAN, tele : BOOLEAN,
   inj : BOOLEAN,     \* injected
   mask : BOOLEAN,    \* inj_mask
   prev : Stored, curr : Stored, scratch : Stored]

FreeSlot ==
  [used |-> FALSE, data |-> 0, stale |-> FALSE, has |-> FALSE, dirty |-> FALSE,
   tele |-> FALSE, inj |-> FALSE, mask |-> FALSE,
   prev |-> Nothing, curr |-> Nothing, scratch |-> Nothing]

PoseInit(v) == [obj |-> Fresh(v), mod |-> FreeSlot]

SlotReset(s) == [s EXCEPT !.mod = FreeSlot]
\* A mistake: a configured slot is taken for a live model's.
AliveIfUsed(s) == s.mod.data # 0

Alive(s)     == s.obj.tag = s.mod.data

\* A mistake: a teleport is rotated like any motion.
RotateAlways(h, x) ==
  IF ~h.has THEN [h EXCEPT !.has = TRUE, !.dirty = FALSE, !.prev = x, !.curr = x]
  ELSE [h EXCEPT !.prev = h.curr, !.curr = x, !.dirty = (h.curr # x)]

\* hist_rotate.
Rotate(h, x) ==
  IF ~h.has THEN [h EXCEPT !.has = TRUE, !.dirty = FALSE, !.tele = FALSE,
                           !.prev = x, !.curr = x]
  ELSE IF Far(h.curr, x) THEN [h EXCEPT !.dirty = FALSE, !.tele = TRUE,
                                        !.prev = x, !.curr = x]
  ELSE [h EXCEPT !.prev = h.curr, !.curr = x, !.dirty = (h.curr # x), !.tele = FALSE]

-----------------------------------------------------------------------------
(* The Painter hook.                                                       *)

Ours(s) == s.mod.inj /\ Live(s) = s.mod.scratch

\* An injected pose that is still there is undone; then the truth is observed.
Observed(s) ==
  LET back == IF Ours(s) THEN Put(s, Diff(Live(s), s.mod.curr, s.mod.scratch)) ELSE s
  IN [back EXCEPT !.mod = Rotate([s.mod EXCEPT !.inj = FALSE, !.mask = FALSE],
                                 IF Ours(s) THEN s.mod.curr ELSE Live(s))]

Snapshot(s) ==
  IF ~s.mod.used \/ s.mod.data = 0 THEN s
  ELSE IF ~Alive(s) THEN SlotReset(s)
  ELSE Observed(s)

Refresh(s, buffered) ==
  IF ~s.mod.used \/ s.mod.tele \/ s.mod.data = 0 THEN s
  ELSE IF ~Alive(s) THEN SlotReset(s)
  ELSE IF buffered /\ s.mod.curr = Nothing THEN s    \* before the first snapshot
  ELSE IF Ours(s) THEN [s EXCEPT !.mod.mask = TRUE]
  ELSE LET h == [s.mod EXCEPT !.mask = FALSE, !.inj = @ /\ ~buffered]
       IN [s EXCEPT !.mod = IF Live(s) # h.curr THEN Rotate(h, Live(s)) ELSE h]

Inject(s) ==
  IF ~s.mod.used \/ s.mod.tele \/ s.mod.data = 0 THEN s
  ELSE IF ~Alive(s) THEN SlotReset(s)
  ELSE IF ~(s.mod.has /\ s.mod.dirty) THEN s
  ELSE LET x   == Mix(s.mod.prev, s.mod.curr)
           ref == IF s.mod.mask THEN s.mod.scratch ELSE s.mod.curr
       IN [Put(s, Diff(Live(s), x, ref)) EXCEPT
             !.mod.scratch = x, !.mod.mask = TRUE, !.mod.inj = TRUE]

RestoreInjected(s, buffered) ==
  LET off == [s EXCEPT !.mod.inj = FALSE, !.mod.mask = FALSE]
  IN IF ~s.mod.used \/ ~s.mod.inj THEN s
     ELSE IF s.mod.data = 0 THEN off
     ELSE IF ~Alive(s) THEN SlotReset(s)
     ELSE IF Ours(s) /\ (buffered => s.mod.has)
          THEN Put(off, Diff(Live(s), s.mod.curr, s.mod.scratch))
     ELSE off

PoseL(s) == Snapshot(s)
PoseR(s, buffered, cut) ==
  IF cut THEN RestoreInjected(Refresh(s, buffered), buffered)
  ELSE Inject(Refresh(s, buffered))
PoseReset(s, buffered) == RestoreInjected(s, buffered)

-----------------------------------------------------------------------------
(* Production, and the hooks it meets.                                     *)

Forgotten(h) == [h EXCEPT !.has = FALSE, !.dirty = FALSE, !.tele = FALSE, !.inj = FALSE]

\* j3d_history_ensure: a free slot is taken (unless none is left), a stale one
\* forgets its history, one whose layout changed its buffers as well.
Ensured(h, full, newLayout) ==
  IF ~h.used THEN IF full THEN h ELSE [FreeSlot EXCEPT !.used = TRUE]
  ELSE IF newLayout THEN [FreeSlot EXCEPT !.used = TRUE]
  ELSE IF h.stale THEN [Forgotten(h) EXCEPT !.stale = FALSE, !.mask = FALSE]
  ELSE h

\* on_j3d_calc_entry, for a model whose header holds tag.
CalcEntry(h, tag, full, newLayout) ==
  LET e == Ensured(h, full, newLayout)
  IN IF ~e.used \/ e.data = tag THEN e ELSE [Forgotten(e) EXCEPT !.data = tag]

Posed(s, v, tag, buffered, full, newLayout) ==
  [obj |-> [Wrote(s.obj, IF buffered THEN 1 - s.obj.cur ELSE 0, Plain(v))
              EXCEPT !.tag = tag, !.own = "object", !.new = @ \/ tag # s.obj.tag],
   mod |-> CalcEntry(s.mod, tag, full, newLayout)]

Stale(s)    == [s EXCEPT !.mod.stale = @ \/ s.mod.used]
Died(s)     == [s EXCEPT !.obj = Taken(s.obj, s.obj.tag), !.mod = FreeSlot]
DiedBare(s) == [s EXCEPT !.obj = Taken(s.obj, 0)]
Reborn(s, v) == [s EXCEPT !.obj = Fresh(v)]

\* The model, from a state of S, is posed; another model is made in its memory.
Posings(S, tag, buffered, fulls, layouts) ==
  {Posed(t, v, tag, buffered, full, newLayout) :
     t \in S, v \in Looks, full \in fulls, newLayout \in layouts}
Born(s, v, tag, buffered, full) == Posed(Reborn(s, v), v, tag, buffered, full, FALSE)
Births(s, buffered, fulls) ==
  {Born(s, v, tag, buffered, full) : v \in Looks, tag \in 1..2, full \in fulls}

\* One frame's production: the model rests; is posed, with new model data or a
\* new layout perhaps; another slot is reset; the model dies, seen by a hook
\* (its destructor, a free of its memory) or not (its memory is reused); it is
\* deleted and made again; a new one comes to the memory.
PoseProduced(s, buffered) ==
  IF Owned(s)
  THEN {s, Stale(s), Died(s), DiedBare(s)}
       \cup Posings({s, Stale(s)}, s.obj.tag, buffered, BOOLEAN, {FALSE})
       \cup Posings({s}, 3 - s.obj.tag, buffered, {FALSE}, BOOLEAN)
       \cup Births(Died(s), buffered, {FALSE})
  ELSE {s, SlotReset(s)} \cup Births(s, buffered, BOOLEAN)

-----------------------------------------------------------------------------
(* The camera history: the view and projection matrices of the guest's       *)
(* current view.  The object's cells are two views, cur the current one;     *)
(* tag 0 is no valid view, a matrix that is not finite is Alien.             *)

NoView == 2

Cameras ==
  [view : 0..2,       \* s_cam_view
   has : BOOLEAN,     \* s_cam_has_prev
   inj : BOOLEAN,     \* s_cam_injected
   cut : BOOLEAN,     \* s_cam_cut
   prev : Stored, curr : Stored, scratch : Stored]

NoCamera == [view |-> NoView, has |-> FALSE, inj |-> FALSE, cut |-> FALSE,
             prev |-> Nothing, curr |-> Nothing, scratch |-> Nothing]

CamInit(v) == [obj |-> Fresh(v), mod |-> NoCamera]

\* camview_current
Noted(s) ==
  IF s.obj.tag = 0
  THEN [s EXCEPT !.mod.view = NoView, !.mod.inj = FALSE, !.mod.has = FALSE,
                 !.mod.cut = FALSE]
  ELSE IF s.mod.view # s.obj.cur
  THEN [s EXCEPT !.mod.view = s.obj.cur, !.mod.inj = FALSE, !.mod.has = FALSE]
  ELSE s

Finite(s)  == Live(s) # Plain(Alien)
Dropped(s) == [s EXCEPT !.mod.has = FALSE, !.mod.inj = FALSE]

IsCut(c, x) == c.has /\ Far(c.curr, x)
Observe(c, x) ==
  [c EXCEPT !.prev = IF c.has /\ ~IsCut(c, x) THEN c.curr ELSE x,
            !.curr = x, !.has = TRUE]

OursInView(s) == s.mod.inj /\ Live(s) = s.mod.scratch
Restored(s)   == [Put(s, s.mod.curr) EXCEPT !.mod.inj = FALSE]

CamLframe(s) ==
  LET n == Noted(s)
      b == IF OursInView(n) THEN Restored(n) ELSE n
  IN IF n.obj.tag = 0 THEN n
     ELSE IF ~Finite(n) THEN Dropped(n)
     ELSE [b EXCEPT !.mod = [Observe(b.mod, Live(b)) EXCEPT
                               !.inj = FALSE, !.cut = IsCut(b.mod, Live(b))]]

CamRframe(s) ==
  LET n == Noted(s)
  IN IF n.obj.tag = 0 THEN n
     ELSE IF ~Finite(n) THEN Dropped(n)
     ELSE IF OursInView(n) THEN n
     ELSE IF Live(n) = n.mod.curr THEN [n EXCEPT !.mod.inj = FALSE]
     ELSE [n EXCEPT !.mod = [Observe(n.mod, Live(n)) EXCEPT
                               !.inj = FALSE, !.cut = @ \/ IsCut(n.mod, Live(n))]]

Install(s) ==
  IF s.mod.view = NoView \/ ~s.mod.has THEN s
  ELSE LET x == Mix(s.mod.prev, s.mod.curr)
       IN [s EXCEPT !.obj.mem[s.mod.view] = x,
                    !.mod.scratch = x, !.mod.inj = TRUE]

\* An R frame: a cut is shown as it is, once.
CamR(s) ==
  LET r == CamRframe(s)
  IN IF ~r.mod.cut THEN Install(r)
     ELSE [(IF r.mod.inj THEN Restored(r) ELSE r) EXCEPT !.mod.cut = FALSE]

CamL(s) == CamLframe(s)

\* f60_reset_runtime_state
CamReset(s) ==
  LET back == s.mod.inj /\ s.obj.tag # 0 /\ s.mod.view = s.obj.cur
  IN [(IF back THEN Restored(s) ELSE s) EXCEPT
        !.mod.view = NoView, !.mod.has = FALSE, !.mod.inj = FALSE, !.mod.cut = FALSE]

\* View c becomes the current one and is moved to x.
Viewed(o, c, x) == [Wrote(o, c, x) EXCEPT !.tag = 1, !.new = @ \/ c # o.cur]

\* One frame's production: the view rests, moves, gives way to the other one,
\* goes, comes back, or is not finite.
CamProduced(s) ==
  {[s EXCEPT !.obj.tag = 0], [s EXCEPT !.obj.tag = 1]}
  \cup {[s EXCEPT !.obj = Viewed(s.obj, c, Plain(v))] : c \in Cells, v \in Looks \cup {Alien}}
=============================================================================
