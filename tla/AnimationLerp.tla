---------------------------- MODULE AnimationLerp ----------------------------
(* What Painter draws and steps: packets that are changed over their draw    *)
(* only, and effects that advance with every Painter; and what is animated   *)
(* in guest memory and interpolated there: particles and emitters, texture   *)
(* animations, cloth.                                                        *)
EXTENDS Frame60Looks

-----------------------------------------------------------------------------
(* The draw windows: what a packet's draw shows is changed on its entry    *)
(* and put back on its return.  Foliage (an element of a grass, flower or  *)
(* tree packet) and shadows (an entry of the shadow control) differ in how *)
(* they know the entry again.  tag is the element's animation or the       *)
(* shadow's id, 0 when the element is clipped or the shadow absent.        *)

Windows ==
  [known : BOOLEAN,   \* FolHist.self is this packet; s_shd_prev
   tag : 0..2,        \* ok_curr and tag_curr; id_snap, key and model0
   curr : Stored,     \* the look at the last L draw
   bak : Stored,
   armed : BOOLEAN]   \* armed and inj; s_shd_armed with sinj or rinj

NoWindow == [known |-> FALSE, tag |-> 0, curr |-> Nothing, bak |-> Nothing,
             armed |-> FALSE]

WindowInit(v) == [obj |-> Fresh(v), mod |-> NoWindow]

Present(s) == s.obj.tag # 0

\* On an L frame the entry's look is kept.
Captured(s) ==
  [s EXCEPT !.mod.known = TRUE, !.mod.tag = s.obj.tag,
            !.mod.curr = IF Present(s) THEN Live(s) ELSE @]

Same(s) == Present(s) /\ s.mod.tag = s.obj.tag

Lerped(s) ==
  [Put(s, Mix(s.mod.curr, Live(s))) EXCEPT !.mod.bak = Live(s), !.mod.armed = TRUE]

\* fol_entry: another packet forgets what the last one showed.
FolEntry(s, f) ==
  LET h == IF s.mod.known THEN s
           ELSE [s EXCEPT !.mod.known = TRUE, !.mod.tag = 0, !.mod.armed = FALSE]
  IN IF ~f.split THEN s
     ELSE IF f.class = "L" THEN Captured(h)
     ELSE IF f.dup \/ f.cut \/ ~Same(h) THEN h
     ELSE Lerped(h)

\* shd_ctrl_draw_entry: an entry that moved too far is not matched.
ShdEntry(s, f) ==
  IF ~f.split THEN s
  ELSE IF f.class = "L" THEN Captured(s)
  ELSE IF f.dup \/ f.cut \/ ~s.mod.known THEN s
  ELSE IF ~Same(s) \/ Far(s.mod.curr, Live(s)) THEN s
  ELSE Lerped(s)

\* A mistake: the window is closed and the saved look is not put back.
DrawReturnClosed(s) == [s EXCEPT !.mod.armed = FALSE]

\* fol_return, on_shd_draw_return
DrawReturn(s) ==
  IF s.mod.armed THEN [Put(s, s.mod.bak) EXCEPT !.mod.armed = FALSE] ELSE s

WindowDrawn(s, kind, f) ==
  LET e == IF kind = "foliage" THEN FolEntry(s, f) ELSE ShdEntry(s, f)
  IN [s |-> DrawReturn(e), drawn |-> IF Present(e) THEN Live(e) ELSE Nothing]

\* fol_reset; for shadows an armed window is closed first.
WindowReset(s, kind) ==
  LET r == IF kind = "foliage" THEN s ELSE DrawReturn(s)
  IN [r EXCEPT !.mod.known = FALSE, !.mod.armed = FALSE,
               !.mod.tag = IF kind = "foliage" THEN 0 ELSE @]

\* A foliage packet at another address.
Replaced(s, v) == [s EXCEPT !.mod.known = FALSE, !.obj = Fresh(v)]

\* One frame's production: the entry rests, is written, changes its animation or
\* id, goes, or (a foliage packet) is replaced.
WindowProduced(s, kind) ==
  {s, [s EXCEPT !.obj.tag = 0]}
  \cup {[s EXCEPT !.obj = [Wrote(s.obj, 0, Plain(v)) EXCEPT !.tag = t]] :
          v \in Looks, t \in 1..2}
  \cup (IF kind = "foliage"
        THEN {Replaced(s, v) : v \in Looks} ELSE {})

-----------------------------------------------------------------------------
(* State that Painter itself advances: the screen fader, the screen fade,  *)
(* the wipe, the sea's texture counter and the day's lights.  An R frame   *)
(* runs Painter once more, so the mod steps each of them back before its   *)
(* body (fade, sea) or restores it after (wipe, lights); the fader is not  *)
(* run but shows the colour of the last L frame.  tag 0 is inactive.       *)

CONSTANTS Step(_), Back(_)   \* the guest's own advance of a look, and its inverse

\* The step back makes the body draw again what the L frame drew.
ASSUME StepAssumption == \A v \in Looks : Step(v) \in Looks /\ Step(Back(v)) = v

Advanced(x) == Plain(Step(x[2]))
Stepped(x)  == Plain(Back(x[2]))

Active(s) == s.obj.tag # 0

\* The guest's body: it advances what is active.  Done for the game's time, it
\* counts as production.
Body(s)     == IF Active(s) THEN Put(s, Advanced(Live(s))) ELSE s
TrueBody(s) == IF Active(s) THEN [s EXCEPT !.obj = Wrote(@, 0, Advanced(Live(s)))] ELSE s
Shows(s)    == IF Active(s) THEN Live(s) ELSE Nothing

\* One frame's production: it rests, is set, started or stopped.
StepperProduced(s) ==
  {s, [s EXCEPT !.obj.tag = 0]}
  \cup {[s EXCEPT !.obj = [Wrote(s.obj, 0, Plain(v)) EXCEPT !.tag = 1]] : v \in Looks}

-----------------------------------------------------------------------------
(* Steppers: s.mod is the snapshot, Nothing when there is none.            *)

Snapshots == [snap : Stored, tag : 0..2]
StepperInit(v) == [obj |-> Fresh(v), mod |-> [snap |-> Nothing, tag |-> 0]]

Snapped(s) == [s EXCEPT !.mod = [snap |-> Live(s), tag |-> s.obj.tag]]

\* The entry hook, before the body of an R frame.
StepEntry(s, kind) ==
  IF kind = "pre" /\ Active(s) THEN Put(Snapped(s), Stepped(Live(s))) ELSE Snapped(s)

\* The return hook.
StepReturn(s) ==
  IF s.mod.snap = Nothing THEN s
  ELSE [Put(s, s.mod.snap) EXCEPT !.obj.tag = s.mod.tag,
                                  !.mod = [snap |-> Nothing, tag |-> 0]]

\* The body may stop the effect at its end.
Ended(s) == {s, [s EXCEPT !.obj.tag = 0]}

StepperDrawn(s, kind, f) ==
  IF f.split /\ f.class = "R"
  THEN IF f.dup THEN {[s |-> s, drawn |-> Nothing]}
       ELSE LET b == Body(StepEntry(s, kind))
            IN {[s |-> StepReturn(e), drawn |-> Shows(b)] : e \in Ended(b)}
  ELSE {[s |-> StepReturn(e), drawn |-> Shows(TrueBody(s))] : e \in Ended(TrueBody(s))}

-----------------------------------------------------------------------------
(* The fader.                                                              *)

Faders ==
  [lDrew : BOOLEAN,    \* s_fdr_l_drew
   lColor : Stored,    \* s_fdr_l_color
   pending : BOOLEAN,  \* s_fdr_r_pending
   saved : Stored]     \* s_fdr_r_saved

NoFader == [lDrew |-> FALSE, lColor |-> Nothing, pending |-> FALSE, saved |-> Nothing]

FaderInit(v) == [obj |-> Fresh(v), mod |-> NoFader]

\* on_fader_draw_seen
Seen(s) == IF Active(s) THEN [s EXCEPT !.mod.lDrew = TRUE, !.mod.lColor = Live(s)] ELSE s

\* The end of a substitution, at the next gate.
PaidBack(s) == IF s.mod.pending
               THEN [Put(s, s.mod.saved) EXCEPT !.mod.pending = FALSE] ELSE s

\* on_fader_gate and, for the game's own frames, the control it guards.
FaderDrawn(s, f) ==
  LET p == PaidBack(s)
      b == TrueBody([p EXCEPT !.mod.lDrew = @ /\ f.class # "L"])
  IN IF ~(f.split /\ f.class = "R") THEN {[s |-> e, drawn |-> Shows(b)] : e \in Ended(Seen(b))}
     ELSE IF ~p.mod.lDrew THEN {[s |-> p, drawn |-> Nothing]}
     ELSE {[s |-> [Put(p, p.mod.lColor) EXCEPT !.mod.saved = Live(p), !.mod.pending = TRUE],
            drawn |-> p.mod.lColor]}

FaderReset(s) == [PaidBack(s) EXCEPT !.mod = NoFader]

-----------------------------------------------------------------------------
(* The particle history: one entry of s_jpa (a particle) or of s_jpae (an  *)
(* emitter).  The L frame forgets everything and reads what lives; an R    *)
(* frame pairs the entry with the same address one calc later.  The        *)
(* object's age is mCurFrame or the emitter's tick, its tag a particle's   *)
(* lifetime, or 2 for an emitter with STOPCALC set.                        *)

Entries ==
  [known : BOOLEAN,    \* the entry holds this address
   inj : BOOLEAN,
   l : Stored, r : Stored,
   age : 0..MaxAge,    \* frame; l.tick
   tag : 0..2]         \* lifetime

NoEntry == [known |-> FALSE, inj |-> FALSE, l |-> Nothing, r |-> Nothing,
            age |-> 0, tag |-> 0]

ParticleInit(v) == [obj |-> Fresh(v), mod |-> NoEntry]

\* jpa_restore
JpaRestore(s) == IF s.mod.inj THEN [Put(s, s.mod.r) EXCEPT !.mod.inj = FALSE] ELSE s

\* jpa_lframe; an entry is found unless its hash chain is full.
JpaL(s, room) ==
  LET b == JpaRestore(s)
  IN [b EXCEPT !.mod = IF ~(Owned(s) /\ room) THEN NoEntry
                       ELSE [known |-> TRUE, inj |-> FALSE, l |-> Live(b), r |-> Live(b),
                             age |-> b.obj.age, tag |-> b.obj.tag]]

\* The object is the entry's, one calc later (or at rest, for a stopped emitter).
Follows(s, kind) ==
  \/ s.obj.age = s.mod.age + 1 /\ (kind = "particle" => s.obj.tag = s.mod.tag)
  \/ kind = "emitter" /\ s.obj.tag = 2 /\ s.obj.age = s.mod.age

\* jpa_visit and jpa_emtr_visit on an R frame.
JpaR(s, kind) ==
  IF ~Owned(s) \/ ~s.mod.known THEN s
  ELSE IF s.mod.inj THEN Put(s, Mix(s.mod.l, s.mod.r))
  ELSE IF ~Follows(s, kind) THEN s
  ELSE [Put(s, Mix(s.mod.l, Live(s))) EXCEPT
          !.mod.r = Live(s), !.mod.inj = TRUE,
          !.mod.age = IF kind = "particle" THEN s.obj.age ELSE @]

JpaReset(s) == [JpaRestore(s) EXCEPT !.mod = NoEntry]

\* A new particle or emitter in the memory: a particle may have been calculated
\* once already, its lifetime is then not the former one's.
Recycled(s, kind, v, old, tag) ==
  [s EXCEPT !.obj = [Fresh(v) EXCEPT !.age = IF old THEN 1 ELSE 0, !.tag = tag]]

\* One frame's production: the object rests, is calculated, dies, or is followed
\* in its memory by another; a stopped emitter is moved without a calc.
ParticleProduced(s, kind) ==
  {s}
  \cup (IF Owned(s) /\ s.obj.age < MaxAge
        THEN {[s EXCEPT !.obj = [Wrote(s.obj, 0, Plain(v)) EXCEPT !.age = @ + 1]] :
                v \in Looks}
        ELSE {})
  \cup (IF Owned(s) THEN {[s EXCEPT !.obj = Taken(s.obj, 0)]} ELSE {})
  \cup (IF Owned(s) /\ kind = "emitter"
        THEN {[s EXCEPT !.obj = [Wrote(s.obj, 0, Plain(v)) EXCEPT !.tag = 2]] : v \in Looks}
        ELSE {})
  \cup {Recycled(s, kind, v, FALSE, 1) : v \in Looks}
  \cup (IF kind = "particle"
        THEN UNION {{Recycled(s, kind, v, TRUE, t) : v \in Looks} : t \in 1..2 \ {s.obj.tag}}
        ELSE {})

-----------------------------------------------------------------------------
(* The texture and colour animations of one material display list: a       *)
(* record of s_ta with one of its slots.  The list has two buffers that    *)
(* its rebuild may swap; the hook on the rebuild's end reads the span.     *)
(* Generations are the L frames, counted since the record's last sighting. *)

CONSTANT StaleGens     \* TA_STALE_GENS
ASSUME StaleAssumption == StaleGens \in Nat

Records ==
  [known : BOOLEAN,    \* the hash leads to the record
   live : BOOLEAN,
   base : Cells,
   since : 0..(StaleGens + 1),   \* s_ta_gen - seen_gen
   has : BOOLEAN, dirty : BOOLEAN, inj : BOOLEAN,
   prev : Stored, curr : Stored, lerp : Stored]

NoRecord == [known |-> FALSE, live |-> FALSE, base |-> 0, since |-> 0, has |-> FALSE,
             dirty |-> FALSE, inj |-> FALSE, prev |-> Nothing, curr |-> Nothing,
             lerp |-> Nothing]

TexInit(v) == [obj |-> Fresh(v), mod |-> NoRecord]

Span(s) == s.obj.mem[s.mod.base]

\* texanim_restore, on every split Painter entry and in a reset.
TexRestore(s) ==
  IF ~s.mod.inj THEN s
  ELSE LET off  == [s EXCEPT !.mod.inj = FALSE, !.mod.dirty = FALSE]
           back == s.mod.dirty /\ Span(s) = s.mod.lerp
       IN IF back THEN [off EXCEPT !.obj.mem[s.mod.base] = s.mod.curr] ELSE off

\* texanim_lframe: a record not seen for long is dropped.
TexL(s) ==
  LET r  == TexRestore(s)
      n  == IF r.mod.since <= StaleGens THEN r.mod.since + 1 ELSE r.mod.since
  IN IF ~r.mod.known THEN r
     ELSE [r EXCEPT !.mod.since = n, !.mod.live = @ /\ n <= StaleGens]

\* ta_build_lerp: nothing to interpolate, or too far apart.
Builds(m) == m.prev # m.curr /\ ~Far(m.prev, m.curr)

\* texanim_rframe
TexInject(s) ==
  LET m == s.mod
  IN IF ~m.live \/ m.since # 0 \/ s.obj.cur # m.base \/ ~m.has \/ ~Builds(m)
        \/ Span(s) # m.curr
     THEN s
     ELSE [s EXCEPT !.obj.mem[m.base] = Mix(m.prev, m.curr), !.mod.dirty = TRUE,
                    !.mod.inj = TRUE, !.mod.lerp = Mix(m.prev, m.curr)]

TexR(s, cut) == IF cut THEN TexRestore(s) ELSE TexInject(TexRestore(s))
TexReset(s)  == [TexRestore(s) EXCEPT !.mod = NoRecord]

-----------------------------------------------------------------------------
\* on_end_diff, for a list rebuilt in its current buffer; reparse when its size or
\* a command changed.  A record that was dropped is found again, not revived.
EndDiff(s, reparse, full) ==
  LET m == s.mod
      x == Live(s)
  IN IF ~m.known
     THEN IF full THEN s
          ELSE [s EXCEPT !.mod = [NoRecord EXCEPT !.known = TRUE, !.live = TRUE,
                                    !.base = s.obj.cur, !.curr = x]]
     ELSE [s EXCEPT !.mod =
             [m EXCEPT !.since = 0, !.base = s.obj.cur, !.inj = FALSE, !.dirty = FALSE,
                       !.curr = x, !.has = ~reparse,
                       !.prev = IF reparse THEN Nothing ELSE m.curr]]

Rebuilt(s, c, v) == [s EXCEPT !.obj = Wrote(s.obj, c, Plain(v))]

Freed(s)         == [s EXCEPT !.obj = Taken(s.obj, 0)]

\* The list is rebuilt; no rebuild escapes the hook.
Sightings(s) ==
  {EndDiff(Rebuilt(s, c, v), reparse, full) :
     c \in Cells, v \in Looks, reparse \in BOOLEAN, full \in BOOLEAN}

\* One frame's production: the list rests, is rebuilt, is freed (at once, perhaps);
\* another list comes to its memory, or takes a record that was dropped.
TexProduced(s) ==
  {s, Freed(s)}
  \cup {EndDiff([s EXCEPT !.obj = Fresh(v)], TRUE, FALSE) : v \in Looks}
  \cup (IF Owned(s) THEN Sightings(s) \cup {Freed(t) : t \in Sightings(s)} ELSE {})
  \cup (IF s.mod.known /\ ~s.mod.live THEN {[s EXCEPT !.mod = NoRecord]} ELSE {})

-----------------------------------------------------------------------------
(* Cloth: the simulation writes one of two buffers, a packet draws the one *)
(* its index names.  The mod blends the other buffer towards the current   *)
(* one and lets the packet draw it: for the packets of RELs (and the sail, *)
(* simulated in buffer 0 only) by flipping the index over the whole R      *)
(* frame, for those of the DOL over the packet's draw.                     *)

Unflipped == 2
Flips == [orig : 0..2]        \* a ClothFlip's orig; s_cloth_dol_orig when armed

ClothInit(v) == [obj |-> Fresh(v), mod |-> [orig |-> Unflipped]]

Flipped(s) == s.mod.orig # Unflipped

\* cloth_lerp_slot and a flip of the index: unless the buffers are far apart.
Blended(s, dst, src) ==
  IF Far(s.obj.mem[dst], s.obj.mem[src]) THEN s
  ELSE [s EXCEPT !.obj.mem[dst] = Mix(s.obj.mem[dst], s.obj.mem[src]),
                 !.obj.cur = dst, !.mod.orig = src]

\* cloth_restore_flips; the reset does the same.
Unflip(s) == IF Flipped(s)
             THEN [s EXCEPT !.obj.cur = s.mod.orig, !.mod.orig = Unflipped] ELSE s

\* cloth_painter_entry, on every frame; an L frame keeps what the sail shows.
ClothPainter(s, kind, f) ==
  LET u == Unflip(s)
  IN IF f.split /\ f.class = "L" /\ kind = "sail" /\ Owned(u) /\ u.obj.cur = 0
     THEN [u EXCEPT !.obj.mem[1] = u.obj.mem[0]] ELSE u

\* cloth_rframe, unless the list of flips is full.
ClothR(s, kind, cut, room) ==
  IF kind = "dol" \/ ~Owned(s) \/ cut \/ ~room \/ Flipped(s) THEN s
  ELSE IF kind = "sail" /\ s.obj.cur # 0 THEN s
  ELSE Blended(s, 1 - s.obj.cur, s.obj.cur)

\* The draw of a DOL packet, between its hooks.
ClothDrawn(s, kind, f) ==
  LET e == IF kind = "dol" /\ f.split /\ f.class = "R" /\ ~f.dup
                /\ ~f.cut /\ Owned(s)
           THEN Blended(s, 1 - s.obj.cur, s.obj.cur) ELSE s
  IN [s |-> IF kind = "dol" THEN Unflip(e) ELSE e, drawn |-> Live(e)]

\* One frame's production: the simulation rests or steps; the packet is made anew,
\* with both buffers, or dies.
ClothProduced(s, kind) ==
  {s, [s EXCEPT !.obj = Taken(s.obj, 0)]}
  \cup (IF Owned(s)
        THEN {[s EXCEPT !.obj = Wrote(s.obj, IF kind = "sail" THEN 0 ELSE 1 - s.obj.cur,
                                      Plain(v))] : v \in Looks}
        ELSE {})
  \cup {[s EXCEPT !.obj = Fresh(v)] : v \in Looks}
=============================================================================
