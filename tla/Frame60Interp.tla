--------------------------- MODULE Frame60Interp ---------------------------
(***************************************************************************)
(* The interpolation half of frame60-accum, over one guest object: an R    *)
(* frame draws the packet list once more, with the object between what the *)
(* last L frame showed and what production has made since.  An iteration   *)
(* is Painter (the mod's entry hook, then the object's draw) and, on the   *)
(* game's own frames, logic and production.  Frame60Pacing says which      *)
(* iteration is which; here every order it can produce is followed.        *)
(***************************************************************************)
EXTENDS PoseHistory, AnimationLerp

CONSTANT Kinds   \* the mechanisms followed

PoseKinds  == {"nodes", "buffers"}
ClothKinds == {"rel", "sail", "dol"}
AllKinds   == PoseKinds \cup ClothKinds \cup
              {"camera", "foliage", "shadow", "fader", "pre", "post", "particle",
               "emitter", "texanim"}

ASSUME KindsAssumption == Kinds \subseteq AllKinds

VARIABLES
  tracked,    \* the mechanism
  turn,       \* "painter" or "produce"
  splitMode,  \* s_split_mode
  frameClass, \* s_logic_this_frame: "L" or "R"
  rDup,       \* s_r_dup
  camCut,     \* s_cam_cut, as the other mechanisms see it
  cut,        \* s_fol_cut
  obj, mod,   \* the object and the mod's record of it
  \* History.
  unseen,     \* the camera has jumped since the mod last looked
  drawn,      \* what the last Painter showed of the object
  shown,      \* what the last game frame that showed it showed
  looked,     \* an R frame has compared the object with memory since the last L frame
  again       \* none had between the last two L frames

interpVars == <<tracked, turn, splitMode, frameClass, rDup, camCut, cut, obj, mod,
                unseen, drawn, shown, looked, again>>

state == [obj |-> obj, mod |-> mod]
Buffered == tracked = "buffers"

Mods == CASE tracked \in PoseKinds              -> Slots
          [] tracked = "camera"                 -> Cameras
          [] tracked \in {"foliage", "shadow"}  -> Windows
          [] tracked = "fader"                  -> Faders
          [] tracked \in {"pre", "post"}        -> Snapshots
          [] tracked \in {"particle", "emitter"} -> Entries
          [] tracked = "texanim"                -> Records
          [] OTHER                              -> Flips

InterpTypeOK ==
  /\ tracked \in Kinds /\ turn \in {"painter", "produce"}
  /\ splitMode \in BOOLEAN /\ frameClass \in {"L", "R"} /\ rDup \in BOOLEAN
  /\ camCut \in BOOLEAN /\ cut \in BOOLEAN /\ unseen \in BOOLEAN
  /\ looked \in BOOLEAN /\ again \in BOOLEAN
  /\ obj \in Objects /\ mod \in Mods
  /\ drawn \in Values \cup {Nothing, Plain(Alien)}
  /\ shown \in Plains \cup {Nothing, Plain(Alien)}

InitOf(k, v) ==
  CASE k \in PoseKinds               -> PoseInit(v)
    [] k = "camera"                  -> CamInit(v)
    [] k \in {"foliage", "shadow"}   -> WindowInit(v)
    [] k = "fader"                   -> FaderInit(v)
    [] k \in {"pre", "post"}         -> StepperInit(v)
    [] k \in {"particle", "emitter"} -> ParticleInit(v)
    [] k = "texanim"                 -> TexInit(v)
    [] OTHER                         -> ClothInit(v)

InterpInit ==
  /\ tracked \in Kinds
  /\ \E v \in Looks : LET i == InitOf(tracked, v) IN obj = i.obj /\ mod = i.mod
  /\ turn = "painter" /\ splitMode = FALSE /\ frameClass = "L" /\ rDup = FALSE
  /\ camCut = FALSE /\ cut = FALSE /\ unseen = FALSE
  /\ drawn = Nothing /\ shown = Nothing /\ looked = FALSE /\ again = FALSE

-----------------------------------------------------------------------------
(* What the mod does at Painter's entry.                                   *)

\* f60_reset_runtime_state, when the split begins or ends.
ResetOf(t) ==
  CASE tracked \in PoseKinds               -> PoseReset(t, Buffered)
    [] tracked = "camera"                  -> CamReset(t)
    [] tracked \in {"foliage", "shadow"}   -> WindowReset(t, tracked)
    [] tracked = "fader"                   -> FaderReset(t)
    [] tracked \in {"particle", "emitter"} -> JpaReset(t)
    [] tracked = "texanim"                 -> TexReset(t)
    [] tracked \in ClothKinds              -> Unflip(t)
    [] OTHER                               -> t

LframeOf(t) ==
  CASE tracked \in PoseKinds               -> {PoseL(t)}
    [] tracked = "camera"                  -> {CamL(t)}
    [] tracked \in {"particle", "emitter"} -> {JpaL(t, room) : room \in BOOLEAN}
    [] tracked = "texanim"                 -> {TexL(t)}
    [] OTHER                               -> {t}

RframeOf(t, jumped) ==
  CASE tracked \in PoseKinds               -> {PoseR(t, Buffered, jumped)}
    [] tracked = "camera"                  -> {CamR(t)}
    [] tracked \in {"particle", "emitter"} -> {JpaR(t, tracked)}
    [] tracked = "texanim"                 -> {TexR(t, jumped)}
    [] tracked \in ClothKinds              -> {ClothR(t, tracked, jumped, room) : room \in BOOLEAN}
    [] OTHER                               -> {t}

DupOf(t) == IF tracked = "texanim" THEN TexRestore(t) ELSE t

\* on_painter_skip in a frame f, once the pacing is decided.
EntryOf(t, f) ==
  LET c == IF tracked \in ClothKinds THEN ClothPainter(t, tracked, f) ELSE t
  IN IF ~f.split THEN {c}
     ELSE IF f.class = "L" THEN LframeOf(c)
     ELSE IF f.dup THEN {DupOf(c)}
     ELSE RframeOf(c, f.cut)

\* The object's draw, by the list.  Only a packet that is not the camera's, the
\* fader's or a stepper's may be missing from an L frame's list.
DrawOf(t, f) ==
  CASE tracked \in {"foliage", "shadow"} ->
         {WindowDrawn(t, tracked, f)}
         \cup (IF f.class = "L" THEN {[s |-> t, drawn |-> Nothing]} ELSE {})
    [] tracked = "fader"                 -> FaderDrawn(t, f)
    [] tracked \in {"pre", "post"}       -> StepperDrawn(t, tracked, f)
    [] tracked \in ClothKinds            -> {ClothDrawn(t, tracked, f)}
    [] OTHER                             -> {[s |-> t, drawn |-> Live(t)]}

-----------------------------------------------------------------------------
(* One Painter, in a frame f: f.cut is set in the R frame that first sees  *)
(* the camera jumped.                                                      *)
Painted(f, begin) ==
  /\ turn = "painter"
  /\ splitMode' = f.split /\ frameClass' = f.class /\ rDup' = f.dup
  /\ \E e \in EntryOf(begin, f) : \E d \in DrawOf(e, f) :
       LET hidden == (~Owned(d.s) \/ f.dup) /\ tracked # "fader"
           look   == IF hidden THEN Nothing ELSE d.drawn
           game   == f.class = "L"
       IN /\ drawn' = look
          /\ shown' = IF game /\ look # Nothing THEN look ELSE shown
          /\ obj' = [d.s.obj EXCEPT !.new = @ /\ ~(game /\ look # Nothing)]
          /\ mod' = d.s.mod
  /\ turn' = IF f.class = "L" THEN "produce" ELSE "painter"
  /\ UNCHANGED tracked

Frame(sp, cl, du, cu) == [split |-> sp, class |-> cl, dup |-> du, cut |-> cu]

\* The split is off: the mod resets once and lets the game run.
PaintUnsplit ==
  /\ Painted(Frame(FALSE, "L", FALSE, FALSE), IF splitMode THEN ResetOf(state) ELSE state)
  /\ camCut' = FALSE /\ cut' = (cut /\ ~splitMode) /\ unseen' = unseen
  /\ looked' = FALSE /\ again' = FALSE

\* The split begins, with an L frame.
PaintEngage ==
  /\ ~splitMode
  /\ Painted(Frame(TRUE, "L", FALSE, FALSE), ResetOf(state))
  /\ camCut' = FALSE /\ cut' = FALSE /\ unseen' = FALSE
  /\ looked' = FALSE /\ again' = TRUE

PaintL ==
  /\ splitMode
  /\ Painted(Frame(TRUE, "L", FALSE, FALSE), state)
  /\ camCut' = unseen /\ cut' = FALSE /\ unseen' = FALSE
  /\ looked' = FALSE /\ again' = ~looked

\* An R frame; it skips a pose that has teleported.
PaintR ==
  /\ splitMode
  /\ LET jumped == unseen \/ camCut
     IN /\ Painted(Frame(TRUE, "R", FALSE, jumped), state)
        /\ camCut' = FALSE /\ cut' = jumped /\ unseen' = FALSE
  /\ looked' = (looked \/ ~(tracked \in PoseKinds /\ mod.tele)) /\ again' = again

\* An R frame that shows the last image once more.
PaintDup ==
  /\ splitMode
  /\ Painted(Frame(TRUE, "R", TRUE, cut), state)
  /\ UNCHANGED <<camCut, cut, unseen, looked, again>>

-----------------------------------------------------------------------------
(* Logic and production.                                                   *)
ProducedBy(t) ==
  CASE tracked \in PoseKinds               -> PoseProduced(t, Buffered)
    [] tracked = "camera"                  -> CamProduced(t)
    [] tracked \in {"foliage", "shadow"}   -> WindowProduced(t, tracked)
    [] tracked \in {"fader", "pre", "post"} -> StepperProduced(t)
    [] tracked \in {"particle", "emitter"} -> ParticleProduced(t, tracked)
    [] tracked = "texanim"                 -> TexProduced(t)
    [] OTHER                               -> ClothProduced(t, tracked)

ProduceObject ==
  /\ turn = "produce"
  /\ \E p \in ProducedBy(state) : obj' = p.obj /\ mod' = p.mod
  /\ unseen' \in {unseen, TRUE}
  /\ turn' = "painter"
  /\ UNCHANGED <<tracked, splitMode, frameClass, rDup, camCut, cut, drawn, shown,
                 looked, again>>

InterpNext == PaintUnsplit \/ PaintEngage \/ PaintL \/ PaintR \/ PaintDup \/ ProduceObject

InterpSpec == InterpInit /\ [][InterpNext]_interpVars

-----------------------------------------------------------------------------
(* Properties.                                                             *)

\* What production last wrote of the look, whichever buffer the mod has flipped to.
LastMade ==
  IF tracked \in ClothKinds /\ Flipped(state) THEN obj.wrote[mod.orig] ELSE Truth(state)

\* When logic and production run, no look of the mod is left in the object: it is
\* as production wrote it last, and so was what the game's frame showed.
LogicSeesTruth ==
  turn = "produce" =>
    /\ Owned(state) => Live(state) = LastMade
    /\ tracked \notin ClothKinds => obj.mem = obj.wrote
    /\ drawn \in {Nothing, LastMade}

\* The mod writes to no memory that has gone to another owner.
ForeignUntouched == ~Owned(state) => obj.mem = obj.wrote

\* The look is between what was shown last and what production made: unless they
\* are too far apart, or the object is new.
Between(d) ==
  /\ ~obj.new /\ shown # Nothing /\ d = Mix(shown, LastMade)
  /\ tracked \in {"foliage", "particle", "emitter", "sail"} \/ ~Far(shown, LastMade)

\* Nothing was produced since, and an older look is blended into what was shown.
Lagging(d) ==
  /\ shown = LastMade /\ d[2] = LastMade[2]
  /\ tracked \in {"rel", "dol"} \/ (again /\ tracked \in PoseKinds \cup {"camera"})

\* An R frame shows what its mechanism promises; across a cut of the camera, what
\* is baked in view space is the truth.
RFrameInterpolates ==
  (frameClass = "R" /\ ~rDup /\ drawn # Nothing) =>
    CASE tracked = "fader" -> drawn = shown
      [] tracked = "pre"   -> drawn = LastMade
      [] tracked = "post"  -> drawn = Advanced(LastMade)
      [] OTHER -> \/ drawn = LastMade
                  \/ /\ Between(drawn) \/ Lagging(drawn)
                     /\ cut => tracked \in {"camera", "particle", "emitter"}
=============================================================================
