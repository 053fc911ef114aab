--------------------------- MODULE Frame60Pacing ---------------------------
(***************************************************************************)
(* The pacing half of the frame60-accum mod, with the governor that turns  *)
(* its interpolated frames off.  The guest's frame loop runs Painter       *)
(* (which draws the packet list and, in beginRender, waits), then the      *)
(* frame's logic and production.  The mod lets logic run at 30 Hz while    *)
(* the loop runs faster: every iteration is an L frame (logic and          *)
(* production run) or an R frame (only Painter runs, over the last list).  *)
(*                                                                         *)
(* A step is one of the three stages of an iteration.  Times are ticks; an *)
(* interval is what passes between the exits of two frame-gate waits.  The *)
(* guest's waitForTick and gInf::free are modelled from how the mod uses   *)
(* them.                                                                   *)
(***************************************************************************)
EXTENDS Integers, FiniteSetsExt

CONSTANTS
  Tick,          \* TICK_30FPS, one logic slot; a 60 Hz field is half of it
  ViField,       \* the retrace interval (sVideoInterval)
  PairMin,       \* F60_PAIR_MIN_PAD
  Configs,       \* the settings and workloads followed
  SlowWindows,   \* GOV_SLOW_WINDOWS
  CleanWindows,  \* GOV_CLEAN_WINDOWS
  HoldMin,       \* GOV_HOLD_MIN_NS
  HoldMax        \* GOV_HOLD_MAX_NS

\* A configuration: the render rate, whether the governor is on, the lengths of
\* an iteration's own work, and whether the retrace grid is usable (or may be).
\* The slot is divided by its eighth, the least cost of an uncapped iteration.
ASSUME PacingAssumption ==
  /\ Tick \in Nat /\ Tick >= 8 /\ Tick % (Tick \div 8) = 0
  /\ ViField \in Nat /\ ViField >= 8
  /\ PairMin \in Nat \ {0}
  /\ \A c \in Configs : c.hz \in Nat /\ c.auto \in BOOLEAN
                        /\ c.works \subseteq Nat \ {0}
                        /\ c.grids \subseteq BOOLEAN

ASSUME GovernorAssumption ==
  /\ SlowWindows \in Nat \ {0} /\ CleanWindows \in Nat \ {0}
  /\ HoldMin \in Nat \ {0} /\ HoldMax \in Nat /\ HoldMin <= HoldMax

-----------------------------------------------------------------------------
(* The headroom governor (F60Gov, gov_on_lframe): it turns interpolated    *)
(* frames off on a host too slow for them, and tries again after a hold    *)
(* that doubles on every failed retry.  A verdict is the median speed of   *)
(* one window of logic frames, and is all the governor acts on; host time  *)
(* is counted in windows, of which one takes longer than another.          *)

VARIABLES
  degraded, probing, slowWindows, cleanWindows, hold,
  retryIn,    \* retry_at_ns, as the time left until then
  slowRun,    \* history: slow verdicts in a row, the interpolated ones
  fails,      \* history: retries that failed since the hold was the least
  rested      \* history: time since interpolation was last refused

govVars == <<degraded, probing, slowWindows, cleanWindows, hold, retryIn,
             slowRun, fails, rested>>

\* The speed of a window: below GOV_SLOW, below GOV_DUP_OK, or full.
Speeds == {"slow", "short", "full"}
Gaps   == 1..2

GovTypeOK ==
  /\ degraded \in BOOLEAN /\ probing \in BOOLEAN
  /\ slowWindows \in 0..(SlowWindows - 1) /\ cleanWindows \in 0..CleanWindows
  /\ hold \in HoldMin..HoldMax /\ retryIn \in 0..HoldMax
  /\ slowRun \in 0..SlowWindows /\ fails \in 0..HoldMax /\ rested \in 0..HoldMax

GovInit ==
  /\ degraded = FALSE /\ probing = FALSE /\ slowWindows = 0 /\ cleanWindows = 0
  /\ hold = HoldMin /\ retryIn = 0
  /\ slowRun = 0 /\ fails = 0 /\ rested = 0

\* Mutant of Doubled: a failed retry leaves the hold as it was.
DoubledNot(h) == h
Doubled(h) == Min({2 * h, HoldMax})

\* Degraded: not yet time, too slow even without interpolation, or retry.
DupVerdict(speed, gap) ==
  /\ slowRun' = 0
  /\ UNCHANGED <<slowWindows, cleanWindows, hold, fails>>
  /\ IF gap < retryIn
       THEN /\ retryIn' = retryIn - gap
            /\ rested' = Min({HoldMax, rested + gap})
            /\ UNCHANGED <<degraded, probing>>
     ELSE IF speed # "full"
       THEN /\ retryIn' = hold /\ rested' = 0
            /\ UNCHANGED <<degraded, probing>>
     ELSE /\ degraded' = FALSE /\ probing' = TRUE /\ retryIn' = 0
          /\ rested' = Min({HoldMax, rested + gap})

\* A slow window turns interpolation off: any while probing, else the last of
\* SlowWindows.
Convicts == probing \/ slowWindows + 1 >= SlowWindows

SlowVerdict ==
  /\ slowRun' = Min({SlowWindows, slowRun + 1})
  /\ rested' = 0
  /\ IF Convicts
       THEN /\ hold' = IF probing THEN Doubled(hold) ELSE hold
            /\ fails' = IF probing THEN Min({HoldMax, fails + 1}) ELSE fails
            /\ degraded' = TRUE /\ probing' = FALSE
            /\ slowWindows' = 0 /\ cleanWindows' = 0
            /\ retryIn' = hold'
       ELSE /\ slowWindows' = slowWindows + 1
            /\ UNCHANGED <<degraded, probing, cleanWindows, hold, retryIn, fails>>

CleanVerdict ==
  /\ slowRun' = 0 /\ slowWindows' = 0 /\ probing' = FALSE
  /\ cleanWindows' = Min({CleanWindows, cleanWindows + 1})
  /\ hold'  = IF cleanWindows' = CleanWindows THEN HoldMin ELSE hold
  /\ fails' = IF cleanWindows' = CleanWindows THEN 0 ELSE fails
  /\ UNCHANGED <<degraded, retryIn, rested>>

\* One logic frame's sample: mostly it completes no window.
GovOnLFrame ==
  \/ UNCHANGED govVars
  \/ \E speed \in Speeds, gap \in Gaps :
       IF degraded THEN DupVerdict(speed, gap)
       ELSE IF speed = "slow" THEN SlowVerdict ELSE CleanVerdict

-----------------------------------------------------------------------------
(* The pacing. *)

Field    == Tick \div 2      \* F60_FIELD_TICKS
Offset   == ViField \div 8   \* where after a retrace a locked wait ends
MinTicks == Tick \div 8      \* the least cost of an iteration, uncapped

VARIABLES
  cfg,          \* the configuration
  \* The mod.
  split,        \* s_split_mode
  first,        \* s_first
  class,        \* s_logic_this_frame: "L" or "R"
  prevClass,    \* s_prev_frame_class
  acc,          \* s_acc
  lastDelta,    \* s_last_delta
  lDelta,       \* s_l_delta
  pairPad,      \* s_pair_pad
  viLocked,     \* s_vi_locked
  listHeap,     \* s_list_heap
  \* The guest.
  stage,        \* what the iteration runs next
  display,      \* the JFWDisplay exists
  thirty,       \* mTickRate is that of 30 Hz
  delta,        \* field_0x34: the last interval measured
  pad,          \* waitForTick: the least length of the next interval
  phase,        \* ticks since the last retrace, at the last wait's exit
  currentHeap,  \* mCurrentHeap
  live,         \* the heap that holds the list Painter replays
  intact,       \* the heaps whose contents have not been freed
  \* History.
  slot,         \* ticks read since the last L frame, up to 2 * Tick
  prevSlot,     \* ticks read in the slot before it, up to Tick + 1
  renders       \* R frames since the last L frame

modVars  == <<split, first, class, prevClass, acc, lastDelta, lDelta, pairPad,
              viLocked, listHeap>>
waitVars == <<delta, pad, phase>>
heapVars == <<currentHeap, live, intact>>
pastVars == <<slot, prevSlot, renders>>
vars == <<cfg, modVars, stage, display, thirty, waitVars, heapVars, pastVars, govVars>>

MaxInterval == Max({Tick} \cup UNION {c.works : c \in Configs})
MaxRenders  == 2 * (Tick \div MinTicks)

TypeOK ==
  /\ cfg \in Configs /\ GovTypeOK
  /\ split \in BOOLEAN /\ first \in BOOLEAN
  /\ class \in {"L", "R"} /\ prevClass \in {"L", "R"}
  /\ acc \in 0..(Tick - 1)
  /\ lastDelta \in 0..MaxInterval /\ lDelta \in 0..MaxInterval
  /\ pairPad \in {0} \cup PairMin..Field
  /\ viLocked \in BOOLEAN /\ listHeap \in 0..1
  /\ stage \in {"painter", "wait", "produce"}
  /\ display \in BOOLEAN /\ thirty \in BOOLEAN
  /\ delta \in 1..MaxInterval /\ pad \in 1..Tick /\ phase \in 0..(ViField - 1)
  /\ currentHeap \in 0..1 /\ live \in 0..1 /\ intact \subseteq 0..1
  /\ slot \in 0..(2 * Tick) /\ prevSlot \in 0..(Tick + 1)
  /\ renders \in 0..(MaxRenders + 1)

Init ==
  /\ cfg \in Configs /\ GovInit
  /\ split = FALSE /\ first = FALSE /\ class = "L" /\ prevClass = "L" /\ acc = 0
  /\ lastDelta = 0 /\ lDelta = 0 /\ pairPad = 0 /\ viLocked = FALSE /\ listHeap = 0
  /\ stage = "painter" /\ display \in BOOLEAN /\ thirty \in BOOLEAN
  /\ delta = Field /\ pad = Field /\ phase = 0
  /\ currentHeap \in 0..1 /\ live = currentHeap /\ intact = {live}
  /\ slot = 0 /\ prevSlot = Tick + 1 /\ renders = 0

Cap(n, most) == Min({n, most})

-----------------------------------------------------------------------------
(* decide: the class of the iteration that begins.                         *)

\* What f60_reset_runtime_state does to the pacing state.
ResetPacing ==
  /\ acc' = 0 /\ lastDelta' = 0 /\ lDelta' = 0 /\ pairPad' = 0
  /\ prevClass' = "L" /\ class' = "L" /\ viLocked' = FALSE

\* No usable JFWDisplay: the class stays.
NoDisplay ==
  /\ ~display
  /\ prevClass' = class /\ pairPad' = 0
  /\ UNCHANGED <<split, first, class, acc, lastDelta, lDelta, viLocked>>

\* The guest does not want 30 Hz: every iteration runs logic.
Passthrough ==
  /\ display /\ ~thirty
  /\ split' = FALSE /\ first' = FALSE
  /\ IF split THEN ResetPacing
     ELSE /\ class' = "L" /\ prevClass' = class
          /\ acc' = 0 /\ pairPad' = 0 /\ lDelta' = 0
          /\ UNCHANGED <<lastDelta, viLocked>>

\* The first iteration of a split runs logic.
Engage ==
  /\ display /\ thirty /\ ~split
  /\ split' = TRUE /\ first' = TRUE
  /\ ResetPacing

\* What stays in the accumulator: less than one slot, however long the hitch.
Kept(n) == Min({n, Tick - 1})

\* What is left of the slot after the L interval that overran a field.
PairRest(d) == Max({PairMin, Tick - d})

Accumulate ==
  /\ display /\ thirty /\ split
  /\ prevClass' = class
  /\ lastDelta' = delta
  /\ IF acc + delta >= Tick
       THEN /\ class' = "L" /\ acc' = Kept(acc + delta - Tick)
            /\ lDelta' = delta /\ pairPad' = 0
       ELSE /\ class' = "R" /\ acc' = Kept(acc + delta)
            /\ pairPad' = IF class = "L" /\ lDelta > Field THEN PairRest(lDelta) ELSE 0
            /\ UNCHANGED lDelta
  /\ UNCHANGED <<split, first, viLocked>>

Decide == NoDisplay \/ Passthrough \/ Engage \/ Accumulate

-----------------------------------------------------------------------------
(* The three stages of an iteration.                                       *)

\* Mutant of Pinned: the guest's own alternation goes on.
PinnedNot == currentHeap
\* The heap mCurrentHeap names at Painter entry.
Pinned == IF split THEN listHeap ELSE currentHeap

\* The mirror follows the live heap while unsplit, and when a split begins.
Seeded == IF display /\ ~(split /\ split') THEN Pinned ELSE listHeap

\* gInf::free: Painter takes the other heap and empties it.
Free == /\ currentHeap' = 1 - Pinned
        /\ intact' = intact \ {currentHeap'}

\* Whether the iteration is a duplicate: an R frame is one for reasons in the
\* scene (overlap teardown, no window, a picture being taken), or because the
\* governor turned interpolation off.
Duplicates ==
  IF ~(split' /\ class' = "R") THEN {FALSE}
  ELSE IF cfg.auto /\ degraded THEN {TRUE} ELSE BOOLEAN

\* on_painter_skip, and the Painter body unless the frame is a duplicate.
PainterEntry ==
  /\ stage = "painter" /\ stage' = "wait"
  /\ Decide
  /\ IF split' /\ class' = "L" /\ cfg.auto THEN GovOnLFrame ELSE UNCHANGED govVars
  /\ listHeap' = IF split' /\ class' = "L" THEN 1 - Seeded ELSE Seeded
  /\ \E dup \in Duplicates :
       IF dup THEN currentHeap' = Pinned /\ UNCHANGED intact ELSE Free
  /\ IF split /\ split' /\ display
       THEN LET read == Cap(slot + delta, 2 * Tick) IN
            IF class' = "L" THEN /\ slot' = 0 /\ prevSlot' = Cap(read, Tick + 1)
                                 /\ renders' = 0
                            ELSE /\ slot' = read /\ renders' = Cap(renders + 1, MaxRenders + 1)
                                 /\ UNCHANGED prevSlot
       ELSE slot' = 0 /\ prevSlot' = Tick + 1 /\ renders' = 0
  /\ UNCHANGED <<cfg, display, thirty, waitVars, live>>

\* Mutant of LandsAfterRetrace: the next offset, however near.
LandsSoon(ph) == CHOOSE n \in 1..ViField : (ph + n) % ViField = Offset
\* vi_lock_pad: from a wait's exit to the first time that is Offset after a
\* retrace and at least Offset away.
LandsAfterRetrace(ph) ==
  CHOOSE n \in Offset..(Offset + ViField - 1) : (ph + n) % ViField = Offset

\* Mutant of UncappedPad: no iteration is padded.
UncappedPadNone == 1
\* The pad that makes up an iteration of uncapped rate.
UncappedPad == Max({1, MinTicks - lastDelta})

\* waitForTick from beginRender, and on_wait_for_tick before it: the interval
\* ends when both the work and the pad are over, and the hook sets the pad of
\* the next one.  The retrace grid is usable or not (VI blacked out).
WaitForTick ==
  /\ stage = "wait" /\ stage' = "produce"
  /\ \E work \in cfg.works, grid \in cfg.grids :
       /\ delta' = Max({work, pad})
       /\ phase' = (phase + delta') % ViField
       /\ IF ~split
            THEN pad' = (IF thirty THEN Tick ELSE Field) /\ UNCHANGED viLocked
          ELSE IF cfg.hz = 0
            THEN pad' = UncappedPad /\ UNCHANGED viLocked
          ELSE LET rate   == Max({1, (Tick * 30) \div cfg.hz})
                   paired == IF pairPad # 0 /\ rate = Field THEN pairPad ELSE rate IN
            /\ viLocked' = (grid /\ cfg.hz = 60)
            /\ pad' = IF viLocked' THEN LandsAfterRetrace(phase') ELSE paired
  /\ UNCHANGED <<cfg, split, first, class, prevClass, acc, lastDelta, lDelta, pairPad,
                 listHeap, display, thirty, heapVars, pastVars, govVars>>

\* The gates on logic and production: they return at once on an R frame.
Gated == split /\ class = "R"

\* Logic and production of an L frame: the new list goes to the current heap,
\* and the guest may ask for another frame rate.
Produce ==
  /\ stage = "produce" /\ stage' = "painter"
  /\ IF Gated THEN UNCHANGED <<display, thirty, heapVars>>
     ELSE /\ live' = currentHeap /\ intact' = intact \cup {currentHeap}
          /\ thirty' \in BOOLEAN /\ display' = TRUE
          /\ UNCHANGED currentHeap
  /\ UNCHANGED <<cfg, modVars, waitVars, pastVars, govVars>>

Next == PainterEntry \/ WaitForTick \/ Produce

Spec == Init /\ [][Next]_vars

-----------------------------------------------------------------------------
(* Properties.                                                             *)

\* The list a Painter replays has not been freed: not by that Painter's own
\* free, nor by an earlier one, over R frames, duplicates and both edges of a
\* split, although each list is now drawn more than once.
LiveListSurvives == live \in intact

\* Logic keeps 30 Hz: it never waits a whole slot of measured time, no hitch
\* makes it catch up with two short slots in a row, and at an uncapped rate no
\* more than MaxRenders iterations pass between two logic frames (the pad is
\* computed from the interval before last, so half of them may be short).
LogicPaced ==
  [][stage = "painter" /\ split /\ split' =>
       IF class' = "L" THEN slot + delta + prevSlot > Tick
                       ELSE slot' < Tick /\ (cfg.hz = 0 => renders' <= MaxRenders)]_vars

\* The interval after a wait locked to the retrace grid has a retrace in it,
\* so its image is scanned out, and ends at the offset unless work overran it.
LockedImageShown ==
  [][stage = "wait" /\ viLocked =>
       /\ \E n \in 0..(delta' - 1) : (phase + n) % ViField = 0
       /\ delta' = pad => phase' = Offset]_vars

\* How often the hold is the least one, after n failed retries.
Factor[n \in Nat] == IF n = 0 THEN 1 ELSE 2 * Factor[n - 1]

\* Interpolation goes off only after SlowWindows slow windows in a row or a
\* failed retry, and comes back only once the whole hold has passed since it
\* was last refused; the hold is the least one doubled for every retry that
\* failed, up to the cap.
GovernorHolds ==
  [][/\ ~degraded /\ degraded' => probing \/ slowRun' = SlowWindows
     /\ degraded /\ ~degraded' => rested' >= hold
     /\ hold' = Min({HoldMax, HoldMin * Factor[fails']})]_govVars
=============================================================================
