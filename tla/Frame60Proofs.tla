------------------------ MODULE Frame60Proofs ------------------------
(***************************************************************************)
(* Theorems about frame60-accum.  First Frame60Pacing and its governor,    *)
(* for any slot length, retrace interval, configurations, window counts    *)
(* and holds: the list that is replayed is alive, logic keeps its rate, a  *)
(* locked image is shown, and the governor's hold doubles.  Then           *)
(* Frame60Interp, for any looks, any pairs of them too far apart and every *)
(* mechanism: logic sees what production wrote, the memory of other owners *)
(* is left alone, and an R frame shows what its mechanism promises.        *)
(***************************************************************************)
EXTENDS Frame60Pacing, Frame60Interp, WellFoundedInduction, TLAPS

-----------------------------------------------------------------------------
(* Numbers.                                                                *)

LEMMA MaxOf ==
  ASSUME NEW a \in Int, NEW b \in Int
  PROVE  Max({a, b}) = IF a >= b THEN a ELSE b
  BY DEF Max

LEMMA MinOf ==
  ASSUME NEW a \in Int, NEW b \in Int
  PROVE  Min({a, b}) = IF a <= b THEN a ELSE b
  BY DEF Min

\* A set of numbers has a least one.
LEMMA Least ==
  ASSUME NEW T, T \subseteq Nat, T # {}
  PROVE  \E x \in T : \A y \in T : x <= y
<1>1. IsWellFoundedOn(OpToRel(<, Nat), Nat)
  BY NatLessThanWellFounded
<1>2. PICK x \in T : \A y \in T : <<y, x>> \notin OpToRel(<, Nat)
  BY <1>1, WFMin
<1>3. \A y \in T : ~(y < x)
  BY <1>2 DEF OpToRel
<1> QED BY <1>3

-----------------------------------------------------------------------------
(* The recursive function Factor.  A function that satisfies its equation  *)
(* up to n exists for every n, and two of them agree where both are        *)
(* defined (otherwise take the least n that has none, the least argument   *)
(* at which they differ): together they are one that satisfies it for all. *)

\* g doubles from one, up to n.
Doubles(g, n) ==
  /\ g \in [0 .. n -> Nat]
  /\ \A i \in 0 .. n : g[i] = IF i = 0 THEN 1 ELSE 2 * g[i - 1]

LEMMA DoublesExists == ASSUME NEW n \in Nat PROVE \E g : Doubles(g, n)
<1> DEFINE T == {m \in Nat : ~ \E g : Doubles(g, m)}
<1>1. CASE T = {}
  BY <1>1
<1>2. CASE T # {}
  <2>1. PICK m \in T : \A y \in T : m <= y
    BY <1>2, Least
  <2>2. m \in Nat /\ ~ \E g : Doubles(g, m)
    OBVIOUS
  <2>3. m # 0
    <3>1. Doubles([i \in 0 .. 0 |-> 1], 0)
      BY DEF Doubles
    <3> QED BY <3>1, <2>2
  <2>4. m - 1 \in Nat /\ m - 1 \notin T
    BY <2>1, <2>2, <2>3
  <2>5. PICK g : Doubles(g, m - 1)
    BY <2>4
  <2> DEFINE h == [i \in 0 .. m |-> IF i = m THEN 2 * g[m - 1] ELSE g[i]]
  <2>6. h \in [0 .. m -> Nat]
    BY <2>2, <2>3, <2>5 DEF Doubles
  <2>7. ASSUME NEW i \in 0 .. m PROVE h[i] = IF i = 0 THEN 1 ELSE 2 * h[i - 1]
    BY <2>2, <2>3, <2>5 DEF Doubles
  <2> QED BY <2>2, <2>6, <2>7 DEF Doubles
<1> QED BY <1>1, <1>2

LEMMA DoublesAgree ==
  ASSUME NEW n \in Nat, NEW m \in Nat, NEW g, NEW h, Doubles(g, n), Doubles(h, m),
         NEW k \in Nat, k <= n, k <= m
  PROVE  g[k] = h[k]
<1> DEFINE T == {i \in Nat : i <= n /\ i <= m /\ g[i] # h[i]}
<1>1. CASE T = {}
  BY <1>1
<1>2. CASE T # {}
  <2>1. PICK i \in T : \A y \in T : i <= y
    BY <1>2, Least
  <2>2. i \in Nat /\ i <= n /\ i <= m /\ g[i] # h[i]
    OBVIOUS
  <2>3. i # 0
    BY <2>2 DEF Doubles
  <2>4. i - 1 \in Nat /\ i - 1 \notin T /\ i \in 0 .. n /\ i \in 0 .. m
    BY <2>1, <2>2, <2>3
  <2>5. g[i - 1] = h[i - 1]
    BY <2>4, <2>2
  <2> QED BY <2>2, <2>3, <2>4, <2>5 DEF Doubles
<1> QED BY <1>1, <1>2

LEMMA FactorDef ==
  /\ Factor = [n \in Nat |-> IF n = 0 THEN 1 ELSE 2 * Factor[n - 1]]
  /\ \A n \in Nat : Factor[n] \in Nat
<1> DEFINE G(n) == CHOOSE g : Doubles(g, n)
           f == [n \in Nat |-> G(n)[n]]
<1>1. \A n \in Nat : Doubles(G(n), n)
  BY DoublesExists
<1> HIDE DEF G
<1>2. ASSUME NEW n \in Nat PROVE f[n] = IF n = 0 THEN 1 ELSE 2 * f[n - 1]
  <2>1. CASE n = 0
    BY <1>1, <2>1 DEF Doubles
  <2>2. CASE n # 0
    <3>1. n - 1 \in Nat /\ n \in 0 .. n /\ f[n] = G(n)[n] /\ f[n - 1] = G(n - 1)[n - 1]
      BY <2>2
    <3>2. G(n)[n - 1] = G(n - 1)[n - 1]
      BY <1>1, <3>1, DoublesAgree
    <3>3. G(n)[n] = 2 * G(n)[n - 1]
      BY <1>1, <2>2, <3>1 DEF Doubles
    <3> QED BY <2>2, <3>1, <3>2, <3>3
  <2> QED BY <2>1, <2>2
<1>3. f = [n \in Nat |-> IF n = 0 THEN 1 ELSE 2 * f[n - 1]]
  BY <1>2
<1>4. Factor = [n \in Nat |-> IF n = 0 THEN 1 ELSE 2 * Factor[n - 1]]
  BY <1>3 DEF Factor
<1>5. ASSUME NEW n \in Nat PROVE Factor[n] \in Nat
  <2> DEFINE T == {m \in Nat : Factor[m] \notin Nat}
  <2>1. CASE T = {}
    BY <2>1
  <2>2. CASE T # {}
    <3>1. PICK m \in T : \A y \in T : m <= y
      BY <2>2, Least
    <3>2. m \in Nat /\ Factor[m] = IF m = 0 THEN 1 ELSE 2 * Factor[m - 1]
      BY <1>4
    <3>3. m # 0 => Factor[m - 1] \in Nat
      BY <3>1, <3>2
    <3> QED BY <3>2, <3>3
  <2> QED BY <2>1, <2>2
<1> QED BY <1>4, <1>5

LEMMA FactorGrows == ASSUME NEW n \in Nat PROVE Factor[n] >= n + 1
<1> DEFINE T == {m \in Nat : ~(Factor[m] >= m + 1)}
<1>1. CASE T = {}
  BY <1>1
<1>2. CASE T # {}
  <2>1. PICK m \in T : \A y \in T : m <= y
    BY <1>2, Least
  <2>2. m \in Nat /\ Factor[m] = (IF m = 0 THEN 1 ELSE 2 * Factor[m - 1]) /\ ~(Factor[m] >= m + 1)
    BY FactorDef
  <2>3. m # 0
    BY <2>2
  <2>4. m - 1 \in Nat /\ Factor[m - 1] >= (m - 1) + 1 /\ Factor[m - 1] \in Nat
    BY <2>1, <2>2, <2>3, FactorDef
  <2> QED BY <2>2, <2>3, <2>4
<1> QED BY <1>1, <1>2

-----------------------------------------------------------------------------
(* The governor.                                                           *)

\* A run of slow windows is at least as long as the count that convicts; while
\* interpolation is off, the time that passed and the time that is left are no
\* less than the hold; the hold is the least one, doubled for every failed retry.
GovInv ==
  /\ GovTypeOK
  /\ slowWindows <= slowRun
  /\ degraded => slowWindows = 0 /\ rested + retryIn >= hold
  /\ hold = Min({HoldMax, HoldMin * Factor[fails]})

GovStep ==
  /\ ~degraded /\ degraded' => probing \/ slowRun' = SlowWindows
  /\ degraded /\ ~degraded' => rested' >= hold
  /\ hold' = Min({HoldMax, HoldMin * Factor[fails']})

LEMMA GovInitInv == ASSUME GovInit PROVE GovInv
<1>1. Factor[0] = 1
  BY FactorDef
<1>2. hold = Min({HoldMax, HoldMin * Factor[fails]})
  BY <1>1, MinOf, GovernorAssumption DEF GovInit
<1>3. GovTypeOK
  <2>1. degraded \in BOOLEAN /\ probing \in BOOLEAN
    BY DEF GovInit
  <2>2. /\ 0 \in 0..(SlowWindows - 1) /\ 0 \in 0..CleanWindows /\ HoldMin \in HoldMin..HoldMax
        /\ 0 \in 0..HoldMax /\ 0 \in 0..SlowWindows
    BY GovernorAssumption
  <2> QED BY <2>1, <2>2 DEF GovInit, GovTypeOK
<1> QED BY <1>2, <1>3, GovernorAssumption DEF GovInit, GovInv

LEMMA DupVerdictInv ==
  ASSUME GovInv, degraded, NEW speed \in Speeds, NEW gap \in Gaps, DupVerdict(speed, gap)
  PROVE  GovInv' /\ GovStep
<1>1. /\ slowRun' = 0
      /\ UNCHANGED <<slowWindows, cleanWindows, hold, fails>>
  BY DEF DupVerdict
<1>2. gap \in {1, 2} /\ retryIn \in Nat /\ rested \in Nat /\ HoldMax \in Nat /\ hold \in Nat
      /\ hold <= HoldMax /\ retryIn <= HoldMax
  BY GovernorAssumption DEF Gaps, GovInv, GovTypeOK
<1>3. Min({HoldMax, rested + gap}) = IF HoldMax <= rested + gap THEN HoldMax ELSE rested + gap
  BY <1>2, MinOf
<1>4. hold' = Min({HoldMax, HoldMin * Factor[fails']})
  BY <1>1 DEF GovInv
<1>5. /\ slowWindows' <= slowRun' /\ slowWindows = 0
      /\ rested + retryIn >= hold
  BY <1>1 DEF GovInv
<1>6. CASE gap < retryIn
  <2>1. /\ retryIn' = retryIn - gap /\ UNCHANGED <<degraded, probing>>
        /\ rested' = IF HoldMax <= rested + gap THEN HoldMax ELSE rested + gap
    BY <1>3, <1>6 DEF DupVerdict
  <2>2. retryIn' \in 0..HoldMax /\ rested' \in 0..HoldMax /\ rested' + retryIn' >= hold
    BY <1>2, <1>5, <1>6, <2>1
  <2>3. GovTypeOK'
    BY <1>1, <1>2, <2>1, <2>2, GovernorAssumption DEF GovInv, GovTypeOK
  <2> QED BY <1>1, <1>4, <1>5, <2>1, <2>2, <2>3 DEF GovInv, GovStep
<1>7. CASE ~(gap < retryIn) /\ speed # "full"
  <2>1. retryIn' = hold /\ rested' = 0 /\ UNCHANGED <<degraded, probing>>
    BY <1>7 DEF DupVerdict
  <2>2. GovTypeOK'
    BY <1>1, <1>2, <2>1, GovernorAssumption DEF GovInv, GovTypeOK
  <2>3. rested' + retryIn' >= hold'
    BY <1>1, <1>2, <2>1
  <2> QED BY <1>1, <1>4, <1>5, <2>1, <2>2, <2>3 DEF GovInv, GovStep
<1>8. CASE ~(gap < retryIn) /\ speed = "full"
  <2>1. /\ degraded' = FALSE /\ probing' = TRUE /\ retryIn' = 0
        /\ rested' = IF HoldMax <= rested + gap THEN HoldMax ELSE rested + gap
    BY <1>3, <1>8 DEF DupVerdict
  <2>2. rested' \in 0..HoldMax /\ rested' >= hold
    BY <1>2, <1>5, <1>8, <2>1
  <2>3. degraded' \in BOOLEAN /\ probing' \in BOOLEAN
    BY <2>1
  <2>4. slowRun' \in 0..SlowWindows /\ 0 \in 0..HoldMax
    BY <1>1, <1>2, GovernorAssumption
  <2>5. GovTypeOK'
    BY <1>1, <2>1, <2>2, <2>3, <2>4 DEF GovInv, GovTypeOK
  <2> QED BY <1>1, <1>4, <1>5, <2>1, <2>2, <2>5 DEF GovInv, GovStep
<1> QED BY <1>6, <1>7, <1>8

\* A failed retry doubles the hold: also at the cap, where it is already the most.
LEMMA HoldDoubled ==
  ASSUME GovInv
  PROVE  /\ Doubled(hold) = Min({HoldMax, HoldMin * Factor[Min({HoldMax, fails + 1})]})
         /\ Doubled(hold) \in HoldMin..HoldMax
<1>1. /\ hold \in Nat /\ fails \in Nat /\ HoldMax \in Nat /\ HoldMin \in Nat /\ HoldMin >= 1
      /\ HoldMin <= hold /\ hold <= HoldMax /\ fails <= HoldMax
  BY GovernorAssumption DEF GovInv, GovTypeOK
<1> DEFINE x == HoldMin * Factor[fails]
<1>2. x \in Nat /\ Factor[fails] \in Nat
  BY <1>1, FactorDef
<1>3. hold = IF HoldMax <= x THEN HoldMax ELSE x
  BY <1>1, <1>2, MinOf DEF GovInv
<1>4. Doubled(hold) = IF 2 * hold <= HoldMax THEN 2 * hold ELSE HoldMax
  BY <1>1, MinOf DEF Doubled
<1>5. CASE fails < HoldMax
  <2>1. Min({HoldMax, fails + 1}) = fails + 1
    BY <1>1, <1>5, MinOf
  <2>2. Factor[fails + 1] = 2 * Factor[fails]
    <3>1. fails + 1 \in Nat /\ fails + 1 # 0 /\ (fails + 1) - 1 = fails
      BY <1>1
    <3> QED BY <3>1, FactorDef
  <2>3. HoldMin * Factor[fails + 1] = 2 * x
    BY <1>1, <1>2, <2>2
  <2>4. Min({HoldMax, 2 * x}) = IF HoldMax <= 2 * x THEN HoldMax ELSE 2 * x
    BY <1>1, <1>2, MinOf
  <2> HIDE DEF x
  <2> QED BY <1>1, <1>2, <1>3, <1>4, <2>1, <2>3, <2>4
<1>6. CASE fails = HoldMax
  <2>1. Min({HoldMax, fails + 1}) = fails
    BY <1>1, <1>6, MinOf
  <2>2. Factor[fails] >= fails + 1
    BY <1>1, FactorGrows
  <2>3. x >= HoldMax
    <3>1. \A a, b, c \in Nat : a >= 1 /\ b >= c => a * b >= c
      OBVIOUS
    <3>2. Factor[fails] >= HoldMax
      BY <1>1, <1>2, <1>6, <2>2
    <3> QED BY <1>1, <1>2, <3>1, <3>2
  <2>4. Min({HoldMax, x}) = HoldMax
    BY <1>1, <1>2, <2>3, MinOf
  <2> HIDE DEF x
  <2>5. hold = HoldMax
    BY <1>1, <1>2, <1>3, <2>3
  <2>6. Doubled(hold) = HoldMax
    BY <1>1, <1>4, <2>5
  <2> QED BY <1>1, <2>1, <2>4, <2>6 DEF x
<1> QED BY <1>1, <1>5, <1>6

LEMMA SlowVerdictInv ==
  ASSUME GovInv, ~degraded, SlowVerdict
  PROVE  GovInv' /\ GovStep
<1>1. /\ slowWindows \in Nat /\ slowRun \in Nat /\ SlowWindows \in Nat /\ SlowWindows >= 1
      /\ slowWindows < SlowWindows /\ slowRun <= SlowWindows /\ slowWindows <= slowRun
      /\ hold \in HoldMin..HoldMax /\ HoldMin \in Nat /\ HoldMax \in Nat
      /\ fails \in 0..HoldMax
  BY GovernorAssumption DEF GovInv, GovTypeOK
<1>2. rested' = 0 /\ slowRun' = IF SlowWindows <= slowRun + 1 THEN SlowWindows ELSE slowRun + 1
  BY <1>1, MinOf DEF SlowVerdict
<1>3. slowRun' \in 0..SlowWindows
  BY <1>1, <1>2
<1>4. CASE Convicts
  <2>1. /\ hold' = IF probing THEN Doubled(hold) ELSE hold
        /\ fails' = IF probing THEN Min({HoldMax, fails + 1}) ELSE fails
        /\ degraded' = TRUE /\ probing' = FALSE /\ slowWindows' = 0 /\ cleanWindows' = 0
        /\ retryIn' = hold'
    BY <1>4 DEF SlowVerdict
  <2>2. /\ hold' = Min({HoldMax, HoldMin * Factor[fails']})
        /\ hold' \in HoldMin..HoldMax
    BY <1>1, <2>1, HoldDoubled DEF GovInv
  <2>3. fails' \in 0..HoldMax
    BY <1>1, <2>1, MinOf
  <2>4. GovTypeOK'
    <3>1. degraded' \in BOOLEAN /\ probing' \in BOOLEAN
      BY <2>1
    <3>2. /\ slowWindows' \in 0..(SlowWindows - 1) /\ cleanWindows' \in 0..CleanWindows
          /\ retryIn' \in 0..HoldMax /\ rested' \in 0..HoldMax
      BY <1>1, <1>2, <2>1, <2>2, GovernorAssumption
    <3> QED BY <1>3, <2>2, <2>3, <3>1, <3>2 DEF GovTypeOK
  <2>5. rested' + retryIn' >= hold' /\ slowWindows' <= slowRun'
    BY <1>1, <1>2, <1>3, <2>1, <2>2
  <2>6. probing \/ slowRun' = SlowWindows
    BY <1>1, <1>2, <1>4 DEF Convicts
  <2> QED BY <2>1, <2>2, <2>4, <2>5, <2>6 DEF GovInv, GovStep
<1>5. CASE ~Convicts
  <2>1. /\ slowWindows' = slowWindows + 1
        /\ UNCHANGED <<degraded, probing, cleanWindows, hold, retryIn, fails>>
    BY <1>5 DEF SlowVerdict
  <2>2. slowWindows' \in 0..(SlowWindows - 1) /\ slowWindows' <= slowRun'
    BY <1>1, <1>2, <1>5, <2>1 DEF Convicts
  <2>3. GovTypeOK'
    BY <1>1, <1>2, <1>3, <2>1, <2>2 DEF GovInv, GovTypeOK
  <2> QED BY <2>1, <2>2, <2>3 DEF GovInv, GovStep
<1> QED BY <1>4, <1>5

LEMMA CleanVerdictInv ==
  ASSUME GovInv, ~degraded, CleanVerdict
  PROVE  GovInv' /\ GovStep
<1>1. /\ slowRun' = 0 /\ slowWindows' = 0 /\ probing' = FALSE
      /\ UNCHANGED <<degraded, retryIn, rested>>
  BY DEF CleanVerdict
<1>2. cleanWindows' \in 0..CleanWindows
  BY MinOf, GovernorAssumption DEF CleanVerdict, GovInv, GovTypeOK
<1>3. /\ hold' = Min({HoldMax, HoldMin * Factor[fails']})
      /\ hold' \in HoldMin..HoldMax /\ fails' \in 0..HoldMax
  <2>1. CASE cleanWindows' = CleanWindows
    <3>1. hold' = HoldMin /\ fails' = 0 /\ Factor[0] = 1
      BY <2>1, FactorDef DEF CleanVerdict
    <3> QED BY <3>1, MinOf, GovernorAssumption
  <2>2. CASE cleanWindows' # CleanWindows
    <3>1. hold' = hold /\ fails' = fails
      BY <2>2 DEF CleanVerdict
    <3> QED BY <3>1 DEF GovInv, GovTypeOK
  <2> QED BY <2>1, <2>2
<1>4. GovTypeOK'
  <2>1. degraded' \in BOOLEAN /\ probing' \in BOOLEAN
    BY <1>1 DEF GovInv, GovTypeOK
  <2>2. slowWindows' \in 0..(SlowWindows - 1) /\ slowRun' \in 0..SlowWindows
    BY <1>1, GovernorAssumption
  <2> QED BY <1>1, <1>2, <1>3, <2>1, <2>2 DEF GovInv, GovTypeOK
<1> QED BY <1>1, <1>3, <1>4 DEF GovInv, GovStep

LEMMA GovKept ==
  ASSUME GovInv, UNCHANGED govVars
  PROVE  GovInv' /\ GovStep
  BY DEF govVars, GovInv, GovStep, GovTypeOK

LEMMA GovernorInv ==
  ASSUME GovInv, GovOnLFrame
  PROVE  GovInv' /\ GovStep
<1>1. CASE UNCHANGED govVars
  BY <1>1, GovKept
<1>2. CASE \E speed \in Speeds, gap \in Gaps :
             IF degraded THEN DupVerdict(speed, gap)
             ELSE IF speed = "slow" THEN SlowVerdict ELSE CleanVerdict
  BY <1>2, DupVerdictInv, SlowVerdictInv, CleanVerdictInv
<1> QED BY <1>1, <1>2 DEF GovOnLFrame

-----------------------------------------------------------------------------
(* The invariant of the pacing.                                            *)

Typed ==
  /\ cfg \in Configs
  /\ split \in BOOLEAN /\ viLocked \in BOOLEAN /\ display \in BOOLEAN
  /\ class \in {"L", "R"} /\ stage \in {"painter", "wait", "produce"}
  /\ acc \in 0..(Tick - 1) /\ lastDelta \in Nat /\ lDelta \in Nat /\ pairPad \in Nat
  /\ delta \in Nat \ {0} /\ pad \in Nat \ {0} /\ phase \in 0..(ViField - 1)
  /\ listHeap \in 0..1 /\ currentHeap \in 0..1 /\ live \in 0..1
  /\ slot \in Nat /\ prevSlot \in Nat /\ renders \in Nat

\* A split runs on a display; before a Painter the list lies in the heap that the
\* Painter does not take, and before production in the one it will be built in.
Lists ==
  /\ split => display
  /\ live \in intact
  /\ stage = "painter" => live = IF split THEN listHeap ELSE currentHeap
  /\ stage # "painter" /\ split =>
       IF class = "R" THEN live = listHeap ELSE currentHeap = listHeap

\* The accumulator is ahead of the slot by less than the slot before it had.
Paced == split => slot <= acc /\ acc - slot < prevSlot

\* A locked wait was padded to land after a retrace.
Locked == viLocked => split /\ cfg.hz # 0 /\ pad = LandsAfterRetrace(phase)

\* At an uncapped rate: of the intervals since the last logic frame, each but
\* the last two makes up with the one two later the least cost.  next is the
\* interval that ends next: measured already, or at least the pad.
Made(next) ==
  \A q \in Nat :
    /\ renders = 4 * q     => slot >= 2 * (q * MinTicks)
    /\ renders = 4 * q + 1 => slot >= 2 * (q * MinTicks) + lastDelta
    /\ renders = 4 * q + 2 => /\ slot >= 2 * (q * MinTicks)
                              /\ slot + next >= 2 * (q * MinTicks) + MinTicks + lastDelta
    /\ renders = 4 * q + 3 => /\ slot >= 2 * (q * MinTicks) + MinTicks
                              /\ slot + next >= 2 * (q * MinTicks) + 2 * MinTicks

Uncapped ==
  split /\ cfg.hz = 0 =>
    /\ Made(IF stage = "wait" THEN pad ELSE delta)
    /\ stage # "wait" => pad + lastDelta >= MinTicks
    /\ renders <= MaxRenders

IInv == Typed /\ Lists /\ Paced /\ Locked /\ Uncapped /\ GovInv

-----------------------------------------------------------------------------
(* What the constants give.                                                *)

\* A slot is a number of uncapped iterations.
LEMMA Constants ==
  /\ Tick \in Nat /\ Tick >= 8 /\ ViField \in Nat /\ ViField >= 8
  /\ PairMin \in Nat /\ PairMin >= 1
  /\ Field \in Nat /\ Field >= 1 /\ Field <= Tick
  /\ Offset \in Nat /\ Offset >= 1 /\ Offset < ViField
  /\ MinTicks \in Nat /\ MinTicks >= 1
  /\ Tick \div MinTicks \in Nat /\ Tick = (Tick \div MinTicks) * MinTicks
  /\ MaxRenders = 2 * (Tick \div MinTicks)
<1>1. /\ Tick \in Nat /\ Tick >= 8 /\ ViField \in Nat /\ ViField >= 8
      /\ PairMin \in Nat /\ PairMin >= 1 /\ Tick % (Tick \div 8) = 0
  BY PacingAssumption
<1>2. Field \in Nat /\ Field >= 1 /\ Field <= Tick
  BY <1>1 DEF Field
<1>3. Offset \in Nat /\ Offset >= 1 /\ Offset < ViField
  BY <1>1 DEF Offset
<1>4. MinTicks \in Nat /\ MinTicks >= 1 /\ Tick % MinTicks = 0
  BY <1>1 DEF MinTicks
<1>5. \A a \in Nat, b \in Nat \ {0} :
        a \div b \in Nat /\ (a % b = 0 => a = (a \div b) * b)
  OBVIOUS
<1>6. Tick \div MinTicks \in Nat /\ Tick = (Tick \div MinTicks) * MinTicks
  BY <1>1, <1>4, <1>5
<1> QED BY <1>1, <1>2, <1>3, <1>4, <1>6 DEF MaxRenders

\* If q double steps are less than the slot, 4 q iterations are within the bound.
LEMMA Within ==
  ASSUME NEW q \in Nat
  PROVE  /\ 2 * (q * MinTicks) < Tick => 4 * q + 2 <= MaxRenders
         /\ 2 * (q * MinTicks) + MinTicks < Tick => 4 * q + 3 <= MaxRenders
<1> DEFINE T == Tick \div MinTicks
<1>1. /\ MinTicks \in Nat /\ MinTicks >= 1 /\ T \in Nat /\ Tick = T * MinTicks
      /\ MaxRenders = 2 * T
  BY Constants
<1> HIDE DEF T
<1>2. \A a, b, c \in Nat : a >= b => a * c >= b * c
  OBVIOUS
<1>3. 2 * (q * MinTicks) = (2 * q) * MinTicks
  BY <1>1
<1>4. 2 * (q * MinTicks) + MinTicks = (2 * q + 1) * MinTicks
  BY <1>1
<1>5. ASSUME (2 * q) * MinTicks < Tick PROVE 4 * q + 2 <= MaxRenders
  <2>1. ~(2 * q >= T)
    BY <1>1, <1>2, <1>5
  <2> QED BY <1>1, <2>1
<1>6. ASSUME (2 * q + 1) * MinTicks < Tick PROVE 4 * q + 3 <= MaxRenders
  <2>1. ~(2 * q + 1 >= T)
    BY <1>1, <1>2, <1>6
  <2> QED BY <1>1, <2>1
<1> QED BY <1>3, <1>4, <1>5, <1>6

LEMMA CapOf ==
  ASSUME NEW n \in Nat, NEW m \in Nat
  PROVE  Cap(n, m) \in Nat /\ Cap(n, m) = IF n <= m THEN n ELSE m
  BY MinOf DEF Cap

LEMMA KeptOf ==
  ASSUME NEW n \in Nat
  PROVE  Kept(n) \in 0..(Tick - 1) /\ Kept(n) = IF n <= Tick - 1 THEN n ELSE Tick - 1
  BY MinOf, Constants DEF Kept

\* A time at which a locked wait may end.
LEMMA Lands ==
  ASSUME NEW ph \in 0..(ViField - 1)
  PROVE  /\ LandsAfterRetrace(ph) \in Offset..(Offset + ViField - 1)
         /\ (ph + LandsAfterRetrace(ph)) % ViField = Offset
<1> DEFINE n == IF ph = 0 THEN Offset ELSE Offset + ViField - ph
<1>1. n \in Offset..(Offset + ViField - 1)
  BY Constants
<1>2. \A v \in Nat \ {0}, o \in Nat : o < v => o % v = o /\ (o + v) % v = o
  OBVIOUS
<1>3. (ph + n) % ViField = Offset
  <2>1. ph + n = Offset \/ ph + n = Offset + ViField
    BY Constants
  <2> QED BY <1>2, <2>1, Constants
<1> QED BY <1>1, <1>3 DEF LandsAfterRetrace

-----------------------------------------------------------------------------
(* The Painter hook.                                                       *)

LEMMA DecideTyped ==
  ASSUME Typed, Decide
  PROVE  /\ split' \in BOOLEAN /\ viLocked' \in BOOLEAN /\ class' \in {"L", "R"}
         /\ acc' \in 0..(Tick - 1) /\ lastDelta' \in Nat /\ lDelta' \in Nat
         /\ pairPad' \in Nat
<1>1. CASE NoDisplay
  BY <1>1 DEF NoDisplay, Typed
<1>2. 0 \in 0..(Tick - 1) /\ 0 \in Nat
  BY Constants
<1>3. CASE Passthrough
  <2>1. CASE split
    BY <1>2, <1>3, <2>1 DEF Passthrough, ResetPacing
  <2>2. CASE ~split
    BY <1>2, <1>3, <2>2 DEF Passthrough, Typed
  <2> QED BY <2>1, <2>2
<1>4. CASE Engage
  BY <1>2, <1>4 DEF Engage, ResetPacing
<1>5. CASE Accumulate
  <2>1. /\ acc \in Nat /\ delta \in Nat /\ acc + delta \in Nat
        /\ lDelta \in Nat /\ Tick \in Nat
    BY Constants DEF Typed
  <2>2. PairRest(lDelta) \in Nat
    BY <2>1, MaxOf, Constants DEF PairRest
  <2>3. UNCHANGED <<split, viLocked>> /\ lastDelta' = delta
    BY <1>5 DEF Accumulate
  <2>4. CASE acc + delta >= Tick
    <3>1. /\ class' = "L" /\ acc' = Kept(acc + delta - Tick)
          /\ lDelta' = delta /\ pairPad' = 0
      BY <1>5, <2>4 DEF Accumulate
    <3>2. acc + delta - Tick \in Nat
      BY <2>1, <2>4
    <3> QED BY <2>1, <2>3, <3>1, <3>2, KeptOf DEF Typed
  <2>5. CASE ~(acc + delta >= Tick)
    <3>1. /\ class' = "R" /\ acc' = Kept(acc + delta) /\ lDelta' = lDelta
          /\ pairPad' = IF class = "L" /\ lDelta > Field THEN PairRest(lDelta) ELSE 0
      BY <1>5, <2>5 DEF Accumulate
    <3> QED BY <2>1, <2>2, <2>3, <3>1, KeptOf DEF Typed
  <2> QED BY <2>4, <2>5
<1> QED BY <1>1, <1>3, <1>4, <1>5 DEF Decide

\* The four ways to decide, by what they do to the split.
LEMMA DecideSplit ==
  ASSUME Typed, Lists, Decide
  PROVE  \/ ~split /\ ~split' /\ viLocked' = viLocked
         \/ split /\ ~split' /\ display /\ class' = "L" /\ viLocked' = FALSE
         \/ /\ ~split /\ split' /\ display /\ class' = "L" /\ viLocked' = FALSE
            /\ acc' = 0 /\ lastDelta' = 0
         \/ split /\ split' /\ display /\ Accumulate
<1>1. CASE NoDisplay
  BY <1>1 DEF NoDisplay, Lists, Typed
<1>2. CASE Passthrough
  BY <1>2 DEF Passthrough, ResetPacing, Typed
<1>3. CASE Engage
  BY <1>3 DEF Engage, ResetPacing
<1>4. CASE Accumulate
  BY <1>4 DEF Accumulate
<1> QED BY <1>1, <1>2, <1>3, <1>4 DEF Decide

\* What is left of a Painter step once the class is decided.
LEMMA PainterRest ==
  ASSUME Typed, Lists, PainterEntry
  PROVE  /\ stage = "painter" /\ stage' = "wait" /\ Decide
         /\ UNCHANGED <<cfg, display, thirty, delta, pad, phase, live>>
         /\ listHeap' = IF split' /\ class' = "L" THEN 1 - Seeded ELSE Seeded
         /\ live = Pinned
         /\ \/ split' /\ class' = "R" /\ currentHeap' = Pinned /\ intact' = intact
            \/ currentHeap' = 1 - Pinned /\ intact' = intact \ {1 - Pinned}
<1>1. /\ stage = "painter" /\ stage' = "wait" /\ Decide
      /\ UNCHANGED <<cfg, display, thirty, delta, pad, phase, live>>
      /\ listHeap' = IF split' /\ class' = "L" THEN 1 - Seeded ELSE Seeded
  BY DEF PainterEntry, waitVars
<1>2. live = Pinned
  BY <1>1 DEF Lists, Pinned
<1>3. PICK dup \in Duplicates :
        IF dup THEN currentHeap' = Pinned /\ UNCHANGED intact ELSE Free
  BY DEF PainterEntry
<1>4. dup => split' /\ class' = "R"
  BY <1>3 DEF Duplicates
<1>5. CASE dup
  BY <1>1, <1>2, <1>3, <1>4, <1>5
<1>6. CASE ~dup
  BY <1>1, <1>2, <1>3, <1>6 DEF Free
<1> QED BY <1>5, <1>6

LEMMA PainterLists ==
  ASSUME Typed, Lists, PainterEntry
  PROVE  /\ Lists'
         /\ listHeap' \in 0..1 /\ currentHeap' \in 0..1
<1>1. /\ stage' = "wait" /\ Decide /\ display' = display /\ live' = live
      /\ listHeap' = IF split' /\ class' = "L" THEN 1 - Seeded ELSE Seeded
      /\ live = Pinned
      /\ \/ split' /\ class' = "R" /\ currentHeap' = Pinned /\ intact' = intact
         \/ currentHeap' = 1 - Pinned /\ intact' = intact \ {1 - Pinned}
  BY PainterRest
<1>2. listHeap \in 0..1 /\ currentHeap \in 0..1 /\ class' \in {"L", "R"}
  BY DecideTyped, <1>1 DEF Typed
<1>3. Pinned \in 0..1 /\ Seeded \in 0..1
  BY <1>2 DEF Pinned, Seeded
<1>4. listHeap' \in 0..1 /\ currentHeap' \in 0..1
  BY <1>1, <1>3
<1>5. live' \in intact'
  <2>1. live \in intact /\ live # 1 - Pinned
    BY <1>1, <1>3 DEF Lists
  <2> QED BY <1>1, <2>1
<1>6. split' => display'
  BY <1>1, DecideSplit DEF Lists
<1>7. ASSUME split' PROVE IF class' = "R" THEN live' = listHeap' ELSE currentHeap' = listHeap'
  <2>1. CASE split
    <3>1. Seeded = listHeap /\ Pinned = listHeap
      BY <1>7, <2>1 DEF Seeded, Pinned
    <3> QED BY <1>1, <1>2, <1>3, <1>7, <3>1
  <2>2. CASE ~split
    <3>1. class' = "L" /\ display
      BY <1>1, <1>7, <2>2, DecideSplit
    <3>2. Seeded = Pinned
      BY <2>2, <3>1 DEF Seeded
    <3> QED BY <1>1, <1>3, <1>7, <3>1, <3>2
  <2> QED BY <2>1, <2>2
<1>8. stage' # "painter"
  BY <1>1
<1> QED BY <1>4, <1>5, <1>6, <1>7, <1>8 DEF Lists

\* The slot as it is read, and the history after it.
LEMMA PainterPast ==
  ASSUME Typed, PainterEntry
  PROVE  /\ slot' \in Nat /\ prevSlot' \in Nat /\ renders' \in Nat
         /\ ~(split /\ split' /\ display) =>
              slot' = 0 /\ prevSlot' = Tick + 1 /\ renders' = 0
         /\ split /\ split' /\ display /\ class' = "L" =>
              /\ slot' = 0 /\ renders' = 0
              /\ prevSlot' = IF slot + delta <= Tick + 1 THEN slot + delta ELSE Tick + 1
         /\ split /\ split' /\ display /\ class' # "L" =>
              /\ slot' = IF slot + delta <= 2 * Tick THEN slot + delta ELSE 2 * Tick
              /\ renders' = IF renders + 1 <= MaxRenders + 1 THEN renders + 1 ELSE MaxRenders + 1
              /\ prevSlot' = prevSlot
<1>1. /\ slot \in Nat /\ delta \in Nat /\ renders \in Nat /\ prevSlot \in Nat /\ Tick \in Nat
      /\ Tick >= 1 /\ MaxRenders \in Nat
  BY Constants DEF Typed
<1> DEFINE read == Cap(slot + delta, 2 * Tick)
<1>2. read \in Nat /\ read = IF slot + delta <= 2 * Tick THEN slot + delta ELSE 2 * Tick
  <2>1. slot + delta \in Nat /\ 2 * Tick \in Nat
    BY <1>1
  <2> QED BY <2>1, CapOf
<1>3. CASE split /\ split' /\ display
  <2>1. IF class' = "L" THEN /\ slot' = 0 /\ prevSlot' = Cap(read, Tick + 1)
                             /\ renders' = 0
                        ELSE /\ slot' = read /\ renders' = Cap(renders + 1, MaxRenders + 1)
                             /\ UNCHANGED prevSlot
    BY <1>3 DEF PainterEntry
  <2> HIDE DEF read
  <2>2. /\ Cap(read, Tick + 1) \in Nat
        /\ Cap(read, Tick + 1) = IF slot + delta <= Tick + 1 THEN slot + delta ELSE Tick + 1
    <3>1. Tick + 1 \in Nat
      BY <1>1
    <3>2. /\ Cap(read, Tick + 1) \in Nat
          /\ Cap(read, Tick + 1) = IF read <= Tick + 1 THEN read ELSE Tick + 1
      BY <1>2, <3>1, CapOf
    <3> QED BY <1>1, <1>2, <3>2
  <2>3. /\ Cap(renders + 1, MaxRenders + 1) \in Nat
        /\ Cap(renders + 1, MaxRenders + 1) =
              IF renders + 1 <= MaxRenders + 1 THEN renders + 1 ELSE MaxRenders + 1
    <3>1. renders + 1 \in Nat /\ MaxRenders + 1 \in Nat
      BY <1>1
    <3> QED BY <3>1, CapOf
  <2> QED BY <1>1, <1>2, <1>3, <2>1, <2>2, <2>3
<1>4. CASE ~(split /\ split' /\ display)
  BY <1>1, <1>4 DEF PainterEntry
<1> QED BY <1>3, <1>4

LEMMA PainterTyped ==
  ASSUME Typed, Lists, PainterEntry
  PROVE  Typed'
<1>1. /\ stage' = "wait" /\ Decide
      /\ UNCHANGED <<cfg, display, thirty, delta, pad, phase, live>>
  BY PainterRest
<1> QED BY <1>1, DecideTyped, PainterLists, PainterPast DEF Typed

\* The accumulator and the slot when a split goes on.
LEMMA PainterSplit ==
  ASSUME Typed, Lists, Paced, PainterEntry, split, split'
  PROVE  /\ lastDelta' = delta /\ viLocked' = viLocked
         /\ Paced'
         /\ IF class' = "L" THEN /\ slot + delta + prevSlot > Tick
                                 /\ slot' = 0 /\ renders' = 0
                            ELSE /\ slot' = slot + delta /\ slot' < Tick
                                 /\ renders' = IF renders <= MaxRenders THEN renders + 1
                                                                      ELSE MaxRenders + 1
<1>1. Accumulate /\ display
  BY PainterRest, DecideSplit
<1>2. /\ acc \in Nat /\ acc < Tick /\ delta \in Nat /\ delta >= 1 /\ slot \in Nat
      /\ prevSlot \in Nat /\ Tick \in Nat /\ renders \in Nat /\ MaxRenders \in Nat
      /\ slot <= acc /\ acc - slot < prevSlot
  BY Constants DEF Typed, Paced
<1>3. lastDelta' = delta /\ viLocked' = viLocked
  BY <1>1 DEF Accumulate
<1>4. CASE acc + delta >= Tick
  <2>1. class' = "L" /\ acc' = Kept(acc + delta - Tick)
    BY <1>1, <1>4 DEF Accumulate
  <2>2. acc + delta - Tick \in Nat
    BY <1>2, <1>4
  <2>3. acc' = IF acc + delta - Tick <= Tick - 1 THEN acc + delta - Tick ELSE Tick - 1
    BY <2>1, <2>2, KeptOf
  <2>4. /\ slot' = 0 /\ renders' = 0
        /\ prevSlot' = IF slot + delta <= Tick + 1 THEN slot + delta ELSE Tick + 1
    BY <1>1, <2>1, PainterPast
  <2>5. slot' <= acc' /\ acc' - slot' < prevSlot'
    BY <1>2, <1>4, <2>3, <2>4
  <2>6. slot + delta + prevSlot > Tick
    BY <1>2, <1>4
  <2> QED BY <1>3, <2>1, <2>4, <2>5, <2>6 DEF Paced
<1>5. CASE ~(acc + delta >= Tick)
  <2>1. class' = "R" /\ acc' = Kept(acc + delta)
    BY <1>1, <1>5 DEF Accumulate
  <2>2. acc' = acc + delta
    BY <1>2, <1>5, <2>1, KeptOf
  <2>3. /\ slot' = IF slot + delta <= 2 * Tick THEN slot + delta ELSE 2 * Tick
        /\ renders' = IF renders + 1 <= MaxRenders + 1 THEN renders + 1 ELSE MaxRenders + 1
        /\ prevSlot' = prevSlot
    BY <1>1, <2>1, PainterPast
  <2>4. slot' = slot + delta /\ slot' < Tick
    BY <1>2, <1>5, <2>3
  <2>5. slot' <= acc' /\ acc' - slot' < prevSlot'
    BY <1>2, <2>2, <2>3, <2>4
  <2>6. renders' = IF renders <= MaxRenders THEN renders + 1 ELSE MaxRenders + 1
    BY <1>2, <2>3
  <2> QED BY <1>3, <2>1, <2>4, <2>5, <2>6 DEF Paced
<1> QED BY <1>4, <1>5

\* One more render: the interval that ends goes into the slot, and the pad of the
\* next one makes up for the one before.
LEMMA MadeNext ==
  ASSUME NEW n \in Nat, NEW s \in Nat, NEW d \in Nat, NEW l \in Nat, NEW p \in Nat, NEW q \in Nat,
         NEW M \in Nat, NEW x \in Nat,
         /\ n = 4 * q     => s >= x
         /\ n = 4 * q + 1 => s >= x + l
         /\ n = 4 * q + 2 => s >= x /\ s + d >= x + M + l
         /\ n = 4 * q + 3 => s >= x + M /\ s + d >= x + 2 * M,
         p + l >= M
  PROVE  /\ n + 1 = 4 * q + 1 => s + d >= x + d
         /\ n + 1 = 4 * q + 2 => s + d >= x /\ s + d + p >= x + M + d
         /\ n + 1 = 4 * q + 3 => s + d >= x + M /\ s + d + p >= x + 2 * M
         /\ n + 1 = 4 * q + 4 => s + d >= x + 2 * M
  OBVIOUS

LEMMA PainterUncapped ==
  ASSUME Typed, Lists, Paced, Uncapped, PainterEntry
  PROVE  Uncapped'
<1> SUFFICES ASSUME split', cfg'.hz = 0
             PROVE  Made(pad)' /\ renders' <= MaxRenders
  <2>1. stage' = "wait"
    BY PainterRest
  <2> QED BY <2>1 DEF Uncapped, Made
<1>1. /\ pad' = pad /\ delta' = delta /\ cfg' = cfg /\ stage = "painter" /\ Decide
  BY PainterRest
<1>2. /\ MinTicks \in Nat /\ MinTicks >= 1 /\ MaxRenders \in Nat
      /\ \A q \in Nat : q * MinTicks \in Nat /\ 0 * MinTicks = 0
      /\ \A q \in Nat : (q + 1) * MinTicks = q * MinTicks + MinTicks
      /\ \A q \in Nat : q # 0 => q - 1 \in Nat
  <2>1. MinTicks \in Nat /\ MinTicks >= 1 /\ MaxRenders \in Nat
    BY Constants
  <2> QED BY <2>1
<1>3. ASSUME renders' = 0, slot' = 0 PROVE Made(pad)' /\ renders' <= MaxRenders
  BY <1>2, <1>3 DEF Made
<1>4. CASE ~split
  BY <1>3, <1>4, PainterPast
<1>5. CASE split /\ class' = "L"
  BY <1>3, <1>5, PainterSplit
<1>6. CASE split /\ class' # "L"
  <2>1. /\ lastDelta' = delta /\ slot' = slot + delta /\ slot' < Tick
        /\ renders' = IF renders <= MaxRenders THEN renders + 1 ELSE MaxRenders + 1
    BY <1>6, PainterSplit
  <2>2. Made(delta) /\ pad + lastDelta >= MinTicks /\ renders <= MaxRenders
    BY <1>1, <1>6 DEF Uncapped
  <2>3. /\ renders \in Nat /\ slot \in Nat /\ delta \in Nat /\ lastDelta \in Nat /\ pad \in Nat
        /\ Tick \in Nat /\ renders' = renders + 1
    BY <1>2, <2>1, <2>2, Constants DEF Typed
  <2> DEFINE x(q) == 2 * (q * MinTicks)
  <2>4. \A q \in Nat : x(q) \in Nat /\ x(q + 1) = x(q) + 2 * MinTicks /\ x(0) = 0
    BY <1>2
  <2>5. ASSUME NEW q \in Nat
        PROVE  /\ renders = 4 * q     => slot >= x(q)
               /\ renders = 4 * q + 1 => slot >= x(q) + lastDelta
               /\ renders = 4 * q + 2 => slot >= x(q) /\ slot + delta >= x(q) + MinTicks + lastDelta
               /\ renders = 4 * q + 3 => slot >= x(q) + MinTicks /\ slot + delta >= x(q) + 2 * MinTicks
    BY <2>2 DEF Made
  <2> HIDE DEF x
  <2>6. ASSUME NEW q \in Nat
        PROVE  /\ renders' = 4 * q + 1 => slot' >= x(q) + lastDelta'
               /\ renders' = 4 * q + 2 => slot' >= x(q) /\ slot' + pad >= x(q) + MinTicks + lastDelta'
               /\ renders' = 4 * q + 3 => slot' >= x(q) + MinTicks /\ slot' + pad >= x(q) + 2 * MinTicks
               /\ renders' = 4 * q + 4 => slot' >= x(q) + 2 * MinTicks
    <3>1. x(q) \in Nat
      BY <2>4
    <3>2. /\ renders + 1 = 4 * q + 1 => slot + delta >= x(q) + delta
          /\ renders + 1 = 4 * q + 2 => slot + delta >= x(q) /\ slot + delta + pad >= x(q) + MinTicks + delta
          /\ renders + 1 = 4 * q + 3 => slot + delta >= x(q) + MinTicks /\ slot + delta + pad >= x(q) + 2 * MinTicks
          /\ renders + 1 = 4 * q + 4 => slot + delta >= x(q) + 2 * MinTicks
      BY <1>2, <2>2, <2>3, <2>5, <3>1, MadeNext
    <3> QED BY <2>1, <2>3, <3>2
  <2>7. ASSUME NEW q \in Nat, renders' = 4 * q PROVE slot' >= x(q)
    <3>1. CASE q = 0
      BY <2>1, <2>3, <2>4, <3>1
    <3>2. CASE q # 0
      <4>1. q - 1 \in Nat /\ renders' = 4 * (q - 1) + 4 /\ x(q) = x(q - 1) + 2 * MinTicks
        <5>1. q - 1 \in Nat /\ (q - 1) + 1 = q
          BY <3>2
        <5> QED BY <2>4, <2>7, <5>1
      <4> QED BY <2>6, <4>1
    <3> QED BY <3>1, <3>2
  <2>8. Made(pad)'
    BY <1>1, <2>6, <2>7 DEF Made, x
  <2>9. PICK q \in Nat, r \in 0..3 : renders' = 4 * q + r
    <3>1. renders' \in Nat
      BY <2>3
    <3>2. \A a \in Nat : /\ a \div 4 \in Nat /\ a % 4 \in 0..3
                         /\ a = 4 * (a \div 4) + (a % 4)
      OBVIOUS
    <3>3. /\ renders' \div 4 \in Nat /\ renders' % 4 \in 0..3
          /\ renders' = 4 * (renders' \div 4) + (renders' % 4)
      BY <3>1, <3>2
    <3> QED BY <3>3
  <2>10. /\ 2 * (q * MinTicks) < Tick => 4 * q + 2 <= MaxRenders
         /\ 2 * (q * MinTicks) + MinTicks < Tick => 4 * q + 3 <= MaxRenders
    BY Within
  <2>11. x(q) = 2 * (q * MinTicks) /\ x(q) \in Nat
    BY <2>4 DEF x
  <2>12. CASE r = 3
    <3>1. x(q) + MinTicks < Tick
      BY <1>2, <2>1, <2>3, <2>6, <2>9, <2>11, <2>12
    <3> QED BY <2>8, <2>9, <2>10, <2>11, <2>12, <3>1
  <2>13. CASE r # 3
    <3>1. x(q) <= slot'
      BY <1>2, <2>1, <2>3, <2>6, <2>7, <2>9, <2>11, <2>13
    <3>2. x(q) < Tick
      BY <2>1, <2>3, <2>11, <3>1
    <3>3. 4 * q + 2 <= MaxRenders
      BY <2>10, <2>11, <3>2
    <3> QED BY <1>2, <2>8, <2>9, <2>13, <3>3
  <2> QED BY <2>12, <2>13
<1> QED BY <1>4, <1>5, <1>6

LEMMA PainterIInv ==
  ASSUME IInv, PainterEntry
  PROVE  IInv'
<1>1. Typed' /\ Lists' /\ Uncapped'
  BY PainterTyped, PainterLists, PainterUncapped DEF IInv
<1>2. Paced'
  <2>1. CASE split /\ split'
    BY <2>1, PainterSplit DEF IInv
  <2>2. CASE ~(split /\ split')
    <3>1. CASE ~split'
      BY <3>1 DEF Paced
    <3>2. CASE split'
      <4>1. ~split /\ Decide
        BY <2>2, <3>2, PainterRest DEF IInv
      <4>2. acc' = 0
        BY <3>2, <4>1, DecideSplit DEF IInv
      <4>3. slot' = 0 /\ prevSlot' = Tick + 1
        BY <4>1, PainterPast DEF IInv
      <4> QED BY <4>2, <4>3, Constants DEF Paced
    <3> QED BY <3>1, <3>2
  <2> QED BY <2>1, <2>2
<1>3. Locked'
  <2>1. UNCHANGED <<cfg, pad, phase>> /\ Decide
    BY PainterRest DEF IInv
  <2>2. CASE split /\ split'
    <3>1. viLocked' = viLocked
      BY <2>2, PainterSplit DEF IInv
    <3> QED BY <2>1, <2>2, <3>1 DEF IInv, Locked
  <2>3. CASE ~(split /\ split')
    <3>1. viLocked' = FALSE \/ (~split /\ viLocked' = viLocked)
      BY <2>1, <2>3, DecideSplit DEF IInv
    <3>2. ~viLocked'
      BY <3>1 DEF IInv, Locked
    <3> QED BY <3>2 DEF Locked
  <2> QED BY <2>2, <2>3
<1>4. GovInv'
  <2>1. GovOnLFrame \/ UNCHANGED govVars
    BY DEF PainterEntry
  <2> QED BY <2>1, GovernorInv, GovKept DEF IInv
<1> QED BY <1>1, <1>2, <1>3, <1>4 DEF IInv

-----------------------------------------------------------------------------
(* The wait, and production.                                               *)

LEMMA WaitRest ==
  ASSUME Typed, WaitForTick
  PROVE  /\ stage = "wait" /\ stage' = "produce"
         /\ UNCHANGED <<cfg, split, class, acc, lastDelta, lDelta, pairPad, listHeap, display,
                        live, intact, currentHeap, slot, prevSlot, renders, govVars>>
         /\ delta' \in Nat \ {0} /\ delta' >= pad
         /\ phase' = (phase + delta') % ViField /\ phase' \in 0..(ViField - 1)
         /\ pad' \in Nat \ {0} /\ viLocked' \in BOOLEAN
         /\ ~split => viLocked' = viLocked
         /\ split /\ cfg.hz = 0 => viLocked' = viLocked /\ pad' = UncappedPad
         /\ split /\ viLocked' /\ cfg.hz # 0 => pad' = LandsAfterRetrace(phase')
<1>1. /\ stage = "wait" /\ stage' = "produce"
      /\ UNCHANGED <<cfg, split, class, acc, lastDelta, lDelta, pairPad, listHeap, display,
                     live, intact, currentHeap, slot, prevSlot, renders, govVars>>
  BY DEF WaitForTick, heapVars, pastVars
<1>2. /\ cfg \in Configs /\ cfg.works \subseteq Nat \ {0} /\ cfg.grids \subseteq BOOLEAN
      /\ cfg.hz \in Nat
  BY PacingAssumption DEF Typed
<1>3. PICK work \in cfg.works : \E grid \in cfg.grids :
       /\ delta' = Max({work, pad})
       /\ phase' = (phase + delta') % ViField
       /\ IF ~split
            THEN pad' = (IF thirty THEN Tick ELSE Field) /\ UNCHANGED viLocked
          ELSE IF cfg.hz = 0
            THEN pad' = UncappedPad /\ UNCHANGED viLocked
          ELSE LET rate   == Max({1, (Tick * 30) \div cfg.hz})
                   paired == IF pairPad # 0 /\ rate = Field THEN pairPad ELSE rate IN
            /\ viLocked' = (grid /\ cfg.hz = 60)
            /\ pad' = IF viLocked' THEN LandsAfterRetrace(phase') ELSE paired
  BY DEF WaitForTick
<1>4. PICK grid \in cfg.grids :
       /\ delta' = Max({work, pad})
       /\ phase' = (phase + delta') % ViField
       /\ IF ~split
            THEN pad' = (IF thirty THEN Tick ELSE Field) /\ UNCHANGED viLocked
          ELSE IF cfg.hz = 0
            THEN pad' = UncappedPad /\ UNCHANGED viLocked
          ELSE LET rate   == Max({1, (Tick * 30) \div cfg.hz})
                   paired == IF pairPad # 0 /\ rate = Field THEN pairPad ELSE rate IN
            /\ viLocked' = (grid /\ cfg.hz = 60)
            /\ pad' = IF viLocked' THEN LandsAfterRetrace(phase') ELSE paired
  BY <1>3
<1>5. work \in Nat \ {0} /\ pad \in Nat \ {0} /\ phase \in Nat /\ lastDelta \in Nat
      /\ pairPad \in Nat /\ viLocked \in BOOLEAN
  BY <1>2 DEF Typed
<1>6. delta' \in Nat \ {0} /\ delta' >= pad
  BY <1>4, <1>5, MaxOf
<1>7. phase' = (phase + delta') % ViField /\ phase' \in 0..(ViField - 1)
  <2>1. \A a \in Nat, b \in Nat \ {0} : a % b \in 0..(b - 1)
    OBVIOUS
  <2>2. \A d \in Nat : phase + d \in Nat
    BY <1>5
  <2>3. phase + delta' \in Nat
    BY <1>6, <2>2
  <2>4. ViField \in Nat \ {0}
    BY Constants
  <2>5. (phase + delta') % ViField \in 0..(ViField - 1)
    BY <2>1, <2>3, <2>4
  <2> QED BY <1>4, <2>5
<1>8. CASE ~split
  <2>1. viLocked' = viLocked
    BY <1>4, <1>8
  <2>2. pad' = Tick \/ pad' = Field
    BY <1>4, <1>8
  <2>3. pad' \in Nat \ {0}
    BY <2>2, Constants
  <2> QED BY <1>1, <1>5, <1>6, <1>7, <1>8, <2>1, <2>3
<1>9. CASE split /\ cfg.hz = 0
  <2>1. pad' = UncappedPad /\ viLocked' = viLocked
    BY <1>4, <1>9
  <2>2. pad' \in Nat \ {0}
    BY <1>5, <2>1, MaxOf, Constants DEF UncappedPad
  <2> QED BY <1>1, <1>5, <1>6, <1>7, <1>9, <2>1, <2>2
<1>10. CASE split /\ cfg.hz # 0
  <2> DEFINE rate == Max({1, (Tick * 30) \div cfg.hz})
             paired == IF pairPad # 0 /\ rate = Field THEN pairPad ELSE rate
  <2>1. /\ viLocked' = (grid /\ cfg.hz = 60)
        /\ pad' = IF viLocked' THEN LandsAfterRetrace(phase') ELSE paired
    BY <1>4, <1>10
  <2>2. rate \in Nat \ {0}
    <3>1. \A a \in Nat, b \in Nat \ {0} : a \div b \in Nat
      OBVIOUS
    <3>2. Tick * 30 \in Nat /\ cfg.hz \in Nat \ {0}
      BY <1>2, <1>10, Constants
    <3>3. (Tick * 30) \div cfg.hz \in Nat
      BY <3>1, <3>2
    <3> QED BY <3>3, MaxOf
  <2> HIDE DEF rate
  <2>3. paired \in Nat \ {0}
    BY <1>5, <2>2
  <2> HIDE DEF paired
  <2>4. viLocked' \in BOOLEAN
    BY <2>1
  <2>5. LandsAfterRetrace(phase') \in Nat \ {0}
    BY <1>7, Lands, Constants
  <2>6. viLocked' => pad' = LandsAfterRetrace(phase')
    BY <2>1
  <2>7. ~viLocked' => pad' = paired
    BY <2>1
  <2>8. pad' \in Nat \ {0}
    BY <2>3, <2>5, <2>6, <2>7
  <2> QED BY <1>1, <1>6, <1>7, <1>10, <2>4, <2>6, <2>8
<1> QED BY <1>8, <1>9, <1>10

LEMMA WaitIInv ==
  ASSUME IInv, WaitForTick
  PROVE  IInv'
<1>1. /\ stage = "wait" /\ stage' = "produce"
      /\ UNCHANGED <<cfg, split, class, acc, lastDelta, lDelta, pairPad, listHeap, display,
                     live, intact, currentHeap, slot, prevSlot, renders, govVars>>
      /\ delta' \in Nat \ {0} /\ delta' >= pad
      /\ phase' \in 0..(ViField - 1)
      /\ pad' \in Nat \ {0} /\ viLocked' \in BOOLEAN
      /\ ~split => viLocked' = viLocked
      /\ split /\ cfg.hz = 0 => viLocked' = viLocked /\ pad' = UncappedPad
      /\ split /\ viLocked' /\ cfg.hz # 0 => pad' = LandsAfterRetrace(phase')
  BY WaitRest DEF IInv
<1>2. Typed'
  BY <1>1 DEF IInv, Typed
<1>3. Lists' /\ Paced'
  BY <1>1 DEF IInv, Lists, Paced
<1>4. Locked'
  <2> SUFFICES ASSUME viLocked' PROVE split /\ cfg.hz # 0
    BY <1>1 DEF Locked
  <2>1. CASE split /\ cfg.hz # 0
    BY <2>1
  <2>2. CASE ~(split /\ cfg.hz # 0)
    <3>1. viLocked' = viLocked
      BY <1>1, <2>2 DEF IInv, Typed
    <3> QED BY <2>2, <3>1 DEF IInv, Locked
  <2> QED BY <2>1, <2>2
<1>5. ASSUME split', cfg'.hz = 0
      PROVE  Made(delta)' /\ pad' + lastDelta' >= MinTicks /\ renders' <= MaxRenders
  <2>1. split /\ cfg.hz = 0 /\ Made(pad) /\ renders <= MaxRenders
    BY <1>1, <1>5 DEF IInv, Uncapped
  <2>2. /\ slot \in Nat /\ pad \in Nat /\ lastDelta \in Nat /\ delta' \in Nat /\ delta' >= pad
        /\ MinTicks \in Nat
    BY <1>1, Constants DEF IInv, Typed
  <2>4. \A q \in Nat : 2 * (q * MinTicks) \in Nat
    BY <2>2
  <2>5. Made(delta)'
    <3> SUFFICES ASSUME NEW q \in Nat
                 PROVE  /\ renders = 4 * q     => slot >= 2 * (q * MinTicks)
                        /\ renders = 4 * q + 1 => slot >= 2 * (q * MinTicks) + lastDelta
                        /\ renders = 4 * q + 2 =>
                             /\ slot >= 2 * (q * MinTicks)
                             /\ slot + delta' >= 2 * (q * MinTicks) + MinTicks + lastDelta
                        /\ renders = 4 * q + 3 =>
                             /\ slot >= 2 * (q * MinTicks) + MinTicks
                             /\ slot + delta' >= 2 * (q * MinTicks) + 2 * MinTicks
      BY <1>1 DEF Made
    <3> DEFINE x == 2 * (q * MinTicks)
    <3>1. x \in Nat
      BY <2>4
    <3>2. /\ renders = 4 * q     => slot >= x
          /\ renders = 4 * q + 1 => slot >= x + lastDelta
          /\ renders = 4 * q + 2 => slot >= x /\ slot + pad >= x + MinTicks + lastDelta
          /\ renders = 4 * q + 3 => slot >= x + MinTicks /\ slot + pad >= x + 2 * MinTicks
      BY <2>1 DEF Made
    <3> HIDE DEF x
    <3>3. \A d \in Nat : d >= pad =>
            /\ slot + pad >= x + MinTicks + lastDelta => slot + d >= x + MinTicks + lastDelta
            /\ slot + pad >= x + 2 * MinTicks => slot + d >= x + 2 * MinTicks
      BY <2>2, <3>1
    <3>4. /\ slot + pad >= x + MinTicks + lastDelta => slot + delta' >= x + MinTicks + lastDelta
          /\ slot + pad >= x + 2 * MinTicks => slot + delta' >= x + 2 * MinTicks
      BY <2>2, <3>3
    <3>5. /\ renders = 4 * q     => slot >= x
          /\ renders = 4 * q + 1 => slot >= x + lastDelta
          /\ renders = 4 * q + 2 => slot >= x /\ slot + delta' >= x + MinTicks + lastDelta
          /\ renders = 4 * q + 3 => slot >= x + MinTicks /\ slot + delta' >= x + 2 * MinTicks
      BY <3>2, <3>4
    <3> QED BY <3>5 DEF x
  <2>6. pad' + lastDelta >= MinTicks
    BY <1>1, <2>1, <2>2, MaxOf DEF UncappedPad
  <2> QED BY <1>1, <2>1, <2>5, <2>6
<1>6. Uncapped'
  BY <1>1, <1>5 DEF Uncapped, Made
<1>7. GovInv'
  BY <1>1, GovKept DEF IInv
<1> QED BY <1>2, <1>3, <1>4, <1>6, <1>7 DEF IInv

LEMMA ProduceIInv ==
  ASSUME IInv, Produce
  PROVE  IInv'
<1>1. /\ stage = "produce" /\ stage' = "painter"
      /\ UNCHANGED <<cfg, split, class, acc, lastDelta, lDelta, pairPad, viLocked, listHeap,
                     delta, pad, phase, slot, prevSlot, renders, govVars>>
  BY DEF Produce, modVars, waitVars, pastVars
<1>2. CASE Gated
  <2>1. UNCHANGED <<display, thirty, currentHeap, live, intact>> /\ split /\ class = "R"
    BY <1>2 DEF Produce, Gated, heapVars
  <2>2. Typed' /\ Lists'
    BY <1>1, <2>1 DEF IInv, Typed, Lists
  <2> QED BY <1>1, <2>2, GovKept DEF IInv, Paced, Locked, Uncapped, Made
<1>3. CASE ~Gated
  <2>1. /\ live' = currentHeap /\ intact' = intact \cup {currentHeap}
        /\ display' = TRUE /\ currentHeap' = currentHeap
    BY <1>3 DEF Produce
  <2>2. Typed'
    BY <1>1, <2>1 DEF IInv, Typed
  <2>3. split => class # "R"
    BY <1>3 DEF Gated
  <2>4. Lists'
    BY <1>1, <2>1, <2>3 DEF IInv, Lists
  <2> QED BY <1>1, <2>2, <2>4, GovKept DEF IInv, Paced, Locked, Uncapped, Made
<1> QED BY <1>2, <1>3

-----------------------------------------------------------------------------
(* The theorems.                                                           *)

LEMMA InitIInv == ASSUME Init PROVE IInv
<1>1. 0 \in 0..(Tick - 1) /\ 0 \in 0..(ViField - 1) /\ Field \in Nat \ {0} /\ Tick + 1 \in Nat
  BY Constants
<1>2. split \in BOOLEAN /\ viLocked \in BOOLEAN /\ ~split /\ ~viLocked
  BY DEF Init
<1>3. Typed
  BY <1>1, <1>2 DEF Init, Typed
<1>4. Lists
  BY <1>2 DEF Init, Lists
<1>5. Paced /\ Locked /\ Uncapped
  BY <1>2 DEF Paced, Locked, Uncapped
<1> QED BY <1>3, <1>4, <1>5, GovInitInv DEF Init, IInv

LEMMA NextIInv ==
  ASSUME IInv, [Next]_vars
  PROVE  IInv'
<1>1. CASE Next
  BY <1>1, PainterIInv, WaitIInv, ProduceIInv DEF Next
<1>2. CASE UNCHANGED vars
  <2>1. UNCHANGED <<cfg, split, class, acc, lastDelta, lDelta, pairPad, viLocked, listHeap,
                    stage, display, delta, pad, phase, currentHeap, live, intact,
                    slot, prevSlot, renders, govVars>>
    BY <1>2 DEF vars, modVars, waitVars, heapVars, pastVars
  <2>2. GovInv'
    BY <2>1, GovKept DEF IInv
  <2> QED BY <2>1, <2>2 DEF IInv, Typed, Lists, Paced, Locked, Uncapped, Made
<1> QED BY <1>1, <1>2

\* The inductive invariant, for any slot length, rates, workloads and governor.
THEOREM Invariant == Spec => []IInv
<1>1. Init => IInv
  BY InitIInv
<1>2. IInv /\ [Next]_vars => IInv'
  BY NextIInv
<1> QED BY <1>1, <1>2, PTL DEF Spec

\* The list a Painter replays was not freed by it or by an earlier Painter.
THEOREM ListsSurvive == Spec => []LiveListSurvives
<1>1. IInv => LiveListSurvives
  BY DEF IInv, Lists, LiveListSurvives
<1> QED BY <1>1, Invariant, PTL

\* Logic waits less than a slot of measured time and gets no two short slots in a
\* row; an uncapped rate renders at most MaxRenders frames between two of its steps.
THEOREM LogicKeepsRate == Spec => LogicPaced
<1>1. ASSUME IInv, [Next]_vars, stage = "painter", split, split', ~UNCHANGED vars
      PROVE  IF class' = "L" THEN slot + delta + prevSlot > Tick
                             ELSE slot' < Tick /\ (cfg.hz = 0 => renders' <= MaxRenders)
  <2>1. PainterEntry
    BY <1>1 DEF Next, WaitForTick, Produce
  <2>2. IInv'
    BY <1>1, NextIInv
  <2>3. cfg' = cfg
    BY <2>1 DEF PainterEntry
  <2>4. cfg.hz = 0 => renders' <= MaxRenders
    BY <1>1, <2>2, <2>3 DEF IInv, Uncapped
  <2> QED BY <1>1, <2>1, <2>4, PainterSplit DEF IInv
<1>2. IInv /\ [Next]_vars =>
        [stage = "painter" /\ split /\ split' =>
           IF class' = "L" THEN slot + delta + prevSlot > Tick
                           ELSE slot' < Tick /\ (cfg.hz = 0 => renders' <= MaxRenders)]_vars
  BY <1>1
<1> QED BY <1>2, Invariant, PTL DEF Spec, LogicPaced

\* The interval after a wait that was locked to the retrace grid has a retrace in
\* it, and ends at the offset unless the work overran it.
THEOREM LockedImagesShown == Spec => LockedImageShown
<1>1. ASSUME IInv, [Next]_vars, stage = "wait", viLocked, ~UNCHANGED vars
      PROVE  /\ \E n \in 0..(delta' - 1) : (phase + n) % ViField = 0
             /\ delta' = pad => phase' = Offset
  <2>1. WaitForTick
    BY <1>1 DEF Next, PainterEntry, Produce
  <2>2. /\ delta' \in Nat /\ delta' >= pad /\ phase' = (phase + delta') % ViField
    BY <1>1, <2>1, WaitRest DEF IInv
  <2>3. pad = LandsAfterRetrace(phase) /\ phase \in 0..(ViField - 1)
    BY <1>1 DEF IInv, Locked, Typed
  <2>4. /\ pad \in Offset..(Offset + ViField - 1) /\ (phase + pad) % ViField = Offset
    BY <2>3, Lands
  <2>5. /\ Offset \in Nat /\ Offset >= 1 /\ Offset < ViField /\ ViField \in Nat
    BY Constants
  <2>6. pad - Offset \in 0..(delta' - 1)
    <3>1. \A d \in Nat : d >= pad => pad - Offset \in 0..(d - 1)
      BY <2>4, <2>5
    <3> QED BY <2>2, <3>1
  <2>7. (phase + (pad - Offset)) % ViField = 0
    <3>1. \A a \in Nat, v \in Nat \ {0}, o \in Nat : a % v = o => (a - o) % v = 0
      <4> SUFFICES ASSUME NEW a \in Nat, NEW v \in Nat \ {0}, NEW o \in Nat, a % v = o
                   PROVE  (a - o) % v = 0
        OBVIOUS
      <4>1. a = v * (a \div v) + (a % v) /\ a \div v \in Nat
        OBVIOUS
      <4>2. a - o = v * (a \div v)
        BY <4>1
      <4>3. \A k \in Nat : (v * k) % v = 0
        OBVIOUS
      <4> QED BY <4>1, <4>2, <4>3
    <3>2. phase + (pad - Offset) = (phase + pad) - Offset /\ phase + pad \in Nat
      BY <2>3, <2>4, <2>5
    <3> QED BY <2>4, <2>5, <3>1, <3>2
  <2> QED BY <2>2, <2>4, <2>6, <2>7
<1>2. IInv /\ [Next]_vars =>
        [stage = "wait" /\ viLocked =>
           /\ \E n \in 0..(delta' - 1) : (phase + n) % ViField = 0
           /\ delta' = pad => phase' = Offset]_vars
  BY <1>1
<1> QED BY <1>2, Invariant, PTL DEF Spec, LockedImageShown

\* Interpolation goes off only for cause and comes back only after the whole hold;
\* the hold is the least one doubled for every failed retry, up to the cap.
THEOREM GovernorKeepsHold == Spec => GovernorHolds
<1>1. ASSUME IInv, [Next]_vars PROVE GovStep
  <2>1. CASE PainterEntry
    <3>1. GovOnLFrame \/ UNCHANGED govVars
      BY <2>1 DEF PainterEntry
    <3> QED BY <1>1, <3>1, GovernorInv, GovKept DEF IInv
  <2>2. CASE WaitForTick \/ Produce \/ UNCHANGED vars
    <3>1. UNCHANGED govVars
      BY <2>2 DEF WaitForTick, Produce, vars
    <3> QED BY <1>1, <3>1, GovKept DEF IInv
  <2> QED BY <1>1, <2>1, <2>2 DEF Next
<1>2. IInv /\ [Next]_vars => [GovStep]_govVars
  BY <1>1
<1>3. Spec => [][GovStep]_govVars
  BY <1>2, Invariant, PTL DEF Spec
<1>4. [GovStep]_govVars =>
        [/\ ~degraded /\ degraded' => probing \/ slowRun' = SlowWindows
         /\ degraded /\ ~degraded' => rested' >= hold
         /\ hold' = Min({HoldMax, HoldMin * Factor[fails']})]_govVars
  BY DEF GovStep
<1> QED BY <1>3, <1>4, PTL DEF GovernorHolds

-----------------------------------------------------------------------------
(* The interpolation: looks, objects and how production changes them.      *)

\* The frames Painter runs in, and the states of a mechanism whose records are in M.
Frames == [split : BOOLEAN, class : {"L", "R"}, dup : BOOLEAN, cut : BOOLEAN]
States(M) == [obj : Objects, mod : M]

\* A value is not Nothing.
LEMMA PairNotNothing ==
  ASSUME NEW x, NEW y
  PROVE  <<x, y>> # <<>>
OBVIOUS

\* What production writes is a pair of the same look twice.
LEMMA PlainPair ==
  ASSUME NEW p \in Plains
  PROVE  /\ p \in Values /\ p \in Stored /\ p # Nothing
         /\ p = <<p[1], p[2]>> /\ p[1] = p[2] /\ p[1] \in Looks /\ p = Plain(p[1])
         /\ p # Plain(Alien)
BY LooksAssumption DEF Plains, Plain, Values, Stored, Nothing

\* Half way between two values is a value.
LEMMA MixPair ==
  ASSUME NEW p \in Values, NEW q \in Values
  PROVE  Mix(p, q) \in Values /\ Mix(p, q) # Nothing
BY DEF Mix, Values, Nothing

\* The object with other contents of its memory.
Filled(o, m) == [o EXCEPT !.mem = m]

\* Only the memory changes, and what is filled in is stored.
LEMMA FilledForm ==
  ASSUME NEW o \in Objects, NEW m
  PROVE  /\ Filled(o, m).mem = m /\ Filled(o, m).wrote = o.wrote /\ Filled(o, m).cur = o.cur
         /\ Filled(o, m).own = o.own /\ Filled(o, m).tag = o.tag /\ Filled(o, m).age = o.age
         /\ Filled(o, m).new = o.new
         /\ m \in [Cells -> Stored] => Filled(o, m) \in Objects
         /\ \A n : Filled(Filled(o, m), n) = Filled(o, n)
         /\ Filled(o, o.mem) = o
<1>1. \A n : Filled(o, n) = [mem |-> n, wrote |-> o.wrote, cur |-> o.cur, own |-> o.own,
                            tag |-> o.tag, age |-> o.age, new |-> o.new]
  BY DEF Filled, Objects
<1>2. m \in [Cells -> Stored] => Filled(o, m) \in Objects
  BY DEF Filled, Objects
<1>3. o = [mem |-> o.mem, wrote |-> o.wrote, cur |-> o.cur, own |-> o.own,
           tag |-> o.tag, age |-> o.age, new |-> o.new]
  BY DEF Objects
<1>4. \A n : Filled(Filled(o, m), n) = Filled(o, n)
  <2>1. TAKE n
  <2>2. Filled(Filled(o, m), n) =
          [mem |-> n, wrote |-> o.wrote, cur |-> o.cur, own |-> o.own,
           tag |-> o.tag, age |-> o.age, new |-> o.new]
    BY <1>1 DEF Filled
  <2> QED BY <2>2, <1>1
<1>5. Filled(o, o.mem) = o
  BY <1>1, <1>3
<1>6. /\ Filled(o, m).mem = m /\ Filled(o, m).wrote = o.wrote /\ Filled(o, m).cur = o.cur
      /\ Filled(o, m).own = o.own /\ Filled(o, m).tag = o.tag /\ Filled(o, m).age = o.age
      /\ Filled(o, m).new = o.new
  <2>1. Filled(o, m) = [mem |-> m, wrote |-> o.wrote, cur |-> o.cur, own |-> o.own,
                        tag |-> o.tag, age |-> o.age, new |-> o.new]
    BY <1>1
  <2> QED BY <2>1
<1> QED BY <1>2, <1>4, <1>5, <1>6

\* The mod puts x in the cell in use.
LEMMA PutForm ==
  ASSUME NEW M, NEW t \in States(M), NEW x
  PROVE  /\ Put(t, x) = [obj |-> Filled(t.obj, [t.obj.mem EXCEPT ![t.obj.cur] = x]), mod |-> t.mod]
         /\ x \in Stored => [t.obj.mem EXCEPT ![t.obj.cur] = x] \in [Cells -> Stored]
BY DEF Put, States, Objects, Cells, Filled

\* Production writes one cell of the memory and makes it current.
LEMMA WroteForm ==
  ASSUME NEW o \in Objects, NEW c \in Cells, NEW x \in Stored
  PROVE  /\ Wrote(o, c, x) \in Objects
         /\ Wrote(o, c, x).mem = [o.mem EXCEPT ![c] = x]
         /\ Wrote(o, c, x).wrote = [o.wrote EXCEPT ![c] = x]
         /\ Wrote(o, c, x).cur = c
         /\ Wrote(o, c, x).own = o.own /\ Wrote(o, c, x).tag = o.tag
         /\ Wrote(o, c, x).age = o.age /\ Wrote(o, c, x).new = o.new
BY DEF Wrote, Objects, Cells

-----------------------------------------------------------------------------
(* The packet windows, foliage and shadow: what a draw shows.              *)

\* Outside a draw a packet is as production wrote it, and no window is open.
WindowKinds == {"foliage", "shadow"}
WindowAt(t) ==
  /\ t \in States(Windows)
  /\ t.obj.own = "object" /\ t.obj.cur = 0 /\ t.obj.mem = t.obj.wrote
  /\ t.obj.mem[0] \in Plains /\ ~t.mod.armed
\* What a window has captured is the look of the last game frame that showed the packet.
WindowSeen(t, sh) ==
  t.mod.known /\ t.mod.tag # 0 => t.mod.curr = sh /\ sh \in Plains /\ ~t.obj.new

\* A packet's look is plain.
LEMMA WindowLook ==
  ASSUME NEW t, WindowAt(t)
  PROVE  /\ Live(t) = t.obj.mem[0] /\ Live(t) \in Plains /\ Live(t) \in Stored
         /\ Live(t) \in Values /\ Live(t) # Nothing
BY PlainPair DEF WindowAt, Live

\* A capture leaves the packet and keeps its look and tag.
LEMMA CapturedForm ==
  ASSUME NEW t, WindowAt(t)
  PROVE  /\ WindowAt(Captured(t)) /\ Captured(t).obj = t.obj /\ Captured(t).mod.known
         /\ Captured(t).mod.tag = t.obj.tag
         /\ t.obj.tag # 0 => Captured(t).mod.curr = Live(t)
BY WindowLook DEF Captured, States, Windows, Objects, Present, WindowAt

\* The fields of a window, one by one.
LEMMA WindowFields ==
  ASSUME NEW r, NEW o, NEW kn, NEW tg, NEW cu, NEW ba, NEW ar,
         r = [obj |-> o, mod |-> [known |-> kn, tag |-> tg, curr |-> cu, bak |-> ba, armed |-> ar]]
  PROVE  r.obj = o /\ r.mod.known = kn /\ r.mod.tag = tg /\ r.mod.curr = cu
         /\ r.mod.bak = ba /\ r.mod.armed = ar
OBVIOUS

\* An open window shows the packet half way, and the return closes it.
LEMMA LerpedForm ==
  ASSUME NEW t, WindowAt(t), t.mod.curr \in Values, NEW e, e = Lerped(t)
  PROVE  /\ Live(e) = Mix(t.mod.curr, Live(t)) /\ e.obj.tag = t.obj.tag
         /\ DrawReturn(e) \in States(Windows) /\ DrawReturn(e).obj = t.obj
         /\ DrawReturn(e).mod.known = t.mod.known /\ ~DrawReturn(e).mod.armed
         /\ DrawReturn(e).mod.tag = t.mod.tag /\ DrawReturn(e).mod.curr = t.mod.curr
<1>1. PICK x : x = Mix(t.mod.curr, Live(t))
  OBVIOUS
<1>2. t \in States(Windows) /\ t.obj \in Objects /\ t.obj.cur = 0
  BY DEF WindowAt, States
<1>3. PICK o : o = Filled(t.obj, [t.obj.mem EXCEPT ![0] = x])
  OBVIOUS
<1>4. Put(t, x) = [obj |-> o, mod |-> t.mod]
  BY <1>2, <1>3, PutForm
<1>5. e = [obj |-> o, mod |-> [known |-> t.mod.known, tag |-> t.mod.tag,
                               curr |-> t.mod.curr, bak |-> Live(t), armed |-> TRUE]]
  <2>1. e = [Put(t, x) EXCEPT !.mod.bak = Live(t), !.mod.armed = TRUE]
    BY <1>1 DEF Lerped
  <2>2. e = [[obj |-> o, mod |-> t.mod] EXCEPT !.mod.bak = Live(t), !.mod.armed = TRUE]
    BY <2>1, <1>4
  <2> QED BY <2>2, <1>2 DEF States, Windows
<1>6. o.mem = [t.obj.mem EXCEPT ![0] = x] /\ o.cur = 0 /\ o.tag = t.obj.tag
  BY <1>2, <1>3, FilledForm
<1>7. Live(e) = x
  BY <1>2, <1>5, <1>6 DEF Live, Objects, Cells
<1>8. [o.mem EXCEPT ![0] = Live(t)] = t.obj.mem
  BY <1>2, <1>6 DEF Live, Objects, Cells
<1>9. Put(e, Live(t)) = [obj |-> t.obj, mod |-> e.mod]
  <2>1. Put(e, Live(t)) = [obj |-> [o EXCEPT !.mem = [o.mem EXCEPT ![0] = Live(t)]], mod |-> e.mod]
    <3>1. e.obj.mem = o.mem /\ e.obj.cur = 0 /\ e = [obj |-> o, mod |-> e.mod]
      BY <1>5, <1>6
    <3> QED BY <3>1 DEF Put
  <2>2. [o EXCEPT !.mem = t.obj.mem] = t.obj
    BY <1>2, <1>3, FilledForm DEF Filled
  <2> QED BY <2>1, <2>2, <1>8
<1>10. PICK r : r = [[obj |-> t.obj, mod |-> e.mod] EXCEPT !.mod.armed = FALSE]
  OBVIOUS
<1>11. /\ e.mod.armed = TRUE /\ e.mod.bak = Live(t) /\ e.mod \in Windows
       /\ e.mod.known = t.mod.known /\ e.mod.tag = t.mod.tag /\ e.mod.curr = t.mod.curr
  <2>1. e.mod \in Windows
    BY <1>5, <1>2, WindowLook DEF States, Windows
  <2> QED BY <2>1, <1>5, SMT
<1>12. r = DrawReturn(e)
  BY <1>11, <1>10, <1>9 DEF DrawReturn
<1>13. r = [obj |-> t.obj, mod |-> [known |-> e.mod.known, tag |-> e.mod.tag,
                                   curr |-> e.mod.curr, bak |-> e.mod.bak, armed |-> FALSE]]
  BY <1>11, <1>10 DEF Windows
<1>14. r \in States(Windows)
  BY <1>2, <1>11, <1>13 DEF States, Windows
<1>15. r.obj = t.obj /\ r.mod.known = t.mod.known /\ ~r.mod.armed /\ r.mod.tag = t.mod.tag
       /\ r.mod.curr = t.mod.curr
  BY <1>11, <1>13, WindowFields, Zenon
<1> QED BY <1>1, <1>5, <1>6, <1>7, <1>12, <1>14, <1>15

\* What a window's draw shows, and what the mod knows after it.
LEMMA WindowDraw ==
  ASSUME NEW k \in WindowKinds, NEW t, WindowAt(t), NEW f \in Frames,
         t.mod.known /\ t.mod.tag # 0 => t.mod.curr \in Plains,
         NEW d, d = WindowDrawn(t, k, f)
  PROVE  /\ WindowAt(d.s) /\ d.s.obj = t.obj
         /\ ~f.split => d.s.mod = t.mod
         /\ \/ /\ d.drawn = IF t.obj.tag # 0 THEN Live(t) ELSE Nothing
               /\ \/ d.s.mod = t.mod /\ f.class # "L"
                  \/ ~f.split
                  \/ d.s.mod.tag = 0
                  \/ f.class = "L" /\ d.s.mod.curr = Live(t) /\ t.obj.tag # 0
            \/ /\ f.split /\ f.class = "R" /\ ~f.cut /\ t.mod.known /\ t.mod.tag # 0
               /\ k = "shadow" => ~Far(t.mod.curr, Live(t))
               /\ d.drawn = Mix(t.mod.curr, Live(t))
               /\ d.s.mod.known /\ d.s.mod.tag = t.mod.tag /\ d.s.mod.curr = t.mod.curr
<1> DEFINE h == IF t.mod.known \/ k = "shadow" THEN t
                ELSE [t EXCEPT !.mod.known = TRUE, !.mod.tag = 0, !.mod.armed = FALSE]
           e == IF k = "foliage" THEN FolEntry(t, f) ELSE ShdEntry(t, f)
<1>1. /\ d.s = DrawReturn(e)
      /\ d.drawn = IF e.obj.tag # 0 THEN Live(e) ELSE Nothing
  BY DEF WindowDrawn, Present
<1>2. /\ WindowAt(h) /\ h.obj = t.obj /\ Live(h) = Live(t) 
      /\ h = t \/ h.mod.tag = 0
  <2>1. CASE t.mod.known \/ k = "shadow"
    BY <2>1
  <2>2. CASE ~(t.mod.known \/ k = "shadow")
    <3>1. h = [t EXCEPT !.mod.known = TRUE, !.mod.tag = 0, !.mod.armed = FALSE]
      BY <2>2
    <3>3. h = [obj |-> t.obj, mod |-> [known |-> TRUE, tag |-> 0, curr |-> t.mod.curr,
                                       bak |-> t.mod.bak, armed |-> FALSE]]
      BY <3>1 DEF WindowAt, States, Windows
    <3>2. h \in States(Windows) /\ h.obj = t.obj /\ h.mod.tag = 0 /\ ~h.mod.armed
      <4> HIDE DEF h
      <4>1. h \in States(Windows)
        BY <3>3 DEF WindowAt, States, Windows
      <4> QED BY <4>1, <3>3, Zenon
    <3> QED BY <3>2 DEF WindowAt, Live
  <2> QED BY <2>1, <2>2
<1>3. \A u : WindowAt(u) => DrawReturn(u) = u
  BY DEF DrawReturn, WindowAt
<1>4. CASE ~f.split
  <2>1. e = t
    BY <1>4 DEF FolEntry, ShdEntry
  <2> QED BY <2>1, <1>1, <1>3, <1>4
<1>5. CASE f.split /\ f.class = "L"
  <2>1. e = Captured(h)
    BY <1>5 DEF FolEntry, ShdEntry, WindowKinds
  <2>2. WindowAt(e) /\ e.obj = t.obj /\ e.mod.tag = t.obj.tag /\ (t.obj.tag # 0 => e.mod.curr = Live(t))
    BY <2>1, <1>2, CapturedForm
  <2>3. Live(e) = Live(t)
    BY <2>2 DEF Live
  <2> HIDE DEF e
  <2> QED BY <2>2, <2>3, <1>1, <1>3, <1>5
<1>6. CASE f.split /\ f.class # "L" /\ e = h
  <2> HIDE DEF e, h
  <2> QED BY <1>1, <1>2, <1>3, <1>6
<1>7. CASE /\ f.split /\ f.class # "L" /\ e # h
  <2>1. /\ ~f.dup /\ ~f.cut /\ h.mod.known /\ Same(h) /\ (k = "shadow" => ~Far(h.mod.curr, Live(h)))
        /\ e = Lerped(h)
    BY <1>7 DEF FolEntry, ShdEntry, WindowKinds
  <2>2. h = t /\ t.mod.tag # 0 /\ t.mod.known /\ t.obj.tag # 0
    BY <2>1, <1>2 DEF Same, Present
  <2>3. t.mod.curr \in Values
    BY <2>2, PlainPair
  <2> HIDE DEF e, h
  <2>4. /\ Live(e) = Mix(t.mod.curr, Live(t)) /\ e.obj.tag = t.obj.tag
        /\ DrawReturn(e) \in States(Windows) /\ DrawReturn(e).obj = t.obj
        /\ DrawReturn(e).mod.known = t.mod.known /\ ~DrawReturn(e).mod.armed
        /\ DrawReturn(e).mod.tag = t.mod.tag /\ DrawReturn(e).mod.curr = t.mod.curr
    BY <2>1, <2>2, <2>3, LerpedForm
  <2>8. WindowAt(DrawReturn(e))
    BY <2>4 DEF WindowAt
  <2>5. f.class = "R"
    BY <1>7 DEF Frames
  <2> QED BY <2>1, <2>2, <2>4, <2>5, <2>8, <1>1, <1>7
<1> QED BY <1>4, <1>5, <1>6, <1>7

-----------------------------------------------------------------------------
(* A Painter, whatever the mechanism.                                      *)

\* A Painter step of any kind, and what it shows of a draw d.
Paints == PaintUnsplit \/ PaintEngage \/ PaintL \/ PaintR \/ PaintDup
Look(d, f) == IF (~Owned(d.s) \/ f.dup) /\ tracked # "fader" THEN Nothing ELSE d.drawn
\* What a draw d in a frame f leaves of the state.
Settles(d, f) ==
  /\ drawn' = Look(d, f)
  /\ shown' = IF f.class = "L" /\ Look(d, f) # Nothing THEN Look(d, f) ELSE shown
  /\ mod' = d.s.mod
  /\ obj'.mem = d.s.obj.mem /\ obj'.wrote = d.s.obj.wrote /\ obj'.cur = d.s.obj.cur
  /\ obj'.own = d.s.obj.own /\ obj'.tag = d.s.obj.tag /\ obj'.age = d.s.obj.age
  /\ obj'.new <=> d.s.obj.new /\ ~(f.class = "L" /\ Look(d, f) # Nothing)
  /\ obj' \in Objects

\* The frame: logic runs after an L frame only, and before any R frame has looked.
Turns ==
  /\ tracked \in Kinds /\ turn \in {"painter", "produce"}
  /\ splitMode \in BOOLEAN /\ frameClass \in {"L", "R"} /\ rDup \in BOOLEAN
  /\ camCut \in BOOLEAN /\ cut \in BOOLEAN /\ unseen \in BOOLEAN
  /\ looked \in BOOLEAN /\ again \in BOOLEAN
  /\ turn = "produce" => frameClass = "L" /\ ~looked

\* The object, shown or not.
LEMMA AgedForm ==
  ASSUME NEW o \in Objects, NEW p \in BOOLEAN, NEW e, e = [o EXCEPT !.new = p]
  PROVE  /\ e \in Objects /\ e.mem = o.mem /\ e.wrote = o.wrote /\ e.cur = o.cur
         /\ e.own = o.own /\ e.tag = o.tag /\ e.age = o.age /\ e.new = p
BY DEF Objects

\* A Painter settles one of its draws.
LEMMA PaintedForm ==
  ASSUME NEW f \in Frames, NEW b, Painted(f, b),
         \A e \in EntryOf(b, f) : \A d \in DrawOf(e, f) : d.s.obj \in Objects
  PROVE  /\ turn = "painter" /\ splitMode' = f.split /\ frameClass' = f.class /\ rDup' = f.dup
         /\ turn' = (IF f.class = "L" THEN "produce" ELSE "painter") /\ tracked' = tracked
         /\ \E e \in EntryOf(b, f) : \E d \in DrawOf(e, f) : Settles(d, f)
<1>0. PICK e \in EntryOf(b, f) : \E d \in DrawOf(e, f) :
        /\ drawn' = Look(d, f)
        /\ shown' = IF f.class = "L" /\ Look(d, f) # Nothing THEN Look(d, f) ELSE shown
        /\ obj' = [d.s.obj EXCEPT !.new = @ /\ ~(f.class = "L" /\ Look(d, f) # Nothing)]
        /\ mod' = d.s.mod
  BY Zenon DEF Painted, Look
<1>1. PICK d \in DrawOf(e, f) :
        /\ drawn' = Look(d, f)
        /\ shown' = IF f.class = "L" /\ Look(d, f) # Nothing THEN Look(d, f) ELSE shown
        /\ obj' = [d.s.obj EXCEPT !.new = @ /\ ~(f.class = "L" /\ Look(d, f) # Nothing)]
        /\ mod' = d.s.mod
  BY <1>0
<1>2. d.s.obj \in Objects
  BY <1>1
<1>3. PICK p \in BOOLEAN : p <=> d.s.obj.new /\ ~(f.class = "L" /\ Look(d, f) # Nothing)
  BY Zenon
<1>4. obj' = [d.s.obj EXCEPT !.new = p]
  BY <1>1, <1>3
<1>5. Settles(d, f)
  <2>1. PICK o : o = obj'
    OBVIOUS
  <2>2. /\ o \in Objects /\ o.mem = d.s.obj.mem /\ o.wrote = d.s.obj.wrote /\ o.cur = d.s.obj.cur
        /\ o.own = d.s.obj.own /\ o.tag = d.s.obj.tag /\ o.age = d.s.obj.age /\ o.new = p
    BY <1>2, <1>4, <2>1, AgedForm
  <2> QED BY <1>1, <1>3, <2>1, <2>2, Zenon DEF Settles
<1> QED BY <1>1, <1>5, Zenon DEF Painted

\* Every Painter is one in some frame, from the state the split's beginning or end leaves.
LEMMA PaintFrame ==
  ASSUME Turns, Paints
  PROVE  \E f \in Frames : \E b :
           /\ Painted(f, b) /\ b = IF f.split <=> splitMode THEN state ELSE ResetOf(state)
           /\ f.class = "R" => f.split /\ splitMode /\ (again' <=> again)
           /\ f.dup => f.class = "R"
           /\ f.class = "R" /\ f.dup => looked' = looked
           /\ f.class = "R" /\ ~f.dup =>
                 (cut' <=> f.cut) /\ (looked' <=> looked \/ ~(tracked \in PoseKinds /\ mod.tele))
           /\ f.class = "L" => ~looked' /\ (again' <=> f.split /\ ~(splitMode /\ looked))
           /\ camCut' \in BOOLEAN /\ cut' \in BOOLEAN /\ unseen' \in BOOLEAN
           /\ looked' \in BOOLEAN /\ again' \in BOOLEAN
<1>0. \A sp, cl, du, cu : Frame(sp, cl, du, cu) = [split |-> sp, class |-> cl, dup |-> du, cut |-> cu]
  BY DEF Frame
<1>1. CASE PaintUnsplit
  <2>1. Painted([split |-> FALSE, class |-> "L", dup |-> FALSE, cut |-> FALSE], IF splitMode THEN ResetOf(state) ELSE state)
    BY <1>0, <1>1 DEF PaintUnsplit
  <2> QED BY <2>1, <1>1 DEF PaintUnsplit, Frames, Turns
<1>2. CASE PaintEngage
  BY <1>2 DEF PaintEngage, Frames, Turns, Frame
<1>3. CASE PaintL
  BY <1>3 DEF PaintL, Frames, Turns, Frame
<1>4. CASE PaintR
  BY <1>4 DEF PaintR, Frames, Turns, Frame
<1>5. CASE PaintDup
  BY <1>5 DEF PaintDup, Frames, Turns, Frame
<1> QED BY <1>1, <1>2, <1>3, <1>4, <1>5 DEF Paints

-----------------------------------------------------------------------------
(* The packet windows: every step.                                         *)

\* The state's two records.
LEMMA StateForm ==
  ASSUME TRUE
  PROVE  /\ state.obj = obj /\ state.mod = mod
         /\ state'.obj = obj' /\ state'.mod = mod'
BY DEF state

\* The invariant of foliage and shadows: with the split off, no window is known.
WindowInv ==
  tracked \in WindowKinds =>
    /\ WindowAt(state) /\ WindowSeen(state, shown)
    /\ ~splitMode => ~mod.known

\* For a packet's window the entry hook does nothing and the draw does it all.
LEMMA WindowEntry ==
  ASSUME NEW b, NEW f \in Frames, tracked \in WindowKinds
  PROVE  /\ EntryOf(b, f) = {b}
         /\ \A d \in DrawOf(b, f) : \/ d = WindowDrawn(b, tracked, f)
                                    \/ f.class = "L" /\ d = [s |-> b, drawn |-> Nothing]
         /\ ResetOf(b) = WindowReset(b, tracked)
         /\ ProducedBy(b) = WindowProduced(b, tracked)
<1>1. tracked \in {"foliage", "shadow"}
  BY DEF WindowKinds
<1>2. LframeOf(b) = {b} /\ RframeOf(b, f.cut) = {b} /\ DupOf(b) = b /\ tracked \notin ClothKinds
  BY <1>1 DEF LframeOf, RframeOf, DupOf, PoseKinds, ClothKinds
<1>3. EntryOf(b, f) = {b}
  BY <1>2 DEF EntryOf
<1>4. \A d \in DrawOf(b, f) : \/ d = WindowDrawn(b, tracked, f)
                              \/ f.class = "L" /\ d = [s |-> b, drawn |-> Nothing]
  BY <1>1 DEF DrawOf, ClothKinds
<1>5. ResetOf(b) = WindowReset(b, tracked) /\ ProducedBy(b) = WindowProduced(b, tracked)
  BY <1>1 DEF ResetOf, ProducedBy, PoseKinds, ClothKinds
<1> QED BY <1>3, <1>4, <1>5

\* A reset forgets the packet.
LEMMA WindowResets ==
  ASSUME NEW k \in WindowKinds, NEW t, WindowAt(t)
  PROVE  /\ WindowAt(WindowReset(t, k)) /\ WindowReset(t, k).obj = t.obj
         /\ ~WindowReset(t, k).mod.known
<1>1. PICK r : r = WindowReset(t, k)
  OBVIOUS
<1>2. PICK g : g = IF k = "foliage" THEN 0 ELSE t.mod.tag
  OBVIOUS
<1>3. r = [t EXCEPT !.mod.known = FALSE, !.mod.armed = FALSE, !.mod.tag = g]
  BY <1>1, <1>2 DEF WindowReset, DrawReturn, WindowAt
<1>4. r = [obj |-> t.obj, mod |-> [known |-> FALSE, tag |-> g, curr |-> t.mod.curr,
                                   bak |-> t.mod.bak, armed |-> FALSE]]
  BY <1>3 DEF WindowAt, States, Windows
<1>5. r.obj = t.obj /\ ~r.mod.known /\ ~r.mod.armed
  BY <1>4, WindowFields, Zenon
<1>6. r \in States(Windows)
  BY <1>2, <1>4 DEF WindowAt, States, Windows
<1> QED BY <1>1, <1>5, <1>6 DEF WindowAt

\* Every Painter keeps the invariant of the windows, and the promises.
LEMMA WindowPaint ==
  ASSUME Turns, WindowInv, tracked \in WindowKinds, shown \in Plains \cup {Nothing, Plain(Alien)},
         Paints
  PROVE  /\ obj' \in Objects /\ mod' \in Windows
         /\ drawn' \in Values \cup {Nothing, Plain(Alien)}
         /\ shown' \in Plains \cup {Nothing, Plain(Alien)}
         /\ WindowInv' /\ LogicSeesTruth' /\ ForeignUntouched' /\ RFrameInterpolates'
<1> DEFINE k == tracked
<1>1. PICK f \in Frames : \E b :
           /\ Painted(f, b) /\ b = IF f.split <=> splitMode THEN state ELSE ResetOf(state)
           /\ f.class = "R" /\ ~f.dup => (cut' <=> f.cut)
           /\ f.class = "R" => splitMode
           /\ f.dup => f.class = "R"
  BY PaintFrame
<1>2. PICK b : 
           /\ Painted(f, b) /\ b = IF f.split <=> splitMode THEN state ELSE ResetOf(state)
           /\ f.class = "R" /\ ~f.dup => (cut' <=> f.cut)
           /\ f.class = "R" => splitMode
           /\ f.dup => f.class = "R"
  BY <1>1
<1>3. /\ WindowAt(b) /\ b.obj = obj
      /\ ~b.mod.known \/ (b = state /\ (f.split <=> splitMode))
  <2>1. CASE f.split <=> splitMode
    BY <2>1, <1>2, StateForm DEF WindowInv
  <2>2. CASE ~(f.split <=> splitMode)
    <3>1. b = WindowReset(state, tracked)
      BY <2>2, <1>2, WindowEntry
    <3> QED BY <3>1, StateForm, WindowResets DEF WindowInv
  <2> QED BY <2>1, <2>2
<1>4. ~f.split => ~b.mod.known
  BY <1>2, <1>3, StateForm, Zenon DEF WindowInv
<1>5. WindowSeen(b, shown)
  BY <1>3 DEF WindowInv, WindowSeen
<1>6. \A d \in DrawOf(b, f) : WindowAt(d.s) /\ d.s.obj = obj
  BY <1>3, <1>5, WindowEntry, WindowDraw DEF WindowSeen
<1>7. \A e \in EntryOf(b, f) : \A d \in DrawOf(e, f) : d.s.obj \in Objects
  BY <1>6, WindowEntry DEF WindowAt, States
<1>8. /\ turn = "painter" /\ splitMode' = f.split /\ frameClass' = f.class /\ rDup' = f.dup
      /\ turn' = (IF f.class = "L" THEN "produce" ELSE "painter") /\ tracked' = tracked
      /\ \E e \in EntryOf(b, f) : \E d \in DrawOf(e, f) : Settles(d, f)
  BY <1>2, <1>7, PaintedForm
<1>9. PICK d \in DrawOf(b, f) : Settles(d, f)
  BY <1>8, WindowEntry
<1>10. /\ obj'.mem = obj.mem /\ obj'.wrote = obj.wrote /\ obj'.cur = 0 /\ obj'.own = "object"
       /\ obj' \in Objects /\ mod' = d.s.mod
  BY <1>9, <1>6, <1>3 DEF Settles, WindowAt
<1>11. state' \in States(Windows) /\ state'.obj = obj' /\ state'.mod = mod'
  BY <1>10, <1>6, StateForm DEF States, WindowAt, state
<1>12. WindowAt(state')
  BY <1>11, <1>10, <1>6, <1>3 DEF WindowAt
<1>13. Live(b) = obj.mem[0] /\ Live(b) \in Plains /\ Live(b) # Nothing /\ LastMade' = Live(b)
       /\ Live(state') = Live(b)
  <2>1. Live(b) = obj.mem[0] /\ Live(b) \in Plains /\ Live(b) # Nothing
    BY <1>3, WindowLook
  <2>2. LastMade' = obj'.wrote[0]
    BY <1>10, <1>11, <1>8 DEF LastMade, ClothKinds, WindowKinds, Truth
  <2> QED BY <2>1, <2>2, <1>10, <1>11, <1>3 DEF Live, WindowAt
<1>14. /\ WindowAt(d.s) /\ d.s.obj = b.obj
       /\ ~f.split => d.s.mod = b.mod
       /\ \/ /\ d.drawn = Nothing \/ d.drawn = Live(b)
             /\ \/ d.s.mod = b.mod /\ (f.class = "L" => d.drawn = Nothing)
                \/ ~f.split
                \/ d.s.mod.tag = 0
                \/ f.class = "L" /\ d.s.mod.curr = Live(b) /\ d.drawn = Live(b)
          \/ /\ f.split /\ f.class = "R" /\ ~f.cut /\ b.mod.known /\ b.mod.tag # 0
             /\ tracked = "shadow" => ~Far(b.mod.curr, Live(b))
             /\ d.drawn = Mix(b.mod.curr, Live(b))
             /\ d.s.mod.known /\ d.s.mod.tag = b.mod.tag /\ d.s.mod.curr = b.mod.curr
  <2>1. CASE d = [s |-> b, drawn |-> Nothing]
    BY <2>1, <1>3
  <2>2. CASE d = WindowDrawn(b, tracked, f)
    <3>1. b.mod.known /\ b.mod.tag # 0 => b.mod.curr \in Plains
      BY <1>5 DEF WindowSeen
    <3> QED BY <2>2, <3>1, <1>3, WindowDraw
  <2> QED BY <2>1, <2>2, <1>9, WindowEntry
<1>15. /\ drawn' = IF f.dup THEN Nothing ELSE d.drawn
       /\ shown' = IF f.class = "L" /\ drawn' # Nothing THEN drawn' ELSE shown
       /\ obj'.new <=> obj.new /\ ~(f.class = "L" /\ drawn' # Nothing)
  <2>1. Owned(d.s) /\ tracked # "fader" /\ d.s.obj = obj
    BY <1>14, <1>3 DEF WindowAt, Owned, WindowKinds
  <2>2. Look(d, f) = IF f.dup THEN Nothing ELSE d.drawn
    BY <2>1 DEF Look
  <2> QED BY <1>9, <2>1, <2>2, Zenon DEF Settles
<1>16. b.mod.known /\ b.mod.tag # 0 => b.mod.curr = shown /\ shown \in Plains /\ ~obj.new
  BY <1>5, <1>3 DEF WindowSeen
<1>17. f.class = "L" => drawn' \in {Nothing, Live(b)}
  BY <1>14, <1>15
<1>18. drawn' # Nothing /\ drawn' # Live(b) =>
         /\ f.split /\ f.class = "R" /\ ~f.cut /\ b.mod.known /\ b.mod.tag # 0 /\ ~f.dup
         /\ tracked = "shadow" => ~Far(b.mod.curr, Live(b))
         /\ drawn' = Mix(b.mod.curr, Live(b))
  BY <1>14, <1>15
<1>20. /\ drawn' \in Values \cup {Nothing, Plain(Alien)}
       /\ shown' \in Plains \cup {Nothing, Plain(Alien)}
  BY <1>13, <1>15, <1>16, <1>17, <1>18, PlainPair, MixPair
<1>21. WindowSeen(state', shown')
  <2>1. SUFFICES ASSUME d.s.mod.known, d.s.mod.tag # 0
                 PROVE  d.s.mod.curr = shown' /\ shown' \in Plains /\ ~obj'.new
    BY <1>10, <1>11 DEF WindowSeen
  <2>2. CASE f.split /\ f.class = "L" /\ d.s.mod.curr = Live(b) /\ d.drawn = Live(b)
    BY <2>2, <1>2, <1>13, <1>15
  <2>3. CASE d.s.mod = b.mod /\ (f.class = "L" => d.drawn = Nothing)
    BY <2>1, <2>3, <1>15, <1>16
  <2>4. CASE f.class = "R" /\ b.mod.known /\ d.s.mod.tag = b.mod.tag /\ d.s.mod.curr = b.mod.curr
    BY <2>1, <2>4, <1>15, <1>16
  <2> QED BY <2>1, <2>2, <2>3, <2>4, <1>14, <1>4
<1>22. ~splitMode' => ~mod'.known
  BY <1>4, <1>8, <1>10, <1>14, Zenon
<1>23. WindowInv'
  BY <1>12, <1>21, <1>22, <1>11 DEF WindowInv
<1>24. LogicSeesTruth'
  <2>1. turn' = "produce" => f.class = "L"
    BY <1>8
  <2>2. obj'.mem = obj'.wrote
    BY <1>10, <1>3 DEF WindowAt
  <2> QED BY <2>1, <2>2, <1>13, <1>17 DEF LogicSeesTruth
<1>25. ForeignUntouched'
  BY <1>10, <1>11 DEF ForeignUntouched, Owned
<1>26. RFrameInterpolates'
  <2>1. SUFFICES ASSUME f.class = "R", ~f.dup, drawn' # Nothing, drawn' # LastMade'
                 PROVE  Between(drawn)' /\ ~cut'
    BY <1>8 DEF RFrameInterpolates, WindowKinds
  <2> QED BY <2>1, <1>2, <1>8, <1>13, <1>15, <1>16, <1>18, PlainPair DEF Between, WindowKinds
<1> QED BY <1>10, <1>11, <1>20, <1>23, <1>24, <1>25, <1>26 DEF States

-----------------------------------------------------------------------------
(* A Painter of the mechanisms that follow.                                *)

\* The frames the pacing produces, and the state each begins from.
Playable(f) ==
  /\ f \in Frames /\ (f.dup => f.class = "R")
  /\ f.class = "R" => f.split /\ splitMode

Begun(f) == IF f.split <=> splitMode THEN state ELSE ResetOf(state)

\* What a Painter in a frame f makes of the pacing.
PacedBy(f) ==
  /\ turn = "painter" /\ splitMode' = f.split /\ frameClass' = f.class /\ rDup' = f.dup
  /\ turn' = (IF f.class = "L" THEN "produce" ELSE "painter") /\ tracked' = tracked
  /\ f.class = "R" => (again' <=> again)
  /\ f.dup => looked' = looked
  /\ f.class = "R" /\ ~f.dup =>
        (cut' <=> f.cut) /\ (looked' <=> looked \/ ~(tracked \in PoseKinds /\ mod.tele))
  /\ f.class = "L" => ~looked' /\ (again' <=> f.split /\ ~(splitMode /\ looked))

\* A Painter, for any mechanism: a frame, its entry, its draw, and what they leave.
LEMMA PaintStep ==
  ASSUME Turns, Paints, NEW M,
         \A f : Playable(f) =>
           \A e \in EntryOf(Begun(f), f) : \A d \in DrawOf(e, f) : d.s \in States(M)
  PROVE  \E f : \E e \in EntryOf(Begun(f), f) : \E d \in DrawOf(e, f) :
           /\ Playable(f) /\ PacedBy(f) /\ Settles(d, f) /\ Turns'
           /\ state' \in States(M) /\ state'.obj = obj' /\ state'.mod = mod'
           /\ Live(state') = Live(d.s) /\ Truth(state') = Truth(d.s)
           /\ Owned(state') <=> Owned(d.s)
<1>1. PICK f \in Frames : \E b :
           /\ Painted(f, b) /\ b = IF f.split <=> splitMode THEN state ELSE ResetOf(state)
           /\ f.class = "R" => f.split /\ splitMode /\ (again' <=> again)
           /\ f.dup => f.class = "R"
           /\ f.class = "R" /\ f.dup => looked' = looked
           /\ f.class = "R" /\ ~f.dup =>
                 (cut' <=> f.cut) /\ (looked' <=> looked \/ ~(tracked \in PoseKinds /\ mod.tele))
           /\ f.class = "L" => ~looked' /\ (again' <=> f.split /\ ~(splitMode /\ looked))
           /\ camCut' \in BOOLEAN /\ cut' \in BOOLEAN /\ unseen' \in BOOLEAN
           /\ looked' \in BOOLEAN /\ again' \in BOOLEAN
  BY PaintFrame
<1>2. Playable(f) /\ Painted(f, Begun(f))
  BY <1>1 DEF Playable, Begun
<1>3. \A e \in EntryOf(Begun(f), f) : \A d \in DrawOf(e, f) : d.s \in States(M)
  BY <1>2
<1>4. \A e \in EntryOf(Begun(f), f) : \A d \in DrawOf(e, f) : d.s.obj \in Objects
  BY <1>3 DEF States
<1>5. /\ turn = "painter" /\ splitMode' = f.split /\ frameClass' = f.class /\ rDup' = f.dup
      /\ turn' = (IF f.class = "L" THEN "produce" ELSE "painter") /\ tracked' = tracked
      /\ \E e \in EntryOf(Begun(f), f) : \E d \in DrawOf(e, f) : Settles(d, f)
  BY <1>2, <1>4, PaintedForm
<1>6. PICK e \in EntryOf(Begun(f), f) : \E d \in DrawOf(e, f) : Settles(d, f)
  BY <1>5
<1>7. PICK d \in DrawOf(e, f) : Settles(d, f)
  BY <1>6
<1>8. PacedBy(f)
  BY <1>1, <1>5, Zenon DEF PacedBy
<1>9. Turns'
  BY <1>1, <1>5 DEF Turns, Frames
<1>10. /\ mod' = d.s.mod /\ obj' \in Objects /\ obj'.mem = d.s.obj.mem /\ obj'.wrote = d.s.obj.wrote
       /\ obj'.cur = d.s.obj.cur /\ obj'.own = d.s.obj.own /\ d.s.mod \in M
  <2>1. d.s.mod \in M
    BY <1>3 DEF States
  <2> QED BY <2>1, <1>7 DEF Settles
<1>11. state' \in States(M) /\ state'.obj = obj' /\ state'.mod = mod'
  BY <1>10 DEF States, state
<1>12. /\ Live(state') = Live(d.s) /\ Truth(state') = Truth(d.s)
       /\ Owned(state') <=> Owned(d.s)
  BY <1>10, <1>11 DEF Live, Truth, Owned
<1> QED BY <1>2, <1>7, <1>8, <1>9, <1>11, <1>12, Zenon

-----------------------------------------------------------------------------
(* The steppers, pre and post, and a production of any mechanism.          *)

\* Outside a draw what Painter advances is as the game left it, without a snapshot.
StepperKinds == {"pre", "post"}
NoSnap == [snap |-> Nothing, tag |-> 0]
StepperAt(t) ==
  /\ t \in States(Snapshots)
  /\ t.obj.own = "object" /\ t.obj.cur = 0 /\ t.obj.mem = t.obj.wrote
  /\ t.obj.mem[0] \in Plains /\ t.mod = NoSnap
StepperInv == tracked \in StepperKinds => StepperAt(state)

\* A state is its two records.
LEMMA StateEqual ==
  ASSUME NEW M, NEW t \in States(M)
  PROVE  t = [obj |-> t.obj, mod |-> t.mod]
BY DEF States

\* Writing the cell in use of a filled object.
LEMMA PutOn ==
  ASSUME NEW o \in Objects, NEW m, NEW md, NEW x
  PROVE  Put([obj |-> Filled(o, m), mod |-> md], x) =
           [obj |-> Filled(o, [m EXCEPT ![o.cur] = x]), mod |-> md]
<1>1. PICK p : p = Filled(o, m)
  OBVIOUS
<1>2. p.mem = m /\ p.cur = o.cur /\ \A n : Filled(p, n) = Filled(o, n)
  BY <1>1, FilledForm
<1>3. PICK n : n = [m EXCEPT ![o.cur] = x]
  OBVIOUS
<1>4. Put([obj |-> p, mod |-> md], x) = [obj |-> [p EXCEPT !.mem = n], mod |-> md]
  BY <1>2, <1>3 DEF Put
<1>5. [p EXCEPT !.mem = n] = Filled(o, n)
  BY <1>2 DEF Filled
<1> QED BY <1>1, <1>3, <1>4, <1>5

\* For a stepper the entry hook does nothing, and there is nothing to reset.
LEMMA StepperEntry ==
  ASSUME NEW b, NEW f \in Frames, tracked \in StepperKinds
  PROVE  /\ EntryOf(b, f) = {b} /\ DrawOf(b, f) = StepperDrawn(b, tracked, f)
         /\ ResetOf(b) = b /\ ProducedBy(b) = StepperProduced(b)
<1>1. tracked \in {"pre", "post"}
  BY DEF StepperKinds
<1>2. LframeOf(b) = {b} /\ RframeOf(b, f.cut) = {b} /\ DupOf(b) = b /\ tracked \notin ClothKinds
  BY <1>1 DEF LframeOf, RframeOf, DupOf, PoseKinds, ClothKinds
<1>3. EntryOf(b, f) = {b}
  BY <1>2 DEF EntryOf
<1>4. DrawOf(b, f) = StepperDrawn(b, tracked, f)
  BY <1>1 DEF DrawOf, ClothKinds
<1>5. ResetOf(b) = b /\ ProducedBy(b) = StepperProduced(b)
  BY <1>1 DEF ResetOf, ProducedBy, PoseKinds, ClothKinds
<1> QED BY <1>3, <1>4, <1>5

\* Another tag of the object.
LEMMA TagForm ==
  ASSUME NEW M, NEW t \in States(M), NEW g \in 0..2, NEW r, r = [t EXCEPT !.obj.tag = g]
  PROVE  /\ r \in States(M) /\ r.mod = t.mod /\ r.obj.mem = t.obj.mem /\ r.obj.wrote = t.obj.wrote
         /\ r.obj.cur = t.obj.cur /\ r.obj.own = t.obj.own /\ r.obj.tag = g
         /\ r.obj.age = t.obj.age /\ (r.obj.new = t.obj.new)
<1>1. PICK o : o = [t.obj EXCEPT !.tag = g]
  OBVIOUS
<1>2. r = [obj |-> o, mod |-> t.mod]
  BY <1>1 DEF States
<1>3. /\ o \in Objects /\ o.mem = t.obj.mem /\ o.wrote = t.obj.wrote
      /\ o.cur = t.obj.cur /\ o.own = t.obj.own /\ o.tag = g
      /\ o.age = t.obj.age /\ (o.new = t.obj.new)
  BY <1>1 DEF States, Objects
<1> QED BY <1>2, <1>3 DEF States

\* The state with another object.
LEMMA ObjectForm ==
  ASSUME NEW M, NEW t \in States(M), NEW o, NEW r, r = [t EXCEPT !.obj = o]
  PROVE  r = [obj |-> o, mod |-> t.mod] /\ r.obj = o /\ r.mod = t.mod
BY DEF States

\* The state with another record.
LEMMA ModForm ==
  ASSUME NEW M, NEW t \in States(M), NEW h, NEW r, r = [t EXCEPT !.mod = h]
  PROVE  r = [obj |-> t.obj, mod |-> h] /\ r.obj = t.obj /\ r.mod = h
BY DEF States

\* An advance of a plain look is plain.
LEMMA AdvancedPlain ==
  ASSUME NEW x \in Plains
  PROVE  Advanced(x) \in Plains /\ Advanced(Stepped(x)) = x
BY StepAssumption DEF Advanced, Stepped, Plains, Plain

\* The game's own frames: the body's advance is the truth.
LEMMA StepperTrueBody ==
  ASSUME NEW M, NEW t \in States(M), t.obj.cur = 0, t.obj.own = "object",
         t.obj.mem = t.obj.wrote, t.obj.mem[0] \in Plains,
         NEW b, b = TrueBody(t), NEW e \in Ended(b)
  PROVE  /\ e \in States(M) /\ e.mod = t.mod /\ e.obj.cur = 0 /\ e.obj.own = "object"
         /\ e.obj.mem = e.obj.wrote /\ e.obj.mem[0] \in Plains
         /\ Shows(b) \in {Nothing, e.obj.wrote[0]}
         /\ b \in States(M) /\ b.obj.cur = 0 /\ b.obj.mem = b.obj.wrote /\ b.obj.mem[0] = e.obj.mem[0]
<1>1. t.obj \in Objects /\ t.obj.mem[0] \in Stored /\ Live(t) = t.obj.mem[0]
  BY PlainPair DEF States, Live
<1>2. /\ b \in States(M) /\ b.mod = t.mod /\ b.obj.cur = 0 /\ b.obj.own = "object"
      /\ b.obj.mem = b.obj.wrote /\ b.obj.mem[0] \in Plains
  <2>1. CASE b = t
    BY <2>1
  <2>2. CASE b # t
    <3>1. PICK x : x = Advanced(Live(t))
      OBVIOUS
    <3>2. b = [t EXCEPT !.obj = Wrote(t.obj, 0, x)]
      BY <2>2, <3>1 DEF TrueBody
    <3>3. x \in Plains /\ x \in Stored
      BY <3>1, <1>1, AdvancedPlain, PlainPair
    <3>4. b.obj = Wrote(t.obj, 0, x) /\ b.mod = t.mod /\ b = [obj |-> Wrote(t.obj, 0, x), mod |-> t.mod]
      BY <3>2, ObjectForm
    <3>5. /\ Wrote(t.obj, 0, x) \in Objects
          /\ Wrote(t.obj, 0, x).mem = [t.obj.mem EXCEPT ![0] = x]
          /\ Wrote(t.obj, 0, x).wrote = [t.obj.wrote EXCEPT ![0] = x]
          /\ Wrote(t.obj, 0, x).cur = 0
          /\ Wrote(t.obj, 0, x).own = t.obj.own
      BY <1>1, <3>3, WroteForm DEF Cells
    <3>6. b \in States(M)
      BY <3>4, <3>5 DEF States
    <3>7. [t.obj.mem EXCEPT ![0] = x][0] = x
      BY <1>1 DEF Objects, Cells
    <3>8. PICK q : q = b.obj
      OBVIOUS
    <3>9. /\ q.mem = [t.obj.mem EXCEPT ![0] = x] /\ q.wrote = [t.obj.wrote EXCEPT ![0] = x]
          /\ q.cur = 0 /\ q.own = t.obj.own
      BY <3>4, <3>5, <3>8
    <3> QED BY <3>3, <3>4, <3>6, <3>7, <3>8, <3>9
  <2> QED BY <2>1, <2>2
<1>3. CASE e = b
  BY <1>2, <1>3 DEF Shows, Live
<1>4. CASE e = [b EXCEPT !.obj.tag = 0]
  <2>1. /\ e \in States(M) /\ e.mod = b.mod /\ e.obj.mem = b.obj.mem /\ e.obj.wrote = b.obj.wrote
        /\ e.obj.cur = b.obj.cur /\ e.obj.own = b.obj.own
    BY <1>4, <1>2, TagForm
  <2> QED BY <1>2, <2>1 DEF Shows, Live
<1> QED BY <1>3, <1>4 DEF Ended

\* An R frame's body, between the hooks: what it shows, and that nothing is left.
LEMMA StepperBody ==
  ASSUME NEW k \in StepperKinds, NEW t, StepperAt(t), NEW b, b = Body(StepEntry(t, k)),
         NEW e \in Ended(b)
  PROVE  /\ StepReturn(e) = t
         /\ Shows(b) = IF ~Active(t) THEN Nothing
                       ELSE IF k = "pre" THEN Live(t) ELSE Advanced(Live(t))
<1> DEFINE o == t.obj
           x == o.mem[0]
           n == [snap |-> x, tag |-> o.tag]
<1>1. o \in Objects /\ o.cur = 0 /\ x \in Plains /\ Live(t) = x /\ t \in States(Snapshots)
  BY DEF StepperAt, States, Live
<1>2. PICK w : w = IF k = "pre" /\ Active(t) THEN Stepped(x) ELSE x
  OBVIOUS
<1>3. PICK y : y = IF ~Active(t) THEN x ELSE IF k = "pre" THEN x ELSE Advanced(x)
  OBVIOUS
<1>4. \A m, z : [[m EXCEPT ![0] = w] EXCEPT ![0] = z] = [m EXCEPT ![0] = z]
  OBVIOUS
<1>5. o.mem \in [Cells -> Stored] /\ [o.mem EXCEPT ![0] = x] = o.mem
  BY <1>1 DEF Objects, Cells
<1>6. t = [obj |-> Filled(o, o.mem), mod |-> t.mod]
  BY <1>1, StateEqual, FilledForm
<1>7. Snapped(t) = [obj |-> Filled(o, o.mem), mod |-> n]
  <2>1. Snapped(t) = [t EXCEPT !.mod = n]
    BY <1>1 DEF Snapped
  <2>2. Snapped(t) = [obj |-> o, mod |-> n]
    BY <2>1, <1>1, ModForm
  <2> QED BY <2>2, <1>1, FilledForm
<1>8. StepEntry(t, k) = [obj |-> Filled(o, [o.mem EXCEPT ![0] = w]), mod |-> n]
  <2>1. CASE k = "pre" /\ Active(t)
    <3>1. StepEntry(t, k) = Put(Snapped(t), w)
      BY <2>1, <1>1, <1>2 DEF StepEntry
    <3> QED BY <3>1, <1>7, <1>1, PutOn
  <2>2. CASE ~(k = "pre" /\ Active(t))
    BY <2>2, <1>2, <1>5, <1>7 DEF StepEntry
  <2> QED BY <2>1, <2>2
<1>9. PICK s : s = StepEntry(t, k)
  OBVIOUS
<1>10. /\ s.obj.tag = o.tag /\ Live(s) = w /\ s.mod = n
  <2>1. s = [obj |-> Filled(o, [o.mem EXCEPT ![0] = w]), mod |-> n]
    BY <1>8, <1>9
  <2>2. s.obj = Filled(o, [o.mem EXCEPT ![0] = w]) /\ s.mod = n
    BY <2>1
  <2>3. s.obj.mem = [o.mem EXCEPT ![0] = w] /\ s.obj.cur = 0 /\ s.obj.tag = o.tag
    BY <2>2, <1>1, FilledForm
  <2> QED BY <2>2, <2>3, <1>5 DEF Live, Cells
<1>11. b = [obj |-> Filled(o, [o.mem EXCEPT ![0] = y]), mod |-> n]
  <2>1. CASE Active(t)
    <3>1. Active(s)
      BY <2>1, <1>10 DEF Active
    <3>2. y = Advanced(w)
      BY <2>1, <1>1, <1>2, <1>3, AdvancedPlain DEF StepperKinds
    <3>3. b = Put(s, y)
      BY <3>1, <3>2, <1>9, <1>10 DEF Body
    <3>4. b = [obj |-> Filled(o, [[o.mem EXCEPT ![0] = w] EXCEPT ![0] = y]), mod |-> n]
      BY <3>3, <1>8, <1>9, <1>1, PutOn
    <3> QED BY <3>4, <1>4
  <2>2. CASE ~Active(t)
    BY <2>2, <1>2, <1>3, <1>8, <1>9, <1>10 DEF Body, Active
  <2> QED BY <2>1, <2>2
<1>12. b.obj = Filled(o, [o.mem EXCEPT ![0] = y]) /\ b.mod = n
  BY <1>11
<1>13. /\ b.obj.mem = [o.mem EXCEPT ![0] = y] /\ b.obj.cur = 0 /\ b.obj.tag = o.tag
       /\ b.obj.wrote = o.wrote /\ b.obj.own = o.own /\ b.obj.age = o.age /\ b.obj.new = o.new
  BY <1>12, <1>1, FilledForm
<1>14. Live(b) = y
  BY <1>13, <1>5 DEF Live, Cells
<1>15. Shows(b) = IF ~Active(t) THEN Nothing
                  ELSE IF k = "pre" THEN Live(t) ELSE Advanced(Live(t))
  BY <1>1, <1>3, <1>13, <1>14 DEF Shows, Active
<1>16. StepReturn(e) = t
  <2>1. PICK g : e = [obj |-> [Filled(o, [o.mem EXCEPT ![0] = y]) EXCEPT !.tag = g], mod |-> n]
    <3>1. PICK q : q = Filled(o, [o.mem EXCEPT ![0] = y])
      OBVIOUS
    <3>2. q = [q EXCEPT !.tag = o.tag]
      <4>1. q = [mem |-> [o.mem EXCEPT ![0] = y], wrote |-> o.wrote, cur |-> o.cur, own |-> o.own,
                 tag |-> o.tag, age |-> o.age, new |-> o.new]
        BY <3>1, <1>1 DEF Filled, Objects
      <4> QED BY <4>1
    <3>3. b = [obj |-> q, mod |-> n]
      BY <3>1, <1>11
    <3>4. CASE e = b
      BY <3>1, <3>2, <3>3, <3>4
    <3>5. CASE e = [b EXCEPT !.obj.tag = 0]
      <4>1. e = [obj |-> [q EXCEPT !.tag = 0], mod |-> n]
        BY <3>5, <3>3
      <4> QED BY <4>1, <3>1
    <3> QED BY <3>4, <3>5 DEF Ended
  <2>2. PICK q : q = [Filled(o, [o.mem EXCEPT ![0] = y]) EXCEPT !.tag = g]
    OBVIOUS
  <2>3. q = [mem |-> [o.mem EXCEPT ![0] = y], wrote |-> o.wrote, cur |-> o.cur, own |-> o.own,
             tag |-> g, age |-> o.age, new |-> o.new]
    BY <2>2, <1>1 DEF Filled, Objects
  <2>4. e.mod.snap = x /\ e.mod.tag = o.tag /\ e.obj = q
    BY <2>1, <2>2
  <2>5. x # Nothing
    BY <1>1, PlainPair
  <2>6. PICK p : p = Put(e, x)
    OBVIOUS
  <2>7. StepReturn(e) = [p EXCEPT !.obj.tag = o.tag, !.mod = NoSnap]
    BY <2>4, <2>5, <2>6 DEF StepReturn, NoSnap
  <2>8. [[o.mem EXCEPT ![0] = y] EXCEPT ![0] = x] = o.mem
    BY <1>5 DEF Cells
  <2>9. p = [obj |-> [mem |-> o.mem, wrote |-> o.wrote, cur |-> o.cur, own |-> o.own,
             tag |-> g, age |-> o.age, new |-> o.new], mod |-> n]
    <3>1. q.mem = [o.mem EXCEPT ![0] = y] /\ q.cur = 0
      BY <2>3, <1>1
    <3>2. p = [obj |-> [q EXCEPT !.mem = [q.mem EXCEPT ![0] = x]], mod |-> n]
      <4>1. e = [obj |-> q, mod |-> n]
        BY <2>1, <2>2
      <4> QED BY <4>1, <2>6, <3>1 DEF Put
    <3>3. p = [obj |-> [q EXCEPT !.mem = o.mem], mod |-> n]
      BY <3>1, <3>2, <2>8
    <3> QED BY <3>3, <2>3
  <2>10. StepReturn(e) = [obj |-> [mem |-> o.mem, wrote |-> o.wrote, cur |-> o.cur, own |-> o.own,
             tag |-> o.tag, age |-> o.age, new |-> o.new], mod |-> NoSnap]
    BY <2>7, <2>9
  <2>11. o = [mem |-> o.mem, wrote |-> o.wrote, cur |-> o.cur, own |-> o.own,
             tag |-> o.tag, age |-> o.age, new |-> o.new]
    BY <1>1 DEF Objects
  <2>12. t = [obj |-> o, mod |-> NoSnap]
    BY <1>1, StateEqual DEF StepperAt
  <2> QED BY <2>10, <2>11, <2>12
<1> QED BY <1>15, <1>16

\* A stepper's draw leaves production's state, on every frame.
LEMMA StepperDraw ==
  ASSUME NEW k \in StepperKinds, NEW t, StepperAt(t), NEW f \in Frames, f.class = "R" => f.split,
         NEW d \in StepperDrawn(t, k, f)
  PROVE  /\ StepperAt(d.s)
         /\ f.class = "L" => d.drawn \in {Nothing, d.s.obj.wrote[0]}
         /\ f.class = "R" =>
              /\ d.s = t
              /\ d.drawn \in {Nothing, IF k = "pre" THEN Live(t) ELSE Advanced(Live(t))}
<1>1. CASE f.class = "R" /\ f.dup
  <2>1. d = [s |-> t, drawn |-> Nothing]
    BY <1>1 DEF StepperDrawn
  <2> QED BY <2>1, <1>1
<1>2. CASE f.class = "R" /\ ~f.dup
  <2>1. PICK b : b = Body(StepEntry(t, k))
    OBVIOUS
  <2>2. PICK e \in Ended(b) : d = [s |-> StepReturn(e), drawn |-> Shows(b)]
    BY <1>2, <2>1 DEF StepperDrawn
  <2>3. /\ StepReturn(e) = t
        /\ Shows(b) = IF ~Active(t) THEN Nothing
                      ELSE IF k = "pre" THEN Live(t) ELSE Advanced(Live(t))
    BY <2>1, <2>2, StepperBody
  <2> QED BY <2>2, <2>3, <1>2
<1>3. CASE f.class = "L"
  <2>1. PICK b : b = TrueBody(t)
    OBVIOUS
  <2>2. PICK e \in Ended(b) : d = [s |-> StepReturn(e), drawn |-> Shows(b)]
    BY <1>3, <2>1 DEF StepperDrawn
  <2>3. /\ e \in States(Snapshots) /\ e.mod = t.mod /\ e.obj.cur = 0 /\ e.obj.own = "object"
        /\ e.obj.mem = e.obj.wrote /\ e.obj.mem[0] \in Plains
        /\ Shows(b) \in {Nothing, e.obj.wrote[0]}
    BY <2>1, <2>2, StepperTrueBody DEF StepperAt
  <2>4. e.mod.snap = Nothing /\ StepReturn(e) = e
    BY <2>3 DEF StepperAt, NoSnap, StepReturn
  <2> QED BY <2>2, <2>3, <2>4, <1>3 DEF StepperAt
<1> QED BY <1>1, <1>2, <1>3 DEF Frames

\* Every Painter keeps the invariant of the steppers, and the promises.
LEMMA StepperPaint ==
  ASSUME Turns, StepperInv, tracked \in StepperKinds, shown \in Plains \cup {Nothing, Plain(Alien)},
         Paints
  PROVE  /\ obj' \in Objects /\ mod' \in Snapshots
         /\ drawn' \in Values \cup {Nothing, Plain(Alien)}
         /\ shown' \in Plains \cup {Nothing, Plain(Alien)}
         /\ StepperInv' /\ LogicSeesTruth' /\ ForeignUntouched' /\ RFrameInterpolates'
<1>1. StepperAt(state) /\ tracked # "fader" /\ tracked \notin ClothKinds /\ tracked \in {"pre", "post"}
  BY DEF StepperInv, StepperKinds, ClothKinds
<1>2. \A f : Playable(f) => /\ EntryOf(Begun(f), f) = {state}
                            /\ DrawOf(state, f) = StepperDrawn(state, tracked, f)
                            /\ f \in Frames /\ (f.class = "R" => f.split)
  BY StepperEntry DEF Begun, Playable
<1>3. \A f : Playable(f) =>
        \A e \in EntryOf(Begun(f), f) : \A d \in DrawOf(e, f) : d.s \in States(Snapshots)
  <2>1. SUFFICES ASSUME NEW f, Playable(f), NEW d \in StepperDrawn(state, tracked, f)
                 PROVE  d.s \in States(Snapshots)
    BY <1>2
  <2>2. StepperAt(d.s)
    BY <2>1, <1>1, <1>2, StepperDraw
  <2> QED BY <2>2 DEF StepperAt
<1>4. PICK f : \E e \in EntryOf(Begun(f), f) : \E d \in DrawOf(e, f) :
           /\ Playable(f) /\ PacedBy(f) /\ Settles(d, f) /\ Turns'
           /\ state' \in States(Snapshots) /\ state'.obj = obj' /\ state'.mod = mod'
           /\ Live(state') = Live(d.s) /\ Truth(state') = Truth(d.s)
           /\ Owned(state') <=> Owned(d.s)
  BY <1>3, PaintStep
<1>5. PICK d \in StepperDrawn(state, tracked, f) :
           /\ Playable(f) /\ PacedBy(f) /\ Settles(d, f)
           /\ state' \in States(Snapshots) /\ state'.obj = obj' /\ state'.mod = mod'
           /\ Live(state') = Live(d.s) /\ Truth(state') = Truth(d.s)
           /\ Owned(state') <=> Owned(d.s)
  BY <1>4, <1>2
<1>6. /\ StepperAt(d.s)
      /\ f.class = "L" => d.drawn \in {Nothing, d.s.obj.wrote[0]}
      /\ f.class = "R" =>
           /\ d.s = state
           /\ d.drawn \in {Nothing, IF tracked = "pre" THEN Live(state) ELSE Advanced(Live(state))}
  BY <1>1, <1>2, <1>5, StepperDraw
<1>7. /\ turn' = (IF f.class = "L" THEN "produce" ELSE "painter") /\ tracked' = tracked
      /\ frameClass' = f.class /\ rDup' = f.dup /\ f.class \in {"L", "R"} /\ f.dup \in BOOLEAN
  BY <1>5 DEF PacedBy, Playable, Frames
<1>8. /\ drawn' \in {Nothing, d.drawn}
      /\ shown' = IF f.class = "L" /\ drawn' # Nothing THEN drawn' ELSE shown
      /\ obj'.mem = d.s.obj.mem /\ obj'.wrote = d.s.obj.wrote /\ obj'.cur = d.s.obj.cur
      /\ obj'.own = d.s.obj.own /\ mod' = d.s.mod /\ obj' \in Objects
  BY <1>5 DEF Settles, Look
<1>9. /\ StepperAt(state') /\ Owned(state') /\ obj'.mem = obj'.wrote
      /\ Live(state') = obj'.wrote[0] /\ Truth(state') = obj'.wrote[0] /\ obj'.wrote[0] \in Plains
      /\ d.s.obj.wrote[0] = obj'.wrote[0] /\ Live(d.s) = obj'.wrote[0]
  BY <1>5, <1>6, <1>8 DEF StepperAt, Owned, Live, Truth
<1>10. LastMade' = obj'.wrote[0]
  BY <1>1, <1>7, <1>9 DEF LastMade
<1>11. Advanced(Live(d.s)) \in Plains /\ Nothing \notin Plains /\ Plains \subseteq Values
  BY <1>9, AdvancedPlain, PlainPair
<1>12. /\ drawn' \in Values \cup {Nothing, Plain(Alien)}
       /\ shown' \in Plains \cup {Nothing, Plain(Alien)}
  BY <1>6, <1>7, <1>8, <1>9, <1>11
<1>13. LogicSeesTruth'
  BY <1>6, <1>7, <1>8, <1>9, <1>10 DEF LogicSeesTruth
<1>14. ForeignUntouched'
  BY <1>9 DEF ForeignUntouched
<1>15. RFrameInterpolates'
  <2>1. SUFFICES ASSUME f.class = "R", ~f.dup, drawn' # Nothing
                 PROVE  drawn' = IF tracked = "pre" THEN LastMade' ELSE Advanced(LastMade')
    BY <1>1, <1>7 DEF RFrameInterpolates
  <2> QED BY <2>1, <1>6, <1>8, <1>9, <1>10
<1>16. StepperInv'
  BY <1>9 DEF StepperInv
<1> QED BY <1>5, <1>8, <1>12, <1>13, <1>14, <1>15, <1>16 DEF States

\* A production that leaves the frame alone keeps what the last frame showed.
LEMMA ProduceFrame ==
  ASSUME Turns, ProduceObject
  PROVE  /\ turn = "produce" /\ frameClass = "L" /\ ~looked /\ turn' = "painter"
         /\ \E p \in ProducedBy(state) : obj' = p.obj /\ mod' = p.mod
         /\ tracked' = tracked /\ splitMode' = splitMode /\ frameClass' = "L"
         /\ drawn' = drawn /\ shown' = shown /\ looked' = looked /\ again' = again
         /\ Turns' /\ LogicSeesTruth' /\ RFrameInterpolates'
         /\ state' = [obj |-> obj', mod |-> mod'] /\ state'.obj = obj' /\ state'.mod = mod'
BY StateForm DEF ProduceObject, Turns, LogicSeesTruth, RFrameInterpolates, state

\* Production keeps the invariant of the steppers.
LEMMA StepperProduce ==
  ASSUME Turns, StepperInv, tracked \in StepperKinds, ProduceObject
  PROVE  obj' \in Objects /\ mod' \in Snapshots /\ StepperInv' /\ ForeignUntouched'
<1>1. StepperAt(state)
  BY DEF StepperInv
<1>2. PICK p \in StepperProduced(state) : obj' = p.obj /\ mod' = p.mod
  <2>1. ProducedBy(state) = StepperProduced(state)
    <3>1. [split |-> FALSE, class |-> "L", dup |-> FALSE, cut |-> FALSE] \in Frames
      BY DEF Frames
    <3> QED BY <3>1, StepperEntry
  <2> QED BY <2>1, ProduceFrame
<1>3. StepperAt(p)
  <2>1. CASE p = state
    BY <2>1, <1>1
  <2>2. CASE p = [state EXCEPT !.obj.tag = 0]
    <3>1. state \in States(Snapshots)
      BY <1>1 DEF StepperAt
    <3>2. /\ p \in States(Snapshots) /\ p.mod = state.mod /\ p.obj.mem = state.obj.mem
          /\ p.obj.wrote = state.obj.wrote /\ p.obj.cur = state.obj.cur /\ p.obj.own = state.obj.own
      BY <2>2, <3>1, TagForm
    <3> QED BY <3>2, <1>1 DEF StepperAt
  <2>3. CASE \E v \in Looks : p = [state EXCEPT !.obj = [Wrote(state.obj, 0, Plain(v)) EXCEPT !.tag = 1]]
    <3>1. PICK v \in Looks : p = [state EXCEPT !.obj = [Wrote(state.obj, 0, Plain(v)) EXCEPT !.tag = 1]]
      BY <2>3
    <3>2. Plain(v) \in Plains /\ Plain(v) \in Stored
      BY PlainPair DEF Plains
    <3>3. PICK w : w = Wrote(state.obj, 0, Plain(v))
      OBVIOUS
    <3>4. /\ w \in Objects /\ w.mem = [state.obj.mem EXCEPT ![0] = Plain(v)]
          /\ w.wrote = [state.obj.wrote EXCEPT ![0] = Plain(v)]
          /\ w.cur = 0 /\ w.own = state.obj.own
      BY <1>1, <3>2, <3>3, WroteForm DEF Cells, StepperAt, States
    <3>5. PICK q : q = [w EXCEPT !.tag = 1]
      OBVIOUS
    <3>6. q \in Objects /\ q.mem = w.mem /\ q.wrote = w.wrote /\ q.cur = w.cur /\ q.own = w.own
      BY <3>4, <3>5 DEF Objects
    <3>7. p = [state EXCEPT !.obj = q]
      BY <3>1, <3>3, <3>5
    <3>8. p = [obj |-> q, mod |-> state.mod]
      BY <3>7, <1>1, ObjectForm DEF StepperAt
    <3>9. w.mem[0] = Plain(v) /\ w.mem = w.wrote
      BY <3>4, <1>1 DEF StepperAt, States, Objects, Cells
    <3> QED BY <3>2, <3>4, <3>6, <3>8, <3>9, <1>1 DEF StepperAt, States
  <2> QED BY <2>1, <2>2, <2>3, <1>2 DEF StepperProduced
<1>4. state' = p
  <2>1. p = [obj |-> p.obj, mod |-> p.mod]
    BY <1>3, StateEqual DEF StepperAt
  <2> QED BY <2>1, <1>2, ProduceFrame
<1> QED BY <1>2, <1>3, <1>4, StateForm DEF StepperInv, StepperAt, States, ForeignUntouched

\* An object as production makes it.
LEMMA FreshForm ==
  ASSUME NEW v \in Looks
  PROVE  /\ Fresh(v) \in Objects /\ Plain(v) \in Plains /\ Fresh(v).mem = Fresh(v).wrote
         /\ Fresh(v).mem = [c \in Cells |-> Plain(v)] /\ Fresh(v).mem[0] = Plain(v)
         /\ Fresh(v).cur = 0 /\ Fresh(v).own = "object" /\ Fresh(v).tag = 1 /\ Fresh(v).age = 0
         /\ Fresh(v).new
<1>1. Plain(v) \in Plains /\ Plain(v) \in Stored
  BY PlainPair DEF Plains
<1> QED BY <1>1 DEF Fresh, Objects, Cells, MaxAge

\* Steppers begin without a snapshot.
LEMMA StepperInit0 ==
  ASSUME NEW v \in Looks
  PROVE  StepperAt(StepperInit(v))
BY FreshForm, PlainPair DEF StepperInit, StepperAt, NoSnap, States, Snapshots, Stored

-----------------------------------------------------------------------------
(* The packet windows: production; the fader's record.                     *)

\* There is a frame.
LEMMA SomeFrame == \E f : f \in Frames
<1>1. [split |-> FALSE, class |-> "L", dup |-> FALSE, cut |-> FALSE] \in Frames
  BY DEF Frames
<1> QED BY <1>1

\* Production writes the look of cell c, and the object has tag g.
Retagged(o, c, x, g) == [Wrote(o, c, x) EXCEPT !.tag = g]

\* What production writes with another tag.
LEMMA RetaggedForm ==
  ASSUME NEW o \in Objects, NEW c \in Cells, NEW x \in Stored, NEW g \in 0..2
  PROVE  /\ Retagged(o, c, x, g) \in Objects
         /\ Retagged(o, c, x, g).mem = [o.mem EXCEPT ![c] = x]
         /\ Retagged(o, c, x, g).wrote = [o.wrote EXCEPT ![c] = x]
         /\ Retagged(o, c, x, g).cur = c /\ Retagged(o, c, x, g).own = o.own
         /\ Retagged(o, c, x, g).tag = g /\ Retagged(o, c, x, g).age = o.age
         /\ Retagged(o, c, x, g).new = o.new
         /\ Retagged(o, c, x, g).mem[c] = x /\ Retagged(o, c, x, g).wrote[c] = x
<1>1. PICK w : w = Wrote(o, c, x)
  OBVIOUS
<1>2. /\ w \in Objects /\ w.mem = [o.mem EXCEPT ![c] = x]
      /\ w.wrote = [o.wrote EXCEPT ![c] = x]
      /\ w.cur = c /\ w.own = o.own /\ w.age = o.age /\ w.new = o.new
  BY <1>1, WroteForm
<1>3. PICK q : q = [w EXCEPT !.tag = g]
  OBVIOUS
<1>4. q \in Objects /\ q.mem = w.mem /\ q.wrote = w.wrote /\ q.cur = w.cur /\ q.own = w.own
      /\ q.tag = g /\ q.age = w.age /\ q.new = w.new
  BY <1>2, <1>3 DEF Objects
<1>5. q = Retagged(o, c, x, g)
  BY <1>1, <1>3 DEF Retagged
<1>7. w.mem[c] = x /\ w.wrote[c] = x
  BY <1>2 DEF Objects
<1> QED BY <1>2, <1>4, <1>5, <1>7

\* The state with another object, typed.
LEMMA RetaggedState ==
  ASSUME NEW M, NEW t \in States(M), NEW o \in Objects, NEW r, r = [t EXCEPT !.obj = o]
  PROVE  r \in States(M) /\ r.mod = t.mod /\ r.obj = o
<1>1. r = [obj |-> o, mod |-> t.mod]
  BY ObjectForm
<1> QED BY <1>1 DEF States

\* Production keeps the invariant of the windows.
LEMMA WindowProduce ==
  ASSUME Turns, WindowInv, tracked \in WindowKinds, ProduceObject
  PROVE  obj' \in Objects /\ mod' \in Windows /\ WindowInv' /\ ForeignUntouched'
<1>1. WindowAt(state) /\ WindowSeen(state, shown) /\ (~splitMode => ~state.mod.known)
      /\ state \in States(Windows)
  BY StateForm DEF WindowInv, WindowAt
<1>2. PICK p \in WindowProduced(state, tracked) : obj' = p.obj /\ mod' = p.mod
  BY ProduceFrame, SomeFrame, WindowEntry
<1>3. WindowAt(p) /\ (~splitMode => ~p.mod.known) /\ WindowSeen(p, shown)
  <2>1. CASE p = state
    BY <2>1, <1>1
  <2>2. CASE p = [state EXCEPT !.obj.tag = 0]
    <3>2. /\ p \in States(Windows) /\ p.mod = state.mod /\ p.obj.mem = state.obj.mem
          /\ p.obj.wrote = state.obj.wrote /\ p.obj.cur = state.obj.cur /\ p.obj.own = state.obj.own
          /\ p.obj.new = state.obj.new
      BY <2>2, <1>1, TagForm
    <3> QED BY <3>2, <1>1 DEF WindowAt, WindowSeen
  <2>3. CASE \E v \in Looks, t \in 1..2 :
               p = [state EXCEPT !.obj = [Wrote(state.obj, 0, Plain(v)) EXCEPT !.tag = t]]
    <3>1. PICK v \in Looks, t \in 1..2 :
            p = [state EXCEPT !.obj = [Wrote(state.obj, 0, Plain(v)) EXCEPT !.tag = t]]
      BY <2>3
    <3>2. Plain(v) \in Plains /\ Plain(v) \in Stored /\ t \in 0..2 /\ 0 \in Cells
      BY PlainPair DEF Plains, Cells
    <3>3. PICK q : q = Retagged(state.obj, 0, Plain(v), t)
      OBVIOUS
    <3>4. /\ q \in Objects /\ q.mem = [state.obj.mem EXCEPT ![0] = Plain(v)]
          /\ q.wrote = [state.obj.wrote EXCEPT ![0] = Plain(v)] /\ q.cur = 0
          /\ q.own = state.obj.own /\ q.new = state.obj.new /\ q.mem[0] = Plain(v)
      BY <3>2, <3>3, <1>1, RetaggedForm DEF States
    <3>5. p = [state EXCEPT !.obj = q]
      BY <3>1, <3>3 DEF Retagged
    <3>6. p \in States(Windows) /\ p.mod = state.mod /\ p.obj = q
      BY <3>4, <3>5, <1>1, RetaggedState
    <3> QED BY <3>2, <3>4, <3>6, <1>1 DEF WindowAt, WindowSeen
  <2>4. CASE \E v \in Looks : p = Replaced(state, v)
    <3>1. PICK v \in Looks : p = Replaced(state, v)
      BY <2>4
    <3>2. p = [obj |-> Fresh(v), mod |-> [known |-> FALSE, tag |-> state.mod.tag, curr |-> state.mod.curr,
                                          bak |-> state.mod.bak, armed |-> state.mod.armed]]
      BY <3>1, <1>1 DEF States, Windows, Replaced
    <3>3. p.obj = Fresh(v) /\ ~p.mod.known /\ (p.mod.armed = state.mod.armed)
      BY <3>2, WindowFields, Zenon
    <3>4. p \in States(Windows)
      BY <3>2, <1>1, FreshForm DEF States, Windows
    <3> QED BY <3>3, <3>4, <1>1, FreshForm, Zenon DEF WindowAt, WindowSeen
  <2>5. \/ p = state \/ p = [state EXCEPT !.obj.tag = 0]
        \/ \E v \in Looks : p = Replaced(state, v)
        \/ \E v \in Looks : \E t \in 1..2 :
              p = [state EXCEPT !.obj = [Wrote(state.obj, 0, Plain(v)) EXCEPT !.tag = t]]
    BY <1>2 DEF WindowProduced
  <2> QED BY <2>1, <2>2, <2>3, <2>4, <2>5
<1>4. state' = p
  <2>1. p = [obj |-> p.obj, mod |-> p.mod]
    BY <1>3, StateEqual DEF WindowAt
  <2> QED BY <2>1, <1>2, ProduceFrame
<1>5. WindowInv'
  BY <1>2, <1>3, <1>4, ProduceFrame, StateForm DEF WindowInv
<1> QED BY <1>2, <1>3, <1>4, <1>5, StateForm DEF WindowAt, States, ForeignUntouched

\* Windows begin closed.
LEMMA WindowInit0 ==
  ASSUME NEW v \in Looks
  PROVE  WindowAt(WindowInit(v)) /\ ~WindowInit(v).mod.known
<1>1. WindowInit(v).obj = Fresh(v) /\ WindowInit(v).mod = NoWindow /\ ~NoWindow.known /\ ~NoWindow.armed
  BY DEF WindowInit, NoWindow
<1>2. WindowInit(v) \in States(Windows)
  BY FreshForm DEF WindowInit, NoWindow, States, Windows, Stored
<1> QED BY <1>1, <1>2, FreshForm, Zenon DEF WindowAt

----
\* The fader's memory is production's, unless the mod's colour sits in it: then the
\* saved colour is production's.
FaderAt(t) ==
  /\ t \in States(Faders)
  /\ t.obj.own = "object" /\ t.obj.cur = 0 /\ t.obj.wrote[0] \in Plains
  /\ ~t.mod.pending => t.obj.mem = t.obj.wrote
  /\ t.mod.pending => /\ t.mod.saved = t.obj.wrote[0] /\ t.mod.lDrew
                      /\ t.obj.mem = [t.obj.wrote EXCEPT ![0] = t.mod.lColor]
  /\ t.mod.lDrew => t.mod.lColor \in Plains
\* The invariant of the fader: the colour it shows again is the last one shown.
FaderInv ==
  tracked = "fader" =>
    /\ FaderAt(state)
    /\ mod.lDrew => mod.lColor = shown
    /\ turn = "produce" => ~mod.pending

\* The fields of the fader's record, one by one.
LEMMA FaderFields ==
  ASSUME NEW r, NEW o, NEW ld, NEW lc, NEW pe, NEW sv,
         r = [obj |-> o, mod |-> [lDrew |-> ld, lColor |-> lc, pending |-> pe, saved |-> sv]]
  PROVE  r.obj = o /\ r.mod.lDrew = ld /\ r.mod.lColor = lc /\ r.mod.pending = pe
         /\ r.mod.saved = sv
OBVIOUS

\* Paying back puts production's colour in memory.
LEMMA PaidBackForm ==
  ASSUME NEW t, FaderAt(t)
  PROVE  /\ FaderAt(PaidBack(t)) /\ ~PaidBack(t).mod.pending
         /\ PaidBack(t).obj = Filled(t.obj, t.obj.wrote)
         /\ PaidBack(t).mod.lDrew = t.mod.lDrew /\ PaidBack(t).mod.lColor = t.mod.lColor
<1>1. t.obj \in Objects /\ t.mod \in Faders /\ t.obj.cur = 0 /\ t.obj.wrote \in [Cells -> Stored]
  BY DEF FaderAt, States, Objects
<1>2. CASE ~t.mod.pending
  BY <1>2, <1>1, FilledForm DEF PaidBack, FaderAt
<1>3. CASE t.mod.pending
  <2>1. PICK r : r = PaidBack(t)
    OBVIOUS
  <2>2. PICK p : p = Put(t, t.mod.saved)
    OBVIOUS
  <2>3. r = [p EXCEPT !.mod.pending = FALSE]
    BY <2>1, <2>2, <1>3 DEF PaidBack
  <2>4. [t.obj.mem EXCEPT ![0] = t.mod.saved] = t.obj.wrote
    BY <1>1, <1>3 DEF FaderAt, Cells
  <2>5. PICK o : o = Filled(t.obj, t.obj.wrote)
    OBVIOUS
  <2>6. p = [obj |-> o, mod |-> t.mod]
    BY <2>2, <2>4, <2>5, <1>1, PutForm DEF FaderAt
  <2>7. r = [obj |-> o, mod |-> [lDrew |-> t.mod.lDrew, lColor |-> t.mod.lColor, pending |-> FALSE,
                                 saved |-> t.mod.saved]]
    BY <2>3, <2>6, <1>1 DEF Faders
  <2>8. r.obj = o /\ r.mod.lDrew = t.mod.lDrew /\ r.mod.lColor = t.mod.lColor /\ ~r.mod.pending
    BY <2>7, FaderFields, Zenon
  <2>9. /\ o \in Objects /\ o.mem = t.obj.wrote /\ o.wrote = t.obj.wrote /\ o.cur = 0
        /\ o.own = t.obj.own
    BY <1>1, <2>5, FilledForm
  <2>10. r \in States(Faders)
    BY <2>7, <2>9, <1>1 DEF States, Faders
  <2>11. FaderAt(r)
    BY <2>8, <2>9, <2>10, Zenon DEF FaderAt
  <2> QED BY <2>1, <2>5, <2>8, <2>11
<1> QED BY <1>2, <1>3

\* For the fader the entry hook does nothing and the gate does it all.
LEMMA FaderEntry ==
  ASSUME NEW b, NEW f \in Frames, tracked = "fader"
  PROVE  /\ EntryOf(b, f) = {b} /\ DrawOf(b, f) = FaderDrawn(b, f)
         /\ ResetOf(b) = FaderReset(b) /\ ProducedBy(b) = StepperProduced(b)
<1>2. LframeOf(b) = {b} /\ RframeOf(b, f.cut) = {b} /\ DupOf(b) = b /\ tracked \notin ClothKinds
  BY DEF LframeOf, RframeOf, DupOf, PoseKinds, ClothKinds
<1>3. EntryOf(b, f) = {b}
  BY <1>2 DEF EntryOf
<1>4. DrawOf(b, f) = FaderDrawn(b, f)
  BY DEF DrawOf, ClothKinds
<1>5. ResetOf(b) = FaderReset(b) /\ ProducedBy(b) = StepperProduced(b)
  BY DEF ResetOf, ProducedBy, PoseKinds, ClothKinds
<1> QED BY <1>3, <1>4, <1>5

\* A reset pays back and forgets the colour.
LEMMA FaderResets ==
  ASSUME NEW t, FaderAt(t)
  PROVE  FaderAt(FaderReset(t)) /\ ~FaderReset(t).mod.lDrew /\ ~FaderReset(t).mod.pending
<1>1. PICK p : p = PaidBack(t)
  OBVIOUS
<1>2. FaderAt(p) /\ ~p.mod.pending /\ p \in States(Faders)
  BY <1>1, PaidBackForm DEF FaderAt
<1>3. FaderReset(t) = [obj |-> p.obj, mod |-> NoFader] /\ FaderReset(t).obj = p.obj /\ FaderReset(t).mod = NoFader
  BY <1>1, <1>2, ModForm DEF FaderReset
<1>4. NoFader \in Faders /\ ~NoFader.lDrew /\ ~NoFader.pending
  BY DEF NoFader, Faders, Stored
<1>5. FaderReset(t) \in States(Faders)
  BY <1>2, <1>3, <1>4 DEF States
<1> QED BY <1>2, <1>3, <1>4, <1>5, Zenon DEF FaderAt

-----------------------------------------------------------------------------
(* The fader: what a draw shows.                                           *)

\* The fader before the game's own control, and after a substitution.
Undrawn(p)     == [p EXCEPT !.mod.lDrew = FALSE]
\* The fader with the last colour substituted.
Substituted(p) == [Put(p, p.mod.lColor) EXCEPT !.mod.saved = Live(p), !.mod.pending = TRUE]

\* The game's own control: what it shows is what production left, and is kept.
LEMMA FaderGame ==
  ASSUME NEW p, FaderAt(p), ~p.mod.pending, NEW q, q = Undrawn(p),
         NEW b, b = TrueBody(q), NEW e \in Ended(Seen(b))
  PROVE  /\ FaderAt(e) /\ ~e.mod.pending /\ Shows(b) \in {Nothing, e.obj.wrote[0]}
         /\ e.mod.lDrew => e.mod.lColor = Shows(b) /\ Shows(b) # Nothing
<1>1. p \in States(Faders) /\ p.mod \in Faders /\ p.obj \in Objects
  BY DEF FaderAt, States
<1>2. q = [obj |-> p.obj, mod |-> [lDrew |-> FALSE, lColor |-> p.mod.lColor, pending |-> p.mod.pending,
                                   saved |-> p.mod.saved]]
  BY <1>1 DEF States, Faders, Undrawn
<1>3. q.obj = p.obj /\ ~q.mod.lDrew /\ ~q.mod.pending
  <2>1. q.obj = p.obj /\ q.mod.lDrew = FALSE /\ q.mod.pending = p.mod.pending
    BY <1>2, FaderFields
  <2>2. ~q.mod.lDrew
    BY <2>1
  <2> QED BY <2>1, <2>2, Zenon
<1>4. q \in States(Faders)
  BY <1>1, <1>2 DEF States, Faders
<1>5. q.obj.cur = 0 /\ q.obj.own = "object" /\ q.obj.mem = q.obj.wrote /\ q.obj.mem[0] \in Plains
  BY <1>3 DEF FaderAt
<1>6. b \in Ended(b)
  BY DEF Ended
<1>7. /\ b \in States(Faders) /\ b.mod = q.mod /\ b.obj.cur = 0 /\ b.obj.own = "object"
      /\ b.obj.mem = b.obj.wrote /\ b.obj.mem[0] \in Plains
      /\ Shows(b) \in {Nothing, b.obj.wrote[0]}
  <2>1. PICK e0 : e0 = b
    OBVIOUS
  <2>2. e0 \in Ended(b)
    BY <1>6, <2>1
  <2>3. /\ b \in States(Faders) /\ e0.mod = q.mod /\ e0.obj.cur = 0 /\ e0.obj.own = "object"
        /\ e0.obj.mem = e0.obj.wrote /\ e0.obj.mem[0] \in Plains
        /\ Shows(b) \in {Nothing, e0.obj.wrote[0]}
    BY <1>4, <1>5, <2>2, StepperTrueBody
  <2> QED BY <2>1, <2>3
<1>8. Live(b) = b.obj.mem[0] /\ Live(b) \in Stored /\ Live(b) # Nothing
  BY <1>7, PlainPair DEF Live
<1>9. PICK s : s = Seen(b)
  OBVIOUS
<1>10. /\ s \in States(Faders) /\ s.obj = b.obj /\ ~s.mod.pending
       /\ s.mod.lDrew => s.mod.lColor = Shows(b) /\ Shows(b) # Nothing
  <2>1. CASE ~Active(b)
    <3>1. s = b /\ ~s.mod.lDrew /\ ~s.mod.pending
      BY <2>1, <1>3, <1>7, <1>9 DEF Seen
    <3> QED BY <3>1, <1>7
  <2>2. CASE Active(b)
    <3>1. s = [b EXCEPT !.mod.lDrew = TRUE, !.mod.lColor = Live(b)]
      BY <2>2, <1>9 DEF Seen
    <3>2. s = [obj |-> b.obj, mod |-> [lDrew |-> TRUE, lColor |-> Live(b), pending |-> b.mod.pending,
                                       saved |-> b.mod.saved]]
      BY <3>1, <1>7 DEF States, Faders
    <3>3. s.obj = b.obj /\ s.mod.lColor = Live(b) /\ s.mod.pending = b.mod.pending
      BY <3>2, FaderFields, Zenon
    <3>4. ~s.mod.pending
      BY <3>3, <1>7, <1>3, Zenon
    <3>5. s \in States(Faders)
      BY <3>2, <1>7, <1>8 DEF States, Faders
    <3>6. Shows(b) = Live(b)
      BY <2>2 DEF Shows
    <3> QED BY <3>3, <3>4, <3>5, <3>6, <1>8
  <2> QED BY <2>1, <2>2
<1>11. /\ e \in States(Faders) /\ e.mod = s.mod /\ e.obj.mem = b.obj.mem /\ e.obj.wrote = b.obj.wrote
       /\ e.obj.cur = b.obj.cur /\ e.obj.own = b.obj.own
  <2>1. e = s \/ e = [s EXCEPT !.obj.tag = 0]
    BY <1>9 DEF Ended
  <2>2. CASE e = s
    BY <2>2, <1>10
  <2>3. CASE e = [s EXCEPT !.obj.tag = 0]
    <3>1. /\ e \in States(Faders) /\ e.mod = s.mod /\ e.obj.mem = s.obj.mem /\ e.obj.wrote = s.obj.wrote
          /\ e.obj.cur = s.obj.cur /\ e.obj.own = s.obj.own
      <4>1. s \in States(Faders)
        BY <1>10
      <4>2. 0 \in 0..2
        OBVIOUS
      <4> QED BY <2>3, <4>1, TagForm
    <3> QED BY <3>1, <1>10
  <2> QED BY <2>1, <2>2, <2>3
<1> QED BY <1>7, <1>8, <1>10, <1>11 DEF FaderAt

\* A substitution saves production's colour.
LEMMA FaderSubstituted ==
  ASSUME NEW p, FaderAt(p), ~p.mod.pending, p.mod.lDrew,
         NEW r, r = Substituted(p)
  PROVE  FaderAt(r) /\ r.mod.lDrew /\ r.mod.lColor = p.mod.lColor
<1>1. p \in States(Faders) /\ p.mod \in Faders /\ p.obj \in Objects /\ p.obj.cur = 0
      /\ p.obj.mem = p.obj.wrote /\ p.mod.lColor \in Plains /\ p.obj.wrote[0] \in Plains
      /\ p.obj.own = "object"
  BY DEF FaderAt, States
<1>2. p.mod.lColor \in Stored /\ Live(p) = p.obj.wrote[0] /\ Live(p) \in Stored
  BY <1>1, PlainPair DEF Live
<1>3. PICK m : m = [p.obj.mem EXCEPT ![0] = p.mod.lColor]
  OBVIOUS
<1>4. PICK o : o = Filled(p.obj, m)
  OBVIOUS
<1>5. Put(p, p.mod.lColor) = [obj |-> o, mod |-> p.mod] /\ m \in [Cells -> Stored]
  BY <1>1, <1>2, <1>3, <1>4, PutForm
<1>6. r = [[obj |-> o, mod |-> p.mod] EXCEPT !.mod.saved = Live(p), !.mod.pending = TRUE]
  BY <1>5 DEF Substituted
<1>7. r = [obj |-> o, mod |-> [lDrew |-> p.mod.lDrew, lColor |-> p.mod.lColor, pending |-> TRUE,
                               saved |-> Live(p)]]
  BY <1>1, <1>6 DEF Faders
<1>8. r.obj = o /\ r.mod.lDrew = p.mod.lDrew /\ r.mod.lColor = p.mod.lColor /\ r.mod.pending = TRUE
      /\ r.mod.saved = Live(p)
  <2>1. PICK lv : lv = Live(p)
    OBVIOUS
  <2>2. PICK pe : pe = TRUE
    OBVIOUS
  <2>3. r = [obj |-> o, mod |-> [lDrew |-> p.mod.lDrew, lColor |-> p.mod.lColor, pending |-> pe,
                                 saved |-> lv]]
    BY <1>7, <2>1, <2>2
  <2>4. r.obj = o /\ r.mod.lColor = p.mod.lColor /\ r.mod.saved = lv /\ r.mod.pending = TRUE
    BY <1>7, <2>1
  <2>5. p.mod.lDrew = TRUE
    BY <1>1 DEF Faders
  <2>6. r.mod.lDrew = TRUE
    BY <1>7, <2>5
  <2> QED BY <2>1, <2>4, <2>5, <2>6, Zenon
<1>9. /\ o \in Objects /\ o.mem = m /\ o.wrote = p.obj.wrote /\ o.cur = 0 /\ o.own = "object"
  BY <1>1, <1>4, <1>5, FilledForm
<1>10. r \in States(Faders)
  <2>1. o \in Objects /\ p.mod \in Faders /\ Live(p) \in Stored
    BY <1>1, <1>2, <1>9
  <2> QED BY <2>1, <1>7 DEF States, Faders
<1>11. r.mod.lDrew
  BY <1>8, Zenon
<1>12. m = [p.obj.wrote EXCEPT ![0] = p.mod.lColor]
  BY <1>1, <1>3
<1>13. r.mod.pending /\ r.mod.saved = p.obj.wrote[0] /\ r.mod.lColor \in Plains /\ r.obj.wrote[0] \in Plains
       /\ r.obj.cur = 0 /\ r.obj.own = "object" /\ r.obj.mem = [r.obj.wrote EXCEPT ![0] = r.mod.lColor]
       /\ r.obj.wrote = p.obj.wrote
  BY <1>1, <1>2, <1>8, <1>9, <1>12
<1> QED BY <1>8, <1>10, <1>11, <1>13, Zenon DEF FaderAt

\* The fader's draw, by the kind of frame.
LEMMA FaderDraw ==
  ASSUME NEW t, FaderAt(t), NEW f \in Frames, f.class = "R" => f.split,
         NEW d \in FaderDrawn(t, f)
  PROVE  /\ FaderAt(d.s)
         /\ f.class = "L" =>
              /\ d.drawn \in {Nothing, d.s.obj.wrote[0]} /\ ~d.s.mod.pending
              /\ d.s.mod.lDrew => d.s.mod.lColor = d.drawn /\ d.drawn # Nothing
         /\ f.class = "R" =>
              /\ d.s.mod.lDrew <=> t.mod.lDrew
              /\ d.s.mod.lColor = t.mod.lColor
              /\ d.drawn = Nothing \/ (t.mod.lDrew /\ d.drawn = t.mod.lColor)
<1>1. PICK p : p = PaidBack(t)
  OBVIOUS
<1>2. FaderAt(p) /\ ~p.mod.pending /\ (p.mod.lDrew = t.mod.lDrew) /\ p.mod.lColor = t.mod.lColor
  BY <1>1, PaidBackForm, Zenon
<1>3. CASE f.class = "L"
  <2>1. PICK q : q = Undrawn(p)
    OBVIOUS
  <2>2. [p EXCEPT !.mod.lDrew = @ /\ f.class # "L"] = q
    <3>1. (p.mod.lDrew /\ f.class # "L") = FALSE
      BY <1>3
    <3> QED BY <2>1, <3>1, Zenon DEF Undrawn
  <2>3. PICK b : b = TrueBody(q)
    OBVIOUS
  <2>4. PICK e \in Ended(Seen(b)) : d = [s |-> e, drawn |-> Shows(b)]
    BY <1>1, <1>3, <2>2, <2>3, Zenon DEF FaderDrawn
  <2>5. /\ FaderAt(e) /\ ~e.mod.pending /\ Shows(b) \in {Nothing, e.obj.wrote[0]}
        /\ e.mod.lDrew => e.mod.lColor = Shows(b) /\ Shows(b) # Nothing
    BY <1>2, <2>1, <2>3, <2>4, FaderGame
  <2>6. d.s = e /\ d.drawn = Shows(b)
    BY <2>4
  <2> QED BY <2>5, <2>6, <1>3
<1>4. CASE f.class = "R" /\ ~p.mod.lDrew
  <2>1. d = [s |-> p, drawn |-> Nothing]
    BY <1>1, <1>4, Zenon DEF FaderDrawn
  <2>2. d.s = p /\ d.drawn = Nothing
    BY <2>1
  <2> QED BY <2>2, <1>2, <1>4, Zenon
<1>5. CASE f.class = "R" /\ p.mod.lDrew
  <2>1. PICK r : r = Substituted(p)
    OBVIOUS
  <2>2. d = [s |-> r, drawn |-> p.mod.lColor]
    BY <1>1, <1>5, <2>1, Zenon DEF FaderDrawn, Substituted
  <2>3. d.s = r /\ d.drawn = p.mod.lColor
    BY <2>2
  <2>4. FaderAt(r) /\ r.mod.lDrew /\ r.mod.lColor = p.mod.lColor
    BY <2>1, <1>2, <1>5, FaderSubstituted
  <2>5. t.mod.lDrew
    BY <1>2, <1>5, Zenon
  <2>6. f.class # "L"
    BY <1>5
  <2> QED BY <2>3, <2>4, <2>5, <2>6, <1>2, Zenon
<1> QED BY <1>3, <1>4, <1>5 DEF Frames

-----------------------------------------------------------------------------
(* The fader: every step.                                                  *)

\* Every Painter keeps the invariant of the fader, and the promises.
LEMMA FaderPaint ==
  ASSUME Turns, FaderInv, tracked = "fader", shown \in Plains \cup {Nothing, Plain(Alien)}, Paints
  PROVE  /\ obj' \in Objects /\ mod' \in Faders
         /\ drawn' \in Values \cup {Nothing, Plain(Alien)}
         /\ shown' \in Plains \cup {Nothing, Plain(Alien)}
         /\ FaderInv' /\ LogicSeesTruth' /\ ForeignUntouched' /\ RFrameInterpolates'
<1>1. FaderAt(state) /\ tracked \notin ClothKinds
  BY DEF FaderInv, ClothKinds
<1>2. \A f : Playable(f) =>
        /\ FaderAt(Begun(f)) /\ (Begun(f).mod.lDrew => Begun(f).mod.lColor = shown)
        /\ EntryOf(Begun(f), f) = {Begun(f)}
        /\ DrawOf(Begun(f), f) = FaderDrawn(Begun(f), f)
        /\ f \in Frames /\ (f.class = "R" => f.split)
  <2>1. SUFFICES ASSUME NEW f, Playable(f)
                 PROVE  /\ FaderAt(Begun(f)) /\ (Begun(f).mod.lDrew => Begun(f).mod.lColor = shown)
                        /\ EntryOf(Begun(f), f) = {Begun(f)}
                        /\ DrawOf(Begun(f), f) = FaderDrawn(Begun(f), f)
                        /\ f \in Frames /\ (f.class = "R" => f.split)
    OBVIOUS
  <2>2. f \in Frames /\ (f.class = "R" => f.split)
    BY <2>1 DEF Playable
  <2>3. FaderAt(Begun(f)) /\ (Begun(f).mod.lDrew => Begun(f).mod.lColor = shown)
    <3>1. CASE f.split <=> splitMode
      BY <3>1, StateForm DEF Begun, FaderInv
    <3>2. CASE ~(f.split <=> splitMode)
      <4>1. Begun(f) = FaderReset(state)
        BY <3>2, <2>2, FaderEntry DEF Begun
      <4>2. FaderAt(FaderReset(state)) /\ ~FaderReset(state).mod.lDrew
        BY <1>1, FaderResets
      <4> QED BY <4>1, <4>2
    <3> QED BY <3>1, <3>2
  <2> QED BY <2>2, <2>3, FaderEntry
<1>3. \A f : Playable(f) =>
        \A e \in EntryOf(Begun(f), f) : \A d \in DrawOf(e, f) : d.s \in States(Faders)
  <2>1. SUFFICES ASSUME NEW f, Playable(f), NEW d \in FaderDrawn(Begun(f), f)
                 PROVE  d.s \in States(Faders)
    BY <1>2
  <2>2. FaderAt(d.s)
    BY <2>1, <1>2, FaderDraw
  <2> QED BY <2>2 DEF FaderAt
<1>4. PICK f : \E e \in EntryOf(Begun(f), f) : \E d \in DrawOf(e, f) :
           /\ Playable(f) /\ PacedBy(f) /\ Settles(d, f) /\ Turns'
           /\ state' \in States(Faders) /\ state'.obj = obj' /\ state'.mod = mod'
           /\ Live(state') = Live(d.s) /\ Truth(state') = Truth(d.s)
           /\ Owned(state') <=> Owned(d.s)
  BY <1>3, PaintStep
<1>5. PICK d \in FaderDrawn(Begun(f), f) :
           /\ Playable(f) /\ PacedBy(f) /\ Settles(d, f)
           /\ state' \in States(Faders) /\ state'.obj = obj' /\ state'.mod = mod'
           /\ Live(state') = Live(d.s) /\ Truth(state') = Truth(d.s)
           /\ Owned(state') <=> Owned(d.s)
  BY <1>4, <1>2
<1>6. PICK b : b = Begun(f)
  OBVIOUS
<1>7. FaderAt(b) /\ (b.mod.lDrew => b.mod.lColor = shown)
  BY <1>2, <1>5, <1>6
<1>8. /\ FaderAt(d.s)
      /\ f.class = "L" =>
           /\ d.drawn \in {Nothing, d.s.obj.wrote[0]} /\ ~d.s.mod.pending
           /\ d.s.mod.lDrew => d.s.mod.lColor = d.drawn /\ d.drawn # Nothing
      /\ f.class = "R" =>
           /\ d.s.mod.lDrew <=> b.mod.lDrew
           /\ d.s.mod.lColor = b.mod.lColor
           /\ d.drawn = Nothing \/ (b.mod.lDrew /\ d.drawn = b.mod.lColor)
  BY <1>2, <1>5, <1>6, <1>7, FaderDraw
<1>9. /\ turn' = (IF f.class = "L" THEN "produce" ELSE "painter") /\ tracked' = tracked
      /\ frameClass' = f.class /\ rDup' = f.dup /\ f.class \in {"L", "R"} /\ f.dup \in BOOLEAN
  BY <1>5 DEF PacedBy, Playable, Frames
<1>10. /\ drawn' = d.drawn
       /\ shown' = IF f.class = "L" /\ drawn' # Nothing THEN drawn' ELSE shown
       /\ obj'.mem = d.s.obj.mem /\ obj'.wrote = d.s.obj.wrote /\ obj'.cur = d.s.obj.cur
       /\ obj'.own = d.s.obj.own /\ mod' = d.s.mod /\ obj' \in Objects
  BY <1>5 DEF Settles, Look
<1>11. FaderAt(state')
  BY <1>5, <1>8, <1>10 DEF FaderAt
<1>12. /\ state'.obj = obj' /\ state'.mod = mod' /\ obj'.own = "object" /\ obj'.cur = 0
       /\ obj'.wrote[0] \in Plains /\ (~mod'.pending => obj'.mem = obj'.wrote)
       /\ mod'.lDrew => mod'.lColor \in Plains
  BY <1>5, <1>11 DEF FaderAt
<1>13. LastMade' = obj'.wrote[0] /\ Owned(state') /\ d.s.obj.wrote[0] = obj'.wrote[0]
  BY <1>1, <1>9, <1>10, <1>12 DEF LastMade, Truth, Owned
<1>14. Nothing \notin Plains /\ Plains \subseteq Values
  BY PlainPair
<1>15. f.class = "R" => drawn' = Nothing \/ (mod'.lDrew /\ mod'.lColor = drawn' /\ drawn' = shown)
  BY <1>7, <1>8, <1>10
<1>16. /\ drawn' \in Values \cup {Nothing, Plain(Alien)}
       /\ shown' \in Plains \cup {Nothing, Plain(Alien)}
  BY <1>8, <1>9, <1>10, <1>12, <1>13, <1>14, <1>15
<1>17. mod'.lDrew => mod'.lColor = shown'
  BY <1>7, <1>8, <1>9, <1>10
<1>18. FaderInv'
  <2>1. turn' = "produce" => ~mod'.pending
    BY <1>8, <1>9, <1>10
  <2> QED BY <1>11, <1>17, <2>1 DEF FaderInv
<1>19. LogicSeesTruth'
  <2>1. SUFFICES ASSUME f.class = "L"
                 PROVE  /\ Owned(state') => Live(state') = LastMade'
                        /\ obj'.mem = obj'.wrote
                        /\ drawn' \in {Nothing, LastMade'}
    BY <1>9 DEF LogicSeesTruth
  <2>2. obj'.mem = obj'.wrote
    BY <2>1, <1>8, <1>10, <1>12
  <2> QED BY <2>1, <2>2, <1>8, <1>10, <1>12, <1>13 DEF Live
<1>20. ForeignUntouched'
  BY <1>13 DEF ForeignUntouched
<1>21. RFrameInterpolates'
  <2>1. SUFFICES ASSUME f.class = "R", ~f.dup, drawn' # Nothing
                 PROVE  drawn' = shown'
    BY <1>9 DEF RFrameInterpolates
  <2> QED BY <2>1, <1>10, <1>15
<1> QED BY <1>5, <1>10, <1>12, <1>16, <1>18, <1>19, <1>20, <1>21 DEF States

\* Production keeps the invariant of the fader.
LEMMA FaderProduce ==
  ASSUME Turns, FaderInv, tracked = "fader", ProduceObject
  PROVE  obj' \in Objects /\ mod' \in Faders /\ FaderInv' /\ ForeignUntouched'
<1>0. turn = "produce"
  BY ProduceFrame
<1>1. FaderAt(state) /\ state \in States(Faders) /\ ~state.mod.pending
      /\ (state.mod.lDrew => state.mod.lColor = shown)
  BY <1>0, StateForm DEF FaderInv, FaderAt
<1>2. PICK p \in StepperProduced(state) : obj' = p.obj /\ mod' = p.mod
  BY ProduceFrame, FaderEntry, SomeFrame
<1>3. FaderAt(p) /\ p.mod = state.mod
  <2>1. CASE p = state
    BY <2>1, <1>1
  <2>2. CASE p = [state EXCEPT !.obj.tag = 0]
    <3>2. /\ p \in States(Faders) /\ p.mod = state.mod /\ p.obj.mem = state.obj.mem
          /\ p.obj.wrote = state.obj.wrote /\ p.obj.cur = state.obj.cur /\ p.obj.own = state.obj.own
      BY <2>2, <1>1, TagForm
    <3> QED BY <3>2, <1>1 DEF FaderAt
  <2>3. CASE \E v \in Looks : p = [state EXCEPT !.obj = [Wrote(state.obj, 0, Plain(v)) EXCEPT !.tag = 1]]
    <3>1. PICK v \in Looks : p = [state EXCEPT !.obj = [Wrote(state.obj, 0, Plain(v)) EXCEPT !.tag = 1]]
      BY <2>3
    <3>2. Plain(v) \in Plains /\ Plain(v) \in Stored /\ 0 \in Cells
      BY PlainPair DEF Plains, Cells
    <3>3. PICK q : q = Retagged(state.obj, 0, Plain(v), 1)
      OBVIOUS
    <3>4. /\ q \in Objects /\ q.mem = [state.obj.mem EXCEPT ![0] = Plain(v)]
          /\ q.wrote = [state.obj.wrote EXCEPT ![0] = Plain(v)] /\ q.cur = 0
          /\ q.own = state.obj.own /\ q.wrote[0] = Plain(v)
      BY <3>2, <3>3, <1>1, RetaggedForm DEF States
    <3>5. p = [state EXCEPT !.obj = q]
      BY <3>1, <3>3 DEF Retagged
    <3>6. p \in States(Faders) /\ p.mod = state.mod /\ p.obj = q
      BY <3>4, <3>5, <1>1, RetaggedState
    <3> QED BY <3>2, <3>4, <3>6, <1>1 DEF FaderAt
  <2> QED BY <2>1, <2>2, <2>3, <1>2 DEF StepperProduced
<1>4. state' = p
  <2>1. p = [obj |-> p.obj, mod |-> p.mod]
    BY <1>3, StateEqual DEF FaderAt
  <2> QED BY <2>1, <1>2, ProduceFrame
<1>5. FaderInv'
  BY <1>1, <1>2, <1>3, <1>4, ProduceFrame, StateForm DEF FaderInv
<1> QED BY <1>2, <1>3, <1>4, <1>5, StateForm DEF FaderAt, States, ForeignUntouched, Owned

\* The fader begins without a colour.
LEMMA FaderInit0 ==
  ASSUME NEW v \in Looks
  PROVE  FaderAt(FaderInit(v)) /\ ~FaderInit(v).mod.lDrew /\ ~FaderInit(v).mod.pending
<1>1. FaderInit(v).obj = Fresh(v) /\ FaderInit(v).mod = NoFader /\ ~NoFader.lDrew /\ ~NoFader.pending
  BY DEF FaderInit, NoFader
<1>2. FaderInit(v) \in States(Faders)
  BY FreshForm DEF FaderInit, NoFader, States, Faders, Stored
<1>3. /\ Fresh(v).own = "object" /\ Fresh(v).cur = 0 /\ Fresh(v).wrote[0] \in Plains
      /\ Fresh(v).mem = Fresh(v).wrote
  BY FreshForm
<1> QED BY <1>1, <1>2, <1>3, Zenon DEF FaderAt

-----------------------------------------------------------------------------
(* The cloth mechanisms: rel, sail and dol.                                *)

\* The buffer production made current, whichever the packet shows.
Source(t) == IF Flipped(t) THEN t.mod.orig ELSE t.obj.cur

\* The source is as production wrote it; a flipped packet shows the other buffer, and
\* only cloth that is still alive is flipped.
ClothAt(t, k) ==
  /\ t \in States(Flips)
  /\ t.obj.mem[Source(t)] = t.obj.wrote[Source(t)]
  /\ Flipped(t) => Owned(t) /\ t.obj.cur = 1 - t.mod.orig
  /\ ~Owned(t) => t.obj.mem = t.obj.wrote
  /\ Owned(t) => t.obj.mem[Source(t)] \in Plains /\ t.obj.mem \in [Cells -> Values]
  /\ k = "sail" => Source(t) = 0
  /\ k = "dol" => ~Flipped(t)

\* The same cloth, but for what the mod does with the buffers.
SameCloth(r, t) ==
  /\ r.obj.wrote = t.obj.wrote /\ r.obj.own = t.obj.own /\ r.obj.new = t.obj.new
  /\ Source(r) = Source(t)

\* The source is one of the two buffers.
LEMMA SourceCell ==
  ASSUME NEW t \in States(Flips)
  PROVE  Source(t) \in Cells /\ 1 - Source(t) \in Cells /\ t.obj.cur \in Cells
BY DEF States, Flips, Objects, Cells, Source, Flipped, Unflipped

\* The cloth with other buffers, index and flip.
Shifted(t, m, c, g) == [obj |-> [t.obj EXCEPT !.mem = m, !.cur = c], mod |-> [orig |-> g]]

\* Cloth with other buffers, typed.
LEMMA ClothMoved ==
  ASSUME NEW t \in States(Flips), NEW m \in [Cells -> Stored], NEW c \in Cells, NEW g \in 0..2,
         NEW r, r = Shifted(t, m, c, g)
  PROVE  /\ r \in States(Flips) /\ r.obj.mem = m /\ r.obj.cur = c /\ r.mod.orig = g
         /\ r.obj.wrote = t.obj.wrote /\ r.obj.own = t.obj.own /\ r.obj.new = t.obj.new
<1>0. PICK o : o = [t.obj EXCEPT !.mem = m, !.cur = c]
  OBVIOUS
<1>1. o \in Objects /\ o.mem = m /\ o.cur = c /\ o.wrote = t.obj.wrote /\ o.own = t.obj.own
      /\ o.new = t.obj.new
  BY <1>0 DEF States, Objects
<1>2. r = [obj |-> o, mod |-> [orig |-> g]]
  BY <1>0 DEF Shifted
<1>4. r.obj = o /\ r.mod = [orig |-> g] /\ r.mod.orig = g
  BY <1>2
<1>3. r \in States(Flips)
  BY <1>1, <1>2 DEF States, Flips
<1> QED BY <1>1, <1>4, <1>3

\* Unflipping shows the source again and changes no buffer.
LEMMA UnflipForm ==
  ASSUME NEW k, NEW t, ClothAt(t, k), NEW r, r = Unflip(t)
  PROVE  /\ ClothAt(r, k) /\ ~Flipped(r) /\ SameCloth(r, t) /\ r.obj.mem = t.obj.mem
         /\ r.obj.cur = Source(t)
<1>1. t \in States(Flips) /\ t.obj.mem \in [Cells -> Stored] /\ Source(t) \in Cells
  BY SourceCell DEF ClothAt, States, Objects
<1>2. CASE ~Flipped(t)
  BY <1>2 DEF Unflip, SameCloth, Source
<1>3. CASE Flipped(t)
  <2>1. PICK o : o = [t.obj EXCEPT !.mem = t.obj.mem, !.cur = Source(t)]
    OBVIOUS
  <2>2. r = [obj |-> o, mod |-> [orig |-> 2]]
    <3>1. r = [t EXCEPT !.obj.cur = t.mod.orig, !.mod.orig = 2]
      BY <1>3 DEF Unflip, Unflipped
    <3>2. PICK q : q = [t.obj EXCEPT !.cur = t.mod.orig]
      OBVIOUS
    <3>3. r = [obj |-> q, mod |-> [orig |-> 2]]
      BY <3>1, <3>2, <1>1 DEF States, Flips
    <3>4. q = o
      BY <1>1, <1>3, <3>2, <2>1 DEF Source, States, Objects
    <3> QED BY <3>3, <3>4
  <2>3. /\ r \in States(Flips) /\ r.obj.mem = t.obj.mem /\ r.obj.cur = Source(t) /\ r.mod.orig = 2
        /\ r.obj.wrote = t.obj.wrote /\ r.obj.own = t.obj.own /\ r.obj.new = t.obj.new
        /\ ~Flipped(r)
    <3>1. PICK m, s : m = t.obj.mem /\ s = Source(t)
      OBVIOUS
    <3>2. r = Shifted(t, m, s, 2) /\ m \in [Cells -> Stored] /\ s \in Cells
      BY <1>1, <2>1, <2>2, <3>1 DEF Shifted
    <3>3. /\ r \in States(Flips) /\ r.obj.mem = m /\ r.obj.cur = s /\ r.mod.orig = 2
          /\ r.obj.wrote = t.obj.wrote /\ r.obj.own = t.obj.own /\ r.obj.new = t.obj.new
      <4>1. t \in States(Flips)
        BY <1>1
      <4> QED BY <4>1, <3>2, ClothMoved
    <3> QED BY <3>1, <3>3 DEF Flipped, Unflipped
  <2>4. Source(r) = Source(t)
    BY <2>3 DEF Source
  <2> QED BY <2>3, <2>4 DEF ClothAt, SameCloth, Owned
<1> QED BY <1>2, <1>3

\* An L frame keeps what the sail shows.
LEMMA ClothPainterForm ==
  ASSUME NEW k \in ClothKinds, NEW t, ClothAt(t, k), NEW f \in Frames, NEW r, r = ClothPainter(t, k, f)
  PROVE  /\ ClothAt(r, k) /\ ~Flipped(r) /\ SameCloth(r, t) /\ r.obj.cur = Source(t)
         /\ IF f.split /\ f.class = "L" /\ k = "sail" /\ Owned(t)
            THEN r.obj.mem[0] = t.obj.mem[0] /\ r.obj.mem[1] = t.obj.mem[0]
            ELSE r.obj.mem = t.obj.mem
<1>1. PICK u : u = Unflip(t)
  OBVIOUS
<1>2. /\ ClothAt(u, k) /\ ~Flipped(u) /\ SameCloth(u, t) /\ u.obj.mem = t.obj.mem
      /\ u.obj.cur = Source(t)
  BY <1>1, UnflipForm
<1>3. Owned(u) <=> Owned(t)
  BY <1>2 DEF SameCloth, Owned
<1>4. CASE ~(f.split /\ f.class = "L" /\ k = "sail" /\ Owned(u))
  <2>1. r = u
    BY <1>1, <1>4, Zenon DEF ClothPainter
  <2> QED BY <2>1, <1>2, <1>3, <1>4
<1>5. CASE f.split /\ f.class = "L" /\ k = "sail" /\ Owned(u)
  <2>1. u.obj.cur = 0 /\ Source(u) = 0 /\ u \in States(Flips)
    BY <1>2, <1>5 DEF ClothAt, Source
  <2>2. r = [u EXCEPT !.obj.mem[1] = u.obj.mem[0]]
    BY <1>1, <1>5, <2>1, Zenon DEF ClothPainter
  <2>3. PICK m : m = [u.obj.mem EXCEPT ![1] = u.obj.mem[0]]
    OBVIOUS
  <2>4. PICK o : o = [u.obj EXCEPT !.mem = m, !.cur = 0]
    OBVIOUS
  <2>5. u.obj.mem \in [Cells -> Stored] /\ u.obj.mem \in [Cells -> Values] /\ u.mod = [orig |-> 2]
    BY <1>2, <1>5, <2>1 DEF ClothAt, States, Objects, Flips, Flipped, Unflipped
  <2>6. m \in [Cells -> Stored] /\ m \in [Cells -> Values] /\ m[0] = u.obj.mem[0] /\ m[1] = u.obj.mem[0]
    BY <2>3, <2>5 DEF Cells
  <2>7. r = [obj |-> o, mod |-> [orig |-> 2]]
    <3>1. PICK q : q = [u.obj EXCEPT !.mem = m]
      OBVIOUS
    <3>2. r = [u EXCEPT !.obj = q]
      BY <2>2, <2>3, <3>1
    <3>3. r = [obj |-> q, mod |-> u.mod]
      BY <3>2, <2>1, ObjectForm
    <3>4. q = o
      BY <2>1, <2>4, <3>1 DEF States, Objects
    <3> QED BY <3>3, <3>4, <2>5
  <2>8. /\ r \in States(Flips) /\ r.obj.mem = m /\ r.obj.cur = 0 /\ r.mod.orig = 2
        /\ r.obj.wrote = u.obj.wrote /\ r.obj.own = u.obj.own /\ r.obj.new = u.obj.new
        /\ ~Flipped(r)
    <3>1. r = Shifted(u, m, 0, 2) /\ 0 \in Cells
      BY <2>4, <2>7 DEF Shifted, Cells
    <3>2. /\ r \in States(Flips) /\ r.obj.mem = m /\ r.obj.cur = 0 /\ r.mod.orig = 2
          /\ r.obj.wrote = u.obj.wrote /\ r.obj.own = u.obj.own /\ r.obj.new = u.obj.new
      <4>1. u \in States(Flips) /\ m \in [Cells -> Stored]
        BY <2>1, <2>6
      <4> QED BY <4>1, <3>1, ClothMoved
    <3> QED BY <3>2 DEF Flipped, Unflipped
  <2>9. Source(r) = 0
    BY <2>8 DEF Source
  <2>10. u.obj.mem[0] = u.obj.wrote[0] /\ u.obj.mem[0] \in Plains
    BY <1>2, <1>5, <2>1 DEF ClothAt
  <2>11. ClothAt(r, k)
    BY <1>5, <2>6, <2>8, <2>9, <2>10 DEF ClothAt, Owned
  <2>12. SameCloth(r, t)
    BY <1>2, <2>1, <2>8, <2>9 DEF SameCloth
  <2> QED BY <2>11, <2>12, <2>8, <2>6, <1>2, <1>3, <1>5, <2>1
<1> QED BY <1>4, <1>5

\* The blend of the other buffer, and the flip.
LEMMA BlendedForm ==
  ASSUME NEW k, k # "dol", NEW t, ClothAt(t, k), ~Flipped(t), Owned(t),
         NEW c, c = t.obj.cur, NEW l, l = t.obj.mem, NEW r, r = Blended(t, 1 - c, c)
  PROVE  /\ ClothAt(r, k) /\ SameCloth(r, t)
         /\ \/ r = t
            \/ /\ ~Far(l[1 - c], l[c])
               /\ r.obj.mem = [l EXCEPT ![1 - c] = Mix(l[1 - c], l[c])]
               /\ Live(r) = Mix(l[1 - c], l[c])
               /\ Flipped(r) /\ r.mod.orig = c /\ r.obj.cur = 1 - c
<1>1. /\ t \in States(Flips) /\ c \in Cells /\ 1 - c \in Cells /\ Source(t) = c
      /\ t.obj.mem \in [Cells -> Stored] /\ t.obj.mem \in [Cells -> Values]
      /\ t.obj.mem[c] = t.obj.wrote[c] /\ t.obj.mem[c] \in Plains
  BY SourceCell DEF ClothAt, States, Objects, Source, Cells
<1>2. CASE Far(t.obj.mem[1 - c], t.obj.mem[c])
  BY <1>2 DEF Blended, SameCloth
<1>3. CASE ~Far(t.obj.mem[1 - c], t.obj.mem[c])
  <2>1. PICK x : x = Mix(t.obj.mem[1 - c], t.obj.mem[c])
    OBVIOUS
  <2>2. x \in Values /\ x \in Stored
    <3>1. t.obj.mem[1 - c] \in Values /\ t.obj.mem[c] \in Values
      BY <1>1
    <3> QED BY <2>1, <3>1, MixPair DEF Stored
  <2>3. PICK m : m = [t.obj.mem EXCEPT ![1 - c] = x]
    OBVIOUS
  <2>4. m \in [Cells -> Stored] /\ m \in [Cells -> Values] /\ m[c] = t.obj.mem[c] /\ m[1 - c] = x
    BY <1>1, <2>2, <2>3 DEF Cells
  <2>5. PICK o : o = [t.obj EXCEPT !.mem = m, !.cur = 1 - c]
    OBVIOUS
  <2>6. r = [obj |-> o, mod |-> [orig |-> c]]
    <3>1. r = [t EXCEPT !.obj.mem[1 - c] = x, !.obj.cur = 1 - c, !.mod.orig = c]
      BY <1>3, <2>1 DEF Blended
    <3>2. r.obj = o
      BY <3>1, <2>3, <2>5, <1>1 DEF States, Objects
    <3>3. r.mod = [orig |-> c]
      BY <3>1, <1>1 DEF States, Flips
    <3>4. r = [obj |-> r.obj, mod |-> r.mod]
      BY <3>1, <1>1 DEF States
    <3> QED BY <3>2, <3>3, <3>4
  <2>7. c \in 0..2 /\ c # 2
    BY <1>1 DEF Cells
  <2>8. /\ r \in States(Flips) /\ r.obj.mem = m /\ r.obj.cur = 1 - c /\ r.mod.orig = c
        /\ r.obj.wrote = t.obj.wrote /\ r.obj.own = t.obj.own /\ r.obj.new = t.obj.new
        /\ Flipped(r)
    <3>1. PICK e : e = 1 - c
      OBVIOUS
    <3>2. r = Shifted(t, m, e, c) /\ e \in Cells
      BY <1>1, <2>5, <2>6, <3>1 DEF Shifted
    <3>3. /\ r \in States(Flips) /\ r.obj.mem = m /\ r.obj.cur = e /\ r.mod.orig = c
          /\ r.obj.wrote = t.obj.wrote /\ r.obj.own = t.obj.own /\ r.obj.new = t.obj.new
      <4>1. t \in States(Flips) /\ m \in [Cells -> Stored] /\ c \in 0..2
        BY <1>1, <2>4, <2>7
      <4> QED BY <4>1, <3>2, ClothMoved
    <3> QED BY <2>7, <3>1, <3>3 DEF Flipped, Unflipped
  <2>9. Source(r) = c /\ Live(r) = x
    BY <2>8, <2>4 DEF Source, Live
  <2>10. ClothAt(r, k)
    BY <1>1, <2>4, <2>8, <2>9 DEF ClothAt, Owned
  <2>11. SameCloth(r, t)
    BY <1>1, <2>8, <2>9 DEF SameCloth
  <2> QED BY <1>3, <2>1, <2>3, <2>8, <2>9, <2>10, <2>11
<1> QED BY <1>2, <1>3

\* What Painter's entry and draw are, for cloth.
LEMMA ClothEntry ==
  ASSUME NEW b, NEW f \in Frames, tracked \in ClothKinds
  PROVE  /\ \A e \in EntryOf(b, f) :
              \E c : /\ c = ClothPainter(b, tracked, f)
                     /\ IF f.split /\ f.class = "R" /\ ~f.dup
                        THEN \E room \in BOOLEAN : e = ClothR(c, tracked, f.cut, room)
                        ELSE e = c
         /\ \A e : DrawOf(e, f) = {ClothDrawn(e, tracked, f)}
         /\ ResetOf(b) = Unflip(b) /\ ProducedBy(b) = ClothProduced(b, tracked)
<1>1. tracked \in {"rel", "sail", "dol"}
  BY DEF ClothKinds
<1>2. PICK c : c = ClothPainter(b, tracked, f)
  OBVIOUS
<1>3. /\ LframeOf(c) = {c} /\ DupOf(c) = c
      /\ RframeOf(c, f.cut) = {ClothR(c, tracked, f.cut, room) : room \in BOOLEAN}
  BY <1>1 DEF LframeOf, RframeOf, DupOf, PoseKinds, ClothKinds
<1>4. EntryOf(b, f) = IF f.split /\ f.class = "R" /\ ~f.dup
                      THEN {ClothR(c, tracked, f.cut, room) : room \in BOOLEAN} ELSE {c}
  <2>1. EntryOf(b, f) = IF ~f.split THEN {c} ELSE IF f.class = "L" THEN LframeOf(c)
                        ELSE IF f.dup THEN {DupOf(c)} ELSE RframeOf(c, f.cut)
    BY <1>2, Zenon DEF EntryOf
  <2> QED BY <2>1, <1>3 DEF Frames
<1>5. \A e : DrawOf(e, f) = {ClothDrawn(e, tracked, f)}
  BY <1>1 DEF DrawOf, ClothKinds
<1>6. ResetOf(b) = Unflip(b) /\ ProducedBy(b) = ClothProduced(b, tracked)
  BY <1>1 DEF ResetOf, ProducedBy, PoseKinds, ClothKinds
<1> QED BY <1>2, <1>4, <1>5, <1>6

\* A Painter and its draw leave the source as it is, and blend the other buffer on an
\* R frame only.
LEMMA ClothDraw ==
  ASSUME NEW k \in ClothKinds, NEW t, ClothAt(t, k), NEW f \in Frames, f.class = "R" => f.split,
         NEW c, c = ClothPainter(t, k, f), NEW e, NEW room \in BOOLEAN,
         IF f.split /\ f.class = "R" /\ ~f.dup THEN e = ClothR(c, k, f.cut, room) ELSE e = c,
         NEW d, d = ClothDrawn(e, k, f), NEW n, n = Source(t), NEW l, l = t.obj.mem
  PROVE  /\ ClothAt(d.s, k) /\ SameCloth(d.s, t) /\ n \in Cells
         /\ f.class = "L" \/ f.dup => ~Flipped(d.s)
         /\ f.class = "L" => d.drawn = d.s.obj.mem[n]
         /\ f.class = "L" /\ f.split /\ k = "sail" /\ Owned(t) => d.s.obj.mem[1] = d.s.obj.mem[0]
         /\ f.class = "R" =>
              \/ d.s.obj.mem = l /\ (f.dup \/ d.drawn = d.s.obj.mem[n]) /\ ~Flipped(d.s)
              \/ /\ ~f.dup /\ ~f.cut /\ ~Far(l[1 - n], l[n]) /\ Owned(t)
                 /\ d.s.obj.mem = [l EXCEPT ![1 - n] = Mix(l[1 - n], l[n])]
                 /\ d.drawn = Mix(l[1 - n], l[n])
<1>1. /\ ClothAt(c, k) /\ ~Flipped(c) /\ SameCloth(c, t) /\ c.obj.cur = n
      /\ IF f.split /\ f.class = "L" /\ k = "sail" /\ Owned(t)
         THEN c.obj.mem[0] = t.obj.mem[0] /\ c.obj.mem[1] = t.obj.mem[0]
         ELSE c.obj.mem = t.obj.mem
  BY ClothPainterForm
<1>2. Live(c) = c.obj.mem[n] /\ (Owned(c) <=> Owned(t)) /\ Source(c) = n
  BY <1>1 DEF Live, SameCloth, Owned
<1>3. n \in Cells
  BY SourceCell DEF ClothAt
<1>4. ASSUME NEW r, r = Unflip(c)
      PROVE  r = c
  BY <1>1, <1>4 DEF Unflip
<1>5. CASE /\ f.class = "L" \/ f.dup
  <2>1. e = c
    BY <1>5 DEF Frames
  <2>2. d.drawn = Live(c) /\ d.s = c
    <3>1. ~(k = "dol" /\ f.split /\ f.class = "R" /\ ~f.dup /\ ~f.cut /\ Owned(e))
      BY <1>5
    <3>2. d = [s |-> IF k = "dol" THEN Unflip(e) ELSE e, drawn |-> Live(e)]
      BY <3>1, Zenon DEF ClothDrawn
    <3> QED BY <3>2, <2>1, <1>4
  <2>3. CASE f.class = "L"
    BY <2>2, <2>3, <1>1, <1>2, <1>3
  <2>4. CASE f.class # "L"
    <3>1. c.obj.mem = t.obj.mem
      BY <1>1, <2>4
    <3> QED BY <2>2, <2>4, <3>1, <1>1, <1>2, <1>3, <1>5
  <2> QED BY <2>3, <2>4
<1>6. CASE f.class = "R" /\ ~f.dup /\ k # "dol"
  <2>1. e = ClothR(c, k, f.cut, room)
    BY <1>6
  <2>2. d.drawn = Live(e) /\ d.s = e
    BY <1>6 DEF ClothDrawn
  <2>3. c.obj.mem = t.obj.mem
    BY <1>1, <1>6
  <2>4. CASE e = c
    BY <2>2, <2>3, <2>4, <1>1, <1>2, <1>3, <1>6
  <2>5. CASE e # c
    <3>1. Owned(c) /\ ~f.cut /\ e = Blended(c, 1 - n, n)
      BY <2>1, <2>5, <1>1 DEF ClothR
    <3>2. PICK m : m = c.obj.mem
      OBVIOUS
    <3>3. /\ ClothAt(e, k) /\ SameCloth(e, c)
          /\ ~Far(m[1 - n], m[n])
          /\ e.obj.mem = [m EXCEPT ![1 - n] = Mix(m[1 - n], m[n])]
          /\ Live(e) = Mix(m[1 - n], m[n])
      <4>1. n = c.obj.cur /\ m = c.obj.mem
        BY <3>2, <1>1
      <4>2. ClothAt(c, k) /\ ~Flipped(c) /\ Owned(c) /\ k # "dol" /\ e = Blended(c, 1 - n, n)
        BY <3>1, <1>1, <1>6
      <4>3. /\ ClothAt(e, k) /\ SameCloth(e, c)
            /\ \/ e = c
               \/ /\ ~Far(m[1 - n], m[n])
                  /\ e.obj.mem = [m EXCEPT ![1 - n] = Mix(m[1 - n], m[n])]
                  /\ Live(e) = Mix(m[1 - n], m[n])
        BY <4>1, <4>2, BlendedForm
      <4> QED BY <4>3, <2>5
    <3>4. SameCloth(e, t)
      BY <3>3, <1>1 DEF SameCloth
    <3> QED BY <3>1, <3>2, <3>3, <3>4, <2>2, <2>3, <1>2, <1>3, <1>6
  <2> QED BY <2>4, <2>5
<1>7. CASE f.class = "R" /\ ~f.dup /\ k = "dol"
  <2>1. e = c
    BY <1>7 DEF ClothR
  <2>2. c.obj.mem = t.obj.mem
    BY <1>1, <1>7
  <2>3. CASE f.cut \/ ~Owned(c)
    <3>1. d.drawn = Live(c) /\ d.s = c
      <4>1. d = [s |-> Unflip(c), drawn |-> Live(c)]
        BY <1>7, <2>1, <2>3 DEF ClothDrawn
      <4> QED BY <4>1, <1>4
    <3> QED BY <3>1, <2>2, <2>3, <1>1, <1>2, <1>3, <1>7
  <2>4. CASE ~f.cut /\ Owned(c)
    <3>1. PICK b : b = Blended(c, 1 - n, n)
      OBVIOUS
    <3>2. d.drawn = Live(b) /\ d.s = Unflip(b)
      <4>1. d = [s |-> Unflip(b), drawn |-> Live(b)]
        BY <1>1, <1>7, <2>1, <2>4, <3>1 DEF ClothDrawn
      <4> QED BY <4>1
    <3>3. PICK m : m = c.obj.mem
      OBVIOUS
    <3>4. ClothAt(c, "rel")
      BY <1>1 DEF ClothAt
    <3>5. /\ ClothAt(b, "rel") /\ SameCloth(b, c)
          /\ \/ b = c
             \/ /\ ~Far(m[1 - n], m[n])
                /\ b.obj.mem = [m EXCEPT ![1 - n] = Mix(m[1 - n], m[n])]
                /\ Live(b) = Mix(m[1 - n], m[n])
      <4>1. "rel" # "dol"
        OBVIOUS
      <4>2. n = c.obj.cur /\ m = c.obj.mem
        BY <3>3, <1>1
      <4>3. ~Flipped(c) /\ Owned(c)
        BY <2>4, <1>1
      <4> QED BY <4>1, <4>2, <4>3, <3>1, <3>4, BlendedForm
    <3>6. PICK r : r = d.s
      OBVIOUS
    <3>7. /\ ClothAt(r, "rel") /\ ~Flipped(r) /\ SameCloth(r, b) /\ r.obj.mem = b.obj.mem
      BY <3>2, <3>5, <3>6, UnflipForm
    <3>8. ClothAt(r, "dol")
      BY <3>7 DEF ClothAt
    <3>9. SameCloth(r, t)
      BY <3>7, <3>5, <1>1 DEF SameCloth
    <3> QED BY <3>2, <3>3, <3>5, <3>6, <3>7, <3>8, <3>9, <2>2, <2>4, <1>1, <1>2, <1>3, <1>7
  <2> QED BY <2>3, <2>4
<1> QED BY <1>5, <1>6, <1>7 DEF Frames

-----------------------------------------------------------------------------
(* Cloth: a Painter.                                                       *)

\* What the other buffer holds of what was shown last, before an R frame.
ClothSeen(t, k, sh) ==
  LET c == Source(t)
      m == t.obj.mem
  IN IF k = "sail"
     THEN \/ m[1] = m[0]
          \/ ~t.obj.new /\ sh \in Plains /\ m[1][1] = sh[1]
     ELSE \/ sh = t.obj.wrote[c] \/ m[1 - c] = m[c]
          \/ /\ ~t.obj.new /\ sh \in Plains
             /\ m[1 - c] = sh \/ (m[1 - c] = Mix(sh, m[c]) /\ ~Far(sh, m[c]))

\* The invariant of cloth: a flip lasts at most until the next L frame, and after the
\* game's frame the source is what it showed.
ClothInv ==
  tracked \in ClothKinds =>
    /\ ClothAt(state, tracked)
    /\ Flipped(state) => splitMode /\ turn = "painter"
    /\ turn = "produce" /\ Owned(state) => shown = obj.wrote[Source(state)] /\ ~obj.new
    /\ turn = "produce" /\ splitMode /\ Owned(state) /\ tracked = "sail" => obj.mem[1] = shown
    /\ turn = "painter" /\ Owned(state) /\ (tracked = "sail" => splitMode) =>
         ClothSeen(state, tracked, shown)

\* A Painter's draws, from the entry to the return.
LEMMA ClothBegun ==
  ASSUME ClothInv, tracked \in ClothKinds, NEW f, Playable(f), NEW b, b = Begun(f)
  PROVE  /\ ClothAt(b, tracked) /\ SameCloth(b, state) /\ b.obj.mem = state.obj.mem
         /\ \A d \in UNION {DrawOf(e, f) : e \in EntryOf(b, f)} :
              \E c, e : \E room \in BOOLEAN :
                 /\ c = ClothPainter(b, tracked, f)
                 /\ IF f.split /\ f.class = "R" /\ ~f.dup
                    THEN e = ClothR(c, tracked, f.cut, room) ELSE e = c
                 /\ d = ClothDrawn(e, tracked, f)
<1>1. f \in Frames
  BY DEF Playable
<1>2. ClothAt(b, tracked) /\ SameCloth(b, state) /\ b.obj.mem = state.obj.mem
  <2>1. CASE f.split <=> splitMode
    BY <2>1 DEF Begun, ClothInv, SameCloth
  <2>2. CASE ~(f.split <=> splitMode)
    <3>1. b = Unflip(state)
      BY <2>2, <1>1, ClothEntry DEF Begun
    <3> QED BY <3>1, UnflipForm DEF ClothInv
  <2> QED BY <2>1, <2>2
<1>3. ASSUME NEW d \in UNION {DrawOf(e, f) : e \in EntryOf(b, f)}
      PROVE  \E c, e : \E room \in BOOLEAN :
                 /\ c = ClothPainter(b, tracked, f)
                 /\ IF f.split /\ f.class = "R" /\ ~f.dup
                    THEN e = ClothR(c, tracked, f.cut, room) ELSE e = c
                 /\ d = ClothDrawn(e, tracked, f)
  <2>1. PICK e \in EntryOf(b, f) : d \in DrawOf(e, f)
    BY <1>3
  <2>2. d = ClothDrawn(e, tracked, f)
    BY <1>1, <2>1, ClothEntry
  <2>3. PICK c : /\ c = ClothPainter(b, tracked, f)
                 /\ IF f.split /\ f.class = "R" /\ ~f.dup
                    THEN \E room \in BOOLEAN : e = ClothR(c, tracked, f.cut, room)
                    ELSE e = c
    BY <1>1, <2>1, ClothEntry, Zenon
  <2>4. CASE f.split /\ f.class = "R" /\ ~f.dup
    <3>1. PICK room \in BOOLEAN : e = ClothR(c, tracked, f.cut, room)
      BY <2>3, <2>4
    <3> QED BY <2>2, <2>3, <2>4, <3>1, Zenon
  <2>5. CASE ~(f.split /\ f.class = "R" /\ ~f.dup)
    <3>1. TRUE \in BOOLEAN /\ e = c
      BY <2>3, <2>5
    <3> QED BY <2>2, <2>3, <2>5, <3>1, Zenon
  <2> QED BY <2>4, <2>5
<1> QED BY <1>2, <1>3

\* Mixing towards what production wrote.
LEMMA MixOf ==
  ASSUME NEW x \in Plains, NEW p \in Values, NEW q \in Plains
  PROVE  /\ Mix(x, x) = x /\ Mix(Mix(p, x), x) = Mix(p, x) /\ Mix(p, x)[2] = x[2]
         /\ p[1] = q[1] => Mix(p, x) = Mix(q, x)
         /\ Mix(p, x)[1] = p[1] /\ Mix(p, x) \in Values /\ Mix(p, x) # Nothing
<1>1. x = <<x[1], x[2]>> /\ p = <<p[1], p[2]>> /\ x \in Values
  BY PlainPair DEF Values
<1>2. Mix(p, x) \in Values /\ Mix(p, x) # Nothing
  BY <1>1, MixPair
<1> QED BY <1>1, <1>2 DEF Mix

\* A Painter's draw, with the buffers the state had before it.
LEMMA ClothPaintDraw ==
  ASSUME ClothInv, tracked \in ClothKinds, NEW f, Playable(f), NEW b, b = Begun(f), NEW n, n = Source(b),
         NEW l, l = state.obj.mem, NEW e \in EntryOf(b, f), NEW d \in DrawOf(e, f), NEW s, s = d.s
  PROVE  /\ ClothAt(s, tracked) /\ SameCloth(s, b) /\ n \in Cells
         /\ f.class = "L" \/ f.dup => ~Flipped(s)
         /\ f.class = "L" => d.drawn = s.obj.mem[n]
         /\ f.class = "L" /\ f.split /\ tracked = "sail" /\ Owned(b) => s.obj.mem[1] = s.obj.mem[0]
         /\ f.class = "R" =>
              \/ s.obj.mem = l /\ (f.dup \/ d.drawn = s.obj.mem[n]) /\ ~Flipped(s)
              \/ /\ ~f.dup /\ ~f.cut /\ ~Far(l[1 - n], l[n]) /\ Owned(b)
                 /\ s.obj.mem = [l EXCEPT ![1 - n] = Mix(l[1 - n], l[n])]
                 /\ d.drawn = Mix(l[1 - n], l[n])
<1>1. f \in Frames /\ (f.class = "R" => f.split)
  BY DEF Playable
<1>2. d \in UNION {DrawOf(x, f) : x \in EntryOf(b, f)}
  OBVIOUS
<1>3. PICK c, x : \E room \in BOOLEAN :
               /\ c = ClothPainter(b, tracked, f)
               /\ IF f.split /\ f.class = "R" /\ ~f.dup
                  THEN x = ClothR(c, tracked, f.cut, room) ELSE x = c
               /\ d = ClothDrawn(x, tracked, f)
  BY <1>2, ClothBegun
<1>4. PICK room \in BOOLEAN :
               /\ c = ClothPainter(b, tracked, f)
               /\ IF f.split /\ f.class = "R" /\ ~f.dup
                  THEN x = ClothR(c, tracked, f.cut, room) ELSE x = c
               /\ d = ClothDrawn(x, tracked, f)
  BY <1>3
<1>5. ClothAt(b, tracked) /\ b.obj.mem = l
  BY ClothBegun
<1>6. PICK m : m = b.obj.mem
  OBVIOUS
<1>7. /\ ClothAt(d.s, tracked) /\ SameCloth(d.s, b) /\ n \in Cells
      /\ f.class = "L" \/ f.dup => ~Flipped(d.s)
      /\ f.class = "L" => d.drawn = d.s.obj.mem[n]
      /\ f.class = "L" /\ f.split /\ tracked = "sail" /\ Owned(b) => d.s.obj.mem[1] = d.s.obj.mem[0]
      /\ f.class = "R" =>
           \/ d.s.obj.mem = m /\ (f.dup \/ d.drawn = d.s.obj.mem[n]) /\ ~Flipped(d.s)
           \/ /\ ~f.dup /\ ~f.cut /\ ~Far(m[1 - n], m[n]) /\ Owned(b)
              /\ d.s.obj.mem = [m EXCEPT ![1 - n] = Mix(m[1 - n], m[n])]
              /\ d.drawn = Mix(m[1 - n], m[n])
  BY <1>1, <1>4, <1>5, <1>6, ClothDraw
<1> QED BY <1>5, <1>6, <1>7

\* Every Painter keeps the invariant of cloth, and the promises.
LEMMA ClothPaint ==
  ASSUME Turns, ClothInv, tracked \in ClothKinds, shown \in Plains \cup {Nothing, Plain(Alien)},
         Paints
  PROVE  /\ obj' \in Objects /\ mod' \in Flips
         /\ drawn' \in Values \cup {Nothing, Plain(Alien)}
         /\ shown' \in Plains \cup {Nothing, Plain(Alien)}
         /\ ClothInv' /\ LogicSeesTruth' /\ ForeignUntouched' /\ RFrameInterpolates'
<1>1. /\ ClothAt(state, tracked) /\ tracked # "fader" /\ tracked \notin PoseKinds
      /\ tracked \notin {"pre", "post"}
  BY DEF ClothInv, ClothKinds, PoseKinds
<1>3. \A f : Playable(f) =>
        \A e \in EntryOf(Begun(f), f) : \A d \in DrawOf(e, f) : d.s \in States(Flips)
  BY ClothPaintDraw DEF ClothAt
<1>4. PICK f : \E e \in EntryOf(Begun(f), f) : \E d \in DrawOf(e, f) :
           /\ Playable(f) /\ PacedBy(f) /\ Settles(d, f) /\ Turns'
           /\ state' \in States(Flips) /\ state'.obj = obj' /\ state'.mod = mod'
           /\ Live(state') = Live(d.s) /\ Truth(state') = Truth(d.s)
           /\ Owned(state') <=> Owned(d.s)
  BY <1>3, PaintStep
<1>5. PICK e \in EntryOf(Begun(f), f) : \E d \in DrawOf(e, f) :
           /\ Playable(f) /\ PacedBy(f) /\ Settles(d, f) /\ Turns'
           /\ state' \in States(Flips) /\ state'.obj = obj' /\ state'.mod = mod'
           /\ Live(state') = Live(d.s) /\ Truth(state') = Truth(d.s)
           /\ Owned(state') <=> Owned(d.s)
  BY <1>4
<1>6. PICK d \in DrawOf(e, f) :
           /\ Playable(f) /\ PacedBy(f) /\ Settles(d, f) /\ Turns'
           /\ state' \in States(Flips) /\ state'.obj = obj' /\ state'.mod = mod'
           /\ Live(state') = Live(d.s) /\ Truth(state') = Truth(d.s)
           /\ Owned(state') <=> Owned(d.s)
  BY <1>5
<1>7. PICK b, n, l : b = Begun(f) /\ n = Source(b) /\ l = state.obj.mem
  OBVIOUS
<1>8. ClothAt(b, tracked) /\ SameCloth(b, state) /\ b.obj.mem = l
  BY <1>6, <1>7, ClothBegun
<1>9. PICK s : s = d.s
  OBVIOUS
<1>10. /\ ClothAt(s, tracked) /\ SameCloth(s, b) /\ n \in Cells
       /\ f.class = "L" \/ f.dup => ~Flipped(s)
       /\ f.class = "L" => d.drawn = s.obj.mem[n]
       /\ f.class = "L" /\ f.split /\ tracked = "sail" /\ Owned(b) => s.obj.mem[1] = s.obj.mem[0]
       /\ f.class = "R" =>
            \/ s.obj.mem = l /\ (f.dup \/ d.drawn = s.obj.mem[n]) /\ ~Flipped(s)
            \/ /\ ~f.dup /\ ~f.cut /\ ~Far(l[1 - n], l[n]) /\ Owned(b)
               /\ s.obj.mem = [l EXCEPT ![1 - n] = Mix(l[1 - n], l[n])]
               /\ d.drawn = Mix(l[1 - n], l[n])
  BY <1>6, <1>7, <1>9, ClothPaintDraw
<1>11. /\ turn = "painter" /\ turn' = (IF f.class = "L" THEN "produce" ELSE "painter")
       /\ tracked' = tracked /\ splitMode' = f.split /\ (f.class = "R" => f.split /\ splitMode)
       /\ frameClass' = f.class /\ rDup' = f.dup /\ f.class \in {"L", "R"} /\ f.dup \in BOOLEAN
       /\ f.class = "R" /\ ~f.dup => (cut' <=> f.cut)
       /\ f.dup => f.class = "R"
  BY <1>6 DEF PacedBy, Playable, Frames
<1>12. /\ obj'.mem = s.obj.mem /\ obj'.wrote = s.obj.wrote /\ obj'.cur = s.obj.cur
       /\ obj'.own = s.obj.own /\ mod' = s.mod /\ obj' \in Objects /\ mod' \in Flips
  BY <1>6, <1>9 DEF Settles, States
<1>13. /\ (Owned(s) <=> Owned(state)) /\ (Owned(b) <=> Owned(state))
       /\ s.obj.wrote = state.obj.wrote /\ (s.obj.new = state.obj.new) /\ Source(s) = n /\ Source(state) = n
  BY <1>7, <1>8, <1>10 DEF SameCloth, Owned
<1>14. /\ drawn' = IF ~Owned(s) \/ f.dup THEN Nothing ELSE d.drawn
       /\ shown' = IF f.class = "L" /\ drawn' # Nothing THEN drawn' ELSE shown
  BY <1>1, <1>6, <1>9 DEF Settles, Look
<1>14a. obj'.new <=> state.obj.new /\ ~(f.class = "L" /\ drawn' # Nothing)
  <2>1. obj'.new <=> d.s.obj.new /\ ~(f.class = "L" /\ drawn' # Nothing)
    BY <1>6, Zenon DEF Settles
  <2> QED BY <2>1, <1>9, <1>13, Zenon
<1>15. Source(state') = n /\ (Flipped(state') <=> Flipped(s)) /\ state'.obj = obj' /\ state'.mod = mod'
  BY <1>6, <1>12, <1>13 DEF Source, Flipped
<1>16. ClothAt(state', tracked)
  <2>1. state' \in States(Flips) /\ (Owned(state') <=> Owned(s))
    BY <1>6, <1>9
  <2> QED BY <2>1, <1>10, <1>12, <1>13, <1>15 DEF ClothAt
<1>17. Owned(s) => s.obj.mem[n] \in Plains /\ s.obj.mem[n] = s.obj.wrote[n] /\ s.obj.mem \in [Cells -> Values]
  BY <1>10, <1>13 DEF ClothAt
<1>18. LastMade' = obj'.wrote[n] /\ LastMade' = state.obj.wrote[n]
  BY <1>11, <1>12, <1>13, <1>15 DEF LastMade, Source, Truth, Flipped
<1>19. Nothing \notin Plains /\ Plains \subseteq Values
  BY PlainPair
<1>20. f.class = "L" /\ Owned(s) => drawn' = s.obj.mem[n] /\ drawn' # Nothing /\ shown' = drawn'
                                 /\ drawn' = obj'.wrote[n] /\ ~obj'.new
  <2>1. f.class = "L" /\ Owned(s) => drawn' = s.obj.mem[n] /\ drawn' # Nothing /\ shown' = drawn'
                                 /\ drawn' = obj'.wrote[n]
    BY <1>10, <1>11, <1>12, <1>14, <1>17, <1>19
  <2> QED BY <2>1, <1>14a, Zenon
<1>21. CASE f.class = "L"
  <2>1. drawn' \in Values \cup {Nothing, Plain(Alien)} /\ shown' \in Plains \cup {Nothing, Plain(Alien)}
    BY <1>14, <1>17, <1>19, <1>20, <1>21
  <2>2. ClothInv'
    <3>1. Owned(state') <=> Owned(s)
      BY <1>6, <1>9
    <3>2. ~Flipped(state')
      BY <1>10, <1>15, <1>21
    <3>3. Owned(state') => shown' = obj'.wrote[Source(state')] /\ ~obj'.new
      BY <3>1, <1>15, <1>20, <1>21
    <3>4. f.split /\ Owned(state') /\ tracked = "sail" => obj'.mem[1] = shown'
      <4>1. tracked = "sail" => n = 0
        BY <1>10, <1>13 DEF ClothAt
      <4> QED BY <3>1, <4>1, <1>10, <1>12, <1>13, <1>20, <1>21
    <3> QED BY <3>2, <3>3, <3>4, <1>11, <1>15, <1>16, <1>21 DEF ClothInv
  <2>3. LogicSeesTruth'
    <3>1. Owned(state') => Live(state') = LastMade'
      <4>1. Owned(state') => Owned(s)
        BY <1>6, <1>9
      <4>2. s.obj.cur = n
        BY <1>10, <1>13, <1>21 DEF Source
      <4> QED BY <4>1, <4>2, <1>12, <1>15, <1>17, <1>18 DEF Live
    <3>2. drawn' \in {Nothing, LastMade'}
      BY <1>14, <1>18, <1>20, <1>21
    <3>3. tracked' \in ClothKinds
      BY <1>11
    <3> QED BY <3>1, <3>2, <3>3 DEF LogicSeesTruth
  <2>4. RFrameInterpolates'
    BY <1>11, <1>21 DEF RFrameInterpolates
  <2> QED BY <2>1, <2>2, <2>3, <2>4, <1>12, <1>16, <1>15 DEF ClothAt, ForeignUntouched
<1>22. CASE f.class = "R"
  <2>1. shown' = shown /\ turn' = "painter" /\ splitMode' = TRUE /\ (obj'.new <=> state.obj.new)
    <3>1. shown' = shown /\ turn' = "painter" /\ f.class # "L" /\ splitMode' = f.split /\ f.split
      BY <1>11, <1>14, <1>22
    <3> QED BY <3>1, <1>6, <1>14a, <1>22, Zenon DEF Playable, Frames
  <2>2. Owned(s) => ClothSeen(state, tracked, shown)
    BY <1>11, <1>13, <1>22 DEF ClothInv
  <2>3. PICK x, y : x = l[n] /\ y = l[1 - n]
    OBVIOUS
  <2>4. Owned(s) => /\ x \in Plains /\ y \in Values /\ x = state.obj.wrote[n] /\ l \in [Cells -> Values]
                    /\ n \in Cells /\ 1 - n \in Cells /\ n # 1 - n
    <3>1. Owned(s) => x \in Plains /\ x = state.obj.wrote[n] /\ l \in [Cells -> Values]
      BY <2>3, <1>1, <1>7, <1>13 DEF ClothAt
    <3>2. n \in Cells /\ 1 - n \in Cells /\ n # 1 - n
      BY <1>10 DEF Cells
    <3> QED BY <2>3, <3>1, <3>2
  <2>5. tracked = "sail" => n = 0
    BY <1>1, <1>13 DEF ClothAt
  <2>6. ClothSeen(state, tracked, shown) <=>
          IF tracked = "sail" THEN y = x \/ (~state.obj.new /\ shown \in Plains /\ y[1] = shown[1])
          ELSE \/ shown = state.obj.wrote[n] \/ y = x
               \/ /\ ~state.obj.new /\ shown \in Plains
                  /\ y = shown \/ (y = Mix(shown, x) /\ ~Far(shown, x))
    BY <2>3, <2>5, <1>7, <1>13 DEF ClothSeen
  <2>7. CASE s.obj.mem = l /\ (f.dup \/ d.drawn = s.obj.mem[n]) /\ ~Flipped(s)
    <3>1. drawn' = Nothing \/ (Owned(s) /\ drawn' = x)
      BY <2>7, <2>3, <1>14
    <3>2. Owned(s) => x = LastMade'
      BY <2>4, <1>18
    <3>3. drawn' \in Values \cup {Nothing, Plain(Alien)}
      BY <3>1, <2>4, <1>19
    <3>4. Owned(state') => ClothSeen(state', tracked, shown')
      <4>1. obj'.mem = state.obj.mem /\ obj'.wrote = state.obj.wrote
        BY <2>7, <1>7, <1>12, <1>13
      <4>2. Owned(state') => Owned(s)
        BY <1>6, <1>9
      <4>3. obj'.new <=> state.obj.new
        BY <2>1
      <4>4. PICK q : q = state'
        OBVIOUS
      <4>5. /\ Source(q) = Source(state) /\ q.obj.mem = state.obj.mem /\ q.obj.wrote = state.obj.wrote
            /\ q.obj.new <=> state.obj.new
        BY <4>1, <4>3, <4>4, <1>13, <1>15
      <4>6. ClothSeen(q, tracked, shown) <=> ClothSeen(state, tracked, shown)
        BY <4>5 DEF ClothSeen
      <4> QED BY <4>2, <4>4, <4>6, <2>1, <2>2
    <3>5. ClothInv'
      <4>1. ~Flipped(state')
        BY <2>7, <1>15
      <4> QED BY <3>4, <4>1, <2>1, <1>11, <1>16 DEF ClothInv
    <3>6. RFrameInterpolates'
      <4>1. drawn' # Nothing => drawn' = LastMade'
        BY <3>1, <3>2
      <4>2. tracked' \notin {"fader", "pre", "post"}
        BY <1>1, <1>11
      <4> QED BY <4>1, <4>2 DEF RFrameInterpolates
    <3> QED BY <3>3, <3>5, <3>6, <2>1, <1>12, <1>16, <1>15 DEF ClothAt, ForeignUntouched, LogicSeesTruth
  <2>8. CASE /\ ~f.dup /\ ~f.cut /\ ~Far(y, x) /\ Owned(s)
             /\ s.obj.mem = [l EXCEPT ![1 - n] = Mix(y, x)]
             /\ d.drawn = Mix(y, x)
    <3>1. /\ Mix(x, x) = x /\ Mix(y, x) \in Values /\ Mix(y, x) # Nothing /\ Mix(y, x)[2] = x[2]
          /\ Mix(y, x)[1] = y[1]
      BY <2>4, <2>8, MixOf
    <3>2. drawn' = Mix(y, x) /\ ~cut' /\ x = LastMade' /\ x = state.obj.wrote[n]
      BY <2>4, <2>8, <1>11, <1>14, <1>18, <1>22
    <3>3. obj'.mem[n] = x /\ obj'.mem[1 - n] = Mix(y, x)
      BY <2>3, <2>4, <2>8, <1>12
    <3>4. PICK q : q = state'
      OBVIOUS
    <3>5. /\ q.obj.mem[n] = x /\ q.obj.mem[1 - n] = Mix(y, x) /\ q.obj.wrote[n] = x
          /\ Source(q) = n /\ (q.obj.new <=> state.obj.new)
      BY <2>1, <3>2, <3>3, <3>4, <1>12, <1>13, <1>15
    <3>6. y = x => Mix(y, x) = x
      BY <3>1
    <3>7. shown \in Plains => /\ y[1] = shown[1] => Mix(y, x) = Mix(shown, x)
                              /\ Mix(Mix(shown, x), x) = Mix(shown, x)
                              /\ shown # Nothing
      BY <2>4, <2>8, <1>19, MixOf
    <3>8. ASSUME tracked = "sail"
          PROVE  ClothSeen(q, tracked, shown) /\ (drawn' = LastMade' \/ Between(drawn)' \/ Lagging(drawn)')
      <4>1. y = x \/ (~state.obj.new /\ shown \in Plains /\ y[1] = shown[1])
        BY <2>2, <2>6, <2>8, <3>8
      <4>2. ClothSeen(q, tracked, shown)
        BY <4>1, <3>1, <3>5, <3>6, <3>8, <2>5 DEF ClothSeen
      <4>3. drawn' = LastMade' \/ (~state.obj.new /\ shown # Nothing /\ drawn' = Mix(shown, LastMade'))
        BY <4>1, <3>2, <3>6, <3>7
      <4>4. drawn' = LastMade' \/ Between(drawn)'
        BY <4>3, <3>8, <2>1, <1>11 DEF Between
      <4> QED BY <4>2, <4>4
    <3>9. ASSUME tracked # "sail"
          PROVE  ClothSeen(q, tracked, shown) /\ (drawn' = LastMade' \/ Between(drawn)' \/ Lagging(drawn)')
      <4>0. tracked \in {"rel", "dol"}
        BY <3>9 DEF ClothKinds
      <4>1. \/ shown = x \/ y = x
            \/ /\ ~state.obj.new /\ shown \in Plains /\ Mix(y, x) = Mix(shown, x) /\ ~Far(shown, x)
        <5>1. \/ shown = x \/ y = x
              \/ /\ ~state.obj.new /\ shown \in Plains
                 /\ y = shown \/ (y = Mix(shown, x) /\ ~Far(shown, x))
          BY <2>2, <2>6, <2>8, <3>2, <3>9
        <5> QED BY <5>1, <2>8, <3>7
      <4>2. ClothSeen(q, tracked, shown)
        BY <4>1, <3>5, <3>6, <3>9 DEF ClothSeen
      <4>3. CASE y = x
        BY <4>2, <4>3, <3>2, <3>6
      <4>4. CASE shown = x
        <5>1. Lagging(drawn)'
          BY <4>0, <4>4, <3>1, <3>2, <2>1, <1>11 DEF Lagging
        <5> QED BY <4>2, <5>1
      <4>5. CASE ~state.obj.new /\ shown \in Plains /\ Mix(y, x) = Mix(shown, x) /\ ~Far(shown, x)
        <5>1. Between(drawn)'
          BY <4>5, <3>2, <3>7, <2>1, <1>11 DEF Between
        <5> QED BY <4>2, <5>1
      <4> QED BY <4>1, <4>3, <4>4, <4>5
    <3>10. ClothSeen(q, tracked, shown) /\ (drawn' = LastMade' \/ Between(drawn)' \/ Lagging(drawn)')
      BY <3>8, <3>9
    <3>11. ClothInv'
      BY <3>4, <3>10, <2>1, <1>11, <1>16 DEF ClothInv
    <3>12. RFrameInterpolates'
      <4>1. tracked' \notin {"fader", "pre", "post"}
        BY <1>1, <1>11
      <4> QED BY <4>1, <3>2, <3>10 DEF RFrameInterpolates
    <3>13. drawn' \in Values \cup {Nothing, Plain(Alien)}
      BY <3>1, <3>2
    <3> QED BY <3>11, <3>12, <3>13, <2>1, <1>12, <1>16, <1>15 DEF ClothAt, ForeignUntouched, LogicSeesTruth
  <2> QED BY <2>3, <2>7, <2>8, <1>10, <1>13, <1>22
<1> QED BY <1>11, <1>21, <1>22

-----------------------------------------------------------------------------
(* Cloth: production.                                                      *)

\* Memory that has gone to another owner holds what that one wrote.
LEMMA TakenForm ==
  ASSUME NEW o \in Objects, NEW g \in 0..2, NEW q, q = Taken(o, g)
  PROVE  /\ q \in Objects /\ q.mem = [c \in Cells |-> Plain(Alien)] /\ q.wrote = q.mem
         /\ q.cur = o.cur /\ q.own = "other" /\ q.tag = g /\ q.age = o.age /\ q.new = o.new
<1>1. PICK m : m = [c \in Cells |-> Plain(Alien)]
  OBVIOUS
<1>2. m \in [Cells -> Stored]
  BY <1>1 DEF Stored
<1>3. q = [o EXCEPT !.mem = m, !.wrote = m, !.own = "other", !.tag = g]
  BY <1>1 DEF Taken
<1> QED BY <1>1, <1>2, <1>3 DEF Objects

\* Production keeps the invariant of cloth.
LEMMA ClothProduce ==
  ASSUME Turns, ClothInv, tracked \in ClothKinds, ProduceObject
  PROVE  obj' \in Objects /\ mod' \in Flips /\ ClothInv' /\ ForeignUntouched'
<1>0. turn = "produce" /\ turn' = "painter" /\ shown' = shown /\ tracked' = tracked /\ splitMode' = splitMode
  BY ProduceFrame
<1>1. /\ ClothAt(state, tracked) /\ state \in States(Flips) /\ ~Flipped(state)
      /\ Owned(state) => shown = state.obj.wrote[Source(state)] /\ ~state.obj.new
      /\ splitMode /\ Owned(state) /\ tracked = "sail" => state.obj.mem[1] = shown
      /\ state.obj = obj /\ state.mod = mod
  BY <1>0, StateForm DEF ClothInv, ClothAt
<1>2. PICK p \in ClothProduced(state, tracked) : obj' = p.obj /\ mod' = p.mod
  BY ProduceFrame, ClothEntry, SomeFrame
<1>3. PICK n, l : n = state.obj.cur /\ l = state.obj.mem
  OBVIOUS
<1>4. Source(state) = n /\ n \in Cells /\ 1 - n \in Cells /\ n # 1 - n /\ l \in [Cells -> Stored]
  BY <1>1, <1>3 DEF Source, States, Objects, Cells
<1>5. Owned(state) => /\ l[n] = shown /\ shown \in Plains /\ l \in [Cells -> Values]
                      /\ shown = state.obj.wrote[n]
  BY <1>1, <1>3, <1>4 DEF ClothAt
<1>6. /\ ClothAt(p, tracked) /\ ~Flipped(p)
      /\ Owned(p) /\ (tracked = "sail" => splitMode) => ClothSeen(p, tracked, shown)
  <2>1. CASE p = state
    <3>1. tracked = "sail" => n = 0
      BY <1>1, <1>4 DEF ClothAt
    <3>2. Owned(p) /\ (tracked = "sail" => splitMode) => ClothSeen(p, tracked, shown)
      BY <2>1, <1>1, <1>3, <1>4, <1>5, <3>1 DEF ClothSeen
    <3> QED BY <2>1, <3>2, <1>1
  <2>2. CASE p = [state EXCEPT !.obj = Taken(state.obj, 0)]
    <3>1. PICK q : q = Taken(state.obj, 0)
      OBVIOUS
    <3>2. /\ q \in Objects /\ q.mem = [c \in Cells |-> Plain(Alien)] /\ q.wrote = q.mem
          /\ q.own = "other" /\ q.cur = n
      BY <3>1, <1>1, <1>3, TakenForm DEF States
    <3>3. p = [state EXCEPT !.obj = q]
      BY <2>2, <3>1
    <3>4. p \in States(Flips) /\ p.mod = state.mod /\ p.obj = q
      BY <3>2, <3>3, <1>1, RetaggedState
    <3>5. ~Owned(p) /\ ~Flipped(p) /\ Source(p) = n
      BY <3>2, <3>4, <1>1 DEF Owned, Flipped, Source
    <3>6. tracked = "sail" => n = 0
      BY <1>1, <1>4 DEF ClothAt
    <3> QED BY <3>2, <3>4, <3>5, <3>6 DEF ClothAt
  <2>3. CASE Owned(state) /\ \E v \in Looks :
               p = [state EXCEPT !.obj = Wrote(state.obj, IF tracked = "sail" THEN 0 ELSE 1 - state.obj.cur,
                                               Plain(v))]
    <3>1. PICK v \in Looks :
               p = [state EXCEPT !.obj = Wrote(state.obj, IF tracked = "sail" THEN 0 ELSE 1 - state.obj.cur,
                                               Plain(v))]
      BY <2>3
    <3>2. PICK x, c : x = Plain(v) /\ c = IF tracked = "sail" THEN 0 ELSE 1 - n
      OBVIOUS
    <3>3. x \in Plains /\ x \in Stored /\ c \in Cells /\ x \in Values
      BY <3>2, <1>4, PlainPair DEF Plains, Cells
    <3>4. PICK q : q = Wrote(state.obj, c, x)
      OBVIOUS
    <3>5. /\ q \in Objects /\ q.mem = [l EXCEPT ![c] = x] /\ q.wrote = [state.obj.wrote EXCEPT ![c] = x]
          /\ q.cur = c /\ q.own = state.obj.own /\ q.new = state.obj.new
      <4>1. state.obj \in Objects
        BY <1>1 DEF States
      <4> QED BY <4>1, <3>3, <3>4, <1>3, WroteForm
    <3>6. p = [state EXCEPT !.obj = q]
      BY <3>1, <3>2, <3>4, <1>3
    <3>7. p \in States(Flips) /\ p.mod = state.mod /\ p.obj = q
      BY <3>5, <3>6, <1>1, RetaggedState
    <3>8. Owned(p) /\ ~Flipped(p) /\ Source(p) = c
      BY <2>3, <3>5, <3>7, <1>1 DEF Owned, Flipped, Source
    <3>9. /\ q.mem[c] = x /\ q.wrote[c] = x /\ q.mem \in [Cells -> Values]
          /\ tracked # "sail" => 1 - c = n /\ q.mem[n] = shown
          /\ tracked = "sail" => c = 0 /\ q.mem[1] = l[1]
      <4>1. q.mem \in [Cells -> Values] /\ q.mem[c] = x
        BY <2>3, <3>3, <3>5, <1>4, <1>5
      <4>2. q.wrote[c] = x
        BY <3>3, <3>5, <1>1 DEF States, Objects
      <4>3. tracked # "sail" => 1 - c = n /\ q.mem[n] = shown
        BY <2>3, <3>2, <3>5, <1>4, <1>5 DEF Cells
      <4>4. tracked = "sail" => c = 0 /\ q.mem[1] = l[1]
        BY <3>2, <3>5, <1>4 DEF Cells
      <4> QED BY <4>1, <4>2, <4>3, <4>4
    <3>10. ClothAt(p, tracked)
      BY <3>3, <3>7, <3>8, <3>9 DEF ClothAt
    <3>11. (tracked = "sail" => splitMode) => ClothSeen(p, tracked, shown)
      <4>1. ~q.new
        BY <2>3, <3>5, <1>1
      <4>2. CASE tracked = "sail"
        BY <4>1, <4>2, <2>3, <3>7, <3>9, <1>1, <1>3, <1>5 DEF ClothSeen
      <4>3. CASE tracked # "sail"
        BY <4>1, <4>3, <2>3, <3>7, <3>8, <3>9, <1>5 DEF ClothSeen
      <4> QED BY <4>2, <4>3
    <3> QED BY <3>8, <3>10, <3>11
  <2>4. CASE \E v \in Looks : p = [state EXCEPT !.obj = Fresh(v)]
    <3>1. PICK v \in Looks : p = [state EXCEPT !.obj = Fresh(v)]
      BY <2>4
    <3>2. PICK q : q = Fresh(v)
      OBVIOUS
    <3>3. /\ q \in Objects /\ Plain(v) \in Plains /\ q.mem = q.wrote
          /\ q.mem = [c \in Cells |-> Plain(v)] /\ q.cur = 0 /\ q.own = "object"
      BY <3>2, FreshForm
    <3>4. p = [state EXCEPT !.obj = q]
      BY <3>1, <3>2
    <3>5. p \in States(Flips) /\ p.mod = state.mod /\ p.obj = q
      BY <3>3, <3>4, <1>1, RetaggedState
    <3>6. Owned(p) /\ ~Flipped(p) /\ Source(p) = 0
      BY <3>3, <3>5, <1>1 DEF Owned, Flipped, Source
    <3>7. q.mem[0] = Plain(v) /\ q.mem[1] = Plain(v) /\ q.mem \in [Cells -> Values]
      BY <3>3, PlainPair DEF Cells
    <3>8. q.wrote[0] = Plain(v)
      BY <3>3, <3>7
    <3>9. ClothAt(p, tracked)
      <4>1. PICK w : w = p.obj
        OBVIOUS
      <4>2. w.mem[0] = Plain(v) /\ w.wrote[0] = Plain(v) /\ w.mem \in [Cells -> Values] /\ Plain(v) \in Plains
        BY <4>1, <3>3, <3>5, <3>7, <3>8
      <4> QED BY <4>1, <4>2, <3>5, <3>6, Zenon DEF ClothAt
    <3>10. ClothSeen(p, tracked, shown)
      <4>1. 1 - 0 = 1
        OBVIOUS
      <4>2. p.obj.mem[1] = p.obj.mem[0] /\ p.obj.mem[1 - 0] = p.obj.mem[0]
        BY <4>1, <3>5, <3>7
      <4> QED BY <4>2, <3>6, Zenon DEF ClothSeen
    <3> QED BY <3>6, <3>9, <3>10
  <2> QED BY <2>1, <2>2, <2>3, <2>4, <1>2 DEF ClothProduced
<1>7. state' = p
  <2>1. p = [obj |-> p.obj, mod |-> p.mod]
    BY <1>6, StateEqual DEF ClothAt
  <2> QED BY <2>1, <1>2, ProduceFrame
<1>8. ClothInv'
  BY <1>0, <1>6, <1>7 DEF ClothInv
<1>9. p \in States(Flips) /\ (~Owned(p) => p.obj.mem = p.obj.wrote)
  BY <1>6 DEF ClothAt
<1> QED BY <1>2, <1>7, <1>8, <1>9 DEF States, ForeignUntouched

\* Cloth begins unflipped.
LEMMA ClothInit0 ==
  ASSUME NEW v \in Looks, NEW k \in ClothKinds, NEW sh
  PROVE  /\ ClothAt(ClothInit(v), k) /\ ~Flipped(ClothInit(v)) /\ ClothSeen(ClothInit(v), k, sh)
<1>1. PICK p, q : p = ClothInit(v) /\ q = Fresh(v)
  OBVIOUS
<1>2. /\ q \in Objects /\ Plain(v) \in Plains /\ q.mem = q.wrote
      /\ q.mem = [c \in Cells |-> Plain(v)] /\ q.cur = 0 /\ q.own = "object"
  BY <1>1, FreshForm
<1>3. p = [obj |-> q, mod |-> [orig |-> 2]]
  BY <1>1 DEF ClothInit, Unflipped
<1>4. p \in States(Flips) /\ p.obj = q /\ p.mod.orig = 2
  BY <1>2, <1>3 DEF States, Flips
<1>5. Owned(p) /\ ~Flipped(p) /\ Source(p) = 0
  BY <1>2, <1>4 DEF Owned, Flipped, Source, Unflipped
<1>6. q.mem[0] = Plain(v) /\ q.mem[1] = Plain(v) /\ q.mem \in [Cells -> Values]
  BY <1>2, PlainPair DEF Cells
<1>7. q.wrote[0] = Plain(v)
  BY <1>2, <1>6
<1>8. ClothAt(p, k)
  BY <1>2, <1>4, <1>5, <1>6, <1>7, Zenon DEF ClothAt
<1>9. ClothSeen(p, k, sh)
  <2>1. 1 - 0 = 1
    OBVIOUS
  <2>2. p.obj.mem[1] = p.obj.mem[0] /\ p.obj.mem[1 - 0] = p.obj.mem[0]
    BY <2>1, <1>4, <1>6
  <2> QED BY <2>2, <1>5, Zenon DEF ClothSeen
<1> QED BY <1>1, <1>5, <1>8, <1>9

-----------------------------------------------------------------------------
(* The mechanisms whose draw changes nothing.                              *)

\* The kinds whose draw changes nothing: it shows the look as Painter's entry left it.
SeenKinds == PoseKinds \cup {"camera", "particle", "emitter", "texanim"}

\* A Painter in a frame f, with the entry's work s.
Shown(s, f) ==
  /\ Playable(f) /\ PacedBy(f)
  /\ s.obj \in Objects
  /\ drawn' = IF ~Owned(s) \/ f.dup THEN Nothing ELSE Live(s)
  /\ shown' = IF f.class = "L" /\ drawn' # Nothing THEN drawn' ELSE shown
  /\ mod' = s.mod /\ obj' \in Objects /\ state'.obj = obj' /\ state'.mod = mod'
  /\ obj'.mem = s.obj.mem /\ obj'.wrote = s.obj.wrote /\ obj'.cur = s.obj.cur
  /\ obj'.own = s.obj.own /\ obj'.tag = s.obj.tag /\ obj'.age = s.obj.age
  /\ obj'.new <=> s.obj.new /\ ~(f.class = "L" /\ drawn' # Nothing)
  /\ Live(state') = Live(s) /\ Truth(state') = Truth(s) /\ LastMade' = Truth(s)
  /\ (Owned(state') <=> Owned(s))

\* A Painter of a kind whose draw changes nothing.
LEMMA SeenPaint ==
  ASSUME Turns, Paints, tracked \in SeenKinds, NEW M,
         \A f : Playable(f) => \A s \in EntryOf(Begun(f), f) : s \in States(M)
  PROVE  \E f : \E s \in EntryOf(Begun(f), f) : Shown(s, f) /\ state' \in States(M)
<1>1. \A f, s : DrawOf(s, f) = {[s |-> s, drawn |-> Live(s)]}
  BY DEF DrawOf, SeenKinds, PoseKinds, ClothKinds
<1>2. ASSUME NEW f, Playable(f), NEW e \in EntryOf(Begun(f), f), NEW d \in DrawOf(e, f)
      PROVE  d.s \in States(M)
  <2>1. d = [s |-> e, drawn |-> Live(e)]
    BY <1>1, <1>2
  <2>2. d.s = e
    BY <2>1
  <2> QED BY <2>2, <1>2
<1>3. PICK f : \E e \in EntryOf(Begun(f), f) : \E d \in DrawOf(e, f) :
           /\ Playable(f) /\ PacedBy(f) /\ Settles(d, f) /\ Turns'
           /\ state' \in States(M) /\ state'.obj = obj' /\ state'.mod = mod'
           /\ Live(state') = Live(d.s) /\ Truth(state') = Truth(d.s)
           /\ Owned(state') <=> Owned(d.s)
  BY <1>2, PaintStep
<1>4. PICK e \in EntryOf(Begun(f), f) : \E d \in DrawOf(e, f) :
           /\ Playable(f) /\ PacedBy(f) /\ Settles(d, f) /\ Turns'
           /\ state' \in States(M) /\ state'.obj = obj' /\ state'.mod = mod'
           /\ Live(state') = Live(d.s) /\ Truth(state') = Truth(d.s)
           /\ Owned(state') <=> Owned(d.s)
  BY <1>3
<1>5. PICK d \in DrawOf(e, f) :
           /\ Playable(f) /\ PacedBy(f) /\ Settles(d, f) /\ Turns'
           /\ state' \in States(M) /\ state'.obj = obj' /\ state'.mod = mod'
           /\ Live(state') = Live(d.s) /\ Truth(state') = Truth(d.s)
           /\ Owned(state') <=> Owned(d.s)
  BY <1>4
<1>6. d.s = e /\ d.drawn = Live(e)
  <2>1. d = [s |-> e, drawn |-> Live(e)]
    BY <1>1, <1>5
  <2> QED BY <2>1
<1>7. tracked # "fader" /\ tracked \notin ClothKinds
  BY DEF SeenKinds, PoseKinds, ClothKinds
<1>8. /\ drawn' = IF ~Owned(e) \/ f.dup THEN Nothing ELSE Live(e)
      /\ shown' = IF f.class = "L" /\ drawn' # Nothing THEN drawn' ELSE shown
      /\ mod' = e.mod /\ obj' \in Objects
      /\ obj'.mem = e.obj.mem /\ obj'.wrote = e.obj.wrote /\ obj'.cur = e.obj.cur
      /\ obj'.own = e.obj.own /\ obj'.tag = e.obj.tag /\ obj'.age = e.obj.age
  BY <1>5, <1>6, <1>7 DEF Settles, Look
<1>9. obj'.new <=> e.obj.new /\ ~(f.class = "L" /\ drawn' # Nothing)
  BY <1>5, <1>6, Zenon DEF Settles
<1>10. LastMade' = Truth(e)
  <2>1. tracked' \notin ClothKinds
    BY <1>5, <1>7 DEF PacedBy
  <2> QED BY <2>1, <1>5, <1>6 DEF LastMade
<1>11. e.obj \in Objects
  BY <1>2, <1>5, <1>6 DEF States
<1>12. Shown(e, f)
  <2>1. Live(state') = Live(e) /\ Truth(state') = Truth(e) /\ (Owned(state') <=> Owned(e))
    BY <1>5, <1>6
  <2> QED BY <2>1, <1>5, <1>8, <1>9, <1>10, <1>11, Zenon DEF Shown
<1> QED BY <1>5, <1>12

\* What Painter's entry does, by the kind of frame.
LEMMA SeenEntry ==
  ASSUME tracked \in SeenKinds, NEW b, NEW f \in Frames, NEW e \in EntryOf(b, f)
  PROVE  /\ ~f.split => e = b
         /\ f.split /\ f.class = "L" => e \in LframeOf(b)
         /\ f.split /\ f.class = "R" /\ f.dup => e = DupOf(b)
         /\ f.split /\ f.class = "R" /\ ~f.dup => e \in RframeOf(b, f.cut)
<1>1. tracked \notin ClothKinds
  BY DEF SeenKinds, PoseKinds, ClothKinds
<1> QED BY <1>1 DEF EntryOf, Frames

-----------------------------------------------------------------------------
(* Particles and emitters.                                                 *)

JpaKinds == {"particle", "emitter"}

\* Memory is production's, unless the entry is injected: then the object is the one the
\* L frame saw, and the entry knows production's position.
JpaAt(t) ==
  /\ t \in States(Entries) /\ t.obj.cur = 0
  /\ Owned(t) => t.obj.wrote[0] \in Plains
  /\ ~t.mod.inj => t.obj.mem = t.obj.wrote
  /\ t.mod.inj => /\ Owned(t) /\ t.mod.known /\ ~t.obj.new /\ t.mod.r = t.obj.wrote[0]
                  /\ t.obj.mem = [t.obj.wrote EXCEPT ![0] = Mix(t.mod.l, t.mod.r)]
  /\ t.mod.known => t.mod.l \in Plains

\* An object that the L frame has not shown is not taken for the entry's.
JpaKnows(t, k, sh) ==
  t.mod.known => t.mod.l = sh /\ (Owned(t) /\ t.obj.new => ~Follows(t, k))

\* The invariant of particles and emitters: what an L frame keeps is the object it showed.
JpaInv ==
  tracked \in JpaKinds =>
    /\ JpaAt(state) /\ JpaKnows(state, tracked, shown)
    /\ ~splitMode => ~mod.known
    /\ turn = "produce" => ~mod.inj
    /\ turn = "produce" /\ mod.known =>
         Owned(state) /\ ~obj.new /\ mod.age = obj.age /\ mod.tag = obj.tag

\* The fields of an entry, one by one.
LEMMA JpaFields ==
  ASSUME NEW r, NEW o, NEW kn, NEW ij, NEW ll, NEW rr, NEW ag, NEW tg,
         r = [obj |-> o, mod |-> [known |-> kn, inj |-> ij, l |-> ll, r |-> rr, age |-> ag,
                                  tag |-> tg]]
  PROVE  r.obj = o /\ r.mod.known = kn /\ r.mod.inj = ij /\ r.mod.l = ll /\ r.mod.r = rr
         /\ r.mod.age = ag /\ r.mod.tag = tg
OBVIOUS

\* Restoring puts production's position back.
LEMMA JpaRestoreForm ==
  ASSUME NEW t, JpaAt(t), NEW r, r = JpaRestore(t)
  PROVE  /\ JpaAt(r) /\ ~r.mod.inj /\ r.obj = Filled(t.obj, t.obj.wrote)
         /\ r.mod.known = t.mod.known /\ r.mod.l = t.mod.l
<1>1. t.obj \in Objects /\ t.mod \in Entries /\ t.obj.cur = 0 /\ t.obj.wrote \in [Cells -> Stored]
  BY DEF JpaAt, States, Objects
<1>2. CASE ~t.mod.inj
  BY <1>2, <1>1, FilledForm DEF JpaRestore, JpaAt
<1>3. CASE t.mod.inj
  <2>1. PICK p : p = Put(t, t.mod.r)
    OBVIOUS
  <2>2. r = [p EXCEPT !.mod.inj = FALSE]
    BY <2>1, <1>3 DEF JpaRestore
  <2>3. [t.obj.mem EXCEPT ![0] = t.mod.r] = t.obj.wrote
    BY <1>1, <1>3 DEF JpaAt, Cells
  <2>4. PICK o : o = Filled(t.obj, t.obj.wrote)
    OBVIOUS
  <2>5. p = [obj |-> o, mod |-> t.mod]
    BY <2>1, <2>3, <2>4, <1>1, PutForm DEF JpaAt
  <2>6. r = [obj |-> o, mod |-> [known |-> t.mod.known, inj |-> FALSE, l |-> t.mod.l, r |-> t.mod.r,
                                 age |-> t.mod.age, tag |-> t.mod.tag]]
    BY <2>2, <2>5, <1>1 DEF Entries
  <2>7. /\ r.obj = o /\ r.mod.known = t.mod.known /\ r.mod.inj = FALSE /\ r.mod.l = t.mod.l
        /\ r.mod.r = t.mod.r /\ r.mod.age = t.mod.age /\ r.mod.tag = t.mod.tag
    BY <2>6, JpaFields
  <2>8. /\ o \in Objects /\ o.mem = t.obj.wrote /\ o.wrote = t.obj.wrote /\ o.cur = 0
        /\ o.own = t.obj.own
    BY <1>1, <2>4, FilledForm
  <2>9. r \in States(Entries)
    BY <2>6, <2>8, <1>1 DEF States, Entries
  <2>10. JpaAt(r)
    BY <2>7, <2>8, <2>9, <1>3 DEF JpaAt, Owned
  <2> QED BY <2>4, <2>7, <2>10
<1> QED BY <1>2, <1>3

\* An L frame restores, and keeps what lives.
LEMMA JpaLForm ==
  ASSUME NEW t, JpaAt(t), NEW room \in BOOLEAN, NEW e, e = JpaL(t, room)
  PROVE  /\ JpaAt(e) /\ ~e.mod.inj /\ e.obj = Filled(t.obj, t.obj.wrote)
         /\ e.mod.known => /\ Owned(e) /\ e.mod.l = e.obj.wrote[0]
                           /\ e.mod.age = e.obj.age /\ e.mod.tag = e.obj.tag
<1>1. PICK b : b = JpaRestore(t)
  OBVIOUS
<1>2. JpaAt(b) /\ ~b.mod.inj /\ b.obj = Filled(t.obj, t.obj.wrote)
  BY <1>1, JpaRestoreForm
<1>3. t.obj \in Objects /\ t.obj.wrote \in [Cells -> Stored]
  BY DEF JpaAt, States, Objects
<1>4. Owned(b) <=> Owned(t)
  BY <1>2, <1>3, FilledForm DEF Owned
<1>5. b \in States(Entries) /\ b.obj \in Objects /\ b.obj.mem = b.obj.wrote /\ b.obj.cur = 0
  BY <1>2 DEF JpaAt, States
<1>6. PICK h : h = IF ~(Owned(t) /\ room) THEN NoEntry
                   ELSE [known |-> TRUE, inj |-> FALSE, l |-> Live(b), r |-> Live(b),
                         age |-> b.obj.age, tag |-> b.obj.tag]
  OBVIOUS
<1>7. e = [b EXCEPT !.mod = h]
  BY <1>1, <1>6 DEF JpaL
<1>8. e = [obj |-> b.obj, mod |-> h] /\ e.obj = b.obj /\ e.mod = h
  BY <1>5, <1>7, ModForm
<1>9. CASE ~(Owned(t) /\ room)
  <2>1. h \in Entries /\ ~h.inj /\ ~h.known
    BY <1>6, <1>9 DEF NoEntry, Entries, Stored, MaxAge
  <2>2. e \in States(Entries)
    BY <2>1, <1>5, <1>8 DEF States
  <2> QED BY <2>1, <2>2, <1>2, <1>5, <1>8 DEF JpaAt, Owned
<1>10. CASE Owned(t) /\ room
  <2>1. Live(b) = b.obj.wrote[0] /\ b.obj.wrote[0] \in Plains
    BY <1>2, <1>4, <1>5, <1>10 DEF JpaAt, Live
  <2>2. Live(b) \in Stored
    BY <2>1, PlainPair
  <2>3. PICK x, ag, tg : x = Live(b) /\ ag = b.obj.age /\ tg = b.obj.tag
    OBVIOUS
  <2>4. h = [known |-> TRUE, inj |-> FALSE, l |-> x, r |-> x, age |-> ag, tag |-> tg]
    BY <1>6, <1>10, <2>3
  <2>5. h.known /\ ~h.inj /\ h.l = x /\ h.age = ag /\ h.tag = tg
    BY <2>4
  <2>6. ag \in 0..MaxAge /\ tg \in 0..2
    BY <2>3, <1>5 DEF Objects
  <2>7. h \in Entries
    BY <2>2, <2>3, <2>4, <2>6 DEF Entries
  <2>8. e \in States(Entries)
    BY <2>7, <1>5, <1>8 DEF States
  <2>9. Owned(e)
    BY <1>4, <1>8, <1>10 DEF Owned
  <2> QED BY <2>1, <2>3, <2>5, <2>8, <2>9, <1>2, <1>5, <1>8 DEF JpaAt
<1> QED BY <1>9, <1>10

\* An R frame shows production's position, or the one half way to it.
LEMMA JpaRForm ==
  ASSUME NEW k \in JpaKinds, NEW t, JpaAt(t), NEW sh, JpaKnows(t, k, sh), NEW e, e = JpaR(t, k)
  PROVE  /\ JpaAt(e) /\ JpaKnows(e, k, sh) /\ e.obj.wrote = t.obj.wrote
         /\ e.obj.own = t.obj.own /\ e.obj.new = t.obj.new
         /\ e.mod.known = t.mod.known
         /\ Owned(e) => \/ Live(e) = Truth(e)
                        \/ e.mod.known /\ ~e.obj.new /\ Live(e) = Mix(sh, Truth(e))
<1>1. t.obj \in Objects /\ t.mod \in Entries /\ t.obj.cur = 0 /\ t \in States(Entries)
  BY DEF JpaAt, States
<1>2. CASE e = t /\ (~Owned(t) \/ ~t.mod.inj)
  BY <1>2, <1>1 DEF JpaAt, Live, Truth
<1>3. CASE Owned(t) /\ t.mod.inj
  <2>1. e = Put(t, Mix(t.mod.l, t.mod.r)) /\ t.mod.known
    BY <1>3 DEF JpaR, JpaAt
  <2>2. PICK m : m = t.obj.mem
    OBVIOUS
  <2>3. m \in [Cells -> Stored] /\ m[0] = Mix(t.mod.l, t.mod.r)
    <3>1. t.obj.wrote \in [Cells -> Stored]
      BY <1>1 DEF Objects
    <3> QED BY <2>2, <3>1, <1>1, <1>3 DEF JpaAt, Cells, Objects
  <2>4. [m EXCEPT ![0] = Mix(t.mod.l, t.mod.r)] = m
    BY <2>3
  <2>5. e = [obj |-> Filled(t.obj, m), mod |-> t.mod]
    BY <2>1, <2>2, <2>4, <1>1, PutForm
  <2>6. e = t
    BY <2>2, <2>5, <1>1, FilledForm, StateEqual
  <2>7. Live(e) = Mix(sh, Truth(e)) /\ ~e.obj.new /\ e.mod.known
    BY <2>2, <2>3, <2>6, <1>1, <1>3 DEF JpaAt, JpaKnows, Live, Truth
  <2> QED BY <2>6, <2>7
<1>4. CASE Owned(t) /\ t.mod.known /\ ~t.mod.inj /\ Follows(t, k)
  <2>1. PICK x, w, l : x = Live(t) /\ l = t.mod.l /\ w = Mix(l, x)
    OBVIOUS
  <2>2. PICK ag : ag = IF k = "particle" THEN t.obj.age ELSE t.mod.age
    OBVIOUS
  <2>3. PICK p : p = Put(t, w)
    OBVIOUS
  <2>4. /\ x \in Plains /\ l \in Plains /\ x = t.obj.wrote[0] /\ w \in Values /\ w # Nothing
        /\ x \in Stored /\ w \in Stored /\ l \in Stored
    <3>1. x \in Plains /\ l \in Plains /\ x = t.obj.wrote[0]
      BY <2>1, <1>1, <1>4 DEF JpaAt, Live
    <3>2. x \in Values /\ l \in Values /\ x \in Stored /\ l \in Stored
      BY <3>1, PlainPair
    <3>3. w \in Values /\ w # Nothing
      BY <2>1, <3>2, MixPair
    <3> QED BY <3>1, <3>2, <3>3 DEF Stored
  <2>5. PICK m : m = [t.obj.wrote EXCEPT ![0] = w]
    OBVIOUS
  <2>6. PICK o : o = Filled(t.obj, m)
    OBVIOUS
  <2>7. p = [obj |-> o, mod |-> t.mod] /\ m \in [Cells -> Stored]
    <3>1. [t.obj.mem EXCEPT ![t.obj.cur] = w] = m
      BY <2>5, <1>1, <1>4 DEF JpaAt
    <3>2. /\ p = [obj |-> Filled(t.obj, [t.obj.mem EXCEPT ![t.obj.cur] = w]), mod |-> t.mod]
          /\ [t.obj.mem EXCEPT ![t.obj.cur] = w] \in [Cells -> Stored]
      BY <2>3, <2>4, <1>1, PutForm
    <3> QED BY <2>6, <3>1, <3>2, Zenon
  <2>8. e = [p EXCEPT !.mod.r = x, !.mod.inj = TRUE, !.mod.age = IF k = "particle" THEN t.obj.age ELSE @]
    BY <2>1, <2>3, <1>4, Zenon DEF JpaR
  <2>9. e = [obj |-> o, mod |-> [known |-> t.mod.known, inj |-> TRUE, l |-> l, r |-> x,
                                 age |-> ag, tag |-> t.mod.tag]]
    <3>1. CASE k = "particle"
      <4>1. ag = t.obj.age
        BY <2>2, <3>1
      <4>2. e = [p EXCEPT !.mod.r = x, !.mod.inj = TRUE, !.mod.age = ag]
        BY <2>8, <3>1, <4>1, Zenon
      <4>3. PICK h : h = t.mod
        OBVIOUS
      <4>4. h \in Entries /\ h.l = l
        BY <4>3, <2>1, <1>1
      <4>5. e = [[obj |-> o, mod |-> h] EXCEPT !.mod.r = x, !.mod.inj = TRUE, !.mod.age = ag]
        BY <4>2, <4>3, <2>7, Zenon
      <4>6. e = [obj |-> o, mod |-> [known |-> h.known, inj |-> TRUE, l |-> l, r |-> x,
                                     age |-> ag, tag |-> h.tag]]
        BY <4>4, <4>5 DEF Entries
      <4> QED BY <4>3, <4>6
    <3>2. CASE k # "particle"
      <4>1. ag = t.mod.age
        BY <2>2, <3>2
      <4>2. e = [p EXCEPT !.mod.r = x, !.mod.inj = TRUE, !.mod.age = @]
        BY <2>8, <3>2, Zenon
      <4>3. PICK h : h = t.mod
        OBVIOUS
      <4>4. h \in Entries /\ h.l = l /\ h.age = ag
        BY <4>1, <4>3, <2>1, <1>1
      <4>5. e = [[obj |-> o, mod |-> h] EXCEPT !.mod.r = x, !.mod.inj = TRUE, !.mod.age = @]
        BY <4>2, <4>3, <2>7, Zenon
      <4>6. e = [obj |-> o, mod |-> [known |-> h.known, inj |-> TRUE, l |-> l, r |-> x,
                                     age |-> ag, tag |-> h.tag]]
        BY <4>4, <4>5 DEF Entries
      <4> QED BY <4>3, <4>6
    <3> QED BY <3>1, <3>2
  <2>10. /\ e.obj = o /\ e.mod.known = t.mod.known /\ e.mod.inj = TRUE /\ e.mod.l = l
         /\ e.mod.r = x /\ e.mod.age = ag /\ e.mod.tag = t.mod.tag
    BY <2>9, JpaFields
  <2>11. /\ o \in Objects /\ o.mem = m /\ o.wrote = t.obj.wrote /\ o.cur = 0
         /\ o.own = t.obj.own /\ o.new = t.obj.new
    BY <1>1, <2>6, <2>7, FilledForm
  <2>12. e \in States(Entries)
    <3>1. ag \in 0..MaxAge
      BY <2>2, <1>1 DEF Entries, Objects
    <3> QED BY <2>4, <2>9, <2>11, <3>1, <1>1 DEF States, Entries
  <2>13. ~t.obj.new
    BY <1>4 DEF JpaKnows
  <2>14. Owned(e) /\ e.mod.known /\ ~e.obj.new /\ l = sh
    BY <2>1, <2>10, <2>11, <2>13, <1>4 DEF Owned, JpaKnows
  <2>15. JpaAt(e)
    BY <2>1, <2>4, <2>5, <2>10, <2>11, <2>12, <2>14 DEF JpaAt
  <2>16. JpaKnows(e, k, sh)
    BY <2>10, <2>14 DEF JpaKnows
  <2>17. Live(e) = Mix(sh, Truth(e))
    <3>1. t.obj.wrote \in [Cells -> Stored]
      BY <1>1 DEF Objects
    <3>2. m[0] = w
      BY <3>1, <2>5 DEF Cells
    <3>3. Live(e) = w /\ Truth(e) = x
      BY <3>2, <2>4, <2>10, <2>11 DEF Live, Truth
    <3> QED BY <3>3, <2>1, <2>14
  <2> QED BY <2>10, <2>11, <2>14, <2>15, <2>16, <2>17
<1> QED BY <1>2, <1>3, <1>4 DEF JpaR

-----------------------------------------------------------------------------
(* Particles and emitters: a Painter.                                      *)

\* For a particle, what Painter's entry is by the kind of frame.
LEMMA JpaEntry ==
  ASSUME tracked \in JpaKinds, NEW b
  PROVE  /\ LframeOf(b) = {JpaL(b, room) : room \in BOOLEAN}
         /\ \A c : RframeOf(b, c) = {JpaR(b, tracked)}
         /\ DupOf(b) = b /\ ResetOf(b) = JpaReset(b)
         /\ ProducedBy(b) = ParticleProduced(b, tracked)
<1>1. tracked \in {"particle", "emitter"}
  BY DEF JpaKinds
<1>2. LframeOf(b) = {JpaL(b, room) : room \in BOOLEAN}
  BY <1>1 DEF LframeOf, PoseKinds
<1>3. \A c : RframeOf(b, c) = {JpaR(b, tracked)}
  BY <1>1 DEF RframeOf, PoseKinds, ClothKinds
<1>4. DupOf(b) = b
  BY <1>1 DEF DupOf
<1>5. ResetOf(b) = JpaReset(b)
  BY <1>1 DEF ResetOf, PoseKinds, ClothKinds
<1>6. ProducedBy(b) = ParticleProduced(b, tracked)
  BY <1>1 DEF ProducedBy, PoseKinds
<1> QED BY <1>2, <1>3, <1>4, <1>5, <1>6

\* A reset restores and forgets.
LEMMA JpaResetForm ==
  ASSUME NEW t, JpaAt(t), NEW e, e = JpaReset(t)
  PROVE  JpaAt(e) /\ ~e.mod.known /\ e.obj = Filled(t.obj, t.obj.wrote)
<1>1. PICK b : b = JpaRestore(t)
  OBVIOUS
<1>2. JpaAt(b) /\ ~b.mod.inj /\ b.obj = Filled(t.obj, t.obj.wrote)
  BY <1>1, JpaRestoreForm
<1>3. b \in States(Entries) /\ b.obj \in Objects /\ b.obj.mem = b.obj.wrote
  BY <1>2 DEF JpaAt, States
<1>4. e = [obj |-> b.obj, mod |-> NoEntry] /\ e.obj = b.obj /\ e.mod = NoEntry
  BY <1>1, <1>3, ModForm DEF JpaReset
<1>5. NoEntry \in Entries /\ ~NoEntry.known /\ ~NoEntry.inj
  BY DEF NoEntry, Entries, Stored, MaxAge
<1>6. e \in States(Entries)
  BY <1>3, <1>4, <1>5 DEF States
<1> QED BY <1>2, <1>3, <1>4, <1>5, <1>6 DEF JpaAt, Owned

\* What a Painter's entry makes of the entry of the particle.
LEMMA JpaPainted ==
  ASSUME JpaInv, tracked \in JpaKinds, NEW f, Playable(f), NEW e \in EntryOf(Begun(f), f)
  PROVE  /\ JpaAt(e) /\ (f.class = "R" => JpaKnows(e, tracked, shown))
         /\ e.obj.wrote = obj.wrote /\ e.obj.own = obj.own
         /\ f.class = "L" => /\ ~e.mod.inj /\ (~f.split => ~e.mod.known)
                             /\ e.mod.known => /\ Owned(e) /\ e.mod.l = e.obj.wrote[0]
                                               /\ e.mod.age = e.obj.age /\ e.mod.tag = e.obj.tag
         /\ f.class = "R" /\ ~f.dup /\ Owned(e) =>
              \/ Live(e) = Truth(e)
              \/ e.mod.known /\ ~e.obj.new /\ Live(e) = Mix(shown, Truth(e))
<1>1. /\ f \in Frames /\ (f.class = "R" => f.split /\ splitMode) /\ (f.class # "R" => f.class = "L")
      /\ f.dup => f.class = "R"
  BY DEF Playable, Frames
<1>2. /\ JpaAt(state) /\ JpaKnows(state, tracked, shown) /\ (~splitMode => ~state.mod.known)
      /\ state.obj = obj /\ obj \in Objects /\ obj.wrote \in [Cells -> Stored]
  BY StateForm DEF JpaInv, JpaAt, States, Objects
<1>3. tracked \in SeenKinds
  BY DEF SeenKinds, JpaKinds
<1>4. PICK b : b = Begun(f)
  OBVIOUS
<1>5. /\ JpaAt(b) /\ b.obj.wrote = obj.wrote /\ b.obj.own = obj.own
      /\ f.class = "R" => b = state
      /\ ~f.split => ~b.mod.known
  <2>1. CASE f.split <=> splitMode
    BY <2>1, <1>2, <1>4 DEF Begun
  <2>2. CASE ~(f.split <=> splitMode)
    <3>1. b = JpaReset(state)
      BY <2>2, <1>1, <1>4, JpaEntry DEF Begun
    <3>2. JpaAt(b) /\ ~b.mod.known /\ b.obj = Filled(state.obj, state.obj.wrote)
      BY <3>1, <1>2, JpaResetForm
    <3> QED BY <3>2, <2>2, <1>1, <1>2, FilledForm
  <2> QED BY <2>1, <2>2
<1>6. /\ ~f.split => e = b
      /\ f.split /\ f.class = "L" => \E room \in BOOLEAN : e = JpaL(b, room)
      /\ f.dup => e = b
      /\ f.class = "R" /\ ~f.dup => e = JpaR(b, tracked)
  <2>1. /\ ~f.split => e = b
        /\ f.split /\ f.class = "L" => e \in LframeOf(b)
        /\ f.split /\ f.class = "R" /\ f.dup => e = DupOf(b)
        /\ f.split /\ f.class = "R" /\ ~f.dup => e \in RframeOf(b, f.cut)
    BY <1>1, <1>3, <1>4, SeenEntry
  <2> QED BY <2>1, <1>1, JpaEntry
<1>7. b.obj \in Objects /\ b.obj.wrote \in [Cells -> Stored]
  BY <1>2, <1>5 DEF JpaAt, States
<1>8. CASE f.class = "L" /\ ~f.split
  <2>1. ~b.mod.inj
    BY <1>5, <1>8 DEF JpaAt
  <2> QED BY <2>1, <1>5, <1>6, <1>8
<1>9. CASE f.class = "L" /\ f.split
  <2>1. PICK room \in BOOLEAN : e = JpaL(b, room)
    BY <1>6, <1>9
  <2>2. /\ JpaAt(e) /\ ~e.mod.inj /\ e.obj = Filled(b.obj, b.obj.wrote)
        /\ e.mod.known => /\ Owned(e) /\ e.mod.l = e.obj.wrote[0]
                          /\ e.mod.age = e.obj.age /\ e.mod.tag = e.obj.tag
    BY <2>1, <1>5, JpaLForm
  <2>3. e.obj.wrote = b.obj.wrote /\ e.obj.own = b.obj.own
    BY <2>2, <1>7, FilledForm
  <2> QED BY <2>2, <2>3, <1>5, <1>9
<1>10. CASE f.class = "R" /\ f.dup
  BY <1>2, <1>5, <1>6, <1>10
<1>11. CASE f.class = "R" /\ ~f.dup
  <2>1. e = JpaR(state, tracked)
    BY <1>5, <1>6, <1>11
  <2>2. /\ JpaAt(e) /\ JpaKnows(e, tracked, shown) /\ e.obj.wrote = state.obj.wrote
        /\ e.obj.own = state.obj.own
        /\ Owned(e) => \/ Live(e) = Truth(e)
                       \/ e.mod.known /\ ~e.obj.new /\ Live(e) = Mix(shown, Truth(e))
    BY <2>1, <1>2, JpaRForm
  <2> QED BY <2>2, <1>2, <1>11
<1> QED BY <1>1, <1>8, <1>9, <1>10, <1>11

\* Every Painter keeps the invariant of particles and emitters, and the promises.
LEMMA JpaPaint ==
  ASSUME Turns, JpaInv, tracked \in JpaKinds, shown \in Plains \cup {Nothing, Plain(Alien)}, Paints
  PROVE  /\ obj' \in Objects /\ mod' \in Entries
         /\ drawn' \in Values \cup {Nothing, Plain(Alien)}
         /\ shown' \in Plains \cup {Nothing, Plain(Alien)}
         /\ JpaInv' /\ LogicSeesTruth' /\ ForeignUntouched' /\ RFrameInterpolates'
<1>1. tracked \in SeenKinds /\ tracked \in {"particle", "emitter"}
  BY DEF SeenKinds, JpaKinds
<1>2. \A f : Playable(f) => \A s \in EntryOf(Begun(f), f) : s \in States(Entries)
  BY JpaPainted DEF JpaAt
<1>3. PICK f : \E s \in EntryOf(Begun(f), f) : Shown(s, f) /\ state' \in States(Entries)
  BY <1>1, <1>2, SeenPaint
<1>4. PICK s \in EntryOf(Begun(f), f) : Shown(s, f) /\ state' \in States(Entries)
  BY <1>3
<1>5. /\ JpaAt(s) /\ (f.class = "R" => JpaKnows(s, tracked, shown))
      /\ s.obj.wrote = obj.wrote /\ s.obj.own = obj.own
      /\ f.class = "L" => /\ ~s.mod.inj /\ (~f.split => ~s.mod.known)
                          /\ s.mod.known => /\ Owned(s) /\ s.mod.l = s.obj.wrote[0]
                                            /\ s.mod.age = s.obj.age /\ s.mod.tag = s.obj.tag
      /\ f.class = "R" /\ ~f.dup /\ Owned(s) =>
           \/ Live(s) = Truth(s)
           \/ s.mod.known /\ ~s.obj.new /\ Live(s) = Mix(shown, Truth(s))
  BY <1>4, JpaPainted DEF Shown
<1>6. /\ drawn' = (IF ~Owned(s) \/ f.dup THEN Nothing ELSE Live(s))
      /\ shown' = (IF f.class = "L" /\ drawn' # Nothing THEN drawn' ELSE shown)
      /\ mod' = s.mod /\ obj' \in Objects /\ state'.obj = obj' /\ state'.mod = mod'
      /\ obj'.mem = s.obj.mem /\ obj'.wrote = s.obj.wrote /\ obj'.cur = s.obj.cur
      /\ obj'.own = s.obj.own /\ obj'.tag = s.obj.tag /\ obj'.age = s.obj.age
      /\ Live(state') = Live(s) /\ Truth(state') = Truth(s) /\ LastMade' = Truth(s)
      /\ (Owned(state') <=> Owned(s))
  BY <1>4, Zenon DEF Shown
<1>7. obj'.new <=> s.obj.new /\ ~(f.class = "L" /\ drawn' # Nothing)
  BY <1>4, Zenon DEF Shown
<1>8. /\ turn' = (IF f.class = "L" THEN "produce" ELSE "painter") /\ tracked' = tracked
      /\ frameClass' = f.class /\ rDup' = f.dup /\ f.class \in {"L", "R"} /\ f.dup \in BOOLEAN
      /\ splitMode' = f.split /\ (f.class = "R" => f.split) /\ (f.dup => f.class = "R")
  BY <1>4 DEF Shown, PacedBy, Playable, Frames
<1>9. JpaAt(state')
  <2>1. s.mod.inj => ~obj'.new
    BY <1>5, <1>7 DEF JpaAt
  <2> QED BY <2>1, <1>4, <1>5, <1>6 DEF JpaAt
<1>10. Nothing \notin Plains /\ Plains \subseteq Values
  BY PlainPair
<1>11. /\ Owned(s) => Truth(s) \in Plains /\ Truth(s) = s.obj.wrote[0]
       /\ ~s.mod.inj => Live(s) = Truth(s)
  BY <1>5 DEF JpaAt, Live, Truth
<1>12. CASE f.class = "L"
  <2>1. ~s.mod.inj /\ Live(s) = Truth(s) /\ ~f.dup
    BY <1>5, <1>8, <1>11, <1>12
  <2>2. Owned(s) => drawn' = Truth(s) /\ shown' = drawn' /\ ~obj'.new
    <3>1. Owned(s) => drawn' = Truth(s) /\ drawn' # Nothing
      BY <2>1, <1>6, <1>10, <1>11
    <3> QED BY <3>1, <1>6, <1>7, <1>12
  <2>3. ~Owned(s) => drawn' = Nothing /\ shown' = shown
    BY <1>6
  <2>4. mod'.known => Owned(state') /\ ~obj'.new /\ mod'.l = shown' /\ mod'.age = obj'.age
                      /\ mod'.tag = obj'.tag
    BY <2>1, <2>2, <1>5, <1>6, <1>11, <1>12
  <2>5. JpaInv'
    BY <2>1, <2>4, <1>5, <1>6, <1>8, <1>9, <1>12 DEF JpaInv, JpaKnows
  <2>6. LogicSeesTruth'
    <3>1. obj'.mem = obj'.wrote
      BY <2>1, <1>5, <1>6 DEF JpaAt
    <3> QED BY <3>1, <2>1, <2>2, <2>3, <1>6 DEF LogicSeesTruth
  <2> QED BY <2>2, <2>3, <2>5, <2>6, <1>4, <1>6, <1>8, <1>9, <1>10, <1>11, <1>12
          DEF RFrameInterpolates, ForeignUntouched, States, JpaAt
<1>13. CASE f.class = "R"
  <2>1. shown' = shown /\ (obj'.new <=> s.obj.new) /\ turn' = "painter" /\ splitMode' = TRUE
    <3>1. f.class # "L"
      BY <1>13
    <3>2. f.split = TRUE
      BY <1>8, <1>13, <1>4 DEF Shown, Playable, Frames
    <3> QED BY <3>1, <3>2, <1>6, <1>7, <1>8
  <2>2. JpaKnows(state', tracked, shown)
    <3>1. JpaKnows(s, tracked, shown)
      BY <1>5, <1>13
    <3>2. Follows(state', tracked) <=> Follows(s, tracked)
      BY <1>6 DEF Follows
    <3> QED BY <3>1, <3>2, <2>1, <1>6 DEF JpaKnows
  <2>3. JpaInv'
    BY <2>1, <2>2, <1>8, <1>9 DEF JpaInv
  <2>4. ASSUME drawn' # Nothing
        PROVE  drawn' = LastMade' \/ Between(drawn)'
    <3>1. Owned(s) /\ ~f.dup /\ drawn' = Live(s)
      BY <2>4, <1>6
    <3>2. CASE Live(s) = Truth(s)
      BY <3>1, <3>2, <1>6
    <3>3. CASE s.mod.known /\ ~s.obj.new /\ Live(s) = Mix(shown, Truth(s))
      <4>1. shown # Nothing
        BY <3>3, <1>5, <1>10, <1>13 DEF JpaAt, JpaKnows
      <4> QED BY <4>1, <3>1, <3>3, <2>1, <1>1, <1>6, <1>8 DEF Between
    <3> QED BY <3>1, <3>2, <3>3, <1>5, <1>13
  <2>5. RFrameInterpolates'
    <3>1. tracked' \notin {"fader", "pre", "post"} /\ tracked' \in {"camera", "particle", "emitter"}
      BY <1>1, <1>8
    <3> QED BY <3>1, <2>4 DEF RFrameInterpolates
  <2>6. drawn' \in Values \cup {Nothing, Plain(Alien)}
    <3>1. CASE drawn' = Nothing
      BY <3>1
    <3>2. CASE drawn' # Nothing
      <4>1. Owned(s) /\ ~f.dup /\ drawn' = Live(s) /\ Truth(s) \in Values
        BY <3>2, <1>6, <1>10, <1>11
      <4>2. CASE Live(s) = Truth(s)
        BY <4>1, <4>2
      <4>3. CASE s.mod.known /\ Live(s) = Mix(shown, Truth(s))
        <5>1. shown \in Values
          BY <4>3, <1>5, <1>10, <1>13 DEF JpaAt, JpaKnows
        <5> QED BY <5>1, <4>1, <4>3, MixPair
      <4> QED BY <4>1, <4>2, <4>3, <1>5, <1>13
    <3> QED BY <3>1, <3>2
  <2>7. LogicSeesTruth'
    BY <2>1 DEF LogicSeesTruth
  <2> QED BY <2>1, <2>3, <2>5, <2>6, <2>7, <1>4, <1>6, <1>9 DEF ForeignUntouched, States, JpaAt
<1> QED BY <1>8, <1>12, <1>13

-----------------------------------------------------------------------------
(* Particles and emitters: production.                                     *)

\* The object one calc later, and another in its memory.
Calculated(o, c, x)    == [Wrote(o, c, x) EXCEPT !.age = @ + 1]
Another(v, a, g)       == [Fresh(v) EXCEPT !.age = a, !.tag = g]

\* The object one calc later.
LEMMA CalculatedForm ==
  ASSUME NEW o \in Objects, o.age < MaxAge, NEW c \in Cells, NEW x \in Stored,
         NEW q, q = Calculated(o, c, x)
  PROVE  /\ q \in Objects /\ q.mem = [o.mem EXCEPT ![c] = x] /\ q.wrote = [o.wrote EXCEPT ![c] = x]
         /\ q.cur = c /\ q.own = o.own /\ q.tag = o.tag /\ q.age = o.age + 1 /\ q.new = o.new
         /\ q.wrote[c] = x
<1>1. PICK w : w = Wrote(o, c, x)
  OBVIOUS
<1>2. /\ w \in Objects /\ w.mem = [o.mem EXCEPT ![c] = x]
      /\ w.wrote = [o.wrote EXCEPT ![c] = x]
      /\ w.cur = c /\ w.own = o.own /\ w.tag = o.tag /\ w.age = o.age /\ w.new = o.new
  BY <1>1, WroteForm
<1>3. PICK a : a = o.age + 1
  OBVIOUS
<1>4. a \in 0..MaxAge
  BY <1>3 DEF Objects, MaxAge
<1>5. q = [w EXCEPT !.age = a]
  BY <1>1, <1>2, <1>3 DEF Calculated
<1>6. /\ q \in Objects /\ q.mem = w.mem /\ q.wrote = w.wrote /\ q.cur = w.cur /\ q.own = w.own
      /\ q.tag = w.tag /\ q.age = a /\ q.new = w.new
  BY <1>2, <1>4, <1>5 DEF Objects
<1>7. w.wrote[c] = x
  BY <1>2 DEF Objects
<1> QED BY <1>2, <1>3, <1>6, <1>7

\* Another particle or emitter in the memory.
LEMMA AnotherForm ==
  ASSUME NEW v \in Looks, NEW a \in 0..1, NEW g \in 0..2, NEW q, q = Another(v, a, g)
  PROVE  /\ q \in Objects /\ q.mem = q.wrote /\ q.wrote[0] = Plain(v) /\ q.cur = 0
         /\ q.own = "object" /\ q.tag = g /\ q.age = a /\ q.new
<1>1. PICK w : w = Fresh(v)
  OBVIOUS
<1>2. /\ w \in Objects /\ w.mem = w.wrote /\ w.mem[0] = Plain(v) /\ w.cur = 0
      /\ w.own = "object" /\ w.new
  BY <1>1, FreshForm
<1>3. q = [w EXCEPT !.age = a, !.tag = g]
  BY <1>1 DEF Another
<1>4. a \in 0..MaxAge
  BY DEF MaxAge
<1>5. /\ q \in Objects /\ q.mem = w.mem /\ q.wrote = w.wrote /\ q.cur = w.cur /\ q.own = w.own
      /\ q.tag = g /\ q.age = a /\ q.new = w.new
  BY <1>2, <1>3, <1>4 DEF Objects
<1> QED BY <1>2, <1>5

\* What production can make of a particle or an emitter.
LEMMA ParticleMade ==
  ASSUME NEW t, NEW k \in JpaKinds, NEW p \in ParticleProduced(t, k)
  PROVE  \/ p = t
         \/ /\ Owned(t) /\ t.obj.age < MaxAge
            /\ \E v \in Looks : p = [t EXCEPT !.obj = Calculated(t.obj, 0, Plain(v))]
         \/ Owned(t) /\ p = [t EXCEPT !.obj = Taken(t.obj, 0)]
         \/ /\ Owned(t) /\ k = "emitter"
            /\ \E v \in Looks : p = [t EXCEPT !.obj = Retagged(t.obj, 0, Plain(v), 2)]
         \/ \E v \in Looks : p = [t EXCEPT !.obj = Another(v, 0, 1)]
         \/ /\ k = "particle"
            /\ \E v \in Looks : \E g \in 1..2 :
                 g # t.obj.tag /\ p = [t EXCEPT !.obj = Another(v, 1, g)]
<1>1. p \in {t}
      \/ p \in (IF Owned(t) /\ t.obj.age < MaxAge
                THEN {[t EXCEPT !.obj = [Wrote(t.obj, 0, Plain(v)) EXCEPT !.age = @ + 1]] :
                         v \in Looks}
                ELSE {})
      \/ p \in (IF Owned(t) THEN {[t EXCEPT !.obj = Taken(t.obj, 0)]} ELSE {})
      \/ p \in (IF Owned(t) /\ k = "emitter"
                THEN {[t EXCEPT !.obj = [Wrote(t.obj, 0, Plain(v)) EXCEPT !.tag = 2]] : v \in Looks}
                ELSE {})
      \/ p \in {Recycled(t, k, v, FALSE, 1) : v \in Looks}
      \/ p \in (IF k = "particle"
                THEN UNION {{Recycled(t, k, v, TRUE, g) : v \in Looks} : g \in 1..2 \ {t.obj.tag}}
                ELSE {})
  BY Zenon DEF ParticleProduced
<1>2. CASE p \in {t}
  BY <1>2
<1>3. CASE p \in (IF Owned(t) /\ t.obj.age < MaxAge
                THEN {[t EXCEPT !.obj = [Wrote(t.obj, 0, Plain(v)) EXCEPT !.age = @ + 1]] :
                         v \in Looks}
                ELSE {})
  BY <1>3, Zenon DEF Calculated
<1>4. CASE p \in (IF Owned(t) THEN {[t EXCEPT !.obj = Taken(t.obj, 0)]} ELSE {})
  BY <1>4, Zenon
<1>5. CASE p \in (IF Owned(t) /\ k = "emitter"
                THEN {[t EXCEPT !.obj = [Wrote(t.obj, 0, Plain(v)) EXCEPT !.tag = 2]] : v \in Looks}
                ELSE {})
  BY <1>5, Zenon DEF Retagged
<1>6. CASE p \in {Recycled(t, k, v, FALSE, 1) : v \in Looks}
  <2>1. PICK v \in Looks : p = Recycled(t, k, v, FALSE, 1)
    BY <1>6, Zenon
  <2>2. p = [t EXCEPT !.obj = Another(v, 0, 1)]
    BY <2>1, Zenon DEF Recycled, Another
  <2> QED BY <2>2
<1>7. CASE p \in (IF k = "particle"
                THEN UNION {{Recycled(t, k, v, TRUE, g) : v \in Looks} : g \in 1..2 \ {t.obj.tag}}
                ELSE {})
  <2>1. k = "particle" /\ p \in UNION {{Recycled(t, k, v, TRUE, g) : v \in Looks} : g \in 1..2 \ {t.obj.tag}}
    BY <1>7, Zenon
  <2>2. PICK g \in 1..2 \ {t.obj.tag} : p \in {Recycled(t, k, v, TRUE, g) : v \in Looks}
    BY <2>1, Zenon
  <2>3. PICK v \in Looks : p = Recycled(t, k, v, TRUE, g)
    BY <2>2, Zenon
  <2>4. p = [t EXCEPT !.obj = Another(v, 1, g)]
    BY <2>3, Zenon DEF Recycled, Another
  <2> QED BY <2>1, <2>3, <2>4
<1> QED BY <1>1, <1>2, <1>3, <1>4, <1>5, <1>6, <1>7

\* Production keeps the invariant of particles and emitters.
LEMMA JpaProduce ==
  ASSUME Turns, JpaInv, tracked \in JpaKinds, ProduceObject
  PROVE  obj' \in Objects /\ mod' \in Entries /\ JpaInv' /\ ForeignUntouched'
<1>0. turn = "produce" /\ turn' = "painter" /\ shown' = shown /\ tracked' = tracked /\ splitMode' = splitMode
  BY ProduceFrame
<1>1. /\ JpaAt(state) /\ ~state.mod.inj /\ state \in States(Entries) /\ state.obj \in Objects
      /\ state.mod \in Entries
      /\ state.mod.known => state.mod.l = shown
      /\ ~splitMode => ~state.mod.known
      /\ state.mod.known => /\ Owned(state) /\ ~state.obj.new /\ state.mod.age = state.obj.age
                            /\ state.mod.tag = state.obj.tag
  BY <1>0, StateForm DEF JpaInv, JpaAt, JpaKnows, States
<1>2. PICK p \in ParticleProduced(state, tracked) : obj' = p.obj /\ mod' = p.mod
  BY ProduceFrame, JpaEntry
<1>3. ASSUME NEW q \in Objects, p = [state EXCEPT !.obj = q], q.cur = 0, q.mem = q.wrote,
             q.own = "object" => q.wrote[0] \in Plains,
             state.mod.known /\ q.own = "object" /\ q.new =>
               ~(\/ q.age = state.mod.age + 1 /\ (tracked = "particle" => q.tag = state.mod.tag)
                 \/ tracked = "emitter" /\ q.tag = 2 /\ q.age = state.mod.age)
      PROVE  JpaAt(p) /\ JpaKnows(p, tracked, shown) /\ p.mod = state.mod
  <2>1. p \in States(Entries) /\ p.mod = state.mod /\ p.obj = q
    BY <1>1, <1>3, RetaggedState
  <2> QED BY <2>1, <1>1, <1>3 DEF JpaAt, JpaKnows, Owned, Follows
<1>4. JpaAt(p) /\ JpaKnows(p, tracked, shown) /\ p.mod = state.mod
  <2>1. CASE p = state
    BY <2>1, <1>1 DEF JpaKnows
  <2>2. CASE /\ Owned(state) /\ state.obj.age < MaxAge
             /\ \E v \in Looks : p = [state EXCEPT !.obj = Calculated(state.obj, 0, Plain(v))]
    <3>1. PICK v \in Looks : p = [state EXCEPT !.obj = Calculated(state.obj, 0, Plain(v))]
      BY <2>2
    <3>2. Plain(v) \in Plains /\ Plain(v) \in Stored /\ 0 \in Cells
      BY PlainPair DEF Plains, Cells
    <3>3. PICK q : q = Calculated(state.obj, 0, Plain(v))
      OBVIOUS
    <3>4. /\ q \in Objects /\ q.mem = [state.obj.mem EXCEPT ![0] = Plain(v)]
          /\ q.wrote = [state.obj.wrote EXCEPT ![0] = Plain(v)] /\ q.cur = 0
          /\ q.new = state.obj.new /\ q.wrote[0] = Plain(v)
      BY <2>2, <3>2, <3>3, <1>1, CalculatedForm
    <3>5. q.mem = q.wrote
      BY <3>4, <1>1 DEF JpaAt
    <3> QED BY <3>1, <3>2, <3>3, <3>4, <3>5, <1>1, <1>3
  <2>3. CASE Owned(state) /\ p = [state EXCEPT !.obj = Taken(state.obj, 0)]
    <3>1. PICK q : q = Taken(state.obj, 0)
      OBVIOUS
    <3>2. q \in Objects /\ q.wrote = q.mem /\ q.cur = 0 /\ q.own = "other"
      BY <3>1, <1>1, TakenForm DEF JpaAt
    <3> QED BY <2>3, <3>1, <3>2, <1>3
  <2>4. CASE \E v \in Looks : p = [state EXCEPT !.obj = Retagged(state.obj, 0, Plain(v), 2)]
    <3>1. PICK v \in Looks : p = [state EXCEPT !.obj = Retagged(state.obj, 0, Plain(v), 2)]
      BY <2>4
    <3>2. Plain(v) \in Plains /\ Plain(v) \in Stored /\ 0 \in Cells
      BY PlainPair DEF Plains, Cells
    <3>3. PICK q : q = Retagged(state.obj, 0, Plain(v), 2)
      OBVIOUS
    <3>4. /\ q \in Objects /\ q.mem = [state.obj.mem EXCEPT ![0] = Plain(v)]
          /\ q.wrote = [state.obj.wrote EXCEPT ![0] = Plain(v)] /\ q.cur = 0
          /\ q.new = state.obj.new /\ q.wrote[0] = Plain(v)
      BY <3>2, <3>3, <1>1, RetaggedForm
    <3>5. q.mem = q.wrote
      BY <3>4, <1>1 DEF JpaAt
    <3> QED BY <3>1, <3>2, <3>3, <3>4, <3>5, <1>1, <1>3
  <2>5. CASE \E v \in Looks : p = [state EXCEPT !.obj = Another(v, 0, 1)]
    <3>1. PICK v \in Looks : p = [state EXCEPT !.obj = Another(v, 0, 1)]
      BY <2>5
    <3>2. PICK q : q = Another(v, 0, 1)
      OBVIOUS
    <3>3. q \in Objects /\ q.mem = q.wrote /\ q.wrote[0] = Plain(v) /\ q.cur = 0 /\ q.tag = 1 /\ q.age = 0
      BY <3>2, AnotherForm
    <3>4. Plain(v) \in Plains /\ state.mod.age \in 0..MaxAge
      BY <1>1 DEF Plains, Entries
    <3>5. ~(\/ q.age = state.mod.age + 1 /\ (tracked = "particle" => q.tag = state.mod.tag)
            \/ tracked = "emitter" /\ q.tag = 2 /\ q.age = state.mod.age)
      BY <3>3, <3>4 DEF MaxAge
    <3> QED BY <3>1, <3>2, <3>3, <3>4, <3>5, <1>3
  <2>6. CASE /\ tracked = "particle"
             /\ \E v \in Looks : \E g \in 1..2 :
                  g # state.obj.tag /\ p = [state EXCEPT !.obj = Another(v, 1, g)]
    <3>1. PICK v \in Looks : \E g \in 1..2 :
                  g # state.obj.tag /\ p = [state EXCEPT !.obj = Another(v, 1, g)]
      BY <2>6
    <3>2. PICK g \in 1..2 : g # state.obj.tag /\ p = [state EXCEPT !.obj = Another(v, 1, g)]
      BY <3>1
    <3>3. PICK q : q = Another(v, 1, g)
      OBVIOUS
    <3>4. q \in Objects /\ q.mem = q.wrote /\ q.wrote[0] = Plain(v) /\ q.cur = 0 /\ q.tag = g
      BY <3>3, AnotherForm
    <3>5. Plain(v) \in Plains
      BY DEF Plains
    <3>6. state.mod.known => q.tag # state.mod.tag
      BY <3>2, <3>4, <1>1
    <3> QED BY <2>6, <3>2, <3>3, <3>4, <3>5, <3>6, <1>3
  <2> QED BY <2>1, <2>2, <2>3, <2>4, <2>5, <2>6, <1>2, ParticleMade
<1>5. state' = p
  <2>1. p = [obj |-> p.obj, mod |-> p.mod]
    BY <1>4, StateEqual DEF JpaAt
  <2> QED BY <2>1, <1>2, ProduceFrame
<1>6. JpaInv'
  BY <1>0, <1>1, <1>2, <1>4, <1>5 DEF JpaInv
<1> QED BY <1>1, <1>2, <1>4, <1>5, <1>6 DEF JpaAt, States, ForeignUntouched

\* The entries begin empty.
LEMMA JpaInit0 ==
  ASSUME NEW v \in Looks
  PROVE  JpaAt(ParticleInit(v)) /\ ~ParticleInit(v).mod.known /\ ~ParticleInit(v).mod.inj
<1>1. ParticleInit(v).obj = Fresh(v) /\ ParticleInit(v).mod = NoEntry /\ ~NoEntry.known /\ ~NoEntry.inj
  BY DEF ParticleInit, NoEntry
<1>2. NoEntry \in Entries
  BY DEF NoEntry, Entries, Stored, MaxAge
<1>3. ParticleInit(v) \in States(Entries)
  BY <1>2, FreshForm DEF ParticleInit, States
<1>4. /\ Fresh(v).own = "object" /\ Fresh(v).cur = 0 /\ Fresh(v).wrote[0] \in Plains
      /\ Fresh(v).mem = Fresh(v).wrote
  BY FreshForm
<1> QED BY <1>1, <1>3, <1>4, Zenon DEF JpaAt

-----------------------------------------------------------------------------
(* Texture animation.                                                      *)

\* Memory is production's, unless the record is injected: then the span holds the
\* record's blend.  A known record knows what production wrote.
TexAt(t) ==
  /\ t \in States(Records)
  /\ IF Owned(t) THEN t.obj.wrote \in [Cells -> Plains]
     ELSE t.obj.wrote = [c \in Cells |-> Plain(Alien)]
  /\ ~t.mod.inj => t.obj.mem = t.obj.wrote
  /\ t.mod.inj => /\ Owned(t) /\ t.mod.known /\ t.mod.dirty /\ t.mod.lerp \in Values
                  /\ t.obj.mem = [t.obj.wrote EXCEPT ![t.mod.base] = t.mod.lerp]
  /\ t.mod.live => t.mod.known
  /\ t.mod.known => t.mod.curr \in Plains
  /\ t.mod.known /\ Owned(t) => t.mod.curr = t.obj.wrote[t.mod.base] /\ t.mod.base = t.obj.cur

\* A rebuild that an R frame may interpolate starts from what was shown last.
TexKnows(t, sh) ==
  t.mod.known /\ Owned(t) /\ t.mod.since = 0 /\ t.mod.has =>
    t.mod.prev = sh /\ sh \in Plains /\ ~t.obj.new

\* The invariant of texture animations: when logic runs nothing is injected, and what a
\* record knows is what was shown.
TexInv ==
  tracked = "texanim" =>
    /\ TexAt(state)
    /\ turn = "produce" => ~mod.inj
    /\ ~splitMode => ~mod.inj
    /\ turn = "produce" /\ splitMode /\ mod.known => mod.since # 0
    /\ turn = "produce" /\ mod.known /\ Owned(state) => mod.curr = shown /\ ~obj.new
    /\ turn = "painter" /\ splitMode => TexKnows(state, shown)

\* The state with x in the span of cell c.
Spanned(t, c, x) == [t EXCEPT !.obj.mem[c] = x]

\* Writing a span is filling the object's memory.
LEMMA SpannedForm ==
  ASSUME NEW M, NEW t \in States(M), NEW c \in Cells, NEW x
  PROVE  /\ Spanned(t, c, x) = [obj |-> Filled(t.obj, [t.obj.mem EXCEPT ![c] = x]), mod |-> t.mod]
         /\ x \in Stored => [t.obj.mem EXCEPT ![c] = x] \in [Cells -> Stored]
BY DEF Spanned, States, Objects, Cells, Filled

\* The fields of a record, one by one.
LEMMA TexFields ==
  ASSUME NEW r, NEW o, NEW kn, NEW lv, NEW bs, NEW sn, NEW hs, NEW dt, NEW ij, NEW pr, NEW cu, NEW le,
         r = [obj |-> o, mod |-> [known |-> kn, live |-> lv, base |-> bs, since |-> sn, has |-> hs,
                                  dirty |-> dt, inj |-> ij, prev |-> pr, curr |-> cu, lerp |-> le]]
  PROVE  r.obj = o /\ r.mod.known = kn /\ r.mod.live = lv /\ r.mod.base = bs /\ r.mod.since = sn
         /\ r.mod.has = hs /\ r.mod.dirty = dt /\ r.mod.inj = ij /\ r.mod.prev = pr
         /\ r.mod.curr = cu /\ r.mod.lerp = le
OBVIOUS

\* The record with another generation count.
SameRecord(r, t) ==
  r.mod.known = t.mod.known /\ r.mod.live = t.mod.live /\ r.mod.base = t.mod.base
  /\ r.mod.since = t.mod.since /\ r.mod.has = t.mod.has /\ r.mod.prev = t.mod.prev
  /\ r.mod.curr = t.mod.curr

\* Restoring puts production's span back, and keeps the record.
LEMMA TexRestoreForm ==
  ASSUME NEW t, TexAt(t), NEW r, r = TexRestore(t)
  PROVE  /\ TexAt(r) /\ ~r.mod.inj /\ r.obj = Filled(t.obj, t.obj.wrote) /\ SameRecord(r, t)
<1>1. t.obj \in Objects /\ t.mod \in Records /\ t.obj.wrote \in [Cells -> Stored] /\ t \in States(Records)
  BY DEF TexAt, States, Objects
<1>2. CASE ~t.mod.inj
  BY <1>2, <1>1, FilledForm DEF TexRestore, TexAt, SameRecord
<1>3. CASE t.mod.inj
  <2>1. PICK h, m : h = t.mod /\ m = t.obj.wrote
    OBVIOUS
  <2>2. PICK off : off = [t EXCEPT !.mod.inj = FALSE, !.mod.dirty = FALSE]
    OBVIOUS
  <2>3. PICK h0 : h0 = [known |-> h.known, live |-> h.live, base |-> h.base, since |-> h.since,
                        has |-> h.has, dirty |-> FALSE, inj |-> FALSE, prev |-> h.prev,
                        curr |-> h.curr, lerp |-> h.lerp]
    OBVIOUS
  <2>4. off = [obj |-> t.obj, mod |-> h0]
    BY <2>1, <2>2, <2>3, <1>1 DEF States, Records
  <2>5. h0 \in Records
    BY <2>1, <2>3, <1>1 DEF Records
  <2>6. off \in States(Records) /\ off.obj = t.obj /\ off.mod = h0
    BY <2>4, <2>5, <1>1 DEF States
  <2>7. /\ h.base \in Cells /\ h.known /\ h.dirty /\ Owned(t) /\ h.curr = m[h.base]
        /\ t.obj.mem = [m EXCEPT ![h.base] = h.lerp] /\ m \in [Cells -> Stored]
    BY <2>1, <1>1, <1>3 DEF TexAt, Records
  <2>8. Span(t) = t.mod.lerp
    BY <2>1, <2>7 DEF Span
  <2>9. r = Spanned(off, h.base, h.curr)
    BY <2>1, <2>2, <2>7, <2>8, <1>3, Zenon DEF TexRestore, Spanned
  <2>10. [t.obj.mem EXCEPT ![h.base] = h.curr] = m
    BY <2>7
  <2>11. PICK o : o = Filled(t.obj, m)
    OBVIOUS
  <2>12. r = [obj |-> o, mod |-> h0]
    <3>1. PICK c, x : c = h.base /\ x = h.curr
      OBVIOUS
    <3>2. c \in Cells /\ off \in States(Records)
      BY <3>1, <2>6, <2>7
    <3>3. Spanned(off, c, x) = [obj |-> Filled(off.obj, [off.obj.mem EXCEPT ![c] = x]), mod |-> off.mod]
      BY <3>2, SpannedForm
    <3> QED BY <3>1, <3>3, <2>6, <2>9, <2>10, <2>11
  <2>13. /\ r.obj = o /\ r.mod.known = h.known /\ r.mod.live = h.live /\ r.mod.base = h.base
         /\ r.mod.since = h.since /\ r.mod.has = h.has /\ r.mod.inj = FALSE /\ r.mod.prev = h.prev
         /\ r.mod.curr = h.curr
    BY <2>3, <2>12, TexFields
  <2>14. /\ o \in Objects /\ o.mem = m /\ o.wrote = m /\ o.cur = t.obj.cur /\ o.own = t.obj.own
    BY <1>1, <2>1, <2>11, FilledForm
  <2>15. r \in States(Records)
    BY <2>5, <2>12, <2>14 DEF States
  <2>16. Owned(r)
    BY <2>7, <2>13, <2>14 DEF Owned
  <2>17. TexAt(r)
    BY <2>1, <2>7, <2>13, <2>14, <2>15, <2>16 DEF TexAt
  <2>18. SameRecord(r, t)
    BY <2>1, <2>13 DEF SameRecord
  <2> QED BY <2>1, <2>11, <2>13, <2>17, <2>18
<1> QED BY <1>2, <1>3

\* An L frame restores and counts the generations.
LEMMA TexLForm ==
  ASSUME NEW t, TexAt(t), NEW e, e = TexL(t)
  PROVE  /\ TexAt(e) /\ ~e.mod.inj /\ e.obj = Filled(t.obj, t.obj.wrote)
         /\ e.mod.known => e.mod.since # 0
<1>1. PICK b : b = TexRestore(t)
  OBVIOUS
<1>2. TexAt(b) /\ ~b.mod.inj /\ b.obj = Filled(t.obj, t.obj.wrote)
  BY <1>1, TexRestoreForm
<1>3. CASE ~b.mod.known
  BY <1>1, <1>2, <1>3 DEF TexL
<1>4. CASE b.mod.known
  <2>1. PICK h, n : h = b.mod /\ n = IF h.since <= StaleGens THEN h.since + 1 ELSE h.since
    OBVIOUS
  <2>2. b \in States(Records) /\ h \in Records /\ h.since \in 0..(StaleGens + 1)
    BY <1>2, <2>1 DEF TexAt, States, Records
  <2>3. n \in 0..(StaleGens + 1) /\ n # 0
    BY <2>1, <2>2, StaleAssumption
  <2>4. PICK lv \in BOOLEAN : lv <=> h.live /\ n <= StaleGens
    BY Zenon
  <2>5. e = [b EXCEPT !.mod.since = n, !.mod.live = @ /\ n <= StaleGens]
    BY <1>1, <1>4, <2>1, Zenon DEF TexL
  <2>6. e = [obj |-> b.obj, mod |-> [known |-> h.known, live |-> lv, base |-> h.base, since |-> n,
                        has |-> h.has, dirty |-> h.dirty, inj |-> h.inj, prev |-> h.prev,
                        curr |-> h.curr, lerp |-> h.lerp]]
    BY <2>1, <2>2, <2>4, <2>5 DEF States, Records
  <2>7. /\ e.obj = b.obj /\ e.mod.known = h.known /\ e.mod.live = lv /\ e.mod.base = h.base
        /\ e.mod.since = n /\ e.mod.inj = h.inj /\ e.mod.curr = h.curr
    BY <2>6, TexFields
  <2>8. e \in States(Records)
    BY <2>2, <2>3, <2>4, <2>6 DEF States, Records
  <2>9. Owned(e) <=> Owned(b)
    BY <2>7 DEF Owned
  <2>10. TexAt(e)
    BY <2>1, <2>4, <2>7, <2>8, <2>9, <1>2, <1>4 DEF TexAt
  <2> QED BY <2>1, <2>3, <2>7, <2>10, <1>2
<1> QED BY <1>3, <1>4

\* An R frame shows production's span, or one half way from what was shown.
LEMMA TexInjectForm ==
  ASSUME NEW t, TexAt(t), ~t.mod.inj, NEW sh, TexKnows(t, sh), NEW e, e = TexInject(t)
  PROVE  /\ TexAt(e) /\ TexKnows(e, sh) /\ e.obj.wrote = t.obj.wrote
         /\ e.obj.own = t.obj.own /\ e.obj.new = t.obj.new
         /\ Owned(e) => \/ Live(e) = Truth(e)
                        \/ /\ ~e.obj.new /\ sh \in Plains /\ Live(e) = Mix(sh, Truth(e))
                           /\ ~Far(sh, Truth(e))
<1>1. t.obj \in Objects /\ t.mod \in Records /\ t.obj.wrote \in [Cells -> Stored] /\ t \in States(Records)
      /\ t.obj.mem = t.obj.wrote /\ t.mod.base \in Cells
  BY DEF TexAt, States, Objects, Records
<1>2. CASE e = t
  BY <1>1, <1>2 DEF Live, Truth
<1>3. CASE /\ t.mod.live /\ t.mod.since = 0 /\ t.obj.cur = t.mod.base /\ t.mod.has /\ Builds(t.mod)
           /\ Span(t) = t.mod.curr
  <2>1. PICK h, m, c, x : h = t.mod /\ m = t.obj.wrote /\ c = h.base /\ x = Mix(h.prev, h.curr)
    OBVIOUS
  <2>2. h.known /\ h.curr \in Plains
    BY <2>1, <1>3 DEF TexAt
  <2>3. Owned(t)
    <3>1. ~Owned(t) => Span(t) = Plain(Alien)
      BY <1>1 DEF TexAt, Span
    <3> QED BY <3>1, <2>1, <2>2, <1>3, PlainPair
  <2>4. h.prev = sh /\ sh \in Plains /\ ~t.obj.new /\ h.curr = m[c] /\ c = t.obj.cur /\ ~Far(sh, h.curr)
    BY <2>1, <2>2, <2>3, <1>3 DEF TexKnows, TexAt, Builds
  <2>5. x \in Values /\ x \in Stored
    BY <2>1, <2>2, <2>4, PlainPair, MixPair DEF Stored
  <2>6. PICK p : p = Spanned(t, c, x)
    OBVIOUS
  <2>7. PICK m1, o : m1 = [m EXCEPT ![c] = x] /\ o = Filled(t.obj, m1)
    OBVIOUS
  <2>8. p = [obj |-> o, mod |-> h] /\ m1 \in [Cells -> Stored] /\ m1[c] = x
    <3>1. /\ p = [obj |-> Filled(t.obj, [t.obj.mem EXCEPT ![c] = x]), mod |-> t.mod]
          /\ [t.obj.mem EXCEPT ![c] = x] \in [Cells -> Stored]
      BY <2>1, <2>5, <2>6, <1>1, SpannedForm
    <3>2. m1[c] = x
      BY <2>1, <2>7, <1>1
    <3> QED BY <3>1, <3>2, <2>1, <2>7, <1>1
  <2>9. e = [p EXCEPT !.mod.dirty = TRUE, !.mod.inj = TRUE, !.mod.lerp = x]
    BY <2>1, <2>6, <1>3, Zenon DEF TexInject, Spanned
  <2>10. e = [[obj |-> o, mod |-> h] EXCEPT !.mod.dirty = TRUE, !.mod.inj = TRUE, !.mod.lerp = x]
    BY <2>8, <2>9, Zenon
  <2>11. h \in Records
    BY <2>1, <1>1
  <2>12. e = [obj |-> o, mod |-> [known |-> h.known, live |-> h.live, base |-> h.base, since |-> h.since,
                        has |-> h.has, dirty |-> TRUE, inj |-> TRUE, prev |-> h.prev,
                        curr |-> h.curr, lerp |-> x]]
    BY <2>10, <2>11 DEF Records
  <2>13. /\ e.obj = o /\ e.mod.known = h.known /\ e.mod.live = h.live /\ e.mod.base = h.base
         /\ e.mod.since = h.since /\ e.mod.has = h.has /\ e.mod.dirty = TRUE /\ e.mod.inj = TRUE
         /\ e.mod.prev = h.prev /\ e.mod.curr = h.curr /\ e.mod.lerp = x
    BY <2>12, TexFields
  <2>14. /\ o \in Objects /\ o.mem = m1 /\ o.wrote = m /\ o.cur = c
         /\ o.own = t.obj.own /\ o.new = t.obj.new
    BY <1>1, <2>1, <2>4, <2>7, <2>8, FilledForm
  <2>15. e \in States(Records)
    BY <2>5, <2>11, <2>12, <2>14 DEF States, Records
  <2>16. Owned(e) /\ m \in [Cells -> Plains]
    BY <2>1, <2>3, <2>13, <2>14 DEF Owned, TexAt
  <2>17. TexAt(e)
    <3>1. e.obj.mem = m1 /\ e.obj.wrote = m /\ e.obj.cur = c /\ e.mod.base = c /\ e.mod.lerp = x
      BY <2>1, <2>13, <2>14
    <3>2. e.mod.inj /\ e.mod.dirty /\ e.mod.known
      BY <2>2, <2>13
    <3>3. e.obj.mem = [e.obj.wrote EXCEPT ![e.mod.base] = e.mod.lerp]
      BY <3>1, <2>7
    <3>4. e.mod.curr \in Plains /\ e.mod.curr = e.obj.wrote[e.mod.base] /\ e.mod.base = e.obj.cur
      BY <3>1, <2>2, <2>4, <2>13
    <3>5. e.mod.lerp \in Values /\ e.obj.wrote \in [Cells -> Plains]
      BY <3>1, <2>5, <2>16
    <3> QED BY <3>2, <3>3, <3>4, <3>5, <2>15, <2>16, Zenon DEF TexAt
  <2>18. ~e.obj.new /\ e.mod.prev = sh
    BY <2>4, <2>13, <2>14
  <2>19. Live(e) = x /\ Truth(e) = h.curr
    BY <2>4, <2>8, <2>13, <2>14 DEF Live, Truth
  <2> QED BY <2>1, <2>4, <2>13, <2>14, <2>17, <2>18, <2>19 DEF TexKnows
<1> QED BY <1>2, <1>3 DEF TexInject

-----------------------------------------------------------------------------
(* Texture animation: production.                                          *)

\* The hook on a rebuild's end keeps the record true.
LEMMA EndDiffForm ==
  ASSUME NEW t \in States(Records), Owned(t), t.obj.wrote \in [Cells -> Plains],
         t.obj.mem = t.obj.wrote, ~t.mod.inj, t.mod.known => t.mod.curr \in Plains,
         t.mod.live => t.mod.known, NEW reparse \in BOOLEAN, NEW full \in BOOLEAN,
         NEW e, e = EndDiff(t, reparse, full)
  PROVE  /\ TexAt(e) /\ ~e.mod.inj /\ e.obj = t.obj
         /\ e.mod.known /\ e.mod.has => t.mod.known /\ ~reparse /\ e.mod.prev = t.mod.curr
<1>1. PICK h, x, c : h = t.mod /\ x = Live(t) /\ c = t.obj.cur
  OBVIOUS
<1>2. h \in Records /\ t.obj \in Objects /\ c \in Cells
  BY <1>1 DEF States, Objects
<1>3. x \in Plains /\ x = t.obj.wrote[c] /\ x \in Stored
  <2>1. x \in Plains /\ x = t.obj.wrote[c]
    BY <1>1, <1>2 DEF Live
  <2> QED BY <2>1, PlainPair
<1>4. CASE ~h.known /\ full
  <2>1. e = t
    BY <1>1, <1>4 DEF EndDiff
  <2>2. TexAt(e)
    BY <2>1, <1>1, <1>4 DEF TexAt
  <2> QED BY <2>1, <2>2, <1>1, <1>4
<1>5. CASE ~h.known /\ ~full
  <2>1. PICK g : g = [NoRecord EXCEPT !.known = TRUE, !.live = TRUE, !.base = c, !.curr = x]
    OBVIOUS
  <2>2. e = [t EXCEPT !.mod = g]
    BY <2>1, <1>1, <1>5, Zenon DEF EndDiff
  <2>3. g = [known |-> TRUE, live |-> TRUE, base |-> c, since |-> 0, has |-> FALSE, dirty |-> FALSE,
             inj |-> FALSE, prev |-> Nothing, curr |-> x, lerp |-> Nothing]
    BY <2>1 DEF NoRecord
  <2>4. g \in Records
    BY <2>3, <1>2, <1>3, StaleAssumption DEF Records, Stored
  <2>5. g.known /\ g.base = c /\ ~g.has /\ ~g.inj /\ g.curr = x
    BY <2>3
  <2>6. e = [obj |-> t.obj, mod |-> g] /\ e.obj = t.obj /\ e.mod = g
    BY <2>2, ModForm
  <2>7. e \in States(Records)
    BY <2>4, <2>6, <1>2 DEF States
  <2>8. TexAt(e)
    BY <2>5, <2>6, <2>7, <1>1, <1>3 DEF TexAt, Owned
  <2> QED BY <2>5, <2>6, <2>8
<1>6. CASE h.known
  <2>1. PICK hs, pr : hs = ~reparse /\ pr = IF reparse THEN Nothing ELSE h.curr
    OBVIOUS
  <2>2. PICK g : g = [h EXCEPT !.since = 0, !.base = c, !.inj = FALSE, !.dirty = FALSE,
                               !.curr = x, !.has = hs, !.prev = pr]
    OBVIOUS
  <2>3. e = [t EXCEPT !.mod = g]
    BY <2>1, <2>2, <1>1, <1>6, Zenon DEF EndDiff
  <2>4. g = [known |-> h.known, live |-> h.live, base |-> c, since |-> 0, has |-> hs, dirty |-> FALSE,
             inj |-> FALSE, prev |-> pr, curr |-> x, lerp |-> h.lerp]
    BY <2>2, <1>2 DEF Records
  <2>5. pr \in Stored /\ hs \in BOOLEAN
    <3>1. h.curr \in Stored
      BY <1>2 DEF Records
    <3> QED BY <2>1, <3>1 DEF Stored
  <2>6. g \in Records
    BY <2>4, <2>5, <1>2, <1>3, StaleAssumption DEF Records
  <2>7. g.known = h.known /\ g.base = c /\ g.has = hs /\ g.inj = FALSE /\ g.curr = x /\ g.prev = pr
    BY <2>4
  <2>8. e = [obj |-> t.obj, mod |-> g] /\ e.obj = t.obj /\ e.mod = g
    BY <2>3, ModForm
  <2>9. e \in States(Records)
    BY <2>6, <2>8, <1>2 DEF States
  <2>10. TexAt(e)
    BY <2>7, <2>8, <2>9, <1>1, <1>3, <1>6 DEF TexAt, Owned
  <2>11. g.has => ~reparse /\ pr = h.curr
    BY <2>1, <2>7
  <2> QED BY <2>7, <2>8, <2>10, <2>11, <1>1, <1>6
<1> QED BY <1>4, <1>5, <1>6

\* What production can make of a list.
LEMMA TexMade ==
  ASSUME NEW t, NEW p \in TexProduced(t)
  PROVE  \/ p = t \/ p = Freed(t)
         \/ \E v \in Looks : p = EndDiff([t EXCEPT !.obj = Fresh(v)], TRUE, FALSE)
         \/ t.mod.known /\ ~t.mod.live /\ p = [t EXCEPT !.mod = NoRecord]
         \/ Owned(t) /\ p \in Sightings(t)
         \/ Owned(t) /\ \E r \in Sightings(t) : p = Freed(r)
BY DEF TexProduced

\* What a production leaves: a list of its own, or memory of another owner.
TexSighted(p, t) ==
  /\ TexAt(p) /\ ~p.mod.inj
  /\ p = t \/ ~Owned(p) \/ ~(p.mod.known /\ p.mod.has)
     \/ (t.mod.known /\ Owned(t) /\ p.mod.prev = t.mod.curr /\ p.obj.new = t.obj.new)

\* A list that is freed leaves nothing injected.
LEMMA FreedForm ==
  ASSUME NEW t, TexAt(t), ~t.mod.inj, NEW p, p = Freed(t)
  PROVE  TexAt(p) /\ ~p.mod.inj /\ ~Owned(p)
<1>1. t \in States(Records) /\ t.obj \in Objects
  BY DEF TexAt, States
<1>2. PICK q : q = Taken(t.obj, 0)
  OBVIOUS
<1>3. q \in Objects /\ q.mem = [c \in Cells |-> Plain(Alien)] /\ q.wrote = q.mem /\ q.own = "other"
  BY <1>1, <1>2, TakenForm
<1>4. p = [t EXCEPT !.obj = q]
  BY <1>2 DEF Freed
<1>5. p \in States(Records) /\ p.mod = t.mod /\ p.obj = q
  BY <1>1, <1>3, <1>4, RetaggedState
<1>6. ~Owned(p)
  BY <1>3, <1>5 DEF Owned
<1>7. TexAt(p)
  BY <1>3, <1>5, <1>6 DEF TexAt
<1> QED BY <1>5, <1>6, <1>7

\* A list that is rebuilt is seen.
LEMMA SightingForm ==
  ASSUME NEW t, TexAt(t), ~t.mod.inj, Owned(t), NEW p \in Sightings(t)
  PROVE  TexSighted(p, t)
<1>1. \E c \in Cells : \E v \in Looks : \E reparse \in BOOLEAN : \E full \in BOOLEAN :
        p = EndDiff(Rebuilt(t, c, v), reparse, full)
  BY DEF Sightings
<1>2. PICK c \in Cells : \E v \in Looks : \E reparse \in BOOLEAN : \E full \in BOOLEAN :
        p = EndDiff(Rebuilt(t, c, v), reparse, full)
  BY <1>1
<1>3. PICK v \in Looks : \E reparse \in BOOLEAN : \E full \in BOOLEAN :
        p = EndDiff(Rebuilt(t, c, v), reparse, full)
  BY <1>2
<1>4. PICK reparse \in BOOLEAN : \E full \in BOOLEAN : p = EndDiff(Rebuilt(t, c, v), reparse, full)
  BY <1>3
<1>5. PICK full \in BOOLEAN : p = EndDiff(Rebuilt(t, c, v), reparse, full)
  BY <1>4
<1>6. PICK x, q, r : x = Plain(v) /\ q = Wrote(t.obj, c, x) /\ r = Rebuilt(t, c, v)
  OBVIOUS
<1>7. x \in Plains /\ x \in Stored
  BY <1>6, PlainPair DEF Plains
<1>8. t \in States(Records) /\ t.obj \in Objects
  BY DEF TexAt, States
<1>9. /\ q \in Objects /\ q.mem = [t.obj.mem EXCEPT ![c] = x] /\ q.wrote = [t.obj.wrote EXCEPT ![c] = x]
      /\ q.own = t.obj.own /\ q.new = t.obj.new
  BY <1>6, <1>7, <1>8, WroteForm
<1>10. r = [t EXCEPT !.obj = q]
  BY <1>6 DEF Rebuilt
<1>11. r \in States(Records) /\ r.mod = t.mod /\ r.obj = q
  BY <1>8, <1>9, <1>10, RetaggedState
<1>12. t.obj.mem = t.obj.wrote /\ t.obj.wrote \in [Cells -> Plains]
  BY DEF TexAt
<1>13. r.obj.mem = r.obj.wrote /\ r.obj.wrote \in [Cells -> Plains]
  BY <1>7, <1>9, <1>11, <1>12
<1>14. /\ Owned(r) /\ ~r.mod.inj /\ (r.mod.known => r.mod.curr \in Plains) /\ (r.mod.live => r.mod.known)
  BY <1>9, <1>11 DEF Owned, TexAt
<1>15. p = EndDiff(r, reparse, full)
  BY <1>5, <1>6
<1>16. /\ TexAt(p) /\ ~p.mod.inj /\ p.obj = r.obj
       /\ p.mod.known /\ p.mod.has => r.mod.known /\ ~reparse /\ p.mod.prev = r.mod.curr
  BY <1>11, <1>13, <1>14, <1>15, EndDiffForm
<1> QED BY <1>9, <1>11, <1>16 DEF TexSighted

\* Whatever production does, the record stays true.
LEMMA TexSights ==
  ASSUME NEW t, TexAt(t), ~t.mod.inj, NEW p \in TexProduced(t)
  PROVE  TexSighted(p, t)
<1>1. t \in States(Records) /\ t.obj \in Objects /\ t.mod \in Records
  BY DEF TexAt, States
<1>2. CASE p = t
  BY <1>2 DEF TexSighted
<1>3. CASE p = Freed(t)
  BY <1>3, FreedForm DEF TexSighted
<1>4. CASE \E v \in Looks : p = EndDiff([t EXCEPT !.obj = Fresh(v)], TRUE, FALSE)
  <2>1. PICK v \in Looks : p = EndDiff([t EXCEPT !.obj = Fresh(v)], TRUE, FALSE)
    BY <1>4
  <2>2. PICK q : q = Fresh(v)
    OBVIOUS
  <2>3. PICK r : r = [t EXCEPT !.obj = q]
    OBVIOUS
  <2>4. /\ q \in Objects /\ q.mem = q.wrote /\ q.mem = [c \in Cells |-> Plain(v)] /\ q.own = "object"
        /\ Plain(v) \in Plains
    BY <2>2, FreshForm
  <2>5. r \in States(Records) /\ r.mod = t.mod /\ r.obj = q
    BY <2>3, <2>4, <1>1, RetaggedState
  <2>6. /\ Owned(r) /\ r.obj.wrote \in [Cells -> Plains] /\ r.obj.mem = r.obj.wrote /\ ~r.mod.inj
        /\ r.mod.known => r.mod.curr \in Plains
        /\ r.mod.live => r.mod.known
    <3>1. q.wrote \in [Cells -> Plains]
      BY <2>4
    <3>2. Owned(r) /\ r.obj.mem = r.obj.wrote /\ r.obj.wrote \in [Cells -> Plains]
      BY <2>4, <2>5, <3>1 DEF Owned
    <3>3. /\ ~t.mod.inj /\ (t.mod.known => t.mod.curr \in Plains)
          /\ t.mod.live => t.mod.known
      BY Zenon DEF TexAt
    <3> QED BY <3>2, <3>3, <2>5, Zenon
  <2>7. PICK rp, fl : rp = TRUE /\ fl = FALSE
    OBVIOUS
  <2>8. p = EndDiff(r, rp, fl) /\ rp \in BOOLEAN /\ fl \in BOOLEAN
    BY <2>1, <2>2, <2>3, <2>7
  <2>9. /\ TexAt(p) /\ ~p.mod.inj
        /\ p.mod.known /\ p.mod.has => ~rp
    BY <2>5, <2>6, <2>8, EndDiffForm
  <2> QED BY <2>7, <2>9 DEF TexSighted
<1>5. CASE p = [t EXCEPT !.mod = NoRecord]
  <2>1. p = [obj |-> t.obj, mod |-> NoRecord] /\ p.obj = t.obj /\ p.mod = NoRecord
    BY <1>1, <1>5, ModForm
  <2>2. NoRecord \in Records /\ ~NoRecord.known /\ ~NoRecord.inj /\ ~NoRecord.live
    BY StaleAssumption DEF NoRecord, Records, Stored, Cells
  <2>3. p \in States(Records)
    BY <2>1, <2>2, <1>1 DEF States
  <2>4. Owned(p) <=> Owned(t)
    BY <2>1 DEF Owned
  <2>5. TexAt(p)
    BY <2>1, <2>2, <2>3, <2>4 DEF TexAt
  <2> QED BY <2>1, <2>2, <2>5 DEF TexSighted
<1>6. CASE Owned(t) /\ p \in Sightings(t)
  BY <1>6, SightingForm
<1>7. CASE Owned(t) /\ \E r \in Sightings(t) : p = Freed(r)
  <2>1. PICK r \in Sightings(t) : p = Freed(r)
    BY <1>7
  <2>2. TexAt(r) /\ ~r.mod.inj
    BY <2>1, <1>7, SightingForm DEF TexSighted
  <2>3. TexAt(p) /\ ~p.mod.inj /\ ~Owned(p)
    BY <2>1, <2>2, FreedForm
  <2> QED BY <2>3 DEF TexSighted
<1> QED BY <1>2, <1>3, <1>4, <1>5, <1>6, <1>7, TexMade

\* For a list, what Painter's entry is by the kind of frame.
LEMMA TexEntry ==
  ASSUME tracked = "texanim", NEW b
  PROVE  /\ LframeOf(b) = {TexL(b)}
         /\ \A c : RframeOf(b, c) = {TexR(b, c)}
         /\ DupOf(b) = TexRestore(b) /\ ResetOf(b) = TexReset(b)
         /\ ProducedBy(b) = TexProduced(b)
<1>1. LframeOf(b) = {TexL(b)}
  BY DEF LframeOf, PoseKinds, ClothKinds
<1>2. \A c : RframeOf(b, c) = {TexR(b, c)}
  BY DEF RframeOf, PoseKinds, ClothKinds
<1>3. DupOf(b) = TexRestore(b)
  BY DEF DupOf
<1>4. ResetOf(b) = TexReset(b)
  BY DEF ResetOf, PoseKinds, ClothKinds
<1>5. ProducedBy(b) = TexProduced(b)
  BY DEF ProducedBy, PoseKinds, ClothKinds
<1> QED BY <1>1, <1>2, <1>3, <1>4, <1>5

\* Production keeps the invariant of texture animations.
LEMMA TexProduce ==
  ASSUME Turns, TexInv, tracked = "texanim", ProduceObject
  PROVE  obj' \in Objects /\ mod' \in Records /\ TexInv' /\ ForeignUntouched'
<1>0. turn = "produce" /\ turn' = "painter" /\ shown' = shown /\ tracked' = tracked /\ splitMode' = splitMode
  BY ProduceFrame
<1>1. /\ TexAt(state) /\ ~state.mod.inj
      /\ splitMode /\ state.mod.known => state.mod.since # 0
      /\ state.mod.known /\ Owned(state) => state.mod.curr = shown /\ ~state.obj.new /\ shown \in Plains
  BY <1>0, StateForm DEF TexInv, TexAt
<1>2. PICK p \in TexProduced(state) : obj' = p.obj /\ mod' = p.mod
  BY ProduceFrame, TexEntry
<1>3. TexSighted(p, state)
  BY <1>1, <1>2, TexSights
<1>4. splitMode => TexKnows(p, shown)
  BY <1>1, <1>3 DEF TexSighted, TexKnows
<1>5. state' = p
  <2>1. p = [obj |-> p.obj, mod |-> p.mod]
    BY <1>3, StateEqual DEF TexSighted, TexAt
  <2> QED BY <2>1, <1>2, ProduceFrame
<1>6. TexInv'
  BY <1>0, <1>2, <1>3, <1>4, <1>5 DEF TexInv, TexSighted
<1> QED BY <1>2, <1>3, <1>5, <1>6 DEF TexSighted, TexAt, States, ForeignUntouched

\* The records begin empty.
LEMMA TexInit0 ==
  ASSUME NEW v \in Looks
  PROVE  TexAt(TexInit(v)) /\ ~TexInit(v).mod.known /\ ~TexInit(v).mod.inj
<1>1. PICK q, p : q = Fresh(v) /\ p = TexInit(v)
  OBVIOUS
<1>2. p = [obj |-> q, mod |-> NoRecord] /\ p.obj = q /\ p.mod = NoRecord
  BY <1>1 DEF TexInit
<1>3. NoRecord \in Records /\ ~NoRecord.known /\ ~NoRecord.inj /\ ~NoRecord.live
  BY StaleAssumption DEF NoRecord, Records, Stored, Cells
<1>4. /\ q \in Objects /\ q.mem = q.wrote /\ q.mem = [c \in Cells |-> Plain(v)] /\ q.own = "object"
      /\ Plain(v) \in Plains
  BY <1>1, FreshForm
<1>5. p \in States(Records)
  BY <1>2, <1>3, <1>4 DEF States
<1>6. TexAt(p)
  BY <1>2, <1>3, <1>4, <1>5 DEF TexAt, Owned
<1> QED BY <1>1, <1>2, <1>3, <1>6

-----------------------------------------------------------------------------
(* Texture animation: a Painter.                                           *)

\* A reset restores and forgets.
LEMMA TexResetForm ==
  ASSUME NEW t, TexAt(t), NEW e, e = TexReset(t)
  PROVE  TexAt(e) /\ ~e.mod.known /\ ~e.mod.inj /\ e.obj = Filled(t.obj, t.obj.wrote)
<1>1. PICK b : b = TexRestore(t)
  OBVIOUS
<1>2. TexAt(b) /\ ~b.mod.inj /\ b.obj = Filled(t.obj, t.obj.wrote)
  BY <1>1, TexRestoreForm
<1>3. b \in States(Records) /\ b.obj \in Objects /\ b.obj.mem = b.obj.wrote
  BY <1>2 DEF TexAt, States
<1>4. e = [obj |-> b.obj, mod |-> NoRecord] /\ e.obj = b.obj /\ e.mod = NoRecord
  BY <1>1, <1>3, ModForm DEF TexReset
<1>5. NoRecord \in Records /\ ~NoRecord.known /\ ~NoRecord.inj /\ ~NoRecord.live
  BY StaleAssumption DEF NoRecord, Records, Stored, Cells
<1>6. e \in States(Records)
  BY <1>3, <1>4, <1>5 DEF States
<1>7. Owned(e) <=> Owned(b)
  BY <1>4 DEF Owned
<1> QED BY <1>2, <1>3, <1>4, <1>5, <1>6, <1>7 DEF TexAt

\* What a Painter's entry makes of the list and its record.
LEMMA TexPainted ==
  ASSUME TexInv, tracked = "texanim", turn = "painter", NEW f, Playable(f),
         NEW e \in EntryOf(Begun(f), f)
  PROVE  /\ TexAt(e) /\ (f.class = "R" => TexKnows(e, shown))
         /\ f.class = "L" => /\ ~e.mod.inj
                             /\ f.split /\ e.mod.known => e.mod.since # 0
         /\ f.class = "R" /\ ~f.dup /\ Owned(e) =>
              \/ Live(e) = Truth(e)
              \/ /\ ~f.cut /\ ~e.obj.new /\ shown \in Plains /\ Live(e) = Mix(shown, Truth(e))
                 /\ ~Far(shown, Truth(e))
<1>1. /\ f \in Frames /\ (f.class = "R" => f.split /\ splitMode) /\ (f.class # "R" => f.class = "L")
      /\ f.dup => f.class = "R"
  BY DEF Playable, Frames
<1>2. /\ TexAt(state) /\ (splitMode => TexKnows(state, shown)) /\ (~splitMode => ~state.mod.inj)
  BY StateForm DEF TexInv
<1>3. tracked \in SeenKinds
  BY DEF SeenKinds
<1>4. PICK b : b = Begun(f)
  OBVIOUS
<1>5. /\ TexAt(b) /\ (f.class = "R" => b = state) /\ (~f.split => ~b.mod.inj)
  <2>1. CASE f.split <=> splitMode
    BY <2>1, <1>2, <1>4 DEF Begun
  <2>2. CASE ~(f.split <=> splitMode)
    <3>1. b = TexReset(state)
      BY <2>2, <1>1, <1>4, TexEntry DEF Begun
    <3>2. TexAt(b) /\ ~b.mod.inj
      BY <3>1, <1>2, TexResetForm
    <3> QED BY <3>2, <2>2, <1>1
  <2> QED BY <2>1, <2>2
<1>6. /\ ~f.split => e = b
      /\ f.split /\ f.class = "L" => e = TexL(b)
      /\ f.dup => e = TexRestore(b)
      /\ f.class = "R" /\ ~f.dup => e = TexR(b, f.cut)
  <2>1. /\ ~f.split => e = b
        /\ f.split /\ f.class = "L" => e \in LframeOf(b)
        /\ f.split /\ f.class = "R" /\ f.dup => e = DupOf(b)
        /\ f.split /\ f.class = "R" /\ ~f.dup => e \in RframeOf(b, f.cut)
    BY <1>1, <1>3, <1>4, SeenEntry
  <2> QED BY <2>1, <1>1, TexEntry
<1>7. CASE f.class = "L" /\ ~f.split
  BY <1>5, <1>6, <1>7
<1>8. CASE f.class = "L" /\ f.split
  <2>1. TexAt(e) /\ ~e.mod.inj /\ (e.mod.known => e.mod.since # 0)
    BY <1>5, <1>6, <1>8, TexLForm
  <2> QED BY <2>1, <1>8
<1>9. CASE f.class = "R"
  <2>1. PICK r : r = TexRestore(state)
    OBVIOUS
  <2>2. TexAt(r) /\ ~r.mod.inj /\ r.obj = Filled(state.obj, state.obj.wrote) /\ SameRecord(r, state)
    BY <2>1, <1>2, TexRestoreForm
  <2>3. r.obj.own = state.obj.own /\ r.obj.new = state.obj.new
    <3>1. state.obj \in Objects
      BY <1>2 DEF TexAt, States
    <3> QED BY <3>1, <2>2, FilledForm
  <2>4. TexKnows(r, shown)
    <3>1. TexKnows(state, shown)
      BY <1>1, <1>2, <1>9
    <3>2. Owned(r) <=> Owned(state)
      BY <2>3 DEF Owned
    <3> QED BY <3>1, <3>2, <2>2, <2>3 DEF TexKnows, SameRecord
  <2>5. CASE f.dup \/ f.cut
    <3>1. e = r
      BY <2>1, <2>5, <1>5, <1>6, <1>9 DEF TexR
    <3>2. Live(e) = Truth(e)
      BY <3>1, <2>2 DEF TexAt, Live, Truth
    <3> QED BY <3>1, <3>2, <2>2, <2>4, <1>9
  <2>6. CASE ~f.dup /\ ~f.cut
    <3>1. e = TexInject(r)
      BY <2>1, <2>6, <1>5, <1>6, <1>9 DEF TexR
    <3>2. /\ TexAt(e) /\ TexKnows(e, shown)
          /\ Owned(e) => \/ Live(e) = Truth(e)
                         \/ /\ ~e.obj.new /\ shown \in Plains /\ Live(e) = Mix(shown, Truth(e))
                            /\ ~Far(shown, Truth(e))
      BY <3>1, <2>2, <2>4, TexInjectForm
    <3> QED BY <3>2, <2>6, <1>9
  <2> QED BY <2>5, <2>6
<1> QED BY <1>1, <1>7, <1>8, <1>9

\* Every Painter keeps the invariant of texture animations, and the promises.
LEMMA TexPaint ==
  ASSUME Turns, TexInv, tracked = "texanim", shown \in Plains \cup {Nothing, Plain(Alien)}, Paints
  PROVE  /\ obj' \in Objects /\ mod' \in Records
         /\ drawn' \in Values \cup {Nothing, Plain(Alien)}
         /\ shown' \in Plains \cup {Nothing, Plain(Alien)}
         /\ TexInv' /\ LogicSeesTruth' /\ ForeignUntouched' /\ RFrameInterpolates'
<1>1. tracked \in SeenKinds
  BY DEF SeenKinds
<1>0. turn = "painter"
  BY DEF Paints, PaintUnsplit, PaintEngage, PaintL, PaintR, PaintDup, Painted
<1>2. \A f : Playable(f) => \A s \in EntryOf(Begun(f), f) : s \in States(Records)
  BY <1>0, TexPainted DEF TexAt
<1>3. PICK f : \E s \in EntryOf(Begun(f), f) : Shown(s, f) /\ state' \in States(Records)
  BY <1>1, <1>2, SeenPaint
<1>4. PICK s \in EntryOf(Begun(f), f) : Shown(s, f) /\ state' \in States(Records)
  BY <1>3
<1>5. /\ TexAt(s) /\ (f.class = "R" => TexKnows(s, shown))
      /\ f.class = "L" => /\ ~s.mod.inj
                          /\ f.split /\ s.mod.known => s.mod.since # 0
      /\ f.class = "R" /\ ~f.dup /\ Owned(s) =>
           \/ Live(s) = Truth(s)
           \/ /\ ~f.cut /\ ~s.obj.new /\ shown \in Plains /\ Live(s) = Mix(shown, Truth(s))
              /\ ~Far(shown, Truth(s))
  BY <1>0, <1>4, TexPainted DEF Shown
<1>6. /\ drawn' = (IF ~Owned(s) \/ f.dup THEN Nothing ELSE Live(s))
      /\ shown' = (IF f.class = "L" /\ drawn' # Nothing THEN drawn' ELSE shown)
      /\ mod' = s.mod /\ obj' \in Objects /\ state'.obj = obj' /\ state'.mod = mod'
      /\ obj'.mem = s.obj.mem /\ obj'.wrote = s.obj.wrote /\ obj'.cur = s.obj.cur
      /\ obj'.own = s.obj.own
      /\ Live(state') = Live(s) /\ Truth(state') = Truth(s) /\ LastMade' = Truth(s)
      /\ (Owned(state') <=> Owned(s))
  BY <1>4, Zenon DEF Shown
<1>7. obj'.new <=> s.obj.new /\ ~(f.class = "L" /\ drawn' # Nothing)
  BY <1>4, Zenon DEF Shown
<1>8. /\ turn' = (IF f.class = "L" THEN "produce" ELSE "painter") /\ tracked' = tracked
      /\ frameClass' = f.class /\ rDup' = f.dup /\ f.class \in {"L", "R"} /\ f.dup \in BOOLEAN
      /\ splitMode' = f.split /\ (f.class = "R" => f.split) /\ (f.dup => f.class = "R")
      /\ f.class = "R" /\ ~f.dup => (cut' <=> f.cut)
  BY <1>4 DEF Shown, PacedBy, Playable, Frames
<1>9. TexAt(state')
  BY <1>4, <1>5, <1>6 DEF TexAt
<1>10. Nothing \notin Plains /\ Plains \subseteq Values
  BY PlainPair
<1>11. /\ Owned(s) => Truth(s) \in Plains
       /\ ~s.mod.inj => Live(s) = Truth(s)
       /\ s.mod.known /\ Owned(s) => s.mod.curr = Truth(s)
  <2>1. s.obj.cur \in Cells
    BY <1>4 DEF Shown, Objects
  <2> QED BY <2>1, <1>5 DEF TexAt, Live, Truth
<1>12. CASE f.class = "L"
  <2>1. ~s.mod.inj /\ Live(s) = Truth(s) /\ ~f.dup
    BY <1>5, <1>8, <1>11, <1>12
  <2>2. Owned(s) => drawn' = Truth(s) /\ shown' = drawn' /\ ~obj'.new
    <3>1. Owned(s) => drawn' = Truth(s) /\ drawn' # Nothing
      BY <2>1, <1>6, <1>10, <1>11
    <3> QED BY <3>1, <1>6, <1>7, <1>12
  <2>3. ~Owned(s) => drawn' = Nothing /\ shown' = shown
    BY <1>6
  <2>4. mod'.known /\ Owned(state') => mod'.curr = shown' /\ ~obj'.new
    BY <2>2, <1>6, <1>11
  <2>5. TexInv'
    BY <2>1, <2>4, <1>5, <1>6, <1>8, <1>9, <1>12 DEF TexInv
  <2>6. LogicSeesTruth'
    <3>1. obj'.mem = obj'.wrote
      BY <2>1, <1>5, <1>6 DEF TexAt
    <3> QED BY <3>1, <2>1, <2>2, <2>3, <1>6 DEF LogicSeesTruth
  <2> QED BY <2>2, <2>3, <2>5, <2>6, <1>4, <1>6, <1>8, <1>9, <1>10, <1>11, <1>12
          DEF RFrameInterpolates, ForeignUntouched, States, TexAt
<1>13. CASE f.class = "R"
  <2>1. shown' = shown /\ (obj'.new <=> s.obj.new) /\ turn' = "painter" /\ splitMode' = TRUE
    <3>1. f.class # "L"
      BY <1>13
    <3>2. f.split = TRUE
      BY <1>8, <1>13, <1>4 DEF Shown, Playable, Frames
    <3> QED BY <3>1, <3>2, <1>6, <1>7, <1>8
  <2>2. TexKnows(state', shown)
    BY <2>1, <1>5, <1>6, <1>13 DEF TexKnows
  <2>3. TexInv'
    BY <2>1, <2>2, <1>8, <1>9 DEF TexInv
  <2>4. ASSUME drawn' # Nothing
        PROVE  /\ drawn' = LastMade' \/ (Between(drawn)' /\ ~cut')
               /\ drawn' \in Values
    <3>1. Owned(s) /\ ~f.dup /\ drawn' = Live(s) /\ Truth(s) \in Values
      BY <2>4, <1>6, <1>10, <1>11
    <3>2. CASE Live(s) = Truth(s)
      BY <3>1, <3>2, <1>6
    <3>3. CASE /\ ~f.cut /\ ~s.obj.new /\ shown \in Plains /\ Live(s) = Mix(shown, Truth(s))
               /\ ~Far(shown, Truth(s))
      <4>1. shown # Nothing /\ shown \in Values
        BY <3>3, <1>10
      <4>2. drawn' \in Values
        BY <4>1, <3>1, <3>3, MixPair
      <4>3. Between(drawn)'
        BY <4>1, <3>1, <3>3, <2>1, <1>6 DEF Between
      <4> QED BY <4>2, <4>3, <3>1, <3>3, <1>8, <1>13
    <3> QED BY <3>1, <3>2, <3>3, <1>5, <1>13
  <2>5. RFrameInterpolates'
    <3>1. tracked' \notin {"fader", "pre", "post"}
      BY <1>8
    <3> QED BY <3>1, <2>4 DEF RFrameInterpolates
  <2>6. drawn' \in Values \cup {Nothing, Plain(Alien)}
    BY <2>4
  <2>7. LogicSeesTruth'
    BY <2>1 DEF LogicSeesTruth
  <2> QED BY <2>1, <2>3, <2>5, <2>6, <2>7, <1>4, <1>6, <1>9 DEF ForeignUntouched, States, TexAt
<1> QED BY <1>8, <1>12, <1>13

-----------------------------------------------------------------------------
(* The pose history: the slot.                                             *)

\* Over the reference itself, the whole of a value is written.
LEMMA DiffForm ==
  ASSUME NEW x \in Values, NEW l
  PROVE  Diff(l, x, l) = x
<1>1. x = <<x[1], x[2]>>
  BY DEF Values
<1> QED BY <1>1 DEF Diff

\* The slot with other flags, or with another injected pose.
Flagged(h, i, m)     == [h EXCEPT !.inj = i, !.mask = m]
Scratched(h, x)      == [h EXCEPT !.scratch = x, !.mask = TRUE, !.inj = TRUE]

\* The slot with another pose injected.
LEMMA ScratchedForm ==
  ASSUME NEW h \in Slots, NEW x \in Stored, NEW g, g = Scratched(h, x)
  PROVE  /\ g \in Slots /\ g.used = h.used /\ g.data = h.data /\ g.stale = h.stale
         /\ g.has = h.has /\ g.dirty = h.dirty /\ g.tele = h.tele /\ g.inj
         /\ g.prev = h.prev /\ g.curr = h.curr /\ g.scratch = x
BY DEF Scratched, Slots

\* A free slot holds no history.
LEMMA FreeSlotForm ==
  /\ FreeSlot \in Slots /\ ~FreeSlot.used /\ ~FreeSlot.has /\ ~FreeSlot.inj /\ FreeSlot.data = 0
  /\ ~FreeSlot.stale
BY DEF FreeSlot, Slots, Stored

\* A rotation takes x for the current pose; a teleport has no earlier one.
LEMMA RotateForm ==
  ASSUME NEW h \in Slots, NEW x \in Plains, h.has => h.curr \in Plains,
         NEW g, g = Rotate(h, x)
  PROVE  /\ g \in Slots /\ g.used = h.used /\ g.data = h.data /\ g.stale = h.stale
         /\ g.inj = h.inj /\ g.mask = h.mask /\ g.scratch = h.scratch
         /\ g.has /\ g.curr = x /\ g.prev \in Plains
         /\ g.dirty => h.has /\ h.curr # x /\ g.prev = h.curr /\ ~Far(h.curr, x)
<1>1. x \in Stored
  BY PlainPair
<1>2. CASE ~h.has
  <2>1. g = [h EXCEPT !.has = TRUE, !.dirty = FALSE, !.tele = FALSE, !.prev = x, !.curr = x]
    BY <1>2 DEF Rotate
  <2>2. /\ g \in Slots /\ g.used = h.used /\ g.data = h.data /\ g.stale = h.stale
        /\ g.inj = h.inj /\ g.mask = h.mask /\ g.scratch = h.scratch
        /\ g.has /\ ~g.dirty /\ g.prev = x /\ g.curr = x
    BY <1>1, <2>1 DEF Slots
  <2> QED BY <2>2
<1>3. CASE h.has /\ Far(h.curr, x)
  <2>1. g = [h EXCEPT !.dirty = FALSE, !.tele = TRUE, !.prev = x, !.curr = x]
    BY <1>3 DEF Rotate
  <2>2. /\ g \in Slots /\ g.used = h.used /\ g.data = h.data /\ g.stale = h.stale
        /\ g.inj = h.inj /\ g.mask = h.mask /\ g.scratch = h.scratch
        /\ g.has = h.has /\ ~g.dirty /\ g.prev = x /\ g.curr = x
    BY <1>1, <2>1 DEF Slots
  <2> QED BY <1>3, <2>2
<1>4. CASE h.has /\ ~Far(h.curr, x)
  <2>0. PICK d \in BOOLEAN : d <=> h.curr # x
    BY Zenon
  <2>1. g = [h EXCEPT !.prev = h.curr, !.curr = x, !.dirty = (h.curr # x), !.tele = FALSE]
    BY <1>4 DEF Rotate
  <2>2. g = [h EXCEPT !.prev = h.curr, !.curr = x, !.dirty = d, !.tele = FALSE]
    BY <2>0, <2>1
  <2>3. /\ g \in Slots /\ g.used = h.used /\ g.data = h.data /\ g.stale = h.stale
        /\ g.inj = h.inj /\ g.mask = h.mask /\ g.scratch = h.scratch
        /\ g.has = h.has /\ g.dirty = d /\ g.prev = h.curr /\ g.curr = x
    BY <1>1, <2>2 DEF Slots
  <2> QED BY <1>4, <2>0, <2>3
<1> QED BY <1>2, <1>3, <1>4

\* A slot that has forgotten its history.
LEMMA ForgottenForm ==
  ASSUME NEW h \in Slots, NEW g, g = Forgotten(h)
  PROVE  g \in Slots /\ g.used = h.used /\ g.data = h.data /\ ~g.has /\ ~g.inj
BY DEF Forgotten, Slots

\* A history survives the hook on calc only as it was.
ModelTags == 1..2

Outlives(g, h, tag) ==
  /\ g \in Slots /\ ~g.inj
  /\ g = h \/ ~g.has
  /\ g.has => g.data = tag

\* The hook on calc keeps the history of the same model, or none.
LEMMA CalcForm ==
  ASSUME NEW h \in Slots, ~h.inj, h.has => h.used, NEW tag \in ModelTags, NEW full,
         NEW newLayout, NEW g, g = CalcEntry(h, tag, full, newLayout)
  PROVE  Outlives(g, h, tag)
<1>1. PICK u : u = [FreeSlot EXCEPT !.used = TRUE]
  OBVIOUS
<1>2. u \in Slots /\ u.used /\ ~u.has /\ ~u.inj /\ u.data = 0
  BY <1>1, FreeSlotForm DEF Slots
<1>3. PICK w, w0 : w = Forgotten(h) /\ w0 = [w EXCEPT !.stale = FALSE, !.mask = FALSE]
  OBVIOUS
<1>4. w \in Slots /\ ~w.has /\ ~w.inj
  BY <1>3, ForgottenForm
<1>5. w0 \in Slots /\ ~w0.has /\ ~w0.inj
  BY <1>3, <1>4 DEF Slots
<1>6. PICK e : e = Ensured(h, full, newLayout)
  OBVIOUS
<1>7. e = h \/ e = u \/ e = w0
  BY <1>1, <1>3, <1>6, Zenon DEF Ensured
<1>8. e \in Slots /\ ~e.inj /\ (e = h \/ ~e.has)
  BY <1>2, <1>5, <1>7
<1>9. CASE ~e.used \/ e.data = tag
  <2>1. g = e
    BY <1>6, <1>9 DEF CalcEntry
  <2>2. g.has => g = h /\ h.data = tag
    BY <2>1, <1>8, <1>9
  <2> QED BY <2>1, <2>2, <1>8 DEF Outlives
<1>10. CASE ~(~e.used \/ e.data = tag)
  <2>1. PICK y : y = Forgotten(e)
    OBVIOUS
  <2>2. y \in Slots /\ ~y.has /\ ~y.inj
    BY <2>1, <1>8, ForgottenForm
  <2>3. g = [y EXCEPT !.data = tag]
    BY <2>1, <1>6, <1>10, Zenon DEF CalcEntry
  <2>4. g \in Slots /\ ~g.has /\ ~g.inj
    BY <2>2, <2>3 DEF Slots, ModelTags
  <2> QED BY <2>4 DEF Outlives
<1> QED BY <1>9, <1>10

-----------------------------------------------------------------------------
(* The pose history: its invariant.                                        *)

\* The slot's model is the one in memory.
PoseValid(t) == t.mod.used /\ t.mod.data # 0 /\ t.obj.tag = t.mod.data

\* Memory is production's, unless a pose is injected: then the model is alive, and the
\* injected pose is half way between the two the slot knows.
PoseAt(t, k) ==
  /\ t \in States(Slots) /\ (k = "nodes" => t.obj.cur = 0)
  /\ Owned(t) => t.obj.tag \in 1..2 /\ Truth(t) \in Plains
  /\ PoseValid(t) => Owned(t)
  /\ t.mod.has => t.mod.used /\ t.mod.curr \in Plains /\ t.mod.prev \in Plains
  /\ ~t.mod.inj => t.obj.mem = t.obj.wrote
  /\ t.mod.inj => /\ PoseValid(t) /\ t.mod.has /\ t.mod.dirty /\ ~t.mod.tele
                  /\ t.mod.curr = Truth(t) /\ t.mod.scratch = Mix(t.mod.prev, t.mod.curr)
                  /\ t.obj.mem = [t.obj.wrote EXCEPT ![t.obj.cur] = t.mod.scratch]

\* What the history of a live model says of the last look shown: before an R frame
\* has compared it with memory (lk), and after.
PoseKnows(t, sh, ag, lk) ==
  PoseValid(t) /\ t.mod.has =>
    IF lk THEN /\ t.mod.curr = Truth(t)
               /\ t.mod.dirty => \/ /\ t.mod.prev = sh /\ ~t.obj.new /\ sh \in Plains
                                    /\ ~Far(t.mod.prev, t.mod.curr)
                                 \/ sh = t.mod.curr /\ ag
    ELSE t.mod.curr = sh /\ ~t.obj.new /\ (t.mod.dirty => ag)

\* The invariant of the pose history.
PoseInv ==
  tracked \in PoseKinds =>
    /\ PoseAt(state, tracked)
    /\ turn = "produce" => ~mod.inj
    /\ ~splitMode => ~mod.inj
    /\ splitMode => PoseKnows(state, shown, again, looked)
    /\ splitMode /\ turn = "produce" => (mod.used /\ mod.data # 0 => PoseValid(state))

\* The same model, but for what the mod does with it.
SameModel(r, t) ==
  /\ r.obj.wrote = t.obj.wrote /\ r.obj.own = t.obj.own /\ r.obj.cur = t.obj.cur
  /\ r.obj.tag = t.obj.tag /\ r.obj.new = t.obj.new

\* The same model has the same truth.
LEMMA SameTruth ==
  ASSUME NEW r, NEW t, SameModel(r, t)
  PROVE  Truth(r) = Truth(t) /\ (Owned(r) <=> Owned(t))
BY DEF SameModel, Truth, Owned

\* The slot of another model is reset.
LEMMA PoseSlotReset ==
  ASSUME NEW k, NEW t, PoseAt(t, k), ~PoseValid(t), NEW e, e = SlotReset(t)
  PROVE  PoseAt(e, k) /\ SameModel(e, t) /\ ~e.mod.inj /\ ~PoseValid(e) /\ ~e.mod.used
         /\ e.obj.mem = t.obj.wrote
<1>1. t \in States(Slots) /\ t.obj \in Objects /\ ~t.mod.inj
  BY DEF PoseAt, States
<1>2. e = [obj |-> t.obj, mod |-> FreeSlot] /\ e.obj = t.obj /\ e.mod = FreeSlot
  BY <1>1, ModForm DEF SlotReset
<1>3. e \in States(Slots)
  BY <1>1, <1>2, FreeSlotForm DEF States
<1>4. SameModel(e, t)
  BY <1>2 DEF SameModel
<1>5. ~PoseValid(e) /\ ~e.mod.used /\ ~e.mod.inj /\ ~e.mod.has
  BY <1>2, FreeSlotForm DEF PoseValid
<1>6. Truth(e) = Truth(t) /\ (Owned(e) <=> Owned(t))
  BY <1>4, SameTruth
<1> QED BY <1>1, <1>2, <1>3, <1>4, <1>5, <1>6 DEF PoseAt

\* The pose is put back as production left it, and the slot is g.
LEMMA PosePutBack ==
  ASSUME NEW k, NEW t, PoseAt(t, k), NEW g \in Slots, g.used = t.mod.used, g.data = t.mod.data, ~g.inj,
         g.has => g.used /\ g.curr \in Plains /\ g.prev \in Plains,
         NEW e, e = [obj |-> Filled(t.obj, t.obj.wrote), mod |-> g]
  PROVE  PoseAt(e, k) /\ SameModel(e, t) /\ e.mod = g /\ e.obj.mem = t.obj.wrote
<1>1. t.obj \in Objects /\ t.obj.wrote \in [Cells -> Stored]
  BY DEF PoseAt, States, Objects
<1>2. PICK o : o = Filled(t.obj, t.obj.wrote)
  OBVIOUS
<1>3. /\ o \in Objects /\ o.mem = t.obj.wrote /\ o.wrote = t.obj.wrote /\ o.cur = t.obj.cur
      /\ o.own = t.obj.own /\ o.tag = t.obj.tag /\ o.new = t.obj.new
  BY <1>1, <1>2, FilledForm
<1>4. e.obj = o /\ e.mod = g
  BY <1>2
<1>5. e \in States(Slots)
  BY <1>2, <1>3 DEF States
<1>6. SameModel(e, t)
  BY <1>3, <1>4 DEF SameModel
<1>7. Truth(e) = Truth(t) /\ (Owned(e) <=> Owned(t))
  BY <1>6, SameTruth
<1>8. PoseValid(e) <=> PoseValid(t)
  BY <1>3, <1>4 DEF PoseValid
<1>9. PoseAt(e, k)
  BY <1>3, <1>4, <1>5, <1>7, <1>8 DEF PoseAt
<1> QED BY <1>3, <1>4, <1>6, <1>9

\* An injected pose is the mod's, and restoring it puts production's back.
LEMMA PoseOurs ==
  ASSUME NEW k, NEW t, PoseAt(t, k), NEW l, l = Live(t)
  PROVE  /\ t.mod.inj => /\ Ours(t) /\ l = t.mod.scratch
                         /\ Diff(l, t.mod.curr, t.mod.scratch) = t.mod.curr
                         /\ Put(t, t.mod.curr) = [obj |-> Filled(t.obj, t.obj.wrote), mod |-> t.mod]
         /\ ~t.mod.inj => ~Ours(t) /\ l = Truth(t) /\ Filled(t.obj, t.obj.wrote) = t.obj
<1>1. t \in States(Slots) /\ t.obj \in Objects /\ t.obj.wrote \in [Cells -> Stored] /\ t.obj.cur \in Cells
  BY DEF PoseAt, States, Objects
<1>2. CASE ~t.mod.inj
  <2>1. t.obj.mem = t.obj.wrote
    BY <1>2 DEF PoseAt
  <2> QED BY <1>1, <1>2, <2>1, FilledForm DEF Ours, Live, Truth
<1>3. CASE t.mod.inj
  <2>1. PICK m, c, x, y : m = t.obj.wrote /\ c = t.obj.cur /\ x = t.mod.curr /\ y = t.mod.scratch
    OBVIOUS
  <2>2. x \in Plains /\ x = m[c] /\ t.obj.mem = [m EXCEPT ![c] = y] /\ m \in [Cells -> Stored] /\ c \in Cells
    BY <2>1, <1>1, <1>3 DEF PoseAt, Truth
  <2>3. l = y
    BY <2>1, <2>2 DEF Live
  <2>4. Diff(l, x, y) = x
    BY <2>2, <2>3, PlainPair, DiffForm
  <2>5. [t.obj.mem EXCEPT ![c] = x] = m
    BY <2>2
  <2>6. Put(t, x) = [obj |-> Filled(t.obj, [t.obj.mem EXCEPT ![c] = x]), mod |-> t.mod]
    BY <2>1, <1>1, PutForm
  <2> QED BY <2>1, <2>3, <2>4, <2>5, <2>6, <1>3 DEF Ours
<1> QED BY <1>2, <1>3

\* The same history, but for the pose injected.
SameHistory(r, t) ==
  /\ r.mod.used = t.mod.used /\ r.mod.data = t.mod.data /\ r.mod.has = t.mod.has
  /\ r.mod.dirty = t.mod.dirty /\ r.mod.tele = t.mod.tele
  /\ r.mod.prev = t.mod.prev /\ r.mod.curr = t.mod.curr

\* A slot with no pose injected.
LEMMA FlaggedOff ==
  ASSUME NEW h \in Slots, NEW g, g = Flagged(h, FALSE, FALSE)
  PROVE  /\ g \in Slots /\ g.used = h.used /\ g.data = h.data /\ g.stale = h.stale
         /\ g.has = h.has /\ g.dirty = h.dirty /\ g.tele = h.tele /\ ~g.inj /\ ~g.mask
         /\ g.prev = h.prev /\ g.curr = h.curr /\ g.scratch = h.scratch
BY DEF Flagged, Slots

\* The flags of a slot are set in place.
LEMMA FlaggedState ==
  ASSUME NEW t \in States(Slots)
  PROVE  [t EXCEPT !.mod.inj = FALSE, !.mod.mask = FALSE] = [t EXCEPT !.mod = Flagged(t.mod, FALSE, FALSE)]
BY DEF Flagged, Slots, States

\* An L frame restores, and takes production's pose for the current one.
LEMMA PoseLForm ==
  ASSUME NEW k, NEW t, PoseAt(t, k), NEW e, e = PoseL(t)
  PROVE  /\ PoseAt(e, k) /\ SameModel(e, t) /\ ~e.mod.inj
         /\ e.mod.used /\ e.mod.data # 0 => PoseValid(e)
         /\ PoseValid(e) => /\ PoseValid(t) /\ e.mod.has /\ e.mod.curr = Truth(e)
                            /\ e.mod.dirty => t.mod.has /\ t.mod.curr # Truth(t)
<1>1. t \in States(Slots) /\ t.obj \in Objects /\ t.mod \in Slots
  BY DEF PoseAt, States
<1>2. e = Snapshot(t)
  BY DEF PoseL
<1>3. CASE ~t.mod.used \/ t.mod.data = 0
  <2>1. e = t
    BY <1>2, <1>3 DEF Snapshot
  <2>2. ~PoseValid(t) /\ ~t.mod.inj
    BY <1>3 DEF PoseValid, PoseAt
  <2>3. SameModel(t, t)
    BY DEF SameModel
  <2> QED BY <2>1, <2>2, <2>3, <1>3
<1>4. CASE t.mod.used /\ t.mod.data # 0 /\ ~Alive(t)
  <2>1. e = SlotReset(t)
    BY <1>2, <1>4 DEF Snapshot
  <2>2. ~PoseValid(t)
    BY <1>4 DEF PoseValid, Alive
  <2>3. PoseAt(e, k) /\ SameModel(e, t) /\ ~e.mod.inj /\ ~PoseValid(e) /\ ~e.mod.used
    BY <2>1, <2>2, PoseSlotReset
  <2> QED BY <2>3
<1>5. CASE t.mod.used /\ t.mod.data # 0 /\ Alive(t)
  <2>1. e = Observed(t) /\ PoseValid(t)
    BY <1>2, <1>5 DEF Snapshot, PoseValid, Alive
  <2>2. PICK l, x : l = Live(t) /\ x = Truth(t)
    OBVIOUS
  <2>3. x \in Plains
    BY <2>1, <2>2 DEF PoseAt
  <2>4. PICK h, h0 : h = t.mod /\ h0 = Flagged(h, FALSE, FALSE)
    OBVIOUS
  <2>5. /\ h0 \in Slots /\ h0.used = h.used /\ h0.data = h.data /\ h0.stale = h.stale
        /\ h0.has = h.has /\ h0.dirty = h.dirty /\ h0.tele = h.tele /\ ~h0.inj
        /\ h0.prev = h.prev /\ h0.curr = h.curr
    BY <2>4, <1>1, FlaggedOff
  <2>6. PICK g : g = Rotate(h0, x)
    OBVIOUS
  <2>7. h0.has => h0.curr \in Plains
    BY <2>4, <2>5 DEF PoseAt
  <2>8. /\ g \in Slots /\ g.used = h0.used /\ g.data = h0.data
        /\ g.inj = h0.inj /\ g.has /\ g.curr = x /\ g.prev \in Plains
        /\ g.dirty => h0.has /\ h0.curr # x
    BY <2>3, <2>5, <2>6, <2>7, RotateForm
  <2>9. e = [obj |-> Filled(t.obj, t.obj.wrote), mod |-> g]
    <3>1. [t.mod EXCEPT !.inj = FALSE, !.mask = FALSE] = h0
      BY <2>4 DEF Flagged
    <3>2. /\ t.mod.inj => /\ Ours(t) /\ l = t.mod.scratch
                          /\ Diff(l, t.mod.curr, t.mod.scratch) = t.mod.curr
                          /\ Put(t, t.mod.curr) = [obj |-> Filled(t.obj, t.obj.wrote), mod |-> t.mod]
          /\ ~t.mod.inj => ~Ours(t) /\ l = Truth(t) /\ Filled(t.obj, t.obj.wrote) = t.obj
      BY <2>2, PoseOurs
    <3>3. CASE t.mod.inj
      <4>1. e = [Put(t, t.mod.curr) EXCEPT !.mod = Rotate(h0, t.mod.curr)]
        BY <2>1, <2>2, <3>1, <3>2, <3>3, Zenon DEF Observed
      <4>2. t.mod.curr = x
        BY <3>3, <2>2 DEF PoseAt
      <4>3. e = [[obj |-> Filled(t.obj, t.obj.wrote), mod |-> t.mod] EXCEPT !.mod = g]
        BY <4>1, <4>2, <3>2, <3>3, <2>6, Zenon
      <4> QED BY <4>3
    <3>4. CASE ~t.mod.inj
      <4>1. e = [t EXCEPT !.mod = Rotate(h0, l)]
        BY <2>1, <2>2, <3>1, <3>2, <3>4, Zenon DEF Observed
      <4>2. e = [t EXCEPT !.mod = g]
        BY <4>1, <3>2, <3>4, <2>2, <2>6, Zenon
      <4>3. e = [obj |-> t.obj, mod |-> g]
        BY <4>2, <1>1, ModForm
      <4> QED BY <4>3, <3>2, <3>4
    <3> QED BY <3>3, <3>4
  <2>10. PoseAt(e, k) /\ SameModel(e, t) /\ e.mod = g
    <3>1. g.used = t.mod.used /\ g.data = t.mod.data /\ ~g.inj
      BY <2>4, <2>5, <2>8
    <3>2. g.has => g.used /\ g.curr \in Plains /\ g.prev \in Plains
      BY <3>1, <2>1, <2>3, <2>8 DEF PoseValid
    <3> QED BY <2>8, <2>9, <3>1, <3>2, PosePutBack
  <2>11. PoseValid(e)
    BY <2>1, <2>4, <2>5, <2>8, <2>10 DEF PoseValid, SameModel
  <2>12. Truth(e) = x
    BY <2>2, <2>10, SameTruth
  <2> QED BY <2>1, <2>2, <2>4, <2>5, <2>8, <2>10, <2>11, <2>12
<1> QED BY <1>3, <1>4, <1>5

\* Restoring leaves what production left, and the history.
LEMMA PoseRestoreForm ==
  ASSUME NEW k, NEW t, PoseAt(t, k), NEW bf, NEW e, e = RestoreInjected(t, bf)
  PROVE  /\ PoseAt(e, k) /\ SameModel(e, t) /\ SameHistory(e, t) /\ ~e.mod.inj
         /\ e.obj.mem = t.obj.wrote
<1>1. t \in States(Slots) /\ t.obj \in Objects /\ t.mod \in Slots
  BY DEF PoseAt, States
<1>2. CASE ~t.mod.inj
  <2>1. e = t
    BY <1>2 DEF RestoreInjected
  <2>2. SameModel(t, t) /\ SameHistory(t, t)
    BY DEF SameModel, SameHistory
  <2> QED BY <2>1, <2>2, <1>2 DEF PoseAt
<1>3. CASE t.mod.inj
  <2>1. t.mod.used /\ t.mod.data # 0 /\ Alive(t) /\ t.mod.has
    BY <1>3 DEF PoseAt, PoseValid, Alive
  <2>2. PICK l : l = Live(t)
    OBVIOUS
  <2>3. Ours(t) /\ Diff(l, t.mod.curr, t.mod.scratch) = t.mod.curr
    BY <1>3, <2>2, PoseOurs
  <2>4. PICK g : g = Flagged(t.mod, FALSE, FALSE)
    OBVIOUS
  <2>5. PICK off : off = [t EXCEPT !.mod = g]
    OBVIOUS
  <2>6. [t EXCEPT !.mod.inj = FALSE, !.mod.mask = FALSE] = off
    BY <2>4, <2>5, <1>1, FlaggedState
  <2>7. e = Put(off, t.mod.curr)
    BY <2>1, <2>2, <2>3, <2>6, <1>3, Zenon DEF RestoreInjected
  <2>8. /\ g \in Slots /\ g.used = t.mod.used /\ g.data = t.mod.data
        /\ g.has = t.mod.has /\ g.dirty = t.mod.dirty /\ g.tele = t.mod.tele /\ ~g.inj
        /\ g.prev = t.mod.prev /\ g.curr = t.mod.curr
    BY <2>4, <1>1, FlaggedOff
  <2>9. off = [obj |-> t.obj, mod |-> g] /\ off.obj = t.obj /\ off.mod = g /\ off \in States(Slots)
    BY <2>5, <2>8, <1>1, ModForm DEF States
  <2>10. PICK m, c, x : m = t.obj.mem /\ c = t.obj.cur /\ x = t.mod.curr
    OBVIOUS
  <2>11. Put(off, x) = [obj |-> Filled(t.obj, [m EXCEPT ![c] = x]), mod |-> g]
    BY <2>9, <2>10, PutForm
  <2>12. [m EXCEPT ![c] = x] = t.obj.wrote
    <3>1. PICK w, y : w = t.obj.wrote /\ y = t.mod.scratch
      OBVIOUS
    <3>2. w \in [Cells -> Stored] /\ c \in Cells /\ x = w[c] /\ m = [w EXCEPT ![c] = y]
      BY <3>1, <2>10, <1>1, <1>3 DEF PoseAt, Truth, Objects
    <3> QED BY <3>1, <3>2
  <2>13. e = [obj |-> Filled(t.obj, t.obj.wrote), mod |-> g]
    BY <2>7, <2>10, <2>11, <2>12
  <2>14. g.has => g.used /\ g.curr \in Plains /\ g.prev \in Plains
    BY <2>1, <2>8 DEF PoseAt
  <2>15. PoseAt(e, k) /\ SameModel(e, t) /\ e.mod = g /\ e.obj.mem = t.obj.wrote
    BY <2>8, <2>13, <2>14, PosePutBack
  <2>16. SameHistory(e, t)
    BY <2>8, <2>15 DEF SameHistory
  <2> QED BY <2>8, <2>15, <2>16
<1> QED BY <1>2, <1>3

-----------------------------------------------------------------------------
(* The pose history: an R frame.                                           *)

\* The slot is changed alone.
LEMMA PoseSlotSet ==
  ASSUME NEW k, NEW t, PoseAt(t, k), NEW g \in Slots, g.used = t.mod.used, g.data = t.mod.data,
         g.inj = t.mod.inj, g.scratch = t.mod.scratch,
         g.has => g.used /\ g.curr \in Plains /\ g.prev \in Plains,
         g.inj => /\ g.has /\ g.dirty = t.mod.dirty /\ g.tele = t.mod.tele
                  /\ g.curr = t.mod.curr /\ g.prev = t.mod.prev,
         NEW e, e = [t EXCEPT !.mod = g]
  PROVE  PoseAt(e, k) /\ SameModel(e, t) /\ e.mod = g /\ e.obj = t.obj
<1>1. t.obj \in Objects /\ t \in States(Slots)
  BY DEF PoseAt, States
<1>2. e = [obj |-> t.obj, mod |-> g] /\ e.obj = t.obj /\ e.mod = g
  BY <1>1, ModForm
<1>3. e \in States(Slots)
  BY <1>1, <1>2 DEF States
<1>4. SameModel(e, t)
  BY <1>2 DEF SameModel
<1>5. Truth(e) = Truth(t) /\ (Owned(e) <=> Owned(t))
  BY <1>4, SameTruth
<1>6. PoseValid(e) <=> PoseValid(t)
  BY <1>2 DEF PoseValid
<1>7. /\ k = "nodes" => e.obj.cur = 0
      /\ Owned(e) => e.obj.tag \in 1..2 /\ Truth(e) \in Plains
      /\ PoseValid(e) => Owned(e)
      /\ e.mod.has => e.mod.used /\ e.mod.curr \in Plains /\ e.mod.prev \in Plains
      /\ ~e.mod.inj => e.obj.mem = e.obj.wrote
  BY <1>2, <1>5, <1>6 DEF PoseAt
<1>8. e.mod.inj => /\ PoseValid(e) /\ e.mod.has /\ e.mod.dirty /\ ~e.mod.tele
                   /\ e.mod.curr = Truth(e) /\ e.mod.scratch = Mix(e.mod.prev, e.mod.curr)
                   /\ e.obj.mem = [e.obj.wrote EXCEPT ![e.obj.cur] = e.mod.scratch]
  <2>1. SUFFICES ASSUME e.mod.inj PROVE
            /\ PoseValid(e) /\ e.mod.has /\ e.mod.dirty /\ ~e.mod.tele
            /\ e.mod.curr = Truth(e) /\ e.mod.scratch = Mix(e.mod.prev, e.mod.curr)
            /\ e.obj.mem = [e.obj.wrote EXCEPT ![e.obj.cur] = e.mod.scratch]
    OBVIOUS
  <2>2. t.mod.inj /\ g.inj
    BY <2>1, <1>2
  <2>3. /\ PoseValid(t) /\ t.mod.dirty /\ ~t.mod.tele
        /\ t.mod.curr = Truth(t) /\ t.mod.scratch = Mix(t.mod.prev, t.mod.curr)
        /\ t.obj.mem = [t.obj.wrote EXCEPT ![t.obj.cur] = t.mod.scratch]
    BY <2>2, Zenon DEF PoseAt
  <2>4. /\ g.has /\ g.dirty = t.mod.dirty /\ g.tele = t.mod.tele
        /\ g.curr = t.mod.curr /\ g.prev = t.mod.prev /\ g.scratch = t.mod.scratch
    BY <2>2
  <2>5. /\ e.mod.has /\ e.mod.dirty /\ ~e.mod.tele
    BY <2>3, <2>4, <1>2
  <2>6. /\ e.mod.curr = Truth(e) /\ e.mod.scratch = Mix(e.mod.prev, e.mod.curr)
        /\ e.obj.mem = [e.obj.wrote EXCEPT ![e.obj.cur] = e.mod.scratch]
    BY <2>3, <2>4, <1>2, <1>5
  <2> QED BY <2>3, <2>5, <2>6, <1>6
<1> QED BY <1>2, <1>3, <1>4, <1>7, <1>8, Zenon DEF PoseAt

\* A refresh compares the pose with memory, unless the slot has teleported.
LEMMA PoseRefreshForm ==
  ASSUME NEW k, NEW t, PoseAt(t, k), NEW sh, NEW ag, NEW lk, PoseKnows(t, sh, ag, lk),
         NEW bf, NEW e, e = Refresh(t, bf)
  PROVE  /\ PoseAt(e, k) /\ SameModel(e, t) /\ e.obj = t.obj
         /\ t.mod.tele => PoseKnows(e, sh, ag, lk)
         /\ ~t.mod.tele => PoseKnows(e, sh, ag, TRUE)
         /\ PoseValid(e) /\ ~e.mod.tele => ~t.mod.tele /\ (e.mod.has => (e.mod.mask <=> e.mod.inj))
<1>1. t \in States(Slots) /\ t.obj \in Objects /\ t.mod \in Slots
  BY DEF PoseAt, States
<1>2. SameModel(t, t)
  BY DEF SameModel
<1>3. CASE ~t.mod.used \/ t.mod.tele \/ t.mod.data = 0
  <2>1. e = t
    BY <1>3 DEF Refresh
  <2>2. PoseValid(t) => t.mod.tele
    BY <1>3 DEF PoseValid
  <2> QED BY <2>1, <2>2, <1>2 DEF PoseKnows
<1>4. CASE t.mod.used /\ ~t.mod.tele /\ t.mod.data # 0 /\ ~Alive(t)
  <2>1. e = SlotReset(t)
    BY <1>4, Zenon DEF Refresh
  <2>2. ~PoseValid(t)
    BY <1>4 DEF PoseValid, Alive
  <2>3. PoseAt(e, k) /\ SameModel(e, t) /\ ~PoseValid(e)
    BY <2>1, <2>2, PoseSlotReset
  <2>4. e.obj = t.obj
    BY <2>1, <1>1, ModForm DEF SlotReset
  <2> QED BY <2>3, <2>4 DEF PoseKnows
<1>5. CASE /\ t.mod.used /\ ~t.mod.tele /\ t.mod.data # 0 /\ Alive(t)
           /\ bf /\ t.mod.curr = Nothing
  <2>1. e = t
    BY <1>5, Zenon DEF Refresh
  <2>2. ~t.mod.has
    BY <1>5, PlainPair DEF PoseAt
  <2> QED BY <2>1, <2>2, <1>2, <1>5 DEF PoseKnows
<1>6. CASE /\ t.mod.used /\ ~t.mod.tele /\ t.mod.data # 0 /\ Alive(t)
           /\ ~(bf /\ t.mod.curr = Nothing)
  <2>0. PICK l, x : l = Live(t) /\ x = Truth(t)
    OBVIOUS
  <2>1. PoseValid(t) /\ x \in Plains
    BY <1>6, <2>0 DEF PoseValid, Alive, PoseAt
  <2>2. CASE t.mod.inj
    <3>1. Ours(t)
      BY <2>2, PoseOurs
    <3>2. e = [t EXCEPT !.mod.mask = TRUE]
      BY <3>1, <1>6, Zenon DEF Refresh
    <3>3. PICK g : g = [t.mod EXCEPT !.mask = TRUE]
      OBVIOUS
    <3>4. e = [t EXCEPT !.mod = g]
      BY <3>2, <3>3, <1>1 DEF States, Slots
    <3>5. /\ g \in Slots /\ g.used = t.mod.used /\ g.data = t.mod.data
          /\ g.has = t.mod.has /\ g.dirty = t.mod.dirty /\ g.tele = t.mod.tele /\ g.inj = t.mod.inj
          /\ g.mask
          /\ g.prev = t.mod.prev /\ g.curr = t.mod.curr /\ g.scratch = t.mod.scratch
      BY <3>3, <1>1 DEF Slots
    <3>6. g.has => g.used /\ g.curr \in Plains /\ g.prev \in Plains
      BY <3>5 DEF PoseAt
    <3>7. g.has
      BY <3>5, <2>2 DEF PoseAt
    <3>8. PoseAt(e, k) /\ SameModel(e, t) /\ e.mod = g /\ e.obj = t.obj
      BY <3>4, <3>5, <3>6, <3>7, PoseSlotSet
    <3>9. PoseValid(e) /\ Truth(e) = Truth(t)
      BY <3>5, <3>8, <2>1, SameTruth DEF PoseValid
    <3>10. t.mod.curr = Truth(t) /\ t.mod.has
      BY <2>2 DEF PoseAt
    <3>11. PoseKnows(e, sh, ag, TRUE)
      BY <3>5, <3>8, <3>9, <3>10, <2>1 DEF PoseKnows
    <3> QED BY <3>5, <3>8, <3>11, <2>2, <1>6
  <2>3. CASE ~t.mod.inj
    <3>1. ~Ours(t) /\ l = x
      BY <2>3, <2>0, PoseOurs
    <3>2. PICK h : h = Flagged(t.mod, FALSE, FALSE)
      OBVIOUS
    <3>3. /\ h \in Slots /\ h.used = t.mod.used /\ h.data = t.mod.data
          /\ h.has = t.mod.has /\ h.dirty = t.mod.dirty /\ h.tele = t.mod.tele /\ ~h.inj /\ ~h.mask
          /\ h.prev = t.mod.prev /\ h.curr = t.mod.curr /\ h.scratch = t.mod.scratch
      BY <3>2, <1>1, FlaggedOff
    <3>4. PICK g0 : g0 = Rotate(h, x)
      OBVIOUS
    <3>5. PICK g : g = IF x # h.curr THEN g0 ELSE h
      OBVIOUS
    <3>6. [t.mod EXCEPT !.mask = FALSE, !.inj = @ /\ ~bf] = h
      <4>1. (t.mod.inj /\ ~bf) = FALSE
        BY <2>3
      <4>2. [t.mod EXCEPT !.mask = FALSE, !.inj = FALSE] = h
        BY <3>2, <1>1 DEF Flagged, Slots
      <4> QED BY <4>1, <4>2
    <3>7. e = [t EXCEPT !.mod = IF l # h.curr THEN Rotate(h, l) ELSE h]
      BY <3>1, <3>6, <1>6, <2>0, Zenon DEF Refresh
    <3>8. e = [t EXCEPT !.mod = g]
      BY <3>1, <3>4, <3>5, <3>7, Zenon
    <3>9. h.has => h.curr \in Plains
      BY <3>3 DEF PoseAt
    <3>10. /\ g0 \in Slots /\ g0.used = h.used /\ g0.data = h.data /\ g0.stale = h.stale
           /\ g0.inj = h.inj /\ g0.mask = h.mask /\ g0.scratch = h.scratch
           /\ g0.has /\ g0.curr = x /\ g0.prev \in Plains
           /\ g0.dirty => h.has /\ h.curr # x /\ g0.prev = h.curr /\ ~Far(h.curr, x)
      BY <3>3, <3>4, <3>9, <2>1, RotateForm
    <3>11. /\ g \in Slots /\ g.used = t.mod.used /\ g.data = t.mod.data
           /\ ~g.inj /\ ~g.mask /\ g.scratch = t.mod.scratch
      BY <3>3, <3>5, <3>10
    <3>12. g.has => g.used /\ g.curr \in Plains /\ g.prev \in Plains
      BY <3>3, <3>5, <3>10, <3>11, <1>6, <2>1 DEF PoseAt
    <3>13. g.inj = t.mod.inj
      BY <3>11, <2>3, <1>1 DEF Slots
    <3>14. PoseAt(e, k) /\ SameModel(e, t) /\ e.mod = g /\ e.obj = t.obj
      BY <3>8, <3>11, <3>12, <3>13, PoseSlotSet
    <3>15. Truth(e) = x /\ PoseValid(t)
      BY <3>14, <2>0, <2>1, SameTruth
    <3>16. CASE x = h.curr
      <4>1. g = h
        BY <3>5, <3>16
      <4>2. /\ g.curr = x /\ g.has = t.mod.has /\ g.dirty = t.mod.dirty /\ g.prev = t.mod.prev
            /\ g.curr = t.mod.curr
        BY <4>1, <3>3, <3>16
      <4>3. PoseKnows(e, sh, ag, TRUE)
        BY <4>2, <3>14, <3>15, <2>0 DEF PoseKnows
      <4> QED BY <4>3, <3>11, <3>14, <1>6
    <3>17. CASE x # h.curr
      <4>1. g = g0
        BY <3>5, <3>17
      <4>2. ASSUME g.dirty
            PROVE  g.prev = sh /\ ~t.obj.new /\ sh \in Plains /\ ~Far(g.prev, x)
        <5>1. t.mod.has /\ t.mod.curr # x /\ g.prev = t.mod.curr /\ ~Far(t.mod.curr, x)
          BY <4>1, <4>2, <3>3, <3>10
        <5>2. t.mod.curr = sh /\ ~t.obj.new
          BY <5>1, <3>15, <2>0 DEF PoseKnows
        <5> QED BY <5>1, <5>2 DEF PoseAt
      <4>3. PoseKnows(e, sh, ag, TRUE)
        BY <4>1, <4>2, <3>10, <3>14, <3>15 DEF PoseKnows
      <4> QED BY <4>3, <3>11, <3>14, <1>6
    <3> QED BY <3>16, <3>17
  <2> QED BY <2>2, <2>3
<1> QED BY <1>3, <1>4, <1>5, <1>6

\* The model is half way between the two poses its slot knows.
PoseLerped(e) ==
  PoseValid(e) /\ e.mod.has /\ e.mod.dirty /\ Live(e) = Mix(e.mod.prev, e.mod.curr)

\* What the mod injects is half way between the two poses it knows.
LEMMA PoseInjectForm ==
  ASSUME NEW k, NEW t, PoseAt(t, k),
         PoseValid(t) /\ ~t.mod.tele /\ t.mod.has => (t.mod.mask <=> t.mod.inj),
         PoseValid(t) /\ ~t.mod.tele /\ t.mod.has => t.mod.curr = Truth(t),
         NEW e, e = Inject(t)
  PROVE  /\ PoseAt(e, k) /\ SameModel(e, t)
         /\ PoseValid(e) => SameHistory(e, t)
         /\ Live(e) = Truth(e) \/ (PoseLerped(e) /\ ~t.mod.tele)
<1>1. t \in States(Slots) /\ t.obj \in Objects /\ t.mod \in Slots
  BY DEF PoseAt, States
<1>2. SameModel(t, t) /\ SameHistory(t, t)
  BY DEF SameModel, SameHistory
<1>3. CASE ~t.mod.used \/ t.mod.tele \/ t.mod.data = 0
  <2>1. e = t
    BY <1>3 DEF Inject
  <2>2. ~t.mod.inj
    BY <1>3 DEF PoseValid, PoseAt
  <2> QED BY <2>1, <2>2, <1>2, PoseOurs
<1>4. CASE t.mod.used /\ ~t.mod.tele /\ t.mod.data # 0 /\ ~Alive(t)
  <2>1. e = SlotReset(t)
    BY <1>4, Zenon DEF Inject
  <2>2. ~PoseValid(t)
    BY <1>4 DEF PoseValid, Alive
  <2>3. PoseAt(e, k) /\ SameModel(e, t) /\ ~PoseValid(e) /\ ~e.mod.inj
    BY <2>1, <2>2, PoseSlotReset
  <2> QED BY <2>3, PoseOurs
<1>5. CASE /\ t.mod.used /\ ~t.mod.tele /\ t.mod.data # 0 /\ Alive(t)
           /\ ~(t.mod.has /\ t.mod.dirty)
  <2>1. e = t
    BY <1>5, Zenon DEF Inject
  <2>2. ~t.mod.inj
    BY <1>5 DEF PoseAt
  <2> QED BY <2>1, <2>2, <1>2, PoseOurs
<1>6. CASE /\ t.mod.used /\ ~t.mod.tele /\ t.mod.data # 0 /\ Alive(t)
           /\ t.mod.has /\ t.mod.dirty
  <2>1. PICK x, l, y, c, m, w : /\ x = Mix(t.mod.prev, t.mod.curr) /\ l = Live(t) /\ y = t.mod.scratch
                                /\ c = t.obj.cur /\ m = t.obj.mem /\ w = t.obj.wrote
    OBVIOUS
  <2>2. PoseValid(t)
    BY <1>6 DEF PoseValid, Alive
  <2>3. t.mod.prev \in Plains /\ t.mod.curr \in Plains
    BY <1>6 DEF PoseAt
  <2>4. x \in Values /\ x \in Stored
    <3>1. t.mod.prev \in Values /\ t.mod.curr \in Values
      BY <2>3, PlainPair
    <3> QED BY <3>1, <2>1, MixPair DEF Stored
  <2>5. l = IF t.mod.mask THEN t.mod.scratch ELSE t.mod.curr
    <3>1. /\ t.mod.inj => l = t.mod.scratch
          /\ ~t.mod.inj => l = Truth(t)
      <4>1. ASSUME t.mod.inj PROVE Live(t) = t.mod.scratch
        BY <4>1, PoseOurs
      <4>2. ASSUME ~t.mod.inj PROVE Live(t) = Truth(t)
        BY <4>2 DEF PoseAt, Live, Truth
      <4> QED BY <4>1, <4>2, <2>1
    <3> QED BY <3>1, <2>2, <1>6
  <2>6. Diff(l, x, l) = x
    BY <2>4, DiffForm
  <2>7. e = [Put(t, x) EXCEPT !.mod.scratch = x, !.mod.mask = TRUE, !.mod.inj = TRUE]
    <3>1. Diff(Live(t), x, IF t.mod.mask THEN t.mod.scratch ELSE t.mod.curr) = x
      BY <2>1, <2>5, <2>6, Zenon
    <3> QED BY <3>1, <1>6, <2>1, Zenon DEF Inject
  <2>8. PICK o : o = Filled(t.obj, [m EXCEPT ![c] = x])
    OBVIOUS
  <2>9. Put(t, x) = [obj |-> o, mod |-> t.mod] /\ [m EXCEPT ![c] = x] \in [Cells -> Stored]
    BY <2>1, <2>4, <2>8, <1>1, PutForm
  <2>10. /\ o \in Objects /\ o.mem = [m EXCEPT ![c] = x] /\ o.wrote = t.obj.wrote /\ o.cur = t.obj.cur
         /\ o.own = t.obj.own /\ o.tag = t.obj.tag /\ o.new = t.obj.new
    BY <2>8, <2>9, <1>1, FilledForm
  <2>11. PICK g : g = Scratched(t.mod, x)
    OBVIOUS
  <2>12. /\ g \in Slots /\ g.used = t.mod.used /\ g.data = t.mod.data
         /\ g.has = t.mod.has /\ g.dirty = t.mod.dirty /\ g.tele = t.mod.tele /\ g.inj
         /\ g.prev = t.mod.prev /\ g.curr = t.mod.curr /\ g.scratch = x
    BY <2>4, <2>11, <1>1, ScratchedForm
  <2>13. PICK p : p = Put(t, x)
    OBVIOUS
  <2>14. p \in States(Slots) /\ p.mod = t.mod /\ p.obj = o
    BY <2>9, <2>10, <2>13, <1>1 DEF States
  <2>15. [p EXCEPT !.mod.scratch = x, !.mod.mask = TRUE, !.mod.inj = TRUE] = [p EXCEPT !.mod = Scratched(p.mod, x)]
    BY <2>14 DEF Scratched, Slots, States
  <2>16. e = [p EXCEPT !.mod = g]
    BY <2>7, <2>11, <2>13, <2>14, <2>15, Zenon
  <2>17. e = [obj |-> o, mod |-> g] /\ e.obj = o /\ e.mod = g
    BY <2>14, <2>16, ModForm
  <2>18. e \in States(Slots)
    BY <2>10, <2>12, <2>17 DEF States
  <2>19. SameModel(e, t)
    BY <2>10, <2>17 DEF SameModel
  <2>20. Truth(e) = Truth(t) /\ (Owned(e) <=> Owned(t))
    BY <2>19, SameTruth
  <2>21. PoseValid(e)
    BY <2>2, <2>10, <2>12, <2>17 DEF PoseValid
  <2>22. c \in Cells /\ w \in [Cells -> Stored] /\ m \in [Cells -> Stored]
    BY <2>1, <1>1 DEF Objects
  <2>23. o.mem = [w EXCEPT ![c] = x]
    <3>1. CASE t.mod.inj
      <4>1. m = [w EXCEPT ![c] = y]
        BY <3>1, <2>1, Zenon DEF PoseAt
      <4> QED BY <4>1, <2>10, <2>22
    <3>2. CASE ~t.mod.inj
      BY <3>2, <2>1, <2>10 DEF PoseAt
    <3> QED BY <3>1, <3>2
  <2>24. Live(e) = x
    BY <2>1, <2>10, <2>17, <2>22 DEF Live
  <2>25. /\ k = "nodes" => e.obj.cur = 0
         /\ Owned(e) => e.obj.tag \in 1..2 /\ Truth(e) \in Plains
         /\ Owned(e)
    BY <2>2, <2>10, <2>17, <2>20 DEF PoseAt
  <2>26. /\ e.mod.used /\ e.mod.curr \in Plains /\ e.mod.prev \in Plains
         /\ e.mod.inj /\ e.mod.has /\ e.mod.dirty /\ ~e.mod.tele
    BY <2>3, <2>12, <2>17, <1>6
  <2>27. e.mod.curr = Truth(e) /\ e.mod.scratch = Mix(e.mod.prev, e.mod.curr)
    BY <2>1, <2>2, <2>12, <2>17, <2>20, <1>6
  <2>28. e.obj.mem = [e.obj.wrote EXCEPT ![e.obj.cur] = e.mod.scratch]
    BY <2>1, <2>10, <2>12, <2>17, <2>23
  <2>29. PoseAt(e, k)
    BY <2>18, <2>21, <2>25, <2>26, <2>27, <2>28, Zenon DEF PoseAt
  <2>30. SameHistory(e, t)
    BY <2>12, <2>17 DEF SameHistory
  <2>31. Live(e) = Mix(e.mod.prev, e.mod.curr)
    BY <2>1, <2>12, <2>17, <2>24
  <2> QED BY <2>19, <2>21, <2>26, <2>29, <2>30, <2>31, <1>6 DEF PoseLerped
<1> QED BY <1>3, <1>4, <1>5, <1>6

\* What an R frame's entry makes of the model and its slot.
LEMMA PoseRForm ==
  ASSUME NEW k, NEW t, PoseAt(t, k), NEW sh, NEW ag, NEW lk, PoseKnows(t, sh, ag, lk),
         NEW bf, NEW ct, NEW e, e = PoseR(t, bf, ct)
  PROVE  /\ PoseAt(e, k) /\ SameModel(e, t)
         /\ t.mod.tele => PoseKnows(e, sh, ag, lk)
         /\ ~t.mod.tele => PoseKnows(e, sh, ag, TRUE)
         /\ Live(e) = Truth(e) \/ (PoseLerped(e) /\ ~ct /\ ~t.mod.tele)
<1>1. PICK r : r = Refresh(t, bf)
  OBVIOUS
<1>2. /\ PoseAt(r, k) /\ SameModel(r, t)
      /\ t.mod.tele => PoseKnows(r, sh, ag, lk)
      /\ ~t.mod.tele => PoseKnows(r, sh, ag, TRUE)
      /\ PoseValid(r) /\ ~r.mod.tele => ~t.mod.tele /\ (r.mod.has => (r.mod.mask <=> r.mod.inj))
  <2>1. PoseAt(r, k) /\ SameModel(r, t)
    BY <1>1, PoseRefreshForm
  <2>3. /\ t.mod.tele => PoseKnows(r, sh, ag, lk)
        /\ ~t.mod.tele => PoseKnows(r, sh, ag, TRUE)
    BY <1>1, PoseRefreshForm
  <2>4. PoseValid(r) /\ ~r.mod.tele => ~t.mod.tele /\ (r.mod.has => (r.mod.mask <=> r.mod.inj))
    BY <1>1, PoseRefreshForm
  <2> QED BY <2>1, <2>3, <2>4
<1>3. /\ PoseAt(e, k) /\ SameModel(e, r)
      /\ PoseValid(e) => SameHistory(e, r)
      /\ Live(e) = Truth(e) \/ (PoseLerped(e) /\ ~ct /\ ~r.mod.tele)
  <2>1. CASE ct
    <3>1. e = RestoreInjected(r, bf)
      BY <2>1, <1>1 DEF PoseR
    <3>2. PoseAt(e, k) /\ SameModel(e, r) /\ SameHistory(e, r) /\ ~e.mod.inj
      BY <3>1, <1>2, PoseRestoreForm
    <3> QED BY <3>2, PoseOurs
  <2>2. CASE ~ct
    <3>1. e = Inject(r)
      BY <2>2, <1>1 DEF PoseR
    <3>2. PoseValid(r) /\ ~r.mod.tele /\ r.mod.has => r.mod.curr = Truth(r)
      BY <1>2 DEF PoseKnows
    <3> QED BY <3>1, <3>2, <2>2, <1>2, PoseInjectForm
  <2> QED BY <2>1, <2>2
<1>4. SameModel(e, t) /\ Truth(e) = Truth(r)
  BY <1>2, <1>3, SameTruth DEF SameModel
<1>5. ASSUME NEW l, PoseKnows(r, sh, ag, l)
      PROVE  PoseKnows(e, sh, ag, l)
  <2>1. SUFFICES ASSUME PoseValid(e), e.mod.has
                 PROVE  PoseKnows(e, sh, ag, l)
    BY DEF PoseKnows
  <2>2. SameHistory(e, r)
    BY <2>1, <1>3
  <2>3. PoseValid(r) /\ r.mod.has
    BY <2>1, <2>2, <1>3 DEF PoseValid, SameHistory, SameModel
  <2> QED BY <2>1, <2>2, <2>3, <1>3, <1>4, <1>5 DEF PoseKnows, SameHistory, SameModel
<1>6. PoseValid(e) /\ ~r.mod.tele => ~t.mod.tele
  <2>1. PoseValid(e) => PoseValid(r)
    BY <1>3 DEF PoseValid, SameHistory, SameModel
  <2> QED BY <2>1, <1>2
<1> QED BY <1>2, <1>3, <1>4, <1>5, <1>6 DEF PoseLerped

-----------------------------------------------------------------------------
(* The pose history: a Painter.                                            *)

\* For a model, what Painter's entry is by the kind of frame.
LEMMA PoseEntry ==
  ASSUME tracked \in PoseKinds, NEW b
  PROVE  /\ LframeOf(b) = {PoseL(b)}
         /\ \A c : RframeOf(b, c) = {PoseR(b, Buffered, c)}
         /\ DupOf(b) = b /\ ResetOf(b) = PoseReset(b, Buffered)
         /\ ProducedBy(b) = PoseProduced(b, Buffered)
<1>0. tracked # "texanim"
  BY DEF PoseKinds
<1>1. LframeOf(b) = {PoseL(b)}
  BY DEF LframeOf, PoseKinds, ClothKinds
<1>2. \A c : RframeOf(b, c) = {PoseR(b, Buffered, c)}
  BY DEF RframeOf, PoseKinds, ClothKinds
<1>3. DupOf(b) = b
  BY <1>0 DEF DupOf
<1>4. ResetOf(b) = PoseReset(b, Buffered)
  BY DEF ResetOf, PoseKinds, ClothKinds
<1>5. ProducedBy(b) = PoseProduced(b, Buffered)
  BY DEF ProducedBy, PoseKinds, ClothKinds
<1> QED BY <1>1, <1>2, <1>3, <1>4, <1>5

\* What a Painter's entry makes of the model and its slot.
LEMMA PosePainted ==
  ASSUME PoseInv, tracked \in PoseKinds, turn = "painter", NEW f, Playable(f),
         NEW e \in EntryOf(Begun(f), f)
  PROVE  /\ PoseAt(e, tracked)
         /\ f.class = "L" =>
              /\ ~e.mod.inj
              /\ f.split => (e.mod.used /\ e.mod.data # 0 => PoseValid(e))
              /\ f.split /\ PoseValid(e) => /\ e.mod.has /\ e.mod.curr = Truth(e)
                                            /\ e.mod.dirty => ~(splitMode /\ looked)
         /\ f.class = "R" /\ f.dup => PoseKnows(e, shown, again, looked)
         /\ f.class = "R" /\ ~f.dup =>
              /\ mod.tele => PoseKnows(e, shown, again, looked)
              /\ ~mod.tele => PoseKnows(e, shown, again, TRUE)
              /\ Live(e) = Truth(e) \/ (PoseLerped(e) /\ ~f.cut /\ ~mod.tele)
<1>1. /\ f \in Frames /\ (f.class = "R" => f.split /\ splitMode) /\ (f.class # "R" => f.class = "L")
      /\ f.dup => f.class = "R"
  BY DEF Playable, Frames
<1>2. /\ PoseAt(state, tracked) /\ (splitMode => PoseKnows(state, shown, again, looked))
      /\ ~splitMode => ~state.mod.inj
      /\ state.mod = mod
  BY StateForm DEF PoseInv
<1>3. tracked \in SeenKinds
  BY DEF SeenKinds
<1>4. PICK b : b = Begun(f)
  OBVIOUS
<1>5. /\ PoseAt(b, tracked) /\ ((f.split <=> splitMode) => b = state) /\ (~f.split => ~b.mod.inj)
  <2>1. CASE f.split <=> splitMode
    BY <2>1, <1>2, <1>4 DEF Begun
  <2>2. CASE ~(f.split <=> splitMode)
    <3>1. b = RestoreInjected(state, Buffered)
      BY <2>2, <1>1, <1>4, PoseEntry DEF Begun, PoseReset
    <3>2. PoseAt(b, tracked) /\ ~b.mod.inj
      BY <3>1, <1>2, PoseRestoreForm
    <3> QED BY <3>2, <2>2, <1>1
  <2> QED BY <2>1, <2>2
<1>6. /\ ~f.split => e = b
      /\ f.split /\ f.class = "L" => e = PoseL(b)
      /\ f.dup => e = b
      /\ f.class = "R" /\ ~f.dup => e = PoseR(b, Buffered, f.cut)
  <2>1. /\ ~f.split => e = b
        /\ f.split /\ f.class = "L" => e \in LframeOf(b)
        /\ f.split /\ f.class = "R" /\ f.dup => e = DupOf(b)
        /\ f.split /\ f.class = "R" /\ ~f.dup => e \in RframeOf(b, f.cut)
    BY <1>1, <1>3, <1>4, SeenEntry
  <2> QED BY <2>1, <1>1, PoseEntry
<1>7. CASE f.class = "L" /\ ~f.split
  BY <1>5, <1>6, <1>7
<1>8. CASE f.class = "L" /\ f.split
  <2>1. /\ PoseAt(e, tracked) /\ ~e.mod.inj /\ (e.mod.used /\ e.mod.data # 0 => PoseValid(e))
        /\ PoseValid(e) => /\ PoseValid(b) /\ e.mod.has /\ e.mod.curr = Truth(e)
                           /\ e.mod.dirty => b.mod.has /\ b.mod.curr # Truth(b)
    BY <1>5, <1>6, <1>8, PoseLForm
  <2>2. ASSUME PoseValid(e), e.mod.dirty, splitMode, looked
        PROVE  FALSE
    <3>1. b = state /\ PoseKnows(state, shown, again, looked)
      BY <2>2, <1>2, <1>5, <1>8
    <3>2. PoseValid(state) /\ state.mod.has /\ state.mod.curr # Truth(state)
      BY <3>1, <2>1, <2>2
    <3> QED BY <3>1, <3>2, <2>2 DEF PoseKnows
  <2> QED BY <2>1, <2>2, <1>8
<1>9. CASE f.class = "R"
  <2>1. f.split /\ splitMode /\ b = state /\ PoseKnows(state, shown, again, looked)
    BY <1>1, <1>2, <1>5, <1>9
  <2>2. CASE f.dup
    BY <2>1, <2>2, <1>2, <1>6, <1>9
  <2>3. CASE ~f.dup
    <3>1. e = PoseR(state, Buffered, f.cut)
      BY <2>1, <2>3, <1>6, <1>9
    <3>2. PICK bf, ct : bf = Buffered /\ ct = f.cut
      OBVIOUS
    <3>3. e = PoseR(state, bf, ct) /\ PoseAt(state, tracked)
      BY <3>1, <3>2, <1>2
    <3>4. /\ PoseAt(e, tracked)
          /\ state.mod.tele => PoseKnows(e, shown, again, looked)
          /\ ~state.mod.tele => PoseKnows(e, shown, again, TRUE)
      BY <3>3, <2>1, PoseRForm
    <3>5. Live(e) = Truth(e) \/ (PoseLerped(e) /\ ~ct /\ ~state.mod.tele)
      BY <3>3, <2>1, PoseRForm
    <3> QED BY <3>2, <3>4, <3>5, <2>3, <1>2, <1>9
  <2> QED BY <2>2, <2>3
<1> QED BY <1>1, <1>7, <1>8, <1>9

\* Every Painter keeps the invariant of the pose history, and the promises.
LEMMA PosePaint ==
  ASSUME Turns, PoseInv, tracked \in PoseKinds, shown \in Plains \cup {Nothing, Plain(Alien)}, Paints
  PROVE  /\ obj' \in Objects /\ mod' \in Slots
         /\ drawn' \in Values \cup {Nothing, Plain(Alien)}
         /\ shown' \in Plains \cup {Nothing, Plain(Alien)}
         /\ PoseInv' /\ LogicSeesTruth' /\ ForeignUntouched' /\ RFrameInterpolates'
<1>1. tracked \in SeenKinds /\ tracked \notin ClothKinds /\ tracked \notin {"fader", "pre", "post"}
  BY DEF SeenKinds, PoseKinds, ClothKinds
<1>0. turn = "painter"
  BY DEF Paints, PaintUnsplit, PaintEngage, PaintL, PaintR, PaintDup, Painted
<1>2. \A f : Playable(f) => \A s \in EntryOf(Begun(f), f) : s \in States(Slots)
  BY <1>0, PosePainted DEF PoseAt
<1>3. PICK f : \E s \in EntryOf(Begun(f), f) : Shown(s, f) /\ state' \in States(Slots)
  BY <1>1, <1>2, SeenPaint
<1>4. PICK s \in EntryOf(Begun(f), f) : Shown(s, f) /\ state' \in States(Slots)
  BY <1>3
<1>5. /\ PoseAt(s, tracked)
      /\ f.class = "L" =>
           /\ ~s.mod.inj
           /\ f.split => (s.mod.used /\ s.mod.data # 0 => PoseValid(s))
           /\ f.split /\ PoseValid(s) => /\ s.mod.has /\ s.mod.curr = Truth(s)
                                         /\ s.mod.dirty => ~(splitMode /\ looked)
      /\ f.class = "R" /\ f.dup => PoseKnows(s, shown, again, looked)
      /\ f.class = "R" /\ ~f.dup =>
           /\ mod.tele => PoseKnows(s, shown, again, looked)
           /\ ~mod.tele => PoseKnows(s, shown, again, TRUE)
           /\ Live(s) = Truth(s) \/ (PoseLerped(s) /\ ~f.cut /\ ~mod.tele)
  <2>1. Playable(f)
    BY <1>4 DEF Shown
  <2> QED BY <2>1, <1>0, <1>4, PosePainted
<1>6. /\ drawn' = (IF ~Owned(s) \/ f.dup THEN Nothing ELSE Live(s))
      /\ shown' = (IF f.class = "L" /\ drawn' # Nothing THEN drawn' ELSE shown)
      /\ mod' = s.mod /\ obj' \in Objects /\ state'.obj = obj' /\ state'.mod = mod'
      /\ obj'.mem = s.obj.mem /\ obj'.wrote = s.obj.wrote /\ obj'.cur = s.obj.cur
      /\ obj'.own = s.obj.own /\ obj'.tag = s.obj.tag
      /\ Live(state') = Live(s) /\ Truth(state') = Truth(s) /\ LastMade' = Truth(s)
      /\ (Owned(state') <=> Owned(s))
  BY <1>4, Zenon DEF Shown
<1>7. obj'.new <=> s.obj.new /\ ~(f.class = "L" /\ drawn' # Nothing)
  BY <1>4, Zenon DEF Shown
<1>8. /\ turn' = (IF f.class = "L" THEN "produce" ELSE "painter") /\ tracked' = tracked
      /\ frameClass' = f.class /\ rDup' = f.dup /\ f.class \in {"L", "R"} /\ f.dup \in BOOLEAN
      /\ splitMode' = f.split /\ (f.class = "R" => f.split) /\ (f.dup => f.class = "R")
      /\ f.class = "R" /\ ~f.dup => (cut' <=> f.cut)
  BY <1>4 DEF Shown, PacedBy, Playable, Frames
<1>81. /\ f.class = "R" => (again' <=> again)
       /\ f.dup => looked' = looked
       /\ f.class = "R" /\ ~f.dup => (looked' <=> looked \/ ~mod.tele)
       /\ f.class = "L" => ~looked' /\ (again' <=> f.split /\ ~(splitMode /\ looked))
  BY <1>4 DEF Shown, PacedBy
<1>9. PoseAt(state', tracked) /\ (PoseValid(state') <=> PoseValid(s))
  BY <1>4, <1>5, <1>6 DEF PoseAt, PoseValid
<1>10. Nothing \notin Plains /\ Plains \subseteq Values
  BY PlainPair
<1>11. /\ Owned(s) => Truth(s) \in Plains
       /\ ~s.mod.inj => Live(s) = Truth(s) /\ s.obj.mem = s.obj.wrote
       /\ PoseValid(s) => Owned(s)
       /\ ~Owned(s) => ~s.mod.inj
  BY <1>5 DEF PoseAt, Live, Truth
<1>12. CASE f.class = "L"
  <2>1. ~s.mod.inj /\ Live(s) = Truth(s) /\ ~f.dup /\ s.obj.mem = s.obj.wrote
    BY <1>5, <1>8, <1>11, <1>12
  <2>2. Owned(s) => drawn' = Truth(s) /\ shown' = drawn' /\ ~obj'.new
    <3>1. Owned(s) => drawn' = Truth(s) /\ drawn' # Nothing
      BY <2>1, <1>6, <1>10, <1>11
    <3> QED BY <3>1, <1>6, <1>7, <1>12
  <2>3. ~Owned(s) => drawn' = Nothing /\ shown' = shown
    BY <1>6
  <2>4. splitMode' => PoseKnows(state', shown', again', looked')
    <3>1. SUFFICES ASSUME splitMode', PoseValid(s), mod'.has
                   PROVE  mod'.curr = shown' /\ ~obj'.new /\ (mod'.dirty => again') /\ ~looked'
      BY <1>6, <1>9, <1>81, <1>12, Zenon DEF PoseKnows
    <3>2. /\ s.mod.curr = Truth(s) /\ Owned(s)
          /\ s.mod.dirty => ~(splitMode /\ looked)
      BY <3>1, <1>5, <1>8, <1>11, <1>12
    <3>3. mod'.curr = shown' /\ ~obj'.new
      BY <3>2, <2>2, <1>6
    <3>4. mod'.dirty => again'
      BY <3>1, <3>2, <1>6, <1>8, <1>81, <1>12, Zenon
    <3> QED BY <3>3, <3>4, <1>81, <1>12
  <2>5. PoseInv'
    <3>1. ~mod'.inj /\ (splitMode' => (mod'.used /\ mod'.data # 0 => PoseValid(state')))
      BY <2>1, <1>5, <1>6, <1>8, <1>9, <1>12
    <3> QED BY <3>1, <2>4, <1>8, <1>9 DEF PoseInv
  <2>6. LogicSeesTruth'
    <3>1. obj'.mem = obj'.wrote
      BY <2>1, <1>6
    <3> QED BY <3>1, <2>1, <2>2, <2>3, <1>6 DEF LogicSeesTruth
  <2>7. ForeignUntouched' /\ RFrameInterpolates'
    <3>1. obj'.mem = obj'.wrote /\ frameClass' # "R"
      BY <2>1, <1>6, <1>8, <1>12
    <3> QED BY <3>1, <1>6 DEF ForeignUntouched, RFrameInterpolates
  <2>8. /\ drawn' \in Values \cup {Nothing, Plain(Alien)}
        /\ shown' \in Plains \cup {Nothing, Plain(Alien)}
    BY <2>2, <2>3, <1>10, <1>11
  <2>9. obj' \in Objects /\ mod' \in Slots
    BY <1>4, <1>6 DEF States
  <2> QED BY <2>5, <2>6, <2>7, <2>8, <2>9
<1>13. CASE f.class = "R"
  <2>1. shown' = shown /\ (obj'.new <=> s.obj.new) /\ turn' = "painter" /\ splitMode' /\ (again' <=> again)
    <3>1. f.class # "L"
      BY <1>13
    <3>2. f.split = TRUE
      BY <1>8, <1>13, <1>4 DEF Shown, Playable, Frames
    <3> QED BY <3>1, <3>2, <1>6, <1>7, <1>8, <1>81, <1>13
  <2>2. PoseKnows(s, shown, again, looked')
    <3>1. CASE f.dup
      BY <3>1, <1>5, <1>13, <1>81
    <3>2. CASE ~f.dup /\ mod.tele
      <4>1. looked' <=> looked
        BY <3>2, <1>81, <1>13
      <4> QED BY <4>1, <3>2, <1>5, <1>13 DEF PoseKnows
    <3>3. CASE ~f.dup /\ ~mod.tele
      <4>1. looked'
        BY <3>3, <1>81, <1>13
      <4> QED BY <4>1, <3>3, <1>5, <1>13 DEF PoseKnows
    <3> QED BY <3>1, <3>2, <3>3
  <2>3. PoseKnows(state', shown', again', looked')
    BY <2>1, <2>2, <1>6, <1>9 DEF PoseKnows
  <2>4. PoseInv'
    BY <2>1, <2>3, <1>8, <1>9 DEF PoseInv
  <2>5. ASSUME drawn' # Nothing
        PROVE  /\ drawn' = LastMade' \/ ((Between(drawn)' \/ Lagging(drawn)') /\ ~cut')
               /\ drawn' \in Values
    <3>1. Owned(s) /\ ~f.dup /\ drawn' = Live(s) /\ Truth(s) \in Values
      BY <2>5, <1>6, <1>10, <1>11
    <3>2. CASE Live(s) = Truth(s)
      BY <3>1, <3>2, <1>6
    <3>3. CASE PoseLerped(s) /\ ~f.cut /\ ~mod.tele
      <4>1. PICK p, c : p = s.mod.prev /\ c = s.mod.curr
        OBVIOUS
      <4>2. /\ p \in Plains /\ c \in Plains /\ drawn' = Mix(p, c) /\ c = Truth(s)
            /\ \/ p = shown /\ ~s.obj.new /\ shown \in Plains /\ ~Far(p, c)
               \/ shown = c /\ again
        <5>1. /\ PoseValid(s) /\ s.mod.has /\ s.mod.dirty /\ drawn' = Mix(p, c)
              /\ PoseKnows(s, shown, again, TRUE)
          BY <3>1, <3>3, <4>1, <1>5, <1>13 DEF PoseLerped
        <5>2. p \in Plains /\ c \in Plains
          BY <5>1, <4>1, <1>5 DEF PoseAt
        <5> QED BY <5>1, <5>2, <4>1 DEF PoseKnows
      <4>3. drawn' \in Values
        BY <4>2, <1>10, MixPair
      <4>4. CASE p = shown /\ ~s.obj.new /\ shown \in Plains /\ ~Far(p, c)
        <5>1. Between(drawn)'
          BY <4>2, <4>4, <2>1, <1>6, <1>10 DEF Between
        <5> QED BY <5>1, <4>3, <3>1, <3>3, <1>8, <1>13
      <4>5. CASE shown = c /\ again
        <5>1. drawn'[2] = c[2]
          BY <4>2, <1>10, MixOf
        <5>2. Lagging(drawn)'
          BY <5>1, <4>2, <4>5, <2>1, <1>6, <1>8 DEF Lagging
        <5> QED BY <5>2, <4>3, <3>1, <3>3, <1>8, <1>13
      <4> QED BY <4>2, <4>4, <4>5
    <3> QED BY <3>1, <3>2, <3>3, <1>5, <1>13
  <2>6. RFrameInterpolates'
    <3>1. tracked' \notin {"fader", "pre", "post"}
      BY <1>1, <1>8
    <3> QED BY <3>1, <2>5 DEF RFrameInterpolates
  <2>7. drawn' \in Values \cup {Nothing, Plain(Alien)}
    BY <2>5
  <2>8. LogicSeesTruth'
    BY <2>1 DEF LogicSeesTruth
  <2>9. ForeignUntouched'
    BY <1>6, <1>11 DEF ForeignUntouched
  <2>10. obj' \in Objects /\ mod' \in Slots
    BY <1>4, <1>6 DEF States
  <2> QED BY <2>1, <2>4, <2>6, <2>7, <2>8, <2>9, <2>10
<1> QED BY <1>8, <1>12, <1>13

-----------------------------------------------------------------------------
(* The pose history: production.                                           *)

\* What a production leaves of a history: what the mod knew, or none.
PoseMade(p, k, t) ==
  /\ PoseAt(p, k) /\ ~p.mod.inj
  /\ PoseValid(p) /\ p.mod.has /\ (t.mod.used /\ t.mod.data # 0 => PoseValid(t)) =>
       /\ PoseValid(t) /\ t.mod.has /\ p.mod.curr = t.mod.curr /\ p.mod.dirty = t.mod.dirty
       /\ p.obj.new = t.obj.new

\* An object w that production has named g.
Tags == 0..2

Named(w, g, n)     == [w EXCEPT !.tag = g, !.own = "object", !.new = n]
NamedOf(o, w, g, n) ==
  /\ o \in Objects /\ o.mem = w.mem /\ o.wrote = w.wrote /\ o.cur = w.cur /\ o.tag = g
  /\ o.own = "object" /\ o.new = n

\* Naming changes the tag, the owner and the age only.
LEMMA NamedForm ==
  ASSUME NEW w \in Objects, NEW g \in Tags, NEW n \in BOOLEAN,
         NEW o, o = Named(w, g, n)
  PROVE  NamedOf(o, w, g, n)
BY DEF Objects, Named, NamedOf, Tags

\* What a pose of the model in slot t leaves.
PosedOf(p, k, t, tag) ==
  /\ PoseAt(p, k) /\ ~p.mod.inj
  /\ p.mod.has => p.mod = t.mod /\ p.mod.data = tag
  /\ tag = t.obj.tag => p.obj.new = t.obj.new

\* A pose is written, in a slot whose model holds no injected one.
LEMMA PosedForm ==
  ASSUME NEW k, NEW t \in States(Slots), ~t.mod.inj, t.obj.mem = t.obj.wrote,
         t.mod.has => t.mod.used /\ t.mod.curr \in Plains /\ t.mod.prev \in Plains,
         NEW v \in Looks, NEW tag \in ModelTags, NEW bf \in BOOLEAN, k = "nodes" => ~bf,
         NEW full \in BOOLEAN, NEW newLayout \in BOOLEAN,
         NEW p, p = Posed(t, v, tag, bf, full, newLayout)
  PROVE  PosedOf(p, k, t, tag)
<1>1. t.obj \in Objects /\ t.mod \in Slots
  BY DEF States
<1>2. PICK c, x : c = (IF bf THEN 1 - t.obj.cur ELSE 0) /\ x = Plain(v)
  OBVIOUS
<1>3. c \in Cells /\ x \in Plains /\ x \in Stored /\ (k = "nodes" => c = 0)
  <2>1. t.obj.cur \in 0..1
    BY <1>1 DEF Objects, Cells
  <2>2. x \in Plains
    BY <1>2 DEF Plains
  <2> QED BY <2>1, <2>2, <1>2, PlainPair DEF Cells
<1>4. PICK w : w = Wrote(t.obj, c, x)
  OBVIOUS
<1>5. /\ w \in Objects /\ w.mem = [t.obj.mem EXCEPT ![c] = x]
      /\ w.wrote = [t.obj.wrote EXCEPT ![c] = x] /\ w.cur = c /\ w.new = t.obj.new
  BY <1>1, <1>3, <1>4, WroteForm
<1>6. PICK nb \in BOOLEAN : nb <=> w.new \/ tag # t.obj.tag
  BY Zenon
<1>7. PICK o : o = Named(w, tag, nb)
  OBVIOUS
<1>8. /\ o \in Objects /\ o.mem = w.mem /\ o.wrote = w.wrote /\ o.cur = c /\ o.tag = tag
      /\ o.own = "object" /\ o.new = nb
  <2>1. tag \in Tags /\ w \in Objects
    BY <1>5 DEF Tags, ModelTags
  <2>2. NamedOf(o, w, tag, nb)
    BY <2>1, <1>6, <1>7, NamedForm
  <2> QED BY <2>2, <1>5 DEF NamedOf
<1>9. [w EXCEPT !.tag = tag, !.own = "object", !.new = @ \/ tag # t.obj.tag] = o
  <2>1. (w.new \/ tag # t.obj.tag) = nb
    BY <1>6
  <2> QED BY <2>1, <1>7 DEF Named
<1>10. PICK g : g = CalcEntry(t.mod, tag, full, newLayout)
  OBVIOUS
<1>11. /\ g \in Slots /\ ~g.inj
       /\ g = t.mod \/ ~g.has
       /\ g.has => g.data = tag
  <2>1. PICK h : h = t.mod
    OBVIOUS
  <2>2. h \in Slots /\ ~h.inj /\ (h.has => h.used) /\ g = CalcEntry(h, tag, full, newLayout)
    BY <2>1, <1>1, <1>10
  <2>3. Outlives(g, h, tag)
    BY <2>2, CalcForm
  <2> QED BY <2>1, <2>3 DEF Outlives
<1>12. p = [obj |-> o, mod |-> g] /\ p.obj = o /\ p.mod = g
  <2>1. p = [obj |-> [w EXCEPT !.tag = tag, !.own = "object", !.new = @ \/ tag # t.obj.tag],
             mod |-> g]
    BY <1>2, <1>4, <1>10, Zenon DEF Posed
  <2>2. p = [obj |-> o, mod |-> g]
    BY <2>1, <1>9
  <2> QED BY <2>2
<1>13. p \in States(Slots)
  BY <1>8, <1>11, <1>12 DEF States
<1>14. Owned(p) /\ Truth(p) = x
  <2>1. p.obj.wrote[c] = x
    BY <1>1, <1>3, <1>5, <1>8, <1>12 DEF Objects
  <2> QED BY <2>1, <1>8, <1>12 DEF Owned, Truth
<1>15. p.obj.mem = p.obj.wrote
  BY <1>5, <1>8, <1>12
<1>16. PoseAt(p, k)
  BY <1>3, <1>8, <1>11, <1>12, <1>13, <1>14, <1>15 DEF PoseAt, ModelTags
<1>17. tag = t.obj.tag => p.obj.new = t.obj.new
  <2>1. tag = t.obj.tag => (nb <=> t.obj.new)
    BY <1>5, <1>6
  <2>2. t.obj.new \in BOOLEAN
    BY <1>1 DEF Objects
  <2> QED BY <2>1, <2>2, <1>8, <1>12
<1> QED BY <1>11, <1>12, <1>16, <1>17 DEF PosedOf

\* A pose of a model, from a slot that has not changed its history.
LEMMA PoseMove ==
  ASSUME NEW k, NEW t, PoseAt(t, k), ~t.mod.inj, NEW r \in States(Slots), r.obj = t.obj,
         r.mod = t.mod \/ r.mod = FreeSlot \/
         (/\ ~r.mod.inj /\ r.mod.used = t.mod.used /\ r.mod.data = t.mod.data /\ r.mod.has = t.mod.has
          /\ r.mod.curr = t.mod.curr /\ r.mod.prev = t.mod.prev /\ r.mod.dirty = t.mod.dirty),
         NEW v \in Looks, NEW tag \in ModelTags, NEW bf \in BOOLEAN, k = "nodes" => ~bf,
         NEW full \in BOOLEAN, NEW newLayout \in BOOLEAN,
         NEW p, p = Posed(r, v, tag, bf, full, newLayout)
  PROVE  PoseMade(p, k, t)
<1>1. /\ ~r.mod.inj /\ r.obj.mem = r.obj.wrote
      /\ r.mod.has => /\ t.mod.has /\ r.mod.curr = t.mod.curr /\ r.mod.prev = t.mod.prev
                      /\ r.mod.dirty = t.mod.dirty /\ r.mod.used = t.mod.used
                      /\ r.mod.data = t.mod.data
  BY FreeSlotForm DEF PoseAt
<1>2. r.mod.has => r.mod.used /\ r.mod.curr \in Plains /\ r.mod.prev \in Plains
  BY <1>1 DEF PoseAt
<1>3. /\ PoseAt(p, k) /\ ~p.mod.inj
      /\ p.mod.has => p.mod = r.mod /\ p.mod.data = tag
      /\ tag = r.obj.tag => p.obj.new = r.obj.new
  <2>1. PosedOf(p, k, r, tag)
    BY <1>1, <1>2, PosedForm
  <2> QED BY <2>1 DEF PosedOf
<1>4. ASSUME p.mod.has, t.mod.used /\ t.mod.data # 0 => PoseValid(t)
      PROVE  /\ PoseValid(t) /\ t.mod.has /\ p.mod.curr = t.mod.curr /\ p.mod.dirty = t.mod.dirty
             /\ p.obj.new = t.obj.new
  <2>1. p.mod = r.mod /\ r.mod.data = tag /\ r.mod.has
    BY <1>3, <1>4
  <2>2. t.mod.has /\ t.mod.used /\ t.mod.data = tag
    BY <1>1, <2>1 DEF PoseAt
  <2>3. PoseValid(t)
    BY <2>2, <1>4 DEF ModelTags
  <2>4. tag = r.obj.tag
    BY <2>2, <2>3 DEF PoseValid
  <2> QED BY <2>1, <2>2, <2>3, <2>4, <1>1, <1>3
<1> QED BY <1>3, <1>4 DEF PoseMade

\* A pose is one from some state of S.
LEMMA Posing ==
  ASSUME NEW S, NEW g, NEW bf, NEW fs, NEW ls, NEW p \in Posings(S, g, bf, fs, ls)
  PROVE  \E r \in S : \E v \in Looks : \E full \in fs : \E nl \in ls : p = Posed(r, v, g, bf, full, nl)
BY DEF Posings

\* A birth is one with some look and tag.
LEMMA Birth ==
  ASSUME NEW s, NEW bf, NEW fs, NEW p \in Births(s, bf, fs)
  PROVE  \E v \in Looks : \E tag \in 1..2 : \E full \in fs : p = Born(s, v, tag, bf, full)
BY DEF Births

\* What production can make of a model that lives.
LEMMA PoseMadeOwned ==
  ASSUME NEW t, NEW bf, Owned(t), NEW p \in PoseProduced(t, bf)
  PROVE  \/ p \in {t, Stale(t), Died(t), DiedBare(t)}
         \/ p \in Posings({t, Stale(t)}, t.obj.tag, bf, BOOLEAN, {FALSE})
         \/ p \in Posings({t}, 3 - t.obj.tag, bf, {FALSE}, BOOLEAN)
         \/ p \in Births(Died(t), bf, {FALSE})
BY DEF PoseProduced

\* What production can make in memory that has gone.
LEMMA PoseMadeForeign ==
  ASSUME NEW t, NEW bf, ~Owned(t), NEW p \in PoseProduced(t, bf)
  PROVE  p \in {t, SlotReset(t)} \/ p \in Births(t, bf, BOOLEAN)
BY DEF PoseProduced

\* The slot has not been seen in this production.
LEMMA StaleForm ==
  ASSUME NEW k, NEW t, PoseAt(t, k), ~t.mod.inj, NEW r, r = Stale(t)
  PROVE  /\ PoseAt(r, k) /\ r.obj = t.obj /\ ~r.mod.inj
         /\ r.mod.used = t.mod.used /\ r.mod.data = t.mod.data
         /\ r.mod.has = t.mod.has /\ r.mod.curr = t.mod.curr /\ r.mod.prev = t.mod.prev
         /\ r.mod.dirty = t.mod.dirty
<1>1. t \in States(Slots) /\ t.mod \in Slots
  BY DEF PoseAt, States
<1>2. PICK b \in BOOLEAN : b <=> t.mod.stale \/ t.mod.used
  BY Zenon
<1>3. (t.mod.stale \/ t.mod.used) = b
  BY <1>2
<1>4. PICK g : g = [t.mod EXCEPT !.stale = b]
  OBVIOUS
<1>5. r = [t EXCEPT !.mod = g]
  <2>1. r = [t EXCEPT !.mod.stale = b]
    BY <1>3 DEF Stale
  <2> QED BY <2>1, <1>1, <1>4 DEF States, Slots
<1>6. /\ g \in Slots /\ g.used = t.mod.used /\ g.data = t.mod.data
      /\ g.has = t.mod.has /\ g.dirty = t.mod.dirty /\ g.tele = t.mod.tele /\ g.inj = t.mod.inj
      /\ g.prev = t.mod.prev /\ g.curr = t.mod.curr /\ g.scratch = t.mod.scratch
  BY <1>1, <1>2, <1>4 DEF Slots
<1>7. g.has => g.used /\ g.curr \in Plains /\ g.prev \in Plains
  BY <1>6 DEF PoseAt
<1>8. PoseAt(r, k) /\ r.mod = g /\ r.obj = t.obj
  BY <1>5, <1>6, <1>7, PoseSlotSet
<1> QED BY <1>6, <1>8

\* A model that has died leaves nothing injected.
LEMMA DiedForm ==
  ASSUME NEW k, NEW t, PoseAt(t, k), ~t.mod.inj, NEW r, r = Died(t) \/ r = DiedBare(t)
  PROVE  /\ PoseAt(r, k) /\ ~r.mod.inj /\ ~PoseValid(r)
         /\ r = Died(t) => r.mod = FreeSlot /\ r \in States(Slots)
<1>1. t \in States(Slots) /\ t.obj \in Objects /\ t.mod \in Slots /\ t.obj.tag \in 0..2
  BY DEF PoseAt, States, Objects
<1>2. PICK tg, h : tg = (IF r = Died(t) THEN t.obj.tag ELSE 0) /\ h = (IF r = Died(t) THEN FreeSlot ELSE t.mod)
  OBVIOUS
<1>3. PICK q : q = Taken(t.obj, tg)
  OBVIOUS
<1>4. tg \in 0..2
  BY <1>1, <1>2
<1>5. /\ q \in Objects /\ q.mem = [c \in Cells |-> Plain(Alien)] /\ q.wrote = q.mem
      /\ q.cur = t.obj.cur /\ q.own = "other" /\ q.tag = tg
  BY <1>1, <1>3, <1>4, TakenForm
<1>6. r = [obj |-> q, mod |-> h] /\ r.obj = q /\ r.mod = h
  <2>1. CASE r = Died(t)
    <3>1. r = [t EXCEPT !.obj = q, !.mod = FreeSlot]
      BY <2>1, <1>2, <1>3 DEF Died
    <3>2. r = [obj |-> q, mod |-> FreeSlot]
      BY <3>1, <1>1 DEF States
    <3> QED BY <3>2, <2>1, <1>2
  <2>2. CASE r # Died(t)
    <3>1. r = [t EXCEPT !.obj = q]
      BY <2>2, <1>2, <1>3 DEF DiedBare
    <3>2. r = [obj |-> q, mod |-> t.mod]
      BY <3>1, <1>1, ObjectForm
    <3> QED BY <3>2, <2>2, <1>2
  <2> QED BY <2>1, <2>2
<1>7. h \in Slots /\ ~h.inj /\ (h.has => h.used /\ h.curr \in Plains /\ h.prev \in Plains)
  BY <1>1, <1>2, FreeSlotForm DEF PoseAt
<1>8. ~PoseValid(r)
  <2>1. CASE r = Died(t)
    BY <2>1, <1>2, <1>6, FreeSlotForm DEF PoseValid
  <2>2. CASE r # Died(t)
    BY <2>2, <1>2, <1>5, <1>6 DEF PoseValid
  <2> QED BY <2>1, <2>2
<1>9. r \in States(Slots) /\ ~Owned(r)
  BY <1>5, <1>6, <1>7 DEF States, Owned
<1>10. r.obj.mem = r.obj.wrote /\ (k = "nodes" => r.obj.cur = 0)
  BY <1>5, <1>6 DEF PoseAt
<1>11. PoseAt(r, k)
  BY <1>6, <1>7, <1>8, <1>9, <1>10, Zenon DEF PoseAt
<1> QED BY <1>2, <1>6, <1>7, <1>8, <1>9, <1>11

\* What a birth in the memory of slot t's model leaves.
BornOf(p, k, t, tag) ==
  PoseAt(p, k) /\ ~p.mod.inj /\ (p.mod.has => p.mod = t.mod /\ p.mod.data = tag)

\* A new model in the memory of one that has gone.
LEMMA BornForm ==
  ASSUME NEW k, NEW t \in States(Slots), ~t.mod.inj,
         t.mod.has => t.mod.used /\ t.mod.curr \in Plains /\ t.mod.prev \in Plains,
         NEW v \in Looks, NEW tag \in ModelTags, NEW bf \in BOOLEAN, k = "nodes" => ~bf,
         NEW full \in BOOLEAN, NEW p, p = Born(t, v, tag, bf, full)
  PROVE  BornOf(p, k, t, tag)
<1>1. PICK q, r : q = Fresh(v) /\ r = Reborn(t, v)
  OBVIOUS
<1>2. q \in Objects /\ q.mem = q.wrote
  BY <1>1, FreshForm
<1>3. r \in States(Slots) /\ r.mod = t.mod /\ r.obj = q
  BY <1>1, <1>2, RetaggedState DEF Reborn
<1>4. PICK nl : nl = FALSE
  OBVIOUS
<1>5. p = Posed(r, v, tag, bf, full, nl) /\ nl \in BOOLEAN
  BY <1>1, <1>4 DEF Born
<1>6. PosedOf(p, k, r, tag)
  BY <1>2, <1>3, <1>5, PosedForm
<1> QED BY <1>3, <1>6 DEF PosedOf, BornOf

\* Whatever production does, the slot knows what it knew, or nothing.
LEMMA PoseMakes ==
  ASSUME NEW k, NEW t, PoseAt(t, k), ~t.mod.inj, NEW bf \in BOOLEAN, k = "nodes" => ~bf,
         NEW p \in PoseProduced(t, bf)
  PROVE  PoseMade(p, k, t)
<1>1. t \in States(Slots) /\ t.obj \in Objects /\ t.mod \in Slots
  BY DEF PoseAt, States
<1>2. t.mod.has => t.mod.used /\ t.mod.curr \in Plains /\ t.mod.prev \in Plains
  BY DEF PoseAt
<1>3. CASE p = t
  BY <1>3, PoseOurs DEF PoseMade
<1>4. CASE p = SlotReset(t) /\ ~Owned(t)
  <2>1. ~PoseValid(t)
    BY <1>4 DEF PoseAt
  <2>2. PoseAt(p, k) /\ ~p.mod.inj /\ ~PoseValid(p)
    BY <2>1, <1>4, PoseSlotReset
  <2> QED BY <2>2 DEF PoseMade
<1>5. CASE p = Stale(t)
  <2>1. /\ PoseAt(p, k) /\ p.obj = t.obj /\ ~p.mod.inj
        /\ p.mod.used = t.mod.used /\ p.mod.data = t.mod.data
        /\ p.mod.has = t.mod.has /\ p.mod.curr = t.mod.curr /\ p.mod.dirty = t.mod.dirty
    BY <1>5, StaleForm
  <2> QED BY <2>1 DEF PoseMade, PoseValid
<1>6. CASE p = Died(t) \/ p = DiedBare(t)
  <2>1. PoseAt(p, k) /\ ~p.mod.inj /\ ~PoseValid(p)
    BY <1>6, DiedForm
  <2> QED BY <2>1 DEF PoseMade
<1>7. CASE Owned(t) /\ p \in Posings({t, Stale(t)}, t.obj.tag, bf, BOOLEAN, {FALSE})
  <2>0. PICK S, g, fs, ls : S = {t, Stale(t)} /\ g = t.obj.tag /\ fs = BOOLEAN /\ ls = {FALSE}
    OBVIOUS
  <2>00. p \in Posings(S, g, bf, fs, ls)
    BY <2>0, <1>7
  <2>01. \E r \in S : \E v \in Looks : \E full \in fs : \E nl \in ls : p = Posed(r, v, g, bf, full, nl)
    BY <2>00, Posing
  <2>1. PICK r \in {t, Stale(t)} : \E v \in Looks : \E full \in BOOLEAN : \E nl \in {FALSE} :
                                      p = Posed(r, v, t.obj.tag, bf, full, nl)
    BY <2>0, <2>01
  <2>2. PICK v \in Looks : \E full \in BOOLEAN : \E nl \in {FALSE} :
                                      p = Posed(r, v, t.obj.tag, bf, full, nl)
    BY <2>1
  <2>3. PICK full \in BOOLEAN : \E nl \in {FALSE} : p = Posed(r, v, t.obj.tag, bf, full, nl)
    BY <2>2
  <2>4. PICK nl \in {FALSE} : p = Posed(r, v, t.obj.tag, bf, full, nl)
    BY <2>3
  <2>5. PICK tag : tag = t.obj.tag
    OBVIOUS
  <2>6. tag \in ModelTags
    BY <2>5, <1>7 DEF PoseAt, ModelTags
  <2>7. /\ r \in States(Slots) /\ r.obj = t.obj
        /\ r.mod = t.mod \/
           (/\ ~r.mod.inj /\ r.mod.used = t.mod.used /\ r.mod.data = t.mod.data /\ r.mod.has = t.mod.has
            /\ r.mod.curr = t.mod.curr /\ r.mod.prev = t.mod.prev /\ r.mod.dirty = t.mod.dirty)
    <3>1. CASE r = t
      BY <3>1, <1>1
    <3>2. CASE r = Stale(t)
      BY <3>2, StaleForm DEF PoseAt
    <3> QED BY <3>1, <3>2, <2>1
  <2>8. p = Posed(r, v, tag, bf, full, nl) /\ nl \in BOOLEAN /\ v \in Looks /\ full \in BOOLEAN
    BY <2>2, <2>3, <2>4, <2>5
  <2> QED BY <2>6, <2>7, <2>8, PoseMove
<1>8. CASE Owned(t) /\ p \in Posings({t}, 3 - t.obj.tag, bf, {FALSE}, BOOLEAN)
  <2>1. PICK tag : tag = 3 - t.obj.tag
    OBVIOUS
  <2>2. tag \in ModelTags
    BY <2>1, <1>8 DEF PoseAt, ModelTags
  <2>0. PICK S, fs, ls : S = {t} /\ fs = {FALSE} /\ ls = BOOLEAN
    OBVIOUS
  <2>00. p \in Posings(S, tag, bf, fs, ls)
    BY <2>0, <2>1, <1>8
  <2>01. \E r \in S : \E v \in Looks : \E full \in fs : \E nl \in ls : p = Posed(r, v, tag, bf, full, nl)
    BY <2>00, Posing
  <2>3. PICK r \in {t} : \E v \in Looks : \E full \in {FALSE} : \E nl \in BOOLEAN :
                                      p = Posed(r, v, tag, bf, full, nl)
    BY <2>0, <2>01
  <2>4. PICK v \in Looks : \E full \in {FALSE} : \E nl \in BOOLEAN : p = Posed(r, v, tag, bf, full, nl)
    BY <2>3
  <2>5. PICK full \in {FALSE} : \E nl \in BOOLEAN : p = Posed(r, v, tag, bf, full, nl)
    BY <2>4
  <2>6. PICK nl \in BOOLEAN : p = Posed(r, v, tag, bf, full, nl)
    BY <2>5
  <2>7. /\ r = t /\ r \in States(Slots) /\ r.obj = t.obj /\ r.mod = t.mod
        /\ p = Posed(r, v, tag, bf, full, nl) /\ nl \in BOOLEAN /\ v \in Looks /\ full \in BOOLEAN
    BY <2>3, <2>4, <2>5, <2>6, <1>1
  <2> QED BY <2>2, <2>7, PoseMove
<1>9. CASE p \in Births(Died(t), bf, {FALSE})
  <2>1. PICK r : r = Died(t)
    OBVIOUS
  <2>2. PoseAt(r, k) /\ r.mod = FreeSlot /\ r \in States(Slots)
    BY <2>1, DiedForm
  <2>0. PICK fs : fs = {FALSE}
    OBVIOUS
  <2>00. p \in Births(r, bf, fs)
    BY <2>0, <2>1, <1>9
  <2>01. \E v \in Looks : \E tag \in 1..2 : \E full \in fs : p = Born(r, v, tag, bf, full)
    BY <2>00, Birth
  <2>3. PICK v \in Looks : \E tag \in 1..2 : \E full \in {FALSE} : p = Born(r, v, tag, bf, full)
    BY <2>0, <2>01
  <2>4. PICK tag \in 1..2 : \E full \in {FALSE} : p = Born(r, v, tag, bf, full)
    BY <2>3
  <2>5. PICK full \in {FALSE} : p = Born(r, v, tag, bf, full)
    BY <2>4
  <2>6. /\ v \in Looks /\ tag \in ModelTags /\ full \in BOOLEAN /\ p = Born(r, v, tag, bf, full)
        /\ ~r.mod.inj /\ ~r.mod.has
    BY <2>2, <2>3, <2>4, <2>5, FreeSlotForm DEF ModelTags
  <2>7. BornOf(p, k, r, tag)
    BY <2>2, <2>6, BornForm
  <2> QED BY <2>6, <2>7 DEF PoseMade, BornOf
<1>10. CASE ~Owned(t) /\ p \in Births(t, bf, BOOLEAN)
  <2>1. PICK v \in Looks : \E tag \in 1..2 : \E full \in BOOLEAN : p = Born(t, v, tag, bf, full)
    BY <1>10, Birth
  <2>2. PICK tag \in 1..2 : \E full \in BOOLEAN : p = Born(t, v, tag, bf, full)
    BY <2>1
  <2>3. PICK full \in BOOLEAN : p = Born(t, v, tag, bf, full)
    BY <2>2
  <2>4. v \in Looks /\ tag \in ModelTags /\ full \in BOOLEAN /\ p = Born(t, v, tag, bf, full)
    BY <2>1, <2>2, <2>3 DEF ModelTags
  <2>0. BornOf(p, k, t, tag)
    BY <2>4, <1>1, <1>2, BornForm
  <2>5. /\ PoseAt(p, k) /\ ~p.mod.inj
        /\ p.mod.has => p.mod = t.mod /\ p.mod.data = tag
    BY <2>0 DEF BornOf
  <2>6. p.mod.has => t.mod.used /\ t.mod.data # 0
    BY <2>4, <2>5, <1>2 DEF ModelTags
  <2>7. ~PoseValid(t)
    BY <1>10 DEF PoseAt
  <2> QED BY <2>5, <2>6, <2>7 DEF PoseMade
<1>11. CASE Owned(t)
  <2>1. \/ p \in {t, Stale(t), Died(t), DiedBare(t)}
        \/ p \in Posings({t, Stale(t)}, t.obj.tag, bf, BOOLEAN, {FALSE})
        \/ p \in Posings({t}, 3 - t.obj.tag, bf, {FALSE}, BOOLEAN)
        \/ p \in Births(Died(t), bf, {FALSE})
    BY <1>11, PoseMadeOwned
  <2> QED BY <2>1, <1>3, <1>5, <1>6, <1>7, <1>8, <1>9, <1>11
<1>12. CASE ~Owned(t)
  <2>1. p \in {t, SlotReset(t)} \/ p \in Births(t, bf, BOOLEAN)
    BY <1>12, PoseMadeForeign
  <2> QED BY <2>1, <1>3, <1>4, <1>10, <1>12
<1> QED BY <1>11, <1>12

\* Production keeps the invariant of the pose history.
LEMMA PoseProduce ==
  ASSUME Turns, PoseInv, tracked \in PoseKinds, ProduceObject
  PROVE  obj' \in Objects /\ mod' \in Slots /\ PoseInv' /\ ForeignUntouched'
<1>0. /\ turn = "produce" /\ turn' = "painter" /\ shown' = shown /\ tracked' = tracked
      /\ splitMode' = splitMode /\ ~looked /\ looked' = looked /\ again' = again
  BY ProduceFrame
<1>1. /\ PoseAt(state, tracked) /\ ~state.mod.inj
      /\ splitMode => PoseKnows(state, shown, again, looked)
      /\ splitMode => (state.mod.used /\ state.mod.data # 0 => PoseValid(state))
  BY <1>0, StateForm DEF PoseInv
<1>2. PICK bf : bf = Buffered
  OBVIOUS
<1>3. bf \in BOOLEAN /\ (tracked = "nodes" => ~bf)
  BY <1>2 DEF Buffered
<1>4. PICK p \in PoseProduced(state, bf) : obj' = p.obj /\ mod' = p.mod
  BY <1>2, ProduceFrame, PoseEntry
<1>5. PoseMade(p, tracked, state)
  BY <1>1, <1>3, <1>4, PoseMakes
<1>6. PoseAt(p, tracked) /\ ~p.mod.inj
  BY <1>5 DEF PoseMade
<1>7. state' = p
  <2>1. p = [obj |-> p.obj, mod |-> p.mod]
    BY <1>6, StateEqual DEF PoseAt
  <2> QED BY <2>1, <1>4, ProduceFrame
<1>8. splitMode => PoseKnows(p, shown, again, FALSE)
  <2>1. SUFFICES ASSUME splitMode, PoseValid(p), p.mod.has
                 PROVE  p.mod.curr = shown /\ ~p.obj.new /\ (p.mod.dirty => again)
    BY DEF PoseKnows
  <2>2. /\ PoseValid(state) /\ state.mod.has /\ p.mod.curr = state.mod.curr
        /\ p.mod.dirty = state.mod.dirty /\ p.obj.new = state.obj.new
    BY <2>1, <1>1, <1>5 DEF PoseMade
  <2>3. PoseKnows(state, shown, again, FALSE)
    BY <2>1, <1>0, <1>1 DEF PoseKnows
  <2> QED BY <2>2, <2>3 DEF PoseKnows
<1>9. splitMode => PoseKnows(p, shown, again, looked)
  BY <1>0, <1>8 DEF PoseKnows
<1>10. PoseInv'
  <2>1. PoseAt(state', tracked) /\ ~mod'.inj /\ (splitMode => PoseKnows(state', shown, again, looked))
    BY <1>4, <1>6, <1>7, <1>9
  <2> QED BY <2>1, <1>0 DEF PoseInv
<1>11. obj' \in Objects /\ mod' \in Slots
  BY <1>4, <1>6 DEF PoseAt, States
<1>12. ForeignUntouched'
  <2>1. obj'.mem = obj'.wrote
    BY <1>4, <1>6 DEF PoseAt
  <2> QED BY <2>1 DEF ForeignUntouched
<1> QED BY <1>10, <1>11, <1>12

\* The slots begin free.
LEMMA PoseInit0 ==
  ASSUME NEW v \in Looks, NEW k
  PROVE  PoseAt(PoseInit(v), k) /\ ~PoseInit(v).mod.inj
<1>1. PICK q, p : q = Fresh(v) /\ p = PoseInit(v)
  OBVIOUS
<1>2. p = [obj |-> q, mod |-> FreeSlot] /\ p.obj = q /\ p.mod = FreeSlot
  BY <1>1 DEF PoseInit
<1>3. /\ q \in Objects /\ q.mem = q.wrote /\ q.mem = [c \in Cells |-> Plain(v)] /\ q.own = "object"
      /\ Plain(v) \in Plains /\ q.cur = 0 /\ q.tag = 1
  BY <1>1, FreshForm
<1>4. p \in States(Slots)
  BY <1>2, <1>3, FreeSlotForm DEF States
<1>5. Truth(p) \in Plains
  <2>1. q.wrote[0] = Plain(v)
    BY <1>3 DEF Cells
  <2> QED BY <2>1, <1>2, <1>3 DEF Truth
<1>6. ~p.mod.inj /\ ~p.mod.has /\ ~PoseValid(p)
  BY <1>2, FreeSlotForm DEF PoseValid
<1>7. PoseAt(p, k)
  <2>0. p.obj.cur = 0 /\ p.obj.tag = 1 /\ p.obj.mem = p.obj.wrote /\ p.obj.own = "object"
    BY <1>2, <1>3, Zenon
  <2>1. p.obj.cur = 0 /\ p.obj.tag \in 1..2 /\ p.obj.mem = p.obj.wrote /\ Owned(p)
    BY <2>0 DEF Owned
  <2> QED BY <2>1, <1>4, <1>5, <1>6, Zenon DEF PoseAt
<1> QED BY <1>1, <1>6, <1>7

-----------------------------------------------------------------------------
(* The camera history: its invariant.                                      *)

\* What production can write of a view.
SeenViews == Plains \cup {Plain(Alien)}

\* Memory is production's, unless a view is injected: then it is the current view's, half
\* way between the two the record knows.
CamAt(t) ==
  /\ t \in States(Cameras) /\ t.obj.own = "object" /\ Truth(t) \in SeenViews
  /\ t.mod.has => t.mod.curr \in Plains /\ t.mod.prev \in Plains
  /\ ~t.mod.inj => t.obj.mem = t.obj.wrote
  /\ t.mod.inj => /\ t.mod.view = t.obj.cur /\ t.obj.tag # 0 /\ t.mod.has
                  /\ t.mod.curr = Truth(t) /\ t.mod.scratch = Mix(t.mod.prev, t.mod.curr)
                  /\ t.obj.mem = [t.obj.wrote EXCEPT ![t.obj.cur] = t.mod.scratch]

\* The mod has a history of the current view.
CamKnown(t) == t.mod.has /\ t.mod.view = t.obj.cur /\ t.obj.tag # 0

\* What it says of the last view shown: before an R frame has compared it with
\* memory (lk), and after.
CamKnows(t, sh, ag, lk) ==
  CamKnown(t) =>
    IF lk THEN /\ t.mod.curr = Truth(t)
               /\ \/ t.mod.prev = t.mod.curr
                  \/ /\ t.mod.prev = sh /\ ~t.obj.new /\ sh \in Plains
                     /\ ~Far(t.mod.prev, t.mod.curr)
                  \/ sh = t.mod.curr /\ ag
    ELSE t.mod.curr = sh /\ ~t.obj.new /\ (t.mod.prev # t.mod.curr => ag)

\* The invariant of the camera history.
CamInv ==
  tracked = "camera" =>
    /\ CamAt(state)
    /\ turn = "produce" => ~mod.inj
    /\ ~splitMode => ~mod.inj /\ ~mod.has
    /\ splitMode => CamKnows(state, shown, again, looked)
    /\ turn = "produce" /\ mod.has => CamKnown(state)

\* The record of another view, or of none.
Viewing(h, v, c) == [h EXCEPT !.view = v, !.inj = FALSE, !.has = FALSE, !.cut = c]
Ended0(h)        == [h EXCEPT !.has = FALSE, !.inj = FALSE]
Bared(h)         == [h EXCEPT !.inj = FALSE]
Uncut(h)         == [h EXCEPT !.cut = FALSE]

\* The record of another view knows nothing of it.
LEMMA ViewingForm ==
  ASSUME NEW h \in Cameras, NEW v \in 0..2, NEW c \in BOOLEAN, NEW g, g = Viewing(h, v, c)
  PROVE  g \in Cameras /\ g.view = v /\ ~g.inj /\ ~g.has /\ g.cut = c
BY DEF Viewing, Cameras

\* A record dropped.
LEMMA Ended0Form ==
  ASSUME NEW h \in Cameras, NEW g, g = Ended0(h)
  PROVE  g \in Cameras /\ g.view = h.view /\ ~g.inj /\ ~g.has /\ g.cut = h.cut
BY DEF Ended0, Cameras

\* A record with no view injected.
LEMMA BaredForm ==
  ASSUME NEW h \in Cameras, NEW g, g = Bared(h)
  PROVE  /\ g \in Cameras /\ g.view = h.view /\ ~g.inj /\ g.has = h.has /\ g.cut = h.cut
         /\ g.prev = h.prev /\ g.curr = h.curr /\ g.scratch = h.scratch
BY DEF Bared, Cameras

\* A record whose cut has been shown.
LEMMA UncutForm ==
  ASSUME NEW h \in Cameras, NEW g, g = Uncut(h)
  PROVE  /\ g \in Cameras /\ g.view = h.view /\ g.inj = h.inj /\ g.has = h.has /\ ~g.cut
         /\ g.prev = h.prev /\ g.curr = h.curr /\ g.scratch = h.scratch
BY DEF Uncut, Cameras

\* The object with production's views back, and another record that injects none.
LEMMA CamPutBack ==
  ASSUME NEW t, CamAt(t), NEW g \in Cameras, ~g.inj,
         g.has => g.curr \in Plains /\ g.prev \in Plains,
         NEW e, e = [obj |-> Filled(t.obj, t.obj.wrote), mod |-> g]
  PROVE  /\ CamAt(e) /\ SameModel(e, t) /\ e.mod = g /\ e.obj.mem = t.obj.wrote
         /\ Live(e) = Truth(e) /\ Truth(e) = Truth(t)
<1>1. t.obj \in Objects /\ t.obj.wrote \in [Cells -> Stored]
  BY DEF CamAt, States, Objects
<1>2. PICK o : o = Filled(t.obj, t.obj.wrote)
  OBVIOUS
<1>3. /\ o \in Objects /\ o.mem = t.obj.wrote /\ o.wrote = t.obj.wrote /\ o.cur = t.obj.cur
      /\ o.own = t.obj.own /\ o.tag = t.obj.tag /\ o.new = t.obj.new
  BY <1>1, <1>2, FilledForm
<1>4. e.obj = o /\ e.mod = g
  BY <1>2
<1>5. e \in States(Cameras)
  BY <1>2, <1>3 DEF States
<1>6. SameModel(e, t)
  BY <1>3, <1>4 DEF SameModel
<1>7. Truth(e) = Truth(t)
  BY <1>6, SameTruth
<1>8. CamAt(e)
  BY <1>3, <1>4, <1>5, <1>7 DEF CamAt
<1>9. Live(e) = Truth(e)
  BY <1>3, <1>4 DEF Live, Truth
<1> QED BY <1>3, <1>4, <1>6, <1>7, <1>8, <1>9

\* An injected view is the mod's, and restoring it puts production's back.
LEMMA CamOurs ==
  ASSUME NEW t, CamAt(t), NEW l, l = Live(t)
  PROVE  /\ t.mod.inj => /\ OursInView(t) /\ l = t.mod.scratch /\ l \in Values
                         /\ Restored(t) = [obj |-> Filled(t.obj, t.obj.wrote), mod |-> Bared(t.mod)]
         /\ ~t.mod.inj => ~OursInView(t) /\ l = Truth(t) /\ Filled(t.obj, t.obj.wrote) = t.obj
<1>1. t \in States(Cameras) /\ t.obj \in Objects /\ t.obj.wrote \in [Cells -> Stored] /\ t.obj.cur \in Cells
  BY DEF CamAt, States, Objects
<1>2. CASE ~t.mod.inj
  <2>1. t.obj.mem = t.obj.wrote
    BY <1>2 DEF CamAt
  <2> QED BY <1>1, <1>2, <2>1, FilledForm DEF OursInView, Live, Truth
<1>3. CASE t.mod.inj
  <2>1. PICK m, c, x, y : m = t.obj.wrote /\ c = t.obj.cur /\ x = t.mod.curr /\ y = t.mod.scratch
    OBVIOUS
  <2>2. t.obj.mem = [m EXCEPT ![c] = y] /\ x = m[c] /\ y = Mix(t.mod.prev, x) /\ x \in Plains /\ t.mod.prev \in Plains
    BY <2>1, <1>3 DEF CamAt, Truth
  <2>3. t.obj.mem[c] = y /\ [t.obj.mem EXCEPT ![c] = x] = m
    BY <2>1, <2>2, <1>1
  <2>4. l = y
    BY <2>1, <2>3 DEF Live
  <2>5. y \in Values
    <3>1. x \in Values /\ t.mod.prev \in Values
      BY <2>2, PlainPair
    <3> QED BY <3>1, <2>2, MixPair
  <2>6. PICK p, o : p = Put(t, x) /\ o = Filled(t.obj, m)
    OBVIOUS
  <2>7. p = [obj |-> o, mod |-> t.mod] /\ o \in Objects
    <3>1. p = [obj |-> Filled(t.obj, [t.obj.mem EXCEPT ![t.obj.cur] = x]), mod |-> t.mod]
      BY <2>6, <1>1, PutForm
    <3> QED BY <3>1, <2>1, <2>3, <2>6, <1>1, FilledForm
  <2>8. p \in States(Cameras) /\ p.obj = o /\ p.mod = t.mod
    BY <2>7, <1>1 DEF States
  <2>9. [p EXCEPT !.mod.inj = FALSE] = [p EXCEPT !.mod = Bared(p.mod)]
    BY <2>8 DEF Bared, Cameras, States
  <2>10. Restored(t) = [p EXCEPT !.mod = Bared(t.mod)]
    BY <2>1, <2>6, <2>8, <2>9, Zenon DEF Restored
  <2>11. Restored(t) = [obj |-> o, mod |-> Bared(t.mod)]
    BY <2>8, <2>10, ModForm
  <2> QED BY <2>1, <2>4, <2>5, <2>6, <2>11, <1>3 DEF OursInView
<1> QED BY <1>2, <1>3

\* The record follows the current view; what it knew of another is forgotten.
LEMMA NotedForm ==
  ASSUME NEW t, CamAt(t), NEW n, n = Noted(t)
  PROVE  /\ CamAt(n) /\ n.obj = t.obj
         /\ t.obj.tag = 0 => n.mod.view = NoView /\ ~n.mod.has /\ ~n.mod.inj
         /\ t.obj.tag # 0 => n.mod.view = t.obj.cur
         /\ n.mod.inj \/ n.mod.has => n = t /\ CamKnown(t)
<1>1. /\ t \in States(Cameras) /\ t.obj \in Objects /\ t.mod \in Cameras /\ t.obj.cur \in 0..2
      /\ NoView \in 0..2
  BY DEF CamAt, States, Objects, Cells, NoView
<1>2. \A v, c : [t EXCEPT !.mod.view = v, !.mod.inj = FALSE, !.mod.has = FALSE, !.mod.cut = c]
                 = [t EXCEPT !.mod = Viewing(t.mod, v, c)]
  BY <1>1 DEF Viewing, Cameras, States
<1>3. ASSUME NEW v \in 0..2, NEW c \in BOOLEAN, ~t.mod.inj, n = [t EXCEPT !.mod = Viewing(t.mod, v, c)]
      PROVE  CamAt(n) /\ n.obj = t.obj /\ n.mod.view = v /\ ~n.mod.has /\ ~n.mod.inj
  <2>1. PICK g : g = Viewing(t.mod, v, c)
    OBVIOUS
  <2>2. g \in Cameras /\ g.view = v /\ ~g.inj /\ ~g.has
    BY <2>1, <1>1, ViewingForm
  <2>3. n = [obj |-> t.obj, mod |-> g] /\ n.obj = t.obj /\ n.mod = g
    BY <2>1, <1>1, <1>3, ModForm
  <2>4. Filled(t.obj, t.obj.wrote) = t.obj
    BY <1>3, CamOurs
  <2>5. n = [obj |-> Filled(t.obj, t.obj.wrote), mod |-> g]
    BY <2>3, <2>4
  <2>6. CamAt(n)
    BY <2>2, <2>5, CamPutBack
  <2> QED BY <2>2, <2>3, <2>6
<1>4. CASE t.obj.tag = 0
  <2>1. ~t.mod.inj
    BY <1>4 DEF CamAt
  <2>2. n = [t EXCEPT !.mod = Viewing(t.mod, NoView, FALSE)]
    BY <1>2, <1>4, Zenon DEF Noted
  <2>3. CamAt(n) /\ n.obj = t.obj /\ n.mod.view = NoView /\ ~n.mod.has /\ ~n.mod.inj
    BY <1>1, <1>3, <2>1, <2>2
  <2> QED BY <2>3, <1>4
<1>5. CASE t.obj.tag # 0 /\ t.mod.view # t.obj.cur
  <2>1. ~t.mod.inj
    BY <1>5 DEF CamAt
  <2>2. n = [t EXCEPT !.mod.view = t.obj.cur, !.mod.inj = FALSE, !.mod.has = FALSE]
    BY <1>5, Zenon DEF Noted
  <2>3. [t EXCEPT !.mod.view = t.obj.cur, !.mod.inj = FALSE, !.mod.has = FALSE]
        = [t EXCEPT !.mod = Viewing(t.mod, t.obj.cur, t.mod.cut)]
    BY <1>1 DEF Viewing, Cameras, States
  <2>4. PICK v, c : v = t.obj.cur /\ c = t.mod.cut
    OBVIOUS
  <2>5. v \in 0..2 /\ c \in BOOLEAN /\ n = [t EXCEPT !.mod = Viewing(t.mod, v, c)]
    BY <2>2, <2>3, <2>4, <1>1 DEF Cameras
  <2>6. CamAt(n) /\ n.obj = t.obj /\ n.mod.view = v /\ ~n.mod.has /\ ~n.mod.inj
    BY <1>3, <2>1, <2>5
  <2> QED BY <2>4, <2>6, <1>5
<1>6. CASE t.obj.tag # 0 /\ t.mod.view = t.obj.cur
  <2>1. n = t
    BY <1>6 DEF Noted
  <2>2. t.mod.inj \/ t.mod.has => CamKnown(t)
    BY <1>6 DEF CamAt, CamKnown
  <2> QED BY <2>1, <2>2, <1>6
<1> QED BY <1>4, <1>5, <1>6

\* A view that is not finite is not known.
LEMMA CamDropped ==
  ASSUME NEW t, CamAt(t), ~Finite(t), NEW e, e = Dropped(t)
  PROVE  /\ CamAt(e) /\ e.obj = t.obj /\ ~e.mod.has /\ ~e.mod.inj /\ e.mod.view = t.mod.view
         /\ Live(e) = Truth(e)
<1>1. t \in States(Cameras) /\ t.mod \in Cameras
  BY DEF CamAt, States
<1>2. ~t.mod.inj
  <2>1. Plain(Alien) \notin Values
    BY LooksAssumption DEF Plain, Values
  <2>2. PICK l : l = Live(t)
    OBVIOUS
  <2> QED BY <2>1, <2>2, CamOurs DEF Finite
<1>3. PICK g : g = Ended0(t.mod)
  OBVIOUS
<1>4. g \in Cameras /\ g.view = t.mod.view /\ ~g.inj /\ ~g.has
  BY <1>1, <1>3, Ended0Form
<1>5. e = [t EXCEPT !.mod = g]
  <2>1. [t EXCEPT !.mod.has = FALSE, !.mod.inj = FALSE] = [t EXCEPT !.mod = Ended0(t.mod)]
    BY <1>1 DEF Ended0, Cameras, States
  <2> QED BY <2>1, <1>3, Zenon DEF Dropped
<1>6. e = [obj |-> t.obj, mod |-> g] /\ e.obj = t.obj /\ e.mod = g
  BY <1>1, <1>5, ModForm
<1>7. e = [obj |-> Filled(t.obj, t.obj.wrote), mod |-> g]
  <2>1. Filled(t.obj, t.obj.wrote) = t.obj
    BY <1>2, CamOurs
  <2> QED BY <2>1, <1>6
<1>8. CamAt(e) /\ Live(e) = Truth(e)
  BY <1>4, <1>7, CamPutBack
<1> QED BY <1>4, <1>6, <1>8

\* The record once x has been seen, with the flag of a cut.
Watched(h, x, c) == [Observe(h, x) EXCEPT !.inj = FALSE, !.cut = c]

\* What the record knows once x has been seen.
LEMMA WatchedForm ==
  ASSUME NEW h \in Cameras, NEW x \in Plains, h.has => h.curr \in Plains, NEW c \in BOOLEAN,
         NEW g, g = Watched(h, x, c)
  PROVE  /\ g \in Cameras /\ g.view = h.view /\ ~g.inj /\ g.has /\ g.curr = x /\ g.prev \in Plains
         /\ g.prev # x => h.has /\ g.prev = h.curr /\ ~Far(h.curr, x)
<1>1. PICK y : y = IF h.has /\ ~IsCut(h, x) THEN h.curr ELSE x
  OBVIOUS
<1>2. y \in Plains /\ (y # x => h.has /\ y = h.curr /\ ~Far(h.curr, x))
  BY <1>1 DEF IsCut
<1>3. y \in Stored /\ x \in Stored
  BY <1>2, PlainPair
<1>4. Observe(h, x) = [h EXCEPT !.prev = y, !.curr = x, !.has = TRUE]
  BY <1>1 DEF Observe
<1>5. g = [h EXCEPT !.prev = y, !.curr = x, !.has = TRUE, !.inj = FALSE, !.cut = c]
  BY <1>4 DEF Watched
<1>6. g \in Cameras /\ g.view = h.view /\ ~g.inj /\ g.has /\ g.curr = x /\ g.prev = y
  BY <1>3, <1>5 DEF Cameras
<1> QED BY <1>2, <1>6

\* An L frame puts production's view back, and looks at it.
LEMMA CamLForm ==
  ASSUME NEW t, CamAt(t), NEW e, e = CamL(t)
  PROVE  /\ CamAt(e) /\ SameModel(e, t) /\ ~e.mod.inj /\ e.obj.mem = e.obj.wrote
         /\ e.mod.has => CamKnown(e)
         /\ CamKnown(e) => /\ e.mod.curr = Truth(e)
                           /\ e.mod.prev # e.mod.curr => CamKnown(t) /\ t.mod.curr # Truth(t)
<1>1. PICK n : n = Noted(t)
  OBVIOUS
<1>2. /\ CamAt(n) /\ n.obj = t.obj
      /\ t.obj.tag = 0 => n.mod.view = NoView /\ ~n.mod.has /\ ~n.mod.inj
      /\ t.obj.tag # 0 => n.mod.view = t.obj.cur
      /\ n.mod.inj \/ n.mod.has => n = t /\ CamKnown(t)
  BY <1>1, NotedForm
<1>3. n \in States(Cameras) /\ n.obj \in Objects /\ n.mod \in Cameras
  BY <1>2 DEF CamAt, States
<1>4. SameModel(n, t)
  BY <1>2 DEF SameModel
<1>5. CASE n.obj.tag = 0
  <2>1. e = n
    BY <1>1, <1>5, Zenon DEF CamL, CamLframe
  <2>2. ~n.mod.has /\ ~n.mod.inj
    BY <1>2, <1>5
  <2>3. n.obj.mem = n.obj.wrote
    BY <1>2, <2>2 DEF CamAt
  <2> QED BY <2>1, <2>2, <2>3, <1>2, <1>4 DEF CamKnown
<1>6. CASE n.obj.tag # 0 /\ ~Finite(n)
  <2>1. e = Dropped(n)
    BY <1>1, <1>6, Zenon DEF CamL, CamLframe
  <2>2. CamAt(e) /\ e.obj = n.obj /\ ~e.mod.has /\ ~e.mod.inj
    BY <2>1, <1>2, <1>6, CamDropped
  <2>3. e.obj.mem = e.obj.wrote
    BY <2>2 DEF CamAt
  <2>4. SameModel(e, t)
    BY <2>2, <1>2 DEF SameModel
  <2> QED BY <2>2, <2>3, <2>4 DEF CamKnown
<1>7. CASE n.obj.tag # 0 /\ Finite(n)
  <2>1. PICK b : b = IF OursInView(n) THEN Restored(n) ELSE n
    OBVIOUS
  <2>2. PICK h : h = IF n.mod.inj THEN Bared(n.mod) ELSE n.mod
    OBVIOUS
  <2>3. /\ h \in Cameras /\ h.view = n.mod.view /\ h.has = n.mod.has /\ h.curr = n.mod.curr /\ ~h.inj
        /\ h.prev = n.mod.prev
    BY <2>2, <1>3, BaredForm
  <2>4. b = [obj |-> Filled(n.obj, n.obj.wrote), mod |-> h]
    <3>1. CASE n.mod.inj
      <4>1. OursInView(n) /\ Restored(n) = [obj |-> Filled(n.obj, n.obj.wrote), mod |-> Bared(n.mod)]
        BY <3>1, <1>2, CamOurs
      <4> QED BY <4>1, <3>1, <2>1, <2>2
    <3>2. CASE ~n.mod.inj
      <4>1. ~OursInView(n) /\ Filled(n.obj, n.obj.wrote) = n.obj
        BY <3>2, <1>2, CamOurs
      <4>2. n = [obj |-> n.obj, mod |-> n.mod]
        BY <1>3, StateEqual
      <4> QED BY <4>1, <4>2, <3>2, <2>1, <2>2
    <3> QED BY <3>1, <3>2
  <2>5. PICK x : x = Truth(n)
    OBVIOUS
  <2>6. Live(b) = x /\ b \in States(Cameras) /\ b.mod = h
    <3>1. h.has => h.curr \in Plains /\ h.prev \in Plains
      BY <2>3, <1>2 DEF CamAt
    <3>2. CamAt(b) /\ b.mod = h /\ Live(b) = Truth(b) /\ Truth(b) = Truth(n)
      BY <2>3, <2>4, <3>1, <1>2, CamPutBack
    <3> QED BY <3>2, <2>5 DEF CamAt
  <2>7. x \in Plains
    <3>1. CASE n.mod.inj
      BY <3>1, <2>5, <1>2 DEF CamAt
    <3>2. CASE ~n.mod.inj
      <4>1. Live(n) = Truth(n)
        BY <3>2, <1>2, CamOurs
      <4> QED BY <4>1, <2>5, <1>2, <1>7 DEF Finite, CamAt, SeenViews
    <3> QED BY <3>1, <3>2
  <2>8. PICK c \in BOOLEAN : c = IsCut(h, x)
    BY DEF IsCut, Cameras, Far
  <2>9. PICK g : g = Watched(h, x, c)
    OBVIOUS
  <2>10. e = [b EXCEPT !.mod = g]
    BY <1>1, <1>7, <2>1, <2>6, <2>8, <2>9, Zenon DEF CamL, CamLframe, Watched
  <2>11. e = [obj |-> Filled(n.obj, n.obj.wrote), mod |-> g]
    <3>1. b.obj = Filled(n.obj, n.obj.wrote)
      BY <2>4
    <3> QED BY <3>1, <2>6, <2>10, ModForm
  <2>12. /\ g \in Cameras /\ g.view = h.view /\ ~g.inj /\ g.has /\ g.curr = x /\ g.prev \in Plains
         /\ g.prev # x => h.has /\ g.prev = h.curr /\ ~Far(h.curr, x)
    <3>1. h.has => h.curr \in Plains
      BY <2>3, <1>2 DEF CamAt
    <3> QED BY <3>1, <2>3, <2>7, <2>9, WatchedForm
  <2>13. /\ CamAt(e) /\ SameModel(e, n) /\ e.mod = g /\ e.obj.mem = n.obj.wrote /\ Truth(e) = x
    BY <2>5, <2>7, <2>11, <2>12, <1>2, CamPutBack
  <2>14. SameModel(e, t) /\ e.obj.mem = e.obj.wrote /\ e.obj.cur = n.obj.cur /\ e.obj.tag = n.obj.tag
    BY <2>13, <1>2 DEF SameModel
  <2>15. CamKnown(e)
    BY <2>3, <2>12, <2>13, <2>14, <1>2, <1>7 DEF CamKnown
  <2>16. ASSUME g.prev # g.curr PROVE CamKnown(t) /\ t.mod.curr # Truth(t)
    <3>1. h.has /\ h.curr # x
      BY <2>12, <2>16
    <3>2. n = t /\ CamKnown(t)
      BY <3>1, <2>3, <1>2
    <3> QED BY <3>1, <3>2, <2>3, <2>5
  <2> QED BY <2>12, <2>13, <2>14, <2>15, <2>16
<1> QED BY <1>5, <1>6, <1>7

-----------------------------------------------------------------------------
(* The camera history: an R frame.                                         *)

\* The same record, but for the injected view and the flag of a cut.
SameView(r, t) ==
  /\ r.mod.has = t.mod.has /\ r.mod.view = t.mod.view
  /\ r.mod.prev = t.mod.prev /\ r.mod.curr = t.mod.curr

\* What is known of a view carries over to the same record and view.
LEMMA CamCarries ==
  ASSUME NEW r, NEW t, SameModel(r, t), SameView(r, t), NEW sh, NEW ag, NEW lk, CamKnows(t, sh, ag, lk)
  PROVE  CamKnows(r, sh, ag, lk) /\ (CamKnown(r) <=> CamKnown(t))
<1>1. Truth(r) = Truth(t)
  BY SameTruth
<1> QED BY <1>1 DEF SameModel, SameView, CamKnows, CamKnown

\* An R frame compares its record with memory.
LEMMA CamRSeen ==
  ASSUME NEW t, CamAt(t), NEW e, e = CamRframe(t), NEW sh, NEW ag, NEW lk,
         CamKnows(t, sh, ag, lk)
  PROVE  /\ CamAt(e) /\ SameModel(e, t) /\ CamKnows(e, sh, ag, TRUE)
         /\ e.mod.has => CamKnown(e) /\ e.mod.curr = Truth(e)
<1>1. PICK n : n = Noted(t)
  OBVIOUS
<1>2. /\ CamAt(n) /\ n.obj = t.obj
      /\ t.obj.tag = 0 => n.mod.view = NoView /\ ~n.mod.has /\ ~n.mod.inj
      /\ t.obj.tag # 0 => n.mod.view = t.obj.cur
      /\ n.mod.inj \/ n.mod.has => n = t /\ CamKnown(t)
  BY <1>1, NotedForm
<1>3. n \in States(Cameras) /\ n.obj \in Objects /\ n.mod \in Cameras
  BY <1>2 DEF CamAt, States
<1>4. SameModel(n, t)
  BY <1>2 DEF SameModel
<1>5. CASE n.obj.tag = 0
  <2>1. e = n
    BY <1>1, <1>5, Zenon DEF CamRframe
  <2> QED BY <2>1, <1>2, <1>4, <1>5 DEF CamKnows, CamKnown
<1>6. CASE n.obj.tag # 0 /\ ~Finite(n)
  <2>1. e = Dropped(n)
    BY <1>1, <1>6, Zenon DEF CamRframe
  <2>2. CamAt(e) /\ e.obj = n.obj /\ ~e.mod.has
    BY <2>1, <1>2, <1>6, CamDropped
  <2>3. SameModel(e, t)
    BY <2>2, <1>2 DEF SameModel
  <2> QED BY <2>2, <2>3 DEF CamKnows, CamKnown
<1>7. CASE n.obj.tag # 0 /\ Finite(n) /\ n.mod.inj
  <2>1. OursInView(n)
    BY <1>2, <1>7, CamOurs
  <2>2. e = n
    BY <2>1, <1>1, <1>7, Zenon DEF CamRframe
  <2>3. n = t /\ t.mod.curr = Truth(t) /\ t.mod.has /\ CamKnown(t)
    BY <1>2, <1>7 DEF CamAt
  <2> QED BY <2>2, <2>3, <1>2, <1>4 DEF CamKnows
<1>8. CASE n.obj.tag # 0 /\ Finite(n) /\ ~n.mod.inj
  <2>0. PICK x, h : x = Truth(n) /\ h = n.mod
    OBVIOUS
  <2>1. ~OursInView(n) /\ Live(n) = x /\ Filled(n.obj, n.obj.wrote) = n.obj
    BY <2>0, <1>2, <1>8, CamOurs
  <2>2. x \in Plains
    BY <2>0, <2>1, <1>2, <1>8 DEF Finite, CamAt, SeenViews
  <2>3. CASE x = h.curr
    <3>1. PICK g : g = Bared(h)
      OBVIOUS
    <3>2. /\ g \in Cameras /\ g.view = h.view /\ ~g.inj /\ g.has = h.has
          /\ g.prev = h.prev /\ g.curr = h.curr
      BY <2>0, <3>1, <1>3, BaredForm
    <3>3. e = [n EXCEPT !.mod.inj = FALSE]
      BY <1>1, <1>8, <2>0, <2>1, <2>3, Zenon DEF CamRframe
    <3>4. [n EXCEPT !.mod.inj = FALSE] = [n EXCEPT !.mod = Bared(n.mod)]
      BY <1>3 DEF Bared, Cameras, States
    <3>5. e = [obj |-> Filled(n.obj, n.obj.wrote), mod |-> g]
      BY <3>1, <3>3, <3>4, <2>0, <2>1, <1>3, ModForm
    <3>6. g.has => g.curr \in Plains /\ g.prev \in Plains
      BY <3>2, <2>0, <1>2 DEF CamAt
    <3>7. CamAt(e) /\ SameModel(e, n) /\ e.mod = g /\ Truth(e) = x
      BY <3>2, <3>5, <3>6, <2>0, <1>2, CamPutBack
    <3>8. SameModel(e, t)
      BY <3>7, <1>4 DEF SameModel
    <3>9. e.mod.curr = Truth(e)
      BY <3>2, <3>7, <2>3
    <3>10. ASSUME e.mod.has PROVE CamKnown(e) /\ CamKnows(e, sh, ag, TRUE)
      <4>1. n = t /\ CamKnown(t)
        BY <3>2, <3>7, <3>10, <2>0, <1>2
      <4>2. SameView(e, t)
        BY <4>1, <3>2, <3>7, <2>0 DEF SameView
      <4>3. CamKnown(e) /\ CamKnows(e, sh, ag, lk)
        BY <4>1, <4>2, <3>8, CamCarries
      <4> QED BY <4>3, <3>9 DEF CamKnows
    <3>11. ~e.mod.has => CamKnows(e, sh, ag, TRUE)
      BY DEF CamKnows, CamKnown
    <3> QED BY <3>7, <3>8, <3>9, <3>10, <3>11
  <2>4. CASE x # h.curr
    <3>1. PICK c \in BOOLEAN : c = (h.cut \/ IsCut(h, x))
      BY DEF IsCut, Cameras, Far
    <3>2. PICK g : g = Watched(h, x, c)
      OBVIOUS
    <3>3. /\ g \in Cameras /\ g.view = h.view /\ ~g.inj /\ g.has /\ g.curr = x /\ g.prev \in Plains
          /\ g.prev # x => h.has /\ g.prev = h.curr /\ ~Far(h.curr, x)
      <4>1. h \in Cameras /\ (h.has => h.curr \in Plains)
        BY <2>0, <1>2, <1>3 DEF CamAt
      <4> QED BY <4>1, <3>2, <2>2, WatchedForm
    <3>4. e = [n EXCEPT !.mod = g]
      <4>1. e = [n EXCEPT !.mod = [Observe(h, x) EXCEPT !.inj = FALSE, !.cut = @ \/ IsCut(h, x)]]
        BY <1>1, <1>8, <2>0, <2>1, <2>4, Zenon DEF CamRframe
      <4>2. Observe(h, x).cut = h.cut
        BY <2>0, <1>3 DEF Observe, Cameras
      <4>3. [Observe(h, x) EXCEPT !.inj = FALSE, !.cut = @ \/ IsCut(h, x)] = g
        BY <4>2, <3>1, <3>2 DEF Watched
      <4> QED BY <4>1, <4>3
    <3>5. e = [obj |-> Filled(n.obj, n.obj.wrote), mod |-> g]
      BY <3>4, <2>1, <1>3, ModForm
    <3>6. CamAt(e) /\ SameModel(e, n) /\ e.mod = g /\ Truth(e) = x
      BY <3>3, <3>5, <2>0, <2>2, <1>2, CamPutBack
    <3>7. SameModel(e, t)
      BY <3>6, <1>4 DEF SameModel
    <3>8. CamKnown(e)
      BY <3>3, <3>6, <2>0, <1>2, <1>8 DEF CamKnown, SameModel
    <3>9. ASSUME g.prev # x
          PROVE  g.prev = sh /\ ~e.obj.new /\ sh \in Plains /\ ~Far(g.prev, g.curr)
      <4>1. h.has /\ g.prev = h.curr /\ ~Far(h.curr, x) /\ n = t /\ CamKnown(t)
        BY <3>3, <3>9, <2>0, <1>2
      <4>2. t.mod.curr # Truth(t)
        BY <4>1, <2>0, <2>4
      <4>3. t.mod.curr = sh /\ ~t.obj.new
        BY <4>1, <4>2 DEF CamKnows
      <4> QED BY <4>1, <4>3, <3>3, <3>7, <2>0 DEF SameModel
    <3>10. CamKnows(e, sh, ag, TRUE)
      BY <3>3, <3>6, <3>8, <3>9 DEF CamKnows
    <3> QED BY <3>3, <3>6, <3>7, <3>8, <3>10
  <2> QED BY <2>3, <2>4
<1> QED BY <1>5, <1>6, <1>7, <1>8

\* The record with x injected.
Injected(h, x) == [h EXCEPT !.scratch = x, !.inj = TRUE]

\* An injected record is otherwise the same.
LEMMA InjectedForm ==
  ASSUME NEW h \in Cameras, NEW x \in Stored, NEW g, g = Injected(h, x)
  PROVE  /\ g \in Cameras /\ g.view = h.view /\ g.inj /\ g.has = h.has
         /\ g.prev = h.prev /\ g.curr = h.curr /\ g.scratch = x
BY DEF Injected, Cameras

\* What the look is after an R frame: production's, or half way.
CamLerped(e) == CamKnown(e) /\ Live(e) = Mix(e.mod.prev, e.mod.curr)

\* An install shows the view half way between the two known ones.
LEMMA CamInstall ==
  ASSUME NEW t, CamAt(t), t.mod.has => CamKnown(t) /\ t.mod.curr = Truth(t), NEW e, e = Install(t)
  PROVE  /\ CamAt(e) /\ SameModel(e, t) /\ SameView(e, t)
         /\ Live(e) = Truth(e) \/ CamLerped(e)
<1>1. t \in States(Cameras) /\ t.obj \in Objects /\ t.mod \in Cameras
  BY DEF CamAt, States
<1>2. CASE t.mod.view = NoView \/ ~t.mod.has
  <2>1. e = t
    BY <1>2 DEF Install
  <2>2. ~t.mod.inj
    <3>1. t.obj.cur # NoView
      BY <1>1 DEF Objects, Cells, NoView
    <3> QED BY <3>1, <1>2 DEF CamAt
  <2>3. Live(t) = Truth(t)
    BY <2>2, CamOurs
  <2> QED BY <2>1, <2>3 DEF SameModel, SameView
<1>3. CASE ~(t.mod.view = NoView \/ ~t.mod.has)
  <2>1. PICK x, c, m, w : /\ x = Mix(t.mod.prev, t.mod.curr) /\ c = t.obj.cur
                          /\ m = t.obj.mem /\ w = t.obj.wrote
    OBVIOUS
  <2>2. CamKnown(t) /\ t.mod.curr = Truth(t) /\ t.mod.view = c /\ t.obj.tag # 0
    BY <2>1, <1>3 DEF CamKnown
  <2>3. x \in Values /\ x \in Stored
    <3>1. t.mod.prev \in Values /\ t.mod.curr \in Values
      BY <1>3, PlainPair DEF CamAt
    <3> QED BY <3>1, <2>1, MixPair DEF Stored
  <2>4. PICK o, g : o = Filled(t.obj, [m EXCEPT ![c] = x]) /\ g = Injected(t.mod, x)
    OBVIOUS
  <2>5. [m EXCEPT ![c] = x] \in [Cells -> Stored]
    BY <2>1, <2>3, <1>1 DEF Objects
  <2>6. /\ o \in Objects /\ o.mem = [m EXCEPT ![c] = x] /\ o.wrote = w /\ o.cur = c
        /\ o.own = t.obj.own /\ o.tag = t.obj.tag /\ o.new = t.obj.new
    BY <2>1, <2>4, <2>5, <1>1, FilledForm
  <2>7. /\ g \in Cameras /\ g.view = t.mod.view /\ g.inj /\ g.has = t.mod.has
        /\ g.prev = t.mod.prev /\ g.curr = t.mod.curr /\ g.scratch = x
    BY <2>3, <2>4, <1>1, InjectedForm
  <2>8. e = [t EXCEPT !.obj.mem[c] = x, !.mod.scratch = x, !.mod.inj = TRUE]
    BY <2>1, <2>2, <1>3, Zenon DEF Install
  <2>9. [t EXCEPT !.obj.mem[c] = x, !.mod.scratch = x, !.mod.inj = TRUE]
        = [obj |-> Filled(t.obj, [m EXCEPT ![c] = x]), mod |-> Injected(t.mod, x)]
    <3>1. PICK p : p = Put(t, x)
      OBVIOUS
    <3>2. p = [obj |-> Filled(t.obj, [m EXCEPT ![c] = x]), mod |-> t.mod]
      BY <2>1, <3>1, <1>1, PutForm
    <3>3. p \in States(Cameras) /\ p.mod = t.mod /\ p.obj = o
      BY <3>2, <2>4, <2>6, <1>1 DEF States
    <3>4. [p EXCEPT !.mod.scratch = x, !.mod.inj = TRUE] = [p EXCEPT !.mod = Injected(p.mod, x)]
      BY <3>3 DEF Injected, Cameras, States
    <3>5. [p EXCEPT !.mod.scratch = x, !.mod.inj = TRUE] = [obj |-> o, mod |-> Injected(t.mod, x)]
      BY <3>3, <3>4, ModForm
    <3>6. [t EXCEPT !.obj.mem[c] = x, !.mod.scratch = x, !.mod.inj = TRUE]
          = [p EXCEPT !.mod.scratch = x, !.mod.inj = TRUE]
      BY <3>1, <2>1 DEF Put
    <3> QED BY <3>5, <3>6, <2>4
  <2>10. e = [obj |-> o, mod |-> g] /\ e.obj = o /\ e.mod = g
    <3>1. e = [obj |-> o, mod |-> g]
      BY <2>4, <2>8, <2>9, Zenon
    <3> QED BY <3>1
  <2>11. e \in States(Cameras) /\ SameModel(e, t) /\ SameView(e, t)
    BY <2>1, <2>6, <2>7, <2>10 DEF States, SameModel, SameView
  <2>12. Truth(e) = Truth(t)
    BY <2>11, SameTruth
  <2>13. c \in Cells /\ w \in [Cells -> Stored] /\ m \in [Cells -> Stored]
    BY <2>1, <1>1 DEF Objects
  <2>14. o.mem = [w EXCEPT ![c] = x]
    <3>1. CASE t.mod.inj
      <4>1. PICK y : y = t.mod.scratch
        OBVIOUS
      <4>2. m = [w EXCEPT ![c] = y]
        BY <3>1, <4>1, <2>1, Zenon DEF CamAt
      <4> QED BY <4>2, <2>6, <2>13
    <3>2. CASE ~t.mod.inj
      BY <3>2, <2>1, <2>6 DEF CamAt
    <3> QED BY <3>1, <3>2
  <2>15. Live(e) = x
    <3>1. o.mem[c] = x
      BY <2>6, <2>13
    <3> QED BY <3>1, <2>6, <2>10 DEF Live
  <2>16. CamKnown(e)
    BY <2>2, <2>6, <2>7, <2>10, <2>1 DEF CamKnown
  <2>17. CamAt(e)
    <3>1. e.obj.own = "object" /\ Truth(e) \in SeenViews
      BY <2>6, <2>10, <2>12 DEF CamAt
    <3>2. e.mod.has /\ e.mod.curr \in Plains /\ e.mod.prev \in Plains
      BY <2>7, <2>10, <1>3 DEF CamAt
    <3>3. e.mod.inj /\ e.mod.view = e.obj.cur /\ e.obj.tag # 0 /\ e.mod.curr = Truth(e)
      BY <2>2, <2>6, <2>7, <2>10, <2>12
    <3>4. e.mod.scratch = Mix(e.mod.prev, e.mod.curr)
      BY <2>1, <2>7, <2>10
    <3>5. e.obj.mem = [e.obj.wrote EXCEPT ![e.obj.cur] = e.mod.scratch]
      BY <2>6, <2>7, <2>10, <2>14
    <3> QED BY <2>11, <3>1, <3>2, <3>3, <3>4, <3>5, Zenon DEF CamAt
  <2>18. CamLerped(e)
    BY <2>1, <2>7, <2>10, <2>15, <2>16 DEF CamLerped
  <2> QED BY <2>11, <2>17, <2>18
<1> QED BY <1>2, <1>3

\* A record whose cut is taken note of: the view is shown as it is.
CutShown(t) == [(IF t.mod.inj THEN Restored(t) ELSE t) EXCEPT !.mod.cut = FALSE]

\* A cut is shown as production's view.
LEMMA CamShowsCut ==
  ASSUME NEW t, CamAt(t), NEW e, e = CutShown(t)
  PROVE  /\ CamAt(e) /\ SameModel(e, t) /\ SameView(e, t) /\ Live(e) = Truth(e)
<1>1. t \in States(Cameras) /\ t.obj \in Objects /\ t.mod \in Cameras
  BY DEF CamAt, States
<1>2. PICK p : p = IF t.mod.inj THEN Restored(t) ELSE t
  OBVIOUS
<1>3. PICK o, h : o = Filled(t.obj, t.obj.wrote) /\ h = IF t.mod.inj THEN Bared(t.mod) ELSE t.mod
  OBVIOUS
<1>4. /\ h \in Cameras /\ h.view = t.mod.view /\ ~h.inj /\ h.has = t.mod.has
      /\ h.prev = t.mod.prev /\ h.curr = t.mod.curr
  BY <1>1, <1>3, BaredForm
<1>5. o \in Objects
  BY <1>1, <1>3, FilledForm DEF Objects
<1>6. p = [obj |-> o, mod |-> h]
  <2>1. CASE t.mod.inj
    BY <2>1, <1>2, <1>3, CamOurs
  <2>2. CASE ~t.mod.inj
    <3>1. t = [obj |-> t.obj, mod |-> t.mod] /\ Filled(t.obj, t.obj.wrote) = t.obj
      BY <2>2, <1>1, StateEqual, CamOurs
    <3> QED BY <3>1, <2>2, <1>2, <1>3
  <2> QED BY <2>1, <2>2
<1>7. p \in States(Cameras) /\ p.obj = o /\ p.mod = h
  BY <1>4, <1>5, <1>6 DEF States
<1>8. PICK g : g = Uncut(h)
  OBVIOUS
<1>9. /\ g \in Cameras /\ g.view = h.view /\ g.inj = h.inj /\ g.has = h.has
      /\ g.prev = h.prev /\ g.curr = h.curr
  BY <1>4, <1>8, UncutForm
<1>10. [p EXCEPT !.mod.cut = FALSE] = [p EXCEPT !.mod = Uncut(p.mod)]
  BY <1>7 DEF Uncut, Cameras, States
<1>11. e = [p EXCEPT !.mod = g]
  <2>1. e = [p EXCEPT !.mod.cut = FALSE]
    BY <1>2, Zenon DEF CutShown
  <2> QED BY <2>1, <1>7, <1>8, <1>10, Zenon
<1>12. e = [obj |-> Filled(t.obj, t.obj.wrote), mod |-> g]
  BY <1>3, <1>7, <1>11, ModForm
<1>13. ~g.inj /\ (g.has => g.curr \in Plains /\ g.prev \in Plains)
  BY <1>4, <1>9 DEF CamAt
<1>14. CamAt(e) /\ SameModel(e, t) /\ e.mod = g /\ Live(e) = Truth(e)
  BY <1>9, <1>12, <1>13, CamPutBack
<1> QED BY <1>4, <1>9, <1>14 DEF SameView

\* What an R frame's entry makes of the view and its record.
LEMMA CamRForm ==
  ASSUME NEW t, CamAt(t), NEW e, e = CamR(t), NEW sh, NEW ag, NEW lk,
         CamKnows(t, sh, ag, lk)
  PROVE  /\ CamAt(e) /\ SameModel(e, t) /\ CamKnows(e, sh, ag, TRUE)
         /\ Live(e) = Truth(e) \/ CamLerped(e)
<1>1. PICK r : r = CamRframe(t)
  OBVIOUS
<1>2. /\ CamAt(r) /\ SameModel(r, t) /\ CamKnows(r, sh, ag, TRUE)
      /\ r.mod.has => CamKnown(r) /\ r.mod.curr = Truth(r)
  BY <1>1, CamRSeen
<1>3. /\ CamAt(e) /\ SameModel(e, r) /\ SameView(e, r)
      /\ Live(e) = Truth(e) \/ CamLerped(e)
  <2>1. CASE ~r.mod.cut
    <3>1. e = Install(r)
      BY <2>1, <1>1, Zenon DEF CamR
    <3> QED BY <3>1, <1>2, CamInstall
  <2>2. CASE r.mod.cut
    <3>1. e = CutShown(r)
      BY <2>2, <1>1, Zenon DEF CamR, CutShown
    <3> QED BY <3>1, <1>2, CamShowsCut
  <2> QED BY <2>1, <2>2
<1>4. CamKnows(e, sh, ag, TRUE)
  BY <1>2, <1>3, CamCarries
<1>5. SameModel(e, t)
  BY <1>2, <1>3 DEF SameModel
<1> QED BY <1>3, <1>4, <1>5

\* A reset restores and forgets.
LEMMA CamResetForm ==
  ASSUME NEW t, CamAt(t), NEW e, e = CamReset(t)
  PROVE  /\ CamAt(e) /\ SameModel(e, t) /\ ~e.mod.inj /\ ~e.mod.has /\ e.obj.mem = e.obj.wrote
<1>1. t \in States(Cameras) /\ t.obj \in Objects /\ t.mod \in Cameras
  BY DEF CamAt, States
<1>2. t.mod.inj <=> t.mod.inj /\ t.obj.tag # 0 /\ t.mod.view = t.obj.cur
  BY DEF CamAt
<1>3. PICK p : p = IF t.mod.inj THEN Restored(t) ELSE t
  OBVIOUS
<1>4. PICK o, h : o = Filled(t.obj, t.obj.wrote) /\ h = IF t.mod.inj THEN Bared(t.mod) ELSE t.mod
  OBVIOUS
<1>5. h \in Cameras /\ o \in Objects
  <2>1. h \in Cameras
    BY <1>1, <1>4, BaredForm
  <2>2. o \in Objects
    BY <1>1, <1>4, FilledForm DEF Objects
  <2> QED BY <2>1, <2>2
<1>6. p = [obj |-> o, mod |-> h]
  <2>1. CASE t.mod.inj
    BY <2>1, <1>3, <1>4, CamOurs
  <2>2. CASE ~t.mod.inj
    <3>1. t = [obj |-> t.obj, mod |-> t.mod] /\ Filled(t.obj, t.obj.wrote) = t.obj
      BY <2>2, <1>1, StateEqual, CamOurs
    <3> QED BY <3>1, <2>2, <1>3, <1>4
  <2> QED BY <2>1, <2>2
<1>7. p \in States(Cameras) /\ p.obj = o /\ p.mod = h
  BY <1>5, <1>6 DEF States
<1>8. PICK g : g = Viewing(h, NoView, FALSE)
  OBVIOUS
<1>9. g \in Cameras /\ ~g.inj /\ ~g.has
  <2>1. NoView \in 0..2
    BY DEF NoView
  <2> QED BY <2>1, <1>5, <1>8, ViewingForm
<1>10. [p EXCEPT !.mod.view = NoView, !.mod.has = FALSE, !.mod.inj = FALSE, !.mod.cut = FALSE]
       = [p EXCEPT !.mod = Viewing(p.mod, NoView, FALSE)]
  BY <1>7 DEF Viewing, Cameras, States
<1>11. e = [p EXCEPT !.mod = g]
  <2>1. e = [p EXCEPT !.mod.view = NoView, !.mod.has = FALSE, !.mod.inj = FALSE, !.mod.cut = FALSE]
    BY <1>2, <1>3, Zenon DEF CamReset
  <2> QED BY <2>1, <1>7, <1>8, <1>10, Zenon
<1>12. e = [obj |-> Filled(t.obj, t.obj.wrote), mod |-> g]
  BY <1>4, <1>7, <1>11, ModForm
<1>13. CamAt(e) /\ SameModel(e, t) /\ e.mod = g /\ e.obj.mem = t.obj.wrote
  BY <1>9, <1>12, CamPutBack
<1> QED BY <1>9, <1>13 DEF SameModel

\* For the camera, what Painter's entry is by the kind of frame.
LEMMA CamEntry ==
  ASSUME tracked = "camera", NEW b
  PROVE  /\ LframeOf(b) = {CamL(b)} /\ (\A c : RframeOf(b, c) = {CamR(b)})
         /\ DupOf(b) = b /\ ResetOf(b) = CamReset(b) /\ ProducedBy(b) = CamProduced(b)
<1>1. LframeOf(b) = {CamL(b)}
  BY DEF LframeOf, PoseKinds, ClothKinds
<1>2. \A c : RframeOf(b, c) = {CamR(b)}
  BY DEF RframeOf, PoseKinds, ClothKinds
<1>3. DupOf(b) = b
  BY DEF DupOf
<1>4. ResetOf(b) = CamReset(b)
  BY DEF ResetOf, PoseKinds, ClothKinds
<1>5. ProducedBy(b) = CamProduced(b)
  BY DEF ProducedBy, PoseKinds, ClothKinds
<1> QED BY <1>1, <1>2, <1>3, <1>4, <1>5

\* What a Painter's entry makes of the view and its record.
LEMMA CamPainted ==
  ASSUME Turns, CamInv, tracked = "camera", turn = "painter", NEW f, Playable(f),
         NEW e \in EntryOf(Begun(f), f)
  PROVE  /\ CamAt(e)
         /\ f.class = "L" =>
              /\ ~e.mod.inj /\ (~f.split => ~e.mod.has)
              /\ e.mod.has => CamKnown(e)
              /\ CamKnown(e) => /\ e.mod.curr = Truth(e)
                                /\ e.mod.prev # e.mod.curr => ~(splitMode /\ looked)
         /\ f.class = "R" /\ f.dup => CamKnows(e, shown, again, looked)
         /\ f.class = "R" /\ ~f.dup =>
              /\ CamKnows(e, shown, again, TRUE)
              /\ Live(e) = Truth(e) \/ CamLerped(e)
<1>1. /\ f \in Frames /\ (f.class = "R" => f.split /\ splitMode) /\ (f.class # "R" => f.class = "L")
      /\ f.dup => f.class = "R"
  BY DEF Playable, Frames
<1>2. /\ CamAt(state) /\ (splitMode => CamKnows(state, shown, again, looked))
      /\ ~splitMode => ~state.mod.inj /\ ~state.mod.has
      /\ state.mod = mod
  BY StateForm DEF CamInv
<1>3. tracked \in SeenKinds
  BY DEF SeenKinds
<1>4. PICK b : b = Begun(f)
  OBVIOUS
<1>5. /\ CamAt(b) /\ ((f.split <=> splitMode) => b = state) /\ (~f.split => ~b.mod.inj /\ ~b.mod.has)
      /\ ~(f.split <=> splitMode) => ~b.mod.has
  <2>1. CASE f.split <=> splitMode
    BY <2>1, <1>2, <1>4 DEF Begun
  <2>2. CASE ~(f.split <=> splitMode)
    <3>1. b = CamReset(state)
      BY <2>2, <1>1, <1>4, CamEntry DEF Begun
    <3>2. CamAt(b) /\ ~b.mod.inj /\ ~b.mod.has
      BY <3>1, <1>2, CamResetForm
    <3> QED BY <3>2, <2>2, <1>1
  <2> QED BY <2>1, <2>2
<1>6. /\ ~f.split => e = b
      /\ f.split /\ f.class = "L" => e = CamL(b)
      /\ f.dup => e = b
      /\ f.class = "R" /\ ~f.dup => e = CamR(b)
  <2>1. /\ ~f.split => e = b
        /\ f.split /\ f.class = "L" => e \in LframeOf(b)
        /\ f.split /\ f.class = "R" /\ f.dup => e = DupOf(b)
        /\ f.split /\ f.class = "R" /\ ~f.dup => e \in RframeOf(b, f.cut)
    BY <1>1, <1>3, <1>4, SeenEntry
  <2> QED BY <2>1, <1>1, CamEntry
<1>7. CASE f.class = "L" /\ ~f.split
  <2>1. e = b /\ ~e.mod.has
    BY <1>5, <1>6, <1>7
  <2>2. ~CamKnown(e)
    BY <2>1 DEF CamKnown
  <2> QED BY <2>1, <2>2, <1>5, <1>7
<1>8. CASE f.class = "L" /\ f.split
  <2>1. /\ CamAt(e) /\ ~e.mod.inj
        /\ e.mod.has => CamKnown(e)
        /\ CamKnown(e) => /\ e.mod.curr = Truth(e)
                          /\ e.mod.prev # e.mod.curr => CamKnown(b) /\ b.mod.curr # Truth(b)
    BY <1>5, <1>6, <1>8, CamLForm
  <2>2. ASSUME CamKnown(e), e.mod.prev # e.mod.curr, splitMode, looked
        PROVE  FALSE
    <3>1. b = state /\ CamKnows(state, shown, again, looked)
      BY <2>2, <1>2, <1>5, <1>8
    <3>2. CamKnown(state) /\ state.mod.curr # Truth(state)
      BY <3>1, <2>1, <2>2
    <3> QED BY <3>1, <3>2, <2>2 DEF CamKnows
  <2> QED BY <2>1, <2>2, <1>8
<1>9. CASE f.class = "R"
  <2>1. f.split /\ splitMode /\ b = state /\ CamKnows(state, shown, again, looked)
    BY <1>1, <1>2, <1>5, <1>9
  <2>2. CASE f.dup
    BY <2>1, <2>2, <1>2, <1>6, <1>9
  <2>3. CASE ~f.dup
    <3>1. PICK sh, ag, lk : sh = shown /\ ag = again /\ lk = looked
      OBVIOUS
    <3>2. e = CamR(state) /\ CamAt(state) /\ CamKnows(state, sh, ag, lk)
      BY <2>1, <2>3, <3>1, <1>2, <1>6, <1>9
    <3>3. CamAt(e) /\ CamKnows(e, sh, ag, TRUE) /\ (Live(e) = Truth(e) \/ CamLerped(e))
      BY <3>2, CamRForm
    <3> QED BY <3>1, <3>3, <2>3, <1>9
  <2> QED BY <2>2, <2>3
<1> QED BY <1>1, <1>7, <1>8, <1>9

-----------------------------------------------------------------------------
(* The camera history: every step.                                         *)

\* Every Painter keeps the invariant of the camera history, and the promises.
LEMMA CamPaint ==
  ASSUME Turns, CamInv, tracked = "camera", shown \in Plains \cup {Nothing, Plain(Alien)}, Paints
  PROVE  /\ obj' \in Objects /\ mod' \in Cameras
         /\ drawn' \in Values \cup {Nothing, Plain(Alien)}
         /\ shown' \in Plains \cup {Nothing, Plain(Alien)}
         /\ CamInv' /\ LogicSeesTruth' /\ ForeignUntouched' /\ RFrameInterpolates'
<1>1. /\ tracked \in SeenKinds /\ tracked \notin ClothKinds /\ tracked \notin {"fader", "pre", "post"}
      /\ tracked \notin PoseKinds
  BY DEF SeenKinds, PoseKinds, ClothKinds
<1>0. turn = "painter"
  BY DEF Paints, PaintUnsplit, PaintEngage, PaintL, PaintR, PaintDup, Painted
<1>2. \A f : Playable(f) => \A s \in EntryOf(Begun(f), f) : s \in States(Cameras)
  BY <1>0, CamPainted DEF CamAt
<1>3. PICK f : \E s \in EntryOf(Begun(f), f) : Shown(s, f) /\ state' \in States(Cameras)
  BY <1>1, <1>2, SeenPaint
<1>4. PICK s \in EntryOf(Begun(f), f) : Shown(s, f) /\ state' \in States(Cameras)
  BY <1>3
<1>5. /\ CamAt(s)
      /\ f.class = "L" =>
           /\ ~s.mod.inj /\ (~f.split => ~s.mod.has)
           /\ s.mod.has => CamKnown(s)
           /\ CamKnown(s) => /\ s.mod.curr = Truth(s)
                             /\ s.mod.prev # s.mod.curr => ~(splitMode /\ looked)
      /\ f.class = "R" /\ f.dup => CamKnows(s, shown, again, looked)
      /\ f.class = "R" /\ ~f.dup =>
           /\ CamKnows(s, shown, again, TRUE)
           /\ Live(s) = Truth(s) \/ CamLerped(s)
  <2>1. Playable(f)
    BY <1>4 DEF Shown
  <2> QED BY <2>1, <1>0, <1>4, CamPainted
<1>6. /\ drawn' = (IF ~Owned(s) \/ f.dup THEN Nothing ELSE Live(s))
      /\ shown' = (IF f.class = "L" /\ drawn' # Nothing THEN drawn' ELSE shown)
      /\ mod' = s.mod /\ obj' \in Objects /\ state'.obj = obj' /\ state'.mod = mod'
      /\ obj'.mem = s.obj.mem /\ obj'.wrote = s.obj.wrote /\ obj'.cur = s.obj.cur
      /\ obj'.own = s.obj.own /\ obj'.tag = s.obj.tag
      /\ Live(state') = Live(s) /\ Truth(state') = Truth(s) /\ LastMade' = Truth(s)
      /\ (Owned(state') <=> Owned(s))
  BY <1>4, Zenon DEF Shown
<1>7. obj'.new <=> s.obj.new /\ ~(f.class = "L" /\ drawn' # Nothing)
  BY <1>4, Zenon DEF Shown
<1>8. /\ turn' = (IF f.class = "L" THEN "produce" ELSE "painter") /\ tracked' = tracked
      /\ frameClass' = f.class /\ rDup' = f.dup /\ f.class \in {"L", "R"} /\ f.dup \in BOOLEAN
      /\ splitMode' = f.split /\ (f.class = "R" => f.split) /\ (f.dup => f.class = "R")
  BY <1>4 DEF Shown, PacedBy, Playable, Frames
<1>81. /\ f.class = "R" => (again' <=> again)
       /\ f.dup => looked' = looked
       /\ f.class = "R" /\ ~f.dup => looked'
       /\ f.class = "L" => ~looked' /\ (again' <=> f.split /\ ~(splitMode /\ looked))
  BY <1>1, <1>4 DEF Shown, PacedBy
<1>9. CamAt(state') /\ (CamKnown(state') <=> CamKnown(s))
  BY <1>4, <1>5, <1>6 DEF CamAt, CamKnown
<1>10. /\ Nothing \notin Plains /\ Plains \subseteq Values /\ Plain(Alien) # Nothing
       /\ Owned(s) /\ Truth(s) \in Plains \cup {Plain(Alien)}
  <2>1. Plain(Alien) # Nothing
    BY PairNotNothing DEF Plain, Nothing
  <2> QED BY <2>1, <1>5, PlainPair DEF CamAt, SeenViews, Owned
<1>11. ~s.mod.inj => Live(s) = Truth(s) /\ s.obj.mem = s.obj.wrote
  BY <1>5 DEF CamAt, Live, Truth
<1>12. CASE f.class = "L"
  <2>1. ~s.mod.inj /\ Live(s) = Truth(s) /\ ~f.dup /\ s.obj.mem = s.obj.wrote
    BY <1>5, <1>8, <1>11, <1>12
  <2>2. drawn' = Truth(s) /\ shown' = drawn' /\ ~obj'.new
    <3>1. drawn' = Truth(s) /\ drawn' # Nothing
      BY <2>1, <1>6, <1>10
    <3> QED BY <3>1, <1>6, <1>7, <1>12
  <2>4. CamKnows(state', shown', again', looked')
    <3>1. SUFFICES ASSUME CamKnown(s)
                   PROVE  mod'.curr = shown' /\ ~obj'.new /\ (mod'.prev # mod'.curr => again') /\ ~looked'
      BY <1>6, <1>9, <1>81, <1>12, Zenon DEF CamKnows
    <3>2. /\ s.mod.curr = Truth(s) /\ s.mod.has
          /\ s.mod.prev # s.mod.curr => ~(splitMode /\ looked)
      BY <3>1, <1>5, <1>12 DEF CamKnown
    <3>3. mod'.curr = shown' /\ ~obj'.new
      BY <3>2, <2>2, <1>6
    <3>4. mod'.prev # mod'.curr => again'
      BY <3>2, <1>5, <1>6, <1>81, <1>12, Zenon
    <3> QED BY <3>3, <3>4, <1>81, <1>12
  <2>5. CamInv'
    <3>1. ~mod'.inj /\ (~splitMode' => ~mod'.has) /\ (mod'.has => CamKnown(state'))
      BY <2>1, <1>5, <1>6, <1>8, <1>9, <1>12
    <3> QED BY <3>1, <2>4, <1>9 DEF CamInv
  <2>6. LogicSeesTruth'
    <3>1. obj'.mem = obj'.wrote
      BY <2>1, <1>6
    <3> QED BY <3>1, <2>1, <2>2, <1>6 DEF LogicSeesTruth
  <2>7. ForeignUntouched' /\ RFrameInterpolates'
    <3>1. obj'.mem = obj'.wrote /\ frameClass' # "R"
      BY <2>1, <1>6, <1>8, <1>12
    <3> QED BY <3>1, <1>6 DEF ForeignUntouched, RFrameInterpolates
  <2>8. /\ drawn' \in Values \cup {Nothing, Plain(Alien)}
        /\ shown' \in Plains \cup {Nothing, Plain(Alien)}
    BY <2>2, <1>10
  <2>9. obj' \in Objects /\ mod' \in Cameras
    BY <1>4, <1>6 DEF States
  <2> QED BY <2>5, <2>6, <2>7, <2>8, <2>9
<1>13. CASE f.class = "R"
  <2>1. shown' = shown /\ (obj'.new <=> s.obj.new) /\ turn' = "painter" /\ splitMode' /\ (again' <=> again)
    <3>1. f.class # "L"
      BY <1>13
    <3>2. f.split = TRUE
      BY <1>8, <1>13, <1>4 DEF Shown, Playable, Frames
    <3> QED BY <3>1, <3>2, <1>6, <1>7, <1>8, <1>81, <1>13
  <2>2. CamKnows(s, shown, again, looked')
    <3>1. CASE f.dup
      BY <3>1, <1>5, <1>13, <1>81
    <3>2. CASE ~f.dup
      <4>1. looked'
        BY <3>2, <1>81, <1>13
      <4> QED BY <4>1, <3>2, <1>5, <1>13 DEF CamKnows
    <3> QED BY <3>1, <3>2
  <2>3. CamKnows(state', shown', again', looked')
    BY <2>1, <2>2, <1>6, <1>9 DEF CamKnows
  <2>4. CamInv'
    BY <2>1, <2>3, <1>8, <1>9 DEF CamInv
  <2>5. ASSUME ~f.dup
        PROVE  /\ drawn' = LastMade' \/ Between(drawn)' \/ Lagging(drawn)'
               /\ drawn' \in Values \cup {Plain(Alien)}
    <3>1. drawn' = Live(s)
      BY <2>5, <1>6, <1>10
    <3>2. CASE Live(s) = Truth(s)
      BY <3>1, <3>2, <1>6, <1>10
    <3>3. CASE CamLerped(s)
      <4>1. PICK p, c : p = s.mod.prev /\ c = s.mod.curr
        OBVIOUS
      <4>2. /\ p \in Plains /\ c \in Plains /\ drawn' = Mix(p, c) /\ c = Truth(s)
            /\ \/ p = c
               \/ p = shown /\ ~s.obj.new /\ shown \in Plains /\ ~Far(p, c)
               \/ shown = c /\ again
        <5>1. /\ CamKnown(s) /\ s.mod.has /\ drawn' = Mix(p, c)
              /\ CamKnows(s, shown, again, TRUE)
          BY <2>5, <3>1, <3>3, <4>1, <1>5, <1>13 DEF CamLerped, CamKnown
        <5>2. p \in Plains /\ c \in Plains
          BY <5>1, <4>1, <1>5 DEF CamAt
        <5> QED BY <5>1, <5>2, <4>1 DEF CamKnows
      <4>3. drawn' \in Values
        BY <4>2, <1>10, MixPair
      <4>4. CASE p = shown /\ ~s.obj.new /\ shown \in Plains /\ ~Far(p, c)
        <5>1. Between(drawn)'
          BY <4>2, <4>4, <2>1, <1>6, <1>10 DEF Between
        <5> QED BY <5>1, <4>3
      <4>5. CASE shown = c /\ again
        <5>1. drawn'[2] = c[2]
          BY <4>2, <1>10, MixOf
        <5>2. Lagging(drawn)'
          BY <5>1, <4>2, <4>5, <2>1, <1>6, <1>8 DEF Lagging
        <5> QED BY <5>2, <4>3
      <4>6. CASE p = c
        <5>1. drawn' = c
          BY <4>2, <4>6, <1>10, MixOf
        <5> QED BY <5>1, <4>2, <4>3, <1>6
      <4> QED BY <4>2, <4>4, <4>5, <4>6
    <3> QED BY <2>5, <3>2, <3>3, <1>5, <1>13
  <2>6. RFrameInterpolates'
    <3>1. tracked' = "camera"
      BY <1>8
    <3>2. ~rDup' => drawn' = LastMade' \/ Between(drawn)' \/ Lagging(drawn)'
      BY <2>5, <1>8
    <3> QED BY <3>1, <3>2 DEF RFrameInterpolates
  <2>7. drawn' \in Values \cup {Nothing, Plain(Alien)}
    <3>1. f.dup => drawn' = Nothing
      BY <1>6
    <3> QED BY <2>5, <3>1
  <2>8. LogicSeesTruth'
    BY <2>1 DEF LogicSeesTruth
  <2>9. ForeignUntouched'
    BY <1>6, <1>10 DEF ForeignUntouched
  <2>10. obj' \in Objects /\ mod' \in Cameras
    BY <1>4, <1>6 DEF States
  <2> QED BY <2>1, <2>4, <2>6, <2>7, <2>8, <2>9, <2>10
<1> QED BY <1>8, <1>12, <1>13

\* What production can make of the view.
LEMMA CamMakes ==
  ASSUME NEW s, NEW p \in CamProduced(s)
  PROVE  \/ p = [s EXCEPT !.obj.tag = 0] \/ p = [s EXCEPT !.obj.tag = 1]
         \/ \E c \in Cells : \E v \in Looks \cup {Alien} : p = [s EXCEPT !.obj = Viewed(s.obj, c, Plain(v))]
BY DEF CamProduced

\* The view c, moved to x.
ViewedOf(q, o, c, x) ==
  /\ q \in Objects /\ q.mem = [o.mem EXCEPT ![c] = x] /\ q.wrote = [o.wrote EXCEPT ![c] = x]
  /\ q.cur = c /\ q.own = o.own /\ q.tag = 1
  /\ c = o.cur => q.new = o.new

\* A view that is moved is written and current.
LEMMA ViewedForm ==
  ASSUME NEW o \in Objects, NEW c \in Cells, NEW x \in Stored, NEW q, q = Viewed(o, c, x)
  PROVE  ViewedOf(q, o, c, x)
<1>1. PICK w : w = Wrote(o, c, x)
  OBVIOUS
<1>2. /\ w \in Objects /\ w.mem = [o.mem EXCEPT ![c] = x] /\ w.wrote = [o.wrote EXCEPT ![c] = x]
      /\ w.cur = c /\ w.own = o.own /\ w.new = o.new
  BY <1>1, WroteForm
<1>3. PICK n \in BOOLEAN : n <=> w.new \/ c # o.cur
  BY Zenon
<1>4. (w.new \/ c # o.cur) = n
  BY <1>3
<1>5. q = [w EXCEPT !.tag = 1, !.new = n]
  BY <1>1, <1>4 DEF Viewed
<1>6. /\ q \in Objects /\ q.mem = w.mem /\ q.wrote = w.wrote /\ q.cur = w.cur /\ q.own = w.own
      /\ q.tag = 1 /\ q.new = n
  <2>1. PICK r : r = [w EXCEPT !.tag = 1]
    OBVIOUS
  <2>2. /\ r \in Objects /\ r.mem = w.mem /\ r.wrote = w.wrote /\ r.cur = w.cur
        /\ r.own = w.own /\ r.tag = 1
    BY <1>2, <2>1 DEF Objects
  <2>3. q = [r EXCEPT !.new = n]
    BY <1>5, <2>1
  <2> QED BY <2>2, <2>3, <1>3, AgedForm
<1>7. c = o.cur => n = o.new
  <2>1. o.new \in BOOLEAN
    BY DEF Objects
  <2> QED BY <2>1, <1>2, <1>3
<1> QED BY <1>2, <1>6, <1>7 DEF ViewedOf

\* What a production leaves of a view: what the mod knew of it, or another one.
CamMade(p, t) ==
  /\ CamAt(p) /\ p.mod = t.mod
  /\ CamKnown(p) => CamKnown(t) /\ p.obj.new = t.obj.new

\* Whatever production does, the record knows what it knew, or nothing of the view.
LEMMA CamMade0 ==
  ASSUME NEW t, CamAt(t), ~t.mod.inj, t.mod.has => CamKnown(t), NEW p \in CamProduced(t)
  PROVE  CamMade(p, t)
<1>1. t \in States(Cameras) /\ t.obj \in Objects /\ t.mod \in Cameras /\ t.obj.mem = t.obj.wrote
  BY DEF CamAt, States
<1>2. ASSUME NEW g \in 0..2, p = [t EXCEPT !.obj.tag = g]
      PROVE  CamMade(p, t)
  <2>1. /\ p \in States(Cameras) /\ p.mod = t.mod /\ p.obj.mem = t.obj.mem /\ p.obj.wrote = t.obj.wrote
        /\ p.obj.cur = t.obj.cur /\ p.obj.own = t.obj.own /\ p.obj.tag = g
        /\ p.obj.age = t.obj.age /\ (p.obj.new = t.obj.new)
    BY <1>1, <1>2, TagForm
  <2>2. Truth(p) = Truth(t)
    BY <2>1 DEF Truth
  <2>3. CamAt(p)
    BY <2>1, <2>2, <1>1 DEF CamAt
  <2> QED BY <2>1, <2>3 DEF CamMade, CamKnown
<1>3. ASSUME NEW c \in Cells, NEW v \in Looks \cup {Alien}, p = [t EXCEPT !.obj = Viewed(t.obj, c, Plain(v))]
      PROVE  CamMade(p, t)
  <2>1. PICK x, q : x = Plain(v) /\ q = Viewed(t.obj, c, x)
    OBVIOUS
  <2>2. x \in SeenViews /\ x \in Stored
    <3>1. CASE v \in Looks
      <4>1. x \in Plains
        BY <2>1, <3>1 DEF Plains
      <4> QED BY <4>1, PlainPair DEF SeenViews
    <3>2. CASE v = Alien
      BY <2>1, <3>2 DEF SeenViews, Stored
    <3> QED BY <3>1, <3>2, <1>3
  <2>3. ViewedOf(q, t.obj, c, x)
    BY <2>1, <2>2, <1>1, ViewedForm
  <2>4. p = [obj |-> q, mod |-> t.mod] /\ p.obj = q /\ p.mod = t.mod
    <3>1. p = [t EXCEPT !.obj = q]
      BY <2>1, <1>3
    <3> QED BY <3>1, <1>1, ObjectForm
  <2>5. /\ p \in States(Cameras) /\ p.obj.own = "object" /\ p.obj.cur = c
        /\ p.obj.mem = p.obj.wrote /\ p.obj.tag = 1
        /\ c = t.obj.cur => p.obj.new = t.obj.new
    BY <2>3, <2>4, <1>1 DEF ViewedOf, States, CamAt
  <2>6. Truth(p) = x
    <3>1. p.obj.wrote[c] = x
      BY <2>3, <2>4, <1>1 DEF ViewedOf, Objects
    <3> QED BY <3>1, <2>5 DEF Truth
  <2>7. CamAt(p)
    BY <2>2, <2>4, <2>5, <2>6 DEF CamAt
  <2>8. CamKnown(p) => CamKnown(t) /\ p.obj.new = t.obj.new
    BY <2>4, <2>5 DEF CamKnown
  <2> QED BY <2>4, <2>7, <2>8 DEF CamMade
<1> QED BY <1>2, <1>3, CamMakes

\* Production keeps the invariant of the camera history.
LEMMA CamProduce ==
  ASSUME Turns, CamInv, tracked = "camera", ProduceObject
  PROVE  obj' \in Objects /\ mod' \in Cameras /\ CamInv' /\ ForeignUntouched'
<1>0. /\ turn = "produce" /\ turn' = "painter" /\ shown' = shown /\ tracked' = tracked
      /\ splitMode' = splitMode /\ ~looked /\ looked' = looked /\ again' = again
  BY ProduceFrame
<1>1. /\ CamAt(state) /\ ~state.mod.inj /\ (~splitMode => ~state.mod.has)
      /\ splitMode => CamKnows(state, shown, again, looked)
      /\ state.mod.has => CamKnown(state)
  BY <1>0, StateForm DEF CamInv
<1>2. PICK p \in CamProduced(state) : obj' = p.obj /\ mod' = p.mod
  BY ProduceFrame, CamEntry
<1>3. CamMade(p, state)
  BY <1>1, <1>2, CamMade0
<1>4. CamAt(p) /\ p.mod = state.mod /\ ~p.mod.inj
  BY <1>1, <1>3 DEF CamMade
<1>5. state' = p
  <2>1. p = [obj |-> p.obj, mod |-> p.mod]
    BY <1>4, StateEqual DEF CamAt
  <2> QED BY <2>1, <1>2, ProduceFrame
<1>6. splitMode => CamKnows(p, shown, again, looked)
  <2>1. SUFFICES ASSUME splitMode, CamKnown(p)
                 PROVE  p.mod.curr = shown /\ ~p.obj.new /\ (p.mod.prev # p.mod.curr => again)
    BY <1>0 DEF CamKnows
  <2>2. CamKnown(state) /\ p.mod = state.mod /\ p.obj.new = state.obj.new
    BY <2>1, <1>3 DEF CamMade
  <2> QED BY <2>1, <2>2, <1>0, <1>1 DEF CamKnows
<1>7. CamInv'
  <2>1. /\ CamAt(state') /\ ~mod'.inj /\ (splitMode => CamKnows(state', shown, again, looked))
        /\ ~splitMode => ~mod'.has
    BY <1>1, <1>2, <1>4, <1>5, <1>6
  <2> QED BY <2>1, <1>0 DEF CamInv
<1>8. obj' \in Objects /\ mod' \in Cameras
  BY <1>2, <1>4 DEF CamAt, States
<1>9. ForeignUntouched'
  <2>1. obj'.mem = obj'.wrote
    BY <1>2, <1>4 DEF CamAt
  <2> QED BY <2>1 DEF ForeignUntouched
<1> QED BY <1>7, <1>8, <1>9

\* The camera's record begins empty.
LEMMA CamInit0 ==
  ASSUME NEW v \in Looks
  PROVE  CamAt(CamInit(v)) /\ ~CamInit(v).mod.inj /\ ~CamInit(v).mod.has
<1>1. PICK q, p, h : q = Fresh(v) /\ p = CamInit(v) /\ h = NoCamera
  OBVIOUS
<1>2. p = [obj |-> q, mod |-> h] /\ p.obj = q /\ p.mod = h
  BY <1>1 DEF CamInit
<1>3. /\ q \in Objects /\ q.mem = q.wrote /\ q.mem = [c \in Cells |-> Plain(v)] /\ q.own = "object"
      /\ Plain(v) \in Plains /\ q.cur = 0
  BY <1>1, FreshForm
<1>4. h \in Cameras /\ ~h.inj /\ ~h.has
  BY <1>1 DEF NoCamera, Cameras, Stored, NoView
<1>5. p \in States(Cameras)
  BY <1>2, <1>3, <1>4 DEF States
<1>6. Truth(p) \in SeenViews
  <2>1. q.wrote[0] = Plain(v)
    BY <1>3 DEF Cells
  <2> QED BY <2>1, <1>2, <1>3 DEF Truth, SeenViews
<1>7. CamAt(p)
  <2>1. p.obj.own = "object" /\ p.obj.mem = p.obj.wrote
    BY <1>2, <1>3, Zenon
  <2> QED BY <2>1, <1>2, <1>4, <1>5, <1>6, Zenon DEF CamAt
<1> QED BY <1>1, <1>2, <1>4, <1>7

-----------------------------------------------------------------------------
(* The invariant of the interpolation, and its theorems.                   *)

\* The inductive invariant of the interpolation.
InterpInv ==
  /\ Turns /\ InterpTypeOK
  /\ PoseInv /\ CamInv /\ WindowInv /\ FaderInv /\ StepperInv /\ JpaInv /\ TexInv /\ ClothInv
  /\ LogicSeesTruth /\ ForeignUntouched /\ RFrameInterpolates

\* Every kind is of one family.
LEMMA Families ==
  ASSUME tracked \in Kinds
  PROVE  \/ tracked \in PoseKinds \/ tracked = "camera" \/ tracked \in WindowKinds
         \/ tracked = "fader" \/ tracked \in StepperKinds \/ tracked \in JpaKinds
         \/ tracked = "texanim" \/ tracked \in ClothKinds
BY KindsAssumption DEF AllKinds, WindowKinds, StepperKinds, JpaKinds

\* The records of each family.
LEMMA FamilyMods ==
  /\ tracked \in PoseKinds    => Mods = Slots
  /\ tracked = "camera"       => Mods = Cameras
  /\ tracked \in WindowKinds  => Mods = Windows
  /\ tracked = "fader"        => Mods = Faders
  /\ tracked \in StepperKinds => Mods = Snapshots
  /\ tracked \in JpaKinds     => Mods = Entries
  /\ tracked = "texanim"      => Mods = Records
  /\ tracked \in ClothKinds   => Mods = Flips
<1>1. tracked \in PoseKinds => Mods = Slots
  BY DEF Mods, PoseKinds
<1>2. tracked = "camera" => Mods = Cameras
  BY DEF Mods, PoseKinds
<1>3. tracked \in WindowKinds => Mods = Windows
  BY DEF Mods, PoseKinds, WindowKinds
<1>4. tracked = "fader" => Mods = Faders
  BY DEF Mods, PoseKinds
<1>5. tracked \in StepperKinds => Mods = Snapshots
  BY DEF Mods, PoseKinds, StepperKinds
<1>6. tracked \in JpaKinds => Mods = Entries
  BY DEF Mods, PoseKinds, JpaKinds
<1>7. tracked = "texanim" => Mods = Records
  BY DEF Mods, PoseKinds
<1>8. tracked \in ClothKinds => Mods = Flips
  BY DEF Mods, PoseKinds, ClothKinds
<1> QED BY <1>1, <1>2, <1>3, <1>4, <1>5, <1>6, <1>7, <1>8

\* A kind belongs to one family, and the invariants of the others say nothing of it.
OneFamily ==
  /\ tracked \in PoseKinds /\ PoseInv =>
       CamInv /\ WindowInv /\ FaderInv /\ StepperInv /\ JpaInv /\ TexInv /\ ClothInv
  /\ tracked = "camera" /\ CamInv =>
       PoseInv /\ WindowInv /\ FaderInv /\ StepperInv /\ JpaInv /\ TexInv /\ ClothInv
  /\ tracked \in WindowKinds /\ WindowInv =>
       PoseInv /\ CamInv /\ FaderInv /\ StepperInv /\ JpaInv /\ TexInv /\ ClothInv
  /\ tracked = "fader" /\ FaderInv =>
       PoseInv /\ CamInv /\ WindowInv /\ StepperInv /\ JpaInv /\ TexInv /\ ClothInv
  /\ tracked \in StepperKinds /\ StepperInv =>
       PoseInv /\ CamInv /\ WindowInv /\ FaderInv /\ JpaInv /\ TexInv /\ ClothInv
  /\ tracked \in JpaKinds /\ JpaInv =>
       PoseInv /\ CamInv /\ WindowInv /\ FaderInv /\ StepperInv /\ TexInv /\ ClothInv
  /\ tracked = "texanim" /\ TexInv =>
       PoseInv /\ CamInv /\ WindowInv /\ FaderInv /\ StepperInv /\ JpaInv /\ ClothInv
  /\ tracked \in ClothKinds /\ ClothInv =>
       PoseInv /\ CamInv /\ WindowInv /\ FaderInv /\ StepperInv /\ JpaInv /\ TexInv

\* The families exclude each other.
LEMMA FamilyInvs == OneFamily
BY DEF OneFamily, PoseInv, CamInv, WindowInv, FaderInv, StepperInv, JpaInv, TexInv, ClothInv,
       PoseKinds, WindowKinds, StepperKinds, JpaKinds, ClothKinds

\* Every Painter keeps the frame's own invariant.
LEMMA PaintTurns ==
  ASSUME Turns, Paints
  PROVE  Turns' /\ tracked' = tracked
<1>1. PICK f \in Frames : \E b :
           /\ Painted(f, b)
           /\ f.class = "L" => ~looked'
           /\ camCut' \in BOOLEAN /\ cut' \in BOOLEAN /\ unseen' \in BOOLEAN
           /\ looked' \in BOOLEAN /\ again' \in BOOLEAN
  BY PaintFrame
<1>2. /\ splitMode' = f.split /\ frameClass' = f.class /\ rDup' = f.dup /\ tracked' = tracked
      /\ turn' = IF f.class = "L" THEN "produce" ELSE "painter"
  BY <1>1 DEF Painted
<1>3. f.split \in BOOLEAN /\ f.class \in {"L", "R"} /\ f.dup \in BOOLEAN
  BY DEF Frames
<1> QED BY <1>1, <1>2, <1>3 DEF Turns

\* Every Painter keeps the invariant, whatever the mechanism.
LEMMA InterpPaintKeeps ==
  ASSUME InterpInv, Paints
  PROVE  InterpInv'
<1>1. Turns' /\ tracked' = tracked /\ Turns
  BY PaintTurns DEF InterpInv
<1>2. tracked \in Kinds /\ shown \in Plains \cup {Nothing, Plain(Alien)}
  BY DEF InterpInv, InterpTypeOK
<1>3. /\ PoseInv /\ CamInv /\ WindowInv /\ FaderInv /\ StepperInv /\ JpaInv /\ TexInv /\ ClothInv
  BY DEF InterpInv
<1>4. Mods' = Mods
  BY <1>1 DEF Mods
<1>5. OneFamily'
  BY FamilyInvs, PTL
<1>6. /\ obj' \in Objects /\ mod' \in Mods
      /\ drawn' \in Values \cup {Nothing, Plain(Alien)}
      /\ shown' \in Plains \cup {Nothing, Plain(Alien)}
      /\ LogicSeesTruth' /\ ForeignUntouched' /\ RFrameInterpolates'
      /\ PoseInv' /\ CamInv' /\ WindowInv' /\ FaderInv' /\ StepperInv' /\ JpaInv' /\ TexInv' /\ ClothInv'
  <2>1. CASE tracked \in PoseKinds
    <3>1. mod' \in Slots /\ Mods = Slots /\ PoseInv'
      BY <2>1, <1>1, <1>2, <1>3, PosePaint, FamilyMods
    <3>2. CamInv' /\ WindowInv' /\ FaderInv' /\ StepperInv' /\ JpaInv' /\ TexInv' /\ ClothInv'
      BY <2>1, <3>1, <1>1, <1>5 DEF OneFamily
    <3> QED BY <2>1, <3>1, <3>2, <1>1, <1>2, <1>3, <1>4, PosePaint
  <2>2. CASE tracked = "camera"
    <3>1. mod' \in Cameras /\ Mods = Cameras /\ CamInv'
      BY <2>2, <1>1, <1>2, <1>3, CamPaint, FamilyMods
    <3>2. PoseInv' /\ WindowInv' /\ FaderInv' /\ StepperInv' /\ JpaInv' /\ TexInv' /\ ClothInv'
      BY <2>2, <3>1, <1>1, <1>5 DEF OneFamily
    <3> QED BY <2>2, <3>1, <3>2, <1>1, <1>2, <1>3, <1>4, CamPaint
  <2>3. CASE tracked \in WindowKinds
    <3>1. mod' \in Windows /\ Mods = Windows /\ WindowInv'
      BY <2>3, <1>1, <1>2, <1>3, WindowPaint, FamilyMods
    <3>2. PoseInv' /\ CamInv' /\ FaderInv' /\ StepperInv' /\ JpaInv' /\ TexInv' /\ ClothInv'
      BY <2>3, <3>1, <1>1, <1>5 DEF OneFamily
    <3> QED BY <2>3, <3>1, <3>2, <1>1, <1>2, <1>3, <1>4, WindowPaint
  <2>4. CASE tracked = "fader"
    <3>1. mod' \in Faders /\ Mods = Faders /\ FaderInv'
      BY <2>4, <1>1, <1>2, <1>3, FaderPaint, FamilyMods
    <3>2. PoseInv' /\ CamInv' /\ WindowInv' /\ StepperInv' /\ JpaInv' /\ TexInv' /\ ClothInv'
      BY <2>4, <3>1, <1>1, <1>5 DEF OneFamily
    <3> QED BY <2>4, <3>1, <3>2, <1>1, <1>2, <1>3, <1>4, FaderPaint
  <2>5. CASE tracked \in StepperKinds
    <3>1. mod' \in Snapshots /\ Mods = Snapshots /\ StepperInv'
      BY <2>5, <1>1, <1>2, <1>3, StepperPaint, FamilyMods
    <3>2. PoseInv' /\ CamInv' /\ WindowInv' /\ FaderInv' /\ JpaInv' /\ TexInv' /\ ClothInv'
      BY <2>5, <3>1, <1>1, <1>5 DEF OneFamily
    <3> QED BY <2>5, <3>1, <3>2, <1>1, <1>2, <1>3, <1>4, StepperPaint
  <2>6. CASE tracked \in JpaKinds
    <3>1. mod' \in Entries /\ Mods = Entries /\ JpaInv'
      BY <2>6, <1>1, <1>2, <1>3, JpaPaint, FamilyMods
    <3>2. PoseInv' /\ CamInv' /\ WindowInv' /\ FaderInv' /\ StepperInv' /\ TexInv' /\ ClothInv'
      BY <2>6, <3>1, <1>1, <1>5 DEF OneFamily
    <3> QED BY <2>6, <3>1, <3>2, <1>1, <1>2, <1>3, <1>4, JpaPaint
  <2>7. CASE tracked = "texanim"
    <3>1. mod' \in Records /\ Mods = Records /\ TexInv'
      BY <2>7, <1>1, <1>2, <1>3, TexPaint, FamilyMods
    <3>2. PoseInv' /\ CamInv' /\ WindowInv' /\ FaderInv' /\ StepperInv' /\ JpaInv' /\ ClothInv'
      BY <2>7, <3>1, <1>1, <1>5 DEF OneFamily
    <3> QED BY <2>7, <3>1, <3>2, <1>1, <1>2, <1>3, <1>4, TexPaint
  <2>8. CASE tracked \in ClothKinds
    <3>1. mod' \in Flips /\ Mods = Flips /\ ClothInv'
      BY <2>8, <1>1, <1>2, <1>3, ClothPaint, FamilyMods
    <3>2. PoseInv' /\ CamInv' /\ WindowInv' /\ FaderInv' /\ StepperInv' /\ JpaInv' /\ TexInv'
      BY <2>8, <3>1, <1>1, <1>5 DEF OneFamily
    <3> QED BY <2>8, <3>1, <3>2, <1>1, <1>2, <1>3, <1>4, ClothPaint
  <2> QED BY <2>1, <2>2, <2>3, <2>4, <2>5, <2>6, <2>7, <2>8, <1>2, Families
<1>7. InterpTypeOK'
  BY <1>1, <1>4, <1>6 DEF InterpTypeOK, Turns
<1> QED BY <1>1, <1>6, <1>7 DEF InterpInv

\* Logic and production keep the invariant, whatever the mechanism.
LEMMA InterpProduceKeeps ==
  ASSUME InterpInv, ProduceObject
  PROVE  InterpInv'
<1>1. /\ Turns' /\ tracked' = tracked /\ Turns /\ drawn' = drawn /\ shown' = shown
      /\ LogicSeesTruth' /\ RFrameInterpolates'
  BY ProduceFrame DEF InterpInv
<1>2. /\ tracked \in Kinds /\ shown \in Plains \cup {Nothing, Plain(Alien)}
      /\ drawn \in Values \cup {Nothing, Plain(Alien)}
  BY DEF InterpInv, InterpTypeOK
<1>3. /\ PoseInv /\ CamInv /\ WindowInv /\ FaderInv /\ StepperInv /\ JpaInv /\ TexInv /\ ClothInv
  BY DEF InterpInv
<1>4. Mods' = Mods
  BY <1>1 DEF Mods
<1>5. OneFamily'
  BY FamilyInvs, PTL
<1>6. /\ obj' \in Objects /\ mod' \in Mods /\ ForeignUntouched'
      /\ PoseInv' /\ CamInv' /\ WindowInv' /\ FaderInv' /\ StepperInv' /\ JpaInv' /\ TexInv' /\ ClothInv'
  <2>1. CASE tracked \in PoseKinds
    <3>1. mod' \in Slots /\ Mods = Slots /\ PoseInv'
      BY <2>1, <1>1, <1>2, <1>3, PoseProduce, FamilyMods
    <3>2. CamInv' /\ WindowInv' /\ FaderInv' /\ StepperInv' /\ JpaInv' /\ TexInv' /\ ClothInv'
      BY <2>1, <3>1, <1>1, <1>5 DEF OneFamily
    <3> QED BY <2>1, <3>1, <3>2, <1>1, <1>2, <1>3, <1>4, PoseProduce
  <2>2. CASE tracked = "camera"
    <3>1. mod' \in Cameras /\ Mods = Cameras /\ CamInv'
      BY <2>2, <1>1, <1>2, <1>3, CamProduce, FamilyMods
    <3>2. PoseInv' /\ WindowInv' /\ FaderInv' /\ StepperInv' /\ JpaInv' /\ TexInv' /\ ClothInv'
      BY <2>2, <3>1, <1>1, <1>5 DEF OneFamily
    <3> QED BY <2>2, <3>1, <3>2, <1>1, <1>2, <1>3, <1>4, CamProduce
  <2>3. CASE tracked \in WindowKinds
    <3>1. mod' \in Windows /\ Mods = Windows /\ WindowInv'
      BY <2>3, <1>1, <1>2, <1>3, WindowProduce, FamilyMods
    <3>2. PoseInv' /\ CamInv' /\ FaderInv' /\ StepperInv' /\ JpaInv' /\ TexInv' /\ ClothInv'
      BY <2>3, <3>1, <1>1, <1>5 DEF OneFamily
    <3> QED BY <2>3, <3>1, <3>2, <1>1, <1>2, <1>3, <1>4, WindowProduce
  <2>4. CASE tracked = "fader"
    <3>1. mod' \in Faders /\ Mods = Faders /\ FaderInv'
      BY <2>4, <1>1, <1>2, <1>3, FaderProduce, FamilyMods
    <3>2. PoseInv' /\ CamInv' /\ WindowInv' /\ StepperInv' /\ JpaInv' /\ TexInv' /\ ClothInv'
      BY <2>4, <3>1, <1>1, <1>5 DEF OneFamily
    <3> QED BY <2>4, <3>1, <3>2, <1>1, <1>2, <1>3, <1>4, FaderProduce
  <2>5. CASE tracked \in StepperKinds
    <3>1. mod' \in Snapshots /\ Mods = Snapshots /\ StepperInv'
      BY <2>5, <1>1, <1>2, <1>3, StepperProduce, FamilyMods
    <3>2. PoseInv' /\ CamInv' /\ WindowInv' /\ FaderInv' /\ JpaInv' /\ TexInv' /\ ClothInv'
      BY <2>5, <3>1, <1>1, <1>5 DEF OneFamily
    <3> QED BY <2>5, <3>1, <3>2, <1>1, <1>2, <1>3, <1>4, StepperProduce
  <2>6. CASE tracked \in JpaKinds
    <3>1. mod' \in Entries /\ Mods = Entries /\ JpaInv'
      BY <2>6, <1>1, <1>2, <1>3, JpaProduce, FamilyMods
    <3>2. PoseInv' /\ CamInv' /\ WindowInv' /\ FaderInv' /\ StepperInv' /\ TexInv' /\ ClothInv'
      BY <2>6, <3>1, <1>1, <1>5 DEF OneFamily
    <3> QED BY <2>6, <3>1, <3>2, <1>1, <1>2, <1>3, <1>4, JpaProduce
  <2>7. CASE tracked = "texanim"
    <3>1. mod' \in Records /\ Mods = Records /\ TexInv'
      BY <2>7, <1>1, <1>2, <1>3, TexProduce, FamilyMods
    <3>2. PoseInv' /\ CamInv' /\ WindowInv' /\ FaderInv' /\ StepperInv' /\ JpaInv' /\ ClothInv'
      BY <2>7, <3>1, <1>1, <1>5 DEF OneFamily
    <3> QED BY <2>7, <3>1, <3>2, <1>1, <1>2, <1>3, <1>4, TexProduce
  <2>8. CASE tracked \in ClothKinds
    <3>1. mod' \in Flips /\ Mods = Flips /\ ClothInv'
      BY <2>8, <1>1, <1>2, <1>3, ClothProduce, FamilyMods
    <3>2. PoseInv' /\ CamInv' /\ WindowInv' /\ FaderInv' /\ StepperInv' /\ JpaInv' /\ TexInv'
      BY <2>8, <3>1, <1>1, <1>5 DEF OneFamily
    <3> QED BY <2>8, <3>1, <3>2, <1>1, <1>2, <1>3, <1>4, ClothProduce
  <2> QED BY <2>1, <2>2, <2>3, <2>4, <2>5, <2>6, <2>7, <2>8, <1>2, Families
<1> QED BY <1>1, <1>2, <1>4, <1>6 DEF InterpInv, InterpTypeOK, Turns

\* Every mechanism begins with the object as production made it.
LEMMA InitFresh ==
  ASSUME tracked \in Kinds, NEW v \in Looks, NEW i, i = InitOf(tracked, v)
  PROVE  /\ i.obj = Fresh(v)
         /\ tracked \in PoseKinds    => i = PoseInit(v)
         /\ tracked = "camera"       => i = CamInit(v)
         /\ tracked \in WindowKinds  => i = WindowInit(v)
         /\ tracked = "fader"        => i = FaderInit(v)
         /\ tracked \in StepperKinds => i = StepperInit(v)
         /\ tracked \in JpaKinds     => i = ParticleInit(v)
         /\ tracked = "texanim"      => i = TexInit(v)
         /\ tracked \in ClothKinds   => i = ClothInit(v)
<1>1. tracked \in PoseKinds => i = PoseInit(v)
  BY DEF InitOf, PoseKinds
<1>2. tracked = "camera" => i = CamInit(v)
  BY DEF InitOf, PoseKinds
<1>3. tracked \in WindowKinds => i = WindowInit(v)
  BY DEF InitOf, PoseKinds, WindowKinds
<1>4. tracked = "fader" => i = FaderInit(v)
  BY DEF InitOf, PoseKinds
<1>5. tracked \in StepperKinds => i = StepperInit(v)
  BY DEF InitOf, PoseKinds, StepperKinds
<1>6. tracked \in JpaKinds => i = ParticleInit(v)
  BY DEF InitOf, PoseKinds, JpaKinds
<1>7. tracked = "texanim" => i = TexInit(v)
  BY DEF InitOf, PoseKinds
<1>8. tracked \in ClothKinds => i = ClothInit(v)
  BY DEF InitOf, PoseKinds, ClothKinds
<1>9. i.obj = Fresh(v)
  <2>1. /\ PoseInit(v).obj = Fresh(v) /\ CamInit(v).obj = Fresh(v) /\ WindowInit(v).obj = Fresh(v)
        /\ FaderInit(v).obj = Fresh(v) /\ StepperInit(v).obj = Fresh(v)
        /\ ParticleInit(v).obj = Fresh(v) /\ TexInit(v).obj = Fresh(v) /\ ClothInit(v).obj = Fresh(v)
    BY DEF PoseInit, CamInit, WindowInit, FaderInit, StepperInit, ParticleInit, TexInit, ClothInit
  <2> QED BY <2>1, <1>1, <1>2, <1>3, <1>4, <1>5, <1>6, <1>7, <1>8, Families
<1> QED BY <1>1, <1>2, <1>3, <1>4, <1>5, <1>6, <1>7, <1>8, <1>9

\* The invariant holds at the start.
LEMMA InterpInitially ==
  ASSUME InterpInit
  PROVE  InterpInv
<1>1. PICK v \in Looks : obj = InitOf(tracked, v).obj /\ mod = InitOf(tracked, v).mod
  BY DEF InterpInit
<1>2. PICK i : i = InitOf(tracked, v)
  OBVIOUS
<1>3. /\ tracked \in Kinds /\ turn = "painter" /\ splitMode = FALSE /\ frameClass = "L" /\ rDup = FALSE
      /\ camCut = FALSE /\ cut = FALSE /\ unseen = FALSE
      /\ drawn = Nothing /\ shown = Nothing /\ looked = FALSE /\ again = FALSE
  BY DEF InterpInit
<1>4. /\ obj = i.obj /\ mod = i.mod /\ i.obj = Fresh(v)
      /\ tracked \in PoseKinds    => i = PoseInit(v)
      /\ tracked = "camera"       => i = CamInit(v)
      /\ tracked \in WindowKinds  => i = WindowInit(v)
      /\ tracked = "fader"        => i = FaderInit(v)
      /\ tracked \in StepperKinds => i = StepperInit(v)
      /\ tracked \in JpaKinds     => i = ParticleInit(v)
      /\ tracked = "texanim"      => i = TexInit(v)
      /\ tracked \in ClothKinds   => i = ClothInit(v)
  BY <1>1, <1>2, <1>3, InitFresh
<1>5. obj \in Objects /\ obj.own = "object"
  BY <1>4, FreshForm
<1>6. state.obj = obj /\ state.mod = mod /\ state = [obj |-> i.obj, mod |-> i.mod]
  BY <1>4, StateForm DEF state
<1>7. \A M : i \in States(M) => state = i
  BY <1>6, StateEqual
<1>8. /\ mod \in Mods
      /\ PoseInv /\ CamInv /\ WindowInv /\ FaderInv /\ StepperInv /\ JpaInv /\ TexInv /\ ClothInv
  <2>1. CASE tracked \in PoseKinds
    <3>1. PoseAt(i, tracked) /\ ~i.mod.inj
      BY <2>1, <1>4, PoseInit0
    <3>2. state = i /\ i.mod \in Slots
      BY <3>1, <1>7 DEF PoseAt, States
    <3>3. PoseInv
      BY <3>1, <3>2, <1>3, <1>4 DEF PoseInv
    <3> QED BY <2>1, <3>2, <3>3, <1>4, FamilyMods, FamilyInvs DEF OneFamily
  <2>2. CASE tracked = "camera"
    <3>1. CamAt(i) /\ ~i.mod.inj /\ ~i.mod.has
      BY <2>2, <1>4, CamInit0
    <3>2. state = i /\ i.mod \in Cameras
      BY <3>1, <1>7 DEF CamAt, States
    <3>3. CamInv
      BY <3>1, <3>2, <1>3, <1>4 DEF CamInv
    <3> QED BY <2>2, <3>2, <3>3, <1>4, FamilyMods, FamilyInvs DEF OneFamily
  <2>3. CASE tracked \in WindowKinds
    <3>1. WindowAt(i) /\ ~i.mod.known
      BY <2>3, <1>4, WindowInit0
    <3>2. state = i /\ i.mod \in Windows
      BY <3>1, <1>7 DEF WindowAt, States
    <3>3. WindowInv
      BY <3>1, <3>2, <1>3, <1>4 DEF WindowInv, WindowSeen
    <3> QED BY <2>3, <3>2, <3>3, <1>4, FamilyMods, FamilyInvs DEF OneFamily
  <2>4. CASE tracked = "fader"
    <3>1. FaderAt(i) /\ ~i.mod.lDrew /\ ~i.mod.pending
      BY <2>4, <1>4, FaderInit0
    <3>2. state = i /\ i.mod \in Faders
      BY <3>1, <1>7 DEF FaderAt, States
    <3>3. FaderInv
      BY <3>1, <3>2, <1>3, <1>4 DEF FaderInv
    <3> QED BY <2>4, <3>2, <3>3, <1>4, FamilyMods, FamilyInvs DEF OneFamily
  <2>5. CASE tracked \in StepperKinds
    <3>1. StepperAt(i)
      BY <2>5, <1>4, StepperInit0
    <3>2. state = i /\ i.mod \in Snapshots
      BY <3>1, <1>7 DEF StepperAt, States
    <3>3. StepperInv
      BY <3>1, <3>2 DEF StepperInv
    <3> QED BY <2>5, <3>2, <3>3, <1>4, FamilyMods, FamilyInvs DEF OneFamily
  <2>6. CASE tracked \in JpaKinds
    <3>1. JpaAt(i) /\ ~i.mod.known /\ ~i.mod.inj
      BY <2>6, <1>4, JpaInit0
    <3>2. state = i /\ i.mod \in Entries
      BY <3>1, <1>7 DEF JpaAt, States
    <3>3. JpaInv
      BY <3>1, <3>2, <1>3, <1>4 DEF JpaInv, JpaKnows
    <3> QED BY <2>6, <3>2, <3>3, <1>4, FamilyMods, FamilyInvs DEF OneFamily
  <2>7. CASE tracked = "texanim"
    <3>1. TexAt(i) /\ ~i.mod.known /\ ~i.mod.inj
      BY <2>7, <1>4, TexInit0
    <3>2. state = i /\ i.mod \in Records
      BY <3>1, <1>7 DEF TexAt, States
    <3>3. TexInv
      BY <3>1, <3>2, <1>3, <1>4 DEF TexInv
    <3> QED BY <2>7, <3>2, <3>3, <1>4, FamilyMods, FamilyInvs DEF OneFamily
  <2>8. CASE tracked \in ClothKinds
    <3>1. ClothAt(i, tracked) /\ ~Flipped(i) /\ ClothSeen(i, tracked, shown)
      BY <2>8, <1>4, ClothInit0
    <3>2. state = i /\ i.mod \in Flips
      BY <3>1, <1>7 DEF ClothAt, States
    <3>3. ClothInv
      BY <3>1, <3>2, <1>3, <1>4 DEF ClothInv
    <3> QED BY <2>8, <3>2, <3>3, <1>4, FamilyMods, FamilyInvs DEF OneFamily
  <2> QED BY <1>3, <2>1, <2>2, <2>3, <2>4, <2>5, <2>6, <2>7, <2>8, Families
<1>9. Turns /\ InterpTypeOK
  BY <1>3, <1>5, <1>8 DEF Turns, InterpTypeOK
<1>10. LogicSeesTruth /\ RFrameInterpolates
  BY <1>3 DEF LogicSeesTruth, RFrameInterpolates
<1>11. ForeignUntouched
  BY <1>5, <1>6 DEF ForeignUntouched, Owned
<1> QED BY <1>8, <1>9, <1>10, <1>11 DEF InterpInv

\* Where nothing changes, the invariant still holds.
LEMMA InterpStutters ==
  ASSUME InterpInv, UNCHANGED interpVars
  PROVE  InterpInv'
<1>1. /\ tracked' = tracked /\ turn' = turn /\ splitMode' = splitMode /\ frameClass' = frameClass
      /\ rDup' = rDup /\ camCut' = camCut /\ cut' = cut /\ obj' = obj /\ mod' = mod
      /\ unseen' = unseen /\ drawn' = drawn /\ shown' = shown /\ looked' = looked /\ again' = again
  BY DEF interpVars
<1>2. state' = state
  BY <1>1 DEF state
<1> QED BY <1>1, <1>2
  DEF InterpInv, Turns, InterpTypeOK, Mods, PoseInv, CamInv, WindowInv, FaderInv, StepperInv,
      JpaInv, TexInv, ClothInv, LogicSeesTruth, ForeignUntouched, RFrameInterpolates, LastMade,
      Between, Lagging

\* The invariant is inductive: it holds in every reachable state.
THEOREM InterpInvHolds == InterpSpec => []InterpInv
<1>1. InterpInit => InterpInv
  BY InterpInitially
<1>2. InterpInv /\ [InterpNext]_interpVars => InterpInv'
  BY InterpPaintKeeps, InterpProduceKeeps, InterpStutters DEF InterpNext, Paints
<1> QED BY <1>1, <1>2, PTL DEF InterpSpec

\* The interpolation's state is typed, for every mechanism and any looks: the mod's record
\* is the mechanism's own, and what Painter draws is a look, one between two, or nothing
\* (or, of a view that is not finite, what is there).
THEOREM InterpTypes == InterpSpec => []InterpTypeOK
BY InterpInvHolds, PTL DEF InterpInv

\* When logic and production run after a Painter, the object's current look is what
\* production wrote last: every L frame entry (on_painter_skip, the restores of the
\* histories, the cloth unflip) and every return hook has taken the mod's own looks out
\* again, and what the game's frame showed was production's.
THEOREM LogicAlwaysSeesTruth == InterpSpec => []LogicSeesTruth
BY InterpInvHolds, PTL DEF InterpInv

\* Memory that has gone to another owner holds what that owner wrote: no restore, no
\* injection and no flip of the mod is applied to a model, particle, list or cloth that
\* has died, whether a hook saw it die or its memory was silently reused.
THEOREM ForeignIsUntouched == InterpSpec => []ForeignUntouched
BY InterpInvHolds, PTL DEF InterpInv

\* What an R frame shows is production's look, or one between what the last game frame
\* showed of this object and production's; not across a teleport where the mechanism tests
\* for one, nor across a camera cut where the look is baked in view space.  The fader shows
\* the last colour again, a fade stepped back the game's value, one restored the next value.
THEOREM RFramesInterpolate == InterpSpec => []RFrameInterpolates
BY InterpInvHolds, PTL DEF InterpInv

=============================================================================
