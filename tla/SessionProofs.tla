--------------------------- MODULE SessionProofs ---------------------------
(***************************************************************************)
(* Theorems about Session, for any installs, options, scripts and bounds:  *)
(* no thread reaches an object that is gone, mods are told to load after   *)
(* those they depend on, and the guest runs under the disc's settings.     *)
(***************************************************************************)
EXTENDS Session, WellFoundedInduction, FiniteSetTheorems, TLAPS

-----------------------------------------------------------------------------
(* Counting up, and what is made step by step.                             *)

\* A set of numbers has a least one.
LEMMA Least ==
  ASSUME NEW T, T \subseteq Nat, T # {}
  PROVE  \E x \in T : \A y \in T : x <= y
<1>1. IsWellFoundedOn(OpToRel(<, Nat), Nat)
  BY NatLessThanWellFounded
<1>2. PICK x \in T : \A y \in T : <<y, x>> \notin OpToRel(<, Nat)
  BY <1>1, WFMin
<1>3. \A y \in T : ~(y < x)
  BY <1>2 DEF OpToRel
<1> QED BY <1>3

\* A set that holds 0 and, of the numbers up to N, the next one of each of its
\* own, holds them all.
LEMMA CountUp ==
  ASSUME NEW N \in Nat, NEW T, 0 \in T, \A n \in 1..N : n - 1 \in T => n \in T
  PROVE  N \in T
<1> DEFINE U == (0..N) \ T
<1>1. CASE U # {}
  <2>1. PICK m \in U : \A y \in U : m <= y
    <3>1. U \subseteq Nat
      OBVIOUS
    <3> HIDE DEF U
    <3> QED BY <1>1, <3>1, Least
  <2>2. m \in 1..N /\ m - 1 \in 0..N /\ m - 1 \in T
    BY <2>1
  <2> QED BY <2>2
<1> QED BY <1>1

\* f starts from base and goes on as step has it, up to n.
Iterates(f, base, step, S, n) ==
  /\ f \in [0..n -> S]
  /\ \A i \in 0..n : f[i] = IF i = 0 THEN base ELSE step[i][f[i - 1]]

LEMMA Iterated ==
  ASSUME NEW N \in Nat, NEW S, NEW base \in S, NEW step \in [1..N -> [S -> S]]
  PROVE  \E f : Iterates(f, base, step, S, N)
<1> DEFINE T == {n \in 0..N : \E f : Iterates(f, base, step, S, n)}
<1>1. 0 \in T
  <2>1. Iterates([i \in 0..0 |-> base], base, step, S, 0)
    BY DEF Iterates
  <2> QED BY <2>1
<1>2. ASSUME NEW m \in 1..N, m - 1 \in T PROVE m \in T
  <2>1. PICK f : Iterates(f, base, step, S, m - 1)
    BY <1>2
  <2> DEFINE g == [i \in 0..m |-> IF i = m THEN step[m][f[m - 1]] ELSE f[i]]
  <2>2. f \in [0..(m - 1) -> S] /\ f[m - 1] \in S /\ step[m][f[m - 1]] \in S
    BY <2>1 DEF Iterates
  <2>3. g \in [0..m -> S]
    BY <2>2
  <2>4. ASSUME NEW i \in 0..m PROVE g[i] = IF i = 0 THEN base ELSE step[i][g[i - 1]]
    BY <2>1, <2>2 DEF Iterates
  <2>5. Iterates(g, base, step, S, m)
    BY <2>3, <2>4 DEF Iterates
  <2> QED BY <2>5
<1>3. N \in T
  <2> HIDE DEF T
  <2> QED BY <1>1, <1>2, CountUp
<1> QED BY <1>3

-----------------------------------------------------------------------------
(* The order of loading.                                                   *)

Distinct(ms) == \A i, j \in DOMAIN ms : ms[i].id = ms[j].id => i = j

LEMMA Appended ==
  ASSUME NEW S, NEW ms \in Seq(S), NEW m \in S, Distinct(ms), ~Present(ms, m.id)
  PROVE  Append(ms, m) \in Seq(S) /\ Distinct(Append(ms, m))
<1> DEFINE new == Append(ms, m)
<1>1. new \in Seq(S) /\ DOMAIN new = 1..(Len(ms) + 1) /\ Len(ms) \in Nat
  OBVIOUS
<1>2. new[Len(ms) + 1] = m /\ \A i \in 1..Len(ms) : new[i] = ms[i] /\ i \in DOMAIN ms
  OBVIOUS
<1> HIDE DEF new
<1>3. Distinct(new)
  BY <1>1, <1>2 DEF Distinct, Present
<1> QED BY <1>1, <1>3 DEF new

KeptUpTo(inst) ==
  CHOOSE kept : kept =
    [n \in 0..Len(inst) |->
       IF n = 0 THEN <<>>
       ELSE IF Present(kept[n - 1], inst[n].id) THEN kept[n - 1]
       ELSE Append(kept[n - 1], inst[n])]

LEMMA KeptIs ==
  ASSUME NEW inst, inst \in Seq(Range(inst))
  PROVE  /\ Kept(inst) = KeptUpTo(inst)[Len(inst)]
         /\ KeptUpTo(inst) =
              [n \in 0..Len(inst) |->
                 IF n = 0 THEN <<>>
                 ELSE IF Present(KeptUpTo(inst)[n - 1], inst[n].id) THEN KeptUpTo(inst)[n - 1]
                 ELSE Append(KeptUpTo(inst)[n - 1], inst[n])]
<1> DEFINE S == Seq(Range(inst))
           N == Len(inst)
           step == [i \in 1..N |-> [ms \in S |->
                      IF Present(ms, inst[i].id) THEN ms ELSE Append(ms, inst[i])]]
<1>1. N \in Nat /\ \A i \in 1..N : inst[i] \in Range(inst)
  BY DEF Range
<1>2. <<>> \in S /\ step \in [1..N -> [S -> S]]
  BY <1>1
<1>3. PICK f : Iterates(f, <<>>, step, S, N)
  <2> HIDE DEF S, step, N
  <2> QED BY <1>1, <1>2, Iterated
<1>4. f = [n \in 0..N |-> IF n = 0 THEN <<>>
                          ELSE IF Present(f[n - 1], inst[n].id) THEN f[n - 1]
                          ELSE Append(f[n - 1], inst[n])]
  <2>1. f \in [0..N -> S] /\ \A i \in 0..N : f[i] = IF i = 0 THEN <<>> ELSE step[i][f[i - 1]]
    BY <1>3 DEF Iterates
  <2>2. ASSUME NEW i \in 1..N
        PROVE  f[i] = IF Present(f[i - 1], inst[i].id) THEN f[i - 1]
                      ELSE Append(f[i - 1], inst[i])
    <3>1. i - 1 \in 0..N /\ i \in 0..N /\ i # 0
      BY <1>1
    <3>2. f[i - 1] \in S /\ f[i] = step[i][f[i - 1]]
      BY <2>1, <3>1
    <3> QED BY <3>2
  <2> HIDE DEF S, N, step
  <2>3. f[0] = <<>>
    BY <1>1, <2>1
  <2> DEFINE next(n) == IF Present(f[n - 1], inst[n].id) THEN f[n - 1]
                        ELSE Append(f[n - 1], inst[n])
  <2>4. \A i \in 1..N : f[i] = next(i)
    BY <2>2
  <2> HIDE DEF next
  <2>5. f = [n \in 0..N |-> IF n = 0 THEN <<>> ELSE next(n)]
    BY <1>1, <2>1, <2>3, <2>4
  <2> QED BY <2>5 DEF next
<1>5. \E kept : kept = [n \in 0..N |-> IF n = 0 THEN <<>>
                          ELSE IF Present(kept[n - 1], inst[n].id) THEN kept[n - 1]
                          ELSE Append(kept[n - 1], inst[n])]
  BY <1>4
<1>6. KeptUpTo(inst) = [n \in 0..N |-> IF n = 0 THEN <<>>
                 ELSE IF Present(KeptUpTo(inst)[n - 1], inst[n].id) THEN KeptUpTo(inst)[n - 1]
                 ELSE Append(KeptUpTo(inst)[n - 1], inst[n])]
  BY <1>5 DEF KeptUpTo
<1>7. Kept(inst) = KeptUpTo(inst)[Len(inst)]
  BY DEF Kept, KeptUpTo
<1> QED BY <1>6, <1>7

LEMMA KeptDistinct ==
  ASSUME NEW inst, inst \in Seq(Range(inst))
  PROVE  Kept(inst) \in Seq(Range(inst)) /\ Distinct(Kept(inst))
<1> DEFINE S == Range(inst)
           N == Len(inst)
           f == KeptUpTo(inst)
           T == {n \in 0..N : f[n] \in Seq(S) /\ Distinct(f[n])}
<1>1. N \in Nat /\ \A i \in 1..N : inst[i] \in S
  BY DEF Range
<1>2. f = [n \in 0..N |-> IF n = 0 THEN <<>>
             ELSE IF Present(f[n - 1], inst[n].id) THEN f[n - 1] ELSE Append(f[n - 1], inst[n])]
  BY KeptIs
<1> HIDE DEF f, S, N
<1>3. 0 \in T
  <2>1. f[0] = <<>> /\ 0 \in 0..N
    BY <1>1, <1>2
  <2>2. Distinct(<<>>) /\ <<>> \in Seq(S)
    BY DEF Distinct
  <2> QED BY <2>1, <2>2
<1>4. ASSUME NEW n \in 1..N, n - 1 \in T PROVE n \in T
  <2>1. n \in 0..N /\ f[n - 1] \in Seq(S) /\ Distinct(f[n - 1]) /\ inst[n] \in S
    BY <1>1, <1>4
  <2>2. f[n] = IF Present(f[n - 1], inst[n].id) THEN f[n - 1] ELSE Append(f[n - 1], inst[n])
    <3>1. n \in 0..N /\ n # 0
      BY <1>1
    <3> HIDE DEF T
    <3> QED BY <1>2, <3>1
  <2>3. f[n] \in Seq(S) /\ Distinct(f[n])
    BY <2>1, <2>2, Appended
  <2> QED BY <2>1, <2>3
<1>5. N \in T
  <2> HIDE DEF T
  <2> QED BY <1>1, <1>3, <1>4, CountUp
<1>6. Kept(inst) = f[N]
  BY KeptIs DEF f, N
<1> QED BY <1>5, <1>6 DEF S

\* As far as Kahn's algorithm got in n steps.
PlacedUpTo(ms) ==
  CHOOSE placed : placed =
    [n \in 0..Len(ms) |->
       IF n = 0 THEN <<>>
       ELSE IF Free(ms, placed[n - 1]) = {} THEN placed[n - 1]
       ELSE Append(placed[n - 1], ms[Min(Free(ms, placed[n - 1]))])]

LEMMA MinIn ==
  ASSUME NEW T, T \subseteq Nat, T # {}
  PROVE  Min(T) \in T
<1>1. PICK m \in T : \A y \in T : m <= y
  BY Least
<1> QED BY <1>1 DEF Min

LEMMA FreeIs ==
  ASSUME NEW ms, ms \in Seq(Range(ms)), NEW placed, Free(ms, placed) # {}
  PROVE  /\ Min(Free(ms, placed)) \in Free(ms, placed)
         /\ Min(Free(ms, placed)) \in DOMAIN ms
         /\ ms[Min(Free(ms, placed))] \in Range(ms)
<1>1. Free(ms, placed) \subseteq DOMAIN ms /\ DOMAIN ms \subseteq Nat
  BY DEF Free
<1>2. Min(Free(ms, placed)) \in Free(ms, placed)
  BY <1>1, MinIn
<1> QED BY <1>1, <1>2 DEF Range

LEMMA PlacedIs ==
  ASSUME NEW ms, ms \in Seq(Range(ms))
  PROVE  /\ InOrder(ms) = PlacedUpTo(ms)[Len(ms)]
         /\ PlacedUpTo(ms) =
              [n \in 0..Len(ms) |->
                 IF n = 0 THEN <<>>
                 ELSE IF Free(ms, PlacedUpTo(ms)[n - 1]) = {} THEN PlacedUpTo(ms)[n - 1]
                 ELSE Append(PlacedUpTo(ms)[n - 1], ms[Min(Free(ms, PlacedUpTo(ms)[n - 1]))])]
<1> DEFINE S == Seq(Range(ms))
           N == Len(ms)
           place(placed) == IF Free(ms, placed) = {} THEN placed
                            ELSE Append(placed, ms[Min(Free(ms, placed))])
           step == [i \in 1..N |-> [placed \in S |-> place(placed)]]
<1>1. N \in Nat
  OBVIOUS
<1>2. <<>> \in S /\ \A placed \in S : place(placed) \in S
  BY FreeIs
<1> HIDE DEF place
<1>3. PICK f : Iterates(f, <<>>, step, S, N)
  <2>1. step \in [1..N -> [S -> S]]
    BY <1>2
  <2> HIDE DEF S, step, N
  <2> QED BY <1>1, <1>2, <2>1, Iterated
<1>4. f = [n \in 0..N |-> IF n = 0 THEN <<>> ELSE place(f[n - 1])]
  <2>1. f \in [0..N -> S] /\ \A i \in 0..N : f[i] = IF i = 0 THEN <<>> ELSE step[i][f[i - 1]]
    BY <1>3 DEF Iterates
  <2>2. ASSUME NEW i \in 1..N PROVE f[i] = place(f[i - 1])
    <3>1. i - 1 \in 0..N /\ i \in 0..N /\ i # 0
      BY <1>1
    <3>2. f[i - 1] \in S /\ f[i] = step[i][f[i - 1]]
      BY <2>1, <3>1
    <3> QED BY <3>2
  <2> HIDE DEF S, N, step
  <2>3. f[0] = <<>>
    BY <1>1, <2>1
  <2> QED BY <1>1, <2>1, <2>2, <2>3
<1>5. f = [n \in 0..N |-> IF n = 0 THEN <<>>
                          ELSE IF Free(ms, f[n - 1]) = {} THEN f[n - 1]
                          ELSE Append(f[n - 1], ms[Min(Free(ms, f[n - 1]))])]
  BY <1>4 DEF place
<1>6. \E placed : placed = [n \in 0..N |-> IF n = 0 THEN <<>>
                          ELSE IF Free(ms, placed[n - 1]) = {} THEN placed[n - 1]
                          ELSE Append(placed[n - 1], ms[Min(Free(ms, placed[n - 1]))])]
  BY <1>5
<1>7. PlacedUpTo(ms) =
        [n \in 0..N |->
           IF n = 0 THEN <<>>
           ELSE IF Free(ms, PlacedUpTo(ms)[n - 1]) = {} THEN PlacedUpTo(ms)[n - 1]
           ELSE Append(PlacedUpTo(ms)[n - 1], ms[Min(Free(ms, PlacedUpTo(ms)[n - 1]))])]
  BY <1>6 DEF PlacedUpTo
<1>8. InOrder(ms) = PlacedUpTo(ms)[Len(ms)]
  BY DEF InOrder, PlacedUpTo
<1> QED BY <1>7, <1>8

\* What is placed is of ms, once, and behind those of ms it depends on.
Behind(placed, ms) ==
  /\ placed \in Seq(Range(ms)) /\ Distinct(placed)
  /\ \A i \in DOMAIN placed : \A d \in placed[i].deps :
       Present(ms, d.id) => \E j \in 1..(i - 1) : placed[j].id = d.id

LEMMA PlacedBehind ==
  ASSUME NEW ms, ms \in Seq(Range(ms)), NEW placed, Behind(placed, ms),
         NEW k \in Free(ms, placed), ms[k] \in Range(ms)
  PROVE  Behind(Append(placed, ms[k]), ms)
<1> DEFINE new == Append(placed, ms[k])
<1>1. ~Present(placed, ms[k].id)
      /\ \A d \in ms[k].deps : Present(ms, d.id) => Present(placed, d.id)
  BY DEF Free
<1>2. placed \in Seq(Range(ms)) /\ Distinct(placed)
  BY DEF Behind
<1>3. new \in Seq(Range(ms)) /\ Distinct(new)
  BY <1>1, <1>2, Appended
<1>4. /\ DOMAIN new = 1..(Len(placed) + 1) /\ Len(placed) \in Nat
      /\ DOMAIN placed = 1..Len(placed)
      /\ new[Len(placed) + 1] = ms[k] /\ \A i \in 1..Len(placed) : new[i] = placed[i]
  BY <1>2
<1> HIDE DEF new
<1>5. ASSUME NEW i \in DOMAIN new, NEW d \in new[i].deps, Present(ms, d.id)
      PROVE  \E j \in 1..(i - 1) : new[j].id = d.id
  <2>1. CASE i = Len(placed) + 1
    <3>1. Present(placed, d.id)
      BY <1>1, <1>4, <1>5, <2>1
    <3>2. PICK j \in DOMAIN placed : placed[j].id = d.id
      BY <3>1 DEF Present
    <3> QED BY <1>4, <2>1, <3>2
  <2>2. CASE i # Len(placed) + 1
    <3>1. i \in DOMAIN placed /\ d \in placed[i].deps
      BY <1>4, <2>2
    <3>2. PICK j \in 1..(i - 1) : placed[j].id = d.id
      BY <1>5, <3>1 DEF Behind
    <3> QED BY <1>4, <3>1, <3>2
  <2> QED BY <2>1, <2>2
<1> QED BY <1>3, <1>5 DEF Behind, new

LEMMA OrderBehind ==
  ASSUME NEW ms, ms \in Seq(Range(ms))
  PROVE  Behind(InOrder(ms), ms)
<1> DEFINE N == Len(ms)
           f == PlacedUpTo(ms)
           T == {n \in 0..N : Behind(f[n], ms)}
<1>1. N \in Nat
  OBVIOUS
<1>2. f = [n \in 0..N |->
             IF n = 0 THEN <<>>
             ELSE IF Free(ms, f[n - 1]) = {} THEN f[n - 1]
             ELSE Append(f[n - 1], ms[Min(Free(ms, f[n - 1]))])]
  BY PlacedIs
<1> HIDE DEF f, N
<1>3. 0 \in T
  <2>1. f[0] = <<>> /\ 0 \in 0..N
    BY <1>1, <1>2
  <2>2. Behind(<<>>, ms)
    BY DEF Behind, Distinct
  <2> QED BY <2>1, <2>2
<1>4. ASSUME NEW n \in 1..N, n - 1 \in T PROVE n \in T
  <2>1. n \in 0..N /\ n # 0 /\ Behind(f[n - 1], ms)
    BY <1>1, <1>4
  <2> HIDE DEF T
  <2>2. f[n] = IF Free(ms, f[n - 1]) = {} THEN f[n - 1]
               ELSE Append(f[n - 1], ms[Min(Free(ms, f[n - 1]))])
    BY <1>2, <2>1
  <2>3. Free(ms, f[n - 1]) # {} => Behind(Append(f[n - 1], ms[Min(Free(ms, f[n - 1]))]), ms)
    BY <2>1, FreeIs, PlacedBehind
  <2>4. Behind(f[n], ms)
    BY <2>1, <2>2, <2>3
  <2> QED BY <2>1, <2>4 DEF T
<1>5. N \in T
  <2> HIDE DEF T
  <2> QED BY <1>1, <1>3, <1>4, CountUp
<1>6. InOrder(ms) = f[N]
  BY PlacedIs DEF f, N
<1> QED BY <1>5, <1>6

\* What Load accepts: every package once, behind those it depends on.
Sound(ms) ==
  /\ ms \in Seq(Range(ms)) /\ Distinct(ms)
  /\ \A i \in DOMAIN ms : \A d \in ms[i].deps :
       IF Present(ms, d.id)
       THEN /\ \E j \in 1..(i - 1) : ms[j].id = d.id
            /\ ById(ms, d.id).version >= d.min
       ELSE d.optional
  /\ ImportsMet(ms)

LEMMA ByIdIs ==
  ASSUME NEW ms, NEW id, Present(ms, id)
  PROVE  \E i \in DOMAIN ms : ById(ms, id) = ms[i] /\ ms[i].id = id
BY DEF Present, ById

LEMMA OfItsRange ==
  ASSUME NEW S, NEW ms \in Seq(S)
  PROVE  ms \in Seq(Range(ms))
BY DEF Range

LEMMA LoadableSound ==
  ASSUME NEW inst \in Installs
  PROVE  Sound(Loadable(inst))
<1> DEFINE ms == Kept(inst)
           o  == InOrder(ms)
<1>1. ms \in Seq(Range(ms)) /\ Distinct(ms)
  BY InstallsAssumption, KeptDistinct, OfItsRange
<1>2. Behind(o, ms)
  BY <1>1, OrderBehind
<1>3. o \in Seq(Range(o)) /\ Distinct(o)
  BY <1>2, OfItsRange DEF Behind
<1>4. Loadable(inst) = IF /\ \A i \in DOMAIN inst : inst[i].sound
                          /\ DependenciesMet(ms)
                          /\ Acyclic(ms)
                          /\ ImportsMet(o)
                          /\ PatchesAgree(o)
                       THEN o ELSE <<>>
  BY DEF Loadable
<1> HIDE DEF ms, o
<1>5. \A i \in DOMAIN o : \E k \in DOMAIN ms : o[i] = ms[k]
  <2>1. \A i \in DOMAIN o : o[i] \in Range(ms)
    BY <1>2 DEF Behind
  <2> QED BY <2>1 DEF Range
<1>6. ASSUME NEW id, Present(o, id)
      PROVE  Present(ms, id) /\ ById(o, id) = ById(ms, id)
  <2>1. PICK i \in DOMAIN o : ById(o, id) = o[i] /\ o[i].id = id
    BY <1>6, ByIdIs
  <2>2. PICK k \in DOMAIN ms : o[i] = ms[k]
    BY <1>5
  <2>3. Present(ms, id)
    BY <2>1, <2>2 DEF Present
  <2>4. PICK l \in DOMAIN ms : ById(ms, id) = ms[l] /\ ms[l].id = id
    BY <2>3, ByIdIs
  <2>5. l = k
    BY <1>1, <2>1, <2>2, <2>4 DEF Distinct
  <2> QED BY <2>1, <2>2, <2>3, <2>4, <2>5
<1>7. ASSUME DependenciesMet(ms), NEW i \in DOMAIN o, NEW d \in o[i].deps
      PROVE  IF Present(o, d.id)
             THEN /\ \E j \in 1..(i - 1) : o[j].id = d.id
                  /\ ById(o, d.id).version >= d.min
             ELSE d.optional
  <2>1. PICK k \in DOMAIN ms : o[i] = ms[k]
    BY <1>5
  <2>2. IF Present(ms, d.id) THEN ById(ms, d.id).version >= d.min ELSE d.optional
    BY <1>7, <2>1 DEF DependenciesMet
  <2>3. Present(ms, d.id) => \E j \in 1..(i - 1) : o[j].id = d.id
    BY <1>2, <1>7 DEF Behind
  <2>4. CASE Present(o, d.id)
    BY <1>6, <2>2, <2>3, <2>4
  <2>5. CASE ~Present(o, d.id)
    <3>1. ASSUME NEW j \in 1..(i - 1), o[j].id = d.id PROVE Present(o, d.id)
      <4>1. j \in DOMAIN o
        BY <1>3
      <4> QED BY <3>1, <4>1 DEF Present
    <3> QED BY <2>2, <2>3, <2>5, <3>1
  <2> QED BY <2>4, <2>5
<1>8. Sound(<<>>)
  BY DEF Sound, Distinct, ImportsMet
<1>9. DependenciesMet(ms) /\ ImportsMet(o) => Sound(o)
  BY <1>3, <1>7 DEF Sound
<1> QED BY <1>4, <1>8, <1>9

-----------------------------------------------------------------------------
(* Loading and unloading.                                                  *)

ModInv ==
  /\ Sound(mods) /\ up \in 0..Len(mods)
  /\ modState \in {"empty", "loading", "ready", "unloading", "unslotted"}
  /\ modState \in {"loading", "ready", "unloading"} => slots = FilledSlots(mods)
  /\ modState \in {"empty", "unslotted"} => slots = {} /\ up = 0
  /\ modState = "empty" => mods = <<>>
  /\ modState = "ready" => up = Len(mods)

\* What a step may do to the mods.
ModStep ==
  \/ \E inst \in Installs : Load(inst)
  \/ OnLoad \/ Loaded \/ OnUnload \/ NullSlots \/ CloseLibraries
  \/ modState = "ready" /\ StartUnload
  \/ UNCHANGED modVars

LEMMA ModInitInv == ASSUME ModInit PROVE ModInv
<1>1. Sound(<<>>)
  BY DEF Sound, Distinct, ImportsMet
<1> QED BY <1>1 DEF ModInit, ModInv

LEMMA ModStepInv ==
  ASSUME ModInv, ModStep
  PROVE  ModInv'
<1>0. Len(mods) \in Nat /\ up \in Nat /\ up <= Len(mods)
  BY DEF ModInv, Sound
<1>1. ASSUME NEW inst \in Installs, Load(inst) PROVE ModInv'
  <2>1. mods' = Loadable(inst) /\ slots' = FilledSlots(mods') /\ up' = 0
        /\ modState' = "loading"
    BY <1>1 DEF Load, LoadedAs, ModInv
  <2>2. Sound(mods')
    BY <2>1, LoadableSound
  <2>3. Len(mods') \in Nat
    BY <2>2 DEF Sound
  <2> QED BY <2>1, <2>2, <2>3 DEF ModInv
<1>2. CASE OnLoad
  BY <1>0, <1>2 DEF OnLoad, ModInv
<1>3. CASE Loaded
  BY <1>3 DEF Loaded, ModInv
<1>4. CASE OnUnload
  BY <1>0, <1>4 DEF OnUnload, ModInv
<1>5. CASE NullSlots
  BY <1>0, <1>5 DEF NullSlots, ModInv
<1>6. CASE CloseLibraries
  <2>1. Sound(<<>>)
    BY DEF Sound, Distinct, ImportsMet
  <2> QED BY <1>6, <2>1 DEF CloseLibraries, ModInv
<1>7. CASE modState = "ready" /\ StartUnload
  BY <1>7 DEF StartUnload, ModInv
<1>8. CASE UNCHANGED modVars
  BY <1>8 DEF modVars, ModInv
<1> QED BY <1>1, <1>2, <1>3, <1>4, <1>5, <1>6, <1>7, <1>8 DEF ModStep

LEMMA ModInvFirst == ASSUME ModInv PROVE ProvidersFirst /\ ModTypeOK
<1> DEFINE in(i, m) == [of |-> mods[i].id, from |-> m.id, name |-> m.name]
<1>0. Len(mods) \in Nat /\ up \in Nat /\ up <= Len(mods) /\ DOMAIN mods = 1..Len(mods)
  BY DEF ModInv, Sound
<1>1. ASSUME NEW i \in 1..up
      PROVE  \A d \in mods[i].deps :
               IF Present(mods, d.id)
               THEN d.id \in UpIds /\ ById(mods, d.id).version >= d.min
               ELSE d.optional
  <2> SUFFICES ASSUME NEW d \in mods[i].deps
               PROVE  IF Present(mods, d.id)
                      THEN d.id \in UpIds /\ ById(mods, d.id).version >= d.min
                      ELSE d.optional
    OBVIOUS
  <2>1. IF Present(mods, d.id)
        THEN /\ \E j \in 1..(i - 1) : mods[j].id = d.id
             /\ ById(mods, d.id).version >= d.min
        ELSE d.optional
    <3>1. i \in DOMAIN mods
      BY <1>0
    <3> QED BY <3>1 DEF ModInv, Sound
  <2>2. (\E j \in 1..(i - 1) : mods[j].id = d.id) => d.id \in UpIds
    BY <1>0 DEF UpIds
  <2> QED BY <2>1, <2>2
<1>2. ASSUME NEW s \in slots
      PROVE  \E i \in DOMAIN mods : \E m \in mods[i].imports :
               Present(mods, m.id) /\ s = in(i, m)
  <2>1. slots = FilledSlots(mods)
    BY <1>2 DEF ModInv
  <2> QED BY <1>2, <2>1 DEF FilledSlots
<1>3. ASSUME NEW i \in 1..up, NEW m \in mods[i].imports
      PROVE  Present(mods, m.id) <=> in(i, m) \in slots
  <2>1. i \in DOMAIN mods
    BY <1>0
  <2>2. slots = FilledSlots(mods)
    <3>1. up # 0
      BY <1>0
    <3> QED BY <3>1 DEF ModInv
  <2>3. Present(mods, m.id) => in(i, m) \in slots
    BY <2>1, <2>2 DEF FilledSlots
  <2>4. in(i, m) \in slots => Present(mods, m.id)
    BY <1>2
  <2> QED BY <2>3, <2>4
<1>4. ASSUME NEW s \in slots
      PROVE  Present(mods, s.of) /\ Present(mods, s.from)
             /\ s.name \in ById(mods, s.from).exports
  <2>1. PICK i \in DOMAIN mods : \E m \in mods[i].imports :
               Present(mods, m.id) /\ s = in(i, m)
    BY <1>2
  <2>2. PICK m \in mods[i].imports : Present(mods, m.id) /\ s = in(i, m)
    BY <2>1
  <2>3. Present(mods, mods[i].id)
    BY DEF Present
  <2>4. m.name \in ById(mods, m.id).exports
    BY <2>2 DEF ModInv, Sound, ImportsMet
  <2> QED BY <2>2, <2>3, <2>4
<1>5. \A i, j \in DOMAIN mods : mods[i].id = mods[j].id => i = j
  BY DEF ModInv, Sound, Distinct
<1>6. ProvidersFirst
  BY <1>1, <1>3, <1>4, <1>5 DEF ProvidersFirst, ModInv
<1>7. ModTypeOK
  BY <1>4 DEF ModTypeOK, ModInv
<1> QED BY <1>6, <1>7

-----------------------------------------------------------------------------
(* The inductive invariant.                                                *)

\* The Boolean variables of the runtime, and below those of the lobby.
Bits ==
  /\ active \in BOOLEAN /\ stop \in BOOLEAN /\ core \in BOOLEAN /\ hook \in BOOLEAN
  /\ common \in BOOLEAN /\ external \in BOOLEAN /\ bootData \in BOOLEAN
  /\ armed \in BOOLEAN /\ seen \in BOOLEAN /\ titleStop \in BOOLEAN /\ runError \in BOOLEAN

HostTyped ==
  /\ opts \in Options /\ rt \in Stages
  /\ booting \in {"plain", "state", "session"}
  /\ gameId \in {"none", "artifact", "real"} /\ layers \in {"none", "artifact", "real"}
  /\ title \in {"none", "resting", "naming", "gone"}
  /\ timer \in {"none", "armed", "over"}
  /\ saver \in {"none", "busy", "ok", "failed"}

LobbyBits ==
  /\ client \in BOOLEAN /\ server \in BOOLEAN /\ uiClient \in BOOLEAN
  /\ uiRuntime \in BOOLEAN /\ uiBoot \in BOOLEAN /\ startAsked \in BOOLEAN
  /\ lost \in BOOLEAN /\ ready \in BOOLEAN

LobbyTyped ==
  /\ main \in Places /\ role \in {"local", "host", "join"}
  /\ controllers \in 1..MaxControllers /\ assigned \in 0..MaxControllers
  /\ round \in {"idle", "called", "told", "started", "on"} /\ games \in 0..MaxGames

SignalTyped ==
  /\ handlers \in BOOLEAN /\ sig \in BOOLEAN /\ watchStop \in BOOLEAN
  /\ watcher \in {"none", "polling", "over"} /\ signals \in 0..MaxSignals

\* Where the disc's id and settings are in place.
Serving == {"named", "threads", "loop", "saving", "joining", "stopping"}

\* What stands at each stage of the runtime: the mods, the services, the published
\* platform, the hook, the core and the threads.
StageInv ==
  /\ rt \in {"none", "create", "failed", "gone"} => modState = "empty"
  /\ rt = "mods" => modState = "loading"
  /\ rt \in {"rejected", "members"} => modState \in {"unloading", "unslotted"}
  /\ RuntimeLives \/ rt \in {"platform", "dtor", "unset"} => modState = "ready"
  /\ RuntimeLives \/ rt \in {"platform", "dtor"} => common
  /\ active => RuntimeLives \/ rt \in {"dtor", "unset"}
  /\ hook => RuntimeLives \/ rt = "dtor"
  /\ core => rt \in Serving \ {"named"}
  /\ timer = "armed" => rt \in {"loop", "saving", "joining", "stopping", "returning"}
  /\ title # "none" => rt \in {"loop", "saving", "joining"}

\* The title callbacks come in the order that repairs the id: an armed runtime
\* that has seen none, then the artifact's, then the real one.
BootInv ==
  /\ rt \in {"created", "run", "hooked"} => armed /\ ~seen
  /\ rt = "layered" => armed /\ seen /\ gameId = "artifact"
  /\ rt \in Serving => gameId = "real" /\ layers = "real"

\* Where the main thread is, and with it the runtime, the pointers to it, and the
\* services the session owns.  A process that was killed keeps no order.
PlaceInv ==
  main # "killed" =>
    /\ main \in {"begin", "head", "body", "tail", "leave", "close", "exited"} => rt = "none"
    /\ main = "creating" => rt \in {"create", "mods", "platform", "rejected", "failed",
                                    "created"}
    /\ main = "running" => RuntimeLives /\ rt # "created"
    /\ main \in {"watching", "stopping"} => rt = "ran"
    /\ main = "destroying" => rt \in {"dtor", "unset", "members", "gone"}
    /\ main = "watching" => ~Netplay
    /\ main \in {"head", "body", "tail", "stopping", "leave", "close"} => Netplay
    /\ uiRuntime => Netplay /\ main = "running"
    /\ watcher = "polling" => ~Netplay /\ main \in {"running", "watching"}
    /\ external <=> (Netplay /\ main \notin {"begin", "exited"})
    /\ external => common
    /\ client => uiClient /\ external /\ main # "close"

IInv ==
  /\ HostTyped /\ Bits /\ LobbyTyped /\ LobbyBits /\ SignalTyped /\ ScriptTypeOK
  /\ ModInv /\ StageInv /\ BootInv /\ PlaceInv

-----------------------------------------------------------------------------
(* What a step is.                                                         *)

\* The main thread, as far as the runtime, the lobby and the signals go.
MainStep ==
  /\ main # "killed"
  /\ \/ (Create \/ Run \/ Destroy) /\ UNCHANGED <<lobbyVars, signalVars>>
     \/ LocalMain
     \/ LobbyMain /\ UNCHANGED signalVars

\* The other threads, the outside and the network, as far as main goes.
OtherStep ==
  /\ main # "killed"
  /\ \/ TitleStarts \/ TitleSet \/ Timer \/ SaveEnds \/ CoreEnds \/ CloseGame
     \/ NetThread
  /\ NetThread \/ UNCHANGED lobbyVars
  /\ UNCHANGED signalVars

USE DEF sharedVars, bootVars, threadVars, hostVars, modVars, hostRest, uiVars, peerVars,
        lobbyVars, signalVars, hostAll, scriptVars

\* What leaves the runtime alone.
HostRests ==
  InstallHandlers \/ StopWatching \/ ConnectFails \/ Select \/ ToggleReady
   \/ HostStart \/ NoInput \/ FrameTail \/ ClearRuntime \/ LeaveLobby
   \/ Disconnect

LEMMA RestingHost ==
  ASSUME HostRests
  PROVE  UNCHANGED <<hostVars, modVars>>
<1>1. CASE InstallHandlers
  BY <1>1 DEF InstallHandlers, Netplay
<1>2. CASE StopWatching
  BY <1>2 DEF StopWatching, Goes, Netplay
<1>3. CASE ConnectFails
  BY <1>3 DEF ConnectFails, Goes, Netplay
<1>4. CASE Select
  BY <1>4 DEF Select, Goes
<1>5. CASE ToggleReady
  BY <1>5 DEF ToggleReady, Goes
<1>6. CASE HostStart
  BY <1>6 DEF HostStart, Goes
<1>7. CASE NoInput
  BY <1>7 DEF NoInput, Goes
<1>8. CASE FrameTail
  BY <1>8 DEF FrameTail
<1>9. CASE ClearRuntime
  BY <1>9 DEF ClearRuntime, Goes, Netplay
<1>10. CASE LeaveLobby
  BY <1>10 DEF LeaveLobby, Goes
<1>11. CASE Disconnect
  BY <1>11 DEF Disconnect, Goes
<1> QED BY <1>1, <1>2, <1>3, <1>4, <1>5, <1>6, <1>7, <1>8, <1>9, <1>10, <1>11
    DEF HostRests

LEMMA RestingNet ==
  ASSUME NetThread, ~OnMsgStopGame, ~OnConnectionLost
  PROVE  UNCHANGED <<hostVars, modVars>>
<1>1. CASE NetAssigns
  BY <1>1 DEF NetAssigns
<1>2. CASE NetCalls
  BY <1>2 DEF NetCalls
<1>3. CASE OnMsgStartGame
  BY <1>3 DEF OnMsgStartGame
<1>4. CASE BootGame
  BY <1>4 DEF BootGame
<1>5. CASE OnGameStartAborted
  BY <1>5 DEF OnGameStartAborted
<1> QED BY <1>1, <1>2, <1>3, <1>4, <1>5 DEF NetThread

\* The runtime's variables keep their types.
LEMMA MainHostTyped ==
  ASSUME IInv, MainStep
  PROVE  HostTyped'
<1> USE DEF IInv, HostTyped, Stages
<1>1. CASE RejectCreate
  BY <1>1 DEF RejectCreate, At
<1>2. CASE CreateMods
  BY <1>2 DEF CreateMods, At, Load
<1>3. CASE TellMods
  BY <1>3 DEF TellMods, OnLoad
<1>4. CASE CreateServices
  BY <1>4 DEF CreateServices, At, Loaded
<1>5. CASE PlatformFails
  BY <1>5 DEF PlatformFails, At, OwnsCommon, StartUnload
<1>6. CASE Publish
  BY <1>6 DEF Publish, At
<1>7. CASE TakeBootData
  BY <1>7 DEF TakeBootData, RunFails
<1>8. CASE NameArtifact
  BY <1>8 DEF NameArtifact, At, TitleChanged
<1>9. CASE LayerAndName
  BY <1>9 DEF LayerAndName, At, TitleChanged
<1>10. CASE BootCore
  BY <1>10 DEF BootCore, RunFails
<1>11. CASE StartThreads
  BY <1>11 DEF StartThreads, At
<1>12. CASE LeaveLoop
  BY <1>12 DEF LeaveLoop
<1>13. CASE SaveLanded
  BY <1>13 DEF SaveLanded, At
<1>14. CASE JoinTitle
  BY <1>14 DEF JoinTitle, At
<1>15. CASE StopCore
  BY <1>15 DEF StopCore, At
<1>16. CASE Return
  BY <1>16 DEF Return, At
<1>17. CASE StopAll
  BY <1>17 DEF StopAll, At, OwnsCommon
<1>18. CASE Unpublish
  BY <1>18 DEF Unpublish, At, StartUnload
<1>19. CASE UnloadMods
  BY <1>19 DEF UnloadMods, OnUnload, NullSlots, CloseLibraries
<1>20. CASE LocalCreate
  BY <1>20 DEF LocalCreate, At, Goes, Netplay
<1>21. CASE LocalFails
  BY <1>21 DEF LocalFails, At, Goes, Netplay
<1>22. CASE LocalRun
  BY <1>22 DEF LocalRun, At, Goes, Netplay
<1>23. CASE JoinWatcher
  BY <1>23 DEF JoinWatcher, At, Goes
<1>24. CASE LocalExit
  BY <1>24 DEF LocalExit, At, Goes, Netplay
<1>25. CASE Connect
  BY <1>25 DEF Connect, Goes, Netplay
<1>26. CASE FrameHead
  BY <1>26 DEF FrameHead
<1>27. CASE SetRuntime
  BY <1>27 DEF SetRuntime, At, Goes, Netplay
<1>28. CASE CreateFailed
  BY <1>28 DEF CreateFailed, At, Goes, Netplay
<1>29. CASE StopClient
  BY <1>29 DEF StopClient, At, Goes
<1>30. CASE BackToLobby
  BY <1>30 DEF BackToLobby, At, Netplay
<1>31. CASE CloseServices
  BY <1>31 DEF CloseServices, Goes
<1>32. CASE HostRests
  BY <1>32, RestingHost
<1> QED BY <1>1, <1>2, <1>3, <1>4, <1>5, <1>6, <1>7, <1>8, <1>9, <1>10, <1>11, <1>12,
         <1>13, <1>14, <1>15, <1>16, <1>17, <1>18, <1>19, <1>20, <1>21, <1>22, <1>23,
         <1>24, <1>25, <1>26, <1>27, <1>28, <1>29, <1>30, <1>31, <1>32
    DEF MainStep, Create, Run, Destroy, LocalMain, LobbyMain, HostRests

LEMMA MainBits ==
  ASSUME IInv, MainStep
  PROVE  Bits'
<1> USE DEF IInv, Bits
<1>1. CASE RejectCreate
  BY <1>1, Zenon DEF RejectCreate, At
<1>2. CASE CreateMods
  BY <1>2, Zenon DEF CreateMods, At, Load
<1>3. CASE TellMods
  BY <1>3, Zenon DEF TellMods, OnLoad
<1>4. CASE CreateServices
  BY <1>4, Zenon DEF CreateServices, At, Loaded
<1>5. CASE PlatformFails
  BY <1>5, Zenon DEF PlatformFails, At, OwnsCommon, StartUnload
<1>6. CASE Publish
  BY <1>6, Zenon DEF Publish, At
<1>7. CASE TakeBootData
  BY <1>7, Zenon DEF TakeBootData, RunFails
<1>8. CASE NameArtifact
  BY <1>8, Zenon DEF NameArtifact, At, TitleChanged
<1>9. CASE LayerAndName
  BY <1>9, Zenon DEF LayerAndName, At, TitleChanged
<1>10. CASE BootCore
  BY <1>10, Zenon DEF BootCore, RunFails
<1>11. CASE StartThreads
  BY <1>11, Zenon DEF StartThreads, At
<1>12. CASE LeaveLoop
  BY <1>12, Zenon DEF LeaveLoop
<1>13. CASE SaveLanded
  BY <1>13, Zenon DEF SaveLanded, At
<1>14. CASE JoinTitle
  BY <1>14, Zenon DEF JoinTitle, At
<1>15. CASE StopCore
  BY <1>15, Zenon DEF StopCore, At
<1>16. CASE Return
  BY <1>16, Zenon DEF Return, At
<1>17. CASE StopAll
  BY <1>17, Zenon DEF StopAll, At, OwnsCommon
<1>18. CASE Unpublish
  BY <1>18, Zenon DEF Unpublish, At, StartUnload
<1>19. CASE UnloadMods
  BY <1>19, Zenon DEF UnloadMods, OnUnload, NullSlots, CloseLibraries
<1>20. CASE LocalCreate
  BY <1>20, Zenon DEF LocalCreate, At, Goes, Netplay
<1>21. CASE LocalFails
  BY <1>21, Zenon DEF LocalFails, At, Goes, Netplay
<1>22. CASE LocalRun
  BY <1>22, Zenon DEF LocalRun, At, Goes, Netplay
<1>23. CASE JoinWatcher
  BY <1>23, Zenon DEF JoinWatcher, At, Goes
<1>24. CASE LocalExit
  BY <1>24, Zenon DEF LocalExit, At, Goes, Netplay
<1>25. CASE Connect
  BY <1>25, Zenon DEF Connect, Goes, Netplay
<1>26. CASE FrameHead
  BY <1>26, Zenon DEF FrameHead
<1>27. CASE SetRuntime
  BY <1>27, Zenon DEF SetRuntime, At, Goes, Netplay
<1>28. CASE CreateFailed
  BY <1>28, Zenon DEF CreateFailed, At, Goes, Netplay
<1>29. CASE StopClient
  BY <1>29, Zenon DEF StopClient, At, Goes
<1>30. CASE BackToLobby
  BY <1>30, Zenon DEF BackToLobby, At, Netplay
<1>31. CASE CloseServices
  BY <1>31, Zenon DEF CloseServices, Goes
<1>32. CASE HostRests
  BY <1>32, RestingHost
<1> QED BY <1>1, <1>2, <1>3, <1>4, <1>5, <1>6, <1>7, <1>8, <1>9, <1>10, <1>11, <1>12,
         <1>13, <1>14, <1>15, <1>16, <1>17, <1>18, <1>19, <1>20, <1>21, <1>22, <1>23,
         <1>24, <1>25, <1>26, <1>27, <1>28, <1>29, <1>30, <1>31, <1>32
    DEF MainStep, Create, Run, Destroy, LocalMain, LobbyMain, HostRests

LEMMA OtherHostTyped ==
  ASSUME IInv, OtherStep
  PROVE  HostTyped'
<1> USE DEF IInv, HostTyped
<1>1. CASE TitleStarts
  BY <1>1 DEF TitleStarts
<1>2. CASE TitleSet
  BY <1>2 DEF TitleSet
<1>3. CASE Timer
  BY <1>3 DEF Timer, RequestStop
<1>4. CASE SaveEnds
  BY <1>4 DEF SaveEnds
<1>5. CASE CoreEnds
  BY <1>5 DEF CoreEnds
<1>6. CASE CloseGame
  BY <1>6 DEF CloseGame, RequestStop
<1>7. CASE OnMsgStopGame
  BY <1>7 DEF OnMsgStopGame, StopGame
<1>8. CASE OnConnectionLost
  BY <1>8 DEF OnConnectionLost, StopGame
<1>9. CASE NetThread /\ ~OnMsgStopGame /\ ~OnConnectionLost
  BY <1>9, RestingNet
<1> QED BY <1>1, <1>2, <1>3, <1>4, <1>5, <1>6, <1>7, <1>8, <1>9
    DEF OtherStep, NetThread

LEMMA OtherBits ==
  ASSUME IInv, OtherStep
  PROVE  Bits'
<1> USE DEF IInv, Bits
<1>1. CASE TitleStarts
  BY <1>1, Zenon DEF TitleStarts
<1>2. CASE TitleSet
  BY <1>2, Zenon DEF TitleSet
<1>3. CASE Timer
  BY <1>3, Zenon DEF Timer, RequestStop
<1>4. CASE SaveEnds
  BY <1>4, Zenon DEF SaveEnds
<1>5. CASE CoreEnds
  BY <1>5, Zenon DEF CoreEnds
<1>6. CASE CloseGame
  BY <1>6, Zenon DEF CloseGame, RequestStop
<1>7. CASE OnMsgStopGame
  BY <1>7, Zenon DEF OnMsgStopGame, StopGame
<1>8. CASE OnConnectionLost
  BY <1>8, Zenon DEF OnConnectionLost, StopGame
<1>9. CASE NetThread /\ ~OnMsgStopGame /\ ~OnConnectionLost
  BY <1>9, RestingNet
<1> QED BY <1>1, <1>2, <1>3, <1>4, <1>5, <1>6, <1>7, <1>8, <1>9
    DEF OtherStep, NetThread

\* Every stage stands on what it needs.
LEMMA MainStage ==
  ASSUME IInv, MainStep
  PROVE  StageInv'
<1> USE DEF IInv, StageInv, RuntimeLives, Serving, HostTyped, Bits, Stages, PlaceInv,
         ModInv
<1>1. CASE RejectCreate
  BY <1>1 DEF RejectCreate, At
<1>2. CASE CreateMods
  BY <1>2 DEF CreateMods, At, Load
<1>3. CASE TellMods
  BY <1>3 DEF TellMods, OnLoad
<1>4. CASE CreateServices
  BY <1>4 DEF CreateServices, At, Loaded
<1>5. CASE PlatformFails
  BY <1>5 DEF PlatformFails, At, OwnsCommon, StartUnload
<1>6. CASE Publish
  BY <1>6 DEF Publish, At
<1>7. CASE TakeBootData
  BY <1>7 DEF TakeBootData, RunFails
<1>8. CASE NameArtifact
  BY <1>8 DEF NameArtifact, At, TitleChanged
<1>9. CASE LayerAndName
  BY <1>9 DEF LayerAndName, At, TitleChanged
<1>10. CASE BootCore
  BY <1>10 DEF BootCore, RunFails
<1>11. CASE StartThreads
  BY <1>11 DEF StartThreads, At
<1>12. CASE LeaveLoop
  BY <1>12 DEF LeaveLoop
<1>13. CASE SaveLanded
  BY <1>13 DEF SaveLanded, At
<1>14. CASE JoinTitle
  BY <1>14 DEF JoinTitle, At
<1>15. CASE StopCore
  BY <1>15 DEF StopCore, At
<1>16. CASE Return
  BY <1>16 DEF Return, At
<1>17. CASE StopAll
  BY <1>17 DEF StopAll, At, OwnsCommon
<1>18. CASE Unpublish
  BY <1>18 DEF Unpublish, At, StartUnload
<1>19. CASE UnloadMods
  BY <1>19 DEF UnloadMods, OnUnload, NullSlots, CloseLibraries
<1>20. CASE LocalCreate
  BY <1>20 DEF LocalCreate, At, Goes, Netplay
<1>21. CASE LocalFails
  BY <1>21 DEF LocalFails, At, Goes, Netplay
<1>22. CASE LocalRun
  BY <1>22 DEF LocalRun, At, Goes, Netplay
<1>23. CASE JoinWatcher
  BY <1>23 DEF JoinWatcher, At, Goes
<1>24. CASE LocalExit
  BY <1>24 DEF LocalExit, At, Goes, Netplay
<1>25. CASE Connect
  BY <1>25 DEF Connect, Goes, Netplay
<1>26. CASE FrameHead
  BY <1>26 DEF FrameHead
<1>27. CASE SetRuntime
  BY <1>27 DEF SetRuntime, At, Goes, Netplay
<1>28. CASE CreateFailed
  BY <1>28 DEF CreateFailed, At, Goes, Netplay
<1>29. CASE StopClient
  BY <1>29 DEF StopClient, At, Goes
<1>30. CASE BackToLobby
  BY <1>30 DEF BackToLobby, At, Netplay
<1>31. CASE CloseServices
  BY <1>31 DEF CloseServices, Goes
<1>32. CASE HostRests
  BY <1>32, RestingHost
<1> QED BY <1>1, <1>2, <1>3, <1>4, <1>5, <1>6, <1>7, <1>8, <1>9, <1>10, <1>11, <1>12,
         <1>13, <1>14, <1>15, <1>16, <1>17, <1>18, <1>19, <1>20, <1>21, <1>22, <1>23,
         <1>24, <1>25, <1>26, <1>27, <1>28, <1>29, <1>30, <1>31, <1>32
    DEF MainStep, Create, Run, Destroy, LocalMain, LobbyMain, HostRests

LEMMA OtherStage ==
  ASSUME IInv, OtherStep
  PROVE  StageInv'
<1> USE DEF IInv, StageInv, RuntimeLives, Serving, HostTyped, Bits, Stages, PlaceInv,
         ModInv
<1>1. CASE TitleStarts
  BY <1>1 DEF TitleStarts
<1>2. CASE TitleSet
  BY <1>2 DEF TitleSet
<1>3. CASE Timer
  BY <1>3 DEF Timer, RequestStop
<1>4. CASE SaveEnds
  BY <1>4 DEF SaveEnds
<1>5. CASE CoreEnds
  BY <1>5 DEF CoreEnds
<1>6. CASE CloseGame
  BY <1>6 DEF CloseGame, RequestStop
<1>7. CASE OnMsgStopGame
  BY <1>7 DEF OnMsgStopGame, StopGame
<1>8. CASE OnConnectionLost
  BY <1>8 DEF OnConnectionLost, StopGame
<1>9. CASE NetThread /\ ~OnMsgStopGame /\ ~OnConnectionLost
  BY <1>9, RestingNet
<1> QED BY <1>1, <1>2, <1>3, <1>4, <1>5, <1>6, <1>7, <1>8, <1>9
    DEF OtherStep, NetThread

\* The callbacks of the boot keep their order.
LEMMA MainBoot ==
  ASSUME IInv, MainStep
  PROVE  BootInv'
<1> USE DEF IInv, BootInv, StageInv, RuntimeLives, Serving, HostTyped, Bits, Stages,
         PlaceInv
<1>1. CASE RejectCreate
  BY <1>1 DEF RejectCreate, At
<1>2. CASE CreateMods
  BY <1>2 DEF CreateMods, At, Load
<1>3. CASE TellMods
  BY <1>3 DEF TellMods, OnLoad
<1>4. CASE CreateServices
  BY <1>4 DEF CreateServices, At, Loaded
<1>5. CASE PlatformFails
  BY <1>5 DEF PlatformFails, At, OwnsCommon, StartUnload
<1>6. CASE Publish
  BY <1>6 DEF Publish, At
<1>7. CASE TakeBootData
  BY <1>7 DEF TakeBootData, RunFails
<1>8. CASE NameArtifact
  BY <1>8 DEF NameArtifact, At, TitleChanged
<1>9. CASE LayerAndName
  BY <1>9 DEF LayerAndName, At, TitleChanged
<1>10. CASE BootCore
  BY <1>10 DEF BootCore, RunFails
<1>11. CASE StartThreads
  BY <1>11 DEF StartThreads, At
<1>12. CASE LeaveLoop
  BY <1>12 DEF LeaveLoop
<1>13. CASE SaveLanded
  BY <1>13 DEF SaveLanded, At
<1>14. CASE JoinTitle
  BY <1>14 DEF JoinTitle, At
<1>15. CASE StopCore
  BY <1>15 DEF StopCore, At
<1>16. CASE Return
  BY <1>16 DEF Return, At
<1>17. CASE StopAll
  BY <1>17 DEF StopAll, At, OwnsCommon
<1>18. CASE Unpublish
  BY <1>18 DEF Unpublish, At, StartUnload
<1>19. CASE UnloadMods
  BY <1>19 DEF UnloadMods, OnUnload, NullSlots, CloseLibraries
<1>20. CASE LocalCreate
  BY <1>20 DEF LocalCreate, At, Goes, Netplay
<1>21. CASE LocalFails
  BY <1>21 DEF LocalFails, At, Goes, Netplay
<1>22. CASE LocalRun
  BY <1>22 DEF LocalRun, At, Goes, Netplay
<1>23. CASE JoinWatcher
  BY <1>23 DEF JoinWatcher, At, Goes
<1>24. CASE LocalExit
  BY <1>24 DEF LocalExit, At, Goes, Netplay
<1>25. CASE Connect
  BY <1>25 DEF Connect, Goes, Netplay
<1>26. CASE FrameHead
  BY <1>26 DEF FrameHead
<1>27. CASE SetRuntime
  BY <1>27 DEF SetRuntime, At, Goes, Netplay
<1>28. CASE CreateFailed
  BY <1>28 DEF CreateFailed, At, Goes, Netplay
<1>29. CASE StopClient
  BY <1>29 DEF StopClient, At, Goes
<1>30. CASE BackToLobby
  BY <1>30 DEF BackToLobby, At, Netplay
<1>31. CASE CloseServices
  BY <1>31 DEF CloseServices, Goes
<1>32. CASE HostRests
  BY <1>32, RestingHost
<1> QED BY <1>1, <1>2, <1>3, <1>4, <1>5, <1>6, <1>7, <1>8, <1>9, <1>10, <1>11, <1>12,
         <1>13, <1>14, <1>15, <1>16, <1>17, <1>18, <1>19, <1>20, <1>21, <1>22, <1>23,
         <1>24, <1>25, <1>26, <1>27, <1>28, <1>29, <1>30, <1>31, <1>32
    DEF MainStep, Create, Run, Destroy, LocalMain, LobbyMain, HostRests

LEMMA OtherBoot ==
  ASSUME IInv, OtherStep
  PROVE  BootInv'
<1> USE DEF IInv, BootInv
<1>1. CASE TitleStarts
  BY <1>1 DEF TitleStarts
<1>2. CASE TitleSet
  BY <1>2 DEF TitleSet
<1>3. CASE Timer
  BY <1>3 DEF Timer, RequestStop
<1>4. CASE SaveEnds
  BY <1>4 DEF SaveEnds
<1>5. CASE CoreEnds
  BY <1>5 DEF CoreEnds
<1>6. CASE CloseGame
  BY <1>6 DEF CloseGame, RequestStop
<1>7. CASE OnMsgStopGame
  BY <1>7 DEF OnMsgStopGame, StopGame
<1>8. CASE OnConnectionLost
  BY <1>8 DEF OnConnectionLost, StopGame
<1>9. CASE NetThread /\ ~OnMsgStopGame /\ ~OnConnectionLost
  BY <1>9, RestingNet
<1> QED BY <1>1, <1>2, <1>3, <1>4, <1>5, <1>6, <1>7, <1>8, <1>9
    DEF OtherStep, NetThread

\* The main thread and the runtime move together.
LEMMA MainPlace ==
  ASSUME IInv, MainStep
  PROVE  PlaceInv'
<1> USE DEF IInv, PlaceInv, StageInv, RuntimeLives, Netplay, HostTyped, LobbyTyped,
         Bits, LobbyBits, Stages, Places
<1>1. CASE RejectCreate /\ UNCHANGED <<lobbyVars, signalVars>>
  BY <1>1 DEF RejectCreate, At
<1>2. CASE CreateMods /\ UNCHANGED <<lobbyVars, signalVars>>
  BY <1>2 DEF CreateMods, At, Load
<1>3. CASE TellMods /\ UNCHANGED <<lobbyVars, signalVars>>
  BY <1>3 DEF TellMods, OnLoad
<1>4. CASE CreateServices /\ UNCHANGED <<lobbyVars, signalVars>>
  BY <1>4 DEF CreateServices, At, Loaded
<1>5. CASE PlatformFails /\ UNCHANGED <<lobbyVars, signalVars>>
  BY <1>5 DEF PlatformFails, At, OwnsCommon, StartUnload
<1>6. CASE Publish /\ UNCHANGED <<lobbyVars, signalVars>>
  BY <1>6 DEF Publish, At
<1>7. CASE TakeBootData /\ UNCHANGED <<lobbyVars, signalVars>>
  BY <1>7 DEF TakeBootData, RunFails
<1>8. CASE NameArtifact /\ UNCHANGED <<lobbyVars, signalVars>>
  BY <1>8 DEF NameArtifact, At, TitleChanged
<1>9. CASE LayerAndName /\ UNCHANGED <<lobbyVars, signalVars>>
  BY <1>9 DEF LayerAndName, At, TitleChanged
<1>10. CASE BootCore /\ UNCHANGED <<lobbyVars, signalVars>>
  BY <1>10 DEF BootCore, RunFails
<1>11. CASE StartThreads /\ UNCHANGED <<lobbyVars, signalVars>>
  BY <1>11 DEF StartThreads, At
<1>12. CASE LeaveLoop /\ UNCHANGED <<lobbyVars, signalVars>>
  BY <1>12 DEF LeaveLoop
<1>13. CASE SaveLanded /\ UNCHANGED <<lobbyVars, signalVars>>
  BY <1>13 DEF SaveLanded, At
<1>14. CASE JoinTitle /\ UNCHANGED <<lobbyVars, signalVars>>
  BY <1>14 DEF JoinTitle, At
<1>15. CASE StopCore /\ UNCHANGED <<lobbyVars, signalVars>>
  BY <1>15 DEF StopCore, At
<1>16. CASE Return /\ UNCHANGED <<lobbyVars, signalVars>>
  BY <1>16 DEF Return, At
<1>17. CASE StopAll /\ UNCHANGED <<lobbyVars, signalVars>>
  BY <1>17 DEF StopAll, At, OwnsCommon
<1>18. CASE Unpublish /\ UNCHANGED <<lobbyVars, signalVars>>
  BY <1>18 DEF Unpublish, At, StartUnload
<1>19. CASE UnloadMods /\ UNCHANGED <<lobbyVars, signalVars>>
  BY <1>19 DEF UnloadMods, OnUnload, NullSlots, CloseLibraries
<1>20. CASE LocalCreate
  BY <1>20 DEF LocalCreate, At, Goes, Netplay
<1>21. CASE LocalFails
  BY <1>21 DEF LocalFails, At, Goes, Netplay
<1>22. CASE InstallHandlers
  BY <1>22 DEF InstallHandlers, Netplay
<1>23. CASE LocalRun
  BY <1>23 DEF LocalRun, At, Goes, Netplay
<1>24. CASE StopWatching
  BY <1>24 DEF StopWatching, Goes, Netplay
<1>25. CASE JoinWatcher
  BY <1>25 DEF JoinWatcher, At, Goes
<1>26. CASE LocalExit
  BY <1>26 DEF LocalExit, At, Goes, Netplay
<1>27. CASE Connect /\ UNCHANGED signalVars
  BY <1>27 DEF Connect, Goes, Netplay
<1>28. CASE ConnectFails /\ UNCHANGED signalVars
  BY <1>28 DEF ConnectFails, Goes, Netplay
<1>29. CASE FrameHead /\ UNCHANGED signalVars
  BY <1>29 DEF FrameHead
<1>30. CASE Select /\ UNCHANGED signalVars
  BY <1>30 DEF Select, Goes
<1>31. CASE ToggleReady /\ UNCHANGED signalVars
  BY <1>31 DEF ToggleReady, Goes
<1>32. CASE HostStart /\ UNCHANGED signalVars
  BY <1>32 DEF HostStart, Goes
<1>33. CASE NoInput /\ UNCHANGED signalVars
  BY <1>33 DEF NoInput, Goes
<1>34. CASE FrameTail /\ UNCHANGED signalVars
  BY <1>34 DEF FrameTail
<1>35. CASE SetRuntime /\ UNCHANGED signalVars
  BY <1>35 DEF SetRuntime, At, Goes, Netplay
<1>36. CASE CreateFailed /\ UNCHANGED signalVars
  BY <1>36 DEF CreateFailed, At, Goes, Netplay
<1>37. CASE ClearRuntime /\ UNCHANGED signalVars
  BY <1>37 DEF ClearRuntime, Goes, Netplay
<1>38. CASE StopClient /\ UNCHANGED signalVars
  BY <1>38 DEF StopClient, At, Goes
<1>39. CASE BackToLobby /\ UNCHANGED signalVars
  BY <1>39 DEF BackToLobby, At, Netplay
<1>40. CASE LeaveLobby /\ UNCHANGED signalVars
  BY <1>40 DEF LeaveLobby, Goes
<1>41. CASE Disconnect /\ UNCHANGED signalVars
  BY <1>41 DEF Disconnect, Goes
<1>42. CASE CloseServices /\ UNCHANGED signalVars
  BY <1>42 DEF CloseServices, Goes
<1> QED BY <1>1, <1>2, <1>3, <1>4, <1>5, <1>6, <1>7, <1>8, <1>9, <1>10, <1>11, <1>12,
         <1>13, <1>14, <1>15, <1>16, <1>17, <1>18, <1>19, <1>20, <1>21, <1>22, <1>23,
         <1>24, <1>25, <1>26, <1>27, <1>28, <1>29, <1>30, <1>31, <1>32, <1>33, <1>34,
         <1>35, <1>36, <1>37, <1>38, <1>39, <1>40, <1>41, <1>42
    DEF MainStep, Create, Run, Destroy, LocalMain, LobbyMain, HostRests

LEMMA OtherPlace ==
  ASSUME IInv, OtherStep
  PROVE  PlaceInv'
<1> USE DEF IInv, PlaceInv, StageInv, RuntimeLives, Netplay, HostTyped, LobbyTyped,
         Bits, LobbyBits, Stages, Places
<1>1. CASE TitleStarts /\ UNCHANGED <<lobbyVars, signalVars>>
  BY <1>1 DEF TitleStarts
<1>2. CASE TitleSet /\ UNCHANGED <<lobbyVars, signalVars>>
  BY <1>2 DEF TitleSet
<1>3. CASE Timer /\ UNCHANGED <<lobbyVars, signalVars>>
  BY <1>3 DEF Timer, RequestStop
<1>4. CASE SaveEnds /\ UNCHANGED <<lobbyVars, signalVars>>
  BY <1>4 DEF SaveEnds
<1>5. CASE CoreEnds /\ UNCHANGED <<lobbyVars, signalVars>>
  BY <1>5 DEF CoreEnds
<1>6. CASE CloseGame /\ UNCHANGED <<lobbyVars, signalVars>>
  BY <1>6 DEF CloseGame, RequestStop
<1>7. CASE NetAssigns /\ UNCHANGED signalVars
  BY <1>7 DEF NetAssigns
<1>8. CASE NetCalls /\ UNCHANGED signalVars
  BY <1>8 DEF NetCalls
<1>9. CASE OnMsgStartGame /\ UNCHANGED signalVars
  BY <1>9 DEF OnMsgStartGame
<1>10. CASE BootGame /\ UNCHANGED signalVars
  BY <1>10 DEF BootGame
<1>11. CASE OnGameStartAborted /\ UNCHANGED signalVars
  BY <1>11 DEF OnGameStartAborted
<1>12. CASE OnMsgStopGame /\ UNCHANGED signalVars
  BY <1>12 DEF OnMsgStopGame, StopGame
<1>13. CASE OnConnectionLost /\ UNCHANGED signalVars
  BY <1>13 DEF OnConnectionLost, StopGame
<1> QED BY <1>1, <1>2, <1>3, <1>4, <1>5, <1>6, <1>7, <1>8, <1>9, <1>10, <1>11, <1>12,
         <1>13
    DEF OtherStep, NetThread

\* The lobby's variables keep their types.
LEMMA MainLobbyTyped ==
  ASSUME IInv, MainStep
  PROVE  LobbyTyped'
<1> USE DEF IInv, LobbyTyped, Places
<1>1. CASE UNCHANGED lobbyVars
  BY <1>1
<1>2. CASE LocalCreate
  BY <1>2 DEF LocalCreate, At, Goes, Netplay
<1>3. CASE LocalFails
  BY <1>3 DEF LocalFails, At, Goes, Netplay
<1>4. CASE InstallHandlers
  BY <1>4 DEF InstallHandlers, Netplay
<1>5. CASE LocalRun
  BY <1>5 DEF LocalRun, At, Goes, Netplay
<1>6. CASE StopWatching
  BY <1>6 DEF StopWatching, Goes, Netplay
<1>7. CASE JoinWatcher
  BY <1>7 DEF JoinWatcher, At, Goes
<1>8. CASE LocalExit
  BY <1>8 DEF LocalExit, At, Goes, Netplay
<1>9. CASE Connect
  BY <1>9 DEF Connect, Goes, Netplay
<1>10. CASE ConnectFails
  BY <1>10 DEF ConnectFails, Goes, Netplay
<1>11. CASE FrameHead
  BY <1>11, NetplayAssumption DEF FrameHead, Trimmed
<1>12. CASE Select
  BY <1>12, NetplayAssumption DEF Select, Goes, Selectable
<1>13. CASE ToggleReady
  BY <1>13 DEF ToggleReady, Goes
<1>14. CASE HostStart
  BY <1>14, NetplayAssumption DEF HostStart, Goes, CanStart
<1>15. CASE NoInput
  BY <1>15 DEF NoInput, Goes
<1>16. CASE FrameTail
  BY <1>16 DEF FrameTail
<1>17. CASE SetRuntime
  BY <1>17 DEF SetRuntime, At, Goes, Netplay
<1>18. CASE CreateFailed
  BY <1>18 DEF CreateFailed, At, Goes, Netplay
<1>19. CASE ClearRuntime
  BY <1>19 DEF ClearRuntime, Goes, Netplay
<1>20. CASE StopClient
  BY <1>20 DEF StopClient, At, Goes
<1>21. CASE BackToLobby
  BY <1>21 DEF BackToLobby, At, Netplay
<1>22. CASE LeaveLobby
  BY <1>22 DEF LeaveLobby, Goes
<1>23. CASE Disconnect
  BY <1>23 DEF Disconnect, Goes
<1>24. CASE CloseServices
  BY <1>24 DEF CloseServices, Goes
<1> QED BY <1>1, <1>2, <1>3, <1>4, <1>5, <1>6, <1>7, <1>8, <1>9, <1>10, <1>11, <1>12,
         <1>13, <1>14, <1>15, <1>16, <1>17, <1>18, <1>19, <1>20, <1>21, <1>22, <1>23,
         <1>24
    DEF MainStep, Create, Run, Destroy, LocalMain, LobbyMain, HostRests

LEMMA MainLobbyBits ==
  ASSUME IInv, MainStep
  PROVE  LobbyBits'
<1> USE DEF IInv, LobbyBits
<1>1. CASE UNCHANGED lobbyVars
  BY <1>1
<1>2. CASE LocalCreate
  BY <1>2, Zenon DEF LocalCreate, At, Goes, Netplay
<1>3. CASE LocalFails
  BY <1>3, Zenon DEF LocalFails, At, Goes, Netplay
<1>4. CASE InstallHandlers
  BY <1>4, Zenon DEF InstallHandlers, Netplay
<1>5. CASE LocalRun
  BY <1>5, Zenon DEF LocalRun, At, Goes, Netplay
<1>6. CASE StopWatching
  BY <1>6, Zenon DEF StopWatching, Goes, Netplay
<1>7. CASE JoinWatcher
  BY <1>7, Zenon DEF JoinWatcher, At, Goes
<1>8. CASE LocalExit
  BY <1>8, Zenon DEF LocalExit, At, Goes, Netplay
<1>9. CASE Connect
  BY <1>9, Zenon DEF Connect, Goes, Netplay
<1>10. CASE ConnectFails
  BY <1>10, Zenon DEF ConnectFails, Goes, Netplay
<1>11. CASE FrameHead
  BY <1>11, Zenon DEF FrameHead, Trimmed
<1>12. CASE Select
  BY <1>12, Zenon DEF Select, Goes, Selectable
<1>13. CASE ToggleReady
  BY <1>13, Zenon DEF ToggleReady, Goes
<1>14. CASE HostStart
  BY <1>14, Zenon DEF HostStart, Goes, CanStart
<1>15. CASE NoInput
  BY <1>15, Zenon DEF NoInput, Goes
<1>16. CASE FrameTail
  BY <1>16, Zenon DEF FrameTail
<1>17. CASE SetRuntime
  BY <1>17, Zenon DEF SetRuntime, At, Goes, Netplay
<1>18. CASE CreateFailed
  BY <1>18, Zenon DEF CreateFailed, At, Goes, Netplay
<1>19. CASE ClearRuntime
  BY <1>19, Zenon DEF ClearRuntime, Goes, Netplay
<1>20. CASE StopClient
  BY <1>20, Zenon DEF StopClient, At, Goes
<1>21. CASE BackToLobby
  BY <1>21, Zenon DEF BackToLobby, At, Netplay
<1>22. CASE LeaveLobby
  BY <1>22, Zenon DEF LeaveLobby, Goes
<1>23. CASE Disconnect
  BY <1>23, Zenon DEF Disconnect, Goes
<1>24. CASE CloseServices
  BY <1>24, Zenon DEF CloseServices, Goes
<1> QED BY <1>1, <1>2, <1>3, <1>4, <1>5, <1>6, <1>7, <1>8, <1>9, <1>10, <1>11, <1>12,
         <1>13, <1>14, <1>15, <1>16, <1>17, <1>18, <1>19, <1>20, <1>21, <1>22, <1>23,
         <1>24
    DEF MainStep, Create, Run, Destroy, LocalMain, LobbyMain, HostRests

LEMMA OtherLobbyTyped ==
  ASSUME IInv, OtherStep
  PROVE  LobbyTyped'
<1> USE DEF IInv, LobbyTyped, Places
<1>1. CASE UNCHANGED lobbyVars
  BY <1>1
<1>2. CASE NetAssigns
  BY <1>2, NetplayAssumption DEF NetAssigns
<1>3. CASE NetCalls
  BY <1>3, NetplayAssumption DEF NetCalls, CanStart
<1>4. CASE OnMsgStartGame
  BY <1>4 DEF OnMsgStartGame
<1>5. CASE BootGame
  BY <1>5 DEF BootGame
<1>6. CASE OnGameStartAborted
  BY <1>6 DEF OnGameStartAborted
<1>7. CASE OnMsgStopGame
  BY <1>7 DEF OnMsgStopGame, StopGame
<1>8. CASE OnConnectionLost
  BY <1>8 DEF OnConnectionLost, StopGame
<1> QED BY <1>1, <1>2, <1>3, <1>4, <1>5, <1>6, <1>7, <1>8
    DEF OtherStep, NetThread

LEMMA OtherLobbyBits ==
  ASSUME IInv, OtherStep
  PROVE  LobbyBits'
<1> USE DEF IInv, LobbyBits
<1>1. CASE UNCHANGED lobbyVars
  BY <1>1
<1>2. CASE NetAssigns
  BY <1>2, Zenon DEF NetAssigns
<1>3. CASE NetCalls
  BY <1>3, Zenon DEF NetCalls, CanStart
<1>4. CASE OnMsgStartGame
  BY <1>4, Zenon DEF OnMsgStartGame
<1>5. CASE BootGame
  BY <1>5, Zenon DEF BootGame
<1>6. CASE OnGameStartAborted
  BY <1>6, Zenon DEF OnGameStartAborted
<1>7. CASE OnMsgStopGame
  BY <1>7, Zenon DEF OnMsgStopGame, StopGame
<1>8. CASE OnConnectionLost
  BY <1>8, Zenon DEF OnConnectionLost, StopGame
<1> QED BY <1>1, <1>2, <1>3, <1>4, <1>5, <1>6, <1>7, <1>8
    DEF OtherStep, NetThread

HIDE DEF sharedVars, bootVars, threadVars, hostVars, modVars, hostRest, uiVars, peerVars,
         lobbyVars, signalVars, hostAll, scriptVars

-----------------------------------------------------------------------------
(* Mods, the script and the signals.                                       *)

\* Unload begins when the mods are up, and Load when there are none.
LEMMA MainMods ==
  ASSUME IInv, MainStep
  PROVE  ModInv'
<1> USE DEF sharedVars, bootVars, threadVars, hostVars, hostRest, hostAll
<1>1. CASE CreateMods
  <2>1. ModStep
    BY <1>1 DEF CreateMods, ModStep
  <2> QED BY <2>1, ModStepInv DEF IInv
<1>2. CASE PlatformFails \/ Unpublish
  <2>1. modState = "ready"
    BY <1>2 DEF PlatformFails, Unpublish, At, IInv, StageInv
  <2>2. ModStep
    BY <1>2, <2>1 DEF PlatformFails, Unpublish, ModStep
  <2> QED BY <2>2, ModStepInv DEF IInv
<1>3. CASE TellMods \/ CreateServices \/ UnloadMods
  <2>1. ModStep
    BY <1>3 DEF TellMods, CreateServices, UnloadMods, ModStep
  <2> QED BY <2>1, ModStepInv DEF IInv
<1>4. CASE RejectCreate \/ Publish \/ StopAll
  <2>1. UNCHANGED modVars
    BY <1>4 DEF RejectCreate, Publish, StopAll
  <2> QED BY <2>1, ModStepInv DEF IInv, ModStep
<1>5. CASE Run
  <2>1. UNCHANGED modVars
    BY <1>5 DEF Run, TakeBootData, NameArtifact, LayerAndName, BootCore, StartThreads,
             LeaveLoop, SaveLanded, JoinTitle, StopCore, Return
  <2> QED BY <2>1, ModStepInv DEF IInv, ModStep
<1>6. CASE LocalMain
  <2>1. UNCHANGED modVars
    BY <1>6 DEF LocalMain, LocalCreate, LocalFails, InstallHandlers, LocalRun,
             StopWatching, JoinWatcher, LocalExit
  <2> QED BY <2>1, ModStepInv DEF IInv, ModStep
<1>7. CASE LobbyMain
  <2>1. UNCHANGED modVars
    BY <1>7 DEF LobbyMain, Connect, ConnectFails, FrameHead, Select, ToggleReady,
             HostStart, NoInput, FrameTail, SetRuntime, CreateFailed, ClearRuntime,
             StopClient, BackToLobby, LeaveLobby, Disconnect, CloseServices
  <2> QED BY <2>1, ModStepInv DEF IInv, ModStep
<1> QED BY <1>1, <1>2, <1>3, <1>4, <1>5, <1>6, <1>7 DEF MainStep, Create, Destroy

LEMMA OtherMods ==
  ASSUME IInv, OtherStep
  PROVE  ModInv'
<1>1. UNCHANGED modVars
  BY DEF OtherStep, TitleStarts, TitleSet, Timer, SaveEnds, CoreEnds, CloseGame, hostRest,
         NetThread, NetAssigns, NetCalls, OnMsgStartGame, BootGame, OnGameStartAborted,
         OnMsgStopGame, OnConnectionLost
<1> QED BY <1>1, ModStepInv DEF IInv, ModStep

\* on_padread consumes no more commands than there are.
LEMMA PadReadTyped ==
  ASSUME ScriptTypeOK, NEW raises \in BOOLEAN, PadRead(raises)
  PROVE  ScriptTypeOK'
<1>1. script \in Scripts /\ idx \in 0..Len(script) /\ tick \in 0..MaxTick
      /\ Len(script) \in Nat /\ MaxTick \in Nat
  BY SessionAssumption DEF ScriptTypeOK
<1>2. Cardinality(Due) \in 0..(Len(script) - idx)
  <2>1. IsFiniteSet((idx + 1)..Len(script))
        /\ Cardinality((idx + 1)..Len(script)) =
             IF idx + 1 > Len(script) THEN 0 ELSE Len(script) - (idx + 1) + 1
    <3>1. idx + 1 \in Int /\ Len(script) \in Int
      BY <1>1
    <3> QED BY <3>1, FS_Interval, Zenon
  <2>2. Due \subseteq (idx + 1)..Len(script)
    BY DEF Due
  <2>3. IsFiniteSet(Due) /\ Cardinality(Due) <= Cardinality((idx + 1)..Len(script))
    BY <2>1, <2>2, FS_Subset
  <2>4. Cardinality(Due) \in Nat
    BY <2>3, FS_CardinalityType
  <2> QED BY <1>1, <2>1, <2>3, <2>4
<1>3. /\ tick < MaxTick /\ tick' = tick + 1
      /\ idx' = idx + Cardinality(Due) /\ script' = script
      /\ quitFired' = (quitFired \/ \E i \in Due : script[i].quit)
  BY DEF PadRead
<1>4. quitFired' \in BOOLEAN
  BY <1>3, Zenon
<1>5. idx' \in 0..Len(script) /\ tick' \in 0..MaxTick
  BY <1>1, <1>2, <1>3
<1> QED BY <1>1, <1>3, <1>4, <1>5 DEF ScriptTypeOK

LEMMA ResetTyped ==
  ASSUME ScriptTypeOK, ScriptReset
  PROVE  ScriptTypeOK'
<1>1. /\ script' = script /\ idx' = 0 /\ tick' = 0 /\ quitFired' = FALSE
      /\ script \in Scripts /\ Len(script) \in Nat /\ MaxTick \in Nat
  BY SessionAssumption DEF ScriptReset, ScriptTypeOK
<1>2. quitFired' \in BOOLEAN
  BY <1>1, Zenon
<1>3. idx' \in 0..Len(script) /\ tick' \in 0..MaxTick
  BY <1>1
<1> QED BY <1>1, <1>2, <1>3 DEF ScriptTypeOK

\* The steps of the main thread on the signals' variables.
LEMMA MainSignals ==
  ASSUME IInv, MainStep
  PROVE  SignalTyped'
<1> USE DEF IInv, SignalTyped, signalVars
<1>1. CASE UNCHANGED signalVars
  BY <1>1
<1>2. CASE InstallHandlers
  BY <1>2 DEF InstallHandlers
<1>3. CASE LocalRun
  BY <1>3 DEF LocalRun
<1>4. CASE StopWatching
  BY <1>4 DEF StopWatching
<1>5. CASE LocalCreate \/ LocalFails \/ JoinWatcher \/ LocalExit
  BY <1>5 DEF LocalCreate, LocalFails, JoinWatcher, LocalExit
<1> QED BY <1>1, <1>2, <1>3, <1>4, <1>5 DEF MainStep, LocalMain

LEMMA MainIInv ==
  ASSUME IInv, MainThread, main # "killed"
  PROVE  IInv'
<1>1. MainStep
  BY DEF MainThread, HostMainStep, HostMain, MainStep
<1>2. ScriptTypeOK'
  <2>1. CASE UNCHANGED scriptVars
    BY <2>1 DEF IInv, ScriptTypeOK, scriptVars
  <2>2. CASE ScriptReset
    BY <2>2, ResetTyped DEF IInv
  <2>3. LocalMain => UNCHANGED scriptVars
    BY DEF LocalMain, LocalCreate, LocalFails, InstallHandlers, LocalRun, StopWatching,
           JoinWatcher, LocalExit
  <2> QED BY <2>1, <2>2, <2>3 DEF MainThread, HostMainStep
<1> QED BY <1>1, <1>2, MainHostTyped, MainBits, MainLobbyTyped, MainLobbyBits, MainSignals,
           MainMods, MainStage, MainBoot, MainPlace DEF IInv

LEMMA OtherIInv ==
  ASSUME IInv, main # "killed",
         TitleThread \/ TimerThread \/ SaveThread \/ Outside \/ Network
  PROVE  IInv'
<1>1. OtherStep /\ UNCHANGED scriptVars
  BY DEF TitleThread, TimerThread, SaveThread, Outside, Network, OtherStep
<1>2. ScriptTypeOK' /\ SignalTyped'
  BY <1>1 DEF IInv, ScriptTypeOK, SignalTyped, scriptVars, OtherStep, signalVars
<1> QED BY <1>1, <1>2, OtherHostTyped, OtherBits, OtherLobbyTyped, OtherLobbyBits,
           OtherMods, OtherStage, OtherBoot, OtherPlace DEF IInv

LEMMA WatcherIInv ==
  ASSUME IInv, Watcher
  PROVE  IInv'
<1>1. /\ watcher = "polling" /\ watcher' = "over"
      /\ UNCHANGED <<opts, rt, core, hook, common, runError, sharedVars, bootVars, threadVars,
                     modVars, lobbyVars, scriptVars, handlers, watchStop, signals>>
      /\ (UNCHANGED <<sig, stop>> \/ (sig' = FALSE /\ stop' = TRUE))
  BY DEF Watcher, RequestStop
<1> USE DEF sharedVars, bootVars, threadVars, modVars, lobbyVars, uiVars, peerVars, scriptVars
<1>2. Bits'
  BY <1>1, Zenon DEF IInv, Bits
<1>3. SignalTyped'
  BY <1>1 DEF IInv, SignalTyped
<1>4. HostTyped' /\ LobbyTyped' /\ ScriptTypeOK'
  BY <1>1 DEF IInv, HostTyped, LobbyTyped, ScriptTypeOK
<1>5. LobbyBits'
  BY <1>1, Zenon DEF IInv, LobbyBits
<1>6. StageInv' /\ BootInv'
  BY <1>1 DEF IInv, StageInv, BootInv, RuntimeLives, Serving
<1>7. PlaceInv'
  BY <1>1 DEF IInv, PlaceInv, RuntimeLives, Netplay
<1>8. ModInv'
  BY <1>1, ModStepInv DEF IInv, ModStep
<1> QED BY <1>2, <1>3, <1>4, <1>5, <1>6, <1>7, <1>8 DEF IInv

LEMMA RaiseIInv ==
  ASSUME IInv, main # "killed", Signal \/ GuestReads
  PROVE  IInv'
<1>1. /\ UNCHANGED <<hostAll, uiVars, peerVars, handlers, watcher, watchStop>>
      /\ main' = main \/ main' = "killed"
      /\ sig' = sig \/ sig' = TRUE
  BY DEF Signal, GuestReads, Raise
<1>2. signals' \in 0..MaxSignals
  <2>1. signals' = signals \/ (signals < MaxSignals /\ signals' = signals + 1)
    BY DEF Signal, GuestReads
  <2> QED BY <2>1, SessionAssumption DEF IInv, SignalTyped
<1>3. ScriptTypeOK'
  <2>1. CASE Signal
    BY <2>1 DEF Signal, IInv, ScriptTypeOK, scriptVars
  <2>2. CASE GuestReads
    BY <2>2, PadReadTyped DEF GuestReads, IInv
  <2> QED BY <2>1, <2>2
<1> USE DEF hostAll, hostVars, sharedVars, bootVars, threadVars, modVars, uiVars, peerVars
<1>4. Bits' /\ LobbyBits'
  <2>1. Bits'
    BY <1>1, Zenon DEF IInv, Bits
  <2>2. LobbyBits'
    BY <1>1, Zenon DEF IInv, LobbyBits
  <2> QED BY <2>1, <2>2
<1>5. SignalTyped'
  BY <1>1, <1>2 DEF IInv, SignalTyped
<1>6. HostTyped' /\ LobbyTyped'
  BY <1>1 DEF IInv, HostTyped, LobbyTyped, Places
<1>7. StageInv' /\ BootInv'
  BY <1>1 DEF IInv, StageInv, BootInv, RuntimeLives, Serving
<1>8. PlaceInv'
  BY <1>1 DEF IInv, PlaceInv, RuntimeLives, Netplay
<1>9. ModInv'
  BY <1>1, ModStepInv DEF IInv, ModStep
<1> QED BY <1>3, <1>4, <1>5, <1>6, <1>7, <1>8, <1>9 DEF IInv

-----------------------------------------------------------------------------
(* The theorems.                                                           *)

LEMMA InitIInv == ASSUME Init PROVE IInv
<1> USE DEF Init, HostInit, SessionInit
<1>1. HostTyped /\ LobbyTyped /\ SignalTyped
  <2>1. HostTyped
    BY DEF HostTyped, Stages
  <2>2. LobbyTyped
    BY NetplayAssumption DEF LobbyTyped, Places
  <2>3. SignalTyped
    <3>1. 0 \in 0..MaxSignals
      BY SessionAssumption
    <3> QED BY <3>1 DEF SignalTyped
  <2> QED BY <2>1, <2>2, <2>3
<1>2. Bits /\ LobbyBits
  BY Zenon DEF Bits, LobbyBits
<1>3. ScriptTypeOK
  <2>1. script \in Scripts /\ idx = 0 /\ tick = 0 /\ quitFired = FALSE
    BY DEF ScriptInit
  <2>2. 0 \in 0..Len(script) /\ 0 \in 0..MaxTick
    BY <2>1, SessionAssumption
  <2> QED BY <2>1, <2>2 DEF ScriptTypeOK
<1>4. ModInv
  BY ModInitInv
<1>5. StageInv /\ BootInv
  BY DEF StageInv, BootInv, RuntimeLives, Serving, ModInit
<1>6. PlaceInv
  BY DEF PlaceInv, RuntimeLives, Netplay
<1> QED BY <1>1, <1>2, <1>3, <1>4, <1>5, <1>6 DEF IInv

LEMMA NextIInv ==
  ASSUME IInv, [Next]_vars
  PROVE  IInv'
<1>1. CASE Next
  BY <1>1, MainIInv, OtherIInv, WatcherIInv, RaiseIInv DEF Next
<1>2. CASE UNCHANGED vars
  <2> USE <1>2 DEF vars, hostVars, sharedVars, bootVars, threadVars, modVars, lobbyVars,
             uiVars, peerVars, scriptVars, signalVars
  <2>1. HostTyped' /\ LobbyTyped' /\ SignalTyped' /\ ScriptTypeOK'
    BY DEF IInv, HostTyped, LobbyTyped, SignalTyped, ScriptTypeOK
  <2>2. Bits'
    BY Zenon DEF IInv, Bits
  <2>3. LobbyBits'
    BY Zenon DEF IInv, LobbyBits
  <2>4. StageInv' /\ BootInv' /\ PlaceInv'
    BY DEF IInv, StageInv, BootInv, PlaceInv, RuntimeLives, Serving, Netplay
  <2>5. ModInv'
    BY ModStepInv DEF IInv, ModStep
  <2> QED BY <2>1, <2>2, <2>3, <2>4, <2>5 DEF IInv
<1> QED BY <1>1, <1>2

\* The inductive invariant of a whole process, for any installs, options,
\* scripts and bounds.
THEOREM Invariant == Spec => []IInv
<1>1. Init => IInv
  BY InitIInv
<1>2. IInv /\ [Next]_vars => IInv'
  BY NextIInv
<1> QED BY <1>1, <1>2, PTL DEF Spec

\* Every variable of the process keeps its type.
THEOREM TypeCorrect == Spec => []TypeOK
<1>1. IInv => TypeOK
  <2> SUFFICES ASSUME IInv PROVE TypeOK
    OBVIOUS
  <2>1. HostTypeOK
    BY DEF IInv, HostTyped, Bits, HostTypeOK
  <2>2. LobbyTypeOK
    BY DEF IInv, LobbyTyped, LobbyBits, LobbyTypeOK
  <2>3. ModTypeOK
    BY ModInvFirst DEF IInv
  <2> QED BY <2>1, <2>2, <2>3 DEF IInv, SignalTyped, TypeOK
<1> QED BY <1>1, Invariant, PTL

\* No thread reaches a runtime, a platform, a mod or a client that is gone.
THEOREM HandlesStayAlive == Spec => []HandlesAlive
<1>1. IInv => HandlesAlive
  <2> SUFFICES ASSUME IInv, main # "killed" PROVE HandlesAlive
    BY DEF HandlesAlive
  <2>1. StageInv /\ PlaceInv /\ rt \in Stages
    BY DEF IInv, HostTyped
  <2>2. /\ uiRuntime => RuntimeLives
        /\ watcher = "polling" => RuntimeLives
    BY <2>1 DEF PlaceInv, RuntimeLives
  <2>3. /\ timer = "armed" => RuntimeLives
        /\ title # "none" => rt \in {"loop", "saving", "joining"}
        /\ active \/ hook => PlatformLives
    BY <2>1 DEF StageInv, RuntimeLives, PlatformLives
  <2>4. core => modState = "ready"
    BY <2>1 DEF StageInv, RuntimeLives, Serving
  <2>5. RuntimeLives \/ main \in {"head", "body", "tail"} => common
    BY <2>1 DEF StageInv, PlaceInv
  <2>6. client => uiClient /\ common
    BY <2>1 DEF PlaceInv
  <2> QED BY <2>2, <2>3, <2>4, <2>5, <2>6 DEF HandlesAlive
<1> QED BY <1>1, Invariant, PTL

\* A mod is up only while the providers it found are up, in the version it asked
\* for and with the functions it imports in their slots.
THEOREM ProvidersComeFirst == Spec => []ProvidersFirst
<1>1. IInv => ProvidersFirst
  BY ModInvFirst DEF IInv
<1> QED BY <1>1, Invariant, PTL

\* The guest runs only under the disc's own id and settings.
THEOREM GuestUnderRealLayers == Spec => []LayersReal
<1>1. IInv => LayersReal
  BY DEF IInv, StageInv, BootInv, Serving, LayersReal
<1> QED BY <1>1, Invariant, PTL
=============================================================================
