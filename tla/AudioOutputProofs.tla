------------------------- MODULE AudioOutputProofs -------------------------
(***************************************************************************)
(* For every capacity, every modulus of the indices and every block: the   *)
(* two threads never touch a slot at the same time, and the ring is a      *)
(* bounded FIFO.                                                           *)
(*                                                                         *)
(* The argument: the indices are kept modulo Wrap, a multiple of Capacity, *)
(* so the slot of an index does not change when the index wraps, and two   *)
(* positions less than Capacity apart have different slots.  What a side   *)
(* loaded of the other's index only gets better while it copies: the room  *)
(* grows under the producer, the store grows under the consumer.           *)
(***************************************************************************)
EXTENDS AudioOutput, TLAPS

-----------------------------------------------------------------------------
(* Remainders.                                                             *)

LEMMA Distributes ==
  ASSUME NEW q \in Int, NEW k \in Int, NEW n \in Int
  PROVE  /\ (q + k) * n = q * n + k * n /\ (q - k) * n = q * n - k * n
         /\ (q * k) * n = q * (k * n) /\ q * n \in Int
OBVIOUS

LEMMA ModRange ==
  ASSUME NEW a \in Int, NEW n \in Nat \ {0}
  PROVE  a % n \in 0..n-1 /\ a % n \in Nat
OBVIOUS

LEMMA ModDef ==
  ASSUME NEW a \in Int, NEW n \in Nat \ {0}
  PROVE  \E q \in Int : a = q * n + (a % n)
<1>1. a = n * (a \div n) + (a % n) /\ a \div n \in Int
  OBVIOUS
<1>2. n * (a \div n) = (a \div n) * n
  BY <1>1
<1>3. a = (a \div n) * n + (a % n)
  BY <1>1, <1>2, Zenon
<1>4. (a \div n) \in Int
  BY <1>1
<1> QED
  BY <1>3, <1>4, Zenon

LEMMA ModUnique ==
  ASSUME NEW n \in Nat \ {0}, NEW q \in Int, NEW r \in 0..n-1
  PROVE  (q * n + r) % n = r
OBVIOUS

LEMMA ModSmall ==
  ASSUME NEW n \in Nat \ {0}, NEW r \in 0..n-1
  PROVE  r % n = r
OBVIOUS

\* Whole turns do not change the remainder.
LEMMA ModTurns ==
  ASSUME NEW a \in Int, NEW q \in Int, NEW n \in Nat \ {0}
  PROVE  (a + q * n) % n = a % n
<1> DEFINE r == a % n
<1>1. PICK k \in Int : a = k * n + r
  BY ModDef
<1>2. r \in 0..n-1
  BY ModRange
<1> HIDE DEF r
<1>3. a + q * n = (k + q) * n + r
  BY <1>1, <1>2, Distributes
<1>4. ((k + q) * n + r) % n = r
  BY <1>2, ModUnique
<1> QED
  BY <1>3, <1>4 DEF r

\* A remainder may be taken before a sum or after it.
LEMMA ModShift ==
  ASSUME NEW a \in Int, NEW b \in Int, NEW n \in Nat \ {0}
  PROVE  ((a % n) + b) % n = (a + b) % n
<1> DEFINE r == a % n
<1>1. PICK q \in Int : a = q * n + r
  BY ModDef
<1>2. r \in Int
  BY ModRange
<1> HIDE DEF r
<1>3. a + b = (r + b) + q * n /\ r + b \in Int
  BY <1>1, <1>2, Distributes
<1>4. ((r + b) + q * n) % n = (r + b) % n
  BY <1>3, ModTurns
<1> QED
  BY <1>3, <1>4 DEF r

\* Two numbers less than n apart have different remainders.
LEMMA ModApart ==
  ASSUME NEW a \in Int, NEW b \in Int, NEW n \in Nat \ {0},
         a < b, b - a < n
  PROVE  a % n # b % n
<1> SUFFICES ASSUME a % n = b % n PROVE FALSE
  OBVIOUS
<1>1. PICK q \in Int : a = q * n + (a % n)
  BY ModDef
<1>2. PICK k \in Int : b = k * n + (b % n)
  BY ModDef
<1>3. a % n \in Int
  BY ModRange
<1>4. (k - q) * n = b - a
  BY <1>1, <1>2, <1>3, Distributes
<1>5. k - q \in Int
  OBVIOUS
<1> QED
  BY <1>4, <1>5

-----------------------------------------------------------------------------
(* The ring's indices.                                                     *)

\* Wrap is a whole number of turns of the ring.
LEMMA WrapTurns == \E k \in Int : Wrap = k * Capacity
<1>1. Wrap \in Int /\ Capacity \in Nat \ {0} /\ Wrap % Capacity = 0
  BY RingAssumption
<1>2. PICK k \in Int : Wrap = k * Capacity + (Wrap % Capacity)
  BY <1>1, ModDef
<1> QED
  BY <1>1, <1>2, Distributes

\* The slot of an index outlives the index's wrap.
LEMMA IndexTurns ==
  ASSUME NEW a \in Int, NEW q \in Int
  PROVE  Index(a + q * Wrap) = Index(a)
<1>1. PICK k \in Int : Wrap = k * Capacity
  BY WrapTurns
<1>2. Capacity \in Nat \ {0}
  BY RingAssumption
<1>3. q * Wrap = (q * k) * Capacity /\ q * k \in Int
  BY <1>1, <1>2, Distributes
<1>4. (a + (q * k) * Capacity) % Capacity = a % Capacity
  BY <1>2, <1>3, ModTurns
<1> QED
  BY <1>3, <1>4 DEF Index

LEMMA IndexWraps ==
  ASSUME NEW a \in Int, NEW b \in Int
  PROVE  Index((a % Wrap) + b) = Index(a + b)
<1>1. Wrap \in Nat \ {0}
  BY RingAssumption
<1> DEFINE r == a % Wrap
<1>2. PICK q \in Int : a = q * Wrap + r
  BY <1>1, ModDef
<1>3. r \in Int
  BY <1>1, ModRange
<1> HIDE DEF r
<1>4. a + b = (r + b) + q * Wrap /\ r + b \in Int
  BY <1>1, <1>2, <1>3, Distributes
<1> QED
  BY <1>4, IndexTurns DEF r

LEMMA IndexRange == ASSUME NEW a \in Int PROVE Index(a) \in 0..Capacity-1
BY RingAssumption, ModRange DEF Index

LEMMA IndexApart ==
  ASSUME NEW a \in Int, NEW b \in Int, a < b, b - a < Capacity
  PROVE  Index(a) # Index(b)
BY RingAssumption, ModApart DEF Index

\* Seen from the read index, the writer stands behind the stored frames.
LEMMA WriterBehind ==
  ASSUME write \in Int, read \in Int, NEW n \in Int
  PROVE  Index(write + n) = Index(read + StoredFrames + n)
<1> DEFINE d == write - read
           s == d % Wrap
<1>0. Wrap \in Nat \ {0} /\ d \in Int /\ read + n \in Int
  BY RingAssumption
<1>1. s \in Int
  <2> HIDE DEF d
  <2> QED BY <1>0, ModRange
<1>2. Index(s + (read + n)) = Index(d + (read + n))
  <2> HIDE DEF d
  <2> QED BY <1>0, IndexWraps
<1>3. d + (read + n) = write + n
  OBVIOUS
<1>4. s + (read + n) = read + s + n
  <2> HIDE DEF s
  <2> QED BY <1>1
<1> QED
  BY <1>2, <1>3, <1>4 DEF StoredFrames

LEMMA StoredRange ==
  ASSUME write \in Int, read \in Int
  PROVE  StoredFrames \in 0..Wrap-1 /\ StoredFrames \in Nat
<1> DEFINE d == write - read
<1>1. Wrap \in Nat \ {0} /\ d \in Int
  BY RingAssumption
<1> HIDE DEF d
<1>2. d % Wrap \in 0..Wrap-1 /\ d % Wrap \in Nat
  BY <1>1, ModRange
<1> QED
  BY <1>2 DEF StoredFrames, d

\* The stores of the indices add to and take from the stored frames.
LEMMA StoredAfterPush ==
  ASSUME write \in Int, read \in Int, NEW c \in Nat,
         StoredFrames + c <= Capacity,
         write' = (write + c) % Wrap, read' = read
  PROVE  StoredFrames' = StoredFrames + c
<1> DEFINE d == write - read
<1>0. Wrap \in Nat \ {0} /\ Capacity < Wrap /\ Capacity \in Nat /\ d \in Int
      /\ c \in Int /\ write + c \in Int /\ -read \in Int
  BY RingAssumption
<1>1. (((write + c) % Wrap) + (-read)) % Wrap = ((write + c) + (-read)) % Wrap
  BY <1>0, ModShift
<1>2. (write + c) + (-read) = d + c
  OBVIOUS
<1>3. StoredFrames \in Int /\ StoredFrames + c \in 0..Wrap-1
  BY StoredRange, <1>0
<1>4. ((d % Wrap) + c) % Wrap = (d + c) % Wrap
  <2> HIDE DEF d
  <2> QED BY <1>0, ModShift, Zenon
<1>5. (StoredFrames + c) % Wrap = StoredFrames + c
  BY <1>0, <1>3, ModSmall
<1>6. StoredFrames' = (((write + c) % Wrap) - read) % Wrap
  BY DEF StoredFrames
<1>7. ((write + c) % Wrap) - read = ((write + c) % Wrap) + (-read)
  <2> DEFINE v == (write + c) % Wrap
  <2>1. v \in Int
    BY <1>0, ModRange
  <2> HIDE DEF v
  <2> QED BY <2>1 DEF v
<1> QED
  BY <1>1, <1>2, <1>4, <1>5, <1>6, <1>7 DEF StoredFrames

LEMMA StoredAfterPop ==
  ASSUME write \in Int, read \in Int, NEW c \in Nat, c <= StoredFrames,
         read' = (read + c) % Wrap, write' = write
  PROVE  StoredFrames' = StoredFrames - c
<1> DEFINE d == write - read
           v == (read + c) % Wrap
<1>0. Wrap \in Nat \ {0} /\ d \in Int /\ read + c \in Int /\ -c \in Int
  BY RingAssumption
<1>1. PICK q \in Int : read + c = q * Wrap + v
  BY <1>0, ModDef
<1>2. v \in Int
  BY <1>0, ModRange
<1>3. StoredFrames \in Int /\ StoredFrames + (-c) \in 0..Wrap-1
  BY StoredRange, <1>0
<1>4. ((d % Wrap) + (-c)) % Wrap = (d + (-c)) % Wrap
  <2> HIDE DEF d
  <2> QED BY <1>0, ModShift, Zenon
<1>5. (StoredFrames + (-c)) % Wrap = StoredFrames + (-c)
  BY <1>0, <1>3, ModSmall
<1>6. StoredFrames' = (write - v) % Wrap
  BY DEF StoredFrames
<1>7. write - v = (d + (-c)) + q * Wrap /\ d + (-c) \in Int
  <2> HIDE DEF v
  <2> QED BY <1>0, <1>1, <1>2, Distributes
<1>8. ((d + (-c)) + q * Wrap) % Wrap = (d + (-c)) % Wrap
  <2> DEFINE e == d + (-c)
  <2>1. e \in Int
    OBVIOUS
  <2> HIDE DEF e
  <2>2. (e + q * Wrap) % Wrap = e % Wrap
    BY <1>0, <2>1, ModTurns
  <2> QED BY <2>2 DEF e
<1>9. StoredFrames' = StoredFrames + (-c)
  BY <1>4, <1>5, <1>6, <1>7, <1>8 DEF StoredFrames
<1> QED
  BY <1>3, <1>9

-----------------------------------------------------------------------------
(* The inductive invariant.                                                *)

\* What each side loaded still holds: the block fits the room, the frames
\* asked for are stored.
Bounds ==
  /\ StoredFrames <= Capacity
  /\ push.at = "copy" => push.count <= Capacity - StoredFrames
  /\ pop.at = "copy" => pop.count <= StoredFrames

\* The frames copied so far: the producer's lie behind the stored ones, the
\* consumer's are the oldest stored ones.
Copied ==
  /\ push.at = "copy" =>
       /\ push.block \in Blocks
       /\ \A n \in 0..push.i-1 : slot[Index(write + n)] = push.block[n + 1]
  /\ pop.at = "copy" =>
       \A n \in 1..Len(pop.dst) : pop.dst[n] = slot[Index(read + n - 1)]

RingInv == RingTypeOK /\ Bounds /\ Copied

\* What a step of either thread may do to the ring.
RingNext ==
  \/ \E block \in Blocks : PushLoad(block)
  \/ PushCopy \/ PushCommit
  \/ \E n \in 0..MaxPop : PopLoad(n)
  \/ PopCopy \/ PopCommit

-----------------------------------------------------------------------------

LEMMA RingInitInv == RingInit => RingInv
<1> SUFFICES ASSUME RingInit PROVE RingInv
  OBVIOUS
<1>1. RingTypeOK
  BY RingAssumption DEF RingInit, RingTypeOK
<1>2. StoredFrames = 0
  <2>1. Wrap \in Nat \ {0} /\ write - read = 0
    BY RingAssumption DEF RingInit
  <2> QED BY <2>1, ModSmall DEF StoredFrames
<1> QED
  BY <1>1, <1>2, RingAssumption DEF RingInit, RingInv, Bounds, Copied

\* The facts every step starts from.
LEMMA RingFacts ==
  ASSUME RingTypeOK
  PROVE  /\ write \in Int /\ read \in Int
         /\ StoredFrames \in Nat /\ StoredFrames < Wrap
         /\ Capacity \in Nat \ {0} /\ Wrap \in Nat \ {0} /\ Capacity < Wrap
         /\ push.count \in Nat /\ push.i \in Nat /\ push.i <= push.count
         /\ pop.count \in Nat
<1>1. write \in Int /\ read \in Int
  BY RingAssumption DEF RingTypeOK
<1>2. StoredFrames \in 0..Wrap-1 /\ StoredFrames \in Nat
  BY <1>1, StoredRange
<1>3. push.count \in Nat /\ push.i \in Nat /\ push.i <= push.count /\ pop.count \in Nat
  BY RingAssumption DEF RingTypeOK
<1> QED
  BY <1>1, <1>2, <1>3, RingAssumption

LEMMA BlockFacts ==
  ASSUME RingTypeOK
  PROVE  /\ push.block \in Seq(Frames) /\ Len(push.block) \in Nat
         /\ push.count <= Len(push.block)
         /\ pop.dst \in Seq(Frames) /\ Len(pop.dst) \in Nat /\ Len(pop.dst) <= pop.count
<1>1. push.block \in Blocks \cup {<<>>} /\ pop.dst \in Seq(Frames)
  BY DEF RingTypeOK
<1>2. <<>> \in Seq(Frames) /\ Blocks \subseteq Seq(Frames)
  BY RingAssumption
<1>3. push.block \in Seq(Frames)
  BY <1>1, <1>2, Zenon
<1>4. Len(pop.dst) \in Nat /\ Len(push.block) \in Nat
  BY <1>1, <1>3
<1> QED
  BY <1>1, <1>3, <1>4 DEF RingTypeOK

LEMMA PushLoadInv ==
  ASSUME RingInv, NEW block \in Blocks, PushLoad(block)
  PROVE  RingInv'
<1> USE DEF RingInv
<1>1. StoredFrames' = StoredFrames
  BY DEF PushLoad, StoredFrames, consumerVars
<1>2. block \in Seq(Frames) /\ Len(block) \in Nat
  BY RingAssumption
<1>3. /\ Least(Len(block), Capacity - StoredFrames) \in Nat
      /\ Least(Len(block), Capacity - StoredFrames) <= Len(block)
      /\ Least(Len(block), Capacity - StoredFrames) <= Capacity - StoredFrames
  BY <1>2, RingFacts DEF Bounds, Least
<1>4. RingTypeOK'
  BY <1>2, <1>3 DEF RingTypeOK, PushLoad, consumerVars
<1>5. Bounds'
  BY <1>1, <1>3 DEF Bounds, PushLoad, consumerVars
<1>6. Copied'
  BY <1>3 DEF Copied, PushLoad, consumerVars, Index
<1> QED
  BY <1>4, <1>5, <1>6

\* The slot written lies in the room: none of the stored frames and none of
\* the frames copied before it is there.
LEMMA PushCopyInv ==
  ASSUME RingInv, PushCopy
  PROVE  RingInv'
<1> USE DEF RingInv
<1> DEFINE t == Index(write + push.i)
<1>0. /\ push.at = "copy" /\ push.i < push.count
      /\ slot' = [slot EXCEPT ![t] = push.block[push.i + 1]]
      /\ push' = [push EXCEPT !.i = push.i + 1]
      /\ write' = write /\ read' = read /\ pop' = pop /\ out' = out
  BY DEF PushCopy, consumerVars
<1>1. StoredFrames' = StoredFrames
  BY <1>0 DEF StoredFrames
<1>2. t \in 0..Capacity-1
  BY RingFacts, write + push.i \in Int, IndexRange
<1>3. push.block[push.i + 1] \in Frames
  <2>1. push.i + 1 \in 1..Len(push.block) /\ push.block \in Seq(Frames)
    <3>1. push.i < push.count /\ push.count <= Len(push.block)
      BY <1>0, BlockFacts
    <3>2. push.i \in Nat /\ push.count \in Nat
      BY RingFacts
    <3>3. push.block \in Seq(Frames) /\ Len(push.block) \in Nat
      BY BlockFacts
    <3> QED BY <3>1, <3>2, <3>3
  <2> QED BY <2>1
<1>4. RingTypeOK'
  <2>1. slot' \in [0..Capacity-1 -> Frames]
    BY <1>0, <1>3 DEF RingTypeOK
  <2>2. /\ push' \in [at: {"idle", "copy"}, block: Blocks \cup {<<>>}, count: Nat, i: Nat]
        /\ push'.count <= Len(push'.block) /\ push'.i <= push'.count
    <3>1. push.i + 1 \in Nat /\ push.i + 1 <= push.count
      BY <1>0, RingFacts
    <3> QED BY <1>0, <3>1 DEF RingTypeOK
  <2> QED BY <1>0, <2>1, <2>2 DEF RingTypeOK
<1>5. Bounds'
  BY <1>0, <1>1 DEF Bounds, RingTypeOK
<1>6. ASSUME NEW n \in 0..push.i-1 PROVE Index(write + n) # t
  <2>1. /\ write + n \in Int /\ write + push.i \in Int /\ write + n < write + push.i
        /\ (write + push.i) - (write + n) < Capacity
    <3>1. /\ write \in Int /\ push.i \in Nat /\ push.count \in Nat /\ StoredFrames \in Nat
          /\ Capacity \in Nat /\ push.i < push.count /\ push.count <= Capacity - StoredFrames
      BY <1>0, RingFacts DEF Bounds
    <3> QED BY <3>1
  <2> QED BY <2>1, IndexApart
<1>7. ASSUME pop.at = "copy", NEW n \in 1..Len(pop.dst)
      PROVE  Index(read + n - 1) # t
  <2>1. Index(write + push.i) = Index(read + StoredFrames + push.i)
    BY RingFacts, push.i \in Int, WriterBehind
  <2>2. n - 1 < StoredFrames /\ n - 1 >= 0 /\ StoredFrames + push.i < Capacity
    <3>1. /\ push.i < push.count /\ push.count <= Capacity - StoredFrames
          /\ Len(pop.dst) <= pop.count /\ pop.count <= StoredFrames
      BY <1>0, <1>7, BlockFacts DEF Bounds
    <3>2. /\ StoredFrames \in Nat /\ push.i \in Nat /\ push.count \in Nat /\ Capacity \in Nat
          /\ pop.count \in Nat /\ Len(pop.dst) \in Nat
      BY RingFacts, BlockFacts
    <3> QED BY <3>1, <3>2
  <2> DEFINE x == read + n - 1
             y == read + StoredFrames + push.i
  <2>3. x \in Int /\ y \in Int /\ x < y /\ y - x < Capacity
    <3>1. read \in Int /\ StoredFrames \in Nat /\ push.i \in Nat /\ Capacity \in Nat /\ n \in Nat
      BY RingFacts, BlockFacts
    <3> QED BY <2>2, <3>1
  <2> HIDE DEF x, y
  <2>4. Index(x) # Index(y)
    BY <2>3, IndexApart
  <2> QED BY <2>1, <2>4 DEF x, y
<1>8. ASSUME NEW n \in 0..push'.i-1
      PROVE  slot'[Index(write + n)] = push.block[n + 1]
  <2>1. CASE n = push.i
    BY <2>1, <1>0, <1>2 DEF RingTypeOK
  <2>2. CASE n # push.i
    <3>1. n \in 0..push.i-1
      BY <2>2, <1>0, RingFacts DEF RingTypeOK
    <3>2. Index(write + n) # t /\ Index(write + n) \in 0..Capacity-1
      BY <3>1, <1>6, RingFacts, write + n \in Int, IndexRange
    <3>3. slot'[Index(write + n)] = slot[Index(write + n)]
      BY <3>2, <1>0 DEF RingTypeOK
    <3> QED BY <3>1, <3>3, <1>0 DEF Copied
  <2> QED BY <2>1, <2>2
<1>9. ASSUME pop.at = "copy", NEW n \in 1..Len(pop.dst)
      PROVE  slot'[Index(read + n - 1)] = pop.dst[n]
  <2>1. Index(read + n - 1) # t /\ Index(read + n - 1) \in 0..Capacity-1
    BY <1>7, <1>9, RingFacts, IndexRange, read + n - 1 \in Int
  <2>2. slot'[Index(read + n - 1)] = slot[Index(read + n - 1)]
    BY <2>1, <1>0 DEF RingTypeOK
  <2> QED BY <2>2, <1>9 DEF Copied
<1>10. Copied'
  <2>1. push'.block = push.block /\ Index(write)' = Index(write)
    BY <1>0 DEF RingTypeOK, Index
  <2>2. (push.at = "copy")' =>
          /\ push'.block \in Blocks
          /\ \A n \in 0..push'.i-1 : slot'[Index(write + n)] = push'.block[n + 1]
    BY <1>0, <1>8, <2>1 DEF Copied
  <2>3. pop.at = "copy" =>
          \A n \in 1..Len(pop.dst) : pop.dst[n] = slot'[Index(read + n - 1)]
    BY <1>9
  <2> QED BY <1>0, <2>2, <2>3 DEF Copied, Index
<1> QED
  BY <1>4, <1>5, <1>10

LEMMA PushCommitInv ==
  ASSUME RingInv, PushCommit
  PROVE  RingInv' /\ StoredFrames' = StoredFrames + push.count
<1> USE DEF RingInv
<1>0. /\ push.at = "copy" /\ push.i = push.count
      /\ write' = (write + push.count) % Wrap
      /\ push' = [push EXCEPT !.at = "idle"]
      /\ slot' = slot /\ read' = read /\ pop' = pop /\ out' = out
  BY DEF PushCommit, consumerVars
<1>1. StoredFrames' = StoredFrames + push.count
  BY <1>0, RingFacts, StoredAfterPush DEF Bounds
<1>2. (write + push.count) % Wrap \in 0..Wrap-1
  BY RingFacts, write + push.count \in Int, ModRange
<1>3. RingTypeOK'
  BY <1>0, <1>2 DEF RingTypeOK
<1>4. Bounds'
  <2>1. push'.at = "idle" /\ pop' = pop
    BY <1>0 DEF RingTypeOK
  <2>2. StoredFrames + push.count <= Capacity
    BY <1>0, RingFacts DEF Bounds
  <2>3. pop.at = "copy" => pop.count <= StoredFrames + push.count
    BY RingFacts DEF Bounds
  <2> QED BY <1>1, <2>1, <2>2, <2>3 DEF Bounds
<1>5. Copied'
  BY <1>0 DEF Copied, RingTypeOK, Index
<1> QED
  BY <1>1, <1>3, <1>4, <1>5

LEMMA PopLoadInv ==
  ASSUME RingInv, NEW n \in 0..MaxPop, PopLoad(n)
  PROVE  RingInv'
<1> USE DEF RingInv
<1>0. /\ pop' = [at |-> "copy", count |-> Least(n, StoredFrames), dst |-> <<>>]
      /\ write' = write /\ slot' = slot /\ push' = push /\ read' = read /\ out' = out
  BY DEF PopLoad, producerVars
<1>1. StoredFrames' = StoredFrames
  BY <1>0 DEF StoredFrames
<1>2. Least(n, StoredFrames) \in 0..MaxPop /\ Least(n, StoredFrames) <= StoredFrames
  BY RingFacts, RingAssumption DEF Least
<1>3. RingTypeOK'
  BY <1>0, <1>2 DEF RingTypeOK
<1>4. Bounds'
  BY <1>0, <1>1, <1>2 DEF Bounds
<1>5. Copied'
  BY <1>0 DEF Copied, Index
<1> QED
  BY <1>3, <1>4, <1>5

LEMMA PopCopyInv ==
  ASSUME RingInv, PopCopy
  PROVE  RingInv'
<1> USE DEF RingInv
<1> DEFINE f == slot[Index(read + Len(pop.dst))]
<1>0. /\ pop.at = "copy" /\ Len(pop.dst) < pop.count
      /\ pop' = [pop EXCEPT !.dst = Append(pop.dst, f)]
      /\ write' = write /\ slot' = slot /\ push' = push /\ read' = read /\ out' = out
  BY DEF PopCopy, producerVars
<1>1. StoredFrames' = StoredFrames
  BY <1>0 DEF StoredFrames
<1>2. f \in Frames
  BY RingFacts, IndexRange, read + Len(pop.dst) \in Int DEF RingTypeOK
<1> HIDE DEF f
<1>3. /\ pop'.dst = Append(pop.dst, f) /\ pop'.at = "copy" /\ pop'.count = pop.count
      /\ Len(pop'.dst) = Len(pop.dst) + 1 /\ pop'.dst \in Seq(Frames)
  BY <1>0, <1>2, RingFacts DEF RingTypeOK
<1>4. RingTypeOK'
  <2>1. pop' \in [at: {"idle", "copy"}, count: 0..MaxPop, dst: Seq(Frames)]
    BY <1>0, <1>3 DEF RingTypeOK
  <2>2. Len(pop'.dst) <= pop'.count
    BY <1>0, <1>3, RingFacts, BlockFacts
  <2> QED BY <1>0, <2>1, <2>2 DEF RingTypeOK
<1>5. Bounds'
  BY <1>0, <1>1, <1>3 DEF Bounds
<1>6. ASSUME NEW n \in 1..Len(pop'.dst)
      PROVE  pop'.dst[n] = slot[Index(read + n - 1)]
  <2>1. CASE n = Len(pop.dst) + 1
    <3>1. read + n - 1 = read + Len(pop.dst)
      BY <2>1, RingFacts
    <3>2. pop'.dst[n] = f
      BY <2>1, <1>3, <1>2, RingFacts
    <3> QED BY <3>1, <3>2 DEF f
  <2>2. CASE n # Len(pop.dst) + 1
    <3>1. n \in 1..Len(pop.dst)
      BY <2>2, <1>3, RingFacts
    <3>2. pop'.dst[n] = pop.dst[n]
      BY <3>1, <1>3, <1>2, RingFacts
    <3> QED BY <3>1, <3>2, <1>0 DEF Copied
  <2> QED BY <2>1, <2>2
<1>7. Copied'
  BY <1>0, <1>6 DEF Copied, Index
<1> QED
  BY <1>4, <1>5, <1>7

LEMMA PopCommitInv ==
  ASSUME RingInv, PopCommit
  PROVE  RingInv' /\ StoredFrames' = StoredFrames - pop.count
<1> USE DEF RingInv
<1>0. /\ pop.at = "copy" /\ Len(pop.dst) = pop.count
      /\ read' = (read + pop.count) % Wrap
      /\ pop' = [pop EXCEPT !.at = "idle"] /\ out' = pop.dst
      /\ write' = write /\ slot' = slot /\ push' = push
  BY DEF PopCommit, producerVars
<1>1. StoredFrames' = StoredFrames - pop.count
  BY <1>0, RingFacts, StoredAfterPop DEF Bounds
<1>2. (read + pop.count) % Wrap \in 0..Wrap-1
  BY RingFacts, read + pop.count \in Int, ModRange
<1>3. RingTypeOK'
  BY <1>0, <1>2 DEF RingTypeOK
<1>4. Bounds'
  <2>1. pop'.at = "idle" /\ push' = push
    BY <1>0 DEF RingTypeOK
  <2>2. StoredFrames - pop.count <= Capacity
    BY RingFacts DEF Bounds
  <2>3. push.at = "copy" => push.count <= Capacity - (StoredFrames - pop.count)
    BY RingFacts DEF Bounds
  <2> QED BY <1>1, <2>1, <2>2, <2>3 DEF Bounds
<1>5. Copied'
  BY <1>0 DEF Copied, RingTypeOK, Index
<1> QED
  BY <1>1, <1>3, <1>4, <1>5

-----------------------------------------------------------------------------
(* The audio output is the ring and the counters around it.                *)

LEMMA AudioStep == Next => RingNext \/ UNCHANGED ringVars
BY DEF Next, Start, StopDetach, StopDestroy, SinkBlock, SinkStep, SinkCopy,
       SinkCommit, SinkCount, SinkResume, CbPop, CbStep, CbCopy, CbCommit,
       CbCount, CbTrim, RingNext

LEMMA RingStutter == RingInv /\ UNCHANGED ringVars => RingInv'
BY DEF RingInv, RingTypeOK, Bounds, Copied, StoredFrames, Index,
       ringVars, producerVars, consumerVars

LEMMA RingStep == RingInv /\ RingNext => RingInv'
BY PushLoadInv, PushCopyInv, PushCommitInv, PopLoadInv, PopCopyInv,
   PopCommitInv DEF RingNext

\* The ring's inductive invariant holds of the audio output: the indices stay
\* in range, no side copies past the room or the store, and what was copied
\* is what the slots hold.
THEOREM RingCorrect == Spec => []RingInv
<1>1. Init => RingInv
  BY RingInitInv DEF Init
<1>2. RingInv /\ [Next]_vars => RingInv'
  BY AudioStep, RingStep, RingStutter DEF vars
<1> QED
  BY <1>1, <1>2, PTL DEF Spec

\* Every variable keeps its type: the three frame counters wrap with the
\* indices, and the two threads are always at a known place.
THEOREM TypeCorrect == Spec => []TypeOK
<1> DEFINE DeviceOK ==
      /\ stream \in {"closed", "paused", "running"}
      /\ started \in BOOLEAN /\ served \in BOOLEAN
      /\ sink \in {"none", "idle", "push", "count", "resume"}
      /\ cb \in {"idle", "pop", "count", "trim"}
      /\ produced \in 0..Wrap-1 /\ consumed \in 0..Wrap-1 /\ depth \in 0..Wrap-1
<1>0. Wrap \in Nat \ {0}
  BY RingAssumption
<1>1. Init => DeviceOK
  BY <1>0, 0 \in 0..Wrap-1 DEF Init
<1>2. DeviceOK /\ RingInv /\ [Next]_vars => DeviceOK'
  <2> SUFFICES ASSUME DeviceOK, RingInv, [Next]_vars PROVE DeviceOK'
    OBVIOUS
  <2>1. CASE UNCHANGED vars
    BY <2>1 DEF vars, deviceVars, countVars
  <2>2. CASE Start
    BY <2>2 DEF Start, countVars
  <2>3. CASE StopDetach
    BY <2>3 DEF StopDetach, deviceVars, countVars
  <2>4. CASE StopDestroy
    BY <2>4 DEF StopDestroy, countVars
  <2>5. ASSUME NEW block \in Blocks, SinkBlock(block) PROVE DeviceOK'
    BY <2>5 DEF SinkBlock, deviceVars, countVars
  <2>6. CASE SinkCopy
    BY <2>6 DEF SinkCopy, deviceVars, countVars
  <2>7. CASE SinkCommit
    BY <2>7 DEF SinkCommit, deviceVars, countVars
  <2>8. CASE SinkCount
    <3>1. (produced + push.count) % Wrap \in 0..Wrap-1
      BY <1>0, RingFacts, produced + push.count \in Int, ModRange DEF RingInv
    <3> QED BY <2>8, <3>1 DEF SinkCount, deviceVars
  <2>9. CASE SinkResume
    BY <2>9 DEF SinkResume, countVars
  <2>10. ASSUME NEW n \in 0..MaxPop, CbPop(n) PROVE DeviceOK'
    BY <2>10 DEF CbPop, countVars
  <2>11. CASE CbCopy
    BY <2>11 DEF CbCopy, deviceVars, countVars
  <2>12. CASE CbCommit
    BY <2>12 DEF CbCommit, deviceVars, countVars
  <2>13. CASE CbCount
    <3>1. (consumed + pop.count) % Wrap \in 0..Wrap-1
      BY <1>0, RingFacts, consumed + pop.count \in Int, ModRange DEF RingInv
    <3> QED BY <2>13, <3>1 DEF CbCount, deviceVars
  <2>14. CASE CbTrim
    <3>1. (produced - consumed) % Wrap \in 0..Wrap-1
      BY <1>0, produced - consumed \in Int, ModRange
    <3> QED BY <2>14, <3>1 DEF CbTrim, deviceVars
  <2> QED
    BY <2>1, <2>2, <2>3, <2>4, <2>5, <2>6, <2>7, <2>8, <2>9, <2>10, <2>11,
       <2>12, <2>13, <2>14 DEF Next, SinkStep, CbStep
<1>3. RingInv /\ DeviceOK => TypeOK
  BY DEF RingInv, TypeOK
<1> HIDE DEF DeviceOK
<1> QED
  BY <1>1, <1>2, <1>3, RingCorrect, PTL DEF Spec

\* The emulation thread never writes a sample slot that the audio callback is
\* about to read, however the two interleave: m_samples needs no lock.
THEOREM DataRaceFree == Spec => []NoDataRace
<1>1. RingInv => NoDataRace
  <2> SUFFICES ASSUME RingInv, push.at = "copy", pop.at = "copy",
                      NEW n \in push.i..push.count-1,
                      NEW m \in Len(pop.dst)..pop.count-1,
                      Index(write + n) = Index(read + m)
               PROVE  FALSE
    BY DEF NoDataRace, Writing, Reading
  <2>1. /\ write \in Int /\ read \in Int /\ StoredFrames \in Nat
        /\ n \in Nat /\ n < Capacity - StoredFrames
        /\ m \in Nat /\ m < StoredFrames /\ Capacity \in Nat
    <3>1. /\ push.i \in Nat /\ push.count \in Nat /\ push.count <= Capacity - StoredFrames
          /\ pop.count \in Nat /\ Len(pop.dst) \in Nat /\ pop.count <= StoredFrames
          /\ write \in Int /\ read \in Int /\ StoredFrames \in Nat /\ Capacity \in Nat
      BY RingFacts DEF RingInv, Bounds
    <3> QED BY <3>1
  <2>2. Index(write + n) = Index(read + StoredFrames + n)
    BY <2>1, n \in Int, WriterBehind
  <2> DEFINE x == read + m
             y == read + StoredFrames + n
  <2>3. x \in Int /\ y \in Int /\ x < y /\ y - x < Capacity
    BY <2>1
  <2> HIDE DEF x, y
  <2>4. Index(x) # Index(y)
    BY <2>3, IndexApart
  <2> QED
    BY <2>2, <2>4 DEF x, y
<1> QED
  BY <1>1, RingCorrect, PTL

-----------------------------------------------------------------------------
(* The ring implements the bounded FIFO.                                   *)

LEMMA SameSequence ==
  ASSUME NEW S, NEW s \in Seq(S), NEW t \in Seq(S), Len(s) = Len(t),
         \A n \in 1..Len(s) : s[n] = t[n]
  PROVE  s = t
OBVIOUS

\* A step that leaves the indices and the stored slots leaves the queue.
LEMMA QueueKept ==
  ASSUME RingInv, StoredFrames' = StoredFrames,
         \A n \in 1..StoredFrames : slot'[Index(read' + n - 1)] = slot[Index(read + n - 1)]
  PROVE  Queue' = Queue
BY DEF Queue, Index

\* A copied frame is not seen before the index is stored.
LEMMA PushCopyQueue ==
  ASSUME RingInv, PushCopy
  PROVE  Queue' = Queue
<1> DEFINE t == Index(write + push.i)
<1>0. /\ push.at = "copy" /\ push.i < push.count
      /\ slot' = [slot EXCEPT ![t] = push.block[push.i + 1]]
      /\ write' = write /\ read' = read
  BY DEF PushCopy, consumerVars
<1>1. StoredFrames' = StoredFrames
  BY <1>0 DEF StoredFrames
<1>2. ASSUME NEW n \in 1..StoredFrames
      PROVE  slot'[Index(read' + n - 1)] = slot[Index(read + n - 1)]
  <2>0. /\ write \in Int /\ read \in Int /\ StoredFrames \in Nat /\ Capacity \in Nat
        /\ push.i \in Nat /\ push.i \in Int /\ push.i < Capacity - StoredFrames
    BY <1>0, RingFacts DEF RingInv, Bounds
  <2>1. t = Index(read + StoredFrames + push.i)
    BY <2>0, WriterBehind
  <2> DEFINE x == read + n - 1
             y == read + StoredFrames + push.i
  <2>2. x \in Int /\ y \in Int /\ x < y /\ y - x < Capacity
    BY <2>0
  <2>3. read' + n - 1 = x
    BY <1>0
  <2> HIDE DEF x, y
  <2>4. Index(x) # Index(y) /\ Index(x) \in 0..Capacity-1
    BY <2>2, IndexApart, IndexRange
  <2>5. t = Index(y)
    BY <2>1 DEF y
  <2> HIDE DEF t
  <2>6. slot'[Index(x)] = slot[Index(x)]
    BY <1>0, <2>4, <2>5 DEF RingInv, RingTypeOK
  <2> QED
    BY <2>3, <2>6 DEF x
<1> QED
  BY <1>1, <1>2, QueueKept

\* The store of the write index queues the frames copied.
LEMMA PushCommitQueue ==
  ASSUME RingInv, PushCommit
  PROVE  /\ Len(Queue) + push.count <= Capacity
         /\ Queue' = Queue \o SubSeq(push.block, 1, push.count)
<1>0. /\ push.at = "copy" /\ push.i = push.count
      /\ slot' = slot /\ read' = read
      /\ StoredFrames' = StoredFrames + push.count
  BY PushCommitInv DEF PushCommit, consumerVars
<1>1. /\ write \in Int /\ read \in Int /\ StoredFrames \in Nat /\ Capacity \in Nat
      /\ push.count \in Nat /\ push.count <= Capacity - StoredFrames
      /\ push.count <= Len(push.block) /\ push.block \in Seq(Frames)
  <2>1. push.count <= Capacity - StoredFrames
    BY <1>0 DEF RingInv, Bounds
  <2> QED BY <2>1, RingFacts, BlockFacts DEF RingInv
<1> DEFINE q == Queue
           b == SubSeq(push.block, 1, push.count)
           at(n) == slot[Index(read + n - 1)]
<1>2. ASSUME NEW n \in Nat \ {0} PROVE at(n) \in Frames
  BY <1>1, read + n - 1 \in Int, IndexRange DEF RingInv, RingTypeOK
<1>3. q = [n \in 1..StoredFrames |-> at(n)]
  BY DEF Queue
<1>4. Queue' = [n \in 1..StoredFrames + push.count |-> at(n)]
  BY <1>0 DEF Queue, Index
<1>5. b \in Seq(Frames) /\ Len(b) = push.count
      /\ \A n \in 1..push.count : b[n] = push.block[n]
  BY <1>1
<1>6. ASSUME NEW n \in 1..push.count
      PROVE  at(StoredFrames + n) = b[n]
  <2>1. n - 1 \in Int /\ n - 1 \in 0..push.i-1 /\ (n - 1) + 1 = n
    BY <1>0, <1>1
  <2>2. slot[Index(write + (n - 1))] = push.block[n]
    BY <1>0, <2>1 DEF RingInv, Copied
  <2>3. Index(write + (n - 1)) = Index(read + StoredFrames + (n - 1))
    BY <1>1, <2>1, WriterBehind
  <2>4. read + StoredFrames + (n - 1) = read + (StoredFrames + n) - 1
    BY <1>1
  <2> QED
    BY <1>5, <2>2, <2>3, <2>4
<1> HIDE DEF q, b, at
<1>7. q \in Seq(Frames) /\ Len(q) = StoredFrames
  BY <1>1, <1>2, <1>3
<1> DEFINE r == [n \in 1..(StoredFrames + push.count) |-> at(n)]
<1>8. r \in Seq(Frames) /\ Len(r) = StoredFrames + push.count
      /\ \A n \in 1..Len(r) : r[n] = at(n)
  BY <1>1, <1>2
<1>9. q \o b \in Seq(Frames) /\ Len(q \o b) = StoredFrames + push.count
  <2>1. StoredFrames \in Nat /\ push.count \in Nat
    BY <1>1
  <2> QED BY <2>1, <1>5, <1>7
<1>10. ASSUME NEW n \in 1..Len(r) PROVE r[n] = (q \o b)[n]
  <2>0. n \in Nat /\ 1 <= n /\ n <= StoredFrames + push.count /\ r[n] = at(n)
    BY <1>1, <1>8
  <2> HIDE DEF r
  <2>1. CASE n <= StoredFrames
    BY <2>0, <2>1, <1>1, <1>3, <1>5, <1>7
  <2>2. CASE n > StoredFrames
    <3>1. n - StoredFrames \in 1..push.count /\ StoredFrames + (n - StoredFrames) = n
      BY <2>0, <2>2, <1>1
    <3>2. (q \o b)[n] = b[n - StoredFrames]
      <4>1. /\ q \in Seq(Frames) /\ b \in Seq(Frames) /\ n \in Nat
            /\ Len(q) < n /\ n <= Len(q) + Len(b) /\ Len(q) = StoredFrames
        BY <2>0, <2>2, <1>5, <1>7
      <4> QED BY <4>1
    <3>3. at(StoredFrames + (n - StoredFrames)) = b[n - StoredFrames]
      BY <3>1, <1>6
    <3> QED BY <2>0, <3>1, <3>2, <3>3
  <2>3. StoredFrames \in Nat
    BY <1>1
  <2>4. n <= StoredFrames \/ n > StoredFrames
    BY <2>0, <2>3
  <2> QED BY <2>1, <2>2, <2>4
<1>11. q \o b = r
  <2> HIDE DEF r
  <2> QED BY <1>8, <1>9, <1>10, SameSequence
<1>12. Queue' = q \o b
  BY <1>4, <1>11
<1>13. Len(q) + push.count <= Capacity
  BY <1>1, <1>7
<1> QED
  BY <1>12, <1>13 DEF q, b

\* The store of the read index takes the oldest frames, the ones copied.
LEMMA PopCommitQueue ==
  ASSUME RingInv, PopCommit
  PROVE  /\ pop.count \in 0..MaxPop /\ pop.count <= Len(Queue)
         /\ out' = SubSeq(Queue, 1, pop.count)
         /\ Queue' = SubSeq(Queue, pop.count + 1, Len(Queue))
<1>0. /\ pop.at = "copy" /\ Len(pop.dst) = pop.count
      /\ slot' = slot /\ read' = (read + pop.count) % Wrap /\ out' = pop.dst
      /\ StoredFrames' = StoredFrames - pop.count
  BY PopCommitInv DEF PopCommit, producerVars
<1>1. /\ read \in Int /\ StoredFrames \in Nat /\ pop.count \in Nat
      /\ pop.count <= StoredFrames /\ pop.dst \in Seq(Frames) /\ pop.count \in 0..MaxPop
  BY <1>0, RingFacts DEF RingInv, RingTypeOK, Bounds
<1> DEFINE q == Queue
           c == pop.count
           at(n) == slot[Index(read + n - 1)]
<1>2. ASSUME NEW n \in Nat \ {0} PROVE at(n) \in Frames
  BY <1>1, read + n - 1 \in Int, IndexRange DEF RingInv, RingTypeOK
<1>3. q = [n \in 1..StoredFrames |-> at(n)]
  BY DEF Queue
<1>4. ASSUME NEW n \in Nat \ {0}
      PROVE  slot[Index(read' + n - 1)] = at(c + n)
  <2>1. Index(((read + c) % Wrap) + (n - 1)) = Index((read + c) + (n - 1))
    BY <1>1, read + c \in Int, n - 1 \in Int, IndexWraps
  <2>2. (read + c) % Wrap \in Int
    <3>1. Wrap \in Nat \ {0} /\ read + c \in Int
      BY <1>1, RingAssumption
    <3> QED BY <3>1, ModRange
  <2>3. ((read + c) % Wrap) + (n - 1) = read' + n - 1
    BY <1>0, <2>2
  <2>4. (read + c) + (n - 1) = read + (c + n) - 1
    BY <1>1
  <2> QED BY <2>1, <2>3, <2>4
<1>5. Queue' = [n \in 1..(StoredFrames - c) |-> at(c + n)]
  <2>1. Queue' = [n \in 1..(StoredFrames - c) |-> slot[Index(read' + n - 1)]]
    BY <1>0 DEF Queue, Index
  <2> HIDE DEF at
  <2> QED BY <2>1, <1>4
<1>6. \A n \in 1..c : pop.dst[n] = at(n)
  BY <1>0 DEF RingInv, Copied
<1>7. c \in Nat /\ c <= StoredFrames /\ StoredFrames \in Nat /\ Len(pop.dst) = c
  BY <1>0, <1>1
<1> HIDE DEF q, c, at
<1>8. q \in Seq(Frames) /\ Len(q) = StoredFrames /\ \A n \in 1..StoredFrames : q[n] = at(n)
  BY <1>7, <1>2, <1>3
<1>9. SubSeq(q, 1, c) = pop.dst
  <2>1. SubSeq(q, 1, c) \in Seq(Frames) /\ Len(SubSeq(q, 1, c)) = c
    BY <1>7, <1>8
  <2>2. ASSUME NEW n \in 1..c PROVE SubSeq(q, 1, c)[n] = pop.dst[n]
    BY <1>6, <1>7, <1>8
  <2> QED BY <2>1, <2>2, <1>1, <1>7, SameSequence
<1>10. SubSeq(q, c + 1, Len(q)) = [n \in 1..(StoredFrames - c) |-> at(c + n)]
  <2> DEFINE r == [n \in 1..(StoredFrames - c) |-> at(c + n)]
             t == SubSeq(q, c + 1, Len(q))
  <2>1. r \in Seq(Frames) /\ Len(r) = StoredFrames - c
        /\ \A n \in 1..(StoredFrames - c) : r[n] = at(c + n)
    BY <1>2, <1>7
  <2>2. t \in Seq(Frames) /\ Len(t) = StoredFrames - c
        /\ \A n \in 1..(StoredFrames - c) : t[n] = q[c + n]
    BY <1>7, <1>8
  <2>3. ASSUME NEW n \in 1..(StoredFrames - c) PROVE q[c + n] = at(c + n)
    BY <1>7, <1>8
  <2> HIDE DEF r, t
  <2>4. t = r
    BY <2>1, <2>2, <2>3, SameSequence
  <2> QED BY <2>4 DEF r, t
<1> QED
  BY <1>0, <1>1, <1>5, <1>7, <1>8, <1>9, <1>10 DEF q, c

LEMMA QueueStep ==
  ASSUME RingInv, RingNext \/ UNCHANGED ringVars
  PROVE  [Fifo!Next]_<<Queue, out>>
<1>1. CASE UNCHANGED ringVars
  BY <1>1 DEF ringVars, producerVars, consumerVars, Queue, StoredFrames, Index
<1>2. ASSUME NEW block \in Blocks, PushLoad(block) PROVE UNCHANGED <<Queue, out>>
  BY <1>2 DEF PushLoad, consumerVars, Queue, StoredFrames, Index
<1>3. CASE PushCopy
  BY <1>3, PushCopyQueue DEF PushCopy, consumerVars
<1>4. CASE PushCommit
  <2>1. /\ push.block \in Blocks /\ push.count \in Nat /\ push.count <= Len(push.block)
        /\ out' = out
    <3>1. push.block \in Blocks /\ out' = out
      BY <1>4 DEF RingInv, Copied, PushCommit, consumerVars
    <3> QED BY <3>1, RingFacts, BlockFacts DEF RingInv
  <2>2. CASE push.count = 0
    <3>1. StoredFrames' = StoredFrames
      BY <1>4, <2>2, PushCommitInv, RingFacts DEF RingInv
    <3>2. Queue' = Queue
      BY <1>4, <3>1 DEF PushCommit, consumerVars, Queue, Index
    <3> QED BY <2>1, <3>2
  <2>3. CASE push.count # 0
    <3>1. push.count \in 1..Len(push.block)
      BY <2>1, <2>3, RingFacts DEF RingInv
    <3>2. /\ Len(Queue) + push.count <= Capacity
          /\ Queue' = Queue \o SubSeq(push.block, 1, push.count)
      BY <1>4, PushCommitQueue
    <3>3. Fifo!Put
      BY <2>1, <3>1, <3>2 DEF Fifo!Put
    <3> QED BY <3>3 DEF Fifo!Next
  <2> QED BY <2>2, <2>3
<1>5. ASSUME NEW n \in 0..MaxPop, PopLoad(n) PROVE UNCHANGED <<Queue, out>>
  BY <1>5 DEF PopLoad, producerVars, Queue, StoredFrames, Index
<1>6. CASE PopCopy
  BY <1>6 DEF PopCopy, producerVars, Queue, StoredFrames, Index
<1>7. CASE PopCommit
  BY <1>7, PopCommitQueue DEF Fifo!Take, Fifo!Next
<1> QED
  BY <1>1, <1>2, <1>3, <1>4, <1>5, <1>6, <1>7 DEF RingNext

\* The ring between the two threads is a bounded FIFO: every frame stored is
\* handed out once, in order, and a block that does not fit loses its tail
\* and nothing else, across the wrap of the indices.
THEOREM ImplementsFifo == Spec => FifoSpec
<1>1. Init => Fifo!Init
  <2> SUFFICES ASSUME Init PROVE Queue = <<>> /\ out = <<>>
    BY DEF Fifo!Init
  <2>1. Wrap \in Nat \ {0} /\ write - read = 0
    BY RingAssumption DEF Init, RingInit
  <2>2. StoredFrames = 0
    BY <2>1, ModSmall DEF StoredFrames
  <2>3. Queue = <<>>
    BY <2>2 DEF Queue
  <2> QED BY <2>3 DEF Init, RingInit
<1>2. RingInv /\ [Next]_vars => [Fifo!Next]_<<Queue, out>>
  BY QueueStep, AudioStep DEF vars
<1> QED
  BY <1>1, <1>2, RingCorrect, PTL DEF Spec, FifoSpec, Fifo!Spec
=============================================================================
