-------------------------- MODULE RelLoaderProofs --------------------------
(***************************************************************************)
(* Theorems about RelLoader, for any set of modules: its types, that the   *)
(* guest's queue and the loader's table agree, and that what was written   *)
(* over a module's data is pending until its code starts.                  *)
(***************************************************************************)
EXTENDS RelLoader, WellFoundedInduction, TLAPS

-----------------------------------------------------------------------------
(* The queue as a set.                                                     *)

\* S holds the head and with a module the next one.
Closed(S, h, nx) == h \in S \cup {Nil} /\ \A k \in S : nx[k] \in S \cup {Nil}

\* What the links from h lead to: Queue, of any head and links.
Reached(h, nx) == {m \in Mods : \A S \in SUBSET Mods : Closed(S, h, nx) => m \in S}

LEMMA QueueIsReached == Queue = Reached(head, next)
  BY DEF Queue, Reached, Closed

LEMMA QueueIsReachedNext == Queue' = Reached(head', next')
  BY DEF Queue, Reached, Closed

\* The least of the closed sets is what is reached.
LEMMA ReachedIs ==
  ASSUME NEW h, NEW nx, NEW Q \in SUBSET Mods, Closed(Q, h, nx),
         \A S \in SUBSET Mods : Closed(S, h, nx) => Q \subseteq S
  PROVE  Reached(h, nx) = Q
  BY DEF Reached

LEMMA ReachedLeast ==
  ASSUME NEW h, NEW nx, NEW S \in SUBSET Mods, Closed(S, h, nx)
  PROVE  Reached(h, nx) \subseteq S
  BY DEF Reached

LEMMA ReachedClosed ==
  ASSUME NEW h \in Mods \cup {Nil}, NEW nx \in [Mods -> Mods \cup {Nil}]
  PROVE  Closed(Reached(h, nx), h, nx)
<1>1. h \in Reached(h, nx) \cup {Nil}
  BY DEF Reached, Closed
<1>2. ASSUME NEW k \in Reached(h, nx) PROVE nx[k] \in Reached(h, nx) \cup {Nil}
  <2>1. k \in Mods /\ nx[k] \in Mods \cup {Nil}
    BY <1>2 DEF Reached
  <2>2. ASSUME NEW S \in SUBSET Mods, Closed(S, h, nx), nx[k] # Nil PROVE nx[k] \in S
    <3>1. k \in S
      BY <1>2, <2>2 DEF Reached
    <3> QED BY <2>2, <3>1 DEF Closed
  <2> QED BY <2>1, <2>2 DEF Reached
<1> QED BY <1>1, <1>2 DEF Closed

LEMMA ReachedTyped ==
  ASSUME NEW h, NEW nx PROVE Reached(h, nx) \subseteq Mods
  BY DEF Reached

-----------------------------------------------------------------------------
(* The inductive invariant.                                                *)

LinksTyped ==
  /\ next \in [Mods -> Mods \cup {Nil}] /\ prev \in [Mods -> Mods \cup {Nil}]
  /\ head \in Mods \cup {Nil} /\ tail \in Mods \cup {Nil}

\* The queue is a doubly linked list from the head to the tail, and no other
\* header has links.
Listed ==
  /\ \A m \in Queue : IF next[m] = Nil THEN tail = m ELSE prev[next[m]] = m
  /\ \A m \in Queue : IF prev[m] = Nil THEN head = m
                      ELSE prev[m] \in Queue /\ next[prev[m]] = m
  /\ head = Nil <=> tail = Nil
  /\ head # Nil => prev[head] = Nil
  /\ tail # Nil => tail \in Queue /\ next[tail] = Nil
  /\ \A m \in Mods \ Queue : next[m] = Nil /\ prev[m] = Nil

\* The table has the queue's modules, and the journal looks at all of them.
Tabled == (table = Queue \/ unseen) /\ covered = table

IInv == TypeOK /\ Listed /\ Tabled /\ OverwritesPending

-----------------------------------------------------------------------------
(* The queue grows at its tail.                                            *)

LEMMA EnqueueLinks ==
  ASSUME LinksTyped, Nil \notin Mods, NEW m \in Mods, Enqueue(m)
  PROVE  /\ LinksTyped'
         /\ \A k \in Mods : prev'[k] = IF k = m THEN tail ELSE prev[k]
         /\ \A k \in Mods : next'[k] = IF k = tail THEN m
                                       ELSE IF k = m THEN Nil ELSE next[k]
  BY DEF LinksTyped, Enqueue

LEMMA EnqueueQueue ==
  ASSUME LinksTyped, Nil \notin Mods, Listed, NEW m \in Mods \ Queue, Enqueue(m)
  PROVE  Queue' = Queue \cup {m}
<1> DEFINE Q == Queue
           N == Q \cup {m}
<1>1. /\ Q \in SUBSET Mods /\ Closed(Q, head, next)
      /\ \A S \in SUBSET Mods : Closed(S, head, next) => Q \subseteq S
  BY QueueIsReached, ReachedTyped, ReachedClosed, ReachedLeast DEF LinksTyped
<1>2. /\ \A k \in Mods : next'[k] = IF k = tail THEN m ELSE IF k = m THEN Nil ELSE next[k]
      /\ head' = IF tail = Nil THEN m ELSE head
  BY EnqueueLinks DEF Enqueue
<1>3. /\ head = Nil <=> tail = Nil
      /\ tail # Nil => tail \in Q /\ next[tail] = Nil
      /\ next[m] = Nil
  BY DEF Listed
<1> HIDE DEF Q
<1>4. Closed(N, head', next')
  BY <1>1, <1>2, <1>3 DEF Closed
<1>5. ASSUME NEW S \in SUBSET Mods, Closed(S, head', next') PROVE N \subseteq S
  <2>1. m \in S => Closed(S, head, next)
    BY <1>1, <1>2, <1>3, <1>5 DEF Closed
  <2>2. CASE tail = Nil
    BY <1>1, <1>2, <1>3, <1>5, <2>1, <2>2 DEF Closed
  <2>3. CASE tail # Nil
    <3>1. Closed(S, head, next)
      BY <1>1, <1>2, <1>3, <1>5, <2>3 DEF Closed
    <3>2. tail \in S /\ tail \in Mods
      BY <1>1, <1>3, <1>5, <3>1, <2>3
    <3>3. next'[tail] = m /\ m # Nil
      BY <1>2, <3>2
    <3> QED BY <1>1, <1>5, <3>1, <3>2, <3>3 DEF Closed
  <2> QED BY <2>2, <2>3
<1>6. Reached(head', next') = N
  BY <1>1, <1>4, <1>5, ReachedIs
<1> QED BY <1>6, QueueIsReachedNext DEF Q

LEMMA EnqueueListed ==
  ASSUME LinksTyped, Nil \notin Mods, Listed, NEW m \in Mods \ Queue, Enqueue(m)
  PROVE  Listed'
<1>1. /\ \A k \in Mods : prev'[k] = IF k = m THEN tail ELSE prev[k]
      /\ \A k \in Mods : next'[k] = IF k = tail THEN m
                                    ELSE IF k = m THEN Nil ELSE next[k]
      /\ head' = IF tail = Nil THEN m ELSE head
      /\ tail' = m
  BY EnqueueLinks DEF Enqueue
<1>2. Queue' = Queue \cup {m} /\ Queue \subseteq Mods
  BY EnqueueQueue, QueueIsReached, ReachedTyped
<1>3. Closed(Queue, head, next)
  BY QueueIsReached, ReachedClosed DEF LinksTyped
<1>4. ASSUME NEW k \in Queue'
      PROVE  IF next'[k] = Nil THEN tail' = k ELSE prev'[next'[k]] = k
  BY <1>1, <1>2, <1>3 DEF Listed, Closed
<1>5. ASSUME NEW k \in Queue'
      PROVE  IF prev'[k] = Nil THEN head' = k
             ELSE prev'[k] \in Queue' /\ next'[prev'[k]] = k
  BY <1>1, <1>2, <1>3 DEF Listed, Closed
<1>6. \A k \in Mods \ Queue' : next'[k] = Nil /\ prev'[k] = Nil
  BY <1>1, <1>2 DEF Listed
<1>7. /\ head' = Nil <=> tail' = Nil
      /\ head' # Nil => prev'[head'] = Nil
      /\ tail' # Nil => tail' \in Queue' /\ next'[tail'] = Nil
  BY <1>1, <1>2, <1>3 DEF Listed, Closed, LinksTyped
<1> QED BY <1>4, <1>5, <1>6, <1>7 DEF Listed

-----------------------------------------------------------------------------
(* A module leaves the queue, wherever in it it is.                        *)

LEMMA DequeueLinks ==
  ASSUME LinksTyped, Nil \notin Mods, NEW m \in Mods, Dequeue(m)
  PROVE  /\ LinksTyped'
         /\ \A k \in Mods : prev'[k] = IF k = m THEN Nil
                                       ELSE IF k = next[m] THEN prev[m] ELSE prev[k]
         /\ \A k \in Mods : next'[k] = IF k = m THEN Nil
                                       ELSE IF k = prev[m] THEN next[m] ELSE next[k]
  BY DEF LinksTyped, Dequeue

LEMMA DequeueQueue ==
  ASSUME LinksTyped, Nil \notin Mods, Listed, NEW m \in Queue, Dequeue(m)
  PROVE  Queue' = Queue \ {m}
<1> DEFINE Q == Queue
           N == Q \ {m}
<1>1. /\ Q \in SUBSET Mods /\ Closed(Q, head, next)
      /\ \A S \in SUBSET Mods : Closed(S, head, next) => Q \subseteq S
  BY QueueIsReached, ReachedTyped, ReachedClosed, ReachedLeast DEF LinksTyped
<1>2. m \in Mods /\ m \in Q
  BY <1>1
<1>3. /\ \A k \in Mods : next'[k] = IF k = m THEN Nil
                                    ELSE IF k = prev[m] THEN next[m] ELSE next[k]
      /\ head' = IF prev[m] = Nil THEN next[m] ELSE head
  BY <1>2, DequeueLinks DEF Dequeue
<1>4. /\ \A k \in Q : IF next[k] = Nil THEN tail = k ELSE prev[next[k]] = k
      /\ \A k \in Q : IF prev[k] = Nil THEN head = k ELSE prev[k] \in Q /\ next[prev[k]] = k
      /\ \A k \in Mods \ Q : next[k] = Nil
      /\ head # Nil => prev[head] = Nil
  BY DEF Listed
<1> HIDE DEF Q
\* Only the module before m leads to m.
<1>5. \A k \in Mods : next[k] = m => k = prev[m]
  BY <1>1, <1>2, <1>4 DEF LinksTyped
<1>6. next[m] # m
  <2>1. CASE next[m] = m
    <3>1. prev[m] = m
      BY <1>2, <1>4, <2>1
    <3>2. head # m
      BY <1>2, <1>4, <3>1
    <3>3. Closed(Q \ {m}, head, next)
      BY <1>1, <1>2, <1>5, <3>1, <3>2 DEF Closed
    <3> QED BY <1>1, <1>2, <3>3
  <2> QED BY <2>1
<1>7. prev[m] # m
  BY <1>2, <1>4, <1>6
<1>8. Closed(N, head', next')
  <2>1. head' \in N \cup {Nil}
    BY <1>1, <1>2, <1>3, <1>4, <1>6 DEF Closed
  <2>2. ASSUME NEW k \in N PROVE next'[k] \in N \cup {Nil}
    <3>1. k \in Mods /\ k # m /\ k \in Q
      BY <1>1
    <3>2. CASE k = prev[m]
      BY <1>1, <1>2, <1>3, <1>6, <3>1, <3>2 DEF Closed
    <3>3. CASE k # prev[m]
      BY <1>1, <1>3, <1>5, <3>1, <3>3 DEF Closed
    <3> QED BY <3>2, <3>3
  <2> QED BY <2>1, <2>2 DEF Closed
<1>9. ASSUME NEW S \in SUBSET Mods, Closed(S, head', next') PROVE N \subseteq S
  <2>1. CASE prev[m] \in S \cup {Nil}
    <3>1. next[m] \in S \cup {Nil}
      BY <1>2, <1>3, <1>7, <1>9, <2>1 DEF Closed
    <3>2. head \in S \cup {m, Nil}
      BY <1>2, <1>3, <1>4, <1>9 DEF Closed
    <3>3. ASSUME NEW k \in S, k # m PROVE next[k] \in S \cup {m, Nil}
      BY <1>2, <1>3, <1>4, <1>9, <3>3 DEF Closed
    <3>4. Closed(S \cup {m}, head, next)
      BY <1>2, <3>1, <3>2, <3>3 DEF Closed
    <3>5. Q \subseteq S \cup {m}
      BY <1>1, <1>2, <3>4
    <3> QED BY <3>5
  <2>2. CASE prev[m] \notin S \cup {Nil}
    <3>1. head \in (S \ {m}) \cup {Nil}
      BY <1>2, <1>3, <1>4, <1>9, <2>2 DEF Closed
    <3>2. ASSUME NEW k \in S \ {m} PROVE next[k] \in (S \ {m}) \cup {Nil}
      <4>1. k \in Mods /\ k # m /\ k # prev[m]
        BY <2>2, <3>2
      <4>2. next'[k] = next[k] /\ next[k] # m
        BY <1>3, <1>5, <4>1
      <4> QED BY <1>9, <4>2 DEF Closed
    <3>3. Closed(S \ {m}, head, next)
      BY <3>1, <3>2 DEF Closed
    <3> QED BY <1>1, <3>3
  <2> QED BY <2>1, <2>2
<1>10. Reached(head', next') = N
  BY <1>1, <1>8, <1>9, ReachedIs
<1> QED BY <1>10, QueueIsReachedNext DEF Q

LEMMA DequeueListed ==
  ASSUME LinksTyped, Nil \notin Mods, Listed, NEW m \in Queue, Dequeue(m)
  PROVE  Listed'
<1>1. m \in Mods /\ Queue' = Queue \ {m} /\ Queue \subseteq Mods
  BY DequeueQueue, QueueIsReached, ReachedTyped
<1>2. /\ \A k \in Mods : prev'[k] = IF k = m THEN Nil
                                    ELSE IF k = next[m] THEN prev[m] ELSE prev[k]
      /\ \A k \in Mods : next'[k] = IF k = m THEN Nil
                                    ELSE IF k = prev[m] THEN next[m] ELSE next[k]
      /\ head' = IF prev[m] = Nil THEN next[m] ELSE head
      /\ tail' = IF next[m] = Nil THEN prev[m] ELSE tail
  BY <1>1, DequeueLinks DEF Dequeue
<1>3. Closed(Queue, head, next) /\ Closed(Queue', head', next')
  <2>1. LinksTyped'
    BY <1>1, DequeueLinks
  <2> QED BY <2>1, QueueIsReached, QueueIsReachedNext, ReachedClosed DEF LinksTyped
<1>4. ASSUME NEW k \in Queue'
      PROVE  IF next'[k] = Nil THEN tail' = k ELSE prev'[next'[k]] = k
  <2>1. k \in Queue /\ k # m /\ k \in Mods
    BY <1>1
  <2>2. CASE k = prev[m]
    BY <1>1, <1>2, <1>3, <2>1, <2>2 DEF Listed, Closed
  <2>3. CASE k # prev[m]
    BY <1>1, <1>2, <1>3, <2>1, <2>3 DEF Listed, Closed
  <2> QED BY <2>2, <2>3
<1>5. ASSUME NEW k \in Queue'
      PROVE  IF prev'[k] = Nil THEN head' = k
             ELSE prev'[k] \in Queue' /\ next'[prev'[k]] = k
  <2>1. k \in Queue /\ k # m /\ k \in Mods
    BY <1>1
  <2>2. CASE k = next[m]
    BY <1>1, <1>2, <1>3, <2>1, <2>2 DEF Listed, Closed
  <2>3. CASE k # next[m]
    BY <1>1, <1>2, <1>3, <2>1, <2>3 DEF Listed, Closed
  <2> QED BY <2>2, <2>3
<1>6. \A k \in Mods \ Queue' : next'[k] = Nil /\ prev'[k] = Nil
  BY <1>1, <1>2, <1>3 DEF Listed, Closed
<1>7. /\ head' = Nil <=> tail' = Nil
      /\ head' # Nil => prev'[head'] = Nil
      /\ tail' # Nil => tail' \in Queue' /\ next'[tail'] = Nil
  BY <1>1, <1>2, <1>3 DEF Listed, Closed, LinksTyped
<1> QED BY <1>4, <1>5, <1>6, <1>7 DEF Listed

-----------------------------------------------------------------------------
(* A restored queue.                                                       *)

\* A set of numbers has a least one.
LEMMA Least ==
  ASSUME NEW T, T \subseteq Nat, T # {}
  PROVE  \E x \in T : \A y \in T : x <= y
<1>1. IsWellFoundedOn(OpToRel(<, Nat), Nat)
  BY NatLessThanWellFounded
<1>2. PICK x \in T : \A y \in T : <<y, x>> \notin OpToRel(<, Nat)
  BY <1>1, WFMin
<1>3. \A y \in T : ~(y < x)
  BY <1>2 DEF OpToRel
<1> QED BY <1>3

\* The headers of a queue that was saved: q in order.
Laid(q) ==
  /\ head' = IF q = <<>> THEN Nil ELSE q[1]
  /\ tail' = IF q = <<>> THEN Nil ELSE q[Len(q)]
  /\ \A i \in DOMAIN q : /\ next'[q[i]] = IF i = Len(q) THEN Nil ELSE q[i + 1]
                         /\ prev'[q[i]] = IF i = 1 THEN Nil ELSE q[i - 1]
  /\ \A m \in Mods : (\A i \in DOMAIN q : q[i] # m) => next'[m] = Nil /\ prev'[m] = Nil

LEMMA QueuesTyped ==
  ASSUME NEW q \in Queues
  PROVE  /\ q \in Seq(Mods) /\ Len(q) \in Nat /\ DOMAIN q = 1 .. Len(q)
         /\ \A i \in DOMAIN q : q[i] \in Mods
         /\ \A i, j \in DOMAIN q : q[i] = q[j] => i = j
         /\ q = <<>> <=> Len(q) = 0
<1>1. PICK n \in 0 .. Cardinality(Mods) : q \in [1 .. n -> Mods]
  BY DEF Queues
<1>2. n \in Nat
  BY <1>1
<1>3. q \in Seq(Mods) /\ Len(q) = n
  BY <1>1, <1>2
<1>4. \A i, j \in DOMAIN q : q[i] = q[j] => i = j
  BY DEF Queues
<1> QED BY <1>1, <1>2, <1>3, <1>4

LEMMA RestoreLays ==
  ASSUME Nil \notin Mods, NEW q \in Queues, NEW w, Restore(q, w)
  PROVE  LinksTyped' /\ Laid(q)
<1> DEFINE nodes == {q[i] : i \in DOMAIN q}
           at(m) == CHOOSE i \in DOMAIN q : q[i] = m
<1>1. /\ q \in Seq(Mods) /\ Len(q) \in Nat /\ DOMAIN q = 1 .. Len(q)
      /\ \A i \in DOMAIN q : q[i] \in Mods
      /\ \A i, j \in DOMAIN q : q[i] = q[j] => i = j
      /\ q = <<>> <=> Len(q) = 0
  BY QueuesTyped
<1>2. /\ head' = IF q = <<>> THEN Nil ELSE q[1]
      /\ tail' = IF q = <<>> THEN Nil ELSE q[Len(q)]
      /\ next' = [m \in Mods |-> IF m \in nodes /\ m # q[Len(q)] THEN q[at(m) + 1] ELSE Nil]
      /\ prev' = [m \in Mods |-> IF m \in nodes /\ m # q[1] THEN q[at(m) - 1] ELSE Nil]
  BY DEF Restore
<1>3. \A i \in DOMAIN q : at(q[i]) = i
  BY <1>1
<1>4. \A m \in nodes : \E i \in DOMAIN q : m = q[i]
  OBVIOUS
<1>5. \A m \in nodes : at(m) \in DOMAIN q /\ q[at(m)] = m
  BY <1>3
<1>6. \A i \in DOMAIN q : q[i] \in nodes
  OBVIOUS
<1>7. \A m \in Mods : (\A i \in DOMAIN q : q[i] # m) => m \notin nodes
  OBVIOUS
<1> HIDE DEF nodes, at
<1>8. \A i \in DOMAIN q : /\ next'[q[i]] = IF i = Len(q) THEN Nil ELSE q[i + 1]
                         /\ prev'[q[i]] = IF i = 1 THEN Nil ELSE q[i - 1]
  BY <1>1, <1>2, <1>3, <1>6
<1>9. \A m \in Mods : (\A i \in DOMAIN q : q[i] # m) => next'[m] = Nil /\ prev'[m] = Nil
  BY <1>2, <1>7
<1>10. Laid(q)
  BY <1>2, <1>8, <1>9 DEF Laid
<1>11. head' \in Mods \cup {Nil} /\ tail' \in Mods \cup {Nil}
  BY <1>1, <1>2
<1>12. ASSUME NEW m \in Mods
       PROVE  next'[m] \in Mods \cup {Nil} /\ prev'[m] \in Mods \cup {Nil}
  <2>1. CASE \A i \in DOMAIN q : q[i] # m
    BY <1>9, <2>1
  <2>2. CASE \E i \in DOMAIN q : q[i] = m
    <3>1. PICK i \in DOMAIN q : q[i] = m
      BY <2>2
    <3>2. (i = Len(q) \/ i + 1 \in DOMAIN q) /\ (i = 1 \/ i - 1 \in DOMAIN q)
      BY <1>1
    <3>3. /\ next'[m] = IF i = Len(q) THEN Nil ELSE q[i + 1]
          /\ prev'[m] = IF i = 1 THEN Nil ELSE q[i - 1]
      BY <1>8, <3>1
    <3> QED BY <1>1, <3>2, <3>3
  <2> QED BY <2>1, <2>2
<1> QED BY <1>2, <1>10, <1>11, <1>12 DEF LinksTyped

LEMMA LaidQueue ==
  ASSUME Nil \notin Mods, NEW q \in Queues, Laid(q)
  PROVE  Queue' = {q[i] : i \in DOMAIN q}
<1> DEFINE nodes == {q[i] : i \in DOMAIN q}
<1>1. /\ Len(q) \in Nat /\ DOMAIN q = 1 .. Len(q)
      /\ \A i \in DOMAIN q : q[i] \in Mods
      /\ q = <<>> <=> Len(q) = 0
  BY QueuesTyped
<1>2. nodes \in SUBSET Mods
  BY <1>1
<1>3. Closed(nodes, head', next')
  BY <1>1 DEF Closed, Laid
<1>4. ASSUME NEW S \in SUBSET Mods, Closed(S, head', next') PROVE nodes \subseteq S
  <2> DEFINE Out == {i \in DOMAIN q : q[i] \notin S}
  <2>1. CASE Out = {}
    BY <2>1
  <2>2. CASE Out # {}
    <3>1. Out \subseteq Nat
      BY <1>1
    <3>2. PICK i \in Out : \A j \in Out : i <= j
      BY <2>2, <3>1, Least
    <3>3. i # 1
      BY <1>1, <1>4, <3>2 DEF Closed, Laid
    <3>4. i - 1 \in DOMAIN q /\ i - 1 \notin Out /\ i - 1 # Len(q)
      BY <1>1, <3>2, <3>3
    <3>5. next'[q[i - 1]] = q[i] /\ q[i - 1] \in S
      BY <1>1, <3>2, <3>4 DEF Laid
    <3> QED BY <1>1, <1>4, <3>2, <3>5 DEF Closed
  <2> QED BY <2>1, <2>2
<1>5. Reached(head', next') = nodes
  BY <1>2, <1>3, <1>4, ReachedIs
<1> QED BY <1>5, QueueIsReachedNext

LEMMA LaidListed ==
  ASSUME Nil \notin Mods, NEW q \in Queues, Laid(q)
  PROVE  Listed'
<1>1. /\ Len(q) \in Nat /\ DOMAIN q = 1 .. Len(q)
      /\ \A i \in DOMAIN q : q[i] \in Mods
      /\ q = <<>> <=> Len(q) = 0
  BY QueuesTyped
<1>2. Queue' = {q[i] : i \in DOMAIN q}
  BY LaidQueue
<1>3. ASSUME NEW i \in DOMAIN q
      PROVE  /\ IF next'[q[i]] = Nil THEN tail' = q[i] ELSE prev'[next'[q[i]]] = q[i]
             /\ IF prev'[q[i]] = Nil THEN head' = q[i]
                ELSE prev'[q[i]] \in Queue' /\ next'[prev'[q[i]]] = q[i]
  <2>1. i = Len(q) \/ i + 1 \in DOMAIN q
    BY <1>1
  <2>2. i = 1 \/ i - 1 \in DOMAIN q
    BY <1>1
  <2>3. i = Len(q) => next'[q[i]] = Nil /\ tail' = q[i]
    BY <1>1 DEF Laid
  <2>4. ASSUME i # Len(q) PROVE next'[q[i]] # Nil /\ prev'[next'[q[i]]] = q[i]
    <3>1. i + 1 \in DOMAIN q /\ i + 1 # 1 /\ (i + 1) - 1 = i
      BY <1>1, <2>1, <2>4
    <3>2. next'[q[i]] = q[i + 1] /\ q[i + 1] # Nil
      BY <1>1, <2>4, <3>1 DEF Laid
    <3>3. prev'[q[i + 1]] = q[i]
      BY <3>1 DEF Laid
    <3> QED BY <3>2, <3>3
  <2>5. i = 1 => prev'[q[i]] = Nil /\ head' = q[i]
    BY <1>1 DEF Laid
  <2>6. ASSUME i # 1
        PROVE  /\ prev'[q[i]] # Nil /\ prev'[q[i]] \in Queue'
               /\ next'[prev'[q[i]]] = q[i]
    <3>1. i - 1 \in DOMAIN q /\ i - 1 # Len(q) /\ (i - 1) + 1 = i
      BY <1>1, <2>2, <2>6
    <3>2. prev'[q[i]] = q[i - 1] /\ q[i - 1] # Nil /\ q[i - 1] \in Queue'
      BY <1>1, <1>2, <2>6, <3>1 DEF Laid
    <3>3. next'[q[i - 1]] = q[i]
      BY <3>1 DEF Laid
    <3> QED BY <3>2, <3>3
  <2>7. IF next'[q[i]] = Nil THEN tail' = q[i] ELSE prev'[next'[q[i]]] = q[i]
    BY <2>3, <2>4
  <2> QED BY <2>5, <2>6, <2>7
<1>4. \A m \in Mods \ Queue' : next'[m] = Nil /\ prev'[m] = Nil
  BY <1>2 DEF Laid
<1>5. /\ head' = Nil <=> tail' = Nil
      /\ head' # Nil => prev'[head'] = Nil
      /\ tail' # Nil => tail' \in Queue' /\ next'[tail'] = Nil
  BY <1>1, <1>2 DEF Laid
<1> QED BY <1>2, <1>3, <1>4, <1>5 DEF Listed

-----------------------------------------------------------------------------
(* Every step keeps the invariant.  Of an action two things are shown: what *)
(* it does to the queue and the table, and what it leaves pending.         *)

LEMMA QueueKept ==
  ASSUME UNCHANGED queueVars
  PROVE  /\ Queue' = Queue
         /\ Listed => Listed'
         /\ LinksTyped => LinksTyped'
<1>1. UNCHANGED <<next, prev, head, tail>>
  BY DEF queueVars
<1>2. Queue' = Queue
  BY <1>1, QueueIsReached, QueueIsReachedNext
<1> QED BY <1>1, <1>2 DEF Listed, LinksTyped

LEMMA InitIInv == ASSUME Init PROVE IInv
<1>1. Closed({}, head, next)
  BY DEF Init, Closed
<1>2. Queue = {}
  BY <1>1, QueueIsReached, ReachedLeast
<1>3. chunks \in Seq(Mods) /\ Len(chunks) <= MaxNest
  BY LoaderAssumption DEF Init
<1>4. limg \in [Mods -> [Parts -> Words]]
  BY DEF Init, All, Words
<1>5. TypeOK
  BY <1>3, <1>4 DEF Init, TypeOK
<1> QED BY <1>2, <1>5 DEF Init, IInv, Listed, Tabled, OverwritesPending

LEMMA LinkIInv ==
  ASSUME IInv, NEW m \in Mods, NEW importers \in SUBSET (Queue \cap Touched),
         NEW part \in Parts, Link(m, importers, part)
  PROVE  IInv'
<1>1. m \in Mods \ Queue /\ Enqueue(m) /\ LinksTyped /\ Nil \notin Mods
  BY LoaderAssumption DEF Link, IInv, TypeOK, LinksTyped
<1>2. LinksTyped' /\ Listed' /\ Queue' = Queue \cup {m}
  BY <1>1, EnqueueLinks, EnqueueListed, EnqueueQueue DEF IInv
<1>3. /\ table' = table \cup {m} /\ covered' = table' /\ dirty' = dirty \ {m}
      /\ lagging' = lagging \ {m} /\ sig' = <<head', tail'>>
      /\ unchecked' = unchecked \ {m} /\ UNCHANGED <<chunks, unseen>>
  BY DEF Link, Register, Covering, NoteQueueChange
<1>4. limg' = [Patched(importers, part) EXCEPT ![m] = All("R")]
  BY DEF Link
<1>5. Patched(importers, part) \in [Mods -> [Parts -> Words]]
  BY DEF Patched, IInv, TypeOK, Words
<1>6. limg' \in [Mods -> [Parts -> Words]]
  BY <1>4, <1>5 DEF All, Words
<1>7. TypeOK'
  BY <1>2, <1>3, <1>6 DEF IInv, TypeOK, LinksTyped
<1>8. Tabled'
  BY <1>2, <1>3 DEF IInv, Tabled
<1>9. limg'[m] = All("R")
  BY <1>4, <1>5
<1>10. \A k \in Mods \ {m}, p \in Parts : limg'[k][p] \in {limg[k][p], "unpatched"}
  BY <1>4, <1>5 DEF Patched, IInv, TypeOK
<1>11. OverwritesPending'
  BY <1>3, <1>9, <1>10 DEF IInv, TypeOK, OverwritesPending, All, Parts
<1> QED BY <1>2, <1>7, <1>8, <1>11 DEF IInv

LEMMA UnlinkIInv ==
  ASSUME IInv, NEW m \in Mods, Unlink(m)
  PROVE  IInv'
<1>1. m \in Queue /\ Dequeue(m) /\ LinksTyped /\ Nil \notin Mods
  BY LoaderAssumption DEF Unlink, IInv, TypeOK, LinksTyped
<1>2. LinksTyped' /\ Listed' /\ Queue' = Queue \ {m}
  BY <1>1, DequeueLinks, DequeueListed, DequeueQueue DEF IInv
<1>3. /\ table' = table \ {m} /\ covered' = table' /\ dirty' = dirty \ {m}
      /\ lagging' = lagging \ {m} /\ sig' = <<head', tail'>>
      /\ unchecked' = unchecked \ {m} /\ UNCHANGED <<chunks, unseen>>
      /\ limg' = IF m \in table THEN [limg EXCEPT ![m] = All("zero")] ELSE limg
  BY DEF Unlink, Remove, Covering, NoteQueueChange
<1>4. limg' \in [Mods -> [Parts -> Words]]
  BY <1>3 DEF IInv, TypeOK, All, Words
<1>5. TypeOK'
  BY <1>2, <1>3, <1>4 DEF IInv, TypeOK, LinksTyped
<1>6. Tabled'
  BY <1>2, <1>3 DEF IInv, Tabled
<1>7. \A k \in Mods \ {m} : limg'[k] = limg[k]
  BY <1>3 DEF IInv, TypeOK
<1>8. OverwritesPending'
  BY <1>3, <1>7 DEF IInv, TypeOK, OverwritesPending
<1> QED BY <1>2, <1>5, <1>6, <1>8 DEF IInv

LEMMA ModuleInitIInv ==
  ASSUME IInv, ModuleInit
  PROVE  IInv'
<1>1. /\ head' = Nil /\ tail' = Nil
      /\ next' = [m \in Mods |-> Nil] /\ prev' = [m \in Mods |-> Nil]
      /\ table' = {} /\ dirty' = {} /\ lagging' = {} /\ covered' = {}
      /\ sig' = <<Nil, Nil>> /\ unseen' = FALSE /\ unchecked' = {}
      /\ UNCHANGED <<limg, chunks>>
  BY DEF ModuleInit, Covering
<1>2. Closed({}, head', next')
  BY <1>1 DEF Closed
<1>3. Queue' = {}
  BY <1>2, QueueIsReachedNext, ReachedLeast
<1>4. TypeOK'
  BY <1>1 DEF IInv, TypeOK
<1> QED BY <1>1, <1>3, <1>4 DEF IInv, Listed, Tabled, OverwritesPending

LEMMA AllocIInv ==
  ASSUME IInv, NEW m \in Touched, NEW parts \in SUBSET Parts, Alloc(m, parts)
  PROVE  IInv'
<1>1. /\ lagging' = table
      /\ limg' = [limg EXCEPT ![m] = [p \in Parts |-> IF p \in parts THEN "fill" ELSE limg[m][p]]]
      /\ UNCHANGED <<queueVars, table, dirty, covered, sig, chunks, unseen, unchecked>>
  BY DEF Alloc, GenerationBump
<1>2. m \in Mods
  BY LoaderAssumption
<1>3. Queue' = Queue /\ Listed' /\ LinksTyped'
  BY <1>1, QueueKept DEF IInv, TypeOK, LinksTyped
<1>4. limg' \in [Mods -> [Parts -> Words]]
  BY <1>1, <1>2 DEF IInv, TypeOK, Words
<1>5. TypeOK'
  BY <1>1, <1>3, <1>4 DEF IInv, TypeOK, LinksTyped
<1>6. Tabled'
  BY <1>1, <1>3 DEF IInv, Tabled
<1>7. \A k \in Mods, p \in Parts : limg'[k][p] \in {limg[k][p], "fill"}
  BY <1>1, <1>2 DEF IInv, TypeOK
<1>8. OverwritesPending'
  BY <1>1, <1>7 DEF IInv, TypeOK, OverwritesPending
<1> QED BY <1>3, <1>5, <1>6, <1>8 DEF IInv

LEMMA StoreRIInv ==
  ASSUME IInv, NEW m \in Touched, NEW p \in Parts, StoreR(m, p)
  PROVE  IInv'
<1>1. /\ limg' = IF Journaled(m) \/ limg[m][p] # "R" THEN limg
                 ELSE [limg EXCEPT ![m][p] = "missed"]
      /\ UNCHANGED <<queueVars, table, dirty, lagging, covered, sig, chunks, unseen, unchecked>>
  BY DEF StoreR, tableVars
<1>2. m \in Mods
  BY LoaderAssumption
<1>3. Queue' = Queue /\ Listed' /\ LinksTyped'
  BY <1>1, QueueKept DEF IInv, TypeOK, LinksTyped
<1>4. limg' \in [Mods -> [Parts -> Words]]
  BY <1>1, <1>2 DEF IInv, TypeOK, Words
<1>5. TypeOK'
  BY <1>1, <1>3, <1>4 DEF IInv, TypeOK, LinksTyped
<1>6. Tabled'
  BY <1>1, <1>3 DEF IInv, Tabled
<1>7. \A k \in table : limg'[k] = limg[k]
  BY <1>1, <1>2 DEF IInv, TypeOK, Tabled, Journaled
<1>8. OverwritesPending'
  BY <1>1, <1>7 DEF IInv, OverwritesPending
<1> QED BY <1>3, <1>5, <1>6, <1>8 DEF IInv

LEMMA StoreLIInv ==
  ASSUME IInv, NEW m \in Touched, NEW p \in Parts, StoreL(m, p)
  PROVE  IInv'
<1>1. /\ limg' = [limg EXCEPT ![m][p] = IF chunks = <<>> THEN "store" ELSE "live"]
      /\ dirty' = IF chunks = <<>> /\ Journaled(m) THEN dirty \cup {m} ELSE dirty
      /\ UNCHANGED <<queueVars, table, lagging, covered, sig, chunks, unseen, unchecked>>
  BY DEF StoreL
<1>2. m \in Mods
  BY LoaderAssumption
<1>3. Queue' = Queue /\ Listed' /\ LinksTyped'
  BY <1>1, QueueKept DEF IInv, TypeOK, LinksTyped
<1>4. limg' \in [Mods -> [Parts -> Words]]
  BY <1>1, <1>2 DEF IInv, TypeOK, Words
<1>5. TypeOK'
  BY <1>1, <1>3, <1>4 DEF IInv, TypeOK, LinksTyped, Journaled
<1>6. Tabled'
  BY <1>1, <1>3 DEF IInv, Tabled
<1>7. \A k \in Mods \ {m} : limg'[k] = limg[k]
  BY <1>1, <1>2 DEF IInv, TypeOK
<1>8. \A r \in Parts : limg'[m][r] = IF r # p THEN limg[m][r]
                                     ELSE IF chunks = <<>> THEN "store" ELSE "live"
  BY <1>1, <1>2 DEF IInv, TypeOK
<1>9. m \in table /\ chunks = <<>> => m \in dirty'
  BY <1>1 DEF IInv, Tabled, Journaled
<1>10. dirty \subseteq dirty'
  BY <1>1
<1>11. OverwritesPending'
  BY <1>1, <1>7, <1>8, <1>9, <1>10 DEF IInv, OverwritesPending
<1> QED BY <1>3, <1>5, <1>6, <1>11 DEF IInv

LEMMA RunIInv ==
  ASSUME IInv, NEW m \in Mods, Run(m)
  PROVE  IInv'
<1>1. /\ Len(chunks) < MaxNest
      /\ limg' = IF m \in table /\ MustRefresh(m) THEN [limg EXCEPT ![m] = All("R")] ELSE limg
      /\ unchecked' = IF m \in table /\ MustRefresh(m) THEN unchecked \ {m} ELSE unchecked
      /\ dirty' = IF MustRefresh(m) THEN dirty \ {m} ELSE dirty
      /\ lagging' = lagging \ {m}
      /\ chunks' = Append(chunks, m)
      /\ UNCHANGED <<queueVars, table, covered, sig, unseen>>
  BY DEF Run, Refreshed
<1>2. Queue' = Queue /\ Listed' /\ LinksTyped'
  BY <1>1, QueueKept DEF IInv, TypeOK, LinksTyped
<1>3. limg' \in [Mods -> [Parts -> Words]]
  BY <1>1 DEF IInv, TypeOK, All, Words
<1>4. chunks' \in Seq(Mods) /\ Len(chunks') <= MaxNest
  BY <1>1, LoaderAssumption DEF IInv, TypeOK
<1>5. dirty' \subseteq table' /\ lagging' \subseteq table' /\ unchecked' \subseteq Mods
  BY <1>1 DEF IInv, TypeOK
<1>6. TypeOK'
  BY <1>1, <1>2, <1>3, <1>4, <1>5 DEF IInv, TypeOK, LinksTyped
<1>7. Tabled'
  BY <1>1, <1>2 DEF IInv, Tabled
<1>8. \A k \in Mods \ {m} : /\ limg'[k] = limg[k] /\ (k \in dirty => k \in dirty')
                           /\ (k \in lagging => k \in lagging')
                           /\ (k \in unchecked => k \in unchecked')
  BY <1>1 DEF IInv, TypeOK
<1>9. CASE m \in table /\ MustRefresh(m)
  <2>1. limg'[m] = All("R")
    BY <1>1, <1>9 DEF IInv, TypeOK
  <2>2. OverwritesPending'
    BY <1>1, <1>8, <2>1 DEF IInv, TypeOK, OverwritesPending, All, Parts
  <2> QED BY <1>2, <1>6, <1>7, <2>2 DEF IInv
<1>10. CASE ~(m \in table /\ MustRefresh(m))
  <2>1. limg'[m] = limg[m] /\ unchecked' = unchecked
    BY <1>1, <1>10
  <2>2. m \in table => m \notin dirty /\ (m \in lagging => limg[m]["first"] = "R")
    BY <1>10 DEF MustRefresh, DataMismatch
  <2>3. OverwritesPending'
    BY <1>1, <1>8, <2>1, <2>2 DEF IInv, TypeOK, OverwritesPending
  <2> QED BY <1>2, <1>6, <1>7, <2>3 DEF IInv
<1> QED BY <1>9, <1>10

LEMMA RunRetailIInv ==
  ASSUME IInv, NEW m \in Mods, RunRetail(m)
  PROVE  IInv'
<1>1. /\ Len(chunks) < MaxNest /\ chunks' = Append(chunks, m)
      /\ UNCHANGED <<queueVars, table, dirty, lagging, covered, sig, limg, unseen, unchecked>>
  BY DEF RunRetail, tableVars
<1>2. Queue' = Queue /\ Listed' /\ LinksTyped'
  BY <1>1, QueueKept DEF IInv, TypeOK, LinksTyped
<1>3. chunks' \in Seq(Mods) /\ Len(chunks') <= MaxNest
  BY <1>1, LoaderAssumption DEF IInv, TypeOK
<1>4. TypeOK'
  BY <1>1, <1>2, <1>3 DEF IInv, TypeOK, LinksTyped
<1> QED BY <1>1, <1>2, <1>4 DEF IInv, Tabled, OverwritesPending

LEMMA ReturnIInv ==
  ASSUME IInv, Return
  PROVE  IInv'
<1>1. /\ chunks # <<>> /\ chunks' = SubSeq(chunks, 1, Len(chunks) - 1)
      /\ UNCHANGED <<queueVars, table, dirty, lagging, covered, sig, limg, unseen, unchecked>>
  BY DEF Return, tableVars
<1>2. Queue' = Queue /\ Listed' /\ LinksTyped'
  BY <1>1, QueueKept DEF IInv, TypeOK, LinksTyped
<1>3. chunks' \in Seq(Mods) /\ Len(chunks') <= MaxNest
  BY <1>1, LoaderAssumption DEF IInv, TypeOK
<1>4. TypeOK'
  BY <1>1, <1>2, <1>3 DEF IInv, TypeOK, LinksTyped
<1> QED BY <1>1, <1>2, <1>4 DEF IInv, Tabled, OverwritesPending

LEMMA TablesIInv ==
  ASSUME IInv, NEW m \in Mods, Tables(m)
  PROVE  IInv'
<1>1. /\ limg' = [limg EXCEPT ![m] = All("R")] /\ unchecked' = unchecked \ {m}
      /\ UNCHANGED <<queueVars, table, dirty, lagging, covered, sig, chunks, unseen>>
  BY DEF Tables, Refreshed, tableVars
<1>2. Queue' = Queue /\ Listed' /\ LinksTyped'
  BY <1>1, QueueKept DEF IInv, TypeOK, LinksTyped
<1>3. limg' \in [Mods -> [Parts -> Words]]
  BY <1>1 DEF IInv, TypeOK, All, Words
<1>4. TypeOK'
  BY <1>1, <1>2, <1>3 DEF IInv, TypeOK, LinksTyped
<1>5. limg'[m] = All("R") /\ \A k \in Mods \ {m} : limg'[k] = limg[k]
  BY <1>1 DEF IInv, TypeOK
<1>6. OverwritesPending'
  BY <1>1, <1>5 DEF IInv, TypeOK, OverwritesPending, All, Parts
<1> QED BY <1>1, <1>2, <1>4, <1>6 DEF IInv, Tabled

\* A restore that goes unnoticed is remembered in unseen; one that does not
\* makes the table anew.
LEMMA RestoreIInv ==
  ASSUME IInv, NEW q \in Queues, NEW w \in {"R", "live", "fill"}, Restore(q, w)
  PROVE  IInv'
<1> DEFINE nodes == {q[i] : i \in DOMAIN q}
<1>1. Nil \notin Mods
  BY LoaderAssumption
<1>2. LinksTyped' /\ Listed' /\ Queue' = nodes
  BY <1>1, RestoreLays, LaidListed, LaidQueue
<1>3. /\ limg' = [m \in Mods |-> All(CASE m \notin nodes -> "zero"
                                       [] m \in nodes \cap Touched -> w
                                       [] OTHER -> "R")]
      /\ \/ Diverged /\ RebuildActive(nodes)
         \/ ~Diverged /\ unseen' = (unseen \/ nodes # table) /\ UNCHANGED tableVars
      /\ unchecked' = nodes
      /\ UNCHANGED chunks
  BY DEF Restore
<1>4. nodes \subseteq Mods
  BY <1>2, QueueIsReachedNext, ReachedTyped
<1> HIDE DEF nodes
<1>5. limg' \in [Mods -> [Parts -> Words]]
  BY <1>3 DEF All, Words
<1>6. \A m \in Mods \ nodes : limg'[m] = All("zero")
  BY <1>3
<1>7. CASE Diverged /\ RebuildActive(nodes)
  <2>1. /\ table' = nodes /\ dirty' = {} /\ lagging' = {} /\ covered' = nodes
        /\ sig' = <<head', tail'>> /\ unseen' = FALSE
    BY <1>7 DEF RebuildActive, Covering
  <2>2. TypeOK'
    BY <1>2, <1>3, <1>4, <1>5, <2>1 DEF IInv, TypeOK, LinksTyped
  <2>3. OverwritesPending'
    BY <1>3, <2>1 DEF OverwritesPending
  <2> QED BY <1>2, <2>1, <2>2, <2>3 DEF IInv, Tabled
<1>8. CASE ~Diverged /\ unseen' = (unseen \/ nodes # table) /\ UNCHANGED tableVars
  <2>1. UNCHANGED <<table, dirty, lagging, covered, sig>>
    BY <1>8 DEF tableVars
  <2>2. TypeOK'
    BY <1>2, <1>3, <1>4, <1>5, <1>8, <2>1 DEF IInv, TypeOK, LinksTyped
  <2>3. OverwritesPending'
    BY <1>3, <1>6, <2>1 DEF IInv, TypeOK, OverwritesPending, All, Parts
  <2>4. Tabled'
    BY <1>2, <1>8, <2>1 DEF IInv, Tabled
  <2> QED BY <1>2, <2>2, <2>3, <2>4 DEF IInv
<1> QED BY <1>3, <1>7, <1>8

LEMMA NextIInv ==
  ASSUME IInv, [Next]_vars
  PROVE  IInv'
<1>1. CASE Next
  BY <1>1, LinkIInv, UnlinkIInv, RunIInv, RunRetailIInv, TablesIInv, AllocIInv, StoreRIInv,
     StoreLIInv, ReturnIInv, ModuleInitIInv, RestoreIInv DEF Next
<1>2. CASE UNCHANGED vars
  <2>1. UNCHANGED <<queueVars, table, dirty, lagging, covered, sig, limg, chunks, unseen, unchecked>>
    BY <1>2 DEF vars, tableVars
  <2>2. Queue' = Queue /\ Listed' /\ LinksTyped'
    BY <2>1, QueueKept DEF IInv, TypeOK, LinksTyped
  <2>3. TypeOK'
    BY <2>1, <2>2 DEF IInv, TypeOK, LinksTyped
  <2> QED BY <2>1, <2>2, <2>3 DEF IInv, Tabled, OverwritesPending
<1> QED BY <1>1, <1>2

-----------------------------------------------------------------------------
(* The theorems.                                                           *)

\* The inductive invariant: the queue is a doubly linked list, the table and the
\* journal's filters are made from its modules, and overwrites are pending.
THEOREM Invariant == Spec => []IInv
<1>1. Init => IInv
  BY InitIInv
<1>2. IInv /\ [Next]_vars => IInv'
  BY NextIInv
<1> QED BY <1>1, <1>2, PTL DEF Spec

\* The variables keep their types; flags are set of modules in the table only,
\* although the table is compacted when a module leaves it.
THEOREM TypeCorrect == Spec => []TypeOK
<1>1. IInv => TypeOK
  BY DEF IInv
<1> QED BY <1>1, Invariant, PTL

\* Links, unlinks, OSModule's init and restores keep the queue doubly linked, and
\* the table has its modules unless a restore changed it unnoticed.
THEOREM TableFollowsQueue == Spec => []TableIsQueue
<1>1. IInv => TableIsQueue
  <2> SUFFICES ASSUME IInv PROVE TableIsQueue
    OBVIOUS
  <2>1. /\ \A m \in Queue : /\ (IF next[m] = Nil THEN tail ELSE prev[next[m]]) = m
                            /\ (IF prev[m] = Nil THEN head ELSE next[prev[m]]) = m
    BY DEF IInv, Listed
  <2>2. (head = Nil <=> tail = Nil) /\ (table = Queue \/ unseen)
    BY DEF IInv, Listed, Tabled
  <2> QED BY <2>1, <2>2 DEF TableIsQueue
<1> QED BY <1>1, Invariant, PTL

\* Whatever other guest code or the heap wrote over the data of a module, it is
\* noticed before its code starts at L; no store to R is missing in L.
THEOREM OverwritesStayPending == Spec => []OverwritesPending
<1>1. IInv => OverwritesPending
  BY DEF IInv
<1> QED BY <1>1, Invariant, PTL
=============================================================================
