------------------------- MODULE ModDispatchProofs -------------------------
(***************************************************************************)
(* The mod dispatcher for every number of threads, every cap of the        *)
(* pending returns and every length of the verdict ring: the channel to    *)
(* the chassis loses no change, observers run at most once and only for    *)
(* calls that have left the stacks, and while calls nest every hooked      *)
(* return runs them.                                                       *)
(*                                                                         *)
(* The argument: a dispatch at a hooked address can only push (perhaps     *)
(* over the oldest entry) or find its twin; one at a return address can    *)
(* only take the last entry.  Each call is named, so that what is pending  *)
(* can be tied to the frame it was pushed for; while nothing disturbed the *)
(* nesting that tie is one to one and in stack order.                      *)
(***************************************************************************)
EXTENDS ModDispatch, TLAPS

-----------------------------------------------------------------------------
(* Sequences.                                                              *)

LEMMA SameSequence ==
  ASSUME NEW S, NEW s \in Seq(S), NEW t \in Seq(S), Len(s) = Len(t),
         \A n \in 1..Len(s) : s[n] = t[n]
  PROVE  s = t
OBVIOUS

LEMMA PrefixFacts ==
  ASSUME NEW S, NEW s \in Seq(S), NEW m \in 0..Len(s)
  PROVE  /\ SubSeq(s, 1, m) \in Seq(S) /\ Len(SubSeq(s, 1, m)) = m
         /\ \A n \in 1..m : SubSeq(s, 1, m)[n] = s[n]
OBVIOUS

LEMMA FrontFacts ==
  ASSUME NEW S, NEW s \in Seq(S), s # <<>>
  PROVE  /\ Front(s) \in Seq(S) /\ Len(Front(s)) = Len(s) - 1 /\ Len(s) \in Nat \ {0}
         /\ \A n \in 1..Len(s)-1 : Front(s)[n] = s[n]
         /\ Last(s) = s[Len(s)] /\ Last(s) \in S
<1>1. Len(s) \in Nat \ {0}
  OBVIOUS
<1>2. s[Len(s)] \in S
  BY <1>1
<1>3. Front(s) \in Seq(S) /\ Len(Front(s)) = Len(s) - 1
  BY <1>1, Len(s) - 1 \in 0..Len(s), PrefixFacts DEF Front
<1>4. \A n \in 1..Len(s)-1 : Front(s)[n] = s[n]
  BY <1>1 DEF Front
<1> QED
  BY <1>1, <1>2, <1>3, <1>4 DEF Last

LEMMA AppendFacts ==
  ASSUME NEW S, NEW s \in Seq(S), NEW e \in S
  PROVE  /\ Append(s, e) \in Seq(S) /\ Len(Append(s, e)) = Len(s) + 1 /\ Len(s) \in Nat
         /\ \A n \in 1..Len(s) : Append(s, e)[n] = s[n]
         /\ Append(s, e)[Len(s) + 1] = e
OBVIOUS

LEMMA TailFacts ==
  ASSUME NEW S, NEW s \in Seq(S), s # <<>>
  PROVE  /\ Tail(s) \in Seq(S) /\ Len(Tail(s)) = Len(s) - 1 /\ Len(s) \in Nat \ {0}
         /\ \A n \in 1..Len(s)-1 : Tail(s)[n] = s[n + 1]
OBVIOUS

\* A sequence without its first element and with a new last one.
LEMMA ShiftFacts ==
  ASSUME NEW S, NEW s \in Seq(S), s # <<>>, NEW e \in S
  PROVE  /\ Append(Tail(s), e) \in Seq(S)
         /\ Len(Append(Tail(s), e)) = Len(s) /\ Len(s) \in Nat \ {0}
         /\ \A n \in 1..Len(s)-1 : Append(Tail(s), e)[n] = s[n + 1]
         /\ Append(Tail(s), e)[Len(s)] = e
<1>1. /\ Tail(s) \in Seq(S) /\ Len(Tail(s)) = Len(s) - 1 /\ Len(s) \in Nat \ {0}
      /\ \A n \in 1..Len(s)-1 : Tail(s)[n] = s[n + 1]
  BY TailFacts
<1> DEFINE t == Tail(s)
<1> HIDE DEF t
<1>2. /\ Append(t, e) \in Seq(S) /\ Len(Append(t, e)) = Len(t) + 1
      /\ \A n \in 1..Len(t) : Append(t, e)[n] = t[n]
      /\ Append(t, e)[Len(t) + 1] = e
  BY <1>1, AppendFacts DEF t
<1>3. Len(t) = Len(s) - 1 /\ Len(t) + 1 = Len(s) /\ Len(s) \in Nat \ {0}
  BY <1>1 DEF t
<1> QED
  BY <1>1, <1>2, <1>3 DEF t

-----------------------------------------------------------------------------
(* What a dispatch does, in five cases.                                    *)

Entry(lr, sp, visit) == [addr |-> lr, sp |-> sp, visit |-> visit]

\* The verdict channel has been given some pcs.
Told(pcs) ==
  /\ Record(pcs)
  /\ moved' = (moved \/ ~begun \/ pcs # <<>>)
  /\ begun' = TRUE

Repeated(lr, sp, visit) ==
  /\ Twin(pending, lr, sp) # {}
  /\ pending' = pending /\ Told(<<>>)
  /\ dropped' = IF \A n \in Twin(pending, lr, sp) : pending[n].visit # visit
                  THEN dropped \cup {visit} ELSE dropped
  /\ UNCHANGED <<fired, evicted>>

Pushed(lr, sp, visit) ==
  /\ Twin(pending, lr, sp) = {} /\ Len(pending) < PendCap
  /\ pending' = Append(pending, Entry(lr, sp, visit)) /\ Told(<<lr>>)
  /\ evicted' = evicted \ {<<lr, sp>>}
  /\ UNCHANGED <<fired, dropped>>

PushedOver(lr, sp, visit) ==
  /\ Twin(pending, lr, sp) = {} /\ Len(pending) >= PendCap
  /\ pending' = Append(Tail(pending), Entry(lr, sp, visit))
  /\ Told(<<pending[1].addr, lr>>)
  /\ evicted' = (evicted \cup {Event(pending[1])}) \ {<<lr, sp>>}
  /\ UNCHANGED <<fired, dropped>>

Taken(addr, sp) ==
  /\ Arrives(addr, sp)
  /\ pending' = Front(pending) /\ Told(<<addr>>)
  /\ fired' = fired \cup {Last(pending).visit}
  /\ UNCHANGED <<evicted, dropped>>

Untaken(addr, sp) ==
  /\ ~Arrives(addr, sp)
  /\ pending' = pending /\ Told(<<>>)
  /\ UNCHANGED <<fired, evicted, dropped>>

LEMMA Joined ==
  ASSUME NEW x, NEW y
  PROVE  /\ <<>> \o <<>> \o <<>> = <<>> /\ <<>> \o <<>> \o <<x>> = <<x>>
         /\ <<>> \o <<x>> \o <<y>> = <<x, y>> /\ <<x>> \o <<>> \o <<>> = <<x>>
<1>1. <<>> \o <<>> = <<>>
  OBVIOUS
<1>2. <<>> \o <<x>> = <<x>> /\ <<x>> \o <<>> = <<x>>
  OBVIOUS
<1>3. <<x>> \o <<y>> = <<x, y>>
  <2>1. /\ <<x>> \o <<y>> \in Seq({x, y}) /\ Len(<<x>> \o <<y>>) = 2
        /\ (<<x>> \o <<y>>)[1] = x /\ (<<x>> \o <<y>>)[2] = y
    OBVIOUS
  <2>2. <<x, y>> \in Seq({x, y}) /\ Len(<<x, y>>) = 2
    OBVIOUS
  <2> DEFINE s == <<x>> \o <<y>>
             t == <<x, y>>
  <2>3. t[1] = x /\ t[2] = y
    OBVIOUS
  <2> HIDE DEF s, t
  <2>4. \A n \in 1..Len(s) : s[n] = t[n]
    BY <2>1, <2>3 DEF s
  <2>5. s = t
    BY <2>1, <2>2, <2>4, SameSequence DEF s, t
  <2> QED BY <2>5 DEF s, t
<1> QED
  BY <1>1, <1>2, <1>3

LEMMA PendingFacts ==
  ASSUME TypeOK
  PROVE  /\ pending \in Seq(Pend) /\ Len(pending) \in Nat /\ Len(pending) <= PendCap
         /\ DOMAIN pending = 1..Len(pending)
         /\ PendCap \in Nat \ {0} /\ RingSlots \in Nat \ {0}
         /\ \A n \in 1..Len(pending) : /\ pending[n] \in Pend
                                       /\ pending[n].addr \in Returns
                                       /\ pending[n].visit \in Visits
         /\ pending # <<>> <=> Len(pending) > 0
<1>1. /\ pending \in Seq(Pend) /\ Len(pending) \in Nat /\ Len(pending) <= PendCap
      /\ DOMAIN pending = 1..Len(pending)
      /\ pending # <<>> <=> Len(pending) > 0
  BY DEF TypeOK
<1>2. \A n \in 1..Len(pending) : pending[n] \in Pend
  BY <1>1
<1>3. \A n \in 1..Len(pending) : pending[n].addr \in Returns /\ pending[n].visit \in Visits
  BY <1>2 DEF Pend
<1> QED
  BY <1>1, <1>2, <1>3, ModAssumption

LEMMA HookedDispatch ==
  ASSUME TypeOK, NEW addr \in Hooked, NEW lr, NEW sp, NEW visit,
         Dispatch(addr, lr, sp, visit)
  PROVE  Repeated(lr, sp, visit) \/ Pushed(lr, sp, visit) \/ PushedOver(lr, sp, visit)
<1>1. Popped(addr, sp) = pending
  <2>1. ~Arrives(addr, sp)
    BY PendingFacts, FrontFacts, ModAssumption DEF Arrives, Pend
  <2> QED BY <2>1 DEF Popped
<1>2. CASE Twin(pending, lr, sp) # {}
  <2>1. pending' = pending /\ Told(<<>>) /\ UNCHANGED <<fired, evicted>>
    BY <1>1, <1>2, Joined DEF Dispatch, Told
  <2>2. dropped' = IF \A n \in Twin(pending, lr, sp) : pending[n].visit # visit
                     THEN dropped \cup {visit} ELSE dropped
    BY <1>1, <1>2 DEF Dispatch
  <2> QED BY <1>2, <2>1, <2>2 DEF Repeated
<1>3. CASE Twin(pending, lr, sp) = {} /\ Len(pending) < PendCap
  <2>1. ~(Len(pending) >= PendCap)
    BY <1>3, PendingFacts
  <2>2. /\ pending' = Append(pending, Entry(lr, sp, visit)) /\ Told(<<lr>>)
        /\ evicted' = evicted \ {<<lr, sp>>}
        /\ UNCHANGED <<fired, dropped>>
    BY <1>1, <1>3, <2>1, Joined DEF Dispatch, Told, Entry
  <2> QED BY <1>3, <2>2 DEF Pushed
<1>4. CASE Twin(pending, lr, sp) = {} /\ Len(pending) >= PendCap
  <2>1. /\ pending' = Append(Tail(pending), Entry(lr, sp, visit))
        /\ Told(<<pending[1].addr, lr>>)
        /\ evicted' = (evicted \cup {Event(pending[1])}) \ {<<lr, sp>>}
        /\ UNCHANGED <<fired, dropped>>
    BY <1>1, <1>4, Joined DEF Dispatch, Told, Entry
  <2> QED BY <1>4, <2>1 DEF PushedOver
<1> QED
  BY <1>2, <1>3, <1>4, PendingFacts

LEMMA ReturnDispatch ==
  ASSUME TypeOK, NEW addr \in Returns, NEW lr, NEW sp, NEW visit,
         Dispatch(addr, lr, sp, visit)
  PROVE  Taken(addr, sp) \/ Untaken(addr, sp)
<1>1. addr \notin Hooked
  BY ModAssumption
<1>2. CASE Arrives(addr, sp)
  <2>1. Popped(addr, sp) = Front(pending)
    BY <1>2 DEF Popped
  <2>2. Front(pending) # pending
    BY <1>2, PendingFacts, FrontFacts DEF Arrives
  <2>3. /\ pending' = Front(pending) /\ Told(<<addr>>)
        /\ fired' = fired \cup {Last(pending).visit}
        /\ UNCHANGED <<evicted, dropped>>
    BY <1>1, <2>1, <2>2, Joined DEF Dispatch, Told
  <2> QED BY <1>2, <2>3 DEF Taken
<1>3. CASE ~Arrives(addr, sp)
  <2>1. Popped(addr, sp) = pending
    BY <1>3 DEF Popped
  <2>2. pending' = pending /\ Told(<<>>) /\ UNCHANGED <<fired, evicted, dropped>>
    BY <1>1, <2>1, Joined DEF Dispatch, Told
  <2> QED BY <1>3, <2>2 DEF Untaken
<1> QED
  BY <1>2, <1>3
-----------------------------------------------------------------------------
(* The inductive invariant.                                                *)

\* The calls on the stacks have names of their own, given out already.
Named ==
  \A t \in Threads : \A n \in 1..Len(stack[t]) :
    /\ stack[t][n].visit \in 1..visits
    /\ \A u \in Threads : \A m \in 1..Len(stack[u]) :
         stack[u][m].visit = stack[t][n].visit => u = t /\ m = n

Bounded == \A t \in Threads : Len(stack[t]) <= MaxDepth

\* So have the pending returns, and the calls whose observers ran.
Given ==
  /\ \A n \in 1..Len(pending) : pending[n].visit \in 1..visits
  /\ fired \subseteq 1..visits

\* What is pending for a call on a stack carries that call's lr and the stack
\* pointer it returns with.
Linked ==
  \A k \in 1..Len(pending) : \A t \in Threads : \A n \in 1..Len(stack[t]) :
    pending[k].visit = stack[t][n].visit =>
      pending[k].addr = stack[t][n].lr /\ pending[k].sp = <<t, n - 1>>

\* While calls nest, the pending returns are the hooked calls on the stack of
\* one thread, outermost first.
Ordered ==
  \A j, k \in 1..Len(pending) :
    j < k => pending[j].sp[1] = pending[k].sp[1] /\ pending[j].sp[2] < pending[k].sp[2]

InStep ==
  /\ evicted = {}
  /\ \A t \in Threads : \A n \in 1..Len(stack[t]) : stack[t][n].fn \in Hooked =>
       \E k \in 1..Len(pending) : pending[k].visit = stack[t][n].visit
  /\ \A k \in 1..Len(pending) : \E t \in Threads : \E n \in 1..Len(stack[t]) :
       /\ stack[t][n].fn \in Hooked /\ stack[t][n].visit = pending[k].visit
       /\ pending[k].sp = <<t, n - 1>>
  /\ Ordered

Nested == ~disturbed => InStep

GuestInv == Bounded /\ Named
CallsInv == Given /\ ObserversOnce /\ Linked /\ LiveCallsArmed /\ Nested
Inv == TypeOK /\ ChannelComplete /\ GuestInv /\ CallsInv

-----------------------------------------------------------------------------
(* The verdict channel.                                                    *)

ModTypes ==
  /\ pending \in Seq(Pend) /\ Len(pending) <= PendCap
  /\ ring \in Seq(Returns) /\ Len(ring) <= RingSlots
  /\ overflow \in BOOLEAN /\ moved \in BOOLEAN /\ begun \in BOOLEAN
  /\ fired \subseteq Visits /\ evicted \subseteq Returns \X SPs /\ dropped \subseteq Visits

InRing(a) == \E n \in 1..Len(ring) : ring[n] = a
IsPending(a) == \E n \in 1..Len(pending) : pending[n].addr = a

ChannelTold ==
  \A a \in Returns : (a \in known) # IsPending(a) => moved /\ (overflow \/ InRing(a))

LEMMA ChannelAlt == TypeOK => (ChannelComplete <=> ChannelTold)
<1> SUFFICES ASSUME TypeOK PROVE ChannelComplete <=> ChannelTold
  OBVIOUS
<1>1. DOMAIN pending = 1..Len(pending) /\ DOMAIN ring = 1..Len(ring)
  BY DEF TypeOK
<1>2. ASSUME NEW a PROVE a \in PendAddrs <=> IsPending(a)
  BY <1>1 DEF PendAddrs, IsPending
<1>3. ASSUME NEW a PROVE a \in {ring[n] : n \in DOMAIN ring} <=> InRing(a)
  BY <1>1 DEF InRing
<1> QED
  BY <1>2, <1>3 DEF ChannelComplete, ChannelTold

\* The ring keeps what it has and takes what it is told, or it overflows.
LEMMA ToldRing ==
  ASSUME TypeOK, NEW pcs \in Seq(Returns), Told(pcs)
  PROVE  /\ ring' \in Seq(Returns) /\ Len(ring') <= RingSlots
         /\ overflow' \in BOOLEAN /\ moved' \in BOOLEAN /\ begun' \in BOOLEAN
         /\ moved => moved'
         /\ overflow => overflow'
         /\ \A a : InRing(a) => overflow' \/ InRing(a)'
         /\ \A n \in 1..Len(pcs) : moved' /\ (overflow' \/ InRing(pcs[n])')
<1>0. /\ ring \in Seq(Returns) /\ Len(ring) \in Nat /\ Len(ring) <= RingSlots
      /\ RingSlots \in Nat \ {0} /\ Len(pcs) \in Nat
      /\ overflow \in BOOLEAN /\ moved \in BOOLEAN /\ begun \in BOOLEAN
  BY ModAssumption DEF TypeOK
<1> DEFINE all == ring \o pcs
<1>1. /\ all \in Seq(Returns) /\ Len(all) = Len(ring) + Len(pcs)
      /\ \A n \in 1..Len(ring) : all[n] = ring[n]
      /\ \A n \in 1..Len(pcs) : all[Len(ring) + n] = pcs[n]
  BY <1>0
<1>2. /\ overflow' = (overflow \/ ~begun \/ Len(ring) + Len(pcs) > RingSlots)
      /\ moved' = (moved \/ ~begun \/ pcs # <<>>) /\ begun' = TRUE
  BY DEF Told, Record
<1>3. ring' = Cut(all)
  BY DEF Told, Record
<1> HIDE DEF all
<1>6. Len(pcs) > 0 => moved'
  <2>1. Len(pcs) > 0 => pcs # <<>>
    OBVIOUS
  <2> QED BY <1>2, <2>1, Zenon
<1>4. CASE Len(ring) + Len(pcs) > RingSlots
  <2>1. ring' = SubSeq(all, 1, RingSlots) /\ RingSlots \in 0..Len(all)
    BY <1>0, <1>1, <1>3, <1>4 DEF Cut
  <2>2. ring' \in Seq(Returns) /\ Len(ring') = RingSlots
    BY <1>1, <2>1, PrefixFacts
  <2>3. overflow'
    BY <1>2, <1>4
  <2>4. \A n \in 1..Len(pcs) : moved'
    BY <1>0, <1>6
  <2> QED BY <1>0, <1>2, <2>2, <2>3, <2>4
<1>5. CASE ~(Len(ring) + Len(pcs) > RingSlots)
  <2>1. ring' = all
    BY <1>1, <1>3, <1>5 DEF Cut
  <2>2. Len(ring') <= RingSlots
    BY <1>0, <1>1, <1>5, <2>1
  <2>3. ASSUME NEW a, InRing(a) PROVE InRing(a)'
    <3>1. PICK n \in 1..Len(ring) : ring[n] = a
      BY <2>3 DEF InRing
    <3>2. n \in 1..Len(ring') /\ ring'[n] = a
      BY <1>0, <1>1, <2>1, <3>1
    <3> QED BY <3>2 DEF InRing
  <2>4. ASSUME NEW n \in 1..Len(pcs) PROVE moved' /\ InRing(pcs[n])'
    <3>1. Len(ring) + n \in 1..Len(ring') /\ ring'[Len(ring) + n] = pcs[n]
      BY <1>0, <1>1, <2>1
    <3>2. moved'
      BY <1>0, <1>6
    <3> QED BY <3>1, <3>2 DEF InRing
  <2>5. ring' \in Seq(Returns)
    BY <1>1, <2>1
  <2> QED BY <1>0, <1>2, <2>2, <2>3, <2>4, <2>5
<1> QED
  BY <1>4, <1>5

\* The channel stays complete when every address that came or went is told.
LEMMA ToldComplete ==
  ASSUME TypeOK, TypeOK', ChannelComplete, known' = known,
         NEW pcs \in Seq(Returns), Told(pcs),
         \A a \in Returns : IsPending(a)' # IsPending(a) => \E n \in 1..Len(pcs) : pcs[n] = a
  PROVE  ChannelComplete'
<1>1. (TypeOK => (ChannelComplete <=> ChannelTold))'
  BY ChannelAlt, PTL
<1>2. ASSUME NEW a \in Returns, (a \in known') # IsPending(a)'
      PROVE  moved' /\ (overflow' \/ InRing(a)')
  <2>1. CASE IsPending(a)' # IsPending(a)
    BY <2>1, ToldRing
  <2>2. CASE IsPending(a)' = IsPending(a)
    <3>1. moved /\ (overflow \/ InRing(a))
      BY <1>2, <2>2, ChannelAlt DEF ChannelTold
    <3> QED BY <3>1, ToldRing
  <2> QED BY <2>1, <2>2
<1> QED
  BY <1>1, <1>2 DEF ChannelTold

-----------------------------------------------------------------------------
(* The shape of what is pending after each kind of dispatch.               *)

LEMMA PushedShape ==
  ASSUME TypeOK, NEW lr \in Returns, NEW sp \in SPs, NEW visit \in Visits,
         Pushed(lr, sp, visit)
  PROVE  /\ pending' \in Seq(Pend) /\ Len(pending') = Len(pending) + 1
         /\ Len(pending) \in Nat /\ Len(pending') <= PendCap
         /\ \A n \in 1..Len(pending) : pending'[n] = pending[n]
         /\ pending'[Len(pending) + 1] = Entry(lr, sp, visit)
         /\ \A n \in 1..Len(pending) : ~(pending[n].addr = lr /\ pending[n].sp = sp)
<1>1. Entry(lr, sp, visit) \in Pend
  BY DEF Entry, Pend
<1>2. pending' = Append(pending, Entry(lr, sp, visit))
      /\ Len(pending) < PendCap /\ Twin(pending, lr, sp) = {}
  BY DEF Pushed
<1>3. /\ Append(pending, Entry(lr, sp, visit)) \in Seq(Pend)
      /\ Len(Append(pending, Entry(lr, sp, visit))) = Len(pending) + 1
      /\ Len(pending) \in Nat
      /\ \A n \in 1..Len(pending) : Append(pending, Entry(lr, sp, visit))[n] = pending[n]
      /\ Append(pending, Entry(lr, sp, visit))[Len(pending) + 1] = Entry(lr, sp, visit)
  BY <1>1, PendingFacts, AppendFacts
<1>4. \A n \in 1..Len(pending) : ~(pending[n].addr = lr /\ pending[n].sp = sp)
  BY <1>2, PendingFacts DEF Twin
<1>5. Len(pending) + 1 <= PendCap
  BY <1>2, PendingFacts
<1> QED
  BY <1>2, <1>3, <1>4, <1>5, Zenon

LEMMA OverShape ==
  ASSUME TypeOK, NEW lr \in Returns, NEW sp \in SPs, NEW visit \in Visits,
         PushedOver(lr, sp, visit)
  PROVE  /\ pending' \in Seq(Pend) /\ Len(pending') = Len(pending)
         /\ Len(pending) \in Nat \ {0} /\ Len(pending') <= PendCap
         /\ \A n \in 1..Len(pending)-1 : pending'[n] = pending[n + 1]
         /\ pending'[Len(pending)] = Entry(lr, sp, visit)
         /\ \A n \in 1..Len(pending) : ~(pending[n].addr = lr /\ pending[n].sp = sp)
<1>1. Entry(lr, sp, visit) \in Pend
  BY DEF Entry, Pend
<1>2. pending' = Append(Tail(pending), Entry(lr, sp, visit))
      /\ Len(pending) >= PendCap /\ Twin(pending, lr, sp) = {}
  BY DEF PushedOver
<1>3. pending # <<>>
  BY <1>2, PendingFacts
<1> DEFINE p == Append(Tail(pending), Entry(lr, sp, visit))
<1>4. /\ p \in Seq(Pend) /\ Len(p) = Len(pending) /\ Len(pending) \in Nat \ {0}
      /\ \A n \in 1..Len(pending)-1 : p[n] = pending[n + 1]
      /\ p[Len(pending)] = Entry(lr, sp, visit)
  BY <1>1, <1>3, PendingFacts, ShiftFacts
<1>5. \A n \in 1..Len(pending) : ~(pending[n].addr = lr /\ pending[n].sp = sp)
  BY <1>2, PendingFacts DEF Twin
<1>6. Len(pending) <= PendCap
  BY PendingFacts
<1> QED
  BY <1>2, <1>4, <1>5, <1>6, Zenon

LEMMA TakenShape ==
  ASSUME TypeOK, NEW addr, NEW sp, Taken(addr, sp)
  PROVE  /\ pending' \in Seq(Pend) /\ Len(pending') = Len(pending) - 1
         /\ Len(pending) \in Nat \ {0} /\ Len(pending') <= PendCap
         /\ \A n \in 1..Len(pending)-1 : pending'[n] = pending[n]
         /\ pending[Len(pending)].addr = addr /\ pending[Len(pending)].sp = sp
         /\ fired' = fired \cup {pending[Len(pending)].visit}
<1>1. /\ pending # <<>> /\ Last(pending).addr = addr /\ Last(pending).sp = sp
      /\ pending' = Front(pending) /\ fired' = fired \cup {Last(pending).visit}
  BY DEF Taken, Arrives
<1>2. /\ Front(pending) \in Seq(Pend) /\ Len(Front(pending)) = Len(pending) - 1
      /\ Len(pending) \in Nat \ {0}
      /\ \A n \in 1..Len(pending)-1 : Front(pending)[n] = pending[n]
      /\ Last(pending) = pending[Len(pending)]
  BY <1>1, PendingFacts, FrontFacts
<1>3. Len(pending) - 1 <= PendCap
  BY <1>2, PendingFacts
<1> QED
  BY <1>1, <1>2, <1>3, Zenon

\* Every address that starts or stops being pending is told to the channel.
Announced ==
  \E pcs \in Seq(Returns) :
    /\ Told(pcs)
    /\ \A a \in Returns : IsPending(a)' # IsPending(a) => \E n \in 1..Len(pcs) : pcs[n] = a

LEMMA RepeatedSafe ==
  ASSUME TypeOK, NEW lr, NEW sp, NEW visit \in Visits, Repeated(lr, sp, visit)
  PROVE  ModTypes' /\ Announced
<1>1. /\ pending' = pending /\ Told(<<>>) /\ <<>> \in Seq(Returns)
      /\ fired' = fired /\ evicted' = evicted /\ dropped' \subseteq dropped \cup {visit}
  BY DEF Repeated
<1>2. ModTypes'
  BY <1>1, ToldRing DEF ModTypes, TypeOK
<1>3. \A a : IsPending(a)' = IsPending(a)
  BY <1>1 DEF IsPending
<1> QED
  BY <1>1, <1>2, <1>3 DEF Announced

LEMMA UntakenSafe ==
  ASSUME TypeOK, NEW addr, NEW sp, Untaken(addr, sp)
  PROVE  ModTypes' /\ Announced
<1>1. /\ pending' = pending /\ Told(<<>>) /\ <<>> \in Seq(Returns)
      /\ fired' = fired /\ evicted' = evicted /\ dropped' = dropped
  BY DEF Untaken
<1>2. ModTypes'
  BY <1>1, ToldRing DEF ModTypes, TypeOK
<1>3. \A a : IsPending(a)' = IsPending(a)
  BY <1>1 DEF IsPending
<1> QED
  BY <1>1, <1>2, <1>3 DEF Announced

LEMMA PushedSafe ==
  ASSUME TypeOK, NEW lr \in Returns, NEW sp \in SPs, NEW visit \in Visits,
         Pushed(lr, sp, visit)
  PROVE  ModTypes' /\ Announced
<1> DEFINE pcs == <<lr>>
<1>1. /\ Told(pcs) /\ fired' = fired /\ evicted' \subseteq evicted /\ dropped' = dropped
  BY DEF Pushed
<1>2. pcs \in Seq(Returns) /\ Len(pcs) = 1 /\ pcs[1] = lr
  OBVIOUS
<1> HIDE DEF pcs
<1>3. ModTypes'
  BY <1>1, <1>2, ToldRing, PushedShape DEF ModTypes, TypeOK
<1>4. ASSUME NEW a \in Returns, a # lr PROVE IsPending(a)' = IsPending(a)
  <2>1. ASSUME IsPending(a) PROVE IsPending(a)'
    <3>1. PICK n \in 1..Len(pending) : pending[n].addr = a
      BY <2>1 DEF IsPending
    <3>2. n \in 1..Len(pending') /\ pending'[n].addr = a
      BY <3>1, PushedShape
    <3> QED BY <3>2 DEF IsPending
  <2>2. ASSUME IsPending(a)' PROVE IsPending(a)
    <3>1. PICK n \in 1..Len(pending') : pending'[n].addr = a
      BY <2>2 DEF IsPending
    <3>2. n # Len(pending) + 1
      <4>1. Entry(lr, sp, visit).addr = lr
        BY DEF Entry
      <4> QED BY <3>1, <4>1, <1>4, PushedShape
    <3>3. n \in 1..Len(pending) /\ pending[n].addr = a
      BY <3>1, <3>2, PushedShape
    <3> QED BY <3>3 DEF IsPending
  <2>3. IsPending(a) \in BOOLEAN /\ IsPending(a)' \in BOOLEAN
    BY DEF IsPending
  <2> QED BY <2>1, <2>2, <2>3
<1> QED
  BY <1>1, <1>2, <1>3, <1>4 DEF Announced

LEMMA OverSafe ==
  ASSUME TypeOK, NEW lr \in Returns, NEW sp \in SPs, NEW visit \in Visits,
         PushedOver(lr, sp, visit)
  PROVE  ModTypes' /\ Announced
<1> DEFINE b == pending[1].addr
           pcs == <<b, lr>>
<1>0. 1 \in 1..Len(pending) /\ b \in Returns /\ Event(pending[1]) \in Returns \X SPs
  BY OverShape, PendingFacts DEF Event, Pend
<1>1. /\ Told(pcs) /\ fired' = fired /\ dropped' = dropped
      /\ evicted' \subseteq evicted \cup {Event(pending[1])}
  BY DEF PushedOver
<1> HIDE DEF b
<1>2. pcs \in Seq(Returns) /\ Len(pcs) = 2 /\ pcs[1] = b /\ pcs[2] = lr
  BY <1>0
<1> HIDE DEF pcs
<1>3. ModTypes'
  BY <1>0, <1>1, <1>2, ToldRing, OverShape DEF ModTypes, TypeOK
<1>4. ASSUME NEW a \in Returns, a # lr, a # b PROVE IsPending(a)' = IsPending(a)
  <2>1. ASSUME IsPending(a) PROVE IsPending(a)'
    <3>1. PICK n \in 1..Len(pending) : pending[n].addr = a
      BY <2>1 DEF IsPending
    <3>2. n # 1
      BY <3>1, <1>4 DEF b
    <3>3. n - 1 \in 1..Len(pending)-1 /\ (n - 1) + 1 = n
      BY <3>1, <3>2, OverShape
    <3>4. n - 1 \in 1..Len(pending') /\ pending'[n - 1].addr = a
      BY <3>1, <3>3, OverShape
    <3> QED BY <3>4 DEF IsPending
  <2>2. ASSUME IsPending(a)' PROVE IsPending(a)
    <3>1. PICK n \in 1..Len(pending') : pending'[n].addr = a
      BY <2>2 DEF IsPending
    <3>2. n # Len(pending)
      <4>1. Entry(lr, sp, visit).addr = lr
        BY DEF Entry
      <4> QED BY <3>1, <4>1, <1>4, OverShape
    <3>3. n + 1 \in 1..Len(pending) /\ pending[n + 1].addr = a
      BY <3>1, <3>2, OverShape
    <3> QED BY <3>3 DEF IsPending
  <2>3. IsPending(a) \in BOOLEAN /\ IsPending(a)' \in BOOLEAN
    BY DEF IsPending
  <2> QED BY <2>1, <2>2, <2>3
<1> QED
  BY <1>1, <1>2, <1>3, <1>4 DEF Announced

LEMMA TakenSafe ==
  ASSUME TypeOK, NEW addr \in Returns, NEW sp, Taken(addr, sp)
  PROVE  ModTypes' /\ Announced
<1> DEFINE pcs == <<addr>>
<1>0. Len(pending) \in 1..Len(pending) /\ pending[Len(pending)].visit \in Visits
  <2>1. Len(pending) \in 1..Len(pending)
    BY TakenShape
  <2> QED BY <2>1, PendingFacts
<1>1. /\ Told(pcs) /\ evicted' = evicted /\ dropped' = dropped
      /\ fired' = fired \cup {pending[Len(pending)].visit}
  BY TakenShape DEF Taken
<1>2. pcs \in Seq(Returns) /\ Len(pcs) = 1 /\ pcs[1] = addr
  OBVIOUS
<1> HIDE DEF pcs
<1>3. ModTypes'
  BY <1>0, <1>1, <1>2, ToldRing, TakenShape DEF ModTypes, TypeOK
<1>4. ASSUME NEW a \in Returns, a # addr PROVE IsPending(a)' = IsPending(a)
  <2>1. ASSUME IsPending(a) PROVE IsPending(a)'
    <3>1. PICK n \in 1..Len(pending) : pending[n].addr = a
      BY <2>1 DEF IsPending
    <3>2. n # Len(pending)
      BY <3>1, <1>4, TakenShape
    <3>3. n \in 1..Len(pending') /\ pending'[n].addr = a
      BY <3>1, <3>2, TakenShape
    <3> QED BY <3>3 DEF IsPending
  <2>2. ASSUME IsPending(a)' PROVE IsPending(a)
    <3>1. PICK n \in 1..Len(pending') : pending'[n].addr = a
      BY <2>2 DEF IsPending
    <3>2. n \in 1..Len(pending) /\ pending[n].addr = a
      BY <3>1, TakenShape
    <3> QED BY <3>2 DEF IsPending
  <2>3. IsPending(a) \in BOOLEAN /\ IsPending(a)' \in BOOLEAN
    BY DEF IsPending
  <2> QED BY <2>1, <2>2, <2>3
<1> QED
  BY <1>1, <1>2, <1>3, <1>4 DEF Announced

-----------------------------------------------------------------------------
(* The frames.                                                             *)

\* The return event of frame n of thread u, which is f, is pending or evicted.
Armed(f, u, n) ==
  \/ <<f.lr, <<u, n - 1>>>> \in evicted
  \/ \E k \in 1..Len(pending) :
       /\ pending[k].addr = f.lr /\ pending[k].sp = <<u, n - 1>>
       /\ pending[k].visit = f.visit \/ f.visit \in dropped

Once ==
  \A m, n \in 1..Len(pending) :
    /\ pending[m].visit \notin fired
    /\ m # n => pending[m].visit # pending[n].visit

AllArmed ==
  \A t \in Threads : \A n \in 1..Len(stack[t]) :
    stack[t][n].fn \in Hooked => stack[t][n].visit \notin fired /\ Armed(stack[t][n], t, n)

LEMMA CallsAlt == TypeOK => (ObserversOnce <=> Once) /\ (LiveCallsArmed <=> AllArmed)
<1> SUFFICES ASSUME TypeOK PROVE (ObserversOnce <=> Once) /\ (LiveCallsArmed <=> AllArmed)
  OBVIOUS
<1>1. DOMAIN pending = 1..Len(pending)
  BY PendingFacts
<1>2. ASSUME NEW t \in Threads PROVE DOMAIN stack[t] = 1..Len(stack[t])
  BY DEF TypeOK
<1>3. ObserversOnce <=> Once
  BY <1>1 DEF ObserversOnce, Once
<1>4. LiveCallsArmed <=> AllArmed
  BY <1>1, <1>2 DEF LiveCallsArmed, AllArmed, Armed, Event
<1> QED
  BY <1>3, <1>4

LEMMA StackFacts ==
  ASSUME TypeOK, NEW t \in Threads
  PROVE  /\ stack[t] \in Seq(Frame) /\ Len(stack[t]) \in Nat
         /\ \A n \in 1..Len(stack[t]) :
              /\ stack[t][n] \in Frame /\ stack[t][n].fn \in Funs
              /\ stack[t][n].lr \in Returns /\ stack[t][n].visit \in Visits
         /\ stack[t] # <<>> <=> Len(stack[t]) > 0
<1>1. /\ stack[t] \in Seq(Frame) /\ Len(stack[t]) \in Nat
      /\ stack[t] # <<>> <=> Len(stack[t]) > 0
  BY DEF TypeOK
<1>2. \A n \in 1..Len(stack[t]) : stack[t][n] \in Frame
  BY <1>1
<1>3. \A n \in 1..Len(stack[t]) : /\ stack[t][n].fn \in Funs
                                  /\ stack[t][n].lr \in Returns /\ stack[t][n].visit \in Visits
  BY <1>2 DEF Frame
<1> QED
  BY <1>1, <1>2, <1>3

\* A frame that a step leaves where it is.
Stays(u, n) == n \in 1..Len(stack[u]) /\ stack'[u][n] = stack[u][n]

\* Thread t is cut to m frames and enters f.
Entered(t, m, f) ==
  /\ stack' \in [Threads -> Seq(Frame)]
  /\ m \in 0..Len(stack[t]) /\ Len(stack'[t]) = m + 1 /\ stack'[t][m + 1] = f
  /\ \A n \in 1..m : Stays(t, n)
  /\ \A u \in Threads : u # t => stack'[u] = stack[u]

\* Thread t is cut to m frames.
LeftTo(t, m) ==
  /\ stack' \in [Threads -> Seq(Frame)]
  /\ m \in 0..Len(stack[t]) /\ Len(stack'[t]) = m
  /\ \A n \in 1..m : Stays(t, n)
  /\ \A u \in Threads : u # t => stack'[u] = stack[u]

LEMMA EnteredFrames ==
  ASSUME TypeOK, NEW t \in Threads, NEW m, NEW f, Entered(t, m, f),
         NEW u \in Threads, NEW n \in 1..Len(stack'[u])
  PROVE  \/ u = t /\ n = m + 1 /\ stack'[u][n] = f
         \/ Stays(u, n) /\ ~(u = t /\ n = m + 1)
<1>1. Len(stack[u]) \in Nat /\ Len(stack[t]) \in Nat /\ m \in Nat
  BY StackFacts DEF Entered
<1>2. CASE u = t
  <2>1. n \in 1..m+1
    BY <1>2 DEF Entered
  <2> QED BY <1>1, <1>2, <2>1 DEF Entered
<1>3. CASE u # t
  BY <1>3 DEF Entered, Stays
<1> QED
  BY <1>2, <1>3

LEMMA LeftFrames ==
  ASSUME TypeOK, NEW t \in Threads, NEW m, LeftTo(t, m),
         NEW u \in Threads, NEW n \in 1..Len(stack'[u])
  PROVE  Stays(u, n) /\ (u = t => n \in 1..m)
BY DEF LeftTo, Stays

\* A call enters one frame above m; the name it takes is the next one.
LEMMA EnteredGuest ==
  ASSUME TypeOK, GuestInv, NEW t \in Threads, NEW m, NEW f, Entered(t, m, f),
         m < MaxDepth, visits' = visits + 1, f.visit = visits + 1
  PROVE  GuestInv'
<1>0. visits \in Nat /\ m \in Nat /\ MaxDepth \in Nat
  BY StackFacts, ModAssumption DEF TypeOK, Entered
<1>1. ASSUME NEW u \in Threads PROVE Len(stack'[u]) <= MaxDepth
  BY <1>0 DEF GuestInv, Bounded, Entered
<1>2. ASSUME NEW u \in Threads, NEW n \in 1..Len(stack'[u])
      PROVE  stack'[u][n].visit \in 1..visits'
  <2>1. CASE stack'[u][n] = f
    BY <1>0, <2>1
  <2>2. CASE Stays(u, n)
    <3>1. stack'[u][n].visit \in 1..visits
      BY <2>2 DEF GuestInv, Named, Stays
    <3> QED BY <1>0, <3>1
  <2> QED BY <2>1, <2>2, EnteredFrames
<1>3. ASSUME NEW u \in Threads, NEW n \in 1..Len(stack'[u]),
             NEW w \in Threads, NEW k \in 1..Len(stack'[w]),
             stack'[w][k].visit = stack'[u][n].visit
      PROVE  w = u /\ k = n
  <2>1. CASE Stays(u, n) /\ Stays(w, k)
    BY <2>1, <1>3 DEF GuestInv, Named, Stays
  <2>2. ASSUME NEW x \in Threads, NEW j \in 1..Len(stack'[x]), Stays(x, j)
        PROVE  stack'[x][j].visit # visits + 1
    <3>1. stack'[x][j].visit \in 1..visits
      BY <2>2 DEF GuestInv, Named, Stays
    <3> QED BY <1>0, <3>1
  <2> QED
    BY <1>3, <2>1, <2>2, EnteredFrames
<1> QED
  BY <1>1, <1>2, <1>3 DEF GuestInv, Bounded, Named

LEMMA LeftGuest ==
  ASSUME TypeOK, GuestInv, NEW t \in Threads, NEW m, LeftTo(t, m), visits' = visits
  PROVE  GuestInv'
<1>1. ASSUME NEW u \in Threads PROVE Len(stack'[u]) <= MaxDepth
  BY StackFacts, ModAssumption DEF GuestInv, Bounded, LeftTo
<1>2. ASSUME NEW u \in Threads, NEW n \in 1..Len(stack'[u]) PROVE Stays(u, n)
  BY LeftFrames
<1>3. Named'
  <2> SUFFICES ASSUME NEW u \in Threads, NEW n \in 1..Len(stack'[u])
               PROVE  /\ stack'[u][n].visit \in 1..visits'
                      /\ \A w \in Threads : \A k \in 1..Len(stack'[w]) :
                           stack'[w][k].visit = stack'[u][n].visit => w = u /\ k = n
    BY DEF Named
  <2>1. Stays(u, n) /\ \A w \in Threads : \A k \in 1..Len(stack'[w]) : Stays(w, k)
    BY <1>2
  <2>2. stack[u][n].visit \in 1..visits /\ stack'[u][n] = stack[u][n]
    BY <2>1 DEF GuestInv, Named, Stays
  <2>3. ASSUME NEW w \in Threads, NEW k \in 1..Len(stack'[w]),
               stack'[w][k].visit = stack'[u][n].visit
        PROVE  w = u /\ k = n
    <3>1. k \in 1..Len(stack[w]) /\ stack'[w][k] = stack[w][k] /\ n \in 1..Len(stack[u])
      BY <2>1 DEF Stays
    <3> QED BY <2>2, <2>3, <3>1 DEF GuestInv, Named
  <2> QED BY <2>2, <2>3
<1> QED
  BY <1>1, <1>3 DEF GuestInv, Bounded

-----------------------------------------------------------------------------
(* What is pending and the frames, for each kind of dispatch.              *)

\* Every frame after the step is f, entered or entered again as frame m + 1 of
\* thread t, or stays.
Above(t, m, f) ==
  \A u \in Threads : \A n \in 1..Len(stack'[u]) :
    \/ u = t /\ n = m + 1 /\ stack'[u][n] = f
    \/ Stays(u, n) /\ ~(u = t /\ n = m + 1) /\ stack'[u][n].visit # f.visit

Base == Given /\ Once /\ Linked /\ AllArmed

\* Nothing is pushed or taken; a hooked call entered finds its event pending.
LEMMA KeptBase ==
  ASSUME TypeOK, GuestInv, Base,
         pending' = pending, fired' = fired, evicted' = evicted, dropped \subseteq dropped',
         visits' \in Nat, visits <= visits',
         \A u \in Threads : \A n \in 1..Len(stack'[u]) :
           \/ Stays(u, n)
           \/ /\ stack'[u][n].visit \notin 1..visits
              /\ stack'[u][n].fn \in Hooked => Armed(stack[u][n], u, n)'
  PROVE  Base'
<1>0. visits \in Nat
  BY DEF TypeOK
<1>1. Given' /\ Once'
  BY <1>0 DEF Base, Given, Once
<1>2. Linked'
  <2> SUFFICES ASSUME NEW k \in 1..Len(pending), NEW u \in Threads,
                      NEW n \in 1..Len(stack'[u]),
                      pending[k].visit = stack'[u][n].visit
               PROVE  pending[k].addr = stack'[u][n].lr /\ pending[k].sp = <<u, n - 1>>
    BY DEF Linked
  <2>1. pending[k].visit \in 1..visits
    BY DEF Base, Given
  <2>2. Stays(u, n)
    BY <2>1
  <2> QED BY <2>2 DEF Base, Linked, Stays
<1>3. AllArmed'
  <2> SUFFICES ASSUME NEW u \in Threads, NEW n \in 1..Len(stack'[u]), stack'[u][n].fn \in Hooked
               PROVE  stack'[u][n].visit \notin fired' /\ Armed(stack[u][n], u, n)'
    BY DEF AllArmed, Armed
  <2>1. CASE Stays(u, n)
    <3>1. stack[u][n].visit \notin fired /\ Armed(stack[u][n], u, n) /\ stack'[u][n] = stack[u][n]
      BY <2>1 DEF Base, AllArmed, Stays
    <3>2. Armed(stack[u][n], u, n)'
      BY <3>1 DEF Armed
    <3> QED BY <3>1, <3>2
  <2>2. CASE ~Stays(u, n)
    BY <2>2 DEF Base, Given
  <2> QED BY <2>1, <2>2
<1> QED
  BY <1>1, <1>2, <1>3 DEF Base

LEMMA PushedBase ==
  ASSUME TypeOK, GuestInv, Base, NEW t \in Threads, NEW m, NEW f, Above(t, m, f),
         f.lr \in Returns, <<t, m>> \in SPs, f.visit \in Visits,
         Pushed(f.lr, <<t, m>>, f.visit),
         visits' \in Nat, visits <= visits', f.visit \in 1..visits', f.visit \notin fired, m \in Nat,
         \A k \in 1..Len(pending) : pending[k].visit # f.visit
  PROVE  Base'
<1> DEFINE e == Entry(f.lr, <<t, m>>, f.visit)
           len == Len(pending)
<1>0. /\ len \in Nat /\ Len(pending') = len + 1 /\ visits \in Nat
      /\ \A n \in 1..len : pending'[n] = pending[n]
      /\ pending'[len + 1] = e
      /\ e.addr = f.lr /\ e.sp = <<t, m>> /\ e.visit = f.visit
      /\ fired' = fired /\ dropped' = dropped
      /\ evicted' = evicted \ {<<f.lr, <<t, m>>>>}
  BY PushedShape DEF Pushed, TypeOK, Entry
<1> HIDE DEF e, len
<1>00. ASSUME NEW n \in 1..Len(pending')
       PROVE  \/ n = len + 1 /\ pending'[n] = e
              \/ n \in 1..len /\ pending'[n] = pending[n]
  BY <1>0
<1>1. Given'
  BY <1>0, <1>00 DEF Base, Given, len
<1>2. Once'
  <2>1. ASSUME NEW n \in 1..Len(pending') PROVE pending'[n].visit \notin fired'
    BY <1>0, <1>00 DEF Base, Once, len
  <2>2. ASSUME NEW n \in 1..Len(pending'), NEW k \in 1..Len(pending'), k # n
        PROVE  pending'[k].visit # pending'[n].visit
    BY <1>0, <1>00, <2>2 DEF Base, Once, len
  <2> QED BY <2>1, <2>2 DEF Once
<1>3. Linked'
  <2> SUFFICES ASSUME NEW k \in 1..Len(pending'), NEW u \in Threads,
                      NEW n \in 1..Len(stack'[u]),
                      pending'[k].visit = stack'[u][n].visit
               PROVE  pending'[k].addr = stack'[u][n].lr /\ pending'[k].sp = <<u, n - 1>>
    BY DEF Linked
  <2>1. CASE k = len + 1 /\ pending'[k] = e
    <3>1. u = t /\ n = m + 1 /\ stack'[u][n] = f
      BY <1>0, <2>1 DEF Above
    <3> QED BY <1>0, <2>1, <3>1
  <2>2. CASE k \in 1..len /\ pending'[k] = pending[k]
    <3>1. Stays(u, n)
      BY <1>0, <2>2 DEF Above, len
    <3> QED BY <2>2, <3>1 DEF Base, Linked, Stays, len
  <2> QED BY <1>00, <2>1, <2>2
<1>4. AllArmed'
  <2> SUFFICES ASSUME NEW u \in Threads, NEW n \in 1..Len(stack'[u]), stack'[u][n].fn \in Hooked
               PROVE  stack'[u][n].visit \notin fired' /\ Armed(stack[u][n], u, n)'
    BY DEF AllArmed, Armed
  <2>1. CASE u = t /\ n = m + 1 /\ stack'[u][n] = f
    <3>1. len + 1 \in 1..Len(pending') /\ n - 1 = m
      BY <1>0, <2>1
    <3> QED BY <1>0, <2>1, <3>1 DEF Armed
  <2>2. CASE Stays(u, n) /\ ~(u = t /\ n = m + 1)
    <3>1. stack[u][n].visit \notin fired /\ Armed(stack[u][n], u, n) /\ stack'[u][n] = stack[u][n]
      BY <2>2 DEF Base, AllArmed, Stays
    <3>2. ASSUME NEW k \in 1..Len(pending) PROVE k \in 1..Len(pending') /\ pending'[k] = pending[k]
      BY <1>0 DEF len
    <3>3. <<u, n - 1>> # <<t, m>>
      BY <2>2
    <3> QED BY <1>0, <3>1, <3>2, <3>3 DEF Armed
  <2> QED BY <2>1, <2>2 DEF Above
<1> QED
  BY <1>1, <1>2, <1>3, <1>4 DEF Base

LEMMA OverBase ==
  ASSUME TypeOK, GuestInv, Base, NEW t \in Threads, NEW m, NEW f, Above(t, m, f),
         f.lr \in Returns, <<t, m>> \in SPs, f.visit \in Visits,
         PushedOver(f.lr, <<t, m>>, f.visit),
         visits' \in Nat, visits <= visits', f.visit \in 1..visits', f.visit \notin fired, m \in Nat,
         \A k \in 1..Len(pending) : pending[k].visit # f.visit
  PROVE  Base'
<1> DEFINE e == Entry(f.lr, <<t, m>>, f.visit)
           len == Len(pending)
<1>0. /\ len \in Nat \ {0} /\ Len(pending') = len /\ visits \in Nat
      /\ \A n \in 1..len-1 : pending'[n] = pending[n + 1]
      /\ pending'[len] = e
      /\ e.addr = f.lr /\ e.sp = <<t, m>> /\ e.visit = f.visit
      /\ fired' = fired /\ dropped' = dropped
      /\ evicted' = (evicted \cup {<<pending[1].addr, pending[1].sp>>}) \ {<<f.lr, <<t, m>>>>}
  <2>1. e.addr = f.lr /\ e.sp = <<t, m>> /\ e.visit = f.visit
    BY DEF Entry
  <2>2. /\ fired' = fired /\ dropped' = dropped
        /\ evicted' = (evicted \cup {<<pending[1].addr, pending[1].sp>>}) \ {<<f.lr, <<t, m>>>>}
    BY DEF PushedOver, Event
  <2>3. visits \in Nat
    BY DEF TypeOK
  <2> HIDE DEF e
  <2> QED BY <2>1, <2>2, <2>3, OverShape DEF e
<1> HIDE DEF e, len
<1>00. ASSUME NEW n \in 1..Len(pending')
       PROVE  \/ n = len /\ pending'[n] = e
              \/ n # len /\ n + 1 \in 1..len /\ pending'[n] = pending[n + 1]
  BY <1>0
<1>1. Given'
  BY <1>0, <1>00 DEF Base, Given, len
<1>2. Once'
  <2>1. ASSUME NEW n \in 1..Len(pending') PROVE pending'[n].visit \notin fired'
    BY <1>0, <1>00 DEF Base, Once, len
  <2>2. ASSUME NEW n \in 1..Len(pending'), NEW k \in 1..Len(pending'), k # n
        PROVE  pending'[k].visit # pending'[n].visit
    <3>1. n + 1 # k + 1
      BY <2>2, <1>0
    <3>2. CASE n # len /\ k # len
      <4>1. /\ n + 1 \in 1..len /\ pending'[n] = pending[n + 1]
            /\ k + 1 \in 1..len /\ pending'[k] = pending[k + 1]
        BY <1>00, <3>2
      <4> QED BY <3>1, <4>1 DEF Base, Once, len
    <3>3. CASE n = len \/ k = len
      BY <1>0, <1>00, <2>2, <3>3 DEF len
    <3> QED BY <3>2, <3>3
  <2> QED BY <2>1, <2>2 DEF Once
<1>3. Linked'
  <2> SUFFICES ASSUME NEW k \in 1..Len(pending'), NEW u \in Threads,
                      NEW n \in 1..Len(stack'[u]),
                      pending'[k].visit = stack'[u][n].visit
               PROVE  pending'[k].addr = stack'[u][n].lr /\ pending'[k].sp = <<u, n - 1>>
    BY DEF Linked
  <2>1. CASE k = len /\ pending'[k] = e
    <3>1. u = t /\ n = m + 1 /\ stack'[u][n] = f
      BY <1>0, <2>1 DEF Above
    <3> QED BY <1>0, <2>1, <3>1
  <2>2. CASE k + 1 \in 1..len /\ pending'[k] = pending[k + 1]
    <3>1. Stays(u, n)
      BY <1>0, <2>2 DEF Above, len
    <3> QED BY <2>2, <3>1 DEF Base, Linked, Stays, len
  <2> QED BY <1>00, <2>1, <2>2
<1>4. AllArmed'
  <2> SUFFICES ASSUME NEW u \in Threads, NEW n \in 1..Len(stack'[u]), stack'[u][n].fn \in Hooked
               PROVE  stack'[u][n].visit \notin fired' /\ Armed(stack[u][n], u, n)'
    BY DEF AllArmed, Armed
  <2>1. CASE u = t /\ n = m + 1 /\ stack'[u][n] = f
    <3>1. len \in 1..Len(pending') /\ n - 1 = m
      BY <1>0, <2>1
    <3> QED BY <1>0, <2>1, <3>1 DEF Armed
  <2>2. CASE Stays(u, n) /\ ~(u = t /\ n = m + 1)
    <3>1. stack[u][n].visit \notin fired /\ Armed(stack[u][n], u, n) /\ stack'[u][n] = stack[u][n]
      BY <2>2 DEF Base, AllArmed, Stays
    <3>2. ASSUME NEW k \in 1..Len(pending), k # 1
          PROVE  k - 1 \in 1..Len(pending') /\ pending'[k - 1] = pending[k]
      <4>1. k - 1 \in 1..len-1 /\ (k - 1) + 1 = k
        BY <3>2, <1>0 DEF len
      <4> QED BY <4>1, <1>0
    <3>3. <<u, n - 1>> # <<t, m>>
      BY <2>2
    <3> QED BY <1>0, <3>1, <3>2, <3>3 DEF Armed
  <2> QED BY <2>1, <2>2 DEF Above
<1> QED
  BY <1>1, <1>2, <1>3, <1>4 DEF Base

\* The last entry is taken, and its call is on no stack.
LEMMA TakenBase ==
  ASSUME TypeOK, GuestInv, Base, NEW addr, NEW sp, Taken(addr, sp), visits' = visits,
         \A u \in Threads : \A n \in 1..Len(stack'[u]) :
           /\ Stays(u, n) /\ <<u, n - 1>> # sp
           /\ stack'[u][n].visit # pending[Len(pending)].visit
  PROVE  Base'
<1> DEFINE len == Len(pending)
<1>0. /\ len \in Nat \ {0} /\ Len(pending') = len - 1
      /\ \A n \in 1..len-1 : pending'[n] = pending[n]
      /\ fired' = fired \cup {pending[len].visit} /\ evicted' = evicted /\ dropped' = dropped
      /\ pending[len].sp = sp
  BY TakenShape DEF Taken
<1> HIDE DEF len
<1>00. ASSUME NEW n \in 1..Len(pending')
       PROVE  n \in 1..len /\ n # len /\ pending'[n] = pending[n]
  BY <1>0
<1>01. len \in 1..len
  BY <1>0
<1>1. Given'
  BY <1>0, <1>00, <1>01 DEF Base, Given, len
<1>2. Once'
  BY <1>0, <1>00, <1>01 DEF Base, Once, len
<1>3. Linked'
  <2> SUFFICES ASSUME NEW k \in 1..Len(pending'), NEW u \in Threads,
                      NEW n \in 1..Len(stack'[u]),
                      pending'[k].visit = stack'[u][n].visit
               PROVE  pending'[k].addr = stack'[u][n].lr /\ pending'[k].sp = <<u, n - 1>>
    BY DEF Linked
  <2>1. Stays(u, n) /\ k \in 1..Len(pending) /\ pending'[k] = pending[k]
    BY <1>00 DEF len
  <2> QED BY <2>1 DEF Base, Linked, Stays
<1>4. AllArmed'
  <2> SUFFICES ASSUME NEW u \in Threads, NEW n \in 1..Len(stack'[u]), stack'[u][n].fn \in Hooked
               PROVE  stack'[u][n].visit \notin fired' /\ Armed(stack[u][n], u, n)'
    BY DEF AllArmed, Armed
  <2>1. stack[u][n].visit \notin fired /\ Armed(stack[u][n], u, n) /\ stack'[u][n] = stack[u][n]
    BY DEF Base, AllArmed, Stays
  <2>2. ASSUME NEW k \in 1..Len(pending), pending[k].sp = <<u, n - 1>>
        PROVE  k \in 1..Len(pending') /\ pending'[k] = pending[k]
    <3>1. k # len
      BY <1>0, <2>2
    <3> QED BY <1>0, <3>1 DEF len
  <2>3. stack'[u][n].visit \notin fired'
    BY <1>0, <2>1 DEF len
  <2>4. Armed(stack[u][n], u, n)'
    BY <1>0, <2>1, <2>2 DEF Armed
  <2> QED BY <2>3, <2>4
<1> QED
  BY <1>1, <1>2, <1>3, <1>4 DEF Base

-----------------------------------------------------------------------------
(* Nested calls.                                                           *)

\* What is pending stays, and so does every hooked frame; no hooked call is
\* entered.
LEMMA KeptInStep ==
  ASSUME InStep, pending' = pending, evicted' = evicted,
         \A u \in Threads : \A n \in 1..Len(stack'[u]) :
           Stays(u, n) \/ stack'[u][n].fn \notin Hooked,
         \A u \in Threads : \A n \in 1..Len(stack[u]) :
           stack[u][n].fn \in Hooked => n \in 1..Len(stack'[u]) /\ stack'[u][n] = stack[u][n]
  PROVE  InStep'
<1>1. ASSUME NEW u \in Threads, NEW n \in 1..Len(stack'[u]), stack'[u][n].fn \in Hooked
      PROVE  \E k \in 1..Len(pending') : pending'[k].visit = stack'[u][n].visit
  BY <1>1 DEF InStep, Stays
<1>2. ASSUME NEW k \in 1..Len(pending')
      PROVE  \E u \in Threads : \E n \in 1..Len(stack'[u]) :
               /\ stack'[u][n].fn \in Hooked /\ stack'[u][n].visit = pending'[k].visit
               /\ pending'[k].sp = <<u, n - 1>>
  <2>1t. PICK u \in Threads : \E n \in 1..Len(stack[u]) :
               /\ stack[u][n].fn \in Hooked /\ stack[u][n].visit = pending[k].visit
               /\ pending[k].sp = <<u, n - 1>>
    BY DEF InStep
  <2>1. PICK n \in 1..Len(stack[u]) :
               /\ stack[u][n].fn \in Hooked /\ stack[u][n].visit = pending[k].visit
               /\ pending[k].sp = <<u, n - 1>>
    BY <2>1t
  <2>2. n \in 1..Len(stack'[u]) /\ stack'[u][n] = stack[u][n]
    BY <2>1
  <2> QED BY <2>1, <2>2
<1>3. Ordered'
  BY DEF InStep, Ordered
<1> QED
  BY <1>1, <1>2, <1>3 DEF InStep

\* While calls nest, the last entry is that of the top frame if it is hooked,
\* and of no other thread's.
LEMMA LastIsTop ==
  ASSUME TypeOK, GuestInv, Linked, InStep, NEW t \in Threads,
         Len(stack[t]) > 0, stack[t][Len(stack[t])].fn \in Hooked
  PROVE  /\ Len(pending) \in 1..Len(pending)
         /\ pending[Len(pending)].addr = stack[t][Len(stack[t])].lr
         /\ pending[Len(pending)].sp = <<t, Len(stack[t]) - 1>>
         /\ pending[Len(pending)].visit = stack[t][Len(stack[t])].visit
<1> DEFINE top == Len(stack[t])
           len == Len(pending)
<1>0. top \in 1..Len(stack[t]) /\ top \in Nat /\ len \in Nat
  BY StackFacts, PendingFacts
<1>1. PICK k \in 1..Len(pending) : pending[k].visit = stack[t][top].visit
  BY <1>0 DEF InStep
<1>2. pending[k].addr = stack[t][top].lr /\ pending[k].sp = <<t, top - 1>>
  BY <1>0, <1>1 DEF Linked
<1>3. len \in 1..Len(pending)
  BY <1>0, <1>1
<1>4t. PICK u \in Threads : \E n \in 1..Len(stack[u]) : pending[len].sp = <<u, n - 1>>
  BY <1>3 DEF InStep
<1>4. PICK n \in 1..Len(stack[u]) : pending[len].sp = <<u, n - 1>>
  BY <1>4t
<1>5. ASSUME k # len PROVE FALSE
  <2>1. k < len
    BY <1>0, <1>5
  <2>2. pending[k].sp[1] = pending[len].sp[1] /\ pending[k].sp[2] < pending[len].sp[2]
    BY <1>3, <2>1 DEF InStep, Ordered
  <2>3. u = t /\ top - 1 < n - 1
    BY <1>2, <1>4, <2>2
  <2>4. n \in 1..top
    BY <2>3
  <2> QED BY <1>0, <2>3, <2>4
<1> QED
  BY <1>1, <1>2, <1>3, <1>5

\* A hooked call is pushed over nothing, or over a call of its own thread.
LEMMA PushedInStep ==
  ASSUME TypeOK, GuestInv, InStep, NEW t \in Threads, NEW m, NEW f, Entered(t, m, f),
         m = Len(stack[t]), f.fn \in Hooked, f.lr \in Returns, <<t, m>> \in SPs,
         f.visit \in Visits, Pushed(f.lr, <<t, m>>, f.visit),
         pending # <<>> => Last(pending).sp[1] = t
  PROVE  InStep'
<1> DEFINE e == Entry(f.lr, <<t, m>>, f.visit)
           len == Len(pending)
<1>0. /\ len \in Nat /\ Len(pending') = len + 1
      /\ \A n \in 1..len : pending'[n] = pending[n]
      /\ pending'[len + 1] = e /\ m \in Nat
      /\ e.addr = f.lr /\ e.sp = <<t, m>> /\ e.visit = f.visit
  BY PushedShape, StackFacts DEF Entry
<1> HIDE DEF e, len
<1>00. ASSUME NEW n \in 1..Len(pending')
       PROVE  \/ n = len + 1 /\ pending'[n] = e
              \/ n \in 1..len /\ pending'[n] = pending[n]
  BY <1>0
<1>01. /\ len + 1 \in 1..Len(pending')
       /\ \A k \in 1..Len(pending) : k \in 1..Len(pending') /\ pending'[k] = pending[k]
  BY <1>0 DEF len
<1>1. ASSUME NEW u \in Threads, NEW n \in 1..Len(stack'[u]), stack'[u][n].fn \in Hooked
      PROVE  \E k \in 1..Len(pending') : pending'[k].visit = stack'[u][n].visit
  <2>1. CASE stack'[u][n] = f
    BY <1>0, <1>01, <2>1
  <2>2. CASE Stays(u, n)
    <3>1. PICK k \in 1..Len(pending) : pending[k].visit = stack[u][n].visit
      BY <1>1, <2>2 DEF InStep, Stays
    <3> QED BY <1>01, <2>2, <3>1 DEF Stays
  <2> QED BY <2>1, <2>2, EnteredFrames
<1>2. ASSUME NEW k \in 1..Len(pending')
      PROVE  \E u \in Threads : \E n \in 1..Len(stack'[u]) :
               /\ stack'[u][n].fn \in Hooked /\ stack'[u][n].visit = pending'[k].visit
               /\ pending'[k].sp = <<u, n - 1>>
  <2>1. CASE k = len + 1 /\ pending'[k] = e
    <3>1. m + 1 \in 1..Len(stack'[t]) /\ stack'[t][m + 1] = f /\ (m + 1) - 1 = m
      BY <1>0 DEF Entered
    <3> QED BY <1>0, <2>1, <3>1
  <2>2. CASE k \in 1..len /\ pending'[k] = pending[k]
    <3>1t. PICK u \in Threads : \E n \in 1..Len(stack[u]) :
               /\ stack[u][n].fn \in Hooked /\ stack[u][n].visit = pending[k].visit
               /\ pending[k].sp = <<u, n - 1>>
      BY <2>2 DEF InStep, len
    <3>1. PICK n \in 1..Len(stack[u]) :
               /\ stack[u][n].fn \in Hooked /\ stack[u][n].visit = pending[k].visit
               /\ pending[k].sp = <<u, n - 1>>
      BY <3>1t
    <3>2. n \in 1..Len(stack'[u]) /\ stack'[u][n] = stack[u][n]
      <4>1. CASE u = t
        BY <4>1, <1>0 DEF Entered, Stays
      <4>2. CASE u # t
        BY <4>2 DEF Entered
      <4> QED BY <4>1, <4>2
    <3> QED BY <2>2, <3>1, <3>2
  <2> QED BY <1>00, <2>1, <2>2
<1>3. ASSUME NEW j \in 1..len PROVE pending[j].sp[1] = t /\ pending[j].sp[2] < m
  <2>1. len \in 1..len /\ pending # <<>> /\ Last(pending) = pending[len]
    BY <1>0, <1>3, PendingFacts DEF len, Last
  <2>2. pending[len].sp[1] = t
    BY <2>1
  <2>3. pending[j].sp[1] = t
    <3>1. CASE j = len
      BY <2>2, <3>1
    <3>2. CASE j # len
      <4>1. j < len
        BY <3>2, <1>0
      <4>2. pending[j].sp[1] = pending[len].sp[1]
        BY <2>1, <4>1 DEF InStep, Ordered, len
      <4> QED BY <2>2, <4>2
    <3> QED BY <3>1, <3>2
  <2>4t. PICK u \in Threads : \E n \in 1..Len(stack[u]) : pending[j].sp = <<u, n - 1>>
    BY DEF InStep, len
  <2>4. PICK n \in 1..Len(stack[u]) : pending[j].sp = <<u, n - 1>>
    BY <2>4t
  <2>5. u = t /\ pending[j].sp[2] = n - 1
    BY <2>3, <2>4
  <2>6. n \in 1..m
    BY <2>5
  <2> QED BY <1>0, <2>3, <2>5, <2>6
<1>4. Ordered'
  <2> SUFFICES ASSUME NEW j \in 1..Len(pending'), NEW k \in 1..Len(pending'), j < k
               PROVE  /\ pending'[j].sp[1] = pending'[k].sp[1]
                      /\ pending'[j].sp[2] < pending'[k].sp[2]
    BY DEF Ordered
  <2>1. j \in 1..len /\ pending'[j] = pending[j]
    BY <1>0, <1>00
  <2>2. CASE k = len + 1 /\ pending'[k] = e
    BY <1>0, <1>3, <2>1, <2>2
  <2>3. CASE k \in 1..len /\ pending'[k] = pending[k]
    BY <2>1, <2>3 DEF InStep, Ordered, len
  <2> QED BY <1>00, <2>2, <2>3
<1>5. evicted' = {}
  BY DEF Pushed, InStep
<1> QED
  BY <1>1, <1>2, <1>4, <1>5 DEF InStep

\* The top frame returns and its entry, the last, is taken.
LEMMA TakenInStep ==
  ASSUME TypeOK, GuestInv, InStep, NEW t \in Threads, Len(stack[t]) > 0,
         LeftTo(t, Len(stack[t]) - 1), NEW addr, Taken(addr, <<t, Len(stack[t]) - 1>>),
         evicted' = evicted, Once
  PROVE  InStep' /\ stack[t][Len(stack[t])].fn \in Hooked
                 /\ pending[Len(pending)].visit = stack[t][Len(stack[t])].visit
<1> DEFINE len == Len(pending)
           top == Len(stack[t])
<1>0. /\ len \in Nat \ {0} /\ Len(pending') = len - 1
      /\ \A n \in 1..len-1 : pending'[n] = pending[n]
      /\ pending[len].sp = <<t, top - 1>>
      /\ top \in Nat \ {0}
  <2>1. top \in Nat \ {0}
    BY StackFacts
  <2> DEFINE sp == <<t, top - 1>>
  <2> HIDE DEF sp
  <2>2. /\ len \in Nat \ {0} /\ Len(pending') = len - 1
        /\ \A n \in 1..len-1 : pending'[n] = pending[n]
        /\ pending[len].sp = sp
    BY TakenShape DEF sp
  <2> QED BY <2>1, <2>2 DEF sp
<1>1t. PICK v \in Threads : \E d \in 1..Len(stack[v]) :
               /\ stack[v][d].fn \in Hooked /\ stack[v][d].visit = pending[len].visit
               /\ pending[len].sp = <<v, d - 1>>
  BY <1>0, len \in 1..len DEF InStep
<1>1. PICK d \in 1..Len(stack[v]) :
               /\ stack[v][d].fn \in Hooked /\ stack[v][d].visit = pending[len].visit
               /\ pending[len].sp = <<v, d - 1>>
  BY <1>1t
<1>2. v = t /\ d = top
  BY <1>0, <1>1
<1> HIDE DEF len
<1>00. ASSUME NEW n \in 1..Len(pending')
       PROVE  n \in 1..len /\ n # len /\ pending'[n] = pending[n]
  BY <1>0
<1>3. ASSUME NEW u \in Threads, NEW n \in 1..Len(stack'[u]), stack'[u][n].fn \in Hooked
      PROVE  \E k \in 1..Len(pending') : pending'[k].visit = stack'[u][n].visit
  <2>1. Stays(u, n) /\ (u = t => n \in 1..top-1)
    BY LeftFrames
  <2>2. PICK k \in 1..Len(pending) : pending[k].visit = stack[u][n].visit
    BY <1>3, <2>1 DEF InStep, Stays
  <2>3. k # len
    <3>1. ASSUME k = len PROVE FALSE
      <4>1. stack[u][n].visit = stack[t][top].visit
        BY <1>1, <1>2, <2>2, <3>1
      <4>2. u = t /\ n = top
        BY <4>1, <2>1, <1>0, top \in 1..Len(stack[t]) DEF GuestInv, Named, Stays
      <4> QED BY <4>2, <2>1, <1>0
    <3> QED BY <3>1
  <2>4. k \in 1..Len(pending') /\ pending'[k] = pending[k]
    BY <1>0, <2>3 DEF len
  <2> QED BY <2>1, <2>2, <2>4 DEF Stays
<1>4. ASSUME NEW k \in 1..Len(pending')
      PROVE  \E u \in Threads : \E n \in 1..Len(stack'[u]) :
               /\ stack'[u][n].fn \in Hooked /\ stack'[u][n].visit = pending'[k].visit
               /\ pending'[k].sp = <<u, n - 1>>
  <2>1t. PICK u \in Threads : \E n \in 1..Len(stack[u]) :
               /\ stack[u][n].fn \in Hooked /\ stack[u][n].visit = pending[k].visit
               /\ pending[k].sp = <<u, n - 1>>
    BY <1>00 DEF InStep, len
  <2>1. PICK n \in 1..Len(stack[u]) :
               /\ stack[u][n].fn \in Hooked /\ stack[u][n].visit = pending[k].visit
               /\ pending[k].sp = <<u, n - 1>>
    BY <2>1t
  <2>2. ~(u = t /\ n = top)
    <3>1. pending[k].visit # pending[len].visit
      BY <1>00, <1>0, len \in 1..len DEF Once, len
    <3> QED BY <3>1, <2>1, <1>1, <1>2
  <2>3. n \in 1..Len(stack'[u]) /\ stack'[u][n] = stack[u][n]
    <3>1. CASE u = t
      <4>1. n \in 1..top-1
        BY <3>1, <2>2, <1>0
      <4> QED BY <3>1, <4>1 DEF LeftTo, Stays
    <3>2. CASE u # t
      BY <3>2 DEF LeftTo
    <3> QED BY <3>1, <3>2
  <2> QED BY <1>00, <2>1, <2>3
<1>5. Ordered'
  <2> SUFFICES ASSUME NEW j \in 1..Len(pending'), NEW k \in 1..Len(pending'), j < k
               PROVE  /\ pending'[j].sp[1] = pending'[k].sp[1]
                      /\ pending'[j].sp[2] < pending'[k].sp[2]
    BY DEF Ordered
  <2>1. /\ j \in 1..Len(pending) /\ pending'[j] = pending[j]
        /\ k \in 1..Len(pending) /\ pending'[k] = pending[k]
    BY <1>00 DEF len
  <2> QED BY <2>1 DEF InStep, Ordered
<1> QED
  BY <1>1, <1>2, <1>3, <1>4, <1>5 DEF InStep, len

-----------------------------------------------------------------------------
(* One lemma for each action.                                              *)

\* The channel's part of a step.
Accounted == UNCHANGED <<pending, ring, overflow, moved>> \/ Announced

StackTypes ==
  /\ known \subseteq Returns
  /\ stack \in [Threads -> Seq(Frame)]
  /\ atEntry \in [Threads -> BOOLEAN]
  /\ visits \in 0..MaxVisits
  /\ disturbed \in BOOLEAN

\* What is left to show of a step that does not drain the channel.
LEMMA Together ==
  ASSUME Inv, ModTypes', StackTypes', known' = known, Accounted, GuestInv', Base', Nested'
  PROVE  Inv'
<1>1. TypeOK'
  BY DEF ModTypes, StackTypes, TypeOK
<1>2. (TypeOK => (ChannelComplete <=> ChannelTold))'
  BY ChannelAlt, PTL
<1>3. ChannelComplete'
  <2>1. CASE UNCHANGED <<pending, ring, overflow, moved>>
    <3>1. ChannelTold'
      BY <2>1, ChannelAlt DEF Inv, ChannelTold, IsPending, InRing
    <3> QED BY <1>1, <1>2, <3>1
  <2>2. CASE Announced
    BY <1>1, <2>2, ToldComplete DEF Inv, Announced
  <2> QED BY <2>1, <2>2 DEF Accounted
<1>4. (TypeOK => (ObserversOnce <=> Once) /\ (LiveCallsArmed <=> AllArmed))'
  BY CallsAlt, PTL
<1> QED
  BY <1>1, <1>3, <1>4 DEF Inv, CallsInv, Base

LEMMA InvBase == Inv => Base /\ TypeOK /\ GuestInv /\ Nested
BY CallsAlt DEF Inv, CallsInv, Base

LEMMA NothingDispatched ==
  ASSUME TypeOK, NoDispatch
  PROVE  ModTypes' /\ Accounted /\ pending' = pending /\ fired' = fired
         /\ evicted' = evicted /\ dropped' = dropped
BY DEF NoDispatch, modVars, TypeOK, ModTypes, Accounted

\* The step in which thread t, cut to m frames, enters f.
LEMMA EnterStep ==
  ASSUME Inv, NEW t \in Threads, NEW m, NEW f \in Frame, Entered(t, m, f), m < MaxDepth,
         visits < MaxVisits, visits' = visits + 1, f.visit = visits + 1,
         known' = known, atEntry' \in [Threads -> BOOLEAN], disturbed' \in BOOLEAN,
         Enter(t, f.fn, f.lr, <<t, m>>, f.visit),
         ~disturbed' => /\ ~disturbed /\ m = Len(stack[t]) /\ evicted' = evicted
                        /\ f.fn \in Hooked /\ pending # <<>> => Last(pending).sp[1] = t
  PROVE  Inv'
<1>0. Base /\ TypeOK /\ GuestInv /\ Nested
  BY InvBase
<1>1. /\ m \in Nat /\ <<t, m>> \in SPs /\ f.fn \in Funs /\ f.lr \in Returns /\ f.visit \in Visits
      /\ visits \in Nat /\ visits' \in 0..MaxVisits /\ visits' \in Nat /\ visits <= visits'
      /\ f.visit \in 1..visits' /\ f.visit \notin 1..visits
  <2>1. m \in Nat /\ <<t, m>> \in SPs
    BY <1>0, ModAssumption, StackFacts DEF Entered, SPs
  <2>2. f.fn \in Funs /\ f.lr \in Returns /\ f.visit \in Visits
    BY DEF Frame
  <2>3. visits \in Nat /\ visits \in 0..MaxVisits /\ MaxVisits \in Nat
    BY <1>0, ModAssumption DEF TypeOK
  <2> QED BY <2>1, <2>2, <2>3
<1>2. StackTypes'
  BY <1>0, <1>1 DEF StackTypes, TypeOK, Entered
<1>3. GuestInv'
  BY <1>0, EnteredGuest
<1>4. Above(t, m, f)
  <2> SUFFICES ASSUME NEW u \in Threads, NEW n \in 1..Len(stack'[u])
               PROVE  \/ u = t /\ n = m + 1 /\ stack'[u][n] = f
                      \/ Stays(u, n) /\ ~(u = t /\ n = m + 1) /\ stack'[u][n].visit # f.visit
    BY DEF Above
  <2>1. Stays(u, n) => stack'[u][n].visit \in 1..visits
    BY <1>0 DEF GuestInv, Named, Stays
  <2> QED BY <1>0, <1>1, <2>1, EnteredFrames
<1>5. ASSUME NEW k \in 1..Len(pending) PROVE pending[k].visit # f.visit
  BY <1>0, <1>1 DEF Base, Given
<1>6. f.visit \notin fired
  BY <1>0, <1>1 DEF Base, Given
<1>7. CASE f.fn \notin Hooked
  <2>1. /\ ModTypes' /\ Accounted /\ pending' = pending /\ fired' = fired
        /\ evicted' = evicted /\ dropped' = dropped
    BY <1>0, <1>7, NothingDispatched DEF Enter
  <2>2. Base'
    <3>1. \A u \in Threads : \A n \in 1..Len(stack'[u]) :
             \/ Stays(u, n)
             \/ /\ stack'[u][n].visit \notin 1..visits
                /\ stack'[u][n].fn \in Hooked => Armed(stack[u][n], u, n)'
      BY <1>1, <1>4, <1>7 DEF Above
    <3> QED BY <1>0, <1>1, <2>1, <3>1, KeptBase
  <2>3. Nested'
    <3> SUFFICES ASSUME ~disturbed' PROVE InStep'
      BY DEF Nested
    <3>1. InStep /\ m = Len(stack[t])
      BY <1>0 DEF Nested
    <3>2. \A u \in Threads : \A n \in 1..Len(stack'[u]) :
             Stays(u, n) \/ stack'[u][n].fn \notin Hooked
      BY <1>4, <1>7 DEF Above
    <3>3. ASSUME NEW u \in Threads, NEW n \in 1..Len(stack[u])
          PROVE  n \in 1..Len(stack'[u]) /\ stack'[u][n] = stack[u][n]
      <4>1. CASE u = t
        BY <1>1, <3>1, <4>1 DEF Entered, Stays
      <4>2. CASE u # t
        BY <4>2 DEF Entered
      <4> QED BY <4>1, <4>2
    <3> QED BY <2>1, <3>1, <3>2, <3>3, KeptInStep
  <2> QED BY <1>2, <1>3, <2>1, <2>2, <2>3, Together
<1>8. CASE f.fn \in Hooked
  <2>0. Dispatch(f.fn, f.lr, <<t, m>>, f.visit)
    BY <1>8 DEF Enter
  <2>1. CASE Repeated(f.lr, <<t, m>>, f.visit)
    <3>1. ModTypes' /\ Announced
      BY <1>0, <1>1, <2>1, RepeatedSafe
    <3>2. /\ pending' = pending /\ fired' = fired /\ evicted' = evicted
          /\ dropped' = dropped \cup {f.visit}
      <4>1. \A n \in Twin(pending, f.lr, <<t, m>>) : pending[n].visit # f.visit
        BY <1>0, <1>5, PendingFacts DEF Twin
      <4> QED BY <2>1, <4>1 DEF Repeated
    <3>3. Base'
      <4>1. ASSUME NEW u \in Threads, NEW n \in 1..Len(stack'[u]), u = t, n = m + 1,
                   stack'[u][n] = f
            PROVE  Armed(stack[u][n], u, n)'
        <5>1. PICK k \in 1..Len(pending) : pending[k].addr = f.lr /\ pending[k].sp = <<t, m>>
          BY <1>0, <2>1, PendingFacts DEF Repeated, Twin
        <5>2. n - 1 = m
          BY <1>1, <4>1
        <5> QED BY <3>2, <4>1, <5>1, <5>2 DEF Armed
      <4>2. \A u \in Threads : \A n \in 1..Len(stack'[u]) :
               \/ Stays(u, n)
               \/ /\ stack'[u][n].visit \notin 1..visits
                  /\ stack'[u][n].fn \in Hooked => Armed(stack[u][n], u, n)'
        BY <1>1, <1>4, <4>1 DEF Above
      <4> QED BY <1>0, <1>1, <3>2, <4>2, KeptBase
    <3>4. Nested'
      <4> SUFFICES ASSUME ~disturbed' PROVE FALSE
        BY DEF Nested
      <4>1. InStep /\ m = Len(stack[t])
        BY <1>0 DEF Nested
      <4>2. PICK k \in 1..Len(pending) : pending[k].sp = <<t, m>>
        BY <1>0, <2>1, PendingFacts DEF Repeated, Twin
      <4>3t. PICK u \in Threads : \E n \in 1..Len(stack[u]) : pending[k].sp = <<u, n - 1>>
        BY <4>1 DEF InStep
      <4>3. PICK n \in 1..Len(stack[u]) : pending[k].sp = <<u, n - 1>>
        BY <4>3t
      <4>4. u = t /\ n - 1 = m
        BY <4>2, <4>3
      <4> QED BY <1>1, <4>1, <4>4
    <3> QED BY <1>2, <1>3, <3>1, <3>3, <3>4, Together DEF Accounted
  <2>2. CASE Pushed(f.lr, <<t, m>>, f.visit)
    <3>1. ModTypes' /\ Announced
      BY <1>0, <1>1, <2>2, PushedSafe
    <3>2. Base'
      BY <1>0, <1>1, <1>4, <1>5, <1>6, <2>2, PushedBase
    <3>3. Nested'
      <4> SUFFICES ASSUME ~disturbed' PROVE InStep'
        BY DEF Nested
      <4>1. InStep /\ m = Len(stack[t])
            /\ (pending # <<>> => Last(pending).sp[1] = t)
        BY <1>0, <1>8 DEF Nested
      <4> QED BY <1>0, <1>1, <1>8, <2>2, <4>1, PushedInStep
    <3> QED BY <1>2, <1>3, <3>1, <3>2, <3>3, Together DEF Accounted
  <2>3. CASE PushedOver(f.lr, <<t, m>>, f.visit)
    <3>1. ModTypes' /\ Announced
      BY <1>0, <1>1, <2>3, OverSafe
    <3>2. Base'
      BY <1>0, <1>1, <1>4, <1>5, <1>6, <2>3, OverBase
    <3>3. Nested'
      <4> SUFFICES ASSUME ~disturbed' PROVE FALSE
        BY DEF Nested
      <4>1. InStep /\ evicted' = evicted
        BY <1>0 DEF Nested
      <4>2. Event(pending[1]) # <<f.lr, <<t, m>>>>
        BY <1>0, <1>1, <2>3, OverShape DEF Event
      <4> QED BY <2>3, <4>1, <4>2 DEF InStep, PushedOver
    <3> QED BY <1>2, <1>3, <3>1, <3>2, <3>3, Together DEF Accounted
  <2> QED
    BY <1>0, <1>8, <2>0, <2>1, <2>2, <2>3, HookedDispatch
<1> QED
  BY <1>7, <1>8

\* A step that enters no call and pushes nothing: thread t is cut to m frames.
LEMMA LeaveKept ==
  ASSUME Inv, NEW t \in Threads, NEW m, LeftTo(t, m), StackTypes', visits' = visits,
         known' = known, ModTypes', Accounted, pending' = pending, fired' = fired,
         evicted' = evicted, dropped \subseteq dropped',
         ~disturbed' => /\ ~disturbed
                        /\ \A n \in 1..Len(stack[t]) : stack[t][n].fn \in Hooked => n \in 1..m
  PROVE  Inv'
<1>0. Base /\ TypeOK /\ GuestInv /\ Nested
  BY InvBase
<1>1. visits \in Nat /\ visits' \in Nat /\ visits <= visits'
  BY <1>0, ModAssumption DEF TypeOK
<1>2. \A u \in Threads : \A n \in 1..Len(stack'[u]) : Stays(u, n)
  BY <1>0, LeftFrames
<1>3. GuestInv'
  BY <1>0, LeftGuest
<1>4. Base'
  BY <1>0, <1>1, <1>2, KeptBase
<1>5. Nested'
  <2> SUFFICES ASSUME ~disturbed' PROVE InStep'
    BY DEF Nested
  <2>1. InStep
    BY <1>0 DEF Nested
  <2>2. ASSUME NEW u \in Threads, NEW n \in 1..Len(stack[u]), stack[u][n].fn \in Hooked
        PROVE  n \in 1..Len(stack'[u]) /\ stack'[u][n] = stack[u][n]
    <3>1. CASE u = t
      BY <2>2, <3>1 DEF LeftTo, Stays
    <3>2. CASE u # t
      BY <3>2 DEF LeftTo
    <3> QED BY <3>1, <3>2
  <2> QED BY <1>2, <2>1, <2>2, KeptInStep
<1> QED
  BY <1>3, <1>4, <1>5, Together

\* A return event takes the last entry, whose call no stack holds any more.
LEMMA LeaveTaken ==
  ASSUME Inv, NEW t \in Threads, NEW m, LeftTo(t, m), StackTypes', visits' = visits,
         known' = known, NEW addr \in Returns, Taken(addr, <<t, m>>), m \in Nat,
         disturbed' = disturbed, m = Len(stack[t]) \/ m = Len(stack[t]) - 1
  PROVE  /\ Inv'
         /\ ~disturbed => /\ m = Len(stack[t]) - 1 /\ m + 1 \in 1..Len(stack[t])
                          /\ stack[t][m + 1].fn \in Hooked
                          /\ fired' = fired \cup {stack[t][m + 1].visit}
<1>0. Base /\ TypeOK /\ GuestInv /\ Nested
  BY InvBase
<1> DEFINE len == Len(pending)
<1>1. /\ len \in Nat \ {0} /\ pending[len].sp = <<t, m>> /\ len \in 1..Len(pending)
      /\ fired' = fired \cup {pending[len].visit} /\ evicted' = evicted
  <2>1. /\ len \in Nat \ {0} /\ pending[len].sp = <<t, m>>
        /\ fired' = fired \cup {pending[len].visit}
    BY <1>0, TakenShape
  <2>2. evicted' = evicted
    BY DEF Taken
  <2> QED BY <2>1, <2>2
<1>2. ASSUME NEW u \in Threads, NEW n \in 1..Len(stack'[u])
      PROVE  /\ Stays(u, n) /\ <<u, n - 1>> # <<t, m>>
             /\ stack'[u][n].visit # pending[len].visit
  <2>1. Stays(u, n) /\ (u = t => n \in 1..m)
    BY <1>0, LeftFrames
  <2>3. <<u, n - 1>> # <<t, m>>
    BY <2>1
  <2>2. ASSUME stack'[u][n].visit = pending[len].visit PROVE FALSE
    <3>1. pending[len].sp = <<u, n - 1>>
      BY <1>0, <1>1, <2>1, <2>2 DEF Base, Linked, Stays
    <3>2. u = t /\ n - 1 = m
      BY <1>1, <3>1
    <3> QED BY <2>1, <3>2
  <2> QED BY <2>1, <2>2, <2>3
<1>3. ModTypes' /\ Announced
  BY <1>0, TakenSafe
<1>4. GuestInv'
  BY <1>0, LeftGuest
<1>5. Base'
  BY <1>0, <1>2, TakenBase
<1>6. ASSUME ~disturbed
      PROVE  /\ InStep' /\ m = Len(stack[t]) - 1 /\ m + 1 \in 1..Len(stack[t])
             /\ stack[t][m + 1].fn \in Hooked
             /\ pending[len].visit = stack[t][m + 1].visit
  <2>1. InStep
    BY <1>0, <1>6 DEF Nested
  <2>2t. PICK u \in Threads : \E n \in 1..Len(stack[u]) : pending[len].sp = <<u, n - 1>>
    BY <1>1, <2>1 DEF InStep
  <2>2. PICK n \in 1..Len(stack[u]) : pending[len].sp = <<u, n - 1>>
    BY <2>2t
  <2>3. u = t /\ n - 1 = m
    BY <1>1, <2>2
  <2>4. Len(stack[t]) \in Nat
    BY <1>0, StackFacts
  <2>5. m = Len(stack[t]) - 1 /\ m + 1 \in 1..Len(stack[t]) /\ m + 1 = Len(stack[t])
        /\ Len(stack[t]) > 0
    BY <2>3, <2>4
  <2>6. /\ InStep' /\ stack[t][Len(stack[t])].fn \in Hooked
        /\ pending[len].visit = stack[t][Len(stack[t])].visit
    <3>1. LeftTo(t, Len(stack[t]) - 1) /\ Taken(addr, <<t, Len(stack[t]) - 1>>) /\ Once
      BY <1>0, <2>5 DEF Base
    <3> QED BY <1>0, <1>1, <2>1, <2>5, <3>1, TakenInStep
  <2> QED BY <2>5, <2>6
<1>7. Nested'
  BY <1>6 DEF Nested
<1>8. Inv'
  BY <1>3, <1>4, <1>5, <1>7, Together DEF Accounted
<1> QED
  BY <1>1, <1>6, <1>8

\* The top frame is not dispatched to as a return, or is found not to be
\* pending: while calls nest it is not hooked.
LEMMA PlainTop ==
  ASSUME Inv, ~disturbed, NEW t \in Threads, Len(stack[t]) > 0,
         \/ ~HandlesAddress(stack[t][Len(stack[t])].lr)
         \/ ~Arrives(stack[t][Len(stack[t])].lr, <<t, Len(stack[t]) - 1>>)
  PROVE  stack[t][Len(stack[t])].fn \notin Hooked
<1> SUFFICES ASSUME stack[t][Len(stack[t])].fn \in Hooked PROVE FALSE
  OBVIOUS
<1>0. Base /\ TypeOK /\ GuestInv /\ Nested
  BY InvBase
<1>1. /\ Len(pending) \in 1..Len(pending)
      /\ pending[Len(pending)].addr = stack[t][Len(stack[t])].lr
      /\ pending[Len(pending)].sp = <<t, Len(stack[t]) - 1>>
  BY <1>0, LastIsTop DEF Nested, Base
<1>2. pending # <<>> /\ Last(pending) = pending[Len(pending)] /\ DOMAIN pending = 1..Len(pending)
  BY <1>0, <1>1, PendingFacts DEF Last
<1>3. Arrives(stack[t][Len(stack[t])].lr, <<t, Len(stack[t]) - 1>>)
  BY <1>1, <1>2 DEF Arrives
<1>4. HandlesAddress(stack[t][Len(stack[t])].lr)
  BY <1>1, <1>2 DEF HandlesAddress, PendAddrs
<1> QED
  BY <1>3, <1>4

-----------------------------------------------------------------------------

LEMMA CallInv ==
  ASSUME Inv, NEW t \in Threads, NEW fn \in Funs, NEW lr \in Returns, Call(t, fn, lr)
  PROVE  Inv'
<1>0. Base /\ TypeOK /\ GuestInv /\ Nested
  BY InvBase
<1> DEFINE m == Len(stack[t])
           f == [fn |-> fn, lr |-> lr, visit |-> visits + 1]
<1>1. stack[t] \in Seq(Frame) /\ m \in Nat
  BY <1>0, StackFacts
<1>2. f \in Frame /\ f.fn = fn /\ f.lr = lr /\ f.visit = visits + 1
  BY <1>0, ModAssumption DEF Call, TypeOK, Frame, Visits
<1>3. stack' = [stack EXCEPT ![t] = Append(stack[t], f)]
  BY DEF Call
<1> HIDE DEF f
<1>4. Entered(t, m, f)
  <2>1. /\ Append(stack[t], f) \in Seq(Frame) /\ Len(Append(stack[t], f)) = m + 1
        /\ \A n \in 1..m : Append(stack[t], f)[n] = stack[t][n]
        /\ Append(stack[t], f)[m + 1] = f
    BY <1>1, <1>2, AppendFacts
  <2>2. stack \in [Threads -> Seq(Frame)]
    BY <1>0 DEF TypeOK
  <2>3. stack'[t] = Append(stack[t], f) /\ stack' \in [Threads -> Seq(Frame)]
        /\ \A u \in Threads : u # t => stack'[u] = stack[u]
    BY <1>3, <2>1, <2>2
  <2> QED BY <1>1, <2>1, <2>3 DEF Entered, Stays
<1>5. /\ m < MaxDepth /\ visits < MaxVisits /\ visits' = visits + 1 /\ known' = known
      /\ Enter(t, f.fn, f.lr, <<t, m>>, f.visit)
      /\ disturbed' = (disturbed \/ evicted' # evicted
                        \/ (fn \in Hooked /\ pending # <<>> /\ Last(pending).sp[1] # t))
  BY <1>2 DEF Call, Sp
<1>6. atEntry' \in [Threads -> BOOLEAN]
  BY <1>0 DEF Call, TypeOK
<1>7. disturbed' \in BOOLEAN
  BY <1>5
<1>8. ~disturbed' => /\ ~disturbed /\ evicted' = evicted
                     /\ fn \in Hooked /\ pending # <<>> => Last(pending).sp[1] = t
  BY <1>5
<1> HIDE DEF m
<1> QED
  BY <1>0, <1>2, <1>4, <1>5, <1>6, <1>7, <1>8, EnterStep DEF m

LEMMA TailCallInv ==
  ASSUME Inv, NEW t \in Threads, NEW fn \in Funs, TailCall(t, fn)
  PROVE  Inv'
<1>0. Base /\ TypeOK /\ GuestInv /\ Nested
  BY InvBase
<1> DEFINE m == Len(stack[t]) - 1
           f == [fn |-> fn, lr |-> Last(stack[t]).lr, visit |-> visits + 1]
<1>1. /\ stack[t] \in Seq(Frame) /\ stack[t] # <<>> /\ Len(stack[t]) \in Nat \ {0}
      /\ Last(stack[t]) = stack[t][Len(stack[t])]
  BY <1>0, StackFacts DEF TailCall, Last
<1>2. f \in Frame /\ f.fn = fn /\ f.lr = Last(stack[t]).lr /\ f.visit = visits + 1
  <2>1. Last(stack[t]).lr \in Returns
    BY <1>0, <1>1, StackFacts, Len(stack[t]) \in 1..Len(stack[t])
  <2> QED BY <1>0, <2>1, ModAssumption DEF TailCall, TypeOK, Frame, Visits
<1>3. stack' = [stack EXCEPT ![t] = Append(Front(stack[t]), f)]
  BY DEF TailCall
<1> HIDE DEF f
<1>4. Entered(t, m, f)
  <2>1. /\ Front(stack[t]) \in Seq(Frame) /\ Len(Front(stack[t])) = m /\ m \in Nat
        /\ \A n \in 1..m : Front(stack[t])[n] = stack[t][n]
    BY <1>1, FrontFacts
  <2>2. /\ Append(Front(stack[t]), f) \in Seq(Frame)
        /\ Len(Append(Front(stack[t]), f)) = m + 1
        /\ \A n \in 1..m : Append(Front(stack[t]), f)[n] = stack[t][n]
        /\ Append(Front(stack[t]), f)[m + 1] = f
    <3> DEFINE s == Front(stack[t])
    <3>1. s \in Seq(Frame) /\ Len(s) = m /\ \A n \in 1..m : s[n] = stack[t][n]
      BY <2>1
    <3> HIDE DEF s, m
    <3>2. /\ Append(s, f) \in Seq(Frame) /\ Len(Append(s, f)) = Len(s) + 1
          /\ \A n \in 1..Len(s) : Append(s, f)[n] = s[n]
          /\ Append(s, f)[Len(s) + 1] = f
      BY <1>2, <3>1, AppendFacts
    <3>3. /\ Append(s, f) \in Seq(Frame) /\ Len(Append(s, f)) = m + 1
          /\ \A n \in 1..m : Append(s, f)[n] = stack[t][n]
          /\ Append(s, f)[m + 1] = f
      BY <3>1, <3>2
    <3> QED BY <3>3 DEF s
  <2>3. stack \in [Threads -> Seq(Frame)]
    BY <1>0 DEF TypeOK
  <2>4. stack'[t] = Append(Front(stack[t]), f) /\ stack' \in [Threads -> Seq(Frame)]
        /\ \A u \in Threads : u # t => stack'[u] = stack[u]
    BY <1>3, <2>2, <2>3
  <2>5. m \in 0..Len(stack[t]) /\ \A n \in 1..m : n \in 1..Len(stack[t])
    BY <1>1
  <2> QED BY <2>2, <2>4, <2>5 DEF Entered, Stays
<1>5. m < MaxDepth
  BY <1>1, ModAssumption, <1>0 DEF GuestInv, Bounded
<1>6. /\ visits < MaxVisits /\ visits' = visits + 1 /\ known' = known
      /\ Enter(t, f.fn, f.lr, <<t, m>>, f.visit) /\ disturbed' = TRUE
  BY <1>2 DEF TailCall, CallerSp
<1>7. atEntry' \in [Threads -> BOOLEAN]
  BY <1>0 DEF TailCall, TypeOK
<1> HIDE DEF m
<1> QED
  BY <1>2, <1>4, <1>5, <1>6, <1>7, EnterStep

\* A visit dispatched again finds its entry, or is armed again after the cap
\* evicted it.
LEMMA RedispatchInv ==
  ASSUME Inv, NEW t \in Threads, Redispatch(t)
  PROVE  Inv'
<1>0. Base /\ TypeOK /\ GuestInv /\ Nested
  BY InvBase
<1> DEFINE m == Len(stack[t]) - 1
           top == Len(stack[t])
           f == stack[t][top]
<1>1. /\ stack[t] \in Seq(Frame) /\ top \in Nat \ {0} /\ top \in 1..Len(stack[t])
      /\ Last(stack[t]) = f /\ m \in Nat /\ m + 1 = top
  BY <1>0, StackFacts DEF Redispatch, Last
<1>2. /\ f.fn \in Hooked /\ Dispatch(f.fn, f.lr, <<t, m>>, f.visit)
      /\ f.lr \in Returns /\ f.visit \in Visits
      /\ disturbed' = (disturbed \/ evicted' # evicted)
      /\ known' = known /\ stack' = stack /\ atEntry' = atEntry /\ visits' = visits
  BY <1>0, <1>1, StackFacts DEF Redispatch, CallerSp, guestVars
<1>3. <<t, m>> \in SPs
  BY <1>0, <1>1, ModAssumption DEF GuestInv, Bounded, SPs
<1>4. StackTypes' /\ visits' \in Nat /\ visits <= visits'
  BY <1>0, <1>2 DEF StackTypes, TypeOK
<1>5. LeftTo(t, top)
  BY <1>0, <1>1, <1>2 DEF LeftTo, Stays, TypeOK
<1>6. Above(t, m, f)
  <2> SUFFICES ASSUME NEW u \in Threads, NEW n \in 1..Len(stack[u])
               PROVE  \/ u = t /\ n = top
                      \/ ~(u = t /\ n = top) /\ stack[u][n].visit # f.visit
    BY <1>1, <1>2 DEF Above, Stays
  <2> QED BY <1>0, <1>1 DEF GuestInv, Named
<1>7. f.visit \in 1..visits' /\ f.visit \notin fired
  BY <1>0, <1>1, <1>2 DEF GuestInv, Named, Base, AllArmed
<1>8. GuestInv'
  BY <1>0, <1>2 DEF GuestInv, Bounded, Named
<1>9. ASSUME Twin(pending, f.lr, <<t, m>>) = {}, NEW k \in 1..Len(pending)
      PROVE  pending[k].visit # f.visit
  BY <1>0, <1>1, <1>9, PendingFacts DEF Base, Linked, Twin
<1>10. ASSUME ~disturbed PROVE Twin(pending, f.lr, <<t, m>>) # {}
  <2>1. PICK k \in 1..Len(pending) : pending[k].visit = f.visit
    BY <1>0, <1>1, <1>2, <1>10 DEF Nested, InStep
  <2> QED BY <1>9, <2>1
<1> HIDE DEF m, top, f
<1>11. CASE Repeated(f.lr, <<t, m>>, f.visit)
  <2>1. ModTypes' /\ Announced
    BY <1>0, <1>2, <1>11, RepeatedSafe
  <2>2. /\ pending' = pending /\ fired' = fired /\ evicted' = evicted
        /\ dropped \subseteq dropped'
    BY <1>11 DEF Repeated
  <2>3. ~disturbed' => /\ ~disturbed
                       /\ \A n \in 1..Len(stack[t]) : stack[t][n].fn \in Hooked => n \in 1..top
    BY <1>2 DEF top
  <2> QED BY <1>2, <1>4, <1>5, <2>1, <2>2, <2>3, LeaveKept DEF Accounted
<1>12. CASE Pushed(f.lr, <<t, m>>, f.visit)
  <2>0. Twin(pending, f.lr, <<t, m>>) = {}
    BY <1>12 DEF Pushed
  <2>1. ModTypes' /\ Announced
    BY <1>0, <1>2, <1>3, <1>12, PushedSafe
  <2>2. Base'
    BY <1>0, <1>1, <1>2, <1>3, <1>4, <1>6, <1>7, <1>9, <1>12, <2>0, PushedBase
  <2>3. Nested'
    BY <1>2, <1>10, <2>0 DEF Nested
  <2> QED BY <1>2, <1>4, <1>8, <2>1, <2>2, <2>3, Together DEF Accounted
<1>13. CASE PushedOver(f.lr, <<t, m>>, f.visit)
  <2>0. Twin(pending, f.lr, <<t, m>>) = {}
    BY <1>13 DEF PushedOver
  <2>1. ModTypes' /\ Announced
    BY <1>0, <1>2, <1>3, <1>13, OverSafe
  <2>2. Base'
    BY <1>0, <1>1, <1>2, <1>3, <1>4, <1>6, <1>7, <1>9, <1>13, <2>0, OverBase
  <2>3. Nested'
    BY <1>2, <1>10, <2>0 DEF Nested
  <2> QED BY <1>2, <1>4, <1>8, <2>1, <2>2, <2>3, Together DEF Accounted
<1> QED
  BY <1>0, <1>2, <1>11, <1>12, <1>13, HookedDispatch

\* What a return does to the stacks.
LEMMA ReturnShape ==
  ASSUME TypeOK, NEW t \in Threads, Return(t)
  PROVE  /\ Len(stack[t]) > 0 /\ Len(stack[t]) \in 1..Len(stack[t])
         /\ Last(stack[t]) = stack[t][Len(stack[t])]
         /\ Len(stack[t]) - 1 \in Nat
         /\ stack[t][Len(stack[t])].lr \in Returns
         /\ LeftTo(t, Len(stack[t]) - 1) /\ StackTypes'
         /\ visits' = visits /\ known' = known /\ disturbed' = disturbed
<1>1. /\ stack[t] \in Seq(Frame) /\ stack[t] # <<>> /\ Len(stack[t]) \in Nat \ {0}
      /\ Last(stack[t]) = stack[t][Len(stack[t])]
  BY StackFacts DEF Return, Last
<1>2. /\ Front(stack[t]) \in Seq(Frame) /\ Len(Front(stack[t])) = Len(stack[t]) - 1
      /\ \A n \in 1..Len(stack[t])-1 : Front(stack[t])[n] = stack[t][n]
  BY <1>1, FrontFacts
<1>3. /\ stack \in [Threads -> Seq(Frame)] /\ atEntry \in [Threads -> BOOLEAN]
      /\ stack' = [stack EXCEPT ![t] = Front(stack[t])]
      /\ atEntry' = [atEntry EXCEPT ![t] = FALSE]
      /\ visits' = visits /\ known' = known /\ disturbed' = disturbed
  BY DEF Return, TypeOK
<1>4. /\ stack'[t] = Front(stack[t]) /\ stack' \in [Threads -> Seq(Frame)]
      /\ \A u \in Threads : u # t => stack'[u] = stack[u]
  BY <1>2, <1>3
<1>5. Len(stack[t]) - 1 \in 0..Len(stack[t])
      /\ \A n \in 1..Len(stack[t])-1 : n \in 1..Len(stack[t])
  BY <1>1
<1>6. LeftTo(t, Len(stack[t]) - 1)
  BY <1>2, <1>4, <1>5 DEF LeftTo, Stays
<1>7. StackTypes'
  BY <1>3, <1>4 DEF StackTypes, TypeOK
<1>8. Len(stack[t]) \in 1..Len(stack[t]) /\ stack[t][Len(stack[t])].lr \in Returns
  BY <1>1, StackFacts
<1> QED
  BY <1>1, <1>3, <1>5, <1>6, <1>7, <1>8

LEMMA ReturnInv ==
  ASSUME Inv, NEW t \in Threads, Return(t)
  PROVE  /\ Inv'
         /\ ~disturbed =>
              fired' = IF Last(stack[t]).fn \in Hooked
                         THEN fired \cup {Last(stack[t]).visit} ELSE fired
<1>0. Base /\ TypeOK /\ GuestInv /\ Nested
  BY InvBase
<1> DEFINE m == Len(stack[t]) - 1
           f == Last(stack[t])
<1>1. /\ Len(stack[t]) > 0 /\ f = stack[t][Len(stack[t])] /\ m \in Nat
      /\ f.lr \in Returns /\ LeftTo(t, m) /\ StackTypes' /\ m + 1 = Len(stack[t])
      /\ visits' = visits /\ known' = known /\ disturbed' = disturbed
  BY <1>0, ReturnShape
<1>2. IF HandlesAddress(f.lr) THEN Dispatch(f.lr, f.lr, <<t, m>>, f.visit) ELSE NoDispatch
  BY DEF Return, CallerSp
<1>3. ASSUME ~disturbed, f.fn \notin Hooked, NEW n \in 1..Len(stack[t]),
             stack[t][n].fn \in Hooked
      PROVE  n \in 1..m
  <2>1. n # Len(stack[t])
    BY <1>1, <1>3
  <2> QED BY <1>1, <2>1
<1>4. ASSUME ~disturbed, ~HandlesAddress(f.lr) \/ ~Arrives(f.lr, <<t, m>>)
      PROVE  f.fn \notin Hooked
  BY <1>1, <1>4, PlainTop
<1> HIDE DEF m, f
<1>5. CASE ~HandlesAddress(f.lr)
  <2>1. /\ ModTypes' /\ Accounted /\ pending' = pending /\ fired' = fired
        /\ evicted' = evicted /\ dropped' = dropped
    BY <1>0, <1>2, <1>5, NothingDispatched
  <2>2. Inv'
    <3>1. dropped \subseteq dropped'
      BY <2>1
    <3> QED BY <1>1, <1>3, <1>4, <1>5, <2>1, <3>1, LeaveKept
  <2> QED BY <1>4, <1>5, <2>1, <2>2 DEF f
<1>6. CASE HandlesAddress(f.lr) /\ Taken(f.lr, <<t, m>>)
  <2>1. m = Len(stack[t]) \/ m = Len(stack[t]) - 1
    BY DEF m
  <2>2. /\ Inv'
        /\ ~disturbed => /\ stack[t][m + 1].fn \in Hooked
                         /\ fired' = fired \cup {stack[t][m + 1].visit}
    BY <1>1, <1>6, <2>1, LeaveTaken
  <2> QED BY <1>1, <2>2 DEF f
<1>7. CASE HandlesAddress(f.lr) /\ Untaken(f.lr, <<t, m>>)
  <2>1. ModTypes' /\ Announced
    BY <1>0, <1>7, UntakenSafe
  <2>2. /\ pending' = pending /\ fired' = fired /\ evicted' = evicted /\ dropped' = dropped
        /\ ~Arrives(f.lr, <<t, m>>)
    BY <1>7 DEF Untaken
  <2>3. Inv'
    <3>1. dropped \subseteq dropped' /\ Accounted
      BY <2>1, <2>2 DEF Accounted
    <3> QED BY <1>1, <1>3, <1>4, <2>1, <2>2, <3>1, LeaveKept
  <2> QED BY <1>4, <2>2, <2>3 DEF f
<1> QED
  BY <1>0, <1>1, <1>2, <1>5, <1>6, <1>7, ReturnDispatch

LEMMA DivertInv ==
  ASSUME Inv, NEW t \in Threads, NEW n \in 0..MaxDepth, Divert(t, n)
  PROVE  Inv'
<1>0. Base /\ TypeOK /\ GuestInv /\ Nested
  BY InvBase
<1>1. /\ stack[t] \in Seq(Frame) /\ Len(stack[t]) \in Nat /\ n \in 0..Len(stack[t])
      /\ stack' = [stack EXCEPT ![t] = SubSeq(stack[t], 1, n)]
      /\ atEntry' = [atEntry EXCEPT ![t] = FALSE]
      /\ visits' = visits /\ known' = known /\ disturbed' = TRUE /\ NoDispatch
  BY <1>0, StackFacts, ModAssumption DEF Divert
<1>2. /\ SubSeq(stack[t], 1, n) \in Seq(Frame) /\ Len(SubSeq(stack[t], 1, n)) = n
      /\ \A k \in 1..n : SubSeq(stack[t], 1, n)[k] = stack[t][k]
  BY <1>1, PrefixFacts
<1>3. stack \in [Threads -> Seq(Frame)] /\ atEntry \in [Threads -> BOOLEAN]
  BY <1>0 DEF TypeOK
<1>4. /\ stack'[t] = SubSeq(stack[t], 1, n) /\ stack' \in [Threads -> Seq(Frame)]
      /\ \A u \in Threads : u # t => stack'[u] = stack[u]
  BY <1>1, <1>2, <1>3
<1>5. LeftTo(t, n)
  BY <1>1, <1>2, <1>4 DEF LeftTo, Stays
<1>6. StackTypes'
  BY <1>0, <1>1, <1>3, <1>4 DEF StackTypes, TypeOK
<1>7. /\ ModTypes' /\ Accounted /\ pending' = pending /\ fired' = fired
      /\ evicted' = evicted /\ dropped \subseteq dropped'
  BY <1>0, <1>1, NothingDispatched
<1> QED
  BY <1>1, <1>5, <1>6, <1>7, LeaveKept

LEMMA PassReturnSiteInv ==
  ASSUME Inv, NEW t \in Threads, NEW lr \in Returns, PassReturnSite(t, lr)
  PROVE  Inv' /\ (~disturbed => fired' = fired)
<1>0. Base /\ TypeOK /\ GuestInv /\ Nested
  BY InvBase
<1> DEFINE m == Len(stack[t])
<1>1. /\ m \in Nat /\ Dispatch(lr, lr, <<t, m>>, Last(stack[t]).visit)
      /\ atEntry' = [atEntry EXCEPT ![t] = FALSE]
      /\ known' = known /\ stack' = stack /\ visits' = visits /\ disturbed' = disturbed
  BY <1>0, StackFacts DEF PassReturnSite, Sp
<1>2. LeftTo(t, m)
  BY <1>0, <1>1 DEF LeftTo, Stays, TypeOK
<1>3. StackTypes'
  BY <1>0, <1>1 DEF StackTypes, TypeOK
<1>4. \A n \in 1..Len(stack[t]) : stack[t][n].fn \in Hooked => n \in 1..m
  OBVIOUS
<1> HIDE DEF m
<1>5. CASE Taken(lr, <<t, m>>)
  <2>1. /\ Inv'
        /\ ~disturbed => m = Len(stack[t]) - 1
    BY <1>1, <1>2, <1>3, <1>5, LeaveTaken DEF m
  <2>2. m # Len(stack[t]) - 1
    BY <1>1 DEF m
  <2> QED BY <2>1, <2>2
<1>6. CASE Untaken(lr, <<t, m>>)
  <2>1. ModTypes' /\ Announced
    BY <1>0, <1>6, UntakenSafe
  <2>2. /\ pending' = pending /\ fired' = fired /\ evicted' = evicted
        /\ dropped \subseteq dropped'
    BY <1>6 DEF Untaken
  <2> QED BY <1>1, <1>2, <1>3, <1>4, <2>1, <2>2, LeaveKept DEF Accounted
<1> QED
  BY <1>0, <1>1, <1>5, <1>6, ReturnDispatch

LEMMA CallsKept ==
  ASSUME CallsInv, pending' = pending, stack' = stack, visits' = visits, fired' = fired,
         evicted' = evicted, dropped' = dropped, disturbed' = disturbed
  PROVE  CallsInv'
<1>1. Given' /\ ObserversOnce' /\ Linked'
  BY DEF CallsInv, Given, ObserversOnce, Linked
<1>2. LiveCallsArmed'
  BY DEF CallsInv, LiveCallsArmed
<1>3. Nested'
  BY DEF CallsInv, Nested, InStep, Ordered
<1> QED
  BY <1>1, <1>2, <1>3 DEF CallsInv

LEMMA VerdictPcsInv ==
  ASSUME Inv, NEW cap \in 0..RingSlots, VerdictPcs(cap)
  PROVE  Inv' /\ fired' = fired /\ stack' = stack
<1>0. /\ pending' = pending /\ begun' = begun /\ stack' = stack /\ atEntry' = atEntry
      /\ visits' = visits /\ fired' = fired /\ evicted' = evicted /\ dropped' = dropped
      /\ disturbed' = disturbed
      /\ moved /\ ring' = <<>> /\ overflow' = FALSE /\ moved' = FALSE
  BY DEF VerdictPcs, guestVars, histVars
<1> DEFINE told == IF overflow \/ cap < Len(ring) THEN Returns
                   ELSE {ring[n] : n \in DOMAIN ring}
<1>1. known' = (known \ told) \cup (PendAddrs \cap told)
  BY DEF VerdictPcs
<1>2. TypeOK /\ ChannelComplete
  BY DEF Inv
<1>3. PendAddrs \subseteq Returns
  BY <1>2, PendingFacts DEF PendAddrs
<1>4. TypeOK'
  <2>1. <<>> \in Seq(Returns) /\ Len(<<>>) <= RingSlots
    BY ModAssumption
  <2>2. known' \subseteq Returns
    BY <1>1, <1>2, <1>3 DEF TypeOK
  <2> QED BY <1>0, <1>2, <2>1, <2>2 DEF TypeOK
<1>5. ChannelComplete'
  <2>1. PendAddrs' = PendAddrs
    BY <1>0 DEF PendAddrs
  <2>2. ASSUME NEW a \in Returns PROVE (a \in known') = (a \in PendAddrs)
    <3>1. CASE a \in told
      BY <1>1, <3>1
    <3>2. CASE a \notin told
      <4>1. a \in known' <=> a \in known
        BY <1>1, <3>2
      <4>2. ~overflow /\ a \notin {ring[n] : n \in DOMAIN ring}
        BY <3>2
      <4>3. (a \in known) = (a \in PendAddrs)
        BY <1>2, <4>2 DEF ChannelComplete
      <4> QED BY <4>1, <4>3
    <3> QED BY <3>1, <3>2
  <2> QED BY <2>1, <2>2 DEF ChannelComplete
<1>6. GuestInv'
  BY <1>0 DEF Inv, GuestInv, Bounded, Named
<1>7. CallsInv'
  BY <1>0, CallsKept DEF Inv
<1> QED
  BY <1>0, <1>4, <1>5, <1>6, <1>7 DEF Inv

-----------------------------------------------------------------------------

LEMMA InitInv == Init => Inv
<1> SUFFICES ASSUME Init PROVE Inv
  OBVIOUS
<1>1. TypeOK
  <2>1. /\ <<>> \in Seq(Pend) /\ <<>> \in Seq(Returns) /\ <<>> \in Seq(Frame)
        /\ Len(<<>>) <= PendCap /\ Len(<<>>) <= RingSlots /\ 0 \in 0..MaxVisits
    BY ModAssumption
  <2> QED BY <2>1 DEF Init, TypeOK
<1>2. ChannelComplete
  BY DEF Init, ChannelComplete, PendAddrs
<1>3. Len(pending) = 0 /\ \A t \in Threads : Len(stack[t]) = 0
  BY DEF Init
<1>4. GuestInv
  BY <1>3, ModAssumption DEF GuestInv, Bounded, Named
<1>5. Base
  BY <1>3, ModAssumption DEF Init, Base, Given, Once, Linked, AllArmed
<1>6. Nested
  BY <1>3 DEF Init, Nested, InStep, Ordered
<1> QED
  BY <1>1, <1>2, <1>4, <1>5, <1>6, CallsAlt DEF Inv, CallsInv, Base

LEMMA StutterInv == Inv /\ UNCHANGED vars => Inv'
<1> SUFFICES ASSUME Inv, UNCHANGED vars PROVE Inv'
  OBVIOUS
<1> USE DEF vars, modVars, guestVars, histVars
<1>1. TypeOK'
  BY DEF Inv, TypeOK
<1>2. ChannelComplete'
  BY DEF Inv, ChannelComplete, PendAddrs
<1>3. GuestInv'
  BY DEF Inv, GuestInv, Bounded, Named
<1>4. CallsInv'
  BY CallsKept DEF Inv
<1> QED
  BY <1>1, <1>2, <1>3, <1>4 DEF Inv

LEMMA NextInv == Inv /\ [Next]_vars => Inv'
BY StutterInv, CallInv, TailCallInv, RedispatchInv, ReturnInv, DivertInv,
   PassReturnSiteInv, VerdictPcsInv DEF Next

\* The inductive invariant holds throughout.
THEOREM Invariant == Spec => []Inv
BY InitInv, NextInv, PTL DEF Spec

\* pending_returns never exceeds its cap and verdict_pcs never its length,
\* and every variable keeps its type.
THEOREM TypeCorrect == Spec => []TypeOK
<1>1. Inv => TypeOK
  BY DEF Inv
<1> QED
  BY <1>1, Invariant, PTL

\* The channel of changed verdicts loses nothing: a pc the chassis is wrong
\* about is in the ring or the ring overflowed, and verdict_ops says so.
THEOREM ChannelLosesNothing == Spec => []ChannelComplete
<1>1. Inv => ChannelComplete
  BY DEF Inv
<1> QED
  BY <1>1, Invariant, PTL

\* No call's return observers run twice, whatever is dispatched again.
THEOREM ObserversRunOnce == Spec => []ObserversOnce
<1>1. Inv => ObserversOnce
  BY DEF Inv, CallsInv
<1> QED
  BY <1>1, Invariant, PTL

\* A hooked call on a stack has not had its observers run, and its return event
\* is pending, for itself or for the call it was taken for a duplicate of, unless
\* the cap took that event's entry and no dispatch has pushed it since.
THEOREM LiveCallsStayArmed == Spec => []LiveCallsArmed
<1>1. Inv => LiveCallsArmed
  BY DEF Inv, CallsInv
<1> QED
  BY <1>1, Invariant, PTL

\* While calls nest, the observers of a call run when it returns and at no
\* other step.
THEOREM NestedReturnsFire == Spec => ReturnFires
<1> DEFINE Run == {f.visit : f \in {Last(stack[t]) : t \in Left} \cap
                                     [fn: Hooked, lr: Returns, visit: Visits]}
<1>1. ASSUME Inv, [Next]_vars, ~disturbed' PROVE fired' = fired \cup Run
  <2>0. Base /\ TypeOK /\ GuestInv /\ Nested
    BY <1>1, InvBase
  <2>1. ASSUME fired' = fired, \A t \in Threads : ~(Len(stack'[t]) < Len(stack[t]))
        PROVE  fired' = fired \cup Run
    BY <2>1 DEF Left
  <2>2. ASSUME fired' = fired, stack' = stack PROVE fired' = fired \cup Run
    BY <2>0, <2>1, <2>2, StackFacts
  <2>3. CASE UNCHANGED vars
    BY <2>2, <2>3 DEF vars, histVars, guestVars
  <2>4. ASSUME NEW t \in Threads, NEW fn \in Funs, NEW lr \in Returns, Call(t, fn, lr)
        PROVE  fired' = fired \cup Run
    <3>1. fired' = fired
      <4>1. CASE fn \in Hooked
        <5>1. Dispatch(fn, lr, Sp(t), visits + 1)
          BY <2>4, <4>1 DEF Call, Enter
        <5> QED BY <2>0, <4>1, <5>1, HookedDispatch DEF Repeated, Pushed, PushedOver
      <4>2. CASE fn \notin Hooked
        BY <2>4, <4>2 DEF Call, Enter, NoDispatch
      <4> QED BY <4>1, <4>2
    <3>2. ASSUME NEW u \in Threads PROVE ~(Len(stack'[u]) < Len(stack[u]))
      <4> DEFINE f == [fn |-> fn, lr |-> lr, visit |-> visits + 1]
      <4>1. stack' = [stack EXCEPT ![t] = Append(stack[t], f)]
        BY <2>4 DEF Call
      <4>2. stack \in [Threads -> Seq(Frame)]
        BY <2>0 DEF TypeOK
      <4> HIDE DEF f
      <4>3. CASE u = t
        <5>1. stack'[u] = Append(stack[u], f) /\ stack[u] \in Seq(Frame)
          BY <4>1, <4>2, <4>3
        <5>2. Len(stack'[u]) = Len(stack[u]) + 1 /\ Len(stack[u]) \in Nat
          BY <5>1
        <5> QED BY <5>2
      <4>4. CASE u # t
        BY <4>1, <4>2, <4>4
      <4> QED BY <4>3, <4>4
    <3> QED BY <2>1, <3>1, <3>2
  <2>5. ASSUME NEW t \in Threads, NEW fn \in Funs, TailCall(t, fn) PROVE FALSE
    BY <1>1, <2>5 DEF TailCall
  <2>6. ASSUME NEW t \in Threads, Redispatch(t) PROVE fired' = fired \cup Run
    <3>1. stack' = stack
      BY <2>6 DEF Redispatch, guestVars
    <3>2. fired' = fired
      <4>1. Last(stack[t]).fn \in Hooked
            /\ Dispatch(Last(stack[t]).fn, Last(stack[t]).lr, CallerSp(t), Last(stack[t]).visit)
        BY <2>6 DEF Redispatch
      <4> QED BY <2>0, <4>1, HookedDispatch DEF Repeated, Pushed, PushedOver
    <3> QED BY <2>2, <3>1, <3>2
  <2>7. ASSUME NEW t \in Threads, Return(t) PROVE fired' = fired \cup Run
    <3>1. LeftTo(t, Len(stack[t]) - 1) /\ Len(stack[t]) \in 1..Len(stack[t])
          /\ Last(stack[t]) = stack[t][Len(stack[t])] /\ disturbed' = disturbed
      BY <2>0, <2>7, ReturnShape
    <3>2. fired' = IF Last(stack[t]).fn \in Hooked
                     THEN fired \cup {Last(stack[t]).visit} ELSE fired
      BY <1>1, <2>7, <3>1, ReturnInv
    <3>3. Left = {t}
      <4>1. ASSUME NEW u \in Threads, u # t PROVE ~(Len(stack'[u]) < Len(stack[u]))
        BY <2>0, <3>1, <4>1, StackFacts DEF LeftTo
      <4>2. Len(stack'[t]) < Len(stack[t])
        BY <2>0, <3>1, StackFacts DEF LeftTo
      <4> QED BY <4>1, <4>2 DEF Left
    <3>4. Last(stack[t]) \in Frame
      BY <2>0, <3>1, StackFacts
    <3>5. Last(stack[t]) \in [fn: Hooked, lr: Returns, visit: Visits]
            <=> Last(stack[t]).fn \in Hooked
      BY <3>4 DEF Frame
    <3>6. Run = IF Last(stack[t]).fn \in Hooked THEN {Last(stack[t]).visit} ELSE {}
      BY <3>3, <3>5
    <3> QED BY <3>2, <3>6
  <2>8. ASSUME NEW t \in Threads, NEW n \in 0..MaxDepth, Divert(t, n) PROVE FALSE
    BY <1>1, <2>8 DEF Divert
  <2>9. ASSUME NEW t \in Threads, NEW lr \in Returns, PassReturnSite(t, lr)
        PROVE  fired' = fired \cup Run
    <3>1. stack' = stack /\ disturbed' = disturbed
      BY <2>9 DEF PassReturnSite
    <3>2. fired' = fired
      BY <1>1, <2>9, <3>1, PassReturnSiteInv
    <3> QED BY <2>2, <3>1, <3>2
  <2>10. ASSUME NEW cap \in 0..RingSlots, VerdictPcs(cap) PROVE fired' = fired \cup Run
    BY <1>1, <2>2, <2>10, VerdictPcsInv
  <2> QED
    BY <1>1, <2>3, <2>4, <2>5, <2>6, <2>7, <2>8, <2>9, <2>10 DEF Next
<1>2. Inv /\ [Next]_vars => [~disturbed' => fired' = fired \cup Run]_vars
  BY <1>1
<1> QED
  BY <1>2, Invariant, PTL DEF Spec, ReturnFires
=============================================================================
