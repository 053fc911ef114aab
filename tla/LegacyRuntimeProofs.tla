------------------------ MODULE LegacyRuntimeProofs ------------------------
(* Proofs about LegacyRuntime, for any delays, counter width, charges,      *)
(* masks and buffers.                                                       *)
EXTENDS LegacyRuntime, TLAPS

-----------------------------------------------------------------------------
(* The event queue.                                                        *)

\* Every event is held, and no two belong to one device.
One(evs) == \A e \in evs : e.held /\ \A f \in evs : f.cb = e.cb => f = e

Armed(evs, cb) == \E e \in evs : e.cb = cb

\* Cancelling leaves a device without an event, the others as they were.
LEMMA CancelOne ==
  ASSUME NEW evs \in SUBSET Event, One(evs), NEW cb
  PROVE  /\ Cancel(evs, cb) \in SUBSET Event
         /\ One(Cancel(evs, cb))
         /\ \A c : Armed(Cancel(evs, cb), c) <=> c # cb /\ Armed(evs, c)
BY DEF One, Armed, Cancel, Event

\* Scheduling for a device without an event gives it one.
LEMMA ScheduleOne ==
  ASSUME NEW evs \in SUBSET Event, One(evs), NEW cb \in Callbacks, NEW n \in Int,
         ~Armed(evs, cb)
  PROVE  /\ ScheduleAfter(evs, cb, n) \in SUBSET Event
         /\ One(ScheduleAfter(evs, cb, n))
         /\ \A c : Armed(ScheduleAfter(evs, cb, n), c) <=> c = cb \/ Armed(evs, c)
<1> DEFINE new == [cb |-> cb, due |-> n, held |-> TRUE]
<1>1. new \in Event /\ new.cb = cb /\ new.held
  BY DEF Event
<1>2. ScheduleAfter(evs, cb, n) = evs \cup {new}
  BY DEF ScheduleAfter, Armed
<1>3. \A e \in evs : e.cb # cb
  BY DEF Armed
<1> HIDE DEF new
<1>4. QED
  BY <1>1, <1>2, <1>3 DEF One, Armed

\* Running an event leaves its device without one.
LEMMA RemoveOne ==
  ASSUME NEW evs \in SUBSET Event, One(evs), NEW e \in evs
  PROVE  /\ evs \ {e} \in SUBSET Event
         /\ One(evs \ {e})
         /\ \A c : Armed(evs \ {e}, c) <=> c # e.cb /\ Armed(evs, c)
BY DEF One, Armed

\* Time passing changes due times only.
LEMMA PassedOne ==
  ASSUME NEW evs \in SUBSET Event, One(evs), NEW n \in Int
  PROVE  /\ Passed(evs, n) \in SUBSET Event
         /\ One(Passed(evs, n))
         /\ \A c : Armed(Passed(evs, n), c) <=> Armed(evs, c)
<1> DEFINE moved(e) == [e EXCEPT !.due = @ - n]
<1>1. \A e \in evs : /\ moved(e) \in Event /\ moved(e).cb = e.cb
                     /\ moved(e).held = e.held
  BY DEF Event
<1>2. Passed(evs, n) = {moved(e) : e \in evs}
  BY DEF Passed
<1> HIDE DEF moved
<1>3. QED
  BY <1>1, <1>2 DEF One, Armed

-----------------------------------------------------------------------------
(* The audio interface's arithmetic.                                       *)

\* A remainder is less than the modulus.
LEMMA ModRange ==
  ASSUME NEW x \in Int, NEW w \in Nat \ {0}
  PROVE  x % w \in 0 .. w - 1
OBVIOUS

\* The quotient of a natural number is one.
LEMMA DivNat ==
  ASSUME NEW x \in Nat, NEW w \in Nat \ {0}
  PROVE  x \div w \in Nat
OBVIOUS

\* The cycles in which the counter wraps.
LEMMA WrapCycles ==
  /\ CyclesPerSample * CounterWrap \in Nat \ {0}
  /\ CyclesPerSample <= CyclesPerSample * CounterWrap
<1>1. CyclesPerSample \in Nat \ {0} /\ CounterWrap \in Nat \ {0}
  BY AudioAssumption
<1>2. QED
  BY <1>1

\* Counting leaves registers that are well typed.
LEMMA CountedType ==
  ASSUME NEW a \in AiRegs
  PROVE  /\ Counted(a) \in AiRegs
         /\ Counted(a).play = a.play /\ Counted(a).int = a.int
         /\ Counted(a).mask = a.mask /\ Counted(a).timing = a.timing
<1>1. CyclesPerSample \in Nat \ {0} /\ CounterWrap \in Nat \ {0}
  BY AudioAssumption
<1>2. CASE ~a.play
  BY <1>2 DEF Counted
<1>3. CASE a.play
  <2> DEFINE q == a.age \div CyclesPerSample
             k == (a.counter + q) % CounterWrap
             g == a.age % CyclesPerSample
  <2>1. a.age \in Nat /\ a.counter \in Nat
    BY <1>1, WrapCycles DEF AiRegs, Counters
  <2>2. q \in Nat
    BY <1>1, <2>1, DivNat
  <2> HIDE DEF q
  <2>3. k \in Counters
    <3>1. a.counter + q \in Int
      BY <2>1, <2>2
    <3>2. QED
      BY <1>1, <3>1, ModRange DEF Counters
  <2>4. g \in 0 .. CyclesPerSample - 1
    <3>1. a.age \in Int
      BY <2>1
    <3>2. QED
      BY <1>1, <3>1, ModRange
  <2>5. g \in 0 .. CyclesPerSample * CounterWrap - 1
    BY <1>1, <2>4, WrapCycles
  <2>6. Counted(a) = [a EXCEPT !.counter = k, !.age = g]
    BY <1>3 DEF Counted, q
  <2> HIDE DEF k, g
  <2>7. QED
    BY <2>3, <2>5, <2>6 DEF AiRegs
<1>4. QED
  BY <1>2, <1>3 DEF AiRegs

\* So does time passing, which touches the age only.
LEMMA AgedType ==
  ASSUME NEW a \in AiRegs, NEW n \in Nat
  PROVE  /\ Aged(a, n) \in AiRegs
         /\ Aged(a, n).play = a.play /\ Aged(a, n).int = a.int
         /\ Aged(a, n).mask = a.mask
<1> DEFINE w == CyclesPerSample * CounterWrap
<1>1. w \in Nat \ {0}
  BY WrapCycles
<1> HIDE DEF w
<1>2. a.age + n \in Int
  BY <1>1 DEF AiRegs, w
<1>3. (a.age + n) % w \in 0 .. w - 1
  BY <1>1, <1>2, ModRange
<1>4. QED
  BY <1>3 DEF Aged, AiRegs, w

\* An alarm is always set for later.
LEMMA DelayType ==
  ASSUME NEW a \in AiRegs
  PROVE  AlarmDelay(a) \in Nat \ {0}
<1> DEFINE k == (a.timing - a.counter) % CounterWrap
<1>1. CyclesPerSample \in Nat \ {0} /\ CounterWrap \in Nat \ {0}
  BY AudioAssumption
<1>2. a.timing - a.counter \in Int
  BY <1>1 DEF AiRegs, Counters
<1>3. k \in 0 .. CounterWrap - 1
  BY <1>1, <1>2, ModRange
<1> HIDE DEF k
<1>4. k # 0 => k * CyclesPerSample \in Nat \ {0}
  BY <1>1, <1>3
<1>5. AlarmDelay(a) = IF k = 0 THEN CyclesPerSample ELSE k * CyclesPerSample
  BY DEF AlarmDelay, k
<1>6. QED
  BY <1>1, <1>4, <1>5

-----------------------------------------------------------------------------
(* The inductive invariant: its parts are TypeOK, OnePending, BusyIsArmed,  *)
(* LinesAgree and BufferKept, sorted by the state they speak of.            *)

QueueInv ==
  /\ events \in SUBSET Event /\ One(events)
  /\ ai.play /\ ~ai.int => Armed(events, "ai")
  /\ dma.on             => Armed(events, "dma")
  /\ di.start           => Armed(events, "di")

RegInv == advancing \in BOOLEAN /\ AudioTypeOK /\ DiscTypeOK /\ BufferKept

LineInv == PiTypeOK /\ LinesAgree

IInv == QueueInv /\ RegInv /\ LineInv

\* It says what the invariants say.
LEMMA IInvParts ==
  /\ IInv => OnePending /\ BusyIsArmed /\ LinesAgree /\ BufferKept
  /\ IInv /\ program \in Programs => TypeOK
BY DEF IInv, QueueInv, RegInv, LineInv, TypeOK, OnePending, One, BusyIsArmed, Armed,
       Pending

-----------------------------------------------------------------------------
(* What the steps have in common.                                          *)

\* Setting the alarm of an interface: it has one exactly when it plays.
LEMMA AiAlarm ==
  ASSUME QueueInv, NEW a \in AiRegs, ScheduleAiInterrupt(a)
  PROVE  /\ events' \in SUBSET Event /\ One(events')
         /\ a.play => Armed(events', "ai")
         /\ \A c : c # "ai" => (Armed(events', c) <=> Armed(events, c))
<1> DEFINE rest == Cancel(events, "ai")
<1>1. /\ rest \in SUBSET Event /\ One(rest)
      /\ \A c : Armed(rest, c) <=> c # "ai" /\ Armed(events, c)
  BY CancelOne DEF QueueInv
<1>2. events' = IF a.play THEN ScheduleAfter(rest, "ai", AlarmDelay(a)) ELSE rest
  BY DEF ScheduleAiInterrupt
<1> HIDE DEF rest
<1>3. "ai" \in Callbacks /\ AlarmDelay(a) \in Int
  BY DelayType DEF Callbacks
<1>4. CASE a.play
  BY <1>1, <1>2, <1>3, <1>4, ScheduleOne
<1>5. CASE ~a.play
  BY <1>1, <1>2, <1>5
<1>6. QED
  BY <1>4, <1>5

\* A device that sets its line to what it asserts keeps the lines in agreement,
\* if no other device changes what it asserts.
LEMMA LineSet ==
  ASSUME LineInv, NEW line \in Lines, NEW level \in BOOLEAN,
         SetInterrupt(line, level), Asserted(line)' = level,
         \A x \in Lines : x # line => Asserted(x)' = Asserted(x)
  PROVE  LineInv'
<1>1. /\ PiTypeOK' /\ exception' = (cause' \cap mask' # {})
      /\ line \in cause' <=> level
      /\ \A x \in Lines : x # line => /\ x \in cause' <=> x \in cause
                                      /\ x \in acked' <=> x \in acked
  BY DEF LineInv, PiTypeOK, SetInterrupt, UpdateException
<1>2. \A x \in Lines : /\ x \in cause' => Asserted(x)'
                       /\ Asserted(x)' /\ x \notin cause' => x \in acked'
  <2>1. SUFFICES ASSUME NEW x \in Lines
                 PROVE  /\ x \in cause' => Asserted(x)'
                        /\ Asserted(x)' /\ x \notin cause' => x \in acked'
    OBVIOUS
  <2>2. CASE x = line
    BY <1>1, <2>2
  <2>3. CASE x # line
    BY <1>1, <2>3 DEF LineInv, LinesAgree
  <2>4. QED
    BY <2>2, <2>3
<1>3. QED
  BY <1>1, <1>2 DEF LineInv, LinesAgree

\* Nothing moves on the lines.
LEMMA LineKept ==
  ASSUME LineInv, UNCHANGED piVars,
         \A x \in Lines : Asserted(x)' = Asserted(x)
  PROVE  LineInv'
BY DEF LineInv, PiTypeOK, LinesAgree, piVars

-----------------------------------------------------------------------------
(* The audio interface.                                                    *)

LEMMA ReadAiKeeps ==
  ASSUME IInv, ReadAi, UNCHANGED discVars, UNCHANGED advancing
  PROVE  IInv'
<1>1. /\ ai' = Counted(ai) /\ ai \in AiRegs
      /\ events' = events /\ dma' = dma /\ latch' = latch /\ UNCHANGED piVars
      /\ di' = di /\ source' = source /\ advancing' = advancing
  BY DEF ReadAi, IInv, RegInv, AudioTypeOK, discVars
<1>2. /\ ai' \in AiRegs
      /\ ai'.play = ai.play /\ ai'.int = ai.int /\ ai'.mask = ai.mask
  BY <1>1, CountedType
<1>3. QueueInv'
  BY <1>1, <1>2 DEF IInv, QueueInv
<1>4. RegInv'
  BY <1>1, <1>2 DEF IInv, RegInv, AudioTypeOK, DiscTypeOK, BufferKept
<1>5. \A x \in Lines : Asserted(x)' = Asserted(x)
  BY <1>1, <1>2 DEF Asserted, AiLine, DspLine, DiLine
<1>6. LineInv'
  BY <1>1, <1>5, LineKept DEF IInv
<1>7. QED
  BY <1>3, <1>4, <1>6 DEF IInv

LEMMA WriteAiControlKeeps ==
  ASSUME NEW play \in BOOLEAN, NEW msk \in BOOLEAN, NEW ack \in BOOLEAN,
         NEW reset \in BOOLEAN, IInv, WriteAiControl(play, msk, ack, reset),
         UNCHANGED discVars, UNCHANGED advancing
  PROVE  IInv'
<1> DEFINE a == Counted(ai)
           b == [a EXCEPT !.play = play, !.mask = msk, !.int = @ /\ ~ack,
                          !.counter = IF reset THEN 0 ELSE @, !.age = 0]
<1>1. /\ ai' = b /\ ai \in AiRegs
      /\ IF ai.play \/ play THEN ScheduleAiInterrupt(b) ELSE UNCHANGED events
      /\ SetInterrupt("ai", AiLine(b))
      /\ dma' = dma /\ latch' = latch
      /\ di' = di /\ source' = source /\ advancing' = advancing
  BY DEF WriteAiControl, IInv, RegInv, AudioTypeOK, discVars
<1>2. a \in AiRegs
  BY <1>1, CountedType
<1>3. 0 \in Counters /\ 0 \in 0 .. CyclesPerSample * CounterWrap - 1
  BY WrapCycles, AudioAssumption DEF Counters
<1> HIDE DEF a
<1>4. b \in AiRegs /\ b.play = play
  BY <1>2, <1>3 DEF AiRegs
<1> HIDE DEF b
<1>5. AiLine(b) \in BOOLEAN
  BY <1>4 DEF AiLine, AiRegs
<1>6. QueueInv'
  <2>1. CASE ai.play \/ play
    <3>1. QueueInv /\ ScheduleAiInterrupt(b)
      BY <1>1, <2>1 DEF IInv
    <3>2. /\ events' \in SUBSET Event /\ One(events')
          /\ b.play => Armed(events', "ai")
          /\ \A c : c # "ai" => (Armed(events', c) <=> Armed(events, c))
      BY <1>4, <3>1, AiAlarm
    <3>3. QED
      BY <1>1, <3>1, <3>2 DEF QueueInv
  <2>2. CASE ~ai.play /\ ~play
    BY <1>1, <1>4, <2>2 DEF IInv, QueueInv
  <2>3. QED
    BY <2>1, <2>2
<1>7. RegInv'
  BY <1>1, <1>4 DEF IInv, RegInv, AudioTypeOK, DiscTypeOK, BufferKept
<1>8. /\ Asserted("ai")' = AiLine(b)
      /\ \A x \in Lines : x # "ai" => Asserted(x)' = Asserted(x)
  BY <1>1 DEF Asserted, AiLine, DspLine, DiLine, Lines
<1>9. LineInv'
  BY <1>1, <1>5, <1>8, LineSet DEF IInv, Lines
<1>10. QED
  BY <1>6, <1>7, <1>9 DEF IInv

\* Writing the counter or the target sets the alarm anew and moves no line.
LEMMA AiSetKeeps ==
  ASSUME IInv, NEW b \in AiRegs, b.int = ai.int, b.mask = ai.mask,
         ai' = b, ScheduleAiInterrupt(b),
         UNCHANGED <<dma, latch, piVars>>, UNCHANGED discVars, UNCHANGED advancing
  PROVE  IInv'
<1>1. /\ QueueInv /\ dma' = dma /\ latch' = latch /\ UNCHANGED piVars
      /\ di' = di /\ source' = source /\ advancing' = advancing
  BY DEF IInv, discVars
<1>2. /\ events' \in SUBSET Event /\ One(events')
      /\ b.play => Armed(events', "ai")
      /\ \A c : c # "ai" => (Armed(events', c) <=> Armed(events, c))
  BY <1>1, AiAlarm
<1>3. QueueInv'
  BY <1>1, <1>2 DEF QueueInv
<1>4. RegInv'
  BY <1>1 DEF IInv, RegInv, AudioTypeOK, DiscTypeOK, BufferKept
<1>5. \A x \in Lines : Asserted(x)' = Asserted(x)
  BY <1>1 DEF Asserted, AiLine, DspLine, DiLine
<1>6. LineInv'
  BY <1>1, <1>5, LineKept DEF IInv
<1>7. QED
  BY <1>3, <1>4, <1>6 DEF IInv

LEMMA WriteAiCounterKeeps ==
  ASSUME NEW v \in Counters, IInv, WriteAiCounter(v),
         UNCHANGED discVars, UNCHANGED advancing
  PROVE  IInv'
<1> DEFINE b == [ai EXCEPT !.counter = v, !.age = 0]
<1>1. 0 \in 0 .. CyclesPerSample * CounterWrap - 1
  BY WrapCycles
<1>2. b \in AiRegs /\ b.int = ai.int /\ b.mask = ai.mask
  BY <1>1 DEF IInv, RegInv, AudioTypeOK, AiRegs
<1>3. ai' = b /\ ScheduleAiInterrupt(b) /\ UNCHANGED <<dma, latch, piVars>>
  BY DEF WriteAiCounter
<1> HIDE DEF b
<1>4. QED
  BY <1>2, <1>3, AiSetKeeps

LEMMA WriteAiTimingKeeps ==
  ASSUME NEW v \in Counters, IInv, WriteAiTiming(v),
         UNCHANGED discVars, UNCHANGED advancing
  PROVE  IInv'
<1> DEFINE a == Counted(ai)
           b == [a EXCEPT !.timing = v]
<1>1. a \in AiRegs /\ a.int = ai.int /\ a.mask = ai.mask
  BY CountedType DEF IInv, RegInv, AudioTypeOK
<1>2. ai' = b /\ ScheduleAiInterrupt(b) /\ UNCHANGED <<dma, latch, piVars>>
  BY DEF WriteAiTiming
<1> HIDE DEF a
<1>3. b \in AiRegs /\ b.int = ai.int /\ b.mask = ai.mask
  BY <1>1 DEF AiRegs
<1> HIDE DEF b
<1>4. QED
  BY <1>2, <1>3, AiSetKeeps

\* The alarm rings: the interrupt is set, so nothing more is awaited.
LEMMA AiFireKeeps ==
  ASSUME NEW e \in events, IInv, AiFire(e), UNCHANGED discVars, UNCHANGED advancing
  PROVE  IInv'
<1> DEFINE a == Counted(ai)
           b == [a EXCEPT !.int = TRUE]
<1>1. a \in AiRegs
  BY CountedType DEF IInv, RegInv, AudioTypeOK
<1>2. /\ ai' = b /\ SetInterrupt("ai", AiLine(b)) /\ e.cb = "ai"
      /\ events' = events \ {e} /\ dma' = dma /\ latch' = latch
      /\ di' = di /\ source' = source /\ advancing' = advancing
  BY DEF AiFire, discVars
<1> HIDE DEF a
<1>3. b \in AiRegs /\ b.int
  BY <1>1 DEF AiRegs
<1> HIDE DEF b
<1>4. AiLine(b) \in BOOLEAN
  BY <1>3 DEF AiLine, AiRegs
<1>5. QueueInv'
  <2>1. /\ events' \in SUBSET Event /\ One(events')
        /\ \A c : Armed(events', c) <=> c # "ai" /\ Armed(events, c)
    BY <1>2, RemoveOne DEF IInv, QueueInv
  <2>2. QED
    BY <1>2, <1>3, <2>1 DEF IInv, QueueInv
<1>6. RegInv'
  BY <1>2, <1>3 DEF IInv, RegInv, AudioTypeOK, DiscTypeOK, BufferKept
<1>7. /\ Asserted("ai")' = AiLine(b)
      /\ \A x \in Lines : x # "ai" => Asserted(x)' = Asserted(x)
  BY <1>2 DEF Asserted, AiLine, DspLine, DiLine, Lines
<1>8. LineInv'
  BY <1>2, <1>4, <1>7, LineSet DEF IInv, Lines
<1>9. QED
  BY <1>5, <1>6, <1>8 DEF IInv

-----------------------------------------------------------------------------
(* The audio DMA.                                                          *)

LEMMA WriteDspControlKeeps ==
  ASSUME NEW ack \in BOOLEAN, NEW msk \in BOOLEAN, IInv, WriteDspControl(ack, msk),
         UNCHANGED discVars, UNCHANGED advancing
  PROVE  IInv'
<1> DEFINE m == [dma EXCEPT !.int = @ /\ ~ack, !.mask = msk]
<1>1. /\ dma' = m /\ SetInterrupt("dsp", DspLine(m))
      /\ events' = events /\ ai' = ai /\ latch' = latch
      /\ di' = di /\ source' = source /\ advancing' = advancing
  BY DEF WriteDspControl, discVars
<1>2. /\ m \in DmaRegs /\ m.on = dma.on /\ m.base = dma.base
      /\ m.off = dma.off /\ m.remaining = dma.remaining
  BY DEF IInv, RegInv, AudioTypeOK, DmaRegs
<1> HIDE DEF m
<1>3. DspLine(m) \in BOOLEAN
  BY <1>2 DEF DspLine, DmaRegs
<1>4. QueueInv'
  BY <1>1, <1>2 DEF IInv, QueueInv
<1>5. RegInv'
  BY <1>1, <1>2 DEF IInv, RegInv, AudioTypeOK, DiscTypeOK, BufferKept
<1>6. /\ Asserted("dsp")' = DspLine(m)
      /\ \A x \in Lines : x # "dsp" => Asserted(x)' = Asserted(x)
  BY <1>1 DEF Asserted, AiLine, DspLine, DiLine, Lines
<1>7. LineInv'
  BY <1>1, <1>3, <1>6, LineSet DEF IInv, Lines
<1>8. QED
  BY <1>4, <1>5, <1>7 DEF IInv

LEMMA WriteDmaSourceKeeps ==
  ASSUME NEW b \in Bases, IInv, WriteDmaSource(b), UNCHANGED discVars,
         UNCHANGED advancing
  PROVE  IInv'
<1> DEFINE m == [dma EXCEPT !.source = b]
<1>1. /\ dma' = m /\ UNCHANGED piVars
      /\ events' = events /\ ai' = ai /\ latch' = latch
      /\ di' = di /\ source' = source /\ advancing' = advancing
  BY DEF WriteDmaSource, discVars
<1>2. /\ m \in DmaRegs /\ m.on = dma.on /\ m.base = dma.base
      /\ m.off = dma.off /\ m.remaining = dma.remaining
      /\ m.int = dma.int /\ m.mask = dma.mask
  BY DEF IInv, RegInv, AudioTypeOK, DmaRegs
<1> HIDE DEF m
<1>3. QueueInv'
  BY <1>1, <1>2 DEF IInv, QueueInv
<1>4. RegInv'
  BY <1>1, <1>2 DEF IInv, RegInv, AudioTypeOK, DiscTypeOK, BufferKept
<1>5. \A x \in Lines : Asserted(x)' = Asserted(x)
  BY <1>1, <1>2 DEF Asserted, AiLine, DspLine, DiLine
<1>6. LineInv'
  BY <1>1, <1>5, LineKept DEF IInv
<1>7. QED
  BY <1>3, <1>4, <1>6 DEF IInv

\* A buffer that begins is as it is programmed.
LEMMA RestartedType ==
  ASSUME NEW m \in DmaRegs
  PROVE  /\ Restarted(m) \in DmaRegs
         /\ LatchOf(m) \in [base: Bases, count: Blocks]
         /\ Restarted(m).base = LatchOf(m).base
         /\ Restarted(m).off + Restarted(m).remaining = LatchOf(m).count
         /\ Restarted(m).on = m.on
         /\ Restarted(m).int = m.int /\ Restarted(m).mask = m.mask
<1>1. 0 \in Blocks
  BY AudioAssumption DEF Blocks
<1>2. m.count \in Blocks /\ m.count \in Int
  BY AudioAssumption DEF DmaRegs, Blocks
<1> DEFINE n == [m EXCEPT !.base = m.source, !.off = 0, !.remaining = m.count]
<1>3. /\ n \in DmaRegs /\ n.base = m.source /\ n.off = 0 /\ n.remaining = m.count
      /\ n.on = m.on /\ n.int = m.int /\ n.mask = m.mask
  BY <1>1, <1>2 DEF DmaRegs
<1>4. Restarted(m) = n
  BY DEF Restarted
<1>5. LatchOf(m) = [base |-> m.source, count |-> m.count]
  BY DEF LatchOf
<1>6. /\ LatchOf(m) \in [base: Bases, count: Blocks]
      /\ LatchOf(m).base = m.source /\ LatchOf(m).count = m.count
  BY <1>2, <1>5 DEF DmaRegs
<1>7. 0 + m.count = m.count
  BY <1>2
<1> HIDE DEF n
<1>8. QED
  BY <1>3, <1>4, <1>6, <1>7

LEMMA WriteDmaControlKeeps ==
  ASSUME NEW on \in BOOLEAN, NEW count \in Blocks, IInv, WriteDmaControl(on, count),
         UNCHANGED discVars, UNCHANGED advancing
  PROVE  IInv'
<1> DEFINE m == [dma EXCEPT !.on = on, !.count = count]
           rest == Cancel(events, "dma")
<1>1. /\ IF on /\ ~dma.on
           THEN /\ dma' = Restarted(m) /\ latch' = LatchOf(m)
                /\ events' = ScheduleAfter(rest, "dma", FirstDelay)
           ELSE dma' = m /\ events' = events /\ latch' = latch
      /\ ai' = ai /\ UNCHANGED piVars
      /\ di' = di /\ source' = source /\ advancing' = advancing
  BY DEF WriteDmaControl, discVars
<1>2. /\ m \in DmaRegs /\ m.on = on /\ m.base = dma.base
      /\ m.off = dma.off /\ m.remaining = dma.remaining
      /\ m.int = dma.int /\ m.mask = dma.mask
  BY DEF IInv, RegInv, AudioTypeOK, DmaRegs
<1> HIDE DEF m
<1>3. QueueInv'
  <2>1. CASE on /\ ~dma.on
    <3>1. /\ rest \in SUBSET Event /\ One(rest)
          /\ \A c : Armed(rest, c) <=> c # "dma" /\ Armed(events, c)
      BY CancelOne DEF IInv, QueueInv
    <3>2. "dma" \in Callbacks /\ FirstDelay \in Int
      BY AudioAssumption DEF Callbacks
    <3> HIDE DEF rest
    <3>3. /\ events' \in SUBSET Event /\ One(events')
          /\ \A c : Armed(events', c) <=> c = "dma" \/ Armed(events, c)
      BY <1>1, <2>1, <3>1, <3>2, ScheduleOne
    <3>4. QED
      BY <1>1, <3>3 DEF IInv, QueueInv
  <2>2. CASE ~(on /\ ~dma.on)
    BY <1>1, <1>2, <2>2 DEF IInv, QueueInv
  <2>3. QED
    BY <2>1, <2>2
<1>4. RegInv'
  BY <1>1, <1>2, RestartedType DEF IInv, RegInv, AudioTypeOK, DiscTypeOK, BufferKept
<1>5. \A x \in Lines : Asserted(x)' = Asserted(x)
  BY <1>1, <1>2, RestartedType DEF Asserted, AiLine, DspLine, DiLine
<1>6. LineInv'
  BY <1>1, <1>5, LineKept DEF IInv
<1>7. QED
  BY <1>3, <1>4, <1>6 DEF IInv

\* A block moves the buffer on by one, if one is left.
LEMMA AdvancedType ==
  ASSUME IInv
  PROVE  /\ Advanced(dma) \in DmaRegs
         /\ Advanced(dma).base = dma.base
         /\ Advanced(dma).off + Advanced(dma).remaining = latch.count
         /\ Advanced(dma).on = dma.on
         /\ Advanced(dma).int = dma.int /\ Advanced(dma).mask = dma.mask
<1>1. /\ dma \in DmaRegs /\ latch.count \in Blocks
      /\ dma.off + dma.remaining = latch.count
  BY DEF IInv, RegInv, AudioTypeOK, BufferKept
<1>2. CASE dma.remaining > 0
  <2>1. dma.off + 1 \in Blocks /\ dma.remaining - 1 \in Blocks
    BY <1>1, <1>2, AudioAssumption DEF DmaRegs, Blocks
  <2>2. (dma.off + 1) + (dma.remaining - 1) = latch.count
    BY <1>1 DEF DmaRegs, Blocks
  <2>3. Advanced(dma) = [dma EXCEPT !.off = @ + 1, !.remaining = @ - 1]
    BY <1>2 DEF Advanced
  <2>4. QED
    BY <1>1, <2>1, <2>2, <2>3 DEF DmaRegs
<1>3. CASE ~(dma.remaining > 0)
  BY <1>1, <1>3 DEF Advanced
<1>4. QED
  BY <1>2, <1>3

LEMMA DmaFireKeeps ==
  ASSUME NEW e \in events, IInv, DmaFire(e), UNCHANGED discVars, UNCHANGED advancing
  PROVE  IInv'
<1> DEFINE m == Advanced(dma)
           n == [Restarted(m) EXCEPT !.int = TRUE]
           rest == events \ {e}
<1>1. /\ e.cb = "dma" /\ ai' = ai
      /\ di' = di /\ source' = source /\ advancing' = advancing
  BY DEF DmaFire, discVars
<1>2. /\ rest \in SUBSET Event /\ One(rest)
      /\ \A c : Armed(rest, c) <=> c # "dma" /\ Armed(events, c)
  BY <1>1, RemoveOne DEF IInv, QueueInv
<1>3. CASE ~dma.on
  <2>1. events' = rest /\ dma' = dma /\ latch' = latch /\ UNCHANGED piVars
    BY <1>3 DEF DmaFire
  <2> HIDE DEF rest
  <2>2. QueueInv'
    BY <1>1, <1>2, <1>3, <2>1 DEF IInv, QueueInv
  <2>3. RegInv'
    BY <1>1, <2>1 DEF IInv, RegInv, AudioTypeOK, DiscTypeOK, BufferKept
  <2>4. \A x \in Lines : Asserted(x)' = Asserted(x)
    BY <1>1, <2>1 DEF Asserted, AiLine, DspLine, DiLine
  <2>5. LineInv'
    BY <2>1, <2>4, LineKept DEF IInv
  <2>6. QED
    BY <2>2, <2>3, <2>5 DEF IInv
<1>4. CASE dma.on
  <2>1. /\ events' = ScheduleAfter(rest, "dma", DmaPeriod)
        /\ IF m.remaining = 0
             THEN dma' = n /\ latch' = LatchOf(m) /\ SetInterrupt("dsp", DspLine(n))
             ELSE dma' = m /\ latch' = latch /\ UNCHANGED piVars
    BY <1>4 DEF DmaFire, NextDelay
  <2>2. /\ m \in DmaRegs /\ m.base = dma.base /\ m.on = dma.on
        /\ m.off + m.remaining = latch.count
        /\ m.int = dma.int /\ m.mask = dma.mask
    BY AdvancedType
  <2> HIDE DEF m
  <2>3. /\ n \in DmaRegs /\ n.base = LatchOf(m).base /\ n.on = m.on
        /\ n.off + n.remaining = LatchOf(m).count
        /\ LatchOf(m) \in [base: Bases, count: Blocks]
    BY <2>2, RestartedType DEF DmaRegs
  <2> HIDE DEF n
  <2>4. "dma" \in Callbacks /\ DmaPeriod \in Int
    BY AudioAssumption DEF Callbacks
  <2> HIDE DEF rest
  <2>5. /\ events' \in SUBSET Event /\ One(events')
        /\ \A c : Armed(events', c) <=> c = "dma" \/ Armed(events, c)
    BY <1>2, <2>1, <2>4, ScheduleOne
  <2>6. QueueInv'
    BY <1>1, <2>5 DEF IInv, QueueInv
  <2>7. RegInv'
    BY <1>1, <2>1, <2>2, <2>3 DEF IInv, RegInv, AudioTypeOK, DiscTypeOK, BufferKept
  <2>8. LineInv'
    <3>1. CASE m.remaining = 0
      <4>1. DspLine(n) \in BOOLEAN
        BY <2>3 DEF DspLine, DmaRegs
      <4>2. /\ Asserted("dsp")' = DspLine(n)
            /\ \A x \in Lines : x # "dsp" => Asserted(x)' = Asserted(x)
        BY <1>1, <2>1, <3>1 DEF Asserted, AiLine, DspLine, DiLine, Lines
      <4>3. QED
        BY <2>1, <3>1, <4>1, <4>2, LineSet DEF IInv, Lines
    <3>2. CASE m.remaining # 0
      <4>1. \A x \in Lines : Asserted(x)' = Asserted(x)
        BY <1>1, <2>1, <2>2, <3>2 DEF Asserted, AiLine, DspLine, DiLine
      <4>2. QED
        BY <2>1, <3>2, <4>1, LineKept DEF IInv
    <3>3. QED
      BY <3>1, <3>2
  <2>9. QED
    BY <2>6, <2>7, <2>8 DEF IInv
<1>5. QED
  BY <1>3, <1>4

-----------------------------------------------------------------------------
(* The disc.                                                               *)

LEMMA WriteStatusKeeps ==
  ASSUME NEW ackTc \in BOOLEAN, NEW ackErr \in BOOLEAN, NEW setMask \in BOOLEAN,
         IInv, WriteStatus(ackTc, ackErr, setMask),
         UNCHANGED audioVars, UNCHANGED advancing
  PROVE  IInv'
<1> DEFINE r == [di EXCEPT !.tc = @ /\ ~ackTc, !.err = @ /\ ~ackErr,
                           !.mask = @ \/ setMask]
<1>1. /\ di' = r /\ SetInterrupt("di", DiLine(r))
      /\ events' = events /\ source' = source /\ advancing' = advancing
      /\ ai' = ai /\ dma' = dma /\ latch' = latch
  BY DEF WriteStatus, audioVars
<1>2. DiscTypeOK' /\ r.start = di.start /\ DiLine(r) \in BOOLEAN
  BY <1>1 DEF IInv, RegInv, DiscTypeOK, DiLine
<1> HIDE DEF r
<1>3. QueueInv'
  BY <1>1, <1>2 DEF IInv, QueueInv
<1>4. RegInv'
  BY <1>1, <1>2 DEF IInv, RegInv, AudioTypeOK, BufferKept
<1>5. /\ Asserted("di")' = DiLine(r)
      /\ \A x \in Lines : x # "di" => Asserted(x)' = Asserted(x)
  BY <1>1 DEF Asserted, AiLine, DspLine, DiLine, Lines
<1>6. LineInv'
  BY <1>1, <1>2, <1>5, LineSet DEF IInv, Lines
<1>7. QED
  BY <1>3, <1>4, <1>6 DEF IInv

LEMMA RequestKeeps ==
  ASSUME NEW fits \in BOOLEAN, IInv, di' = [di EXCEPT !.fits = fits],
         source' \in BOOLEAN,
         UNCHANGED <<events, piVars, audioVars, advancing>>
  PROVE  IInv'
<1>1. /\ di' = [di EXCEPT !.fits = fits] /\ UNCHANGED piVars
      /\ events' = events /\ advancing' = advancing
      /\ ai' = ai /\ dma' = dma /\ latch' = latch
  BY DEF audioVars
<1>2. /\ DiscTypeOK' /\ di'.start = di.start
      /\ di'.tc = di.tc /\ di'.mask = di.mask
  BY <1>1 DEF IInv, RegInv, DiscTypeOK
<1>3. QueueInv'
  BY <1>1, <1>2 DEF IInv, QueueInv
<1>4. RegInv'
  BY <1>1, <1>2 DEF IInv, RegInv, AudioTypeOK, BufferKept
<1>5. \A x \in Lines : Asserted(x)' = Asserted(x)
  BY <1>1, <1>2 DEF Asserted, AiLine, DspLine, DiLine
<1>6. LineInv'
  BY <1>1, <1>5, LineKept DEF IInv
<1>7. QED
  BY <1>3, <1>4, <1>6 DEF IInv

LEMMA WriteRequestKeeps ==
  ASSUME NEW fits \in BOOLEAN, IInv, WriteRequest(fits),
         UNCHANGED audioVars, UNCHANGED advancing
  PROVE  IInv'
BY RequestKeeps DEF WriteRequest, IInv, RegInv, DiscTypeOK

LEMMA WriteControlKeeps ==
  ASSUME NEW start \in BOOLEAN, IInv, WriteControl(start),
         UNCHANGED audioVars, UNCHANGED advancing
  PROVE  IInv'
<1> DEFINE rest == Cancel(events, "di")
<1>1. /\ di' = [di EXCEPT !.start = start] /\ UNCHANGED piVars
      /\ events' = IF start THEN ScheduleAfter(rest, "di", TransferDelay) ELSE events
      /\ source' = source /\ advancing' = advancing
      /\ ai' = ai /\ dma' = dma /\ latch' = latch
  BY DEF WriteControl, audioVars
<1>2. /\ DiscTypeOK' /\ di'.start = start
      /\ di'.tc = di.tc /\ di'.mask = di.mask
  BY <1>1 DEF IInv, RegInv, DiscTypeOK
<1>3. QueueInv'
  <2>1. /\ rest \in SUBSET Event /\ One(rest)
        /\ \A c : Armed(rest, c) <=> c # "di" /\ Armed(events, c)
    BY CancelOne DEF IInv, QueueInv
  <2>2. "di" \in Callbacks /\ TransferDelay \in Int
    BY DiscAssumption DEF Callbacks
  <2> HIDE DEF rest
  <2>3. CASE start
    <3>1. /\ events' \in SUBSET Event /\ One(events')
          /\ \A c : Armed(events', c) <=> c = "di" \/ Armed(events, c)
      BY <1>1, <2>1, <2>2, <2>3, ScheduleOne
    <3>2. QED
      BY <1>1, <3>1 DEF IInv, QueueInv
  <2>4. CASE ~start
    BY <1>1, <1>2, <2>4 DEF IInv, QueueInv
  <2>5. QED
    BY <2>3, <2>4
<1>4. RegInv'
  BY <1>1, <1>2 DEF IInv, RegInv, AudioTypeOK, BufferKept
<1>5. \A x \in Lines : Asserted(x)' = Asserted(x)
  BY <1>1, <1>2 DEF Asserted, AiLine, DspLine, DiLine
<1>6. LineInv'
  BY <1>1, <1>5, LineKept DEF IInv
<1>7. QED
  BY <1>3, <1>4, <1>6 DEF IInv

LEMMA DiFireKeeps ==
  ASSUME NEW e \in events, IInv, DiFire(e), UNCHANGED audioVars, UNCHANGED advancing
  PROVE  IInv'
<1>1. /\ e.cb = "di" /\ events' = events \ {e}
      /\ source' = source /\ advancing' = advancing
      /\ ai' = ai /\ dma' = dma /\ latch' = latch
  BY DEF DiFire, audioVars
<1>2. PICK success \in BOOLEAN, fits \in BOOLEAN :
        LET r == [di EXCEPT !.start = FALSE, !.tc = @ \/ success,
                            !.err = @ \/ ~success, !.fits = fits] IN
        di' = r /\ SetInterrupt("di", DiLine(r))
  BY DEF DiFire, IInv, RegInv, DiscTypeOK
<1> DEFINE r == [di EXCEPT !.start = FALSE, !.tc = @ \/ success,
                           !.err = @ \/ ~success, !.fits = fits]
<1>3. r \in [tc: BOOLEAN, err: BOOLEAN, mask: BOOLEAN, fits: BOOLEAN, start: BOOLEAN]
      /\ ~r.start
  BY DEF IInv, RegInv, DiscTypeOK
<1>4. di' = r /\ SetInterrupt("di", DiLine(r))
  BY <1>2
<1> HIDE DEF r
<1>5. /\ DiscTypeOK' /\ ~di'.start
      /\ di'.tc = r.tc /\ di'.mask = r.mask /\ DiLine(r) \in BOOLEAN
  BY <1>1, <1>3, <1>4 DEF IInv, RegInv, DiscTypeOK, DiLine
<1>6. QueueInv'
  <2>1. /\ events' \in SUBSET Event /\ One(events')
        /\ \A c : Armed(events', c) <=> c # "di" /\ Armed(events, c)
    BY <1>1, RemoveOne DEF IInv, QueueInv
  <2>2. QED
    BY <1>1, <1>5, <2>1 DEF IInv, QueueInv
<1>7. RegInv'
  BY <1>1, <1>5 DEF IInv, RegInv, AudioTypeOK, BufferKept
<1>8. /\ Asserted("di")' = DiLine(r)
      /\ \A x \in Lines : x # "di" => Asserted(x)' = Asserted(x)
  BY <1>1, <1>5 DEF Asserted, AiLine, DspLine, DiLine, Lines
<1>9. LineInv'
  BY <1>4, <1>5, <1>8, LineSet DEF IInv, Lines
<1>10. QED
  BY <1>6, <1>7, <1>9 DEF IInv

-----------------------------------------------------------------------------
(* The whole.                                                              *)

\* What a program writes is within the constants the devices are typed with.
LEMMA ProgramUses ==
  ASSUME program \in Programs
  PROVE  /\ program.masks \subseteq SUBSET Lines
         /\ program.bases \subseteq Bases /\ program.blocks \subseteq Blocks
         /\ program.charges \subseteq Charges
BY RuntimeAssumption

\* The guest's accesses to the processor interface.
LEMMA PiOpKeeps ==
  ASSUME IInv, program \in Programs, PiOp, UNCHANGED advancing
  PROVE  IInv'
<1>1. /\ events' = events /\ ai' = ai /\ dma' = dma /\ latch' = latch
      /\ di' = di /\ source' = source /\ advancing' = advancing
  BY DEF PiOp, audioVars, discVars
<1>2. QueueInv' /\ RegInv'
  BY <1>1 DEF IInv, QueueInv, RegInv, AudioTypeOK, DiscTypeOK, BufferKept
<1>3. \A x \in Lines : Asserted(x)' = Asserted(x)
  BY <1>1 DEF Asserted, AiLine, DspLine, DiLine
<1>4. ASSUME NEW bits \in SUBSET Lines, WriteCause(bits) PROVE LineInv'
  BY <1>3, <1>4 DEF IInv, LineInv, PiTypeOK, LinesAgree, WriteCause, UpdateException
<1>5. ASSUME NEW m \in program.masks, WriteMask(m) PROVE LineInv'
  BY <1>3, <1>5, ProgramUses
  DEF IInv, LineInv, PiTypeOK, LinesAgree, WriteMask, UpdateException
<1>6. LineInv'
  BY <1>4, <1>5 DEF PiOp
<1>7. QED
  BY <1>2, <1>6 DEF IInv

\* Reset leaves nothing pending and every line low.
LEMMA ResetKeeps ==
  ASSUME IInv, Reset
  PROVE  IInv'
<1>1. /\ events' = {} /\ ai' = AiReset /\ dma' = DmaReset /\ di' = DiReset
      /\ latch' = [base |-> NoBase, count |-> 0]
      /\ cause' = {} /\ mask' = {} /\ exception' = FALSE /\ acked' = {}
      /\ advancing' = advancing /\ source' = source
  BY DEF Reset, PiReset
<1>2. /\ 0 \in Counters /\ 0 \in 0 .. CyclesPerSample * CounterWrap - 1
      /\ 0 \in Blocks /\ NoBase \in Bases
  BY WrapCycles, AudioAssumption DEF Counters, Blocks, NoBase
<1>3. QueueInv'
  BY <1>1 DEF QueueInv, One, AiReset, DmaReset, DiReset
<1>4. RegInv'
  BY <1>1, <1>2 DEF IInv, RegInv, AudioTypeOK, DiscTypeOK, BufferKept, AiReset, DmaReset,
     DiReset, AiRegs, DmaRegs
<1>5. \A x \in Lines : ~Asserted(x)'
  BY <1>1 DEF Asserted, AiLine, DspLine, DiLine, AiReset, DmaReset, DiReset, Lines
<1>6. LineInv'
  BY <1>1, <1>5 DEF LineInv, PiTypeOK, LinesAgree
<1>7. QED
  BY <1>3, <1>4, <1>6 DEF IInv

LEMMA InitIInv == Init => IInv
<1> SUFFICES ASSUME Init PROVE IInv
  OBVIOUS
<1>1. /\ 0 \in Counters /\ 0 \in 0 .. CyclesPerSample * CounterWrap - 1
      /\ 0 \in Blocks /\ NoBase \in Bases
  BY WrapCycles, AudioAssumption DEF Counters, Blocks, NoBase
<1>2. QueueInv
  BY DEF Init, QueueInv, One, AiReset, DmaReset, DiReset
<1>3. RegInv
  <2>1. /\ ai = AiReset /\ dma = DmaReset /\ di = DiReset
        /\ latch = [base |-> NoBase, count |-> 0]
        /\ advancing = FALSE /\ source = FALSE
    BY DEF Init
  <2>2. ai \in AiRegs
    BY <1>1, <2>1 DEF AiReset, AiRegs
  <2>3. dma \in DmaRegs /\ dma.base = NoBase /\ dma.off = 0 /\ dma.remaining = 0
    BY <1>1, <2>1 DEF DmaReset, DmaRegs
  <2>4. DiscTypeOK
    BY <2>1 DEF DiscTypeOK, DiReset
  <2>5. latch \in [base: Bases, count: Blocks] /\ latch.base = NoBase /\ latch.count = 0
    BY <1>1, <2>1
  <2>6. BufferKept
    BY <2>3, <2>5 DEF BufferKept
  <2>7. QED
    BY <2>1, <2>2, <2>3, <2>4, <2>5, <2>6 DEF RegInv, AudioTypeOK
<1>4. \A x \in Lines : ~Asserted(x)
  BY DEF Init, Asserted, AiLine, DspLine, DiLine, AiReset, DmaReset, DiReset, Lines
<1>5. LineInv
  BY <1>4 DEF Init, LineInv, PiTypeOK, LinesAgree
<1>6. QED
  BY <1>2, <1>3, <1>5 DEF IInv

\* A dispatch's cycles age the queue and the counter.
LEMMA AdvanceKeeps ==
  ASSUME NEW n \in Charges, IInv, Advance(n)
  PROVE  IInv'
<1>1. /\ events' = Passed(events, n) /\ ai' = Aged(ai, n) /\ advancing' = TRUE
      /\ dma' = dma /\ latch' = latch /\ UNCHANGED piVars
      /\ di' = di /\ source' = source
  BY DEF Advance, discVars
<1>2. n \in Nat
  BY ChargesAssumption
<1>3. /\ ai' \in AiRegs
      /\ ai'.play = ai.play /\ ai'.int = ai.int /\ ai'.mask = ai.mask
  BY <1>1, <1>2, AgedType DEF IInv, RegInv, AudioTypeOK
<1>4. /\ events' \in SUBSET Event /\ One(events')
      /\ \A c : Armed(events', c) <=> Armed(events, c)
  BY <1>1, <1>2, PassedOne DEF IInv, QueueInv
<1>5. QueueInv'
  BY <1>1, <1>3, <1>4 DEF IInv, QueueInv
<1>6. RegInv'
  BY <1>1, <1>3 DEF IInv, RegInv, AudioTypeOK, DiscTypeOK, BufferKept
<1>7. \A x \in Lines : Asserted(x)' = Asserted(x)
  BY <1>1, <1>3 DEF Asserted, AiLine, DspLine, DiLine
<1>8. LineInv'
  BY <1>1, <1>7, LineKept DEF IInv
<1>9. QED
  BY <1>5, <1>6, <1>8 DEF IInv

\* What IInv speaks of, but for the source and the loop flag, is untouched.
LEMMA RestKeeps ==
  ASSUME IInv, UNCHANGED <<events, piVars, audioVars, di>>,
         advancing' \in BOOLEAN, source' \in BOOLEAN
  PROVE  IInv'
<1>1. /\ events' = events /\ ai' = ai /\ dma' = dma /\ latch' = latch /\ di' = di
      /\ UNCHANGED piVars
  BY DEF audioVars
<1>2. QueueInv' /\ RegInv'
  BY <1>1 DEF IInv, QueueInv, RegInv, AudioTypeOK, DiscTypeOK, BufferKept
<1>3. \A x \in Lines : Asserted(x)' = Asserted(x)
  BY <1>1 DEF Asserted, AiLine, DspLine, DiLine
<1>4. QED
  BY <1>1, <1>2, <1>3, LineKept DEF IInv

LEMMA GuestKeeps ==
  ASSUME IInv, program \in Programs, Guest
  PROVE  IInv'
<1>1. advancing' = advancing
  BY DEF Guest
<1>2. CASE AiOp /\ UNCHANGED discVars
  BY <1>1, <1>2, ReadAiKeeps, WriteAiControlKeeps, WriteAiCounterKeeps, WriteAiTimingKeeps
  DEF AiOp
<1>3. CASE DmaOp /\ UNCHANGED discVars
  BY <1>1, <1>3, WriteDspControlKeeps, WriteDmaSourceKeeps, WriteDmaControlKeeps,
     ProgramUses
  DEF DmaOp
<1>4. CASE DiOp /\ UNCHANGED audioVars
  BY <1>1, <1>4, WriteStatusKeeps, WriteRequestKeeps, WriteControlKeeps DEF DiOp
<1>5. CASE PiOp
  BY <1>1, <1>5, PiOpKeeps
<1>6. QED
  BY <1>2, <1>3, <1>4, <1>5 DEF Guest

LEMMA NextIInv == IInv /\ program \in Programs /\ [Next]_vars => IInv'
<1> SUFFICES ASSUME IInv, program \in Programs, [Next]_vars PROVE IInv'
  OBVIOUS
<1>1. CASE Guest
  BY <1>1, GuestKeeps
<1>2. CASE Reset
  BY <1>2, ResetKeeps
<1>3. ASSUME NEW s \in BOOLEAN, Insert(s) PROVE IInv'
  BY <1>3, RequestKeeps DEF Insert, SetSource
<1>4. ASSUME NEW n \in program.charges, Advance(n) PROVE IInv'
  BY <1>4, AdvanceKeeps, ProgramUses
<1>5. CASE Fire
  BY <1>5, AiFireKeeps, DmaFireKeeps, DiFireKeeps DEF Fire
<1>6. CASE AdvanceReturn
  BY <1>6, RestKeeps DEF AdvanceReturn, IInv, RegInv, DiscTypeOK, discVars
<1>7. CASE UNCHANGED vars
  BY <1>7, RestKeeps DEF vars, IInv, RegInv, DiscTypeOK, discVars
<1>8. QED
  BY <1>1, <1>2, <1>3, <1>4, <1>5, <1>6, <1>7 DEF Next

-----------------------------------------------------------------------------
(* Quotients and remainders.                                               *)

LEMMA Distributes ==
  ASSUME NEW q \in Int, NEW k \in Int, NEW n \in Int
  PROVE  /\ (q + k) * n = q * n + k * n /\ (q - k) * n = q * n - k * n
         /\ (q * k) * n = q * (k * n) /\ q * n \in Int
OBVIOUS

\* A number is its quotient's multiple and its remainder, in one way only.
LEMMA DivMod ==
  ASSUME NEW a \in Int, NEW n \in Nat \ {0}
  PROVE  a = (a \div n) * n + (a % n) /\ a \div n \in Int
<1>1. a = n * (a \div n) + (a % n) /\ a \div n \in Int
  OBVIOUS
<1>2. n * (a \div n) = (a \div n) * n
  BY <1>1
<1>3. QED
  BY <1>1, <1>2, Zenon

LEMMA DivModUnique ==
  ASSUME NEW n \in Nat \ {0}, NEW q \in Int, NEW r \in 0 .. n - 1
  PROVE  (q * n + r) \div n = q /\ (q * n + r) % n = r
OBVIOUS

\* Whole turns add to the quotient and leave the remainder.
LEMMA DivModTurns ==
  ASSUME NEW a \in Int, NEW q \in Int, NEW n \in Nat \ {0}
  PROVE  (a + q * n) \div n = (a \div n) + q /\ (a + q * n) % n = a % n
<1> DEFINE r == a % n
           k == a \div n
<1>1. a = k * n + r /\ k \in Int
  BY DivMod
<1>2. r \in 0 .. n - 1
  BY ModRange
<1> HIDE DEF r, k
<1>3. a + q * n = (k + q) * n + r
  BY <1>1, <1>2, Distributes
<1>4. k + q \in Int
  BY <1>1
<1>5. ((k + q) * n + r) \div n = k + q /\ ((k + q) * n + r) % n = r
  BY <1>2, <1>4, DivModUnique
<1>6. QED
  BY <1>3, <1>5 DEF r, k

\* A remainder may be taken before a sum or after it.
LEMMA ModShift ==
  ASSUME NEW a \in Int, NEW b \in Int, NEW n \in Nat \ {0}
  PROVE  ((a % n) + b) % n = (a + b) % n
<1> DEFINE r == a % n
           k == a \div n
<1>1. a = k * n + r /\ k \in Int
  BY DivMod
<1>2. r \in 0 .. n - 1
  BY ModRange
<1> HIDE DEF r, k
<1>3. a + b = (r + b) + k * n /\ r + b \in Int
  BY <1>1, <1>2, Distributes
<1>4. ((r + b) + k * n) % n = (r + b) % n
  BY <1>1, <1>3, DivModTurns
<1>5. QED
  BY <1>3, <1>4 DEF r

-----------------------------------------------------------------------------
(* The counter at the alarm.                                               *)

\* Where the counter of a stands when an alarm that is d cycles away rings.
Then(a, d) == (a.counter + ((a.age + d) \div CyclesPerSample)) % CounterWrap

OnTarget(a, d) == a.play /\ Then(a, d) \in {a.timing, (a.timing + 1) % CounterWrap}

\* The parts of an interface's registers that the arithmetic speaks of.
LEMMA AiNumbers ==
  ASSUME NEW a \in AiRegs
  PROVE  /\ a.counter \in Nat /\ a.counter < CounterWrap
         /\ a.timing \in Nat /\ a.timing < CounterWrap
         /\ a.age \in Nat
         /\ CyclesPerSample \in Nat \ {0} /\ CounterWrap \in Nat \ {0}
<1>1. CyclesPerSample \in Nat \ {0} /\ CounterWrap \in Nat \ {0}
  BY AudioAssumption
<1>2. QED
  BY <1>1, WrapCycles DEF AiRegs, Counters

\* Bringing the counter up to date moves age into the counter.
LEMMA CountedThen ==
  ASSUME NEW a \in AiRegs, NEW d \in Int
  PROVE  OnTarget(a, d) => OnTarget(Counted(a), d)
<1> SUFFICES ASSUME OnTarget(a, d) PROVE OnTarget(Counted(a), d)
  OBVIOUS
<1> DEFINE C == CyclesPerSample
           q == a.age \div C
           r == a.age % C
           s == (r + d) \div C
<1>1. /\ a.counter \in Nat /\ a.age \in Nat /\ C \in Nat \ {0}
      /\ CounterWrap \in Nat \ {0}
  BY AiNumbers
<1>2. a.play
  BY DEF OnTarget
<1>3. Counted(a).play /\ Counted(a).timing = a.timing
  BY <1>2, CountedType
<1>4. Counted(a).counter = (a.counter + q) % CounterWrap /\ Counted(a).age = r
  BY <1>2 DEF Counted, AiRegs
<1>5. a.age = q * C + r /\ q \in Int
  <2>1. a.age \in Int
    BY <1>1
  <2>2. QED
    BY <1>1, <2>1, DivMod
<1>6. r \in Int
  <2>1. a.age \in Int
    BY <1>1
  <2>2. r \in 0 .. C - 1
    BY <1>1, <2>1, ModRange
  <2> HIDE DEF r
  <2>3. QED
    BY <1>1, <2>2
<1> HIDE DEF q, r
<1>7. a.age + d = (r + d) + q * C /\ r + d \in Int
  BY <1>1, <1>5, <1>6, Distributes
<1>8. ((r + d) + q * C) \div C = s + q
  BY <1>1, <1>5, <1>7, DivModTurns
<1>9. s \in Int
  BY <1>1, <1>7, DivMod
<1>10. Then(a, d) = (a.counter + (s + q)) % CounterWrap
  BY <1>7, <1>8 DEF Then
<1>11. Then(Counted(a), d) = (((a.counter + q) % CounterWrap) + s) % CounterWrap
  BY <1>4 DEF Then
<1> HIDE DEF s, C
<1>12. a.counter + q \in Int
  BY <1>1, <1>5
<1>13. (((a.counter + q) % CounterWrap) + s) % CounterWrap
         = ((a.counter + q) + s) % CounterWrap
  BY <1>1, <1>9, <1>12, ModShift
<1>14. (a.counter + q) + s = a.counter + (s + q)
  BY <1>1, <1>5, <1>9
<1>15. Then(Counted(a), d) = Then(a, d)
  BY <1>10, <1>11, <1>13, <1>14
<1>16. QED
  BY <1>3, <1>15 DEF OnTarget

\* Time passing brings the alarm nearer by what it adds to age; that age is
\* kept modulo the cycles of a wrap takes whole turns off the counter.
LEMMA AgedThen ==
  ASSUME NEW a \in AiRegs, NEW d \in Int, NEW n \in Nat
  PROVE  OnTarget(a, d) => OnTarget(Aged(a, n), d - n)
<1> SUFFICES ASSUME OnTarget(a, d) PROVE OnTarget(Aged(a, n), d - n)
  OBVIOUS
<1> DEFINE C == CyclesPerSample
           w == C * CounterWrap
           q == (a.age + n) \div w
           r == (a.age + n) % w
           s == (r + (d - n)) \div C
<1>1. /\ a.counter \in Nat /\ a.age \in Nat /\ C \in Nat \ {0}
      /\ CounterWrap \in Nat \ {0}
  BY AiNumbers
<1>2. a.play
  BY DEF OnTarget
<1>3. /\ Aged(a, n).play /\ Aged(a, n).timing = a.timing
      /\ Aged(a, n).counter = a.counter /\ Aged(a, n).age = r
  BY <1>2 DEF Aged, AiRegs
<1>4. w \in Nat \ {0}
  BY WrapCycles
<1>5. a.age + n \in Int
  BY <1>1
<1> HIDE DEF w
<1>6. a.age + n = q * w + r /\ q \in Int /\ r \in Int
  <2>1. a.age + n = q * w + r /\ q \in Int
    BY <1>4, <1>5, DivMod
  <2>2. r \in 0 .. w - 1
    BY <1>4, <1>5, ModRange
  <2>3. QED
    BY <1>4, <2>1, <2>2
<1> HIDE DEF q, r
<1>7. q * w = (q * CounterWrap) * C /\ q * CounterWrap \in Int /\ q * w \in Int
  <2>1. C * CounterWrap = CounterWrap * C
    BY <1>1
  <2>2. q * (CounterWrap * C) = (q * CounterWrap) * C
    BY <1>1, <1>6, Distributes
  <2>3. QED
    BY <1>1, <1>6, <2>1, <2>2, Distributes DEF w
<1>8. r + (d - n) \in Int
  BY <1>6
<1>9. a.age + d = (r + (d - n)) + (q * CounterWrap) * C
  <2>1. a.age + n = (q * CounterWrap) * C + r
    BY <1>6, <1>7
  <2> DEFINE t == (q * CounterWrap) * C
  <2>2. t \in Int
    BY <1>7
  <2> HIDE DEF t
  <2>3. a.age + n = t + r
    BY <2>1 DEF t
  <2>4. a.age + d = (r + (d - n)) + t
    BY <1>1, <1>6, <2>2, <2>3
  <2>5. QED
    BY <2>4 DEF t
<1>10. ((r + (d - n)) + (q * CounterWrap) * C) \div C = s + q * CounterWrap
  BY <1>1, <1>7, <1>8, DivModTurns
<1>11. s \in Int
  BY <1>1, <1>8, DivMod
<1>12. Then(a, d) = (a.counter + (s + q * CounterWrap)) % CounterWrap
  BY <1>9, <1>10 DEF Then
<1>13. Then(Aged(a, n), d - n) = (a.counter + s) % CounterWrap
  BY <1>3 DEF Then
<1> HIDE DEF s, C
<1>14. a.counter + (s + q * CounterWrap) = (a.counter + s) + q * CounterWrap
  BY <1>1, <1>7, <1>11
<1>15. a.counter + s \in Int
  BY <1>1, <1>11
<1>16. ((a.counter + s) + q * CounterWrap) % CounterWrap = (a.counter + s) % CounterWrap
  BY <1>1, <1>6, <1>15, DivModTurns
<1>17. Then(Aged(a, n), d - n) = Then(a, d)
  BY <1>12, <1>13, <1>14, <1>16
<1>18. QED
  BY <1>3, <1>17 DEF OnTarget

\* The delay an alarm is given leads to its target, if less than a sample has
\* passed since the counter was brought up to date.
LEMMA DelayThen ==
  ASSUME NEW a \in AiRegs, a.play, a.age < CyclesPerSample
  PROVE  OnTarget(a, AlarmDelay(a))
<1> DEFINE C == CyclesPerSample
           g == a.timing - a.counter
           k == g % CounterWrap
           h == IF k = 0 THEN 1 ELSE k
<1>1. /\ a.counter \in Nat /\ a.counter < CounterWrap
      /\ a.timing \in Nat /\ a.timing < CounterWrap
      /\ a.age \in Nat /\ C \in Nat \ {0} /\ CounterWrap \in Nat \ {0}
  BY AiNumbers
<1>2. g \in Int
  BY <1>1
<1>3. k \in Nat /\ h \in Nat
  <2>1. k \in 0 .. CounterWrap - 1
    BY <1>1, <1>2, ModRange
  <2>2. k \in Nat
    BY <1>1, <2>1
  <2> HIDE DEF k
  <2>3. QED
    BY <2>2
<1>4. AlarmDelay(a) = h * C
  BY <1>1 DEF AlarmDelay
<1> HIDE DEF h
<1>5. a.age + h * C = h * C + a.age /\ a.age \in 0 .. C - 1
  BY <1>1, <1>3
<1>6. (h * C + a.age) \div C = h
  <2>1. h \in Int
    BY <1>3
  <2>2. QED
    BY <1>1, <1>5, <2>1, DivModUnique
<1>7. Then(a, AlarmDelay(a)) = (a.counter + h) % CounterWrap
  BY <1>4, <1>5, <1>6 DEF Then
<1>8. CASE k = 0
  <2>1. a.timing = a.counter
    <3>1. g = (g \div CounterWrap) * CounterWrap + k /\ g \div CounterWrap \in Int
      BY <1>1, <1>2, DivMod
    <3> DEFINE q == g \div CounterWrap
    <3> HIDE DEF q, k
    <3>2. g = q * CounterWrap /\ q \in Int
      BY <1>8, <3>1, Distributes, <1>1 DEF q
    <3>3. g < CounterWrap /\ -g < CounterWrap
      BY <1>1
    <3>4. q = 0
      <4>1. CASE q >= 1
        <5>1. q * CounterWrap >= CounterWrap
          BY <1>1, <3>2, <4>1
        <5>2. QED
          BY <1>1, <1>2, <3>2, <3>3, <5>1
      <4>2. CASE q <= -1
        <5>1. q * CounterWrap <= -CounterWrap
          BY <1>1, <3>2, <4>2
        <5>2. QED
          BY <1>1, <1>2, <3>2, <3>3, <5>1
      <4>3. QED
        BY <3>2, <4>1, <4>2
    <3>5. g = 0
      BY <1>1, <3>2, <3>4
    <3>6. QED
      BY <1>1, <3>5
  <2>2. h = 1
    BY <1>8 DEF h
  <2>3. QED
    BY <1>7, <2>1, <2>2 DEF OnTarget
<1>9. CASE k # 0
  <2>1. h = k
    BY <1>9 DEF h
  <2>2. ((g % CounterWrap) + a.counter) % CounterWrap = (g + a.counter) % CounterWrap
    <3>1. a.counter \in Int
      BY <1>1
    <3> HIDE DEF g
    <3>2. QED
      BY <1>1, <1>2, <3>1, ModShift
  <2>3. g + a.counter = a.timing /\ a.timing \in 0 .. CounterWrap - 1
    BY <1>1
  <2>4. a.timing % CounterWrap = a.timing
    BY <1>1, <2>3
  <2>5. a.counter + k = k + a.counter
    BY <1>1, <1>3
  <2>6. Then(a, AlarmDelay(a)) = a.timing
    BY <1>7, <2>1, <2>2, <2>3, <2>4, <2>5
  <2>7. QED
    BY <2>6 DEF OnTarget
<1>10. QED
  BY <1>8, <1>9

-----------------------------------------------------------------------------
(* Deadlines: how the queue stands to the alarms of the abstract            *)
(* specification.                                                          *)

Of(evs, x) == {e \in evs : e.cb = x}

\* Deadline for any queue.
Earliest(evs) ==
  IF evs = {} THEN NoAlarm
  ELSE LET e == CHOOSE e \in evs : \A f \in evs : e.due <= f.due IN e.due

DueOf(evs, x) == Earliest(Of(evs, x))

LEMMA DueDefs ==
  /\ \A x : Deadline(x) = DueOf(events, x)
  /\ \A x : Deadline(x)' = DueOf(events', x)
BY DEF Deadline, DueOf, Earliest, Of, Pending

\* A device's deadline is its one event's.
LEMMA DueOne ==
  ASSUME NEW evs \in SUBSET Event, One(evs)
  PROVE  /\ \A e \in evs : DueOf(evs, e.cb) = e.due
         /\ \A x : ~Armed(evs, x) => DueOf(evs, x) = NoAlarm
         /\ \A x : Armed(evs, x) => DueOf(evs, x) \in Int
<1>1. ASSUME NEW e \in evs PROVE DueOf(evs, e.cb) = e.due
  <2>1. Of(evs, e.cb) = {e} /\ e.due \in Int
    BY DEF One, Of, Event
  <2>2. \A f \in {e} : (\A g \in {e} : f.due <= g.due) <=> f = e
    BY <2>1
  <2>3. (CHOOSE f \in {e} : \A g \in {e} : f.due <= g.due) = e
    BY <2>2
  <2>4. QED
    BY <2>1, <2>3 DEF DueOf, Earliest
<1>2. \A e \in evs : e.due \in Int
  BY DEF Event
<1>3. ASSUME NEW x, ~Armed(evs, x) PROVE DueOf(evs, x) = NoAlarm
  <2>1. Of(evs, x) = {}
    BY <1>3 DEF Armed, Of
  <2>2. QED
    BY <2>1 DEF DueOf, Earliest
<1>4. ASSUME NEW x, Armed(evs, x) PROVE DueOf(evs, x) \in Int
  <2>1. PICK e \in evs : e.cb = x
    BY <1>4 DEF Armed
  <2>2. DueOf(evs, x) = e.due
    BY <1>1, <2>1
  <2>3. QED
    BY <1>2, <2>2
<1>5. QED
  BY <1>1, <1>3, <1>4

\* The deadlines of the devices other than cb.
LEMMA DueOthers ==
  ASSUME NEW evs \in SUBSET Event, NEW cb
  PROVE  /\ \A x : x # cb => DueOf(Cancel(evs, cb), x) = DueOf(evs, x)
         /\ \A n \in Int : \A x : x # cb => DueOf(ScheduleAfter(evs, cb, n), x) = DueOf(evs, x)
         /\ \A e \in evs : \A x : x # e.cb => DueOf(evs \ {e}, x) = DueOf(evs, x)
<1>1. \A x : x # cb => Of(Cancel(evs, cb), x) = Of(evs, x)
  BY DEF Of, Cancel
<1>2. ASSUME NEW n \in Int, NEW x, x # cb
      PROVE  Of(ScheduleAfter(evs, cb, n), x) = Of(evs, x)
  <2> DEFINE let(e) == IF e.cb = cb THEN [e EXCEPT !.held = FALSE] ELSE e
             new == [cb |-> cb, due |-> n, held |-> TRUE]
  <2>1. \A e \in evs : let(e).cb = e.cb /\ (e.cb = x => let(e) = e)
    BY <1>2 DEF Event
  <2>2. new.cb # x
    BY <1>2
  <2>3. ScheduleAfter(evs, cb, n) = {let(e) : e \in evs} \cup {new}
    BY DEF ScheduleAfter
  <2> HIDE DEF let, new
  <2>4. QED
    BY <2>1, <2>2, <2>3 DEF Of
<1>3. \A e \in evs : \A x : x # e.cb => Of(evs \ {e}, x) = Of(evs, x)
  BY DEF Of
<1>4. QED
  BY <1>1, <1>2, <1>3 DEF DueOf

\* Scheduling anew, after cancelling or when the event has run, sets the
\* deadline of one device.
LEMMA DueSet ==
  ASSUME NEW evs \in SUBSET Event, One(evs), NEW cb \in Callbacks, NEW n \in Int,
         ~Armed(evs, cb)
  PROVE  DueOf(ScheduleAfter(evs, cb, n), cb) = n
<1> DEFINE new == [cb |-> cb, due |-> n, held |-> TRUE]
           evs2 == ScheduleAfter(evs, cb, n)
<1>1. evs2 \in SUBSET Event /\ One(evs2)
  BY ScheduleOne
<1>2. new \in evs2 /\ new.cb = cb /\ new.due = n
  BY DEF ScheduleAfter
<1> HIDE DEF new, evs2
<1>3. DueOf(evs2, new.cb) = new.due
  BY <1>1, <1>2, DueOne
<1>4. QED
  BY <1>2, <1>3 DEF evs2

\* Time passing brings every deadline nearer by as much.
LEMMA DuePassed ==
  ASSUME NEW evs \in SUBSET Event, One(evs), NEW n \in Int, NEW x
  PROVE  /\ DueOf(evs, x) = NoAlarm => DueOf(Passed(evs, n), x) = NoAlarm
         /\ DueOf(evs, x) # NoAlarm => DueOf(Passed(evs, n), x) = DueOf(evs, x) - n
<1>1. /\ Passed(evs, n) \in SUBSET Event /\ One(Passed(evs, n))
      /\ Armed(Passed(evs, n), x) <=> Armed(evs, x)
  BY PassedOne
<1>2. NoAlarm \notin Int
  BY RuntimeAssumption
<1>3. CASE ~Armed(evs, x)
  BY <1>1, <1>3, DueOne
<1>4. CASE Armed(evs, x)
  <2>1. PICK e \in evs : e.cb = x
    BY <1>4 DEF Armed
  <2> DEFINE f == [e EXCEPT !.due = @ - n]
  <2>2. f \in Passed(evs, n)
    BY DEF Passed
  <2>3. f.cb = x /\ f.due = e.due - n /\ e.due \in Int
    BY <2>1 DEF Event
  <2> HIDE DEF f
  <2>4. DueOf(evs, x) = e.due
    BY <2>1, DueOne
  <2>5. DueOf(Passed(evs, n), x) = f.due
    BY <1>1, <2>2, <2>3, DueOne
  <2>6. QED
    BY <1>2, <2>3, <2>4, <2>5
<1>5. QED
  BY <1>3, <1>4

\* The alarm of the audio interface leads to its target, and between two
\* dispatches nothing is due.
AlarmInv ==
  /\ DueOf(events, "ai") # NoAlarm => OnTarget(ai, DueOf(events, "ai"))
  /\ ~advancing => \A x \in Callbacks : DueOf(events, x) # NoAlarm => DueOf(events, x) > 0

LEMMA AlarmInvSays == IInv /\ AlarmInv => AlarmOnTarget
<1> SUFFICES ASSUME IInv, AlarmInv, NEW e \in events, e.cb = "ai"
             PROVE  OnTarget(ai, e.due)
  BY DEF AlarmOnTarget, OnTarget, Then, Pending
<1>1. DueOf(events, "ai") = e.due
  BY DueOne DEF IInv, QueueInv
<1>2. e.due # NoAlarm
  BY RuntimeAssumption DEF IInv, QueueInv, Event
<1>3. QED
  BY <1>1, <1>2 DEF AlarmInv

\* What the guest, the host and a reset do to deadlines: each stays, goes or
\* is set for later.
Moved(x) == \/ DueOf(events', x) = DueOf(events, x)
            \/ DueOf(events', x) = NoAlarm
            \/ DueOf(events', x) \in Nat \ {0}

LEMMA MovedInv ==
  ASSUME AlarmInv, ~advancing, advancing' = advancing, \A x \in Callbacks : Moved(x),
         DueOf(events', "ai") # NoAlarm => OnTarget(ai', DueOf(events', "ai"))
  PROVE  AlarmInv'
BY DEF AlarmInv, Moved

\* Setting the alarm of the audio interface.
LEMMA AlarmSet ==
  ASSUME QueueInv, NEW a \in AiRegs, ScheduleAiInterrupt(a),
         a.play => a.age < CyclesPerSample
  PROVE  /\ \A x : Moved(x)
         /\ DueOf(events', "ai") # NoAlarm => OnTarget(a, DueOf(events', "ai"))
<1> DEFINE rest == Cancel(events, "ai")
<1>1. /\ events \in SUBSET Event
      /\ rest \in SUBSET Event /\ One(rest) /\ ~Armed(rest, "ai")
      /\ \A x : x # "ai" => DueOf(rest, x) = DueOf(events, x)
  BY CancelOne, DueOthers DEF QueueInv
<1>2. events' = IF a.play THEN ScheduleAfter(rest, "ai", AlarmDelay(a)) ELSE rest
  BY DEF ScheduleAiInterrupt
<1> HIDE DEF rest
<1>3. "ai" \in Callbacks /\ AlarmDelay(a) \in Nat \ {0} /\ AlarmDelay(a) \in Int
  BY DelayType DEF Callbacks
<1>4. CASE a.play
  <2>1. DueOf(events', "ai") = AlarmDelay(a)
    BY <1>1, <1>2, <1>3, <1>4, DueSet
  <2>2. \A x : x # "ai" => DueOf(events', x) = DueOf(rest, x)
    BY <1>1, <1>2, <1>3, <1>4, DueOthers
  <2>3. OnTarget(a, AlarmDelay(a))
    BY <1>4, DelayThen
  <2>4. QED
    BY <1>1, <1>3, <2>1, <2>2, <2>3 DEF Moved
<1>5. CASE ~a.play
  <2>1. DueOf(events', "ai") = NoAlarm
    BY <1>1, <1>2, <1>5, DueOne
  <2>2. QED
    BY <1>1, <1>2, <1>5, <2>1 DEF Moved
<1>6. QED
  BY <1>4, <1>5

\* What a step of guest, host or reset does to the alarms.
Sets == /\ \A x \in Callbacks : Moved(x)
        /\ DueOf(events', "ai") # NoAlarm => OnTarget(ai', DueOf(events', "ai"))

\* Steps that leave the queue and the audio interface.
LEMMA KeepSets ==
  ASSUME AlarmInv, events' = events, ai' = ai
  PROVE  Sets
BY DEF AlarmInv, Sets, Moved

LEMMA AiOpSets ==
  ASSUME IInv, AlarmInv, AiOp
  PROVE  Sets
<1>1. QueueInv /\ ai \in AiRegs
  BY DEF IInv, RegInv, AudioTypeOK
<1>2. /\ CyclesPerSample \in Nat \ {0} /\ CounterWrap \in Nat \ {0}
      /\ 0 \in Counters /\ 0 \in 0 .. CyclesPerSample * CounterWrap - 1
  BY WrapCycles, AudioAssumption DEF Counters
<1>3. CASE ReadAi
  <2>1. events' = events /\ ai' = Counted(ai)
    BY <1>3 DEF ReadAi
  <2>2. \A x : Moved(x)
    BY <2>1 DEF Moved
  <2>3. DueOf(events, "ai") # NoAlarm =>
          DueOf(events, "ai") \in Int /\ OnTarget(ai, DueOf(events, "ai"))
    BY DueOne, RuntimeAssumption DEF AlarmInv, IInv, QueueInv
  <2>4. QED
    BY <1>1, <2>1, <2>2, <2>3, CountedThen DEF Sets
<1>4. ASSUME NEW play \in BOOLEAN, NEW msk \in BOOLEAN, NEW ack \in BOOLEAN,
             NEW reset \in BOOLEAN, WriteAiControl(play, msk, ack, reset)
      PROVE  Sets
  <2> DEFINE a == Counted(ai)
             b == [a EXCEPT !.play = play, !.mask = msk, !.int = @ /\ ~ack,
                            !.counter = IF reset THEN 0 ELSE @, !.age = 0]
  <2>1. /\ ai' = b
        /\ IF ai.play \/ play THEN ScheduleAiInterrupt(b) ELSE UNCHANGED events
    BY <1>4 DEF WriteAiControl
  <2>2. a \in AiRegs
    BY <1>1, CountedType
  <2> HIDE DEF a
  <2>3. b \in AiRegs /\ b.play = play /\ b.age = 0
    BY <1>2, <2>2 DEF AiRegs
  <2> HIDE DEF b
  <2>4. CASE ai.play \/ play
    <3>1. b.age < CyclesPerSample
      BY <1>2, <2>3
    <3>2. QED
      BY <1>1, <2>1, <2>3, <2>4, <3>1, AlarmSet DEF Sets
  <2>5. CASE ~ai.play /\ ~play
    <3>1. events' = events
      BY <2>1, <2>5
    <3>2. DueOf(events, "ai") = NoAlarm
      BY <2>5 DEF AlarmInv, OnTarget
    <3>3. QED
      BY <3>1, <3>2 DEF Sets, Moved
  <2>6. QED
    BY <2>4, <2>5
<1>5. ASSUME NEW v \in Counters, WriteAiCounter(v) PROVE Sets
  <2> DEFINE b == [ai EXCEPT !.counter = v, !.age = 0]
  <2>1. ai' = b /\ ScheduleAiInterrupt(b)
    BY <1>5 DEF WriteAiCounter
  <2>2. b \in AiRegs /\ b.age = 0
    BY <1>1, <1>2 DEF AiRegs
  <2> HIDE DEF b
  <2>3. b.age < CyclesPerSample
    BY <1>2, <2>2
  <2>4. QED
    BY <1>1, <2>1, <2>2, <2>3, AlarmSet DEF Sets
<1>6. ASSUME NEW v \in Counters, WriteAiTiming(v) PROVE Sets
  <2> DEFINE a == Counted(ai)
             b == [a EXCEPT !.timing = v]
  <2>1. ai' = b /\ ScheduleAiInterrupt(b)
    BY <1>6 DEF WriteAiTiming
  <2>2. a \in AiRegs /\ a.play = ai.play
    BY <1>1, CountedType
  <2>3. ai.play => a.age < CyclesPerSample
    <3>1. ai.age \in Int
      BY <1>1, AiNumbers
    <3>2. ai.age % CyclesPerSample \in 0 .. CyclesPerSample - 1
      BY <1>2, <3>1, ModRange
    <3>3. ai.play => a.age = ai.age % CyclesPerSample
      BY <1>1 DEF Counted, AiRegs
    <3>4. QED
      BY <1>2, <3>2, <3>3
  <2> HIDE DEF a
  <2>4. b \in AiRegs /\ b.play = ai.play /\ b.age = a.age
    BY <2>2 DEF AiRegs
  <2> HIDE DEF b
  <2>5. QED
    BY <1>1, <2>1, <2>3, <2>4, AlarmSet DEF Sets
<1>7. QED
  BY <1>3, <1>4, <1>5, <1>6 DEF AiOp

\* Setting the event of another device, after cancelling or firing it.
LEMMA OtherSets ==
  ASSUME IInv, AlarmInv, ai' = ai, NEW cb \in {"dma", "di"}, NEW n \in Nat \ {0},
         NEW evs \in SUBSET Event, One(evs), ~Armed(evs, cb),
         \A x : x # cb => DueOf(evs, x) = DueOf(events, x),
         events' = ScheduleAfter(evs, cb, n)
  PROVE  Sets /\ DueOf(events', cb) = n
            /\ \A x : x # cb => DueOf(events', x) = DueOf(events, x)
<1>1. cb \in Callbacks /\ cb # "ai" /\ n \in Int
  BY DEF Callbacks
<1>2. DueOf(events', cb) = n
  BY <1>1, DueSet
<1>3. \A x : x # cb => DueOf(events', x) = DueOf(events, x)
  BY <1>1, DueOthers
<1>4. QED
  BY <1>1, <1>2, <1>3 DEF Sets, Moved, AlarmInv

LEMMA CancelSets ==
  ASSUME IInv, AlarmInv, ai' = ai, NEW cb \in {"dma", "di"}, NEW n \in Nat \ {0},
         events' = ScheduleAfter(Cancel(events, cb), cb, n)
  PROVE  Sets
<1> DEFINE rest == Cancel(events, cb)
<1>1. /\ rest \in SUBSET Event /\ One(rest) /\ ~Armed(rest, cb)
      /\ \A x : x # cb => DueOf(rest, x) = DueOf(events, x)
  BY CancelOne, DueOthers DEF IInv, QueueInv
<1> HIDE DEF rest
<1>2. events' = ScheduleAfter(rest, cb, n)
  BY DEF rest
<1>3. QED
  BY <1>1, <1>2, OtherSets

\* The guest, between two dispatches.
LEMMA GuestSets ==
  ASSUME IInv, AlarmInv, Guest
  PROVE  Sets
<1>1. CASE AiOp
  BY <1>1, AiOpSets
<1>2. CASE DmaOp
  <2>1. ai' = ai
    BY <1>2 DEF DmaOp, WriteDspControl, WriteDmaSource, WriteDmaControl
  <2>2. FirstDelay \in Nat \ {0}
    BY AudioAssumption
  <2>3. events' \in {events, ScheduleAfter(Cancel(events, "dma"), "dma", FirstDelay)}
    BY <1>2 DEF DmaOp, WriteDspControl, WriteDmaSource, WriteDmaControl
  <2>4. QED
    BY <2>1, <2>2, <2>3, KeepSets, CancelSets
<1>3. CASE DiOp /\ UNCHANGED audioVars
  <2>1. ai' = ai
    BY <1>3 DEF audioVars
  <2>2. TransferDelay \in Nat \ {0}
    BY DiscAssumption
  <2>3. events' \in {events, ScheduleAfter(Cancel(events, "di"), "di", TransferDelay)}
    BY <1>3 DEF DiOp, WriteStatus, WriteRequest, WriteControl
  <2>4. QED
    BY <2>1, <2>2, <2>3, KeepSets, CancelSets
<1>4. CASE PiOp
  BY <1>4, KeepSets DEF PiOp, audioVars
<1>5. QED
  BY <1>1, <1>2, <1>3, <1>4 DEF Guest

\* Reset leaves no alarm.
LEMMA ResetSets == Reset => Sets
<1> SUFFICES ASSUME Reset PROVE Sets
  OBVIOUS
<1>1. events' = {}
  BY DEF Reset
<1>2. \A x : DueOf(events', x) = NoAlarm
  BY <1>1 DEF DueOf, Earliest, Of
<1>3. QED
  BY <1>2 DEF Sets, Moved

\* An event that is due rings, none before it: its device's deadline goes, or
\* is set for later, and no other changes.
Rings(x) ==
  /\ DueOf(events, x) # NoAlarm /\ DueOf(events, x) <= 0
  /\ \A y : DueOf(events, y) # NoAlarm => DueOf(events, x) <= DueOf(events, y)
  /\ DueOf(events', x) = NoAlarm \/ DueOf(events', x) \in Nat \ {0}
  /\ \A y : y # x => DueOf(events', y) = DueOf(events, y)

LEMMA ReadyRings ==
  ASSUME IInv, NEW e \in events, Ready(e)
  PROVE  /\ e.cb \in Callbacks
         /\ DueOf(events, e.cb) # NoAlarm /\ DueOf(events, e.cb) <= 0
         /\ \A y : DueOf(events, y) # NoAlarm => DueOf(events, e.cb) <= DueOf(events, y)
<1>1. events \in SUBSET Event /\ One(events) /\ NoAlarm \notin Int
  BY RuntimeAssumption DEF IInv, QueueInv
<1>2. e.cb \in Callbacks /\ e.due \in Int
  BY <1>1 DEF Event
<1>3. DueOf(events, e.cb) = e.due
  BY <1>1, DueOne
<1>4. ASSUME NEW y, DueOf(events, y) # NoAlarm PROVE e.due <= DueOf(events, y)
  <2>1. PICK f \in events : f.cb = y
    BY <1>1, <1>4, DueOne DEF Armed
  <2>2. DueOf(events, y) = f.due
    BY <1>1, <2>1, DueOne
  <2>3. QED
    BY <2>2 DEF Ready
<1>5. QED
  BY <1>1, <1>2, <1>3, <1>4 DEF Ready

\* Firing removes the event, or sets the DMA's next.
LEMMA FireRings ==
  ASSUME IInv, AlarmInv, Fire
  PROVE  /\ \E x \in Callbacks : Rings(x)
         /\ AlarmInv'
<1>1. events \in SUBSET Event /\ One(events) /\ advancing' = advancing /\ advancing
  BY DEF Fire, IInv, QueueInv
<1>2. PICK e \in events : \/ (AiFire(e) \/ DmaFire(e)) /\ UNCHANGED discVars
                          \/ DiFire(e) /\ UNCHANGED audioVars
  BY DEF Fire
<1>3. Ready(e)
  BY <1>2 DEF AiFire, DmaFire, DiFire
<1>4. /\ e.cb \in Callbacks
      /\ DueOf(events, e.cb) # NoAlarm /\ DueOf(events, e.cb) <= 0
      /\ \A y : DueOf(events, y) # NoAlarm => DueOf(events, e.cb) <= DueOf(events, y)
  BY <1>3, ReadyRings
<1> DEFINE rest == events \ {e}
<1>5. /\ rest \in SUBSET Event /\ One(rest) /\ ~Armed(rest, e.cb)
      /\ \A y : y # e.cb => DueOf(rest, y) = DueOf(events, y)
  BY <1>1, RemoveOne, DueOthers
<1>6. DueOf(rest, e.cb) = NoAlarm
  BY <1>5, DueOne
<1>7. ai' = ai \/ e.cb = "ai"
  BY <1>2 DEF AiFire, DmaFire, DiFire, audioVars
<1>8. events' = rest \/ (e.cb = "dma" /\ events' = ScheduleAfter(rest, "dma", DmaPeriod))
  BY <1>2 DEF AiFire, DmaFire, DiFire, NextDelay
<1>9. e.cb = "ai" => events' = rest
  BY <1>8
<1> HIDE DEF rest
<1>10. CASE events' = rest
  <2>1. Rings(e.cb)
    BY <1>4, <1>5, <1>6, <1>10 DEF Rings
  <2>2. AlarmInv'
    BY <1>1, <1>5, <1>6, <1>7, <1>10 DEF AlarmInv
  <2>3. QED
    BY <1>4, <2>1, <2>2
<1>11. CASE e.cb = "dma" /\ events' = ScheduleAfter(rest, "dma", DmaPeriod)
  <2>1. DmaPeriod \in Nat \ {0} /\ ai' = ai
    BY <1>7, <1>11, AudioAssumption
  <2>2. Sets /\ DueOf(events', "dma") = DmaPeriod
          /\ \A y : y # "dma" => DueOf(events', y) = DueOf(events, y)
    BY <1>5, <1>11, <2>1, OtherSets
  <2>3. Rings(e.cb)
    BY <1>4, <1>11, <2>1, <2>2 DEF Rings
  <2>4. AlarmInv'
    BY <1>1, <2>2 DEF AlarmInv, Sets
  <2>5. QED
    BY <1>4, <2>3, <2>4
<1>12. QED
  BY <1>8, <1>10, <1>11

\* Cycles pass for the counter and for the queue.
LEMMA AdvanceAlarm ==
  ASSUME IInv, AlarmInv, NEW n \in Charges, Advance(n)
  PROVE  /\ \A x : DueOf(events', x) = IF DueOf(events, x) # NoAlarm
                                       THEN DueOf(events, x) - n ELSE NoAlarm
         /\ AlarmInv'
<1>1. /\ events' = Passed(events, n) /\ ai' = Aged(ai, n) /\ advancing'
      /\ events \in SUBSET Event /\ One(events) /\ ai \in AiRegs
  BY DEF Advance, IInv, QueueInv, RegInv, AudioTypeOK
<1>2. n \in Nat /\ n \in Int /\ NoAlarm \notin Int
  BY ChargesAssumption, RuntimeAssumption
<1>3. \A x : DueOf(events', x) = IF DueOf(events, x) # NoAlarm
                                 THEN DueOf(events, x) - n ELSE NoAlarm
  BY <1>1, <1>2, DuePassed
<1>4. CASE DueOf(events, "ai") # NoAlarm
  <2> DEFINE d == DueOf(events, "ai")
  <2>1. d \in Int /\ OnTarget(ai, d)
    BY <1>1, <1>4, DueOne DEF AlarmInv
  <2>2. OnTarget(ai', d - n)
    BY <1>1, <1>2, <2>1, AgedThen
  <2>3. QED
    BY <1>1, <1>3, <1>4, <2>2 DEF AlarmInv
<1>5. CASE DueOf(events, "ai") = NoAlarm
  BY <1>1, <1>3, <1>5 DEF AlarmInv
<1>6. QED
  BY <1>3, <1>4, <1>5

\* When Advance returns nothing is due.
LEMMA ReturnAlarm ==
  ASSUME IInv, AlarmInv, AdvanceReturn
  PROVE  AlarmInv'
<1>1. /\ events' = events /\ ai' = ai /\ NoneDue
      /\ events \in SUBSET Event /\ One(events)
  BY DEF AdvanceReturn, audioVars, IInv, QueueInv
<1>2. ASSUME NEW x, DueOf(events, x) # NoAlarm PROVE DueOf(events, x) > 0
  <2>1. PICK f \in events : f.cb = x
    BY <1>1, <1>2, DueOne DEF Armed
  <2>2. DueOf(events, x) = f.due
    BY <1>1, <2>1, DueOne
  <2>3. QED
    BY <1>1, <2>2 DEF NoneDue
<1>3. QED
  BY <1>1, <1>2 DEF AlarmInv

LEMMA InsertSets ==
  ASSUME IInv, AlarmInv, NEW s \in BOOLEAN, Insert(s)
  PROVE  Sets
BY KeepSets DEF Insert, SetSource, audioVars

LEMMA NextAlarm == IInv /\ AlarmInv /\ program \in Programs /\ [Next]_vars => AlarmInv'
<1> SUFFICES ASSUME IInv, AlarmInv, program \in Programs, [Next]_vars PROVE AlarmInv'
  OBVIOUS
<1>1. ASSUME Sets, ~advancing, advancing' = advancing PROVE AlarmInv'
  BY <1>1, MovedInv DEF Sets
<1>2. CASE Guest
  BY <1>1, <1>2, GuestSets DEF Guest
<1>3. CASE Reset
  BY <1>1, <1>3, ResetSets DEF Reset
<1>4. ASSUME NEW s \in BOOLEAN, Insert(s) PROVE AlarmInv'
  BY <1>1, <1>4, InsertSets DEF Insert
<1>5. ASSUME NEW n \in program.charges, Advance(n) PROVE AlarmInv'
  BY <1>5, AdvanceAlarm, ProgramUses
<1>6. CASE Fire
  BY <1>6, FireRings
<1>7. CASE AdvanceReturn
  BY <1>7, ReturnAlarm
<1>8. CASE UNCHANGED vars
  <2>1. events' = events /\ ai' = ai /\ advancing' = advancing
    BY <1>8 DEF vars, audioVars
  <2>2. QED
    BY <2>1 DEF AlarmInv
<1>9. QED
  BY <1>2, <1>3, <1>4, <1>5, <1>6, <1>7, <1>8 DEF Next

LEMMA InitAlarm == Init => AlarmInv
<1> SUFFICES ASSUME Init PROVE AlarmInv
  OBVIOUS
<1>1. events = {}
  BY DEF Init
<1>2. \A x : DueOf(events, x) = NoAlarm
  BY <1>1 DEF DueOf, Earliest, Of
<1>3. QED
  BY <1>2 DEF AlarmInv

-----------------------------------------------------------------------------
(* The alarms of the abstract specification.                               *)

\* Its variable, and what its definitions say of it.
Deadlines(evs) == [x \in Callbacks |-> DueOf(evs, x)]

LEMMA DeadlineDefs ==
  /\ [x \in Callbacks |-> Deadline(x)] = Deadlines(events)
  /\ [x \in Callbacks |-> Deadline(x)]' = Deadlines(events')
<1>1. /\ \A x : Deadline(x) = DueOf(events, x)
      /\ \A x : Deadline(x)' = DueOf(events', x)
  BY DueDefs
<1>2. QED
  BY <1>1 DEF Deadlines

LEMMA InitMaps == Init => Alarm!Init
<1> SUFFICES ASSUME Init PROVE Alarm!Init
  OBVIOUS
<1>1. events = {}
  BY DEF Init
<1>2. \A x : DueOf(events, x) = NoAlarm
  BY <1>1 DEF DueOf, Earliest, Of
<1>3. QED
  BY <1>2, DeadlineDefs DEF Alarm!Init, Deadlines

\* A step that sets alarms while none is due is a Change.
LEMMA SetsMaps ==
  ASSUME IInv, AlarmInv, ~advancing, Sets
  PROVE  Alarm!Change
<1> DEFINE d == Deadlines(events)
           e == Deadlines(events')
<1>1. /\ [x \in Callbacks |-> Deadline(x)] = d
      /\ [x \in Callbacks |-> Deadline(x)]' = e
  BY DeadlineDefs
<1>2. \A x \in Callbacks : d[x] = DueOf(events, x) /\ e[x] = DueOf(events', x)
  BY DEF Deadlines
<1>3. e = [x \in Callbacks |-> e[x]]
  BY DEF Deadlines
<1> HIDE DEF d, e
<1>4. \A x \in Callbacks : ~(d[x] # NoAlarm /\ d[x] <= 0)
  <2>1. \A x \in Callbacks : d[x] # NoAlarm => d[x] > 0
    BY <1>2 DEF AlarmInv
  <2>2. \A x \in Callbacks : d[x] # NoAlarm => d[x] \in Int
    BY <1>2, DueOne DEF IInv, QueueInv
  <2>3. QED
    BY <2>1, <2>2
<1>5. \A x \in Callbacks : \/ e[x] = d[x] \/ e[x] = NoAlarm \/ e[x] \in Nat \ {0}
  BY <1>2 DEF Sets, Moved
<1>6. QED
  BY <1>1, <1>3, <1>4, <1>5 DEF Alarm!Change, Alarm!Overdue, Alarm!Set

LEMMA RingsMaps ==
  ASSUME NEW x \in Callbacks, Rings(x)
  PROVE  Alarm!Ring(x)
<1> DEFINE d == Deadlines(events)
           e == Deadlines(events')
<1>1. /\ [y \in Callbacks |-> Deadline(y)] = d
      /\ [y \in Callbacks |-> Deadline(y)]' = e
  BY DeadlineDefs
<1>2. \A y \in Callbacks : d[y] = DueOf(events, y) /\ e[y] = DueOf(events', y)
  BY DEF Deadlines
<1>3. e = [d EXCEPT ![x] = e[x]]
  <2>1. \A y \in Callbacks : y # x => e[y] = d[y]
    BY <1>2 DEF Rings
  <2>2. d = [y \in Callbacks |-> d[y]] /\ e = [y \in Callbacks |-> e[y]]
    BY DEF Deadlines
  <2> HIDE DEF d, e
  <2>3. QED
    BY <2>1, <2>2
<1> HIDE DEF d, e
<1>4. /\ d[x] # NoAlarm /\ d[x] <= 0
      /\ \A y \in Callbacks : d[y] # NoAlarm => d[x] <= d[y]
      /\ e[x] = NoAlarm \/ e[x] \in Nat \ {0}
  BY <1>2 DEF Rings
<1>5. QED
  BY <1>1, <1>3, <1>4 DEF Alarm!Ring, Alarm!Overdue, Alarm!Set

LEMMA AdvanceMaps ==
  ASSUME IInv, AlarmInv, NEW n \in Charges, Advance(n)
  PROVE  Alarm!Pass(n)
<1> DEFINE d == Deadlines(events)
           e == Deadlines(events')
<1>1. /\ [y \in Callbacks |-> Deadline(y)] = d
      /\ [y \in Callbacks |-> Deadline(y)]' = e
  BY DeadlineDefs
<1>2. \A x \in Callbacks : d[x] = DueOf(events, x) /\ e[x] = DueOf(events', x)
  BY DEF Deadlines
<1>3. \A x : DueOf(events', x) = IF DueOf(events, x) # NoAlarm
                                 THEN DueOf(events, x) - n ELSE NoAlarm
  BY AdvanceAlarm
<1>4. e = [x \in Callbacks |-> IF d[x] # NoAlarm THEN d[x] - n ELSE NoAlarm]
  BY <1>2, <1>3 DEF Deadlines
<1> HIDE DEF d, e
<1>5. \A x \in Callbacks : ~(d[x] # NoAlarm /\ d[x] <= 0)
  <2>1. \A x \in Callbacks : d[x] # NoAlarm => d[x] > 0
    BY <1>2 DEF AlarmInv, Advance
  <2>2. \A x \in Callbacks : d[x] # NoAlarm => d[x] \in Int
    BY <1>2, DueOne DEF IInv, QueueInv
  <2>3. QED
    BY <2>1, <2>2
<1>6. QED
  BY <1>1, <1>4, <1>5 DEF Alarm!Pass, Alarm!Overdue, Alarm!Set

\* The queue is untouched.
LEMMA KeptMaps ==
  ASSUME events' = events
  PROVE  [x \in Callbacks |-> Deadline(x)]' = [x \in Callbacks |-> Deadline(x)]
BY DeadlineDefs

LEMMA NextMaps ==
  ASSUME IInv, AlarmInv, program \in Programs, [Next]_vars
  PROVE  [Alarm!Next]_[x \in Callbacks |-> Deadline(x)]
<1>1. CASE Guest
  <2>1. Alarm!Change
    BY <1>1, GuestSets, SetsMaps DEF Guest
  <2>2. QED
    BY <2>1 DEF Alarm!Next
<1>2. CASE Reset
  <2>1. Alarm!Change
    BY <1>2, ResetSets, SetsMaps DEF Reset
  <2>2. QED
    BY <2>1 DEF Alarm!Next
<1>3. ASSUME NEW s \in BOOLEAN, Insert(s) PROVE events' = events
  BY <1>3 DEF Insert, SetSource
<1>4. ASSUME NEW n \in program.charges, Advance(n) PROVE Alarm!Next
  <2>1. n \in Charges
    BY ProgramUses
  <2>2. Alarm!Pass(n)
    BY <1>4, <2>1, AdvanceMaps
  <2>3. QED
    BY <2>1, <2>2 DEF Alarm!Next
<1>5. CASE Fire
  <2>1. PICK x \in Callbacks : Rings(x)
    BY <1>5, FireRings
  <2>2. Alarm!Ring(x)
    BY <2>1, RingsMaps
  <2>3. QED
    BY <2>2 DEF Alarm!Next
<1>6. CASE AdvanceReturn \/ UNCHANGED vars
  BY <1>6, KeptMaps DEF AdvanceReturn, vars
<1>7. QED
  BY <1>1, <1>2, <1>3, <1>4, <1>5, <1>6, KeptMaps DEF Next
-----------------------------------------------------------------------------
(* The results.                                                            *)

\* The program is chosen once.
LEMMA ProgramKept == Spec => [](program \in Programs)
<1>1. Init => program \in Programs
  BY DEF Init
<1>2. program \in Programs /\ [Next]_vars => (program \in Programs)'
  BY DEF Next, vars
<1>3. QED
  BY <1>1, <1>2, PTL DEF Spec

\* IInv is an inductive invariant of the devices.
THEOREM DevicesIInv == Spec => []IInv
BY InitIInv, NextIInv, ProgramKept, PTL DEF Spec

\* The registers, the queue and the processor interface are well typed.
THEOREM DevicesTyped == Spec => []TypeOK
BY DevicesIInv, ProgramKept, IInvParts, PTL

\* No device ever has two events pending, or one whose id it has lost.
THEOREM NeverTwoPending == Spec => []OnePending
BY DevicesIInv, IInvParts, PTL

\* A device the guest waits for always has its event pending.
THEOREM BusyAlwaysArmed == Spec => []BusyIsArmed
BY DevicesIInv, IInvParts, PTL

\* Interrupt causes, their devices and the CPU's interrupt agree.
THEOREM LinesAlwaysAgree == Spec => []LinesAgree
BY DevicesIInv, IInvParts, PTL

\* The buffer under play is the one programmed when it began.
THEOREM BufferAlwaysKept == Spec => []BufferKept
BY DevicesIInv, IInvParts, PTL

\* The step that sets the end-of-buffer interrupt hands over the last block.
LEMMA EndStep ==
  ASSUME IInv, program \in Programs, [Next]_vars, ~dma.int, dma'.int
  PROVE  dma.off + 1 >= latch.count
<1>1. dma \in DmaRegs /\ dma.off + dma.remaining = latch.count
  BY DEF IInv, RegInv, AudioTypeOK, BufferKept
<1>2. ASSUME NEW e \in events, DmaFire(e) PROVE dma.off + 1 >= latch.count
  <2>1. dma' # dma
    OBVIOUS
  <2>2. dma.on
    BY <1>2, <2>1 DEF DmaFire
  <2>3. dma' # Advanced(dma)
    BY AdvancedType
  <2>4. Advanced(dma).remaining = 0
    BY <1>2, <2>2, <2>3 DEF DmaFire
  <2>5. CASE dma.remaining > 0
    <3>1. Advanced(dma).remaining = dma.remaining - 1
      BY <1>1, <2>5 DEF Advanced, DmaRegs
    <3>2. QED
      BY <1>1, <2>4, <3>1 DEF DmaRegs, Blocks
  <2>6. CASE ~(dma.remaining > 0)
    BY <1>1, <2>6 DEF DmaRegs, Blocks
  <2>7. QED
    BY <2>5, <2>6
<1>3. ASSUME dma' = dma PROVE FALSE
  BY <1>3
<1>4. CASE Guest
  <2>1. CASE AiOp \/ (DiOp /\ UNCHANGED audioVars) \/ PiOp
    BY <1>3, <2>1 DEF AiOp, ReadAi, WriteAiControl, WriteAiCounter, WriteAiTiming, PiOp,
       audioVars
  <2>2. ASSUME NEW ack \in BOOLEAN, NEW msk \in BOOLEAN, WriteDspControl(ack, msk)
        PROVE  FALSE
    BY <1>1, <2>2 DEF WriteDspControl, DmaRegs
  <2>3. ASSUME NEW b \in Bases, WriteDmaSource(b) PROVE FALSE
    BY <1>1, <2>3 DEF WriteDmaSource, DmaRegs
  <2>4. ASSUME NEW on \in BOOLEAN, NEW n \in Blocks, WriteDmaControl(on, n) PROVE FALSE
    BY <1>1, <2>4 DEF WriteDmaControl, Restarted, DmaRegs
  <2>5. CASE DmaOp
    BY <2>2, <2>3, <2>4, <2>5, ProgramUses, Zenon DEF DmaOp
  <2>6. QED
    BY <1>4, <2>1, <2>5 DEF Guest
<1>5. CASE Fire
  BY <1>2, <1>3, <1>5 DEF Fire, AiFire, audioVars
<1>6. CASE Reset
  BY <1>6 DEF Reset, DmaReset
<1>7. QED
  BY <1>3, <1>4, <1>5, <1>6
  DEF Next, Insert, SetSource, Advance, AdvanceReturn, audioVars, vars

\* The end-of-buffer interrupt comes only with the last block of a buffer.
THEOREM InterruptOnlyAtEnd == Spec => InterruptAtEnd
<1>1. IInv /\ program \in Programs /\ [Next]_vars =>
        [~dma.int /\ dma'.int => dma.off + 1 >= latch.count]_vars
  BY EndStep
<1>2. QED
  BY <1>1, DevicesIInv, ProgramKept, PTL DEF Spec, InterruptAtEnd

LEMMA AlarmAlways == Spec => []AlarmInv
BY InitAlarm, NextAlarm, DevicesIInv, ProgramKept, PTL DEF Spec

\* When the alarm of the audio interface is due its counter is at its target, or
\* one past it when it was there already: whatever reads, writes and restarts
\* came between, and wherever counter and age wrapped.
THEOREM AlarmAlwaysOnTarget == Spec => []AlarmOnTarget
BY AlarmAlways, DevicesIInv, AlarmInvSays, PTL

\* The scheduler and its devices implement one alarm for each device: what time
\* reaches rings once, the earliest first, before the guest runs on, and what was
\* cancelled or superseded never does.
THEOREM ImplementsAlarms == Spec => AlarmSpec
<1>1. IInv /\ AlarmInv /\ program \in Programs /\ [Next]_vars =>
        [Alarm!Next]_[x \in Callbacks |-> Deadline(x)]
  BY NextMaps
<1>2. QED
  BY <1>1, InitMaps, AlarmAlways, DevicesIInv, ProgramKept, PTL
  DEF Spec, AlarmSpec, Alarm!Spec
=============================================================================
