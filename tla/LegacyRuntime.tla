--------------------------- MODULE LegacyRuntime ---------------------------
(***************************************************************************)
(* The devices of the legacy runtime together (legacy_runtime.cpp): they   *)
(* share the event queue and the processor interface.  One thread runs     *)
(* guest code, which reads and writes registers, then charges its cycles;  *)
(* Advance runs the callbacks that are due; then the guest runs again.     *)
(***************************************************************************)
EXTENDS AudioSystem, DiscInterface

CONSTANTS
  Programs,  \* guest programs: the devices each uses, the values it
             \* writes and the cycles its dispatches charge
  NoAlarm    \* no time

VARIABLE program  \* the program that runs; it is chosen once

ASSUME RuntimeAssumption ==
  /\ Programs \subseteq [uses : SUBSET Callbacks, masks : SUBSET SUBSET Lines,
                     bases : SUBSET Bases, blocks : SUBSET Blocks,
                     charges : SUBSET Charges]
  /\ NoAlarm \notin Int

vars == <<program, events, advancing, piVars, audioVars, discVars>>

TypeOK ==
  /\ program \in Programs
  /\ events \subseteq Event /\ advancing \in BOOLEAN
  /\ PiTypeOK /\ AudioTypeOK /\ DiscTypeOK

Init ==
  /\ program \in Programs
  /\ events = {} /\ advancing = FALSE
  /\ cause = {} /\ mask = {} /\ exception = FALSE /\ acked = {}
  /\ ai = AiReset /\ dma = DmaReset
  /\ latch = [base |-> NoBase, count |-> 0]
  /\ di = DiReset /\ source = FALSE

-----------------------------------------------------------------------------
AiOp ==
  \/ ReadAi
  \/ \E play, msk, ack, reset \in BOOLEAN : WriteAiControl(play, msk, ack, reset)
  \/ \E v \in Counters : WriteAiCounter(v) \/ WriteAiTiming(v)

DmaOp ==
  \/ \E ack, msk \in BOOLEAN : WriteDspControl(ack, msk)
  \/ \E b \in program.bases : WriteDmaSource(b)
  \/ \E on \in BOOLEAN, n \in program.blocks : WriteDmaControl(on, n)

DiOp ==
  \/ \E ackTc, ackErr, setMask \in BOOLEAN : WriteStatus(ackTc, ackErr, setMask)
  \/ \E b \in BOOLEAN : WriteRequest(b) \/ WriteControl(b)

PiOp ==
  /\ (\E bits \in SUBSET Lines : WriteCause(bits)) \/ (\E m \in program.masks : WriteMask(m))
  /\ UNCHANGED <<events, audioVars, discVars>>

\* Guest code reads or writes a register.
Guest ==
  /\ ~advancing
  /\ \/ "ai" \in program.uses /\ AiOp /\ UNCHANGED discVars
     \/ "dma" \in program.uses /\ DmaOp /\ UNCHANGED discVars
     \/ "di" \in program.uses /\ DiOp /\ UNCHANGED audioVars
     \/ PiOp
  /\ UNCHANGED advancing

\* The host inserts or removes a disc.
Insert(s) ==
  /\ ~advancing /\ "di" \in program.uses
  /\ SetSource(s)
  /\ UNCHANGED <<advancing, audioVars>>

Reset ==
  /\ ~advancing
  /\ events' = {}
  /\ PiReset
  /\ ai' = AiReset /\ dma' = DmaReset /\ di' = DiReset
  /\ latch' = [base |-> NoBase, count |-> 0]
  /\ UNCHANGED <<advancing, source>>

\* A dispatch charged n cycles: Run enters Advance.
Advance(n) ==
  /\ ~advancing
  /\ advancing' = TRUE
  /\ events' = Passed(events, n)
  /\ ai' = Aged(ai, n)
  /\ UNCHANGED <<piVars, dma, latch, discVars>>

Fire ==
  /\ advancing
  /\ \E e \in events : \/ (AiFire(e) \/ DmaFire(e)) /\ UNCHANGED discVars
                       \/ DiFire(e) /\ UNCHANGED audioVars
  /\ UNCHANGED advancing

AdvanceReturn ==
  /\ advancing /\ NoneDue
  /\ advancing' = FALSE
  /\ UNCHANGED <<events, piVars, audioVars, discVars>>

Next ==
  /\ \/ Guest \/ Reset \/ (\E s \in BOOLEAN : Insert(s))
     \/ \E n \in program.charges : Advance(n)
     \/ Fire \/ AdvanceReturn
  /\ UNCHANGED program

\* The thread inside Advance keeps running; guest code need not.
Spec == Init /\ [][Next]_vars /\ WF_vars((Fire \/ AdvanceReturn) /\ UNCHANGED program)

-----------------------------------------------------------------------------
(* Properties.                                                             *)

\* A device has at most one pending event and holds its id: a second one could
\* not be cancelled and would complete work that was superseded or reset.
OnePending ==
  \A e \in events : e.held /\ \A f \in events : f.cb = e.cb => f = e

\* A device the guest waits for has its event pending: an audio interface that
\* plays and whose interrupt is not already set, an enabled DMA, a disc whose
\* start bit is set.
BusyIsArmed ==
  /\ ai.play /\ ~ai.int => Pending("ai") # {}
  /\ dma.on             => Pending("dma") # {}
  /\ di.start           => Pending("di") # {}

\* However often the counter was read, set or restarted since the alarm was
\* scheduled, the counter will stand at its target when the alarm is due (one
\* past it when it was there already).
AlarmOnTarget ==
  \A e \in Pending("ai") :
    LET due == (ai.counter + (ai.age + e.due) \div CyclesPerSample) % CounterWrap IN
    ai.play /\ due \in {ai.timing, (ai.timing + 1) % CounterWrap}

\* A cause is set only while its device asserts it; a device that asserts one
\* is seen unless the guest cleared it since; the CPU's interrupt is up exactly
\* when an unmasked cause is.
Asserted(line) == CASE line = "ai"  -> AiLine(ai)
                    [] line = "dsp" -> DspLine(dma)
                    [] line = "di"  -> DiLine(di)

LinesAgree ==
  /\ \A line \in Lines : line \in cause => Asserted(line)
  /\ \A line \in Lines : Asserted(line) /\ line \notin cause => line \in acked
  /\ exception <=> cause \cap mask # {}

\* The DMA plays each buffer as it was programmed when it began, in order and
\* to its end, whatever the guest writes meanwhile.
BufferKept ==
  /\ dma.base = latch.base
  /\ dma.off + dma.remaining = latch.count

\* The end-of-buffer interrupt comes with the last block of a buffer.
InterruptAtEnd ==
  [][~dma.int /\ dma'.int => dma.off + 1 >= latch.count]_vars

\* Advance returns although callbacks schedule events while it runs.
AdvanceReturns == advancing ~> ~advancing

\* The queue and the devices implement one alarm for each device.
Deadline(x) ==
  IF Pending(x) = {} THEN NoAlarm
  ELSE LET e == CHOOSE e \in Pending(x) : \A f \in Pending(x) : e.due <= f.due IN e.due

Alarm == INSTANCE Alarms WITH Devices <- Callbacks, Never <- NoAlarm,
           deadline <- [x \in Callbacks |-> Deadline(x)]

AlarmSpec == Alarm!Spec
=============================================================================
