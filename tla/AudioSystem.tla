---------------------------- MODULE AudioSystem ----------------------------
(***************************************************************************)
(* The audio interface (a sample counter and its alarm) and the DSP's      *)
(* audio DMA (audio_system.cpp).  Registers are kept to the bits the code  *)
(* acts on.  age is m_scheduler.GetTicks() - m_last_ai_tick, modulo the    *)
(* cycles in which the counter wraps; while the interface is stopped       *)
(* nothing reads it before it is set again, and it is kept at 0.           *)
(***************************************************************************)
EXTENDS EventScheduler, ProcessorInterface

CONSTANTS
  CyclesPerSample,  \* AiCyclesPerSample
  CounterWrap,      \* 2^32: sample counters are u32
  FirstDelay,       \* 200: from the enable to the first block
  DmaPeriod,        \* AudioDmaPeriod
  MaxBlocks,        \* 0x7FFF: the largest block count
  Bases             \* buffer addresses

ASSUME AudioAssumption ==
  /\ {CyclesPerSample, CounterWrap, FirstDelay, DmaPeriod} \subseteq Nat \ {0}
  /\ MaxBlocks \in Nat /\ Bases # {}

VARIABLES
  ai,     \* PSTAT, AIINTMSK, AIINT of m_ai_control; counter, timing, age
  dma,    \* AID and its mask of m_dsp_control; m_dma_control (on, count),
          \* m_dma_source, m_current_source (base, off), m_remaining_blocks
  latch   \* history: the buffer now played, as programmed when it began

audioVars == <<ai, dma, latch>>

Counters == 0 .. CounterWrap - 1
Blocks   == 0 .. MaxBlocks

AiRegs  == [play: BOOLEAN, mask: BOOLEAN, int: BOOLEAN, counter: Counters,
            timing: Counters, age: 0 .. CyclesPerSample * CounterWrap - 1]
DmaRegs == [int: BOOLEAN, mask: BOOLEAN, on: BOOLEAN, count: Blocks,
            source: Bases, base: Bases, off: Blocks, remaining: Blocks]

AudioTypeOK ==
  /\ ai \in AiRegs /\ dma \in DmaRegs
  /\ latch \in [base: Bases, count: Blocks]

NoBase == CHOOSE b \in Bases : TRUE   \* address 0, the registers' reset value

AiReset  == [play |-> FALSE, mask |-> FALSE, int |-> FALSE, counter |-> 0,
             timing |-> 0, age |-> 0]
DmaReset == [int |-> FALSE, mask |-> FALSE, on |-> FALSE, count |-> 0,
             source |-> NoBase, base |-> NoBase, off |-> 0, remaining |-> 0]

AiLine(a)  == a.int /\ a.mask
DspLine(m) == m.int /\ m.mask

-----------------------------------------------------------------------------
(* The sample counter and its alarm.                                       *)

\* UpdateAiCounter
Counted(a) ==
  IF a.play
    THEN [a EXCEPT !.counter = (@ + a.age \div CyclesPerSample) % CounterWrap,
                   !.age = @ % CyclesPerSample]
    ELSE a

\* Time passes.
Aged(a, n) ==
  IF a.play THEN [a EXCEPT !.age = (@ + n) % (CyclesPerSample * CounterWrap)] ELSE a

\* A counter at its target is given one more sample.
AlarmDelay(a) ==
  LET samples == (a.timing - a.counter) % CounterWrap IN
  IF samples = 0 THEN CyclesPerSample ELSE samples * CyclesPerSample

ScheduleAiInterrupt(a) ==
  events' = IF a.play THEN ScheduleAfter(Cancel(events, "ai"), "ai", AlarmDelay(a))
                      ELSE Cancel(events, "ai")

\* Reading any register, or writing the volume.
ReadAi ==
  /\ ai' = Counted(ai)
  /\ UNCHANGED <<events, dma, latch, piVars>>

\* Mutant of WriteAiControl: the alarm is set only when play starts or stops.
WriteAiControlOnChange(play, msk, ack, reset) ==
  LET a == Counted(ai)
      b == [a EXCEPT !.play = play, !.mask = msk, !.int = @ /\ ~ack,
                     !.counter = IF reset THEN 0 ELSE @, !.age = 0] IN
  /\ ai' = b
  /\ IF ai.play # play THEN ScheduleAiInterrupt(b) ELSE UNCHANGED events
  /\ SetInterrupt("ai", AiLine(b))
  /\ UNCHANGED <<dma, latch>>

WriteAiControl(play, msk, ack, reset) ==
  LET a == Counted(ai)
      b == [a EXCEPT !.play = play, !.mask = msk, !.int = @ /\ ~ack,
                     !.counter = IF reset THEN 0 ELSE @, !.age = 0] IN
  /\ ai' = b
  /\ IF ai.play \/ play THEN ScheduleAiInterrupt(b) ELSE UNCHANGED events
  /\ SetInterrupt("ai", AiLine(b))
  /\ UNCHANGED <<dma, latch>>

WriteAiCounter(v) ==
  LET b == [ai EXCEPT !.counter = v, !.age = 0] IN
  /\ ai' = b
  /\ ScheduleAiInterrupt(b)
  /\ UNCHANGED <<dma, latch, piVars>>

\* Mutant of WriteAiTiming: the alarm stays where the old target put it.
WriteAiTimingOnly(v) ==
  /\ ai' = [Counted(ai) EXCEPT !.timing = v]
  /\ UNCHANGED <<events, dma, latch, piVars>>

WriteAiTiming(v) ==
  LET b == [Counted(ai) EXCEPT !.timing = v] IN
  /\ ai' = b
  /\ ScheduleAiInterrupt(b)
  /\ UNCHANGED <<dma, latch, piVars>>

\* The alarm's callback.
AiFire(e) ==
  /\ Ready(e) /\ e.cb = "ai"
  /\ LET b == [Counted(ai) EXCEPT !.int = TRUE] IN
       ai' = b /\ SetInterrupt("ai", AiLine(b))
  /\ events' = events \ {e}
  /\ UNCHANGED <<dma, latch>>

-----------------------------------------------------------------------------
(* The audio DMA.                                                          *)

WriteDspControl(ack, msk) ==
  LET m == [dma EXCEPT !.int = @ /\ ~ack, !.mask = msk] IN
  /\ dma' = m
  /\ SetInterrupt("dsp", DspLine(m))
  /\ UNCHANGED <<events, ai, latch>>

\* Mutant of WriteDmaSource: the buffer under play moves too.
WriteDmaSourceLive(b) ==
  /\ dma' = [dma EXCEPT !.source = b, !.base = b]
  /\ UNCHANGED <<events, ai, latch, piVars>>

\* Either half of the address.
WriteDmaSource(b) ==
  /\ dma' = [dma EXCEPT !.source = b]
  /\ UNCHANGED <<events, ai, latch, piVars>>

\* Mutant of Restarted: the count the guest reads back, one less.
RestartedShort(m) == [m EXCEPT !.base = m.source, !.off = 0,
                              !.remaining = IF m.count > 0 THEN m.count - 1 ELSE 0]

\* The buffer's address and length are taken over when play begins or begins
\* again, not when they are written.
Restarted(m) == [m EXCEPT !.base = m.source, !.off = 0, !.remaining = m.count]
LatchOf(m)   == [base |-> m.source, count |-> m.count]

\* Disabling leaves the pending block to be refused when it is due.
WriteDmaControl(on, count) ==
  LET m == [dma EXCEPT !.on = on, !.count = count] IN
  /\ IF on /\ ~dma.on
       THEN /\ dma' = Restarted(m)
            /\ events' = ScheduleAfter(Cancel(events, "dma"), "dma", FirstDelay)
            /\ latch' = LatchOf(m)
       ELSE /\ dma' = m
            /\ UNCHANGED <<events, latch>>
  /\ UNCHANGED <<ai, piVars>>

\* Mutant of Advanced: the count goes below zero.
AdvancedUnchecked(m) == [m EXCEPT !.off = @ + 1, !.remaining = @ - 1]

\* One block has been handed to the sink.
Advanced(m) == IF m.remaining > 0
                 THEN [m EXCEPT !.off = @ + 1, !.remaining = @ - 1] ELSE m

\* Mutant of NextDelay: a buffer follows the one before it at once.
NextDelayNone == IF dma.remaining <= 1 THEN 0 ELSE DmaPeriod

NextDelay == DmaPeriod

\* The block's callback, TransferDmaBlock.
DmaFire(e) ==
  /\ Ready(e) /\ e.cb = "dma"
  /\ IF ~dma.on
       THEN /\ events' = events \ {e}
            /\ UNCHANGED <<dma, latch, piVars>>
       ELSE LET m == Advanced(dma) IN
            /\ events' = ScheduleAfter(events \ {e}, "dma", NextDelay)
            /\ IF m.remaining = 0
                 THEN LET n == [Restarted(m) EXCEPT !.int = TRUE] IN
                      /\ dma' = n /\ latch' = LatchOf(m)
                      /\ SetInterrupt("dsp", DspLine(n))
                 ELSE /\ dma' = m
                      /\ UNCHANGED <<latch, piVars>>
  /\ UNCHANGED ai
=============================================================================
