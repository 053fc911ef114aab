---------------------------- MODULE AudioOutput ----------------------------
(***************************************************************************)
(* SdlAudioOutput: the DMA sink on the emulation thread feeds the ring,    *)
(* the SDL callback thread drains it, and both keep frame counters from    *)
(* which the callback trims the playback rate.                             *)
(*                                                                         *)
(* SDL is external: the stream opens paused, resuming it starts callbacks, *)
(* destroying it waits for a running callback and ends them.  The          *)
(* statistics counters (dropped, underruns, callbacks) are left out.       *)
(***************************************************************************)
EXTENDS SpscRing

CONSTANT FillTarget    \* kFillTargetFrames

ASSUME FillAssumption == FillTarget \in 1..Capacity

VARIABLES
  stream,     \* m_stream: "closed", "paused" or "running"
  started,    \* m_device_started
  sink,       \* the sink: "none" (detached), or where the emulation thread is
  cb,         \* where the callback thread is in Consume
  produced,   \* m_produced
  consumed,   \* m_consumed
  depth,      \* the depth the last trim was computed from
  served      \* history: a callback has run since the device was opened

deviceVars == <<stream, started, served>>
countVars  == <<produced, consumed, depth>>
vars == <<ringVars, deviceVars, sink, cb, countVars>>

TypeOK ==
  /\ RingTypeOK
  /\ stream \in {"closed", "paused", "running"}
  /\ started \in BOOLEAN /\ served \in BOOLEAN
  /\ sink \in {"none", "idle", "push", "count", "resume"}
  /\ cb \in {"idle", "pop", "count", "trim"}
  /\ produced \in 0..Wrap-1 /\ consumed \in 0..Wrap-1 /\ depth \in 0..Wrap-1

Init ==
  /\ RingInit
  /\ stream = "closed" /\ started = FALSE /\ served = FALSE
  /\ sink = "none" /\ cb = "idle"
  /\ produced = 0 /\ consumed = 0 /\ depth = 0

-----------------------------------------------------------------------------
(* The emulation thread.                                                   *)

\* Start: a failure to open the device changes nothing.
Start ==
  /\ stream = "closed"
  /\ stream' = "paused" /\ started' = FALSE /\ served' = FALSE
  /\ sink' = "idle"
  /\ UNCHANGED <<ringVars, cb, countVars>>

\* Stop: the sink goes first, so no block follows the stream's end.
StopDetach ==
  /\ sink = "idle"
  /\ sink' = "none"
  /\ UNCHANGED <<ringVars, deviceVars, cb, countVars>>

StopDestroy ==
  /\ stream # "closed" /\ sink = "none" /\ cb = "idle"
  /\ stream' = "closed" /\ started' = FALSE
  /\ UNCHANGED <<ringVars, served, sink, cb, countVars>>

\* The DMA sink: push the block, count it, and resume a device that has not
\* started once the fill target is stored (SDL may refuse).
SinkBlock(block) ==
  /\ sink = "idle" /\ PushLoad(block)
  /\ sink' = "push"
  /\ UNCHANGED <<deviceVars, cb, countVars>>

SinkCopy ==
  /\ sink = "push" /\ PushCopy
  /\ UNCHANGED <<deviceVars, sink, cb, countVars>>

SinkCommit ==
  /\ sink = "push" /\ PushCommit
  /\ sink' = "count"
  /\ UNCHANGED <<deviceVars, cb, countVars>>

SinkCount ==
  /\ sink = "count"
  /\ produced' = (produced + push.count) % Wrap
  /\ sink' = "resume"
  /\ UNCHANGED <<ringVars, deviceVars, cb, consumed, depth>>

SinkResume ==
  /\ sink = "resume"
  /\ IF ~started /\ StoredFrames >= FillTarget
       THEN \E ok \in BOOLEAN : started' = ok /\ stream' = IF ok THEN "running" ELSE stream
       ELSE UNCHANGED <<started, stream>>
  /\ sink' = "idle"
  /\ UNCHANGED <<ringVars, served, cb, countVars>>

-----------------------------------------------------------------------------
(* The callback thread.                                                    *)

\* SDL asks for some frames.
CbPop(requested) ==
  /\ stream = "running" /\ cb = "idle" /\ PopLoad(requested)
  /\ cb' = "pop" /\ served' = TRUE
  /\ UNCHANGED <<stream, started, sink, countVars>>

CbCopy ==
  /\ cb = "pop" /\ PopCopy
  /\ UNCHANGED <<deviceVars, sink, cb, countVars>>

CbCommit ==
  /\ cb = "pop" /\ PopCommit
  /\ cb' = "count"
  /\ UNCHANGED <<deviceVars, sink, countVars>>

CbCount ==
  /\ cb = "count"
  /\ consumed' = (consumed + pop.count) % Wrap
  /\ cb' = "trim"
  /\ UNCHANGED <<ringVars, deviceVars, sink, produced, depth>>

\* depth is the unsigned difference of the counters; the ratio follows it.
CbTrim ==
  /\ cb = "trim"
  /\ depth' = (produced - consumed) % Wrap
  /\ cb' = "idle"
  /\ UNCHANGED <<ringVars, deviceVars, sink, produced, consumed>>

-----------------------------------------------------------------------------

SinkStep == SinkCopy \/ SinkCommit \/ SinkCount \/ SinkResume
CbStep   == CbCopy \/ CbCommit \/ CbCount \/ CbTrim

Next ==
  \/ Start \/ StopDetach \/ StopDestroy
  \/ \E block \in Blocks : SinkBlock(block)
  \/ SinkStep
  \/ \E n \in 0..MaxPop : CbPop(n)
  \/ CbStep

\* The host schedules the emulation thread: a sink call that can step does.
\* Nothing is asked of the callback thread, which may stop anywhere.
Spec == Init /\ [][Next]_vars /\ WF_vars(SinkStep)

-----------------------------------------------------------------------------
(* Properties.                                                             *)

\* Push is wait-free: a sink call returns though the callback thread stops.
PushReturns == (sink \in {"push", "count", "resume"}) ~> (sink = "idle")

\* The ring is a bounded FIFO, whatever the interleaving of the two threads
\* and across the wrap of the indices.
Fifo == INSTANCE BoundedFifo WITH queue <- Queue
FifoSpec == Fifo!Spec

=============================================================================
