--------------------------- MODULE DiscInterface ---------------------------
(***************************************************************************)
(* The disc interface (disc_interface.cpp).  The cover register is always  *)
(* the absence of a source, so it is not kept.  Of the command, offset,    *)
(* address and length registers only "fits" is: they ask for a read whose  *)
(* range lies within the disc and within memory.                           *)
(***************************************************************************)
EXTENDS EventScheduler, ProcessorInterface

CONSTANTS TransferDelay   \* 1: from the start to the end of a transfer

ASSUME DiscAssumption == TransferDelay \in Nat \ {0}

VARIABLES
  di,     \* status (tc, err, mask), what is asked (fits), DMA control (start)
  source  \* m_source is there

discVars == <<di, source>>

DiscTypeOK ==
  /\ di \in [tc: BOOLEAN, err: BOOLEAN, mask: BOOLEAN, fits: BOOLEAN,
             start: BOOLEAN]
  /\ source \in BOOLEAN

DiReset == [tc |-> FALSE, err |-> FALSE, mask |-> FALSE, fits |-> FALSE,
            start |-> FALSE]

\* The interrupt is that of a completed transfer; an error raises none.
DiLine(d) == d.tc /\ d.mask

\* Another disc may have another size.
SetSource(s) ==
  /\ source' = s
  /\ \E fits \in BOOLEAN : di' = [di EXCEPT !.fits = fits]
  /\ UNCHANGED <<events, piVars>>

\* Ones acknowledge; a mask bit once set stays set.
WriteStatus(ackTc, ackErr, setMask) ==
  LET d == [di EXCEPT !.tc = @ /\ ~ackTc, !.err = @ /\ ~ackErr,
                      !.mask = @ \/ setMask] IN
  /\ di' = d
  /\ SetInterrupt("di", DiLine(d))
  /\ UNCHANGED <<events, source>>

\* The command, offset, DMA address or length.
WriteRequest(fits) ==
  /\ di' = [di EXCEPT !.fits = fits]
  /\ UNCHANGED <<events, source, piVars>>

\* A second start supersedes the first; a write without the start bit leaves
\* the transfer to finish.
WriteControl(start) ==
  /\ di' = [di EXCEPT !.start = start]
  /\ events' = IF start THEN ScheduleAfter(Cancel(events, "di"), "di", TransferDelay)
                        ELSE events
  /\ UNCHANGED <<source, piVars>>

\* FinishTransfer reads the registers as they are now, the disc may fail to
\* read, and the length is cleared: a request that was too long may fit then.
DiFire(e) ==
  /\ Ready(e) /\ e.cb = "di"
  /\ \E read \in BOOLEAN, fits \in {di.fits, TRUE} :
       LET success == source /\ di.fits /\ read
           d == [di EXCEPT !.start = FALSE, !.tc = @ \/ success,
                           !.err = @ \/ ~success, !.fits = fits] IN
       /\ di' = d
       /\ SetInterrupt("di", DiLine(d))
  /\ events' = events \ {e}
  /\ UNCHANGED source
=============================================================================
