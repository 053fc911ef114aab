------------------------- MODULE ProcessorInterface -------------------------
(***************************************************************************)
(* The processor interface (processor_interface.cpp): interrupt causes,    *)
(* the guest's mask, and the CPU's external interrupt.  Left out are the   *)
(* causes no device here sets: Reset's own two among them.                 *)
(***************************************************************************)
Lines == {"ai", "dsp", "di"}

VARIABLES
  cause, mask,  \* m_cause, m_mask
  exception,    \* the ExternalInterrupt bit of m_cpu.exception
  acked         \* history: lines the guest cleared here since their device
                \* last set them

piVars == <<cause, mask, exception, acked>>

PiTypeOK ==
  /\ cause \subseteq Lines /\ mask \subseteq Lines
  /\ exception \in BOOLEAN /\ acked \subseteq Lines

UpdateException == exception' = (cause' \cap mask' # {})

\* Mutant of SetInterrupt: a line is only ever raised.
SetInterruptNeverLowered(line, level) ==
  /\ cause' = IF level THEN cause \cup {line} ELSE cause
  /\ acked' = acked \ {line}
  /\ UNCHANGED mask
  /\ UpdateException

SetInterrupt(line, level) ==
  /\ cause' = IF level THEN cause \cup {line} ELSE cause \ {line}
  /\ acked' = acked \ {line}
  /\ UNCHANGED mask
  /\ UpdateException

\* The guest clears causes, a line's too while its device still asserts it.
WriteCause(bits) ==
  /\ cause' = cause \ bits
  /\ acked' = acked \cup (bits \cap cause)
  /\ UNCHANGED mask
  /\ UpdateException

WriteMask(bits) ==
  /\ mask' = bits
  /\ UNCHANGED <<cause, acked>>
  /\ UpdateException

\* Reset, and the lowering of every line by the devices' own Reset after it.
PiReset ==
  /\ cause' = {} /\ mask' = {} /\ exception' = FALSE
  /\ acked' = {}
=============================================================================
