--------------------------- MODULE EventScheduler ---------------------------
(***************************************************************************)
(* The event queue of the legacy runtime (event_scheduler.cpp) and what a  *)
(* device holds of it.                                                     *)
(*                                                                         *)
(* Only times relative to m_ticks matter, so due is what is left to wait.  *)
(* (m_ticks saturates after 2^64 cycles, which is left out.)  An event id  *)
(* serves only to name an event for Cancel, so an event records instead    *)
(* whether its device still holds that id: the id of an event that has run *)
(* or been cleared names nothing, whether the device forgot it (0) or not. *)
(* Of events due at the same tick either may run first: callbacks of       *)
(* different devices touch different registers, so the order (the code     *)
(* takes the lower id) is not seen.                                        *)
(***************************************************************************)
EXTENDS Integers, FiniteSets

CONSTANTS Charges   \* the cycle counts one dispatch may charge

ASSUME ChargesAssumption == Charges \subseteq Nat \ {0}

VARIABLES
  events,    \* m_events
  advancing  \* Advance is in its loop

Callbacks == {"ai", "dma", "di"}
Event     == [cb: Callbacks, due: Int, held: BOOLEAN]

Pending(cb) == {e \in events : e.cb = cb}

\* Mutant of Cancel: the superseded event stays.
CancelNothing(evs, cb) == evs

\* Cancel the event the device holds, if there is one.
Cancel(evs, cb) == {e \in evs : ~(e.cb = cb /\ e.held)}

\* Schedule, the device keeping the new id in place of the old.
ScheduleAfter(evs, cb, cycles) ==
  {IF e.cb = cb THEN [e EXCEPT !.held = FALSE] ELSE e : e \in evs}
    \cup {[cb |-> cb, due |-> cycles, held |-> TRUE]}

Passed(evs, n) == {[e EXCEPT !.due = @ - n] : e \in evs}

\* The earliest event that is due.
Ready(e) == /\ e \in events /\ e.due <= 0
            /\ \A f \in events : e.due <= f.due

\* Mutant of NoneDue: an event due exactly now is left for the next Advance.
NoneOverdue == \A e \in events : e.due >= 0

NoneDue == \A e \in events : e.due > 0
=============================================================================
