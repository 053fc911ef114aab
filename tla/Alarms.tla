------------------------------- MODULE Alarms -------------------------------
(***************************************************************************)
(* What the scheduler and its devices promise together: each device has at *)
(* most one alarm; when time passes, every alarm it reaches rings once,    *)
(* the earliest first, before anything else happens; and an alarm that was *)
(* cleared or replaced never rings.                                        *)
(***************************************************************************)
EXTENDS Integers

CONSTANTS Devices, Charges, Never

VARIABLE deadline   \* device -> the time left to its alarm, or Never

Set(x) == deadline[x] # Never

Overdue == {x \in Devices : Set(x) /\ deadline[x] <= 0}

Init == deadline = [x \in Devices |-> Never]

\* The owners of the alarms set, replace and clear them.
Change ==
  /\ Overdue = {}
  /\ \A x \in Devices : \/ deadline'[x] = deadline[x]
                        \/ deadline'[x] = Never
                        \/ deadline'[x] \in Nat \ {0}
  /\ deadline' = [x \in Devices |-> deadline'[x]]

Pass(n) ==
  /\ Overdue = {}
  /\ deadline' = [x \in Devices |-> IF Set(x) THEN deadline[x] - n ELSE Never]

\* The device may set its alarm again, for later.
Ring(x) ==
  /\ x \in Overdue
  /\ \A y \in Overdue : deadline[x] <= deadline[y]
  /\ \/ deadline'[x] = Never
     \/ deadline'[x] \in Nat \ {0}
  /\ deadline' = [deadline EXCEPT ![x] = deadline'[x]]

Next ==
  \/ Change
  \/ \E n \in Charges : Pass(n)
  \/ \E x \in Devices : Ring(x)

Spec == Init /\ [][Next]_deadline
=============================================================================
