---------------------------- MODULE EventDelivery ----------------------------
(***************************************************************************)
(* What a relay of events promises, whatever it is made of: an event that  *)
(* has been written is owed; it is handed over at some moment and then     *)
(* never again owed; it is lost only where the relay may lose events at    *)
(* all, never silently becomes unwritten, and is never owed twice.         *)
(***************************************************************************)
CONSTANTS
  Events,
  MayLose     \* whether events may be lost

VARIABLE status

Status == {"none", "owed", "delivered", "lost"}

Init == status = [e \in Events |-> "none"]

\* All events of S leave one status for another in one step.
Move(S, from, to) ==
  /\ \A e \in S : status[e] = from
  /\ status' = [e \in Events |-> IF e \in S THEN to ELSE status[e]]

Owe(e)     == Move({e}, "none", "owed")
Deliver(e) == Move({e}, "owed", "delivered")
Lose(S)    == MayLose /\ Move(S, "owed", "lost")

Next ==
  \/ \E e \in Events : Owe(e) \/ Deliver(e)
  \/ \E S \in SUBSET Events : Lose(S)

Spec == Init /\ [][Next]_status
=============================================================================
