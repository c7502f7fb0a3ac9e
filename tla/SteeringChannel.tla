-------------------------- MODULE SteeringChannel --------------------------
(***************************************************************************)
(* What operator steering promises: what the operators write, the          *)
(* orchestrator's session receives, each message once and in order.        *)
(***************************************************************************)
EXTENDS Naturals, Sequences

CONSTANT Messages

VARIABLES
  written,  \* messages of the operators, in the order of the channel
  received  \* steering messages in the orchestrator's session

vars == <<written, received>>

Init == written = <<>> /\ received = <<>>

Write == \E m \in Messages : written' = Append(written, m) /\ UNCHANGED received

Receive ==
  /\ Len(received) < Len(written)
  /\ received' = Append(received, written[Len(received) + 1])
  /\ UNCHANGED written

Next == Write \/ Receive

Spec == Init /\ [][Next]_vars
=============================================================================
