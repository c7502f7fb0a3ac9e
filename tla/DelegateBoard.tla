-------------------------- MODULE DelegateBoard ---------------------------
(***************************************************************************)
(* What the interactive delegates promise the PI and the loop: every       *)
(* declared name is free, working on one brief, or holds an ended brief the*)
(* PI has still to collect or resume; work is never dropped on the way to  *)
(* free; and the gates only open while every name is free.                 *)
(***************************************************************************)
CONSTANT Names

VARIABLES
  phase,  \* "free", "working" or "ended", of each name
  gates   \* whether the loop may run its gates

vars == <<phase, gates>>

Init == phase = [n \in Names |-> "free"] /\ gates = FALSE

\* A new brief for a free name, or a message that resumes the last one.
Work(n) ==
  /\ phase[n] # "working" /\ ~gates
  /\ phase' = [phase EXCEPT ![n] = "working"]
  /\ UNCHANGED gates

\* The work of some names ends: of one by itself, of all with the process,
\* which takes the gates with it.
Ends ==
  /\ \E some \in SUBSET {n \in Names : phase[n] = "working"} :
       phase' = [n \in Names |-> IF n \in some THEN "ended" ELSE phase[n]]
  /\ gates' = FALSE

Collected(n) ==
  /\ phase[n] = "ended" /\ ~gates
  /\ phase' = [phase EXCEPT ![n] = "free"]
  /\ UNCHANGED gates

OpenGates ==
  /\ \A n \in Names : phase[n] = "free"
  /\ gates' = TRUE
  /\ UNCHANGED phase

CloseGates == gates /\ gates' = FALSE /\ UNCHANGED phase

Next ==
  \/ \E n \in Names : Work(n) \/ Collected(n)
  \/ Ends \/ OpenGates \/ CloseGates

Spec == Init /\ [][Next]_vars
=============================================================================
