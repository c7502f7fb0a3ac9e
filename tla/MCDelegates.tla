---------------------------- MODULE MCDelegates -----------------------------
(* Delegated calls and interactive delegates on small instances.  The parts share *)
(* no state: a behaviour is one of the slots, of the conversations under one tool *)
(* call at a time, or of the conversations under two that overlap.                *)
EXTENDS DelegationSlots, DelegateTasks

VARIABLES
  part,
  o_created, o_name, o_status, o_collected, o_mail, o_delivered, o_seen, o_conv, o_handed, o_call,
  o_turn, o_closing, o_restarts

overlapping == <<o_created, o_name, o_status, o_collected, o_mail, o_delivered, o_seen, o_conv, o_handed,
                 o_call, o_turn, o_closing, o_restarts>>

\* Two tool calls of one response, one delegate, two briefs, two messages, one crash or close.
Overlapping == INSTANCE DelegateTasks WITH
  Names <- {"d1"}, MaxTasks <- 2, MaxMail <- 2, MaxCalls <- 2, MaxRestarts <- 1,
  created <- o_created, name <- o_name, status <- o_status, collected <- o_collected, mail <- o_mail,
  delivered <- o_delivered, seen <- o_seen, conv <- o_conv, handed <- o_handed, call <- o_call,
  turn <- o_turn, closing <- o_closing, restarts <- o_restarts

MCInit ==
  /\ part \in {"slots", "sequential", "overlapping"}
  /\ Init /\ TasksInit /\ Overlapping!TasksInit

MCNext ==
  \/ part = "slots" /\ Next /\ UNCHANGED <<part, taskVars, overlapping>>
  \/ part = "sequential" /\ TasksNext /\ UNCHANGED <<part, vars, overlapping>>
  \/ part = "overlapping" /\ Overlapping!TasksNext /\ UNCHANGED <<part, vars, taskVars>>

\* Nothing that is fair can happen in a part that was not started.
MCSpec ==
  /\ MCInit /\ [][MCNext]_<<part, vars, taskVars, overlapping>>
  /\ Fairness /\ TasksFairness

\* base.py, delegate_tasks.py: every delegated call ends, stop, send and result return, and
\* mail is read also when tool calls overlap.
CallsEnd == EveryCallEnds /\ CallsReturn /\ Overlapping!MailIsRead
=============================================================================
