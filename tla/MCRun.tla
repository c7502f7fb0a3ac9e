------------------------------- MODULE MCRun --------------------------------
(* A run's process on small instances.  The parts share no state: a behaviour is one *)
(* of the loop, of the delivery of messages, of tools called in parallel, or of a    *)
(* process from its command line to its exit code.                                   *)
EXTENDS MCPhasedLoop, Workbench, ScaffoldProcess

VARIABLES
  part,
  d_threaded, d_sent, d_steering, d_posts, d_cursor, d_inbox, d_delivered, d_status, d_outbox, d_session,
  d_lock, d_pc, d_scan, d_asked, d_batch, d_crashes

delivery == <<d_threaded, d_sent, d_steering, d_posts, d_cursor, d_inbox, d_delivered, d_status, d_outbox,
              d_session, d_lock, d_pc, d_scan, d_asked, d_batch, d_crashes>>

\* Three messages on pages of one, of which a poll reads two; one crash.
Delivery == INSTANCE Steering WITH
  Resters <- {"rest"}, Escalators <- {}, Requests <- {"r1"}, Bodies <- {"b1"},
  PageSize <- 1, MaxPages <- 2, MaxMessages <- 3, MaxCrashes <- 1,
  threaded <- d_threaded, sent <- d_sent, steering <- d_steering, posts <- d_posts, cursor <- d_cursor,
  inbox <- d_inbox, delivered <- d_delivered, status <- d_status, outbox <- d_outbox, session <- d_session,
  lock <- d_lock, pc <- d_pc, scan <- d_scan, asked <- d_asked, batch <- d_batch, crashes <- d_crashes

ASSUME ToolsAssumption == RestAssumption

MCInit ==
  /\ part \in {"loop", "delivery", "tools", "process"}
  /\ Init /\ Delivery!SteeringInit /\ ToolsInit /\ ProcessInit
  /\ part # "delivery" => d_threaded = FALSE
  /\ part # "process" => command = "run" /\ traced

Loop(step) == part = "loop" /\ step /\ UNCHANGED <<part, delivery, toolVars, processVars>>
Process(step) == part = "process" /\ step /\ UNCHANGED <<part, vars, delivery, toolVars>>

MCNext ==
  \/ Loop(Next) \/ Process(ProcessNext)
  \/ part = "delivery" /\ Delivery!SteeringNext /\ UNCHANGED <<part, vars, toolVars, processVars>>
  \/ part = "tools" /\ ToolsNext /\ UNCHANGED <<part, vars, delivery, processVars>>

MCvars == <<part, vars, delivery, toolVars, processVars>>

\* The fairness of each module: of the loop's and the process's in one, as only one of them
\* is there; and no call of the tools has begun in another part.
MCSpec ==
  /\ MCInit /\ [][MCNext]_MCvars
  /\ WF_MCvars(Loop(Step) \/ Process(Stopping)) /\ ToolsFairness
  /\ part = "delivery" => Delivery!Fairness

\* poll, _select_input: the session gets the messages once each and in order, and no
\* poll leaves one behind.
ChannelSpec == Delivery!ChannelSpec /\ []Delivery!SteeringIsTrue

\* loop.py, steering.py, tools.py, cli.py: a run that is not stopped ends, an operator's
\* message arrives, a tool call is answered, and a stop signal ends the process.
NothingWaitsForEver ==
  RunEnds /\ (part = "delivery" => Delivery!MessagesArrive) /\ CallsAreAnswered /\ StopEnds
=============================================================================
