\* Two incidents, of which the review of one of two windows finds both and the other one;
\* two operators; two browsers; the boundary, a resting tool and two escalations share
\* a lock, two messages on pages of one, one crash.
\* A browser and a reader may stop; that locks are got is an invariant.
SPECIFICATION MCSpec
SYMMETRY Symmetry
CONSTANTS
  Findings = {f1, f2}
  Windows = {1, 2}
  Operators = {o1, o2}
  MaxEvents = 1
  MaxLost = 1
  Browsers = {"a", "b"}
  MaxLogins = 2
  MaxTime = 3
  LoginTime = 1
  SessionTime = 2
  Resters = {"rest"}
  Escalators = {"e1", "e2"}
  Requests = {"r1"}
  Bodies = {"b1"}
  PageSize = 1
  MaxPages = 2
  MaxMessages = 2
  MaxCrashes = 1
  Sdk <- MCSdk
  DropIns <- MCDropIns
  MaxTries = 2
  MaxWrites = 2
  MaxStarts = 2
  Workloads <- MCWorkloads
  Where <- MCWhere
  ListSize = 2
  MaxChanges = 2
INVARIANTS
  IncidentsAreTrue
  OperatorsDoNotDeadlock
  SteeringIsTrue
  SignInsMakeOneSession
  PagesShowEveryIncident
  AcceptedRuns
PROPERTIES
  DecisionsAreInformed
CHECK_DEADLOCK FALSE
