\* A drop-in whose prompts, rubrics or agents' own files are missing or unreadable.
SPECIFICATION MCSpec
CONSTANTS
  Findings = {f1, f2}
  Windows = {1, 2}
  Operators = {o1, o2}
  MaxEvents = 1
  MaxLost = 1
  Browsers = {"a", "b"}
  MaxLogins = 2
  MaxTime = 3
  LoginTime = 1
  SessionTime = 2
  Resters = {}
  Escalators = {}
  Requests = {}
  Bodies = {}
  PageSize = 1
  MaxPages = 1
  MaxMessages = 0
  MaxCrashes = 0
  Sdk <- MCSdk
  DropIns <- MCDropIns
  MaxTries = 2
  MaxWrites = 3
  MaxStarts = 2
  Workloads <- MCWorkloads
  Where <- MCWhere
  ListSize = 2
  MaxChanges = 0
INVARIANT
  ErrorsComeFirst
CHECK_DEADLOCK FALSE
