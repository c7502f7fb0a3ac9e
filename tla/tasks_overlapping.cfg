\* The one outstanding conversation the documentation promises, when two tool
\* calls of one response interrupt the same delegate.
SPECIFICATION TasksSpec
CONSTANTS
  Names = {d1}
  MaxTasks = 2
  MaxMail = 2
  MaxCalls = 2
  MaxRestarts = 0
INVARIANT
  OneConversation
