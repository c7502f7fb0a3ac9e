\* Four calls suffice for a parent with two parallel children and a competitor,
\* for three levels of nesting, and for a worker awaited from a nested call;
\* one slot is the smallest limit, where nesting would deadlock first.
SPECIFICATION MCSpec
CONSTANTS
  Calls = {c1, c2, c3, c4}
  Limit = 1
  NoCall = NoCall
  Names = {"d1", "d2"}
  MaxTasks = 2
  MaxMail = 2
  MaxCalls = 1
  MaxRestarts = 1
INVARIANTS
  SlotsAreKept ConversationsAreTrue
PROPERTIES
  CallsEnd BoardSpec MailIsRead
