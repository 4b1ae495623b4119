CONSTANTS
  MaxSessions = 2
  MaxAttempts = 2
  Payloads = {p1, p2}
  None = None
  MaxChanges = 1
SPECIFICATION Spec
INVARIANT GivesUpOnlyAfterLastSession
CHECK_DEADLOCK FALSE
