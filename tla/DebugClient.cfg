CONSTANTS
  MaxSessions = 3
  MaxAttempts = 2
  Payloads = {p1, p2}
  None = None
  MaxChanges = 2
SPECIFICATION Spec
PROPERTIES EndsOrListens StatusIsLogged
CHECK_DEADLOCK FALSE
