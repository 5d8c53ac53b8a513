SPECIFICATION Spec
CONSTANTS
  Logouts = {l1, l2}
  Requests = {q1, q2}
  MaxEpoch = 3
  MaxTokens = 3
INVARIANT RevokedStayDead
CHECK_DEADLOCK FALSE
