SPECIFICATION Spec
CONSTANTS
  Logouts = {l1}
  Requests = {q1, q2}
  MaxEpoch = 3
  MaxTokens = 3
INVARIANTS RevokedStayDead FreshAccepted CacheBehindStore
CHECK_DEADLOCK FALSE
