SPECIFICATION Spec
CONSTANTS
  h1 = h1
  h2 = h2
  l1 = l1
  l2 = l2
  Handlers = {h1, h2}
  Logins = {l1, l2}
  None = None
  MaxAttempts = 2
SYMMETRY Symmetry
INVARIANTS OneSendPerWindow AttemptsBounded OneClaimPerLogin
  EndedLoginLeavesNoRow SessionAndManagerAgree
CHECK_DEADLOCK FALSE
