SPECIFICATION MCSpec
CONSTANTS
  Caller = {r1, r2}
  Token = {t1}
  Lifetime = 1
  TicksPerSecond = 2
  LoginCaller = {l1}
  Email = {e1}
  Address = {a1, a2}
  MaxAttempts = 1
  Window = 2
  None = None
INVARIANTS LogoutSticks HonestRefusal WindowBound
PROPERTIES RequestsEnd LockoutEnds
