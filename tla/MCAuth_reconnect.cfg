SPECIFICATION MCSafetySpec
CONSTANTS
  Caller = {r1, r2}
  Token = {t1}
  Lifetime = 1
  TicksPerSecond = 2
  LoginCaller = {l1}
  Email = {e1}
  Address = {a1}
  MaxAttempts = 1
  Window = 1
  None = None
PROPERTY UnavailableMeansDown
