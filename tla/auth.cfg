SPECIFICATION Spec
CONSTANTS
  None = None
  User = {alice, bob}
  Password = {p1, p2}
  Reg = {r1, r2}
  Login = {l1, l2}
  MaxQueue = 3
CHECK_DEADLOCK FALSE
INVARIANT TypeOK
INVARIANT SessionsGenuine
INVARIANT RevokedRefused
PROPERTY PasswordKept
INVARIANT RegisteredExists
