SPECIFICATION Spec
CONSTANTS
  alice = alice
  bob = bob
  User = {alice, bob}
  Conn = {c1}
  Msg = {1}
  From <- MCFrom
  To <- MCTo
  Storable = {1}
  NoUser = NoUser
  NoConn = NoConn
  TCP = FALSE
  Buffer = 1
  Faulty = FALSE
  MaxSends = 2
  MaxRestarts = 0
SYMMETRY ConnSymmetry
CHECK_DEADLOCK FALSE
INVARIANT AcceptedOnce
