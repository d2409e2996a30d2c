SPECIFICATION Spec
CONSTANTS
  alice = alice
  bob = bob
  User = {alice, bob}
  Conn = {c1, c2}
  Msg = {1}
  From <- MCFrom
  To <- MCTo
  Storable = {1}
  NoUser = NoUser
  NoConn = NoConn
  TCP = FALSE
  Buffer = 1
  Faulty = TRUE
  MaxSends = 1
  MaxRestarts = 0
SYMMETRY ConnSymmetry
CHECK_DEADLOCK FALSE
INVARIANT OnlineIsRouted
