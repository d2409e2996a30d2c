SPECIFICATION Spec
CONSTANTS
  alice = alice
  bob = bob
  User = {alice, bob}
  Conn = {c1, c2, c3}
  Msg = {1}
  From <- MCFrom
  To <- MCTo
  Storable = {1}
  NoUser = NoUser
  NoConn = NoConn
  TCP = FALSE
  Buffer = 1
  Faulty = FALSE
  MaxSends = 1
  MaxRestarts = 0
SYMMETRY ConnSymmetry
CHECK_DEADLOCK FALSE
INVARIANT TypeOK
INVARIANT RouterSound
INVARIANT SoleSessionRouted
INVARIANT FramesAddressed
INVARIANT LostOnlyWithClient
