SPECIFICATION FairSpec
CONSTANTS
  alice = alice
  bob = bob
  User = {alice, bob}
  Conn = {c1, c2}
  Msg = {1, 3, 6}
  From <- MCFrom
  To <- MCTo
  Storable = {1, 3}
  NoUser = NoUser
  NoConn = NoConn
  TCP = TRUE
  Buffer = 1
  Faulty = TRUE
  MaxSends = 1
  MaxRestarts = 0
CHECK_DEADLOCK FALSE
PROPERTY AcceptedIsStored
PROPERTY HandedIsMarked
PROPERTY PendingDrained
PROPERTY GoneIsUnrouted
PROPERTY RequestsServed
