SPECIFICATION Spec
CONSTANTS
  alice = alice
  bob = bob
  User = {alice, bob}
  Conn = {c1, c2}
  Msg = {1, 6}
  From <- MCFrom
  To <- MCTo
  Storable = {1}
  NoUser = NoUser
  NoConn = NoConn
  TCP = TRUE
  Buffer = 1
  Faulty = FALSE
  MaxSends = 2
  MaxRestarts = 1
SYMMETRY ConnSymmetry
CHECK_DEADLOCK FALSE
INVARIANT QueueOrder
INVARIANT StoredIsSeen
INVARIANT DeliveredWasHanded
PROPERTY StatusMonotone
PROPERTY RefinesMailbox
INVARIANT Custody
