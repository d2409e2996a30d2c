\* Two acts of the user, during boot or later, beside the animation of boot
\* itself; messages with no byte, as many bytes as rows, and one more.
CONSTANTS
  MaxLen = 3
  MaxRows = 2
  MaxEvents = 2
SPECIFICATION FairSpec
PROPERTY NeverOlder
PROPERTY PageSettles
CHECK_DEADLOCK FALSE
