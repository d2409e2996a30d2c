------------------------------ MODULE Mailbox -------------------------------
(***************************************************************************)
(* What the message store promises, without its queue, its writer thread   *)
(* or the handlers: it is a write-behind store.  A message is taken on     *)
(* once and becomes delivered once; the disk follows, one stage at a time  *)
(* and never ahead; and only the end of the process takes something back,  *)
(* namely what the disk does not hold.                                     *)
(***************************************************************************)
EXTENDS Naturals

CONSTANTS
  Msg,       \* message ids
  Storable   \* the messages the disk takes: the others are never taken on

VARIABLES
  status,    \* what the running server has taken on
  durable,   \* what the disk holds
  epoch      \* how often the process was restarted

vars == <<status, durable, epoch>>

Init ==
  /\ status = [m \in Msg |-> "none"]
  /\ durable = [m \in Msg |-> "none"]
  /\ epoch = 0

\* The message is taken on.
Store(m) ==
  /\ m \in Storable
  /\ status[m] = "none"
  /\ status' = [status EXCEPT ![m] = "sent"]
  /\ UNCHANGED <<durable, epoch>>

\* The message has reached a connection of its recipient, or the recipient is
\* the server.
Deliver(m) ==
  /\ status[m] = "sent"
  /\ status' = [status EXCEPT ![m] = "delivered"]
  /\ UNCHANGED <<durable, epoch>>

CommitStore(m) ==
  /\ durable[m] = "none" /\ status[m] # "none"
  /\ durable' = [durable EXCEPT ![m] = "sent"]
  /\ UNCHANGED <<status, epoch>>

CommitDeliver(m) ==
  /\ durable[m] = "sent" /\ status[m] = "delivered"
  /\ durable' = [durable EXCEPT ![m] = "delivered"]
  /\ UNCHANGED <<status, epoch>>

Restart ==
  /\ status' = durable
  /\ epoch' = epoch + 1
  /\ UNCHANGED durable

Next ==
  \/ \E m \in Msg : Store(m) \/ Deliver(m) \/ CommitStore(m) \/ CommitDeliver(m)
  \/ Restart

Spec == Init /\ [][Next]_vars
=============================================================================
