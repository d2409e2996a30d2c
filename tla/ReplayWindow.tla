---------------------------- MODULE ReplayWindow ----------------------------
(***************************************************************************)
(* How long the server remembers a message id, against how long it accepts *)
(* the message: the age check and the replay check of handle_client        *)
(* (backend/server.py), and the rows of seen_messages, which the writer    *)
(* thread adds and deletes for record_seen and purge_old_seen of           *)
(* backend/db.py.                                                          *)
(*                                                                         *)
(* ChatServer has the rest of the message loop, restarts included; what    *)
(* this module adds is time.  The server's clock is shared by the handlers *)
(* and the writer and does not go back; the sender's may differ, so a      *)
(* timestamp is any number.                                                *)
(***************************************************************************)
EXTENDS Integers, Sequences

CONSTANTS
  Msg,         \* message ids
  Handler,     \* handler threads
  NoMsg,       \* no message
  Window,      \* TIMESTAMP_WINDOW: the age up to which a message is accepted
  Ahead,       \* how far ahead of the server's clock it may be stamped
  Keep,        \* the window_seconds that purge_old_seen is called with
  MaxTime,     \* bound: the clock's last value
  MaxQueue     \* bound: tasks in the write queue

ASSUME WindowAssumption ==
  /\ NoMsg \notin Msg
  /\ Window \in Nat /\ Ahead \in Nat /\ Keep \in Nat
  /\ MaxTime \in Nat /\ MaxQueue \in Nat

VARIABLES
  now,        \* time.time() of the server
  stamp,      \* the timestamp each message was built with
  pc,         \* a handler: "recv", "replay" or "record"
  cur,        \* the message it is working on
  wq,         \* _write_queue, as far as seen_messages goes
  seen,       \* the ids with a row in seen_messages
  received,   \* their received_at; of a deleted row, what it was
  ever        \* history: the ids that have or had a row

vars == <<now, stamp, pc, cur, wq, seen, received, ever>>

record_seen(m) == [op |-> "record", id |-> m, cutoff |-> 0]

\* The cutoff is computed by the caller, not when the task is executed.
purge_old_seen(t) == [op |-> "purge", id |-> NoMsg, cutoff |-> t - Keep]

Task ==
  [op : {"record", "purge"}, id : Msg \cup {NoMsg}, cutoff : Int]

\* The types of the state.
TypeOK ==
  /\ now \in Nat
  /\ stamp \in [Msg -> Nat]
  /\ pc \in [Handler -> {"recv", "replay", "record"}]
  /\ cur \in [Handler -> Msg \cup {NoMsg}]
  /\ wq \in Seq(Task)
  /\ seen \in SUBSET Msg
  /\ received \in [Msg -> Nat]
  /\ ever \in SUBSET Msg

Init ==
  /\ now = 0
  /\ stamp \in [Msg -> 0..MaxTime]
  /\ pc = [h \in Handler |-> "recv"]
  /\ cur = [h \in Handler |-> NoMsg]
  /\ wq = << >>
  /\ seen = {}
  /\ received = [m \in Msg |-> 0]
  /\ ever = {}

-----------------------------------------------------------------------------

Tick ==
  /\ now < MaxTime
  /\ now' = now + 1
  /\ UNCHANGED <<stamp, pc, cur, wq, seen, received, ever>>

\* Mutant: only the age is checked, not how far ahead the timestamp is.
NotTooOld(m) == now - stamp[m] <= Window

\* The age check, both ends included.
InWindow(m) == now - stamp[m] <= Window /\ now - stamp[m] >= -Ahead

\* A handler receives a copy of a message that passes the age check.  (Any other
\* copy is answered with EXPIRED and leaves everything as it is.)
Receive(h, m) ==
  /\ pc[h] = "recv"
  /\ InWindow(m)
  /\ pc' = [pc EXCEPT ![h] = "replay"]
  /\ cur' = [cur EXCEPT ![h] = m]
  /\ UNCHANGED <<now, stamp, wq, seen, received, ever>>

\* is_replay reads the committed rows, by then perhaps at another time.
IsReplay(h) ==
  /\ pc[h] = "replay"
  /\ IF cur[h] \in seen
     THEN pc' = [pc EXCEPT ![h] = "recv"] /\ cur' = [cur EXCEPT ![h] = NoMsg]
     ELSE pc' = [pc EXCEPT ![h] = "record"] /\ UNCHANGED cur
  /\ UNCHANGED <<now, stamp, wq, seen, received, ever>>

\* The id is queued to be recorded, and the message goes on its way.
RecordSeen(h) ==
  /\ pc[h] = "record"
  /\ Len(wq) < MaxQueue
  /\ wq' = Append(wq, record_seen(cur[h]))
  /\ pc' = [pc EXCEPT ![h] = "recv"]
  /\ cur' = [cur EXCEPT ![h] = NoMsg]
  /\ UNCHANGED <<now, stamp, seen, received, ever>>

\* "call periodically": anybody, at any time.
Purge ==
  /\ Len(wq) < MaxQueue
  /\ wq' = Append(wq, purge_old_seen(now))
  /\ UNCHANGED <<now, stamp, pc, cur, seen, received, ever>>

\* INSERT OR IGNORE; received_at is the time at which the writer gets to it.
ExecRecord(m) ==
  /\ seen' = seen \cup {m}
  /\ ever' = ever \cup {m}
  /\ received' = IF m \in seen THEN received ELSE [received EXCEPT ![m] = now]

\* Mutant: received_at <= cutoff.
ExecPurgeInclusive(cutoff) ==
  /\ seen' = {m \in seen : received[m] > cutoff}
  /\ UNCHANGED <<received, ever>>

\* DELETE ... WHERE received_at < cutoff
ExecPurge(cutoff) ==
  /\ seen' = {m \in seen : received[m] >= cutoff}
  /\ UNCHANGED <<received, ever>>

Writer ==
  /\ wq # << >>
  /\ wq' = Tail(wq)
  /\ \/ Head(wq).op = "record" /\ ExecRecord(Head(wq).id)
     \/ Head(wq).op = "purge" /\ ExecPurge(Head(wq).cutoff)
  /\ UNCHANGED <<now, stamp, pc, cur>>

Next ==
  \/ Tick
  \/ \E h \in Handler, m \in Msg : Receive(h, m)
  \/ \E h \in Handler : IsReplay(h) \/ RecordSeen(h)
  \/ Purge
  \/ Writer

Spec == Init /\ [][Next]_vars

-----------------------------------------------------------------------------

\* The message was stamped so far ahead that it outlives its row: possible if
\* rows are kept for less than Window + Ahead.  (The repository's values are
\* 300, 30 and 300.)
OutlivesRow(m) == received[m] + (Keep - Window) < stamp[m]

\* A message that would pass the age check now, and whose id was ever recorded,
\* is still known to the replay check, whenever and however often the table was
\* purged and however long the purges were queued; except one stamped more than
\* Keep - Window, and then at most Ahead, ahead of the time it was recorded at.
KnownWhileAcceptable ==
  \A m \in ever :
    InWindow(m) => m \in seen \/ (OutlivesRow(m) /\ stamp[m] <= received[m] + Ahead)

\* A copy of a recorded message passes the replay check only in that case, or
\* when it has grown too old while the handler was between its two checks.
AcceptedAgain ==
  [][\A h \in Handler :
       pc[h] = "replay" /\ pc'[h] = "record" /\ cur[h] \in ever
       => OutlivesRow(cur[h]) \/ ~InWindow(cur[h])]_vars
=============================================================================
