--------------------------------- MODULE Db ---------------------------------
(***************************************************************************)
(* backend/db.py: the SQLite tables the chat server uses and the single    *)
(* writer thread that owns all writes.                                     *)
(*                                                                         *)
(* A write helper only appends a task to _write_queue and returns; the     *)
(* writer thread executes one task at a time, each in a transaction of its *)
(* own.  A read helper opens its own connection and sees the committed     *)
(* tables only, never the queue.  The tables survive the process, the      *)
(* queue does not.                                                         *)
(***************************************************************************)
EXTENDS ChatBase, Sequences

VARIABLES
  messages,   \* delivery_status of the row of each message, "none": no row
  seen,       \* the ids in seen_messages
  sessions,   \* username of the row of each session token, NoUser: no row
  wq,         \* _write_queue
  writer      \* the writer thread: "running", or "stopped" after the sentinel

dbvars == <<messages, seen, sessions, wq, writer>>

tables == <<messages, seen, sessions>>

Status == {"none", "sent", "delivered"}

\* The tasks of the write helpers, and the sentinel None that stop() sends.
\* Each connection logs in at most once, so it names the token it was given.
record_seen(m) == [op |-> "record_seen", id |-> m]
insert_message(m) == [op |-> "insert_message", id |-> m]
update_delivered(m) == [op |-> "update_delivery_status", id |-> m]
insert_session(c, u) == [op |-> "insert_session", id |-> c, user |-> u]
Shutdown == [op |-> "shutdown", id |-> NoMsg]

MsgOp == {"record_seen", "insert_message", "update_delivery_status"}

Task == [op : MsgOp, id : Msg]
        \cup [op : {"insert_session"}, id : Conn, user : User]
        \cup {Shutdown}

DbTypeOK ==
  /\ messages \in [Msg -> Status]
  /\ seen \in SUBSET Msg
  /\ sessions \in [Conn -> User \cup {NoUser}]
  /\ wq \in Seq(Task)
  /\ writer \in {"running", "stopped"}

\* A fresh database: _bootstrap_schema creates the tables, start() the thread.
DbInit ==
  /\ messages = [m \in Msg |-> "none"]
  /\ seen = {}
  /\ sessions = [c \in Conn |-> NoUser]
  /\ wq = << >>
  /\ writer = "running"

-----------------------------------------------------------------------------
(* Reads: committed rows only. *)

is_replay(m) == m \in seen

\* Mutant: the wrong column, `WHERE sender = ?`.
get_sent_messages(u) == {m \in Msg : From[m] = u /\ messages[m] = "sent"}

get_pending_messages(u) == {m \in Msg : To[m] = u /\ messages[m] = "sent"}

-----------------------------------------------------------------------------
(* What one task does to one table. *)

\* Mutant: INSERT OR REPLACE.
ExecReplaceMessage(tbl, m) ==
  IF m \in Storable THEN [tbl EXCEPT ![m] = "sent"] ELSE tbl

\* INSERT: it raises for a second row with the same primary key, a NULL in a
\* NOT NULL column and a value that cannot be bound; the writer rolls back and
\* goes on.
ExecInsertMessage(tbl, m) ==
  IF m \in Storable /\ tbl[m] = "none" THEN [tbl EXCEPT ![m] = "sent"] ELSE tbl

\* Mutant: the WHERE clause matches nothing.
ExecUpdateNothing(tbl, m) == tbl

\* UPDATE ... WHERE message_id = ?: matches no row when there is none.
ExecUpdateDelivered(tbl, m) ==
  IF tbl[m] = "none" THEN tbl ELSE [tbl EXCEPT ![m] = "delivered"]

\* INSERT OR IGNORE.
ExecRecordSeen(tbl, m) == tbl \cup {m}

\* _enqueue.
Enqueue(task) == wq' = Append(wq, task)

\* What the tables are once `task` is executed and committed or rolled back.
Execute(task) ==
  /\ messages' = IF task.op = "insert_message"
                 THEN ExecInsertMessage(messages, task.id)
                 ELSE IF task.op = "update_delivery_status"
                 THEN ExecUpdateDelivered(messages, task.id)
                 ELSE messages
  /\ seen' = IF task.op = "record_seen"
             THEN ExecRecordSeen(seen, task.id) ELSE seen
  /\ sessions' = IF task.op = "insert_session"
                 THEN [sessions EXCEPT ![task.id] = task.user]
                 ELSE sessions
  /\ writer' = IF task.op = "shutdown" THEN "stopped" ELSE writer

\* Mutant: queue.LifoQueue.
WriterStepLifo ==
  /\ writer = "running"
  /\ wq # << >>
  /\ Execute(wq[Len(wq)])
  /\ wq' = SubSeq(wq, 1, Len(wq) - 1)

\* Mutant: get_nowait() in the loop condition, the thread ends on queue.Empty.
WriterStepNoWait ==
  /\ writer = "running"
  /\ IF wq = << >> THEN writer' = "stopped" /\ UNCHANGED <<tables, wq>>
     ELSE Execute(Head(wq)) /\ wq' = Tail(wq)

\* One turn of _writer_loop: take a task, execute it, commit or roll back.
WriterStep ==
  /\ writer = "running"
  /\ wq # << >>
  /\ Execute(Head(wq))
  /\ wq' = Tail(wq)

\* stop(): queue the sentinel behind everything enqueued so far.
stop == Enqueue(Shutdown) /\ UNCHANGED <<tables, writer>>

\* The process ends, for whatever reason, and start() runs in a new one: the
\* tables are as the last commit left them, the queue is a new empty one.
start ==
  /\ wq' = << >>
  /\ writer' = "running"
  /\ UNCHANGED tables

-----------------------------------------------------------------------------
\* A task that waits in the queue.
Queued(task) == \E i \in 1..Len(wq) : wq[i] = task

\* Where message m stands once the queue is drained: the status the rest of
\* the server has already acted on, although reads do not show it yet.
LogicalStatus(m) ==
  IF m \notin Storable THEN "none"
  ELSE IF messages[m] = "delivered" \/ Queued(update_delivered(m)) THEN "delivered"
  ELSE IF messages[m] = "sent" \/ Queued(insert_message(m)) THEN "sent"
  ELSE "none"
=============================================================================
