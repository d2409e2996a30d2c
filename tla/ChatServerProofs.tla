-------------------------- MODULE ChatServerProofs --------------------------
(***************************************************************************)
(* Proofs about ChatServer, for every number of users, connections and     *)
(* messages and every value of the bounds: the types, and the routing      *)
(* table and what goes through it. Entries lead to the right, live         *)
(* handlers; a user with one connection is found; a chat frame only        *)
(* travels to its recipient, whatever the table did between lookup and     *)
(* write; and what was reported as delivered was written to a session of   *)
(* the recipient, and is lost only if that session ends with it unread.    *)
(***************************************************************************)
EXTENDS ChatServer, TLAPS, SequenceTheorems, WellFoundedInduction

USE MsgAssumption, NameAssumption

-----------------------------------------------------------------------------
(* Lemmas about queues and sets. *)

\* A nonempty set of message ids has a least one, and Min finds it: the drain
\* loop always has a next message while some are left.
LEMMA MinInSet ==
  ASSUME NEW S, S \subseteq Msg, S # {}
  PROVE  Min(S) \in S
<1>1. S \subseteq Nat
  OBVIOUS
<1>2. PICK x \in S : \A y \in S : ~ (<<y, x>> \in OpToRel(<, Nat))
  BY <1>1, WFMin, NatLessThanWellFounded, Zenon
<1>3. \A y \in S : <<y, x>> \in Nat \X Nat
  BY <1>1
<1>4. \A y \in S : ~ (y < x)
  BY <1>2, <1>3 DEF OpToRel
<1>5. \A y \in S : x =< y
  BY <1>1, <1>4
<1> QED
  BY <1>5 DEF Min

\* Counting one more.
LEMMA IncrementType ==
  ASSUME NEW f \in [Msg -> Nat], NEW m \in Msg
  PROVE  [f EXCEPT ![m] = @ + 1] \in [Msg -> Nat]
OBVIOUS

\* Noting one more element.
LEMMA AddType ==
  ASSUME NEW S, NEW T, NEW f \in [S -> SUBSET T], NEW x \in S, NEW y \in T
  PROVE  [f EXCEPT ![x] = @ \cup {y}] \in [S -> SUBSET T]
OBVIOUS

\* Taking the first frame off a queue: what is left are frames of the queue.
LEMMA TailElements ==
  ASSUME NEW T, NEW s \in Seq(T), s # << >>
  PROVE  /\ Head(s) \in T
         /\ Head(s) = s[1]
         /\ Tail(s) \in Seq(T)
         /\ Len(s) \in Nat \ {0}
         /\ Len(Tail(s)) = Len(s) - 1
         /\ \A i \in 1..Len(Tail(s)) : Tail(s)[i] = s[i + 1]
BY HeadTailProperties, EmptySeq, SMT

\* Putting a frame at the end of a queue: the old ones keep their places.
LEMMA AppendElements ==
  ASSUME NEW T, NEW s \in Seq(T), NEW e \in T
  PROVE  /\ Append(s, e) \in Seq(T)
         /\ Len(s) \in Nat
         /\ Len(Append(s, e)) = Len(s) + 1
         /\ \A i \in 1..Len(s) : Append(s, e)[i] = s[i]
         /\ Append(s, e)[Len(s) + 1] = e
OBVIOUS

-----------------------------------------------------------------------------
(* Types. *)

\* What a handler's local variables are at the steps that use them.
Locals ==
  \A c \in Conn :
    /\ pc[c] \in {"register"} \cup (Registered \ {"cleanup"}) => user[c] \in User
    /\ pc[c] \in Working => cur[c] \in Msg
    /\ pc[c] = "forward" => rec[c] \in Conn /\ To[cur[c]] \in User
    /\ pc[c] = "drained" => pend[c] # {}

TypeInv == TypeOK /\ Locals

\* The constants of the state's types that the steps of a handler produce.
LEMMA FrameTypes ==
  /\ EOF \in InFrame
  /\ build_error \in OutFrame
  /\ build_ack(NoMsg, "authenticated") \in OutFrame
  /\ \A m \in Msg : /\ build_chat(m) \in OutFrame
                    /\ build_ack(m, "sent") \in OutFrame
                    /\ build_ack(m, "delivered") \in OutFrame
                    /\ record_seen(m) \in Task
                    /\ insert_message(m) \in Task
                    /\ update_delivered(m) \in Task
  /\ \A c \in Conn, u \in User : insert_session(c, u) \in Task
  /\ Shutdown \in Task
BY DEF EOF, InFrame, build_error, OutFrame, build_ack, build_chat, record_seen,
       insert_message, update_delivered, insert_session, Shutdown, Task, MsgOp

\* A task is the one its operation and its id say.
LEMMA TaskForms ==
  ASSUME NEW t \in Task
  PROVE  /\ t.op \in MsgOp => t.id \in Msg
         /\ t.op = "record_seen" => t = record_seen(t.id)
         /\ t.op = "insert_message" => t = insert_message(t.id)
         /\ t.op = "update_delivery_status" => t = update_delivered(t.id)
         /\ t.op = "insert_session" => t.id \in Conn /\ t.user \in User
BY DEF Task, MsgOp, Shutdown, record_seen, insert_message, update_delivered

\* Sending to a connection keeps the queues of frames well typed.
LEMMA PostType ==
  ASSUME TypeOK, NEW c \in Conn, NEW frame \in OutFrame, Post(c, frame)
  PROVE  outbox' \in [Conn -> Seq(OutFrame)]
<1>1. Append(outbox[c], frame) \in Seq(OutFrame)
  BY AppendElements DEF TypeOK
<1> QED
  BY <1>1 DEF TypeOK, Post

\* A handler that answers its client goes on, or to its cleanup.
LEMMA ReplyType ==
  ASSUME TypeOK, NEW c \in Conn, NEW frame \in OutFrame, NEW step \in Steps,
         Reply(c, frame, step)
  PROVE  /\ outbox' \in [Conn -> Seq(OutFrame)]
         /\ acks' \in SUBSET OutFrame
         /\ \E s \in {step, "cleanup"} : pc' = [pc EXCEPT ![c] = s]
<1>1. CASE Answer(c, frame, step)
  BY <1>1, PostType DEF Answer, Goto, TypeOK
<1>2. CASE AnswerRaises(c)
  BY <1>2 DEF AnswerRaises, Goto, TypeOK
<1> QED
  BY <1>1, <1>2 DEF Reply

\* A handler that receives takes a frame off its own queue.
LEMMA ReceiveType ==
  ASSUME TypeOK, NEW c \in Conn, NEW types, Receive(c, types)
  PROVE  /\ inbox' \in [Conn -> Seq(InFrame)]
         /\ Head(inbox[c]) \in InFrame
         /\ Head(inbox[c]).type \in types
<1>1. inbox[c] \in Seq(InFrame)
  BY DEF TypeOK
<1> QED
  BY <1>1, TailElements DEF TypeOK, Receive

\* A put on the write queue keeps the database well typed.
LEMMA EnqueueType ==
  ASSUME DbTypeOK, NEW task \in Task, Enqueue(task), UNCHANGED <<tables, writer>>
  PROVE  DbTypeOK'
<1>1. Append(wq, task) \in Seq(Task)
  BY AppendElements DEF DbTypeOK
<1> QED
  BY <1>1 DEF DbTypeOK, Enqueue, tables

\* So does a turn of the writer.
LEMMA WriterType ==
  ASSUME DbTypeOK, WriterStep
  PROVE  DbTypeOK'
<1>1. Head(wq) \in Task /\ Tail(wq) \in Seq(Task)
  BY TailElements DEF WriterStep, DbTypeOK
<1>2. messages' \in [Msg -> Status]
  BY <1>1 DEF WriterStep, Execute, DbTypeOK, ExecInsertMessage,
              ExecUpdateDelivered, Status, Task, MsgOp, Shutdown
<1>3. seen' \in SUBSET Msg
  <2>1. Head(wq).op = "record_seen" => Head(wq).id \in Msg
    BY <1>1, TaskForms DEF MsgOp
  <2> QED
    BY <2>1 DEF WriterStep, Execute, DbTypeOK, ExecRecordSeen
<1>4. sessions' \in [Conn -> User \cup {NoUser}]
  BY <1>1 DEF WriterStep, Execute, DbTypeOK, Task, MsgOp, Shutdown
<1>5. writer' \in {"running", "stopped"} /\ wq' \in Seq(Task)
  BY <1>1 DEF WriterStep, Execute, DbTypeOK
<1> QED
  BY <1>2, <1>3, <1>4, <1>5 DEF DbTypeOK

\* The steps of clients leave the server's own state alone.
LEMMA ServerStateType ==
  ASSUME TypeInv, UNCHANGED server
  PROVE  /\ DbTypeOK' /\ RouterTypeOK'
         /\ user' \in [Conn -> User \cup {NoUser}]
         /\ cur' \in [Conn -> Msg \cup {NoMsg}]
         /\ rec' \in [Conn -> Conn \cup {NoConn}]
         /\ pend' \in [Conn -> SUBSET Msg]
         /\ accepted' \in [Msg -> Nat] /\ handed' \in [Msg -> SUBSET Conn]
         /\ acks' \in SUBSET OutFrame
         /\ restarts' \in Nat
         /\ UNCHANGED pc => Locals'
<1>1. DbTypeOK' /\ RouterTypeOK'
  BY DEF server, dbvars, TypeInv, TypeOK, DbTypeOK, RouterTypeOK
<1>2. UNCHANGED pc => Locals'
  BY DEF server, locals, TypeInv, Locals
<1> QED
  BY <1>1, <1>2 DEF server, locals, history, TypeInv, TypeOK

\* Every step of a handler, a client or the process keeps the types.
LEMMA TypeInvNext == TypeInv /\ [Next]_vars => TypeInv'
<1> SUFFICES ASSUME TypeInv, [Next]_vars PROVE TypeInv'
  OBVIOUS
<1>1. << >> \in Seq(InFrame) /\ << >> \in Seq(OutFrame) /\ << >> \in Seq(Task)
  OBVIOUS
<1>2. ASSUME NEW c \in Conn, RecvFails(c) PROVE TypeInv'
  <2>1. DbTypeOK'
    BY <1>2 DEF RecvFails, TypeInv, TypeOK, DbTypeOK, dbvars, tables
  <2>2. RouterTypeOK'
    BY <1>2 DEF RecvFails, TypeInv, TypeOK, RouterTypeOK
  <2>3. /\ inbox' \in [Conn -> Seq(InFrame)]
        /\ Head(inbox[c]) \in InFrame
        /\ Head(inbox[c]).type \in {"eof", "garbage"}
    BY <1>2, ReceiveType DEF RecvFails, TypeInv
  <2>4. TypeOK'
    BY <1>2, <2>1, <2>2, <2>3
    DEF RecvFails, Goto, TypeInv, TypeOK, Steps, locals, client, history
  <2>5. Locals'
    BY <1>2
    DEF RecvFails, Goto, TypeInv, TypeOK, Locals, Registered, Working, locals
  <2> QED
    BY <2>4, <2>5 DEF TypeInv
<1>3. ASSUME NEW c \in Conn, AuthInvalid(c) PROVE TypeInv'
  <2>1. DbTypeOK'
    BY <1>3 DEF AuthInvalid, TypeInv, TypeOK, DbTypeOK, dbvars, tables
  <2>2. RouterTypeOK'
    BY <1>3 DEF AuthInvalid, TypeInv, TypeOK, RouterTypeOK
  <2>3. /\ inbox' \in [Conn -> Seq(InFrame)]
        /\ Head(inbox[c]) \in InFrame
        /\ Head(inbox[c]).type \in {"chat", "bad_chat"}
    BY <1>3, ReceiveType DEF AuthInvalid, TypeInv
  <2>4. /\ outbox' \in [Conn -> Seq(OutFrame)]
        /\ acks' \in SUBSET OutFrame
        /\ \E s \in {"cleanup"} : pc' = [pc EXCEPT ![c] = s]
    BY <1>3, ReplyType, FrameTypes
    DEF AuthInvalid, TypeInv, Steps, Locals, Working
  <2> QED
    BY <1>3, <1>1, <2>1, <2>2, <2>3, <2>4
    DEF AuthInvalid, TypeInv, TypeOK, Locals, Steps, Registered, Working,
        dbvars, tables, locals, client, history
<1>4. ASSUME NEW c \in Conn, AuthFailed(c) PROVE TypeInv'
  <2>1. DbTypeOK'
    BY <1>4 DEF AuthFailed, TypeInv, TypeOK, DbTypeOK, dbvars, tables
  <2>2. RouterTypeOK'
    BY <1>4 DEF AuthFailed, TypeInv, TypeOK, RouterTypeOK
  <2>3. /\ inbox' \in [Conn -> Seq(InFrame)]
        /\ Head(inbox[c]) \in InFrame
        /\ Head(inbox[c]).type \in {"bad_auth"}
    BY <1>4, ReceiveType DEF AuthFailed, TypeInv
  <2>4. /\ outbox' \in [Conn -> Seq(OutFrame)]
        /\ acks' \in SUBSET OutFrame
        /\ \E s \in {"cleanup"} : pc' = [pc EXCEPT ![c] = s]
    BY <1>4, ReplyType, FrameTypes
    DEF AuthFailed, TypeInv, Steps, Locals, Working
  <2> QED
    BY <1>4, <1>1, <2>1, <2>2, <2>3, <2>4
    DEF AuthFailed, InFrame, TypeInv, TypeOK, Locals, Steps, Registered,
        Working, dbvars, tables, locals, client, history
<1>4a. ASSUME NEW c \in Conn, AuthRaises(c) PROVE TypeInv'
  <2>1. DbTypeOK'
    BY <1>4a DEF AuthRaises, TypeInv, TypeOK, DbTypeOK, dbvars, tables
  <2>2. RouterTypeOK'
    BY <1>4a DEF AuthRaises, TypeInv, TypeOK, RouterTypeOK
  <2>3. /\ inbox' \in [Conn -> Seq(InFrame)]
        /\ Head(inbox[c]) \in InFrame
        /\ Head(inbox[c]).type \in {"bad_auth"}
    BY <1>4a, ReceiveType DEF AuthRaises, TypeInv
  <2> QED
    BY <1>4a, <1>1, <2>1, <2>2, <2>3
    DEF AuthRaises, Goto, InFrame, TypeInv, TypeOK, Locals, Steps, Registered,
        Working, dbvars, tables, locals, client, history
<1>5. ASSUME NEW c \in Conn, AuthOk(c) PROVE TypeInv'
  <2>1. /\ inbox' \in [Conn -> Seq(InFrame)]
        /\ Head(inbox[c]) \in InFrame
        /\ Head(inbox[c]).type \in {"auth"}
    BY <1>5, ReceiveType DEF AuthOk, TypeInv
  <2>2. Head(inbox[c]).user \in User
    BY <2>1 DEF InFrame
  <2>3. DbTypeOK'
    BY <1>5, <2>2, EnqueueType, FrameTypes DEF AuthOk, TypeInv, TypeOK, tables
  <2>4. RouterTypeOK'
    BY <1>5 DEF AuthOk, TypeInv, TypeOK, RouterTypeOK
  <2>5. /\ outbox' \in [Conn -> Seq(OutFrame)]
        /\ acks' \in SUBSET OutFrame
        /\ \E s \in {"register", "cleanup"} : pc' = [pc EXCEPT ![c] = s]
    BY <1>5, ReplyType, FrameTypes DEF AuthOk, TypeInv, Steps, Locals, Working
  <2> QED
    BY <1>5, <1>1, <2>1, <2>2, <2>3, <2>4, <2>5
    DEF AuthOk, TypeInv, TypeOK, Locals, Steps, Registered, Working, dbvars,
        tables, locals, client, history
<1>6. ASSUME NEW c \in Conn, RegisterConn(c) PROVE TypeInv'
  <2>1. DbTypeOK'
    BY <1>6 DEF RegisterConn, TypeInv, TypeOK, DbTypeOK, dbvars, tables
  <2>2. RouterTypeOK'
    BY <1>6 DEF RegisterConn, register, TypeInv, TypeOK, RouterTypeOK, Locals
  <2> QED
    BY <1>6, <1>1, <2>1, <2>2
    DEF RegisterConn, Goto, TypeInv, TypeOK, Locals, Steps, Registered,
        Working, dbvars, tables, locals, client, history
<1>7. ASSUME NEW c \in Conn, ReadPending(c) PROVE TypeInv'
  <2>1. DbTypeOK'
    BY <1>7 DEF ReadPending, TypeInv, TypeOK, DbTypeOK, dbvars, tables
  <2>2. RouterTypeOK'
    BY <1>7 DEF ReadPending, TypeInv, TypeOK, RouterTypeOK
  <2> QED
    BY <1>7, <1>1, <2>1, <2>2
    DEF ReadPending, Goto, get_pending_messages, TypeInv, TypeOK, Locals,
        Steps, Registered, Working, dbvars, tables, locals, client, history
<1>8. ASSUME NEW c \in Conn, Drain(c) PROVE TypeInv'
  <2>1. DbTypeOK'
    BY <1>8 DEF Drain, TypeInv, TypeOK, DbTypeOK, dbvars, tables
  <2>2. RouterTypeOK'
    BY <1>8 DEF Drain, TypeInv, TypeOK, RouterTypeOK
  <2>3. Min(pend[c]) \in Msg
    BY <1>8, MinInSet DEF Drain, TypeInv, TypeOK
  <2>4. outbox' \in [Conn -> Seq(OutFrame)]
    BY <1>8, <2>3, PostType, FrameTypes DEF Drain, TypeInv, TypeOK
  <2>5. handed' \in [Msg -> SUBSET Conn]
    BY <1>8, <2>3, AddType DEF Drain, TypeInv, TypeOK
  <2>6. TypeOK'
    BY <1>8, <1>1, <2>1, <2>2, <2>3, <2>4, <2>5
    DEF Drain, Goto, TypeInv, TypeOK, Steps, Registered, Working, dbvars,
        tables, locals, client, history
  <2>7. Locals'
    BY <1>8
    DEF Drain, Goto, TypeInv, TypeOK, Locals, Registered, Working, locals
  <2> QED
    BY <2>6, <2>7 DEF TypeInv
<1>9. ASSUME NEW c \in Conn, DrainFails(c) PROVE TypeInv'
  <2>1. DbTypeOK'
    BY <1>9 DEF DrainFails, TypeInv, TypeOK, DbTypeOK, dbvars, tables
  <2>2. RouterTypeOK'
    BY <1>9 DEF DrainFails, TypeInv, TypeOK, RouterTypeOK
  <2> QED
    BY <1>9, <1>1, <2>1, <2>2
    DEF DrainFails, Goto, TypeInv, TypeOK, Locals, Steps, Registered, Working,
        dbvars, tables, locals, client, history
<1>10. ASSUME NEW c \in Conn, DrainMark(c) PROVE TypeInv'
  <2>1. Min(pend[c]) \in Msg
    BY <1>10, MinInSet DEF DrainMark, TypeInv, TypeOK, Locals
  <2>2. DbTypeOK'
    BY <1>10, <2>1, EnqueueType, FrameTypes
    DEF DrainMark, TypeInv, TypeOK, tables
  <2>3. RouterTypeOK'
    BY <1>10 DEF DrainMark, TypeInv, TypeOK, RouterTypeOK
  <2> QED
    BY <1>10, <1>1, <2>1, <2>2, <2>3
    DEF DrainMark, Goto, TypeInv, TypeOK, Locals, Steps, Registered, Working,
        dbvars, tables, locals, client, history
<1>11. ASSUME NEW c \in Conn, DrainDone(c) PROVE TypeInv'
  <2>1. DbTypeOK'
    BY <1>11 DEF DrainDone, TypeInv, TypeOK, DbTypeOK, dbvars, tables
  <2>2. RouterTypeOK'
    BY <1>11 DEF DrainDone, TypeInv, TypeOK, RouterTypeOK
  <2> QED
    BY <1>11, <1>1, <2>1, <2>2
    DEF DrainDone, Goto, TypeInv, TypeOK, Locals, Steps, Registered, Working,
        dbvars, tables, locals, client, history
<1>12. ASSUME NEW c \in Conn, RecvInvalid(c) PROVE TypeInv'
  <2>1. DbTypeOK'
    BY <1>12 DEF RecvInvalid, TypeInv, TypeOK, DbTypeOK, dbvars, tables
  <2>2. RouterTypeOK'
    BY <1>12 DEF RecvInvalid, TypeInv, TypeOK, RouterTypeOK
  <2>3. /\ inbox' \in [Conn -> Seq(InFrame)]
        /\ Head(inbox[c]) \in InFrame
        /\ Head(inbox[c]).type \in {"bad_chat", "auth", "bad_auth"}
    BY <1>12, ReceiveType DEF RecvInvalid, TypeInv
  <2>4. /\ outbox' \in [Conn -> Seq(OutFrame)]
        /\ acks' \in SUBSET OutFrame
        /\ \E s \in {"loop", "cleanup"} : pc' = [pc EXCEPT ![c] = s]
    BY <1>12, ReplyType, FrameTypes
    DEF RecvInvalid, TypeInv, Steps, Locals, Working
  <2>5. TypeOK'
    BY <1>12, <1>1, <2>1, <2>2, <2>3, <2>4
    DEF RecvInvalid, TypeInv, TypeOK, Steps, Registered, Working, dbvars, tables,
        locals, client, history
  <2>6. Locals'
    BY <1>12, <2>4
    DEF RecvInvalid, TypeInv, TypeOK, Locals, Registered, Working, locals
  <2> QED
    BY <2>5, <2>6 DEF TypeInv
<1>13. ASSUME NEW c \in Conn, RecvReplay(c) PROVE TypeInv'
  <2>1. DbTypeOK'
    BY <1>13 DEF RecvReplay, TypeInv, TypeOK, DbTypeOK, dbvars, tables
  <2>2. RouterTypeOK'
    BY <1>13 DEF RecvReplay, TypeInv, TypeOK, RouterTypeOK
  <2>3. /\ inbox' \in [Conn -> Seq(InFrame)]
        /\ Head(inbox[c]) \in InFrame
        /\ Head(inbox[c]).type \in {"chat"}
    BY <1>13, ReceiveType DEF RecvReplay, TypeInv
  <2>4. /\ outbox' \in [Conn -> Seq(OutFrame)]
        /\ acks' \in SUBSET OutFrame
        /\ \E s \in {"loop", "cleanup"} : pc' = [pc EXCEPT ![c] = s]
    BY <1>13, ReplyType, FrameTypes
    DEF RecvReplay, TypeInv, Steps, Locals, Working
  <2> QED
    BY <1>13, <1>1, <2>1, <2>2, <2>3, <2>4
    DEF RecvReplay, TypeInv, TypeOK, Locals, Steps, Registered, Working,
        dbvars, tables, locals, client, history
<1>14. ASSUME NEW c \in Conn, RecvFresh(c) PROVE TypeInv'
  <2>1. DbTypeOK'
    BY <1>14 DEF RecvFresh, TypeInv, TypeOK, DbTypeOK, dbvars, tables
  <2>2. RouterTypeOK'
    BY <1>14 DEF RecvFresh, TypeInv, TypeOK, RouterTypeOK
  <2>3. /\ inbox' \in [Conn -> Seq(InFrame)]
        /\ Head(inbox[c]) \in InFrame
        /\ Head(inbox[c]).type \in {"chat"}
    BY <1>14, ReceiveType DEF RecvFresh, TypeInv
  <2>4. Head(inbox[c]).id \in Msg
    BY <2>3 DEF InFrame
  <2>5. accepted' \in [Msg -> Nat]
    BY <1>14, <2>4, IncrementType DEF RecvFresh, TypeInv, TypeOK
  <2>6. TypeOK'
    BY <1>14, <1>1, <2>1, <2>2, <2>3, <2>4, <2>5
    DEF RecvFresh, Goto, TypeInv, TypeOK, Steps, Registered, Working, dbvars,
        tables, locals, client, history
  <2>7. Locals'
    BY <1>14, <2>4
    DEF RecvFresh, Goto, TypeInv, TypeOK, Locals, Registered, Working, locals
  <2> QED
    BY <2>6, <2>7 DEF TypeInv
<1>15. ASSUME NEW c \in Conn, RecordSeen(c) PROVE TypeInv'
  <2>1. DbTypeOK'
    BY <1>15, EnqueueType, FrameTypes
    DEF RecordSeen, TypeInv, TypeOK, Locals, Registered, Working, dbvars,
        tables
  <2>2. RouterTypeOK'
    BY <1>15 DEF RecordSeen, TypeInv, TypeOK, RouterTypeOK
  <2> QED
    BY <1>15, <1>1, <2>1, <2>2
    DEF RecordSeen, Goto, TypeInv, TypeOK, Locals, Steps, Registered, Working,
        dbvars, tables, locals, client, history
<1>16. ASSUME NEW c \in Conn, InsertMessage(c) PROVE TypeInv'
  <2>1. DbTypeOK'
    BY <1>16, EnqueueType, FrameTypes
    DEF InsertMessage, TypeInv, TypeOK, Locals, Registered, Working, dbvars,
        tables
  <2>2. RouterTypeOK'
    BY <1>16 DEF InsertMessage, TypeInv, TypeOK, RouterTypeOK
  <2> QED
    BY <1>16, <1>1, <2>1, <2>2
    DEF InsertMessage, Goto, TypeInv, TypeOK, Locals, Steps, Registered,
        Working, dbvars, tables, locals, client, history
<1>17. ASSUME NEW c \in Conn, RouteOnline(c) PROVE TypeInv'
  <2>1. DbTypeOK'
    BY <1>17 DEF RouteOnline, TypeInv, TypeOK, DbTypeOK, dbvars, tables
  <2>2. RouterTypeOK'
    BY <1>17 DEF RouteOnline, TypeInv, TypeOK, RouterTypeOK
  <2>3. get_connection(To[cur[c]]) \in Conn /\ To[cur[c]] \in User
    BY <1>17
    DEF RouteOnline, TypeInv, TypeOK, RouterTypeOK, Locals, get_connection
  <2> QED
    BY <1>17, <1>1, <2>1, <2>2, <2>3
    DEF RouteOnline, Goto, TypeInv, TypeOK, Locals, Steps, Registered,
        Working, dbvars, tables, locals, client, history
<1>18. ASSUME NEW c \in Conn, RouteOffline(c) PROVE TypeInv'
  <2>1. DbTypeOK'
    BY <1>18 DEF RouteOffline, TypeInv, TypeOK, DbTypeOK, dbvars, tables
  <2>2. RouterTypeOK'
    BY <1>18 DEF RouteOffline, TypeInv, TypeOK, RouterTypeOK
  <2> QED
    BY <1>18, <1>1, <2>1, <2>2
    DEF RouteOffline, Goto, TypeInv, TypeOK, Locals, Steps, Registered,
        Working, dbvars, tables, locals, client, history
<1>18a. ASSUME NEW c \in Conn, RouteRaises(c) PROVE TypeInv'
  <2>1. DbTypeOK'
    BY <1>18a DEF RouteRaises, TypeInv, TypeOK, DbTypeOK, dbvars, tables
  <2>2. RouterTypeOK'
    BY <1>18a DEF RouteRaises, TypeInv, TypeOK, RouterTypeOK
  <2> QED
    BY <1>18a, <1>1, <2>1, <2>2
    DEF RouteRaises, Goto, TypeInv, TypeOK, Locals, Steps, Registered,
        Working, dbvars, tables, locals, client, history
<1>19. ASSUME NEW c \in Conn, Forward(c) PROVE TypeInv'
  <2>1. DbTypeOK'
    BY <1>19 DEF Forward, TypeInv, TypeOK, DbTypeOK, dbvars, tables
  <2>2. RouterTypeOK'
    BY <1>19 DEF Forward, TypeInv, TypeOK, RouterTypeOK
  <2>3. outbox' \in [Conn -> Seq(OutFrame)]
    BY <1>19, PostType, FrameTypes
    DEF Forward, TypeInv, TypeOK, Locals, Working
  <2>4. handed' \in [Msg -> SUBSET Conn]
    BY <1>19, AddType DEF Forward, TypeInv, TypeOK, Locals, Working
  <2>5. TypeOK'
    BY <1>19, <1>1, <2>1, <2>2, <2>3, <2>4
    DEF Forward, Goto, TypeInv, TypeOK, Steps, Registered, Working, dbvars,
        tables, locals, client, history
  <2>6. Locals'
    BY <1>19
    DEF Forward, Goto, TypeInv, TypeOK, Locals, Registered, Working, locals
  <2> QED
    BY <2>5, <2>6 DEF TypeInv
<1>20. ASSUME NEW c \in Conn, ForwardFails(c) PROVE TypeInv'
  <2>1. DbTypeOK'
    BY <1>20 DEF ForwardFails, TypeInv, TypeOK, DbTypeOK, dbvars, tables
  <2>2. RouterTypeOK'
    BY <1>20 DEF ForwardFails, TypeInv, TypeOK, RouterTypeOK
  <2> QED
    BY <1>20, <1>1, <2>1, <2>2
    DEF ForwardFails, Goto, TypeInv, TypeOK, Locals, Steps, Registered,
        Working, dbvars, tables, locals, client, history
<1>21. ASSUME NEW c \in Conn, Mark(c) PROVE TypeInv'
  <2>1. DbTypeOK'
    BY <1>21, EnqueueType, FrameTypes
    DEF Mark, TypeInv, TypeOK, Locals, Registered, Working, dbvars, tables
  <2>2. RouterTypeOK'
    BY <1>21 DEF Mark, TypeInv, TypeOK, RouterTypeOK
  <2> QED
    BY <1>21, <1>1, <2>1, <2>2
    DEF Mark, Goto, TypeInv, TypeOK, Locals, Steps, Registered, Working,
        dbvars, tables, locals, client, history
<1>21a. ASSUME NEW c \in Conn, AckSent(c) PROVE TypeInv'
  <2>1. DbTypeOK'
    BY <1>21a DEF AckSent, TypeInv, TypeOK, DbTypeOK, dbvars, tables
  <2>2. RouterTypeOK'
    BY <1>21a DEF AckSent, TypeInv, TypeOK, RouterTypeOK
  <2>3. /\ outbox' \in [Conn -> Seq(OutFrame)]
        /\ acks' \in SUBSET OutFrame
        /\ \E s \in {"loop", "cleanup"} : pc' = [pc EXCEPT ![c] = s]
    BY <1>21a, ReplyType, FrameTypes
    DEF AckSent, TypeInv, Steps, Locals, Working
  <2> QED
    BY <1>21a, <1>1, <2>1, <2>2, <2>3
    DEF AckSent, TypeInv, TypeOK, Locals, Steps, Registered, Working,
        dbvars, tables, locals, client, history
<1>21b. ASSUME NEW c \in Conn, AckDelivered(c) PROVE TypeInv'
  <2>1. DbTypeOK'
    BY <1>21b DEF AckDelivered, TypeInv, TypeOK, DbTypeOK, dbvars, tables
  <2>2. RouterTypeOK'
    BY <1>21b DEF AckDelivered, TypeInv, TypeOK, RouterTypeOK
  <2>3. /\ outbox' \in [Conn -> Seq(OutFrame)]
        /\ acks' \in SUBSET OutFrame
        /\ \E s \in {"loop", "cleanup"} : pc' = [pc EXCEPT ![c] = s]
    BY <1>21b, ReplyType, FrameTypes
    DEF AckDelivered, TypeInv, Steps, Locals, Working
  <2> QED
    BY <1>21b, <1>1, <2>1, <2>2, <2>3
    DEF AckDelivered, TypeInv, TypeOK, Locals, Steps, Registered, Working,
        dbvars, tables, locals, client, history
<1>22. ASSUME NEW c \in Conn, Cleanup(c) PROVE TypeInv'
  <2>1. DbTypeOK'
    BY <1>22 DEF Cleanup, TypeInv, TypeOK, DbTypeOK, dbvars, tables
  <2>2. RouterTypeOK'
    BY <1>22 DEF Cleanup, unregister, TypeInv, TypeOK, RouterTypeOK
  <2> QED
    BY <1>22, <1>1, <2>1, <2>2
    DEF Cleanup, Goto, TypeInv, TypeOK, Locals, Steps, Registered, Working,
        dbvars, tables, locals, client, history
<1>23. ASSUME NEW c \in Conn, Handler(c) PROVE TypeInv'
  BY <1>23, <1>2, <1>3, <1>4, <1>4a, <1>5, <1>6, <1>7, <1>8, <1>9, <1>10,
     <1>11, <1>12, <1>13, <1>14, <1>15, <1>16, <1>17, <1>18, <1>18a, <1>19,
     <1>20, <1>21, <1>21a, <1>21b, <1>22 DEF Handler
<1>24. ASSUME NEW c \in Conn, NEW u \in User, NEW k \in Kinds, Connect(c, u, k)
       PROVE  TypeInv'
  <2>1. [type |-> k, user |-> u, id |-> NoMsg] \in InFrame
    BY <1>24 DEF Kinds, InFrame
  <2>2. Append(inbox[c], [type |-> k, user |-> u, id |-> NoMsg])
          \in Seq(InFrame)
    BY <2>1, AppendElements DEF TypeInv, TypeOK
  <2>3. inbox' \in [Conn -> Seq(InFrame)]
    BY <1>24, <2>2 DEF Connect, TypeInv, TypeOK
  <2>4. /\ pc' \in [Conn -> Steps]
        /\ cl' \in [Conn -> {"none", "login", "open", "gone"}]
        /\ sends' \in Nat
        /\ UNCHANGED <<server, outbox, got>>
    BY <1>24 DEF Connect, SendMore, Goto, Steps, TypeInv, TypeOK
  <2>5. Locals'
    BY <1>24
    DEF Connect, Goto, server, locals, Registered, Working, TypeInv, TypeOK,
        Locals
  <2> QED
    BY <2>3, <2>4, <2>5, ServerStateType DEF TypeInv, TypeOK
<1>25. ASSUME NEW c \in Conn, NEW m \in Msg, ClientSend(c, m) PROVE TypeInv'
  <2>1. [type |-> "chat", user |-> NoUser, id |-> m] \in InFrame
    BY DEF InFrame
  <2>2. Append(inbox[c], [type |-> "chat", user |-> NoUser, id |-> m])
          \in Seq(InFrame)
    BY <2>1, AppendElements DEF TypeInv, TypeOK
  <2>3. inbox' \in [Conn -> Seq(InFrame)]
    BY <1>25, <2>2 DEF ClientSend, TypeInv, TypeOK
  <2>4. sends' \in Nat /\ UNCHANGED <<server, pc, outbox, cl, got>>
    BY <1>25 DEF ClientSend, SendMore, TypeInv, TypeOK
  <2> QED
    BY <2>3, <2>4, ServerStateType DEF TypeInv, TypeOK
<1>26. ASSUME NEW c \in Conn, NEW k \in {"bad_chat", "garbage"},
              ClientSendBad(c, k)
       PROVE  TypeInv'
  <2>1. [type |-> k, user |-> NoUser, id |-> NoMsg] \in InFrame
    BY DEF InFrame
  <2>2. Append(inbox[c], [type |-> k, user |-> NoUser, id |-> NoMsg])
          \in Seq(InFrame)
    BY <2>1, AppendElements DEF TypeInv, TypeOK
  <2>3. inbox' \in [Conn -> Seq(InFrame)]
    BY <1>26, <2>2 DEF ClientSendBad, TypeInv, TypeOK
  <2>4. sends' \in Nat /\ UNCHANGED <<server, pc, outbox, cl, got>>
    BY <1>26 DEF ClientSendBad, SendMore, TypeInv, TypeOK
  <2> QED
    BY <2>3, <2>4, ServerStateType DEF TypeInv, TypeOK
<1>27. ASSUME NEW c \in Conn, ClientRead(c) PROVE TypeInv'
  <2>1. Head(outbox[c]) \in OutFrame /\ Tail(outbox[c]) \in Seq(OutFrame)
    BY <1>27, TailElements DEF ClientRead, TypeInv, TypeOK
  <2>2. Append(inbox[c], EOF) \in Seq(InFrame)
    BY AppendElements, FrameTypes DEF TypeInv, TypeOK
  <2>3. /\ outbox' \in [Conn -> Seq(OutFrame)]
        /\ inbox' \in [Conn -> Seq(InFrame)]
        /\ cl' \in [Conn -> {"none", "login", "open", "gone"}]
    BY <1>27, <1>1, <2>1, <2>2 DEF ClientRead, TypeInv, TypeOK
  <2>4. got' \in [Conn -> SUBSET Msg]
    <3>1. Head(outbox[c]).type = "chat" => Head(outbox[c]).id \in Msg
      BY <2>1 DEF OutFrame
    <3> QED
      BY <1>27, <3>1, AddType DEF ClientRead, TypeInv, TypeOK
  <2>5. UNCHANGED <<server, pc, sends>>
    BY <1>27 DEF ClientRead
  <2> QED
    BY <2>3, <2>4, <2>5, ServerStateType DEF TypeInv, TypeOK
<1>28. ASSUME NEW c \in Conn, ClientClose(c) PROVE TypeInv'
  <2>1. Append(inbox[c], EOF) \in Seq(InFrame)
    BY AppendElements, FrameTypes DEF TypeInv, TypeOK
  <2>2. inbox' \in [Conn -> Seq(InFrame)]
    BY <1>28, <2>1 DEF ClientClose, TypeInv, TypeOK
  <2>3. /\ outbox' \in [Conn -> Seq(OutFrame)]
        /\ cl' \in [Conn -> {"none", "login", "open", "gone"}]
        /\ UNCHANGED <<server, pc, sends, got>>
    BY <1>28, <1>1 DEF ClientClose, TypeInv, TypeOK
  <2> QED
    BY <2>2, <2>3, ServerStateType DEF TypeInv, TypeOK
<1>29. CASE Writer
  <2>1. DbTypeOK'
    BY <1>29, WriterType DEF Writer, TypeInv, TypeOK
  <2> QED
    BY <1>29, <2>1
    DEF Writer, TypeInv, TypeOK, RouterTypeOK, Locals, Registered,
       Working, locals, client, history
<1>30. CASE Stop
  <2>1. DbTypeOK'
    BY <1>30, EnqueueType, FrameTypes DEF Stop, stop, TypeInv, TypeOK
  <2> QED
    BY <1>30, <2>1 DEF Stop, TypeInv, TypeOK, RouterTypeOK, Locals, Registered,
       Working, locals, client, history
<1>31. CASE Restart
  <2>1. DbTypeOK'
    BY <1>31, <1>1 DEF Restart, start, tables, DbTypeOK, TypeInv, TypeOK
  <2> QED
    BY <1>31, <1>1, <2>1 DEF Restart, TypeInv, TypeOK, RouterTypeOK, Locals,
       Registered, Working, Steps, history
<1>32. CASE UNCHANGED vars
  BY <1>32
  DEF vars, TypeInv, TypeOK, DbTypeOK, RouterTypeOK, Locals, Registered,
     Working, dbvars, tables, locals, client, history
<1> QED
  BY <1>23, <1>24, <1>25, <1>26, <1>27, <1>28, <1>29, <1>30, <1>31, <1>32
  DEF Next

\* Type correctness: every reachable state has its type, and every handler's
\* locals are assigned where handle_client uses them.
THEOREM TypeCorrect == Spec => [](TypeOK /\ Locals)
<1>1. Init => TypeInv
  BY DEF Init, DbInit, RouterInit, TypeInv, TypeOK, DbTypeOK, RouterTypeOK,
     Locals, Status, Steps, Registered, Working
<1>2. TypeInv /\ [Next]_vars => TypeInv'
  BY TypeInvNext
<1> QED
  BY <1>1, <1>2, PTL DEF Spec, TypeInv

-----------------------------------------------------------------------------
(* The routing table. *)

\* Before its login a connection has no username.  (A login that changed the
\* name of a connection could make another one the user's only connection.)
FreshAnonymous ==
  \A c \in Conn : pc[c] \in {"idle", "auth"} => user[c] = NoUser

RoutingInv == RouterSound /\ SoleSessionRouted /\ FreshAnonymous

-----------------------------------------------------------------------------
(* The steps of the system, as far as routing is concerned. *)

\* Handlers move on without touching the table or a username.
MovesOn ==
  /\ UNCHANGED <<router, user>>
  /\ \A c \in Conn :
       \/ pc'[c] = pc[c]
       \/ pc[c] \in Registered \ {"cleanup"} /\ pc'[c] \in Registered
       \/ pc[c] = "idle" /\ pc'[c] = "auth"
       \/ pc[c] = "auth" /\ pc'[c] = "cleanup"

\* A handler learns its username, from a login that succeeds or not.
LogsIn(c) ==
  /\ pc[c] = "auth"
  /\ \E u \in User : user' = [user EXCEPT ![c] = u]
  /\ \E s \in {"register", "cleanup"} : pc' = [pc EXCEPT ![c] = s]
  /\ pc'[c] = "register" => AuthOk(c)
  /\ UNCHANGED router

RoutingStep ==
  \/ MovesOn
  \/ \E c \in Conn : LogsIn(c) \/ RegisterConn(c) \/ Cleanup(c)
  \/ Restart

\* A handler that answers its own client moves to its next step or to cleanup.
LEMMA ReplyGoes ==
  ASSUME NEW c, NEW frame, NEW step, Reply(c, frame, step)
  PROVE  \E s \in {step, "cleanup"} : pc' = [pc EXCEPT ![c] = s]
BY DEF Reply, Answer, AnswerRaises, Goto

\* Every step of the system is one of these.
LEMMA NextIsRoutingStep == TypeInv /\ [Next]_vars => RoutingStep
<1> SUFFICES ASSUME TypeInv, [Next]_vars PROVE RoutingStep
  OBVIOUS
<1> USE DEF MovesOn
<1>1. pc \in [Conn -> Steps]
  BY DEF TypeInv, TypeOK
<1>2. ASSUME NEW c \in Conn, Handler(c) PROVE RoutingStep
  <2>1. CASE \/ ReadPending(c) \/ Drain(c) \/ DrainFails(c) \/ DrainMark(c)
             \/ DrainDone(c) \/ RecvFresh(c) \/ RecordSeen(c) \/ InsertMessage(c)
             \/ RouteOnline(c) \/ RouteRaises(c) \/ RouteOffline(c) \/ Forward(c)
             \/ ForwardFails(c) \/ Mark(c)
    <3>1. /\ UNCHANGED <<router, user>>
          /\ pc[c] \in Registered \ {"cleanup"}
          /\ \E s \in Registered : pc' = [pc EXCEPT ![c] = s]
      BY <2>1
      DEF ReadPending, Drain, DrainFails, DrainMark, DrainDone, RecvFresh,
          RecordSeen, InsertMessage, RouteOnline, RouteRaises, RouteOffline,
          Forward, ForwardFails, Mark, Goto, Registered, locals
    <3> QED
      BY <1>1, <3>1 DEF RoutingStep
  <2>2. CASE RecvInvalid(c) \/ RecvReplay(c) \/ AckSent(c) \/ AckDelivered(c)
    <3>1. UNCHANGED <<router, user>> /\ pc[c] \in Registered \ {"cleanup"}
      BY <2>2
      DEF RecvInvalid, RecvReplay, AckSent, AckDelivered, Registered, locals
    <3>2. \E s \in {"loop", "cleanup"} : pc' = [pc EXCEPT ![c] = s]
      BY <2>2, ReplyGoes DEF RecvInvalid, RecvReplay, AckSent, AckDelivered
    <3> QED
      BY <1>1, <3>1, <3>2 DEF RoutingStep, Registered
  <2>3. CASE RecvFails(c)
    BY <1>1, <2>3 DEF RecvFails, Goto, Registered, locals, RoutingStep
  <2>4. CASE AuthInvalid(c)
    <3>1. \E s \in {"cleanup"} : pc' = [pc EXCEPT ![c] = s]
      BY <2>4, ReplyGoes DEF AuthInvalid
    <3> QED
      BY <1>1, <2>4, <3>1 DEF AuthInvalid, locals, RoutingStep
  <2>5. CASE AuthFailed(c) \/ AuthRaises(c)
    <3>1. Head(inbox[c]).user \in User
      BY <2>5, ReceiveType DEF AuthFailed, AuthRaises, TypeInv, InFrame
    <3>2. \E s \in {"cleanup"} : pc' = [pc EXCEPT ![c] = s]
      BY <2>5, ReplyGoes DEF AuthFailed, AuthRaises, Goto
    <3> QED
      BY <1>1, <2>5, <3>1, <3>2 DEF AuthFailed, AuthRaises, LogsIn, RoutingStep
  <2>6. CASE AuthOk(c)
    <3>1. Head(inbox[c]).user \in User
      BY <2>6, ReceiveType DEF AuthOk, TypeInv, InFrame
    <3>2. \E s \in {"register", "cleanup"} : pc' = [pc EXCEPT ![c] = s]
      BY <2>6, ReplyGoes DEF AuthOk
    <3> QED
      BY <2>6, <3>1, <3>2 DEF AuthOk, LogsIn, RoutingStep
  <2>7. CASE RegisterConn(c) \/ Cleanup(c)
    BY <2>7 DEF RoutingStep
  <2> QED
    BY <1>2, <2>1, <2>2, <2>3, <2>4, <2>5, <2>6, <2>7 DEF Handler
<1>3. ASSUME UNCHANGED <<router, user, pc>> PROVE RoutingStep
  BY <1>3 DEF RoutingStep
<1>4. ASSUME NEW c \in Conn, NEW u \in User, NEW k \in Kinds, Connect(c, u, k)
      PROVE  RoutingStep
  BY <1>1, <1>4 DEF Connect, Goto, server, locals, RoutingStep
<1>5. ASSUME NEW c \in Conn, NEW m \in Msg, ClientSend(c, m) PROVE RoutingStep
  BY <1>3, <1>5 DEF ClientSend, server, locals
<1>6. ASSUME NEW c \in Conn, NEW k \in {"bad_chat", "garbage"}, ClientSendBad(c, k)
      PROVE  RoutingStep
  BY <1>3, <1>6 DEF ClientSendBad, server, locals
<1>7. ASSUME NEW c \in Conn, ClientRead(c) \/ ClientClose(c) PROVE RoutingStep
  BY <1>3, <1>7 DEF ClientRead, ClientClose, server, locals
<1>8. CASE Writer \/ Stop
  BY <1>3, <1>8 DEF Writer, Stop, locals
<1>9. CASE UNCHANGED vars
  BY <1>3, <1>9 DEF vars, locals
<1> QED
  BY <1>2, <1>4, <1>5, <1>6, <1>7, <1>8, <1>9 DEF Next, RoutingStep

\* A name once assigned stays, and a handler that has begun to serve a login
\* does not go back before it.
LEMMA NamesKept ==
  ASSUME TypeInv, FreshAnonymous, RoutingStep, NEW c \in Conn, user[c] \in User
  PROVE  user'[c] = user[c]
<1>1. ASSUME NEW d \in Conn, LogsIn(d) PROVE user'[c] = user[c]
  <2>1. d # c
    BY <1>1, NameAssumption DEF LogsIn, FreshAnonymous
  <2> QED
    BY <1>1, <2>1 DEF LogsIn, TypeInv, TypeOK
<1> QED
  BY <1>1 DEF RoutingStep, MovesOn, RegisterConn, Cleanup, Restart, locals

-----------------------------------------------------------------------------
(* The table. *)

LEMMA RoutingInvNext == TypeInv /\ RoutingInv /\ [Next]_vars => RoutingInv'
<1> SUFFICES ASSUME TypeInv, RoutingInv, [Next]_vars PROVE RoutingInv'
  OBVIOUS
<1>1. /\ pc \in [Conn -> Steps]
      /\ user \in [Conn -> User \cup {NoUser}]
      /\ router \in [User -> Conn \cup {NoConn}]
  BY DEF TypeInv, TypeOK, RouterTypeOK
<1>2. CASE MovesOn
  <2>1. RouterSound'
    BY <1>1, <1>2 DEF MovesOn, RoutingInv, RouterSound, Registered
  <2>2. SoleSessionRouted'
    BY <1>1, <1>2 DEF MovesOn, RoutingInv, SoleSessionRouted, FreshAnonymous, Registered
  <2>3. FreshAnonymous'
    BY <1>1, <1>2 DEF MovesOn, RoutingInv, FreshAnonymous, Registered
  <2> QED
    BY <2>1, <2>2, <2>3 DEF RoutingInv
<1>3. ASSUME NEW c \in Conn, LogsIn(c) PROVE RoutingInv'
  <2>1. PICK u \in User : user' = [user EXCEPT ![c] = u]
    BY <1>3 DEF LogsIn
  <2>2. PICK s \in {"register", "cleanup"} : pc' = [pc EXCEPT ![c] = s]
    BY <1>3 DEF LogsIn
  <2>3. pc[c] = "auth" /\ user[c] = NoUser /\ router' = router
    BY <1>3 DEF LogsIn, RoutingInv, FreshAnonymous
  <2>4. RouterSound'
    \* No entry leads to a connection that has not logged in.
    BY <1>1, <2>1, <2>2, <2>3 DEF RoutingInv, RouterSound, Registered
  <2>5. SoleSessionRouted'
    BY <1>1, <2>1, <2>2, <2>3 DEF RoutingInv, SoleSessionRouted, Registered
  <2>6. FreshAnonymous'
    BY <1>1, <2>1, <2>2 DEF RoutingInv, FreshAnonymous
  <2> QED
    BY <2>4, <2>5, <2>6 DEF RoutingInv
<1>4. ASSUME NEW c \in Conn, RegisterConn(c) PROVE RoutingInv'
  <2>1. /\ pc[c] = "register" /\ user[c] \in User /\ user' = user
        /\ pc' = [pc EXCEPT ![c] = "pending"]
        /\ router' = [router EXCEPT ![user[c]] = c]
    BY <1>4 DEF RegisterConn, register, Goto, locals, TypeInv, Locals
  <2>2. RouterSound'
    BY <1>1, <2>1 DEF RoutingInv, RouterSound, Registered
  <2>3. SoleSessionRouted'
    BY <1>1, <2>1 DEF RoutingInv, SoleSessionRouted, Registered
  <2>4. FreshAnonymous'
    BY <1>1, <2>1 DEF RoutingInv, FreshAnonymous
  <2> QED
    BY <2>2, <2>3, <2>4 DEF RoutingInv
<1>5. ASSUME NEW c \in Conn, Cleanup(c) PROVE RoutingInv'
  <2>1. /\ pc[c] = "cleanup" /\ user' = user
        /\ pc' = [pc EXCEPT ![c] = "closed"]
        /\ IF user[c] = NoUser THEN router' = router
           ELSE router' = [router EXCEPT ![user[c]] = NoConn]
    BY <1>5 DEF Cleanup, unregister, Goto
  <2>2. RouterSound'
    \* Whatever entry leads to this handler is the one that it removes.
    BY <1>1, <2>1, NameAssumption DEF RoutingInv, RouterSound, Registered
  <2>3. SoleSessionRouted'
    BY <1>1, <2>1 DEF RoutingInv, SoleSessionRouted, Registered
  <2>4. FreshAnonymous'
    BY <1>1, <2>1 DEF RoutingInv, FreshAnonymous
  <2> QED
    BY <2>2, <2>3, <2>4 DEF RoutingInv
<1>6. CASE Restart
  BY <1>1, <1>6
  DEF Restart, RoutingInv, RouterSound, SoleSessionRouted, FreshAnonymous, Registered
<1> QED
  BY <1>2, <1>3, <1>4, <1>5, <1>6, NextIsRoutingStep DEF RoutingStep

\* The routing table's invariant holds in every reachable state.
LEMMA RoutingInvariant == Spec => [](TypeInv /\ RoutingInv)
<1>1. Init => RoutingInv
  BY DEF Init, RouterInit, RoutingInv, RouterSound, SoleSessionRouted,
         FreshAnonymous, Registered
<1>2. TypeInv /\ RoutingInv /\ [Next]_vars => RoutingInv'
  BY RoutingInvNext
<1>3. Spec => []TypeInv
  BY TypeCorrect, PTL DEF TypeInv
<1> QED
  BY <1>1, <1>2, <1>3, PTL DEF Spec

\* An entry of the routing table always leads to a connection of its user
\* whose handler has registered it and not yet finished: register and
\* unregister of interleaved sessions leave no stale or foreign entry behind.
THEOREM RouterIsSound == Spec => []RouterSound
BY RoutingInvariant, PTL DEF RoutingInv

\* A user with one connection is online for the senders from its registration
\* to its end, whatever the handlers of other users do.
THEOREM SoleSessionIsRouted == Spec => []SoleSessionRouted
BY RoutingInvariant, PTL DEF RoutingInv

-----------------------------------------------------------------------------
(* Frames on their way to clients. *)

\* A frame that was written to connection c and not yet read.
Outgoing(c, frame) == \E i \in 1..Len(outbox[c]) : outbox[c][i] = frame

\* What is on its way after a frame was written.
LEMMA OutgoingAfterPost ==
  ASSUME TypeOK, NEW c \in Conn, NEW frame \in OutFrame, Post(c, frame)
  PROVE  /\ \A d \in Conn, f \in OutFrame :
              /\ Outgoing(d, f) => Outgoing(d, f)'
              /\ Outgoing(d, f)' => Outgoing(d, f) \/ (d = c /\ f = frame)
         /\ cl[c] = "gone" \/ pc[c] = "closed" \/ Outgoing(c, frame)'
<1>1. CASE cl[c] = "gone" \/ pc[c] = "closed"
  BY <1>1 DEF Post, Outgoing
<1>2. CASE ~ (cl[c] = "gone" \/ pc[c] = "closed")
  <2>1. /\ outbox' = [outbox EXCEPT ![c] = Append(outbox[c], frame)]
        /\ outbox \in [Conn -> Seq(OutFrame)]
    BY <1>2 DEF Post, TypeOK
  <2>2. /\ Len(outbox[c]) \in Nat
        /\ Len(outbox'[c]) = Len(outbox[c]) + 1
        /\ \A i \in 1..Len(outbox[c]) : outbox'[c][i] = outbox[c][i]
        /\ outbox'[c][Len(outbox[c]) + 1] = frame
    BY <2>1, AppendElements
  <2>3. \A d \in Conn : d # c => outbox'[d] = outbox[d]
    BY <2>1
  <2>4. Outgoing(c, frame)'
    BY <2>2 DEF Outgoing
  <2>5. ASSUME NEW f \in OutFrame
        PROVE  /\ Outgoing(c, f) => Outgoing(c, f)'
               /\ Outgoing(c, f)' => Outgoing(c, f) \/ f = frame
    <3>1. ASSUME Outgoing(c, f) PROVE Outgoing(c, f)'
      <4>1. PICK i \in 1..Len(outbox[c]) : outbox[c][i] = f
        BY <3>1 DEF Outgoing
      <4>2. i \in 1..Len(outbox'[c]) /\ outbox'[c][i] = f
        BY <2>2, <4>1
      <4> QED
        BY <4>2 DEF Outgoing
    <3>2. ASSUME Outgoing(c, f)' PROVE Outgoing(c, f) \/ f = frame
      <4>1. PICK i \in 1..Len(outbox'[c]) : outbox'[c][i] = f
        BY <3>2 DEF Outgoing
      <4>2. i \in 1..Len(outbox[c]) \/ i = Len(outbox[c]) + 1
        BY <2>2
      <4> QED
        BY <2>2, <4>1, <4>2 DEF Outgoing
    <3> QED
      BY <3>1, <3>2
  <2>6. ASSUME NEW d \in Conn, d # c, NEW f \in OutFrame
        PROVE  Outgoing(d, f)' <=> Outgoing(d, f)
    BY <2>3, <2>6 DEF Outgoing
  <2> QED
    BY <2>4, <2>5, <2>6
<1> QED
  BY <1>1, <1>2

\* An answer that is no chat frame leaves the chat frames as they are.
LEMMA ChatsAfterReply ==
  ASSUME TypeOK, NEW c \in Conn, NEW frame \in OutFrame, NEW step,
         Reply(c, frame, step), frame.type # "chat"
  PROVE  \A d \in Conn, m \in Msg :
           Outgoing(d, build_chat(m))' <=> Outgoing(d, build_chat(m))
<1>1. \A m \in Msg : build_chat(m) \in OutFrame /\ build_chat(m) # frame
  <2>1. \A m \in Msg : build_chat(m).type = "chat"
    BY DEF build_chat
  <2> QED
    BY <2>1, FrameTypes
<1>2. CASE Answer(c, frame, step)
  <2>1. \A d \in Conn, f \in OutFrame :
          /\ Outgoing(d, f) => Outgoing(d, f)'
          /\ Outgoing(d, f)' => Outgoing(d, f) \/ (d = c /\ f = frame)
    BY <1>2, OutgoingAfterPost DEF Answer
  <2> QED
    BY <1>1, <2>1
<1>3. CASE AnswerRaises(c)
  BY <1>3 DEF AnswerRaises, Outgoing
<1> QED
  BY <1>2, <1>3 DEF Reply

\* The client takes the first frame: every other one stays, unless the client
\* leaves.
LEMMA ChatsAfterRead ==
  ASSUME TypeOK, NEW c \in Conn, ClientRead(c)
  PROVE  /\ \A d \in Conn, m \in Msg :
              Outgoing(d, build_chat(m))' => Outgoing(d, build_chat(m))
         /\ \A d \in Conn, m \in Msg : Outgoing(d, build_chat(m)) =>
              Outgoing(d, build_chat(m))' \/ m \in got'[d] \/ cl'[d] = "gone"
<1> DEFINE refused == cl[c] = "login" /\ Head(outbox[c]).type = "error"
<1>1. /\ outbox[c] # << >>
      /\ outbox \in [Conn -> Seq(OutFrame)]
      /\ outbox' = [outbox EXCEPT ![c] = IF refused THEN << >> ELSE Tail(@)]
      /\ cl \in [Conn -> {"none", "login", "open", "gone"}]
      /\ cl' = [cl EXCEPT ![c] = IF refused THEN "gone" ELSE "open"]
      /\ Head(outbox[c]).type = "chat" => Head(outbox[c]).id \in got'[c]
  BY DEF ClientRead, TypeOK
<1> HIDE DEF refused
<1>2. \A d \in Conn : d # c => outbox'[d] = outbox[d]
  BY <1>1
<1>3. CASE refused
  <2>1. Len(outbox'[c]) = 0 /\ cl'[c] = "gone"
    BY <1>1, <1>3
  <2> QED
    BY <1>2, <2>1 DEF Outgoing
<1>4. CASE ~refused
  <2>1. /\ Len(outbox[c]) \in Nat \ {0}
        /\ Len(outbox'[c]) = Len(outbox[c]) - 1
        /\ \A i \in 1..Len(outbox'[c]) : outbox'[c][i] = outbox[c][i + 1]
        /\ Head(outbox[c]) = outbox[c][1]
    BY <1>1, <1>4, TailElements
  <2>2. ASSUME NEW m \in Msg, NEW i \in 1..Len(outbox'[c]),
               outbox'[c][i] = build_chat(m)
        PROVE  Outgoing(c, build_chat(m))
    <3>1. i + 1 \in 1..Len(outbox[c]) /\ outbox[c][i + 1] = build_chat(m)
      BY <2>1, <2>2
    <3> QED
      BY <3>1 DEF Outgoing
  <2>3. ASSUME NEW m \in Msg, NEW i \in 1..Len(outbox[c]),
               outbox[c][i] = build_chat(m)
        PROVE  Outgoing(c, build_chat(m))' \/ m \in got'[c]
    <3>1. CASE i = 1
      BY <1>1, <2>1, <2>3, <3>1 DEF build_chat
    <3>2. CASE i # 1
      <4>1. i - 1 \in 1..Len(outbox'[c]) /\ outbox'[c][i - 1] = build_chat(m)
        BY <2>1, <2>3, <3>2
      <4> QED
        BY <4>1 DEF Outgoing
    <3> QED
      BY <3>1, <3>2
  <2> QED
    BY <1>2, <2>2, <2>3 DEF Outgoing
<1> QED
  BY <1>3, <1>4

\* Where chat frames come from: out of the offline queue of the connection's
\* own user, or from a sender's handler that looked the connection up.
ChatsFrom(d, m) ==
  \E c \in Conn : \/ Drain(c) /\ d = c /\ m = Min(pend[c])
                  \/ Forward(c) /\ d = rec[c] /\ m = cur[c]

\* How a chat frame leaves: it is read, or its client is gone.
ChatsTo(d, m) == m \in got'[d] \/ cl'[d] = "gone"

ChatStep ==
  \A d \in Conn, m \in Msg :
    /\ Outgoing(d, build_chat(m))' => Outgoing(d, build_chat(m)) \/ ChatsFrom(d, m)
    /\ Outgoing(d, build_chat(m)) =>
         Outgoing(d, build_chat(m))' \/ ChatsTo(d, m) \/ Restart

\* Every step of the system puts chat frames on their way, and takes them off,
\* in these ways only.
LEMMA NextIsChatStep == TypeInv /\ [Next]_vars => ChatStep
<1> SUFFICES ASSUME TypeInv, [Next]_vars PROVE ChatStep
  OBVIOUS
<1>1. TypeOK
  BY DEF TypeInv
<1>2. ASSUME \A d \in Conn, m \in Msg :
               Outgoing(d, build_chat(m))' <=> Outgoing(d, build_chat(m))
      PROVE  ChatStep
  BY <1>2 DEF ChatStep
<1>3. ASSUME UNCHANGED outbox PROVE ChatStep
  BY <1>2, <1>3 DEF Outgoing
<1>4. ASSUME NEW c \in Conn, Handler(c) PROVE ChatStep
  <2>1. CASE \/ RecvFails(c) \/ RegisterConn(c) \/ ReadPending(c) \/ DrainFails(c)
             \/ DrainMark(c) \/ DrainDone(c) \/ RecvFresh(c) \/ RecordSeen(c)
             \/ InsertMessage(c) \/ RouteOnline(c) \/ RouteRaises(c)
             \/ RouteOffline(c) \/ ForwardFails(c) \/ Mark(c) \/ AuthRaises(c)
             \/ Cleanup(c)
    BY <1>3, <2>1
    DEF RecvFails, RegisterConn, ReadPending, DrainFails, DrainMark, DrainDone,
        RecvFresh, RecordSeen, InsertMessage, RouteOnline, RouteRaises,
        RouteOffline, ForwardFails, Mark, AuthRaises, Cleanup
  <2>2. CASE AuthInvalid(c) \/ AuthFailed(c) \/ RecvInvalid(c) \/ RecvReplay(c)
    <3>1. \E step \in Steps : Reply(c, build_error, step)
      BY <2>2 DEF AuthInvalid, AuthFailed, RecvInvalid, RecvReplay, Steps
    <3>2. build_error \in OutFrame /\ build_error.type # "chat"
      BY FrameTypes DEF build_error
    <3> QED
      BY <1>1, <1>2, <3>1, <3>2, ChatsAfterReply
  <2>3. CASE AuthOk(c)
    <3>1. /\ build_ack(NoMsg, "authenticated") \in OutFrame
          /\ build_ack(NoMsg, "authenticated").type # "chat"
      BY FrameTypes DEF build_ack
    <3> QED
      BY <1>1, <1>2, <2>3, <3>1, ChatsAfterReply DEF AuthOk
  <2>4. CASE AckSent(c) \/ AckDelivered(c)
    <3>1. cur[c] \in Msg
      BY <2>4 DEF AckSent, AckDelivered, TypeInv, Locals, Working
    <3>2. /\ build_ack(cur[c], "sent") \in OutFrame
          /\ build_ack(cur[c], "delivered") \in OutFrame
          /\ build_ack(cur[c], "sent").type # "chat"
          /\ build_ack(cur[c], "delivered").type # "chat"
      BY <3>1, FrameTypes DEF build_ack
    <3>3. \/ Reply(c, build_ack(cur[c], "sent"), "loop")
          \/ Reply(c, build_ack(cur[c], "delivered"), "loop")
      BY <2>4 DEF AckSent, AckDelivered
    <3> QED
      BY <1>1, <1>2, <3>2, <3>3, ChatsAfterReply
  <2>5. CASE Drain(c)
    <3>1. Min(pend[c]) \in Msg /\ Post(c, build_chat(Min(pend[c])))
      BY <2>5, MinInSet DEF Drain, TypeInv, TypeOK
    <3>2. \A d \in Conn, f \in OutFrame :
            /\ Outgoing(d, f) => Outgoing(d, f)'
            /\ Outgoing(d, f)' =>
                 Outgoing(d, f) \/ (d = c /\ f = build_chat(Min(pend[c])))
      <4>1. build_chat(Min(pend[c])) \in OutFrame
        BY <3>1, FrameTypes
      <4> QED
        BY <1>1, <3>1, <4>1, OutgoingAfterPost
    <3>3. \A m \in Msg : /\ build_chat(m) \in OutFrame
                         /\ build_chat(m) = build_chat(Min(pend[c])) => m = Min(pend[c])
      BY FrameTypes DEF build_chat
    <3> QED
      BY <2>5, <3>2, <3>3 DEF ChatStep, ChatsFrom
  <2>6. CASE Forward(c)
    <3>1. cur[c] \in Msg /\ rec[c] \in Conn /\ Post(rec[c], build_chat(cur[c]))
      BY <2>6 DEF Forward, TypeInv, Locals, Working
    <3>2. \A d \in Conn, f \in OutFrame :
            /\ Outgoing(d, f) => Outgoing(d, f)'
            /\ Outgoing(d, f)' =>
                 Outgoing(d, f) \/ (d = rec[c] /\ f = build_chat(cur[c]))
      BY <1>1, <3>1, FrameTypes, OutgoingAfterPost
    <3>3. \A m \in Msg : /\ build_chat(m) \in OutFrame
                         /\ build_chat(m) = build_chat(cur[c]) => m = cur[c]
      BY FrameTypes DEF build_chat
    <3> QED
      BY <2>6, <3>2, <3>3 DEF ChatStep, ChatsFrom
  <2> QED
    BY <1>4, <2>1, <2>2, <2>3, <2>4, <2>5, <2>6 DEF Handler
<1>5. ASSUME NEW c \in Conn, NEW u \in User, NEW k \in Kinds, Connect(c, u, k)
      PROVE  ChatStep
  BY <1>3, <1>5 DEF Connect
<1>6. ASSUME NEW c \in Conn, NEW m \in Msg, ClientSend(c, m) PROVE ChatStep
  BY <1>3, <1>6 DEF ClientSend
<1>7. ASSUME NEW c \in Conn, NEW k \in {"bad_chat", "garbage"}, ClientSendBad(c, k)
      PROVE  ChatStep
  BY <1>3, <1>7 DEF ClientSendBad
<1>8. ASSUME NEW c \in Conn, ClientRead(c) PROVE ChatStep
  BY <1>1, <1>8, ChatsAfterRead DEF ChatStep, ChatsTo
<1>9. ASSUME NEW c \in Conn, ClientClose(c) PROVE ChatStep
  <2>1. Len(outbox'[c]) = 0 /\ cl'[c] = "gone"
        /\ \A d \in Conn : d # c => outbox'[d] = outbox[d]
    BY <1>9 DEF ClientClose, TypeInv, TypeOK
  <2> QED
    BY <2>1 DEF ChatStep, ChatsTo, Outgoing
<1>10. CASE Restart
  <2>1. \A d \in Conn : Len(outbox'[d]) = 0
    BY <1>10 DEF Restart
  <2> QED
    BY <1>10, <2>1 DEF ChatStep, Outgoing
<1>11. CASE Writer \/ Stop
  BY <1>3, <1>11 DEF Writer, Stop
<1>12. CASE UNCHANGED vars
  BY <1>3, <1>12 DEF vars
<1> QED
  BY <1>4, <1>5, <1>6, <1>7, <1>8, <1>9, <1>10, <1>11, <1>12 DEF Next

-----------------------------------------------------------------------------
(* Frames reach their recipient. *)

\* The frames on their way to a connection, and those its handler has read
\* from the offline queue, are for its user, and a handler about to forward
\* holds a connection of the recipient.
Addressed ==
  \A c \in Conn :
    /\ \A m \in Msg : Outgoing(c, build_chat(m)) => To[m] = user[c] /\ To[m] \in User
    /\ \A m \in pend[c] : To[m] = user[c] /\ To[m] \in User
    /\ pc[c] = "forward" => user[rec[c]] = To[cur[c]]

\* How a handler comes to its next forward and its list of pending messages.
LocalsStep ==
  \A c \in Conn :
    /\ pend'[c] \subseteq pend[c] \/ ReadPending(c)
    /\ pc'[c] = "forward" =>
         \/ RouteOnline(c)
         \/ pc[c] = "forward" /\ rec'[c] = rec[c] /\ cur'[c] = cur[c]

\* Every step changes a handler's locals only as LocalsStep says.
LEMMA NextIsLocalsStep == TypeInv /\ [Next]_vars => LocalsStep
<1> SUFFICES ASSUME TypeInv, [Next]_vars PROVE LocalsStep
  OBVIOUS
<1>1. /\ pc \in [Conn -> Steps]
      /\ cur \in [Conn -> Msg \cup {NoMsg}]
      /\ rec \in [Conn -> Conn \cup {NoConn}]
      /\ pend \in [Conn -> SUBSET Msg]
  BY DEF TypeInv, TypeOK
<1>2. ASSUME UNCHANGED locals, \A c \in Conn : pc'[c] = "forward" => pc[c] = "forward"
      PROVE  LocalsStep
  BY <1>2 DEF locals, LocalsStep
<1>3. ASSUME NEW c \in Conn, Handler(c) PROVE LocalsStep
  <2>1. ASSUME NEW s, s # "forward", pc' = [pc EXCEPT ![c] = s]
        PROVE  \A d \in Conn : pc'[d] = "forward" => pc[d] = "forward" /\ d # c
    BY <1>1, <2>1
  <2>2. CASE \/ RecvFails(c) \/ RegisterConn(c) \/ Drain(c) \/ DrainDone(c)
             \/ RecordSeen(c) \/ InsertMessage(c) \/ RouteRaises(c)
             \/ RouteOffline(c) \/ Forward(c) \/ ForwardFails(c) \/ Mark(c)
    <3>1. UNCHANGED locals /\ \E s \in Steps \ {"forward"} : pc' = [pc EXCEPT ![c] = s]
      BY <2>2
      DEF RecvFails, RegisterConn, Drain, DrainDone, RecordSeen, InsertMessage,
          RouteRaises, RouteOffline, Forward, ForwardFails, Mark, Goto, Steps
    <3> QED
      BY <1>2, <2>1, <3>1
  <2>3. CASE \/ AuthInvalid(c) \/ RecvInvalid(c) \/ RecvReplay(c) \/ AckSent(c)
             \/ AckDelivered(c)
    <3>1. /\ UNCHANGED locals
          /\ \E s \in {"loop", "cleanup"} : pc' = [pc EXCEPT ![c] = s]
      BY <2>3, ReplyGoes
      DEF AuthInvalid, RecvInvalid, RecvReplay, AckSent, AckDelivered
    <3> QED
      BY <1>2, <2>1, <3>1
  <2>4. CASE AuthFailed(c) \/ AuthRaises(c) \/ AuthOk(c)
    <3>1. /\ UNCHANGED <<cur, rec, pend>>
          /\ \E s \in {"register", "cleanup"} : pc' = [pc EXCEPT ![c] = s]
      BY <2>4, ReplyGoes DEF AuthFailed, AuthRaises, AuthOk, Goto
    <3> QED
      BY <2>1, <3>1 DEF LocalsStep
  <2>5. CASE ReadPending(c)
    BY <1>1, <2>5 DEF ReadPending, Goto, LocalsStep
  <2>6. CASE DrainFails(c) \/ DrainMark(c)
    <3>1. /\ UNCHANGED <<cur, rec>>
          /\ \A d \in Conn : pend'[d] \subseteq pend[d]
          /\ \E s \in {"loop", "drain"} : pc' = [pc EXCEPT ![c] = s]
      BY <1>1, <2>6 DEF DrainFails, DrainMark, Goto
    <3> QED
      BY <2>1, <3>1 DEF LocalsStep
  <2>7. CASE RecvFresh(c)
    BY <1>1, <2>7 DEF RecvFresh, Goto, LocalsStep
  <2>8. CASE RouteOnline(c)
    BY <1>1, <2>8 DEF RouteOnline, Goto, LocalsStep
  <2>9. CASE Cleanup(c)
    BY <1>1, <2>9 DEF Cleanup, Goto, LocalsStep
  <2> QED
    BY <1>3, <2>2, <2>3, <2>4, <2>5, <2>6, <2>7, <2>8, <2>9 DEF Handler
<1>4. ASSUME NEW c \in Conn, NEW u \in User, NEW k \in Kinds, Connect(c, u, k)
      PROVE  LocalsStep
  BY <1>1, <1>2, <1>4 DEF Connect, Goto, server
<1>5. ASSUME NEW c \in Conn, NEW m \in Msg, ClientSend(c, m) PROVE LocalsStep
  BY <1>2, <1>5 DEF ClientSend, server
<1>6. ASSUME NEW c \in Conn, NEW k \in {"bad_chat", "garbage"}, ClientSendBad(c, k)
      PROVE  LocalsStep
  BY <1>2, <1>6 DEF ClientSendBad, server
<1>7. ASSUME NEW c \in Conn, ClientRead(c) \/ ClientClose(c) PROVE LocalsStep
  BY <1>2, <1>7 DEF ClientRead, ClientClose, server
<1>8. CASE Writer \/ Stop
  BY <1>2, <1>8 DEF Writer, Stop
<1>9. CASE Restart
  BY <1>9 DEF Restart, LocalsStep
<1>10. CASE UNCHANGED vars
  BY <1>2, <1>10 DEF vars
<1> QED
  BY <1>3, <1>4, <1>5, <1>6, <1>7, <1>8, <1>9, <1>10 DEF Next

\* Every step keeps the frames, and the rows a drain holds, with their recipient.
LEMMA AddressedNext ==
  TypeInv /\ RoutingInv /\ Addressed /\ [Next]_vars => Addressed'
<1> SUFFICES ASSUME TypeInv, RoutingInv, Addressed, [Next]_vars PROVE Addressed'
  OBVIOUS
<1>1. RoutingStep /\ ChatStep /\ LocalsStep
  BY NextIsRoutingStep, NextIsChatStep, NextIsLocalsStep
<1>2. \A c \in Conn : user[c] \in User => user'[c] = user[c]
  BY <1>1, NamesKept DEF RoutingInv
<1>3. \A c \in Conn : /\ pend[c] \subseteq Msg
                      /\ pc[c] = "forward" => /\ rec[c] \in Conn
                                              /\ cur[c] \in Msg
                                              /\ To[cur[c]] \in User
  BY DEF TypeInv, TypeOK, Locals, Working
<1>4. ASSUME NEW c \in Conn, NEW m \in Msg, Outgoing(c, build_chat(m))'
      PROVE  To[m] = user'[c] /\ To[m] \in User
  <2>1. CASE Outgoing(c, build_chat(m))
    BY <1>2, <2>1 DEF Addressed
  <2>2. ASSUME NEW d \in Conn, Drain(d), c = d, m = Min(pend[d])
        PROVE  To[m] = user'[c] /\ To[m] \in User
    <3>1. m \in pend[c]
      BY <1>3, <2>2, MinInSet DEF Drain
    <3> QED
      BY <1>2, <3>1 DEF Addressed
  <2>3. ASSUME NEW d \in Conn, Forward(d), c = rec[d], m = cur[d]
        PROVE  To[m] = user'[c] /\ To[m] \in User
    BY <1>2, <1>3, <2>3 DEF Forward, Addressed
  <2> QED
    BY <1>1, <1>4, <2>1, <2>2, <2>3 DEF ChatStep, ChatsFrom
<1>5. ASSUME NEW c \in Conn, NEW m \in pend'[c]
      PROVE  To[m] = user'[c] /\ To[m] \in User
  <2>1. CASE m \in pend[c]
    BY <1>2, <2>1 DEF Addressed
  <2>2. CASE ReadPending(c)
    <3>1. user[c] \in User /\ m \in get_pending_messages(user[c])
      BY <1>5, <2>2 DEF ReadPending, TypeInv, TypeOK, Locals, Registered
    <3> QED
      BY <1>2, <3>1 DEF get_pending_messages
  <2> QED
    BY <1>1, <1>5, <2>1, <2>2 DEF LocalsStep
<1>6. ASSUME NEW c \in Conn, pc'[c] = "forward"
      PROVE  user'[rec'[c]] = To[cur'[c]]
  <2>1. CASE pc[c] = "forward" /\ rec'[c] = rec[c] /\ cur'[c] = cur[c]
    BY <1>2, <1>3, <2>1 DEF Addressed
  <2>2. CASE RouteOnline(c)
    <3>1. /\ To[cur[c]] \in User /\ router[To[cur[c]]] # NoConn
          /\ rec'[c] = router[To[cur[c]]]
          /\ cur' = cur /\ user' = user
      BY <2>2
      DEF RouteOnline, get_connection, TypeInv, TypeOK, Locals
    <3> QED
      BY <3>1 DEF RoutingInv, RouterSound
  <2> QED
    BY <1>1, <1>6, <2>1, <2>2 DEF LocalsStep
<1> QED
  BY <1>4, <1>5, <1>6 DEF Addressed

\* That, with the routing invariant, in every reachable state.
LEMMA AddressedInvariant == Spec => [](TypeInv /\ RoutingInv /\ Addressed)
<1>1. Init => Addressed
  <2>1. Init => \A c \in Conn : Len(outbox[c]) = 0 /\ pend[c] = {} /\ pc[c] = "idle"
    BY DEF Init
  <2> QED
    BY <2>1 DEF Addressed, Outgoing
<1>2. TypeInv /\ RoutingInv /\ Addressed /\ [Next]_vars => Addressed'
  BY AddressedNext
<1> QED
  BY <1>1, <1>2, RoutingInvariant, PTL DEF Spec

\* A chat frame is only ever written to a session of its recipient: neither a
\* re-registration nor a departure between get_connection and send_msg can
\* make it reach somebody else.
THEOREM FramesReachRecipient == Spec => []FramesAddressed
<1>1. TypeInv /\ Addressed => FramesAddressed
  <2> SUFFICES ASSUME TypeInv, Addressed, NEW c \in Conn, NEW i \in 1..Len(outbox[c]),
                      outbox[c][i].type = "chat"
               PROVE  To[outbox[c][i].id] = user[c]
    BY DEF FramesAddressed
  <2>1. outbox[c][i] \in OutFrame
    BY ElementOfSeq DEF TypeInv, TypeOK
  <2>2. outbox[c][i].id \in Msg /\ outbox[c][i] = build_chat(outbox[c][i].id)
    BY <2>1 DEF OutFrame, build_chat
  <2>3. Outgoing(c, build_chat(outbox[c][i].id))
    BY <2>2 DEF Outgoing
  <2> QED
    BY <2>2, <2>3 DEF Addressed
<1> QED
  BY <1>1, AddressedInvariant, PTL

-----------------------------------------------------------------------------
(* What was reported as delivered. *)

\* A message at a connection of its recipient: read, on its way, or lost with
\* that session.
Kept(m, c) ==
  /\ user[c] = To[m] /\ To[m] \in User
  /\ \/ m \in got[c]
     \/ Outgoing(c, build_chat(m))
     \/ cl[c] = "gone" \/ pc[c] = "closed"

\* Wherever a message was written to, it is kept.
HandedKept == \A m \in Msg : \A c \in handed[m] : Kept(m, c)

\* A handler reports as delivered only what was written to some session of the
\* recipient, or is for the server.
WasHanded(m) == To[m] = Server \/ handed[m] # {}

ReportsHanded ==
  /\ \A m \in Msg : build_ack(m, "delivered") \in acks => WasHanded(m)
  /\ \A c \in Conn : pc[c] \in {"mark", "ack_delivered"} => WasHanded(cur[c])

\* A connection that has been used stays gone or closed once it is, what was
\* read stays read, what was written stays written, and the writes are those
\* of ChatsFrom; a report comes from a handler at "ack_sent" or at
\* "ack_delivered", and to the latter it got by forwarding the message or
\* because the message is for the server.
ReportStep ==
  /\ \A c \in Conn :
       /\ got[c] \subseteq got'[c]
       /\ cl[c] = "gone" /\ pc[c] # "idle" => cl'[c] = "gone"
       /\ pc[c] = "closed" => pc'[c] = "closed"
       /\ pc'[c] \in {"mark", "ack_delivered"} =>
            /\ cur'[c] = cur[c]
            /\ \/ pc[c] \in {"mark", "ack_delivered"}
               \/ Forward(c)
               \/ InsertMessage(c) /\ To[cur[c]] = Server
       /\ pc'[c] = "ack_delivered" => pc[c] = "ack_delivered" \/ Mark(c)
  /\ \A m \in Msg :
       /\ handed[m] \subseteq handed'[m]
       /\ \A d \in handed'[m] : d \in handed[m] \/ ChatsFrom(d, m)
  /\ \A m \in Msg : build_ack(m, "delivered") \in acks' =>
       \/ build_ack(m, "delivered") \in acks
       \/ \E c \in Conn : pc[c] = "ack_delivered" /\ cur[c] = m
  /\ \A m \in Msg : build_ack(m, "sent") \in acks' =>
       \/ build_ack(m, "sent") \in acks
       \/ \E c \in Conn : pc[c] = "ack_sent" /\ cur[c] = m

\* What an answer adds to the history of reports.
LEMMA AcksAfterReply ==
  ASSUME NEW c, NEW frame, NEW step, Reply(c, frame, step)
  PROVE  acks' \subseteq acks \cup {frame}
BY DEF Reply, Answer, AnswerRaises

\* Every step changes the answers and the histories only as ReportStep says.
LEMMA NextIsReportStep == TypeInv /\ [Next]_vars => ReportStep
<1> SUFFICES ASSUME TypeInv, [Next]_vars PROVE ReportStep
  OBVIOUS
<1>1. /\ pc \in [Conn -> Steps]
      /\ cur \in [Conn -> Msg \cup {NoMsg}]
      /\ cl \in [Conn -> {"none", "login", "open", "gone"}]
      /\ handed \in [Msg -> SUBSET Conn]
      /\ got \in [Conn -> SUBSET Msg]
  BY DEF TypeInv, TypeOK
<1>2. ASSUME UNCHANGED <<cl, got, handed, acks, pc, cur>> PROVE ReportStep
  BY <1>2 DEF ReportStep
<1>3. ASSUME NEW c \in Conn, Handler(c) PROVE ReportStep
  <2>1. UNCHANGED <<cl, got>>
    BY <1>3
    DEF Handler, RecvFails, AuthInvalid, AuthFailed, AuthRaises, AuthOk,
        RegisterConn, ReadPending, Drain, DrainFails, DrainMark, DrainDone,
        RecvInvalid, RecvReplay, RecvFresh, RecordSeen, InsertMessage,
        RouteOnline, RouteRaises, RouteOffline, Forward, ForwardFails, Mark,
        AckSent, AckDelivered, Cleanup, client
  <2>2. ASSUME NEW s, pc' = [pc EXCEPT ![c] = s], pc[c] # "closed",
               s # "mark", s = "ack_delivered" => Mark(c) /\ UNCHANGED cur,
               \A d \in Conn : d # c => cur'[d] = cur[d],
               UNCHANGED handed,
               \A m \in Msg : build_ack(m, "delivered") \in acks' =>
                 \/ build_ack(m, "delivered") \in acks
                 \/ pc[c] = "ack_delivered" /\ cur[c] = m,
               \A m \in Msg : build_ack(m, "sent") \in acks' =>
                 \/ build_ack(m, "sent") \in acks
                 \/ pc[c] = "ack_sent" /\ cur[c] = m
        PROVE  ReportStep
    <3>1. s = "ack_delivered" => pc[c] = "mark"
      BY <2>2 DEF Mark
    <3> QED
      BY <1>1, <2>1, <2>2, <3>1 DEF ReportStep
  <2>3. CASE \/ RecvFails(c) \/ AuthRaises(c) \/ RegisterConn(c) \/ ReadPending(c)
             \/ DrainFails(c) \/ DrainMark(c) \/ DrainDone(c) \/ RecvFresh(c)
             \/ RecordSeen(c) \/ RouteOnline(c) \/ RouteRaises(c)
             \/ RouteOffline(c) \/ ForwardFails(c) \/ Cleanup(c)
    <3>1. /\ \E s \in Steps \ {"mark", "ack_delivered"} : pc' = [pc EXCEPT ![c] = s]
          /\ pc[c] # "closed"
          /\ UNCHANGED <<acks, handed>>
          /\ \A d \in Conn : d # c => cur'[d] = cur[d]
      BY <1>1, <2>3
      DEF RecvFails, AuthRaises, RegisterConn, ReadPending, DrainFails,
          DrainMark, DrainDone, RecvFresh, RecordSeen, RouteOnline, RouteRaises,
          RouteOffline, ForwardFails, Cleanup, Goto, Steps, locals, history
    <3> QED
      BY <2>2, <3>1
  <2>4. CASE \/ AuthInvalid(c) \/ AuthFailed(c) \/ AuthOk(c) \/ RecvInvalid(c)
             \/ RecvReplay(c)
    <3>1. UNCHANGED <<cur, handed>> /\ pc[c] # "closed"
      BY <2>4
      DEF AuthInvalid, AuthFailed, AuthOk, RecvInvalid, RecvReplay, locals
    <3>2. PICK frame \in {build_error, build_ack(NoMsg, "authenticated")},
               step \in {"cleanup", "register", "loop"} : Reply(c, frame, step)
      BY <2>4 DEF AuthInvalid, AuthFailed, AuthOk, RecvInvalid, RecvReplay
    <3>3. frame.type \notin {"sent", "delivered"}
      BY DEF build_error, build_ack
    <3>4. \A m \in Msg : frame \notin {build_ack(m, "sent"), build_ack(m, "delivered")}
      BY <3>3 DEF build_ack
    <3>5. acks' \subseteq acks \cup {frame}
      BY <3>2, AcksAfterReply
    <3>6. \E s \in {step, "cleanup"} : pc' = [pc EXCEPT ![c] = s]
      BY <3>2, ReplyGoes
    <3> QED
      BY <2>2, <3>1, <3>4, <3>5, <3>6
  <2>5. CASE AckSent(c) \/ AckDelivered(c)
    <3>1. PICK status \in {"sent", "delivered"} :
            /\ Reply(c, build_ack(cur[c], status), "loop")
            /\ status = "sent" => pc[c] = "ack_sent"
            /\ status = "delivered" => pc[c] = "ack_delivered"
      BY <2>5 DEF AckSent, AckDelivered
    <3>2. acks' \subseteq acks \cup {build_ack(cur[c], status)}
      BY <3>1, AcksAfterReply
    <3>3. \A m \in Msg, st \in {"sent", "delivered"} :
            build_ack(m, st) = build_ack(cur[c], status) => m = cur[c] /\ st = status
      BY DEF build_ack
    <3>4. \E s \in {"loop", "cleanup"} : pc' = [pc EXCEPT ![c] = s]
      BY <3>1, ReplyGoes
    <3>5. UNCHANGED <<cur, handed>> /\ pc[c] # "closed"
      BY <2>5 DEF AckSent, AckDelivered, locals
    <3> QED
      BY <2>2, <3>1, <3>2, <3>3, <3>4, <3>5
  <2>6. CASE Mark(c)
    BY <2>2, <2>6 DEF Mark, Goto, locals, history
  <2>7. CASE InsertMessage(c)
    BY <1>1, <2>1, <2>7 DEF InsertMessage, Goto, locals, history, ReportStep
  <2>8. CASE Drain(c)
    <3>1. /\ handed' = [handed EXCEPT ![Min(pend[c])] = @ \cup {c}]
          /\ pc[c] = "drain" /\ pc' = [pc EXCEPT ![c] = "drained"]
          /\ UNCHANGED <<cur, acks>>
      BY <2>8 DEF Drain, Goto, locals
    <3>2. \A m \in Msg :
            /\ handed[m] \subseteq handed'[m]
            /\ \A d \in handed'[m] : d \in handed[m] \/ ChatsFrom(d, m)
      BY <1>1, <2>8, <3>1 DEF ChatsFrom
    <3> QED
      BY <1>1, <2>1, <3>1, <3>2 DEF ReportStep
  <2>9. CASE Forward(c)
    <3>1. /\ handed' = [handed EXCEPT ![cur[c]] = @ \cup {rec[c]}]
          /\ pc[c] = "forward" /\ pc' = [pc EXCEPT ![c] = "mark"]
          /\ UNCHANGED <<cur, acks>>
      BY <2>9 DEF Forward, Goto, locals
    <3>2. \A m \in Msg :
            /\ handed[m] \subseteq handed'[m]
            /\ \A d \in handed'[m] : d \in handed[m] \/ ChatsFrom(d, m)
      BY <1>1, <2>9, <3>1 DEF ChatsFrom
    <3> QED
      BY <1>1, <2>1, <2>9, <3>1, <3>2 DEF ReportStep
  <2> QED
    BY <1>3, <2>3, <2>4, <2>5, <2>6, <2>7, <2>8, <2>9 DEF Handler
<1>4. ASSUME NEW c \in Conn, NEW u \in User, NEW k \in Kinds, Connect(c, u, k)
      PROVE  ReportStep
  <2>1. /\ pc[c] = "idle" /\ pc' = [pc EXCEPT ![c] = "auth"]
        /\ cl' = [cl EXCEPT ![c] = "login"]
        /\ UNCHANGED <<cur, got, handed, acks>>
    BY <1>4 DEF Connect, Goto, server, locals, history
  <2> QED
    BY <1>1, <2>1 DEF ReportStep
<1>5. ASSUME NEW c \in Conn, NEW m \in Msg, ClientSend(c, m) PROVE ReportStep
  BY <1>2, <1>5 DEF ClientSend, server, locals, history
<1>6. ASSUME NEW c \in Conn, NEW k \in {"bad_chat", "garbage"}, ClientSendBad(c, k)
      PROVE  ReportStep
  BY <1>2, <1>6 DEF ClientSendBad, server, locals, history
<1>7. ASSUME NEW c \in Conn, ClientRead(c) \/ ClientClose(c) PROVE ReportStep
  <2>1. /\ UNCHANGED <<pc, cur, acks, handed>>
        /\ \A d \in Conn : got[d] \subseteq got'[d]
        /\ cl[c] # "gone"
        /\ \A d \in Conn : d # c => cl'[d] = cl[d]
    BY <1>1, <1>7 DEF ClientRead, ClientClose, server, locals, history
  <2> QED
    BY <2>1 DEF ReportStep
<1>8. CASE Writer \/ Stop
  BY <1>2, <1>8 DEF Writer, Stop, locals, history, client
<1>9. CASE Restart
  BY <1>9 DEF Restart, history, ReportStep
<1>10. CASE UNCHANGED vars
  BY <1>2, <1>10 DEF vars, locals, history, client
<1> QED
  BY <1>3, <1>4, <1>5, <1>6, <1>7, <1>8, <1>9, <1>10 DEF Next

\* A message kept at a connection is kept there for good.
LEMMA KeptStays ==
  ASSUME TypeInv, RoutingInv, [Next]_vars, NEW m \in Msg, NEW c \in Conn, Kept(m, c)
  PROVE  Kept(m, c)'
<1>1. RoutingStep /\ ChatStep /\ ReportStep
  BY NextIsRoutingStep, NextIsChatStep, NextIsReportStep
<1>2. user'[c] = To[m] /\ To[m] \in User /\ pc[c] # "idle"
  BY <1>1, NamesKept DEF Kept, RoutingInv, FreshAnonymous
<1>3. CASE m \in got[c]
  BY <1>1, <1>2, <1>3 DEF ReportStep, Kept
<1>4. CASE cl[c] = "gone" \/ pc[c] = "closed"
  BY <1>1, <1>2, <1>4 DEF ReportStep, Kept
<1>5. CASE Outgoing(c, build_chat(m))
  <2>1. CASE Outgoing(c, build_chat(m))' \/ m \in got'[c] \/ cl'[c] = "gone"
    BY <1>2, <2>1 DEF Kept
  <2>2. CASE Restart
    <3>1. cl'[c] = "gone"
      BY <1>2, <2>2 DEF Restart
    <3> QED
      BY <1>2, <3>1 DEF Kept
  <2> QED
    BY <1>1, <1>5, <2>1, <2>2 DEF ChatStep, ChatsTo
<1> QED
  BY <1>3, <1>4, <1>5 DEF Kept

\* A message that a step writes to a connection is kept there.
LEMMA WrittenIsKept ==
  ASSUME TypeInv, RoutingInv, Addressed, [Next]_vars, NEW m \in Msg, NEW d \in Conn,
         ChatsFrom(d, m)
  PROVE  Kept(m, d)'
<1>1. PICK c \in Conn : \/ Drain(c) /\ d = c /\ m = Min(pend[c])
                        \/ Forward(c) /\ d = rec[c] /\ m = cur[c]
  BY DEF ChatsFrom
<1>2. /\ TypeOK
      /\ user' = user /\ cl' = cl
      /\ Post(d, build_chat(m))
  BY <1>1 DEF Drain, Forward, locals, client, TypeInv
<1>3. user[d] = To[m] /\ To[m] \in User
  <2>1. CASE Drain(c) /\ d = c /\ m = Min(pend[c])
    <3>1. m \in pend[c]
      BY <2>1, MinInSet DEF Drain, TypeInv, TypeOK
    <3> QED
      BY <2>1, <3>1 DEF Addressed
  <2>2. CASE Forward(c) /\ d = rec[c] /\ m = cur[c]
    BY <2>2 DEF Forward, Addressed, TypeInv, Locals
  <2> QED
    BY <1>1, <2>1, <2>2
<1>4. cl[d] = "gone" \/ pc[d] = "closed" \/ Outgoing(d, build_chat(m))'
  BY <1>2, OutgoingAfterPost, FrameTypes
<1>5. pc[d] = "closed" => pc'[d] = "closed"
  BY NextIsReportStep DEF ReportStep
<1> QED
  BY <1>2, <1>3, <1>4, <1>5 DEF Kept

\* Every step keeps what was handed over, and the promise behind a report.
LEMMA ReportsNext ==
  TypeInv /\ RoutingInv /\ Addressed /\ HandedKept /\ ReportsHanded /\ [Next]_vars
    => HandedKept' /\ ReportsHanded'
<1> SUFFICES ASSUME TypeInv, RoutingInv, Addressed, HandedKept, ReportsHanded,
                    [Next]_vars
             PROVE  HandedKept' /\ ReportsHanded'
  OBVIOUS
<1>1. ReportStep
  BY NextIsReportStep
<1>2. /\ \A c \in Conn : pc[c] \in Working => cur[c] \in Msg
      /\ handed \in [Msg -> SUBSET Conn]
      /\ handed' \in [Msg -> SUBSET Conn]
  BY TypeInvNext DEF TypeInv, TypeOK, Locals
<1>3. HandedKept'
  <2> SUFFICES ASSUME NEW m \in Msg, NEW c \in Conn, c \in handed'[m]
               PROVE  Kept(m, c)'
    BY <1>2 DEF HandedKept
  <2>1. CASE c \in handed[m]
    BY <2>1, KeptStays DEF HandedKept
  <2>2. CASE ChatsFrom(c, m)
    BY <2>2, WrittenIsKept
  <2> QED
    BY <1>1, <2>1, <2>2 DEF ReportStep
<1>4. \A m \in Msg : WasHanded(m) => WasHanded(m)'
  BY <1>1 DEF ReportStep, WasHanded
<1>5. ASSUME NEW m \in Msg, build_ack(m, "delivered") \in acks'
      PROVE  WasHanded(m)'
  BY <1>1, <1>4, <1>5 DEF ReportStep, ReportsHanded
<1>6. ASSUME NEW c \in Conn, pc'[c] \in {"mark", "ack_delivered"}
      PROVE  To[cur'[c]] = Server \/ handed'[cur'[c]] # {}
  <2>1. /\ cur'[c] = cur[c]
        /\ \/ pc[c] \in {"mark", "ack_delivered"}
           \/ Forward(c)
           \/ InsertMessage(c) /\ To[cur[c]] = Server
    BY <1>1, <1>6 DEF ReportStep
  <2>2. CASE pc[c] \in {"mark", "ack_delivered"}
    <3>1. cur[c] \in Msg /\ WasHanded(cur[c])
      BY <1>2, <2>2 DEF ReportsHanded, Working
    <3>2. handed[cur[c]] \subseteq handed'[cur[c]]
      BY <1>1, <3>1 DEF ReportStep
    <3> QED
      BY <2>1, <3>1, <3>2 DEF WasHanded
  <2>3. CASE Forward(c)
    <3>1. cur[c] \in Msg /\ handed' = [handed EXCEPT ![cur[c]] = @ \cup {rec[c]}]
      BY <1>2, <2>3 DEF Forward, Working
    <3>2. rec[c] \in handed'[cur[c]]
      BY <1>2, <3>1
    <3> QED
      BY <2>1, <3>2
  <2> QED
    BY <2>1, <2>2, <2>3
<1> QED
  BY <1>3, <1>5, <1>6 DEF ReportsHanded, WasHanded

\* That, in every reachable state.
LEMMA ReportsInvariant ==
  Spec => [](TypeInv /\ RoutingInv /\ Addressed /\ HandedKept /\ ReportsHanded)
<1>1. Init => HandedKept /\ ReportsHanded
  BY DEF Init, HandedKept, ReportsHanded
<1>2. TypeInv /\ RoutingInv /\ Addressed /\ HandedKept /\ ReportsHanded /\ [Next]_vars
        => HandedKept' /\ ReportsHanded'
  BY ReportsNext
<1> QED
  BY <1>1, <1>2, AddressedInvariant, PTL DEF Spec

\* What a sender was told is delivered was written to a session of the
\* recipient, and is lost only if that very session ends with it unread: the
\* races between lookup, write, re-registration, close and restart lose nothing
\* else.
THEOREM DeliveredReachesRecipient == Spec => []LostOnlyWithClient
<1>1. TypeInv /\ HandedKept /\ ReportsHanded => LostOnlyWithClient
  <2> SUFFICES ASSUME TypeInv, HandedKept, ReportsHanded, NEW m \in Msg,
                      build_ack(m, "delivered") \in acks, To[m] # Server
               PROVE  \E c \in handed[m] : user[c] = To[m] /\ ReadOrLost(m, c)
    BY DEF LostOnlyWithClient
  <2>1. PICK c \in handed[m] : TRUE
    BY DEF ReportsHanded, WasHanded
  <2>2. Kept(m, c)
    BY <2>1 DEF HandedKept
  <2>3. user[c] = To[m] /\ ReadOrLost(m, c)
    BY <2>2 DEF Kept, ReadOrLost, Outgoing
  <2> QED
    BY <2>1, <2>3
<1> QED
  BY <1>1, ReportsInvariant, PTL
=============================================================================
