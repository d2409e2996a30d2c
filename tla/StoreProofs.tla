----------------------------- MODULE StoreProofs ----------------------------
(***************************************************************************)
(* Proofs about the message store of ChatServer: the write queue is always *)
(* in an order in which every task succeeds, and no crash leaves a stored  *)
(* message whose id the replay check does not know. From both follows that *)
(* ChatServer implements Mailbox: handlers that queue their writes, and a  *)
(* writer thread that executes them one by one, together behave as a       *)
(* write-behind store that loses nothing but what a restart finds          *)
(* uncommitted. Behind them, what the server may say it has: nothing is    *)
(* marked as delivered that was not handed over, and until the process     *)
(* ends everything acknowledged, everything refused as a replay and every  *)
(* session handed out is stored or queued to be.                           *)
(***************************************************************************)
EXTENDS ChatServerProofs

\* A message whose id is in seen_messages, or will be before anything that is
\* queued from now on.
Recorded(m) == m \in seen \/ Queued(record_seen(m))

\* The same for its row, if the table takes it.
Inserted(m) ==
  m \in Storable => messages[m] # "none" \/ Queued(insert_message(m))

\* The steps of a handler behind the insertion of its message.
Placed == {"route", "forward", "mark", "ack_sent", "ack_delivered"}

USE DEF Placed

\* What a handler may rely on at each step: the tasks that must precede the
\* one it is about to queue.
HandlerOrder ==
  \A c \in Conn :
    /\ pc[c] = "insert" => Recorded(cur[c])
    /\ pc[c] \in Placed => Inserted(cur[c])
    /\ \A m \in pend[c] : messages[m] # "none"

\* A row is one that the table takes, of a message that the replay check knows.
RowsSound == \A m \in Msg : messages[m] # "none" => m \in seen /\ m \in Storable

StoreInv == QueueOrder /\ RowsSound /\ HandlerOrder

-----------------------------------------------------------------------------
(* The queue. *)

\* What is queued after a put.
LEMMA QueuedAfterEnqueue ==
  ASSUME wq \in Seq(Task), NEW t \in Task, Enqueue(t), NEW x
  PROVE  Queued(x)' <=> Queued(x) \/ x = t
<1>1. /\ Len(wq) \in Nat
      /\ Len(wq') = Len(wq) + 1
      /\ \A i \in 1..Len(wq) : wq'[i] = wq[i]
      /\ wq'[Len(wq) + 1] = t
  BY AppendElements DEF Enqueue
<1>2. ASSUME NEW i \in 1..Len(wq), wq[i] = x PROVE Queued(x)'
  BY <1>1, <1>2 DEF Queued
<1>3. ASSUME x = t PROVE Queued(x)'
  BY <1>1, <1>3 DEF Queued
<1>4. ASSUME NEW i \in 1..Len(wq'), wq'[i] = x PROVE Queued(x) \/ x = t
  BY <1>1, <1>4 DEF Queued
<1> QED
  BY <1>2, <1>3, <1>4 DEF Queued

\* What is queued after the writer took the first task.
LEMMA QueuedAfterTail ==
  ASSUME wq \in Seq(Task), wq # << >>, wq' = Tail(wq), NEW x
  PROVE  /\ Queued(x)' => Queued(x)
         /\ Queued(x) => Queued(x)' \/ x = Head(wq)
<1>1. /\ Len(wq) \in Nat \ {0}
      /\ Len(wq') = Len(wq) - 1
      /\ \A i \in 1..Len(wq') : wq'[i] = wq[i + 1]
      /\ Head(wq) = wq[1]
  BY TailElements
<1>2. ASSUME NEW i \in 1..Len(wq'), wq'[i] = x PROVE Queued(x)
  <2>1. i + 1 \in 1..Len(wq) /\ wq[i + 1] = x
    BY <1>1, <1>2
  <2> QED
    BY <2>1 DEF Queued
<1>3. ASSUME NEW i \in 1..Len(wq), wq[i] = x, i # 1 PROVE Queued(x)'
  <2>1. i - 1 \in 1..Len(wq') /\ wq'[i - 1] = x
    BY <1>1, <1>3
  <2> QED
    BY <2>1 DEF Queued
<1> QED
  BY <1>1, <1>2, <1>3 DEF Queued

\* A put keeps the order when what its task needs is there or queued.
LEMMA OrderAfterEnqueue ==
  ASSUME DbTypeOK, QueueOrder, NEW t \in Task, Enqueue(t), UNCHANGED tables,
         t.op = "insert_message" => Recorded(t.id),
         t.op = "update_delivery_status" => Inserted(t.id)
  PROVE  QueueOrder'
<1>1. /\ Len(wq) \in Nat
      /\ Len(wq') = Len(wq) + 1
      /\ \A i \in 1..Len(wq) : wq'[i] = wq[i]
      /\ wq'[Len(wq) + 1] = t
  BY AppendElements DEF Enqueue, DbTypeOK
<1>2. messages' = messages /\ seen' = seen
  BY DEF tables
<1> SUFFICES ASSUME NEW i \in 1..Len(wq')
             PROVE  /\ wq'[i].op = "insert_message" =>
                         \/ wq'[i].id \in seen'
                         \/ \E j \in 1..(i - 1) : wq'[j] = record_seen(wq'[i].id)
                    /\ wq'[i].op = "update_delivery_status" /\ wq'[i].id \in Storable =>
                         \/ messages'[wq'[i].id] # "none"
                         \/ \E j \in 1..(i - 1) : wq'[j] = insert_message(wq'[i].id)
  BY DEF QueueOrder, record_seen, insert_message
<1>3. CASE i \in 1..Len(wq)
  <2>1. wq'[i] = wq[i] /\ \A j \in 1..(i - 1) : wq'[j] = wq[j]
    BY <1>1, <1>3
  <2> QED
    BY <1>2, <1>3, <2>1 DEF QueueOrder
<1>4. CASE i = Len(wq) + 1
  <2>1. wq'[i] = t /\ \A j \in 1..(i - 1) : j \in 1..Len(wq) /\ wq'[j] = wq[j]
    BY <1>1, <1>4
  <2>2. i - 1 = Len(wq)
    BY <1>1, <1>4
  <2> QED
    BY <1>2, <2>1, <2>2 DEF Recorded, Inserted, Queued
<1> QED
  BY <1>1, <1>3, <1>4

\* The task the writer executes: what it needs is in the tables, because
\* nothing is ahead of it any more.
LEMMA HeadIsReady ==
  ASSUME DbTypeOK, QueueOrder, wq # << >>
  PROVE  /\ Head(wq).op = "insert_message" => Head(wq).id \in seen
         /\ Head(wq).op = "update_delivery_status" /\ Head(wq).id \in Storable =>
              messages[Head(wq).id] # "none"
<1>1. Len(wq) \in Nat \ {0} /\ Head(wq) = wq[1]
  BY TailElements DEF DbTypeOK
<1>2. 1 \in 1..Len(wq) /\ 1..(1 - 1) = {}
  BY <1>1
<1> QED
  BY <1>1, <1>2 DEF QueueOrder

\* What a turn of the writer does to the tables, task by task.
LEMMA WriterEffect ==
  ASSUME DbTypeOK, QueueOrder, WriterStep
  PROVE  /\ Head(wq) \in Task
         /\ wq' = Tail(wq)
         /\ seen \subseteq seen'
         /\ \A m \in Msg : m \in seen' => m \in seen \/ Head(wq) = record_seen(m)
         /\ \A m \in Msg : Head(wq) = record_seen(m) => m \in seen'
         /\ \A m \in Msg : messages[m] # "none" => messages'[m] # "none"
         /\ \A m \in Msg : messages[m] = "delivered" => messages'[m] = "delivered"
         /\ \A m \in Msg : messages'[m] # messages[m] =>
              \/ /\ Head(wq) = insert_message(m) /\ m \in Storable
                 /\ messages[m] = "none"
                 /\ messages' = [messages EXCEPT ![m] = "sent"]
              \/ /\ Head(wq) = update_delivered(m)
                 /\ messages[m] = "sent"
                 /\ messages' = [messages EXCEPT ![m] = "delivered"]
         /\ \A m \in Storable : Head(wq) = insert_message(m) => messages'[m] # "none"
         /\ \A m \in Storable :
              Head(wq) = update_delivered(m) => messages'[m] = "delivered"
<1> DEFINE t == Head(wq)
<1>1. t \in Task /\ wq' = Tail(wq)
  BY TailElements DEF DbTypeOK, WriterStep
<1>2. /\ t.op \in MsgOp => t.id \in Msg
      /\ t.op = "record_seen" => t = record_seen(t.id)
      /\ t.op = "insert_message" => t = insert_message(t.id)
      /\ t.op = "update_delivery_status" => t = update_delivered(t.id)
  BY <1>1, TaskForms
<1>3. t.op = "update_delivery_status" /\ t.id \in Storable => messages[t.id] # "none"
  BY HeadIsReady DEF WriterStep
<1>4. \A m \in Msg : /\ t = record_seen(m) => t.op = "record_seen" /\ t.id = m
                     /\ t = insert_message(m) => t.op = "insert_message" /\ t.id = m
                     /\ t = update_delivered(m) =>
                          t.op = "update_delivery_status" /\ t.id = m
  BY DEF record_seen, insert_message, update_delivered
<1>5. seen' = IF t.op = "record_seen" THEN seen \cup {t.id} ELSE seen
  BY DEF WriterStep, Execute, ExecRecordSeen
<1>6. messages' = IF t.op = "insert_message"
                  THEN IF t.id \in Storable /\ messages[t.id] = "none"
                       THEN [messages EXCEPT ![t.id] = "sent"] ELSE messages
                  ELSE IF t.op = "update_delivery_status" /\ messages[t.id] # "none"
                  THEN [messages EXCEPT ![t.id] = "delivered"]
                  ELSE messages
  BY DEF WriterStep, Execute, ExecInsertMessage, ExecUpdateDelivered
<1>7. messages \in [Msg -> {"none", "sent", "delivered"}]
  BY DEF DbTypeOK, Status
<1>8. /\ seen \subseteq seen'
      /\ \A m \in Msg : m \in seen' => m \in seen \/ t = record_seen(m)
      /\ \A m \in Msg : t = record_seen(m) => m \in seen'
  BY <1>2, <1>4, <1>5
<1> HIDE DEF t
<1>9. CASE t.op = "insert_message"
  BY <1>1, <1>2, <1>4, <1>6, <1>7, <1>8, <1>9, MsgAssumption DEF MsgOp, t
<1>10. CASE t.op = "update_delivery_status"
  BY <1>1, <1>2, <1>3, <1>4, <1>6, <1>7, <1>8, <1>10, MsgAssumption DEF MsgOp, t
<1>11. CASE t.op \notin {"insert_message", "update_delivery_status"}
  BY <1>1, <1>4, <1>6, <1>8, <1>11, MsgAssumption DEF t
<1> QED
  BY <1>9, <1>10, <1>11

\* A turn of the writer keeps the order and takes nothing back.
LEMMA StoreAfterWriter ==
  ASSUME DbTypeOK, QueueOrder, RowsSound, WriterStep
  PROVE  /\ QueueOrder'
         /\ RowsSound'
         /\ \A m \in Msg : Recorded(m) => Recorded(m)'
         /\ \A m \in Msg : Inserted(m) => Inserted(m)'
<1>1. /\ Len(wq) \in Nat \ {0}
      /\ Len(wq') = Len(wq) - 1
      /\ \A i \in 1..Len(wq') : wq'[i] = wq[i + 1]
      /\ Head(wq) = wq[1]
      /\ wq \in Seq(Task)
      /\ wq # << >>
      /\ wq' = Tail(wq)
  BY TailElements DEF DbTypeOK, WriterStep
<1>2. /\ seen \subseteq seen'
      /\ \A m \in Msg : Head(wq) = record_seen(m) => m \in seen'
      /\ \A m \in Msg : messages[m] # "none" => messages'[m] # "none"
      /\ \A m \in Storable : Head(wq) = insert_message(m) => messages'[m] # "none"
      /\ \A m \in Msg : messages'[m] # messages[m] =>
           \/ Head(wq) = insert_message(m) /\ m \in Storable
           \/ messages[m] = "sent"
  BY WriterEffect
<1>3. QueueOrder'
  <2> SUFFICES ASSUME NEW i \in 1..Len(wq')
               PROVE  /\ wq'[i].op = "insert_message" =>
                           \/ wq'[i].id \in seen'
                           \/ \E j \in 1..(i - 1) : wq'[j] = record_seen(wq'[i].id)
                      /\ wq'[i].op = "update_delivery_status"
                           /\ wq'[i].id \in Storable =>
                           \/ messages'[wq'[i].id] # "none"
                           \/ \E j \in 1..(i - 1) : wq'[j] = insert_message(wq'[i].id)
    BY DEF QueueOrder, record_seen, insert_message
  <2>1. i + 1 \in 1..Len(wq) /\ wq'[i] = wq[i + 1] /\ wq[i + 1] \in Task
    BY <1>1, ElementOfSeq
  <2>2. ASSUME NEW x, NEW j \in 1..((i + 1) - 1), wq[j] = x
        PROVE  x = Head(wq) \/ \E k \in 1..(i - 1) : wq'[k] = x
    <3>1. CASE j = 1
      BY <1>1, <2>2, <3>1
    <3>2. CASE j # 1
      <4>1. j - 1 \in 1..(i - 1) /\ j - 1 \in 1..Len(wq')
        BY <1>1, <3>2
      <4>2. wq'[j - 1] = wq[(j - 1) + 1] /\ (j - 1) + 1 = j
        BY <1>1, <4>1
      <4> QED
        BY <2>2, <4>1, <4>2
    <3> QED
      BY <3>1, <3>2
  <2>3. wq[i + 1].op \in MsgOp => wq[i + 1].id \in Msg
    BY <2>1, TaskForms
  <2>4. /\ wq[i + 1].op = "insert_message" =>
             \/ wq[i + 1].id \in seen
             \/ \E j \in 1..((i + 1) - 1) : wq[j] = record_seen(wq[i + 1].id)
        /\ wq[i + 1].op = "update_delivery_status" /\ wq[i + 1].id \in Storable =>
             \/ messages[wq[i + 1].id] # "none"
             \/ \E j \in 1..((i + 1) - 1) : wq[j] = insert_message(wq[i + 1].id)
    BY <2>1 DEF QueueOrder
  <2>5. wq'[i].op = "insert_message" =>
           \/ wq'[i].id \in seen'
           \/ \E j \in 1..(i - 1) : wq'[j] = record_seen(wq'[i].id)
    BY <1>2, <2>1, <2>2, <2>3, <2>4 DEF MsgOp
  <2>6. wq'[i].op = "update_delivery_status" /\ wq'[i].id \in Storable =>
           \/ messages'[wq'[i].id] # "none"
           \/ \E j \in 1..(i - 1) : wq'[j] = insert_message(wq'[i].id)
    BY <1>2, <2>1, <2>2, <2>3, <2>4 DEF MsgOp
  <2> QED
    BY <2>5, <2>6
<1>4. RowsSound'
  <2> SUFFICES ASSUME NEW m \in Msg, messages'[m] # "none"
               PROVE  m \in seen' /\ m \in Storable
    BY DEF RowsSound
  <2>1. CASE messages[m] # "none"
    BY <1>2, <2>1 DEF RowsSound
  <2>2. CASE Head(wq) = insert_message(m) /\ m \in Storable
    BY <1>1, <1>2, <2>2, HeadIsReady DEF insert_message
  <2> QED
    BY <1>2, <2>1, <2>2
<1>5. \A m \in Msg : Recorded(m) => Recorded(m)'
  BY <1>1, <1>2, QueuedAfterTail DEF Recorded
<1>6. \A m \in Msg : Inserted(m) => Inserted(m)'
  BY <1>1, <1>2, QueuedAfterTail DEF Inserted
<1> QED
  BY <1>3, <1>4, <1>5, <1>6

\* A put takes nothing back either.
LEMMA StoreAfterEnqueue ==
  ASSUME DbTypeOK, RowsSound, NEW t \in Task, Enqueue(t), UNCHANGED tables
  PROVE  /\ RowsSound'
         /\ \A m \in Msg : Recorded(m) => Recorded(m)'
         /\ \A m \in Msg : Inserted(m) => Inserted(m)'
         /\ \A m \in Msg : t = record_seen(m) => Recorded(m)'
         /\ \A m \in Msg : t = insert_message(m) => Inserted(m)'
<1>1. messages' = messages /\ seen' = seen
  BY DEF tables
<1>2. \A x : Queued(x)' <=> Queued(x) \/ x = t
  BY QueuedAfterEnqueue DEF DbTypeOK
<1>3. RowsSound'
  BY <1>1 DEF RowsSound
<1> QED
  BY <1>1, <1>2, <1>3 DEF Recorded, Inserted

\* Where the handlers' obligations come from: a step changes the place or the
\* locals of one handler at most, and the store takes nothing back.
LEMMA HandlerOrderKept ==
  ASSUME HandlerOrder,
         \A m \in Msg : Recorded(m) => Recorded(m)',
         \A m \in Msg : Inserted(m) => Inserted(m)',
         \A m \in Msg : messages[m] # "none" => messages'[m] # "none",
         TypeInv, NEW c \in Conn,
         \A d \in Conn \ {c} : pc'[d] = pc[d] /\ cur'[d] = cur[d] /\ pend'[d] = pend[d],
         pc'[c] = "insert" => Recorded(cur[c])',
         pc'[c] \in Placed => Inserted(cur[c])',
         \A m \in pend'[c] : messages'[m] # "none"
  PROVE  HandlerOrder'
<1> SUFFICES ASSUME NEW d \in Conn
             PROVE  /\ pc'[d] = "insert" => Recorded(cur[d])'
                    /\ pc'[d] \in Placed => Inserted(cur[d])'
                    /\ \A m \in pend'[d] : messages'[m] # "none"
  BY DEF HandlerOrder
<1>1. CASE d = c
  BY <1>1
<1>2. CASE d # c
  <2>1. pc'[d] = pc[d] /\ cur'[d] = cur[d] /\ pend'[d] = pend[d]
    BY <1>2
  <2>2. pc[d] \in Working => cur[d] \in Msg
    BY DEF TypeInv, Locals
  <2>3. pend[d] \subseteq Msg
    BY DEF TypeInv, TypeOK
  <2>4. /\ pc[d] = "insert" => Recorded(cur[d])
        /\ pc[d] \in Placed => Inserted(cur[d])
        /\ \A m \in pend[d] : messages[m] # "none"
    BY DEF HandlerOrder
  <2>5. pc'[d] = "insert" => Recorded(cur[d])'
    <3>1. Recorded(cur[d])' <=> cur'[d] \in seen'
                            \/ \E i \in 1..Len(wq') : wq'[i] = record_seen(cur'[d])
      BY DEF Recorded, Queued, record_seen
    <3>2. \A m \in Msg : Recorded(m)' <=> m \in seen'
                            \/ \E i \in 1..Len(wq') : wq'[i] = record_seen(m)
      BY DEF Recorded, Queued, record_seen
    <3> QED
      BY <2>1, <2>2, <2>4, <3>1, <3>2 DEF Working
  <2>6. pc'[d] \in Placed => Inserted(cur[d])'
    <3>1. Inserted(cur[d])' <=>
            (cur'[d] \in Storable =>
               \/ messages'[cur'[d]] # "none"
               \/ \E i \in 1..Len(wq') : wq'[i] = insert_message(cur'[d]))
      BY DEF Inserted, Queued, insert_message
    <3>2. \A m \in Msg : Inserted(m)' <=>
            (m \in Storable =>
               \/ messages'[m] # "none"
               \/ \E i \in 1..Len(wq') : wq'[i] = insert_message(m))
      BY DEF Inserted, Queued, insert_message
    <3> QED
      BY <2>1, <2>2, <2>4, <3>1, <3>2 DEF Working
  <2> QED
    BY <2>1, <2>3, <2>4, <2>5, <2>6
<1> QED
  BY <1>1, <1>2

\* A step that leaves the database alone.
LEMMA StoreUnchanged ==
  ASSUME UNCHANGED dbvars
  PROVE  /\ QueueOrder => QueueOrder'
         /\ RowsSound => RowsSound'
         /\ \A m : Recorded(m) <=> Recorded(m)'
         /\ \A m : Inserted(m) <=> Inserted(m)'
         /\ messages' = messages
BY DEF dbvars, QueueOrder, RowsSound, Recorded, Inserted, Queued

\* A reply moves its own handler only.
LEMMA ReplyMoves ==
  ASSUME TypeOK, NEW c \in Conn, NEW frame, NEW step, Reply(c, frame, step)
  PROVE  /\ pc'[c] \in {step, "cleanup"}
         /\ \A d \in Conn \ {c} : pc'[d] = pc[d]
BY DEF Reply, Answer, AnswerRaises, Goto, TypeOK

\* Every step keeps the order of the queue and what the handlers rely on.
LEMMA StoreInvNext == TypeInv /\ StoreInv /\ [Next]_vars => StoreInv'
<1> SUFFICES ASSUME TypeInv, StoreInv, [Next]_vars PROVE StoreInv'
  OBVIOUS
<1> USE DEF StoreInv
<1>1. ASSUME NEW c \in Conn, RecvFails(c) PROVE StoreInv'
  <2>1. UNCHANGED dbvars
    BY <1>1 DEF RecvFails
  <2>2. /\ \A d \in Conn \ {c} :
             /\ pc'[d] = pc[d]
             /\ cur'[d] = cur[d]
             /\ pend'[d] = pend[d]
        /\ pc'[c] = "insert" => Recorded(cur[c])'
        /\ pc'[c] \in Placed => Inserted(cur[c])'
        /\ \A m \in pend'[c] : messages'[m] # "none"
    BY <1>1, <2>1, StoreUnchanged
    DEF RecvFails, Goto, locals, TypeInv, TypeOK, HandlerOrder
  <2> QED
    BY <2>1, <2>2, StoreUnchanged, HandlerOrderKept
<1>2. ASSUME NEW c \in Conn, AuthInvalid(c) PROVE StoreInv'
  <2>1. UNCHANGED dbvars
    BY <1>2 DEF AuthInvalid
  <2>2. /\ pc'[c] \in {"cleanup"}
        /\ \A d \in Conn \ {c} : pc'[d] = pc[d]
    BY <1>2, ReplyMoves DEF AuthInvalid, TypeInv
  <2>3. /\ \A d \in Conn \ {c} :
             /\ pc'[d] = pc[d]
             /\ cur'[d] = cur[d]
             /\ pend'[d] = pend[d]
        /\ pc'[c] = "insert" => Recorded(cur[c])'
        /\ pc'[c] \in Placed => Inserted(cur[c])'
        /\ \A m \in pend'[c] : messages'[m] # "none"
    BY <1>2, <2>1, <2>2, StoreUnchanged
    DEF AuthInvalid, locals, TypeInv, TypeOK, HandlerOrder
  <2> QED
    BY <2>1, <2>3, StoreUnchanged, HandlerOrderKept
<1>3. ASSUME NEW c \in Conn, AuthFailed(c) PROVE StoreInv'
  <2>1. UNCHANGED dbvars
    BY <1>3 DEF AuthFailed
  <2>2. /\ pc'[c] \in {"cleanup"}
        /\ \A d \in Conn \ {c} : pc'[d] = pc[d]
    BY <1>3, ReplyMoves DEF AuthFailed, TypeInv
  <2>3. /\ \A d \in Conn \ {c} :
             /\ pc'[d] = pc[d]
             /\ cur'[d] = cur[d]
             /\ pend'[d] = pend[d]
        /\ pc'[c] = "insert" => Recorded(cur[c])'
        /\ pc'[c] \in Placed => Inserted(cur[c])'
        /\ \A m \in pend'[c] : messages'[m] # "none"
    BY <1>3, <2>1, <2>2, StoreUnchanged
    DEF AuthFailed, locals, TypeInv, TypeOK, HandlerOrder
  <2> QED
    BY <2>1, <2>3, StoreUnchanged, HandlerOrderKept
<1>3a. ASSUME NEW c \in Conn, AuthRaises(c) PROVE StoreInv'
  <2>1. UNCHANGED dbvars
    BY <1>3a DEF AuthRaises
  <2>2. /\ \A d \in Conn \ {c} :
             /\ pc'[d] = pc[d]
             /\ cur'[d] = cur[d]
             /\ pend'[d] = pend[d]
        /\ pc'[c] = "insert" => Recorded(cur[c])'
        /\ pc'[c] \in Placed => Inserted(cur[c])'
        /\ \A m \in pend'[c] : messages'[m] # "none"
    BY <1>3a, <2>1, StoreUnchanged
    DEF AuthRaises, Goto, locals, TypeInv, TypeOK, HandlerOrder
  <2> QED
    BY <2>1, <2>2, StoreUnchanged, HandlerOrderKept
<1>4. ASSUME NEW c \in Conn, AuthOk(c) PROVE StoreInv'
  <2>1. Head(inbox[c]).user \in User
    <3>1. Head(inbox[c]) \in InFrame /\ Head(inbox[c]).type \in {"auth"}
      BY <1>4, ReceiveType DEF AuthOk, TypeInv
    <3> QED
      BY <3>1 DEF InFrame
  <2>2. /\ Enqueue(insert_session(c, Head(inbox[c]).user))
        /\ UNCHANGED tables
        /\ insert_session(c, Head(inbox[c]).user) \in Task
    BY <1>4, <2>1, FrameTypes DEF AuthOk
  <2>3. QueueOrder'
    BY <2>2, OrderAfterEnqueue DEF TypeInv, TypeOK, insert_session
  <2>4. /\ RowsSound'
        /\ \A m \in Msg : Recorded(m) => Recorded(m)'
        /\ \A m \in Msg : Inserted(m) => Inserted(m)'
        /\ \A m \in Msg : insert_session(c, Head(inbox[c]).user) = record_seen(m)
             => Recorded(m)'
        /\ \A m \in Msg : insert_session(c, Head(inbox[c]).user) = insert_message(m)
             => Inserted(m)'
    BY <2>2, StoreAfterEnqueue DEF TypeInv, TypeOK
  <2>5. messages' = messages
    BY <2>2 DEF tables
  <2>6. /\ pc'[c] \in {"register", "cleanup"}
        /\ \A d \in Conn \ {c} : pc'[d] = pc[d]
    BY <1>4, ReplyMoves DEF AuthOk, TypeInv
  <2>7. /\ \A d \in Conn \ {c} :
             /\ pc'[d] = pc[d]
             /\ cur'[d] = cur[d]
             /\ pend'[d] = pend[d]
        /\ pc'[c] = "insert" => Recorded(cur[c])'
        /\ pc'[c] \in Placed => Inserted(cur[c])'
        /\ \A m \in pend'[c] : messages'[m] # "none"
    BY <1>4, <2>1, <2>4, <2>5, <2>6
    DEF AuthOk, locals, TypeInv, TypeOK, HandlerOrder
  <2> QED
    BY <2>3, <2>4, <2>5, <2>7, HandlerOrderKept
<1>5. ASSUME NEW c \in Conn, RegisterConn(c) PROVE StoreInv'
  <2>1. UNCHANGED dbvars
    BY <1>5 DEF RegisterConn
  <2>2. /\ \A d \in Conn \ {c} :
             /\ pc'[d] = pc[d]
             /\ cur'[d] = cur[d]
             /\ pend'[d] = pend[d]
        /\ pc'[c] = "insert" => Recorded(cur[c])'
        /\ pc'[c] \in Placed => Inserted(cur[c])'
        /\ \A m \in pend'[c] : messages'[m] # "none"
    BY <1>5, <2>1, StoreUnchanged
    DEF RegisterConn, Goto, locals, TypeInv, TypeOK, HandlerOrder
  <2> QED
    BY <2>1, <2>2, StoreUnchanged, HandlerOrderKept
<1>6. ASSUME NEW c \in Conn, ReadPending(c) PROVE StoreInv'
  <2>1. UNCHANGED dbvars
    BY <1>6 DEF ReadPending
  <2>2. /\ \A d \in Conn \ {c} :
             /\ pc'[d] = pc[d]
             /\ cur'[d] = cur[d]
             /\ pend'[d] = pend[d]
        /\ pc'[c] = "insert" => Recorded(cur[c])'
        /\ pc'[c] \in Placed => Inserted(cur[c])'
        /\ \A m \in pend'[c] : messages'[m] # "none"
    BY <1>6, <2>1, StoreUnchanged
    DEF ReadPending, Goto, locals, TypeInv, TypeOK, HandlerOrder,
        get_pending_messages
  <2> QED
    BY <2>1, <2>2, StoreUnchanged, HandlerOrderKept
<1>7. ASSUME NEW c \in Conn, Drain(c) PROVE StoreInv'
  <2>1. UNCHANGED dbvars
    BY <1>7 DEF Drain
  <2>2. /\ \A d \in Conn \ {c} :
             /\ pc'[d] = pc[d]
             /\ cur'[d] = cur[d]
             /\ pend'[d] = pend[d]
        /\ pc'[c] = "insert" => Recorded(cur[c])'
        /\ pc'[c] \in Placed => Inserted(cur[c])'
        /\ \A m \in pend'[c] : messages'[m] # "none"
    BY <1>7, <2>1, StoreUnchanged
    DEF Drain, Goto, locals, TypeInv, TypeOK, HandlerOrder
  <2> QED
    BY <2>1, <2>2, StoreUnchanged, HandlerOrderKept
<1>8. ASSUME NEW c \in Conn, DrainFails(c) PROVE StoreInv'
  <2>1. UNCHANGED dbvars
    BY <1>8 DEF DrainFails
  <2>2. /\ \A d \in Conn \ {c} :
             /\ pc'[d] = pc[d]
             /\ cur'[d] = cur[d]
             /\ pend'[d] = pend[d]
        /\ pc'[c] = "insert" => Recorded(cur[c])'
        /\ pc'[c] \in Placed => Inserted(cur[c])'
        /\ \A m \in pend'[c] : messages'[m] # "none"
    BY <1>8, <2>1, StoreUnchanged
    DEF DrainFails, Goto, locals, TypeInv, TypeOK, HandlerOrder
  <2> QED
    BY <2>1, <2>2, StoreUnchanged, HandlerOrderKept
<1>9. ASSUME NEW c \in Conn, DrainMark(c) PROVE StoreInv'
  <2>1. Min(pend[c]) \in pend[c] /\ Min(pend[c]) \in Msg
    BY <1>9, MinInSet DEF DrainMark, TypeInv, TypeOK, Locals
  <2>2. /\ Enqueue(update_delivered(Min(pend[c])))
        /\ UNCHANGED tables
        /\ update_delivered(Min(pend[c])) \in Task
    BY <1>9, <2>1, FrameTypes DEF DrainMark
  <2>3. QueueOrder'
    <3>1. Inserted(Min(pend[c]))
      BY <2>1 DEF HandlerOrder, Inserted
    <3> QED
      BY <2>2, <3>1, OrderAfterEnqueue DEF TypeInv, TypeOK, update_delivered
  <2>4. /\ RowsSound'
        /\ \A m \in Msg : Recorded(m) => Recorded(m)'
        /\ \A m \in Msg : Inserted(m) => Inserted(m)'
        /\ \A m \in Msg : update_delivered(Min(pend[c])) = record_seen(m) => Recorded(m)'
        /\ \A m \in Msg : update_delivered(Min(pend[c])) = insert_message(m) => Inserted(m)'
    BY <2>2, StoreAfterEnqueue DEF TypeInv, TypeOK
  <2>5. messages' = messages
    BY <2>2 DEF tables
  <2>6. /\ \A d \in Conn \ {c} :
             /\ pc'[d] = pc[d]
             /\ cur'[d] = cur[d]
             /\ pend'[d] = pend[d]
        /\ pc'[c] = "insert" => Recorded(cur[c])'
        /\ pc'[c] \in Placed => Inserted(cur[c])'
        /\ \A m \in pend'[c] : messages'[m] # "none"
    BY <1>9, <2>1, <2>4, <2>5
    DEF DrainMark, Goto, locals, TypeInv, TypeOK, HandlerOrder
  <2> QED
    BY <2>3, <2>4, <2>5, <2>6, HandlerOrderKept
<1>10. ASSUME NEW c \in Conn, DrainDone(c) PROVE StoreInv'
  <2>1. UNCHANGED dbvars
    BY <1>10 DEF DrainDone
  <2>2. /\ \A d \in Conn \ {c} :
             /\ pc'[d] = pc[d]
             /\ cur'[d] = cur[d]
             /\ pend'[d] = pend[d]
        /\ pc'[c] = "insert" => Recorded(cur[c])'
        /\ pc'[c] \in Placed => Inserted(cur[c])'
        /\ \A m \in pend'[c] : messages'[m] # "none"
    BY <1>10, <2>1, StoreUnchanged
    DEF DrainDone, Goto, locals, TypeInv, TypeOK, HandlerOrder
  <2> QED
    BY <2>1, <2>2, StoreUnchanged, HandlerOrderKept
<1>11. ASSUME NEW c \in Conn, RecvInvalid(c) PROVE StoreInv'
  <2>1. UNCHANGED dbvars
    BY <1>11 DEF RecvInvalid
  <2>2. /\ pc'[c] \in {"loop", "cleanup"}
        /\ \A d \in Conn \ {c} : pc'[d] = pc[d]
    BY <1>11, ReplyMoves DEF RecvInvalid, TypeInv
  <2>3. /\ \A d \in Conn \ {c} :
             /\ pc'[d] = pc[d]
             /\ cur'[d] = cur[d]
             /\ pend'[d] = pend[d]
        /\ pc'[c] = "insert" => Recorded(cur[c])'
        /\ pc'[c] \in Placed => Inserted(cur[c])'
        /\ \A m \in pend'[c] : messages'[m] # "none"
    BY <1>11, <2>1, <2>2, StoreUnchanged
    DEF RecvInvalid, locals, TypeInv, TypeOK, HandlerOrder
  <2> QED
    BY <2>1, <2>3, StoreUnchanged, HandlerOrderKept
<1>12. ASSUME NEW c \in Conn, RecvReplay(c) PROVE StoreInv'
  <2>1. UNCHANGED dbvars
    BY <1>12 DEF RecvReplay
  <2>2. /\ pc'[c] \in {"loop", "cleanup"}
        /\ \A d \in Conn \ {c} : pc'[d] = pc[d]
    BY <1>12, ReplyMoves DEF RecvReplay, TypeInv
  <2>3. /\ \A d \in Conn \ {c} :
             /\ pc'[d] = pc[d]
             /\ cur'[d] = cur[d]
             /\ pend'[d] = pend[d]
        /\ pc'[c] = "insert" => Recorded(cur[c])'
        /\ pc'[c] \in Placed => Inserted(cur[c])'
        /\ \A m \in pend'[c] : messages'[m] # "none"
    BY <1>12, <2>1, <2>2, StoreUnchanged
    DEF RecvReplay, locals, TypeInv, TypeOK, HandlerOrder
  <2> QED
    BY <2>1, <2>3, StoreUnchanged, HandlerOrderKept
<1>13. ASSUME NEW c \in Conn, RecvFresh(c) PROVE StoreInv'
  <2>1. UNCHANGED dbvars
    BY <1>13 DEF RecvFresh
  <2>2. /\ \A d \in Conn \ {c} :
             /\ pc'[d] = pc[d]
             /\ cur'[d] = cur[d]
             /\ pend'[d] = pend[d]
        /\ pc'[c] = "insert" => Recorded(cur[c])'
        /\ pc'[c] \in Placed => Inserted(cur[c])'
        /\ \A m \in pend'[c] : messages'[m] # "none"
    BY <1>13, <2>1, StoreUnchanged
    DEF RecvFresh, Goto, locals, TypeInv, TypeOK, HandlerOrder
  <2> QED
    BY <2>1, <2>2, StoreUnchanged, HandlerOrderKept
<1>14. ASSUME NEW c \in Conn, RecordSeen(c) PROVE StoreInv'
  <2>1. cur[c] \in Msg
    BY <1>14 DEF RecordSeen, TypeInv, Locals, Working
  <2>2. /\ Enqueue(record_seen(cur[c]))
        /\ UNCHANGED tables
        /\ record_seen(cur[c]) \in Task
    BY <1>14, <2>1, FrameTypes DEF RecordSeen
  <2>3. QueueOrder'
    BY <2>2, OrderAfterEnqueue DEF TypeInv, TypeOK, record_seen
  <2>4. /\ RowsSound'
        /\ \A m \in Msg : Recorded(m) => Recorded(m)'
        /\ \A m \in Msg : Inserted(m) => Inserted(m)'
        /\ \A m \in Msg : record_seen(cur[c]) = record_seen(m) => Recorded(m)'
        /\ \A m \in Msg : record_seen(cur[c]) = insert_message(m) => Inserted(m)'
    BY <2>2, StoreAfterEnqueue DEF TypeInv, TypeOK
  <2>5. messages' = messages
    BY <2>2 DEF tables
  <2>6. /\ \A d \in Conn \ {c} :
             /\ pc'[d] = pc[d]
             /\ cur'[d] = cur[d]
             /\ pend'[d] = pend[d]
        /\ pc'[c] = "insert" => Recorded(cur[c])'
        /\ pc'[c] \in Placed => Inserted(cur[c])'
        /\ \A m \in pend'[c] : messages'[m] # "none"
    <3>1. Recorded(cur[c])'
      <4>1. cur' = cur
        BY <1>14 DEF RecordSeen, locals
      <4> QED
        BY <2>1, <2>4, <4>1 DEF Recorded, Queued
    <3> QED
      BY <1>14, <2>1, <2>4, <2>5, <3>1
      DEF RecordSeen, Goto, locals, TypeInv, TypeOK, HandlerOrder
  <2> QED
    BY <2>3, <2>4, <2>5, <2>6, HandlerOrderKept
<1>15. ASSUME NEW c \in Conn, InsertMessage(c) PROVE StoreInv'
  <2>1. cur[c] \in Msg
    BY <1>15 DEF InsertMessage, TypeInv, Locals, Working
  <2>2. /\ Enqueue(insert_message(cur[c]))
        /\ UNCHANGED tables
        /\ insert_message(cur[c]) \in Task
    BY <1>15, <2>1, FrameTypes DEF InsertMessage
  <2>3. QueueOrder'
    <3>1. Recorded(cur[c])
      BY <1>15 DEF InsertMessage, HandlerOrder
    <3> QED
      BY <2>2, <3>1, OrderAfterEnqueue DEF TypeInv, TypeOK, insert_message
  <2>4. /\ RowsSound'
        /\ \A m \in Msg : Recorded(m) => Recorded(m)'
        /\ \A m \in Msg : Inserted(m) => Inserted(m)'
        /\ \A m \in Msg : insert_message(cur[c]) = record_seen(m) => Recorded(m)'
        /\ \A m \in Msg : insert_message(cur[c]) = insert_message(m) => Inserted(m)'
    BY <2>2, StoreAfterEnqueue DEF TypeInv, TypeOK
  <2>5. messages' = messages
    BY <2>2 DEF tables
  <2>6. /\ \A d \in Conn \ {c} :
             /\ pc'[d] = pc[d]
             /\ cur'[d] = cur[d]
             /\ pend'[d] = pend[d]
        /\ pc'[c] = "insert" => Recorded(cur[c])'
        /\ pc'[c] \in Placed => Inserted(cur[c])'
        /\ \A m \in pend'[c] : messages'[m] # "none"
    <3>1. Inserted(cur[c])'
      <4>1. cur' = cur
        BY <1>15 DEF InsertMessage, locals
      <4> QED
        BY <2>1, <2>4, <4>1 DEF Inserted, Queued
    <3> QED
      BY <1>15, <2>1, <2>4, <2>5, <3>1
      DEF InsertMessage, Goto, locals, TypeInv, TypeOK, HandlerOrder
  <2> QED
    BY <2>3, <2>4, <2>5, <2>6, HandlerOrderKept
<1>16. ASSUME NEW c \in Conn, RouteOnline(c) PROVE StoreInv'
  <2>1. UNCHANGED dbvars
    BY <1>16 DEF RouteOnline
  <2>2. /\ \A d \in Conn \ {c} :
             /\ pc'[d] = pc[d]
             /\ cur'[d] = cur[d]
             /\ pend'[d] = pend[d]
        /\ pc'[c] = "insert" => Recorded(cur[c])'
        /\ pc'[c] \in Placed => Inserted(cur[c])'
        /\ \A m \in pend'[c] : messages'[m] # "none"
    BY <1>16, <2>1, StoreUnchanged
    DEF RouteOnline, Goto, locals, TypeInv, TypeOK, HandlerOrder
  <2> QED
    BY <2>1, <2>2, StoreUnchanged, HandlerOrderKept
<1>17. ASSUME NEW c \in Conn, RouteOffline(c) PROVE StoreInv'
  <2>1. UNCHANGED dbvars
    BY <1>17 DEF RouteOffline
  <2>2. /\ \A d \in Conn \ {c} :
             /\ pc'[d] = pc[d]
             /\ cur'[d] = cur[d]
             /\ pend'[d] = pend[d]
        /\ pc'[c] = "insert" => Recorded(cur[c])'
        /\ pc'[c] \in Placed => Inserted(cur[c])'
        /\ \A m \in pend'[c] : messages'[m] # "none"
    BY <1>17, <2>1, StoreUnchanged
    DEF RouteOffline, Goto, locals, TypeInv, TypeOK, HandlerOrder
  <2> QED
    BY <2>1, <2>2, StoreUnchanged, HandlerOrderKept
<1>17a. ASSUME NEW c \in Conn, RouteRaises(c) PROVE StoreInv'
  <2>1. UNCHANGED dbvars
    BY <1>17a DEF RouteRaises
  <2>2. /\ \A d \in Conn \ {c} :
             /\ pc'[d] = pc[d]
             /\ cur'[d] = cur[d]
             /\ pend'[d] = pend[d]
        /\ pc'[c] = "insert" => Recorded(cur[c])'
        /\ pc'[c] \in Placed => Inserted(cur[c])'
        /\ \A m \in pend'[c] : messages'[m] # "none"
    BY <1>17a, <2>1, StoreUnchanged
    DEF RouteRaises, Goto, locals, TypeInv, TypeOK, HandlerOrder
  <2> QED
    BY <2>1, <2>2, StoreUnchanged, HandlerOrderKept
<1>18. ASSUME NEW c \in Conn, Forward(c) PROVE StoreInv'
  <2>1. UNCHANGED dbvars
    BY <1>18 DEF Forward
  <2>2. /\ \A d \in Conn \ {c} :
             /\ pc'[d] = pc[d]
             /\ cur'[d] = cur[d]
             /\ pend'[d] = pend[d]
        /\ pc'[c] = "insert" => Recorded(cur[c])'
        /\ pc'[c] \in Placed => Inserted(cur[c])'
        /\ \A m \in pend'[c] : messages'[m] # "none"
    BY <1>18, <2>1, StoreUnchanged
    DEF Forward, Goto, locals, TypeInv, TypeOK, HandlerOrder
  <2> QED
    BY <2>1, <2>2, StoreUnchanged, HandlerOrderKept
<1>19. ASSUME NEW c \in Conn, ForwardFails(c) PROVE StoreInv'
  <2>1. UNCHANGED dbvars
    BY <1>19 DEF ForwardFails
  <2>2. /\ \A d \in Conn \ {c} :
             /\ pc'[d] = pc[d]
             /\ cur'[d] = cur[d]
             /\ pend'[d] = pend[d]
        /\ pc'[c] = "insert" => Recorded(cur[c])'
        /\ pc'[c] \in Placed => Inserted(cur[c])'
        /\ \A m \in pend'[c] : messages'[m] # "none"
    BY <1>19, <2>1, StoreUnchanged
    DEF ForwardFails, Goto, locals, TypeInv, TypeOK, HandlerOrder
  <2> QED
    BY <2>1, <2>2, StoreUnchanged, HandlerOrderKept
<1>20. ASSUME NEW c \in Conn, Mark(c) PROVE StoreInv'
  <2>1. cur[c] \in Msg
    BY <1>20 DEF Mark, TypeInv, Locals, Working
  <2>2. /\ Enqueue(update_delivered(cur[c]))
        /\ UNCHANGED tables
        /\ update_delivered(cur[c]) \in Task
    BY <1>20, <2>1, FrameTypes DEF Mark
  <2>3. QueueOrder'
    <3>1. Inserted(cur[c])
      BY <1>20 DEF Mark, HandlerOrder
    <3> QED
      BY <2>2, <3>1, OrderAfterEnqueue DEF TypeInv, TypeOK, update_delivered
  <2>4. /\ RowsSound'
        /\ \A m \in Msg : Recorded(m) => Recorded(m)'
        /\ \A m \in Msg : Inserted(m) => Inserted(m)'
        /\ \A m \in Msg : update_delivered(cur[c]) = record_seen(m) => Recorded(m)'
        /\ \A m \in Msg : update_delivered(cur[c]) = insert_message(m) => Inserted(m)'
    BY <2>2, StoreAfterEnqueue DEF TypeInv, TypeOK
  <2>5. messages' = messages
    BY <2>2 DEF tables
  <2>6. /\ \A d \in Conn \ {c} :
             /\ pc'[d] = pc[d]
             /\ cur'[d] = cur[d]
             /\ pend'[d] = pend[d]
        /\ pc'[c] = "insert" => Recorded(cur[c])'
        /\ pc'[c] \in Placed => Inserted(cur[c])'
        /\ \A m \in pend'[c] : messages'[m] # "none"
    <3>1. cur' = cur /\ pend' = pend /\ pc' = [pc EXCEPT ![c] = "ack_delivered"]
      BY <1>20 DEF Mark, Goto, locals
    <3>2. Inserted(cur[c])'
      <4>1. Inserted(cur[c])
        BY <1>20 DEF Mark, HandlerOrder
      <4> QED
        BY <2>1, <2>4, <3>1, <4>1 DEF Inserted, Queued
    <3> QED
      BY <2>5, <3>1, <3>2 DEF TypeInv, TypeOK, HandlerOrder
  <2> QED
    BY <2>3, <2>4, <2>5, <2>6, HandlerOrderKept
<1>20a. ASSUME NEW c \in Conn, AckSent(c) PROVE StoreInv'
  <2>1. UNCHANGED dbvars
    BY <1>20a DEF AckSent
  <2>2. /\ pc'[c] \in {"loop", "cleanup"}
        /\ \A d \in Conn \ {c} : pc'[d] = pc[d]
    BY <1>20a, ReplyMoves DEF AckSent, TypeInv
  <2>3. /\ \A d \in Conn \ {c} :
             /\ pc'[d] = pc[d]
             /\ cur'[d] = cur[d]
             /\ pend'[d] = pend[d]
        /\ pc'[c] = "insert" => Recorded(cur[c])'
        /\ pc'[c] \in Placed => Inserted(cur[c])'
        /\ \A m \in pend'[c] : messages'[m] # "none"
    BY <1>20a, <2>1, <2>2, StoreUnchanged
    DEF AckSent, locals, TypeInv, TypeOK, HandlerOrder
  <2> QED
    BY <2>1, <2>3, StoreUnchanged, HandlerOrderKept
<1>20b. ASSUME NEW c \in Conn, AckDelivered(c) PROVE StoreInv'
  <2>1. UNCHANGED dbvars
    BY <1>20b DEF AckDelivered
  <2>2. /\ pc'[c] \in {"loop", "cleanup"}
        /\ \A d \in Conn \ {c} : pc'[d] = pc[d]
    BY <1>20b, ReplyMoves DEF AckDelivered, TypeInv
  <2>3. /\ \A d \in Conn \ {c} :
             /\ pc'[d] = pc[d]
             /\ cur'[d] = cur[d]
             /\ pend'[d] = pend[d]
        /\ pc'[c] = "insert" => Recorded(cur[c])'
        /\ pc'[c] \in Placed => Inserted(cur[c])'
        /\ \A m \in pend'[c] : messages'[m] # "none"
    BY <1>20b, <2>1, <2>2, StoreUnchanged
    DEF AckDelivered, locals, TypeInv, TypeOK, HandlerOrder
  <2> QED
    BY <2>1, <2>3, StoreUnchanged, HandlerOrderKept
<1>21. ASSUME NEW c \in Conn, Cleanup(c) PROVE StoreInv'
  <2>1. UNCHANGED dbvars
    BY <1>21 DEF Cleanup
  <2>2. /\ \A d \in Conn \ {c} :
             /\ pc'[d] = pc[d]
             /\ cur'[d] = cur[d]
             /\ pend'[d] = pend[d]
        /\ pc'[c] = "insert" => Recorded(cur[c])'
        /\ pc'[c] \in Placed => Inserted(cur[c])'
        /\ \A m \in pend'[c] : messages'[m] # "none"
    BY <1>21, <2>1, StoreUnchanged
    DEF Cleanup, Goto, locals, TypeInv, TypeOK, HandlerOrder
  <2> QED
    BY <2>1, <2>2, StoreUnchanged, HandlerOrderKept
<1>22. ASSUME NEW c \in Conn, Handler(c) PROVE StoreInv'
  BY <1>22, <1>1, <1>2, <1>3, <1>3a, <1>4, <1>5, <1>6, <1>7, <1>8, <1>9,
     <1>10, <1>11, <1>12, <1>13, <1>14, <1>15, <1>16, <1>17, <1>17a, <1>18,
     <1>19, <1>20, <1>20a, <1>20b, <1>21 DEF Handler
<1>23. ASSUME NEW c \in Conn, NEW u \in User, NEW k \in Kinds, Connect(c, u, k)
      PROVE StoreInv'
  <2>1. UNCHANGED dbvars
    BY <1>23 DEF Connect, server
  <2> QED
    BY <1>23, <2>1, StoreUnchanged
    DEF Connect, server, locals, Goto, TypeInv, TypeOK, HandlerOrder
<1>24. ASSUME UNCHANGED <<dbvars, pc, locals>> PROVE StoreInv'
  BY <1>24, StoreUnchanged DEF locals, HandlerOrder
<1>25. ASSUME NEW c \in Conn, NEW m \in Msg, ClientSend(c, m) PROVE StoreInv'
  BY <1>25, <1>24 DEF ClientSend, server
<1>26. ASSUME NEW c \in Conn, NEW k \in {"bad_chat", "garbage"}, ClientSendBad(c, k)
      PROVE StoreInv'
  BY <1>26, <1>24 DEF ClientSendBad, server
<1>27. ASSUME NEW c \in Conn, ClientRead(c) PROVE StoreInv'
  BY <1>27, <1>24 DEF ClientRead, server
<1>28. ASSUME NEW c \in Conn, ClientClose(c) PROVE StoreInv'
  BY <1>28, <1>24 DEF ClientClose, server
<1>29. CASE Writer
  <2>1. /\ QueueOrder'
        /\ RowsSound'
        /\ \A m \in Msg : Recorded(m) => Recorded(m)'
        /\ \A m \in Msg : Inserted(m) => Inserted(m)'
        /\ \A m \in Msg : messages[m] # "none" => messages'[m] # "none"
    BY <1>29, StoreAfterWriter, WriterEffect DEF Writer, TypeInv, TypeOK
  <2>2. pc' = pc /\ cur' = cur /\ pend' = pend
    BY <1>29 DEF Writer, locals
  <2>3. HandlerOrder'
    <3> SUFFICES ASSUME NEW c \in Conn
                 PROVE  /\ pc'[c] = "insert" => Recorded(cur[c])'
                        /\ pc'[c] \in Placed => Inserted(cur[c])'
                        /\ \A m \in pend'[c] : messages'[m] # "none"
      BY DEF HandlerOrder
    <3> QED
      BY <2>1, <2>2
      DEF HandlerOrder, TypeInv, TypeOK, Locals, Working, Recorded, Inserted,
          Queued
  <2> QED
    BY <2>1, <2>3
<1>30. CASE Stop
  <2>1. Enqueue(Shutdown) /\ UNCHANGED tables /\ Shutdown \in Task
    BY <1>30, FrameTypes DEF Stop, stop
  <2>2. QueueOrder'
    BY <2>1, OrderAfterEnqueue DEF TypeInv, TypeOK, Shutdown
  <2>3. /\ RowsSound'
        /\ \A m \in Msg : Recorded(m) => Recorded(m)'
        /\ \A m \in Msg : Inserted(m) => Inserted(m)'
        /\ messages' = messages
    BY <2>1, StoreAfterEnqueue DEF TypeInv, TypeOK, tables
  <2>4. pc' = pc /\ cur' = cur /\ pend' = pend
    BY <1>30 DEF Stop, locals
  <2>5. HandlerOrder'
    <3> SUFFICES ASSUME NEW c \in Conn
                 PROVE  /\ pc'[c] = "insert" => Recorded(cur[c])'
                        /\ pc'[c] \in Placed => Inserted(cur[c])'
                        /\ \A m \in pend'[c] : messages'[m] # "none"
      BY DEF HandlerOrder
    <3> QED
      BY <2>3, <2>4
      DEF HandlerOrder, TypeInv, TypeOK, Locals, Working, Recorded, Inserted,
          Queued
  <2> QED
    BY <2>2, <2>3, <2>5
<1>31. CASE Restart
  <2>1. Len(wq') = 0 /\ messages' = messages /\ seen' = seen
    BY <1>31 DEF Restart, start, tables
  <2>2. \A c \in Conn : pc'[c] \in {"idle", "closed"} /\ pend'[c] = {}
    BY <1>31 DEF Restart
  <2> QED
    BY <2>1, <2>2 DEF QueueOrder, RowsSound, HandlerOrder
<1>32. CASE UNCHANGED vars
  BY <1>32, <1>24 DEF vars
<1> QED
  BY <1>22, <1>23, <1>25, <1>26, <1>27, <1>28, <1>29, <1>30, <1>31, <1>32
  DEF Next

\* A fresh server: nothing is queued, stored or in a handler's hands.
LEMMA StoreInvInit == Init => StoreInv
BY DEF Init, DbInit, StoreInv, QueueOrder, RowsSound, HandlerOrder

\* The inductive invariant of the store, with the types it needs.
LEMMA StoreInvariant == Spec => [](TypeInv /\ StoreInv)
<1>1. Init => StoreInv
  BY StoreInvInit
<1>2. TypeInv /\ StoreInv /\ [Next]_vars => StoreInv'
  BY StoreInvNext
<1>3. Spec => []TypeInv
  BY TypeCorrect, PTL DEF TypeInv
<1> QED
  BY <1>1, <1>2, <1>3, PTL DEF Spec

\* The write queue is in order in every reachable state: the writer never
\* executes an UPDATE whose row is not there yet, nor an INSERT whose id is not
\* recorded as seen, however the handlers interleave and the process restarts.
THEOREM QueueInOrder == Spec => []QueueOrder
BY StoreInvariant, PTL DEF StoreInv

\* Every row of the messages table is protected against replay, also in the
\* tables that a restart finds.
THEOREM StoredImpliesSeen == Spec => []StoredIsSeen
<1>1. StoreInv => StoredIsSeen
  BY DEF StoreInv, RowsSound, StoredIsSeen
<1> QED
  BY <1>1, StoreInvariant, PTL

-----------------------------------------------------------------------------
(* ChatServer implements Mailbox. *)

\* The refinement mapping's status of all messages.
Logical == [m \in Msg |-> LogicalStatus(m)]

\* Where a message stands depends on its row and on two tasks only.
LEMMA LogicalCases ==
  ASSUME NEW m
  PROVE  /\ LogicalStatus(m) \in {"none", "sent", "delivered"}
         /\ LogicalStatus(m) = "delivered" <=>
              /\ m \in Storable
              /\ messages[m] = "delivered" \/ Queued(update_delivered(m))
         /\ LogicalStatus(m) # "none" <=>
              /\ m \in Storable
              /\ \/ messages[m] = "delivered" \/ Queued(update_delivered(m))
                 \/ messages[m] = "sent" \/ Queued(insert_message(m))
BY DEF LogicalStatus

\* A message whose row is there or queued has been taken on.
LEMMA InsertedIsTaken ==
  ASSUME DbTypeOK, NEW m \in Storable, Inserted(m)
  PROVE  LogicalStatus(m) \in {"sent", "delivered"}
BY MsgAssumption DEF Inserted, LogicalStatus, DbTypeOK, Status

\* A put of a task that is about no message's row changes nothing.
LEMMA LogicalAfterOther ==
  ASSUME DbTypeOK, NEW t \in Task, Enqueue(t), UNCHANGED tables,
         t.op \notin {"insert_message", "update_delivery_status"}
  PROVE  Logical' = Logical
<1>1. messages' = messages
  BY DEF tables
<1>2. \A x : Queued(x)' <=> Queued(x) \/ x = t
  BY QueuedAfterEnqueue DEF DbTypeOK
<1>3. \A m \in Msg : t # insert_message(m) /\ t # update_delivered(m)
  BY DEF insert_message, update_delivered
<1>4. \A m \in Msg : LogicalStatus(m)' = LogicalStatus(m)
  BY <1>1, <1>2, <1>3 DEF LogicalStatus
<1> QED
  BY <1>4 DEF Logical

\* A put of an insertion takes the message on, if it is not there yet and the
\* table takes it.
LEMMA LogicalAfterInsert ==
  ASSUME DbTypeOK, NEW m \in Msg, Enqueue(insert_message(m)), UNCHANGED tables
  PROVE  \/ Logical' = Logical
         \/ /\ m \in Storable /\ LogicalStatus(m) = "none"
            /\ Logical' = [Logical EXCEPT ![m] = "sent"]
<1>1. messages' = messages
  BY DEF tables
<1>2. \A x : Queued(x)' <=> Queued(x) \/ x = insert_message(m)
  BY QueuedAfterEnqueue, FrameTypes DEF DbTypeOK
<1>3. \A k \in Msg : /\ insert_message(k) = insert_message(m) <=> k = m
                     /\ update_delivered(k) # insert_message(m)
  BY DEF insert_message, update_delivered
<1>4. \A k \in Msg : k # m => LogicalStatus(k)' = LogicalStatus(k)
  BY <1>1, <1>2, <1>3 DEF LogicalStatus
<1>5. LogicalStatus(m)' = IF m \in Storable /\ LogicalStatus(m) = "none" THEN "sent"
                          ELSE LogicalStatus(m)
  BY <1>1, <1>2, <1>3 DEF LogicalStatus
<1> QED
  BY <1>4, <1>5 DEF Logical

\* A put of an update delivers a message that has been taken on.
LEMMA LogicalAfterUpdate ==
  ASSUME DbTypeOK, NEW m \in Msg, Inserted(m), Enqueue(update_delivered(m)),
         UNCHANGED tables
  PROVE  \/ Logical' = Logical
         \/ LogicalStatus(m) = "sent" /\ Logical' = [Logical EXCEPT ![m] = "delivered"]
<1>1. messages' = messages
  BY DEF tables
<1>2. \A x : Queued(x)' <=> Queued(x) \/ x = update_delivered(m)
  BY QueuedAfterEnqueue, FrameTypes DEF DbTypeOK
<1>3. \A k \in Msg : /\ update_delivered(k) = update_delivered(m) <=> k = m
                     /\ insert_message(k) # update_delivered(m)
  BY DEF insert_message, update_delivered
<1>4. \A k \in Msg : k # m => LogicalStatus(k)' = LogicalStatus(k)
  BY <1>1, <1>2, <1>3 DEF LogicalStatus
<1>5. m \in Storable => LogicalStatus(m)' = "delivered"
  BY <1>1, <1>2, <1>3 DEF LogicalStatus
<1>6. m \in Storable => LogicalStatus(m) \in {"sent", "delivered"}
  BY InsertedIsTaken
<1>7. m \notin Storable => LogicalStatus(m)' = LogicalStatus(m)
  BY DEF LogicalStatus
<1> QED
  BY <1>4, <1>5, <1>6, <1>7 DEF Logical

\* A turn of the writer does not change where a message stands: the effect of
\* the task it takes off the queue is in the table now.
LEMMA LogicalAfterWriter ==
  ASSUME DbTypeOK, QueueOrder, WriterStep
  PROVE  Logical' = Logical
<1>1. /\ \A m \in Msg : messages[m] # "none" => messages'[m] # "none"
      /\ \A m \in Msg : messages[m] = "delivered" => messages'[m] = "delivered"
      /\ \A m \in Msg : messages'[m] # messages[m] =>
           \/ Head(wq) = insert_message(m) /\ messages[m] = "none" /\ messages'[m] = "sent"
           \/ Head(wq) = update_delivered(m) /\ messages'[m] = "delivered"
      /\ \A m \in Storable : Head(wq) = insert_message(m) => messages'[m] # "none"
      /\ \A m \in Storable :
           Head(wq) = update_delivered(m) => messages'[m] = "delivered"
  BY WriterEffect DEF DbTypeOK
<1>2. /\ wq \in Seq(Task)
      /\ wq # << >>
      /\ wq' = Tail(wq)
  BY DEF DbTypeOK, WriterStep
<1>3. \A x : /\ Queued(x)' => Queued(x)
             /\ Queued(x) => Queued(x)' \/ x = Head(wq)
  BY <1>2, QueuedAfterTail
<1>4. \A m \in Msg : Head(wq) = insert_message(m) \/ Head(wq) = update_delivered(m) =>
        Queued(Head(wq))
  BY <1>2, TailElements DEF Queued
<1>5. messages' \in [Msg -> {"none", "sent", "delivered"}]
  BY WriterType DEF DbTypeOK, Status
<1>6. \A m \in Msg : LogicalStatus(m)' = LogicalStatus(m)
  <2> SUFFICES ASSUME NEW m \in Storable PROVE LogicalStatus(m)' = LogicalStatus(m)
    BY DEF LogicalStatus
  <2>1. /\ messages'[m] \in {"none", "sent", "delivered"}
        /\ messages[m] \in {"none", "sent", "delivered"}
        /\ m \in Msg
    BY <1>5, MsgAssumption DEF DbTypeOK, Status
  <2>2. (messages'[m] = "delivered" \/ Queued(update_delivered(m))') <=>
        (messages[m] = "delivered" \/ Queued(update_delivered(m)))
    BY <1>1, <1>3, <1>4, <2>1
  <2>3. (messages'[m] # "none" \/ Queued(insert_message(m))') <=>
        (messages[m] # "none" \/ Queued(insert_message(m)))
    <3>1. messages'[m] # "none" => messages[m] # "none" \/ Queued(insert_message(m))
      <4>1. CASE messages'[m] = messages[m]
        BY <4>1
      <4>2. CASE Head(wq) = insert_message(m)
        BY <1>4, <2>1, <4>2
      <4>3. CASE Head(wq) = update_delivered(m)
        BY <1>2, <4>3, HeadIsReady DEF update_delivered
      <4> QED
        BY <1>1, <2>1, <4>1, <4>2, <4>3
    <3> QED
      BY <1>1, <1>3, <2>1, <3>1
  <2> QED
    BY <2>1, <2>2, <2>3 DEF LogicalStatus
<1> QED
  BY <1>6 DEF Logical

-----------------------------------------------------------------------------
(* The steps of the system, as steps of the store. *)

\* What a step does to the store.
Stutters == UNCHANGED <<Logical, messages, restarts>>
Stores(m) ==
  /\ m \in Storable
  /\ LogicalStatus(m) = "none"
  /\ Logical' = [Logical EXCEPT ![m] = "sent"]
  /\ UNCHANGED <<messages, restarts>>
Delivers(m) ==
  /\ LogicalStatus(m) = "sent"
  /\ Logical' = [Logical EXCEPT ![m] = "delivered"]
  /\ UNCHANGED <<messages, restarts>>
Commits ==
  /\ UNCHANGED <<Logical, restarts>>
  /\ WriterStep

StoreStep ==
  \/ Stutters
  \/ \E m \in Msg : Stores(m) \/ Delivers(m)
  \/ Commits
  \/ Restart

\* A step that leaves the database and the restart counter alone.
LEMMA UnchangedStutters ==
  ASSUME UNCHANGED <<dbvars, restarts>>
  PROVE  Stutters
BY DEF dbvars, Stutters, Logical, LogicalStatus, Queued

\* Every step of the system is one of these.
LEMMA NextIsStoreStep == TypeInv /\ StoreInv /\ [Next]_vars => StoreStep
<1> SUFFICES ASSUME TypeInv, StoreInv, [Next]_vars PROVE StoreStep
  OBVIOUS
<1>1. DbTypeOK
  BY DEF TypeInv, TypeOK
<1>2. ASSUME NEW c \in Conn, Handler(c) PROVE StoreStep
  <2>1. CASE \/ RecvFails(c) \/ AuthInvalid(c) \/ AuthFailed(c) \/ RegisterConn(c)
             \/ ReadPending(c) \/ Drain(c) \/ DrainFails(c) \/ DrainDone(c)
             \/ RecvInvalid(c) \/ RecvReplay(c) \/ RecvFresh(c) \/ RouteOnline(c)
             \/ RouteRaises(c) \/ RouteOffline(c) \/ Forward(c) \/ ForwardFails(c)
             \/ AuthRaises(c) \/ AckSent(c) \/ AckDelivered(c) \/ Cleanup(c)
    <3>1. UNCHANGED <<dbvars, restarts>>
      BY <2>1
      DEF RecvFails, AuthInvalid, AuthFailed, RegisterConn, ReadPending,
          Drain, DrainFails, DrainDone, RecvInvalid, RecvReplay, RecvFresh,
          RouteOnline, RouteRaises, RouteOffline, Forward, ForwardFails,
          AuthRaises, AckSent, AckDelivered, Cleanup
    <3> QED
      BY <3>1, UnchangedStutters DEF StoreStep
  <2>2. CASE AuthOk(c)
    <3>1. Head(inbox[c]) \in InFrame /\ Head(inbox[c]).type \in {"auth"}
      BY <2>2, ReceiveType DEF AuthOk, TypeInv
    <3>2. insert_session(c, Head(inbox[c]).user) \in Task
      BY <3>1, FrameTypes DEF InFrame
    <3>3. Logical' = Logical
      BY <1>1, <2>2, <3>2, LogicalAfterOther DEF AuthOk, insert_session
    <3> QED
      BY <2>2, <3>3 DEF AuthOk, tables, Stutters, StoreStep
  <2>3. CASE RecordSeen(c)
    <3>1. record_seen(cur[c]) \in Task
      BY <2>3, FrameTypes DEF RecordSeen, TypeInv, Locals, Working
    <3>2. Logical' = Logical
      BY <1>1, <2>3, <3>1, LogicalAfterOther DEF RecordSeen, record_seen
    <3> QED
      BY <2>3, <3>2 DEF RecordSeen, tables, Stutters, StoreStep
  <2>4. CASE InsertMessage(c)
    <3>1. cur[c] \in Msg
      BY <2>4 DEF InsertMessage, TypeInv, Locals, Working
    <3>2. Enqueue(insert_message(cur[c])) /\ UNCHANGED <<tables, restarts>>
      BY <2>4 DEF InsertMessage
    <3> QED
      BY <1>1, <3>1, <3>2, LogicalAfterInsert
      DEF tables, Stutters, Stores, StoreStep
  <2>5. CASE Mark(c)
    <3>1. cur[c] \in Msg /\ Inserted(cur[c])
      BY <2>5 DEF Mark, TypeInv, Locals, Working, StoreInv, HandlerOrder
    <3>2. Enqueue(update_delivered(cur[c])) /\ UNCHANGED <<tables, restarts>>
      BY <2>5 DEF Mark
    <3> QED
      BY <1>1, <3>1, <3>2, LogicalAfterUpdate
      DEF tables, Stutters, Delivers, StoreStep
  <2>6. CASE DrainMark(c)
    <3>1. Min(pend[c]) \in pend[c] /\ Min(pend[c]) \in Msg
      BY <2>6, MinInSet DEF DrainMark, TypeInv, TypeOK, Locals
    <3>2. Inserted(Min(pend[c]))
      BY <3>1 DEF StoreInv, HandlerOrder, Inserted
    <3>3. /\ Enqueue(update_delivered(Min(pend[c])))
          /\ UNCHANGED <<tables, restarts>>
      BY <2>6 DEF DrainMark
    <3> QED
      BY <1>1, <3>1, <3>2, <3>3, LogicalAfterUpdate
      DEF tables, Stutters, Delivers, StoreStep
  <2> QED
    BY <1>2, <2>1, <2>2, <2>3, <2>4, <2>5, <2>6 DEF Handler
<1>3. ASSUME UNCHANGED <<dbvars, restarts>> PROVE StoreStep
  BY <1>3, UnchangedStutters DEF StoreStep
<1>4. CASE Writer
  BY <1>1, <1>4, LogicalAfterWriter DEF Writer, StoreInv, Commits, StoreStep
<1>5. CASE Stop
  <2>1. Logical' = Logical
    BY <1>1, <1>5, FrameTypes, LogicalAfterOther DEF Stop, stop, Shutdown
  <2> QED
    BY <1>5, <2>1 DEF Stop, stop, tables, Stutters, StoreStep
<1>6. CASE Restart
  BY <1>6 DEF StoreStep
<1>7. ASSUME NEW c \in Conn, NEW u \in User, NEW k \in Kinds, Connect(c, u, k)
      PROVE  StoreStep
  BY <1>3, <1>7 DEF Connect, server
<1>8. ASSUME NEW c \in Conn, NEW m \in Msg, ClientSend(c, m) PROVE StoreStep
  BY <1>3, <1>8 DEF ClientSend, server
<1>9. ASSUME NEW c \in Conn, NEW k \in {"bad_chat", "garbage"}, ClientSendBad(c, k)
      PROVE  StoreStep
  BY <1>3, <1>9 DEF ClientSendBad, server
<1>10. ASSUME NEW c \in Conn, ClientRead(c) \/ ClientClose(c) PROVE StoreStep
  BY <1>3, <1>10 DEF ClientRead, ClientClose, server
<1>11. CASE UNCHANGED vars
  BY <1>3, <1>11 DEF vars
<1> QED
  BY <1>2, <1>4, <1>5, <1>6, <1>7, <1>8, <1>9, <1>10, <1>11 DEF Next

\* A step of the system is a step of the abstract store, or leaves it alone.
LEMMA StepRefines ==
  TypeInv /\ StoreInv /\ [Next]_vars => [AbstractMailbox!Next]_(AbstractMailbox!vars)
<1> SUFFICES ASSUME TypeInv, StoreInv, [Next]_vars
             PROVE  AbstractMailbox!Next \/ UNCHANGED AbstractMailbox!vars
  OBVIOUS
<1>1. Logical \in [Msg -> {"none", "sent", "delivered"}]
  BY LogicalCases DEF Logical
<1>2. CASE Stutters
  BY <1>2 DEF Stutters, Logical, AbstractMailbox!vars
<1>3. ASSUME NEW m \in Msg, Stores(m) PROVE AbstractMailbox!Next
  <2>1. AbstractMailbox!Store(m)
    BY <1>3 DEF Stores, Logical, AbstractMailbox!Store
  <2> QED
    BY <2>1 DEF AbstractMailbox!Next
<1>4. ASSUME NEW m \in Msg, Delivers(m) PROVE AbstractMailbox!Next
  <2>1. AbstractMailbox!Deliver(m)
    BY <1>4 DEF Delivers, Logical, AbstractMailbox!Deliver
  <2> QED
    BY <2>1 DEF AbstractMailbox!Next
<1>5. CASE Commits
  <2>1. DbTypeOK /\ QueueOrder /\ WriterStep
    BY <1>5 DEF Commits, TypeInv, TypeOK, StoreInv
  <2>2. CASE messages' = messages
    BY <1>5, <2>2 DEF Commits, Logical, AbstractMailbox!vars
  <2>3. CASE messages' # messages
    <3>1. messages \in [Msg -> Status] /\ messages' \in [Msg -> Status]
      BY <2>1, WriterType DEF DbTypeOK
    <3>2. PICK m \in Msg : messages'[m] # messages[m]
      BY <2>3, <3>1
    <3>3. \/ /\ Head(wq) = insert_message(m) /\ m \in Storable
             /\ messages[m] = "none"
             /\ messages' = [messages EXCEPT ![m] = "sent"]
          \/ /\ Head(wq) = update_delivered(m)
             /\ messages[m] = "sent"
             /\ messages' = [messages EXCEPT ![m] = "delivered"]
      BY <2>1, <3>2, WriterEffect
    <3>4. Queued(Head(wq))
      BY <2>1, TailElements DEF WriterStep, DbTypeOK, Queued
    <3>5. CASE Head(wq) = insert_message(m) /\ m \in Storable /\ messages[m] = "none"
      <4>1. LogicalStatus(m) # "none"
        BY <3>4, <3>5, LogicalCases
      <4>2. AbstractMailbox!CommitStore(m)
        BY <1>5, <3>2, <3>3, <3>5, <4>1
        DEF Commits, Logical, AbstractMailbox!CommitStore
      <4> QED
        BY <4>2 DEF AbstractMailbox!Next
    <3>6. CASE Head(wq) = update_delivered(m) /\ messages[m] = "sent"
      <4>1. LogicalStatus(m) = "delivered"
        BY <3>4, <3>6, LogicalCases DEF StoreInv, RowsSound
      <4>2. AbstractMailbox!CommitDeliver(m)
        BY <1>5, <3>2, <3>3, <3>6, <4>1
        DEF Commits, Logical, AbstractMailbox!CommitDeliver
      <4> QED
        BY <4>2 DEF AbstractMailbox!Next
    <3> QED
      BY <3>3, <3>5, <3>6
  <2> QED
    BY <2>2, <2>3
<1>6. CASE Restart
  <2>1. /\ messages' = messages
        /\ Len(wq') = 0
        /\ messages \in [Msg -> {"none", "sent", "delivered"}]
    BY <1>6 DEF Restart, start, tables, TypeInv, TypeOK, DbTypeOK, Status
  <2>2. \A x : ~ Queued(x)'
    BY <2>1 DEF Queued
  <2>3. \A m \in Msg : LogicalStatus(m)' = messages[m]
    BY <2>1, <2>2 DEF LogicalStatus, StoreInv, RowsSound
  <2>4. [m \in Msg |-> LogicalStatus(m)]' = messages
    BY <2>1, <2>3
  <2>5. AbstractMailbox!Restart
    BY <1>6, <2>1, <2>4 DEF Restart, AbstractMailbox!Restart
  <2> QED
    BY <2>5 DEF AbstractMailbox!Next
<1> QED
  BY <1>2, <1>3, <1>4, <1>5, <1>6, NextIsStoreStep DEF StoreStep

\* A fresh server is a fresh store.
LEMMA InitRefines == Init => AbstractMailbox!Init
<1> SUFFICES ASSUME Init PROVE AbstractMailbox!Init
  OBVIOUS
<1>1. messages = [m \in Msg |-> "none"] /\ Len(wq) = 0 /\ restarts = 0
  BY DEF Init, DbInit
<1>2. \A m \in Msg : LogicalStatus(m) = "none"
  BY <1>1 DEF LogicalStatus, Queued
<1> QED
  BY <1>1, <1>2 DEF AbstractMailbox!Init

\* Handlers, write queue and writer thread implement the write-behind store: of
\* the messages the table takes, nothing a handler has queued is lost, reordered
\* to no effect or applied twice, and a restart takes back exactly what was not
\* committed; no row is written of the others.
THEOREM ImplementsMailbox == Spec => RefinesMailbox
<1>1. Spec => [](TypeInv /\ StoreInv)
  BY StoreInvariant
<1>2. TypeInv /\ StoreInv /\ [Next]_vars => [AbstractMailbox!Next]_(AbstractMailbox!vars)
  BY StepRefines
<1>3. Init => AbstractMailbox!Init
  BY InitRefines
<1> QED
  BY <1>1, <1>2, <1>3, PTL DEF Spec, RefinesMailbox, AbstractMailbox!Spec

\* No step takes a row back: a second copy of a message that slipped through
\* the replay check cannot make a delivered message pending again.
THEOREM RowsNeverGoBack == Spec => StatusMonotone
<1> DEFINE Keeps == \A m \in Msg :
                      /\ messages[m] = "delivered" => messages'[m] = "delivered"
                      /\ messages[m] = "sent" => messages'[m] # "none"
<1>1. ASSUME TypeInv, StoreInv, [Next]_vars PROVE Keeps
  <2>1. CASE messages' = messages
    BY <2>1
  <2>2. CASE Commits
    BY <1>1, <2>2, WriterEffect DEF Commits, TypeInv, TypeOK, StoreInv
  <2> QED
    BY <1>1, <2>1, <2>2, NextIsStoreStep
    DEF StoreStep, Stutters, Stores, Delivers, Restart, start, tables
<1>2. TypeInv /\ StoreInv /\ [Next]_vars => [Keeps]_vars
  BY <1>1
<1> QED
  BY <1>2, StoreInvariant, PTL DEF Spec, StatusMonotone

-----------------------------------------------------------------------------
(* Who puts what on the write queue, and who takes it off. *)

Puts(c, t) ==
  \/ AuthOk(c) /\ t = insert_session(c, Head(inbox[c]).user)
  \/ RecordSeen(c) /\ t = record_seen(cur[c])
  \/ InsertMessage(c) /\ t = insert_message(cur[c])
  \/ Mark(c) /\ t = update_delivered(cur[c])
  \/ DrainMark(c) /\ t = update_delivered(Min(pend[c]))

QueueStep ==
  /\ \A t \in Task : Queued(t)' => Queued(t) \/ t = Shutdown \/ \E c \in Conn : Puts(c, t)
  /\ \A t \in Task : Queued(t) => Queued(t)' \/ (WriterStep /\ t = Head(wq)) \/ Restart
  /\ \A t \in Task, c \in Conn : Puts(c, t) => Queued(t)'
  /\ UNCHANGED tables \/ WriterStep

\* A handler that puts a task queues exactly that.
LEMMA PutsQueue ==
  ASSUME TypeInv, NEW c \in Conn, NEW t, Puts(c, t)
  PROVE  t \in Task /\ Enqueue(t) /\ UNCHANGED tables
<1>1. CASE AuthOk(c) /\ t = insert_session(c, Head(inbox[c]).user)
  <2>1. Head(inbox[c]) \in InFrame /\ Head(inbox[c]).type \in {"auth"}
    BY <1>1, ReceiveType DEF AuthOk, TypeInv
  <2>2. Head(inbox[c]).user \in User
    BY <2>1 DEF InFrame
  <2> QED
    BY <1>1, <2>2, FrameTypes DEF AuthOk
<1>2. CASE \/ RecordSeen(c) /\ t = record_seen(cur[c])
           \/ InsertMessage(c) /\ t = insert_message(cur[c])
           \/ Mark(c) /\ t = update_delivered(cur[c])
  <2>1. cur[c] \in Msg
    BY <1>2 DEF RecordSeen, InsertMessage, Mark, TypeInv, Locals, Working
  <2> QED
    BY <1>2, <2>1, FrameTypes DEF RecordSeen, InsertMessage, Mark
<1>3. CASE DrainMark(c) /\ t = update_delivered(Min(pend[c]))
  <2>1. Min(pend[c]) \in Msg
    BY <1>3, MinInSet DEF DrainMark, TypeInv, TypeOK, Locals
  <2> QED
    BY <1>3, <2>1, FrameTypes DEF DrainMark
<1> QED
  BY <1>1, <1>2, <1>3 DEF Puts

\* Every step of the system changes the queue and the tables in these ways.
LEMMA NextIsQueueStep == TypeInv /\ [Next]_vars => QueueStep
<1> SUFFICES ASSUME TypeInv, [Next]_vars PROVE QueueStep
  OBVIOUS
<1>1. wq \in Seq(Task)
  BY DEF TypeInv, TypeOK, DbTypeOK
<1>2. \A t \in Task, c \in Conn : Puts(c, t) => Queued(t)'
  <2> SUFFICES ASSUME NEW t \in Task, NEW c \in Conn, Puts(c, t) PROVE Queued(t)'
    OBVIOUS
  <2> QED
    BY <1>1, PutsQueue, QueuedAfterEnqueue
<1>3. ASSUME UNCHANGED <<wq, tables>> PROVE QueueStep
  BY <1>2, <1>3 DEF QueueStep, Queued
<1>4. ASSUME NEW u \in Task, Enqueue(u), UNCHANGED tables,
             u = Shutdown \/ \E c \in Conn : Puts(c, u)
      PROVE  QueueStep
  <2>1. \A t \in Task : Queued(t)' <=> Queued(t) \/ t = u
    BY <1>1, <1>4, QueuedAfterEnqueue
  <2> QED
    BY <1>2, <1>4, <2>1 DEF QueueStep
<1>5. ASSUME NEW c \in Conn, Handler(c) PROVE QueueStep
  <2>1. CASE \/ RecvFails(c) \/ AuthInvalid(c) \/ AuthFailed(c) \/ RegisterConn(c)
             \/ ReadPending(c) \/ Drain(c) \/ DrainFails(c) \/ DrainDone(c)
             \/ RecvInvalid(c) \/ RecvReplay(c) \/ RecvFresh(c) \/ RouteOnline(c)
             \/ RouteRaises(c) \/ RouteOffline(c) \/ Forward(c) \/ ForwardFails(c)
             \/ AuthRaises(c) \/ AckSent(c) \/ AckDelivered(c) \/ Cleanup(c)
    <3>1. UNCHANGED dbvars
      BY <2>1
      DEF RecvFails, AuthInvalid, AuthFailed, RegisterConn, ReadPending, Drain,
          DrainFails, DrainDone, RecvInvalid, RecvReplay, RecvFresh,
          RouteOnline, RouteRaises, RouteOffline, Forward, ForwardFails,
          AuthRaises, AckSent, AckDelivered, Cleanup
    <3> QED
      BY <1>3, <3>1 DEF dbvars, tables
  <2>2. CASE \/ AuthOk(c) \/ RecordSeen(c) \/ InsertMessage(c) \/ Mark(c)
             \/ DrainMark(c)
    <3>1. \E t : Puts(c, t)
      BY <2>2 DEF Puts
    <3> QED
      BY <1>4, <3>1, PutsQueue
  <2> QED
    BY <1>5, <2>1, <2>2 DEF Handler
<1>6. ASSUME UNCHANGED dbvars PROVE QueueStep
  BY <1>3, <1>6 DEF dbvars, tables
<1>7. CASE Writer
  <2>1. WriterStep /\ wq # << >> /\ wq' = Tail(wq)
    BY <1>7 DEF Writer, WriterStep
  <2>2. \A t \in Task : /\ Queued(t)' => Queued(t)
                        /\ Queued(t) => Queued(t)' \/ t = Head(wq)
    BY <1>1, <2>1, QueuedAfterTail
  <2> QED
    BY <1>2, <2>1, <2>2 DEF QueueStep
<1>8. CASE Stop
  BY <1>4, <1>8, FrameTypes DEF Stop, stop
<1>9. CASE Restart
  <2>1. Len(wq') = 0 /\ UNCHANGED tables
    BY <1>9 DEF Restart, start
  <2> QED
    BY <1>2, <1>9, <2>1 DEF QueueStep, Queued
<1>10. ASSUME NEW c \in Conn, NEW u \in User, NEW k \in Kinds, Connect(c, u, k)
       PROVE  QueueStep
  BY <1>6, <1>10 DEF Connect, server
<1>11. ASSUME NEW c \in Conn, NEW m \in Msg, ClientSend(c, m) PROVE QueueStep
  BY <1>6, <1>11 DEF ClientSend, server
<1>12. ASSUME NEW c \in Conn, NEW k \in {"bad_chat", "garbage"}, ClientSendBad(c, k)
       PROVE  QueueStep
  BY <1>6, <1>12 DEF ClientSendBad, server
<1>13. ASSUME NEW c \in Conn, ClientRead(c) \/ ClientClose(c) PROVE QueueStep
  BY <1>6, <1>13 DEF ClientRead, ClientClose, server
<1>14. CASE UNCHANGED vars
  BY <1>6, <1>14 DEF vars
<1> QED
  BY <1>5, <1>7, <1>8, <1>9, <1>10, <1>11, <1>12, <1>13, <1>14 DEF Next

-----------------------------------------------------------------------------
(* Handed over before marked. *)

\* A handler marks a pending message only when it was handed over.  (For a
\* message that has just come in, ReportsHanded says so.)
DrainHanded ==
  \A c \in Conn : pc[c] = "drained" => handed[Min(pend[c])] # {}

\* A message becomes delivered, for the server, by a handler that marks it.
LEMMA DeliveredByMark ==
  ASSUME TypeInv, StoreInv, [Next]_vars, NEW m \in Msg,
         LogicalStatus(m)' = "delivered"
  PROVE  \/ LogicalStatus(m) = "delivered"
         \/ \E c \in Conn : \/ Mark(c) /\ m = cur[c]
                            \/ DrainMark(c) /\ m = Min(pend[c])
<1>1. QueueStep
  BY NextIsQueueStep
<1>2. update_delivered(m) \in Task
  BY FrameTypes
<1>3. messages'[m] = "delivered" \/ Queued(update_delivered(m))'
  BY DEF LogicalStatus, update_delivered
<1>4. CASE messages'[m] = "delivered"
  <2>1. CASE UNCHANGED tables
    BY <1>4, <2>1 DEF tables, LogicalStatus
  <2>2. CASE WriterStep
    <3>1. messages[m] = "delivered" \/ Head(wq) = update_delivered(m)
      BY <1>4, <2>2, WriterEffect DEF TypeInv, TypeOK, StoreInv, DbTypeOK
    <3>2. Queued(Head(wq))
      BY <2>2, TailElements DEF WriterStep, TypeInv, TypeOK, DbTypeOK, Queued
    <3> QED
      BY <3>1, <3>2 DEF LogicalStatus
  <2> QED
    BY <1>1, <2>1, <2>2 DEF QueueStep
<1>5. CASE Queued(update_delivered(m))'
  <2>1. CASE Queued(update_delivered(m))
    BY <2>1 DEF LogicalStatus
  <2>2. ASSUME NEW c \in Conn, Puts(c, update_delivered(m))
        PROVE  \/ Mark(c) /\ m = cur[c]
               \/ DrainMark(c) /\ m = Min(pend[c])
    BY <2>2
    DEF Puts, update_delivered, insert_session, record_seen, insert_message
  <2>3. update_delivered(m) # Shutdown
    BY DEF update_delivered, Shutdown
  <2> QED
    BY <1>1, <1>2, <1>5, <2>1, <2>2, <2>3 DEF QueueStep
<1> QED
  BY <1>3, <1>4, <1>5

\* A handler comes to mark a pending message by writing it.
HandStep ==
  \A c \in Conn : pc'[c] = "drained" =>
    /\ pend'[c] = pend[c]
    /\ pc[c] = "drained" \/ (Drain(c) /\ handed'[Min(pend[c])] # {})

\* Every step brings a handler to mark a message only as HandStep says.
LEMMA NextIsHandStep == TypeInv /\ [Next]_vars => HandStep
<1> SUFFICES ASSUME TypeInv, [Next]_vars PROVE HandStep
  OBVIOUS
<1>1. /\ pc \in [Conn -> Steps]
      /\ handed \in [Msg -> SUBSET Conn]
      /\ pend \in [Conn -> SUBSET Msg]
  BY DEF TypeInv, TypeOK
<1>3. ASSUME UNCHANGED pend,
             \A c \in Conn : pc'[c] = "drained" => pc[c] = "drained"
      PROVE  HandStep
  BY <1>3 DEF HandStep
<1>4. ASSUME NEW c \in Conn, Handler(c) PROVE HandStep
  <2>1. ASSUME NEW s, s # "drained", pc' = [pc EXCEPT ![c] = s]
        PROVE  \A d \in Conn : pc'[d] = "drained" => pc[d] = "drained" /\ d # c
    BY <1>1, <2>1
  <2>2. CASE \/ RecvFails(c) \/ RegisterConn(c) \/ DrainDone(c) \/ RecvFresh(c)
             \/ RecordSeen(c) \/ InsertMessage(c) \/ RouteOnline(c)
             \/ RouteRaises(c) \/ RouteOffline(c) \/ Forward(c)
             \/ ForwardFails(c) \/ Mark(c) \/ AuthRaises(c)
    <3>1. /\ UNCHANGED pend
          /\ \E s \in Steps \ {"drained"} : pc' = [pc EXCEPT ![c] = s]
      BY <2>2
      DEF RecvFails, RegisterConn, DrainDone, RecvFresh, RecordSeen, Steps,
          InsertMessage, RouteOnline, RouteRaises, RouteOffline, Forward,
          ForwardFails, Mark, AuthRaises, Goto, locals
    <3> QED
      BY <1>3, <2>1, <3>1
  <2>3. CASE \/ AuthInvalid(c) \/ AuthFailed(c) \/ AuthOk(c) \/ RecvInvalid(c)
             \/ RecvReplay(c) \/ AckSent(c) \/ AckDelivered(c)
    <3>1. /\ UNCHANGED pend
          /\ \E s \in {"register", "loop", "cleanup"} : pc' = [pc EXCEPT ![c] = s]
      BY <2>3, ReplyGoes
      DEF AuthInvalid, AuthFailed, AuthOk, RecvInvalid, RecvReplay,
          AckSent, AckDelivered, locals
    <3> QED
      BY <1>3, <2>1, <3>1
  <2>4. CASE ReadPending(c) \/ DrainFails(c) \/ DrainMark(c) \/ Cleanup(c)
    <3>1. /\ \A d \in Conn : d # c => pend'[d] = pend[d]
          /\ \E s \in {"drain", "loop", "closed"} : pc' = [pc EXCEPT ![c] = s]
      BY <1>1, <2>4
      DEF ReadPending, DrainFails, DrainMark, Cleanup, Goto
    <3> QED
      BY <2>1, <3>1 DEF HandStep
  <2>5. CASE Drain(c)
    <3>1. /\ Min(pend[c]) \in Msg
          /\ handed' = [handed EXCEPT ![Min(pend[c])] = @ \cup {c}]
          /\ UNCHANGED pend
          /\ pc' = [pc EXCEPT ![c] = "drained"]
      BY <2>5, MinInSet DEF Drain, Goto, locals, TypeInv, TypeOK
    <3>2. handed'[Min(pend[c])] # {}
      BY <1>1, <3>1
    <3> QED
      BY <1>1, <2>5, <3>1, <3>2 DEF HandStep
  <2> QED
    BY <1>4, <2>2, <2>3, <2>4, <2>5 DEF Handler
<1>5. ASSUME NEW c \in Conn, NEW u \in User, NEW k \in Kinds, Connect(c, u, k)
      PROVE  HandStep
  BY <1>1, <1>3, <1>5 DEF Connect, Goto, server, locals
<1>6. ASSUME NEW c \in Conn, NEW m \in Msg, ClientSend(c, m) PROVE HandStep
  BY <1>3, <1>6 DEF ClientSend, server, locals
<1>7. ASSUME NEW c \in Conn, NEW k \in {"bad_chat", "garbage"}, ClientSendBad(c, k)
      PROVE  HandStep
  BY <1>3, <1>7 DEF ClientSendBad, server, locals
<1>8. ASSUME NEW c \in Conn, ClientRead(c) \/ ClientClose(c) PROVE HandStep
  BY <1>3, <1>8 DEF ClientRead, ClientClose, server, locals
<1>9. CASE Writer \/ Stop
  BY <1>3, <1>9 DEF Writer, Stop, locals
<1>10. CASE Restart
  BY <1>10 DEF Restart, HandStep
<1>11. CASE UNCHANGED vars
  BY <1>3, <1>11 DEF vars, locals
<1> QED
  BY <1>4, <1>5, <1>6, <1>7, <1>8, <1>9, <1>10, <1>11 DEF Next

\* Every step marks only what some recipient's socket was handed.
LEMMA HandedNext ==
  TypeInv /\ StoreInv /\ ReportsHanded /\ DeliveredWasHanded /\ DrainHanded
    /\ [Next]_vars => DeliveredWasHanded' /\ DrainHanded'
<1> SUFFICES ASSUME TypeInv, StoreInv, ReportsHanded, DeliveredWasHanded,
                    DrainHanded, [Next]_vars
             PROVE  DeliveredWasHanded' /\ DrainHanded'
  OBVIOUS
<1>1. HandStep
  BY NextIsHandStep
<1>2. \A m \in Msg : handed[m] # {} => handed'[m] # {}
  BY NextIsReportStep DEF ReportStep
<1>3. ASSUME NEW m \in Msg, LogicalStatus(m)' = "delivered"
      PROVE  To[m] = Server \/ handed'[m] # {}
  <2>1. CASE LogicalStatus(m) = "delivered"
    BY <1>2, <2>1 DEF DeliveredWasHanded
  <2>2. ASSUME NEW c \in Conn, Mark(c), m = cur[c]
        PROVE  To[m] = Server \/ handed'[m] # {}
    BY <1>2, <2>2 DEF Mark, ReportsHanded, WasHanded
  <2>3. ASSUME NEW c \in Conn, DrainMark(c), m = Min(pend[c])
        PROVE  To[m] = Server \/ handed'[m] # {}
    BY <1>2, <2>3 DEF DrainMark, DrainHanded
  <2> QED
    BY <1>3, <2>1, <2>2, <2>3, DeliveredByMark
<1>4. ASSUME NEW c \in Conn, pc'[c] = "drained" PROVE handed'[Min(pend'[c])] # {}
  <2>1. pc[c] = "drained" => Min(pend[c]) \in Msg
    BY MinInSet DEF TypeInv, TypeOK, Locals
  <2> QED
    BY <1>1, <1>2, <1>4, <2>1 DEF DrainHanded, HandStep
<1> QED
  BY <1>3, <1>4 DEF DeliveredWasHanded, DrainHanded

\* A message that is marked as delivered, in the table or in the queue, was
\* written to a connection of its recipient first: no crash, failed write or
\* second copy marks a message that nobody will send again.
THEOREM MarkedWasHanded == Spec => []DeliveredWasHanded
<1>1. Init => DeliveredWasHanded /\ DrainHanded
  <2> SUFFICES ASSUME Init PROVE DeliveredWasHanded /\ DrainHanded
    OBVIOUS
  <2>1. Len(wq) = 0 /\ messages = [m \in Msg |-> "none"]
    BY DEF Init, DbInit
  <2>2. \A m \in Msg : LogicalStatus(m) = "none"
    BY <2>1 DEF LogicalStatus, Queued
  <2> QED
    BY <2>2 DEF Init, DeliveredWasHanded, DrainHanded
<1>2. TypeInv /\ StoreInv /\ ReportsHanded /\ DeliveredWasHanded /\ DrainHanded
        /\ [Next]_vars => DeliveredWasHanded' /\ DrainHanded'
  BY HandedNext
<1> QED
  BY <1>1, <1>2, StoreInvariant, ReportsInvariant, PTL DEF Spec

-----------------------------------------------------------------------------
(* What the running server has taken on. *)

\* Until a restart a message that was taken on stays taken on, and a delivered
\* one delivered.
LEMMA TakenStays ==
  ASSUME TypeInv, StoreInv, [Next]_vars, restarts' = 0
  PROVE  /\ restarts = 0 /\ ~Restart
         /\ \A m \in Msg : /\ LogicalStatus(m) # "none" => LogicalStatus(m)' # "none"
                           /\ LogicalStatus(m) = "delivered" =>
                                LogicalStatus(m)' = "delivered"
<1>1. restarts \in Nat
  BY DEF TypeInv, TypeOK
<1>2. ~Restart
  BY <1>1 DEF Restart
<1>3. StoreStep
  BY NextIsStoreStep
<1>4. \A m \in Msg : Logical[m] = LogicalStatus(m) /\ Logical'[m] = LogicalStatus(m)'
  BY DEF Logical
<1>5. CASE Stutters \/ Commits
  BY <1>2, <1>4, <1>5 DEF Stutters, Commits
<1>6. ASSUME NEW k \in Msg, Stores(k) \/ Delivers(k)
      PROVE  /\ restarts = 0
             /\ \A m \in Msg : /\ Logical[m] # "none" => Logical'[m] # "none"
                               /\ Logical[m] = "delivered" => Logical'[m] = "delivered"
  <2>1. /\ restarts = 0 /\ Logical[k] # "delivered"
        /\ \/ Logical' = [Logical EXCEPT ![k] = "sent"]
           \/ Logical' = [Logical EXCEPT ![k] = "delivered"]
    BY <1>4, <1>6 DEF Stores, Delivers
  <2> QED
    BY <2>1 DEF Logical
<1> QED
  BY <1>2, <1>3, <1>4, <1>5, <1>6 DEF StoreStep

\* Whose row is there or queued, or is about to be queued by a handler.
InHand(m) ==
  LogicalStatus(m) # "none" \/ \E c \in Conn : pc[c] = "insert" /\ cur[c] = m

\* The steps of a handler that serves a session.
Serving == {"register"} \cup (Registered \ {"cleanup"})

\* The row of a session is there or queued.
SessionKept(c) == sessions[c] = user[c] \/ Queued(insert_session(c, user[c]))

\* Custody, with what keeps it: an id that is only queued to be recorded is in
\* hand too (the writer may record it at any time), sessions are kept from the
\* login on, and a queued session row is of the connection's own user (the
\* writer cannot overwrite a row with another name).
CustodyInv ==
  /\ \A c \in Conn, u \in User : Queued(insert_session(c, u)) => user[c] = u
  /\ restarts = 0 =>
       /\ \A m \in Storable : Acked(m) => LogicalStatus(m) # "none"
       /\ \A m \in Storable : Recorded(m) => InHand(m)
       /\ \A m \in Storable : build_ack(m, "delivered") \in acks =>
            LogicalStatus(m) = "delivered"
       /\ \A c \in Conn : pc[c] = "ack_delivered" /\ cur[c] \in Storable =>
            LogicalStatus(cur[c]) = "delivered"
       /\ \A c \in Conn : pc[c] \in Serving => SessionKept(c)

\* A handler at "insert" goes on by queueing the row, and comes there by
\* recording the id.
InsertStep ==
  \A c \in Conn :
    /\ pc[c] = "insert" =>
         (pc'[c] = "insert" /\ cur'[c] = cur[c]) \/ InsertMessage(c) \/ Restart
    /\ RecordSeen(c) => pc'[c] = "insert" /\ cur'[c] = cur[c]

\* Every step moves an accepted message only as InsertStep says.
LEMMA NextIsInsertStep == TypeInv /\ [Next]_vars => InsertStep
<1> SUFFICES ASSUME TypeInv, [Next]_vars PROVE InsertStep
  OBVIOUS
<1>1. /\ pc \in [Conn -> Steps]
      /\ cur \in [Conn -> Msg \cup {NoMsg}]
  BY DEF TypeInv, TypeOK
<1>2. \A c \in Conn : RecordSeen(c) => pc'[c] = "insert" /\ cur'[c] = cur[c]
  BY <1>1 DEF RecordSeen, Goto, locals
<1>3. ASSUME UNCHANGED <<pc, cur>> PROVE InsertStep
  BY <1>2, <1>3 DEF InsertStep
<1>4. ASSUME NEW c \in Conn, Handler(c) PROVE InsertStep
  <2>1. ASSUME pc[c] # "insert",
               \A d \in Conn : d # c => pc'[d] = pc[d] /\ cur'[d] = cur[d]
        PROVE  InsertStep
    BY <1>2, <2>1 DEF InsertStep
  <2>2. CASE \/ RecvFails(c) \/ RegisterConn(c) \/ ReadPending(c) \/ Drain(c)
             \/ DrainFails(c) \/ DrainMark(c) \/ DrainDone(c) \/ RecvFresh(c)
             \/ RecordSeen(c) \/ RouteOnline(c) \/ RouteRaises(c)
             \/ RouteOffline(c) \/ Forward(c) \/ ForwardFails(c) \/ Mark(c)
             \/ AuthRaises(c) \/ Cleanup(c)
    <3>1. /\ pc[c] # "insert"
          /\ \A d \in Conn : d # c => pc'[d] = pc[d] /\ cur'[d] = cur[d]
      BY <1>1, <2>2
      DEF RecvFails, RegisterConn, ReadPending, Drain, DrainFails, DrainMark,
          DrainDone, RecvFresh, RecordSeen, RouteOnline, RouteRaises,
          RouteOffline, Forward, ForwardFails, Mark, AuthRaises, Cleanup, Goto,
          locals
    <3> QED
      BY <2>1, <3>1
  <2>3. CASE \/ AuthInvalid(c) \/ AuthFailed(c) \/ AuthOk(c) \/ RecvInvalid(c)
             \/ RecvReplay(c) \/ AckSent(c) \/ AckDelivered(c)
    <3>1. pc[c] # "insert" /\ UNCHANGED cur
      BY <2>3
      DEF AuthInvalid, AuthFailed, AuthOk, RecvInvalid, RecvReplay,
          AckSent, AckDelivered, locals
    <3>2. \E s \in Steps : pc' = [pc EXCEPT ![c] = s]
      BY <2>3, ReplyGoes
      DEF AuthInvalid, AuthFailed, AuthOk, RecvInvalid, RecvReplay,
          AckSent, AckDelivered, Steps
    <3> QED
      BY <1>1, <2>1, <3>1, <3>2
  <2>4. CASE InsertMessage(c)
    BY <1>1, <1>2, <2>4 DEF InsertMessage, Goto, locals, InsertStep
  <2> QED
    BY <1>4, <2>2, <2>3, <2>4 DEF Handler
<1>5. ASSUME NEW c \in Conn, NEW u \in User, NEW k \in Kinds, Connect(c, u, k)
      PROVE  InsertStep
  BY <1>1, <1>2, <1>5 DEF Connect, Goto, server, locals, InsertStep
<1>6. ASSUME NEW c \in Conn, NEW m \in Msg, ClientSend(c, m) PROVE InsertStep
  BY <1>3, <1>6 DEF ClientSend, server, locals
<1>7. ASSUME NEW c \in Conn, NEW k \in {"bad_chat", "garbage"}, ClientSendBad(c, k)
      PROVE  InsertStep
  BY <1>3, <1>7 DEF ClientSendBad, server, locals
<1>8. ASSUME NEW c \in Conn, ClientRead(c) \/ ClientClose(c) PROVE InsertStep
  BY <1>3, <1>8 DEF ClientRead, ClientClose, server, locals
<1>9. CASE Writer \/ Stop
  BY <1>3, <1>9 DEF Writer, Stop, locals
<1>10. CASE Restart
  BY <1>2, <1>10 DEF InsertStep
<1>11. CASE UNCHANGED vars
  BY <1>3, <1>11 DEF vars, locals
<1> QED
  BY <1>4, <1>5, <1>6, <1>7, <1>8, <1>9, <1>10, <1>11 DEF Next

\* A message in hand stays in hand until a restart, and a recorded one is the
\* doing of a handler that has it in hand.
LEMMA InHandNext ==
  ASSUME TypeInv, StoreInv, [Next]_vars, restarts' = 0,
         \A m \in Storable : Recorded(m) => InHand(m)
  PROVE  \A m \in Storable : Recorded(m)' => InHand(m)'
<1>1. QueueStep /\ InsertStep /\ ~Restart
  BY NextIsQueueStep, NextIsInsertStep, TakenStays
<1> SUFFICES ASSUME NEW m \in Storable, Recorded(m)' PROVE InHand(m)'
  OBVIOUS
<1>2. m \in Msg /\ record_seen(m) \in Task /\ insert_message(m) \in Task
  BY FrameTypes, MsgAssumption
<1>3. ASSUME InHand(m) PROVE InHand(m)'
  <2>1. CASE LogicalStatus(m) # "none"
    BY <1>2, <2>1, TakenStays DEF InHand
  <2>2. ASSUME NEW c \in Conn, pc[c] = "insert", cur[c] = m PROVE InHand(m)'
    <3>1. CASE pc'[c] = "insert" /\ cur'[c] = cur[c]
      BY <2>2, <3>1 DEF InHand
    <3>2. CASE InsertMessage(c)
      <4>1. Queued(insert_message(m))'
        BY <1>1, <1>2, <2>2, <3>2 DEF QueueStep, Puts
      <4>2. LogicalStatus(m)' # "none"
        BY <4>1 DEF LogicalStatus
      <4> QED
        BY <4>2 DEF InHand
    <3> QED
      BY <1>1, <2>2, <3>1, <3>2 DEF InsertStep
  <2> QED
    BY <1>3, <2>1, <2>2 DEF InHand
<1>4. CASE Recorded(m)
  BY <1>3, <1>4
<1>5. CASE ~Recorded(m)
  <2>1. ASSUME NEW c \in Conn, Puts(c, record_seen(m)) PROVE InHand(m)'
    <3>1. RecordSeen(c) /\ cur[c] = m
      BY <2>1
      DEF Puts, update_delivered, insert_session, record_seen, insert_message
    <3> QED
      BY <1>1, <3>1 DEF InsertStep, InHand
  <2>2. record_seen(m) # Shutdown
    BY DEF record_seen, Shutdown
  <2>3. CASE Queued(record_seen(m))'
    BY <1>1, <1>2, <1>5, <2>1, <2>2, <2>3 DEF QueueStep, Recorded
  <2>4. CASE m \in seen'
    <3>1. CASE UNCHANGED tables
      BY <1>5, <2>4, <3>1 DEF tables, Recorded
    <3>2. CASE WriterStep
      <4>1. Head(wq) = record_seen(m)
        BY <1>2, <1>5, <2>4, <3>2, WriterEffect
        DEF TypeInv, TypeOK, StoreInv, Recorded
      <4>2. Queued(Head(wq))
        BY <3>2, TailElements DEF WriterStep, TypeInv, TypeOK, DbTypeOK, Queued
      <4> QED
        BY <1>5, <4>1, <4>2 DEF Recorded
    <3> QED
      BY <1>1, <3>1, <3>2 DEF QueueStep
  <2>5. m \in seen' \/ Queued(record_seen(m))'
    BY DEF Recorded, record_seen
  <2> QED
    BY <2>3, <2>4, <2>5
<1> QED
  BY <1>4, <1>5

\* What a turn of the writer does to the sessions.
LEMMA SessionsAfterWriter ==
  ASSUME DbTypeOK, WriterStep, NEW c \in Conn
  PROVE  /\ sessions'[c] = sessions[c]
              \/ \E u \in User : Head(wq) = insert_session(c, u) /\ sessions'[c] = u
         /\ \A u \in User : Head(wq) = insert_session(c, u) => sessions'[c] = u
<1>1. Head(wq) \in Task
  BY TailElements DEF DbTypeOK, WriterStep
<1>2. sessions' = IF Head(wq).op = "insert_session"
                  THEN [sessions EXCEPT ![Head(wq).id] = Head(wq).user]
                  ELSE sessions
  BY DEF WriterStep, Execute
<1>3. Head(wq).op = "insert_session" =>
        /\ Head(wq).id \in Conn /\ Head(wq).user \in User
        /\ Head(wq) = insert_session(Head(wq).id, Head(wq).user)
  BY <1>1 DEF Task, MsgOp, Shutdown, insert_session
<1>4. \A u \in User : /\ insert_session(c, u).op = "insert_session"
                      /\ insert_session(c, u).id = c
                      /\ insert_session(c, u).user = u
  BY DEF insert_session
<1>5. sessions \in [Conn -> User \cup {NoUser}]
  BY DEF DbTypeOK
<1>6. CASE Head(wq).op = "insert_session" /\ Head(wq).id = c
  BY <1>2, <1>3, <1>4, <1>5, <1>6
<1>7. CASE ~ (Head(wq).op = "insert_session" /\ Head(wq).id = c)
  BY <1>2, <1>3, <1>4, <1>5, <1>7
<1> QED
  BY <1>6, <1>7

\* The session rows: nobody else's name comes between the login and its row.
LEMMA SessionsNext ==
  ASSUME TypeInv, RoutingInv, [Next]_vars,
         \A c \in Conn, u \in User : Queued(insert_session(c, u)) => user[c] = u
  PROVE  /\ \A c \in Conn, u \in User : Queued(insert_session(c, u))' => user'[c] = u
         /\ ~Restart /\ (\A c \in Conn : pc[c] \in Serving => SessionKept(c)) =>
              \A c \in Conn : pc'[c] \in Serving => SessionKept(c)'
<1>1. QueueStep /\ RoutingStep
  BY NextIsQueueStep, NextIsRoutingStep
<1>2. \A c \in Conn : user[c] \in User => user'[c] = user[c]
  BY <1>1, NamesKept DEF RoutingInv
<1>3. \A c \in Conn, u \in User : insert_session(c, u) \in Task
  BY FrameTypes
<1>4. ASSUME NEW c \in Conn, AuthOk(c)
      PROVE  \E u \in User : /\ u = Head(inbox[c]).user
                             /\ user'[c] = u
                             /\ Queued(insert_session(c, u))'
  <2>1. Head(inbox[c]) \in InFrame /\ Head(inbox[c]).type \in {"auth"}
    BY <1>4, ReceiveType DEF AuthOk, TypeInv
  <2>2. PICK u \in User : u = Head(inbox[c]).user
    BY <2>1 DEF InFrame
  <2>3. Queued(insert_session(c, u))'
    BY <1>1, <1>3, <1>4, <2>2 DEF QueueStep, Puts
  <2>4. user'[c] = u
    BY <1>4, <2>2 DEF AuthOk, TypeInv, TypeOK
  <2> QED
    BY <2>2, <2>3, <2>4
<1>5. ASSUME NEW c \in Conn, NEW u \in User, Queued(insert_session(c, u))'
      PROVE  user'[c] = u
  <2>1. CASE Queued(insert_session(c, u))
    BY <1>2, <2>1
  <2>2. ASSUME NEW d \in Conn, Puts(d, insert_session(c, u)) PROVE user'[c] = u
    <3>1. AuthOk(d) /\ d = c /\ u = Head(inbox[c]).user
      BY <2>2
      DEF Puts, update_delivered, insert_session, record_seen, insert_message
    <3> QED
      BY <1>4, <3>1
  <2>3. insert_session(c, u) # Shutdown
    BY DEF insert_session, Shutdown
  <2> QED
    BY <1>1, <1>3, <1>5, <2>1, <2>2, <2>3 DEF QueueStep
<1>6. ASSUME ~Restart, NEW c \in Conn, pc[c] \in Serving, SessionKept(c)
      PROVE  SessionKept(c)'
  <2>1. PICK u \in User : u = user[c]
    BY <1>6 DEF TypeInv, Locals, Serving
  <2>2. user'[c] = u
    BY <1>2, <2>1
  <2>3. DbTypeOK
    BY DEF TypeInv, TypeOK
  <2>4. sessions'[c] = u \/ Queued(insert_session(c, u))'
    <3>1. CASE Queued(insert_session(c, u))
      BY <1>1, <1>3, <1>6, <2>3, <3>1, SessionsAfterWriter DEF QueueStep
    <3>2. CASE sessions[c] = u
      <4>1. CASE UNCHANGED tables
        BY <3>2, <4>1 DEF tables
      <4>2. CASE WriterStep
        <5>1. Queued(Head(wq))
          BY <2>3, <4>2, TailElements DEF WriterStep, DbTypeOK, Queued
        <5> QED
          BY <2>1, <2>3, <3>2, <4>2, <5>1, SessionsAfterWriter
      <4> QED
        BY <1>1, <4>1, <4>2 DEF QueueStep
    <3> QED
      BY <1>6, <2>1, <3>1, <3>2 DEF SessionKept
  <2> QED
    BY <2>2, <2>4 DEF SessionKept
<1>7. ASSUME ~Restart, NEW c \in Conn, pc[c] \notin Serving, pc'[c] \in Serving
      PROVE  SessionKept(c)'
  <2>1. pc \in [Conn -> Steps]
    BY DEF TypeInv, TypeOK
  <2>2. AuthOk(c)
    <3>1. ~MovesOn
      BY <1>7 DEF MovesOn, Serving, Registered
    <3>2. ASSUME NEW d \in Conn, RegisterConn(d) \/ Cleanup(d) PROVE FALSE
      BY <1>7, <2>1, <3>2 DEF RegisterConn, Cleanup, Goto, Serving, Registered
    <3>3. ASSUME NEW d \in Conn, LogsIn(d) PROVE AuthOk(c)
      BY <1>7, <2>1, <3>3 DEF LogsIn, Serving, Registered
    <3> QED
      BY <1>1, <1>7, <3>1, <3>2, <3>3 DEF RoutingStep
  <2> QED
    BY <1>4, <2>2 DEF SessionKept
<1> QED
  BY <1>5, <1>6, <1>7

\* Every step leaves an acknowledged message in somebody's custody.
LEMMA CustodyInvNext ==
  TypeInv /\ StoreInv /\ RoutingInv /\ CustodyInv /\ [Next]_vars => CustodyInv'
<1> SUFFICES ASSUME TypeInv, StoreInv, RoutingInv, CustodyInv, [Next]_vars
             PROVE  CustodyInv'
  OBVIOUS
<1>1. \A c \in Conn, u \in User : Queued(insert_session(c, u))' => user'[c] = u
  BY SessionsNext DEF CustodyInv
<1>2. CASE restarts' # 0
  BY <1>1, <1>2 DEF CustodyInv
<1>3. CASE restarts' = 0
  <2>1. /\ restarts = 0 /\ ~Restart
        /\ \A m \in Msg : /\ LogicalStatus(m) # "none" => LogicalStatus(m)' # "none"
                          /\ LogicalStatus(m) = "delivered" =>
                               LogicalStatus(m)' = "delivered"
    BY <1>3, TakenStays
  <2>2. ReportStep /\ QueueStep
    BY NextIsReportStep, NextIsQueueStep
  <2>0. Storable \subseteq Msg
    BY MsgAssumption
  <2>3. ASSUME NEW m \in Storable, build_ack(m, "delivered") \in acks'
        PROVE  LogicalStatus(m)' = "delivered"
    <3>1. CASE build_ack(m, "delivered") \in acks
      BY <2>0, <2>1, <3>1 DEF CustodyInv
    <3>2. ASSUME NEW c \in Conn, pc[c] = "ack_delivered", cur[c] = m
          PROVE  LogicalStatus(m)' = "delivered"
      BY <2>0, <2>1, <3>2 DEF CustodyInv
    <3> QED
      BY <2>0, <2>2, <2>3, <3>1, <3>2 DEF ReportStep
  <2>4. ASSUME NEW m \in Storable, build_ack(m, "sent") \in acks'
        PROVE  LogicalStatus(m)' # "none"
    <3>1. CASE build_ack(m, "sent") \in acks
      BY <2>0, <2>1, <3>1 DEF CustodyInv, Acked
    <3>2. ASSUME NEW c \in Conn, pc[c] = "ack_sent", cur[c] = m
          PROVE  LogicalStatus(m)' # "none"
      <4>1. Inserted(m)
        BY <3>2 DEF StoreInv, HandlerOrder
      <4>2. LogicalStatus(m) \in {"sent", "delivered"}
        BY <4>1, InsertedIsTaken DEF TypeInv, TypeOK
      <4> QED
        BY <2>0, <2>1, <4>2
    <3> QED
      BY <2>0, <2>2, <2>4, <3>1, <3>2 DEF ReportStep
  <2>5. \A m \in Storable : Acked(m)' => LogicalStatus(m)' # "none"
    BY <2>3, <2>4 DEF Acked, build_ack
  <2>6. \A m \in Storable : Recorded(m)' => InHand(m)'
    BY <1>3, <2>1, InHandNext DEF CustodyInv
  <2>7. \A c \in Conn : pc'[c] \in Serving => SessionKept(c)'
    BY <2>1, SessionsNext DEF CustodyInv
  <2>8. ASSUME NEW c \in Conn, pc'[c] = "ack_delivered", cur'[c] \in Storable
        PROVE  LogicalStatus(cur[c])' = "delivered"
    <3>1. PICK m \in Storable : m = cur'[c]
      BY <2>8
    <3>2. LogicalStatus(m)' = "delivered"
      <4>1. CASE pc[c] = "ack_delivered" /\ cur[c] = m
        <5>1. m \in Msg /\ LogicalStatus(m) = "delivered"
          BY <2>0, <2>1, <4>1 DEF CustodyInv
        <5> QED
          BY <2>1, <5>1
      <4>2. CASE Mark(c) /\ cur[c] = m
        <5>1. Queued(update_delivered(m))'
          <6>1. update_delivered(m) \in Task /\ Puts(c, update_delivered(m))
            BY <2>0, <4>2, FrameTypes DEF Puts
          <6> QED
            BY <2>2, <6>1 DEF QueueStep
        <5> QED
          BY <5>1 DEF LogicalStatus
      <4> QED
        BY <2>8, <3>1, <4>1, <4>2, <2>2 DEF ReportStep
    <3> QED
      BY <3>1, <3>2 DEF LogicalStatus, Queued, update_delivered, insert_message
  <2> QED
    BY <1>1, <2>3, <2>5, <2>6, <2>7, <2>8 DEF CustodyInv
<1> QED
  BY <1>2, <1>3

\* Until the process ends the server keeps what it said it has: acknowledged
\* and recorded messages are stored, queued or in a handler's hand, what was
\* reported as delivered is marked so, and every served session has its row.
THEOREM CustodyKept == Spec => []Custody
<1>1. Init => CustodyInv
  <2> SUFFICES ASSUME Init PROVE CustodyInv
    OBVIOUS
  <2>1. /\ Len(wq) = 0 /\ seen = {} /\ acks = {}
        /\ \A c \in Conn : pc[c] = "idle"
    BY DEF Init, DbInit
  <2> QED
    BY <2>1 DEF CustodyInv, Queued, Acked, Recorded, Serving, Registered
<1>2. TypeInv /\ StoreInv /\ RoutingInv /\ CustodyInv /\ [Next]_vars => CustodyInv'
  BY CustodyInvNext
<1>3. TypeInv /\ CustodyInv => Custody
  <2> SUFFICES ASSUME TypeInv, CustodyInv PROVE Custody
    OBVIOUS
  <2>1. seen \subseteq Msg
    BY DEF TypeInv, TypeOK, DbTypeOK
  <2>2. ASSUME restarts = 0, NEW m \in seen \cap Storable
        PROVE  \/ LogicalStatus(m) # "none"
               \/ \E c \in Conn : pc[c] = "insert" /\ cur[c] = m
    BY <2>1, <2>2 DEF CustodyInv, Recorded, InHand
  <2>3. ASSUME restarts = 0, NEW c \in Conn, pc[c] \in Registered
        PROVE  \/ sessions[c] = user[c] \/ Queued(insert_session(c, user[c]))
               \/ pc[c] = "cleanup"
    BY <2>3 DEF CustodyInv, Serving, SessionKept
  <2> QED
    BY <2>2, <2>3 DEF CustodyInv, Custody
<1> QED
  BY <1>1, <1>2, <1>3, StoreInvariant, RoutingInvariant, PTL DEF Spec
=============================================================================
