----------------------------- MODULE ChatServer -----------------------------
(***************************************************************************)
(* backend/server.py: handle_client, one thread per connection, over the   *)
(* shared routing table (Router) and the database with its single writer   *)
(* thread (Db).                                                            *)
(*                                                                         *)
(* A handler is a sequence of steps.  A step ends where another thread can *)
(* see or change what the handler works with: after a read of the          *)
(* database, a put on the write queue, an access to the routing table, and *)
(* a frame written to somebody's connection.                               *)
(*                                                                         *)
(* Both front ends run this code.  TCP = TRUE is server.py's own loop over *)
(* sockets, where a write can raise, and waits while the buffers between   *)
(* server and client are full; TCP = FALSE is server_async.py, where the   *)
(* connection is a WebSocketAdapter whose sendall only puts bytes on a     *)
(* queue, and neither raises nor waits.                                    *)
(***************************************************************************)
EXTENDS Db, Router, FiniteSetsExt

CONSTANTS
  TCP,          \* the transport: sockets, or the WebSocket adapter
  Buffer,       \* how many frames the buffers of a socket hold
  Faulty,       \* clients also send what the server refuses
  MaxSends,     \* bound: how many frames clients send beyond good logins
  MaxRestarts   \* bound: how often the server process ends and starts again

VARIABLES
  pc,       \* the next step of each connection's handler thread
  user,     \* its local `username`
  cur,      \* its local `payload`, by message id
  rec,      \* its local `rec_conn`
  pend,     \* what is left of its local `pending`
  inbox,    \* frames on their way to the handler
  outbox,   \* frames on their way to the client
  cl,       \* the client's end: "none", "login", "open" or "gone"
  sends,    \* how many frames clients have sent, not counting good logins
  accepted, \* history: how often each message passed the replay check
  handed,   \* history: the connections each message was written to
  got,      \* history: the messages each client has read
  acks,     \* history: the acknowledgements of messages written to clients
  restarts  \* how often the process was restarted

locals == <<user, cur, rec, pend>>
client == <<cl, sends, got>>
history == <<accepted, handed, acks>>
vars == <<dbvars, router, pc, locals, inbox, outbox, client, history, restarts>>

Steps == {"idle", "auth", "register", "pending", "drain", "drained", "loop",
          "record", "insert", "route", "forward", "mark", "ack_sent",
          "ack_delivered", "cleanup", "closed"}

\* The steps at which the handler may own an entry of the routing table.
Registered == {"pending", "drain", "drained", "loop", "record", "insert",
               "route", "forward", "mark", "ack_sent", "ack_delivered",
               "cleanup"}

\* The steps at which `payload` is a message that passed the replay check.
Working == {"record", "insert", "route", "forward", "mark", "ack_sent",
            "ack_delivered"}

ASSUME ChatServerAssumption ==
  /\ TCP \in BOOLEAN
  /\ Faulty \in BOOLEAN
  /\ Buffer \in Nat \ {0}
  /\ MaxSends \in Nat
  /\ MaxRestarts \in Nat

\* The types of the state.
TypeOK ==
  /\ DbTypeOK
  /\ RouterTypeOK
  /\ pc \in [Conn -> Steps]
  /\ user \in [Conn -> User \cup {NoUser}]
  /\ cur \in [Conn -> Msg \cup {NoMsg}]
  /\ rec \in [Conn -> Conn \cup {NoConn}]
  /\ pend \in [Conn -> SUBSET Msg]
  /\ inbox \in [Conn -> Seq(InFrame)]
  /\ outbox \in [Conn -> Seq(OutFrame)]
  /\ cl \in [Conn -> {"none", "login", "open", "gone"}]
  /\ sends \in Nat
  /\ accepted \in [Msg -> Nat]
  /\ handed \in [Msg -> SUBSET Conn]
  /\ got \in [Conn -> SUBSET Msg]
  /\ acks \in SUBSET OutFrame
  /\ restarts \in Nat

Init ==
  /\ DbInit
  /\ RouterInit
  /\ pc = [c \in Conn |-> "idle"]
  /\ user = [c \in Conn |-> NoUser]
  /\ cur = [c \in Conn |-> NoMsg]
  /\ rec = [c \in Conn |-> NoConn]
  /\ pend = [c \in Conn |-> {}]
  /\ inbox = [c \in Conn |-> << >>]
  /\ outbox = [c \in Conn |-> << >>]
  /\ cl = [c \in Conn |-> "none"]
  /\ sends = 0
  /\ accepted = [m \in Msg |-> 0]
  /\ handed = [m \in Msg |-> {}]
  /\ got = [c \in Conn |-> {}]
  /\ acks = {}
  /\ restarts = 0

-----------------------------------------------------------------------------
(* Writing to a connection. *)

\* send_msg returns.  A write to a socket this process has closed raises, and
\* one to a client that does not read waits for room in the buffers, in the
\* handler of whoever writes; the adapter's sendall is a put on a queue and
\* always returns.
SendReturns(c) ==
  TCP => pc[c] # "closed" /\ (cl[c] = "gone" \/ Len(outbox[c]) < Buffer)

\* send_msg raises.  A socket whose peer has left may raise or may not (the
\* kernel can still buffer the bytes).
SendRaises(c) == TCP /\ (cl[c] = "gone" \/ pc[c] = "closed")

\* The frame is on its way, or goes nowhere when the client has left or the
\* handler of that connection has already closed it.
Post(c, frame) ==
  outbox' = IF cl[c] = "gone" \/ pc[c] = "closed" THEN outbox
            ELSE [outbox EXCEPT ![c] = Append(@, frame)]

Goto(c, step) == pc' = [pc EXCEPT ![c] = step]

\* The handler answers its own client, then goes on at `step`.
Answer(c, frame, step) ==
  /\ SendReturns(c)
  /\ Post(c, frame)
  /\ acks' = IF frame.id = NoMsg THEN acks ELSE acks \cup {frame}
  /\ Goto(c, step)

\* The answer raises: the outer except clause prints and falls to finally.
AnswerRaises(c) ==
  /\ SendRaises(c)
  /\ Goto(c, "cleanup")
  /\ UNCHANGED <<outbox, acks>>

Reply(c, frame, step) == Answer(c, frame, step) \/ AnswerRaises(c)

Receive(c, types) ==
  /\ inbox[c] # << >>
  /\ Head(inbox[c]).type \in types
  /\ inbox' = [inbox EXCEPT ![c] = Tail(@)]

-----------------------------------------------------------------------------
(* handle_client, up to the message loop. *)

\* Mutant: `except ConnectionError: continue`.
RecvFailsContinue(c) ==
  /\ pc[c] \in {"auth", "loop"}
  /\ Receive(c, {"eof", "garbage"})
  /\ Goto(c, IF pc[c] = "auth" THEN "cleanup" ELSE "loop")
  /\ UNCHANGED <<dbvars, router, locals, outbox, client, history, restarts>>

\* recv_msg raises, or decryption or decoding does: the handler ends.  Before
\* the login `username` is unset, and finally will not touch the router.
RecvFails(c) ==
  /\ pc[c] \in {"auth", "loop"}
  /\ Receive(c, {"eof", "garbage"})
  /\ Goto(c, "cleanup")
  /\ UNCHANGED <<dbvars, router, locals, outbox, client, history, restarts>>

\* The first payload is not an AUTH message, or violates the schema.
AuthInvalid(c) ==
  /\ pc[c] = "auth"
  /\ Receive(c, {"chat", "bad_chat"})
  /\ Reply(c, build_error, "cleanup")
  /\ UNCHANGED <<dbvars, router, locals, client, accepted, handed, restarts>>

\* login refuses: `username` is set by now, so finally will unregister it.
AuthFailed(c) ==
  /\ pc[c] = "auth"
  /\ Receive(c, {"bad_auth"})
  /\ user' = [user EXCEPT ![c] = Head(inbox[c]).user]
  /\ Reply(c, build_error, "cleanup")
  /\ UNCHANGED <<dbvars, router, cur, rec, pend, client, accepted, handed,
                 restarts>>

\* ... or raises, on a password that is not text, which validate lets through.
AuthRaises(c) ==
  /\ pc[c] = "auth"
  /\ Receive(c, {"bad_auth"})
  /\ user' = [user EXCEPT ![c] = Head(inbox[c]).user]
  /\ Goto(c, "cleanup")
  /\ UNCHANGED <<dbvars, router, cur, rec, pend, outbox, client, history,
                 restarts>>

\* Mutant: the token is sent but its row never queued.
AuthOkUnsaved(c) ==
  /\ pc[c] = "auth"
  /\ Receive(c, {"auth"})
  /\ user' = [user EXCEPT ![c] = Head(inbox[c]).user]
  /\ Reply(c, build_ack(NoMsg, "authenticated"), "register")
  /\ UNCHANGED <<dbvars, router, cur, rec, pend, client, accepted, handed,
                 restarts>>

\* login queues the session row and the token goes out in an ACK.
AuthOk(c) ==
  /\ pc[c] = "auth"
  /\ Receive(c, {"auth"})
  /\ user' = [user EXCEPT ![c] = Head(inbox[c]).user]
  /\ Enqueue(insert_session(c, Head(inbox[c]).user))
  /\ Reply(c, build_ack(NoMsg, "authenticated"), "register")
  /\ UNCHANGED <<tables, writer, router, cur, rec, pend, client, accepted,
                 handed, restarts>>

RegisterConn(c) ==
  /\ pc[c] = "register"
  /\ register(user[c], c)
  /\ Goto(c, "pending")
  /\ UNCHANGED <<dbvars, locals, inbox, outbox, client, history, restarts>>

ReadPending(c) ==
  /\ pc[c] = "pending"
  /\ pend' = [pend EXCEPT ![c] = get_pending_messages(user[c])]
  /\ Goto(c, "drain")
  /\ UNCHANGED <<dbvars, router, user, cur, rec, inbox, outbox, client,
                 history, restarts>>

\* One pending message, the oldest (ORDER BY created_at), is written to the
\* connection.
Drain(c) ==
  /\ pc[c] = "drain"
  /\ pend[c] # {}
  /\ SendReturns(c)
  /\ Post(c, build_chat(Min(pend[c])))
  /\ handed' = [handed EXCEPT ![Min(pend[c])] = @ \cup {c}]
  /\ Goto(c, "drained")
  /\ UNCHANGED <<dbvars, router, locals, inbox, client, accepted, acks,
                  restarts>>

\* If that raises the loop is left; the rest stays for the next login.
DrainFails(c) ==
  /\ pc[c] = "drain"
  /\ pend[c] # {}
  /\ SendRaises(c)
  /\ pend' = [pend EXCEPT ![c] = {}]
  /\ Goto(c, "loop")
  /\ UNCHANGED <<dbvars, router, user, cur, rec, inbox, outbox, client,
                  history,
                 restarts>>

\* Mutant: the status of a drained message is not updated.
DrainMarkDropped(c) ==
  /\ pc[c] = "drained"
  /\ pend' = [pend EXCEPT ![c] = @ \ {Min(pend[c])}]
  /\ Goto(c, "drain")
  /\ UNCHANGED <<dbvars, router, user, cur, rec, inbox, outbox, client,
                  history,
                 restarts>>

\* ... and its status is queued for update.
DrainMark(c) ==
  /\ pc[c] = "drained"
  /\ Enqueue(update_delivered(Min(pend[c])))
  /\ pend' = [pend EXCEPT ![c] = @ \ {Min(pend[c])}]
  /\ Goto(c, "drain")
  /\ UNCHANGED <<tables, writer, router, user, cur, rec, inbox, outbox, client,
                 history, restarts>>

DrainDone(c) ==
  /\ pc[c] = "drain"
  /\ pend[c] = {}
  /\ Goto(c, "loop")
  /\ UNCHANGED <<dbvars, router, locals, inbox, outbox, client, history,
                 restarts>>

-----------------------------------------------------------------------------
(* The message loop. *)

\* Schema error, timestamp outside the window, or not a CHAT message.
RecvInvalid(c) ==
  /\ pc[c] = "loop"
  /\ Receive(c, {"bad_chat", "auth", "bad_auth"})
  /\ Reply(c, build_error, "loop")
  /\ UNCHANGED <<dbvars, router, locals, client, accepted, handed, restarts>>

RecvReplay(c) ==
  /\ pc[c] = "loop"
  /\ Receive(c, {"chat"})
  /\ is_replay(Head(inbox[c]).id)
  /\ Reply(c, build_error, "loop")
  /\ UNCHANGED <<dbvars, router, locals, client, accepted, handed, restarts>>

\* is_replay answered False.
RecvFresh(c) ==
  /\ pc[c] = "loop"
  /\ Receive(c, {"chat"})
  /\ ~is_replay(Head(inbox[c]).id)
  /\ cur' = [cur EXCEPT ![c] = Head(inbox[c]).id]
  /\ accepted' = [accepted EXCEPT ![Head(inbox[c]).id] = @ + 1]
  /\ Goto(c, "record")
  /\ UNCHANGED <<dbvars, router, user, rec, pend, outbox, client, handed, acks,
                 restarts>>

\* Mutant: record_seen is not called.
RecordSeenDropped(c) ==
  /\ pc[c] = "record"
  /\ Goto(c, "insert")
  /\ UNCHANGED <<dbvars, router, locals, inbox, outbox, client, history,
                  restarts>>

RecordSeen(c) ==
  /\ pc[c] = "record"
  /\ Enqueue(record_seen(cur[c]))
  /\ Goto(c, "insert")
  /\ UNCHANGED <<tables, writer, router, locals, inbox, outbox, client,
                  history,
                 restarts>>

\* A message to the server itself is delivered by being stored.
InsertMessage(c) ==
  /\ pc[c] = "insert"
  /\ Enqueue(insert_message(cur[c]))
  /\ Goto(c, IF To[cur[c]] = Server THEN "mark" ELSE "route")
  /\ UNCHANGED <<tables, writer, router, locals, inbox, outbox, client,
                  history,
                 restarts>>

RouteOnline(c) ==
  /\ pc[c] = "route"
  /\ get_connection(To[cur[c]]) # NoConn
  /\ rec' = [rec EXCEPT ![c] = get_connection(To[cur[c]])]
  /\ Goto(c, "forward")
  /\ UNCHANGED <<dbvars, router, user, cur, pend, inbox, outbox, client,
                  history,
                 restarts>>

\* Mutant: the handler waits for the recipient to come online.
RouteWaits(c) ==
  /\ pc[c] = "route"
  /\ FALSE
  /\ UNCHANGED vars

\* get_connection raises, because dict.get cannot hash an object: the outer
\* except clause, and the sender gets no answer.
RouteRaises(c) ==
  /\ pc[c] = "route"
  /\ To[cur[c]] = Object
  /\ Goto(c, "cleanup")
  /\ UNCHANGED <<dbvars, router, locals, inbox, outbox, client, history,
                 restarts>>

\* Mutant: the wrong status in the answer.
RouteOfflineDelivered(c) ==
  /\ pc[c] = "route"
  /\ To[cur[c]] # Object
  /\ get_connection(To[cur[c]]) = NoConn
  /\ Goto(c, "ack_delivered")
  /\ UNCHANGED <<dbvars, router, locals, inbox, outbox, client, history,
                 restarts>>

\* Nobody to forward to: the message waits in the table as "sent".
RouteOffline(c) ==
  /\ pc[c] = "route"
  /\ To[cur[c]] # Object
  /\ get_connection(To[cur[c]]) = NoConn
  /\ Goto(c, "ack_sent")
  /\ UNCHANGED <<dbvars, router, locals, inbox, outbox, client, history,
                 restarts>>

\* Mutant: conn in place of rec_conn.
ForwardToSender(c) ==
  /\ pc[c] = "forward"
  /\ SendReturns(c)
  /\ Post(c, build_chat(cur[c]))
  /\ handed' = [handed EXCEPT ![cur[c]] = @ \cup {c}]
  /\ Goto(c, "mark")
  /\ UNCHANGED <<dbvars, router, locals, inbox, client, accepted, acks,
                 restarts>>

\* Write the payload to the connection looked up before, whatever has become
\* of it since.
Forward(c) ==
  /\ pc[c] = "forward"
  /\ SendReturns(rec[c])
  /\ Post(rec[c], build_chat(cur[c]))
  /\ handed' = [handed EXCEPT ![cur[c]] = @ \cup {rec[c]}]
  /\ Goto(c, "mark")
  /\ UNCHANGED <<dbvars, router, locals, inbox, client, accepted, acks,
                 restarts>>

\* Mutant: the failed write is swallowed by send_msg.
ForwardFailsSilently(c) ==
  /\ pc[c] = "forward"
  /\ SendRaises(rec[c])
  /\ Goto(c, "mark")
  /\ UNCHANGED <<dbvars, router, locals, inbox, outbox, client, history,
                 restarts>>

\* The inner except clause: the sender will be told "sent".
ForwardFails(c) ==
  /\ pc[c] = "forward"
  /\ SendRaises(rec[c])
  /\ Goto(c, "ack_sent")
  /\ UNCHANGED <<dbvars, router, locals, inbox, outbox, client, history,
                 restarts>>

\* Queue the status update; the sender will be told "delivered".
Mark(c) ==
  /\ pc[c] = "mark"
  /\ Enqueue(update_delivered(cur[c]))
  /\ Goto(c, "ack_delivered")
  /\ UNCHANGED <<tables, writer, router, locals, inbox, outbox, client,
                 history, restarts>>

AckSent(c) ==
  /\ pc[c] = "ack_sent"
  /\ Reply(c, build_ack(cur[c], "sent"), "loop")
  /\ UNCHANGED <<dbvars, router, locals, inbox, client, accepted, handed,
                 restarts>>

\* If this answer raises, so does the inner except clause's own answer, on the
\* same socket.
AckDelivered(c) ==
  /\ pc[c] = "ack_delivered"
  /\ Reply(c, build_ack(cur[c], "delivered"), "loop")
  /\ UNCHANGED <<dbvars, router, locals, inbox, client, accepted, handed,
                 restarts>>

\* finally: unregister the username if it is known, close the connection.
Cleanup(c) ==
  /\ pc[c] = "cleanup"
  /\ IF user[c] = NoUser THEN UNCHANGED router ELSE unregister(user[c])
  /\ Goto(c, "closed")
  /\ cur' = [cur EXCEPT ![c] = NoMsg]
  /\ rec' = [rec EXCEPT ![c] = NoConn]
  /\ pend' = [pend EXCEPT ![c] = {}]
  /\ inbox' = [inbox EXCEPT ![c] = << >>]
  /\ UNCHANGED <<dbvars, user, outbox, client, history, restarts>>

Handler(c) ==
  \/ RecvFails(c) \/ AuthInvalid(c) \/ AuthFailed(c) \/ AuthRaises(c) \/ AuthOk(c)
  \/ RegisterConn(c) \/ ReadPending(c)
  \/ Drain(c) \/ DrainFails(c) \/ DrainMark(c) \/ DrainDone(c)
  \/ RecvInvalid(c) \/ RecvReplay(c) \/ RecvFresh(c)
  \/ RecordSeen(c) \/ InsertMessage(c)
  \/ RouteOnline(c) \/ RouteRaises(c) \/ RouteOffline(c)
  \/ Forward(c) \/ ForwardFails(c) \/ Mark(c)
  \/ AckSent(c) \/ AckDelivered(c) \/ Cleanup(c)

-----------------------------------------------------------------------------
(* The clients. *)

server == <<dbvars, router, locals, history, restarts>>

\* Bound: one frame more.
SendMore == sends < MaxSends /\ sends' = sends + 1

\* A client connects, runs the handshake and sends its first payload.
Connect(c, u, kind) ==
  /\ pc[c] = "idle"
  /\ Goto(c, "auth")
  /\ cl' = [cl EXCEPT ![c] = "login"]
  /\ inbox' = [inbox EXCEPT ![c] =
                 Append(@, [type |-> kind, user |-> u, id |-> NoMsg])]
  /\ IF kind = "auth" THEN UNCHANGED sends ELSE SendMore
  /\ UNCHANGED <<server, outbox, got>>

\* The client sends a message of its user, perhaps one that it or another
\* session of the same user has sent before.
ClientSend(c, m) ==
  /\ cl[c] = "open"
  /\ From[m] = user[c]
  /\ SendMore
  /\ inbox' = IF pc[c] = "closed" THEN inbox
              ELSE [inbox EXCEPT ![c] =
                      Append(@, [type |-> "chat", user |-> NoUser, id |-> m])]
  /\ UNCHANGED <<server, pc, outbox, cl, got>>

\* ... or something the server refuses.
ClientSendBad(c, kind) ==
  /\ cl[c] = "open"
  /\ pc[c] # "closed"
  /\ SendMore
  /\ inbox' = [inbox EXCEPT ![c] =
                 Append(@, [type |-> kind, user |-> NoUser, id |-> NoMsg])]
  /\ UNCHANGED <<server, pc, outbox, cl, got>>

\* A refused login ends the client; anything else keeps it going.
ClientRead(c) ==
  /\ cl[c] \in {"login", "open"}
  /\ outbox[c] # << >>
  /\ LET frame == Head(outbox[c])
         refused == cl[c] = "login" /\ frame.type = "error"
     IN
     /\ cl' = [cl EXCEPT ![c] = IF refused THEN "gone" ELSE "open"]
     /\ outbox' = [outbox EXCEPT ![c] = IF refused THEN << >> ELSE Tail(@)]
     /\ inbox' = [inbox EXCEPT ![c] = IF refused /\ pc[c] # "closed"
                                      THEN Append(@, EOF) ELSE @]
     /\ got' = IF frame.type = "chat" THEN [got EXCEPT ![c] = @ \cup {frame.id}]
                                      ELSE got
  /\ UNCHANGED <<server, pc, sends>>

\* The client leaves, by choice or because its machine or network does.  What
\* it had not read is lost with it.  The handler does not always hear of it: a
\* network that fails ends no stream, and the adapter's recv swallows an end
\* of stream that follows part of a frame.
ClientClose(c) ==
  /\ cl[c] \in {"login", "open"}
  /\ cl' = [cl EXCEPT ![c] = "gone"]
  /\ outbox' = [outbox EXCEPT ![c] = << >>]
  /\ \/ /\ pc[c] # "closed"
        /\ inbox' = [inbox EXCEPT ![c] = Append(@, EOF)]
     \/ UNCHANGED inbox
  /\ UNCHANGED <<server, pc, sends, got>>

-----------------------------------------------------------------------------
(* The process. *)

Writer ==
  /\ WriterStep
  /\ UNCHANGED <<router, pc, locals, inbox, outbox, client, history, restarts>>

\* Shutdown begins: db.stop() while the daemon threads of the handlers run on.
Stop ==
  /\ restarts < MaxRestarts
  /\ writer = "running"
  /\ ~Queued(Shutdown)
  /\ stop
  /\ UNCHANGED <<router, pc, locals, inbox, outbox, client, history, restarts>>

\* The process ends, after Stop or by a crash, and is started again: threads,
\* connections, routing table and write queue are gone, the tables are not.
Restart ==
  /\ restarts < MaxRestarts
  /\ restarts' = restarts + 1
  /\ start
  /\ router' = [u \in User |-> NoConn]
  /\ pc' = [c \in Conn |-> IF pc[c] = "idle" THEN "idle" ELSE "closed"]
  /\ cl' = [c \in Conn |-> IF pc[c] = "idle" THEN "none" ELSE "gone"]
  /\ cur' = [c \in Conn |-> NoMsg]
  /\ rec' = [c \in Conn |-> NoConn]
  /\ pend' = [c \in Conn |-> {}]
  /\ inbox' = [c \in Conn |-> << >>]
  /\ outbox' = [c \in Conn |-> << >>]
  /\ UNCHANGED <<user, sends, got, history>>

Kinds == IF Faulty THEN {"auth", "bad_auth", "bad_chat"} ELSE {"auth"}

Next ==
  \/ \E c \in Conn : Handler(c)
  \/ \E c \in Conn, u \in User, k \in Kinds : Connect(c, u, k)
  \/ \E c \in Conn, m \in Msg : ClientSend(c, m)
  \/ Faulty /\ \E c \in Conn, k \in {"bad_chat", "garbage"} : ClientSendBad(c, k)
  \/ \E c \in Conn : ClientRead(c)
  \/ \E c \in Conn : ClientClose(c)
  \/ Writer
  \/ Stop
  \/ Restart

Spec == Init /\ [][Next]_vars

\* The threads of the server run: the operating system schedules the writer
\* and every handler that has something to do and is not waiting in a write
\* (SendReturns).  Nothing is asked of clients.
Fairness == WF_vars(Writer) /\ \A c \in Conn : WF_vars(Handler(c))

FairSpec == Spec /\ Fairness

-----------------------------------------------------------------------------
(* Safety. *)

Acked(m) == \E status \in {"sent", "delivered"} : build_ack(m, status) \in acks

\* Tasks of the write queue stand in the order that makes each of them
\* succeed, whatever the handlers' interleaving: a row is inserted behind the
\* record that marks its id as seen, and its status updated behind its
\* insertion, or its row, unless the table takes none.  (An UPDATE ahead of its
\* INSERT would match no row, and the writer would drop it without an error.)
QueueOrder ==
  \A i \in 1..Len(wq) :
    /\ wq[i].op = "insert_message" =>
         \/ wq[i].id \in seen
         \/ \E j \in 1..(i - 1) : wq[j] = record_seen(wq[i].id)
    /\ wq[i].op = "update_delivery_status" /\ wq[i].id \in Storable =>
         \/ messages[wq[i].id] # "none"
         \/ \E j \in 1..(i - 1) : wq[j] = insert_message(wq[i].id)

\* A stored message is protected against replay, also when the process died
\* between the two commits: seen_messages is written first.
StoredIsSeen == \A m \in Msg : messages[m] # "none" => m \in seen

\* The routing table never leads to a connection of somebody else, nor to one
\* whose handler has finished (or not yet registered).
RouterSound ==
  \A u \in User : router[u] # NoConn =>
    user[router[u]] = u /\ pc[router[u]] \in Registered

\* A user with a single connection, and no failed login either, is found by
\* the senders' lookup for as long as its handler serves it.
SoleSessionRouted ==
  \A c \in Conn :
    /\ pc[c] \in Registered
    /\ user[c] # NoUser
    /\ \A d \in Conn \ {c} : user[d] # user[c]
    => pc[c] = "cleanup" \/ router[user[c]] = c

\* A chat frame is only ever on its way to a session of its recipient, also
\* when the routing table changed between lookup and forward.
FramesAddressed ==
  \A c \in Conn : \A i \in 1..Len(outbox[c]) :
    outbox[c][i].type = "chat" => To[outbox[c][i].id] = user[c]

\* No message is marked as delivered, or on the way to be, that was not
\* written to a connection of its recipient first: a crash or a failed write
\* never leaves a message behind that nobody will send again.
DeliveredWasHanded ==
  \A m \in Msg : LogicalStatus(m) = "delivered" =>
    To[m] = Server \/ handed[m] # {}

\* Message m, written to connection c, has been read there, is on its way, or
\* was lost with that very session, which has ended.
ReadOrLost(m, c) ==
  \/ m \in got[c]
  \/ \E i \in 1..Len(outbox[c]) : outbox[c][i] = build_chat(m)
  \/ cl[c] = "gone" \/ pc[c] = "closed"

\* What the sender was told is delivered was written to a session of the
\* recipient, and is lost only if that session, not some other of the user's,
\* ended with it unread: the changes of the routing table between lookup and
\* write lose nothing.
LostOnlyWithClient ==
  \A m \in Msg : build_ack(m, "delivered") \in acks =>
    \/ To[m] = Server
    \/ \E c \in handed[m] : user[c] = To[m] /\ ReadOrLost(m, c)

\* Until the process ends, the server keeps what it said it has: every message
\* it acknowledged or refuses as a replay, of those the table takes at all, is
\* stored or queued to be (or in the hands of a handler that is about to), as
\* delivered if that was the answer, and so is every session it handed out.
Custody ==
  restarts = 0 =>
    /\ \A m \in Storable : Acked(m) => LogicalStatus(m) # "none"
    /\ \A m \in seen \cap Storable : LogicalStatus(m) # "none"
         \/ \E c \in Conn : pc[c] = "insert" /\ cur[c] = m
    /\ \A m \in Storable :
         build_ack(m, "delivered") \in acks => LogicalStatus(m) = "delivered"
    /\ \A c \in Conn : pc[c] \in Registered /\ user[c] # NoUser =>
         sessions[c] = user[c] \/ Queued(insert_session(c, user[c]))
         \/ pc[c] = "cleanup"

-----------------------------------------------------------------------------
(* Steps. *)

\* The row of a message never goes back: not when the same id is inserted a
\* second time (two copies passed the replay check), not across a restart.
StatusMonotone ==
  [][\A m \in Msg :
       /\ messages[m] = "delivered" => messages'[m] = "delivered"
       /\ messages[m] = "sent" => messages'[m] # "none"]_vars

\* The message store of the running server, as the write-behind store of
\* Mailbox.tla: status counts the queued tasks as done, the table is the disk.
AbstractMailbox ==
  INSTANCE Mailbox WITH status <- [m \in Msg |-> LogicalStatus(m)],
                        durable <- messages, epoch <- restarts

\* Handlers, writer thread and queue together implement it: of the messages the
\* table takes, the queue's tasks take effect in order and none is dropped,
\* and only a restart takes back what was taken on, exactly as far as it was
\* not committed.  (A message the table rejects is not taken on, whatever the
\* sender is told.)
RefinesMailbox == AbstractMailbox!Spec

-----------------------------------------------------------------------------
(* Liveness, as long as the process runs. *)

\* Every client reads what it is sent: there is room in its socket's buffers
\* again and again.  Nothing in the code ends a write to one that does not.
ClientsRead == TCP => \A c \in Conn : []<>(Len(outbox[c]) < Buffer)

\* A message that passed the replay check gets its row if the table takes it,
\* also when its handler is held up by a client that does not read.
AcceptedIsStored ==
  \A m \in Storable : accepted[m] > 0 ~> messages[m] # "none"

\* A message written to its recipient is marked as delivered, if it has a row,
\* and so drops out of the offline queue.
HandedIsMarked ==
  \A m \in Storable : handed[m] # {} ~> messages[m] = "delivered"

\* If clients read, what lies in the table for a user when a session of the
\* user comes to read it is written to the user, by this session or another,
\* unless the client leaves.  (What is still in the write queue then waits for
\* the next login.)
PendingDrained ==
  ClientsRead =>
    \A c \in Conn, m \in Storable :
      pc[c] = "pending" /\ To[m] = user[c] /\ messages[m] = "sent" ~>
        handed[m] # {} \/ cl[c] = "gone"

\* If clients read, the end of a client's stream ends its handler, once it
\* reaches it, and then no entry leads to the connection.
GoneIsUnrouted ==
  ClientsRead =>
    \A c \in Conn :
      (\E i \in 1..Len(inbox[c]) : inbox[c][i] = EOF) ~>
        pc[c] = "closed" /\ \A u \in User : router[u] # c

\* A handler waits on nobody but a client that does not read: if clients read,
\* every frame sent to the server is taken.
RequestsServed ==
  ClientsRead => \A c \in Conn : inbox[c] # << >> ~> inbox[c] = << >>

-----------------------------------------------------------------------------
(* What the repository says, and the code does not do. *)

\* "rejects any message whose ID has already been processed"
AcceptedOnce == \A m \in Msg : accepted[m] <= 1

\* "Retrieve the socket and AES key for an active user, if online"
OnlineIsRouted ==
  \A c \in Conn : pc[c] = "loop" /\ cl[c] = "open" => router[user[c]] # NoConn
=============================================================================
