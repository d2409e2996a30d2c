------------------------------- MODULE Client -------------------------------
(***************************************************************************)
(* One WebSocket client: async_main of backend/client_async.py with its    *)
(* two tasks on the event loop, the executor thread that the sender's get  *)
(* occupies, and the thread of run_chat_client (backend/client.py) behind  *)
(* the adapter's queues.  It sends one message for the page of             *)
(* frontend/app.py, which waits for it with a timeout, or chats with a     *)
(* user at a terminal, beside a listener thread.                           *)
(*                                                                         *)
(* Frames to the server are numbered: AUTH is 0, the messages follow as    *)
(* they are sent.  Frames arrive whole (module Bridge has them in pieces), *)
(* and the key exchange is one step (module Handshake has it in detail).   *)
(* The server is what ChatServer shows of it to one connection.            *)
(***************************************************************************)
EXTENDS Integers, Sequences, SequencesExt

CONSTANTS
  MaxTyped,      \* bound: messages typed at the terminal
  MaxForwards    \* bound: messages of others that reach the connection

ASSUME ClientAssumption == MaxTyped \in Nat /\ MaxForwards \in Nat

VARIABLES
  mode,      \* `message` is given ("single", from the page) or not ("chat")
  page,      \* the page: "idle", "waiting" or "done"
  shown,     \* what it has shown: "nothing", "ok", "error" or "timeout"
  main,      \* async_main: "idle", "connect", "join", "close", "executor", "ended"
  th,        \* run_chat_client: "kex", "token", "ack", "input" or "done"
  result,    \* its outcome: "none", "ok" (metrics) or "error"
  listener,  \* _listen_loop: "none", "running" or "done"
  sq, rq,    \* the adapter's send_queue and recv_queue
  sender,    \* the task ws_sender: "get", "send" or "done"
  item,      \* what it sends
  getter,    \* an executor thread is inside send_queue.get
  receiver,  \* the task ws_receiver: "running" or "done"
  ws,        \* the WebSocket: "none", "up" or "down"
  c2s, s2c,  \* frames on the way
  forwards,  \* how many messages of others were sent to it
  stored,    \* the messages the server has accepted
  puts,      \* history: the frames given to sendall
  wire       \* history: the frames written to the WebSocket

ui == <<page, shown>>
thread == <<th, result, listener, puts>>
tasks == <<sender, item, getter, receiver, wire>>
net == <<ws, c2s, s2c, forwards, stored>>
vars == <<mode, ui, main, thread, sq, rq, tasks, net>>

Auth == 0
Sentinel == -1      \* b"" on send_queue
EOF == "eof"        \* b"" on recv_queue

Init ==
  /\ mode \in {"single", "chat"}
  /\ page = "idle" /\ shown = "nothing"
  /\ main = "idle" /\ th = "kex" /\ result = "none" /\ listener = "none"
  /\ sq = << >> /\ rq = << >>
  /\ sender = "done" /\ item = Sentinel /\ getter = FALSE /\ receiver = "done"
  /\ ws = "none" /\ c2s = << >> /\ s2c = << >> /\ forwards = 0 /\ stored = {}
  /\ puts = << >> /\ wire = << >>

-----------------------------------------------------------------------------
(* The page. *)

\* animate_and_send starts a worker; at a terminal, main does.
Start ==
  /\ main = "idle"
  /\ main' = "connect"
  /\ page' = IF mode = "single" THEN "waiting" ELSE page
  /\ UNCHANGED <<mode, shown, thread, sq, rq, tasks, net>>

\* The worker has ended in time: the page shows its result.
UiResult ==
  /\ page = "waiting" /\ main = "ended"
  /\ page' = "done" /\ shown' = result
  /\ UNCHANGED <<mode, main, thread, sq, rq, tasks, net>>

\* thread.join(timeout=120) returns and the worker is alive: it goes on alone.
UiTimeout ==
  /\ page = "waiting" /\ main # "ended"
  /\ page' = "done" /\ shown' = "timeout"
  /\ UNCHANGED <<mode, main, thread, sq, rq, tasks, net>>

-----------------------------------------------------------------------------
(* async_main and its two tasks. *)

\* The port does not answer, or the connection is refused.
ConnectFails ==
  /\ main = "connect"
  /\ main' = "ended" /\ result' = "error"
  /\ UNCHANGED <<mode, ui, th, listener, puts, sq, rq, tasks, net>>

\* Connected: the client thread and the two tasks start.
Connect ==
  /\ main = "connect"
  /\ main' = "join" /\ ws' = "up"
  /\ receiver' = "running" /\ sender' = "get" /\ getter' = TRUE
  /\ UNCHANGED <<mode, ui, thread, sq, rq, item, wire, c2s, s2c, forwards,
                 stored>>

Receive ==
  /\ receiver = "running" /\ s2c # << >>
  /\ rq' = Append(rq, Head(s2c)) /\ s2c' = Tail(s2c)
  /\ UNCHANGED <<mode, ui, main, thread, sq, tasks, ws, c2s, forwards, stored>>

\* Mutant: no finally clause in ws_receiver.
ReceiverEndsSilently ==
  /\ receiver = "running" /\ ws = "down" /\ s2c = << >>
  /\ receiver' = "done"
  /\ UNCHANGED <<mode, ui, main, thread, sq, rq, sender, item, getter, wire, net>>

\* ConnectionClosed, once everything that arrived was read.
ReceiverEnds ==
  /\ receiver = "running" /\ ws = "down" /\ s2c = << >>
  /\ receiver' = "done" /\ rq' = Append(rq, EOF)
  /\ UNCHANGED <<mode, ui, main, thread, sq, sender, item, getter, wire, net>>

\* The executor thread gets something; a cancelled task no longer awaits it.
Get ==
  /\ getter /\ sq # << >>
  /\ sq' = Tail(sq) /\ getter' = FALSE
  /\ IF sender = "get" THEN sender' = "send" /\ item' = Head(sq)
                       ELSE UNCHANGED <<sender, item>>
  /\ UNCHANGED <<mode, ui, main, thread, rq, receiver, wire, net>>

\* Mutant: a failed send is passed over.
SendOn ==
  /\ sender = "send"
  /\ IF item = Sentinel
     THEN sender' = "done" /\ UNCHANGED <<getter, wire, c2s>>
     ELSE /\ sender' = "get" /\ getter' = TRUE
          /\ \/ UNCHANGED <<wire, c2s>>
             \/ wire' = Append(wire, item) /\ c2s' = Append(c2s, item)
  /\ UNCHANGED <<mode, ui, main, thread, sq, rq, item, receiver, ws, s2c,
                 forwards, stored>>

\* The sender's turn: the sentinel or a connection that is gone ends it.
Send ==
  /\ sender = "send"
  /\ IF item = Sentinel \/ ws = "down"
     THEN sender' = "done" /\ UNCHANGED <<getter, wire, c2s>>
     ELSE /\ sender' = "get" /\ getter' = TRUE
          /\ wire' = Append(wire, item) /\ c2s' = Append(c2s, item)
  /\ UNCHANGED <<mode, ui, main, thread, sq, rq, item, receiver, ws, s2c,
                 forwards, stored>>

\* The client thread has returned: both tasks are cancelled, the receiver's
\* finally clause included.  What the sender holds, or has not got yet, is not
\* sent; a thread inside get stays there.
Cancel ==
  /\ main = "join" /\ th = "done"
  /\ main' = "close"
  /\ sender' = "done" /\ receiver' = "done"
  /\ rq' = IF receiver = "running" THEN Append(rq, EOF) ELSE rq
  /\ UNCHANGED <<mode, ui, thread, sq, item, getter, wire, net>>

\* The end of `async with`; what arrives now is not read any more.
CloseWebSocket ==
  /\ main = "close"
  /\ main' = "executor" /\ ws' = "down" /\ s2c' = << >>
  /\ UNCHANGED <<mode, ui, thread, sq, rq, tasks, c2s, forwards, stored>>

\* asyncio.run waits for the threads of the default executor.
ExecutorJoined ==
  /\ main = "executor" /\ ~getter
  /\ main' = "ended"
  /\ UNCHANGED <<mode, ui, thread, sq, rq, tasks, net>>

-----------------------------------------------------------------------------
(* run_chat_client. *)

Put(frame) == sq' = Append(sq, frame) /\ puts' = Append(puts, frame)

\* Mutant: close() tells only the receiving side.
CloseQuietly(rest, times) ==
  rq' = rest \o [i \in 1..times |-> EOF] /\ UNCHANGED sq

\* close(), called so many times, with `rest` on recv_queue.
Close(rest, times) ==
  /\ rq' = rest \o [i \in 1..times |-> EOF]
  /\ sq' = sq \o [i \in 1..times |-> Sentinel]

\* The thread returns metrics, or None, which thread_target takes for an error.
Return(outcome, rest, times) ==
  /\ th' = "done" /\ result' = outcome
  /\ Close(rest, times)
  /\ UNCHANGED <<listener, puts>>

\* The key exchange is done: AUTH is sent.
SendAuth ==
  /\ main = "join" /\ th = "kex" /\ ws = "up"
  /\ th' = "token" /\ Put(Auth)
  /\ UNCHANGED <<mode, ui, main, result, listener, rq, tasks, net>>

\* The answer to AUTH: an error ends the client, the token lets it go on.
Token ==
  /\ th = "token" /\ rq # << >> /\ Head(rq) # EOF
  /\ IF Head(rq) = "error" THEN Return("error", Tail(rq), 2)
     ELSE /\ rq' = Tail(rq) /\ UNCHANGED result
          /\ \/ /\ mode = "single"
                /\ th' = "ack" /\ Put(1) /\ UNCHANGED listener
             \/ /\ mode = "chat"
                /\ th' = "input" /\ listener' = "running"
                /\ UNCHANGED <<sq, puts>>
  /\ UNCHANGED <<mode, ui, main, tasks, net>>

\* Mutant: the loop is left on whatever comes that is not an error.
AwaitAny ==
  /\ th = "ack" /\ rq # << >> /\ Head(rq) # EOF
  /\ Return(IF Head(rq) = "error" THEN "error" ELSE "ok", Tail(rq), 2)
  /\ UNCHANGED <<mode, ui, main, tasks, net>>

\* One turn of the loop that waits for the ACK with the message's own id; it
\* passes over messages of others that the login drained or that arrive live.
Await ==
  /\ th = "ack" /\ rq # << >> /\ Head(rq) # EOF
  /\ CASE Head(rq) = "error" -> Return("error", Tail(rq), 2)
       [] Head(rq) = "ack"   -> Return("ok", Tail(rq), 2)
       [] OTHER              -> rq' = Tail(rq) /\ UNCHANGED <<sq, thread>>
  /\ UNCHANGED <<mode, ui, main, tasks, net>>

\* recv_msg raises at the end of the stream; the exception is printed.
RecvFails ==
  /\ main = "join" /\ th \in {"kex", "token", "ack"}
  /\ rq # << >> /\ Head(rq) = EOF
  /\ Return("error", Tail(rq), 1)
  /\ UNCHANGED <<mode, ui, main, tasks, net>>

\* The user types a message; sendall never fails, whatever became of the
\* connection.
Type ==
  /\ th = "input" /\ Len(puts) <= MaxTyped
  /\ Put(Len(puts))
  /\ UNCHANGED <<mode, ui, main, th, result, listener, rq, tasks, net>>

\* /quit: the loop ends, finally closes, and None is returned.
Quit ==
  /\ th = "input"
  /\ Return("error", rq, 1)
  /\ UNCHANGED <<mode, ui, main, tasks, net>>

\* _listen_loop prints what arrives until recv_msg raises.
Listen ==
  /\ listener = "running" /\ rq # << >>
  /\ rq' = Tail(rq)
  /\ listener' = IF Head(rq) = EOF THEN "done" ELSE listener
  /\ UNCHANGED <<mode, ui, main, th, result, puts, sq, tasks, net>>

-----------------------------------------------------------------------------
(* The server and the network. *)

\* An answer to a connection that is gone goes nowhere.
Reply(frame) == s2c' = IF ws = "up" THEN Append(s2c, frame) ELSE s2c

\* The handler answers AUTH, and ends if it refuses it.
ServerAuth ==
  /\ c2s # << >> /\ Head(c2s) = Auth
  /\ c2s' = Tail(c2s)
  /\ \/ Reply("token") /\ UNCHANGED ws
     \/ Reply("error") /\ ws' = "down"
  /\ UNCHANGED <<mode, ui, main, thread, sq, rq, tasks, forwards, stored>>

\* The handler takes the message on, or refuses it.
ServerChat ==
  /\ c2s # << >> /\ Head(c2s) # Auth
  /\ c2s' = Tail(c2s)
  /\ \/ Reply("ack") /\ stored' = stored \cup {Head(c2s)}
     \/ Reply("error") /\ UNCHANGED stored
  /\ UNCHANGED <<mode, ui, main, thread, sq, rq, tasks, ws, forwards>>

\* A message of somebody else is drained or forwarded to this connection once
\* its login has been accepted.
ServerForward ==
  /\ ws = "up" /\ wire # << >> /\ ~Contains(c2s, Auth)
  /\ forwards < MaxForwards
  /\ Reply("forward") /\ forwards' = forwards + 1
  /\ UNCHANGED <<mode, ui, main, thread, sq, rq, tasks, ws, c2s, stored>>

\* The connection breaks: what was on the way to the client may be lost, ...
LinkBreaks(kept) ==
  /\ ws = "up"
  /\ ws' = "down" /\ s2c' = SubSeq(s2c, 1, kept)
  /\ UNCHANGED <<mode, ui, main, thread, sq, rq, tasks, c2s, forwards, stored>>

\* ... or what was on the way to the server.
LinkLoses ==
  /\ ws = "down" /\ c2s # << >>
  /\ c2s' = << >>
  /\ UNCHANGED <<mode, ui, main, thread, sq, rq, tasks, ws, s2c, forwards,
                 stored>>

AsyncMain == ConnectFails \/ Connect \/ Cancel \/ CloseWebSocket \/ ExecutorJoined

RunChatClient == SendAuth \/ Token \/ Await \/ RecvFails

Server == ServerAuth \/ ServerChat

Next ==
  \/ Start \/ UiResult \/ UiTimeout
  \/ AsyncMain \/ Receive \/ ReceiverEnds \/ Get \/ Send
  \/ RunChatClient \/ Type \/ Quit \/ Listen
  \/ Server \/ ServerForward
  \/ \E kept \in 0..Len(s2c) : LinkBreaks(kept)
  \/ LinkLoses

Spec == Init /\ [][Next]_vars

\* The event loop runs its tasks and the operating system the threads, and the
\* server's handler answers (the property RequestsServed of ChatServer).
\* Nothing is asked of the user.
FairSpec ==
  /\ Spec
  /\ WF_vars(AsyncMain) /\ WF_vars(Receive \/ ReceiverEnds)
  /\ WF_vars(Get) /\ WF_vars(Send)
  /\ WF_vars(RunChatClient) /\ WF_vars(Listen) /\ WF_vars(Server)

-----------------------------------------------------------------------------

\* What the page shows as sent has been accepted by the server, whatever else
\* arrived in between and wherever the connection broke.
SuccessIsStored == shown = "ok" => 1 \in stored

\* However the tasks are cancelled, what was written to the WebSocket is what
\* the client handed to sendall, in that order and without a gap: at /quit the
\* last messages may be lost, never one before a message that was sent.
SentInOrder == IsPrefix(wire, puts)

\* A single send ends, whatever the connection does and whoever else writes to
\* it, and so does every client whose thread has returned: no executor thread
\* stays inside get and keeps asyncio.run from returning.
WorkerEnds ==
  /\ mode = "single" /\ main = "connect" ~> main = "ended"
  /\ th = "done" ~> main = "ended"

\* The listener thread ends when the connection does, also if the user is still
\* at the prompt, and when the user quits.
ListenerEnds ==
  (ws = "down" \/ th = "done") /\ listener = "running" ~> listener = "done"
=============================================================================
