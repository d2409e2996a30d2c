---------------------------- MODULE ClientProofs ----------------------------
(***************************************************************************)
(* Proofs about Client, for every number of typed and of forwarded         *)
(* messages: what reaches the WebSocket is what the client sent, without a *)
(* gap, and a message that the page shows as sent is in the server's store.*)
(***************************************************************************)
EXTENDS Client, TLAPS, SequenceTheorems

Answer == {"token", "error", "ack", "forward", EOF}

\* The types of the state.
ClientTypes ==
  /\ mode \in {"single", "chat"}
  /\ page \in {"idle", "waiting", "done"}
  /\ shown \in {"nothing", "none", "ok", "error", "timeout"}
  /\ main \in {"idle", "connect", "join", "close", "executor", "ended"}
  /\ th \in {"kex", "token", "ack", "input", "done"}
  /\ result \in {"none", "ok", "error"}
  /\ sq \in Seq(Int) /\ rq \in Seq(Answer)
  /\ sender \in {"get", "send", "done"} /\ item \in Int
  /\ getter \in BOOLEAN
  /\ c2s \in Seq(Int) /\ s2c \in Seq(Answer)
  /\ puts \in Seq(Int) /\ wire \in Seq(Int)

\* How many frames are behind the first one that is still on send_queue.
Position == Len(wire) + (IF sender = "send" THEN 1 ELSE 0)

\* What comes n-th off send_queue: what was put n-th, then the sentinels.
Due(n, frame) == IF n <= Len(puts) THEN frame = puts[n] ELSE frame = Sentinel

\* The frames on the wire, the one the sender holds and those on send_queue
\* make up the frames given to sendall, as long as the sender is at work.
StreamInv ==
  /\ main \in {"idle", "connect"} =>
       th = "kex" /\ puts = << >> /\ wire = << >> /\ sq = << >>
  /\ Len(wire) <= Len(puts)
  /\ \A i \in 1..Len(wire) : wire[i] = puts[i]
  /\ sender = "send" => ~getter /\ Due(Len(wire) + 1, item)
  /\ sender # "done" =>
       /\ \A i \in 1..Len(sq) : Due(Position + i, sq[i])
       /\ th # "done" => Position + Len(sq) = Len(puts)

\* What can have been answered so far: an ack only if the message is stored.
Answered == IF 1 \in stored THEN Answer ELSE Answer \ {"ack"}

\* The page's client sends AUTH and one message, so every ack is of this one;
\* a client at a terminal has no page that waits for it.
StoredInv ==
  /\ mode = "single" =>
       /\ th # "input"
       /\ sq \in Seq({Auth, 1, Sentinel})
       /\ sender = "send" => item \in {Auth, 1, Sentinel}
       /\ c2s \in Seq({Auth, 1})
       /\ rq \in Seq(Answered) /\ s2c \in Seq(Answered)
       /\ result = "ok" => 1 \in stored
  /\ mode = "chat" => page = "idle"
  /\ SuccessIsStored

ClientInv == ClientTypes /\ StreamInv /\ StoredInv

-----------------------------------------------------------------------------
(* The steps, by what they do to the two queues. *)

\* close() leaves what is on the queues and adds the ends of the streams.
LEMMA CloseAdds ==
  ASSUME NEW S, NEW T, EOF \in S, Sentinel \in T,
         NEW rest \in Seq(S), sq \in Seq(T), NEW times \in {1, 2},
         Close(rest, times)
  PROVE  /\ rq' \in Seq(S) /\ sq' \in Seq(T)
         /\ Len(sq') = Len(sq) + times
         /\ \A i \in 1..Len(sq) : sq'[i] = sq[i]
         /\ \A i \in (Len(sq) + 1)..Len(sq') : sq'[i] = Sentinel
<1> DEFINE ends == [i \in 1..times |-> EOF]
<1> DEFINE stops == [i \in 1..times |-> Sentinel]
<1>1. ends \in Seq(S)
  OBVIOUS
<1>2. /\ stops \in Seq(T) /\ Len(stops) = times
      /\ \A i \in 1..times : stops[i] = Sentinel
  OBVIOUS
<1>3. rq' = rest \o ends /\ sq' = sq \o stops
  BY DEF Close
<1> HIDE DEF ends, stops
<1>4. rq' \in Seq(S)
  BY <1>1, <1>3
<1> QED
  BY <1>2, <1>3, <1>4

\* What it adds to send_queue, whatever the other queue holds.
LEMMA CloseStops ==
  ASSUME sq \in Seq(Int), NEW rest, NEW times \in {1, 2}, Close(rest, times)
  PROVE  /\ sq' \in Seq(Int) /\ Len(sq') = Len(sq) + times
         /\ \A i \in 1..Len(sq) : sq'[i] = sq[i]
         /\ \A i \in (Len(sq) + 1)..Len(sq') : sq'[i] = Sentinel
<1> DEFINE stops == [i \in 1..times |-> Sentinel]
<1>1. Sentinel \in Int
  BY DEF Sentinel
<1>2. /\ stops \in Seq(Int) /\ Len(stops) = times
      /\ \A i \in 1..times : stops[i] = Sentinel
  BY <1>1
<1>3. sq' = sq \o stops
  BY DEF Close
<1> HIDE DEF stops
<1> QED
  BY <1>2, <1>3

\* The two end marks are values of the queues' types.
LEMMA Ends == EOF \in Answer /\ EOF \in Answered /\ Sentinel \in Int
BY DEF Answer, Answered, EOF, Sentinel

\* The thread returns: from where, with what outcome, and what it leaves.
Returns ==
  /\ th # "done" /\ th' = "done" /\ main \notin {"idle", "connect"}
  /\ result' \in {"ok", "error"}
  /\ result' = "ok" => rq # << >> /\ Head(rq) = "ack"
  /\ \E times \in {1, 2} :
       Close(rq, times) \/ (rq # << >> /\ Close(Tail(rq), times))
  /\ UNCHANGED <<mode, ui, main, tasks, net, listener, puts>>

\* The thread gives a frame to sendall.
Sends ==
  /\ th # "done" /\ th' \in {"token", "ack", "input"}
  /\ main \notin {"idle", "connect"}
  /\ th' = "input" => mode = "chat" \/ th = "input"
  /\ \E frame \in Nat : Put(frame) /\ (frame \in {Auth, 1} \/ th = "input")
  /\ rq' = rq \/ (rq # << >> /\ rq' = Tail(rq))
  /\ UNCHANGED <<mode, ui, main, tasks, net, listener, result>>

\* The thread, or the listener, reads one message and goes on.
Reads ==
  /\ rq # << >> /\ rq' = Tail(rq)
  /\ th' = th \/ (mode = "chat" /\ th # "done" /\ th' = "input"
                    /\ main \notin {"idle", "connect"})
  /\ UNCHANGED <<mode, ui, main, tasks, net, result, sq, puts>>

\* Every step of run_chat_client and of the listener is one of the three.
LEMMA ThreadSteps ==
  ASSUME ClientTypes, StreamInv,
         SendAuth \/ Token \/ Await \/ RecvFails \/ Type \/ Quit \/ Listen
  PROVE  Returns \/ Sends \/ Reads
<1> USE DEF ui, tasks, net, thread
<1>0. /\ main \in {"idle", "connect"} => th = "kex"
      /\ th \in {"kex", "token", "ack", "input", "done"}
      /\ puts \in Seq(Int) /\ mode \in {"single", "chat"}
  BY DEF StreamInv, ClientTypes
<1>1. CASE SendAuth
  <2>1. Put(Auth) /\ Auth \in Nat
    BY <1>1 DEF SendAuth, Auth
  <2>2. \E frame \in Nat : Put(frame) /\ (frame \in {Auth, 1} \/ th = "input")
    BY <2>1
  <2> QED
    BY <1>0, <1>1, <2>2 DEF SendAuth, Sends
<1>2. CASE Token
  <2>1. CASE Head(rq) = "error"
    <3>1. Return("error", Tail(rq), 2) /\ UNCHANGED <<mode, ui, main, tasks, net>>
      BY <1>2, <2>1 DEF Token
    <3>2. th = "token" /\ rq # << >>
      BY <1>2 DEF Token
    <3> QED
      BY <1>0, <3>1, <3>2 DEF Return, Returns
  <2>2. CASE Head(rq) # "error" /\ mode = "single"
    <3>1. Put(1) /\ th' = "ack"
      BY <1>2, <2>2 DEF Token
    <3> QED
      BY <1>0, <1>2, <2>2, <3>1 DEF Token, Sends
  <2>3. CASE Head(rq) # "error" /\ mode = "chat"
    BY <1>0, <1>2, <2>3 DEF Token, Reads
  <2> QED
    BY <1>0, <2>1, <2>2, <2>3
<1>3. CASE Await
  <2>0. th = "ack" /\ rq # << >> /\ UNCHANGED <<mode, ui, main, tasks, net>>
    BY <1>3 DEF Await
  <2>1. CASE Head(rq) = "error"
    <3>1. Return("error", Tail(rq), 2)
      BY <1>3, <2>1 DEF Await
    <3> QED
      BY <1>0, <2>0, <3>1 DEF Return, Returns
  <2>2. CASE Head(rq) = "ack"
    <3>1. Return("ok", Tail(rq), 2)
      BY <1>3, <2>2 DEF Await
    <3> QED
      BY <1>0, <2>0, <2>2, <3>1 DEF Return, Returns
  <2>3. CASE Head(rq) # "error" /\ Head(rq) # "ack"
    <3>1. rq' = Tail(rq) /\ UNCHANGED <<sq, thread>>
      BY <1>3, <2>3 DEF Await
    <3> QED
      BY <2>0, <3>1 DEF Reads
  <2> QED
    BY <2>1, <2>2, <2>3
<1>4. CASE RecvFails
  <2>1. /\ Return("error", Tail(rq), 1) /\ th # "done" /\ main = "join"
        /\ rq # << >> /\ UNCHANGED <<mode, ui, main, tasks, net>>
    BY <1>4 DEF RecvFails
  <2> QED
    BY <2>1 DEF Return, Returns
<1>5. CASE Type
  <2>1. Put(Len(puts)) /\ Len(puts) \in Nat
    BY <1>0, <1>5 DEF Type
  <2>2. \E frame \in Nat : Put(frame) /\ (frame \in {Auth, 1} \/ th = "input")
    BY <1>5, <2>1 DEF Type
  <2> QED
    BY <1>0, <1>5, <2>2 DEF Type, Sends
<1>6. CASE Quit
  <2>1. /\ Return("error", rq, 1) /\ th = "input"
        /\ UNCHANGED <<mode, ui, main, tasks, net>>
    BY <1>6 DEF Quit
  <2> QED
    BY <1>0, <2>1 DEF Return, Returns
<1>7. CASE Listen
  BY <1>7 DEF Listen, Reads
<1> QED
  BY <1>1, <1>2, <1>3, <1>4, <1>5, <1>6, <1>7

-----------------------------------------------------------------------------
(* The invariant is inductive. *)

LEMMA TypesNext ==
  ASSUME ClientTypes, StreamInv, [Next]_vars
  PROVE  ClientTypes'
<1> USE DEF ui, tasks, net, thread
<1>0. /\ rq # << >> => Tail(rq) \in Seq(Answer) /\ Head(rq) \in Answer
      /\ sq # << >> => Tail(sq) \in Seq(Int) /\ Head(sq) \in Int
      /\ s2c # << >> => Tail(s2c) \in Seq(Answer) /\ Head(s2c) \in Answer
      /\ c2s # << >> => Tail(c2s) \in Seq(Int) /\ Head(c2s) \in Int
  BY DEF ClientTypes
<1>1. CASE Returns
  <2>1. rq' \in Seq(Answer) /\ sq' \in Seq(Int)
    <3>1. PICK times \in {1, 2} :
            Close(rq, times) \/ (rq # << >> /\ Close(Tail(rq), times))
      BY <1>1 DEF Returns
    <3>2. rq \in Seq(Answer) /\ sq \in Seq(Int)
      BY DEF ClientTypes
    <3>3. PICK rest \in Seq(Answer) : Close(rest, times)
      BY <1>0, <3>1, <3>2
    <3>4. EOF \in Answer /\ Sentinel \in Int
      BY Ends
    <3> QED
      BY <3>2, <3>3, <3>4, CloseAdds
  <2> QED
    BY <1>1, <2>1 DEF Returns, ClientTypes
<1>2. CASE Sends
  <2>1. PICK frame \in Nat : Put(frame)
    BY <1>2 DEF Sends
  <2>2. sq' \in Seq(Int) /\ puts' \in Seq(Int)
    BY <2>1 DEF Put, ClientTypes
  <2>3. rq' \in Seq(Answer)
    BY <1>0, <1>2 DEF Sends, ClientTypes
  <2> QED
    BY <1>2, <2>2, <2>3 DEF Sends, ClientTypes
<1>3. CASE Reads
  BY <1>0, <1>3 DEF Reads, ClientTypes
<1>4. CASE Start \/ UiResult \/ UiTimeout
  BY <1>4 DEF Start, UiResult, UiTimeout, ClientTypes
<1>5. CASE ConnectFails \/ Connect \/ CloseWebSocket \/ ExecutorJoined
  <2>1. << >> \in Seq(Answer)
    OBVIOUS
  <2>2. CASE ConnectFails
    BY <2>2 DEF ConnectFails, ClientTypes
  <2>3. CASE Connect
    BY <2>3 DEF Connect, ClientTypes
  <2>4. CASE CloseWebSocket
    BY <2>1, <2>4 DEF CloseWebSocket, ClientTypes
  <2>5. CASE ExecutorJoined
    BY <2>5 DEF ExecutorJoined, ClientTypes
  <2> QED
    BY <1>5, <2>2, <2>3, <2>4, <2>5
<1>6. CASE Cancel \/ Receive \/ ReceiverEnds
  <2>1. EOF \in Answer
    BY DEF Answer
  <2>2. /\ rq \in Seq(Answer) /\ s2c \in Seq(Answer)
        /\ \A answer \in Answer : Append(rq, answer) \in Seq(Answer)
    BY DEF ClientTypes
  <2>3. /\ s2c' = s2c \/ (s2c # << >> /\ s2c' = Tail(s2c))
        /\ \/ rq' = rq \/ rq' = Append(rq, EOF)
           \/ s2c # << >> /\ rq' = Append(rq, Head(s2c))
    BY <1>6 DEF Cancel, Receive, ReceiverEnds
  <2>4. /\ rq' \in Seq(Answer) /\ s2c' \in Seq(Answer)
    BY <1>0, <2>1, <2>2, <2>3
  <2> QED
    BY <1>6, <2>4 DEF Cancel, Receive, ReceiverEnds, ClientTypes
<1>7. CASE Get
  <2>1. /\ sender' \in {"get", "send", "done"} /\ item' \in Int
        /\ getter' \in BOOLEAN
    BY <1>0, <1>7 DEF Get, ClientTypes
  <2> QED
    BY <1>0, <1>7, <2>1 DEF Get, ClientTypes
<1>8. CASE Send
  <2>1. \/ UNCHANGED <<wire, c2s>>
        \/ wire' = Append(wire, item) /\ c2s' = Append(c2s, item)
    BY <1>8 DEF Send
  <2>2. /\ Append(wire, item) \in Seq(Int) /\ Append(c2s, item) \in Seq(Int)
        /\ wire \in Seq(Int) /\ c2s \in Seq(Int)
    BY DEF ClientTypes
  <2>3. wire' \in Seq(Int) /\ c2s' \in Seq(Int)
    BY <2>1, <2>2
  <2>4. sender' \in {"get", "send", "done"} /\ getter' \in BOOLEAN
    BY <1>8 DEF Send, ClientTypes
  <2>5. UNCHANGED <<mode, ui, main, thread, sq, rq, item, s2c>>
    BY <1>8 DEF Send
  <2> QED
    BY <2>3, <2>4, <2>5 DEF ClientTypes
<1>9. CASE ServerAuth \/ ServerChat \/ ServerForward
  <2>1. \A frame \in Answer : Reply(frame) => s2c' \in Seq(Answer)
    BY DEF Reply, ClientTypes
  <2>2. s2c' \in Seq(Answer)
    BY <1>9, <2>1 DEF ServerAuth, ServerChat, ServerForward, Answer
  <2>3. c2s' \in Seq(Int)
    BY <1>0, <1>9 DEF ServerAuth, ServerChat, ServerForward, ClientTypes
  <2> QED
    BY <1>9, <2>2, <2>3 DEF ServerAuth, ServerChat, ServerForward, ClientTypes
<1>10. ASSUME NEW kept \in 0..Len(s2c), LinkBreaks(kept)
       PROVE  ClientTypes'
  <2>1. s2c' \in Seq(Answer)
    BY <1>10 DEF LinkBreaks, ClientTypes
  <2> QED
    BY <1>10, <2>1 DEF LinkBreaks, ClientTypes
<1>11. CASE LinkLoses \/ UNCHANGED vars
  <2>1. << >> \in Seq(Int)
    OBVIOUS
  <2>2. CASE LinkLoses
    BY <2>1, <2>2 DEF LinkLoses, ClientTypes
  <2>3. CASE UNCHANGED vars
    BY <2>3 DEF vars, ClientTypes
  <2> QED
    BY <1>11, <2>2, <2>3
<1> QED
  BY <1>1, <1>2, <1>3, <1>4, <1>5, <1>6, <1>7, <1>8, <1>9, <1>10, <1>11,
     ThreadSteps DEF Next, AsyncMain, RunChatClient, Server

\* Every step keeps the sender's stream in the order the page queued it.
LEMMA StreamNext ==
  ASSUME ClientTypes, StreamInv, [Next]_vars
  PROVE  StreamInv'
<1> USE DEF ui, tasks, net, thread
<1>1. CASE Returns
  <2>1. /\ Len(sq') \in Nat /\ Len(sq) <= Len(sq')
        /\ \A i \in 1..Len(sq) : sq'[i] = sq[i]
        /\ \A i \in (Len(sq) + 1)..Len(sq') : sq'[i] = Sentinel
    <3>1. PICK times \in {1, 2} :
            Close(rq, times) \/ (rq # << >> /\ Close(Tail(rq), times))
      BY <1>1 DEF Returns
    <3>2. rq \in Seq(Answer) /\ (rq # << >> => Tail(rq) \in Seq(Answer))
          /\ Len(sq) \in Nat /\ sq \in Seq(Int)
      BY DEF ClientTypes
    <3>3. PICK rest \in Seq(Answer) : Close(rest, times)
      BY <3>1, <3>2
    <3>4. /\ sq' \in Seq(Int) /\ Len(sq') = Len(sq) + times
          /\ \A i \in 1..Len(sq) : sq'[i] = sq[i]
          /\ \A i \in (Len(sq) + 1)..Len(sq') : sq'[i] = Sentinel
      BY <3>2, <3>3, CloseStops
    <3> QED
      BY <3>2, <3>4
  <2>2. ASSUME sender # "done", NEW i \in 1..Len(sq')
        PROVE  Due(Position + i, sq'[i])
    <3>1. /\ Position \in Nat /\ Len(puts) \in Nat /\ Len(sq) \in Nat
          /\ Position + Len(sq) = Len(puts)
      BY <1>1, <2>2 DEF Returns, StreamInv, Position, ClientTypes
    <3>2. CASE i \in 1..Len(sq)
      BY <2>1, <2>2, <3>2 DEF StreamInv
    <3>3. CASE i \in (Len(sq) + 1)..Len(sq')
      BY <2>1, <3>1, <3>3 DEF Due
    <3> QED
      BY <2>1, <3>1, <3>2, <3>3
  <2> QED
    BY <1>1, <2>2 DEF Returns, StreamInv, Position, Due
<1>2. CASE Sends
  <2>1. PICK frame \in Nat : Put(frame)
    BY <1>2 DEF Sends
  <2>2. /\ Len(sq') = Len(sq) + 1 /\ sq'[Len(sq) + 1] = frame
        /\ \A i \in 1..Len(sq) : sq'[i] = sq[i]
        /\ Len(puts') = Len(puts) + 1 /\ puts'[Len(puts) + 1] = frame
        /\ \A i \in 1..Len(puts) : puts'[i] = puts[i]
        /\ Len(sq) \in Nat /\ Len(puts) \in Nat /\ Len(wire) \in Nat
    BY <2>1 DEF Put, ClientTypes
  <2>3. /\ UNCHANGED <<wire, sender, item, getter, main>> /\ th # "done"
        /\ main \notin {"idle", "connect"}
    BY <1>2 DEF Sends
  <2>4. /\ Len(wire) <= Len(puts')
        /\ \A i \in 1..Len(wire) : wire[i] = puts'[i]
    BY <2>2 DEF StreamInv
  <2>5. /\ sender # "done" => Position + Len(sq) = Len(puts)
        /\ Position \in Nat
    BY <2>2, <2>3 DEF StreamInv, Position
  <2>6. sender = "send" => ~getter /\ Due(Len(wire) + 1, item)'
    <3>1. sender = "send" => Len(wire) + 1 <= Len(puts)
      BY <2>2, <2>5 DEF Position
    <3> QED
      BY <2>2, <2>3, <3>1 DEF StreamInv, Due
  <2>7. ASSUME sender # "done", NEW i \in 1..Len(sq')
        PROVE  IF Position + i <= Len(puts') THEN sq'[i] = puts'[Position + i]
               ELSE sq'[i] = Sentinel
    <3>1. CASE i \in 1..Len(sq)
      <4>1. Due(Position + i, sq[i]) /\ Position + i \in 1..Len(puts)
        BY <2>2, <2>5, <2>7, <3>1 DEF StreamInv
      <4> QED
        BY <2>2, <3>1, <4>1 DEF Due
    <3>2. CASE i = Len(sq) + 1
      BY <2>2, <2>5, <2>7, <3>2
    <3> QED
      BY <2>2, <3>1, <3>2
  <2>8. Position' = Position
    BY <2>3 DEF Position
  <2>9. ASSUME sender' # "done"
        PROVE  /\ \A i \in 1..Len(sq') : Due(Position + i, sq[i])'
               /\ Position' + Len(sq') = Len(puts')
    BY <2>2, <2>3, <2>5, <2>7, <2>8, <2>9 DEF Due
  <2> QED
    BY <2>3, <2>4, <2>6, <2>9 DEF StreamInv
<1>3. CASE Connect
  BY <1>3 DEF Connect, StreamInv, Position
<1>4. CASE Get
  <2>0. /\ getter /\ sq # << >> /\ sq' = Tail(sq) /\ ~getter'
        /\ UNCHANGED <<main, th, puts, wire>>
    BY <1>4 DEF Get
  <2>1. /\ Len(sq') = Len(sq) - 1 /\ Head(sq) = sq[1] /\ Len(sq) \in Nat \ {0}
        /\ \A i \in 1..Len(sq') : sq'[i] = sq[i + 1]
        /\ Len(wire) \in Nat /\ Len(puts) \in Nat
    BY <2>0 DEF ClientTypes
  <2>2. main \notin {"idle", "connect"}
    BY <2>0 DEF StreamInv
  <2>3. CASE sender = "get"
    <3>1. sender' = "send" /\ item' = Head(sq)
      BY <1>4, <2>3 DEF Get
    <3>2. Position = Len(wire) /\ Position' = Len(wire) + 1
      BY <2>0, <2>1, <2>3, <3>1 DEF Position
    <3>3. \A i \in 1..Len(sq) : Due(Len(wire) + i, sq[i])
      BY <2>3, <3>2 DEF StreamInv
    <3>4. Due(Len(wire) + 1, item)'
      BY <2>0, <2>1, <3>1, <3>3 DEF Due
    <3>5. \A i \in 1..Len(sq') : Due(Len(wire) + (i + 1), sq[i + 1])
      BY <2>1, <3>3
    <3>6. ASSUME NEW i \in 1..Len(sq')
          PROVE  IF Position' + i <= Len(puts')
                   THEN sq'[i] = puts'[Position' + i]
                   ELSE sq'[i] = Sentinel
      <4>1. Len(wire) + (i + 1) = Position' + i
        BY <2>1, <3>2
      <4> QED
        BY <2>0, <2>1, <3>5, <4>1 DEF Due
    <3>7. th # "done" => Position' + Len(sq') = Len(puts)
      <4>1. th # "done" => Position + Len(sq) = Len(puts)
        BY <2>3 DEF StreamInv
      <4>2. /\ Len(sq') = Len(sq) - 1 /\ Len(sq) \in Nat
            /\ Len(wire) \in Nat /\ Len(puts) \in Nat
        BY <2>1
      <4> QED
        BY <3>2, <4>1, <4>2
    <3> QED
      BY <2>0, <2>2, <3>1, <3>4, <3>6, <3>7 DEF StreamInv, Due
  <2>4. CASE sender # "get"
    <3>1. UNCHANGED <<sender, item>>
      BY <1>4, <2>4 DEF Get
    <3>2. sender = "done"
      BY <2>0, <2>4 DEF StreamInv, ClientTypes
    <3> QED
      BY <2>0, <2>2, <3>1, <3>2 DEF StreamInv
  <2> QED
    BY <2>3, <2>4
<1>5. CASE Send
  <2>0. sender = "send" /\ UNCHANGED <<main, th, puts, sq, item>>
        /\ Len(wire) \in Nat /\ Len(puts) \in Nat /\ Len(sq) \in Nat
    BY <1>5 DEF Send, ClientTypes
  <2>1. CASE item = Sentinel \/ ws = "down"
    <3>1. sender' = "done" /\ UNCHANGED wire
      BY <1>5, <2>1 DEF Send
    <3> QED
      BY <2>0, <3>1 DEF StreamInv
  <2>2. CASE ~(item = Sentinel \/ ws = "down")
    <3>1. sender' = "get" /\ wire' = Append(wire, item)
      BY <1>5, <2>2 DEF Send
    <3>2. /\ Len(wire') = Len(wire) + 1 /\ wire'[Len(wire) + 1] = item
          /\ \A i \in 1..Len(wire) : wire'[i] = wire[i]
      BY <3>1 DEF ClientTypes
    <3>3. Len(wire) + 1 <= Len(puts) /\ item = puts[Len(wire) + 1]
      BY <2>0, <2>2 DEF StreamInv, Due
    <3>4. /\ Len(wire') <= Len(puts)
          /\ \A i \in 1..Len(wire') : wire'[i] = puts[i]
      BY <2>0, <3>2, <3>3 DEF StreamInv
    <3>5. Position' = Position
      BY <2>0, <3>1, <3>2 DEF Position
    <3>6. main \notin {"idle", "connect"}
      BY <2>0, <3>3 DEF StreamInv
    <3> QED
      BY <2>0, <3>1, <3>4, <3>5, <3>6 DEF StreamInv, Due
  <2> QED
    BY <2>1, <2>2
<1>6. CASE Cancel
  BY <1>6 DEF Cancel, StreamInv
<1>7. CASE Reads
  BY <1>7 DEF Reads, StreamInv, Position, Due
<1>8. CASE /\ UNCHANGED <<th, puts, wire, sq, sender, item, getter>>
           /\ main' \in {"idle", "connect"} => main \in {"idle", "connect"}
  BY <1>8 DEF StreamInv, Position, Due
<1> QED
  BY <1>1, <1>2, <1>3, <1>4, <1>5, <1>6, <1>7, <1>8, ThreadSteps DEF Next,
     AsyncMain, RunChatClient, Server, vars, Start, UiResult, UiTimeout,
     ConnectFails, CloseWebSocket, ExecutorJoined, Receive, ReceiverEnds,
     ServerAuth, ServerChat, ServerForward, LinkBreaks, LinkLoses

\* Answers that could have been given still can be.
LEMMA AnsweredGrows ==
  ASSUME stored \subseteq stored', NEW q \in Seq(Answered)
  PROVE  q \in Seq(Answered')
<1>1. Answered \subseteq Answered'
  BY DEF Answered
<1> QED
  BY <1>1

\* Every step keeps a shown success with a message that the server stored.
LEMMA StoredNext ==
  ASSUME ClientTypes, StreamInv, StoredInv, [Next]_vars
  PROVE  StoredInv'
<1> USE DEF ui, tasks, net, thread, SuccessIsStored
<1> DEFINE Frame == {Auth, 1, Sentinel}
<1>a. mode \in {"single", "chat"} /\ mode' = mode
  BY DEF ClientTypes, Next, AsyncMain, RunChatClient, Server, vars, Start,
     UiResult, UiTimeout, ConnectFails, Connect, Cancel, CloseWebSocket,
     ExecutorJoined, Receive, ReceiverEnds, Get, Send, SendAuth, Token, Await,
     RecvFails, Type, Quit, Listen, ServerAuth, ServerChat, ServerForward,
     LinkBreaks, LinkLoses
<1>b. ASSUME mode = "chat"
      PROVE  StoredInv'
  <2>1. page = "idle" /\ shown' = shown /\ stored \subseteq stored' /\ page' = page
    BY <1>b DEF StoredInv, Next, AsyncMain, RunChatClient, Server, vars, Start,
       UiResult, UiTimeout, ConnectFails, Connect, Cancel, CloseWebSocket,
       ExecutorJoined, Receive, ReceiverEnds, Get, Send, SendAuth, Token, Await,
       RecvFails, Type, Quit, Listen, ServerAuth, ServerChat, ServerForward,
       LinkBreaks, LinkLoses
  <2> QED
    BY <1>a, <1>b, <2>1 DEF StoredInv
<1> SUFFICES ASSUME mode = "single"
             PROVE  StoredInv'
  BY <1>a, <1>b
<1>c. /\ sq \in Seq(Frame) /\ c2s \in Seq({Auth, 1})
      /\ rq \in Seq(Answered) /\ s2c \in Seq(Answered)
  BY DEF StoredInv
<1>d. stored' = stored => Answered' = Answered
  BY DEF Answered
<1>e. /\ rq # << >> => Tail(rq) \in Seq(Answered) /\ Head(rq) \in Answered
      /\ sq # << >> => Tail(sq) \in Seq(Frame) /\ Head(sq) \in Frame
      /\ s2c # << >> => Tail(s2c) \in Seq(Answered) /\ Head(s2c) \in Answered
      /\ c2s # << >> => Tail(c2s) \in Seq({Auth, 1}) /\ Head(c2s) \in {Auth, 1}
      /\ \A answer \in Answered : /\ Append(rq, answer) \in Seq(Answered)
                                  /\ Append(s2c, answer) \in Seq(Answered)
  BY <1>c
<1>1. CASE Returns
  <2>1. PICK times \in {1, 2} :
          Close(rq, times) \/ (rq # << >> /\ Close(Tail(rq), times))
    BY <1>1 DEF Returns
  <2>2. rq' \in Seq(Answered) /\ sq' \in Seq(Frame)
    <3>1. PICK rest \in Seq(Answered) : Close(rest, times)
      BY <1>c, <1>e, <2>1
    <3>2. Sentinel \in Frame
      OBVIOUS
    <3> HIDE DEF Frame
    <3> QED
      BY <1>c, <3>1, <3>2, CloseAdds, Ends
  <2>3. result' = "ok" => 1 \in stored
    <3>1. "ack" \in Answered => 1 \in stored
      BY DEF Answered
    <3> QED
      BY <1>1, <1>e, <3>1 DEF Returns
  <2> QED
    BY <1>1, <1>d, <2>2, <2>3 DEF Returns, StoredInv
<1>2. CASE Sends
  <2>1. PICK frame \in Nat : Put(frame) /\ (frame \in {Auth, 1} \/ th = "input")
    BY <1>2 DEF Sends
  <2>2. sq' \in Seq(Frame)
    <3>1. frame \in Frame
      BY <2>1 DEF StoredInv
    <3> QED
      BY <1>c, <2>1, <3>1 DEF Put
  <2>3. rq' \in Seq(Answered)
    BY <1>2, <1>c, <1>e DEF Sends
  <2> QED
    BY <1>2, <1>d, <2>2, <2>3 DEF Sends, StoredInv
<1>3. CASE Reads
  BY <1>3, <1>d, <1>e DEF Reads, StoredInv
<1>4. CASE Start \/ UiResult \/ UiTimeout \/ ConnectFails \/ Connect
             \/ ExecutorJoined
  BY <1>4, <1>d DEF Start, UiResult, UiTimeout, ConnectFails, Connect,
     ExecutorJoined, StoredInv
<1>5. CASE Cancel \/ Receive \/ ReceiverEnds
  <2>1. /\ s2c' = s2c \/ (s2c # << >> /\ s2c' = Tail(s2c))
        /\ \/ rq' = rq \/ rq' = Append(rq, EOF)
           \/ s2c # << >> /\ rq' = Append(rq, Head(s2c))
    BY <1>5 DEF Cancel, Receive, ReceiverEnds
  <2>2. rq' \in Seq(Answered) /\ s2c' \in Seq(Answered)
    BY <1>c, <1>e, <2>1, Ends
  <2> QED
    BY <1>5, <1>d, <2>2 DEF Cancel, Receive, ReceiverEnds, StoredInv
<1>6. CASE Get
  <2>1. sq' \in Seq(Frame) /\ (sender' = "send" => item' \in Frame)
    BY <1>6, <1>e DEF Get, StoredInv
  <2> QED
    BY <1>6, <1>d, <2>1 DEF Get, StoredInv
<1>7. CASE Send
  <2>1. c2s' = c2s \/ (c2s' = Append(c2s, item) /\ item # Sentinel)
    BY <1>7 DEF Send
  <2>2. item \in Frame
    BY <1>7 DEF Send, StoredInv
  <2>3. c2s' \in Seq({Auth, 1})
    <3>1. item # Sentinel => Append(c2s, item) \in Seq({Auth, 1})
      BY <1>c, <2>2
    <3> QED
      BY <1>c, <2>1, <3>1
  <2>4. sender' # "send"
    BY <1>7 DEF Send
  <2> QED
    BY <1>7, <1>d, <2>3, <2>4 DEF Send, StoredInv
<1>8. CASE CloseWebSocket \/ LinkLoses
  <2>1. << >> \in Seq(Answered) /\ << >> \in Seq({Auth, 1})
    OBVIOUS
  <2> QED
    BY <1>8, <1>d, <2>1 DEF CloseWebSocket, LinkLoses, StoredInv
<1>9. CASE ServerAuth \/ ServerChat \/ ServerForward
  <2>1. /\ stored \subseteq stored'
        /\ UNCHANGED <<mode, page, shown, th, result, sq, rq, sender, item>>
    BY <1>9 DEF ServerAuth, ServerChat, ServerForward
  <2>2. c2s' \in Seq({Auth, 1})
    BY <1>9, <1>c, <1>e DEF ServerAuth, ServerChat, ServerForward
  <2>3. \E answer \in Answered' : Reply(answer)
    <3>1. /\ "token" \in Answered' /\ "error" \in Answered' /\ "forward" \in Answered'
          /\ 1 \in stored' => "ack" \in Answered'
      BY DEF Answered, Answer
    <3>2. CASE ServerChat
      <4>1. Head(c2s) = 1
        BY <1>e, <3>2 DEF ServerChat
      <4> QED
        BY <3>1, <3>2, <4>1 DEF ServerChat
    <3>3. CASE ServerAuth \/ ServerForward
      <4>1. Reply("token") \/ Reply("error") \/ Reply("forward")
        BY <3>3 DEF ServerAuth, ServerForward
      <4> QED
        BY <3>1, <4>1
    <3> QED
      BY <1>9, <3>2, <3>3
  <2>4. rq' \in Seq(Answered') /\ s2c' \in Seq(Answered')
    <3>1. PICK answer \in Answered' : s2c' = s2c \/ s2c' = Append(s2c, answer)
      BY <2>3 DEF Reply
    <3>2. s2c \in Seq(Answered') /\ rq \in Seq(Answered')
      BY <1>c, <2>1, AnsweredGrows
    <3> QED
      BY <2>1, <3>1, <3>2
  <2> QED
    BY <2>1, <2>2, <2>4 DEF StoredInv
<1>10. ASSUME NEW kept \in 0..Len(s2c), LinkBreaks(kept)
       PROVE  StoredInv'
  <2>1. s2c' \in Seq(Answered)
    BY <1>10, <1>c DEF LinkBreaks
  <2> QED
    BY <1>10, <1>d, <2>1 DEF LinkBreaks, StoredInv
<1>11. CASE UNCHANGED vars
  BY <1>11, <1>d DEF vars, StoredInv
<1> QED
  BY <1>1, <1>2, <1>3, <1>4, <1>5, <1>6, <1>7, <1>8, <1>9, <1>10, <1>11,
     ThreadSteps DEF Next, AsyncMain, RunChatClient, Server

-----------------------------------------------------------------------------

\* Types, the stream and what the server has stored, in every state.
THEOREM ClientInvariant == Spec => []ClientInv
<1>1. Init => ClientInv
  <2> SUFFICES ASSUME Init PROVE ClientInv
    OBVIOUS
  <2>1. Sentinel \in Int /\ << >> \in Seq(Int) /\ << >> \in Seq(Answer)
    BY DEF Sentinel
  <2>2. ClientTypes
    BY <2>1 DEF Init, ClientTypes
  <2> QED
    BY <2>2 DEF Init, ClientInv, StreamInv, StoredInv, SuccessIsStored
<1>2. ClientInv /\ [Next]_vars => ClientInv'
  BY TypesNext, StreamNext, StoredNext DEF ClientInv
<1> QED
  BY <1>1, <1>2, PTL DEF Spec

\* Whatever the tasks were doing when the client thread returned and they were
\* cancelled, the frames on the WebSocket are the first ones that the client
\* gave to sendall, in that order.
THEOREM SentStreamIsPrefix == Spec => []SentInOrder
<1>1. ClientInv => SentInOrder
  <2> SUFFICES ASSUME ClientInv PROVE IsPrefix(wire, puts)
    BY DEF SentInOrder
  <2>1. /\ wire \in Seq(Int) /\ puts \in Seq(Int) /\ Len(wire) <= Len(puts)
        /\ \A i \in 1..Len(wire) : wire[i] = puts[i]
    BY DEF ClientInv, ClientTypes, StreamInv
  <2>2. SubSeq(wire, 1, Len(wire)) = SubSeq(puts, 1, Len(wire))
    BY <2>1
  <2> QED
    BY <2>1, <2>2 DEF IsPrefix
<1> QED
  BY <1>1, ClientInvariant, PTL

\* A message that the page shows as sent was accepted by the server: the ack
\* that ends the waiting is of this message, whatever arrived before it, and
\* also if the page had given up and the connection was lost meanwhile.
THEOREM ShownSentIsStored == Spec => []SuccessIsStored
<1>1. ClientInv => SuccessIsStored
  BY DEF ClientInv, StoredInv
<1> QED
  BY <1>1, ClientInvariant, PTL
=============================================================================
