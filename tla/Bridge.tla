------------------------------- MODULE Bridge -------------------------------
(***************************************************************************)
(* One WebSocket connection of backend/server_async.py: the endpoint with  *)
(* its two tasks on the event loop, the WebSocketAdapter's two queues, and *)
(* the handler thread that reads frames with recv_msg and writes them with *)
(* sendall, as other handlers do that forward messages to this client.     *)
(*                                                                         *)
(* The client's bytes are numbered 1, 2, 3, ... as it sends them.  A frame *)
(* is FrameLen consecutive ones: the length prefix, HeaderLen of them, and *)
(* the payload.  A chunk is the content of one WebSocket message or of one *)
(* recv_queue entry; the empty chunk is the end of the stream.  The frames *)
(* the server writes are numbered as send_msg is called for them, and have *)
(* two bytes, which stand for prefix and payload.                          *)
(***************************************************************************)
EXTENDS Naturals, Sequences, SequencesExt

CONSTANTS
  HeaderLen,    \* bytes of a length prefix
  FrameLen,     \* bytes of a frame, with its prefix
  MaxFrames,    \* bound: frames the client sends
  MaxPuts       \* bound: frames put on send_queue

ASSUME BridgeAssumption ==
  /\ HeaderLen \in Nat \ {0}
  /\ FrameLen \in Nat /\ FrameLen > HeaderLen
  /\ MaxFrames \in Nat /\ MaxPuts \in Nat

VARIABLES
  sent,       \* how many bytes the client has sent
  peer,       \* the client: "open", "left" by itself, "closed" by the server
  ws,         \* chunks on their way to the server
  receiver,   \* the task ws_receiver: "running" or "done"
  rq,         \* recv_queue
  buffer,     \* the adapter's buffer
  part,       \* recv_msg: what it has of the current frame
  frames,     \* history: the frames recv_msg returned
  thread,     \* the handler thread: "recv", "handle" or "ended"
  sq,         \* send_queue
  puts,       \* history: how often send_msg was called
  put,        \* history: the bytes of those put on it before close()
  sender,     \* the task ws_sender: "get", "send" or "done"
  item,       \* what it sends
  getter,     \* an executor thread is inside send_queue.get
  wire        \* history: the bytes written to the WebSocket

inbound == <<sent, ws, rq, buffer, part, frames>>
outbound == <<sq, puts, put, item, getter, wire>>
vars == <<inbound, outbound, peer, receiver, thread, sender>>

EOF == << >>      \* b"" on recv_queue
Sentinel == << >> \* b"" on send_queue

Bytes(m, n) == [i \in 1..(n - m + 1) |-> m + i - 1]

OutFrame(k) == Bytes(2 * k - 1, 2 * k)

Init ==
  /\ sent = 0 /\ peer = "open" /\ ws = << >>
  /\ receiver = "running" /\ sender = "get"
  /\ rq = << >> /\ buffer = << >> /\ part = << >> /\ frames = << >>
  /\ thread = "recv"
  /\ sq = << >> /\ puts = 0 /\ put = << >>
  /\ item = Sentinel /\ getter = TRUE /\ wire = << >>

-----------------------------------------------------------------------------
(* The client. *)

\* A WebSocket message with the next n bytes.  (The repository's client sends
\* whole frames; the adapter takes the stream however it is cut.)
ClientSend(n) ==
  /\ peer = "open"
  /\ sent + n <= MaxFrames * FrameLen
  /\ ws' = Append(ws, Bytes(sent + 1, sent + n))
  /\ sent' = sent + n
  /\ UNCHANGED <<rq, buffer, part, frames, outbound, peer, receiver, thread,
                 sender>>

\* The client leaves; the last messages may be lost with it.
ClientLeave(kept) ==
  /\ peer = "open"
  /\ kept <= Len(ws)
  /\ ws' = SubSeq(ws, 1, kept)
  /\ peer' = "left"
  /\ UNCHANGED <<sent, rq, buffer, part, frames, outbound, receiver, thread,
                 sender>>

-----------------------------------------------------------------------------
(* websocket_endpoint. *)

Receive ==
  /\ receiver = "running" /\ ws # << >>
  /\ rq' = Append(rq, Head(ws))
  /\ ws' = Tail(ws)
  /\ UNCHANGED <<sent, buffer, part, frames, outbound, peer, receiver, thread,
                 sender>>

\* Mutant: no finally clause in ws_receiver.
ReceiverEndsSilently ==
  /\ receiver = "running"
  /\ \/ peer # "open" /\ ws = << >>
     \/ sender = "done"
  /\ receiver' = "done"
  /\ UNCHANGED <<inbound, outbound, peer, thread, sender>>

\* WebSocketDisconnect, or cancelled because the sender has finished: either
\* way finally signals the end of the stream.
ReceiverEnds ==
  /\ receiver = "running"
  /\ \/ peer # "open" /\ ws = << >>
     \/ sender = "done"
  /\ receiver' = "done"
  /\ rq' = Append(rq, EOF)
  /\ UNCHANGED <<sent, ws, buffer, part, frames, outbound, peer, thread,
                  sender>>

\* The executor thread gets something.  If the task was cancelled meanwhile
\* nobody awaits the result, and it is lost.
Get ==
  /\ getter /\ sq # << >>
  /\ sq' = Tail(sq)
  /\ getter' = FALSE
  /\ IF sender = "get" THEN sender' = "send" /\ item' = Head(sq)
                       ELSE UNCHANGED <<sender, item>>
  /\ UNCHANGED <<inbound, puts, put, wire, peer, receiver, thread>>

\* Mutant: the loop leaves on the first item after the handler has ended.
SendEager ==
  /\ sender = "send"
  /\ IF item = Sentinel \/ thread = "ended"
     THEN sender' = "done" /\ UNCHANGED <<getter, wire>>
     ELSE sender' = "get" /\ getter' = TRUE /\ wire' = wire \o item
  /\ UNCHANGED <<inbound, sq, puts, put, item, peer, receiver, thread>>

\* The sender's turn: the sentinel ends it.
Send ==
  /\ sender = "send"
  /\ IF item = Sentinel
     THEN sender' = "done" /\ UNCHANGED <<getter, wire>>
     ELSE sender' = "get" /\ getter' = TRUE /\ wire' = wire \o item
  /\ UNCHANGED <<inbound, sq, puts, put, item, peer, receiver, thread>>

\* send_bytes raises, or the task is cancelled because the receiver has
\* finished.  A thread that is inside get stays there.
SenderEnds ==
  /\ \/ sender = "send" /\ peer = "left"
     \/ sender \in {"get", "send"} /\ receiver = "done"
  /\ sender' = "done"
  /\ UNCHANGED <<inbound, outbound, peer, receiver, thread>>

\* Both tasks are over: the endpoint returns and the WebSocket is closed.
EndpointReturns ==
  /\ receiver = "done" /\ sender = "done" /\ peer = "open"
  /\ peer' = "closed"
  /\ UNCHANGED <<inbound, outbound, receiver, thread, sender>>

-----------------------------------------------------------------------------
(* The handler thread: recv_msg over WebSocketAdapter.recv. *)

\* What _recv_exact still asks recv for: of the prefix, then of the payload.
Needed == (IF Len(part) < HeaderLen THEN HeaderLen ELSE FrameLen) - Len(part)

\* recv takes another chunk off recv_queue.
RecvFill ==
  /\ thread = "recv" /\ Len(buffer) < Needed
  /\ rq # << >> /\ Head(rq) # EOF
  /\ buffer' = buffer \o Head(rq)
  /\ rq' = Tail(rq)
  /\ UNCHANGED <<sent, ws, part, frames, outbound, peer, receiver, thread,
                 sender>>

\* Mutant: recv returns the whole buffer.
RecvTakeAll ==
  /\ thread = "recv" /\ Len(buffer) >= Needed
  /\ part' = part \o buffer
  /\ buffer' = << >>
  /\ IF Len(part') >= FrameLen THEN thread' = "handle" ELSE UNCHANGED thread
  /\ UNCHANGED <<sent, ws, rq, frames, outbound, peer, receiver, sender>>

\* Mutant: recv does not cut what it returns off its buffer.
RecvTakeKeeps ==
  /\ thread = "recv" /\ Len(buffer) >= Needed
  /\ part' = part \o SubSeq(buffer, 1, Needed)
  /\ IF Len(part') = FrameLen THEN thread' = "handle" ELSE UNCHANGED thread
  /\ UNCHANGED <<sent, ws, rq, buffer, frames, outbound, peer, receiver,
                  sender>>

\* recv returns as much as it was asked for; the last byte completes recv_msg.
RecvTake ==
  /\ thread = "recv" /\ Len(buffer) >= Needed
  /\ part' = part \o SubSeq(buffer, 1, Needed)
  /\ buffer' = SubSeq(buffer, Needed + 1, Len(buffer))
  /\ IF Len(part') = FrameLen THEN thread' = "handle" ELSE UNCHANGED thread
  /\ UNCHANGED <<sent, ws, rq, frames, outbound, peer, receiver, sender>>

\* close() in handle_client's finally clause, when `rest` is on recv_queue:
\* the end of both streams.
Close(rest) ==
  /\ thread' = "ended"
  /\ rq' = Append(rest, EOF)
  /\ sq' = Append(sq, Sentinel)

\* recv finds the end of the stream: with an empty buffer it says so and
\* recv_msg raises, otherwise it returns what it has and is called again.
RecvEnd ==
  /\ thread = "recv" /\ Len(buffer) < Needed
  /\ rq # << >> /\ Head(rq) = EOF
  /\ IF buffer = << >>
     THEN Close(Tail(rq)) /\ UNCHANGED <<buffer, part>>
     ELSE /\ part' = part \o buffer /\ buffer' = << >>
          /\ rq' = Tail(rq) /\ UNCHANGED <<thread, sq>>
  /\ UNCHANGED <<sent, ws, frames, puts, put, item, getter, wire, peer,
                  receiver,
                 sender>>

\* send_msg: prefix and data in one call of sendall, and that is one put.
send_msg ==
  /\ puts < MaxPuts
  /\ puts' = puts + 1
  /\ sq' = Append(sq, OutFrame(puts'))

\* Mutant: send_msg calls sendall for the prefix, and again for the data.
AnswerInTwo ==
  /\ \/ /\ thread = "handle" /\ puts < MaxPuts
        /\ thread' = "data" /\ puts' = puts + 1
        /\ put' = put \o OutFrame(puts')
        /\ frames' = Append(frames, part) /\ part' = <<2 * puts'>>
        /\ sq' = Append(sq, <<2 * puts' - 1>>)
     \/ /\ thread = "data"
        /\ thread' = "recv"
        /\ sq' = Append(sq, part) /\ part' = << >>
        /\ UNCHANGED <<frames, puts, put>>
  /\ UNCHANGED <<sent, ws, rq, buffer, item, getter, wire, peer, receiver,
                  sender>>

\* handle_client deals with the frame, answers it and goes on, ...
Answer ==
  /\ thread = "handle"
  /\ thread' = "recv"
  /\ frames' = Append(frames, part) /\ part' = << >>
  /\ send_msg
  /\ put' = put \o OutFrame(puts')
  /\ UNCHANGED <<sent, ws, rq, buffer, item, getter, wire, peer, receiver,
                  sender>>

\* Mutant: close() without a sentinel for send_queue.
GiveUpQuietly ==
  /\ thread = "handle"
  /\ thread' = "ended"
  /\ frames' = Append(frames, part) /\ part' = << >>
  /\ rq' = Append(rq, EOF)
  /\ UNCHANGED <<sent, ws, buffer, sq, puts, put, item, getter, wire, peer,
                 receiver, sender>>

\* ... or gives up on it: a refused login, a payload it cannot decrypt.
GiveUp ==
  /\ thread = "handle"
  /\ Close(rq)
  /\ frames' = Append(frames, part) /\ part' = << >>
  /\ UNCHANGED <<sent, ws, buffer, puts, put, item, getter, wire, peer,
                  receiver,
                 sender>>

\* Another handler forwards a message, also to a connection that has ended.
Forward ==
  /\ send_msg
  /\ put' = IF thread = "ended" THEN put ELSE put \o OutFrame(puts')
  /\ UNCHANGED <<inbound, item, getter, wire, peer, receiver, thread, sender>>

-----------------------------------------------------------------------------
EventLoop ==
  Receive \/ ReceiverEnds \/ Get \/ Send \/ SenderEnds \/ EndpointReturns

Handler == RecvFill \/ RecvTake \/ RecvEnd \/ Answer \/ GiveUp

Next ==
  \/ \E n \in 1..FrameLen : ClientSend(n)
  \/ \E kept \in 0..Len(ws) : ClientLeave(kept)
  \/ EventLoop \/ Handler \/ Forward

Spec == Init /\ [][Next]_vars

\* The event loop runs its tasks and the operating system the threads.
FairSpec ==
  /\ Spec
  /\ WF_vars(Receive) /\ WF_vars(ReceiverEnds) /\ WF_vars(Get) /\ WF_vars(Send)
  /\ WF_vars(SenderEnds) /\ WF_vars(EndpointReturns)
  /\ WF_vars(Handler)

-----------------------------------------------------------------------------

\* What has arrived and recv_msg has not returned yet.
Arrived == part \o buffer \o FlattenSeq(rq)

\* However the client's bytes were cut into WebSocket messages, what recv_msg
\* has returned, holds and is still to get are those bytes, each once and in
\* order; nothing is missing while the client is there.
StreamIntact ==
  LET all == FlattenSeq(frames) \o Arrived \o FlattenSeq(ws)
  IN  /\ all = Bytes(1, Len(all))
      /\ peer = "open" => Len(all) = sent

\* recv_msg returns whole frames, never the tail of one with the head of the
\* next.
FramesWhole ==
  \A i \in 1..Len(frames) :
    frames[i] = Bytes((i - 1) * FrameLen + 1, i * FrameLen)

\* The client gets the server's frames whole, although two handlers may be in
\* send_msg for it at once, in the order in which they were put on the queue by
\* whichever thread, none twice, and none from behind close().
WireInOrder == IsPrefix(wire, put)

\* What was put on the queue before close() is written, unless the client left:
\* a refusal reaches the client although the handler ends right behind it.
AnswersSent == thread = "ended" ~> IsPrefix(put, wire) \/ peer = "left"

\* An executor thread is given back when the handler has ended, also one that a
\* cancelled sender left inside get.
GetterReleased == thread = "ended" ~> ~getter

\* When the client has left, or the sender has failed, the receiver ends, and
\* the handler with it if the last frame that arrived is whole, in however many
\* chunks.  (In the middle of a frame recv consumes the only end of the stream
\* together with what it has, is called again, and blocks.)
LeftEnds ==
  /\ peer = "left" ~> receiver = "done"
  /\ receiver = "done" /\ Len(Arrived) % FrameLen = 0 ~> thread = "ended"
=============================================================================
