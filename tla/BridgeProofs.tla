---------------------------- MODULE BridgeProofs ----------------------------
(***************************************************************************)
(* Proofs about Bridge, for every length of frame and of length prefix and *)
(* every number of frames: recv_msg returns the client's frames whole, the *)
(* client gets those of the server whole and in order, and no byte of the  *)
(* client's stream is doubled or out of place, nor lost while it is there. *)
(***************************************************************************)
EXTENDS Bridge, TLAPS, SequenceTheorems, WellFoundedInduction

\* The types of the state.
BridgeTypes ==
  /\ sent \in Nat /\ peer \in {"open", "left", "closed"}
  /\ ws \in Seq(Seq(Nat)) /\ rq \in Seq(Seq(Nat))
  /\ receiver \in {"running", "done"}
  /\ buffer \in Seq(Nat) /\ part \in Seq(Nat) /\ frames \in Seq(Seq(Nat))
  /\ thread \in {"recv", "handle", "ended"}
  /\ sq \in Seq(Seq(Nat)) /\ puts \in Nat
  /\ put \in Seq(Nat) /\ wire \in Seq(Nat) /\ item \in Seq(Nat)
  /\ sender \in {"get", "send", "done"} /\ getter \in BOOLEAN

\* The bytes of a chunk are the ones behind the m-th.
Follows(chunk, m) == \A k \in 1..Len(chunk) : chunk[k] = m + k

-----------------------------------------------------------------------------
(* The invariant of the way out. *)

\* The number of the last byte before those on send_queue.
Position == Len(wire) + (IF sender = "send" THEN 2 ELSE 0)

\* What send_queue gives next, when m bytes came before it: the next frame as
\* long as there is one from before close(), then the sentinel.
Due(m, frame) ==
  /\ m + 2 <= Len(put) => Len(frame) = 2 /\ Follows(frame, m)
  /\ m = Len(put) => frame = Sentinel

\* Wire and put are the bytes 1, 2, 3, ..., and while the sender is at work the
\* frame it holds and those on send_queue are what is between them.
OutboundInv ==
  /\ Follows(wire, 0) /\ Follows(put, 0)
  /\ \E n \in Nat : Len(wire) = 2 * n
  /\ \E n \in Nat : Len(put) = 2 * n
  /\ Len(wire) <= Len(put)
  /\ thread # "ended" => Len(put) = 2 * puts
  /\ sender = "send" => ~getter /\ Due(Len(wire), item)
  /\ sender # "done" =>
       /\ \A i \in 1..Len(sq) : Due(Position + 2 * (i - 1), sq[i])
       /\ IF thread = "ended" THEN Position + 2 * Len(sq) > Len(put)
                              ELSE Position + 2 * Len(sq) = Len(put)

-----------------------------------------------------------------------------
(* The invariant of the way in. *)

\* The chunks are a stretch of the stream that begins behind its m-th byte.
Chained(chunks, m) ==
  \A i \in 1..Len(chunks) :
    Follows(chunks[i], IF i = 1 THEN m ELSE Last(chunks[i - 1]))

\* The number of the last byte of such a stretch.
EndOf(chunks, m) == IF chunks = << >> THEN m ELSE Last(Last(chunks))

\* How many bytes recv has taken off recv_queue.
Taken == Len(frames) * FrameLen + Len(part) + Len(buffer)

\* What recv_msg has of the current frame, what recv keeps for the next and
\* what waits on recv_queue follow the frames that were returned; only the
\* receiver's last entry is empty, and behind recv_queue is what is on its way.
InboundInv ==
  /\ FramesWhole
  /\ thread # "ended" =>
       /\ Follows(part, Len(frames) * FrameLen)
       /\ Follows(buffer, Len(frames) * FrameLen + Len(part))
       /\ IF thread = "handle" THEN Len(part) = FrameLen ELSE Len(part) < FrameLen
       /\ Chained(rq, Taken)
       /\ \A i \in 1..Len(rq) :
            rq[i] = EOF => receiver = "done" /\ i = Len(rq)
       /\ receiver = "running" =>
            /\ Chained(ws, EndOf(rq, Taken))
            /\ \A i \in 1..Len(ws) : ws[i] # << >>
            /\ peer = "open" => EndOf(ws, EndOf(rq, Taken)) = sent

BridgeInv == BridgeTypes /\ OutboundInv /\ InboundInv

-----------------------------------------------------------------------------
(* Facts about stretches of the stream. *)

\* Bytes(m + 1, m + n) is the stretch of n bytes behind the m-th.
LEMMA BytesFollow ==
  ASSUME NEW m \in Nat, NEW n \in Nat
  PROVE  /\ Bytes(m + 1, m + n) \in Seq(Nat)
         /\ Len(Bytes(m + 1, m + n)) = n
         /\ Follows(Bytes(m + 1, m + n), m)
<1>1. Bytes(m + 1, m + n) = [i \in 1..n |-> m + i]
  <2>1. (m + n) - (m + 1) + 1 = n
    OBVIOUS
  <2>2. \A i \in 1..n : (m + 1) + i - 1 = m + i
    OBVIOUS
  <2> QED
    BY <2>1, <2>2 DEF Bytes
<1>2. [i \in 1..n |-> m + i] \in Seq(Nat) /\ Len([i \in 1..n |-> m + i]) = n
  OBVIOUS
<1> QED
  BY <1>1, <1>2 DEF Follows

\* The k-th frame of the server, in terms of the bytes before it.
LEMMA OutFrameFollows ==
  ASSUME NEW k \in Nat
  PROVE  /\ OutFrame(k + 1) \in Seq(Nat) /\ Len(OutFrame(k + 1)) = 2
         /\ Follows(OutFrame(k + 1), 2 * k)
<1>1. OutFrame(k + 1) = Bytes(2 * k + 1, 2 * k + 2)
  <2>1. 2 * (k + 1) - 1 = 2 * k + 1 /\ 2 * (k + 1) = 2 * k + 2
    OBVIOUS
  <2> QED
    BY <2>1 DEF OutFrame
<1>2. 2 * k \in Nat
  OBVIOUS
<1> QED
  BY <1>1, <1>2, BytesFollow

\* Two adjacent stretches make one (recv's buffer += chunk).
LEMMA ConcatFollows ==
  ASSUME NEW s \in Seq(Nat), NEW t \in Seq(Nat), NEW m \in Nat,
         Follows(s, m), Follows(t, m + Len(s))
  PROVE  /\ s \o t \in Seq(Nat) /\ Len(s \o t) = Len(s) + Len(t)
         /\ Follows(s \o t, m)
<1>1. /\ s \o t \in Seq(Nat) /\ Len(s \o t) = Len(s) + Len(t)
      /\ \A i \in 1..Len(s \o t) :
           (s \o t)[i] = IF i <= Len(s) THEN s[i] ELSE t[i - Len(s)]
  OBVIOUS
<1>2. ASSUME NEW i \in 1..Len(s \o t)
      PROVE  (s \o t)[i] = m + i
  <2>1. CASE i <= Len(s)
    BY <1>1, <2>1 DEF Follows
  <2>2. CASE ~(i <= Len(s))
    <3>1. i - Len(s) \in 1..Len(t) /\ m + Len(s) + (i - Len(s)) = m + i
      BY <1>1, <2>2
    <3> QED
      BY <1>1, <2>2, <3>1 DEF Follows
  <2> QED
    BY <2>1, <2>2
<1> QED
  BY <1>1, <1>2 DEF Follows

\* Cutting a stretch gives two adjacent ones (recv's buffer[:n], buffer[n:]).
LEMMA CutFollows ==
  ASSUME NEW s \in Seq(Nat), NEW n \in 0..Len(s), NEW m \in Nat, Follows(s, m)
  PROVE  /\ SubSeq(s, 1, n) \in Seq(Nat) /\ SubSeq(s, n + 1, Len(s)) \in Seq(Nat)
         /\ Len(SubSeq(s, 1, n)) = n /\ Follows(SubSeq(s, 1, n), m)
         /\ Len(SubSeq(s, n + 1, Len(s))) = Len(s) - n
         /\ Follows(SubSeq(s, n + 1, Len(s)), m + n)
<1>1. \A i \in 1..Len(s) : s[i] \in Nat
  OBVIOUS
<1>2. /\ SubSeq(s, 1, n) \in Seq(Nat) /\ Len(SubSeq(s, 1, n)) = n
      /\ \A i \in 1..n : SubSeq(s, 1, n)[i] = s[i]
  <2>1. \A i \in 1..n : s[i] \in Nat
    BY <1>1
  <2>2. \A i \in 1..n : 1 + i - 1 = i
    OBVIOUS
  <2> QED
    BY <2>1, <2>2, SubSeqProperties
<1>3. /\ SubSeq(s, n + 1, Len(s)) \in Seq(Nat)
      /\ Len(SubSeq(s, n + 1, Len(s))) = Len(s) - n
      /\ \A i \in 1..(Len(s) - n) : SubSeq(s, n + 1, Len(s))[i] = s[n + i]
  <2> DEFINE t == SubSeq(s, n + 1, Len(s))
  <2>1. \A i \in (n + 1)..Len(s) : s[i] \in Nat
    BY <1>1
  <2>2. n + 1 \in Int /\ Len(s) \in Int
    OBVIOUS
  <2>3. /\ t \in Seq(Nat)
        /\ Len(t) = IF n + 1 <= Len(s) THEN Len(s) - (n + 1) + 1 ELSE 0
        /\ \A i \in 1..(Len(s) - (n + 1) + 1) : t[i] = s[n + 1 + i - 1]
    BY <2>1, <2>2, SubSeqProperties
  <2>4. /\ Len(s) - (n + 1) + 1 = Len(s) - n
        /\ \A i \in 1..(Len(s) - n) : n + 1 + i - 1 = n + i
    OBVIOUS
  <2> HIDE DEF t
  <2>5. Len(t) = Len(s) - n
    BY <2>3, Len(s) \in Nat
  <2>6. ASSUME NEW i \in 1..(Len(s) - n)
        PROVE  t[i] = s[n + i]
    <3>1. t[i] = s[n + 1 + i - 1] /\ n + 1 + i - 1 = n + i
      BY <2>3, <2>4
    <3> QED
      BY <3>1
  <2> QED
    BY <2>3, <2>5, <2>6 DEF t
<1>4. \A i \in 1..(Len(s) - n) : s[n + i] = (m + n) + i
  BY DEF Follows
<1> QED
  BY <1>2, <1>3, <1>4 DEF Follows

\* A stretch is determined by where it begins and its length.
LEMMA FollowsIsBytes ==
  ASSUME NEW s \in Seq(Nat), NEW m \in Nat, Follows(s, m)
  PROVE  s = Bytes(m + 1, m + Len(s))
<1> DEFINE b == Bytes(m + 1, m + Len(s))
<1>1. b \in Seq(Nat) /\ Len(b) = Len(s) /\ Follows(b, m)
  BY BytesFollow
<1>2. \A i \in 1..Len(s) : s[i] = b[i]
  BY <1>1 DEF Follows
<1> HIDE DEF b
<1> QED
  BY <1>1, <1>2, SeqEqual DEF b

-----------------------------------------------------------------------------
(* The way out. *)

\* recv is asked for at least one byte, up to the end of the prefix or of the
\* frame.
LEMMA NeededBytes ==
  ASSUME BridgeTypes, InboundInv, thread = "recv"
  PROVE  /\ Needed \in Nat \ {0} /\ Len(part) + Needed <= FrameLen
         /\ Len(part) \in Nat /\ Len(buffer) \in Nat
BY BridgeAssumption DEF BridgeTypes, InboundInv, Needed

\* The lengths that the positions are computed from are numbers.
LEMMA Numbers ==
  ASSUME BridgeTypes
  PROVE  /\ Len(part) \in Nat /\ Len(buffer) \in Nat /\ Len(frames) \in Nat
         /\ Len(frames) * FrameLen \in Nat /\ FrameLen \in Nat
         /\ (Len(frames) + 1) * FrameLen = Len(frames) * FrameLen + FrameLen
<1>1. /\ Len(part) \in Nat /\ Len(buffer) \in Nat /\ Len(frames) \in Nat
      /\ FrameLen \in Nat
  BY BridgeAssumption DEF BridgeTypes
<1>2. \A n \in Nat : n * FrameLen \in Nat /\ (n + 1) * FrameLen = n * FrameLen + FrameLen
  BY <1>1
<1> QED
  BY <1>1, <1>2

\* Every step of the bridge keeps the types of its queues and locals.
LEMMA TypesNext ==
  ASSUME BridgeTypes, InboundInv, [Next]_vars
  PROVE  BridgeTypes'
<1> USE BridgeAssumption DEF inbound, outbound
<1> DEFINE Chunk == Seq(Nat)
<1>0. /\ << >> \in Chunk /\ EOF \in Chunk /\ Sentinel \in Chunk
      /\ OutFrame(puts + 1) \in Chunk
  BY OutFrameFollows DEF EOF, Sentinel, BridgeTypes
<1>a. /\ ws \in Seq(Chunk) /\ rq \in Seq(Chunk) /\ sq \in Seq(Chunk)
      /\ frames \in Seq(Chunk) /\ part \in Chunk /\ buffer \in Chunk
      /\ item \in Chunk /\ wire \in Chunk /\ put \in Chunk
  BY DEF BridgeTypes
<1>b. \A s \in Chunk : \A t \in Chunk : s \o t \in Chunk
  OBVIOUS
<1> HIDE DEF Chunk
<1>c. /\ ws # << >> => Head(ws) \in Chunk /\ Tail(ws) \in Seq(Chunk)
      /\ rq # << >> => Head(rq) \in Chunk /\ Tail(rq) \in Seq(Chunk)
      /\ sq # << >> => Head(sq) \in Chunk /\ Tail(sq) \in Seq(Chunk)
      /\ \A c \in Chunk : /\ Append(ws, c) \in Seq(Chunk)
                          /\ Append(rq, c) \in Seq(Chunk)
                          /\ Append(sq, c) \in Seq(Chunk)
                          /\ Append(frames, c) \in Seq(Chunk)
                          /\ \A q \in Seq(Chunk) : Append(q, c) \in Seq(Chunk)
  BY <1>a
<1> SUFFICES /\ sent' \in Nat /\ peer' \in {"open", "left", "closed"}
             /\ ws' \in Seq(Chunk) /\ rq' \in Seq(Chunk)
             /\ receiver' \in {"running", "done"}
             /\ buffer' \in Chunk /\ part' \in Chunk /\ frames' \in Seq(Chunk)
             /\ thread' \in {"recv", "handle", "ended"}
             /\ sq' \in Seq(Chunk) /\ puts' \in Nat
             /\ put' \in Chunk /\ wire' \in Chunk /\ item' \in Chunk
             /\ sender' \in {"get", "send", "done"} /\ getter' \in BOOLEAN
  BY DEF BridgeTypes, Chunk
<1>d. /\ sent \in Nat /\ peer \in {"open", "left", "closed"}
      /\ receiver \in {"running", "done"} /\ puts \in Nat
      /\ thread \in {"recv", "handle", "ended"}
      /\ sender \in {"get", "send", "done"} /\ getter \in BOOLEAN
  BY DEF BridgeTypes
<1>1. ASSUME NEW n \in 1..FrameLen, ClientSend(n)
      PROVE  ws' \in Seq(Chunk) /\ sent' \in Nat
  <2>0. n \in Nat
    OBVIOUS
  <2>1. Bytes(sent + 1, sent + n) \in Chunk
    BY <1>d, <2>0, BytesFollow DEF Chunk
  <2> QED
    BY <1>1, <1>c, <1>d, <2>0, <2>1 DEF ClientSend
<1>2. ASSUME NEW kept \in 0..Len(ws), ClientLeave(kept)
      PROVE  ws' \in Seq(Chunk)
  BY <1>2, <1>a DEF ClientLeave
<1>3. RecvTake => part' \in Chunk /\ buffer' \in Chunk
  <2>1. SUFFICES ASSUME RecvTake
                 PROVE  part' \in Chunk /\ buffer' \in Chunk
    OBVIOUS
  <2>2. Needed \in Nat \ {0} /\ Needed <= Len(buffer) /\ Len(buffer) \in Nat
    BY <2>1, NeededBytes DEF RecvTake
  <2>3. /\ SubSeq(buffer, 1, Needed) \in Chunk
        /\ SubSeq(buffer, Needed + 1, Len(buffer)) \in Chunk
    <3>0. PICK b \in Nat : b = Len(frames) * FrameLen
      BY Numbers
    <3>1. thread # "ended" /\ Len(part) \in Nat
      BY <2>1, Numbers DEF RecvTake
    <3>2. PICK m \in Nat : m = Len(frames) * FrameLen + Len(part)
      BY <3>0, <3>1
    <3>3. Follows(buffer, m) /\ buffer \in Seq(Nat)
      BY <1>a, <3>1, <3>2 DEF InboundInv, Chunk
    <3>4. PICK n \in 0..Len(buffer) : n = Needed
      BY <2>2
    <3>5. /\ SubSeq(buffer, 1, n) \in Seq(Nat)
          /\ SubSeq(buffer, n + 1, Len(buffer)) \in Seq(Nat)
      BY <3>3, CutFollows
    <3> QED
      BY <3>4, <3>5 DEF Chunk
  <2> QED
    BY <1>a, <1>b, <2>1, <2>3 DEF RecvTake
<1>4. CASE \E n \in 1..FrameLen : ClientSend(n)
  BY <1>4, <1>1, <1>a, <1>d DEF ClientSend
<1>5. CASE \E kept \in 0..Len(ws) : ClientLeave(kept)
  BY <1>5, <1>2, <1>a, <1>d DEF ClientLeave
<1>6. CASE Receive \/ ReceiverEnds
  BY <1>6, <1>0, <1>a, <1>c, <1>d DEF Receive, ReceiverEnds
<1>7. CASE Get
  BY <1>7, <1>0, <1>a, <1>c, <1>d DEF Get
<1>8. CASE Send
  BY <1>8, <1>a, <1>b, <1>d DEF Send
<1>9. CASE SenderEnds \/ EndpointReturns \/ UNCHANGED vars
  BY <1>9, <1>a, <1>d DEF SenderEnds, EndpointReturns, vars
<1>10. CASE RecvFill
  BY <1>10, <1>a, <1>b, <1>c, <1>d DEF RecvFill
<1>11. CASE RecvTake
  BY <1>11, <1>3, <1>a, <1>d DEF RecvTake
<1>12. CASE RecvEnd
  <2>1. CASE buffer = << >>
    BY <1>12, <2>1, <1>0, <1>a, <1>c, <1>d DEF RecvEnd, Close
  <2>2. CASE buffer # << >>
    BY <1>12, <2>2, <1>0, <1>a, <1>b, <1>c, <1>d DEF RecvEnd
  <2> QED
    BY <2>1, <2>2
<1>13. CASE Answer \/ Forward
  <2>1. puts' = puts + 1 /\ sq' = Append(sq, OutFrame(puts + 1))
    BY <1>13 DEF Answer, Forward, send_msg
  <2>2. put' = put \/ put' = put \o OutFrame(puts + 1)
    BY <1>13, <2>1 DEF Answer, Forward
  <2>3. puts' \in Nat /\ sq' \in Seq(Chunk)
    BY <1>0, <1>c, <1>d, <2>1
  <2>4. put' \in Chunk
    BY <1>0, <1>a, <1>b, <2>2
  <2> QED
    BY <1>13, <1>0, <1>a, <1>c, <1>d, <2>3, <2>4 DEF Answer, Forward
<1>14. CASE GiveUp
  BY <1>14, <1>0, <1>a, <1>c, <1>d DEF GiveUp, Close
<1> QED
  BY <1>4, <1>5, <1>6, <1>7, <1>8, <1>9, <1>10, <1>11, <1>12, <1>13, <1>14
  DEF Next, EventLoop, Handler

\* The handler thread ends, and the sentinel is put on send_queue.
Closes ==
  /\ thread # "ended" /\ thread' = "ended"
  /\ sq' = Append(sq, Sentinel)
  /\ UNCHANGED <<puts, put, item, getter, wire, sender>>

\* A frame is put on send_queue, by this handler or by another.
Puts ==
  /\ thread' = "ended" <=> thread = "ended"
  /\ puts' = puts + 1 /\ sq' = Append(sq, OutFrame(puts + 1))
  /\ put' = IF thread = "ended" THEN put ELSE put \o OutFrame(puts + 1)
  /\ UNCHANGED <<item, getter, wire, sender>>

\* The five ways a step touches send_queue and the socket; no other step does.
LEMMA OutboundSteps ==
  ASSUME [Next]_vars
  PROVE  \/ Closes \/ Puts \/ Get \/ Send \/ SenderEnds
         \/ /\ UNCHANGED <<outbound, sender>>
            /\ thread' = "ended" <=> thread = "ended"
<1> USE DEF inbound, outbound
<1>1. CASE RecvEnd
  <2>1. CASE buffer = << >>
    BY <1>1, <2>1 DEF RecvEnd, Close, Closes
  <2>2. CASE buffer # << >>
    BY <1>1, <2>2 DEF RecvEnd
  <2> QED
    BY <2>1, <2>2
<1>2. CASE GiveUp
  BY <1>2 DEF GiveUp, Close, Closes
<1>3. CASE Answer \/ Forward
  <2>1. puts' = puts + 1 /\ sq' = Append(sq, OutFrame(puts + 1))
    BY <1>3 DEF Answer, Forward, send_msg
  <2> QED
    BY <1>3, <2>1 DEF Answer, Forward, Puts
<1>4. CASE RecvTake
  BY <1>4 DEF RecvTake
<1> QED
  BY <1>1, <1>2, <1>3, <1>4 DEF Next, EventLoop, Handler, vars, ClientSend,
     ClientLeave, Receive, ReceiverEnds, EndpointReturns, RecvFill

\* Every step keeps the frames on the way out in the order sendall put them.
LEMMA OutboundNext ==
  ASSUME BridgeTypes, OutboundInv, [Next]_vars
  PROVE  OutboundInv'
<1>0. /\ Len(wire) \in Nat /\ Len(put) \in Nat /\ Len(sq) \in Nat
      /\ puts \in Nat /\ Position \in Nat
      /\ wire \in Seq(Nat) /\ put \in Seq(Nat) /\ sq \in Seq(Seq(Nat))
      /\ item \in Seq(Nat)
  BY DEF BridgeTypes, Position
<1>a. PICK w \in Nat, p \in Nat : Len(wire) = 2 * w /\ Len(put) = 2 * p
  BY DEF OutboundInv
<1>1. CASE Closes
  <2>0. /\ thread # "ended" /\ thread' = "ended" /\ sq' = Append(sq, Sentinel)
        /\ UNCHANGED <<puts, put, item, getter, wire, sender>>
    BY <1>1 DEF Closes
  <2>1. /\ Len(sq') = Len(sq) + 1 /\ sq'[Len(sq) + 1] = Sentinel
        /\ \A i \in 1..Len(sq) : sq'[i] = sq[i]
    BY <1>0, <2>0
  <2>2. ASSUME sender # "done"
        PROVE  /\ \A i \in 1..Len(sq') : Due(Position + 2 * (i - 1), sq'[i])
               /\ Position + 2 * Len(sq') > Len(put)
    <3>1. Position + 2 * Len(sq) = Len(put)
      BY <2>0, <2>2 DEF OutboundInv
    <3>2. ASSUME NEW i \in 1..Len(sq')
          PROVE  Due(Position + 2 * (i - 1), sq'[i])
      <4>1. CASE i \in 1..Len(sq)
        BY <2>1, <2>2, <4>1 DEF OutboundInv
      <4>2. CASE i = Len(sq) + 1
        BY <1>0, <2>1, <3>1, <4>2 DEF Due
      <4> QED
        BY <1>0, <2>1, <4>1, <4>2
    <3> QED
      BY <1>0, <2>1, <3>1, <3>2
  <2>3. Position' = Position /\ \A m, frame : Due(m, frame)' <=> Due(m, frame)
    BY <2>0 DEF Position, Due
  <2>4. sender' # "done" =>
          \A i \in 1..Len(sq') : Due(Position + 2 * (i - 1), sq[i])'
    BY <2>0, <2>2, <2>3 DEF Due
  <2>5. sender' # "done" => Position' + 2 * Len(sq') > Len(put')
    BY <2>0, <2>2, <2>3
  <2>6. sender' = "send" => ~getter' /\ Due(Len(wire), item)'
    BY <2>0 DEF OutboundInv, Due
  <2> QED
    BY <2>0, <2>4, <2>5, <2>6 DEF OutboundInv
<1>2. CASE Puts /\ thread # "ended"
  <2> DEFINE new == OutFrame(puts + 1)
  <2>0. /\ thread' # "ended" /\ sq' = Append(sq, new) /\ put' = put \o new
        /\ puts' = puts + 1 /\ UNCHANGED <<item, getter, wire, sender>>
    BY <1>2 DEF Puts
  <2>1. /\ new \in Seq(Nat) /\ Len(new) = 2 /\ Follows(new, 2 * puts)
        /\ Len(put) = 2 * puts
    BY <1>0, <1>2, OutFrameFollows DEF OutboundInv
  <2> HIDE DEF new
  <2>2. /\ Len(sq') = Len(sq) + 1 /\ sq'[Len(sq) + 1] = new
        /\ \A i \in 1..Len(sq) : sq'[i] = sq[i]
    BY <1>0, <2>0, <2>1
  <2>3. Len(put') = Len(put) + 2 /\ Follows(put', 0)
    <3>1. Follows(put, 0)
      BY DEF OutboundInv
    <3>2. Follows(new, 0 + Len(put)) /\ 0 \in Nat
      BY <1>0, <2>1
    <3> QED
      BY <1>0, <2>0, <2>1, <3>1, <3>2, ConcatFollows
  <2>5. ASSUME sender # "done"
        PROVE  Position + 2 * Len(sq) = Len(put)
    BY <1>2, <2>5 DEF OutboundInv
  <2>6. Position' = Position
    BY <2>0 DEF Position
  <2>7. ASSUME sender # "done", NEW i \in 1..Len(sq')
        PROVE  Due(Position + 2 * (i - 1), sq[i])'
    <3>1. CASE i \in 1..Len(sq)
      <4>1. PICK m \in Nat : m = Position + 2 * (i - 1)
        BY <1>0, <3>1
      <4>2. Due(m, sq[i]) /\ m + 2 <= Len(put)
        BY <1>0, <2>5, <2>7, <3>1, <4>1 DEF OutboundInv
      <4>3. m + 2 <= Len(put') /\ Len(sq[i]) = 2 /\ Follows(sq[i], m)
        BY <1>0, <2>3, <4>1, <4>2 DEF Due
      <4> QED
        BY <1>0, <2>2, <2>3, <2>6, <3>1, <4>1, <4>2, <4>3 DEF Due
    <3>2. CASE i = Len(sq) + 1
      <4>1. Position + 2 * (i - 1) = 2 * puts
        BY <1>0, <2>1, <2>5, <2>7, <3>2
      <4> QED
        BY <1>0, <2>1, <2>2, <2>3, <2>6, <3>2, <4>1 DEF Due
    <3> QED
      BY <1>0, <2>2, <3>1, <3>2
  <2>8. ASSUME sender # "done"
        PROVE  Position' + 2 * Len(sq') = Len(put')
    <3>1. Position + 2 * (Len(sq) + 1) = Len(put) + 2
      BY <1>0, <2>5, <2>8
    <3>2. Len(sq') = Len(sq) + 1 /\ Len(put') = Len(put) + 2
      BY <2>2, <2>3
    <3> QED
      BY <2>6, <3>1, <3>2
  <2>9. sender = "send" => ~getter /\ Due(Len(wire), item)'
    <3>1. SUFFICES ASSUME sender = "send" PROVE ~getter /\ Due(Len(wire), item)'
      OBVIOUS
    <3>2. Len(wire) + 2 <= Len(put)
      BY <1>0, <2>5, <3>1 DEF Position
    <3>3. ~getter /\ Due(Len(wire), item)
      BY <3>1 DEF OutboundInv
    <3>4. Len(wire) + 2 <= Len(put') /\ wire' = wire /\ item' = item
      BY <1>0, <2>0, <2>3, <3>2
    <3>5. Due(Len(wire), item)'
      BY <3>2, <3>3, <3>4 DEF Due
    <3> QED
      BY <3>3, <3>5
  <2>10. /\ Len(put') = 2 * (p + 1) /\ p + 1 \in Nat /\ Len(put') = 2 * puts'
         /\ Len(wire) <= Len(put')
    <3>1. Len(wire) <= Len(put) /\ Len(put) = 2 * puts /\ puts' = puts + 1
      BY <1>2, <2>0 DEF OutboundInv
    <3> QED
      BY <1>0, <1>a, <2>3, <3>1
  <2> QED
    BY <2>0, <2>3, <2>7, <2>8, <2>9, <2>10 DEF OutboundInv
<1>3. CASE Puts /\ thread = "ended"
  <2> DEFINE new == OutFrame(puts + 1)
  <2>0. /\ thread' = "ended" /\ sq' = Append(sq, new) /\ put' = put
        /\ UNCHANGED <<item, getter, wire, sender>>
    BY <1>3 DEF Puts
  <2>1. new \in Seq(Nat)
    BY <1>0, OutFrameFollows
  <2> HIDE DEF new
  <2>2. /\ Len(sq') = Len(sq) + 1 /\ sq'[Len(sq) + 1] = new
        /\ \A i \in 1..Len(sq) : sq'[i] = sq[i]
    BY <1>0, <2>0, <2>1
  <2>3. sender # "done" => Position + 2 * Len(sq) > Len(put)
    BY <1>3 DEF OutboundInv
  <2>4. Position' = Position
    BY <2>0 DEF Position
  <2>5. ASSUME sender # "done", NEW i \in 1..Len(sq')
        PROVE  Due(Position + 2 * (i - 1), sq[i])'
    <3>1. CASE i \in 1..Len(sq)
      <4>1. Due(Position + 2 * (i - 1), sq[i])
        BY <2>5, <3>1 DEF OutboundInv
      <4> QED
        BY <2>0, <2>2, <2>4, <3>1, <4>1 DEF Due
    <3>2. CASE i = Len(sq) + 1
      <4>1. Position' + 2 * (i - 1) > Len(put') /\ Position' + 2 * (i - 1) \in Nat
        BY <1>0, <2>0, <2>3, <2>4, <2>5, <3>2
      <4> QED
        BY <1>0, <2>0, <4>1 DEF Due
    <3> QED
      BY <1>0, <2>2, <3>1, <3>2
  <2>6. sender # "done" => Position' + 2 * Len(sq') > Len(put')
    BY <1>0, <2>0, <2>2, <2>3, <2>4
  <2>7. sender = "send" => ~getter /\ Due(Len(wire), item)'
    BY <2>0 DEF OutboundInv, Due
  <2> QED
    BY <2>0, <2>5, <2>6, <2>7 DEF OutboundInv
<1>4. CASE Get
  <2>0. /\ getter /\ sq # << >> /\ sq' = Tail(sq) /\ ~getter'
        /\ UNCHANGED <<puts, put, wire, thread>>
    BY <1>4 DEF Get
  <2>1. /\ Len(sq') = Len(sq) - 1 /\ Head(sq) = sq[1] /\ 1 \in 1..Len(sq)
        /\ \A i \in 1..Len(sq') : sq'[i] = sq[i + 1] /\ i + 1 \in 1..Len(sq)
    BY <1>0, <2>0
  <2>2. CASE sender = "get"
    <3>1. sender' = "send" /\ item' = Head(sq)
      BY <1>4, <2>2 DEF Get
    <3>2. Position = Len(wire) /\ Position' = Len(wire) + 2
      BY <1>0, <2>0, <2>2, <3>1 DEF Position
    <3>3. Due(Len(wire), item)'
      <4>1. Due(Position + 2 * (1 - 1), sq[1])
        BY <2>1, <2>2 DEF OutboundInv
      <4>2. Position + 2 * (1 - 1) = Len(wire)
        BY <1>0, <3>2
      <4> QED
        BY <2>0, <2>1, <3>1, <4>1, <4>2 DEF Due
    <3>4. ASSUME NEW i \in 1..Len(sq')
          PROVE  Due(Position + 2 * (i - 1), sq[i])'
      <4>1. Due(Position + 2 * ((i + 1) - 1), sq[i + 1])
        BY <2>1, <2>2 DEF OutboundInv
      <4>2. Position + 2 * ((i + 1) - 1) = Position' + 2 * (i - 1)
        BY <1>0, <3>2
      <4> QED
        BY <2>0, <2>1, <4>1, <4>2 DEF Due
    <3>5. Position' + 2 * Len(sq') = Position + 2 * Len(sq)
      <4>1. Len(sq') = Len(sq) - 1
        BY <2>1
      <4> QED
        BY <1>0, <3>2, <4>1
    <3>6. IF thread' = "ended" THEN Position' + 2 * Len(sq') > Len(put')
                               ELSE Position' + 2 * Len(sq') = Len(put')
      BY <2>0, <2>2, <3>5 DEF OutboundInv
    <3> QED
      BY <2>0, <3>1, <3>3, <3>4, <3>6 DEF OutboundInv
  <2>3. CASE sender # "get"
    <3>1. sender' = sender /\ sender = "done"
      BY <1>4, <2>0, <2>3 DEF Get, OutboundInv, BridgeTypes
    <3> QED
      BY <2>0, <3>1 DEF OutboundInv
  <2> QED
    BY <2>2, <2>3
<1>5. CASE Send
  <2>0. sender = "send" /\ UNCHANGED <<puts, put, sq, item, thread>>
    BY <1>5 DEF Send
  <2>1. CASE item = Sentinel
    <3>1. sender' = "done" /\ UNCHANGED wire
      BY <1>5, <2>1 DEF Send
    <3> QED
      BY <2>0, <3>1 DEF OutboundInv
  <2>2. CASE item # Sentinel
    <3>1. sender' = "get" /\ wire' = wire \o item
      BY <1>5, <2>2 DEF Send
    <3>2. Len(wire) + 2 <= Len(put)
      <4>1. Len(wire) # Len(put) /\ Len(wire) <= Len(put)
        BY <2>0, <2>2 DEF OutboundInv, Due
      <4> QED
        BY <1>a, <4>1
    <3>3. Len(item) = 2 /\ Follows(item, Len(wire))
      BY <2>0, <3>2 DEF OutboundInv, Due
    <3>4. Len(wire') = Len(wire) + 2 /\ Follows(wire', 0)
      <4>1. Follows(wire, 0) /\ 0 \in Nat /\ 0 + Len(wire) = Len(wire)
        BY <1>0 DEF OutboundInv
      <4>2. Follows(item, 0 + Len(wire))
        BY <3>3, <4>1
      <4>3. /\ Len(wire \o item) = Len(wire) + Len(item)
            /\ Follows(wire \o item, 0)
        BY <1>0, <4>1, <4>2, ConcatFollows
      <4> QED
        BY <3>1, <3>3, <4>3
    <3>5. Position' = Position
      BY <1>0, <2>0, <3>1, <3>4 DEF Position
    <3>6. Len(wire') = 2 * (w + 1) /\ w + 1 \in Nat /\ Len(wire') <= Len(put)
      BY <1>0, <1>a, <3>2, <3>4
    <3>7. \A i \in 1..Len(sq') : Due(Position + 2 * (i - 1), sq[i])'
      <4>1. \A i \in 1..Len(sq) : Due(Position + 2 * (i - 1), sq[i])
        BY <2>0 DEF OutboundInv
      <4> QED
        BY <2>0, <3>5, <4>1 DEF Due
    <3>8. IF thread' = "ended" THEN Position' + 2 * Len(sq') > Len(put')
                               ELSE Position' + 2 * Len(sq') = Len(put')
      BY <2>0, <3>5 DEF OutboundInv
    <3> QED
      BY <2>0, <3>1, <3>4, <3>6, <3>7, <3>8 DEF OutboundInv
  <2> QED
    BY <2>1, <2>2
<1>6. CASE SenderEnds
  BY <1>6 DEF SenderEnds, outbound, OutboundInv
<1>7. CASE /\ UNCHANGED <<outbound, sender>>
           /\ thread' = "ended" <=> thread = "ended"
  BY <1>7 DEF outbound, OutboundInv, Position, Due
<1> QED
  BY <1>1, <1>2, <1>3, <1>4, <1>5, <1>6, <1>7, OutboundSteps

-----------------------------------------------------------------------------
(* The way in: facts about chains of chunks. *)

LEMMA LastFollows ==
  ASSUME NEW c \in Seq(Nat), NEW m \in Nat, Follows(c, m), c # << >>
  PROVE  Last(c) = m + Len(c)
<1>1. Len(c) \in 1..Len(c)
  OBVIOUS
<1> QED
  BY <1>1 DEF Last, Follows

\* The receiver's put: a chunk that follows the queue's end extends it.
LEMMA ChainAppend ==
  ASSUME NEW q \in Seq(Seq(Nat)), NEW m \in Nat, NEW c \in Seq(Nat),
         Chained(q, m), Follows(c, EndOf(q, m))
  PROVE  /\ Chained(Append(q, c), m)
         /\ EndOf(Append(q, c), m) = Last(c)
<1> DEFINE r == Append(q, c)
<1>0. /\ Len(r) = Len(q) + 1 /\ r[Len(q) + 1] = c /\ Len(q) \in Nat
      /\ \A i \in 1..Len(q) : r[i] = q[i]
  OBVIOUS
<1> HIDE DEF r
<1>1. /\ Len(r) = Len(q) + 1 /\ r[Len(q) + 1] = c /\ Len(q) \in Nat
      /\ \A i \in 1..Len(q) : r[i] = q[i]
      /\ r # << >>
  BY <1>0
<1>2. ASSUME NEW i \in 1..Len(r)
      PROVE  Follows(r[i], IF i = 1 THEN m ELSE Last(r[i - 1]))
  <2>1. CASE i \in 1..Len(q)
    <3>0. i # 1 => i - 1 \in 1..Len(q)
      BY <1>1, <2>1
    <3>1. r[i] = q[i] /\ (i # 1 => r[i - 1] = q[i - 1])
      BY <1>1, <2>1, <3>0
    <3> QED
      BY <2>1, <3>1 DEF Chained
  <2>2. CASE i = Len(q) + 1
    <3>1. CASE q = << >>
      BY <1>1, <2>2, <3>1 DEF EndOf
    <3>2. CASE q # << >>
      <4>0. Len(q) \in 1..Len(q) /\ i # 1 /\ i - 1 = Len(q)
        BY <2>2, <3>2
      <4>1. i # 1 /\ r[i - 1] = q[Len(q)]
        BY <1>1, <4>0
      <4>2. EndOf(q, m) = Last(q[Len(q)])
        BY <3>2 DEF EndOf, Last
      <4>3. Follows(c, Last(r[i - 1])) /\ r[i] = c
        BY <1>1, <2>2, <4>1, <4>2
      <4> QED
        BY <4>1, <4>3
    <3> QED
      BY <3>1, <3>2
  <2> QED
    BY <1>1, <2>1, <2>2
<1>3. EndOf(r, m) = Last(c)
  BY <1>1 DEF EndOf, Last
<1> QED
  BY <1>2, <1>3 DEF Chained, r

\* recv's get: what stays queued begins behind the chunk that was taken.
LEMMA ChainTail ==
  ASSUME NEW q \in Seq(Seq(Nat)), NEW m \in Nat, Chained(q, m), q # << >>
  PROVE  /\ Follows(Head(q), m)
         /\ Chained(Tail(q), Last(Head(q)))
         /\ EndOf(Tail(q), Last(Head(q))) = EndOf(q, m)
<1> DEFINE r == Tail(q)
<1>1. /\ r \in Seq(Seq(Nat)) /\ Len(r) = Len(q) - 1 /\ Len(q) \in Nat \ {0}
      /\ Head(q) = q[1] /\ 1 \in 1..Len(q)
      /\ \A i \in 1..Len(r) : r[i] = q[i + 1] /\ i + 1 \in 1..Len(q)
  OBVIOUS
<1> HIDE DEF r
<1>2. Follows(Head(q), m)
  BY <1>1 DEF Chained
<1>3. ASSUME NEW i \in 1..Len(r)
      PROVE  Follows(r[i], IF i = 1 THEN Last(Head(q)) ELSE Last(r[i - 1]))
  <2>1. Follows(q[i + 1], Last(q[i]))
    <3>1. i + 1 \in 1..Len(q) /\ i + 1 # 1 /\ (i + 1) - 1 = i
      BY <1>1
    <3> QED
      BY <3>1 DEF Chained
  <2>2. i # 1 => r[i - 1] = q[i]
    <3>1. i # 1 => i - 1 \in 1..Len(r) /\ (i - 1) + 1 = i
      BY <1>1
    <3> QED
      BY <1>1, <3>1
  <2> QED
    BY <1>1, <2>1, <2>2
<1>4. EndOf(r, Last(Head(q))) = EndOf(q, m)
  <2>1. CASE Len(q) = 1
    <3>1. r = << >>
      BY <1>1, <2>1
    <3> QED
      <4>1. EndOf(r, Last(Head(q))) = Last(q[1])
        BY <1>1, <3>1 DEF EndOf
      <4>2. EndOf(q, m) = Last(q[1])
        BY <2>1 DEF EndOf, Last
      <4> QED
        BY <4>1, <4>2
  <2>2. CASE Len(q) # 1
    <3>0. Len(r) \in 1..Len(r) /\ Len(r) + 1 = Len(q)
      BY <1>1, <2>2
    <3>1. r # << >> /\ r[Len(r)] = q[Len(q)]
      BY <1>1, <3>0
    <3> QED
      BY <3>1 DEF EndOf, Last
  <2> QED
    BY <2>1, <2>2
<1> QED
  BY <1>2, <1>3, <1>4 DEF Chained, r

\* A closing socket cuts off the chunks that are lost; the rest stay in order.
LEMMA ChainPrefix ==
  ASSUME NEW q \in Seq(Seq(Nat)), NEW m \in Nat, NEW n \in 0..Len(q),
         Chained(q, m), \A i \in 1..Len(q) : q[i] # << >>
  PROVE  /\ Chained(SubSeq(q, 1, n), m)
         /\ \A i \in 1..Len(SubSeq(q, 1, n)) : SubSeq(q, 1, n)[i] # << >>
<1> DEFINE r == SubSeq(q, 1, n)
<1>1. Len(r) = n /\ \A i \in 1..n : r[i] = q[i] /\ i \in 1..Len(q)
  OBVIOUS
<1> HIDE DEF r
<1>2. ASSUME NEW i \in 1..Len(r)
      PROVE  Follows(r[i], IF i = 1 THEN m ELSE Last(r[i - 1]))
  <2>0. i # 1 => i - 1 \in 1..n
    BY <1>1
  <2>1. r[i] = q[i] /\ i \in 1..Len(q) /\ (i # 1 => r[i - 1] = q[i - 1])
    BY <1>1, <2>0
  <2> QED
    BY <2>1 DEF Chained
<1> QED
  BY <1>1, <1>2 DEF Chained, r

-----------------------------------------------------------------------------
(* The way in: the steps. *)

\* The part of the invariant that is about the bytes at the handler.
Held ==
  /\ Follows(part, Len(frames) * FrameLen)
  /\ Follows(buffer, Len(frames) * FrameLen + Len(part))
  /\ IF thread = "handle" THEN Len(part) = FrameLen ELSE Len(part) < FrameLen

\* The part about those that are still to be taken off recv_queue.
Waiting ==
  /\ Chained(rq, Taken)
  /\ \A i \in 1..Len(rq) : rq[i] = EOF => receiver = "done" /\ i = Len(rq)
  /\ receiver = "running" =>
       /\ Chained(ws, EndOf(rq, Taken))
       /\ \A i \in 1..Len(ws) : ws[i] # << >>
       /\ peer = "open" => EndOf(ws, EndOf(rq, Taken)) = sent

\* InboundInv, split into what recv holds and what waits for it.
LEMMA InboundParts ==
  InboundInv <=> FramesWhole /\ (thread # "ended" => Held /\ Waiting)
BY DEF InboundInv, Held, Waiting

\* The end of a chain is the number of a byte.
LEMMA EndIsNumber ==
  ASSUME NEW q \in Seq(Seq(Nat)), NEW m \in Nat,
         \A i \in 1..Len(q) : q[i] # << >>
  PROVE  EndOf(q, m) \in Nat
<1>1. CASE q = << >>
  BY <1>1 DEF EndOf
<1>2. CASE q # << >>
  <2>1. q[Len(q)] \in Seq(Nat) /\ q[Len(q)] # << >>
    BY <1>2
  <2>2. PICK c \in Seq(Nat) : c = q[Len(q)] /\ c # << >>
    BY <2>1
  <2>3. c[Len(c)] \in Nat
    BY <2>2
  <2> QED
    BY <1>2, <2>2, <2>3 DEF EndOf, Last
<1> QED
  BY <1>1, <1>2

\* The frame that is complete is the next one of the client's.
LEMMA FrameReturned ==
  ASSUME BridgeTypes, FramesWhole, Held, thread = "handle",
         frames' = Append(frames, part)
  PROVE  FramesWhole'
<1>0. /\ Len(frames) \in Nat /\ Len(frames) * FrameLen \in Nat
      /\ (Len(frames) + 1) * FrameLen = Len(frames) * FrameLen + FrameLen
      /\ part \in Seq(Nat) /\ frames \in Seq(Seq(Nat))
  BY Numbers DEF BridgeTypes
<1>1. /\ Len(frames') = Len(frames) + 1 /\ frames'[Len(frames) + 1] = part
      /\ \A i \in 1..Len(frames) : frames'[i] = frames[i]
  BY <1>0
<1>2. part = Bytes(Len(frames) * FrameLen + 1, Len(frames) * FrameLen + FrameLen)
  BY <1>0, FollowsIsBytes DEF Held
<1>3. ASSUME NEW i \in 1..Len(frames')
      PROVE  frames'[i] = Bytes((i - 1) * FrameLen + 1, i * FrameLen)
  <2>1. CASE i \in 1..Len(frames)
    BY <1>1, <2>1 DEF FramesWhole
  <2>2. CASE i = Len(frames) + 1
    <3>1. i - 1 = Len(frames)
      BY <1>0, <2>2
    <3>2. i * FrameLen = Len(frames) * FrameLen + FrameLen
      BY <1>0, <2>2
    <3>3. frames'[i] = part
      BY <1>1, <2>2
    <3> QED
      BY <1>2, <3>1, <3>2, <3>3
  <2> QED
    BY <1>0, <1>1, <2>1, <2>2
<1> QED
  BY <1>3 DEF FramesWhole

\* The end of what is waiting does not move when its beginning does.
LEMMA WaitingStays ==
  ASSUME Waiting, Taken' = Taken, UNCHANGED <<rq, receiver, ws, peer, sent>>
  PROVE  Waiting'
BY DEF Waiting, Chained, EndOf

\* recv takes a chunk off recv_queue into its buffer.
LEMMA FillNext ==
  ASSUME BridgeTypes, Held, Waiting, RecvFill
  PROVE  Held' /\ Waiting'
<1>0. /\ thread = "recv" /\ rq # << >> /\ Head(rq) # EOF
      /\ buffer' = buffer \o Head(rq) /\ rq' = Tail(rq)
      /\ UNCHANGED <<sent, ws, part, frames, peer, receiver, thread>>
  BY DEF RecvFill
<1>1. /\ rq \in Seq(Seq(Nat)) /\ part \in Seq(Nat) /\ buffer \in Seq(Nat)
  BY DEF BridgeTypes
<1>2. PICK b \in Nat : b = Len(frames) * FrameLen
  BY Numbers
<1>3. PICK t \in Nat : t = Taken /\ t = b + Len(part) + Len(buffer)
  BY <1>2, Numbers DEF Taken
<1>4. PICK c \in Seq(Nat) : c = Head(rq) /\ c # << >>
  BY <1>0, <1>1 DEF EOF
<1>5. Chained(rq, t)
  BY <1>3 DEF Waiting
<1>6. Follows(c, t) /\ Chained(Tail(rq), Last(c))
      /\ EndOf(Tail(rq), Last(c)) = EndOf(rq, t)
  BY <1>0, <1>1, <1>4, <1>5, ChainTail
<1>7. Last(c) = t + Len(c)
  BY <1>4, <1>6, LastFollows
<1>8. Follows(buffer', b + Len(part)) /\ Len(buffer') = Len(buffer) + Len(c)
  <2>1. Follows(buffer, b + Len(part)) /\ b + Len(part) \in Nat
    BY <1>1, <1>2 DEF Held
  <2>2. t = (b + Len(part)) + Len(buffer)
    BY <1>3
  <2> QED
    BY <1>0, <1>1, <1>4, <1>6, <2>1, <2>2, ConcatFollows
<1>9. Taken' = Last(c)
  <2>1. Taken' = b + Len(part) + Len(buffer')
    BY <1>0, <1>2 DEF Taken
  <2>2. Len(part) \in Nat /\ Len(buffer) \in Nat /\ Len(c) \in Nat
    BY <1>1, <1>4
  <2> QED
    BY <1>3, <1>7, <1>8, <2>1, <2>2
<1>10. Held'
  <2>1. Len(frames') * FrameLen = b /\ part' = part /\ thread' = thread
    BY <1>0, <1>2
  <2>2. Follows(part, b) /\ Len(part) < FrameLen
    BY <1>0, <1>2 DEF Held
  <2> QED
    BY <1>0, <1>8, <2>1, <2>2 DEF Held, Follows
<1>11. Waiting'
  <2>1. Chained(rq, Taken)' /\ EndOf(rq, Taken)' = EndOf(rq, Taken)
    BY <1>0, <1>3, <1>6, <1>9 DEF Chained, EndOf
  <2>2. ASSUME NEW i \in 1..Len(rq'), rq'[i] = EOF
        PROVE  receiver = "done" /\ i = Len(rq')
    <3>1. /\ Len(rq') = Len(rq) - 1 /\ Len(rq) \in Nat
          /\ rq'[i] = rq[i + 1] /\ i + 1 \in 1..Len(rq)
      BY <1>0, <1>1
    <3> QED
      BY <2>2, <3>1 DEF Waiting
  <2> QED
    BY <1>0, <2>1, <2>2 DEF Waiting, Chained, EndOf
<1> QED
  BY <1>10, <1>11

\* recv returns what recv_msg asked for and keeps the rest.
LEMMA TakeNext ==
  ASSUME BridgeTypes, InboundInv, Held, Waiting, RecvTake
  PROVE  Held' /\ Waiting'
<1>0. /\ thread = "recv" /\ Len(buffer) >= Needed
      /\ part' = part \o SubSeq(buffer, 1, Needed)
      /\ buffer' = SubSeq(buffer, Needed + 1, Len(buffer))
      /\ thread' = IF Len(part') = FrameLen THEN "handle" ELSE thread
      /\ UNCHANGED <<sent, ws, rq, frames, peer, receiver>>
  BY DEF RecvTake
<1>1. part \in Seq(Nat) /\ buffer \in Seq(Nat) /\ FrameLen \in Nat
  BY BridgeAssumption DEF BridgeTypes
<1>2. PICK b \in Nat : b = Len(frames) * FrameLen
  BY Numbers
<1>3. PICK n \in Nat : n = Needed /\ n <= Len(buffer) /\ Len(part) + n <= FrameLen
  BY <1>0, NeededBytes
<1>4. PICK m \in Nat : m = b + Len(part)
  BY <1>1
<1>5. Follows(part, b) /\ Follows(buffer, m) /\ n \in 0..Len(buffer)
  BY <1>1, <1>2, <1>3, <1>4 DEF Held
<1> DEFINE front == SubSeq(buffer, 1, n)
<1> DEFINE rest == SubSeq(buffer, n + 1, Len(buffer))
<1>6. /\ front \in Seq(Nat) /\ Len(front) = n /\ Follows(front, m)
      /\ rest \in Seq(Nat) /\ Len(rest) = Len(buffer) - n /\ Follows(rest, m + n)
  BY <1>1, <1>5, CutFollows
<1>7. part' = part \o front /\ buffer' = rest
  BY <1>0, <1>3
<1> HIDE DEF front, rest
<1>8. Follows(part', b) /\ Len(part') = Len(part) + n
  BY <1>1, <1>4, <1>5, <1>6, <1>7, ConcatFollows
<1>9. Len(frames') * FrameLen = b
  BY <1>0, <1>2
<1>10. m + n = b + Len(part') /\ Len(part') <= FrameLen /\ Len(part') \in Nat
  BY <1>1, <1>3, <1>4, <1>8
<1>11. Held'
  <2>1. Follows(buffer', b + Len(part'))
    BY <1>6, <1>7, <1>10
  <2>2. IF thread' = "handle" THEN Len(part') = FrameLen ELSE Len(part') < FrameLen
    <3>1. thread' = "handle" <=> Len(part') = FrameLen
      BY <1>0
    <3>2. Len(part') <= FrameLen /\ Len(part') \in Nat /\ FrameLen \in Nat
      BY <1>1, <1>10
    <3> QED
      BY <3>1, <3>2
  <2> QED
    BY <1>8, <1>9, <2>1, <2>2 DEF Held, Follows
<1>12. Taken' = Taken
  <2>1. Taken' = b + Len(part') + Len(buffer')
    BY <1>9 DEF Taken
  <2>2. Taken = b + Len(part) + Len(buffer)
    BY <1>2 DEF Taken
  <2>3. Len(buffer') = Len(buffer) - n /\ Len(buffer) \in Nat /\ Len(part) \in Nat
    BY <1>1, <1>6, <1>7
  <2> QED
    BY <1>8, <2>1, <2>2, <2>3
<1> QED
  BY <1>0, <1>11, <1>12, WaitingStays

\* At the end of the stream recv returns what is left of it.
LEMMA EndNext ==
  ASSUME BridgeTypes, InboundInv, Held, Waiting, RecvEnd, thread' # "ended"
  PROVE  Held' /\ Waiting'
<1>0. /\ thread = "recv" /\ Len(buffer) < Needed /\ rq # << >> /\ Head(rq) = EOF
      /\ part' = part \o buffer /\ buffer' = << >> /\ rq' = Tail(rq)
      /\ UNCHANGED <<sent, ws, frames, peer, receiver, thread>>
  BY DEF RecvEnd, Close
<1>1. part \in Seq(Nat) /\ buffer \in Seq(Nat) /\ FrameLen \in Nat
      /\ rq \in Seq(Seq(Nat))
  BY BridgeAssumption DEF BridgeTypes
<1>2. PICK b \in Nat : b = Len(frames) * FrameLen
  BY Numbers
<1>3. Len(part) + Len(buffer) < FrameLen
  BY <1>0, <1>1, NeededBytes
<1>4. Follows(part', b) /\ Len(part') = Len(part) + Len(buffer)
  BY <1>0, <1>1, <1>2, ConcatFollows DEF Held
<1>5. Len(frames') * FrameLen = b /\ Len(buffer') = 0
  BY <1>0, <1>2
<1>6. Held'
  <2>1. Len(part') < FrameLen /\ thread' # "handle"
    BY <1>0, <1>3, <1>4
  <2>2. Follows(buffer', b + Len(part'))
    BY <1>5 DEF Follows
  <2> QED
    BY <1>4, <1>5, <2>1, <2>2 DEF Held, Follows
<1>7. rq' = << >> /\ receiver' = "done"
  <2>1. 1 \in 1..Len(rq) /\ rq[1] = EOF
    BY <1>0, <1>1
  <2>2. Len(rq) = 1 /\ receiver = "done"
    BY <2>1 DEF Waiting
  <2>3. rq' \in Seq(Seq(Nat)) /\ Len(rq') = 0
    BY <1>0, <1>1, <2>2
  <2>4. \A q \in Seq(Seq(Nat)) : Len(q) = 0 => q = << >>
    OBVIOUS
  <2> QED
    BY <1>0, <2>2, <2>3, <2>4
<1> QED
  BY <1>6, <1>7 DEF Waiting, Chained

\* recv_msg returns a whole frame, and the next one begins behind it.
LEMMA AnswerNext ==
  ASSUME BridgeTypes, Held, Waiting, Answer
  PROVE  Held' /\ Waiting'
<1>0. /\ thread = "handle" /\ thread' = "recv"
      /\ frames' = Append(frames, part) /\ part' = << >>
      /\ UNCHANGED <<sent, ws, rq, buffer, peer, receiver>>
  BY DEF Answer
<1>1. /\ part \in Seq(Nat) /\ buffer \in Seq(Nat) /\ frames \in Seq(Seq(Nat))
      /\ FrameLen \in Nat /\ 0 < FrameLen
  BY BridgeAssumption DEF BridgeTypes
<1>2. PICK b \in Nat : /\ b = Len(frames) * FrameLen
                       /\ (Len(frames) + 1) * FrameLen = b + FrameLen
  BY Numbers
<1>3. Len(frames') * FrameLen = b + FrameLen /\ Len(part') = 0
  BY <1>0, <1>1, <1>2
<1>4. Len(part) = FrameLen /\ Follows(buffer, b + FrameLen)
  BY <1>0, <1>2 DEF Held
<1>5. Held'
  <2>1. Follows(part', b + FrameLen)
    BY <1>3 DEF Follows
  <2>2. (b + FrameLen) + Len(part') = b + FrameLen
    BY <1>1, <1>3
  <2> QED
    BY <1>0, <1>1, <1>3, <1>4, <2>1, <2>2 DEF Held, Follows
<1>6. Taken' = Taken
  <2>1. Taken' = (b + FrameLen) + Len(part') + Len(buffer)
    BY <1>0, <1>3 DEF Taken
  <2>2. Taken = b + Len(part) + Len(buffer)
    BY <1>2 DEF Taken
  <2> QED
    BY <1>1, <1>3, <1>4, <2>1, <2>2
<1> QED
  BY <1>0, <1>5, <1>6, WaitingStays

\* A message of the client goes behind what is on its way, arrives behind what
\* is on recv_queue, or is lost with all that are behind it.
LEMMA ArrivalNext ==
  ASSUME BridgeTypes, Held, Waiting,
         \/ \E n \in 1..FrameLen : ClientSend(n)
         \/ \E kept \in 0..Len(ws) : ClientLeave(kept)
         \/ Receive \/ ReceiverEnds
  PROVE  Held' /\ Waiting'
<1>0. UNCHANGED <<part, buffer, frames, thread>>
  BY DEF ClientSend, ClientLeave, Receive, ReceiverEnds
<1>1. Held' /\ Taken' = Taken
  BY <1>0 DEF Held, Taken, Follows
<1>2. PICK t \in Nat : t = Taken
  BY Numbers DEF Taken
<1>3. rq \in Seq(Seq(Nat)) /\ ws \in Seq(Seq(Nat)) /\ sent \in Nat
      /\ receiver \in {"running", "done"} /\ FrameLen \in Nat
  BY BridgeAssumption DEF BridgeTypes
<1>4. Chained(rq, t)
      /\ \A i \in 1..Len(rq) : rq[i] = EOF => receiver = "done" /\ i = Len(rq)
  BY <1>2 DEF Waiting
<1>5. ASSUME receiver = "running"
      PROVE  EndOf(rq, t) \in Nat
  BY <1>3, <1>4, <1>5, EndIsNumber DEF EOF
<1>6. receiver = "running" =>
        /\ Chained(ws, EndOf(rq, t))
        /\ \A i \in 1..Len(ws) : ws[i] # << >>
        /\ peer = "open" => EndOf(ws, EndOf(rq, t)) = sent
  BY <1>2 DEF Waiting
<1>7. ASSUME NEW n \in 1..FrameLen, ClientSend(n)
      PROVE  Waiting'
  <2>0. /\ peer = "open" /\ sent' = sent + n
        /\ ws' = Append(ws, Bytes(sent + 1, sent + n))
        /\ UNCHANGED <<rq, receiver, peer>>
    BY <1>7 DEF ClientSend
  <2>1. n \in Nat \ {0}
    BY <1>3
  <2>2. PICK c \in Seq(Nat) : /\ c = Bytes(sent + 1, sent + n)
                              /\ Len(c) = n /\ Follows(c, sent)
    BY <1>3, <2>1, BytesFollow
  <2>3. c # << >> /\ Last(c) = sent + n
    <3>1. c # << >>
      BY <2>1, <2>2
    <3> QED
      BY <1>3, <2>2, <3>1, LastFollows
  <2>4. ASSUME receiver = "running"
        PROVE  /\ Chained(ws', EndOf(rq, t))
               /\ EndOf(ws', EndOf(rq, t)) = sent'
               /\ \A i \in 1..Len(ws') : ws'[i] # << >>
    <3>1. PICK e \in Nat : e = EndOf(rq, t)
      BY <1>5, <2>4
    <3>2. Chained(ws, e) /\ Follows(c, EndOf(ws, e))
      BY <1>6, <2>0, <2>2, <2>4, <3>1
    <3>3. Chained(ws', e) /\ EndOf(ws', e) = sent'
      BY <1>3, <2>0, <2>2, <2>3, <3>2, ChainAppend
    <3>4. /\ Len(ws') = Len(ws) + 1 /\ ws'[Len(ws) + 1] = c /\ Len(ws) \in Nat
          /\ \A i \in 1..Len(ws) : ws'[i] = ws[i]
      BY <1>3, <2>0, <2>2
    <3>5. ASSUME NEW i \in 1..Len(ws')
          PROVE  ws'[i] # << >>
      BY <1>6, <2>3, <2>4, <3>4
    <3> QED
      BY <3>1, <3>3, <3>5
  <2> QED
    BY <1>1, <1>2, <1>4, <2>0, <2>4 DEF Waiting, Chained, EndOf
<1>8. ASSUME NEW kept \in 0..Len(ws), ClientLeave(kept)
      PROVE  Waiting'
  <2>0. /\ ws' = SubSeq(ws, 1, kept) /\ peer' = "left"
        /\ UNCHANGED <<rq, receiver>>
    BY <1>8 DEF ClientLeave
  <2>1. ASSUME receiver = "running"
        PROVE  /\ Chained(ws', EndOf(rq, t))
               /\ \A i \in 1..Len(ws') : ws'[i] # << >>
    BY <1>3, <1>5, <1>6, <2>0, <2>1, ChainPrefix
  <2> QED
    BY <1>1, <1>2, <1>4, <2>0, <2>1 DEF Waiting, Chained, EndOf
<1>9. CASE Receive
  <2>0. /\ receiver = "running" /\ ws # << >> /\ receiver' = receiver
        /\ rq' = Append(rq, Head(ws)) /\ ws' = Tail(ws)
        /\ UNCHANGED <<sent, peer>>
    BY <1>9 DEF Receive
  <2>1. PICK e \in Nat : e = EndOf(rq, t)
    BY <1>5, <2>0
  <2>2. PICK c \in Seq(Nat) : c = Head(ws) /\ c # << >>
    BY <1>3, <1>6, <2>0
  <2>3. /\ Follows(c, e) /\ Chained(ws', Last(c))
        /\ EndOf(ws', Last(c)) = EndOf(ws, e)
    BY <1>3, <1>6, <2>0, <2>1, <2>2, ChainTail
  <2>4. Chained(rq', t) /\ EndOf(rq', t) = Last(c)
    BY <1>3, <1>4, <2>0, <2>1, <2>2, <2>3, ChainAppend
  <2>5. ASSUME NEW i \in 1..Len(rq')
        PROVE  rq'[i] # EOF
    <3>1. /\ Len(rq') = Len(rq) + 1 /\ rq'[Len(rq) + 1] = c /\ Len(rq) \in Nat
          /\ \A j \in 1..Len(rq) : rq'[j] = rq[j]
      BY <1>3, <2>0, <2>2
    <3> QED
      BY <1>4, <2>0, <2>2, <3>1 DEF EOF
  <2>6. ASSUME NEW i \in 1..Len(ws')
        PROVE  ws'[i] # << >>
    <3>1. i + 1 \in 1..Len(ws) /\ ws'[i] = ws[i + 1]
      BY <1>3, <2>0
    <3> QED
      BY <1>6, <2>0, <3>1
  <2>7. /\ Chained(ws', EndOf(rq', t))
        /\ peer' = "open" => EndOf(ws', EndOf(rq', t)) = sent'
    BY <1>6, <2>0, <2>1, <2>3, <2>4
  <2> QED
    BY <1>1, <1>2, <2>4, <2>5, <2>6, <2>7 DEF Waiting, Chained, EndOf
<1>10. CASE ReceiverEnds
  <2>0. receiver = "running" /\ receiver' = "done" /\ rq' = Append(rq, EOF)
    BY <1>10 DEF ReceiverEnds
  <2>1. EOF \in Seq(Nat) /\ Follows(EOF, EndOf(rq, t))
    BY DEF EOF, Follows
  <2>2. Chained(rq', t)
    BY <1>3, <1>4, <2>0, <2>1, ChainAppend
  <2>3. ASSUME NEW i \in 1..Len(rq'), rq'[i] = EOF
        PROVE  i = Len(rq')
    <3>1. /\ Len(rq') = Len(rq) + 1 /\ Len(rq) \in Nat
          /\ \A j \in 1..Len(rq) : rq'[j] = rq[j]
      BY <1>3, <2>0, <2>1
    <3> QED
      BY <1>4, <2>0, <2>3, <3>1
  <2> QED
    BY <1>1, <1>2, <2>0, <2>2, <2>3 DEF Waiting, Chained
<1> QED
  BY <1>1, <1>7, <1>8, <1>9, <1>10

\* Every step keeps the stream on the way in whole and in order.
LEMMA InboundNext ==
  ASSUME BridgeTypes, InboundInv, [Next]_vars
  PROVE  InboundInv'
<1> USE DEF inbound, outbound
<1>1. FramesWhole /\ (thread # "ended" => Held /\ Waiting)
  BY InboundParts
<1>2. FramesWhole'
  <2>1. CASE Answer \/ GiveUp
    BY <1>1, <2>1, FrameReturned DEF Answer, GiveUp
  <2>2. CASE frames' = frames
    BY <1>1, <2>2 DEF FramesWhole
  <2> QED
    BY <2>1, <2>2 DEF Next, EventLoop, Handler, vars, ClientSend, ClientLeave,
       Receive, ReceiverEnds, Get, Send, SenderEnds, EndpointReturns, RecvFill,
       RecvTake, RecvEnd, Forward
<1>3. ASSUME thread' # "ended"
      PROVE  Held' /\ Waiting'
  <2>0. thread # "ended"
    BY <1>3 DEF Next, EventLoop, Handler, vars, ClientSend, ClientLeave,
       Receive, ReceiverEnds, Get, Send, SenderEnds, EndpointReturns, RecvFill,
       RecvTake, RecvEnd, Answer, GiveUp, Forward
  <2>1. CASE RecvFill
    BY <1>1, <2>0, <2>1, FillNext
  <2>2. CASE RecvTake
    BY <1>1, <2>0, <2>2, TakeNext
  <2>3. CASE RecvEnd
    BY <1>1, <1>3, <2>0, <2>3, EndNext
  <2>4. CASE Answer
    BY <1>1, <2>0, <2>4, AnswerNext
  <2>5. CASE GiveUp
    BY <1>3, <2>5 DEF GiveUp, Close
  <2>6. CASE \/ \E n \in 1..FrameLen : ClientSend(n)
             \/ \E kept \in 0..Len(ws) : ClientLeave(kept)
             \/ Receive \/ ReceiverEnds
    BY <1>1, <2>0, <2>6, ArrivalNext
  <2>7. CASE UNCHANGED <<inbound, thread, receiver>> /\ (peer' = "open" => peer = "open")
    BY <1>1, <2>0, <2>7 DEF Held, Waiting, Taken, Chained, EndOf, Follows
  <2> QED
    BY <2>1, <2>2, <2>3, <2>4, <2>5, <2>6, <2>7 DEF Next, EventLoop, Handler,
       vars, Get, Send, SenderEnds, EndpointReturns, Forward
<1> QED
  BY <1>2, <1>3 DEF InboundInv, Held, Waiting

-----------------------------------------------------------------------------

\* Types, the way out and the way in, in every state.
THEOREM BridgeInvariant == Spec => []BridgeInv
<1>1. Init => BridgeInv
  <2> SUFFICES ASSUME Init PROVE BridgeInv
    OBVIOUS
  <2>1. << >> \in Seq(Nat) /\ << >> \in Seq(Seq(Nat)) /\ Len(<< >>) = 0
    OBVIOUS
  <2>2. BridgeTypes
    BY <2>1 DEF Init, BridgeTypes, Sentinel
  <2>3. OutboundInv
    BY DEF Init, OutboundInv, Position, Follows
  <2>4. InboundInv
    <3>1. Len(frames) * FrameLen = 0 /\ FrameLen \in Nat /\ 0 < FrameLen
      BY BridgeAssumption DEF Init
    <3> QED
      BY <3>1 DEF Init, InboundInv, FramesWhole, Follows, Chained, EndOf, Taken
  <2> QED
    BY <2>2, <2>3, <2>4 DEF BridgeInv
<1>2. BridgeInv /\ [Next]_vars => BridgeInv'
  BY TypesNext, OutboundNext, InboundNext DEF BridgeInv
<1> QED
  BY <1>1, <1>2, PTL DEF Spec

\* However the client's bytes were cut into WebSocket messages and whenever
\* recv found how many of them on its queue, recv_msg returns the client's
\* frames: the i-th has the bytes from the i-th frame's first to its last.
THEOREM FramesReturnedWhole == Spec => []FramesWhole
<1>1. BridgeInv => FramesWhole
  BY DEF BridgeInv, InboundInv
<1> QED
  BY <1>1, BridgeInvariant, PTL

\* Whichever threads call send_msg, and whatever the sender was doing when it
\* was cancelled, the bytes on the WebSocket are the first of those put on the
\* queue before close().
THEOREM WireIsPrefix == Spec => []WireInOrder
<1>1. BridgeInv => WireInOrder
  <2> SUFFICES ASSUME BridgeInv PROVE IsPrefix(wire, put)
    BY DEF WireInOrder
  <2>1. /\ wire \in Seq(Nat) /\ put \in Seq(Nat) /\ Len(wire) <= Len(put)
        /\ \A i \in 1..Len(wire) : wire[i] = put[i]
    <3>1. /\ wire \in Seq(Nat) /\ put \in Seq(Nat) /\ Len(wire) <= Len(put)
          /\ Follows(wire, 0) /\ Follows(put, 0)
      BY DEF BridgeInv, BridgeTypes, OutboundInv
    <3> QED
      BY <3>1 DEF Follows
  <2>2. SubSeq(wire, 1, Len(wire)) = SubSeq(put, 1, Len(wire))
    BY <2>1
  <2> QED
    BY <2>1, <2>2 DEF IsPrefix
<1> QED
  BY <1>1, BridgeInvariant, PTL

-----------------------------------------------------------------------------
(* The whole stream, through all the places a byte can be. *)

\* The i-th chunk are the bytes behind the p[i - 1]-st up to the p[i]-th, and
\* all of them together those behind the m-th up to the e-th.
Marks(p, chunks, m, e) ==
  /\ p \in [0..Len(chunks) -> Nat]
  /\ p[0] = m /\ p[Len(chunks)] = e
  /\ \A i \in 1..Len(chunks) :
       p[i] = p[i - 1] + Len(chunks[i]) /\ Follows(chunks[i], p[i - 1])
  /\ \A i, j \in 0..Len(chunks) : i <= j => p[i] <= p[j]

\* The chunks, empty ones included, are the bytes m + 1, ..., e of the stream.
Stretch(chunks, m, e) == \E p : Marks(p, chunks, m, e)

\* A nonempty set of positions has a least one.
LEMMA LeastPosition ==
  ASSUME NEW S, S \subseteq Nat, S # {}
  PROVE  \E x \in S : \A y \in S : x <= y
<1>1. PICK x \in S : \A y \in S : ~ (<<y, x>> \in OpToRel(<, Nat))
  BY WFMin, NatLessThanWellFounded, Zenon
<1>2. \A y \in S : <<y, x>> \in Nat \X Nat
  OBVIOUS
<1>3. \A y \in S : ~ (y < x)
  BY <1>1, <1>2 DEF OpToRel
<1>4. \A y \in S : x <= y
  BY <1>3
<1> QED
  BY <1>4

\* What the recursive function inside FlattenSeq computes.  The function w
\* satisfies its defining equation, so that there is such a function, and one
\* that does has no least index at which it differs from w.
LEMMA FlattenStretch ==
  ASSUME NEW q \in Seq(Seq(Nat)), NEW m \in Nat, NEW e \in Nat, Stretch(q, m, e)
  PROVE  m <= e /\ FlattenSeq(q) = Bytes(m + 1, e)
<1>0. PICK p : Marks(p, q, m, e)
  BY DEF Stretch
<1>1. PICK n \in Nat : n = Len(q)
  OBVIOUS
<1>2. /\ p \in [0..n -> Nat] /\ p[0] = m /\ p[n] = e
      /\ \A i \in 1..n : p[i] = p[i - 1] + Len(q[i]) /\ Follows(q[i], p[i - 1])
      /\ \A i \in 0..n : p[i] \in Nat /\ m <= p[i]
      /\ \A i \in 1..n : q[i] \in Seq(Nat) /\ Len(q[i]) \in Nat
  <2>1. /\ p \in [0..n -> Nat] /\ p[0] = m /\ p[n] = e
        /\ \A i \in 1..n : p[i] = p[i - 1] + Len(q[i]) /\ Follows(q[i], p[i - 1])
        /\ \A i, j \in 0..n : i <= j => p[i] <= p[j]
    BY <1>0, <1>1 DEF Marks
  <2>2. ASSUME NEW i \in 0..n PROVE p[i] \in Nat /\ m <= p[i]
    <3>1. 0 \in 0..n /\ 0 <= i
      OBVIOUS
    <3>2. p[0] <= p[i]
      BY <2>1, <3>1
    <3> QED
      BY <2>1, <3>2
  <2>3. \A i \in 1..n : q[i] \in Seq(Nat) /\ Len(q[i]) \in Nat
    BY <1>1
  <2> QED
    BY <2>1, <2>2, <2>3
<1>3. m <= e
  <2>1. n \in 0..n
    OBVIOUS
  <2> QED
    BY <1>2, <2>1
<1>4. CASE n = 0
  <2>1. Len(q) = 0 /\ q = << >>
    BY <1>1, <1>4, EmptySeq
  <2>a. FlattenSeq(q) = q
    BY <2>1, Zenon DEF FlattenSeq
  <2>2. e = m + 0
    BY <1>2, <1>4
  <2>3. Bytes(m + 1, m + 0) \in Seq(Nat) /\ Len(Bytes(m + 1, m + 0)) = 0
    BY BytesFollow, 0 \in Nat
  <2>4. Bytes(m + 1, m + 0) = << >>
    BY <2>3, EmptySeq
  <2> QED
    BY <1>3, <2>1, <2>a, <2>2, <2>4
<1>5. CASE n # 0
  <2> DEFINE Body(f) == [i \in 1..n |-> IF i = 1 THEN q[i] ELSE f[i - 1] \o q[i]]
             w == [i \in 1..n |-> Bytes(m + 1, p[i])]
             F == CHOOSE f : f = Body(f)
  <2>1. ASSUME NEW i \in 1..n
        PROVE  w[i] = IF i = 1 THEN q[i] ELSE w[i - 1] \o q[i]
    <3>1. w[i] = Bytes(m + 1, p[i])
      OBVIOUS
    <3>2. CASE i = 1
      <4>1. Follows(q[1], m) /\ p[1] = m + Len(q[1]) /\ q[1] \in Seq(Nat)
        BY <1>2, <3>2
      <4> HIDE DEF w
      <4> QED
        BY <3>1, <3>2, <4>1, FollowsIsBytes
    <3>3. CASE i # 1
      <4>1. i - 1 \in 1..n /\ w[i - 1] = Bytes(m + 1, p[i - 1])
        BY <3>3
      <4>2. PICK k \in Nat : p[i - 1] = m + k
        <5>1. p[i - 1] \in Nat /\ m <= p[i - 1]
          BY <1>2, <4>1
        <5>2. p[i - 1] - m \in Nat /\ p[i - 1] = m + (p[i - 1] - m)
          BY <5>1
        <5> QED
          BY <5>2
      <4>3. PICK t \in Seq(Nat) : t = q[i] /\ Follows(t, m + k) /\ p[i] = m + k + Len(t)
        <5>1. i - 1 \in 0..n
          OBVIOUS
        <5>2. q[i] \in Seq(Nat) /\ Follows(q[i], p[i - 1]) /\ p[i] = p[i - 1] + Len(q[i])
          BY <1>2
        <5> HIDE DEF w
        <5> QED
          BY <4>2, <5>2
      <4>4. PICK s \in Seq(Nat) : s = Bytes(m + 1, m + k) /\ Len(s) = k /\ Follows(s, m)
        BY BytesFollow
      <4>5. s \o t \in Seq(Nat) /\ Len(s \o t) = k + Len(t) /\ Follows(s \o t, m)
        BY <4>3, <4>4, ConcatFollows
      <4>6. s \o t = Bytes(m + 1, m + (k + Len(t)))
        BY <4>5, FollowsIsBytes
      <4>7. m + k + Len(t) = m + (k + Len(t))
        BY Len(t) \in Nat
      <4> HIDE DEF w
      <4> QED
        BY <3>1, <3>3, <4>1, <4>2, <4>3, <4>4, <4>6, <4>7
    <3> QED
      BY <3>2, <3>3
  <2>2. w = Body(w)
    <3>1. Body(w) = [i \in 1..n |-> w[i]]
      BY <2>1
    <3> QED
      BY <3>1
  <2>3. F = Body(F)
    <3> HIDE DEF w
    <3> QED
      BY <2>2, Zenon
  <2>4. FlattenSeq(q) = F[n]
    BY <1>1, <1>5, Zenon DEF FlattenSeq
  <2> HIDE DEF F, w
  <2>5. \A i \in 1..n : F[i] = IF i = 1 THEN q[i] ELSE F[i - 1] \o q[i]
    BY <2>3
  <2> HIDE DEF Body
  <2>6. \A i \in 1..n : F[i] = w[i]
    <3> DEFINE S == {i \in 1..n : F[i] # w[i]}
    <3> SUFFICES ASSUME S # {} PROVE FALSE
      OBVIOUS
    <3>1. S \subseteq Nat
      OBVIOUS
    <3>2. PICK x \in S : \A y \in S : x <= y
      BY <3>1, LeastPosition
    <3>3. CASE x = 1
      BY <2>1, <2>5, <3>2, <3>3
    <3>4. CASE x # 1
      <4>1. x - 1 \in 1..n /\ ~(x <= x - 1)
        BY <3>2, <3>4
      <4>2. F[x - 1] = w[x - 1]
        BY <3>2, <4>1
      <4> QED
        BY <2>1, <2>5, <3>2, <3>4, <4>2
    <3> QED
      BY <3>3, <3>4
  <2>7. n \in 1..n
    BY <1>5
  <2>8. w[n] = Bytes(m + 1, e)
    BY <1>2, <2>7 DEF w
  <2> QED
    BY <1>3, <2>4, <2>6, <2>7, <2>8
<1> QED
  BY <1>4, <1>5

\* Put together, the chunks of a stretch are its bytes in order.
LEMMA FlattenFollows ==
  ASSUME NEW q \in Seq(Seq(Nat)), NEW m \in Nat, NEW e \in Nat, Stretch(q, m, e)
  PROVE  /\ FlattenSeq(q) \in Seq(Nat) /\ m + Len(FlattenSeq(q)) = e
         /\ Follows(FlattenSeq(q), m)
<1>1. m <= e /\ FlattenSeq(q) = Bytes(m + 1, e)
  BY FlattenStretch
<1>2. PICK n \in Nat : e = m + n
  <2>1. e - m \in Nat /\ e = m + (e - m)
    BY <1>1
  <2> QED
    BY <2>1
<1>3. /\ Bytes(m + 1, m + n) \in Seq(Nat) /\ Len(Bytes(m + 1, m + n)) = n
      /\ Follows(Bytes(m + 1, m + n), m)
  BY BytesFollow
<1>4. FlattenSeq(q) = Bytes(m + 1, m + n)
  BY <1>1, <1>2
<1> QED
  BY <1>2, <1>3, <1>4, Zenon

\* Nothing has been cut yet.
LEMMA StretchEmpty ==
  ASSUME NEW m \in Nat
  PROVE  Stretch(<< >>, m, m)
<1> DEFINE p == [i \in 0..0 |-> m]
<1>1. Marks(p, << >>, m, m)
  BY DEF Marks
<1> QED
  BY <1>1 DEF Stretch

\* A chunk is put behind a stretch (the client's next message, the receiver's
\* put on recv_queue, recv_msg's next frame).
LEMMA StretchAppend ==
  ASSUME NEW q \in Seq(Seq(Nat)), NEW c \in Seq(Nat), NEW m \in Nat,
         NEW e \in Nat, Stretch(q, m, e), Follows(c, e)
  PROVE  Stretch(Append(q, c), m, e + Len(c))
<1>0. PICK p : Marks(p, q, m, e)
  BY DEF Stretch
<1>1. PICK n \in Nat : n = Len(q)
  OBVIOUS
<1>2. PICK l \in Nat : l = Len(c)
  OBVIOUS
<1>3. /\ p \in [0..n -> Nat] /\ p[0] = m /\ p[n] = e
      /\ \A i \in 1..n : p[i] = p[i - 1] + Len(q[i]) /\ Follows(q[i], p[i - 1])
      /\ \A i, j \in 0..n : i <= j => p[i] <= p[j]
  BY <1>0, <1>1 DEF Marks
<1>4. PICK r \in Seq(Seq(Nat)) : /\ r = Append(q, c) /\ Len(r) = n + 1
                                 /\ \A i \in 1..n : r[i] = q[i]
                                 /\ r[n + 1] = c
  <2>1. /\ Append(q, c) \in Seq(Seq(Nat)) /\ Len(Append(q, c)) = n + 1
        /\ \A i \in 1..n : Append(q, c)[i] = q[i]
        /\ Append(q, c)[n + 1] = c
    BY <1>1
  <2> QED
    BY <2>1
<1> DEFINE v == [i \in 0..(n + 1) |-> IF i = n + 1 THEN e + l ELSE p[i]]
<1>5. /\ v \in [0..(n + 1) -> Nat]
      /\ v[n + 1] = e + l
      /\ \A i \in 0..n : v[i] = p[i]
  BY <1>3
<1> HIDE DEF v
<1>6. v[0] = m /\ v[n] = e
  BY <1>3, <1>5
<1>7. ASSUME NEW i \in 1..(n + 1)
      PROVE  v[i] = v[i - 1] + Len(r[i]) /\ Follows(r[i], v[i - 1])
  <2>1. CASE i = n + 1
    <3>1. v[i - 1] = e /\ r[i] = c
      BY <1>4, <1>6, <2>1
    <3> QED
      BY <1>2, <1>5, <2>1, <3>1
  <2>2. CASE i # n + 1
    <3>1. i \in 1..n /\ i - 1 \in 0..n /\ i \in 0..n
      BY <2>2
    <3>2. v[i - 1] = p[i - 1] /\ v[i] = p[i] /\ r[i] = q[i]
      BY <1>4, <1>5, <3>1
    <3> QED
      BY <1>3, <3>1, <3>2
  <2> QED
    BY <2>1, <2>2
<1>8. ASSUME NEW i \in 0..(n + 1), NEW j \in 0..(n + 1), i <= j
      PROVE  v[i] <= v[j]
  <2>1. CASE j = n + 1 /\ i # n + 1
    <3>1. i \in 0..n /\ n \in 0..n /\ i <= n
      BY <2>1
    <3>2. v[i] = p[i] /\ p[i] <= p[n] /\ p[i] \in Nat
      BY <1>3, <1>5, <3>1
    <3> QED
      BY <1>3, <1>5, <2>1, <3>2
  <2>2. CASE i = n + 1
    <3>1. j = i
      BY <1>8, <2>2
    <3> QED
      BY <1>5, <2>2, <3>1
  <2>3. CASE j # n + 1 /\ i # n + 1
    <3>1. i \in 0..n /\ j \in 0..n
      BY <2>3
    <3> QED
      BY <1>3, <1>5, <1>8, <3>1
  <2> QED
    BY <2>1, <2>2, <2>3
<1>9. Marks(v, r, m, e + l)
  BY <1>4, <1>5, <1>6, <1>7, <1>8 DEF Marks
<1> QED
  BY <1>2, <1>4, <1>9 DEF Stretch

\* The first chunk is taken off a stretch (the receiver's next message, recv's
\* get on recv_queue).
LEMMA StretchTail ==
  ASSUME NEW q \in Seq(Seq(Nat)), NEW m \in Nat, NEW e \in Nat,
         Stretch(q, m, e), q # << >>
  PROVE  /\ Head(q) \in Seq(Nat) /\ Follows(Head(q), m)
         /\ Tail(q) \in Seq(Seq(Nat)) /\ Stretch(Tail(q), m + Len(Head(q)), e)
<1>0. PICK p : Marks(p, q, m, e)
  BY DEF Stretch
<1>1. PICK n \in Nat : Len(q) = n + 1
  <2>1. Len(q) \in Nat /\ Len(q) # 0
    BY EmptySeq
  <2>2. Len(q) - 1 \in Nat /\ Len(q) = (Len(q) - 1) + 1
    BY <2>1
  <2> QED
    BY <2>2
<1>2. /\ p \in [0..(n + 1) -> Nat] /\ p[0] = m /\ p[n + 1] = e
      /\ \A i \in 1..(n + 1) : p[i] = p[i - 1] + Len(q[i]) /\ Follows(q[i], p[i - 1])
      /\ \A i, j \in 0..(n + 1) : i <= j => p[i] <= p[j]
  BY <1>0, <1>1 DEF Marks
<1>3. PICK r \in Seq(Seq(Nat)) : /\ r = Tail(q) /\ Len(r) = n
                                 /\ \A i \in 1..n : r[i] = q[i + 1]
  <2>1. /\ Tail(q) \in Seq(Seq(Nat)) /\ Len(Tail(q)) = n
        /\ \A i \in 1..n : Tail(q)[i] = q[i + 1]
    BY <1>1
  <2> QED
    BY <2>1
<1>4. PICK c \in Seq(Nat) : c = Head(q) /\ c = q[1]
  BY <1>1
<1>5. Follows(c, m) /\ p[1] = m + Len(c)
  <2>1. 1 \in 1..(n + 1) /\ 1 - 1 = 0
    OBVIOUS
  <2>2. p[1] = p[1 - 1] + Len(q[1]) /\ Follows(q[1], p[1 - 1])
    BY <1>2, <2>1
  <2> QED
    BY <1>2, <1>4, <2>1, <2>2
<1> DEFINE v == [i \in 0..n |-> p[i + 1]]
<1>6. v \in [0..n -> Nat] /\ \A i \in 0..n : v[i] = p[i + 1]
  BY <1>2
<1> HIDE DEF v
<1>7. v[0] = m + Len(c) /\ v[n] = e
  BY <1>2, <1>5, <1>6
<1>8. ASSUME NEW i \in 1..n
      PROVE  v[i] = v[i - 1] + Len(r[i]) /\ Follows(r[i], v[i - 1])
  <2>1. i + 1 \in 1..(n + 1) /\ i \in 0..n /\ i - 1 \in 0..n
        /\ (i + 1) - 1 = i /\ (i - 1) + 1 = i
    OBVIOUS
  <2>2. v[i] = p[i + 1] /\ v[i - 1] = p[i] /\ r[i] = q[i + 1]
    BY <1>3, <1>6, <2>1
  <2>3. p[i + 1] = p[(i + 1) - 1] + Len(q[i + 1]) /\ Follows(q[i + 1], p[(i + 1) - 1])
    BY <1>2, <2>1
  <2> QED
    BY <2>1, <2>2, <2>3
<1>9. ASSUME NEW i \in 0..n, NEW j \in 0..n, i <= j
      PROVE  v[i] <= v[j]
  <2>1. i + 1 \in 0..(n + 1) /\ j + 1 \in 0..(n + 1) /\ i + 1 <= j + 1
    BY <1>9
  <2> QED
    BY <1>2, <1>6, <2>1
<1>10. Marks(v, r, m + Len(c), e)
  BY <1>3, <1>6, <1>7, <1>8, <1>9 DEF Marks
<1> QED
  BY <1>3, <1>4, <1>5, <1>10 DEF Stretch

\* The last chunks of a stretch are lost (with the client that leaves).
LEMMA StretchPrefix ==
  ASSUME NEW q \in Seq(Seq(Nat)), NEW m \in Nat, NEW e \in Nat,
         Stretch(q, m, e), NEW kept \in 0..Len(q)
  PROVE  \E k \in Nat : Stretch(SubSeq(q, 1, kept), m, k)
<1>0. PICK p : Marks(p, q, m, e)
  BY DEF Stretch
<1>1. PICK n \in Nat : n = Len(q) /\ kept \in 0..n
  OBVIOUS
<1>2. /\ p \in [0..n -> Nat] /\ p[0] = m
      /\ \A i \in 1..n : p[i] = p[i - 1] + Len(q[i]) /\ Follows(q[i], p[i - 1])
      /\ \A i, j \in 0..n : i <= j => p[i] <= p[j]
  BY <1>0, <1>1 DEF Marks
<1>3. PICK r : /\ r = SubSeq(q, 1, kept) /\ Len(r) = kept
               /\ \A i \in 1..kept : r[i] = q[i]
  <2>1. /\ SubSeq(q, 1, kept) \in Seq(Seq(Nat))
        /\ Len(SubSeq(q, 1, kept)) = IF 1 <= kept THEN kept - 1 + 1 ELSE 0
        /\ \A i \in 1..(kept - 1 + 1) : SubSeq(q, 1, kept)[i] = q[1 + i - 1]
    <3>1. \A i \in 1..kept : q[i] \in Seq(Nat)
      BY <1>1
    <3> QED
      BY <1>1, <3>1, SubSeqProperties
  <2>2. kept - 1 + 1 = kept /\ (1 <= kept \/ kept = 0)
    BY <1>1
  <2>3. \A i \in 1..kept : 1 + i - 1 = i
    BY <1>1
  <2> QED
    BY <2>1, <2>2, <2>3
<1> DEFINE v == [i \in 0..kept |-> p[i]]
<1>4. v \in [0..kept -> Nat] /\ \A i \in 0..kept : v[i] = p[i]
  <2>1. \A i \in 0..kept : i \in 0..n /\ p[i] \in Nat
    <3>1. \A i \in 0..kept : i \in 0..n
      BY <1>1
    <3> QED
      BY <1>2, <3>1
  <2> QED
    BY <2>1
<1> HIDE DEF v
<1>5. kept \in 0..kept /\ v[0] = m /\ v[kept] \in Nat
  BY <1>1, <1>2, <1>4
<1>6. ASSUME NEW i \in 1..kept
      PROVE  v[i] = v[i - 1] + Len(r[i]) /\ Follows(r[i], v[i - 1])
  <2>1. i \in 1..n /\ i \in 0..kept /\ i - 1 \in 0..kept
    BY <1>1
  <2>2. v[i] = p[i] /\ v[i - 1] = p[i - 1] /\ r[i] = q[i]
    BY <1>3, <1>4, <2>1
  <2> QED
    BY <1>2, <2>1, <2>2
<1>7. ASSUME NEW i \in 0..kept, NEW j \in 0..kept, i <= j
      PROVE  v[i] <= v[j]
  <2>1. i \in 0..n /\ j \in 0..n
    BY <1>1
  <2> QED
    BY <1>2, <1>4, <1>7, <2>1
<1>8. Marks(v, r, m, v[kept])
  BY <1>3, <1>4, <1>5, <1>6, <1>7 DEF Marks
<1> QED
  BY <1>3, <1>5, <1>8 DEF Stretch

\* The frames recv_msg returned end at the a-th byte, what is on recv_queue at
\* the b-th and what is on its way at the c-th: at the last one sent, while the
\* client is there.
Whole(a, b, c) ==
  /\ Stretch(frames, 0, a)
  /\ Follows(part, a)
  /\ Follows(buffer, a + Len(part))
  /\ Stretch(rq, a + Len(part) + Len(buffer), b)
  /\ Stretch(ws, b, c)
  /\ peer = "open" => c = sent

\* Every byte is in its place, whoever has ended: unlike InboundInv, this does
\* not stop with the handler thread, and puts up with an end of the stream in
\* the middle of recv_queue, where the receiver's chunks go on behind it.
StreamInv == \E a, b, c \in Nat : Whole(a, b, c)

\* StreamInv after a step, from what the step left in each place.
LEMMA WholeAfter ==
  ASSUME NEW a \in Nat, NEW b \in Nat, NEW c \in Nat,
         Stretch(frames', 0, a),
         Follows(part', a), Follows(buffer', a + Len(part')),
         Stretch(rq', a + Len(part') + Len(buffer'), b),
         Stretch(ws', b, c), peer' = "open" => c = sent'
  PROVE  StreamInv'
<1>1. /\ Stretch(frames, 0, a)' /\ Stretch(ws, b, c)'
      /\ Stretch(rq, a + Len(part) + Len(buffer), b)'
  BY DEF Stretch, Marks, Follows
<1>2. Follows(part, a)' /\ Follows(buffer, a + Len(part))'
  BY DEF Follows
<1>3. Whole(a, b, c)'
  BY <1>1, <1>2 DEF Whole
<1> QED
  BY <1>3 DEF StreamInv

\* The end of the stream is a chunk without bytes.
LEMMA StretchEnd ==
  ASSUME NEW q \in Seq(Seq(Nat)), NEW m \in Nat, NEW e \in Nat, Stretch(q, m, e)
  PROVE  Stretch(Append(q, EOF), m, e)
<1>1. EOF \in Seq(Nat) /\ Len(EOF) = 0 /\ Follows(EOF, e)
  BY DEF EOF, Follows
<1>2. e + Len(EOF) = e
  BY <1>1
<1> QED
  BY <1>1, <1>2, StretchAppend

\* Every step keeps every byte in its place.
LEMMA StreamNext ==
  ASSUME BridgeTypes, InboundInv, StreamInv, [Next]_vars
  PROVE  StreamInv'
<1> USE DEF inbound, outbound
<1>0. /\ frames \in Seq(Seq(Nat)) /\ rq \in Seq(Seq(Nat)) /\ ws \in Seq(Seq(Nat))
      /\ part \in Seq(Nat) /\ buffer \in Seq(Nat) /\ sent \in Nat
      /\ Len(part) \in Nat /\ Len(buffer) \in Nat
  BY DEF BridgeTypes
<1>1. PICK a \in Nat, b \in Nat, c \in Nat : Whole(a, b, c)
  BY DEF StreamInv
<1>2. PICK k \in Nat, m \in Nat : k = a + Len(part) /\ m = a + Len(part) + Len(buffer)
                               /\ m = k + Len(buffer)
  <2>1. a + Len(part) \in Nat /\ a + Len(part) + Len(buffer) \in Nat
    BY <1>0
  <2> QED
    BY <2>1, Zenon
<1>3. /\ Stretch(frames, 0, a) /\ Follows(part, a) /\ Follows(buffer, k)
      /\ Stretch(rq, m, b) /\ Stretch(ws, b, c) /\ (peer = "open" => c = sent)
  BY <1>1, <1>2 DEF Whole
<1>4. ASSUME NEW n \in 1..FrameLen, ClientSend(n)
      PROVE  StreamInv'
  <2>0. /\ peer = "open" /\ ws' = Append(ws, Bytes(sent + 1, sent + n))
        /\ sent' = sent + n
        /\ UNCHANGED <<rq, buffer, part, frames, peer>>
    BY <1>4 DEF ClientSend
  <2>1. n \in Nat
    BY BridgeAssumption
  <2>2. PICK d \in Seq(Nat) : d = Bytes(sent + 1, sent + n) /\ Len(d) = n /\ Follows(d, c)
    BY <1>0, <1>3, <2>0, <2>1, BytesFollow
  <2>3. Stretch(ws', b, c + Len(d))
    BY <1>0, <1>3, <2>0, <2>2, StretchAppend
  <2>4. c + Len(d) = sent' /\ c + Len(d) \in Nat
    BY <1>3, <2>0, <2>1, <2>2
  <2> QED
    BY <1>2, <1>3, <2>0, <2>3, <2>4, WholeAfter
<1>5. ASSUME NEW kept \in 0..Len(ws), ClientLeave(kept)
      PROVE  StreamInv'
  <2>0. /\ ws' = SubSeq(ws, 1, kept) /\ peer' = "left"
        /\ UNCHANGED <<rq, buffer, part, frames>>
    BY <1>5 DEF ClientLeave
  <2>1. PICK l \in Nat : Stretch(ws', b, l)
    BY <1>0, <1>3, <2>0, StretchPrefix
  <2> QED
    BY <1>2, <1>3, <2>0, <2>1, WholeAfter
<1>6. CASE Receive
  <2>0. /\ ws # << >> /\ rq' = Append(rq, Head(ws)) /\ ws' = Tail(ws)
        /\ UNCHANGED <<sent, buffer, part, frames, peer>>
    BY <1>6 DEF Receive
  <2>1. PICK d \in Seq(Nat) : d = Head(ws) /\ Follows(d, b) /\ Stretch(ws', b + Len(d), c)
    BY <1>0, <1>3, <2>0, StretchTail
  <2>2. Stretch(rq', m, b + Len(d))
    BY <1>0, <1>3, <2>0, <2>1, StretchAppend
  <2>3. b + Len(d) \in Nat
    OBVIOUS
  <2> QED
    BY <1>2, <1>3, <2>0, <2>1, <2>2, <2>3, WholeAfter
<1>7. CASE ReceiverEnds
  <2>0. /\ rq' = Append(rq, EOF) /\ UNCHANGED <<sent, ws, buffer, part, frames, peer>>
    BY <1>7 DEF ReceiverEnds
  <2>1. Stretch(rq', m, b)
    BY <1>0, <1>3, <2>0, StretchEnd
  <2> QED
    BY <1>2, <1>3, <2>0, <2>1, WholeAfter
<1>8. CASE RecvFill
  <2>0. /\ rq # << >> /\ buffer' = buffer \o Head(rq) /\ rq' = Tail(rq)
        /\ UNCHANGED <<sent, ws, part, frames, peer>>
    BY <1>8 DEF RecvFill
  <2>1. PICK d \in Seq(Nat) : d = Head(rq) /\ Follows(d, m) /\ Stretch(rq', m + Len(d), b)
    BY <1>0, <1>3, <2>0, StretchTail
  <2>2. Follows(buffer', k) /\ Len(buffer') = Len(buffer) + Len(d)
    BY <1>0, <1>2, <1>3, <2>0, <2>1, ConcatFollows
  <2>3. a + Len(part') + Len(buffer') = m + Len(d)
    <3>1. Len(d) \in Nat /\ part' = part
      BY <2>0
    <3>2. m = a + Len(part) + Len(buffer) /\ Len(buffer') = Len(buffer) + Len(d)
      BY <1>2, <2>2
    <3> QED
      BY <1>0, <3>1, <3>2
  <2> QED
    BY <1>2, <1>3, <2>0, <2>1, <2>2, <2>3, WholeAfter
<1>9. CASE RecvTake
  <2>0. /\ thread = "recv" /\ Len(buffer) >= Needed
        /\ part' = part \o SubSeq(buffer, 1, Needed)
        /\ buffer' = SubSeq(buffer, Needed + 1, Len(buffer))
        /\ UNCHANGED <<sent, ws, rq, frames, peer>>
    BY <1>9 DEF RecvTake
  <2>1. PICK n \in 0..Len(buffer) : n = Needed
    BY <1>0, <2>0, NeededBytes
  <2>2. PICK d \in Seq(Nat) : d = SubSeq(buffer, 1, n) /\ Len(d) = n /\ Follows(d, k)
    BY <1>0, <1>3, CutFollows
  <2>3. Follows(buffer', k + n) /\ Len(buffer') = Len(buffer) - n
    BY <1>0, <1>3, <2>0, <2>1, CutFollows
  <2>4. Follows(part', a) /\ Len(part') = Len(part) + n
    <3>1. part' = part \o d /\ Follows(d, a + Len(part))
      BY <1>2, <2>0, <2>1, <2>2
    <3>2. Follows(part \o d, a) /\ Len(part \o d) = Len(part) + Len(d)
      BY <1>0, <1>3, <3>1, ConcatFollows
    <3> QED
      BY <2>2, <3>1, <3>2
  <2>5. n \in Nat /\ a + Len(part') = k + n /\ a + Len(part') + Len(buffer') = m
    BY <1>0, <1>2, <2>3, <2>4
  <2> QED
    BY <1>3, <2>0, <2>3, <2>4, <2>5, WholeAfter
<1>10. CASE RecvEnd
  <2>0. /\ rq # << >> /\ Head(rq) = EOF
        /\ UNCHANGED <<sent, ws, frames, peer>>
    BY <1>10 DEF RecvEnd
  <2>1. Tail(rq) \in Seq(Seq(Nat)) /\ Stretch(Tail(rq), m, b)
    <3>1. Stretch(Tail(rq), m + Len(EOF), b) /\ Tail(rq) \in Seq(Seq(Nat))
      BY <1>0, <1>3, <2>0, StretchTail
    <3>2. m + Len(EOF) = m
      BY DEF EOF
    <3> QED
      BY <3>1, <3>2
  <2>2. CASE buffer = << >>
    <3>1. rq' = Append(Tail(rq), EOF) /\ UNCHANGED <<buffer, part>>
      BY <1>10, <2>2 DEF RecvEnd, Close
    <3>2. Stretch(rq', m, b)
      BY <2>1, <3>1, StretchEnd
    <3> QED
      BY <1>2, <1>3, <2>0, <3>1, <3>2, WholeAfter
  <2>3. CASE buffer # << >>
    <3>1. part' = part \o buffer /\ buffer' = << >> /\ rq' = Tail(rq)
      BY <1>10, <2>3 DEF RecvEnd
    <3>2. Follows(part', a) /\ Len(part') = Len(part) + Len(buffer)
      BY <1>0, <1>2, <1>3, <3>1, ConcatFollows
    <3>3. Follows(buffer', a + Len(part')) /\ a + Len(part') + Len(buffer') = m
      <4>1. Len(buffer') = 0
        BY <3>1
      <4> QED
        BY <1>0, <1>2, <3>2, <4>1 DEF Follows
    <3> QED
      BY <1>3, <2>0, <2>1, <3>1, <3>2, <3>3, WholeAfter
  <2> QED
    BY <2>2, <2>3
<1>11. ASSUME frames' = Append(frames, part), part' = << >>,
              UNCHANGED <<sent, ws, buffer, peer>>, Stretch(rq', m, b)
       PROVE  StreamInv'
  <2>1. Stretch(frames', 0, k)
    BY <1>0, <1>2, <1>3, <1>11, StretchAppend, 0 \in Nat
  <2>2. Len(part') = 0
    BY <1>11
  <2>3. Follows(part', k) /\ k + Len(part') = k /\ k + Len(part') + Len(buffer') = m
    BY <1>2, <1>11, <2>2 DEF Follows
  <2> QED
    BY <1>3, <1>11, <2>1, <2>3, WholeAfter
<1>12. CASE Answer
  BY <1>3, <1>11, <1>12 DEF Answer
<1>13. CASE GiveUp
  <2>1. /\ frames' = Append(frames, part) /\ part' = << >> /\ rq' = Append(rq, EOF)
        /\ UNCHANGED <<sent, ws, buffer, peer>>
    BY <1>13 DEF GiveUp, Close
  <2>2. Stretch(rq', m, b)
    BY <1>0, <1>3, <2>1, StretchEnd
  <2> QED
    BY <1>11, <2>1, <2>2
<1>14. CASE UNCHANGED inbound /\ (peer' = "open" => peer = "open")
  BY <1>2, <1>3, <1>14, WholeAfter
<1> QED
  BY <1>4, <1>5, <1>6, <1>7, <1>8, <1>9, <1>10, <1>12, <1>13, <1>14
  DEF Next, EventLoop, Handler, vars, Get, Send, SenderEnds, EndpointReturns,
      Forward

-----------------------------------------------------------------------------

\* However the client's bytes were cut, wherever they are, and whichever of
\* client, tasks and handler thread have ended: recv_msg's frames, its partial
\* one, the adapter's buffer, recv_queue and the WebSocket hold them each once
\* and in order, and none is missing while the client is there.
THEOREM StreamStaysIntact == Spec => []StreamIntact
<1>1. Init => StreamInv
  <2> SUFFICES ASSUME Init PROVE StreamInv
    OBVIOUS
  <2>1. Stretch(<< >>, 0, 0) /\ Follows(<< >>, 0) /\ Len(<< >>) = 0
    BY StretchEmpty, 0 \in Nat DEF Follows
  <2>2. Whole(0, 0, 0)
    BY <2>1 DEF Init, Whole
  <2> QED
    BY <2>2 DEF StreamInv
<1>2. BridgeInv /\ StreamInv /\ [Next]_vars => StreamInv'
  BY StreamNext DEF BridgeInv
<1>3. BridgeInv /\ StreamInv => StreamIntact
  <2> SUFFICES ASSUME BridgeInv, StreamInv PROVE StreamIntact
    OBVIOUS
  <2>0. /\ frames \in Seq(Seq(Nat)) /\ rq \in Seq(Seq(Nat)) /\ ws \in Seq(Seq(Nat))
        /\ part \in Seq(Nat) /\ buffer \in Seq(Nat)
        /\ Len(part) \in Nat /\ Len(buffer) \in Nat
    BY DEF BridgeInv, BridgeTypes
  <2>1. PICK a \in Nat, b \in Nat, c \in Nat : Whole(a, b, c)
    BY DEF StreamInv
  <2>2. PICK k \in Nat, m \in Nat : k = a + Len(part) /\ m = k + Len(buffer)
    BY <2>0
  <2>3. /\ Stretch(frames, 0, a) /\ Follows(part, a) /\ Follows(buffer, k)
        /\ Stretch(rq, m, b) /\ Stretch(ws, b, c) /\ (peer = "open" => c = sent)
    BY <2>0, <2>1, <2>2 DEF Whole
  <2>4. PICK f \in Seq(Nat) : f = FlattenSeq(frames) /\ Len(f) = a /\ Follows(f, 0)
    BY <2>0, <2>3, FlattenFollows, 0 \in Nat
  <2>5. PICK r \in Seq(Nat) : r = FlattenSeq(rq) /\ m + Len(r) = b /\ Follows(r, m)
    BY <2>0, <2>3, FlattenFollows
  <2>6. PICK w \in Seq(Nat) : w = FlattenSeq(ws) /\ b + Len(w) = c /\ Follows(w, b)
    BY <2>0, <2>3, FlattenFollows
  <2>7. PICK s \in Seq(Nat) : s = part \o buffer /\ Len(s) = Len(part) + Len(buffer)
                              /\ Follows(s, a)
    BY <2>0, <2>2, <2>3, ConcatFollows
  <2>8. PICK t \in Seq(Nat) : t = s \o r /\ Len(t) = Len(s) + Len(r) /\ Follows(t, a)
    <3>1. m = a + Len(s)
      BY <2>0, <2>2, <2>7
    <3> QED
      BY <2>5, <2>7, <3>1, ConcatFollows
  <2>9. PICK u \in Seq(Nat) : u = f \o t /\ Len(u) = Len(f) + Len(t) /\ Follows(u, 0)
    <3>1. Follows(t, 0 + Len(f)) /\ 0 \in Nat
      BY <2>4, <2>8
    <3> QED
      BY <2>4, <3>1, ConcatFollows
  <2>10. PICK v \in Seq(Nat) : v = u \o w /\ Len(v) = Len(u) + Len(w) /\ Follows(v, 0)
    <3>1. 0 + Len(u) = b /\ 0 \in Nat
      BY <2>0, <2>2, <2>4, <2>5, <2>7, <2>8, <2>9
    <3> QED
      BY <2>6, <2>9, <3>1, ConcatFollows
  <2>11. v = Bytes(1, Len(v))
    <3>1. v = Bytes(0 + 1, 0 + Len(v))
      BY <2>10, FollowsIsBytes, 0 \in Nat
    <3>2. 0 + 1 = 1 /\ 0 + Len(v) = Len(v)
      OBVIOUS
    <3> QED
      BY <3>1, <3>2
  <2>12. Len(v) = c
    <3>1. Len(r) \in Nat /\ Len(w) \in Nat
      OBVIOUS
    <3>2. Len(t) = Len(part) + Len(buffer) + Len(r)
      BY <2>7, <2>8
    <3>3. a + Len(t) = b
      BY <2>0, <2>2, <2>5, <3>1, <3>2
    <3>4. Len(v) = a + Len(t) + Len(w)
      BY <2>4, <2>9, <2>10
    <3> QED
      BY <2>6, <3>3, <3>4
  <2>13. v = FlattenSeq(frames) \o Arrived \o FlattenSeq(ws)
    BY <2>4, <2>5, <2>6, <2>7, <2>8, <2>9, <2>10, Zenon DEF Arrived
  <2> QED
    BY <2>3, <2>11, <2>12, <2>13, Zenon DEF StreamIntact
<1> QED
  BY <1>1, <1>2, <1>3, BridgeInvariant, PTL DEF Spec
=============================================================================
