---------------------------- MODULE WindowProofs ----------------------------
(***************************************************************************)
(* Proofs about ReplayWindow, for any windows, any number of handlers and  *)
(* any length of the write queue.                                          *)
(***************************************************************************)
EXTENDS ReplayWindow, TLAPS

\* What passed the age check was stamped at most Ahead ahead of the clock, and
\* stays so: the clock only goes forward.
NotAhead(m) == m \in Msg /\ stamp[m] <= now + Ahead

\* A handler that is past the age check has such a message, ...
HandlersOk ==
  \A h \in Handler : pc[h] \in {"replay", "record"} => NotAhead(cur[h])

\* ... so has every queued record, and a queued purge was called before now.
QueueOk ==
  \A i \in 1..Len(wq) :
    /\ wq[i].op = "record" => NotAhead(wq[i].id)
    /\ wq[i].op = "purge" => wq[i].cutoff <= now - Keep

\* A row was stamped at most Ahead ahead of its received_at, and one that is
\* missing was received more than Keep ago.
RowsOk ==
  /\ seen \subseteq ever
  /\ \A m \in ever :
       /\ stamp[m] <= received[m] + Ahead
       /\ m \notin seen => received[m] + Keep < now

WindowInv == TypeOK /\ HandlersOk /\ QueueOk /\ RowsOk

\* An empty guard satisfies the invariant.
LEMMA InitWindow == Init => WindowInv
  BY WindowAssumption
     DEF Init, WindowInv, TypeOK, HandlersOk, QueueOk, RowsOk

\* The tail of the queue keeps what holds of all its tasks.
LEMMA TailFacts ==
  ASSUME NEW q \in Seq(Task), q # << >>
  PROVE  /\ Head(q) = q[1] /\ 1 \in 1..Len(q)
         /\ Tail(q) \in Seq(Task)
         /\ \A i \in 1..Len(Tail(q)) : i + 1 \in 1..Len(q) /\ Tail(q)[i] = q[i + 1]
  OBVIOUS

\* So does a queue with one more of them at its end.
LEMMA AppendFacts ==
  ASSUME NEW q \in Seq(Task), NEW t \in Task
  PROVE  /\ Append(q, t) \in Seq(Task)
         /\ \A i \in 1..Len(Append(q, t)) :
              \/ i \in 1..Len(q) /\ Append(q, t)[i] = q[i]
              \/ Append(q, t)[i] = t
  OBVIOUS

\* Every step of the guard, the clock and the senders keeps it.
LEMMA NextWindow == WindowInv /\ [Next]_vars => WindowInv'
<1> SUFFICES ASSUME WindowInv, [Next]_vars PROVE WindowInv'
  OBVIOUS
<1> USE WindowAssumption DEF WindowInv
<1>1. CASE Tick
  <2>1. TypeOK' /\ now' = now + 1
    BY <1>1 DEF Tick, TypeOK
  <2>2. \A m : NotAhead(m) => NotAhead(m)'
    BY <1>1, <2>1 DEF Tick, NotAhead, TypeOK
  <2>3. HandlersOk'
    BY <1>1, <2>2 DEF Tick, HandlersOk
  <2>4. QueueOk'
    <3> SUFFICES ASSUME NEW i \in 1..Len(wq)
                 PROVE  /\ wq[i].op = "record" => NotAhead(wq[i].id)'
                        /\ wq[i].op = "purge" => wq[i].cutoff <= now' - Keep
      BY <1>1 DEF Tick, QueueOk
    <3>1. wq[i] \in Task
      BY DEF TypeOK
    <3>2. wq[i].op = "record" => NotAhead(wq[i].id)'
      BY <1>1, <2>2 DEF QueueOk, Tick
    <3>3. wq[i].op = "purge" => wq[i].cutoff <= now - Keep
      BY DEF QueueOk
    <3>4. wq[i].cutoff \in Int /\ now \in Int
      BY <3>1 DEF Task, TypeOK
    <3> QED
      BY <2>1, <3>2, <3>3, <3>4
  <2>5. RowsOk'
    BY <1>1, <2>1 DEF Tick, RowsOk, TypeOK
  <2> QED
    BY <2>1, <2>3, <2>4, <2>5
<1>2. ASSUME NEW h \in Handler, NEW m \in Msg, Receive(h, m) PROVE WindowInv'
  <2>1. TypeOK' /\ QueueOk' /\ RowsOk'
    BY <1>2 DEF Receive, TypeOK, QueueOk, RowsOk, NotAhead
  <2>2. NotAhead(m)'
    BY <1>2 DEF Receive, InWindow, NotAhead, TypeOK
  <2>3. HandlersOk'
    BY <1>2, <2>2 DEF Receive, HandlersOk, NotAhead, TypeOK
  <2> QED
    BY <2>1, <2>3
<1>3. ASSUME NEW h \in Handler, IsReplay(h) PROVE WindowInv'
  <2>1. QueueOk' /\ RowsOk'
    BY <1>3 DEF IsReplay, QueueOk, RowsOk, NotAhead
  <2>2. TypeOK' /\ HandlersOk'
    BY <1>3 DEF IsReplay, TypeOK, HandlersOk, NotAhead
  <2> QED
    BY <2>1, <2>2
<1>4. ASSUME NEW h \in Handler, RecordSeen(h) PROVE WindowInv'
  <2>1. NotAhead(cur[h]) /\ record_seen(cur[h]) \in Task
    BY <1>4 DEF RecordSeen, HandlersOk, record_seen, Task, NotAhead
  <2>2. TypeOK' /\ HandlersOk' /\ RowsOk'
    BY <1>4, <2>1, AppendFacts DEF RecordSeen, TypeOK, HandlersOk, RowsOk, NotAhead
  <2>3. QueueOk'
    <3> SUFFICES ASSUME NEW i \in 1..Len(wq')
                 PROVE  /\ wq'[i].op = "record" => NotAhead(wq'[i].id)
                        /\ wq'[i].op = "purge" => wq'[i].cutoff <= now - Keep
      BY <1>4 DEF RecordSeen, QueueOk, NotAhead
    <3>1. (i \in 1..Len(wq) /\ wq'[i] = wq[i]) \/ wq'[i] = record_seen(cur[h])
      BY <1>4, <2>1, AppendFacts DEF RecordSeen, TypeOK
    <3> QED
      BY <2>1, <3>1 DEF QueueOk, record_seen
  <2> QED
    BY <2>2, <2>3
<1>5. CASE Purge
  <2>1. purge_old_seen(now) \in Task
    BY DEF purge_old_seen, Task, TypeOK
  <2>2. TypeOK' /\ HandlersOk' /\ RowsOk'
    BY <1>5, <2>1, AppendFacts DEF Purge, TypeOK, HandlersOk, RowsOk, NotAhead
  <2>3. QueueOk'
    <3> SUFFICES ASSUME NEW i \in 1..Len(wq')
                 PROVE  /\ wq'[i].op = "record" => NotAhead(wq'[i].id)
                        /\ wq'[i].op = "purge" => wq'[i].cutoff <= now - Keep
      BY <1>5 DEF Purge, QueueOk, NotAhead
    <3>1. (i \in 1..Len(wq) /\ wq'[i] = wq[i]) \/ wq'[i] = purge_old_seen(now)
      BY <1>5, <2>1, AppendFacts DEF Purge, TypeOK
    <3> QED
      BY <3>1 DEF QueueOk, purge_old_seen, TypeOK
  <2> QED
    BY <2>2, <2>3
<1>6. CASE Writer
  <2> DEFINE t == Head(wq)
  <2>1. t = wq[1] /\ 1 \in 1..Len(wq) /\ t \in Task
    BY <1>6, TailFacts DEF Writer, TypeOK
  <2>2. /\ wq' = Tail(wq) /\ wq' \in Seq(Task)
        /\ \A i \in 1..Len(wq') : i + 1 \in 1..Len(wq) /\ wq'[i] = wq[i + 1]
    BY <1>6, TailFacts DEF Writer, TypeOK
  <2>3. QueueOk' /\ HandlersOk'
    BY <1>6, <2>2 DEF Writer, QueueOk, HandlersOk, NotAhead
  <2>4. CASE t.op = "record"
    <3>1. NotAhead(t.id)
      BY <2>1, <2>4 DEF QueueOk
    <3>2. ExecRecord(t.id) /\ UNCHANGED <<now, stamp, pc, cur>>
      BY <1>6, <2>4 DEF Writer
    <3>3. TypeOK'
      BY <2>2, <3>1, <3>2 DEF TypeOK, ExecRecord, NotAhead
    <3>4. RowsOk'
      BY <3>1, <3>2 DEF RowsOk, ExecRecord, NotAhead, TypeOK
    <3> QED
      BY <2>3, <3>3, <3>4
  <2>5. CASE t.op = "purge"
    <3>1. t.cutoff <= now - Keep /\ t.cutoff \in Int
      BY <2>1, <2>5 DEF QueueOk, Task
    <3>2. ExecPurge(t.cutoff) /\ UNCHANGED <<now, stamp, pc, cur>>
      BY <1>6, <2>5 DEF Writer
    <3>3. TypeOK'
      BY <2>2, <3>2 DEF TypeOK, ExecPurge
    <3>4. RowsOk'
      BY <3>1, <3>2 DEF RowsOk, ExecPurge, TypeOK
    <3> QED
      BY <2>3, <3>3, <3>4
  <2> QED
    BY <2>1, <2>4, <2>5 DEF Task
<1>7. CASE UNCHANGED vars
  BY <1>7 DEF vars, TypeOK, HandlersOk, QueueOk, RowsOk, NotAhead
<1> QED
  BY <1>1, <1>2, <1>3, <1>4, <1>5, <1>6, <1>7 DEF Next

\* The invariant holds in every reachable state.
LEMMA WindowAlways == Spec => []WindowInv
  BY InitWindow, NextWindow, PTL DEF Spec

\* The invariant says why a recorded message that is still acceptable has its
\* row: without it, it would be older than Keep.
LEMMA InvKnown == WindowInv => KnownWhileAcceptable
<1> SUFFICES ASSUME WindowInv, NEW m \in ever, InWindow(m), m \notin seen
             PROVE  OutlivesRow(m) /\ stamp[m] <= received[m] + Ahead
  BY DEF KnownWhileAcceptable
<1>1. m \in Msg /\ stamp[m] \in Int /\ received[m] \in Int /\ now \in Int
  BY DEF WindowInv, TypeOK
<1> QED
  BY <1>1, WindowAssumption DEF WindowInv, RowsOk, InWindow, OutlivesRow

\* KnownWhileAcceptable for any windows: whenever the table is purged, the
\* replay check knows every recorded message the age check would let pass.
THEOREM KnownTheorem == Spec => []KnownWhileAcceptable
  BY WindowAlways, InvKnown, PTL

\* AcceptedAgain for any windows: the age check of handle_client and its replay
\* check let a recorded message pass together only if it was stamped ahead, or
\* grew too old in between.
THEOREM AcceptedAgainTheorem == Spec => AcceptedAgain
<1>1. WindowInv /\ [Next]_vars =>
        [\A h \in Handler :
           pc[h] = "replay" /\ pc'[h] = "record" /\ cur[h] \in ever
           => OutlivesRow(cur[h]) \/ ~InWindow(cur[h])]_vars
  <2> SUFFICES ASSUME WindowInv, Next, NEW h \in Handler,
                      pc[h] = "replay", pc'[h] = "record", cur[h] \in ever
               PROVE  OutlivesRow(cur[h]) \/ ~InWindow(cur[h])
    OBVIOUS
  <2>1. cur[h] \notin seen
    BY DEF Next, Tick, Receive, IsReplay, RecordSeen, Purge, Writer, WindowInv, TypeOK
  <2> QED
    BY <2>1, InvKnown DEF KnownWhileAcceptable
<1> QED
  BY <1>1, WindowAlways, PTL DEF Spec, AcceptedAgain

\* With rows kept for Window + Ahead the exception is empty: 330 seconds instead
\* of REPLAY_WINDOW_SECONDS = 300 would close the gap between the two constants.
THEOREM LongEnough ==
  ASSUME Keep >= Window + Ahead
  PROVE  Spec => [](\A m \in ever : InWindow(m) => m \in seen)
<1>1. WindowInv => \A m \in ever : InWindow(m) => m \in seen
  <2> SUFFICES ASSUME WindowInv, NEW m \in ever, InWindow(m), m \notin seen
               PROVE  FALSE
    OBVIOUS
  <2>1. m \in Msg /\ stamp[m] \in Int /\ received[m] \in Int
    BY DEF WindowInv, TypeOK
  <2>2. OutlivesRow(m) /\ stamp[m] <= received[m] + Ahead
    BY InvKnown DEF KnownWhileAcceptable
  <2> QED
    BY <2>1, <2>2, WindowAssumption DEF OutlivesRow
<1> QED
  BY <1>1, WindowAlways, PTL
=============================================================================
