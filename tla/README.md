# Secure chat server: TLA+ models, checks and proofs

The repository is a chat system in Python. Clients agree on an AES key with the
server (Diffie-Hellman, ML-KEM or a hybrid of ML-KEM and X25519), log in, and
send each other messages; the server stores them in SQLite, forwards them to
recipients that are online and keeps them for those that are not. This
directory holds TLA+ modules translated from that code, TLC configurations
that check them on small instances, and proofs that TLAPS checks.

`PROJECT.json` lists the runs, the source lines each definition models, the
hazards the properties are for, one mutant per property (a plausible bug in the
code that makes TLC report the property) and the theorems.

```
tlc -workers 2 -config sessions.cfg MCChatServer     one run
tlapm StoreProofs.tla                                the proofs of one module
```

## 1. Inventory

| Component | State | Operations | Used by |
|---|---|---|---|
| connection handler (`backend/server.py`) | locals of one thread per connection: `username`, `payload`, `rec_conn`, `pending` | mode handshake, key exchange, AUTH, register, drain of the offline queue, message loop (schema, timestamp, replay check, store, route, forward, acknowledge), `finally` | started by the TCP loop or by the WebSocket endpoint |
| database (`backend/db.py`) | tables `users`, `sessions`, `messages`, `seen_messages`; `_write_queue`; one writer thread | write helpers that queue a task; read helpers that see committed rows; `start`, `stop`, `purge_old_seen` | handlers, `auth`, `register.py` |
| routing table (`backend/router.py`) | `_active_connections` under a lock | `register`, `unregister`, `get_connection` | handlers |
| message schema (`backend/protocol.py`) | none | builders, `validate`, `encode`, `decode` | everybody |
| authentication (`backend/auth.py`, `register.py`) | none of its own | `register_user`, `login`, `validate_session`, `logout` | handlers, `register.py` |
| WebSocket bridge (`backend/adapter.py`, `server_async.py`) | two queues, a buffer, two tasks, an executor thread | `recv`, `sendall`, `close`; `ws_receiver`, `ws_sender`, cancellation | stands in for the handler's socket |
| framing (`backend/utils/protocol.py`) | none | `send_msg`, `recv_msg`, `_recv_exact` | both ends |
| key exchange (`backend/crypto/*`) | fresh keys per connection | three handlers with a client and a server side; HKDF; AES-GCM | both ends |
| clients (`backend/client.py`, `client_async.py`) | one connection | single-message mode, interactive mode with a listener thread | front end, benchmarks |
| web front end (`frontend/*`) | session state of the chat page; key, message and running animations of the encryption page | send in a worker thread with a timeout; overlapping key derivations and animations; presentation | user |
| benchmarks (`benchmarks/*`) | files | drive clients, summarise, plot | developer |

How they interact. Every handler thread shares the routing table and the write
queue with all others. A handler writes to its own connection *and* to the
connection of the recipient, looked up a moment before. Writes to the database
are tasks on one queue that one writer thread executes in order; reads go
straight to the committed tables and never see the queue. `register.py` is
another process, with a queue of its own, on the same file.

What is hard here:

* *Write-behind.* A handler acts on what it queued, every reader on what is
  committed. The replay check, the drain of the offline queue and the
  acknowledgement all sit in that gap.
* *Two sessions of one user* share one routing entry.
* *Lookup, then write.* The recipient can leave, close or be replaced between
  the two; over the adapter the write does not even fail.
* *Crash and shutdown* between two commits that belong together, or between an
  acknowledgement and its commit; `stop()` while handlers go on queueing.
* *Bridging threads and tasks*: end-of-stream sentinels, cancellation of a task
  whose blocking call goes on, frames cut into several chunks.
* *Blocking reads of a fixed number of frames* in the handshake.
* *Check, then act* over a slow bcrypt, in registration and in login.
* *A client that gives up* on a send that goes on without it, and a client
  that ends while its tasks, its executor thread and its listener still run.
* *Two clocks and two windows*: how long a message is accepted, and how long
  its id is remembered.
* *Overlapping calls* of the encryption page's async functions on one page.

What makes each component correct is stated below with its module.

## 2. Modules

| Module | Models | Extends |
|---|---|---|
| `ChatBase` | names, message ids, frames (`protocol.py`) | |
| `Db` | tables, write queue, writer thread, `start`/`stop` | `ChatBase` |
| `Router` | routing table | `ChatBase` |
| `ChatServer` | `handle_client` on every connection, the clients, crash and restart | `Db`, `Router` |
| `Mailbox` | abstract: what the message store promises | |
| `Handshake` | mode marker and key exchange, both ends | |
| `Bridge` | one WebSocket connection: adapter, tasks, framing | |
| `Auth` | accounts and tokens, several processes | |
| `ReplayWindow` | age check, replay check, record and purge of message ids over time | |
| `Client` | one WebSocket client with all its tasks and threads, and the page that waits for it | |
| `Lab` | the script of the encryption page | |
| `MCChatServer` | instances of `ChatServer` for TLC | |
| `ChatServerProofs` | proofs: types, routing, frames | `ChatServer` |
| `StoreProofs` | proofs: order of the write queue, `Mailbox`, what was acknowledged is kept | `ChatServerProofs` |
| `HandshakeProofs`, `WindowProofs`, `AuthProofs`, `BridgeProofs`, `ClientProofs`, `LabProofs` | proofs | the component's module |

### ChatServer, with Db and Router

`pc[c]` is the next step of the handler of connection `c`. A step ends where
another thread can see or change what the handler works with: a database read,
a put on the write queue, an access to the routing table, a frame written. The
steps follow `handle_client` from the AUTH payload on:

| `pc` | Actions | Code |
|---|---|---|
| `auth` | `AuthOk`, `AuthFailed`, `AuthInvalid`, `AuthRaises`, `RecvFails` | receive, validate, `auth.login`, token |
| `register`, `pending` | `RegisterConn`, `ReadPending` | `router.register`, `get_pending_messages` |
| `drain`, `drained` | `Drain`, `DrainMark`, `DrainFails`, `DrainDone` | offline queue, oldest first |
| `loop` | `RecvInvalid`, `RecvReplay`, `RecvFresh`, `RecvFails` | checks of the message loop |
| `record`, `insert` | `RecordSeen`, `InsertMessage` | `record_seen`, `insert_message` |
| `route`, `forward`, `mark` | `RouteOnline`, `RouteOffline`, `RouteRaises`, `Forward`, `ForwardFails`, `Mark` | lookup, `send_msg`, `update_delivery_status` |
| `ack_sent`, `ack_delivered` | `AckSent`, `AckDelivered` | the answer to the sender |
| `cleanup` | `Cleanup` | `finally` |

An error or a token is written by the action that decides on it, the answer to
a message by a step of its own, since it follows the status update. A write
returns (`SendReturns`), or it raises (`SendRaises`): the handler then falls to
`finally`, from a drain to the message loop, from a forward to "sent". `TCP` says which transport the
connections are. Over a socket a write may raise once the peer is gone and does
raise once this process closed it; and it waits while the peer leaves `Buffer`
frames unread, in the handler of whoever writes, for a forward is a `sendall` on
another client's blocking socket. Over the adapter a write is a put, which
neither raises nor waits.

`Db!WriterStep` executes one task. An `INSERT` fails, and is rolled back, for a
second row of one id and for a row the table does not take: `validate` asks for
the fields of a payload and not for their types, so a message can pass every
check with a `to` that is null or an object, with `data` or a sender that
sqlite3 cannot bind, or with a timestamp NaN, which SQLite stores as NULL.
`Storable` are the messages without such a defect. An `UPDATE` without a row
matches nothing, `INSERT OR IGNORE` adds nothing twice. A `to` that is an object
makes `get_connection` raise (`RouteRaises`); one that is null is a user who is
never online.

A client may leave at any step (`ClientClose`), and its handler need not hear of
it: a network that fails ends no stream, and the adapter loses an end of stream
that follows part of a frame. `Restart` ends the process at any point (after
`Stop`, or by a crash) and starts it on the same tables: queue, threads,
connections and routing table are gone.

A message is its id. Its sender and recipient never change, so they are
functions of the id, and ids are numbered by timestamp, which gives the `ORDER
BY` of the offline queue its meaning. Sessions are named by the connection
that logged in. `accepted`, `handed`, `got` and `acks` are history variables
that the code does not have and no guard reads.

### Mailbox

A message store as the rest of the system would like to see it: `status` is
what the running server has taken on, `durable` what the disk holds; messages
that the disk takes (`Storable`) are taken on once, delivered once, the disk
follows one stage at a time, and a restart takes back exactly what is not on
disk. `ChatServer!RefinesMailbox`
maps `status` to `LogicalStatus` (queued tasks counted as done), `durable` to
the table and `epoch` to the number of restarts.

### Handshake

Client and handler, joined by two first-in first-out streams, from the mode
marker to the answer to AUTH; one step per frame. Secrets are symbolic terms:
`exchange` gives both ends the same term, `encapsulate`/`decapsulate` agree only
for the owner of the key, parsing bytes of the wrong kind raises, decryption
under another key raises. `combine_secrets` and `derive_aes_key` keep the order
of their arguments, so a swapped concatenation gives different keys. `first` is
what the client's AUTH payload is: one that the server accepts, one that it
refuses with an error under the new key (schema, type, credentials), or one on
which decoding or a check raises. Either side may vanish at every step.

### Bridge

One WebSocket connection: `ws_receiver`, `ws_sender` with the executor thread
that its `get` occupies, the adapter's buffer and two queues, and the handler
thread in `recv_msg`. Bytes are numbered in both directions, so that loss,
duplication, reordering and the mixing of two frames show; `send_msg` is one put
of prefix and payload. A WebSocket message is any cut of the client's stream, which is
what `WebSocketAdapter.recv` is written for; the repository's own client sends
whole frames.

### Auth

`register_user` in processes of their own (look up, hash, queue, wait for the
writer in `stop()`), `login` in handler threads (look up, verify, queue),
`logout`, expiry and `validate_session`, over the server's writer. `stop()`
waits at most 5 s, the writer is a daemon thread, and its `INSERT` may fail on a
lock of the server's writer: `RegisterCut` is the run whose row did not get in. A hash is the
salt it was made with (named by its registration) and the password;
`verify_password` compares the password.

### ReplayWindow

What `ChatServer` leaves out of the message loop: time. A handler checks the age
of a message against the clock (`Receive`), looks its id up later (`IsReplay`)
and queues its record later still (`RecordSeen`); the writer stamps the row when
it executes the task. `Purge` computes its cutoff when it is queued. The clock
advances between any two of these. `purge_old_seen` has no caller in the
repository ("call periodically"), so it may be called at any time. `Window`,
`Ahead` and `Keep` stand for 300, 30 and 300 seconds.

### Client

`main` is `async_main`, `th` the thread of `run_chat_client`, `sender` and
`receiver` the two tasks, `getter` the executor thread inside `send_queue.get`,
`listener` the thread of `_listen_loop`. In mode `"single"` the page's
`animate_and_send` starts it, waits 120 s and otherwise leaves it running; in
mode `"chat"` a user types and quits. `Cancel` is what `async_main` does when the
client thread has returned: both tasks end where they are, the executor thread
does not. The server's side is what `ChatServer` shows to one connection: it
answers AUTH, accepts or refuses messages, and writes messages of others in
between. The connection may break at any step, and with it any frames under way
to the client or all those under way to the server.

### Lab

`calls` are the calls of `animate`, each with its token, the message it read and
the await it is at and, from the encryption on, the key it encrypts with;
`sessions` the calls of `newSession`, which name the keys they draw. A step runs
to the next await, and jobs end in any order, so that of two derivations the
older can end last. `Current` is the check `token!==animToken`; it is made where
the code makes it, which is not after the await of `newSession`, so that a stale
call still rewrites the key tiles, with the key whose bytes were derived last.
The sleeps before the encryption all end in the same check and are one step.

## 3. Runs

State counts are distinct states.

| Run | Instance | Shows |
|---|---|---|
| `sessions` | 3 connections, 2 users, 1 message, adapter (3 853 844) | the routing table never leads to somebody else's or a finished connection; a user's only session is found; chat frames only reach sessions of their recipient, whatever happened between lookup and write; a message answered "delivered" is lost only with the very session it was written to |
| `crash` | 2 connections, 1 id sent twice, or once beside a message whose row the table rejects, sockets, 1 restart or shutdown (1 943 679) | the write queue stays in an order in which every task that can succeed does, and no row goes back, although two copies of an id may both pass the replay check; what was acknowledged, refused as a replay or handed out as a session is stored or queued to be, as "delivered" if that was said; the store implements `Mailbox`; no crash leaves a stored message unprotected against replay, or a message marked delivered that nobody was handed |
| `progress` | 2 connections, 1 frame beyond the logins: a message to a user, one to the server, one the table rejects, a refused login or payload, or garbage; sockets, fairness (160 926) | accepted messages are stored and handed ones marked, also when a client stops reading; if clients read, what lies in the table at a login is written to the user, connections whose stream ended are unrouted, and no handler blocks for ever |
| `handshake` | all 9 pairs of modes, 3 kinds of AUTH payload (690), deadlock checked | keys agree, different modes get no key on either side, the phase always ends, equal modes end in a session if AUTH is accepted |
| `bridge` | every cut of 2 frames of 4 bytes in, 2 frames out, fairness (146 070) | `recv_msg` gets the same bytes and whole frames however the stream was cut; the client gets the server's frames in order and none from behind `close()`, and no frame is torn by another handler's; answers put before `close()` are written; executor threads are given back; the handler of a client that leaves between two frames ends |
| `auth` | 2 names, 2 passwords, 2 registrations, 2 logins (205 473) | accounts keep their hash, every session row belongs to an account with that password, a logged-out token stays refused, a reported registration whose writer got to its row leaves an account: its own, or that of the run that was faster |
| `client` | both modes, 3 typed messages, 2 of others, fairness (220 419) | what the page shows as sent was accepted; what reaches the WebSocket is a prefix of what was handed to `sendall`, however the tasks are cancelled; every single send and every client whose thread returned ends, executor thread included; the listener ends with the connection and at `/quit` |
| `replay_window` | 1 id, 2 handlers, window 2, 1 ahead, ids kept for 2, clock to 8 (355 973) | an id that got its row is known for as long as its message is accepted, unless the message was stamped so far ahead that it outlives the row; a message with a record passes the replay check only in that case or when it grew too old between the two checks |
| `lab` | 2 acts of the user beside boot, messages of 0 to 3 bytes, 2 rows, fairness (187 758) | an older animation never overwrites the ciphertext of a newer one; a page left alone comes to show the whole ciphertext of the typed message and a key; if no two keys were derived at the same time, tiles, ciphertext and key in use are all of the key drawn last |

Runs that are expected to find a violation; each states a sentence of the
repository that the code does not live up to:

| Run | Sentence | What happens |
|---|---|---|
| `doc_replay` | README: "rejects any message whose ID has already been processed" | the second copy is checked before the writer commits the first one's record |
| `doc_online` | `router.py`: "for an active user, if online" | a refused login, or the end of an older session, unregisters the newer one |
| `doc_register` | `auth.py`: "Returns (True, "") on success, or (False, reason) on failure" | two runs of `register.py` that both found a name free are both told of success; the slower one's `INSERT` fails in the writer and its password does not work |

More effects are visible in the models and bound what the properties above can
say:

* A message answered "sent" whose `INSERT` is still queued when its recipient
  logs in is not drained by that login but by the next (the repository's README:
  "drained immediately on their next login"). `PendingDrained` therefore speaks
  of committed rows; `Custody` and `DeliveredWasHanded` say that the message
  stays in the offline queue.
* A message with a defect that `validate` lets through is recorded as seen,
  acknowledged (unless `to` is an object) and never stored, although the flow in
  `server.py` has "Persist message to DB" before "Send delivered ACK". `Custody`,
  `AcceptedIsStored`, `HandedIsMarked` and `Mailbox` therefore speak of `Storable`
  messages; that the others share queue, handlers and writer with them and do
  them no harm is part of what is shown.
* A reported registration can be lost: to another run of `register.py` that was
  faster (`doc_register`), to a lock, or because `stop()` gave up after 5 s.
  `RegisteredExists` therefore speaks of runs whose writer executed the task, and
  allows the account to be that of the other run that was told the same.
* Over sockets a client that does not read holds every handler that writes to it,
  and with it the other handlers' clients. `RequestsServed`, `PendingDrained` and
  `GoneIsUnrouted` therefore have the premise `ClientsRead`; `AcceptedIsStored`
  and `HandedIsMarked` hold without it.
* The routing entry of a client that vanished without an end of stream stays:
  `recv_msg` has no timeout. `GoneIsUnrouted` therefore begins with an end of
  stream on its way to the handler.
* A login registers before it reads the offline queue, so a message forwarded
  live in between is drained once more (`db.py` calls the pending messages those
  "that haven't been delivered"). Recipients may see a message twice.
* "delivered" means put on a queue or a socket buffer. `LostOnlyWithClient`
  therefore excepts the session the message was written to, when that has ended
  with the message unread; the end of another session of the user is no excuse.
* The acknowledgement precedes the commit. `Custody` therefore speaks of one
  life of the process, and `Mailbox!Restart` takes uncommitted messages back.
* A stream that stops inside a frame leaves its handler blocked, because the
  end-of-stream entry is consumed together with the partial bytes (`recv_msg`
  promises a `ConnectionError`). `LeftEnds` therefore asks for whole frames.
* A client whose connection breaks behind the server's acceptance reports
  "Authentication failed or the server rejected the message", and so does an
  interactive client after every `/quit`: `run_chat_client` returns `None` there,
  which `thread_target` takes for a failure. `SuccessIsStored` has no converse.
* Messages typed just before `/quit` may be lost, because the tasks are cancelled
  with frames still queued. `SentInOrder` says that only a tail is.
* With the constants of the code (300, 30, 300) `purge_old_seen` forgets the id of
  a message stamped 1 to 30 s ahead before the message is too old: the exception
  in `KnownWhileAcceptable`. `LongEnough` proves that keeping ids for 330 s would
  remove it.
* Key derivations that overlap end in any order, and the older key can end up in
  the tiles, in the ciphertext or in use, each independently of the others.
  `PageSettles` therefore says in general only that the tiles show the key whose
  bytes were derived last, and asks for agreement of all three when derivations
  never overlapped (`Alone`).

### Bounds

* `MaxSends` is how many frames the clients send, all together, beyond good
  logins. `crash` has 2: two copies of an id are what the replay check has to
  tell apart, on one connection or on two, and a third would repeat what the
  second does; or one message beside one that the table rejects, sharing its
  queue. `progress` has 1, which reaches each error path from each state, with
  the second connection logging in, reading or leaving at any time.
* `Buffer = 1` is the smallest buffer in which a frame can lie unread and the
  next writer has to wait.
* `MaxRestarts = 1`: a restart finds tables and nothing else, and any reachable
  tables can be found by the first one. The proofs cover any number.
* Three connections are the smallest number with a sender and two sessions of
  one recipient. `Conn` is a symmetry set in safety runs (a connection has no
  property of its own); runs with liveness use none.
* Each connection is used once. A client that comes back is another connection,
  so deadlock is not checked: when all connections are used, or clients
  stop typing, the server rightly has nothing to do. `Handshake` checks deadlock
  and marks its intended end with the stuttering step `Done`.
* `HeaderLen`, `FrameLen`: 2 of 4 bytes, the smallest sizes with a cut inside the prefix, between prefix and payload and inside the payload.
  `MaxFrames = 2` gives a chunk that holds the end of one frame and the start of
  the next. `MaxPuts` counts the server's frames. With `MaxPuts` used up a
  handler can still give up, so no run blocks on this bound.
* `MaxQueue` bounds the server's write queue in `Auth`; 3 tasks hold two
  insertions and an invalidation.
* `MaxForwards = 2` and `MaxTyped = 3` in `Client`: one frame held by the sender,
  one got by the executor thread and one queued when `/quit` cancels the tasks.
* In `ReplayWindow` the clock runs to 8, past the time at which a message stamped
  ahead can be recorded, purged and accepted again; `MaxQueue = 3` holds a record
  between two purges. The proofs have neither bound.
* `MaxEvents = 2` in `Lab` gives three overlapping animations and up to four key
  derivations; lengths up to one more than `MaxRows` give an empty matrix, a full
  one and a truncated one. When the user has stopped and the page has settled
  there is nothing left to do, so deadlock is not checked; nor is it in
  `replay_window`, where the clock stops at its bound.

### Fairness

Weak fairness is assumed of the writer thread, of each handler thread, of the
event loop's tasks and executor thread, of the client's threads, and of the
browser's timers and WebCrypto jobs: these are threads and tasks that the
operating system and asyncio schedule, and each has an action enabled only when
its blocking call can return. That matters for a handler's writes: a handler
waiting for room in a socket has no enabled step, and fairness asks nothing of
it. That clients make room is no assumption of the specification but a premise
of three properties (`ClientsRead`), since nothing in the code brings it about.
`Auth` assumes no fairness. Nothing is assumed of users, of the clients' choice to send, read or
leave, of the network staying up, or of restarts not happening where
`MaxRestarts` allows them. `Client` assumes fairness of the server's answers;
`RequestsServed` is that fact about `ChatServer`.

## 4. Proofs

The theorems hold for every value of the constants: any sets of users,
connections, messages, passwords, any number of sends, restarts, frames and
clicks, any length of a frame, both transports (`Handshake` has no constants).
TLC checked each property, and each inductive invariant, on a small instance
before it was proved.

The assumptions are named and stand where the constants are declared:
`MsgAssumption` (ids are positive numbers with a sender that is a user; `to` is a
user, the server, null or an object; a storable message has a recipient),
`NameAssumption` (`"server"` and what else `to` may be are no users, the null
values no users or connections), and `ChatServerAssumption`,
`WindowAssumption`, `AuthAssumption`, `BridgeAssumption`, `ClientAssumption` and
`LabAssumption` (types of parameters and bounds; a frame has at least one byte
behind its prefix).

### ChatServer: types and routing (`ChatServerProofs`)

* `TypeCorrect`: `TypeOK`, and `Locals`: at each step the handler's locals are
  assigned as the step needs them (a user after login, a message while one is
  processed, a connection between lookup and forward).
* `RouterIsSound`, `SoleSessionIsRouted`. `RoutingInv` adds to the two
  properties that a connection before its login has no name: a login that
  renamed a connection could make another one its user's only one, without an
  entry. The proof first shows that every step is one of five kinds as far as
  routing is concerned (`RoutingStep`), then looks at these.
* `FramesReachRecipient`. `FramesAddressed` is about frames already written; it
  holds because of what handlers hold at the time of writing. `Addressed` says
  that the connection a handler looked up is of the recipient (`RouterSound` at
  the lookup, and a connection never changes its user afterwards), and that the
  rows a drain read are for its own user.
* `DeliveredReachesRecipient`. `HandedKept` follows a message from each
  connection it was written to: that is one of the recipient (`Addressed`), and
  there it is read, or on its way, or that client or handler is gone.
  `ReportsHanded` says that what was reported was written somewhere, and adds
  the handler that has forwarded and not yet answered (`mark`,
  `ack_delivered`). `ReportStep` reduces the actions to what both depend on.

### ChatServer: the store (`StoreProofs`)

* `QueueInOrder`, `StoredImpliesSeen`. Neither is inductive alone. `QueueOrder`
  speaks about tasks already queued, and what keeps it is what handlers are
  about to queue; so `StoreInv` adds `HandlerOrder`: at `insert` the record is
  queued or committed, behind it (`Placed`) the insertion is, and everything in a
  `pending` list has a row. `RowsSound` adds to `StoredIsSeen` that a row is one
  that the table takes; it follows from `QueueOrder` when the writer executes an
  insertion: its record cannot be behind it. A restart keeps all three because it empties the queue and the
  handlers together.
* `ImplementsMailbox`: every step of the server is a step of `Mailbox` or a
  stutter, and for a message that the table rejects always a stutter. The proof first reduces all actions to five kinds of effect on the
  pair (row, logical status), `StoreStep`, and then maps each to one action of
  `Mailbox`. The writer's steps commit and leave the logical status alone; this
  needs `StoreInv`, without which an `UPDATE` could be executed without its row
  and silently lower the status.
* `RowsNeverGoBack`: `StatusMonotone`, from the same facts.

### ChatServer: custody (`StoreProofs`)

* `MarkedWasHanded`. A message becomes logically delivered only by a handler
  that queues its mark (`DeliveredByMark`, which needs `StoreInv`). That a handler
  at `mark` has written the message, or that it is for the server, is part of
  `ReportsHanded`; `DrainHanded` says it of one at `drained`.
* `CustodyKept`. `CustodyInv` strengthens `Custody` in four places: an id that
  is only *queued* to be recorded is in somebody's hand too, because the writer
  may record it before the handler takes its next step; a handler about to say
  "delivered" has queued the mark; a session is kept from
  the login on, before the handler registers; and a queued session row is of
  the connection's own user. A replay is refused on the strength of the record
  alone; that the message itself is stored or about to be is the first of these.

### Handshake (`HandshakeProofs`)

* `SidesAgree`, `NoKeyAcrossModes`, `OpenTowardsPeer`, all from `HandshakeInv`.
  `Handshake` has no constant and 690 states, so the run has looked at all of
  them; the proof says why they are as they are. What the key of a side will be
  is decided by the frames on their way to it. `ServerFrames` and `ClientFrames`
  number them from the first: the n-th one a side takes is the n-th of its
  peer's hello or answer, so the secret is computed from the frames of the
  agreed mode (`KeyFacts` shows for each of the three that both sides then get
  the same). `Keys` adds the order in time: the server's key is the second one,
  made from an answer that the client sends with its key in hand, so that a
  handler in its loop implies a client with the key. Under different modes the
  client reads a refusal in place of a hello, and every mode's primitives raise
  on it (`RefusalRaises`).

### ReplayWindow (`WindowProofs`)

* `KnownTheorem`, `AcceptedAgainTheorem`, `LongEnough`. `KnownWhileAcceptable`
  is not inductive: a purge waits in the queue with a cutoff from the past, and
  a row may be written between. `WindowInv` adds that no queued cutoff is ahead
  of the clock minus `Keep` (`QueueOk`), that a handler past its age check, and
  a queued record, are of a message stamped at most `Ahead` in the future
  (`HandlersOk`, `QueueOk`), and that a deleted row was older than `Keep`
  (`RowsOk`). Then a deleted id whose message is still accepted satisfies
  `received + Keep < now <= stamp + Window`, which is the exception; with
  `Keep >= Window + Ahead` nothing satisfies it.

### Auth (`AuthProofs`)

* `AuthTypeCorrect`, `AccountKeepsPassword`, `SessionsAreGenuine`,
  `RevokedTokenRefused`, from `AuthInv`. `SessionsGenuine` compares a row with
  the account as it is *now*, while `login` compared the password with a hash
  it had read before bcrypt: `LoginInv` says that the hash in hand is still the
  account's, which rests on `UsersStay` (no step changes a row of `users`).
  `RevokedRefused` is about the moment when the queue is done with a token;
  `TokenInv` says what holds before it: a token's insertion is queued or done
  once it is issued, at most one waits and nothing about the token is ahead of
  it, and an invalidation that was asked for is queued or done.
* `ReportedIsRegistered`: `RegisteredExists` is not inductive. `ReportedInv` says
  of every account that a reported run made it, so that a run whose `INSERT`
  finds a row finds such a one.

### Bridge (`BridgeProofs`)

* `FramesReturnedWhole`. `FramesWhole` is about what `recv_msg` has returned.
  `InboundInv` follows the stream back to the client without concatenating
  anything: the current frame follows the returned ones, the adapter's buffer
  follows that, the chunks on `recv_queue` and on the WebSocket follow one after
  the other (`Chained`), and none is empty except the receiver's last. It
  holds up to the end of the handler thread.
* `StreamStaysIntact`. `StreamIntact` speaks of the same bytes, but also behind
  the handler's end, when nobody reads any more and the end-of-stream entry may
  stand in the middle of `recv_queue`, with the receiver's chunks behind it.
  `StreamInv` therefore says no more than that each place holds a stretch of the
  stream that begins where the one before it ends. The property concatenates
  chunks with `FlattenSeq`, a recursive function over indices; `FlattenStretch`
  shows what it gives on a stretch. It does so without an induction theorem: the
  function that cuts the stream at the chunks' ends satisfies the defining
  equation, and any function that does agrees with it, because there would be
  a least index at which the two differ (`LeastPosition`, from the
  well-foundedness of `<`).
* `WireIsPrefix`. `OutboundInv` gives the sender's position and says for each
  entry behind it what it is: the next frame as long as there is one from before
  `close()`, then the sentinel. That no frame from behind `close()` gets past
  the sentinel is what makes this inductive; the entry that an abandoned
  executor thread takes off the queue is covered because the sender never
  works again.

### Client (`ClientProofs`)

* `SentStreamIsPrefix`: `StreamInv` is the same argument for the client's queue,
  which `close()` may end with two sentinels.
* `ShownSentIsStored`. The page's client sends one message, so every ack that
  can be on its way is of this message; `StoredInv` says so of the stream, the
  queue and the thread's result, and that an ack is among them only if the
  server has stored the message.

### Lab (`LabProofs`)

* `PageNeverOlder`: no call has a token that the counter has not reached
  (`PageInv`), and only a call with the current one writes the page.

### Only model-checked

Every invariant, action property and refinement that a passing run checks is
stated by a theorem. What is left are the properties under fairness: the
liveness properties of `progress`, and `PageSettles`, `Settles`, `SameModeOpens`, `AnswersSent`, `GetterReleased`, `LeftEnds`,
`WorkerEnds`, `ListenerEnds`. The prover has no rule for `ENABLED`, and weak
fairness rests on it.

## 5. Abstractions, and what is not modelled

* Cryptography is ideal: secrets are terms, decryption succeeds under the same
  key only, ids and tokens never collide, bcrypt accepts exactly the hashed
  password. The arithmetic, HKDF and AES-GCM belong to libraries.
* `validate` and decoding are outcomes of a received frame (`bad_chat`,
  `garbage`), not computations; so is the timestamp window in `ChatServer`, while
  `ReplayWindow` computes it. The server's clock does not go back.
* A frame is written atomically, or waits as a whole. Two handlers in `sendall`
  on one *socket* at the same time could interleave parts of large frames; over
  the adapter a frame is one `put`. Nor is an empty WebSocket message modelled,
  which the adapter takes for the end of the stream and no client sends.
* The size of the executor pool: asyncio's default has at most 32 threads and
  every live connection keeps one, so that beyond that many a connection's
  `ws_sender` waits for a thread. `Bridge` has one connection with one thread.
* Lock timeouts of the *server's* writer: a task that waits longer than sqlite3
  does for `register.py` to let go of the file is rolled back. (Those of
  `register.py` itself are `RegisterCut`.)
* Of types that `validate` lets through, those of `to`, `data` and `timestamp` in
  a CHAT and of the password in AUTH are modelled by what they lead to. A
  username that is not a string (no account has it; an object makes `finally`
  itself raise) and a `to` that is a number are not.
* The size limit of a received frame only ends the handler (`GiveUp` of
  `Bridge`). That `send_msg` raises for a frame beyond it, which a forwarded or
  drained payload can only be by what encoding it again adds, is not modelled.
* A Streamlit rerun that abandons a page in the middle of a send is not
  modelled; the worker goes on as after `UiTimeout`. The packet animation of the
  chat page runs to "Done" whatever the worker does, and shows nothing of it.
* The tamper demonstration of the encryption page reads the key and shows that
  a flipped bit is rejected, which is a fact about AES-GCM.
* The dashboard and the other pages present files and tables; styling, plots,
  `build_system` and `get_online_users` (no caller), and the command lines are
  left out.
* The benchmark scripts run one server and one client after the other and
  summarise what they print: there is no state that two steps share.

## 6. Plan

Done, in this order: `ChatBase`/`Db`/`Router`/`ChatServer` (the core), `Mailbox`
and its refinement, type correctness and the store's proofs, `Handshake`,
`Bridge`, `Auth`, `ReplayWindow` with its proofs, `Client` in both modes, `Lab`;
then the proofs about routing, custody, `Auth`, `Bridge`, `Client`, `Lab` and
`Handshake`, and of `StreamIntact`.

Next:

1. Composition on paper of `Bridge` and `ChatServer`: `ChatServer` takes a frame
   as whole and in order, which is what `FramesReturnedWhole` and `WireIsPrefix`
   give it.
2. Sockets in detail: concurrent `sendall` of two handlers, partial writes.
