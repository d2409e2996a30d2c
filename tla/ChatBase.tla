------------------------------ MODULE ChatBase ------------------------------
(***************************************************************************)
(* The vocabulary shared by the modules that model the chat server: who    *)
(* takes part, and what a message is.                                      *)
(*                                                                         *)
(* A message is named by its message_id (build_chat draws 128 random bits, *)
(* so ids never collide by chance).  Its payload never changes, so sender  *)
(* and recipient are functions of the id.  Ids are numbered by the         *)
(* payload's timestamp, which becomes the created_at column that the       *)
(* offline queue is ordered by.                                            *)
(***************************************************************************)
EXTENDS Naturals

CONSTANTS
  User,     \* usernames
  Conn,     \* connections; each has one handler thread and one client
  Msg,      \* message ids, numbered in the order of their timestamps
  From,     \* From[m]: the user whose clients send message m
  To,       \* To[m]: the "to" field of message m
  Storable, \* the messages the messages table takes
  NoUser,   \* a local `username` that has not been assigned
  NoConn    \* the answer of the routing table for a user without an entry

\* The recipient that means the server itself: recipient == "server".
Server == "server"

\* What else "to" may be: validate asks for the field, not for its type.
Null == "null"
Object == "object"

\* The id field of frames that carry no message id.
NoMsg == 0

\* The table takes no row without a sender, a recipient or a created_at (NOT
\* NULL; SQLite stores a NaN as NULL), and sqlite3 binds no list or object.
\* None of this keeps a payload from passing validate.
ASSUME MsgAssumption ==
  /\ Msg \subseteq Nat \ {NoMsg}
  /\ From \in [Msg -> User]
  /\ To \in [Msg -> User \cup {Server, Null, Object}]
  /\ Storable \subseteq Msg
  /\ \A m \in Storable : To[m] \notin {Null, Object}

ASSUME NameAssumption ==
  /\ {Server, Null, Object} \cap User = {}
  /\ NoUser \notin User
  /\ NoConn \notin Conn

\* proto.build_chat: the payload carries its sender and recipient with its id.
build_chat(m) == [type |-> "chat", id |-> m]

\* proto.build_ack: ref_id names the message, status says what became of it.
build_ack(m, status) == [type |-> status, id |-> m]

\* proto.build_error: the client tells errors apart by their text only.
build_error == [type |-> "error", id |-> NoMsg]

\* What the server writes to a connection.
OutFrame == [type : {"authenticated", "error"}, id : {NoMsg}]
            \cup [type : {"chat", "sent", "delivered"}, id : Msg]

\* What a handler thread reads from its connection: an AUTH payload that
\* login accepts or does not, a CHAT payload that passes the schema, timestamp
\* and type checks or fails one of them, something on which decryption,
\* decoding, framing or a check itself raises, or the end of the stream.
InFrame == [type : {"auth", "bad_auth"}, user : User, id : {NoMsg}]
           \cup [type : {"chat"}, user : {NoUser}, id : Msg]
           \cup [type : {"bad_chat", "garbage", "eof"},
                 user : User \cup {NoUser}, id : {NoMsg}]

EOF == [type |-> "eof", user |-> NoUser, id |-> NoMsg]
=============================================================================
