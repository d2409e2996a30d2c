-------------------------------- MODULE Lab --------------------------------
(***************************************************************************)
(* frontend/encryption_lab.py: the page script that encrypts the typed     *)
(* message with a session key and animates the result.                     *)
(*                                                                         *)
(* The script is single-threaded, but animate and newSession are async:    *)
(* any number of calls of each are under way at once, and share the key,   *)
(* the page and the counter animToken.  A step runs from one await to the  *)
(* next; timers and WebCrypto jobs end in any order.  A message stands for *)
(* its length in bytes, a key for the newSession call that drew it.  The   *)
(* tamper test only reads the key and is left out, as are the packets and  *)
(* highlights that carry no data.                                          *)
(***************************************************************************)
EXTENDS Naturals, Sequences, FiniteSetsExt

CONSTANTS
  MaxLen,      \* bound: longest message
  MaxRows,     \* MAX_ROWS: the bytes that get a row of their own
  MaxEvents    \* bound: what the user does

ASSUME LabAssumption == MaxLen \in Nat /\ MaxRows \in Nat /\ MaxEvents \in Nat

VARIABLES
  events,      \* how often the user has done something
  msg,         \* the message in the input field
  deb,         \* is the debounce timer running?
  animToken,   \* the token of the latest animate
  calls,       \* the calls of animate, in the order they began
  sessions,    \* the calls of newSession
  keyBytesHex, \* the key for display, 0 when there is none
  aesKey,      \* the key in use, 0 when there is none
  tiles,       \* the key in the tiles of the page
  out          \* ciphertext on the page: of which call and message, under
               \* which key, and how many of its bytes

input == <<events, msg, deb>>
keys == <<keyBytesHex, aesKey>>
vars == <<input, animToken, calls, sessions, keys, tiles, out>>

\* A call of newSession made by animate call c, or by a click or boot (0).
newSession(c) == [at |-> "base", caller |-> c]

\* What a call of animate does up to its first await.
animate(running, key) ==
  /\ animToken' = animToken + 1
  /\ calls' = Append(calls,
       [at |-> IF key = 0 THEN "session" ELSE "packets",
        token |-> animToken + 1, text |-> msg, key |-> 0, rows |-> 0])
  /\ sessions' = IF key = 0 THEN Append(running, newSession(Len(calls) + 1))
                 ELSE running
  /\ tiles' = IF key = 0 THEN tiles ELSE keyBytesHex

\* Boot: newSession has begun.
Init ==
  /\ events = 0
  /\ msg = MaxLen
  /\ deb = FALSE
  /\ animToken = 0
  /\ calls = << >>
  /\ sessions = <<newSession(0)>>
  /\ keyBytesHex = 0
  /\ aesKey = 0
  /\ tiles = 0
  /\ out = [token |-> 0, text |-> 0, key |-> 0, bytes |-> 0]

-----------------------------------------------------------------------------
(* Events. *)

UserActs == events < MaxEvents /\ events' = events + 1

\* A key stroke (re)starts the debounce timer.
Edit(t) ==
  /\ UserActs
  /\ msg' = t
  /\ deb' = TRUE
  /\ UNCHANGED <<animToken, calls, sessions, keys, tiles, out>>

Debounce ==
  /\ deb
  /\ deb' = FALSE
  /\ animate(sessions, aesKey)
  /\ UNCHANGED <<events, msg, keys, out>>

\* The run button, or a mode button (whose setMode only changes labels).
Run ==
  /\ UserActs
  /\ animate(sessions, aesKey)
  /\ UNCHANGED <<msg, deb, keys, out>>

Rekey ==
  /\ UserActs
  /\ sessions' = Append(sessions, newSession(0))
  /\ UNCHANGED <<msg, deb, animToken, calls, keys, tiles, out>>

-----------------------------------------------------------------------------
(* deriveKeyFromSecret, one action per await. *)

At(s, here) == sessions[s].at = here

Imported(s) ==
  /\ At(s, "base")
  /\ sessions' = [sessions EXCEPT ![s].at = "bits"]
  /\ UNCHANGED <<input, animToken, calls, keys, tiles, out>>

Derived(s) ==
  /\ At(s, "bits")
  /\ keyBytesHex' = s
  /\ sessions' = [sessions EXCEPT ![s].at = "aes"]
  /\ UNCHANGED <<input, animToken, calls, aesKey, tiles, out>>

\* Mutant: animate draws its token only after the await of newSession.
ResumeLate(c) ==
  /\ animToken' = animToken + 1
  /\ calls' = [calls EXCEPT ![c].at = "packets", ![c].token = animToken + 1]

\* An animate that waited for the key goes on, whatever its token.
Resume(c) ==
  /\ calls' = [calls EXCEPT ![c].at = "packets"]
  /\ UNCHANGED animToken

\* The key is there, and the caller of newSession goes on in the same turn:
\* a click or boot calls animate.
KeyReady(s) ==
  LET done == [sessions EXCEPT ![s].at = "done"]
      c == sessions[s].caller
  IN
  /\ At(s, "aes")
  /\ aesKey' = s
  /\ \/ c = 0 /\ animate(done, s)
     \/ c # 0 /\ Resume(c) /\ sessions' = done /\ tiles' = keyBytesHex
  /\ UNCHANGED <<input, keyBytesHex, out>>

-----------------------------------------------------------------------------
(* animate, from one await to the next. *)

\* Mutant: no check of the token after an await.
AlwaysCurrent(c) == TRUE

Current(c) == calls[c].token = animToken

shown(c) == Min({calls[c].text, MaxRows})

\* Call c goes on at a place, if it is still the latest, and otherwise ends.
Goto(c, place) ==
  calls' = [calls EXCEPT ![c].at = IF Current(c) THEN place ELSE "ended"]

\* The sleeps of the handshake and of the tiles.  Each ends in the same check,
\* and a call that failed it once always would: they are one.  Encryption
\* begins, with the key in use now.
PacketsCross(c) ==
  /\ calls[c].at = "packets"
  /\ calls' = [calls EXCEPT ![c].at = IF Current(c) THEN "encrypt" ELSE "ended",
                           ![c].key = IF Current(c) THEN aesKey ELSE @]
  /\ UNCHANGED <<input, animToken, sessions, keys, tiles, out>>

\* The ciphertext of a call, none of it on the page yet.
encryptMessage(c) ==
  [token |-> calls[c].token, text |-> calls[c].text, key |-> calls[c].key,
   bytes |-> 0]

\* Row i of the matrix is revealed (none, when the message is empty), and its
\* byte joins the ciphertext.
RevealRow(c, i) ==
  /\ calls' = [calls EXCEPT ![c].at = IF i = 0 THEN "last" ELSE "reveal",
                           ![c].rows = i]
  /\ out' = [encryptMessage(c) EXCEPT !.bytes = i]

\* Encryption is done: the matrix is built and its first row revealed.
Encrypted(c) ==
  /\ calls[c].at = "encrypt"
  /\ IF Current(c)
     THEN RevealRow(c, Min({1, shown(c)}))
     ELSE Goto(c, "ended") /\ UNCHANGED out
  /\ UNCHANGED <<input, animToken, sessions, keys, tiles>>

\* The next row; after the last one animate sleeps once more.
Reveal(c) ==
  /\ calls[c].at = "reveal"
  /\ IF calls[c].rows < shown(c)
     THEN IF Current(c) THEN RevealRow(c, calls[c].rows + 1)
          ELSE Goto(c, "ended") /\ UNCHANGED out
     ELSE /\ calls' = [calls EXCEPT ![c].at = "last"]
          /\ UNCHANGED out
  /\ UNCHANGED <<input, animToken, sessions, keys, tiles>>

\* The whole ciphertext, with the bytes that have no row.
Finish(c) ==
  /\ calls[c].at = "last"
  /\ Goto(c, "ended")
  /\ out' = IF Current(c) THEN [out EXCEPT !.bytes = calls[c].text] ELSE out
  /\ UNCHANGED <<input, animToken, sessions, keys, tiles>>

Session(s) == Imported(s) \/ Derived(s) \/ KeyReady(s)

Call(c) == PacketsCross(c) \/ Encrypted(c) \/ Reveal(c) \/ Finish(c)

Next ==
  \/ \E t \in 0..MaxLen : Edit(t)
  \/ Debounce \/ Run \/ Rekey
  \/ \E s \in DOMAIN sessions : Session(s)
  \/ \E c \in DOMAIN calls : Call(c)

\* Timers fire and WebCrypto jobs end.
FairSpec ==
  /\ Init /\ [][Next]_vars
  /\ WF_vars(Debounce)
  /\ \A s \in 1..(2 * MaxEvents + 2) :
       WF_vars(s \in DOMAIN sessions /\ Session(s))
  /\ \A c \in 1..(MaxEvents + 1) : WF_vars(c \in DOMAIN calls /\ Call(c))

-----------------------------------------------------------------------------

\* The ciphertext on the page is never overwritten by an older animation,
\* however late its timers and jobs end ("cancels stale animations").
NeverOlder == [][out'.token >= out.token]_vars

\* At most one key is being derived.
Alone ==
  \A s, t \in DOMAIN sessions :
    {sessions[s].at, sessions[t].at} \subseteq {"base", "bits", "aes"} => s = t

\* When the user leaves the page alone it comes to show the whole ciphertext of
\* the message in the field, and in the tiles the key whose bytes were derived
\* last: no call is cancelled without another one that takes its place.  If
\* keys were never derived at the same time, tiles, ciphertext and key in use
\* are all of the key drawn last.  (Otherwise an older key can end up in any
\* of the three, for derivations end in any order.)
PageSettles ==
  /\ <>[](out.text = msg /\ out.bytes = msg /\ aesKey # 0 /\ tiles = keyBytesHex)
  /\ []Alone => <>[]({tiles, out.key, aesKey} = {Len(sessions)})
=============================================================================
