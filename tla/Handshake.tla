----------------------------- MODULE Handshake ------------------------------
(***************************************************************************)
(* How a connection gets its AES key: the mode marker and the key exchange *)
(* of backend/server.py and backend/client.py over the handlers of         *)
(* crypto/kex_handlers.py, up to the first payload under the new key.      *)
(*                                                                         *)
(* Client and server are one thread each, joined by two first-in first-out *)
(* streams of frames.  A step ends with each frame sent or received.  Keys *)
(* are symbolic: a public key or ciphertext says which side drew it, and a *)
(* shared secret is what went into it.                                     *)
(***************************************************************************)
EXTENDS Naturals, Sequences

VARIABLES
  cmode, smode,   \* the mode each side was started with
  first,          \* the kind of the client's AUTH payload
  cpc, spc,       \* the next step of the client and of the handler
  cin, sin,       \* frames of the peer's key exchange received so far
  cout, sout,     \* frames of the own key exchange still to be sent
  ckey, skey,     \* aes_key of each side
  c2s, s2c,       \* frames on the way
  broken          \* history: somebody vanished

modes == <<cmode, smode, first>>
cvars == <<cpc, cin, cout, ckey>>
svars == <<spc, sin, sout, skey>>
vars == <<modes, cvars, svars, c2s, s2c, broken>>

Mode == {"dh", "ml_kem", "hybrid"}

Side == {"client", "server"}

\* A payload that the server accepts, one that it refuses (schema, type or
\* credentials), and one on which decoding or a check raises.
AuthKind == {"auth", "bad_auth", "odd_auth"}

\* The outcome of a primitive that raises, and a key not derived yet.
Raise == <<"raise">>
NoKey == <<"none">>

\* A frame: what it holds, the name it carries (a mode, or the side that drew
\* the key), and the key it is encrypted under.
Frame(kind, name) == [kind |-> kind, name |-> name, key |-> NoKey]
Sealed(kind, k) == [kind |-> kind, name |-> "", key |-> k]

-----------------------------------------------------------------------------
(* The primitives. *)

\* Diffie-Hellman and X25519: the same secret from either end.  Parsing raises
\* on bytes that are no public key of that kind.
exchange(side, kind, pub) ==
  IF pub.kind = kind THEN <<kind, {side, pub.name}>> ELSE Raise

derive_shared_secret(side, pub) == exchange(side, "dh_pub", pub)

x25519_derive_shared(side, pub) == exchange(side, "x_pub", pub)

\* ML-KEM: a fresh secret under somebody's public key, which only the owner of
\* that key gets back out of the ciphertext (others get a pseudorandom one).
encapsulate(pk) == IF pk.kind = "kem_pk" THEN <<"kem", pk.name>> ELSE Raise

decapsulate(side, ct) ==
  IF ct.kind # "kem_ct" THEN Raise
  ELSE <<IF ct.name = side THEN "kem" ELSE "rejected", side>>

\* HKDF over ml_kem_secret || x25519_secret.
combine_secrets(kem_secret, x25519_secret) ==
  IF Raise \in {kem_secret, x25519_secret} THEN Raise
  ELSE <<"hybrid", kem_secret, x25519_secret>>

\* HKDF once more, for a key of 32 bytes in every mode.
derive_aes_key(secret) == IF secret = Raise THEN Raise ELSE <<"aes", secret>>

-----------------------------------------------------------------------------
(* The handlers: how many frames each side reads, and what it makes of them. *)

ClientReads(mode) == IF mode = "ml_kem" THEN 1 ELSE 2

\* Mutant: every server side reads two frames.
ServerReadsTwo(mode) == 2

ServerReads(mode) == IF mode = "hybrid" THEN 2 ELSE 1

\* What the server has drawn itself.
Own(kind) == Frame(kind, "server")

\* Mutant: the two public keys are sent in the other order.
ServerHelloSwapped(mode) ==
  CASE mode = "dh"     -> <<Own("params"), Own("dh_pub")>>
    [] mode = "ml_kem" -> <<Own("kem_pk")>>
    [] mode = "hybrid" -> <<Own("x_pub"), Own("kem_pk")>>

\* server_side, first half: fresh keys, and the frames that announce them.
ServerHello(mode) ==
  CASE mode = "dh"     -> <<Own("params"), Own("dh_pub")>>
    [] mode = "ml_kem" -> <<Own("kem_pk")>>
    [] mode = "hybrid" -> <<Own("kem_pk"), Own("x_pub")>>

\* client_side: the secret the client gets out of the server's frames ...
ClientSecret(mode, in) ==
  CASE mode = "dh"     -> IF in[1].kind = "params"
                          THEN derive_shared_secret("client", in[2]) ELSE Raise
    [] mode = "ml_kem" -> encapsulate(in[1])
    [] mode = "hybrid" -> combine_secrets(encapsulate(in[1]),
                                      x25519_derive_shared("client", in[2]))

\* ... and the frames it answers with.
ClientHello(mode, in) ==
  CASE mode = "dh"     -> <<Frame("dh_pub", "client")>>
    [] mode = "ml_kem" -> <<Frame("kem_ct", in[1].name)>>
    [] mode = "hybrid" -> <<Frame("kem_ct", in[1].name),
                            Frame("x_pub", "client")>>

\* Mutant: server_finalize concatenates the secrets the other way round.
ServerSecretSwapped(mode, in) ==
  CASE mode = "dh"     -> derive_shared_secret("server", in[1])
    [] mode = "ml_kem" -> decapsulate("server", in[1])
    [] mode = "hybrid" -> combine_secrets(x25519_derive_shared("server", in[2]),
                                          decapsulate("server", in[1]))

\* server_side, second half.
ServerSecret(mode, in) ==
  CASE mode = "dh"     -> derive_shared_secret("server", in[1])
    [] mode = "ml_kem" -> decapsulate("server", in[1])
    [] mode = "hybrid" -> combine_secrets(decapsulate("server", in[1]),
                                      x25519_derive_shared("server", in[2]))

-----------------------------------------------------------------------------
(* The two threads. *)

\* A shared secret of one exchange, and the keys there can be.
Half == ({"dh_pub", "x_pub"} \X SUBSET Side) \cup ({"kem", "rejected"} \X Side)

Key == {NoKey} \cup ({"aes"} \X (Half \cup ({"hybrid"} \X Half \X Half)))

Kind == {"mode", "error", "params", "dh_pub", "kem_pk", "kem_ct", "x_pub",
         "ack"} \cup AuthKind

AnyFrame == [kind : Kind, name : Mode \cup Side \cup {""}, key : Key]

\* The types of the state.
TypeOK ==
  /\ cmode \in Mode /\ smode \in Mode /\ first \in AuthKind
  /\ cpc \in {"start", "recv", "send", "wait", "open", "closed"}
  /\ spc \in {"mode", "send", "recv", "auth", "open", "closed"}
  /\ {cin, sin, cout, sout, c2s, s2c} \subseteq Seq(AnyFrame)
  /\ ckey \in Key /\ skey \in Key
  /\ broken \in BOOLEAN

Init ==
  /\ cmode \in Mode /\ smode \in Mode /\ first \in AuthKind
  /\ cpc = "start" /\ spc = "mode"
  /\ cin = << >> /\ sin = << >>
  /\ cout = << >> /\ sout = << >>
  /\ ckey = NoKey /\ skey = NoKey
  /\ c2s = << >> /\ s2c = << >>
  /\ broken = FALSE

\* The client connects and names its mode.
ClientStart ==
  /\ cpc = "start"
  /\ c2s' = Append(c2s, Frame("mode", cmode))
  /\ cpc' = "recv"
  /\ UNCHANGED <<modes, cin, cout, ckey, svars, s2c, broken>>

\* One more frame of the server's.  With the last one the client derives its
\* key and prepares its answer, or a primitive raises and the client ends.
ClientRecv ==
  /\ cpc = "recv" /\ s2c # << >>
  /\ s2c' = Tail(s2c)
  /\ cin' = Append(cin, Head(s2c))
  /\ IF Len(cin') < ClientReads(cmode) THEN UNCHANGED <<cpc, cout, ckey>>
     ELSE IF ClientSecret(cmode, cin') = Raise
     THEN cpc' = "closed" /\ UNCHANGED <<cout, ckey>>
     ELSE /\ cpc' = "send"
          /\ cout' = ClientHello(cmode, cin')
          /\ ckey' = derive_aes_key(ClientSecret(cmode, cin'))
  /\ UNCHANGED <<modes, svars, c2s, broken>>

\* Mutant: the client does not wait for the answer to its AUTH payload.
ClientSendOpens ==
  /\ cpc = "send"
  /\ IF cout = << >>
     THEN /\ c2s' = Append(c2s, Sealed(first, ckey))
          /\ cpc' = "open"
          /\ UNCHANGED cout
     ELSE /\ c2s' = Append(c2s, Head(cout))
          /\ cout' = Tail(cout)
          /\ UNCHANGED cpc
  /\ UNCHANGED <<modes, cin, ckey, svars, s2c, broken>>

\* One more frame of the client's answer, and the AUTH payload behind them.
ClientSend ==
  /\ cpc = "send"
  /\ IF cout = << >>
     THEN /\ c2s' = Append(c2s, Sealed(first, ckey))
          /\ cpc' = "wait"
          /\ UNCHANGED cout
     ELSE /\ c2s' = Append(c2s, Head(cout))
          /\ cout' = Tail(cout)
          /\ UNCHANGED cpc
  /\ UNCHANGED <<modes, cin, ckey, svars, s2c, broken>>

\* The token arrives.  The client ends on an error, and decryption raises under
\* another key.
ClientToken ==
  /\ cpc = "wait" /\ s2c # << >>
  /\ s2c' = Tail(s2c)
  /\ cpc' = IF Head(s2c).kind = "ack" /\ Head(s2c).key = ckey
            THEN "open" ELSE "closed"
  /\ UNCHANGED <<modes, cin, cout, ckey, svars, c2s, broken>>

\* recv_msg raises because the server has closed, or send_msg because it is
\* a socket the server has closed.
ClientFails ==
  /\ spc = "closed"
  /\ \/ cpc \in {"recv", "wait"} /\ s2c = << >>
     \/ cpc = "send"
  /\ cpc' = "closed"
  /\ UNCHANGED <<modes, cin, cout, ckey, svars, c2s, s2c, broken>>

\* Mutant: the mode marker is read and not compared.
ServerModeUnchecked ==
  /\ spc = "mode" /\ c2s # << >>
  /\ c2s' = Tail(c2s)
  /\ spc' = "send" /\ sout' = ServerHello(smode) /\ UNCHANGED s2c
  /\ UNCHANGED <<modes, cvars, sin, skey, broken>>

\* The mode marker: another mode is refused, in clear, and the handler ends.
ServerMode ==
  /\ spc = "mode" /\ c2s # << >>
  /\ c2s' = Tail(c2s)
  /\ IF Head(c2s).name = smode
     THEN spc' = "send" /\ sout' = ServerHello(smode) /\ UNCHANGED s2c
     ELSE /\ spc' = "closed" /\ s2c' = Append(s2c, Frame("error", ""))
          /\ UNCHANGED sout
  /\ UNCHANGED <<modes, cvars, sin, skey, broken>>

ServerSend ==
  /\ spc = "send"
  /\ s2c' = Append(s2c, Head(sout))
  /\ sout' = Tail(sout)
  /\ spc' = IF Len(sout) = 1 THEN "recv" ELSE "send"
  /\ UNCHANGED <<modes, cvars, sin, skey, c2s, broken>>

\* One more frame of the client's; the last one completes the key.
ServerRecv ==
  /\ spc = "recv" /\ c2s # << >>
  /\ c2s' = Tail(c2s)
  /\ sin' = Append(sin, Head(c2s))
  /\ IF Len(sin') < ServerReads(smode) THEN UNCHANGED <<spc, skey>>
     ELSE IF ServerSecret(smode, sin') = Raise
     THEN spc' = "closed" /\ UNCHANGED skey
     ELSE spc' = "auth" /\ skey' = derive_aes_key(ServerSecret(smode, sin'))
  /\ UNCHANGED <<modes, cvars, sout, s2c, broken>>

\* The AUTH payload: accepted, refused with an error under the new key, or the
\* handler ends without an answer, as it does when decryption raises.
ServerAuth ==
  /\ spc = "auth" /\ c2s # << >>
  /\ c2s' = Tail(c2s)
  /\ \/ /\ Head(c2s) = Sealed("auth", skey)
        /\ spc' = "open"
        /\ s2c' = Append(s2c, Sealed("ack", skey))
     \/ /\ Head(c2s) = Sealed("bad_auth", skey)
        /\ spc' = "closed"
        /\ s2c' = Append(s2c, Sealed("error", skey))
     \/ /\ Head(c2s) \notin {Sealed("auth", skey), Sealed("bad_auth", skey)}
        /\ spc' = "closed"
        /\ UNCHANGED s2c
  /\ UNCHANGED <<modes, cvars, sin, sout, skey, broken>>

ServerFails ==
  /\ cpc = "closed"
  /\ \/ spc \in {"mode", "recv", "auth"} /\ c2s = << >>
     \/ spc = "send"
  /\ spc' = "closed"
  /\ UNCHANGED <<modes, cvars, sin, sout, skey, c2s, s2c, broken>>

\* A process or its network goes away in the middle.
ClientVanishes ==
  /\ cpc \notin {"open", "closed"}
  /\ cpc' = "closed" /\ broken' = TRUE
  /\ UNCHANGED <<modes, cin, cout, ckey, svars, c2s, s2c>>

ServerVanishes ==
  /\ spc \notin {"open", "closed"}
  /\ spc' = "closed" /\ broken' = TRUE
  /\ UNCHANGED <<modes, cvars, sin, sout, skey, c2s, s2c>>

Settled == cpc \in {"open", "closed"} /\ spc \in {"open", "closed"}

\* The end of this phase: the message loop, or the end of both threads.
Done == Settled /\ UNCHANGED vars

Client == ClientStart \/ ClientRecv \/ ClientSend \/ ClientToken \/ ClientFails

Handler ==
  ServerMode \/ ServerSend \/ ServerRecv \/ ServerAuth \/ ServerFails

Next == Client \/ Handler \/ ClientVanishes \/ ServerVanishes \/ Done

Spec == Init /\ [][Next]_vars

\* Both threads run; nothing forces anybody to vanish.
FairSpec == Spec /\ WF_vars(Client) /\ WF_vars(Handler)

-----------------------------------------------------------------------------

\* Whenever both sides have derived a key, in whatever order and whatever else
\* happened, it is the same one: "derive the same hybrid shared secret".
KeysAgree == NoKey \in {ckey, skey} \/ ckey = skey

\* Different modes never get as far as a key, on either side: what the client
\* reads in place of a public key is the refusal, and its primitives raise.
MismatchHasNoKey == cmode # smode => ckey = NoKey /\ skey = NoKey

\* Nobody opens towards a peer that is not there with the same key: a client
\* that goes on to chat has a handler in its message loop, and a handler that
\* accepted AUTH has a client with its key, alive or not.
OpenHasPeer ==
  /\ spc = "open" => ckey = skey /\ ckey # NoKey
  /\ cpc = "open" => spc = "open"

\* Nobody is left waiting on a receive: the phase always ends on both sides.
Settles == <>Settled

\* With the same mode and an AUTH payload the server accepts, and nobody
\* vanishing, it ends in an open session.
SameModeOpens ==
  cmode = smode /\ first = "auth" =>
    <>(broken \/ (cpc = "open" /\ spc = "open"))
=============================================================================
