--------------------------- MODULE HandshakeProofs --------------------------
(***************************************************************************)
(* Proofs about Handshake, for every interleaving of the two threads and   *)
(* wherever one of them vanishes: both sides derive the same key, none     *)
(* under different modes, and nobody opens without its peer.               *)
(***************************************************************************)
EXTENDS Handshake, TLAPS, SequenceTheorems

-----------------------------------------------------------------------------
(* Both sides of a mode, each with nothing but the other's frames. *)

\* The client's answer to the frames the server sends in this mode, and the
\* key it derives from them.
Answer(mode) == ClientHello(mode, ServerHello(mode))
KeyOf(mode) == derive_aes_key(ClientSecret(mode, ServerHello(mode)))

-----------------------------------------------------------------------------
(* The inductive invariant. *)

\* The steps at which the handler still reads.
Reading == {"mode", "send", "recv", "auth"}

\* How many of the client's frames it has read.
Taken == IF spc = "mode" THEN 0 ELSE 1 + Len(sin)

\* A side has a key from the step that derives it on, it is the one its mode
\* stands for, the server's comes second, and there is none without agreement
\* on the mode.
Keys ==
  /\ ckey \in {NoKey, KeyOf(cmode)} /\ skey \in {NoKey, KeyOf(smode)}
  /\ cpc \in {"start", "recv"} => ckey = NoKey
  /\ cpc \in {"send", "wait", "open"} => ckey # NoKey
  /\ spc \in {"mode", "send", "recv"} => skey = NoKey
  /\ spc \in {"auth", "open"} => skey # NoKey
  /\ skey # NoKey => ckey # NoKey
  /\ cmode # smode => ckey = NoKey /\ spc \in {"mode", "closed"}

\* The frames from the server: the refusal, or its hello from the place on
\* that the client has got to, the rest of which is still to be sent.
ServerFrames ==
  /\ cpc \in {"start", "recv"} /\ cmode # smode =>
       /\ \A i \in 1..Len(cin) : cin[i].kind = "error"
       /\ \A i \in 1..Len(s2c) : s2c[i].kind = "error"
  /\ cpc \in {"start", "recv"} /\ cmode = smode =>
       /\ Len(cin) < ClientReads(cmode)
       /\ Len(cin) + Len(s2c) <= Len(ServerHello(smode))
       /\ \A i \in 1..Len(cin) : cin[i] = ServerHello(smode)[i]
       /\ \A i \in 1..Len(s2c) : s2c[i] = ServerHello(smode)[Len(cin) + i]
       /\ spc = "mode" => Len(cin) = 0 /\ Len(s2c) = 0
       /\ spc = "send" =>
            Len(cin) + Len(s2c) + Len(sout) = Len(ServerHello(smode))
  /\ cpc = "start" => Len(cin) = 0
  /\ spc = "send" =>
       /\ Len(sout) \in 1..Len(ServerHello(smode))
       /\ \A i \in 1..Len(sout) : sout[i] =
            ServerHello(smode)[Len(ServerHello(smode)) - Len(sout) + i]

\* The frames from the client, numbered from the first one it sends: the mode
\* marker, then its answer, sent with its key in hand.
ClientFrames ==
  /\ cpc = "start" => Len(c2s) = 0 /\ spc \in {"mode", "closed"}
  /\ cpc = "recv" /\ spc \in Reading => Taken + Len(c2s) = 1
  /\ cpc = "send" =>
       /\ Len(cout) <= Len(Answer(cmode))
       /\ \A i \in 1..Len(cout) : cout[i] =
            Answer(cmode)[Len(Answer(cmode)) - Len(cout) + i]
       /\ spc \in Reading => Taken + Len(c2s) + Len(cout) = 1 + Len(Answer(cmode))
  /\ spc \in Reading => \A i \in 1..Len(c2s) :
       /\ Taken + i = 1 => c2s[i] = Frame("mode", cmode)
       /\ Taken + i > 1 => ckey # NoKey
       /\ Taken + i > 1 /\ Taken + i <= 1 + Len(Answer(cmode)) =>
            c2s[i] = Answer(cmode)[Taken + i - 1]
  /\ spc \in {"mode", "send"} => Len(sin) = 0
  /\ spc = "recv" =>
       /\ Len(sin) < ServerReads(smode)
       /\ Len(sin) > 0 => ckey # NoKey
       /\ \A i \in 1..Len(sin) : sin[i] = Answer(cmode)[i]

\* The token is on its way, or has arrived, only from an open handler.
Tokens ==
  /\ \A i \in 1..Len(s2c) : s2c[i].kind = "ack" => spc = "open"
  /\ cpc = "open" => spc = "open"

HandshakeInv == TypeOK /\ Keys /\ ServerFrames /\ ClientFrames /\ Tokens

-----------------------------------------------------------------------------
(* What the handlers of a mode make of each other's frames. *)

\* The frames of the two sides under Diffie-Hellman,
LEMMA DhHello ==
  /\ ServerHello("dh") = <<Frame("params", "server"), Frame("dh_pub", "server")>>
  /\ Answer("dh") = <<Frame("dh_pub", "client")>>
BY DEF ServerHello, Answer, ClientHello, Own

\* ... under ML-KEM,
LEMMA KemHello ==
  /\ ServerHello("ml_kem") = <<Frame("kem_pk", "server")>>
  /\ Answer("ml_kem") = <<Frame("kem_ct", "server")>>
BY DEF ServerHello, Answer, ClientHello, Own, Frame

\* ... and under both, with the ML-KEM frame first.
LEMMA HybridHello ==
  /\ ServerHello("hybrid") = <<Frame("kem_pk", "server"), Frame("x_pub", "server")>>
  /\ Answer("hybrid") = <<Frame("kem_ct", "server"), Frame("x_pub", "client")>>
BY DEF ServerHello, Answer, ClientHello, Own, Frame

\* Diffie-Hellman: each side combines its own key with the peer's.
LEMMA DhSecrets ==
  /\ ClientSecret("dh", ServerHello("dh")) = <<"dh_pub", Side>>
  /\ ServerSecret("dh", Answer("dh")) = <<"dh_pub", Side>>
<1>1. ClientSecret("dh", ServerHello("dh")) = <<"dh_pub", {"client", "server"}>>
  BY DhHello DEF ClientSecret, derive_shared_secret, exchange, Frame
<1>2. ServerSecret("dh", Answer("dh")) = <<"dh_pub", {"server", "client"}>>
  BY DhHello DEF ServerSecret, derive_shared_secret, exchange, Frame
<1>3. {"server", "client"} = Side /\ {"client", "server"} = Side
  BY DEF Side
<1> QED
  BY <1>1, <1>2, <1>3

\* ML-KEM: the client encapsulates, and the server gets the secret back.
LEMMA KemSecrets ==
  /\ ClientSecret("ml_kem", ServerHello("ml_kem")) = <<"kem", "server">>
  /\ ServerSecret("ml_kem", Answer("ml_kem")) = <<"kem", "server">>
BY KemHello DEF ClientSecret, ServerSecret, encapsulate, decapsulate, Frame

\* Hybrid: two halves, concatenated in the same order by both sides.
LEMMA HybridSecrets ==
  /\ ClientSecret("hybrid", ServerHello("hybrid")) =
       <<"hybrid", <<"kem", "server">>, <<"x_pub", Side>>>>
  /\ ServerSecret("hybrid", Answer("hybrid")) =
       <<"hybrid", <<"kem", "server">>, <<"x_pub", Side>>>>
<1> DEFINE k == <<"kem", "server">>
           x == <<"x_pub", Side>>
<1>1. {"server", "client"} = Side /\ {"client", "server"} = Side
  BY DEF Side
<1>2. encapsulate(Frame("kem_pk", "server")) = k
  BY DEF encapsulate, Frame
<1>3. decapsulate("server", Frame("kem_ct", "server")) = k
  BY DEF decapsulate, Frame
<1>4. x25519_derive_shared("client", Frame("x_pub", "server")) = x
  BY <1>1 DEF x25519_derive_shared, exchange, Frame
<1>5. x25519_derive_shared("server", Frame("x_pub", "client")) = x
  BY <1>1 DEF x25519_derive_shared, exchange, Frame
<1>6. k # Raise /\ x # Raise
  BY DEF Raise
<1> HIDE DEF k, x
<1>7. combine_secrets(k, x) = <<"hybrid", k, x>>
  BY <1>6 DEF combine_secrets
<1>8. ClientSecret("hybrid", ServerHello("hybrid")) = combine_secrets(k, x)
  BY <1>2, <1>4, HybridHello DEF ClientSecret
<1>9. ServerSecret("hybrid", Answer("hybrid")) = combine_secrets(k, x)
  BY <1>3, <1>5, HybridHello DEF ServerSecret
<1> QED
  BY <1>7, <1>8, <1>9 DEF k, x

\* Frames in clear, and frames under a key.
LEMMA FrameTypes ==
  /\ \A kind \in Kind, name \in Mode \cup Side \cup {""} :
       Frame(kind, name) \in AnyFrame
  /\ \A kind \in Kind, k \in Key : Sealed(kind, k) \in AnyFrame
<1>1. NoKey \in Key
  BY DEF Key
<1> QED
  BY <1>1 DEF Frame, Sealed, AnyFrame

\* Each side reads as many frames as the other sends, and none of them could
\* be taken for the token.
LEMMA HelloTypes ==
  ASSUME NEW m \in Mode
  PROVE  /\ ServerHello(m) \in Seq(AnyFrame) /\ Answer(m) \in Seq(AnyFrame)
         /\ Len(ServerHello(m)) = ClientReads(m) /\ Len(Answer(m)) = ServerReads(m)
         /\ ClientReads(m) \in 1..2 /\ ServerReads(m) \in 1..2
         /\ \A i \in 1..Len(ServerHello(m)) : ServerHello(m)[i].kind # "ack"
<1> DEFINE Clear == {f \in AnyFrame : f.kind # "ack"}
<1>0. /\ Frame("params", "server") \in Clear /\ Frame("dh_pub", "server") \in Clear
      /\ Frame("kem_pk", "server") \in Clear /\ Frame("x_pub", "server") \in Clear
      /\ Frame("dh_pub", "client") \in Clear /\ Frame("kem_ct", "server") \in Clear
      /\ Frame("x_pub", "client") \in Clear
  <2>1. {"params", "dh_pub", "kem_pk", "kem_ct", "x_pub"} \subseteq Kind
    BY DEF Kind
  <2>2. {"client", "server"} \subseteq Mode \cup Side \cup {""}
    BY DEF Side
  <2>3. \A kind, name : Frame(kind, name).kind = kind
    BY DEF Frame
  <2> QED
    <3>1. ASSUME NEW kind \in {"params", "dh_pub", "kem_pk", "kem_ct", "x_pub"},
                 NEW name \in {"client", "server"}
          PROVE  Frame(kind, name) \in Clear
      <4>1. Frame(kind, name) \in AnyFrame
        BY <2>1, <2>2, FrameTypes
      <4>2. Frame(kind, name).kind # "ack"
        BY <2>3
      <4> QED
        BY <4>1, <4>2
    <3> HIDE DEF Clear
    <3> QED
      BY <3>1
<1>a. ASSUME NEW f \in Clear
      PROVE  /\ <<f>> \in Seq(AnyFrame) /\ Len(<<f>>) = 1
             /\ \A i \in 1..Len(<<f>>) : <<f>>[i].kind # "ack"
  OBVIOUS
<1>b. ASSUME NEW f \in Clear, NEW g \in Clear
      PROVE  /\ <<f, g>> \in Seq(AnyFrame) /\ Len(<<f, g>>) = 2
             /\ \A i \in 1..Len(<<f, g>>) : <<f, g>>[i].kind # "ack"
  OBVIOUS
<1> HIDE DEF Clear
<1>1. CASE m = "dh"
  <2>1. ClientReads("dh") = 2 /\ ServerReads("dh") = 1
    BY DEF ClientReads, ServerReads
  <2>2. /\ ServerHello("dh") \in Seq(AnyFrame) /\ Len(ServerHello("dh")) = 2
        /\ \A i \in 1..Len(ServerHello("dh")) : ServerHello("dh")[i].kind # "ack"
    <3>1. PICK f \in Clear, g \in Clear : ServerHello("dh") = <<f, g>>
      BY <1>0, DhHello, Zenon
    <3> QED
      BY <1>b, <3>1, Zenon
  <2>3. /\ Answer("dh") \in Seq(AnyFrame) /\ Len(Answer("dh")) = 1
    BY <1>0, <1>a, DhHello, Zenon
  <2> QED
    BY <1>1, <2>1, <2>2, <2>3, {1, 2} \subseteq 1..2
<1>2. CASE m = "ml_kem"
  <2>1. ClientReads("ml_kem") = 1 /\ ServerReads("ml_kem") = 1
    BY DEF ClientReads, ServerReads
  <2>2. /\ ServerHello("ml_kem") \in Seq(AnyFrame) /\ Len(ServerHello("ml_kem")) = 1
        /\ \A i \in 1..Len(ServerHello("ml_kem")) : ServerHello("ml_kem")[i].kind # "ack"
    BY <1>0, <1>a, KemHello, Zenon
  <2>3. /\ Answer("ml_kem") \in Seq(AnyFrame) /\ Len(Answer("ml_kem")) = 1
    BY <1>0, <1>a, KemHello, Zenon
  <2> QED
    BY <1>2, <2>1, <2>2, <2>3
<1>3. CASE m = "hybrid"
  <2>1. ClientReads("hybrid") = 2 /\ ServerReads("hybrid") = 2
    BY DEF ClientReads, ServerReads
  <2>2. /\ ServerHello("hybrid") \in Seq(AnyFrame) /\ Len(ServerHello("hybrid")) = 2
        /\ \A i \in 1..Len(ServerHello("hybrid")) : ServerHello("hybrid")[i].kind # "ack"
    <3>1. PICK f \in Clear, g \in Clear : ServerHello("hybrid") = <<f, g>>
      BY <1>0, HybridHello, Zenon
    <3> QED
      BY <1>b, <3>1, Zenon
  <2>3. /\ Answer("hybrid") \in Seq(AnyFrame) /\ Len(Answer("hybrid")) = 2
    BY <1>0, <1>b, HybridHello, Zenon
  <2> QED
    BY <1>3, <2>1, <2>2, <2>3
<1> QED
  BY <1>1, <1>2, <1>3 DEF Mode

\* In every mode both sides make the same secret of each other's frames, and
\* no primitive raises.
LEMMA SecretFacts ==
  ASSUME NEW m \in Mode
  PROVE  /\ ClientSecret(m, ServerHello(m)) # Raise
         /\ ServerSecret(m, Answer(m)) = ClientSecret(m, ServerHello(m))
         /\ ClientSecret(m, ServerHello(m)) \in Half \cup ({"hybrid"} \X Half \X Half)
<1>0. /\ <<"dh_pub", Side>> \in Half /\ <<"x_pub", Side>> \in Half
      /\ <<"kem", "server">> \in Half
  BY DEF Half, Side
<1>1. CASE m = "dh"
  BY <1>0, <1>1, DhSecrets DEF Raise
<1>2. CASE m = "ml_kem"
  BY <1>0, <1>2, KemSecrets DEF Raise
<1>3. CASE m = "hybrid"
  BY <1>0, <1>3, HybridSecrets DEF Raise
<1> QED
  BY <1>1, <1>2, <1>3 DEF Mode

\* So both derive KeyOf(mode) from them.
LEMMA KeyFacts ==
  ASSUME NEW m \in Mode
  PROVE  /\ KeyOf(m) \in Key /\ KeyOf(m) # NoKey
         /\ derive_aes_key(ServerSecret(m, Answer(m))) = KeyOf(m)
         /\ ServerSecret(m, Answer(m)) # Raise
<1> DEFINE s == ClientSecret(m, ServerHello(m))
<1>1. /\ s # Raise /\ s \in Half \cup ({"hybrid"} \X Half \X Half)
      /\ ServerSecret(m, Answer(m)) = s
  BY SecretFacts
<1>2. KeyOf(m) = derive_aes_key(s)
  BY DEF KeyOf
<1> HIDE DEF s
<1>3. KeyOf(m) = <<"aes", s>>
  BY <1>1, <1>2 DEF derive_aes_key
<1>4. <<"aes", s>> \in Key /\ <<"aes", s>> # NoKey
  BY <1>1 DEF Key, NoKey
<1> QED
  BY <1>1, <1>2, <1>3, <1>4

\* Where a public key should be, the client finds the refusal, and raises.
LEMMA RefusalRaises ==
  ASSUME NEW m \in Mode, NEW in \in Seq(AnyFrame), ClientReads(m) <= Len(in),
         \A i \in 1..Len(in) : in[i].kind = "error"
  PROVE  ClientSecret(m, in) = Raise
<1>1. in[1].kind = "error" /\ (m # "ml_kem" => in[2].kind = "error")
  BY DEF ClientReads
<1>2. encapsulate(in[1]) = Raise
  BY <1>1 DEF encapsulate
<1>3. CASE m = "dh"
  BY <1>1, <1>3 DEF ClientSecret
<1>4. CASE m = "ml_kem"
  BY <1>2, <1>4 DEF ClientSecret
<1>5. CASE m = "hybrid"
  BY <1>2, <1>5 DEF ClientSecret, combine_secrets
<1> QED
  BY <1>3, <1>4, <1>5 DEF Mode

-----------------------------------------------------------------------------
(* The client's steps. *)

\* What the steps need to know of the state.
LEMMA StateFacts ==
  ASSUME HandshakeInv
  PROVE  /\ cmode \in Mode /\ smode \in Mode
         /\ cin \in Seq(AnyFrame) /\ sin \in Seq(AnyFrame)
         /\ cout \in Seq(AnyFrame) /\ sout \in Seq(AnyFrame)
         /\ c2s \in Seq(AnyFrame) /\ s2c \in Seq(AnyFrame)
         /\ ckey \in Key /\ skey \in Key
         /\ Len(cin) \in Nat /\ Len(sin) \in Nat /\ Len(cout) \in Nat
         /\ Len(sout) \in Nat /\ Len(c2s) \in Nat /\ Len(s2c) \in Nat
         /\ Taken \in Nat /\ first \in AuthKind
BY DEF HandshakeInv, TypeOK, Taken

\* The mode marker is the first frame of the client.
LEMMA ClientStartNext ==
  ASSUME HandshakeInv, ClientStart
  PROVE  HandshakeInv'
<1>0. /\ cpc = "start" /\ cpc' = "recv" /\ c2s' = Append(c2s, Frame("mode", cmode))
      /\ UNCHANGED <<modes, cin, cout, ckey, svars, s2c, broken>>
  BY DEF ClientStart
<1> USE DEF modes, svars
<1>1. TypeOK'
  <2>1. Frame("mode", cmode) \in AnyFrame
    BY StateFacts, FrameTypes DEF Kind
  <2>2. c2s' \in Seq(AnyFrame)
    BY <1>0, <2>1, StateFacts
  <2> QED
    BY <1>0, <2>2 DEF HandshakeInv, TypeOK
<1>2. Keys' /\ ServerFrames' /\ Tokens'
  BY <1>0 DEF HandshakeInv, Keys, ServerFrames, Tokens
<1>3. ClientFrames'
  <2>1. Len(c2s) = 0 /\ spc \in {"mode", "closed"}
    BY <1>0 DEF HandshakeInv, ClientFrames
  <2>2. Len(c2s') = 1 /\ c2s'[1] = Frame("mode", cmode)
    BY <1>0, <2>1, StateFacts
  <2>3. Taken' = Taken /\ (spc = "mode" => Taken = 0)
    BY <1>0 DEF Taken
  <2> QED
    BY <1>0, <2>1, <2>2, <2>3 DEF HandshakeInv, ClientFrames, Reading
<1> QED
  BY <1>1, <1>2, <1>3 DEF HandshakeInv

\* The client reads the refusal, and raises at the last frame it expects; or
\* it reads the hello and, with its last frame, derives the key of the mode.
LEMMA ClientRecvNext ==
  ASSUME HandshakeInv, ClientRecv
  PROVE  HandshakeInv'
<1>0. /\ cpc = "recv" /\ s2c # << >> /\ s2c' = Tail(s2c)
      /\ cin' = Append(cin, Head(s2c))
      /\ UNCHANGED <<modes, svars, c2s, broken>>
  BY DEF ClientRecv
<1> USE DEF modes, svars
<1>a. ckey = NoKey /\ skey = NoKey
  BY <1>0 DEF HandshakeInv, Keys
<1>b. /\ Head(s2c) \in AnyFrame /\ Head(s2c) = s2c[1] /\ 1 \in 1..Len(s2c)
      /\ s2c' \in Seq(AnyFrame) /\ Len(s2c') = Len(s2c) - 1
      /\ \A i \in 1..Len(s2c') : s2c'[i] = s2c[i + 1] /\ i + 1 \in 1..Len(s2c)
  BY <1>0, StateFacts
<1>c. /\ cin' \in Seq(AnyFrame) /\ Len(cin') = Len(cin) + 1
      /\ \A i \in 1..Len(cin) : cin'[i] = cin[i]
      /\ cin'[Len(cin) + 1] = Head(s2c)
  BY <1>0, <1>b, StateFacts
<1>1. Tokens' \/ cpc' = "open"
  BY <1>0, <1>b DEF HandshakeInv, Tokens
<1>2. CASE cmode # smode
  <2>1. /\ \A i \in 1..Len(cin') : cin'[i].kind = "error"
        /\ \A i \in 1..Len(s2c') : s2c'[i].kind = "error"
    <3>1. /\ \A i \in 1..Len(cin) : cin[i].kind = "error"
          /\ \A i \in 1..Len(s2c) : s2c[i].kind = "error"
      BY <1>0, <1>2 DEF HandshakeInv, ServerFrames
    <3>2. \A i \in 1..Len(cin') : i \in 1..Len(cin) \/ i = Len(cin) + 1
      BY <1>c, StateFacts
    <3>3. \A i \in 1..Len(cin') : cin'[i].kind = "error"
      BY <1>b, <1>c, <3>1, <3>2
    <3>4. \A i \in 1..Len(s2c') : s2c'[i].kind = "error"
      BY <1>b, <3>1
    <3> QED
      BY <3>3, <3>4
  <2>2. cpc' \in {"recv", "closed"} /\ UNCHANGED <<cout, ckey>>
    <3>1. CASE Len(cin') < ClientReads(cmode)
      BY <1>0, <3>1 DEF ClientRecv
    <3>2. CASE ~(Len(cin') < ClientReads(cmode))
      <4>1. ClientReads(cmode) <= Len(cin')
        BY <1>c, <3>2, StateFacts, HelloTypes
      <4>2. ClientSecret(cmode, cin') = Raise
        BY <1>c, <2>1, <4>1, StateFacts, RefusalRaises
      <4> QED
        BY <3>2, <4>2 DEF ClientRecv
    <3> QED
      BY <3>1, <3>2
  <2>3. TypeOK'
    BY <1>0, <1>b, <1>c, <2>2 DEF HandshakeInv, TypeOK
  <2>4. Keys'
    BY <1>0, <2>2 DEF HandshakeInv, Keys
  <2>5. ServerFrames'
    BY <1>0, <1>2, <2>1, <2>2 DEF HandshakeInv, ServerFrames, Keys
  <2>6. ClientFrames'
    BY <1>0, <2>2 DEF HandshakeInv, ClientFrames, Taken
  <2> QED
    BY <1>1, <2>2, <2>3, <2>4, <2>5, <2>6 DEF HandshakeInv
<1>3. CASE cmode = smode
  <2> DEFINE H == ServerHello(smode)
  <2>0. /\ H \in Seq(AnyFrame) /\ Len(H) = ClientReads(cmode)
        /\ Answer(cmode) \in Seq(AnyFrame)
        /\ Len(Answer(cmode)) \in Nat /\ Len(H) \in Nat
    BY <1>3, StateFacts, HelloTypes
  <2>1. /\ Len(cin) < Len(H) /\ Len(cin) + Len(s2c) <= Len(H)
        /\ \A i \in 1..Len(cin) : cin[i] = H[i]
        /\ \A i \in 1..Len(s2c) : s2c[i] = H[Len(cin) + i]
        /\ spc = "mode" => Len(cin) = 0 /\ Len(s2c) = 0
        /\ spc = "send" => Len(cin) + Len(s2c) + Len(sout) = Len(H)
    BY <1>0, <1>3, <2>0 DEF HandshakeInv, ServerFrames
  <2>2. \A i \in 1..Len(cin') : cin'[i] = H[i]
    <3>1. \A i \in 1..Len(cin') : i \in 1..Len(cin) \/ i = Len(cin) + 1
      BY <1>c, StateFacts
    <3> QED
      BY <1>b, <1>c, <2>1, <3>1
  <2>3. \A i \in 1..Len(s2c') : s2c'[i] = H[Len(cin') + i]
    <3>1. \A i \in 1..Len(s2c') : s2c'[i] = H[Len(cin) + (i + 1)]
      BY <1>b, <2>1
    <3>2. \A i \in 1..Len(s2c') : Len(cin) + (i + 1) = Len(cin') + i
      BY <1>c, StateFacts
    <3> QED
      BY <3>1, <3>2
  <2>4. /\ spc # "mode" /\ Len(cin') + Len(s2c') = Len(cin) + Len(s2c)
        /\ Len(cin') <= Len(H)
    BY <1>b, <1>c, <2>0, <2>1, StateFacts
  <2> HIDE DEF H
  <2>5. CASE Len(cin') < ClientReads(cmode)
    <3>1. cpc' = "recv" /\ UNCHANGED <<cout, ckey>>
      BY <1>0, <2>5 DEF ClientRecv
    <3>2. TypeOK'
      BY <1>0, <1>b, <1>c, <3>1 DEF HandshakeInv, TypeOK
    <3>3. Keys'
      BY <1>0, <3>1 DEF HandshakeInv, Keys
    <3>4. ServerFrames'
      <4>1. /\ Len(cin') < ClientReads(cmode') /\ Len(cin') + Len(s2c') <= Len(H)
            /\ spc' = "send" => Len(cin') + Len(s2c') + Len(sout') = Len(H)
        BY <1>0, <2>1, <2>4, <2>5
      <4>2. spc = "send" =>
              /\ Len(sout) \in 1..Len(ServerHello(smode))
              /\ \A i \in 1..Len(sout) : sout[i] =
                   ServerHello(smode)[Len(ServerHello(smode)) - Len(sout) + i]
        BY DEF HandshakeInv, ServerFrames
      <4> QED
        BY <1>0, <1>3, <2>2, <2>3, <2>4, <3>1, <4>1, <4>2 DEF ServerFrames, H
    <3>5. ClientFrames'
      BY <1>0, <3>1 DEF HandshakeInv, ClientFrames, Taken
    <3> QED
      BY <1>1, <3>1, <3>2, <3>3, <3>4, <3>5 DEF HandshakeInv
  <2>6. CASE ~(Len(cin') < ClientReads(cmode))
    <3>1. cin' = ServerHello(cmode)
      <4>1. Len(cin') = Len(H) /\ H \in Seq(AnyFrame)
        BY <1>c, <2>0, <2>4, <2>6, StateFacts
      <4> QED
        BY <1>3, <1>c, <2>2, <4>1, SeqEqual DEF H
    <3>2. /\ cpc' = "send" /\ cout' = Answer(cmode) /\ ckey' = KeyOf(cmode)
      <4>1. ClientSecret(cmode, cin') # Raise
        BY <3>1, StateFacts, SecretFacts
      <4>2. /\ cpc' = "send" /\ cout' = ClientHello(cmode, cin')
            /\ ckey' = derive_aes_key(ClientSecret(cmode, cin'))
        BY <2>6, <4>1 DEF ClientRecv
      <4> QED
        BY <3>1, <4>2 DEF Answer, KeyOf
    <3>3. ckey' \in Key /\ ckey' # NoKey
      BY <3>2, StateFacts, KeyFacts
    <3>4. TypeOK'
      BY <1>0, <1>b, <1>c, <2>0, <3>2, <3>3 DEF HandshakeInv, TypeOK
    <3>5. Keys'
      BY <1>0, <1>3, <3>2, <3>3 DEF HandshakeInv, Keys
    <3>6. ServerFrames'
      BY <1>0, <3>2 DEF HandshakeInv, ServerFrames
    <3>7. ClientFrames'
      <4>1. spc \in Reading => Taken + Len(c2s) = 1
        BY <1>0 DEF HandshakeInv, ClientFrames
      <4>2. Taken' = Taken
        BY <1>0 DEF Taken
      <4>3. cpc' = "send" => /\ Len(cout') <= Len(Answer(cmode))
                             /\ \A i \in 1..Len(cout') : cout'[i] =
                                  Answer(cmode)[Len(Answer(cmode)) - Len(cout') + i]
                             /\ spc \in Reading =>
                                  Taken + Len(c2s) + Len(cout') = 1 + Len(Answer(cmode))
        BY <2>0, <3>2, <4>1, StateFacts
      <4> QED
        BY <1>0, <3>2, <3>3, <4>2, <4>3 DEF HandshakeInv, ClientFrames
    <3> QED
      BY <1>1, <3>2, <3>4, <3>5, <3>6, <3>7 DEF HandshakeInv
  <2> QED
    BY <2>5, <2>6
<1> QED
  BY <1>2, <1>3

\* The answer follows the mode marker, and AUTH the answer.
LEMMA ClientSendNext ==
  ASSUME HandshakeInv, ClientSend
  PROVE  HandshakeInv'
<1>0. /\ cpc = "send" /\ UNCHANGED <<modes, cin, ckey, svars, s2c, broken>>
  BY DEF ClientSend
<1> USE DEF modes, svars
<1>a. ckey # NoKey /\ ckey \in Key
  BY <1>0, StateFacts DEF HandshakeInv, Keys
<1> DEFINE A == Answer(cmode)
<1>b. A \in Seq(AnyFrame) /\ Len(A) \in Nat
  BY StateFacts, HelloTypes
<1> HIDE DEF A
<1>c. /\ Len(cout) <= Len(A)
      /\ \A i \in 1..Len(cout) : cout[i] = A[Len(A) - Len(cout) + i]
      /\ spc \in Reading => Taken + Len(c2s) + Len(cout) = 1 + Len(A)
  BY <1>0 DEF HandshakeInv, ClientFrames, A
<1>d. Keys' /\ ServerFrames'
  <2>1. cpc' \in {"send", "wait"}
    BY <1>0 DEF ClientSend
  <2> QED
    BY <1>0, <1>a, <2>1 DEF HandshakeInv, Keys, ServerFrames
<1>e. Tokens'
  BY <1>0 DEF HandshakeInv, Tokens, ClientSend
<1>f. Taken' = Taken
  BY <1>0 DEF Taken
<1>g. ASSUME NEW f \in AnyFrame, c2s' = Append(c2s, f),
             spc \in Reading /\ Taken + Len(c2s) <= Len(A) => f = A[Taken + Len(c2s)],
             spc \in Reading => Taken + Len(c2s) >= 1
      PROVE  /\ c2s' \in Seq(AnyFrame) /\ Len(c2s') = Len(c2s) + 1
             /\ spc \in Reading => \A i \in 1..Len(c2s') :
                  /\ Taken + i = 1 => c2s'[i] = Frame("mode", cmode)
                  /\ Taken + i > 1 /\ Taken + i <= 1 + Len(A) =>
                       c2s'[i] = A[Taken + i - 1]
  <2>1. /\ c2s' \in Seq(AnyFrame) /\ Len(c2s') = Len(c2s) + 1
        /\ \A i \in 1..Len(c2s) : c2s'[i] = c2s[i]
        /\ c2s'[Len(c2s) + 1] = f
    BY <1>g, StateFacts
  <2>2. ASSUME spc \in Reading, NEW i \in 1..Len(c2s')
        PROVE  /\ Taken + i = 1 => c2s'[i] = Frame("mode", cmode)
               /\ Taken + i > 1 /\ Taken + i <= 1 + Len(A) =>
                    c2s'[i] = A[Taken + i - 1]
    <3>1. CASE i \in 1..Len(c2s)
      BY <2>1, <2>2, <3>1 DEF HandshakeInv, ClientFrames, A
    <3>2. CASE i = Len(c2s) + 1
      <4>1. Taken + i > 1 /\ Taken + i - 1 = Taken + Len(c2s)
        BY <1>g, <2>2, <3>2, StateFacts
      <4>2. Taken + i <= 1 + Len(A) => c2s'[i] = A[Taken + i - 1]
        BY <1>b, <1>g, <2>1, <2>2, <3>2, <4>1, StateFacts
      <4> QED
        BY <4>1, <4>2, StateFacts
    <3> QED
      BY <2>1, <3>1, <3>2, StateFacts
  <2> QED
    BY <2>1, <2>2
<1>1. CASE cout = << >>
  <2>0. cpc' = "wait" /\ c2s' = Append(c2s, Sealed(first, ckey)) /\ UNCHANGED cout
    BY <1>0, <1>1 DEF ClientSend
  <2>1. Sealed(first, ckey) \in AnyFrame
    BY <1>a, StateFacts, FrameTypes DEF Kind
  <2>2. spc \in Reading => Taken + Len(c2s) = 1 + Len(A)
    BY <1>b, <1>c, <1>1, StateFacts
  <2>3. /\ c2s' \in Seq(AnyFrame) /\ Len(c2s') = Len(c2s) + 1
        /\ spc \in Reading => \A i \in 1..Len(c2s') :
             /\ Taken + i = 1 => c2s'[i] = Frame("mode", cmode)
             /\ Taken + i > 1 /\ Taken + i <= 1 + Len(A) =>
                  c2s'[i] = A[Taken + i - 1]
    <3>1. spc \in Reading => Taken + Len(c2s) >= 1 /\ ~(Taken + Len(c2s) <= Len(A))
      BY <1>b, <2>2
    <3> QED
      BY <1>g, <2>0, <2>1, <3>1
  <2>4. TypeOK'
    BY <1>0, <2>0, <2>3 DEF HandshakeInv, TypeOK
  <2>5. ClientFrames'
    BY <1>0, <1>a, <1>f, <2>0, <2>3 DEF HandshakeInv, ClientFrames, A
  <2> QED
    BY <1>d, <1>e, <2>4, <2>5 DEF HandshakeInv
<1>2. CASE cout # << >>
  <2>0. cpc' = "send" /\ c2s' = Append(c2s, Head(cout)) /\ cout' = Tail(cout)
    BY <1>0, <1>2 DEF ClientSend
  <2>1. /\ Head(cout) \in AnyFrame /\ Head(cout) = cout[1] /\ 1 \in 1..Len(cout)
        /\ cout' \in Seq(AnyFrame) /\ Len(cout') = Len(cout) - 1
        /\ \A i \in 1..Len(cout') : cout'[i] = cout[i + 1] /\ i + 1 \in 1..Len(cout)
    BY <1>2, <2>0, StateFacts
  <2>2. Head(cout) = A[Len(A) - Len(cout) + 1] /\ Len(cout) >= 1
    BY <1>c, <2>1, StateFacts
  <2>3. spc \in Reading => /\ Taken + Len(c2s) = Len(A) - Len(cout) + 1
                           /\ Taken + Len(c2s) >= 1
    BY <1>b, <1>c, StateFacts
  <2>4. /\ c2s' \in Seq(AnyFrame) /\ Len(c2s') = Len(c2s) + 1
        /\ spc \in Reading => \A i \in 1..Len(c2s') :
             /\ Taken + i = 1 => c2s'[i] = Frame("mode", cmode)
             /\ Taken + i > 1 /\ Taken + i <= 1 + Len(A) =>
                  c2s'[i] = A[Taken + i - 1]
    <3>1. spc \in Reading => Head(cout) = A[Taken + Len(c2s)]
      BY <2>2, <2>3
    <3> QED
      BY <1>g, <2>0, <2>1, <2>3, <3>1
  <2>5. TypeOK'
    BY <1>0, <2>0, <2>1, <2>4 DEF HandshakeInv, TypeOK
  <2>6. ASSUME NEW i \in 1..Len(cout')
        PROVE  cout'[i] = A[Len(A) - Len(cout') + i]
    <3>1. cout'[i] = A[Len(A) - Len(cout) + (i + 1)]
      BY <1>c, <2>1
    <3>2. Len(A) - Len(cout) + (i + 1) = Len(A) - Len(cout') + i
      BY <1>b, <2>1, StateFacts
    <3> QED
      BY <3>1, <3>2
  <2>7. /\ Len(cout') <= Len(A)
        /\ spc \in Reading => Taken + Len(c2s') + Len(cout') = 1 + Len(A)
    BY <1>b, <1>c, <2>1, <2>4, StateFacts
  <2>8. ClientFrames'
    BY <1>0, <1>a, <1>f, <2>0, <2>4, <2>6, <2>7 DEF HandshakeInv, ClientFrames, A
  <2> QED
    BY <1>d, <1>e, <2>5, <2>8 DEF HandshakeInv
<1> QED
  BY <1>1, <1>2

\* Only an open handler has sent a token.
LEMMA ClientTokenNext ==
  ASSUME HandshakeInv, ClientToken
  PROVE  HandshakeInv'
<1>0. /\ cpc = "wait" /\ s2c # << >> /\ s2c' = Tail(s2c)
      /\ cpc' \in {"open", "closed"}
      /\ cpc' = "open" => Head(s2c).kind = "ack"
      /\ UNCHANGED <<modes, cin, cout, ckey, svars, c2s, broken>>
  BY DEF ClientToken
<1> USE DEF modes, svars
<1>1. /\ Head(s2c) = s2c[1] /\ 1 \in 1..Len(s2c) /\ s2c' \in Seq(AnyFrame)
      /\ \A i \in 1..Len(s2c') : s2c'[i] = s2c[i + 1] /\ i + 1 \in 1..Len(s2c)
  BY <1>0, StateFacts
<1>2. TypeOK'
  BY <1>0, <1>1 DEF HandshakeInv, TypeOK
<1>3. Keys'
  BY <1>0 DEF HandshakeInv, Keys
<1>4. ServerFrames'
  BY <1>0 DEF HandshakeInv, ServerFrames
<1>5. ClientFrames'
  BY <1>0 DEF HandshakeInv, ClientFrames, Taken
<1>6. Tokens'
  BY <1>0, <1>1 DEF HandshakeInv, Tokens
<1> QED
  BY <1>2, <1>3, <1>4, <1>5, <1>6 DEF HandshakeInv

\* However the client ends before it is open, nothing else changes.
LEMMA ClientClosedNext ==
  ASSUME HandshakeInv, ClientFails \/ ClientVanishes
  PROVE  HandshakeInv'
<1>0. /\ cpc' = "closed" /\ broken' \in BOOLEAN
      /\ UNCHANGED <<modes, cin, cout, ckey, svars, c2s, s2c>>
  BY DEF ClientFails, ClientVanishes, HandshakeInv, TypeOK
<1> USE DEF modes, svars
<1>1. TypeOK'
  BY <1>0 DEF HandshakeInv, TypeOK
<1>2. Keys' /\ ServerFrames' /\ Tokens'
  BY <1>0 DEF HandshakeInv, Keys, ServerFrames, Tokens
<1>3. ClientFrames'
  BY <1>0 DEF HandshakeInv, ClientFrames, Taken
<1> QED
  BY <1>1, <1>2, <1>3 DEF HandshakeInv

-----------------------------------------------------------------------------
(* The handler's steps. *)

\* However the handler ends before it is open, nothing else changes.
LEMMA ServerClosedNext ==
  ASSUME HandshakeInv, ServerFails \/ ServerVanishes
  PROVE  HandshakeInv'
<1>0. /\ spc' = "closed" /\ spc # "open" /\ broken' \in BOOLEAN
      /\ UNCHANGED <<modes, cvars, sin, sout, skey, c2s, s2c>>
  BY DEF ServerFails, ServerVanishes, HandshakeInv, TypeOK
<1> USE DEF modes, cvars
<1>1. TypeOK'
  BY <1>0 DEF HandshakeInv, TypeOK
<1>2. Keys' /\ Tokens'
  BY <1>0 DEF HandshakeInv, Keys, Tokens
<1>3. ServerFrames'
  BY <1>0 DEF HandshakeInv, ServerFrames
<1>4. ClientFrames'
  BY <1>0 DEF HandshakeInv, ClientFrames, Reading
<1> QED
  BY <1>1, <1>2, <1>3, <1>4 DEF HandshakeInv

\* The next frame from the client, and those behind it.
LEMMA NextFromClient ==
  ASSUME HandshakeInv, c2s # << >>
  PROVE  /\ Head(c2s) \in AnyFrame /\ Head(c2s) = c2s[1] /\ 1 \in 1..Len(c2s)
         /\ Tail(c2s) \in Seq(AnyFrame) /\ Len(Tail(c2s)) = Len(c2s) - 1
         /\ \A i \in 1..Len(Tail(c2s)) :
              Tail(c2s)[i] = c2s[i + 1] /\ i + 1 \in 1..Len(c2s)
BY StateFacts

\* The frames behind it are numbered as before when it counts as read.
LEMMA ClientFramesMove ==
  ASSUME HandshakeInv, c2s # << >>, c2s' = Tail(c2s), spc \in Reading,
         Taken' = Taken + 1, UNCHANGED <<modes, ckey>>
  PROVE  /\ Len(c2s') = Len(c2s) - 1
         /\ \A i \in 1..Len(c2s') :
              /\ Taken' + i = 1 => c2s'[i] = Frame("mode", cmode')
              /\ Taken' + i > 1 => ckey' # NoKey
              /\ Taken' + i > 1 /\ Taken' + i <= 1 + Len(Answer(cmode)) =>
                   c2s'[i] = Answer(cmode)[Taken' + i - 1]
<1> USE DEF modes
<1>1. Len(c2s') = Len(c2s) - 1
  BY NextFromClient
<1>2. ASSUME NEW i \in 1..Len(c2s')
      PROVE  /\ Taken' + i = 1 => c2s'[i] = Frame("mode", cmode')
             /\ Taken' + i > 1 => ckey' # NoKey
             /\ Taken' + i > 1 /\ Taken' + i <= 1 + Len(Answer(cmode)) =>
                  c2s'[i] = Answer(cmode)[Taken' + i - 1]
  <2>1. c2s'[i] = c2s[i + 1] /\ i + 1 \in 1..Len(c2s)
    BY NextFromClient
  <2>2. Taken' + i = Taken + (i + 1)
    BY StateFacts
  <2>3. /\ Taken + (i + 1) = 1 => c2s[i + 1] = Frame("mode", cmode)
        /\ Taken + (i + 1) > 1 => ckey # NoKey
        /\ Taken + (i + 1) > 1 /\ Taken + (i + 1) <= 1 + Len(Answer(cmode)) =>
             c2s[i + 1] = Answer(cmode)[Taken + (i + 1) - 1]
    BY <2>1 DEF HandshakeInv, ClientFrames
  <2>4. cmode' = cmode /\ ckey' = ckey
    OBVIOUS
  <2>5. PICK n \in Nat : n = Taken' + i /\ n = Taken + (i + 1)
    <3>1. Taken' + i \in Nat
      BY StateFacts
    <3> QED
      BY <2>2, <3>1
  <2>6. n = 1 => c2s'[i] = Frame("mode", cmode')
    BY <2>1, <2>3, <2>4, <2>5
  <2>7. n > 1 => ckey' # NoKey
    BY <2>3, <2>4, <2>5
  <2>8. ASSUME n > 1, n <= 1 + Len(Answer(cmode))
        PROVE  c2s'[i] = Answer(cmode)[n - 1]
    <3>0. Taken + (i + 1) > 1 /\ Taken + (i + 1) <= 1 + Len(Answer(cmode))
      BY <2>5, <2>8
    <3>1. c2s[i + 1] = Answer(cmode)[Taken + (i + 1) - 1]
      BY <2>3, <3>0
    <3>2. Taken + (i + 1) - 1 = n - 1
      <4>1. Taken \in Nat /\ i \in Nat
        BY StateFacts
      <4> QED
        BY <2>5, <4>1
    <3> QED
      BY <2>1, <3>1, <3>2
  <2> QED
    BY <2>5, <2>6, <2>7, <2>8
<1> QED
  BY <1>1, <1>2

\* The handler finds the mode marker, and refuses it or begins its hello.
LEMMA ServerModeNext ==
  ASSUME HandshakeInv, ServerMode
  PROVE  HandshakeInv'
<1>0. /\ spc = "mode" /\ c2s # << >> /\ c2s' = Tail(c2s)
      /\ UNCHANGED <<modes, cvars, sin, skey, broken>>
  BY DEF ServerMode
<1> USE DEF modes, cvars
<1>1. /\ Head(c2s) = Frame("mode", cmode) /\ Head(c2s).name = cmode
      /\ c2s' \in Seq(AnyFrame) /\ Len(sin) = 0 /\ cpc # "start"
      /\ skey = NoKey
  <2>1. Head(c2s) = c2s[1] /\ 1 \in 1..Len(c2s) /\ c2s' \in Seq(AnyFrame)
    BY <1>0, NextFromClient
  <2>2. Taken + 1 = 1
    BY <1>0 DEF Taken
  <2>3. c2s[1] = Frame("mode", cmode)
    BY <1>0, <2>1, <2>2 DEF HandshakeInv, ClientFrames, Reading
  <2>4. Len(sin) = 0 /\ cpc # "start"
    BY <1>0, <2>1 DEF HandshakeInv, ClientFrames
  <2>5. skey = NoKey
    BY <1>0 DEF HandshakeInv, Keys
  <2> QED
    BY <2>1, <2>3, <2>4, <2>5 DEF Frame
<1>2. CASE cmode = smode
  <2> DEFINE H == ServerHello(smode)
  <2>0. H \in Seq(AnyFrame) /\ Len(H) \in 1..2
    BY StateFacts, HelloTypes
  <2> HIDE DEF H
  <2>1. spc' = "send" /\ sout' = H /\ UNCHANGED s2c
    BY <1>1, <1>2 DEF ServerMode, H
  <2>2. TypeOK'
    BY <1>0, <1>1, <2>0, <2>1 DEF HandshakeInv, TypeOK
  <2>3. Keys' /\ Tokens'
    BY <1>0, <1>2, <2>1 DEF HandshakeInv, Keys, Tokens
  <2>4. ServerFrames'
    <3>1. cpc = "recv" => Len(cin) = 0 /\ Len(s2c) = 0
      BY <1>0, <1>2 DEF HandshakeInv, ServerFrames
    <3>2. /\ Len(sout') \in 1..Len(H)
          /\ \A i \in 1..Len(sout') : sout'[i] = H[Len(H) - Len(sout') + i]
      BY <2>0, <2>1
    <3>3. cpc = "recv" => Len(cin) + Len(s2c) + Len(sout') = Len(H)
      BY <2>0, <2>1, <3>1
    <3> QED
      BY <1>0, <1>1, <1>2, <2>1, <3>2, <3>3 DEF HandshakeInv, ServerFrames, H
  <2>5. ClientFrames'
    <3>1. Taken = 0 /\ Taken' = Taken + 1
      BY <1>0, <1>1, <2>1 DEF Taken
    <3>2. /\ Len(c2s') = Len(c2s) - 1
          /\ \A i \in 1..Len(c2s') :
               /\ Taken' + i = 1 => c2s'[i] = Frame("mode", cmode')
               /\ Taken' + i > 1 => ckey' # NoKey
               /\ Taken' + i > 1 /\ Taken' + i <= 1 + Len(Answer(cmode)) =>
                    c2s'[i] = Answer(cmode)[Taken' + i - 1]
      BY <1>0, <3>1, ClientFramesMove DEF Reading
    <3>3. /\ cpc = "recv" => Taken' + Len(c2s') = 1
          /\ cpc = "send" => Taken' + Len(c2s') + Len(cout) = 1 + Len(Answer(cmode))
      <4>1. /\ cpc = "recv" => Taken + Len(c2s) = 1
            /\ cpc = "send" => Taken + Len(c2s) + Len(cout) = 1 + Len(Answer(cmode))
        BY <1>0 DEF HandshakeInv, ClientFrames, Reading
      <4>2. Taken' + Len(c2s') = Taken + Len(c2s)
        BY <3>1, <3>2, StateFacts
      <4> QED
        BY <4>1, <4>2
    <3> QED
      BY <1>0, <1>1, <2>1, <3>2, <3>3 DEF HandshakeInv, ClientFrames
  <2> QED
    BY <2>2, <2>3, <2>4, <2>5 DEF HandshakeInv
<1>3. CASE cmode # smode
  <2>1. spc' = "closed" /\ s2c' = Append(s2c, Frame("error", "")) /\ UNCHANGED sout
    BY <1>1, <1>3 DEF ServerMode
  <2>2. /\ Frame("error", "") \in AnyFrame
        /\ Frame("error", "").kind = "error"
    BY FrameTypes DEF Kind, Frame
  <2>3. /\ s2c' \in Seq(AnyFrame)
        /\ \A i \in 1..Len(s2c') : \/ i \in 1..Len(s2c) /\ s2c'[i] = s2c[i]
                                   \/ s2c'[i].kind = "error"
    <3>0. s2c \in Seq(AnyFrame) /\ Len(s2c) \in Nat
      BY StateFacts
    <3>1. /\ s2c' \in Seq(AnyFrame) /\ Len(s2c') = Len(s2c) + 1
          /\ \A i \in 1..Len(s2c) : s2c'[i] = s2c[i]
          /\ s2c'[Len(s2c) + 1] = Frame("error", "")
      <4>1. PICK f \in AnyFrame : f = Frame("error", "") /\ s2c' = Append(s2c, f)
        BY <2>1, <2>2, Zenon
      <4>2. /\ Append(s2c, f) \in Seq(AnyFrame)
            /\ Len(Append(s2c, f)) = Len(s2c) + 1
            /\ \A i \in 1..Len(s2c) : Append(s2c, f)[i] = s2c[i]
            /\ Append(s2c, f)[Len(s2c) + 1] = f
        BY <3>0
      <4> QED
        BY <4>1, <4>2, Zenon
    <3>2. \A i \in 1..Len(s2c') : i \in 1..Len(s2c) \/ i = Len(s2c) + 1
      <4>1. Len(s2c') = Len(s2c) + 1
        BY <3>1
      <4> QED
        BY <3>0, <4>1
    <3> QED
      BY <2>2, <3>1, <3>2
  <2>4. TypeOK'
    BY <1>0, <1>1, <2>1, <2>3 DEF HandshakeInv, TypeOK
  <2>5. Keys'
    BY <1>0, <2>1 DEF HandshakeInv, Keys
  <2>6. Tokens'
    BY <1>0, <2>1, <2>3 DEF HandshakeInv, Tokens
  <2>7. ServerFrames'
    BY <1>0, <1>3, <2>1, <2>3 DEF HandshakeInv, ServerFrames
  <2>8. ClientFrames'
    BY <1>0, <1>1, <2>1 DEF HandshakeInv, ClientFrames, Reading
  <2> QED
    BY <2>4, <2>5, <2>6, <2>7, <2>8 DEF HandshakeInv
<1> QED
  BY <1>2, <1>3

\* The hello reaches the client in order.
LEMMA ServerSendNext ==
  ASSUME HandshakeInv, ServerSend
  PROVE  HandshakeInv'
<1>0. /\ spc = "send" /\ s2c' = Append(s2c, Head(sout)) /\ sout' = Tail(sout)
      /\ spc' = IF Len(sout) = 1 THEN "recv" ELSE "send"
      /\ UNCHANGED <<modes, cvars, sin, skey, c2s, broken>>
  BY DEF ServerSend
<1> USE DEF modes, cvars
<1> DEFINE H == ServerHello(smode)
<1>1. /\ H \in Seq(AnyFrame) /\ Len(H) \in 1..2
      /\ \A i \in 1..Len(H) : H[i].kind # "ack"
      /\ ServerReads(smode) \in 1..2
  BY StateFacts, HelloTypes
<1> HIDE DEF H
<1>2. /\ Len(sout) \in 1..Len(H)
      /\ \A i \in 1..Len(sout) : sout[i] = H[Len(H) - Len(sout) + i]
  BY <1>0 DEF HandshakeInv, ServerFrames, H
<1>3. /\ Head(sout) \in AnyFrame /\ Head(sout) = sout[1] /\ 1 \in 1..Len(sout)
      /\ sout' \in Seq(AnyFrame) /\ Len(sout') = Len(sout) - 1
      /\ \A i \in 1..Len(sout') : sout'[i] = sout[i + 1] /\ i + 1 \in 1..Len(sout)
  BY <1>0, <1>1, <1>2, StateFacts
<1>4. /\ s2c' \in Seq(AnyFrame) /\ Len(s2c') = Len(s2c) + 1
      /\ \A i \in 1..Len(s2c) : s2c'[i] = s2c[i]
      /\ s2c'[Len(s2c) + 1] = Head(sout)
      /\ \A i \in 1..Len(s2c') : i \in 1..Len(s2c) \/ i = Len(s2c) + 1
  <2>1. /\ s2c' \in Seq(AnyFrame) /\ Len(s2c') = Len(s2c) + 1
        /\ \A i \in 1..Len(s2c) : s2c'[i] = s2c[i]
        /\ s2c'[Len(s2c) + 1] = Head(sout)
    BY <1>0, <1>3, StateFacts
  <2> QED
    BY <2>1, StateFacts
<1>5. Head(sout) = H[Len(H) - Len(sout) + 1] /\ Head(sout).kind # "ack"
  <2>1. Len(H) - Len(sout) + 1 \in 1..Len(H)
    BY <1>1, <1>2
  <2> QED
    BY <1>1, <1>2, <1>3, <2>1
<1>6. TypeOK'
  BY <1>0, <1>3, <1>4 DEF HandshakeInv, TypeOK
<1>7. cmode = smode
  BY <1>0 DEF HandshakeInv, Keys
<1>8. Keys'
  BY <1>0, <1>7 DEF HandshakeInv, Keys
<1>9. Tokens'
  BY <1>0, <1>4, <1>5 DEF HandshakeInv, Tokens
<1>10. ServerFrames'
  <2>1. ASSUME cpc \in {"start", "recv"}
        PROVE  /\ Len(cin) < ClientReads(cmode)
               /\ Len(cin) + Len(s2c') <= Len(H)
               /\ \A i \in 1..Len(cin) : cin[i] = H[i]
               /\ \A i \in 1..Len(s2c') : s2c'[i] = H[Len(cin) + i]
               /\ Len(cin) + Len(s2c') + Len(sout') = Len(H)
    <3>1. /\ Len(cin) < ClientReads(cmode)
          /\ \A i \in 1..Len(cin) : cin[i] = H[i]
          /\ \A i \in 1..Len(s2c) : s2c[i] = H[Len(cin) + i]
          /\ Len(cin) + Len(s2c) + Len(sout) = Len(H)
      BY <1>0, <1>7, <2>1 DEF HandshakeInv, ServerFrames, H
    <3>2. /\ Len(cin) + Len(s2c') + Len(sout') = Len(H)
          /\ Len(cin) + Len(s2c') <= Len(H)
          /\ Len(H) - Len(sout) + 1 = Len(cin) + (Len(s2c) + 1)
      <4>1. /\ Len(cin) \in Nat /\ Len(s2c) \in Nat /\ Len(sout) \in Nat
            /\ Len(H) \in Nat /\ Len(sout) >= 1
        BY <1>1, <1>2, StateFacts
      <4>2. Len(s2c') = Len(s2c) + 1 /\ Len(sout') = Len(sout) - 1
        BY <1>3, <1>4
      <4>3. Len(cin) + Len(s2c) + Len(sout) = Len(H)
        BY <3>1
      <4> QED
        BY <4>1, <4>2, <4>3
    <3>3. \A i \in 1..Len(s2c') : s2c'[i] = H[Len(cin) + i]
      BY <1>4, <1>5, <3>1, <3>2
    <3> QED
      BY <3>1, <3>2, <3>3
  <2>2. ASSUME spc' = "send"
        PROVE  /\ Len(sout') \in 1..Len(H)
               /\ \A i \in 1..Len(sout') : sout'[i] = H[Len(H) - Len(sout') + i]
    <3>1. Len(sout) # 1
      BY <1>0, <2>2
    <3>2. Len(sout') \in 1..Len(H)
      BY <1>1, <1>2, <1>3, <3>1
    <3>3. ASSUME NEW i \in 1..Len(sout')
          PROVE  sout'[i] = H[Len(H) - Len(sout') + i]
      <4>1. sout'[i] = H[Len(H) - Len(sout) + (i + 1)]
        BY <1>2, <1>3
      <4>2. Len(H) - Len(sout) + (i + 1) = Len(H) - Len(sout') + i
        BY <1>1, <1>2, <1>3
      <4> QED
        BY <4>1, <4>2
    <3> QED
      BY <3>2, <3>3
  <2>3. spc' # "mode" /\ (cpc = "start" => Len(cin) = 0)
    BY <1>0 DEF HandshakeInv, ServerFrames
  <2> QED
    BY <1>0, <1>7, <2>1, <2>2, <2>3 DEF ServerFrames, H
<1>11. ClientFrames'
  <2>1. Taken' = Taken /\ spc \in Reading /\ spc' \in {"send", "recv"}
    BY <1>0 DEF Taken, Reading
  <2>2. Len(sin) = 0 /\ cpc # "start"
    BY <1>0 DEF HandshakeInv, ClientFrames
  <2>3. Len(sin) < ServerReads(smode)
    BY <1>1, <2>2
  <2> QED
    BY <1>0, <2>1, <2>2, <2>3 DEF HandshakeInv, ClientFrames
<1> QED
  BY <1>6, <1>8, <1>9, <1>10, <1>11 DEF HandshakeInv

\* The handler reads the answer and, with its last frame, derives the same key.
LEMMA ServerRecvNext ==
  ASSUME HandshakeInv, ServerRecv
  PROVE  HandshakeInv'
<1>0. /\ spc = "recv" /\ c2s # << >> /\ c2s' = Tail(c2s)
      /\ sin' = Append(sin, Head(c2s))
      /\ UNCHANGED <<modes, cvars, sout, s2c, broken>>
  BY DEF ServerRecv
<1> USE DEF modes, cvars
<1> DEFINE A == Answer(cmode)
<1>1. cmode = smode /\ skey = NoKey
  BY <1>0 DEF HandshakeInv, Keys
<1>2. A \in Seq(AnyFrame) /\ Len(A) = ServerReads(smode) /\ Len(A) \in Nat
  BY <1>1, StateFacts, HelloTypes
<1> HIDE DEF A
<1>3. /\ Len(sin) < Len(A) /\ \A i \in 1..Len(sin) : sin[i] = A[i]
      /\ cpc # "start"
  BY <1>0, <1>2 DEF HandshakeInv, ClientFrames, A
<1>4. /\ Head(c2s) \in AnyFrame /\ Head(c2s) = c2s[1] /\ 1 \in 1..Len(c2s)
      /\ c2s' \in Seq(AnyFrame)
  BY <1>0, NextFromClient
<1>5. c2s[1] = A[Len(sin) + 1] /\ ckey # NoKey
  <2>1. Taken + 1 = Len(sin) + 2 /\ Taken + 1 - 1 = Len(sin) + 1
    BY <1>0, StateFacts DEF Taken
  <2>2. Taken + 1 > 1 /\ Taken + 1 <= 1 + Len(A)
    BY <1>2, <1>3, <2>1, StateFacts
  <2>3. ckey # NoKey /\ c2s[1] = A[Taken + 1 - 1]
    BY <1>0, <1>4, <2>2 DEF HandshakeInv, ClientFrames, Reading, A
  <2> QED
    BY <2>1, <2>3
<1>6. /\ sin' \in Seq(AnyFrame) /\ Len(sin') = Len(sin) + 1
      /\ \A i \in 1..Len(sin') : sin'[i] = A[i]
  <2>1. /\ sin' \in Seq(AnyFrame) /\ Len(sin') = Len(sin) + 1
        /\ \A i \in 1..Len(sin) : sin'[i] = sin[i]
        /\ sin'[Len(sin) + 1] = Head(c2s)
    BY <1>0, <1>4, StateFacts
  <2>2. \A i \in 1..Len(sin') : i \in 1..Len(sin) \/ i = Len(sin) + 1
    BY <2>1, StateFacts
  <2> QED
    BY <1>3, <1>4, <1>5, <2>1, <2>2
<1>7. /\ \/ /\ spc' = "recv" /\ skey' = skey /\ Len(sin') < ServerReads(smode)
         \/ spc' = "auth" /\ skey' = KeyOf(smode) /\ skey' \in Key /\ skey' # NoKey
  <2>1. CASE Len(sin') < ServerReads(smode)
    BY <1>0, <2>1 DEF ServerRecv
  <2>2. CASE ~(Len(sin') < ServerReads(smode))
    <3>1. sin' = A
      <4>1. Len(sin') = Len(A)
        BY <1>2, <1>3, <1>6, <2>2, StateFacts
      <4> QED
        BY <1>2, <1>6, <4>1, SeqEqual
    <3>2. /\ KeyOf(smode) \in Key /\ KeyOf(smode) # NoKey
          /\ derive_aes_key(ServerSecret(smode, sin')) = KeyOf(smode)
          /\ ServerSecret(smode, sin') # Raise
      BY <1>1, <3>1, StateFacts, KeyFacts DEF A
    <3> QED
      BY <2>2, <3>2 DEF ServerRecv
  <2> QED
    BY <2>1, <2>2
<1>8. TypeOK'
  BY <1>0, <1>4, <1>6, <1>7 DEF HandshakeInv, TypeOK
<1>9. Keys'
  BY <1>0, <1>1, <1>5, <1>7 DEF HandshakeInv, Keys
<1>10. Tokens'
  BY <1>0, <1>7 DEF HandshakeInv, Tokens
<1>11. ServerFrames'
  BY <1>0, <1>7 DEF HandshakeInv, ServerFrames
<1>12. ClientFrames'
  <2>1. Taken' = Taken + 1
    BY <1>0, <1>6, <1>7, StateFacts DEF Taken
  <2>2. /\ Len(c2s') = Len(c2s) - 1
        /\ \A i \in 1..Len(c2s') :
             /\ Taken' + i = 1 => c2s'[i] = Frame("mode", cmode')
             /\ Taken' + i > 1 => ckey' # NoKey
             /\ Taken' + i > 1 /\ Taken' + i <= 1 + Len(Answer(cmode)) =>
                  c2s'[i] = Answer(cmode)[Taken' + i - 1]
    BY <1>0, <2>1, ClientFramesMove DEF Reading
  <2>3. Taken' + Len(c2s') = Taken + Len(c2s)
    BY <2>1, <2>2, StateFacts
  <2>4. /\ cpc = "recv" => Taken + Len(c2s) = 1
        /\ cpc = "send" => Taken + Len(c2s) + Len(cout) = 1 + Len(Answer(cmode))
    BY <1>0 DEF HandshakeInv, ClientFrames, Reading
  <2>5. /\ cpc = "recv" => Taken' + Len(c2s') = 1
        /\ cpc = "send" => Taken' + Len(c2s') + Len(cout) = 1 + Len(Answer(cmode))
    BY <2>3, <2>4
  <2> QED
    BY <1>0, <1>3, <1>5, <1>6, <1>7, <2>2, <2>5 DEF HandshakeInv, ClientFrames, A
<1> QED
  BY <1>8, <1>9, <1>10, <1>11, <1>12 DEF HandshakeInv

\* Whatever the handler makes of AUTH, the client is waiting with its key, and
\* an error is not taken for the token.
LEMMA ServerAuthNext ==
  ASSUME HandshakeInv, ServerAuth
  PROVE  HandshakeInv'
<1>0. /\ spc = "auth" /\ c2s # << >> /\ c2s' = Tail(c2s)
      /\ \/ spc' = "open" /\ s2c' = Append(s2c, Sealed("ack", skey))
         \/ spc' = "closed" /\ s2c' = Append(s2c, Sealed("error", skey))
         \/ spc' = "closed" /\ UNCHANGED s2c
      /\ UNCHANGED <<modes, cvars, sin, sout, skey, broken>>
  BY DEF ServerAuth
<1> USE DEF modes, cvars
<1>1. ckey # NoKey /\ skey # NoKey /\ cpc \notin {"start", "recv", "open"}
  <2>1. ckey # NoKey /\ skey # NoKey /\ cpc \notin {"start", "recv"}
    BY <1>0 DEF HandshakeInv, Keys
  <2> QED
    BY <1>0, <2>1 DEF HandshakeInv, Tokens
<1>2. c2s' \in Seq(AnyFrame) /\ s2c' \in Seq(AnyFrame)
  <2>1. Sealed("ack", skey) \in AnyFrame /\ Sealed("error", skey) \in AnyFrame
    BY StateFacts, FrameTypes DEF Kind
  <2>2. /\ Append(s2c, Sealed("ack", skey)) \in Seq(AnyFrame)
        /\ Append(s2c, Sealed("error", skey)) \in Seq(AnyFrame)
        /\ s2c \in Seq(AnyFrame)
    BY <2>1, StateFacts
  <2>3. s2c' \in Seq(AnyFrame)
    BY <1>0, <2>2
  <2> QED
    BY <1>0, <2>3, NextFromClient
<1>3. TypeOK'
  BY <1>0, <1>2 DEF HandshakeInv, TypeOK
<1>4. Keys'
  BY <1>0, <1>1 DEF HandshakeInv, Keys
<1>5. ServerFrames'
  BY <1>0, <1>1 DEF HandshakeInv, ServerFrames
<1>6. ClientFrames'
  BY <1>0, <1>1 DEF HandshakeInv, ClientFrames, Reading
<1>7. Tokens'
  <2>1. CASE spc' = "open"
    BY <1>0, <1>1, <2>1 DEF HandshakeInv, Tokens
  <2>2. CASE spc' = "closed" /\ UNCHANGED s2c
    BY <1>0, <1>1, <2>2 DEF HandshakeInv, Tokens
  <2>3. CASE spc' = "closed" /\ s2c' = Append(s2c, Sealed("error", skey))
    <3>1. Sealed("error", skey) \in AnyFrame /\ Sealed("error", skey).kind # "ack"
      BY StateFacts, FrameTypes DEF Kind, Sealed
    <3>2. PICK f \in AnyFrame : f.kind # "ack" /\ s2c' = Append(s2c, f)
      BY <2>3, <3>1
    <3>3. \A i \in 1..Len(s2c') : s2c'[i] = f \/ (i \in 1..Len(s2c) /\ s2c'[i] = s2c[i])
      BY <3>2, StateFacts
    <3> QED
      BY <1>0, <1>1, <3>2, <3>3 DEF HandshakeInv, Tokens
  <2> QED
    BY <1>0, <2>1, <2>2, <2>3
<1> QED
  BY <1>3, <1>4, <1>5, <1>6, <1>7 DEF HandshakeInv

-----------------------------------------------------------------------------

\* What every state of the two threads and the streams between them satisfies.
THEOREM HandshakeInvariant == Spec => []HandshakeInv
<1>1. Init => HandshakeInv
  <2> SUFFICES ASSUME Init PROVE HandshakeInv
    OBVIOUS
  <2>1. /\ cmode \in Mode /\ smode \in Mode /\ first \in AuthKind
        /\ cpc = "start" /\ spc = "mode"
        /\ cin = << >> /\ sin = << >> /\ cout = << >> /\ sout = << >>
        /\ ckey = NoKey /\ skey = NoKey /\ c2s = << >> /\ s2c = << >>
        /\ broken = FALSE
    BY DEF Init
  <2>2. << >> \in Seq(AnyFrame) /\ Len(<< >>) = 0 /\ NoKey \in Key
    BY DEF Key
  <2>3. TypeOK
    BY <2>1, <2>2 DEF TypeOK
  <2>4. Keys /\ Tokens
    BY <2>1, <2>2 DEF Keys, Tokens
  <2>5. ServerFrames
    <3>1. Len(ServerHello(smode)) \in Nat /\ 0 < ClientReads(cmode)
      BY <2>1, HelloTypes
    <3> QED
      BY <2>1, <2>2, <3>1 DEF ServerFrames
  <2>6. ClientFrames
    BY <2>1, <2>2 DEF ClientFrames
  <2> QED
    BY <2>3, <2>4, <2>5, <2>6 DEF HandshakeInv
<1>2. HandshakeInv /\ [Next]_vars => HandshakeInv'
  <2> SUFFICES ASSUME HandshakeInv, [Next]_vars PROVE HandshakeInv'
    OBVIOUS
  <2>1. CASE UNCHANGED vars
    BY <2>1 DEF vars, modes, cvars, svars, HandshakeInv, TypeOK, Keys,
       ServerFrames, ClientFrames, Tokens, Taken
  <2>2. CASE Done
    BY <2>1, <2>2 DEF Done
  <2> QED
    BY <2>1, <2>2, ClientStartNext, ClientRecvNext, ClientSendNext,
       ClientTokenNext, ClientClosedNext, ServerModeNext, ServerSendNext,
       ServerRecvNext, ServerAuthNext, ServerClosedNext
    DEF Next, Client, Handler
<1> QED
  BY <1>1, <1>2, PTL DEF Spec

\* Whenever both sides have a key it is the same one, in every interleaving
\* and wherever one of them vanished: the client has made the key of its mode
\* before the handler can have made the one of its own.
THEOREM SidesAgree == Spec => []KeysAgree
<1>1. HandshakeInv => KeysAgree
  BY DEF HandshakeInv, Keys, KeysAgree
<1> QED
  BY <1>1, HandshakeInvariant, PTL

\* Under different modes no side ever has a key: the handler never leaves the
\* marker but to end, and all that the client can read is the refusal.
THEOREM NoKeyAcrossModes == Spec => []MismatchHasNoKey
<1>1. HandshakeInv => MismatchHasNoKey
  BY DEF HandshakeInv, Keys, MismatchHasNoKey
<1> QED
  BY <1>1, HandshakeInvariant, PTL

\* A handler that accepted AUTH has a client with its key, and a client that
\* opens has a handler that did.
THEOREM OpenTowardsPeer == Spec => []OpenHasPeer
<1>1. HandshakeInv => OpenHasPeer
  BY DEF HandshakeInv, Keys, Tokens, OpenHasPeer
<1> QED
  BY <1>1, HandshakeInvariant, PTL
=============================================================================
