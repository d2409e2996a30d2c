------------------------------ MODULE LabProofs -----------------------------
(***************************************************************************)
(* Proofs about Lab, for any number of clicks and key strokes, and so for  *)
(* any number of animations that are under way at once.                    *)
(***************************************************************************)
EXTENDS Lab, TLAPS

\* What is on the page came from a call that had drawn its token: nobody has a
\* token the counter has not reached.
PageInv ==
  /\ animToken \in Nat
  /\ "token" \in DOMAIN out /\ out.token \in 0..animToken

\* The counter only goes up.
LEMMA TokenGrows ==
  ASSUME PageInv, [Next]_vars
  PROVE  animToken' \in Nat /\ animToken' >= animToken
<1>1. animToken' \in {animToken, animToken + 1}
  BY DEF Next, vars, input, Edit, Debounce, Run, Rekey, Session, Imported,
     Derived, KeyReady, Resume, animate, Call, PacketsCross, Encrypted, Reveal,
     Finish
<1> QED
  BY <1>1 DEF PageInv

\* The page is written by the call with the latest token, or keeps its token.
LEMMA PageStep ==
  ASSUME PageInv, [Next]_vars
  PROVE  "token" \in DOMAIN out' /\ out'.token \in {out.token, animToken}
<1>1. ASSUME NEW c \in DOMAIN calls, NEW i, Current(c), RevealRow(c, i)
      PROVE  "token" \in DOMAIN out' /\ out'.token = animToken
  BY <1>1 DEF RevealRow, encryptMessage, Current
<1>2. ASSUME NEW c \in DOMAIN calls, Encrypted(c) \/ Reveal(c)
      PROVE  "token" \in DOMAIN out' /\ out'.token \in {out.token, animToken}
  <2>1. out' = out \/ \E i : Current(c) /\ RevealRow(c, i)
    BY <1>2 DEF Encrypted, Reveal
  <2> QED
    BY <1>1, <2>1 DEF PageInv
<1>3. ASSUME NEW c \in DOMAIN calls, Finish(c)
      PROVE  "token" \in DOMAIN out' /\ out'.token = out.token
  BY <1>3 DEF Finish, PageInv
<1>4. CASE out' = out
  BY <1>4 DEF PageInv
<1> QED
  BY <1>2, <1>3, <1>4 DEF Next, vars, Edit, Debounce, Run, Rekey, Session,
     Imported, Derived, KeyReady, Call, PacketsCross

\* The ciphertext on the page never goes back to an older animation: of the
\* calls whose timers are still running, the check of the token after every
\* await stops all but the latest.
THEOREM PageNeverOlder == FairSpec => NeverOlder
<1>1. Init => PageInv
  BY DEF Init, PageInv
<1>2. PageInv /\ [Next]_vars => PageInv' /\ out'.token >= out.token
  <2> SUFFICES ASSUME PageInv, [Next]_vars
               PROVE  PageInv' /\ out'.token >= out.token
    OBVIOUS
  <2>1. animToken' \in Nat /\ animToken' >= animToken
    BY TokenGrows
  <2>2. "token" \in DOMAIN out' /\ out'.token \in {out.token, animToken}
    BY PageStep
  <2>3. animToken \in Nat /\ out.token \in 0..animToken
    BY DEF PageInv
  <2> QED
    BY <2>1, <2>2, <2>3 DEF PageInv
<1>3. PageInv /\ [Next]_vars => PageInv'
  BY <1>2
<1>4. PageInv /\ [Next]_vars => [out'.token >= out.token]_vars
  BY <1>2
<1> QED
  BY <1>1, <1>3, <1>4, PTL DEF FairSpec, NeverOlder
=============================================================================
