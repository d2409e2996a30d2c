----------------------------- MODULE AuthProofs -----------------------------
(***************************************************************************)
(* Proofs about Auth, for every number of users, passwords, registrations  *)
(* and logins and every bound of the queue: accounts keep their hash, a    *)
(* session is of an account that exists and was opened with its password,  *)
(* and a token that was logged out is refused once the queue has dealt     *)
(* with it.                                                                *)
(***************************************************************************)
EXTENDS Auth, TLAPS, SequenceTheorems

\* A task that waits in the server's queue.
Pending(task) == \E i \in 1..Len(wq) : wq[i] = task

\* A run of register.py that got past its lookup knows what to insert.
RegisterInv ==
  \A r \in Reg :
    rpc[r] \in {"hash", "stop"} => rname[r] \in User /\ rpw[r] \in Password

\* The hash a login has read is still the account's when bcrypt is done with
\* it, and a token is drawn only for a password that fits.
LoginInv ==
  \A l \in Login :
    /\ lpc[l] = "verify" => /\ lname[l] \in User
                            /\ row[l] # None
                            /\ users[lname[l]] = row[l]
    /\ lpc[l] = "issued" => /\ lname[l] \in User
                            /\ users[lname[l]] # None
                            /\ verify_password(users[lname[l]], lpw[l])
    /\ sessions[l] # "none" => lpc[l] = "issued"
    /\ l \in out => lpc[l] = "issued"

\* The row of a token is inserted once, before anything else that is queued
\* about the token, and an invalidation that was asked for waits or is done.
TokenInv ==
  /\ \A i \in 1..Len(wq) :
       /\ lpc[wq[i].token] = "issued"
       /\ wq[i].op = "insert_session" => sessions[wq[i].token] = "none"
       /\ \A j \in 1..(i - 1) :
            wq[j].token = wq[i].token => wq[i].op # "insert_session"
  /\ \A l \in Login : lpc[l] = "issued" =>
       sessions[l] # "none" \/ Pending(insert_session(l))
  /\ \A l \in out : sessions[l] = "invalidated" \/ Pending(invalidate_session(l))

AuthInv == TypeOK /\ RegisterInv /\ LoginInv /\ TokenInv

-----------------------------------------------------------------------------

\* An account keeps its hash in every step: only RegisterWrite changes users,
\* and only where there is no row.
LEMMA UsersStay ==
  ASSUME TypeOK, [Next]_vars
  PROVE  \A u \in User : users[u] # None => users'[u] = users[u]
<1>1. CASE \E r \in Reg : RegisterWrite(r)
  BY <1>1 DEF RegisterWrite, ExecInsertUser, TypeOK
<1>2. CASE users' = users
  BY <1>2
<1> QED
  BY <1>1, <1>2 DEF Next, vars, RegisterCheck, RegisterInsert, RegisterCut, LoginRead,
     LoginVerify, ValidateExpired, Logout, Expire, Writer

\* A queue with one more task at its end is a queue of tasks.
LEMMA TaskAppended ==
  ASSUME NEW q \in Seq(Task), NEW t \in Task
  PROVE  Append(q, t) \in Seq(Task)
OBVIOUS

\* Every step of auth keeps the types of the rows, locals and tasks.
LEMMA TypeNext ==
  ASSUME AuthInv, [Next]_vars
  PROVE  TypeOK'
<1> USE DEF AuthInv, TypeOK, regs, logins, tokens
<1>1. ASSUME NEW r \in Reg, NEW u \in User, NEW p \in Password,
             RegisterCheck(r, u, p)
      PROVE  TypeOK'
  BY <1>1 DEF RegisterCheck
<1>2. ASSUME NEW r \in Reg, RegisterInsert(r) \/ RegisterCut(r)
      PROVE  TypeOK'
  BY <1>2 DEF RegisterInsert, RegisterCut
<1>3. ASSUME NEW r \in Reg, RegisterWrite(r)
      PROVE  TypeOK'
  <2>1. hash_password(r, rpw[r]) \in Hash
    BY <1>3 DEF RegisterWrite, RegisterInv, hash_password, Hash
  <2>2. users' \in [User -> Hash \cup {None}]
    BY <1>3, <2>1 DEF RegisterWrite, ExecInsertUser
  <2> QED
    BY <1>3, <2>2 DEF RegisterWrite
<1>4. ASSUME NEW l \in Login, NEW u \in User, NEW p \in Password,
             LoginRead(l, u, p)
      PROVE  TypeOK'
  BY <1>4 DEF LoginRead, get_user
<1>5. ASSUME NEW l \in Login, LoginVerify(l)
      PROVE  TypeOK'
  <2>1. insert_session(l) \in Task
    BY DEF insert_session, Task
  <2>2. wq' \in Seq(Task)
    <3>1. wq' = wq \/ wq' = Append(wq, insert_session(l))
      BY <1>5 DEF LoginVerify
    <3>2. wq \in Seq(Task)
      OBVIOUS
    <3> QED
      BY <2>1, <3>1, <3>2, TaskAppended, Zenon
  <2> QED
    BY <1>5, <2>2 DEF LoginVerify
<1>6. ASSUME NEW l \in Login, ValidateExpired(l) \/ Logout(l) \/ Expire(l)
      PROVE  TypeOK'
  <2>1. invalidate_session(l) \in Task
    BY DEF invalidate_session, Task
  <2>2. wq' \in Seq(Task)
    <3>1. wq' = wq \/ wq' = Append(wq, invalidate_session(l))
      BY <1>6 DEF ValidateExpired, Logout, Expire
    <3>2. wq \in Seq(Task)
      OBVIOUS
    <3> QED
      BY <2>1, <3>1, <3>2, TaskAppended, Zenon
  <2> QED
    BY <1>6, <2>2 DEF ValidateExpired, Logout, Expire
<1>7. CASE Writer
  <2>1. /\ Head(wq) \in Task /\ wq' \in Seq(Task)
    BY <1>7 DEF Writer
  <2>2. sessions' \in [Login -> {"none", "valid", "invalidated"}]
    BY <1>7, <2>1 DEF Writer, Exec, Task
  <2> QED
    BY <1>7, <2>1, <2>2 DEF Writer
<1>8. CASE UNCHANGED vars
  BY <1>8 DEF vars
<1> QED
  BY <1>1, <1>2, <1>3, <1>4, <1>5, <1>6, <1>7, <1>8 DEF Next

\* Every step keeps what a register call holds between its check and its insert.
LEMMA RegisterNext ==
  ASSUME AuthInv, [Next]_vars
  PROVE  RegisterInv'
<1> USE DEF AuthInv, TypeOK, RegisterInv, regs
<1>1. ASSUME NEW r \in Reg, NEW u \in User, NEW p \in Password,
             RegisterCheck(r, u, p)
      PROVE  RegisterInv'
  BY <1>1 DEF RegisterCheck
<1>2. ASSUME NEW r \in Reg,
             RegisterInsert(r) \/ RegisterWrite(r) \/ RegisterCut(r)
      PROVE  RegisterInv'
  BY <1>2 DEF RegisterInsert, RegisterWrite, RegisterCut
<1>3. CASE UNCHANGED regs
  BY <1>3
<1> QED
  BY <1>1, <1>2, <1>3 DEF Next, vars, LoginRead, LoginVerify,
     ValidateExpired, Logout, Expire, Writer

\* What waits on the writer's queue is an insert or an invalidation of a login's token.
LEMMA QueueTyped ==
  ASSUME TypeOK, NEW i \in 1..Len(wq)
  PROVE  wq[i] \in Task /\ wq[i].token \in Login
<1>1. wq[i] \in Task
  BY DEF TypeOK
<1> QED
  BY <1>1 DEF Task

\* What is in the queue stays there, behind it or one place further on.
LEMMA PendingAppend ==
  ASSUME TypeOK, NEW task \in Task, wq' = Append(wq, task)
  PROVE  /\ Pending(task)'
         /\ \A old \in Task : Pending(old) => Pending(old)'
BY DEF TypeOK, Pending

\* Taking the head off the writer's queue leaves the other tasks pending.
LEMMA PendingTail ==
  ASSUME TypeOK, wq # << >>, wq' = Tail(wq),
         NEW old \in Task, Pending(old), old # Head(wq)
  PROVE  Pending(old)'
<1>1. PICK i \in 1..Len(wq) : wq[i] = old
  BY DEF Pending
<1>2. i - 1 \in 1..Len(wq') /\ wq'[i - 1] = wq[i]
  BY <1>1 DEF TypeOK
<1> QED
  BY <1>1, <1>2 DEF Pending

\* Every step keeps the tie between a login's locals and the account it verified.
LEMMA LoginNext ==
  ASSUME AuthInv, [Next]_vars
  PROVE  LoginInv'
<1> USE DEF AuthInv, TypeOK, LoginInv, regs, logins, tokens
<1>0. \A u \in User : users[u] # None => users'[u] = users[u]
  BY UsersStay
<1>1. ASSUME NEW r \in Reg, NEW u \in User, NEW p \in Password,
             RegisterCheck(r, u, p)
      PROVE  LoginInv'
  BY <1>1 DEF RegisterCheck
<1>2. ASSUME NEW r \in Reg, RegisterInsert(r) \/ RegisterCut(r)
      PROVE  LoginInv'
  BY <1>2 DEF RegisterInsert, RegisterCut
<1>3. ASSUME NEW r \in Reg, RegisterWrite(r)
      PROVE  LoginInv'
  BY <1>0, <1>3 DEF RegisterWrite
<1>4. ASSUME NEW l \in Login, NEW u \in User, NEW p \in Password,
             LoginRead(l, u, p)
      PROVE  LoginInv'
  BY <1>4 DEF LoginRead, get_user
<1>5. ASSUME NEW l \in Login, LoginVerify(l)
      PROVE  LoginInv'
  BY <1>5 DEF LoginVerify
<1>6. ASSUME NEW l \in Login, ValidateExpired(l) \/ Logout(l) \/ Expire(l)
      PROVE  LoginInv'
  BY <1>6 DEF ValidateExpired, Logout, Expire
<1>7. CASE Writer
  <2>1. Head(wq) \in Task /\ lpc[Head(wq).token] = "issued"
    BY <1>7 DEF Writer, TokenInv
  <2> QED
    BY <1>7, <2>1 DEF Writer, Exec, Task
<1>8. CASE UNCHANGED vars
  BY <1>8 DEF vars
<1> QED
  BY <1>1, <1>2, <1>3, <1>4, <1>5, <1>6, <1>7, <1>8 DEF Next

\* A token that is drawn gets its insertion queued, and nothing was queued
\* about it before.
LEMMA TokenVerify ==
  ASSUME AuthInv, NEW l \in Login, LoginVerify(l)
  PROVE  TokenInv'
<1> USE DEF AuthInv, TypeOK, TokenInv, LoginInv
<1> DEFINE t == insert_session(l)
<1>0. t \in Task /\ t.token = l /\ t.op = "insert_session"
  BY DEF insert_session, Task
<1>1. CASE verify_password(row[l], lpw[l])
  <2>1. /\ wq' = Append(wq, t)
        /\ lpc' = [lpc EXCEPT ![l] = "issued"]
        /\ sessions' = sessions /\ out' = out
    BY <1>1 DEF LoginVerify
  <2>2. lpc[l] = "verify" /\ sessions[l] = "none"
    BY DEF LoginVerify
  <2>3. \A i \in 1..Len(wq) : wq[i] \in Task /\ wq[i].token \in Login
                              /\ wq[i].token # l
    BY <2>2, QueueTyped
  <2>4. /\ Len(wq') = Len(wq) + 1 /\ wq'[Len(wq) + 1] = t
        /\ \A i \in 1..Len(wq) : wq'[i] = wq[i]
    BY <1>0, <2>1
  <2>5. \A i \in 1..Len(wq') :
          /\ lpc'[wq'[i].token] = "issued"
          /\ wq'[i].op = "insert_session" => sessions'[wq'[i].token] = "none"
          /\ \A j \in 1..(i - 1) :
               wq'[j].token = wq'[i].token => wq'[i].op # "insert_session"
    <3> SUFFICES ASSUME NEW i \in 1..Len(wq')
                 PROVE  /\ lpc'[wq'[i].token] = "issued"
                        /\ wq'[i].op = "insert_session" =>
                             sessions'[wq'[i].token] = "none"
                        /\ \A j \in 1..(i - 1) :
                             wq'[j].token = wq'[i].token =>
                               wq'[i].op # "insert_session"
      OBVIOUS
    <3>1. CASE i \in 1..Len(wq)
      BY <2>1, <2>3, <2>4, <3>1
    <3>2. CASE i = Len(wq) + 1
      BY <1>0, <2>1, <2>2, <2>3, <2>4, <3>2
    <3> QED
      BY <2>4, <3>1, <3>2
  <2>6. \A k \in Login : insert_session(k) \in Task /\ invalidate_session(k) \in Task
    BY DEF insert_session, invalidate_session, Task
  <2>7. Pending(t)' /\ \A old \in Task : Pending(old) => Pending(old)'
    BY <1>0, <2>1, PendingAppend
  <2>8. \A k \in Login : lpc'[k] = "issued" =>
          sessions'[k] # "none" \/ Pending(insert_session(k))'
    BY <2>1, <2>6, <2>7
  <2>9. \A k \in out' : sessions'[k] = "invalidated"
                          \/ Pending(invalidate_session(k))'
    BY <2>1, <2>6, <2>7
  <2> QED
    BY <2>5, <2>8, <2>9
<1>2. CASE ~verify_password(row[l], lpw[l])
  <2>1. /\ wq' = wq /\ sessions' = sessions /\ out' = out
        /\ lpc' = [lpc EXCEPT ![l] = "refused"] /\ lpc[l] = "verify"
    BY <1>2 DEF LoginVerify
  <2>2. \A i \in 1..Len(wq) : wq[i].token \in Login /\ wq[i].token # l
    BY <2>1, QueueTyped
  <2> QED
    BY <2>1, <2>2 DEF Pending
<1> QED
  BY <1>1, <1>2

\* An invalidation is queued for a token that was drawn: its insertion is
\* ahead of it, or done.
LEMMA TokenInvalidate ==
  ASSUME AuthInv, NEW l \in Login, ValidateExpired(l) \/ Logout(l)
  PROVE  TokenInv'
<1> USE DEF AuthInv, TypeOK, TokenInv, LoginInv
<1> DEFINE t == invalidate_session(l)
<1>0. t \in Task /\ t.token = l /\ t.op # "insert_session"
  BY DEF invalidate_session, Task
<1>1. /\ wq' = Append(wq, t) /\ lpc' = lpc /\ sessions' = sessions
      /\ lpc[l] = "issued"
      /\ out' \in SUBSET (out \cup {l})
  BY DEF ValidateExpired, Logout, get_session, logins
<1>2. /\ Len(wq') = Len(wq) + 1 /\ wq'[Len(wq) + 1] = t
      /\ \A i \in 1..Len(wq) : wq'[i] = wq[i] /\ wq[i] \in Task
  BY <1>0, <1>1
<1>3. \A i \in 1..Len(wq') :
        /\ lpc'[wq'[i].token] = "issued"
        /\ wq'[i].op = "insert_session" => sessions'[wq'[i].token] = "none"
        /\ \A j \in 1..(i - 1) :
             wq'[j].token = wq'[i].token => wq'[i].op # "insert_session"
  <2> SUFFICES ASSUME NEW i \in 1..Len(wq')
               PROVE  /\ lpc'[wq'[i].token] = "issued"
                      /\ wq'[i].op = "insert_session" =>
                           sessions'[wq'[i].token] = "none"
                      /\ \A j \in 1..(i - 1) :
                           wq'[j].token = wq'[i].token =>
                             wq'[i].op # "insert_session"
    OBVIOUS
  <2>1. CASE i \in 1..Len(wq)
    BY <1>1, <1>2, <2>1
  <2>2. CASE i = Len(wq) + 1
    BY <1>0, <1>1, <1>2, <2>2
  <2> QED
    BY <1>2, <2>1, <2>2
<1>4. \A k \in Login : insert_session(k) \in Task /\ invalidate_session(k) \in Task
  BY DEF insert_session, invalidate_session, Task
<1>5. Pending(t)' /\ \A old \in Task : Pending(old) => Pending(old)'
  BY <1>0, <1>1, PendingAppend
<1>6. \A k \in Login : lpc'[k] = "issued" =>
        sessions'[k] # "none" \/ Pending(insert_session(k))'
  BY <1>1, <1>4, <1>5
<1>7. \A k \in out' : sessions'[k] = "invalidated"
                        \/ Pending(invalidate_session(k))'
  BY <1>1, <1>4, <1>5
<1> QED
  BY <1>3, <1>6, <1>7

\* The writer takes the oldest task: an insertion finds no row, an
\* invalidation finds the row that was inserted before it.
LEMMA TokenWriter ==
  ASSUME AuthInv, Writer
  PROVE  TokenInv'
<1> USE DEF AuthInv, TypeOK, TokenInv, LoginInv
<1> DEFINE t == Head(wq)
<1>0. /\ wq # << >> /\ wq' = Tail(wq) /\ lpc' = lpc /\ out' = out
      /\ Exec(t)
  BY DEF Writer, logins
<1>1. /\ t \in Task /\ t = wq[1] /\ 1 \in 1..Len(wq)
      /\ Len(wq') = Len(wq) - 1
      /\ \A i \in 1..Len(wq') : wq'[i] = wq[i + 1] /\ i + 1 \in 1..Len(wq)
                                /\ wq[i + 1] \in Task
  BY <1>0
<1>2. /\ t.token \in Login /\ lpc[t.token] = "issued"
      /\ t.op \in {"insert_session", "invalidate_session"}
  BY <1>1 DEF Task
<1>3. \A k \in Login : insert_session(k) \in Task /\ invalidate_session(k) \in Task
                       /\ insert_session(k) # invalidate_session(k)
                       /\ insert_session(k).token = k
                       /\ invalidate_session(k).token = k
                       /\ invalidate_session(k).op = "invalidate_session"
                       /\ insert_session(k).op = "insert_session"
  BY DEF insert_session, invalidate_session, Task
<1>4. /\ \A k \in Login : k # t.token => sessions'[k] = sessions[k]
      /\ t.op = "insert_session" => sessions'[t.token] = "valid"
      /\ t.op # "insert_session" =>
           sessions'[t.token] =
             IF sessions[t.token] = "none" THEN "none" ELSE "invalidated"
  BY <1>0, <1>2 DEF Exec
\* The insertion of an invalidated token is not behind the invalidation.
<1>5. t.op # "insert_session" => sessions[t.token] # "none"
  <2> SUFFICES ASSUME t.op # "insert_session", sessions[t.token] = "none"
               PROVE  FALSE
    OBVIOUS
  <2>1. PICK i \in 1..Len(wq) : wq[i] = insert_session(t.token)
    BY <1>2 DEF Pending
  <2>2. i # 1 /\ 1 \in 1..(i - 1) /\ wq[1].token = wq[i].token
    BY <1>1, <1>2, <1>3, <2>1
  <2> QED
    BY <1>2, <1>3, <2>1, <2>2
<1>6. \A i \in 1..Len(wq') :
        /\ lpc'[wq'[i].token] = "issued"
        /\ wq'[i].op = "insert_session" => sessions'[wq'[i].token] = "none"
        /\ \A j \in 1..(i - 1) :
             wq'[j].token = wq'[i].token => wq'[i].op # "insert_session"
  <2> SUFFICES ASSUME NEW i \in 1..Len(wq')
               PROVE  /\ lpc'[wq'[i].token] = "issued"
                      /\ wq'[i].op = "insert_session" =>
                           sessions'[wq'[i].token] = "none"
                      /\ \A j \in 1..(i - 1) :
                           wq'[j].token = wq'[i].token =>
                             wq'[i].op # "insert_session"
    OBVIOUS
  <2>1. wq'[i] = wq[i + 1] /\ i + 1 \in 1..Len(wq) /\ wq[i + 1].token \in Login
    BY <1>1 DEF Task
  <2>2. lpc'[wq'[i].token] = "issued"
    BY <1>0, <2>1
  <2>3. wq'[i].op = "insert_session" => sessions'[wq'[i].token] = "none"
    <3>1. 1 \in 1..((i + 1) - 1)
      OBVIOUS
    <3> QED
      BY <1>1, <1>4, <2>1, <3>1
  <2>4. ASSUME NEW j \in 1..(i - 1), wq'[j].token = wq'[i].token
        PROVE  wq'[i].op # "insert_session"
    <3>0. j \in 1..Len(wq') /\ j + 1 \in 1..((i + 1) - 1)
      OBVIOUS
    <3>1. j + 1 \in 1..((i + 1) - 1) /\ wq'[j] = wq[j + 1]
      BY <1>1, <3>0
    <3>2. wq[j + 1].token = wq[i + 1].token => wq[i + 1].op # "insert_session"
      BY <2>1, <3>1
    <3> QED
      BY <2>1, <2>4, <3>1, <3>2
  <2> QED
    BY <2>2, <2>3, <2>4
<1>7. ASSUME NEW k \in Login, lpc'[k] = "issued"
      PROVE  sessions'[k] # "none" \/ Pending(insert_session(k))'
  <2>1. CASE t = insert_session(k)
    BY <1>3, <1>4, <2>1
  <2>2. CASE t # insert_session(k) /\ Pending(insert_session(k))
    BY <1>0, <1>3, <2>2, PendingTail
  <2>3. CASE sessions[k] # "none"
    BY <1>4, <2>3
  <2> QED
    BY <1>0, <1>7, <2>1, <2>2, <2>3
<1>8. ASSUME NEW k \in out'
      PROVE  sessions'[k] = "invalidated" \/ Pending(invalidate_session(k))'
  <2>0. k \in out /\ k \in Login
    BY <1>0
  <2>1. CASE t = invalidate_session(k)
    BY <1>3, <1>4, <1>5, <2>0, <2>1
  <2>2. CASE t # invalidate_session(k) /\ Pending(invalidate_session(k))
    BY <1>0, <1>3, <2>0, <2>2, PendingTail
  <2>3. CASE sessions[k] = "invalidated"
    <3>1. t = wq[1] /\ (t.op = "insert_session" => sessions[t.token] = "none")
      BY <1>1
    <3> QED
      BY <1>4, <2>0, <2>3, <3>1
  <2> QED
    BY <2>0, <2>1, <2>2, <2>3
<1> QED
  BY <1>6, <1>7, <1>8

\* Every step keeps the tie between a token's row, its expiry and its revocation.
LEMMA TokenNext ==
  ASSUME AuthInv, [Next]_vars
  PROVE  TokenInv'
<1>1. ASSUME NEW l \in Login, LoginVerify(l)
      PROVE  TokenInv'
  BY <1>1, TokenVerify
<1>2. ASSUME NEW l \in Login, ValidateExpired(l) \/ Logout(l)
      PROVE  TokenInv'
  BY <1>2, TokenInvalidate
<1>3. CASE Writer
  BY <1>3, TokenWriter
<1>4. ASSUME NEW l \in Login, NEW u \in User, NEW p \in Password,
             LoginRead(l, u, p)
      PROVE  TokenInv'
  <2>1. /\ wq' = wq /\ sessions' = sessions /\ out' = out
        /\ lpc[l] = "start"
        /\ lpc' \in [Login -> {"start", "verify", "issued", "refused"}]
        /\ lpc'[l] # "issued"
        /\ \A k \in Login : k # l => lpc'[k] = lpc[k]
    BY <1>4 DEF LoginRead, tokens, AuthInv, TypeOK
  <2>2. \A i \in 1..Len(wq) : wq[i].token \in Login /\ wq[i].token # l
    BY <2>1, QueueTyped DEF AuthInv, TokenInv
  <2>3. \A i \in 1..Len(wq) : lpc'[wq[i].token] = lpc[wq[i].token]
    BY <2>1, <2>2
  <2>4. \A k \in Login : lpc'[k] = "issued" => lpc[k] = "issued"
    BY <2>1
  <2>5. \A task : Pending(task)' <=> Pending(task)
    BY <2>1 DEF Pending
  <2>6. \A k \in Login : lpc'[k] = "issued" =>
          sessions'[k] # "none" \/ Pending(insert_session(k))'
    BY <2>1, <2>4, <2>5 DEF AuthInv, TokenInv
  <2>7. \A k \in out' : sessions'[k] = "invalidated"
                          \/ Pending(invalidate_session(k))'
    BY <2>1, <2>5 DEF AuthInv, TokenInv
  <2>8. \A i \in 1..Len(wq') :
          /\ lpc'[wq'[i].token] = "issued"
          /\ wq'[i].op = "insert_session" => sessions'[wq'[i].token] = "none"
          /\ \A j \in 1..(i - 1) :
               wq'[j].token = wq'[i].token => wq'[i].op # "insert_session"
    BY <2>1, <2>3 DEF AuthInv, TokenInv
  <2> QED
    BY <2>6, <2>7, <2>8 DEF TokenInv
<1>5. CASE UNCHANGED <<wq, sessions, lpc, out>>
  BY <1>5 DEF AuthInv, TokenInv, Pending
<1> QED
  BY <1>1, <1>2, <1>3, <1>4, <1>5 DEF Next, vars, regs, logins, tokens,
     RegisterCheck, RegisterInsert, RegisterWrite, RegisterCut, Expire

\* The four parts hold together in every state.
THEOREM AuthInvariant == Spec => []AuthInv
<1>1. Init => AuthInv
  BY DEF Init, AuthInv, TypeOK, RegisterInv, LoginInv, TokenInv, Pending
<1>2. AuthInv /\ [Next]_vars => AuthInv'
  BY TypeNext, RegisterNext, LoginNext, TokenNext DEF AuthInv
<1> QED
  BY <1>1, <1>2, PTL DEF Spec

\* The state of accounts, logins and tokens keeps its types.
THEOREM AuthTypeCorrect == Spec => []TypeOK
<1>1. AuthInv => TypeOK
  BY DEF AuthInv
<1> QED
  BY <1>1, AuthInvariant, PTL

\* However many runs of register.py race for a name, the account keeps the
\* hash of the one that was first: the INSERT is the only write to users.
THEOREM AccountKeepsPassword == Spec => PasswordKept
<1>1. AuthInv /\ [Next]_vars =>
        [\A u \in User : users[u] # None => users'[u] = users[u]]_vars
  BY UsersStay DEF AuthInv
<1> QED
  BY <1>1, AuthInvariant, PTL DEF Spec, PasswordKept

\* A session row, committed or queued, belongs to an account that exists and
\* was opened with its password, although bcrypt lets everybody else run
\* between login's read of the account and its answer.
THEOREM SessionsAreGenuine == Spec => []SessionsGenuine
<1>1. AuthInv => SessionsGenuine
  <2> SUFFICES ASSUME AuthInv, NEW l \in Login,
                      \/ sessions[l] # "none"
                      \/ \E i \in 1..Len(wq) : wq[i] = insert_session(l)
               PROVE  lpc[l] = "issued"
    BY AuthAssumption DEF SessionsGenuine, AuthInv, LoginInv
  <2>1. insert_session(l).token = l
    BY DEF insert_session
  <2> QED
    BY <2>1 DEF AuthInv, LoginInv, TokenInv
<1> QED
  BY <1>1, AuthInvariant, PTL

\* A token that was logged out is refused as soon as the queue holds nothing
\* about it, also when logout came before the row of the token was written.
THEOREM RevokedTokenRefused == Spec => []RevokedRefused
<1>1. AuthInv => RevokedRefused
  <2>1. \A l \in Login : invalidate_session(l).token = l
    BY DEF invalidate_session
  <2> QED
    BY <2>1 DEF AuthInv, TypeOK, TokenInv, Pending, RevokedRefused
<1> QED
  BY <1>1, AuthInvariant, PTL

-----------------------------------------------------------------------------
(* What a registration that was reported leaves behind. *)

\* The account of a name is that of a registration that was reported.
Reported(u) ==
  \E q \in Reg : /\ told[q] = "ok" /\ rname[q] = u
                 /\ users[u] = hash_password(q, rpw[q])

\* Success is reported by the run that has queued its row; every account is of
\* such a run, and one whose writer got to its row has an account.
ReportedInv ==
  /\ \A r \in Reg :
       /\ rpc[r] \in {"start", "hash"} => told[r] = "nothing"
       /\ rpc[r] = "stop" => told[r] = "ok"
       /\ told[r] = "ok" => rname[r] \in User
  /\ \A u \in User : users[u] # None => Reported(u)
  /\ RegisteredExists

\* Every step keeps it: RegisterCheck picks the name of a run that has
\* reported nothing, RegisterWrite finds an account or makes one, and a run
\* that RegisterCut ends is not counted.
LEMMA ReportedNext ==
  ASSUME AuthInv, ReportedInv, [Next]_vars
  PROVE  ReportedInv'
<1> USE DEF AuthInv, TypeOK, RegisterInv
<1>1. ASSUME NEW r \in Reg, NEW u \in User, NEW p \in Password,
             RegisterCheck(r, u, p)
      PROVE  ReportedInv'
  <2>1. told[r] = "nothing" /\ told'[r] # "ok" /\ users' = users
    BY <1>1 DEF RegisterCheck, ReportedInv
  <2>2. \A q \in Reg : q # r =>
          /\ told'[q] = told[q] /\ rpc'[q] = rpc[q]
          /\ rname'[q] = rname[q] /\ rpw'[q] = rpw[q]
    BY <1>1 DEF RegisterCheck
  <2>3. \/ rpc'[r] = "hash" /\ told'[r] = "nothing"
        \/ rpc'[r] = "exited"
    BY <1>1, <2>1 DEF RegisterCheck
  <2>4. \A v \in User : Reported(v) => Reported(v)'
    BY <2>1, <2>2 DEF Reported
  <2> QED
    BY <2>1, <2>2, <2>3, <2>4 DEF ReportedInv, RegisteredExists
<1>2. ASSUME NEW r \in Reg, RegisterInsert(r)
      PROVE  ReportedInv'
  <2>1. told[r] = "nothing" /\ rname[r] \in User
    BY <1>2 DEF RegisterInsert, ReportedInv
  <2>2. told' = [told EXCEPT ![r] = "ok"] /\ rpc' = [rpc EXCEPT ![r] = "stop"]
    BY <1>2 DEF RegisterInsert
  <2>3. UNCHANGED <<users, rname, rpw>>
    BY <1>2 DEF RegisterInsert
  <2>4. \A u \in User : Reported(u) => Reported(u)'
    BY <2>1, <2>2, <2>3 DEF Reported
  <2> QED
    BY <2>1, <2>2, <2>3, <2>4 DEF ReportedInv, RegisteredExists
<1>3. ASSUME NEW r \in Reg, RegisterWrite(r)
      PROVE  ReportedInv'
  <2>1. told[r] = "ok" /\ rname[r] \in User
    BY <1>3 DEF RegisterWrite, ReportedInv
  <2>2. UNCHANGED <<told, rname, rpw>>
    BY <1>3 DEF RegisterWrite
  <2>3. \A u \in User :
          users'[u] = IF u = rname[r] /\ users[u] = None
                      THEN hash_password(r, rpw[r]) ELSE users[u]
    BY <1>3, <2>1 DEF RegisterWrite, ExecInsertUser
  <2>4. \A u \in User : Reported(u) /\ users'[u] = users[u] => Reported(u)'
    BY <2>2 DEF Reported
  <2>5. \A u \in User : u = rname[r] => Reported(u)'
    <3>1. CASE users[rname[r]] = None
      BY <3>1, <2>1, <2>2, <2>3 DEF Reported
    <3>2. CASE users[rname[r]] # None
      BY <3>2, <2>1, <2>2, <2>3, <2>4 DEF ReportedInv
    <3> QED
      BY <3>1, <3>2
  <2>6. \A q \in Reg : rpc'[q] = IF q = r THEN "exited" ELSE rpc[q]
    BY <1>3 DEF RegisterWrite
  <2>7. \A u \in User : users'[u] # None => Reported(u)'
    BY <2>3, <2>4, <2>5 DEF ReportedInv
  <2>8. \A u \in User : Reported(u) => Reported(u)'
    BY <2>3, <2>4, <2>5
  <2>9. ASSUME NEW q \in Reg, told'[q] = "ok", rpc'[q] = "exited"
        PROVE  \A u \in User : u = rname[q] => Reported(u)'
    <3>1. CASE q = r
      BY <2>5, <3>1
    <3>2. CASE q # r
      <4>1. Reported(rname[q])
        BY <2>2, <2>6, <2>9, <3>2 DEF ReportedInv, RegisteredExists, Reported
      <4> QED
        BY <2>8, <4>1
    <3> QED
      BY <3>1, <3>2
  <2>10. RegisteredExists'
    BY <2>1, <2>2, <2>9 DEF RegisteredExists, ReportedInv, Reported
  <2> QED
    BY <2>1, <2>2, <2>6, <2>7, <2>10 DEF ReportedInv
<1>4. ASSUME NEW r \in Reg, RegisterCut(r)
      PROVE  ReportedInv'
  <2>1. told[r] = "ok" /\ rpc' = [rpc EXCEPT ![r] = "cut"]
    BY <1>4 DEF RegisterCut, ReportedInv
  <2>2. UNCHANGED <<users, rname, rpw, told>>
    BY <1>4 DEF RegisterCut
  <2> QED
    BY <2>1, <2>2 DEF ReportedInv, RegisteredExists, Reported
<1>5. CASE UNCHANGED <<users, rpc, rname, rpw, told>>
  BY <1>5 DEF ReportedInv, RegisteredExists, Reported
<1> QED
  BY <1>1, <1>2, <1>3, <1>4, <1>5 DEF Next, vars, regs, logins, tokens, LoginRead,
     LoginVerify, ValidateExpired, Logout, Expire, Writer

\* A registration that was reported and whose writer got to its row has an
\* account under its name, in every race for the name: with its own password,
\* or with that of another run that was told the same.
THEOREM ReportedIsRegistered == Spec => []RegisteredExists
<1>1. Init => ReportedInv
  BY DEF Init, ReportedInv, RegisteredExists
<1>2. AuthInv /\ ReportedInv /\ [Next]_vars => ReportedInv'
  BY ReportedNext
<1>3. AuthInv /\ ReportedInv => RegisteredExists
  BY DEF ReportedInv
<1> QED
  BY <1>1, <1>2, <1>3, AuthInvariant, PTL DEF Spec
=============================================================================
