-------------------------------- MODULE Auth --------------------------------
(***************************************************************************)
(* backend/auth.py and backend/register.py: accounts and session tokens.   *)
(*                                                                         *)
(* Accounts are created by register.py, each time a process of its own     *)
(* with its own write queue and writer thread on the same database file;   *)
(* logins run in the server's handler threads, whose writes go through the *)
(* server's writer.  bcrypt takes long, so a step ends between the read of *)
(* the users table and what is done with it.                               *)
(*                                                                         *)
(* A token is named by the login that drew it, a salt by the registration  *)
(* that drew it.                                                           *)
(***************************************************************************)
EXTENDS Naturals, Sequences, SequencesExt

CONSTANTS
  User,        \* usernames
  Password,    \* passwords
  Reg,         \* runs of register.py
  Login,       \* calls of login
  None,        \* no row, no name
  MaxQueue     \* bound: tasks in the server's write queue

ASSUME AuthAssumption ==
  /\ None \notin User \cup Password
  /\ MaxQueue \in Nat

VARIABLES
  users,      \* the password_hash of each committed row of users
  sessions,   \* the rows of sessions: "none", "valid" or "invalidated"
  wq,         \* the server's write queue
  rpc,        \* a run of register.py: "start", "hash", "stop", and at its end
              \* "exited", or "cut" when its writer did not get the row in
  rname,      \* its --user
  rpw,        \* its --password
  told,       \* what it printed: "ok" or "taken"
  lpc,        \* a login: "start", "verify", "issued" or "refused"
  lname,      \* its username
  lpw,        \* the password that was given
  row,        \* the password_hash it read
  expired,    \* the tokens past their expires_at
  out         \* history: the tokens logout was called for

regs == <<rpc, rname, rpw, told>>
logins == <<lpc, lname, lpw, row>>
tokens == <<sessions, wq, expired, out>>
vars == <<users, regs, logins, tokens>>

\* bcrypt: the salt is part of the hash, and checkpw accepts exactly the
\* password that was hashed.
Hash == [salt : Reg, password : Password]

hash_password(r, p) == [salt |-> r, password |-> p]

verify_password(hash, p) == hash.password = p

insert_session(l) == [op |-> "insert_session", token |-> l]

\* Mutant: the username is passed in place of the token.
invalidate_user(l) == [op |-> "invalidate_session", token |-> lname[l]]

invalidate_session(l) == [op |-> "invalidate_session", token |-> l]

Task == [op : {"insert_session", "invalidate_session"}, token : Login]

\* The types of the state.
TypeOK ==
  /\ users \in [User -> Hash \cup {None}]
  /\ sessions \in [Login -> {"none", "valid", "invalidated"}]
  /\ wq \in Seq(Task)
  /\ rpc \in [Reg -> {"start", "hash", "stop", "exited", "cut"}]
  /\ rname \in [Reg -> User \cup {None}]
  /\ rpw \in [Reg -> Password \cup {None}]
  /\ told \in [Reg -> {"nothing", "ok", "taken"}]
  /\ lpc \in [Login -> {"start", "verify", "issued", "refused"}]
  /\ lname \in [Login -> User \cup {None}]
  /\ lpw \in [Login -> Password \cup {None}]
  /\ row \in [Login -> Hash \cup {None}]
  /\ expired \in SUBSET Login
  /\ out \in SUBSET Login

Init ==
  /\ users = [u \in User |-> None]
  /\ sessions = [l \in Login |-> "none"]
  /\ wq = << >>
  /\ rpc = [r \in Reg |-> "start"]
  /\ rname = [r \in Reg |-> None]
  /\ rpw = [r \in Reg |-> None]
  /\ told = [r \in Reg |-> "nothing"]
  /\ lpc = [l \in Login |-> "start"]
  /\ lname = [l \in Login |-> None]
  /\ lpw = [l \in Login |-> None]
  /\ row = [l \in Login |-> None]
  /\ expired = {}
  /\ out = {}

get_user(u) == users[u]

-----------------------------------------------------------------------------
(* register.py. *)

\* register_user looks the name up: a taken one ends the process.
RegisterCheck(r, u, p) ==
  /\ rpc[r] = "start"
  /\ rname' = [rname EXCEPT ![r] = u]
  /\ rpw' = [rpw EXCEPT ![r] = p]
  /\ IF get_user(u) = None
     THEN rpc' = [rpc EXCEPT ![r] = "hash"] /\ UNCHANGED told
     ELSE /\ rpc' = [rpc EXCEPT ![r] = "exited"]
          /\ told' = [told EXCEPT ![r] = "taken"]
  /\ UNCHANGED <<users, logins, tokens>>

\* Mutant: main returns without db.stop(), and the daemon thread dies with it.
RegisterInsertUnflushed(r) ==
  /\ rpc[r] = "hash"
  /\ rpc' = [rpc EXCEPT ![r] = "exited"]
  /\ told' = [told EXCEPT ![r] = "ok"]
  /\ UNCHANGED <<users, rname, rpw, logins, tokens>>

\* The hash is there, the row queued, and success reported.
RegisterInsert(r) ==
  /\ rpc[r] = "hash"
  /\ rpc' = [rpc EXCEPT ![r] = "stop"]
  /\ told' = [told EXCEPT ![r] = "ok"]
  /\ UNCHANGED <<users, rname, rpw, logins, tokens>>

\* Mutant: INSERT OR REPLACE.
ExecReplaceUser(u, hash) == users' = [users EXCEPT ![u] = hash]

\* INSERT: username is UNIQUE, a second row is an error the writer prints.
ExecInsertUser(u, hash) ==
  users' = IF users[u] = None THEN [users EXCEPT ![u] = hash] ELSE users

\* The process's own writer executes the row while stop() waits for it.
RegisterWrite(r) ==
  /\ rpc[r] = "stop"
  /\ rpc' = [rpc EXCEPT ![r] = "exited"]
  /\ ExecInsertUser(rname[r], hash_password(r, rpw[r]))
  /\ UNCHANGED <<rname, rpw, told, logins, tokens>>

\* Or it does not: the database stays locked until sqlite3 gives up and the
\* writer rolls back, or until stop() has waited 5 s and the process ends, its
\* daemon thread with it.
RegisterCut(r) ==
  /\ rpc[r] = "stop"
  /\ rpc' = [rpc EXCEPT ![r] = "cut"]
  /\ UNCHANGED <<users, rname, rpw, told, logins, tokens>>

-----------------------------------------------------------------------------
(* The server: login, validate_session, logout. *)

\* login reads the row of the name.
LoginRead(l, u, p) ==
  /\ lpc[l] = "start"
  /\ lname' = [lname EXCEPT ![l] = u]
  /\ lpw' = [lpw EXCEPT ![l] = p]
  /\ row' = [row EXCEPT ![l] = get_user(u)]
  /\ lpc' = [lpc EXCEPT ![l] = IF get_user(u) = None THEN "refused"
                                ELSE "verify"]
  /\ UNCHANGED <<users, regs, tokens>>

\* Mutant: the outcome of verify_password is not looked at.
LoginUnverified(l) ==
  /\ lpc[l] = "verify"
  /\ Len(wq) < MaxQueue
  /\ lpc' = [lpc EXCEPT ![l] = "issued"]
  /\ wq' = Append(wq, insert_session(l))
  /\ UNCHANGED <<users, regs, lname, lpw, row, sessions, expired, out>>

\* ... compares the password with it, draws a token and queues its row.
LoginVerify(l) ==
  /\ lpc[l] = "verify"
  /\ Len(wq) < MaxQueue
  /\ IF verify_password(row[l], lpw[l])
     THEN /\ lpc' = [lpc EXCEPT ![l] = "issued"]
          /\ wq' = Append(wq, insert_session(l))
     ELSE lpc' = [lpc EXCEPT ![l] = "refused"] /\ UNCHANGED wq
  /\ UNCHANGED <<users, regs, lname, lpw, row, sessions, expired, out>>

get_session(l) == sessions[l] = "valid"

\* validate_session of a token past its time queues its invalidation.  (For
\* any other token it only reads.)
ValidateExpired(l) ==
  /\ get_session(l) /\ l \in expired
  /\ Len(wq) < MaxQueue
  /\ wq' = Append(wq, invalidate_session(l))
  /\ UNCHANGED <<users, regs, logins, sessions, expired, out>>

\* Whoever holds a token may log out, also before its row is committed.
Logout(l) ==
  /\ lpc[l] = "issued"
  /\ Len(wq) < MaxQueue
  /\ wq' = Append(wq, invalidate_session(l))
  /\ out' = out \cup {l}
  /\ UNCHANGED <<users, regs, logins, sessions, expired>>

Expire(l) ==
  /\ lpc[l] = "issued"
  /\ l \notin expired
  /\ expired' = expired \cup {l}
  /\ UNCHANGED <<users, regs, logins, sessions, wq, out>>

\* What one task does to the row of a token: the UPDATE matches no row when
\* there is none yet.
Exec(task) ==
  sessions' =
    [sessions EXCEPT ![task.token] =
       IF task.op = "insert_session" THEN "valid"
       ELSE IF @ = "none" THEN "none" ELSE "invalidated"]

\* Mutant: queue.LifoQueue.
WriterLifo ==
  /\ wq # << >>
  /\ Exec(Last(wq))
  /\ wq' = Front(wq)
  /\ UNCHANGED <<users, regs, logins, expired, out>>

Writer ==
  /\ wq # << >>
  /\ Exec(Head(wq))
  /\ wq' = Tail(wq)
  /\ UNCHANGED <<users, regs, logins, expired, out>>

Next ==
  \/ \E r \in Reg, u \in User, p \in Password : RegisterCheck(r, u, p)
  \/ \E r \in Reg : RegisterInsert(r) \/ RegisterWrite(r) \/ RegisterCut(r)
  \/ \E l \in Login, u \in User, p \in Password : LoginRead(l, u, p)
  \/ \E l \in Login :
       LoginVerify(l) \/ ValidateExpired(l) \/ Logout(l) \/ Expire(l)
  \/ Writer

Spec == Init /\ [][Next]_vars

-----------------------------------------------------------------------------

\* An account keeps the hash it was created with, whoever else registers
\* the same name at the same time.
PasswordKept ==
  [][\A u \in User : users[u] # None => users'[u] = users[u]]_vars

\* A session row, committed or queued, is of an account that exists now and was
\* opened with the password it has now: nothing changes under a slow login, and
\* the row's foreign key holds when the writer gets to it.
SessionsGenuine ==
  \A l \in Login :
    \/ sessions[l] # "none"
    \/ \E i \in 1..Len(wq) : wq[i] = insert_session(l)
    => lname[l] # None /\ users[lname[l]] # None
       /\ verify_password(users[lname[l]], lpw[l])

\* Once the queue has nothing about a token that was logged out, the token is
\* refused for good: its invalidation was not executed ahead of its insertion.
RevokedRefused ==
  \A l \in out :
    (\A i \in 1..Len(wq) : wq[i].token # l) => sessions[l] = "invalidated"

\* A registration that was reported, and whose writer executed its task, leaves
\* an account under its name.  Its password is the one that was given, or that
\* of another run of register.py that took the name between the lookup and the
\* insertion and was told the same: register_user does not learn that its
\* INSERT failed.
RegisteredExists ==
  \A r \in Reg :
    told[r] = "ok" /\ rpc[r] = "exited" =>
      \E q \in Reg : /\ told[q] = "ok" /\ rname[q] = rname[r]
                     /\ users[rname[r]] = hash_password(q, rpw[q])

-----------------------------------------------------------------------------
(* What the repository says, and the code does not do. *)

=============================================================================
