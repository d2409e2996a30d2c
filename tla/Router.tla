------------------------------- MODULE Router -------------------------------
(***************************************************************************)
(* backend/router.py: the in-memory routing table.  Each operation holds   *)
(* the module's lock for one dictionary operation, so each is atomic and   *)
(* is a part of the action of the handler thread that calls it.            *)
(***************************************************************************)
EXTENDS ChatBase

VARIABLE router   \* _active_connections: the connection of each online user

RouterTypeOK == router \in [User -> Conn \cup {NoConn}]

RouterInit == router = [u \in User |-> NoConn]

\* A later registration of the same user replaces the earlier one.
register(u, c) == router' = [router EXCEPT ![u] = c]

\* Mutants of unregister: it forgets the pop, it empties the table, it assigns
\* None to the entry.
unregister_forgets(u) == router' = router
unregister_clears(u) == router' = [v \in User |-> NoConn]
unregister_assigns(u) == router' = [router EXCEPT ![u] = NoUser]

\* pop(username, None): whoever's entry it is.
unregister(u) == router' = [router EXCEPT ![u] = NoConn]

\* get(username): None also for a "to" that is nobody's name.
get_connection(u) == IF u \in User THEN router[u] ELSE NoConn
=============================================================================
