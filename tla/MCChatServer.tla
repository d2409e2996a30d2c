---------------------------- MODULE MCChatServer ----------------------------
(***************************************************************************)
(* Small instances of ChatServer.  Message 1 goes from alice to bob,       *)
(* message 2 from bob to alice, message 3 from alice to the server.        *)
(* Message 4 goes from alice to bob with data the table does not take;     *)
(* "to" is null in message 5 and an object in message 6.                   *)
(***************************************************************************)
EXTENDS ChatServer, TLC

CONSTANTS alice, bob

MCFrom == [m \in Msg |-> IF m = 2 THEN bob ELSE alice]

MCTo == [m \in Msg |-> CASE m \in {1, 4} -> bob [] m = 2 -> alice
                         [] m = 3 -> Server [] m = 5 -> Null [] m = 6 -> Object]

ConnSymmetry == Permutations(Conn)
=============================================================================
