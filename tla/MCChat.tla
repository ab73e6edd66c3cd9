------------------------------- MODULE MCChat -------------------------------
(***************************************************************************)
(* Identifiers 1 to 5 stand for " a", "a", "a:b", "b:c" and "c": the first *)
(* is the second when trimmed, and the keys of "a" with "b:c" and of "a:b" *)
(* with "c" are the same.  Two calls resolve one pair from either side, or *)
(* two pairs with one key, or a user with itself; two messages are sent,   *)
(* with or without a body.                                                 *)
(***************************************************************************)
EXTENDS Chat

CONSTANTS m1, m2

Pair(user, peer) == [user |-> user, peer |-> peer]

MCUsers == 0..5
MCTrimmed == [u \in MCUsers |-> IF u = 1 THEN 2 ELSE u]
MCJoined == [p \in MCUsers \X MCUsers |-> IF p = <<3, 5>> THEN <<2, 4>> ELSE p]
MCPairs == [c1 |-> {Pair(2, 4)}, c2 |-> {Pair(4, 1), Pair(5, 3), Pair(1, 2)}]
MCPayloads == {[room |-> Nil, content |-> "hello"], [room |-> Nil, content |-> ""]}
=============================================================================
