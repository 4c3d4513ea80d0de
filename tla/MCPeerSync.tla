------------------------------ MODULE MCPeerSync ------------------------------
(* Instances of PeerSync: two stores, one workflow.                         *)
EXTENDS PeerSync, TLC

CONSTANTS a, b, w, t1, t2, x1

Pair == {a, b}
OneTask == {t1}
OneAttempt == {x1}
Belongs == x1 :> t1
\* 1: pending, without freshness; 2, 3: done, with freshness and without.
FreshRows == 1 .. 3
KeptFresh == [p \in (FreshRows \cup {0}) \X FreshRows |->
                 IF p[2] = 1 THEN 1 ELSE IF p[1] = 2 THEN 2 ELSE 3]
LaunchRows == 1 .. 2
StoreSymmetry == Permutations(Pair)
=============================================================================
