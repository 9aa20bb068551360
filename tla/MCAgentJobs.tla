---------------------------- MODULE MCAgentJobs ----------------------------
(***************************************************************************)
(* An instance of AgentJobs for TLC: j1 and j3 are two ids for the same    *)
(* key, so that a key can be submitted again after its row was pruned, and *)
(* two workers share the one slot of a queue in which j2 goes first.       *)
(***************************************************************************)
EXTENDS AgentJobs, TLC

CONSTANTS j1, j2, j3, k1, k2, q1

SharedKey == [j \in Jobs |-> IF j = j2 THEN k2 ELSE k1]
OneQueue == [j \in Jobs |-> q1]
SecondFirst == [j \in Jobs |-> IF j = j2 THEN 1 ELSE 0]
OneSlot == [q \in Queues |-> 1]
WorkerSymmetry == Permutations(Workers)
=============================================================================
