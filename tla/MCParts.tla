------------------------------ MODULE MCParts ------------------------------
(***************************************************************************)
(* An instance for TLC of components whose liveness is checked and that    *)
(* share no state, side by side: a behaviour runs one of them and the      *)
(* others stand still.  Key health, degraded mode and fusion are           *)
(* extended.  The job queue and the fallback loop, whose safety has larger *)
(* instances, are small here.  Two jobs share the one slot of a queue, the *)
(* second goes first whenever both are due, and a claim on another queue   *)
(* reclaims their leases too.  One request has two routes on two keys, so  *)
(* that time and failures alone decide when it ends.                       *)
(***************************************************************************)
EXTENDS KeyHealth, DegradedMode, Fusion

CONSTANTS Nothing, k1, k2, j1, j2, q1, q2, r1, r2, w1

VARIABLES
  part,                                  \* the component that runs
  jobRow, executions,                    \* of the job queue
  lease, reserved, usageRow, spent, req  \* of the fallback loop

Half == [n \in 0 .. Cardinality(Providers) |-> (n + 1) \div 2]

Queue == INSTANCE AgentJobs WITH
  row <- jobRow, None <- Nothing,
  Jobs <- {j1, j2}, Keys <- {k1, k2}, Queues <- {q1, q2}, Workers <- {w1},
  KeyOf <- [j \in {j1, j2} |-> IF j = j1 THEN k1 ELSE k2],
  QueueOf <- [j \in {j1, j2} |-> q1],
  Priority <- [j \in {j1, j2} |-> IF j = j2 THEN 1 ELSE 0], Concurrency <- [q \in {q1, q2} |-> 1],
  MaxAttempts <- 2, LeaseTicks <- 1, BaseBackoff <- 1, MaxBackoff <- 1, MaxDelay <- 0

Loop == INSTANCE FallbackLoop WITH
  row <- usageRow, None <- Nothing,
  Requests <- {q1}, Routes <- {r1, r2}, Keys <- {k1, k2},
  KeyOf <- [r \in {r1, r2} |-> IF r = r1 THEN k1 ELSE k2],
  ModelOf <- [r \in {r1, r2} |-> r], PlatformOf <- [r \in {r1, r2} |-> r],
  Meters <- {}, Scope <- << >>, Limit <- << >>, Width <- << >>, Daily <- {},
  Concurrency <- [k \in {k1, k2} |-> 1], MonthlyCap <- [k \in {k1, k2} |-> 0],
  LeaseAge <- 1, Horizon <- 2, MaxRetries <- 3,
  BudgetOf <- [r \in {r1, r2} |-> 1], BreakerLimit <- 0, MaxElapsed <- 2

loopVars == <<lease, reserved, usageRow, spent, req>>
jobVars == <<jobRow, executions>>
partVars == <<part, health, degradation, fusion, loopVars, jobVars>>

(* What stands still starts in one state. *)
StandsStill ==
  /\ part # "health" => \A k \in Keys : key[k].cred = "good"
  /\ part # "mode" => \A p \in Providers : provider[p] = "usable"
  /\ part # "fusion" =>
       wish = [tools |-> "absent", refills |-> 0, judge |-> FALSE, stream |-> FALSE]

PartsInit ==
  /\ part \in {"health", "mode", "fusion", "loop", "jobs"}
  /\ HealthInit /\ DegradationInit /\ FusionInit
  /\ Loop!Init /\ Queue!Init
  /\ StandsStill

PartsNext ==
  /\ UNCHANGED part
  /\ \/ part = "health" /\ HealthNext
        /\ UNCHANGED <<degradation, fusion, loopVars, jobVars>>
     \/ part = "mode" /\ DegradationNext
        /\ UNCHANGED <<health, fusion, loopVars, jobVars>>
     \/ part = "fusion" /\ FusionNext
        /\ UNCHANGED <<health, degradation, loopVars, jobVars>>
     \/ part = "loop" /\ Loop!Next
        /\ UNCHANGED <<health, degradation, fusion, jobVars>>
     \/ part = "jobs" /\ Queue!Next
        /\ UNCHANGED <<health, degradation, fusion, loopVars>>

PartsFairness ==
  \/ part = "health" /\ HealthFairness
  \/ part = "mode" /\ DegradationFairness
  \/ part = "fusion" /\ FusionFairness
  \/ part = "loop" /\ Loop!Fairness
  \/ part = "jobs" /\ Queue!Fairness

PartsSpec == PartsInit /\ [][PartsNext]_partVars /\ PartsFairness

-----------------------------------------------------------------------------
(* Every variable of every part has its type. *)
PartsTypeOK ==
  /\ HealthTypeOK /\ DegradationTypeOK /\ FusionTypeOK
  /\ Loop!TypeOK /\ Queue!TypeOK

(* Where its part runs: a key is judged (KeyHealth), the mode follows an   *)
(* outage (DegradedMode), and a fusion ends (Fusion).                      *)
HealthFollowsProvider == part = "health" => KeysAreJudged
ModeFollows == part = "mode" => ModeFollowsOutage
FusionsEnd == part = "fusion" => EveryFusionEnds

(* Every job that is submitted ends (AgentJobs), and every request that is *)
(* sent is over at some time (FallbackLoop).                               *)
EveryJobEnds == Queue!EveryJobEnds
EveryRequestEnds == Loop!EveryRequestEnds
=============================================================================
