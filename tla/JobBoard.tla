------------------------------ MODULE JobBoard ------------------------------
(***************************************************************************)
(* What a job queue promises to those who submit and to those who work,    *)
(* without leases, backoff or rows: a job is on offer, held by one worker  *)
(* or over; every time it is taken counts against its budget; a queue      *)
(* never has more jobs held than it has slots; what is over stays over.    *)
(***************************************************************************)
EXTENDS Naturals, FiniteSets

CONSTANTS Jobs, Queues, QueueOf, Slots

VARIABLES
  phase,   \* where each job is
  tries,   \* how often it was taken
  budget   \* how often it may be taken

Phases == {"unknown", "offered", "held", "done", "dead", "dropped",
           "forgotten"}

Init ==
  /\ phase = [j \in Jobs |-> "unknown"]
  /\ tries = [j \in Jobs |-> 0]
  /\ budget = [j \in Jobs |-> 0]

Goes(j, from, to) == phase[j] = from /\ phase'[j] = to

Unspent(j) == tries'[j] = tries[j] /\ budget'[j] = budget[j]

Cleared(j) == tries'[j] = 0 /\ budget'[j] = 0

(* One more try, only while the budget allows it. *)
Spent(j) ==
  /\ tries[j] < budget[j]
  /\ tries'[j] = tries[j] + 1
  /\ budget'[j] = budget[j]

Move(j) ==
  \/ Goes(j, "unknown", "offered") /\ tries'[j] = 0 /\ budget'[j] > 0
  \/ Goes(j, "offered", "held") /\ Spent(j)
  \/ Goes(j, "held", "held") /\ Spent(j)      \* lost and taken again
  \/ Goes(j, "held", "offered") /\ Unspent(j) /\ tries[j] < budget[j]
  \/ Goes(j, "held", "dead") /\ Unspent(j) /\ tries[j] = budget[j]
  \/ Goes(j, "held", "done") /\ Unspent(j)
  \/ Goes(j, "offered", "dropped") /\ Unspent(j)
  \/ Goes(j, "held", "dropped") /\ Unspent(j)
  \/ Goes(j, "done", "forgotten") /\ Cleared(j)
  \/ Goes(j, "dropped", "forgotten") /\ Cleared(j)

Stays(j) == phase'[j] = phase[j] /\ Unspent(j)

HeldIn(q) == {j \in Jobs : QueueOf[j] = q /\ phase[j] = "held"}

Next ==
  /\ \A j \in Jobs : Move(j) \/ Stays(j)
  /\ \A q \in Queues : Cardinality(HeldIn(q)') <= Slots[q]

Spec == Init /\ [][Next]_<<phase, tries, budget>>
=============================================================================
