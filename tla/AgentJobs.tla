----------------------------- MODULE AgentJobs -----------------------------
(***************************************************************************)
(* The durable job queue: the rows of agent_jobs as agent-jobs.ts moves    *)
(* them, and the workers that claim rows over HTTP and report back.  Every *)
(* function of agent-jobs.ts runs without an await and its writes are one  *)
(* transaction or one statement, so each is one action; a worker's claim   *)
(* and its report are two, with anything in between.                       *)
(*                                                                         *)
(* The code compares timestamps with now only, so a row keeps the distance *)
(* to them: lease is lease_expires_at - now and wait is available_at - now *)
(* in ticks, both stopping at 0.                                           *)
(***************************************************************************)
EXTENDS Naturals, FiniteSets

CONSTANTS
  Jobs,         \* job ids; enqueue draws a fresh one for every row
  Keys,         \* (queue, organization, idempotency key) triples
  Queues,       \* queue names
  Workers,      \* worker ids, as their credentials name them
  None,         \* the NULL of worker_id
  KeyOf,        \* the key a job id is drawn for
  QueueOf,      \* the queue of a job's key
  Priority,     \* priority of a job
  Concurrency,  \* policy.concurrency of a queue
  MaxAttempts,  \* policy.maxAttempts
  LeaseTicks,   \* policy.leaseMs
  BaseBackoff,  \* policy.baseBackoffMs
  MaxBackoff,   \* policy.maxBackoffMs
  MaxDelay      \* bound on the delay a producer asks for

ASSUME QueueAssumption ==
  /\ IsFiniteSet(Jobs)
  /\ KeyOf \in [Jobs -> Keys]
  /\ QueueOf \in [Jobs -> Queues]
  /\ \A i, j \in Jobs : KeyOf[i] = KeyOf[j] => QueueOf[i] = QueueOf[j]
  /\ Priority \in [Jobs -> Nat]
  /\ Concurrency \in [Queues -> Nat \ {0}]
  /\ MaxAttempts \in Nat \ {0}
  /\ LeaseTicks \in Nat \ {0}
  /\ BaseBackoff \in Nat \ {0}
  /\ MaxBackoff \in Nat \ {0}
  /\ MaxDelay \in Nat
  /\ None \notin Workers

VARIABLES
  row,        \* the row of each job id
  executions  \* claimed work that has not reported back yet

vars == <<row, executions>>

Live == {"queued", "retry_wait", "running"}
Finished == {"completed", "dead_letter", "cancelled"}
Statuses == {"absent", "pruned"} \cup Live \cup Finished

LongestWait == IF MaxBackoff > MaxDelay THEN MaxBackoff ELSE MaxDelay

Rows ==
  [status : Statuses, attempts : 0 .. MaxAttempts,
   maxAttempts : 0 .. MaxAttempts, worker : Workers \cup {None},
   lease : 0 .. LeaseTicks, wait : 0 .. LongestWait, birth : Nat]

Absent == [status |-> "absent", attempts |-> 0, maxAttempts |-> 0,
           worker |-> None, lease |-> 0, wait |-> 0, birth |-> 0]

Present(j) == row[j].status \notin {"absent", "pruned"}

Init ==
  /\ row = [j \in Jobs |-> Absent]
  /\ executions = {}

-----------------------------------------------------------------------------
(* The INSERT of enqueue(); created_at is kept as the order of the rows. *)
NewRow(maxAttempts, delay) ==
  [Absent EXCEPT
     !.status = IF delay > 0 THEN "retry_wait" ELSE "queued",
     !.maxAttempts = maxAttempts,
     !.wait = delay,
     !.birth = Cardinality({k \in Jobs : row[k].status # "absent"})]

(* Mutant: looks for unfinished work of the key only. *)
BugEnqueue(j, maxAttempts, delay) ==
  /\ row[j].status = "absent"
  /\ \A k \in Jobs : KeyOf[k] = KeyOf[j] => row[k].status \notin Live
  /\ row' = [row EXCEPT ![j] = NewRow(maxAttempts, delay)]
  /\ UNCHANGED executions

(* enqueue(): a new row, unless its key has one.  (A key that has a row     *)
(* returns it, or is refused when the payload differs: nothing changes.)   *)
enqueue(j, maxAttempts, delay) ==
  /\ row[j].status = "absent"
  /\ \A k \in Jobs : KeyOf[k] = KeyOf[j] => ~Present(k)
  /\ row' = [row EXCEPT ![j] = NewRow(maxAttempts, delay)]
  /\ UNCHANGED executions

(* Mutant: takes every running row for lost. *)
BugExpired(r) == r.status = "running"

(* reclaimExpiredLeases(), for one row. *)
Expired(r) == r.status = "running" /\ r.lease = 0

Reclaimed(r) ==
  IF Expired(r)
    THEN [r EXCEPT !.status = IF r.attempts >= r.maxAttempts
                                THEN "dead_letter" ELSE "queued",
                   !.worker = None, !.wait = 0]
    ELSE r

(* Mutant: a waiting row is left waiting. *)
BugMadeDue(r) == r

(* claim(), its second statement: a waiting row of the queue falls due. *)
MadeDue(r) ==
  IF r.status = "retry_wait" /\ r.wait = 0
    THEN [r EXCEPT !.status = "queued"]
    ELSE r

(* The rows as claim(q) sees them when it counts and selects. *)
Refreshed(q) ==
  [j \in Jobs |-> IF QueueOf[j] = q THEN MadeDue(Reclaimed(row[j]))
                                    ELSE Reclaimed(row[j])]

Due(rows, q) ==
  {j \in Jobs : /\ QueueOf[j] = q
                /\ rows[j].status = "queued"
                /\ rows[j].wait = 0}

RunningIn(rows, q) ==
  {j \in Jobs : QueueOf[j] = q /\ rows[j].status = "running"}

(* Mutant: the oldest row first, whatever its priority. *)
BugBefore(i, j) == row[i].birth < row[j].birth

(* ORDER BY priority DESC, created_at ASC *)
Before(i, j) ==
  \/ Priority[i] > Priority[j]
  \/ Priority[i] = Priority[j] /\ row[i].birth < row[j].birth

(* Mutant: capacity without the rows that already run. *)
BugSelected(rows, q, limit, chosen) ==
  LET due == Due(rows, q)
      taken == Cardinality(chosen)
  IN  /\ chosen \subseteq due
      /\ taken <= limit /\ taken <= Concurrency[q]
      /\ chosen = due \/ taken = limit \/ taken = Concurrency[q]
      /\ \A i \in chosen, j \in due \ chosen : Before(i, j)

(* The first rows in that order, as many as min(limit, concurrency -        *)
(* running) allows.                                                        *)
Selected(rows, q, limit, chosen) ==
  LET due == Due(rows, q)
      taken == Cardinality(chosen)
      slots == Cardinality(RunningIn(rows, q)) + taken
  IN  /\ chosen \subseteq due
      /\ taken <= limit
      /\ chosen # {} => slots <= Concurrency[q]
      /\ chosen = due \/ taken = limit \/ slots >= Concurrency[q]
      /\ \A i \in chosen, j \in due \ chosen : Before(i, j)

(* Mutant: the attempt is not counted. *)
BugClaimed(r, w) ==
  [r EXCEPT !.status = "running", !.worker = w, !.lease = LeaseTicks]

Claimed(r, w) ==
  [r EXCEPT !.status = "running", !.worker = w, !.lease = LeaseTicks,
            !.attempts = @ + 1]

(* claim(): reclaim, make due, select, take.  One transaction. *)
claim(q, w, limit, chosen) ==
  LET rows == Refreshed(q)
  IN  /\ Selected(rows, q, limit, chosen)
      /\ row' = [j \in Jobs |-> IF j \in chosen THEN Claimed(rows[j], w)
                                                ELSE rows[j]]
      /\ executions' = executions \cup
           {[job |-> j, worker |-> w, attempt |-> row[j].attempts + 1] :
              j \in chosen}

(* complete() and fail() look for the worker's id, and not at the lease. *)
HeldBy(j, w) == row[j].status = "running" /\ row[j].worker = w

Completed(r) ==
  [r EXCEPT !.status = "completed", !.worker = None, !.lease = 0]

complete(x) ==
  /\ row' = IF HeldBy(x.job, x.worker)
              THEN [row EXCEPT ![x.job] = Completed(@)]
              ELSE row
  /\ executions' = executions \ {x}

(* Mutant: no ceiling, and the exponent off by one. *)
BugBackoff(attempts) == BaseBackoff * 2 ^ attempts

(* min(base * 2 ** (attempts - 1), max) *)
Backoff(attempts) ==
  IF BaseBackoff * 2 ^ (attempts - 1) \in 0 .. MaxBackoff
    THEN BaseBackoff * 2 ^ (attempts - 1)
    ELSE MaxBackoff

AfterFailure(r) ==
  IF r.attempts >= r.maxAttempts
    THEN [r EXCEPT !.status = "dead_letter", !.worker = None, !.lease = 0]
    ELSE [r EXCEPT !.status = "retry_wait", !.worker = None, !.lease = 0,
                   !.wait = Backoff(r.attempts)]

fail(x) ==
  /\ row' = IF HeldBy(x.job, x.worker)
              THEN [row EXCEPT ![x.job] = AfterFailure(@)]
              ELSE row
  /\ executions' = executions \ {x}

(* The available_at of a cancelled row is never read again. *)
Cancelled(r) ==
  [r EXCEPT !.status = "cancelled", !.worker = None, !.lease = 0, !.wait = 0]

(* cancel(): also takes a row away from the worker that runs it. *)
cancel(j) ==
  /\ row[j].status \in Live
  /\ row' = [row EXCEPT ![j] = Cancelled(@)]
  /\ UNCHANGED executions

(* queueStats(): reclaims expired leases before it counts. *)
queueStats ==
  /\ \E j \in Jobs : Expired(row[j])
  /\ row' = [j \in Jobs |-> Reclaimed(row[j])]
  /\ UNCHANGED executions

Pruned == [Absent EXCEPT !.status = "pruned"]

(* pruneFinished(): deletes the finished rows older than a cutoff the       *)
(* caller chooses; a dead letter has no completed_at and stays.            *)
pruneFinished(old) ==
  /\ old # {}
  /\ \A j \in old : row[j].status \in {"completed", "cancelled"}
  /\ row' = [j \in Jobs |-> IF j \in old THEN Pruned ELSE row[j]]
  /\ UNCHANGED executions

(* The worker's process dies, or its report never arrives. *)
Vanish(x) ==
  /\ executions' = executions \ {x}
  /\ UNCHANGED row

OneLess(n) == IF n > 0 THEN n - 1 ELSE 0

Ticked(r) ==
  [r EXCEPT !.lease = OneLess(r.lease), !.wait = OneLess(r.wait)]

Tick ==
  /\ row' = [j \in Jobs |-> Ticked(row[j])]
  /\ UNCHANGED executions

ClaimFrom(q) ==
  \E w \in Workers, limit \in {1, 2}, chosen \in SUBSET Due(Refreshed(q), q) :
    claim(q, w, limit, chosen)

Next ==
  \/ \E j \in Jobs, n \in 1 .. MaxAttempts, d \in 0 .. MaxDelay :
       enqueue(j, n, d)
  \/ \E q \in Queues : ClaimFrom(q)
  \/ \E x \in executions : complete(x) \/ fail(x) \/ Vanish(x)
  \/ \E j \in Jobs : cancel(j)
  \/ queueStats
  \/ \E old \in SUBSET Jobs : pruneFinished(old)
  \/ Tick

Spec == Init /\ [][Next]_vars

(* Time passes and some worker keeps polling each queue; nothing is        *)
(* assumed of a worker once it has claimed.                                *)
Fairness ==
  /\ WF_vars(Tick)
  /\ \A q \in Queues : WF_vars(ClaimFrom(q))

-----------------------------------------------------------------------------
TypeOK ==
  /\ row \in [Jobs -> Rows]
  /\ executions \subseteq [job : Jobs, worker : Workers, attempt : Nat]

(* A queue never runs more jobs than its policy allows: not when one claim *)
(* takes several, nor when expired leases are reclaimed in between.        *)
ConcurrencyRespected ==
  \A q \in Queues : Cardinality(RunningIn(row, q)) <= Concurrency[q]

(* The attempt budget: a job on offer still has an attempt left, and only  *)
(* a job that used all of them is a dead letter, whether its attempts      *)
(* ended in failures or in lost leases.                                    *)
AttemptsWithinBudget ==
  \A j \in Jobs :
    /\ row[j].attempts <= row[j].maxAttempts
    /\ row[j].status \in {"queued", "retry_wait"} =>
         row[j].attempts < row[j].maxAttempts
    /\ row[j].status = "dead_letter" => row[j].attempts = row[j].maxAttempts

(* Two live rows never stand for the same work. *)
OneRowPerKey ==
  \A i, j \in Jobs : i # j /\ Present(i) /\ Present(j) => KeyOf[i] # KeyOf[j]

(* Every lease is backed by work: the holder of a row is a worker, and it  *)
(* is running exactly when it has one.                                     *)
LeaseHasHolder ==
  \A j \in Jobs :
    /\ row[j].status = "running" <=> row[j].worker # None
    /\ row[j].lease > 0 => row[j].status = "running"

(* "A claimed job is owned by exactly one worker until lease_expires_at    *)
(* passes": while its lease runs, a row stays with its holder and its      *)
(* attempt until somebody cancels it or a report of the holder arrives.    *)
(* No claim or reclaim moves it, and the report of another worker, who     *)
(* lost the job earlier, is refused.                                       *)
LeaseIsNotStolen ==
  [][\A j \in Jobs :
       row[j].status = "running" /\ row[j].lease > 0 =>
         \/ /\ row'[j].status = "running"
            /\ row'[j].worker = row[j].worker
            /\ row'[j].attempts = row[j].attempts
         \/ row'[j].status = "cancelled"
         \/ /\ row'[j].status \in {"completed", "retry_wait", "dead_letter"}
            /\ \E x \in executions \ executions' :
                 x.job = j /\ x.worker = row[j].worker]_vars

(* What has finished stays finished: a report or a reclaim that comes late *)
(* never revives a completed, cancelled or dead job.                       *)
FinishedIsFinal ==
  [][\A j \in Jobs : row[j].status \in Finished =>
       row'[j] = row[j] \/ row'[j].status = "pruned"]_vars

(* A claim takes the best job: no job of the same queue that was due, and  *)
(* has a higher priority or the same and is older, is passed over -- also  *)
(* when it only became due by this claim's own reclaim.                    *)
ClaimsTakeTheBest ==
  [][\A i, j \in Jobs :
       /\ row'[i].attempts = row[i].attempts + 1
       /\ QueueOf[i] = QueueOf[j]
       /\ \/ Priority[j] > Priority[i]
          \/ Priority[j] = Priority[i] /\ row[j].birth < row[i].birth
       => ~ /\ row'[j].status \in {"queued", "retry_wait"}
            /\ row'[j].wait = 0]_vars

(* A worker that dies does not strand its job, and neither does a retry, a *)
(* backoff or a queue whose slots a job of a higher priority takes first:  *)
(* every row comes to an end.  There are finitely many ids, so the jobs    *)
(* that may go first run out; a producer that never stops submitting them  *)
(* would keep a lower priority waiting for ever.                           *)
EveryJobEnds ==
  \A j \in Jobs : row[j].status \in Live ~> row[j].status \notin Live

(* "Only its lease holder may complete it" (agent-jobs.ts): a row is       *)
(* completed by the execution that holds its current attempt.              *)
CompletedByItsHolder ==
  [][\A x \in executions \ executions' :
       row[x.job].status = "running" /\ row'[x.job].status = "completed"
         => x.attempt = row[x.job].attempts]_vars

(* The queue implements the job board. *)
Phase(status) ==
  CASE status = "absent" -> "unknown"
    [] status \in {"queued", "retry_wait"} -> "offered"
    [] status = "running" -> "held"
    [] status = "completed" -> "done"
    [] status = "dead_letter" -> "dead"
    [] status = "cancelled" -> "dropped"
    [] OTHER -> "forgotten"

Board == INSTANCE JobBoard WITH
  Slots <- Concurrency,
  phase <- [j \in Jobs |-> Phase(row[j].status)],
  tries <- [j \in Jobs |-> row[j].attempts],
  budget <- [j \in Jobs |-> row[j].maxAttempts]

ImplementsBoard == Board!Spec
=============================================================================
