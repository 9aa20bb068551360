-------------------------- MODULE AgentJobsProofs --------------------------
(***************************************************************************)
(* The safety properties of the durable job queue, and that it implements  *)
(* the job board, for all sets of jobs, keys, queues and workers and all   *)
(* queue policies.                                                         *)
(*                                                                         *)
(* What an operation does to one row is a lemma about that row (RowOK is   *)
(* kept by Reclaimed, MadeDue, Claimed, ...); what a step does to a row is *)
(* one of the moves of Moves; the properties follow row by row.  Only the  *)
(* concurrency limit and the keys relate several rows.                     *)
(***************************************************************************)
EXTENDS AgentJobs, FiniteSetTheorems, TLAPS

(* A row by itself.  Beyond the checked invariants: only a waiting row has *)
(* time left to wait, without which a finished row would still change.     *)
RowOK(r) ==
  /\ r \in Rows
  /\ r.status = "running" <=> r.worker # None
  /\ r.lease > 0 => r.status = "running"
  /\ r.wait > 0 => r.status = "retry_wait"
  /\ r.attempts <= r.maxAttempts
  /\ r.status \in {"queued", "retry_wait"} => r.attempts < r.maxAttempts
  /\ r.status = "dead_letter" => r.attempts = r.maxAttempts

RowsOK == row \in [Jobs -> Rows] /\ \A j \in Jobs : RowOK(row[j])

ExecutionsOK ==
  executions \subseteq [job : Jobs, worker : Workers, attempt : Nat]

JInv == RowsOK /\ ExecutionsOK /\ ConcurrencyRespected /\ OneRowPerKey

-----------------------------------------------------------------------------
(* The operations on one row.                                              *)

LEMMA LongestWaitIsNat ==
  /\ LongestWait \in Nat
  /\ MaxBackoff \in 0 .. LongestWait
  /\ 0 .. MaxDelay \subseteq 0 .. LongestWait
BY QueueAssumption DEF LongestWait

(* The backoff never exceeds its ceiling, whatever the attempt. *)
LEMMA BackoffIsCapped ==
  ASSUME NEW n PROVE Backoff(n) \in 0 .. LongestWait
<1>1. Backoff(n) \in 0 .. MaxBackoff
  BY QueueAssumption DEF Backoff
<1>. QED  BY <1>1, LongestWaitIsNat, QueueAssumption

LEMMA AbsentOK == RowOK(Absent)
BY QueueAssumption, LongestWaitIsNat DEF RowOK, Rows, Absent, Statuses

LEMMA NewRowOK ==
  ASSUME NEW n \in 1 .. MaxAttempts, NEW delay \in 0 .. MaxDelay
  PROVE  RowOK(NewRow(n, delay))
<1>. DEFINE s == NewRow(n, delay)
            to == IF delay > 0 THEN "retry_wait" ELSE "queued"
<1>1. /\ to \in Statuses /\ n \in 0 .. MaxAttempts /\ 0 \in 0 .. LeaseTicks
      /\ delay \in 0 .. LongestWait
  BY QueueAssumption, LongestWaitIsNat DEF Statuses, Live
<1>2. /\ Absent \in Rows /\ Absent.worker = None /\ Absent.lease = 0
      /\ Absent.attempts = 0
  BY AbsentOK DEF RowOK, Absent
<1>3. /\ s \in Rows /\ s.status = to /\ s.maxAttempts = n /\ s.wait = delay
      /\ s.worker = None /\ s.lease = 0 /\ s.attempts = 0
  <2>1. Cardinality({k \in Jobs : row[k].status # "absent"}) \in Nat
    BY QueueAssumption, FS_Subset, FS_CardinalityType
  <2>. HIDE DEF to
  <2>. QED  BY <1>1, <1>2, <2>1 DEF Rows, NewRow, to
<1>. HIDE DEF s
<1>9. RowOK(s)
  BY <1>2, <1>3 DEF RowOK
<1>. QED  BY <1>9 DEF s

LEMMA MadeDueOK ==
  ASSUME NEW r, RowOK(r) PROVE RowOK(MadeDue(r))
<1>. DEFINE s == [r EXCEPT !.status = "queued"]
<1>1. CASE r.status = "retry_wait" /\ r.wait = 0
  <2>1. r \in Rows /\ "queued" \in Statuses
    BY DEF RowOK, Statuses, Live
  <2>2. /\ s \in Rows /\ s.status = "queued" /\ s.worker = r.worker
        /\ s.lease = r.lease /\ s.wait = 0 /\ s.attempts = r.attempts
        /\ s.maxAttempts = r.maxAttempts
    BY <1>1, <2>1 DEF Rows
  <2>3. MadeDue(r) = s
    BY <1>1 DEF MadeDue
  <2>. HIDE DEF s
  <2>. QED  BY <1>1, <2>2, <2>3 DEF RowOK
<1>2. CASE ~(r.status = "retry_wait" /\ r.wait = 0)
  BY <1>2 DEF MadeDue
<1>. QED  BY <1>1, <1>2

LEMMA ReclaimedOK ==
  ASSUME NEW r, RowOK(r) PROVE RowOK(Reclaimed(r))
<1>. DEFINE to == IF r.attempts >= r.maxAttempts THEN "dead_letter"
                                                 ELSE "queued"
            s == [r EXCEPT !.status = to, !.worker = None, !.wait = 0]
<1>1. CASE Expired(r)
  <2>1. /\ r \in Rows /\ to \in Statuses /\ None \in Workers \cup {None}
        /\ 0 \in 0 .. LongestWait
    BY LongestWaitIsNat DEF RowOK, Statuses, Live, Finished
  <2>2. r.lease = 0
    BY <1>1 DEF Expired
  <2>. HIDE DEF to
  <2>3. /\ s \in Rows /\ s.status = to /\ s.worker = None /\ s.lease = 0
        /\ s.wait = 0 /\ s.attempts = r.attempts
        /\ s.maxAttempts = r.maxAttempts
    BY <2>1, <2>2 DEF Rows
  <2>4. /\ r.attempts \in Nat /\ r.maxAttempts \in Nat
        /\ r.attempts <= r.maxAttempts
    BY QueueAssumption DEF RowOK, Rows
  <2>5. /\ to \in {"dead_letter", "queued"}
        /\ to = "dead_letter" => r.attempts = r.maxAttempts
        /\ to = "queued" => r.attempts < r.maxAttempts
    BY <2>4 DEF to
  <2>6. Reclaimed(r) = s
    BY <1>1 DEF Reclaimed, to
  <2>. HIDE DEF s
  <2>. QED  BY <2>3, <2>4, <2>5, <2>6 DEF RowOK
<1>2. CASE ~Expired(r)
  BY <1>2 DEF Reclaimed
<1>. QED  BY <1>1, <1>2

LEMMA ClaimedOK ==
  ASSUME NEW r, RowOK(r), r.status = "queued", r.wait = 0,
         NEW w \in Workers
  PROVE  RowOK(Claimed(r, w))
<1>. DEFINE s == Claimed(r, w)
<1>1. /\ r \in Rows /\ "running" \in Statuses /\ w # None
      /\ LeaseTicks \in 0 .. LeaseTicks
  BY QueueAssumption DEF RowOK, Statuses, Live
<1>2. r.attempts < r.maxAttempts
  BY DEF RowOK
<1>3. r.attempts + 1 \in 0 .. MaxAttempts /\ r.attempts + 1 <= r.maxAttempts
  BY <1>1, <1>2, QueueAssumption DEF Rows
<1>4. /\ s \in Rows /\ s.status = "running" /\ s.worker = w
      /\ s.wait = 0 /\ s.attempts = r.attempts + 1
      /\ s.maxAttempts = r.maxAttempts
  BY <1>1, <1>3 DEF Rows, Claimed
<1>. HIDE DEF s
<1>9. RowOK(s)
  BY <1>1, <1>3, <1>4 DEF RowOK
<1>. QED  BY <1>9 DEF s

LEMMA CompletedOK ==
  ASSUME NEW r, RowOK(r), r.status = "running" PROVE RowOK(Completed(r))
<1>. DEFINE s == Completed(r)
<1>1. /\ r \in Rows /\ "completed" \in Statuses /\ 0 \in 0 .. LeaseTicks
  BY QueueAssumption DEF RowOK, Statuses, Finished
<1>2. /\ s \in Rows /\ s.status = "completed" /\ s.worker = None
      /\ s.lease = 0 /\ s.wait = r.wait /\ s.attempts = r.attempts
      /\ s.maxAttempts = r.maxAttempts
  BY <1>1 DEF Rows, Completed
<1>. HIDE DEF s
<1>9. RowOK(s)
  BY <1>2 DEF RowOK
<1>. QED  BY <1>9 DEF s

LEMMA AfterFailureOK ==
  ASSUME NEW r, RowOK(r), r.status = "running" PROVE RowOK(AfterFailure(r))
<1>. DEFINE s == AfterFailure(r)
<1>1. /\ r \in Rows /\ 0 \in 0 .. LeaseTicks
      /\ "dead_letter" \in Statuses /\ "retry_wait" \in Statuses
  BY QueueAssumption DEF RowOK, Statuses, Live, Finished
<1>2. /\ r.attempts \in Nat /\ r.maxAttempts \in Nat
      /\ r.attempts <= r.maxAttempts
  BY QueueAssumption DEF RowOK, Rows
<1>3. Backoff(r.attempts) \in 0 .. LongestWait
  BY BackoffIsCapped
<1>4. CASE r.attempts >= r.maxAttempts
  <2>1. /\ s \in Rows /\ s.status = "dead_letter" /\ s.worker = None
        /\ s.lease = 0 /\ s.wait = r.wait /\ s.attempts = r.attempts
        /\ s.maxAttempts = r.maxAttempts
    BY <1>1, <1>4 DEF Rows, AfterFailure
  <2>. HIDE DEF s
  <2>9. RowOK(s)
    BY <1>2, <1>4, <2>1 DEF RowOK
  <2>. QED  BY <2>9 DEF s
<1>5. CASE ~(r.attempts >= r.maxAttempts)
  <2>1. /\ s \in Rows /\ s.status = "retry_wait" /\ s.worker = None
        /\ s.lease = 0 /\ s.attempts = r.attempts
        /\ s.maxAttempts = r.maxAttempts
    BY <1>1, <1>3, <1>5 DEF Rows, AfterFailure
  <2>. HIDE DEF s
  <2>9. RowOK(s)
    BY <1>2, <1>5, <2>1 DEF RowOK
  <2>. QED  BY <2>9 DEF s
<1>. QED  BY <1>4, <1>5

LEMMA CancelledOK ==
  ASSUME NEW r, RowOK(r) PROVE RowOK(Cancelled(r))
<1>. DEFINE s == Cancelled(r)
<1>1. /\ r \in Rows /\ "cancelled" \in Statuses /\ 0 \in 0 .. LeaseTicks
      /\ 0 \in 0 .. LongestWait
  BY QueueAssumption, LongestWaitIsNat DEF RowOK, Statuses, Finished
<1>2. /\ s \in Rows /\ s.status = "cancelled" /\ s.worker = None
      /\ s.lease = 0 /\ s.wait = 0 /\ s.attempts = r.attempts
      /\ s.maxAttempts = r.maxAttempts
  BY <1>1 DEF Rows, Cancelled
<1>. HIDE DEF s
<1>9. RowOK(s)
  BY <1>2 DEF RowOK
<1>. QED  BY <1>9 DEF s

LEMMA PrunedOK == RowOK(Pruned)
BY QueueAssumption, LongestWaitIsNat DEF RowOK, Rows, Pruned, Absent, Statuses

LEMMA TickedOK ==
  ASSUME NEW r, RowOK(r) PROVE RowOK(Ticked(r))
<1>. DEFINE s == Ticked(r)
<1>1. /\ r \in Rows
      /\ r.lease \in 0 .. LeaseTicks /\ r.wait \in 0 .. LongestWait
  BY DEF RowOK, Rows
<1>2. /\ OneLess(r.lease) \in 0 .. LeaseTicks
      /\ OneLess(r.wait) \in 0 .. LongestWait
      /\ OneLess(r.lease) > 0 => r.lease > 0
      /\ OneLess(r.wait) > 0 => r.wait > 0
  BY <1>1, QueueAssumption, LongestWaitIsNat DEF OneLess
<1>3. /\ s \in Rows /\ s.status = r.status /\ s.worker = r.worker
      /\ s.lease = OneLess(r.lease) /\ s.wait = OneLess(r.wait)
      /\ s.attempts = r.attempts /\ s.maxAttempts = r.maxAttempts
  BY <1>1, <1>2 DEF Rows, Ticked
<1>. HIDE DEF s
<1>9. RowOK(s)
  BY <1>2, <1>3 DEF RowOK
<1>. QED  BY <1>9 DEF s

-----------------------------------------------------------------------------
(* What a step does to one row.                                            *)

(* The row as a claim sees it, and as a report of x finds it. *)
Seen(j) == MadeDue(Reclaimed(row[j]))

Reported(x, j) ==
  x \in executions \ executions' /\ x.job = j /\ HeldBy(j, x.worker)

RowMove(j) ==
  \/ row'[j] = row[j]
  \/ /\ row[j].status = "absent"
     /\ \E n \in 1 .. MaxAttempts, delay \in 0 .. MaxDelay :
          row'[j] = NewRow(n, delay)
  \/ row'[j] = Reclaimed(row[j])
  \/ row'[j] = Seen(j)
  \/ /\ Seen(j).status = "queued" /\ Seen(j).wait = 0
     /\ \E w \in Workers : row'[j] = Claimed(Seen(j), w)
  \/ (\E x \in executions : Reported(x, j)) /\ row'[j] = Completed(row[j])
  \/ (\E x \in executions : Reported(x, j)) /\ row'[j] = AfterFailure(row[j])
  \/ row[j].status \in Live /\ row'[j] = Cancelled(row[j])
  \/ row[j].status \in {"completed", "cancelled"} /\ row'[j] = Pruned
  \/ row'[j] = Ticked(row[j])

Moves == DOMAIN row' = Jobs /\ \A j \in Jobs : RowMove(j)

LEMMA EnqueueMoves ==
  ASSUME DOMAIN row = Jobs, row = [j \in Jobs |-> row[j]],
         NEW j \in Jobs, NEW n \in 1 .. MaxAttempts,
         NEW delay \in 0 .. MaxDelay, enqueue(j, n, delay)
  PROVE  Moves
<1>. DEFINE new == NewRow(n, delay)
<1>1. row[j].status = "absent" /\ row' = [row EXCEPT ![j] = new]
  BY DEF enqueue
<1>2. row'[j] = NewRow(n, delay)
  BY <1>1
<1>. HIDE DEF new
<1>. QED  BY <1>1, <1>2 DEF Moves, RowMove

LEMMA ClaimMoves ==
  ASSUME NEW q \in Queues, NEW w \in Workers, NEW limit,
         NEW chosen, claim(q, w, limit, chosen)
  PROVE  Moves
<1>. DEFINE rows == Refreshed(q)
<1>1. /\ chosen \subseteq Due(rows, q)
      /\ row' = [j \in Jobs |-> IF j \in chosen THEN Claimed(rows[j], w)
                                                ELSE rows[j]]
  BY DEF claim, Selected
<1>2. \A j \in Jobs : rows[j] = IF QueueOf[j] = q THEN Seen(j)
                                                  ELSE Reclaimed(row[j])
  BY DEF Refreshed, Seen
<1>. HIDE DEF rows
<1>3. \A j \in chosen : /\ j \in Jobs /\ QueueOf[j] = q
                        /\ rows[j].status = "queued" /\ rows[j].wait = 0
  BY <1>1 DEF Due
<1>. SUFFICES ASSUME NEW j \in Jobs PROVE RowMove(j)
  BY <1>1 DEF Moves
<1>4. CASE j \in chosen
  BY <1>1, <1>2, <1>3, <1>4 DEF RowMove
<1>5. CASE j \notin chosen
  BY <1>1, <1>2, <1>5 DEF RowMove
<1>. QED  BY <1>4, <1>5

LEMMA ReportMoves ==
  ASSUME row = [j \in Jobs |-> row[j]], ExecutionsOK,
         NEW x \in executions, complete(x) \/ fail(x) \/ Vanish(x)
  PROVE  Moves
<1>1. x.job \in Jobs /\ x \in executions \ executions'
  BY DEF ExecutionsOK, complete, fail, Vanish
<1>2. CASE row' = row
  BY <1>2 DEF Moves, RowMove
<1>3. CASE HeldBy(x.job, x.worker) /\ complete(x)
  <2>1. row' = [row EXCEPT ![x.job] = Completed(row[x.job])]
    BY <1>3 DEF complete
  <2>2. Reported(x, x.job) /\ row'[x.job] = Completed(row[x.job])
    BY <1>1, <1>3, <2>1 DEF Reported
  <2>. QED  BY <1>1, <2>1, <2>2 DEF Moves, RowMove
<1>4. CASE HeldBy(x.job, x.worker) /\ fail(x)
  <2>1. row' = [row EXCEPT ![x.job] = AfterFailure(row[x.job])]
    BY <1>4 DEF fail
  <2>2. Reported(x, x.job) /\ row'[x.job] = AfterFailure(row[x.job])
    BY <1>1, <1>4, <2>1 DEF Reported
  <2>. QED  BY <1>1, <2>1, <2>2 DEF Moves, RowMove
<1>. QED  BY <1>2, <1>3, <1>4 DEF complete, fail, Vanish

LEMMA StepMoves ==
  ASSUME row = [j \in Jobs |-> row[j]], ExecutionsOK, [Next]_vars
  PROVE  Moves
<1>1. ASSUME NEW j \in Jobs, NEW n \in 1 .. MaxAttempts,
             NEW delay \in 0 .. MaxDelay, enqueue(j, n, delay)
      PROVE  Moves
  BY <1>1, EnqueueMoves
<1>2. ASSUME NEW q \in Queues, ClaimFrom(q)
      PROVE  Moves
  BY <1>2, ClaimMoves DEF ClaimFrom
<1>3. ASSUME NEW x \in executions, complete(x) \/ fail(x) \/ Vanish(x)
      PROVE  Moves
  BY <1>3, ReportMoves
<1>4. ASSUME NEW j \in Jobs, cancel(j)
      PROVE  Moves
  <2>1. row[j].status \in Live /\ row' = [row EXCEPT ![j] = Cancelled(row[j])]
    BY <1>4 DEF cancel
  <2>2. row'[j] = Cancelled(row[j])
    BY <2>1
  <2>. QED  BY <2>1, <2>2 DEF Moves, RowMove
<1>5. CASE queueStats
  BY <1>5 DEF queueStats, Moves, RowMove
<1>6. ASSUME NEW old \in SUBSET Jobs, pruneFinished(old)
      PROVE  Moves
  BY <1>6 DEF pruneFinished, Moves, RowMove
<1>7. CASE Tick
  BY <1>7 DEF Tick, Moves, RowMove
<1>8. CASE UNCHANGED vars
  BY <1>8 DEF vars, Moves, RowMove
<1>. QED
  BY <1>1, <1>2, <1>3, <1>4, <1>5, <1>6, <1>7, <1>8 DEF Next

-----------------------------------------------------------------------------
(* The invariant, conjunct by conjunct.                                    *)

LEMMA RowsAreFunctions == ASSUME RowsOK PROVE row = [j \in Jobs |-> row[j]]
BY DEF RowsOK

LEMMA SeenOK ==
  ASSUME RowsOK, NEW j \in Jobs PROVE RowOK(Seen(j))
BY ReclaimedOK, MadeDueOK DEF RowsOK, Seen

LEMMA RowsStayOK ==
  ASSUME RowsOK, Moves, row' = [j \in Jobs |-> row'[j]]
  PROVE  RowsOK'
<1>. SUFFICES ASSUME NEW j \in Jobs PROVE RowOK(row'[j])
  BY DEF RowsOK, RowOK
<1>1. RowMove(j) /\ RowOK(row[j]) /\ RowOK(Seen(j))
  BY SeenOK DEF Moves, RowsOK
<1>2. \A x \in executions : Reported(x, j) => row[j].status = "running"
  BY DEF Reported, HeldBy
<1>. QED
  BY <1>1, <1>2, NewRowOK, ReclaimedOK, ClaimedOK, CompletedOK,
     AfterFailureOK, CancelledOK, PrunedOK, TickedOK
     DEF RowMove

LEMMA RowsStayFunctions ==
  ASSUME row = [j \in Jobs |-> row[j]], [Next]_vars
  PROVE  row' = [j \in Jobs |-> row'[j]]
<1>1. ASSUME NEW q \in Queues, ClaimFrom(q)
      PROVE  row' = [j \in Jobs |-> row'[j]]
  BY <1>1 DEF ClaimFrom, claim
<1>. QED
  BY <1>1 DEF Next, enqueue, complete, fail, Vanish, cancel, queueStats,
              pruneFinished, Tick, vars

LEMMA ExecutionsStayOK ==
  ASSUME RowsOK, ExecutionsOK, [Next]_vars
  PROVE  ExecutionsOK'
<1>1. ASSUME NEW q \in Queues, ClaimFrom(q)
      PROVE  ExecutionsOK'
  <2>1. PICK w \in Workers, limit \in {1, 2},
             chosen \in SUBSET Due(Refreshed(q), q) : claim(q, w, limit, chosen)
    BY <1>1 DEF ClaimFrom
  <2>2. chosen \subseteq Jobs
    BY DEF Due
  <2>3. \A j \in chosen : row[j].attempts + 1 \in Nat
    BY <2>2, QueueAssumption DEF RowsOK, Rows
  <2>. QED  BY <2>1, <2>2, <2>3 DEF claim, ExecutionsOK
<1>. QED
  BY <1>1 DEF Next, ExecutionsOK, enqueue, complete, fail, Vanish, cancel,
              queueStats, pruneFinished, Tick, vars

-----------------------------------------------------------------------------
(* The concurrency limit.                                                  *)

LEMMA RunningIsFinite ==
  ASSUME NEW rows, NEW q
  PROVE  /\ IsFiniteSet(RunningIn(rows, q))
         /\ Cardinality(RunningIn(rows, q)) \in Nat
BY QueueAssumption, FS_Subset, FS_CardinalityType DEF RunningIn

(* A queue in which nothing starts to run keeps its limit. *)
LEMMA FewerRun ==
  ASSUME ConcurrencyRespected, NEW q \in Queues, NEW rows,
         RunningIn(rows, q) \subseteq RunningIn(row, q)
  PROVE  Cardinality(RunningIn(rows, q)) <= Concurrency[q]
<1>1. Cardinality(RunningIn(rows, q)) <= Cardinality(RunningIn(row, q))
  BY RunningIsFinite, FS_Subset
<1>. QED  BY <1>1, RunningIsFinite, QueueAssumption DEF ConcurrencyRespected

LEMMA SeenRunsLess ==
  ASSUME NEW q, NEW p
  PROVE  RunningIn(Refreshed(q), p) \subseteq RunningIn(row, p)
<1>. SUFFICES ASSUME NEW j \in Jobs, Refreshed(q)[j].status = "running"
              PROVE  row[j].status = "running"
  BY DEF RunningIn
<1>1. Reclaimed(row[j]).status = "running" => row[j].status = "running"
  BY DEF Reclaimed, Expired
<1>2. MadeDue(Reclaimed(row[j])).status = "running" =>
        Reclaimed(row[j]).status = "running"
  BY DEF MadeDue
<1>. QED  BY <1>1, <1>2 DEF Refreshed

(* claim() counts what runs after its own reclaim, and adds to that. *)
LEMMA ClaimKeepsLimit ==
  ASSUME ConcurrencyRespected, NEW q \in Queues, NEW w, NEW limit,
         NEW chosen, claim(q, w, limit, chosen)
  PROVE  ConcurrencyRespected'
<1>. DEFINE rows == Refreshed(q)
<1>1. /\ chosen \subseteq Due(rows, q)
      /\ chosen # {} => Cardinality(RunningIn(rows, q)) + Cardinality(chosen)
                          <= Concurrency[q]
      /\ row' = [j \in Jobs |-> IF j \in chosen THEN Claimed(rows[j], w)
                                                ELSE rows[j]]
  BY DEF claim, Selected
<1>2. \A p \in Queues : RunningIn(rows, p) \subseteq RunningIn(row, p)
  BY SeenRunsLess
<1>. HIDE DEF rows
<1>3. chosen \subseteq Jobs /\ \A j \in chosen : QueueOf[j] = q
  BY <1>1 DEF Due
<1>. SUFFICES ASSUME NEW p \in Queues
              PROVE  Cardinality(RunningIn(row', p)) <= Concurrency[p]
  BY DEF ConcurrencyRespected
<1>4. CASE p # q \/ chosen = {}
  <2>1. RunningIn(row', p) \subseteq RunningIn(rows, p)
    BY <1>1, <1>3, <1>4 DEF RunningIn
  <2>. QED  BY <2>1, <1>2, FewerRun
<1>5. CASE p = q /\ chosen # {}
  <2>1. RunningIn(row', q) \subseteq RunningIn(rows, q) \cup chosen
    BY <1>1 DEF RunningIn
  <2>2. IsFiniteSet(chosen) /\ Cardinality(chosen) \in Nat
    BY <1>3, QueueAssumption, FS_Subset, FS_CardinalityType
  <2>3. /\ IsFiniteSet(RunningIn(rows, q) \cup chosen)
        /\ Cardinality(RunningIn(rows, q) \cup chosen)
              <= Cardinality(RunningIn(rows, q)) + Cardinality(chosen)
    <3>1. Cardinality(RunningIn(rows, q) \cap chosen) \in Nat
      BY <2>2, FS_Intersection, RunningIsFinite, FS_CardinalityType
    <3>2. /\ IsFiniteSet(RunningIn(rows, q) \cup chosen)
          /\ Cardinality(RunningIn(rows, q) \cup chosen)
               = Cardinality(RunningIn(rows, q)) + Cardinality(chosen)
                   - Cardinality(RunningIn(rows, q) \cap chosen)
      BY <2>2, FS_Union, RunningIsFinite
    <3>. QED  BY <2>2, <3>1, <3>2, RunningIsFinite
  <2>4. Cardinality(RunningIn(row', q))
          <= Cardinality(RunningIn(rows, q) \cup chosen)
    BY <2>1, <2>3, FS_Subset
  <2>5. Cardinality(RunningIn(rows, q) \cup chosen) \in Nat
    BY <2>3, FS_CardinalityType
  <2>. QED
    BY <1>1, <1>5, <2>2, <2>3, <2>4, <2>5, RunningIsFinite, QueueAssumption
<1>. QED  BY <1>4, <1>5

(* The fields of a row after each operation on it. *)
LEMMA NewRowFields ==
  ASSUME NEW n, NEW delay
  PROVE  /\ NewRow(n, delay).status \in {"queued", "retry_wait"}
         /\ NewRow(n, delay).attempts = 0
         /\ NewRow(n, delay).maxAttempts = n
BY DEF NewRow, Absent

LEMMA ReclaimedFields ==
  ASSUME NEW r \in Rows
  PROVE  /\ Reclaimed(r).attempts = r.attempts
         /\ Reclaimed(r).maxAttempts = r.maxAttempts
         /\ Expired(r) => Reclaimed(r).status \in {"dead_letter", "queued"}
         /\ ~Expired(r) => Reclaimed(r) = r
BY DEF Reclaimed, Rows

LEMMA MadeDueFields ==
  ASSUME NEW r \in Rows
  PROVE  /\ MadeDue(r).attempts = r.attempts
         /\ MadeDue(r).maxAttempts = r.maxAttempts
         /\ MadeDue(r).wait = r.wait
         /\ \/ MadeDue(r) = r
            \/ MadeDue(r).status = "queued" /\ r.status = "retry_wait"
BY DEF MadeDue, Rows

LEMMA ClaimedFields ==
  ASSUME NEW r \in Rows, NEW w
  PROVE  /\ Claimed(r, w).status = "running"
         /\ Claimed(r, w).attempts = r.attempts + 1
         /\ Claimed(r, w).maxAttempts = r.maxAttempts
BY DEF Claimed, Rows

LEMMA ReportFields ==
  ASSUME NEW r \in Rows
  PROVE  /\ Completed(r).status = "completed"
         /\ Completed(r).attempts = r.attempts
         /\ Completed(r).maxAttempts = r.maxAttempts
         /\ AfterFailure(r).attempts = r.attempts
         /\ AfterFailure(r).maxAttempts = r.maxAttempts
         /\ IF r.attempts >= r.maxAttempts
              THEN AfterFailure(r).status = "dead_letter"
              ELSE AfterFailure(r).status = "retry_wait"
BY DEF Completed, AfterFailure, Rows

LEMMA OtherFields ==
  ASSUME NEW r \in Rows
  PROVE  /\ Cancelled(r).status = "cancelled"
         /\ Cancelled(r).attempts = r.attempts
         /\ Cancelled(r).maxAttempts = r.maxAttempts
         /\ Ticked(r).status = r.status
         /\ Ticked(r).worker = r.worker
         /\ Ticked(r).attempts = r.attempts
         /\ Ticked(r).maxAttempts = r.maxAttempts
         /\ Pruned.status = "pruned" /\ Pruned.attempts = 0
         /\ Pruned.maxAttempts = 0
BY DEF Cancelled, Ticked, Pruned, Absent, Rows

LEMMA RowTypes ==
  ASSUME RowsOK, NEW j \in Jobs
  PROVE  row[j] \in Rows /\ Reclaimed(row[j]) \in Rows /\ Seen(j) \in Rows
BY ReclaimedOK, SeenOK DEF RowsOK, RowOK

(* Only a claim makes a row run, and only enqueue makes one appear. *)
LEMMA WhatStarts ==
  ASSUME RowsOK, NEW j \in Jobs, RowMove(j)
  PROVE  /\ row'[j].status = "running" =>
              \/ row[j].status = "running"
              \/ \E w \in Workers : row'[j] = Claimed(Seen(j), w)
         /\ row'[j].status \notin {"absent", "pruned"} =>
              \/ Present(j)
              \/ /\ row[j].status = "absent"
                 /\ \E n \in 1 .. MaxAttempts, delay \in 0 .. MaxDelay :
                      row'[j] = NewRow(n, delay)
<1>. DEFINE r == row[j]
            c == Reclaimed(row[j])
<1>1. r \in Rows /\ c \in Rows /\ Seen(j) \in Rows
  BY RowTypes
<1>2. /\ c.status \in {r.status, "dead_letter", "queued"}
      /\ c.status # r.status => r.status = "running"
      /\ Seen(j).status \in {c.status, "queued"}
      /\ Seen(j).status # c.status => c.status = "retry_wait"
  BY <1>1, ReclaimedFields, MadeDueFields DEF Seen, Expired
<1>3. \A x : Reported(x, j) => r.status = "running"
  BY DEF Reported, HeldBy
<1>4. /\ Completed(r).status = "completed"
      /\ AfterFailure(r).status \in {"dead_letter", "retry_wait"}
      /\ Cancelled(r).status = "cancelled" /\ Ticked(r).status = r.status
      /\ Pruned.status = "pruned"
      /\ \A n, delay : NewRow(n, delay).status \in {"queued", "retry_wait"}
  BY <1>1, ReportFields, OtherFields, NewRowFields
<1>5. r.status \in Live => Present(j)
  BY DEF Live, Present
<1>6. Seen(j).status = "queued" => Present(j)
  BY <1>2 DEF Present
<1>. HIDE DEF c
<1>. QED
  BY <1>2, <1>3, <1>4, <1>5, <1>6 DEF RowMove, Present, c

(* A step that is not a claim makes nothing run. *)
LEMMA OthersKeepLimit ==
  ASSUME RowsOK, ExecutionsOK, ConcurrencyRespected, [Next]_vars,
         \A q \in Queues : ~ClaimFrom(q)
  PROVE  ConcurrencyRespected'
<1>. SUFFICES ASSUME NEW j \in Jobs, row'[j].status = "running"
              PROVE  row[j].status = "running"
  <2>1. \A q \in Queues : RunningIn(row', q) \subseteq RunningIn(row, q)
    BY DEF RunningIn
  <2>. QED  BY <2>1, FewerRun DEF ConcurrencyRespected
<1>0. row[j] \in Rows /\ row = [i \in Jobs |-> row[i]]
  BY RowTypes, RowsAreFunctions
<1>1. ASSUME NEW i \in Jobs, NEW n \in 1 .. MaxAttempts,
             NEW delay \in 0 .. MaxDelay, enqueue(i, n, delay)
      PROVE  row[j].status = "running"
  BY <1>0, <1>1, NewRowFields DEF enqueue
<1>2. ASSUME NEW x \in executions, complete(x) \/ fail(x) \/ Vanish(x)
      PROVE  row[j].status = "running"
  <2>1. row'[j] \in {row[j], Completed(row[j]), AfterFailure(row[j])}
    BY <1>0, <1>2 DEF complete, fail, Vanish
  <2>. QED  BY <1>0, <2>1, ReportFields
<1>3. ASSUME NEW i \in Jobs, cancel(i)
      PROVE  row[j].status = "running"
  BY <1>0, <1>3, OtherFields DEF cancel
<1>4. CASE queueStats
  BY <1>0, <1>4, ReclaimedFields DEF queueStats, Expired
<1>5. ASSUME NEW old \in SUBSET Jobs, pruneFinished(old)
      PROVE  row[j].status = "running"
  BY <1>0, <1>5, OtherFields DEF pruneFinished
<1>6. CASE Tick
  BY <1>0, <1>6, OtherFields DEF Tick
<1>7. CASE UNCHANGED vars
  BY <1>7 DEF vars
<1>. QED
  BY <1>1, <1>2, <1>3, <1>4, <1>5, <1>6, <1>7 DEF Next

LEMMA LimitIsKept ==
  ASSUME RowsOK, ExecutionsOK, ConcurrencyRespected, [Next]_vars
  PROVE  ConcurrencyRespected'
<1>1. ASSUME NEW q \in Queues, ClaimFrom(q)
      PROVE  ConcurrencyRespected'
  BY <1>1, ClaimKeepsLimit DEF ClaimFrom
<1>. QED  BY <1>1, OthersKeepLimit

-----------------------------------------------------------------------------
(* One row per key.                                                        *)

LEMMA EnqueueKeepsKeys ==
  ASSUME RowsOK, OneRowPerKey, NEW j \in Jobs, NEW n, NEW delay,
         enqueue(j, n, delay)
  PROVE  OneRowPerKey'
<1>1. \A k \in Jobs : KeyOf[k] = KeyOf[j] => ~Present(k)
  BY DEF enqueue
<1>2. \A i \in Jobs : i # j => row'[i] = row[i]
  BY RowsAreFunctions DEF enqueue
<1>. QED  BY <1>1, <1>2 DEF OneRowPerKey, Present

LEMMA KeysAreKept ==
  ASSUME RowsOK, ExecutionsOK, OneRowPerKey, [Next]_vars
  PROVE  OneRowPerKey'
<1>1. ASSUME NEW j \in Jobs, NEW n \in 1 .. MaxAttempts,
             NEW delay \in 0 .. MaxDelay, enqueue(j, n, delay)
      PROVE  OneRowPerKey'
  BY <1>1, EnqueueKeepsKeys
<1>2. ASSUME \A j \in Jobs : Present(j)' => Present(j)
      PROVE  OneRowPerKey'
  BY <1>2 DEF OneRowPerKey
<1>3. ASSUME \A j \in Jobs, n \in 1 .. MaxAttempts, delay \in 0 .. MaxDelay :
                ~enqueue(j, n, delay)
      PROVE  \A j \in Jobs : Present(j)' => Present(j)
  <2>. SUFFICES ASSUME NEW j \in Jobs, Present(j)', row[j].status = "absent"
                PROVE  FALSE
    <3>1. Moves
      BY StepMoves, RowsAreFunctions
    <3>. QED  BY <3>1, WhatStarts DEF Moves, Present
  <2>0. row[j] \in Rows /\ row = [i \in Jobs |-> row[i]]
    BY RowTypes, RowsAreFunctions
  <2>1. Reclaimed(row[j]) = row[j] /\ Seen(j) = row[j]
    BY DEF Reclaimed, Expired, Seen, MadeDue
  <2>2. ASSUME NEW q \in Queues, ClaimFrom(q)
        PROVE  row'[j] = row[j]
    <3>1. Refreshed(q)[j] = row[j]
      BY <2>1 DEF Refreshed, Seen
    <3>2. j \notin Due(Refreshed(q), q)
      BY <3>1 DEF Due
    <3>. QED  BY <2>2, <3>1, <3>2 DEF ClaimFrom, claim
  <2>3. ASSUME NEW x \in executions, complete(x) \/ fail(x) \/ Vanish(x)
        PROVE  row'[j] = row[j]
    BY <2>0, <2>3 DEF complete, fail, Vanish, HeldBy
  <2>4. ASSUME NEW i \in Jobs, cancel(i)
        PROVE  row'[j] = row[j]
    BY <2>0, <2>4 DEF cancel, Live
  <2>5. CASE queueStats
    BY <2>0, <2>1, <2>5 DEF queueStats, Present
  <2>6. ASSUME NEW old \in SUBSET Jobs, pruneFinished(old)
        PROVE  row'[j] = row[j]
    BY <2>0, <2>6 DEF pruneFinished
  <2>7. Tick => row'[j].status = "absent"
    BY <2>0, OtherFields DEF Tick
  <2>. QED
    BY <1>3, <2>2, <2>3, <2>4, <2>5, <2>6, <2>7 DEF Next, Present, vars
<1>. QED  BY <1>1, <1>2, <1>3

-----------------------------------------------------------------------------
LEMMA InitJInv == Init => JInv
<1>. SUFFICES ASSUME Init PROVE JInv
  OBVIOUS
<1>0. \A j \in Jobs : row[j] = Absent
  BY DEF Init
<1>1. RowsOK
  BY <1>0, AbsentOK DEF Init, RowsOK, RowOK
<1>2. ExecutionsOK
  BY DEF Init, ExecutionsOK
<1>3. ConcurrencyRespected
  <2>1. \A q : RunningIn(row, q) = {}
    BY <1>0 DEF RunningIn, Absent
  <2>. QED  BY <2>1, FS_EmptySet, QueueAssumption DEF ConcurrencyRespected
<1>4. OneRowPerKey
  BY <1>0 DEF OneRowPerKey, Present, Absent
<1>. QED  BY <1>1, <1>2, <1>3, <1>4 DEF JInv

LEMMA NextJInv == JInv /\ [Next]_vars => JInv'
<1>. SUFFICES ASSUME RowsOK, ExecutionsOK, ConcurrencyRespected,
                     OneRowPerKey, [Next]_vars
              PROVE  JInv'
  BY DEF JInv
<1>1. RowsOK'
  BY StepMoves, RowsAreFunctions, RowsStayFunctions, RowsStayOK
<1>2. ExecutionsOK'
  BY ExecutionsStayOK
<1>. QED  BY <1>1, <1>2, LimitIsKept, KeysAreKept DEF JInv

(* Every reachable state satisfies the strengthened invariant. *)
THEOREM JobsInvariant == Spec => []JInv
<1>. QED  BY InitJInv, NextJInv, PTL DEF Spec

(* Rows and reports keep their types: no attempt beyond the policy, no     *)
(* backoff beyond its ceiling.                                             *)
THEOREM JobsTypeCorrect == Spec => []TypeOK
<1>1. JInv => TypeOK
  BY DEF JInv, RowsOK, ExecutionsOK, TypeOK
<1>. QED  BY <1>1, JobsInvariant, PTL

(* claim() counts after its own reclaim, in the same transaction, so no    *)
(* order of claims, reports and lost leases overfills a queue.             *)
THEOREM LimitHolds == Spec => []ConcurrencyRespected
<1>1. JInv => ConcurrencyRespected
  BY DEF JInv
<1>. QED  BY <1>1, JobsInvariant, PTL

(* A failure and a lost lease spend the same budget: nothing is offered    *)
(* beyond it, nothing is dead before it.                                   *)
THEOREM BudgetHolds == Spec => []AttemptsWithinBudget
<1>1. JInv => AttemptsWithinBudget
  BY DEF JInv, RowsOK, RowOK, AttemptsWithinBudget
<1>. QED  BY <1>1, JobsInvariant, PTL

(* enqueue() looks before it inserts, and nothing else makes a row appear. *)
THEOREM KeysHold == Spec => []OneRowPerKey
<1>1. JInv => OneRowPerKey
  BY DEF JInv
<1>. QED  BY <1>1, JobsInvariant, PTL

(* A row names a worker exactly while it runs. *)
THEOREM HoldersHold == Spec => []LeaseHasHolder
<1>1. JInv => LeaseHasHolder
  BY DEF JInv, RowsOK, RowOK, LeaseHasHolder
<1>. QED  BY <1>1, JobsInvariant, PTL

-----------------------------------------------------------------------------
(* The action properties.                                                  *)

LEMMA JInvMoves ==
  ASSUME JInv, [Next]_vars
  PROVE  RowsOK /\ Moves
BY StepMoves, RowsAreFunctions DEF JInv

(* A row that has finished is moved by nothing but pruning. *)
LEMMA FinishedRowsRest ==
  ASSUME RowsOK, NEW j \in Jobs, RowMove(j), row[j].status \in Finished
  PROVE  row'[j] = row[j] \/ row'[j].status = "pruned"
<1>. DEFINE r == row[j]
<1>1. r \in Rows /\ r.lease = 0 /\ r.wait = 0
  BY LongestWaitIsNat, QueueAssumption DEF RowsOK, RowOK, Rows, Finished
<1>2. Reclaimed(r) = r /\ Seen(j) = r
  BY DEF Reclaimed, Expired, MadeDue, Seen, Finished
<1>3. Ticked(r) = r
  <2>1. OneLess(r.lease) = r.lease /\ OneLess(r.wait) = r.wait
    BY <1>1 DEF OneLess
  <2>. QED  BY <1>1, <2>1 DEF Ticked, Rows
<1>4. \A x \in executions : ~Reported(x, j)
  BY DEF Reported, HeldBy, Finished
<1>5. Pruned.status = "pruned"
  BY <1>1, OtherFields
<1>. QED  BY <1>2, <1>3, <1>4, <1>5 DEF RowMove, Finished, Live

(* complete(), fail(), cancel() and the reclaim all look at the status     *)
(* before they write, so what is over is only ever deleted.                *)
THEOREM FinishedStays == Spec => FinishedIsFinal
<1>1. JInv /\ [Next]_vars =>
        [\A j \in Jobs : row[j].status \in Finished =>
           row'[j] = row[j] \/ row'[j].status = "pruned"]_vars
  BY JInvMoves, FinishedRowsRest DEF Moves
<1>. QED  BY <1>1, JobsInvariant, PTL DEF Spec, FinishedIsFinal

(* What can happen to a row whose lease runs. *)
LEMMA LeasedRowsRest ==
  ASSUME RowsOK, NEW j \in Jobs, RowMove(j), row[j].status = "running",
         row[j].lease > 0
  PROVE  \/ /\ row'[j].status = "running"
            /\ row'[j].worker = row[j].worker
            /\ row'[j].attempts = row[j].attempts
         \/ row'[j].status = "cancelled"
         \/ /\ row'[j].status \in {"completed", "retry_wait", "dead_letter"}
            /\ \E x \in executions \ executions' :
                 x.job = j /\ x.worker = row[j].worker
<1>. DEFINE r == row[j]
<1>1. r \in Rows
  BY RowTypes
<1>2. Reclaimed(r) = r /\ Seen(j) = r
  BY <1>1 DEF Reclaimed, Expired, MadeDue, Seen
<1>3. /\ Ticked(r).status = r.status
      /\ Ticked(r).worker = r.worker /\ Ticked(r).attempts = r.attempts
      /\ Cancelled(r).status = "cancelled" /\ Completed(r).status = "completed"
      /\ AfterFailure(r).status \in {"dead_letter", "retry_wait"}
  BY <1>1, OtherFields, ReportFields
<1>4. \A x : Reported(x, j) => /\ x \in executions \ executions'
                               /\ x.job = j /\ x.worker = r.worker
  BY DEF Reported, HeldBy
<1>. QED  BY <1>2, <1>3, <1>4 DEF RowMove, Live

(* While a lease runs its row is moved by its holder's report, by a cancel *)
(* or not at all, and the report of a worker that lost the job is refused: *)
(* the comment on worker_id in the agent_jobs table.                       *)
THEOREM LeasesHold == Spec => LeaseIsNotStolen
<1>1. JInv /\ [Next]_vars =>
        [\A j \in Jobs :
           row[j].status = "running" /\ row[j].lease > 0 =>
             \/ /\ row'[j].status = "running"
                /\ row'[j].worker = row[j].worker
                /\ row'[j].attempts = row[j].attempts
             \/ row'[j].status = "cancelled"
             \/ /\ row'[j].status \in {"completed", "retry_wait", "dead_letter"}
                /\ \E x \in executions \ executions' :
                     x.job = j /\ x.worker = row[j].worker]_vars
  BY JInvMoves, LeasedRowsRest DEF Moves
<1>. QED  BY <1>1, JobsInvariant, PTL DEF Spec, LeaseIsNotStolen

-----------------------------------------------------------------------------
(* The turns a row can still take: each attempt that is left brings it     *)
(* into running, out of it, and from waiting back to the queue.            *)
AttemptTurns(r) == 3 * (r.maxAttempts - r.attempts)

Turns(r) ==
  CASE r.status = "absent" -> 3 * MaxAttempts + 3
    [] r.status = "running" -> AttemptTurns(r) + 3
    [] r.status = "retry_wait" -> AttemptTurns(r) + 2
    [] r.status = "queued" -> AttemptTurns(r) + 1
    [] r.status = "pruned" -> 0
    [] OTHER -> 1

RowRunsDown(j) ==
  \/ row'[j] = row[j]
  \/ row'[j] = Ticked(row[j]) /\ Turns(row'[j]) = Turns(row[j])
  \/ Turns(row'[j]) < Turns(row[j])

LEMMA TurnsAre ==
  ASSUME NEW r, RowOK(r)
  PROVE  /\ Turns(r) \in 0 .. 3 * MaxAttempts + 3
         /\ AttemptTurns(r) \in 0 .. 3 * MaxAttempts
         /\ r.status = "absent" => Turns(r) = 3 * MaxAttempts + 3
         /\ r.status = "running" => Turns(r) = AttemptTurns(r) + 3
         /\ r.status = "retry_wait" => Turns(r) = AttemptTurns(r) + 2
         /\ r.status = "queued" => Turns(r) = AttemptTurns(r) + 1
         /\ r.status = "pruned" => Turns(r) = 0
         /\ r.status \in Finished => Turns(r) = 1
         /\ r.status # "pruned" => Turns(r) > 0
<1>1. /\ MaxAttempts \in Nat \ {0} /\ r.attempts \in 0 .. MaxAttempts
      /\ r.maxAttempts \in 0 .. MaxAttempts /\ r.attempts <= r.maxAttempts
      /\ r.status \in Statuses
  BY QueueAssumption DEF RowOK, Rows
<1>2. AttemptTurns(r) \in 0 .. 3 * MaxAttempts
  BY <1>1 DEF AttemptTurns
<1>3. CASE r.status = "absent"
  BY <1>1, <1>2, <1>3 DEF Turns, Finished
<1>4. CASE r.status = "running"
  BY <1>1, <1>2, <1>4 DEF Turns, Finished
<1>5. CASE r.status = "retry_wait"
  BY <1>1, <1>2, <1>5 DEF Turns, Finished
<1>6. CASE r.status = "queued"
  BY <1>1, <1>2, <1>6 DEF Turns, Finished
<1>7. CASE r.status = "pruned"
  BY <1>1, <1>2, <1>7 DEF Turns, Finished
<1>8. CASE r.status \in Finished
  BY <1>1, <1>2, <1>8 DEF Turns, Finished
<1>. QED
  BY <1>1, <1>3, <1>4, <1>5, <1>6, <1>7, <1>8 DEF Statuses, Live

(* Taking a row back, and making it due, brings it closer to its end. *)
LEMMA SeenRunsDown ==
  ASSUME RowsOK, NEW j \in Jobs
  PROVE  /\ Reclaimed(row[j]) = row[j] \/ Turns(Reclaimed(row[j])) < Turns(row[j])
         /\ Seen(j) = row[j] \/ Turns(Seen(j)) < Turns(row[j])
<1>. DEFINE r == row[j]
           s == Reclaimed(r)
           t == MadeDue(s)
<1>1. RowOK(r) /\ RowOK(s) /\ RowOK(t) /\ t = Seen(j)
  BY ReclaimedOK, SeenOK DEF RowsOK, Seen
<1>2. /\ r \in Rows /\ s \in Rows
      /\ s.attempts = r.attempts /\ s.maxAttempts = r.maxAttempts
      /\ Expired(r) => s.status \in {"dead_letter", "queued"}
      /\ ~Expired(r) => s = r
  BY <1>1, ReclaimedFields DEF RowOK
<1>. HIDE DEF r, s
<1>3. /\ t.attempts = s.attempts /\ t.maxAttempts = s.maxAttempts
      /\ \/ t = s
         \/ t.status = "queued" /\ s.status = "retry_wait"
  BY <1>2, MadeDueFields
<1>. HIDE DEF t
<1>4. AttemptTurns(s) = AttemptTurns(r) /\ AttemptTurns(t) = AttemptTurns(s)
  BY <1>2, <1>3 DEF AttemptTurns
<1>5. /\ Turns(r) \in Nat /\ Turns(s) \in Nat /\ Turns(t) \in Nat
      /\ AttemptTurns(r) \in Nat
  BY <1>1, TurnsAre, QueueAssumption
<1>6. s = r \/ Turns(s) < Turns(r)
  <2>1. CASE Expired(r)
    <3>1. Turns(r) = AttemptTurns(r) + 3
      BY <1>1, <2>1, TurnsAre DEF Expired
    <3>2. Turns(s) \in {1, AttemptTurns(s) + 1}
      BY <1>1, <1>2, <2>1, TurnsAre DEF Finished
    <3>. QED  BY <1>4, <1>5, <3>1, <3>2
  <2>. QED  BY <1>2, <2>1
<1>7. t = s \/ Turns(t) < Turns(s)
  <2>1. CASE t.status = "queued" /\ s.status = "retry_wait"
    <3>1. Turns(t) = AttemptTurns(t) + 1 /\ Turns(s) = AttemptTurns(s) + 2
      BY <1>1, <2>1, TurnsAre
    <3>. QED  BY <1>4, <1>5, <3>1
  <2>. QED  BY <1>3, <2>1
<1>8. t = r \/ Turns(t) < Turns(r)
  BY <1>5, <1>6, <1>7
<1>. QED  BY <1>1, <1>6, <1>8 DEF r, s

LEMMA MoveRunsDown ==
  ASSUME RowsOK, RowsOK', NEW j \in Jobs, RowMove(j)
  PROVE  RowRunsDown(j)
<1>. DEFINE r == row[j]
           s == row'[j]
<1>0. RowOK(r) /\ RowOK(s) /\ r \in Rows
  BY DEF RowsOK, RowOK
<1>1. /\ Turns(r) \in Nat /\ Turns(s) \in Nat
      /\ AttemptTurns(r) \in Nat /\ AttemptTurns(s) \in Nat
      /\ AttemptTurns(s) <= 3 * MaxAttempts /\ MaxAttempts \in Nat
  BY <1>0, TurnsAre, QueueAssumption
<1>2. ASSUME r.status = "absent", NEW n \in 1 .. MaxAttempts,
             NEW delay \in 0 .. MaxDelay, s = NewRow(n, delay)
      PROVE  Turns(s) < Turns(r)
  <2>1. s.status \in {"queued", "retry_wait"}
    BY <1>2, NewRowFields
  <2>2. Turns(s) \in {AttemptTurns(s) + 1, AttemptTurns(s) + 2}
    BY <1>0, <2>1, TurnsAre
  <2>3. Turns(r) = 3 * MaxAttempts + 3
    BY <1>0, <1>2, TurnsAre
  <2>. QED  BY <1>1, <2>2, <2>3
<1>3. CASE s = Reclaimed(r) \/ s = Seen(j)
  BY <1>3, SeenRunsDown DEF RowRunsDown
<1>4. ASSUME Seen(j).status = "queued", NEW w \in Workers, s = Claimed(Seen(j), w)
      PROVE  Turns(s) < Turns(r)
  <2>. DEFINE t == Seen(j)
  <2>1. RowOK(t) /\ t \in Rows /\ t.attempts \in Nat /\ t.maxAttempts \in Nat
    BY SeenOK, QueueAssumption DEF RowOK, Rows
  <2>2. /\ s.status = "running" /\ s.attempts = t.attempts + 1
        /\ s.maxAttempts = t.maxAttempts
    BY <1>4, <2>1, ClaimedFields
  <2>3. Turns(t) <= Turns(r) /\ Turns(t) \in Nat
    BY <1>1, <2>1, SeenRunsDown, TurnsAre, QueueAssumption
  <2>4. Turns(t) = AttemptTurns(t) + 1 /\ Turns(s) = AttemptTurns(s) + 3
    BY <1>0, <1>4, <2>1, <2>2, TurnsAre
  <2>5. AttemptTurns(s) = AttemptTurns(t) - 3
    BY <2>1, <2>2 DEF AttemptTurns
  <2>6. AttemptTurns(t) \in Int
    BY <2>1 DEF AttemptTurns
  <2>. HIDE DEF t
  <2>. QED  BY <1>1, <2>3, <2>4, <2>5, <2>6
<1>5. ASSUME NEW x \in executions, Reported(x, j),
             s = Completed(r) \/ s = AfterFailure(r)
      PROVE  Turns(s) < Turns(r)
  <2>1. Turns(r) = AttemptTurns(r) + 3
    BY <1>0, <1>5, TurnsAre DEF Reported, HeldBy
  <2>2. /\ s.status \in {"completed", "dead_letter", "retry_wait"}
        /\ s.attempts = r.attempts /\ s.maxAttempts = r.maxAttempts
    BY <1>0, <1>5, ReportFields
  <2>3. AttemptTurns(s) = AttemptTurns(r)
    BY <2>2 DEF AttemptTurns
  <2>4. Turns(s) \in {1, AttemptTurns(s) + 2}
    BY <1>0, <2>2, TurnsAre DEF Finished
  <2>. QED  BY <1>1, <2>1, <2>3, <2>4
<1>6. ASSUME r.status \in Live, s = Cancelled(r)
      PROVE  Turns(s) < Turns(r)
  <2>1. Turns(s) = 1
    BY <1>0, <1>6, OtherFields, TurnsAre DEF Finished
  <2>2. Turns(r) \in {AttemptTurns(r) + 1, AttemptTurns(r) + 2, AttemptTurns(r) + 3}
    BY <1>0, <1>6, TurnsAre DEF Live
  <2>3. AttemptTurns(r) # 0 \/ r.status = "running"
    <3>1. /\ r.attempts \in Nat /\ r.maxAttempts \in Nat
          /\ r.status # "running" => r.attempts < r.maxAttempts
      BY <1>0, <1>6, QueueAssumption DEF RowOK, Rows, Live
    <3>. QED  BY <3>1 DEF AttemptTurns
  <2>4. r.status = "running" => Turns(r) = AttemptTurns(r) + 3
    BY <1>0, TurnsAre
  <2>. QED  BY <1>1, <2>1, <2>2, <2>3, <2>4
<1>7. ASSUME r.status \in {"completed", "cancelled"}, s = Pruned
      PROVE  Turns(s) < Turns(r)
  BY <1>0, <1>7, OtherFields, TurnsAre DEF Finished
<1>8. ASSUME s = Ticked(r)
      PROVE  Turns(s) = Turns(r)
  BY <1>0, <1>8, OtherFields DEF Turns, AttemptTurns
<1>. QED
  BY <1>2, <1>3, <1>4, <1>5, <1>6, <1>7, <1>8 DEF RowMove, RowRunsDown

(* Whatever workers, producers and the clock do -- workers that die, or    *)
(* report late or twice, leases that expire again and again -- a job takes *)
(* at most 3 * MaxAttempts + 3 turns, and is not forgotten before the last *)
(* of them.  Waiting alone leaves what it has left as it is.               *)
THEOREM JobsRunDown ==
  Spec => /\ [](\A j \in Jobs : /\ Turns(row[j]) \in 0 .. 3 * MaxAttempts + 3
                               /\ row[j].status # "pruned" => Turns(row[j]) > 0)
          /\ [][\A j \in Jobs : RowRunsDown(j)]_vars
<1>1. JInv => \A j \in Jobs : /\ Turns(row[j]) \in 0 .. 3 * MaxAttempts + 3
                            /\ row[j].status # "pruned" => Turns(row[j]) > 0
  BY TurnsAre DEF JInv, RowsOK
<1>2. JInv /\ JInv' /\ [Next]_vars => [\A j \in Jobs : RowRunsDown(j)]_vars
  <2>. SUFFICES ASSUME JInv, JInv', [Next]_vars, NEW j \in Jobs
                PROVE  RowRunsDown(j)
    OBVIOUS
  <2>1. RowsOK /\ RowsOK' /\ RowMove(j)
    BY JInvMoves DEF JInv, Moves
  <2>. QED  BY <2>1, MoveRunsDown
<1>. QED  BY <1>1, <1>2, JobsInvariant, PTL DEF Spec

-----------------------------------------------------------------------------
(* The order of claims.                                                    *)

(* Only a claim of the row's own queue counts an attempt. *)
LEMMA AttemptsCountClaims ==
  ASSUME RowsOK, ExecutionsOK, [Next]_vars, NEW i \in Jobs,
         row'[i].attempts = row[i].attempts + 1
  PROVE  \E q \in Queues, w \in Workers, limit \in {1, 2} :
           \E chosen \in SUBSET Due(Refreshed(q), q) :
             claim(q, w, limit, chosen) /\ i \in chosen
<1>0. /\ row[i] \in Rows /\ row = [j \in Jobs |-> row[j]]
      /\ Reclaimed(row[i]) \in Rows
      /\ row[i].attempts \in Nat
  BY RowTypes, RowsAreFunctions, QueueAssumption DEF Rows
<1>1. row'[i] # row[i] /\ row'[i].attempts # row[i].attempts
      /\ row'[i].attempts # 0
  BY <1>0
<1>2. Reclaimed(row[i]).attempts = row[i].attempts
      /\ Seen(i).attempts = row[i].attempts
  BY <1>0, ReclaimedFields, MadeDueFields DEF Seen
<1>3. ASSUME NEW j \in Jobs, NEW n \in 1 .. MaxAttempts,
             NEW delay \in 0 .. MaxDelay, enqueue(j, n, delay)
      PROVE  FALSE
  BY <1>0, <1>1, <1>3, NewRowFields DEF enqueue
<1>4. ASSUME NEW x \in executions, complete(x) \/ fail(x) \/ Vanish(x)
      PROVE  FALSE
  <2>1. row'[i] \in {row[i], Completed(row[i]), AfterFailure(row[i])}
    BY <1>0, <1>4 DEF complete, fail, Vanish
  <2>. QED  BY <1>0, <1>1, <2>1, ReportFields
<1>5. ASSUME NEW j \in Jobs, cancel(j)
      PROVE  FALSE
  BY <1>0, <1>1, <1>5, OtherFields DEF cancel
<1>6. ~queueStats
  BY <1>1, <1>2 DEF queueStats
<1>7. ASSUME NEW old \in SUBSET Jobs, pruneFinished(old)
      PROVE  FALSE
  BY <1>0, <1>1, <1>7, OtherFields DEF pruneFinished
<1>8. ~Tick
  BY <1>0, <1>1, OtherFields DEF Tick
<1>9. ASSUME NEW q \in Queues, NEW w \in Workers, NEW limit,
             NEW chosen, claim(q, w, limit, chosen)
      PROVE  i \in chosen
  <2>1. i \notin chosen => row'[i] = Refreshed(q)[i]
    BY <1>9 DEF claim
  <2>2. Refreshed(q)[i].attempts = row[i].attempts
    BY <1>2 DEF Refreshed, Seen
  <2>. QED  BY <1>1, <2>1, <2>2
<1>. QED
  BY <1>1, <1>3, <1>4, <1>5, <1>6, <1>7, <1>8, <1>9
     DEF Next, ClaimFrom, vars

(* What a claim leaves on offer and due was due when it selected, hence    *)
(* comes after everything it took.                                         *)
LEMMA ClaimTakesTheBest ==
  ASSUME RowsOK, NEW q \in Queues, NEW w \in Workers, NEW limit, NEW chosen,
         claim(q, w, limit, chosen), NEW i \in chosen, NEW j \in Jobs,
         QueueOf[j] = q,
         row'[j].status \in {"queued", "retry_wait"}, row'[j].wait = 0
  PROVE  Before(i, j)
<1>1. j \notin chosen
  <2>1. Refreshed(q)[j] \in Rows
    BY RowTypes DEF Refreshed, Seen
  <2>. QED  BY <2>1, ClaimedFields DEF claim
<1>2. row'[j] = Seen(j)
  BY <1>1 DEF claim, Refreshed, Seen
<1>3. Seen(j).status = "queued" /\ Seen(j).wait = 0
  <2>1. Reclaimed(row[j]) \in Rows
    BY RowTypes
  <2>. QED  BY <1>2, <2>1, MadeDueFields DEF Seen, MadeDue
<1>4. j \in Due(Refreshed(q), q)
  BY <1>3 DEF Due, Refreshed, Seen
<1>. QED  BY <1>1, <1>4 DEF claim, Selected

(* claim() makes rows due and reclaims before it orders them by priority   *)
(* and age, so nothing better was left behind.                             *)
THEOREM BestComesFirst == Spec => ClaimsTakeTheBest
<1>1. JInv /\ [Next]_vars =>
        [\A i, j \in Jobs :
           /\ row'[i].attempts = row[i].attempts + 1
           /\ QueueOf[i] = QueueOf[j]
           /\ \/ Priority[j] > Priority[i]
              \/ Priority[j] = Priority[i] /\ row[j].birth < row[i].birth
           => ~ /\ row'[j].status \in {"queued", "retry_wait"}
                /\ row'[j].wait = 0]_vars
  <2>. SUFFICES ASSUME RowsOK, ExecutionsOK, [Next]_vars,
                       NEW i \in Jobs, NEW j \in Jobs,
                       row'[i].attempts = row[i].attempts + 1,
                       QueueOf[i] = QueueOf[j],
                       \/ Priority[j] > Priority[i]
                       \/ Priority[j] = Priority[i] /\ row[j].birth < row[i].birth,
                       row'[j].status \in {"queued", "retry_wait"},
                       row'[j].wait = 0
                PROVE  FALSE
    BY DEF JInv
  <2>1. PICK q \in Queues, w \in Workers, limit \in {1, 2} :
           \E chosen \in SUBSET Due(Refreshed(q), q) :
             claim(q, w, limit, chosen) /\ i \in chosen
    BY AttemptsCountClaims
  <2>2. PICK chosen \in SUBSET Due(Refreshed(q), q) :
           claim(q, w, limit, chosen) /\ i \in chosen
    BY <2>1
  <2>3. QueueOf[i] = q
    BY <2>2 DEF Due
  <2>5. Before(i, j)
    BY <2>2, <2>3, ClaimTakesTheBest
  <2>4. /\ Priority[i] \in Nat /\ Priority[j] \in Nat
        /\ row[i].birth \in Nat /\ row[j].birth \in Nat
    BY QueueAssumption, RowTypes DEF Rows
  <2>. QED  BY <2>5, <2>4 DEF Before
<1>. QED  BY <1>1, JobsInvariant, PTL DEF Spec, ClaimsTakeTheBest

-----------------------------------------------------------------------------
(* The durable queue implements the job board: each move of a row is a     *)
(* move of its job on the board, or leaves the board as it is.             *)

(* The moves of the board, said of a row before and after a step. *)
Shift(r, n, from, to) == Phase(r.status) = from /\ Phase(n.status) = to

Kept(r, n) == n.attempts = r.attempts /\ n.maxAttempts = r.maxAttempts

Counted(r, n) ==
  /\ r.attempts < r.maxAttempts
  /\ n.attempts = r.attempts + 1
  /\ n.maxAttempts = r.maxAttempts

Wiped(n) == n.attempts = 0 /\ n.maxAttempts = 0

BoardStep(r, n) ==
  \/ Phase(n.status) = Phase(r.status) /\ Kept(r, n)
  \/ Shift(r, n, "unknown", "offered") /\ n.attempts = 0 /\ n.maxAttempts > 0
  \/ Shift(r, n, "offered", "held") /\ Counted(r, n)
  \/ Shift(r, n, "held", "held") /\ Counted(r, n)
  \/ Shift(r, n, "held", "offered") /\ Kept(r, n) /\ r.attempts < r.maxAttempts
  \/ Shift(r, n, "held", "dead") /\ Kept(r, n) /\ r.attempts = r.maxAttempts
  \/ Shift(r, n, "held", "done") /\ Kept(r, n)
  \/ Shift(r, n, "offered", "dropped") /\ Kept(r, n)
  \/ Shift(r, n, "held", "dropped") /\ Kept(r, n)
  \/ Shift(r, n, "done", "forgotten") /\ Wiped(n)
  \/ Shift(r, n, "dropped", "forgotten") /\ Wiped(n)

LEMMA BoardStepIsAMove ==
  ASSUME NEW j \in Jobs, BoardStep(row[j], row'[j])
  PROVE  Board!Move(j) \/ Board!Stays(j)
BY DEF BoardStep, Shift, Kept, Counted, Wiped, Board!Move, Board!Stays,
       Board!Goes, Board!Spent, Board!Unspent, Board!Cleared

LEMMA Phases ==
  /\ Phase("absent") = "unknown"
  /\ Phase("queued") = "offered" /\ Phase("retry_wait") = "offered"
  /\ Phase("running") = "held"
  /\ Phase("completed") = "done"
  /\ Phase("dead_letter") = "dead"
  /\ Phase("cancelled") = "dropped"
  /\ Phase("pruned") = "forgotten"
BY DEF Phase

(* A row that a claim sees, or a reclaim leaves. *)
LEMMA SeenIsABoardStep ==
  ASSUME RowsOK, NEW j \in Jobs
  PROVE  /\ BoardStep(row[j], Reclaimed(row[j]))
         /\ BoardStep(row[j], Seen(j))
         /\ \A w : Seen(j).status = "queued" =>
              BoardStep(row[j], Claimed(Seen(j), w))
<1>. DEFINE r == row[j]
            c == Reclaimed(row[j])
<1>1. r \in Rows /\ c \in Rows /\ Seen(j) \in Rows
  BY RowTypes
<1>2. /\ r.attempts \in Nat /\ r.maxAttempts \in Nat
      /\ r.attempts <= r.maxAttempts
      /\ r.status \in {"queued", "retry_wait"} => r.attempts < r.maxAttempts
  BY QueueAssumption DEF RowsOK, RowOK, Rows
<1>3. Kept(r, c) /\ Kept(r, Seen(j))
  BY <1>1, ReclaimedFields, MadeDueFields DEF Kept, Seen
<1>4. \/ c = r
      \/ /\ r.status = "running" /\ c.status = "queued"
         /\ r.attempts < r.maxAttempts
      \/ /\ r.status = "running" /\ c.status = "dead_letter"
         /\ r.attempts = r.maxAttempts
  <2>1. CASE Expired(r)
    <3>1. c.status = IF r.attempts >= r.maxAttempts THEN "dead_letter"
                                                    ELSE "queued"
      BY <1>1, <2>1 DEF Reclaimed, Rows
    <3>. QED  BY <1>2, <2>1, <3>1 DEF Expired
  <2>2. CASE ~Expired(r)
    BY <1>1, <2>2, ReclaimedFields
  <2>. QED  BY <2>1, <2>2
<1>5. \/ Seen(j) = c
      \/ c.status = "retry_wait" /\ Seen(j).status = "queued"
  BY <1>1, MadeDueFields DEF Seen
<1>6. \A w : /\ Claimed(Seen(j), w).status = "running"
             /\ Claimed(Seen(j), w).attempts = r.attempts + 1
             /\ Claimed(Seen(j), w).maxAttempts = r.maxAttempts
  BY <1>1, <1>3, ClaimedFields DEF Kept
<1>7. BoardStep(r, c)
  BY <1>3, <1>4, Phases DEF BoardStep, Shift
<1>8. BoardStep(r, Seen(j))
  BY <1>3, <1>4, <1>5, <1>7, Phases DEF BoardStep, Shift
<1>9. ASSUME NEW w, Seen(j).status = "queued"
      PROVE  BoardStep(r, Claimed(Seen(j), w))
  <2>1. \/ r.status \in {"queued", "retry_wait"} /\ r.attempts < r.maxAttempts
        \/ r.status = "running" /\ r.attempts < r.maxAttempts
    BY <1>2, <1>4, <1>5, <1>9
  <2>. QED  BY <1>6, <2>1, Phases DEF BoardStep, Shift, Counted
<1>. QED  BY <1>7, <1>8, <1>9

LEMMA RowMoveIsABoardStep ==
  ASSUME RowsOK, NEW j \in Jobs, RowMove(j)
  PROVE  BoardStep(row[j], row'[j])
<1>. DEFINE r == row[j]
<1>1. /\ r \in Rows
      /\ r.attempts \in Nat /\ r.maxAttempts \in Nat
      /\ r.attempts <= r.maxAttempts
  BY QueueAssumption DEF RowsOK, RowOK, Rows
<1>2. CASE row'[j] = r \/ row'[j] = Ticked(r)
  BY <1>1, <1>2, OtherFields DEF BoardStep, Kept
<1>3. ASSUME NEW n \in 1 .. MaxAttempts, NEW delay,
             r.status = "absent", row'[j] = NewRow(n, delay)
      PROVE  BoardStep(r, row'[j])
  BY <1>3, NewRowFields, Phases DEF BoardStep, Shift
<1>4. ASSUME NEW x \in executions, Reported(x, j), row'[j] = Completed(r)
      PROVE  BoardStep(r, row'[j])
  BY <1>1, <1>4, ReportFields, Phases
     DEF BoardStep, Shift, Kept, Reported, HeldBy
<1>5. ASSUME NEW x \in executions, Reported(x, j), row'[j] = AfterFailure(r)
      PROVE  BoardStep(r, row'[j])
  <2>1. r.status = "running" /\ Kept(r, row'[j])
    BY <1>1, <1>5, ReportFields DEF Reported, HeldBy, Kept
  <2>2. CASE r.attempts >= r.maxAttempts
    <3>1. row'[j].status = "dead_letter" /\ r.attempts = r.maxAttempts
      BY <1>1, <1>5, <2>2, ReportFields
    <3>. QED  BY <2>1, <3>1, Phases DEF BoardStep, Shift
  <2>3. CASE ~(r.attempts >= r.maxAttempts)
    <3>1. row'[j].status = "retry_wait" /\ r.attempts < r.maxAttempts
      BY <1>1, <1>5, <2>3, ReportFields
    <3>. QED  BY <2>1, <3>1, Phases DEF BoardStep, Shift
  <2>. QED  BY <2>2, <2>3
<1>6. CASE r.status \in Live /\ row'[j] = Cancelled(r)
  BY <1>1, <1>6, OtherFields, Phases DEF BoardStep, Shift, Kept, Live
<1>7. CASE r.status \in {"completed", "cancelled"} /\ row'[j] = Pruned
  BY <1>1, <1>7, OtherFields, Phases DEF BoardStep, Shift, Wiped
<1>. QED
  BY <1>2, <1>3, <1>4, <1>5, <1>6, <1>7, SeenIsABoardStep DEF RowMove

LEMMA BoardInit == Init => Board!Init
BY Phases DEF Init, Absent, Board!Init

LEMMA BoardNext == JInv /\ JInv' /\ [Next]_vars => Board!Next
<1>. SUFFICES ASSUME JInv, JInv', [Next]_vars PROVE Board!Next
  OBVIOUS
<1>1. \A j \in Jobs : Board!Move(j) \/ Board!Stays(j)
  BY JInvMoves, RowMoveIsABoardStep, BoardStepIsAMove DEF Moves
<1>2. ASSUME NEW q \in Queues
      PROVE  Cardinality(Board!HeldIn(q)') <= Concurrency[q]
  <2>1. Board!HeldIn(q)' = RunningIn(row', q)
    <3>1. RowsOK'
      BY DEF JInv
    <3>2. \A j \in Jobs : row'[j].status \in Statuses
      BY <3>1 DEF RowsOK, Rows
    <3>3. \A s \in Statuses : Phase(s) = "held" <=> s = "running"
      BY DEF Phase, Statuses, Live, Finished
    <3>. QED  BY <3>2, <3>3 DEF Board!HeldIn, RunningIn
  <2>. QED  BY <2>1 DEF JInv, ConcurrencyRespected
<1>3. \A S : Board!Cardinality(S) = Cardinality(S)
  BY DEF Board!Cardinality, Cardinality
<1>. QED  BY <1>1, <1>2, <1>3 DEF Board!Next

(* Leases, backoff, lost workers and prunes hide behind the board: a job   *)
(* is held by at most its queue's slots, each time it is taken is counted, *)
(* and it dies exactly when its last try is lost.                          *)
THEOREM QueueImplementsBoard == Spec => ImplementsBoard
<1>1. JInv /\ JInv' /\ [Next]_vars =>
        [Board!Next]_<<[j \in Jobs |-> Phase(row[j].status)],
                       [j \in Jobs |-> row[j].attempts],
                       [j \in Jobs |-> row[j].maxAttempts]>>
  BY BoardNext
<1>. QED
  BY <1>1, BoardInit, JobsInvariant, PTL DEF Spec, ImplementsBoard, Board!Spec
-----------------------------------------------------------------------------
(* The work that is under way, against the rows it was claimed from.       *)

(* What a claim has given out belongs to a row that exists or did, carries *)
(* one of the attempts counted on it, and, when it carries the current     *)
(* attempt of a running row, belongs to the worker the row names.          *)
ExecutionSound(x) ==
  LET r == row[x.job]
  IN  /\ r.status # "absent"
      /\ r.status # "pruned" => x.attempt \in 1 .. r.attempts
      /\ r.status = "running" /\ x.attempt = r.attempts => x.worker = r.worker

ExecutionsSound == \A x \in executions : ExecutionSound(x)

AttemptsAreClaimedOnce ==
  \A x, y \in executions : x.job = y.job /\ x.attempt = y.attempt => x = y

(* A row that runs after a step ran before it, with the same holder and    *)
(* attempt, or was taken by a claim.                                       *)
LEMMA WhoHolds ==
  ASSUME RowsOK, NEW j \in Jobs, RowMove(j), row'[j].status = "running"
  PROVE  \/ /\ row[j].status = "running"
            /\ row'[j].worker = row[j].worker
            /\ row'[j].attempts = row[j].attempts
         \/ row'[j].attempts = row[j].attempts + 1
<1>. DEFINE r == row[j]
            c == Reclaimed(row[j])
<1>1. r \in Rows /\ c \in Rows /\ Seen(j) \in Rows
  BY RowTypes
<1>2. /\ c = r \/ c.status \in {"dead_letter", "queued"}
      /\ Seen(j) = c \/ Seen(j).status = "queued"
      /\ c.attempts = r.attempts /\ Seen(j).attempts = r.attempts
  BY <1>1, ReclaimedFields, MadeDueFields DEF Seen
<1>3. \A w : Claimed(Seen(j), w).attempts = r.attempts + 1
  BY <1>1, <1>2, ClaimedFields
<1>4. /\ Completed(r).status = "completed"
      /\ AfterFailure(r).status \in {"dead_letter", "retry_wait"}
      /\ Cancelled(r).status = "cancelled" /\ Ticked(r).status = r.status
      /\ Ticked(r).worker = r.worker /\ Ticked(r).attempts = r.attempts
      /\ Pruned.status = "pruned"
      /\ \A n, delay : NewRow(n, delay).status \in {"queued", "retry_wait"}
  BY <1>1, ReportFields, OtherFields, NewRowFields
<1>. HIDE DEF c
<1>. QED  BY <1>2, <1>3, <1>4 DEF RowMove, c

(* A row that exists keeps its count or has it raised by one claim, until  *)
(* it is pruned; its id never goes back to absent.                         *)
LEMMA CountsGrow ==
  ASSUME RowsOK, NEW j \in Jobs, RowMove(j), row[j].status # "absent"
  PROVE  /\ row'[j].status # "absent"
         /\ row'[j].status # "pruned" =>
              /\ row[j].status # "pruned"
              /\ row'[j].attempts \in {row[j].attempts, row[j].attempts + 1}
<1>. DEFINE r == row[j]
            c == Reclaimed(row[j])
<1>1. r \in Rows /\ c \in Rows /\ Seen(j) \in Rows
  BY RowTypes
<1>2. /\ \/ c = r
         \/ c.status \in {"dead_letter", "queued"} /\ r.status = "running"
      /\ \/ Seen(j) = c
         \/ Seen(j).status = "queued" /\ c.status = "retry_wait"
      /\ c.attempts = r.attempts /\ Seen(j).attempts = r.attempts
  BY <1>1, ReclaimedFields, MadeDueFields DEF Seen, Expired
<1>3. \A w : /\ Claimed(Seen(j), w).status = "running"
             /\ Claimed(Seen(j), w).attempts = r.attempts + 1
  BY <1>1, <1>2, ClaimedFields
<1>4. /\ Completed(r).status = "completed" /\ Completed(r).attempts = r.attempts
      /\ AfterFailure(r).status \in {"dead_letter", "retry_wait"}
      /\ AfterFailure(r).attempts = r.attempts
      /\ Cancelled(r).status = "cancelled" /\ Cancelled(r).attempts = r.attempts
      /\ Ticked(r).status = r.status /\ Ticked(r).attempts = r.attempts
      /\ Pruned.status = "pruned"
  BY <1>1, ReportFields, OtherFields
<1>5. \A x : Reported(x, j) => r.status = "running"
  BY DEF Reported, HeldBy
<1>6. Seen(j).status = "queued" => r.status # "pruned"
  BY <1>2
<1>. HIDE DEF c
<1>. QED  BY <1>2, <1>3, <1>4, <1>5, <1>6 DEF RowMove, Live, c

(* The work that a claim adds carries the attempt it counts.               *)
LEMMA NewExecutions ==
  ASSUME RowsOK, ExecutionsOK, [Next]_vars,
         NEW x \in executions', x \notin executions
  PROVE  /\ x = [job |-> x.job, worker |-> x.worker, attempt |-> x.attempt]
         /\ x.job \in Jobs
         /\ x.attempt = row[x.job].attempts + 1
         /\ row[x.job].status \notin {"absent", "pruned"}
         /\ row'[x.job].status = "running"
         /\ row'[x.job].worker = x.worker
         /\ row'[x.job].attempts = x.attempt
<1>1. PICK q \in Queues, w \in Workers, limit \in {1, 2} :
        \E chosen \in SUBSET Due(Refreshed(q), q) : claim(q, w, limit, chosen)
  BY DEF Next, ClaimFrom, enqueue, complete, fail, Vanish, cancel,
         queueStats, pruneFinished, Tick, vars
<1>2. PICK chosen \in SUBSET Due(Refreshed(q), q) : claim(q, w, limit, chosen)
  BY <1>1
<1>3. PICK j \in chosen :
        x = [job |-> j, worker |-> w, attempt |-> row[j].attempts + 1]
  BY <1>2 DEF claim
<1>. DEFINE r == row[j]
            c == Reclaimed(row[j])
            s == Refreshed(q)[j]
<1>4. /\ j \in Jobs /\ QueueOf[j] = q /\ s.status = "queued"
      /\ row'[j] = Claimed(s, w)
  BY <1>2 DEF claim, Due
<1>5. r \in Rows /\ c \in Rows /\ s = Seen(j) /\ s \in Rows
  BY <1>4, RowTypes DEF Refreshed, Seen
<1>6. /\ c = r \/ r.status = "running"
      /\ s = c \/ c.status = "retry_wait"
      /\ s.attempts = r.attempts
  BY <1>5, ReclaimedFields, MadeDueFields DEF Seen, Expired
<1>7. r.status \notin {"absent", "pruned"}
  BY <1>4, <1>6
<1>8. /\ Claimed(s, w).status = "running" /\ Claimed(s, w).worker = w
      /\ Claimed(s, w).attempts = r.attempts + 1
  BY <1>5, <1>6 DEF Claimed, Rows
<1>. QED  BY <1>3, <1>4, <1>7, <1>8

LEMMA NextExecutionsSound ==
  ASSUME JInv, ExecutionsSound, [Next]_vars
  PROVE  ExecutionsSound'
<1>1. RowsOK /\ ExecutionsOK /\ Moves
  BY JInvMoves DEF JInv
<1>. SUFFICES ASSUME NEW x \in executions' PROVE ExecutionSound(x)'
  BY DEF ExecutionsSound
<1>2. ASSUME NEW j \in Jobs
      PROVE  row[j].attempts \in Nat
  BY <1>1, QueueAssumption DEF RowsOK, Rows
<1>3. CASE x \notin executions
  <2>1. /\ x.job \in Jobs /\ x.attempt = row[x.job].attempts + 1
        /\ row'[x.job].status = "running"
        /\ row'[x.job].worker = x.worker
        /\ row'[x.job].attempts = x.attempt
    BY <1>1, <1>3, NewExecutions
  <2>2. x.attempt \in 1 .. x.attempt
    BY <1>2, <2>1
  <2>. QED  BY <2>1, <2>2 DEF ExecutionSound
<1>4. CASE x \in executions
  <2>. DEFINE r == row[x.job]
              s == row'[x.job]
  <2>1. x.job \in Jobs /\ RowMove(x.job) /\ ExecutionSound(x)
    BY <1>1, <1>4 DEF ExecutionsOK, Moves, ExecutionsSound
  <2>2. r.attempts \in Nat
    BY <1>2, <2>1
  <2>3. s.status # "absent"
    BY <1>1, <2>1, CountsGrow DEF ExecutionSound
  <2>4. ASSUME s.status # "pruned"
        PROVE  x.attempt \in 1 .. s.attempts /\ x.attempt \in 1 .. r.attempts
    <3>1. r.status # "pruned" /\ s.attempts \in {r.attempts, r.attempts + 1}
      BY <1>1, <2>1, <2>4, CountsGrow DEF ExecutionSound
    <3>2. x.attempt \in 1 .. r.attempts
      BY <2>1, <3>1 DEF ExecutionSound
    <3>. QED  BY <2>2, <3>1, <3>2
  <2>5. ASSUME s.status = "running", x.attempt = s.attempts
        PROVE  x.worker = s.worker
    <3>1. s.attempts # r.attempts + 1
      BY <2>2, <2>4, <2>5
    <3>2. /\ r.status = "running" /\ s.worker = r.worker
          /\ s.attempts = r.attempts
      BY <1>1, <2>1, <2>5, <3>1, WhoHolds
    <3>. QED  BY <2>1, <2>5, <3>2 DEF ExecutionSound
  <2>. QED  BY <2>3, <2>4, <2>5 DEF ExecutionSound
<1>. QED  BY <1>3, <1>4

LEMMA NextClaimedOnce ==
  ASSUME JInv, ExecutionsSound, AttemptsAreClaimedOnce, [Next]_vars
  PROVE  AttemptsAreClaimedOnce'
<1>. SUFFICES ASSUME NEW x \in executions', NEW y \in executions',
                     x.job = y.job, x.attempt = y.attempt
              PROVE  x = y
  BY DEF AttemptsAreClaimedOnce
<1>1. RowsOK /\ ExecutionsOK
  BY DEF JInv
<1>2. ASSUME NEW v \in executions, NEW n \in executions',
             n \notin executions, v.job = n.job
      PROVE  v.attempt # n.attempt
  <2>1. /\ n.job \in Jobs /\ n.attempt = row[n.job].attempts + 1
        /\ row[n.job].status # "pruned"
    BY <1>1, <1>2, NewExecutions
  <2>2. v.attempt \in 1 .. row[n.job].attempts
    BY <1>2, <2>1 DEF ExecutionsSound, ExecutionSound
  <2>3. row[n.job].attempts \in Nat
    BY <1>1, <2>1, QueueAssumption DEF RowsOK, Rows
  <2>. QED  BY <2>1, <2>2, <2>3
<1>3. CASE x \in executions /\ y \in executions
  BY <1>3 DEF AttemptsAreClaimedOnce
<1>4. CASE x \notin executions /\ y \notin executions
  <2>1. /\ x = [job |-> x.job, worker |-> x.worker, attempt |-> x.attempt]
        /\ row'[x.job].worker = x.worker
    BY <1>1, <1>4, NewExecutions
  <2>2. /\ y = [job |-> y.job, worker |-> y.worker, attempt |-> y.attempt]
        /\ row'[y.job].worker = y.worker
    BY <1>1, <1>4, NewExecutions
  <2>. QED  BY <2>1, <2>2
<1>. QED  BY <1>2, <1>3, <1>4

(* The lease is the only proof of ownership a worker has, and it is given  *)
(* out once: no two pieces of outstanding work carry the same attempt of a *)
(* job, none outlives its row's count, and of those that carry the attempt *)
(* a running row is at, the one there is belongs to the worker it names.   *)
THEOREM OutstandingWorkIsSound ==
  Spec => [](ExecutionsSound /\ AttemptsAreClaimedOnce)
<1>1. Init => ExecutionsSound /\ AttemptsAreClaimedOnce
  BY DEF Init, ExecutionsSound, AttemptsAreClaimedOnce
<1>2. /\ JInv /\ ExecutionsSound /\ AttemptsAreClaimedOnce /\ [Next]_vars
      => (ExecutionsSound /\ AttemptsAreClaimedOnce)'
  BY NextExecutionsSound, NextClaimedOnce
<1>. QED  BY <1>1, <1>2, JobsInvariant, PTL DEF Spec

-----------------------------------------------------------------------------
(* What remains of CompletedByItsHolder, which the run late_report sees    *)
(* fail: complete() and fail() compare worker ids only, so a report of an  *)
(* earlier execution passes, but of the same worker's on the same job.     *)

(* Only a report of the worker that a row names completes it. *)
LEMMA CompletionsAreReports ==
  ASSUME JInv, [Next]_vars, NEW x \in executions \ executions',
         row[x.job].status = "running", row'[x.job].status = "completed"
  PROVE  HeldBy(x.job, x.worker)
<1>1. RowsOK /\ ExecutionsOK /\ Moves
  BY JInvMoves DEF JInv
<1>2. PICK y \in executions : complete(y) \/ fail(y) \/ Vanish(y)
  BY DEF Next, ClaimFrom, claim, enqueue, cancel, queueStats, pruneFinished,
         Tick, vars
<1>3. y = x
  BY <1>2 DEF complete, fail, Vanish
<1>4. row' # row
  OBVIOUS
<1>. QED  BY <1>2, <1>3, <1>4 DEF complete, fail, Vanish

(* Whatever leases expired and whoever reclaimed the job in between, a     *)
(* running row is completed by work that a claim of this very job handed   *)
(* to the worker the row names, and that is of this attempt or an earlier. *)
CompletedByItsHoldersWork ==
  [][\A x \in executions \ executions' :
       row[x.job].status = "running" /\ row'[x.job].status = "completed"
         => /\ x.worker = row[x.job].worker
            /\ x.attempt \in 1 .. row[x.job].attempts]_vars

(* CompletedByItsHoldersWork, of claim(), complete() and fail().           *)
THEOREM OnlyItsHolderCompletesARow == Spec => CompletedByItsHoldersWork
<1>1. JInv /\ ExecutionsSound /\ AttemptsAreClaimedOnce /\ [Next]_vars =>
        [\A x \in executions \ executions' :
           row[x.job].status = "running" /\ row'[x.job].status = "completed"
             => /\ x.worker = row[x.job].worker
                /\ x.attempt \in 1 .. row[x.job].attempts]_vars
  <2>. SUFFICES ASSUME JInv, ExecutionsSound, [Next]_vars,
                       NEW x \in executions \ executions',
                       row[x.job].status = "running",
                       row'[x.job].status = "completed"
                PROVE  /\ x.worker = row[x.job].worker
                       /\ x.attempt \in 1 .. row[x.job].attempts
    OBVIOUS
  <2>1. HeldBy(x.job, x.worker)
    BY CompletionsAreReports
  <2>2. x.attempt \in 1 .. row[x.job].attempts
    BY DEF ExecutionsSound, ExecutionSound
  <2>. QED  BY <2>1, <2>2 DEF HeldBy
<1>. QED
  BY <1>1, JobsInvariant, OutstandingWorkIsSound, PTL
     DEF Spec, CompletedByItsHoldersWork
=============================================================================
