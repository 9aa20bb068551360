# TLA+ models of the free-agent007 server

The repository is a local gateway to many language model providers (a router
over free tiers with fallback, quotas, cooldowns and caches) and, on top of it,
an agent service: runs of a fixed software workflow that a model drives and
people approve, and a durable job queue with workers that claim over HTTP. It
is a single Node.js process over one SQLite database. JavaScript that does not
await is atomic in it; everything interesting happens between two awaits, two
HTTP requests, two timers or two lives of the process.

This directory models the parts that keep state over such gaps. TLC checks
small instances, TLAPS proves the safety properties for every instance.

## 1. Modules

| module | what it is | source |
| --- | --- | --- |
| `RunKernel` | the transition function of a run as operators | `agent/src/core/state-machine.ts` |
| `AgentRun` | one run: its row, budgets, checkpoints, drivers that await a model, callers | `server/src/services/agent-runtime.ts`, `agent-driver.ts` |
| `AgentRunProofs` | theorems about `AgentRun` | |
| `JobBoard` | what a job queue promises, without leases or rows | abstract specification |
| `AgentJobs` | the rows of `agent_jobs`, claims, reports, lost workers | `server/src/services/agent-jobs.ts` |
| `AgentJobsProofs` | theorems about `AgentJobs`; it implements `JobBoard` | |
| `Cooldowns` | benches in memory and on disk, failures, restart, the probe pass | `server/src/services/ratelimit.ts`, `cooldown-probe.ts`, `server/src/lib/fallback-loop.ts` |
| `CooldownsProofs` | theorems about `Cooldowns` | |
| `KeyQuota` | what requests may take of a provider key: leases, reservations, windows, the ledger of the month | `ratelimit.ts`, `key-budget.ts`, `router.ts` |
| `FallbackLoop` | chat requests side by side in `runFallbackLoop()`, over `KeyQuota` | `fallback-loop.ts`, `server/src/routes/proxy.ts` |
| `FallbackLoopProofs` | theorems about `KeyQuota` and `FallbackLoop`, which implements it | |
| `KeyHealth` | checks of provider keys and their verdicts | `server/src/services/health.ts`, `routes/keys.ts` |
| `DegradedMode` | the mode of the gateway and its grace periods | `server/src/services/degradation.ts` |
| `Fusion` | one request to a panel of models and a judge | `server/src/services/fusion.ts` |
| `PartsProofs` | theorems about `KeyHealth`, `DegradedMode` and `Fusion` | |
| `Membership` | owners, admins, members and invites of an organization | `agent-invites.ts`, `agent-tenancy.ts`, `routes/auth.ts` |
| `Secrets` | encrypted values, the keys they are under, backups, the rotation script | `server/src/lib/crypto.ts`, `backups.ts`, `scripts/rotate-encryption-key.ts` |
| `AdministrationProofs` | theorems about `Membership` and `Secrets` | |
| `ResponseCache` | answers in memory and the table behind them | `server/src/services/cache.ts` |
| `CacheProofs` | theorems about `ResponseCache` | |
| `MCAgentJobs`, `MCCooldowns`, `MCGateway`, `MCParts` | constants of the model checked instances; the last two run components side by side | |
| `GatewayProofs` | the components of `MCGateway` keep their own specifications side by side | |

`AgentRun` EXTENDS `RunKernel` and `FallbackLoop` EXTENDS `KeyQuota`, every step of
which is a step or a stutter of it; `AgentJobs` has `JobBoard` as an INSTANCE under
the refinement mapping `Phase`. An operator named `Bug...` beside a definition
is a plausible slip in the code it models; with it in place of the definition
the property it is paired with in `PROJECT.json` fails.

Run a check with `tlc -config X.cfg M`, a proof with `tlapm M.tla`.

## 2. Inventory of the system

For each part: the state it keeps, its operations, whom it meets, what is hard,
and what would make it correct. The status of each is in `PROJECT.json`.

### Agent service

* **Run kernel** (`state-machine.ts`). No state: a table from state, event and
  context to the next state, context and required approval. 19 states, human
  gates before implementation and deployment, a repair budget, block/unblock.
  *Hard:* long legal sequences; flags in the context that are never reset.
  *Correct:* the invariants I1..I6 its header lists.
* **Runtime** (`agent-runtime.ts`). Rows `agent_runs` and `agent_checkpoints`
  (a hash chain). `createRun`, `step`, `decide`, `cancelRun`, `stopRun`, each
  one transaction. Called by routes and by the driver. *Hard:* a cancel, a
  decision and a driver's late report in any order; ceilings on steps, tokens,
  cost and time that are compared before the work counts. *Correct:* one
  checkpoint for each change, no life after the end, bounded overshoot.
* **Driver** (`agent-driver.ts`). No state of its own: `advance()` reads the
  row, awaits a model, reports one event; `advanceUntil()` repeats it. *Hard:*
  the row may have moved during the await; the phases can answer each other for
  ever. *Correct:* never passes a gate, comes to an end.
* **Durable jobs** (`agent-jobs.ts`, migration `20260921_000001`). Rows
  `agent_jobs`. `enqueue`, `claim` (which reclaims expired leases and makes
  waiting rows due first), `complete`, `fail`, `cancel`, `queueStats`,
  `pruneFinished`. Producers and workers are HTTP clients. *Hard:* a worker dies
  with a job, a report comes after its lease, a submission is repeated.
  *Correct:* limits, budgets and order hold; finished work stays finished;
  every job ends.
* **Kernel libraries in memory** (`job-queue.ts`, `usage-ledger.ts`,
  `task-dag.ts`, `consensus.ts`, `collaboration.ts`, `checkpoint-store.ts`). Reference
  contracts which no process of the server instantiates.
* **Invites and tenancy** (`agent-invites.ts`, `agent-tenancy.ts`,
  `identity-access-contract.ts`). Accounts, roles, invites to an address.
  *Hard:* an invite is decided long before it is accepted. *Correct:* only
  owners make owners, and one stays.
* **Worker credentials; memory, evidence, tools; attestation.** Rows looked up
  by hash; text and file handling; hashes over rows.

### Gateway

* **Quota windows and leases** (`ratelimit.ts`). Usage rows with a fallback in
  memory, leases of requests in flight, gates per minute, day and concurrency.
  *Hard:* check and record are two moments; leases are pruned after two minutes
  although a stream may last longer. *Correct:* what is counted and what is in
  flight never exceed a limit.
* **Cooldowns and probe** (`ratelimit.ts`, `cooldown-probe.ts`,
  `fallback-loop.ts`). Table `rate_limit_cooldowns` and its copy in memory,
  windows of failures per model, pacing of probes. Every failed attempt writes,
  the router reads, the probe job lifts early, the operator clears. *Hard:*
  attempts in flight when a bench is written; the probe's await; restarts.
  *Correct:* memory and table agree, a bench is served to its end, facts are
  not replaced by guesses.
* **Fallback loop** (`fallback-loop.ts`). State per request: keys, models and
  platforms to skip, retry budget, timer of the budget, lease. *Hard:* an
  abort racing the first byte; release on every exit; streaming past the point
  of no return. *Correct:* attempts are bounded, nothing leaks, at most one
  answer.
* **Router** (`router.ts`). Scores, penalties, round robin; picks model and
  key through every gate. *Hard:* gates read at different moments.
* **Monthly key budget** (`key-budget.ts`). Reservations in memory and usage
  on disk, over the turn of a month.
* **Idempotency** (`idempotency.ts`). Stored answers with expiry; two requests
  in flight with one key both run, and the later answer replaces the earlier.
* **Response caches** (`cache.ts`, `semantic-cache.ts`). Answers in memory, least
  recently used first, and a table written by a queue; flush, switch, reload.
  *Hard:* writes that wait during a flush, a crash between two writes.
  *Correct:* a flush is final, the table follows memory.
* **Health** (`health.ts`). Status of keys and consecutive refusals, by passes,
  single checks and live traffic. *Hard:* the row may change while the provider
  is asked. *Correct:* keys are judged by their own refusals, and in the end
  rightly.
* **Degraded mode** (`degradation.ts`). A mode with grace periods for entry and
  exit. *Correct:* it follows an outage, and not a moment of one.
* **Catalog synchronisation** (`catalog-sync.ts`). Models come, go and are
  retired; tombstones keep removed ones away.
* **Fusion** (`fusion.ts`). A panel of models, asked at once or, with tools on
  offer, one by one; refills for those that fail; a judge that may stream.
  *Hard:* failures halfway. *Correct:* one model acts, streamed text stands.
* **Backup, restore, key rotation, migrations** (`backups.ts`, `db-backup.ts`,
  `atomic-write.ts`, `rotate-encryption-key.ts`, `db/migrate/runner.ts`). Files
  and the database change in several steps. *Hard:* a crash between two.
* **Scheduler and shutdown** (`scheduler.ts`, `graceful-shutdown.ts`). Jobs
  that must not overlap, and a drain.
* **Login and one-time codes; request log; provider adapters; dashboard,
  desktop and command line.** Counters and expiry; analytics; translation and
  user interface.

Many files of the commit carry unresolved merge markers (`<<<<<<< HEAD`),
`fallback-loop.ts`, `ratelimit.ts`, `router.ts`, `catalog-sync.ts`,
`backups.ts`, `health.ts` and `cache.ts` among them; such a file does not build
as it stands. The agent files, `cooldown-probe.ts`, `key-budget.ts`,
`idempotency.ts` and `degradation.ts` have none. Where the two sides of a marker
differ in what a model keeps, it follows the `upstream/main` side: in `cache.ts`
(`ResponseCache`) and in `fallback-loop.ts` and `proxy.ts` (`FallbackLoop`,
`Cooldowns`). The exception is `routes/auth.ts` (`Membership`), where only the `HEAD`
side has the route that accepts an invite. For `Cooldowns` the upstream side adds the early return for requests that are too large (`Spared`), the second
bench of a late in-band error (the parameter `late` of `Spared` and
`RetryableFailure`), and a Pacific reset for one platform, which is one more
provider-stated time.

## 3. Agent runs: `RunKernel`, `AgentRun`

**State.** `state`, `ctx`, `stepsUsed`, `tokensUsed` and `awaiting` are columns
of the run; `checkpoint` is its newest checkpoint (number, state and who caused
it); `late` says that the deadline has passed; `driver[d]` is what a call of
`advance()` was asked before its await. `codeStage` is history: how far the
newest code change has been let through (changed, reviewed, approved). The
code has flags for this that stay set, so the property needs its own record.

**Actions.** `CallerStep` is `POST /runs/:id/step`: any event from any state.
`Decide` chooses the event by the gate. `Ask` and `Answer` are `advance()`
before and after its await; `Answer` maps an answer by the phase that was asked
and reports it to whatever the run has become, as the code does. `Abandon` is
an answer outside the offered words, a failed completion or the end of the
process. `step()` is the disjunction `StepOverBudget`, `StepAccepted`,
`StepRefused`. A refusal to a caller changes nothing and is left out.

**Abstractions.** The cost ceiling compares like the token ceiling and is not
kept apart. The hash links of the chain, evidence, prompts and the memory of
outcomes are left out. A step uses 0 or `AnswerTokens` tokens.

| run | shows |
| --- | --- |
| `agent_run` | one driver and every caller, 194 956 states: releases, budgets, gates, the audit trail and final states are kept, and driving comes to an end |
| `plan_gate` | *violated:* block, unblock (which always leads to IMPLEMENT), `tests_failed`, `repair_succeeded` changes code in a run without an approved plan |
| `stale_answer` | *violated:* a driver asks about one phase, a caller's step moves the run on, and the answer moves it from there; a second driver does the same |

**Bounds.** The shortest way from INTAKE through a deployment to DONE takes 9
steps; with `MaxSteps = 13` a run can finish after a detour (a repair, a
clarification, a block), or run out of steps anywhere.
`MaxTokens = 2` with `AnswerTokens = 1` lets the token ceiling be met exactly
and crossed. `MaxRepair = 1` lets the repair guard allow once and refuse once.
One driver is enough against callers; the question about two drivers has its
own run.

**Fairness.** `WF(Ask)`: somebody keeps calling `advance()`, as `advanceUntil()`
does in its loop. `SF(Answer)`: a model asked again and again answers with an
offered word some time; single answers may be lost. Callers, decisions and the
deadline are not assumed.

**Liveness.** `DrivingComesToAnEnd`: again and again the run has ended, waits
for a person, or is where some answer is refused. Loops such as TEST and REPAIR
end only because every step counts; the mutant of `StepOverBudget` shows it.

**Proof.** `TypeOK` bounds `stepsUsed` by `MaxSteps + 1` and is not inductive:
a forced stop counts a step too. It needs that only an ended run is over its
ceiling (`BudgetOvershootIsOneStep`). Checkpoints without gaps need that the
newest one carries the row's count and state (`CheckpointIsCurrent`). `IInv`
joins these with `AwaitingIsTheGate`, and every run theorem follows from it.
`ShippedCodeWasReleased` has an invariant of its own: by state, what the newest
change has been through. It yields `FinishedRunsWereReviewed` too: the way to DONE
without a deployment passes the same review. Assumed is `BudgetAssumption`: the
ranges `createRun` enforces.

Of the two violated properties it is proved what alone breaks them. A run is past
its plan, or has code, only with the plan approved (`PlanCameFirst`), until a
caller unblocks it: no other event, answer or forced stop ends that
(`UnblockAlonePassesThePlanGate`), and the code that then precedes its plan is a
repair and has cost one (`UnplannedCodeCostsARepair`). A run that has as many
steps as when a driver was asked is in the phase that was asked about and on no
gate (`StepCountTellsLateAnswers`), whatever has happened in between: a
comparison of `steps_used` in `step()` would tell every late answer.

**Observations.** `verifyPassed` is set by `deploy_verified` on the way into
VERIFY, so the guard that asks for it never refuses. `deploy_rejected` leads by
FINALIZE to DONE without a deployment. The agent documentation says a block
reason stays after unblock; the code deletes it.

## 4. Durable jobs: `JobBoard`, `AgentJobs`

**State.** `row[j]` is the row of a job id: status, attempts, budget, worker,
and the distance of `lease_expires_at` and `available_at` from now, in ticks.
`birth` orders rows as `created_at` does. `executions` are claims a worker has
not reported on: a record of job, worker and the attempt it was claimed for. The code keeps no such record:
it knows a worker by its id alone.

**Actions.** One for each function of `agent-jobs.ts`, with all that it does:
`claim` reclaims expired leases of every queue, makes waiting rows of its queue
due, counts what runs, selects by priority and age within the free slots, and
takes the rows; `queueStats` reclaims before it counts. `Vanish` is a lost
worker or report. `enqueue` of a key that has a row changes nothing and is left
out. Draws of a new id, idempotency keys and policies are constants.

| run | shows |
| --- | --- |
| `agent_jobs` | two workers, three ids for two keys, one slot, 161 592 states: the limit, keys, leases, order, and the job board is implemented, which bounds the attempts and keeps finished jobs finished |
| `parts` (section 9) | two jobs of different priority for one slot of a queue, a second queue that is polled and empty, and one worker: every job ends |
| `late_report` | *violated:* a report of a lost execution completes the row its worker claimed again |

**Bounds.** Two budgets (1 and 2) decide between a retry and a dead letter.
Lease, backoff and delay of one tick let each be running or over. Three ids for
two keys let a key be submitted again after its row was pruned. Two workers are
enough to tell a stolen lease from a kept one; they are symmetric, and symmetry
is not used where liveness is checked. `created_at` is a total order in the
model; rows of the same millisecond are ordered by SQLite.

**Fairness.** `WF(Tick)`: time passes. `WF(ClaimFrom(q))`: some worker polls
each queue, which is how the workers' protocol works. Nothing is assumed of a
worker that has claimed: all of them may die. A job is stranded where nobody polls
its queue; one whose lease expired, where nobody polls any, since only `claim` and
`queueStats` reclaim. There is another way, which no run shows: `claim` selects strictly
by priority, so producers that submit better jobs without end keep a lower one
waiting for ever. Every instance has finitely many ids, so `EveryJobEnds` says that a
job ends once the supply does.

**Proof.** What an operation does to one row is a lemma about that row; what a
step does to a row is one of a few moves. `JInv` joins `RowsOK` (each row by itself),
`ExecutionsOK`, `ConcurrencyRespected` and `OneRowPerKey`. `RowsOK` says beyond
the checked invariants that only a waiting row has time to wait, without which
a finished row would still change with the clock. The limit needs the
cardinality of what a claim selected; it is proved for any number of slots,
where the checked instance has one. That `AgentJobs`
implements `JobBoard` follows move by move: a reclaim inside a claim is a held job that is taken
again in one step. `JobsRunDown` gives every row a number of turns it has left, at
most `3 * MaxAttempts + 3`: enqueue, claim, report, reclaim, falling due, cancel
and prune each leave it fewer, and the clock alone leaves it as many. It is the safety half of
`EveryJobEnds`: nothing a lost worker, a late report or a reclaim does starts a
job over. Assumed is `QueueAssumption`.

`late_report` shows that the pair of job and worker does not name an attempt. What does
is proved: no two executions carry the same attempt of a job, and the one with the number of
the row belongs to its holder (`OutstandingWorkIsSound`). A running row is completed by
the worker it names only, with work that a claim of this job has handed to it
(`OnlyItsHolderCompletesARow`); the one thing open is whether that was this attempt or an earlier
one, and to put the attempt into the report would close it. `LeaseIsNotStolen` has the
other half in the run: while its lease lasts a row keeps its worker and attempt, or is
cancelled, or is reported on by that worker.

**Observations.** A dead letter has no `completed_at`, so `pruneFinished` never
deletes it, and its key stays taken. `pruneFinished` has no caller in the
server. The kernel's in-memory queue differs (no backoff on reclaim) and is not
what the server runs.

## 5. Cooldowns: `Cooldowns`

**State.** A route is a model reached with a key, all of one platform. `row[r]`
is its row in `rate_limit_cooldowns`: source, what is left, the whole length.
`memory[r]` is the copy in `cooldowns`. `failures[m]` is the window of
`noteModelFailure`, `attempt[a]` the route of a request in flight. `pace`,
`found` and `age` are the probe: `keyState`, the benches a running pass has read,
and how long ago.

**Actions.** `Skip` and `Start` are the two outcomes of `isOnCooldown` at the
router's gate, with what each does to memory and table. `RetryableFailure` is
the whole handler on its benching path: the decision by kind of failure, the
key across its models for a payment, the streak of the model on every key, the
late error. `AuthFailure`, `Spared`, `Success` end an attempt otherwise.
`ClearKey` and `ClearAll` are the operator's. `Restart` loses all but the rows
and sweeps the expired. `PassBegins` reads, paces and chooses; `ProbeAnswers`
comes any time later and acts on what was read.

**Abstractions.** Which step of the ladder applies, whether a day's quota is
spent and how many failures are still in the window are open choices; so is the
order in which a pass meets its keys. The streaks of truncated streams are a
choice as well. The
operator's ceiling does not change during a behaviour. All keys are enabled and
healthy and all models enabled: a revalidation after a 401 and the status of
keys belong to the health checks. The database answers: `withDb` swallows failures and leaves memory
alone to speak, which is not modelled. Local endpoints (always 5 s) and the
callers in `media.ts` and `fusion.ts`, which use the same functions, are left
out.

| run | shows |
| --- | --- |
| `cooldowns` | two requests over one model and two keys, 415 077 states: memory follows the table, a bench is served across restarts and boots, guesses stay short, neighbours keep their bench |
| `probe_clears_facts` | *violated:* a bench that became provider-stated while a probe was awaited is lifted by the answer |
| `stated_time_cut` | *violated:* a later plain failure of a second request in flight replaces a Retry-After by a shorter guess |

The first of these is a defect: the pass could ask for the rows again, or delete only
heuristic ones. The second departs from what the documentation promises;
`setCooldown` would have to compare, as `noteModelFailure` does. The same
overwriting is open to a 402 of another model of the key under a low ceiling,
and to a model streak that puts a slightly longer guess in the place of a stated time,
which a probe may then lift.

**Bounds.** Four ticks let the transient bench (1), the fixed benches and the
guess cap (2), the ceiling (3) and a day (4) differ and be counted down. One tick is the
least a ripe bench has left; a bench of two is ripe at half time. A streak of
two shows a first and a last failure. In the passing run a failed probe comes
back after one tick, and one probe a pass leaves a key out. The clock, the
operator and restarts may step in anywhere. No action is ever disabled for good
(the clock runs), so deadlock is checked.

**Proof.** `SoundRow` and `SoundEntry` speak of one route; every way of writing
a bench keeps them, and a single lemma serves the operator, the restart and
the probe, which only lift. `CInv` joins type, `MemoryFollowsDisk` and
`GuessesStayShort`. `BenchesAreServed` needs that a pass holds benches of the key it
probes only, and that a failure writes to the other routes of its key whole benches or
nothing; `NeighboursKeepTheirBench` holds because the model bench passes over what
lasts longer. `CooldownAssumption` asks that every duration is positive and
within `Longest`, and that probe backoff starts within its limit.

`BenchesAreServed` is also what remains of the promise that `stated_time_cut` refutes:
besides time and the operator, a stated time is cut only by the failure of a request,
or the end of a probe, of the same key. Of the one that
`probe_clears_facts` refutes remains `OnlyItsKeyDisturbsAProbe`: what a pass has found
is a guess, and becomes a fact while the probe is out at the failure of a request of
that key alone; what a streak elsewhere writes over it is a guess again.

## 6. Quota and the fallback loop: `KeyQuota`, `FallbackLoop`

**State.** `KeyQuota` keeps, for each place a request can take, its lease in
memory, the key it has reserved, its row of `rate_limit_usage` and the key it is
on in the ledger of the month. A meter is one limit on requests over a set of
routes; a daily one starts again at midnight, the others slide. `FallbackLoop`
adds `req[q]`, the variables of one call of `runFallbackLoop()`: attempt,
breaker, what the skip sets rule out, the route, the hedge timer, whether the
client has left, how many answers it was given, and the ticks since the loop and
since the attempt began.

**Actions.** Between the end of one attempt and the start of the next the loop
does not wait, so `Fails` is one step: the failure, the breaker, the return of
the route, the question for the next and its dispatch. `Take` is
`selectKeyForModel`, which asks every gate and takes lease and reservation
without an await; that a route is taken and then found too late (`TooLate`) is
one step of the loop with nothing in between. `FirstByte` is where a stream flushes its
headers and disarms the hedge; `Delivers` records and logs the success;
`BreaksOff`, `Canceled`, `HedgeEnds`, `Fatal` and `End` are the other ways out.
`Tick`, `NewDay` and `Restart` may come anywhere.

**Abstractions.** Which failure the provider produces, and whether the router
finds a route at all for reasons of benches, health or size, are open choices;
`Cooldowns` and `KeyHealth` have the benches and the status. The limits on
tokens compare like those on requests and are left out. The adaptive time
budget is a constant of the route. A change of a cap by the operator, a failing
database (which leaves the windows to memory) and a `logRequest` that swallows
its error, so that a success is missing from the ledger, are not modelled. In
`fallback-loop.ts` and `proxy.ts` the upstream side of the merge is modelled.
A client that leaves in mid-stream is served to the end and recorded as a success.

**What is promised.** Leases are pruned after two minutes, streams may run
longer. So a limit on requests holds exactly for leases that are young and for
the successes they become (`MeterHolds`, `KeyConcurrency`); a request that
outlives its lease comes on top, and `stray` marks its row. Reservations are not
pruned, so the monthly cap holds without exception (`MonthlyCapHolds`).
`NothingLeaks` ties lease, reservation and timer to the attempt on every way out.
`SilenceIsBounded` begins with the third attempt, as the code's budget does.

**Bounds.** Two requests and limits of one: both requests meet at every gate, and
each gate is the only one that stops them somewhere. `LeaseAge = 0` prunes a
lease at the first tick, so long streams are the normal case; a larger age adds
waiting only. `MaxRetries = 3` reaches the attempt with a time budget,
`BreakerLimit = 2` trips before the attempts are spent. `MaxElapsed` is past every
budget. `parts` has one request over two routes, with the fairness of an
attempt: the clients of the providers time out, before the first byte and
within a stream.

**Proof.** `QuotaInv` says that a lease never outlives its reservation and
counts, per meter, cap and key, who holds a place; a set that grows does so by one
request that the gate has just counted. `LoopInv` describes one request by its
phase. `LoopImplementsQuota` shows that every step of the loop is a step of
`KeyQuota` or leaves the quota alone, so its theorems carry over.
`RequestsRunDown` is the safety half of `EveryRequestEnds`: what a request has left
to do is at most `2 * MaxRetries + 6` steps and becomes less with each step it
takes, two for each attempt, and at most one each for its timer and for a client
that leaves; only waiting leaves it as it is. An attempt that is not counted would break it.

## 7. Keys, modes and caches

### `KeyHealth`

A check reads a row, awaits the provider and writes its verdict on whatever the
row has become: `check[a][k]` remembers whether the credential asked about is
still the one in the row. `StartPass`, `AskInPass`, `EndPass` are
`checkAllKeys()`, which a second caller joins; `AskAlone` is the button of the
dashboard and the revalidation after a 401, of which one at a time per key is
modelled. Polling of quotas and the spacing between calls are left out.
`refused` is history. The count of refusals is kept when the operator replaces
a credential or turns a key on, so that one refusal of the new one can disable
it; `DisabledByRefusals` therefore speaks of answers about the key, and
`HealthFollowsProvider` says what is true of the credential in the end. A request is
served with the current credential while the provider accepts it (`Serves`); one that was
sent before the credential changed and succeeds after, and the deletion of a key, are
left out.
One key is enough, since keys meet only in the pass, and counts stop at
`DisableAfter`. *Fairness:* passes are scheduled, workers take the next key and
the clock moves; a provider that is asked again and again is reached some time.
Under it a working key that stays on is healthy again and again, and a refused
one ends up marked as invalid or off.

### `DegradedMode`

`Evaluate` is `updateDegradationState()` after a pass, with the three branches as
disjuncts. The moments it remembers are ages that stop at the grace period; the
ratio is a table from the number of providers to how many of them must be
usable. `sinceFine` and `sinceBelow` are history and speak of evaluations, which
is all the code sees. An exit by too few providers to judge, and a restart, end
the mode at once. *Fairness:* passes and time go on.

### `Fusion`

One call of `runFusion()`. The panel is a list of candidates of which the second
half refills the first, or is empty when the client named the models. Without
tools `AskPanel` asks as many as answers are missing and waits for all of them;
with tools it asks the next one. `SlotEnds` is one attempt of `runModelCall()`, of
which a slot has `MaxSlotAttempts`; a call of a tool that was not to be called is a
failure. `ClosePanel` decides between the error, the tool call, the best answer
and the judge; `JudgeSpeaks` is the first piece of a stream, after which an attempt
no longer gives way to another. Which attempt fails, by the provider, by the
deadline of a tool call or because no key is left, is open, so the model holds
for every classification of errors. The choice of the models, their number when
fewer are servable than asked for, and the accounting and benches of an attempt are left out,
and so are a `tool_choice` without tools and a number of refills other than none or that of
the panel;
where the file holds an unfinished merge, the two sides differ in the options of a call and a saved setting only.

`OnlyOneModelActs` is what the comment at the loop asks for, over the whole
request. `StreamedTextStands` needs the guard in the handler of an error and the
answer taken after it. *Fairness:* the clients of the providers time out. A panel of two with two refills and
two attempts for each has every mixture of failed, prose and calling models, a
judge with and without quorum, and a judge that fails before and within its stream.
`FusionsRunDown` is the safety half of `FusionsEnd`: each step uses up an attempt
of a candidate or of the judge, or is the first text of the judge's attempt; a
candidate that is through is never asked again, and none is under way beside the judge.

### `ResponseCache`

Memory is a sequence, least recently used first, in which JSON answers and
streams share one order; the table has rows of JSON answers only. The code keeps two
stores and evicts the older of the two oldest; where they were used in the same
millisecond it takes the stream, and no property depends on which goes. Every change
queues its writes, `DrainPendingWrites` runs them, and a crash may keep any
prefix. A queued insert writes the hits its entry has when it is run
(`Recounted`). `FlushIsFinal`: nothing that was there at a flush comes back, from
memory, queue or table, over any number of restarts. `TableFollowsMemory`: the
drained table is what memory is, and never larger.

The header of `cache.ts` says that a row is dropped whenever its entry goes. While
the switch is off no write is queued, so an eviction then leaves its row; such
states are marked `skipped`, and the property does not speak of them. An
answer given out twice is told apart by its name, so a store after a flush uses
a fresh one. The limit on body sizes, the statistics, writes that fail and the
semantic cache are left out; `RESPONSE_CACHE_MAX_ENTRIES` does not change, and
the clock moves when the queue is drained, which takes one turn of the event
loop. One entry for three prompts, one of them a stream: each store evicts another
answer, and the table could outgrow memory. A queue of two holds the delete of what is evicted with
the insert of what evicts it. Larger caches, several entries in their order and
longer queues are the proofs' part.

**Proof** (`CacheProofs`). The operations are written so that one entry leaves memory
at a time, as `enforceCombinedCap()` evicts one for each store. `After(n)` is defined
by recursion over the queue; what it does for every `n` is proved by induction in a
form the provers accept: a set that holds 0 and with every number its successor
holds them all (`SetInduction`, from the well-foundedness of the order). `CacheInv`
gives memory, queue and table their shape, says that a process that is down has
lost memory and queue, that counted hits are not more than an entry has, and that
nothing anywhere carries a flushed answer; it implies `FlushIsFinal`.
`TableFollowsMemory` is kept by `CacheInv` and itself: `Follows` compares a table with
memory and `Mirrors` does it for the table that the waiting writes lead to, row by row. A
store appends a delete and an insert, so the tables on the way are one row smaller
and never larger; a hit rewrites the waiting insert of its entry, after which every
table on the way differs in the hits alone. Each action has a lemma for either
invariant. Assumed is `CacheAssumption`; the set of prompts is finite, since the
size of the table is a cardinality.

## 8. Administration: `Membership`, `Secrets`

### `Membership`

Accounts with an address, the role of each in one organization, and invites to
an address. `AcceptInvite` is the route and `acceptInvite()` together;
`AcceptIsCut` is a crash between the account and its membership. `grantor`
is history: what the one who gave a role was when he decided. `member` stands
for the four roles without administration. An admin may not invite an admin and
may promote one: the two functions differ.

`last_owner` is *violated:* the owner invites an address to a lesser role (the run: as
an admin), changes his own address to it and accepts. `acceptInvite()` replaces his row. It would
have to refuse who is a member already, as `createInvite()` does.

Two users, addresses and invites let one invite wait while the other is used,
and an address move to another account.

**Proof.** `MembershipInv` adds to the properties that an invite to own was sent by
an owner and that members have addresses, which no account gives up. `UnseatedByInvite`
carries both results on the last owner: that nothing but an invite unseats him, and that
he unseats himself: he alone owns the organization, has the address of a pending invite to
a lesser role, and accepts it (`TheLastOwnerUnseatsHimself`).

### `Secrets`

A ciphertext is a value and the key it is under. The server holds the key it
started with; on disk the key is in the environment, a file or the old setting,
and `StartServer` moves it from the last to the file, with `StartIsCut` between
the two. `rotateSecrets` reads all values, which is one step, `applyRotation` writes them in a transaction, and
afterwards the operator sets the new key (`SetKey`). With `Live = FALSE` the
script runs while the server is down, and the server does not start before the
key is set: that is the recommendation of the script, and it is assumed of the operator. Then no secret
is lost, whatever is restored and wherever a process dies (`SecretsSurvive`). A
restore compares the fingerprint in the header of the dump, without which a
dump from before a rotation would bring back values nobody can read.

`rotation_live` is *violated:* with a server up, what it stores between the two
steps of the script is overwritten by the older value, or stays under the old key, and
a secret it erases comes back where its row stays (`Emptied`: a setting cleared to `''`,
columns set to NULL).

Two tables, one value, two keys and two dumps: partial dumps, a snapshot before a
restore, and a restore after a rotation. A dump is written whole or not at all;
files a failed deletion leaves behind are not tracked.

**Proof.** `KeysInv` says that the secrets are under `CurrentKey`, the one the script moved
them to until the operator has set it, that a script has read what is
there, and that every dump is under the key of its header. It is kept by every step
that `WritesInTurn`: nothing is written, or the script writes, or a server that has
`CurrentKey` and no script beside it. With `Live = FALSE` every step does (`Apart`), whence
`SecretsSurviveRotation`. With a server beside the script the other steps are exactly its
own writes, while the script runs or under a key the secrets have left, and they are all that can
end `KeysInv`, which implies `RotatedSecretsOpen` (`OnlyWritesOutOfTurnLoseSecrets`). So to
stop writes during the rotation alone is not enough: the server must not write again
before it has started with the new key.

## 9. Components side by side: `MCGateway`, `MCParts`

Four components whose safety is checked run in `gateway`, five whose liveness is
checked in `parts`. A behaviour chooses a part and the others stand still in one
state: they share no variable, so what holds of each alone holds of each here,
and the state space is the sum and not the product. Invariants of another part
hold of its initial state. Where parts of the code do share state they are
modelled in one module (quota and loop; memory and table; row and driver).

| run | shows |
| --- | --- |
| `gateway` | 2 622 168 states: meters, caps and concurrency hold, nothing leaks, one answer, bounded silence; only owners make owners and nothing but an invite takes the last one; secrets survive; flushes are final and the table follows memory |
| `parts` | 23 711 states, with fairness: keys are disabled by refusals only and judged rightly in the end, the mode waits out its grace periods and follows an outage, one model of a fusion acts and its streamed text stands, every fusion, request and job ends |
| `last_owner` | *violated:* an accepted invite demotes the last owner |
| `rotation_live` | *violated:* a rotation beside a server loses a secret |

Requests are symmetric in `gateway`, which checks no liveness. In both runs some
component may stop (every request is over, the flushed answers are used up), so
deadlock is not checked there.

## 10. Proved, checked, left out

Proved for all constants: type correctness of every component (of `Secrets` under
`~Live`); every safety invariant and step property of the passing runs but one,
below; that `AgentJobs` implements `JobBoard` and `FallbackLoop` implements
`KeyQuota`; that a behaviour of `MCGateway` is one of each of its parts
(`GatewayRunsItsParts`), whence `GatewayTypeOK`. Proved and not run, since no property
of a run says it: a run over budget only fails or is cancelled, a finished run was
reviewed, attempts of a job stay within its budget and are handed out once, a finished
job stays finished, the theorems of the table below, and the safety halves of
termination, `JobsRunDown`, `RequestsRunDown` and `FusionsRunDown`: what is left to do is
bounded and every step but waiting leaves less of it. They need no fairness; that the
steps are taken is what fairness adds. The phases of an agent run have no such measure but
its ceilings, so `DrivingComesToAnEnd` rests on `OvershootIsBounded` and `HistoryHasNoGaps`.

For every property that a run sees violated, a theorem without further assumptions says
how much of it the code keeps, and which step alone breaks it:

| violated in the run | theorem | proved of every behaviour |
| --- | --- | --- |
| `plan_gate` | `UnblockAlonePassesThePlanGate` | the plan comes first until a caller unblocks a run that had none |
| `stale_answer` | `StepCountTellsLateAnswers` | an answer to a run of as many steps as at the question is in its phase |
| `late_report` | `OnlyItsHolderCompletesARow` | the worker of a completion is the row's, and its attempt this or an earlier one |
| `probe_clears_facts` | `OnlyItsKeyDisturbsAProbe` | a guess under a probe becomes a fact by a failure of the same key only |
| `stated_time_cut` | `BenchesHold` | besides time, a bench is cut by the operator, its own probe or a failure of its key only |
| `last_owner` | `TheLastOwnerUnseatsHimself` | the last owner goes by accepting an invite to less than he is |
| `rotation_live` | `OnlyWritesOutOfTurnLoseSecrets` | secrets are lost by a server's write beside the script or under a key left behind only |

What the right column leaves open is all that a repair has to close.

For `Fusion`, `FusionInv` adds
that only candidates of the pool are asked and that the judge's text is that of
its attempt; that a wave is a single model is a fact about cardinalities.
`SecretsSurviveRotation` and `GatewayIsTyped` assume `~Live`. Each theorem rests on
the ASSUME of its module only, which the runs evaluate.

Only model-checked: liveness (`DrivingComesToAnEnd`, `EveryJobEnds`,
`EveryRequestEnds`, `FusionsEnd`, `HealthFollowsProvider`, `ModeFollows`), since fairness and
ENABLED are out of the prover's reach; and `PartsTypeOK`, which says of five
components together what is proved of each: two of them are instances with other
constants there, and the prover takes the theorems of an instance without asking
whether its constants meet the assumptions. The induction theorems of the library take an operator as a
parameter, which the provers cannot instantiate; the one recursive definition a
theorem is about (`RowsAfter`) is reasoned about through sets instead. The violated
properties are refuted by TLC. No module declares a RECURSIVE operator.

Not modelled:

* **Idempotency.** Only completed answers are replayed and two requests in
  flight both run by design; nothing relates two of its steps.
* **Catalog synchronisation.** A comparison of lists in one transaction, in a
  file that holds two versions of an unfinished merge.
* **Migrations, scheduler, shutdown.** A fixed order of transactions before the
  server starts; timers whose guards are modelled where they guard; a shutdown is
  a crash in every model.
* **Ranking of models, semantic cache.** Arithmetic over scores and vectors.
* **Login and one-time codes, worker credentials, attestation, request log,
  memory and evidence, adapters, user interfaces.** Single synchronous handlers,
  text, hashes or wire formats.

Hazards that no property covers have a note in `PROJECT.json`.

## 11. What could come next

`Cooldowns` with failures of the database, where memory alone decides and the two
copies may part; `KeyQuota` with its fallback windows for the same case and a cap
that the operator lowers; `FallbackLoop` composed with `Cooldowns`, so that the
routes the router skips are the benched ones.
