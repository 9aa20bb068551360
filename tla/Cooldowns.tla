----------------------------- MODULE Cooldowns -----------------------------
(***************************************************************************)
(* The benches of one platform's routes: the rows of rate_limit_cooldowns, *)
(* the copy ratelimit.ts keeps of them in memory, the failures that write  *)
(* both, and the pass of cooldown-probe.ts that may lift a bench early.  A *)
(* route is a model reached with a key.  An attempt is a request in flight *)
(* on a route: its start and its end are two actions, and so are the start *)
(* of a probe pass and the answer to each of its probes.                   *)
(*                                                                         *)
(* A row keeps expires_at_ms - now (left) and the length of the bench      *)
(* (total) in ticks; left = 0 is the moment of expiry, which still counts  *)
(* as benched, and left stops at -1, when the row is stale.  The in-memory *)
(* copy keeps left only, -1 standing for an absent or stale entry.         *)
(***************************************************************************)
EXTENDS Integers, FiniteSets

CONSTANTS
  Routes,          \* (model, key) pairs of one platform
  Keys,
  Models,
  Attempts,        \* ids of requests in flight
  None,            \* an attempt that is not in flight
  KeyOf,           \* the key of a route
  ModelOf,         \* the model of a route
  Unlimited,       \* routes whose provider publishes no daily limit
  Longest,         \* bound on the times a provider states
  Day,             \* DAY
  Ceiling,         \* routing_cooldown_ceiling_ms, Day when unset
  Transient,       \* TRANSIENT_COOLDOWN_MS
  Ladder,          \* COOLDOWN_DURATIONS
  GuessCap,        \* UNKNOWN_LIMIT_MAX_COOLDOWN_MS
  AuthBench,       \* AUTH_FAILURE_COOLDOWN_MS
  TruncationBench, \* TRUNCATION_BENCH_MS
  ModelBench,      \* MODEL_FAILURE_COOLDOWN_MS
  ModelThreshold,  \* MODEL_FAILURE_THRESHOLD
  MinRemaining,    \* MIN_REMAINING_MS
  ProbeBase,       \* PROBE_BACKOFF_BASE_MS
  ProbeMax,        \* PROBE_BACKOFF_MAX_MS
  Stagger,         \* FIRST_PROBE_STAGGER_MS
  MaxProbes        \* probe budget of a pass

ASSUME CooldownAssumption ==
  /\ KeyOf \in [Routes -> Keys]
  /\ ModelOf \in [Routes -> Models]
  /\ None \notin Routes
  /\ Longest \in Nat \ {0}
  /\ {Day, Ceiling, Transient, GuessCap, AuthBench, TruncationBench,
      ModelBench} \subseteq 1 .. Longest
  /\ Ladder \subseteq 1 .. Longest
  /\ ModelThreshold \in Nat \ {0}
  /\ MinRemaining \in Nat \ {0}
  /\ ProbeBase \in Nat \ {0}
  /\ ProbeMax \in Nat \ {0}
  /\ ProbeBase <= ProbeMax
  /\ Stagger \in Nat
  /\ MaxProbes \in Nat \ {0}

VARIABLES
  row,       \* the row of each route in rate_limit_cooldowns
  memory,    \* cooldowns: what is left of each bench, as memory knows it
  failures,  \* failures in the sliding window of each model
  attempt,   \* the route of each request in flight
  pace,      \* keyState: pacing of the probes of each key
  found,     \* benches the running pass found ripe, of the keys it probes
  age        \* ticks since the running pass began

vars == <<row, memory, failures, attempt, pace, found, age>>
benches == <<row, memory>>
probing == <<pace, found, age>>

Least(a, b) == IF a <= b THEN a ELSE b
Most(a, b) == IF a <= b THEN b ELSE a

Sources == {"heuristic", "authoritative", "credit", "tier"}

Benches == [source : Sources \cup {"none"}, left : -1 .. Longest,
            total : 0 .. Longest]
NoBench == [source |-> "none", left |-> -1, total |-> 0]
Fresh(source, ticks) == [source |-> source, left |-> ticks, total |-> ticks]

Unknown == [known |-> FALSE, backoff |-> 0, wait |-> 0]

Init ==
  /\ row = [r \in Routes |-> NoBench]
  /\ memory = [r \in Routes |-> -1]
  /\ failures = [m \in Models |-> 0]
  /\ attempt = [a \in Attempts |-> None]
  /\ pace = [k \in Keys |-> Unknown]
  /\ found = [k \in Keys |-> {}]
  /\ age = 0

-----------------------------------------------------------------------------
(* isOnCooldown(): the row decides; without one, memory does. *)
OnCooldown(r) ==
  IF row[r] # NoBench THEN row[r].left >= 0 ELSE memory[r] >= 0

(* The router passes a benched route over, and memory learns of the row. *)
Skip(r) ==
  /\ OnCooldown(r)
  /\ memory' = [memory EXCEPT ![r] = IF row[r] # NoBench THEN row[r].left ELSE @]
  /\ UNCHANGED <<row, failures, attempt, probing>>

(* The router takes a route that is not benched; what a stale bench left   *)
(* behind goes.                                                            *)
Start(a, r) ==
  /\ attempt[a] = None
  /\ ~OnCooldown(r)
  /\ attempt' = [attempt EXCEPT ![a] = r]
  /\ row' = [row EXCEPT ![r] = NoBench]
  /\ memory' = [memory EXCEPT ![r] = -1]
  /\ UNCHANGED <<failures, probing>>

-----------------------------------------------------------------------------
(* capCooldownMs(). *)
Capped(ticks) == Least(ticks, Ceiling)

(* What getNextCooldownDuration() returns: a step of the ladder, which one *)
(* depending on the hits of the last day.                                  *)
Steps == {Capped(d) : d \in Ladder}

(* Mutant: the guess of an unpublished limit climbs the whole ladder, and  *)
(* the operator's ceiling is forgotten.                                    *)
BugGuesses(r, kind) == {Transient} \cup Ladder

(* The base of getCooldownDecisionForLimit(): the transient bench, or a    *)
(* step of the ladder when the usage counters, left open here, show a      *)
(* spent day; without published limits, when rate limits repeat.           *)
Guesses(r, kind) ==
  {Transient} \cup
  IF r \notin Unlimited THEN Steps
  ELSE IF kind = "limit" THEN {Least(d, GuessCap) : d \in Steps}
  ELSE {}

(* A provider's Retry-After counts when it is longer than the guess. *)
LimitBenches(r, kind) ==
  UNION {{Fresh("heuristic", d)}
           \cup {Fresh("authoritative", e) : e \in d + 1 .. Day} :
         d \in Guesses(r, kind)}

(* cooldownDecisionForError(), by the kind of the failure; a truncated     *)
(* stream may also end a streak of them, which the code counts per route.  *)
Decisions(r, kind) ==
  CASE kind = "payment" -> {Fresh("credit", Capped(Day))}
    [] kind = "forbidden" -> {Fresh("tier", Capped(Day))}
    [] kind = "daily" -> {Fresh("authoritative", d) : d \in 1 .. Longest}
    [] kind = "truncated" ->
         LimitBenches(r, kind) \cup {Fresh("heuristic", TruncationBench)}
    [] OTHER -> LimitBenches(r, kind)

Kinds == {"payment", "forbidden", "daily", "limit", "outage", "truncated"}

(* setCooldown() for every route of a set. *)
Benched(rows, routes, bench) ==
  [r \in Routes |-> IF r \in routes THEN bench ELSE rows[r]]

(* Mutant: benches every key of the model, whatever it is waiting for. *)
BugModelTargets(m, rows) == {s \in Routes : ModelOf[s] = m}

(* The routes noteModelFailure() benches: those of the model that are not  *)
(* benched for longer already.                                             *)
ModelTargets(m, rows) ==
  {s \in Routes : ModelOf[s] = m /\ rows[s].left < ModelBench}

(* benchKeyAcrossPlatform(): a payment, or a suspended account, is a fact  *)
(* about the key, whichever of its models was tried.                       *)
OwnTargets(r, kind) ==
  IF kind = "payment" THEN {s \in Routes : KeyOf[s] = KeyOf[r]} ELSE {r}

(* recordRetryableFailure() on the path that benches: the route or every   *)
(* route of its key; at the end of a streak every key of the model.  The   *)
(* window holds `kept' of the earlier failures.  An in-band error that     *)
(* comes late, whatever its kind, benches the route once more, after all   *)
(* the rest.                                                               *)
RetryableFailure(a, kind, kept, late) ==
  LET r == attempt[a]
      m == ModelOf[r]
      own == OwnTargets(r, kind)
      streak == kept + 1 >= ModelThreshold
  IN /\ r # None
     /\ kept \in 0 .. failures[m]
     /\ \E bench \in Decisions(r, kind) :
          LET first == Benched(row, own, bench)
              sick == IF streak THEN ModelTargets(m, first) ELSE {}
              second == Benched(first, sick, Fresh("heuristic", ModelBench))
          IN /\ row' = IF late
                         THEN Benched(second, {r},
                                      Fresh("heuristic", TruncationBench))
                         ELSE second
             /\ memory' = [s \in Routes |-> IF s \in own \cup sick
                                              THEN row'[s].left ELSE memory[s]]
     /\ failures' = [failures EXCEPT ![m] = IF streak THEN 0 ELSE kept + 1]
     /\ attempt' = [attempt EXCEPT ![a] = None]
     /\ UNCHANGED probing

(* recordAuthFailure(). *)
AuthFailure(a) ==
  LET r == attempt[a]
  IN /\ r # None
     /\ row' = [row EXCEPT ![r] = Fresh("heuristic", AuthBench)]
     /\ memory' = [memory EXCEPT ![r] = AuthBench]
     /\ attempt' = [attempt EXCEPT ![a] = None]
     /\ UNCHANGED <<failures, probing>>

(* A failure that benches nothing: a request too large for the model, an   *)
(* output ceiling, an exempted answer, a caller that hung up.  In-band and *)
(* late, even such an error benches its route.                             *)
Spared(a, late) ==
  LET r == attempt[a]
  IN /\ r # None
     /\ IF late
          THEN /\ row' = [row EXCEPT ![r] = Fresh("heuristic", TruncationBench)]
               /\ memory' = [memory EXCEPT ![r] = TruncationBench]
          ELSE UNCHANGED benches
     /\ attempt' = [attempt EXCEPT ![a] = None]
     /\ UNCHANGED <<failures, probing>>

(* recordUpstreamSuccess(). *)
Success(a) ==
  /\ attempt[a] # None
  /\ failures' = [failures EXCEPT ![ModelOf[attempt[a]]] = 0]
  /\ attempt' = [attempt EXCEPT ![a] = None]
  /\ UNCHANGED <<benches, probing>>

-----------------------------------------------------------------------------
(* clearCooldownsForKey(), the operator's reset of one key. *)
ClearKey(k) ==
  /\ row' = [r \in Routes |-> IF KeyOf[r] = k THEN NoBench ELSE row[r]]
  /\ memory' = [r \in Routes |-> IF KeyOf[r] = k THEN -1 ELSE memory[r]]
  /\ UNCHANGED <<failures, attempt, probing>>

(* clearRouterPressure(): every bench and every streak. *)
ClearAll ==
  /\ row' = [r \in Routes |-> NoBench]
  /\ memory' = [r \in Routes |-> -1]
  /\ failures' = [m \in Models |-> 0]
  /\ UNCHANGED <<attempt, probing>>

(* Mutant: the boot empties the table. *)
BugRestart ==
  /\ row' = [r \in Routes |-> NoBench]
  /\ memory' = [r \in Routes |-> -1]
  /\ failures' = [m \in Models |-> 0]
  /\ attempt' = [a \in Attempts |-> None]
  /\ pace' = [k \in Keys |-> Unknown]
  /\ found' = [k \in Keys |-> {}]
  /\ age' = 0

(* The server stops at any moment; at boot cleanupExpiredCooldowns() takes *)
(* the expired rows away, and nothing else survives but the rows.          *)
Restart ==
  /\ row' = [r \in Routes |-> IF row[r].left <= 0 THEN NoBench ELSE row[r]]
  /\ memory' = [r \in Routes |-> -1]
  /\ failures' = [m \in Models |-> 0]
  /\ attempt' = [a \in Attempts |-> None]
  /\ pace' = [k \in Keys |-> Unknown]
  /\ found' = [k \in Keys |-> {}]
  /\ age' = 0

-----------------------------------------------------------------------------
(* getProbeableCooldowns(). *)
Probeable == {r \in Routes : row[r].source = "heuristic" /\ row[r].left > 0}

(* isRipe(). *)
Ripe(r) == row[r].left >= MinRemaining /\ 2 * row[r].left <= row[r].total

RipeOf(k) == {r \in Probeable : KeyOf[r] = k /\ Ripe(r)}

(* Keys without a probeable bench lose their pacing. *)
Kept(k) ==
  IF \E r \in Probeable : KeyOf[r] = k THEN pace[k] ELSE Unknown

RipeKeys == {k \in Keys : RipeOf(k) # {}}
Due == {k \in RipeKeys : Kept(k).known /\ Kept(k).wait = 0}
Unsighted == {k \in RipeKeys : ~Kept(k).known}

(* passInFlight: the guard that keeps passes apart. *)
NoPassInFlight == \A k \in Keys : found[k] = {}

(* runCooldownProbePass() up to its probes: of the keys with a ripe bench, the due are probed up to   *)
(* the budget and the unsighted are scheduled, all of them unless the      *)
(* budget ends the loop first.                                             *)
PassBegins ==
  /\ NoPassInFlight
  /\ \E probed \in SUBSET Due, sighted \in SUBSET Unsighted :
       /\ IF Cardinality(Due) < MaxProbes
            THEN probed = Due /\ sighted = Unsighted
            ELSE Cardinality(probed) = MaxProbes
       /\ \E jitter \in [Keys -> 0 .. Stagger] :
            pace' = [k \in Keys |->
                       IF k \in sighted
                         THEN [known |-> TRUE, backoff |-> 0, wait |-> jitter[k]]
                         ELSE Kept(k)]
       /\ found' = [k \in Keys |-> IF k \in probed THEN RipeOf(k) ELSE {}]
  /\ age' = 0
  /\ UNCHANGED <<benches, failures, attempt>>

(* Mutant: the row goes, its copy in memory stays. *)
BugEarly(r, k, there, gone) == there

(* clearCooldownEarly() on the routes a pass found for a key. *)
Early(r, k, there, gone) == IF r \in found[k] THEN gone ELSE there

(* Mutant: the delay doubles without end. *)
BugBackoff(last) == IF last = 0 THEN ProbeBase ELSE 2 * last

(* The delay after a failed probe: doubled each time, up to a limit. *)
Backoff(last) == IF last = 0 THEN ProbeBase ELSE Least(2 * last, ProbeMax)

(* The answer to the probe of a key: a valid key loses the benches that    *)
(* were found; any other answer only puts the next probe off.              *)
ProbeAnswers(k, valid) ==
  LET backoff == Backoff(pace[k].backoff)
  IN /\ found[k] # {}
     /\ IF valid
          THEN /\ row' = [r \in Routes |->
                            IF r \in found[k] THEN NoBench ELSE row[r]]
               /\ memory' = [r \in Routes |-> Early(r, k, memory[r], -1)]
               /\ pace' = [pace EXCEPT ![k] = Unknown]
          ELSE /\ UNCHANGED benches
               /\ pace' = [pace EXCEPT ![k] =
                             [known |-> TRUE, backoff |-> backoff,
                              wait |-> Most(0, backoff - age)]]
     /\ found' = [found EXCEPT ![k] = {}]
     /\ UNCHANGED <<failures, attempt, age>>

-----------------------------------------------------------------------------
(* A tick of time. *)
Tick ==
  /\ row' = [r \in Routes |-> [row[r] EXCEPT !.left = Most(-1, @ - 1)]]
  /\ memory' = [r \in Routes |-> Most(-1, memory[r] - 1)]
  /\ pace' = [k \in Keys |-> [pace[k] EXCEPT !.wait = Most(0, @ - 1)]]
  /\ age' = IF NoPassInFlight THEN 0 ELSE Least(age + 1, ProbeMax)
  /\ UNCHANGED <<failures, attempt, found>>

Operator == ClearAll \/ \E k \in Keys : ClearKey(k)

Next ==
  \/ \E r \in Routes : Skip(r)
  \/ \E a \in Attempts, r \in Routes : Start(a, r)
  \/ \E a \in Attempts, kind \in Kinds, kept \in 0 .. ModelThreshold,
        late \in BOOLEAN : RetryableFailure(a, kind, kept, late)
  \/ \E a \in Attempts, late \in BOOLEAN : Spared(a, late)
  \/ \E a \in Attempts : AuthFailure(a) \/ Success(a)
  \/ Operator
  \/ Restart
  \/ PassBegins
  \/ \E k \in Keys, valid \in BOOLEAN : ProbeAnswers(k, valid)
  \/ Tick

Spec == Init /\ [][Next]_vars

-----------------------------------------------------------------------------
(* Every row, pace and pass is one the code can hold. *)
TypeOK ==
  /\ row \in [Routes -> Benches]
  /\ memory \in [Routes -> -1 .. Longest]
  /\ failures \in [Models -> 0 .. ModelThreshold - 1]
  /\ attempt \in [Attempts -> Routes \cup {None}]
  /\ pace \in [Keys -> [known : BOOLEAN, backoff : 0 .. ProbeMax,
                        wait : 0 .. Most(ProbeMax, Stagger)]]
  /\ found \in [Keys -> SUBSET Routes]
  /\ age \in 0 .. ProbeMax

(* Memory never knows of a bench the table does not hold: an entry without *)
(* its row would keep a route out with nothing on the dashboard to show    *)
(* for it, and no query of the probe would ever find it.                   *)
MemoryFollowsDisk ==
  \A r \in Routes : memory[r] >= 0 => memory[r] = row[r].left

(* The request of some attempt on r's key ends at this step. *)
RequestOfItsKeyFails(r) ==
  \E a \in Attempts :
    attempt[a] # None /\ attempt'[a] = None /\ KeyOf[attempt[a]] = KeyOf[r]

(* A bench is served.  Until it expires it is cut short by time, tick for  *)
(* tick, by the operator, by the end of a probe of its key that had found  *)
(* it, or by a failure of its key, which puts another bench in its place.  *)
(* No request that starts, no failure of a neighbour, no pass and no boot  *)
(* loses one: the cooldowns persist on purpose (index.ts), while the copy  *)
(* in memory starts empty.                                                 *)
BenchesAreServed ==
  [][\A r \in Routes :
       row[r].left > 0 /\ row'[r].left < row[r].left =>
         \/ Tick /\ row'[r].left = row[r].left - 1
         \/ Operator
         \/ r \in found[KeyOf[r]] /\ found'[KeyOf[r]] = {}
         \/ RequestOfItsKeyFails(r) /\ row'[r].left > 0]_vars

(* The longest bench the server itself may think of for a route: the fixed *)
(* benches apart, no guess outlasts the operator's ceiling, nor, where no  *)
(* daily limit is published, the cap on guessed exhaustion.                *)
LongestGuess(r) ==
  Most(Most(Transient, AuthBench),
       Most(Most(TruncationBench, ModelBench),
            IF r \in Unlimited THEN Least(GuessCap, Ceiling) ELSE Ceiling))

(* Whatever sequence of failures benched a route, only a provider's own    *)
(* time may keep it out for longer than the server may guess.              *)
GuessesStayShort ==
  \A r \in Routes :
    /\ row[r].source = "heuristic" => row[r].total <= LongestGuess(r)
    /\ row[r].source \in {"credit", "tier"} => row[r].total <= Ceiling

(* The failure of a request makes no route of another key come back        *)
(* sooner: a bench of a whole model never cuts a longer one short.         *)
NeighboursKeepTheirBench ==
  [][\A a \in Attempts, r \in Routes :
       /\ attempt[a] # None
       /\ attempt'[a] = None
       /\ KeyOf[r] # KeyOf[attempt[a]]
       /\ row[r].left > 0
       => row'[r].left >= row[r].left \/ Restart]_vars

-----------------------------------------------------------------------------
(* "the only ones probe-based early recovery may touch" (ratelimit.ts      *)
(* 1396): the end of a probe leaves a bench alone that is not a guess.     *)
ProbeTouchesGuessesOnly ==
  [][\A k \in Keys, r \in Routes :
       /\ found[k] # {}
       /\ found'[k] = {}
       /\ row[r].source \notin {"none", "heuristic"}
       /\ row[r].left > 0
       => row'[r] = row[r]]_vars

(* "Provider-stated retry times ... are never shortened" (the chapter on   *)
(* quotas and cooldowns): until it expires, only the operator cuts it.     *)
ProviderTimesAreKept ==
  [][\A r \in Routes :
       row[r].source = "authoritative" /\ row[r].left > 0 =>
         \/ row'[r].left >= row[r].left
         \/ Tick
         \/ Operator]_vars
=============================================================================
