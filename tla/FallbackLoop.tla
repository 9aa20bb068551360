---------------------------- MODULE FallbackLoop ----------------------------
(***************************************************************************)
(* Chat requests going through runFallbackLoop() side by side: each takes  *)
(* a route and its quota, sends an attempt, and on a failure goes on to    *)
(* the next route until one answers or the loop gives up.  Between the end *)
(* of an attempt and the start of the next the loop never waits, so that   *)
(* is one step; while an attempt waits for its provider anything may       *)
(* happen: another request moves, the client hangs up, the timer of the    *)
(* time budget fires, the clock ticks, the process restarts.               *)
(*                                                                         *)
(* The dispatch of routes/proxy.ts commits to an attempt when it flushes   *)
(* the headers: from there the attempt is streaming and no longer fails    *)
(* over.  fallback-loop.ts holds both sides of an unfinished merge; the    *)
(* upstream side is modelled, which asks the budget of the chosen route    *)
(* after routing.  Which routes the router finds benched, unhealthy or     *)
(* too small is left open: it may always find none.                        *)
(***************************************************************************)
EXTENDS KeyQuota

CONSTANTS
  ModelOf, PlatformOf,  \* of a route
  MaxRetries,           \* hooks.maxRetries
  BudgetOf,             \* getEndpointTimeBudgetMs() of a route, 0 for none
  BreakerLimit,         \* newBreaker(): failures that stop the loop, 0 for none
  MaxElapsed            \* bound: from here a request's clock stands still

ASSUME LoopAssumption ==
  /\ DOMAIN ModelOf = Routes
  /\ DOMAIN PlatformOf = Routes
  /\ MaxRetries \in Nat \ {0}
  /\ BudgetOf \in [Routes -> Nat]
  /\ BreakerLimit \in Nat
  /\ MaxElapsed \in Nat
  /\ \A r \in Routes : BudgetOf[r] < MaxElapsed

VARIABLE
  req    \* the loop of each request

vars == <<quota, req>>

Phases == {"new", "waiting", "streaming", "delivered", "over"}

(* n is the loop's attempt, fails its breaker, skip the routes its skip    *)
(* sets rule out, spell the ticks since the dispatch and elapsed those     *)
(* since the loop began; answers counts what was rendered to the client.   *)
Loops == [phase : Phases, n : 0 .. MaxRetries - 1, fails : Nat,
          skip : SUBSET Routes, route : Routes \cup {None},
          spell : 0 .. LeaseAge + 1, elapsed : 0 .. MaxElapsed,
          timer : BOOLEAN, aborted : BOOLEAN, gone : BOOLEAN, answers : Nat]

Arrived == [phase |-> "new", n |-> 0, fails |-> 0, skip |-> {}, route |-> None,
            spell |-> 0, elapsed |-> 0, timer |-> FALSE, aborted |-> FALSE,
            gone |-> FALSE, answers |-> 0]

Init == QuotaInit /\ req = [q \in Requests |-> Arrived]

Sent(q) == req[q].phase \in {"waiting", "streaming", "delivered"}
Running(q) == req[q].phase \in {"waiting", "streaming"}

-----------------------------------------------------------------------------
(* The loop returns, having rendered an answer or not: the finally block   *)
(* clears the timer and releases the route.                                *)
Stopped(l, rendered) ==
  [Arrived EXCEPT !.phase = "over", !.gone = l.gone,
                  !.answers = IF rendered THEN l.answers + 1 ELSE l.answers]
End(q, rendered) ==
  /\ req' = [req EXCEPT ![q] = Stopped(@, rendered)]
  /\ Give(q)

(* The budget counts from the third attempt on. *)
OutOfTime(q, n, r) == n > 1 /\ BudgetOf[r] # 0 /\ req[q].elapsed >= BudgetOf[r]

(* Mutant: the return that finds the budget spent leaves the route taken.  *)
BugTooLate(q, r) == req' = [req EXCEPT ![q] = Stopped(@, TRUE)] /\ Take(q, r)

(* A route was found and taken, and its budget turns out to be spent: it   *)
(* is released again on the way out.                                       *)
TooLate(q, r) == End(q, TRUE)

(* Mutant: the timer is set for the attempt after the one that needs it.   *)
BugArmed(n, r) == n > 2 /\ BudgetOf[r] # 0

(* The hedge timer guards every attempt whose start the budget could have  *)
(* refused.                                                                *)
Armed(n, r) == n > 1 /\ BudgetOf[r] # 0

Dispatch(q, n, fails, skip, r) ==
  /\ Take(q, r)
  /\ req' = [req EXCEPT ![q] =
              [@ EXCEPT !.phase = "waiting", !.n = n, !.fails = fails,
                        !.skip = skip, !.route = r, !.spell = 0,
                        !.timer = Armed(n, r)]]

(* hooks.route(): a route no skip set rules out that passes every gate.    *)
Route(q, n, fails, skip) ==
  \E r \in Routes \ skip :
    /\ KeyHasRoom(q, r)
    /\ MetersAdmit(q, r)
    /\ BudgetAllows(q, r)
    /\ \/ OutOfTime(q, n, r) /\ TooLate(q, r)
       \/ ~OutOfTime(q, n, r) /\ Dispatch(q, n, fails, skip, r)

(* The top of the loop, attempt n. *)
NextAttempt(q, n, fails, skip) ==
  \/ n = MaxRetries /\ End(q, TRUE)
  \/ n < MaxRetries /\ n > 0 /\ req[q].gone /\ End(q, FALSE)
  \/ /\ n < MaxRetries
     /\ n = 0 \/ ~req[q].gone
     /\ Route(q, n, fails, skip) \/ End(q, TRUE)

Start(q) ==
  /\ req[q].phase = "new"
  /\ NextAttempt(q, 0, 0, {})

-----------------------------------------------------------------------------
(* What a failure rules out for the rest of the request: recordAuthFailure *)
(* and a failure of the key its route; an answer any key of the model      *)
(* would give its model; a sick provider or a suspended account its        *)
(* platform; and nothing, when the failure taught the output ceiling the   *)
(* next attempt will keep to.                                              *)
Reaches == {"nothing", "route", "model", "platform"}
RuledOut(r, reach) ==
  CASE reach = "nothing" -> {}
    [] reach = "route" -> {r}
    [] reach = "model" -> {s \in Routes : ModelOf[s] = ModelOf[r]}
    [] OTHER -> {s \in Routes : PlatformOf[s] = PlatformOf[r]}

Tripped(fails) == BreakerLimit # 0 /\ fails >= BreakerLimit

(* recordBreakerFailure(): an exempt failure says nothing of the           *)
(* provider's health, and without a limit nothing is counted.              *)
Failures(l, exempt) ==
  IF exempt \/ BreakerLimit = 0 THEN l.fails ELSE l.fails + 1

(* Mutant: a route that has just learned its ceiling is tried again as the *)
(* same attempt.                                                           *)
BugFollowing(n, reach) == IF reach = "nothing" THEN n ELSE n + 1

(* The attempt after n: every failure uses one up, whatever it rules out.  *)
Following(n, reach) == n + 1

(* The attempt throws an error the loop may go on from. *)
Fails(q, reach, exempt) ==
  LET l == req[q]
      fails == Failures(l, exempt)
  IN /\ l.phase = "waiting"
     /\ exempt => reach \in {"route", "model"}
     /\ IF ~exempt /\ Tripped(fails)
        THEN End(q, ~l.gone)
        ELSE NextAttempt(q, Following(l.n, reach), fails,
                         l.skip \cup RuledOut(l.route, reach))

(* onFatal(): an error no other route would answer differently, or a       *)
(* dispatch that broke its contract.                                       *)
Fatal(q) == req[q].phase = "waiting" /\ End(q, TRUE)

(* The first byte: the headers are flushed and the hedge is disarmed. *)
FirstByte(q) ==
  /\ req[q].phase = "waiting"
  /\ ~req[q].gone
  /\ req' = [req EXCEPT ![q] =
              [@ EXCEPT !.phase = "streaming", !.timer = FALSE,
                        !.answers = req[q].answers + 1]]
  /\ UNCHANGED quota

(* The answer is complete: recordUpstreamSuccess() and the log row, in one *)
(* step with the rendering of an answer that was not streamed.  A client   *)
(* that left in mid-stream is served to the end.                           *)
Delivers(q) ==
  /\ Running(q)
  /\ req' = [req EXCEPT ![q] =
              [@ EXCEPT !.phase = "delivered",
                        !.answers = IF req[q].phase = "waiting"
                                    THEN req[q].answers + 1 ELSE req[q].answers]]
  /\ Settle(q, req[q].route)

(* Mutant: an error after the first byte fails over like one before it.    *)
BugBreaksOff(q) ==
  /\ req[q].phase = "streaming"
  /\ NextAttempt(q, req[q].n + 1, req[q].fails + 1, req[q].skip \cup {req[q].route})

(* An error after the first byte: the stream is ended, 'committed'.        *)
BreaksOff(q) == req[q].phase = "streaming" /\ End(q, FALSE)

(* The attempt ends because the client has hung up. *)
Canceled(q) == Running(q) /\ req[q].gone /\ End(q, FALSE)

(* The hedge timer fires and aborts the attempt, which throws in time. *)
HedgeFires(q) ==
  /\ req[q].timer
  /\ req[q].elapsed >= BudgetOf[req[q].route]
  /\ req' = [req EXCEPT ![q] = [@ EXCEPT !.timer = FALSE, !.aborted = TRUE]]
  /\ UNCHANGED quota
HedgeEnds(q) ==
  /\ req[q].phase = "waiting"
  /\ req[q].aborted
  /\ End(q, TRUE)

(* The loop returns after its answer. *)
Finish(q) == req[q].phase = "delivered" /\ End(q, FALSE)

HangUp(q) ==
  /\ Running(q)
  /\ ~req[q].gone
  /\ req' = [req EXCEPT ![q].gone = TRUE]
  /\ UNCHANGED quota

-----------------------------------------------------------------------------
Aged(l) ==
  IF l.phase \in {"waiting", "streaming", "delivered"}
  THEN [l EXCEPT !.spell = IF @ > LeaseAge THEN @ ELSE @ + 1,
                 !.elapsed = IF @ = MaxElapsed THEN @ ELSE @ + 1]
  ELSE l

(* A timer that is due fires before the clock moves on. *)
Tick ==
  /\ \A q \in Requests : req[q].timer => req[q].elapsed < BudgetOf[req[q].route]
  /\ req' = [q \in Requests |-> Aged(req[q])]
  /\ PassTime

NewDay(newMonth) == Midnight(newMonth) /\ UNCHANGED req

Restart ==
  /\ req' = [q \in Requests |->
              IF Sent(q) THEN [Stopped(req[q], FALSE) EXCEPT !.gone = TRUE] ELSE req[q]]
  /\ Forget

Attempt(q) ==
  \/ \E reach \in Reaches, exempt \in BOOLEAN : Fails(q, reach, exempt)
  \/ Fatal(q)
  \/ Delivers(q)
  \/ BreaksOff(q)
  \/ Canceled(q)
  \/ HedgeEnds(q)

Next ==
  \/ \E q \in Requests :
       \/ Start(q)
       \/ Attempt(q)
       \/ FirstByte(q)
       \/ HedgeFires(q)
       \/ Finish(q)
       \/ HangUp(q)
  \/ Tick
  \/ \E newMonth \in BOOLEAN : NewDay(newMonth)
  \/ Restart

Spec == Init /\ [][Next]_vars

(* Every attempt ends: the providers' timeouts bound the wait for a first  *)
(* byte and the silence within a stream, and the loop goes on by itself.   *)
Fairness == \A q \in Requests : WF_vars(Attempt(q)) /\ WF_vars(Finish(q))

-----------------------------------------------------------------------------
LoopTypeOK == req \in [Requests -> Loops]
TypeOK == QuotaTypeOK /\ LoopTypeOK

(* What the loop holds is what its attempt needs.  In particular whichever *)
(* way a request ends -- no route, a spent budget, a tripped breaker, a    *)
(* fatal error, a client that left -- it leaves no lease, reservation or   *)
(* timer behind.  And only an answer that was delivered is charged.        *)
HeldByAttempt(q) ==
  /\ reserved[q] = IF Sent(q) THEN KeyOf[req[q].route] ELSE None
  /\ Leased(q) => Sent(q) /\ lease[q].route = req[q].route
  /\ req[q].timer => req[q].phase \in {"waiting", "delivered"}
  /\ row[q] # NoRow \/ spent[q] # None => req[q].phase \in {"delivered", "over"}
NothingLeaks == \A q \in Requests : HeldByAttempt(q)

(* No key carries more attempts at once than it may, counting the attempts *)
(* younger than the age at which leases are pruned: older ones are no      *)
(* longer counted by the code.                                             *)
Young(k) == {q \in Requests :
  Sent(q) /\ KeyOf[req[q].route] = k /\ req[q].spell <= LeaseAge}
KeyConcurrency ==
  \A k \in Keys : Concurrency[k] # 0 => Cardinality(Young(k)) <= Concurrency[k]

(* A client gets one answer: never a second one after a first byte or an   *)
(* error was sent, and never none while it is still there.                 *)
OneAnswer ==
  \A q \in Requests :
    /\ req[q].answers <= 1
    /\ req[q].phase = "over" /\ ~req[q].gone => req[q].answers = 1

(* From the third attempt on a silent provider is waited for no longer     *)
(* than the budget of its route allows.                                    *)
SilenceIsBounded ==
  \A q \in Requests :
    LET r == req[q].route IN
    req[q].phase = "waiting" /\ req[q].n > 1 /\ BudgetOf[r] # 0 /\ ~req[q].aborted
      => req[q].timer /\ req[q].elapsed <= BudgetOf[r]

(* Every request that was sent is over at some time, whatever its attempts *)
(* do.                                                                     *)
EveryRequestEnds == \A q \in Requests : Sent(q) ~> req[q].phase = "over"
=============================================================================
