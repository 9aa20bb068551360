------------------------------ MODULE KeyQuota ------------------------------
(***************************************************************************)
(* What a request may take of a provider key, and how it is accounted: the *)
(* in-flight leases and the windows of ratelimit.ts, the reservations and  *)
(* the monthly ledger of key-budget.ts, and the one synchronous step of    *)
(* router.ts that asks all of them and takes.  A request counts once       *)
(* against each meter: as its lease while it is in flight, as its row of   *)
(* rate_limit_usage afterwards.  A lease lives in memory and is pruned     *)
(* when it is old, though its request may still run; a reservation stays   *)
(* until its route is released.  Rows and the ledger survive a restart.    *)
(*                                                                         *)
(* A meter is one limit on requests: rpm or rpd of one route, the minute   *)
(* or the daily cap of a provider account.  Limits on tokens have the same *)
(* shape and are left out.                                                 *)
(***************************************************************************)
EXTENDS Integers, FiniteSets

CONSTANTS
  Requests,     \* places for requests in flight
  Routes,       \* a model reached with a key
  Keys,
  KeyOf,        \* the key of a route
  Meters,
  Scope,        \* the routes a meter counts
  Limit,        \* the requests a meter allows
  Width,        \* the ticks a row counts against a meter
  Daily,        \* meters that start again at midnight
  Concurrency,  \* getKeyConcurrencyLimit(), 0 for none
  MonthlyCap,   \* monthly_request_cap, 0 for none
  LeaseAge,     \* LEASE_MAX_AGE_MS
  Horizon,      \* DAY: a row is pruned at this age
  None

ASSUME QuotaAssumption ==
  /\ IsFiniteSet(Requests)
  /\ KeyOf \in [Routes -> Keys]
  /\ Scope \in [Meters -> SUBSET Routes]
  /\ Limit \in [Meters -> Nat]
  /\ Horizon \in Nat \ {0}
  /\ Width \in [Meters -> 1 .. Horizon]
  /\ Daily \subseteq Meters
  /\ Concurrency \in [Keys -> Nat]
  /\ MonthlyCap \in [Keys -> Nat]
  /\ LeaseAge \in Nat
  /\ None \notin Routes
  /\ None \notin Keys

VARIABLES
  lease,     \* leases: the route and the age of each request's lease
  reserved,  \* activeReservations(): the key each request has reserved
  row,       \* rate_limit_usage: the row of each request that succeeded
  spent      \* key_monthly_usage: the key each success of this month is on

quota == <<lease, reserved, row, spent>>

Leases == [route : Routes \cup {None}, age : 0 .. LeaseAge]
NoLease == [route |-> None, age |-> 0]

(* stray marks the row of a request whose lease was pruned before it ended; *)
(* the code has no such mark, and no action reads it.                       *)
Rows == [route : Routes \cup {None}, age : 0 .. Horizon - 1,
         today : BOOLEAN, stray : BOOLEAN]
NoRow == [route |-> None, age |-> 0, today |-> FALSE, stray |-> FALSE]

QuotaInit ==
  /\ lease = [q \in Requests |-> NoLease]
  /\ reserved = [q \in Requests |-> None]
  /\ row = [q \in Requests |-> NoRow]
  /\ spent = [q \in Requests |-> None]

-----------------------------------------------------------------------------
Leased(q) == lease[q].route # None

(* The requests other than q with a lease on these routes. *)
InFlight(q, routes) == {p \in Requests \ {q} : lease[p].route \in routes}

(* The requests whose row a meter counts now. *)
Counts(m, p) ==
  /\ row[p].route \in Scope[m]
  /\ row[p].age < Width[m]
  /\ m \in Daily => row[p].today
Counted(m) == {p \in Requests : Counts(m, p)}

RoutesOf(k) == {r \in Routes : KeyOf[r] = k}

(* Mutant: the cap counts requests of one route, not of the key. *)
BugKeyHasRoom(q, r) ==
  Concurrency[KeyOf[r]] = 0 \/
  Cardinality(InFlight(q, {r})) < Concurrency[KeyOf[r]]

(* canUseKeyConcurrency() *)
KeyHasRoom(q, r) ==
  Concurrency[KeyOf[r]] = 0 \/
  Cardinality(InFlight(q, RoutesOf(KeyOf[r]))) < Concurrency[KeyOf[r]]

(* Mutant: every window starts again at midnight, the sliding ones too.    *)
BugMetersAdmit(q, r) ==
  \A m \in Meters : r \in Scope[m] =>
    Cardinality({p \in Counted(m) : row[p].today})
      + Cardinality(InFlight(q, Scope[m])) < Limit[m]

(* canMakeRequest(), canUseProvider() and canUseProviderMinute() *)
MetersAdmit(q, r) ==
  \A m \in Meters : r \in Scope[m] =>
    Cardinality(Counted(m)) + Cardinality(InFlight(q, Scope[m])) < Limit[m]

(* Mutant: the reservations of running requests are forgotten. *)
BugBudgetAllows(q, r) ==
  MonthlyCap[KeyOf[r]] = 0 \/
  Cardinality({p \in Requests : spent[p] = KeyOf[r]}) < MonthlyCap[KeyOf[r]]

(* checkMonthlyBudget() *)
BudgetAllows(q, r) ==
  MonthlyCap[KeyOf[r]] = 0 \/
  Cardinality({p \in Requests : spent[p] = KeyOf[r]})
    + Cardinality({p \in Requests \ {q} : reserved[p] = KeyOf[r]})
      < MonthlyCap[KeyOf[r]]

(* selectKeyForModel() returns r: every gate passes, and the reservation   *)
(* and the lease are taken before anything else can run.  What q still     *)
(* held of the route it leaves is given back in the same step.             *)
Take(q, r) ==
  /\ row[q] = NoRow
  /\ spent[q] = None
  /\ KeyHasRoom(q, r)
  /\ MetersAdmit(q, r)
  /\ BudgetAllows(q, r)
  /\ lease' = [lease EXCEPT ![q] = [route |-> r, age |-> 0]]
  /\ reserved' = [reserved EXCEPT ![q] = KeyOf[r]]
  /\ UNCHANGED <<row, spent>>

(* route.release() *)
Give(q) ==
  /\ lease' = [lease EXCEPT ![q] = NoLease]
  /\ reserved' = [reserved EXCEPT ![q] = None]
  /\ UNCHANGED <<row, spent>>

(* recordRequest(), and the row of the request log whose trigger adds to   *)
(* the ledger of the month: one synchronous step, before the release.      *)
Settle(q, r) ==
  /\ reserved[q] = KeyOf[r]
  /\ lease[q].route \in {r, None}
  /\ row[q] = NoRow
  /\ spent[q] = None
  /\ row' = [row EXCEPT ![q] = [route |-> r, age |-> 0, today |-> TRUE,
                                stray |-> ~Leased(q)]]
  /\ spent' = [spent EXCEPT ![q] = KeyOf[r]]
  /\ UNCHANGED <<lease, reserved>>

(* Mutant: leases are never pruned. *)
BugOlder(l) == IF l.route = None THEN NoLease ELSE [l EXCEPT !.age = @ + 1]

(* A tick of the clock: pruneLeases() drops the leases past their age, and *)
(* no window counts a row of the horizon's age any more.                   *)
Older(l) ==
  IF l.route = None \/ l.age = LeaseAge THEN NoLease ELSE [l EXCEPT !.age = @ + 1]
Staler(w) ==
  IF w.route = None \/ w.age = Horizon - 1 THEN NoRow ELSE [w EXCEPT !.age = @ + 1]
PassTime ==
  /\ lease' = [q \in Requests |-> Older(lease[q])]
  /\ row' = [q \in Requests |-> Staler(row[q])]
  /\ UNCHANGED <<reserved, spent>>

(* Midnight UTC, which may also begin a month. *)
Midnight(newMonth) ==
  /\ row' = [q \in Requests |->
              IF row[q].route = None THEN NoRow ELSE [row[q] EXCEPT !.today = FALSE]]
  /\ spent' = IF newMonth THEN [q \in Requests |-> None] ELSE spent
  /\ UNCHANGED <<lease, reserved>>

(* The process stops: what it kept in memory is gone. *)
Forget ==
  /\ lease' = [q \in Requests |-> NoLease]
  /\ reserved' = [q \in Requests |-> None]
  /\ UNCHANGED <<row, spent>>

QuotaNext ==
  \/ \E q \in Requests, r \in Routes : Take(q, r) \/ Settle(q, r)
  \/ \E q \in Requests : Give(q)
  \/ \E newMonth \in BOOLEAN : Midnight(newMonth)
  \/ PassTime
  \/ Forget

QuotaSpec == QuotaInit /\ [][QuotaNext]_quota

-----------------------------------------------------------------------------
QuotaTypeOK ==
  /\ lease \in [Requests -> Leases]
  /\ reserved \in [Requests -> Keys \cup {None}]
  /\ row \in [Requests -> Rows]
  /\ spent \in [Requests -> Keys \cup {None}]

(* A lease never outlives the reservation taken with it, and they are on   *)
(* one key.                                                                *)
LeasesAreReserved ==
  \A q \in Requests : Leased(q) => reserved[q] = KeyOf[lease[q].route]

(* The successes a window counts and the requests in flight never exceed   *)
(* the meter's limit, however many requests were admitted at once and      *)
(* however they end: the check-then-act race the leases are there to       *)
(* close.  Only successes whose lease had been pruned come on top.         *)
Holders(m) ==
  {q \in Requests : (Counts(m, q) /\ ~row[q].stray) \/ lease[q].route \in Scope[m]}
MeterHolds == \A m \in Meters : Cardinality(Holders(m)) <= Limit[m]

(* The requests of a key that succeeded this month and those that may      *)
(* still succeed never exceed its monthly cap, however long they run: a    *)
(* reservation is not pruned, and it is given back after the ledger has    *)
(* the request.                                                            *)
Booked(k) == {q \in Requests : spent[q] = k \/ reserved[q] = k}
MonthlyCapHolds ==
  \A k \in Keys : MonthlyCap[k] # 0 => Cardinality(Booked(k)) <= MonthlyCap[k]

(* A key never has more leases than it may carry requests. *)
LeasesFit ==
  \A k \in Keys : Concurrency[k] # 0 =>
    Cardinality({q \in Requests : lease[q].route \in RoutesOf(k)}) <= Concurrency[k]

QuotaInv ==
  QuotaTypeOK /\ LeasesAreReserved /\ MeterHolds /\ MonthlyCapHolds /\ LeasesFit
=============================================================================
