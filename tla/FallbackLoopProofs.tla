------------------------- MODULE FallbackLoopProofs -------------------------
(***************************************************************************)
(* The safety properties of KeyQuota and of FallbackLoop, which runs over  *)
(* it, for every set of requests, routes and keys, every limit and every   *)
(* budget.                                                                 *)
(*                                                                         *)
(* Sound says of one request how its loop, its lease, its reservation and  *)
(* its accounts fit together; LoopInv says it of all of them, and is kept  *)
(* by every action.  It makes every step of the loop a step of KeyQuota,   *)
(* whose limits therefore hold, and with the lease of every young attempt  *)
(* in place the limit on leases becomes a limit on attempts.               *)
(***************************************************************************)
EXTENDS FallbackLoop, FiniteSetTheorems, TLAPS

-----------------------------------------------------------------------------
(* The limits of KeyQuota.  A gate counts the rows and the leases apart,  *)
(* and counts a request that has both twice; the limits speak of the      *)
(* requests that have either.  The two meet in CoveredBy.  Take adds one  *)
(* request to what the gate counted; no other action adds any: a success  *)
(* moves its request from the leases to the rows, which LeasesAreReserved *)
(* keeps on one key.                                                      *)

(* A set that adds one element at most to two others is no larger than     *)
(* they are together, and one.                                             *)
LEMMA CoveredBy ==
  ASSUME NEW A, NEW B, NEW C, NEW q,
         IsFiniteSet(A), IsFiniteSet(B), C \subseteq A \cup B \cup {q}
  PROVE  /\ Cardinality(C) <= Cardinality(A) + Cardinality(B) + 1
         /\ Cardinality(A) \in Nat
         /\ Cardinality(B) \in Nat
         /\ Cardinality(C) \in Nat
<1> DEFINE D == A \cup B
<1>1. /\ IsFiniteSet(D)
      /\ Cardinality(D) = Cardinality(A) + Cardinality(B) - Cardinality(A \cap B)
  BY FS_Union
<1>2. IsFiniteSet(A \cap B)
  BY FS_Intersection
<1>3. C \subseteq D \cup {q}
  OBVIOUS
<1> HIDE DEF D
<1>4. /\ IsFiniteSet(D \cup {q})
      /\ Cardinality(D \cup {q}) = IF q \in D THEN Cardinality(D) ELSE Cardinality(D) + 1
  BY <1>1, FS_AddElement
<1>5. IsFiniteSet(C) /\ Cardinality(C) <= Cardinality(D \cup {q})
  BY <1>3, <1>4, FS_Subset
<1>6. /\ Cardinality(A) \in Nat
      /\ Cardinality(B) \in Nat
      /\ Cardinality(C) \in Nat
      /\ Cardinality(A \cap B) \in Nat
      /\ Cardinality(D) \in Nat
      /\ Cardinality(D \cup {q}) \in Nat
  BY <1>1, <1>2, <1>4, <1>5, FS_CardinalityType
<1> QED
  BY <1>1, <1>4, <1>5, <1>6

(* A set of requests is finite, and no larger than one that contains it.   *)
LEMMA Fewer ==
  ASSUME NEW A \in SUBSET Requests, NEW B \in SUBSET Requests, A \subseteq B
  PROVE  /\ IsFiniteSet(A)
         /\ Cardinality(A) \in Nat
         /\ Cardinality(B) \in Nat
         /\ Cardinality(A) <= Cardinality(B)
BY QuotaAssumption, FS_Subset, FS_CardinalityType

-----------------------------------------------------------------------------
(* What each action does to one lease and one row.                         *)

LEMMA OlderLease ==
  ASSUME NEW l \in Leases
  PROVE  /\ Older(l) \in Leases
         /\ Older(l).route \in {l.route, None}
BY QuotaAssumption DEF Older, Leases, NoLease

LEMMA StalerRow ==
  ASSUME NEW w \in Rows
  PROVE  /\ Staler(w) \in Rows
         /\ Staler(w).route \in {w.route, None}
         /\ Staler(w).route # None => /\ Staler(w).age = w.age + 1
                                      /\ Staler(w).today = w.today
                                      /\ Staler(w).stray = w.stray
BY QuotaAssumption DEF Staler, Rows, NoRow

LEMMA QuotaTypeStep ==
  ASSUME QuotaTypeOK, [QuotaNext]_quota
  PROVE  QuotaTypeOK'
<1> USE QuotaAssumption
<1>1. ASSUME NEW q \in Requests, NEW r \in Routes, Take(q, r)
      PROVE  QuotaTypeOK'
  <2>1. [route |-> r, age |-> 0] \in Leases
    BY DEF Leases
  <2> QED
    BY <1>1, <2>1 DEF QuotaTypeOK, Take
<1>2. ASSUME NEW q \in Requests, NEW r \in Routes, Settle(q, r)
      PROVE  QuotaTypeOK'
  <2>1. [route |-> r, age |-> 0, today |-> TRUE, stray |-> ~Leased(q)] \in Rows
    BY DEF Rows, Leased
  <2> QED
    BY <1>2, <2>1 DEF QuotaTypeOK, Settle
<1>3. NoLease \in Leases /\ NoRow \in Rows
  BY DEF NoLease, NoRow, Leases, Rows
<1>4. ASSUME NEW q \in Requests, Give(q)
      PROVE  QuotaTypeOK'
  BY <1>3, <1>4 DEF QuotaTypeOK, Give
<1>5. ASSUME NEW newMonth \in BOOLEAN, Midnight(newMonth)
      PROVE  QuotaTypeOK'
  <2>1. \A w \in Rows : [w EXCEPT !.today = FALSE] \in Rows
    BY DEF Rows
  <2> QED
    BY <1>3, <1>5, <2>1 DEF QuotaTypeOK, Midnight
<1>6. PassTime => QuotaTypeOK'
  BY OlderLease, StalerRow DEF QuotaTypeOK, PassTime
<1>7. Forget => QuotaTypeOK'
  BY <1>3 DEF QuotaTypeOK, Forget
<1>8. UNCHANGED quota => QuotaTypeOK'
  BY DEF QuotaTypeOK, quota
<1> QED
  BY <1>1, <1>2, <1>4, <1>5, <1>6, <1>7, <1>8 DEF QuotaNext

-----------------------------------------------------------------------------
(* Taking a route: what the gates counted, and the request itself.         *)

LEMMA TakeKeepsLimits ==
  ASSUME QuotaInv, NEW q \in Requests, NEW r \in Routes, Take(q, r)
  PROVE  LeasesAreReserved' /\ MeterHolds' /\ MonthlyCapHolds' /\ LeasesFit'
<1> USE QuotaAssumption
<1> DEFINE kk == KeyOf[r]
<1>1. /\ \A p \in Requests : p # q => lease'[p] = lease[p] /\ reserved'[p] = reserved[p]
      /\ lease'[q].route = r
      /\ reserved'[q] = kk
      /\ row' = row /\ spent' = spent
      /\ row[q].route = None /\ spent[q] = None
      /\ r # None /\ kk # None
  BY DEF Take, QuotaInv, QuotaTypeOK, NoRow
<1>2. LeasesAreReserved'
  BY <1>1 DEF LeasesAreReserved, Leased, QuotaInv
<1>3. ASSUME NEW m \in Meters
      PROVE  Cardinality(Holders(m)') <= Limit[m]
  <2>1. CASE r \in Scope[m]
    <3>1. Holders(m)' \subseteq Counted(m) \cup InFlight(q, Scope[m]) \cup {q}
      BY <1>1 DEF Holders, Counted, Counts, InFlight
    <3>2. Counted(m) \in SUBSET Requests /\ InFlight(q, Scope[m]) \in SUBSET Requests
      BY DEF Counted, InFlight
    <3>3. Cardinality(Counted(m)) + Cardinality(InFlight(q, Scope[m])) < Limit[m]
      BY <2>1 DEF Take, MetersAdmit
    <3> HIDE DEF kk
    <3>4. IsFiniteSet(Counted(m)) /\ IsFiniteSet(InFlight(q, Scope[m]))
      BY <3>2, Fewer
    <3>5. /\ Cardinality(Holders(m)') <= Cardinality(Counted(m)) + Cardinality(InFlight(q, Scope[m])) + 1
          /\ Cardinality(Counted(m)) \in Nat
          /\ Cardinality(InFlight(q, Scope[m])) \in Nat
          /\ Cardinality(Holders(m)') \in Nat
      BY <3>1, <3>4, CoveredBy
    <3>6. Limit[m] \in Nat
      OBVIOUS
    <3> QED
      BY <3>3, <3>4, <3>5, <3>6
  <2>2. CASE r \notin Scope[m]
    <3>1. Holders(m)' \subseteq Holders(m)
      BY <1>1, <2>2 DEF Holders, Counts
    <3>2. Holders(m) \in SUBSET Requests /\ Holders(m)' \in SUBSET Requests
      BY DEF Holders
    <3>3. Cardinality(Holders(m)) <= Limit[m]
      BY DEF QuotaInv, MeterHolds
    <3> QED
      BY <3>1, <3>2, <3>3, Fewer
  <2> QED
    BY <2>1, <2>2
<1>4. ASSUME NEW k \in Keys, MonthlyCap[k] # 0
      PROVE  Cardinality(Booked(k)') <= MonthlyCap[k]
  <2> DEFINE S == {p \in Requests : spent[p] = k}
             R == {p \in Requests \ {q} : reserved[p] = k}
  <2>1. CASE k = kk
    <3>1. Booked(k)' \subseteq S \cup R \cup {q}
      BY <1>1 DEF Booked
    <3>2. S \in SUBSET Requests /\ R \in SUBSET Requests
      OBVIOUS
    <3>3. Cardinality(S) + Cardinality(R) < MonthlyCap[k]
      BY <1>4, <2>1 DEF Take, BudgetAllows
    <3> HIDE DEF S, R
    <3>4. IsFiniteSet(S) /\ IsFiniteSet(R)
      BY <3>2, Fewer
    <3>5. /\ Cardinality(Booked(k)') <= Cardinality(S) + Cardinality(R) + 1
          /\ Cardinality(S) \in Nat
          /\ Cardinality(R) \in Nat
          /\ Cardinality(Booked(k)') \in Nat
      BY <3>1, <3>4, CoveredBy
    <3>6. MonthlyCap[k] \in Nat
      OBVIOUS
    <3> QED
      BY <3>3, <3>4, <3>5, <3>6
  <2>2. CASE k # kk
    <3>1. Booked(k)' \subseteq Booked(k)
      BY <1>1, <2>2 DEF Booked
    <3>2. Booked(k) \in SUBSET Requests /\ Booked(k)' \in SUBSET Requests
      BY DEF Booked
    <3>3. Cardinality(Booked(k)) <= MonthlyCap[k]
      BY <1>4 DEF QuotaInv, MonthlyCapHolds
    <3> QED
      BY <3>1, <3>2, <3>3, Fewer
  <2> QED
    BY <2>1, <2>2
<1>5. ASSUME NEW k \in Keys, Concurrency[k] # 0
      PROVE  Cardinality({p \in Requests : lease'[p].route \in RoutesOf(k)}) <= Concurrency[k]
  <2> DEFINE L == {p \in Requests : lease[p].route \in RoutesOf(k)}
             M == {p \in Requests : lease'[p].route \in RoutesOf(k)}
  <2>1. CASE k = kk
    <3>1. M \subseteq InFlight(q, RoutesOf(k)) \cup {} \cup {q}
      BY <1>1 DEF InFlight
    <3>2. InFlight(q, RoutesOf(k)) \in SUBSET Requests
      BY DEF InFlight
    <3>3. Cardinality(InFlight(q, RoutesOf(k))) < Concurrency[k]
      BY <1>5, <2>1 DEF Take, KeyHasRoom
    <3> HIDE DEF M
    <3>4. IsFiniteSet(InFlight(q, RoutesOf(k))) /\ IsFiniteSet({}) /\ Cardinality({}) = 0
      BY <3>2, Fewer, FS_EmptySet
    <3>5. /\ Cardinality(M) <= Cardinality(InFlight(q, RoutesOf(k))) + Cardinality({}) + 1
          /\ Cardinality(InFlight(q, RoutesOf(k))) \in Nat
          /\ Cardinality({}) \in Nat
          /\ Cardinality(M) \in Nat
      BY <3>1, <3>4, CoveredBy
    <3>6. Concurrency[k] \in Nat
      OBVIOUS
    <3> QED
      BY <3>3, <3>4, <3>5, <3>6 DEF M
  <2>2. CASE k # kk
    <3>1. M \subseteq L
      BY <1>1, <2>2 DEF RoutesOf
    <3>2. Cardinality(L) <= Concurrency[k]
      BY <1>5 DEF QuotaInv, LeasesFit
    <3> QED
      BY <3>1, <3>2, Fewer
  <2> QED
    BY <2>1, <2>2
<1> QED
  BY <1>2, <1>3, <1>4, <1>5 DEF MeterHolds, MonthlyCapHolds, LeasesFit, RoutesOf

(* An action after which no request holds more, of the same routes and the *)
(* same keys, keeps the limits.                                            *)
NoMoreHeld ==
  \A q \in Requests :
    /\ lease'[q].route \in {lease[q].route, None}
    /\ reserved'[q] = reserved[q] \/ (reserved'[q] = None /\ lease'[q].route = None)
    /\ \A m \in Meters :
         Counts(m, q)' /\ ~row'[q].stray =>
           (Counts(m, q) /\ ~row[q].stray) \/ lease[q].route \in Scope[m]
    /\ \A k \in Keys : spent'[q] = k => spent[q] = k \/ reserved[q] = k

LEMMA NoMoreHeldKeepsLimits ==
  ASSUME QuotaInv, NoMoreHeld
  PROVE  LeasesAreReserved' /\ MeterHolds' /\ MonthlyCapHolds' /\ LeasesFit'
<1> USE QuotaAssumption
<1>1. LeasesAreReserved'
  BY DEF LeasesAreReserved, Leased, QuotaInv, NoMoreHeld
<1>2. ASSUME NEW m \in Meters
      PROVE  Cardinality(Holders(m)') <= Limit[m]
  <2>1. Holders(m)' \subseteq Holders(m)
    BY DEF Holders, NoMoreHeld
  <2>2. Holders(m) \in SUBSET Requests /\ Holders(m)' \in SUBSET Requests
    BY DEF Holders
  <2>3. Cardinality(Holders(m)) <= Limit[m] /\ Limit[m] \in Nat
    BY DEF QuotaInv, MeterHolds
  <2> QED
    BY <2>1, <2>2, <2>3, Fewer
<1>3. ASSUME NEW k \in Keys, MonthlyCap[k] # 0
      PROVE  Cardinality(Booked(k)') <= MonthlyCap[k]
  <2>1. Booked(k)' \subseteq Booked(k)
    BY DEF Booked, NoMoreHeld
  <2>2. Booked(k) \in SUBSET Requests /\ Booked(k)' \in SUBSET Requests
    BY DEF Booked
  <2>3. Cardinality(Booked(k)) <= MonthlyCap[k] /\ MonthlyCap[k] \in Nat
    BY <1>3 DEF QuotaInv, MonthlyCapHolds
  <2> QED
    BY <2>1, <2>2, <2>3, Fewer
<1>4. ASSUME NEW k \in Keys, Concurrency[k] # 0
      PROVE  Cardinality({p \in Requests : lease'[p].route \in RoutesOf(k)}) <= Concurrency[k]
  <2> DEFINE L == {p \in Requests : lease[p].route \in RoutesOf(k)}
             M == {p \in Requests : lease'[p].route \in RoutesOf(k)}
  <2>1. M \subseteq L
    BY DEF RoutesOf, NoMoreHeld
  <2>2. Cardinality(L) <= Concurrency[k] /\ Concurrency[k] \in Nat
    BY <1>4 DEF QuotaInv, LeasesFit
  <2> QED
    BY <2>1, <2>2, Fewer
<1> QED
  BY <1>1, <1>2, <1>3, <1>4 DEF MeterHolds, MonthlyCapHolds, LeasesFit, RoutesOf

LEMMA OtherStepsHoldNoMore ==
  ASSUME QuotaInv
  PROVE  /\ \A q \in Requests, r \in Routes : Settle(q, r) => NoMoreHeld
         /\ \A q \in Requests : Give(q) => NoMoreHeld
         /\ \A newMonth \in BOOLEAN : Midnight(newMonth) => NoMoreHeld
         /\ PassTime => NoMoreHeld
         /\ Forget => NoMoreHeld
         /\ UNCHANGED quota => NoMoreHeld
<1> USE QuotaAssumption DEF QuotaInv, QuotaTypeOK
<1>1. ASSUME NEW q \in Requests, NEW r \in Routes, Settle(q, r)
      PROVE  NoMoreHeld
  <2>1. row'[q].stray = (lease[q].route = None) /\ row'[q].route = r
    BY <1>1 DEF Settle, Leased
  <2>2. lease[q].route \in {r, None} /\ reserved[q] = KeyOf[r] /\ spent'[q] = KeyOf[r]
    BY <1>1 DEF Settle
  <2>3. \A p \in Requests : p # q => row'[p] = row[p] /\ spent'[p] = spent[p]
    BY <1>1 DEF Settle
  <2>4. lease' = lease /\ reserved' = reserved
    BY <1>1 DEF Settle
  <2> QED
    BY <2>1, <2>2, <2>3, <2>4 DEF NoMoreHeld, Counts
<1>2. ASSUME NEW q \in Requests, Give(q)
      PROVE  NoMoreHeld
  BY <1>2 DEF Give, NoMoreHeld, Counts, NoLease
<1>3. ASSUME NEW newMonth \in BOOLEAN, Midnight(newMonth)
      PROVE  NoMoreHeld
  <2>1. ASSUME NEW q \in Requests, NEW m \in Meters, Counts(m, q)', ~row'[q].stray
        PROVE  Counts(m, q) /\ ~row[q].stray
    <3>1. row[q].route # None
      BY <1>3, <2>1 DEF Midnight, Counts, NoRow
    <3>2. row'[q] = [row[q] EXCEPT !.today = FALSE]
      BY <1>3, <3>1 DEF Midnight
    <3>3. /\ row'[q].route = row[q].route
          /\ row'[q].age = row[q].age
          /\ row'[q].stray = row[q].stray
          /\ row'[q].today = FALSE
      BY <3>2 DEF Rows
    <3> QED
      BY <2>1, <3>3 DEF Counts
  <2> QED
    BY <1>3, <2>1 DEF NoMoreHeld, Midnight
<1>4. PassTime => NoMoreHeld
  <2> SUFFICES ASSUME PassTime, NEW q \in Requests
               PROVE  /\ lease'[q].route \in {lease[q].route, None}
                      /\ \A m \in Meters :
                           Counts(m, q)' /\ ~row'[q].stray =>
                             Counts(m, q) /\ ~row[q].stray
    BY DEF NoMoreHeld, PassTime
  <2>1. lease'[q].route \in {lease[q].route, None}
    BY OlderLease DEF PassTime
  <2>2. ASSUME NEW m \in Meters, Counts(m, q)', ~row'[q].stray
        PROVE  Counts(m, q) /\ ~row[q].stray
    <3>1. row'[q] = Staler(row[q]) /\ row[q] \in Rows
      BY DEF PassTime
    <3>2. row'[q].route # None
      BY <2>2 DEF Counts
    <3>3. /\ row'[q].route = row[q].route
          /\ row'[q].age = row[q].age + 1
          /\ row'[q].today = row[q].today
          /\ row'[q].stray = row[q].stray
      BY <3>1, <3>2, StalerRow
    <3>4. row[q].age \in Nat /\ Width[m] \in Nat
      BY <3>1 DEF Rows
    <3> QED
      BY <2>2, <3>3, <3>4 DEF Counts
  <2> QED
    BY <2>1, <2>2
<1>5. Forget => NoMoreHeld
  BY DEF Forget, NoMoreHeld, Counts, NoLease
<1>6. UNCHANGED quota => NoMoreHeld
  BY DEF quota, NoMoreHeld, Counts
<1> QED
  BY <1>1, <1>2, <1>3, <1>4, <1>5, <1>6

-----------------------------------------------------------------------------
(* The limits hold at first: nobody holds anything.                        *)
LEMMA QuotaStarts == QuotaInit => QuotaInv
<1> SUFFICES ASSUME QuotaInit PROVE QuotaInv
  OBVIOUS
<1> USE QuotaAssumption
<1>1. QuotaTypeOK
  BY DEF QuotaInit, QuotaTypeOK, NoLease, Leases, NoRow, Rows
<1>2. LeasesAreReserved
  BY DEF QuotaInit, LeasesAreReserved, Leased, NoLease
<1>3. \A m \in Meters : Holders(m) = {}
  BY DEF QuotaInit, Holders, Counts, NoLease, NoRow
<1>4. \A k \in Keys : Booked(k) = {}
  BY DEF QuotaInit, Booked
<1>5. \A k \in Keys : {q \in Requests : lease[q].route \in RoutesOf(k)} = {}
  BY DEF QuotaInit, NoLease, RoutesOf
<1>6. Cardinality({}) = 0
  BY FS_EmptySet
<1>7. ASSUME NEW m \in Meters
      PROVE  Cardinality(Holders(m)) <= Limit[m]
  <2>1. Cardinality(Holders(m)) = 0
    BY <1>3, <1>6
  <2> QED
    BY <2>1
<1>8. ASSUME NEW k \in Keys
      PROVE  Cardinality(Booked(k)) <= MonthlyCap[k]
  <2>1. Cardinality(Booked(k)) = 0
    BY <1>4, <1>6
  <2> QED
    BY <2>1
<1>9. ASSUME NEW k \in Keys
      PROVE  Cardinality({q \in Requests : lease[q].route \in RoutesOf(k)}) <= Concurrency[k]
  <2>1. Cardinality({q \in Requests : lease[q].route \in RoutesOf(k)}) = 0
    BY <1>5, <1>6
  <2> QED
    BY <2>1
<1>10. MeterHolds /\ MonthlyCapHolds
  BY <1>7, <1>8 DEF MeterHolds, MonthlyCapHolds
<1>11. LeasesFit
  BY <1>9 DEF LeasesFit
<1> QED
  BY <1>1, <1>2, <1>10, <1>11 DEF QuotaInv

(* No step of the quota breaks a limit. *)
LEMMA QuotaStep ==
  ASSUME QuotaInv, [QuotaNext]_quota
  PROVE  QuotaInv'
<1>1. QuotaTypeOK'
  BY QuotaTypeStep DEF QuotaInv
<1>2. LeasesAreReserved' /\ MeterHolds' /\ MonthlyCapHolds' /\ LeasesFit'
  BY TakeKeepsLimits, OtherStepsHoldNoMore, NoMoreHeldKeepsLimits DEF QuotaNext
<1> QED
  BY <1>1, <1>2 DEF QuotaInv

(* Whatever is admitted, however it ends and whenever the process stops,   *)
(* no meter, no monthly cap and no key's concurrency is overrun, but for   *)
(* the successes that outlived their lease.                                *)
THEOREM QuotaIsKept == QuotaSpec => []QuotaInv
<1>1. QuotaInit => QuotaInv
  BY QuotaStarts
<1>2. QuotaInv /\ [QuotaNext]_quota => QuotaInv'
  BY QuotaStep
<1> QED
  BY <1>1, <1>2, PTL DEF QuotaSpec

-----------------------------------------------------------------------------
(* The loop. *)

(* l is a request's loop, h its lease, k its reservation, w its row and s  *)
(* its entry in the ledger.                                                *)
Sound(l, h, k, w, s) ==
  /\ l \in Loops
  /\ l.phase \in {"waiting", "streaming", "delivered"} =>
       /\ l.route \in Routes
       /\ k = KeyOf[l.route]
       /\ h.route \in {l.route, None}
       /\ l.spell <= LeaseAge => h = [route |-> l.route, age |-> l.spell]
  /\ l.phase \in {"new", "over"} => h = NoLease /\ k = None /\ ~l.timer
  /\ l.phase \in {"new", "waiting"} => l.answers = 0
  /\ l.phase \in {"streaming", "delivered"} => l.answers = 1
  /\ l.phase = "over" => l.answers \in {0, 1} /\ (l.gone \/ l.answers = 1)
  /\ l.phase \in {"new", "waiting", "streaming"} => w = NoRow /\ s = None
  /\ l.timer => l.phase # "streaming"
  /\ l.phase = "waiting" /\ l.n > 1 /\ BudgetOf[l.route] # 0 /\ ~l.aborted
       => l.timer /\ l.elapsed <= BudgetOf[l.route]

SoundAt(q) == Sound(req[q], lease[q], reserved[q], row[q], spent[q])

LoopInv ==
  /\ QuotaTypeOK
  /\ req = [p \in Requests |-> req[p]]
  /\ \A q \in Requests : SoundAt(q)

(* A step on behalf of q leaves the other requests as they are. *)
Only(q) ==
  /\ req' = [p \in Requests |-> req'[p]]
  /\ \A p \in Requests \ {q} :
       /\ req'[p] = req[p]
       /\ lease'[p] = lease[p]
       /\ reserved'[p] = reserved[p]
       /\ row'[p] = row[p]
       /\ spent'[p] = spent[p]

LEMMA OnlyKeeps ==
  ASSUME LoopInv, NEW q \in Requests, Only(q), SoundAt(q)'
  PROVE  \A p \in Requests : SoundAt(p)'
BY DEF LoopInv, Only, SoundAt

-----------------------------------------------------------------------------
(* The parts the steps of one request are made of.                         *)

(* The loop that has stopped.                                              *)
LEMMA StoppedLoop ==
  ASSUME NEW l \in Loops, NEW rendered \in BOOLEAN
  PROVE  /\ Stopped(l, rendered) \in Loops
         /\ Stopped(l, rendered).phase = "over"
         /\ ~Stopped(l, rendered).timer
         /\ Stopped(l, rendered).gone = l.gone
         /\ Stopped(l, rendered).answers = IF rendered THEN l.answers + 1 ELSE l.answers
<1> DEFINE Ended(x, g, a) == [x EXCEPT !.phase = "over", !.gone = g, !.answers = a]
           gone == l.gone
           answers == IF rendered THEN l.answers + 1 ELSE l.answers
           z == Stopped(l, rendered)
<1>1. /\ 0 \in 0 .. MaxRetries - 1
      /\ 0 \in 0 .. LeaseAge + 1
      /\ 0 \in 0 .. MaxElapsed
  BY QuotaAssumption, LoopAssumption
<1>2. Arrived \in Loops /\ ~Arrived.timer
  BY <1>1 DEF Arrived, Loops, Phases
<1>3. gone \in BOOLEAN /\ answers \in Nat
  BY DEF Loops
<1>4. \A x \in Loops, g \in BOOLEAN, a \in Nat :
        /\ Ended(x, g, a) \in Loops
        /\ Ended(x, g, a).phase = "over"
        /\ Ended(x, g, a).timer = x.timer
        /\ Ended(x, g, a).gone = g
        /\ Ended(x, g, a).answers = a
  BY DEF Loops, Phases
<1>5. z = Ended(Arrived, gone, answers)
  BY DEF Stopped
<1> HIDE DEF gone, answers, z, Ended
<1>6. /\ z \in Loops
      /\ z.phase = "over"
      /\ ~z.timer
      /\ z.gone = gone
      /\ z.answers = answers
  BY <1>2, <1>3, <1>4, <1>5
<1> QED
  BY <1>6 DEF gone, answers, z

(* The end of a request: it had no answer and gets one or its client is    *)
(* gone, or it had one and gets no other.                                  *)
LEMMA EndIsSound ==
  ASSUME LoopInv, NEW q \in Requests, NEW rendered \in BOOLEAN, End(q, rendered),
         \/ rendered /\ req[q].answers = 0
         \/ ~rendered /\ req[q].answers = 0 /\ req[q].gone
         \/ ~rendered /\ req[q].answers = 1
  PROVE  Only(q) /\ SoundAt(q)'
<1>1. Only(q)
  BY DEF Only, End, Give, LoopInv, QuotaTypeOK
<1>2. req'[q] = Stopped(req[q], rendered) /\ lease'[q] = NoLease /\ reserved'[q] = None
  BY DEF End, Give, LoopInv, QuotaTypeOK
<1> DEFINE l == Stopped(req[q], rendered)
<1>3. req[q] \in Loops
  BY DEF LoopInv, SoundAt, Sound
<1>5. /\ l \in Loops
      /\ l.phase = "over"
      /\ ~l.timer
      /\ l.gone = req[q].gone
      /\ l.answers = IF rendered THEN req[q].answers + 1 ELSE req[q].answers
  BY <1>3, StoppedLoop
<1>6. l.answers \in {0, 1} /\ (l.gone \/ l.answers = 1)
  BY <1>5
<1> HIDE DEF l
<1>7. Sound(l, NoLease, None, row'[q], spent'[q])
  BY <1>5, <1>6 DEF Sound
<1> QED
  BY <1>1, <1>2, <1>7 DEF SoundAt, l

(* The start of an attempt. *)
LEMMA DispatchIsSound ==
  ASSUME LoopInv, NEW q \in Requests, NEW n \in 0 .. MaxRetries - 1,
         NEW fails \in Nat, NEW skip \in SUBSET Routes, NEW r \in Routes,
         Dispatch(q, n, fails, skip, r), ~OutOfTime(q, n, r),
         req[q].phase \in {"new", "waiting"}
  PROVE  Only(q) /\ SoundAt(q)'
<1>1. Only(q)
  BY DEF Only, Dispatch, Take, LoopInv, QuotaTypeOK
<1>2. /\ req'[q] = [req[q] EXCEPT !.phase = "waiting", !.n = n, !.fails = fails,
                      !.skip = skip, !.route = r, !.spell = 0, !.timer = Armed(n, r)]
      /\ lease'[q] = [route |-> r, age |-> 0]
      /\ reserved'[q] = KeyOf[r]
      /\ row'[q] = NoRow
      /\ spent'[q] = None
  BY DEF Dispatch, Take, LoopInv, QuotaTypeOK
<1>3. req[q] \in Loops /\ req[q].answers = 0
  BY DEF LoopInv, SoundAt, Sound
<1>4. /\ req'[q].phase = "waiting"
      /\ req'[q].n = n
      /\ req'[q].route = r
      /\ req'[q].spell = 0
      /\ req'[q].timer = Armed(n, r)
      /\ req'[q].answers = 0
      /\ req'[q].elapsed = req[q].elapsed
      /\ req'[q].aborted = req[q].aborted
  BY <1>2, <1>3 DEF Loops
<1>5. Armed(n, r) \in BOOLEAN
  BY DEF Armed
<1>6. req'[q] \in Loops
  <2>1. /\ req[q].elapsed \in 0 .. MaxElapsed
        /\ req[q].aborted \in BOOLEAN
        /\ req[q].gone \in BOOLEAN
        /\ req[q].answers \in Nat
        /\ 0 \in 0 .. LeaseAge + 1
    BY <1>3, QuotaAssumption DEF Loops
  <2>2. req[q] = [phase |-> req[q].phase, n |-> req[q].n, fails |-> req[q].fails,
                  skip |-> req[q].skip, route |-> req[q].route, spell |-> req[q].spell,
                  elapsed |-> req[q].elapsed, timer |-> req[q].timer,
                  aborted |-> req[q].aborted, gone |-> req[q].gone,
                  answers |-> req[q].answers]
    BY <1>3 DEF Loops
  <2>3. req'[q] = [phase |-> "waiting", n |-> n, fails |-> fails,
                   skip |-> skip, route |-> r, spell |-> 0,
                   elapsed |-> req[q].elapsed, timer |-> Armed(n, r),
                   aborted |-> req[q].aborted, gone |-> req[q].gone,
                   answers |-> req[q].answers]
    BY <1>2, <2>2
  <2> QED
    BY <1>5, <2>1, <2>3 DEF Loops, Phases
<1>7. n > 1 /\ BudgetOf[r] # 0 => Armed(n, r) /\ req[q].elapsed <= BudgetOf[r]
  BY <1>3, LoopAssumption DEF Armed, OutOfTime, Loops
<1>8. Sound(req'[q], lease'[q], reserved'[q], row'[q], spent'[q])
  BY <1>2, <1>4, <1>6, <1>7 DEF Sound
<1> QED
  BY <1>1, <1>8 DEF SoundAt

(* The top of the loop, whether it ends there or starts an attempt. *)
LEMMA NextAttemptIsSound ==
  ASSUME LoopInv, NEW q \in Requests, NEW n \in 0 .. MaxRetries,
         NEW fails \in Nat, NEW skip \in SUBSET Routes,
         NextAttempt(q, n, fails, skip), req[q].phase \in {"new", "waiting"}
  PROVE  Only(q) /\ SoundAt(q)'
<1>1. req[q].answers = 0
  BY DEF LoopInv, SoundAt, Sound
<1>2. CASE End(q, TRUE)
  BY <1>1, <1>2, EndIsSound
<1>3. CASE req[q].gone /\ End(q, FALSE)
  BY <1>1, <1>3, EndIsSound
<1>4. CASE n < MaxRetries /\ Route(q, n, fails, skip)
  <2>1. PICK r \in Routes \ skip :
          \/ OutOfTime(q, n, r) /\ TooLate(q, r)
          \/ ~OutOfTime(q, n, r) /\ Dispatch(q, n, fails, skip, r)
    BY <1>4 DEF Route
  <2>2. CASE TooLate(q, r)
    BY <1>1, <2>2, EndIsSound DEF TooLate
  <2>3. CASE ~OutOfTime(q, n, r) /\ Dispatch(q, n, fails, skip, r)
    <3>1. n \in 0 .. MaxRetries - 1
      BY <1>4, LoopAssumption
    <3> QED
      BY <2>3, <3>1, DispatchIsSound
  <2> QED
    BY <2>1, <2>2, <2>3
<1> QED
  BY <1>2, <1>3, <1>4 DEF NextAttempt

-----------------------------------------------------------------------------
(* The steps of one request.                                               *)

LEMMA StartIsSound ==
  ASSUME LoopInv, NEW q \in Requests, Start(q)
  PROVE  Only(q) /\ SoundAt(q)'
<1>1. 0 \in 0 .. MaxRetries
  BY LoopAssumption
<1> QED
  BY <1>1, NextAttemptIsSound DEF Start

LEMMA FailsIsSound ==
  ASSUME LoopInv, NEW q \in Requests, NEW reach \in Reaches, NEW exempt \in BOOLEAN,
         Fails(q, reach, exempt)
  PROVE  Only(q) /\ SoundAt(q)'
<1> DEFINE fails == Failures(req[q], exempt)
           skip == req[q].skip \cup RuledOut(req[q].route, reach)
<1>1. req[q] \in Loops /\ req[q].route \in Routes /\ req[q].answers = 0
  BY DEF LoopInv, SoundAt, Sound, Fails
<1>2. fails \in Nat
  BY <1>1 DEF Failures, Loops
<1>3. skip \in SUBSET Routes
  BY <1>1 DEF RuledOut, Reaches, Loops
<1>4. Following(req[q].n, reach) \in 0 .. MaxRetries
  BY <1>1, LoopAssumption DEF Following, Loops
<1>5. CASE End(q, ~req[q].gone)
  <2>1. req[q].gone \in BOOLEAN
    BY <1>1 DEF Loops
  <2> QED
    BY <1>1, <1>5, <2>1, EndIsSound
<1>6. CASE NextAttempt(q, Following(req[q].n, reach), fails, skip)
  <2> HIDE DEF fails, skip
  <2>1. req[q].phase = "waiting"
    BY DEF Fails
  <2> QED
    BY <1>2, <1>3, <1>4, <1>6, <2>1, NextAttemptIsSound
<1> QED
  BY <1>5, <1>6 DEF Fails

LEMMA FirstByteIsSound ==
  ASSUME LoopInv, NEW q \in Requests, FirstByte(q)
  PROVE  Only(q) /\ SoundAt(q)'
<1>1. Only(q)
  BY DEF Only, FirstByte, quota, LoopInv, QuotaTypeOK
<1>2. Sound(req[q], lease[q], reserved[q], row[q], spent[q]) /\ req[q] \in Loops
  BY DEF LoopInv, SoundAt, Sound
<1> DEFINE a == req[q].answers + 1
<1>3a. a = 1 /\ a \in Nat
  BY <1>2 DEF FirstByte, Sound
<1>3. req'[q] = [req[q] EXCEPT !.phase = "streaming", !.timer = FALSE, !.answers = a]
  BY DEF FirstByte, LoopInv
<1> HIDE DEF a
<1>4. /\ req'[q] \in Loops
      /\ req'[q].phase = "streaming"
      /\ req'[q].route = req[q].route
      /\ req'[q].spell = req[q].spell
      /\ req'[q].timer = FALSE
      /\ req'[q].answers = a
  BY <1>2, <1>3a, <1>3 DEF Loops, Phases
<1>5. req[q].phase = "waiting" /\ UNCHANGED quota
  BY DEF FirstByte
<1>6. Sound(req'[q], lease[q], reserved[q], row[q], spent[q])
  BY <1>2, <1>3a, <1>4, <1>5 DEF Sound
<1> QED
  BY <1>1, <1>5, <1>6 DEF SoundAt, quota

LEMMA DeliversIsSound ==
  ASSUME LoopInv, NEW q \in Requests, Delivers(q)
  PROVE  Only(q) /\ SoundAt(q)'
<1>1. Only(q)
  BY DEF Only, Delivers, Settle, LoopInv, QuotaTypeOK
<1>2. Sound(req[q], lease[q], reserved[q], row[q], spent[q]) /\ req[q] \in Loops
  BY DEF LoopInv, SoundAt, Sound
<1> DEFINE a == IF req[q].phase = "waiting" THEN req[q].answers + 1 ELSE req[q].answers
<1>3. a = 1 /\ a \in Nat /\ req[q].phase \in {"waiting", "streaming"}
  BY <1>2 DEF Sound, Delivers, Running
<1>4. req'[q] = [req[q] EXCEPT !.phase = "delivered", !.answers = a]
  BY DEF Delivers, LoopInv
<1> HIDE DEF a
<1>5. /\ req'[q] \in Loops
      /\ req'[q].phase = "delivered"
      /\ req'[q].route = req[q].route
      /\ req'[q].spell = req[q].spell
      /\ req'[q].answers = a
  BY <1>2, <1>3, <1>4 DEF Loops, Phases
<1>6. lease' = lease /\ reserved' = reserved
  BY DEF Delivers, Settle
<1>7. Sound(req'[q], lease[q], reserved[q], row'[q], spent'[q])
  BY <1>2, <1>3, <1>5 DEF Sound
<1> QED
  BY <1>1, <1>6, <1>7 DEF SoundAt

LEMMA FatalIsSound ==
  ASSUME LoopInv, NEW q \in Requests, Fatal(q)
  PROVE  Only(q) /\ SoundAt(q)'
BY EndIsSound DEF Fatal, LoopInv, SoundAt, Sound

LEMMA BreaksOffIsSound ==
  ASSUME LoopInv, NEW q \in Requests, BreaksOff(q)
  PROVE  Only(q) /\ SoundAt(q)'
BY EndIsSound DEF BreaksOff, LoopInv, SoundAt, Sound

LEMMA CanceledIsSound ==
  ASSUME LoopInv, NEW q \in Requests, Canceled(q)
  PROVE  Only(q) /\ SoundAt(q)'
BY EndIsSound DEF Canceled, Running, LoopInv, SoundAt, Sound

LEMMA HedgeEndsIsSound ==
  ASSUME LoopInv, NEW q \in Requests, HedgeEnds(q)
  PROVE  Only(q) /\ SoundAt(q)'
BY EndIsSound DEF HedgeEnds, LoopInv, SoundAt, Sound

LEMMA FinishIsSound ==
  ASSUME LoopInv, NEW q \in Requests, Finish(q)
  PROVE  Only(q) /\ SoundAt(q)'
BY EndIsSound DEF Finish, LoopInv, SoundAt, Sound

LEMMA HedgeFiresIsSound ==
  ASSUME LoopInv, NEW q \in Requests, HedgeFires(q)
  PROVE  Only(q) /\ SoundAt(q)'
<1>1. Only(q)
  BY DEF Only, HedgeFires, quota, LoopInv, QuotaTypeOK
<1>2. Sound(req[q], lease[q], reserved[q], row[q], spent[q]) /\ req[q] \in Loops
  BY DEF LoopInv, SoundAt, Sound
<1>3. req'[q] = [req[q] EXCEPT !.timer = FALSE, !.aborted = TRUE]
  BY DEF HedgeFires, LoopInv
<1>4. /\ req'[q] \in Loops
      /\ req'[q].phase = req[q].phase
      /\ req'[q].route = req[q].route
      /\ req'[q].spell = req[q].spell
      /\ req'[q].timer = FALSE
      /\ req'[q].aborted = TRUE
      /\ req'[q].gone = req[q].gone
      /\ req'[q].answers = req[q].answers
  BY <1>2, <1>3 DEF Loops, Phases
<1>5. Sound(req'[q], lease[q], reserved[q], row[q], spent[q])
  BY <1>2, <1>4 DEF Sound
<1> QED
  BY <1>1, <1>5 DEF SoundAt, HedgeFires, quota

LEMMA HangUpIsSound ==
  ASSUME LoopInv, NEW q \in Requests, HangUp(q)
  PROVE  Only(q) /\ SoundAt(q)'
<1>1. Only(q)
  BY DEF Only, HangUp, quota, LoopInv, QuotaTypeOK
<1>2. Sound(req[q], lease[q], reserved[q], row[q], spent[q]) /\ req[q] \in Loops
  BY DEF LoopInv, SoundAt, Sound
<1>3. req'[q] = [req[q] EXCEPT !.gone = TRUE]
  BY DEF HangUp, LoopInv
<1>4. /\ req'[q] \in Loops
      /\ req'[q].phase = req[q].phase
      /\ req'[q].n = req[q].n
      /\ req'[q].route = req[q].route
      /\ req'[q].spell = req[q].spell
      /\ req'[q].elapsed = req[q].elapsed
      /\ req'[q].timer = req[q].timer
      /\ req'[q].aborted = req[q].aborted
      /\ req'[q].gone = TRUE
      /\ req'[q].answers = req[q].answers
  BY <1>2, <1>3 DEF Loops, Phases
<1>5. Sound(req'[q], lease[q], reserved[q], row[q], spent[q])
  BY <1>2, <1>4 DEF Sound
<1> QED
  BY <1>1, <1>5 DEF SoundAt, HangUp, quota

-----------------------------------------------------------------------------
(* The steps of the surroundings.                                          *)

(* The lease of an attempt is as old as the attempt until it is pruned,    *)
(* and no timer is overdue when the clock moves on.                        *)
LEMMA TickIsSound ==
  ASSUME LoopInv, Tick, NEW q \in Requests
  PROVE  SoundAt(q)'
<1> DEFINE l == req[q]
<1>1. Sound(l, lease[q], reserved[q], row[q], spent[q]) /\ l \in Loops
  BY DEF LoopInv, SoundAt, Sound
<1>2. /\ req'[q] = Aged(l)
      /\ lease'[q] = Older(lease[q])
      /\ row'[q] = Staler(row[q])
      /\ reserved'[q] = reserved[q]
      /\ spent'[q] = spent[q]
      /\ l.timer => l.elapsed < BudgetOf[l.route]
  BY DEF Tick, PassTime
<1>3. lease[q] \in Leases
  BY DEF LoopInv, QuotaTypeOK
<1>4. Staler(NoRow) = NoRow /\ Older(NoLease) = NoLease
  BY DEF Staler, Older, NoRow, NoLease
<1> HIDE DEF l
<1>5. CASE l.phase \in {"new", "over"}
  <2>1. Aged(l) = l
    BY <1>5 DEF Aged
  <2> QED
    BY <1>1, <1>2, <1>4, <1>5, <2>1 DEF SoundAt, Sound
<1>6. CASE l.phase \in {"waiting", "streaming", "delivered"}
  <2> DEFINE sp == IF l.spell > LeaseAge THEN l.spell ELSE l.spell + 1
             el == IF l.elapsed = MaxElapsed THEN l.elapsed ELSE l.elapsed + 1
             y == Aged(l)
  <2>1. y = [l EXCEPT !.spell = sp, !.elapsed = el]
    BY <1>6 DEF Aged
  <2>2. sp \in 0 .. LeaseAge + 1 /\ el \in 0 .. MaxElapsed
    BY <1>1, QuotaAssumption, LoopAssumption DEF Loops
  <2> HIDE DEF sp, el, y
  <2>3. /\ y \in Loops
        /\ y.phase = l.phase
        /\ y.n = l.n
        /\ y.route = l.route
        /\ y.spell = sp
        /\ y.elapsed = el
        /\ y.timer = l.timer
        /\ y.aborted = l.aborted
        /\ y.gone = l.gone
        /\ y.answers = l.answers
    BY <1>1, <2>1, <2>2 DEF Loops, Phases
  <2>4. /\ l.route \in Routes
        /\ lease[q].route \in {l.route, None}
        /\ l.spell <= LeaseAge => lease[q] = [route |-> l.route, age |-> l.spell]
    BY <1>1, <1>6 DEF Sound
  <2>5. Older(lease[q]).route \in {l.route, None}
    BY <1>3, <2>4, OlderLease
  <2>6. sp <= LeaseAge => Older(lease[q]) = [route |-> l.route, age |-> sp]
    <3> SUFFICES ASSUME sp <= LeaseAge
                 PROVE  Older(lease[q]) = [route |-> l.route, age |-> sp]
      OBVIOUS
    <3>1. l.spell < LeaseAge /\ sp = l.spell + 1
      BY <1>1, QuotaAssumption DEF sp, Loops
    <3>2. lease[q] = [route |-> l.route, age |-> l.spell]
      BY <1>1, <2>4, <3>1, QuotaAssumption DEF Loops
    <3>3. l.route # None /\ l.spell # LeaseAge
      BY <1>1, <2>4, <3>1, QuotaAssumption DEF Loops
    <3> QED
      BY <3>1, <3>2, <3>3 DEF Older
  <2>7. l.timer => el <= BudgetOf[l.route]
    BY <1>1, <1>2, <2>4, LoopAssumption DEF el, Loops
  <2>8. Sound(y, Older(lease[q]), reserved[q], Staler(row[q]), spent[q])
    BY <1>1, <1>4, <1>6, <2>3, <2>4, <2>5, <2>6, <2>7 DEF Sound
  <2> QED
    BY <1>2, <2>8 DEF SoundAt, y
<1> QED
  BY <1>1, <1>5, <1>6 DEF Loops, Phases

LEMMA NewDayIsSound ==
  ASSUME LoopInv, NEW newMonth \in BOOLEAN, NewDay(newMonth), NEW q \in Requests
  PROVE  SoundAt(q)'
<1>1. SoundAt(q)
  BY DEF LoopInv
<1>2. req' = req /\ lease' = lease /\ reserved' = reserved
  BY DEF NewDay, Midnight
<1>3. row[q] = NoRow => row'[q] = NoRow
  BY DEF NewDay, Midnight, NoRow
<1>4. spent[q] = None => spent'[q] = None
  BY DEF NewDay, Midnight
<1> QED
  BY <1>1, <1>2, <1>3, <1>4 DEF SoundAt, Sound

LEMMA RestartIsSound ==
  ASSUME LoopInv, Restart, NEW q \in Requests
  PROVE  SoundAt(q)'
<1>1. Sound(req[q], lease[q], reserved[q], row[q], spent[q]) /\ req[q] \in Loops
  BY DEF LoopInv, SoundAt, Sound
<1>2. /\ lease'[q] = NoLease
      /\ reserved'[q] = None
      /\ row'[q] = row[q]
      /\ spent'[q] = spent[q]
  BY DEF Restart, Forget
<1>3. CASE Sent(q)
  <2> DEFINE z == Stopped(req[q], FALSE)
             l == [z EXCEPT !.gone = TRUE]
  <2>1. req'[q] = l
    BY <1>3 DEF Restart
  <2>2. req[q].answers \in {0, 1}
    BY <1>1, <1>3 DEF Sound, Sent
  <2>3. /\ l \in Loops
        /\ l.phase = "over"
        /\ ~l.timer
        /\ l.gone
        /\ l.answers \in {0, 1}
    <3>1. /\ z \in Loops
          /\ z.phase = "over"
          /\ ~z.timer
          /\ z.answers = req[q].answers
      BY <1>1, StoppedLoop
    <3> HIDE DEF z
    <3> QED
      BY <2>2, <3>1 DEF Loops
  <2> HIDE DEF l
  <2>4. Sound(l, NoLease, None, row[q], spent[q])
    BY <2>3 DEF Sound
  <2> QED
    BY <1>2, <2>1, <2>4 DEF SoundAt
<1>4. CASE ~Sent(q)
  <2>1. req'[q] = req[q]
    BY <1>4 DEF Restart
  <2>2. Sound(req[q], NoLease, None, row[q], spent[q])
    BY <1>1, <1>4 DEF Sound, Sent, Loops, Phases
  <2> QED
    BY <1>2, <2>1, <2>2 DEF SoundAt
<1> QED
  BY <1>3, <1>4

-----------------------------------------------------------------------------
(* Every step of the loop is a step of the quota: of a request that takes, *)
(* settles or gives back, of the clock, of the day or of a restart.        *)
LEMMA NextAttemptMovesQuota ==
  ASSUME NEW q \in Requests, NEW n, NEW fails, NEW skip, NextAttempt(q, n, fails, skip)
  PROVE  QuotaNext
<1>1. CASE \E rendered \in BOOLEAN : End(q, rendered)
  BY <1>1 DEF End, QuotaNext
<1>2. CASE Route(q, n, fails, skip)
  <2>1. PICK r \in Routes : TooLate(q, r) \/ Dispatch(q, n, fails, skip, r)
    BY <1>2 DEF Route
  <2> QED
    BY <2>1 DEF TooLate, End, Dispatch, QuotaNext
<1> QED
  BY <1>1, <1>2 DEF NextAttempt

LEMMA StepMovesQuota ==
  ASSUME LoopInv, [Next]_vars
  PROVE  [QuotaNext]_quota
<1>1. ASSUME NEW q \in Requests, Start(q)
      PROVE  QuotaNext
  BY <1>1, NextAttemptMovesQuota DEF Start
<1>2. ASSUME NEW q \in Requests, Attempt(q)
      PROVE  QuotaNext
  <2>1. ASSUME NEW reach \in Reaches, NEW exempt \in BOOLEAN, Fails(q, reach, exempt)
        PROVE  QuotaNext
    <3>1. CASE End(q, ~req[q].gone)
      BY <3>1 DEF End, QuotaNext
    <3>2. CASE NextAttempt(q, Following(req[q].n, reach), Failures(req[q], exempt),
                           req[q].skip \cup RuledOut(req[q].route, reach))
      BY <3>2, NextAttemptMovesQuota
    <3> QED
      BY <2>1, <3>1, <3>2 DEF Fails
  <2>2. Fatal(q) \/ BreaksOff(q) \/ Canceled(q) \/ HedgeEnds(q) => QuotaNext
    BY DEF Fatal, BreaksOff, Canceled, HedgeEnds, End, QuotaNext
  <2>3. Delivers(q) => QuotaNext
    BY DEF Delivers, Running, LoopInv, SoundAt, Sound, QuotaNext
  <2> QED
    BY <1>2, <2>1, <2>2, <2>3 DEF Attempt
<1>3. ASSUME NEW q \in Requests, FirstByte(q) \/ HedgeFires(q) \/ HangUp(q)
      PROVE  UNCHANGED quota
  BY <1>3 DEF FirstByte, HedgeFires, HangUp
<1>4. ASSUME NEW q \in Requests, Finish(q)
      PROVE  QuotaNext
  BY <1>4 DEF Finish, End, QuotaNext
<1>5. Tick \/ Restart => QuotaNext
  BY DEF Tick, Restart, QuotaNext
<1>6. ASSUME NEW newMonth \in BOOLEAN, NewDay(newMonth)
      PROVE  QuotaNext
  BY <1>6 DEF NewDay, QuotaNext
<1>7. UNCHANGED vars => UNCHANGED quota
  BY DEF vars
<1> QED
  BY <1>1, <1>2, <1>3, <1>4, <1>5, <1>6, <1>7 DEF Next

LEMMA LoopStarts == Init => LoopInv
<1> SUFFICES ASSUME Init PROVE LoopInv
  OBVIOUS
<1>1. QuotaTypeOK
  BY QuotaStarts DEF Init, QuotaInv
<1>2. Arrived \in Loops
  <2>1. 0 \in 0 .. MaxRetries - 1 /\ 0 \in 0 .. LeaseAge + 1 /\ 0 \in 0 .. MaxElapsed
    BY QuotaAssumption, LoopAssumption
  <2> QED
    BY <2>1 DEF Arrived, Loops, Phases
<1>3. Arrived.phase = "new" /\ ~Arrived.timer /\ Arrived.answers = 0
  BY DEF Arrived
<1>4. Sound(Arrived, NoLease, None, NoRow, None)
  BY <1>2, <1>3 DEF Sound
<1> QED
  BY <1>1, <1>4 DEF LoopInv, SoundAt, Init, QuotaInit

LEMMA LoopStep ==
  ASSUME LoopInv, [Next]_vars
  PROVE  LoopInv'
<1>1. QuotaTypeOK'
  BY StepMovesQuota, QuotaTypeStep DEF LoopInv
<1>2. ASSUME NEW q \in Requests,
             Start(q) \/ Attempt(q) \/ FirstByte(q) \/ HedgeFires(q) \/ Finish(q) \/ HangUp(q)
      PROVE  Only(q) /\ SoundAt(q)'
  BY <1>2, StartIsSound, FailsIsSound, FatalIsSound, DeliversIsSound, BreaksOffIsSound,
     CanceledIsSound, HedgeEndsIsSound, FirstByteIsSound, HedgeFiresIsSound,
     FinishIsSound, HangUpIsSound DEF Attempt
<1>3. ASSUME NEW q \in Requests, Only(q), SoundAt(q)'
      PROVE  req' = [p \in Requests |-> req'[p]] /\ \A p \in Requests : SoundAt(p)'
  <2>1. \A p \in Requests : SoundAt(p)'
    BY <1>3, OnlyKeeps
  <2>2. req' = [p \in Requests |-> req'[p]]
    BY <1>3 DEF Only
  <2> QED
    BY <2>1, <2>2
<1>4. Tick \/ Restart \/ (\E newMonth \in BOOLEAN : NewDay(newMonth)) =>
        req' = [p \in Requests |-> req'[p]] /\ \A p \in Requests : SoundAt(p)'
  BY TickIsSound, RestartIsSound, NewDayIsSound DEF Tick, Restart, NewDay, LoopInv
<1>5. UNCHANGED vars => req' = [p \in Requests |-> req'[p]] /\ \A p \in Requests : SoundAt(p)'
  BY DEF vars, quota, LoopInv, SoundAt
<1>6. req' = [p \in Requests |-> req'[p]] /\ \A p \in Requests : SoundAt(p)'
  BY <1>2, <1>3, <1>4, <1>5 DEF Next
<1> QED
  BY <1>1, <1>6 DEF LoopInv

LEMMA LoopInvHolds == Spec => []LoopInv
<1>1. Init => LoopInv
  BY LoopStarts
<1>2. LoopInv /\ [Next]_vars => LoopInv'
  BY LoopStep
<1> QED
  BY <1>1, <1>2, PTL DEF Spec

-----------------------------------------------------------------------------
(* The state stays within its types. *)
THEOREM TypeIsCorrect == Spec => []TypeOK
<1>1. LoopInv => TypeOK
  BY DEF LoopInv, TypeOK, LoopTypeOK, SoundAt, Sound
<1> QED
  BY <1>1, LoopInvHolds, PTL

(* No way out of the loop leaves a lease, a reservation or a timer behind, *)
(* and nothing is charged that was not delivered.                          *)
THEOREM LoopLeaksNothing == Spec => []NothingLeaks
<1>1. LoopInv => NothingLeaks
  <2> SUFFICES ASSUME LoopInv, NEW q \in Requests PROVE HeldByAttempt(q)
    BY DEF NothingLeaks
  <2>1. Sound(req[q], lease[q], reserved[q], row[q], spent[q]) /\ req[q] \in Loops
    BY DEF LoopInv, SoundAt, Sound
  <2>2. req[q].phase \in Phases
    BY <2>1 DEF Loops
  <2>3. reserved[q] = IF Sent(q) THEN KeyOf[req[q].route] ELSE None
    BY <2>1, <2>2 DEF Sound, Sent, Phases
  <2>4. Leased(q) => Sent(q) /\ lease[q].route = req[q].route
    BY <2>1, <2>2 DEF Sound, Sent, Phases, Leased, NoLease
  <2>5. req[q].timer => req[q].phase \in {"waiting", "delivered"}
    BY <2>1, <2>2 DEF Sound, Phases
  <2>6. row[q] # NoRow \/ spent[q] # None => req[q].phase \in {"delivered", "over"}
    BY <2>1, <2>2 DEF Sound, Phases
  <2> QED
    BY <2>3, <2>4, <2>5, <2>6 DEF HeldByAttempt
<1> QED
  BY <1>1, LoopInvHolds, PTL

(* A client gets one answer. *)
THEOREM ClientGetsOneAnswer == Spec => []OneAnswer
<1>1. LoopInv => OneAnswer
  <2> SUFFICES ASSUME LoopInv, NEW q \in Requests
               PROVE  /\ req[q].answers <= 1
                      /\ req[q].phase = "over" /\ ~req[q].gone => req[q].answers = 1
    BY DEF OneAnswer
  <2>1. Sound(req[q], lease[q], reserved[q], row[q], spent[q]) /\ req[q] \in Loops
    BY DEF LoopInv, SoundAt, Sound
  <2>2. req[q].phase \in Phases
    BY <2>1 DEF Loops
  <2>3. req[q].answers \in {0, 1}
    BY <2>1, <2>2 DEF Sound, Phases
  <2> QED
    BY <2>1, <2>3 DEF Sound
<1> QED
  BY <1>1, LoopInvHolds, PTL

(* From the third attempt on, a silent provider is waited for no longer    *)
(* than the time budget.                                                   *)
THEOREM SilenceEnds == Spec => []SilenceIsBounded
<1>1. LoopInv => SilenceIsBounded
  BY DEF LoopInv, SoundAt, Sound, SilenceIsBounded
<1> QED
  BY <1>1, LoopInvHolds, PTL

(* The loops of the requests, side by side, use the quota as KeyQuota      *)
(* says: its specification is what the gateway promises of a key.          *)
THEOREM LoopImplementsQuota == Spec => QuotaSpec
<1>1. Init => QuotaInit
  BY DEF Init
<1>2. LoopInv /\ [Next]_vars => [QuotaNext]_quota
  BY StepMovesQuota
<1> QED
  BY <1>1, <1>2, LoopInvHolds, PTL DEF Spec, QuotaSpec

(* No meter is overrun but by successes that outlived their lease. *)
THEOREM MetersHold == Spec => []MeterHolds
<1>1. QuotaInv => MeterHolds
  BY DEF QuotaInv
<1> QED
  BY <1>1, LoopImplementsQuota, QuotaIsKept, PTL

(* No monthly cap is overrun. *)
THEOREM MonthlyCapsHold == Spec => []MonthlyCapHolds
<1>1. QuotaInv => MonthlyCapHolds
  BY DEF QuotaInv
<1> QED
  BY <1>1, LoopImplementsQuota, QuotaIsKept, PTL

(* No key carries more young attempts at once than it may. *)
THEOREM KeyConcurrencyHolds == Spec => []KeyConcurrency
<1>1. LoopInv /\ QuotaInv => KeyConcurrency
  <2> SUFFICES ASSUME LoopInv, QuotaInv, NEW k \in Keys, Concurrency[k] # 0
               PROVE  Cardinality(Young(k)) <= Concurrency[k]
    BY DEF KeyConcurrency
  <2> DEFINE L == {q \in Requests : lease[q].route \in RoutesOf(k)}
  <2>1. Young(k) \subseteq L
    <3> SUFFICES ASSUME NEW q \in Young(k) PROVE lease[q].route \in RoutesOf(k)
      BY DEF Young
    <3>1. Sound(req[q], lease[q], reserved[q], row[q], spent[q])
      BY DEF Young, LoopInv, SoundAt
    <3>2. lease[q] = [route |-> req[q].route, age |-> req[q].spell] /\ req[q].route \in Routes
      BY <3>1 DEF Sound, Young, Sent
    <3> QED
      BY <3>2 DEF Young, RoutesOf
  <2>2. Cardinality(L) <= Concurrency[k] /\ Concurrency[k] \in Nat
    BY QuotaAssumption DEF QuotaInv, LeasesFit
  <2>3. Young(k) \in SUBSET Requests /\ L \in SUBSET Requests
    BY DEF Young
  <2> HIDE DEF L
  <2>4. /\ Cardinality(Young(k)) <= Cardinality(L)
        /\ Cardinality(Young(k)) \in Nat
        /\ Cardinality(L) \in Nat
    BY <2>1, <2>3, Fewer
  <2> QED
    BY <2>2, <2>4
<1> QED
  BY <1>1, LoopInvHolds, LoopImplementsQuota, QuotaIsKept, PTL

-----------------------------------------------------------------------------
(* The safety half of EveryRequestEnds: what a loop has left to do, apart  *)
(* from waiting.  An attempt may be failed over, begin to stream, be       *)
(* delivered, lose its client and its timer, each once.                    *)
Stage(l) ==
  CASE l.phase = "new" -> 3 [] l.phase = "waiting" -> 2 [] l.phase = "streaming" -> 1
    [] OTHER -> 0
Tried(l) == IF l.phase = "new" THEN 0 ELSE l.n
Left(l) ==
  IF l.phase = "over" THEN 0
  ELSE 1 + 2 * (MaxRetries - Tried(l)) + Stage(l)
         + (IF l.gone THEN 0 ELSE 1) + (IF l.timer THEN 1 ELSE 0)

RunsDown(q) ==
  \/ req'[q] = req[q]
  \/ req'[q] = Aged(req[q]) /\ Left(req'[q]) = Left(req[q])
  \/ Left(req'[q]) < Left(req[q])

LEMMA LeftIs ==
  ASSUME NEW l \in Loops
  PROVE  /\ Left(l) \in Nat /\ Left(l) <= 2 * MaxRetries + 6
         /\ l.phase # "over" => Left(l) > 0
<1>1. l.n \in 0 .. MaxRetries - 1 /\ MaxRetries \in Nat
  BY LoopAssumption DEF Loops
<1>2. Stage(l) \in 0 .. 3
  BY DEF Stage
<1> QED BY <1>1, <1>2 DEF Left, Tried

LEMMA EndRunsDown ==
  ASSUME LoopInv, NEW q \in Requests, NEW rendered \in BOOLEAN, End(q, rendered),
         req[q].phase # "over"
  PROVE  RunsDown(q)
<1>1. req[q] \in Loops
  BY DEF LoopInv, SoundAt, Sound
<1>2. req'[q] = Stopped(req[q], rendered)
  BY DEF End, LoopInv
<1>3. req'[q].phase = "over"
  BY <1>1, <1>2, StoppedLoop
<1>4. Left(req'[q]) = 0
  BY <1>3 DEF Left
<1> QED BY <1>1, <1>4, LeftIs DEF RunsDown

LEMMA NextAttemptRunsDown ==
  ASSUME LoopInv, NEW q \in Requests, NEW n, NEW fails, NEW skip,
         NextAttempt(q, n, fails, skip),
         \/ req[q].phase = "new" /\ n = 0
         \/ req[q].phase = "waiting" /\ n = req[q].n + 1
  PROVE  RunsDown(q)
<1>1. /\ req[q] \in Loops /\ req[q].n \in 0 .. MaxRetries - 1 /\ MaxRetries \in Nat
      /\ req[q].phase = "new" => ~req[q].timer
  BY LoopAssumption DEF LoopInv, SoundAt, Sound, Loops
<1>2. CASE \E rendered \in BOOLEAN : End(q, rendered)
  BY <1>2, EndRunsDown
<1>3. ASSUME NEW r \in Routes, Dispatch(q, n, fails, skip, r), n < MaxRetries
      PROVE  RunsDown(q)
  <2>1. req'[q] = [req[q] EXCEPT !.phase = "waiting", !.n = n, !.fails = fails,
                     !.skip = skip, !.route = r, !.spell = 0, !.timer = Armed(n, r)]
    BY <1>3 DEF Dispatch, LoopInv
  <2>2. /\ req'[q].phase = "waiting" /\ req'[q].n = n /\ req'[q].gone = req[q].gone
        /\ req'[q].timer = Armed(n, r)
    BY <1>1, <2>1 DEF Loops
  <2>3. Stage(req'[q]) = 2 /\ (req[q].phase = "new" => Stage(req[q]) = 3)
        /\ (req[q].phase = "waiting" => Stage(req[q]) = 2)
    BY <2>2 DEF Stage
  <2>4. n = 0 => ~Armed(n, r)
    BY DEF Armed
  <2>5. CASE req[q].phase = "new" /\ n = 0
    <3>1. Left(req'[q]) = 1 + 2 * MaxRetries + 2 + (IF req[q].gone THEN 0 ELSE 1)
      BY <1>1, <2>2, <2>3, <2>4, <2>5 DEF Left, Tried
    <3>2. Left(req[q]) = 1 + 2 * MaxRetries + 3 + (IF req[q].gone THEN 0 ELSE 1)
      BY <1>1, <2>3, <2>5 DEF Left, Tried
    <3> QED BY <1>1, <3>1, <3>2 DEF RunsDown
  <2>6. CASE req[q].phase = "waiting" /\ n = req[q].n + 1
    BY <1>1, <2>2, <2>3, <2>6 DEF Left, Tried, RunsDown
  <2> QED BY <2>5, <2>6
<1>4. CASE n < MaxRetries /\ Route(q, n, fails, skip)
  <2>1. PICK r \in Routes : TooLate(q, r) \/ Dispatch(q, n, fails, skip, r)
    BY <1>4 DEF Route
  <2> QED BY <1>2, <1>3, <1>4, <2>1 DEF TooLate
<1> QED BY <1>2, <1>4 DEF NextAttempt

(* A change of the loop that is neither an end nor a new attempt.          *)
LEMMA StageRunsDown ==
  ASSUME LoopInv, NEW q \in Requests, NEW l \in Loops, req' = [req EXCEPT ![q] = l],
         req[q].phase \in {"waiting", "streaming", "delivered"}, l.n = req[q].n,
         \/ req[q].phase = "waiting" /\ l.phase = "streaming" /\ ~l.timer
              /\ l.gone = req[q].gone
         \/ req[q].phase \in {"waiting", "streaming"} /\ l.phase = "delivered"
              /\ l.timer = req[q].timer /\ l.gone = req[q].gone
         \/ l.phase = req[q].phase /\ req[q].timer /\ ~l.timer /\ l.gone = req[q].gone
         \/ l.phase = req[q].phase /\ l.timer = req[q].timer /\ ~req[q].gone /\ l.gone
  PROVE  RunsDown(q)
<1>1. req[q].n \in 0 .. MaxRetries - 1 /\ MaxRetries \in Nat
  BY LoopAssumption DEF LoopInv, SoundAt, Sound, Loops
<1>2. req'[q] = l
  BY DEF LoopInv
<1>3. Left(l) < Left(req[q])
  BY <1>1 DEF Left, Tried, Stage
<1> QED BY <1>2, <1>3 DEF RunsDown

LEMMA AttemptRunsDown ==
  ASSUME LoopInv, NEW q \in Requests, Start(q) \/ Attempt(q) \/ Finish(q)
  PROVE  RunsDown(q)
<1>1. req[q] \in Loops
  BY DEF LoopInv, SoundAt, Sound
<1>2. CASE Start(q)
  BY <1>2, NextAttemptRunsDown DEF Start
<1>3. ASSUME NEW reach \in Reaches, NEW exempt \in BOOLEAN, Fails(q, reach, exempt)
      PROVE  RunsDown(q)
  <2>1. req[q].phase = "waiting"
    BY <1>3 DEF Fails
  <2>2. CASE End(q, ~req[q].gone)
    <3>1. req[q].gone \in BOOLEAN
      BY <1>1 DEF Loops
    <3> QED BY <2>1, <2>2, <3>1, EndRunsDown
  <2>3. CASE NextAttempt(q, Following(req[q].n, reach), Failures(req[q], exempt),
                         req[q].skip \cup RuledOut(req[q].route, reach))
    <3>1. Following(req[q].n, reach) = req[q].n + 1
      BY DEF Following
    <3> QED BY <2>1, <2>3, <3>1, NextAttemptRunsDown
  <2> QED BY <1>3, <2>2, <2>3 DEF Fails
<1>4. CASE Fatal(q) \/ BreaksOff(q) \/ Canceled(q) \/ HedgeEnds(q) \/ Finish(q)
  BY <1>4, EndRunsDown DEF Fatal, BreaksOff, Canceled, Running, HedgeEnds, Finish
<1>5. CASE Delivers(q)
  <2> DEFINE a == IF req[q].phase = "waiting" THEN req[q].answers + 1 ELSE req[q].answers
             l == [req[q] EXCEPT !.phase = "delivered", !.answers = a]
  <2>1. a \in Nat
    BY <1>1 DEF Loops
  <2>2. req' = [req EXCEPT ![q] = l] /\ req[q].phase \in {"waiting", "streaming"}
    BY <1>5 DEF Delivers, Running
  <2> HIDE DEF a
  <2>3. /\ l \in Loops /\ l.phase = "delivered" /\ l.n = req[q].n
        /\ l.timer = req[q].timer /\ l.gone = req[q].gone
    BY <1>1, <2>1 DEF Loops, Phases
  <2> HIDE DEF l
  <2> QED BY <2>2, <2>3, StageRunsDown
<1> QED BY <1>2, <1>3, <1>4, <1>5 DEF Attempt

LEMMA ChangeRunsDown ==
  ASSUME LoopInv, NEW q \in Requests, FirstByte(q) \/ HedgeFires(q) \/ HangUp(q)
  PROVE  RunsDown(q)
<1>1. /\ req[q] \in Loops
      /\ req[q].timer => req[q].phase \in {"waiting", "delivered"}
  BY DEF LoopInv, SoundAt, Sound, Loops, Phases
<1>2. CASE FirstByte(q)
  <2> DEFINE a == req[q].answers + 1
             l == [req[q] EXCEPT !.phase = "streaming", !.timer = FALSE, !.answers = a]
  <2>1. a \in Nat
    BY <1>1 DEF Loops
  <2>2. req' = [req EXCEPT ![q] = l] /\ req[q].phase = "waiting"
    BY <1>2 DEF FirstByte
  <2> HIDE DEF a
  <2>3. /\ l \in Loops /\ l.phase = "streaming" /\ l.n = req[q].n
        /\ ~l.timer /\ l.gone = req[q].gone
    BY <1>1, <2>1 DEF Loops, Phases
  <2> HIDE DEF l
  <2> QED BY <2>2, <2>3, StageRunsDown
<1>3. CASE HedgeFires(q)
  <2> DEFINE l == [req[q] EXCEPT !.timer = FALSE, !.aborted = TRUE]
  <2>1. req' = [req EXCEPT ![q] = l] /\ req[q].timer
    BY <1>3 DEF HedgeFires
  <2>2. /\ l \in Loops /\ l.phase = req[q].phase /\ l.n = req[q].n
        /\ ~l.timer /\ l.gone = req[q].gone
    BY <1>1 DEF Loops
  <2> HIDE DEF l
  <2> QED BY <1>1, <2>1, <2>2, StageRunsDown
<1>4. CASE HangUp(q)
  <2> DEFINE l == [req[q] EXCEPT !.gone = TRUE]
  <2>1. /\ req' = [req EXCEPT ![q] = l] /\ ~req[q].gone
        /\ req[q].phase \in {"waiting", "streaming"}
    BY <1>4 DEF HangUp, Running
  <2>2. /\ l \in Loops /\ l.phase = req[q].phase /\ l.n = req[q].n
        /\ l.timer = req[q].timer /\ l.gone
    BY <1>1 DEF Loops
  <2> HIDE DEF l
  <2> QED BY <2>1, <2>2, StageRunsDown
<1> QED BY <1>2, <1>3, <1>4

LEMMA StepRunsDown ==
  ASSUME LoopInv, [Next]_vars
  PROVE  \A q \in Requests : RunsDown(q)
<1>1. ASSUME NEW p \in Requests,
             Start(p) \/ Attempt(p) \/ FirstByte(p) \/ HedgeFires(p) \/ Finish(p) \/ HangUp(p)
      PROVE  \A q \in Requests : RunsDown(q)
  <2>1. Only(p)
    BY <1>1, StartIsSound, FailsIsSound, FatalIsSound, DeliversIsSound, BreaksOffIsSound,
       CanceledIsSound, HedgeEndsIsSound, FirstByteIsSound, HedgeFiresIsSound,
       FinishIsSound, HangUpIsSound DEF Attempt
  <2>2. RunsDown(p)
    BY <1>1, AttemptRunsDown, ChangeRunsDown
  <2> QED BY <2>1, <2>2 DEF Only, RunsDown
<1>2. CASE Tick
  <2> SUFFICES ASSUME NEW q \in Requests PROVE RunsDown(q)
    OBVIOUS
  <2> DEFINE l == req[q]
  <2>1. l \in Loops /\ req'[q] = Aged(l)
    BY <1>2 DEF Tick, LoopInv, SoundAt, Sound
  <2> HIDE DEF l
  <2>2. /\ Aged(l).phase = l.phase /\ Aged(l).n = l.n
        /\ Aged(l).timer = l.timer /\ Aged(l).gone = l.gone
    BY <2>1 DEF Aged, Loops
  <2>3. Left(Aged(l)) = Left(l)
    BY <2>2 DEF Left, Tried, Stage
  <2> QED BY <2>1, <2>3 DEF RunsDown, l
<1>3. CASE Restart
  <2> SUFFICES ASSUME NEW q \in Requests, Sent(q) PROVE RunsDown(q)
    BY <1>3 DEF Restart, RunsDown
  <2>1. req[q] \in Loops /\ req[q].phase # "over"
    BY DEF LoopInv, SoundAt, Sound, Sent
  <2>2. req'[q] = [Stopped(req[q], FALSE) EXCEPT !.gone = TRUE]
    BY <1>3 DEF Restart
  <2>3. req'[q].phase = "over"
    BY <2>1, <2>2, StoppedLoop DEF Loops
  <2>4. Left(req'[q]) = 0
    BY <2>3 DEF Left
  <2> QED BY <2>1, <2>4, LeftIs DEF RunsDown
<1>4. CASE \E newMonth \in BOOLEAN : NewDay(newMonth)
  BY <1>4 DEF NewDay, RunsDown
<1>5. CASE UNCHANGED vars
  BY <1>5 DEF vars, RunsDown
<1> QED BY <1>1, <1>2, <1>3, <1>4, <1>5 DEF Next

(* Whatever its providers, its client and the other requests do, a request *)
(* can take at most 2 * MaxRetries + 6 steps: what it has left to do is    *)
(* that much at most, becomes less with each of its steps, and is more     *)
(* than nothing until it is over.  Waiting alone leaves it as it is.       *)
THEOREM RequestsRunDown ==
  Spec => /\ [](\A q \in Requests :
                  /\ Left(req[q]) \in 0 .. 2 * MaxRetries + 6
                  /\ req[q].phase # "over" => Left(req[q]) > 0)
          /\ [][\A q \in Requests : RunsDown(q)]_vars
<1>1. LoopInv => \A q \in Requests :
                   /\ Left(req[q]) \in 0 .. 2 * MaxRetries + 6
                   /\ req[q].phase # "over" => Left(req[q]) > 0
  <2> SUFFICES ASSUME LoopInv, NEW q \in Requests
               PROVE  /\ Left(req[q]) \in 0 .. 2 * MaxRetries + 6
                      /\ req[q].phase # "over" => Left(req[q]) > 0
    OBVIOUS
  <2>1. req[q] \in Loops
    BY DEF LoopInv, SoundAt, Sound
  <2>2. /\ Left(req[q]) \in Nat /\ Left(req[q]) <= 2 * MaxRetries + 6
        /\ req[q].phase # "over" => Left(req[q]) > 0
    BY <2>1, LeftIs
  <2> QED BY <2>2, LoopAssumption
<1>2. LoopInv /\ [Next]_vars => [\A q \in Requests : RunsDown(q)]_vars
  BY StepRunsDown
<1> QED BY <1>1, <1>2, LoopInvHolds, PTL DEF Spec
=============================================================================
