-------------------------- MODULE CooldownsProofs --------------------------
(***************************************************************************)
(* The safety properties of Cooldowns for every set of routes and every    *)
(* choice of its durations.                                                *)
(*                                                                         *)
(* The type of a row gives the range of a bench and GuessesStayShort the   *)
(* reasons for its length; both speak of one route and of one bench, and   *)
(* every way of writing a row keeps them (SoundRow).  That memory follows  *)
(* the table is inductive beside them.  CInv joins them.  The last parts   *)
(* are about steps: what may cut a bench short, and what may turn a bench  *)
(* under a probe into something else than the guess the pass has picked.   *)
(***************************************************************************)
EXTENDS Cooldowns, TLAPS

(* A bench that route r may be on. *)
SoundRow(r, bench) ==
  /\ bench \in Benches
  /\ bench.source = "heuristic" => bench.total <= LongestGuess(r)
  /\ bench.source \in {"credit", "tier"} => bench.total <= Ceiling

(* An entry that memory may hold beside a row. *)
SoundEntry(entry, bench) ==
  /\ entry \in -1 .. Longest
  /\ entry >= 0 => entry = bench.left

BenchInv ==
  /\ row \in [Routes -> Benches]
  /\ memory \in [Routes -> -1 .. Longest]
  /\ MemoryFollowsDisk
  /\ GuessesStayShort

SideInv ==
  /\ failures \in [Models -> 0 .. ModelThreshold - 1]
  /\ attempt \in [Attempts -> Routes \cup {None}]
  /\ pace \in [Keys -> [known : BOOLEAN, backoff : 0 .. ProbeMax,
                        wait : 0 .. Most(ProbeMax, Stagger)]]
  /\ found \in [Keys -> SUBSET Routes]
  /\ age \in 0 .. ProbeMax

CInv == TypeOK /\ MemoryFollowsDisk /\ GuessesStayShort

LEMMA CInvSplits == CInv <=> BenchInv /\ SideInv
BY DEF CInv, BenchInv, SideInv, TypeOK

-----------------------------------------------------------------------------
(* Facts about the benches the code writes.                                *)

LEMMA NoBenchIsSound ==
  ASSUME NEW r \in Routes
  PROVE  SoundRow(r, NoBench)
BY CooldownAssumption DEF SoundRow, NoBench, Benches

(* The fixed benches are within the longest guess, and so are the steps    *)
(* and the caps of the guesses.                                            *)
LEMMA GuessIsShort ==
  ASSUME NEW r \in Routes
  PROVE  /\ LongestGuess(r) \in 1 .. Longest
         /\ \A d \in {Transient, AuthBench, TruncationBench, ModelBench} :
              d \in 1 .. Longest /\ d <= LongestGuess(r)
         /\ \A kind \in Kinds : \A d \in Guesses(r, kind) :
              d \in 1 .. Longest /\ d <= LongestGuess(r)
<1>1. /\ {Transient, AuthBench, TruncationBench, ModelBench, GuessCap,
          Ceiling} \subseteq 1 .. Longest
      /\ Ladder \subseteq 1 .. Longest
      /\ Longest \in Nat
  BY CooldownAssumption
<1>2. /\ LongestGuess(r) \in 1 .. Longest
      /\ \A d \in {Transient, AuthBench, TruncationBench, ModelBench} :
           d <= LongestGuess(r)
      /\ r \notin Unlimited => Ceiling <= LongestGuess(r)
      /\ r \in Unlimited => Least(GuessCap, Ceiling) <= LongestGuess(r)
  BY <1>1 DEF LongestGuess, Most, Least
<1>3. ASSUME NEW kind \in Kinds, NEW d \in Guesses(r, kind)
      PROVE  d \in 1 .. Longest /\ d <= LongestGuess(r)
  <2>1. CASE d = Transient
    BY <1>1, <1>2, <2>1
  <2>2. CASE r \notin Unlimited /\ \E l \in Ladder : d = Capped(l)
    BY <1>1, <1>2, <2>2 DEF Capped, Least
  <2>3. CASE r \in Unlimited /\ \E l \in Ladder : d = Least(Capped(l), GuessCap)
    BY <1>1, <1>2, <2>3 DEF Capped, Least
  <2>. QED  BY <1>3, <2>1, <2>2, <2>3 DEF Guesses, Steps
<1>4. \A d \in {Transient, AuthBench, TruncationBench, ModelBench} :
        d \in 1 .. Longest /\ d <= LongestGuess(r)
  BY <1>1, <1>2
<1>. QED  BY <1>2, <1>3, <1>4

LEMMA FreshIsABench ==
  ASSUME NEW source \in Sources, NEW d \in 1 .. Longest
  PROVE  /\ Fresh(source, d) \in Benches
         /\ Fresh(source, d).source = source
         /\ Fresh(source, d).left = d
         /\ Fresh(source, d).total = d
BY CooldownAssumption DEF Fresh, Benches

LEMMA FixedBenchIsSound ==
  ASSUME NEW r \in Routes,
         NEW d \in {AuthBench, TruncationBench, ModelBench}
  PROVE  SoundRow(r, Fresh("heuristic", d))
BY GuessIsShort, FreshIsABench DEF SoundRow, Sources

(* What cooldownDecisionForError() decides suits the route that failed,    *)
(* and a payment suits every route.                                        *)
LEMMA DecisionIsSound ==
  ASSUME NEW r \in Routes, NEW kind \in Kinds, NEW bench \in Decisions(r, kind),
         NEW s \in Routes, kind = "payment" \/ s = r
  PROVE  SoundRow(s, bench) /\ bench.left > 0
<1>1. Day \in 1 .. Longest /\ Ceiling \in 1 .. Longest /\ Longest \in Nat
  BY CooldownAssumption
<1>2. Capped(Day) \in 1 .. Longest /\ Capped(Day) <= Ceiling
  BY <1>1 DEF Capped, Least
<1>3. ASSUME bench \in LimitBenches(r, kind), s = r
      PROVE  SoundRow(s, bench) /\ bench.left > 0
  <2>1. PICK d \in Guesses(r, kind) :
          bench \in {Fresh("heuristic", d)}
            \cup {Fresh("authoritative", e) : e \in d + 1 .. Day}
    BY <1>3 DEF LimitBenches
  <2>2. d \in 1 .. Longest /\ d <= LongestGuess(r)
    BY GuessIsShort
  <2>3. CASE bench = Fresh("heuristic", d)
    BY <1>3, <2>2, <2>3, FreshIsABench DEF SoundRow, Sources
  <2>4. CASE \E e \in d + 1 .. Day : bench = Fresh("authoritative", e)
    <3>1. PICK e \in d + 1 .. Day : bench = Fresh("authoritative", e)
      BY <2>4
    <3>2. e \in 1 .. Longest
      BY <1>1, <2>2
    <3>. QED  BY <3>1, <3>2, FreshIsABench DEF SoundRow, Sources
  <2>. QED  BY <2>1, <2>3, <2>4
<1>4. CASE kind = "payment"
  BY <1>2, <1>4, FreshIsABench DEF Decisions, SoundRow, Sources
<1>5. CASE kind = "forbidden"
  BY <1>2, <1>5, FreshIsABench DEF Decisions, SoundRow, Sources
<1>6. CASE kind = "daily"
  BY <1>1, <1>6, FreshIsABench DEF Decisions, SoundRow, Sources
<1>7. CASE kind = "truncated"
  <2>1. SoundRow(r, Fresh("heuristic", TruncationBench))
        /\ Fresh("heuristic", TruncationBench).left > 0
    BY FixedBenchIsSound, CooldownAssumption DEF Fresh
  <2>. QED  BY <1>3, <1>7, <2>1 DEF Decisions
<1>8. CASE kind \in {"limit", "outage"}
  BY <1>3, <1>8 DEF Decisions
<1>. QED  BY <1>4, <1>5, <1>6, <1>7, <1>8 DEF Kinds

-----------------------------------------------------------------------------
(* BenchInv speaks of one route at a time. *)
LEMMA BenchInvByRoute ==
  ASSUME BenchInv, NEW r \in Routes
  PROVE  SoundRow(r, row[r]) /\ SoundEntry(memory[r], row[r])
BY DEF BenchInv, MemoryFollowsDisk, GuessesStayShort, SoundRow, SoundEntry

LEMMA BenchInvFromRoutes ==
  ASSUME row' = [r \in Routes |-> row'[r]],
         memory' = [r \in Routes |-> memory'[r]],
         \A r \in Routes :
           SoundRow(r, row'[r]) /\ SoundEntry(memory'[r], row'[r])
  PROVE  BenchInv'
BY DEF BenchInv, MemoryFollowsDisk, GuessesStayShort, SoundRow, SoundEntry

-----------------------------------------------------------------------------
(* One lemma for each action that writes a bench.                          *)

LEMMA SkipKeeps ==
  ASSUME BenchInv, NEW r \in Routes, Skip(r)
  PROVE  BenchInv'
<1>1. /\ row' = row
      /\ memory' = [memory EXCEPT ![r] = IF row[r] # NoBench THEN row[r].left ELSE @]
  BY DEF Skip
<1>2. \A s \in Routes : SoundEntry(memory'[s], row[s])
  BY <1>1, BenchInvByRoute DEF SoundEntry, SoundRow, Benches, BenchInv
<1>. QED  BY <1>1, <1>2, BenchInvByRoute, BenchInvFromRoutes DEF BenchInv

LEMMA StartKeeps ==
  ASSUME BenchInv, NEW a \in Attempts, NEW r \in Routes, Start(a, r)
  PROVE  BenchInv'
<1>1. /\ row' = [row EXCEPT ![r] = NoBench]
      /\ memory' = [memory EXCEPT ![r] = -1]
  BY DEF Start
<1>2. ASSUME NEW s \in Routes
      PROVE  SoundRow(s, row'[s]) /\ SoundEntry(memory'[s], row'[s])
  BY <1>1, BenchInvByRoute, NoBenchIsSound, CooldownAssumption
     DEF SoundEntry, BenchInv
<1>. QED  BY <1>1, <1>2, BenchInvFromRoutes DEF BenchInv

(* What a failure writes to one route: nothing, or a bench that has just   *)
(* begun.                                                                  *)
NewlyBenched(s) ==
  SoundRow(s, row'[s]) /\ row'[s].left > 0 /\ memory'[s] = row'[s].left

LEMMA RetryableFailureWrites ==
  ASSUME BenchInv, SideInv, NEW a \in Attempts, NEW kind \in Kinds, NEW kept,
         NEW late \in BOOLEAN, RetryableFailure(a, kind, kept, late)
  PROVE  /\ row' = [s \in Routes |-> row'[s]]
         /\ memory' = [s \in Routes |-> memory'[s]]
         /\ \A s \in Routes :
              \/ row'[s] = row[s] /\ memory'[s] = memory[s]
              \/ NewlyBenched(s)
<1>. DEFINE r == attempt[a]
            own == OwnTargets(r, kind)
<1>1. r \in Routes
  BY DEF SideInv, RetryableFailure
<1>2. PICK bench \in Decisions(r, kind), sick \in SUBSET Routes :
        LET first == Benched(row, own, bench)
            second == Benched(first, sick, Fresh("heuristic", ModelBench))
        IN /\ row' = IF late
                       THEN Benched(second, {r},
                                    Fresh("heuristic", TruncationBench))
                       ELSE second
           /\ memory' = [s \in Routes |-> IF s \in own \cup sick
                                            THEN row'[s].left ELSE memory[s]]
  <2>. DEFINE streak == kept + 1 >= ModelThreshold
              target(bench) ==
                IF streak THEN ModelTargets(ModelOf[r], Benched(row, own, bench))
                ELSE {}
  <2>1. \A bench : target(bench) \in SUBSET Routes
    BY DEF ModelTargets
  <2>2. PICK bench \in Decisions(r, kind) :
          LET first == Benched(row, own, bench)
              second == Benched(first, target(bench),
                                Fresh("heuristic", ModelBench))
          IN /\ row' = IF late
                         THEN Benched(second, {r},
                                      Fresh("heuristic", TruncationBench))
                         ELSE second
             /\ memory' = [s \in Routes |-> IF s \in own \cup target(bench)
                                              THEN row'[s].left ELSE memory[s]]
    BY DEF RetryableFailure
  <2>. HIDE DEF target
  <2>. QED  BY <2>1, <2>2
<1>3. row' = [s \in Routes |-> row'[s]] /\ memory' = [s \in Routes |-> memory'[s]]
  BY <1>2 DEF Benched
<1>4. ASSUME NEW s \in Routes
      PROVE  \/ row'[s] = row[s] /\ memory'[s] = memory[s]
             \/ NewlyBenched(s)
  <2>1. CASE row'[s] = Fresh("heuristic", TruncationBench) /\ s = r
    <3>1. SoundRow(s, row'[s]) /\ row'[s].left \in 1 .. Longest
      BY <2>1, FixedBenchIsSound, FreshIsABench, CooldownAssumption
         DEF Sources
    <3>2. memory'[s] = row'[s].left
      BY <1>1, <1>2, <2>1 DEF OwnTargets
    <3>. QED  BY <3>1, <3>2 DEF NewlyBenched
  <2>2. CASE s \in sick /\ row'[s] = Fresh("heuristic", ModelBench)
    <3>1. SoundRow(s, row'[s]) /\ row'[s].left \in 1 .. Longest
      BY <2>2, FixedBenchIsSound, FreshIsABench, CooldownAssumption
         DEF Sources
    <3>2. memory'[s] = row'[s].left
      BY <1>2, <2>2
    <3>. QED  BY <3>1, <3>2 DEF NewlyBenched
  <2>3. CASE s \in own /\ row'[s] = bench
    <3>1. kind = "payment" \/ s = r
      BY <2>3 DEF OwnTargets
    <3>2. SoundRow(s, bench) /\ bench.left > 0
      BY <1>1, <3>1, DecisionIsSound
    <3>3. memory'[s] = row'[s].left
      BY <1>2, <2>3
    <3>. QED  BY <2>3, <3>2, <3>3 DEF NewlyBenched
  <2>4. CASE s \notin own /\ s \notin sick /\ row'[s] = row[s]
    BY <1>2, <2>4
  <2>5. \/ row'[s] = Fresh("heuristic", TruncationBench) /\ s = r
        \/ s \in sick /\ row'[s] = Fresh("heuristic", ModelBench)
        \/ s \in own /\ row'[s] = bench
        \/ s \notin own /\ s \notin sick /\ row'[s] = row[s]
    <3>. HIDE DEF own, r
    <3>. QED  BY <1>2 DEF Benched
  <2>. QED  BY <2>1, <2>2, <2>3, <2>4, <2>5
<1>. QED  BY <1>3, <1>4

LEMMA FixedBenchWrites ==
  ASSUME BenchInv, SideInv, NEW a \in Attempts, attempt[a] # None,
         NEW d \in {AuthBench, TruncationBench},
         row' = [row EXCEPT ![attempt[a]] = Fresh("heuristic", d)],
         memory' = [memory EXCEPT ![attempt[a]] = d]
  PROVE  /\ row' = [s \in Routes |-> row'[s]]
         /\ memory' = [s \in Routes |-> memory'[s]]
         /\ \A s \in Routes :
              \/ row'[s] = row[s] /\ memory'[s] = memory[s]
              \/ NewlyBenched(s)
<1>. DEFINE r == attempt[a]
            bench == Fresh("heuristic", d)
<1>1. r \in Routes /\ d \in 1 .. Longest
  BY CooldownAssumption DEF SideInv
<1>2. SoundRow(r, bench) /\ bench.left = d
  BY <1>1, FixedBenchIsSound, FreshIsABench DEF Sources
<1>3. NewlyBenched(r)
  <2>. HIDE DEF bench
  <2>1. row'[r] = bench /\ memory'[r] = d
    BY <1>1 DEF BenchInv, bench
  <2>. QED  BY <1>1, <1>2, <2>1 DEF NewlyBenched
<1>4. \A s \in Routes : s # r => row'[s] = row[s] /\ memory'[s] = memory[s]
  BY DEF BenchInv
<1>. QED  BY <1>3, <1>4 DEF BenchInv

(* The failure of a request: one of the three actions that end it so. *)
Fails(a) ==
  \/ \E kind \in Kinds, kept \in 0 .. ModelThreshold, late \in BOOLEAN :
       RetryableFailure(a, kind, kept, late)
  \/ AuthFailure(a)
  \/ \E late \in BOOLEAN : Spared(a, late)

LEMMA FailureWrites ==
  ASSUME BenchInv, SideInv, NEW a \in Attempts, Fails(a)
  PROVE  /\ row' = [s \in Routes |-> row'[s]]
         /\ memory' = [s \in Routes |-> memory'[s]]
         /\ \A s \in Routes :
              \/ row'[s] = row[s] /\ memory'[s] = memory[s]
              \/ NewlyBenched(s)
<1>1. CASE UNCHANGED benches
  BY <1>1 DEF benches, BenchInv
<1>2. CASE AuthFailure(a)
  BY <1>2, FixedBenchWrites DEF AuthFailure
<1>3. ASSUME NEW late \in BOOLEAN, Spared(a, late)
      PROVE  \/ UNCHANGED benches
             \/ /\ attempt[a] # None
                /\ row' = [row EXCEPT ![attempt[a]] =
                             Fresh("heuristic", TruncationBench)]
                /\ memory' = [memory EXCEPT ![attempt[a]] = TruncationBench]
  BY <1>3 DEF Spared
<1>. QED  BY <1>1, <1>2, <1>3, RetryableFailureWrites, FixedBenchWrites DEF Fails

LEMMA FailureKeeps ==
  ASSUME BenchInv, SideInv, NEW a \in Attempts, Fails(a)
  PROVE  BenchInv'
<1>1. ASSUME NEW s \in Routes
      PROVE  SoundRow(s, row'[s]) /\ SoundEntry(memory'[s], row'[s])
  <2>1. CASE row'[s] = row[s] /\ memory'[s] = memory[s]
    BY <2>1, BenchInvByRoute
  <2>2. CASE NewlyBenched(s)
    BY <2>2 DEF NewlyBenched, SoundEntry, SoundRow, Benches
  <2>. QED  BY <2>1, <2>2, FailureWrites
<1>. QED  BY <1>1, FailureWrites, BenchInvFromRoutes

(* The operator's resets, a restart and a valid probe all take benches     *)
(* away and what memory knows of them.                                     *)
LEMMA LiftingKeeps ==
  ASSUME BenchInv, NEW lifted \in SUBSET Routes, NEW forgotten \in SUBSET Routes,
         lifted \subseteq forgotten,
         row' = [r \in Routes |-> IF r \in lifted THEN NoBench ELSE row[r]],
         memory' = [r \in Routes |-> IF r \in forgotten THEN -1 ELSE memory[r]]
  PROVE  BenchInv'
<1>1. ASSUME NEW r \in Routes
      PROVE  SoundRow(r, row'[r]) /\ SoundEntry(memory'[r], row'[r])
  BY BenchInvByRoute, NoBenchIsSound, CooldownAssumption DEF SoundEntry
<1>. QED  BY <1>1, BenchInvFromRoutes

LEMMA OperatorKeeps ==
  ASSUME BenchInv, Operator
  PROVE  BenchInv'
<1>1. CASE ClearAll
  <2>1. /\ row' = [r \in Routes |-> IF r \in Routes THEN NoBench ELSE row[r]]
        /\ memory' = [r \in Routes |-> IF r \in Routes THEN -1 ELSE memory[r]]
    BY <1>1 DEF ClearAll
  <2>. QED  BY <2>1, LiftingKeeps
<1>2. ASSUME NEW k \in Keys, ClearKey(k)
      PROVE  BenchInv'
  <2>. DEFINE its == {r \in Routes : KeyOf[r] = k}
  <2>1. /\ row' = [r \in Routes |-> IF r \in its THEN NoBench ELSE row[r]]
        /\ memory' = [r \in Routes |-> IF r \in its THEN -1 ELSE memory[r]]
    BY <1>2 DEF ClearKey
  <2>. HIDE DEF its
  <2>2. its \in SUBSET Routes
    BY DEF its
  <2>. QED  BY <2>1, <2>2, LiftingKeeps
<1>. QED  BY <1>1, <1>2 DEF Operator

LEMMA RestartKeeps ==
  ASSUME BenchInv, Restart
  PROVE  BenchInv'
<1>. DEFINE expired == {r \in Routes : row[r].left <= 0}
<1>1. /\ row' = [r \in Routes |-> IF r \in expired THEN NoBench ELSE row[r]]
      /\ memory' = [r \in Routes |-> IF r \in Routes THEN -1 ELSE memory[r]]
  BY DEF Restart
<1>. HIDE DEF expired
<1>2. expired \in SUBSET Routes
  BY DEF expired
<1>. QED  BY <1>1, <1>2, LiftingKeeps

LEMMA ProbeAnswersKeeps ==
  ASSUME BenchInv, SideInv, NEW k \in Keys, NEW valid \in BOOLEAN,
         ProbeAnswers(k, valid)
  PROVE  BenchInv'
<1>1. CASE valid
  <2>1. /\ row' = [r \in Routes |-> IF r \in found[k] THEN NoBench ELSE row[r]]
        /\ memory' = [r \in Routes |-> IF r \in found[k] THEN -1 ELSE memory[r]]
    BY <1>1 DEF ProbeAnswers, Early
  <2>2. found[k] \in SUBSET Routes
    BY DEF SideInv
  <2>. QED  BY <2>1, <2>2, LiftingKeeps
<1>2. CASE ~valid
  <2>1. UNCHANGED benches
    BY <1>2 DEF ProbeAnswers
  <2>. QED  BY <2>1 DEF benches, BenchInv, MemoryFollowsDisk, GuessesStayShort
<1>. QED  BY <1>1, <1>2

LEMMA TickKeeps ==
  ASSUME BenchInv, Tick
  PROVE  BenchInv'
<1>1. /\ row' = [r \in Routes |-> [row[r] EXCEPT !.left = Most(-1, @ - 1)]]
      /\ memory' = [r \in Routes |-> Most(-1, memory[r] - 1)]
  BY DEF Tick
<1>2. ASSUME NEW r \in Routes
      PROVE  SoundRow(r, row'[r]) /\ SoundEntry(memory'[r], row'[r])
  <2>1. SoundRow(r, row[r]) /\ SoundEntry(memory[r], row[r])
    BY BenchInvByRoute
  <2>2. /\ row'[r].source = row[r].source /\ row'[r].total = row[r].total
        /\ row'[r].left = Most(-1, row[r].left - 1)
        /\ row'[r] \in Benches
    BY <1>1, <2>1, CooldownAssumption DEF SoundRow, Benches, Most
  <2>3. SoundRow(r, row'[r])
    BY <2>1, <2>2 DEF SoundRow
  <2>4. SoundEntry(memory'[r], row'[r])
    BY <1>1, <2>1, <2>2, CooldownAssumption
       DEF SoundEntry, SoundRow, Benches, Most
  <2>. QED  BY <2>3, <2>4
<1>. QED  BY <1>1, <1>2, BenchInvFromRoutes

-----------------------------------------------------------------------------
(* The rest of the state keeps its type: the delay of a probe that failed  *)
(* stays within the longest one, and a streak starts over at its limit.    *)

LEMMA PaceStaysInRange ==
  ASSUME NEW k \in Keys, NEW paces \in [known : BOOLEAN, backoff : 0 .. ProbeMax,
                                        wait : 0 .. Most(ProbeMax, Stagger)],
         NEW ticks \in 0 .. ProbeMax
  PROVE  /\ Backoff(paces.backoff) \in 0 .. ProbeMax
         /\ Most(0, Backoff(paces.backoff) - ticks)
              \in 0 .. Most(ProbeMax, Stagger)
         /\ Most(0, paces.wait - 1) \in 0 .. Most(ProbeMax, Stagger)
         /\ Least(ticks + 1, ProbeMax) \in 0 .. ProbeMax
         /\ 0 .. Stagger \subseteq 0 .. Most(ProbeMax, Stagger)
         /\ 0 \in 0 .. Most(ProbeMax, Stagger)
<1>1. /\ ProbeBase \in Nat /\ ProbeMax \in Nat /\ Stagger \in Nat
      /\ ProbeBase <= ProbeMax
  BY CooldownAssumption
<1>2. Backoff(paces.backoff) \in 0 .. ProbeMax
  BY <1>1 DEF Backoff, Least
<1>3. Most(0, Backoff(paces.backoff) - ticks) \in 0 .. Most(ProbeMax, Stagger)
  <2>. HIDE DEF Backoff
  <2>. QED  BY <1>1, <1>2 DEF Most
<1>4. Most(0, paces.wait - 1) \in 0 .. Most(ProbeMax, Stagger)
  BY <1>1 DEF Most
<1>5. Least(ticks + 1, ProbeMax) \in 0 .. ProbeMax
  BY <1>1 DEF Least
<1>6. /\ 0 .. Stagger \subseteq 0 .. Most(ProbeMax, Stagger)
      /\ 0 \in 0 .. Most(ProbeMax, Stagger)
  BY <1>1 DEF Most
<1>. QED  BY <1>2, <1>3, <1>4, <1>5, <1>6

LEMMA ZerosAreInRange ==
  /\ 0 \in 0 .. ModelThreshold - 1
  /\ 0 \in 0 .. ProbeMax
  /\ Unknown \in [known : BOOLEAN, backoff : 0 .. ProbeMax,
                  wait : 0 .. Most(ProbeMax, Stagger)]
BY CooldownAssumption DEF Unknown, Most

LEMMA AttemptEndKeepsSide ==
  ASSUME SideInv, NEW a \in Attempts,
         attempt' = [attempt EXCEPT ![a] = None],
         failures' \in [Models -> 0 .. ModelThreshold - 1],
         UNCHANGED probing
  PROVE  SideInv'
BY DEF SideInv, probing

LEMMA StepKeepsSide ==
  ASSUME SideInv, Next
  PROVE  SideInv'
<1>. USE DEF probing
<1>1. ASSUME NEW r \in Routes, Skip(r)
      PROVE  SideInv'
  BY <1>1 DEF Skip, SideInv
<1>2. ASSUME NEW a \in Attempts, NEW r \in Routes, Start(a, r)
      PROVE  SideInv'
  BY <1>2 DEF Start, SideInv
<1>3. ASSUME NEW a \in Attempts, NEW kind \in Kinds,
             NEW kept \in 0 .. ModelThreshold, NEW late \in BOOLEAN,
             RetryableFailure(a, kind, kept, late)
      PROVE  SideInv'
  <2>. DEFINE m == ModelOf[attempt[a]]
  <2>1. /\ attempt' = [attempt EXCEPT ![a] = None]
        /\ failures' = [failures EXCEPT ![m] =
                          IF kept + 1 >= ModelThreshold THEN 0 ELSE kept + 1]
        /\ UNCHANGED probing
    BY <1>3 DEF RetryableFailure
  <2>2. failures' \in [Models -> 0 .. ModelThreshold - 1]
    <3>1. (IF kept + 1 >= ModelThreshold THEN 0 ELSE kept + 1)
            \in 0 .. ModelThreshold - 1
      BY CooldownAssumption
    <3>. QED  BY <2>1, <3>1 DEF SideInv
  <2>. QED  BY <2>1, <2>2, AttemptEndKeepsSide
<1>4. ASSUME NEW a \in Attempts, NEW late \in BOOLEAN,
             AuthFailure(a) \/ Spared(a, late) \/ Success(a)
      PROVE  SideInv'
  <2>1. /\ attempt' = [attempt EXCEPT ![a] = None]
        /\ UNCHANGED probing
        /\ \/ failures' = failures
           \/ failures' = [failures EXCEPT ![ModelOf[attempt[a]]] = 0]
    BY <1>4 DEF AuthFailure, Spared, Success
  <2>2. failures' \in [Models -> 0 .. ModelThreshold - 1]
    BY <2>1, ZerosAreInRange DEF SideInv
  <2>. QED  BY <2>1, <2>2, AttemptEndKeepsSide
<1>5. CASE Operator
  BY <1>5, ZerosAreInRange DEF Operator, ClearKey, ClearAll, SideInv
<1>6. CASE Restart
  BY <1>6, ZerosAreInRange DEF Restart, SideInv
<1>7. CASE PassBegins
  <2>. DEFINE Paces == [known : BOOLEAN, backoff : 0 .. ProbeMax,
                        wait : 0 .. Most(ProbeMax, Stagger)]
  <2>1. \A k \in Keys : Kept(k) \in Paces
    BY ZerosAreInRange DEF SideInv, Kept
  <2>2. PICK sighted \in SUBSET Keys, jitter \in [Keys -> 0 .. Stagger] :
          pace' = [k \in Keys |->
                     IF k \in sighted
                       THEN [known |-> TRUE, backoff |-> 0, wait |-> jitter[k]]
                       ELSE Kept(k)]
    <3>1. SUBSET Unsighted \subseteq SUBSET Keys
      BY DEF Unsighted, RipeKeys
    <3>. QED  BY <1>7, <3>1 DEF PassBegins
  <2>3. \A k \in Keys :
          [known |-> TRUE, backoff |-> 0, wait |-> jitter[k]] \in Paces
    BY CooldownAssumption DEF Most
  <2>4. pace' \in [Keys -> Paces]
    <3>. HIDE DEF Paces
    <3>. QED  BY <2>1, <2>2, <2>3
  <2>5. found' \in [Keys -> SUBSET Routes]
    BY <1>7 DEF PassBegins, RipeOf, Probeable
  <2>6. age' = 0 /\ UNCHANGED <<failures, attempt>>
    BY <1>7 DEF PassBegins
  <2>. QED  BY <2>4, <2>5, <2>6, ZerosAreInRange DEF SideInv
<1>8. ASSUME NEW k \in Keys, NEW valid \in BOOLEAN, ProbeAnswers(k, valid)
      PROVE  SideInv'
  <2>1. \/ pace' = [pace EXCEPT ![k] = Unknown]
        \/ pace' = [pace EXCEPT ![k] =
                      [known |-> TRUE, backoff |-> Backoff(pace[k].backoff),
                       wait |-> Most(0, Backoff(pace[k].backoff) - age)]]
    BY <1>8 DEF ProbeAnswers
  <2>2. /\ found' = [found EXCEPT ![k] = {}]
        /\ UNCHANGED <<failures, attempt, age>>
    BY <1>8 DEF ProbeAnswers
  <2>3. /\ Backoff(pace[k].backoff) \in 0 .. ProbeMax
        /\ Most(0, Backoff(pace[k].backoff) - age)
             \in 0 .. Most(ProbeMax, Stagger)
    BY PaceStaysInRange DEF SideInv
  <2>4. [known |-> TRUE, backoff |-> Backoff(pace[k].backoff),
         wait |-> Most(0, Backoff(pace[k].backoff) - age)]
          \in [known : BOOLEAN, backoff : 0 .. ProbeMax,
               wait : 0 .. Most(ProbeMax, Stagger)]
    BY <2>3
  <2>5. pace' \in [Keys -> [known : BOOLEAN, backoff : 0 .. ProbeMax,
                           wait : 0 .. Most(ProbeMax, Stagger)]]
    BY <2>1, <2>4, ZerosAreInRange DEF SideInv
  <2>. QED  BY <2>2, <2>5 DEF SideInv
<1>9. CASE Tick
  <2>1. \A k \in Keys :
          [pace[k] EXCEPT !.wait = Most(0, @ - 1)]
            \in [known : BOOLEAN, backoff : 0 .. ProbeMax,
                 wait : 0 .. Most(ProbeMax, Stagger)]
    <3>1. ASSUME NEW k \in Keys
          PROVE  Most(0, pace[k].wait - 1) \in 0 .. Most(ProbeMax, Stagger)
      BY PaceStaysInRange DEF SideInv
    <3>. QED  BY <3>1 DEF SideInv
  <2>2. age' \in 0 .. ProbeMax
    BY <1>9, CooldownAssumption DEF Tick, SideInv, Least
  <2>. QED  BY <1>9, <2>1, <2>2 DEF Tick, SideInv
<1>. QED  BY <1>1, <1>2, <1>3, <1>4, <1>5, <1>6, <1>7, <1>8, <1>9 DEF Next

-----------------------------------------------------------------------------
LEMMA InitHolds == Init => CInv
<1>. SUFFICES ASSUME Init PROVE CInv
  OBVIOUS
<1>1. BenchInv
  BY CooldownAssumption
     DEF Init, BenchInv, MemoryFollowsDisk, GuessesStayShort, NoBench, Benches
<1>2. SideInv
  BY ZerosAreInRange DEF Init, SideInv
<1>. QED  BY <1>1, <1>2, CInvSplits

LEMMA StepKeeps == CInv /\ [Next]_vars => CInv'
<1>. SUFFICES ASSUME CInv, [Next]_vars PROVE CInv'
  OBVIOUS
<1>0. BenchInv /\ SideInv
  BY CInvSplits
<1>1. CASE UNCHANGED vars
  BY <1>1 DEF vars, CInv, TypeOK, MemoryFollowsDisk, GuessesStayShort
<1>2. CASE Next
  <2>1. SideInv'
    BY <1>0, <1>2, StepKeepsSide
  <2>2. UNCHANGED benches => BenchInv'
    BY <1>0 DEF benches, BenchInv, MemoryFollowsDisk, GuessesStayShort
  <2>3. ASSUME NEW a \in Attempts, Success(a)
        PROVE  BenchInv'
    BY <2>2, <2>3 DEF Success
  <2>4. PassBegins => BenchInv'
    BY <2>2 DEF PassBegins
  <2>5. BenchInv'
    BY <1>0, <1>2, <2>3, <2>4, SkipKeeps, StartKeeps, FailureKeeps,
       OperatorKeeps, RestartKeeps, ProbeAnswersKeeps, TickKeeps
       DEF Next, Fails
  <2>. QED  BY <2>1, <2>5 DEF CInv, BenchInv, SideInv, TypeOK
<1>. QED  BY <1>1, <1>2

(* The strengthening is invariant. *)
THEOREM CooldownsInvariant == Spec => []CInv
BY InitHolds, StepKeeps, PTL DEF Spec

(* Every variable keeps its type. *)
THEOREM BenchesTypeCorrect == Spec => []TypeOK
BY CooldownsInvariant, PTL DEF CInv

(* Memory never holds a bench that the table does not. *)
THEOREM MemoryHolds == Spec => []MemoryFollowsDisk
BY CooldownsInvariant, PTL DEF CInv

(* Only a provider's own time outlasts what the server may guess. *)
THEOREM GuessesHold == Spec => []GuessesStayShort
BY CooldownsInvariant, PTL DEF CInv

-----------------------------------------------------------------------------
(* What a step may not do.                                                 *)

LEMMA FailuresSpareNeighbours ==
  ASSUME CInv, [Next]_vars, NEW a \in Attempts, NEW r \in Routes,
         attempt[a] # None, attempt'[a] = None,
         KeyOf[r] # KeyOf[attempt[a]], row[r].left > 0, ~Restart
  PROVE  row'[r].left >= row[r].left
<1>0. BenchInv /\ SideInv
  BY CInvSplits
<1>1. row[r].left \in Nat /\ ModelBench \in 1 .. Longest
  BY <1>0, CooldownAssumption DEF BenchInv, Benches
<1>2. ASSUME NEW kind \in Kinds, NEW kept \in 0 .. ModelThreshold,
             NEW late \in BOOLEAN, RetryableFailure(a, kind, kept, late)
      PROVE  row'[r].left >= row[r].left
  <2>. DEFINE f == attempt[a]
              own == OwnTargets(f, kind)
              streak == kept + 1 >= ModelThreshold
              sick(bench) ==
                IF streak THEN ModelTargets(ModelOf[f], Benched(row, own, bench))
                ELSE {}
              second(bench) == Benched(Benched(row, own, bench), sick(bench),
                                       Fresh("heuristic", ModelBench))
  <2>1. PICK bench \in Decisions(f, kind) :
          row' = IF late
                   THEN Benched(second(bench), {f},
                                Fresh("heuristic", TruncationBench))
                   ELSE second(bench)
    BY <1>2 DEF RetryableFailure
  <2>2. r \notin own /\ r # f
    BY DEF OwnTargets
  <2>3. row'[r] = second(bench)[r]
    <3>. HIDE DEF second, own, f
    <3>1. second(bench) = [s \in Routes |-> second(bench)[s]]
      BY DEF second, Benched
    <3>. QED  BY <2>1, <2>2, <3>1 DEF Benched
  <2>4. Benched(row, own, bench)[r] = row[r]
    <3>. HIDE DEF own
    <3>. QED  BY <2>2 DEF Benched
  <2>5. CASE r \in sick(bench)
    <3>1. row[r].left < ModelBench
      <4>. HIDE DEF own
      <4>. QED  BY <2>4, <2>5 DEF ModelTargets
    <3>2. second(bench)[r] = Fresh("heuristic", ModelBench)
      <4>. HIDE DEF sick, own
      <4>. QED  BY <2>5 DEF Benched
    <3>. QED  BY <1>1, <2>3, <3>1, <3>2 DEF Fresh
  <2>6. CASE r \notin sick(bench)
    <3>. HIDE DEF sick, own
    <3>1. second(bench)[r] = row[r]
      BY <2>4, <2>6 DEF Benched
    <3>. QED  BY <1>1, <2>3, <3>1
  <2>. QED  BY <2>5, <2>6
<1>3. ASSUME AuthFailure(a) \/ \E late \in BOOLEAN : Spared(a, late)
      PROVE  row'[r].left >= row[r].left
  <2>1. row'[r] = row[r]
    BY <1>0, <1>3 DEF AuthFailure, Spared, BenchInv, benches
  <2>. QED  BY <1>1, <2>1
<1>4. ASSUME NEW b \in Attempts, Success(b)
      PROVE  row'[r].left >= row[r].left
  BY <1>1, <1>4 DEF Success, benches
<1>5. attempt' # attempt
  OBVIOUS
<1>6. Fails(a) \/ \E b \in Attempts : Success(b)
  <2>1. \/ \E b \in Attempts, s \in Routes : Start(b, s)
        \/ \E b \in Attempts : Fails(b)
        \/ \E b \in Attempts : Success(b)
    BY <1>5 DEF vars, probing, Next, Skip, Operator, ClearKey, ClearAll,
       PassBegins, ProbeAnswers, Tick, Fails
  <2>2. ASSUME NEW b \in Attempts, NEW s \in Routes, Start(b, s)
        PROVE  FALSE
    BY <1>0, <2>2, CooldownAssumption DEF Start, SideInv
  <2>3. ASSUME NEW b \in Attempts, Fails(b)
        PROVE  b = a
    <3>1. attempt' = [attempt EXCEPT ![b] = None]
      BY <2>3 DEF Fails, RetryableFailure, AuthFailure, Spared
    <3>. QED  BY <1>0, <3>1 DEF SideInv
  <2>. QED  BY <2>1, <2>2, <2>3
<1>. QED  BY <1>2, <1>3, <1>4, <1>6 DEF Fails

(* On the routes of other keys a failure writes the bench of a streak. *)
LEMMA FailuresWriteGuessesElsewhere ==
  ASSUME BenchInv, SideInv, NEW a \in Attempts, Fails(a), NEW r \in Routes,
         KeyOf[r] # KeyOf[attempt[a]]
  PROVE  row'[r] = row[r] \/ row'[r].source = "heuristic"
<1>. DEFINE f == attempt[a]
<1>1. r # f
  OBVIOUS
<1>2. ASSUME AuthFailure(a) \/ \E late \in BOOLEAN : Spared(a, late)
      PROVE  row'[r] = row[r]
  BY <1>1, <1>2 DEF AuthFailure, Spared, BenchInv, benches
<1>3. ASSUME NEW kind \in Kinds, NEW kept \in 0 .. ModelThreshold,
             NEW late \in BOOLEAN, RetryableFailure(a, kind, kept, late)
      PROVE  row'[r] = row[r] \/ row'[r] = Fresh("heuristic", ModelBench)
  <2>. DEFINE own == OwnTargets(f, kind)
              streak == kept + 1 >= ModelThreshold
              sick(bench) ==
                IF streak THEN ModelTargets(ModelOf[f], Benched(row, own, bench))
                ELSE {}
              second(bench) == Benched(Benched(row, own, bench), sick(bench),
                                       Fresh("heuristic", ModelBench))
  <2>1. PICK bench \in Decisions(f, kind) :
          row' = IF late
                   THEN Benched(second(bench), {f},
                                Fresh("heuristic", TruncationBench))
                   ELSE second(bench)
    BY <1>3 DEF RetryableFailure
  <2>2. r \notin own
    BY DEF OwnTargets
  <2>3. second(bench)[r] \in {row[r], Fresh("heuristic", ModelBench)}
    <3>. HIDE DEF own, sick, f
    <3>. QED  BY <2>2 DEF Benched
  <2>4. row'[r] = second(bench)[r]
    <3>. HIDE DEF second, own, f
    <3>. QED  BY <1>1, <2>1 DEF Benched
  <2>. QED  BY <2>3, <2>4
<1>. QED  BY <1>2, <1>3 DEF Fails, Fresh

(* A failure makes no route of another key come back sooner. *)
THEOREM NeighboursHold == Spec => NeighboursKeepTheirBench
<1>1. CInv /\ [Next]_vars
        => [\A a \in Attempts, r \in Routes :
              /\ attempt[a] # None
              /\ attempt'[a] = None
              /\ KeyOf[r] # KeyOf[attempt[a]]
              /\ row[r].left > 0
              => row'[r].left >= row[r].left \/ Restart]_vars
  BY FailuresSpareNeighbours
<1>. QED  BY <1>1, CooldownsInvariant, PTL DEF Spec, NeighboursKeepTheirBench

-----------------------------------------------------------------------------
(* The probes, and what becomes of a bench.                                *)

(* A probe that is out has found benches of its own key only. *)
ProbesStayOnTheirKey == \A k \in Keys : \A r \in found[k] : KeyOf[r] = k

(* Which steps begin or end a probe. *)
LEMMA FoundMoves ==
  ASSUME CInv, Next, found' # found
  PROVE  \/ PassBegins
         \/ Restart
         \/ \E k \in Keys, valid \in BOOLEAN : ProbeAnswers(k, valid)
BY DEF Next, probing, Skip, Start, RetryableFailure, AuthFailure, Spared,
   Success, Operator, ClearKey, ClearAll, Tick

LEMMA AnswerEndsOneProbe ==
  ASSUME CInv, NEW k \in Keys, NEW valid \in BOOLEAN, ProbeAnswers(k, valid)
  PROVE  /\ found[k] # {}
         /\ found' = [found EXCEPT ![k] = {}]
         /\ UNCHANGED attempt
         /\ \A r \in Routes :
              row'[r] = row[r] \/ (r \in found[k] /\ row'[r] = NoBench)
<1>1. found[k] # {} /\ found' = [found EXCEPT ![k] = {}] /\ UNCHANGED attempt
  BY DEF ProbeAnswers
<1>2. CASE valid
  <2>1. row' = [r \in Routes |-> IF r \in found[k] THEN NoBench ELSE row[r]]
    BY <1>2 DEF ProbeAnswers
  <2>. QED  BY <1>1, <2>1
<1>3. CASE ~valid
  BY <1>1, <1>3 DEF ProbeAnswers, benches
<1>. QED  BY <1>2, <1>3

LEMMA StepKeepsProbes ==
  ASSUME CInv, ProbesStayOnTheirKey, [Next]_vars
  PROVE  ProbesStayOnTheirKey'
<1>0. SideInv
  BY CInvSplits
<1>1. CASE found' = found
  BY <1>1 DEF ProbesStayOnTheirKey
<1>2. CASE found' # found
  <2>1. Next
    BY <1>2 DEF vars
  <2>2. CASE PassBegins
    BY <2>2 DEF PassBegins, RipeOf, ProbesStayOnTheirKey
  <2>3. CASE Restart
    BY <2>3 DEF Restart, ProbesStayOnTheirKey
  <2>4. ASSUME NEW k \in Keys, NEW valid \in BOOLEAN, ProbeAnswers(k, valid)
        PROVE  ProbesStayOnTheirKey'
    BY <1>0, <2>4, AnswerEndsOneProbe DEF SideInv, ProbesStayOnTheirKey
  <2>. QED  BY <1>2, <2>1, <2>2, <2>3, <2>4, FoundMoves
<1>. QED  BY <1>1, <1>2

LEMMA ProbesInvariant == Spec => [](CInv /\ ProbesStayOnTheirKey)
<1>1. Init => ProbesStayOnTheirKey
  BY DEF Init, ProbesStayOnTheirKey
<1>2. CInv /\ ProbesStayOnTheirKey /\ [Next]_vars => ProbesStayOnTheirKey'
  BY StepKeepsProbes
<1>. QED  BY <1>1, <1>2, CooldownsInvariant, PTL DEF Spec

(* Every step that may touch a bench, by what it does to the requests. *)
LEMMA BenchSteps ==
  ASSUME Next, row' # row
  PROVE  \/ \E a \in Attempts, r \in Routes : Start(a, r)
         \/ \E a \in Attempts : Fails(a)
         \/ Operator \/ Restart \/ Tick
         \/ \E k \in Keys, valid \in BOOLEAN : ProbeAnswers(k, valid)
<1>1. /\ ~PassBegins
      /\ \A r \in Routes : ~Skip(r)
      /\ \A a \in Attempts : ~Success(a)
  BY DEF PassBegins, Skip, Success, benches
<1>. QED  BY <1>1 DEF Next, Fails

LEMMA FailureEndsOneRequest ==
  ASSUME CInv, NEW a \in Attempts, Fails(a)
  PROVE  /\ attempt[a] \in Routes
         /\ attempt' = [attempt EXCEPT ![a] = None]
         /\ attempt'[a] = None
         /\ UNCHANGED found
<1>1. /\ attempt[a] # None
      /\ attempt' = [attempt EXCEPT ![a] = None]
      /\ UNCHANGED found
  BY DEF Fails, RetryableFailure, AuthFailure, Spared, probing
<1>. QED  BY <1>1, CInvSplits DEF SideInv

LEMMA CutBenchesWereServed ==
  ASSUME CInv, ProbesStayOnTheirKey, [Next]_vars, NEW r \in Routes,
         row[r].left > 0, row'[r].left < row[r].left
  PROVE  \/ Tick /\ row'[r].left = row[r].left - 1
         \/ Operator
         \/ r \in found[KeyOf[r]] /\ found'[KeyOf[r]] = {}
         \/ RequestOfItsKeyFails(r) /\ row'[r].left > 0
<1>0. BenchInv /\ SideInv /\ row[r].left \in -1 .. Longest /\ Longest \in Nat
  BY CInvSplits, CooldownAssumption DEF BenchInv, Benches
<1>1. row' # row /\ row'[r] # row[r] /\ Next
  BY <1>0 DEF vars
<1>2. ~Restart
  BY <1>0, <1>1 DEF Restart
<1>3. ASSUME NEW a \in Attempts, NEW s \in Routes, Start(a, s)
      PROVE  FALSE
  <2>1. row[s].left < 0
    <3>1. row[s].left \in -1 .. Longest
      BY <1>0 DEF BenchInv, Benches
    <3>. QED  BY <1>3, <3>1, CooldownAssumption DEF Start, OnCooldown, NoBench
  <2>2. s # r
    BY <1>0, <2>1
  <2>3. row'[r] = row[r]
    BY <1>0, <1>3, <2>2 DEF Start, BenchInv
  <2>. QED  BY <1>1, <2>3
<1>4. ASSUME NEW a \in Attempts, Fails(a)
      PROVE  RequestOfItsKeyFails(r) /\ row'[r].left > 0
  <2>1. attempt[a] \in Routes /\ attempt'[a] = None
    BY <1>4, FailureEndsOneRequest
  <2>2. attempt[a] # None
    BY <2>1, CooldownAssumption
  <2>3. row'[r].left > 0 /\ row'[r].left \in -1 .. Longest
    <3>1. NewlyBenched(r)
      BY <1>0, <1>1, <1>4, FailureWrites
    <3>. QED  BY <3>1 DEF NewlyBenched, SoundRow, Benches
  <2>4. KeyOf[r] = KeyOf[attempt[a]]
    <3>. SUFFICES ASSUME KeyOf[r] # KeyOf[attempt[a]] PROVE FALSE
      OBVIOUS
    <3>1. row'[r].left >= row[r].left
      BY <1>2, <2>1, <2>2, FailuresSpareNeighbours
    <3>. QED  BY <1>0, <2>3, <3>1
  <2>. QED  BY <2>1, <2>2, <2>3, <2>4 DEF RequestOfItsKeyFails
<1>5. ASSUME NEW k \in Keys, NEW valid \in BOOLEAN, ProbeAnswers(k, valid)
      PROVE  r \in found[KeyOf[r]] /\ found'[KeyOf[r]] = {}
  <2>1. found' = [found EXCEPT ![k] = {}] /\ r \in found[k]
    BY <1>1, <1>5, AnswerEndsOneProbe
  <2>2. KeyOf[r] = k
    BY <2>1 DEF ProbesStayOnTheirKey
  <2>. QED  BY <1>0, <2>1, <2>2 DEF SideInv
<1>6. CASE Tick
  <2>1. row'[r].left = Most(-1, row[r].left - 1)
    BY <1>0, <1>6 DEF Tick, BenchInv, Benches
  <2>. QED  BY <1>0, <1>6, <2>1 DEF Most
<1>. QED  BY <1>1, <1>2, <1>3, <1>4, <1>5, <1>6, BenchSteps

(* BenchesAreServed (Cooldowns): isOnCooldown() and the start of a request,*)
(* setCooldown(), benchKeyAcrossPlatform(), noteModelFailure(), the probe  *)
(* pass, clearCooldownEarly() and the start at boot lose no bench.  Where  *)
(* a time a provider stated is cut short, as in the run stated_time_cut,   *)
(* it was by a request or a probe of its own key.                          *)
THEOREM BenchesHold == Spec => BenchesAreServed
<1>1. CInv /\ ProbesStayOnTheirKey /\ [Next]_vars
        => [\A r \in Routes :
              row[r].left > 0 /\ row'[r].left < row[r].left =>
                \/ Tick /\ row'[r].left = row[r].left - 1
                \/ Operator
                \/ r \in found[KeyOf[r]] /\ found'[KeyOf[r]] = {}
                \/ RequestOfItsKeyFails(r) /\ row'[r].left > 0]_vars
  BY CutBenchesWereServed
<1>. QED  BY <1>1, ProbesInvariant, PTL DEF Spec, BenchesAreServed

-----------------------------------------------------------------------------
(* A bench that is more than the server's own guess. *)
Fact(bench) == bench.source \notin {"none", "heuristic"}

LEMMA FactsUnderProbeAreNews ==
  ASSUME CInv, [Next]_vars, NEW k \in Keys, NEW r \in found'[k],
         ProbesStayOnTheirKey, Fact(row'[r])
  PROVE  \/ r \in found[k] /\ Fact(row[r])
         \/ RequestOfItsKeyFails(r)
<1>0. BenchInv /\ SideInv /\ SideInv' /\ r \in Routes
  <2>1. SideInv /\ SideInv' /\ BenchInv
    BY StepKeeps, CInvSplits DEF CInv, SideInv, TypeOK
  <2>. QED  BY <2>1 DEF SideInv
<1>1. ASSUME row'[r] = row[r] \/ row'[r].source = row[r].source, found' = found
      PROVE  r \in found[k] /\ Fact(row[r])
  BY <1>1 DEF Fact
<1>2. ~Fact(NoBench)
  BY DEF Fact, NoBench
<1>3. CASE found' # found
  <2>1. Next
    BY <1>3 DEF vars
  <2>2. ~PassBegins
    <3>. SUFFICES ASSUME PassBegins PROVE FALSE
      OBVIOUS
    <3>1. row' = row /\ r \in Probeable
      BY <1>0 DEF PassBegins, benches, RipeOf
    <3>. QED  BY <3>1 DEF Probeable, Fact
  <2>3. ~Restart
    BY DEF Restart
  <2>4. ASSUME NEW q \in Keys, NEW valid \in BOOLEAN, ProbeAnswers(q, valid)
        PROVE  r \in found[k] /\ Fact(row[r])
    <3>1. /\ found' = [found EXCEPT ![q] = {}]
          /\ row'[r] = row[r] \/ row'[r] = NoBench
      BY <1>0, <2>4, AnswerEndsOneProbe
    <3>. QED  BY <1>0, <1>2, <3>1 DEF SideInv
  <2>. QED  BY <1>3, <2>1, <2>2, <2>3, <2>4, FoundMoves
<1>4. CASE found' = found /\ row'[r] = row[r]
  BY <1>1, <1>4
<1>5. CASE found' = found /\ row'[r] # row[r]
  <2>1. Next /\ row' # row
    BY <1>5 DEF vars
  <2>2. ASSUME NEW a \in Attempts, NEW s \in Routes, Start(a, s)
        PROVE  FALSE
    BY <1>0, <1>2, <1>5, <2>2 DEF Start, BenchInv
  <2>3. ASSUME NEW a \in Attempts, Fails(a)
        PROVE  RequestOfItsKeyFails(r)
    <3>1. attempt[a] \in Routes /\ attempt[a] # None /\ attempt'[a] = None
      BY <2>3, FailureEndsOneRequest, CooldownAssumption
    <3>2. KeyOf[r] = KeyOf[attempt[a]]
      BY <1>0, <1>5, <2>3, FailuresWriteGuessesElsewhere DEF Fact
    <3>. QED  BY <3>1, <3>2 DEF RequestOfItsKeyFails
  <2>4. ~Operator /\ ~Restart
    BY <1>0, <1>2, <1>5 DEF Operator, ClearAll, ClearKey, Restart
  <2>5. ASSUME NEW q \in Keys, NEW valid \in BOOLEAN, ProbeAnswers(q, valid)
        PROVE  FALSE
    BY <1>0, <1>2, <1>5, <2>5, AnswerEndsOneProbe
  <2>6. CASE Tick
    <3>1. row'[r].source = row[r].source
      BY <1>0, <2>6 DEF Tick, BenchInv, Benches
    <3>. QED  BY <1>1, <1>5, <3>1
  <2>. QED  BY <2>1, <2>2, <2>3, <2>4, <2>5, <2>6, BenchSteps
<1>. QED  BY <1>3, <1>4, <1>5

(* ProbeTouchesGuessesOnly (Cooldowns) fails in the run probe_clears_facts.*)
(* What remains of it: a pass of cooldown-probe.ts picks guesses only, and *)
(* while a probe is out, what it has found becomes a fact at the end of a  *)
(* request of the same key alone.  A failure elsewhere, although it may    *)
(* bench the whole model, writes guesses over what the probe will lift.    *)
ProbesAreDisturbedFromWithin ==
  [][\A k \in Keys : \A r \in found'[k] :
       Fact(row'[r]) =>
         \/ r \in found[k] /\ Fact(row[r])
         \/ RequestOfItsKeyFails(r)]_vars

(* ProbesAreDisturbedFromWithin, of runCooldownProbePass() beside the      *)
(* requests in flight.                                                     *)
THEOREM OnlyItsKeyDisturbsAProbe == Spec => ProbesAreDisturbedFromWithin
<1>1. CInv /\ ProbesStayOnTheirKey /\ [Next]_vars
        => [\A k \in Keys : \A r \in found'[k] :
              Fact(row'[r]) =>
                \/ r \in found[k] /\ Fact(row[r])
                \/ RequestOfItsKeyFails(r)]_vars
  BY FactsUnderProbeAreNews
<1>. QED  BY <1>1, ProbesInvariant, PTL DEF Spec, ProbesAreDisturbedFromWithin
=============================================================================
