---------------------------- MODULE DegradedMode ----------------------------
(***************************************************************************)
(* Degraded mode (services/degradation.ts).  After every health pass the   *)
(* gateway counts the providers that still have a usable key, and it       *)
(* changes its mode once the count has been on the other side of a         *)
(* threshold for a grace period.  The moments it counts from live in       *)
(* memory and are kept here as ages, in ticks, that stop at the grace      *)
(* period.  Between two passes the providers do as they please.            *)
(***************************************************************************)
EXTENDS Integers, FiniteSets

CONSTANTS
  Providers,
  MinProviders,         \* DEGRADED_MIN_PROVIDERS
  Enough,               \* DEGRADED_HEALTHY_RATIO of a number, rounded up
  EntryGrace,           \* DEGRADED_ENTRY_GRACE_MS
  ExitGrace             \* DEGRADED_EXIT_GRACE_MS

ASSUME DegradationAssumption ==
  /\ MinProviders \in Nat
  /\ Enough \in [0 .. Cardinality(Providers) -> Nat]
  /\ {EntryGrace, ExitGrace} \subseteq Nat \ {0}

VARIABLES
  provider,        \* whether a provider has an enabled key, and a usable one
  mode,            \* state.state
  belowSince,      \* age of state.belowSince, or Unset
  recoveredSince,  \* age of state.recoveredSince, or Unset
  sinceFine,       \* history: age of the last evaluation not below the threshold
  sinceBelow       \* history: age of the last evaluation that was

degradation == <<provider, mode, belowSince, recoveredSince, sinceFine, sinceBelow>>

Unset == -1

ProvidersThatAre(states) == Cardinality({p \in Providers : provider[p] \in states})

(* computeHealthSnapshot(). *)
TooFewToJudge == ProvidersThatAre({"usable", "failing"}) < MinProviders
Below == ProvidersThatAre({"usable"})
           < Enough[ProvidersThatAre({"usable", "failing"})]

DegradationInit ==
  /\ provider \in [Providers -> {"absent", "usable", "failing"}]
  /\ mode = "normal"
  /\ belowSince = Unset
  /\ recoveredSince = Unset
  /\ sinceFine = 0
  /\ sinceBelow = 0

-----------------------------------------------------------------------------
(* Mutant: = for ??=, a streak begins anew at every evaluation. *)
BugStarted(since) == 0

(* state.belowSince ??= now, and the same for recoveredSince. *)
Started(since) == IF since = Unset THEN 0 ELSE since

(* updateDegradationState() with fewer providers than it takes to judge. *)
JudgesNothing ==
  /\ TooFewToJudge
  /\ mode' = "normal"
  /\ belowSince' = Unset
  /\ recoveredSince' = Unset
  /\ sinceFine' = 0
  /\ sinceBelow' = 0

(* ... below the threshold. *)
JudgesBelow ==
  /\ ~TooFewToJudge
  /\ Below
  /\ recoveredSince' = Unset
  /\ belowSince' = IF mode = "normal" THEN Started(belowSince) ELSE belowSince
  /\ mode' = IF belowSince' >= EntryGrace THEN "degraded" ELSE mode
  /\ sinceBelow' = 0
  /\ UNCHANGED sinceFine

(* Mutant: the streak below the threshold is not ended. *)
BugJudgesFine ==
  /\ ~TooFewToJudge
  /\ ~Below
  /\ recoveredSince' = IF mode = "degraded" THEN Started(recoveredSince) ELSE Unset
  /\ mode' = IF recoveredSince' >= ExitGrace THEN "normal" ELSE mode
  /\ sinceFine' = 0
  /\ UNCHANGED <<belowSince, sinceBelow>>

(* ... or not below it. *)
JudgesFine ==
  /\ ~TooFewToJudge
  /\ ~Below
  /\ belowSince' = Unset
  /\ recoveredSince' = IF mode = "degraded" THEN Started(recoveredSince) ELSE Unset
  /\ mode' = IF recoveredSince' >= ExitGrace THEN "normal" ELSE mode
  /\ sinceFine' = 0
  /\ UNCHANGED sinceBelow

(* checkAllKeys() evaluates when its pass is over. *)
Evaluate == (JudgesNothing \/ JudgesBelow \/ JudgesFine) /\ UNCHANGED provider

OlderBy(age, limit) == IF age \in {Unset, limit} THEN age ELSE age + 1

ClockMoves ==
  /\ belowSince' = OlderBy(belowSince, EntryGrace)
  /\ recoveredSince' = OlderBy(recoveredSince, ExitGrace)
  /\ sinceFine' = OlderBy(sinceFine, EntryGrace)
  /\ sinceBelow' = OlderBy(sinceBelow, ExitGrace)
  /\ UNCHANGED <<provider, mode>>

ProviderChanges(p) ==
  /\ provider' \in {[provider EXCEPT ![p] = s] : s \in {"absent", "usable", "failing"}}
  /\ UNCHANGED <<mode, belowSince, recoveredSince, sinceFine, sinceBelow>>

(* A restart forgets the mode and the moments. *)
ModeIsForgotten ==
  /\ mode' = "normal"
  /\ belowSince' = Unset
  /\ recoveredSince' = Unset
  /\ sinceFine' = 0
  /\ sinceBelow' = 0
  /\ UNCHANGED provider

DegradationNext ==
  \/ Evaluate
  \/ ClockMoves
  \/ \E p \in Providers : ProviderChanges(p)
  \/ ModeIsForgotten

DegradationSpec == DegradationInit /\ [][DegradationNext]_degradation

(* Health passes go on and time passes. *)
DegradationFairness == WF_degradation(Evaluate) /\ WF_degradation(ClockMoves)

-----------------------------------------------------------------------------
DegradationTypeOK ==
  /\ provider \in [Providers -> {"absent", "usable", "failing"}]
  /\ mode \in {"normal", "degraded"}
  /\ belowSince \in Unset .. EntryGrace
  /\ recoveredSince \in Unset .. ExitGrace
  /\ sinceFine \in 0 .. EntryGrace
  /\ sinceBelow \in 0 .. ExitGrace

(* A bad pass does not flip the gateway, nor does a good one: it enters    *)
(* degraded mode only when no evaluation of the whole grace period was at  *)
(* or above the threshold, and a count that recovers leaves it only when   *)
(* none was below, however short the streaks in between.                   *)
GraceIsWaitedOut ==
  [][/\ mode = "normal" /\ mode' = "degraded" => sinceFine = EntryGrace
     /\ mode = "degraded" /\ mode' = "normal" =>
          sinceBelow = ExitGrace \/ TooFewToJudge \/ ModeIsForgotten]_degradation

(* An outage that lasts puts the gateway in degraded mode for good, unless *)
(* it restarts over and over, and a recovery that lasts takes it out.      *)
RestartsGoOn == []<><<ModeIsForgotten>>_degradation
ModeFollowsOutage ==
  /\ \/ RestartsGoOn
     \/ <>[](Below /\ ~TooFewToJudge) => <>[](mode = "degraded")
  /\ <>[]~Below => <>[](mode = "normal")
=============================================================================
