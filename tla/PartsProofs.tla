---------------------------- MODULE PartsProofs ----------------------------
(***************************************************************************)
(* Theorems about what the gateway believes of its keys (KeyHealth) and of *)
(* its providers (DegradedMode), for every number of each and for every    *)
(* limit and grace period, and about one request to several models         *)
(* (Fusion), for every size of the panel and every limit of attempts.      *)
(***************************************************************************)
EXTENDS KeyHealth, DegradedMode, Fusion, FiniteSetTheorems, TLAPS

(* A moment of the mode is never older than the history it stands for: no  *)
(* evaluation at or above the threshold since belowSince, none below it    *)
(* since recoveredSince.                                                   *)
DegradationInv ==
  /\ DegradationTypeOK
  /\ belowSince <= sinceFine
  /\ recoveredSince <= sinceBelow

(* What EntryGrace and ExitGrace have in common. *)
LEMMA OlderInRange ==
  ASSUME NEW limit \in Nat \ {0}, NEW age \in Unset .. limit
  PROVE  /\ OlderBy(age, limit) \in Unset .. limit
         /\ age \in 0 .. limit => OlderBy(age, limit) \in 0 .. limit
BY DEF OlderBy, Unset

LEMMA OlderKeepsOrder ==
  ASSUME NEW limit \in Nat \ {0}, NEW age \in Unset .. limit,
         NEW other \in 0 .. limit, age <= other
  PROVE  OlderBy(age, limit) <= OlderBy(other, limit)
BY DEF OlderBy, Unset

LEMMA StartedInRange ==
  ASSUME NEW limit \in Nat \ {0}, NEW age \in Unset .. limit,
         NEW other \in 0 .. limit, age <= other
  PROVE  Started(age) \in 0 .. limit /\ Started(age) <= other
BY DEF Started, Unset

(* No evaluation, tick, change of a provider or restart breaks this. *)
LEMMA DegradationStep ==
  ASSUME DegradationInv, [DegradationNext]_degradation
  PROVE  DegradationInv'
<1> USE DegradationAssumption
<1> EntryGrace \in Nat \ {0} /\ ExitGrace \in Nat \ {0}
  BY DEF DegradationAssumption
<1>1. CASE JudgesNothing /\ UNCHANGED provider
  BY <1>1 DEF DegradationInv, DegradationTypeOK, JudgesNothing, Unset
<1>2. CASE JudgesBelow /\ UNCHANGED provider
  <2>1. Started(belowSince) \in 0 .. EntryGrace /\ Started(belowSince) <= sinceFine
    BY StartedInRange DEF DegradationInv, DegradationTypeOK
  <2> QED
    BY <1>2, <2>1 DEF DegradationInv, DegradationTypeOK, JudgesBelow, Unset
<1>3. CASE JudgesFine /\ UNCHANGED provider
  <2>1. Started(recoveredSince) \in 0 .. ExitGrace /\ Started(recoveredSince) <= sinceBelow
    BY StartedInRange DEF DegradationInv, DegradationTypeOK
  <2> QED
    BY <1>3, <2>1 DEF DegradationInv, DegradationTypeOK, JudgesFine, Unset
<1>4. CASE ClockMoves
  <2>1. /\ belowSince' \in Unset .. EntryGrace /\ sinceFine' \in 0 .. EntryGrace
        /\ belowSince' <= sinceFine'
    <3>1. /\ belowSince \in Unset .. EntryGrace /\ sinceFine \in 0 .. EntryGrace
          /\ sinceFine \in Unset .. EntryGrace /\ belowSince <= sinceFine
      BY DEF DegradationInv, DegradationTypeOK, Unset
    <3> QED BY <1>4, <3>1, OlderInRange, OlderKeepsOrder DEF ClockMoves
  <2>2. /\ recoveredSince' \in Unset .. ExitGrace /\ sinceBelow' \in 0 .. ExitGrace
        /\ recoveredSince' <= sinceBelow'
    <3>1. /\ recoveredSince \in Unset .. ExitGrace /\ sinceBelow \in 0 .. ExitGrace
          /\ sinceBelow \in Unset .. ExitGrace /\ recoveredSince <= sinceBelow
      BY DEF DegradationInv, DegradationTypeOK, Unset
    <3> QED BY <1>4, <3>1, OlderInRange, OlderKeepsOrder DEF ClockMoves
  <2> QED BY <1>4, <2>1, <2>2 DEF DegradationInv, DegradationTypeOK, ClockMoves
<1>5. ASSUME NEW p \in Providers, ProviderChanges(p) PROVE DegradationInv'
  BY <1>5 DEF DegradationInv, DegradationTypeOK, ProviderChanges
<1>6. CASE ModeIsForgotten
  BY <1>6 DEF DegradationInv, DegradationTypeOK, ModeIsForgotten, Unset
<1>7. CASE UNCHANGED degradation
  BY <1>7 DEF DegradationInv, DegradationTypeOK, degradation
<1> QED
  BY <1>1, <1>2, <1>3, <1>4, <1>5, <1>6, <1>7 DEF DegradationNext, Evaluate

LEMMA DegradationIsInv == DegradationSpec => []DegradationInv
<1>1. DegradationInit => DegradationInv
  BY DegradationAssumption
  DEF DegradationInit, DegradationInv, DegradationTypeOK, DegradationAssumption, Unset
<1>2. DegradationInv /\ [DegradationNext]_degradation => DegradationInv'
  BY DegradationStep
<1> QED BY <1>1, <1>2, PTL DEF DegradationSpec

(* Every variable of degraded mode keeps its type. *)
THEOREM ModeTypeIsCorrect == DegradationSpec => []DegradationTypeOK
<1>1. DegradationInv => DegradationTypeOK
  BY DEF DegradationInv
<1> QED BY <1>1, DegradationIsInv, PTL

(* GraceIsWaitedOut (DegradedMode): updateDegradationState() enters and    *)
(* leaves degraded mode only after a whole grace period on one side.       *)
THEOREM GraceHolds == DegradationSpec => GraceIsWaitedOut
<1> DEFINE Waited ==
      /\ mode = "normal" /\ mode' = "degraded" => sinceFine = EntryGrace
      /\ mode = "degraded" /\ mode' = "normal" =>
           sinceBelow = ExitGrace \/ TooFewToJudge \/ ModeIsForgotten
<1>1. ASSUME DegradationInv, [DegradationNext]_degradation PROVE Waited
  <2> USE DegradationAssumption
  <2> EntryGrace \in Nat \ {0} /\ ExitGrace \in Nat \ {0}
    BY DEF DegradationAssumption
  <2>1. CASE JudgesNothing
    BY <2>1 DEF JudgesNothing
  <2>2. CASE JudgesBelow
    BY <1>1, <2>2
    DEF JudgesBelow, Started, Unset, DegradationInv, DegradationTypeOK
  <2>3. CASE JudgesFine
    BY <1>1, <2>3
    DEF JudgesFine, Started, Unset, DegradationInv, DegradationTypeOK
  <2>4. CASE ModeIsForgotten
    BY <2>4 DEF ModeIsForgotten
  <2>5. CASE UNCHANGED mode
    BY <2>5, <1>1 DEF DegradationInv, DegradationTypeOK
  <2> QED
    BY <1>1, <2>1, <2>2, <2>3, <2>4, <2>5
    DEF DegradationNext, Evaluate, ClockMoves, ProviderChanges, degradation
<1>2. DegradationInv /\ [DegradationNext]_degradation => [Waited]_degradation
  BY <1>1
<1> QED BY <1>2, DegradationIsInv, PTL DEF DegradationSpec, GraceIsWaitedOut

-----------------------------------------------------------------------------
(* No count is above the refusals it stands for, and a credential that is  *)
(* being asked about can be read.                                          *)
HealthInv ==
  /\ HealthTypeOK
  /\ \A k \in Keys : failures[k] <= refused[k]
  /\ \A a \in Askers, k \in Keys : check[a][k] = "current" => key[k].cred # "unreadable"

LEMMA OneMoreIsBounded ==
  ASSUME NEW n \in 0 .. DisableAfter, NEW m \in 0 .. DisableAfter, n <= m
  PROVE  /\ OneMore(n) \in 0 .. DisableAfter
         /\ OneMore(n) <= OneMore(m)
BY HealthAssumption DEF HealthAssumption, OneMore

(* What an answer was about is known, and the question is settled. *)
LEMMA AnswerSettles ==
  ASSUME HealthInv, NEW a \in Askers, NEW k \in Keys, Answered(a, k)
  PROVE  /\ check' \in [Askers -> [Keys -> Questions]]
         /\ check'[a][k] = "none"
         /\ \A b \in Askers, j \in Keys : check'[b][j] \in {"none", check[b][j]}
BY DEF HealthInv, HealthTypeOK, Answered, Questions

LEMMA RowHasType ==
  ASSUME HealthInv, NEW k \in Keys
  PROVE  /\ key[k] \in KeyRows
         /\ {"unknown", "healthy", "invalid", "error"} \subseteq Statuses
         /\ {TRUE, FALSE} \subseteq BOOLEAN
BY DEF HealthInv, HealthTypeOK, Statuses

(* A change of one row that leaves the credential alone. *)
LEMMA RowKeepsCredential ==
  ASSUME HealthInv, NEW k \in Keys, NEW row \in KeyRows, row.cred = key[k].cred,
         key' = [key EXCEPT ![k] = row]
  PROVE  /\ key' \in [Keys -> KeyRows]
         /\ \A j \in Keys : key'[j].cred = key[j].cred
BY DEF HealthInv, HealthTypeOK

LEMMA AskKeepsInv ==
  ASSUME HealthInv, NEW a \in Askers, NEW k \in Keys, Ask(a, k), queued' \subseteq Keys
  PROVE  HealthInv'
<1>1. CASE key[k].cred = "unreadable"
  <2> DEFINE row == [key[k] EXCEPT !.recent = TRUE]
  <2>1. row \in KeyRows /\ row.cred = key[k].cred
    BY RowHasType DEF KeyRows
  <2>2. key' = [key EXCEPT ![k] = row] /\ UNCHANGED <<check, failures, passing, refused>>
    BY <1>1 DEF Ask
  <2> HIDE DEF row
  <2>3. key' \in [Keys -> KeyRows] /\ \A j \in Keys : key'[j].cred = key[j].cred
    BY <2>1, <2>2, RowKeepsCredential
  <2> QED BY <2>2, <2>3 DEF HealthInv, HealthTypeOK
<1>2. CASE key[k].cred # "unreadable"
  <2>1. /\ check' = [check EXCEPT ![a][k] = "current"]
        /\ UNCHANGED <<key, failures, passing, refused>>
    BY <1>2 DEF Ask
  <2>2. /\ check' \in [Askers -> [Keys -> Questions]]
        /\ \A b \in Askers, j \in Keys : check'[b][j] = "current" => check[b][j] = "current" \/ j = k
    BY <2>1 DEF HealthInv, HealthTypeOK, Questions
  <2> QED BY <1>2, <2>1, <2>2 DEF HealthInv, HealthTypeOK
<1> QED BY <1>1, <1>2

(* What a verdict writes to the row of the key. *)
LEMMA VerdictKeepsInv ==
  ASSUME HealthInv, NEW a \in Askers, NEW k \in Keys, Answered(a, k),
         NEW row \in KeyRows, row.cred = key[k].cred, key' = [key EXCEPT ![k] = row],
         NEW n \in 0 .. DisableAfter, NEW m \in 0 .. DisableAfter, n <= m,
         failures' = [failures EXCEPT ![k] = n],
         refused' = [refused EXCEPT ![k] = m],
         UNCHANGED <<passing, queued>>
  PROVE  HealthInv'
<1>1. key' \in [Keys -> KeyRows] /\ \A j \in Keys : key'[j].cred = key[j].cred
  BY RowKeepsCredential
<1>2. /\ check' \in [Askers -> [Keys -> Questions]]
      /\ \A b \in Askers, j \in Keys : check'[b][j] \in {"none", check[b][j]}
  BY AnswerSettles
<1>3. /\ failures' \in [Keys -> 0 .. DisableAfter]
      /\ refused' \in [Keys -> 0 .. DisableAfter]
      /\ \A j \in Keys : failures'[j] <= refused'[j]
  BY DEF HealthInv, HealthTypeOK
<1>4. \A b \in Askers, j \in Keys : check'[b][j] = "current" => key'[j].cred # "unreadable"
  BY <1>1, <1>2 DEF HealthInv
<1> QED BY <1>1, <1>2, <1>3, <1>4 DEF HealthInv, HealthTypeOK

(* An operation on one row that touches nothing else. *)
LEMMA RowChangeKeepsInv ==
  ASSUME HealthInv, NEW k \in Keys, NEW row \in KeyRows,
         row.cred # "unreadable" \/ row.cred = key[k].cred,
         key' = [key EXCEPT ![k] = row],
         UNCHANGED <<failures, passing, queued, check, refused>>
  PROVE  HealthInv'
<1>1. /\ key' \in [Keys -> KeyRows]
      /\ \A j \in Keys : key'[j].cred # "unreadable" \/ key'[j].cred = key[j].cred
  BY DEF HealthInv, HealthTypeOK
<1> QED BY <1>1 DEF HealthInv, HealthTypeOK

LEMMA ReplaceKeepsInv ==
  ASSUME HealthInv, NEW k \in Keys, NEW cred \in {"good", "bad"}, NEW on \in BOOLEAN,
         Replace(k, cred, on)
  PROVE  HealthInv'
<1> DEFINE row == [key[k] EXCEPT !.enabled = on, !.status = "unknown",
                                 !.cred = cred, !.recent = FALSE]
<1>1. row \in KeyRows /\ row.cred # "unreadable"
  <2>1. /\ key[k] \in KeyRows /\ "unknown" \in Statuses /\ FALSE \in BOOLEAN
        /\ cred \in {"good", "bad", "unreadable"} /\ cred # "unreadable"
    BY DEF HealthInv, HealthTypeOK, Statuses
  <2> QED BY <2>1 DEF KeyRows
<1>2. key' = [key EXCEPT ![k] = row]
  BY DEF Replace
<1> HIDE DEF row
<1>3. /\ key' \in [Keys -> KeyRows]
      /\ \A j \in Keys : key'[j].cred # "unreadable" \/ key'[j].cred = key[j].cred
  BY <1>1, <1>2 DEF HealthInv, HealthTypeOK
<1>4. \A a \in Askers : AskedOf(a, k) \in Questions \ {"current"}
  <2> TAKE a \in Askers
  <2>1. /\ check[a][k] \in Questions
        /\ key[k].cred \in {"good", "bad", "unreadable"}
        /\ check[a][k] = "current" => key[k].cred # "unreadable"
    BY DEF HealthInv, HealthTypeOK, KeyRows
  <2> QED BY <2>1 DEF AskedOf, Questions
<1>5. /\ check' \in [Askers -> [Keys -> Questions]]
      /\ \A a \in Askers, j \in Keys :
           check'[a][j] = "current" => j # k /\ check[a][j] = "current"
  <2>1. check' = [a \in Askers |-> [check[a] EXCEPT ![k] = AskedOf(a, k)]]
    BY DEF Replace
  <2>2. \A a \in Askers : check[a] \in [Keys -> Questions]
    BY DEF HealthInv, HealthTypeOK
  <2> QED BY <1>4, <2>1, <2>2
<1>6. UNCHANGED <<failures, passing, queued, refused>>
  BY DEF Replace
<1> QED BY <1>3, <1>5, <1>6 DEF HealthInv, HealthTypeOK

LEMMA RestartKeepsInv ==
  ASSUME HealthInv, RestartChecker
  PROVE  HealthInv'
<1>1. PICK cred \in [Keys -> {"good", "bad", "unreadable"}] :
        key' = [k \in Keys |-> [key[k] EXCEPT !.cred = cred[k]]]
  BY DEF RestartChecker
<1>2. key' \in [Keys -> KeyRows]
  BY <1>1 DEF HealthInv, HealthTypeOK, KeyRows
<1>3. /\ failures' \in [Keys -> 0 .. DisableAfter]
      /\ \A k \in Keys : failures'[k] <= refused'[k]
      /\ refused' \in [Keys -> 0 .. DisableAfter]
  BY HealthAssumption DEF RestartChecker, HealthInv, HealthTypeOK, HealthAssumption
<1>4. /\ check' \in [Askers -> [Keys -> Questions]]
      /\ \A a \in Askers, k \in Keys : check'[a][k] = "none"
  BY DEF RestartChecker, Questions
<1> QED BY <1>2, <1>3, <1>4 DEF RestartChecker, HealthInv, HealthTypeOK

(* The operations of HealthNext, one by one. *)
LEMMA HealthStep ==
  ASSUME HealthInv, [HealthNext]_health
  PROVE  HealthInv'
<1> USE HealthAssumption DEF HealthAssumption
<1>1. ASSUME NEW force \in BOOLEAN, StartPass(force) PROVE HealthInv'
  BY <1>1 DEF StartPass, HealthInv, HealthTypeOK
<1>2. CASE EndPass
  BY <1>2 DEF EndPass, HealthInv, HealthTypeOK
<1>3. ASSUME NEW k \in Keys, AskInPass(k) PROVE HealthInv'
  <2>1. queued' \subseteq Keys /\ Ask("pass", k) /\ "pass" \in Askers
    BY <1>3 DEF AskInPass, HealthInv, HealthTypeOK, Askers
  <2> QED BY <2>1, AskKeepsInv
<1>4. ASSUME NEW k \in Keys, AskAlone(k) PROVE HealthInv'
  <2>1. queued' \subseteq Keys /\ Ask("alone", k) /\ "alone" \in Askers
    BY <1>4 DEF AskAlone, HealthInv, HealthTypeOK, Askers
  <2> QED BY <2>1, AskKeepsInv
<1>5. ASSUME NEW a \in Askers, NEW k \in Keys, Accepted(a, k) PROVE HealthInv'
  <2> DEFINE row == [key[k] EXCEPT !.status = "healthy", !.recent = TRUE]
  <2>1. row \in KeyRows /\ row.cred = key[k].cred
    BY RowHasType DEF KeyRows
  <2>2. /\ Answered(a, k) /\ key' = [key EXCEPT ![k] = row]
        /\ failures' = [failures EXCEPT ![k] = 0]
        /\ refused' = [refused EXCEPT ![k] = 0] /\ UNCHANGED <<passing, queued>>
    BY <1>5 DEF Accepted
  <2> HIDE DEF row
  <2>3. 0 \in 0 .. DisableAfter /\ 0 <= 0
    OBVIOUS
  <2> QED BY <2>1, <2>2, <2>3, VerdictKeepsInv
<1>6. ASSUME NEW a \in Askers, NEW k \in Keys, Refused(a, k) PROVE HealthInv'
  <2> DEFINE row == [key[k] EXCEPT !.status = "invalid", !.recent = TRUE,
                       !.enabled = key[k].enabled /\ OneMore(failures[k]) < DisableAfter]
  <2>1. row \in KeyRows /\ row.cred = key[k].cred
    BY RowHasType DEF KeyRows
  <2>2. /\ Answered(a, k) /\ key' = [key EXCEPT ![k] = row]
        /\ failures' = [failures EXCEPT ![k] = OneMore(failures[k])]
        /\ refused' = [refused EXCEPT ![k] = OneMore(refused[k])]
        /\ UNCHANGED <<passing, queued>>
    BY <1>6 DEF Refused
  <2> HIDE DEF row
  <2>3. /\ OneMore(failures[k]) \in 0 .. DisableAfter
        /\ OneMore(refused[k]) \in 0 .. DisableAfter
        /\ OneMore(failures[k]) <= OneMore(refused[k])
    BY OneMoreIsBounded DEF HealthInv, HealthTypeOK
  <2> QED BY <2>1, <2>2, <2>3, VerdictKeepsInv
<1>7. ASSUME NEW a \in Askers, NEW k \in Keys, Unreached(a, k) PROVE HealthInv'
  <2> DEFINE row == [key[k] EXCEPT !.recent = TRUE]
  <2>1. row \in KeyRows /\ row.cred = key[k].cred
    BY RowHasType DEF KeyRows
  <2>2. /\ Answered(a, k) /\ key' = [key EXCEPT ![k] = row]
        /\ UNCHANGED <<failures, refused, passing, queued>>
    BY <1>7 DEF Unreached
  <2> HIDE DEF row
  <2>3. key' \in [Keys -> KeyRows] /\ \A j \in Keys : key'[j].cred = key[j].cred
    BY <2>1, <2>2, RowKeepsCredential
  <2>4. /\ check' \in [Askers -> [Keys -> Questions]]
        /\ \A b \in Askers, j \in Keys : check'[b][j] \in {"none", check[b][j]}
    BY <2>2, AnswerSettles
  <2>5. \A b \in Askers, j \in Keys : check'[b][j] = "current" => key'[j].cred # "unreadable"
    BY <2>3, <2>4 DEF HealthInv
  <2> QED BY <2>2, <2>3, <2>4, <2>5 DEF HealthInv, HealthTypeOK
<1>8. ASSUME NEW k \in Keys, Serves(k) PROVE HealthInv'
  <2> DEFINE row == [key[k] EXCEPT !.status = IF @ = "error" THEN "healthy" ELSE @]
  <2>1. row \in KeyRows /\ row.cred = key[k].cred
    BY RowHasType DEF KeyRows
  <2>2. /\ key' = [key EXCEPT ![k] = row]
        /\ failures' = [failures EXCEPT ![k] = 0]
        /\ refused' = [refused EXCEPT ![k] = 0] /\ UNCHANGED <<passing, queued, check>>
    BY <1>8 DEF Serves
  <2> HIDE DEF row
  <2>3. key' \in [Keys -> KeyRows] /\ \A j \in Keys : key'[j].cred = key[j].cred
    BY <2>1, <2>2, RowKeepsCredential
  <2>4. /\ failures' \in [Keys -> 0 .. DisableAfter]
        /\ refused' \in [Keys -> 0 .. DisableAfter]
        /\ \A j \in Keys : failures'[j] <= refused'[j]
    BY <2>2 DEF HealthInv, HealthTypeOK
  <2> QED BY <2>2, <2>3, <2>4 DEF HealthInv, HealthTypeOK
<1>9. ASSUME NEW k \in Keys, CannotRead(k) PROVE HealthInv'
  <2>1. [key[k] EXCEPT !.status = "error", !.recent = TRUE] \in KeyRows
    BY RowHasType DEF KeyRows
  <2> QED BY <1>9, <2>1, RowChangeKeepsInv DEF CannotRead, HealthInv, HealthTypeOK, KeyRows
<1>10. ASSUME NEW k \in Keys, Lapses(k) PROVE HealthInv'
  <2>1. [key[k] EXCEPT !.recent = FALSE] \in KeyRows
    BY RowHasType DEF KeyRows
  <2> QED BY <1>10, <2>1, RowChangeKeepsInv DEF Lapses, HealthInv, HealthTypeOK, KeyRows
<1>11. ASSUME NEW k \in Keys, NEW on \in BOOLEAN, Turn(k, on) PROVE HealthInv'
  <2>1. [key[k] EXCEPT !.enabled = on] \in KeyRows
    BY RowHasType DEF KeyRows
  <2> QED BY <1>11, <2>1, RowChangeKeepsInv DEF Turn, HealthInv, HealthTypeOK, KeyRows
<1>12. ASSUME NEW k \in Keys, NEW on \in BOOLEAN, NEW cred \in {"good", "bad"},
              Replace(k, cred, on)
       PROVE  HealthInv'
  BY <1>12, ReplaceKeepsInv
<1>13. ASSUME NEW k \in Keys, Readd(k) PROVE HealthInv'
  <2>1. [key[k] EXCEPT !.enabled = TRUE, !.status = "unknown"] \in KeyRows
    BY RowHasType DEF KeyRows
  <2> QED BY <1>13, <2>1, RowChangeKeepsInv DEF Readd, HealthInv, HealthTypeOK, KeyRows
<1>14. ASSUME NEW k \in Keys, Changes(k) PROVE HealthInv'
  <2> DEFINE row == [key[k] EXCEPT !.cred = IF @ = "good" THEN "bad" ELSE "good"]
  <2>1. row \in KeyRows /\ row.cred # "unreadable"
    BY RowHasType DEF KeyRows
  <2>2. /\ key' = [key EXCEPT ![k] = row]
        /\ UNCHANGED <<failures, passing, queued, check, refused>>
    BY <1>14 DEF Changes
  <2> HIDE DEF row
  <2> QED BY <2>1, <2>2, RowChangeKeepsInv
<1>15. CASE RestartChecker
  BY <1>15, RestartKeepsInv
<1>16. CASE UNCHANGED health
  BY <1>16 DEF health, HealthInv, HealthTypeOK
<1> QED
  BY <1>1, <1>2, <1>3, <1>4, <1>5, <1>6, <1>7, <1>8, <1>9, <1>10, <1>11, <1>12,
     <1>13, <1>14, <1>15, <1>16
  DEF HealthNext

LEMMA HealthIsInv == HealthSpec => []HealthInv
<1>1. ASSUME HealthInit PROVE HealthInv
  <2>1. key \in [Keys -> KeyRows] /\ \A k \in Keys : key[k].cred # "unreadable"
    BY <1>1 DEF HealthInit, KeyRows, Statuses
  <2>2. /\ failures \in [Keys -> 0 .. DisableAfter]
        /\ refused \in [Keys -> 0 .. DisableAfter]
        /\ \A k \in Keys : failures[k] <= refused[k]
    BY <1>1, HealthAssumption DEF HealthAssumption, HealthInit
  <2>3. check \in [Askers -> [Keys -> Questions]] /\ passing \in BOOLEAN /\ queued \subseteq Keys
    BY <1>1 DEF HealthInit, Questions
  <2> QED BY <2>1, <2>2, <2>3 DEF HealthInv, HealthTypeOK
<1>2. HealthInv /\ [HealthNext]_health => HealthInv'
  BY HealthStep
<1> QED BY <1>1, <1>2, PTL DEF HealthSpec

(* Every variable of the checker keeps its type. *)
THEOREM HealthTypeIsCorrect == HealthSpec => []HealthTypeOK
<1>1. HealthInv => HealthTypeOK
  BY DEF HealthInv
<1> QED BY <1>1, HealthIsInv, PTL

(* A question that is settled was answered, or lost by a restart: nothing  *)
(* else that turns a key off settles one.                                  *)
LEMMA OnlyAnswersDisable ==
  ASSUME HealthInv, HealthNext, NEW k \in Keys,
         key[k].enabled, ~key'[k].enabled, AnswerTo(k)
  PROVE  \E a \in Askers : Refused(a, k)
<1> USE DEF HealthInv, HealthTypeOK
<1>1. ASSUME NEW on \in BOOLEAN, NEW j \in Keys, Turn(j, on) PROVE ~AnswerTo(k)
  BY <1>1 DEF Turn, AnswerTo
<1>2. ASSUME NEW on \in BOOLEAN, NEW cred \in {"good", "bad"}, NEW j \in Keys,
             Replace(j, cred, on)
      PROVE  ~AnswerTo(k)
  <2> SUFFICES ASSUME NEW a \in Askers, check[a][k] # "none"
               PROVE  check'[a][k] # "none"
    BY DEF AnswerTo
  <2>1. check'[a] = [check[a] EXCEPT ![j] = AskedOf(a, j)]
    BY <1>2 DEF Replace
  <2>2. key[k].cred # "none"
    BY DEF KeyRows
  <2>3. k = j => AskedOf(a, j) # "none"
    BY <2>2 DEF AskedOf
  <2> QED BY <2>1, <2>3
<1>3. ASSUME NEW a \in Askers, NEW j \in Keys, Refused(a, j), j # k
      PROVE  key'[k] = key[k]
  BY <1>3 DEF Refused
<1>4. ASSUME NEW a \in Askers, NEW j \in Keys,
             Accepted(a, j) \/ Unreached(a, j) \/ Serves(j) \/ CannotRead(j) \/ Lapses(j)
               \/ Readd(j) \/ Changes(j) \/ AskInPass(j) \/ AskAlone(j)
      PROVE  key'[k].enabled = key[k].enabled \/ key'[k].enabled
  <2>1. PICK row \in {[key[j] EXCEPT !.status = "healthy", !.recent = TRUE],
                      [key[j] EXCEPT !.recent = TRUE],
                      [key[j] EXCEPT !.status = IF @ = "error" THEN "healthy" ELSE @],
                      [key[j] EXCEPT !.status = "error", !.recent = TRUE],
                      [key[j] EXCEPT !.recent = FALSE],
                      [key[j] EXCEPT !.enabled = TRUE, !.status = "unknown"],
                      [key[j] EXCEPT !.cred = IF @ = "good" THEN "bad" ELSE "good"],
                      key[j]} :
             key' = [key EXCEPT ![j] = row]
    BY <1>4
    DEF Accepted, Unreached, Serves, CannotRead, Lapses, Readd, Changes,
        AskInPass, AskAlone, Ask
  <2>2. row.enabled = key[j].enabled \/ row.enabled = TRUE
    BY DEF KeyRows
  <2> QED BY <2>1, <2>2
<1>5. RestartChecker => key'[k].enabled = key[k].enabled
  BY DEF RestartChecker, KeyRows
<1>6. (EndPass \/ \E force \in BOOLEAN : StartPass(force)) => key'[k] = key[k]
  BY DEF EndPass, StartPass
<1> QED BY <1>1, <1>2, <1>3, <1>4, <1>5, <1>6 DEF HealthNext, Askers

(* DisabledByRefusals (KeyHealth): recordInvalidFailure() turns a key off  *)
(* only after DisableAfter refusals with no sign of life in between,       *)
(* whoever checks it and whatever else happens to it.                      *)
THEOREM OnlyRefusalsDisable == HealthSpec => DisabledByRefusals
<1> DEFINE Disabled(k) == key[k].enabled /\ ~key'[k].enabled /\ AnswerTo(k)
<1>1. ASSUME HealthInv, HealthNext, NEW k \in Keys, Disabled(k)
      PROVE  refused'[k] = DisableAfter
  <2>1. PICK a \in Askers : Refused(a, k)
    BY <1>1, OnlyAnswersDisable
  <2>2. /\ failures[k] \in 0 .. DisableAfter /\ refused[k] \in 0 .. DisableAfter
        /\ failures[k] <= refused[k]
        /\ refused \in [Keys -> 0 .. DisableAfter]
        /\ key \in [Keys -> KeyRows]
    BY <1>1 DEF HealthInv, HealthTypeOK
  <2>3. OneMore(failures[k]) = DisableAfter
    <3>1. key'[k].enabled = (key[k].enabled /\ OneMore(failures[k]) < DisableAfter)
      BY <2>1, <2>2 DEF Refused, KeyRows
    <3>2. ~(OneMore(failures[k]) < DisableAfter)
      BY <1>1, <3>1
    <3> QED BY <2>2, <3>2, HealthAssumption DEF OneMore, HealthAssumption
  <2>4. refused'[k] = OneMore(refused[k])
    BY <2>1, <2>2 DEF Refused
  <2> QED BY <2>2, <2>3, <2>4, HealthAssumption DEF OneMore, HealthAssumption
<1>2. ASSUME UNCHANGED health, NEW k \in Keys
      PROVE  ~Disabled(k)
  BY <1>2 DEF health
<1>3. HealthInv /\ [HealthNext]_health
        => [\A k \in Keys : Disabled(k) => refused'[k] = DisableAfter]_health
  BY <1>1, <1>2
<1> QED BY <1>3, HealthIsInv, PTL DEF HealthSpec, DisabledByRefusals

-----------------------------------------------------------------------------
(* A candidate outside the pool is never asked, a model that was told not  *)
(* to call never has, and text of the judge is the text of its attempt.    *)
FusionInv ==
  /\ FusionTypeOK
  /\ \A c \in Candidates : slot[c] # "idle" => c \in Pool
  /\ wish.tools = "none" => \A c \in Candidates : slot[c] # "call"
  /\ OnlyOneModelActs
  /\ heard \subseteq {judging}
  /\ stage = "panel" => heard = {}
  /\ stage = "judge" => judging # 0
  /\ stage # "over" => outcome = "none"
  /\ StreamedTextStands

LEMMA FusionStart == FusionInit => FusionInv
BY FusionAssumption
   DEF FusionInit, FusionInv, FusionTypeOK, OnlyOneModelActs, StreamedTextStands,
       FusionAssumption

(* With tools on offer a wave is a single model. *)
LEMMA WaveIsOne ==
  ASSUME FusionInv, wish.tools # "absent", NEW c \in Wave, NEW d \in Wave
  PROVE  c = d
<1> Panel \in Nat \ {0}
  BY FusionAssumption DEF FusionAssumption
<1> wish.refills \in {0, Panel}
  BY DEF FusionInv, FusionTypeOK, Wishes
<1> Askable \subseteq 1 .. Panel + wish.refills
  BY DEF Askable, Unasked, SlotsThatAre, Pool
<1>1. ASSUME NEW e \in Wave
      PROVE  e \in Askable /\ \A o \in Askable : ~(o < e)
  <2> DEFINE Before == {o \in Askable : o < e}
  <2>1. e \in Askable /\ Cardinality(Before) < 1
    BY <1>1 DEF Wave
  <2>2. IsFiniteSet(Before)
    <3>1. IsFiniteSet(1 .. Panel + wish.refills)
      BY FS_Interval
    <3> QED BY <3>1, FS_Subset
  <2>3. Cardinality(Before) = 0
    BY <2>1, <2>2, FS_CardinalityType
  <2>4. Before = {}
    BY <2>2, <2>3, FS_EmptySet
  <2> QED BY <2>1, <2>4
<1>2. c \in Askable /\ d \in Askable
  BY <1>1
<1>3. c \in Int /\ d \in Int
  <2> \A n \in 1 .. Panel + wish.refills : n \in Int
    OBVIOUS
  <2> QED BY <1>2
<1>4. ~(c < d) /\ ~(d < c)
  BY <1>1, <1>2
<1> QED BY <1>3, <1>4

LEMMA WaveIsIdle ==
  ASSUME NEW c \in Wave
  PROVE  c \in Pool /\ slot[c] = "idle"
BY DEF Wave, Askable, Unasked, SlotsThatAre

LEMMA FusionStep ==
  ASSUME FusionInv, [FusionNext]_fusion
  PROVE  FusionInv'
<1> Panel \in Nat \ {0} /\ MaxSlotAttempts \in Nat \ {0} /\ MaxJudgeAttempts \in Nat \ {0}
  BY FusionAssumption DEF FusionAssumption
<1> USE DEF FusionInv
<1>1. CASE AskPanel
  <2>1. FusionTypeOK'
    BY <1>1 DEF AskPanel, FusionTypeOK
  <2>2. \A c \in Candidates : slot'[c] = IF c \in Wave THEN "asked" ELSE slot[c]
    BY <1>1 DEF AskPanel
  <2>3. \A c \in Candidates : slot'[c] # "idle" => c \in Pool
    BY <2>2, WaveIsIdle
  <2>4. wish.tools = "none" => \A c \in Candidates : slot'[c] # "call"
    BY <2>2
  <2>5. ASSUME wish.tools # "absent", NEW c \in Candidates,
               slot'[c] \in {"asked", "call"}
        PROVE  c \in Wave
    <3>1. c \notin Wave => slot[c] \in {"asked", "call"} /\ c \in Pool
      BY <2>2, <2>5
    <3>2. slot[c] = "asked" => c \notin Pool
      BY <1>1 DEF AskPanel, SlotsThatAre
    <3>3. slot[c] = "call" => wish.tools \in {"auto", "required"}
      BY <2>5 DEF FusionTypeOK, Wishes
    <3>4. wish.tools \in {"auto", "required"} => SlotsThatAre({"call"}) = {}
      BY <1>1 DEF AskPanel, PanelIsDone
    <3>5. slot[c] = "call" => c \notin Pool
      BY <3>3, <3>4 DEF SlotsThatAre
    <3> QED BY <3>1, <3>2, <3>5
  <2>6. OnlyOneModelActs'
    BY <1>1, <2>5, WaveIsOne DEF AskPanel, OnlyOneModelActs, Candidates
  <2> QED
    BY <1>1, <2>1, <2>3, <2>4, <2>6 DEF AskPanel, StreamedTextStands, Pool, Candidates
<1>2. ASSUME NEW c \in Candidates, SlotEnds(c)
      PROVE  FusionInv'
  <2>1. /\ slot[c] = "asked"
        /\ slot' \in [Candidates -> {"idle", "asked", "prose", "call", "failed"}]
        /\ tries' \in [Candidates -> 0 .. MaxSlotAttempts]
        /\ \A d \in Candidates : d # c => slot'[d] = slot[d]
        /\ wish.tools = "none" => slot'[c] # "call"
        /\ UNCHANGED <<wish, stage, judging, heard, outcome>>
    BY <1>2 DEF SlotEnds, SlotAnswers, SlotRetries, SlotFails, FusionTypeOK
  <2>2. OnlyOneModelActs'
    BY <2>1 DEF OnlyOneModelActs, Candidates
  <2> QED
    BY <2>1, <2>2 DEF FusionTypeOK, StreamedTextStands, Pool, Candidates
<1>3. CASE ClosePanel
  <2>1. /\ UNCHANGED <<wish, slot, tries, heard>>
        /\ heard = {}
        /\ \/ stage' = "judge" /\ judging' = 1 /\ outcome' = outcome
           \/ /\ stage' = "over" /\ judging' = judging
              /\ outcome' \in {"call", "error", "best"}
        /\ outcome = "none"
    BY <1>3 DEF ClosePanel
  <2> QED
    BY <2>1 DEF FusionTypeOK, OnlyOneModelActs, StreamedTextStands, Pool, Candidates
<1>4. CASE JudgeSpeaks
  BY <1>4 DEF JudgeSpeaks, FusionTypeOK, OnlyOneModelActs, StreamedTextStands, Pool,
              Candidates
<1>5. CASE JudgeEnds
  BY <1>5 DEF JudgeEnds, JudgeRetries, JudgeAnswers, JudgeFails, FusionTypeOK,
              OnlyOneModelActs, StreamedTextStands, Pool, Candidates
<1>6. CASE UNCHANGED fusion
  BY <1>6 DEF fusion, FusionTypeOK, OnlyOneModelActs, StreamedTextStands, Pool, Candidates
<1> QED BY <1>1, <1>2, <1>3, <1>4, <1>5, <1>6 DEF FusionNext

(* The invariant of one fusion. *)
THEOREM FusionIsInv == FusionSpec => []FusionInv
BY FusionStart, FusionStep, PTL DEF FusionSpec

(* OnlyOneModelActs (Fusion): runFusion() asks one model at a time when    *)
(* tools are on offer, and none once a model has called one, whatever the  *)
(* models answer and however many there are.                               *)
THEOREM OneModelActs == FusionSpec => []OnlyOneModelActs
<1>1. FusionInv => OnlyOneModelActs
  BY DEF FusionInv
<1> QED BY <1>1, FusionIsInv, PTL

(* StreamedTextStands (Fusion): what runJudgeStreaming() has sent is never *)
(* followed by the text of another attempt or by another answer.           *)
THEOREM StreamStands == FusionSpec => []StreamedTextStands
<1>1. FusionInv => StreamedTextStands
  BY DEF FusionInv
<1> QED BY <1>1, FusionIsInv, PTL
-----------------------------------------------------------------------------
(* The attempts a candidate and the judge may still take, the one under    *)
(* way among them.                                                         *)
AttemptsLeft(state, tried) ==
  CASE state = "idle" -> MaxSlotAttempts + 1
    [] state = "asked" -> MaxSlotAttempts + 1 - tried
    [] OTHER -> 0

JudgementsLeft(at, tried) ==
  CASE at = "panel" -> MaxJudgeAttempts + 1
    [] at = "judge" -> MaxJudgeAttempts + 1 - tried
    [] OTHER -> 0

(* A model takes an attempt, or is through. *)
PanelAdvances ==
  /\ \A c \in Candidates :
       \/ slot'[c] = slot[c] /\ tries'[c] = tries[c]
       \/ AttemptsLeft(slot'[c], tries'[c]) < AttemptsLeft(slot[c], tries[c])
  /\ \E c \in Candidates :
       AttemptsLeft(slot'[c], tries'[c]) < AttemptsLeft(slot[c], tries[c])
  /\ UNCHANGED <<wish, stage, judging, heard, outcome>>

(* The judge takes an attempt or is through, and the panel is. *)
JudgeAdvances ==
  /\ JudgementsLeft(stage', judging') < JudgementsLeft(stage, judging)
  /\ \A c \in Candidates : slot[c] # "asked"
  /\ UNCHANGED <<wish, slot, tries, heard>>

(* The attempt of the judge under way is heard for the first time. *)
JudgeIsHeard ==
  /\ stage = "judge" /\ judging \notin heard
  /\ heard' = heard \cup {judging}
  /\ UNCHANGED <<wish, slot, tries, stage, judging, outcome>>

(* Where a fusion stands between the attempts it counts. *)
FusionCounts ==
  /\ \A c \in Candidates : slot[c] = "asked" => tries[c] \in 1 .. MaxSlotAttempts
  /\ stage = "judge" => judging \in 1 .. MaxJudgeAttempts
  /\ stage # "panel" => \A c \in Candidates : slot[c] # "asked"

LEMMA FusionRunsDown ==
  ASSUME FusionInv, FusionCounts, [FusionNext]_fusion
  PROVE  /\ [PanelAdvances \/ JudgeAdvances \/ JudgeIsHeard]_fusion
         /\ FusionCounts'
<1> MaxSlotAttempts \in Nat \ {0} /\ MaxJudgeAttempts \in Nat \ {0}
  BY FusionAssumption DEF FusionAssumption
<1> FusionTypeOK
  BY DEF FusionInv
<1>1. CASE AskPanel
  <2>1. /\ \A c \in Candidates : slot'[c] = IF c \in Wave THEN "asked" ELSE slot[c]
        /\ \A c \in Candidates : tries'[c] = IF c \in Wave THEN 1 ELSE tries[c]
        /\ slot' \in [Candidates -> {"idle", "asked", "prose", "call", "failed"}]
        /\ DOMAIN tries' = Candidates
        /\ stage = "panel" /\ UNCHANGED <<wish, stage, judging, heard, outcome>>
    BY <1>1 DEF AskPanel, FusionTypeOK
  <2>2. ASSUME NEW c \in Candidates, c \in Wave
        PROVE  AttemptsLeft(slot'[c], tries'[c]) < AttemptsLeft(slot[c], tries[c])
    <3>1. slot[c] = "idle" /\ slot'[c] = "asked" /\ tries'[c] = 1
      BY <2>1, <2>2, WaveIsIdle
    <3> QED BY <3>1 DEF AttemptsLeft
  <2>3. \A c \in Candidates : c \notin Wave => slot'[c] = slot[c] /\ tries'[c] = tries[c]
    BY <2>1
  <2>4. FusionCounts'
    BY <2>1, <2>3 DEF FusionCounts
  <2>5. CASE \E c \in Candidates : c \in Wave
    BY <2>1, <2>2, <2>3, <2>4, <2>5 DEF PanelAdvances
  <2>6. CASE \A c \in Candidates : c \notin Wave
    <3>1. slot' = [c \in Candidates |-> slot[c]] /\ tries' = [c \in Candidates |-> tries[c]]
      BY <1>1, <2>6 DEF AskPanel
    <3>2. slot' = slot /\ tries' = tries
      BY <3>1 DEF FusionTypeOK
    <3> QED BY <2>1, <2>4, <3>2 DEF fusion
  <2> QED BY <2>5, <2>6
<1>2. ASSUME NEW c \in Candidates, SlotEnds(c)
      PROVE  PanelAdvances /\ FusionCounts'
  <2>1. slot[c] = "asked" /\ tries[c] \in 1 .. MaxSlotAttempts
    BY <1>2 DEF SlotEnds, SlotAnswers, SlotRetries, SlotFails, FusionCounts
  <2>2. AttemptsLeft(slot[c], tries[c]) = MaxSlotAttempts + 1 - tries[c]
    BY <2>1 DEF AttemptsLeft
  <2>3. \A d \in Candidates : d # c => slot'[d] = slot[d] /\ tries'[d] = tries[d]
    BY <1>2 DEF SlotEnds, SlotAnswers, SlotRetries, SlotFails, FusionTypeOK
  <2>4. UNCHANGED <<wish, stage, judging, heard, outcome>>
    BY <1>2 DEF SlotEnds, SlotAnswers, SlotRetries, SlotFails
  <2>5. \/ slot'[c] \in {"prose", "call", "failed"}
        \/ /\ slot'[c] = "asked" /\ tries[c] < MaxSlotAttempts
           /\ tries'[c] = tries[c] + 1
    BY <1>2, <2>1 DEF SlotEnds, SlotAnswers, SlotRetries, SlotFails, FusionTypeOK
  <2>6. AttemptsLeft(slot'[c], tries'[c]) < AttemptsLeft(slot[c], tries[c])
    <3>1. CASE slot'[c] \in {"prose", "call", "failed"}
      <4>1. AttemptsLeft(slot'[c], tries'[c]) = 0
        BY <3>1 DEF AttemptsLeft
      <4> QED BY <4>1, <2>1, <2>2
    <3>2. CASE /\ slot'[c] = "asked" /\ tries[c] < MaxSlotAttempts
               /\ tries'[c] = tries[c] + 1
      <4>1. AttemptsLeft(slot'[c], tries'[c]) = MaxSlotAttempts + 1 - (tries[c] + 1)
        BY <3>2 DEF AttemptsLeft
      <4> QED BY <4>1, <2>1, <2>2
    <3> QED BY <2>5, <3>1, <3>2
  <2>7. slot'[c] = "asked" => tries'[c] \in 1 .. MaxSlotAttempts
    BY <2>1, <2>5
  <2>8. stage = "panel"
    BY <2>1 DEF FusionCounts
  <2> QED BY <2>3, <2>4, <2>6, <2>7, <2>8 DEF PanelAdvances, FusionCounts
<1>3. CASE ClosePanel
  <2>1. /\ stage = "panel" /\ UNCHANGED <<wish, slot, tries, heard>>
        /\ \/ stage' = "judge" /\ judging' = 1
           \/ stage' = "over"
    BY <1>3 DEF ClosePanel
  <2>2. \A c \in Candidates : slot[c] # "asked"
    BY <1>3 DEF ClosePanel, SlotsThatAre, FusionInv
  <2>3. JudgementsLeft(stage', judging') < JudgementsLeft(stage, judging)
    BY <2>1 DEF JudgementsLeft
  <2> QED BY <2>1, <2>2, <2>3 DEF JudgeAdvances, FusionCounts
<1>4. CASE JudgeSpeaks
  <2>1. CASE judging \in heard
    BY <1>4, <2>1 DEF JudgeSpeaks, fusion, FusionCounts
  <2>2. CASE judging \notin heard
    BY <1>4, <2>2 DEF JudgeSpeaks, JudgeIsHeard, FusionCounts
  <2> QED BY <2>1, <2>2
<1>5. CASE JudgeEnds
  <2>1. /\ stage = "judge" /\ UNCHANGED <<wish, slot, tries, heard>>
        /\ \/ stage' = "judge" /\ judging < MaxJudgeAttempts /\ judging' = judging + 1
           \/ stage' = "over"
    BY <1>5 DEF JudgeEnds, JudgeRetries, JudgeAnswers, JudgeFails
  <2>2. judging \in 1 .. MaxJudgeAttempts /\ \A c \in Candidates : slot[c] # "asked"
    BY <2>1 DEF FusionCounts
  <2>3. JudgementsLeft(stage', judging') < JudgementsLeft(stage, judging)
    BY <2>1, <2>2 DEF JudgementsLeft
  <2> QED BY <2>1, <2>2, <2>3 DEF JudgeAdvances, FusionCounts
<1>6. CASE UNCHANGED fusion
  BY <1>6 DEF fusion, FusionCounts
<1> QED BY <1>1, <1>2, <1>3, <1>4, <1>5, <1>6 DEF FusionNext

(* Whatever the models and the client do, each step of a fusion uses up an *)
(* attempt of a candidate or of the judge, or ends one, or is the first    *)
(* text of the judge's attempt: a candidate that has answered or failed is *)
(* never asked again, and none is under way once the judge is asked.  Only *)
(* so many steps are left at the start, and none when the fusion is over.  *)
THEOREM FusionsRunDown ==
  FusionSpec => [][PanelAdvances \/ JudgeAdvances \/ JudgeIsHeard]_fusion
<1>1. FusionInit => FusionCounts
  BY DEF FusionInit, FusionCounts
<1>2. FusionInv /\ FusionCounts /\ [FusionNext]_fusion
        => [PanelAdvances \/ JudgeAdvances \/ JudgeIsHeard]_fusion /\ FusionCounts'
  BY FusionRunsDown
<1> QED BY <1>1, <1>2, FusionIsInv, PTL DEF FusionSpec
=============================================================================
