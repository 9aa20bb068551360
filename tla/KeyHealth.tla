----------------------------- MODULE KeyHealth -----------------------------
(***************************************************************************)
(* What the gateway believes of its provider keys (services/health.ts): a  *)
(* check reads the row of a key, awaits the provider and writes a verdict; *)
(* three refusals in a row take the key out of use.  Checks come from a    *)
(* pass over all enabled keys, which a second caller joins, and one by     *)
(* one, from the dashboard or after a 401 on live traffic.  Meanwhile live *)
(* requests succeed, the operator turns keys on and off and replaces them, *)
(* the provider changes its mind, and the process restarts, which forgets  *)
(* the count of refusals.                                                  *)
(***************************************************************************)
EXTENDS Integers

CONSTANTS
  Keys,
  DisableAfter   \* CONSECUTIVE_FAILURES_TO_DISABLE

ASSUME HealthAssumption == DisableAfter \in Nat \ {0}

VARIABLES
  key,       \* api_keys, and whether the provider takes the credential
  failures,  \* failureCount
  passing,   \* checkAllInFlight
  queued,    \* the keys the pass has still to check
  check,     \* the checks in flight
  refused    \* history: refusals since the key was last seen to work

health == <<key, failures, passing, queued, check, refused>>

Statuses == {"unknown", "healthy", "invalid", "error"}
InRotation == {"healthy", "unknown"}

(* A credential the ENCRYPTION_KEY does not open is unreadable.  recent is *)
(* last_checked_at within RECENT_CHECK_SKIP_MS.                            *)
KeyRows == [enabled : BOOLEAN, status : Statuses,
            cred : {"good", "bad", "unreadable"}, recent : BOOLEAN]

(* A check is on the credential of the row, or on one replaced since,      *)
(* which the provider took or not.                                         *)
Askers == {"pass", "alone"}
Questions == {"none", "current", "good", "bad"}

HealthInit ==
  /\ key \in [Keys -> [enabled : {TRUE}, status : {"unknown"},
                       cred : {"good", "bad"}, recent : {FALSE}]]
  /\ failures = [k \in Keys |-> 0]
  /\ passing = FALSE
  /\ queued = {}
  /\ check = [a \in Askers |-> [k \in Keys |-> "none"]]
  /\ refused = [k \in Keys |-> 0]

-----------------------------------------------------------------------------
(* The keys an unforced pass checks: a key parked at 'error' always. *)
Due(k) == key[k].status = "error" \/ ~key[k].recent

(* checkAllKeys() when no pass is in flight. *)
StartPass(force) ==
  /\ ~passing
  /\ passing' = TRUE
  /\ queued' = {k \in Keys : key[k].enabled /\ (force \/ Due(k))}
  /\ UNCHANGED <<key, failures, check, refused>>

(* checkKeyHealth() reads the row and asks the provider, or fails at once  *)
(* on a credential it cannot read.                                         *)
Ask(a, k) ==
  /\ IF key[k].cred = "unreadable"
     THEN key' = [key EXCEPT ![k].recent = TRUE] /\ UNCHANGED check
     ELSE check' = [check EXCEPT ![a][k] = "current"] /\ UNCHANGED key
  /\ UNCHANGED <<failures, passing, refused>>

(* A worker takes the next key of the pass. *)
AskInPass(k) ==
  /\ k \in queued
  /\ queued' = queued \ {k}
  /\ Ask("pass", k)

(* POST /check/:keyId, or the revalidation after a 401. *)
AskAlone(k) ==
  /\ check["alone"][k] = "none"
  /\ Ask("alone", k)
  /\ UNCHANGED queued

(* What the provider has to say. *)
AskedOf(a, k) == IF check[a][k] = "current" THEN key[k].cred ELSE check[a][k]

Answered(a, k) == check' = [check EXCEPT ![a][k] = "none"]

(* Mutant: without the bound. *)
BugOneMore(n) == n + 1

(* Counts beyond the limit are alike. *)
OneMore(n) == IF n = DisableAfter THEN n ELSE n + 1

(* validateKey() answers yes. *)
Accepted(a, k) ==
  /\ AskedOf(a, k) = "good"
  /\ Answered(a, k)
  /\ key' = [key EXCEPT ![k] = [@ EXCEPT !.status = "healthy", !.recent = TRUE]]
  /\ failures' = [failures EXCEPT ![k] = 0]
  /\ refused' = [refused EXCEPT ![k] = 0]
  /\ UNCHANGED <<passing, queued>>

(* It answers no: recordInvalidFailure(). *)
Refused(a, k) ==
  /\ AskedOf(a, k) = "bad"
  /\ Answered(a, k)
  /\ LET count == OneMore(failures[k]) IN
       /\ failures' = [failures EXCEPT ![k] = count]
       /\ key' = [key EXCEPT ![k] =
                   [key[k] EXCEPT !.status = "invalid", !.recent = TRUE,
                                  !.enabled = key[k].enabled /\ count < DisableAfter]]
  /\ refused' = [refused EXCEPT ![k] = OneMore(@)]
  /\ UNCHANGED <<passing, queued>>

(* Mutant: a provider that cannot be reached counts as one that refuses.   *)
BugUnreached(a, k) ==
  /\ check[a][k] # "none"
  /\ Answered(a, k)
  /\ failures' = [failures EXCEPT ![k] = OneMore(@)]
  /\ key' = [key EXCEPT ![k] =
              [@ EXCEPT !.recent = TRUE,
                        !.enabled = key[k].enabled /\ OneMore(failures[k]) < DisableAfter]]
  /\ UNCHANGED <<passing, queued, refused>>

(* The provider is not reached: the verdict stays as it was. *)
Unreached(a, k) ==
  /\ check[a][k] # "none"
  /\ Answered(a, k)
  /\ key' = [key EXCEPT ![k].recent = TRUE]
  /\ UNCHANGED <<failures, passing, queued, refused>>

(* Mutant: checkAllInFlight is not cleared, every later caller joins the   *)
(* pass that is over.                                                      *)
BugEndPass ==
  /\ passing
  /\ queued = {}
  /\ \A k \in Keys : check["pass"][k] = "none"
  /\ UNCHANGED health

(* The last worker of the pass is done. *)
EndPass ==
  /\ passing
  /\ queued = {}
  /\ \A k \in Keys : check["pass"][k] = "none"
  /\ passing' = FALSE
  /\ UNCHANGED <<key, failures, queued, check, refused>>

(* markKeyHealthyFromRequest(): a live request succeeds, which may have    *)
(* been sent long ago.                                                     *)
Serves(k) ==
  /\ key[k].cred = "good"
  /\ key' = [key EXCEPT ![k].status = IF @ = "error" THEN "healthy" ELSE @]
  /\ failures' = [failures EXCEPT ![k] = 0]
  /\ refused' = [refused EXCEPT ![k] = 0]
  /\ UNCHANGED <<passing, queued, check>>

(* selectKeyForModel() cannot decrypt a key of the rotation. *)
CannotRead(k) ==
  /\ key[k].enabled
  /\ key[k].status \in InRotation
  /\ key[k].cred = "unreadable"
  /\ key' = [key EXCEPT ![k] = [@ EXCEPT !.status = "error", !.recent = TRUE]]
  /\ UNCHANGED <<failures, passing, queued, check, refused>>

(* RECENT_CHECK_SKIP_MS have passed since the last check. *)
Lapses(k) ==
  /\ key[k].recent
  /\ key' = [key EXCEPT ![k].recent = FALSE]
  /\ UNCHANGED <<failures, passing, queued, check, refused>>

-----------------------------------------------------------------------------
(* The dashboard, PATCH /keys: turn a key on or off.  What was counted     *)
(* against it stays.                                                       *)
Turn(k, on) ==
  /\ key[k].enabled # on
  /\ key' = [key EXCEPT ![k].enabled = on]
  /\ UNCHANGED <<failures, passing, queued, check, refused>>

(* ... or give it another credential.  A check in flight is not called     *)
(* off, nor is the count of refusals begun again.                          *)
Replace(k, cred, on) ==
  /\ key' = [key EXCEPT ![k] =
              [@ EXCEPT !.enabled = on, !.status = "unknown",
                        !.cred = cred, !.recent = FALSE]]
  /\ check' = [a \in Askers |-> [check[a] EXCEPT ![k] = AskedOf(a, k)]]
  /\ UNCHANGED <<failures, passing, queued, refused>>

(* POST /keys for a keyless provider that has a row. *)
Readd(k) ==
  /\ key' = [key EXCEPT ![k] = [@ EXCEPT !.enabled = TRUE, !.status = "unknown"]]
  /\ UNCHANGED <<failures, passing, queued, check, refused>>

(* The provider revokes or reinstates the credential. *)
Changes(k) ==
  /\ key[k].cred # "unreadable"
  /\ key' = [key EXCEPT ![k].cred = IF @ = "good" THEN "bad" ELSE "good"]
  /\ UNCHANGED <<failures, passing, queued, check, refused>>

(* A restart, perhaps with another ENCRYPTION_KEY. *)
RestartChecker ==
  /\ \E cred \in [Keys -> {"good", "bad", "unreadable"}] :
       /\ \A k \in Keys : cred[k] # key[k].cred => "unreadable" \in {cred[k], key[k].cred}
       /\ key' = [k \in Keys |-> [key[k] EXCEPT !.cred = cred[k]]]
  /\ failures' = [k \in Keys |-> 0]
  /\ passing' = FALSE
  /\ queued' = {}
  /\ check' = [a \in Askers |-> [k \in Keys |-> "none"]]
  /\ UNCHANGED refused

-----------------------------------------------------------------------------
Verdict(a, k) == Accepted(a, k) \/ Refused(a, k)

HealthNext ==
  \/ \E force \in BOOLEAN : StartPass(force)
  \/ EndPass
  \/ \E k \in Keys :
       \/ AskInPass(k)
       \/ AskAlone(k)
       \/ \E a \in Askers : Accepted(a, k) \/ Refused(a, k) \/ Unreached(a, k)
       \/ Serves(k)
       \/ CannotRead(k)
       \/ Lapses(k)
       \/ \E on \in BOOLEAN :
            Turn(k, on) \/ \E cred \in {"good", "bad"} : Replace(k, cred, on)
       \/ Readd(k)
       \/ Changes(k)
  \/ RestartChecker

HealthSpec == HealthInit /\ [][HealthNext]_health

(* Passes go on being scheduled, their workers get to every key and the    *)
(* clock moves; a provider that is asked again and again is reached at     *)
(* some time.                                                              *)
HealthFairness ==
  /\ WF_health(StartPass(FALSE))
  /\ WF_health(EndPass)
  /\ \A k \in Keys :
       /\ SF_health(AskInPass(k))
       /\ WF_health(Lapses(k))
       /\ \A a \in Askers : SF_health(Verdict(a, k))

-----------------------------------------------------------------------------
HealthTypeOK ==
  /\ key \in [Keys -> KeyRows]
  /\ failures \in [Keys -> 0 .. DisableAfter]
  /\ passing \in BOOLEAN
  /\ queued \subseteq Keys
  /\ check \in [Askers -> [Keys -> Questions]]
  /\ refused \in [Keys -> 0 .. DisableAfter]

(* The checker turns a key off only when that many answers about it have   *)
(* been refusals with no sign of life in between, however passes, single   *)
(* checks, live requests, outages and restarts are interleaved.            *)
AnswerTo(k) == \E a \in Askers : check[a][k] # "none" /\ check'[a][k] = "none"
DisabledByRefusals ==
  [][\A k \in Keys :
       key[k].enabled /\ ~key'[k].enabled /\ AnswerTo(k) => refused'[k] = DisableAfter]_health

(* The gateway's belief follows the provider: a key that works and stays   *)
(* on is found healthy again and again, and one that is refused for good   *)
(* leaves the rotation, whatever outages, stale verdicts and restarts come *)
(* in between.                                                             *)
KeysAreJudged ==
  \A k \in Keys :
    /\ <>[](key[k].cred = "good" /\ key[k].enabled) => []<>(key[k].status = "healthy")
    /\ <>[](key[k].cred = "bad") => []<>(key[k].enabled => key[k].status = "invalid")
=============================================================================
