----------------------------- MODULE RunKernel -----------------------------
(***************************************************************************)
(* The deterministic state machine of an agent run                         *)
(* (agent/src/core/state-machine.ts): which events a state accepts, the    *)
(* guards that carry the invariants I1-I6, where an event lands and what   *)
(* it writes into the run's context.  Everything here is a constant        *)
(* operator; AgentRun drives it.                                           *)
(***************************************************************************)
EXTENDS Naturals

RunStates ==
  {"INTAKE", "CLARIFY", "SPECIFY", "PLAN", "AWAITING_PLAN_APPROVAL", "RECON",
   "IMPLEMENT", "TEST", "REPAIR", "SECURITY_REVIEW", "PREVIEW",
   "AWAITING_DEPLOY_APPROVAL", "DEPLOY", "VERIFY", "FINALIZE", "DONE",
   "FAILED", "CANCELLED", "BLOCKED"}

TerminalStates == {"DONE", "FAILED", "CANCELLED"}

RunEvents ==
  {"request_received", "needs_clarification", "clarification_answered",
   "spec_ready", "plan_ready", "plan_approved", "plan_rejected",
   "recon_complete", "implementation_batch_done", "tests_passed",
   "tests_failed", "repair_succeeded", "repair_exhausted", "security_clear",
   "security_blocked", "security_findings_accepted", "preview_ready",
   "deploy_requested", "deploy_approved", "deploy_rejected",
   "deploy_verified", "deploy_failed", "finalized", "fail", "cancel",
   "block", "unblock"}

(* RunContext without blockReason, a text that no guard reads. *)
RunContexts(maxRepair) ==
  [repairAttempts : 0 .. maxRepair, planApproved : BOOLEAN,
   deployApproved : BOOLEAN, securityGatePassed : BOOLEAN,
   verifyPassed : BOOLEAN]

initialContext ==
  [repairAttempts |-> 0, planApproved |-> FALSE, deployApproved |-> FALSE,
   securityGatePassed |-> FALSE, verifyPassed |-> FALSE]

(* Mutant: a deployment may be requested from every state. *)
BugUniversal == {"fail", "cancel", "block", "deploy_requested"}

Universal == {"fail", "cancel", "block"}

(* TABLE: the events listed for a state; a terminal state lists none. *)
Table ==
  [s \in RunStates |->
     CASE s = "INTAKE" -> {"needs_clarification", "spec_ready", "plan_ready"}
       [] s = "CLARIFY" ->
            {"clarification_answered", "spec_ready", "plan_ready"}
       [] s = "SPECIFY" -> {"spec_ready", "plan_ready", "needs_clarification"}
       [] s = "PLAN" -> {"plan_ready", "needs_clarification"}
       [] s = "AWAITING_PLAN_APPROVAL" -> {"plan_approved", "plan_rejected"}
       [] s = "RECON" ->
            {"recon_complete", "implementation_batch_done",
             "needs_clarification"}
       [] s = "IMPLEMENT" ->
            {"implementation_batch_done", "tests_failed", "block"}
       [] s = "TEST" -> {"tests_passed", "tests_failed", "repair_exhausted"}
       [] s = "REPAIR" ->
            {"repair_succeeded", "repair_exhausted", "tests_failed"}
       [] s = "SECURITY_REVIEW" ->
            {"security_clear", "security_blocked",
             "security_findings_accepted"}
       [] s = "PREVIEW" ->
            {"preview_ready", "deploy_requested",
             "implementation_batch_done"}
       [] s = "AWAITING_DEPLOY_APPROVAL" ->
            {"deploy_approved", "deploy_rejected"}
       [] s = "DEPLOY" -> {"deploy_verified", "deploy_failed"}
       [] s = "VERIFY" -> {"finalized", "tests_failed", "deploy_failed"}
       [] s = "FINALIZE" -> {"finalized"}
       [] s = "BLOCKED" -> {"unblock"}
       [] OTHER -> {}]

(* TARGET, with the special case of unblock; an event without a target     *)
(* leaves the state as it is.                                              *)
Target(s, e) ==
  CASE e = "needs_clarification" -> "CLARIFY"
    [] e = "clarification_answered" -> "SPECIFY"
    [] e \in {"spec_ready", "plan_rejected"} -> "PLAN"
    [] e = "plan_ready" -> "AWAITING_PLAN_APPROVAL"
    [] e = "plan_approved" -> "RECON"
    [] e \in {"recon_complete", "unblock"} -> "IMPLEMENT"
    [] e \in {"implementation_batch_done", "repair_succeeded"} -> "TEST"
    [] e = "tests_passed" -> "SECURITY_REVIEW"
    [] e = "tests_failed" -> "REPAIR"
    [] e \in {"security_clear", "security_findings_accepted"} -> "PREVIEW"
    [] e \in {"repair_exhausted", "security_blocked", "deploy_failed",
              "block"} -> "BLOCKED"
    [] e \in {"preview_ready", "deploy_requested"} ->
         "AWAITING_DEPLOY_APPROVAL"
    [] e = "deploy_approved" -> "DEPLOY"
    [] e = "deploy_rejected" -> "FINALIZE"
    [] e = "deploy_verified" -> "VERIFY"
    [] e = "finalized" -> "DONE"
    [] e = "fail" -> "FAILED"
    [] e = "cancel" -> "CANCELLED"
    [] OTHER -> s

(* Mutant: the repair budget is compared off by one. *)
BugRepairBudgetLeft(ctx, maxRepair) == ctx.repairAttempts <= maxRepair

(* I4: a failed test is accepted while a repair attempt is left. *)
RepairBudgetLeft(ctx, maxRepair) == ctx.repairAttempts < maxRepair

(* guard(): TRUE when no invariant refuses the event. *)
GuardAllows(s, e, ctx, maxRepair) ==
  /\ s \notin TerminalStates
  /\ e = "plan_approved" => s = "AWAITING_PLAN_APPROVAL"
  /\ e = "implementation_batch_done" =>
       ctx.planApproved /\ s \in {"RECON", "IMPLEMENT", "PREVIEW"}
  /\ e = "tests_failed" => RepairBudgetLeft(ctx, maxRepair)
  /\ e \in {"deploy_requested", "preview_ready"} => ctx.securityGatePassed
  /\ e = "deploy_approved" => s = "AWAITING_DEPLOY_APPROVAL"
  /\ e = "finalized" =>
       \/ s = "FINALIZE"
       \/ s = "VERIFY" /\ ctx.verifyPassed

(* Mutant: the transition table is not consulted once the guard is quiet. *)
BugAccepts(s, e, ctx, maxRepair) == GuardAllows(s, e, ctx, maxRepair)

(* transition(): accepted when the guard allows it and the state lists it. *)
Accepts(s, e, ctx, maxRepair) ==
  /\ GuardAllows(s, e, ctx, maxRepair)
  /\ e \in Table[s] \cup Universal

(* The context an accepted event leaves behind. *)
ContextAfter(e, ctx) ==
  [repairAttempts |->
     IF e = "tests_failed" THEN ctx.repairAttempts + 1
                           ELSE ctx.repairAttempts,
   planApproved |-> ctx.planApproved \/ e = "plan_approved",
   deployApproved |-> ctx.deployApproved \/ e = "deploy_approved",
   securityGatePassed |->
     \/ ctx.securityGatePassed
     \/ e \in {"security_clear", "security_findings_accepted"},
   verifyPassed |-> ctx.verifyPassed \/ e = "deploy_verified"]
=============================================================================
