------------------------------ MODULE AgentRun ------------------------------
(***************************************************************************)
(* One agent run: the row of agent_runs that agent-runtime.ts moves, its   *)
(* budgets and checkpoints, the drivers of agent-driver.ts that read the   *)
(* row, wait for a model and then report an event, and the callers of the  *)
(* HTTP API (step, decision, cancel) that act in between.  A handler of    *)
(* agent-runtime.ts is one SQLite transaction, hence one action; a driver  *)
(* is two actions, because it awaits the model between its read and its    *)
(* step.                                                                   *)
(***************************************************************************)
EXTENDS RunKernel

CONSTANTS
  Drivers,       \* concurrent calls of advance() on this run
  MaxSteps,      \* max_steps of the row
  MaxTokens,     \* max_tokens of the row; 0 means no ceiling
  AnswerTokens,  \* the most tokens one reported step uses
  MaxRepair      \* maxRepairAttempts, from the compute mode

ASSUME BudgetAssumption ==
  /\ MaxSteps \in Nat \ {0}   \* createRun refuses maxSteps < 1
  /\ MaxTokens \in Nat
  /\ AnswerTokens \in Nat     \* step() refuses tokensUsed < 0
  /\ MaxRepair \in Nat

VARIABLES
  state,       \* column state
  ctx,         \* column context
  stepsUsed,   \* column steps_used
  tokensUsed,  \* column tokens_used
  late,        \* the deadline has passed
  awaiting,    \* column awaiting
  checkpoint,  \* the newest row of agent_checkpoints
  driver,      \* what each driver is waiting for
  codeStage    \* history: how far the newest code change has been let through

row == <<state, ctx, stepsUsed, tokensUsed, awaiting, checkpoint, codeStage>>
vars == <<row, late, driver>>

Idle == [busy |-> FALSE, asked |-> "INTAKE", at |-> 0]
Actors == {"driver", "caller", "budget"}
CodeStages == {"none", "changed", "reviewed", "approved"}

(* PHASES: the events a model's answer can produce in each state; a state  *)
(* that is not listed cannot be advanced by a driver.                      *)
PhaseEvents ==
  [s \in RunStates |->
     CASE s = "INTAKE" -> {"spec_ready", "needs_clarification"}
       [] s = "CLARIFY" -> {"clarification_answered", "spec_ready"}
       [] s = "SPECIFY" -> {"spec_ready", "needs_clarification"}
       [] s = "PLAN" -> {"plan_ready", "needs_clarification"}
       [] s = "RECON" -> {"recon_complete"}
       [] s = "IMPLEMENT" -> {"implementation_batch_done"}
       [] s = "TEST" -> {"tests_passed", "tests_failed"}
       [] s = "REPAIR" -> {"repair_succeeded", "tests_failed"}
       [] s = "SECURITY_REVIEW" -> {"security_clear", "security_blocked"}
       [] s = "PREVIEW" -> {"preview_ready"}
       [] s = "VERIFY" -> {"finalized", "tests_failed"}
       [] OTHER -> {}]

(* APPROVAL_STATES *)
Gate(s) == CASE s = "AWAITING_PLAN_APPROVAL" -> "plan"
             [] s = "AWAITING_DEPLOY_APPROVAL" -> "deploy"
             [] OTHER -> "none"

(* createRun: the row in INTAKE and checkpoint 0, in one transaction. *)
Init ==
  /\ state = "INTAKE"
  /\ ctx = initialContext
  /\ stepsUsed = 0
  /\ tokensUsed = 0
  /\ late = FALSE
  /\ awaiting = "none"
  /\ checkpoint = [sequence |-> 0, state |-> "INTAKE", by |-> "caller"]
  /\ driver = [d \in Drivers |-> Idle]
  /\ codeStage = "none"

-----------------------------------------------------------------------------
(* Mutant: the ceilings are compared off by one. *)
BugExhausted ==
  \/ stepsUsed > MaxSteps
  \/ MaxTokens > 0 /\ tokensUsed > MaxTokens
  \/ late

(* exhaustedBudget(): the cost ceiling compares like the token ceiling and *)
(* is not kept apart from it.                                              *)
Exhausted ==
  \/ stepsUsed >= MaxSteps
  \/ MaxTokens > 0 /\ tokensUsed >= MaxTokens
  \/ late

(* Mutant: the checkpoint reuses the number of the step before it. *)
BugAppendCheckpoint(to, by) ==
  checkpoint' = [sequence |-> stepsUsed, state |-> to, by |-> by]

appendCheckpoint(to, by) ==
  checkpoint' = [sequence |-> stepsUsed + 1, state |-> to, by |-> by]

stopRun(to, by) ==
  /\ state' = to
  /\ stepsUsed' = stepsUsed + 1
  /\ awaiting' = "none"
  /\ appendCheckpoint(to, by)
  /\ UNCHANGED <<ctx, tokensUsed, codeStage>>

(* How an accepted event moves the newest code change: a batch or a repair *)
(* is new code, a passed review covers it, an approval releases it.        *)
CodeStageAfter(e) ==
  CASE e \in {"implementation_batch_done", "repair_succeeded"} -> "changed"
    [] e \in {"security_clear", "security_findings_accepted"} -> "reviewed"
    [] e = "deploy_approved" /\ codeStage = "reviewed" -> "approved"
    [] OTHER -> codeStage

(* Mutant: a run over budget is refused, not failed. *)
BugStepOverBudget ==
  /\ state \notin TerminalStates
  /\ Exhausted
  /\ UNCHANGED row

(* step(), when the run is over budget: the run fails, the event is lost. *)
StepOverBudget ==
  /\ state \notin TerminalStates
  /\ Exhausted
  /\ stopRun("FAILED", "budget")

(* step(), when the kernel accepts the event. *)
StepAccepted(e, tokens, by) ==
  /\ ~Exhausted
  /\ Accepts(state, e, ctx, MaxRepair)
  /\ state' = Target(state, e)
  /\ ctx' = ContextAfter(e, ctx)
  /\ stepsUsed' = stepsUsed + 1
  /\ tokensUsed' = tokensUsed + tokens
  /\ awaiting' = Gate(Target(state, e))
  /\ appendCheckpoint(Target(state, e), by)
  /\ codeStage' = CodeStageAfter(e)

(* step(), when the run is terminal or the kernel refuses: no row changes. *)
StepRefused(e) ==
  /\ \/ state \in TerminalStates
     \/ ~Exhausted /\ ~Accepts(state, e, ctx, MaxRepair)
  /\ UNCHANGED row

-----------------------------------------------------------------------------
(* POST /runs/:id/step: any event, from any state.  A refusal is a stutter *)
(* and is left out.                                                        *)
CallerStep(e, tokens) ==
  /\ StepOverBudget \/ StepAccepted(e, tokens, "caller")
  /\ UNCHANGED <<late, driver>>

(* decide(): the event is chosen by the gate the run is parked on. *)
Decide(approved) ==
  LET e == CASE Gate(state) = "plan" /\ approved -> "plan_approved"
             [] Gate(state) = "plan" /\ ~approved -> "plan_rejected"
             [] Gate(state) = "deploy" /\ approved -> "deploy_approved"
             [] OTHER -> "deploy_rejected"
  IN /\ Gate(state) # "none"
     /\ StepOverBudget \/ StepAccepted(e, 0, "caller")
     /\ UNCHANGED <<late, driver>>

(* Mutant: a cancel does not look whether the run has ended. *)
BugCancelRun ==
  /\ stopRun("CANCELLED", "caller")
  /\ UNCHANGED <<late, driver>>

cancelRun ==
  /\ state \notin TerminalStates
  /\ stopRun("CANCELLED", "caller")
  /\ UNCHANGED <<late, driver>>

DeadlinePasses ==
  /\ ~late
  /\ late' = TRUE
  /\ UNCHANGED <<row, driver>>

(* advance(), up to its await: read the row, pick the phase, ask the model. *)
Ask(d) ==
  /\ ~driver[d].busy
  /\ state \notin TerminalStates
  /\ awaiting = "none"
  /\ PhaseEvents[state] # {}
  /\ driver' = [driver EXCEPT ![d] =
                  [busy |-> TRUE, asked |-> state, at |-> stepsUsed]]
  /\ UNCHANGED <<row, late>>

(* advance(), after its await: the answer is mapped by the phase that was  *)
(* asked and reported to step(), whatever the run has become meanwhile.    *)
Answer(d) ==
  /\ driver[d].busy
  /\ driver' = [driver EXCEPT ![d] = Idle]
  /\ \E e \in PhaseEvents[driver[d].asked], tokens \in {0, AnswerTokens} :
       StepOverBudget \/ StepAccepted(e, tokens, "driver") \/ StepRefused(e)
  /\ UNCHANGED late

(* An answer outside the offered words, a failed completion, or the end of *)
(* the process: the driver is gone and the row stays.                      *)
Abandon(d) ==
  /\ driver[d].busy
  /\ driver' = [driver EXCEPT ![d] = Idle]
  /\ UNCHANGED <<row, late>>

Next ==
  \/ \E e \in RunEvents, tokens \in {0, AnswerTokens} : CallerStep(e, tokens)
  \/ \E approved \in BOOLEAN : Decide(approved)
  \/ cancelRun
  \/ DeadlinePasses
  \/ \E d \in Drivers : Ask(d) \/ Answer(d) \/ Abandon(d)

Spec == Init /\ [][Next]_vars

(* Somebody keeps calling advance(), and a model that is asked again and   *)
(* again answers with an offered word some time.                           *)
Fairness == \A d \in Drivers : WF_vars(Ask(d)) /\ SF_vars(Answer(d))
FairSpec == Spec /\ Fairness
-----------------------------------------------------------------------------
TypeOK ==
  /\ state \in RunStates
  /\ ctx \in RunContexts(MaxRepair)
  /\ stepsUsed \in 0 .. MaxSteps + 1
  /\ tokensUsed \in Nat
  /\ late \in BOOLEAN
  /\ awaiting \in {"none", "plan", "deploy"}
  /\ checkpoint \in [sequence : Nat, state : RunStates, by : Actors]
  /\ driver \in [Drivers -> [busy : BOOLEAN, asked : RunStates, at : Nat]]
  /\ codeStage \in CodeStages

(* I5 and I2 for the code that is shipped, not for flags that stay set for *)
(* ever: past PREVIEW the newest code change has passed a security review, *)
(* and in DEPLOY and VERIFY a person approved the deployment after that    *)
(* review.  Repairs, blocks, stale answers and callers are all in between. *)
ShippedCodeWasReleased ==
  /\ state \in {"PREVIEW", "AWAITING_DEPLOY_APPROVAL"} =>
       codeStage = "reviewed"
  /\ state \in {"DEPLOY", "VERIFY"} => codeStage = "approved"

(* The token and step ceilings: a run overshoots a ceiling by at most the  *)
(* one step that crossed it, and the step after that ends the run.         *)
BudgetOvershootIsOneStep ==
  /\ MaxTokens > 0 => tokensUsed < MaxTokens + AnswerTokens
                      \/ tokensUsed = 0
  /\ stepsUsed > MaxSteps => state \in TerminalStates

(* advance() trusts the awaiting column and decide() trusts the state: they *)
(* agree on every path that writes the row, forced stops included.         *)
AwaitingIsTheGate == awaiting = Gate(state)

(* I6 with late answers: nothing a driver, a decision or a cancel that was *)
(* started earlier does changes a run that has ended.                      *)
TerminalIsFinal == [][(state \in TerminalStates) => UNCHANGED row]_vars

(* The driver never passes a human gate: a run leaves an approval state by *)
(* a caller's act or by its budget, even when an answer to a question that *)
(* was asked before the gate arrives while the run is parked.              *)
GateNeedsAPerson ==
  [][Gate(state) # "none" /\ state' # state
       => checkpoint'.by # "driver"]_vars

(* The audit trail: state, context and budgets change only together with   *)
(* one new checkpoint, numbered without a gap, that names the new state.   *)
EveryChangeIsCheckpointed ==
  [][<<state, ctx, stepsUsed, tokensUsed>>'
        # <<state, ctx, stepsUsed, tokensUsed>>
       => /\ checkpoint'.sequence = checkpoint.sequence + 1
          /\ checkpoint'.state = state']_vars

(* A run that has exhausted a ceiling makes no further progress: it can    *)
(* only fail, or be cancelled.                                             *)
NoProgressOverBudget ==
  [][Exhausted /\ state' # state
       => state' \in {"FAILED", "CANCELLED"}]_vars

(* What the driver cannot settle by itself: the run has ended, waits at a  *)
(* gate, is in a state without a phase, or is in a phase one of whose      *)
(* answers the kernel refuses (no repair left, no approved plan).          *)
NeedsAPerson ==
  \/ state \in TerminalStates
  \/ PhaseEvents[state] = {}
  \/ \E e \in PhaseEvents[state] : ~Accepts(state, e, ctx, MaxRepair)

(* advanceUntil(): driving a run always comes to a point where it has      *)
(* ended or needs a person; the phases cannot loop for ever.               *)
DrivingComesToAnEnd == []<>NeedsAPerson

(* I1, "No implementation before an approved plan", as the state machine's *)
(* header states it: no batch of code and no repair is ever accepted in a  *)
(* run whose plan nobody approved.                                         *)
NoImplementationBeforeApproval == codeStage # "none" => ctx.planApproved

(* The driver's "bounded question for the phase the run is already in": an *)
(* answer that moves the run was asked for at the step the run is at.      *)
AnswerIsForThisPhase ==
  [][\A d \in Drivers :
       driver[d].busy /\ ~driver'[d].busy
         /\ checkpoint' # checkpoint /\ checkpoint'.by = "driver"
       => driver[d].at = stepsUsed]_vars
=============================================================================
