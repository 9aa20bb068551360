--------------------------- MODULE AgentRunProofs ---------------------------
(***************************************************************************)
(* The safety properties of AgentRun for every number of drivers, every    *)
(* budget and every repair ceiling.                                        *)
(*                                                                         *)
(* TypeOK bounds stepsUsed by MaxSteps + 1, which no step preserves by     *)
(* itself: a forced stop counts a step too, so the bound needs that only a *)
(* run that has ended is over its ceiling (BudgetOvershootIsOneStep).      *)
(* That the checkpoints have no gaps needs that the newest one carries the *)
(* row's step count and state (CheckpointIsCurrent).  IInv joins them.     *)
(***************************************************************************)
EXTENDS AgentRun, TLAPS

(* The newest checkpoint describes the row. *)
CheckpointIsCurrent ==
  checkpoint.sequence = stepsUsed /\ checkpoint.state = state

IInv ==
  /\ TypeOK
  /\ BudgetOvershootIsOneStep
  /\ AwaitingIsTheGate
  /\ CheckpointIsCurrent

-----------------------------------------------------------------------------
(* Facts about the kernel's tables.                                        *)

(* An event lands in a state. *)
LEMMA TargetIsAState ==
  ASSUME NEW s \in RunStates, NEW e \in RunEvents
  PROVE  Target(s, e) \in RunStates
BY DEF Target, RunStates, RunEvents

(* Every answer a phase offers is an event of the state machine. *)
LEMMA PhasesOfferEvents ==
  ASSUME NEW s \in RunStates
  PROVE  PhaseEvents[s] \subseteq RunEvents
BY DEF PhaseEvents, RunStates, RunEvents

(* No phase offers an event that a state with a human gate accepts. *)
LEMMA NoPhasePassesAGate ==
  ASSUME NEW s \in RunStates, NEW g \in RunStates, Gate(g) # "none"
  PROVE  PhaseEvents[s] \cap (Table[g] \cup Universal) = {}
<1>1. g \in {"AWAITING_PLAN_APPROVAL", "AWAITING_DEPLOY_APPROVAL"}
  BY DEF Gate
<1>2. Table[g] \subseteq {"plan_approved", "plan_rejected",
                          "deploy_approved", "deploy_rejected"}
  BY <1>1 DEF Table
<1>3. PhaseEvents[s] \cap {"plan_approved", "plan_rejected",
        "deploy_approved", "deploy_rejected", "fail", "cancel", "block"} = {}
  BY DEF PhaseEvents, RunStates
<1>. QED  BY <1>2, <1>3 DEF Universal

(* The context an accepted event leaves is one, and keeps the repair       *)
(* counter within its ceiling: the guard of tests_failed compared it.      *)
LEMMA ContextIsAContext ==
  ASSUME NEW c \in RunContexts(MaxRepair), NEW s \in RunStates,
         NEW e \in RunEvents, Accepts(s, e, c, MaxRepair)
  PROVE  ContextAfter(e, c) \in RunContexts(MaxRepair)
<1>1. (IF e = "tests_failed" THEN c.repairAttempts + 1
                             ELSE c.repairAttempts) \in 0 .. MaxRepair
  BY BudgetAssumption DEF RunContexts, Accepts, GuardAllows, RepairBudgetLeft
<1>. QED  BY <1>1 DEF RunContexts, ContextAfter

-----------------------------------------------------------------------------
(* What each way of writing the row does to the invariant.  The two ways   *)
(* are shared by callers, decisions, cancels and drivers, so they are      *)
(* lemmas; the actions add what they do to late and driver.                *)

RowInv ==
  /\ state \in RunStates
  /\ ctx \in RunContexts(MaxRepair)
  /\ stepsUsed \in 0 .. MaxSteps + 1
  /\ tokensUsed \in Nat
  /\ awaiting \in {"none", "plan", "deploy"}
  /\ checkpoint \in [sequence : Nat, state : RunStates, by : Actors]
  /\ codeStage \in CodeStages
  /\ BudgetOvershootIsOneStep
  /\ AwaitingIsTheGate
  /\ CheckpointIsCurrent

SideInv ==
  /\ late \in BOOLEAN
  /\ driver \in [Drivers -> [busy : BOOLEAN, asked : RunStates, at : Nat]]

LEMMA IInvSplits == IInv <=> RowInv /\ SideInv
BY DEF IInv, RowInv, SideInv, TypeOK

LEMMA StopKeepsRowInv ==
  ASSUME RowInv, state \notin TerminalStates,
         NEW to \in {"FAILED", "CANCELLED"}, NEW by \in Actors,
         stopRun(to, by)
  PROVE  RowInv'
<1>1. /\ state' = to /\ awaiting' = "none" /\ ctx' = ctx
      /\ stepsUsed' = stepsUsed + 1 /\ tokensUsed' = tokensUsed
      /\ codeStage' = codeStage
      /\ checkpoint' = [sequence |-> stepsUsed + 1, state |-> to, by |-> by]
  BY DEF stopRun, appendCheckpoint
<1>2. state' \in RunStates /\ state' \in TerminalStates
  BY <1>1 DEF RunStates, TerminalStates
<1>3. stepsUsed' \in 0 .. MaxSteps + 1
  BY <1>1, BudgetAssumption DEF RowInv, BudgetOvershootIsOneStep
<1>4. BudgetOvershootIsOneStep'
  BY <1>1, <1>2 DEF RowInv, BudgetOvershootIsOneStep
<1>5. AwaitingIsTheGate'
  BY <1>1 DEF AwaitingIsTheGate, Gate
<1>6. /\ checkpoint' \in [sequence : Nat, state : RunStates, by : Actors]
      /\ CheckpointIsCurrent'
  BY <1>1, <1>2, <1>3 DEF CheckpointIsCurrent
<1>. QED  BY <1>1, <1>2, <1>3, <1>4, <1>5, <1>6 DEF RowInv

LEMMA AcceptedKeepsRowInv ==
  ASSUME RowInv, NEW e \in RunEvents, NEW tokens \in {0, AnswerTokens},
         NEW by \in Actors, StepAccepted(e, tokens, by)
  PROVE  RowInv'
<1>. DEFINE to == Target(state, e)
<1>1. /\ state' = to /\ awaiting' = Gate(to) /\ ctx' = ContextAfter(e, ctx)
      /\ stepsUsed' = stepsUsed + 1 /\ tokensUsed' = tokensUsed + tokens
      /\ codeStage' = CodeStageAfter(e)
      /\ checkpoint' = [sequence |-> stepsUsed + 1, state |-> to, by |-> by]
  BY DEF StepAccepted, appendCheckpoint
<1>2. state' \in RunStates
  BY <1>1, TargetIsAState DEF RowInv
<1>3. ctx' \in RunContexts(MaxRepair)
  BY <1>1, ContextIsAContext DEF RowInv, StepAccepted
<1>4. stepsUsed < MaxSteps /\ (MaxTokens > 0 => tokensUsed < MaxTokens)
  BY BudgetAssumption DEF RowInv, StepAccepted, Exhausted
<1>5. stepsUsed' \in 0 .. MaxSteps + 1 /\ ~(stepsUsed' > MaxSteps)
  BY <1>1, <1>4, BudgetAssumption DEF RowInv
<1>6. /\ tokensUsed' \in Nat
      /\ MaxTokens > 0 => tokensUsed' < MaxTokens + AnswerTokens
                          \/ tokensUsed' = 0
  BY <1>1, <1>4, BudgetAssumption DEF RowInv
<1>7. BudgetOvershootIsOneStep'
  BY <1>5, <1>6 DEF BudgetOvershootIsOneStep
<1>8. AwaitingIsTheGate' /\ awaiting' \in {"none", "plan", "deploy"}
  BY <1>1 DEF AwaitingIsTheGate, Gate
<1>9. codeStage' \in CodeStages
  BY <1>1 DEF RowInv, CodeStageAfter, CodeStages
<1>10. /\ checkpoint' \in [sequence : Nat, state : RunStates, by : Actors]
       /\ CheckpointIsCurrent'
  BY <1>1, <1>2, <1>5 DEF CheckpointIsCurrent
<1>. QED
  BY <1>2, <1>3, <1>5, <1>6, <1>7, <1>8, <1>9, <1>10 DEF RowInv

-----------------------------------------------------------------------------
(* A driver asks about a state of the machine, so its answer is an event.  *)
LEMMA AnswersAreEvents ==
  ASSUME SideInv, NEW d \in Drivers
  PROVE  PhaseEvents[driver[d].asked] \subseteq RunEvents
BY PhasesOfferEvents DEF SideInv

(* What a driver's bookkeeping does to the side of the invariant. *)
LEMMA IdleKeepsSideInv ==
  ASSUME SideInv, NEW d \in Drivers, late' = late,
         driver' = [driver EXCEPT ![d] = Idle]
  PROVE  SideInv'
BY DEF SideInv, Idle, RunStates

LEMMA InitIInv == Init => IInv
<1>. SUFFICES ASSUME Init PROVE IInv
  OBVIOUS
<1>1. state \in RunStates /\ codeStage \in CodeStages
  BY DEF Init, RunStates, CodeStages
<1>2. ctx \in RunContexts(MaxRepair)
  BY BudgetAssumption DEF Init, initialContext, RunContexts
<1>3. /\ stepsUsed \in 0 .. MaxSteps + 1 /\ tokensUsed \in Nat
      /\ BudgetOvershootIsOneStep
  BY BudgetAssumption DEF Init, BudgetOvershootIsOneStep
<1>4. AwaitingIsTheGate /\ awaiting \in {"none", "plan", "deploy"}
  BY DEF Init, AwaitingIsTheGate, Gate
<1>5. /\ checkpoint \in [sequence : Nat, state : RunStates, by : Actors]
      /\ CheckpointIsCurrent
  BY DEF Init, RunStates, Actors, CheckpointIsCurrent
<1>6. SideInv
  BY DEF Init, SideInv, Idle, RunStates
<1>. QED  BY <1>1, <1>2, <1>3, <1>4, <1>5, <1>6, IInvSplits DEF RowInv

LEMMA NextIInv == IInv /\ [Next]_vars => IInv'
<1>. SUFFICES ASSUME RowInv, SideInv, [Next]_vars
              PROVE  RowInv' /\ SideInv'
  BY IInvSplits DEF IInv, RowInv, SideInv, TypeOK, BudgetOvershootIsOneStep,
       AwaitingIsTheGate, CheckpointIsCurrent, Exhausted
<1>0. row' = row => RowInv'
  BY DEF row, RowInv, BudgetOvershootIsOneStep, AwaitingIsTheGate,
         CheckpointIsCurrent, Gate
<1>1. StepOverBudget => RowInv'
  BY StopKeepsRowInv DEF StepOverBudget, Actors
<1>2. <<late, driver>>' = <<late, driver>> => SideInv'
  BY DEF SideInv
<1>3. ASSUME NEW e \in RunEvents, NEW tokens \in {0, AnswerTokens},
             CallerStep(e, tokens)
      PROVE  RowInv' /\ SideInv'
  BY <1>1, <1>2, <1>3, AcceptedKeepsRowInv DEF CallerStep, Actors
<1>4. ASSUME NEW approved \in BOOLEAN, Decide(approved)
      PROVE  RowInv' /\ SideInv'
  <2>1. PICK e \in RunEvents : StepOverBudget \/ StepAccepted(e, 0, "caller")
    BY <1>4 DEF Decide, RunEvents
  <2>2. RowInv'
    BY <2>1, <1>1, AcceptedKeepsRowInv DEF Actors
  <2>. QED  BY <2>2, <1>2, <1>4 DEF Decide
<1>5. CASE cancelRun
  BY <1>5, <1>2, StopKeepsRowInv DEF cancelRun, Actors
<1>6. CASE DeadlinePasses
  BY <1>6, <1>0 DEF DeadlinePasses, SideInv
<1>7. ASSUME NEW d \in Drivers, Ask(d)
      PROVE  RowInv' /\ SideInv'
  <2>1. RowInv'
    BY <1>7, <1>0 DEF Ask
  <2>2. [busy |-> TRUE, asked |-> state, at |-> stepsUsed]
          \in [busy : BOOLEAN, asked : RunStates, at : Nat]
    BY BudgetAssumption DEF RowInv
  <2>3. SideInv'
    BY <1>7, <2>2 DEF Ask, SideInv
  <2>. QED  BY <2>1, <2>3
<1>8. ASSUME NEW d \in Drivers, Answer(d)
      PROVE  RowInv' /\ SideInv'
  <2>1. PICK e \in PhaseEvents[driver[d].asked], tokens \in {0, AnswerTokens} :
          \/ StepOverBudget
          \/ StepAccepted(e, tokens, "driver")
          \/ StepRefused(e)
    BY <1>8 DEF Answer
  <2>2. e \in RunEvents
    BY <2>1, AnswersAreEvents
  <2>3. RowInv'
    BY <2>1, <2>2, <1>0, <1>1, AcceptedKeepsRowInv DEF StepRefused, Actors
  <2>4. SideInv'
    BY <1>8, IdleKeepsSideInv DEF Answer
  <2>. QED  BY <2>3, <2>4
<1>9. ASSUME NEW d \in Drivers, Abandon(d)
      PROVE  RowInv' /\ SideInv'
  BY <1>9, <1>0, IdleKeepsSideInv DEF Abandon
<1>10. CASE UNCHANGED vars
  BY <1>10, <1>0, <1>2 DEF vars
<1>. QED
  BY <1>3, <1>4, <1>5, <1>6, <1>7, <1>8, <1>9, <1>10 DEF Next

(* Every reachable state satisfies the strengthened invariant. *)
THEOREM RunInvariant == Spec => []IInv
<1>. QED  BY InitIInv, NextIInv, PTL DEF Spec

(* The row, the checkpoint and the drivers keep their types; steps never   *)
(* pass the ceiling by more than the forced stop.                          *)
THEOREM TypeCorrect == Spec => []TypeOK
<1>1. IInv => TypeOK
  BY DEF IInv
<1>. QED  BY <1>1, RunInvariant, PTL

(* A run overshoots its token ceiling by less than one answer, and only a  *)
(* run that has ended is over its step ceiling: step() and createRun().    *)
THEOREM OvershootIsBounded == Spec => []BudgetOvershootIsOneStep
<1>1. IInv => BudgetOvershootIsOneStep
  BY DEF IInv
<1>. QED  BY <1>1, RunInvariant, PTL

(* The column that stops the driver always says what the state says. *)
THEOREM AwaitingTellsTheGate == Spec => []AwaitingIsTheGate
<1>1. IInv => AwaitingIsTheGate
  BY DEF IInv
<1>. QED  BY <1>1, RunInvariant, PTL

-----------------------------------------------------------------------------
(* The release of code.  ShippedCodeWasReleased is inductive by itself:    *)
(* the only ways into a state past the review carry the evidence along.    *)

(* Which events reach the four states that the property is about. *)
LEMMA WaysPastTheReview ==
  ASSUME NEW s \in RunStates, NEW e \in RunEvents, NEW c,
         Accepts(s, e, c, MaxRepair)
  PROVE  /\ Target(s, e) = "PREVIEW" =>
              e \in {"security_clear", "security_findings_accepted"}
         /\ Target(s, e) = "AWAITING_DEPLOY_APPROVAL" =>
              s = "PREVIEW" /\ e \in {"preview_ready", "deploy_requested"}
         /\ Target(s, e) = "DEPLOY" =>
              s = "AWAITING_DEPLOY_APPROVAL" /\ e = "deploy_approved"
         /\ Target(s, e) = "VERIFY" => s = "DEPLOY" /\ e = "deploy_verified"
<1>1. e \in Table[s] \cup Universal
  BY DEF Accepts
<1>2. /\ e \in {"preview_ready", "deploy_requested"} => s = "PREVIEW"
      /\ e = "deploy_approved" => s = "AWAITING_DEPLOY_APPROVAL"
      /\ e = "deploy_verified" => s = "DEPLOY"
      /\ e # "request_received"
  BY <1>1 DEF Table, RunStates, Universal
<1>. QED  BY <1>2 DEF Target, RunEvents

LEMMA AcceptedKeepsRelease ==
  ASSUME state \in RunStates, ShippedCodeWasReleased, NEW e \in RunEvents,
         NEW tokens, NEW by, StepAccepted(e, tokens, by)
  PROVE  ShippedCodeWasReleased'
<1>1. /\ Accepts(state, e, ctx, MaxRepair)
      /\ state' = Target(state, e)
      /\ codeStage' = CodeStageAfter(e)
  BY DEF StepAccepted
<1>2. state' \in {"PREVIEW", "AWAITING_DEPLOY_APPROVAL"} =>
        codeStage' = "reviewed"
  BY <1>1, WaysPastTheReview DEF ShippedCodeWasReleased, CodeStageAfter
<1>3. state' \in {"DEPLOY", "VERIFY"} => codeStage' = "approved"
  BY <1>1, WaysPastTheReview DEF ShippedCodeWasReleased, CodeStageAfter
<1>. QED  BY <1>2, <1>3 DEF ShippedCodeWasReleased

LEMMA StopKeepsRelease ==
  ASSUME NEW to \in {"FAILED", "CANCELLED"}, NEW by, stopRun(to, by)
  PROVE  ShippedCodeWasReleased'
BY DEF stopRun, ShippedCodeWasReleased

(* Every step writes the row in one of four ways. *)
LEMMA WaysToWriteTheRow ==
  ASSUME IInv, [Next]_vars
  PROVE  \/ row' = row
         \/ /\ state \notin TerminalStates
            /\ StepOverBudget \/ cancelRun
         \/ \E e \in RunEvents, tokens \in {0, AnswerTokens} :
              StepAccepted(e, tokens, "caller")
         \/ \E d \in Drivers : \E e \in PhaseEvents[driver[d].asked],
                               tokens \in {0, AnswerTokens} :
              StepAccepted(e, tokens, "driver")
<1>1. ASSUME NEW e \in RunEvents, NEW tokens \in {0, AnswerTokens},
             CallerStep(e, tokens)
      PROVE  StepOverBudget \/ StepAccepted(e, tokens, "caller")
  BY <1>1 DEF CallerStep
<1>2. ASSUME NEW approved \in BOOLEAN, Decide(approved)
      PROVE  \/ StepOverBudget
             \/ \E e \in RunEvents : StepAccepted(e, 0, "caller")
  BY <1>2 DEF Decide, RunEvents
<1>3. ASSUME NEW d \in Drivers, Answer(d)
      PROVE  \/ row' = row
             \/ StepOverBudget
             \/ \E e \in PhaseEvents[driver[d].asked],
                   tokens \in {0, AnswerTokens} :
                  StepAccepted(e, tokens, "driver")
  BY <1>3 DEF Answer, StepRefused
<1>4. StepOverBudget \/ cancelRun => state \notin TerminalStates
  BY DEF StepOverBudget, cancelRun
<1>. QED
  BY <1>1, <1>2, <1>3, <1>4
     DEF Next, DeadlinePasses, Ask, Abandon, vars

LEMMA NextRelease ==
  IInv /\ ShippedCodeWasReleased /\ [Next]_vars => ShippedCodeWasReleased'
<1>. SUFFICES ASSUME IInv, ShippedCodeWasReleased, [Next]_vars
              PROVE  ShippedCodeWasReleased'
  OBVIOUS
<1>0. SideInv /\ state \in RunStates
  BY IInvSplits DEF RowInv
<1>1. CASE row' = row
  BY <1>1 DEF row, ShippedCodeWasReleased
<1>2. CASE StepOverBudget \/ cancelRun
  BY <1>2, StopKeepsRelease DEF StepOverBudget, cancelRun
<1>3. ASSUME NEW e \in RunEvents, NEW tokens, NEW by,
             StepAccepted(e, tokens, by)
      PROVE  ShippedCodeWasReleased'
  BY <1>0, <1>3, AcceptedKeepsRelease
<1>4. ASSUME NEW d \in Drivers, NEW e \in PhaseEvents[driver[d].asked]
      PROVE  e \in RunEvents
  BY <1>0, AnswersAreEvents
<1>. QED  BY <1>1, <1>2, <1>3, <1>4, WaysToWriteTheRow

(* Past the preview the newest code was reviewed, and deployed code was    *)
(* approved after its review: I5 and I2 of state-machine.ts on every path. *)
THEOREM OnlyReleasedCodeShips == Spec => []ShippedCodeWasReleased
<1>1. Init => ShippedCodeWasReleased
  BY DEF Init, ShippedCodeWasReleased
<1>. QED  BY <1>1, NextRelease, RunInvariant, PTL DEF Spec

-----------------------------------------------------------------------------
(* The action properties.                                                  *)

(* The tables list nothing for a terminal state and the guard refuses it,  *)
(* so whatever was started before the end leaves the row alone (I6).       *)
THEOREM EndedRunsStay == Spec => TerminalIsFinal
<1>1. IInv /\ [Next]_vars => [(state \in TerminalStates) => UNCHANGED row]_vars
  <2>. SUFFICES ASSUME IInv, [Next]_vars, state \in TerminalStates
                PROVE  row' = row
    OBVIOUS
  <2>1. \A e, tokens, by : ~StepAccepted(e, tokens, by)
    BY DEF StepAccepted, Accepts, GuardAllows
  <2>. QED  BY <2>1, WaysToWriteTheRow
<1>. QED  BY <1>1, RunInvariant, PTL DEF Spec, TerminalIsFinal

(* No answer of a model, however late, moves a run off a human gate. *)
THEOREM OnlyPeoplePassGates == Spec => GateNeedsAPerson
<1>1. IInv /\ [Next]_vars =>
        [Gate(state) # "none" /\ state' # state
           => checkpoint'.by # "driver"]_vars
  <2>. SUFFICES ASSUME IInv, [Next]_vars, Gate(state) # "none",
                       state' # state
                PROVE  checkpoint'.by # "driver"
    OBVIOUS
  <2>0. SideInv /\ state \in RunStates
    BY IInvSplits DEF RowInv
  <2>1. row' # row
    BY DEF row
  <2>2. CASE StepOverBudget \/ cancelRun
    BY <2>2 DEF StepOverBudget, cancelRun, stopRun, appendCheckpoint
  <2>3. ASSUME NEW e, NEW tokens, StepAccepted(e, tokens, "caller")
        PROVE  checkpoint'.by # "driver"
    BY <2>3 DEF StepAccepted, appendCheckpoint
  <2>4. ASSUME NEW d \in Drivers, NEW e \in PhaseEvents[driver[d].asked],
               NEW tokens
        PROVE  ~StepAccepted(e, tokens, "driver")
    <3>1. driver[d].asked \in RunStates
      BY <2>0 DEF SideInv
    <3>2. e \notin Table[state] \cup Universal
      BY <2>0, <3>1, NoPhasePassesAGate
    <3>. QED  BY <3>2 DEF StepAccepted, Accepts
  <2>. QED  BY <2>1, <2>2, <2>3, <2>4, WaysToWriteTheRow
<1>. QED  BY <1>1, RunInvariant, PTL DEF Spec, GateNeedsAPerson

(* Nothing moves without the next checkpoint; needs CheckpointIsCurrent,   *)
(* since appendCheckpoint numbers by the row's step count.                 *)
THEOREM HistoryHasNoGaps == Spec => EveryChangeIsCheckpointed
<1>1. IInv /\ [Next]_vars =>
        [<<state, ctx, stepsUsed, tokensUsed>>'
           # <<state, ctx, stepsUsed, tokensUsed>>
         => /\ checkpoint'.sequence = checkpoint.sequence + 1
            /\ checkpoint'.state = state']_vars
  <2>. SUFFICES ASSUME IInv, [Next]_vars,
                       <<state, ctx, stepsUsed, tokensUsed>>'
                         # <<state, ctx, stepsUsed, tokensUsed>>
                PROVE  /\ checkpoint'.sequence = checkpoint.sequence + 1
                       /\ checkpoint'.state = state'
    OBVIOUS
  <2>1. row' # row
    BY DEF row
  <2>2. checkpoint.sequence = stepsUsed
    BY DEF IInv, CheckpointIsCurrent
  <2>3. ASSUME NEW to, NEW by,
               checkpoint' = [sequence |-> stepsUsed + 1, state |-> to,
                              by |-> by],
               state' = to
        PROVE  /\ checkpoint'.sequence = checkpoint.sequence + 1
               /\ checkpoint'.state = state'
    BY <2>2, <2>3
  <2>4. CASE StepOverBudget \/ cancelRun
    BY <2>3, <2>4 DEF StepOverBudget, cancelRun, stopRun, appendCheckpoint
  <2>5. ASSUME NEW e, NEW tokens, NEW by, StepAccepted(e, tokens, by)
        PROVE  /\ checkpoint'.sequence = checkpoint.sequence + 1
               /\ checkpoint'.state = state'
    BY <2>3, <2>5 DEF StepAccepted, appendCheckpoint
  <2>. QED  BY <2>1, <2>4, <2>5, WaysToWriteTheRow
<1>. QED  BY <1>1, RunInvariant, PTL DEF Spec, EveryChangeIsCheckpointed

(* Over a ceiling step() applies no event: the run only fails or is        *)
(* cancelled.                                                              *)
THEOREM CeilingsStopProgress == Spec => NoProgressOverBudget
<1>1. IInv /\ [Next]_vars =>
        [Exhausted /\ state' # state
           => state' \in {"FAILED", "CANCELLED"}]_vars
  <2>. SUFFICES ASSUME IInv, [Next]_vars, Exhausted, state' # state
                PROVE  state' \in {"FAILED", "CANCELLED"}
    OBVIOUS
  <2>1. row' # row
    BY DEF row
  <2>2. \A e, tokens, by : ~StepAccepted(e, tokens, by)
    BY DEF StepAccepted
  <2>3. CASE StepOverBudget \/ cancelRun
    BY <2>3 DEF StepOverBudget, cancelRun, stopRun
  <2>. QED  BY <2>1, <2>2, <2>3, WaysToWriteTheRow
<1>. QED  BY <1>1, RunInvariant, PTL DEF Spec, NoProgressOverBudget
-----------------------------------------------------------------------------
(* How a run that succeeds got there.                                      *)

(* A deployment that was declined and a verified deployment are the only   *)
(* ways to the end, and both lie behind the review.                        *)
EndedCodeWasReviewed ==
  /\ state = "FINALIZE" => codeStage = "reviewed"
  /\ state = "DONE" => codeStage \in {"reviewed", "approved"}

LEMMA WaysToTheEnd ==
  ASSUME NEW s \in RunStates, NEW e \in RunEvents, NEW c,
         Accepts(s, e, c, MaxRepair)
  PROVE  /\ Target(s, e) = "FINALIZE" =>
              s = "AWAITING_DEPLOY_APPROVAL" /\ e = "deploy_rejected"
         /\ Target(s, e) = "DONE" =>
              s \in {"FINALIZE", "VERIFY"} /\ e = "finalized"
<1>1. e \in Table[s] \cup Universal /\ s \notin TerminalStates
  BY DEF Accepts, GuardAllows
<1>2. /\ e = "deploy_rejected" => s = "AWAITING_DEPLOY_APPROVAL"
      /\ e = "finalized" => s \in {"FINALIZE", "VERIFY"}
      /\ s = "FINALIZE" => e \in {"finalized", "fail", "cancel", "block"}
      /\ e # "request_received"
  BY <1>1 DEF Table, RunStates, Universal
<1>. QED  BY <1>1, <1>2 DEF Target, RunEvents, TerminalStates

LEMMA NextEndedReview ==
  ASSUME IInv, ShippedCodeWasReleased, EndedCodeWasReviewed, [Next]_vars
  PROVE  EndedCodeWasReviewed'
<1>0. SideInv /\ state \in RunStates
  BY IInvSplits DEF RowInv
<1>1. CASE row' = row
  BY <1>1 DEF row, EndedCodeWasReviewed
<1>2. CASE StepOverBudget \/ cancelRun
  BY <1>2 DEF StepOverBudget, cancelRun, stopRun, EndedCodeWasReviewed
<1>3. ASSUME NEW e \in RunEvents, NEW tokens, NEW by,
             StepAccepted(e, tokens, by)
      PROVE  EndedCodeWasReviewed'
  <2>1. /\ Accepts(state, e, ctx, MaxRepair)
        /\ state' = Target(state, e)
        /\ codeStage' = CodeStageAfter(e)
    BY <1>3 DEF StepAccepted
  <2>2. state' = "FINALIZE" => codeStage' = "reviewed"
    BY <1>0, <2>1, WaysToTheEnd DEF ShippedCodeWasReleased, CodeStageAfter
  <2>3. state' = "DONE" => codeStage' \in {"reviewed", "approved"}
    BY <1>0, <2>1, WaysToTheEnd
       DEF ShippedCodeWasReleased, EndedCodeWasReviewed, CodeStageAfter
  <2>. QED  BY <2>2, <2>3 DEF EndedCodeWasReviewed
<1>4. ASSUME NEW d \in Drivers, NEW e \in PhaseEvents[driver[d].asked]
      PROVE  e \in RunEvents
  BY <1>0, AnswersAreEvents
<1>. QED  BY <1>1, <1>2, <1>3, <1>4, WaysToWriteTheRow

(* A run is never DONE with code that no review has seen since its last    *)
(* change: whatever repairs, blocks and late answers came before, the      *)
(* newest change passed the review, and was approved if it was deployed.   *)
THEOREM FinishedRunsWereReviewed == Spec => []EndedCodeWasReviewed
<1>1. Init => EndedCodeWasReviewed
  BY DEF Init, EndedCodeWasReviewed
<1>2. /\ IInv /\ ShippedCodeWasReleased /\ EndedCodeWasReviewed /\ [Next]_vars
      => EndedCodeWasReviewed'
  BY NextEndedReview
<1>. QED
  BY <1>1, <1>2, RunInvariant, OnlyReleasedCodeShips, PTL DEF Spec

-----------------------------------------------------------------------------
(* The plan gate.  NoImplementationBeforeApproval fails by one path:       *)
(* block, then unblock, puts a run without a plan into IMPLEMENT.          *)

PastThePlan ==
  {"RECON", "IMPLEMENT", "TEST", "REPAIR", "SECURITY_REVIEW", "PREVIEW",
   "AWAITING_DEPLOY_APPROVAL", "DEPLOY", "VERIFY", "FINALIZE", "DONE"}

PlanCameFirst ==
  state \in PastThePlan \/ codeStage # "none" => ctx.planApproved

(* What the tables say of the states past the plan: they are entered from  *)
(* one another, by an approval or by unblock, and only they touch code.    *)
LEMMA WaysPastThePlan ==
  ASSUME NEW s \in RunStates, NEW e \in RunEvents, NEW c,
         Accepts(s, e, c, MaxRepair)
  PROVE  /\ Target(s, e) \in PastThePlan =>
              \/ s \in PastThePlan
              \/ e = "plan_approved"
              \/ s = "BLOCKED" /\ Target(s, e) = "IMPLEMENT"
         /\ e \in {"implementation_batch_done", "repair_succeeded",
                   "security_clear", "security_findings_accepted"} =>
              s \in PastThePlan
<1>1. e \in Table[s] \cup Universal /\ s \notin TerminalStates
  BY DEF Accepts, GuardAllows
<1>2. CASE s \in PastThePlan
  BY <1>2
<1>3. CASE s \notin PastThePlan
  <2>1. s \in {"INTAKE", "CLARIFY", "SPECIFY", "PLAN",
              "AWAITING_PLAN_APPROVAL", "BLOCKED"}
    BY <1>1, <1>3 DEF RunStates, PastThePlan, TerminalStates
  <2>2. e \in {"needs_clarification", "clarification_answered", "spec_ready",
              "plan_ready", "plan_approved", "plan_rejected", "unblock",
              "fail", "cancel", "block"}
        /\ (e = "unblock" => s = "BLOCKED")
    BY <1>1, <2>1 DEF Table, RunStates, Universal
  <2>. QED  BY <2>2 DEF Target, PastThePlan
<1>. QED  BY <1>2, <1>3

LEMMA NoPhaseUnblocks ==
  ASSUME NEW s \in RunStates
  PROVE  PhaseEvents[s] \cap (Table["BLOCKED"] \cup Universal) = {}
<1>1. Table["BLOCKED"] \subseteq {"unblock"}
  BY DEF Table, RunStates
<1>2. PhaseEvents[s] \cap {"unblock", "fail", "cancel", "block"} = {}
  BY DEF PhaseEvents, RunStates
<1>. QED  BY <1>1, <1>2 DEF Universal

(* The one step that takes an unplanned run past its plan. *)
CallerUnblocks ==
  state = "BLOCKED" /\ state' = "IMPLEMENT" /\ checkpoint'.by = "caller"

LEMMA NextPlanCameFirst ==
  ASSUME IInv, PlanCameFirst, [Next]_vars, ~CallerUnblocks
  PROVE  PlanCameFirst'
<1>0. SideInv /\ state \in RunStates
  BY IInvSplits DEF RowInv
<1>1. CASE row' = row
  BY <1>1 DEF row, PlanCameFirst
<1>2. CASE StepOverBudget \/ cancelRun
  BY <1>2 DEF StepOverBudget, cancelRun, stopRun, PlanCameFirst, PastThePlan
<1>3. ASSUME NEW e \in RunEvents, NEW tokens, NEW by,
             StepAccepted(e, tokens, by),
             by = "caller" \/ \E s \in RunStates : e \in PhaseEvents[s]
      PROVE  PlanCameFirst'
  <2>1. /\ Accepts(state, e, ctx, MaxRepair)
        /\ state' = Target(state, e)
        /\ codeStage' = CodeStageAfter(e)
        /\ ctx'.planApproved = (ctx.planApproved \/ e = "plan_approved")
        /\ checkpoint'.by = by
    BY <1>3 DEF StepAccepted, ContextAfter, appendCheckpoint
  <2>2. ~(state = "BLOCKED" /\ state' = "IMPLEMENT")
    <3>. SUFFICES ASSUME state = "BLOCKED", state' = "IMPLEMENT"
                  PROVE  FALSE
      OBVIOUS
    <3>1. \E s \in RunStates : e \in PhaseEvents[s]
      BY <1>3, <2>1 DEF CallerUnblocks
    <3>2. e \in Table["BLOCKED"] \cup Universal
      BY <2>1 DEF Accepts
    <3>. QED  BY <3>1, <3>2, NoPhaseUnblocks
  <2>3. state' \in PastThePlan => ctx'.planApproved
    BY <1>0, <2>1, <2>2, WaysPastThePlan DEF PlanCameFirst
  <2>4. codeStage' # "none" => ctx'.planApproved
    <3>1. codeStage' # "none" =>
            \/ codeStage # "none"
            \/ e \in {"implementation_batch_done", "repair_succeeded",
                      "security_clear", "security_findings_accepted"}
      BY <2>1 DEF CodeStageAfter
    <3>. QED  BY <1>0, <2>1, <3>1, WaysPastThePlan DEF PlanCameFirst
  <2>. QED  BY <2>3, <2>4 DEF PlanCameFirst
<1>4. ASSUME NEW d \in Drivers, NEW e \in PhaseEvents[driver[d].asked]
      PROVE  e \in RunEvents /\ driver[d].asked \in RunStates
  BY <1>0, AnswersAreEvents DEF SideInv
<1>. QED  BY <1>1, <1>2, <1>3, <1>4, WaysToWriteTheRow

(* NoImplementationBeforeApproval fails in the run plan_gate.  What breaks *)
(* it is one step: a run that so far had code, or a state past the plan,   *)
(* only with its plan approved loses that when a caller unblocks it, and   *)
(* at no other event of a caller, answer of a driver, or forced stop.      *)
OnlyUnblockPassesThePlanGate ==
  [][PlanCameFirst /\ ~PlanCameFirst' => CallerUnblocks]_vars

(* OnlyUnblockPassesThePlanGate, of transition() and step(): no late or    *)
(* misplaced answer opens the gate, and PlanCameFirst, which implies I1,   *)
(* is lost in no other way.                                                *)
THEOREM UnblockAlonePassesThePlanGate ==
  Spec => /\ PlanCameFirst
          /\ [](PlanCameFirst => NoImplementationBeforeApproval)
          /\ OnlyUnblockPassesThePlanGate
<1>1. Init => PlanCameFirst
  BY DEF Init, PlanCameFirst, PastThePlan
<1>2. IInv /\ [Next]_vars
        => [PlanCameFirst /\ ~PlanCameFirst' => CallerUnblocks]_vars
  BY NextPlanCameFirst
<1>3. PlanCameFirst => NoImplementationBeforeApproval
  BY DEF PlanCameFirst, NoImplementationBeforeApproval
<1>. QED
  BY <1>1, <1>2, <1>3, RunInvariant, PTL DEF Spec, OnlyUnblockPassesThePlanGate

(* What the kernel does guarantee of the code of an unapproved run: every  *)
(* state that judges code has some, and a state that repairs was entered   *)
(* by a counted failure.                                                   *)
UnplannedCodeIsARepair ==
  codeStage # "none" => ctx.planApproved \/ ctx.repairAttempts > 0

CodeIsJudgedAndRepaired ==
  /\ state \in {"TEST", "SECURITY_REVIEW"} => codeStage # "none"
  /\ state = "REPAIR" => ctx.repairAttempts > 0

LEMMA WaysToJudgeCode ==
  ASSUME NEW s \in RunStates, NEW e \in RunEvents, NEW c,
         Accepts(s, e, c, MaxRepair)
  PROVE  /\ Target(s, e) = "TEST" =>
              e \in {"implementation_batch_done", "repair_succeeded"}
         /\ Target(s, e) = "SECURITY_REVIEW" => s = "TEST"
         /\ Target(s, e) = "REPAIR" => e = "tests_failed"
         /\ e = "implementation_batch_done" => c.planApproved
         /\ e = "repair_succeeded" => s = "REPAIR"
         /\ e \in {"security_clear", "security_findings_accepted"} =>
              s = "SECURITY_REVIEW"
<1>1. e \in Table[s] \cup Universal
  BY DEF Accepts
<1>2. /\ e = "repair_succeeded" => s = "REPAIR"
      /\ e = "tests_passed" => s = "TEST"
      /\ e \in {"security_clear", "security_findings_accepted"} =>
           s = "SECURITY_REVIEW"
      /\ e # "request_received"
  BY <1>1 DEF Table, RunStates, Universal
<1>3. e = "implementation_batch_done" => c.planApproved
  BY DEF Accepts, GuardAllows
<1>. QED  BY <1>2, <1>3 DEF Target, RunEvents

LEMMA NextUnplannedCode ==
  ASSUME IInv, UnplannedCodeIsARepair, CodeIsJudgedAndRepaired, [Next]_vars
  PROVE  UnplannedCodeIsARepair' /\ CodeIsJudgedAndRepaired'
<1>. DEFINE Goal == UnplannedCodeIsARepair' /\ CodeIsJudgedAndRepaired'
<1>0. SideInv /\ state \in RunStates /\ ctx.repairAttempts \in Nat
  BY IInvSplits, BudgetAssumption DEF RowInv, RunContexts
<1>1. CASE row' = row
  BY <1>1 DEF row, UnplannedCodeIsARepair, CodeIsJudgedAndRepaired
<1>2. CASE StepOverBudget \/ cancelRun
  BY <1>2 DEF StepOverBudget, cancelRun, stopRun, UnplannedCodeIsARepair,
       CodeIsJudgedAndRepaired
<1>3. ASSUME NEW e \in RunEvents, NEW tokens, NEW by,
             StepAccepted(e, tokens, by)
      PROVE  Goal
  <2>1. /\ Accepts(state, e, ctx, MaxRepair)
        /\ state' = Target(state, e)
        /\ codeStage' = CodeStageAfter(e)
        /\ ctx'.planApproved = (ctx.planApproved \/ e = "plan_approved")
        /\ ctx'.repairAttempts = IF e = "tests_failed"
                                   THEN ctx.repairAttempts + 1
                                   ELSE ctx.repairAttempts
    BY <1>3 DEF StepAccepted, ContextAfter
  <2>2. /\ ctx.repairAttempts > 0 => ctx'.repairAttempts > 0
        /\ e = "tests_failed" => ctx'.repairAttempts > 0
    BY <1>0, <2>1
  <2>3. CodeIsJudgedAndRepaired'
    <3>1. state' = "TEST" => codeStage' = "changed"
      BY <1>0, <2>1, WaysToJudgeCode DEF CodeStageAfter
    <3>2. state' = "SECURITY_REVIEW" => codeStage' # "none"
      BY <1>0, <2>1, WaysToJudgeCode DEF CodeIsJudgedAndRepaired, CodeStageAfter
    <3>3. state' = "REPAIR" => ctx'.repairAttempts > 0
      BY <1>0, <2>1, <2>2, WaysToJudgeCode
    <3>. QED  BY <3>1, <3>2, <3>3 DEF CodeIsJudgedAndRepaired
  <2>4. UnplannedCodeIsARepair'
    <3>1. codeStage' # "none" =>
            \/ codeStage # "none"
            \/ e \in {"implementation_batch_done", "repair_succeeded",
                      "security_clear", "security_findings_accepted"}
      BY <2>1 DEF CodeStageAfter
    <3>2. codeStage' # "none" =>
            \/ codeStage # "none"
            \/ ctx.planApproved
            \/ state = "REPAIR"
      BY <1>0, <2>1, <3>1, WaysToJudgeCode DEF CodeIsJudgedAndRepaired
    <3>. QED
      BY <2>1, <2>2, <3>2 DEF UnplannedCodeIsARepair, CodeIsJudgedAndRepaired
  <2>. QED  BY <2>3, <2>4
<1>4. ASSUME NEW d \in Drivers, NEW e \in PhaseEvents[driver[d].asked]
      PROVE  e \in RunEvents
  BY <1>0, AnswersAreEvents
<1>. QED  BY <1>1, <1>2, <1>3, <1>4, WaysToWriteTheRow

(* Code in a run whose plan nobody approved is a repair, and has cost one  *)
(* of the run's repair attempts: no batch of code ever passes the gate, so *)
(* a policy without repairs would leave nothing of the hole in I1.         *)
THEOREM UnplannedCodeCostsARepair == Spec => []UnplannedCodeIsARepair
<1>1. Init => UnplannedCodeIsARepair /\ CodeIsJudgedAndRepaired
  BY DEF Init, UnplannedCodeIsARepair, CodeIsJudgedAndRepaired
<1>2. /\ IInv /\ UnplannedCodeIsARepair /\ CodeIsJudgedAndRepaired
      /\ [Next]_vars
      => (UnplannedCodeIsARepair /\ CodeIsJudgedAndRepaired)'
  BY NextUnplannedCode
<1>. QED  BY <1>1, <1>2, RunInvariant, PTL DEF Spec

-----------------------------------------------------------------------------
(* Late answers.  AnswerIsForThisPhase fails because the row is not held   *)
(* while a driver awaits its model.  The number of steps, which advance()  *)
(* has read and step() does not compare, would tell a late answer: while   *)
(* it is the one the driver saw, the run is in the phase that was asked    *)
(* about and on no gate, and it never comes back to an earlier number.     *)
StepsTellLateAnswers ==
  \A d \in Drivers :
    driver[d].busy =>
      /\ driver[d].at <= stepsUsed
      /\ driver[d].at = stepsUsed =>
           driver[d].asked = state /\ awaiting = "none"

(* Every write of the row counts a step. *)
LEMMA WritesCount ==
  ASSUME IInv, [Next]_vars
  PROVE  row' = row \/ stepsUsed' = stepsUsed + 1
BY WaysToWriteTheRow DEF StepOverBudget, cancelRun, stopRun, StepAccepted

LEMMA NextQuestions ==
  ASSUME IInv, StepsTellLateAnswers, [Next]_vars
  PROVE  StepsTellLateAnswers'
<1>. SUFFICES ASSUME NEW d \in Drivers, driver'[d].busy
              PROVE  /\ driver'[d].at <= stepsUsed'
                     /\ driver'[d].at = stepsUsed' =>
                          driver'[d].asked = state' /\ awaiting' = "none"
  BY DEF StepsTellLateAnswers
<1>0. DOMAIN driver = Drivers /\ stepsUsed \in Nat /\ driver[d].at \in Nat
  BY DEF IInv, TypeOK
<1>1. \/ driver'[d] = driver[d]
      \/ /\ driver'[d].at = stepsUsed /\ driver'[d].asked = state
         /\ awaiting = "none" /\ row' = row
      \/ driver'[d] = Idle
  BY <1>0 DEF Next, CallerStep, Decide, cancelRun, DeadlinePasses, Ask, Answer,
       Abandon, vars
<1>2. CASE driver'[d] = driver[d]
  <2>1. /\ driver[d].at <= stepsUsed
        /\ driver[d].at = stepsUsed =>
             driver[d].asked = state /\ awaiting = "none"
    BY <1>2 DEF StepsTellLateAnswers
  <2>2. CASE row' = row
    BY <1>2, <2>1, <2>2 DEF row
  <2>3. CASE stepsUsed' = stepsUsed + 1
    BY <1>0, <1>2, <2>1, <2>3
  <2>. QED  BY <2>2, <2>3, WritesCount
<1>3. CASE driver'[d] = Idle
  BY <1>3 DEF Idle
<1>. QED  BY <1>0, <1>1, <1>2, <1>3 DEF row

(* StepsTellLateAnswers, of advance() and everything that writes the row:  *)
(* cancels, decisions, callers' steps and other drivers' answers.          *)
THEOREM StepCountTellsLateAnswers == Spec => []StepsTellLateAnswers
<1>1. Init => StepsTellLateAnswers
  BY DEF Init, Idle, StepsTellLateAnswers
<1>2. IInv /\ StepsTellLateAnswers /\ [Next]_vars => StepsTellLateAnswers'
  BY NextQuestions
<1>. QED  BY <1>1, <1>2, RunInvariant, PTL DEF Spec
=============================================================================
