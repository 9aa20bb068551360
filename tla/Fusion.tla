------------------------------- MODULE Fusion -------------------------------
(***************************************************************************)
(* One request for the model "fusion" (services/fusion.ts).  A panel of    *)
(* models is asked at once, in waves, until enough of them have answered;  *)
(* with tools on offer they are asked one after the other, since a call of *)
(* a tool is an action.  A judge then writes one answer, which may be      *)
(* streamed while it is written.  A model is asked with one key after the  *)
(* other.  Which attempts fail, and whether another key is found, is left  *)
(* open: a client that hangs up and the deadline of a tool call make the   *)
(* attempt under way fail, and the next ones.                              *)
(***************************************************************************)
EXTENDS Integers, FiniteSets

CONSTANTS
  Panel,             \* models of the panel
  MaxSlotAttempts,   \* MAX_SLOT_ATTEMPTS
  MaxJudgeAttempts   \* MAX_JUDGE_ATTEMPTS

ASSUME FusionAssumption ==
  {Panel, MaxSlotAttempts, MaxJudgeAttempts} \subseteq Nat \ {0}

VARIABLES
  wish,    \* what the client and the operator ask for
  slot,    \* answers: what became of each candidate, in their order
  tries,   \* attempt, of each candidate
  stage,   \* where runFusion() is
  judging, \* attempt of the judge
  heard,   \* the attempts of the judge whose text the client was sent
  outcome  \* what the client is answered

fusion == <<wish, slot, tries, stage, judging, heard, outcome>>

(* tool_choice, or "absent" when no tools are on offer; "required" stands  *)
(* for a named function, too.  Candidates beyond the panel refill it,      *)
(* unless the client named the models.                                     *)
Wishes == [tools : {"absent", "none", "auto", "required"},
           refills : {0, Panel}, judge : BOOLEAN, stream : BOOLEAN]

Candidates == 1 .. 2 * Panel
Pool == 1 .. Panel + wish.refills

FusionInit ==
  /\ wish \in Wishes
  /\ slot = [c \in Candidates |-> "idle"]
  /\ tries = [c \in Candidates |-> 0]
  /\ stage = "panel"
  /\ judging = 0
  /\ heard = {}
  /\ outcome = "none"

-----------------------------------------------------------------------------
SlotsThatAre(states) == {c \in Pool : slot[c] \in states}
Usable == SlotsThatAre({"prose", "call"})
Unasked == SlotsThatAre({"idle"})

(* Mutant: a call of a tool counts like any other answer.                  *)
BugPanelIsDone ==
  \/ Unasked = {}
  \/ wish.tools \in {"absent", "auto"} /\ Cardinality(Usable) >= Panel
  \/ wish.tools = "none" /\ Usable # {}

(* The panel is done: all were asked, or enough have answered, or a model  *)
(* that was offered tools has called one.                                  *)
PanelIsDone ==
  \/ Unasked = {}
  \/ wish.tools \in {"absent", "auto"} /\ Cardinality(Usable) >= Panel
  \/ wish.tools = "none" /\ Usable # {}
  \/ wish.tools \in {"auto", "required"} /\ SlotsThatAre({"call"}) # {}

(* Mutant: the cursor stays, a wave asks those again that have failed.     *)
BugAskable == SlotsThatAre({"idle", "failed"})

(* candidates.slice(cursor) *)
Askable == Unasked

(* The next candidates, in order: as many as answers are missing, or one.  *)
Wave ==
  LET size == IF wish.tools = "absent" THEN Panel - Cardinality(Usable) ELSE 1
  IN {c \in Askable : Cardinality({d \in Askable : d < c}) < size}

AskPanel ==
  /\ stage = "panel"
  /\ SlotsThatAre({"asked"}) = {}
  /\ ~PanelIsDone
  /\ slot' = [c \in Candidates |-> IF c \in Wave THEN "asked" ELSE slot[c]]
  /\ tries' = [c \in Candidates |-> IF c \in Wave THEN 1 ELSE tries[c]]
  /\ UNCHANGED <<wish, stage, judging, heard, outcome>>

(* runModelCall() for one candidate: an attempt answers.  A call that was  *)
(* not asked for is a failure.                                             *)
SlotAnswers(c, with) ==
  /\ slot[c] = "asked"
  /\ slot' = [slot EXCEPT ![c] =
               IF with = "call" /\ wish.tools = "none" THEN "failed" ELSE with]
  /\ UNCHANGED <<wish, tries, stage, judging, heard, outcome>>

(* ... or fails in a way another key may mend, *)
SlotRetries(c) ==
  /\ slot[c] = "asked"
  /\ tries[c] < MaxSlotAttempts
  /\ tries' = [tries EXCEPT ![c] = @ + 1]
  /\ UNCHANGED <<wish, slot, stage, judging, heard, outcome>>

(* ... or for good. *)
SlotFails(c) ==
  /\ slot[c] = "asked"
  /\ slot' = [slot EXCEPT ![c] = "failed"]
  /\ UNCHANGED <<wish, tries, stage, judging, heard, outcome>>

SlotEnds(c) ==
  SlotAnswers(c, "prose") \/ SlotAnswers(c, "call") \/ SlotRetries(c) \/ SlotFails(c)

(* SYNTHESIS_QUORUM *)
WorthAJudge == wish.judge /\ Cardinality(SlotsThatAre({"prose"})) >= 2

(* The panel is done: an error, a call of a tool, the best answer, or the  *)
(* judge's turn.                                                           *)
ClosePanel ==
  /\ stage = "panel"
  /\ SlotsThatAre({"asked"}) = {}
  /\ PanelIsDone
  /\ LET called == SlotsThatAre({"call"}) # {}
         failed == ~called /\ (Usable = {} \/ wish.tools = "required")
     IN IF ~called /\ ~failed /\ WorthAJudge
        THEN stage' = "judge" /\ judging' = 1 /\ UNCHANGED outcome
        ELSE /\ stage' = "over"
             /\ outcome' = IF called THEN "call" ELSE IF failed THEN "error" ELSE "best"
             /\ UNCHANGED judging
  /\ UNCHANGED <<wish, slot, tries, heard>>

-----------------------------------------------------------------------------
(* runJudgeStreaming(): the first piece of text is sent on. *)
JudgeSpeaks ==
  /\ stage = "judge"
  /\ wish.stream
  /\ heard' = heard \cup {judging}
  /\ UNCHANGED <<wish, slot, tries, stage, judging, outcome>>

(* Mutant: a stream that breaks off fails over like any other attempt.     *)
BugJudgeRetries ==
  /\ stage = "judge"
  /\ judging < MaxJudgeAttempts
  /\ judging' = judging + 1
  /\ UNCHANGED <<wish, slot, tries, stage, heard, outcome>>

(* An attempt that said nothing gives way to the next. *)
JudgeRetries ==
  /\ stage = "judge"
  /\ judging \notin heard
  /\ judging < MaxJudgeAttempts
  /\ judging' = judging + 1
  /\ UNCHANGED <<wish, slot, tries, stage, heard, outcome>>

(* The judge has written its answer, and a stream has said something. *)
JudgeAnswers ==
  /\ stage = "judge"
  /\ wish.stream => judging \in heard
  /\ stage' = "over"
  /\ outcome' = "blend"
  /\ UNCHANGED <<wish, slot, tries, judging, heard>>

(* It fails for good: what it said stands, or the best answer is taken.    *)
JudgeFails ==
  /\ stage = "judge"
  /\ stage' = "over"
  /\ outcome' = IF judging \in heard THEN "partial" ELSE "best"
  /\ UNCHANGED <<wish, slot, tries, judging, heard>>

JudgeEnds == JudgeRetries \/ JudgeAnswers \/ JudgeFails

FusionNext ==
  \/ AskPanel
  \/ \E c \in Candidates : SlotEnds(c)
  \/ ClosePanel
  \/ JudgeSpeaks
  \/ JudgeEnds

FusionSpec == FusionInit /\ [][FusionNext]_fusion

(* Every attempt ends, by the timeouts of the providers' clients, and      *)
(* runFusion() goes on by itself.                                          *)
FusionFairness ==
  /\ WF_fusion(AskPanel)
  /\ WF_fusion(ClosePanel)
  /\ WF_fusion(JudgeEnds)
  /\ \A c \in Candidates : WF_fusion(SlotEnds(c))

-----------------------------------------------------------------------------
FusionTypeOK ==
  /\ wish \in Wishes
  /\ slot \in [Candidates -> {"idle", "asked", "prose", "call", "failed"}]
  /\ tries \in [Candidates -> 0 .. MaxSlotAttempts]
  /\ stage \in {"panel", "judge", "over"}
  /\ judging \in 0 .. MaxJudgeAttempts
  /\ heard \subseteq 1 .. MaxJudgeAttempts
  /\ outcome \in {"none", "error", "call", "best", "blend", "partial"}

(* "Asking several models in parallel can produce duplicate or             *)
(* contradictory side effects": with tools on offer no two models are      *)
(* asked at once, and none is asked, nor has another called, once a model  *)
(* has called one.                                                         *)
OnlyOneModelActs ==
  wish.tools # "absent" =>
    \A c, d \in Candidates :
      slot[c] \in {"asked", "call"} /\ slot[d] \in {"asked", "call"} => c = d

(* What the judge has streamed stands: the client is sent the text of one  *)
(* attempt only, no other attempt or answer comes after it.                *)
StreamedTextStands ==
  heard # {} => heard = {judging} /\ outcome \in {"none", "blend", "partial"}

(* Every fusion ends, whatever fails. *)
EveryFusionEnds == <>(stage = "over")
=============================================================================
