--------------------------- MODULE RunStateProofs ---------------------------
(***************************************************************************)
(* Proofs about RunState for all values of its constants.  The invariants  *)
(* that TLC checks are not inductive: what a recovery may reopen depends   *)
(* on what the last stop recorded, and what a message may change depends   *)
(* on what was established in earlier phases.  Inv adds both: an active    *)
(* run carries no diagnostic, a blocked one still knows the request it was *)
(* blocked on, and the plan is approved exactly in the phases after plan   *)
(* review, wherever the run was stopped.                                   *)
(***************************************************************************)
EXTENDS RunState, TLAPS

\* The phases that only an approved plan reaches.
Late == {"Integrate", "Verify", "ResultReview", "Accepted"}

\* Reasons that only a participant's BLOCKED message gives.
Reported == {"EXECUTION_TOOL_UNAVAILABLE", "CONTROLLED_PATCH_TOOL_UNAVAILABLE",
             "PATCH_NOT_AUTHORIZED", "CARGO_UNAVAILABLE"}

\* The request that is pending, or was when the run was stopped.
Asked == IF phase \in {"Blocked", "Cancelled"} THEN stoppedAt[2] ELSE action

\* status, phase and action agree.
ControlInv ==
  /\ status \in Active \cup {"PausedUserAction"} => action # "Stop" /\ phase = PhaseOf(action)
  /\ status \in {"Blocked", "IncompatibleCodex"} => phase = "Blocked"
  /\ status \in {"Accepted", "Cancelled"} => phase = status
  /\ status \notin Active \cup {"PausedUserAction"} => action = "Stop"

\* A diagnostic, and the turn that reported a block, are those of the last stop.
StopInv ==
  /\ status \in Active => reason = NoReason /\ lastError = NoError
  /\ status \in {"Blocked", "IncompatibleCodex"} =>
       Asked # "Stop" /\ Standing = PhaseOf(Asked)
  /\ status = "Blocked" /\ lastError # NoError => lastError.action = Asked
  /\ status = "Blocked" /\ reason \in Reported => lastTurn = Asked

\* The plan is approved in the late phases only, and the approval names it.
PlanInv ==
  /\ PlanApproved <=> Standing \in Late
  /\ PlanApproved => plan # None /\ approval.plan = plan /\ approval.revision = revision
  /\ Asked = "RequestReviewerPlanVerdict" => plan # None

\* Tests, approvals and feedback are those of the candidate.
ResultInv ==
  /\ sha # None => PlanApproved
  /\ sha = None => worktree = None /\ evidence = NoEvidence /\ approvedSha = None
  /\ Standing \in {"Verify", "ResultReview", "Accepted"} => sha # None
  /\ Standing = "Integrate" /\ sha # None =>
       /\ evidence # NoEvidence /\ round > 1
       /\ feedback = (IF AllPassed(evidence) THEN "review" ELSE "machine")
  /\ Standing = "ResultReview" => evidence # NoEvidence /\ AllPassed(evidence)
  /\ worktree \in {None, sha}
  /\ evidence # NoEvidence =>
       /\ evidence.cwd = sha /\ worktree = sha
       /\ evidence.ran = required /\ required # {}
  /\ phase = "Verify" => evidence = NoEvidence
  /\ approvedSha # None =>
       /\ approvedSha = sha /\ evidence # NoEvidence /\ AllPassed(evidence)
       /\ Asked = "RevalidateAndAccept" \/ phase = "Accepted"
  /\ Asked = "RevalidateAndAccept" => approvedSha = sha

\* Rounds and the unchanged verdicts in a row, per review.
BudgetInv ==
  /\ round \in 1..MaxRounds /\ revision <= MaxRounds
  /\ Standing = "Contract" => round = 1 /\ revision = 0
  /\ Standing = "PlanReview" => revision = round
  /\ status \in Active \cup {"PausedUserAction"} => streak < NoProgressRounds
  /\ status = "Blocked" /\ reason # "NO_PROGRESS" => streak < NoProgressRounds

AcceptInv ==
  IF status = "Accepted"
  THEN accepted = [sha |-> sha, tests |-> evidence] /\ approvedSha = sha /\ sha # None
  ELSE accepted = NoResult

Inv ==
  TypeOK /\ ControlInv /\ StopInv /\ PlanInv /\ ResultInv /\ BudgetInv /\ AcceptInv

-----------------------------------------------------------------------------
(* Proofs.  Every step may look at the values, the messages' common checks *)
(* and the invariant; what an action needs beyond is cited at its step.    *)

USE ConstantsAssumption
  DEF control, reviewVars, planVars, resultVars, vars,
      Active, Status, Phase, DeclarationActions, ModelActions, NextAction, PhaseOf,
      BlockReasons, ErrorCodes, LegacyCodes, NoReason, NoError, Reasons, Diagnostic,
      NoFingerprint, Fingerprint, NoApproval, Approval, NoEvidence, Evidence,
      NoResult, Result, PlanApproved, Rounds, TestLists, AllPassed,
      Answers, CurrentEnvelope, CurrentIntegration, RequirePhase, MoveTo, Block, Pause,
      BlockedFor, Diagnosed, ReportedBy, Reopen,
      Inv, TypeOK, ControlInv, StopInv, PlanInv, ResultInv, BudgetInv, AcceptInv,
      Late, Reported, Standing, Asked

\* What no step may do, stated once for all the action properties.
Guarantee ==
  /\ PlanApproved => UNCHANGED <<plan, approval, revision, required>>
  /\ sha # None /\ sha' # sha =>
       /\ sha' # None /\ round > 1
       /\ evidence.cwd = sha /\ (Failing(evidence) \/ feedback = "review")
  /\ status \in {"Accepted", "Cancelled"} => UNCHANGED <<status, accepted>>
  /\ status = "Blocked" /\ status' = "Running" =>
       /\ <<phase', action'>> = stoppedAt
       /\ UNCHANGED <<reviewVars, planVars, resultVars>>
  /\ approvedSha' \notin {approvedSha, None} => action = "RequestReviewerResultVerdict"
  /\ ~Legacy /\ ~PlanApproved /\ PlanApproved' => action = "RequestReviewerPlanVerdict"

USE DEF Guarantee, Failing

\* Every answer the driver accepts keeps the invariant and the guarantee.
LEMMA ResponseStep ==
  ASSUME Inv, AcceptResponse
  PROVE  Inv' /\ Guarantee
<1>1. ASSUME NEW m \in Contracts, ApplyContract(m) PROVE Inv' /\ Guarantee
  BY <1>1 DEF ApplyContract, Contracts
<1>2. ASSUME NEW m \in PlanDrafts, ApplyPlan(m) PROVE Inv' /\ Guarantee
  BY <1>2 DEF ApplyPlan, PlanDrafts
<1>3. ASSUME NEW m \in PlanVerdicts, ApplyPlanApproval(m) PROVE Inv' /\ Guarantee
  BY <1>3 DEF ApplyPlanApproval, ApprovesCurrentPlan, PlanVerdicts, MarkerAnswer, AllowedSignals
<1>4. ASSUME NEW m \in Integrations, CreateIntegration(m) PROVE Inv' /\ Guarantee
  BY <1>4 DEF CreateIntegration, Advances, ForgetCandidate, Integrations
<1>5. ASSUME NEW m \in Integrations, NEW passed \in SUBSET required, VerifyIntegration(m, passed)
      PROVE  Inv' /\ Guarantee
  BY <1>5 DEF VerifyIntegration, Prepared, CompleteEvidence, RecordFeedback,
      RoundExhausted, NextRound, Integrations
<1>6. ASSUME NEW m \in Endorsements, ApplyResultApproval(m) PROVE Inv' /\ Guarantee
  BY <1>6 DEF ApplyResultApproval, Endorsements
<1>7. ASSUME NEW m \in Rejections, ApplyChangesRequired(m) PROVE Inv' /\ Guarantee
  BY <1>7 DEF ApplyChangesRequired, Streak, NoProgress, RoundExhausted, NextRound,
      RecordFeedback, Rejections
<1>8. ASSUME NEW m \in Blockers, ApplyBlocked(m) PROVE Inv' /\ Guarantee
  BY <1>8 DEF ApplyBlocked, Blockers
<1> QED BY <1>1, <1>2, <1>3, <1>4, <1>5, <1>6, <1>7, <1>8 DEF AcceptResponse

\* So does every other step of the driver, which may fail at any point.
LEMMA DriverOnlyStep ==
  ASSUME Inv, DriverStep \/ WaitForThread \/ ThreadBecameIdle
  PROVE  Inv' /\ Guarantee
<1>1. ASSUME PrepareVerification PROVE Inv' /\ Guarantee
  BY <1>1 DEF PrepareVerification
<1>2. ASSUME RevalidateAndAccept PROVE Inv' /\ Guarantee
  BY <1>2 DEF RevalidateAndAccept, AuthoritativeTests, CompleteEvidence
<1>3. ASSUME NEW code \in ErrorCodes, NEW exact \in BOOLEAN, DriverError(code, exact)
      PROVE  Inv' /\ Guarantee
  BY <1>3 DEF DriverError, ExactCodes, Pauses
<1>4. ASSUME NEW code \in LegacyCodes, LegacyBlock(code) PROVE Inv' /\ Guarantee
  BY <1>4 DEF LegacyBlock
<1>5. ASSUME DriverExhausted PROVE Inv' /\ Guarantee
  BY <1>5 DEF DriverExhausted
<1>6. ASSUME PausePermission PROVE Inv' /\ Guarantee
  BY <1>6 DEF PausePermission
<1>7. ASSUME WaitForThread PROVE Inv' /\ Guarantee
  BY <1>7 DEF WaitForThread
<1>8. ASSUME ThreadBecameIdle PROVE Inv' /\ Guarantee
  BY <1>8 DEF ThreadBecameIdle
<1>9. CASE AcceptResponse BY <1>9, ResponseStep
<1> QED BY <1>1, <1>2, <1>3, <1>4, <1>5, <1>6, <1>7, <1>8, <1>9 DEF DriverStep

\* So does every recovery rule that resume applies to a blocked run.
LEMMA RecoveryStep ==
  ASSUME Inv, Recover
  PROVE  Inv' /\ Guarantee
<1>1. ASSUME NEW act \in DeclarationActions, RetryInvalidTestCommand(act)
      PROVE  Inv' /\ Guarantee
  BY <1>1 DEF RetryInvalidTestCommand, NoIntegration
<1>2. ASSUME NEW act \in ModelActions, RetryPreintegrationResponse(act)
      PROVE  Inv' /\ Guarantee
  BY <1>2 DEF RetryPreintegrationResponse, NoIntegration
<1>3. ASSUME NEW code \in ErrorCodes, RetryInitialIntegration(code)
      PROVE  Inv' /\ Guarantee
  BY <1>3 DEF RetryInitialIntegration, Untouched
<1>4. ASSUME RetryExecutionTool PROVE Inv' /\ Guarantee
  BY <1>4 DEF RetryExecutionTool, Untouched
<1>5. ASSUME NEW code \in LegacyCodes, RetryVerification(code) PROVE Inv' /\ Guarantee
  BY <1>5 DEF RetryVerification, Unverified
<1>6. ASSUME RetryEnvironment PROVE Inv' /\ Guarantee
  BY <1>6 DEF RetryEnvironment, Unverified
<1>7. ASSUME RetryReviewerLifecycle PROVE Inv' /\ Guarantee
  BY <1>7 DEF RetryReviewerLifecycle, AuthoritativeTests, CompleteEvidence
<1>8. ASSUME RetryCorrectivePatch PROVE Inv' /\ Guarantee
  BY <1>8 DEF RetryCorrectivePatch, SentBack, CompleteEvidence
<1>9. ASSUME RetryRejectedPatch PROVE Inv' /\ Guarantee
  BY <1>9 DEF RetryRejectedPatch, SentBack, CompleteEvidence
<1> QED BY <1>1, <1>2, <1>3, <1>4, <1>5, <1>6, <1>7, <1>8, <1>9 DEF Recover

\* So does every step.
LEMMA NextStep ==
  ASSUME Inv, [Next]_vars
  PROVE  Inv' /\ Guarantee
<1>1. ASSUME Cancel PROVE Inv' /\ Guarantee
  BY <1>1 DEF Cancel, ValidatePersisted, CompleteEvidence, AuthoritativeTests
<1>2. ASSUME Resume PROVE Inv' /\ Guarantee
  BY <1>2 DEF Resume
<1>3. CASE Recover BY <1>3, RecoveryStep
<1>4. CASE DriverStep \/ WaitForThread \/ ThreadBecameIdle BY <1>4, DriverOnlyStep
<1>5. CASE UNCHANGED vars BY <1>5
<1> QED BY <1>1, <1>2, <1>3, <1>4, <1>5 DEF Next

\* A new run satisfies the invariant (RunState::new).
LEMMA InitialInv == Init => Inv
BY DEF Init

\* validate_persisted and the other invariants of the state follow from Inv.
LEMMA Consequences ==
  ASSUME Inv
  PROVE  /\ TypeOK
         /\ SaveNeverRefused
         /\ EvidenceIsForCandidate
         /\ ApprovalIsForTestedCandidate
         /\ PlanBinding
         /\ PendingRequest
         /\ ReviewBudget
         /\ CorrectionIsWarranted
         /\ AcceptedIsEarned
<1>1. TypeOK OBVIOUS
<1>2. SaveNeverRefused BY DEF SaveNeverRefused, ValidatePersisted,
      AuthoritativeTests, CompleteEvidence
<1>3. EvidenceIsForCandidate BY DEF EvidenceIsForCandidate
<1>4. ApprovalIsForTestedCandidate BY DEF ApprovalIsForTestedCandidate
<1>5. PlanBinding BY DEF PlanBinding
<1>6. PendingRequest BY DEF PendingRequest
<1>7. ReviewBudget BY DEF ReviewBudget
<1>8. CorrectionIsWarranted BY DEF CorrectionIsWarranted
<1>9. AcceptedIsEarned BY DEF AcceptedIsEarned
<1> QED BY <1>1, <1>2, <1>3, <1>4, <1>5, <1>6, <1>7, <1>8, <1>9

HIDE DEF Inv, Guarantee, vars, TypeOK

\* Inv is an invariant for every instance: the inductive invariant behind the theorems
\* below.
THEOREM Invariance == Spec => []Inv
<1>1. Init => Inv BY InitialInv
<1>2. Inv /\ [Next]_vars => Inv' BY NextStep
<1> QED BY <1>1, <1>2, PTL DEF Spec

\* Every step keeps the guarantee.
THEOREM Guaranteed == Spec => [][Guarantee]_vars
<1>1. Inv /\ [Next]_vars => Guarantee BY NextStep
<1> QED BY <1>1, Invariance, PTL DEF Spec

\* Every reachable state is well typed: all the handlers of state.rs store values of
\* the fields' types.
THEOREM TypeCorrect == Spec => []TypeOK
<1>1. Inv => TypeOK BY Consequences
<1> QED BY <1>1, Invariance, PTL

\* validate_persisted accepts every state that a handler, a driver step, a user command
\* or a recovery rule computes, so save_state never wedges a run.
THEOREM SaveIsNeverRefused == Spec => []SaveNeverRefused
<1>1. Inv => SaveNeverRefused BY Consequences
<1> QED BY <1>1, Invariance, PTL

\* apply_integration never leaves the tests of one commit next to another one.
THEOREM EvidenceIsForCandidateHolds == Spec => []EvidenceIsForCandidate
<1>1. Inv => EvidenceIsForCandidate BY Consequences
<1> QED BY <1>1, Invariance, PTL

\* A commit the Reviewer approved (apply_result_approval) passed every frozen command.
THEOREM ApprovalIsForTestedCandidateHolds == Spec => []ApprovalIsForTestedCandidate
<1>1. Inv => ApprovalIsForTestedCandidate BY Consequences
<1> QED BY <1>1, Invariance, PTL

\* From apply_plan_approval on, the run is bound to the approved plan and revision.
THEOREM PlanBindingHolds == Spec => []PlanBinding
<1>1. Inv => PlanBinding BY Consequences
<1> QED BY <1>1, Invariance, PTL

\* The pending request is one its phase allows, after every sequence of stops and
\* recoveries.
THEOREM PendingRequestHolds == Spec => []PendingRequest
<1>1. Inv => PendingRequest BY Consequences
<1> QED BY <1>1, Invariance, PTL

\* No sequence of rejections, failures, stops and recoveries exceeds max_review_rounds
\* or no_progress_rounds.
THEOREM ReviewBudgetHolds == Spec => []ReviewBudget
<1>1. Inv => ReviewBudget BY Consequences
<1> QED BY <1>1, Invariance, PTL

\* A corrective request carries the feedback that fits the candidate's tests.
THEOREM CorrectionIsWarrantedHolds == Spec => []CorrectionIsWarranted
<1>1. Inv => CorrectionIsWarranted BY Consequences
<1> QED BY <1>1, Invariance, PTL

\* accept_after_revalidation accepts only the approved and tested candidate of the
\* approved plan.
THEOREM AcceptedIsEarnedHolds == Spec => []AcceptedIsEarned
<1>1. Inv => AcceptedIsEarned BY Consequences
<1> QED BY <1>1, Invariance, PTL

USE DEF Guarantee

\* No message, error, recovery or command changes an approved plan or a frozen test.
THEOREM FrozenAfterApprovalHolds == Spec => FrozenAfterApproval
<1> QED BY Guaranteed, PTL DEF FrozenAfterApproval

\* apply_integration replaces a candidate only after failed tests or a rejection.
THEOREM ReplacedOnlyIfRejectedHolds == Spec => ReplacedOnlyIfRejected
<1> QED BY Guaranteed, PTL DEF ReplacedOnlyIfRejected

\* Accepted and Cancelled are final under single saves: validate_persisted refuses to
\* cancel an accepted run, and no rule reopens either.
THEOREM SettledIsFinalHolds == Spec => SettledIsFinal
<1> QED BY Guaranteed, PTL DEF SettledIsFinal

\* A recovery rule of state.rs reopens the request that was blocked, and only that.
THEOREM RetryReturnsToBlockedRequestHolds == Spec => RetryReturnsToBlockedRequest
<1> QED BY Guaranteed, PTL DEF RetryReturnsToBlockedRequest

\* Only the answer to the Reviewer's result request endorses a commit.
THEOREM ResultEndorsedByReviewerHolds == Spec => ResultEndorsedByReviewer
<1> QED BY Guaranteed, PTL DEF ResultEndorsedByReviewer

\* As long as no v1 envelope is answered, only the answer to the Reviewer's plan request approves
\* a plan: allowed_participant_signals takes the approval marker for no other request.
THEOREM PlanApprovedByReviewerHolds == ~Legacy => (Spec => PlanApprovedByReviewer)
<1> SUFFICES ASSUME ~Legacy PROVE Spec => PlanApprovedByReviewer
  OBVIOUS
<1>1. [Guarantee]_vars =>
        [~PlanApproved /\ PlanApproved' => action = "RequestReviewerPlanVerdict"]_vars
  OBVIOUS
<1> QED BY <1>1, Guaranteed, PTL DEF PlanApprovedByReviewer

-----------------------------------------------------------------------------
(* RunState implements MergeConsensus: a run agrees on one plan, tests and *)
(* judges one commit after the other, and accepts only an endorsed one.    *)
(* Each handler of state.rs is one step of the abstract run or leaves it   *)
(* unchanged; Inv tells which.                                             *)

USE ConstantsAssumption
  DEF control, reviewVars, planVars, resultVars, vars,
      Active, Status, Phase, DeclarationActions, ModelActions, NextAction, PhaseOf,
      BlockReasons, ErrorCodes, LegacyCodes, NoReason, NoError, Reasons, Diagnostic,
      NoFingerprint, Fingerprint, NoApproval, Approval, NoEvidence, Evidence,
      NoResult, Result, PlanApproved, Rounds, TestLists, AllPassed, Failing,
      Answers, CurrentEnvelope, CurrentIntegration, RequirePhase, MoveTo, Block, Pause,
      BlockedFor, Diagnosed, ReportedBy, Reopen,
      Inv, TypeOK, ControlInv, StopInv, PlanInv, ResultInv, BudgetInv, AcceptInv,
      Late, Reported, Standing, Asked, Outcome, Verdict

\* A step of the abstract run or none, and a step it does not see.
Promised == [Consensus!Next]_(Consensus!vars)
Unseen   == UNCHANGED Consensus!vars

\* Each abstract action is a step of the abstract run.
LEMMA AbstractSteps ==
  /\ \A p \in Plans : Consensus!Agree(p) => Promised
  /\ \A s \in Shas : Consensus!Propose(s) => Promised
  /\ Consensus!Test => Promised
  /\ Consensus!Judge => Promised
  /\ Consensus!Accept => Promised
  /\ Consensus!Hold => Promised
  /\ Consensus!Reopen => Promised
  /\ Consensus!Cancel => Promised
  /\ Unseen => Promised
BY DEF Promised, Unseen, Consensus!Next

USE DEF Consensus!vars, Unseen

\* An accepted answer agrees, proposes, tests, judges or holds (apply_message).
LEMMA ResponseImplements ==
  ASSUME Inv, AcceptResponse
  PROVE  Promised
<1>1. ASSUME NEW m \in Contracts, ApplyContract(m) PROVE Unseen
  BY <1>1 DEF ApplyContract, Contracts
<1>2. ASSUME NEW m \in PlanDrafts, ApplyPlan(m) PROVE Unseen
  BY <1>2 DEF ApplyPlan, PlanDrafts
<1>3. ASSUME NEW m \in PlanVerdicts, ApplyPlanApproval(m)
      PROVE  m.plan \in Plans /\ Consensus!Agree(m.plan)
  BY <1>3 DEF ApplyPlanApproval, ApprovesCurrentPlan, PlanVerdicts, MarkerAnswer, AllowedSignals, Consensus!Agree
<1>4. ASSUME NEW m \in Integrations, CreateIntegration(m)
      PROVE  m.sha \in Shas /\ Consensus!Propose(m.sha)
  BY <1>4 DEF CreateIntegration, Advances, ForgetCandidate, Integrations,
      Consensus!Propose
<1>5. ASSUME NEW m \in Integrations, NEW passed \in SUBSET required, VerifyIntegration(m, passed)
      PROVE  Consensus!Test
  BY <1>5 DEF VerifyIntegration, Prepared, CompleteEvidence, RecordFeedback,
      RoundExhausted, NextRound, Integrations, Consensus!Test
<1>6. ASSUME NEW m \in Endorsements, ApplyResultApproval(m) PROVE Consensus!Judge
  BY <1>6 DEF ApplyResultApproval, Endorsements, Consensus!Judge
<1>7. ASSUME NEW m \in Rejections, ApplyChangesRequired(m)
      PROVE  Unseen \/ Consensus!Hold \/ Consensus!Judge
  BY <1>7 DEF ApplyChangesRequired, Streak, NoProgress, RoundExhausted, NextRound,
      RecordFeedback, Rejections, Consensus!Hold, Consensus!Judge
<1>8. ASSUME NEW m \in Blockers, ApplyBlocked(m) PROVE Consensus!Hold
  BY <1>8 DEF ApplyBlocked, Blockers, Consensus!Hold
<1> QED
  BY <1>1, <1>2, <1>3, <1>4, <1>5, <1>6, <1>7, <1>8, AbstractSteps DEF AcceptResponse

\* What else drive does accepts the endorsed commit, holds the run, or is not seen.
LEMMA DriverImplements ==
  ASSUME Inv, DriverStep \/ WaitForThread \/ ThreadBecameIdle
  PROVE  Promised
<1>1. ASSUME PrepareVerification PROVE Unseen
  BY <1>1 DEF PrepareVerification
<1>2. ASSUME RevalidateAndAccept PROVE Consensus!Accept
  BY <1>2 DEF RevalidateAndAccept, AuthoritativeTests, CompleteEvidence, Consensus!Accept
<1>3. ASSUME NEW code \in ErrorCodes, NEW exact \in BOOLEAN, DriverError(code, exact)
      PROVE  Consensus!Hold
  BY <1>3 DEF DriverError, ExactCodes, Pauses, Consensus!Hold
<1>4. ASSUME NEW code \in LegacyCodes, LegacyBlock(code) PROVE Consensus!Hold
  BY <1>4 DEF LegacyBlock, Consensus!Hold
<1>5. ASSUME DriverExhausted PROVE Consensus!Hold
  BY <1>5 DEF DriverExhausted, Consensus!Hold
<1>6. ASSUME PausePermission PROVE Consensus!Hold
  BY <1>6 DEF PausePermission, Consensus!Hold
<1>7. ASSUME WaitForThread PROVE Unseen
  BY <1>7 DEF WaitForThread
<1>8. ASSUME ThreadBecameIdle PROVE Unseen
  BY <1>8 DEF ThreadBecameIdle
<1>9. CASE AcceptResponse BY <1>9, ResponseImplements
<1> QED
  BY <1>1, <1>2, <1>3, <1>4, <1>5, <1>6, <1>7, <1>8, <1>9, AbstractSteps DEF DriverStep

\* Every recovery rule reopens the abstract run and gives away nothing it knows.
LEMMA RecoveryImplements ==
  ASSUME Inv, Recover
  PROVE  Promised
<1>1. ASSUME NEW act \in DeclarationActions, RetryInvalidTestCommand(act)
      PROVE  Consensus!Reopen
  BY <1>1 DEF RetryInvalidTestCommand, NoIntegration, Consensus!Reopen
<1>2. ASSUME NEW act \in ModelActions, RetryPreintegrationResponse(act)
      PROVE  Consensus!Reopen
  BY <1>2 DEF RetryPreintegrationResponse, NoIntegration, Consensus!Reopen
<1>3. ASSUME NEW code \in ErrorCodes, RetryInitialIntegration(code)
      PROVE  Consensus!Reopen
  BY <1>3 DEF RetryInitialIntegration, Untouched, Consensus!Reopen
<1>4. ASSUME RetryExecutionTool PROVE Consensus!Reopen
  BY <1>4 DEF RetryExecutionTool, Untouched, Consensus!Reopen
<1>5. ASSUME NEW code \in LegacyCodes, RetryVerification(code) PROVE Consensus!Reopen
  BY <1>5 DEF RetryVerification, Unverified, Consensus!Reopen
<1>6. ASSUME RetryEnvironment PROVE Consensus!Reopen
  BY <1>6 DEF RetryEnvironment, Unverified, Consensus!Reopen
<1>7. ASSUME RetryReviewerLifecycle PROVE Consensus!Reopen
  BY <1>7 DEF RetryReviewerLifecycle, AuthoritativeTests, CompleteEvidence, Consensus!Reopen
<1>8. ASSUME RetryCorrectivePatch PROVE Consensus!Reopen
  BY <1>8 DEF RetryCorrectivePatch, SentBack, CompleteEvidence, Consensus!Reopen
<1>9. ASSUME RetryRejectedPatch PROVE Consensus!Reopen
  BY <1>9 DEF RetryRejectedPatch, SentBack, CompleteEvidence, Consensus!Reopen
<1> QED
  BY <1>1, <1>2, <1>3, <1>4, <1>5, <1>6, <1>7, <1>8, <1>9, AbstractSteps DEF Recover

\* So does every step; the user's cancel settles an open or a held run.
LEMMA StepImplements ==
  ASSUME Inv, [Next]_vars
  PROVE  Promised
<1>1. ASSUME Cancel PROVE Consensus!Cancel \/ Unseen
  BY <1>1 DEF Cancel, ValidatePersisted, Consensus!Cancel
<1>2. ASSUME Resume PROVE Consensus!Reopen
  BY <1>2 DEF Resume, Consensus!Reopen
<1>3. CASE Recover BY <1>3, RecoveryImplements
<1>4. CASE DriverStep \/ WaitForThread \/ ThreadBecameIdle BY <1>4, DriverImplements
<1>5. CASE UNCHANGED vars BY <1>5, AbstractSteps
<1> QED BY <1>1, <1>2, <1>3, <1>4, <1>5, AbstractSteps DEF Next

\* Both specifications start with an open run about which nothing is known.
LEMMA InitImplements == Init => Consensus!Init
BY DEF Init, Consensus!Init

HIDE DEF Inv, vars, Consensus!vars

\* Whatever the tasks, the driver, the user and the recovery rules do (state.rs and
\* coordinator.rs), the run keeps the promise of MergeConsensus.
THEOREM ConsensusImplemented == Spec => ImplementsConsensus
<1>1. Init => Consensus!Init BY InitImplements
<1>2. Inv /\ [Next]_vars => [Consensus!Next]_(Consensus!vars) BY StepImplements DEF Promised
<1> QED BY <1>1, <1>2, Invariance, PTL DEF Spec, ImplementsConsensus, Consensus!Spec

=============================================================================
