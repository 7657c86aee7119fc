------------------------------ MODULE RunState ------------------------------
(***************************************************************************)
(* The authoritative state of one consensus run (crates/core/src/state.rs) *)
(* under the coordinator that drives it (crates/daemon/src/coordinator.rs) *)
(* one persisted step at a time: the Primary and the Reviewer publish      *)
(* contracts, agree on a plan, the Primary produces an integration commit, *)
(* the daemon runs every frozen test on it, the Reviewer judges it, and    *)
(* the daemon accepts it.                                                  *)
(*                                                                         *)
(* Abstractions.  A plan payload is its canonical hash; a commit and the   *)
(* branch it is on are one identity (the branch is fixed when the run      *)
(* starts, and a message naming another one is refused like any other      *)
(* stale identity); the bodies of contracts, plans and feedback are left   *)
(* out; required_test_commands is a set, its duplicates being removed by   *)
(* the code.  Git, the tasks and the user are the environment.             *)
(***************************************************************************)
EXTENDS Naturals

CONSTANTS
  Commands,          \* test commands that a contract, a plan or the user may name
  Plans,             \* canonical plan hashes
  Shas,              \* integration commits
  Issues,            \* normalized issue sets a verdict may carry
  MaxRounds,         \* RunState.max_review_rounds
  NoProgressRounds,  \* RunState.no_progress_rounds
  Legacy,            \* TRUE: v1 envelopes and diagnostics of earlier releases occur
  None               \* an absent plan or commit

ASSUME ConstantsAssumption ==
  /\ MaxRounds \in Nat \ {0}
  /\ NoProgressRounds \in Nat \ {0, 1}
  /\ Legacy \in BOOLEAN
  /\ None \notin Plans
  /\ None \notin Shas

VARIABLES
  status, phase, action, reason, lastError,      \* where the run stands
  round, fingerprint, streak,                    \* review budget
  revision, required, plan, approval,            \* the plan and the frozen tests
  sha, worktree, evidence, approvedSha,          \* the current integration result
  feedback,                                      \* kind of last_result_feedback
  accepted,                                      \* accepted_result
  lastTurn,                                      \* request of the last ACCEPTED turn row
  stoppedAt                                      \* history: <<phase, action>> before the last stop

control    == <<status, phase, action, reason, lastError>>
reviewVars == <<round, fingerprint, streak>>
planVars   == <<revision, required, plan, approval>>
resultVars == <<sha, worktree, evidence, approvedSha, feedback>>
vars == <<status, phase, action, reason, lastError, round, fingerprint, streak,
          revision, required, plan, approval, sha, worktree, evidence,
          approvedSha, feedback, accepted, lastTurn, stoppedAt>>

-----------------------------------------------------------------------------
(* Values *)

Active == {"Running", "WaitingThread"}
Status == Active \cup {"PausedUserAction", "Accepted", "Blocked", "Cancelled",
                       "IncompatibleCodex"}
Phase  == {"Contract", "PlanReview", "Integrate", "Verify", "ResultReview",
           "Accepted", "Blocked", "Cancelled"}

DeclarationActions == {"RequestPrimaryContract", "RequestReviewerContract",
                       "RequestPrimaryPlan"}
ModelActions == DeclarationActions \cup
  {"RequestReviewerPlanVerdict", "RequestPrimaryIntegration",
   "RequestPrimaryVerification", "RequestReviewerResultVerdict"}
NextAction == ModelActions \cup {"RevalidateAndAccept", "Stop"}

\* The phase in which each action is pending (declaration_phase,
\* preintegration_read_only_phase and the retry functions use the same table).
PhaseOf(act) ==
  IF act \in {"RequestPrimaryContract", "RequestReviewerContract"} THEN "Contract"
  ELSE IF act \in {"RequestPrimaryPlan", "RequestReviewerPlanVerdict"} THEN "PlanReview"
  ELSE IF act = "RequestPrimaryIntegration" THEN "Integrate"
  ELSE IF act = "RequestPrimaryVerification" THEN "Verify"
  ELSE IF act \in {"RequestReviewerResultVerdict", "RevalidateAndAccept"} THEN "ResultReview"
  ELSE "Blocked"

\* Reasons a participant may give in a BLOCKED message; the last two stand for
\* every reason that no recovery rule knows.
BlockReasons == {"EXECUTION_TOOL_UNAVAILABLE", "CONTROLLED_PATCH_TOOL_UNAVAILABLE",
                 "PATCH_NOT_AUTHORIZED", "CARGO_UNAVAILABLE", "INVALID_RESPONSE",
                 "PARTICIPANT_BLOCKED"}

\* Codes of a failed driver step; SAFETY_VIOLATION stands for every code that no
\* rule of the coordinator treats specially.
ErrorCodes == {"COMMUNICATION_FAILURE", "INVALID_TEST_COMMAND", "INCOMPATIBLE_CODEX",
               "INVALID_RESPONSE", "FORBIDDEN_OPERATION", "HISTORY_UNAVAILABLE",
               "INCOMPATIBLE_STATE", "SAFETY_VIOLATION"}
LegacyCodes == {"INVALID_TEST_COMMAND", "TEST_FAILURE", "DATABASE_ERROR"}

NoReason   == "NONE"
NoError    == [code |-> "NONE", action |-> "Stop", exact |-> FALSE]
Reasons    == BlockReasons \cup ErrorCodes \cup LegacyCodes \cup
              {"PERMISSION_REQUIRED", "NO_PROGRESS", "ROUND_LIMIT", NoReason}
\* RunDiagnostic: exact is TRUE when its detail and bound task are the ones a
\* recovery rule asks for.
Diagnostic == [code: ErrorCodes \cup LegacyCodes, action: NextAction, exact: BOOLEAN]

\* last_review_fingerprint: the hash of the plan and the issues of the verdict.
NoFingerprint == <<>>
Fingerprint   == (Plans \cup {None}) \X Issues

NoApproval == [plan |-> None, revision |-> 0]
Approval   == [plan: Plans, revision: Nat]

\* Every TestEvidence entry carries the verification worktree it ran in (cwd),
\* which is named after the commit; ran and passed are the commands with an entry
\* and with exit code 0.
NoEvidence == [cwd |-> None, ran |-> {}, passed |-> {}]
Evidence   == [cwd: Shas, ran: SUBSET Commands, passed: SUBSET Commands]

NoResult   == [sha |-> None, tests |-> NoEvidence]
Result     == [sha: Shas, tests: Evidence]

PlanApproved == approval # NoApproval

-----------------------------------------------------------------------------
(* Messages.  A round or revision outside 1..MaxRounds is stale in every state. *)

Rounds    == 1..MaxRounds
TestLists == SUBSET Commands \ {{}}

Contracts    == [type: {"CONTRACT_READY"}, round: Rounds, tests: TestLists]
PlanDrafts   == [type: {"PLAN_READY"}, round: Rounds, revision: Rounds,
                 plan: Plans, tests: TestLists]
PlanVerdicts == [type: {"APPROVED_PLAN"}, round: Rounds, revision: Rounds, plan: Plans]
\* CHANGES_REQUIRED names no commit in plan review and the candidate in result review.
Rejections   == [type: {"CHANGES_REQUIRED"}, round: Rounds, revision: Rounds,
                 sha: Shas \cup {None}, issues: Issues]
Integrations == [type: {"INTEGRATION_READY"}, round: Rounds, revision: Rounds, sha: Shas]
Endorsements == [type: {"APPROVED_RESULT"}, round: Rounds, revision: Rounds, sha: Shas]
Blockers     == [type: {"BLOCKED"}, round: Rounds, revision: Rounds \cup {0},
                 sha: Shas \cup {None}, reason: BlockReasons]

AllowedSignalsMutant(act) ==   \* either verdict signal answers either plan request
  {"BLOCKED", "CONTRACT_READY", "PLAN_READY", "INTEGRATION_READY", "APPROVED_RESULT",
   "CHANGES_REQUIRED"} \cup
  {t \in {"APPROVED_PLAN"} : act \in {"RequestPrimaryPlan", "RequestReviewerPlanVerdict"}}

\* The message types a marker answer to each request can become.
AllowedSignals(act) ==
  {"BLOCKED"}
  \cup {t \in {"CONTRACT_READY"} : act \in {"RequestPrimaryContract", "RequestReviewerContract"}}
  \cup {t \in {"PLAN_READY"} : act = "RequestPrimaryPlan"}
  \cup {t \in {"INTEGRATION_READY"} :
         act \in {"RequestPrimaryIntegration", "RequestPrimaryVerification"}}
  \cup {t \in {"APPROVED_PLAN"} : act = "RequestReviewerPlanVerdict"}
  \cup {t \in {"APPROVED_RESULT"} : act = "RequestReviewerResultVerdict"}
  \cup {t \in {"CHANGES_REQUIRED"} :
         act \in {"RequestReviewerPlanVerdict", "RequestReviewerResultVerdict"}}

\* A marker answer must be one the request allows; the daemon writes its envelope
\* from the state, so what remains free is a contract's tests, a plan, a commit.
MarkerAnswer(m) ==
  m.type \in AllowedSignals(action) /\ (m.type = "PLAN_READY" => m.tests = required)

\* A v1 envelope is only validated as a message: any type may answer any request.
Answers(m) ==
  /\ status = "Running"
  /\ action \in ModelActions
  /\ Legacy \/ MarkerAnswer(m)

-----------------------------------------------------------------------------
(* Checks of state.rs shared by the handlers *)

CurrentEnvelopeMutant(m) == m.round = round      \* the revision is not compared
CurrentEnvelope(m) == m.round = round /\ m.revision = revision
CurrentIntegration(m) == m.sha = sha

CompleteEvidence(e) == required # {} /\ e.ran = required
AllPassed(e)        == e.passed = e.ran
FailingMutant(e)    == e.passed = {}             \* one passed command is enough
Failing(e)          == e.passed # e.ran
AuthoritativeTests  == CompleteEvidence(evidence) /\ AllPassed(evidence)

ValidatePersisted ==
  /\ action \in {"RequestPrimaryVerification", "RequestReviewerResultVerdict",
                 "RevalidateAndAccept"} => sha # None
  /\ evidence # NoEvidence => CompleteEvidence(evidence)
  /\ action \in {"RequestReviewerResultVerdict", "RevalidateAndAccept"} => AuthoritativeTests
  /\ IF status = "Accepted"
     THEN /\ phase = "Accepted" /\ action = "Stop"
          /\ approvedSha = sha /\ sha # None
          /\ AuthoritativeTests
          /\ accepted = [sha |-> sha, tests |-> evidence]
     ELSE accepted = NoResult

Block(code) ==
  /\ status' = "Blocked"
  /\ phase' = "Blocked"
  /\ reason' = code
  /\ action' = "Stop"
  /\ stoppedAt' = <<phase, action>>

MoveTo(ph, act) == phase' = ph /\ action' = act /\ UNCHANGED <<status, reason, stoppedAt>>

RequirePhase(ph) == phase = ph

RoundExhaustedMutant == round > MaxRounds         \* off by one
RoundExhausted  == round >= MaxRounds
NextRoundMutant == UNCHANGED round               \* a rejection costs no round
NextRound       == round' = round + 1
Streak(issues)  == IF fingerprint = <<plan, issues>> THEN streak + 1 ELSE 1
NoProgress(n)   == n >= NoProgressRounds

AdvancesMutant(m) == m.sha \in Shas               \* the same commit may come back
\* A corrective commit must differ from the one that was rejected.
Advances(m) == m.sha # sha

\* The approval names the plan that is recorded now.
ApprovesCurrentPlan(m) == plan # None /\ m.plan = plan

Prepared == worktree = sha

RecordFeedbackMutant(kind) ==                    \* the first feedback is kept
  feedback' = IF feedback = "none" THEN kind ELSE feedback
RecordFeedback(kind) == feedback' = kind

\* A new candidate drops what was established about the previous one.
ForgetCandidate == evidence' = NoEvidence /\ worktree' = None /\ approvedSha' = None

-----------------------------------------------------------------------------
(* The driver accepts a response: apply_message and the save are one step *)

Init ==
  /\ status = "Running" /\ phase = "Contract" /\ action = "RequestPrimaryContract"
  /\ reason = NoReason /\ lastError = NoError
  /\ round = 1 /\ fingerprint = NoFingerprint /\ streak = 0
  /\ revision = 0 /\ required \in SUBSET Commands /\ plan = None /\ approval = NoApproval
  /\ sha = None /\ worktree = None /\ evidence = NoEvidence /\ approvedSha = None
  /\ feedback = "none"
  /\ accepted = NoResult
  /\ lastTurn = "Stop"
  /\ stoppedAt = <<phase, action>>

ApplyContract(m) ==
  /\ Answers(m) /\ m.type = "CONTRACT_READY"
  /\ RequirePhase("Contract") /\ m.round = 1
  /\ required' = required \cup m.tests
  /\ \/ /\ action = "RequestPrimaryContract"
        /\ MoveTo("Contract", "RequestReviewerContract")
        /\ UNCHANGED <<round, revision>>
     \/ /\ action = "RequestReviewerContract"
        /\ MoveTo("PlanReview", "RequestPrimaryPlan")
        /\ round' = 1 /\ revision' = 1
  /\ lastTurn' = action
  /\ UNCHANGED <<lastError, fingerprint, streak, plan, approval, resultVars, accepted>>

ApplyPlan(m) ==
  /\ Answers(m) /\ m.type = "PLAN_READY"
  /\ RequirePhase("PlanReview") /\ CurrentEnvelope(m)
  /\ action = "RequestPrimaryPlan"
  /\ required' = required \cup m.tests
  /\ plan' = m.plan
  /\ MoveTo("PlanReview", "RequestReviewerPlanVerdict")
  /\ lastTurn' = action
  /\ UNCHANGED <<lastError, reviewVars, revision, approval, resultVars, accepted>>

\* The pending action is not asked for: any request of plan review will do.
ApplyPlanApproval(m) ==
  /\ Answers(m) /\ m.type = "APPROVED_PLAN"
  /\ RequirePhase("PlanReview") /\ CurrentEnvelope(m)
  /\ ApprovesCurrentPlan(m)
  /\ approval' = [plan |-> m.plan, revision |-> m.revision]
  /\ MoveTo("Integrate", "RequestPrimaryIntegration")
  /\ lastTurn' = action
  /\ UNCHANGED <<lastError, reviewVars, revision, required, plan, resultVars, accepted>>

\* Git allows a commit only on the authorized branch, clean and built on the
\* sources; which of those commits it is, is the Primary's choice.
CreateIntegration(m) ==
  /\ Answers(m) /\ m.type = "INTEGRATION_READY"
  /\ RequirePhase("Integrate") /\ action = "RequestPrimaryIntegration"
  /\ CurrentEnvelope(m) /\ PlanApproved
  /\ Advances(m)
  /\ sha' = m.sha
  /\ ForgetCandidate
  /\ IF sha = None
     THEN round' = 1 /\ fingerprint' = NoFingerprint /\ streak' = 0
     ELSE UNCHANGED reviewVars
  /\ MoveTo("Verify", "RequestPrimaryVerification")
  /\ lastTurn' = action
  /\ UNCHANGED <<lastError, planVars, feedback, accepted>>

\* prepare_verification_workspace: saved before the verification request is sent.
PrepareVerification ==
  /\ status \in Active /\ action = "RequestPrimaryVerification"
  /\ sha # None /\ worktree \in {None, sha}
  /\ worktree' = sha
  /\ UNCHANGED <<control, reviewVars, planVars, sha, evidence, approvedSha, feedback,
                 accepted, lastTurn, stoppedAt>>

\* The daemon runs every frozen command in the verification worktree; passed is
\* the set of those that exit with 0.
VerifyIntegration(m, passed) ==
  LET tests == [cwd |-> worktree, ran |-> required, passed |-> passed] IN
  /\ Answers(m) /\ m.type = "INTEGRATION_READY"
  /\ RequirePhase("Verify") /\ action = "RequestPrimaryVerification"
  /\ CurrentEnvelope(m) /\ PlanApproved /\ CurrentIntegration(m)
  /\ Prepared /\ CompleteEvidence(tests)
  /\ evidence' = tests
  /\ approvedSha' = None
  /\ lastTurn' = action
  /\ \/ /\ ~Failing(tests)
        /\ MoveTo("ResultReview", "RequestReviewerResultVerdict")
        /\ UNCHANGED <<round, feedback>>
     \/ /\ Failing(tests)
        /\ RecordFeedback("machine")
        /\ \/ RoundExhausted /\ Block("ROUND_LIMIT") /\ UNCHANGED round
           \/ /\ ~RoundExhausted
              /\ NextRound
              /\ MoveTo("Integrate", "RequestPrimaryIntegration")
  /\ UNCHANGED <<lastError, fingerprint, streak, planVars, sha, worktree, accepted>>

ApplyResultApproval(m) ==
  /\ Answers(m) /\ m.type = "APPROVED_RESULT"
  /\ RequirePhase("ResultReview") /\ CurrentEnvelope(m) /\ CurrentIntegration(m)
  /\ approvedSha' = m.sha
  /\ MoveTo("ResultReview", "RevalidateAndAccept")
  /\ lastTurn' = action
  /\ UNCHANGED <<lastError, reviewVars, planVars, sha, worktree, evidence, feedback, accepted>>

\* An unchanged fingerprint NoProgressRounds times in a row, or a rejection in the
\* last round, blocks; otherwise the next round starts.
ApplyChangesRequired(m) ==
  LET n == Streak(m.issues) IN
  /\ Answers(m) /\ m.type = "CHANGES_REQUIRED"
  /\ phase \in {"PlanReview", "ResultReview"} /\ CurrentEnvelope(m)
  /\ m.sha = IF phase = "ResultReview" THEN sha ELSE None
  /\ fingerprint' = <<plan, m.issues>> /\ streak' = n
  /\ lastTurn' = action
  /\ \/ /\ NoProgress(n) /\ Block("NO_PROGRESS")
        /\ UNCHANGED <<round, revision, approval, approvedSha, feedback>>
     \/ /\ ~NoProgress(n) /\ RoundExhausted /\ Block("ROUND_LIMIT")
        /\ UNCHANGED <<round, revision, approval, approvedSha, feedback>>
     \/ /\ ~NoProgress(n) /\ ~RoundExhausted
        /\ NextRound /\ approvedSha' = None
        /\ \/ /\ phase = "PlanReview"
              /\ revision' = revision + 1 /\ approval' = NoApproval
              /\ MoveTo("PlanReview", "RequestPrimaryPlan")
              /\ UNCHANGED feedback
           \/ /\ phase = "ResultReview"
              /\ RecordFeedback("review")
              /\ MoveTo("Integrate", "RequestPrimaryIntegration")
              /\ UNCHANGED <<revision, approval>>
  /\ UNCHANGED <<lastError, required, plan, sha, worktree, evidence, accepted>>

\* The phase of the envelope is the current one, which the message leaves out.
ApplyBlocked(m) ==
  /\ Answers(m) /\ m.type = "BLOCKED"
  /\ CurrentEnvelope(m) /\ CurrentIntegration(m)
  /\ Block(m.reason)
  /\ lastTurn' = action
  /\ UNCHANGED <<lastError, reviewVars, planVars, resultVars, accepted>>

\* Git is checked again before the result is accepted.
RevalidateAndAccept ==
  /\ status = "Running" /\ action = "RevalidateAndAccept"
  /\ approvedSha = sha /\ AuthoritativeTests /\ sha # None
  /\ status' = "Accepted" /\ phase' = "Accepted" /\ action' = "Stop" /\ reason' = NoReason
  /\ accepted' = [sha |-> sha, tests |-> evidence]
  /\ UNCHANGED <<lastError, reviewVars, planVars, resultVars, lastTurn, stoppedAt>>

-----------------------------------------------------------------------------
(* The driver stops, waits or gives up *)

\* Codes whose recovery rule also asks for an exact diagnostic.
ExactCodes == {"INVALID_RESPONSE", "FORBIDDEN_OPERATION", "HISTORY_UNAVAILABLE",
               "INCOMPATIBLE_STATE"}

Pause(code) ==
  status' = "PausedUserAction" /\ reason' = code /\ UNCHANGED <<phase, action, stoppedAt>>

\* A lost app server and a refused test declaration can be retried by the user.
Pauses(code) ==
  \/ code = "COMMUNICATION_FAILURE"
  \/ code = "INVALID_TEST_COMMAND" /\ action \in DeclarationActions

\* Any step of drive may fail: refused answers, git checks, the app server, the
\* store.  The diagnostic names the action the step was for.
DriverError(code, exact) ==
  /\ status \in Active
  /\ exact => code \in ExactCodes
  /\ lastError' = [code |-> code, action |-> action, exact |-> exact]
  /\ \/ Pauses(code) /\ Pause(code)
     \/ /\ code = "INCOMPATIBLE_CODEX"
        /\ status' = "IncompatibleCodex" /\ phase' = "Blocked" /\ action' = "Stop"
        /\ reason' = code /\ stoppedAt' = <<phase, action>>
     \/ ~Pauses(code) /\ code # "INCOMPATIBLE_CODEX" /\ Block(code)
  /\ UNCHANGED <<reviewVars, planVars, resultVars, accepted, lastTurn>>

\* Blocks that only earlier releases wrote and the retry rules still read.
LegacyBlock(code) ==
  /\ Legacy /\ status = "Running"
  /\ \/ code = "INVALID_TEST_COMMAND" /\ action \in DeclarationActions
     \/ /\ code \in {"TEST_FAILURE", "DATABASE_ERROR"}
        /\ action = "RequestPrimaryVerification" /\ worktree = sha
  /\ lastError' = [code |-> code, action |-> action, exact |-> TRUE]
  /\ Block(code)
  /\ UNCHANGED <<reviewVars, planVars, resultVars, accepted, lastTurn>>

\* MAX_DRIVER_STEPS steps that each ended in a retry of the same request.
DriverExhausted ==
  /\ status \in Active
  /\ Block("NO_PROGRESS")
  /\ UNCHANGED <<lastError, reviewVars, planVars, resultVars, accepted, lastTurn>>

\* The user's permission prompt is left for the user.
PausePermission ==
  /\ status = "Running" /\ action \in ModelActions
  /\ Pause("PERMISSION_REQUIRED")
  /\ UNCHANGED <<lastError, reviewVars, planVars, resultVars, accepted, lastTurn>>

WaitForThread ==
  /\ status = "Running" /\ action \in ModelActions
  /\ status' = "WaitingThread"
  /\ UNCHANGED <<phase, action, reason, lastError, reviewVars, planVars, resultVars,
                 accepted, lastTurn, stoppedAt>>

ThreadBecameIdle ==
  /\ status = "WaitingThread"
  /\ status' = "Running"
  /\ UNCHANGED <<phase, action, reason, lastError, reviewVars, planVars, resultVars,
                 accepted, lastTurn, stoppedAt>>

-----------------------------------------------------------------------------
(* The user: cancel, resume, and the recovery rules resume applies to a block *)

\* save_state refuses a state that validate_persisted refuses.
Cancel ==
  /\ status' = "Cancelled" /\ phase' = "Cancelled" /\ action' = "Stop" /\ reason' = NoReason
  /\ stoppedAt' = IF action = "Stop" THEN stoppedAt ELSE <<phase, action>>
  /\ UNCHANGED <<lastError, reviewVars, planVars, resultVars, accepted, lastTurn>>
  /\ ValidatePersisted'

Resume ==
  /\ status = "PausedUserAction"
  /\ status' = "Running" /\ reason' = NoReason /\ lastError' = NoError
  /\ UNCHANGED <<phase, action, reviewVars, planVars, resultVars, accepted, lastTurn, stoppedAt>>

BlockedFor(code) == status = "Blocked" /\ phase = "Blocked" /\ action = "Stop" /\ reason = code

\* The block was raised by the driver, with this diagnostic.
Diagnosed(code, act) == BlockedFor(code) /\ lastError.code = code /\ lastError.action = act

ReportedByMutant(code, act) == BlockedFor(code) /\ lastError = NoError  \* whoever reported it
\* The block is the accepted answer to this request: there is no diagnostic, and the
\* latest ACCEPTED turn is the request's.
ReportedBy(code, act) == BlockedFor(code) /\ lastError = NoError /\ lastTurn = act

NoIntegration == sha = None
Untouched     == sha = None /\ worktree = None /\ evidence = NoEvidence
Unverified    == PlanApproved /\ sha # None /\ worktree # None /\ required # {}
                 /\ evidence = NoEvidence

\* The candidate was tested in its worktree and sent back.
SentBack ==
  /\ PlanApproved /\ sha # None /\ worktree # None
  /\ CompleteEvidence(evidence) /\ evidence.cwd = worktree
  /\ approvedSha = None /\ round > 1

ReopenMutant(act) ==                             \* the diagnostic is not cleared
  /\ status' = "Running" /\ phase' = PhaseOf(act) /\ action' = act
  /\ reason' = NoReason
  /\ UNCHANGED <<lastError, reviewVars, planVars, resultVars, accepted, lastTurn, stoppedAt>>

Reopen(act) ==
  /\ status' = "Running" /\ phase' = PhaseOf(act) /\ action' = act
  /\ reason' = NoReason /\ lastError' = NoError
  /\ UNCHANGED <<reviewVars, planVars, resultVars, accepted, lastTurn, stoppedAt>>

RetryInvalidTestCommand(act) ==
  /\ act \in DeclarationActions
  /\ Diagnosed("INVALID_TEST_COMMAND", act) /\ NoIntegration
  /\ Reopen(act)

RetryPreintegrationResponse(act) ==
  /\ act \in DeclarationActions \cup {"RequestReviewerPlanVerdict"}
  /\ Diagnosed("INVALID_RESPONSE", act) /\ NoIntegration
  /\ Reopen(act)

\* An invalid result, a forbidden operation (whose turn was interrupted, or only
\* queried commands) or a mirror that could not be recreated.
RetryInitialIntegration(code) ==
  /\ Diagnosed(code, "RequestPrimaryIntegration")
  /\ \/ code \in {"INVALID_RESPONSE", "HISTORY_UNAVAILABLE"} /\ lastError.exact
     \/ code = "FORBIDDEN_OPERATION"
  /\ PlanApproved /\ Untouched
  /\ Reopen("RequestPrimaryIntegration")

RetryExecutionTool ==
  /\ ReportedBy("EXECUTION_TOOL_UNAVAILABLE", "RequestPrimaryIntegration")
  /\ PlanApproved /\ Untouched
  /\ Reopen("RequestPrimaryIntegration")

\* The verification turn ran nothing, or its completion could not be stored.
RetryVerification(code) ==
  /\ code \in {"TEST_FAILURE", "DATABASE_ERROR"}
  /\ Diagnosed(code, "RequestPrimaryVerification") /\ lastError.exact
  /\ Unverified
  /\ Reopen("RequestPrimaryVerification")

RetryEnvironment ==
  /\ BlockedFor("CARGO_UNAVAILABLE") /\ lastTurn = "RequestPrimaryVerification"
  /\ Unverified
  /\ Reopen("RequestPrimaryVerification")

RetryReviewerLifecycle ==
  /\ Diagnosed("INCOMPATIBLE_STATE", "RequestReviewerResultVerdict") /\ lastError.exact
  /\ PlanApproved /\ sha # None /\ worktree # None /\ approvedSha = None
  /\ AuthoritativeTests
  /\ Reopen("RequestReviewerResultVerdict")

RetryCorrectivePatch ==
  /\ ReportedBy("CONTROLLED_PATCH_TOOL_UNAVAILABLE", "RequestPrimaryIntegration")
  /\ SentBack /\ ~AllPassed(evidence) /\ feedback = "machine"
  /\ Reopen("RequestPrimaryIntegration")

RetryRejectedPatch ==
  /\ ReportedBy("PATCH_NOT_AUTHORIZED", "RequestPrimaryIntegration")
  /\ SentBack /\ AllPassed(evidence) /\ feedback = "review"
  /\ Reopen("RequestPrimaryIntegration")

-----------------------------------------------------------------------------
(* Specification *)

AcceptResponse ==
  \/ \E m \in Contracts : ApplyContract(m)
  \/ \E m \in PlanDrafts : ApplyPlan(m)
  \/ \E m \in PlanVerdicts : ApplyPlanApproval(m)
  \/ \E m \in Integrations : CreateIntegration(m)
  \/ \E m \in Integrations, passed \in SUBSET required : VerifyIntegration(m, passed)
  \/ \E m \in Endorsements : ApplyResultApproval(m)
  \/ \E m \in Rejections : ApplyChangesRequired(m)
  \/ \E m \in Blockers : ApplyBlocked(m)

DriverStep ==
  \/ AcceptResponse
  \/ PrepareVerification
  \/ RevalidateAndAccept
  \/ \E code \in ErrorCodes, exact \in BOOLEAN : DriverError(code, exact)
  \/ \E code \in LegacyCodes : LegacyBlock(code)
  \/ DriverExhausted
  \/ PausePermission

Recover ==
  \/ \E act \in DeclarationActions : RetryInvalidTestCommand(act)
  \/ \E act \in ModelActions : RetryPreintegrationResponse(act)
  \/ \E code \in ErrorCodes : RetryInitialIntegration(code)
  \/ RetryExecutionTool
  \/ \E code \in LegacyCodes : RetryVerification(code)
  \/ RetryEnvironment
  \/ RetryReviewerLifecycle
  \/ RetryCorrectivePatch
  \/ RetryRejectedPatch

Next == DriverStep \/ WaitForThread \/ ThreadBecameIdle \/ Cancel \/ Resume \/ Recover

Spec == Init /\ [][Next]_vars

\* drive runs in a loop under driver_lock, is dispatched by start, resume and the
\* start of the daemon, and takes a step or fails: its waits for a task have a
\* deadline, and the app server is assumed to answer or to close the connection.
FairSpec == Spec /\ WF_vars(DriverStep)

-----------------------------------------------------------------------------
(* Invariants *)

TypeOK ==
  /\ status \in Status /\ phase \in Phase /\ action \in NextAction
  /\ reason \in Reasons /\ lastError \in Diagnostic \cup {NoError}
  /\ round \in Nat /\ fingerprint \in Fingerprint \cup {NoFingerprint} /\ streak \in Nat
  /\ revision \in Nat /\ required \subseteq Commands /\ plan \in Plans \cup {None}
  /\ approval \in Approval \cup {NoApproval}
  /\ sha \in Shas \cup {None} /\ worktree \in Shas \cup {None}
  /\ evidence \in Evidence \cup {NoEvidence} /\ approvedSha \in Shas \cup {None}
  /\ feedback \in {"none", "machine", "review"}
  /\ accepted \in Result \cup {NoResult}
  /\ lastTurn \in ModelActions \cup {"Stop"}
  /\ stoppedAt \in Phase \X NextAction

\* Whatever the driver, the user or a recovery rule computes, save_state takes it: no
\* run is wedged by a state that validate_persisted refuses.
SaveNeverRefused == ValidatePersisted

\* Test evidence is never about another commit than the candidate, and covers exactly
\* the frozen commands: a corrective commit never inherits its predecessor's tests.
EvidenceIsForCandidate ==
  evidence # NoEvidence =>
    evidence.cwd = sha /\ worktree = sha /\ evidence.ran = required /\ required # {}

\* A commit that carries the Reviewer's approval is the candidate, and every frozen
\* command passed on it.
ApprovalIsForTestedCandidate ==
  approvedSha # None =>
    approvedSha = sha /\ evidence.cwd = sha /\ evidence.passed = required /\ PlanApproved

\* From integration on, the run works on the very plan and revision that were approved.
PlanBinding ==
  /\ phase \in {"Integrate", "Verify", "ResultReview", "Accepted"} => PlanApproved
  /\ sha # None => PlanApproved
  /\ PlanApproved => approval.plan = plan /\ approval.revision = revision

\* A run that is not stopped waits for an answer its phase allows, after every
\* sequence of answers, errors, pauses and recoveries; what the last stop recorded is gone
\* while the run is active, so that no later block is taken for an earlier one.
PendingRequest ==
  /\ status \in Active \cup {"PausedUserAction"} =>
       /\ phase = PhaseOf(action) /\ action # "Stop"
       /\ action = "RequestReviewerPlanVerdict" => plan # None
       /\ action = "RequestPrimaryIntegration" => sha = None \/ evidence # NoEvidence
       /\ action = "RevalidateAndAccept" => approvedSha = sha
  /\ status \in Active => reason = NoReason /\ lastError = NoError

\* No sequence of verdicts, failed tests, stops and recoveries buys a run more than
\* max_review_rounds rounds per review, or a no_progress_rounds-th unchanged verdict.
ReviewBudget ==
  /\ round <= MaxRounds /\ revision <= MaxRounds
  /\ status \in Active => streak < NoProgressRounds

\* When the Primary is asked to correct a candidate, it is told what was wrong with it:
\* failed tests come with the machine's feedback, passed ones with the Reviewer's.
CorrectionIsWarranted ==
  phase = "Integrate" /\ sha # None =>
    feedback = (IF AllPassed(evidence) THEN "review" ELSE "machine")

\* What is accepted is the candidate built on the plan that was approved, tested by
\* the daemon and approved by the Reviewer.
AcceptedIsEarned ==
  status = "Accepted" =>
    /\ accepted.sha = sha /\ sha = approvedSha /\ accepted.tests = evidence
    /\ evidence.cwd = sha /\ evidence.passed = required /\ required # {}
    /\ approval = [plan |-> plan, revision |-> revision]

-----------------------------------------------------------------------------
(* Action properties *)

\* The approved plan and the frozen tests never change again, whatever is retried.
FrozenAfterApproval ==
  [][PlanApproved => UNCHANGED <<plan, approval, revision, required>>]_vars

\* A candidate is given up only for another one, after its tests failed or the Reviewer
\* rejected it.
ReplacedOnlyIfRejected ==
  [][sha # None /\ sha' # sha =>
       /\ sha' # None /\ round > 1
       /\ evidence.cwd = sha /\ (Failing(evidence) \/ feedback = "review")]_vars

\* Accepted and Cancelled are final: neither cancel nor a late step changes the outcome.
SettledIsFinal ==
  [][(status \in {"Accepted", "Cancelled"}) => UNCHANGED <<status, accepted>>]_vars

\* A recovery asks again the very request that was pending when the run was blocked,
\* with everything that was agreed and produced so far.
RetryReturnsToBlockedRequest ==
  [][status = "Blocked" /\ status' = "Running" =>
       /\ <<phase', action'>> = stoppedAt
       /\ UNCHANGED <<reviewVars, planVars, resultVars>>]_vars

\* Only the answer to the Reviewer's result request endorses a commit.
ResultEndorsedByReviewer ==
  [][approvedSha' \notin {approvedSha, None} => action = "RequestReviewerResultVerdict"]_vars

\* Only the answer to the Reviewer's plan request approves a plan.
PlanApprovedByReviewer ==
  [][~PlanApproved /\ PlanApproved' => action = "RequestReviewerPlanVerdict"]_vars

-----------------------------------------------------------------------------
(* Refinement.  A stopped run stands where it was stopped. *)

Standing == IF phase \in {"Blocked", "Cancelled"} THEN stoppedAt[1] ELSE phase

Outcome ==
  IF status \in Active THEN "open"
  ELSE IF status = "Accepted" THEN "accepted"
  ELSE IF status = "Cancelled" THEN "cancelled"
  ELSE "held"

Verdict ==
  IF sha = None THEN "none"
  ELSE IF evidence = NoEvidence THEN "untested"
  ELSE IF Failing(evidence) THEN "failed"
  ELSE IF approvedSha # None THEN "endorsed"
  ELSE IF Standing = "Integrate" THEN "rejected"
  ELSE "passed"

Consensus == INSTANCE MergeConsensus
  WITH outcome <- Outcome, agreed <- approval.plan, candidate <- sha, verdict <- Verdict

\* The run keeps the promise of MergeConsensus.
ImplementsConsensus == Consensus!Spec

-----------------------------------------------------------------------------
(* Liveness *)

\* Every drive ends: the run is accepted, or it is handed back to the user.
DriverSettles == status \in Active ~> status \notin Active

=============================================================================
