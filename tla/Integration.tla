----------------------------- MODULE Integration -----------------------------
(***************************************************************************)
(* How the Primary's work becomes an integration result: the writes its    *)
(* turn makes in the repository, the controlled patch that the turn calls  *)
(* and the daemon applies (apply_patch, under patch_lock), the audit of    *)
(* the turn's items, the checks of the repository, and the recoveries of   *)
(* an ephemeral turn whose events were lost after its patch.               *)
(*                                                                         *)
(* Request 0 is the first integration, the later ones are corrections.     *)
(* The drive and apply_patch run really in parallel.                       *)
(***************************************************************************)
EXTENDS Naturals, Sequences, FiniteSets

CONSTANTS
  Last,        \* requests: the first integration and Last - 1 corrections
  Patches,     \* texts of patches
  MaxTurns,    \* bound: turns
  MaxCalls,    \* bound: patch calls of a turn
  MaxCommits,  \* bound: commits of the target branch
  MaxFaults,   \* bound: lost events, broken turns, timeouts, lost tasks, crashes
  ObeyedPrompt, \* whether a confirmation nobody saw obeyed its prompt: it only read and has ended
  None         \* nothing recorded, nothing under way

ASSUME IntegrationAssumption ==
  /\ ObeyedPrompt \in BOOLEAN
  /\ Last \in Nat \ {0} /\ MaxTurns \in Nat /\ MaxCalls \in Nat
  /\ MaxCommits \in Nat /\ MaxFaults \in Nat /\ None \notin Nat \cup Patches
  /\ None \notin [patch : Patches, generation : Nat]
  /\ None \notin [at : {"apply", "record"}, id : Nat, call : Nat, base : Nat, generation : Nat]

VARIABLES
  run,          \* runs: status, number of the pending request, accepted commit
  pending,      \* turns: the attempt that was sent for the request, or None
  archived,     \* turn_attempts: attempts that were given up, and why
  record,       \* patch_applications: per request, the patch and the binding's generation
  generation,   \* generation of the active Primary binding
  handler,      \* apply_patch: the call that holds patch_lock, or None
  repo,         \* the Primary's worktree: on the target branch, merged, uncommitted changes
  commits,      \* the target branch: what each of its commits contains
  attempts,     \* external: the turns of the Primary and their items
  applied,      \* history: the patches that reached the worktree
  results,      \* history: the accepted commit of each request
  kept,         \* history: per request, the commit at its recovery after the patch
  cut,          \* history: a crash came between a patch and its record
  faults

store == <<run, pending, archived, record, generation>>
git   == <<repo, commits, applied>>
vars  == <<run, pending, archived, record, generation, handler, repo, commits, attempts,
           applied, results, kept, cut, faults>>

Requests == 0..Last - 1
Edited   == 0                            \* changes by the task's own editing tool
Ended    == {"completed", "broken"}      \* broken: failed or interrupted
Ids      == DOMAIN attempts
Live     == {i \in Ids : attempts[i].status = "inProgress"}
Tip      == Len(commits)
Request  == run.request

\* Attempts of a request that were given up.
ArchivedOf(r) == {a \in archived : attempts[a.id].request = r}

Fail == faults < MaxFaults /\ faults' = faults + 1

-----------------------------------------------------------------------------
(* Checks *)

\* The Primary's worktree is clean, on the authorized branch, and contains both
\* sources (verify_integration_patch_ready, verify_integration_result).
PatchReadyMutant == repo.onTarget /\ repo.merged
PatchReady == repo.onTarget /\ repo.merged /\ repo.changes = {}

\* A correction must bring a new commit.
NewResult == PatchReady /\ (Request = 0 \/ Tip # run.sha)

\* The events of an ephemeral turn are all that is known of it.
Visible(i) == attempts[i].status \in Ended /\ attempts[i].heard = "all"

\* No item, no completion: all events of the turn were lost.
Eventless(i) == attempts[i].heard = "none"

\* validated_successful_patch_hash: the patch was made by this turn's task, or
\* by an archived attempt on the task that the active binding replaced.
Provenance(i, allowArchived) ==
  LET made == record[attempts[i].request].generation
  IN \/ attempts[i].generation = made
     \/ /\ allowArchived /\ attempts[i].generation = generation
        /\ \E a \in ArchivedOf(attempts[i].request) :
             a.why \in {"completed", "eventless"} /\ attempts[a.id].generation = made

\* Every item is a message, an allowed command or the patch call itself, of the
\* right task, server and tool (integration_command_blocker,
\* controlled_patch_mcp_identity_blocker).
OnlyAllowed(i) == ~attempts[i].outside

\* recoverable_integration_turn_blocker finds nothing: exactly one call
\* succeeded, with the recorded patch; failed ones came before, with others.
Recoverable(i, patch) ==
  LET calls == attempts[i].calls IN
  /\ OnlyAllowed(i) /\ ~attempts[i].edited
  /\ \E n \in DOMAIN calls :
       /\ n = Len(calls) /\ calls[n].status = "completed" /\ calls[n].patch = patch
       /\ \A m \in 1..n - 1 : calls[m].status = "failed" /\ calls[m].patch # patch

\* Only reads are allowed after the patch.
ReadOnly(i) == OnlyAllowed(i) /\ ~attempts[i].wrote

\* What the prompt of a confirmation asks for.
OnlyRead(i) == ReadOnly(i) /\ ~attempts[i].edited

\* Assumed of a turn nobody saw: it made the patch, or obeyed its prompt.
Obeyed(i) ==
  ObeyedPrompt => /\ attempts[i].status \in Ended
                  /\ \/ \E n \in DOMAIN attempts[i].calls : attempts[i].calls[n].status = "completed"
                     \/ OnlyRead(i) /\ attempts[i].calls = <<>>

\* Takes any turn after the patch.
AuditedMutant(i, recovered) ==
  \/ record[attempts[i].request] # None
  \/ attempts[i].calls = <<>> /\ ~attempts[i].outside

\* verify_integration_execution_items: a turn without a recorded patch made no
\* call and stayed within the policy; one that made the patch did nothing
\* else; one after an archived attempt only read.
Audited(i, recovered) ==
  LET r == attempts[i].request  calls == attempts[i].calls IN
  \/ record[r] = None /\ calls = <<>> /\ OnlyAllowed(i)
  \/ record[r] # None /\ calls # <<>> /\ Recoverable(i, record[r].patch)
  \/ record[r] # None /\ calls = <<>> /\ recovered /\ ReadOnly(i)

\* The answer hands over a result: INTEGRATION_READY, or the report that the
\* patch of this request is used up (promote_post_patch_limit_response).
HandsOver(i) ==
  \/ attempts[i].answer = "READY"
  \/ attempts[i].answer = "LIMIT" /\ record[attempts[i].request] # None

\* The turn ran on the active binding's task (prepared_completed_pending_action_thread),
\* and verify_message_evidence accepts it as the request's result.
Acceptable(i) ==
  LET recovered == ArchivedOf(attempts[i].request) # {} IN
  /\ attempts[i].generation = generation
  /\ attempts[i].status = "completed" /\ HandsOver(i) /\ NewResult
  /\ record[attempts[i].request] # None => Provenance(i, recovered)
  /\ Audited(i, recovered)

-----------------------------------------------------------------------------
Init ==
  /\ run = [status |-> "RUNNING", request |-> 0, sha |-> 0]
  /\ pending = None /\ archived = {} /\ generation = 1
  /\ record = [r \in Requests |-> None] /\ handler = None
  /\ repo = [onTarget |-> FALSE, merged |-> FALSE, changes |-> {}]
  /\ commits = <<>> /\ attempts = <<>> /\ applied = <<>>
  /\ results = <<>> /\ kept = [r \in Requests |-> None]
  /\ cut = FALSE /\ faults = 0

-----------------------------------------------------------------------------
(* The turn of the Primary: policy.rs accepts switch and merge for the first  *)
(* request only; anything else is recorded as an item outside of it.          *)

Turn(i) == i \in Live /\ UNCHANGED <<store, handler, results, kept, cut>>

SwitchToTarget(i) ==
  /\ Turn(i) /\ attempts[i].request = 0 /\ ~repo.onTarget
  /\ repo' = [repo EXCEPT !.onTarget = TRUE]
  /\ attempts' = [attempts EXCEPT ![i].wrote = TRUE]
  /\ UNCHANGED <<commits, applied, faults>>

MergeReviewer(i) ==
  /\ Turn(i) /\ attempts[i].request = 0
  /\ repo.onTarget /\ ~repo.merged /\ repo.changes = {}
  /\ repo' = [repo EXCEPT !.merged = TRUE]
  /\ commits' = Append(commits, {})
  /\ attempts' = [attempts EXCEPT ![i].wrote = TRUE]
  /\ UNCHANGED <<applied, faults>>

\* git add -A and git commit
Commit(i) ==
  /\ Turn(i) /\ repo.onTarget /\ repo.merged /\ repo.changes # {} /\ Tip < MaxCommits
  /\ commits' = Append(commits, commits[Tip] \cup repo.changes)
  /\ repo' = [repo EXCEPT !.changes = {}]
  /\ attempts' = [attempts EXCEPT ![i].wrote = TRUE]
  /\ UNCHANGED <<applied, faults>>

\* A file is changed without the controlled patch (item/fileChange).
EditFiles(i) ==
  /\ Turn(i) /\ repo.onTarget /\ Edited \notin repo.changes
  /\ repo' = [repo EXCEPT !.changes = @ \cup {Edited}]
  /\ attempts' = [attempts EXCEPT ![i].edited = TRUE]
  /\ UNCHANGED <<commits, applied, faults>>

ActOutsidePolicy(i) ==
  /\ Turn(i) /\ ~attempts[i].outside
  /\ attempts' = [attempts EXCEPT ![i].outside = TRUE]
  /\ UNCHANGED <<git, faults>>

\* The turn calls consensus_apply_patch and waits for its answer.
CallPatch(i) ==
  /\ Turn(i) /\ Len(attempts[i].calls) < MaxCalls
  /\ \A n \in DOMAIN attempts[i].calls : attempts[i].calls[n].status # "inProgress"
  /\ \E patch \in Patches :
       attempts' = [attempts EXCEPT ![i].calls =
                      Append(@, [patch |-> patch, status |-> "inProgress", queued |-> TRUE])]
  /\ UNCHANGED <<git, faults>>

\* The turn stops waiting; apply_patch does not know.
CallTimesOut(i) ==
  /\ Fail
  /\ Turn(i)
  /\ \E n \in DOMAIN attempts[i].calls :
       /\ attempts[i].calls[n].status = "inProgress"
       /\ attempts' = [attempts EXCEPT ![i].calls[n].status = "failed"]
  /\ UNCHANGED git

\* The turn completes with an answer; its events may be lost.
TurnCompletes(i) ==
  /\ Turn(i)
  /\ \A n \in DOMAIN attempts[i].calls : attempts[i].calls[n].status # "inProgress"
  /\ \E answer \in {"READY", "LIMIT", "OTHER"}, heard \in {"all", "items", "none"} :
       /\ attempts' = [attempts EXCEPT ![i].status = "completed", ![i].answer = answer, ![i].heard = heard]
       /\ IF heard = "all" THEN faults' = faults ELSE Fail
  /\ UNCHANGED git

TurnBreaks(i) ==
  /\ Fail
  /\ Turn(i)
  /\ \A n \in DOMAIN attempts[i].calls : attempts[i].calls[n].status # "inProgress"
  /\ \E heard \in {"all", "items", "none"} :
       attempts' = [attempts EXCEPT ![i].status = "broken", ![i].heard = heard]
  /\ UNCHANGED git

-----------------------------------------------------------------------------
(* apply_patch *)

\* The answer to a call is heard only by a turn that still waits for it.
Answered(i, n, status) ==
  [attempts EXCEPT ![i].calls[n].queued = FALSE,
                   ![i].calls[n].status = IF @ = "inProgress" THEN status ELSE @]

\* The exact active request, its turn known, on the active binding, and no
\* patch recorded for it.
Authorized(i) ==
  /\ run.status = "RUNNING" /\ attempts[i].request = Request
  /\ pending # None /\ attempts[pending].generation = generation
  /\ record[Request] = None

TakePatchLock(i, n) ==
  /\ handler = None /\ attempts[i].calls[n].queued
  /\ IF Authorized(i)
     THEN /\ handler' = [at |-> "apply", id |-> i, call |-> n, base |-> run.sha, generation |-> generation]
          /\ attempts' = [attempts EXCEPT ![i].calls[n].queued = FALSE]
     ELSE attempts' = Answered(i, n, "failed") /\ UNCHANGED handler
  /\ UNCHANGED <<store, git, results, kept, cut, faults>>

\* The worktree is as the patch needs it, the patch is not yet in it, and a
\* correction starts from the persisted commit (apply_checked_text_patch).
Applies ==
  /\ PatchReady
  /\ \A k \in commits[Tip] \ {Edited} : applied[k].patch # attempts[handler.id].calls[handler.call].patch
  /\ handler.base = 0 \/ handler.base = Tip

ApplyPatch ==
  /\ handler # None /\ handler.at = "apply" /\ Applies
  /\ applied' = Append(applied, [request |-> attempts[handler.id].request,
                                 patch |-> attempts[handler.id].calls[handler.call].patch])
  /\ repo' = [repo EXCEPT !.changes = @ \cup {Len(applied) + 1}]
  /\ handler' = [handler EXCEPT !.at = "record"]
  /\ UNCHANGED <<store, commits, attempts, results, kept, cut, faults>>

\* Git refuses the patch, for one of the reasons above or because of its text.
PatchFails ==
  /\ handler # None /\ handler.at = "apply"
  /\ attempts' = Answered(handler.id, handler.call, "failed")
  /\ handler' = None
  /\ UNCHANGED <<store, git, results, kept, cut, faults>>

\* record_successful_patch_with_provenance
RecordPatch ==
  /\ handler # None /\ handler.at = "record"
  /\ LET call == attempts[handler.id].calls[handler.call]  r == attempts[handler.id].request IN
       /\ record' = IF record[r] = None
                    THEN [record EXCEPT ![r] = [patch |-> call.patch, generation |-> handler.generation]]
                    ELSE record
       /\ attempts' = Answered(handler.id, handler.call, IF record[r] = None THEN "completed" ELSE "failed")
  /\ handler' = None
  /\ UNCHANGED <<run, pending, archived, generation, git, results, kept, cut, faults>>

-----------------------------------------------------------------------------
(* The drive *)

NewTurn == [request |-> Request, status |-> "inProgress", heard |-> "none", calls |-> <<>>,
            wrote |-> FALSE, edited |-> FALSE, outside |-> FALSE, answer |-> None,
            generation |-> generation]

\* The request is sent to the idle task (TurnDelivery models how).
StartTurn ==
  /\ run.status = "RUNNING" /\ Request \in Requests /\ pending = None
  /\ Live = {} /\ Len(attempts) < MaxTurns
  /\ attempts' = Append(attempts, NewTurn)
  /\ pending' = Len(attempts) + 1
  /\ UNCHANGED <<run, archived, record, generation, handler, git, results, kept, cut, faults>>

Advanced == [run EXCEPT !.request = @ + 1, !.sha = Tip]

AcceptIntegration ==
  /\ run.status = "RUNNING" /\ pending # None /\ Visible(pending) /\ Acceptable(pending)
  /\ run' = Advanced
  /\ results' = Append(results, Tip)
  /\ pending' = None
  /\ UNCHANGED <<archived, record, generation, handler, git, attempts, kept, cut, faults>>

\* An answer that hands over nothing, or that a check refuses, blocks the run.
\* An earlier release may also have refused a response that is read today.
RefuseIntegration ==
  /\ run.status = "RUNNING" /\ pending # None /\ Visible(pending)
  /\ attempts[pending].status = "completed"
  /\ run' = [run EXCEPT !.status = "BLOCKED"]
  /\ UNCHANGED <<pending, archived, record, generation, handler, git, attempts, results, kept, cut, faults>>

\* The turn failed, or nothing is heard of it until the wait ends.
WaitFails ==
  /\ run.status = "RUNNING" /\ pending # None
  /\ attempts[pending].status # "completed" \/ ~Visible(pending)
  /\ Live = {} \/ Fail
  /\ Live = {} => faults' = faults
  /\ run' = [run EXCEPT !.status = "PAUSED"]
  /\ UNCHANGED <<pending, archived, record, generation, handler, git, attempts, results, kept, cut>>

-----------------------------------------------------------------------------
(* Recoveries *)

Archive(id, why) == archived' = archived \cup {[id |-> id, why |-> why]}

\* The attempt is given up with its patch in place: what is accepted for this
\* request must be the commit of now.
GiveUpAfterPatch(why) ==
  /\ Archive(pending, why)
  /\ kept' = [kept EXCEPT ![Request] = IF @ = None THEN Tip ELSE @]

\* All events of the turn that made the patch are lost: the request is asked
\* once more, and only once (reset_eventless_successful_patch_turn_for_retry).
AskOnceMore ==
  /\ pending # None /\ Live = {}
  /\ record[Request] # None /\ Eventless(pending) /\ Provenance(pending, FALSE)
  /\ NewResult
  /\ \A a \in ArchivedOf(Request) : a.why # "eventless"
  /\ Obeyed(pending)
  /\ GiveUpAfterPatch("eventless")
  /\ pending' = None
  /\ UNCHANGED <<record, generation, handler, git, attempts, results, cut, faults>>

\* The wait for the turn finds its task idle.
RecoverWhileWaiting == run.status = "RUNNING" /\ AskOnceMore /\ UNCHANGED run

\* The wait had failed before; the user resumes.
RecoverPaused ==
  run.status = "PAUSED" /\ AskOnceMore /\ run' = [run EXCEPT !.status = "RUNNING"]

\* The turn after the patch is lost, too, and an earlier one with an acceptable
\* answer is in the archive: it becomes the request's turn again. Nothing tells
\* what the lost turn did
\* (restore_archived_completed_turn_after_ephemeral_loss).
RestoreArchived ==
  /\ run.status = "PAUSED" /\ Request = 0 /\ pending # None
  /\ record[Request] # None /\ Eventless(pending)
  /\ Obeyed(pending)
  /\ \E a \in ArchivedOf(Request) :
       /\ a.why = "completed" /\ attempts[a.id].answer = "READY" /\ Visible(a.id)
       /\ \A b \in ArchivedOf(Request) : b.why = "completed" => b.id <= a.id
       /\ Provenance(pending, TRUE) /\ Audited(a.id, TRUE)
       /\ Archive(pending, "unavailable")
       /\ pending' = a.id
  /\ run' = [run EXCEPT !.status = "RUNNING"]
  /\ UNCHANGED <<record, generation, handler, git, attempts, results, kept, cut, faults>>

\* Retries a broken turn whatever it did.
NoEffectsMutant(i) == TRUE

\* terminal_turn_retry_blocker finds no item with side effects.
NoEffects(i) ==
  attempts[i].calls = <<>> /\ ~attempts[i].wrote /\ ~attempts[i].edited /\ ~attempts[i].outside

\* reset_terminal_turn_for_retry, and the save of the resumed run
RetryBrokenTurn ==
  /\ run.status = "PAUSED" /\ pending # None /\ Visible(pending)
  /\ attempts[pending].status = "broken" /\ NoEffects(pending)
  /\ Archive(pending, "broken")
  /\ pending' = None
  /\ run' = [run EXCEPT !.status = "RUNNING"]
  /\ UNCHANGED <<record, generation, handler, git, attempts, results, kept, cut, faults>>

\* Nothing was sent, or the turn is known to have completed.
ResumeWaiting ==
  /\ run.status = "PAUSED"
  /\ pending = None \/ (Visible(pending) /\ attempts[pending].status = "completed")
  /\ run' = [run EXCEPT !.status = "RUNNING"]
  /\ UNCHANGED <<pending, archived, record, generation, handler, git, attempts, results, kept, cut, faults>>

\* inspect_completed_integration_invalid_response_retry: the refused turn made
\* the recorded patch, or only read after it, and the result is sound; the
\* request is asked again.
RetryRefused ==
  /\ run.status = "BLOCKED" /\ Request = 0 /\ pending # None /\ record[Request] # None
  /\ attempts[pending].generation = generation /\ Provenance(pending, TRUE)
  /\ \/ attempts[pending].calls # <<>> /\ Recoverable(pending, record[Request].patch)
     \/ /\ attempts[pending].calls = <<>> /\ ArchivedOf(Request) # {}
        /\ OnlyRead(pending)
  /\ NewResult
  /\ GiveUpAfterPatch("completed")
  /\ pending' = None
  /\ run' = [run EXCEPT !.status = "RUNNING"]
  /\ UNCHANGED <<record, generation, handler, git, attempts, results, cut, faults>>

\* The ephemeral task is lost and created again for a request not yet sent
\* (PrimaryBinding models how).
ReplaceTask ==
  /\ Fail
  /\ pending = None /\ Live = {}
  /\ generation' = generation + 1
  /\ UNCHANGED <<run, pending, archived, record, handler, git, attempts, results, kept, cut>>

\* Calls, when whoever waits for their answers is gone.
CutOff(calls) ==
  [n \in DOMAIN calls |->
     [calls[n] EXCEPT !.queued = FALSE, !.status = IF @ = "inProgress" THEN "failed" ELSE @]]

\* The daemon stops: apply_patch is cut off wherever it is, and every call fails.
Crash ==
  /\ Fail
  /\ handler' = None
  /\ cut' = (cut \/ (handler # None /\ handler.at = "record"))
  /\ attempts' = [i \in Ids |-> [attempts[i] EXCEPT !.calls = CutOff(@)]]
  /\ UNCHANGED <<store, git, results, kept>>

-----------------------------------------------------------------------------
TurnStep ==
  \E i \in Live :
    \/ SwitchToTarget(i) \/ MergeReviewer(i) \/ Commit(i) \/ EditFiles(i)
    \/ ActOutsidePolicy(i) \/ CallPatch(i) \/ CallTimesOut(i)
    \/ TurnCompletes(i) \/ TurnBreaks(i)

PatchStep ==
  \/ \E i \in Ids : \E n \in DOMAIN attempts[i].calls : TakePatchLock(i, n)
  \/ ApplyPatch \/ PatchFails \/ RecordPatch

Drive == StartTurn \/ AcceptIntegration \/ RefuseIntegration \/ WaitFails

Recovery ==
  \/ RecoverWhileWaiting \/ RecoverPaused \/ RestoreArchived
  \/ RetryBrokenTurn \/ ResumeWaiting \/ RetryRefused

Next == TurnStep \/ PatchStep \/ Drive \/ Recovery \/ ReplaceTask \/ Crash

Spec == Init /\ [][Next]_vars

-----------------------------------------------------------------------------
(* Properties *)

TypeOK ==
  /\ run.status \in {"RUNNING", "PAUSED", "BLOCKED"}
  /\ run.request \in 0..Last /\ run.sha \in 0..Tip
  /\ pending \in Ids \cup {None} /\ Cardinality(Live) <= 1
  /\ archived \subseteq [id : Ids, why : Ended \cup {"eventless", "unavailable"}]
  /\ \A r \in Requests : record[r] # None =>
       record[r] \in [patch : Patches, generation : 1..generation]
  /\ repo \in [onTarget : BOOLEAN, merged : BOOLEAN, changes : SUBSET (0..Len(applied))]
  /\ \A n \in DOMAIN commits : commits[n] \subseteq 0..Len(applied)
  /\ Len(results) = run.request

\* The patches of request r that a commit contains.
PatchesIn(n, r) == {k \in commits[n] \ {Edited} : applied[k].request = r}

\* What is accepted is what was recorded: the result of a request contains its one
\* recorded patch and no other patch made for it (docs/safety-model.md: at most one
\* successful patch, and persists single-use provenance in SQLite), unless the daemon
\* crashed after git apply and before the record.
ResultHoldsTheRecordedPatch ==
  ~cut => \A r \in 0..Len(results) - 1 :
    LET made == PatchesIn(results[r + 1], r) IN
    IF record[r] = None THEN made = {}
    ELSE Cardinality(made) = 1 /\ \A k \in made : applied[k].patch = record[r].patch

\* Work that a recovery found done is not done again: when an attempt was given
\* up after its patch, the commit that is accepted in the end is the one of then
\* (docs/compatibility.md: the replacement prompt forbids another patch, merge,
\* staging, or commit).
RecoveredResultIsKept ==
  \A r \in 0..Len(results) - 1 : kept[r] # None => results[r + 1] = kept[r]

\* A patch lands only while its request waits for an answer: apply_patch holds
\* no lock of the run between its checks and the write.
PatchWithinRequest ==
  handler # None => attempts[handler.id].request = Request

=============================================================================
