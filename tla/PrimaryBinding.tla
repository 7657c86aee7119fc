--------------------------- MODULE PrimaryBinding ---------------------------
(***************************************************************************)
(* Which task speaks for the Primary. A run binds the Primary either to    *)
(* its source task itself (DIRECT) or to an ephemeral fork of it           *)
(* (EPHEMERAL_FORK), which vanishes when the app server unloads it. A lost *)
(* fork may be replaced by a new generation only while nothing was sent.   *)
(*                                                                         *)
(* The user keeps working in the source task. Every read of it, the fork,  *)
(* and the transaction that activates the fork are separate steps.         *)
(***************************************************************************)
EXTENDS Naturals, Sequences, FiniteSets

CONSTANTS
  MaxRequests,  \* bound: requests to the Primary
  MaxTasks,     \* bound: forks
  MaxTurns,     \* bound: turns started by the run
  MaxHistory,   \* bound: turns of the user in the source task, which has one at the start
  MaxFaults,    \* bound: lost tasks, connections, answers, crashes
  None

ASSUME BindingAssumption ==
  /\ MaxRequests \in Nat /\ MaxTasks \in Nat /\ MaxTurns \in Nat
  /\ MaxHistory \in Nat \ {0} /\ MaxFaults \in Nat
  /\ None \notin Nat
  /\ None \notin [gen : Nat \cup {None}, task : Nat \cup {None}, turn : Nat \cup {None}, intent : BOOLEAN]

VARIABLES
  run,        \* runs: status, accepted requests, whether it stopped as "source not idle"
  pending,    \* turns: the open row's binding generation, task, turn and start intent
  bindings,   \* primary_participant_bindings: by generation; the last one is active
  archived,   \* turn_attempts
  patch,      \* patch_applications of the open request: generation, or None
  drive,      \* position of the drive and what it has read
  source,     \* external: the source task's turns, state, capability and goal
  forks,      \* external: the history each fork was made of
  loaded,     \* external: the forks that still exist
  turns,      \* external: the turns started for the run
  faults

store == <<run, pending, bindings, archived, patch>>
tasks == <<source, forks, loaded>>
vars  == <<run, pending, bindings, archived, patch, drive, source, forks, loaded, turns, faults>>

Source == 0                              \* forks are numbered from 1
Legacy == 0                              \* history of a fork that an old release did not record
Off    == [at |-> "off", rotate |-> None, seen |-> None, fork |-> None]
Ended  == {"completed", "failed", "interrupted"}
Active == Len(bindings)
Bound  == bindings[Active]
Live(task) == \E t \in DOMAIN turns : turns[t].task = task /\ turns[t].status = "inProgress"

Fail == faults < MaxFaults /\ faults' = faults + 1

-----------------------------------------------------------------------------
(* Conditions *)

\* Asks only whether a turn is known.
UnsentMutant(row) == row.turn = None

\* Nothing can have been sent for the open row.
Unsent(row) == row.task = None /\ row.turn = None /\ ~row.intent

\* Leaves the request with the generation it had.
ReboundMutant == pending

\* The rotation takes the unsent request along.
Rebound == [pending EXCEPT !.gen = Active + 1]

\* Compares nothing.
FullHistoryMutant(history) == TRUE

\* verify_full_history_fork: the fork holds the turns that were read before it.
FullHistory(history) == history = drive.seen

\* All forks of a run mirror one history of the source task.
SameSource(history) ==
  \A g \in DOMAIN bindings : bindings[g].history \notin {None, Legacy} => bindings[g].history = history

\* validate_recorded_role_thread: the row's task is that of its generation.
OnItsBinding(row) == row.gen \in DOMAIN bindings /\ bindings[row.gen].task = row.task

\* turn_event_evidence
Heard(t) == turns[t].status \in Ended /\ turns[t].heard

\* The answer to the open request is on record.
AnswerKnown == IF pending = None THEN FALSE
               ELSE IF pending.turn = None THEN FALSE ELSE Heard(pending.turn)

OpenGeneration == IF pending = None THEN Active ELSE pending.gen

\* validated_successful_patch_hash: made under this generation, or by an
\* archived attempt under an earlier one.
PatchKnown(row, allowArchived) ==
  /\ patch # None
  /\ \/ patch = row.gen
     \/ /\ allowArchived /\ row.gen = Active
        /\ bindings[patch].mode = "FORK" /\ Bound.mode = "FORK" /\ bindings[patch].history = Bound.history
        /\ \E a \in archived : a.request = run.request /\ a.task = bindings[patch].task
                               /\ a.why \in {"completed", "eventless"}

-----------------------------------------------------------------------------
NewRow(gen) == [gen |-> gen, task |-> None, turn |-> None, intent |-> FALSE]

\* A store of this release, one of an old release with an unsent request, and
\* one with a fork whose history was not recorded.
Init ==
  /\ run = [status |-> "RUNNING", request |-> 0, notIdle |-> FALSE]
  /\ \/ pending = None /\ bindings = <<>> /\ forks = <<>> /\ loaded = {}
     \/ pending = NewRow(None) /\ bindings = <<>> /\ forks = <<>> /\ loaded = {}
     \/ /\ pending \in {None, NewRow(1)} /\ forks = <<1>> /\ loaded \in {{}, {1}}
        /\ bindings = <<[mode |-> "FORK", task |-> 1, history |-> Legacy]>>
  /\ archived = {} /\ patch = None /\ drive = Off
  /\ source \in [history : {1}, state : {"idle", "notLoaded"}, capable : BOOLEAN, goal : {FALSE}]
  /\ turns = <<>> /\ faults = 0

-----------------------------------------------------------------------------
(* The drive *)

Stop(status) == run' = [run EXCEPT !.status = status, !.notIdle = FALSE] /\ drive' = Off
GoTo(at) == drive' = [drive EXCEPT !.at = at]

Drive(at) ==
  /\ run.status = "RUNNING" /\ run.request < MaxRequests /\ drive.at = at

\* prepared_completed_pending_action_thread: the answer is known, no task is needed.
ReadEvidence ==
  /\ Drive("off") /\ AnswerKnown
  /\ IF OnItsBinding(pending)
     THEN GoTo("wait") /\ UNCHANGED run
     ELSE Stop("BLOCKED")
  /\ UNCHANGED <<pending, bindings, archived, patch, tasks, turns, faults>>

\* ensure_primary_participant_binding: without a binding the source is read;
\* with one, an unbound row is bound (bind_unsent_primary_pending_to_active_binding).
BindPending ==
  /\ Drive("off") /\ ~AnswerKnown
  /\ \/ /\ bindings = <<>>
        /\ GoTo("source") /\ UNCHANGED <<run, pending>>
     \/ /\ bindings # <<>> /\ OpenGeneration = Active
        /\ GoTo("binding") /\ UNCHANGED <<run, pending>>
     \/ /\ bindings # <<>> /\ OpenGeneration = None /\ pending.task = None
        /\ pending' = [pending EXCEPT !.gen = Active]
        /\ GoTo("binding") /\ UNCHANGED run
     \/ /\ bindings # <<>> /\ OpenGeneration # Active
        /\ (OpenGeneration = None => pending.task # None)
        /\ Stop("BLOCKED") /\ UNCHANGED pending
  /\ UNCHANGED <<bindings, archived, patch, tasks, turns, faults>>

BindingRead ==
  /\ Drive("binding")
  /\ \/ Bound.mode = "DIRECT"
     \/ Bound.history # Legacy /\ Bound.task \in loaded
  /\ GoTo("ready")
  /\ UNCHANGED <<store, tasks, turns, faults>>

\* thread/read fails: the fork is gone, or the connection is.
ForkUnreadable ==
  /\ Drive("binding") /\ Bound.mode = "FORK" /\ Bound.history # Legacy
  /\ IF Bound.task \in loaded THEN Fail ELSE faults' = faults
  /\ IF IF pending = None THEN TRUE ELSE Unsent(pending) /\ pending.gen = Active
     THEN /\ drive' = [drive EXCEPT !.at = "source", !.rotate = IF pending = None THEN None ELSE Active]
          /\ UNCHANGED run
     ELSE Stop("PAUSED")
  /\ UNCHANGED <<pending, bindings, archived, patch, tasks, turns>>

ReplaceLegacyFork ==
  /\ Drive("binding") /\ Bound.mode = "FORK" /\ Bound.history = Legacy
  /\ IF pending = None THEN GoTo("source") /\ UNCHANGED run ELSE Stop("BLOCKED")
  /\ UNCHANGED <<pending, bindings, archived, patch, tasks, turns, faults>>

\* The source is idle: its history is read. It is bound itself if it has the
\* patch tool and nothing else was bound before, and forked otherwise.
SourceIdle ==
  /\ Drive("source") /\ source.state = "idle"
  /\ \/ /\ bindings = <<>> /\ source.capable
        /\ GoTo("direct") /\ UNCHANGED run
     \/ /\ bindings = <<>> /\ ~source.capable /\ pending # None
        /\ Stop("PAUSED")
     \/ /\ IF bindings = <<>> THEN ~source.capable /\ pending = None ELSE TRUE
        /\ drive' = [drive EXCEPT !.at = "fork", !.seen = source.history] /\ UNCHANGED run
  /\ UNCHANGED <<pending, bindings, archived, patch, tasks, turns, faults>>

\* The source is loaded with the patch tool. That it is not idle afterwards
\* stops the replacement of a fork with a diagnostic of its own.
SourceNotLoaded ==
  /\ Drive("source") /\ source.state = "notLoaded"
  /\ \/ /\ source' = [source EXCEPT !.state = "idle", !.capable = TRUE] /\ UNCHANGED <<run, faults>>
        /\ IF bindings = <<>> THEN GoTo("direct")
           ELSE drive' = [drive EXCEPT !.at = "fork", !.seen = source.history]
     \/ /\ Fail /\ drive' = Off /\ UNCHANGED source
        /\ run' = [run EXCEPT !.status = "BLOCKED", !.notIdle = bindings # <<>>]
  /\ UNCHANGED <<pending, bindings, archived, patch, forks, loaded, turns>>

SourceBroken ==
  /\ Drive("source") /\ source.state = "systemError"
  /\ Stop("BLOCKED")
  /\ UNCHANGED <<pending, bindings, archived, patch, tasks, turns, faults>>

\* thread/fork copies what the source holds now; a copy that is not what was
\* read is abandoned.
Fork ==
  /\ Drive("fork") /\ Len(forks) < MaxTasks
  /\ IF source.goal
     THEN Stop("BLOCKED") /\ UNCHANGED <<forks, loaded>>
     ELSE /\ forks' = Append(forks, source.history)
          /\ loaded' = loaded \cup {Len(forks) + 1}
          /\ IF FullHistory(source.history)
             THEN drive' = [drive EXCEPT !.at = "activate", !.fork = Len(forks) + 1] /\ UNCHANGED run
             ELSE Stop("BLOCKED")
  /\ UNCHANGED <<pending, bindings, archived, patch, source, turns, faults>>

\* rotate_ephemeral_primary_binding_for_unsent_pending
Rotate ==
  /\ Drive("activate") /\ drive.rotate # None
  /\ IF /\ Active = drive.rotate /\ Bound.mode = "FORK" /\ Bound.history = drive.seen
        /\ pending # None /\ Unsent(pending) /\ pending.gen = drive.rotate
     THEN /\ bindings' = Append(bindings, [mode |-> "FORK", task |-> drive.fork, history |-> drive.seen])
          /\ pending' = Rebound
          /\ drive' = [Off EXCEPT !.at = "ready"] /\ UNCHANGED run
     ELSE Stop("BLOCKED") /\ UNCHANGED <<pending, bindings>>
  /\ UNCHANGED <<archived, patch, tasks, turns, faults>>

\* activate_primary_binding
Activate ==
  /\ Drive("activate") /\ drive.rotate = None
  /\ IF pending = None /\ SameSource(drive.seen)
     THEN /\ bindings' = Append(bindings, [mode |-> "FORK", task |-> drive.fork, history |-> drive.seen])
          /\ drive' = [Off EXCEPT !.at = "ready"] /\ UNCHANGED run
     ELSE Stop("BLOCKED") /\ UNCHANGED bindings
  /\ UNCHANGED <<pending, archived, patch, tasks, turns, faults>>

\* activate_direct_primary_binding, with the open row of an old release
\* (activate_initial_direct_binding_for_pending_send) or without
ActivateDirect ==
  /\ Drive("direct")
  /\ bindings' = Append(bindings, [mode |-> "DIRECT", task |-> Source, history |-> None])
  /\ pending' = IF pending = None THEN None ELSE [pending EXCEPT !.gen = Active + 1]
  /\ drive' = [Off EXCEPT !.at = "ready"]
  /\ UNCHANGED <<run, archived, patch, tasks, turns, faults>>

\* The task is prepared and the request recorded, unless it was before.
Open ==
  /\ Drive("ready")
  /\ IF Bound.task \notin loaded \cup {Source}
     THEN Stop("PAUSED") /\ UNCHANGED pending
     ELSE /\ pending' = IF pending = None THEN NewRow(Active) ELSE pending
          /\ GoTo("opened") /\ UNCHANGED run
  /\ UNCHANGED <<bindings, archived, patch, tasks, turns, faults>>

\* A turn of the request that is known, or found in the source task's history.
RecoverTurn ==
  /\ Drive("opened")
  /\ \/ pending.turn # None /\ UNCHANGED pending
     \/ /\ pending.turn = None /\ Bound.mode = "DIRECT"
        /\ \E t \in DOMAIN turns :
             /\ turns[t].request = run.request /\ turns[t].task = Source
             /\ \A a \in archived : a.turn # t
             /\ pending' = [pending EXCEPT !.task = Source, !.turn = t]
  /\ GoTo("wait")
  /\ UNCHANGED <<run, bindings, archived, patch, tasks, turns, faults>>

RecordIntent ==
  /\ Drive("opened") /\ pending.turn = None
  /\ \/ /\ Bound.mode = "FORK" /\ pending.intent
        /\ Stop("PAUSED") /\ UNCHANGED pending
     \/ /\ Bound.mode = "FORK" => ~pending.intent
        /\ Bound.mode = "DIRECT" =>
             \A t \in DOMAIN turns : turns[t].request = run.request =>
                                       \E a \in archived : a.turn = t
        /\ pending' = [pending EXCEPT !.intent = TRUE]
        /\ GoTo("send") /\ UNCHANGED run
  /\ UNCHANGED <<bindings, archived, patch, tasks, turns, faults>>

\* turn/start is executed; its answer arrives, or is lost.
StartTurn ==
  /\ Drive("send") /\ Bound.task \in loaded \cup {Source} /\ Len(turns) < MaxTurns
  /\ turns' = Append(turns, [request |-> run.request, task |-> Bound.task,
                             status |-> "inProgress", heard |-> TRUE])
  /\ \/ GoTo("started") /\ UNCHANGED <<run, faults>>
     \/ Fail /\ Stop("PAUSED")
  /\ UNCHANGED <<pending, bindings, archived, patch, tasks>>

StartRefused ==
  /\ Drive("send")
  /\ IF Bound.task \in loaded \cup {Source} THEN Fail ELSE faults' = faults
  /\ Stop("PAUSED")
  /\ UNCHANGED <<pending, bindings, archived, patch, tasks, turns>>

RecordTurn ==
  /\ Drive("started")
  /\ pending' = [pending EXCEPT !.task = Bound.task, !.turn = Len(turns)]
  /\ GoTo("wait")
  /\ UNCHANGED <<run, bindings, archived, patch, tasks, turns, faults>>

Accept ==
  /\ Drive("wait") /\ Heard(pending.turn) /\ turns[pending.turn].status = "completed"
  /\ run' = [run EXCEPT !.request = @ + 1]
  /\ pending' = None /\ patch' = None /\ drive' = Off
  /\ UNCHANGED <<bindings, archived, tasks, turns, faults>>

Refuse ==
  /\ Drive("wait") /\ Heard(pending.turn) /\ turns[pending.turn].status = "completed"
  /\ Stop("BLOCKED")
  /\ UNCHANGED <<pending, bindings, archived, patch, tasks, turns, faults>>

WaitFails ==
  /\ Drive("wait")
  /\ \/ turns[pending.turn].status \in Ended \ {"completed"} /\ faults' = faults
     \/ ~Heard(pending.turn) /\ turns[pending.turn].task \notin loaded \cup {Source} /\ faults' = faults
     \/ Fail
  /\ Stop("PAUSED")
  /\ UNCHANGED <<pending, bindings, archived, patch, tasks, turns>>

\* The controlled patch of the open request (Integration models how).
RecordPatch ==
  /\ Drive("wait") /\ patch = None /\ pending.gen = Active
  /\ turns[pending.turn].status = "inProgress" /\ pending.task = Bound.task
  /\ patch' = Active
  /\ UNCHANGED <<run, pending, bindings, archived, drive, tasks, turns, faults>>

-----------------------------------------------------------------------------
(* Resume. Each of these is one transaction that archives the attempt and     *)
(* keeps the row's generation (archive_and_reset_turn).                       *)

GiveUp(why) ==
  /\ archived' = archived \cup {[request |-> run.request, turn |-> pending.turn, task |-> pending.task, why |-> why]}
  /\ pending' = NewRow(pending.gen)

Resumed == run' = [run EXCEPT !.status = "RUNNING", !.notIdle = FALSE]
ResumeStep == drive = Off /\ UNCHANGED <<bindings, patch, drive, tasks, turns, faults>>

Resume ==
  /\ ResumeStep /\ run.status = "PAUSED" /\ Resumed
  /\ IF pending = None THEN TRUE
     ELSE IF pending.turn = None THEN TRUE
     ELSE /\ OnItsBinding(pending)
          /\ IF Heard(pending.turn) THEN turns[pending.turn].status = "completed" ELSE pending.task = Source
  /\ UNCHANGED <<pending, archived>>

ResetTurn ==
  /\ ResumeStep /\ run.status = "PAUSED" /\ Resumed
  /\ pending # None /\ pending.turn # None /\ Heard(pending.turn) /\ OnItsBinding(pending)
  /\ turns[pending.turn].status \in {"failed", "interrupted"} /\ patch = None
  /\ GiveUp(turns[pending.turn].status)

RetryRefused ==
  /\ ResumeStep /\ run.status = "BLOCKED" /\ ~run.notIdle /\ Resumed
  /\ pending # None /\ pending.turn # None /\ Heard(pending.turn) /\ OnItsBinding(pending)
  /\ turns[pending.turn].status = "completed" /\ PatchKnown(pending, TRUE)
  /\ GiveUp("completed")

AskOnceMore ==
  /\ ResumeStep /\ run.status = "PAUSED" /\ Resumed
  /\ pending # None /\ pending.turn # None /\ ~Heard(pending.turn) /\ OnItsBinding(pending)
  /\ bindings[pending.gen].mode = "FORK" /\ ~Live(pending.task) /\ PatchKnown(pending, FALSE)
  /\ \A a \in archived : a.request = run.request => a.why # "eventless"
  /\ GiveUp("eventless")

\* The confirmation is lost as well: the row becomes the archived attempt's.
RestoreArchived ==
  /\ ResumeStep /\ run.status = "PAUSED" /\ Resumed
  /\ pending # None /\ pending.turn # None /\ ~Heard(pending.turn) /\ OnItsBinding(pending)
  /\ PatchKnown(pending, TRUE)
  /\ \E a \in archived :
       /\ a.request = run.request /\ a.why = "completed" /\ Heard(a.turn)
       /\ \A b \in archived : b.request = run.request /\ b.why = "completed" => b.turn <= a.turn
       /\ pending' = [pending EXCEPT !.task = a.task, !.turn = a.turn, !.intent = FALSE]
       /\ archived' = archived \cup {[request |-> run.request, turn |-> pending.turn, task |-> pending.task, why |-> "unavailable"]}

\* reactivate_blocked_run_with_unsent_ephemeral_recreation_retry
RetryNotIdle ==
  /\ ResumeStep /\ run.status = "BLOCKED" /\ run.notIdle /\ Resumed
  /\ pending # None /\ Unsent(pending) /\ pending.gen = Active
  /\ Bound.mode = "FORK" /\ Bound.history # Legacy /\ patch = Active
  /\ \E a \in archived : a.request = run.request /\ a.task = Bound.task /\ a.why = "completed"
  /\ UNCHANGED <<pending, archived>>

-----------------------------------------------------------------------------
(* The app server, the user and the machine *)

TurnEnds ==
  /\ \E t \in DOMAIN turns : turns[t].status = "inProgress" /\
       \E status \in Ended, heard \in BOOLEAN :
         /\ turns' = [turns EXCEPT ![t].status = status, ![t].heard = heard]
         /\ IF heard THEN faults' = faults ELSE Fail
  /\ UNCHANGED <<store, drive, tasks>>

LoseFork ==
  /\ Fail
  /\ \E f \in loaded :
       /\ loaded' = loaded \ {f}
       /\ turns' = [t \in DOMAIN turns |->
            IF turns[t].task = f /\ turns[t].status = "inProgress"
            THEN [turns[t] EXCEPT !.status = "interrupted", !.heard = FALSE] ELSE turns[t]]
  /\ UNCHANGED <<store, drive, source, forks>>

UserTurn ==
  /\ source.history < MaxHistory /\ source.state = "idle"
  /\ \E goal \in BOOLEAN :
       source' = [source EXCEPT !.history = @ + 1, !.state = "active", !.goal = goal]
  /\ UNCHANGED <<store, drive, forks, loaded, turns, faults>>

UserTurnEnds ==
  /\ source.state = "active"
  /\ \E state \in {"idle", "notLoaded"} : source' = [source EXCEPT !.state = state, !.goal = FALSE]
  /\ UNCHANGED <<store, drive, forks, loaded, turns, faults>>

SourceBreaks ==
  /\ Fail /\ source' = [source EXCEPT !.state = "systemError"]
  /\ UNCHANGED <<store, drive, forks, loaded, turns>>

\* A read fails or a wait takes too long.
DriveFails ==
  /\ Fail /\ drive.at \in {"source", "fork", "ready", "opened"} /\ run.status = "RUNNING"
  /\ Stop("PAUSED")
  /\ UNCHANGED <<pending, bindings, archived, patch, tasks, turns>>

Crash ==
  /\ Fail /\ drive # Off /\ drive' = Off
  /\ UNCHANGED <<store, tasks, turns>>

-----------------------------------------------------------------------------
Prepare ==
  \/ ReadEvidence \/ BindPending \/ BindingRead \/ ForkUnreadable \/ ReplaceLegacyFork
  \/ SourceIdle \/ SourceNotLoaded \/ SourceBroken \/ Fork \/ Rotate \/ Activate \/ ActivateDirect
  \/ Open \/ RecoverTurn \/ RecordIntent

Deliver == StartTurn \/ StartRefused \/ RecordTurn \/ Accept \/ Refuse \/ WaitFails \/ RecordPatch

Recover == Resume \/ ResetTurn \/ RetryRefused \/ AskOnceMore \/ RestoreArchived \/ RetryNotIdle

World == TurnEnds \/ LoseFork \/ UserTurn \/ UserTurnEnds \/ SourceBreaks \/ DriveFails \/ Crash

Next == Prepare \/ Deliver \/ Recover \/ World

Spec == Init /\ [][Next]_vars

-----------------------------------------------------------------------------
(* Properties *)

Rows == [gen : DOMAIN bindings \cup {None}, task : 0..Len(forks) \cup {None},
         turn : DOMAIN turns \cup {None}, intent : BOOLEAN]

TypeOK ==
  /\ run \in [status : {"RUNNING", "PAUSED", "BLOCKED"}, request : 0..MaxRequests, notIdle : BOOLEAN]
  /\ pending \in {row \in Rows : row.task = None <=> row.turn = None} \cup {None}
  /\ \A g \in DOMAIN bindings :
       \/ bindings[g] = [mode |-> "DIRECT", task |-> Source, history |-> None]
       \/ bindings[g] \in [mode : {"FORK"}, task : DOMAIN forks, history : 0..MaxHistory]
  /\ patch \in DOMAIN bindings \cup {None} /\ loaded \subseteq DOMAIN forks
  /\ drive.fork \in DOMAIN forks \cup {None} /\ drive.rotate \in DOMAIN bindings \cup {None}

\* An open request belongs to the active generation: rotation and request move
\* together, whatever stops the drive (docs/compatibility.md: the daemon rotates
\* the binding and rebinds the request atomically).
PendingOnActive == pending # None => pending.gen \in {None, Active}

\* A fork is bound with the history it really has, although the user may have gone on in
\* the source task between the read and the fork, and all generations of a run mirror
\* the same one.
MirrorIsExact ==
  LET mirrors == {g \in DOMAIN bindings : bindings[g].history \notin {None, Legacy}} IN
  \A g, h \in mirrors :
    /\ forks[bindings[g].task] = bindings[g].history
    /\ bindings[g].history = bindings[h].history

\* A request leaves no turn behind: one that was started on a task that is no
\* longer the Primary was given up on the record before the binding moved.
NoTurnLeftBehind ==
  \A t \in DOMAIN turns :
    turns[t].request = run.request /\ bindings # <<>> /\ turns[t].task # Bound.task =>
      \E a \in archived : a.turn = t

\* The turn that a row names ran on the task of the row's generation, or no
\* drive and no recovery will read it (CHANGELOG.md: the archived integration
\* turn is replayed on the same run).
RowMatchesBinding == pending # None /\ pending.turn # None => OnItsBinding(pending)

=============================================================================
