---------------------------- MODULE TurnDelivery ----------------------------
(***************************************************************************)
(* How one run's requests reach a task and how their answers come back     *)
(* (drive_model_action, prepare_terminal_turn_retry, the rows of turns and *)
(* turn_attempts).  turn/start is not idempotent: its answer may be lost,  *)
(* the daemon may crash around it, turns fail, and a user works in the     *)
(* same thread.  A stored thread is read again to find a turn that carries *)
(* the hash of the request; an ephemeral thread has no history to read, so *)
(* an intent recorded before the send forbids to send again.               *)
(*                                                                         *)
(* Request number n is pending after n accepted answers.  Drives and       *)
(* resumes do not overlap here (Daemon models their overlap).              *)
(***************************************************************************)
EXTENDS Naturals, Sequences, FiniteSets

CONSTANTS
  Last,         \* answers the run needs
  MaxFailures,  \* bound: failed waits, turns and answers, and turns of the user
  MaxCrashes,   \* bound: crashes of the daemon
  None          \* no turn

ASSUME DeliveryAssumption ==
  /\ Last \in Nat \ {0}
  /\ MaxFailures \in Nat /\ MaxCrashes \in Nat /\ None \notin Nat

VARIABLES
  ephemeral, \* the task is an ephemeral fork
  row,       \* runs: status and accepted answers
  turn,      \* turns: per request, delivery_state, turn_id and turn_start_intent_at
  archived,  \* turn_attempts: turn ids of each request that were given up
  evidence,  \* turn_event_completions: turns with a durable turn/completed
  drive,     \* the drive: program counter, turn found, task active at the read
  resume,    \* prepare_resume: program counter
  thread,    \* external: turns of the task; a turn's id is its position
  wire,      \* external: turn/start requests sent and not executed
  reply,     \* external: the turn that answers the last turn/start, or None
  sent,      \* turn/start requests sent so far
  failures, crashes

store == <<ephemeral, row, turn, archived, evidence>>
app   == <<thread, wire, reply>>
vars  == <<ephemeral, row, turn, archived, evidence, drive, resume, thread, wire, reply, sent,
           failures, crashes>>

Requests == 0..Last - 1
NoTurn   == [state |-> "NONE", id |-> None, intent |-> FALSE]
Idle     == [at |-> "idle", found |-> None, busy |-> FALSE]
Waits    == {"prepare", "read", "send", "answer", "wait"}  \* steps of drive that await the app server
Ended    == {"completed", "failed", "interrupted"}

Current == row.answers
Ids     == DOMAIN thread

-----------------------------------------------------------------------------
(* What the store and the app server tell *)

\* summary.is_active: some turn of the task, also one of the user, is running.
TaskActive == \E i \in Ids : thread[i].status = "inProgress"

\* Finds a turn that was given up.
FindTurnMutant(m) ==
  LET live == {i \in Ids : thread[i].request = m}
  IN IF live = {} THEN None ELSE CHOOSE i \in live : \A j \in live : j <= i

\* find_turn_by_request_hash: the latest turn that carries the hash of the
\* request and was not given up.
FindTurn(m) ==
  LET live == {i \in Ids : thread[i].request = m /\ i \notin archived[m]}
  IN IF live = {} THEN None ELSE CHOOSE i \in live : \A j \in live : j <= i

\* Trusts the recorded turn only.
RecoveredMutant(m) == turn[m].id

\* The turn drive recovers: the recorded one, or for a stored task the one in
\* its history.
Recovered(m) ==
  IF turn[m].id # None \/ ephemeral THEN turn[m].id ELSE FindTurn(m)

\* How a recorded turn ended, as far as drive may know it: canonical history,
\* or durable evidence for an ephemeral task.
Observed(i) ==
  IF ~ephemeral THEN thread[i].status
  ELSE IF i \in evidence THEN thread[i].status ELSE "inProgress"

\* Does not look at what the turn did.
RetryableMutant(i) == Observed(i) \in {"failed", "interrupted"}

\* terminal_turn_retry_blocker finds no item with side effects.
Retryable(i) == Observed(i) \in {"failed", "interrupted"} /\ ~thread[i].effects

\* accept_response_and_advance counts the answer.
Advanced(r) == [r EXCEPT !.answers = @ + 1]

\* Keeps no record of the attempt.
GiveUpMutant(m) ==
  /\ turn[m].state = "SENT"
  /\ archived' = archived
  /\ turn' = [turn EXCEPT ![m] = [state |-> "PENDING", id |-> None, intent |-> FALSE]]

\* archive_and_reset_turn: the attempt is given up and the request is pending
\* again under the same hash.
GiveUp(m) ==
  /\ turn[m].state = "SENT"
  /\ archived' = [archived EXCEPT ![m] = @ \cup {turn[m].id}]
  /\ turn' = [turn EXCEPT ![m] = [state |-> "PENDING", id |-> None, intent |-> FALSE]]

-----------------------------------------------------------------------------
Init ==
  /\ ephemeral \in BOOLEAN
  /\ row = [status |-> "RUNNING", answers |-> 0]
  /\ turn = [m \in Requests |-> NoTurn] /\ archived = [m \in Requests |-> {}]
  /\ evidence = {} /\ drive = Idle /\ resume = "idle"
  /\ thread = <<>> /\ wire = {} /\ reply = None
  /\ sent = 0 /\ failures = 0 /\ crashes = 0

Fail == failures < MaxFailures /\ failures' = failures + 1

Goto(at) == drive' = [drive EXCEPT !.at = at]

-----------------------------------------------------------------------------
(* The drive *)

\* drive takes up a running run; prepare_action_thread comes first.
BeginStep ==
  /\ drive.at = "idle" /\ row.status = "RUNNING" /\ Current \in Requests
  /\ drive' = [Idle EXCEPT !.at = "prepare"]
  /\ UNCHANGED <<store, resume, app, sent, failures, crashes>>

\* wait_until_idle ends. A recorded turn whose completion is durable needs no
\* idle task (prepared_completed_pending_action_thread).
TaskPrepared ==
  /\ drive.at = "prepare"
  /\ ~TaskActive \/ turn[Current].id \in evidence
  /\ Goto("record")
  /\ UNCHANGED <<store, resume, app, sent, failures, crashes>>

\* record_pending_send: nothing is changed when the row exists.
RecordPendingSend ==
  /\ drive.at = "record" /\ turn[Current].state # "ACCEPTED"
  /\ turn' = IF turn[Current].state = "NONE"
             THEN [turn EXCEPT ![Current].state = "PENDING"] ELSE turn
  /\ Goto("read")
  /\ UNCHANGED <<ephemeral, row, archived, evidence, resume, app, sent, failures, crashes>>

\* read_thread_with_retry (its summary for an ephemeral task), and the search for a turn
\* that this request started.  Assumed of a stored task only: a turn/start whose answer
\* was lost is executed before the next thread/read, or never.
ReadThread ==
  /\ drive.at = "read" /\ (ephemeral \/ wire = {})
  /\ drive' = [at |-> "decide", found |-> Recovered(Current), busy |-> TaskActive]
  /\ UNCHANGED <<store, resume, app, sent, failures, crashes>>

\* record_recovered_turn_started
RecordRecoveredTurn ==
  /\ drive.at = "decide" /\ drive.found # None
  /\ turn' = [turn EXCEPT ![Current].state = "SENT", ![Current].id = drive.found]
  /\ Goto("wait")
  /\ UNCHANGED <<ephemeral, row, archived, evidence, resume, app, sent, failures, crashes>>

\* An ephemeral task may have received a request whose turn is not known:
\* automatic resend is forbidden.
Uncertain(m) == ephemeral /\ turn[m].intent

DeliveryUncertain ==
  /\ drive.at = "decide" /\ drive.found = None /\ Uncertain(Current)
  /\ row' = [row EXCEPT !.status = "PAUSED"]
  /\ drive' = Idle
  /\ UNCHANGED <<ephemeral, turn, archived, evidence, resume, app, sent, failures, crashes>>

\* The task became active although no turn of this request is known:
\* HISTORY_UNAVAILABLE blocks the run.
TaskBecameActive ==
  /\ drive.at = "decide" /\ drive.found = None /\ ~Uncertain(Current) /\ drive.busy
  /\ row' = [row EXCEPT !.status = "BLOCKED"]
  /\ drive' = Idle
  /\ UNCHANGED <<ephemeral, turn, archived, evidence, resume, app, sent, failures, crashes>>

\* record_turn_start_intent
RecordIntent ==
  /\ drive.at = "decide" /\ drive.found = None /\ ~Uncertain(Current) /\ ~drive.busy
  /\ turn' = [turn EXCEPT ![Current].intent = TRUE]
  /\ Goto("send")
  /\ UNCHANGED <<ephemeral, row, archived, evidence, resume, app, sent, failures, crashes>>

\* start_turn writes its request.
SendTurnStart ==
  /\ drive.at = "send"
  /\ sent' = sent + 1
  /\ wire' = wire \cup {[request |-> Current, number |-> sent + 1]}
  /\ Goto("answer")
  /\ UNCHANGED <<store, resume, thread, reply, failures, crashes>>

\* The answer of turn/start, and record_turn_started.
TurnStarted ==
  /\ drive.at = "answer" /\ reply # None
  /\ turn' = [turn EXCEPT ![Current].state = "SENT", ![Current].id = reply]
  /\ reply' = None
  /\ Goto("wait")
  /\ UNCHANGED <<ephemeral, row, archived, evidence, resume, thread, wire, sent, failures, crashes>>

\* The app server refuses turn/start: COMMUNICATION_FAILURE.
StartRefused ==
  /\ Fail
  /\ drive.at = "answer"
  /\ \E w \in wire : w.number = sent /\ wire' = wire \ {w}
  /\ row' = [row EXCEPT !.status = "PAUSED"]
  /\ drive' = Idle
  /\ UNCHANGED <<ephemeral, turn, archived, evidence, resume, thread, reply, sent, crashes>>

\* consume_turn_event: turn/completed of the turn that is waited for. Events
\* may also be missed, after a crash, a lost connection, or by another drive.
RecordCompletion ==
  /\ drive.at = "wait" /\ thread[turn[Current].id].status \in Ended
  /\ turn[Current].id \notin evidence
  /\ evidence' = evidence \cup {turn[Current].id}
  /\ UNCHANGED <<ephemeral, row, turn, archived, drive, resume, app, sent, failures, crashes>>

\* The completed turn's answer passes every check: accept_response_and_advance.
AcceptResponse ==
  /\ drive.at = "wait" /\ Observed(turn[Current].id) = "completed"
  /\ turn' = [turn EXCEPT ![Current].state = "ACCEPTED"]
  /\ row' = Advanced(row)
  /\ drive' = Idle
  /\ UNCHANGED <<ephemeral, archived, evidence, resume, app, sent, failures, crashes>>

\* The answer is refused: INVALID_RESPONSE blocks the run.
RefuseResponse ==
  /\ Fail
  /\ drive.at = "wait" /\ Observed(turn[Current].id) = "completed"
  /\ row' = [row EXCEPT !.status = "REFUSED"]
  /\ drive' = Idle
  /\ UNCHANGED <<ephemeral, turn, archived, evidence, resume, app, sent, crashes>>

\* The turn ended without an answer: COMMUNICATION_FAILURE.
TurnFailed ==
  /\ drive.at = "wait" /\ Observed(turn[Current].id) \in {"failed", "interrupted"}
  /\ row' = [row EXCEPT !.status = "PAUSED"]
  /\ drive' = Idle
  /\ UNCHANGED <<ephemeral, turn, archived, evidence, resume, app, sent, failures, crashes>>

\* The connection is lost or a wait times out; an answer of turn/start that was
\* on its way is lost with it.
CommunicationFails ==
  /\ Fail
  /\ drive.at \in Waits
  /\ row' = [row EXCEPT !.status = "PAUSED"]
  /\ drive' = Idle /\ reply' = None
  /\ UNCHANGED <<ephemeral, turn, archived, evidence, resume, thread, wire, sent, crashes>>

-----------------------------------------------------------------------------
(* Resume after COMMUNICATION_FAILURE or a refused answer *)

\* prepare_terminal_turn_retry: a recorded turn that failed must be free of side
\* effects; one of an ephemeral task must have durable evidence. Otherwise the
\* resume is refused.
Inspect ==
  /\ resume = "idle" /\ row.status = "PAUSED" /\ Current \in Requests
  /\ LET id == turn[Current].id IN
       \/ id = None /\ resume' = "save"
       \/ id # None /\ Retryable(id) /\ resume' = "reset"
       \/ /\ id # None /\ Observed(id) \notin {"failed", "interrupted"}
          /\ ephemeral => id \in evidence
          /\ resume' = "save"
  /\ UNCHANGED <<store, drive, app, sent, failures, crashes>>

\* reset_terminal_turn_for_retry
ResetTurn ==
  /\ resume = "reset"
  /\ GiveUp(Current)
  /\ resume' = "save"
  /\ UNCHANGED <<ephemeral, row, evidence, drive, app, sent, failures, crashes>>

SaveResume ==
  /\ resume = "save"
  /\ row' = [row EXCEPT !.status = "RUNNING"]
  /\ resume' = "idle"
  /\ UNCHANGED <<ephemeral, turn, archived, evidence, drive, app, sent, failures, crashes>>

\* reactivate_blocked_run_with_completed_turn_retry: run and turn in one
\* transaction, after the completed turn was found free of side effects.
RetryRefused ==
  /\ resume = "idle" /\ row.status = "REFUSED"
  /\ Observed(turn[Current].id) = "completed" /\ ~thread[turn[Current].id].effects
  /\ GiveUp(Current)
  /\ row' = [row EXCEPT !.status = "RUNNING"]
  /\ UNCHANGED <<ephemeral, evidence, drive, resume, app, sent, failures, crashes>>

Crash ==
  /\ crashes < MaxCrashes /\ crashes' = crashes + 1
  /\ drive' = Idle /\ resume' = "idle" /\ reply' = None
  /\ UNCHANGED <<store, thread, wire, sent, failures>>

-----------------------------------------------------------------------------
(* The app server and the user of the task *)

\* A turn/start is executed; its answer is delivered if drive still waits for it.
ExecuteTurnStart ==
  /\ \E w \in wire :
       /\ wire' = wire \ {w}
       /\ thread' = Append(thread, [request |-> w.request, status |-> "inProgress", effects |-> FALSE])
       /\ reply' = IF drive.at = "answer" /\ w.number = sent THEN Len(thread) + 1 ELSE reply
  /\ UNCHANGED <<store, drive, resume, sent, failures, crashes>>

\* A request whose connection was lost never reaches the app server.
LoseTurnStart ==
  /\ \E w \in wire :
       /\ drive.at # "answer" \/ w.number # sent
       /\ wire' = wire \ {w}
  /\ UNCHANGED <<store, drive, resume, thread, reply, sent, failures, crashes>>

TurnCompletes ==
  /\ \E i \in Ids, effects \in BOOLEAN :
       /\ thread[i].status = "inProgress"
       /\ thread' = [thread EXCEPT ![i].status = "completed", ![i].effects = effects]
  /\ UNCHANGED <<store, drive, resume, wire, reply, sent, failures, crashes>>

TurnBreaks ==
  /\ Fail
  /\ \E i \in Ids, effects \in BOOLEAN, status \in {"failed", "interrupted"} :
       /\ thread[i].status = "inProgress"
       /\ thread' = [thread EXCEPT ![i].status = status, ![i].effects = effects]
  /\ UNCHANGED <<store, drive, resume, wire, reply, sent, crashes>>

\* The user starts a turn of their own.
UserTurn ==
  /\ Fail
  /\ ~TaskActive
  /\ thread' = Append(thread, [request |-> None, status |-> "inProgress", effects |-> FALSE])
  /\ UNCHANGED <<store, drive, resume, wire, reply, sent, crashes>>

-----------------------------------------------------------------------------
Drive ==
  \/ BeginStep \/ TaskPrepared \/ RecordPendingSend \/ ReadThread
  \/ RecordRecoveredTurn \/ DeliveryUncertain \/ TaskBecameActive
  \/ RecordIntent \/ SendTurnStart \/ TurnStarted \/ RecordCompletion
  \/ AcceptResponse \/ TurnFailed

Resume == Inspect \/ ResetTurn \/ SaveResume \/ RetryRefused

AppServer == ExecuteTurnStart \/ LoseTurnStart \/ TurnCompletes

Faults == StartRefused \/ RefuseResponse \/ CommunicationFails \/ Crash \/ TurnBreaks \/ UserTurn

Next == Drive \/ Resume \/ AppServer \/ Faults

Spec == Init /\ [][Next]_vars

\* The daemon works on a running run, the app server executes what it received
\* and ends its turns, and the user resumes a paused run. Faults stop some time.
FairSpec == Spec /\ WF_vars(Drive) /\ WF_vars(Resume) /\ WF_vars(AppServer)

-----------------------------------------------------------------------------
(* Properties *)

TypeOK ==
  /\ ephemeral \in BOOLEAN
  /\ row \in [status: {"RUNNING", "PAUSED", "BLOCKED", "REFUSED"}, answers: 0..Last]
  /\ DOMAIN turn = Requests
  /\ \A m \in Requests :
       /\ turn[m].state \in {"NONE", "PENDING", "SENT", "ACCEPTED"}
       /\ turn[m].id \in Ids \cup {None} /\ turn[m].intent \in BOOLEAN
  /\ archived \in [Requests -> SUBSET Ids] /\ evidence \subseteq Ids
  /\ drive.at \in Waits \cup {"idle", "record", "decide"}
  /\ drive.found \in Ids \cup {None} /\ drive.busy \in BOOLEAN
  /\ resume \in {"idle", "reset", "save"}
  /\ \A i \in Ids : thread[i] \in [request: Requests \cup {None},
                                   status: Ended \cup {"inProgress"}, effects: BOOLEAN]
  /\ wire \subseteq [request: Requests, number: 1..sent]
  /\ reply \in Ids \cup {None}

\* Deliveries of a request that may still be answered: turns that were not given
\* up, and a turn/start that may still be executed.
Open(m) ==
  Cardinality({i \in Ids : thread[i].request = m /\ i \notin archived[m]})
    + Cardinality({w \in wire : w.request = m})

\* A request is never delivered again while an earlier delivery may still be
\* answered, whatever answer was lost and whenever the daemon crashed
\* (docs/compatibility.md: left to pending-send recovery instead of being duplicated).
DeliveredOnce == \A m \in Requests : Open(m) <= 1

\* Work is not repeated: only turns without side effects are given up
\* (terminal_turn_retry_blocker), and only when they are over.
GivenUpSafely ==
  \A m \in Requests : \A i \in archived[m] :
    /\ thread[i].request = m
    /\ thread[i].status \in Ended /\ ~thread[i].effects

\* The answers that are accepted are those of the completed turns that carry
\* the request: not of the user's turn, of another request's, or of one that
\* was given up; and every answered request is behind the row's count.
AcceptedTurnAnswers ==
  \A m \in Requests :
    /\ turn[m].state = "ACCEPTED" <=> m < row.answers
    /\ turn[m].state = "ACCEPTED" =>
         LET i == turn[m].id IN
         /\ i \in Ids /\ i \notin archived[m]
         /\ thread[i].request = m /\ thread[i].status = "completed"

\* What only a person can decide: the task was used by somebody else, a turn
\* with side effects broke or was refused.
HeldForCause ==
  \/ row.status = "BLOCKED"
  \/ /\ row.status \in {"PAUSED", "REFUSED"} /\ turn[Current].id # None
     /\ thread[turn[Current].id].status \in Ended /\ thread[turn[Current].id].effects

\* No request of a stored task is lost: once the faults have stopped and paused
\* runs are resumed, all requests are answered or the run is held for a cause.
AllAnswered == <>[](ephemeral \/ row.answers = Last \/ HeldForCause)

=============================================================================
