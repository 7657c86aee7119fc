------------------------------ MODULE RunEvents ------------------------------
(***************************************************************************)
(* The public story of a run. Every save of the run appends one event to   *)
(* run_events in the same transaction; a client follows it with            *)
(* wait_for_run_events, which reads the events after the client's cursor   *)
(* and then, in a second transaction, the run's row and latest cursor.     *)
(*                                                                         *)
(* The launcher follows the instructions of the skill, the watch command   *)
(* its own loop. A run is abstracted to what classify_event compares.      *)
(***************************************************************************)
EXTENDS Naturals, Sequences, FiniteSets

CONSTANTS
  MaxBatch,    \* MAX_EVENT_BATCH
  MaxEvents,   \* bound: events of all runs
  MaxShas,     \* bound: integration results
  MaxOther,    \* bound: events of other runs
  MaxLost,     \* bound: answers that a client never gets
  Clients,     \* clients that follow the run, each a launcher or a watch command
  None

VARIABLES
  run,      \* runs: what an event may tell of
  log,      \* run_events, with the cursor as index
  client,   \* by client: whether it is a watch, step, cursor, batch, row read, events seen
  faults

runEventsVars == <<run, log, client, faults>>

Stopped  == [ACCEPTED |-> "accepted", BLOCKED |-> "blocked", PAUSED |-> "paused_user_action",
             CANCELLED |-> "cancelled", INCOMPATIBLE |-> "incompatible_codex"]
Terminal == {"ACCEPTED", "BLOCKED", "CANCELLED", "INCOMPATIBLE"}

Actions == {"contract1", "contract2", "plan", "verdict", "integrate", "verify", "review", "accept", "stop"}

Statuses == {"RUNNING", "WAITING"} \cup DOMAIN Stopped

\* The fields of a run that classify_event compares, with the task's own step and the
\* step a blocked run goes back to; and the answers of public_run_snapshot.
Runs == [status : Statuses, action : Actions, back : Actions \cup {None}, contracts : 0..2,
         plan : Nat, planFeedback : Nat, approved : BOOLEAN, sha : Nat, workspace : BOOLEAN,
         evidence : {"none", "passed", "failed"}, feedback : Nat]

Snapshots == [latest : Nat, status : Statuses]

ASSUME EventsAssumption ==
  /\ MaxBatch \in Nat \ {0} /\ MaxEvents \in Nat \ {0} /\ MaxShas \in Nat
  /\ MaxOther \in Nat /\ MaxLost \in Nat
  /\ None \notin Runs \cup Snapshots \cup Actions

-----------------------------------------------------------------------------
(* Events *)

\* Asks for the evidence first.
RuleOrderMutant ==
  <<"primary_contract_ready", "reviewer_contract_ready", "plan_proposed", "plan_changes_required",
    "plan_approved", "verification_failed", "verification_passed", "integration_ready",
    "result_changes_required", "result_approved", "waiting_for_task", "task_completed", "state_changed">>

\* classify_event tries its rules in this order: a new commit also clears the evidence
\* of the one before.
RuleOrder ==
  <<"primary_contract_ready", "reviewer_contract_ready", "plan_proposed", "plan_changes_required",
    "plan_approved", "integration_ready", "verification_failed", "verification_passed",
    "result_changes_required", "result_approved", "waiting_for_task", "task_completed", "state_changed">>

Applies(kind, before, now) ==
  \/ kind = "primary_contract_ready" /\ before.contracts = 0 /\ now.contracts > 0
  \/ kind = "reviewer_contract_ready" /\ before.contracts < 2 /\ now.contracts = 2
  \/ kind = "plan_proposed" /\ before.plan # now.plan
  \/ kind = "plan_changes_required" /\ before.planFeedback # now.planFeedback
  \/ kind = "plan_approved" /\ before.approved # now.approved
  \/ kind = "integration_ready" /\ before.sha # now.sha
  \/ kind = "verification_failed" /\ before.evidence # now.evidence /\ now.evidence = "failed"
  \/ kind = "verification_passed" /\ before.evidence # now.evidence /\ now.evidence # "failed"
  \/ kind = "result_changes_required" /\ before.feedback # now.feedback
  \/ kind = "result_approved" /\ before.action # "accept" /\ now.action = "accept"
  \/ kind = "waiting_for_task" /\ before.status # now.status /\ now.status = "WAITING"
  \/ kind = "task_completed" /\ before.status # now.status /\ now.status = "RUNNING"
  \/ kind = "state_changed"

\* The n-th rule applies and none before it.
Chosen(n, before, now) ==
  /\ Applies(RuleOrder[n], before, now)
  /\ \A m \in 1..n - 1 : ~Applies(RuleOrder[m], before, now)

Kind(before, now) ==
  IF now.status \in DOMAIN Stopped THEN Stopped[now.status]
  ELSE IF before = None THEN "run_started"
  ELSE RuleOrder[CHOOSE n \in DOMAIN RuleOrder : Chosen(n, before, now)]

ProgressEvent(before, now) ==
  [own |-> TRUE, kind |-> Kind(before, now), status |-> now.status, sha |-> now.sha, evidence |-> now.evidence]

\* update_run_row: the row and, if it changed, its event.
Saved(now) ==
  /\ run' = now
  /\ log' = IF now = run THEN log ELSE Append(log, ProgressEvent(run, now))

-----------------------------------------------------------------------------
(* The run: what its saves change (RunState models when). *)

NewRun == [status |-> "RUNNING", action |-> "contract1", back |-> None, contracts |-> 0, plan |-> 0,
           planFeedback |-> 0, approved |-> FALSE, sha |-> 0, workspace |-> FALSE,
           evidence |-> "none", feedback |-> 0]

\* A run of a release without events, before its first integration or after one whose
\* tests failed.
OldRun(status, sha) ==
  [NewRun EXCEPT !.status = status, !.action = IF status = "BLOCKED" THEN "stop" ELSE "integrate",
                 !.back = IF status = "BLOCKED" THEN "integrate" ELSE None,
                 !.contracts = 2, !.plan = 1, !.approved = TRUE, !.sha = sha,
                 !.workspace = (sha = 1), !.evidence = IF sha = 1 THEN "failed" ELSE "none",
                 !.feedback = sha]

\* A new run, or an old one, which gets an event when the store is opened
\* (backfill_run_events).
RunEventsInit ==
  /\ run \in {NewRun} \cup {OldRun(status, sha) : status \in {"WAITING", "BLOCKED"}, sha \in {0, 1}}
  /\ log = <<ProgressEvent(None, run)>>
  /\ \E watch \in [Clients -> BOOLEAN] :
       client = [c \in Clients |-> [watch |-> watch[c], at |-> "ask", cursor |-> 0, events |-> <<>>,
                                   row |-> None, seen |-> <<>>]]
  /\ faults = 0

Save(at, now) ==
  /\ run.action = at /\ run.status = "RUNNING" /\ Len(log) < MaxEvents
  /\ Saved(now) /\ UNCHANGED <<client, faults>>

\* A payload is new, or the same once more.
Payloads(version) == {version + 1} \cup ({version} \ {0})

AcceptContract ==
  \/ Save("contract1", [run EXCEPT !.contracts = 1, !.action = "contract2"])
  \/ Save("contract2", [run EXCEPT !.contracts = 2, !.action = "plan"])

AcceptPlan ==
  \E plan \in Payloads(run.plan) :
    Save("plan", [run EXCEPT !.plan = plan, !.action = "verdict"])

ApprovePlan == Save("verdict", [run EXCEPT !.approved = TRUE, !.action = "integrate"])

RejectPlan ==
  \E feedback \in Payloads(run.planFeedback) :
    Save("verdict", [run EXCEPT !.planFeedback = feedback, !.action = "plan"])

\* The result, with the evidence and the workspace of the one before cleared.
AcceptIntegration ==
  /\ run.sha < MaxShas
  /\ Save("integrate", [run EXCEPT !.sha = @ + 1, !.workspace = FALSE, !.evidence = "none", !.action = "verify"])

PrepareWorkspace == Save("verify", [run EXCEPT !.workspace = TRUE])

\* A failure asks for a correction, or blocks the run at the round limit.
AcceptVerification ==
  /\ run.workspace
  /\ \/ Save("verify", [run EXCEPT !.evidence = "passed", !.action = "review"])
     \/ Save("verify", [run EXCEPT !.evidence = "failed", !.feedback = @ + 1, !.action = "integrate"])
     \/ Save("verify", [run EXCEPT !.evidence = "failed", !.feedback = @ + 1, !.action = "stop", !.status = "BLOCKED"])

RejectResult ==
  \E feedback \in Payloads(run.feedback) :
    Save("review", [run EXCEPT !.feedback = feedback, !.action = "integrate"])

ApproveResult == Save("review", [run EXCEPT !.action = "accept"])

Accept == Save("accept", [run EXCEPT !.status = "ACCEPTED", !.action = "stop"])

\* The task of the pending request is busy, or idle again.
WaitForTask ==
  /\ Len(log) < MaxEvents /\ UNCHANGED <<client, faults>>
  /\ \/ run.status = "RUNNING" /\ Saved([run EXCEPT !.status = "WAITING"])
     \/ run.status = "WAITING" /\ Saved([run EXCEPT !.status = "RUNNING"])

Stop ==
  /\ run.status \in {"RUNNING", "WAITING"} /\ Len(log) < MaxEvents
  /\ \/ Saved([run EXCEPT !.status = "PAUSED"])
     \/ \E status \in {"BLOCKED", "INCOMPATIBLE"} :
          Saved([run EXCEPT !.status = status, !.back = IF status = "BLOCKED" THEN run.action ELSE None,
                            !.action = "stop"])
  /\ UNCHANGED <<client, faults>>

CancelRun ==
  /\ run.status # "ACCEPTED" /\ Len(log) < MaxEvents
  /\ Saved([run EXCEPT !.status = "CANCELLED", !.action = "stop"])
  /\ UNCHANGED <<client, faults>>

\* resume, and the retries of a blocked request
ResumeRun ==
  /\ Len(log) < MaxEvents /\ UNCHANGED <<client, faults>>
  /\ \/ run.status = "PAUSED" /\ Saved([run EXCEPT !.status = "RUNNING"])
     \/ /\ run.status = "BLOCKED" /\ run.back # None
        /\ Saved([run EXCEPT !.status = "RUNNING", !.action = run.back, !.back = None])

OtherRun ==
  /\ Len(log) < MaxEvents
  /\ Cardinality({n \in DOMAIN log : ~log[n].own}) < MaxOther
  /\ log' = Append(log, [own |-> FALSE])
  /\ UNCHANGED <<run, client, faults>>

-----------------------------------------------------------------------------
(* wait_for_run_events *)

\* Cursors of the run's events.
Own(low, high) == {n \in low..high : log[n].own}

Latest == CHOOSE n \in Own(1, Len(log)) : \A m \in Own(1, Len(log)) : m <= n

\* The sequence has the cursors of the set, each once and in order.
Lists(cursors, set) ==
  /\ {cursors[i] : i \in DOMAIN cursors} = set
  /\ \A i, j \in DOMAIN cursors : i < j => cursors[i] < cursors[j]

\* run_events_after: the next MaxBatch events, or all if there are fewer.
EventsAfter(cursor) ==
  LET all == Own(cursor + 1, Len(log)) IN
  {batch \in UNION {[1..length -> all] : length \in 0..MaxBatch} :
     Lists(batch, IF Len(batch) < MaxBatch THEN all ELSE Own(cursor + 1, batch[MaxBatch]))}

ReadEvents(c) ==
  /\ client[c].at = "ask"
  /\ \E batch \in EventsAfter(client[c].cursor) :
       client' = [client EXCEPT ![c].at = "row", ![c].events = batch]
  /\ UNCHANGED <<run, log, faults>>

Responds(c, timedOut) == client[c].events # <<>> \/ run.status \in Terminal \/ timedOut

NextCursor(c) == IF client[c].events = <<>> THEN client[c].cursor ELSE client[c].events[Len(client[c].events)]

\* A full batch may not be all.
HasMoreMutant(c) == Len(client[c].events) = MaxBatch

\* The newest event counts as more.
HasMoreAtLatest(c) == client[c].row.latest >= NextCursor(c)

HasMore(c) == client[c].row.latest > NextCursor(c)

\* public_run_snapshot, and the answer or another poll
ReadRow(c) ==
  /\ client[c].at = "row"
  /\ \E timedOut \in BOOLEAN :
       client' = IF Responds(c, timedOut)
                 THEN [client EXCEPT ![c].at = "answer", ![c].row = [latest |-> Latest, status |-> run.status]]
                 ELSE [client EXCEPT ![c].at = "ask"]
  /\ UNCHANGED <<run, log, faults>>

\* watch_run stops with the run; the launcher asks as long as there is more.
Satisfied(c) ==
  /\ client[c].row.status \in Terminal \cup {"PAUSED"}
  /\ client[c].watch \/ ~HasMore(c)

Advanced(c) == NextCursor(c)

\* A client that is satisfied keeps the row it was given.
Receive(c) ==
  /\ client[c].at = "answer"
  /\ client' = [client EXCEPT ![c].at = IF Satisfied(c) THEN "done" ELSE "ask",
                              ![c].row = IF Satisfied(c) THEN @ ELSE None,
                              ![c].cursor = Advanced(c),
                              ![c].seen = @ \o client[c].events, ![c].events = <<>>]
  /\ UNCHANGED <<run, log, faults>>

\* The daemon, the connection or the client stops: the same cursor is asked again.
Interrupt(c) ==
  /\ faults < MaxLost /\ faults' = faults + 1
  /\ client[c].at \in {"row", "answer"}
  /\ client' = [client EXCEPT ![c].at = "ask", ![c].events = <<>>, ![c].row = None]
  /\ UNCHANGED <<run, log>>

\* After the user resumed or cancelled the run.
FollowAgain(c) ==
  /\ client[c].at = "done" /\ client[c].cursor < Latest
  /\ client' = [client EXCEPT ![c].at = "ask", ![c].row = None]
  /\ UNCHANGED <<run, log, faults>>

-----------------------------------------------------------------------------
RunStep ==
  \/ AcceptContract \/ AcceptPlan \/ ApprovePlan \/ RejectPlan \/ AcceptIntegration
  \/ PrepareWorkspace \/ AcceptVerification \/ RejectResult \/ ApproveResult \/ Accept
  \/ WaitForTask \/ Stop \/ CancelRun \/ ResumeRun \/ OtherRun

Follow(c) == ReadEvents(c) \/ ReadRow(c) \/ Receive(c) \/ FollowAgain(c)

RunEventsNext == RunStep \/ \E c \in Clients : Follow(c) \/ Interrupt(c)

\* The polls of a client go on; nothing is assumed of the run.
RunEventsSpec == RunEventsInit /\ [][RunEventsNext]_runEventsVars /\ \A c \in Clients : WF_runEventsVars(Follow(c))

-----------------------------------------------------------------------------
(* Properties *)

RunEventsTypeOK ==
  /\ run \in Runs
  /\ log[1].own /\ \A n \in 2..Len(log) : log[n].own => log[n].kind # "run_started"
  /\ \A c \in Clients :
       /\ client[c].at \in {"ask", "row", "answer", "done"}
       /\ client[c].cursor \in 0..Len(log) /\ Len(client[c].events) <= MaxBatch
       /\ (client[c].row = None) <=> client[c].at \in {"ask", "row"}

\* A client that stops has seen the events of its run up to its cursor, once and in
\* order, across batches, interruptions and events of other runs. A launcher has then
\* seen all up to the snapshot it was given, and the last one tells the state of that
\* snapshot: events and row are read in two transactions, between which the run may go on.
LauncherSeesTheEnd ==
  \A c \in Clients : LET now == client[c] IN
    now.at = "done" =>
      /\ Lists(now.seen, Own(1, now.cursor))
      /\ ~now.watch => /\ now.cursor = now.row.latest
                       /\ log[now.seen[Len(now.seen)]].status = now.row.status

\* The watch command follows the run until it stops: what it printed includes
\* the event with which the run stopped (cli/src/args.rs: --once returns after
\* one event batch instead of following the run).
WatchSeesTheEnd ==
  \A c \in Clients : client[c].watch /\ client[c].at = "done" => client[c].cursor = client[c].row.latest

\* Whoever reads the events of an accepted run reads that this commit was
\* integrated, then verified, then approved: no rule hides a later one.
AcceptedIsExplained ==
  \A n \in DOMAIN log :
    log[n].own /\ log[n].kind = "accepted" /\ log[1].kind = "run_started" =>
      \E i, v, a \in 1..n - 1 :
        /\ i < v /\ v < a
        /\ \A m \in {i, v, a} : log[m].own /\ log[m].sha = log[n].sha
        /\ log[i].kind = "integration_ready"
        /\ log[v].kind = "verification_passed" /\ log[v].evidence = "passed"
        /\ log[a].kind = "result_approved"

\* When a run has stopped for good, a launcher stops, too, and with the news of how.
LauncherIsTold ==
  \A c \in Clients :
    <>[](~client[c].watch /\ run.status \in Terminal) =>
      <>[](client[c].at = "done" /\ client[c].row.status = run.status)

=============================================================================
