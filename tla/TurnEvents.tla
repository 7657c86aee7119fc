----------------------------- MODULE TurnEvents -----------------------------
(***************************************************************************)
(* The evidence of one participant turn.  While the coordinator waits for  *)
(* the turn it takes the App Server's events one by one and writes the     *)
(* item lifecycle and the completion to SQLite; when the turn is over it   *)
(* builds the turn's items from those rows, from the items of the          *)
(* completion and, for a stored task, from the task's history, and takes   *)
(* the answer out of them.  Events may be lost with a connection, with a   *)
(* crash or to the wait of another run, and may be repeated.               *)
(***************************************************************************)
EXTENDS Naturals, Sequences

CONSTANTS
  MaxItems,    \* items of the turn; the last one is its final answer
  MaxAsks,     \* requests to the user during the turn
  MaxFaults,   \* crashes and lost connections
  MaxRepeats   \* events the App Server sends again

ASSUME TurnEventsAssumption ==
  /\ MaxItems \in Nat \ {0}
  /\ {MaxAsks, MaxFaults, MaxRepeats} \subseteq Nat

VARIABLES
  task,        \* what the task is, and what its history and its completions hold
  kind,        \* type of each item of the turn
  istate,      \* lifecycle of each item at the App Server
  turn,        \* status of the turn at the App Server
  listening,   \* the App Server sends this task's events to the connection
  events,      \* events received and not yet taken by next_event
  lost,        \* history: an event of this turn never reached its wait
  rows,        \* turn_event_items, in insertion order
  completion,  \* turn_event_completions: status, or "none"
  pc,          \* where the drive of this run is
  cancelled,   \* the run was cancelled meanwhile
  accepted,    \* items of the completed turn that was returned
  budget       \* faults, repeats and requests left

server == <<task, kind, istate, turn>>
store == <<rows, completion>>
vars == <<server, listening, events, lost, store, pc, cancelled, accepted, budget>>

Items == 1..MaxItems
\* An ephemeral fork has no history to read; the history of a stored task may or may not
\* return tool items, turn/completed may or may not carry the items of the turn.
Tasks == {t \in [ephemeral : BOOLEAN, replays : BOOLEAN, snapshots : BOOLEAN] :
            t.ephemeral => ~t.replays}
Kinds == {"command", "reasoning", "message", "final"}
IsMessage(i) == kind[i] \in {"message", "final"}
Event(method, i) == [method |-> method, item |-> i]
Done == {"accepted", "failed", "retried", "stopped"}
Waiting == {"prepare", "check", "poll", "summary", "drain"}
Paused == {"paused", "asked"}   \* COMMUNICATION_FAILURE, PERMISSION_REQUIRED

-----------------------------------------------------------------------------
(* The store.                                                              *)

RowsOf(i) == {n \in DOMAIN rows : rows[n].item = i}

\* record_turn_item_event writes whatever lifecycle arrives last.
RecordItemMutant(i, lifecycle) ==
  rows' = IF RowsOf(i) = {} THEN Append(rows, [item |-> i, state |-> lifecycle])
          ELSE [n \in DOMAIN rows |-> IF n \in RowsOf(i)
                                      THEN [rows[n] EXCEPT !.state = lifecycle]
                                      ELSE rows[n]]
\* record_turn_item_event: one row per item; a completed row stays as it is.
RecordItem(i, lifecycle) ==
  rows' = IF RowsOf(i) = {} THEN Append(rows, [item |-> i, state |-> lifecycle])
          ELSE [n \in DOMAIN rows |-> IF n \in RowsOf(i) /\ rows[n].state # "COMPLETED"
                                      THEN [rows[n] EXCEPT !.state = lifecycle]
                                      ELSE rows[n]]

\* turn_event_evidence forgives any item that never completed.
IncompleteMutant == FALSE
\* turn_event_evidence refuses a turn with an item that never completed, except
\* the started reasoning of a successful turn.
Incomplete ==
  \E n \in DOMAIN rows :
    /\ rows[n].state # "COMPLETED"
    /\ ~(completion = "completed" /\ kind[rows[n].item] = "reasoning")

\* Items of the rows, of the completion and of the history.
CompletedRows == {rows[n].item : n \in {k \in DOMAIN rows : rows[k].state = "COMPLETED"}}
AtServer == {i \in Items : istate[i] = "completed"}
EventTurn == IF task.snapshots THEN AtServer ELSE {}
History == {i \in AtServer : task.replays \/ IsMessage(i)}

\* merge_completed_turn_evidence: each item once, whatever sources name it; its order (the
\* agent's messages last) is left out.
Merged(sources) == UNION sources

\* final_agent_text: the messages it takes the last one of.
Answers(items) ==
  LET final == {i \in items : kind[i] = "final"}
  IN  IF final # {} THEN final ELSE {i \in items : IsMessage(i)}

-----------------------------------------------------------------------------
Init ==
  /\ task \in Tasks
  /\ kind \in {k \in [Items -> Kinds] : \A i \in Items : k[i] = "final" <=> i = MaxItems}
  /\ istate = [i \in Items |-> "new"]
  /\ turn = "running"
  /\ listening = TRUE
  /\ events = <<>>
  /\ lost = FALSE
  /\ rows = <<>>
  /\ completion = "none"
  /\ pc = "check"
  /\ cancelled = FALSE
  /\ accepted = {}
  /\ budget = [fault |-> MaxFaults, repeat |-> MaxRepeats, ask |-> MaxAsks]

Spend(what) == /\ budget[what] > 0
               /\ budget' = [budget EXCEPT ![what] = @ - 1]
Heard == listening /\ pc # "down"
Send(e) == /\ events' = IF Heard THEN Append(events, e) ELSE events
           /\ lost' = (lost \/ ~Heard)
\* The connection's events go with it.
DropEvents == events' = <<>> /\ lost' = (lost \/ events # <<>>)

-----------------------------------------------------------------------------
(* The App Server, as the coordinator relies on it: items start in order,  *)
(* the final answer comes last, and every event is sent in the order of    *)
(* what it reports.                                                        *)

StartItem(i) ==
  /\ turn = "running"
  /\ istate[i] = "new"
  /\ \A j \in 1..(i - 1) : istate[j] # "new"
  /\ kind[i] = "final" => \A j \in 1..(i - 1) : istate[j] = "completed" \/ kind[j] = "reasoning"
  /\ istate' = [istate EXCEPT ![i] = "started"]
  /\ Send(Event("item/started", i))
  /\ UNCHANGED <<task, kind, turn, listening, store, pc, cancelled, accepted, budget>>

CompleteItem(i) ==
  /\ turn = "running"
  /\ istate[i] = "started"
  /\ istate' = [istate EXCEPT ![i] = "completed"]
  /\ Send(Event("item/completed", i))
  /\ UNCHANGED <<task, kind, turn, listening, store, pc, cancelled, accepted, budget>>

\* The turn needs the user.
AskUser ==
  /\ turn = "running"
  /\ Spend("ask")
  /\ Send(Event("requestUserInput", 0))
  /\ UNCHANGED <<server, listening, store, pc, cancelled, accepted>>

EndTurn(status) ==
  /\ turn = "running"
  /\ status = "completed" => istate[MaxItems] = "completed"
  /\ turn' = status
  /\ Send(Event("turn/completed", 0))
  /\ UNCHANGED <<task, kind, istate, listening, store, pc, cancelled, accepted, budget>>

\* An item event or the completion is sent again.
Repeat ==
  /\ Spend("repeat")
  /\ \/ \E i \in Items : istate[i] # "new" /\ Send(Event("item/started", i))
     \/ \E i \in Items : istate[i] = "completed" /\ Send(Event("item/completed", i))
     \/ turn # "running" /\ Send(Event("turn/completed", 0))
  /\ UNCHANGED <<server, listening, store, pc, cancelled, accepted>>

-----------------------------------------------------------------------------
(* The wait of the coordinator.                                            *)

\* completed_turn_from_event_evidence, completed_turn_with_event_evidence and
\* final_agent_text.
Return(sources) ==
  LET items == Merged(sources)
  IN  /\ pc' = IF Answers(items) = {} THEN "failed" ELSE "accepted"
      /\ accepted' = IF Answers(items) = {} THEN {} ELSE items

\* Head of each pass: a cancelled run ends the wait.
CheckCancelled ==
  /\ pc = "check"
  /\ cancelled
  /\ pc' = "stopped"
  /\ UNCHANGED <<server, listening, events, lost, store, cancelled, accepted, budget>>

\* Ephemeral task: the rows are all there is.
CheckEvidence ==
  /\ pc = "check" /\ ~cancelled /\ task.ephemeral
  /\ IF completion = "none" THEN pc' = "poll" /\ UNCHANGED accepted
     ELSE IF Incomplete \/ completion # "completed" THEN pc' = "failed" /\ UNCHANGED accepted
     ELSE Return({CompletedRows, EventTurn})
  /\ UNCHANGED <<server, listening, events, lost, store, cancelled, budget>>

\* Stored task: the turn is looked up in the task's history.
CheckHistory ==
  /\ pc = "check" /\ ~cancelled /\ ~task.ephemeral
  /\ pc' = CASE turn = "running" -> "poll"
             [] turn = "completed" -> "drain"
             [] OTHER -> "failed"
  /\ UNCHANGED <<server, listening, events, lost, store, cancelled, accepted, budget>>

\* The deadline passes: COMMUNICATION_FAILURE pauses the run.
CheckDeadline ==
  /\ pc = "poll"
  /\ pc' = "paused"
  /\ UNCHANGED <<server, listening, events, lost, store, cancelled, accepted, budget>>

\* consume_turn_event, then handle_execution_request and user_action_event, which
\* pauses and saves the copy of the wait, over a cancellation saved meanwhile.
Consume(e, next) ==
  /\ events' = Tail(events)
  /\ CASE e.method = "item/started" -> RecordItem(e.item, "STARTED") /\ UNCHANGED completion
       [] e.method = "item/completed" -> RecordItem(e.item, "COMPLETED") /\ UNCHANGED completion
       [] e.method = "turn/completed" ->
            /\ completion' = IF completion = "none" THEN turn ELSE completion
            /\ UNCHANGED rows
       [] OTHER -> UNCHANGED store
  /\ pc' = IF e.method = "requestUserInput" THEN "asked" ELSE next
  /\ cancelled' = (cancelled /\ e.method # "requestUserInput")
  /\ UNCHANGED <<server, listening, lost, accepted, budget>>

TakeEvent ==
  /\ pc = "poll"
  /\ events # <<>>
  /\ Consume(Head(events), "check")

\* Nothing came within the poll interval: an ephemeral task's summary is read.
PollTimesOut ==
  /\ pc = "poll"
  /\ events = <<>>
  /\ pc' = IF task.ephemeral THEN "summary" ELSE "check"
  /\ UNCHANGED <<server, listening, events, lost, store, cancelled, accepted, budget>>

\* An idle task without a single event of the turn: with the controlled patch
\* already recorded the connection is refreshed and the action retried.
Summary ==
  /\ pc = "summary"
  /\ \/ pc' = "check" /\ UNCHANGED <<events, lost, listening>>
     \/ /\ turn # "running" /\ rows = <<>> /\ completion = "none"
        /\ pc' = "retried" /\ DropEvents
        /\ listening' \in BOOLEAN
  /\ UNCHANGED <<server, store, cancelled, accepted, budget>>

\* The task is in systemError: HISTORY_UNAVAILABLE, and nobody waits for what still comes.
TaskBroken ==
  /\ pc = "summary"
  /\ Spend("fault")
  /\ pc' = "failed" /\ lost' = TRUE
  /\ UNCHANGED <<server, listening, events, store, cancelled, accepted>>

\* drain_completed_turn_events without its loop.
DrainsMutant == FALSE
\* drain_completed_turn_events goes on until the completion or a silent interval.
Drains == completion = "none" /\ events # <<>>

DrainEvent ==
  /\ pc = "drain"
  /\ Drains
  /\ Consume(Head(events), "drain")

DrainEnds ==
  /\ pc = "drain"
  /\ ~Drains
  /\ IF completion = "none" THEN Return({History})
     ELSE IF Incomplete THEN pc' = "failed" /\ UNCHANGED accepted
     ELSE Return({CompletedRows, EventTurn, History})
  /\ UNCHANGED <<server, listening, events, lost, store, cancelled, budget>>

-----------------------------------------------------------------------------
(* Pause, cancellation, other runs and faults.                             *)

\* Another run waits on the same client and drops what does not match its turn.
TakenByAnother ==
  /\ pc \in Paused
  /\ events # <<>>
  /\ events' = Tail(events) /\ lost' = TRUE
  /\ UNCHANGED <<server, listening, store, pc, cancelled, accepted, budget>>

\* prepare_resume: after COMMUNICATION_FAILURE prepare_terminal_turn_retry wants
\* durable completion evidence of an ephemeral turn; after PERMISSION_REQUIRED it
\* is not called.  The retry of a failed turn is left to TurnDelivery.
Resume ==
  /\ pc \in Paused /\ ~cancelled
  /\ pc = "paused" => turn # "failed" /\ (task.ephemeral => completion # "none")
  /\ pc' = "prepare"
  /\ UNCHANGED <<server, listening, events, lost, store, cancelled, accepted, budget>>

\* prepare_action_thread: the task must be idle; a stored one is resumed, which
\* subscribes the connection to it.  A Primary turn with evidence of its
\* completion skips the wait.
Prepare ==
  /\ pc = "prepare"
  /\ turn # "running" \/ completion # "none"
  /\ pc' = "check"
  /\ listening' = (listening \/ ~task.ephemeral)
  /\ UNCHANGED <<server, events, lost, store, cancelled, accepted, budget>>

\* wait_until_idle runs into its deadline.
PrepareFails ==
  /\ pc = "prepare"
  /\ turn = "running"
  /\ pc' = "paused"
  /\ UNCHANGED <<server, listening, events, lost, store, cancelled, accepted, budget>>

Cancel ==
  /\ pc \in Waiting \cup Paused
  /\ ~cancelled
  /\ cancelled' = TRUE
  /\ UNCHANGED <<server, listening, events, lost, store, pc, accepted, budget>>

\* The connection closes; a read, or a health check, opens a new one.
Reconnect ==
  /\ pc \in Waiting \cup Paused
  /\ Spend("fault")
  /\ DropEvents
  /\ listening' \in BOOLEAN
  /\ UNCHANGED <<server, store, pc, cancelled, accepted>>

Crash ==
  /\ pc \in Waiting \cup Paused
  /\ Spend("fault")
  /\ pc' = "down"
  /\ DropEvents
  /\ listening' \in BOOLEAN
  /\ UNCHANGED <<server, store, cancelled, accepted>>

\* recover_startup_runs drives the run again, unless it was cancelled.
Restart ==
  /\ pc = "down"
  /\ pc' = IF cancelled THEN "stopped" ELSE "prepare"
  /\ UNCHANGED <<server, listening, events, lost, store, cancelled, accepted, budget>>

Wait == CheckCancelled \/ CheckEvidence \/ CheckHistory \/ TakeEvent \/ PollTimesOut
        \/ Summary \/ DrainEvent \/ DrainEnds \/ Prepare

AppServer == (\E i \in Items : StartItem(i) \/ CompleteItem(i)) \/ EndTurn("completed")

Next ==
  \/ Wait
  \/ CheckDeadline
  \/ PrepareFails
  \/ AppServer
  \/ EndTurn("failed")
  \/ AskUser
  \/ Repeat
  \/ TakenByAnother
  \/ Resume
  \/ TaskBroken
  \/ Cancel
  \/ Reconnect
  \/ Crash
  \/ Restart

Spec == Init /\ [][Next]_vars

\* The coordinator's loop runs, the App Server finishes what it started, the
\* user resumes a paused run and a crashed daemon is started again.
FairSpec == Spec /\ WF_vars(Wait) /\ WF_vars(AppServer) /\ WF_vars(Resume) /\ WF_vars(Restart)

-----------------------------------------------------------------------------
(* Properties.                                                             *)

TypeOK ==
  /\ task \in Tasks
  /\ kind \in [Items -> Kinds]
  /\ istate \in [Items -> {"new", "started", "completed"}]
  /\ turn \in {"running", "completed", "failed"}
  /\ listening \in BOOLEAN /\ lost \in BOOLEAN /\ cancelled \in BOOLEAN
  /\ \A n \in DOMAIN events : events[n].item \in Items \cup {0}
  /\ \A n \in DOMAIN rows : rows[n].item \in Items /\ rows[n].state \in {"STARTED", "COMPLETED"}
  /\ completion \in {"none", "completed", "failed"}
  /\ pc \in Waiting \cup Done \cup Paused \cup {"down"}
  /\ accepted \subseteq Items

Commands == {i \in Items : kind[i] = "command"}

\* The journal of a turn only grows: whatever is repeated, lost or reordered, a
\* completed item stays completed, no row goes away and the completion is final.
\* This is what record_turn_item_event and record_turn_completed_event are for.
JournalOnlyGrows ==
  [][/\ Len(rows) <= Len(rows')
     /\ \A n \in DOMAIN rows : /\ rows'[n].item = rows[n].item
                               /\ rows[n].state = "COMPLETED" => rows'[n] = rows[n]
     /\ completion # "none" => completion' = completion]_vars

\* A command whose start the coordinator wrote down is in the evidence of an accepted
\* turn, completed: of an ephemeral turn its completion cannot get lost unnoticed, of a
\* stored one as long as no event is lost.
StartedCommandsAreAccounted ==
  pc = "accepted" /\ (task.ephemeral \/ ~lost) =>
    \A n \in DOMAIN rows : rows[n].item \in Commands =>
      rows[n].item \in accepted /\ istate[rows[n].item] = "completed"

\* The audit of an accepted turn sees every command the participant ran, unless an event
\* of the turn was lost.
NothingIsHidden ==
  pc = "accepted" /\ ~lost => {i \in Commands : istate[i] # "new"} \subseteq accepted

\* A turn that completed is accepted, or its action retried, unless an event of it was
\* lost, its wait ran into the deadline, or the run is cancelled.
TurnIsAnswered ==
  turn = "completed" ~> pc \in {"accepted", "retried", "paused"} \/ lost \/ cancelled

=============================================================================
