---------------------------- MODULE EventProofs ----------------------------
(***************************************************************************)
(* The events of a turn (TurnEvents). Its journal only grows, whatever     *)
(* events are lost, repeated or taken by another run; a command with a row *)
(* is in the evidence of an accepted turn; and unless an event was lost so *)
(* is every command that was started.                                      *)
(*                                                                         *)
(* The events of a run (RunEvents). A client that stops has read those of  *)
(* its run in order, a launcher up to the one that tells the status it was *)
(* given; and those of an accepted run tell how its commit was integrated, *)
(* verified and approved.                                                  *)
(***************************************************************************)
EXTENDS TurnEvents, RunEvents, SequenceTheorems, FiniteSetTheorems, TLAPS

Row == [item : Items \cup {0}, state : {"STARTED", "COMPLETED"}]
Methods == {"item/started", "item/completed", "turn/completed", "requestUserInput"}
Received == [method : Methods, item : Items \cup {0}]
Events == Seq(Received)

\* What the store's rows are whatever is consumed.
JournalInv == rows \in Seq(Row) /\ events \in Events

\* A step that keeps the journal.
Grows ==
  /\ Len(rows) <= Len(rows')
  /\ \A n \in DOMAIN rows : /\ rows'[n].item = rows[n].item
                            /\ rows[n].state = "COMPLETED" => rows'[n] = rows[n]
  /\ completion # "none" => completion' = completion

\* One item event leaves typed rows, and no row is lost or taken back
\* (record_turn_item_event).
LEMMA RecordItemGrows ==
  ASSUME JournalInv, NEW i \in Items \cup {0}, NEW lifecycle \in {"STARTED", "COMPLETED"},
         RecordItem(i, lifecycle)
  PROVE  /\ rows' \in Seq(Row)
         /\ Len(rows) <= Len(rows')
         /\ \A n \in DOMAIN rows : /\ rows'[n].item = rows[n].item
                                   /\ rows[n].state = "COMPLETED" => rows'[n] = rows[n]
<1>1. CASE RowsOf(i) = {}
  BY <1>1 DEF RecordItem, JournalInv, Row
<1>2. CASE RowsOf(i) # {}
  <2>1. rows' = [n \in DOMAIN rows |-> IF n \in RowsOf(i) /\ rows[n].state # "COMPLETED"
                                       THEN [rows[n] EXCEPT !.state = lifecycle]
                                       ELSE rows[n]]
    BY <1>2 DEF RecordItem
  <2>2. DOMAIN rows = 1..Len(rows) /\ Len(rows) \in Nat
    BY DEF JournalInv
  <2>3. ASSUME NEW n \in DOMAIN rows
        PROVE  rows[n] \in Row /\ rows'[n] \in Row
    <3>1. rows[n] \in Row
      BY <2>2 DEF JournalInv
    <3>2. [rows[n] EXCEPT !.state = lifecycle] \in Row
      BY <3>1 DEF Row
    <3> QED BY <2>1, <3>1, <3>2
  <2>4. rows' \in [1..Len(rows) -> Row]
    BY <2>1, <2>2, <2>3
  <2>5. rows' \in Seq(Row) /\ Len(rows') = Len(rows)
    BY <2>2, <2>4
  <2>6. \A n \in DOMAIN rows : /\ rows'[n].item = rows[n].item
                               /\ rows[n].state = "COMPLETED" => rows'[n] = rows[n]
    BY <2>1, <2>3 DEF Row
  <2> QED BY <2>2, <2>5, <2>6
<1> QED BY <1>1, <1>2

\* Consuming the next event keeps the journal (consume_turn_event).
LEMMA ConsumeGrows ==
  ASSUME JournalInv, NEW next, events # <<>>, Consume(Head(events), next)
  PROVE  JournalInv' /\ Grows
<1> DEFINE e == Head(events)
<1>1. e \in [method : Methods, item : Items \cup {0}]
  <2>1. e \in Received
    BY HeadTailProperties DEF JournalInv, Events
  <2> QED BY <2>1 DEF Received
<1>2. events' \in Events
  BY DEF Consume, JournalInv, Events
<1>3. CASE e.method = "item/started"
  <2>1. RecordItem(e.item, "STARTED") /\ completion' = completion
    BY <1>3 DEF Consume
  <2> QED BY <1>1, <1>2, <2>1, RecordItemGrows DEF JournalInv, Grows
<1>4. CASE e.method = "item/completed"
  <2>1. RecordItem(e.item, "COMPLETED") /\ completion' = completion
    BY <1>4 DEF Consume
  <2> QED BY <1>1, <1>2, <2>1, RecordItemGrows DEF JournalInv, Grows
<1>5. CASE e.method = "turn/completed"
  BY <1>2, <1>5 DEF Consume, JournalInv, Grows
<1>6. CASE e.method \notin {"item/started", "item/completed", "turn/completed"}
  BY <1>2, <1>6 DEF Consume, JournalInv, Grows, store
<1> QED BY <1>3, <1>4, <1>5, <1>6

\* A step that leaves the store alone keeps the journal.
LEMMA UntouchedGrows ==
  ASSUME JournalInv, UNCHANGED store, events' \in Events
  PROVE  JournalInv' /\ Grows
BY DEF JournalInv, Grows, store, Row

\* An event of the App Server joins the received ones, or is lost.
LEMMA SendTyped ==
  ASSUME JournalInv, NEW e \in Received, Send(e)
  PROVE  events' \in Events
<1>1. Append(events, e) \in Events
  BY AppendProperties DEF JournalInv, Events
<1> QED BY <1>1 DEF Send, JournalInv

\* Every step keeps the journal.
LEMMA JournalStep ==
  ASSUME JournalInv, [Next]_vars
  PROVE  JournalInv' /\ Grows
<1> DEFINE Quiet == UNCHANGED store /\ events' \in Events
<1>0. /\ \A i \in Items : /\ Event("item/started", i) \in Received
                          /\ Event("item/completed", i) \in Received
      /\ Event("turn/completed", 0) \in Received
      /\ Event("requestUserInput", 0) \in Received
  BY DEF Event, Received, Methods
<1>1. ASSUME NEW i \in Items, StartItem(i) PROVE Quiet
  <2>1. UNCHANGED store
    BY <1>1 DEF StartItem, store
  <2>2. Send(Event("item/started", i))
    BY <1>1 DEF StartItem
  <2> QED BY <1>0, <2>1, <2>2, SendTyped
<1>2. ASSUME NEW i \in Items, CompleteItem(i) PROVE Quiet
  <2>1. UNCHANGED store
    BY <1>2 DEF CompleteItem, store
  <2>2. Send(Event("item/completed", i))
    BY <1>2 DEF CompleteItem
  <2> QED BY <1>0, <2>1, <2>2, SendTyped
<1>3. ASSUME NEW status, EndTurn(status) PROVE Quiet
  <2>1. UNCHANGED store
    BY <1>3 DEF EndTurn, store
  <2>2. Send(Event("turn/completed", 0))
    BY <1>3 DEF EndTurn
  <2> QED BY <1>0, <2>1, <2>2, SendTyped
<1>4. CASE AskUser
  <2>1. UNCHANGED store
    BY <1>4 DEF AskUser, store
  <2>2. Send(Event("requestUserInput", 0))
    BY <1>4 DEF AskUser
  <2>3. events' \in Events
    BY <1>0, <2>2, SendTyped
  <2> QED BY <2>1, <2>3, UntouchedGrows
<1>5. CASE Repeat
  <2>1. UNCHANGED store
    BY <1>5 DEF Repeat
  <2>2. events' \in Events
    <3>1. CASE \E i \in Items : Send(Event("item/started", i))
      BY <3>1, <1>0, SendTyped
    <3>2. CASE \E i \in Items : Send(Event("item/completed", i))
      BY <3>2, <1>0, SendTyped
    <3>3. CASE Send(Event("turn/completed", 0))
      BY <3>3, <1>0, SendTyped
    <3> QED BY <1>5, <3>1, <3>2, <3>3 DEF Repeat
  <2> QED BY <2>1, <2>2, UntouchedGrows
<1>6. CASE TakeEvent
  BY <1>6, ConsumeGrows DEF TakeEvent
<1>7. CASE DrainEvent
  BY <1>7, ConsumeGrows DEF DrainEvent, Drains
<1>8. CASE CheckCancelled \/ CheckEvidence \/ CheckHistory \/ PollTimesOut \/ DrainEnds \/ Prepare
  <2>1. UNCHANGED <<store, events>>
    BY <1>8 DEF CheckCancelled, CheckEvidence, CheckHistory, PollTimesOut, DrainEnds, Prepare
  <2> QED BY <2>1, UntouchedGrows DEF JournalInv
<1>9. CASE CheckDeadline \/ PrepareFails \/ Resume \/ TaskBroken \/ Cancel \/ Restart
  <2>1. UNCHANGED <<store, events>>
    BY <1>9 DEF CheckDeadline, PrepareFails, Resume, TaskBroken, Cancel, Restart
  <2> QED BY <2>1, UntouchedGrows DEF JournalInv
<1>10. CASE Summary
  <2>1. UNCHANGED store /\ events' \in Events
    BY <1>10 DEF Summary, DropEvents, JournalInv, Events
  <2> QED BY <2>1, UntouchedGrows
<1>11. CASE TakenByAnother
  <2>1. UNCHANGED store /\ events' \in Events
    BY <1>11 DEF TakenByAnother, JournalInv, Events
  <2> QED BY <2>1, UntouchedGrows
<1>12. CASE Reconnect \/ Crash
  <2>1. UNCHANGED store /\ events' \in Events
    <3>1. UNCHANGED store /\ events' = <<>>
      BY <1>12 DEF Reconnect, Crash, DropEvents
    <3> QED BY <3>1 DEF Events
  <2> QED BY <2>1, UntouchedGrows
<1>13. CASE UNCHANGED vars
  BY <1>13, UntouchedGrows DEF vars, JournalInv
<1> QED
  BY <1>1, <1>2, <1>3, <1>4, <1>5, <1>6, <1>7, <1>8, <1>9, <1>10, <1>11, <1>12, <1>13,
     UntouchedGrows DEF Next, Wait, AppServer

\* record_turn_item_event and record_turn_completed_event: a completed item
\* stays completed, no row goes away and the completion is final, for turns of
\* any length and whatever events are lost, repeated or reordered.
THEOREM JournalIsMonotonic == Spec => JournalOnlyGrows
<1>1. Init => JournalInv
  BY DEF Init, JournalInv, Events
<1>2. JournalInv /\ [Next]_vars => JournalInv' /\ [Grows]_vars
  BY JournalStep
<1> QED
  BY <1>1, <1>2, PTL DEF Spec, JournalOnlyGrows, Grows

-----------------------------------------------------------------------------
(* What the evidence of an accepted turn holds.  A command is accounted    *)
(* for by a row, so the invariant follows its events from the App Server   *)
(* to the rows: as long as none is lost, a started item is in a row or in  *)
(* an event still to come, and before the completion is.                   *)

Types ==
  /\ task \in Tasks /\ kind \in [Items -> Kinds]
  /\ istate \in [Items -> {"new", "started", "completed"}]
  /\ turn \in {"running", "completed", "failed"} /\ completion \in {"none", "completed", "failed"}
  /\ listening \in BOOLEAN /\ lost \in BOOLEAN /\ cancelled \in BOOLEAN
  /\ pc \in Waiting \cup Done \cup Paused \cup {"down"} /\ accepted \subseteq Items

Reports(e) == e.method \in {"item/started", "item/completed"}

\* What an event or a row tells of an item, and the completion of the turn, has happened.
TrueEvent(e) ==
  /\ Reports(e) => e.item \in Items /\ istate[e.item] # "new"
  /\ e.method = "item/completed" => istate[e.item] = "completed"
  /\ e.method = "turn/completed" => turn # "running"
TrueRow(r) ==
  /\ r.item \in Items /\ istate[r.item] # "new"
  /\ r.state = "COMPLETED" => istate[r.item] = "completed"
Truthful ==
  /\ \A n \in DOMAIN events : TrueEvent(events[n])
  /\ \A n \in DOMAIN rows : TrueRow(rows[n])
  /\ completion # "none" => turn = completion

\* Item i has a row, or one of the events before the n-th reports it.
InRows(i)  == \E k \in DOMAIN rows : rows[k].item = i
Told(i, n) == InRows(i) \/ \E m \in DOMAIN events : m < n /\ Reports(events[m]) /\ events[m].item = i
Started == {i \in Items : istate[i] # "new"}
Completion(n) == n \in DOMAIN events /\ events[n].method = "turn/completed"

\* As long as no event is lost, every started item is told, and before the completion is.
Complete ==
  /\ \A i \in Started : Told(i, Len(events) + 1)
  /\ \A n \in DOMAIN events : Completion(n) => \A i \in Started : Told(i, n)
  /\ completion # "none" => \A i \in Started : InRows(i)
  /\ turn # "running" /\ completion = "none" => \E n \in DOMAIN events : Completion(n)

\* Only an ended turn is drained or accepted; an ephemeral task has no history to drain for.
Places ==
  /\ pc = "drain" => turn = "completed" /\ ~task.ephemeral
  /\ pc = "accepted" => turn # "running"

Accounted == StartedCommandsAreAccounted /\ NothingIsHidden

Inv == JournalInv /\ Types /\ Truthful /\ (~lost => Complete) /\ Places /\ Accounted

USE DEF Items, Tasks, Kinds, server, store

\* What turn_event_items holds after an item event: the rows it had, that item's row, and nothing
\* that did not happen.
LEMMA RecordItemFacts ==
  ASSUME JournalInv, NEW i \in Items, NEW lifecycle \in {"STARTED", "COMPLETED"}, RecordItem(i, lifecycle)
  PROVE  /\ \A j : InRows(j) => InRows(j)'
         /\ InRows(i)'
         /\ \A n \in DOMAIN rows' :
              \/ n \in DOMAIN rows /\ rows'[n] = rows[n]
              \/ rows'[n].item = i /\ rows'[n].state = lifecycle
<1>1. DOMAIN rows = 1..Len(rows) /\ Len(rows) \in Nat /\ \A n \in DOMAIN rows : rows[n] \in Row
  BY DEF JournalInv
<1>2. CASE RowsOf(i) = {}
  <2>1. rows' = Append(rows, [item |-> i, state |-> lifecycle]) BY <1>2 DEF RecordItem
  <2>2. [item |-> i, state |-> lifecycle] \in Row BY DEF Row
  <2>3. /\ DOMAIN rows' = DOMAIN rows \cup {Len(rows) + 1}
        /\ rows'[Len(rows) + 1] = [item |-> i, state |-> lifecycle]
        /\ \A n \in DOMAIN rows : rows'[n] = rows[n]
    BY <1>1, <2>1, <2>2, AppendProperties DEF JournalInv
  <2>4. InRows(i)' BY <2>3 DEF InRows
  <2> QED BY <2>3, <2>4 DEF InRows
<1>3. CASE RowsOf(i) # {}
  <2>1. rows' = [n \in DOMAIN rows |-> IF n \in RowsOf(i) /\ rows[n].state # "COMPLETED"
                                       THEN [rows[n] EXCEPT !.state = lifecycle]
                                       ELSE rows[n]]
    BY <1>3 DEF RecordItem
  <2>2. DOMAIN rows' = DOMAIN rows BY <2>1
  <2>3. ASSUME NEW n \in DOMAIN rows
        PROVE  /\ rows'[n].item = rows[n].item
               /\ rows'[n] = rows[n] \/ (rows'[n].item = i /\ rows'[n].state = lifecycle)
    <3>1. rows[n] \in Row BY <1>1
    <3>2. CASE n \in RowsOf(i) /\ rows[n].state # "COMPLETED"
      <4>1. rows'[n] = [rows[n] EXCEPT !.state = lifecycle] BY <2>1, <3>2
      <4> QED BY <3>1, <3>2, <4>1 DEF RowsOf, Row
    <3>3. CASE ~(n \in RowsOf(i) /\ rows[n].state # "COMPLETED")
      <4>1. rows'[n] = rows[n] BY <2>1, <3>3
      <4> QED BY <4>1
    <3> QED BY <3>2, <3>3
  <2>4. \A j : InRows(j) => InRows(j)' BY <2>2, <2>3 DEF InRows
  <2>5. InRows(i) BY <1>3 DEF InRows, RowsOf
  <2> QED BY <2>2, <2>3, <2>4, <2>5
<1> QED BY <1>2, <1>3

\* An event of the App Server is the last one received, or is lost.
LEMMA SendFacts ==
  ASSUME JournalInv, lost \in BOOLEAN, NEW e \in Received, Send(e)
  PROVE  \/ /\ lost' = lost
            /\ Len(events') = Len(events) + 1 /\ DOMAIN events' = DOMAIN events \cup {Len(events) + 1}
            /\ events'[Len(events) + 1] = e /\ \A n \in DOMAIN events : events'[n] = events[n]
         \/ lost' /\ events' = events
<1>1. /\ Len(events) \in Nat /\ DOMAIN events = 1..Len(events)
      /\ DOMAIN Append(events, e) = DOMAIN events \cup {Len(events) + 1}
      /\ Len(Append(events, e)) = Len(events) + 1
      /\ Append(events, e)[Len(events) + 1] = e
      /\ \A n \in DOMAIN events : Append(events, e)[n] = events[n]
  BY AppendProperties DEF JournalInv, Events
<1>2. CASE Heard
  <2>1. events' = Append(events, e) /\ lost' = lost BY <1>2 DEF Send
  <2> QED BY <1>1, <2>1
<1>3. CASE ~Heard
  <2>1. events' = events /\ lost' BY <1>3 DEF Send
  <2> QED BY <2>1
<1> QED BY <1>2, <1>3

\* A step that leaves the turn and the store alone: no event appears, and none goes unless it is
\* lost.
LEMMA QuietEvidence ==
  ASSUME Inv, UNCHANGED <<server, store>>,
         \/ events' = events /\ lost' \in {lost, TRUE}
         \/ lost' = TRUE /\ \A n \in DOMAIN events' : \E m \in DOMAIN events : events'[n] = events[m]
  PROVE  Truthful' /\ (~lost' => Complete')
<1>1. Truthful' BY DEF Inv, Truthful, TrueEvent, TrueRow, Reports
<1>2. ASSUME ~lost' PROVE Complete'
  <2>1. UNCHANGED <<server, store, events>> /\ ~lost BY <1>2 DEF Inv, Types
  <2>2. Started' = Started /\ \A i, n : Told(i, n)' = Told(i, n) /\ InRows(i)' = InRows(i) /\ Completion(n)' = Completion(n)
    BY <2>1 DEF Started, Told, InRows, Completion, Reports
  <2> QED BY <2>1, <2>2 DEF Inv, Complete
<1> QED BY <1>1, <1>2

\* A step of the App Server that sends what it did, or sends again what is true.
LEMMA SendEvidence ==
  ASSUME Inv, NEW e \in Received, Send(e), UNCHANGED store, TrueEvent(e)',
         \A i \in Items : /\ istate[i] # "new" => istate'[i] # "new"
                          /\ istate[i] = "completed" => istate'[i] = "completed"
                          /\ istate'[i] # "new" /\ istate[i] = "new" =>
                               turn = "running" /\ Reports(e) /\ e.item = i,
         turn' # turn => turn = "running" /\ e.method = "turn/completed"
  PROVE  Truthful' /\ (~lost' => Complete')
<1>1. JournalInv /\ Types /\ Truthful BY DEF Inv
<1>2. Len(events) \in Nat /\ DOMAIN events = 1..Len(events) BY <1>1 DEF JournalInv, Events
<1>3. ASSUME NEW f, TrueEvent(f) PROVE TrueEvent(f)'
  BY <1>3 DEF TrueEvent, Reports
<1>4. \A n \in DOMAIN rows : TrueRow(rows[n])' BY <1>1 DEF Truthful, TrueRow
<1>5. completion' # "none" => turn' = completion' BY <1>1 DEF Truthful, Types
<1>6. CASE lost' /\ events' = events
  <2>1. ASSUME NEW n \in DOMAIN events' PROVE TrueEvent(events[n])'
    <3>1. PICK f : f = events[n] OBVIOUS
    <3>2. TrueEvent(f)' BY <1>1, <1>3, <1>6, <2>1, <3>1 DEF Truthful
    <3> QED BY <1>6, <3>1, <3>2
  <2>2. \A n \in DOMAIN rows' : TrueRow(rows[n])' BY <1>4
  <2> QED BY <1>5, <1>6, <2>1, <2>2 DEF Truthful
<1>7. ASSUME lost' = lost,
             Len(events') = Len(events) + 1, DOMAIN events' = DOMAIN events \cup {Len(events) + 1},
             events'[Len(events) + 1] = e, \A n \in DOMAIN events : events'[n] = events[n]
      PROVE  Truthful' /\ (~lost' => Complete')
  <2>1. Truthful'
    <3>1. ASSUME NEW n \in DOMAIN events' PROVE TrueEvent(events[n])'
      <4>1. CASE n \in DOMAIN events
        <5>1. PICK f : f = events[n] OBVIOUS
        <5>2. TrueEvent(f)' BY <1>1, <1>3, <4>1, <5>1 DEF Truthful
        <5>3. events'[n] = f BY <1>7, <4>1, <5>1
        <5> QED BY <5>2, <5>3 DEF TrueEvent, Reports
      <4>2. CASE n = Len(events) + 1 BY <1>7, <4>2 DEF TrueEvent, Reports
      <4> QED BY <1>7, <4>1, <4>2
    <3>2. \A n \in DOMAIN rows' : TrueRow(rows[n])' BY <1>4 DEF TrueRow
    <3> QED BY <1>5, <3>1, <3>2 DEF Truthful
  <2>2. ASSUME ~lost PROVE Complete'
    <3>1. Complete BY <2>2 DEF Inv
    <3>2. ASSUME NEW i, NEW n, Told(i, n) PROVE Told(i, n)'
      BY <1>7, <3>2 DEF Told, InRows, Reports
    <3>3. \A i : InRows(i)' <=> InRows(i) BY DEF InRows
    <3>0. PICK k \in Nat : k = Len(events) BY <1>2
    <3>4. ASSUME NEW i \in Items, istate'[i] # "new", istate[i] = "new" PROVE Told(i, k + 2)'
      BY <1>2, <1>7, <3>0, <3>4 DEF Told, Reports
    <3>5. ASSUME NEW i, Told(i, k + 1) PROVE Told(i, k + 2)'
      BY <1>2, <1>7, <3>0, <3>5 DEF Told, InRows, Reports
    <3>6. \A i \in Started : Told(i, k + 1) BY <3>0, <3>1 DEF Complete
    <3>7. \A i \in Started' : Told(i, k + 2)' BY <3>4, <3>5, <3>6 DEF Started
    <3>8. ASSUME turn # "running" \/ e.method = "turn/completed", NEW i \in Started' PROVE i \in Started
      BY <3>8 DEF Started, Reports
    <3>9. ASSUME NEW n \in DOMAIN events', Completion(n)', NEW i \in Started' PROVE Told(i, n)'
      <4>1. CASE n \in DOMAIN events
        <5>1. Completion(n) /\ turn # "running"
          BY <1>1, <1>7, <3>9, <4>1 DEF Completion, Truthful, TrueEvent
        <5>2. i \in Started BY <3>8, <5>1
        <5> QED BY <3>1, <3>2, <4>1, <5>1, <5>2 DEF Complete
      <4>2. CASE n = Len(events) + 1
        <5>1. e.method = "turn/completed" BY <1>7, <3>9, <4>2 DEF Completion
        <5>2. i \in Started BY <3>8, <5>1
        <5> QED BY <3>0, <3>2, <3>6, <4>2, <5>2
      <4> QED BY <1>7, <4>1, <4>2
    <3>10. completion' # "none" => \A i \in Started' : InRows(i)'
      <4>1. completion # "none" => turn # "running" BY <1>1 DEF Truthful, Types
      <4> QED BY <3>1, <3>3, <3>8, <4>1 DEF Complete
    <3>11. ASSUME turn' # "running", completion' = "none" PROVE \E n \in DOMAIN events' : Completion(n)'
      <4>1. CASE turn # "running"
        <5>1. PICK n \in DOMAIN events : Completion(n) BY <3>1, <3>11, <4>1 DEF Complete
        <5>2. n \in DOMAIN events' /\ Completion(n)' BY <1>7, <5>1 DEF Completion
        <5> QED BY <5>2
      <4>2. CASE turn = "running"
        <5>1. e.method = "turn/completed" BY <3>11, <4>2
        <5>2. Len(events) + 1 \in DOMAIN events' /\ events'[Len(events) + 1].method = "turn/completed"
          BY <1>7, <5>1
        <5> QED BY <5>2 DEF Completion
      <4> QED BY <4>1, <4>2
    <3>12. \A i \in Started' : Told(i, Len(events) + 1)'
      BY <1>7, <3>0, <3>7 DEF Told
    <3> QED BY <3>9, <3>10, <3>11, <3>12 DEF Complete
  <2> QED BY <1>7, <2>1, <2>2
<1>8. lost \in BOOLEAN BY <1>1 DEF Types
<1> QED BY <1>1, <1>6, <1>7, <1>8, SendFacts

\* What was consumed moves from the events to the rows.
LEMMA ConsumeEvidence ==
  ASSUME Inv, NEW next, events # <<>>, Consume(Head(events), next)
  PROVE  Truthful' /\ (~lost' => Complete')
<1>0. JournalInv /\ Types /\ Truthful BY DEF Inv
<1>9. PICK e : e = Head(events) OBVIOUS
<1>1. /\ Len(events) \in Nat \ {0} /\ DOMAIN events = 1..Len(events) /\ e = events[1]
      /\ DOMAIN events' = 1..(Len(events) - 1) /\ Len(events') = Len(events) - 1
      /\ \A n \in DOMAIN events' : n + 1 \in DOMAIN events /\ events'[n] = events[n + 1]
  BY <1>0, <1>9, HeadTailProperties DEF Consume, JournalInv, Events
<1>2. TrueEvent(e) /\ e \in Received BY <1>0, <1>1 DEF Truthful, JournalInv, Events
<1>3. UNCHANGED server /\ lost' = lost BY DEF Consume
<1>4. ASSUME NEW n \in DOMAIN events' PROVE TrueEvent(events[n])'
  <2>1. PICK f : f = events[n + 1] OBVIOUS
  <2>2. TrueEvent(f) BY <1>0, <1>1, <2>1 DEF Truthful
  <2>3. events'[n] = f BY <1>1, <2>1
  <2> QED BY <1>3, <2>2, <2>3 DEF TrueEvent, Reports
<1>5. CASE Reports(e)
  <2>1. PICK st \in {"STARTED", "COMPLETED"} :
          /\ RecordItem(e.item, st) /\ completion' = completion
          /\ st = "COMPLETED" => e.method = "item/completed"
    BY <1>5, <1>9 DEF Consume, Reports
  <2>2. e.item \in Items BY <1>2, <1>5 DEF TrueEvent
  <2>3. /\ \A j : InRows(j) => InRows(j)'
        /\ InRows(e.item)'
        /\ \A n \in DOMAIN rows' :
             \/ n \in DOMAIN rows /\ rows'[n] = rows[n]
             \/ rows'[n].item = e.item /\ rows'[n].state = st
    BY <1>0, <2>1, <2>2, RecordItemFacts
  <2>4. ASSUME NEW n \in DOMAIN rows' PROVE TrueRow(rows[n])'
    <3>1. CASE n \in DOMAIN rows /\ rows'[n] = rows[n]
      BY <1>0, <1>3, <3>1 DEF Truthful, TrueRow
    <3>2. CASE rows'[n].item = e.item /\ rows'[n].state = st
      BY <1>2, <1>3, <1>5, <2>1, <2>2, <3>2 DEF TrueEvent, TrueRow
    <3> QED BY <2>3, <3>1, <3>2
  <2>5. Truthful' BY <1>0, <1>3, <1>4, <2>1, <2>4 DEF Truthful
  <2>6. ASSUME ~lost PROVE Complete'
    <3>1. Complete /\ Started' = Started BY <1>3, <2>6 DEF Inv, Started
    <3>2. ASSUME NEW i, NEW n \in 1..Len(events), Told(i, n + 1) PROVE Told(i, n)'
      <4>1. CASE InRows(i) BY <2>3, <4>1 DEF Told
      <4>2. CASE ~InRows(i)
        <5>1. PICK m \in DOMAIN events : m < n + 1 /\ Reports(events[m]) /\ events[m].item = i
          BY <3>2, <4>2 DEF Told
        <5>2. CASE m = 1 BY <1>1, <2>3, <5>1, <5>2 DEF Told
        <5>3. CASE m # 1
          <6>1. m - 1 \in DOMAIN events' /\ events'[m - 1] = events[m] /\ m - 1 < n
            BY <1>1, <5>1, <5>3
          <6> QED BY <5>1, <6>1 DEF Told, Reports
        <5> QED BY <5>2, <5>3
      <4> QED BY <4>1, <4>2
    <3>3. \A i \in Started' : Told(i, Len(events) + 1)'
      <4>0. Len(events) \in 1..Len(events) BY <1>1
      <4>1. PICK k \in 1..Len(events) : k = Len(events) BY <4>0
      <4>2. \A i \in Started : Told(i, k)' BY <3>1, <3>2, <4>1 DEF Complete
      <4>3. Len(events') + 1 = k BY <1>1, <4>1
      <4> QED BY <3>1, <4>2, <4>3 DEF Told
    <3>4. ASSUME NEW n \in DOMAIN events', Completion(n)', NEW i \in Started' PROVE Told(i, n)'
      <4>1. Completion(n + 1) /\ n \in 1..Len(events) BY <1>1, <3>4 DEF Completion
      <4>2. Told(i, n + 1) BY <1>1, <3>1, <3>4, <4>1 DEF Complete, Completion
      <4> QED BY <3>2, <4>1, <4>2
    <3>5. completion' # "none" => \A i \in Started' : InRows(i)' BY <2>1, <2>3, <3>1 DEF Complete
    <3>6. ASSUME turn' # "running", completion' = "none" PROVE \E n \in DOMAIN events' : Completion(n)'
      <4>1. PICK n \in DOMAIN events : Completion(n) BY <1>3, <2>1, <3>1, <3>6 DEF Complete
      <4>2. n # 1 BY <1>1, <1>5, <4>1 DEF Completion, Reports
      <4>3. n - 1 \in DOMAIN events' /\ events'[n - 1] = events[n] BY <1>1, <4>1, <4>2
      <4> QED BY <4>1, <4>3 DEF Completion
    <3> QED BY <3>3, <3>4, <3>5, <3>6 DEF Complete
  <2> QED BY <1>3, <2>5, <2>6
<1>6. CASE e.method = "turn/completed"
  <2>1. completion' = (IF completion = "none" THEN turn ELSE completion) /\ rows' = rows
    BY <1>6, <1>9 DEF Consume
  <2>2. turn # "running" BY <1>2, <1>6 DEF TrueEvent
  <2>3. completion' # "none" /\ completion' = turn BY <1>0, <2>1 DEF Types, Truthful
  <2>4. \A n \in DOMAIN rows' : TrueRow(rows[n])' BY <1>0, <1>3, <2>1 DEF Truthful, TrueRow
  <2>5. Truthful' BY <1>3, <1>4, <2>3, <2>4 DEF Truthful
  <2>6. ASSUME ~lost PROVE Complete'
    <3>1. Complete /\ Started' = Started BY <1>3, <2>6 DEF Inv, Started
    <3>2. ASSUME NEW i \in Started PROVE InRows(i)'
      <4>1. Completion(1) /\ 1 \in DOMAIN events BY <1>1, <1>6 DEF Completion
      <4>2. Told(i, 1) BY <3>1, <4>1 DEF Complete
      <4>3. InRows(i) BY <1>1, <4>2 DEF Told
      <4> QED BY <2>1, <4>3 DEF InRows
    <3>3. \A i \in Started' : \A n : Told(i, n)' BY <3>1, <3>2 DEF Told
    <3> QED BY <2>3, <3>1, <3>2, <3>3 DEF Complete
  <2> QED BY <1>3, <2>5, <2>6
<1>7. CASE ~Reports(e) /\ e.method # "turn/completed"
  <2>1. UNCHANGED <<rows, completion>> BY <1>7, <1>9 DEF Consume, Reports
  <2>2. \A n \in DOMAIN rows' : TrueRow(rows[n])' BY <1>0, <1>3, <2>1 DEF Truthful, TrueRow
  <2>3. Truthful' BY <1>0, <1>3, <1>4, <2>1, <2>2 DEF Truthful
  <2>4. ASSUME ~lost PROVE Complete'
    <3>1. Complete /\ Started' = Started /\ \A i : InRows(i)' <=> InRows(i)
      BY <1>3, <2>1, <2>4 DEF Inv, Started, InRows
    <3>2. ASSUME NEW i, NEW n \in 1..Len(events), Told(i, n + 1) PROVE Told(i, n)'
      <4>1. CASE InRows(i) BY <3>1, <4>1 DEF Told
      <4>2. CASE ~InRows(i)
        <5>1. PICK m \in DOMAIN events : m < n + 1 /\ Reports(events[m]) /\ events[m].item = i
          BY <3>2, <4>2 DEF Told
        <5>2. m # 1 BY <1>1, <1>7, <5>1
        <5>3. m - 1 \in DOMAIN events' /\ events'[m - 1] = events[m] /\ m - 1 < n
          BY <1>1, <5>1, <5>2
        <5> QED BY <5>1, <5>3 DEF Told, Reports
      <4> QED BY <4>1, <4>2
    <3>3. \A i \in Started' : Told(i, Len(events) + 1)'
      <4>0. Len(events) \in 1..Len(events) BY <1>1
      <4>1. PICK k \in 1..Len(events) : k = Len(events) BY <4>0
      <4>2. \A i \in Started : Told(i, k)' BY <3>1, <3>2, <4>1 DEF Complete
      <4>3. Len(events') + 1 = k BY <1>1, <4>1
      <4> QED BY <3>1, <4>2, <4>3 DEF Told
    <3>4. ASSUME NEW n \in DOMAIN events', Completion(n)', NEW i \in Started' PROVE Told(i, n)'
      <4>1. Completion(n + 1) /\ n \in 1..Len(events) BY <1>1, <3>4 DEF Completion
      <4>2. Told(i, n + 1) BY <1>1, <3>1, <3>4, <4>1 DEF Complete, Completion
      <4> QED BY <3>2, <4>1, <4>2
    <3>5. completion' # "none" => \A i \in Started' : InRows(i)' BY <2>1, <3>1 DEF Complete
    <3>6. ASSUME turn' # "running", completion' = "none" PROVE \E n \in DOMAIN events' : Completion(n)'
      <4>1. PICK n \in DOMAIN events : Completion(n) BY <1>3, <2>1, <3>1, <3>6 DEF Complete
      <4>2. n # 1 BY <1>1, <1>7, <4>1 DEF Completion
      <4>3. n - 1 \in DOMAIN events' /\ events'[n - 1] = events[n] BY <1>1, <4>1, <4>2
      <4> QED BY <4>1, <4>3 DEF Completion
    <3> QED BY <3>3, <3>4, <3>5, <3>6 DEF Complete
  <2> QED BY <1>3, <2>3, <2>4
<1> QED BY <1>5, <1>6, <1>7

\* Every step keeps what the events and rows tell.
LEMMA EvidenceStep ==
  ASSUME Inv, Next
  PROVE  Truthful' /\ (~lost' => Complete')
<1>0. JournalInv /\ Types /\ Truthful BY DEF Inv
<1>1. /\ \A i \in Items : /\ Event("item/started", i) \in Received
                          /\ Event("item/completed", i) \in Received
                          /\ Event("item/started", i).item = i /\ Event("item/completed", i).item = i
                          /\ Event("item/started", i).method = "item/started"
                          /\ Event("item/completed", i).method = "item/completed"
      /\ Event("turn/completed", 0) \in Received /\ Event("requestUserInput", 0) \in Received
      /\ Event("turn/completed", 0).method = "turn/completed"
      /\ Event("requestUserInput", 0).method = "requestUserInput"
  BY DEF Event, Received, Methods
<1>2. ASSUME NEW i \in Items, StartItem(i) PROVE Truthful' /\ (~lost' => Complete')
  <2>1. PICK e \in Received : e = Event("item/started", i) BY <1>1
  <2>2. Reports(e) /\ e.item = i /\ e.method = "item/started" BY <1>1, <2>1 DEF Reports
  <2>3. /\ turn = "running" /\ istate[i] = "new" /\ istate' = [istate EXCEPT ![i] = "started"]
        /\ Send(e) /\ UNCHANGED <<turn, store>>
    BY <1>2, <2>1 DEF StartItem
  <2>4. istate'[i] = "started" /\ \A j \in Items \ {i} : istate'[j] = istate[j]
    BY <1>0, <2>3 DEF Types
  <2>5. TrueEvent(e)' BY <2>2, <2>4 DEF TrueEvent, Reports
  <2> QED BY <2>2, <2>3, <2>4, <2>5, SendEvidence
<1>3. ASSUME NEW i \in Items, CompleteItem(i) PROVE Truthful' /\ (~lost' => Complete')
  <2>1. PICK e \in Received : e = Event("item/completed", i) BY <1>1
  <2>2. Reports(e) /\ e.item = i /\ e.method = "item/completed" BY <1>1, <2>1 DEF Reports
  <2>3. /\ istate[i] = "started" /\ istate' = [istate EXCEPT ![i] = "completed"]
        /\ Send(e) /\ UNCHANGED <<turn, store>>
    BY <1>3, <2>1 DEF CompleteItem
  <2>4. istate'[i] = "completed" /\ \A j \in Items \ {i} : istate'[j] = istate[j]
    BY <1>0, <2>3 DEF Types
  <2>5. TrueEvent(e)' BY <2>2, <2>4 DEF TrueEvent, Reports
  <2> QED BY <2>2, <2>3, <2>4, <2>5, SendEvidence
<1>4. ASSUME NEW status \in {"completed", "failed"}, EndTurn(status) PROVE Truthful' /\ (~lost' => Complete')
  <2>1. PICK e \in Received : e = Event("turn/completed", 0) BY <1>1
  <2>2. ~Reports(e) /\ e.method = "turn/completed" BY <1>1, <2>1 DEF Reports
  <2>3. turn = "running" /\ turn' = status /\ Send(e) /\ UNCHANGED <<istate, store>>
    BY <1>4, <2>1 DEF EndTurn
  <2>4. TrueEvent(e)' BY <2>2, <2>3 DEF TrueEvent, Reports
  <2> QED BY <2>2, <2>3, <2>4, SendEvidence
<1>5. ASSUME NEW e \in Received, TrueEvent(e), Send(e), UNCHANGED <<server, store>>
      PROVE  Truthful' /\ (~lost' => Complete')
  <2>1. TrueEvent(e)' BY <1>5 DEF TrueEvent, Reports
  <2> QED BY <1>5, <2>1, SendEvidence
<1>6. CASE AskUser
  <2>1. PICK e \in Received : e = Event("requestUserInput", 0) BY <1>1
  <2>2. TrueEvent(e) BY <1>1, <2>1 DEF TrueEvent, Reports
  <2> QED BY <1>5, <1>6, <2>1, <2>2 DEF AskUser
<1>7. CASE Repeat
  <2>1. PICK e : /\ Send(e) /\ UNCHANGED <<server, store>>
                 /\ \/ \E i \in Items : istate[i] # "new" /\ e = Event("item/started", i)
                    \/ \E i \in Items : istate[i] = "completed" /\ e = Event("item/completed", i)
                    \/ turn # "running" /\ e = Event("turn/completed", 0)
    BY <1>7 DEF Repeat
  <2>2. e \in Received /\ TrueEvent(e) BY <1>1, <2>1 DEF TrueEvent, Reports
  <2> QED BY <1>5, <2>1, <2>2
<1>8. CASE TakeEvent BY <1>8, ConsumeEvidence DEF TakeEvent
<1>9. CASE DrainEvent BY <1>9, ConsumeEvidence DEF DrainEvent, Drains
<1>10. CASE UNCHANGED <<server, store, events, lost>> BY <1>0, <1>10, QuietEvidence
<1>11. CASE TaskBroken BY <1>11, QuietEvidence DEF TaskBroken
<1>12. CASE TakenByAnother
  <2>1. events # <<>> /\ events' = Tail(events) /\ lost' = TRUE /\ UNCHANGED <<server, store>>
    BY <1>12 DEF TakenByAnother
  <2>2. \A n \in DOMAIN events' : n + 1 \in DOMAIN events /\ events'[n] = events[n + 1]
    BY <1>0, <2>1, HeadTailProperties DEF JournalInv, Events
  <2> QED BY <2>1, <2>2, QuietEvidence
<1>13. ASSUME DropEvents, UNCHANGED <<server, store>> PROVE Truthful' /\ (~lost' => Complete')
  <2>1. events' = <<>> /\ DOMAIN events' = {} BY <1>13 DEF DropEvents
  <2>2. CASE events = <<>>
    <3>1. lost' \in {lost, TRUE} BY <1>0, <1>13, <2>2 DEF DropEvents, Types
    <3> QED BY <1>13, <2>1, <2>2, <3>1, QuietEvidence
  <2>3. CASE events # <<>>
    <3>1. lost' = TRUE BY <1>0, <1>13, <2>3 DEF DropEvents, Types
    <3> QED BY <1>13, <2>1, <3>1, QuietEvidence
  <2> QED BY <2>2, <2>3
<1>14. CASE Reconnect \/ Crash BY <1>13, <1>14 DEF Reconnect, Crash
<1>15. CASE Summary BY <1>10, <1>13, <1>15 DEF Summary
<1>16. UNCHANGED <<server, store, events, lost>> \/ ~(Wait \/ CheckDeadline \/ PrepareFails \/ Resume \/ Cancel \/ Restart)
       \/ TakeEvent \/ DrainEvent \/ Summary
  BY DEF Wait, CheckCancelled, CheckEvidence, CheckHistory, PollTimesOut, DrainEnds, Prepare, CheckDeadline,
     PrepareFails, Resume, Cancel, Restart
<1> QED
  BY <1>2, <1>3, <1>4, <1>6, <1>7, <1>8, <1>9, <1>10, <1>11, <1>12, <1>14, <1>15, <1>16
  DEF Next, AppServer

\* Every step keeps the types.
LEMMA TypesStep ==
  ASSUME Inv, Next
  PROVE  Types'
<1> USE DEF Waiting, Done, Paused
<1>0. JournalInv /\ Types /\ Truthful BY DEF Inv
<1>1. AtServer \subseteq Items /\ CompletedRows \subseteq Items /\ EventTurn \subseteq Items /\ History \subseteq Items
  BY <1>0 DEF AtServer, CompletedRows, EventTurn, History, Truthful, TrueRow
<1>2. \A s \in SUBSET {CompletedRows, EventTurn, History} :
        Return(s) => pc' \in {"failed", "accepted"} /\ accepted' \subseteq Items
  BY <1>1 DEF Return, Merged
<1>3. /\ {CompletedRows, EventTurn} \in SUBSET {CompletedRows, EventTurn, History}
      /\ {CompletedRows, EventTurn, History} \in SUBSET {CompletedRows, EventTurn, History}
      /\ {History} \in SUBSET {CompletedRows, EventTurn, History}
  OBVIOUS
<1>4. CASE CheckEvidence BY <1>0, <1>2, <1>3, <1>4 DEF CheckEvidence, Types
<1>5. CASE DrainEnds BY <1>0, <1>2, <1>3, <1>5 DEF DrainEnds, Types
<1>6. ASSUME NEW i \in Items, StartItem(i) \/ CompleteItem(i) PROVE Types'
  BY <1>0, <1>6 DEF StartItem, CompleteItem, Send, Types
<1>7. CASE EndTurn("completed") \/ EndTurn("failed")
  <2>1. CASE EndTurn("completed")
    BY <1>0, <2>1 DEF EndTurn, Send, Types
  <2>2. CASE EndTurn("failed")
    BY <1>0, <2>2 DEF EndTurn, Send, Types
  <2> QED BY <1>7, <2>1, <2>2
<1>8. CASE AskUser \/ Repeat
  <2>1. CASE AskUser
    BY <1>0, <2>1 DEF AskUser, Send, Types
  <2>2. CASE Repeat
    <3>1. lost' \in BOOLEAN
      BY <1>0, <2>2 DEF Repeat, Send, Types
    <3>2. UNCHANGED <<task, kind, istate, turn, listening, completion, pc, cancelled, accepted>>
      BY <2>2 DEF Repeat
    <3> QED BY <1>0, <3>1, <3>2 DEF Types
  <2> QED BY <1>8, <2>1, <2>2
<1>9. ASSUME NEW next \in {"check", "drain"}, Consume(Head(events), next), events # <<>> PROVE Types'
  <2>1. PICK e : e = Head(events) OBVIOUS
  <2>2. TrueEvent(e)
    BY <1>0, <1>9, <2>1, HeadTailProperties DEF Truthful, JournalInv, Events
  <2>3. completion' \in {"none", "completed", "failed"}
    BY <1>0, <1>9, <2>1, <2>2 DEF Consume, Types, TrueEvent
  <2> QED BY <1>0, <1>9, <2>1, <2>3 DEF Consume, Types
<1>10. CASE TakeEvent \/ DrainEvent BY <1>9, <1>10 DEF TakeEvent, DrainEvent, Drains
<1>11. CASE Summary \/ TaskBroken \/ TakenByAnother \/ Reconnect \/ Crash
  <2>1. CASE Summary
    <3>1. lost' \in BOOLEAN /\ listening' \in BOOLEAN /\ pc' \in {"check", "retried"}
      BY <1>0, <2>1 DEF Summary, DropEvents, Types
    <3>2. UNCHANGED <<task, kind, istate, turn, completion, cancelled, accepted>>
      BY <2>1 DEF Summary
    <3> QED BY <1>0, <3>1, <3>2 DEF Types
  <2>2. CASE TaskBroken
    BY <1>0, <2>2 DEF TaskBroken, Types
  <2>3. CASE TakenByAnother
    BY <1>0, <2>3 DEF TakenByAnother, Types
  <2>4. CASE Reconnect
    BY <1>0, <2>4 DEF Reconnect, DropEvents, Types
  <2>5. CASE Crash
    BY <1>0, <2>5 DEF Crash, DropEvents, Types
  <2> QED BY <1>11, <2>1, <2>2, <2>3, <2>4, <2>5
<1>12. CASE CheckCancelled \/ CheckHistory \/ PollTimesOut \/ Prepare
  <2>1. CASE CheckCancelled
    BY <1>0, <2>1 DEF CheckCancelled, Types
  <2>2. CASE CheckHistory
    BY <1>0, <2>2 DEF CheckHistory, Types
  <2>3. CASE PollTimesOut
    BY <1>0, <2>3 DEF PollTimesOut, Types
  <2>4. CASE Prepare
    BY <1>0, <2>4 DEF Prepare, Types
  <2> QED BY <1>12, <2>1, <2>2, <2>3, <2>4
<1>13. CASE CheckDeadline \/ PrepareFails \/ Resume \/ Cancel \/ Restart
  <2>1. CASE CheckDeadline
    BY <1>0, <2>1 DEF CheckDeadline, Types
  <2>2. CASE PrepareFails
    BY <1>0, <2>2 DEF PrepareFails, Types
  <2>3. CASE Resume
    BY <1>0, <2>3 DEF Resume, Types
  <2>4. CASE Cancel
    BY <1>0, <2>4 DEF Cancel, Types
  <2>5. CASE Restart
    BY <1>0, <2>5 DEF Restart, Types
  <2> QED BY <1>13, <2>1, <2>2, <2>3, <2>4, <2>5
<1> QED
  BY <1>4, <1>5, <1>6, <1>7, <1>8, <1>10, <1>11, <1>12, <1>13 DEF Next, Wait, AppServer

\* A turn is drained or accepted after it ended, and its evidence was complete when it was accepted.
LEMMA AcceptanceStep ==
  ASSUME Inv, Next
  PROVE  Places' /\ Accounted'
<1>0. JournalInv /\ Types /\ Truthful /\ Places BY DEF Inv
<1>1. turn # "running" => turn' = turn
  BY DEF Next, Wait, AppServer, StartItem, CompleteItem, EndTurn, AskUser, Repeat, CheckCancelled,
     CheckEvidence, CheckHistory, CheckDeadline, Consume, TakeEvent, PollTimesOut, Summary, TaskBroken,
     DrainEvent, DrainEnds, TakenByAnother, Resume, Prepare, PrepareFails, Cancel, Reconnect, Crash, Restart
<1>2. task' = task /\ kind' = kind
  BY DEF Next, Wait, AppServer, StartItem, CompleteItem, EndTurn, AskUser, Repeat, CheckCancelled,
     CheckEvidence, CheckHistory, CheckDeadline, Consume, TakeEvent, PollTimesOut, Summary, TaskBroken,
     DrainEvent, DrainEnds, TakenByAnother, Resume, Prepare, PrepareFails, Cancel, Reconnect, Crash, Restart
<1>3. ASSUME ~Incomplete, NEW n \in DOMAIN rows, kind[rows[n].item] = "command"
      PROVE  rows[n].item \in CompletedRows /\ istate[rows[n].item] = "completed"
  <2>1. rows[n].state = "COMPLETED" BY <1>3 DEF Incomplete
  <2> QED BY <1>0, <2>1 DEF CompletedRows, Truthful, TrueRow
<1>4. ASSUME ~Incomplete, completion # "none", CompletedRows \subseteq accepted',
             UNCHANGED <<server, store, lost>>
      PROVE  Accounted'
  <2>1. StartedCommandsAreAccounted' BY <1>3, <1>4 DEF StartedCommandsAreAccounted, Commands
  <2>2. ASSUME ~lost, NEW i \in Items, kind[i] = "command", istate[i] # "new" PROVE i \in accepted'
    <3>1. PICK n \in DOMAIN rows : rows[n].item = i
      BY <1>4, <2>2 DEF Inv, Complete, Started, InRows
    <3> QED BY <1>3, <1>4, <2>2, <3>1
  <2>3. NothingIsHidden' BY <1>4, <2>2 DEF NothingIsHidden, Commands
  <2> QED BY <2>1, <2>3 DEF Accounted
<1>5. CASE CheckEvidence
  <2>1. pc' # "drain" BY <1>5 DEF CheckEvidence, Return
  <2>2. CASE pc' # "accepted"
    BY <2>1, <2>2 DEF Places, Accounted, StartedCommandsAreAccounted, NothingIsHidden
  <2>3. CASE pc' = "accepted"
    <3>1. completion = "completed" /\ ~Incomplete /\ Return({CompletedRows, EventTurn})
          /\ UNCHANGED <<server, store, lost>>
      BY <1>5, <2>3 DEF CheckEvidence
    <3>2. CompletedRows \subseteq accepted' BY <2>3, <3>1 DEF Return, Merged
    <3>3. turn' # "running" BY <1>0, <3>1 DEF Truthful
    <3> QED BY <1>4, <2>1, <3>1, <3>2, <3>3 DEF Places
  <2> QED BY <2>2, <2>3
<1>6. CASE DrainEnds
  <2>1. turn = "completed" /\ ~task.ephemeral /\ pc' # "drain" /\ UNCHANGED <<server, store, lost, events>>
    BY <1>0, <1>6 DEF DrainEnds, Return, Places
  <2>2. CASE pc' # "accepted"
    BY <2>1, <2>2 DEF Places, Accounted, StartedCommandsAreAccounted, NothingIsHidden
  <2>3. CASE pc' = "accepted" /\ completion # "none"
    <3>1. ~Incomplete /\ Return({CompletedRows, EventTurn, History})
      BY <1>6, <2>3 DEF DrainEnds
    <3>2. CompletedRows \subseteq accepted' BY <2>3, <3>1 DEF Return, Merged
    <3> QED BY <1>4, <2>1, <2>3, <3>1, <3>2 DEF Places
  <2>4. CASE pc' = "accepted" /\ completion = "none"
    <3>1. events = <<>> BY <1>6, <2>4 DEF DrainEnds, Drains
    <3>2. DOMAIN events = {} BY <3>1
    <3>3. lost BY <2>1, <2>4, <3>2 DEF Inv, Complete
    <3> QED BY <2>1, <3>3 DEF Places, Accounted, StartedCommandsAreAccounted, NothingIsHidden
  <2> QED BY <2>2, <2>3, <2>4
<1>7. CASE pc = "accepted"
  <2>1. UNCHANGED <<pc, accepted, rows, istate>> /\ (lost => lost')
    BY <1>0, <1>7 DEF Places, Paused, Waiting, Spend, Send, Next, Wait, AppServer, StartItem, CompleteItem, EndTurn,
       AskUser, Repeat, CheckCancelled, CheckEvidence, CheckHistory, CheckDeadline, TakeEvent,
       PollTimesOut, Summary, TaskBroken, DrainEvent, DrainEnds, TakenByAnother, Resume, Prepare,
       PrepareFails, Cancel, Reconnect, Crash, Restart
  <2> QED
    BY <1>0, <1>1, <1>2, <1>7, <2>1
    DEF Inv, Places, Accounted, StartedCommandsAreAccounted, NothingIsHidden, Commands
<1>8. CASE pc # "accepted" /\ ~CheckEvidence /\ ~DrainEnds
  <2>1. pc' # "accepted"
    BY <1>8 DEF Next, Wait, AppServer, StartItem, CompleteItem, EndTurn, AskUser, Repeat, CheckCancelled,
     CheckHistory, CheckDeadline, Consume, TakeEvent, PollTimesOut, Summary, TaskBroken,
     DrainEvent, TakenByAnother, Resume, Prepare, PrepareFails, Cancel, Reconnect, Crash, Restart
  <2>2. pc' = "drain" => pc = "drain" \/ CheckHistory
    BY <1>8 DEF Next, Wait, AppServer, StartItem, CompleteItem, EndTurn, AskUser, Repeat, CheckCancelled,
     CheckDeadline, Consume, TakeEvent, PollTimesOut, Summary, TaskBroken,
     DrainEvent, TakenByAnother, Resume, Prepare, PrepareFails, Cancel, Reconnect, Crash, Restart
  <2>3. CheckHistory /\ pc' = "drain" => turn = "completed" /\ ~task.ephemeral
    BY <1>0 DEF CheckHistory, Types
  <2>4. Places' BY <1>0, <1>1, <1>2, <2>1, <2>2, <2>3 DEF Places
  <2> QED BY <2>1, <2>4 DEF Accounted, StartedCommandsAreAccounted, NothingIsHidden
<1> QED BY <1>5, <1>6, <1>7, <1>8

\* The rows and the events still to come tell everything, in every reachable state.
THEOREM Invariance == Spec => []Inv
<1>1. Init => Inv
  <2> SUFFICES ASSUME Init PROVE Inv OBVIOUS
  <2>1. DOMAIN events = {} /\ DOMAIN rows = {} BY DEF Init
  <2>2. JournalInv BY DEF Init, JournalInv, Events
  <2>3. Types BY DEF Init, Types, Waiting
  <2>4. Truthful BY <2>1 DEF Init, Truthful
  <2>5. Started = {} BY DEF Init, Started
  <2>6. Complete BY <2>1, <2>5 DEF Init, Complete
  <2>7. Places /\ Accounted BY DEF Init, Places, Accounted, StartedCommandsAreAccounted, NothingIsHidden
  <2> QED BY <2>2, <2>3, <2>4, <2>6, <2>7 DEF Inv
<1>2. Inv /\ [Next]_vars => Inv'
  <2> SUFFICES ASSUME Inv, [Next]_vars PROVE Inv' OBVIOUS
  <2>1. JournalInv' BY JournalStep DEF Inv
  <2>2. CASE Next BY <2>1, <2>2, EvidenceStep, TypesStep, AcceptanceStep DEF Inv
  <2>3. CASE UNCHANGED vars
    <3>1. Truthful' /\ (~lost' => Complete') BY <2>3, QuietEvidence DEF vars
    <3>2. Types' /\ Places' BY <2>3 DEF vars, Inv, Types, Places
    <3>3. Accounted'
      BY <2>3 DEF vars, Inv, Accounted, StartedCommandsAreAccounted, NothingIsHidden, Commands
    <3> QED BY <2>1, <3>1, <3>2, <3>3 DEF Inv
  <2> QED BY <2>2, <2>3
<1> QED BY <1>1, <1>2, PTL DEF Spec

\* Every state variable has its type.
THEOREM TypeCorrect == Spec => []TypeOK
<1>1. ASSUME Inv PROVE TypeOK
  <2>0. /\ \A n \in DOMAIN events : events[n] \in Received
        /\ \A n \in DOMAIN rows : rows[n] \in Row
    BY <1>1 DEF Inv, JournalInv, Events
  <2>1. \A n \in DOMAIN events : events[n].item \in Items \cup {0}
    BY <2>0 DEF Received
  <2>2. \A n \in DOMAIN rows : rows[n].item \in Items /\ rows[n].state \in {"STARTED", "COMPLETED"}
    BY <1>1, <2>0 DEF Inv, Row, Truthful, TrueRow
  <2> QED BY <1>1, <2>1, <2>2 DEF Inv, Types, TypeOK
<1> QED BY <1>1, Invariance, PTL

\* turn_event_evidence refuses what it cannot account for: a command with a row is in the evidence
\* of an accepted turn and has completed, whatever was lost of an ephemeral turn.
THEOREM StartedCommandsAreAccountedHolds == Spec => []StartedCommandsAreAccounted
<1>1. Inv => StartedCommandsAreAccounted BY DEF Inv, Accounted
<1> QED BY <1>1, Invariance, PTL

\* The audit sees every command the participant ran: the waits take all events up to the completion
\* before they accept, so nothing is hidden unless an event is lost.
THEOREM NothingIsHiddenHolds == Spec => []NothingIsHidden
<1>1. Inv => NothingIsHidden BY DEF Inv, Accounted
<1> QED BY <1>1, Invariance, PTL

-----------------------------------------------------------------------------
(* The events of a run *)

\* What the run's events tell.
RuleKinds == {"primary_contract_ready", "reviewer_contract_ready", "plan_proposed",
              "plan_changes_required", "plan_approved", "integration_ready", "verification_failed",
              "verification_passed", "result_changes_required", "result_approved",
              "waiting_for_task", "task_completed", "state_changed"}

StopKinds == {"accepted", "blocked", "paused_user_action", "cancelled", "incompatible_codex"}

Evidence == {"none", "passed", "failed"}

\* Events of the run and of other runs.
Entry == [own : {TRUE}, kind : RuleKinds \cup StopKinds \cup {"run_started"}, status : Statuses,
          sha : Nat, evidence : Evidence]
         \cup [own : {FALSE}]

Client == [watch : BOOLEAN, at : {"ask", "row", "answer", "done"}, cursor : Nat,
           events : Seq(Nat), row : Snapshots \cup {None}, seen : Seq(Nat)]

StoryTypes ==
  /\ run \in Runs /\ log \in Seq(Entry)
  /\ client \in [Clients -> Client]

\* The last event of the run tells its state, and only the first one its start.
LogInv ==
  /\ Len(log) >= 1 /\ log[1].own
  /\ \A n \in 2..Len(log) : log[n].own => log[n].kind # "run_started"
  /\ \A n \in DOMAIN log :
       log[n].own /\ (\A m \in n + 1..Len(log) : ~log[m].own) => log[n].status = run.status

\* The start of the run, or the cursor of one of its events.
Reached(n) == n \in 0..Len(log) /\ (n > 0 => log[n].own)

\* Where a client's cursor is once it has taken the events in its hand.
Ahead(now) == IF now.events = <<>> THEN now.cursor ELSE now.events[Len(now.events)]

\* A client has the events up to its cursor, and in hand those that follow.
Reading(now) ==
  /\ Reached(now.cursor) /\ Lists(now.seen, Own(1, now.cursor))
  /\ Reached(Ahead(now)) /\ Ahead(now) >= now.cursor
  /\ Lists(now.events, Own(now.cursor + 1, Ahead(now)))
  /\ Len(now.events) <= MaxBatch
  /\ now.at \in {"ask", "done"} => now.events = <<>>

\* Its snapshot is of an event that is not before those in hand.
Informed(now) ==
  /\ now.row = None <=> now.at \in {"ask", "row"}
  /\ now.at \in {"answer", "done"} =>
       /\ Reached(now.row.latest) /\ now.row.latest >= Ahead(now) /\ now.row.latest >= 1
       /\ log[now.row.latest].status = now.row.status
  /\ now.at = "done" /\ ~now.watch => now.cursor = now.row.latest

ClientInv == \A c \in Clients : Reading(client[c]) /\ Informed(client[c])

\* Where the run is, or would be again.
Stage == IF run.action = "stop" THEN run.back ELSE run.action

Integrated(i, sha) == log[i].own /\ log[i].sha = sha /\ log[i].kind = "integration_ready"

Tested(v, sha) ==
  log[v].own /\ log[v].sha = sha /\ log[v].kind = "verification_passed" /\ log[v].evidence = "passed"

Approved(a, sha) == log[a].own /\ log[a].sha = sha /\ log[a].kind = "result_approved"

\* The events tell how the run's commit came to its stage.
StageInv ==
  /\ run.action # "stop" => run.back = None
  /\ Stage = "verify" =>
       run.evidence # "passed" /\ \E i \in DOMAIN log : Integrated(i, run.sha)
  /\ Stage = "review" =>
       \E i, v \in DOMAIN log : i < v /\ Integrated(i, run.sha) /\ Tested(v, run.sha)
  /\ Stage = "accept" =>
       \E i, v, a \in DOMAIN log :
         i < v /\ v < a /\ Integrated(i, run.sha) /\ Tested(v, run.sha) /\ Approved(a, run.sha)

\* So do those before the event of an accepted run.
AcceptedStory ==
  \A n \in DOMAIN log : log[n].own /\ log[n].kind = "accepted" =>
    \E i, v, a \in 1..n - 1 :
      i < v /\ v < a /\ Integrated(i, log[n].sha) /\ Tested(v, log[n].sha) /\ Approved(a, log[n].sha)

\* The inductive invariant of the run's events.
StoryInv ==
  StoryTypes /\ LogInv /\ ClientInv /\ StageInv /\ AcceptedStory

USE EventsAssumption DEF EventsAssumption

-----------------------------------------------------------------------------
(* The rules *)

\* A set of natural numbers that is not empty has a least element.
LEMMA LeastNumber ==
  ASSUME NEW T \in SUBSET Nat, T # {}
  PROVE  \E k \in T : \A m \in T : k <= m
<1>1. PICK k \in T : \A m \in T : <<m, k>> \notin OpToRel(<, Nat)
  BY WFMin, NatLessThanWellFounded, Zenon
<1>2. \A m \in T : ~(m < k)
  BY <1>1, Zenon DEF OpToRel
<1> QED BY <1>2

\* The first rule that applies is the one that is chosen.
LEMMA FirstRule ==
  ASSUME NEW before, NEW now
  PROVE  \E n \in 1..13 : Chosen(n, before, now)
<1> DEFINE T == {n \in 1..13 : Applies(RuleOrder[n], before, now)}
<1>1. T \in SUBSET Nat /\ T # {}
  <2>1. RuleOrder[13] = "state_changed"
    BY DEF RuleOrder
  <2>2. 13 \in T
    BY <2>1 DEF Applies
  <2> QED BY <2>2
<1>2. PICK k \in T : \A m \in T : k <= m
  <2> HIDE DEF T
  <2> QED BY <1>1, LeastNumber
<1>3. \A m \in 1..k - 1 : ~Applies(RuleOrder[m], before, now)
  BY <1>2
<1> QED BY <1>2, <1>3 DEF Chosen

\* The rules in their order.
LEMMA RuleNames ==
  /\ DOMAIN RuleOrder = 1..13 /\ \A n \in 1..13 : RuleOrder[n] \in RuleKinds
  /\ RuleOrder[1] = "primary_contract_ready" /\ RuleOrder[2] = "reviewer_contract_ready"
  /\ RuleOrder[3] = "plan_proposed" /\ RuleOrder[4] = "plan_changes_required"
  /\ RuleOrder[5] = "plan_approved" /\ RuleOrder[6] = "integration_ready"
  /\ RuleOrder[7] = "verification_failed" /\ RuleOrder[8] = "verification_passed"
  /\ RuleOrder[9] = "result_changes_required" /\ RuleOrder[10] = "result_approved"
BY DEF RuleOrder, RuleKinds

\* An event of a run that goes on has the kind of its first rule.
LEMMA KindOfRule ==
  ASSUME NEW before, before # None, NEW now, now.status \notin DOMAIN Stopped
  PROVE  /\ Kind(before, now) \in RuleKinds
         /\ \A n \in 1..13 : Chosen(n, before, now) => Kind(before, now) = RuleOrder[n]
<1> DEFINE k == CHOOSE n \in DOMAIN RuleOrder : Chosen(n, before, now)
<1>1. k \in 1..13 /\ Chosen(k, before, now)
  BY FirstRule, RuleNames
<1>2. \A n \in 1..13 : Chosen(n, before, now) => n = k
  <2> HIDE DEF k
  <2>1. SUFFICES ASSUME NEW n \in 1..13, Chosen(n, before, now), n # k PROVE FALSE
    OBVIOUS
  <2>2. CASE n < k
    <3>1. n \in 1..k - 1
      BY <1>1, <2>2
    <3> QED BY <1>1, <2>1, <3>1 DEF Chosen
  <2>3. CASE k < n
    <3>1. k \in 1..n - 1
      BY <1>1, <2>3
    <3> QED BY <1>1, <2>1, <3>1 DEF Chosen
  <2>4. n < k \/ k < n
    BY <1>1, <2>1
  <2> QED BY <2>2, <2>3, <2>4
<1>3. Kind(before, now) = RuleOrder[k]
  BY DEF Kind
<1> QED BY <1>1, <1>2, <1>3, RuleNames

\* The kinds by which a run that was accepted is explained.
LEMMA KindsOfResult ==
  ASSUME NEW before, before # None, NEW now, now.status \notin DOMAIN Stopped,
         before.contracts \in Nat, now.contracts = before.contracts, now.plan = before.plan,
         now.planFeedback = before.planFeedback, now.approved = before.approved
  PROVE  /\ now.sha # before.sha => Kind(before, now) = "integration_ready"
         /\ now.sha = before.sha /\ now.evidence # before.evidence /\ now.evidence = "passed" =>
              Kind(before, now) = "verification_passed"
         /\ now.sha = before.sha /\ now.evidence = before.evidence /\ now.feedback = before.feedback
              /\ before.action # "accept" /\ now.action = "accept" =>
              Kind(before, now) = "result_approved"
<1>1. \A n \in 1..5 : ~Applies(RuleOrder[n], before, now)
  <2>1. TAKE n \in 1..5
  <2>2. RuleOrder[n] \in {"primary_contract_ready", "reviewer_contract_ready", "plan_proposed",
                          "plan_changes_required", "plan_approved"}
    BY RuleNames
  <2> QED BY <2>2 DEF Applies
<1>2. ASSUME now.sha # before.sha PROVE Kind(before, now) = "integration_ready"
  <2>1. Applies(RuleOrder[6], before, now)
    BY <1>2, RuleNames DEF Applies
  <2>2. Chosen(6, before, now)
    BY <1>1, <2>1 DEF Chosen
  <2> QED BY <2>2, KindOfRule, RuleNames
<1>3. ASSUME now.sha = before.sha, now.evidence # before.evidence, now.evidence = "passed"
      PROVE  Kind(before, now) = "verification_passed"
  <2>1. /\ Applies(RuleOrder[8], before, now)
        /\ ~Applies(RuleOrder[6], before, now) /\ ~Applies(RuleOrder[7], before, now)
    BY <1>3, RuleNames DEF Applies
  <2>2. Chosen(8, before, now)
    BY <1>1, <2>1 DEF Chosen
  <2> QED BY <2>2, KindOfRule, RuleNames
<1>4. ASSUME now.sha = before.sha, now.evidence = before.evidence, now.feedback = before.feedback,
             before.action # "accept", now.action = "accept"
      PROVE  Kind(before, now) = "result_approved"
  <2>1. /\ Applies(RuleOrder[10], before, now)
        /\ ~Applies(RuleOrder[6], before, now) /\ ~Applies(RuleOrder[7], before, now)
        /\ ~Applies(RuleOrder[8], before, now) /\ ~Applies(RuleOrder[9], before, now)
    BY <1>4, RuleNames DEF Applies
  <2>2. Chosen(10, before, now)
    BY <1>1, <2>1 DEF Chosen
  <2> QED BY <2>2, KindOfRule, RuleNames
<1> QED BY <1>2, <1>3, <1>4

\* The events with which a run stops.
LEMMA StoppedKinds ==
  /\ DOMAIN Stopped = {"ACCEPTED", "BLOCKED", "PAUSED", "CANCELLED", "INCOMPATIBLE"}
  /\ \A status \in DOMAIN Stopped :
       Stopped[status] \in StopKinds /\ (Stopped[status] = "accepted" => status = "ACCEPTED")
BY DEF Stopped, StopKinds

\* The event of a save.
LEMMA EventEntry ==
  ASSUME run \in Runs, NEW now \in Runs, NEW event, event = ProgressEvent(run, now)
  PROVE  /\ event \in Entry /\ event.own = TRUE /\ event.status = now.status /\ event.sha = now.sha
         /\ event.evidence = now.evidence /\ event.kind = Kind(run, now) /\ event.kind # "run_started"
         /\ event.kind = "accepted" => now.status = "ACCEPTED"
<1>1. /\ Kind(run, now) \in RuleKinds \cup StopKinds
      /\ Kind(run, now) = "accepted" => now.status = "ACCEPTED"
  <2>1. CASE now.status \in DOMAIN Stopped
    <3>1. Kind(run, now) = Stopped[now.status]
      BY <2>1 DEF Kind
    <3> QED BY <2>1, <3>1, StoppedKinds
  <2>2. CASE now.status \notin DOMAIN Stopped
    <3>1. Kind(run, now) \in RuleKinds
      BY <2>2, KindOfRule, EventsAssumption
    <3>2. "accepted" \notin RuleKinds
      BY DEF RuleKinds
    <3> QED BY <3>1, <3>2
  <2> QED BY <2>1, <2>2
<1>2. now.status \in Statuses /\ now.sha \in Nat /\ now.evidence \in Evidence
  BY DEF Runs, Evidence
<1>3. "run_started" \notin RuleKinds \cup StopKinds
  BY DEF RuleKinds, StopKinds
<1>4. event = [own |-> TRUE, kind |-> Kind(run, now), status |-> now.status, sha |-> now.sha,
               evidence |-> now.evidence]
  BY DEF ProgressEvent
<1>5. event \in Entry
  <2>1. \A name \in RuleKinds \cup StopKinds, status \in Statuses, sha \in Nat, evidence \in Evidence :
          [own |-> TRUE, kind |-> name, status |-> status, sha |-> sha, evidence |-> evidence] \in Entry
    BY DEF Entry
  <2> QED BY <1>1, <1>2, <1>4, <2>1, Zenon
<1>6. event.own = TRUE /\ event.status = now.status /\ event.sha = now.sha
      /\ event.evidence = now.evidence /\ event.kind = Kind(run, now)
  BY <1>4
<1> QED BY <1>1, <1>3, <1>5, <1>6

-----------------------------------------------------------------------------
(* Saves of the run *)

\* No event changes or goes.
LogGrows ==
  /\ Len(log') >= Len(log) /\ log' \in Seq(Entry)
  /\ \A n \in DOMAIN log : n \in DOMAIN log' /\ log'[n] = log[n]

\* An event that is appended leaves those before it alone.
LEMMA Appended ==
  ASSUME log \in Seq(Entry), NEW event \in Entry, log' = Append(log, event)
  PROVE  /\ LogGrows /\ Len(log') = Len(log) + 1 /\ log'[Len(log) + 1] = event
         /\ DOMAIN log = 1..Len(log) /\ DOMAIN log' = 1..Len(log) + 1
  BY DEF LogGrows

\* The events between two cursors of the log stay what they are.
LEMMA OwnKept ==
  ASSUME LogGrows, log \in Seq(Entry), NEW low \in Nat, low >= 1, NEW high \in Nat, high <= Len(log)
  PROVE  {n \in low..high : log'[n].own} = Own(low, high)
<1>1. \A n \in low..high : log'[n] = log[n]
  BY DEF LogGrows
<1> QED BY <1>1 DEF Own

\* What a client has read stays so.
LEMMA ClientsKept ==
  ASSUME StoryInv, LogGrows, client' = client
  PROVE  ClientInv'
<1>1. SUFFICES ASSUME NEW c \in Clients PROVE (Reading(client[c]) /\ Informed(client[c]))'
  BY DEF ClientInv
<1> DEFINE now == client[c]
<1>2. Reading(now) /\ Informed(now) /\ now \in Client /\ log \in Seq(Entry)
  BY DEF StoryInv, StoryTypes, ClientInv
<1>3. now' = now
  OBVIOUS
<1> HIDE DEF now
<1>4. DOMAIN log = 1..Len(log) /\ Len(log) \in Nat /\ Len(log') \in Nat /\ Len(log') >= Len(log)
  BY <1>2 DEF LogGrows
<1>5. \A n : Reached(n) => Reached(n)'
  BY <1>4 DEF Reached, LogGrows
<1>6. now.cursor \in Nat /\ Ahead(now) \in Nat /\ now.cursor <= Len(log) /\ Ahead(now) <= Len(log)
  BY <1>2, <1>4 DEF Reading, Reached
<1>7. Own(1, now.cursor)' = Own(1, now.cursor)
      /\ Own(now.cursor + 1, Ahead(now))' = Own(now.cursor + 1, Ahead(now))
  <2>1. {n \in 1..now.cursor : log'[n].own} = Own(1, now.cursor)
    BY <1>2, <1>6, OwnKept
  <2>2. {n \in now.cursor + 1..Ahead(now) : log'[n].own} = Own(now.cursor + 1, Ahead(now))
    <3>1. now.cursor + 1 \in Nat /\ now.cursor + 1 >= 1
      BY <1>6
    <3> QED BY <1>2, <1>6, <3>1, OwnKept
  <2> QED BY <1>3, <2>1, <2>2 DEF Own, Ahead
<1>8. Reading(now)'
  BY <1>2, <1>3, <1>5, <1>7 DEF Reading, Lists, Ahead
<1>9. Informed(now)'
  <2>1. Ahead(now)' = Ahead(now)
    BY <1>3 DEF Ahead
  <2>2. ASSUME Reached(now.row.latest), now.row.latest >= 1 PROVE log'[now.row.latest] = log[now.row.latest]
    BY <1>4, <2>2 DEF Reached, LogGrows
  <2> QED BY <1>2, <1>3, <1>5, <2>1, <2>2 DEF Informed
<1> QED BY <1>8, <1>9 DEF now

\* A save leaves the log as it is, or adds the event of the run's new state.
LEMMA SavedStory ==
  ASSUME StoryInv, NEW now \in Runs, Saved(now), client' = client
  PROVE  /\ StoryTypes' /\ LogInv' /\ ClientInv' /\ LogGrows
         /\ now.status # "ACCEPTED" => AcceptedStory'
         /\ now # run => /\ Len(log) + 1 \in DOMAIN log'
                         /\ log'[Len(log) + 1] = ProgressEvent(run, now)
<1>1. run' = now /\ run \in Runs /\ log \in Seq(Entry) /\ client \in [Clients -> Client]
  BY DEF Saved, StoryInv, StoryTypes
<1>2. CASE now = run
  <2>1. log' = log /\ run' = run
    BY <1>1, <1>2 DEF Saved
  <2>2. LogGrows
    BY <1>1, <2>1 DEF LogGrows
  <2>3. ClientInv'
    BY <2>2, ClientsKept
  <2>4. StoryTypes' /\ LogInv' /\ AcceptedStory'
    BY <2>1 DEF StoryInv, StoryTypes, LogInv, AcceptedStory, Integrated, Tested, Approved
  <2> QED BY <1>2, <2>2, <2>3, <2>4
<1>3. CASE now # run
  <2>1. PICK event : event = ProgressEvent(run, now)
    OBVIOUS
  <2>2. /\ event \in Entry /\ event.own = TRUE /\ event.status = now.status
        /\ event.kind # "run_started"
        /\ event.kind = "accepted" => now.status = "ACCEPTED"
    BY <1>1, <2>1, EventEntry
  <2>3. log' = Append(log, event)
    BY <1>3, <2>1 DEF Saved
  <2>4. /\ LogGrows /\ Len(log') = Len(log) + 1 /\ log'[Len(log) + 1] = event
        /\ DOMAIN log = 1..Len(log) /\ DOMAIN log' = 1..Len(log) + 1
    BY <1>1, <2>2, <2>3, Appended
  <2>5. ClientInv'
    BY <2>4, ClientsKept
  <2>6. StoryTypes'
    BY <1>1, <2>4 DEF StoryTypes, LogGrows
  <2>7. Len(log) \in Nat /\ \A n \in DOMAIN log : log'[n] = log[n]
    BY <1>1, <2>4 DEF LogGrows
  <2>8. LogInv'
    <3>1. Len(log') >= 1 /\ log'[1].own
      BY <2>4, <2>7 DEF StoryInv, LogInv
    <3>2. \A n \in 2..Len(log') : log'[n].own => log'[n].kind # "run_started"
      <4>1. TAKE n \in 2..Len(log')
      <4>2. CASE n = Len(log) + 1
        BY <2>2, <2>4, <4>2
      <4>3. CASE n # Len(log) + 1
        <5>1. n \in 2..Len(log) /\ n \in DOMAIN log
          BY <2>4, <2>7, <4>3
        <5> QED BY <2>7, <5>1 DEF StoryInv, LogInv
      <4> QED BY <4>2, <4>3
    <3>3. \A n \in DOMAIN log' :
            log'[n].own /\ (\A m \in n + 1..Len(log') : ~log'[m].own) => log'[n].status = run'.status
      <4>1. TAKE n \in DOMAIN log'
      <4>2. CASE n = Len(log) + 1
        BY <1>1, <2>2, <2>4, <4>2
      <4>3. CASE n # Len(log) + 1
        <5>1. Len(log) + 1 \in n + 1..Len(log')
          BY <2>4, <2>7, <4>1, <4>3
        <5> QED BY <2>2, <2>4, <5>1
      <4> QED BY <4>2, <4>3
    <3> QED BY <3>1, <3>2, <3>3 DEF LogInv
  <2>9. ASSUME now.status # "ACCEPTED" PROVE AcceptedStory'
    <3>1. SUFFICES ASSUME NEW n \in DOMAIN log', log'[n].own, log'[n].kind = "accepted"
                   PROVE  (\E i, v, a \in 1..n - 1 :
                             i < v /\ v < a /\ Integrated(i, log[n].sha) /\ Tested(v, log[n].sha)
                               /\ Approved(a, log[n].sha))'
      BY DEF AcceptedStory
    <3>2. n \in DOMAIN log /\ n \in Nat
      BY <2>2, <2>4, <2>7, <2>9, <3>1
    <3>3. PICK i, v, a \in 1..n - 1 :
            i < v /\ v < a /\ Integrated(i, log[n].sha) /\ Tested(v, log[n].sha) /\ Approved(a, log[n].sha)
      BY <2>7, <3>1, <3>2 DEF StoryInv, AcceptedStory
    <3>4. i \in DOMAIN log /\ v \in DOMAIN log /\ a \in DOMAIN log
      BY <2>4, <2>7, <3>2, <3>3
    <3>5. (Integrated(i, log[n].sha) /\ Tested(v, log[n].sha) /\ Approved(a, log[n].sha))'
      BY <2>7, <3>2, <3>3, <3>4 DEF Integrated, Tested, Approved
    <3> QED BY <3>3, <3>5
  <2> QED BY <2>1, <2>4, <2>5, <2>6, <2>8, <2>9
<1> QED BY <1>2, <1>3

\* The story so far explains where the run still is.
LEMMA StageKept ==
  ASSUME StoryInv, LogGrows, run'.sha = run.sha, run'.evidence = run.evidence,
         run'.action # "stop" => run'.back = None,
         Stage' = Stage \/ Stage' \notin {"verify", "review", "accept"}
  PROVE  StageInv'
<1>1. \A n \in DOMAIN log : n \in DOMAIN log' /\ log'[n] = log[n]
  BY DEF LogGrows
<1>2. CASE Stage' \notin {"verify", "review", "accept"}
  BY <1>2 DEF StageInv
<1>3. CASE Stage' = Stage
  <2>1. StageInv
    BY DEF StoryInv
  <2>2. \A n \in DOMAIN log : /\ Integrated(n, run.sha) => Integrated(n, run.sha)'
                              /\ Tested(n, run.sha) => Tested(n, run.sha)'
                              /\ Approved(n, run.sha) => Approved(n, run.sha)'
    BY <1>1 DEF Integrated, Tested, Approved
  <2>3. Stage = "verify" =>
          run'.evidence # "passed" /\ \E i \in DOMAIN log' : Integrated(i, run.sha)'
    BY <1>1, <2>1, <2>2 DEF StageInv
  <2>4. Stage = "review" =>
          \E i, v \in DOMAIN log' : i < v /\ Integrated(i, run.sha)' /\ Tested(v, run.sha)'
    BY <1>1, <2>1, <2>2 DEF StageInv
  <2>5. Stage = "accept" =>
          \E i, v, a \in DOMAIN log' : i < v /\ v < a /\ Integrated(i, run.sha)' /\ Tested(v, run.sha)'
                                         /\ Approved(a, run.sha)'
    BY <1>1, <2>1, <2>2 DEF StageInv
  <2> QED BY <1>3, <2>3, <2>4, <2>5 DEF StageInv
<1> QED BY <1>2, <1>3

\* A save that neither accepts the run nor takes it on to the next check of its commit.
LEMMA OrdinarySave ==
  ASSUME StoryInv, NEW now \in Runs, Saved(now), client' = client,
         now.status # "ACCEPTED", now.sha = run.sha, now.evidence = run.evidence,
         now.action # "stop" => now.back = None,
         Stage' = Stage \/ Stage' \notin {"verify", "review", "accept"}
  PROVE  StoryInv'
<1>1. run' = now
  BY DEF Saved
<1>2. StoryTypes' /\ LogInv' /\ ClientInv' /\ LogGrows /\ AcceptedStory'
  BY SavedStory
<1>3. StageInv'
  BY <1>1, <1>2, StageKept
<1> QED BY <1>2, <1>3 DEF StoryInv

-----------------------------------------------------------------------------
(* The steps of the run *)

\* What the run is whenever a step is taken.
LEMMA RunFields ==
  ASSUME StoryInv
  PROVE  /\ run \in Runs /\ run.contracts \in Nat /\ run.sha \in Nat /\ run.feedback \in Nat
         /\ run.plan \in Nat /\ run.planFeedback \in Nat /\ run.action \in Actions
         /\ run # None /\ run.action # None /\ None \notin Actions
         /\ run.action # "stop" => run.back = None /\ Stage = run.action
         /\ run.status \in Statuses /\ run.evidence \in Evidence
<1>1. run \in Runs
  BY DEF StoryInv, StoryTypes
<1>2. 0..2 \subseteq Nat
  OBVIOUS
<1>3. run.action # "stop" => run.back = None
  BY DEF StoryInv, StageInv
<1> QED BY <1>1, <1>2, <1>3, EventsAssumption DEF Runs, Stage, Evidence

\* A save that leaves the commit and its evidence alone and asks for something other
\* than a check of it.
LEMMA EarlierStage ==
  ASSUME StoryInv, NEW at, at # "stop", NEW now \in Runs, Save(at, now),
         now.status = run.status, now.back = run.back, now.sha = run.sha, now.evidence = run.evidence,
         now.action \in {"contract2", "plan", "verdict", "integrate"}
  PROVE  StoryInv'
<1>1. Saved(now) /\ client' = client /\ run' = now /\ run.status = "RUNNING" /\ run.back = None
  BY RunFields DEF Save, Saved
<1>2. Stage' = now.action
  BY <1>1 DEF Stage
<1> QED BY <1>1, <1>2, OrdinarySave

\* The contracts, the plan and the verdicts that ask for a change.
LEMMA PlanStep ==
  StoryInv /\ (AcceptContract \/ AcceptPlan \/ ApprovePlan \/ RejectPlan \/ RejectResult) => StoryInv'
<1> SUFFICES ASSUME StoryInv, AcceptContract \/ AcceptPlan \/ ApprovePlan \/ RejectPlan \/ RejectResult
             PROVE  StoryInv'
  OBVIOUS
<1>1. run \in Runs /\ 1 \in 0..2 /\ 2 \in 0..2
      /\ {"contract2", "plan", "verdict", "integrate"} \subseteq Actions
  BY RunFields DEF Actions
<1>2. \A n \in Nat : Payloads(n) \subseteq Nat
  BY DEF Payloads
<1>3. CASE Save("contract1", [run EXCEPT !.contracts = 1, !.action = "contract2"])
  <2>1. [run EXCEPT !.contracts = 1, !.action = "contract2"] \in Runs
    BY <1>1 DEF Runs
  <2> QED BY <1>1, <1>3, <2>1, EarlierStage DEF Runs
<1>4. CASE Save("contract2", [run EXCEPT !.contracts = 2, !.action = "plan"])
  <2>1. [run EXCEPT !.contracts = 2, !.action = "plan"] \in Runs
    BY <1>1 DEF Runs
  <2> QED BY <1>1, <1>4, <2>1, EarlierStage DEF Runs
<1>5. CASE AcceptPlan
  <2>1. PICK plan \in Payloads(run.plan) : Save("plan", [run EXCEPT !.plan = plan, !.action = "verdict"])
    BY <1>5 DEF AcceptPlan
  <2>2. [run EXCEPT !.plan = plan, !.action = "verdict"] \in Runs
    BY <1>1, <1>2 DEF Runs
  <2> QED BY <1>1, <2>1, <2>2, EarlierStage DEF Runs
<1>6. CASE ApprovePlan
  <2>1. [run EXCEPT !.approved = TRUE, !.action = "integrate"] \in Runs
    BY <1>1 DEF Runs
  <2> QED BY <1>1, <1>6, <2>1, EarlierStage DEF Runs, ApprovePlan
<1>7. CASE RejectPlan
  <2>1. PICK feedback \in Payloads(run.planFeedback) :
          Save("verdict", [run EXCEPT !.planFeedback = feedback, !.action = "plan"])
    BY <1>7 DEF RejectPlan
  <2>2. [run EXCEPT !.planFeedback = feedback, !.action = "plan"] \in Runs
    BY <1>1, <1>2 DEF Runs
  <2> QED BY <1>1, <2>1, <2>2, EarlierStage DEF Runs
<1>8. CASE RejectResult
  <2>1. PICK feedback \in Payloads(run.feedback) :
          Save("review", [run EXCEPT !.feedback = feedback, !.action = "integrate"])
    BY <1>8 DEF RejectResult
  <2>2. [run EXCEPT !.feedback = feedback, !.action = "integrate"] \in Runs
    BY <1>1, <1>2 DEF Runs
  <2> QED BY <1>1, <2>1, <2>2, EarlierStage DEF Runs
<1> QED BY <1>3, <1>4, <1>5, <1>6, <1>7, <1>8 DEF AcceptContract

\* Events of other runs.
LEMMA OtherStep == StoryInv /\ OtherRun => StoryInv'
<1> SUFFICES ASSUME StoryInv, OtherRun PROVE StoryInv'
  OBVIOUS
<1>1. PICK event : event = [own |-> FALSE]
  OBVIOUS
<1>2. event \in Entry /\ event.own = FALSE
  BY <1>1 DEF Entry
<1>3. log' = Append(log, event) /\ run' = run /\ client' = client /\ log \in Seq(Entry)
  BY <1>1 DEF OtherRun, StoryInv, StoryTypes
<1>4. /\ LogGrows /\ Len(log') = Len(log) + 1 /\ log'[Len(log) + 1] = event
      /\ DOMAIN log = 1..Len(log) /\ DOMAIN log' = 1..Len(log) + 1
  BY <1>2, <1>3, Appended
<1>5. StoryTypes' /\ ClientInv'
  BY <1>3, <1>4, ClientsKept DEF StoryInv, StoryTypes, LogGrows
<1>6. Len(log) \in Nat /\ \A n \in DOMAIN log : log'[n] = log[n]
  BY <1>3, <1>4 DEF LogGrows
<1>7. \A n \in DOMAIN log' : log'[n].own => n \in DOMAIN log
  BY <1>2, <1>4, <1>6
<1>8. LogInv'
  <2>1. Len(log') >= 1 /\ log'[1].own
    BY <1>4, <1>6 DEF StoryInv, LogInv
  <2>2. \A n \in 2..Len(log') : log'[n].own => log'[n].kind # "run_started"
    <3>1. TAKE n \in 2..Len(log')
    <3>2. log'[n].own => n \in 2..Len(log)
      BY <1>4, <1>6, <1>7
    <3> QED BY <1>4, <1>6, <3>2 DEF StoryInv, LogInv
  <2>3. \A n \in DOMAIN log' :
          log'[n].own /\ (\A m \in n + 1..Len(log') : ~log'[m].own) => log'[n].status = run'.status
    <3>1. SUFFICES ASSUME NEW n \in DOMAIN log', log'[n].own, \A m \in n + 1..Len(log') : ~log'[m].own
                   PROVE  log'[n].status = run'.status
      OBVIOUS
    <3>2. n \in DOMAIN log /\ \A m \in n + 1..Len(log) : ~log[m].own
      BY <1>4, <1>6, <1>7, <3>1
    <3> QED BY <1>3, <1>6, <3>1, <3>2 DEF StoryInv, LogInv
  <2> QED BY <2>1, <2>2, <2>3 DEF LogInv
<1>9. AcceptedStory'
  <2>1. SUFFICES ASSUME NEW n \in DOMAIN log', log'[n].own, log'[n].kind = "accepted"
                 PROVE  (\E i, v, a \in 1..n - 1 :
                           i < v /\ v < a /\ Integrated(i, log[n].sha) /\ Tested(v, log[n].sha)
                             /\ Approved(a, log[n].sha))'
    BY DEF AcceptedStory
  <2>2. n \in DOMAIN log /\ n \in Nat
    BY <1>4, <1>7, <2>1
  <2>3. PICK i, v, a \in 1..n - 1 :
          i < v /\ v < a /\ Integrated(i, log[n].sha) /\ Tested(v, log[n].sha) /\ Approved(a, log[n].sha)
    BY <1>6, <2>1, <2>2 DEF StoryInv, AcceptedStory
  <2>4. i \in DOMAIN log /\ v \in DOMAIN log /\ a \in DOMAIN log
    BY <1>4, <1>6, <2>2, <2>3
  <2>5. (Integrated(i, log[n].sha) /\ Tested(v, log[n].sha) /\ Approved(a, log[n].sha))'
    BY <1>6, <2>2, <2>3, <2>4 DEF Integrated, Tested, Approved
  <2> QED BY <2>3, <2>5
<1>10. StageInv'
  <2>1. Stage' = Stage
    BY <1>3 DEF Stage
  <2> QED BY <1>3, <1>4, <2>1, StageKept DEF StoryInv, StageInv
<1> QED BY <1>5, <1>8, <1>9, <1>10 DEF StoryInv

\* The commit, and the event that tells of it.
LEMMA IntegrationStep == StoryInv /\ AcceptIntegration => StoryInv'
<1> SUFFICES ASSUME StoryInv, AcceptIntegration PROVE StoryInv'
  OBVIOUS
<1> DEFINE now == [run EXCEPT !.sha = @ + 1, !.workspace = FALSE, !.evidence = "none", !.action = "verify"]
<1>1. run \in Runs /\ run # None /\ run.sha \in Nat /\ run.contracts \in Nat
  BY RunFields
<1>2. Save("integrate", now)
  BY <1>1 DEF AcceptIntegration, Runs
<1>3. /\ now \in Runs /\ now.sha = run.sha + 1 /\ now.action = "verify" /\ now.evidence = "none"
      /\ now.status = run.status /\ now.plan = run.plan /\ now.planFeedback = run.planFeedback
      /\ now.approved = run.approved /\ now.contracts = run.contracts /\ now.back = run.back
  <2>1. run.sha + 1 \in Nat /\ "verify" \in Actions /\ "none" \in {"none", "passed", "failed"}
    BY <1>1 DEF Actions
  <2>2. now \in Runs
    BY <1>1, <2>1 DEF Runs
  <2> QED BY <1>1, <2>2 DEF Runs
<1> HIDE DEF now
<1>4. /\ Saved(now) /\ client' = client /\ run' = now /\ run.status = "RUNNING"
      /\ run.action = "integrate" /\ run.back = None
  BY <1>2, RunFields DEF Save, Saved
<1>5. now.status = "RUNNING" /\ now.status \notin DOMAIN Stopped /\ now.sha # run.sha /\ now # run
  BY <1>1, <1>3, <1>4, StoppedKinds
<1>6. PICK event : event = ProgressEvent(run, now)
  OBVIOUS
<1>7. event.own = TRUE /\ event.sha = now.sha /\ event.kind = "integration_ready"
  <2>1. Kind(run, now) = "integration_ready"
    BY <1>1, <1>3, <1>5, KindsOfResult
  <2> QED BY <1>1, <1>3, <1>6, <2>1, EventEntry
<1>8. /\ StoryTypes' /\ LogInv' /\ ClientInv' /\ AcceptedStory'
      /\ Len(log) + 1 \in DOMAIN log' /\ log'[Len(log) + 1] = event
  BY <1>3, <1>4, <1>5, <1>6, SavedStory
<1>9. Stage' = "verify"
  BY <1>3, <1>4 DEF Stage
<1>10. StageInv'
  <2>1. \E i \in DOMAIN log' : Integrated(i, run.sha)'
    <3>1. \A i : i = Len(log) + 1 => Integrated(i, run.sha)'
      BY <1>4, <1>7, <1>8 DEF Integrated
    <3> QED BY <1>8, <3>1
  <2> QED BY <1>3, <1>4, <1>9, <2>1 DEF StageInv
<1> QED BY <1>8, <1>10 DEF StoryInv

\* The evidence of the commit: when its commands passed, or else asked to be corrected.
LEMMA VerificationStep == StoryInv /\ (PrepareWorkspace \/ AcceptVerification) => StoryInv'
<1> SUFFICES ASSUME StoryInv, PrepareWorkspace \/ AcceptVerification PROVE StoryInv'
  OBVIOUS
<1>1. run \in Runs /\ run # None /\ run.feedback \in Nat /\ run.contracts \in Nat /\ None \notin Actions
  BY RunFields
<1>2. CASE PrepareWorkspace
  <2> DEFINE now == [run EXCEPT !.workspace = TRUE]
  <2>1. Saved(now) /\ client' = client /\ run' = now /\ run.status = "RUNNING"
    BY <1>2 DEF PrepareWorkspace, Save, Saved
  <2>2. /\ now \in Runs /\ now.status = run.status /\ now.sha = run.sha /\ now.evidence = run.evidence
        /\ now.action = run.action /\ now.back = run.back
    BY <1>1 DEF Runs
  <2> HIDE DEF now
  <2>3. Stage' = Stage
    BY <2>1, <2>2 DEF Stage
  <2> QED BY <2>1, <2>2, <2>3, RunFields, OrdinarySave
<1>3. CASE Save("verify", [run EXCEPT !.evidence = "passed", !.action = "review"])
  <2> DEFINE now == [run EXCEPT !.evidence = "passed", !.action = "review"]
  <2>1. /\ Saved(now) /\ client' = client /\ run' = now /\ run.status = "RUNNING"
        /\ run.action = "verify" /\ run.back = None /\ Stage = "verify"
    BY <1>3, RunFields DEF Save, Saved
  <2>2. /\ now \in Runs /\ now.status = run.status /\ now.sha = run.sha /\ now.evidence = "passed"
        /\ now.action = "review" /\ now.plan = run.plan /\ now.planFeedback = run.planFeedback
        /\ now.approved = run.approved /\ now.contracts = run.contracts /\ now.back = run.back
    <3>1. "review" \in Actions
      BY DEF Actions
    <3>2. now \in Runs
      BY <1>1, <3>1 DEF Runs
    <3> QED BY <1>1, <3>2 DEF Runs
  <2> HIDE DEF now
  <2>3. PICK i \in DOMAIN log : Integrated(i, run.sha)
    BY <2>1 DEF StoryInv, StageInv
  <2>4. run.evidence # "passed"
    BY <2>1 DEF StoryInv, StageInv
  <2>5. now.status \notin DOMAIN Stopped /\ now.status # "ACCEPTED" /\ now # run
    BY <2>1, <2>2, <2>4, StoppedKinds
  <2>6. PICK event : event = ProgressEvent(run, now)
    OBVIOUS
  <2>7. /\ event.own = TRUE /\ event.sha = run.sha /\ event.evidence = "passed"
        /\ event.kind = "verification_passed"
    <3>1. Kind(run, now) = "verification_passed"
      BY <1>1, <2>2, <2>4, <2>5, KindsOfResult
    <3> QED BY <1>1, <2>2, <2>6, <3>1, EventEntry
  <2>8. /\ StoryTypes' /\ LogInv' /\ ClientInv' /\ AcceptedStory' /\ LogGrows
        /\ Len(log) + 1 \in DOMAIN log' /\ log'[Len(log) + 1] = event
    BY <2>1, <2>2, <2>5, <2>6, SavedStory
  <2>9. Stage' = "review"
    BY <2>1, <2>2 DEF Stage
  <2>10. Integrated(i, run.sha)' /\ i \in DOMAIN log' /\ i < Len(log) + 1
    BY <2>1, <2>2, <2>3, <2>8 DEF Integrated, LogGrows, StoryInv, StoryTypes
  <2>11. \A v : v = Len(log) + 1 => Tested(v, run.sha)' /\ i < v /\ v \in DOMAIN log'
    BY <2>1, <2>2, <2>7, <2>8, <2>10 DEF Tested
  <2>12. \E j, v \in DOMAIN log' : j < v /\ Integrated(j, run.sha)' /\ Tested(v, run.sha)'
    BY <2>10, <2>11
  <2>13. StageInv'
    BY <2>1, <2>2, <2>9, <2>12 DEF StageInv
  <2> QED BY <2>8, <2>13 DEF StoryInv
<1>4. ASSUME NEW now \in Runs, Save("verify", now), now.sha = run.sha, now.back = run.back,
             now.evidence = "failed", now.status \in {"RUNNING", "BLOCKED"}, now.action \in {"integrate", "stop"}
      PROVE  StoryInv'
  <2>1. /\ Saved(now) /\ client' = client /\ run' = now /\ run.back = None
    BY <1>4, RunFields DEF Save, Saved
  <2>2. Stage' \in {"integrate", None}
    BY <1>4, <2>1 DEF Stage
  <2>3. Stage' \notin {"verify", "review", "accept"}
    BY <1>1, <2>2 DEF Actions
  <2>4. StoryTypes' /\ LogInv' /\ ClientInv' /\ AcceptedStory'
    BY <1>4, <2>1, SavedStory
  <2>5. StageInv'
    BY <1>4, <2>1, <2>3 DEF StageInv
  <2> QED BY <2>4, <2>5 DEF StoryInv
<1>5. CASE Save("verify", [run EXCEPT !.evidence = "failed", !.feedback = @ + 1, !.action = "integrate"])
  <2>1. [run EXCEPT !.evidence = "failed", !.feedback = @ + 1, !.action = "integrate"] \in Runs
    <3>1. run.feedback + 1 \in Nat /\ "integrate" \in Actions
      BY <1>1 DEF Actions
    <3> QED BY <1>1, <3>1 DEF Runs
  <2>2. run.status = "RUNNING"
    BY <1>5 DEF Save
  <2> QED BY <1>1, <1>4, <1>5, <2>1, <2>2 DEF Runs
<1>6. CASE Save("verify", [run EXCEPT !.evidence = "failed", !.feedback = @ + 1, !.action = "stop",
                                      !.status = "BLOCKED"])
  <2>1. [run EXCEPT !.evidence = "failed", !.feedback = @ + 1, !.action = "stop", !.status = "BLOCKED"] \in Runs
    <3>1. run.feedback + 1 \in Nat /\ "stop" \in Actions /\ "BLOCKED" \in Statuses
      BY <1>1, StoppedKinds DEF Actions, Statuses
    <3> QED BY <1>1, <3>1 DEF Runs
  <2> QED BY <1>1, <1>4, <1>6, <2>1 DEF Runs
<1> QED BY <1>2, <1>3, <1>5, <1>6 DEF AcceptVerification

\* The verdict on a commit that passed its commands.
LEMMA ApprovalStep == StoryInv /\ ApproveResult => StoryInv'
<1> SUFFICES ASSUME StoryInv, ApproveResult PROVE StoryInv'
  OBVIOUS
<1> DEFINE now == [run EXCEPT !.action = "accept"]
<1>1. run \in Runs /\ run # None /\ run.contracts \in Nat
  BY RunFields
<1>2. /\ Saved(now) /\ client' = client /\ run' = now /\ run.status = "RUNNING"
      /\ run.action = "review" /\ run.back = None /\ Stage = "review"
  BY RunFields DEF ApproveResult, Save, Saved
<1>3. /\ now \in Runs /\ now.status = run.status /\ now.sha = run.sha /\ now.evidence = run.evidence
      /\ now.action = "accept" /\ now.plan = run.plan /\ now.planFeedback = run.planFeedback
      /\ now.approved = run.approved /\ now.contracts = run.contracts /\ now.back = run.back
      /\ now.feedback = run.feedback
  <2>1. "accept" \in Actions
    BY DEF Actions
  <2>2. now \in Runs
    BY <1>1, <2>1 DEF Runs
  <2> QED BY <1>1, <2>2 DEF Runs
<1> HIDE DEF now
<1>4. PICK i, v \in DOMAIN log : i < v /\ Integrated(i, run.sha) /\ Tested(v, run.sha)
  BY <1>2 DEF StoryInv, StageInv
<1>5. now.status \notin DOMAIN Stopped /\ now.status # "ACCEPTED" /\ now # run
  BY <1>2, <1>3, StoppedKinds
<1>6. PICK event : event = ProgressEvent(run, now)
  OBVIOUS
<1>7. event.own = TRUE /\ event.sha = run.sha /\ event.kind = "result_approved"
  <2>1. Kind(run, now) = "result_approved"
    BY <1>1, <1>2, <1>3, <1>5, KindsOfResult
  <2> QED BY <1>1, <1>3, <1>6, <2>1, EventEntry
<1>8. /\ StoryTypes' /\ LogInv' /\ ClientInv' /\ AcceptedStory' /\ LogGrows
      /\ Len(log) + 1 \in DOMAIN log' /\ log'[Len(log) + 1] = event
  BY <1>2, <1>3, <1>5, <1>6, SavedStory
<1>9. Stage' = "accept"
  BY <1>2, <1>3 DEF Stage
<1>10. /\ Integrated(i, run.sha)' /\ Tested(v, run.sha)' /\ i \in DOMAIN log' /\ v \in DOMAIN log'
       /\ v < Len(log) + 1
  BY <1>2, <1>3, <1>4, <1>8 DEF Integrated, Tested, LogGrows, StoryInv, StoryTypes
<1>11. \A a : a = Len(log) + 1 => Approved(a, run.sha)' /\ v < a /\ a \in DOMAIN log'
  BY <1>2, <1>3, <1>7, <1>8, <1>10 DEF Approved
<1>12. \E j, w, a \in DOMAIN log' :
         j < w /\ w < a /\ Integrated(j, run.sha)' /\ Tested(w, run.sha)' /\ Approved(a, run.sha)'
  BY <1>4, <1>10, <1>11
<1>13. StageInv'
  BY <1>2, <1>3, <1>9, <1>12 DEF StageInv
<1> QED BY <1>8, <1>13 DEF StoryInv

\* The events of an accepted run tell of its commit.
LEMMA AcceptStep == StoryInv /\ Accept => StoryInv'
<1> SUFFICES ASSUME StoryInv, Accept PROVE StoryInv'
  OBVIOUS
<1> DEFINE now == [run EXCEPT !.status = "ACCEPTED", !.action = "stop"]
<1>1. run \in Runs /\ log \in Seq(Entry) /\ None \notin Actions
  BY RunFields DEF StoryInv, StoryTypes
<1>2. /\ Saved(now) /\ client' = client /\ run' = now /\ run.status = "RUNNING"
      /\ run.back = None /\ Stage = "accept"
  BY RunFields DEF Accept, Save, Saved
<1>3. /\ now \in Runs /\ now.status = "ACCEPTED" /\ now.sha = run.sha
      /\ now.action = "stop" /\ now.back = run.back
  <2>1. "stop" \in Actions /\ "ACCEPTED" \in Statuses
    BY StoppedKinds DEF Actions, Statuses
  <2>2. now \in Runs
    BY <1>1, <2>1 DEF Runs
  <2> QED BY <1>1, <2>2 DEF Runs
<1> HIDE DEF now
<1>4. PICK i, v, a \in DOMAIN log :
        i < v /\ v < a /\ Integrated(i, run.sha) /\ Tested(v, run.sha) /\ Approved(a, run.sha)
  BY <1>2 DEF StoryInv, StageInv
<1>5. now # run
  BY <1>2, <1>3
<1>6. PICK event : event = ProgressEvent(run, now)
  OBVIOUS
<1>7. event \in Entry /\ event.sha = run.sha
  <2>1. event \in Entry /\ event.sha = now.sha
    BY <1>1, <1>3, <1>6, EventEntry
  <2> QED BY <1>3, <2>1
<1>8. /\ StoryTypes' /\ LogInv' /\ ClientInv' /\ LogGrows /\ log' = Append(log, event)
  BY <1>2, <1>3, <1>5, <1>6, SavedStory DEF Saved
<1>9. /\ Len(log) \in Nat /\ DOMAIN log = 1..Len(log) /\ DOMAIN log' = 1..Len(log) + 1
      /\ log'[Len(log) + 1] = event /\ \A n \in DOMAIN log : log'[n] = log[n]
  BY <1>1, <1>7, <1>8, Appended DEF LogGrows
<1>10. \A sha : \A n \in DOMAIN log :
         /\ Integrated(n, sha) => log'[n].own /\ log'[n].sha = sha /\ log'[n].kind = "integration_ready"
         /\ Tested(n, sha) => /\ log'[n].own /\ log'[n].sha = sha /\ log'[n].kind = "verification_passed"
                              /\ log'[n].evidence = "passed"
         /\ Approved(n, sha) => log'[n].own /\ log'[n].sha = sha /\ log'[n].kind = "result_approved"
  BY <1>9 DEF Integrated, Tested, Approved
<1>11. AcceptedStory'
  <2>1. SUFFICES ASSUME NEW n \in DOMAIN log', log'[n].own, log'[n].kind = "accepted"
                 PROVE  (\E j, w, b \in 1..n - 1 :
                           j < w /\ w < b /\ Integrated(j, log[n].sha) /\ Tested(w, log[n].sha)
                             /\ Approved(b, log[n].sha))'
    BY DEF AcceptedStory
  <2>2. \E j, w, b \in DOMAIN log : /\ j < n /\ w < n /\ b < n /\ j < w /\ w < b
                                    /\ Integrated(j, log'[n].sha) /\ Tested(w, log'[n].sha)
                                    /\ Approved(b, log'[n].sha)
    <3>1. CASE n = Len(log) + 1
      <4>1. i < n /\ v < n /\ a < n
        BY <1>9, <3>1
      <4> QED BY <1>4, <1>7, <1>9, <3>1, <4>1
    <3>2. CASE n # Len(log) + 1
      <4>1. n \in DOMAIN log /\ log'[n] = log[n]
        BY <1>9, <3>2
      <4>2. PICK j, w, b \in 1..n - 1 :
              j < w /\ w < b /\ Integrated(j, log[n].sha) /\ Tested(w, log[n].sha) /\ Approved(b, log[n].sha)
        BY <2>1, <4>1 DEF StoryInv, AcceptedStory
      <4>3. /\ j \in DOMAIN log /\ w \in DOMAIN log /\ b \in DOMAIN log
            /\ j < n /\ w < n /\ b < n
        BY <1>9, <4>1, <4>2
      <4> QED BY <4>1, <4>2, <4>3
    <3> QED BY <3>1, <3>2
  <2>3. PICK j, w, b \in DOMAIN log :
          /\ j < n /\ w < n /\ b < n /\ j < w /\ w < b
          /\ Integrated(j, log'[n].sha) /\ Tested(w, log'[n].sha) /\ Approved(b, log'[n].sha)
    BY <2>2
  <2>4. j \in 1..n - 1 /\ w \in 1..n - 1 /\ b \in 1..n - 1
    BY <1>9, <2>3
  <2>5. (Integrated(j, log[n].sha) /\ Tested(w, log[n].sha) /\ Approved(b, log[n].sha))'
    BY <1>10, <2>3 DEF Integrated, Tested, Approved
  <2> QED BY <2>3, <2>4, <2>5
<1>12. StageInv'
  BY <1>1, <1>2, <1>3 DEF StageInv, Stage, Actions
<1> QED BY <1>8, <1>11, <1>12 DEF StoryInv

\* The run waits, stops or goes on where it was.
LEMMA StopStep == StoryInv /\ (WaitForTask \/ Stop \/ CancelRun \/ ResumeRun) => StoryInv'
<1> SUFFICES ASSUME StoryInv, WaitForTask \/ Stop \/ CancelRun \/ ResumeRun PROVE StoryInv'
  OBVIOUS
<1>1. /\ run \in Runs /\ None \notin Actions /\ {"verify", "review", "accept", "stop"} \subseteq Actions
      /\ run.action # "stop" => run.back = None /\ Stage = run.action
      /\ {"RUNNING", "WAITING", "PAUSED", "BLOCKED", "INCOMPATIBLE", "CANCELLED"} \subseteq Statuses
  BY RunFields, StoppedKinds DEF Actions, Statuses
<1>2. ASSUME NEW status \in {"RUNNING", "WAITING", "PAUSED"}, Saved([run EXCEPT !.status = status]), client' = client
      PROVE  StoryInv'
  <2> DEFINE now == [run EXCEPT !.status = status]
  <2>1. run' = now /\ Saved(now)
    BY <1>2 DEF Saved
  <2>2. /\ now \in Runs /\ now.status = status /\ now.sha = run.sha /\ now.evidence = run.evidence
        /\ now.action = run.action /\ now.back = run.back
    BY <1>1 DEF Runs
  <2> HIDE DEF now
  <2>3. Stage' = Stage
    BY <2>1, <2>2 DEF Stage
  <2> QED BY <1>1, <1>2, <2>1, <2>2, <2>3, OrdinarySave
<1>3. ASSUME NEW status \in {"BLOCKED", "INCOMPATIBLE"}, client' = client,
             Saved([run EXCEPT !.status = status, !.back = IF status = "BLOCKED" THEN run.action ELSE None,
                               !.action = "stop"])
      PROVE  StoryInv'
  <2> DEFINE now == [run EXCEPT !.status = status, !.back = IF status = "BLOCKED" THEN run.action ELSE None,
                                !.action = "stop"]
  <2>1. run' = now /\ Saved(now)
    BY <1>3 DEF Saved
  <2>2. (IF status = "BLOCKED" THEN run.action ELSE None) \in Actions \cup {None}
    BY <1>1 DEF Runs
  <2>3. /\ now \in Runs /\ now.status = status /\ now.sha = run.sha /\ now.evidence = run.evidence
        /\ now.action = "stop" /\ now.back = IF status = "BLOCKED" THEN run.action ELSE None
    BY <1>1, <2>2 DEF Runs
  <2> HIDE DEF now
  <2>4. Stage' = Stage \/ Stage' \notin {"verify", "review", "accept"}
    BY <1>1, <2>1, <2>3 DEF Stage
  <2> QED BY <1>1, <1>3, <2>1, <2>3, <2>4, OrdinarySave
<1>4. CASE CancelRun
  <2> DEFINE now == [run EXCEPT !.status = "CANCELLED", !.action = "stop"]
  <2>1. run' = now /\ Saved(now) /\ client' = client
    BY <1>4 DEF CancelRun, Saved
  <2>2. /\ now \in Runs /\ now.status = "CANCELLED" /\ now.sha = run.sha /\ now.evidence = run.evidence
        /\ now.action = "stop" /\ now.back = run.back
    BY <1>1 DEF Runs
  <2> HIDE DEF now
  <2>3. Stage' = Stage \/ Stage' \notin {"verify", "review", "accept"}
    BY <1>1, <2>1, <2>2 DEF Stage
  <2> QED BY <1>1, <2>1, <2>2, <2>3, OrdinarySave
<1>5. ASSUME run.status = "BLOCKED", run.back # None, client' = client,
             Saved([run EXCEPT !.status = "RUNNING", !.action = run.back, !.back = None])
      PROVE  StoryInv'
  <2> DEFINE now == [run EXCEPT !.status = "RUNNING", !.action = run.back, !.back = None]
  <2>1. run' = now /\ Saved(now)
    BY <1>5 DEF Saved
  <2>2. run.back \in Actions /\ run.action = "stop" /\ Stage = run.back
    BY <1>1, <1>5 DEF Runs, Stage
  <2>3. /\ now \in Runs /\ now.status = "RUNNING" /\ now.sha = run.sha /\ now.evidence = run.evidence
        /\ now.action = run.back /\ now.back = None
    BY <1>1, <2>2 DEF Runs
  <2> HIDE DEF now
  <2>4. Stage' = Stage \/ Stage' \notin {"verify", "review", "accept"}
    BY <1>1, <2>1, <2>2, <2>3 DEF Stage
  <2> QED BY <1>5, <2>1, <2>3, <2>4, OrdinarySave
<1> QED BY <1>2, <1>3, <1>4, <1>5 DEF WaitForTask, Stop, ResumeRun

-----------------------------------------------------------------------------
(* The steps of a client *)

\* The newest event of the run tells its state.
LEMMA LatestIs ==
  ASSUME StoryInv
  PROVE  /\ Latest \in Own(1, Len(log)) /\ \A m \in Own(1, Len(log)) : m <= Latest
         /\ Latest \in Nat /\ Latest >= 1 /\ Reached(Latest) /\ log[Latest].status = run.status
<1>1. /\ Len(log) \in Nat /\ DOMAIN log = 1..Len(log) /\ Len(log) >= 1 /\ log[1].own
  BY DEF StoryInv, StoryTypes, LogInv
<1> DEFINE own == Own(1, Len(log))
           T == {k \in 0..Len(log) : Len(log) - k \in own}
<1>2. own \subseteq 1..Len(log) /\ 1 \in own
  BY <1>1 DEF Own
<1>3. \E n \in own : \A m \in own : m <= n
  <2>1. T \in SUBSET Nat /\ T # {}
    <3>1. Len(log) - 1 \in 0..Len(log) /\ Len(log) - (Len(log) - 1) = 1
      BY <1>1
    <3> HIDE DEF own
    <3>2. Len(log) - 1 \in T
      BY <1>2, <3>1
    <3>3. T \in SUBSET Nat
      OBVIOUS
    <3> QED BY <3>2, <3>3
  <2>2. PICK k \in T : \A j \in T : k <= j
    <3> HIDE DEF T
    <3> QED BY <2>1, LeastNumber
  <2>3. \A m \in own : m <= Len(log) - k
    <3>1. TAKE m \in own
    <3>2. m \in 1..Len(log)
      BY <1>2
    <3> HIDE DEF own
    <3>3. Len(log) - m \in T
      BY <1>1, <3>2
    <3>4. k \in Nat /\ k <= Len(log) - m
      BY <2>1, <2>2, <3>3
    <3> QED BY <1>1, <3>2, <3>4
  <2> QED BY <2>2, <2>3
<1>4. Latest \in own /\ \A m \in own : m <= Latest
  BY <1>3 DEF Latest
<1>5. Latest \in 1..Len(log) /\ log[Latest].own
  BY <1>4 DEF Own
<1>6. \A m \in Latest + 1..Len(log) : ~log[m].own
  <2>1. TAKE m \in Latest + 1..Len(log)
  <2>2. log[m].own => m \in own
    BY <1>1, <1>5 DEF Own
  <2> QED BY <1>4, <1>5, <2>2
<1>7. log[Latest].status = run.status
  BY <1>1, <1>5, <1>6 DEF StoryInv, LogInv
<1> QED BY <1>1, <1>4, <1>5, <1>7 DEF Reached

\* Two lists, of which one goes on where the other ends, are a list.
LEMMA ListsJoin ==
  ASSUME NEW first \in Seq(Nat), NEW second \in Seq(Nat), NEW low \in Nat, NEW middle \in Nat, NEW high \in Nat,
         low <= middle + 1, middle <= high,
         Lists(first, Own(low, middle)), Lists(second, Own(middle + 1, high))
  PROVE  Lists(first \o second, Own(low, high))
<1> DEFINE joined == first \o second
<1>1. /\ Len(first) \in Nat /\ Len(second) \in Nat /\ Len(joined) = Len(first) + Len(second)
      /\ DOMAIN joined = 1..Len(first) + Len(second)
      /\ DOMAIN first = 1..Len(first) /\ DOMAIN second = 1..Len(second)
      /\ \A i \in 1..Len(first) : joined[i] = first[i]
      /\ \A i \in 1..Len(second) : joined[Len(first) + i] = second[i]
  OBVIOUS
<1> HIDE DEF joined
<1>2. Own(low, high) = Own(low, middle) \cup Own(middle + 1, high)
  <2>1. low..high = low..middle \cup (middle + 1)..high
    OBVIOUS
  <2> QED BY <2>1 DEF Own
<1>3. \A i \in DOMAIN joined : \/ i \in 1..Len(first) /\ joined[i] = first[i]
                               \/ /\ i - Len(first) \in 1..Len(second)
                                  /\ joined[i] = second[i - Len(first)]
  <2>1. SUFFICES ASSUME NEW i \in DOMAIN joined, i \notin 1..Len(first)
                 PROVE  i - Len(first) \in 1..Len(second) /\ joined[i] = second[i - Len(first)]
    BY <1>1
  <2>2. i - Len(first) \in 1..Len(second) /\ Len(first) + (i - Len(first)) = i
    BY <1>1, <2>1
  <2> QED BY <1>1, <2>2
<1>4. {joined[i] : i \in DOMAIN joined} = Own(low, high)
  <2>1. \A i \in DOMAIN joined : joined[i] \in Own(low, middle) \cup Own(middle + 1, high)
    BY <1>1, <1>3 DEF Lists
  <2>2. \A n \in Own(low, middle) : \E i \in DOMAIN joined : joined[i] = n
    <3>1. \A n \in Own(low, middle) : \E i \in 1..Len(first) : first[i] = n
      BY <1>1 DEF Lists
    <3>2. \A i \in 1..Len(first) : i \in DOMAIN joined
      BY <1>1
    <3> QED BY <1>1, <3>1, <3>2
  <2>3. \A n \in Own(middle + 1, high) : \E i \in DOMAIN joined : joined[i] = n
    <3>1. \A n \in Own(middle + 1, high) : \E i \in 1..Len(second) : second[i] = n
      BY <1>1 DEF Lists
    <3>2. \A i \in 1..Len(second) : Len(first) + i \in DOMAIN joined
      BY <1>1
    <3> QED BY <1>1, <3>1, <3>2
  <2> QED BY <1>2, <2>1, <2>2, <2>3
<1>5. ASSUME NEW i \in DOMAIN joined, NEW j \in DOMAIN joined, i < j PROVE joined[i] < joined[j]
  <2>1. \A m \in 1..Len(first) : first[m] \in Nat /\ first[m] <= middle
    <3>1. \A m \in 1..Len(first) : first[m] \in Own(low, middle)
      BY <1>1 DEF Lists
    <3> QED BY <3>1 DEF Own
  <2>2. \A m \in 1..Len(second) : second[m] \in Nat /\ second[m] >= middle + 1
    <3>1. \A m \in 1..Len(second) : second[m] \in Own(middle + 1, high)
      BY <1>1 DEF Lists
    <3> QED BY <3>1 DEF Own
  <2>3. CASE i \in 1..Len(first) /\ joined[i] = first[i] /\ j \in 1..Len(first) /\ joined[j] = first[j]
    BY <1>1, <1>5, <2>3 DEF Lists
  <2>4. CASE i \in 1..Len(first) /\ joined[i] = first[i]
             /\ j - Len(first) \in 1..Len(second) /\ joined[j] = second[j - Len(first)]
    BY <2>1, <2>2, <2>4
  <2>5. CASE i - Len(first) \in 1..Len(second) /\ joined[i] = second[i - Len(first)]
             /\ j - Len(first) \in 1..Len(second) /\ joined[j] = second[j - Len(first)]
    <3>1. i - Len(first) < j - Len(first)
      BY <1>1, <1>5
    <3> QED BY <1>1, <2>5, <3>1 DEF Lists
  <2>6. ~(i - Len(first) \in 1..Len(second) /\ j \in 1..Len(first))
    BY <1>1, <1>5
  <2> QED BY <1>3, <2>3, <2>4, <2>5, <2>6
<1> QED BY <1>4, <1>5 DEF Lists, joined

\* There is nothing after the last.
LEMMA NothingListed ==
  ASSUME NEW n \in Nat
  PROVE  Lists(<<>>, Own(n + 1, n)) /\ Own(n + 1, n) = {}
<1>1. n + 1..n = {}
  OBVIOUS
<1> QED BY <1>1 DEF Lists, Own

\* A step of one client.
LEMMA ClientStep ==
  ASSUME StoryInv, NEW c \in Clients, NEW now \in Client, run' = run, log' = log,
         client' = [client EXCEPT ![c] = now], Reading(now), Informed(now)
  PROVE  StoryInv'
<1>1. client \in [Clients -> Client]
  BY DEF StoryInv, StoryTypes
<1>2. client'[c] = now /\ \A d \in Clients \ {c} : client'[d] = client[d]
  BY <1>1
<1>3. StoryTypes' /\ LogInv' /\ StageInv' /\ AcceptedStory'
  BY <1>1 DEF StoryInv, StoryTypes, LogInv, StageInv, Stage, AcceptedStory, Integrated, Tested, Approved
<1>4. ClientInv'
  <2>1. SUFFICES ASSUME NEW d \in Clients PROVE (Reading(client[d]) /\ Informed(client[d]))'
    BY DEF ClientInv
  <2>2. PICK mine : mine = client'[d]
    OBVIOUS
  <2>3. Reading(mine) /\ Informed(mine)
    BY <1>2, <2>2 DEF StoryInv, ClientInv
  <2>4. Reading(client[d])'
    BY <2>2, <2>3 DEF Reading, Reached, Ahead, Lists, Own
  <2>5. Informed(client[d])'
    BY <2>2, <2>3 DEF Informed, Reached, Ahead
  <2> QED BY <2>4, <2>5
<1> QED BY <1>3, <1>4 DEF StoryInv

\* The batch that is read follows the cursor without a gap.
LEMMA ReadEventsStep == ASSUME StoryInv, NEW c \in Clients, ReadEvents(c) PROVE StoryInv'
<1> DEFINE old == client[c]
           all == Own(old.cursor + 1, Len(log))
<1>1. /\ old \in Client /\ Reading(old) /\ Informed(old) /\ old.at = "ask" /\ log \in Seq(Entry)
      /\ old.events = <<>> /\ Reached(old.cursor) /\ old.cursor \in Nat /\ Len(log) \in Nat
  BY DEF StoryInv, StoryTypes, ClientInv, Reading, ReadEvents, Client
<1>2. PICK batch \in EventsAfter(old.cursor) :
        client' = [client EXCEPT ![c].at = "row", ![c].events = batch]
  BY DEF ReadEvents
<1>3. all \subseteq Nat /\ \A n \in all : n > old.cursor /\ Reached(n)
  BY <1>1 DEF Own, Reached
<1>4. /\ batch \in Seq(all) /\ Len(batch) \in Nat /\ Len(batch) <= MaxBatch
      /\ Lists(batch, IF Len(batch) < MaxBatch THEN all ELSE Own(old.cursor + 1, batch[MaxBatch]))
  <2>1. PICK length \in 0..MaxBatch : batch \in [1..length -> all]
    BY <1>2 DEF EventsAfter
  <2>2. batch \in Seq(all) /\ Len(batch) = length
    BY <2>1
  <2> QED BY <1>2, <2>2 DEF EventsAfter
<1> DEFINE now == [old EXCEPT !.at = "row", !.events = batch]
<1>5. batch \in Seq(Nat)
  BY <1>3, <1>4
<1>6. /\ now \in Client /\ now.at = "row" /\ now.events = batch /\ now.cursor = old.cursor
      /\ now.seen = old.seen /\ now.row = old.row /\ now.watch = old.watch
  BY <1>1, <1>5 DEF Client
<1>7. client' = [client EXCEPT ![c] = now]
  BY <1>2 DEF StoryInv, StoryTypes
<1>8. Informed(now)
  BY <1>1, <1>6 DEF Informed
<1> HIDE DEF now
<1>9. Reading(now)
  <2>1. CASE batch = <<>>
    <3>1. Ahead(now) = old.cursor
      BY <1>6, <2>1 DEF Ahead
    <3>2. Lists(batch, Own(old.cursor + 1, old.cursor))
      BY <1>1, <2>1, NothingListed
    <3> QED BY <1>1, <1>4, <1>6, <3>1, <3>2 DEF Reading
  <2>2. CASE batch # <<>>
    <3> DEFINE last == batch[Len(batch)]
    <3>1. Len(batch) >= 1 /\ DOMAIN batch = 1..Len(batch) /\ last \in all
      BY <1>4, <2>2
    <3>2. Ahead(now) = last /\ Reached(last) /\ last > old.cursor /\ last \in Nat
      BY <1>3, <1>6, <2>2, <3>1 DEF Ahead
    <3>3. Lists(batch, Own(old.cursor + 1, last))
      <4>1. CASE Len(batch) < MaxBatch
        <5>1. {batch[i] : i \in DOMAIN batch} = all
              /\ \A i, j \in DOMAIN batch : i < j => batch[i] < batch[j]
          BY <1>4, <4>1 DEF Lists
        <5>2. \A n \in all : n <= last
          <6>1. TAKE n \in all
          <6>2. PICK i \in DOMAIN batch : batch[i] = n
            BY <5>1
          <6>3. i = Len(batch) \/ i < Len(batch)
            BY <3>1, <1>4
          <6>4. n \in Nat /\ last \in Nat
            BY <1>3, <3>1
          <6> QED BY <3>1, <5>1, <6>2, <6>3, <6>4
        <5>3. last <= Len(log)
          BY <3>1 DEF Own
        <5>4. all = Own(old.cursor + 1, last)
          BY <1>1, <1>3, <3>2, <5>2, <5>3 DEF Own
        <5> QED BY <1>4, <4>1, <5>4
      <4>2. CASE ~(Len(batch) < MaxBatch)
        <5>1. Len(batch) = MaxBatch
          BY <1>4, <4>2
        <5> QED BY <1>4, <4>2, <5>1
      <4> QED BY <4>1, <4>2
    <3> HIDE DEF last
    <3> QED BY <1>1, <1>4, <1>6, <3>2, <3>3 DEF Reading
  <2> QED BY <2>1, <2>2
<1> QED BY <1>6, <1>7, <1>8, <1>9, ClientStep DEF ReadEvents

\* The snapshot is of an event that is not before the batch, which was read earlier.
LEMMA ReadRowStep == ASSUME StoryInv, NEW c \in Clients, ReadRow(c) PROVE StoryInv'
<1> DEFINE old == client[c]
<1>1. /\ old \in Client /\ Reading(old) /\ Informed(old) /\ old.at = "row"
      /\ client \in [Clients -> Client] /\ run \in Runs
  BY DEF StoryInv, StoryTypes, ClientInv, ReadRow
<1>2. PICK timedOut \in BOOLEAN :
        client' = IF Responds(c, timedOut)
                  THEN [client EXCEPT ![c].at = "answer", ![c].row = [latest |-> Latest, status |-> run.status]]
                  ELSE [client EXCEPT ![c].at = "ask"]
  BY DEF ReadRow
<1>3. CASE Responds(c, timedOut)
  <2>1. PICK row : row = [latest |-> Latest, status |-> run.status]
    OBVIOUS
  <2>2. /\ row \in Snapshots /\ row # None /\ row.latest = Latest /\ row.status = run.status
    BY <1>1, <2>1, LatestIs, EventsAssumption DEF Snapshots, Runs
  <2> DEFINE now == [old EXCEPT !.at = "answer", !.row = row]
  <2>3. /\ now \in Client /\ now.at = "answer" /\ now.events = old.events /\ now.cursor = old.cursor
        /\ now.seen = old.seen /\ now.row = row /\ now.watch = old.watch
    BY <1>1, <2>2 DEF Client
  <2>4. client' = [client EXCEPT ![c] = now]
    BY <1>1, <1>2, <1>3, <2>1
  <2> HIDE DEF now
  <2>5. Ahead(now) = Ahead(old)
    BY <2>3 DEF Ahead
  <2>6. Reading(now)
    BY <1>1, <2>3, <2>5 DEF Reading
  <2>7. Latest >= Ahead(old)
    <3>1. Ahead(old) \in 0..Len(log) /\ (Ahead(old) > 0 => log[Ahead(old)].own)
      BY <1>1 DEF Reading, Reached
    <3>2. Ahead(old) > 0 => Ahead(old) \in Own(1, Len(log))
      BY <3>1 DEF Own
    <3>3. Ahead(old) = 0 \/ Ahead(old) > 0
      BY <3>1
    <3> QED BY <3>2, <3>3, LatestIs
  <2>8. Informed(now)
    BY <2>2, <2>3, <2>5, <2>7, LatestIs DEF Informed
  <2> QED BY <2>3, <2>4, <2>6, <2>8, ClientStep DEF ReadRow
<1>4. CASE ~Responds(c, timedOut)
  <2>1. old.events = <<>>
    BY <1>4 DEF Responds
  <2> DEFINE now == [old EXCEPT !.at = "ask"]
  <2>2. /\ now \in Client /\ now.at = "ask" /\ now.events = old.events /\ now.cursor = old.cursor
        /\ now.seen = old.seen /\ now.row = old.row /\ now.watch = old.watch
    BY <1>1 DEF Client
  <2>3. client' = [client EXCEPT ![c] = now]
    BY <1>1, <1>2, <1>4
  <2> HIDE DEF now
  <2>4. Ahead(now) = Ahead(old)
    BY <2>2 DEF Ahead
  <2>5. Reading(now) /\ Informed(now)
    BY <1>1, <2>1, <2>2, <2>4 DEF Reading, Informed
  <2> QED BY <2>2, <2>3, <2>5, ClientStep DEF ReadRow
<1> QED BY <1>3, <1>4

\* The batch joins what was read, and the cursor moves to its end.
LEMMA ReceiveStep == ASSUME StoryInv, NEW c \in Clients, Receive(c) PROVE StoryInv'
<1> DEFINE old == client[c]
<1>1. /\ old \in Client /\ Reading(old) /\ Informed(old) /\ old.at = "answer"
      /\ client \in [Clients -> Client] /\ old.row \in Snapshots \cup {None}
      /\ old.seen \in Seq(Nat) /\ old.events \in Seq(Nat) /\ old.cursor \in Nat
  BY DEF StoryInv, StoryTypes, ClientInv, Receive, Client
<1>2. NextCursor(c) = Ahead(old) /\ Ahead(old) \in Nat /\ Ahead(old) >= old.cursor /\ Reached(Ahead(old))
  BY <1>1 DEF NextCursor, Ahead, Reading, Reached
<1> DEFINE now == [old EXCEPT !.at = IF Satisfied(c) THEN "done" ELSE "ask",
                              !.row = IF Satisfied(c) THEN @ ELSE None,
                              !.cursor = Ahead(old), !.seen = @ \o old.events, !.events = <<>>]
<1>3. client' = [client EXCEPT ![c] = now]
  BY <1>1, <1>2 DEF Receive, Advanced
<1>4. /\ now.at = IF Satisfied(c) THEN "done" ELSE "ask"
      /\ now.row = IF Satisfied(c) THEN old.row ELSE None
      /\ now.cursor = Ahead(old) /\ now.seen = old.seen \o old.events /\ now.events = <<>>
      /\ now.watch = old.watch
  BY <1>1 DEF Client
<1>5. now \in Client
  <2>1. /\ (IF Satisfied(c) THEN "done" ELSE "ask") \in {"ask", "row", "answer", "done"}
        /\ (IF Satisfied(c) THEN old.row ELSE None) \in Snapshots \cup {None}
        /\ old.seen \o old.events \in Seq(Nat) /\ <<>> \in Seq(Nat)
    BY <1>1
  <2> QED BY <1>1, <1>2, <2>1 DEF Client
<1> HIDE DEF now
<1>6. Lists(old.seen \o old.events, Own(1, Ahead(old)))
  BY <1>1, <1>2, ListsJoin DEF Reading
<1>7. Ahead(now) = Ahead(old)
  BY <1>4 DEF Ahead
<1>8. Reading(now)
  <2>1. Lists(<<>>, Own(Ahead(old) + 1, Ahead(old)))
    BY <1>2, NothingListed
  <2> QED BY <1>2, <1>4, <1>6, <1>7, <2>1 DEF Reading
<1>9. Informed(now)
  <2>1. Satisfied(c) /\ ~old.watch => ~(old.row.latest > Ahead(old))
    BY <1>2 DEF Satisfied, HasMore
  <2>2. old.row # None /\ Reached(old.row.latest) /\ old.row.latest >= Ahead(old) /\ old.row.latest >= 1
        /\ log[old.row.latest].status = old.row.status
    BY <1>1 DEF Informed
  <2>3. old.row.latest \in Nat
    BY <2>2 DEF Reached
  <2> QED BY <1>2, <1>4, <1>7, <2>1, <2>2, <2>3 DEF Informed
<1> QED BY <1>3, <1>5, <1>8, <1>9, ClientStep DEF Receive

\* A client asks again, with the cursor it had.
LEMMA AskAgainStep ==
  ASSUME StoryInv, NEW c \in Clients, Interrupt(c) \/ FollowAgain(c)
  PROVE  StoryInv'
<1> DEFINE old == client[c]
           now == [old EXCEPT !.at = "ask", !.events = <<>>, !.row = None]
<1>1. /\ old \in Client /\ Reading(old) /\ Informed(old) /\ client \in [Clients -> Client]
      /\ old.cursor \in Nat
  BY DEF StoryInv, StoryTypes, ClientInv, Client
<1>2. client' = [client EXCEPT ![c] = now]
  <2>1. CASE Interrupt(c)
    BY <1>1, <2>1 DEF Interrupt
  <2>2. CASE FollowAgain(c)
    <3>1. old.events = <<>>
      BY <1>1, <2>2 DEF FollowAgain, Reading
    <3>2. [old EXCEPT !.at = "ask", !.row = None] = now
      BY <1>1, <3>1 DEF Client
    <3> QED BY <1>1, <2>2, <3>2 DEF FollowAgain
  <2> QED BY <2>1, <2>2
<1>3. /\ now \in Client /\ now.at = "ask" /\ now.events = <<>> /\ now.cursor = old.cursor
      /\ now.seen = old.seen /\ now.row = None /\ now.watch = old.watch
  <2>1. <<>> \in Seq(Nat)
    OBVIOUS
  <2> QED BY <1>1, <2>1 DEF Client
<1> HIDE DEF now
<1>4. Ahead(now) = old.cursor
  BY <1>3 DEF Ahead
<1>5. Reading(now)
  <2>1. Lists(<<>>, Own(old.cursor + 1, old.cursor))
    BY <1>1, NothingListed
  <2>2. Reached(old.cursor) /\ Lists(old.seen, Own(1, old.cursor))
    BY <1>1 DEF Reading
  <2> QED BY <1>1, <1>3, <1>4, <2>1, <2>2 DEF Reading
<1>6. Informed(now)
  BY <1>3 DEF Informed
<1> QED BY <1>2, <1>3, <1>5, <1>6, ClientStep DEF Interrupt, FollowAgain

-----------------------------------------------------------------------------
(* The theorems *)

\* A new or an old run, and the event that tells of it first.
LEMMA InitialStory == RunEventsInit => StoryInv
<1> SUFFICES ASSUME RunEventsInit PROVE StoryInv
  OBVIOUS
<1>1. /\ {"contract1", "stop", "integrate"} \subseteq Actions /\ None \notin Actions
      /\ {"RUNNING", "WAITING", "BLOCKED"} \subseteq Statuses
      /\ 0 \in 0..2 /\ 2 \in 0..2 /\ 0 \in Nat /\ 1 \in Nat
      /\ {"none", "failed"} \subseteq {"none", "passed", "failed"}
  BY EventsAssumption, StoppedKinds DEF Actions, Statuses
<1>2. /\ NewRun \in Runs /\ NewRun.back = None /\ NewRun.action = "contract1"
  BY <1>1 DEF NewRun, Runs
<1>3. \A status \in {"WAITING", "BLOCKED"}, sha \in {0, 1} :
        LET now == OldRun(status, sha) IN
        /\ now \in Runs /\ now.status = status
        /\ now.action = IF status = "BLOCKED" THEN "stop" ELSE "integrate"
        /\ now.back = IF status = "BLOCKED" THEN "integrate" ELSE None
  <2>1. TAKE status \in {"WAITING", "BLOCKED"}, sha \in {0, 1}
  <2>2. PICK action \in Actions, back \in Actions \cup {None}, workspace \in BOOLEAN,
             result \in {"none", "passed", "failed"} :
          /\ action = IF status = "BLOCKED" THEN "stop" ELSE "integrate"
          /\ back = IF status = "BLOCKED" THEN "integrate" ELSE None
          /\ workspace = (sha = 1) /\ result = IF sha = 1 THEN "failed" ELSE "none"
    BY <1>1
  <2>3. OldRun(status, sha) =
          [status |-> status, action |-> action, back |-> back, contracts |-> 2, plan |-> 1,
           planFeedback |-> 0, approved |-> TRUE, sha |-> sha, workspace |-> workspace,
           evidence |-> result, feedback |-> sha]
    <3>1. OldRun(status, sha) =
            [NewRun EXCEPT !.status = status, !.action = action, !.back = back, !.contracts = 2, !.plan = 1,
                           !.approved = TRUE, !.sha = sha, !.workspace = workspace, !.evidence = result,
                           !.feedback = sha]
      BY <2>2, Zenon DEF OldRun
    <3> QED BY <3>1 DEF NewRun
  <2>4. sha \in Nat /\ status \in Statuses
    BY <1>1
  <2>5. OldRun(status, sha) \in Runs
    BY <1>1, <2>3, <2>4 DEF Runs
  <2>6. /\ OldRun(status, sha).status = status /\ OldRun(status, sha).action = action
        /\ OldRun(status, sha).back = back
    BY <2>3
  <2> QED BY <2>2, <2>5, <2>6
<1>4. /\ run \in Runs /\ run.action \in {"contract1", "stop", "integrate"}
      /\ run.action = "stop" => run.back = "integrate"
      /\ run.action # "stop" => run.back = None
  BY <1>2, <1>3 DEF RunEventsInit
<1>5. run.status # "ACCEPTED"
  BY <1>3 DEF RunEventsInit, NewRun
<1>6. PICK event : event = ProgressEvent(None, run)
  OBVIOUS
<1>7. /\ Kind(None, run) \in StopKinds \cup {"run_started"} /\ Kind(None, run) # "accepted"
  <2>1. CASE run.status \in DOMAIN Stopped
    BY <1>5, <2>1, StoppedKinds DEF Kind
  <2>2. CASE run.status \notin DOMAIN Stopped
    BY <2>2 DEF Kind
  <2> QED BY <2>1, <2>2
<1>8. /\ event \in Entry /\ event.own = TRUE /\ event.status = run.status /\ event.kind # "accepted"
  <2>1. \A name \in RuleKinds \cup StopKinds \cup {"run_started"}, status \in Statuses, sha \in Nat,
           evidence \in Evidence :
          [own |-> TRUE, kind |-> name, status |-> status, sha |-> sha, evidence |-> evidence] \in Entry
    BY DEF Entry
  <2>2. run.status \in Statuses /\ run.sha \in Nat /\ run.evidence \in Evidence
    BY <1>4 DEF Runs, Evidence
  <2>3. event = [own |-> TRUE, kind |-> Kind(None, run), status |-> run.status, sha |-> run.sha,
                 evidence |-> run.evidence]
    BY <1>6 DEF ProgressEvent
  <2>4. Kind(None, run) \in RuleKinds \cup StopKinds \cup {"run_started"}
    BY <1>7
  <2>5. event \in Entry
    BY <2>1, <2>2, <2>3, <2>4, Zenon
  <2> QED BY <1>7, <2>3, <2>5
<1>9. log = <<event>> /\ log \in Seq(Entry) /\ Len(log) = 1 /\ log[1] = event /\ DOMAIN log = {1}
  BY <1>6, <1>8 DEF RunEventsInit
<1>10. PICK watch \in [Clients -> BOOLEAN] :
         client = [c \in Clients |-> [watch |-> watch[c], at |-> "ask", cursor |-> 0, events |-> <<>>,
                                      row |-> None, seen |-> <<>>]]
  BY DEF RunEventsInit
<1>11. \A c \in Clients : /\ client[c] \in Client /\ client[c].at = "ask" /\ client[c].cursor = 0
                          /\ client[c].events = <<>> /\ client[c].row = None /\ client[c].seen = <<>>
  <2>1. TAKE c \in Clients
  <2>2. watch[c] \in BOOLEAN /\ <<>> \in Seq(Nat)
    BY <1>10
  <2> QED BY <1>10, <2>2 DEF Client
<1>12. StoryTypes
  BY <1>4, <1>9, <1>10, <1>11 DEF StoryTypes
<1>13. LogInv
  BY <1>8, <1>9 DEF LogInv
<1>14. ClientInv
  <2>1. SUFFICES ASSUME NEW c \in Clients PROVE Reading(client[c]) /\ Informed(client[c])
    BY DEF ClientInv
  <2>2. PICK now : now = client[c]
    OBVIOUS
  <2>3. /\ now.at = "ask" /\ now.cursor = 0 /\ now.events = <<>> /\ now.row = None /\ now.seen = <<>>
    BY <1>11, <2>2
  <2>4. Lists(<<>>, Own(0 + 1, 0)) /\ 0 + 1 = 1
    BY NothingListed
  <2>5. Ahead(now) = 0 /\ Reached(0)
    BY <1>9, <2>3 DEF Ahead, Reached
  <2>6. Reading(now)
    BY <2>3, <2>4, <2>5 DEF Reading
  <2>7. Informed(now)
    BY <2>3 DEF Informed
  <2> QED BY <2>2, <2>6, <2>7
<1>15. StageInv
  BY <1>4 DEF StageInv, Stage
<1>16. AcceptedStory
  BY <1>8, <1>9 DEF AcceptedStory
<1> QED BY <1>12, <1>13, <1>14, <1>15, <1>16 DEF StoryInv

\* Every step keeps the invariant.
LEMMA StoryStep == StoryInv /\ [RunEventsNext]_runEventsVars => StoryInv'
<1> SUFFICES ASSUME StoryInv, [RunEventsNext]_runEventsVars PROVE StoryInv'
  OBVIOUS
<1>1. CASE UNCHANGED runEventsVars
  BY <1>1 DEF runEventsVars, StoryInv, StoryTypes, LogInv, ClientInv, StageInv, Stage, AcceptedStory, Integrated,
              Tested, Approved, Reading, Informed, Reached, Ahead, Lists, Own
<1>2. CASE RunStep
  BY <1>2, PlanStep, IntegrationStep, VerificationStep, ApprovalStep, AcceptStep, StopStep, OtherStep DEF RunStep
<1>3. CASE \E c \in Clients : Follow(c) \/ Interrupt(c)
  BY <1>3, ReadEventsStep, ReadRowStep, ReceiveStep, AskAgainStep DEF Follow
<1> QED BY <1>1, <1>2, <1>3 DEF RunEventsNext

\* Every state of the run's story satisfies the inductive invariant.
THEOREM StoryInvariance == RunEventsSpec => []StoryInv
<1>1. RunEventsInit => StoryInv
  BY InitialStory
<1>2. StoryInv /\ [RunEventsNext]_runEventsVars => StoryInv'
  BY StoryStep
<1> QED BY <1>1, <1>2, PTL DEF RunEventsSpec

\* The run, its events and its clients are what the code can store: a client's cursor is
\* in the log, a batch within its limit, and a snapshot there when one was read.
THEOREM StoryTypeCorrect == RunEventsSpec => []RunEventsTypeOK
<1>1. StoryInv => RunEventsTypeOK
  <2> SUFFICES ASSUME StoryInv PROVE RunEventsTypeOK
    OBVIOUS
  <2>1. \A c \in Clients :
          /\ client[c].at \in {"ask", "row", "answer", "done"}
          /\ client[c].cursor \in 0..Len(log) /\ Len(client[c].events) <= MaxBatch
          /\ (client[c].row = None) <=> client[c].at \in {"ask", "row"}
    <3>1. TAKE c \in Clients
    <3>2. client[c] \in Client /\ Reading(client[c]) /\ Informed(client[c])
      BY DEF StoryInv, StoryTypes, ClientInv
    <3> QED BY <3>2 DEF Client, Reading, Reached, Informed
  <2> QED BY <2>1 DEF RunEventsTypeOK, StoryInv, StoryTypes, LogInv
<1> QED BY <1>1, StoryInvariance, PTL

\* A client that stops has read the events of its run up to its cursor, once and in order;
\* a launcher all of them up to its snapshot, whose status the last one tells.
THEOREM LauncherSeesTheEndHolds == RunEventsSpec => []LauncherSeesTheEnd
<1>1. StoryInv => LauncherSeesTheEnd
  <2> SUFFICES ASSUME StoryInv, NEW c \in Clients, client[c].at = "done"
               PROVE  /\ Lists(client[c].seen, Own(1, client[c].cursor))
                      /\ ~client[c].watch =>
                           /\ client[c].cursor = client[c].row.latest
                           /\ log[client[c].seen[Len(client[c].seen)]].status = client[c].row.status
    BY DEF LauncherSeesTheEnd
  <2>1. PICK now : now = client[c]
    OBVIOUS
  <2>2. /\ now \in Client /\ Reading(now) /\ Informed(now) /\ now.at = "done"
        /\ now.seen \in Seq(Nat) /\ now.cursor \in Nat
    BY <2>1 DEF StoryInv, StoryTypes, ClientInv, Client
  <2>3. Lists(now.seen, Own(1, now.cursor))
    BY <2>2 DEF Reading
  <2>4. ASSUME ~now.watch
        PROVE  now.cursor = now.row.latest /\ log[now.seen[Len(now.seen)]].status = now.row.status
    <3>1. /\ now.cursor = now.row.latest /\ now.cursor >= 1 /\ Reached(now.cursor)
          /\ log[now.cursor].status = now.row.status
      BY <2>2, <2>4 DEF Informed
    <3>2. now.cursor \in Own(1, now.cursor)
      BY <2>2, <3>1 DEF Own, Reached
    <3>3. /\ DOMAIN now.seen = 1..Len(now.seen) /\ Len(now.seen) \in Nat
          /\ {now.seen[i] : i \in DOMAIN now.seen} = Own(1, now.cursor)
          /\ \A i, j \in DOMAIN now.seen : i < j => now.seen[i] < now.seen[j]
      BY <2>2, <2>3 DEF Lists
    <3>4. PICK i \in DOMAIN now.seen : now.seen[i] = now.cursor
      BY <3>2, <3>3
    <3>5. Len(now.seen) \in DOMAIN now.seen
      BY <3>3, <3>4
    <3>6. now.seen[Len(now.seen)] \in Own(1, now.cursor)
      BY <3>3, <3>5
    <3>7. now.seen[Len(now.seen)] \in Nat /\ now.seen[Len(now.seen)] <= now.cursor
      BY <2>2, <3>6 DEF Own
    <3>8. i = Len(now.seen) \/ i < Len(now.seen)
      BY <3>3, <3>4
    <3>9. now.seen[Len(now.seen)] = now.cursor
      BY <2>2, <3>3, <3>4, <3>5, <3>7, <3>8
    <3> QED BY <3>1, <3>9
  <2> QED BY <2>1, <2>3, <2>4
<1> QED BY <1>1, StoryInvariance, PTL

\* The events before the one of an accepted run tell that its commit was integrated, then
\* verified, then approved.
THEOREM AcceptedIsExplainedHolds == RunEventsSpec => []AcceptedIsExplained
<1>1. StoryInv => AcceptedIsExplained
  <2> SUFFICES ASSUME StoryInv, NEW n \in DOMAIN log, log[n].own, log[n].kind = "accepted"
               PROVE  \E i, v, a \in 1..n - 1 :
                        /\ i < v /\ v < a
                        /\ \A m \in {i, v, a} : log[m].own /\ log[m].sha = log[n].sha
                        /\ log[i].kind = "integration_ready"
                        /\ log[v].kind = "verification_passed" /\ log[v].evidence = "passed"
                        /\ log[a].kind = "result_approved"
    BY DEF AcceptedIsExplained
  <2>1. PICK i, v, a \in 1..n - 1 :
          i < v /\ v < a /\ Integrated(i, log[n].sha) /\ Tested(v, log[n].sha) /\ Approved(a, log[n].sha)
    BY DEF StoryInv, AcceptedStory
  <2> QED BY <2>1 DEF Integrated, Tested, Approved
<1> QED BY <1>1, StoryInvariance, PTL

=============================================================================
