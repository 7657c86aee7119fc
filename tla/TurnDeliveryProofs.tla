------------------------- MODULE TurnDeliveryProofs -------------------------
(***************************************************************************)
(* For any number of requests, failures, crashes and turns of the user: a  *)
(* request is never delivered again while an earlier delivery may still be *)
(* answered, only turns that are over and without effects are given up,    *)
(* and the accepted answers are those of the request's own turn.           *)
(*                                                                         *)
(* A delivery may be in the thread or still on its way, so the invariant   *)
(* counts both (Single). What makes it inductive is what allows a send: of *)
(* a stored task that the thread was read and has no turn of the request,  *)
(* of an ephemeral one that no intent was ever recorded (Unsent).          *)
(***************************************************************************)
EXTENDS TurnDelivery, SequenceTheorems, FiniteSetTheorems, TLAPS

ThreadTurn == [request : Requests \cup {None}, status : Ended \cup {"inProgress"}, effects : BOOLEAN]
TurnRow    == [state : {"NONE", "PENDING", "SENT", "ACCEPTED"}, id : Nat \cup {None}, intent : BOOLEAN]
Drives     == [at : Waits \cup {"idle", "record", "decide"}, found : Nat \cup {None}, busy : BOOLEAN]

StoreShape ==
  /\ ephemeral \in BOOLEAN
  /\ row \in [status : {"RUNNING", "PAUSED", "BLOCKED", "REFUSED"}, answers : 0..Last]
  /\ turn \in [Requests -> TurnRow]
  /\ archived \in [Requests -> SUBSET Ids] /\ evidence \subseteq Ids

AppShape ==
  /\ thread \in Seq(ThreadTurn)
  /\ sent \in Nat /\ wire \subseteq [request : Requests, number : 1..sent]
  /\ reply \in Ids \cup {None}

\* The drive works on a running run, prepare_resume on a paused one, both on its pending
\* request.
ControlShape ==
  /\ drive \in Drives /\ resume \in {"idle", "reset", "save"}
  /\ drive.at # "idle" => row.status = "RUNNING" /\ Current \in Requests
  /\ resume # "idle" => row.status = "PAUSED" /\ Current \in Requests
  /\ reply # None => drive.at = "answer"

Shape == StoreShape /\ AppShape /\ ControlShape

\* A turn of request m that was not given up.
Live(m, i) == i \in Ids /\ thread[i].request = m /\ i \notin archived[m]

\* A request for a turn that was not executed.
Travels(m, w) == w \in wire /\ w.request = m

NotDelivered(m) == (\A i \in Ids : ~Live(m, i)) /\ \A w \in wire : ~Travels(m, w)

\* At most one delivery of each request, executed or not.
Single ==
  \A m \in Requests :
    /\ \A i, j \in Ids : Live(m, i) /\ Live(m, j) => i = j
    /\ \A v, w \in wire : Travels(m, v) /\ Travels(m, w) => v = w
    /\ \A i \in Ids, w \in wire : ~(Live(m, i) /\ Travels(m, w))

\* What is sent was not delivered before.
Unsent ==
  /\ drive.at = "send" => NotDelivered(Current) /\ turn[Current].intent
  /\ drive.at = "decide" /\ drive.found = None /\ ~ephemeral => NotDelivered(Current)
  /\ ephemeral => \A m \in Requests : ~turn[m].intent => NotDelivered(m)

\* A recorded turn is the request's own, and so is one that was found or that answers.
Recorded ==
  /\ \A m \in Requests :
       /\ turn[m].id # None => Live(m, turn[m].id)
       /\ turn[m].state \in {"SENT", "ACCEPTED"} <=> turn[m].id # None
  /\ drive.at = "decide" /\ drive.found # None => Live(Current, drive.found)
  /\ drive.at = "wait" => turn[Current].id # None
  /\ drive.at = "answer" => \A w \in wire : w.number = sent => w.request = Current
  /\ reply # None => Live(Current, reply) /\ \A w \in wire : w.number # sent

\* Durable evidence is of turns that are over, and only those are given up.
Over(i) == thread[i].status \in Ended
Ending ==
  /\ \A i \in evidence : Over(i)
  /\ \A m \in Requests : \A i \in archived[m] :
       thread[i].request = m /\ Over(i) /\ ~thread[i].effects
  /\ resume = "reset" =>
       turn[Current].id # None /\ Over(turn[Current].id) /\ ~thread[turn[Current].id].effects

Answers ==
  \A m \in Requests :
    /\ turn[m].state = "ACCEPTED" <=> m < row.answers
    /\ turn[m].state = "ACCEPTED" => thread[turn[m].id].status = "completed"

\* What the drive found is a turn of the task.
FoundTurn == drive.found \in Ids \cup {None}

Inv == Shape /\ FoundTurn /\ Single /\ Unsent /\ Recorded /\ Ending /\ Answers

-----------------------------------------------------------------------------
(* What a step does to rows, turns and requests on their way.              *)

USE DeliveryAssumption
  DEF DeliveryAssumption, Requests, Ended, Waits, Ids, Current, store, app, vars, Fail, Goto

\* A turn is added at the end of the thread, or one of its turns ends.
LEMMA ThreadFacts ==
  ASSUME thread \in Seq(ThreadTurn)
  PROVE  /\ Len(thread) \in Nat /\ Ids = 1..Len(thread) /\ \A i \in Ids : thread[i] \in ThreadTurn
         /\ \A x \in ThreadTurn : thread' = Append(thread, x) =>
              /\ thread' \in Seq(ThreadTurn) /\ DOMAIN thread' = Ids \cup {Len(thread) + 1}
              /\ Len(thread) + 1 \notin Ids /\ thread'[Len(thread) + 1] = x
              /\ \A i \in Ids : thread'[i] = thread[i]
         /\ \A i \in Ids, st \in Ended, e \in BOOLEAN :
              thread' = [thread EXCEPT ![i].status = st, ![i].effects = e] =>
              /\ thread' \in Seq(ThreadTurn) /\ DOMAIN thread' = Ids
              /\ thread'[i].request = thread[i].request /\ thread'[i].status = st
              /\ \A j \in Ids \ {i} : thread'[j] = thread[j]
<1>1. Len(thread) \in Nat /\ Ids = 1..Len(thread) /\ \A i \in Ids : thread[i] \in ThreadTurn
  OBVIOUS
<1>2. ASSUME NEW x \in ThreadTurn, thread' = Append(thread, x)
      PROVE  /\ thread' \in Seq(ThreadTurn) /\ DOMAIN thread' = Ids \cup {Len(thread) + 1}
             /\ Len(thread) + 1 \notin Ids /\ thread'[Len(thread) + 1] = x
             /\ \A i \in Ids : thread'[i] = thread[i]
  BY <1>2, AppendProperties
<1>3. ASSUME NEW i \in Ids, NEW st \in Ended, NEW e \in BOOLEAN,
             thread' = [thread EXCEPT ![i].status = st, ![i].effects = e]
      PROVE  /\ thread' \in Seq(ThreadTurn) /\ DOMAIN thread' = Ids
             /\ thread'[i].request = thread[i].request /\ thread'[i].status = st
             /\ \A j \in Ids \ {i} : thread'[j] = thread[j]
  <2>1. /\ thread'[i] = [[thread[i] EXCEPT !.status = st] EXCEPT !.effects = e]
        /\ DOMAIN thread' = Ids /\ \A j \in Ids \ {i} : thread'[j] = thread[j]
    BY <1>1, <1>3
  <2>2. thread'[i] \in ThreadTurn /\ thread'[i].request = thread[i].request /\ thread'[i].status = st
    BY <1>1, <2>1 DEF ThreadTurn
  <2>3. thread' = [j \in 1..Len(thread) |-> thread'[j]] /\ \A j \in 1..Len(thread) : thread'[j] \in ThreadTurn
    BY <1>1, <1>3, <2>1, <2>2
  <2>4. thread' \in Seq(ThreadTurn) BY <1>1, <2>3, IsASeq
  <2> QED BY <2>1, <2>2, <2>4
<1> QED BY <1>1, <1>2, <1>3

\* One request's row changes at a time.
LEMMA RowFacts ==
  ASSUME turn \in [Requests -> TurnRow], NEW m \in Requests
  PROVE  /\ turn[m] \in TurnRow
         /\ \A st \in {"NONE", "PENDING", "SENT", "ACCEPTED"} :
              turn' = [turn EXCEPT ![m].state = st] =>
                /\ turn' \in [Requests -> TurnRow]
                /\ turn'[m].state = st /\ turn'[m].id = turn[m].id /\ turn'[m].intent = turn[m].intent
                /\ \A n \in Requests \ {m} : turn'[n] = turn[n]
         /\ turn' = [turn EXCEPT ![m].intent = TRUE] =>
                /\ turn' \in [Requests -> TurnRow]
                /\ turn'[m].state = turn[m].state /\ turn'[m].id = turn[m].id /\ turn'[m].intent
                /\ \A n \in Requests \ {m} : turn'[n] = turn[n]
         /\ \A i \in Nat : turn' = [turn EXCEPT ![m].state = "SENT", ![m].id = i] =>
                /\ turn' \in [Requests -> TurnRow]
                /\ turn'[m].state = "SENT" /\ turn'[m].id = i /\ turn'[m].intent = turn[m].intent
                /\ \A n \in Requests \ {m} : turn'[n] = turn[n]
<1>1. turn[m] \in TurnRow OBVIOUS
<1>2. \A st \in {"NONE", "PENDING", "SENT", "ACCEPTED"}, w \in TurnRow :
        /\ [w EXCEPT !.state = st] \in TurnRow /\ [w EXCEPT !.state = st].state = st
        /\ [w EXCEPT !.state = st].id = w.id /\ [w EXCEPT !.state = st].intent = w.intent
  BY DEF TurnRow
<1>3. \A w \in TurnRow :
        /\ [w EXCEPT !.intent = TRUE] \in TurnRow /\ [w EXCEPT !.intent = TRUE].intent = TRUE
        /\ [w EXCEPT !.intent = TRUE].id = w.id /\ [w EXCEPT !.intent = TRUE].state = w.state
  BY DEF TurnRow
<1>4. \A w \in TurnRow, i \in Nat :
        LET v == [[w EXCEPT !.state = "SENT"] EXCEPT !.id = i]
        IN v \in TurnRow /\ v.state = "SENT" /\ v.id = i /\ v.intent = w.intent
  BY DEF TurnRow
<1>5. ASSUME NEW w \in TurnRow, turn' = [turn EXCEPT ![m] = w]
      PROVE  turn' \in [Requests -> TurnRow] /\ turn'[m] = w /\ \A n \in Requests \ {m} : turn'[n] = turn[n]
  BY <1>5
<1>6. ASSUME NEW st \in {"NONE", "PENDING", "SENT", "ACCEPTED"}, turn' = [turn EXCEPT ![m].state = st]
      PROVE  turn' = [turn EXCEPT ![m] = [turn[m] EXCEPT !.state = st]]
  BY <1>6
<1>7. ASSUME turn' = [turn EXCEPT ![m].intent = TRUE]
      PROVE  turn' = [turn EXCEPT ![m] = [turn[m] EXCEPT !.intent = TRUE]]
  BY <1>7
<1>8. ASSUME NEW i \in Nat, turn' = [turn EXCEPT ![m].state = "SENT", ![m].id = i]
      PROVE  turn' = [turn EXCEPT ![m] = [[turn[m] EXCEPT !.state = "SENT"] EXCEPT !.id = i]]
  BY <1>8
<1>9. ASSUME NEW st \in {"NONE", "PENDING", "SENT", "ACCEPTED"}, turn' = [turn EXCEPT ![m].state = st]
      PROVE  /\ turn' \in [Requests -> TurnRow]
             /\ turn'[m].state = st /\ turn'[m].id = turn[m].id /\ turn'[m].intent = turn[m].intent
             /\ \A n \in Requests \ {m} : turn'[n] = turn[n]
  BY <1>1, <1>2, <1>5, <1>6, <1>9
<1>10. ASSUME turn' = [turn EXCEPT ![m].intent = TRUE]
       PROVE  /\ turn' \in [Requests -> TurnRow]
              /\ turn'[m].state = turn[m].state /\ turn'[m].id = turn[m].id /\ turn'[m].intent
              /\ \A n \in Requests \ {m} : turn'[n] = turn[n]
  BY <1>1, <1>3, <1>5, <1>7, <1>10
<1>11. ASSUME NEW i \in Nat, turn' = [turn EXCEPT ![m].state = "SENT", ![m].id = i]
       PROVE  /\ turn' \in [Requests -> TurnRow]
              /\ turn'[m].state = "SENT" /\ turn'[m].id = i /\ turn'[m].intent = turn[m].intent
              /\ \A n \in Requests \ {m} : turn'[n] = turn[n]
  <2> DEFINE w == [[turn[m] EXCEPT !.state = "SENT"] EXCEPT !.id = i]
  <2>1. w \in TurnRow /\ w.state = "SENT" /\ w.id = i /\ w.intent = turn[m].intent
    BY <1>1, <1>4
  <2>2. turn' = [turn EXCEPT ![m] = w] BY <1>8, <1>11
  <2> HIDE DEF w
  <2>3. turn' \in [Requests -> TurnRow] /\ turn'[m] = w /\ \A n \in Requests \ {m} : turn'[n] = turn[n]
    BY <1>5, <2>1, <2>2
  <2> QED BY <2>1, <2>3
<1> QED BY <1>1, <1>9, <1>10, <1>11

\* Turns stay in the thread, belong to their request, and end once.
LEMMA ThreadMoves ==
  ASSUME Shape, Next
  PROVE  /\ thread' \in Seq(ThreadTurn) /\ Ids \subseteq DOMAIN thread'
         /\ \A i \in Ids : thread'[i].request = thread[i].request /\ (Over(i) => thread'[i] = thread[i])
         /\ ~ExecuteTurnStart => \A i \in DOMAIN thread' \ Ids : thread'[i].request = None
<1>0. thread \in Seq(ThreadTurn) BY DEF Shape, AppShape
<1>1. CASE UNCHANGED thread BY <1>0, <1>1
<1>2. ASSUME NEW x \in ThreadTurn, thread' = Append(thread, x), x.request = None \/ ExecuteTurnStart
      PROVE  /\ thread' \in Seq(ThreadTurn) /\ Ids \subseteq DOMAIN thread'
             /\ \A i \in Ids : thread'[i] = thread[i]
             /\ ~ExecuteTurnStart => \A i \in DOMAIN thread' \ Ids : thread'[i].request = None
  BY <1>0, <1>2, ThreadFacts
<1>3. CASE ExecuteTurnStart
  <2>1. PICK w \in wire :
          thread' = Append(thread, [request |-> w.request, status |-> "inProgress", effects |-> FALSE])
    BY <1>3 DEF ExecuteTurnStart
  <2>2. [request |-> w.request, status |-> "inProgress", effects |-> FALSE] \in ThreadTurn
    BY <2>1 DEF ThreadTurn, Shape, AppShape
  <2> QED BY <1>2, <1>3, <2>1, <2>2
<1>4. CASE UserTurn
  <2>1. [request |-> None, status |-> "inProgress", effects |-> FALSE] \in ThreadTurn
    BY DEF ThreadTurn
  <2> QED BY <1>2, <1>4, <2>1 DEF UserTurn
<1>5. CASE TurnCompletes \/ TurnBreaks
  <2>1. PICK i \in Ids, st \in Ended, e \in BOOLEAN :
          thread[i].status = "inProgress" /\ thread' = [thread EXCEPT ![i].status = st, ![i].effects = e]
    BY <1>5 DEF TurnCompletes, TurnBreaks
  <2>2. /\ thread' \in Seq(ThreadTurn) /\ DOMAIN thread' = Ids
        /\ thread'[i].request = thread[i].request
        /\ \A j \in Ids \ {i} : thread'[j] = thread[j]
    BY <1>0, <2>1, ThreadFacts
  <2>3. ~Over(i) BY <2>1 DEF Over
  <2> QED BY <2>2, <2>3
<1> QED
  BY <1>1, <1>3, <1>4, <1>5
  DEF Next, Drive, Resume, AppServer, Faults, BeginStep, TaskPrepared, RecordPendingSend, ReadThread,
      RecordRecoveredTurn, DeliveryUncertain, TaskBecameActive, RecordIntent, SendTurnStart, TurnStarted,
      RecordCompletion, AcceptResponse, TurnFailed, Inspect, ResetTurn, SaveResume, RetryRefused,
      LoseTurnStart, StartRefused, RefuseResponse, CommunicationFails, Crash

\* What prepare_terminal_turn_retry and the waits see of a turn is what happened to it, and it
\* is over.
LEMMA ObservedFacts ==
  ASSUME Shape, Ending, NEW i, Observed(i) \in Ended
  PROVE  Over(i) /\ thread[i].status = Observed(i)
BY DEF Observed, Ending, Over, Shape, AppShape, ThreadTurn

\* Every transaction of the delivery keeps the rows sound.
LEMMA StoreStep ==
  ASSUME Shape, Recorded, Ending, Answers, Next
  PROVE  StoreShape'
<1> USE DEF Shape
<1>1. ephemeral' \in BOOLEAN
  BY DEF StoreShape, Next, Drive, Resume, AppServer, Faults, BeginStep, TaskPrepared, RecordPendingSend,
      ReadThread, RecordRecoveredTurn, DeliveryUncertain, TaskBecameActive, RecordIntent, SendTurnStart,
      TurnStarted, RecordCompletion, AcceptResponse, TurnFailed, Inspect, ResetTurn, SaveResume,
      RetryRefused, LoseTurnStart, StartRefused, RefuseResponse, CommunicationFails, Crash,
      ExecuteTurnStart, TurnCompletes, TurnBreaks, UserTurn
<1>2. row' \in [status : {"RUNNING", "PAUSED", "BLOCKED", "REFUSED"}, answers : 0..Last]
  <2>1. \A st \in {"RUNNING", "PAUSED", "BLOCKED", "REFUSED"} :
          [row EXCEPT !.status = st] \in [status : {"RUNNING", "PAUSED", "BLOCKED", "REFUSED"}, answers : 0..Last]
    BY DEF StoreShape
  <2>2. CASE AcceptResponse
    BY <2>2 DEF AcceptResponse, Advanced, StoreShape, ControlShape
  <2>3. CASE UNCHANGED row \/ \E st \in {"RUNNING", "PAUSED", "BLOCKED", "REFUSED"} : row' = [row EXCEPT !.status = st]
    BY <2>1, <2>3 DEF StoreShape
  <2> QED
    BY <2>2, <2>3
    DEF Next, Drive, Resume, AppServer, Faults, BeginStep, TaskPrepared, RecordPendingSend, ReadThread,
      RecordRecoveredTurn, DeliveryUncertain, TaskBecameActive, RecordIntent, SendTurnStart, TurnStarted,
      RecordCompletion, TurnFailed, Inspect, ResetTurn, SaveResume, RetryRefused, LoseTurnStart,
      StartRefused, RefuseResponse, CommunicationFails, Crash, ExecuteTurnStart, TurnCompletes,
      TurnBreaks, UserTurn
<1>3. turn' \in [Requests -> TurnRow]
  <2>1. turn \in [Requests -> TurnRow] BY DEF StoreShape
  <2>2. CASE RecordPendingSend \/ AcceptResponse
    <3>1. Current \in Requests BY <2>2 DEF RecordPendingSend, AcceptResponse, ControlShape
    <3> QED BY <2>1, <2>2, <3>1, RowFacts DEF RecordPendingSend, AcceptResponse
  <2>3. CASE RecordIntent
    <3>1. Current \in Requests BY <2>3 DEF RecordIntent, ControlShape
    <3> QED BY <2>1, <2>3, <3>1, RowFacts DEF RecordIntent
  <2>4. CASE RecordRecoveredTurn \/ TurnStarted
    <3>1. Current \in Requests BY <2>4 DEF RecordRecoveredTurn, TurnStarted, ControlShape
    <3>2. drive.found \in Nat \cup {None} /\ reply \in Nat \cup {None}
      BY DEF ControlShape, Drives, AppShape
    <3>3. PICK i \in Nat : turn' = [turn EXCEPT ![Current].state = "SENT", ![Current].id = i]
      BY <2>4, <3>2 DEF RecordRecoveredTurn, TurnStarted
    <3> QED BY <2>1, <3>1, <3>3, RowFacts
  <2>5. CASE ResetTurn \/ RetryRefused
    <3>1. [state |-> "PENDING", id |-> None, intent |-> FALSE] \in TurnRow BY DEF TurnRow
    <3> QED BY <2>1, <2>5, <3>1 DEF ResetTurn, RetryRefused, GiveUp
  <2>6. CASE UNCHANGED turn BY <2>1, <2>6
  <2> QED
    BY <2>2, <2>3, <2>4, <2>5, <2>6
    DEF Next, Drive, Resume, AppServer, Faults, BeginStep, TaskPrepared, ReadThread, DeliveryUncertain,
      TaskBecameActive, SendTurnStart, RecordCompletion, TurnFailed, Inspect, SaveResume, LoseTurnStart,
      StartRefused, RefuseResponse, CommunicationFails, Crash, ExecuteTurnStart, TurnCompletes,
      TurnBreaks, UserTurn
<1>4. archived' \in [Requests -> SUBSET DOMAIN thread']
  <2>1. archived \in [Requests -> SUBSET DOMAIN thread'] BY ThreadMoves DEF StoreShape
  <2>2. CASE ResetTurn \/ RetryRefused
    <3>1. Current \in Requests /\ turn[Current].state = "SENT" => turn[Current].id \in Ids
      BY DEF Recorded, Live
    <3> QED BY <2>1, <2>2, <3>1 DEF ResetTurn, RetryRefused, GiveUp
  <2>3. CASE UNCHANGED archived BY <2>1, <2>3
  <2> QED
    BY <2>2, <2>3
    DEF Next, Drive, Resume, AppServer, Faults, BeginStep, TaskPrepared, RecordPendingSend, ReadThread,
      RecordRecoveredTurn, DeliveryUncertain, TaskBecameActive, RecordIntent, SendTurnStart, TurnStarted,
      RecordCompletion, AcceptResponse, TurnFailed, Inspect, SaveResume, LoseTurnStart,
      StartRefused, RefuseResponse, CommunicationFails, Crash, ExecuteTurnStart, TurnCompletes,
      TurnBreaks, UserTurn
<1>5. evidence' \subseteq DOMAIN thread'
  <2>1. evidence \subseteq DOMAIN thread' BY ThreadMoves DEF StoreShape
  <2>2. CASE RecordCompletion
    <3>1. turn[Current].id \in Ids
      BY <2>2 DEF RecordCompletion, Recorded, ControlShape, Live
    <3> QED BY <2>1, <2>2, <3>1 DEF RecordCompletion
  <2>3. CASE UNCHANGED evidence BY <2>1, <2>3
  <2> QED
    BY <2>2, <2>3
    DEF Next, Drive, Resume, AppServer, Faults, BeginStep, TaskPrepared, RecordPendingSend, ReadThread,
      RecordRecoveredTurn, DeliveryUncertain, TaskBecameActive, RecordIntent, SendTurnStart, TurnStarted,
      AcceptResponse, TurnFailed, Inspect, ResetTurn, SaveResume, RetryRefused, LoseTurnStart,
      StartRefused, RefuseResponse, CommunicationFails, Crash, ExecuteTurnStart, TurnCompletes,
      TurnBreaks, UserTurn
<1> QED BY <1>1, <1>2, <1>3, <1>4, <1>5 DEF StoreShape

\* Requests and answers on their way are of this drive's sends.
LEMMA AppStep ==
  ASSUME Shape, Next
  PROVE  AppShape'
<1> USE DEF Shape, AppShape
<1>1. thread' \in Seq(ThreadTurn) /\ Ids \subseteq DOMAIN thread' BY ThreadMoves
<1>2. sent' \in Nat /\ wire' \subseteq [request : Requests, number : 1..sent']
  <2>1. CASE SendTurnStart
    BY <2>1 DEF SendTurnStart, ControlShape
  <2>2. CASE sent' = sent /\ wire' \subseteq wire
    BY <2>2
  <2> QED
    BY <2>1, <2>2
    DEF Next, Drive, Resume, AppServer, Faults, BeginStep, TaskPrepared, RecordPendingSend, ReadThread,
      RecordRecoveredTurn, DeliveryUncertain, TaskBecameActive, RecordIntent, TurnStarted,
      RecordCompletion, AcceptResponse, TurnFailed, Inspect, ResetTurn, SaveResume, RetryRefused,
      LoseTurnStart, StartRefused, RefuseResponse, CommunicationFails, Crash, ExecuteTurnStart,
      TurnCompletes, TurnBreaks, UserTurn
<1>3. reply' \in DOMAIN thread' \cup {None}
  <2>1. CASE ExecuteTurnStart
    <3>1. PICK w \in wire :
            /\ thread' = Append(thread, [request |-> w.request, status |-> "inProgress", effects |-> FALSE])
            /\ reply' \in {Len(thread) + 1, reply}
      BY <2>1 DEF ExecuteTurnStart
    <3>2. Len(thread) + 1 \in DOMAIN thread' BY <3>1
    <3> QED BY <1>1, <3>1, <3>2
  <2>2. CASE reply' \in {reply, None}
    BY <1>1, <2>2
  <2> QED
    BY <2>1, <2>2
    DEF Next, Drive, Resume, AppServer, Faults, BeginStep, TaskPrepared, RecordPendingSend, ReadThread,
      RecordRecoveredTurn, DeliveryUncertain, TaskBecameActive, RecordIntent, SendTurnStart, TurnStarted,
      RecordCompletion, AcceptResponse, TurnFailed, Inspect, ResetTurn, SaveResume, RetryRefused,
      LoseTurnStart, StartRefused, RefuseResponse, CommunicationFails, Crash,
      TurnCompletes, TurnBreaks, UserTurn
<1> QED BY <1>1, <1>2, <1>3

\* FindTurn finds a turn of the request that was not given up, or there is none.
LEMMA FindFacts ==
  ASSUME Shape, Single, NEW m \in Requests
  PROVE  /\ FindTurn(m) \in Nat \cup {None}
         /\ FindTurn(m) # None => Live(m, FindTurn(m))
         /\ FindTurn(m) = None => \A i \in Ids : ~Live(m, i)
<1> DEFINE live == {i \in Ids : thread[i].request = m /\ i \notin archived[m]}
<1>1. Ids \subseteq Nat BY ThreadFacts DEF Shape, AppShape
<1>2. \A i \in Ids : Live(m, i) <=> i \in live BY DEF Live
<1>3. CASE live = {}
  BY <1>2, <1>3 DEF FindTurn
<1>4. CASE live # {}
  <2>1. PICK i \in live : \A j \in live : j = i
    BY <1>2, <1>4 DEF Single
  <2>2. i \in Nat /\ \A j \in live : j <= i BY <1>1, <2>1
  <2>3. FindTurn(m) = (CHOOSE k \in live : \A j \in live : j <= k)
    BY <1>4 DEF FindTurn
  <2>4. FindTurn(m) \in live BY <2>1, <2>2, <2>3
  <2> QED BY <1>1, <1>2, <2>4
<1> QED BY <1>3, <1>4

\* The drive and prepare_resume keep out of each other's way.
LEMMA ControlStep ==
  ASSUME Shape, Single, Recorded, Next
  PROVE  ControlShape'
<1> USE DEF Shape
<1>0. /\ drive \in Drives /\ \A at \in Waits \cup {"idle", "record", "decide"} :
           Goto(at) => drive' \in Drives /\ drive'.at = at
      /\ Idle \in Drives /\ [Idle EXCEPT !.at = "prepare"] \in Drives
      /\ Idle.at = "idle" /\ [Idle EXCEPT !.at = "prepare"].at = "prepare"
  BY DEF ControlShape, Drives, Idle
<1>1. CASE ReadThread
  <2>1. Recovered(Current) \in Nat \cup {None}
    BY <1>1, FindFacts DEF ReadThread, Recovered, ControlShape, StoreShape, TurnRow
  <2>2. TaskActive \in BOOLEAN BY DEF TaskActive
  <2>3. drive' \in Drives /\ drive'.at = "decide" /\ UNCHANGED <<row, resume, reply>>
    BY <1>1, <2>1, <2>2 DEF ReadThread, Drives
  <2> QED BY <1>1, <2>3 DEF ReadThread, ControlShape
<1>2. CASE BeginStep
  BY <1>0, <1>2 DEF BeginStep, ControlShape
<1>3. CASE \/ TaskPrepared \/ RecordPendingSend \/ RecordRecoveredTurn \/ RecordIntent \/ SendTurnStart
           \/ TurnStarted
  BY <1>0, <1>3
  DEF TaskPrepared, RecordPendingSend, RecordRecoveredTurn, RecordIntent, SendTurnStart, TurnStarted,
      ControlShape
<1>4. CASE DeliveryUncertain \/ TaskBecameActive \/ StartRefused \/ RefuseResponse \/ TurnFailed
  BY <1>0, <1>4
  DEF DeliveryUncertain, TaskBecameActive, StartRefused, RefuseResponse, TurnFailed, ControlShape,
      Recorded
<1>5. CASE CommunicationFails
  BY <1>0, <1>5 DEF CommunicationFails, ControlShape, StoreShape
<1>6. CASE AcceptResponse \/ Crash
  BY <1>0, <1>6 DEF AcceptResponse, Crash, ControlShape
<1>7. CASE Inspect \/ ResetTurn
  BY <1>0, <1>7 DEF Inspect, ResetTurn, GiveUp, ControlShape
<1>8. CASE SaveResume \/ RetryRefused
  BY <1>0, <1>8 DEF SaveResume, RetryRefused, ControlShape, StoreShape
<1>9. CASE ExecuteTurnStart
  BY <1>9 DEF ExecuteTurnStart, ControlShape
<1>10. CASE UNCHANGED <<row, drive, resume, reply>>
  BY <1>10 DEF ControlShape
<1> QED
  BY <1>1, <1>2, <1>3, <1>4, <1>5, <1>6, <1>7, <1>8, <1>9, <1>10
  DEF Next, Drive, Resume, AppServer, Faults, RecordCompletion, LoseTurnStart, TurnCompletes, TurnBreaks,
      UserTurn

-----------------------------------------------------------------------------
(* Deliveries. *)

\* But for a send and its execution, deliveries only become fewer.
LEMMA DeliveriesShrink ==
  ASSUME Shape, Next, ~SendTurnStart, ~ExecuteTurnStart
  PROVE  /\ wire' \subseteq wire
         /\ \A m \in Requests, i \in DOMAIN thread' : Live(m, i)' => Live(m, i)
<1>1. wire' \subseteq wire
  BY DEF Next, Drive, Resume, AppServer, Faults, BeginStep, TaskPrepared, RecordPendingSend, ReadThread,
      RecordRecoveredTurn, DeliveryUncertain, TaskBecameActive, RecordIntent, TurnStarted,
      RecordCompletion, AcceptResponse, TurnFailed, Inspect, ResetTurn, SaveResume, RetryRefused,
      LoseTurnStart, StartRefused, RefuseResponse, CommunicationFails, Crash,
      TurnCompletes, TurnBreaks, UserTurn
<1>2. \A m \in Requests : archived[m] \subseteq archived'[m]
  <2>1. UNCHANGED archived \/ GiveUp(Current)
    BY DEF Next, Drive, Resume, AppServer, Faults, BeginStep, TaskPrepared, RecordPendingSend, ReadThread,
      RecordRecoveredTurn, DeliveryUncertain, TaskBecameActive, RecordIntent, TurnStarted,
      RecordCompletion, AcceptResponse, TurnFailed, Inspect, ResetTurn, SaveResume, RetryRefused,
      LoseTurnStart, StartRefused, RefuseResponse, CommunicationFails, Crash,
      TurnCompletes, TurnBreaks, UserTurn
  <2> QED BY <2>1 DEF GiveUp, Shape, StoreShape
<1>3. ASSUME NEW m \in Requests, NEW i \in DOMAIN thread', Live(m, i)' PROVE Live(m, i)
  <2>1. thread'[i].request = m /\ i \notin archived'[m] BY <1>3 DEF Live
  <2>2. m # None OBVIOUS
  <2>3. i \in Ids BY <2>1, <2>2, ThreadMoves
  <2> QED BY <1>2, <2>1, <2>3, ThreadMoves DEF Live
<1> QED BY <1>1, <1>3

\* The send is of the pending request; its execution turns it into a turn.
LEMMA SendFacts ==
  ASSUME Shape, SendTurnStart
  PROVE  /\ wire' = wire \cup {[request |-> Current, number |-> sent + 1]}
         /\ Current \in Requests /\ \A w \in wire : w.number <= sent
         /\ DOMAIN thread' = Ids /\ \A m \in Requests, i \in Ids : Live(m, i)' <=> Live(m, i)
BY DEF Shape, AppShape, ControlShape, SendTurnStart, Live

\* A turn/start on its way becomes a turn of its request.
LEMMA ExecuteFacts ==
  ASSUME Shape, ExecuteTurnStart
  PROVE  \E w \in wire :
           /\ w.request \in Requests /\ wire' = wire \ {w} /\ Len(thread) + 1 \in Nat
           /\ DOMAIN thread' = Ids \cup {Len(thread) + 1} /\ Len(thread) + 1 \notin Ids
           /\ \A m \in Requests, i \in DOMAIN thread' :
                Live(m, i)' <=> Live(m, i) \/ (i = Len(thread) + 1 /\ m = w.request)
           /\ reply' = IF drive.at = "answer" /\ w.number = sent THEN Len(thread) + 1 ELSE reply
           /\ UNCHANGED <<store, drive, resume, sent>>
<1>1. PICK w \in wire :
        /\ wire' = wire \ {w}
        /\ thread' = Append(thread, [request |-> w.request, status |-> "inProgress", effects |-> FALSE])
        /\ reply' = IF drive.at = "answer" /\ w.number = sent THEN Len(thread) + 1 ELSE reply
        /\ UNCHANGED <<store, drive, resume, sent>>
  BY DEF ExecuteTurnStart
<1>2. w.request \in Requests BY DEF Shape, AppShape
<1> DEFINE new == [request |-> w.request, status |-> "inProgress", effects |-> FALSE]
<1>3. new \in ThreadTurn /\ new.request = w.request BY <1>2 DEF ThreadTurn
<1>4. /\ Len(thread) \in Nat /\ DOMAIN thread' = Ids \cup {Len(thread) + 1} /\ Len(thread) + 1 \notin Ids
      /\ thread'[Len(thread) + 1] = new /\ \A i \in Ids : thread'[i] = thread[i]
  BY <1>1, <1>3, ThreadFacts DEF Shape, AppShape
<1>5. ASSUME NEW m \in Requests, NEW i \in DOMAIN thread'
      PROVE  Live(m, i)' <=> Live(m, i) \/ (i = Len(thread) + 1 /\ m = w.request)
  <2>1. archived'[m] = archived[m] /\ archived[m] \subseteq Ids BY <1>1 DEF Shape, StoreShape
  <2> QED BY <1>3, <1>4, <2>1 DEF Live
<1> QED BY <1>1, <1>2, <1>4, <1>5

\* No send and no execution makes a second delivery of a request.
LEMMA SingleStep ==
  ASSUME Shape, Single, Unsent, Next
  PROVE  Single'
<1>1. CASE SendTurnStart
  <2>1. NotDelivered(Current) BY <1>1 DEF Unsent, SendTurnStart
  <2> QED BY <1>1, <2>1, SendFacts DEF Single, NotDelivered, Travels
<1>2. CASE ExecuteTurnStart
  <2>1. PICK w \in wire :
           /\ w.request \in Requests /\ wire' = wire \ {w}
           /\ \A m \in Requests, i \in DOMAIN thread' :
                Live(m, i)' <=> Live(m, i) \/ (i = Len(thread) + 1 /\ m = w.request)
    BY <1>2, ExecuteFacts
  <2>2. \A m \in Requests, i \in Ids : m = w.request => ~Live(m, i) BY DEF Single, Travels
  <2>3. \A m \in Requests : \A i : Live(m, i) => i \in Ids BY DEF Live
  <2>4. ASSUME NEW m \in Requests, NEW i \in DOMAIN thread', NEW j \in DOMAIN thread', Live(m, i)', Live(m, j)'
        PROVE  i = j
    BY <2>1, <2>2, <2>3, <2>4 DEF Single
  <2>5. ASSUME NEW m \in Requests, NEW i \in DOMAIN thread', NEW v \in wire', Live(m, i)', Travels(m, v)'
        PROVE  FALSE
    BY <2>1, <2>2, <2>3, <2>5 DEF Single, Travels
  <2>6. ASSUME NEW m \in Requests, NEW u \in wire', NEW v \in wire', Travels(m, u)', Travels(m, v)'
        PROVE  u = v
    BY <2>1, <2>6 DEF Single, Travels
  <2> QED BY <2>4, <2>5, <2>6 DEF Single
<1>3. CASE ~SendTurnStart /\ ~ExecuteTurnStart
  <2>1. /\ wire' \subseteq wire
        /\ \A m \in Requests, i \in DOMAIN thread' : Live(m, i)' => Live(m, i)
    BY <1>3, DeliveriesShrink
  <2>2. \A m \in Requests : \A i : Live(m, i) => i \in Ids BY DEF Live
  <2>3. \A m \in Requests, w \in wire' : Travels(m, w)' => Travels(m, w) BY <2>1 DEF Travels
  <2> QED BY <2>1, <2>2, <2>3 DEF Single
<1> QED BY <1>1, <1>2, <1>3

\* Whatever is not sent or executed stays undelivered.
LEMMA NotDeliveredStep ==
  ASSUME Shape, Next, NEW m \in Requests, NotDelivered(m), ~(SendTurnStart /\ m = Current)
  PROVE  NotDelivered(m)'
<1>0. \A i : Live(m, i) => i \in Ids BY DEF Live
<1>1. CASE SendTurnStart
  BY <1>1, SendFacts DEF NotDelivered, Travels
<1>2. CASE ExecuteTurnStart
  <2>1. PICK w \in wire :
           /\ wire' = wire \ {w}
           /\ \A i \in DOMAIN thread' : Live(m, i)' <=> Live(m, i) \/ (i = Len(thread) + 1 /\ m = w.request)
    BY <1>2, ExecuteFacts
  <2>2. m # w.request BY DEF NotDelivered, Travels
  <2> QED BY <1>0, <2>1, <2>2 DEF NotDelivered, Travels
<1>3. CASE ~SendTurnStart /\ ~ExecuteTurnStart
  BY <1>0, <1>3, DeliveriesShrink DEF NotDelivered, Travels
<1> QED BY <1>1, <1>2, <1>3

\* Giving up a turn leaves no delivery of its request: it was the only one.
LEMMA GiveUpFacts ==
  ASSUME Shape, Single, Recorded, NEW m \in Requests, GiveUp(m), UNCHANGED <<thread, wire>>
  PROVE  /\ NotDelivered(m)' /\ turn[m].state = "SENT" /\ turn[m].id \in Ids /\ Live(m, turn[m].id)
         /\ archived' = [archived EXCEPT ![m] = @ \cup {turn[m].id}]
         /\ archived'[m] = archived[m] \cup {turn[m].id}
         /\ turn'[m].id = None /\ turn'[m].state = "PENDING"
         /\ \A n \in Requests \ {m} : turn'[n] = turn[n] /\ archived'[n] = archived[n]
<1>1. turn[m].state = "SENT" /\ turn[m].id \in Ids /\ Live(m, turn[m].id)
  BY DEF GiveUp, Recorded, Live
<1>2. /\ archived' = [archived EXCEPT ![m] = @ \cup {turn[m].id}]
      /\ archived'[m] = archived[m] \cup {turn[m].id}
      /\ turn'[m].id = None /\ turn'[m].state = "PENDING"
      /\ \A n \in Requests \ {m} : turn'[n] = turn[n] /\ archived'[n] = archived[n]
  BY DEF GiveUp, Shape, StoreShape
<1>3. \A i \in Ids : ~Live(m, i)'
  <2> SUFFICES ASSUME NEW i \in Ids, Live(m, i)' PROVE FALSE OBVIOUS
  <2>1. thread[i].request = m /\ i \notin archived[m] /\ i # turn[m].id
    BY <1>2 DEF Live
  <2> QED BY <1>1, <2>1 DEF Single, Live
<1>4. \A w \in wire : ~Travels(m, w)' BY <1>1 DEF Single, Travels
<1>5. DOMAIN thread' = Ids OBVIOUS
<1>6. NotDelivered(m)' BY <1>3, <1>4, <1>5 DEF NotDelivered
<1> QED BY <1>1, <1>2, <1>6

\* While the drive is at work only the app server, the user and the drive take steps.
LEMMA DriveAlone ==
  ASSUME Shape, Next, drive.at # "idle", UNCHANGED drive
  PROVE  \/ RecordCompletion \/ LoseTurnStart \/ TurnCompletes \/ TurnBreaks \/ UserTurn
         \/ ExecuteTurnStart
<1>1. row.status = "RUNNING" /\ resume = "idle" BY DEF Shape, ControlShape
<1>2. drive' # Idle BY DEF Idle
<1>3. ASSUME NEW at \in Waits \cup {"idle", "record", "decide"}, Goto(at), drive.at # at PROVE FALSE
  BY <1>3 DEF Shape, ControlShape, Drives
<1> QED
  BY <1>1, <1>2, <1>3
  DEF Next, Drive, Resume, AppServer, Faults, BeginStep, TaskPrepared, RecordPendingSend, ReadThread,
      RecordRecoveredTurn, DeliveryUncertain, TaskBecameActive, RecordIntent, SendTurnStart, TurnStarted,
      AcceptResponse, TurnFailed, Inspect, ResetTurn, SaveResume, RetryRefused,
      StartRefused, RefuseResponse, CommunicationFails, Crash

\* What allows a send is true when the intent is recorded, and until the request is written.
LEMMA UnsentStep ==
  ASSUME Shape, Single, Unsent, Recorded, Answers, Next
  PROVE  Unsent'
<1> USE DEF Shape
<1>0. drive \in Drives /\ turn \in [Requests -> TurnRow] BY DEF ControlShape, StoreShape
<1>1. drive'.at \in {"send", "decide"} =>
        \/ /\ UNCHANGED <<drive, row, turn, ephemeral>> /\ drive.at # "idle"
           /\ ~SendTurnStart
        \/ RecordIntent \/ ReadThread
  <2>1. Idle.at = "idle" /\ [Idle EXCEPT !.at = "prepare"].at = "prepare" BY DEF Idle
  <2>2. \A at \in Waits \cup {"idle", "record", "decide"} : Goto(at) => drive'.at = at
    BY <1>0 DEF Drives
  <2>3. CASE UNCHANGED drive
    <3>1. drive.at \in {"send", "decide"} =>
            LoseTurnStart \/ TurnCompletes \/ TurnBreaks \/ UserTurn \/ ExecuteTurnStart
      BY <2>3, DriveAlone DEF RecordCompletion
    <3> QED
      BY <2>3, <3>1, <2>2 DEF LoseTurnStart, TurnCompletes, TurnBreaks, UserTurn, ExecuteTurnStart,
        SendTurnStart
  <2>4. CASE ~UNCHANGED drive
    BY <2>1, <2>2, <2>4
    DEF Next, Drive, Resume, AppServer, Faults, BeginStep, TaskPrepared, RecordPendingSend,
      RecordRecoveredTurn, DeliveryUncertain, TaskBecameActive, SendTurnStart, TurnStarted,
      RecordCompletion, AcceptResponse, TurnFailed, Inspect, ResetTurn, SaveResume, RetryRefused,
      LoseTurnStart, StartRefused, RefuseResponse, CommunicationFails, Crash, ExecuteTurnStart,
      TurnCompletes, TurnBreaks, UserTurn
  <2> QED BY <2>3, <2>4
<1>2. CASE RecordIntent
  <2>1. /\ Current \in Requests /\ UNCHANGED <<row, ephemeral, thread, wire, archived>>
        /\ drive'.at = "send" /\ drive.at = "decide" /\ drive.found = None
    BY <1>0, <1>2 DEF RecordIntent, ControlShape, Drives
  <2>2. /\ turn'[Current].intent /\ \A m \in Requests \ {Current} : turn'[m] = turn[m]
    BY <1>0, <1>2, <2>1, RowFacts DEF RecordIntent
  <2>3. NotDelivered(Current)
    <3>1. CASE ephemeral
      <4>1. ~turn[Current].intent BY <1>2, <3>1 DEF RecordIntent, Uncertain
      <4> QED BY <2>1, <3>1, <4>1 DEF Unsent
    <3>2. CASE ~ephemeral BY <2>1, <3>2 DEF Unsent
    <3> QED BY <3>1, <3>2
  <2>4. \A m \in Requests : NotDelivered(m)' <=> NotDelivered(m)
    BY <2>1 DEF NotDelivered, Live, Travels
  <2> QED BY <2>1, <2>2, <2>3, <2>4 DEF Unsent
<1>3. CASE ReadThread
  <2>1. /\ Current \in Requests /\ UNCHANGED <<row, ephemeral, turn, thread, wire, archived>>
        /\ drive'.at = "decide" /\ drive'.found = Recovered(Current)
    BY <1>3 DEF ReadThread, ControlShape
  <2>2. \A m \in Requests : NotDelivered(m)' <=> NotDelivered(m)
    BY <2>1 DEF NotDelivered, Live, Travels
  <2>3. ASSUME ~ephemeral, Recovered(Current) = None PROVE NotDelivered(Current)
    <3>1. wire = {} BY <1>3, <2>3 DEF ReadThread
    <3>2. FindTurn(Current) = None BY <2>3 DEF Recovered
    <3> QED BY <2>1, <3>1, <3>2, FindFacts DEF NotDelivered
  <2> QED BY <2>1, <2>2, <2>3 DEF Unsent
<1>4. ASSUME UNCHANGED <<drive, row, turn, ephemeral>>, drive.at # "idle", ~SendTurnStart PROVE Unsent'
  <2>1. Current \in Requests BY <1>4 DEF ControlShape
  <2>2. \A m \in Requests : NotDelivered(m) => NotDelivered(m)' BY <1>4, NotDeliveredStep
  <2> QED BY <1>4, <2>1, <2>2 DEF Unsent
<1>5. ASSUME drive'.at \notin {"send", "decide"}, ephemeral', NEW m \in Requests, ~turn'[m].intent
      PROVE  NotDelivered(m)'
  <2>1. ephemeral
    BY <1>5 DEF Next, Drive, Resume, AppServer, Faults, BeginStep, TaskPrepared, RecordPendingSend,
      ReadThread, RecordRecoveredTurn, DeliveryUncertain, TaskBecameActive, RecordIntent, SendTurnStart,
      TurnStarted, RecordCompletion, AcceptResponse, TurnFailed, Inspect, ResetTurn, SaveResume,
      RetryRefused, LoseTurnStart, StartRefused, RefuseResponse, CommunicationFails, Crash,
      ExecuteTurnStart, TurnCompletes, TurnBreaks, UserTurn
  <2>2. CASE GiveUp(Current) /\ UNCHANGED <<thread, wire>>
    <3>1. CASE m = Current BY <2>2, <3>1, GiveUpFacts
    <3>2. CASE m # Current
      <4>1. turn'[m] = turn[m] BY <1>0, <2>2, <3>2 DEF GiveUp
      <4>2. NotDelivered(m) BY <1>5, <2>1, <4>1 DEF Unsent
      <4> QED BY <3>2, <4>2, NotDeliveredStep
    <3> QED BY <3>1, <3>2
  <2>3. CASE turn'[m].intent = turn[m].intent
    <3>1. NotDelivered(m) BY <1>5, <2>1, <2>3 DEF Unsent
    <3>2. ~(SendTurnStart /\ m = Current)
      BY <1>5, <2>3 DEF SendTurnStart, Unsent
    <3> QED BY <3>1, <3>2, NotDeliveredStep
  <2>4. CASE RecordPendingSend \/ AcceptResponse
    <3>1. Current \in Requests BY <2>4 DEF RecordPendingSend, AcceptResponse, ControlShape
    <3>2. turn'[m].intent = turn[m].intent
      BY <1>0, <2>4, <3>1, RowFacts DEF RecordPendingSend, AcceptResponse
    <3> QED BY <2>3, <3>2
  <2>5. CASE RecordRecoveredTurn \/ TurnStarted
    <3>1. Current \in Requests BY <2>5 DEF RecordRecoveredTurn, TurnStarted, ControlShape
    <3>2. drive.found \in Nat \cup {None} /\ reply \in Nat \cup {None}
      BY DEF ControlShape, Drives, AppShape
    <3>3. PICK i \in Nat : turn' = [turn EXCEPT ![Current].state = "SENT", ![Current].id = i]
      BY <2>5, <3>2 DEF RecordRecoveredTurn, TurnStarted
    <3>4. turn'[m].intent = turn[m].intent BY <1>0, <3>1, <3>3, RowFacts
    <3> QED BY <2>3, <3>4
  <2>6. CASE UNCHANGED turn BY <2>3, <2>6
  <2>7. ~RecordIntent BY <1>0, <1>5 DEF RecordIntent, Drives
  <2> QED
    BY <2>2, <2>4, <2>5, <2>6, <2>7
    DEF Next, Drive, Resume, AppServer, Faults, BeginStep, TaskPrepared, ReadThread, DeliveryUncertain,
      TaskBecameActive, SendTurnStart, RecordCompletion, TurnFailed, Inspect, ResetTurn, SaveResume,
      RetryRefused, LoseTurnStart, StartRefused, RefuseResponse, CommunicationFails, Crash,
      ExecuteTurnStart, TurnCompletes, TurnBreaks, UserTurn
<1>6. CASE drive'.at \notin {"send", "decide"}
  BY <1>5, <1>6 DEF Unsent
<1> QED BY <1>1, <1>2, <1>3, <1>4, <1>6

\* A delivery stays the request's until it is given up.
LEMMA LiveStays ==
  ASSUME Shape, Next, NEW m \in Requests, NEW i, Live(m, i), i \notin archived'[m]
  PROVE  Live(m, i)'
BY ThreadMoves DEF Live

\* A row names a turn after the turn was found, or has answered.
LEMMA RecordedStep ==
  ASSUME Shape, Single, Unsent, Recorded, Ending, Answers, Next, Shape'
  PROVE  Recorded'
<1> USE DEF Shape
<1>0. drive \in Drives /\ turn \in [Requests -> TurnRow] /\ archived \in [Requests -> SUBSET Ids]
  BY DEF ControlShape, StoreShape
<1> DEFINE RowsRecorded ==
             \A m \in Requests :
               /\ turn[m].id # None => Live(m, turn[m].id)
               /\ turn[m].state \in {"SENT", "ACCEPTED"} <=> turn[m].id # None
<1>1. RowsRecorded'
  <2> SUFFICES ASSUME NEW m \in Requests
               PROVE  /\ \A i : i = turn'[m].id /\ i # None => Live(m, i)'
                      /\ turn'[m].state \in {"SENT", "ACCEPTED"} <=> turn'[m].id # None
    BY DEF Live
  <2>0. \A i : Live(m, i) /\ i \notin archived'[m] => Live(m, i)' BY LiveStays
  <2>8. /\ \A i : i = turn[m].id /\ i # None => Live(m, i) /\ i \notin archived[m]
        /\ turn[m].state \in {"SENT", "ACCEPTED"} <=> turn[m].id # None
    <3>1. ASSUME NEW i, i = turn[m].id, i # None PROVE Live(m, i) /\ i \notin archived[m]
      BY <3>1 DEF Recorded, Live
    <3> QED BY <3>1 DEF Recorded
  <2>1. CASE GiveUp(Current) /\ UNCHANGED <<thread, wire>>
    <3>1. CASE m = Current BY <2>1, <3>1, GiveUpFacts
    <3>2. CASE m # Current
      <4>1. turn'[m] = turn[m] /\ archived'[m] = archived[m] BY <1>0, <2>1, <3>2 DEF GiveUp
      <4>2. ASSUME NEW i, i = turn'[m].id, i # None PROVE Live(m, i)'
        <5>1. i = turn[m].id /\ i \notin archived[m] /\ Live(m, i) BY <2>8, <4>1, <4>2
        <5>2. i \notin archived'[m] BY <4>1, <5>1
        <5> QED BY <2>0, <5>1, <5>2
      <4> QED BY <2>8, <4>1, <4>2
    <3> QED BY <3>1, <3>2
  <2>2. CASE archived' = archived /\ turn'[m].id = turn[m].id
             /\ (turn'[m].state \in {"SENT", "ACCEPTED"} <=> turn[m].state \in {"SENT", "ACCEPTED"})
    <3>1. ASSUME NEW i, i = turn'[m].id, i # None PROVE Live(m, i)'
      <4>1. i = turn[m].id /\ i \notin archived[m] /\ Live(m, i) BY <2>2, <2>8, <3>1
      <4>2. i \notin archived'[m] BY <2>2, <4>1
      <4> QED BY <2>0, <4>1, <4>2
    <3> QED BY <2>2, <2>8, <3>1
  <2>3. CASE RecordPendingSend
    <3>1. Current \in Requests BY <2>3 DEF RecordPendingSend, ControlShape
    <3>2. archived' = archived /\ turn'[m].id = turn[m].id
      BY <1>0, <2>3, <3>1 DEF RecordPendingSend, TurnRow
    <3>3. turn'[m].state = turn[m].state \/ (turn'[m].state = "PENDING" /\ turn[m].state = "NONE")
      BY <1>0, <2>3, <3>1 DEF RecordPendingSend, TurnRow
    <3> QED BY <2>2, <3>2, <3>3
  <2>4. CASE AcceptResponse
    <3>1. Current \in Requests /\ turn[Current].id # None BY <2>4 DEF AcceptResponse, ControlShape, Recorded
    <3>2. turn[Current].state \in {"SENT", "ACCEPTED"} BY <3>1 DEF Recorded
    <3> QED BY <1>0, <2>2, <2>4, <3>1, <3>2, RowFacts DEF AcceptResponse
  <2>5. CASE RecordIntent
    <3>1. Current \in Requests BY <2>5 DEF RecordIntent, ControlShape
    <3> QED BY <1>0, <2>2, <2>5, <3>1, RowFacts DEF RecordIntent
  <2>6. CASE RecordRecoveredTurn \/ TurnStarted
    <3>1. Current \in Requests BY <2>6 DEF RecordRecoveredTurn, TurnStarted, ControlShape
    <3>2. drive.found \in Nat \cup {None} /\ reply \in Nat \cup {None}
      BY DEF ControlShape, Drives, AppShape
    <3>3. PICK i \in Nat : turn' = [turn EXCEPT ![Current].state = "SENT", ![Current].id = i] /\ Live(Current, i)
      BY <2>6, <3>2 DEF RecordRecoveredTurn, TurnStarted, Recorded
    <3>4. archived' = archived /\ i # None BY <2>6 DEF RecordRecoveredTurn, TurnStarted
    <3>5. CASE m = Current
      <4>1. turn'[m].id = i /\ turn'[m].state = "SENT" BY <1>0, <3>3, <3>5 DEF TurnRow
      <4>2. i \notin archived'[m] BY <3>3, <3>4, <3>5 DEF Live
      <4> QED BY <2>0, <3>3, <3>4, <3>5, <4>1, <4>2
    <3>6. CASE m # Current
      <4>1. turn'[m] = turn[m] BY <1>0, <3>1, <3>3, <3>6, RowFacts
      <4> QED BY <2>2, <3>4, <4>1
    <3> QED BY <3>5, <3>6
  <2>7. CASE UNCHANGED <<turn, archived>> BY <2>2, <2>7
  <2> QED
    BY <2>1, <2>3, <2>4, <2>5, <2>6, <2>7
    DEF Next, Drive, Resume, AppServer, Faults, BeginStep, TaskPrepared, ReadThread, DeliveryUncertain,
      TaskBecameActive, SendTurnStart, RecordCompletion, TurnFailed, Inspect, ResetTurn, SaveResume,
      RetryRefused, LoseTurnStart, StartRefused, RefuseResponse, CommunicationFails, Crash,
      ExecuteTurnStart, TurnCompletes, TurnBreaks, UserTurn
<1>2. drive'.at \in {"decide", "answer", "wait"} =>
        \/ /\ UNCHANGED <<drive, row, turn, archived, ephemeral, sent>> /\ Current \in Requests
           /\ wire' \subseteq wire /\ (reply' = reply \/ ExecuteTurnStart)
        \/ ReadThread \/ SendTurnStart \/ RecordRecoveredTurn \/ TurnStarted
  <2>1. Idle.at = "idle" /\ [Idle EXCEPT !.at = "prepare"].at = "prepare" BY DEF Idle
  <2>2. \A at \in Waits \cup {"idle", "record", "decide"} : Goto(at) => drive'.at = at
    BY <1>0 DEF Drives
  <2>3. CASE UNCHANGED drive /\ drive'.at \in {"decide", "answer", "wait"}
    <3>1. RecordCompletion \/ LoseTurnStart \/ TurnCompletes \/ TurnBreaks \/ UserTurn \/ ExecuteTurnStart
      BY <2>3, DriveAlone
    <3> QED
      BY <2>3, <3>1
      DEF RecordCompletion, LoseTurnStart, TurnCompletes, TurnBreaks, UserTurn, ExecuteTurnStart, ControlShape
  <2>4. CASE ~UNCHANGED drive
    BY <2>1, <2>2, <2>4
    DEF Next, Drive, Resume, AppServer, Faults, BeginStep, TaskPrepared, RecordPendingSend,
      DeliveryUncertain, TaskBecameActive, RecordIntent,
      RecordCompletion, AcceptResponse, TurnFailed, Inspect, ResetTurn, SaveResume, RetryRefused,
      LoseTurnStart, StartRefused, RefuseResponse, CommunicationFails, Crash, ExecuteTurnStart,
      TurnCompletes, TurnBreaks, UserTurn
  <2> QED BY <2>3, <2>4
<1>3. ASSUME NEW i, drive'.at = "decide", i = drive'.found, i # None
      PROVE  \E m \in Requests : m = row'.answers /\ Live(m, i)'
  <2>1. CASE ReadThread
    <3>1. PICK m \in Requests : m = Current BY <2>1 DEF ReadThread, ControlShape
    <3>2. UNCHANGED <<row, thread, archived>> /\ drive'.found = Recovered(m)
      BY <2>1, <3>1 DEF ReadThread
    <3>3. Live(m, i)
      BY <1>3, <3>1, <3>2, FindFacts DEF Recovered, Recorded
    <3>4. Live(m, i)' BY <3>2, <3>3 DEF Live
    <3> QED BY <3>1, <3>2, <3>4
  <2>2. CASE UNCHANGED <<drive, row, archived>> /\ Current \in Requests
    <3>1. PICK m \in Requests : m = Current BY <2>2
    <3>2. Live(m, i) /\ i \notin archived'[m]
      BY <1>3, <2>2, <3>1 DEF Recorded, Live
    <3>3. Live(m, i)' BY <3>2, LiveStays
    <3> QED BY <2>2, <3>1, <3>3
  <2>3. SendTurnStart \/ RecordRecoveredTurn \/ TurnStarted => drive'.at # "decide"
    BY <1>0 DEF SendTurnStart, RecordRecoveredTurn, TurnStarted, Drives
  <2> QED BY <1>2, <1>3, <2>1, <2>2, <2>3
<1>4. drive'.at = "wait" => turn'[row'.answers].id # None
  <2>1. CASE RecordRecoveredTurn \/ TurnStarted
    <3>1. Current \in Requests /\ row' = row BY <2>1 DEF RecordRecoveredTurn, TurnStarted, ControlShape
    <3>2. drive.found \in Nat \cup {None} /\ reply \in Nat \cup {None}
      BY DEF ControlShape, Drives, AppShape
    <3>3. PICK i \in Nat : turn' = [turn EXCEPT ![Current].state = "SENT", ![Current].id = i]
      BY <2>1, <3>2 DEF RecordRecoveredTurn, TurnStarted
    <3>4. PICK m \in Requests : m = Current BY <3>1
    <3>5. turn'[m].id = i BY <1>0, <3>3, <3>4 DEF TurnRow
    <3> QED BY <3>1, <3>4, <3>5
  <2>2. CASE UNCHANGED <<drive, row, turn>> BY <2>2 DEF Recorded
  <2>3. ReadThread \/ SendTurnStart => drive'.at # "wait"
    BY <1>0 DEF SendTurnStart, ReadThread, Drives
  <2> QED BY <1>2, <2>1, <2>2, <2>3
<1>5. drive'.at = "answer" => \A w \in wire' : w.number = sent' => w.request = row'.answers
  <2>1. CASE SendTurnStart
    <3>1. row' = row /\ sent' = sent + 1 /\ sent \in Nat BY <2>1 DEF SendTurnStart, AppShape
    <3> QED BY <2>1, <3>1, SendFacts DEF AppShape
  <2>2. CASE UNCHANGED <<drive, row, sent>> /\ wire' \subseteq wire BY <2>2 DEF Recorded
  <2>3. ReadThread \/ RecordRecoveredTurn \/ TurnStarted => drive'.at # "answer"
    BY <1>0 DEF ReadThread, RecordRecoveredTurn, TurnStarted, Drives
  <2> QED BY <1>2, <2>1, <2>2, <2>3
<1>6. ASSUME NEW i, i = reply', i # None
      PROVE  /\ \E m \in Requests : m = row'.answers /\ Live(m, i)'
             /\ \A w \in wire' : w.number # sent'
  <2>1. /\ UNCHANGED <<drive, row, archived, sent>> /\ Current \in Requests /\ wire' \subseteq wire
        /\ reply' = reply \/ ExecuteTurnStart
    <3>1. drive'.at = "answer" BY <1>6 DEF ControlShape
    <3>2. ~SendTurnStart BY <1>6 DEF SendTurnStart, ControlShape
    <3>3. ~ReadThread /\ ~RecordRecoveredTurn /\ ~TurnStarted
      BY <1>0, <3>1 DEF ReadThread, RecordRecoveredTurn, TurnStarted, Drives
    <3> QED BY <1>2, <3>1, <3>2, <3>3
  <2>2. PICK m \in Requests : m = Current BY <2>1
  <2>3. CASE reply' = reply
    <3>1. Live(m, i) /\ i \notin archived'[m] BY <1>6, <2>1, <2>2, <2>3 DEF Recorded, Live
    <3>2. Live(m, i)' BY <3>1, LiveStays
    <3>3. \A w \in wire' : w.number # sent' BY <1>6, <2>1, <2>3 DEF Recorded
    <3> QED BY <2>1, <2>2, <3>2, <3>3
  <2>4. CASE ExecuteTurnStart /\ reply' # reply
    <3>1. PICK w \in wire :
            /\ wire' = wire \ {w} /\ drive.at = "answer" /\ w.number = sent
            /\ reply' = Len(thread) + 1 /\ DOMAIN thread' = Ids \cup {Len(thread) + 1}
            /\ \A k \in Requests, j \in DOMAIN thread' :
                 Live(k, j)' <=> Live(k, j) \/ (j = Len(thread) + 1 /\ k = w.request)
      BY <2>4, ExecuteFacts
    <3>2. w.request = m BY <2>2, <3>1 DEF Recorded
    <3>3. Live(m, i)' BY <1>6, <3>1, <3>2
    <3>4. ASSUME NEW v \in wire', v.number = sent PROVE FALSE
      <4>1. v \in wire /\ v # w BY <3>1, <3>4
      <4>2. v.request = m BY <2>2, <3>1, <3>4, <4>1 DEF Recorded
      <4> QED BY <3>2, <4>1, <4>2 DEF Single, Travels
    <3> QED BY <2>1, <2>2, <3>3, <3>4
  <2> QED BY <2>1, <2>3, <2>4
<1>7. drive'.at = "decide" /\ drive'.found # None => Live(Current, drive.found)'
  <2> SUFFICES ASSUME drive'.at = "decide", drive'.found # None
               PROVE  /\ drive'.found \in DOMAIN thread' /\ thread'[drive'.found].request = row'.answers
                      /\ drive'.found \notin archived'[row'.answers]
    BY DEF Live
  <2> QED BY <1>3 DEF Live
<1>8. reply' # None => Live(Current, reply)' /\ \A w \in wire' : w.number # sent'
  <2> SUFFICES ASSUME reply' # None
               PROVE  /\ reply' \in DOMAIN thread' /\ thread'[reply'].request = row'.answers
                      /\ reply' \notin archived'[row'.answers]
                      /\ \A w \in wire' : w.number # sent'
    BY DEF Live
  <2> QED BY <1>6 DEF Live
<1> QED BY <1>1, <1>4, <1>5, <1>7, <1>8 DEF Recorded

\* Only turns that are over have evidence, and only those free of side effects are given up.
LEMMA EndingStep ==
  ASSUME Shape, Single, Recorded, Ending, Next
  PROVE  Ending'
<1> USE DEF Shape
<1>0. /\ thread \in Seq(ThreadTurn) /\ archived \in [Requests -> SUBSET Ids] /\ evidence \subseteq Ids
      /\ turn \in [Requests -> TurnRow]
  BY DEF AppShape, StoreShape
<1>1. ASSUME NEW i \in evidence' PROVE Over(i)'
  <2>1. CASE i \in evidence BY <1>0, <2>1, ThreadMoves DEF Ending, Over
  <2>2. CASE RecordCompletion
    <3>1. i \in evidence \/ i = turn[Current].id BY <1>1, <2>2 DEF RecordCompletion
    <3>2. thread' = thread /\ thread[turn[Current].id].status \in Ended BY <2>2 DEF RecordCompletion
    <3> QED BY <2>1, <3>1, <3>2 DEF Over
  <2>3. ~RecordCompletion => evidence' = evidence
    BY DEF Next, Drive, Resume, AppServer, Faults, BeginStep, TaskPrepared, RecordPendingSend,
      ReadThread, RecordRecoveredTurn, DeliveryUncertain, TaskBecameActive, RecordIntent, SendTurnStart,
      TurnStarted, AcceptResponse, TurnFailed, Inspect, ResetTurn, SaveResume,
      RetryRefused, LoseTurnStart, StartRefused, RefuseResponse, CommunicationFails, Crash,
      ExecuteTurnStart, TurnCompletes, TurnBreaks, UserTurn
  <2> QED BY <1>1, <2>1, <2>2, <2>3
<1>2. ASSUME NEW m \in Requests, NEW i \in archived'[m]
      PROVE  thread'[i].request = m /\ Over(i)' /\ ~thread'[i].effects
  <2>1. CASE i \in archived[m]
    <3>1. i \in Ids /\ thread[i].request = m /\ Over(i) /\ ~thread[i].effects BY <1>0, <2>1 DEF Ending
    <3>2. thread'[i] = thread[i] BY <3>1, ThreadMoves
    <3> QED BY <3>1, <3>2 DEF Over
  <2>2. CASE i \notin archived[m]
    <3>1. ResetTurn \/ RetryRefused
      BY <1>2, <2>2
      DEF Next, Drive, Resume, AppServer, Faults, BeginStep, TaskPrepared, RecordPendingSend,
        ReadThread, RecordRecoveredTurn, DeliveryUncertain, TaskBecameActive, RecordIntent, SendTurnStart,
        TurnStarted, RecordCompletion, AcceptResponse, TurnFailed, Inspect, SaveResume,
        LoseTurnStart, StartRefused, RefuseResponse, CommunicationFails, Crash,
        ExecuteTurnStart, TurnCompletes, TurnBreaks, UserTurn
    <3>2. GiveUp(Current) /\ thread' = thread BY <3>1 DEF ResetTurn, RetryRefused
    <3>3. m = Current /\ i = turn[m].id /\ turn[m].state = "SENT"
      BY <1>0, <1>2, <2>2, <3>2 DEF GiveUp
    <3>4. Live(m, i) BY <3>3 DEF Recorded
    <3>5. Over(i) /\ ~thread[i].effects
      <4>1. CASE ResetTurn BY <3>3, <4>1 DEF ResetTurn, Ending
      <4>2. CASE RetryRefused
        <5>1. Observed(i) = "completed" /\ ~thread[i].effects BY <3>3, <4>2 DEF RetryRefused
        <5> QED BY <5>1, ObservedFacts
      <4> QED BY <3>1, <4>1, <4>2
    <3> QED BY <3>2, <3>4, <3>5 DEF Live, Over
  <2> QED BY <2>1, <2>2
<1>3. ASSUME resume' = "reset"
      PROVE  /\ turn'[row'.answers].id # None
             /\ \A i : i = turn'[row'.answers].id => Over(i)' /\ ~thread'[i].effects
  <2>1. CASE Inspect
    <3>1. UNCHANGED <<turn, row, thread>> /\ Current \in Requests BY <2>1 DEF Inspect
    <3>2. PICK i : i = turn[Current].id OBVIOUS
    <3>3. i # None /\ Retryable(i) BY <1>3, <2>1, <3>2 DEF Inspect
    <3>4. Over(i) /\ ~thread[i].effects BY <3>3, ObservedFacts DEF Retryable
    <3> QED BY <3>1, <3>2, <3>3, <3>4 DEF Over
  <2>2. CASE ~Inspect
    <3>1. resume = "reset"
      BY <1>3, <2>2
      DEF Next, Drive, Resume, AppServer, Faults, BeginStep, TaskPrepared, RecordPendingSend,
        ReadThread, RecordRecoveredTurn, DeliveryUncertain, TaskBecameActive, RecordIntent, SendTurnStart,
        TurnStarted, RecordCompletion, AcceptResponse, TurnFailed, ResetTurn, SaveResume, RetryRefused,
        LoseTurnStart, StartRefused, RefuseResponse, CommunicationFails, Crash,
        ExecuteTurnStart, TurnCompletes, TurnBreaks, UserTurn
    <3>2. drive.at = "idle" /\ row.status = "PAUSED" /\ Current \in Requests BY <3>1 DEF ControlShape
    <3>3. UNCHANGED <<turn, row>>
      BY <1>3, <2>2, <3>1, <3>2
      DEF Next, Drive, Resume, AppServer, Faults, BeginStep, TaskPrepared, RecordPendingSend,
        ReadThread, RecordRecoveredTurn, DeliveryUncertain, TaskBecameActive, RecordIntent, SendTurnStart,
        TurnStarted, RecordCompletion, AcceptResponse, TurnFailed, ResetTurn, SaveResume, RetryRefused,
        LoseTurnStart, StartRefused, RefuseResponse, CommunicationFails, Crash,
        ExecuteTurnStart, TurnCompletes, TurnBreaks, UserTurn
    <3>4. PICK i : i = turn[Current].id OBVIOUS
    <3>5. i # None /\ Over(i) /\ ~thread[i].effects BY <3>1, <3>4 DEF Ending
    <3>6. i \in Ids BY <3>2, <3>4, <3>5 DEF Recorded, Live
    <3>7. thread'[i] = thread[i] BY <3>5, <3>6, ThreadMoves
    <3> QED BY <3>3, <3>4, <3>5, <3>7 DEF Over
  <2> QED BY <2>1, <2>2
<1>4. resume' = "reset" =>
        (turn[Current].id # None /\ Over(turn[Current].id) /\ ~thread[turn[Current].id].effects)'
  BY <1>3 DEF Over
<1> QED BY <1>1, <1>2, <1>4 DEF Ending

\* An answer is counted once, for the pending request, and its turn had completed.
LEMMA AnswersStep ==
  ASSUME Shape, Single, Recorded, Ending, Answers, Next
  PROVE  Answers'
<1> USE DEF Shape
<1>0. turn \in [Requests -> TurnRow] /\ row.answers \in Nat BY DEF StoreShape
<1> SUFFICES ASSUME NEW m \in Requests
             PROVE  /\ turn'[m].state = "ACCEPTED" <=> m < row'.answers
                    /\ turn'[m].state = "ACCEPTED" => \A i : i = turn'[m].id => thread'[i].status = "completed"
  BY DEF Answers
<1>1. /\ turn[m].state = "ACCEPTED" <=> m < row.answers
      /\ \A i : turn[m].state = "ACCEPTED" /\ i = turn[m].id => thread[i].status = "completed"
  BY DEF Answers
<1>2. ASSUME NEW i, i \in Ids, thread[i].status = "completed" PROVE thread'[i].status = "completed"
  BY <1>2, ThreadMoves DEF Over
<1>3. \A i : turn[m].state = "ACCEPTED" /\ i = turn[m].id => i \in Ids BY DEF Recorded, Live
<1> DEFINE Goal == /\ turn'[m].state = "ACCEPTED" <=> m < row'.answers
                   /\ turn'[m].state = "ACCEPTED" => \A i : i = turn'[m].id => thread'[i].status = "completed"
<1>4. ASSUME row'.answers = row.answers,
             turn'[m] = turn[m] \/ (turn[m].state # "ACCEPTED" /\ turn'[m].state # "ACCEPTED")
      PROVE  Goal
  <2>1. CASE turn'[m] = turn[m] BY <1>1, <1>2, <1>3, <1>4, <2>1
  <2>2. CASE turn[m].state # "ACCEPTED" /\ turn'[m].state # "ACCEPTED" BY <1>1, <1>4, <2>2
  <2> QED BY <1>4, <2>1, <2>2
<1>5. \A st : row' = [row EXCEPT !.status = st] => row'.answers = row.answers BY DEF StoreShape
<1>6. CASE AcceptResponse
  <2>1. Current \in Requests /\ row'.answers = Current + 1 /\ thread' = thread
    BY <1>6 DEF AcceptResponse, ControlShape, Advanced, StoreShape
  <2>2. CASE m = Current
    <3>1. turn'[m].state = "ACCEPTED" /\ turn'[m].id = turn[m].id
      BY <1>0, <1>6, <2>1, <2>2, RowFacts DEF AcceptResponse
    <3>2. PICK i : i = turn[m].id OBVIOUS
    <3>3. Observed(i) = "completed" BY <1>6, <2>2, <3>2 DEF AcceptResponse
    <3>4. thread[i].status = "completed" BY <3>3, ObservedFacts
    <3>5. m < row'.answers BY <1>0, <2>1, <2>2
    <3> QED BY <2>1, <3>1, <3>2, <3>4, <3>5
  <2>3. CASE m # Current
    <3>1. turn'[m] = turn[m] BY <1>0, <1>6, <2>1, <2>3, RowFacts DEF AcceptResponse
    <3>2. m < row'.answers <=> m < row.answers BY <1>0, <2>1, <2>3
    <3> QED BY <1>1, <1>3, <2>1, <3>1, <3>2
  <2> QED BY <2>2, <2>3
<1>7. CASE RecordPendingSend
  <2>1. Current \in Requests BY <1>7 DEF RecordPendingSend, ControlShape
  <2>2. row' = row /\ turn[Current].state # "ACCEPTED" /\ \A n \in Requests \ {Current} : turn'[n] = turn[n]
    BY <1>0, <1>7, <2>1, RowFacts DEF RecordPendingSend
  <2>3. turn'[Current].state # "ACCEPTED"
    BY <1>0, <1>7, <2>1, RowFacts DEF RecordPendingSend
  <2>4. turn'[m] = turn[m] \/ (turn[m].state # "ACCEPTED" /\ turn'[m].state # "ACCEPTED")
    BY <2>2, <2>3
  <2> QED BY <1>4, <2>2, <2>4
<1>8. CASE RecordIntent
  <2>1. Current \in Requests /\ row' = row BY <1>8 DEF RecordIntent, ControlShape
  <2>2. turn'[m].state = turn[m].state /\ turn'[m].id = turn[m].id
    BY <1>0, <1>8, <2>1 DEF RecordIntent, TurnRow
  <2> QED BY <1>1, <1>2, <1>3, <2>1, <2>2
<1>9. CASE RecordRecoveredTurn \/ TurnStarted
  <2>1. Current \in Requests /\ row' = row BY <1>9 DEF RecordRecoveredTurn, TurnStarted, ControlShape
  <2>2. drive.found \in Nat \cup {None} /\ reply \in Nat \cup {None}
    BY DEF ControlShape, Drives, AppShape
  <2>3. PICK i \in Nat : turn' = [turn EXCEPT ![Current].state = "SENT", ![Current].id = i]
    BY <1>9, <2>2 DEF RecordRecoveredTurn, TurnStarted
  <2>4. CASE m = Current
    <3>1. turn'[m].state = "SENT" BY <1>0, <2>3, <2>4, RowFacts
    <3>2. turn[m].state # "ACCEPTED" BY <1>0, <1>1, <2>4
    <3>3. row'.answers = row.answers /\ turn'[m].state # "ACCEPTED" BY <2>1, <3>1
    <3> QED BY <1>4, <3>2, <3>3
  <2>5. CASE m # Current
    <3>1. turn'[m] = turn[m] /\ row'.answers = row.answers BY <1>0, <2>1, <2>3, <2>5, RowFacts
    <3> QED BY <1>4, <3>1
  <2> QED BY <2>4, <2>5
<1>10. CASE ResetTurn \/ RetryRefused
  <2>1. GiveUp(Current) /\ row'.answers = row.answers BY <1>5, <1>10 DEF ResetTurn, RetryRefused
  <2>2. turn'[m] = turn[m] \/ (turn[m].state # "ACCEPTED" /\ turn'[m].state # "ACCEPTED")
    <3>1. CASE m = Current BY <1>0, <2>1, <3>1 DEF GiveUp
    <3>2. CASE m # Current BY <1>0, <2>1, <3>2 DEF GiveUp
    <3> QED BY <3>1, <3>2
  <2> QED BY <1>4, <2>1, <2>2
<1>11. CASE turn' = turn /\ (row' = row \/ \E st : row' = [row EXCEPT !.status = st])
  <2>1. turn'[m] = turn[m] /\ row'.answers = row.answers BY <1>5, <1>11
  <2> QED BY <1>4, <2>1
<1> QED
  BY <1>6, <1>7, <1>8, <1>9, <1>10, <1>11
  DEF Next, Drive, Resume, AppServer, Faults, BeginStep, TaskPrepared, ReadThread, DeliveryUncertain,
      TaskBecameActive, SendTurnStart, RecordCompletion, TurnFailed, Inspect, SaveResume,
      LoseTurnStart, StartRefused, RefuseResponse, CommunicationFails, Crash,
      ExecuteTurnStart, TurnCompletes, TurnBreaks, UserTurn

\* What the drive found in the history is a turn of it.
LEMMA FoundStep ==
  ASSUME Shape, Single, Recorded, FoundTurn, Next
  PROVE  FoundTurn'
<1> USE DEF Shape
<1>1. Ids \subseteq DOMAIN thread' BY ThreadMoves
<1>2. CASE ReadThread
  <2>1. PICK m \in Requests : m = Current BY <1>2 DEF ReadThread, ControlShape
  <2>2. Recovered(m) \in Ids \cup {None} BY FindFacts DEF Recovered, Recorded, Live
  <2> QED BY <1>1, <1>2, <2>1, <2>2 DEF ReadThread, FoundTurn
<1>3. CASE drive'.found \in {drive.found, None}
  BY <1>1, <1>3 DEF FoundTurn
<1>4. drive \in Drives BY DEF ControlShape
<1>5. /\ \A at : Goto(at) => drive'.found = drive.found
      /\ drive' = Idle => drive'.found = None
      /\ drive' = [Idle EXCEPT !.at = "prepare"] => drive'.found = None
  BY <1>4 DEF Drives, Idle
<1> QED
  BY <1>2, <1>3, <1>5
  DEF Next, Drive, Resume, AppServer, Faults, BeginStep, TaskPrepared, RecordPendingSend,
      RecordRecoveredTurn, DeliveryUncertain, TaskBecameActive, RecordIntent, SendTurnStart,
      TurnStarted, RecordCompletion, AcceptResponse, TurnFailed, Inspect, ResetTurn, SaveResume,
      RetryRefused, LoseTurnStart, StartRefused, RefuseResponse, CommunicationFails, Crash,
      ExecuteTurnStart, TurnCompletes, TurnBreaks, UserTurn

-----------------------------------------------------------------------------
(* The invariant holds. *)

\* The parts hold when the run starts.
LEMMA InvInit ==
  ASSUME Init
  PROVE  Inv
<1>1. Shape
  <2>1. Requests # {} /\ 0 \in 0..Last /\ 0 \in Requests OBVIOUS
  <2>2. NoTurn \in TurnRow BY DEF NoTurn, TurnRow
  <2>3. StoreShape BY <2>1, <2>2 DEF Init, StoreShape
  <2>4. AppShape BY DEF Init, AppShape
  <2>5. ControlShape BY DEF Init, ControlShape, Drives, Idle
  <2> QED BY <2>3, <2>4, <2>5 DEF Shape
<1>2. Ids = {} /\ wire = {} BY DEF Init
<1>3. Single /\ Unsent
  BY <1>2 DEF Init, Single, Unsent, NotDelivered, Idle, NoTurn
<1>4. Recorded BY DEF Init, Recorded, Idle, NoTurn
<1>5. Ending /\ Answers BY DEF Init, Ending, Answers, NoTurn
<1>6. FoundTurn BY DEF Init, FoundTurn, Idle
<1> QED BY <1>1, <1>3, <1>4, <1>5, <1>6 DEF Inv

\* Every step keeps every part.
LEMMA InvStep ==
  ASSUME Inv, [Next]_vars
  PROVE  Inv'
<1> USE DEF Inv
<1>1. CASE Next
  <2>1. Shape' /\ FoundTurn' BY <1>1, StoreStep, AppStep, ControlStep, FoundStep DEF Shape
  <2>2. Single' /\ Unsent' BY <1>1, SingleStep, UnsentStep
  <2>3. Recorded' BY <1>1, <2>1, RecordedStep
  <2>4. Ending' /\ Answers' BY <1>1, EndingStep, AnswersStep
  <2> QED BY <2>1, <2>2, <2>3, <2>4
<1>2. CASE UNCHANGED vars
  <2>1. Shape' /\ FoundTurn' BY <1>2 DEF Shape, StoreShape, AppShape, ControlShape, FoundTurn
  <2>2. /\ \A m, i : Live(m, i)' <=> Live(m, i)
        /\ \A m, w : Travels(m, w)' <=> Travels(m, w)
        /\ \A m : NotDelivered(m)' <=> NotDelivered(m)
        /\ \A i : Over(i)' <=> Over(i)
    BY <1>2 DEF Live, Travels, NotDelivered, Over
  <2>3. Single' BY <1>2, <2>2 DEF Single
  <2>4. Unsent' BY <1>2, <2>2 DEF Unsent
  <2>5. Recorded' BY <1>2 DEF Recorded, Live
  <2>6. Ending' BY <1>2 DEF Ending, Over
  <2>7. Answers' BY <1>2 DEF Answers
  <2> QED BY <2>1, <2>3, <2>4, <2>5, <2>6, <2>7
<1> QED BY <1>1, <1>2

\* The rows, the drive, the thread and the requests on their way agree in every reachable state.
THEOREM Invariance == Spec => []Inv
<1>1. Init => Inv BY InvInit
<1>2. Inv /\ [Next]_vars => Inv' BY InvStep
<1> QED BY <1>1, <1>2, PTL DEF Spec

\* Every state variable has its type: a recorded turn, a found one and one that answers are turns
\* of the task.
THEOREM TypeCorrect == Spec => []TypeOK
<1>1. ASSUME Inv PROVE TypeOK
  <2> USE <1>1 DEF Inv, Shape
  <2>1. \A m \in Requests : turn[m] \in TurnRow /\ (turn[m].id # None => turn[m].id \in Ids)
    BY DEF StoreShape, Recorded, Live
  <2>2. \A m \in Requests :
          /\ turn[m].state \in {"NONE", "PENDING", "SENT", "ACCEPTED"}
          /\ turn[m].id \in Ids \cup {None} /\ turn[m].intent \in BOOLEAN
    BY <2>1 DEF TurnRow
  <2>3. \A i \in Ids : thread[i] \in [request: Requests \cup {None},
                                      status: Ended \cup {"inProgress"}, effects: BOOLEAN]
    BY ThreadFacts DEF AppShape, ThreadTurn
  <2>4. drive.found \in Ids \cup {None} BY DEF FoundTurn
  <2> QED BY <2>2, <2>3, <2>4 DEF StoreShape, AppShape, ControlShape, Drives, TypeOK
<1> QED BY <1>1, Invariance, PTL

\* turn/start is not idempotent, its answers get lost and the daemon crashes around it: still no
\* request is delivered while an earlier delivery of it may be answered.
THEOREM DeliveredOnceHolds == Spec => []DeliveredOnce
<1>1. ASSUME Inv, NEW m \in Requests PROVE Open(m) <= 1
  <2> DEFINE T == {i \in Ids : thread[i].request = m /\ i \notin archived[m]}
             W == {w \in wire : w.request = m}
  <2>1. T = {} \/ \E i : T = {i}
    <3>1. \A i, j \in T : i = j BY <1>1 DEF Inv, Single, Live
    <3> QED BY <3>1
  <2>2. W = {} \/ \E w : W = {w}
    <3>1. \A v, w \in W : v = w BY <1>1 DEF Inv, Single, Travels
    <3> QED BY <3>1
  <2>3. T = {} \/ W = {} BY <1>1 DEF Inv, Single, Live, Travels
  <2> HIDE DEF T, W
  <2>4. Cardinality({}) = 0 /\ \A x : Cardinality({x}) = 1 BY FS_EmptySet, FS_Singleton
  <2>5. Cardinality(T) + Cardinality(W) <= 1
    <3>1. Cardinality(T) \in {0, 1} /\ Cardinality(W) \in {0, 1} BY <2>1, <2>2, <2>4
    <3>2. Cardinality(T) = 0 \/ Cardinality(W) = 0 BY <2>3, <2>4
    <3> QED BY <3>1, <3>2
  <2> QED BY <2>5 DEF Open, T, W
<1>2. Inv => DeliveredOnce BY <1>1 DEF DeliveredOnce
<1> QED BY <1>2, Invariance, PTL

\* No work is repeated on a resume: a turn that was given up is the request's, is over, and had no
\* side effects.
THEOREM GivenUpSafelyHolds == Spec => []GivenUpSafely
<1>1. Inv => GivenUpSafely BY DEF Inv, Ending, Over, GivenUpSafely
<1> QED BY <1>1, Invariance, PTL

\* Exactly the answered requests are behind the row's count, and each was answered by a completed
\* turn of its own that was not given up.
THEOREM AcceptedTurnAnswersHolds == Spec => []AcceptedTurnAnswers
<1>1. ASSUME Inv PROVE AcceptedTurnAnswers
  <2>1. ASSUME NEW m \in Requests, turn[m].state = "ACCEPTED" PROVE Live(m, turn[m].id)
    BY <1>1, <2>1 DEF Inv, Recorded
  <2> QED BY <1>1, <2>1 DEF Inv, Answers, Live, AcceptedTurnAnswers
<1> QED BY <1>1, Invariance, PTL

=============================================================================
