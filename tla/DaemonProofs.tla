---------------------------- MODULE DaemonProofs ----------------------------
(***************************************************************************)
(* Proofs about Daemon for all values of its constants.                    *)
(*                                                                         *)
(* The handlers and the drive save copies of a row that may be stale, so   *)
(* the invariants say what a copy, and not only the row, may be.  Shape    *)
(* gives the values each place of the program can hold; Driven is who will *)
(* drive an active run; Order is what any copy, however old, has in common *)
(* with the turns; Alone is what holds until client requests overlap with  *)
(* other work on their run: then every copy is the row.                    *)
(***************************************************************************)
EXTENDS Daemon, TLAPS

\* Places of drive at which it works on the request of its copy.
Asking  == {"step", "check", "idle?", "ask", "wait", "answer?", "apply"}
Working == Asking \cup {"accept"}
Places  == Working \cup {"idle", "load", "failed", "report", "exhausted"}

\* A row that exists keeps the cause of a block only while it is blocked, and was
\* accepted after its last answer.
Stored == {w \in Row :
             /\ w.status # "None" /\ (w.cause # "none" => w.status = "Blocked")
             /\ w.status = "Accepted" => w.answers = Last}
Copies == Stored \cup {NoRow}

Drives   == [run : Runs \cup {None}, at : Places, copy : Copies, steps : 0..MaxDriverSteps]
Handlers == [op : {"idle", "cancel", "resume", "dispatch"}, run : Runs \cup {None}, copy : Copies]

Turns    == [Runs -> [0..Last -> {"none", "open", "accepted"}]]

DriverShape ==
  /\ driver \in Drives
  /\ driver.at = "idle" => driver = NoDriver
  /\ driver.at # "idle" => driver.run \in Runs
  /\ driver.at \notin {"idle", "load"} => driver.copy \in Stored /\ driver.steps > 0
  /\ driver.at \in Working => driver.copy.status \in Active
  /\ driver.at \in Asking => driver.copy.answers < Last
  /\ driver.at = "accept" => driver.copy.answers = Last

HandlerShape ==
  /\ handler \in [Clients -> Handlers]
  /\ \A c \in Clients :
       /\ handler[c].op = "idle" => handler[c] = NoRequest
       /\ handler[c].op # "idle" => handler[c].run \in Runs
       /\ handler[c].op = "dispatch" => handler[c].copy = NoRow
       /\ handler[c].op \in {"cancel", "resume"} => handler[c].copy \in Stored

StoreShape ==
  row \in [Runs -> Copies] /\ lock \in Runs \cup {None} /\ turn \in Turns

DaemonShape ==
  /\ dispatched \subseteq Runs /\ abandoned \subseteq Runs
  /\ up \in BOOLEAN /\ overlapped \in BOOLEAN
  /\ requests \in 0..MaxRequests /\ crashes \in 0..MaxCrashes
  /\ ~up => driver = NoDriver /\ dispatched = {} /\ handler = [c \in Clients |-> NoRequest]

\* Work is only done on runs that have a row.
RunsStored ==
  /\ driver.at # "idle" => row[driver.run] \in Stored
  /\ \A r \in dispatched : row[r] \in Stored
  /\ \A c \in Clients : handler[c].op # "idle" => row[handler[c].run] \in Stored

Shape == StoreShape /\ DriverShape /\ HandlerShape /\ DaemonShape /\ RunsStored

\* Somebody other than the drive at work will look at the run, or its store failed.
Awaited(r) ==
  \/ r \in dispatched \cup abandoned
  \/ \E c \in Clients : handler[c].op = "dispatch" /\ handler[c].run = r

\* A drive that is about to leave without looking again has loaded a row that it will stop.
Cared(r) ==
  \/ Awaited(r)
  \/ driver.run = r /\ (driver.at \in {"report", "exhausted"} => driver.copy.status \in Active)

Driven == up => \A r \in Runs : row[r].status \in Active => Cared(r)

\* The turns of a run are accepted in order, and nothing is asked beyond the open one.
Answered(r, k) == \A m \in 0..Last : m < k => turn[r][m] = "accepted"
TurnOrder == \A r \in Runs, n \in 0..Last : turn[r][n] # "none" => Answered(r, n)

\* No copy is ahead of the turns.
CopiesBehind ==
  /\ \A r \in Runs : Answered(r, row[r].answers)
  /\ driver.at # "idle" => Answered(driver.run, driver.copy.answers)
  /\ \A c \in Clients : handler[c].op # "idle" =>
       Answered(handler[c].run, handler[c].copy.answers)

\* An answer that blocked its run is the last thing anybody knows of the run.
BlockedByAnswer ==
  \A r \in Runs : row[r].cause = "answer" =>
    /\ \A n \in 0..Last : n > row[r].answers => turn[r][n] = "none"
    /\ driver.run = r => driver.copy.answers <= row[r].answers
    /\ \A c \in Clients : handler[c].run = r => handler[c].copy.answers <= row[r].answers

\* While drive works on a run nobody blocks it, and the turn it has asked for stays open.
DriveUndisturbed ==
  /\ driver.at \in Working => row[driver.run].status # "Blocked"
  /\ driver.at \in {"wait", "answer?", "apply"} =>
       turn[driver.run][driver.copy.answers] = "open"

Order == TurnOrder /\ CopiesBehind /\ BlockedByAnswer /\ DriveUndisturbed

\* One request at a time, on a run that nothing else works on; each copy is the row.
OneWorker ==
  /\ \A c, d \in Clients : handler[c].op # "idle" /\ handler[d].op # "idle" => c = d
  /\ \A c \in Clients : handler[c].op # "idle" =>
       /\ driver.run # handler[c].run /\ handler[c].run \notin dispatched
       /\ handler[c].op # "dispatch" => handler[c].copy = row[handler[c].run]
       /\ handler[c].op = "dispatch" => row[handler[c].run].status \in Active
  /\ driver.run \notin dispatched
  /\ \A r \in dispatched : row[r].status \in Active

DriveIsCurrent ==
  driver.at # "idle" =>
    /\ driver.at \in Working \cup {"report", "exhausted"} => driver.copy = row[driver.run]
    /\ driver.at = "load" /\ driver.steps = 0 => row[driver.run].status \in Active
    /\ driver.at = "load" => row[driver.run].status # "Cancelled"
    /\ driver.at = "exhausted" => row[driver.run].status # "Cancelled"
    /\ driver.at = "failed" => row[driver.run].status \in Held
    /\ driver.at = "report" => row[driver.run].status \in Active

LockHeld == \A r \in Runs : row[r].status \in Held <=> lock = r

RowAtTurn ==
  \A r \in Runs, n \in 0..Last :
    /\ n > row[r].answers => turn[r][n] = "none"
    /\ n = row[r].answers /\ turn[r][n] = "accepted" => row[r].status \in {"Blocked", "Cancelled"}

Alone == ~overlapped => OneWorker /\ DriveIsCurrent /\ LockHeld /\ RowAtTurn

Inv == Shape /\ Driven /\ Order /\ Alone

-----------------------------------------------------------------------------
(* What a copy, a save and a move of the drive are, whatever the action.   *)

USE DaemonAssumption
  DEF Active, Terminal, Status, Held, Asking, Working, Places, NoRow, NoDriver, NoRequest,
      store, memory, bounds, vars

\* A copy with another status, the cause of a block, or one more answer (With, Blocked and
\* Advanced stand for the assignments that state.rs and coordinator.rs make to a copy).
LEMMA CopyFacts ==
  /\ NoRow \in Copies
  /\ \A w \in Copies : w \in Row /\ w.status \in Status /\ w.answers \in 0..Last
  /\ \A w \in Copies, st \in Status \ {"None", "Accepted"} : With(w, st) \in Stored
  /\ \A w \in Copies : w.answers = Last => With(w, "Accepted") \in Stored
  /\ \A w \in Copies, st \in Status :
       /\ With(w, st).status = st /\ With(w, st).cause = "none"
       /\ With(w, st).answers = w.answers
  /\ \A w \in Stored : w.status # "Blocked" => With(w, w.status) = w
  /\ \A w \in Copies, why \in {"answer", "error"} :
       /\ Blocked(w, why) \in Stored
       /\ Blocked(w, why).status = "Blocked" /\ Blocked(w, why).cause = why
       /\ Blocked(w, why).answers = w.answers
  /\ \A w \in Stored : w.answers < Last =>
       /\ w.status \in Active => Advanced(w) \in Stored
       /\ Advanced(w).status = w.status /\ Advanced(w).cause = w.cause
       /\ Advanced(w).answers = w.answers + 1
<1>1. NoRow \in Copies BY DEF Copies
<1>2. \A w \in Copies : w \in Row /\ w.status \in Status /\ w.answers \in 0..Last
  BY DEF Copies, Stored, Row
<1>3. \A w \in Row, st \in Status :
        /\ With(w, st) \in Row
        /\ With(w, st).status = st /\ With(w, st).cause = "none"
        /\ With(w, st).answers = w.answers
  BY DEF Row, With
<1>4. \A w \in Copies, st \in Status \ {"None", "Accepted"} : With(w, st) \in Stored
  BY <1>2, <1>3 DEF Stored
<1>5. \A w \in Copies : w.answers = Last => With(w, "Accepted") \in Stored
  BY <1>2, <1>3 DEF Stored
<1>6. \A w \in Row, why \in {"answer", "error"} :
        /\ Blocked(w, why) \in Row
        /\ Blocked(w, why).status = "Blocked" /\ Blocked(w, why).cause = why
        /\ Blocked(w, why).answers = w.answers
  BY DEF Row, Blocked
<1>7. \A w \in Copies, why \in {"answer", "error"} : Blocked(w, why) \in Stored
  BY <1>2, <1>6 DEF Stored
<1>8. \A w \in Row : w.answers < Last =>
        /\ Advanced(w) \in Row
        /\ Advanced(w).status = w.status /\ Advanced(w).cause = w.cause
        /\ Advanced(w).answers = w.answers + 1
  BY DEF Row, Advanced
<1>9. \A w \in Stored : w.answers < Last /\ w.status \in Active => Advanced(w) \in Stored
  BY <1>8 DEF Stored
<1>10. \A w \in Stored : w.status # "Blocked" => With(w, w.status) = w
  BY DEF Stored, With, Row
<1> QED BY <1>1, <1>2, <1>3, <1>4, <1>5, <1>6, <1>7, <1>8, <1>9, <1>10 DEF Stored, Copies

\* save_state replaces the row of one run and gives its repository back when it stops.
LEMMA SaveFacts ==
  ASSUME StoreShape, NEW r \in Runs, NEW next \in Stored, Save(r, next)
  PROVE  /\ row' \in [Runs -> Copies] /\ lock' \in Runs \cup {None}
         /\ row'[r] = next /\ \A s \in Runs \ {r} : row'[s] = row[s]
         /\ lock' = (IF next.status \in Terminal /\ lock = r THEN None ELSE lock)
BY DEF Save, Released, StoreShape, Copies

\* A move of drive keeps the run and the steps it has left.
LEMMA MoveFacts ==
  ASSUME driver \in Drives
  PROVE  /\ \A at \in Places : GoTo(at) =>
              /\ driver' \in Drives /\ driver'.at = at /\ driver'.run = driver.run
              /\ driver'.copy = driver.copy /\ driver'.steps = driver.steps
              /\ abandoned' = abandoned
         /\ \A at \in Places, w \in Copies : Hold(at, w) =>
              /\ driver' \in Drives /\ driver'.at = at /\ driver'.run = driver.run
              /\ driver'.copy = w /\ driver'.steps = driver.steps
              /\ abandoned' = abandoned
         /\ Leave => driver' = NoDriver /\ abandoned' = abandoned
         /\ NoDriver \in Drives
<1>1. \A at \in Places : GoTo(at) =>
        /\ driver' \in Drives /\ driver'.at = at /\ driver'.run = driver.run
        /\ driver'.copy = driver.copy /\ driver'.steps = driver.steps
        /\ abandoned' = abandoned
  BY DEF GoTo, Drives
<1>2. \A at \in Places, w \in Copies : Hold(at, w) =>
        /\ driver' \in Drives /\ driver'.at = at /\ driver'.run = driver.run
        /\ driver'.copy = w /\ driver'.steps = driver.steps
        /\ abandoned' = abandoned
  BY DEF Hold, Drives
<1>3. NoDriver \in Drives BY CopyFacts DEF Drives
<1> QED BY <1>1, <1>2, <1>3 DEF Leave

\* A handler goes on to its next step, or ends; the others are where they were.
LEMMA HandleFacts ==
  ASSUME handler \in [Clients -> Handlers], NEW c \in Clients
  PROVE  /\ \A op \in {"idle", "cancel", "resume", "dispatch"}, r \in Runs, w \in Copies :
              Handle(c, op, r, w) =>
                /\ handler' \in [Clients -> Handlers]
                /\ handler'[c].op = op /\ handler'[c].run = r /\ handler'[c].copy = w
                /\ \A d \in Clients \ {c} : handler'[d] = handler[d]
         /\ EndRequest(c) =>
              /\ handler' \in [Clients -> Handlers] /\ handler'[c] = NoRequest
              /\ \A d \in Clients \ {c} : handler'[d] = handler[d]
<1>1. \A op \in {"idle", "cancel", "resume", "dispatch"}, r \in Runs, w \in Copies :
        Handle(c, op, r, w) =>
          /\ handler' \in [Clients -> Handlers]
          /\ handler'[c].op = op /\ handler'[c].run = r /\ handler'[c].copy = w
          /\ \A d \in Clients \ {c} : handler'[d] = handler[d]
  BY DEF Handle, Handlers
<1>2. EndRequest(c) =>
        /\ handler' \in [Clients -> Handlers] /\ handler'[c] = NoRequest
        /\ \A d \in Clients \ {c} : handler'[d] = handler[d]
  BY CopyFacts DEF EndRequest, Handlers
<1> QED BY <1>1, <1>2

\* One turn changes at a time.
LEMMA TurnFacts ==
  ASSUME turn \in Turns, NEW r \in Runs, NEW n \in 0..Last,
         NEW v \in {"none", "open", "accepted"}, turn' = [turn EXCEPT ![r][n] = v]
  PROVE  /\ turn' \in Turns
         /\ \A s \in Runs, m \in 0..Last :
              turn'[s][m] = IF s = r /\ m = n THEN v ELSE turn[s][m]
BY DEF Turns

-----------------------------------------------------------------------------
(* Shape is kept, part by part. *)

USE DEF UnderLock, Proceed, Issue

\* Rows that exist are kept.
Kept == \A r \in Runs : row[r] \in Stored => row'[r] \in Stored

\* A save of a sound copy keeps the store sound.
LEMMA SaveShape ==
  ASSUME StoreShape, NEW r \in Runs, NEW next \in Stored, Save(r, next), turn' \in Turns
  PROVE  StoreShape' /\ Kept
BY SaveFacts DEF StoreShape, Kept

\* What the copy of the drive is where it is used.
LEMMA DriverFacts ==
  ASSUME DriverShape, driver.at # "idle"
  PROVE  /\ driver.run \in Runs /\ driver.copy \in Copies
         /\ driver.at # "load" => driver.copy \in Stored
         /\ driver.at \in Working => driver.copy.status \in Active
BY DEF DriverShape, Drives, Copies

\* Every transaction of the handlers and of drive leaves rows, lock and turns sound.
LEMMA StoreSteps ==
  ASSUME Shape, Next
  PROVE  StoreShape' /\ Kept
<1> USE DEF Shape
<1>1. ASSUME NEW c \in Clients, NEW r \in Runs, Start(c, r) PROVE StoreShape' /\ Kept
  BY <1>1, CopyFacts DEF Start, StoreShape, Copies, Kept
<1>2. ASSUME NEW c \in Clients, SaveCancel(c) PROVE StoreShape' /\ Kept
  <2>1. With(handler[c].copy, "Cancelled") \in Stored /\ handler[c].run \in Runs
    BY <1>2, CopyFacts DEF SaveCancel, HandlerShape, Copies
  <2> QED BY <1>2, <2>1, SaveShape DEF SaveCancel, StoreShape, Kept
<1>3. ASSUME NEW c \in Clients, SaveResume(c) PROVE StoreShape' /\ Kept
  <2>1. With(handler[c].copy, "Running") \in Stored /\ handler[c].run \in Runs
    BY <1>3, CopyFacts DEF SaveResume, HandlerShape, Copies
  <2> QED BY <1>3, <2>1, SaveShape DEF SaveResume, StoreShape
<1>4. ASSUME NEW c \in Clients, Reactivate(c) PROVE StoreShape' /\ Kept
  <2>1. /\ With(handler[c].copy, "Running") \in Stored /\ handler[c].run \in Runs
        /\ handler[c].copy.answers \in 0..Last
    BY <1>4, CopyFacts DEF Reactivate, HandlerShape, Copies
  <2> QED BY <1>4, <2>1, TurnFacts DEF Reactivate, StoreShape, Copies, Kept
<1>5. CASE PrepareWorkspace
  BY <1>5, DriverFacts, SaveShape DEF PrepareWorkspace, StoreShape, Kept
<1>6. CASE TaskActive
  BY <1>6, DriverFacts, CopyFacts, SaveShape DEF TaskActive, StoreShape
<1>7. CASE TaskIdle
  BY <1>7, DriverFacts, CopyFacts, SaveShape DEF TaskIdle, StoreShape, Kept
<1>8. CASE PausePermission
  BY <1>8, DriverFacts, CopyFacts, SaveShape DEF PausePermission, StoreShape
<1>9. CASE RevalidateAndAccept
  BY <1>9, DriverFacts, CopyFacts, SaveShape DEF RevalidateAndAccept, StoreShape, DriverShape
<1>10. CASE Ask
  <2>1. driver.run \in Runs /\ driver.copy.answers \in 0..Last
    BY <1>10, DriverFacts, CopyFacts DEF Ask
  <2> QED BY <1>10, <2>1, TurnFacts DEF Ask, StoreShape, Kept
<1>11. CASE AcceptAnswer
  <2>1. /\ driver.run \in Runs
        /\ Advanced(driver.copy) \in Stored /\ Blocked(driver.copy, "answer") \in Stored
    BY <1>11, DriverFacts, CopyFacts DEF AcceptAnswer, DriverShape
  <2>2. turn' \in Turns
    BY <1>11, <2>1, TurnFacts DEF AcceptAnswer, StoreShape, Open
  <2> QED BY <1>11, <2>1, <2>2, SaveShape DEF AcceptAnswer, StoreShape, Kept
<1>12. CASE SaveError \/ SaveExhausted
  BY <1>12, DriverFacts, CopyFacts, SaveShape DEF SaveError, SaveExhausted, StoreShape, Kept
<1>13. CASE UNCHANGED store
  BY <1>13 DEF StoreShape, Kept
<1> QED
  BY <1>1, <1>2, <1>3, <1>4, <1>5, <1>6, <1>7, <1>8, <1>9, <1>10, <1>11, <1>12, <1>13
  DEF Next, Request, Respond, Drive, LoadForCancel, LoadForResume, RefuseResume, Dispatch,
      TakeDriverLock, LoadStep, CheckCancelled, NoticeCancel, TurnCompletes, RetryAction,
      StepFails, LoadAfterError, LoadExhausted, StoreFails, Crash, Restart

\* Each move of drive leads to a place that its copy is fit for.
LEMMA DriverSteps ==
  ASSUME Shape, Next
  PROVE  DriverShape'
<1> USE DEF Shape
<1>0. driver \in Drives BY DEF DriverShape
<1>1. ASSUME NEW r \in Runs, TakeDriverLock(r) PROVE DriverShape'
  BY <1>1, CopyFacts DEF TakeDriverLock, DriverShape, Drives
<1>2. CASE LoadStep
  <2>1. row[driver.run] \in Stored /\ driver.steps \in 0..MaxDriverSteps
    BY <1>2 DEF LoadStep, DriverShape, Drives, RunsStored
  <2>2. row[driver.run] \in Copies /\ row[driver.run].answers \in 0..Last
    BY <2>1, CopyFacts DEF Copies
  <2>3. CASE Leave BY <2>3, MoveFacts, <1>0 DEF DriverShape
  <2>4. CASE row[driver.run].status \in Active /\ ~Leave
    <3>1. PICK at \in {"accept", "step"} :
            /\ driver' = [driver EXCEPT !.steps = @ + 1, !.copy = row[driver.run], !.at = at]
            /\ at = "accept" <=> row[driver.run].answers = Last
      BY <1>2, <2>4 DEF LoadStep, AllAnswered
    <3>2. driver.at = "load" /\ driver.run \in Runs /\ driver.steps + 1 \in 0..MaxDriverSteps
      BY <1>2, <2>1 DEF LoadStep, StepsLeft, DriverShape
    <3>3. /\ driver' \in Drives /\ driver'.at = at /\ driver'.run = driver.run
          /\ driver'.copy = row[driver.run] /\ driver'.steps = driver.steps + 1
      BY <1>0, <2>2, <3>1, <3>2 DEF Drives
    <3>4. at = "step" => row[driver.run].answers < Last
      BY <2>2, <3>1
    <3>5. driver'.steps > 0
      BY <2>1, <3>3
    <3> QED BY <2>1, <2>4, <3>1, <3>2, <3>3, <3>4, <3>5 DEF DriverShape
  <2> QED BY <1>2, <2>3, <2>4 DEF LoadStep
<1>3. CASE \/ PrepareWorkspace \/ CheckCancelled("check", "idle?") \/ CheckCancelled("wait", "answer?")
           \/ NoticeCancel \/ StepFails \/ TurnCompletes \/ RetryAction \/ PausePermission
           \/ Ask \/ AcceptAnswer \/ RevalidateAndAccept
  <2> USE <1>3 DEF PrepareWorkspace, CheckCancelled, NoticeCancel, StepFails, TurnCompletes,
        RetryAction, PausePermission, Ask, AcceptAnswer, RevalidateAndAccept
  <2>1. driver.at \in Working
    OBVIOUS
  <2>2. \E at \in Asking \cup {"load", "failed"} :
          GoTo(at) /\ (at \in Asking => driver.at \in Asking)
    OBVIOUS
  <2> HIDE <1>3
  <2> QED BY <2>1, <2>2, <1>0, MoveFacts DEF DriverShape
<1>4. CASE TaskActive \/ TaskIdle
  <2>1. driver.at = "idle?" /\ driver.copy \in Copies
    BY <1>4, DriverFacts DEF TaskActive, TaskIdle
  <2>2. PICK st \in Active, at \in {"idle?", "ask"} : Hold(at, With(driver.copy, st))
    BY <1>4 DEF TaskActive, TaskIdle
  <2>3. With(driver.copy, st) \in Stored /\ With(driver.copy, st) \in Copies
    BY <2>1, CopyFacts DEF Copies
  <2> QED BY <2>1, <2>2, <2>3, <1>0, MoveFacts, CopyFacts DEF DriverShape
<1>5. CASE LoadAfterError \/ LoadExhausted
  <2>1. driver.run \in Runs /\ row[driver.run] \in Stored /\ row[driver.run] \in Copies /\ driver.steps > 0
    BY <1>5 DEF LoadAfterError, LoadExhausted, DriverShape, RunsStored, Copies, StepsLeft, Drives
  <2>2. Leave \/ \E at \in {"report", "exhausted"} : Hold(at, row[driver.run])
    BY <1>5 DEF LoadAfterError, LoadExhausted
  <2> QED BY <2>1, <2>2, <1>0, MoveFacts DEF DriverShape
<1>6. CASE driver' = NoDriver
  BY <1>6, MoveFacts, <1>0 DEF DriverShape
<1>7. CASE UNCHANGED driver
  BY <1>7 DEF DriverShape
<1> QED
  BY <1>1, <1>2, <1>3, <1>4, <1>5, <1>6, <1>7
  DEF Next, Request, Respond, Drive, Start, LoadForCancel, LoadForResume, SaveCancel, SaveResume,
      Reactivate, RefuseResume, Dispatch, SaveError, SaveExhausted, StoreFails, Leave, Crash, Restart

\* Each handler goes on with a copy of its run, or ends.
LEMMA HandlerSteps ==
  ASSUME Shape, Next
  PROVE  HandlerShape'
<1> USE DEF Shape
<1>0. handler \in [Clients -> Handlers] BY DEF HandlerShape
<1>1. ASSUME NEW c \in Clients, NEW r \in Runs, NEW op \in {"cancel", "resume", "dispatch"}, NEW w \in Copies,
             Handle(c, op, r, w), op = "dispatch" => w = NoRow, op # "dispatch" => w \in Stored
      PROVE  HandlerShape'
  BY <1>0, <1>1, HandleFacts DEF HandlerShape
<1>2. ASSUME NEW c \in Clients, NEW r \in Runs, Start(c, r) PROVE HandlerShape'
  BY <1>1, <1>2, CopyFacts DEF Start
<1>3. ASSUME NEW c \in Clients, NEW r \in Runs, LoadForCancel(c, r) \/ LoadForResume(c, r) PROVE HandlerShape'
  <2>1. row[r] \in Stored BY <1>3 DEF LoadForCancel, LoadForResume, StoreShape, Copies
  <2> QED BY <1>1, <1>3, <2>1 DEF LoadForCancel, LoadForResume, Copies
<1>4. ASSUME NEW c \in Clients, SaveResume(c) \/ Reactivate(c) PROVE HandlerShape'
  <2>1. handler[c].run \in Runs BY <1>4 DEF HandlerShape, SaveResume, Reactivate
  <2> QED BY <1>1, <1>4, <2>1, CopyFacts DEF SaveResume, Reactivate
<1>5. ASSUME NEW c \in Clients, EndRequest(c) PROVE HandlerShape'
  BY <1>0, <1>5, HandleFacts DEF HandlerShape
<1>6. CASE Crash
  BY <1>6, CopyFacts DEF Crash, HandlerShape, Handlers
<1>7. CASE UNCHANGED handler
  BY <1>7 DEF HandlerShape
<1> QED
  BY <1>2, <1>3, <1>4, <1>5, <1>6, <1>7
  DEF Next, Request, Respond, Drive, SaveCancel, RefuseResume, Dispatch, TakeDriverLock, LoadStep,
      PrepareWorkspace, CheckCancelled, NoticeCancel, TaskActive, TaskIdle, Ask, TurnCompletes,
      RetryAction, PausePermission, AcceptAnswer, RevalidateAndAccept, StepFails, LoadAfterError,
      SaveError, LoadExhausted, SaveExhausted, StoreFails, Restart

\* The sets of runs and the bounds; a daemon that is down has nothing in memory.
LEMMA DaemonSteps ==
  ASSUME Shape, Next
  PROVE  DaemonShape'
<1> USE DEF Shape
<1>1. ASSUME NEW c \in Clients, NEW r \in Runs, Start(c, r) \/ LoadForCancel(c, r) \/ LoadForResume(c, r)
      PROVE DaemonShape'
  BY <1>1 DEF Start, LoadForCancel, LoadForResume, DaemonShape, HandlerShape
<1>2. ASSUME NEW c \in Clients, Respond(c) PROVE DaemonShape'
  <2>1. handler[c].op # "idle" => handler[c].run \in Runs BY DEF HandlerShape
  <2> QED BY <1>2, <2>1 DEF Respond, SaveCancel, SaveResume, Reactivate, RefuseResume, Dispatch, DaemonShape
<1>3. CASE Drive
  <2>1. up /\ UNCHANGED <<handler, up, bounds>> /\ dispatched' \subseteq dispatched
    BY <1>3 DEF Drive, TakeDriverLock, LoadStep,
      PrepareWorkspace, CheckCancelled, NoticeCancel, TaskActive, TaskIdle, Ask, TurnCompletes,
      RetryAction, PausePermission, AcceptAnswer, RevalidateAndAccept, StepFails, LoadAfterError,
      SaveError, LoadExhausted, SaveExhausted, StoreFails
  <2>2. UNCHANGED abandoned \/ StoreFails
    BY <1>3 DEF Drive, TakeDriverLock, LoadStep, GoTo, Hold, Leave,
      PrepareWorkspace, CheckCancelled, NoticeCancel, TaskActive, TaskIdle, Ask, TurnCompletes,
      RetryAction, PausePermission, AcceptAnswer, RevalidateAndAccept, StepFails, LoadAfterError,
      SaveError, LoadExhausted, SaveExhausted
  <2> QED BY <2>1, <2>2, DriverFacts DEF DaemonShape, StoreFails
<1>4. CASE Crash
  <2>1. crashes' \in 0..MaxCrashes BY <1>4 DEF Crash, DaemonShape
  <2> QED BY <1>4, <2>1 DEF Crash, DaemonShape
<1>5. CASE Restart
  BY <1>5 DEF Restart, DaemonShape
<1> QED BY <1>1, <1>2, <1>3, <1>4, <1>5 DEF Next, Request

\* drive and the handlers are only given runs that have a row.
LEMMA StoredSteps ==
  ASSUME Shape, Next
  PROVE  RunsStored'
<1> USE DEF Shape
<1>1. \A w \in Copies : w.status # "None" => w \in Stored
  BY DEF Copies
<1>2. driver'.at # "idle" => row[driver'.run] \in Stored /\ driver'.run \in Runs
  <2>1. CASE \E r \in Runs : TakeDriverLock(r)
    BY <2>1 DEF TakeDriverLock, RunsStored
  <2>2. CASE driver'.run = driver.run /\ driver.at # "idle"
    BY <2>2 DEF RunsStored, DriverShape
  <2>3. CASE driver' = driver \/ driver' = NoDriver
    BY <2>3 DEF RunsStored, DriverShape
  <2> QED
    BY <2>1, <2>2, <2>3
    DEF Next, Request, Respond, Drive, Start, LoadForCancel, LoadForResume, SaveCancel,
        SaveResume, Reactivate, RefuseResume, Dispatch, LoadStep, PrepareWorkspace,
        CheckCancelled, NoticeCancel, TaskActive, TaskIdle, Ask, TurnCompletes, RetryAction,
        PausePermission, AcceptAnswer, RevalidateAndAccept, StepFails, LoadAfterError, SaveError,
        LoadExhausted, SaveExhausted, StoreFails, Crash, Restart, GoTo, Hold, Leave, DriverShape, Drives
<1>3. \A r \in dispatched' : row[r] \in Stored /\ r \in Runs
  <2>1. CASE Restart
    BY <2>1, <1>1 DEF Restart, Dispatchable, StoreShape
  <2>2. CASE dispatched' \subseteq dispatched
    BY <2>2 DEF RunsStored, DaemonShape
  <2>3. ASSUME NEW c \in Clients, Dispatch(c) PROVE \A r \in dispatched' : row[r] \in Stored /\ r \in Runs
    BY <2>3 DEF Dispatch, RunsStored, HandlerShape, DaemonShape
  <2> QED
    BY <2>1, <2>2, <2>3
    DEF Next, Request, Respond, Drive, Start, LoadForCancel, LoadForResume, SaveCancel,
        SaveResume, Reactivate, RefuseResume, LoadStep, PrepareWorkspace, TakeDriverLock,
        CheckCancelled, NoticeCancel, TaskActive, TaskIdle, Ask, TurnCompletes, RetryAction,
        PausePermission, AcceptAnswer, RevalidateAndAccept, StepFails, LoadAfterError, SaveError,
        LoadExhausted, SaveExhausted, StoreFails, Crash
<1>4. SUFFICES ASSUME NEW d \in Clients, handler'[d].op # "idle"
               PROVE  /\ handler'[d].run \in Runs
                      /\ row[handler'[d].run] \in Stored \/ row'[handler'[d].run] \in Stored
  BY <1>2, <1>3, StoreSteps DEF Kept, RunsStored
<1> DEFINE Goal == /\ handler'[d].run \in Runs
                   /\ row[handler'[d].run] \in Stored \/ row'[handler'[d].run] \in Stored
<1>5. ASSUME NEW c \in Clients, NEW r \in Runs, row[r] \in Stored \/ row'[r] \in Stored,
             NEW op \in {"cancel", "resume", "dispatch"}, NEW w \in Copies, Handle(c, op, r, w)
      PROVE  Goal
  BY <1>4, <1>5, HandleFacts DEF HandlerShape, RunsStored
<1>6. ASSUME NEW c \in Clients, NEW r \in Runs, Start(c, r) PROVE Goal
  <2>1. row'[r] \in Stored BY <1>6, CopyFacts DEF Start, StoreShape
  <2> QED BY <1>5, <1>6, <2>1, CopyFacts DEF Start
<1>7. ASSUME NEW c \in Clients, NEW r \in Runs, LoadForCancel(c, r) \/ LoadForResume(c, r) PROVE Goal
  <2>1. row[r] \in Stored /\ row[r] \in Copies BY <1>7 DEF LoadForCancel, LoadForResume, StoreShape, Copies
  <2> QED BY <1>5, <1>7, <2>1 DEF LoadForCancel, LoadForResume
<1>8. ASSUME NEW c \in Clients, SaveResume(c) \/ Reactivate(c) PROVE Goal
  <2>1. handler[c].run \in Runs /\ row[handler[c].run] \in Stored
    BY <1>8 DEF HandlerShape, RunsStored, SaveResume, Reactivate
  <2> QED BY <1>5, <1>8, <2>1, CopyFacts DEF SaveResume, Reactivate
<1>9. ASSUME NEW c \in Clients, EndRequest(c) PROVE Goal
  BY <1>4, <1>9, HandleFacts DEF HandlerShape, RunsStored
<1>10. CASE Crash
  BY <1>4, <1>10 DEF Crash
<1>11. CASE UNCHANGED handler
  BY <1>4, <1>11 DEF HandlerShape, RunsStored
<1> QED
  BY <1>6, <1>7, <1>8, <1>9, <1>10, <1>11
  DEF Next, Request, Respond, Drive, SaveCancel, RefuseResume, Dispatch, TakeDriverLock, LoadStep,
      PrepareWorkspace, CheckCancelled, NoticeCancel, TaskActive, TaskIdle, Ask, TurnCompletes,
      RetryAction, PausePermission, AcceptAnswer, RevalidateAndAccept, StepFails, LoadAfterError,
      SaveError, LoadExhausted, SaveExhausted, StoreFails, Restart

\* No row, no turn, no drive and no request: a fresh store.
LEMMA ShapeInit == Init => Shape
<1> SUFFICES ASSUME Init PROVE Shape OBVIOUS
<1>1. StoreShape BY CopyFacts DEF Init, StoreShape, Turns
<1>2. DriverShape BY CopyFacts DEF Init, DriverShape, Drives
<1>3. HandlerShape BY CopyFacts DEF Init, HandlerShape, Handlers
<1>4. DaemonShape
  <2>1. requests \in 0..MaxRequests /\ crashes \in 0..MaxCrashes BY DEF Init
  <2> QED BY <2>1 DEF Init, DaemonShape
<1>5. RunsStored BY DEF Init, RunsStored
<1> QED BY <1>1, <1>2, <1>3, <1>4, <1>5 DEF Shape

\* Every step of the daemon keeps rows, turns, copies and places sound.
LEMMA ShapeStep == Shape /\ [Next]_vars => Shape'
<1>1. ASSUME Shape, Next PROVE Shape'
  BY <1>1, StoreSteps, DriverSteps, HandlerSteps, DaemonSteps, StoredSteps DEF Shape
<1>2. ASSUME Shape, UNCHANGED vars PROVE Shape'
  BY <1>2 DEF Shape, StoreShape, DriverShape, HandlerShape, DaemonShape, RunsStored
<1> QED BY <1>1, <1>2

\* What is sound has its type.
LEMMA ShapeIsType == Shape => TypeOK
BY CopyFacts DEF Shape, StoreShape, DriverShape, HandlerShape, DaemonShape, TypeOK, Turns, Handlers, Drives

-----------------------------------------------------------------------------
(* No active run is forgotten. *)

\* Whoever makes a run active will dispatch it or is its drive, a drive leaves its run
\* only when it is not active or the store failed, and run_server takes up what a crash left.
LEMMA DrivenStep == Shape /\ Driven /\ [Next]_vars => Driven'
<1> SUFFICES ASSUME Shape, Driven, Next PROVE Driven'
  <2>1. ASSUME NEW r \in Runs, UNCHANGED vars, Cared(r) PROVE Cared(r)'
    BY <2>1 DEF Awaited, Cared
  <2>2. Driven /\ UNCHANGED vars => Driven'
    BY <2>1 DEF Driven
  <2> QED BY <2>2
<1> SUFFICES ASSUME up', NEW r \in Runs, row'[r].status \in Active PROVE Cared(r)'
  BY DEF Driven, Cared
<1> USE DEF Shape
<1>0. up /\ row[r].status \in Active => Cared(r) BY DEF Driven, Cared
<1>a. driver \in Drives /\ handler \in [Clients -> Handlers] /\ row \in [Runs -> Copies]
  BY DEF DriverShape, HandlerShape, StoreShape
<1>b. ASSUME NEW c \in Clients, handler[c].op # "dispatch", \A d \in Clients \ {c} : handler'[d] = handler[d],
             UNCHANGED <<up, driver, dispatched, abandoned>>, row'[r] = row[r]
      PROVE  Cared(r)'
  BY <1>0, <1>b DEF Cared, Awaited
<1>1. ASSUME NEW c \in Clients, NEW q \in Runs, Start(c, q) PROVE Cared(r)'
  <2>1. handler'[c].op = "dispatch" /\ handler'[c].run = q /\ \A d \in Clients \ {c} : handler'[d] = handler[d]
    BY <1>1, <1>a, HandleFacts, CopyFacts DEF Start
  <2>2. CASE r = q BY <2>1, <2>2 DEF Awaited, Cared
  <2>3. CASE r # q BY <2>1, <2>3, <1>1, <1>a, <1>b DEF Start
  <2> QED BY <2>2, <2>3
<1>2. ASSUME NEW c \in Clients, NEW q \in Runs, LoadForCancel(c, q) \/ LoadForResume(c, q) PROVE Cared(r)'
  <2>1. \A d \in Clients \ {c} : handler'[d] = handler[d]
    <3>1. row[q] \in Copies BY <1>a
    <3> QED BY <3>1, <1>2, <1>a, HandleFacts DEF LoadForCancel, LoadForResume
  <2>2. handler[c].op = "idle" /\ UNCHANGED <<up, driver, dispatched, abandoned, row>>
    <3>1. CASE LoadForCancel(c, q) BY <3>1 DEF LoadForCancel
    <3>2. CASE LoadForResume(c, q) BY <3>2 DEF LoadForResume
    <3> QED BY <1>2, <3>1, <3>2
  <2> QED BY <2>1, <2>2, <1>b
<1>3. ASSUME NEW c \in Clients, SaveCancel(c) PROVE Cared(r)'
  <2>1. \A d \in Clients \ {c} : handler'[d] = handler[d]
    BY <1>3, <1>a, HandleFacts DEF SaveCancel
  <2>2. /\ With(handler[c].copy, "Cancelled") \in Stored /\ handler[c].run \in Runs
        /\ With(handler[c].copy, "Cancelled").status = "Cancelled"
    <3>1. handler[c].copy \in Copies /\ handler[c].run \in Runs BY <1>3 DEF SaveCancel, HandlerShape, Copies
    <3> QED BY <3>1, CopyFacts
  <2>3. row'[r] = row[r]
    BY <1>3, <2>2, SaveFacts DEF SaveCancel
  <2> QED BY <2>1, <2>3, <1>b, <1>3 DEF SaveCancel
<1>4. ASSUME NEW c \in Clients, SaveResume(c) \/ Reactivate(c) PROVE Cared(r)'
  <2>1. With(handler[c].copy, "Running") \in Stored /\ handler[c].run \in Runs
    BY <1>4, CopyFacts DEF SaveResume, Reactivate, HandlerShape, Copies
  <2>2. /\ handler'[c].op = "dispatch" /\ handler'[c].run = handler[c].run
        /\ \A d \in Clients \ {c} : handler'[d] = handler[d]
    BY <1>4, <1>a, <2>1, HandleFacts, CopyFacts DEF SaveResume, Reactivate
  <2>3. CASE r = handler[c].run BY <2>2, <2>3 DEF Awaited, Cared
  <2>4. CASE r # handler[c].run
    <3>1. row'[r] = row[r]
      BY <1>4, <1>a, <2>1, <2>4, SaveFacts DEF SaveResume, Reactivate
    <3> QED BY <1>4, <2>2, <3>1, <1>b DEF SaveResume, Reactivate
  <2> QED BY <2>3, <2>4
<1>5. ASSUME NEW c \in Clients, RefuseResume(c) \/ Dispatch(c) PROVE Cared(r)'
  <2>1. \A d \in Clients \ {c} : handler'[d] = handler[d]
    BY <1>5, <1>a, HandleFacts DEF RefuseResume, Dispatch
  <2> QED BY <2>1, <1>0, <1>5 DEF RefuseResume, Dispatch, Awaited, Cared
<1>6. ASSUME NEW q \in Runs, TakeDriverLock(q) PROVE Cared(r)'
  <2>1. driver'.run = q /\ driver'.at = "load" /\ driver.run = None
    BY <1>6 DEF TakeDriverLock
  <2> QED BY <2>1, <1>0, <1>6 DEF TakeDriverLock, Awaited, Cared
<1>7. CASE LoadStep
  <2>1. CASE Leave BY <2>1, <1>0, <1>7 DEF LoadStep, Awaited, Cared, Leave
  <2>2. CASE ~Leave BY <2>2, <1>a, <1>0, <1>7 DEF LoadStep, Awaited, Cared, AllAnswered, Drives
  <2> QED BY <2>1, <2>2
<1>8. CASE \/ PrepareWorkspace \/ CheckCancelled("check", "idle?") \/ CheckCancelled("wait", "answer?")
           \/ NoticeCancel \/ StepFails \/ TurnCompletes \/ RetryAction \/ PausePermission
           \/ Ask \/ AcceptAnswer \/ RevalidateAndAccept \/ TaskActive \/ TaskIdle
  <2> USE <1>8 DEF PrepareWorkspace, CheckCancelled, NoticeCancel, StepFails, TurnCompletes,
        RetryAction, PausePermission, Ask, AcceptAnswer, RevalidateAndAccept, TaskActive, TaskIdle
  <2>1. driver.at \in Working /\ UNCHANGED <<dispatched, handler, up>>
    OBVIOUS
  <2>2. \E at \in Asking \cup {"load", "failed"} : GoTo(at) \/ \E w \in Copies : Hold(at, w)
    <3>1. With(driver.copy, "Running") \in Copies /\ With(driver.copy, "WaitingThread") \in Copies
      BY <2>1, DriverFacts, CopyFacts DEF Copies
    <3> QED BY <3>1
  <2>3. driver'.run = driver.run /\ driver'.at \in Asking \cup {"load", "failed"} /\ UNCHANGED abandoned
    BY <2>2, <1>a, MoveFacts
  <2>4. \/ UNCHANGED row
        \/ driver.run \in Runs /\ \E next \in Stored : Save(driver.run, next)
    <3>1. driver.run \in Runs /\ driver.copy \in Stored /\ driver.copy \in Copies
      BY <2>1, DriverFacts
    <3>2. With(driver.copy, "Running") \in Stored /\ With(driver.copy, "WaitingThread") \in Stored /\ With(driver.copy, "PausedUserAction") \in Stored
          /\ Blocked(driver.copy, "answer") \in Stored 
      BY <3>1, CopyFacts
    <3>3. driver.at = "apply" => Advanced(driver.copy) \in Stored
      BY <3>1, CopyFacts DEF DriverShape
    <3>4. driver.at = "accept" => With(driver.copy, "Accepted") \in Stored
      BY <3>1, CopyFacts DEF DriverShape
    <3> QED BY <3>1, <3>2, <3>3, <3>4
  <2>5. r # driver.run => row'[r] = row[r]
    BY <2>4, SaveFacts
  <2> HIDE <1>8
  <2> QED BY <1>0, <2>1, <2>3, <2>5 DEF Cared, Awaited
<1>9. CASE LoadAfterError \/ LoadExhausted
  <2>1. row[driver.run] \in Copies
    BY <1>9, <1>a DEF LoadAfterError, LoadExhausted, DriverShape
  <2>2. UNCHANGED <<dispatched, handler, up, row, abandoned>>
    BY <1>9 DEF LoadAfterError, LoadExhausted, Hold, Leave
  <2>3. \/ driver' = NoDriver /\ row[driver.run].status \notin Active
        \/ driver'.run = driver.run /\ driver'.copy = row[driver.run]
    BY <1>9, <2>1, <1>a, MoveFacts DEF LoadAfterError, LoadExhausted
  <2> QED BY <1>0, <1>9, <2>2, <2>3 DEF LoadAfterError, LoadExhausted, Cared, Awaited
<1>11. CASE SaveError \/ SaveExhausted
  <2>1. driver.run \in Runs /\ driver.copy \in Stored /\ driver.copy \in Copies
    BY <1>11, DriverFacts DEF SaveError, SaveExhausted
  <2>2. \/ UNCHANGED row /\ driver.copy.status \notin Active
        \/ \E next \in Stored : Save(driver.run, next) /\ next.status \notin Active
    <3>1. /\ With(driver.copy, "PausedUserAction") \in Stored
          /\ With(driver.copy, "PausedUserAction").status = "PausedUserAction"
          /\ With(driver.copy, "IncompatibleCodex") \in Stored
          /\ With(driver.copy, "IncompatibleCodex").status = "IncompatibleCodex"
          /\ Blocked(driver.copy, "error") \in Stored
          /\ Blocked(driver.copy, "error").status = "Blocked"
      BY <2>1, CopyFacts
    <3> QED BY <1>11, <3>1 DEF SaveError, SaveExhausted
  <2>3. \/ UNCHANGED row /\ driver.copy.status \notin Active
        \/ r # driver.run /\ row'[r] = row[r]
    BY <2>1, <2>2, SaveFacts
  <2> QED BY <1>0, <1>11, <2>3, MoveFacts, <1>a DEF SaveError, SaveExhausted, Cared, Awaited
<1>12. CASE StoreFails BY <1>12, <1>0 DEF StoreFails, Cared, Awaited
<1>13. CASE Crash BY <1>13 DEF Crash
<1>14. CASE Restart BY <1>14 DEF Restart, Dispatchable, Cared, Awaited
<1> QED
  BY <1>1, <1>2, <1>3, <1>4, <1>5, <1>6, <1>7, <1>8, <1>9, <1>11, <1>12, <1>13, <1>14
  DEF Next, Request, Respond, Drive

-----------------------------------------------------------------------------
(* Copies, however old, never run ahead of the turns. *)

\* What a copy of the row of r may become: as old as a copy that exists.
\* A step that changes no turn saves, or loads, what was known before.
LEMMA RowMoves ==
  ASSUME Shape, CopiesBehind, Next, UNCHANGED turn, NEW r \in Runs,
         ~AcceptAnswer, \A c \in Clients : ~Reactivate(c)
  PROVE  row'[r] = row[r] \/ (row'[r].cause # "answer" /\ Answered(r, row'[r].answers))
<1> DEFINE Goal == row'[r] = row[r] \/ (row'[r].cause # "answer" /\ Answered(r, row'[r].answers))
<1> USE DEF Shape
<1>0. StoreShape OBVIOUS
<1>1. ASSUME NEW q \in Runs, NEW next \in Stored, Save(q, next), next.cause # "answer", Answered(q, next.answers)
      PROVE  Goal
  BY <1>0, <1>1, SaveFacts
<1>2. ASSUME NEW c \in Clients, NEW q \in Runs, Start(c, q) PROVE Goal
  <2>1. With(NoRow, "Running").answers = 0 /\ With(NoRow, "Running").cause = "none"
    BY CopyFacts
  <2>2. Answered(q, 0) BY DEF Answered
  <2> QED BY <1>0, <1>2, <2>1, <2>2 DEF Start, StoreShape
<1>3. ASSUME NEW c \in Clients, SaveCancel(c) \/ SaveResume(c) PROVE Goal
  <2>1. handler[c].copy \in Copies /\ handler[c].run \in Runs /\ Answered(handler[c].run, handler[c].copy.answers)
    BY <1>3 DEF SaveCancel, SaveResume, HandlerShape, Copies, CopiesBehind
  <2>2. \A st \in {"Cancelled", "Running"} :
          /\ With(handler[c].copy, st) \in Stored /\ With(handler[c].copy, st).cause # "answer"
          /\ Answered(handler[c].run, With(handler[c].copy, st).answers)
    BY <2>1, CopyFacts
  <2> QED BY <1>1, <1>3, <2>1, <2>2 DEF SaveCancel, SaveResume
<1>4. CASE \/ PrepareWorkspace \/ PausePermission \/ RevalidateAndAccept \/ TaskActive \/ TaskIdle
           \/ SaveError \/ SaveExhausted
  <2> USE <1>4 DEF PrepareWorkspace, PausePermission, RevalidateAndAccept, TaskActive, TaskIdle, SaveError, SaveExhausted
  <2>1. driver.at \notin {"idle", "load"} OBVIOUS
  <2>2. driver.run \in Runs /\ driver.copy \in Stored /\ driver.copy \in Copies /\ Answered(driver.run, driver.copy.answers)
    BY <2>1, DriverFacts DEF CopiesBehind
  <2>3. \A st \in Status : With(driver.copy, st).cause # "answer" /\ Answered(driver.run, With(driver.copy, st).answers)
    BY <2>2, CopyFacts
  <2>4. \A st \in Status \ {"Accepted", "None"} : With(driver.copy, st) \in Stored
    BY <2>2, CopyFacts
  <2>5. driver.at = "accept" => With(driver.copy, "Accepted") \in Stored
    BY <2>2, CopyFacts DEF DriverShape
  <2>6. /\ Blocked(driver.copy, "error") \in Stored /\ Blocked(driver.copy, "error").cause # "answer"
        /\ Answered(driver.run, Blocked(driver.copy, "error").answers)
    BY <2>2, CopyFacts
  <2>7. driver.at \in Working => driver.copy.cause # "answer"
    BY <2>2, DriverFacts DEF Stored
  <2>8. \/ UNCHANGED row
        \/ \E next \in Stored : Save(driver.run, next) /\ next.cause # "answer" /\ Answered(driver.run, next.answers)
    BY <2>2, <2>3, <2>4, <2>5, <2>6, <2>7
  <2> QED BY <1>1, <2>2, <2>8
<1>5. CASE UNCHANGED row BY <1>5
<1> QED
  BY <1>2, <1>3, <1>4, <1>5
  DEF Next, Request, Respond, Drive, LoadForCancel, LoadForResume, RefuseResume, Dispatch,
      TakeDriverLock, LoadStep, CheckCancelled, NoticeCancel, Ask, TurnCompletes, RetryAction,
      StepFails, LoadAfterError, LoadExhausted, StoreFails, Crash, Restart

\* After a step the drive has its old run and copy, that copy with another status, or a
\* row it has just loaded, or it has left.
LEMMA DriverMoves ==
  ASSUME Shape, Next
  PROVE  \/ driver'.at = "idle" \/ driver'.copy.answers = 0
         \/ driver'.run = driver.run /\ driver.at # "idle" /\ driver'.copy.answers = driver.copy.answers
         \/ driver'.run = driver.run /\ driver.at # "idle" /\ driver'.copy = row[driver.run]
<1> USE DEF Shape
<1>0. driver \in Drives BY DEF DriverShape
<1>1. CASE TaskActive \/ TaskIdle
  <2>1. driver.at = "idle?" BY <1>1 DEF TaskActive, TaskIdle
  <2>2. driver.copy \in Copies BY <2>1, DriverFacts
  <2>3. PICK st \in Active, at \in {"idle?", "ask"} : Hold(at, With(driver.copy, st))
    BY <1>1 DEF TaskActive, TaskIdle
  <2>4. With(driver.copy, st).answers = driver.copy.answers
    BY <2>2, CopyFacts
  <2> QED BY <1>0, <2>1, <2>3, <2>4 DEF Hold, Drives
<1>2. CASE \E r \in Runs : TakeDriverLock(r) BY <1>2 DEF TakeDriverLock
<1>3. CASE LoadStep
  <2>1. CASE Leave BY <2>1 DEF Leave
  <2>2. CASE ~Leave BY <1>0, <1>3, <2>2 DEF LoadStep, AllAnswered, Drives
  <2> QED BY <2>1, <2>2
<1>4. CASE LoadAfterError \/ LoadExhausted
  <2>1. row[driver.run] \in Copies
    BY <1>4 DEF LoadAfterError, LoadExhausted, DriverShape, StoreShape
  <2> QED BY <1>0, <1>4, <2>1, MoveFacts DEF LoadAfterError, LoadExhausted
<1>5. CASE driver.at # "idle" /\ \E at \in Places : GoTo(at)
  BY <1>0, <1>5 DEF GoTo, Drives
<1>6. CASE driver' = NoDriver \/ driver' = driver
  BY <1>6
<1> QED
  BY <1>1, <1>2, <1>3, <1>4, <1>5, <1>6
  DEF Next, Request, Respond, Drive, Start, LoadForCancel, LoadForResume, SaveCancel, SaveResume,
      Reactivate, RefuseResume, Dispatch, PrepareWorkspace, CheckCancelled, NoticeCancel, Ask,
      TurnCompletes, RetryAction, PausePermission, AcceptAnswer, RevalidateAndAccept, StepFails,
      SaveError, SaveExhausted, StoreFails, Leave, Crash, Restart

\* After a step a handler has its old copy, a row it has just loaded, or none.
LEMMA HandlerMoves ==
  ASSUME Shape, Next, NEW d \in Clients
  PROVE  \/ handler'[d] = handler[d] \/ handler'[d].copy = NoRow
         \/ handler'[d].run \in Runs /\ handler'[d].copy = row[handler'[d].run] /\ UNCHANGED row
<1> USE DEF Shape
<1> DEFINE Goal == \/ handler'[d] = handler[d] \/ handler'[d].copy = NoRow
                   \/ handler'[d].run \in Runs /\ handler'[d].copy = row[handler'[d].run] /\ UNCHANGED row
<1>0. handler \in [Clients -> Handlers] BY DEF HandlerShape
<1>1. ASSUME NEW c \in Clients, NEW r \in Runs, NEW op \in {"cancel", "resume", "dispatch"}, NEW w \in Copies,
             Handle(c, op, r, w), w = NoRow \/ (w = row[r] /\ UNCHANGED row)
      PROVE  Goal
  BY <1>0, <1>1, HandleFacts
<1>2. ASSUME NEW c \in Clients, NEW r \in Runs, Start(c, r) PROVE Goal
  BY <1>1, <1>2, CopyFacts DEF Start
<1>3. ASSUME NEW c \in Clients, NEW r \in Runs, LoadForCancel(c, r) \/ LoadForResume(c, r) PROVE Goal
  <2>1. row[r] \in Copies BY DEF StoreShape
  <2>2. CASE LoadForCancel(c, r) BY <1>1, <2>1, <2>2 DEF LoadForCancel
  <2>3. CASE LoadForResume(c, r) BY <1>1, <2>1, <2>3 DEF LoadForResume
  <2> QED BY <1>3, <2>2, <2>3
<1>4. ASSUME NEW c \in Clients, SaveResume(c) \/ Reactivate(c) PROVE Goal
  <2>1. handler[c].run \in Runs BY <1>4 DEF HandlerShape, SaveResume, Reactivate
  <2> QED BY <1>1, <1>4, <2>1, CopyFacts DEF SaveResume, Reactivate
<1>5. ASSUME NEW c \in Clients, EndRequest(c) PROVE Goal
  BY <1>0, <1>5, HandleFacts
<1>6. CASE Crash BY <1>6 DEF Crash
<1>7. CASE UNCHANGED handler BY <1>7
<1> QED
  BY <1>2, <1>3, <1>4, <1>5, <1>6, <1>7
  DEF Next, Request, Respond, Drive, SaveCancel, RefuseResume, Dispatch, TakeDriverLock, LoadStep,
      PrepareWorkspace, CheckCancelled, NoticeCancel, TaskActive, TaskIdle, Ask, TurnCompletes,
      RetryAction, PausePermission, AcceptAnswer, RevalidateAndAccept, StepFails, LoadAfterError,
      SaveError, LoadExhausted, SaveExhausted, StoreFails, Restart

\* What such a step keeps: the turns are in order and every copy is behind them.
LEMMA QuietOrder ==
  ASSUME Shape, Shape', Order, Next, UNCHANGED turn, ~AcceptAnswer, \A c \in Clients : ~Reactivate(c)
  PROVE  TurnOrder' /\ CopiesBehind' /\ BlockedByAnswer'
<1> USE DEF Order
<1>1. \A r \in Runs : row'[r] = row[r] \/ (row'[r].cause # "answer" /\ Answered(r, row'[r].answers))
  BY RowMoves
<1>2. \A r \in Runs : \A k : Answered(r, k)' <=> Answered(r, k)
  BY DEF Answered
<1>3. TurnOrder'
  BY <1>2 DEF TurnOrder, Answered
<1>4. \A r \in Runs : Answered(r, 0) BY DEF Answered
<1>5. /\ \A r \in Runs : row[r].answers \in 0..Last /\ row'[r].answers \in 0..Last
      /\ driver.at # "idle" => driver.run \in Runs /\ driver.copy.answers \in 0..Last
      /\ driver'.at # "idle" => driver'.run \in Runs /\ driver'.copy.answers \in 0..Last
      /\ \A c \in Clients : handler[c].op # "idle" => handler[c].run \in Runs /\ handler[c].copy.answers \in 0..Last
      /\ \A c \in Clients : handler'[c].op # "idle" => handler'[c].run \in Runs /\ handler'[c].copy.answers \in 0..Last
  BY CopyFacts DEF Shape, StoreShape, DriverShape, HandlerShape, Drives, Handlers
<1>6. CopiesBehind'
  <2>1. \A r \in Runs : Answered(r, row'[r].answers)
    BY <1>1 DEF CopiesBehind
  <2>2. driver'.at # "idle" => Answered(driver'.run, driver'.copy.answers)
    BY <1>4, <1>5, DriverMoves DEF CopiesBehind
  <2>3. \A c \in Clients : handler'[c].op # "idle" => Answered(handler'[c].run, handler'[c].copy.answers)
    BY <1>4, <1>5, HandlerMoves DEF CopiesBehind
  <2> QED BY <2>1, <2>2, <2>3, <1>2, <1>5 DEF CopiesBehind
<1>7. BlockedByAnswer'
  <2> SUFFICES ASSUME NEW r \in Runs, row'[r].cause = "answer"
               PROVE  /\ \A n \in 0..Last : n > row'[r].answers => turn'[r][n] = "none"
                      /\ driver'.run = r => driver'.copy.answers <= row'[r].answers
                      /\ \A c \in Clients : handler'[c].run = r => handler'[c].copy.answers <= row'[r].answers
    BY DEF BlockedByAnswer
  <2>1. row'[r] = row[r] BY <1>1
  <2>2. driver'.run = r => driver'.copy.answers <= row'[r].answers
    BY <1>5, <2>1, DriverMoves DEF BlockedByAnswer, Shape, DriverShape
  <2>3. ASSUME NEW c \in Clients, handler'[c].run = r PROVE handler'[c].copy.answers <= row'[r].answers
    BY <1>5, <2>1, <2>3, HandlerMoves DEF BlockedByAnswer, Shape, HandlerShape
  <2> QED BY <2>1, <2>2, <2>3 DEF BlockedByAnswer
<1> QED BY <1>3, <1>6, <1>7

\* Handlers never block a run, and drive leaves its work when it has.
LEMMA WorkUndisturbed ==
  ASSUME Shape, Shape', Order, Next, driver'.at \in Working
  PROVE  row'[driver'.run].status # "Blocked"
<1> USE DEF Shape
<1> DEFINE Goal == row'[driver'.run].status # "Blocked"
<1>0. StoreShape /\ driver \in Drives BY DEF DriverShape
<1>1. ASSUME driver.at \in Working PROVE row[driver.run].status # "Blocked" /\ driver.run \in Runs
  BY <1>1, DriverFacts DEF Order, DriveUndisturbed
<1>2. ASSUME UNCHANGED driver, UNCHANGED row PROVE Goal
  BY <1>1, <1>2
<1>3. ASSUME NEW c \in Clients, NEW r \in Runs, Start(c, r) PROVE Goal
  <2>1. With(NoRow, "Running").status = "Running" BY CopyFacts
  <2> QED BY <1>0, <1>1, <1>3, <2>1 DEF Start, StoreShape
<1>4. ASSUME NEW c \in Clients, SaveCancel(c) \/ SaveResume(c) \/ Reactivate(c) PROVE Goal
  <2>1. handler[c].run \in Runs /\ handler[c].copy \in Copies
    BY <1>4 DEF SaveCancel, SaveResume, Reactivate, HandlerShape, Copies
  <2>2. \A st \in {"Cancelled", "Running"} :
          With(handler[c].copy, st) \in Stored /\ With(handler[c].copy, st).status = st
    BY <2>1, CopyFacts
  <2>3. \A r \in Runs : row'[r] = row[r] \/ row'[r].status # "Blocked"
    <3>1. CASE SaveCancel(c) BY <1>0, <2>1, <2>2, <3>1, SaveFacts DEF SaveCancel
    <3>2. CASE SaveResume(c) BY <1>0, <2>1, <2>2, <3>2, SaveFacts DEF SaveResume
    <3>3. CASE Reactivate(c) BY <1>0, <2>1, <2>2, <3>3 DEF Reactivate, StoreShape
    <3> QED BY <1>4, <3>1, <3>2, <3>3
  <2> QED BY <1>1, <1>4, <2>3 DEF SaveCancel, SaveResume, Reactivate
<1>5. CASE LoadStep
  <2>1. CASE Leave BY <2>1 DEF Leave
  <2>2. CASE ~Leave BY <1>0, <1>5, <2>2 DEF LoadStep, Drives
  <2> QED BY <2>1, <2>2
<1>6. CASE TaskActive \/ TaskIdle
  <2>1. driver.at = "idle?" /\ driver.copy \in Copies /\ driver.run \in Runs
    BY <1>6, DriverFacts DEF TaskActive, TaskIdle
  <2>2. \A st \in Active : With(driver.copy, st) \in Stored /\ With(driver.copy, st).status = st
    BY <2>1, CopyFacts
  <2>3. driver'.run = driver.run
    <3>1. \A st \in Active : With(driver.copy, st) \in Copies BY <2>2 DEF Copies
    <3> QED BY <1>0, <1>6, <3>1, MoveFacts DEF TaskActive, TaskIdle
  <2>4. row' = row \/ row'[driver.run].status \in Active
    BY <1>0, <1>6, <2>1, <2>2, SaveFacts DEF TaskActive, TaskIdle
  <2> QED BY <1>1, <2>1, <2>3, <2>4
<1>7. CASE PrepareWorkspace
  <2>1. driver.at = "step" /\ driver.copy \in Stored /\ driver.run \in Runs /\ driver.copy.status \in Active
    BY <1>7, DriverFacts DEF PrepareWorkspace
  <2>2. driver'.run = driver.run
    BY <1>0, <1>7, MoveFacts DEF PrepareWorkspace
  <2>3. row' = row \/ row'[driver.run].status \in Active
    BY <1>0, <1>7, <2>1, SaveFacts DEF PrepareWorkspace
  <2> QED BY <1>1, <2>1, <2>2, <2>3
<1>8. ASSUME driver.at \in Working, UNCHANGED row, NEW at \in Places, GoTo(at) PROVE Goal
  BY <1>0, <1>1, <1>8, MoveFacts
<1>9. ASSUME NEW at \in {"idle", "load", "failed", "report", "exhausted"}, driver'.at = at PROVE Goal
  BY <1>9
<1>10. ASSUME NEW at \in {"load", "failed"}, GoTo(at) PROVE Goal
  BY <1>0, <1>9, <1>10, MoveFacts
<1>11. CASE (\E r \in Runs : TakeDriverLock(r)) \/ Leave \/ driver' = NoDriver
  <2>1. ASSUME NEW r \in Runs, TakeDriverLock(r) PROVE driver'.at = "load"
    BY <2>1 DEF TakeDriverLock
  <2>2. driver' = NoDriver => driver'.at = "idle" OBVIOUS
  <2> QED BY <1>9, <1>11, <2>1, <2>2 DEF Leave
<1>12. CASE LoadAfterError \/ LoadExhausted
  <2>1. row[driver.run] \in Copies
    BY <1>12 DEF LoadAfterError, LoadExhausted, DriverShape, StoreShape
  <2> QED BY <1>0, <1>9, <1>12, <2>1, MoveFacts DEF LoadAfterError, LoadExhausted
<1> QED
  BY <1>2, <1>3, <1>4, <1>5, <1>6, <1>7, <1>8, <1>10, <1>11, <1>12
  DEF Next, Request, Respond, Drive, LoadForCancel, LoadForResume, RefuseResume, Dispatch,
      CheckCancelled, NoticeCancel, Ask,
      TurnCompletes, RetryAction, PausePermission, AcceptAnswer, RevalidateAndAccept, StepFails,
      SaveError, SaveExhausted, StoreFails, Crash, Restart

\* The pending turn is the last one there is, and no copy is beyond it.
LEMMA OpenIsLast ==
  ASSUME Shape, TurnOrder, NEW r \in Runs, NEW n \in 0..Last, turn[r][n] = "open"
  PROVE  /\ Answered(r, n)
         /\ \A m \in 0..Last : m > n => turn[r][m] = "none"
         /\ \A k \in 0..Last : Answered(r, k) => k <= n
<1>1. \A m \in 0..Last : turn[r][m] \in {"none", "open", "accepted"}
  BY DEF Shape, StoreShape, Turns
<1> QED BY <1>1 DEF TurnOrder, Answered

\* record_pending_send: the request of the copy is the next one.
LEMMA AskOrder ==
  ASSUME Shape, Shape', Order, Ask
  PROVE  Order'
<1> USE DEF Shape, Order
<1>0. driver \in Drives /\ turn \in Turns BY DEF DriverShape, StoreShape
<1>1. driver.run \in Runs /\ driver.copy.answers \in 0..Last /\ Answered(driver.run, driver.copy.answers)
  BY DriverFacts, CopyFacts DEF Ask, CopiesBehind
<1> DEFINE q == driver.run
           k == driver.copy.answers
<1>2. UNCHANGED <<row, handler>> /\ driver'.run = driver.run /\ driver'.copy = driver.copy
      /\ driver'.at \in {"wait", "failed"}
  BY <1>0, MoveFacts DEF Ask
<1>3. \A s \in Runs, m \in 0..Last :
        turn'[s][m] = turn[s][m] \/ (s = q /\ m = k /\ turn[s][m] = "none" /\ turn'[s][m] = "open")
  BY <1>0, <1>1, TurnFacts DEF Ask, Opens, Open
<1>4. driver'.at = "wait" => turn'[q][k] = "open"
  <2>1. driver'.at = "wait" => turn'= [turn EXCEPT ![q][k] = "open"] \/ (turn' = turn /\ k \in Open(q))
    BY <1>0, MoveFacts DEF Ask
  <2> QED BY <2>1, <1>0, <1>1, TurnFacts DEF Open
<1>5. \A s \in Runs, j \in 0..Last : Answered(s, j) => Answered(s, j)'
  BY <1>3 DEF Answered
<1>6. TurnOrder'
  BY <1>1, <1>3, <1>5 DEF TurnOrder
<1>7. CopiesBehind'
  <2>1. /\ \A s \in Runs : row[s].answers \in 0..Last
        /\ \A c \in Clients : handler[c].op # "idle" => handler[c].run \in Runs /\ handler[c].copy.answers \in 0..Last
    BY CopyFacts DEF StoreShape, HandlerShape, Handlers
  <2> QED BY <2>1, <1>1, <1>2, <1>5 DEF CopiesBehind, Ask
<1>8. BlockedByAnswer'
  BY <1>1, <1>2, <1>3 DEF BlockedByAnswer, DriveUndisturbed, StoreShape, Copies, Stored, Ask
<1>9. DriveUndisturbed'
  BY <1>2, <1>4 DEF DriveUndisturbed, Ask
<1> QED BY <1>6, <1>7, <1>8, <1>9

\* accept_response_and_advance: the turn that is accepted is the one the copy waits for.
LEMMA AcceptOrder ==
  ASSUME Shape, Shape', Order, AcceptAnswer
  PROVE  Order'
<1> USE DEF Shape, Order
<1>0. driver \in Drives /\ turn \in Turns BY DEF DriverShape, StoreShape
<1> DEFINE q == driver.run
           k == driver.copy.answers
<1>1. /\ q \in Runs /\ driver.copy \in Stored /\ k \in 0..Last /\ k < Last /\ driver.copy.cause = "none"
      /\ turn[q][k] = "open"
  BY DriverFacts, CopyFacts DEF AcceptAnswer, DriveUndisturbed, DriverShape, Stored
<1>2. /\ Answered(q, k)
      /\ \A m \in 0..Last : m > k => turn[q][m] = "none"
      /\ \A j \in 0..Last : Answered(q, j) => j <= k
  BY <1>1, OpenIsLast
<1>3. \A n \in Open(q) : n = k
  BY <1>1, <1>2, OpenIsLast DEF Open
<1>4. Open(q) # {} BY <1>1 DEF Open
<1>5. /\ UNCHANGED <<handler, dispatched>> /\ driver'.run = q /\ driver'.copy = driver.copy /\ driver'.at = "load"
      /\ turn' = [turn EXCEPT ![q][k] = "accepted"]
      /\ \/ Save(q, Advanced(driver.copy))
         \/ Save(q, Blocked(driver.copy, "answer"))
  BY <1>0, <1>3, <1>4, MoveFacts DEF AcceptAnswer
<1>6. \A s \in Runs, m \in 0..Last : turn'[s][m] = IF s = q /\ m = k THEN "accepted" ELSE turn[s][m]
  BY <1>0, <1>1, <1>5, TurnFacts
<1>7. /\ \A s \in Runs \ {q} : row'[s] = row[s]
      /\ \/ row'[q].cause # "answer" /\ row'[q].answers = k + 1
         \/ row'[q].answers = k
  <2>1. /\ Advanced(driver.copy) \in Stored /\ Blocked(driver.copy, "answer") \in Stored
        /\ Advanced(driver.copy).answers = k + 1 /\ Advanced(driver.copy).cause = "none"
        /\ Blocked(driver.copy, "answer").answers = k
    BY <1>1, CopyFacts, DriverFacts DEF AcceptAnswer
  <2> QED BY <1>1, <1>5, <2>1, SaveFacts
<1>8. \A s \in Runs, j \in 0..Last : Answered(s, j) => Answered(s, j)'
  BY <1>6 DEF Answered
<1>9. \A j \in 0..Last : j = k + 1 => Answered(driver.run, j)'
  BY <1>1, <1>2, <1>5, <1>6 DEF Answered
<1>10. TurnOrder'
  BY <1>1, <1>2, <1>6, <1>8 DEF TurnOrder
<1>11. /\ \A s \in Runs : row[s].answers \in 0..Last
       /\ \A c \in Clients : handler[c].op # "idle" => handler[c].run \in Runs /\ handler[c].copy.answers \in 0..Last
       /\ \A c \in Clients : handler[c].run \in Runs => handler[c].op # "idle"
  BY CopyFacts DEF StoreShape, HandlerShape, Handlers
<1>12. CopiesBehind'
  BY <1>1, <1>2, <1>5, <1>7, <1>8, <1>9, <1>11 DEF CopiesBehind
<1>13. BlockedByAnswer'
  <2>1. ASSUME NEW s \in Runs, s # q, row'[s].cause = "answer"
        PROVE  /\ \A n \in 0..Last : n > row'[s].answers => turn'[s][n] = "none"
               /\ \A c \in Clients : handler'[c].run = s => handler'[c].copy.answers <= row'[s].answers
    BY <2>1, <1>5, <1>6, <1>7 DEF BlockedByAnswer
  <2>2. ASSUME row'[q].cause = "answer"
        PROVE  /\ \A n \in 0..Last : n > row'[q].answers => turn'[q][n] = "none"
               /\ driver'.copy.answers <= row'[q].answers
               /\ \A c \in Clients : handler'[c].run = q => handler'[c].copy.answers <= row'[q].answers
    BY <2>2, <1>1, <1>2, <1>5, <1>6, <1>7, <1>11 DEF CopiesBehind
  <2> QED BY <2>1, <2>2, <1>5 DEF BlockedByAnswer
<1>14. DriveUndisturbed'
  BY <1>5 DEF DriveUndisturbed
<1> QED BY <1>10, <1>12, <1>13, <1>14

\* The reactivate_blocked_run_... transactions: the turn that is asked again is the last.
LEMMA ReactivateOrder ==
  ASSUME Shape, Shape', Order, NEW c \in Clients, Reactivate(c)
  PROVE  Order'
<1> USE DEF Shape, Order
<1> DEFINE q == handler[c].run
           k == handler[c].copy.answers
<1>0. handler \in [Clients -> Handlers] /\ turn \in Turns /\ row \in [Runs -> Copies]
  BY DEF HandlerShape, StoreShape
<1>1. /\ q \in Runs /\ handler[c].copy \in Copies /\ k \in 0..Last
      /\ row[q] = handler[c].copy /\ Answered(q, k)
  BY CopyFacts DEF Reactivate, HandlerShape, CopiesBehind, Handlers
<1>2. /\ row' = [row EXCEPT ![q] = With(handler[c].copy, "Running")]
      /\ turn' = [turn EXCEPT ![q][k] = "open"] /\ UNCHANGED driver
      /\ Handle(c, "dispatch", q, NoRow)
  BY DEF Reactivate
<1>3. /\ handler'[c].run = q /\ handler'[c].copy = NoRow /\ handler'[c].op = "dispatch"
      /\ \A d \in Clients \ {c} : handler'[d] = handler[d]
  BY <1>0, <1>1, <1>2, HandleFacts, CopyFacts
<1>4. /\ \A s \in Runs \ {q} : row'[s] = row[s]
      /\ row'[q].answers = k /\ row'[q].cause = "none"
  BY <1>0, <1>1, <1>2, CopyFacts
<1>5. \A s \in Runs, m \in 0..Last : turn'[s][m] = IF s = q /\ m = k THEN "open" ELSE turn[s][m]
  BY <1>0, <1>1, <1>2 DEF Turns
<1>6. \A m \in 0..Last : m > k => turn[q][m] = "none"
  <2>1. CASE row[q].cause = "answer" BY <2>1, <1>1 DEF BlockedByAnswer
  <2>2. CASE turn[q][k] = "open" BY <2>2, <1>1, OpenIsLast
  <2> QED BY <2>1, <2>2, <1>1 DEF Reactivate, Retried
<1>7. TurnOrder'
  BY <1>1, <1>5, <1>6 DEF TurnOrder, Answered
<1>8. /\ driver.run = q => driver.at # "idle" /\ driver.copy.answers \in 0..Last /\ driver.copy.answers <= k
      /\ \A d \in Clients : handler[d].run = q => handler[d].op # "idle" /\ handler[d].copy.answers \in 0..Last /\ handler[d].copy.answers <= k
  <2>1. /\ driver.run = q => driver.at # "idle" /\ driver.copy.answers \in 0..Last
        /\ \A d \in Clients : handler[d].run = q => handler[d].op # "idle" /\ handler[d].copy.answers \in 0..Last
    BY <1>1, CopyFacts DEF DriverShape, HandlerShape, Drives, Handlers
  <2>2. CASE row[q].cause = "answer" BY <2>1, <2>2, <1>1 DEF BlockedByAnswer
  <2>3. CASE turn[q][k] = "open" BY <2>1, <2>3, <1>1, OpenIsLast DEF CopiesBehind
  <2> QED BY <2>2, <2>3, <1>1 DEF Reactivate, Retried
<1>9. \A s \in Runs, j \in 0..Last : Answered(s, j) /\ (s = q => j <= k) => Answered(s, j)'
  BY <1>1, <1>5 DEF Answered
<1>10. CopiesBehind'
  <2>1. \A s \in Runs : row'[s].answers = row[s].answers /\ row[s].answers \in 0..Last
    BY <1>0, <1>1, <1>4, CopyFacts
  <2>2. /\ driver.at # "idle" => driver.run \in Runs /\ driver.copy.answers \in 0..Last
        /\ \A d \in Clients : handler[d].op # "idle" =>
             handler[d].run \in Runs /\ handler[d].copy.answers \in 0..Last
    BY CopyFacts DEF DriverShape, HandlerShape, Drives, Handlers
  <2>3. \A s \in Runs : Answered(s, 0)' BY DEF Answered
  <2> QED BY <2>1, <2>2, <2>3, <1>1, <1>2, <1>3, <1>8, <1>9 DEF CopiesBehind
<1>11. BlockedByAnswer'
  BY <1>2, <1>3, <1>4, <1>5 DEF BlockedByAnswer
<1>12. DriveUndisturbed'
  <2>1. driver.at \in Working => driver.run \in Runs /\ driver.run # q
    BY <1>1, DriverFacts DEF DriveUndisturbed, Reactivate
  <2>2. driver.at \in Working => driver.copy.answers \in 0..Last
    BY DriverFacts, CopyFacts
  <2> QED BY <1>2, <1>4, <1>5, <2>1, <2>2 DEF DriveUndisturbed
<1> QED BY <1>7, <1>10, <1>11, <1>12

\* The pending turn stays as it is under a drive that waits for it.
LEMMA PendingStays ==
  ASSUME Shape, Order, Next, UNCHANGED turn, ~Ask, driver'.at \in {"wait", "answer?", "apply"}
  PROVE  turn'[driver'.run][driver'.copy.answers] = "open"
<1> USE DEF Shape
<1>0. driver \in Drives BY DEF DriverShape
<1>1. ASSUME NEW c \in Clients, Respond(c) PROVE UNCHANGED driver
  BY <1>1 DEF Respond, SaveCancel, SaveResume, Reactivate, RefuseResume, Dispatch
<1>2. CASE UNCHANGED driver
  BY <1>2 DEF Order, DriveUndisturbed
<1>3. CASE CheckCancelled("wait", "answer?") \/ TurnCompletes
  <2>1. driver.at \in {"wait", "answer?"} /\ driver'.run = driver.run /\ driver'.copy = driver.copy
    BY <1>0, <1>3, MoveFacts DEF CheckCancelled, TurnCompletes
  <2> QED BY <2>1 DEF Order, DriveUndisturbed
<1>4. ASSUME NEW at \in {"check", "idle?", "load", "failed"}, GoTo(at) PROVE FALSE
  BY <1>0, <1>4, MoveFacts
<1>5. CASE LoadStep
  <2>1. CASE Leave BY <2>1 DEF Leave
  <2>2. CASE ~Leave BY <1>0, <1>5, <2>2 DEF LoadStep, Drives
  <2> QED BY <2>1, <2>2
<1>6. ASSUME NEW r \in Runs, TakeDriverLock(r) PROVE FALSE
  BY <1>6 DEF TakeDriverLock
<1>7. CASE TaskActive \/ TaskIdle \/ LoadAfterError \/ LoadExhausted
  <2>1. \E at \in {"idle?", "ask", "report", "exhausted"} : \E w : Hold(at, w) \/ Leave
    BY <1>7 DEF TaskActive, TaskIdle, LoadAfterError, LoadExhausted
  <2>2. ASSUME NEW at \in {"idle?", "ask", "report", "exhausted"}, NEW w, Hold(at, w) PROVE FALSE
    BY <1>0, <2>2 DEF Hold, Drives
  <2> QED BY <2>1, <2>2 DEF Leave
<1>8. CASE driver' = NoDriver
  BY <1>8
<1> QED
  BY <1>1, <1>2, <1>3, <1>4, <1>5, <1>6, <1>7, <1>8
  DEF Next, Request, Drive, Start, LoadForCancel, LoadForResume, PrepareWorkspace,
      CheckCancelled, NoticeCancel, RetryAction, PausePermission, AcceptAnswer,
      RevalidateAndAccept, StepFails, SaveError, SaveExhausted, Leave, StoreFails, Crash, Restart

\* Every step keeps what copies, however old, have in common with the turns.
LEMMA OrderStep == Shape /\ Order /\ [Next]_vars => Order'
<1> SUFFICES ASSUME Shape, Order, [Next]_vars PROVE Order'
  OBVIOUS
<1>1. Shape' BY ShapeStep
<1>2. CASE Ask BY <1>1, <1>2, AskOrder
<1>3. CASE AcceptAnswer BY <1>1, <1>3, AcceptOrder
<1>4. ASSUME NEW c \in Clients, Reactivate(c) PROVE Order'
  BY <1>1, <1>4, ReactivateOrder
<1>5. CASE Next /\ ~Ask /\ ~AcceptAnswer /\ \A c \in Clients : ~Reactivate(c)
  <2>1. UNCHANGED turn
    BY <1>5
    DEF Next, Request, Respond, Drive, Start, LoadForCancel, LoadForResume, SaveCancel, SaveResume,
        RefuseResume, Dispatch, TakeDriverLock, LoadStep, PrepareWorkspace, CheckCancelled,
        NoticeCancel, TaskActive, TaskIdle, TurnCompletes, RetryAction, PausePermission,
        RevalidateAndAccept, StepFails, LoadAfterError, SaveError, LoadExhausted, SaveExhausted,
        StoreFails, Crash, Restart
  <2>2. TurnOrder' /\ CopiesBehind' /\ BlockedByAnswer' BY <1>1, <1>5, <2>1, QuietOrder
  <2>3. DriveUndisturbed'
    BY <1>1, <1>5, <2>1, WorkUndisturbed, PendingStays DEF DriveUndisturbed
  <2> QED BY <2>2, <2>3 DEF Order
<1>6. CASE UNCHANGED vars
  BY <1>6 DEF Order, TurnOrder, Answered, CopiesBehind, BlockedByAnswer, DriveUndisturbed
<1> QED BY <1>2, <1>3, <1>4, <1>5, <1>6

-----------------------------------------------------------------------------
(* Until requests overlap with other work on their run. *)

\* What drive leaves alone: the handlers, the bounds, and every run but its own.
LEMMA DriveKeeps ==
  ASSUME Shape, Drive
  PROVE  /\ up /\ UNCHANGED <<handler, up, bounds>>
         /\ \A r \in Runs : r # driver.run => row'[r] = row[r]
         /\ \/ UNCHANGED dispatched /\ (driver' = NoDriver \/ driver'.run = driver.run)
            \/ \E r \in Runs : TakeDriverLock(r)
<1> USE DEF Shape
<1>0. StoreShape /\ driver \in Drives BY DEF DriverShape
<1>1. up /\ UNCHANGED <<handler, up, bounds>>
  BY DEF Drive, TakeDriverLock, LoadStep, PrepareWorkspace, CheckCancelled, NoticeCancel, TaskActive,
      TaskIdle, Ask, TurnCompletes, RetryAction, PausePermission, AcceptAnswer, RevalidateAndAccept,
      StepFails, LoadAfterError, SaveError, LoadExhausted, SaveExhausted, StoreFails
<1>2. \/ UNCHANGED dispatched /\ (driver' = NoDriver \/ driver'.run = driver.run)
      \/ \E r \in Runs : TakeDriverLock(r)
  BY <1>0 DEF Drive, LoadStep, PrepareWorkspace, CheckCancelled, NoticeCancel, TaskActive,
      TaskIdle, Ask, TurnCompletes, RetryAction, PausePermission, AcceptAnswer, RevalidateAndAccept,
      StepFails, LoadAfterError, SaveError, LoadExhausted, SaveExhausted, StoreFails,
      GoTo, Hold, Leave, Drives
<1>3. ASSUME NEW r \in Runs, r # driver.run PROVE row'[r] = row[r]
  <2>1. UNCHANGED row \/ \E next : row' = [row EXCEPT ![driver.run] = next]
    BY DEF Drive, TakeDriverLock, LoadStep, PrepareWorkspace, CheckCancelled, NoticeCancel, TaskActive,
      TaskIdle, Ask, TurnCompletes, RetryAction, PausePermission, AcceptAnswer, RevalidateAndAccept,
      StepFails, LoadAfterError, SaveError, LoadExhausted, SaveExhausted, StoreFails, Save
  <2> QED BY <1>0, <1>3, <2>1 DEF StoreShape
<1> QED BY <1>1, <1>2, <1>3

\* driver_lock and the handlers: no run gets a second worker, no handler's copy gets stale.
LEMMA OneWorkerStep ==
  ASSUME Shape, Shape', OneWorker, Next, ~overlapped'
  PROVE  OneWorker'
<1> USE DEF Shape
<1>0. handler \in [Clients -> Handlers] /\ StoreShape /\ None \notin Runs BY DEF HandlerShape
<1>1. ASSUME NEW c \in Clients, NEW r \in Runs, Start(c, r) \/ LoadForCancel(c, r) \/ LoadForResume(c, r)
      PROVE  OneWorker'
  <2>1. Undisturbed(r) /\ UNCHANGED <<driver, dispatched>>
    BY <1>1 DEF Start, LoadForCancel, LoadForResume
  <2>2. \A s \in Runs : s # r => row'[s] = row[s]
    BY <1>0, <1>1 DEF Start, LoadForCancel, LoadForResume, StoreShape
  <2>3. /\ handler'[c].run = r /\ \A d \in Clients \ {c} : handler'[d] = NoRequest
        /\ handler'[c].op \in {"cancel", "resume"} => handler'[c].copy = row'[r]
        /\ handler'[c].op = "dispatch" => row'[r].status \in Active
    <3>1. CASE Start(c, r)
      <4>1. With(NoRow, "Running").status \in Active BY CopyFacts
      <4> QED BY <1>0, <2>1, <3>1, <4>1, HandleFacts, CopyFacts DEF Start, Undisturbed, StoreShape
    <3>2. CASE LoadForCancel(c, r) \/ LoadForResume(c, r)
      <4>1. row[r] \in Copies BY <1>0 DEF StoreShape
      <4>2. CASE LoadForCancel(c, r)
        BY <1>0, <2>1, <4>1, <4>2, HandleFacts DEF LoadForCancel, Undisturbed
      <4>3. CASE LoadForResume(c, r)
        BY <1>0, <2>1, <4>1, <4>3, HandleFacts DEF LoadForResume, Undisturbed
      <4> QED BY <3>2, <4>2, <4>3
    <3> QED BY <1>1, <3>1, <3>2
  <2> QED BY <2>1, <2>2, <2>3, <1>0 DEF OneWorker, Undisturbed, DaemonShape, HandlerShape, Handlers
<1>2. ASSUME NEW c \in Clients, Respond(c) PROVE OneWorker'
  <2> DEFINE q == handler[c].run
  <2>1. /\ handler[c].op # "idle" /\ q \in Runs /\ handler[c].copy \in Copies
        /\ UNCHANGED driver /\ driver.run # q /\ q \notin dispatched /\ ~overlapped
        /\ \A d \in Clients \ {c} : handler[d].op = "idle"
    BY <1>2 DEF Respond, SaveCancel, SaveResume, Reactivate, RefuseResume, Dispatch, OneWorker,
      HandlerShape, Handlers
  <2>2. \A d \in Clients \ {c} : handler'[d].op = "idle"
    BY <1>0, <1>2, <2>1, HandleFacts, CopyFacts
    DEF Respond, SaveCancel, SaveResume, Reactivate, RefuseResume, Dispatch
  <2>3. \A st \in {"Cancelled", "Running"} :
          With(handler[c].copy, st) \in Stored /\ With(handler[c].copy, st).status = st
    BY <2>1, CopyFacts
  <2>4. \A r \in Runs : r # q => row'[r] = row[r]
    <3>1. CASE SaveCancel(c) BY <1>0, <2>1, <2>3, <3>1, SaveFacts DEF SaveCancel
    <3>2. CASE SaveResume(c) BY <1>0, <2>1, <2>3, <3>2, SaveFacts DEF SaveResume
    <3>3. CASE Reactivate(c) BY <1>0, <3>3 DEF Reactivate, StoreShape
    <3>4. CASE RefuseResume(c) \/ Dispatch(c) BY <3>4 DEF RefuseResume, Dispatch
    <3> QED BY <1>2, <3>1, <3>2, <3>3, <3>4 DEF Respond
  <2>5. CASE handler'[c].op = "idle" /\ UNCHANGED dispatched
    BY <2>1, <2>2, <2>4, <2>5 DEF OneWorker, DaemonShape
  <2>6. CASE SaveResume(c) \/ Reactivate(c)
    <3>1. handler'[c].op = "dispatch" /\ handler'[c].run = q /\ UNCHANGED dispatched
      BY <1>0, <2>1, <2>6, HandleFacts, CopyFacts DEF SaveResume, Reactivate
    <3>2. row'[q].status \in Active
      <4>1. CASE SaveResume(c) BY <1>0, <2>1, <2>3, <4>1, SaveFacts DEF SaveResume
      <4>2. CASE Reactivate(c) BY <1>0, <2>1, <2>3, <4>2 DEF Reactivate, StoreShape
      <4> QED BY <2>6, <4>1, <4>2
    <3> QED BY <2>1, <2>2, <2>4, <3>1, <3>2 DEF OneWorker, DaemonShape
  <2>7. CASE Dispatch(c)
    <3>1. handler'[c].op = "idle" /\ dispatched' = dispatched \cup {q} /\ UNCHANGED row
      BY <1>0, <2>7, HandleFacts DEF Dispatch
    <3> QED BY <2>1, <2>2, <2>7, <3>1 DEF OneWorker, DaemonShape, Dispatch
  <2>8. CASE SaveCancel(c) \/ RefuseResume(c)
    BY <1>0, <2>5, <2>8, HandleFacts DEF SaveCancel, RefuseResume
  <2> QED BY <1>2, <2>6, <2>7, <2>8 DEF Respond
<1>3. CASE Drive
  <2>1. CASE UNCHANGED dispatched /\ (driver' = NoDriver \/ driver'.run = driver.run)
    BY <1>0, <1>3, <2>1, DriveKeeps DEF OneWorker, HandlerShape, DaemonShape
  <2>2. ASSUME NEW r \in Runs, TakeDriverLock(r) PROVE OneWorker'
    <3>1. r \in dispatched /\ driver'.run = r /\ dispatched' = dispatched \ {r} /\ UNCHANGED <<row, handler>>
      BY <2>2 DEF TakeDriverLock
    <3> QED BY <3>1 DEF OneWorker
  <2> QED BY <1>3, <2>1, <2>2, DriveKeeps
<1>4. CASE Crash
  BY <1>4 DEF Crash, OneWorker
<1>5. CASE Restart
  BY <1>0, <1>5 DEF Restart, Dispatchable, OneWorker, DaemonShape
<1> QED BY <1>1, <1>2, <1>3, <1>4, <1>5 DEF Next, Request

\* drive works on the row as it is, and does not see a cancellation.
LEMMA DriveIsCurrentStep ==
  ASSUME Shape, Shape', Order, OneWorker, DriveIsCurrent, Next, ~overlapped'
  PROVE  DriveIsCurrent'
<1> USE DEF Shape
<1> DEFINE q == driver.run
<1>0. StoreShape /\ driver \in Drives BY DEF DriverShape
<1>1. driver.at # "idle" => /\ q \in Runs /\ driver.copy \in Copies
                            /\ row[q] \in Stored /\ row[q] \in Copies
  BY DriverFacts DEF RunsStored, Copies
<1>2. driver.at \in Working =>
        /\ driver.copy \in Stored /\ driver.copy = row[q] /\ row[q].status \in Active
        /\ driver.steps > 0
  BY <1>1, DriverFacts DEF DriveIsCurrent, DriverShape
<1>3. \A st \in Status \ {"None", "Accepted"} : driver.at # "idle" =>
        With(driver.copy, st) \in Stored /\ With(driver.copy, st) \in Copies /\ With(driver.copy, st).status = st
  <2>1. \A st \in Status \ {"None", "Accepted"} : driver.at # "idle" =>
          With(driver.copy, st) \in Stored /\ With(driver.copy, st).status = st
    BY <1>1, CopyFacts
  <2> QED BY <2>1 DEF Copies
<1>4. ASSUME UNCHANGED driver, driver.at # "idle" => row'[q] = row[q] PROVE DriveIsCurrent'
  BY <1>4 DEF DriveIsCurrent
<1>5. ASSUME NEW c \in Clients, NEW r \in Runs, Start(c, r) \/ LoadForCancel(c, r) \/ LoadForResume(c, r)
      PROVE  DriveIsCurrent'
  <2>1. Undisturbed(r) /\ UNCHANGED driver
    BY <1>5 DEF Start, LoadForCancel, LoadForResume
  <2>2. \A s \in Runs : s # r => row'[s] = row[s]
    BY <1>0, <1>5 DEF Start, LoadForCancel, LoadForResume, StoreShape
  <2> QED BY <1>1, <1>4, <2>1, <2>2 DEF Undisturbed
<1>6. ASSUME NEW c \in Clients, Respond(c) PROVE DriveIsCurrent'
  <2>1. /\ handler[c].op # "idle" /\ UNCHANGED driver /\ q # handler[c].run
        /\ handler[c].run \in Runs /\ handler[c].copy \in Copies
    BY <1>6 DEF Respond, SaveCancel, SaveResume, Reactivate, RefuseResume, Dispatch, OneWorker,
      HandlerShape, Handlers
  <2>2. UNCHANGED row \/ \E next : row' = [row EXCEPT ![handler[c].run] = next]
    BY <1>6 DEF Respond, SaveCancel, SaveResume, Reactivate, RefuseResume, Dispatch, Save
  <2>3. q \in Runs => row'[q] = row[q]
    BY <1>0, <2>1, <2>2 DEF StoreShape
  <2> QED BY <1>1, <1>4, <2>1, <2>3
<1>7. ASSUME NEW r \in Runs, TakeDriverLock(r) PROVE DriveIsCurrent'
  <2>1. /\ r \in dispatched /\ UNCHANGED row
        /\ driver'.run = r /\ driver'.at = "load" /\ driver'.steps = 0
    BY <1>7 DEF TakeDriverLock
  <2> QED BY <2>1 DEF OneWorker, DriveIsCurrent
<1>8. CASE LoadStep
  <2>1. CASE Leave BY <2>1 DEF Leave, DriveIsCurrent
  <2>2. CASE ~Leave
    <3>1. /\ driver'.run = q /\ driver'.copy = row[q] /\ driver'.at \in Working /\ UNCHANGED row
      BY <1>0, <1>8, <2>2 DEF LoadStep, Drives
    <3> QED BY <3>1 DEF DriveIsCurrent
  <2> QED BY <2>1, <2>2
<1>9. ASSUME driver.at \in Working, UNCHANGED row,
             NEW at \in Working \cup {"load", "failed"}, GoTo(at)
      PROVE  DriveIsCurrent'
  BY <1>0, <1>2, <1>9, MoveFacts DEF DriveIsCurrent
<1>10. CASE \/ CheckCancelled("check", "idle?") \/ CheckCancelled("wait", "answer?") \/ NoticeCancel
            \/ Ask \/ TurnCompletes \/ RetryAction \/ StepFails
  BY <1>9, <1>10
  DEF CheckCancelled, NoticeCancel, Ask, TurnCompletes, RetryAction, StepFails
<1>11. CASE PrepareWorkspace
  <2>1. CASE UNCHANGED row BY <1>9, <1>11, <2>1 DEF PrepareWorkspace
  <2>2. CASE Save(q, driver.copy)
    BY <1>0, <1>1, <1>2, <1>11, <2>2, SaveFacts, MoveFacts DEF PrepareWorkspace, DriveIsCurrent
  <2> QED BY <1>11, <2>1, <2>2 DEF PrepareWorkspace
<1>12. CASE TaskActive
  BY <1>0, <1>1, <1>2, <1>3, <1>12, SaveFacts, MoveFacts DEF TaskActive, DriveIsCurrent
<1>13. CASE TaskIdle
  <2>1. driver.copy.status = "Running" => With(driver.copy, "Running") = driver.copy
    BY <1>2, <1>13, CopyFacts DEF TaskIdle
  <2> QED BY <1>0, <1>1, <1>2, <1>3, <1>13, <2>1, SaveFacts, MoveFacts DEF TaskIdle, DriveIsCurrent
<1>14. CASE PausePermission
  BY <1>0, <1>1, <1>2, <1>3, <1>14, SaveFacts, MoveFacts DEF PausePermission, DriveIsCurrent
<1>15. CASE AcceptAnswer
  <2>1. CASE UNCHANGED row BY <1>9, <1>15, <2>1 DEF AcceptAnswer
  <2>2. CASE ~UNCHANGED row
    <3>1. /\ Advanced(driver.copy) \in Stored /\ Advanced(driver.copy).status \in Active
          /\ Blocked(driver.copy, "answer") \in Stored
          /\ Blocked(driver.copy, "answer").status = "Blocked"
      BY <1>2, <1>1, <1>15, CopyFacts DEF AcceptAnswer, DriverShape
    <3>2. GoTo("load") /\ (Save(q, Advanced(driver.copy)) \/ Save(q, Blocked(driver.copy, "answer")))
      BY <1>15, <2>2 DEF AcceptAnswer
    <3>3. row'[q].status # "Cancelled"
      BY <1>0, <1>1, <1>15, <3>1, <3>2, SaveFacts DEF AcceptAnswer
    <3> QED BY <1>0, <1>2, <1>15, <3>2, <3>3, MoveFacts DEF AcceptAnswer, DriveIsCurrent
  <2> QED BY <2>1, <2>2
<1>16. CASE RevalidateAndAccept
  <2>1. With(driver.copy, "Accepted") \in Stored /\ With(driver.copy, "Accepted").status = "Accepted"
    BY <1>1, <1>16, CopyFacts DEF RevalidateAndAccept, DriverShape
  <2> QED BY <1>0, <1>1, <1>2, <1>16, <2>1, SaveFacts, MoveFacts DEF RevalidateAndAccept, DriveIsCurrent
<1>17. CASE LoadAfterError \/ LoadExhausted
  BY <1>0, <1>1, <1>17, MoveFacts DEF LoadAfterError, LoadExhausted, DriveIsCurrent
<1>18. CASE driver' = NoDriver
  BY <1>18 DEF DriveIsCurrent
<1>19. CASE Restart
  BY <1>4, <1>19 DEF Restart
<1> QED
  BY <1>5, <1>6, <1>7, <1>8, <1>10, <1>11, <1>12, <1>13, <1>14, <1>15, <1>16, <1>17, <1>18, <1>19
  DEF Next, Request, Drive, SaveError, SaveExhausted, StoreFails, Leave, Crash

\* What a step may then do to the store: rewrite the row of one run ...
Rewrites(q, next) ==
  /\ next \in Stored /\ next.answers = row[q].answers
  /\ \/ row[q].status \in Held /\ next.status \in Held \cup {"Blocked", "IncompatibleCodex", "Cancelled"}
     \/ row[q].status \in {"Blocked", "IncompatibleCodex"} /\ next.status \in {"Blocked", "Cancelled"}
     \/ row[q].status = "Cancelled" /\ next.status = "Cancelled"
     \/ row[q].status = "Running" /\ row[q].answers = Last /\ next.status = "Accepted"
  /\ Save(q, next) /\ UNCHANGED turn

\* ... open a new run, or a blocked one whose last turn is asked again ...
Opened(q) ==
  /\ lock = None /\ lock' = q
  /\ row' = [row EXCEPT ![q] = With(row[q], "Running")]
  /\ \/ row[q] = NoRow /\ UNCHANGED turn
     \/ /\ row[q].status = "Blocked" /\ row[q].answers \in 0..Last
        /\ turn' = [turn EXCEPT ![q][row[q].answers] = "open"]

\* ... ask for the turn that is next, or accept its answer.
Asked(q) ==
  /\ row[q].status \in Held /\ UNCHANGED <<row, lock>>
  /\ turn' = [turn EXCEPT ![q][row[q].answers] = "open"]

Accepted(q) ==
  /\ row[q] \in Stored /\ row[q].status \in Active /\ row[q].answers < Last
  /\ turn' = [turn EXCEPT ![q][row[q].answers] = "accepted"]
  /\ Save(q, Advanced(row[q])) \/ Save(q, Blocked(row[q], "answer"))

StoreStep ==
  \/ UNCHANGED store
  \/ \E q \in Runs : Opened(q) \/ Asked(q) \/ Accepted(q) \/ \E next \in Stored : Rewrites(q, next)

\* While nothing else is at work on its run, whoever saves a copy saves the row it loaded,
\* so every transaction of store.rs is one of these.
LEMMA StoreKinds ==
  ASSUME Shape, Order, OneWorker, DriveIsCurrent, Next
  PROVE  StoreStep
<1> USE DEF Shape
<1> DEFINE q == driver.run
<1>0. StoreShape /\ driver \in Drives BY DEF DriverShape
<1>1. driver.at # "idle" => /\ q \in Runs /\ driver.copy \in Copies
                            /\ driver.at \notin {"idle", "load"} => driver.copy \in Stored
                            /\ driver.at \in Working => driver.copy.status \in Active
                            /\ driver.at \in Working \cup {"report", "exhausted"} => driver.copy = row[q]
  BY DriverFacts DEF DriveIsCurrent
<1>2. ASSUME NEW c \in Clients, NEW r \in Runs, Start(c, r) PROVE StoreStep
  <2>1. row[r] = NoRow /\ row[r].status = "None" /\ lock = None /\ lock' = r /\ UNCHANGED turn
    BY <1>2 DEF Start
  <2>2. row' = [row EXCEPT ![r] = With(row[r], "Running")]
    BY <1>2, <2>1, Zenon DEF Start
  <2> QED BY <2>1, <2>2 DEF StoreStep, Opened
<1>3. ASSUME NEW c \in Clients, Respond(c) PROVE StoreStep
  <2> DEFINE r == handler[c].run
  <2>1. /\ handler[c].op # "idle" /\ r \in Runs /\ handler[c].copy \in Copies
        /\ handler[c].op # "dispatch" => handler[c].copy = row[r] /\ row[r] \in Stored
    BY <1>3 DEF Respond, SaveCancel, SaveResume, Reactivate, RefuseResume, Dispatch, OneWorker,
      HandlerShape, Handlers
  <2>2. \A st \in {"Cancelled", "Running"} :
          /\ With(handler[c].copy, st) \in Stored /\ With(handler[c].copy, st).status = st
          /\ With(handler[c].copy, st).answers = handler[c].copy.answers
    BY <2>1, CopyFacts
  <2>3. CASE SaveCancel(c)
    <3>1. CASE UNCHANGED store BY <3>1 DEF StoreStep
    <3>2. CASE Save(r, With(handler[c].copy, "Cancelled")) /\ handler[c].copy.status # "Accepted"
      <4>1. row[r].status \in Status /\ row[r].status \notin {"None", "Accepted"}
        BY <2>1, <2>3, <3>2, CopyFacts DEF SaveCancel, Stored
      <4> QED BY <2>1, <2>2, <2>3, <3>2, <4>1 DEF SaveCancel, StoreStep, Rewrites
    <3> QED BY <2>2, <2>3, <3>1, <3>2 DEF SaveCancel, Valid
  <2>4. CASE SaveResume(c)
    BY <2>1, <2>2, <2>4 DEF SaveResume, StoreStep, Rewrites
  <2>5. CASE Reactivate(c)
    <3>1. handler[c].copy = row[r] /\ row[r].answers \in 0..Last
      BY <2>1, <2>5, CopyFacts DEF Reactivate
    <3>2. Opened(r) BY <2>5, <3>1 DEF Reactivate, Opened
    <3> QED BY <2>1, <3>2 DEF StoreStep
  <2>6. CASE RefuseResume(c) \/ Dispatch(c)
    BY <2>6 DEF RefuseResume, Dispatch, StoreStep
  <2> QED BY <1>3, <2>3, <2>4, <2>5, <2>6 DEF Respond
<1>4. ASSUME NEW next \in Stored, Save(q, next), UNCHANGED turn, driver.at # "idle",
             next.answers = row[q].answers,
             row[q].status \in Held, next.status \in Held \cup {"Blocked", "IncompatibleCodex"}
      PROVE  StoreStep
  BY <1>1, <1>4 DEF StoreStep, Rewrites
<1>5. driver.at # "idle" =>
        /\ \A st \in Status \ {"None", "Accepted"} :
             /\ With(driver.copy, st) \in Stored /\ With(driver.copy, st).status = st
             /\ With(driver.copy, st).answers = driver.copy.answers
        /\ Blocked(driver.copy, "error") \in Stored /\ Blocked(driver.copy, "error").status = "Blocked"
        /\ Blocked(driver.copy, "error").answers = driver.copy.answers
  BY <1>1, CopyFacts
<1>6. CASE PrepareWorkspace
  BY <1>1, <1>4, <1>6 DEF PrepareWorkspace, StoreStep
<1>7. CASE TaskActive
  BY <1>1, <1>4, <1>5, <1>7 DEF TaskActive
<1>8. CASE TaskIdle
  BY <1>1, <1>4, <1>5, <1>8 DEF TaskIdle, StoreStep
<1>9. CASE PausePermission
  BY <1>1, <1>4, <1>5, <1>9 DEF PausePermission
<1>10. CASE Ask
  BY <1>1, <1>10 DEF Ask, StoreStep, Asked
<1>11. CASE AcceptAnswer
  <2>1. turn[q][driver.copy.answers] = "open" /\ driver.copy.answers < Last /\ driver.copy.answers \in 0..Last
    BY <1>1, <1>11, CopyFacts DEF AcceptAnswer, Order, DriveUndisturbed, DriverShape
  <2>2. \A n \in Open(q) : n = driver.copy.answers
    <3> SUFFICES ASSUME NEW n \in Open(q) PROVE n = driver.copy.answers OBVIOUS
    <3>1. n \in 0..Last /\ turn[q][n] = "open" BY DEF Open
    <3>2. q \in Runs /\ \A m \in 0..Last : m > n => turn[q][m] = "none"
      BY <1>1, <1>11, <3>1, OpenIsLast DEF Order, AcceptAnswer
    <3>3. \A m \in 0..Last : m > driver.copy.answers => turn[q][m] = "none"
      BY <2>1, <3>2, OpenIsLast DEF Order
    <3> QED BY <2>1, <3>1, <3>2, <3>3
  <2>3. driver.copy.answers \in Open(q) BY <2>1 DEF Open
  <2> QED BY <1>1, <1>11, <2>1, <2>2, <2>3 DEF AcceptAnswer, StoreStep, Accepted
<1>12. CASE RevalidateAndAccept
  <2>1. /\ With(driver.copy, "Accepted") \in Stored /\ With(driver.copy, "Accepted").status = "Accepted"
        /\ With(driver.copy, "Accepted").answers = driver.copy.answers /\ driver.copy.answers = Last
    BY <1>1, <1>12, CopyFacts DEF RevalidateAndAccept, DriverShape
  <2> QED BY <1>1, <1>12, <2>1 DEF RevalidateAndAccept, StoreStep, Rewrites
<1>13. CASE SaveError
  <2>1. row[q].status \in Active BY <1>13 DEF SaveError, DriveIsCurrent
  <2> QED BY <1>1, <1>4, <1>5, <1>13, <2>1 DEF SaveError, StoreStep
<1>14. CASE SaveExhausted
  <2>1. row[q].status \in Status /\ row[q].status \notin {"None", "Cancelled"} /\ driver.copy = row[q] /\ q \in Runs
    BY <1>1, <1>14, CopyFacts DEF SaveExhausted, DriveIsCurrent, Stored
  <2>2. CASE row[q].status = "Accepted" BY <2>1, <2>2, <1>14 DEF SaveExhausted, StoreStep
  <2>3. CASE row[q].status # "Accepted"
    BY <1>5, <1>14, <2>1, <2>3 DEF SaveExhausted, StoreStep, Rewrites
  <2> QED BY <2>2, <2>3
<1>15. CASE UNCHANGED store
  BY <1>15 DEF StoreStep
<1> QED
  BY <1>2, <1>3, <1>6, <1>7, <1>8, <1>9, <1>10, <1>11, <1>12, <1>13, <1>14, <1>15
  DEF Next, Request, Drive, LoadForCancel, LoadForResume, TakeDriverLock, LoadStep, CheckCancelled,
      NoticeCancel, TurnCompletes, RetryAction, StepFails, LoadAfterError, LoadExhausted,
      StoreFails, Crash, Restart

\* The repository lock is taken and released in the transaction that moves the row.
LEMMA LockHeldStep ==
  ASSUME Shape, LockHeld, StoreStep
  PROVE  LockHeld'
<1> USE DEF Shape
<1>0. StoreShape /\ None \notin Runs OBVIOUS
<1>1. ASSUME NEW q \in Runs, Opened(q) PROVE LockHeld'
  <2>1. row[q] \in Copies BY <1>0 DEF StoreShape
  <2>2. With(row[q], "Running").status = "Running" BY <2>1, CopyFacts
  <2> QED BY <1>0, <1>1, <2>2 DEF Opened, LockHeld, StoreShape
<1>2. ASSUME NEW q \in Runs, NEW next \in Stored, Rewrites(q, next) PROVE LockHeld'
  <2>1. /\ row'[q] = next /\ \A s \in Runs \ {q} : row'[s] = row[s]
        /\ lock' = (IF next.status \in Terminal /\ lock = q THEN None ELSE lock)
    BY <1>0, <1>2, SaveFacts DEF Rewrites
  <2> QED BY <1>0, <1>2, <2>1 DEF Rewrites, LockHeld
<1>3. ASSUME NEW q \in Runs, Accepted(q) PROVE LockHeld'
  <2>1. /\ Advanced(row[q]) \in Stored /\ Advanced(row[q]).status = row[q].status
        /\ Blocked(row[q], "answer") \in Stored /\ Blocked(row[q], "answer").status = "Blocked"
    <3>1. row[q] \in Copies BY <1>0 DEF StoreShape
    <3> QED BY <3>1, <1>3, CopyFacts DEF Accepted
  <2> QED BY <1>0, <1>3, <2>1, SaveFacts DEF Accepted, LockHeld
<1>4. CASE UNCHANGED store \/ \E q \in Runs : Asked(q)
  BY <1>4 DEF LockHeld, Asked
<1> QED BY <1>1, <1>2, <1>3, <1>4 DEF StoreStep

\* Every transaction that moves a row forward, or back to the turn it is blocked at, moves
\* the turn with it.
LEMMA RowAtTurnStep ==
  ASSUME Shape, Order, RowAtTurn, StoreStep
  PROVE  RowAtTurn'
<1> USE DEF Shape
<1>0. /\ StoreShape /\ turn \in Turns
      /\ \A r \in Runs : row[r] \in Copies /\ row[r].answers \in 0..Last /\ row[r].status \in Status
  BY CopyFacts DEF StoreShape
<1>1. ASSUME NEW q \in Runs, Opened(q) PROVE RowAtTurn'
  <2>1. /\ row'[q].answers = row[q].answers /\ row'[q].status = "Running"
        /\ \A s \in Runs \ {q} : row'[s] = row[s]
    BY <1>0, <1>1, CopyFacts DEF Opened, StoreShape
  <2>2. CASE row[q] = NoRow /\ UNCHANGED turn
    BY <1>0, <2>1, <2>2 DEF RowAtTurn
  <2>3. CASE /\ row[q].status = "Blocked" /\ row[q].answers \in 0..Last
             /\ turn' = [turn EXCEPT ![q][row[q].answers] = "open"]
    <3>1. \A s \in Runs, m \in 0..Last :
            turn'[s][m] = IF s = q /\ m = row[q].answers THEN "open" ELSE turn[s][m]
      BY <1>0, <2>3 DEF Turns
    <3> QED BY <1>0, <2>1, <3>1 DEF RowAtTurn
  <2> QED BY <1>1, <2>2, <2>3 DEF Opened
<1>2. ASSUME NEW q \in Runs, NEW next \in Stored, Rewrites(q, next) PROVE RowAtTurn'
  <2>1. /\ row'[q] = next /\ \A s \in Runs \ {q} : row'[s] = row[s]
        /\ UNCHANGED turn /\ next.answers = row[q].answers
    BY <1>0, <1>2, SaveFacts DEF Rewrites
  <2>2. ASSUME row[q].answers \in 0..Last, turn[q][row[q].answers] = "accepted"
        PROVE  next.status \in {"Blocked", "Cancelled"}
    BY <1>0, <1>2, <2>2 DEF Rewrites, RowAtTurn
  <2> QED BY <1>0, <2>1, <2>2 DEF RowAtTurn
<1>3. ASSUME NEW q \in Runs, Asked(q) PROVE RowAtTurn'
  <2>1. \A s \in Runs, m \in 0..Last :
          turn'[s][m] = IF s = q /\ m = row[q].answers THEN "open" ELSE turn[s][m]
    <3>1. row[q].answers \in 0..Last /\ turn' = [turn EXCEPT ![q][row[q].answers] = "open"]
      BY <1>0, <1>3 DEF Asked
    <3> QED BY <1>0, <3>1 DEF Turns
  <2> QED BY <1>0, <1>3, <2>1 DEF RowAtTurn, Asked
<1>4. ASSUME NEW q \in Runs, Accepted(q) PROVE RowAtTurn'
  <2>1. \A s \in Runs, m \in 0..Last :
          turn'[s][m] = IF s = q /\ m = row[q].answers THEN "accepted" ELSE turn[s][m]
    <3>1. row[q].answers \in 0..Last /\ turn' = [turn EXCEPT ![q][row[q].answers] = "accepted"]
      BY <1>0, <1>4 DEF Accepted
    <3> QED BY <1>0, <3>1 DEF Turns
  <2>2. \A s \in Runs \ {q} : row'[s] = row[s]
    BY <1>0, <1>4, SaveFacts, CopyFacts DEF Accepted
  <2>3. \/ row'[q].answers = row[q].answers + 1
        \/ row'[q].answers = row[q].answers /\ row'[q].status = "Blocked"
    BY <1>0, <1>4, SaveFacts, CopyFacts DEF Accepted
  <2> QED BY <1>0, <1>4, <2>1, <2>2, <2>3 DEF RowAtTurn
<1> QED BY <1>1, <1>2, <1>3, <1>4 DEF StoreStep, RowAtTurn

\* A request that overlaps with other work on its run is remembered.
LEMMA OverlapIsRemembered == [Next]_vars /\ overlapped => overlapped'
BY DEF Next, Request, Respond, Drive, Start, LoadForCancel, LoadForResume, SaveCancel, SaveResume,
    Reactivate, RefuseResume, Dispatch, TakeDriverLock, LoadStep, PrepareWorkspace, CheckCancelled,
    NoticeCancel, TaskActive, TaskIdle, Ask, TurnCompletes, RetryAction, PausePermission,
    AcceptAnswer, RevalidateAndAccept, StepFails, LoadAfterError, SaveError, LoadExhausted,
    SaveExhausted, StoreFails, Crash, Restart

\* Until then all of Alone is kept.
LEMMA AloneStep == Shape /\ Order /\ Alone /\ [Next]_vars => Alone'
<1> SUFFICES ASSUME Shape, Order, Alone, [Next]_vars, ~overlapped' PROVE Alone'
  BY DEF Alone
<1>1. ~overlapped BY OverlapIsRemembered
<1>2. CASE Next
  <2>1. Shape' BY ShapeStep
  <2>2. OneWorker /\ DriveIsCurrent /\ LockHeld /\ RowAtTurn BY <1>1 DEF Alone
  <2>3. OneWorker' /\ DriveIsCurrent' BY <1>2, <2>1, <2>2, OneWorkerStep, DriveIsCurrentStep
  <2>4. StoreStep BY <1>2, <2>2, StoreKinds
  <2>5. LockHeld' /\ RowAtTurn' BY <2>2, <2>4, LockHeldStep, RowAtTurnStep
  <2> QED BY <2>3, <2>5 DEF Alone
<1>3. CASE UNCHANGED vars
  BY <1>3 DEF Alone, OneWorker, DriveIsCurrent, LockHeld, RowAtTurn
<1> QED BY <1>2, <1>3

\* A fresh store and a daemon that has just been started satisfy all of it.
LEMMA InvInit == Init => Inv
<1> SUFFICES ASSUME Init PROVE Inv OBVIOUS
<1>1. Shape BY ShapeInit
<1>2. Driven BY DEF Init, Driven
<1>3. Order
  <2>1. TurnOrder BY DEF Init, TurnOrder
  <2>2. CopiesBehind BY DEF Init, CopiesBehind, Answered
  <2>3. BlockedByAnswer BY DEF Init, BlockedByAnswer
  <2>4. DriveUndisturbed BY DEF Init, DriveUndisturbed
  <2> QED BY <2>1, <2>2, <2>3, <2>4 DEF Order
<1>4. Alone
  <2>1. OneWorker /\ DriveIsCurrent /\ LockHeld BY DEF Init, OneWorker, DriveIsCurrent, LockHeld
  <2>2. RowAtTurn BY DEF Init, RowAtTurn
  <2> QED BY <2>1, <2>2 DEF Alone
<1> QED BY <1>1, <1>2, <1>3, <1>4 DEF Inv

-----------------------------------------------------------------------------
(* The theorems. *)

\* Every transaction, handler step, drive step, crash and restart keeps the invariant.
THEOREM Invariance == Spec => []Inv
<1>1. Init => Inv BY InvInit
<1>2. Inv /\ [Next]_vars => Inv'
  BY ShapeStep, DrivenStep, OrderStep, AloneStep DEF Inv
<1> QED BY <1>1, <1>2, PTL DEF Spec

\* Rows, turns, copies and program counters stay within their types.
THEOREM TypeCorrect == Spec => []TypeOK
<1>1. Inv => TypeOK BY ShapeIsType DEF Inv
<1> QED BY <1>1, Invariance, PTL

\* Dispatch after a save, the pass over the runs at the start of run_server, and a drive
\* that only leaves a run it stopped: together they forget no active run.
THEOREM ActiveRunIsDrivenHolds == Spec => []ActiveRunIsDriven
<1>1. Inv => ActiveRunIsDriven
  BY DEF Inv, Driven, Cared, Awaited, ActiveRunIsDriven
<1> QED BY <1>1, Invariance, PTL

\* However stale a saved copy is, questions are asked, and answers counted, in order.
THEOREM TurnsInOrderHolds == Spec => []TurnsInOrder
<1>1. Inv => TurnsInOrder
  <2> SUFFICES ASSUME Inv, NEW r \in Runs, NEW n \in 0..Last,
                      turn[r][n] # "none" \/ row[r].answers > n
                        \/ (n = Last /\ row[r].status = "Accepted"),
                      NEW m \in 0..Last, m < n
               PROVE  turn[r][m] = "accepted"
    BY DEF TurnsInOrder
  <2>1. row[r] \in Copies /\ row[r].answers \in 0..Last
    BY CopyFacts DEF Inv, Shape, StoreShape
  <2>2. row[r].status = "Accepted" => row[r].answers = Last
    BY <2>1 DEF Copies, Stored
  <2>3. Answered(r, row[r].answers) /\ (turn[r][n] # "none" => Answered(r, n))
    BY DEF Inv, Order, CopiesBehind, TurnOrder
  <2> QED BY <2>1, <2>2, <2>3 DEF Answered
<1> QED BY <1>1, Invariance, PTL

\* Until requests overlap, the row stands at the pending turn.
THEOREM RowMatchesTurnsHolds == Spec => []RowMatchesTurns
<1>1. Inv => RowMatchesTurns
  <2> SUFFICES ASSUME Inv, ~overlapped, NEW r \in Runs, NEW n \in 0..Last
               PROVE  /\ n < row[r].answers => turn[r][n] = "accepted"
                      /\ n > row[r].answers => turn[r][n] = "none"
                      /\ n = row[r].answers /\ turn[r][n] = "accepted" =>
                           row[r].status \in {"Blocked", "Cancelled"}
    BY DEF RowMatchesTurns
  <2>1. Answered(r, row[r].answers) BY DEF Inv, Order, CopiesBehind
  <2> QED BY <2>1 DEF Inv, Alone, RowAtTurn, Answered
<1> QED BY <1>1, Invariance, PTL

\* Until requests overlap, insert_run, save_state and the reactivations keep the
\* repository lock with the run that is neither stopped nor blocked.
THEOREM LockIsHeldByOpenRunHolds == Spec => []LockIsHeldByOpenRun
<1>1. Inv => LockIsHeldByOpenRun BY DEF Inv, Alone, LockHeld, LockIsHeldByOpenRun
<1> QED BY <1>1, Invariance, PTL

-----------------------------------------------------------------------------
(* The daemon keeps the promise of RunRegistry until requests overlap. *)

USE DEF Registry!vars, Standing

\* What RunRegistry sees of the runs that a transaction does not touch stays the same.
LEMMA StandingFacts ==
  ASSUME StoreShape, NEW q \in Runs, \A s \in Runs \ {q} : row'[s] = row[s]
  PROVE  /\ [r \in Runs |-> Standing(r)]' = [[r \in Runs |-> Standing(r)] EXCEPT ![q] = Standing(q)']
         /\ [r \in Runs |-> row[r].answers]' =
              [[r \in Runs |-> row[r].answers] EXCEPT ![q] = row'[q].answers]
  OBVIOUS

\* A run is opened by taking the free repository.
LEMMA OpenedImplements ==
  ASSUME Shape, NEW q \in Runs, Opened(q)
  PROVE  Registry!Enter(q, "new") \/ Registry!Enter(q, "blocked")
<1>1. StoreShape /\ row[q] \in Copies BY DEF Shape, StoreShape
<1>2. /\ row'[q].answers = row[q].answers /\ row'[q].status = "Running"
      /\ \A s \in Runs \ {q} : row'[s] = row[s]
  BY <1>1, CopyFacts DEF Opened, StoreShape
<1>3. Standing(q)' = "open" BY <1>2
<1>4. Standing(q) \in {"new", "blocked"} /\ lock = None /\ lock' = q BY DEF Opened
<1> QED BY <1>1, <1>2, <1>3, <1>4, StandingFacts DEF Registry!Enter

\* A save that leaves the answers alone blocks, cancels or accepts the run, or is not seen.
LEMMA RewriteImplements ==
  ASSUME Shape, LockHeld, NEW q \in Runs, NEW next \in Stored, Rewrites(q, next)
  PROVE  \/ Registry!Block(q) \/ Registry!Cancel(q) \/ Registry!Accept(q)
         \/ UNCHANGED Registry!vars
<1>1. StoreShape /\ row[q] \in Copies /\ row[q].status \in Status /\ next.status \in Status
  BY CopyFacts DEF Shape, StoreShape, Copies
<1>2. /\ row'[q] = next /\ next.answers = row[q].answers
      /\ \A s \in Runs \ {q} : row'[s] = row[s]
      /\ lock' = (IF next.status \in Terminal /\ lock = q THEN None ELSE lock)
  BY <1>1, SaveFacts DEF Rewrites
<1>3. /\ [r \in Runs |-> Standing(r)]' = [[r \in Runs |-> Standing(r)] EXCEPT ![q] = Standing(q)']
      /\ UNCHANGED [r \in Runs |-> row[r].answers]
  <2>1. \A r \in Runs : row'[r].answers = row[r].answers BY <1>1, <1>2
  <2>2. UNCHANGED [r \in Runs |-> row[r].answers] BY <2>1
  <2> QED BY <1>1, <1>2, <2>2, StandingFacts
<1>4. Standing(q)' = (IF next.status \in Held THEN "open"
                      ELSE IF next.status = "Cancelled" THEN "cancelled"
                      ELSE IF next.status = "Accepted" THEN "accepted" ELSE "blocked")
  BY <1>2 DEF Rewrites
<1>5. ASSUME UNCHANGED Standing(q), UNCHANGED lock PROVE UNCHANGED Registry!vars
  BY <1>1, <1>2, <1>3, <1>5
<1>6. Standing(q) = "open" <=> lock = q BY <1>1 DEF LockHeld
<1>7. CASE row[q].status \in Held /\ next.status \in Held
  BY <1>2, <1>4, <1>5, <1>7
<1>8. CASE row[q].status \in Held /\ next.status \in {"Blocked", "IncompatibleCodex"}
  BY <1>2, <1>3, <1>4, <1>8 DEF Registry!Block, Registry!Leave
<1>9. CASE row[q].status \in Held /\ next.status = "Cancelled"
  BY <1>2, <1>3, <1>4, <1>9 DEF Registry!Cancel, Registry!Leave
<1>10. CASE row[q].status \in {"Blocked", "IncompatibleCodex"} /\ next.status = "Blocked"
  BY <1>2, <1>4, <1>5, <1>6, <1>10
<1>11. CASE row[q].status \in {"Blocked", "IncompatibleCodex"} /\ next.status = "Cancelled"
  BY <1>2, <1>3, <1>4, <1>11 DEF Registry!Cancel, Registry!Leave
<1>12. CASE row[q].status = "Cancelled" /\ next.status = "Cancelled"
  BY <1>2, <1>4, <1>5, <1>6, <1>12
<1>13. CASE row[q].status = "Running" /\ row[q].answers = Last /\ next.status = "Accepted"
  BY <1>2, <1>3, <1>4, <1>6, <1>13 DEF Registry!Accept, Registry!Leave
<1> QED BY <1>7, <1>8, <1>9, <1>10, <1>11, <1>12, <1>13 DEF Rewrites

\* accept_response_and_advance counts an answer of the run that owns the repository, or
\* blocks it.
LEMMA AcceptedImplements ==
  ASSUME Shape, LockHeld, NEW q \in Runs, Accepted(q)
  PROVE  Registry!Answer(q) \/ Registry!Block(q)
<1>1. StoreShape /\ row[q] \in Copies /\ row[q].answers \in 0..Last /\ lock = q
  BY CopyFacts DEF Shape, StoreShape, Copies, Accepted, LockHeld
<1>2. CASE Save(q, Advanced(row[q]))
  <2>1. /\ Advanced(row[q]) \in Stored /\ Advanced(row[q]).status = row[q].status
        /\ Advanced(row[q]).answers = row[q].answers + 1
    BY <1>1, CopyFacts DEF Accepted
  <2>2. /\ row'[q] = Advanced(row[q]) /\ lock' = lock
        /\ \A s \in Runs \ {q} : row'[s] = row[s]
    BY <1>1, <1>2, <2>1, SaveFacts DEF Accepted
  <2>3. Standing(q)' = Standing(q) /\ Standing(q) = "open" /\ row[q].answers < Last
    BY <2>1, <2>2 DEF Accepted
  <2>4. /\ UNCHANGED [r \in Runs |-> Standing(r)]
        /\ [r \in Runs |-> row[r].answers]' =
             [[r \in Runs |-> row[r].answers] EXCEPT ![q] = row[q].answers + 1]
    <3>1. /\ [r \in Runs |-> Standing(r)]' = [[r \in Runs |-> Standing(r)] EXCEPT ![q] = Standing(q)']
          /\ [r \in Runs |-> row[r].answers]' =
               [[r \in Runs |-> row[r].answers] EXCEPT ![q] = row'[q].answers]
      BY <1>1, <2>2, StandingFacts
    <3> HIDE DEF Standing
    <3> QED BY <2>1, <2>2, <2>3, <3>1
  <2> QED BY <1>1, <2>2, <2>3, <2>4 DEF Registry!Answer
<1>3. CASE Save(q, Blocked(row[q], "answer"))
  <2>1. /\ Blocked(row[q], "answer") \in Stored /\ Blocked(row[q], "answer").status = "Blocked"
        /\ Blocked(row[q], "answer").answers = row[q].answers
    BY <1>1, CopyFacts
  <2>2. /\ row'[q] = Blocked(row[q], "answer") /\ lock' = None
        /\ \A s \in Runs \ {q} : row'[s] = row[s]
    BY <1>1, <1>3, <2>1, SaveFacts
  <2>3. Standing(q)' = "blocked" /\ Standing(q) = "open"
    BY <2>1, <2>2 DEF Accepted
  <2>4. /\ [r \in Runs |-> Standing(r)]' = [[r \in Runs |-> Standing(r)] EXCEPT ![q] = "blocked"]
        /\ UNCHANGED [r \in Runs |-> row[r].answers]
    <3>1. /\ [r \in Runs |-> Standing(r)]' = [[r \in Runs |-> Standing(r)] EXCEPT ![q] = Standing(q)']
          /\ [r \in Runs |-> row[r].answers]' =
               [[r \in Runs |-> row[r].answers] EXCEPT ![q] = row'[q].answers]
      BY <1>1, <2>2, StandingFacts
    <3> HIDE DEF Standing
    <3> QED BY <2>1, <2>2, <2>3, <3>1
  <2> QED BY <1>1, <2>2, <2>3, <2>4 DEF Registry!Block, Registry!Leave
<1> QED BY <1>2, <1>3 DEF Accepted

\* Every transaction of an undisturbed run is a step of RunRegistry, or is not seen.
LEMMA StoreImplements ==
  ASSUME Shape, LockHeld, StoreStep
  PROVE  Registry!Next \/ UNCHANGED Registry!vars
<1>1. ASSUME UNCHANGED <<row, lock>> PROVE UNCHANGED Registry!vars
  BY <1>1
<1> QED
  BY <1>1, OpenedImplements, RewriteImplements, AcceptedImplements
  DEF StoreStep, Asked, Registry!Next

\* Both specifications start with no run and a free repository.
LEMMA RegistryInit == Init => Registry!Init
BY DEF Init, Registry!Init

\* Until a request overlaps with other work on its run, the daemon keeps the promise.
LEMMA RegistryStep ==
  Inv /\ Inv' /\ [Next]_vars => [~overlapped' => Registry!Next]_(Registry!vars)
<1> SUFFICES ASSUME Inv, Inv', [Next]_vars, ~overlapped'
             PROVE  Registry!Next \/ UNCHANGED Registry!vars
  OBVIOUS
<1>1. CASE Next
  <2>1. ~overlapped BY <1>1, OverlapIsRemembered
  <2>2. Shape /\ Order /\ OneWorker /\ DriveIsCurrent /\ LockHeld BY <2>1 DEF Inv, Alone
  <2>3. StoreStep BY <1>1, <2>2, StoreKinds
  <2> QED BY <2>2, <2>3, StoreImplements
<1>2. CASE UNCHANGED vars BY <1>2
<1> QED BY <1>1, <1>2

HIDE DEF vars, Registry!vars

\* Until requests overlap, whatever crashes, errors, stops and recoveries do, the daemon
\* runs one run at a time, gives the repository back when it stops, and loses no answer.
THEOREM RegistryImplemented == Spec => ImplementsRegistry
<1>1. Init => Registry!Init BY RegistryInit
<1>2. Inv /\ Inv' /\ [Next]_vars => [~overlapped' => Registry!Next]_(Registry!vars)
  BY RegistryStep
<1> QED BY <1>1, <1>2, Invariance, PTL DEF Spec, ImplementsRegistry

=============================================================================
