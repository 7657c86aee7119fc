------------------------------- MODULE Daemon -------------------------------
(***************************************************************************)
(* The daemon around the runs of one repository: client requests (start,   *)
(* resume, cancel; crates/daemon/src/server.rs) are handled in tasks of    *)
(* their own, and drive (coordinator.rs) works under driver_lock on one    *)
(* run at a time.  Everything that lasts is in SQLite (store.rs), one      *)
(* transaction at a time; drive and the handlers load a run's row, await   *)
(* the app server, and save the copy they hold.  The daemon may crash      *)
(* between any two transactions.                                           *)
(*                                                                         *)
(* Abstractions.  What RunState models of a run is here its status and the *)
(* number of answers it has accepted: request number n is the one that is  *)
(* pending after n answers.  Corrective rounds only make the sequence      *)
(* longer.  The content of answers and the git checks are the environment. *)
(***************************************************************************)
EXTENDS Naturals, FiniteSets

CONSTANTS
  Runs,            \* run ids, all of one repository
  Clients,         \* request handlers that can be at work at the same time
  Last,            \* answers a run needs before it is revalidated and accepted
  Verifications,   \* the requests among 0..Last-1 that ask for verification
  MaxDriverSteps,  \* MAX_DRIVER_STEPS
  MaxRequests,     \* bound: client requests in a behaviour
  MaxCrashes,      \* bound: crashes of the daemon
  None             \* no run

ASSUME DaemonAssumption ==
  /\ Last \in Nat /\ Verifications \subseteq Nat /\ MaxDriverSteps \in Nat \ {0}
  /\ MaxRequests \in Nat /\ MaxCrashes \in Nat
  /\ None \notin Runs

VARIABLES
  row,         \* runs: status and accepted answers of each run, why it is blocked
  lock,        \* locks: the run that holds the repository, or None
  turn,        \* turns: delivery state of each request of each run
  driver,      \* the drive that holds driver_lock, with its copy of the row
  dispatched,  \* runs with a spawned drive that waits for driver_lock
  handler,     \* of each client, the request that is being handled
  up,          \* the daemon is running
  abandoned,   \* history: runs whose drive ended because the store failed
  overlapped,  \* history: a request was made while something else was at work on its run
  requests, crashes

store  == <<row, lock, turn>>
memory == <<driver, dispatched, handler, up, abandoned>>
bounds == <<overlapped, requests, crashes>>
vars   == <<row, lock, turn, driver, dispatched, handler, up, abandoned, overlapped,
            requests, crashes>>

Active   == {"Running", "WaitingThread"}
Terminal == {"Accepted", "Blocked", "Cancelled", "IncompatibleCodex"}
Status   == Active \cup Terminal \cup {"None", "PausedUserAction"}

Row      == [status: Status, answers: 0..Last, cause: {"none", "answer", "error"}]
NoRow    == [status |-> "None", answers |-> 0, cause |-> "none"]
NoDriver == [run |-> None, at |-> "idle", copy |-> NoRow, steps |-> 0]
NoRequest == [op |-> "idle", run |-> None, copy |-> NoRow]

With(copy, st)     == [copy EXCEPT !.status = st, !.cause = "none"]
Blocked(copy, why) == [copy EXCEPT !.status = "Blocked", !.cause = why]

ValidMutant(copy, next) == next \in Row          \* validate_persisted is not called
\* accepted_result is left in a copy of an accepted run: validate_persisted refuses
\* every other status for it.
Valid(copy, next) == copy.status = "Accepted" => next.status = "Accepted"

\* A stopped run gives the repository back.
Released(r, st) == IF st \in Terminal /\ lock = r THEN None ELSE lock

\* save_state and the save of accept_response_and_advance: whatever the row is now.
Save(r, next) ==
  /\ row' = [row EXCEPT ![r] = next]
  /\ lock' = Released(r, next.status)

Init ==
  /\ row = [r \in Runs |-> NoRow] /\ lock = None
  /\ turn = [r \in Runs |-> [n \in 0..Last |-> "none"]]
  /\ driver = NoDriver /\ dispatched = {}
  /\ handler = [c \in Clients |-> NoRequest]
  /\ up = TRUE /\ abandoned = {} /\ overlapped = FALSE
  /\ requests = 0 /\ crashes = 0

-----------------------------------------------------------------------------
(* Client requests *)

\* The next step of the request, or its end.
Handle(c, op, r, copy) == handler' = [handler EXCEPT ![c] = [op |-> op, run |-> r, copy |-> copy]]
EndRequest(c)          == handler' = [handler EXCEPT ![c] = NoRequest]

Undisturbed(r) == /\ \A c \in Clients : handler[c] = NoRequest
                  /\ driver.run # r /\ r \notin dispatched

Issue(c, r) ==
  /\ up /\ handler[c] = NoRequest /\ requests < MaxRequests
  /\ requests' = requests + 1
  /\ overlapped' = (overlapped \/ ~Undisturbed(r))
  /\ UNCHANGED <<driver, dispatched, up, abandoned, crashes>>

\* insert_run: the row and the repository lock are one transaction; a start that finds
\* the repository taken changes nothing.
Start(c, r) ==
  /\ Issue(c, r)
  /\ row[r] = NoRow /\ lock = None
  /\ row' = [row EXCEPT ![r] = With(NoRow, "Running")] /\ lock' = r
  /\ Handle(c, "dispatch", r, NoRow)
  /\ UNCHANGED turn

LoadForCancel(c, r) ==
  /\ Issue(c, r) /\ row[r] # NoRow
  /\ Handle(c, "cancel", r, row[r])
  /\ UNCHANGED store

LoadForResume(c, r) ==
  /\ Issue(c, r) /\ row[r].status \in {"PausedUserAction", "Blocked"}
  /\ Handle(c, "resume", r, row[r])
  /\ UNCHANGED store

Proceed(c, op) == up /\ handler[c].op = op /\ UNCHANGED <<driver, up, abandoned, bounds>>

SaveCancel(c) ==
  LET r == handler[c].run  next == With(handler[c].copy, "Cancelled") IN
  /\ Proceed(c, "cancel") /\ EndRequest(c)
  /\ \/ Valid(handler[c].copy, next) /\ Save(r, next)
     \/ ~Valid(handler[c].copy, next) /\ UNCHANGED <<row, lock>>
  /\ UNCHANGED <<turn, dispatched>>

\* A paused run is saved whatever happened to its row since it was loaded.
SaveResume(c) ==
  LET r == handler[c].run  copy == handler[c].copy IN
  /\ Proceed(c, "resume") /\ copy.status = "PausedUserAction"
  /\ Save(r, With(copy, "Running"))
  /\ Handle(c, "dispatch", r, NoRow)
  /\ UNCHANGED <<turn, dispatched>>

\* The turn that a recovery starts over: the one whose answer blocked the run is archived
\* and reset, an open one is reset in place.
Retried(r, copy) ==
  IF copy.cause = "answer" THEN turn[r][copy.answers] = "accepted"
                           ELSE turn[r][copy.answers] = "open"

\* The reactivate_blocked_run_... transactions compare the row with the copy and
\* take the repository lock again.
Reactivate(c) ==
  LET r == handler[c].run  copy == handler[c].copy IN
  /\ Proceed(c, "resume") /\ copy.status = "Blocked"
  /\ row[r] = copy /\ lock = None /\ Retried(r, copy)
  /\ row' = [row EXCEPT ![r] = With(copy, "Running")] /\ lock' = r
  /\ turn' = [turn EXCEPT ![r][copy.answers] = "open"]
  /\ Handle(c, "dispatch", r, NoRow)
  /\ UNCHANGED dispatched

\* A recovery may be refused by the store, git or the app server.
RefuseResume(c) ==
  /\ Proceed(c, "resume") /\ EndRequest(c)
  /\ UNCHANGED <<store, dispatched>>

\* dispatch_drive: after the row is saved.
Dispatch(c) ==
  /\ Proceed(c, "dispatch") /\ EndRequest(c)
  /\ dispatched' = dispatched \cup {handler[c].run}
  /\ UNCHANGED store

-----------------------------------------------------------------------------
(* drive *)

UnderLock(at) ==
  /\ up /\ driver.at = at
  /\ UNCHANGED <<dispatched, handler, up, bounds>>

GoTo(at)       == driver' = [driver EXCEPT !.at = at] /\ UNCHANGED abandoned
Hold(at, copy) == driver' = [driver EXCEPT !.at = at, !.copy = copy] /\ UNCHANGED abandoned
Leave          == driver' = NoDriver /\ UNCHANGED abandoned

TakeDriverLock(r) ==
  /\ up /\ driver = NoDriver /\ r \in dispatched
  /\ driver' = [NoDriver EXCEPT !.run = r, !.at = "load"]
  /\ dispatched' = dispatched \ {r}
  /\ UNCHANGED <<store, handler, up, abandoned, bounds>>

StepsLeft == driver.steps < MaxDriverSteps

AllAnswered(copy) == copy.answers = Last

\* The top of the loop: the row is loaded again for each step.
LoadStep ==
  LET copy == row[driver.run] IN
  /\ UnderLock("load") /\ StepsLeft
  /\ \/ copy.status \notin Active /\ Leave
     \/ /\ copy.status \in Active
        /\ driver' = [driver EXCEPT !.steps = @ + 1, !.copy = copy,
                        !.at = IF AllAnswered(copy) THEN "accept" ELSE "step"]
        /\ UNCHANGED abandoned
  /\ UNCHANGED store

\* For a verification request, prepare_verification_workspace saves the copy before the
\* task is looked at.
PrepareWorkspace ==
  /\ UnderLock("step") /\ GoTo("check") /\ UNCHANGED turn
  /\ IF driver.copy.answers \in Verifications THEN Save(driver.run, driver.copy)
                                              ELSE UNCHANGED <<row, lock>>

\* wait_until_idle looks for a cancellation, then at the task; later iterations look
\* for one again, which may be after the task was found idle.
CheckCancelled(here, next) ==
  /\ UnderLock(here)
  /\ \/ row[driver.run].status = "Cancelled" /\ GoTo("failed")
     \/ row[driver.run].status # "Cancelled" /\ GoTo(next)
  /\ UNCHANGED store
NoticeCancel ==
  /\ up /\ driver.at \in {"idle?", "answer?"} /\ row[driver.run].status = "Cancelled"
  /\ GoTo("failed")
  /\ UNCHANGED <<store, dispatched, handler, up, bounds>>

TaskActive ==
  /\ UnderLock("idle?") /\ driver.copy.status = "Running"
  /\ Save(driver.run, With(driver.copy, "WaitingThread"))
  /\ Hold("idle?", With(driver.copy, "WaitingThread"))
  /\ UNCHANGED turn

TaskIdle ==
  /\ UnderLock("idle?")
  /\ \/ driver.copy.status = "Running" /\ UNCHANGED <<row, lock>>
     \/ driver.copy.status = "WaitingThread" /\ Save(driver.run, With(driver.copy, "Running"))
  /\ Hold("ask", With(driver.copy, "Running"))
  /\ UNCHANGED turn

Open(r) == {n \in 0..Last : turn[r][n] = "open"}

OpensMutant(r, n) == turn[r][n] # "open"    \* an accepted request is inserted once more
\* A request is inserted only when none is pending; one that exists is not replaced.
Opens(r, n) == Open(r) = {} /\ turn[r][n] = "none"

\* record_pending_send, unless the pending request is already there; a pending request
\* that is not the deterministic current one, or a current one that was accepted
\* before, fails the step.
Ask ==
  LET r == driver.run  n == driver.copy.answers IN
  /\ UnderLock("ask")
  /\ \/ Opens(r, n) /\ turn' = [turn EXCEPT ![r][n] = "open"] /\ GoTo("wait")
     \/ ~Opens(r, n) /\ n \in Open(r) /\ UNCHANGED turn /\ GoTo("wait")
     \/ ~Opens(r, n) /\ n \notin Open(r) /\ UNCHANGED turn /\ GoTo("failed")
  /\ UNCHANGED <<row, lock>>

\* The turn completed, and so did the frozen tests it asks for.
TurnCompletes == UnderLock("answer?") /\ GoTo("apply") /\ UNCHANGED store

\* RetryAction: the turn is to be started over by the next step.
RetryAction == UnderLock("answer?") /\ GoTo("load") /\ UNCHANGED store

\* consume_turn_event: the task waits for the user.
PausePermission ==
  /\ UnderLock("answer?")
  /\ Save(driver.run, With(driver.copy, "PausedUserAction"))
  /\ GoTo("failed") /\ UNCHANGED turn

AdvancedMutant(copy) == copy               \* the current state is saved, not the next one
Advanced(copy) == [copy EXCEPT !.answers = @ + 1]

\* accept_response_and_advance: the open turn is accepted, and the next state saved.
AcceptAnswer ==
  LET r == driver.run  copy == driver.copy IN
  /\ UnderLock("apply")
  /\ \/ /\ Open(r) # {}
        /\ \E n \in Open(r) : turn' = [turn EXCEPT ![r][n] = "accepted"]
        /\ \/ Save(r, Advanced(copy))
           \/ Save(r, Blocked(copy, "answer"))
        /\ GoTo("load")
     \/ Open(r) = {} /\ GoTo("failed") /\ UNCHANGED store

RevalidateAndAccept ==
  /\ UnderLock("accept") /\ driver.copy.status = "Running"
  /\ Save(driver.run, With(driver.copy, "Accepted"))
  /\ GoTo("load") /\ UNCHANGED turn

\* Any of it may fail.
StepFails ==
  /\ up /\ driver.at \in {"step", "check", "idle?", "ask", "wait", "answer?", "apply", "accept"}
  /\ GoTo("failed")
  /\ UNCHANGED <<store, dispatched, handler, up, bounds>>

\* The error is recorded in the row as it is now.
LoadAfterError ==
  LET copy == row[driver.run] IN
  /\ UnderLock("failed")
  /\ \/ copy.status \in {"PausedUserAction", "Cancelled"} /\ Leave
     \/ copy.status \notin {"PausedUserAction", "Cancelled"} /\ Hold("report", copy)
  /\ UNCHANGED store

\* pause refuses a run that is not active, validate_persisted an accepted one; drive
\* then ends without having saved anything.
SaveError ==
  LET copy == driver.copy IN
  /\ UnderLock("report") /\ Leave
  /\ \/ copy.status \in Active /\ Save(driver.run, With(copy, "PausedUserAction"))
     \/ copy.status # "Accepted" /\ Save(driver.run, With(copy, "IncompatibleCodex"))
     \/ copy.status # "Accepted" /\ Save(driver.run, Blocked(copy, "error"))
     \/ copy.status \notin Active /\ UNCHANGED <<row, lock>>
  /\ UNCHANGED turn

\* After MAX_DRIVER_STEPS steps the row is loaded and blocked, whatever its status.
LoadExhausted ==
  /\ UnderLock("load") /\ ~StepsLeft
  /\ Hold("exhausted", row[driver.run])
  /\ UNCHANGED store

SaveExhausted ==
  /\ UnderLock("exhausted") /\ Leave
  /\ \/ driver.copy.status # "Accepted" /\ Save(driver.run, Blocked(driver.copy, "error"))
     \/ driver.copy.status = "Accepted" /\ UNCHANGED <<row, lock>>
  /\ UNCHANGED turn

\* Outside of a step an error of the store ends the drive (dispatch_drive logs it).
StoreFails ==
  /\ up /\ driver.at \in {"load", "failed", "report", "exhausted"}
  /\ driver' = NoDriver /\ abandoned' = abandoned \cup {driver.run}
  /\ UNCHANGED <<store, dispatched, handler, up, bounds>>

-----------------------------------------------------------------------------
(* Crash and start of the daemon *)

Crash ==
  /\ up /\ crashes < MaxCrashes
  /\ crashes' = crashes + 1 /\ up' = FALSE
  /\ driver' = NoDriver /\ dispatched' = {} /\ abandoned' = {}
  /\ handler' = [c \in Clients |-> NoRequest]
  /\ UNCHANGED <<store, overlapped, requests>>

DispatchableMutant(r) == row[r].status = "Running"  \* a waiting run is forgotten
Dispatchable(r) == row[r].status \in Active

\* run_server dispatches a drive for every run that is not stopped.
Restart ==
  /\ ~up /\ up' = TRUE
  /\ dispatched' = {r \in Runs : Dispatchable(r)}
  /\ UNCHANGED <<store, driver, handler, abandoned, bounds>>

-----------------------------------------------------------------------------
(* Specification *)

Request ==
  \E c \in Clients, r \in Runs : Start(c, r) \/ LoadForCancel(c, r) \/ LoadForResume(c, r)

Respond(c) == SaveCancel(c) \/ SaveResume(c) \/ Reactivate(c) \/ RefuseResume(c) \/ Dispatch(c)

Drive ==
  \/ \E r \in Runs : TakeDriverLock(r)
  \/ LoadStep \/ PrepareWorkspace
  \/ CheckCancelled("check", "idle?") \/ CheckCancelled("wait", "answer?") \/ NoticeCancel
  \/ TaskActive \/ TaskIdle \/ Ask
  \/ TurnCompletes \/ RetryAction \/ PausePermission \/ AcceptAnswer
  \/ RevalidateAndAccept
  \/ StepFails \/ LoadAfterError \/ SaveError \/ LoadExhausted \/ SaveExhausted
  \/ StoreFails

Next == Request \/ (\E c \in Clients : Respond(c)) \/ Drive \/ Crash \/ Restart

Spec == Init /\ [][Next]_vars

\* The tasks of the runtime make progress and a daemon that crashed is started
\* again. Waits for a task are bounded by wait_timeout; that a single request to
\* the app server is answered, or its connection closed, is an assumption.
FairSpec ==
  /\ Spec /\ WF_vars(Drive) /\ WF_vars(Restart)
  /\ \A c \in Clients : WF_vars(Respond(c))

-----------------------------------------------------------------------------
(* Properties *)

TypeOK ==
  /\ row \in [Runs -> Row] /\ lock \in Runs \cup {None}
  /\ turn \in [Runs -> [0..Last -> {"none", "open", "accepted"}]]
  /\ driver.run \in Runs \cup {None} /\ driver.copy \in Row
  /\ driver.steps \in 0..MaxDriverSteps
  /\ driver.at \in {"idle", "load", "step", "check", "idle?", "ask", "wait", "answer?",
                    "apply", "accept", "failed", "report", "exhausted"}
  /\ dispatched \subseteq Runs /\ abandoned \subseteq Runs
  /\ \A c \in Clients :
       /\ handler[c].op \in {"idle", "cancel", "resume", "dispatch"}
       /\ handler[c].run \in Runs \cup {None} /\ handler[c].copy \in Row
  /\ up \in BOOLEAN /\ overlapped \in BOOLEAN /\ requests \in 0..MaxRequests /\ crashes \in 0..MaxCrashes

Held == Active \cup {"PausedUserAction"}

\* No active run is forgotten: while the daemon is up, a drive works on it, waits for
\* driver_lock, or is about to be dispatched, unless the store failed under its drive.
ActiveRunIsDriven ==
  up => \A r \in Runs : row[r].status \in Active =>
    \/ driver.run = r
    \/ r \in dispatched \cup abandoned
    \/ \E c \in Clients : handler[c].op = "dispatch" /\ handler[c].run = r

\* However stale the copy that is saved, no request is asked before those it follows
\* were answered, the row never counts an answer whose turn was not accepted, and no run
\* is accepted before the last one was.
TurnsInOrder ==
  \A r \in Runs, n \in 0..Last :
    turn[r][n] # "none" \/ row[r].answers > n \/ (n = Last /\ row[r].status = "Accepted") =>
      \A m \in 0..Last : m < n => turn[r][m] = "accepted"

\* Until requests overlap with other work on their run, the repository is owned exactly
\* by the run that is neither stopped nor blocked.
LockIsHeldByOpenRun ==
  ~overlapped => \A r \in Runs : row[r].status \in Held <=> lock = r

\* Until requests overlap, the row stands at the turn that is pending: what was accepted
\* is never asked again, except for the answer that blocked the run.
RowMatchesTurns ==
  ~overlapped => \A r \in Runs, n \in 0..Last :
    /\ n < row[r].answers => turn[r][n] = "accepted"
    /\ n > row[r].answers => turn[r][n] = "none"
    /\ n = row[r].answers /\ turn[r][n] = "accepted" =>
         row[r].status \in {"Blocked", "Cancelled"}

\* Cancelled is final.
CancelledIsFinal ==
  [][\A r \in Runs : row[r].status = "Cancelled" => row'[r].status = "Cancelled"]_vars

\* Only one run of the repository is not stopped.
OneOpenRun ==
  \A r, s \in Runs : row[r].status \in Held /\ row[s].status \in Held => r = s

\* Every run that is driven stops, for good or for the user, across crashes of the daemon.
RunSettles ==
  \A r \in Runs :
    row[r].status \in Active ~> row[r].status \notin Active \/ r \in abandoned

Standing(r) ==
  IF row[r].status = "None" THEN "new"
  ELSE IF row[r].status \in Held THEN "open"
  ELSE IF row[r].status = "Cancelled" THEN "cancelled"
  ELSE IF row[r].status = "Accepted" THEN "accepted"
  ELSE "blocked"

Registry == INSTANCE RunRegistry
  WITH standing <- [r \in Runs |-> Standing(r)],
       answered <- [r \in Runs |-> row[r].answers],
       owner <- lock

\* Until requests overlap, the daemon keeps the promise of RunRegistry.
ImplementsRegistry ==
  Registry!Init /\ [][~overlapped' => Registry!Next]_(Registry!vars)

=============================================================================
