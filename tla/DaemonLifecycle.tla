--------------------------- MODULE DaemonLifecycle ---------------------------
(***************************************************************************)
(* How a daemon comes to serve. Every client (command line, MCP servers)   *)
(* calls ensure_daemon, which pings the socket and starts a daemon if      *)
(* nobody listens. A daemon takes over the path of a socket nobody listens *)
(* on, repairs the runs that release 0.2.5 left blocked, dispatches a      *)
(* drive for each active run, and only then accepts requests.              *)
(*                                                                         *)
(* Runs are numbered in the order of list_runs and belong to one           *)
(* repository. What a drive does is the matter of Daemon.                  *)
(***************************************************************************)
EXTENDS Naturals, FiniteSets

CONSTANTS
  Launchers,   \* clients
  Daemons,     \* processes that may be started
  NumRuns,     \* bound: runs in the store
  MaxFaults,   \* bound: crashes, failed starts and timeouts
  MaxStops,    \* bound: listeners that fail
  None, Ghost  \* no daemon, the earlier daemon

ASSUME LifecycleAssumption ==
  /\ NumRuns \in Nat /\ MaxFaults \in Nat /\ MaxStops \in Nat
  /\ None \notin Daemons \cup {Ghost} /\ Ghost \notin Daemons

VARIABLES
  socket,    \* who bound the file at socket_path
  daemon,    \* by daemon: step, run it looks at, runs it drives
  launcher,  \* by client: step, child it spawned, daemon that has its ping
  row,       \* by run: "CANDIDATE" (blocked and repairable), "ACTIVE", "STOPPED"
  repairs,   \* by run: how often it was repaired
  displaced, \* history: the file of a daemon that listened was removed by another one
  faults, stops

bounds == <<faults, stops>>

vars == <<socket, daemon, launcher, row, repairs, displaced, bounds>>

Runs == 1..NumRuns

Listening(d) == d \in Daemons /\ daemon[d].at \in {"recover", "repair", "dispatch", "serve"}
Alive(d)     == daemon[d].at \notin {"unborn", "exited"}

At(d, step) == daemon[d].at = step
Go(d, step) == daemon' = [daemon EXCEPT ![d].at = step]

\* An earlier daemon may have left its socket behind.
Init ==
  /\ socket \in {None, Ghost}
  /\ daemon = [d \in Daemons |-> [at |-> "unborn", run |-> 1, drives |-> {}]]
  /\ launcher = [l \in Launchers |-> [at |-> "ping", child |-> None, peer |-> None]]
  /\ row \in {rows \in [Runs -> {"CANDIDATE", "ACTIVE", "STOPPED"}] :
                Cardinality({r \in Runs : rows[r] = "ACTIVE"}) <= 1}
  /\ repairs = [r \in Runs |-> 0]
  /\ displaced = FALSE /\ faults = 0 /\ stops = 0

Fault == faults < MaxFaults /\ faults' = faults + 1 /\ UNCHANGED stops

-----------------------------------------------------------------------------
(* The daemon *)

store == <<row, repairs>>

\* The file at the path goes, whose ever it is by now.
RemoveFile(d) ==
  /\ socket' = None
  /\ displaced' = (displaced \/ (socket # d /\ Listening(socket)))

Step(d, at) == At(d, at) /\ UNCHANGED <<launcher, bounds>>

\* serve_daemon opens the store and connects to the app server.
Open(d) ==
  /\ Step(d, "open") /\ Go(d, "exists")
  /\ UNCHANGED <<socket, displaced, store>>

Exists(d) ==
  /\ Step(d, "exists")
  /\ Go(d, IF socket = None THEN "bind" ELSE "connect")
  /\ UNCHANGED <<socket, displaced, store>>

\* AlreadyRunning, if somebody listens.
Connect(d) ==
  /\ Step(d, "connect")
  /\ Go(d, IF Listening(socket) THEN "exited" ELSE "remove")
  /\ UNCHANGED <<socket, displaced, store>>

Remove(d) ==
  /\ Step(d, "remove")
  /\ \/ socket # None /\ RemoveFile(d) /\ Go(d, "bind")
     \/ socket = None /\ Go(d, "exited") /\ UNCHANGED <<socket, displaced>>
  /\ UNCHANGED store

\* Takes the path although it exists.
PathIsFreeMutant == TRUE

PathIsFree == socket = None

Bind(d) ==
  /\ Step(d, "bind")
  /\ \/ PathIsFree /\ socket' = d /\ Go(d, "recover")
     \/ ~PathIsFree /\ Go(d, "exited") /\ UNCHANGED socket
  /\ UNCHANGED <<displaced, store>>

\* An error ends the start of the drives, too.
AfterErrorMutant == "serve"

\* An error ends the recovery, and the start goes on.
AfterError == "dispatch"

\* Looks at the next blocked run; what it reads of the run and its task may not be
\* what a repair requires.
Recover(d) ==
  /\ Step(d, "recover")
  /\ LET rest == {r \in Runs : r >= daemon[d].run /\ row[r] = "CANDIDATE"} IN
     \/ rest = {} /\ Go(d, "dispatch")
     \/ /\ rest # {}
        /\ daemon' = [daemon EXCEPT ![d].run = CHOOSE r \in rest : \A other \in rest : r <= other,
                                    ![d].at = "repair"]
     \/ rest # {} /\ Go(d, AfterError)
  /\ UNCHANGED <<socket, displaced, store>>

\* Trusts what was read before the app server was asked.
StillCandidateMutant(r) == TRUE

StillCandidate(r) == row[r] = "CANDIDATE"

\* The lock of the repository belongs to its active run.
LockIsFree == \A r \in Runs : row[r] # "ACTIVE"

NextRun(d) == daemon[d].run + 1

\* recover_v025_verification_completion_collision, one transaction
Repair(d) ==
  LET r == daemon[d].run IN
  /\ Step(d, "repair")
  /\ \/ /\ StillCandidate(r) /\ LockIsFree
        /\ row' = [row EXCEPT ![r] = "ACTIVE"] /\ repairs' = [repairs EXCEPT ![r] = @ + 1]
        /\ daemon' = [daemon EXCEPT ![d].at = "recover", ![d].run = NextRun(d)]
     \/ ~(StillCandidate(r) /\ LockIsFree) /\ Go(d, AfterError) /\ UNCHANGED store
  /\ UNCHANGED <<socket, displaced>>

Dispatch(d) ==
  /\ Step(d, "dispatch")
  /\ daemon' = [daemon EXCEPT ![d].at = "serve", ![d].drives = {r \in Runs : row[r] = "ACTIVE"}]
  /\ UNCHANGED <<socket, displaced, store>>

\* A drive ends with its run.
DriveEnds(d) ==
  \E r \in daemon[d].drives :
    /\ Step(d, "serve") /\ row' = [row EXCEPT ![r] = "STOPPED"]
    /\ daemon' = [daemon EXCEPT ![d].drives = @ \ {r}]
    /\ UNCHANGED <<socket, displaced, repairs>>

\* The listener fails: it is dropped, and the files are removed.
StopServing(d) ==
  /\ At(d, "serve") /\ stops < MaxStops /\ stops' = stops + 1 /\ Go(d, "cleanup")
  /\ UNCHANGED <<socket, displaced, launcher, store, faults>>

CleanUp(d) ==
  /\ Step(d, "cleanup")
  /\ RemoveFile(d)
  /\ daemon' = [daemon EXCEPT ![d].at = "exited", ![d].drives = {}]
  /\ UNCHANGED store

Killed(d) == daemon' = [daemon EXCEPT ![d].at = "exited", ![d].drives = {}]

\* A crash, or a start that fails: the file stays.
Crash(d) ==
  /\ Alive(d) /\ Fault /\ Killed(d)
  /\ UNCHANGED <<socket, displaced, launcher, store>>

-----------------------------------------------------------------------------
(* ensure_daemon *)

LaunchStep(l, at) == launcher[l].at = at /\ UNCHANGED <<socket, displaced, store>>

\* Nobody listens at the path: NotFound or ConnectionRefused.
Absent == ~Listening(socket)

\* The first ping finds nobody.
Spawn(l) ==
  /\ LaunchStep(l, "ping") /\ Absent
  /\ \E d \in Daemons :
       /\ At(d, "unborn") /\ Go(d, "open")
       /\ launcher' = [launcher EXCEPT ![l].at = "wait", ![l].child = d]
  /\ UNCHANGED bounds

\* The connection waits in the backlog until the daemon accepts it.
Ping(l) ==
  /\ launcher[l].at \in {"ping", "wait"} /\ LaunchStep(l, launcher[l].at) /\ ~Absent
  /\ launcher' = [launcher EXCEPT ![l].at = "answer", ![l].peer = socket]
  /\ UNCHANGED <<daemon, bounds>>

Accepts(d) == At(d, "serve")

Answered(l) ==
  /\ LaunchStep(l, "answer") /\ Accepts(launcher[l].peer)
  /\ launcher' = [launcher EXCEPT ![l].at = "connected"]
  /\ UNCHANGED <<daemon, bounds>>

KillChild(l) ==
  IF launcher[l].child # None /\ Alive(launcher[l].child) THEN Killed(launcher[l].child)
                                                         ELSE UNCHANGED daemon

\* The daemon went away with the ping: Unreachable. A child is killed.
Unreachable(l) ==
  /\ LaunchStep(l, "answer") /\ ~Listening(launcher[l].peer)
  /\ KillChild(l) /\ launcher' = [launcher EXCEPT ![l].at = "failed"]
  /\ UNCHANGED bounds

\* Whether the child has exited: ExitedBeforeReady.
GivesUp(l) == At(launcher[l].child, "exited")

ChildExited(l) ==
  /\ LaunchStep(l, "wait") /\ GivesUp(l)
  /\ launcher' = [launcher EXCEPT ![l].at = "failed"]
  /\ UNCHANGED <<daemon, bounds>>

\* StartupTimedOut
TimesOut(l) ==
  /\ LaunchStep(l, "wait") /\ Fault
  /\ KillChild(l) /\ launcher' = [launcher EXCEPT ![l].at = "failed"]

\* The next command of the user.
CallAgain(l) ==
  /\ launcher[l].at \in {"failed", "connected"} /\ LaunchStep(l, launcher[l].at)
  /\ \E d \in Daemons : At(d, "unborn")
  /\ launcher' = [launcher EXCEPT ![l] = [at |-> "ping", child |-> None, peer |-> None]]
  /\ UNCHANGED <<daemon, bounds>>

-----------------------------------------------------------------------------
DaemonSteps(d) ==
  \/ Open(d) \/ Exists(d) \/ Connect(d) \/ Remove(d) \/ Bind(d)
  \/ Recover(d) \/ Repair(d) \/ Dispatch(d) \/ CleanUp(d)

LauncherSteps(l) == Spawn(l) \/ Ping(l) \/ Answered(l) \/ Unreachable(l) \/ ChildExited(l)

Next ==
  \/ \E d \in Daemons : DaemonSteps(d) \/ DriveEnds(d) \/ StopServing(d) \/ Crash(d)
  \/ \E l \in Launchers : LauncherSteps(l) \/ TimesOut(l) \/ CallAgain(l)

Spec == Init /\ [][Next]_vars

-----------------------------------------------------------------------------
(* Properties *)

TypeOK ==
  /\ socket \in Daemons \cup {None, Ghost}
  /\ \A d \in Daemons : daemon[d].run \in 1..NumRuns + 1 /\ daemon[d].drives \subseteq Runs
  /\ \A l \in Launchers : launcher[l].child \in Daemons \cup {None} /\ launcher[l].peer \in Daemons \cup {None}
  /\ row \in [Runs -> {"CANDIDATE", "ACTIVE", "STOPPED"}]

\* A single daemon owns the active runs: no two daemons serve the same state directory
\* (docs: a single per-user daemon runs on the server and owns active consensus runs),
\* and the one that serves is the one that clients reach, as long as no daemon removes
\* the file of another one that listens.
OneServer ==
  ~displaced => \A d, e \in Daemons : At(d, "serve") /\ Listening(e) => d = e /\ socket = d

\* A daemon that serves drives every active run, the ones it has just repaired and those
\* after a run whose repair failed included (recover_startup_runs stops at its first
\* error, run_server goes on).
ServesAllActive ==
  ~displaced => \A d \in Daemons : At(d, "serve") =>
    \A r \in Runs : row[r] = "ACTIVE" => r \in daemon[d].drives

\* Whatever daemons recover at the same time: a blocked run is repaired once, and a
\* repair never makes a second run of the repository active.
RepairedOnce ==
  /\ \A r \in Runs : repairs[r] <= 1
  /\ Cardinality({r \in Runs : row[r] = "ACTIVE"}) <= 1

=============================================================================
