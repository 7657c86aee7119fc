------------------------ MODULE DaemonLifecycleProofs ------------------------
(***************************************************************************)
(* For any number of clients, daemons, runs, crashes, timeouts and failed  *)
(* listeners: as long as no daemon takes the path from one that listens,   *)
(* one daemon serves, it drives every active run, and no run is repaired   *)
(* twice.                                                                  *)
(*                                                                         *)
(* OneServer and ServesAllActive speak of daemons that serve. The steps    *)
(* that could break them are those of a daemon that still starts, so the   *)
(* invariant is about every daemon that listens: it owns the path.         *)
(***************************************************************************)
EXTENDS DaemonLifecycle, FiniteSetTheorems, WellFoundedInduction, TLAPS

\* Steps of serve_daemon.
Steps == {"unborn", "open", "exists", "connect", "remove", "bind", "recover", "repair", "dispatch",
          "serve", "cleanup", "exited"}
Process == [at : Steps, run : 1..NumRuns + 1, drives : SUBSET Runs]
Client  == [at : {"ping", "wait", "answer", "connected", "failed"},
            child : Daemons \cup {None}, peer : Daemons \cup {None}]

Shape ==
  /\ socket \in Daemons \cup {None, Ghost}
  /\ daemon \in [Daemons -> Process]
  /\ \A d \in Daemons : At(d, "repair") => daemon[d].run \in Runs
  /\ launcher \in [Launchers -> Client]
  /\ row \in [Runs -> {"CANDIDATE", "ACTIVE", "STOPPED"}]
  /\ repairs \in [Runs -> Nat]
  /\ displaced \in BOOLEAN

\* The path is the socket of whoever listens.
OwnsPath == ~displaced => \A d \in Daemons : Listening(d) => socket = d

\* A blocked run was never repaired, and a repaired one is never a candidate again.
Repaired == \A r \in Runs : repairs[r] <= 1 /\ (row[r] = "CANDIDATE" => repairs[r] = 0)

\* The lock of the repository is held by one run.
OneActive == \A r, s \in Runs : row[r] = "ACTIVE" /\ row[s] = "ACTIVE" => r = s

Inv == Shape /\ OwnsPath /\ ServesAllActive /\ Repaired /\ OneActive

-----------------------------------------------------------------------------
(* What a step does to a daemon and to a client.                           *)

USE LifecycleAssumption DEF LifecycleAssumption, Runs, bounds, store, vars

\* A daemon goes to another step, and nothing else changes of it.
LEMMA GoFacts ==
  ASSUME daemon \in [Daemons -> Process], NEW d \in Daemons, NEW at \in Steps, Go(d, at)
  PROVE  /\ daemon' \in [Daemons -> Process]
         /\ daemon'[d].at = at /\ daemon'[d].run = daemon[d].run /\ daemon'[d].drives = daemon[d].drives
         /\ \A e \in Daemons \ {d} : daemon'[e] = daemon[e]
BY DEF Go, Process

\* A daemon that is gone drives nothing.
LEMMA KilledFacts ==
  ASSUME daemon \in [Daemons -> Process], NEW d \in Daemons, Killed(d)
  PROVE  /\ daemon' \in [Daemons -> Process]
         /\ daemon'[d].at = "exited" /\ daemon'[d].run = daemon[d].run
         /\ \A e \in Daemons \ {d} : daemon'[e] = daemon[e]
<1>1. daemon' = [daemon EXCEPT ![d] = [[daemon[d] EXCEPT !.at = "exited"] EXCEPT !.drives = {}]]
  BY DEF Killed
<1>2. /\ [[daemon[d] EXCEPT !.at = "exited"] EXCEPT !.drives = {}] \in Process
      /\ [[daemon[d] EXCEPT !.at = "exited"] EXCEPT !.drives = {}].at = "exited"
      /\ [[daemon[d] EXCEPT !.at = "exited"] EXCEPT !.drives = {}].run = daemon[d].run
  BY DEF Process, Steps
<1> QED BY <1>1, <1>2

\* list_runs has a first one of any of its runs.
LEMMA FirstRun ==
  ASSUME NEW R, R \subseteq Runs, R # {}
  PROVE  /\ (CHOOSE r \in R : \A other \in R : r <= other) \in R
         /\ \A other \in R : (CHOOSE r \in R : \A s \in R : r <= s) <= other
<1>1. R \subseteq Nat OBVIOUS
<1>2. PICK r \in R : \A other \in R : <<other, r>> \notin OpToRel(<, Nat)
  BY <1>1, WFMin, NatLessThanWellFounded, Zenon
<1>3. \A other \in R : r \in Nat /\ other \in Nat /\ ~(other < r)
  BY <1>1, <1>2 DEF OpToRel
<1>4. \A other \in R : r <= other BY <1>3
<1> QED BY <1>4

\* A step of one daemon, or none, that leaves the path and the store alone, when the daemon does not
\* begin to listen and drives all active runs if it serves.
LEMMA QuietStep ==
  ASSUME Inv, NEW d \in Daemons,
         daemon' \in [Daemons -> Process], \A e \in Daemons \ {d} : daemon'[e] = daemon[e],
         Listening(d)' => Listening(d),
         At(d, "serve")' => \A r \in Runs : row[r] = "ACTIVE" => r \in daemon'[d].drives,
         At(d, "repair")' => daemon'[d].run \in Runs,
         launcher' \in [Launchers -> Client],
         UNCHANGED <<socket, displaced, row, repairs>>
  PROVE  Inv'
<1>1. Shape' BY DEF Inv, Shape, At
<1>2. \A e : Listening(e)' => Listening(e) BY DEF Listening
<1>3. OwnsPath' BY <1>2 DEF Inv, OwnsPath
<1>4. ServesAllActive' BY DEF Inv, ServesAllActive, At
<1>5. Repaired' /\ OneActive' BY DEF Inv, Repaired, OneActive
<1> QED BY <1>1, <1>3, <1>4, <1>5 DEF Inv

\* A step of a client alone.
LEMMA ClientStep ==
  ASSUME Inv, launcher' \in [Launchers -> Client], UNCHANGED <<socket, displaced, row, repairs, daemon>>
  PROVE  Inv'
<1>1. Shape' BY DEF Inv, Shape, At
<1>2. \A e : Listening(e)' => Listening(e) BY DEF Listening
<1>3. OwnsPath' BY <1>2 DEF Inv, OwnsPath
<1>4. ServesAllActive' BY DEF Inv, ServesAllActive, At
<1>5. Repaired' /\ OneActive' BY DEF Inv, Repaired, OneActive
<1> QED BY <1>1, <1>3, <1>4, <1>5 DEF Inv

\* The file at the path goes: unless its daemon is displaced, nobody listens any more.
LEMMA RemoveFileStep ==
  ASSUME Inv, NEW d \in Daemons, RemoveFile(d), ~Listening(d),
         daemon' \in [Daemons -> Process], \A e \in Daemons \ {d} : daemon'[e] = daemon[e],
         daemon'[d].at \in {"bind", "exited"}, UNCHANGED <<launcher, row, repairs>>
  PROVE  Inv'
<1>1. Shape' BY DEF Inv, Shape, At, RemoveFile
<1>2. \A e : Listening(e)' => Listening(e) BY DEF Listening
<1>3. ASSUME ~displaced', NEW e \in Daemons, Listening(e)' PROVE FALSE
  <2>1. Listening(e) /\ socket = e BY <1>2, <1>3 DEF Inv, Shape, OwnsPath, RemoveFile
  <2>2. e # d BY <2>1
  <2> QED BY <1>3, <2>1, <2>2 DEF RemoveFile
<1>4. OwnsPath' BY <1>3 DEF OwnsPath
<1>5. ASSUME ~displaced', NEW e \in Daemons, At(e, "serve")' PROVE FALSE
  BY <1>3, <1>5 DEF Listening, At
<1>6. ServesAllActive' BY <1>5 DEF ServesAllActive
<1>7. Repaired' /\ OneActive' BY DEF Inv, Repaired, OneActive
<1> QED BY <1>1, <1>4, <1>6, <1>7 DEF Inv

-----------------------------------------------------------------------------
(* The steps.                                                              *)

\* Opening the store, probing the path, and its end without a socket of its own.
LEMMA ProbeStep ==
  ASSUME Inv, NEW d \in Daemons,
         Open(d) \/ Exists(d) \/ Connect(d) \/ (Remove(d) /\ socket = None) \/ StopServing(d)
  PROVE  Inv'
<1>1. daemon \in [Daemons -> Process] /\ launcher \in [Launchers -> Client] BY DEF Inv, Shape
<1>2. PICK at \in Steps \ {"serve", "repair", "recover", "dispatch"} : Go(d, at)
  BY DEF Open, Exists, Connect, Remove, StopServing, Steps
<1>3. UNCHANGED <<socket, displaced, row, repairs, launcher>>
  BY DEF Open, Exists, Connect, Remove, RemoveFile, StopServing, Step
<1>4. /\ daemon' \in [Daemons -> Process] /\ daemon'[d].at = at
      /\ \A e \in Daemons \ {d} : daemon'[e] = daemon[e]
  BY <1>1, <1>2, GoFacts
<1> QED BY <1>1, <1>2, <1>3, <1>4, QuietStep DEF Listening, At

\* Whoever binds found the path free, so nobody listens.
LEMMA BindStep ==
  ASSUME Inv, NEW d \in Daemons, Bind(d)
  PROVE  Inv'
<1>1. daemon \in [Daemons -> Process] /\ launcher \in [Launchers -> Client] BY DEF Inv, Shape
<1>2. UNCHANGED <<displaced, row, repairs, launcher>> BY DEF Bind, Step
<1>3. CASE Go(d, "exited") /\ UNCHANGED socket
  <2>1. /\ daemon' \in [Daemons -> Process] /\ daemon'[d].at = "exited"
        /\ \A e \in Daemons \ {d} : daemon'[e] = daemon[e]
    BY <1>1, <1>3, GoFacts DEF Steps
  <2> QED BY <1>1, <1>2, <1>3, <2>1, QuietStep DEF Listening, At
<1>4. CASE PathIsFree /\ socket' = d /\ Go(d, "recover")
  <2>1. /\ daemon' \in [Daemons -> Process] /\ daemon'[d].at = "recover"
        /\ \A e \in Daemons \ {d} : daemon'[e] = daemon[e]
    BY <1>1, <1>4, GoFacts DEF Steps
  <2>2. Shape' BY <1>2, <1>4, <2>1 DEF Inv, Shape, At
  <2>3. ASSUME ~displaced', NEW e \in Daemons, Listening(e)' PROVE e = d
    <3>1. SUFFICES ASSUME e # d PROVE FALSE OBVIOUS
    <3>2. Listening(e) BY <2>1, <2>3, <3>1 DEF Listening
    <3>3. socket = e BY <1>2, <2>3, <3>2 DEF Inv, OwnsPath
    <3> QED BY <1>4, <3>3 DEF PathIsFree
  <2>4. OwnsPath' BY <1>4, <2>3 DEF OwnsPath
  <2>5. ASSUME ~displaced', NEW e \in Daemons, At(e, "serve")' PROVE FALSE
    <3>1. e = d BY <2>3, <2>5 DEF Listening, At
    <3> QED BY <2>1, <2>5, <3>1 DEF At
  <2>6. ServesAllActive' BY <2>5 DEF ServesAllActive
  <2>7. Repaired' /\ OneActive' BY <1>2 DEF Inv, Repaired, OneActive
  <2> QED BY <2>2, <2>4, <2>6, <2>7 DEF Inv
<1> QED BY <1>3, <1>4 DEF Bind

\* The recovery looks at the next blocked run, or is over.
LEMMA RecoverStep ==
  ASSUME Inv, NEW d \in Daemons, Recover(d)
  PROVE  Inv'
<1>1. daemon \in [Daemons -> Process] /\ launcher \in [Launchers -> Client] BY DEF Inv, Shape
<1>2. UNCHANGED <<socket, displaced, row, repairs, launcher>> /\ Listening(d)
  BY DEF Recover, Step, At, Listening
<1> DEFINE rest == {r \in Runs : r >= daemon[d].run /\ row[r] = "CANDIDATE"}
           first == CHOOSE r \in rest : \A other \in rest : r <= other
<1>3. CASE Go(d, "dispatch")
  <2>1. /\ daemon' \in [Daemons -> Process] /\ daemon'[d].at = "dispatch"
        /\ \A e \in Daemons \ {d} : daemon'[e] = daemon[e]
    BY <1>1, <1>3, GoFacts DEF Steps
  <2> QED BY <1>1, <1>2, <2>1, QuietStep DEF At
<1>4. CASE rest # {} /\ daemon' = [daemon EXCEPT ![d].run = first, ![d].at = "repair"]
  <2>1. first \in Runs
    <3>1. rest \subseteq Runs OBVIOUS
    <3> HIDE DEF rest
    <3> QED BY <1>4, <3>1, FirstRun
  <2> HIDE DEF first
  <2>2. daemon' = [daemon EXCEPT ![d] = [[daemon[d] EXCEPT !.run = first] EXCEPT !.at = "repair"]]
    BY <1>4
  <2>3. /\ [[daemon[d] EXCEPT !.run = first] EXCEPT !.at = "repair"] \in Process
        /\ [[daemon[d] EXCEPT !.run = first] EXCEPT !.at = "repair"].at = "repair"
        /\ [[daemon[d] EXCEPT !.run = first] EXCEPT !.at = "repair"].run = first
    <3>1. first \in 1..NumRuns + 1 BY <2>1
    <3> QED BY <1>1, <3>1 DEF Process, Steps
  <2>4. /\ daemon' \in [Daemons -> Process] /\ daemon'[d].at = "repair" /\ daemon'[d].run = first
        /\ \A e \in Daemons \ {d} : daemon'[e] = daemon[e]
    BY <1>1, <2>2, <2>3
  <2> QED BY <1>1, <1>2, <2>1, <2>4, QuietStep DEF At
<1> QED BY <1>3, <1>4 DEF Recover, AfterError

\* A run is repaired in one transaction, by the only daemon that listens.
LEMMA RepairStep ==
  ASSUME Inv, NEW d \in Daemons, Repair(d)
  PROVE  Inv'
<1>1. daemon \in [Daemons -> Process] /\ launcher \in [Launchers -> Client] BY DEF Inv, Shape
<1>2. UNCHANGED <<socket, displaced, launcher>> /\ Listening(d) /\ daemon[d].run \in Runs
  BY DEF Repair, Step, At, Listening, Inv, Shape
<1>3. CASE Go(d, AfterError) /\ UNCHANGED <<row, repairs>>
  <2>1. /\ daemon' \in [Daemons -> Process] /\ daemon'[d].at = "dispatch"
        /\ \A e \in Daemons \ {d} : daemon'[e] = daemon[e]
    BY <1>1, <1>3, GoFacts DEF Steps, AfterError
  <2> QED BY <1>1, <1>2, <1>3, <2>1, QuietStep DEF At
<1>4. ASSUME NEW r \in Runs, r = daemon[d].run, StillCandidate(r), LockIsFree,
             row' = [row EXCEPT ![r] = "ACTIVE"], repairs' = [repairs EXCEPT ![r] = @ + 1],
             daemon' = [daemon EXCEPT ![d].at = "recover", ![d].run = NextRun(d)]
      PROVE  Inv'
  <2>1. daemon' = [daemon EXCEPT ![d] = [[daemon[d] EXCEPT !.at = "recover"] EXCEPT !.run = r + 1]]
    BY <1>4 DEF NextRun
  <2>2. /\ [[daemon[d] EXCEPT !.at = "recover"] EXCEPT !.run = r + 1] \in Process
        /\ [[daemon[d] EXCEPT !.at = "recover"] EXCEPT !.run = r + 1].at = "recover"
    <3>1. r + 1 \in 1..NumRuns + 1 OBVIOUS
    <3> QED BY <1>1, <3>1 DEF Process, Steps
  <2>3. /\ daemon' \in [Daemons -> Process] /\ daemon'[d].at = "recover"
        /\ \A e \in Daemons \ {d} : daemon'[e] = daemon[e]
    BY <1>1, <2>1, <2>2
  <2>4. /\ row' \in [Runs -> {"CANDIDATE", "ACTIVE", "STOPPED"}] /\ repairs' \in [Runs -> Nat]
        /\ row'[r] = "ACTIVE" /\ repairs'[r] = repairs[r] + 1
        /\ \A s \in Runs \ {r} : row'[s] = row[s] /\ repairs'[s] = repairs[s]
    BY <1>4 DEF Inv, Shape
  <2>5. Shape' BY <1>2, <2>3, <2>4 DEF Inv, Shape, At
  <2>6. \A e : Listening(e)' => Listening(e) BY <1>2, <2>3 DEF Listening
  <2>7. OwnsPath' BY <1>2, <2>6 DEF Inv, OwnsPath
  <2>8. ASSUME ~displaced', NEW e \in Daemons, At(e, "serve")' PROVE FALSE
    <3>1. e # d /\ Listening(e) BY <2>3, <2>8 DEF At, Listening
    <3> QED BY <1>2, <2>8, <3>1 DEF Inv, OwnsPath
  <2>9. ServesAllActive' BY <2>8 DEF ServesAllActive
  <2>10. Repaired' BY <1>4, <2>4 DEF Inv, Repaired, StillCandidate
  <2>11. OneActive' BY <1>4, <2>4 DEF OneActive, LockIsFree
  <2> QED BY <2>5, <2>7, <2>9, <2>10, <2>11 DEF Inv
<1> QED BY <1>2, <1>3, <1>4 DEF Repair

\* Every active run is driven before the first request is accepted.
LEMMA DispatchStep ==
  ASSUME Inv, NEW d \in Daemons, Dispatch(d)
  PROVE  Inv'
<1>1. daemon \in [Daemons -> Process] /\ launcher \in [Launchers -> Client] BY DEF Inv, Shape
<1>2. UNCHANGED <<socket, displaced, row, repairs, launcher>> /\ Listening(d)
  BY DEF Dispatch, Step, At, Listening
<1> DEFINE active == {r \in Runs : row[r] = "ACTIVE"}
           next == [[daemon[d] EXCEPT !.at = "serve"] EXCEPT !.drives = active]
<1>3. daemon' = [daemon EXCEPT ![d] = next] BY DEF Dispatch
<1>4. next \in Process /\ next.at = "serve" /\ next.drives = active
  <2>1. active \subseteq Runs OBVIOUS
  <2> HIDE DEF active
  <2> QED BY <1>1, <2>1 DEF Process, Steps
<1> HIDE DEF next
<1>5. /\ daemon' \in [Daemons -> Process] /\ daemon'[d].at = "serve" /\ daemon'[d].drives = active
      /\ \A e \in Daemons \ {d} : daemon'[e] = daemon[e]
  BY <1>1, <1>3, <1>4
<1> QED BY <1>1, <1>2, <1>5, QuietStep DEF At

\* A drive that ends leaves no other run without one.
LEMMA DriveEndsStep ==
  ASSUME Inv, NEW d \in Daemons, DriveEnds(d)
  PROVE  Inv'
<1>1. daemon \in [Daemons -> Process] BY DEF Inv, Shape
<1>2. PICK r \in daemon[d].drives :
        /\ At(d, "serve") /\ row' = [row EXCEPT ![r] = "STOPPED"]
        /\ daemon' = [daemon EXCEPT ![d].drives = @ \ {r}]
        /\ UNCHANGED <<launcher, socket, displaced, repairs>>
  BY DEF DriveEnds, Step
<1>3. r \in Runs BY <1>1, <1>2 DEF Process
<1>4. /\ daemon' = [daemon EXCEPT ![d] = [daemon[d] EXCEPT !.drives = @ \ {r}]]
      /\ [daemon[d] EXCEPT !.drives = @ \ {r}] \in Process
      /\ [daemon[d] EXCEPT !.drives = @ \ {r}].at = daemon[d].at
      /\ [daemon[d] EXCEPT !.drives = @ \ {r}].run = daemon[d].run
      /\ [daemon[d] EXCEPT !.drives = @ \ {r}].drives = daemon[d].drives \ {r}
  BY <1>1, <1>2 DEF Process
<1>5. /\ daemon' \in [Daemons -> Process]
      /\ daemon'[d].at = daemon[d].at /\ daemon'[d].run = daemon[d].run
      /\ daemon'[d].drives = daemon[d].drives \ {r}
      /\ \A e \in Daemons \ {d} : daemon'[e] = daemon[e]
  BY <1>1, <1>4
<1>6. /\ row' \in [Runs -> {"CANDIDATE", "ACTIVE", "STOPPED"}] /\ row'[r] = "STOPPED"
      /\ \A s \in Runs \ {r} : row'[s] = row[s]
  BY <1>2, <1>3 DEF Inv, Shape
<1>7. Shape' BY <1>2, <1>5, <1>6 DEF Inv, Shape, At
<1>8. \A e : Listening(e)' => Listening(e) BY <1>5 DEF Listening
<1>9. OwnsPath' BY <1>2, <1>8 DEF Inv, OwnsPath
<1>10. ServesAllActive' BY <1>2, <1>5, <1>6 DEF Inv, ServesAllActive, At
<1>11. Repaired' /\ OneActive' BY <1>2, <1>6 DEF Inv, Repaired, OneActive
<1> QED BY <1>7, <1>9, <1>10, <1>11 DEF Inv

\* Removing a file at the path, before a bind or at the end.
LEMMA RemovalStep ==
  ASSUME Inv, NEW d \in Daemons, CleanUp(d) \/ (Remove(d) /\ socket # None)
  PROVE  Inv'
<1>1. daemon \in [Daemons -> Process] BY DEF Inv, Shape
<1>2. RemoveFile(d) /\ ~Listening(d) /\ UNCHANGED <<launcher, row, repairs>>
  BY DEF CleanUp, Remove, Step, At, Listening
<1>3. /\ daemon' \in [Daemons -> Process] /\ daemon'[d].at \in {"bind", "exited"}
      /\ \A e \in Daemons \ {d} : daemon'[e] = daemon[e]
  <2>1. CASE CleanUp(d) BY <1>1, <2>1, KilledFacts DEF CleanUp, Killed
  <2>2. CASE Remove(d) BY <1>1, <2>2, GoFacts DEF Remove, Steps
  <2> QED BY <2>1, <2>2
<1> QED BY <1>2, <1>3, RemoveFileStep

\* A daemon is gone, and its file stays.
LEMMA KillStep ==
  ASSUME Inv, NEW d \in Daemons, Killed(d), launcher' \in [Launchers -> Client],
         UNCHANGED <<socket, displaced, row, repairs>>
  PROVE  Inv'
<1>1. daemon \in [Daemons -> Process] BY DEF Inv, Shape
<1>2. /\ daemon' \in [Daemons -> Process] /\ daemon'[d].at = "exited"
      /\ \A e \in Daemons \ {d} : daemon'[e] = daemon[e]
  BY <1>1, KilledFacts
<1> QED BY <1>2, QuietStep DEF Listening, At

\* The clients start daemons and kill their children.
LEMMA LauncherStep ==
  ASSUME Inv, NEW l \in Launchers, LauncherSteps(l) \/ TimesOut(l) \/ CallAgain(l)
  PROVE  Inv'
<1>1. /\ daemon \in [Daemons -> Process] /\ launcher \in [Launchers -> Client]
      /\ socket \in Daemons \cup {None, Ghost}
  BY DEF Inv, Shape
<1>2. UNCHANGED <<socket, displaced, row, repairs>>
  BY DEF LauncherSteps, TimesOut, CallAgain, Spawn, Ping, Answered, Unreachable, ChildExited, LaunchStep
<1>3. launcher' \in [Launchers -> Client]
  <2>1. CASE Spawn(l)
    <3>1. PICK d \in Daemons : launcher' = [launcher EXCEPT ![l].at = "wait", ![l].child = d]
      BY <2>1 DEF Spawn
    <3>2. [[launcher[l] EXCEPT !.at = "wait"] EXCEPT !.child = d] \in Client BY <1>1 DEF Client
    <3> QED BY <1>1, <3>1, <3>2
  <2>2. CASE Ping(l) BY <1>1, <2>2 DEF Ping, Absent, Listening, Client
  <2>3. CASE Answered(l) BY <1>1, <2>3 DEF Answered, Client
  <2>4. CASE Unreachable(l) \/ ChildExited(l) \/ TimesOut(l)
    BY <1>1, <2>4 DEF Unreachable, ChildExited, TimesOut, Client
  <2>5. CASE CallAgain(l) BY <1>1, <2>5 DEF CallAgain, Client
  <2> QED BY <2>1, <2>2, <2>3, <2>4, <2>5 DEF LauncherSteps
<1>4. CASE Spawn(l)
  <2>1. PICK d \in Daemons : At(d, "unborn") /\ Go(d, "open") BY <1>4 DEF Spawn
  <2>2. /\ daemon' \in [Daemons -> Process] /\ daemon'[d].at = "open"
        /\ \A e \in Daemons \ {d} : daemon'[e] = daemon[e]
    BY <1>1, <2>1, GoFacts DEF Steps
  <2> QED BY <1>2, <1>3, <2>2, QuietStep DEF Listening, At
<1>5. CASE Unreachable(l) \/ TimesOut(l)
  <2>1. UNCHANGED daemon \/ \E d \in Daemons : Killed(d)
    BY <1>1, <1>5 DEF Unreachable, TimesOut, KillChild, Client
  <2> QED BY <1>2, <1>3, <2>1, ClientStep, KillStep
<1>6. CASE UNCHANGED daemon BY <1>2, <1>3, <1>6, ClientStep
<1> QED BY <1>4, <1>5, <1>6 DEF LauncherSteps, Ping, Answered, ChildExited, CallAgain

-----------------------------------------------------------------------------
(* The invariant holds.                                                    *)

\* What is true when the daemons start and every step keeps.
THEOREM Invariance == Spec => []Inv
<1>1. Init => Inv
  <2> SUFFICES ASSUME Init PROVE Inv OBVIOUS
  <2>1. \A d \in Daemons : daemon[d].at = "unborn" BY DEF Init
  <2>2. Shape
    <3>1. [at |-> "unborn", run |-> 1, drives |-> {}] \in Process BY DEF Process, Steps
    <3>2. [at |-> "ping", child |-> None, peer |-> None] \in Client BY DEF Client
    <3> QED BY <2>1, <3>1, <3>2 DEF Init, Shape, At
  <2>3. OwnsPath /\ ServesAllActive BY <2>1 DEF OwnsPath, ServesAllActive, Listening, At
  <2>4. Repaired BY DEF Init, Repaired
  <2>5. OneActive
    <3> DEFINE active == {r \in Runs : row[r] = "ACTIVE"}
    <3>1. Cardinality(active) <= 1 /\ active \subseteq Runs BY DEF Init
    <3>2. ASSUME NEW r \in active, NEW s \in active, r # s PROVE FALSE
      <4>1. IsFiniteSet(active)
        <5>1. IsFiniteSet(Runs) BY FS_Interval
        <5> QED BY <3>1, <5>1, FS_Subset
      <4>2. {r, s} \subseteq active BY <3>2
      <4>3. Cardinality({r, s}) = 2
        <5>1. IsFiniteSet({r}) /\ Cardinality({r}) = 1 BY FS_Singleton
        <5>2. {r, s} = {r} \cup {s} /\ s \notin {r} BY <3>2
        <5> QED BY <5>1, <5>2, FS_AddElement
      <4>4. Cardinality({r, s}) <= Cardinality(active) /\ Cardinality(active) \in Nat
        BY <4>1, <4>2, FS_Subset, FS_CardinalityType
      <4> HIDE DEF active
      <4> QED BY <3>1, <4>3, <4>4
    <3> QED BY <3>2 DEF OneActive
  <2> QED BY <2>2, <2>3, <2>4, <2>5 DEF Inv
<1>2. Inv /\ [Next]_vars => Inv'
  <2> SUFFICES ASSUME Inv, [Next]_vars PROVE Inv' OBVIOUS
  <2>1. ASSUME NEW d \in Daemons, DaemonSteps(d) \/ DriveEnds(d) \/ StopServing(d) \/ Crash(d) PROVE Inv'
    <3>1. CASE Open(d) \/ Exists(d) \/ Connect(d) \/ Remove(d) \/ StopServing(d)
      BY <3>1, ProbeStep, RemovalStep
    <3>2. CASE Bind(d) \/ Recover(d) \/ Repair(d) \/ Dispatch(d)
      BY <3>2, BindStep, RecoverStep, RepairStep, DispatchStep
    <3>3. CASE CleanUp(d) \/ DriveEnds(d) BY <3>3, RemovalStep, DriveEndsStep
    <3>4. CASE Crash(d) BY <3>4, KillStep DEF Crash, Inv, Shape
    <3> QED BY <2>1, <3>1, <3>2, <3>3, <3>4 DEF DaemonSteps
  <2>2. ASSUME NEW l \in Launchers, LauncherSteps(l) \/ TimesOut(l) \/ CallAgain(l) PROVE Inv'
    BY <2>2, LauncherStep
  <2>3. CASE UNCHANGED vars
    BY <2>3, ClientStep DEF Inv, Shape
  <2> QED BY <2>1, <2>2, <2>3 DEF Next
<1> QED BY <1>1, <1>2, PTL DEF Spec

\* Every state variable has its type.
THEOREM TypeCorrect == Spec => []TypeOK
<1>1. Inv => TypeOK BY DEF Inv, Shape, Process, Client, TypeOK
<1> QED BY <1>1, Invariance, PTL

\* However many clients start daemons at the same time and whichever of them die: unless a daemon
\* removes the file of one that listens, one daemon serves and clients reach it.
THEOREM OneServerHolds == Spec => []OneServer
<1>1. Inv => OneServer BY DEF Inv, OwnsPath, OneServer, Listening, At
<1> QED BY <1>1, Invariance, PTL

\* The daemon that serves drives every active run, although the recovery of another run failed, and
\* other daemons recover the same runs.
THEOREM ServesAllActiveHolds == Spec => []ServesAllActive
<1>1. Inv => ServesAllActive BY DEF Inv
<1> QED BY <1>1, Invariance, PTL

\* A blocked run is repaired once whatever daemons recover it, and takes the lock of a repository
\* only when no other run has it.
THEOREM RepairedOnceHolds == Spec => []RepairedOnce
<1>1. ASSUME Inv PROVE RepairedOnce
  <2> DEFINE active == {r \in Runs : row[r] = "ACTIVE"}
  <2>1. active = {} \/ \E r : active = {r}
    <3>1. \A r, s \in active : r = s BY <1>1 DEF Inv, OneActive
    <3> QED BY <3>1
  <2>2. Cardinality(active) \in {0, 1}
    <3> HIDE DEF active
    <3> QED BY <2>1, FS_EmptySet, FS_Singleton
  <2> QED BY <1>1, <2>2 DEF Inv, Repaired, RepairedOnce
<1> QED BY <1>1, Invariance, PTL

=============================================================================
