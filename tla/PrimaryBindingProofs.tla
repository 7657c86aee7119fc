------------------------- MODULE PrimaryBindingProofs -------------------------
(***************************************************************************)
(* The Primary's binding, for any number of generations, forks and turns:  *)
(* an open request follows the active generation, the forks mirror one     *)
(* history, and no turn that was started is forgotten when the binding     *)
(* moves.                                                                  *)
(***************************************************************************)
EXTENDS PrimaryBinding, TLAPS

Places == {"off", "source", "binding", "fork", "direct", "activate", "ready",
           "opened", "send", "started", "wait"}

Bindings == [mode : {"DIRECT"}, task : {Source}, history : {None}]
            \cup [mode : {"FORK"}, task : DOMAIN forks, history : 0..MaxHistory]

Turns == [request : Nat, task : 0..Len(forks), status : {"inProgress"} \cup Ended, heard : BOOLEAN]

Runs == [status : {"RUNNING", "PAUSED", "BLOCKED"}, request : 0..MaxRequests, notIdle : BOOLEAN]

Drives == [at : Places, rotate : DOMAIN bindings \cup {None},
           seen : (1..MaxHistory) \cup {None}, fork : DOMAIN forks \cup {None}]

Sources == [history : 1..MaxHistory, state : {"idle", "notLoaded", "active", "systemError"},
            capable : BOOLEAN, goal : BOOLEAN]

\* The variables have their types.
Shape ==
  /\ run \in Runs
  /\ pending \in Rows \cup {None}
  /\ pending # None => (pending.task = None <=> pending.turn = None)
  /\ bindings \in Seq(Bindings)
  /\ \A a \in archived : a.turn \in DOMAIN turns /\ a.task \in 0..Len(forks)
  /\ patch \in DOMAIN bindings \cup {None}
  /\ drive \in Drives
  /\ source \in Sources
  /\ forks \in Seq(1..MaxHistory)
  /\ loaded \subseteq DOMAIN forks
  /\ turns \in Seq(Turns)

\* Where the drive is tells what it has found and made.
Position ==
  /\ drive.at = "direct" => bindings = <<>>
  /\ drive.at \in {"binding", "ready", "opened", "send", "started", "wait"} => bindings # <<>>
  /\ drive.at \in {"opened", "send", "started", "wait"} => pending # None
  /\ drive.at \in {"send", "started"} => pending.turn = None /\ pending.intent
  /\ drive.at = "wait" => pending.turn # None
  /\ drive.at \in {"fork", "activate"} => drive.seen # None
  /\ drive.at = "activate" => drive.fork # None /\ forks[drive.fork] = drive.seen
  /\ drive.at = "started" => turns # <<>>
  /\ bindings = <<>> => turns = <<>>

\* Turns that were started for the open request and not given up on the record.
Outstanding == {t \in DOMAIN turns : turns[t].request = run.request /\ \A a \in archived : a.turn # t}

\* There is at most one of them; it runs on the Primary's task; the row shows that it
\* may have been sent, and names no other turn; none is left when another is started.
Accounted ==
  /\ \A t \in DOMAIN turns : turns[t].request <= run.request
  /\ \A t, u \in Outstanding : t = u
  /\ \A t \in Outstanding : turns[t].task = Bound.task
  /\ \A t \in Outstanding : pending # None /\ ~Unsent(pending)
  /\ \A t \in Outstanding : pending.turn \in {None, t}
  /\ drive.at = "send" => Outstanding = {}
  /\ drive.at = "started" => Outstanding \subseteq {Len(turns)}

\* The inductive invariant.
Inv == Shape /\ Position /\ Accounted /\ PendingOnActive /\ MirrorIsExact

-----------------------------------------------------------------------------
(* Rows, runs and drives.                                                  *)

\* A row is a record, and none of its tasks, turns and generations is None by chance.
LEMMA RowFacts ==
  ASSUME Shape
  PROVE  /\ None \notin Rows
         /\ Len(bindings) \in Nat /\ DOMAIN bindings = 1..Len(bindings)
         /\ Len(forks) \in Nat /\ DOMAIN forks = 1..Len(forks)
         /\ Len(turns) \in Nat /\ DOMAIN turns = 1..Len(turns)
         /\ \A t \in DOMAIN turns : t # None /\ t \in Nat
         /\ \A f \in 0..Len(forks) : f # None
         /\ \A g \in DOMAIN bindings : g # None /\ g \in Nat
<1>1. /\ Len(bindings) \in Nat /\ DOMAIN bindings = 1..Len(bindings)
      /\ Len(forks) \in Nat /\ DOMAIN forks = 1..Len(forks)
      /\ Len(turns) \in Nat /\ DOMAIN turns = 1..Len(turns)
  BY DEF Shape
<1>2. Rows \subseteq [gen : Nat \cup {None}, task : Nat \cup {None}, turn : Nat \cup {None}, intent : BOOLEAN]
  BY <1>1 DEF Rows
<1> QED BY <1>1, <1>2, BindingAssumption

\* An empty row.
LEMMA NewRowFacts ==
  ASSUME Shape, NEW gen \in DOMAIN bindings \cup {None}
  PROVE  /\ NewRow(gen) \in Rows /\ NewRow(gen) # None
         /\ NewRow(gen).gen = gen /\ NewRow(gen).task = None /\ NewRow(gen).turn = None
<1>1. NewRow(gen) \in Rows
  BY DEF NewRow, Rows
<1> QED BY <1>1, RowFacts DEF NewRow

\* A drive that stops keeps the open request, and nothing of what it found.
LEMMA StopFacts ==
  ASSUME Shape, NEW status \in {"RUNNING", "PAUSED", "BLOCKED"}, Stop(status)
  PROVE  run' \in Runs /\ run'.request = run.request /\ drive' \in Drives /\ drive'.at = "off"
BY DEF Shape, Stop, Off, Runs, Drives, Places

\* A drive that goes on keeps what it found.
LEMMA GoToFacts ==
  ASSUME Shape, NEW at \in Places, GoTo(at)
  PROVE  /\ drive' \in Drives /\ drive'.at = at
         /\ drive'.seen = drive.seen /\ drive'.fork = drive.fork /\ drive'.rotate = drive.rotate
BY DEF Shape, GoTo, Drives

-----------------------------------------------------------------------------
(* Steps that leave bindings, forks and turns alone.                       *)

\* What is given up on the record is no longer outstanding, and nothing else changes that.
LEMMA OutstandingShrinks ==
  ASSUME UNCHANGED turns, run'.request = run.request, archived \subseteq archived'
  PROVE  Outstanding' \subseteq Outstanding
BY DEF Outstanding

\* The drive moved, and the row and the archive with it.
LEMMA RowMoves ==
  ASSUME Inv, UNCHANGED <<bindings, forks, loaded, turns>>,
         patch' \in DOMAIN bindings \cup {None},
         run' \in Runs, run'.request = run.request,
         drive' \in Drives, source' \in Sources, Position',
         archived \subseteq archived',
         \A a \in archived' : a.turn \in DOMAIN turns /\ a.task \in 0..Len(forks),
         pending' \in Rows \cup {None},
         pending' # None => /\ pending'.task = None <=> pending'.turn = None
                            /\ pending'.gen \in {None, Active},
         \A t \in Outstanding' : /\ pending' # None
                                 /\ pending'.turn \in {None, t}
                                 /\ pending'.turn = None => pending'.intent,
         drive'.at = "send" => Outstanding' = {},
         drive'.at = "started" => Outstanding' \subseteq {Len(turns)}
  PROVE  Inv'
<1>1. Shape'
  BY DEF Inv, Shape, Rows, Bindings, Turns, Drives
<1>2. Accounted'
  <2>1. Outstanding' \subseteq Outstanding
    BY OutstandingShrinks
  <2>2. \A t \in Outstanding' : ~Unsent(pending)'
    BY <1>1, RowFacts DEF Unsent, Outstanding
  <2> QED BY <2>1, <2>2 DEF Inv, Accounted, Bound, Active
<1>3. PendingOnActive' /\ MirrorIsExact'
  BY DEF Inv, PendingOnActive, MirrorIsExact, Active
<1> QED BY <1>1, <1>2, <1>3 DEF Inv

\* The drive moved, and nothing else.
LEMMA DriveMoves ==
  ASSUME Inv, UNCHANGED <<pending, bindings, archived, patch, forks, loaded, turns>>,
         run' \in Runs, run'.request = run.request,
         drive' \in Drives, source' \in Sources, Position',
         drive'.at \notin {"send", "started"}
  PROVE  Inv'
<1>1. Outstanding' = Outstanding
  BY DEF Outstanding
<1>2. \A t \in Outstanding : /\ pending # None
                             /\ pending.turn \in {None, t}
                             /\ pending.turn = None => pending.intent
  BY DEF Inv, Accounted, Unsent, Shape
<1>3. \A a \in archived : a.turn \in DOMAIN turns /\ a.task \in 0..Len(forks)
  BY DEF Inv, Shape
<1>4. /\ pending \in Rows \cup {None} /\ patch \in DOMAIN bindings \cup {None}
      /\ pending # None => /\ pending.task = None <=> pending.turn = None
                           /\ pending.gen \in {None, Active}
  BY DEF Inv, Shape, PendingOnActive
<1> QED BY <1>1, <1>2, <1>3, <1>4, RowMoves

\* The drive stopped, or was stopped.
LEMMA DriveStops ==
  ASSUME Inv, UNCHANGED <<pending, bindings, archived, patch, source, forks, loaded, turns>>,
         run' \in Runs, run'.request = run.request, drive' \in Drives, drive'.at = "off"
  PROVE  Inv'
<1>1. Position'
  BY DEF Inv, Position
<1>2. source' \in Sources
  BY DEF Inv, Shape
<1> QED BY <1>1, <1>2, DriveMoves

\* Stop, of a drive that changed nothing.
LEMMA StopStep ==
  ASSUME Inv, UNCHANGED <<pending, bindings, archived, patch, source, forks, loaded, turns>>,
         NEW status \in {"RUNNING", "PAUSED", "BLOCKED"}, Stop(status)
  PROVE  Inv'
BY StopFacts, DriveStops DEF Inv

\* GoTo, of a drive that changed nothing.
LEMMA GoToStep ==
  ASSUME Inv, UNCHANGED <<run, pending, bindings, archived, patch, source, forks, loaded, turns>>,
         NEW at \in {"source", "direct", "binding", "ready", "opened", "wait"}, GoTo(at),
         at = "direct" => bindings = <<>>,
         at \in {"binding", "ready", "opened", "wait"} => bindings # <<>>,
         at \in {"opened", "wait"} => pending # None,
         at = "wait" => pending.turn # None
  PROVE  Inv'
<1>1. drive' \in Drives /\ drive'.at = at
  BY GoToFacts DEF Inv, Places
<1>2. Position'
  BY <1>1 DEF Inv, Position
<1>3. source' \in Sources /\ run' \in Runs
  BY DEF Inv, Shape
<1> QED BY <1>1, <1>2, <1>3, DriveMoves

-----------------------------------------------------------------------------
(* The drive prepares the Primary's task.                                  *)

\* A known answer needs no task: the drive waits for it on the task of its row.
LEMMA ReadEvidenceStep == ASSUME Inv, ReadEvidence PROVE Inv'
<1>1. AnswerKnown /\ UNCHANGED <<pending, bindings, archived, patch, source, forks, loaded, turns>>
  BY DEF ReadEvidence, tasks
<1>2. pending # None /\ pending.turn # None
  BY <1>1 DEF AnswerKnown
<1>3. turns # <<>> /\ bindings # <<>>
  <2>1. pending.turn \in DOMAIN turns
    BY <1>2 DEF Inv, Shape, Rows
  <2> QED BY <2>1 DEF Inv, Position
<1>4. CASE GoTo("wait") /\ UNCHANGED run
  BY <1>1, <1>2, <1>3, <1>4, GoToStep
<1>5. CASE Stop("BLOCKED")
  BY <1>1, <1>5, StopStep
<1> QED BY <1>4, <1>5 DEF ReadEvidence

\* Without a binding the source is read next; an unbound row is bound to the active one.
LEMMA BindPendingStep == ASSUME Inv, BindPending PROVE Inv'
<1>1. UNCHANGED <<bindings, archived, patch, source, forks, loaded, turns>>
  BY DEF BindPending, tasks
<1>2. CASE GoTo("source") /\ UNCHANGED <<run, pending>>
  BY <1>1, <1>2, GoToStep
<1>3. CASE bindings # <<>> /\ GoTo("binding") /\ UNCHANGED <<run, pending>>
  BY <1>1, <1>3, GoToStep
<1>4. CASE Stop("BLOCKED") /\ UNCHANGED pending
  BY <1>1, <1>4, StopStep
<1>5. CASE /\ bindings # <<>> /\ OpenGeneration = None /\ pending.task = None
           /\ pending' = [pending EXCEPT !.gen = Active]
           /\ GoTo("binding") /\ UNCHANGED run
  <2>1. Active \in DOMAIN bindings /\ Active # None
    BY <1>5, RowFacts DEF Inv, Shape, Active
  <2>2. pending # None
    BY <1>5, <2>1 DEF OpenGeneration
  <2>3. /\ pending' \in Rows /\ pending'.gen = Active /\ pending'.task = pending.task
        /\ pending'.turn = pending.turn /\ pending'.intent = pending.intent
    BY <1>5, <2>1, <2>2 DEF Inv, Shape, Rows
  <2>4. drive' \in Drives /\ drive'.at = "binding"
    BY <1>5, GoToFacts DEF Inv, Places
  <2>5. Position'
    BY <1>1, <1>5, <2>4 DEF Inv, Position
  <2>6. Outstanding' = Outstanding
    BY <1>1, <1>5 DEF Outstanding
  <2>7. \A t \in Outstanding : pending.turn \in {None, t} /\ (pending.turn = None => pending.intent)
    BY DEF Inv, Accounted, Unsent, Shape
  <2>8. pending' # None => pending'.task = None <=> pending'.turn = None
    BY <2>2, <2>3 DEF Inv, Shape
  <2>9. pending' # None
    BY <2>3, RowFacts DEF Inv
  <2>10. /\ run' \in Runs /\ source' \in Sources /\ patch' \in DOMAIN bindings \cup {None}
         /\ \A a \in archived' : a.turn \in DOMAIN turns /\ a.task \in 0..Len(forks)
    BY <1>1, <1>5 DEF Inv, Shape
  <2> QED BY <1>1, <1>5, <2>3, <2>4, <2>5, <2>6, <2>7, <2>8, <2>9, <2>10, RowMoves
<1> QED BY <1>2, <1>3, <1>4, <1>5 DEF BindPending

\* The bound fork was read: it is there, and nothing is written.
LEMMA BindingReadStep == ASSUME Inv, BindingRead PROVE Inv'
<1>1. /\ bindings # <<>> /\ GoTo("ready")
      /\ UNCHANGED <<run, pending, bindings, archived, patch, source, forks, loaded, turns>>
  BY DEF BindingRead, Drive, store, tasks, Inv, Position
<1> QED BY <1>1, GoToStep

\* A fork that cannot be read is replaced only while the request is unsent; otherwise the
\* run stops.
LEMMA ForkUnreadableStep == ASSUME Inv, ForkUnreadable PROVE Inv'
<1>1. /\ bindings # <<>>
      /\ UNCHANGED <<pending, bindings, archived, patch, source, forks, loaded, turns>>
  BY DEF ForkUnreadable, Drive, tasks, Inv, Position
<1>2. CASE Stop("PAUSED")
  BY <1>1, <1>2, StopStep
<1>3. CASE /\ drive' = [drive EXCEPT !.at = "source", !.rotate = IF pending = None THEN None ELSE Active]
           /\ UNCHANGED run
  <2>1. Active \in DOMAIN bindings
    BY <1>1, RowFacts DEF Inv, Shape, Active
  <2>2. drive' \in Drives /\ drive'.at = "source"
    BY <1>1, <1>3, <2>1 DEF Inv, Shape, Drives, Places
  <2>3. Position'
    BY <1>1, <1>3, <2>2 DEF Inv, Position
  <2>4. run' \in Runs /\ source' \in Sources
    BY <1>1, <1>3 DEF Inv, Shape
  <2> QED BY <1>1, <1>3, <2>2, <2>3, <2>4, DriveMoves
<1> QED BY <1>2, <1>3 DEF ForkUnreadable

\* A fork whose history was never recorded is replaced only while no request is open.
LEMMA ReplaceLegacyForkStep == ASSUME Inv, ReplaceLegacyFork PROVE Inv'
<1>1. UNCHANGED <<pending, bindings, archived, patch, source, forks, loaded, turns>>
  BY DEF ReplaceLegacyFork, tasks
<1>2. (GoTo("source") /\ UNCHANGED run) \/ Stop("BLOCKED")
  BY DEF ReplaceLegacyFork
<1> QED BY <1>1, <1>2, GoToStep, StopStep

\* The source was read: what the fork must hold is remembered.
LEMMA SeenStep ==
  ASSUME Inv, UNCHANGED <<run, pending, bindings, archived, patch, forks, loaded, turns>>,
         source' \in Sources, drive' = [drive EXCEPT !.at = "fork", !.seen = source.history]
  PROVE  Inv'
<1>1. source.history \in 1..MaxHistory
  BY DEF Inv, Shape, Sources
<1>2. drive' \in Drives /\ drive'.at = "fork" /\ drive'.seen = source.history
  BY <1>1 DEF Inv, Shape, Drives, Places
<1>3. source.history # None
  BY <1>1, BindingAssumption
<1>4. Position'
  BY <1>2, <1>3 DEF Inv, Position
<1>5. run' \in Runs
  BY DEF Inv, Shape
<1> QED BY <1>2, <1>4, <1>5, DriveMoves

\* An idle source is bound itself, or its history is remembered for the fork.
LEMMA SourceIdleStep == ASSUME Inv, SourceIdle PROVE Inv'
<1>1. UNCHANGED <<pending, bindings, archived, patch, source, forks, loaded, turns>>
  BY DEF SourceIdle, tasks
<1>2. CASE bindings = <<>> /\ GoTo("direct") /\ UNCHANGED run
  BY <1>1, <1>2, GoToStep
<1>3. CASE Stop("PAUSED")
  BY <1>1, <1>3, StopStep
<1>4. CASE drive' = [drive EXCEPT !.at = "fork", !.seen = source.history] /\ UNCHANGED run
  <2>1. source' \in Sources
    BY <1>1 DEF Inv, Shape
  <2> QED BY <1>1, <1>4, <2>1, SeenStep
<1> QED BY <1>2, <1>3, <1>4 DEF SourceIdle

\* A source that was loaded with the patch tool is bound itself or forked; one that is not
\* idle then stops the run.
LEMMA SourceNotLoadedStep == ASSUME Inv, SourceNotLoaded PROVE Inv'
<1>1. UNCHANGED <<pending, bindings, archived, patch, forks, loaded, turns>>
  BY DEF SourceNotLoaded
<1>2. CASE source' = [source EXCEPT !.state = "idle", !.capable = TRUE] /\ UNCHANGED run
  <2>1. source' \in Sources
    BY <1>2 DEF Inv, Shape, Sources
  <2>2. CASE bindings = <<>> /\ GoTo("direct")
    <3>1. drive' \in Drives /\ drive'.at = "direct"
      BY <2>2, GoToFacts DEF Inv, Places
    <3>2. Position'
      BY <1>1, <2>2, <3>1 DEF Inv, Position
    <3>3. run' \in Runs
      BY <1>2 DEF Inv, Shape
    <3> QED BY <1>1, <1>2, <2>1, <3>1, <3>2, <3>3, DriveMoves
  <2>3. CASE drive' = [drive EXCEPT !.at = "fork", !.seen = source.history]
    BY <1>1, <1>2, <2>1, <2>3, SeenStep
  <2>4. (bindings = <<>> /\ GoTo("direct")) \/ drive' = [drive EXCEPT !.at = "fork", !.seen = source.history]
    <3>1. source'.state = "idle"
      BY <1>2 DEF Inv, Shape, Sources
    <3>2. ASSUME drive' = Off, run' = [run EXCEPT !.status = "BLOCKED", !.notIdle = bindings # <<>>],
                 UNCHANGED source
          PROVE FALSE
      BY <3>1, <3>2 DEF SourceNotLoaded
    <3> QED BY <3>2 DEF SourceNotLoaded
  <2> QED BY <2>2, <2>3, <2>4
<1>3. CASE /\ drive' = Off /\ UNCHANGED source
           /\ run' = [run EXCEPT !.status = "BLOCKED", !.notIdle = bindings # <<>>]
  <2>1. run' \in Runs /\ run'.request = run.request
    BY <1>3 DEF Inv, Shape, Runs
  <2>2. drive' \in Drives /\ drive'.at = "off"
    BY <1>3 DEF Off, Drives, Places
  <2> QED BY <1>1, <1>3, <2>1, <2>2, DriveStops
<1> QED BY <1>2, <1>3 DEF SourceNotLoaded

\* A source in an error state stops the run.
LEMMA SourceBrokenStep == ASSUME Inv, SourceBroken PROVE Inv'
BY StopStep DEF SourceBroken, tasks

\* The tables only grow.
LEMMA Grown ==
  ASSUME Shape, DOMAIN bindings \subseteq DOMAIN bindings',
         Len(forks) \in Nat, Len(forks') \in Nat, Len(forks) <= Len(forks'),
         DOMAIN forks \subseteq DOMAIN forks', DOMAIN turns \subseteq DOMAIN turns'
  PROVE  /\ Rows \subseteq Rows' /\ Bindings \subseteq Bindings' /\ Turns \subseteq Turns'
         /\ 0..Len(forks) \subseteq 0..Len(forks') /\ Drives \subseteq Drives'
<1>1. 0..Len(forks) \subseteq 0..Len(forks')
  OBVIOUS
<1>2. Rows \subseteq Rows'
  BY <1>1 DEF Rows
<1>3. Bindings \subseteq Bindings' /\ Turns \subseteq Turns' /\ Drives \subseteq Drives'
  BY <1>1 DEF Bindings, Turns, Drives
<1> QED BY <1>1, <1>2, <1>3

\* A sequence over a set is one over every larger set, and a longer sequence keeps its elements.
LEMMA SeqGrows ==
  ASSUME NEW S, NEW T, S \subseteq T, NEW s \in Seq(S)
  PROVE  s \in Seq(T)
OBVIOUS

\* A fork joins the forks with the history that was read, or is abandoned: the bindings
\* are as they were.
LEMMA ForkStep == ASSUME Inv, Fork PROVE Inv'
<1>1. UNCHANGED <<pending, bindings, archived, patch, source, turns>>
  BY DEF Fork
<1>2. CASE Stop("BLOCKED") /\ UNCHANGED <<forks, loaded>>
  BY <1>1, <1>2, StopStep
<1>3. CASE /\ forks' = Append(forks, source.history)
           /\ loaded' = loaded \cup {Len(forks) + 1}
           /\ \/ /\ FullHistory(source.history)
                 /\ drive' = [drive EXCEPT !.at = "activate", !.fork = Len(forks) + 1] /\ UNCHANGED run
              \/ Stop("BLOCKED")
  <2>1. PICK n \in Nat : n = Len(forks)
    BY RowFacts DEF Inv
  <2>2. source.history \in 1..MaxHistory
    BY DEF Inv, Shape, Sources
  <2>3. /\ forks' \in Seq(1..MaxHistory) /\ Len(forks') = n + 1 /\ DOMAIN forks' = 1..(n + 1)
        /\ forks'[n + 1] = source.history
        /\ \A f \in DOMAIN forks : f \in DOMAIN forks' /\ forks'[f] = forks[f]
    BY <1>3, <2>1, <2>2 DEF Inv, Shape
  <2>4. /\ Rows \subseteq Rows' /\ Bindings \subseteq Bindings' /\ Turns \subseteq Turns'
        /\ 0..Len(forks) \subseteq 0..Len(forks') /\ Drives \subseteq Drives'
    BY <1>1, <2>1, <2>3, Grown DEF Inv
  <2>5. Outstanding' = Outstanding
    <3>1. run'.request = run.request
      BY <1>3, StopFacts DEF Inv
    <3> QED BY <1>1, <3>1 DEF Outstanding
  <2>6. run' \in Runs /\ run'.request = run.request
    BY <1>3, StopFacts DEF Inv, Shape
  <2>7. \/ drive'.at = "off" /\ drive' \in Drives'
        \/ /\ drive'.at = "activate" /\ drive' \in Drives' /\ drive'.seen = drive.seen
           /\ drive'.fork = n + 1 /\ FullHistory(source.history)
    <3>1. CASE Stop("BLOCKED")
      BY <2>4, <3>1, StopFacts DEF Inv
    <3>2. CASE /\ FullHistory(source.history)
               /\ drive' = [drive EXCEPT !.at = "activate", !.fork = Len(forks) + 1]
      <4>1. drive \in Drives'
        BY <2>4 DEF Inv, Shape
      <4>2. n + 1 \in DOMAIN forks'
        BY <2>3
      <4> QED BY <2>1, <3>2, <4>1, <4>2 DEF Drives, Places
    <3> QED BY <1>3, <3>1, <3>2
  <2>8. Shape'
    <3>1. bindings' \in Seq(Bindings')
      BY <1>1, <2>4, SeqGrows DEF Inv, Shape
    <3>2. turns' \in Seq(Turns')
      BY <1>1, <2>4, SeqGrows DEF Inv, Shape
    <3>3. loaded' \subseteq DOMAIN forks'
      BY <1>3, <2>1, <2>3 DEF Inv, Shape
    <3>4. drive' \in Drives'
      BY <2>7
    <3> QED BY <1>1, <2>3, <2>4, <2>6, <3>1, <3>2, <3>3, <3>4 DEF Inv, Shape, Runs, Sources
  <2>9. Position'
    <3>1. drive.seen # None
      BY DEF Fork, Drive, Inv, Position
    <3>2. n + 1 # None
      BY <2>1, BindingAssumption
    <3> QED BY <1>1, <2>3, <2>7, <3>1, <3>2 DEF Inv, Position, FullHistory
  <2>10. Accounted'
    BY <1>1, <2>5, <2>6, <2>7 DEF Inv, Accounted, Unsent, Bound, Active
  <2>11. MirrorIsExact'
    <3>1. \A g \in DOMAIN bindings : bindings[g].history \notin {None, Legacy} =>
                                      bindings[g].task \in DOMAIN forks
      BY DEF Inv, Shape, Bindings
    <3> QED BY <1>1, <2>3, <3>1 DEF Inv, MirrorIsExact
  <2> QED BY <1>1, <2>8, <2>9, <2>10, <2>11 DEF Inv, PendingOnActive, Active
<1> QED BY <1>2, <1>3 DEF Fork

\* The binding moves on while no turn of the request is outstanding.
LEMMA BindingMoves ==
  ASSUME Inv, UNCHANGED <<run, archived, patch, source, forks, loaded, turns>>,
         NEW b \in Bindings, bindings' = Append(bindings, b),
         drive' = [Off EXCEPT !.at = "ready"],
         \/ pending = None /\ pending' = None
         \/ pending # None /\ pending' = [pending EXCEPT !.gen = Active + 1],
         Outstanding = {},
         b.history \notin {None, Legacy} =>
           /\ forks[b.task] = b.history
           /\ \A g \in DOMAIN bindings : bindings[g].history \notin {None, Legacy} => bindings[g].history = b.history
  PROVE  Inv'
<1>1. PICK n \in Nat : n = Len(bindings)
  BY RowFacts DEF Inv
<1>2. /\ bindings' \in Seq(Bindings) /\ Len(bindings') = n + 1 /\ DOMAIN bindings' = 1..(n + 1)
      /\ DOMAIN bindings = 1..n
      /\ bindings'[n + 1] = b
      /\ \A g \in DOMAIN bindings : g \in DOMAIN bindings' /\ bindings'[g] = bindings[g]
  BY <1>1 DEF Inv, Shape
<1>3. Rows \subseteq Rows' /\ Bindings \subseteq Bindings' /\ Turns \subseteq Turns' /\ Drives \subseteq Drives'
  BY <1>2, Grown, RowFacts DEF Inv
<1>4. \/ pending' = None
      \/ /\ pending # None /\ pending' \in Rows' /\ pending'.gen = n + 1
         /\ pending'.task = pending.task /\ pending'.turn = pending.turn
  <2>1. CASE pending # None
    <3>1. pending \in Rows'
      BY <1>3, <2>1 DEF Inv, Shape
    <3>2. pending' = [pending EXCEPT !.gen = n + 1] /\ n + 1 \in DOMAIN bindings'
      BY <1>1, <1>2, <2>1 DEF Active
    <3> QED BY <2>1, <3>1, <3>2 DEF Rows
  <2> QED BY <2>1
<1>5. drive' \in Drives' /\ drive'.at = "ready"
  BY DEF Off, Drives, Places
<1>6. Shape'
  <2>1. bindings' \in Seq(Bindings') /\ turns' \in Seq(Turns')
    BY <1>2, <1>3, SeqGrows DEF Inv, Shape
  <2>2. patch' \in DOMAIN bindings' \cup {None}
    BY <1>2 DEF Inv, Shape
  <2> QED BY <1>3, <1>4, <1>5, <2>1, <2>2 DEF Inv, Shape, Runs, Sources
<1>7. Position'
  <2>1. bindings' # <<>>
    BY <1>2
  <2> QED BY <1>5, <2>1 DEF Position
<1>8. Accounted'
  <2>1. Outstanding' = {}
    BY DEF Outstanding
  <2> QED BY <1>5, <2>1 DEF Inv, Accounted
<1>9. MirrorIsExact'
  BY <1>2 DEF Inv, MirrorIsExact
<1>10. PendingOnActive'
  BY <1>2, <1>4 DEF PendingOnActive, Active
<1> QED BY <1>6, <1>7, <1>8, <1>9, <1>10 DEF Inv

\* The binding of the fork that was made.
LEMMA ForkBinding ==
  ASSUME Inv, drive.at = "activate", NEW b,
         b = [mode |-> "FORK", task |-> drive.fork, history |-> drive.seen]
  PROVE  b \in Bindings /\ b.history = drive.seen /\ forks[b.task] = b.history /\ b.history \notin {None, Legacy}
<1>1. /\ drive.fork # None /\ drive.seen # None /\ forks[drive.fork] = drive.seen
      /\ drive.fork \in DOMAIN forks /\ drive.seen \in 1..MaxHistory
  BY DEF Inv, Position, Shape, Drives
<1> QED BY <1>1, BindingAssumption DEF Bindings, Legacy

\* The binding moves to the new fork together with the request, which was not sent.
LEMMA RotateStep == ASSUME Inv, Rotate PROVE Inv'
<1>1. UNCHANGED <<archived, patch, source, forks, loaded, turns>> /\ drive.at = "activate"
  BY DEF Rotate, Drive, tasks
<1>2. CASE Stop("BLOCKED") /\ UNCHANGED <<pending, bindings>>
  BY <1>1, <1>2, StopStep
<1>3. CASE /\ Active = drive.rotate /\ Bound.history = drive.seen
           /\ pending # None /\ Unsent(pending)
           /\ bindings' = Append(bindings, [mode |-> "FORK", task |-> drive.fork, history |-> drive.seen])
           /\ pending' = Rebound
           /\ drive' = [Off EXCEPT !.at = "ready"] /\ UNCHANGED run
  <2>1. PICK b : b = [mode |-> "FORK", task |-> drive.fork, history |-> drive.seen]
    OBVIOUS
  <2>2. b \in Bindings /\ b.history = drive.seen /\ forks[b.task] = b.history /\ b.history \notin {None, Legacy}
    BY <1>1, <2>1, ForkBinding
  <2>3. Outstanding = {}
    BY <1>3 DEF Inv, Accounted
  <2>4. Active \in DOMAIN bindings
    <3>1. drive.rotate # None /\ drive.rotate \in DOMAIN bindings \cup {None}
      BY DEF Rotate, Inv, Shape, Drives
    <3> QED BY <1>3, <3>1
  <2>5. \A g \in DOMAIN bindings : bindings[g].history \notin {None, Legacy} => bindings[g].history = b.history
    BY <1>3, <2>2, <2>4 DEF Inv, MirrorIsExact, Bound
  <2> QED BY <1>1, <1>3, <2>1, <2>2, <2>3, <2>5, BindingMoves DEF Rebound
<1> QED BY <1>2, <1>3 DEF Rotate

\* A fork is bound while no request is open, so there is none to move along.
LEMMA ActivateStep == ASSUME Inv, Activate PROVE Inv'
<1>1. UNCHANGED <<pending, archived, patch, source, forks, loaded, turns>> /\ drive.at = "activate"
  BY DEF Activate, Drive, tasks
<1>2. CASE Stop("BLOCKED") /\ UNCHANGED bindings
  BY <1>1, <1>2, StopStep
<1>3. CASE /\ pending = None /\ SameSource(drive.seen)
           /\ bindings' = Append(bindings, [mode |-> "FORK", task |-> drive.fork, history |-> drive.seen])
           /\ drive' = [Off EXCEPT !.at = "ready"] /\ UNCHANGED run
  <2>1. PICK b : b = [mode |-> "FORK", task |-> drive.fork, history |-> drive.seen]
    OBVIOUS
  <2>2. b \in Bindings /\ b.history = drive.seen /\ forks[b.task] = b.history /\ b.history \notin {None, Legacy}
    BY <1>1, <2>1, ForkBinding
  <2>3. Outstanding = {}
    BY <1>3 DEF Inv, Accounted
  <2>4. \A g \in DOMAIN bindings : bindings[g].history \notin {None, Legacy} => bindings[g].history = b.history
    BY <1>3, <2>2 DEF SameSource
  <2> QED BY <1>1, <1>3, <2>1, <2>2, <2>3, <2>4, BindingMoves
<1> QED BY <1>2, <1>3 DEF Activate

\* The source is bound with the open row of an old release, or without a row.
LEMMA ActivateDirectStep == ASSUME Inv, ActivateDirect PROVE Inv'
<1>1. /\ UNCHANGED <<run, archived, patch, source, forks, loaded, turns>> /\ bindings = <<>>
      /\ drive' = [Off EXCEPT !.at = "ready"]
  BY DEF ActivateDirect, Drive, tasks, Inv, Position
<1>2. PICK b : b = [mode |-> "DIRECT", task |-> Source, history |-> None]
  OBVIOUS
<1>3. b \in Bindings /\ b.history = None
  BY <1>2 DEF Bindings
<1>4. Outstanding = {}
  BY <1>1 DEF Inv, Position, Outstanding
<1>5. bindings' = Append(bindings, b)
  BY <1>2 DEF ActivateDirect
<1>6. \/ pending = None /\ pending' = None
      \/ pending # None /\ pending' = [pending EXCEPT !.gen = Active + 1]
  BY DEF ActivateDirect
<1> QED BY <1>1, <1>3, <1>4, <1>5, <1>6, BindingMoves

-----------------------------------------------------------------------------
(* The request is recorded and its turn started.                           *)

\* What the invariant says of the archive, the patch and the turns outstanding.
LEMMA KeptFacts ==
  ASSUME Inv
  PROVE  /\ \A a \in archived : a.turn \in DOMAIN turns /\ a.task \in 0..Len(forks)
         /\ patch \in DOMAIN bindings \cup {None} /\ run \in Runs /\ source \in Sources
         /\ \A t \in Outstanding : /\ pending # None
                                   /\ pending.turn \in {None, t}
                                   /\ pending.turn = None => pending.intent
         /\ pending # None => /\ pending \in Rows
                              /\ pending.task = None <=> pending.turn = None
                              /\ pending.gen \in {None, Active}
BY DEF Inv, Shape, Accounted, Unsent, PendingOnActive

\* The row of a new request belongs to the active generation, and has no turn yet.
LEMMA OpenStep == ASSUME Inv, Open PROVE Inv'
<1>1. UNCHANGED <<bindings, archived, patch, source, forks, loaded, turns>> /\ bindings # <<>>
  BY DEF Open, Drive, tasks, Inv, Position
<1>2. CASE Stop("PAUSED") /\ UNCHANGED pending
  BY <1>1, <1>2, StopStep
<1>3. CASE pending # None /\ pending' = pending /\ GoTo("opened") /\ UNCHANGED run
  BY <1>1, <1>3, GoToStep
<1>4. CASE pending = None /\ pending' = NewRow(Active) /\ GoTo("opened") /\ UNCHANGED run
  <2>1. Active \in DOMAIN bindings
    BY <1>1, RowFacts DEF Inv, Shape, Active
  <2>2. /\ pending' \in Rows /\ pending' # None /\ pending'.gen = Active
        /\ pending'.task = None /\ pending'.turn = None
    BY <1>4, <2>1, NewRowFacts DEF Inv
  <2>3. drive' \in Drives /\ drive'.at = "opened"
    BY <1>4, GoToFacts DEF Inv, Places
  <2>4. Position'
    BY <1>1, <2>2, <2>3 DEF Inv, Position
  <2>5. Outstanding' = {}
    BY <1>1, <1>4, KeptFacts DEF Outstanding
  <2> QED BY <1>1, <1>4, <2>2, <2>3, <2>4, <2>5, KeptFacts, RowMoves
<1> QED BY <1>2, <1>3, <1>4 DEF Open

\* A turn that is found is the outstanding one of the row.
LEMMA RecoverTurnStep == ASSUME Inv, RecoverTurn PROVE Inv'
<1>1. /\ UNCHANGED <<run, bindings, archived, patch, source, forks, loaded, turns>> /\ bindings # <<>>
      /\ pending # None /\ GoTo("wait")
  BY DEF RecoverTurn, Drive, tasks, Inv, Position
<1>2. CASE pending.turn # None /\ UNCHANGED pending
  BY <1>1, <1>2, GoToStep
<1>3. ASSUME NEW t \in DOMAIN turns,
             turns[t].request = run.request, \A a \in archived : a.turn # t,
             pending' = [pending EXCEPT !.task = Source, !.turn = t]
      PROVE  Inv'
  <2>1. Source \in 0..Len(forks) /\ Source # None /\ t # None
    BY RowFacts DEF Inv, Source
  <2>2. /\ pending' \in Rows /\ pending'.gen = pending.gen
        /\ pending'.task = Source /\ pending'.turn = t
    <3>1. pending \in Rows
      BY <1>1, KeptFacts
    <3> QED BY <1>3, <2>1, <3>1 DEF Rows
  <2>3. pending' # None
    BY <2>2, RowFacts DEF Inv
  <2>4. drive' \in Drives /\ drive'.at = "wait"
    BY <1>1, GoToFacts DEF Inv, Places
  <2>5. Position'
    BY <1>1, <2>1, <2>2, <2>3, <2>4 DEF Inv, Position
  <2>6. Outstanding' = Outstanding /\ t \in Outstanding
    BY <1>1, <1>3 DEF Outstanding
  <2>7. \A u \in Outstanding' : pending'.turn = u
    BY <2>2, <2>6 DEF Inv, Accounted
  <2> QED BY <1>1, <2>1, <2>2, <2>3, <2>4, <2>5, <2>7, KeptFacts, RowMoves
<1> QED BY <1>2, <1>3 DEF RecoverTurn

\* The intent is recorded while no turn of the request is outstanding.
LEMMA RecordIntentStep == ASSUME Inv, RecordIntent PROVE Inv'
<1>1. /\ UNCHANGED <<bindings, archived, patch, source, forks, loaded, turns>> /\ bindings # <<>>
      /\ pending # None /\ pending.turn = None
  BY DEF RecordIntent, Drive, tasks, Inv, Position
<1>2. CASE Stop("PAUSED") /\ UNCHANGED pending
  BY <1>1, <1>2, StopStep
<1>3. CASE /\ Bound.mode = "FORK" => ~pending.intent
           /\ Bound.mode = "DIRECT" =>
                \A t \in DOMAIN turns : turns[t].request = run.request => \E a \in archived : a.turn = t
           /\ pending' = [pending EXCEPT !.intent = TRUE]
           /\ GoTo("send") /\ UNCHANGED run
  <2>1. /\ pending' \in Rows /\ pending'.gen = pending.gen /\ pending'.intent
        /\ pending'.task = pending.task /\ pending'.turn = None
    BY <1>1, <1>3, KeptFacts DEF Rows
  <2>2. pending' # None
    BY <2>1, RowFacts DEF Inv
  <2>3. drive' \in Drives /\ drive'.at = "send"
    BY <1>3, GoToFacts DEF Inv, Places
  <2>4. Position'
    BY <1>1, <2>1, <2>2, <2>3 DEF Inv, Position
  <2>5. Outstanding' = {}
    <3>1. Outstanding' = Outstanding
      BY <1>1, <1>3 DEF Outstanding
    <3>2. CASE Bound.mode = "DIRECT"
      BY <1>3, <3>1, <3>2 DEF Outstanding
    <3>3. CASE Bound.mode = "FORK"
      BY <1>1, <1>3, <3>1, <3>3, KeptFacts
    <3>4. Bound.mode \in {"DIRECT", "FORK"}
      <4>1. Active \in DOMAIN bindings
        BY <1>1, RowFacts DEF Inv, Shape, Active
      <4> QED BY <4>1 DEF Inv, Shape, Bindings, Bound
    <3> QED BY <3>2, <3>3, <3>4
  <2> QED BY <1>1, <1>3, <2>1, <2>2, <2>3, <2>4, <2>5, KeptFacts, RowMoves
<1> QED BY <1>2, <1>3 DEF RecordIntent

\* The turn that is started is the only outstanding one, on the active generation's task.
LEMMA StartTurnStep == ASSUME Inv, StartTurn PROVE Inv'
<1>1. /\ UNCHANGED <<pending, bindings, archived, patch, source, forks, loaded>>
      /\ drive.at = "send" /\ bindings # <<>>
      /\ pending # None /\ pending.turn = None /\ pending.intent
      /\ Outstanding = {}
      /\ turns' = Append(turns, [request |-> run.request, task |-> Bound.task,
                                 status |-> "inProgress", heard |-> TRUE])
  BY DEF StartTurn, Drive, tasks, Inv, Position, Accounted
<1>2. PICK n \in Nat : n = Len(turns)
  BY RowFacts DEF Inv
<1>3. PICK turn : turn = [request |-> run.request, task |-> Bound.task, status |-> "inProgress", heard |-> TRUE]
  OBVIOUS
<1>4. turn \in Turns
  <2>1. Active \in DOMAIN bindings
    BY <1>1, RowFacts DEF Inv, Shape, Active
  <2>2. Bound.task \in 0..Len(forks)
    BY <2>1, RowFacts DEF Inv, Shape, Bindings, Bound, Source
  <2>3. run.request \in Nat
    BY BindingAssumption DEF Inv, Shape, Runs
  <2> QED BY <1>3, <2>2, <2>3 DEF Turns
<1>5. /\ turns' \in Seq(Turns) /\ Len(turns') = n + 1 /\ DOMAIN turns' = 1..(n + 1) /\ DOMAIN turns = 1..n
      /\ turns'[n + 1] = turn
      /\ \A t \in DOMAIN turns : t \in DOMAIN turns' /\ turns'[t] = turns[t]
  BY <1>1, <1>2, <1>3, <1>4 DEF Inv, Shape
<1>6. /\ run' \in Runs /\ run'.request = run.request
      /\ drive' \in Drives /\ drive'.at \in {"off", "started"}
  BY GoToFacts, StopFacts DEF StartTurn, Inv, Shape, Places
<1>7. Rows \subseteq Rows' /\ Bindings \subseteq Bindings' /\ Turns \subseteq Turns' /\ Drives \subseteq Drives'
  BY <1>1, <1>5, Grown, RowFacts DEF Inv
<1>8. Shape'
  <2>1. bindings' \in Seq(Bindings') /\ turns' \in Seq(Turns')
    BY <1>1, <1>5, <1>7, SeqGrows DEF Inv, Shape
  <2> QED BY <1>1, <1>5, <1>6, <1>7, <2>1 DEF Inv, Shape, Runs, Sources
<1>9. Position'
  <2>1. turns' # <<>>
    BY <1>5
  <2> QED BY <1>1, <1>6, <2>1 DEF Inv, Position
<1>10. Accounted'
  <2>1. Outstanding' \subseteq {n + 1}
    BY <1>1, <1>5, <1>6 DEF Outstanding
  <2>2. turn.request = run.request /\ turn.task = Bound.task
    BY <1>3
  <2>3. \A t \in DOMAIN turns' : turns'[t].request <= run'.request
    <3>1. run.request <= run.request
      BY BindingAssumption DEF Inv, Shape, Runs
    <3> QED BY <1>5, <1>6, <2>2, <3>1 DEF Inv, Accounted
  <2> QED BY <1>1, <1>5, <1>6, <2>1, <2>2, <2>3 DEF Accounted, Unsent, Bound, Active
<1> QED BY <1>1, <1>8, <1>9, <1>10 DEF Inv, PendingOnActive, MirrorIsExact, Active

\* The turn that answered is the outstanding one, and the row names it.
LEMMA RecordTurnStep == ASSUME Inv, RecordTurn PROVE Inv'
<1>1. /\ UNCHANGED <<run, bindings, archived, patch, source, forks, loaded, turns>>
      /\ drive.at = "started" /\ bindings # <<>> /\ turns # <<>>
      /\ pending # None /\ Outstanding \subseteq {Len(turns)} /\ GoTo("wait")
      /\ pending' = [pending EXCEPT !.task = Bound.task, !.turn = Len(turns)]
  BY DEF RecordTurn, Drive, tasks, Inv, Position, Accounted
<1>2. Len(turns) \in DOMAIN turns /\ Len(turns) # None
  BY <1>1, RowFacts DEF Inv, Shape
<1>3. Bound.task \in 0..Len(forks) /\ Bound.task # None
  <2>1. Active \in DOMAIN bindings
    BY <1>1, RowFacts DEF Inv, Shape, Active
  <2>2. Bound.task \in 0..Len(forks)
    BY <2>1, RowFacts DEF Inv, Shape, Bindings, Bound, Source
  <2> QED BY <2>2, RowFacts DEF Inv
<1>4. /\ pending' \in Rows /\ pending'.gen = pending.gen
      /\ pending'.task = Bound.task /\ pending'.turn = Len(turns)
  <2>1. pending \in Rows
    BY <1>1, KeptFacts
  <2> QED BY <1>1, <1>2, <1>3, <2>1 DEF Rows
<1>5. pending' # None
  BY <1>4, RowFacts DEF Inv
<1>6. drive' \in Drives /\ drive'.at = "wait"
  BY <1>1, GoToFacts DEF Inv, Places
<1>7. Position'
  BY <1>1, <1>2, <1>4, <1>5, <1>6 DEF Inv, Position
<1>8. Outstanding' \subseteq {Len(turns)}
  BY <1>1 DEF Outstanding
<1> QED BY <1>1, <1>2, <1>3, <1>4, <1>5, <1>6, <1>7, <1>8, KeptFacts, RowMoves

\* The next request has no turn yet.
LEMMA AcceptStep == ASSUME Inv, Accept PROVE Inv'
<1>1. /\ UNCHANGED <<bindings, archived, source, forks, loaded, turns>>
      /\ run.request < MaxRequests
      /\ run' = [run EXCEPT !.request = @ + 1]
      /\ pending' = None /\ patch' = None /\ drive' = Off
  BY DEF Accept, Drive, tasks
<1>2. run' \in Runs /\ run'.request = run.request + 1 /\ run.request \in Nat
  <2>1. run \in Runs /\ MaxRequests \in Nat
    BY BindingAssumption DEF Inv, Shape
  <2>2. run.request \in 0..MaxRequests /\ run.request + 1 \in 0..MaxRequests
    BY <1>1, <2>1 DEF Runs
  <2> QED BY <1>1, <2>1, <2>2 DEF Runs
<1>3. drive' \in Drives /\ drive'.at = "off"
  BY <1>1 DEF Off, Drives, Places
<1>4. Shape'
  BY <1>1, <1>2, <1>3 DEF Inv, Shape, Runs, Sources, Drives, Bindings, Turns, Rows
<1>5. Position'
  BY <1>1, <1>3 DEF Inv, Position
<1>6. \A t \in DOMAIN turns : turns[t].request \in Nat /\ turns[t].request <= run.request
  <2>1. \A t \in DOMAIN turns : turns[t] \in Turns
    BY DEF Inv, Shape
  <2> QED BY <2>1 DEF Inv, Accounted, Turns
<1>7. Outstanding' = {}
  BY <1>1, <1>2, <1>6 DEF Outstanding
<1>8. Accounted'
  BY <1>1, <1>2, <1>3, <1>6, <1>7 DEF Accounted
<1> QED BY <1>1, <1>4, <1>5, <1>8 DEF Inv, PendingOnActive, MirrorIsExact

\* A refusal and a failed wait stop the drive and leave the row as it is.
LEMMA WaitingStep == ASSUME Inv, StartRefused \/ Refuse \/ WaitFails PROVE Inv'
BY StopStep DEF StartRefused, Refuse, WaitFails, tasks

\* The patch is recorded for the turn of the row, under the row's generation.
LEMMA RecordPatchStep == ASSUME Inv, RecordPatch PROVE Inv'
<1>1. /\ UNCHANGED <<run, pending, bindings, archived, drive, source, forks, loaded, turns>>
      /\ drive.at = "wait" /\ bindings # <<>> /\ patch' = Active
  BY DEF RecordPatch, Drive, tasks, Inv, Position
<1>2. Active \in DOMAIN bindings
  BY <1>1, RowFacts DEF Inv, Shape, Active
<1>3. Position' /\ drive' \in Drives /\ drive'.at = "wait"
  BY <1>1 DEF Inv, Position, Shape
<1>4. Outstanding' = Outstanding
  BY <1>1 DEF Outstanding
<1> QED BY <1>1, <1>2, <1>3, <1>4, KeptFacts, RowMoves

-----------------------------------------------------------------------------
(* Recovery.                                                               *)

\* A recovery puts the run back to work, with no drive yet and the same request.
LEMMA ResumeFacts ==
  ASSUME Inv, ResumeStep, Resumed
  PROVE  /\ UNCHANGED <<bindings, patch, source, forks, loaded, turns>>
         /\ drive' \in Drives /\ drive'.at = "off" /\ run' \in Runs /\ run'.request = run.request
         /\ Position'
<1>1. UNCHANGED <<bindings, patch, source, forks, loaded, turns>> /\ drive = Off /\ drive' = drive
  BY DEF ResumeStep, tasks
<1>2. drive' \in Drives /\ drive'.at = "off"
  BY <1>1 DEF Off, Inv, Shape
<1>3. run' \in Runs /\ run'.request = run.request
  BY DEF Resumed, Inv, Shape, Runs
<1> QED BY <1>1, <1>2, <1>3 DEF Inv, Position

\* The attempt that is given up is on the record.
LEMMA GiveUpStep ==
  ASSUME Inv, ResumeStep, Resumed, pending # None, pending.turn # None, NEW why, GiveUp(why)
  PROVE  Inv'
<1>1. PICK a : a = [request |-> run.request, turn |-> pending.turn, task |-> pending.task, why |-> why]
  OBVIOUS
<1>2. archived' = archived \cup {a} /\ pending' = NewRow(pending.gen) /\ a.turn = pending.turn
  BY <1>1 DEF GiveUp
<1>3. pending \in Rows /\ pending.task # None
  BY KeptFacts
<1>4. a.turn \in DOMAIN turns /\ a.task \in 0..Len(forks)
  BY <1>1, <1>3 DEF Rows
<1>5. /\ pending' \in Rows /\ pending' # None /\ pending'.gen = pending.gen
      /\ pending'.task = None /\ pending'.turn = None
  BY <1>2, <1>3, NewRowFacts DEF Inv, Rows
<1>6. Outstanding' = {}
  <2>1. Outstanding' \subseteq Outstanding
    BY <1>2, ResumeFacts, OutstandingShrinks
  <2>2. \A t \in Outstanding : t = a.turn
    BY <1>2, KeptFacts
  <2> QED BY <1>2, <2>1, <2>2 DEF Outstanding
<1>7. \A b \in archived' : b.turn \in DOMAIN turns /\ b.task \in 0..Len(forks)
  BY <1>2, <1>4, KeptFacts
<1>8. pending'.gen \in {None, Active}
  BY <1>5, KeptFacts
<1>9. patch' \in DOMAIN bindings \cup {None} /\ source' \in Sources
  BY KeptFacts, ResumeFacts
<1> QED BY <1>2, <1>5, <1>6, <1>7, <1>8, <1>9, ResumeFacts, RowMoves

\* The row that is restored names an archived turn; the one it named is archived too.
LEMMA RestoreArchivedStep == ASSUME Inv, RestoreArchived PROVE Inv'
<1>1. ResumeStep /\ Resumed /\ pending # None /\ pending.turn # None
  BY DEF RestoreArchived
<1>2. PICK a \in archived :
        /\ pending' = [pending EXCEPT !.task = a.task, !.turn = a.turn, !.intent = FALSE]
        /\ archived' = archived \cup {[request |-> run.request, turn |-> pending.turn, task |-> pending.task, why |-> "unavailable"]}
  BY DEF RestoreArchived
<1>3. PICK b : b = [request |-> run.request, turn |-> pending.turn, task |-> pending.task, why |-> "unavailable"]
  OBVIOUS
<1>4. archived' = archived \cup {b} /\ b.turn = pending.turn
  BY <1>2, <1>3
<1>5. pending \in Rows /\ pending.task # None
  BY <1>1, KeptFacts
<1>6. b.turn \in DOMAIN turns /\ b.task \in 0..Len(forks)
  BY <1>1, <1>3, <1>5 DEF Rows
<1>7. a.turn \in DOMAIN turns /\ a.task \in 0..Len(forks) /\ a.turn # None /\ a.task # None
  <2>1. a.turn \in DOMAIN turns /\ a.task \in 0..Len(forks)
    BY KeptFacts
  <2> QED BY <2>1, RowFacts DEF Inv
<1>8. /\ pending' \in Rows /\ pending'.gen = pending.gen
      /\ pending'.task = a.task /\ pending'.turn = a.turn
  BY <1>2, <1>5, <1>7 DEF Rows
<1>9. pending' # None
  BY <1>8, RowFacts DEF Inv
<1>10. Outstanding' = {}
  <2>1. Outstanding' \subseteq Outstanding
    BY <1>1, <1>4, ResumeFacts, OutstandingShrinks
  <2>2. \A t \in Outstanding : t = b.turn
    BY <1>1, <1>4, KeptFacts
  <2> QED BY <1>4, <2>1, <2>2 DEF Outstanding
<1>11. \A c \in archived' : c.turn \in DOMAIN turns /\ c.task \in 0..Len(forks)
  BY <1>4, <1>6, KeptFacts
<1>12. pending'.gen \in {None, Active}
  BY <1>1, <1>8, KeptFacts
<1>13. patch' \in DOMAIN bindings \cup {None} /\ source' \in Sources
  BY <1>1, KeptFacts, ResumeFacts
<1> QED BY <1>1, <1>4, <1>7, <1>8, <1>9, <1>10, <1>11, <1>12, <1>13, ResumeFacts, RowMoves

\* Every recovery keeps the invariant: it leaves the row, or gives up a turn on the record.
LEMMA RecoverStep == ASSUME Inv, Recover PROVE Inv'
<1>1. CASE Resume \/ RetryNotIdle
  <2>1. ResumeStep /\ Resumed /\ UNCHANGED <<pending, archived>>
    BY <1>1 DEF Resume, RetryNotIdle
  <2> QED BY <2>1, ResumeFacts, DriveStops
<1>2. CASE ResetTurn \/ RetryRefused \/ AskOnceMore
  <2>1. ResumeStep /\ Resumed /\ pending # None /\ pending.turn # None
    BY <1>2 DEF ResetTurn, RetryRefused, AskOnceMore
  <2>2. PICK why : GiveUp(why)
    BY <1>2 DEF ResetTurn, RetryRefused, AskOnceMore
  <2> QED BY <2>1, <2>2, GiveUpStep
<1>3. CASE RestoreArchived
  BY <1>3, RestoreArchivedStep
<1> QED BY <1>1, <1>2, <1>3 DEF Recover

-----------------------------------------------------------------------------
(* The world.                                                              *)

\* What the app server, the user and the machine do leaves store and drive alone, and
\* every turn on its task.
LEMMA WorldMoves ==
  ASSUME Inv, UNCHANGED <<run, pending, bindings, archived, patch, drive, forks>>,
         source' \in Sources, loaded' \subseteq loaded,
         turns' \in Seq(Turns), DOMAIN turns' = DOMAIN turns,
         \A t \in DOMAIN turns : turns'[t].request = turns[t].request /\ turns'[t].task = turns[t].task
  PROVE  Inv'
<1>1. Len(turns') = Len(turns) /\ (turns' = <<>> <=> turns = <<>>)
  BY DEF Inv, Shape
<1>2. Shape'
  BY DEF Inv, Shape, Rows, Bindings, Turns, Drives
<1>3. Outstanding' = Outstanding
  BY DEF Outstanding
<1>4. Position'
  BY <1>1 DEF Inv, Position
<1>5. Accounted'
  BY <1>1, <1>3 DEF Inv, Accounted, Unsent, Bound, Active, Outstanding
<1> QED BY <1>2, <1>4, <1>5 DEF Inv, PendingOnActive, MirrorIsExact, Active

\* A turn that ends stays where it is.
LEMMA TurnEndsStep == ASSUME Inv, TurnEnds PROVE Inv'
<1>1. UNCHANGED <<run, pending, bindings, archived, patch, drive, source, forks, loaded>>
  BY DEF TurnEnds, store, tasks
<1>2. PICK t \in DOMAIN turns, status \in Ended, heard \in BOOLEAN :
        turns' = [turns EXCEPT ![t].status = status, ![t].heard = heard]
  BY DEF TurnEnds
<1>3. turns[t] \in Turns /\ turns \in Seq(Turns)
  BY DEF Inv, Shape
<1>4. PICK turn : turn = [turns[t] EXCEPT !.status = status, !.heard = heard]
  OBVIOUS
<1>5. turn \in Turns /\ turn.request = turns[t].request /\ turn.task = turns[t].task
  BY <1>3, <1>4 DEF Turns
<1>6. turns' = [turns EXCEPT ![t] = turn]
  BY <1>2, <1>3, <1>4
<1>7. turns' \in Seq(Turns) /\ DOMAIN turns' = DOMAIN turns
  BY <1>3, <1>5, <1>6
<1>8. \A u \in DOMAIN turns : turns'[u].request = turns[u].request /\ turns'[u].task = turns[u].task
  BY <1>5, <1>6
<1> QED BY <1>1, <1>7, <1>8, KeptFacts, WorldMoves

\* A fork may be lost at any time; what is bound and what was started does not change by
\* it.
LEMMA LoseForkStep == ASSUME Inv, LoseFork PROVE Inv'
<1>1. UNCHANGED <<run, pending, bindings, archived, patch, drive, source, forks>>
  BY DEF LoseFork, store
<1>2. PICK f \in loaded :
        /\ loaded' = loaded \ {f}
        /\ turns' = [t \in DOMAIN turns |->
             IF turns[t].task = f /\ turns[t].status = "inProgress"
             THEN [turns[t] EXCEPT !.status = "interrupted", !.heard = FALSE] ELSE turns[t]]
  BY DEF LoseFork
<1>3. \A t \in DOMAIN turns : turns[t] \in Turns
  BY DEF Inv, Shape
<1>4. ASSUME NEW t \in DOMAIN turns
      PROVE  turns'[t] \in Turns /\ turns'[t].request = turns[t].request /\ turns'[t].task = turns[t].task
  <2>1. turns'[t] = turns[t] \/ turns'[t] = [turns[t] EXCEPT !.status = "interrupted", !.heard = FALSE]
    BY <1>2
  <2> QED BY <1>3, <2>1 DEF Turns, Ended
<1>5. DOMAIN turns' = 1..Len(turns) /\ Len(turns) \in Nat
  BY <1>2, RowFacts DEF Inv
<1>6. turns' \in Seq(Turns)
  <2>1. turns' = [t \in 1..Len(turns) |-> turns'[t]]
    BY <1>2, <1>5
  <2>2. turns' \in [1..Len(turns) -> Turns]
    BY <1>4, <1>5, <2>1, RowFacts DEF Inv
  <2> QED BY <1>5, <2>2
<1> QED BY <1>1, <1>2, <1>4, <1>6, KeptFacts, WorldMoves

\* The user goes on in the source: no turn of the run and no fork's history changes.
LEMMA UserStep == ASSUME Inv, UserTurn \/ UserTurnEnds \/ SourceBreaks PROVE Inv'
<1>1. UNCHANGED <<run, pending, bindings, archived, patch, drive, forks, loaded, turns>>
  BY DEF UserTurn, UserTurnEnds, SourceBreaks, store
<1>2. source' \in Sources
  <2>1. source \in Sources /\ MaxHistory \in Nat
    BY BindingAssumption DEF Inv, Shape
  <2>2. CASE UserTurn
    <3>1. source.history < MaxHistory /\ source.history \in 1..MaxHistory
      BY <2>1, <2>2 DEF UserTurn, Sources
    <3>2. PICK goal \in BOOLEAN :
            source' = [source EXCEPT !.history = @ + 1, !.state = "active", !.goal = goal]
      BY <2>2 DEF UserTurn
    <3>3. source.history + 1 \in 1..MaxHistory
      BY <2>1, <3>1
    <3> QED BY <2>1, <3>2, <3>3 DEF Sources
  <2>3. CASE UserTurnEnds
    BY <2>1, <2>3 DEF UserTurnEnds, Sources
  <2>4. CASE SourceBreaks
    BY <2>1, <2>4 DEF SourceBreaks, Sources
  <2> QED BY <2>2, <2>3, <2>4
<1>3. turns \in Seq(Turns)
  BY DEF Inv, Shape
<1> QED BY <1>1, <1>2, <1>3, WorldMoves

\* An error or a crash leaves the rows as the last transaction wrote them.
LEMMA MachineStep == ASSUME Inv, DriveFails \/ Crash PROVE Inv'
<1>1. CASE DriveFails
  BY <1>1, StopStep DEF DriveFails, tasks
<1>2. CASE Crash
  <2>1. /\ UNCHANGED <<run, pending, bindings, archived, patch, source, forks, loaded, turns>>
        /\ drive' = Off
    BY <1>2 DEF Crash, store, tasks
  <2>2. drive' \in Drives /\ drive'.at = "off"
    BY <2>1 DEF Off, Drives, Places
  <2> QED BY <2>1, <2>2, KeptFacts, DriveStops
<1> QED BY <1>1, <1>2

-----------------------------------------------------------------------------
(* The theorems.                                                           *)

\* A store of this release, and those of old releases, satisfy it.
LEMMA InvInit == Init => Inv
<1> SUFFICES ASSUME Init PROVE Inv
  OBVIOUS
<1>1. 1 \in 1..MaxHistory /\ 0 \in 0..MaxRequests /\ None # 1 /\ None # 0
  BY BindingAssumption
<1>2. run \in Runs /\ source \in Sources /\ drive \in Drives /\ drive.at = "off"
  BY <1>1 DEF Init, Runs, Sources, Drives, Off, Places
<1>3. turns = <<>> /\ DOMAIN turns = {} /\ turns \in Seq(Turns)
  BY DEF Init
<1>4. archived = {} /\ patch = None /\ Outstanding = {}
  BY <1>3 DEF Init, Outstanding
<1>5. Position
  BY <1>2, <1>3 DEF Position
<1>6. Accounted
  BY <1>2, <1>3, <1>4 DEF Accounted
<1>7. CASE bindings = <<>> /\ forks = <<>> /\ loaded = {} /\ pending \in {None, NewRow(None)}
  <2>1. bindings \in Seq(Bindings) /\ forks \in Seq(1..MaxHistory) /\ loaded \subseteq DOMAIN forks
    BY <1>7
  <2>2. pending \in Rows \cup {None} /\ (pending # None => pending.gen = None /\ pending.task = None /\ pending.turn = None)
    <3>1. NewRow(None) \in Rows
      BY <1>7 DEF Rows, NewRow
    <3>2. NewRow(None).gen = None /\ NewRow(None).task = None /\ NewRow(None).turn = None
      BY DEF NewRow
    <3> QED BY <1>7, <3>1, <3>2
  <2>3. DOMAIN bindings = {}
    BY <1>7
  <2> QED BY <1>2, <1>3, <1>4, <1>5, <1>6, <2>1, <2>2, <2>3 DEF Inv, Shape, PendingOnActive, MirrorIsExact
<1>8. CASE /\ pending \in {None, NewRow(1)} /\ forks = <<1>> /\ loaded \in {{}, {1}}
           /\ bindings = <<[mode |-> "FORK", task |-> 1, history |-> Legacy]>>
  <2>1. /\ Len(bindings) = 1 /\ DOMAIN bindings = {1} /\ Len(forks) = 1 /\ DOMAIN forks = {1}
        /\ forks \in Seq(1..MaxHistory) /\ loaded \subseteq DOMAIN forks
    BY <1>1, <1>8
  <2>2. [mode |-> "FORK", task |-> 1, history |-> Legacy] \in Bindings
    BY <2>1, BindingAssumption DEF Bindings, Legacy
  <2>3. bindings \in Seq(Bindings)
    BY <1>8, <2>2
  <2>4. pending \in Rows \cup {None} /\ (pending # None => pending.gen = 1 /\ pending.task = None /\ pending.turn = None)
    <3>1. NewRow(1) \in Rows
      BY <1>8, <2>1 DEF Rows, NewRow
    <3>2. NewRow(1).gen = 1 /\ NewRow(1).task = None /\ NewRow(1).turn = None
      BY DEF NewRow
    <3> QED BY <1>8, <3>1, <3>2
  <2>5. MirrorIsExact
    BY <1>8, <2>1 DEF MirrorIsExact
  <2>6. PendingOnActive
    BY <2>1, <2>4 DEF PendingOnActive, Active
  <2> QED BY <1>2, <1>3, <1>4, <1>5, <1>6, <2>1, <2>3, <2>4, <2>5, <2>6 DEF Inv, Shape
<1> QED BY <1>7, <1>8 DEF Init

\* Every step of the drive, of a recovery and of the world keeps the invariant.
LEMMA InvStep == Inv /\ [Next]_vars => Inv'
<1> SUFFICES ASSUME Inv, [Next]_vars PROVE Inv'
  OBVIOUS
<1>1. CASE Prepare
  BY <1>1, ReadEvidenceStep, BindPendingStep, BindingReadStep, ForkUnreadableStep, ReplaceLegacyForkStep,
     SourceIdleStep, SourceNotLoadedStep, SourceBrokenStep, ForkStep, RotateStep, ActivateStep,
     ActivateDirectStep, OpenStep, RecoverTurnStep, RecordIntentStep DEF Prepare
<1>2. CASE Deliver
  BY <1>2, StartTurnStep, RecordTurnStep, AcceptStep, WaitingStep, RecordPatchStep DEF Deliver
<1>3. CASE Recover
  BY <1>3, RecoverStep
<1>4. CASE World
  BY <1>4, TurnEndsStep, LoseForkStep, UserStep, MachineStep DEF World
<1>5. CASE UNCHANGED vars
  <2>1. /\ UNCHANGED <<run, pending, bindings, archived, patch, drive, source, forks, loaded, turns>>
        /\ turns \in Seq(Turns)
    BY <1>5 DEF vars, tasks, Inv, Shape
  <2> QED BY <2>1, KeptFacts, WorldMoves
<1> QED BY <1>1, <1>2, <1>3, <1>4, <1>5 DEF Next

\* The invariant of the Primary's binding, for all numbers of requests, forks, turns and
\* faults: where the drive is, and which turns may still be under way for the request.
THEOREM Invariance == Spec => []Inv
BY InvInit, InvStep, PTL DEF Spec

\* The variables keep their types: rows name recorded generations, forks and turns.
THEOREM TypeCorrect == Spec => []TypeOK
<1>1. Shape => TypeOK
  <2> SUFFICES ASSUME Shape PROVE TypeOK
    OBVIOUS
  <2>1. \A g \in DOMAIN bindings :
          \/ bindings[g] = [mode |-> "DIRECT", task |-> Source, history |-> None]
          \/ bindings[g] \in [mode : {"FORK"}, task : DOMAIN forks, history : 0..MaxHistory]
    <3>1. \A g \in DOMAIN bindings : bindings[g] \in Bindings
      BY DEF Shape
    <3> QED BY <3>1 DEF Bindings
  <2>2. pending \in {row \in Rows : row.task = None <=> row.turn = None} \cup {None}
    BY DEF Shape
  <2>3. drive.fork \in DOMAIN forks \cup {None} /\ drive.rotate \in DOMAIN bindings \cup {None}
    BY DEF Shape, Drives
  <2> QED BY <2>1, <2>2, <2>3 DEF Shape, TypeOK, Runs
<1> QED BY <1>1, Invariance, PTL DEF Inv

\* The rotation of a lost fork and the request move together, so an open request never
\* belongs to a generation that is no longer active (primary binding transactions).
THEOREM PendingOnActiveHolds == Spec => []PendingOnActive
BY Invariance, PTL DEF Inv

\* However the user goes on in the source task between the read and the fork, a bound
\* fork holds what was read, and all generations hold the same (verify_full_history_fork).
THEOREM MirrorIsExactHolds == Spec => []MirrorIsExact
BY Invariance, PTL DEF Inv

\* A turn that was started on a task that is no longer the Primary was given up on the
\* record: the binding moves only while the open request is unsent.
THEOREM NoTurnLeftBehindHolds == Spec => []NoTurnLeftBehind
<1>1. Accounted => NoTurnLeftBehind
  BY DEF Accounted, NoTurnLeftBehind, Outstanding
<1> QED BY <1>1, Invariance, PTL DEF Inv

=============================================================================
