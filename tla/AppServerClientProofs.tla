------------------------ MODULE AppServerClientProofs ------------------------
(***************************************************************************)
(* No act is executed twice, for any number of calls and connections, and  *)
(* the client keeps what it promises the coordinator (RemoteCalls).        *)
(***************************************************************************)
EXTENDS AppServerClient, FiniteSetTheorems, TLAPS

Unsent == {"new", "wait", "preflight", "insert", "write", "replace"}

\* Nothing of the call has left the client.
Fresh(c) == runs[c] = 0 /\ \A m \in sent : m.call # c

\* The inductive invariant: an act is written once, and a written request that
\* still waits to be executed is the only trace of it.
ActInv(c) ==
  /\ pc[c] \in Unsent => Fresh(c)
  /\ \A m, n \in sent : m.call = c /\ n.call = c => m = n /\ runs[c] = 0
  /\ runs[c] <= 1

ClientInv ==
  /\ DOMAIN pc = Calls
  /\ runs \in [Calls -> Nat]
  /\ \A m \in sent : m.call \in Calls
  /\ \A c \in Acts : ActInv(c)

\* A step that neither writes nor executes a request, and moves no call back to
\* where it had not written yet.
LEMMA QuietStep ==
  ASSUME ClientInv, UNCHANGED runs, sent' \subseteq sent, DOMAIN pc' = Calls,
         \A c \in Acts : pc'[c] \in Unsent => pc[c] \in Unsent
  PROVE  ClientInv'
BY DEF ClientInv, ActInv, Fresh

\* A call moves from one step to another; an act does so only to return, to wait
\* for its answer, or from a step before it wrote.
LEMMA GotoStep ==
  ASSUME ClientInv, NEW c \in Calls, NEW step, Goto(c, step),
         c \in Acts /\ step \in Unsent => pc[c] \in Unsent
  PROVE  /\ DOMAIN pc' = Calls
         /\ \A d \in Acts : pc'[d] \in Unsent => pc[d] \in Unsent
BY DEF Goto, ClientInv

\* A call that loses its connection is an act only if it returns.
LEMMA LostStep ==
  ASSUME ClientInv, NEW c \in Calls, Lost(c)
  PROVE  /\ DOMAIN pc' = Calls
         /\ \A d \in Acts : pc'[d] \in Unsent => pc[d] \in Unsent
<1>1. CASE Repeats(c)
  <2>1. Goto(c, "replace") /\ c \notin Acts
    BY <1>1 DEF Lost, Repeats
  <2> QED BY <2>1, GotoStep
<1>2. CASE ~Repeats(c)
  <2>1. Goto(c, "error") /\ "error" \notin Unsent
    BY <1>2 DEF Lost, Unsent
  <2> QED BY <2>1, GotoStep
<1> QED BY <1>1, <1>2

\* Writing the request of an act is the first trace of it.
LEMMA WriteStep ==
  ASSUME ClientInv, NEW c \in Calls, Write(c)
  PROVE  ClientInv'
<1>1. /\ pc[c] = "write" /\ pc' = [pc EXCEPT ![c] = "receive"]
      /\ sent' = sent \cup {Registered(c)} /\ runs' = runs
  BY DEF Write, Goto
<1>2. Registered(c).call = c
  BY DEF Registered
<1>3. DOMAIN pc' = Calls /\ runs' \in [Calls -> Nat] /\ \A m \in sent' : m.call \in Calls
  BY <1>1, <1>2 DEF ClientInv
<1>4. ASSUME NEW d \in Acts PROVE ActInv(d)'
  <2>1. CASE d = c
    <3>1. pc[c] \in Unsent
      BY <1>1 DEF Unsent
    <3>2. Fresh(c)
      BY <2>1, <3>1 DEF ClientInv, ActInv
    <3>3. pc'[c] = "receive"
      BY <1>1 DEF ClientInv
    <3> QED BY <1>1, <1>2, <2>1, <3>2, <3>3 DEF Fresh, ActInv, Unsent
  <2>2. CASE d # c
    <3>1. pc'[d] = pc[d]
      BY <1>1, <2>2, ClientAssumption DEF ClientInv
    <3>2. ActInv(d)
      BY DEF ClientInv
    <3> QED BY <1>1, <1>2, <2>2, <3>1, <3>2 DEF ActInv, Fresh
  <2> QED BY <2>1, <2>2
<1> QED BY <1>3, <1>4 DEF ClientInv

\* Executing it uses up the written request.
LEMMA ExecuteStep ==
  ASSUME ClientInv, NEW m \in sent, Execute(m)
  PROVE  ClientInv'
<1>1. /\ pc' = pc /\ sent' = sent \ {m}
      /\ runs' = [runs EXCEPT ![m.call] = @ + 1]
  BY DEF Execute
<1>2. runs' \in [Calls -> Nat] /\ m.call \in Calls
  BY <1>1 DEF ClientInv
<1>3. ASSUME NEW d \in Acts PROVE ActInv(d)'
  <2>1. ActInv(d) /\ d \in Calls
    BY ClientAssumption DEF ClientInv
  <2>2. CASE d = m.call
    <3>1. runs[d] = 0 /\ pc[d] \notin Unsent
      BY <2>1, <2>2 DEF ActInv, Fresh
    <3>2. runs'[d] = 1
      BY <1>1, <2>1, <2>2, <3>1 DEF ClientInv
    <3>3. \A n \in sent' : n.call # d
      BY <1>1, <2>1, <2>2 DEF ActInv
    <3> QED BY <1>1, <3>1, <3>2, <3>3 DEF ActInv
  <2>3. CASE d # m.call
    <3>1. runs'[d] = runs[d]
      BY <1>1, <2>1, <2>3 DEF ClientInv
    <3> QED BY <1>1, <2>1, <3>1 DEF ActInv, Fresh
  <2> QED BY <2>2, <2>3
<1> QED BY <1>1, <1>2, <1>3 DEF ClientInv

\* Every step keeps the invariant.
LEMMA ClientStep ==
  ASSUME ClientInv, [Next]_vars
  PROVE  ClientInv'
<1>1. ASSUME NEW c \in Calls, Call(c) PROVE ClientInv'
  BY <1>1, GotoStep, QuietStep DEF Call, wire, Unsent
<1>2. ASSUME NEW c \in Calls, Enter(c) PROVE ClientInv'
  BY <1>2, GotoStep, QuietStep DEF Enter, wire, Unsent
<1>3. ASSUME NEW c \in Calls, Preflight(c) PROVE ClientInv'
  BY <1>3, GotoStep, QuietStep DEF Preflight, wire, Unsent
<1>4. ASSUME NEW c \in Calls, Insert(c) PROVE ClientInv'
  <2>1. UNCHANGED <<runs, sent>>
    BY <1>4 DEF Insert, wire
  <2>2. CASE Refuses
    <3>1. Lost(c)
      BY <1>4, <2>2 DEF Insert
    <3> QED BY <2>1, <3>1, LostStep, QuietStep
  <2>3. CASE ~Refuses
    <3>1. Goto(c, "write") /\ pc[c] = "insert"
      BY <1>4, <2>3 DEF Insert
    <3> QED BY <2>1, <3>1, GotoStep, QuietStep DEF Unsent
  <2> QED BY <2>2, <2>3
<1>5. ASSUME NEW c \in Calls, Write(c) PROVE ClientInv'
  BY <1>5, WriteStep
<1>6. ASSUME NEW c \in Calls, WriteFails(c) PROVE ClientInv'
  BY <1>6, LostStep, QuietStep DEF WriteFails, wire
<1>7. ASSUME NEW c \in Calls, Receive(c) PROVE ClientInv'
  <2>1. UNCHANGED <<runs, sent>>
    BY <1>7 DEF Receive, wire
  <2>2. CASE Lost(c)
    BY <2>1, <2>2, LostStep, QuietStep
  <2>3. CASE Goto(c, "ok") \/ Goto(c, "error")
    BY <2>1, <2>3, GotoStep, QuietStep DEF Unsent
  <2> QED BY <1>7, <2>2, <2>3 DEF Receive
<1>8. ASSUME NEW c \in Calls, Replace(c) PROVE ClientInv'
  BY <1>8, GotoStep, QuietStep DEF Replace, wire, Unsent
<1>9. ASSUME NEW c \in Calls, ReplaceFails(c) PROVE ClientInv'
  BY <1>9, GotoStep, QuietStep DEF ReplaceFails, wire, Unsent
<1>10. ASSUME NEW m \in sent, Execute(m) PROVE ClientInv'
  BY <1>10, ExecuteStep
<1>11. ASSUME NEW m, Lose(m) PROVE ClientInv'
  <2>1. UNCHANGED <<pc, runs>> /\ sent' \subseteq sent
    BY <1>11 DEF Lose
  <2> QED BY <2>1, QuietStep DEF ClientInv
<1>12. ASSUME NEW m, NEW outcome, Dispatch(m, outcome) PROVE ClientInv'
  <2>1. UNCHANGED <<pc, runs, sent>>
    BY <1>12 DEF Dispatch
  <2> QED BY <2>1, QuietStep DEF ClientInv
<1>13. ASSUME NEW k, LinkBreaks(k) \/ Close(k) PROVE ClientInv'
  <2>1. UNCHANGED <<pc, runs, sent>>
    BY <1>13 DEF LinkBreaks, Close, wire
  <2> QED BY <2>1, QuietStep DEF ClientInv
<1>14. CASE UNCHANGED vars
  <2>1. UNCHANGED <<pc, runs, sent>>
    BY <1>14 DEF vars, wire
  <2> QED BY <2>1, QuietStep DEF ClientInv
<1> QED
  BY <1>1, <1>2, <1>3, <1>4, <1>5, <1>6, <1>7, <1>8, <1>9, <1>10, <1>11, <1>12, <1>13, <1>14
  DEF Next, Client, Network, Answered

\* However connections break and are replaced, the App Server executes a fork, a
\* turn start, a command or an interrupt at most once per call: only idempotent
\* calls are made again (ReconnectingCodexAppServer).
THEOREM ActsAreExecutedOnce == Spec => []ActsRunOnce
<1>1. Init => ClientInv
  BY ClientAssumption DEF Init, ClientInv, ActInv, Fresh
<1>2. ClientInv /\ [Next]_vars => ClientInv'
  BY ClientStep
<1>3. ClientInv => ActsRunOnce
  BY DEF ClientInv, ActInv, ActsRunOnce
<1> QED BY <1>1, <1>2, <1>3, PTL DEF Spec

-----------------------------------------------------------------------------
(* The client implements what the coordinator relies on.                   *)

Requests == [conn : Conns, id : Nat, call : Calls]
Steps == {"new", "wait", "preflight", "insert", "write", "receive", "replace"} \cup Returned

\* The variables have their types, and no closed connection has a request left.
Shape ==
  /\ pc \in [Calls -> Steps]
  /\ retried \subseteq Calls
  /\ holder = {} \/ \E c \in Calls : holder = {c}
  /\ conn \in Conns
  /\ up \subseteq Conns /\ closed \subseteq Conns
  /\ pending \in [Conns -> SUBSET Requests]
  /\ \A k \in Conns : \A m \in pending[k] : m.conn = k
  /\ nextId \in [Conns -> Nat \ {0}]
  /\ sent \subseteq Requests /\ answers \subseteq Requests
  /\ inbox \in [Calls -> {"none", "answer", "refusal", "closed"}]
  /\ runs \in [Calls -> Nat]
  /\ faults \in 0..MaxFaults

Drained == \A k \in closed : pending[k] = {}

\* Every answer, read or not, comes from an execution of its call, and only a call
\* that was made has a request on its way.
Evidence ==
  /\ \A m \in answers : runs[m.call] > 0
  /\ \A c \in Calls : inbox[c] = "answer" => runs[c] > 0
  /\ \A m \in sent : pc[m.call] # "new"

Inv == ClientInv /\ Shape /\ Drained /\ Evidence

\* The shape of the state after a call moved to another step.
LEMMA ShapeGoto ==
  ASSUME Shape, NEW c \in Calls, NEW step \in Steps, Goto(c, step)
  PROVE  pc' \in [Calls -> Steps]
BY DEF Shape, Goto

\* A call that loses its connection replaces it or returns with an error, and then
\* leaves the mutex.
LEMMA LostMoves ==
  ASSUME NEW c \in Calls, Lost(c)
  PROVE  \/ Goto(c, "replace") /\ holder' = holder
         \/ Goto(c, "error") /\ holder' = {}
BY DEF Lost

\* The steps of the calls keep the shape.
LEMMA CallShape ==
  ASSUME Shape, NEW c \in Calls, Call(c) \/ Enter(c) \/ Client(c)
  PROVE  Shape'
<1>1. CASE Call(c)
  <2>1. Goto(c, "wait") /\ "wait" \in Steps
    BY <1>1 DEF Call, Steps
  <2> QED BY <1>1, <2>1, ShapeGoto DEF Call, Shape, transport, wire
<1>2. CASE Enter(c)
  <2>1. PICK step \in {"preflight", "insert"} : Goto(c, step)
    BY <1>2 DEF Enter
  <2>2. pc' \in [Calls -> Steps]
    BY <2>1, ShapeGoto DEF Steps
  <2> QED BY <1>2, <2>2 DEF Enter, Shape, transport, wire
<1>3. CASE Preflight(c)
  <2>1. PICK step \in {"replace", "insert"} : Goto(c, step)
    BY <1>3 DEF Preflight
  <2>2. pc' \in [Calls -> Steps]
    BY <2>1, ShapeGoto DEF Steps
  <2> QED BY <1>3, <2>2 DEF Preflight, Shape, transport, wire
<1>4. CASE Insert(c)
  <2>1. nextId' \in [Conns -> Nat \ {0}]
    BY <1>4 DEF Insert, Shape
  <2>2. CASE Refuses
    <3>1. Lost(c) /\ UNCHANGED <<pending, inbox>>
      BY <1>4, <2>2 DEF Insert
    <3>2. pc' \in [Calls -> Steps] /\ (holder' = holder \/ holder' = {})
      BY <3>1, LostMoves, ShapeGoto DEF Steps, Returned
    <3> QED BY <1>4, <2>1, <3>1, <3>2 DEF Insert, Shape, wire
  <2>3. CASE ~Refuses
    <3>1. /\ pending' = [pending EXCEPT ![conn] = @ \cup {Request(c)}]
          /\ inbox' = [inbox EXCEPT ![c] = "none"]
          /\ Goto(c, "write") /\ holder' = holder
      BY <1>4, <2>3 DEF Insert
    <3>2. Request(c) \in Requests /\ Request(c).conn = conn
      BY DEF Request, Requests, Shape
    <3>3. pc' \in [Calls -> Steps]
      BY <3>1, ShapeGoto DEF Steps
    <3>4. pending' \in [Conns -> SUBSET Requests]
      BY <3>1, <3>2 DEF Shape
    <3>5. ASSUME NEW k \in Conns, NEW m \in pending'[k] PROVE m.conn = k
      BY <3>1, <3>2, <3>5 DEF Shape
    <3>6. inbox' \in [Calls -> {"none", "answer", "refusal", "closed"}]
      BY <3>1 DEF Shape
    <3> QED BY <1>4, <2>1, <3>1, <3>3, <3>4, <3>5, <3>6 DEF Insert, Shape, wire
  <2> QED BY <2>2, <2>3
<1>5. CASE Write(c)
  <2>1. Goto(c, "receive") /\ "receive" \in Steps
    BY <1>5 DEF Write, Steps
  <2>2. Registered(c) \in Requests
    BY DEF Registered, Requests, Shape
  <2> QED BY <1>5, <2>1, <2>2, ShapeGoto DEF Write, Shape, transport
<1>6. CASE WriteFails(c)
  <2>1. pc' \in [Calls -> Steps] /\ (holder' = holder \/ holder' = {})
    BY <1>6, LostMoves, ShapeGoto DEF Steps, Returned, WriteFails
  <2>2. pending' = [pending EXCEPT ![conn] = @ \ {Registered(c)}]
    BY <1>6 DEF WriteFails
  <2>3. pending' \in [Conns -> SUBSET Requests]
    BY <2>2 DEF Shape
  <2>4. \A k \in Conns : pending'[k] \subseteq pending[k]
    BY <2>2 DEF Shape
  <2> QED BY <1>6, <2>1, <2>3, <2>4 DEF WriteFails, Shape, wire
<1>7. CASE Receive(c)
  <2>1. \/ Goto(c, "ok") /\ holder' = {}
        \/ Goto(c, "error") /\ holder' = {}
        \/ Lost(c)
    BY <1>7 DEF Receive
  <2>2. pc' \in [Calls -> Steps] /\ (holder' = holder \/ holder' = {})
    BY <2>1, LostMoves, ShapeGoto DEF Steps, Returned
  <2> QED BY <1>7, <2>2 DEF Receive, Shape, transport, wire
<1>8. CASE Replace(c)
  <2>1. Goto(c, "insert") /\ "insert" \in Steps
    BY <1>8 DEF Replace, Steps
  <2>2. conn + 1 \in Conns
    BY <1>8, ClientAssumption DEF Replace, Shape, Conns
  <2> QED BY <1>8, <2>1, <2>2, ShapeGoto DEF Replace, Shape, wire
<1>9. CASE ReplaceFails(c)
  <2>1. Goto(c, "error") /\ "error" \in Steps
    BY <1>9 DEF ReplaceFails, Steps, Returned
  <2>2. faults' \in 0..MaxFaults
    BY <1>9, ClientAssumption DEF ReplaceFails, Fault, Shape
  <2> QED BY <1>9, <2>1, <2>2, ShapeGoto DEF ReplaceFails, Shape, transport, wire
<1> QED BY <1>1, <1>2, <1>3, <1>4, <1>5, <1>6, <1>7, <1>8, <1>9 DEF Client

\* So do those of the App Server, the link and the read loop.
LEMMA WorldShape ==
  ASSUME Shape, Network \/ (\E m \in sent \cup answers : Lose(m)) \/ (\E k \in Conns : LinkBreaks(k))
  PROVE  Shape'
<1>1. ASSUME NEW m \in sent, Execute(m) PROVE Shape'
  <2>1. m \in Requests /\ m.call \in Calls
    BY DEF Shape, Requests
  <2>2. runs' \in [Calls -> Nat]
    BY <1>1, <2>1 DEF Execute, Shape
  <2> QED BY <1>1, <2>1, <2>2 DEF Execute, Shape, transport
<1>2. ASSUME NEW m \in answers, NEW outcome \in {"answer", "refusal", "closed"},
             Dispatch(m, outcome), faults' = faults \/ Fault
      PROVE  Shape'
  <2>1. m.call \in Calls
    BY DEF Shape, Requests
  <2>2. inbox' \in [Calls -> {"none", "answer", "refusal", "closed"}]
    BY <1>2, <2>1 DEF Dispatch, Shape
  <2>3. pending' = [pending EXCEPT ![m.conn] = @ \ {m}]
    BY <1>2 DEF Dispatch
  <2>4. pending' \in [Conns -> SUBSET Requests] /\ \A k \in Conns : pending'[k] \subseteq pending[k]
    BY <2>3 DEF Shape
  <2>5. faults' \in 0..MaxFaults
    BY <1>2, ClientAssumption DEF Fault, Shape
  <2> QED BY <1>2, <2>2, <2>4, <2>5 DEF Dispatch, Shape
<1>3. ASSUME NEW k \in Conns, Close(k) PROVE Shape'
  <2>1. /\ closed' = closed \cup {k}
        /\ pending' = [pending EXCEPT ![k] = {}]
        /\ inbox' = [c \in Calls |-> IF \E m \in pending[k] : m.call = c THEN "closed" ELSE inbox[c]]
    BY <1>3 DEF Close, FailPending
  <2>2. inbox' \in [Calls -> {"none", "answer", "refusal", "closed"}]
    BY <2>1 DEF Shape
  <2>3. pending' \in [Conns -> SUBSET Requests] /\ \A j \in Conns : pending'[j] \subseteq pending[j]
    BY <2>1 DEF Shape
  <2> QED BY <1>3, <2>1, <2>2, <2>3 DEF Close, Shape, wire
<1>4. ASSUME NEW m, Lose(m) PROVE Shape'
  BY <1>4 DEF Lose, Shape, transport
<1>5. ASSUME NEW k, LinkBreaks(k) PROVE Shape'
  BY <1>5, ClientAssumption DEF LinkBreaks, Fault, Shape, wire
<1> QED BY <1>1, <1>2, <1>3, <1>4, <1>5 DEF Network, Answered

\* A request is registered only with a connection that is not closed, and the close
\* fails all that wait, so none is left behind.
LEMMA DrainedStep ==
  ASSUME Shape, Drained, [Next]_vars
  PROVE  Drained'
<1> DEFINE Goal == \A k \in closed' : pending'[k] = {}
<1>1. ASSUME closed' = closed, \A k \in Conns : pending'[k] \subseteq pending[k] PROVE Goal
  BY <1>1 DEF Drained, Shape
<1>2. ASSUME NEW c \in Calls, Insert(c) PROVE Goal
  <2>1. closed' = closed
    BY <1>2 DEF Insert
  <2>2. CASE Refuses
    BY <1>1, <1>2, <2>1, <2>2 DEF Insert
  <2>3. CASE ~Refuses
    <3>1. conn \notin closed /\ pending' = [pending EXCEPT ![conn] = @ \cup {Request(c)}]
      BY <1>2, <2>3 DEF Insert, Refuses
    <3> QED BY <2>1, <3>1 DEF Shape, Drained
  <2> QED BY <2>2, <2>3
<1>3. ASSUME NEW c \in Calls, WriteFails(c) PROVE Goal
  <2>1. pending' = [pending EXCEPT ![conn] = @ \ {Registered(c)}] /\ closed' = closed
    BY <1>3 DEF WriteFails
  <2> QED BY <1>1, <2>1 DEF Shape
<1>4. ASSUME NEW m \in answers, NEW outcome, Dispatch(m, outcome) PROVE Goal
  <2>1. pending' = [pending EXCEPT ![m.conn] = @ \ {m}] /\ closed' = closed
    BY <1>4 DEF Dispatch
  <2> QED BY <1>1, <2>1 DEF Shape
<1>5. ASSUME NEW k \in Conns, Close(k) PROVE Goal
  <2>1. closed' = closed \cup {k} /\ pending' = [pending EXCEPT ![k] = {}]
    BY <1>5 DEF Close, FailPending
  <2> QED BY <2>1 DEF Drained, Shape
<1>6. ASSUME UNCHANGED <<closed, pending>> PROVE Goal
  BY <1>6 DEF Drained
<1>7. ASSUME NEW c \in Calls,
             Call(c) \/ Enter(c) \/ Preflight(c) \/ Write(c) \/ Receive(c) \/ Replace(c) \/ ReplaceFails(c)
      PROVE  Goal
  BY <1>6, <1>7 DEF Call, Enter, Preflight, Write, Receive, Replace, ReplaceFails, transport
<1>8. ASSUME NEW m, Execute(m) \/ Lose(m) PROVE Goal
  BY <1>6, <1>8 DEF Execute, Lose, transport
<1>9. ASSUME NEW k, LinkBreaks(k) PROVE Goal
  BY <1>6, <1>9 DEF LinkBreaks
<1>10. ASSUME UNCHANGED vars PROVE Goal
  BY <1>6, <1>10 DEF vars, transport
<1>11. Goal
  BY <1>2, <1>3, <1>4, <1>5, <1>7, <1>8, <1>9, <1>10 DEF Next, Client, Network, Answered
<1> QED BY <1>11 DEF Drained

\* Executions are never taken back, calls that were made stay made, and the evidence of
\* an execution only moves: from the answers to the inbox.
LEMMA EvidenceKept ==
  ASSUME Shape, Evidence, runs' = runs,
         \A m \in answers' : m \in answers,
         \A c \in Calls : inbox'[c] = "answer" => inbox[c] = "answer" \/ runs[c] > 0,
         \A m \in sent' : m \in sent /\ (pc'[m.call] = "new" => pc[m.call] = "new")
  PROVE  Evidence'
BY DEF Evidence

\* A call never goes back to where it was not made.
LEMMA NeverNew ==
  ASSUME Shape, NEW c \in Calls, NEW step, Goto(c, step), step # "new"
  PROVE  \A d \in Calls : pc'[d] = "new" => pc[d] = "new"
BY DEF Shape, Goto

\* Every answer, on its way or in the inbox, stays one of a call that was executed.
LEMMA EvidenceStep ==
  ASSUME Shape, Evidence, [Next]_vars
  PROVE  Evidence'
<1> DEFINE Aged == \A d \in Calls : pc'[d] = "new" => pc[d] = "new"
           Quiet == UNCHANGED <<runs, answers>> /\ sent' = sent
<1>0. \A m \in sent \cup answers : m.call \in Calls
  BY DEF Shape, Requests
<1>1. ASSUME NEW c \in Calls, NEW step, Goto(c, step), step # "new" PROVE Aged
  BY <1>1, NeverNew
<1>2. ASSUME NEW c \in Calls, Lost(c) PROVE Aged
  BY <1>1, <1>2, LostMoves
<1>3. ASSUME NEW c \in Calls, Call(c) \/ Enter(c) \/ Preflight(c) \/ WriteFails(c)
                               \/ Receive(c) \/ Replace(c) \/ ReplaceFails(c)
      PROVE  Evidence'
  <2>1. Aged
    BY <1>1, <1>2, <1>3 DEF Call, Enter, Preflight, WriteFails, Receive, Replace, ReplaceFails
  <2>2. Quiet /\ inbox' = inbox
    BY <1>3 DEF Call, Enter, Preflight, WriteFails, Receive, Replace, ReplaceFails, wire
  <2> QED BY <1>0, <2>1, <2>2, EvidenceKept
<1>4. ASSUME NEW c \in Calls, Insert(c) PROVE Evidence'
  <2>1. Aged
    BY <1>1, <1>2, <1>4 DEF Insert
  <2>2. Quiet /\ (inbox' = inbox \/ inbox' = [inbox EXCEPT ![c] = "none"])
    BY <1>4 DEF Insert, wire
  <2>3. \A d \in Calls : inbox'[d] = "answer" => inbox[d] = "answer"
    BY <2>2 DEF Shape
  <2> QED BY <1>0, <2>1, <2>2, <2>3, EvidenceKept
<1>5. ASSUME NEW c \in Calls, Write(c) PROVE Evidence'
  <2>1. /\ pc[c] = "write" /\ pc' = [pc EXCEPT ![c] = "receive"]
        /\ sent' = sent \cup {Registered(c)}
        /\ UNCHANGED <<answers, inbox, runs>>
    BY <1>5 DEF Write, Goto
  <2>2. Registered(c).call = c
    BY DEF Registered
  <2>3. ASSUME NEW m \in sent' PROVE pc'[m.call] # "new"
    BY <1>0, <2>1, <2>2 DEF Evidence, Shape
  <2> QED BY <2>1, <2>3 DEF Evidence
<1>6. ASSUME NEW m \in sent, Execute(m) PROVE Evidence'
  <2>1. /\ runs' = [runs EXCEPT ![m.call] = @ + 1]
        /\ answers' = answers \cup {m} /\ sent' = sent \ {m} /\ UNCHANGED <<pc, inbox>>
    BY <1>6 DEF Execute
  <2>2. \A d \in Calls : runs'[d] \in Nat /\ (runs[d] > 0 => runs'[d] > 0)
    BY <2>1 DEF Shape
  <2>3. runs'[m.call] > 0
    BY <1>0, <2>1 DEF Shape
  <2> QED BY <1>0, <2>1, <2>2, <2>3 DEF Evidence
<1>7. ASSUME NEW m \in answers, NEW outcome, Dispatch(m, outcome) PROVE Evidence'
  <2>1. /\ UNCHANGED <<pc, sent, runs>> /\ answers' = answers \ {m}
        /\ inbox' = IF m \in pending[m.conn] THEN [inbox EXCEPT ![m.call] = outcome] ELSE inbox
    BY <1>7 DEF Dispatch
  <2>2. runs[m.call] > 0
    BY DEF Evidence
  <2>3. \A d \in Calls : inbox'[d] = "answer" => inbox[d] = "answer" \/ runs[d] > 0
    BY <2>1, <2>2 DEF Shape
  <2> QED BY <2>1, <2>3, EvidenceKept
<1>8. ASSUME NEW m, Lose(m) PROVE Evidence'
  <2>1. UNCHANGED <<pc, inbox, runs>> /\ sent' \subseteq sent /\ answers' \subseteq answers
    BY <1>8 DEF Lose
  <2> QED BY <2>1, EvidenceKept
<1>9. ASSUME NEW k, Close(k) PROVE Evidence'
  <2>1. /\ UNCHANGED <<pc, sent, answers, runs>>
        /\ inbox' = [c \in Calls |-> IF \E m \in pending[k] : m.call = c THEN "closed" ELSE inbox[c]]
    BY <1>9 DEF Close, FailPending, wire
  <2>2. \A d \in Calls : inbox'[d] = "answer" => inbox[d] = "answer"
    BY <2>1
  <2> QED BY <2>1, <2>2, EvidenceKept
<1>10. ASSUME NEW k, LinkBreaks(k) PROVE Evidence'
  BY <1>10 DEF LinkBreaks, Evidence, wire
<1>11. CASE UNCHANGED vars
  BY <1>11 DEF vars, Evidence, wire
<1> QED BY <1>3, <1>4, <1>5, <1>6, <1>7, <1>8, <1>9, <1>10, <1>11 DEF Next, Client, Network, Answered

\* The invariant holds at the start.
LEMMA InvInit == Init => Inv
<1> SUFFICES ASSUME Init PROVE Inv
  OBVIOUS
<1>1. ClientInv
  BY ClientAssumption DEF Init, ClientInv, ActInv, Fresh
<1>2. Shape
  BY ClientAssumption DEF Init, Shape, Steps, Returned, Conns
<1>3. Drained /\ Evidence
  BY DEF Init, Drained, Evidence
<1> QED BY <1>1, <1>2, <1>3 DEF Inv

\* Every step keeps it.
LEMMA InvStep == Inv /\ [Next]_vars => Inv'
<1> SUFFICES ASSUME Inv, [Next]_vars PROVE Inv'
  OBVIOUS
<1>1. Shape'
  <2>1. CASE UNCHANGED vars
    BY <2>1 DEF Inv, Shape, vars, transport, wire
  <2> QED BY <2>1, CallShape, WorldShape DEF Inv, Next
<1> QED BY <1>1, ClientStep, DrainedStep, EvidenceStep DEF Inv

\* The invariant of the client: acts are written once, closed connections have no
\* request, and an answer is the evidence of an execution.
THEOREM Invariance == Spec => []Inv
BY InvInit, InvStep, PTL DEF Spec

\* The variables keep their types; at most one call is inside the client mutex.
THEOREM TypeCorrect == Spec => []TypeOK
<1>1. Shape => TypeOK
  <2> SUFFICES ASSUME Shape PROVE TypeOK
    OBVIOUS
  <2>1. holder \subseteq Calls /\ Cardinality(holder) <= 1
    <3>1. CASE holder = {}
      BY <3>1, FS_EmptySet
    <3>2. CASE \E c \in Calls : holder = {c}
      BY <3>2, FS_Singleton
    <3> QED BY <3>1, <3>2 DEF Shape
  <2>2. \A k \in Conns : \A m \in pending[k] : m.conn = k /\ m.call \in Calls
    BY DEF Shape, Requests
  <2>3. \A m \in sent \cup answers : m.conn \in Conns /\ m.id \in Nat /\ m.call \in Calls
    BY DEF Shape, Requests
  <2> QED BY <2>1, <2>2, <2>3 DEF Shape, TypeOK, Steps
<1> QED BY <1>1, Invariance, PTL DEF Inv

\* However a close interleaves with the calls, no request waits on a closed connection:
\* a caller is never left waiting for an answer nobody reads (fail_pending, request).
THEOREM ClosedHasNoRequestHolds == Spec => []ClosedHasNoRequest
<1>1. Drained <=> ClosedHasNoRequest
  BY DEF Drained, ClosedHasNoRequest
<1> QED BY <1>1, Invariance, PTL DEF Inv

-----------------------------------------------------------------------------
(* The refinement.                                                         *)

\* What the coordinator sees of a call that moves.
LEMMA StateGoto ==
  ASSUME Shape, NEW c \in Calls, NEW step, Goto(c, step), NEW seen,
         seen = IF step \in Returned \cup {"new"} THEN step ELSE "open"
  PROVE  [d \in Calls |-> State(d)'] = [[d \in Calls |-> State(d)] EXCEPT ![c] = seen]
BY DEF Shape, Goto, State

\* A call that moves without returning does not show.
LEMMA StateStays ==
  ASSUME Shape, NEW c \in Calls, NEW step, Goto(c, step),
         pc[c] \notin Returned \cup {"new"}, step \notin Returned \cup {"new"}
  PROVE  [d \in Calls |-> State(d)'] = [d \in Calls |-> State(d)]
BY DEF Shape, Goto, State

\* A call that returns with an error: the coordinator sees a call that was open fail.
LEMMA FailSeen ==
  ASSUME Shape, NEW c \in Calls, Goto(c, "error"), pc[c] \notin Returned \cup {"new"}, runs' = runs
  PROVE  Remote!Fail(c)
BY StateGoto DEF Remote!Fail, State, Returned

\* A lost connection shows as a failure or not at all.
LEMMA LostSeen ==
  ASSUME Shape, NEW c \in Calls, Lost(c), pc[c] \notin Returned \cup {"new"}, runs' = runs
  PROVE  Remote!Fail(c) \/ UNCHANGED Remote!vars
<1>1. CASE Goto(c, "replace")
  <2>1. "replace" \notin Returned \cup {"new"}
    BY DEF Returned
  <2> QED BY <1>1, <2>1, StateStays DEF Remote!vars
<1>2. CASE Goto(c, "error")
  BY <1>2, FailSeen
<1> QED BY <1>1, <1>2, LostMoves

\* Each step of the client, of the App Server and of the network is a step of the
\* promise, or does not show.
LEMMA RemoteStep ==
  ASSUME Inv, [Next]_vars
  PROVE  [Remote!Next]_(Remote!vars)
<1> DEFINE Seen == [d \in Calls |-> State(d)]
           Goal == [Remote!Next]_(Remote!vars)
<1>0. Shape /\ ClientInv /\ Evidence
  BY DEF Inv
<1>1. ASSUME UNCHANGED <<pc, runs>> PROVE Goal
  BY <1>1 DEF State, Remote!vars
<1>2. ASSUME NEW c \in Calls, Remote!Fail(c) PROVE Goal
  BY <1>2 DEF Remote!Next
<1>3. ASSUME NEW c \in Calls, Call(c) PROVE Goal
  <2>1. Remote!Open(c)
    <3>1. pc[c] = "new" /\ Goto(c, "wait") /\ runs' = runs
      BY <1>3 DEF Call
    <3>2. Seen' = [Seen EXCEPT ![c] = "open"]
      BY <1>0, <3>1, StateGoto DEF Returned
    <3>3. Seen[c] = "new"
      BY <3>1 DEF State
    <3> QED BY <3>1, <3>2, <3>3 DEF Remote!Open
  <2> QED BY <2>1 DEF Remote!Next
<1>4. ASSUME NEW c \in Calls, Enter(c) \/ Preflight(c) \/ Write(c) \/ Replace(c) PROVE Goal
  <2>1. /\ pc[c] \in {"wait", "preflight", "write", "replace"}
        /\ \E step \in {"preflight", "insert", "replace", "receive"} : Goto(c, step)
        /\ runs' = runs
    BY <1>4 DEF Enter, Preflight, Write, Replace
  <2> QED BY <1>0, <2>1, StateStays DEF Returned, Remote!vars
<1>5. ASSUME NEW c \in Calls, Insert(c) PROVE Goal
  <2>1. pc[c] = "insert" /\ runs' = runs /\ (Lost(c) \/ Goto(c, "write"))
    BY <1>5 DEF Insert
  <2>2. CASE Lost(c)
    BY <1>0, <1>2, <2>1, <2>2, LostSeen DEF Returned
  <2>3. CASE Goto(c, "write")
    BY <1>0, <2>1, <2>3, StateStays DEF Returned, Remote!vars
  <2> QED BY <2>1, <2>2, <2>3
<1>6. ASSUME NEW c \in Calls, WriteFails(c) PROVE Goal
  <2>1. pc[c] = "write" /\ runs' = runs /\ Lost(c)
    BY <1>6 DEF WriteFails
  <2> QED BY <1>0, <1>2, <2>1, LostSeen DEF Returned
<1>7. ASSUME NEW c \in Calls, Receive(c) PROVE Goal
  <2>1. pc[c] = "receive" /\ runs' = runs
    BY <1>7 DEF Receive
  <2>2. CASE inbox[c] = "answer" /\ Goto(c, "ok")
    <3>1. runs[c] > 0
      BY <1>0, <2>2 DEF Evidence
    <3>2. Seen' = [Seen EXCEPT ![c] = "ok"]
      BY <1>0, <2>2, StateGoto DEF Returned
    <3>3. Seen[c] = "open"
      BY <2>1 DEF State, Returned
    <3>4. Remote!Succeed(c)
      BY <2>1, <3>1, <3>2, <3>3 DEF Remote!Succeed
    <3> QED BY <3>4 DEF Remote!Next
  <2>3. CASE Goto(c, "error")
    BY <1>0, <1>2, <2>1, <2>3, FailSeen DEF Returned
  <2>4. CASE Lost(c)
    BY <1>0, <1>2, <2>1, <2>4, LostSeen DEF Returned
  <2> QED BY <1>7, <2>2, <2>3, <2>4 DEF Receive
<1>8. ASSUME NEW c \in Calls, ReplaceFails(c) PROVE Goal
  <2>1. pc[c] = "replace" /\ runs' = runs /\ Goto(c, "error")
    BY <1>8 DEF ReplaceFails
  <2> QED BY <1>0, <1>2, <2>1, FailSeen DEF Returned
<1>9. ASSUME NEW m \in sent, Execute(m) PROVE Goal
  <2>1. m.call \in Calls /\ pc[m.call] # "new"
    BY <1>0 DEF Evidence, Shape, Requests
  <2>2. PICK c \in Calls : c = m.call
    BY <2>1
  <2>3. runs' = [runs EXCEPT ![c] = @ + 1] /\ pc' = pc
    BY <1>9, <2>2 DEF Execute
  <2>4. c \in Acts => runs[c] = 0
    BY <1>0, <2>2 DEF ClientInv, ActInv
  <2>5. Seen[c] # "new"
    BY <2>1, <2>2 DEF State
  <2>6. Seen' = Seen
    BY <2>3 DEF State
  <2>7. Remote!Run(c)
    BY <2>3, <2>4, <2>5, <2>6 DEF Remote!Run
  <2> QED BY <2>7 DEF Remote!Next
<1>10. ASSUME NEW m, NEW outcome, Lose(m) \/ Dispatch(m, outcome) PROVE Goal
  BY <1>1, <1>10 DEF Lose, Dispatch
<1>11. ASSUME NEW k, LinkBreaks(k) \/ Close(k) PROVE Goal
  BY <1>1, <1>11 DEF LinkBreaks, Close
<1>12. CASE UNCHANGED vars
  BY <1>1, <1>12 DEF vars
<1> QED
  BY <1>3, <1>4, <1>5, <1>6, <1>7, <1>8, <1>9, <1>10, <1>11, <1>12
  DEF Next, Client, Network, Answered

HIDE DEF Inv, vars, Remote!vars

\* The reconnecting client keeps what the coordinator relies on: an act is executed at
\* most once, a call succeeds only when it was executed, and a failed one may still be.
THEOREM CallsImplemented == Spec => RemoteSpec
<1>1. Init => Remote!Init
  BY DEF Init, Remote!Init, State
<1>2. Inv /\ [Next]_vars => [Remote!Next]_(Remote!vars)
  BY RemoteStep
<1> QED BY <1>1, <1>2, Invariance, PTL DEF Spec, RemoteSpec, Remote!Spec

=============================================================================
