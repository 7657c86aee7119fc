--------------------------- MODULE AppServerClient ---------------------------
(***************************************************************************)
(* The reconnecting App Server client.  Every caller of the daemon shares  *)
(* one client behind a mutex, which is held for the whole call.  A call    *)
(* registers its request with the connection, writes it and waits; the     *)
(* read loop hands answers to the requests they belong to and fails all of *)
(* them when the connection closes.  An idempotent call that failed with   *)
(* the connection is made once more on a new one; the others only replace  *)
(* a connection known to be closed before they send.                       *)
(***************************************************************************)
EXTENDS Naturals, FiniteSets

CONSTANTS
  Calls,      \* the calls that are made
  Acts,       \* fork_thread, start_turn, execute_command and interrupt_turn
  MaxConns,   \* connections that are opened
  MaxFaults   \* broken links, malformed answers and connections refused

ASSUME ClientAssumption ==
  /\ Acts \subseteq Calls
  /\ MaxConns \in Nat \ {0}
  /\ MaxFaults \in Nat

VARIABLES
  pc,       \* where each call is
  retried,  \* calls that were made again
  holder,   \* the call that holds the client mutex, or none
  conn,     \* the current connection
  up,       \* connections whose link to the App Server works
  closed,   \* connections the transport has marked closed
  pending,  \* requests waiting for an answer, per connection
  nextId,   \* next request id, per connection
  sent,     \* requests written and not executed
  answers,  \* answers not yet read
  inbox,    \* what was delivered to each call: "none", "answer", "refusal" or "closed"
  runs,     \* how often the App Server executed each call
  faults    \* faults left

transport == <<up, closed, pending, nextId>>
wire == <<sent, answers>>
vars == <<pc, retried, holder, conn, transport, wire, inbox, runs, faults>>

Conns == 1..MaxConns
Returned == {"ok", "error"}
Request(c) == [conn |-> conn, id |-> nextId[conn], call |-> c]

Init ==
  /\ pc = [c \in Calls |-> "new"]
  /\ retried = {}
  /\ holder = {}
  /\ conn = 1
  /\ up = {1}
  /\ closed = {}
  /\ pending = [k \in Conns |-> {}]
  /\ nextId = [k \in Conns |-> 1]
  /\ sent = {}
  /\ answers = {}
  /\ inbox = [c \in Calls |-> "none"]
  /\ runs = [c \in Calls |-> 0]
  /\ faults = MaxFaults

Fault == faults > 0 /\ faults' = faults - 1
Goto(c, step) == pc' = [pc EXCEPT ![c] = step]

-----------------------------------------------------------------------------
(* The call, under the mutex.                                              *)

Call(c) ==
  /\ pc[c] = "new"
  /\ Goto(c, "wait")
  /\ UNCHANGED <<retried, holder, conn, transport, wire, inbox, runs, faults>>

\* Each call holds the client mutex until it returns.
Enter(c) ==
  /\ pc[c] = "wait"
  /\ holder = {}
  /\ holder' = {c}
  /\ Goto(c, IF c \in Acts THEN "preflight" ELSE "insert")
  /\ UNCHANGED <<retried, conn, transport, wire, inbox, runs, faults>>

\* fork_thread, start_turn, execute_command and interrupt_turn replace a
\* connection that is known to be closed.
Preflight(c) ==
  /\ pc[c] = "preflight"
  /\ Goto(c, IF conn \in closed THEN "replace" ELSE "insert")
  /\ UNCHANGED <<retried, holder, conn, transport, wire, inbox, runs, faults>>

\* Any call is made again.
RepeatsMutant(c) == c \notin retried
\* Only idempotent calls are made again, once.
Repeats(c) == c \notin Acts /\ c \notin retried

\* A reconnectable error: Io, Protocol or Closed.
Lost(c) ==
  IF Repeats(c)
  THEN Goto(c, "replace") /\ UNCHANGED holder
  ELSE Goto(c, "error") /\ holder' = {}

\* request: under the requests lock, a closed connection takes no request.
Refuses == conn \in closed

Insert(c) ==
  /\ pc[c] = "insert"
  /\ nextId' = [nextId EXCEPT ![conn] = @ + 1]
  /\ IF Refuses
     THEN Lost(c) /\ UNCHANGED <<pending, inbox>>
     ELSE /\ pending' = [pending EXCEPT ![conn] = @ \cup {Request(c)}]
          /\ inbox' = [inbox EXCEPT ![c] = "none"]
          /\ Goto(c, "write")
          /\ UNCHANGED holder
  /\ UNCHANGED <<retried, conn, up, closed, wire, runs, faults>>

\* The request c registered last.
Registered(c) == [conn |-> conn, id |-> nextId[conn] - 1, call |-> c]

Write(c) ==
  /\ pc[c] = "write"
  /\ sent' = sent \cup {Registered(c)}
  /\ Goto(c, "receive")
  /\ UNCHANGED <<retried, holder, conn, transport, answers, inbox, runs, faults>>

\* The bridge behind a closed connection reads no more.
WriteFails(c) ==
  /\ pc[c] = "write"
  /\ conn \in closed
  /\ pending' = [pending EXCEPT ![conn] = @ \ {Registered(c)}]
  /\ Lost(c)
  /\ UNCHANGED <<retried, conn, up, closed, nextId, wire, inbox, runs, faults>>

Receive(c) ==
  /\ pc[c] = "receive"
  /\ \/ inbox[c] = "answer" /\ Goto(c, "ok") /\ holder' = {}
     \/ inbox[c] = "refusal" /\ Goto(c, "error") /\ holder' = {}
     \/ inbox[c] = "closed" /\ Lost(c)
  /\ UNCHANGED <<retried, conn, transport, wire, inbox, runs, faults>>

\* reconnect_locked: a new proxy is connected, then the old one is shut down.
Replace(c) ==
  /\ pc[c] = "replace"
  /\ conn < MaxConns
  /\ conn' = conn + 1
  /\ up' = (up \cup {conn + 1}) \ {conn}
  /\ retried' = retried \cup {c}
  /\ Goto(c, "insert")
  /\ UNCHANGED <<holder, closed, pending, nextId, wire, inbox, runs, faults>>

ReplaceFails(c) ==
  /\ pc[c] = "replace"
  /\ Fault \/ (conn = MaxConns /\ UNCHANGED faults)
  /\ Goto(c, "error")
  /\ holder' = {}
  /\ UNCHANGED <<retried, conn, transport, wire, inbox, runs>>

-----------------------------------------------------------------------------
(* The App Server, the link, the bridge and the read loop.                 *)

\* A request that was written is executed, even when its link broke since.
Execute(m) ==
  /\ m \in sent
  /\ sent' = sent \ {m}
  /\ runs' = [runs EXCEPT ![m.call] = @ + 1]
  /\ answers' = answers \cup {m}
  /\ UNCHANGED <<pc, retried, holder, conn, transport, inbox, faults>>

Lose(m) ==
  /\ m \in sent \cup answers
  /\ m.conn \notin up
  /\ sent' = sent \ {m}
  /\ answers' = answers \ {m}
  /\ UNCHANGED <<pc, retried, holder, conn, transport, inbox, runs, faults>>

\* dispatch_message: an answer goes to the request with its id, if one waits.
Dispatch(m, outcome) ==
  /\ m \in answers
  /\ answers' = answers \ {m}
  /\ pending' = [pending EXCEPT ![m.conn] = @ \ {m}]
  /\ inbox' = IF m \in pending[m.conn] THEN [inbox EXCEPT ![m.call] = outcome] ELSE inbox
  /\ UNCHANGED <<pc, retried, holder, conn, up, closed, nextId, sent, runs>>

\* A result, an error of the App Server, or neither, which is a Protocol error.
Answered == \E m \in answers : \/ Dispatch(m, "answer") /\ UNCHANGED faults
                               \/ Dispatch(m, "refusal") /\ UNCHANGED faults
                               \/ Dispatch(m, "closed") /\ Fault

LinkBreaks(k) ==
  /\ k \in up
  /\ Fault
  /\ up' = up \ {k}
  /\ UNCHANGED <<pc, retried, holder, conn, closed, pending, nextId, wire, inbox, runs>>

\* fail_pending marks the connection closed and leaves what waits for it.
FailPendingMutant(k) ==
  /\ closed' = closed \cup {k}
  /\ UNCHANGED <<pending, inbox>>
\* fail_pending: the connection is marked closed and all that waits is failed,
\* under one lock.
FailPending(k) ==
  /\ closed' = closed \cup {k}
  /\ pending' = [pending EXCEPT ![k] = {}]
  /\ inbox' = [c \in Calls |-> IF \E m \in pending[k] : m.call = c THEN "closed" ELSE inbox[c]]

\* close_with_error, or the end of the read loop.
Close(k) ==
  /\ k \in Conns \ (up \cup closed)
  /\ k <= conn
  /\ FailPending(k)
  /\ UNCHANGED <<pc, retried, holder, conn, up, nextId, wire, runs, faults>>

Client(c) == \/ Preflight(c) \/ Insert(c) \/ Write(c) \/ WriteFails(c)
             \/ Receive(c) \/ Replace(c) \/ ReplaceFails(c)

Network == \/ \E m \in sent : Execute(m)
           \/ Answered
           \/ \E k \in Conns : Close(k)

Next ==
  \/ \E c \in Calls : Call(c) \/ Enter(c) \/ Client(c)
  \/ Network
  \/ \E m \in sent \cup answers : Lose(m)
  \/ \E k \in Conns : LinkBreaks(k)

Spec == Init /\ [][Next]_vars

\* The tasks of the daemon and of the client run, the mutex is granted in order,
\* a broken link is noticed, and the App Server executes and answers what reaches it.
FairSpec ==
  /\ Spec
  /\ \A c \in Calls : SF_vars(Enter(c)) /\ WF_vars(Client(c))
  /\ WF_vars(\E m \in sent : Execute(m))
  /\ WF_vars(Answered)
  /\ WF_vars(\E k \in Conns : Close(k))

-----------------------------------------------------------------------------
(* Properties.                                                             *)

TypeOK ==
  /\ pc \in [Calls -> {"new", "wait", "preflight", "insert", "write", "receive", "replace"} \cup Returned]
  /\ retried \subseteq Calls
  /\ holder \subseteq Calls /\ Cardinality(holder) <= 1
  /\ conn \in Conns
  /\ up \subseteq Conns /\ closed \subseteq Conns
  /\ \A k \in Conns : \A m \in pending[k] : m.conn = k /\ m.call \in Calls
  /\ \A m \in sent \cup answers : m.conn \in Conns /\ m.id \in Nat /\ m.call \in Calls
  /\ inbox \in [Calls -> {"none", "answer", "refusal", "closed"}]
  /\ runs \in [Calls -> Nat]
  /\ faults \in 0..MaxFaults

\* An uncertain fork, turn start, command or interrupt is never repeated: however
\* connections break and are replaced, the App Server executes it at most once.
ActsRunOnce == \A c \in Acts : runs[c] <= 1

\* A closed connection has no request left: each of them was failed, and none is
\* registered after that, however the close interleaves with a call.
ClosedHasNoRequest == \A k \in closed : pending[k] = {}

\* What the coordinator relies on, RemoteCalls: an act is executed at most once, a
\* call succeeds only when it was executed, a failed one may still be executed.
State(c) == IF pc[c] \in Returned \cup {"new"} THEN pc[c] ELSE "open"
Remote == INSTANCE RemoteCalls WITH state <- [c \in Calls |-> State(c)]
RemoteSpec == Remote!Spec

\* Every call returns, whatever connections break while it is made.
CallsReturn == \A c \in Calls : pc[c] = "wait" ~> pc[c] \in Returned

=============================================================================
