--------------------------- MODULE CandidateProofs ---------------------------
(***************************************************************************)
(* How a candidate is made and how it is tested, for any number of         *)
(* requests, patches, turns, calls, commands, faults and crashes: an       *)
(* integration result holds the one patch that is recorded for it, and a   *)
(* frozen command is executed at most once for a verification request.     *)
(*                                                                         *)
(* First the integration, by the invariant Inv; then the journal of the    *)
(* verification, by the invariant JournalInv.                              *)
(***************************************************************************)
EXTENDS Integration, VerificationJournal, SequenceTheorems, FiniteSetTheorems, TLAPS

\* Calls of consensus_apply_patch, and turns.
Call == [patch : Patches, status : {"inProgress", "completed", "failed"}, queued : BOOLEAN]

Attempt == [request : Requests, status : {"inProgress"} \cup Ended, heard : {"all", "items", "none"},
            calls : Seq(Call), wrote : BOOLEAN, edited : BOOLEAN, outside : BOOLEAN,
            answer : {"READY", "LIMIT", "OTHER", None}, generation : Nat]

\* Recorded patches, positions of apply_patch, and patches that landed.
Records == [patch : Patches, generation : Nat]
Handlers == [at : {"apply", "record"}, id : Nat, call : Nat, base : Nat, generation : Nat]
Landed == [request : Requests, patch : Patches]

\* The variables have their types.
Types ==
  /\ run \in [status : {"RUNNING", "PAUSED", "BLOCKED"}, request : 0..Last, sha : Nat]
  /\ attempts \in Seq(Attempt)
  /\ generation \in Nat
  /\ record \in [Requests -> Records \cup {None}]
  /\ kept \in [Requests -> Nat \cup {None}]
  /\ handler \in Handlers \cup {None}
  /\ repo \in [onTarget : BOOLEAN, merged : BOOLEAN, changes : SUBSET Nat]
  /\ commits \in Seq(SUBSET Nat)
  /\ applied \in Seq(Landed)
  /\ results \in Seq(Nat)
  /\ cut \in BOOLEAN /\ faults \in Nat

\* Turns are of the request or of earlier ones; one is at work at a time, and one
\* that has ended waits for no call.
TurnInv ==
  \A i \in Ids :
    /\ attempts[i].request <= Request
    /\ i \notin Live => \A n \in DOMAIN attempts[i].calls : attempts[i].calls[n].status # "inProgress"
    /\ \A j \in Live : i \in Live => i = j

\* The pending turn is the request's. Until a patch of the request is recorded, its
\* other turns have ended without a call of apply_patch.
PendingInv ==
  /\ pending # None => pending \in Ids /\ attempts[pending].request = Request
  /\ run.status = "BLOCKED" => pending # None /\ attempts[pending].status = "completed"
  /\ \A i \in Ids :
       attempts[i].request = Request /\ i # pending /\ record[Request] = None =>
         attempts[i].calls = <<>> /\ i \notin Live

\* The archive names turns that were started.
ArchiveInv == archived \subseteq [id : Ids, why : Ended \cup {"eventless", "unavailable"}]

\* apply_patch is busy for the pending turn, of a request with no patch recorded, on
\* the active binding: AcceptIntegration and the recoveries wait for the record.
HandlerInv ==
  handler # None =>
    /\ pending # None /\ handler.id = pending
    /\ handler.call \in DOMAIN attempts[pending].calls
    /\ record[Request] = None
    /\ handler.generation = generation

\* Only requests that were reached have a recorded patch, of a generation that was
\* active, and only requests with a recorded patch have a recovered commit.
RecordInv ==
  /\ generation >= 1
  /\ \A r \in Requests :
    /\ record[r] # None => r <= Request /\ record[r].generation \in 1..generation
    /\ kept[r] # None => record[r] # None

\* No patch is lost from the worktree: it is in the uncommitted changes or in the
\* last commit.
RepoInv ==
  /\ repo.merged <=> Tip > 0
  /\ ~repo.merged => applied = <<>>
  /\ repo.changes \subseteq 0..Len(applied)
  /\ \A n \in 1..Tip : commits[n] \subseteq 0..Len(applied)
  /\ \A k \in DOMAIN applied : k \in repo.changes \/ k \in commits[Tip]

\* apply_patch is between git apply and the record of the request's patch.
Unrecorded(r) == handler # None /\ handler.at = "record" /\ r = Request

\* Without a crash between them, a request has one patch that landed exactly when it
\* has a recorded one, and it is that one.
PatchInv ==
  ~cut =>
    /\ \A k \in DOMAIN applied :
         /\ \A l \in DOMAIN applied : applied[l].request = applied[k].request => k = l
         /\ IF Unrecorded(applied[k].request)
            THEN applied[k].patch = attempts[handler.id].calls[handler.call].patch
            ELSE /\ record[applied[k].request] # None
                 /\ record[applied[k].request].patch = applied[k].patch
    /\ \A r \in Requests :
         record[r] # None \/ Unrecorded(r) => \E k \in DOMAIN applied : applied[k].request = r

\* An accepted commit is on the branch and contains the patches of its request.
ResultInv ==
  /\ Len(results) = Request /\ run.sha <= Tip
  /\ \A r \in 0..Request - 1 :
       /\ results[r + 1] \in 1..Tip
       /\ ~cut => \A k \in DOMAIN applied :
                    applied[k].request = r => k \in commits[results[r + 1]]

\* The turn made no patch.
Fresh(i) == \A n \in DOMAIN attempts[i].calls : attempts[i].calls[n].status # "completed"

\* Once a request has a recovered commit, the branch moves only by a pending turn that
\* wrote and made no patch: Audited refuses it and no recovery gives it up.
KeptInv ==
  ObeyedPrompt =>
    /\ Live \subseteq {pending}
    /\ \A r \in 0..Request - 1 : kept[r] # None => results[r + 1] = kept[r]
    /\ Request \in Requests /\ kept[Request] # None =>
         /\ \A i \in Live : Fresh(i)
         /\ \/ kept[Request] = Tip
            \/ pending # None /\ attempts[pending].wrote /\ Fresh(pending)

USE DEF Ids, Tip, Request, Ended, Records, Handlers

\* A sequence with one element replaced.
LEMMA ReplaceElement ==
  ASSUME NEW S, NEW q \in Seq(S), NEW i \in DOMAIN q, NEW x \in S, NEW p, p = [q EXCEPT ![i] = x]
  PROVE  /\ p \in Seq(S) /\ Len(p) = Len(q) /\ DOMAIN p = DOMAIN q
         /\ p[i] = x /\ \A j \in DOMAIN q : j # i => p[j] = q[j]
  BY ExceptSeq

\* A sequence with one more element.
LEMMA AppendElement ==
  ASSUME NEW S, NEW q \in Seq(S), NEW x \in S, NEW p, p = Append(q, x)
  PROVE  /\ p \in Seq(S) /\ Len(p) = Len(q) + 1 /\ DOMAIN p = DOMAIN q \cup {Len(q) + 1}
         /\ p[Len(q) + 1] = x /\ \A j \in DOMAIN q : p[j] = q[j]
  OBVIOUS

\* The turns are as they were, but for what they wrote and called.
SameTurns ==
  /\ attempts' \in Seq(Attempt) /\ DOMAIN attempts' = DOMAIN attempts
  /\ \A j \in Ids : /\ attempts'[j].request = attempts[j].request
                    /\ attempts'[j].status = attempts[j].status
                    /\ attempts[j].wrote => attempts'[j].wrote

\* No call of a turn changes.
SameCalls == \A j \in Ids : attempts'[j].calls = attempts[j].calls

\* The fields of an attempt, and of one in which a field changes.
LEMMA AttemptFields ==
  ASSUME NEW a \in Attempt
  PROVE  /\ a.calls \in Seq(Call) /\ a.request \in Requests
         /\ a.status \in {"inProgress", "completed", "broken"} /\ a.wrote \in BOOLEAN
  BY DEF Attempt

\* An attempt in which the turn wrote, edited or left the policy.
LEMMA AttemptWrote ==
  ASSUME NEW a \in Attempt, NEW w, w = [a EXCEPT !.wrote = TRUE] \/ w = [a EXCEPT !.edited = TRUE]
                                   \/ w = [a EXCEPT !.outside = TRUE]
  PROVE  /\ w \in Attempt /\ w.request = a.request /\ w.status = a.status /\ w.calls = a.calls
         /\ (a.wrote => w.wrote) /\ (w = [a EXCEPT !.wrote = TRUE] => w.wrote)
  BY DEF Attempt

\* An attempt with other calls.
LEMMA AttemptCalled ==
  ASSUME NEW a \in Attempt, NEW c \in Seq(Call), NEW w, w = [a EXCEPT !.calls = c]
  PROVE  w \in Attempt /\ w.request = a.request /\ w.status = a.status /\ w.calls = c /\ w.wrote = a.wrote
  BY DEF Attempt

\* A step that changes one attempt.
LEMMA OneAttempt ==
  ASSUME attempts \in Seq(Attempt), NEW i \in Ids, NEW w \in Attempt,
         attempts' = [attempts EXCEPT ![i] = w],
         w.request = attempts[i].request, w.status = attempts[i].status,
         attempts[i].wrote => w.wrote
  PROVE  SameTurns /\ attempts'[i] = w /\ \A j \in Ids : j # i => attempts'[j] = attempts[j]
<1>1. /\ attempts' \in Seq(Attempt) /\ DOMAIN attempts' = DOMAIN attempts
      /\ attempts'[i] = w /\ \A j \in Ids : j # i => attempts'[j] = attempts[j]
  BY ReplaceElement, Zenon
<1> QED BY <1>1 DEF SameTurns

\* A step in which a turn writes, or does something outside of the policy.
LEMMA WriteEffect ==
  ASSUME attempts \in Seq(Attempt), NEW i \in Ids,
         \/ attempts' = [attempts EXCEPT ![i].wrote = TRUE]
         \/ attempts' = [attempts EXCEPT ![i].edited = TRUE]
         \/ attempts' = [attempts EXCEPT ![i].outside = TRUE]
  PROVE  /\ SameTurns /\ SameCalls
         /\ attempts' = [attempts EXCEPT ![i].wrote = TRUE] => attempts'[i].wrote
<1>1. attempts[i] \in Attempt
  OBVIOUS
<1>2. PICK w : /\ attempts' = [attempts EXCEPT ![i] = w]
               /\ \/ w = [attempts[i] EXCEPT !.wrote = TRUE]
                  \/ w = [attempts[i] EXCEPT !.edited = TRUE]
                  \/ w = [attempts[i] EXCEPT !.outside = TRUE]
  OBVIOUS
<1>3. /\ w \in Attempt /\ w.request = attempts[i].request /\ w.status = attempts[i].status
      /\ w.calls = attempts[i].calls /\ (attempts[i].wrote => w.wrote)
  BY <1>1, <1>2, AttemptWrote
<1>4. SameTurns /\ attempts'[i] = w /\ \A j \in Ids : j # i => attempts'[j] = attempts[j]
  BY <1>2, <1>3, OneAttempt
<1>5. SameCalls
  BY <1>3, <1>4 DEF SameCalls
<1>6. ASSUME attempts' = [attempts EXCEPT ![i].wrote = TRUE] PROVE attempts'[i].wrote
  <2>1. attempts'[i] = [attempts[i] EXCEPT !.wrote = TRUE]
    BY <1>6
  <2> QED BY <1>1, <2>1, AttemptWrote
<1> QED BY <1>4, <1>5, <1>6

\* A step that changes the calls of one attempt.
LEMMA CallsEffect ==
  ASSUME attempts \in Seq(Attempt), NEW i \in Ids, NEW q \in Seq(Call),
         attempts' = [attempts EXCEPT ![i].calls = q]
  PROVE  /\ SameTurns /\ attempts'[i].calls = q
         /\ \A j \in Ids : j # i => attempts'[j] = attempts[j]
<1>1. attempts[i] \in Attempt
  OBVIOUS
<1>2. PICK w : w = [attempts[i] EXCEPT !.calls = q]
  OBVIOUS
<1>3. /\ w \in Attempt /\ w.request = attempts[i].request /\ w.status = attempts[i].status
      /\ w.calls = q /\ w.wrote = attempts[i].wrote
  BY <1>1, <1>2, AttemptCalled
<1>4. attempts' = [attempts EXCEPT ![i] = w]
  BY <1>2
<1>5. SameTurns /\ attempts'[i] = w /\ \A j \in Ids : j # i => attempts'[j] = attempts[j]
  BY <1>3, <1>4, OneAttempt
<1> QED BY <1>3, <1>5

\* A step that changes one call.
LEMMA OneCall ==
  ASSUME attempts \in Seq(Attempt), NEW i \in Ids, NEW n \in DOMAIN attempts[i].calls,
         NEW c \in Call, c.patch = attempts[i].calls[n].patch,
         attempts' = [attempts EXCEPT ![i].calls[n] = c]
  PROVE  /\ SameTurns /\ \A j \in Ids : j # i => attempts'[j] = attempts[j]
         /\ DOMAIN attempts'[i].calls = DOMAIN attempts[i].calls
         /\ attempts'[i].calls[n].status = c.status
         /\ \A m \in DOMAIN attempts[i].calls :
              /\ attempts'[i].calls[m].patch = attempts[i].calls[m].patch
              /\ m # n => attempts'[i].calls[m] = attempts[i].calls[m]
<1> DEFINE q == [attempts[i].calls EXCEPT ![n] = c]
<1>1. attempts[i].calls \in Seq(Call)
  BY AttemptFields
<1>2. attempts' = [attempts EXCEPT ![i].calls = q]
  OBVIOUS
<1>3. /\ q \in Seq(Call) /\ DOMAIN q = DOMAIN attempts[i].calls /\ q[n] = c
      /\ \A m \in DOMAIN attempts[i].calls : m # n => q[m] = attempts[i].calls[m]
  BY <1>1, ReplaceElement, Zenon
<1> HIDE DEF q
<1>4. /\ SameTurns /\ attempts'[i].calls = q
      /\ \A j \in Ids : j # i => attempts'[j] = attempts[j]
  BY <1>2, <1>3, CallsEffect
<1> QED BY <1>3, <1>4

\* The turns are as they were, and their calls settle or, of a turn at work, begin.
CallsChange ==
  \A j \in Ids :
    /\ \A m \in DOMAIN attempts[j].calls :
         /\ m \in DOMAIN attempts'[j].calls
         /\ attempts'[j].calls[m].patch = attempts[j].calls[m].patch
         /\ \/ attempts'[j].calls[m].status = attempts[j].calls[m].status
            \/ attempts'[j].calls[m].status = "failed"
    /\ \A m \in DOMAIN attempts'[j].calls :
         m \in DOMAIN attempts[j].calls
           \/ (j \in Live /\ attempts'[j].calls[m].status = "inProgress")

\* What an answer, a timeout and the handling of a call do to it.
LEMMA AnsweredEffect ==
  ASSUME attempts \in Seq(Attempt), NEW i \in Ids, NEW n \in DOMAIN attempts[i].calls,
         NEW status \in {"completed", "failed"}, attempts' = Answered(i, n, status)
  PROVE  /\ SameTurns /\ \A j \in Ids : j # i => attempts'[j] = attempts[j]
         /\ DOMAIN attempts'[i].calls = DOMAIN attempts[i].calls
         /\ \A m \in DOMAIN attempts[i].calls :
              /\ attempts'[i].calls[m].patch = attempts[i].calls[m].patch
              /\ \/ attempts'[i].calls[m].status = attempts[i].calls[m].status
                 \/ m = n /\ attempts'[i].calls[m].status = status
         /\ status = "failed" => CallsChange
<1> DEFINE old == attempts[i].calls[n]
           c == [old EXCEPT !.queued = FALSE, !.status = IF @ = "inProgress" THEN status ELSE @]
<1>1. old \in Call
  BY AttemptFields
<1>2. attempts' = [attempts EXCEPT ![i].calls[n] = c]
  BY DEF Answered
<1>3. /\ c \in Call /\ c.patch = old.patch
      /\ c.status = old.status \/ c.status = status
  <2> HIDE DEF old
  <2> QED BY <1>1 DEF Call
<1> HIDE DEF c
<1>4. /\ SameTurns /\ \A j \in Ids : j # i => attempts'[j] = attempts[j]
      /\ DOMAIN attempts'[i].calls = DOMAIN attempts[i].calls
      /\ attempts'[i].calls[n].status = c.status
      /\ \A m \in DOMAIN attempts[i].calls :
           /\ attempts'[i].calls[m].patch = attempts[i].calls[m].patch
           /\ m # n => attempts'[i].calls[m] = attempts[i].calls[m]
  BY <1>2, <1>3, OneCall
<1>5. status = "failed" => CallsChange
  BY <1>3, <1>4 DEF CallsChange
<1> QED BY <1>3, <1>4, <1>5

\* What the end of its wait, and being taken by apply_patch, do to a call.
LEMMA SettledEffect ==
  ASSUME attempts \in Seq(Attempt), NEW i \in Ids, NEW n \in DOMAIN attempts[i].calls,
         NEW c, c \in {[attempts[i].calls[n] EXCEPT !.status = "failed"],
                       [attempts[i].calls[n] EXCEPT !.queued = FALSE]},
         attempts' = [attempts EXCEPT ![i].calls[n] = c]
  PROVE  SameTurns /\ CallsChange
<1>1. attempts[i].calls[n] \in Call
  BY AttemptFields
<1>2. /\ c \in Call /\ c.patch = attempts[i].calls[n].patch
      /\ c.status = attempts[i].calls[n].status \/ c.status = "failed"
  BY <1>1 DEF Call
<1>3. /\ SameTurns /\ \A j \in Ids : j # i => attempts'[j] = attempts[j]
      /\ DOMAIN attempts'[i].calls = DOMAIN attempts[i].calls
      /\ attempts'[i].calls[n].status = c.status
      /\ \A m \in DOMAIN attempts[i].calls :
           /\ attempts'[i].calls[m].patch = attempts[i].calls[m].patch
           /\ m # n => attempts'[i].calls[m] = attempts[i].calls[m]
  BY <1>2, OneCall, ZenonT(30)
<1> QED BY <1>2, <1>3 DEF CallsChange

\* What a new call does to its turn.
LEMMA CalledEffect ==
  ASSUME attempts \in Seq(Attempt), NEW i \in Live, NEW patch \in Patches,
         attempts' = [attempts EXCEPT ![i].calls =
                        Append(@, [patch |-> patch, status |-> "inProgress", queued |-> TRUE])]
  PROVE  SameTurns /\ CallsChange
<1> DEFINE c == [patch |-> patch, status |-> "inProgress", queued |-> TRUE]
           q == Append(attempts[i].calls, c)
<1>1. c \in Call /\ c.status = "inProgress"
  BY DEF Call
<1>2. attempts[i].calls \in Seq(Call) /\ i \in Ids
  BY AttemptFields DEF Live
<1>3. attempts' = [attempts EXCEPT ![i].calls = q]
  OBVIOUS
<1> HIDE DEF c
<1>4. /\ q \in Seq(Call) /\ DOMAIN q = DOMAIN attempts[i].calls \cup {Len(attempts[i].calls) + 1}
      /\ q[Len(attempts[i].calls) + 1] = c /\ \A j \in DOMAIN attempts[i].calls : q[j] = attempts[i].calls[j]
  BY <1>1, <1>2, AppendElement
<1> HIDE DEF q
<1>5. /\ SameTurns /\ attempts'[i].calls = q
      /\ \A j \in Ids : j # i => attempts'[j] = attempts[j]
  BY <1>2, <1>3, <1>4, CallsEffect
<1> QED BY <1>1, <1>4, <1>5 DEF CallsChange

\* A crash fails every call that is under way.
LEMMA CrashEffect ==
  ASSUME attempts \in Seq(Attempt), Crash
  PROVE  SameTurns /\ CallsChange
<1> DEFINE failed(c) == [c EXCEPT !.queued = FALSE,
                                  !.status = IF @ = "inProgress" THEN "failed" ELSE @]
           q(i) == [n \in DOMAIN attempts[i].calls |-> failed(attempts[i].calls[n])]
           w(i) == [attempts[i] EXCEPT !.calls = q(i)]
<1>1. ASSUME NEW c \in Call
      PROVE  /\ failed(c) \in Call /\ failed(c).patch = c.patch
             /\ failed(c).status = c.status \/ failed(c).status = "failed"
  BY DEF Call
<1>2. attempts' = [i \in Ids |-> w(i)]
  BY Zenon DEF Crash, CutOff
<1> HIDE DEF failed
<1>3. ASSUME NEW i \in Ids
      PROVE  /\ q(i) \in Seq(Call) /\ DOMAIN q(i) = DOMAIN attempts[i].calls
             /\ \A n \in DOMAIN attempts[i].calls :
                  /\ q(i)[n].patch = attempts[i].calls[n].patch
                  /\ q(i)[n].status = attempts[i].calls[n].status \/ q(i)[n].status = "failed"
  <2>1. attempts[i].calls \in Seq(Call)
    BY AttemptFields
  <2> QED BY <1>1, <2>1
<1> HIDE DEF q
<1>4. ASSUME NEW i \in Ids
      PROVE  /\ w(i) \in Attempt /\ w(i).request = attempts[i].request /\ w(i).status = attempts[i].status
             /\ w(i).calls = q(i) /\ w(i).wrote = attempts[i].wrote
  BY <1>3, AttemptCalled
<1> HIDE DEF w
<1>5. attempts' \in Seq(Attempt) /\ DOMAIN attempts' = DOMAIN attempts
  BY <1>2, <1>4
<1>6. SameTurns
  BY <1>2, <1>4, <1>5 DEF SameTurns
<1>7. CallsChange
  BY <1>2, <1>3, <1>4 DEF CallsChange
<1> QED BY <1>6, <1>7

\* A turn ends.
LEMMA EndEffect ==
  ASSUME attempts \in Seq(Attempt), NEW i \in Ids,
         NEW w \in Attempt, w.request = attempts[i].request, w.status \in Ended,
         w.calls = attempts[i].calls, w.wrote = attempts[i].wrote,
         attempts' = [attempts EXCEPT ![i] = w]
  PROVE  /\ attempts' \in Seq(Attempt) /\ DOMAIN attempts' = DOMAIN attempts
         /\ attempts'[i].status \in Ended
         /\ \A j \in Ids : /\ attempts'[j].request = attempts[j].request
                           /\ attempts'[j].wrote = attempts[j].wrote
                           /\ attempts'[j].calls = attempts[j].calls
                           /\ j # i => attempts'[j].status = attempts[j].status
<1>1. /\ attempts' \in Seq(Attempt) /\ DOMAIN attempts' = DOMAIN attempts
      /\ attempts'[i] = w /\ \A j \in Ids : j # i => attempts'[j] = attempts[j]
  BY ReplaceElement, Zenon
<1> QED BY <1>1

\* A request is sent in a new turn.
LEMMA StartEffect ==
  ASSUME Types, StartTurn
  PROVE  LET n == Len(attempts) + 1 IN
         /\ attempts' \in Seq(Attempt) /\ DOMAIN attempts' = DOMAIN attempts \cup {n}
         /\ n \notin DOMAIN attempts
         /\ \A j \in Ids : attempts'[j] = attempts[j]
         /\ attempts'[n].request = Request /\ attempts'[n].status = "inProgress"
         /\ attempts'[n].calls = <<>>
<1>1. /\ NewTurn \in Attempt /\ NewTurn.request = Request
      /\ NewTurn.status = "inProgress" /\ NewTurn.calls = <<>>
  BY DEF NewTurn, StartTurn, Types, Attempt
<1>2. attempts' = Append(attempts, NewTurn) /\ attempts \in Seq(Attempt)
  BY DEF StartTurn, Types
<1> HIDE DEF NewTurn
<1>3. /\ attempts' \in Seq(Attempt) /\ DOMAIN attempts' = DOMAIN attempts \cup {Len(attempts) + 1}
      /\ attempts'[Len(attempts) + 1] = NewTurn /\ \A j \in DOMAIN attempts : attempts'[j] = attempts[j]
  BY <1>1, <1>2, AppendElement
<1>4. Len(attempts) + 1 \notin DOMAIN attempts
  BY <1>2
<1> QED BY <1>1, <1>3, <1>4

-----------------------------------------------------------------------------

\* The run and what is recorded of it are unchanged.
Same == UNCHANGED <<run, pending, archived, record, generation, kept, results>>

\* The turns at work are the same.
LEMMA LiveSame ==
  ASSUME SameTurns
  PROVE  Live' = Live
  BY DEF SameTurns, Live

\* What the turns and calls do keeps what is known of the turns.
LEMMA TurnsKept ==
  ASSUME Types, TurnInv, PendingInv, ArchiveInv, RecordInv, SameTurns, CallsChange, Same
  PROVE  TurnInv' /\ PendingInv' /\ ArchiveInv' /\ RecordInv'
<1>1. Live' = Live
  BY LiveSame
<1>2. TurnInv'
  BY <1>1 DEF TurnInv, SameTurns, CallsChange, Same
<1>3. PendingInv'
  <2>1. /\ pending' # None => pending' \in Ids' /\ attempts'[pending'].request = Request'
        /\ run'.status = "BLOCKED" => pending' # None /\ attempts'[pending'].status = "completed"
    BY DEF PendingInv, SameTurns, Same
  <2>2. ASSUME NEW i \in Ids', attempts'[i].request = Request', i # pending', record'[Request'] = None
        PROVE  attempts'[i].calls = <<>> /\ i \notin Live'
    <3>1. i \in Ids /\ attempts[i].calls = <<>> /\ i \notin Live
      BY <2>2 DEF PendingInv, SameTurns, Same
    <3>2. DOMAIN attempts'[i].calls = {}
      BY <3>1 DEF CallsChange
    <3>3. attempts'[i].calls \in Seq(Call)
      BY <2>2, AttemptFields DEF SameTurns
    <3> QED BY <1>1, <3>1, <3>2, <3>3, EmptySeq
  <2> QED BY <2>1, <2>2 DEF PendingInv
<1>4. ArchiveInv' /\ RecordInv'
  BY DEF ArchiveInv, RecordInv, SameTurns, Same
<1> QED BY <1>2, <1>3, <1>4

\* Fresh turns stay so while calls only begin or fail.
LEMMA FreshKept ==
  ASSUME SameTurns, CallsChange, NEW i \in Ids, Fresh(i)
  PROVE  Fresh(i)'
  BY DEF Fresh, CallsChange, SameTurns

\* Calls that begin or fail keep what is known of the recovered commit.
LEMMA KeptKept ==
  ASSUME Types, PendingInv, KeptInv, SameTurns, CallsChange, Same, UNCHANGED commits
  PROVE  KeptInv'
<1>1. Live' = Live
  BY LiveSame
<1>2. \A i \in Ids : Fresh(i) => Fresh(i)'
  BY FreshKept
<1>3. Live \subseteq Ids
  BY DEF Live
<1> SUFFICES ASSUME ObeyedPrompt, Request' \in Requests, kept'[Request'] # None
             PROVE  /\ \A i \in Live' : Fresh(i)'
                    /\ \/ kept'[Request'] = Tip'
                       \/ pending' # None /\ attempts'[pending'].wrote /\ Fresh(pending)'
  BY <1>1 DEF KeptInv, Same
<1>4. /\ \A i \in Live : Fresh(i)
      /\ \/ kept[Request] = Tip
         \/ pending # None /\ attempts[pending].wrote /\ Fresh(pending)
  BY DEF KeptInv, Same
<1>5. \A i \in Live' : Fresh(i)'
  BY <1>1, <1>2, <1>3, <1>4
<1>6. CASE kept[Request] = Tip
  BY <1>5, <1>6 DEF Same
<1>7. CASE pending # None /\ attempts[pending].wrote /\ Fresh(pending)
  <2>1. pending \in Ids /\ pending' = pending
    BY <1>7 DEF PendingInv, Same
  <2>2. Fresh(pending)' /\ attempts'[pending].wrote
    BY <1>7, <2>1, FreshKept DEF SameTurns
  <2> QED BY <1>5, <1>7, <2>1, <2>2
<1> QED BY <1>4, <1>6, <1>7

\* Calls that begin or fail keep what is known of apply_patch.
LEMMA HandlerKept ==
  ASSUME Types, HandlerInv, PendingInv, SameTurns, CallsChange, Same, handler' = handler \/ handler' = None
  PROVE  HandlerInv'
<1> SUFFICES ASSUME handler' # None
             PROVE  HandlerInv'
  BY DEF HandlerInv
<1>1. handler' = handler /\ pending \in Ids
  BY DEF HandlerInv, PendingInv
<1> QED BY <1>1 DEF HandlerInv, Same, CallsChange

\* The patches that landed, and what is recorded of them.
LEMMA PatchKept ==
  ASSUME Types, HandlerInv, PendingInv, PatchInv, SameTurns, CallsChange, Same, UNCHANGED applied,
         \/ handler' = handler
         \/ handler' = None /\ (handler = None \/ handler.at # "record" \/ cut'),
         cut => cut'
  PROVE  PatchInv'
<1> SUFFICES ASSUME ~cut' PROVE PatchInv'
  BY DEF PatchInv
<1>1. \A r \in Requests : Unrecorded(r)' <=> Unrecorded(r)
  BY DEF Unrecorded, Same
<1>2. ASSUME NEW r \in Requests, Unrecorded(r)
      PROVE  attempts'[handler'.id].calls[handler'.call].patch = attempts[handler.id].calls[handler.call].patch
  <2>1. handler # None /\ handler' = handler
    BY <1>2 DEF Unrecorded
  <2>2. handler.id \in Ids /\ handler.call \in DOMAIN attempts[handler.id].calls
    BY <2>1 DEF HandlerInv, PendingInv
  <2> QED BY <2>1, <2>2 DEF CallsChange
<1>3. \A k \in DOMAIN applied : applied[k].request \in Requests
  <2>1. applied \in Seq(Landed)
    BY DEF Types
  <2>2. \A k \in DOMAIN applied : applied[k] \in Landed
    BY <2>1
  <2> QED BY <2>2 DEF Landed
<1>4. applied' = applied /\ record' = record /\ ~cut
  BY DEF Same
<1> QED BY <1>1, <1>2, <1>3, <1>4, ZenonT(30) DEF PatchInv

\* Steps outside of the worktree keep what is known of it.
LEMMA GitKept ==
  ASSUME Types, RepoInv, ResultInv, UNCHANGED git, Same, cut => cut'
  PROVE  RepoInv' /\ ResultInv'
  BY DEF RepoInv, ResultInv, git, Same

\* The inductive invariant of the integration.
Inv ==
  /\ Types /\ TurnInv /\ PendingInv /\ ArchiveInv /\ HandlerInv /\ RecordInv /\ RepoInv
  /\ PatchInv /\ ResultInv /\ KeptInv

\* A step that changes nothing but calls keeps the invariant.
LEMMA CallsKept ==
  ASSUME Inv, Types', SameTurns, CallsChange, Same, UNCHANGED git,
         \/ handler' = handler
         \/ handler' = None /\ (handler = None \/ handler.at # "record" \/ cut'),
         cut => cut'
  PROVE  Inv'
<1>1. TurnInv' /\ PendingInv' /\ ArchiveInv' /\ RecordInv'
  BY TurnsKept DEF Inv
<1>2. HandlerInv' /\ PatchInv'
  BY HandlerKept, PatchKept DEF Inv, git
<1>3. RepoInv' /\ ResultInv' /\ KeptInv'
  BY GitKept, KeptKept DEF Inv, git
<1> QED BY <1>1, <1>2, <1>3 DEF Inv

\* A step of a turn that writes in the worktree keeps the invariant.
LEMMA WriteKept ==
  ASSUME Inv, Types', SameTurns, SameCalls, Same, UNCHANGED <<handler, cut, applied>>, NEW i \in Live,
         Tip <= Tip', \A n \in 1..Tip : commits'[n] = commits[n],
         Tip' # Tip => attempts'[i].wrote, RepoInv'
  PROVE  Inv'
<1>1. CallsChange
  BY DEF CallsChange, SameCalls
<1>2. TurnInv' /\ PendingInv' /\ ArchiveInv' /\ RecordInv' /\ HandlerInv' /\ PatchInv'
  BY <1>1, TurnsKept, HandlerKept, PatchKept DEF Inv
<1>3. Tip \in Nat /\ Tip' \in Nat /\ run.request \in Nat /\ run.sha \in Nat
  BY DEF Inv, Types
<1>4. ResultInv'
  BY <1>3 DEF Inv, ResultInv, Same
<1>5. KeptInv'
  <2>1. Live' = Live /\ Live \subseteq Ids
    BY LiveSame DEF Live
  <2>2. \A j \in Ids : Fresh(j) => Fresh(j)'
    BY <1>1, FreshKept
  <2> SUFFICES ASSUME ObeyedPrompt, Request' \in Requests, kept'[Request'] # None
               PROVE  /\ \A j \in Live' : Fresh(j)'
                      /\ \/ kept'[Request'] = Tip'
                         \/ pending' # None /\ attempts'[pending'].wrote /\ Fresh(pending)'
    BY <2>1 DEF Inv, KeptInv, Same
  <2>3. /\ \A j \in Live : Fresh(j)
        /\ \/ kept[Request] = Tip
           \/ pending # None /\ attempts[pending].wrote /\ Fresh(pending)
    BY DEF Inv, KeptInv, Same
  <2>0. i = pending /\ i \in Ids
    BY <2>1 DEF Inv, KeptInv
  <2>10. pending # None
    <3>1. attempts \in Seq(Attempt)
      BY DEF Inv, Types
    <3> QED BY <2>0, <3>1, IntegrationAssumption DEF IntegrationAssumption
  <2>4. \A j \in Live' : Fresh(j)'
    BY <2>1, <2>2, <2>3
  <2>5. CASE Tip' # Tip
    BY <2>1, <2>0, <2>3, <2>4, <2>5, <2>10 DEF Same
  <2>6. CASE Tip' = Tip
    <3>1. CASE kept[Request] = Tip
      BY <2>4, <2>6, <3>1 DEF Same
    <3>2. CASE attempts[pending].wrote
      <4>1. attempts'[pending].wrote
        BY <2>0, <2>3, <3>2 DEF SameTurns
      <4> QED BY <2>0, <2>1, <2>2, <2>3, <2>4, <2>10, <4>1 DEF Same
    <3> QED BY <2>3, <3>1, <3>2
  <2> QED BY <2>5, <2>6
<1> QED BY <1>2, <1>4, <1>5 DEF Inv

\* Replacing what a turn does, and appending to the branch, keeps the types.
LEMMA WriteTypes ==
  ASSUME Types, attempts' \in Seq(Attempt), commits' \in Seq(SUBSET Nat),
         repo' \in [onTarget : BOOLEAN, merged : BOOLEAN, changes : SUBSET Nat],
         handler' = handler \/ handler' = None, cut' \in BOOLEAN, faults' \in Nat,
         Same, UNCHANGED applied
  PROVE  Types'
  BY DEF Types, Same

\* A turn's work in the worktree keeps the invariant.
LEMMA WriteSteps ==
  ASSUME Inv, NEW i \in Live,
         SwitchToTarget(i) \/ MergeReviewer(i) \/ Commit(i) \/ EditFiles(i) \/ ActOutsidePolicy(i)
  PROVE  Inv'
<1>1. i \in Ids /\ attempts \in Seq(Attempt) /\ Types
  BY DEF Live, Inv, Types
<1>2. /\ Same /\ UNCHANGED <<handler, cut, applied, faults>>
      /\ \/ attempts' = [attempts EXCEPT ![i].wrote = TRUE]
         \/ attempts' = [attempts EXCEPT ![i].edited = TRUE]
         \/ attempts' = [attempts EXCEPT ![i].outside = TRUE]
  BY DEF SwitchToTarget, MergeReviewer, Commit, EditFiles, ActOutsidePolicy, Turn, Same, store, git
<1>3. SameTurns /\ SameCalls
  BY <1>1, <1>2, WriteEffect
<1>4. attempts' = [attempts EXCEPT ![i].wrote = TRUE] => attempts'[i].wrote
  BY <1>1, WriteEffect
<1>5. /\ repo \in [onTarget : BOOLEAN, merged : BOOLEAN, changes : SUBSET Nat]
      /\ commits \in Seq(SUBSET Nat) /\ applied \in Seq(Landed)
      /\ Tip \in Nat /\ Len(applied) \in Nat /\ cut \in BOOLEAN /\ faults \in Nat
      /\ repo.changes \subseteq Nat /\ RepoInv
  BY DEF Inv, Types
<1>6. attempts' \in Seq(Attempt) /\ cut' \in BOOLEAN /\ faults' \in Nat
  BY <1>2, <1>3, <1>5 DEF SameTurns
<1>7. CASE /\ commits' = commits
           /\ repo' = repo \/ repo' = [repo EXCEPT !.onTarget = TRUE]
                \/ repo' = [repo EXCEPT !.changes = @ \cup {Edited}]
  <2>1. /\ repo' \in [onTarget : BOOLEAN, merged : BOOLEAN, changes : SUBSET Nat]
        /\ repo'.merged = repo.merged
        /\ repo'.changes = repo.changes \/ repo'.changes = repo.changes \cup {0}
    <3>1. CASE repo' = repo
      BY <1>5, <3>1
    <3>2. CASE repo' = [repo EXCEPT !.onTarget = TRUE]
      BY <1>5, <3>2
    <3>3. CASE repo' = [repo EXCEPT !.changes = @ \cup {Edited}]
      <4>1. repo.changes \cup {Edited} \in SUBSET Nat
        BY <1>5 DEF Edited
      <4> QED BY <1>5, <3>3, <4>1 DEF Edited
    <3> QED BY <1>7, <3>1, <3>2, <3>3
  <2>2. RepoInv'
    BY <1>2, <1>5, <1>7, <2>1 DEF RepoInv
  <2>3. Types'
    BY <1>1, <1>2, <1>5, <1>6, <1>7, <2>1, WriteTypes
  <2> QED BY <1>2, <1>3, <1>5, <1>7, <2>2, <2>3, WriteKept
<1>8. CASE MergeReviewer(i)
  <2>1. /\ repo' = [repo EXCEPT !.merged = TRUE] /\ commits' = Append(commits, {})
        /\ attempts' = [attempts EXCEPT ![i].wrote = TRUE]
        /\ ~repo.merged /\ repo.changes = {}
    BY <1>8 DEF MergeReviewer
  <2>2. Tip = 0 /\ applied = <<>>
    BY <1>5, <2>1 DEF RepoInv
  <2>3. /\ repo' \in [onTarget : BOOLEAN, merged : BOOLEAN, changes : SUBSET Nat]
        /\ repo'.merged = TRUE /\ repo'.changes = {}
    BY <1>5, <2>1
  <2>4. /\ commits' \in Seq(SUBSET Nat) /\ Tip' = 1 /\ commits'[1] = {}
    BY <1>5, <2>1, <2>2
  <2>5. RepoInv'
    BY <1>2, <2>2, <2>3, <2>4 DEF RepoInv
  <2>6. Types'
    BY <1>1, <1>2, <1>6, <2>3, <2>4, WriteTypes
  <2> QED BY <1>2, <1>3, <1>4, <2>1, <2>2, <2>4, <2>5, <2>6, WriteKept
<1>9. CASE Commit(i)
  <2> DEFINE new == commits[Tip] \cup repo.changes
  <2>1. /\ commits' = Append(commits, new) /\ repo' = [repo EXCEPT !.changes = {}]
        /\ attempts' = [attempts EXCEPT ![i].wrote = TRUE] /\ repo.merged
    BY <1>9 DEF Commit
  <2>2. Tip \in 1..Tip /\ new \subseteq 0..Len(applied)
    BY <1>5, <2>1 DEF RepoInv
  <2>3. new \in SUBSET Nat
    BY <1>5, <2>2
  <2>4. \A k \in DOMAIN applied : k \in new
    BY <1>5 DEF RepoInv
  <2> HIDE DEF new
  <2>5. /\ repo' \in [onTarget : BOOLEAN, merged : BOOLEAN, changes : SUBSET Nat]
        /\ repo'.merged = repo.merged /\ repo'.changes = {}
    BY <1>5, <2>1
  <2>6. /\ commits' \in Seq(SUBSET Nat) /\ Tip' = Tip + 1 /\ commits'[Tip + 1] = new
        /\ \A n \in 1..Tip : commits'[n] = commits[n]
    BY <1>5, <2>1, <2>3
  <2>7. RepoInv'
    BY <1>2, <1>5, <2>1, <2>2, <2>4, <2>5, <2>6 DEF RepoInv
  <2>8. Types'
    BY <1>1, <1>2, <1>6, <2>5, <2>6, WriteTypes
  <2>9. Tip <= Tip' /\ (Tip' # Tip => attempts'[i].wrote)
    BY <1>4, <1>5, <2>1, <2>6
  <2> QED BY <1>2, <1>3, <2>6, <2>7, <2>8, <2>9, WriteKept
<1> QED
  BY <1>7, <1>8, <1>9 DEF SwitchToTarget, EditFiles, ActOutsidePolicy, git

\* A step that changes calls only, in the types.
LEMMA CallTypes ==
  ASSUME Types, SameTurns, Same, UNCHANGED git, cut' \in BOOLEAN, faults' \in Nat,
         handler' = handler \/ handler' = None
  PROVE  Types'
  BY WriteTypes DEF SameTurns, git, Types

\* The counter of faults keeps its type.
LEMMA FaultsCounted ==
  ASSUME Types, Fail
  PROVE  faults' \in Nat
  BY DEF Types, Fail

\* A call of the turn, the end of its wait, and a crash keep the invariant.
LEMMA CallSteps ==
  ASSUME Inv, NEW i \in Live, CallPatch(i) \/ CallTimesOut(i)
  PROVE  Inv'
<1>1. i \in Ids /\ attempts \in Seq(Attempt) /\ Types /\ faults \in Nat /\ cut \in BOOLEAN
  BY DEF Live, Inv, Types
<1>2. Same /\ UNCHANGED <<handler, cut>> /\ UNCHANGED git
  BY DEF CallPatch, CallTimesOut, Turn, Same, store
<1>3. SameTurns /\ CallsChange /\ faults' \in Nat
  <2>1. CASE CallPatch(i)
    <3>1. PICK patch \in Patches :
            attempts' = [attempts EXCEPT ![i].calls =
                           Append(@, [patch |-> patch, status |-> "inProgress", queued |-> TRUE])]
      BY <2>1 DEF CallPatch
    <3>2. SameTurns /\ CallsChange
      BY <1>1, <3>1, CalledEffect
    <3> QED BY <1>1, <2>1, <3>2 DEF CallPatch
  <2>2. CASE CallTimesOut(i)
    <3>1. PICK n \in DOMAIN attempts[i].calls : attempts' = [attempts EXCEPT ![i].calls[n].status = "failed"]
      BY <2>2 DEF CallTimesOut
    <3>2. attempts' = [attempts EXCEPT ![i].calls[n] = [attempts[i].calls[n] EXCEPT !.status = "failed"]]
      BY <3>1
    <3> DEFINE c == [attempts[i].calls[n] EXCEPT !.status = "failed"]
    <3>3. c \in {[attempts[i].calls[n] EXCEPT !.status = "failed"],
                [attempts[i].calls[n] EXCEPT !.queued = FALSE]}
      OBVIOUS
    <3>4. attempts' = [attempts EXCEPT ![i].calls[n] = c]
      BY <3>2
    <3> HIDE DEF c
    <3>5. SameTurns /\ CallsChange
      BY <1>1, <3>3, <3>4, SettledEffect, Zenon
    <3> QED BY <1>1, <2>2, <3>5, FaultsCounted DEF CallTimesOut
  <2> QED BY <2>1, <2>2
<1>4. Types'
  BY <1>1, <1>2, <1>3, CallTypes
<1> QED BY <1>2, <1>3, <1>4, CallsKept

\* A crash keeps the invariant; between the patch and its record, it is remembered.
LEMMA CrashStep ==
  ASSUME Inv, Crash
  PROVE  Inv'
<1>1. attempts \in Seq(Attempt) /\ Types /\ cut \in BOOLEAN
  BY DEF Inv, Types
<1>2. /\ Same /\ UNCHANGED git /\ handler' = None /\ faults' \in Nat /\ cut' \in BOOLEAN
      /\ cut => cut'
      /\ handler = None \/ handler.at # "record" \/ cut'
  BY <1>1, FaultsCounted DEF Crash, Same, store
<1>3. SameTurns /\ CallsChange
  BY <1>1, CrashEffect
<1>4. Types'
  BY <1>1, <1>2, <1>3, CallTypes
<1> QED BY <1>2, <1>3, <1>4, CallsKept

\* A turn that ends keeps the invariant.
LEMMA EndSteps ==
  ASSUME Inv, NEW i \in Live, TurnCompletes(i) \/ TurnBreaks(i)
  PROVE  Inv'
<1>1. i \in Ids /\ attempts \in Seq(Attempt) /\ Types /\ faults \in Nat
  BY DEF Live, Inv, Types
<1>2. /\ Same /\ UNCHANGED <<handler, cut>> /\ UNCHANGED git
      /\ \A n \in DOMAIN attempts[i].calls : attempts[i].calls[n].status # "inProgress"
  BY DEF TurnCompletes, TurnBreaks, Turn, Same, store
<1>3. /\ attempts' \in Seq(Attempt) /\ DOMAIN attempts' = DOMAIN attempts
      /\ attempts'[i].status \in Ended
      /\ \A j \in Ids : /\ attempts'[j].request = attempts[j].request
                        /\ attempts'[j].wrote = attempts[j].wrote
                        /\ attempts'[j].calls = attempts[j].calls
                        /\ j # i => attempts'[j].status = attempts[j].status
  <2>1. PICK status \in Ended, answer \in {"READY", "LIMIT", "OTHER"}, heard \in {"all", "items", "none"} :
          \/ attempts' = [attempts EXCEPT ![i].status = status, ![i].answer = answer, ![i].heard = heard]
          \/ attempts' = [attempts EXCEPT ![i].status = status, ![i].heard = heard]
    BY DEF TurnCompletes, TurnBreaks
  <2>2. PICK w : /\ attempts' = [attempts EXCEPT ![i] = w]
                 /\ w \in {[attempts[i] EXCEPT !.status = status, !.answer = answer, !.heard = heard],
                           [attempts[i] EXCEPT !.status = status, !.heard = heard]}
    BY <2>1
  <2>3. attempts[i] \in Attempt
    BY <1>1
  <2>4. /\ w \in Attempt /\ w.request = attempts[i].request /\ w.status \in Ended
        /\ w.calls = attempts[i].calls /\ w.wrote = attempts[i].wrote
    BY <2>2, <2>3 DEF Attempt
  <2> QED BY <1>1, <2>2, <2>4, EndEffect, Zenon
<1>4. Live' = Live \ {i}
  BY <1>1, <1>3 DEF Live
<1>5. faults' \in Nat
  BY <1>1, FaultsCounted DEF TurnCompletes, TurnBreaks
<1>6. Types'
  BY <1>1, <1>2, <1>3, <1>5, WriteTypes DEF git, Types
<1>7. TurnInv'
  BY <1>1, <1>2, <1>3, <1>4 DEF Inv, TurnInv, Same
<1>8. PendingInv' /\ ArchiveInv' /\ RecordInv' /\ HandlerInv'
  <2>1. i \in Live /\ attempts[i].status = "inProgress"
    BY DEF Live
  <2>2. PendingInv'
    BY <1>1, <1>2, <1>3, <1>4, <2>1 DEF Inv, PendingInv, Same
  <2>3. ArchiveInv' /\ RecordInv'
    BY <1>2, <1>3 DEF Inv, ArchiveInv, RecordInv, Same
  <2>4. HandlerInv'
    BY <1>1, <1>2, <1>3, <2>1 DEF Inv, PendingInv, HandlerInv, Same
  <2> QED BY <2>2, <2>3, <2>4
<1>9. RepoInv' /\ ResultInv'
  BY <1>2, GitKept DEF Inv
<1>10. PatchInv'
  <2>1. handler # None => handler.id \in Ids
    BY DEF Inv, HandlerInv, PendingInv
  <2>2. \A r \in Requests : Unrecorded(r)' <=> Unrecorded(r)
    BY <1>2 DEF Unrecorded, Same
  <2>3. \A k \in DOMAIN applied : applied[k].request \in Requests
    <3>1. \A k \in DOMAIN applied : applied[k] \in Landed
      BY <1>1 DEF Types
    <3> QED BY <3>1 DEF Landed
  <2>4. handler # None => attempts'[handler.id].calls[handler.call] = attempts[handler.id].calls[handler.call]
    BY <1>3, <2>1
  <2>5. \A r \in Requests : Unrecorded(r) => handler # None
    BY DEF Unrecorded
  <2>6. applied' = applied /\ record' = record /\ cut' = cut /\ handler' = handler
    BY <1>2 DEF git, Same
  <2> QED BY <2>2, <2>3, <2>4, <2>5, <2>6 DEF Inv, PatchInv
<1>11. KeptInv'
  <2>1. \A j \in Ids : Fresh(j)' <=> Fresh(j)
    BY <1>3 DEF Fresh
  <2>2. pending # None => pending \in Ids
    BY DEF Inv, PendingInv
  <2>3. Live \subseteq Ids
    BY DEF Live
  <2> QED BY <1>2, <1>3, <1>4, <2>1, <2>2, <2>3 DEF Inv, KeptInv, Same, git
<1> QED BY <1>6, <1>7, <1>8, <1>9, <1>10, <1>11 DEF Inv

-----------------------------------------------------------------------------
(* apply_patch *)

\* The types of the elements of the sequences.
LEMMA SequenceTypes ==
  ASSUME Types
  PROVE  /\ attempts \in Seq(Attempt) /\ Ids \subseteq Nat
         /\ \A i \in Ids : /\ attempts[i].request \in Requests
                           /\ attempts[i].calls \in Seq(Call)
                           /\ DOMAIN attempts[i].calls \subseteq Nat
                           /\ \A n \in DOMAIN attempts[i].calls : attempts[i].calls[n].patch \in Patches
         /\ applied \in Seq(Landed) /\ Len(applied) \in Nat /\ DOMAIN applied = 1..Len(applied)
         /\ \A k \in DOMAIN applied : applied[k].request \in Requests /\ applied[k].patch \in Patches
         /\ commits \in Seq(SUBSET Nat) /\ Tip \in Nat
<1>1. /\ attempts \in Seq(Attempt) /\ applied \in Seq(Landed) /\ commits \in Seq(SUBSET Nat)
  BY DEF Types
<1>2. ASSUME NEW i \in Ids
      PROVE  /\ attempts[i].request \in Requests /\ attempts[i].calls \in Seq(Call)
             /\ DOMAIN attempts[i].calls \subseteq Nat
             /\ \A n \in DOMAIN attempts[i].calls : attempts[i].calls[n].patch \in Patches
  <2>1. attempts[i].request \in Requests /\ attempts[i].calls \in Seq(Call)
    BY <1>1, AttemptFields
  <2>2. \A n \in DOMAIN attempts[i].calls : attempts[i].calls[n] \in Call
    BY <2>1
  <2>3. DOMAIN attempts[i].calls \subseteq Nat
    BY <2>1
  <2> QED BY <2>1, <2>2, <2>3 DEF Call
<1>3. \A k \in DOMAIN applied : applied[k] \in Landed
  BY <1>1
<1>4. \A k \in DOMAIN applied : applied[k].request \in Requests /\ applied[k].patch \in Patches
  BY <1>3 DEF Landed
<1> QED BY <1>1, <1>2, <1>4

\* The patch of the call that apply_patch is busy with, and its request.
LEMMA HandlerFacts ==
  ASSUME Inv, handler # None
  PROVE  /\ handler \in Handlers
         /\ handler.id = pending /\ pending \in Ids /\ pending # None
         /\ handler.call \in DOMAIN attempts[pending].calls
         /\ attempts[pending].request = Request /\ Request \in Requests /\ record[Request] = None
         /\ handler.generation = generation
         /\ attempts[pending].calls[handler.call].patch \in Patches
  BY SequenceTypes DEF Inv, Types, HandlerInv, PendingInv

\* apply_patch begins for the pending turn, or refuses the call.
LEMMA TakeStep ==
  ASSUME Inv, NEW i \in Ids, NEW n \in DOMAIN attempts[i].calls, TakePatchLock(i, n)
  PROVE  Inv'
<1>1. attempts \in Seq(Attempt) /\ Types /\ faults \in Nat /\ cut \in BOOLEAN
  BY DEF Inv, Types
<1>2. Same /\ UNCHANGED <<cut, faults>> /\ UNCHANGED git /\ handler = None
  BY DEF TakePatchLock, Same, store
<1>3. CASE ~Authorized(i)
  <2>1. attempts' = Answered(i, n, "failed") /\ handler' = handler
    BY <1>3 DEF TakePatchLock
  <2>2. SameTurns /\ CallsChange
    BY <1>1, <2>1, AnsweredEffect
  <2>3. Types'
    BY <1>1, <1>2, <2>1, <2>2, CallTypes
  <2> QED BY <1>2, <2>1, <2>2, <2>3, CallsKept
<1>4. CASE Authorized(i)
  <2> DEFINE h == [at |-> "apply", id |-> i, call |-> n, base |-> run.sha, generation |-> generation]
  <2>1. handler' = h /\ attempts' = [attempts EXCEPT ![i].calls[n].queued = FALSE]
    BY <1>4 DEF TakePatchLock
  <2>2. SameTurns /\ CallsChange
    <3> DEFINE c == [attempts[i].calls[n] EXCEPT !.queued = FALSE]
    <3>1. c \in {[attempts[i].calls[n] EXCEPT !.status = "failed"],
                [attempts[i].calls[n] EXCEPT !.queued = FALSE]}
      OBVIOUS
    <3>2. attempts' = [attempts EXCEPT ![i].calls[n] = c]
      BY <2>1
    <3> HIDE DEF c, h
    <3> QED BY <1>1, <3>1, <3>2, SettledEffect, Zenon
  <2>3. h \in Handlers
    BY <1>1, SequenceTypes DEF Types
  <2>4. h.at = "apply" /\ h.id = i /\ h.call = n /\ h.generation = generation
    OBVIOUS
  <2> HIDE DEF h
  <2>5. Types'
    BY <1>1, <1>2, <2>1, <2>2, <2>3 DEF Types, Same, git, SameTurns
  <2>6. pending # None /\ i = pending /\ record[Request] = None
    <3>1. attempts[i].request = Request /\ pending # None /\ record[Request] = None
      BY <1>4 DEF Authorized
    <3>2. attempts[i].calls # <<>>
      OBVIOUS
    <3> QED BY <3>1, <3>2 DEF Inv, PendingInv
  <2>7. HandlerInv'
    BY <1>2, <2>1, <2>2, <2>4, <2>6 DEF HandlerInv, Same, CallsChange
  <2>8. PatchInv'
    <3>1. \A r \in Requests : ~Unrecorded(r) /\ ~Unrecorded(r)'
      BY <1>2, <2>1, <2>4 DEF Unrecorded
    <3>2. UNCHANGED <<applied, record, cut>> /\ \A k \in DOMAIN applied : applied[k].request \in Requests
      BY <1>1, <1>2, SequenceTypes DEF git, Same
    <3> QED BY <3>1, <3>2 DEF Inv, PatchInv
  <2>9. TurnInv' /\ PendingInv' /\ ArchiveInv' /\ RecordInv'
    BY <1>2, <2>2, TurnsKept DEF Inv
  <2>10. RepoInv' /\ ResultInv' /\ KeptInv'
    BY <1>2, <2>2, GitKept, KeptKept DEF Inv, git
  <2> QED BY <2>5, <2>7, <2>8, <2>9, <2>10 DEF Inv
<1> QED BY <1>3, <1>4

\* Git refuses the patch.
LEMMA FailsStep ==
  ASSUME Inv, PatchFails
  PROVE  Inv'
<1>1. attempts \in Seq(Attempt) /\ Types /\ faults \in Nat /\ cut \in BOOLEAN
  BY DEF Inv, Types
<1>2. /\ Same /\ UNCHANGED <<cut, faults>> /\ UNCHANGED git /\ handler' = None /\ handler.at = "apply"
      /\ attempts' = Answered(handler.id, handler.call, "failed")
  BY DEF PatchFails, Same, store
<1>3. handler.id \in Ids /\ handler.call \in DOMAIN attempts[handler.id].calls
  BY HandlerFacts DEF PatchFails
<1>4. SameTurns /\ CallsChange
  BY <1>1, <1>2, <1>3, AnsweredEffect
<1>5. Types'
  BY <1>1, <1>2, <1>4, CallTypes
<1> QED BY <1>2, <1>4, <1>5, CallsKept

\* The patch lands: it is the first of its request.
LEMMA ApplyStep ==
  ASSUME Inv, ApplyPatch
  PROVE  Inv'
<1> DEFINE new == [request |-> attempts[handler.id].request,
                   patch |-> attempts[handler.id].calls[handler.call].patch]
<1>1. /\ Same /\ UNCHANGED <<commits, attempts, cut, faults>> /\ handler # None /\ handler.at = "apply"
      /\ applied' = Append(applied, new)
      /\ repo' = [repo EXCEPT !.changes = @ \cup {Len(applied) + 1}]
      /\ handler' = [handler EXCEPT !.at = "record"]
      /\ repo.merged
  BY DEF ApplyPatch, Applies, PatchReady, Same, store
<1>2. /\ Types /\ Len(applied) \in Nat /\ applied \in Seq(Landed)
      /\ repo \in [onTarget : BOOLEAN, merged : BOOLEAN, changes : SUBSET Nat]
      /\ DOMAIN applied = 1..Len(applied)
      /\ \A k \in DOMAIN applied : applied[k].request \in Requests
  BY SequenceTypes DEF Inv, Types
<1>3. /\ handler \in Handlers
      /\ handler.id = pending /\ pending \in Ids /\ pending # None
      /\ handler.call \in DOMAIN attempts[pending].calls
      /\ attempts[pending].request = Request /\ Request \in Requests /\ record[Request] = None
      /\ handler.generation = generation
      /\ attempts[pending].calls[handler.call].patch \in Patches
  BY <1>1, HandlerFacts
<1>4. /\ new \in Landed /\ new.request = Request
      /\ new.patch = attempts[handler.id].calls[handler.call].patch
  BY <1>3 DEF Landed
<1>5. /\ handler' \in Handlers
      /\ handler'.at = "record" /\ handler'.id = handler.id /\ handler'.call = handler.call
      /\ handler'.generation = handler.generation
  BY <1>1, <1>3
<1>6. handler' # None
  BY <1>5, IntegrationAssumption DEF IntegrationAssumption
<1> HIDE DEF new
<1>7. /\ applied' \in Seq(Landed) /\ Len(applied') = Len(applied) + 1
      /\ applied'[Len(applied) + 1] = new
      /\ \A k \in DOMAIN applied : applied'[k] = applied[k]
      /\ DOMAIN applied' = DOMAIN applied \cup {Len(applied) + 1}
  BY <1>1, <1>2, <1>4, AppendElement
<1>8. /\ repo' \in [onTarget : BOOLEAN, merged : BOOLEAN, changes : SUBSET Nat]
      /\ repo'.merged = repo.merged /\ repo'.changes = repo.changes \cup {Len(applied) + 1}
  <2>1. repo.changes \cup {Len(applied) + 1} \in SUBSET Nat
    BY <1>2
  <2> QED BY <1>1, <1>2, <2>1
<1>9. Types'
  BY <1>1, <1>2, <1>5, <1>7, <1>8 DEF Types, Same
<1>10. TurnInv' /\ PendingInv' /\ ArchiveInv' /\ RecordInv' /\ KeptInv'
  BY <1>1 DEF Inv, TurnInv, PendingInv, ArchiveInv, RecordInv, KeptInv, Same, Live, Fresh
<1>11. HandlerInv'
  BY <1>1, <1>3, <1>5 DEF HandlerInv, Same
<1>12. RepoInv'
  <2>1. RepoInv /\ repo.merged
    BY <1>1 DEF Inv
  <2>2. repo'.changes \subseteq 0..Len(applied') /\ \A n \in 1..Tip' : commits'[n] \subseteq 0..Len(applied')
    BY <1>1, <1>2, <1>7, <1>8, <2>1 DEF RepoInv
  <2>3. \A k \in DOMAIN applied' : k \in repo'.changes \/ k \in commits'[Tip']
    BY <1>1, <1>2, <1>7, <1>8, <2>1 DEF RepoInv
  <2> QED BY <1>1, <1>8, <2>1, <2>2, <2>3 DEF RepoInv
<1>13. PatchInv'
  <2> SUFFICES ASSUME ~cut PROVE PatchInv'
    BY <1>1 DEF PatchInv
  <2>1. /\ \A r \in Requests : ~Unrecorded(r)
        /\ \A r \in Requests : Unrecorded(r)' <=> r = Request
    BY <1>1, <1>5, <1>6 DEF Unrecorded, Same
  <2>2. /\ \A k \in DOMAIN applied :
             /\ \A l \in DOMAIN applied : applied[l].request = applied[k].request => k = l
             /\ record[applied[k].request] # None
             /\ record[applied[k].request].patch = applied[k].patch
        /\ \A r \in Requests : record[r] # None => \E k \in DOMAIN applied : applied[k].request = r
    BY <1>2, <2>1 DEF Inv, PatchInv
  <2>3. \A k \in DOMAIN applied : applied[k].request # Request
    BY <1>3, <2>2
  <2>4. attempts' = attempts /\ record' = record /\ run' = run /\ handler'.id = handler.id
        /\ handler'.call = handler.call
    BY <1>1, <1>5 DEF Same
  <2>5. \A k, l \in DOMAIN applied' : applied'[l].request = applied'[k].request => k = l
    BY <1>4, <1>7, <2>2, <2>3
  <2>6. ASSUME NEW k \in DOMAIN applied'
        PROVE  IF Unrecorded(applied[k].request)'
               THEN applied'[k].patch = attempts'[handler'.id].calls[handler'.call].patch
               ELSE /\ record'[applied'[k].request] # None
                    /\ record'[applied'[k].request].patch = applied'[k].patch
    <3>1. CASE k \in DOMAIN applied
      <4>1. applied'[k] = applied[k] /\ applied[k].request \in Requests
        BY <1>2, <1>7, <3>1
      <4>2. ~Unrecorded(applied[k].request)'
        BY <2>3, <2>4, <3>1, <4>1 DEF Unrecorded
      <4> QED BY <2>2, <2>4, <3>1, <4>1, <4>2
    <3>2. CASE k = Len(applied) + 1
      <4>1. applied'[k] = new
        BY <1>7, <3>2
      <4>2. Unrecorded(applied[k].request)'
        BY <1>4, <1>5, <1>6, <2>4, <4>1 DEF Unrecorded
      <4> QED BY <1>4, <2>4, <4>1, <4>2
    <3> QED BY <1>7, <3>1, <3>2
  <2>7. ASSUME NEW r \in Requests, record'[r] # None \/ Unrecorded(r)'
        PROVE  \E k \in DOMAIN applied' : applied'[k].request = r
    <3>1. CASE r = Request
      BY <1>4, <1>7, <3>1
    <3>2. CASE r # Request
      <4>1. PICK k \in DOMAIN applied : applied[k].request = r
        BY <2>1, <2>2, <2>4, <2>7, <3>2
      <4> QED BY <1>7, <4>1
    <3> QED BY <3>1, <3>2
  <2> QED BY <2>5, <2>6, <2>7 DEF PatchInv
<1>14. ResultInv'
  <2>1. ResultInv /\ run.request \in Nat
    BY <1>2 DEF Inv, Types
  <2>2. UNCHANGED <<results, commits, run, cut>>
    BY <1>1 DEF Same
  <2>3. \A k \in DOMAIN applied' :
          applied'[k].request # Request => k \in DOMAIN applied /\ applied'[k] = applied[k]
    BY <1>4, <1>7
  <2>4. \A r \in 0..Request - 1 : r # Request
    BY <2>1
  <2> QED BY <2>1, <2>2, <2>3, <2>4 DEF ResultInv
<1> QED BY <1>9, <1>10, <1>11, <1>12, <1>13, <1>14 DEF Inv

\* The patch that landed is recorded, with the generation of its task.
LEMMA RecordStep ==
  ASSUME Inv, RecordPatch
  PROVE  Inv'
<1> DEFINE new == [patch |-> attempts[pending].calls[handler.call].patch, generation |-> generation]
<1>1. /\ Types /\ RecordInv /\ attempts \in Seq(Attempt)
      /\ record \in [Requests -> Records \cup {None}]
      /\ generation \in Nat /\ run.request \in Nat
      /\ \A k \in DOMAIN applied : applied[k].request \in Requests
  BY SequenceTypes DEF Inv, Types
<1>2. /\ handler # None /\ handler.at = "record"
      /\ handler.id = pending /\ pending \in Ids /\ pending # None
      /\ handler.call \in DOMAIN attempts[pending].calls
      /\ attempts[pending].request = Request /\ Request \in Requests /\ record[Request] = None
      /\ handler.generation = generation
      /\ attempts[pending].calls[handler.call].patch \in Patches
  BY HandlerFacts DEF RecordPatch
<1>3. /\ UNCHANGED <<run, pending, archived, generation, kept, results, cut, faults>> /\ UNCHANGED git
      /\ handler' = None
      /\ attempts' = Answered(pending, handler.call, "completed")
      /\ record' = [record EXCEPT ![Request] = new]
  BY <1>2 DEF RecordPatch
<1>4. /\ new \in Records /\ new # None
      /\ new.patch = attempts[pending].calls[handler.call].patch /\ new.generation = generation
  BY <1>1, <1>2, IntegrationAssumption DEF IntegrationAssumption
<1> HIDE DEF new
<1>5. /\ record' \in [Requests -> Records \cup {None}]
      /\ record'[Request] = new /\ \A r \in Requests : r # Request => record'[r] = record[r]
  BY <1>1, <1>2, <1>3, <1>4
<1>6. /\ SameTurns /\ \A j \in Ids : j # pending => attempts'[j] = attempts[j]
      /\ DOMAIN attempts'[pending].calls = DOMAIN attempts[pending].calls
      /\ \A m \in DOMAIN attempts[pending].calls :
           /\ attempts'[pending].calls[m].patch = attempts[pending].calls[m].patch
           /\ \/ attempts'[pending].calls[m].status = attempts[pending].calls[m].status
              \/ m = handler.call /\ attempts'[pending].calls[m].status = "completed"
  BY <1>1, <1>2, <1>3, AnsweredEffect
<1>7. Live' = Live
  BY <1>6, LiveSame
<1>8. Types'
  BY <1>1, <1>3, <1>5, <1>6 DEF Types, SameTurns, git
<1>9. TurnInv'
  BY <1>2, <1>3, <1>6, <1>7 DEF Inv, TurnInv, SameTurns
<1>10. PendingInv' /\ ArchiveInv' /\ HandlerInv'
  BY <1>2, <1>3, <1>4, <1>5, <1>6, <1>7 DEF Inv, PendingInv, ArchiveInv, HandlerInv, SameTurns
<1>11. RecordInv'
  BY <1>1, <1>2, <1>3, <1>4, <1>5 DEF RecordInv
<1>12. RepoInv' /\ ResultInv'
  BY <1>3 DEF Inv, RepoInv, ResultInv, git
<1>13. PatchInv'
  <2> SUFFICES ASSUME ~cut PROVE PatchInv'
    BY <1>3 DEF PatchInv
  <2>1. /\ \A r \in Requests : Unrecorded(r) <=> r = Request
        /\ \A r \in Requests : ~Unrecorded(r)'
    BY <1>2, <1>3 DEF Unrecorded
  <2>2. applied' = applied
    BY <1>3 DEF git
  <2>3. \A k \in DOMAIN applied :
          /\ \A l \in DOMAIN applied : applied[l].request = applied[k].request => k = l
          /\ record'[applied[k].request] # None
          /\ record'[applied[k].request].patch = applied[k].patch
    BY <1>1, <1>2, <1>4, <1>5, <2>1 DEF Inv, PatchInv
  <2>4. \A r \in Requests : record'[r] # None => \E k \in DOMAIN applied : applied[k].request = r
    BY <1>5, <2>1 DEF Inv, PatchInv
  <2> QED BY <1>1, <2>1, <2>2, <2>3, <2>4 DEF PatchInv
<1>14. KeptInv'
  <2>1. kept'[Request'] = None
    BY <1>1, <1>2, <1>3 DEF RecordInv
  <2> QED BY <1>3, <1>7, <2>1 DEF Inv, KeptInv
<1> QED BY <1>8, <1>9, <1>10, <1>11, <1>12, <1>13, <1>14 DEF Inv

-----------------------------------------------------------------------------
(* The drive and its recoveries *)

\* The status of the run alone.
LEMMA StatusKept ==
  ASSUME Inv, NEW status \in {"RUNNING", "PAUSED", "BLOCKED"},
         run' = [run EXCEPT !.status = status],
         status = "BLOCKED" => pending # None /\ attempts[pending].status = "completed",
         UNCHANGED <<pending, archived, record, generation, handler, attempts, results, kept, cut>>,
         UNCHANGED git, faults' \in Nat
  PROVE  Inv'
<1>1. /\ run' \in [status : {"RUNNING", "PAUSED", "BLOCKED"}, request : 0..Last, sha : Nat]
      /\ run'.request = run.request /\ run'.sha = run.sha /\ run'.status = status
  BY DEF Inv, Types
<1>2. Types'
  BY <1>1 DEF Inv, Types, git
<1>3. TurnInv' /\ PendingInv' /\ ArchiveInv' /\ HandlerInv' /\ RecordInv'
  BY <1>1 DEF Inv, TurnInv, PendingInv, ArchiveInv, HandlerInv, RecordInv, Live
<1>4. RepoInv' /\ ResultInv'
  BY <1>1 DEF Inv, RepoInv, ResultInv, git
<1>5. PatchInv'
  BY <1>1 DEF Inv, PatchInv, Unrecorded, git
<1>6. KeptInv'
  BY <1>1 DEF Inv, KeptInv, Live, Fresh, git
<1> QED BY <1>2, <1>3, <1>4, <1>5, <1>6 DEF Inv

\* A request is sent.
LEMMA StartStep ==
  ASSUME Inv, StartTurn
  PROVE  Inv'
<1>0. PICK n : n = Len(attempts) + 1
  OBVIOUS
<1>1. /\ Types /\ attempts \in Seq(Attempt) /\ n \in Nat
      /\ pending = None /\ Live = {} /\ Request \in Requests /\ run.status = "RUNNING"
  BY <1>0 DEF Inv, Types, StartTurn
<1>2. /\ pending' = n
      /\ UNCHANGED <<run, archived, record, generation, handler, results, kept, cut, faults>> /\ UNCHANGED git
  BY <1>0 DEF StartTurn
<1>3. /\ attempts' \in Seq(Attempt) /\ DOMAIN attempts' = DOMAIN attempts \cup {n}
      /\ n \notin DOMAIN attempts
      /\ \A j \in Ids : attempts'[j] = attempts[j]
      /\ attempts'[n].request = Request /\ attempts'[n].status = "inProgress"
      /\ attempts'[n].calls = <<>>
  BY <1>0, <1>1, StartEffect
<1>4. Live' = {n} /\ n # None
  BY <1>1, <1>3, IntegrationAssumption DEF Live, IntegrationAssumption
<1>5. handler = None
  BY <1>1 DEF Inv, HandlerInv
<1>6. Types'
  BY <1>1, <1>2, <1>3 DEF Types, git
<1>7. TurnInv'
  BY <1>1, <1>2, <1>3, <1>4 DEF Inv, TurnInv, Types
<1>8. PendingInv' /\ ArchiveInv' /\ HandlerInv' /\ RecordInv'
  <2>1. \A i \in Ids : i # None
    BY <1>1, SequenceTypes, IntegrationAssumption DEF IntegrationAssumption
  <2>2. PendingInv'
    BY <1>1, <1>2, <1>3, <1>4, <2>1 DEF Inv, PendingInv
  <2>3. ArchiveInv'
    BY <1>2, <1>3 DEF Inv, ArchiveInv
  <2>4. HandlerInv' /\ RecordInv'
    BY <1>2, <1>5 DEF Inv, HandlerInv, RecordInv
  <2> QED BY <2>2, <2>3, <2>4
<1>9. RepoInv' /\ ResultInv'
  BY <1>2 DEF Inv, RepoInv, ResultInv, git
<1>10. PatchInv'
  BY <1>2, <1>5 DEF Inv, PatchInv, Unrecorded, git
<1>11. KeptInv'
  <2>1. Fresh(n)'
    BY <1>3 DEF Fresh
  <2>2. ObeyedPrompt /\ kept[Request] # None => kept[Request] = Tip
    BY <1>1 DEF Inv, KeptInv
  <2> QED BY <1>1, <1>2, <1>4, <2>1, <2>2 DEF Inv, KeptInv, git
<1> QED BY <1>6, <1>7, <1>8, <1>9, <1>10, <1>11 DEF Inv

\* A task is replaced between two requests.
LEMMA ReplaceStep ==
  ASSUME Inv, ReplaceTask
  PROVE  Inv'
<1>1. /\ Types /\ pending = None /\ generation' = generation + 1 /\ faults' \in Nat
      /\ UNCHANGED <<run, pending, archived, record, handler, attempts, results, kept, cut>>
      /\ UNCHANGED git /\ generation \in Nat
  BY FaultsCounted DEF Inv, Types, ReplaceTask
<1>2. handler = None
  BY <1>1 DEF Inv, HandlerInv
<1>3. Types'
  BY <1>1 DEF Types, git
<1>4. TurnInv' /\ PendingInv' /\ ArchiveInv' /\ HandlerInv'
  BY <1>1, <1>2 DEF Inv, TurnInv, PendingInv, ArchiveInv, HandlerInv, Live
<1>5. RecordInv'
  BY <1>1 DEF Inv, RecordInv
<1>6. RepoInv' /\ ResultInv' /\ PatchInv'
  BY <1>1 DEF Inv, RepoInv, ResultInv, PatchInv, Unrecorded, git
<1>7. KeptInv'
  BY <1>1 DEF Inv, KeptInv, Live, Fresh, git
<1> QED BY <1>3, <1>4, <1>5, <1>6, <1>7 DEF Inv

\* A turn that made the patch, or that only read after it, left the branch alone
\* once its request had a recovered result.
Harmless(i) == ~Fresh(i) \/ ~attempts[i].wrote

\* What the checks of a turn say of it.
LEMMA HarmlessTurns ==
  ASSUME NEW i
  PROVE  /\ \A patch : Recoverable(i, patch) => Harmless(i)
         /\ ReadOnly(i) \/ OnlyRead(i) \/ NoEffects(i) => Harmless(i)
         /\ Obeyed(i) /\ ObeyedPrompt => Harmless(i) /\ attempts[i].status \in Ended
  BY DEF Harmless, Fresh, Recoverable, ReadOnly, OnlyRead, NoEffects, Obeyed

\* A result is accepted: apply_patch is not busy, and the worktree is clean.
LEMMA AcceptStep ==
  ASSUME Inv, AcceptIntegration
  PROVE  Inv'
<1>1. /\ Types /\ pending # None /\ run.status = "RUNNING" /\ attempts[pending].status = "completed"
      /\ repo.merged /\ repo.changes = {} /\ run' = [run EXCEPT !.request = @ + 1, !.sha = Tip]
      /\ results' = Append(results, Tip) /\ pending' = None
      /\ UNCHANGED <<archived, record, generation, handler, attempts, kept, cut, faults>> /\ UNCHANGED git
      /\ \E recovered \in BOOLEAN : Audited(pending, recovered)
  BY DEF Inv, AcceptIntegration, Acceptable, NewResult, PatchReady, Advanced
<1>2. /\ pending \in Ids /\ attempts[pending].request = Request /\ Request \in Requests
      /\ Request \in Nat /\ Last \in Nat /\ results \in Seq(Nat) /\ Tip \in Nat /\ commits \in Seq(SUBSET Nat)
      /\ \A k \in DOMAIN applied : applied[k].request \in Requests
  <2>1. pending \in Ids /\ attempts[pending].request = Request
    BY <1>1 DEF Inv, PendingInv
  <2>2. /\ attempts[pending].request \in Requests /\ Tip \in Nat /\ commits \in Seq(SUBSET Nat)
        /\ \A k \in DOMAIN applied : applied[k].request \in Requests
    BY <1>1, <2>1, SequenceTypes
  <2>3. Last \in Nat /\ results \in Seq(Nat)
    BY <1>1, IntegrationAssumption DEF Types, IntegrationAssumption
  <2> QED BY <2>1, <2>2, <2>3 DEF Requests
<1>3. /\ run' \in [status : {"RUNNING", "PAUSED", "BLOCKED"}, request : 0..Last, sha : Nat]
      /\ run'.request = run.request + 1 /\ run'.sha = Tip /\ run'.status = "RUNNING"
  <2>1. run \in [status : {"RUNNING", "PAUSED", "BLOCKED"}, request : 0..Last, sha : Nat]
    BY <1>1 DEF Types
  <2>2. run.request + 1 \in 0..Last /\ Tip \in Nat
    BY <1>2, <2>1 DEF Requests
  <2> QED BY <1>1, <2>1, <2>2
<1>4. /\ results' \in Seq(Nat) /\ Len(results') = Len(results) + 1 /\ results'[Len(results) + 1] = Tip
      /\ \A n \in DOMAIN results : results'[n] = results[n]
  BY <1>1, <1>2, AppendElement
<1>5. Len(results) = Request /\ DOMAIN results = 1..Request
  BY <1>2 DEF Inv, ResultInv
<1>6. handler = None
  <2> SUFFICES ASSUME handler # None PROVE FALSE
    OBVIOUS
  <2>1. record[Request] = None /\ handler.call \in DOMAIN attempts[pending].calls
    BY HandlerFacts
  <2>2. attempts[pending].calls = <<>>
    BY <1>1, <1>2, <2>1 DEF Audited
  <2> QED BY <2>1, <2>2
<1>7. Types'
  BY <1>1, <1>3, <1>4 DEF Types, git
<1>8. Live' = Live
  BY <1>1 DEF Live
<1>9. TurnInv'
  <2>1. \A i \in Ids : attempts[i].request \in Nat
    BY <1>1, SequenceTypes DEF Requests
  <2> QED BY <1>1, <1>2, <1>3, <1>8, <2>1 DEF Inv, TurnInv
<1>10. PendingInv' /\ ArchiveInv' /\ HandlerInv' /\ RecordInv'
  <2>1. \A i \in Ids : attempts[i].request # Request + 1
    BY <1>1, <1>2, SequenceTypes DEF Inv, TurnInv, Requests
  <2>2. PendingInv'
    BY <1>1, <1>3, <2>1 DEF PendingInv
  <2>3. ArchiveInv' /\ HandlerInv'
    BY <1>1, <1>6 DEF Inv, ArchiveInv, HandlerInv
  <2>4. RecordInv'
    BY <1>1, <1>2, <1>3 DEF Inv, RecordInv, Requests
  <2> QED BY <2>2, <2>3, <2>4
<1>11. RepoInv'
  BY <1>1 DEF Inv, RepoInv, git
<1>12. PatchInv'
  BY <1>1, <1>6 DEF Inv, PatchInv, Unrecorded, git
<1>13. ResultInv'
  <2>1. Tip \in 1..Tip /\ \A k \in DOMAIN applied : k \in commits[Tip]
    BY <1>1, <1>2 DEF Inv, RepoInv
  <2>2. \A r \in 0..Request' - 1 : r = Request \/ (r \in 0..Request - 1 /\ results'[r + 1] = results[r + 1])
    <3>1. \A r \in 0..Request' - 1 : r = Request \/ r \in 0..Request - 1
      BY <1>2, <1>3
    <3>2. \A r \in 0..Request - 1 : r + 1 \in 1..Request
      BY <1>2
    <3> QED BY <1>4, <1>5, <3>1, <3>2
  <2>3. results'[Request + 1] = Tip
    BY <1>4, <1>5
  <2>4. Len(results') = Request' /\ run'.sha <= Tip' /\ Tip' = Tip
    BY <1>1, <1>2, <1>3, <1>4, <1>5 DEF git
  <2>5. ResultInv
    BY DEF Inv
  <2>6. ASSUME NEW r \in 0..Request' - 1
        PROVE  /\ results'[r + 1] \in 1..Tip'
               /\ ~cut' => \A k \in DOMAIN applied' :
                              applied'[k].request = r => k \in commits'[results'[r + 1]]
    <3>1. CASE r = Request
      BY <1>1, <2>1, <2>3, <2>4, <3>1 DEF git
    <3>2. CASE r \in 0..Request - 1 /\ results'[r + 1] = results[r + 1]
      BY <1>1, <2>4, <2>5, <3>2 DEF ResultInv, git
    <3> QED BY <2>2, <3>1, <3>2
  <2> QED BY <2>4, <2>6 DEF ResultInv
<1>14. KeptInv'
  <2> SUFFICES ASSUME ObeyedPrompt PROVE KeptInv'
    BY DEF KeptInv
  <2>1. Live = {}
    BY <1>1 DEF Inv, KeptInv, Live
  <2>2. kept[Request] # None => kept[Request] = Tip
    <3> SUFFICES ASSUME kept[Request] # None PROVE kept[Request] = Tip
      OBVIOUS
    <3>1. record[Request] # None
      BY <1>2 DEF Inv, RecordInv
    <3>2. Harmless(pending)
      BY <1>1, <1>2, <3>1, HarmlessTurns DEF Audited
    <3> QED BY <1>2, <3>2 DEF Inv, KeptInv, Harmless
  <2>3. ASSUME NEW r \in 0..Request' - 1, kept[r] # None
        PROVE  results'[r + 1] = kept[r]
    <3>1. CASE r = Request
      BY <1>4, <1>5, <2>2, <2>3, <3>1
    <3>2. CASE r \in 0..Request - 1
      <4>1. r + 1 \in DOMAIN results
        BY <1>2, <1>5, <3>2
      <4>2. results'[r + 1] = results[r + 1]
        BY <1>4, <4>1
      <4> QED BY <2>3, <3>2, <4>2 DEF Inv, KeptInv
    <3> QED BY <1>2, <1>3, <3>1, <3>2
  <2>4. Request' \in Requests => kept[Request'] = None
    BY <1>2, <1>3 DEF Inv, RecordInv, Requests
  <2> QED BY <1>1, <1>8, <2>1, <2>3, <2>4 DEF KeptInv
<1> QED BY <1>7, <1>9, <1>10, <1>11, <1>12, <1>13, <1>14 DEF Inv

\* The request's turn is given up, or an earlier one takes its place.
LEMMA GiveUpKept ==
  ASSUME Inv, pending # None,
         run' = [run EXCEPT !.status = "RUNNING"] \/ (run' = run /\ run.status # "BLOCKED"),
         NEW why \in Ended \cup {"eventless", "unavailable"}, Archive(pending, why),
         \/ kept' = kept
         \/ /\ kept' = [kept EXCEPT ![Request] = IF @ = None THEN Tip ELSE @]
            /\ record[Request] # None,
         pending' # None => /\ pending' \in Ids /\ attempts[pending'].request = Request
                            /\ record[Request] # None,
         record[Request] = None => attempts[pending].calls = <<>> /\ pending \notin Live,
         ObeyedPrompt => Harmless(pending) /\ Live = {},
         UNCHANGED <<record, generation, handler, attempts, results, cut, faults>>, UNCHANGED git
  PROVE  Inv'
<1>1. /\ Types /\ pending \in Ids /\ attempts[pending].request = Request /\ Request \in Requests
      /\ Tip \in Nat /\ kept \in [Requests -> Nat \cup {None}]
      /\ run \in [status : {"RUNNING", "PAUSED", "BLOCKED"}, request : 0..Last, sha : Nat]
  BY SequenceTypes DEF Inv, Types, PendingInv
<1>2. /\ run' \in [status : {"RUNNING", "PAUSED", "BLOCKED"}, request : 0..Last, sha : Nat]
      /\ run'.request = run.request /\ run'.sha = run.sha /\ run'.status # "BLOCKED"
  BY <1>1
<1>3. handler = None
  <2> SUFFICES ASSUME handler # None PROVE FALSE
    OBVIOUS
  <2>1. record[Request] = None /\ handler.call \in DOMAIN attempts[pending].calls
    BY HandlerFacts
  <2> QED BY <2>1
<1>4. /\ kept' \in [Requests -> Nat \cup {None}]
      /\ \A r \in Requests : r # Request => kept'[r] = kept[r]
      /\ \/ kept'[Request] = kept[Request]
         \/ kept[Request] = None /\ kept'[Request] = Tip /\ record[Request] # None
  BY <1>1
<1>5. Types'
  BY <1>2, <1>4 DEF Inv, Types, git
<1>6. TurnInv' /\ ArchiveInv' /\ HandlerInv'
  BY <1>1, <1>2, <1>3 DEF Inv, TurnInv, ArchiveInv, HandlerInv, Live, Archive
<1>7. PendingInv'
  BY <1>2 DEF Inv, PendingInv, Live
<1>8. RecordInv'
  BY <1>1, <1>2, <1>4 DEF Inv, RecordInv
<1>9. RepoInv' /\ ResultInv'
  BY <1>2 DEF Inv, RepoInv, ResultInv, git
<1>10. PatchInv'
  BY <1>3 DEF Inv, PatchInv, Unrecorded, git
<1>11. KeptInv'
  <2> SUFFICES ASSUME ObeyedPrompt PROVE KeptInv'
    BY DEF KeptInv
  <2>1. Live' = {} /\ Tip' = Tip
    BY DEF Live, git
  <2>2. kept'[Request] # None => kept'[Request] = Tip
    BY <1>1, <1>4 DEF Inv, KeptInv, Harmless
  <2>3. \A r \in 0..Request - 1 : r \in Requests /\ r # Request
    BY <1>1, IntegrationAssumption DEF Requests, IntegrationAssumption
  <2>4. \A r \in 0..Request - 1 : kept'[r] # None => results[r + 1] = kept'[r]
    BY <1>4, <2>3 DEF Inv, KeptInv
  <2> QED BY <1>2, <2>1, <2>2, <2>4 DEF KeptInv
<1> QED BY <1>5, <1>6, <1>7, <1>8, <1>9, <1>10, <1>11 DEF Inv

\* Every step of the drive keeps the invariant.
LEMMA DriveStep ==
  ASSUME Inv, Drive
  PROVE  Inv'
<1>1. CASE StartTurn
  BY <1>1, StartStep
<1>2. CASE AcceptIntegration
  BY <1>2, AcceptStep
<1>3. CASE RefuseIntegration
  <2>1. faults' \in Nat
    BY <1>3 DEF RefuseIntegration, Inv, Types
  <2> QED BY <1>3, <2>1, StatusKept DEF RefuseIntegration
<1>4. CASE WaitFails
  <2>1. faults' \in Nat
    BY <1>4, FaultsCounted DEF WaitFails, Inv, Types
  <2> QED BY <1>4, <2>1, StatusKept DEF WaitFails
<1> QED BY <1>1, <1>2, <1>3, <1>4 DEF Drive

\* Every recovery keeps the invariant.
LEMMA RecoveryStep ==
  ASSUME Inv, Recovery
  PROVE  Inv'
<1> USE DEF GiveUpAfterPatch
<1>1. faults \in Nat
  BY DEF Inv, Types
<1>2. CASE RecoverWhileWaiting \/ RecoverPaused
  <2>1. /\ AskOnceMore
        /\ run' = [run EXCEPT !.status = "RUNNING"] \/ (run' = run /\ run.status # "BLOCKED")
    BY <1>2 DEF RecoverWhileWaiting, RecoverPaused
  <2>2. ObeyedPrompt => Harmless(pending) /\ Live = {}
    BY <2>1, HarmlessTurns DEF AskOnceMore
  <2> QED BY <2>1, <2>2, GiveUpKept DEF AskOnceMore
<1>3. CASE RestoreArchived
  <2>1. PICK a \in ArchivedOf(Request) : Archive(pending, "unavailable") /\ pending' = a.id
    BY <1>3 DEF RestoreArchived
  <2>2. a.id \in Ids /\ attempts[a.id].request = Request
    BY <2>1 DEF ArchivedOf, Inv, ArchiveInv
  <2>3. ObeyedPrompt => Harmless(pending) /\ Live = {}
    <3> SUFFICES ASSUME ObeyedPrompt PROVE Harmless(pending) /\ Live = {}
      OBVIOUS
    <3>1. Harmless(pending) /\ attempts[pending].status \in Ended
      BY <1>3, HarmlessTurns DEF RestoreArchived
    <3> QED BY <3>1 DEF Inv, KeptInv, Live
  <2> QED BY <1>3, <2>1, <2>2, <2>3, GiveUpKept DEF RestoreArchived
<1>4. CASE RetryBrokenTurn
  <2>1. Harmless(pending) /\ attempts[pending].calls = <<>> /\ pending \notin Live
    BY <1>4, HarmlessTurns DEF RetryBrokenTurn, NoEffects, Live
  <2>2. ObeyedPrompt => Live = {}
    BY <2>1 DEF Inv, KeptInv
  <2> QED BY <1>4, <2>1, <2>2, GiveUpKept DEF RetryBrokenTurn
<1>5. CASE ResumeWaiting
  BY <1>1, <1>5, StatusKept DEF ResumeWaiting
<1>6. CASE RetryRefused
  <2>1. Harmless(pending) /\ attempts[pending].status = "completed"
    BY <1>6, HarmlessTurns DEF RetryRefused, Inv, PendingInv
  <2>2. ObeyedPrompt => Live = {}
    BY <2>1 DEF Inv, KeptInv, Live
  <2> QED BY <1>6, <2>1, <2>2, GiveUpKept DEF RetryRefused
<1> QED BY <1>2, <1>3, <1>4, <1>5, <1>6 DEF Recovery

\* So does a step of something else.
LEMMA StutterStep ==
  ASSUME Inv, UNCHANGED vars
  PROVE  Inv'
<1>1. Types' /\ TurnInv' /\ PendingInv' /\ ArchiveInv' /\ HandlerInv'
  BY DEF vars, Inv, Types, TurnInv, PendingInv, ArchiveInv, HandlerInv, Live
<1>2. RecordInv' /\ RepoInv' /\ PatchInv' /\ ResultInv' /\ KeptInv'
  BY DEF vars, Inv, RecordInv, RepoInv, PatchInv, Unrecorded, ResultInv, KeptInv, Live, Fresh
<1> QED BY <1>1, <1>2 DEF Inv

\* The invariant is inductive.
LEMMA NextInv ==
  ASSUME Inv, [Next]_vars
  PROVE  Inv'
<1>1. CASE TurnStep
  BY <1>1, WriteSteps, CallSteps, EndSteps DEF TurnStep
<1>2. CASE PatchStep
  BY <1>2, TakeStep, ApplyStep, FailsStep, RecordStep DEF PatchStep
<1>3. CASE Drive \/ Recovery \/ ReplaceTask \/ Crash
  BY <1>3, DriveStep, RecoveryStep, ReplaceStep, CrashStep
<1>4. CASE UNCHANGED vars
  BY <1>4, StutterStep
<1> QED BY <1>1, <1>2, <1>3, <1>4 DEF Next

\* The initial state satisfies it.
LEMMA InitInv == Init => Inv
<1> SUFFICES ASSUME Init PROVE Inv
  OBVIOUS
<1> USE IntegrationAssumption DEF IntegrationAssumption
<1>1. Ids = {} /\ Live = {} /\ Tip = 0
  BY DEF Init, Live
<1>2. Types
  <2>1. /\ attempts \in Seq(Attempt) /\ applied \in Seq(Landed) /\ commits \in Seq(SUBSET Nat)
        /\ results \in Seq(Nat)
    BY DEF Init
  <2>2. run \in [status : {"RUNNING", "PAUSED", "BLOCKED"}, request : 0..Last, sha : Nat]
    BY DEF Init
  <2>3. repo \in [onTarget : BOOLEAN, merged : BOOLEAN, changes : SUBSET Nat]
    BY DEF Init
  <2> QED BY <2>1, <2>2, <2>3 DEF Init, Types
<1>3. TurnInv /\ PendingInv /\ ArchiveInv /\ HandlerInv /\ RecordInv
  BY <1>1 DEF Init, TurnInv, PendingInv, ArchiveInv, HandlerInv, RecordInv
<1>4. RepoInv /\ PatchInv /\ ResultInv /\ KeptInv
  BY <1>1 DEF Init, RepoInv, PatchInv, Unrecorded, ResultInv, KeptInv
<1> QED BY <1>2, <1>3, <1>4 DEF Inv

\* Every reachable state satisfies the invariant.
THEOREM Invariance == Spec => []Inv
  BY InitInv, NextInv, PTL DEF Spec

\* The invariant implies the types of the model.
LEMMA InvType == Inv => TypeOK
<1> SUFFICES ASSUME Inv PROVE TypeOK
  OBVIOUS
<1>1. Types /\ run.request \in 0..Last /\ run.sha \in 0..Tip /\ Len(results) = run.request
      /\ run.status \in {"RUNNING", "PAUSED", "BLOCKED"}
  BY SequenceTypes DEF Inv, Types, ResultInv
<1>2. pending \in Ids \cup {None}
  BY DEF Inv, PendingInv
<1>3. Cardinality(Live) <= 1
  <2>1. CASE Live = {}
    BY <2>1, FS_EmptySet
  <2>2. CASE Live # {}
    <3>1. PICK i : i \in Live
      BY <2>2
    <3>2. Live = {i}
      BY <3>1 DEF Inv, TurnInv, Live
    <3>3. Cardinality({i}) = 1
      BY FS_Singleton
    <3> QED BY <3>2, <3>3
  <2> QED BY <2>1, <2>2
<1>4. archived \subseteq [id : Ids, why : Ended \cup {"eventless", "unavailable"}]
  BY DEF Inv, ArchiveInv
<1>5. \A r \in Requests : record[r] # None => record[r] \in [patch : Patches, generation : 1..generation]
  <2>1. record \in [Requests -> Records \cup {None}]
    BY <1>1 DEF Types
  <2>2. \A r \in Requests : record[r] # None => record[r].generation \in 1..generation
    BY DEF Inv, RecordInv
  <2> QED BY <2>1, <2>2
<1>6. repo \in [onTarget : BOOLEAN, merged : BOOLEAN, changes : SUBSET (0..Len(applied))]
  BY <1>1 DEF Inv, Types, RepoInv
<1>7. \A n \in DOMAIN commits : commits[n] \subseteq 0..Len(applied)
  BY SequenceTypes DEF Inv, RepoInv
<1> QED BY <1>1, <1>2, <1>3, <1>4, <1>5, <1>6, <1>7 DEF TypeOK

\* The invariant implies that a result holds the recorded patch and no other.
LEMMA InvResult == Inv => ResultHoldsTheRecordedPatch
<1> SUFFICES ASSUME Inv, ~cut, NEW r \in 0..Len(results) - 1
             PROVE  LET made == PatchesIn(results[r + 1], r) IN
                    IF record[r] = None THEN made = {}
                    ELSE Cardinality(made) = 1 /\ \A k \in made : applied[k].patch = record[r].patch
  BY DEF ResultHoldsTheRecordedPatch
<1>1. Types /\ Len(results) = Request /\ Request \in 0..Last
  BY DEF Inv, ResultInv, Types
<1>2. r \in 0..Request - 1 /\ r \in Requests /\ r # Request
  BY <1>1, IntegrationAssumption DEF Requests, IntegrationAssumption
<1> DEFINE n == results[r + 1]
           made == PatchesIn(n, r)
<1>3. n \in 1..Tip
  BY <1>2 DEF Inv, ResultInv
<1>4. \A k \in DOMAIN applied : applied[k].request = r => k \in commits[n]
  BY <1>2 DEF Inv, ResultInv
<1> HIDE DEF n
<1>5. commits[n] \subseteq 0..Len(applied) /\ DOMAIN applied = 1..Len(applied) /\ Len(applied) \in Nat
  BY <1>1, <1>3, SequenceTypes DEF Inv, RepoInv
<1>6. made = {k \in DOMAIN applied : applied[k].request = r}
  BY <1>4, <1>5 DEF PatchesIn, Edited
<1> HIDE DEF made
<1>7. ~Unrecorded(r)
  BY <1>2 DEF Unrecorded
<1>8. \A k \in made : record[r] # None /\ applied[k].patch = record[r].patch
  BY <1>6, <1>7 DEF Inv, PatchInv
<1>9. CASE record[r] = None
  BY <1>8, <1>9 DEF n, made
<1>10. CASE record[r] # None
  <2>1. PICK k \in DOMAIN applied : applied[k].request = r
    BY <1>2, <1>10 DEF Inv, PatchInv
  <2>2. made = {k}
    BY <1>6, <2>1 DEF Inv, PatchInv
  <2>3. Cardinality(made) = 1
    BY <2>2, FS_Singleton
  <2> QED BY <1>8, <1>10, <2>3 DEF n, made
<1> QED BY <1>9, <1>10

\* The invariant implies that a recovered result is kept.
LEMMA InvKept == ObeyedPrompt /\ Inv => RecoveredResultIsKept
  BY DEF RecoveredResultIsKept, Inv, KeptInv, ResultInv

\* The invariant implies that apply_patch is busy for the current request only.
LEMMA InvWithin == Inv => PatchWithinRequest
  BY DEF PatchWithinRequest, Inv, HandlerInv, PendingInv

\* The variables keep their types, and one turn is at work at a time.
THEOREM TypeCorrect == Spec => []TypeOK
  BY Invariance, InvType, PTL

\* What is accepted for a request contains its recorded patch and no other patch made
\* for it, unless the daemon crashed between git apply and the record.
THEOREM ResultHoldsTheRecordedPatchHolds == Spec => []ResultHoldsTheRecordedPatch
  BY Invariance, InvResult, PTL

\* A result that a recovery found in place is the one accepted in the end, if turns
\* that nobody saw obeyed their prompt (AskOnceMore, RestoreArchived).
THEOREM RecoveredResultIsKeptHolds ==
  ASSUME ObeyedPrompt
  PROVE  Spec => []RecoveredResultIsKept
<1>1. Inv => RecoveredResultIsKept
  BY InvKept
<1> QED BY <1>1, Invariance, PTL

\* A patch lands only while its request waits for an answer, though apply_patch holds
\* no lock of the run.
THEOREM PatchWithinRequestHolds == Spec => []PatchWithinRequest
  BY Invariance, InvWithin, PTL

-----------------------------------------------------------------------------
(* The journal of the frozen commands *)

\* A command was sent and is not executed yet.
OnWire(r, c) == [request |-> r, index |-> c] \in wire

\* What the journal knows of a command's execution.
ClaimInv ==
  \A r \in VerificationRequests, c \in Commands :
    /\ journal[r][c].status = "NONE" => executed[r][c] = 0 /\ ~OnWire(r, c)
    /\ journal[r][c].status = "COMPLETED" =>
         executed[r][c] = 1 /\ journal[r][c].exit = exit[r][c]
    /\ executed[r][c] <= 1
    /\ OnWire(r, c) => executed[r][c] = 0

\* Commands are claimed in their order.
OrderInv ==
  \A r \in VerificationRequests, c, d \in Commands :
    journal[r][c].status # "NONE" /\ d < c => journal[r][d].status = "COMPLETED"

\* The command the drive is at is claimed and not executed before it is sent; its
\* answer is that of its one execution.
DriveInv ==
  /\ drive.at \in {"send", "wait"} =>
       Index \in Commands /\ journal[row.request][Index].status = "STARTED"
  /\ drive.at = "send" =>
       executed[row.request][Index] = 0 /\ ~OnWire(row.request, Index)
  /\ reply # NoExit =>
       /\ drive.at = "wait" /\ executed[row.request][Index] = 1
       /\ exit[row.request][Index] = reply

\* The drive's evidence is the journal of the commands behind it.
EvidenceInv ==
  drive.at # "idle" =>
    \A c \in Commands : c < Index =>
      /\ journal[row.request][c].status = "COMPLETED"
      /\ drive.evidence[c] = journal[row.request][c].exit

\* An accepted verification has a complete journal.
AcceptedInv ==
  \A r \in VerificationRequests : accepted[r] # NoResults =>
    \A c \in Commands :
      /\ journal[r][c].status = "COMPLETED"
      /\ accepted[r][c] = journal[r][c].exit

\* The inductive invariant of the journal.
JournalInv ==
  JournalTypeOK /\ ClaimInv /\ OrderInv /\ DriveInv /\ EvidenceInv /\ AcceptedInv

USE JournalAssumption DEF JournalAssumption, VerificationRequests, Commands, ExitCodes

\* A table with one entry replaced.
LEMMA ReplaceEntry ==
  ASSUME NEW A, NEW B, NEW X, NEW f \in [A -> [B -> X]], NEW a \in A, NEW b \in B, NEW x \in X,
         NEW g, g = [f EXCEPT ![a][b] = x]
  PROVE  /\ g \in [A -> [B -> X]]
         /\ \A r \in A, c \in B : g[r][c] = IF r = a /\ c = b THEN x ELSE f[r][c]
  OBVIOUS

\* The initial state satisfies the invariant.
LEMMA StartOfJournal == JournalInit => JournalInv
  BY DEF JournalInit, JournalInv, JournalTypeOK, ClaimInv, OrderInv, DriveInv, EvidenceInv,
         AcceptedInv, OnWire,
         Claim, NoClaim, NoResults, Idle

\* A step that stops the drive or begins again keeps the invariant.
LEMMA JournalStops ==
  ASSUME JournalInv,
         drive' = Idle \/ (drive' = [Idle EXCEPT !.at = "claim"] /\ reply = NoExit),
         reply' = NoExit, UNCHANGED <<journal, accepted, wire, executed, exit>>,
         row' \in [status: {"RUNNING", "PAUSED", "BLOCKED", "VERIFIED"}, request: VerificationRequests]
  PROVE  JournalInv'
<1> USE DEF JournalInv, Idle
<1>1. /\ drive'.at \in {"idle", "claim"} /\ drive'.index = 1
      /\ drive' \in [at: {"idle", "claim", "send", "wait"}, index: 1..N + 1,
                    evidence: [Commands -> ExitCodes \cup {NoExit}]]
  BY DEF NoResults
<1>2. JournalTypeOK'
  BY <1>1 DEF JournalTypeOK
<1>3. ClaimInv' /\ OrderInv' /\ AcceptedInv'
  BY DEF ClaimInv, OrderInv, AcceptedInv, OnWire
<1>4. DriveInv' /\ EvidenceInv'
  BY <1>1 DEF DriveInv, EvidenceInv, Index
<1> QED BY <1>2, <1>3, <1>4

\* The positions of the drive.
DriveType == [at: {"idle", "claim", "send", "wait"}, index: 1..N + 1,
              evidence: [Commands -> ExitCodes \cup {NoExit}]]

\* The drive after a result has been taken into its evidence.
LEMMA CollectedDrive ==
  ASSUME drive \in DriveType, NEW code \in ExitCodes \cup {NoExit},
         Index \in Commands,
         drive' = Collected(Index, code)
  PROVE  /\ drive' \in DriveType
         /\ drive'.at = "claim" /\ drive'.index = Index + 1
         /\ drive'.evidence = [drive.evidence EXCEPT ![Index] = code]
<1> DEFINE e == [drive.evidence EXCEPT ![Index] = code]
<1>1. drive = [at |-> drive.at, index |-> drive.index, evidence |-> drive.evidence]
  BY DEF DriveType
<1>2. drive' = [at |-> "claim", index |-> drive.index + 1, evidence |-> e]
  BY <1>1, Zenon DEF Collected
<1>3. drive.evidence \in [Commands -> ExitCodes \cup {NoExit}] /\ drive.index \in 1..N
  BY DEF DriveType, Index
<1>4. e \in [Commands -> ExitCodes \cup {NoExit}]
  BY <1>3
<1> HIDE DEF e
<1>5. drive' \in DriveType /\ drive'.evidence = e
  BY <1>2, <1>3, <1>4 DEF DriveType
<1> QED BY <1>2, <1>5 DEF e, Index

\* Every step of the drive keeps the invariant.
LEMMA JournalDrive == JournalInv /\ DriveVerification => JournalInv'
<1> SUFFICES ASSUME JournalInv, DriveVerification PROVE JournalInv'
  OBVIOUS
<1> USE DEF JournalInv
<1>1. CASE BeginVerification
  <2>1. reply = NoExit
    BY <1>1 DEF BeginVerification, DriveInv, JournalTypeOK
  <2> QED BY <1>1, <2>1, JournalStops 
           DEF BeginVerification, journalStore, app, JournalTypeOK
<1>2. CASE ClaimCommand
  <2> DEFINE started == [status |-> "STARTED", exit |-> NoExit]
  <2>1. /\ started \in Claim /\ started.status = "STARTED"
        /\ journal \in [VerificationRequests -> [Commands -> Claim]]
        /\ journal' = [journal EXCEPT ![row.request][Index] = started]
    BY <1>2 DEF ClaimCommand, JournalTypeOK, Claim
  <2> HIDE DEF started
  <2>2. /\ drive.at = "claim" /\ Index \in Commands /\ row.request \in VerificationRequests
        /\ journal[row.request][Index].status = "NONE"
        /\ drive'.at = "send" /\ drive'.index = Index /\ drive'.evidence = drive.evidence
        /\ UNCHANGED <<row, accepted, wire, reply, executed, exit>>
    BY <1>2 DEF ClaimCommand, JournalTypeOK, Index, MayExecute,
                Row, app
  <2>3. /\ journal' \in [VerificationRequests -> [Commands -> Claim]]
        /\ \A r \in VerificationRequests, c \in Commands :
             journal'[r][c] = IF r = row.request /\ c = Index THEN started ELSE journal[r][c]
    <3> HIDE DEF JournalInv
    <3> QED BY <2>1, <2>2, ReplaceEntry, SMTT(40)
  <2>4. JournalTypeOK' /\ ClaimInv'
    <3>1. JournalTypeOK'
      BY <1>2, <2>3 DEF ClaimCommand, JournalTypeOK, app
    <3>2. ASSUME NEW r \in VerificationRequests, NEW c \in Commands
          PROVE  /\ journal'[r][c] = journal[r][c] \/ journal'[r][c].status = "STARTED"
                 /\ executed'[r][c] = executed[r][c] /\ exit'[r][c] = exit[r][c]
                 /\ OnWire(r, c)' <=> OnWire(r, c)
      BY <2>1, <2>2, <2>3 DEF OnWire
    <3>3. ClaimInv
      OBVIOUS
    <3> HIDE DEF JournalInv
    <3>4. ClaimInv'
      BY <3>2, <3>3 DEF ClaimInv
    <3> QED BY <3>1, <3>4
  <2>5. OrderInv'
    BY <2>1, <2>2, <2>3 DEF OrderInv, EvidenceInv
  <2>6. AcceptedInv'
    BY <2>1, <2>2, <2>3 DEF AcceptedInv
  <2>7. DriveInv'
    <3>1. executed[row.request][Index] = 0 /\ ~OnWire(row.request, Index)
      BY <2>2 DEF ClaimInv
    <3>2. reply = NoExit
      BY <2>2 DEF DriveInv
    <3> QED BY <2>1, <2>2, <2>3, <3>1, <3>2 DEF DriveInv, OnWire, Index
  <2>8. EvidenceInv'
    BY <2>1, <2>2, <2>3 DEF EvidenceInv, Index
  <2> QED BY <2>4, <2>5, <2>6, <2>7, <2>8
<1>3. CASE ReuseCommand
  <2> DEFINE code == journal[row.request][Index].exit
  <2>1. /\ Index \in Commands /\ journal[row.request][Index].status = "COMPLETED"
        /\ drive.at = "claim" /\ drive' = Collected(Index, code)
        /\ UNCHANGED <<row, journal, accepted, wire, reply, executed, exit>>
    BY <1>3 DEF ReuseCommand, Reusable, Row, journalStore, app
  <2>2. code \in ExitCodes \cup {NoExit} /\ drive \in DriveType
    <3>1. /\ row.request \in VerificationRequests /\ drive \in DriveType
          /\ journal \in [VerificationRequests -> [Commands -> Claim]]
      BY DEF JournalTypeOK, DriveType
    <3>2. journal[row.request][Index] \in Claim
      BY <2>1, <3>1
    <3> QED BY <3>1, <3>2 DEF Claim
  <2> HIDE DEF code
  <2>3. /\ drive' \in DriveType
        /\ drive'.at = "claim" /\ drive'.index = Index + 1
        /\ drive'.evidence = [drive.evidence EXCEPT ![Index] = code]
    BY <2>1, <2>2, CollectedDrive
  <2>4. JournalTypeOK'
    BY <2>1, <2>3 DEF JournalTypeOK, DriveType
  <2>5. ClaimInv' /\ OrderInv' /\ AcceptedInv'
    BY <2>1 DEF ClaimInv, OrderInv, AcceptedInv, OnWire
  <2>6. DriveInv'
    BY <2>1, <2>3 DEF DriveInv, Index
  <2>7. EvidenceInv'
    <3>1. Index' = Index + 1 /\ row' = row /\ journal' = journal
      BY <2>1, <2>3 DEF Index
    <3>2. EvidenceInv /\ Index \in Commands /\ drive \in DriveType
      BY <2>1, <2>2
    <3> HIDE DEF JournalInv
    <3>3. drive'.evidence[Index] = code
      BY <2>3, <3>2 DEF DriveType
    <3>4. \A c \in Commands : c # Index => drive'.evidence[c] = drive.evidence[c]
      BY <2>3, <3>2 DEF DriveType
    <3>5. \A c \in Commands :
            c < Index' <=> c < Index \/ c = Index
      BY <3>1, <3>2
    <3> QED BY <2>1, <3>1, <3>2, <3>3, <3>4, <3>5 DEF EvidenceInv, code
  <2> QED BY <2>4, <2>5, <2>6, <2>7
<1>4. CASE ExecutionUncertain
  BY <1>4, JournalStops DEF ExecutionUncertain, Stops, UncertainStatus, JournalTypeOK
<1>5. CASE SendCommand
  <2> DEFINE w == [request |-> row.request, index |-> Index]
  <2>1. /\ drive.at = "send" /\ wire' = wire \cup {w} /\ drive' = [drive EXCEPT !.at = "wait"]
        /\ UNCHANGED <<row, journal, accepted, reply, executed, exit>>
    BY <1>5 DEF SendCommand, journalStore
  <2>2. /\ drive'.at = "wait" /\ drive'.index = Index /\ drive'.evidence = drive.evidence
        /\ drive' \in DriveType
    BY <2>1 DEF JournalTypeOK, Index, DriveType
  <2>3. /\ row.request \in VerificationRequests /\ Index \in Commands
        /\ journal[row.request][Index].status = "STARTED"
        /\ executed[row.request][Index] = 0
    BY <2>1 DEF DriveInv, JournalTypeOK
  <2>4. JournalTypeOK'
    <3>1. w \in [request: VerificationRequests, index: Commands]
      BY <2>3
    <3> HIDE DEF w
    <3>2. wire' \subseteq [request: VerificationRequests, index: Commands]
      BY <2>1, <3>1 DEF JournalTypeOK
    <3> QED BY <2>1, <2>2, <3>2 DEF JournalTypeOK, DriveType
  <2>5. ClaimInv'
    <3>1. \A r \in VerificationRequests, c \in Commands :
            OnWire(r, c)' => OnWire(r, c) \/ (r = row.request /\ c = Index)
      BY <2>1 DEF OnWire
    <3> HIDE DEF w
    <3> QED BY <2>1, <2>3, <3>1 DEF ClaimInv
  <2>6. OrderInv' /\ AcceptedInv'
    BY <2>1 DEF OrderInv, AcceptedInv
  <2>7. DriveInv' /\ EvidenceInv'
    BY <2>1, <2>2, <2>3 DEF DriveInv, EvidenceInv, Index
  <2> QED BY <2>4, <2>5, <2>6, <2>7
<1>6. CASE CompleteCommand
  <2>1. /\ drive.at = "wait" /\ reply # NoExit /\ drive' = Collected(Index, reply)
        /\ reply' = NoExit
        /\ journal' = [journal EXCEPT ![row.request][Index] = [status |-> "COMPLETED", exit |-> reply]]
        /\ UNCHANGED <<row, accepted, wire, executed, exit>>
    BY <1>6 DEF CompleteCommand
  <2>2. /\ Index \in Commands /\ row.request \in VerificationRequests
        /\ reply \in ExitCodes \cup {NoExit}
        /\ journal[row.request][Index].status = "STARTED" /\ drive \in DriveType
        /\ executed[row.request][Index] = 1 /\ exit[row.request][Index] = reply
    BY <2>1 DEF DriveInv, JournalTypeOK, DriveType
  <2>3. /\ drive' \in DriveType
        /\ drive'.at = "claim" /\ drive'.index = Index + 1
        /\ drive'.evidence = [drive.evidence EXCEPT ![Index] = reply]
    BY <2>1, <2>2, CollectedDrive
  <2> DEFINE completed == [status |-> "COMPLETED", exit |-> reply]
  <2>4. /\ journal' \in [VerificationRequests -> [Commands -> Claim]]
        /\ \A r \in VerificationRequests, c \in Commands :
             journal'[r][c] = IF r = row.request /\ c = Index THEN completed ELSE journal[r][c]
    <3>1. completed \in Claim /\ journal \in [VerificationRequests -> [Commands -> Claim]]
      BY <2>2 DEF JournalTypeOK, Claim
    <3>2. journal' = [journal EXCEPT ![row.request][Index] = completed]
      BY <2>1
    <3>3. Index \in Commands /\ row.request \in VerificationRequests
      BY <2>2
    <3> HIDE DEF JournalInv, completed
    <3> QED BY <3>1, <3>2, <3>3, ReplaceEntry, SMTT(40)
  <2>5. JournalTypeOK'
    BY <2>1, <2>3, <2>4 DEF JournalTypeOK, DriveType
  <2>6. ClaimInv' /\ OrderInv' /\ AcceptedInv'
    <3>0. ASSUME NEW r \in VerificationRequests, NEW c \in Commands
          PROVE  /\ executed'[r][c] = executed[r][c] /\ exit'[r][c] = exit[r][c]
                 /\ OnWire(r, c)' <=> OnWire(r, c)
                 /\ \/ journal'[r][c] = journal[r][c]
                    \/ /\ journal[r][c].status = "STARTED" /\ journal'[r][c].status = "COMPLETED"
                       /\ executed[r][c] = 1 /\ journal'[r][c].exit = exit[r][c]
      BY <2>1, <2>2, <2>4 DEF OnWire
    <3>1. ClaimInv'
      <4>1. ClaimInv
        OBVIOUS
      <4> HIDE DEF JournalInv
      <4> QED BY <3>0, <4>1 DEF ClaimInv
    <3>2. OrderInv'
      BY <2>1, <2>2, <2>4, SMTT(30) DEF OrderInv
    <3>3. AcceptedInv'
      BY <2>1, <2>2, <2>4, SMTT(30) DEF AcceptedInv
    <3> QED BY <3>1, <3>2, <3>3
  <2>7. DriveInv'
    BY <2>1, <2>3 DEF DriveInv
  <2>8. EvidenceInv'
    <3>1. Index' = Index + 1 /\ row' = row
      BY <2>1, <2>3 DEF Index
    <3>2. EvidenceInv /\ Index \in Commands /\ drive \in DriveType
      BY <2>2
    <3> HIDE DEF JournalInv, completed
    <3>3. drive'.evidence[Index] = reply
      BY <2>3, <3>2 DEF DriveType
    <3>4. \A c \in Commands : c # Index => drive'.evidence[c] = drive.evidence[c]
      BY <2>3, <3>2 DEF DriveType
    <3>5. \A c \in Commands :
            c < Index' <=> c < Index \/ c = Index
      BY <3>1, <3>2
    <3>6. /\ journal'[row.request][Index] = completed
          /\ \A c \in Commands :
               c # Index => journal'[row.request][c] = journal[row.request][c]
      BY <2>2, <2>4
    <3> QED BY <2>1, <3>1, <3>2, <3>3, <3>4, <3>5, <3>6 DEF EvidenceInv, completed
  <2> QED BY <2>5, <2>6, <2>7, <2>8
<1>7. CASE AcceptEvidence
  <2>1. /\ drive.at = "claim" /\ Index = N + 1 /\ drive' = Idle
        /\ accepted' = [accepted EXCEPT ![row.request] = drive.evidence]
        /\ UNCHANGED <<journal, wire, reply, executed, exit>>
    BY <1>7 DEF AcceptEvidence, app
  <2>2. JournalTypeOK'
    <3>1. row' \in [status: {"RUNNING", "PAUSED", "BLOCKED", "VERIFIED"}, request: VerificationRequests]
      BY <1>7 DEF AcceptEvidence, JournalTypeOK
    <3>2. accepted' \in [VerificationRequests -> [Commands -> ExitCodes \cup {NoExit}]]
      BY <2>1 DEF JournalTypeOK
    <3>3. Idle \in DriveType
      BY DEF DriveType, Idle, NoResults
    <3> QED BY <2>1, <3>1, <3>2, <3>3 DEF JournalTypeOK, DriveType
  <2>3. ClaimInv' /\ OrderInv'
    BY <2>1 DEF ClaimInv, OrderInv, OnWire
  <2>4. AcceptedInv'
    <3>1. \A c \in Commands :
            /\ journal[row.request][c].status = "COMPLETED"
            /\ drive.evidence[c] = journal[row.request][c].exit
      BY <2>1 DEF EvidenceInv
    <3>2. \A r \in VerificationRequests : accepted'[r] = IF r = row.request THEN drive.evidence ELSE accepted[r]
      BY <2>1 DEF JournalTypeOK
    <3> QED BY <2>1, <3>1, <3>2 DEF AcceptedInv
  <2>5. DriveInv' /\ EvidenceInv'
    BY <2>1 DEF DriveInv, EvidenceInv, Idle
  <2> QED BY <2>2, <2>3, <2>4, <2>5
<1> QED BY <1>1, <1>2, <1>3, <1>4, <1>5, <1>6, <1>7 DEF DriveVerification

\* Every other step keeps the invariant: the app server, faults, and the user.
LEMMA JournalOther ==
  ASSUME JournalInv,
         \/ AppServer \/ CommandFails \/ StoreFails
         \/ Resume \/ CrashDaemon
  PROVE  JournalInv'
<1> USE DEF JournalInv
<1>1. CASE ExecuteCommand
  <2>0. PICK w \in wire, code \in ExitCodes :
        /\ wire' = wire \ {w}
        /\ executed' = [executed EXCEPT ![w.request][w.index] = @ + 1]
        /\ exit' = [exit EXCEPT ![w.request][w.index] = code]
        /\ reply' = IF drive.at = "wait" /\ w = [request |-> row.request, index |-> Index]
                    THEN code ELSE reply
    BY <1>1 DEF ExecuteCommand
  <2> DEFINE q == w.request  i == w.index
  <2>1. q \in VerificationRequests /\ i \in Commands /\ w = [request |-> q, index |-> i] /\ OnWire(q, i)
    BY <2>0 DEF JournalTypeOK, OnWire
  <2>2. /\ executed[q][i] = 0
        /\ journal[q][i].status \notin {"NONE", "COMPLETED"}
    BY <2>1 DEF ClaimInv
  <2> HIDE DEF q, i
  <2>3. /\ executed' = [executed EXCEPT ![q][i] = @ + 1]
        /\ exit' = [exit EXCEPT ![q][i] = code]
    BY <2>0 DEF q, i
  <2>4. UNCHANGED <<row, journal, accepted, drive>>
    BY <1>1 DEF ExecuteCommand, journalStore
  <2>5. /\ executed' \in [VerificationRequests -> [Commands -> Nat]]
        /\ \A r \in VerificationRequests, c \in Commands :
             executed'[r][c] = IF r = q /\ c = i THEN 1 ELSE executed[r][c]
    <3>1. executed \in [VerificationRequests -> [Commands -> Nat]]
      BY DEF JournalTypeOK
    <3> HIDE DEF JournalInv
    <3>2. executed' = [executed EXCEPT ![q][i] = 1]
      <4>1. executed[q][i] + 1 = 1
        BY <2>2
      <4> QED BY <2>3, <4>1, Zenon
    <3> QED BY <2>1, <3>1, <3>2, ReplaceEntry, SMTT(40)
  <2>6. /\ exit' \in [VerificationRequests -> [Commands -> ExitCodes \cup {NoExit}]]
        /\ \A r \in VerificationRequests, c \in Commands :
             exit'[r][c] = IF r = q /\ c = i THEN code ELSE exit[r][c]
    <3>1. /\ exit \in [VerificationRequests -> [Commands -> ExitCodes \cup {NoExit}]]
          /\ code \in ExitCodes \cup {NoExit}
      BY DEF JournalTypeOK
    <3> HIDE DEF JournalInv
    <3> QED BY <2>1, <2>3, <3>1, ReplaceEntry, SMTT(40)
  <2>7. \A r \in VerificationRequests, c \in Commands :
          OnWire(r, c)' <=> OnWire(r, c) /\ ~(r = q /\ c = i)
    BY <2>0, <2>1 DEF OnWire
  <2>8. JournalTypeOK'
    <3>1. /\ wire' \subseteq [request: VerificationRequests, index: Commands]
          /\ reply' \in ExitCodes \cup {NoExit}
      BY <2>0 DEF JournalTypeOK
    <3> QED BY <2>4, <2>5, <2>6, <3>1 DEF JournalTypeOK
  <2>9. ClaimInv'
    <3>1. ASSUME NEW r \in VerificationRequests, NEW c \in Commands, ~(r = q /\ c = i)
          PROVE  /\ journal'[r][c] = journal[r][c] /\ executed'[r][c] = executed[r][c]
                 /\ exit'[r][c] = exit[r][c] /\ (OnWire(r, c)' <=> OnWire(r, c))
      BY <2>4, <2>5, <2>6, <2>7, <3>1
    <3>2. /\ executed'[q][i] = 1 /\ ~OnWire(q, i)'
          /\ journal'[q][i].status \notin {"NONE", "COMPLETED"}
      BY <2>1, <2>2, <2>4, <2>5, <2>7
    <3>3. ClaimInv
      OBVIOUS
    <3> HIDE DEF JournalInv
    <3> QED BY <3>1, <3>2, <3>3 DEF ClaimInv
  <2>10. OrderInv' /\ AcceptedInv' /\ EvidenceInv'
    BY <2>4 DEF OrderInv, AcceptedInv, EvidenceInv, Index
  <2>11. DriveInv'
    <3>1. /\ row.request \in VerificationRequests /\ Index' = Index
          /\ row'.request = row.request /\ drive'.at = drive.at
      BY <2>4 DEF JournalTypeOK, Index
    <3>2. drive.at \in {"send", "wait"} =>
            Index \in Commands /\ journal'[row.request][Index].status = "STARTED"
      BY <2>4 DEF DriveInv
    <3>3. drive.at = "send" => executed'[row.request][Index] = 0 /\ ~OnWire(row.request, Index)'
      <4> SUFFICES ASSUME drive.at = "send"
                   PROVE  executed'[row.request][Index] = 0 /\ ~OnWire(row.request, Index)'
        OBVIOUS
      <4>1. executed[row.request][Index] = 0 /\ ~OnWire(row.request, Index)
        BY DEF DriveInv
      <4>2. ~(q = row.request /\ i = Index)
        BY <2>1, <4>1
      <4> HIDE DEF JournalInv
      <4>3. executed'[row.request][Index] = 0
        BY <2>5, <3>1, <3>2, <4>1, <4>2
      <4>4. ~OnWire(row.request, Index)'
        BY <2>7, <3>1, <3>2, <4>1 DEF OnWire
      <4> QED BY <4>3, <4>4
    <3>4. reply' # NoExit =>
            /\ drive.at = "wait" /\ executed'[row.request][Index] = 1
            /\ exit'[row.request][Index] = reply'
      <4> SUFFICES ASSUME reply' # NoExit
                   PROVE  /\ drive.at = "wait" /\ executed'[row.request][Index] = 1
                          /\ exit'[row.request][Index] = reply'
        OBVIOUS
      <4>1. CASE drive.at = "wait" /\ w = [request |-> row.request, index |-> Index]
        <5>1. q = row.request /\ i = Index /\ reply' = code
          BY <2>0, <4>1 DEF q, i
        <5> HIDE DEF JournalInv
        <5> QED BY <2>1, <2>5, <2>6, <4>1, <5>1
      <4>2. CASE ~(drive.at = "wait" /\ w = [request |-> row.request, index |-> Index])
        <5>1. reply' = reply
          BY <2>0, <4>2
        <5>2. /\ drive.at = "wait" /\ executed[row.request][Index] = 1
              /\ exit[row.request][Index] = reply
          BY <5>1 DEF DriveInv
        <5>3. ~(q = row.request /\ i = Index)
          BY <2>2, <5>2
        <5> HIDE DEF JournalInv
        <5> QED BY <2>5, <2>6, <3>1, <3>2, <5>1, <5>2, <5>3
      <4> QED BY <4>1, <4>2
    <3> QED BY <3>1, <3>2, <3>3, <3>4 DEF DriveInv, OnWire
  <2> QED BY <2>8, <2>9, <2>10, <2>11
<1>2. CASE LoseCommand
  <2>1. /\ wire' \subseteq wire
        /\ UNCHANGED <<row, journal, accepted, drive, reply, executed, exit>>
    BY <1>2 DEF LoseCommand, journalStore
  <2>2. JournalTypeOK'
    BY <2>1 DEF JournalTypeOK
  <2>3. ClaimInv' /\ OrderInv' /\ AcceptedInv'
    BY <2>1 DEF ClaimInv, OrderInv, AcceptedInv, OnWire
  <2>4. DriveInv' /\ EvidenceInv'
    BY <2>1 DEF DriveInv, EvidenceInv, OnWire, Index
  <2> QED BY <2>2, <2>3, <2>4
<1>3. CASE CommandFails
  BY <1>3, JournalStops DEF CommandFails, Stops, JournalTypeOK
<1>4. CASE StoreFails
  BY <1>4, JournalStops DEF StoreFails, Stops, JournalTypeOK
<1>5. CASE Resume
  <2>1. /\ row' = [row EXCEPT !.status = "RUNNING"]
        /\ UNCHANGED <<journal, accepted, drive, wire, reply, executed, exit>>
    BY <1>5 DEF Resume, app
  <2>2. row'.request = row.request /\ JournalTypeOK'
    BY <2>1 DEF JournalTypeOK
  <2>3. ClaimInv' /\ OrderInv' /\ AcceptedInv'
    BY <2>1 DEF ClaimInv, OrderInv, AcceptedInv, OnWire
  <2>4. DriveInv' /\ EvidenceInv'
    BY <2>1, <2>2 DEF DriveInv, EvidenceInv, OnWire, Index
  <2> QED BY <2>2, <2>3, <2>4
<1>6. CASE CrashDaemon
  BY <1>6, JournalStops DEF CrashDaemon, JournalTypeOK, journalStore
<1> QED BY <1>1, <1>2, <1>3, <1>4, <1>5, <1>6 DEF AppServer

\* The invariant is inductive.
LEMMA StepOfJournal == JournalInv /\ [JournalNext]_journalVars => JournalInv'
<1> SUFFICES ASSUME JournalInv, [JournalNext]_journalVars PROVE JournalInv'
  OBVIOUS
<1>1. CASE UNCHANGED journalVars
  <2>1. UNCHANGED <<row, journal, accepted, drive, wire, reply, executed, exit>>
    BY <1>1 DEF journalVars
  <2>2. JournalTypeOK'
    BY <2>1 DEF JournalInv, JournalTypeOK
  <2>3. ClaimInv' /\ OrderInv' /\ AcceptedInv'
    BY <2>1 DEF JournalInv, ClaimInv, OrderInv, AcceptedInv, OnWire
  <2>4. DriveInv' /\ EvidenceInv'
    BY <2>1 DEF JournalInv, DriveInv, EvidenceInv, OnWire, Index
  <2> QED BY <2>2, <2>3, <2>4 DEF JournalInv
<1> QED BY <1>1, JournalDrive, JournalOther DEF JournalNext

\* Every reachable state satisfies the invariant.
THEOREM JournalInvariance == JournalSpec => []JournalInv
  BY StartOfJournal, StepOfJournal, PTL DEF JournalSpec

\* The variables keep their types.
THEOREM JournalTypeCorrect == JournalSpec => []JournalTypeOK
<1>1. JournalInv => JournalTypeOK
  BY DEF JournalInv
<1> QED BY <1>1, JournalInvariance, PTL

\* A frozen command is executed at most once for a request, whatever is lost and
\* wherever the daemon crashes (begin_verification_command).
THEOREM ExecutedAtMostOnceHolds == JournalSpec => []ExecutedAtMostOnce
<1>1. JournalInv => ExecutedAtMostOnce
  BY DEF JournalInv, ClaimInv, ExecutedAtMostOnce
<1> QED BY <1>1, JournalInvariance, PTL

\* A verification is accepted with the results of its own executions.
THEOREM EvidenceIsOfThisRequestHolds == JournalSpec => []EvidenceIsOfThisRequest
<1>1. JournalInv => EvidenceIsOfThisRequest
  BY DEF JournalInv, ClaimInv, AcceptedInv, EvidenceIsOfThisRequest
<1> QED BY <1>1, JournalInvariance, PTL

\* Commands are executed in order, each after the recorded end of those before.
THEOREM OneAtATimeHolds == JournalSpec => []OneAtATime
<1>1. JournalInv => OneAtATime
  BY DEF JournalInv, ClaimInv, OrderInv, OneAtATime
<1> QED BY <1>1, JournalInvariance, PTL

=============================================================================
