---------------------------- MODULE RunRegistry ----------------------------
(***************************************************************************)
(* What the daemon promises about the runs of one repository: at most one  *)
(* of them is open, it owns the repository, it gives the repository back   *)
(* whenever it stops for good or is blocked, a blocked run comes back only *)
(* by owning the repository again, and what was answered is never lost.    *)
(***************************************************************************)
EXTENDS Naturals

CONSTANTS Runs, Last, None

VARIABLES
  standing,  \* of each run: "new", "open", "blocked", "cancelled" or "accepted"
  answered,  \* of each run: the number of answers it has accepted
  owner      \* the run that owns the repository, or None

vars == <<standing, answered, owner>>

Init ==
  /\ standing = [r \in Runs |-> "new"] /\ answered = [r \in Runs |-> 0]
  /\ owner = None

Leave(r, st) ==
  /\ standing' = [standing EXCEPT ![r] = st]
  /\ owner' = IF owner = r THEN None ELSE owner

Enter(r, st) ==
  /\ standing[r] = st /\ owner = None
  /\ standing' = [standing EXCEPT ![r] = "open"] /\ owner' = r
  /\ UNCHANGED answered

\* One answer, which may also block the run.
Answer(r) ==
  /\ standing[r] = "open" /\ owner = r /\ answered[r] < Last
  /\ answered' = [answered EXCEPT ![r] = @ + 1]
  /\ UNCHANGED <<standing, owner>>

Block(r)  == standing[r] = "open" /\ Leave(r, "blocked") /\ UNCHANGED answered
Cancel(r) == standing[r] \in {"open", "blocked"} /\ Leave(r, "cancelled") /\ UNCHANGED answered
Accept(r) ==
  /\ standing[r] = "open" /\ owner = r /\ answered[r] = Last
  /\ Leave(r, "accepted") /\ UNCHANGED answered

Next == \E r \in Runs :
  Enter(r, "new") \/ Enter(r, "blocked") \/ Answer(r) \/ Block(r) \/ Cancel(r) \/ Accept(r)

Spec == Init /\ [][Next]_vars

=============================================================================
