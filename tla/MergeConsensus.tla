--------------------------- MODULE MergeConsensus ---------------------------
(***************************************************************************)
(* What one consensus run promises, whatever happens to the tasks, the     *)
(* daemon and the user in between: one plan is agreed on and never         *)
(* replaced; commits are proposed one at a time; the daemon tests each of  *)
(* them; a commit that passed is endorsed or rejected; another commit is   *)
(* proposed only when the last one failed or was rejected; and only an     *)
(* endorsed commit is accepted.  A run may be held and reopened at any     *)
(* time, which changes nothing of this, and cancelled for good until it is *)
(* accepted.                                                               *)
(***************************************************************************)
CONSTANTS Plans, Shas, None

VARIABLES
  outcome,    \* "open", "held", "accepted" or "cancelled"
  agreed,     \* the plan agreed on, or None
  candidate,  \* the commit under judgement, or None
  verdict     \* what is known of the candidate

vars == <<outcome, agreed, candidate, verdict>>

Verdicts == {"none", "untested", "failed", "passed", "rejected", "endorsed"}

Init == outcome = "open" /\ agreed = None /\ candidate = None /\ verdict = "none"

Agree(plan) ==
  /\ outcome = "open" /\ agreed = None
  /\ agreed' = plan
  /\ UNCHANGED <<outcome, candidate, verdict>>

Propose(commit) ==
  /\ outcome = "open" /\ agreed # None
  /\ verdict \in {"none", "failed", "rejected"} /\ commit # candidate
  /\ candidate' = commit /\ verdict' = "untested"
  /\ UNCHANGED <<outcome, agreed>>

\* A failure may exhaust the run's budget.
Test ==
  /\ outcome = "open" /\ verdict = "untested"
  /\ \/ verdict' = "passed" /\ UNCHANGED outcome
     \/ verdict' = "failed" /\ outcome' \in {"open", "held"}
  /\ UNCHANGED <<agreed, candidate>>

Judge ==
  /\ outcome = "open" /\ verdict = "passed"
  /\ verdict' \in {"endorsed", "rejected"}
  /\ UNCHANGED <<outcome, agreed, candidate>>

Accept ==
  /\ outcome = "open" /\ verdict = "endorsed"
  /\ outcome' = "accepted"
  /\ UNCHANGED <<agreed, candidate, verdict>>

Hold   == outcome = "open" /\ outcome' = "held" /\ UNCHANGED <<agreed, candidate, verdict>>
Reopen == outcome = "held" /\ outcome' = "open" /\ UNCHANGED <<agreed, candidate, verdict>>
Cancel == outcome \in {"open", "held"} /\ outcome' = "cancelled"
          /\ UNCHANGED <<agreed, candidate, verdict>>

Next ==
  \/ \E plan \in Plans : Agree(plan)
  \/ \E commit \in Shas : Propose(commit)
  \/ Test \/ Judge \/ Accept \/ Hold \/ Reopen \/ Cancel

Spec == Init /\ [][Next]_vars

=============================================================================
