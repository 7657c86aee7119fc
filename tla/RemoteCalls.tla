---------------------------- MODULE RemoteCalls ----------------------------
(***************************************************************************)
(* What the App Server client promises the coordinator: a call that is not *)
(* idempotent is executed at most once, a call succeeds only after it was  *)
(* executed, and a failed call may have been executed or may be executed   *)
(* later.                                                                  *)
(***************************************************************************)
EXTENDS Naturals

CONSTANTS Calls,  \* the calls that are made
          Acts    \* those that are not idempotent

VARIABLES state,  \* "new", "open", "ok" or "error" for each call
          runs    \* how often the App Server executed it

vars == <<state, runs>>

Init == state = [c \in Calls |-> "new"] /\ runs = [c \in Calls |-> 0]

Open(c) ==
  /\ state[c] = "new"
  /\ state' = [state EXCEPT ![c] = "open"]
  /\ UNCHANGED runs

Run(c) ==
  /\ state[c] # "new"
  /\ c \in Acts => runs[c] = 0
  /\ runs' = [runs EXCEPT ![c] = @ + 1]
  /\ UNCHANGED state

Succeed(c) ==
  /\ state[c] = "open"
  /\ runs[c] > 0
  /\ state' = [state EXCEPT ![c] = "ok"]
  /\ UNCHANGED runs

Fail(c) ==
  /\ state[c] = "open"
  /\ state' = [state EXCEPT ![c] = "error"]
  /\ UNCHANGED runs

Next == \E c \in Calls : Open(c) \/ Run(c) \/ Succeed(c) \/ Fail(c)

Spec == Init /\ [][Next]_vars

=============================================================================
