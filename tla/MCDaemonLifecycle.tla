-------------------------- MODULE MCDaemonLifecycle --------------------------
(* DaemonLifecycle for TLC: clients and daemons are interchangeable.        *)
EXTENDS DaemonLifecycle, TLC

Interchangeable == Permutations(Launchers) \cup Permutations(Daemons)

=============================================================================
