----------------------------- MODULE MCRunState -----------------------------
(* Instances of RunState for TLC. *)
EXTENDS RunState, TLC

Symmetry == Permutations(Commands) \cup Permutations(Plans)
            \cup Permutations(Shas) \cup Permutations(Issues)

=============================================================================
