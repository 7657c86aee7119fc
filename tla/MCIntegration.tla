---------------------------- MODULE MCIntegration ----------------------------
(* Integration with interchangeable patches. *)
EXTENDS Integration, TLC

PatchSymmetry == Permutations(Patches)

=============================================================================
