----------------------------- MODULE MCPublisher -----------------------------
(* Instances of Publisher for TLC. *)
EXTENDS Publisher, TLC

Symmetry == Permutations(Publishers) \cup Permutations(Msgs)
=============================================================================
