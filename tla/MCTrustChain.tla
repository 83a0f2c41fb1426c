---------------------------- MODULE MCTrustChain ----------------------------
(***************************************************************************)
(* TrustChain for TLC.                                                     *)
(***************************************************************************)
EXTENDS TrustChain, TLC

Symmetry == Permutations(Witness) \cup Permutations(Name)

=============================================================================
