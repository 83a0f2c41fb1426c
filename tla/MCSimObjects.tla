---------------------------- MODULE MCSimObjects ----------------------------
(***************************************************************************)
(* Instances of SimObjects for TLC.                                        *)
(***************************************************************************)
EXTENDS SimObjects, TLC

\* Ids are interchangeable: no property and no action tells them apart.
Symmetry ==
    Permutations(Object) \cup Permutations(Access) \cup Permutations(Plan)
    \cup Permutations(Handler)
=============================================================================
