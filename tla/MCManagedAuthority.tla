------------------------- MODULE MCManagedAuthority -------------------------
(* Three brokers in a row, two objects: a generation that exposes one object *)
(* takes six frames, so two end cleanly and the third meets the limit.       *)
EXTENDS ManagedAuthority
=============================================================================
