---------------------------- MODULE MCCopyWork ----------------------------
(***************************************************************************)
(* Instances of CopyWork for TLC.  b1 is the source, b2 staging memory and *)
(* b3 stays free for the probe.                                            *)
(***************************************************************************)
EXTENDS CopyWork, TLC

CONSTANTS p1, p2, m1, m2, m3, m4, b1, b2, b3, b4, v1, w1, w2

Equal == [m \in Inode |-> 1]
NoFaults == {{}}
Anyone == SUBSET Proc
NoRegistrations == {}

\* One record of a copy, or the start of its thread, fails.
Events == {"RegisterIntent", "RegisterCommit", "RegisterAbort", "Revoke",
           "BackingCloseIntent", "BackingCloseDone"}
WorkEvents == {"WorkIntent", "CancelRequest", "WorkDrained", "WorkIoCompleted", "WorkVerified",
               "PublishIntent", "PublishDone", "PublishAbort", "Spawn"}
OneFault == {{}} \cup {{f} : f \in (Events \X {b2, b3}) \cup (WorkEvents \X Work)}

Anchor(p, m) == [owner |-> p, ino |-> m, purpose |-> "Immutable"]
Staging(p, m) == [owner |-> p, ino |-> m, purpose |-> "Staging"]

\* One client copies its own memory.
Alone == (b1 :> Anchor(p1, m1)) @@ (b2 :> Staging(p1, m2))
\* p2 copies from p1 into its own staging memory.
Pair == (b1 :> Anchor(p1, m1)) @@ (b2 :> Staging(p2, m2)) @@ (b4 :> Anchor(p2, m4))
\* p1 may read what was published.
ReadTarget == {[object |-> b2, accessor |-> p1, parent |-> None]}
=============================================================================
