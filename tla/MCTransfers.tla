---------------------------- MODULE MCTransfers ----------------------------
(***************************************************************************)
(* Small instances of the object catalog and of transfers.                 *)
(***************************************************************************)
EXTENDS Transfers, TLC

CONSTANTS c1, c2, o1, o2, b1, b2, l1, k1, w1, e1, e2

Make(medium, key, immutable, size) ==
    [medium |-> medium, key |-> key, immutable |-> immutable, size |-> size]

\* Shared and private HBM objects of two sizes, and a shared DDR object.
CatalogRequests ==
    {Make("hbm", k1, TRUE, 1), Make("hbm", None, FALSE, 2), Make("ddr", k1, TRUE, 1)}

HbmRequests == {Make("hbm", None, FALSE, 1)}

Requests == CatalogRequests \cup HbmRequests

\* The ids are counters of the daemon, given out in order; c1 is the client that
\* makes the first object.
InOrder ==
    /\ objects[o2] # None => objects[o1] # None
    /\ blocks[b2] # None => blocks[b1] # None
    /\ events[e2] # None => events[e1] # None
    /\ \A l \in Lease : leases[l] # None => leases[l].client = c1

\* Objects of three kinds and a lease; one transfer between two private HBM
\* objects, Created or Ready; or two transfers of a Ready object nobody releases.
Follows(requests) == \A o \in Live : objects[o].request \in requests
Catalog == Follows(CatalogRequests) /\ \A e \in Event : events[e] = None
TwoObjects ==
    /\ Follows(HbmRequests) /\ \A o \in Live : objects[o].state # "Modified"
    /\ \A l \in Lease : leases[l] # None => leases[l].state # "Closed"
OneTransfer == TwoObjects /\ events[e2] = None
TwoTransfers ==
    /\ TwoObjects
    /\ \A o \in Object : objects[o] # Released
    /\ \A b \in CatalogBlocks : blocks[b].object # None
    /\ \A e \in Event : events[e] # None =>
          events[e].src = o1 /\ events[e].dst = o2 /\ events[e].source_ready

InScope == InOrder' /\ (Catalog' \/ OneTransfer' \/ TwoTransfers')
=============================================================================
