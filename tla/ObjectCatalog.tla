--------------------------- MODULE ObjectCatalog ---------------------------
(***************************************************************************)
(* The service-owned object catalog of the daemon (catalog.rs,             *)
(* object_service.rs) and its control handlers and shutdown (main.rs).     *)
(*                                                                         *)
(* Every request runs under the catalog lock and is one step, except that  *)
(* ReleaseDataObject frees the memory of the object after it has dropped   *)
(* the lock.  One handler thread serves a connection: it answers requests  *)
(* one at a time, tests shutdown_requested before each, and is joined      *)
(* before the HBM blocks are cleaned up.                                   *)
(*                                                                         *)
(* An HBM object lives in a block, whose memory is named by the block.  A  *)
(* DDR or SSD object owns its mapping or file, named by the object.  All   *)
(* blocks are dynamic: the only call of Block::new passes `true`.  The     *)
(* medium stands for placement and target.  Ids are never reused.  The     *)
(* first Cardinality(Lease) leases are followed.  Requests that are        *)
(* refused change nothing and are left out.                                *)
(***************************************************************************)
EXTENDS Naturals, FiniteSets

CONSTANTS
    Client,    \* registered control connections
    Object,    \* object ids
    Block,     \* block ids
    Lease,     \* lease ids
    Key,       \* (model_id, name, role) triples with no empty part
    Request,   \* the CreateDataObject requests clients make
    None,      \* no value
    Released   \* the catalog record of a released object

VARIABLES
    objects,   \* st.objects; Released once removed
    blocks,    \* st.blocks
    leases,    \* st.leases
    memory,    \* device allocations, mappings and files
    handler,   \* what each handler thread has still to do
    phase      \* of the daemon process

catalogVars == <<objects, blocks, leases, memory, handler, phase>>

Creation == [medium : {"hbm", "ddr", "ssd"}, key : Key \cup {None}, immutable : BOOLEAN, size : Nat]
ObjectRecord ==
    [request : Creation, state : {"Created", "Ready", "Modified"}, block : Block \cup {None}]
BlockRecord == [size : Nat, object : Object \cup {None}]
LeaseRecord == [object : Object, client : Client, state : {"Active", "Stale", "Closed"}]

ASSUME CatalogAssumption ==
    /\ Request \subseteq Creation
    /\ None \notin Block \cup Object \cup Key \cup ObjectRecord \cup BlockRecord \cup LeaseRecord
    /\ Released \notin ObjectRecord \cup BlockRecord \cup {None}
    /\ Block \cap Object = {}

Step(at, arg) == [at |-> at, arg |-> arg]
Ready == Step("ready", None)
Exited == Step("exited", None)

CatalogInit ==
    /\ objects = [o \in Object |-> None]
    /\ blocks = [b \in Block |-> None]
    /\ leases = [l \in Lease |-> None]
    /\ memory = [m \in Block \cup Object |-> "none"]
    /\ handler = [c \in Client |-> Ready]
    /\ phase = "running"

-----------------------------------------------------------------------------
Live == {o \in Object : objects[o] \notin {None, Released}}
CatalogBlocks == {b \in Block : blocks[b] \notin {None, Released}}

MemoryOf(o) == IF objects[o].request.medium = "hbm" THEN objects[o].block ELSE o

\* The handler returns to its loop, where it leaves if shutdown was requested.
Answered(h, c) == [h EXCEPT ![c] = IF phase = "running" THEN Ready ELSE Exited]

\* A mutant: a change of state that wakes nobody.
NotifyNobody(h) == h

\* cv.notify_all: every WaitEvent that is blocked runs again.
NotifyAll(h) == [c \in Client |-> IF h[c].at = "waiting" THEN Step("woken", h[c].arg) ELSE h[c]]

Serving(c) == handler[c].at = "ready" /\ phase # "gone"

MakeLease(c, o) ==
    LET fresh == {l \in Lease : leases[l] = None}
        lease == [object |-> o, client |-> c, state |-> "Active"]
    IN IF fresh = {} THEN leases' = leases
       ELSE \E l \in fresh : leases' = [leases EXCEPT ![l] = lease]

find_reusable_object(r) ==
    {o \in Live : /\ r.immutable /\ r.key # None
                  /\ objects[o].request = r}

Reuse(c, r) ==
    /\ Serving(c)
    /\ \E o \in find_reusable_object(r) : MakeLease(c, o)
    /\ handler' = Answered(handler, c)
    /\ UNCHANGED <<objects, blocks, memory, phase>>

NewObject(c, r, b, o) ==
    /\ objects[o] = None
    /\ objects' = [objects EXCEPT ![o] = [request |-> r, state |-> "Created", block |-> b]]
    /\ MakeLease(c, o)

CreateDdrOrSsd(c, r) ==
    /\ Serving(c)
    /\ r.medium # "hbm" /\ find_reusable_object(r) = {}
    /\ \E o \in Object :
          /\ NewObject(c, r, None, o)
          /\ memory' = [memory EXCEPT ![o] = "live"]
    /\ handler' = Answered(handler, c)
    /\ UNCHANGED <<blocks, phase>>

\* The block an HBM object goes to: a Ready one that is large enough (the code
\* takes the first), else a new allocation.
can_hold(b, r) == b \in CatalogBlocks /\ blocks[b].object = None /\ blocks[b].size >= r.size

ChosenBlock(b, r) ==
    \/ can_hold(b, r)
    \/ /\ blocks[b] = None
       /\ \A other \in Block : ~can_hold(other, r)

BlockSize(b, r) == IF blocks[b] = None THEN r.size ELSE blocks[b].size

CreateHbm(c, r) ==
    /\ Serving(c)
    /\ r.medium = "hbm" /\ find_reusable_object(r) = {}
    /\ \E b \in Block, o \in Object :
          /\ ChosenBlock(b, r)
          /\ NewObject(c, r, b, o)
          /\ blocks' = [blocks EXCEPT ![b] = [size |-> BlockSize(b, r), object |-> o]]
          /\ memory' = [memory EXCEPT ![b] = "live"]
    /\ handler' = Answered(handler, c)
    /\ UNCHANGED phase

\* export_for_client failed: the block stays in the catalog, Ready.
CreateHbmExportFails(c, r) ==
    /\ Serving(c)
    /\ r.medium = "hbm" /\ find_reusable_object(r) = {}
    /\ \E b \in Block :
          /\ ChosenBlock(b, r)
          /\ blocks' = [blocks EXCEPT ![b] = [size |-> BlockSize(b, r), object |-> None]]
          /\ memory' = [memory EXCEPT ![b] = "live"]
    /\ handler' = Answered(handler, c)
    /\ UNCHANGED <<objects, leases, phase>>

open_data_object(c, o) ==
    /\ Serving(c) /\ o \in Live
    /\ MakeLease(c, o)
    /\ handler' = Answered(handler, c)
    /\ UNCHANGED <<objects, blocks, memory, phase>>

Mark(c, o, state) ==
    /\ Serving(c) /\ o \in Live
    /\ objects' = [objects EXCEPT ![o].state = state]
    /\ handler' = NotifyAll(Answered(handler, c))
    /\ UNCHANGED <<blocks, leases, memory, phase>>

close_lease(c, l) ==
    /\ Serving(c) /\ leases[l] # None
    /\ leases' = [leases EXCEPT ![l].state = "Closed"]
    /\ handler' = Answered(handler, c)
    /\ UNCHANGED <<objects, blocks, memory, phase>>

LeasesStaled(o) ==
    [l \in Lease |->
        IF leases[l] # None /\ leases[l].object = o /\ leases[l].state # "Closed"
        THEN [leases[l] EXCEPT !.state = "Stale"] ELSE leases[l]]

\* A mutant: the dynamic block of a released object stays in the catalog.
BlockReturned(o) ==
    [b \in Block |-> IF b = objects[o].block THEN [blocks[b] EXCEPT !.object = None]
                     ELSE blocks[b]]

BlockRemoved(o) == [b \in Block |-> IF b = objects[o].block THEN Released ELSE blocks[b]]

\* What the release frees once it has dropped the lock.
ToFree(o) == MemoryOf(o)

release_data_object(c, o) ==
    /\ Serving(c) /\ o \in Live
    /\ objects' = [objects EXCEPT ![o] = Released]
    /\ leases' = LeasesStaled(o)
    /\ blocks' = BlockRemoved(o)
    /\ handler' = NotifyAll([handler EXCEPT ![c] = Step("freeing", ToFree(o))])
    /\ UNCHANGED <<memory, phase>>

\* Memory m after a call that frees it: the call may fail, and is a fault of
\* the daemon when the memory is not there any more.
Freed(m) == IF memory[m] = "live" THEN {"freed", "leaked"} ELSE {"freed twice"}

Free(c) ==
    /\ handler[c].at = "freeing"
    /\ \E outcome \in Freed(handler[c].arg) :
          memory' = [memory EXCEPT ![handler[c].arg] = outcome]
    /\ handler' = Answered(handler, c)
    /\ UNCHANGED <<objects, blocks, leases, phase>>

-----------------------------------------------------------------------------
ShutdownNotified(h) == NotifyAll(h)

shutdown_daemon(c) ==
    /\ Serving(c) /\ phase = "running"
    /\ phase' = "draining"
    /\ handler' = ShutdownNotified([handler EXCEPT ![c] = Exited])
    /\ UNCHANGED <<objects, blocks, leases, memory>>

\* The listener fails and the accept loop ends by itself.
AcceptError ==
    /\ phase = "running"
    /\ phase' = "draining"
    /\ handler' = ShutdownNotified(handler)
    /\ UNCHANGED <<objects, blocks, leases, memory>>

\* The client hung up, or the handler saw shutdown_requested.
HandlerExits(c) ==
    /\ Serving(c)
    /\ handler' = [handler EXCEPT ![c] = Exited]
    /\ UNCHANGED <<objects, blocks, leases, memory, phase>>

join_control_handlers == \A c \in Client : handler[c] = Exited

\* A mutant: the cleanup goes through the objects.
LeasedBlocks == {b \in CatalogBlocks : blocks[b].object # None}

BlocksToFree == CatalogBlocks

cleanup_blocks ==
    /\ phase = "draining" /\ join_control_handlers
    /\ phase' = "cleaned"
    /\ \E outcome \in [BlocksToFree -> {"freed", "leaked", "freed twice"}] :
          /\ \A b \in BlocksToFree : outcome[b] \in Freed(b)
          /\ memory' = [m \in DOMAIN memory |->
                           IF m \in BlocksToFree THEN outcome[m] ELSE memory[m]]
    /\ UNCHANGED <<objects, blocks, leases, handler>>

ProcessExits ==
    /\ phase = "cleaned" /\ phase' = "gone"
    /\ UNCHANGED <<objects, blocks, leases, memory, handler>>

-----------------------------------------------------------------------------
ClientStep(c) ==
    \/ \E r \in Request :
          \/ Reuse(c, r)
          \/ CreateDdrOrSsd(c, r)
          \/ CreateHbm(c, r)
          \/ CreateHbmExportFails(c, r)
    \/ \E o \in Object :
          \/ open_data_object(c, o)
          \/ Mark(c, o, "Ready")
          \/ Mark(c, o, "Modified")
          \/ release_data_object(c, o)
    \/ \E l \in Lease : close_lease(c, l)
    \/ Free(c)
    \/ shutdown_daemon(c)
    \/ HandlerExits(c)

CatalogNext ==
    \/ \E c \in Client : ClientStep(c)
    \/ AcceptError
    \/ cleanup_blocks
    \/ ProcessExits

CatalogSpec == CatalogInit /\ [][CatalogNext]_catalogVars

-----------------------------------------------------------------------------
CatalogTypeOK ==
    /\ objects \in [Object -> ObjectRecord \cup {None, Released}]
    /\ blocks \in [Block -> BlockRecord \cup {None, Released}]
    /\ leases \in [Lease -> LeaseRecord \cup {None}]
    /\ memory \in [Block \cup Object -> {"none", "live", "freed", "leaked", "freed twice"}]
    /\ phase \in {"running", "draining", "cleaned", "gone"}
    /\ DOMAIN handler = Client
    /\ \A c \in Client : handler[c].at = "freeing" => handler[c].arg \in Block \cup Object

\* The catalog is consistent.  Every HBM object has a block that is large enough
\* and leased to it alone, and every leased block has its object; until the
\* cleanup at shutdown the memory of both is there.  An active lease is for an
\* object in the catalog: a release makes the other leases stale and no request
\* revives one.  Two clients that create the same immutable object share it.
CatalogConsistent ==
    /\ \A o \in Live : objects[o].request.medium = "hbm" =>
          LET b == objects[o].block
          IN b \in CatalogBlocks /\ blocks[b].object = o /\ blocks[b].size >= objects[o].request.size
    /\ \A b \in CatalogBlocks : blocks[b].object # None =>
          blocks[b].object \in Live /\ objects[blocks[b].object].block = b
    /\ phase \in {"running", "draining"} =>
          /\ \A o \in Live : memory[MemoryOf(o)] = "live"
          /\ \A b \in CatalogBlocks : memory[b] = "live"
    /\ \A l \in Lease : leases[l] # None /\ leases[l].state = "Active" => leases[l].object \in Live
    /\ \A o, p \in Live :
          /\ objects[o].request = objects[p].request
          /\ objects[o].request.immutable /\ objects[o].request.key # None
          => o = p

\* What the daemon allocates it frees once: no allocation, mapping or file is
\* freed twice, by two releases or by a release and the cleanup at shutdown, and
\* the cleanup leaves no HBM allocation that was never passed to free, even one
\* whose object was being released or never existed.
FreedOnce ==
    /\ \A m \in DOMAIN memory : memory[m] # "freed twice"
    /\ phase \in {"cleaned", "gone"} => \A b \in Block : memory[b] # "live"
=============================================================================
