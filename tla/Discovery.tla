----------------------------- MODULE Discovery -----------------------------
(***************************************************************************)
(* Single-host DDR discovery (topology/ddr.rs of uf-core).  A snapshot     *)
(* brackets two reads of the NUMA inventory with two queries of the        *)
(* broker, because no lock covers both; a guard takes another snapshot     *)
(* and compares it with an earlier one.  The broker, the inventory and the *)
(* clocks change at any moment.  Sessions of the daemon share one          *)
(* DdrDiscovery under a mutex and keep the snapshots they were given.      *)
(*                                                                         *)
(* The broker is what external_ddr.rs answers to GetExternalDdrSnapshot:   *)
(* one row per backing that was ever registered, and an epoch that every   *)
(* change moves (by one here, whatever the number of records).  Counts     *)
(* of views and requests, frames and the text of sysfs are left out; a     *)
(* query that times out or does not parse fails.                           *)
(***************************************************************************)
EXTENDS Naturals, FiniteSets, Sequences, FiniteSetsExt, Functions, TLC

CONSTANTS
    Session,     \* users of the discovery
    Owner,       \* naturals: the order of the pools is that of their owners
    Object,      \* backings that may be registered
    OwnerOf,     \* the owner of each
    Bytes,       \* the size of each
    Published,   \* backings that are active when the discovery starts
    Inventory,   \* NUMA inventories
    Capacity,    \* amounts of memory that observe_available may find
    Limit,       \* host_budget_limit_bytes
    MaxAge,      \* max_age
    MaxTime,     \* bound on the clock
    Skew,        \* what the wall clock may be off by
    Expiry,      \* when measured evidence may expire
    Changes,     \* bound on changes of the broker and of the inventory
    Samples,     \* bound on snapshots taken
    None

ASSUME DiscoveryAssumption ==
    /\ Owner \subseteq Nat /\ IsFiniteSet(Owner) /\ IsFiniteSet(Object)
    /\ OwnerOf \in [Object -> Owner] /\ Bytes \in [Object -> Nat \ {0}]
    /\ Capacity \subseteq Nat /\ Limit \in Nat
    /\ MaxAge \in Nat \ {0} /\ MaxTime \in Nat /\ Changes \in Nat
    /\ Samples \in Nat /\ Skew \subseteq Nat /\ Expiry \subseteq Nat
    /\ None \notin Inventory /\ Published \subseteq Object

VARIABLES
    broker,     \* instance, epoch and rows
    physical,   \* the online inventory
    time,       \* mono: Instant; skew: how far the wall clock is off it
    version,    \* how often the broker and the inventory have changed so far
    discovery,  \* last, the two generations (always equal), and how many snapshots began
    sample,     \* the snapshot being taken, under the mutex
    held,       \* the snapshot of each session
    evidence,   \* a measured route, with the snapshot it was measured under
    verdict     \* the last guard or evidence that was accepted

vars == <<broker, physical, time, version, discovery, sample, held, evidence, verdict>>
world == <<broker, physical, time, version>>

Idle == [at |-> "idle"]
NoVerdict == [kind |-> "none"]

Init ==
    /\ broker = [instance |-> 1,
                 epoch |-> Cardinality({OwnerOf[o] : o \in Published}) + 2 * Cardinality(Published),
                 rows |-> [o \in Published |-> [state |-> "active", reclaimed |-> FALSE, alive |-> TRUE]]]
    /\ physical \in Inventory
    /\ \E skew \in Skew : time = [mono |-> 0, skew |-> skew]
    /\ version = [broker |-> 0, inventory |-> 0]
    /\ discovery = [last |-> None, generation |-> 0, begun |-> 0]
    /\ sample = Idle
    /\ held = [s \in Session |-> None]
    /\ evidence = None
    /\ verdict = NoVerdict

-----------------------------------------------------------------------------
\* The world around the discovery.

unix_ns == time.mono + time.skew

\* A sample remembers which pairs of broker and inventory it has lived through.
Remember(b, p) ==
    sample' = IF sample.at = "idle" THEN sample ELSE [sample EXCEPT !.seen = @ \cup {<<b, p>>}]

MayChange == version.broker + version.inventory < Changes

BrokerChanges(b) ==
    /\ MayChange /\ version' = [version EXCEPT !.broker = @ + 1]
    /\ broker' = b /\ Remember(b, physical)
    /\ UNCHANGED <<physical, time, discovery, held, evidence, verdict>>

SetRow(o, row) ==
    BrokerChanges([broker EXCEPT !.epoch = @ + 1, !.rows = (o :> row) @@ @])

Register(o) ==
    o \notin DOMAIN broker.rows /\ SetRow(o, [state |-> "pending", reclaimed |-> FALSE, alive |-> TRUE])

Rows(S) == {o \in DOMAIN broker.rows : broker.rows[o].state \in S}

Publish(o) == o \in Rows({"pending"}) /\ SetRow(o, [broker.rows[o] EXCEPT !.state = "active"])
Retire(o) == o \in Rows({"pending", "active"}) /\ SetRow(o, [broker.rows[o] EXCEPT !.state = "revoked"])
Reclaim(o) ==
    /\ o \in Rows({"revoked", "owner_exited"}) /\ ~broker.rows[o].reclaimed
    /\ SetRow(o, [broker.rows[o] EXCEPT !.reclaimed = TRUE])

\* refresh: everything a dead owner had is retired in the same critical section.
OwnerExits(w) ==
    /\ \E o \in DOMAIN broker.rows : OwnerOf[o] = w /\ broker.rows[o].alive
    /\ BrokerChanges([broker EXCEPT !.epoch = @ + 1,
         !.rows = [o \in DOMAIN @ |-> IF OwnerOf[o] # w THEN @[o]
            ELSE [@[o] EXCEPT !.alive = FALSE,
                     !.state = IF @ \in {"pending", "active"} THEN "owner_exited" ELSE @]]])

\* A new daemon: another broker instance that counts its epochs anew.
Restart == BrokerChanges([instance |-> broker.instance + 1, epoch |-> 0, rows |-> <<>>])

InventoryChanges(p) ==
    /\ p # physical /\ MayChange /\ version' = [version EXCEPT !.inventory = @ + 1]
    /\ physical' = p /\ Remember(broker, p)
    /\ UNCHANGED <<broker, time, discovery, held, evidence, verdict>>

Tick ==
    /\ time.mono < MaxTime /\ time' = [time EXCEPT !.mono = @ + 1]
    /\ UNCHANGED <<broker, physical, version, discovery, sample, held, evidence, verdict>>

\* The wall clock is set.
SetClock(skew) ==
    /\ skew # time.skew /\ time' = [time EXCEPT !.skew = skew]
    /\ UNCHANGED <<broker, physical, version, discovery, sample, held, evidence, verdict>>

-----------------------------------------------------------------------------
\* What a projection says.

Usable(row) == row.alive /\ row.state = "active" /\ ~row.reclaimed
Charged(rows) == {o \in DOMAIN rows : ~rows[o].reclaimed}
Committed(rows) == SumFunctionOnSet(Bytes, Charged(rows))

\* What the broker answers, and what of it is believed.
Answer(b) == [broker |-> b, committed_bytes |-> Committed(b.rows)]
parse_projection(answer) ==
    LET rows == answer.broker.rows IN
    /\ \A o \in DOMAIN rows :
         /\ rows[o].state \in {"active", "pending", "revoked", "owner_exited", "registration_rollback"}
         /\ rows[o].reclaimed => rows[o].state \notin {"active", "pending"}
    /\ answer.committed_bytes = Committed(rows)

\* The memory that /proc and the cgroup leave, when both can be read.
observe_available == Capacity \cup {None}

\* A mutant: every pool takes its share of the whole.
SlicesOfWhole(active, budget) ==
    [w \in active |-> budget \div Cardinality(active)]

\* The slices of the active pools: each takes its share of what is left.
Slices(active, budget) ==
    LET n == Cardinality(active)
        Place(w) == Cardinality({v \in active : v < w}) + 1
        remaining[i \in 0..n] ==
            IF i = 0 THEN budget ELSE remaining[i - 1] - remaining[i - 1] \div (n - i + 1)
    IN [w \in active |-> remaining[Place(w) - 1] - remaining[Place(w)]]

\* pools: what each owner retains, and its advisory slice.
Pools(rows, budget) ==
    LET owners == {OwnerOf[o] : o \in DOMAIN rows}
        active == {OwnerOf[o] : o \in {x \in DOMAIN rows : Usable(rows[x])}}
        slice == Slices(active, budget)
    IN [w \in owners |->
          [retained_bytes |-> SumFunctionOnSet(Bytes, {o \in Charged(rows) : OwnerOf[o] = w}),
           advisory_additional_bytes |-> IF w \in active THEN slice[w] ELSE 0]]

\* capabilities: every backing towards every domain that has a usable one.
Routes(rows) ==
    (DOMAIN rows) \X {OwnerOf[o] : o \in {x \in DOMAIN rows : Usable(rows[x])}}

Fingerprint(b, p) == [instance |-> b.instance, epoch |-> b.epoch, rows |-> b.rows, physical |-> p]

-----------------------------------------------------------------------------
\* snapshot.

Aged(captured) == time.mono - captured > MaxAge

Fail ==
    sample' = Idle

\* A guard that is refused before its own snapshot changes nothing.
Begin(s, guarded) ==
    /\ sample.at = "idle" /\ discovery.begun < Samples
    /\ discovery' = [discovery EXCEPT !.begun = @ + 1]
    /\ guarded # None =>
         /\ held[s] # None /\ guarded \in DOMAIN held[s].print.rows
         /\ ~Aged(held[s].captured)
         /\ unix_ns >= held[s].observed /\ unix_ns >= held[s].source_observed
    /\ sample' = [at |-> "first", session |-> s, guarded |-> guarded, start |-> time.mono,
                  wall_start |-> unix_ns, seen |-> {<<broker, physical>>},
                  first |-> None, first_at |-> None, physical_a |-> None,
                  second |-> None, second_at |-> None, version |-> None]
    /\ UNCHANGED <<world, held, evidence, verdict>>

\* query_broker and parse_projection: the answer is atomic under the catalog lock.
QueryFirst ==
    /\ sample.at = "first"
    /\ \/ /\ parse_projection(Answer(broker))
          /\ sample' = [sample EXCEPT !.at = "physical_a", !.first = broker, !.first_at = unix_ns]
       \/ Fail
    /\ UNCHANGED <<world, discovery, held, evidence, verdict>>

\* observe_physical.  It reads the list of nodes and then one file for each; here
\* the inventory is read in one step.
ReadPhysicalA ==
    /\ sample.at = "physical_a"
    /\ sample' = [sample EXCEPT !.at = "physical_b", !.physical_a = physical]
    /\ UNCHANGED <<world, discovery, held, evidence, verdict>>

\* The inventory has not changed while it was read; otherwise the snapshot fails in
\* the end, which nothing sees before.
ReadPhysicalB ==
    /\ sample.at = "physical_b"
    /\ sample' = IF physical = sample.physical_a THEN [sample EXCEPT !.at = "second"] ELSE Idle
    /\ UNCHANGED <<world, discovery, held, evidence, verdict>>

QuerySecond ==
    /\ sample.at = "second"
    /\ \/ /\ parse_projection(Answer(broker))
          /\ sample' = [sample EXCEPT !.at = "end", !.second = broker, !.second_at = unix_ns,
                                      !.version = version.broker]
       \/ Fail
    /\ UNCHANGED <<world, discovery, held, evidence, verdict>>

\* A mutant: the same broker is taken for the same projection.
same_instance(a, b) == a.instance = b.instance

same_projection(a, b) == a = b

SameFingerprint(print) == discovery.last = print

Observed(s) ==
    /\ unix_ns >= s.wall_start /\ ~Aged(s.start)
    /\ s.first_at >= s.wall_start /\ s.second_at <= unix_ns /\ s.first_at <= s.second_at
    /\ same_projection(s.first, s.second)

\* Unknown capacity is no capacity.
Budget(rows, a, b) ==
    LET left == IF Limit > Committed(rows) THEN Limit - Committed(rows) ELSE 0
    IN IF None \in {a, b} THEN 0 ELSE Min({a, b, left})

Taken(s, generation, budget) ==
    LET print == Fingerprint(s.second, s.physical_a)
    IN [print |-> print, generation |-> generation, captured |-> s.start, observed |-> unix_ns,
        source_observed |-> s.second_at, budget |-> budget, pools |-> Pools(s.second.rows, budget),
        version |-> s.version,
        whole |-> \E x \in s.seen : Fingerprint(x[1], x[2]) = print]

\* A mutant: a guard looks at nothing but its resource.
GuardResource(previous, current, o) ==
    o \in DOMAIN current.print.rows /\ Usable(current.print.rows[o])

\* guard, after its snapshot.
GuardHolds(previous, current, o) ==
    /\ previous.print = current.print /\ previous.generation = current.generation
    /\ Usable(current.print.rows[o])
    /\ ~Aged(previous.captured)

\* The generation moves even when the guard then refuses.
EndSnapshot(a, b) ==
    /\ sample.at = "end"
    /\ sample' = Idle
    /\ IF ~Observed(sample) THEN UNCHANGED <<discovery, held, verdict>>
       ELSE \E print \in {Fingerprint(sample.second, sample.physical_a)} :
            \E generation \in {IF SameFingerprint(print) THEN discovery.generation
                               ELSE discovery.generation + 1} :
            \E current \in {Taken(sample, generation, Budget(sample.second.rows, a, b))} :
            LET s == sample.session IN
            /\ discovery' = [discovery EXCEPT !.last = print, !.generation = generation]
            /\ IF sample.guarded = None
               THEN held' = [held EXCEPT ![s] = current] /\ UNCHANGED verdict
               ELSE IF GuardHolds(held[s], current, sample.guarded)
               THEN /\ verdict' = [kind |-> "guard", previous |-> held[s], current |-> current]
                    /\ UNCHANGED held
               ELSE UNCHANGED <<held, verdict>>
    /\ UNCHANGED <<world, evidence>>

-----------------------------------------------------------------------------
\* Capability evidence: a route that somebody measured under a snapshot.
Measure(s, route, expires) ==
    /\ held[s] # None /\ evidence = None /\ route \in Routes(held[s].print.rows)
    /\ evidence' = [under |-> held[s].print, generation |-> held[s].generation, route |-> route,
                    instance |-> held[s].print.instance, epoch |-> held[s].print.epoch,
                    expires |-> expires]
    /\ UNCHANGED <<world, discovery, sample, held, verdict>>

\* A mutant: evidence is scoped by its route alone.
EvidenceOnRoute(snapshot, e) ==
    e.route \in Routes(snapshot.print.rows) /\ e.expires > unix_ns

\* The source of the route carries the broker instance in its identity.
EvidenceFits(snapshot, e) ==
    /\ e.epoch = snapshot.print.epoch /\ e.generation = snapshot.generation
    /\ e.expires > unix_ns /\ ~Aged(snapshot.captured)
    /\ e.instance = snapshot.print.instance /\ e.route \in Routes(snapshot.print.rows)
    /\ Usable(snapshot.print.rows[e.route[1]])

\* verify_capability_evidence, with a verifier that believes the proof.
VerifyEvidence(s) ==
    /\ held[s] # None /\ evidence # None /\ EvidenceFits(held[s], evidence)
    /\ verdict' = [kind |-> "evidence", evidence |-> evidence, snapshot |-> held[s]]
    /\ UNCHANGED <<world, discovery, sample, held, evidence>>

Next ==
    \/ \E o \in Object : Register(o) \/ Publish(o) \/ Retire(o) \/ Reclaim(o)
    \/ \E w \in Owner : OwnerExits(w)
    \/ Restart
    \/ \E p \in Inventory : InventoryChanges(p)
    \/ Tick
    \/ \E skew \in Skew : SetClock(skew)
    \/ \E s \in Session, o \in Object \cup {None} : Begin(s, o)
    \/ QueryFirst \/ ReadPhysicalA \/ ReadPhysicalB \/ QuerySecond
    \/ \E a, b \in observe_available : EndSnapshot(a, b)
    \/ \E s \in Session, route \in Object \X Owner, expires \in Expiry : Measure(s, route, expires)
    \/ \E s \in Session : VerifyEvidence(s)

Spec == Init /\ [][Next]_vars

-----------------------------------------------------------------------------
Snapshots == {held[s] : s \in Session} \ {None}

\* Every variable has its type.
TypeOK ==
    /\ physical \in Inventory /\ version.broker + version.inventory \in 0..Changes /\ time.mono \in 0..MaxTime
    /\ discovery.generation \in Nat
    /\ \A s \in Snapshots : s.print.physical \in Inventory /\ s.budget \in 0..Limit

\* No torn snapshot: the rows and the inventory of a snapshot were true together at one
\* moment while it was taken.
NotTorn == \A s \in Snapshots : s.whole

\* A guard that passes saw the very broker state of the earlier snapshot again, with no
\* restart and no change in between, and the snapshot was young enough.
GuardSeesNoChange ==
    verdict.kind = "guard" =>
        /\ verdict.previous.version = verdict.current.version
        /\ verdict.current.captured - verdict.previous.captured <= MaxAge

\* Accepted evidence was measured under the broker state and the inventory of the
\* snapshot whose route it upgrades.
EvidenceIsOfThisState ==
    verdict.kind = "evidence" => verdict.evidence.under = verdict.snapshot.print

\* The advisory slices of the active pools share out the whole budget, evenly up to one
\* byte, and what is retained and shared out stays within the limit.
SlicesShareBudget ==
    \A s \in Snapshots :
        LET slice == [w \in DOMAIN s.pools |-> s.pools[w].advisory_additional_bytes]
            active == {w \in DOMAIN s.pools :
                         \E o \in DOMAIN s.print.rows : OwnerOf[o] = w /\ Usable(s.print.rows[o])}
        IN /\ SumFunctionOnSet(slice, DOMAIN slice) = IF active = {} THEN 0 ELSE s.budget
           /\ \A v, w \in active : slice[v] <= slice[w] + 1
           /\ s.budget > 0 => Committed(s.print.rows) + s.budget <= Limit
=============================================================================
