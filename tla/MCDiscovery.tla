---------------------------- MODULE MCDiscovery ----------------------------
\* Instances of Discovery: object o belongs to owner o and has o bytes.
EXTENDS Discovery

CONSTANTS s1, s2, i1, i2

MCOwnerOf == [o \in Object |-> o]
MCBytes == [o \in Object |-> o]

\* What the scopes bound: changes and snapshots, the objects there are, whether clocks
\* move, and whether memory is observed.
Bounds(changes, samples, objects) ==
    /\ version.broker + version.inventory <= changes /\ discovery.begun <= samples
    /\ DOMAIN broker.rows \subseteq objects
OneSession == held[s2] = None /\ (sample.at # "idle" => sample.session = s1) /\ evidence = None
ClocksStand ==
    /\ time = [mono |-> 0, skew |-> 1]
    /\ \A x \in Snapshots : x.observed = 1
    /\ sample.at # "idle" => sample.wall_start = 1
NoMemory ==
    /\ \A x \in Snapshots : x.budget = 0
    /\ verdict.kind = "guard" => verdict.current.budget = 0

\* A session and its guard while clocks move; two sessions and evidence; or three
\* pools that share the memory.
Guarding == Bounds(1, 2, {1, 2}) /\ OneSession /\ NoMemory
Sharing == Bounds(2, 3, {1}) /\ ClocksStand /\ NoMemory
Budgeting ==
    /\ Bounds(4, 1, {1, 2, 3}) /\ OneSession /\ ClocksStand
    /\ physical = i1 /\ version.inventory = 0

InScope == Guarding' \/ Sharing' \/ Budgeting'
=============================================================================
