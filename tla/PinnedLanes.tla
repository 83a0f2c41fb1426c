---------------------------- MODULE PinnedLanes ----------------------------
(***************************************************************************)
(* The pinned-lane manager of transfer_channel.rs: worker threads borrow a *)
(* lane (a stream, its events and its pinned chunks) for one transfer.     *)
(* One mutex guards the lane table; a thread that can neither reuse nor    *)
(* create a lane sleeps on the condition variable, and `release` wakes     *)
(* every sleeper.  The mutex is held across the iterations of the acquire  *)
(* loop, so each iteration is one step of the thread that owns the mutex.  *)
(*                                                                         *)
(* Lane ids are slots of a finite set: an id is reused only after its lane *)
(* was reaped.  Where the code takes the first lane of the table that      *)
(* qualifies, the model takes any.                                         *)
(***************************************************************************)
EXTENDS Naturals, FiniteSets, FiniteSetsExt

CONSTANTS
    Worker,        \* threads that call with_lane
    Lane,          \* lane slots (bounds the number of live lanes)
    Direction,     \* TransferDirection
    Hint,          \* values of bytes_hint
    ChunkBytesFor, \* chunk_bytes_for(direction)
    ChunkCount,    \* chunk_count()
    MaxLanesFor,   \* max_lanes_for(direction), 0 = unlimited
    MaxPinned,     \* max_pinned_bytes(), 0 = unlimited
    TtlEnabled,    \* idle_ttl() is Some
    None           \* no worker, no lane, no request

ASSUME ConfigAssumption ==
    /\ ChunkCount \in Nat \ {0}
    /\ MaxPinned \in Nat
    /\ ChunkBytesFor \in [Direction -> Nat \ {0}]
    /\ MaxLanesFor \in [Direction -> Nat]
    /\ Hint \subseteq Nat
    /\ TtlEnabled \in BOOLEAN
    /\ None \notin Worker /\ None \notin [dir : Direction, chunk : Nat]

ASSUME FiniteAssumption == IsFiniteSet(Lane)

VARIABLES
    pc,       \* where each worker is in with_lane
    request,  \* direction and chunk size each worker asked for
    lanes,    \* ManagerState.lanes: direction and chunk size of each slot
    user,     \* the worker using each lane, None when it is idle
    mutex     \* the worker that holds the state mutex, or None

vars == <<pc, request, lanes, user, mutex>>

LeastOf(a, b) == IF a < b THEN a ELSE b
GreatestOf(a, b) == IF a > b THEN a ELSE b

Shape == [dir : Direction, chunk : Nat \ {0}]

\* chunk_bytes of a lane for a transfer of `hint` bytes
ChunkBytes(d, hint) ==
    GreatestOf(LeastOf(ChunkBytesFor[d], GreatestOf(hint, 1)), 1)

Live == {l \in Lane : lanes[l] # None}
Idle == {l \in Live : user[l] = None}

footprint_bytes(l) == lanes[l].chunk * ChunkCount
pinned_total_bytes(live) == MapThenSumSet(footprint_bytes, live)
LanesOf(d, live) == {l \in live : lanes[l].dir = d}

\* The lane table that keeps only the lanes in `live`.
Only(live) == [l \in Lane |-> IF l \in live THEN lanes[l] ELSE None]

\* The lanes reap_expired_lanes removes: time is not modelled, so any idle
\* lanes may have passed the TTL.
ExpiredChoices == IF TtlEnabled THEN SUBSET Idle ELSE {{}}

\* An idle lane that fits the request as it is.
Reusable(w, l) == l \in Idle /\ lanes[l] = request[w]

AtLaneLimit(d, live) ==
    MaxLanesFor[d] > 0 /\ Cardinality(LanesOf(d, live)) >= MaxLanesFor[d]

Required(w) == request[w].chunk * ChunkCount

\* A mutant: the new lane is not counted.
FitsBudgetBeforeNewLane(w, live) ==
    MaxPinned = 0 \/ pinned_total_bytes(live) <= MaxPinned

FitsBudget(w, live) ==
    MaxPinned = 0 \/ pinned_total_bytes(live) + Required(w) <= MaxPinned

-----------------------------------------------------------------------------
Init ==
    /\ pc = [w \in Worker |-> "idle"]
    /\ request = [w \in Worker |-> None]
    /\ lanes = [l \in Lane |-> None]
    /\ user = [l \in Lane |-> None]
    /\ mutex = None

Unlock(w, next) ==
    /\ mutex' = None
    /\ pc' = [pc EXCEPT ![w] = next]

GiveUp(w) ==
    /\ Unlock(w, "idle")
    /\ request' = [request EXCEPT ![w] = None]

\* with_lane: the thread enters acquire and takes the mutex.
Start(w) ==
    /\ pc[w] = "idle" /\ mutex = None
    /\ \E d \in Direction, hint \in Hint :
          request' = [request EXCEPT ![w] = [dir |-> d, chunk |-> ChunkBytes(d, hint)]]
    /\ pc' = [pc EXCEPT ![w] = "acquiring"]
    /\ mutex' = w
    /\ UNCHANGED <<lanes, user>>

\* A woken thread retakes the mutex inside cv.wait and loops.
Resume(w) ==
    /\ pc[w] = "woken" /\ mutex = None
    /\ pc' = [pc EXCEPT ![w] = "acquiring"]
    /\ mutex' = w
    /\ UNCHANGED <<request, lanes, user>>

\* A mutant: busy lanes are reused too.
TakeAnyLane(w) ==
    /\ mutex = w
    /\ \E l \in Live :
          /\ lanes[l] = request[w]
          /\ user' = [user EXCEPT ![l] = w]
    /\ Unlock(w, "using")
    /\ UNCHANGED <<request, lanes>>

\* acquire reuses an idle lane of the same direction and chunk size.
TakeIdle(w) ==
    /\ mutex = w
    /\ \E l \in Live :
          /\ Reusable(w, l)
          /\ user' = [user EXCEPT ![l] = w]
    /\ Unlock(w, "using")
    /\ UNCHANGED <<request, lanes>>

\* The rest of an iteration: no lane can be reused, expired lanes are gone.
NoReusable(w) == mutex = w /\ \A l \in Live : ~Reusable(w, l)

ReapForDirection(w) ==
    /\ NoReusable(w)
    /\ \E expired \in ExpiredChoices :
         LET live == Live \ expired IN
         /\ AtLaneLimit(request[w].dir, live)
         /\ \E l \in live \cap Idle :
              /\ lanes[l].dir = request[w].dir
              /\ lanes' = Only(live \ {l})
    /\ UNCHANGED <<pc, request, user, mutex>>

WaitForDirection(w) ==
    /\ NoReusable(w)
    /\ \E expired \in ExpiredChoices :
         LET live == Live \ expired IN
         /\ AtLaneLimit(request[w].dir, live)
         /\ \A l \in live \cap Idle : lanes[l].dir # request[w].dir
         /\ lanes' = Only(live)
    /\ Unlock(w, "waiting")
    /\ UNCHANGED <<request, user>>

\* Creates a lane; a failed create_stream, malloc_pinned_host or create_event
\* drops what was allocated and returns the error to the caller.
Create(w) ==
    /\ NoReusable(w)
    /\ \E expired \in ExpiredChoices :
         LET live == Live \ expired IN
         /\ ~AtLaneLimit(request[w].dir, live)
         /\ FitsBudget(w, live)
         /\ \/ \E l \in Lane \ live :
                 /\ lanes' = [Only(live) EXCEPT ![l] = request[w]]
                 /\ user' = [user EXCEPT ![l] = w]
                 /\ Unlock(w, "using")
                 /\ UNCHANGED request
            \/ /\ lanes' = Only(live)
               /\ GiveUp(w)
               /\ UNCHANGED user

\* The request is larger than the whole budget: an error, never a wait.
Refuse(w) ==
    /\ NoReusable(w)
    /\ \E expired \in ExpiredChoices :
         LET live == Live \ expired IN
         /\ ~AtLaneLimit(request[w].dir, live)
         /\ ~FitsBudget(w, live)
         /\ Required(w) > MaxPinned
         /\ lanes' = Only(live)
    /\ GiveUp(w)
    /\ UNCHANGED user

ReapForBudget(w) ==
    /\ NoReusable(w)
    /\ \E expired \in ExpiredChoices :
         LET live == Live \ expired IN
         /\ ~AtLaneLimit(request[w].dir, live)
         /\ ~FitsBudget(w, live)
         /\ Required(w) <= MaxPinned
         /\ \E l \in live \cap Idle : lanes' = Only(live \ {l})
    /\ UNCHANGED <<pc, request, user, mutex>>

WaitForBudget(w) ==
    /\ NoReusable(w)
    /\ \E expired \in ExpiredChoices :
         LET live == Live \ expired IN
         /\ ~AtLaneLimit(request[w].dir, live)
         /\ ~FitsBudget(w, live)
         /\ Required(w) <= MaxPinned
         /\ live \cap Idle = {}
         /\ lanes' = Only(live)
    /\ Unlock(w, "waiting")
    /\ UNCHANGED <<request, user>>

\* A mutant: release does not notify.
WakeNobody(w) == pc' = [pc EXCEPT ![w] = "idle"]

WakeEveryone(w) ==
    pc' = [v \in Worker |-> IF v = w THEN "idle"
                            ELSE IF pc[v] = "waiting" THEN "woken" ELSE pc[v]]

\* release: the lane becomes idle and every sleeper is notified, whether the
\* transfer succeeded or failed.
Release(w) ==
    /\ pc[w] = "using" /\ mutex = None
    /\ user' = [l \in Lane |-> IF user[l] = w THEN None ELSE user[l]]
    /\ WakeEveryone(w)
    /\ request' = [request EXCEPT ![w] = None]
    /\ UNCHANGED <<lanes, mutex>>

\* stats() also drops the expired lanes.
Stats ==
    /\ mutex = None
    /\ \E expired \in ExpiredChoices : lanes' = Only(Live \ expired)
    /\ UNCHANGED <<pc, request, user, mutex>>

\* A condition variable may wake a sleeper without a notification.
SpuriousWakeup(w) ==
    /\ pc[w] = "waiting"
    /\ pc' = [pc EXCEPT ![w] = "woken"]
    /\ UNCHANGED <<request, lanes, user, mutex>>

Acquire(w) ==
    \/ TakeIdle(w)
    \/ ReapForDirection(w) \/ WaitForDirection(w)
    \/ Create(w) \/ Refuse(w)
    \/ ReapForBudget(w) \/ WaitForBudget(w)

Next ==
    \/ \E w \in Worker :
          \/ Start(w) \/ Resume(w) \/ Acquire(w)
          \/ Release(w) \/ SpuriousWakeup(w)
    \/ Stats

\* A thread that holds the mutex keeps running, and a transfer ends.
Fairness == \A w \in Worker : WF_vars(Acquire(w)) /\ SF_vars(Release(w))

Spec == Init /\ [][Next]_vars /\ Fairness

-----------------------------------------------------------------------------
\* Every variable has the shape the code gives it.
TypeOK ==
    /\ pc \in [Worker -> {"idle", "acquiring", "waiting", "woken", "using"}]
    /\ request \in [Worker -> Shape \cup {None}]
    /\ lanes \in [Lane -> Shape \cup {None}]
    /\ user \in [Lane -> Worker \cup {None}]
    /\ mutex \in Worker \cup {None}

\* The pinned memory of all lanes stays within UF_PINNED_MAX_BYTES, whatever
\* sizes the concurrent transfers asked for.
BudgetRespected == MaxPinned = 0 \/ pinned_total_bytes(Live) <= MaxPinned

\* UF_H2D_MAX_LANES and UF_D2H_MAX_LANES bound the lanes of a direction.
LaneLimitRespected ==
    \A d \in Direction :
        MaxLanesFor[d] = 0 \/ Cardinality(LanesOf(d, Live)) <= MaxLanesFor[d]

\* A thread inside a transfer owns a live lane of the direction and chunk size
\* it asked for, no two share one, and a busy lane has a thread in a transfer:
\* reaping never takes a lane away from its user.
LaneExclusive ==
    /\ \A w \in Worker : pc[w] = "using" =>
          \E l \in Live : user[l] = w /\ lanes[l] = request[w]
    /\ \A k, l \in Live : user[k] = user[l] /\ user[k] # None => k = l
    /\ \A l \in Live : user[l] # None => pc[user[l]] = "using"

\* A sleeping thread has nothing it could use: no idle lane of its direction,
\* and somebody is inside a transfer and will release a lane and notify.
NoLostWakeup ==
    \A w \in Worker : pc[w] = "waiting" =>
        /\ \A l \in Idle : lanes[l].dir # request[w].dir
        /\ \E v \in Worker : pc[v] = "using"

\* A sleeper is eventually notified (it may then lose the race and sleep
\* again: the condition variable gives no order).
WaiterWoken == \A w \in Worker : pc[w] = "waiting" ~> pc[w] # "waiting"
=============================================================================
