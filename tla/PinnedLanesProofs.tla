------------------------- MODULE PinnedLanesProofs -------------------------
(***************************************************************************)
(* Proofs about the pinned-lane manager for any number of threads, lanes,  *)
(* directions and chunk sizes, and any limits.                             *)
(***************************************************************************)
EXTENDS PinnedLanes, FiniteSetTheorems, WellFoundedInduction, TLAPS

\* No lane pins no memory: the base case of pinned_total_bytes.
LEMMA EmptySum == pinned_total_bytes({}) = 0
  <1>. DEFINE Def(g) == g = [s \in SUBSET {} |-> IF s = {} THEN 0
                 ELSE LET x == CHOOSE x \in s : TRUE IN footprint_bytes(x) + g[s \ {x}]]
              iter == CHOOSE g : Def(g)
  <1>1. Def([s \in SUBSET {} |-> 0])
    OBVIOUS
  <1>2. Def(iter)
    BY <1>1, Zenon
  <1>3. iter[{}] = 0
    BY <1>2, Zenon
  <1>. QED
    BY <1>3, Zenon DEF pinned_total_bytes, MapThenSumSet, MapThenFoldSet

-----------------------------------------------------------------------------
\* What makes the properties inductive: the mutex holder is the thread in
\* acquire, a thread under way has a request, only a live lane is in use.
LaneInv ==
    /\ TypeOK
    /\ \A w \in Worker : pc[w] = "acquiring" <=> mutex = w
    /\ \A w \in Worker : pc[w] # "idle" => request[w] \in Shape
    /\ \A l \in Lane : user[l] # None => lanes[l] # None
    /\ LaneExclusive
    /\ NoLostWakeup

\* A chunk size is positive whatever the hint.
LEMMA ChunkPositive ==
  ASSUME NEW d \in Direction, NEW hint \in Hint
  PROVE  ChunkBytes(d, hint) \in Nat \ {0}
  BY ConfigAssumption DEF ChunkBytes, LeastOf, GreatestOf

\* Reaching a positive lane limit means there is a lane of the direction.
LEMMA LimitHasLane ==
  ASSUME NEW d \in Direction, NEW live \in SUBSET Lane, AtLaneLimit(d, live)
  PROVE  \E l \in live : lanes[l].dir = d
  <1>1. IsFiniteSet(LanesOf(d, live))
    BY FiniteAssumption, FS_Subset, Zenon DEF LanesOf
  <1>2. LanesOf(d, live) # {}
    BY <1>1, FS_EmptySet, ConfigAssumption DEF AtLaneLimit
  <1>. QED
    BY <1>2, Zenon DEF LanesOf

\* The empty manager satisfies the invariant.
LEMMA InitLaneInv == Init => LaneInv
  BY ConfigAssumption, Zenon DEF Init, LaneInv, TypeOK, LaneExclusive, NoLostWakeup, Live, Idle, Shape

\* Reaping lanes that nobody uses disturbs nothing: the lane table keeps the
\* lanes in `live`, which contain every busy lane.
LEMMA ReapKeepsInv ==
  ASSUME LaneInv, NEW live \in SUBSET Live, Live \ live \subseteq Idle,
         lanes' = Only(live), UNCHANGED <<pc, request, user, mutex>>
  PROVE  LaneInv'
  <1>. USE ConfigAssumption DEF LaneInv, Live, Idle, Only
  <1>1. TypeOK'
    BY Zenon DEF TypeOK, Shape
  <1>2. \A l \in Lane : user'[l] # None => lanes'[l] = lanes[l]
    BY Zenon DEF TypeOK
  <1>3. LaneExclusive'
    BY <1>2 DEF LaneExclusive, TypeOK
  <1>4. NoLostWakeup'
    BY Zenon DEF NoLostWakeup, TypeOK
  <1>. QED
    BY <1>1, <1>2, <1>3, <1>4, Zenon

\* What a thread that gives up the mutex leaves behind: `live` contains every
\* busy lane, and if it goes to sleep, somebody else will notify it.
LEMMA LeaveKeepsInv ==
  ASSUME LaneInv, NEW w \in Worker, mutex = w,
         NEW live \in SUBSET Live, Live \ live \subseteq Idle,
         lanes' = Only(live), user' = user,
         NEW next \in {"idle", "waiting"}, Unlock(w, next),
         \/ next = "idle" /\ request' = [request EXCEPT ![w] = None]
         \/ /\ next = "waiting" /\ request' = request
            /\ \A l \in live \cap Idle : lanes[l].dir # request[w].dir
            /\ \E l \in live : user[l] # None
  PROVE  LaneInv'
  <1>. USE ConfigAssumption DEF LaneInv, Live, Idle, Only, Unlock
  <1>1. TypeOK'
    BY Zenon DEF TypeOK, Shape
  <1>2. \A l \in Lane : user'[l] # None => lanes'[l] = lanes[l]
    BY Zenon DEF TypeOK
  <1>3. /\ \A v \in Worker : pc'[v] = "acquiring" <=> mutex' = v
        /\ \A v \in Worker : pc'[v] # "idle" => request'[v] \in Shape
    BY Zenon DEF TypeOK
  <1>4. LaneExclusive'
    <2>1. \A v \in Worker : pc'[v] = "using" => pc[v] = "using" /\ request'[v] = request[v]
      BY Zenon DEF TypeOK
    <2>2. \A v \in Worker : pc[v] = "using" => pc'[v] = "using"
      BY Zenon DEF TypeOK
    <2>3. Live' \subseteq Live
      BY Zenon DEF TypeOK
    <2>4. \A v \in Worker : pc'[v] = "using" =>
            \E l \in Live' : user'[l] = v /\ lanes'[l] = request'[v]
      <3>. SUFFICES ASSUME NEW v \in Worker, pc'[v] = "using"
                   PROVE  \E l \in Live' : user'[l] = v /\ lanes'[l] = request'[v]
        BY Zenon
      <3>1. PICK l \in Live : user[l] = v /\ lanes[l] = request[v]
        BY <2>1, Zenon DEF LaneExclusive
      <3>. QED
        BY <3>1, <2>1, <1>2, Zenon
    <2>5. /\ \A k, l \in Live' : user'[k] = user'[l] /\ user'[k] # None => k = l
          /\ \A l \in Live' : user'[l] # None => pc'[user'[l]] = "using"
      BY <2>2, <2>3 DEF LaneExclusive, TypeOK
    <2>. QED
      BY <2>4, <2>5, Zenon DEF LaneExclusive
  <1>5. NoLostWakeup'
    BY DEF NoLostWakeup, LaneExclusive, TypeOK
  <1>. QED
    BY <1>1, <1>2, <1>3, <1>4, <1>5, Zenon

\* A thread that leaves acquire with a lane: the lane was idle or not there.
LEMMA TakeKeepsInv ==
  ASSUME LaneInv, NEW w \in Worker, mutex = w,
         NEW live \in SUBSET Live, Live \ live \subseteq Idle,
         NEW l \in Lane, l \notin live \/ l \in Idle,
         lanes' = [Only(live) EXCEPT ![l] = request[w]],
         user' = [user EXCEPT ![l] = w],
         Unlock(w, "using"), request' = request
  PROVE  LaneInv'
  <1>. USE ConfigAssumption DEF LaneInv, Live, Idle, Only, Unlock
  <1>1. TypeOK'
    BY Zenon DEF TypeOK, Shape
  <1>2. \A k \in Lane : user'[k] # None => lanes'[k] = IF k = l THEN request[w] ELSE lanes[k]
    BY Zenon DEF TypeOK
  <1>3. /\ \A v \in Worker : pc'[v] = "acquiring" <=> mutex' = v
        /\ \A v \in Worker : pc'[v] # "idle" => request'[v] \in Shape
        /\ \A k \in Lane : user'[k] # None => lanes'[k] # None
    BY <1>2, None \notin Shape, ZenonT(60) DEF TypeOK, Shape
  <1>4. \A k \in Lane : user[k] # w
    BY DEF LaneExclusive, TypeOK
  <1>5. LaneExclusive'
    <2>1. \A v \in Worker : pc'[v] = "using" =>
            \E k \in Live' : user'[k] = v /\ lanes'[k] = request'[v]
      <3>. SUFFICES ASSUME NEW v \in Worker, pc'[v] = "using"
                   PROVE  \E k \in Live' : user'[k] = v /\ lanes'[k] = request'[v]
        BY Zenon
      <3>1. CASE v = w
        BY <3>1, <1>2, <1>3, Zenon DEF TypeOK
      <3>2. CASE v # w
        <4>1. PICK k \in Live : user[k] = v /\ lanes[k] = request[v]
          BY <3>2 DEF TypeOK, LaneExclusive
        <4>2. k # l
          BY <4>1, Zenon DEF TypeOK
        <4>. QED
          BY <4>1, <4>2, <1>2, <1>3 DEF TypeOK
      <3>. QED
        BY <3>1, <3>2, Zenon
    <2>2. \A j, k \in Live' : user'[j] = user'[k] /\ user'[j] # None => j = k
      BY <1>4 DEF LaneExclusive, TypeOK
    <2>3. \A k \in Live' : user'[k] # None => pc'[user'[k]] = "using"
      BY DEF LaneExclusive, TypeOK
    <2>. QED
      BY <2>1, <2>2, <2>3, Zenon DEF LaneExclusive
  <1>6. NoLostWakeup'
    BY Zenon DEF NoLostWakeup, TypeOK
  <1>. QED
    BY <1>1, <1>3, <1>5, <1>6, Zenon

\* Every step of acquire, one case per way out of an iteration.
LEMMA AcquireKeepsInv ==
  ASSUME LaneInv, NEW w \in Worker, Acquire(w)
  PROVE  LaneInv'
  <1>. DEFINE Rest(e) == Live \ e
  <1>1. \A e \in ExpiredChoices : Rest(e) \in SUBSET Live /\ Live \ Rest(e) \subseteq Idle
    BY Zenon DEF ExpiredChoices, Idle
  <1>2. mutex = w /\ request[w] \in Shape
    BY Zenon DEF Acquire, TakeIdle, ReapForDirection, WaitForDirection, Create, Refuse,
           ReapForBudget, WaitForBudget, NoReusable, LaneInv, TypeOK
  <1>3. CASE TakeIdle(w)
    <2>1. PICK l \in Live : Reusable(w, l) /\ user' = [user EXCEPT ![l] = w]
      BY <1>3, Zenon DEF TakeIdle
    <2>2. lanes' = [Only(Live) EXCEPT ![l] = request[w]]
      BY <1>3, <2>1, <1>2, Zenon DEF TakeIdle, Reusable, Only, Live, LaneInv, TypeOK
    <2>. QED
      BY <1>2, <1>3, <2>1, <2>2, TakeKeepsInv, Zenon DEF TakeIdle, Reusable, Live
  <1>4. CASE ReapForDirection(w) \/ ReapForBudget(w)
    <2>1. PICK e \in ExpiredChoices : \E l \in Rest(e) \cap Idle : lanes' = Only(Rest(e) \ {l})
      BY <1>4, Zenon DEF ReapForDirection, ReapForBudget
    <2>2. PICK l \in Rest(e) \cap Idle : lanes' = Only(Rest(e) \ {l})
      BY <2>1, Zenon
    <2>3. Live \ (Rest(e) \ {l}) \subseteq Idle
      BY <1>1, <2>2, Zenon
    <2>. QED
      BY <1>4, <1>1, <2>3, <2>2, ReapKeepsInv, Zenon DEF ReapForDirection, ReapForBudget
  <1>5. CASE WaitForDirection(w)
    <2>1. PICK e \in ExpiredChoices :
            /\ AtLaneLimit(request[w].dir, Rest(e))
            /\ \A l \in Rest(e) \cap Idle : lanes[l].dir # request[w].dir
            /\ lanes' = Only(Rest(e))
      BY <1>5, Zenon DEF WaitForDirection
    <2>2. PICK l \in Rest(e) : lanes[l].dir = request[w].dir
      BY <1>2, <2>1, LimitHasLane, Zenon DEF Live, Shape
    <2>3. user[l] # None
      BY <2>1, <2>2, Zenon DEF Idle
    <2>. QED
      BY <1>1, <1>2, <1>5, <2>1, <2>2, <2>3, LeaveKeepsInv, Zenon DEF WaitForDirection
  <1>6. CASE Create(w)
    <2>1. PICK e \in ExpiredChoices :
            \/ \E l \in Lane \ Rest(e) :
                 /\ lanes' = [Only(Rest(e)) EXCEPT ![l] = request[w]]
                 /\ user' = [user EXCEPT ![l] = w]
                 /\ Unlock(w, "using")
                 /\ UNCHANGED request
            \/ lanes' = Only(Rest(e)) /\ GiveUp(w) /\ UNCHANGED user
      BY <1>6, Zenon DEF Create
    <2>. QED
      BY <1>1, <1>2, <2>1, TakeKeepsInv, LeaveKeepsInv, Zenon DEF GiveUp
  <1>7. CASE Refuse(w)
    BY <1>1, <1>2, <1>7, LeaveKeepsInv, Zenon DEF Refuse, GiveUp
  <1>8. CASE WaitForBudget(w)
    <2>1. PICK e \in ExpiredChoices :
            /\ ~FitsBudget(w, Rest(e)) /\ Required(w) <= MaxPinned
            /\ Rest(e) \cap Idle = {}
            /\ lanes' = Only(Rest(e))
      BY <1>8, Zenon DEF WaitForBudget
    <2>2. Required(w) \in Nat
      BY <1>2, ConfigAssumption DEF Required, Shape
    <2>3. Rest(e) # {}
      <3>. HIDE DEF Rest
      <3>. QED
        BY <2>1, <2>2, EmptySum DEF FitsBudget
    <2>4. PICK l \in Rest(e) : user[l] # None
      BY <2>1, <2>3, Zenon DEF Idle
    <2>. QED
      BY <1>1, <1>2, <1>8, <2>1, <2>4, LeaveKeepsInv, Zenon DEF WaitForBudget
  <1>. QED
    BY <1>3, <1>4, <1>5, <1>6, <1>7, <1>8, Zenon DEF Acquire

\* Every step of the manager keeps the invariant.
LEMMA NextLaneInv == LaneInv /\ [Next]_vars => LaneInv'
  <1>. SUFFICES ASSUME LaneInv, [Next]_vars PROVE LaneInv'
    OBVIOUS
  <1>1. ASSUME NEW w \in Worker, Start(w) PROVE LaneInv'
    <2>1. PICK d \in Direction, hint \in Hint :
            request' = [request EXCEPT ![w] = [dir |-> d, chunk |-> ChunkBytes(d, hint)]]
      BY <1>1, Zenon DEF Start
    <2>2. [dir |-> d, chunk |-> ChunkBytes(d, hint)] \in Shape
      BY ChunkPositive, Zenon DEF Shape
    <2>3. request' \in [Worker -> Shape \cup {None}] /\ request'[w] \in Shape
          /\ \A v \in Worker : v # w => request'[v] = request[v]
      BY <2>1, <2>2, Zenon DEF LaneInv, TypeOK
    <2>4. TypeOK'
      BY <1>1, <2>3, Zenon DEF Start, LaneInv, TypeOK
    <2>5. LaneExclusive'
      BY <1>1, <2>3 DEF Start, LaneInv, TypeOK, LaneExclusive, Live
    <2>6. NoLostWakeup'
      BY <1>1, <2>3 DEF Start, LaneInv, TypeOK, NoLostWakeup, Live, Idle
    <2>. QED
      BY <1>1, <2>3, <2>4, <2>5, <2>6, ConfigAssumption, Zenon DEF Start, LaneInv, TypeOK
  <1>2. ASSUME NEW w \in Worker, Resume(w) \/ SpuriousWakeup(w) PROVE LaneInv'
    BY <1>2, ConfigAssumption
       DEF Resume, SpuriousWakeup, LaneInv, TypeOK, LaneExclusive, NoLostWakeup, Live, Idle
  <1>3. ASSUME NEW w \in Worker, Acquire(w) PROVE LaneInv'
    BY <1>3, AcquireKeepsInv, Zenon
  <1>4. ASSUME NEW w \in Worker, Release(w) PROVE LaneInv'
    <2>1. TypeOK'
      BY <1>4, Zenon DEF Release, WakeEveryone, LaneInv, TypeOK
    <2>2. \A v \in Worker : pc'[v] # "waiting"
      BY <1>4, Zenon DEF Release, WakeEveryone, LaneInv, TypeOK
    <2>3. LaneExclusive'
      BY <1>4, ConfigAssumption DEF Release, WakeEveryone, LaneInv, TypeOK, LaneExclusive, Live
    <2>. QED
      BY <1>4, <2>1, <2>2, <2>3, ConfigAssumption
         DEF Release, WakeEveryone, LaneInv, TypeOK, NoLostWakeup
  <1>5. ASSUME Stats PROVE LaneInv'
    <2>1. PICK e \in ExpiredChoices : lanes' = Only(Live \ e)
      BY <1>5, Zenon DEF Stats
    <2>2. Live \ (Live \ e) \subseteq Idle
      BY Zenon DEF ExpiredChoices, Idle
    <2>. QED
      BY <1>5, <2>1, <2>2, ReapKeepsInv, Zenon DEF Stats
  <1>6. ASSUME UNCHANGED vars PROVE LaneInv'
    BY <1>6, ZenonT(60) DEF vars, LaneInv, TypeOK, LaneExclusive, NoLostWakeup, Live, Idle
  <1>. QED
    BY <1>1, <1>2, <1>3, <1>4, <1>5, <1>6, Zenon DEF Next

-----------------------------------------------------------------------------
\* Whatever the budget, the limits and the sizes: a thread in a transfer has a
\* live lane of its own of the shape it asked for, and no reap takes it away.
THEOREM LanesAreExclusive == Spec => []LaneExclusive
  <1>1. LaneInv => LaneExclusive
    BY Zenon DEF LaneInv
  <1>. QED
    BY <1>1, InitLaneInv, NextLaneInv, PTL DEF Spec

\* A sleeping thread never misses its wakeup: nothing it could take is idle,
\* and the notification it waits for is still to come.
THEOREM WakeupsAreNotLost == Spec => []NoLostWakeup
  <1>1. LaneInv => NoLostWakeup
    BY Zenon DEF LaneInv
  <1>. QED
    BY <1>1, InitLaneInv, NextLaneInv, PTL DEF Spec

\* Every variable keeps its type.
THEOREM TypeCorrect == Spec => []TypeOK
  <1>1. LaneInv => TypeOK
    BY Zenon DEF LaneInv
  <1>. QED
    BY <1>1, InitLaneInv, NextLaneInv, PTL DEF Spec

-----------------------------------------------------------------------------
\* Removing lanes keeps a limit that held.
LEMMA FewerLanes ==
  ASSUME TypeOK, LaneLimitRespected, NEW live \in SUBSET Live, lanes' = Only(live)
  PROVE  LaneLimitRespected'
  <1>. SUFFICES ASSUME NEW d \in Direction, MaxLanesFor[d] # 0
               PROVE  Cardinality(LanesOf(d, Live)') <= MaxLanesFor[d]
    BY Zenon DEF LaneLimitRespected
  <1>1. LanesOf(d, Live)' \subseteq LanesOf(d, Live)
    BY Zenon DEF LanesOf, Live, Only, TypeOK
  <1>2. IsFiniteSet(LanesOf(d, Live))
    BY FiniteAssumption, FS_Subset, Zenon DEF LanesOf, Live
  <1>3. /\ Cardinality(LanesOf(d, Live)') <= Cardinality(LanesOf(d, Live))
        /\ Cardinality(LanesOf(d, Live)') \in Nat
        /\ Cardinality(LanesOf(d, Live)) \in Nat
    BY <1>1, <1>2, FS_Subset, FS_CardinalityType, Zenon
  <1>. QED
    BY <1>3, ConfigAssumption DEF LaneLimitRespected

\* A new lane is made only below the limit of its direction.
LEMMA OneMoreLane ==
  ASSUME LaneInv, LaneLimitRespected, NEW w \in Worker, mutex = w,
         NEW live \in SUBSET Live, ~AtLaneLimit(request[w].dir, live),
         NEW l \in Lane \ live, lanes' = [Only(live) EXCEPT ![l] = request[w]]
  PROVE  LaneLimitRespected'
  <1>. SUFFICES ASSUME NEW d \in Direction, MaxLanesFor[d] # 0
               PROVE  Cardinality(LanesOf(d, Live)') <= MaxLanesFor[d]
    BY Zenon DEF LaneLimitRespected
  <1>1. request[w] \in Shape
    BY Zenon DEF LaneInv, TypeOK
  <1>2. Live' = live \cup {l}
    BY <1>1, ConfigAssumption, Zenon DEF LaneInv, TypeOK, Live, Only, Shape
  <1>3. IsFiniteSet(LanesOf(d, live)) /\ IsFiniteSet(LanesOf(d, Live))
    BY FiniteAssumption, FS_Subset, Zenon DEF LanesOf, Live
  <1>4. CASE request[w].dir = d
    <2>1. LanesOf(d, Live)' = LanesOf(d, live) \cup {l}
      BY <1>2, <1>4, Zenon DEF LanesOf, Only, LaneInv, TypeOK, Live
    <2>2. l \notin LanesOf(d, live)
      BY Zenon DEF LanesOf
    <2>3. Cardinality(LanesOf(d, Live)') = Cardinality(LanesOf(d, live)) + 1
      BY <1>3, <2>1, <2>2, FS_AddElement, Zenon
    <2>. QED
      BY <1>3, <1>4, <2>3, FS_CardinalityType, ConfigAssumption DEF AtLaneLimit
  <1>5. CASE request[w].dir # d
    <2>1. LanesOf(d, Live)' \subseteq LanesOf(d, Live)
      BY <1>2, <1>5, Zenon DEF LanesOf, Only, LaneInv, TypeOK, Live
    <2>2. /\ Cardinality(LanesOf(d, Live)') <= Cardinality(LanesOf(d, Live))
          /\ Cardinality(LanesOf(d, Live)') \in Nat
          /\ Cardinality(LanesOf(d, Live)) \in Nat
      BY <1>3, <2>1, FS_Subset, FS_CardinalityType, Zenon
    <2>. QED
      BY <2>2, ConfigAssumption DEF LaneLimitRespected
  <1>. QED
    BY <1>4, <1>5, Zenon

\* Without lanes every limit holds.
LEMMA InitLimit == Init => LaneLimitRespected
  <1>. SUFFICES ASSUME Init, NEW d \in Direction, MaxLanesFor[d] # 0
               PROVE  Cardinality(LanesOf(d, Live)) <= MaxLanesFor[d]
    BY Zenon DEF LaneLimitRespected
  <1>1. LanesOf(d, Live) = {}
    BY Zenon DEF Init, LanesOf, Live
  <1>. QED
    BY <1>1, FS_EmptySet, ConfigAssumption

\* Only Create adds a lane, and it checks the limit first.
LEMMA NextLimit == LaneInv /\ LaneLimitRespected /\ [Next]_vars => LaneLimitRespected'
  <1>. SUFFICES ASSUME LaneInv, LaneLimitRespected, [Next]_vars PROVE LaneLimitRespected'
    OBVIOUS
  <1>1. ASSUME NEW live \in SUBSET Live, lanes' = Only(live) PROVE LaneLimitRespected'
    BY <1>1, FewerLanes, Zenon DEF LaneInv
  <1>2. ASSUME UNCHANGED lanes PROVE LaneLimitRespected'
    BY <1>2, Zenon DEF LaneLimitRespected, LanesOf, Live
  <1>3. ASSUME NEW w \in Worker, Create(w) PROVE LaneLimitRespected'
    <2>1. PICK e \in ExpiredChoices :
            /\ ~AtLaneLimit(request[w].dir, Live \ e)
            /\ \/ \E l \in Lane \ (Live \ e) :
                    lanes' = [Only(Live \ e) EXCEPT ![l] = request[w]]
               \/ lanes' = Only(Live \ e)
      BY <1>3, Zenon DEF Create
    <2>. QED
      BY <1>1, <1>3, <2>1, OneMoreLane, Zenon DEF Create, NoReusable
  <1>4. ASSUME NEW w \in Worker, Acquire(w) PROVE LaneLimitRespected'
    <2>1. CASE TakeIdle(w)
      BY <1>2, <2>1, Zenon DEF TakeIdle
    <2>2. CASE \E live \in SUBSET Live : lanes' = Only(live)
      BY <1>1, <2>2, Zenon
    <2>. QED
      BY <1>3, <1>4, <2>1, <2>2, Zenon
         DEF Acquire, ReapForDirection, WaitForDirection, Refuse, ReapForBudget, WaitForBudget
  <1>5. CASE Stats
    BY <1>1, <1>5, Zenon DEF Stats
  <1>. QED
    BY <1>2, <1>4, <1>5, Zenon DEF Next, Start, Resume, Release, SpuriousWakeup, vars

\* The lanes of a direction never exceed its limit, for every configuration.
THEOREM LimitsHold == Spec => []LaneLimitRespected
  BY InitLaneInv, NextLaneInv, InitLimit, NextLimit, PTL DEF Spec

-----------------------------------------------------------------------------
\* The memory the lanes pin is a sum over a finite set.  The library folds the
\* set one chosen element at a time; that the choice does not matter, and that
\* the recursion defines something at all, is proved by induction over the size.

\* A set of naturals that is not empty has a least element.
LEMMA Least ==
  ASSUME NEW T \in SUBSET Nat, T # {}
  PROVE  \E n \in T : \A m \in T : ~(m < n)
  <1>1. \E x \in T : \A y \in T : ~ (<<y, x>> \in OpToRel(<, Nat))
    BY NatLessThanWellFounded, WFMin, Zenon
  <1>. QED
    BY <1>1, Zenon DEF OpToRel

\* A set with 0 that is closed under the successor has every natural number.
LEMMA SetInduction ==
  ASSUME NEW T, 0 \in T, \A n \in Nat : n \in T => n + 1 \in T
  PROVE  Nat \subseteq T
  <1>. DEFINE B == Nat \ T
  <1>. SUFFICES ASSUME B # {} PROVE FALSE
    OBVIOUS
  <1>1. PICK n \in B : \A m \in B : ~(m < n)
    BY Least, Zenon
  <1>2. n - 1 \in Nat /\ n - 1 \notin B
    BY <1>1
  <1>. QED
    BY <1>1, <1>2

First(s) == CHOOSE x \in s : TRUE

\* g[s] is the sum of f over s, for the subsets s of S of at most n elements.
SumsUpTo(f, S, n, g) ==
    /\ g \in [SUBSET S -> Nat]
    /\ g[{}] = 0
    /\ \A s \in SUBSET S : s # {} /\ Cardinality(s) <= n =>
          g[s] = f[First(s)] + g[s \ {First(s)}]

Recurs(f, S, g) ==
    /\ g[{}] = 0
    /\ \A s \in SUBSET S : s # {} => g[s] = f[First(s)] + g[s \ {First(s)}]

Sums(f, S, g) == f \in [S -> Nat] /\ g \in [SUBSET S -> Nat] /\ Recurs(f, S, g)

\* A subset of a finite set, without one of its elements.
LEMMA OneLess ==
  ASSUME NEW S, IsFiniteSet(S), NEW s \in SUBSET S, NEW x \in s
  PROVE  /\ IsFiniteSet(s) /\ Cardinality(s) \in Nat /\ Cardinality(s \ {x}) \in Nat
         /\ Cardinality(s \ {x}) + 1 = Cardinality(s)
         /\ s \ {x} \in SUBSET S /\ x \in S
  <1>1. IsFiniteSet(s)
    BY FS_Subset, Zenon
  <1>2. IsFiniteSet(s \ {x}) /\ Cardinality(s \ {x}) = Cardinality(s) - 1
    BY <1>1, FS_RemoveElement, Zenon
  <1>. QED
    BY <1>1, <1>2, FS_CardinalityType

\* The recursion that defines the sum has a solution.
LEMMA SumExists ==
  ASSUME NEW S, IsFiniteSet(S), NEW f \in [S -> Nat]
  PROVE  \E g : Sums(f, S, g)
  <1>. DEFINE T == {n \in Nat : \E g : SumsUpTo(f, S, n, g)}
  <1>1. 0 \in T
    <2>. DEFINE z == [s \in SUBSET S |-> 0]
    <2>1. \A s \in SUBSET S : s # {} => ~ (Cardinality(s) <= 0)
      <3>. SUFFICES ASSUME NEW s \in SUBSET S, s # {} PROVE ~ (Cardinality(s) <= 0)
        OBVIOUS
      <3>1. PICK x \in s : TRUE
        OBVIOUS
      <3>2. /\ Cardinality(s) \in Nat /\ Cardinality(s \ {x}) \in Nat
            /\ Cardinality(s \ {x}) + 1 = Cardinality(s)
        BY <3>1, OneLess, Zenon
      <3>. QED
        BY <3>2
    <2>2. SumsUpTo(f, S, 0, z)
      BY <2>1, Zenon DEF SumsUpTo
    <2>. QED
      BY <2>2, Zenon
  <1>2. ASSUME NEW n \in Nat, n \in T PROVE n + 1 \in T
    <2>1. PICK g : SumsUpTo(f, S, n, g)
      BY <1>2, Zenon
    <2>. DEFINE h == [s \in SUBSET S |-> IF s = {} THEN 0 ELSE
                        IF Cardinality(s) <= n THEN g[s] ELSE f[First(s)] + g[s \ {First(s)}]]
    <2>2. \A s \in SUBSET S : s # {} =>
            First(s) \in s /\ First(s) \in S /\ s \ {First(s)} \in SUBSET S
      BY Zenon DEF First
    <2>3. h \in [SUBSET S -> Nat]
      BY <2>1, <2>2 DEF SumsUpTo
    <2>4. h[{}] = 0
      OBVIOUS
    <2>5. ASSUME NEW s \in SUBSET S, s # {}, Cardinality(s) <= n + 1
          PROVE  h[s] = f[First(s)] + h[s \ {First(s)}]
      <3>. DEFINE r == s \ {First(s)}
      <3>1. /\ Cardinality(s) \in Nat /\ Cardinality(r) \in Nat
            /\ Cardinality(r) + 1 = Cardinality(s) /\ r \in SUBSET S
        <4>1. First(s) \in s
          BY <2>2, <2>5, Zenon
        <4>2. \A x \in s : /\ Cardinality(s) \in Nat /\ Cardinality(s \ {x}) \in Nat
                            /\ Cardinality(s \ {x}) + 1 = Cardinality(s)
                            /\ s \ {x} \in SUBSET S
          BY OneLess, Zenon
        <4>. QED
          BY <4>1, <4>2, Zenon
      <3>2. h[r] = g[r]
        <4>1. h[r] = IF r = {} THEN 0 ELSE
                        IF Cardinality(r) <= n THEN g[r] ELSE f[First(r)] + g[r \ {First(r)}]
          BY <3>1, Zenon
        <4>2. Cardinality(r) <= n
          BY <3>1, <2>5
        <4>. QED
          BY <4>1, <4>2, <2>1, Zenon DEF SumsUpTo
      <3>3. g[r] \in Nat
        BY <3>1, <2>1, Zenon DEF SumsUpTo
      <3>. QED
        BY <3>2, <2>1, <2>5, Zenon DEF SumsUpTo
    <2>. HIDE DEF h
    <2>6. SumsUpTo(f, S, n + 1, h)
      BY <2>3, <2>4, <2>5, Zenon DEF SumsUpTo
    <2>. QED
      BY <2>6
  <1>. HIDE DEF T
  <1>3. Cardinality(S) \in Nat /\ Nat \subseteq T
    BY <1>1, <1>2, SetInduction, FS_CardinalityType, Zenon
  <1>4. PICK g : SumsUpTo(f, S, Cardinality(S), g)
    BY <1>3, Zenon DEF T
  <1>5. \A s \in SUBSET S : Cardinality(s) <= Cardinality(S)
    BY FS_Subset, Zenon
  <1>6. Sums(f, S, g)
    BY <1>4, <1>5, Zenon DEF Sums, Recurs, SumsUpTo
  <1>. QED
    BY <1>6, Zenon

\* A property of the subsets of a finite set holds of all of them when it holds
\* of the subsets of each size: K is the set of subsets that have it.
LEMMA BySize ==
  ASSUME NEW S, IsFiniteSet(S), NEW K,
         {} \in K,
         \A s \in SUBSET S : s # {} /\ (\A x \in s : s \ {x} \in K) => s \in K
  PROVE  SUBSET S \subseteq K
  <1>. DEFINE T == {n \in Nat : \A s \in SUBSET S : Cardinality(s) = n => s \in K}
  <1>1. 0 \in T
    <2>1. \A s \in SUBSET S : Cardinality(s) = 0 => s = {}
      BY FS_EmptySet, FS_Subset, Zenon
    <2>. QED
      BY <2>1, Zenon
  <1>2. ASSUME NEW n \in Nat, n \in T PROVE n + 1 \in T
    <2>1. ASSUME NEW s \in SUBSET S, Cardinality(s) = n + 1 PROVE s \in K
      <3>1. \A x \in s : /\ Cardinality(s \ {x}) \in Nat
                         /\ Cardinality(s \ {x}) + 1 = Cardinality(s)
                         /\ s \ {x} \in SUBSET S
        BY OneLess, Zenon
      <3>2. \A x \in s : Cardinality(s \ {x}) = n
        BY <3>1, <2>1
      <3>3. \A x \in s : s \ {x} \in K
        BY <3>1, <3>2, <1>2, Zenon
      <3>. QED
        BY <3>3, Zenon
    <2>. QED
      BY <2>1
  <1>. HIDE DEF T
  <1>3. Nat \subseteq T
    BY <1>1, <1>2, SetInduction, Zenon
  <1>4. \A s \in SUBSET S : Cardinality(s) \in Nat
    BY FS_Subset, FS_CardinalityType, Zenon
  <1>. QED
    BY <1>3, <1>4, Zenon DEF T

\* Two sums of the same values over the same set are the same.
LEMMA SumAgree ==
  ASSUME NEW S, IsFiniteSet(S), NEW T, NEW f, NEW h, NEW g, NEW k,
         Recurs(f, S, g), Recurs(h, T, k),
         NEW u \in SUBSET S, u \in SUBSET T, \A x \in u : f[x] = h[x]
  PROVE  g[u] = k[u]
  <1>. DEFINE K == {s \in SUBSET u : g[s] = k[s]}
  <1>1. IsFiniteSet(u)
    BY FS_Subset, Zenon
  <1>2. {} \in K
    BY Zenon DEF Recurs
  <1>3. ASSUME NEW s \in SUBSET u, s # {}, \A x \in s : s \ {x} \in K PROVE s \in K
    <2>1. First(s) \in s
      BY <1>3, Zenon DEF First
    <2>2. g[s \ {First(s)}] = k[s \ {First(s)}] /\ f[First(s)] = h[First(s)]
      BY <1>3, <2>1, Zenon
    <2>3. /\ g[s] = f[First(s)] + g[s \ {First(s)}]
          /\ k[s] = h[First(s)] + k[s \ {First(s)}]
      BY <1>3, Zenon DEF Recurs
    <2>. QED
      BY <2>2, <2>3, Zenon
  <1>. HIDE DEF K
  <1>4. SUBSET u \subseteq K
    BY <1>1, <1>2, <1>3, BySize, Zenon
  <1>. QED
    BY <1>4, Zenon DEF K

\* One more element adds its value, in whatever order the fold takes them.
LEMMA SumAdd ==
  ASSUME NEW S, IsFiniteSet(S), NEW f, NEW g, Sums(f, S, g)
  PROVE  \A u \in SUBSET S, l \in S : l \notin u => g[u \cup {l}] = g[u] + f[l]
  <1>. DEFINE K == {s \in SUBSET S : \A y \in S : y \notin s => g[s \cup {y}] = g[s] + f[y]}
  <1>1. {} \in K
    <2>. SUFFICES ASSUME NEW y \in S PROVE g[{y}] = g[{}] + f[y]
      OBVIOUS
    <2>1. First({y}) = y /\ {y} \ {y} = {} /\ {y} # {}
      BY Zenon DEF First
    <2>2. g[{y}] = f[y] + g[{}]
      BY <2>1, Zenon DEF Sums, Recurs
    <2>. QED
      BY <2>2 DEF Sums, Recurs
  <1>2. ASSUME NEW s \in SUBSET S, s # {}, \A x \in s : s \ {x} \in K PROVE s \in K
    <2>. SUFFICES ASSUME NEW y \in S, y \notin s PROVE g[s \cup {y}] = g[s] + f[y]
      OBVIOUS
    <2>. DEFINE t == s \cup {y}
                x == First(t)
    <2>1. t \in SUBSET S /\ t # {} /\ x \in t
      BY Zenon DEF First
    <2>2. g[t] = f[x] + g[t \ {x}]
      BY <2>1, Zenon DEF Sums, Recurs
    <2>3. g[s] \in Nat /\ f[y] \in Nat
      BY Zenon DEF Sums
    <2>. HIDE DEF x
    <2>4. CASE x = y
      <3>1. t \ {x} = s
        BY <2>4, Zenon
      <3>2. g[t] = f[y] + g[s]
        BY <2>2, <2>4, <3>1, Zenon
      <3>. QED
        BY <2>3, <3>2
    <2>5. CASE x \in s
      <3>. DEFINE r == s \ {x}
      <3>1. /\ t \ {x} = r \cup {y} /\ s = r \cup {x}
            /\ x \notin r /\ y \notin r /\ x \in S /\ r \in SUBSET S
        BY <2>5, Zenon
      <3>2. r \in K
        BY <1>2, <2>5, Zenon
      <3>. HIDE DEF r
      <3>3. g[r \cup {y}] = g[r] + f[y] /\ g[r \cup {x}] = g[r] + f[x]
        BY <3>1, <3>2, Zenon
      <3>4. g[r] \in Nat /\ f[x] \in Nat
        BY <3>1, Zenon DEF Sums
      <3>5. g[t] = f[x] + (g[r] + f[y]) /\ g[s] = g[r] + f[x]
        BY <2>2, <3>1, <3>3, Zenon
      <3>. QED
        BY <2>3, <3>4, <3>5
    <2>. QED
      BY <2>1, <2>4, <2>5, Zenon
  <1>. HIDE DEF K
  <1>3. SUBSET S \subseteq K
    BY <1>1, <1>2, BySize, Zenon
  <1>. QED
    BY <1>3, Zenon DEF K

\* A part sums to no more than the whole.
LEMMA SumMono ==
  ASSUME NEW S, IsFiniteSet(S), NEW f, NEW g, Sums(f, S, g)
  PROVE  \A u \in SUBSET S : g[u] <= g[S]
  <1>. DEFINE K == {s \in SUBSET S : \A v \in SUBSET s : g[v] <= g[s]}
  <1>0. \A s \in SUBSET S, x \in S : x \notin s => g[s \cup {x}] = g[s] + f[x]
    BY SumAdd
  <1>1. {} \in K
    <2>1. g[{}] <= g[{}]
      BY DEF Sums, Recurs
    <2>2. \A v \in SUBSET {} : v = {}
      OBVIOUS
    <2>. QED
      BY <2>1, <2>2, Zenon
  <1>2. ASSUME NEW s \in SUBSET S, s # {}, \A x \in s : s \ {x} \in K PROVE s \in K
    <2>. SUFFICES ASSUME NEW v \in SUBSET s PROVE g[v] <= g[s]
      OBVIOUS
    <2>1. CASE v = s
      BY <2>1 DEF Sums
    <2>2. CASE v # s
      <3>1. PICK x \in s : x \notin v
        BY <2>2, Zenon
      <3>. DEFINE r == s \ {x}
      <3>2. /\ v \in SUBSET r /\ r \in SUBSET S /\ x \in S /\ x \notin r /\ s = r \cup {x}
        BY <3>1, Zenon
      <3>3. r \in K
        BY <1>2, Zenon
      <3>. HIDE DEF r
      <3>4. g[v] <= g[r] /\ g[v] \in Nat /\ g[r] \in Nat /\ f[x] \in Nat
        BY <3>2, <3>3, Zenon DEF Sums
      <3>5. g[s] = g[r] + f[x]
        <4>1. g[r \cup {x}] = g[r] + f[x]
          BY <3>2, <1>0, Zenon
        <4>. QED
          BY <4>1, <3>2, Zenon
      <3>. QED
        BY <3>4, <3>5
    <2>. QED
      BY <2>1, <2>2, Zenon
  <1>. HIDE DEF K
  <1>3. SUBSET S \subseteq K
    BY <1>1, <1>2, BySize, Zenon
  <1>. QED
    BY <1>3, Zenon DEF K

-----------------------------------------------------------------------------
\* pinned_total_bytes of the lane table t, and what each lane of it pins.
Pinned(t, live) == MapThenSumSet(LAMBDA l : t[l].chunk * ChunkCount, live)
Footprints(t, live) == [l \in live |-> t[l].chunk * ChunkCount]

\* pinned_total_bytes is the sum of the footprints of the lanes.
LEMMA PinnedIsSum ==
  ASSUME NEW live, IsFiniteSet(live), NEW t, \A l \in live : t[l].chunk \in Nat
  PROVE  \E g : Sums(Footprints(t, live), live, g) /\ Pinned(t, live) = g[live]
  <1>. DEFINE f == Footprints(t, live)
              Def(g) == g = [s \in SUBSET live |-> IF s = {} THEN 0
                 ELSE LET x == CHOOSE x \in s : TRUE IN t[x].chunk * ChunkCount + g[s \ {x}]]
              iter == CHOOSE g : Def(g)
  <1>1. f \in [live -> Nat]
    BY ConfigAssumption DEF Footprints
  <1>2. \A s \in SUBSET live : s # {} =>
          First(s) \in live /\ f[First(s)] = t[First(s)].chunk * ChunkCount
    BY Zenon DEF First, Footprints
  <1>. HIDE DEF f
  <1>3. PICK g : Sums(f, live, g)
    BY <1>1, SumExists, Zenon
  <1>4. Def(g)
    <2>. DEFINE e == [s \in SUBSET live |-> IF s = {} THEN 0
                 ELSE LET x == CHOOSE x \in s : TRUE IN t[x].chunk * ChunkCount + g[s \ {x}]]
    <2>1. \A s \in SUBSET live : g[s] = e[s]
      BY <1>2, <1>3, Zenon DEF Sums, Recurs, First
    <2>. QED
      BY <2>1, <1>3, Zenon DEF Sums
  <1>5. Def(iter)
    BY <1>4, Zenon
  <1>6. Recurs(f, live, iter)
    <2>1. iter[{}] = 0
      BY <1>5, Zenon
    <2>2. \A s \in SUBSET live : s # {} =>
            iter[s] = t[First(s)].chunk * ChunkCount + iter[s \ {First(s)}]
      BY <1>5, Zenon DEF First
    <2>. QED
      BY <2>1, <2>2, <1>2, Zenon DEF Recurs
  <1>7. g[live] = iter[live]
    BY <1>3, <1>6, SumAgree DEF Sums
  <1>8. Pinned(t, live) = iter[live]
    BY Zenon DEF Pinned, MapThenSumSet, MapThenFoldSet
  <1>. QED
    BY <1>3, <1>7, <1>8, Zenon DEF f

\* Dropping lanes pins no more than before.
LEMMA FewerPinned ==
  ASSUME NEW live, IsFiniteSet(live), NEW keep \in SUBSET live, NEW t, NEW u,
         \A l \in live : t[l].chunk \in Nat, \A l \in keep : u[l] = t[l]
  PROVE  Pinned(u, keep) \in Nat /\ Pinned(t, live) \in Nat /\ Pinned(u, keep) <= Pinned(t, live)
  <1>1. PICK g : Sums(Footprints(t, live), live, g) /\ Pinned(t, live) = g[live]
    BY PinnedIsSum, Zenon
  <1>2. IsFiniteSet(keep) /\ \A l \in keep : u[l].chunk \in Nat
    BY FS_Subset, Zenon
  <1>3. PICK k : Sums(Footprints(u, keep), keep, k) /\ Pinned(u, keep) = k[keep]
    BY <1>2, PinnedIsSum, Zenon
  <1>4. \A l \in keep : Footprints(t, live)[l] = Footprints(u, keep)[l]
    BY Zenon DEF Footprints
  <1>5. g[keep] = k[keep]
    BY <1>1, <1>3, <1>4, SumAgree DEF Sums
  <1>6. g[keep] <= g[live]
    BY <1>1, SumMono, Zenon
  <1>7. g[keep] \in Nat /\ g[live] \in Nat
    BY <1>1, Zenon DEF Sums
  <1>. QED
    BY <1>1, <1>3, <1>5, <1>6, <1>7, Zenon

\* The table u has the lanes `live` of t and the lane l besides.
OneMore(live, l, t, u) ==
    /\ IsFiniteSet(live) /\ l \notin live
    /\ \A k \in live : t[k].chunk \in Nat /\ u[k] = t[k]
    /\ u[l].chunk \in Nat

\* A new lane pins its footprint on top of the others.
LEMMA OneMorePinned ==
  ASSUME NEW live, NEW l, NEW t, NEW u, OneMore(live, l, t, u)
  PROVE  Pinned(u, live \cup {l}) = Pinned(t, live) + u[l].chunk * ChunkCount
  <1>. USE DEF OneMore
  <1>. DEFINE all == live \cup {l}
  <1>1. IsFiniteSet(all) /\ \A k \in all : u[k].chunk \in Nat
    BY FS_AddElement, Zenon
  <1>2. PICK g : Sums(Footprints(u, all), all, g) /\ Pinned(u, all) = g[all]
    BY <1>1, PinnedIsSum, Zenon
  <1>3. PICK k : Sums(Footprints(t, live), live, k) /\ Pinned(t, live) = k[live]
    BY PinnedIsSum, Zenon
  <1>4. \A x \in live : Footprints(u, all)[x] = Footprints(t, live)[x]
    BY Zenon DEF Footprints
  <1>. HIDE DEF all
  <1>5. g[live] = k[live]
    <2>1. live \in SUBSET all
      BY Zenon DEF all
    <2>2. Recurs(Footprints(u, all), all, g) /\ Recurs(Footprints(t, live), live, k)
      BY <1>2, <1>3, Zenon DEF Sums
    <2>. QED
      BY <1>1, <1>4, <2>1, <2>2, SumAgree
  <1>. USE DEF all
  <1>6. \A s \in SUBSET all, x \in all : x \notin s => g[s \cup {x}] = g[s] + Footprints(u, all)[x]
    BY <1>1, <1>2, SumAdd
  <1>7. g[all] = g[live] + Footprints(u, all)[l]
    BY <1>6, Zenon
  <1>8. Footprints(u, all)[l] = u[l].chunk * ChunkCount
    BY Zenon DEF Footprints
  <1>. QED
    BY <1>2, <1>3, <1>5, <1>7, <1>8, Zenon

\* The budget in terms of the lane table.
LEMMA BudgetIs == BudgetRespected <=> MaxPinned = 0 \/ Pinned(lanes, Live) <= MaxPinned
  BY Zenon DEF BudgetRespected, Pinned, pinned_total_bytes, footprint_bytes

\* The check of the budget in terms of the lane table.
LEMMA FitsIs ==
  ASSUME NEW w, NEW live
  PROVE  FitsBudget(w, live) <=>
           MaxPinned = 0 \/ Pinned(lanes, live) + request[w].chunk * ChunkCount <= MaxPinned
  BY Zenon DEF FitsBudget, Required, Pinned, pinned_total_bytes, footprint_bytes

\* Only Create adds a lane, after it has checked that the budget holds it too:
\* lanes that were reaped meanwhile only make room.
LEMMA NextBudget == LaneInv /\ BudgetRespected /\ [Next]_vars => BudgetRespected'
  <1>. SUFFICES ASSUME LaneInv, BudgetRespected, [Next]_vars, MaxPinned # 0
               PROVE  Pinned(lanes', Live') <= MaxPinned
    <2>1. (BudgetRespected <=> MaxPinned = 0 \/ Pinned(lanes, Live) <= MaxPinned)'
      BY BudgetIs, PTL
    <2>. QED
      BY <2>1, Zenon
  <1>0. /\ MaxPinned \in Nat /\ Pinned(lanes, Live) <= MaxPinned
        /\ IsFiniteSet(Live) /\ \A l \in Live : lanes[l] \in Shape /\ lanes[l].chunk \in Nat
    BY ConfigAssumption, FiniteAssumption, FS_Subset, Zenon
       DEF LaneInv, TypeOK, Live, Shape, BudgetRespected, Pinned, pinned_total_bytes, footprint_bytes
  <1>1. ASSUME NEW live \in SUBSET Live, lanes' = Only(live)
        PROVE  Pinned(lanes', Live') <= MaxPinned
    <2>1. Live' = live /\ \A l \in live : lanes'[l] = lanes[l]
      BY <1>1, Zenon DEF Only, Live
    <2>2. /\ Pinned(lanes', live) \in Nat /\ Pinned(lanes, Live) \in Nat
          /\ Pinned(lanes', live) <= Pinned(lanes, Live)
      BY <1>0, <2>1, FewerPinned, Zenon
    <2>. QED
      BY <1>0, <2>1, <2>2
  <1>2. ASSUME UNCHANGED lanes PROVE Pinned(lanes', Live') <= MaxPinned
    BY <1>0, <1>2, Zenon DEF Live
  <1>3. ASSUME NEW w \in Worker, Create(w) PROVE Pinned(lanes', Live') <= MaxPinned
    <2>1. PICK e \in ExpiredChoices :
            /\ FitsBudget(w, Live \ e)
            /\ \/ \E l \in Lane \ (Live \ e) :
                    lanes' = [Only(Live \ e) EXCEPT ![l] = request[w]]
               \/ lanes' = Only(Live \ e)
      BY <1>3, Zenon DEF Create
    <2>2. CASE lanes' = Only(Live \ e)
      BY <1>1, <2>2, Zenon
    <2>3. ASSUME NEW l \in Lane \ (Live \ e), lanes' = [Only(Live \ e) EXCEPT ![l] = request[w]]
          PROVE  Pinned(lanes', Live') <= MaxPinned
      <3>. DEFINE live == Live \ e
      <3>1. request[w] \in Shape
        BY <1>3, Zenon DEF Create, NoReusable, LaneInv, TypeOK
      <3>2. /\ Live' = live \cup {l} /\ lanes'[l] = request[w]
            /\ \A k \in live : lanes'[k] = lanes[k]
        BY <2>3, <3>1, ConfigAssumption DEF Live, Only, LaneInv, TypeOK, Shape
      <3>3. IsFiniteSet(live) /\ \A k \in live : lanes[k].chunk \in Nat
        BY <1>0, FS_Subset, Zenon
      <3>4. request[w].chunk \in Nat
        BY <3>1, Zenon DEF Shape
      <3>. HIDE DEF live
      <3>5. Pinned(lanes', live \cup {l}) = Pinned(lanes, live) + request[w].chunk * ChunkCount
        <4>1. l \notin live
          BY <2>3, Zenon DEF live
        <4>2. \A k \in live : lanes[k].chunk \in Nat /\ lanes'[k] = lanes[k]
          BY <3>2, <3>3, Zenon
        <4>3. lanes'[l].chunk \in Nat /\ IsFiniteSet(live)
          BY <3>2, <3>3, <3>4, Zenon
        <4>. HIDE DEF live
        <4>4. OneMore(live, l, lanes, lanes')
          BY <4>1, <4>2, <4>3, Zenon DEF OneMore
        <4>5. Pinned(lanes', live \cup {l}) = Pinned(lanes, live) + lanes'[l].chunk * ChunkCount
          BY <4>4, OneMorePinned, Zenon
        <4>. QED
          BY <4>5, <3>2, Zenon
      <3>6. Pinned(lanes, live) + request[w].chunk * ChunkCount <= MaxPinned
        BY <2>1, FitsIs, Zenon DEF live
      <3>. QED
        BY <3>2, <3>5, <3>6, Zenon
    <2>. QED
      BY <2>1, <2>2, <2>3, Zenon
  <1>4. ASSUME NEW w \in Worker, Acquire(w) PROVE Pinned(lanes', Live') <= MaxPinned
    <2>1. CASE TakeIdle(w)
      BY <1>2, <2>1, Zenon DEF TakeIdle
    <2>2. CASE \E live \in SUBSET Live : lanes' = Only(live)
      BY <1>1, <2>2, Zenon
    <2>. QED
      BY <1>3, <1>4, <2>1, <2>2, Zenon
         DEF Acquire, ReapForDirection, WaitForDirection, Refuse, ReapForBudget, WaitForBudget
  <1>5. CASE Stats
    BY <1>1, <1>5, Zenon DEF Stats
  <1>. QED
    BY <1>2, <1>4, <1>5, Zenon DEF Next, Start, Resume, Release, SpuriousWakeup, vars

\* The pinned memory of all lanes together stays within the budget, for any
\* number of threads and lanes and whatever chunk sizes they ask for.
THEOREM BudgetHolds == Spec => []BudgetRespected
  <1>1. Init => BudgetRespected
    <2>1. Init => Live = {}
      BY Zenon DEF Init, Live
    <2>. QED
      BY <2>1, EmptySum, ConfigAssumption DEF BudgetRespected
  <1>. QED
    BY <1>1, InitLaneInv, NextLaneInv, NextBudget, PTL DEF Spec
=============================================================================
