------------------------- MODULE ExternalDdrProofs -------------------------
(***************************************************************************)
(* Proofs about ExternalDdr for every set of clients, memfds, backings and *)
(* views, every request and every combination of failing appends.          *)
(*                                                                         *)
(* The invariant is a predicate Good on the broker's state record, and     *)
(* each operation of ExternalDdrState has one lemma: Keeps(S, T) for its   *)
(* argument S and its result T, or KeepsOthers for the operations that end *)
(* what a request began (release_view, commit, undo, finish_shutdown).     *)
(* The first lemmas do the same for the events of the replay; the last     *)
(* part has one step per action of ExternalDdr.                            *)
(***************************************************************************)
EXTENDS ExternalDdr, TLAPS

Zero(A) == Held(A) = {} /\ Unresolved(A) = {} /\ A.terminated = {}

\* The replay: a view that may be mapped names a backing that is still held,
\* and a checkpoint leaves nothing.
AuditGood(A) ==
    /\ A \in Replay
    /\ \A v \in Unresolved(A) :
         A.view_id[v] \in ViewIdentity /\ A.view_id[v].object \in Held(A)
    /\ A.checkpointed => Zero(A)

Good(S) ==
    /\ S \in State /\ AuditGood(S.audit)
    /\ S.charged = Held(S.audit)
    /\ Open(S) \subseteq Unresolved(S.audit)
    /\ \A b \in Present(S) : S.audit.backing_id[b] \in BackingIdentity
    /\ \A v \in View : S.views[v] # "none" => S.audit.view_id[v] \in ViewIdentity
    /\ S.authority = "clean" => Zero(S.audit) /\ ~S.uncertain_exposure

\* Every owner of a backing and every client of an open view has a session, and
\* the backing of an open view is in the catalog.
Refs(S) ==
    /\ \A b \in Present(S) : S.sessions[S.audit.backing_id[b].owner] # "none"
    /\ \A v \in Open(S) : /\ S.sessions[S.audit.view_id[v].accessor] # "none"
                          /\ S.audit.view_id[v].object \in Present(S)

\* After a possible exposure nothing becomes pending or active any more, and the
\* state file stays as it is.
Halts(S, T) ==
    S.uncertain_exposure =>
        /\ T.uncertain_exposure /\ T.authority = S.authority
        /\ \A b \in Backing : T.state[b] \in {"pending", "active"} => T.state[b] = S.state[b]
        /\ \A v \in View : T.views[v] \in {"pending", "active"} => T.views[v] = S.views[v]

\* A step that drops no session and no backing and opens nothing.
Steady(S, T) ==
    /\ T.audit.backing_id = S.audit.backing_id /\ T.audit.view_id = S.audit.view_id
    /\ \A p \in Proc : S.sessions[p] # "none" => T.sessions[p] # "none"
    /\ Present(T) = Present(S)
    /\ \A b \in Backing : T.state[b] \in {"pending", "active"} => T.state[b] = S.state[b]
    /\ \A v \in View : T.views[v] \in {"pending", "active"} => T.views[v] = S.views[v]
    /\ S.uncertain_exposure => T.uncertain_exposure /\ T.authority = S.authority

\* What every operation but release_view and finish_shutdown does: views that
\* may be mapped stay so, no view becomes active, and dirty stays dirty.
Keeps(S, T) ==
    /\ Good(T)
    /\ \A v \in Unresolved(S.audit) :
         v \in Unresolved(T.audit) /\ T.audit.view_id[v] = S.audit.view_id[v]
    /\ \A v \in View : T.views[v] = "active" => S.views[v] = "active"
    /\ S.authority = "dirty" => T.authority = "dirty"
    /\ Refs(S) => Refs(T)
    /\ Halts(S, T)

\* An event that moves nothing in or out of the replay's obligations.
Quiet(A, B) ==
    /\ B \in Replay
    /\ Held(B) = Held(A) /\ Unresolved(B) = Unresolved(A)
    /\ B.view_id = A.view_id /\ B.backing_id = A.backing_id
    /\ B.terminated = A.terminated /\ B.checkpointed = A.checkpointed

-----------------------------------------------------------------------------
\* Moving backings among the held states is quiet.
LEMMA MoveBackingsQuiet ==
    ASSUME NEW A \in Replay, NEW lost, NEW event, NEW X \in SUBSET Backing,
           NEW from \in SUBSET (BackingState \ {"None", "Closed"}),
           NEW to \in BackingState \ {"None", "Closed"}
    PROVE Quiet(A, MoveBackings(A, lost, event, X, from, to))
  BY ZenonT(60) DEF MoveBackings, Recorded, Poison, Quiet, Held, Unresolved, Replay, BackingState

\* Moving views among the unresolved states is quiet.
LEMMA MoveViewsQuiet ==
    ASSUME NEW A \in Replay, NEW lost, NEW event, NEW X \in SUBSET View,
           NEW from \in SUBSET (ViewState \ {"None", "Closed"}),
           NEW to \in ViewState \ {"None", "Closed"}
    PROVE Quiet(A, MoveViews(A, lost, event, X, from, to))
  BY ZenonT(60) DEF MoveViews, Recorded, Poison, Quiet, Held, Unresolved, Replay, ViewState

\* A steady step leaves nothing dangling and takes nothing on.
LEMMA SteadyStep ==
    ASSUME NEW S, NEW T, Good(S), Steady(S, T)
    PROVE (Refs(S) => Refs(T)) /\ Halts(S, T)
<1>1. Halts(S, T)
  BY Zenon DEF Steady, Halts
<1>2. Open(T) \subseteq Open(S)
  BY Zenon DEF Steady, Open
<1>3. /\ \A b \in Present(S) : S.audit.backing_id[b].owner \in Proc
      /\ \A v \in Open(S) : S.audit.view_id[v].accessor \in Proc
  BY Zenon DEF Good, AuditGood, BackingIdentity, ViewIdentity
<1>4. Refs(S) => Refs(T)
  BY <1>2, <1>3, Zenon DEF Steady, Refs
<1> QED
  BY <1>1, <1>4, Zenon

\* Steps that leave charges and the state file alone and open no view.
LEMMA QuietStep ==
    ASSUME NEW S, NEW T, Good(S), T \in State, Quiet(S.audit, T.audit),
           T.charged = S.charged, T.authority = S.authority,
           Present(T) \subseteq Present(S),
           \A v \in View : T.views[v] # "none" => S.views[v] # "none",
           \A v \in Open(T) : T.views[v] = S.views[v],
           T.authority = "clean" => T.uncertain_exposure = S.uncertain_exposure,
           Refs(S) => Refs(T), Halts(S, T)
    PROVE Keeps(S, T)
<1>1. Open(T) \subseteq Open(S)
  BY Zenon DEF Open
<1>2. Good(T)
  BY <1>1, Zenon DEF Quiet, Good, AuditGood, Zero
<1>3. \A v \in View : T.views[v] = "active" => S.views[v] = "active"
  BY Zenon DEF Open
<1> QED
  BY <1>2, <1>3, Zenon DEF Quiet, Keeps

\* Logging changes the replay and the admission flag only.
LEMMA LogFields ==
    ASSUME NEW S \in State, NEW A \in Replay
    PROVE /\ Log(S, A) \in State /\ Log(S, A).audit = A
          /\ Log(S, A).sessions = S.sessions /\ Log(S, A).committed = S.committed
          /\ Log(S, A).state = S.state /\ Log(S, A).charged = S.charged
          /\ Log(S, A).file = S.file /\ Log(S, A).handoff_pending = S.handoff_pending
          /\ Log(S, A).views = S.views /\ Log(S, A).copy_work = S.copy_work
          /\ Log(S, A).uncertain_exposure = S.uncertain_exposure
          /\ Log(S, A).authority = S.authority
<1>1. A.poisoned \in BOOLEAN
  BY Zenon DEF Replay
<1> QED
  BY <1>1, Zenon DEF Log, State

\* A new epoch changes the lag only.
LEMMA BumpFields ==
    ASSUME NEW S \in State, NEW n
    PROVE /\ Bump(S, n) \in State
          /\ Quiet(S.audit, Bump(S, n).audit)
          /\ Bump(S, n).audit.poisoned = S.audit.poisoned
          /\ Bump(S, n).audit.backings = S.audit.backings
          /\ Bump(S, n).audit.views = S.audit.views
          /\ Bump(S, n).sessions = S.sessions /\ Bump(S, n).committed = S.committed
          /\ Bump(S, n).state = S.state /\ Bump(S, n).charged = S.charged
          /\ Bump(S, n).file = S.file /\ Bump(S, n).handoff_pending = S.handoff_pending
          /\ Bump(S, n).views = S.views /\ Bump(S, n).copy_work = S.copy_work
          /\ Bump(S, n).uncertain_exposure = S.uncertain_exposure
          /\ Bump(S, n).authority = S.authority
          /\ Bump(S, n).admission_poisoned = S.admission_poisoned
<1> DEFINE A == S.audit
           B == [A EXCEPT !.lag = IF @ - n \in Nat THEN @ - n ELSE 0]
<1>1. S.audit \in Replay
  BY Zenon DEF State
<1>2. B \in Replay /\ B.backings = A.backings /\ B.views = A.views /\ B.view_id = A.view_id
      /\ B.backing_id = A.backing_id
      /\ B.terminated = A.terminated /\ B.checkpointed = A.checkpointed
      /\ B.poisoned = A.poisoned
  BY <1>1, Zenon DEF Replay
<1>3. Quiet(A, B)
  BY <1>2, Zenon DEF Quiet, Held, Unresolved
<1>4. Bump(S, n) = [S EXCEPT !.audit = B]
  BY Zenon DEF Bump, State
<1> HIDE DEF A, B
<1> QED
  BY <1>2, <1>3, <1>4 DEF State, A

\* Logging a quiet event keeps the state good.
LEMMA LogQuiet ==
    ASSUME NEW S, Good(S), NEW A, Quiet(S.audit, A)
    PROVE Keeps(S, Log(S, A))
<1>1. Steady(S, Log(S, A))
  BY LogFields, Zenon DEF Good, Quiet, Steady, Present
<1>2. (Refs(S) => Refs(Log(S, A))) /\ Halts(S, Log(S, A))
  BY <1>1, SteadyStep, Zenon
<1> QED
  BY <1>2, LogFields, QuietStep DEF Good, Quiet, Open, Present

\* A new epoch keeps the state good.
LEMMA BumpKeeps ==
    ASSUME NEW S, Good(S), NEW n
    PROVE Keeps(S, Bump(S, n))
<1>1. Steady(S, Bump(S, n))
  BY BumpFields DEF Good, Quiet, Steady, Present
<1>2. (Refs(S) => Refs(Bump(S, n))) /\ Halts(S, Bump(S, n))
  BY <1>1, SteadyStep, Zenon
<1> QED
  BY <1>2, BumpFields, QuietStep, Zenon DEF Good, Open, Present

\* Operations compose.
LEMMA KeepsTransitive ==
    ASSUME NEW S, NEW T, NEW U, Keeps(S, T), Keeps(T, U)
    PROVE Keeps(S, U)
<1>1. Halts(S, U)
  BY ZenonT(60) DEF Keeps, Halts
<1> QED
  BY <1>1, Zenon DEF Keeps

\* What an operation leaves is good.
LEMMA KeepsGood ==
    ASSUME NEW S, NEW T, Keeps(S, T)
    PROVE Good(T)
  BY Zenon DEF Keeps

\* Doing nothing keeps a good state.
LEMMA KeepsReflexive ==
    ASSUME NEW S, Good(S)
    PROVE Keeps(S, S)
<1>1. Halts(S, S)
  BY Zenon DEF Halts
<1> QED
  BY <1>1, Zenon DEF Keeps

-----------------------------------------------------------------------------
\* Quiet events compose.
LEMMA QuietTransitive ==
    ASSUME NEW A, NEW B, NEW C, Quiet(A, B), Quiet(B, C)
    PROVE Quiet(A, C)
  BY Zenon DEF Quiet

\* Poisoning the writer is quiet.
LEMMA PoisonQuiet ==
    ASSUME NEW A \in Replay, NEW failed \in BOOLEAN
    PROVE Quiet(A, Poison(A, failed))
  BY Zenon DEF Poison, Quiet, Held, Unresolved, Replay

\* Aborting or revoking a registration leaves it held.
LEMMA RegistrationEventsQuiet ==
    ASSUME NEW A \in Replay, NEW lost
    PROVE /\ \A b \in Backing : Quiet(A, RegisterCommit(A, lost, b))
          /\ \A X \in SUBSET Backing : Quiet(A, RegisterAbort(A, lost, X)) /\ Quiet(A, Revoke(A, lost, X))
  BY MoveBackingsQuiet, Zenon DEF RegisterCommit, RegisterAbort, Revoke, BackingState

\* Every event that leaves a view unresolved is quiet.
LEMMA ViewEventsQuiet ==
    ASSUME NEW A \in Replay, NEW lost
    PROVE /\ \A v \in View : /\ Quiet(A, ViewCommit(A, lost, v))
                              /\ Quiet(A, ViewAbort(A, lost, v))
                              /\ Quiet(A, ViewCommitUnconfirmed(A, lost, v))
                              /\ Quiet(A, ViewCloseIntent(A, lost, v))
          /\ \A X \in SUBSET View : Quiet(A, ViewPeerTerminated(A, lost, X))
<1>1. \A v \in View : Quiet(A, ViewCommit(A, lost, v))
  BY MoveViewsQuiet, Zenon DEF ViewCommit, ViewState
<1>2. \A X \in SUBSET View : Quiet(A, ViewPeerTerminated(A, lost, X))
  BY MoveViewsQuiet, Zenon DEF ViewPeerTerminated, ViewState
<1> QED
  BY <1>1, <1>2, MoveViewsQuiet, Zenon
  DEF ViewAbort, ViewCommitUnconfirmed, ViewCloseIntent, ViewState

\* The birth of the broker concerns no backing and no view.
LEMMA BrokerEventsQuiet ==
    ASSUME NEW A \in Replay, NEW lost
    PROVE Quiet(A, BrokerBirth(A, lost)) /\ Quiet(A, BrokerDrained(A, lost))
  BY Zenon DEF BrokerBirth, BrokerDrained, Poison, Quiet, Held, Unresolved, Replay

-----------------------------------------------------------------------------
\* Closing views in the catalog leaves them unresolved in the replay.
LEMMA CloseViewsKeeps ==
    ASSUME NEW S, Good(S), NEW X \in SUBSET View
    PROVE /\ Keeps(S, CloseViews(S, X))
          /\ \A v \in X : v \notin Open(CloseViews(S, X))
          /\ CloseViews(S, X).audit.poisoned = S.audit.poisoned
          /\ CloseViews(S, X).authority = S.authority
<1> DEFINE closing == X \cap Open(S)
           T == [S EXCEPT !.views = [v \in View |-> IF v \in closing THEN "released" ELSE @[v]]]
<1>2. /\ T \in State /\ T.audit = S.audit /\ T.charged = S.charged
      /\ T.authority = S.authority /\ T.uncertain_exposure = S.uncertain_exposure
      /\ T.state = S.state /\ T.sessions = S.sessions
      /\ \A v \in View : T.views[v] # "none" => S.views[v] # "none"
      /\ \A v \in Open(T) : T.views[v] = S.views[v]
      /\ \A v \in X : v \notin Open(T)
  BY Zenon DEF Good, State, Open
<1>a. Steady(S, T)
  BY <1>2, Zenon DEF Steady, Present, Open
<1>3. Quiet(S.audit, T.audit)
  BY <1>2, Zenon DEF Good, AuditGood, Quiet
<1>b. (Refs(S) => Refs(T)) /\ Halts(S, T)
  BY <1>a, SteadyStep, Zenon
<1> HIDE DEF T
<1>4. Keeps(S, T)
  BY <1>2, <1>3, <1>b, QuietStep, Zenon DEF Present
<1>5. Keeps(T, Bump(T, Cardinality(closing)))
  BY <1>4, BumpKeeps, Zenon DEF Keeps
<1>6. CloseViews(S, X) = Bump(T, Cardinality(closing))
  BY Zenon DEF CloseViews, T
<1> HIDE DEF closing
<1> QED
  BY <1>2, <1>4, <1>5, <1>6, KeepsTransitive, BumpFields DEF Open

\* Retiring backings keeps them charged.
LEMMA RetireKeeps ==
    ASSUME NEW S, Good(S), NEW lost, NEW X \in SUBSET Backing
    PROVE Keeps(S, Retire(S, lost, X)) /\ Retire(S, lost, X).views = S.views
<1> DEFINE now == {b \in X : S.state[b] \in {"active", "pending"}}
           A == Revoke(RegisterAbort(S.audit, lost, now \cap S.handoff_pending),
                       lost, now \ S.handoff_pending)
           T == [S EXCEPT !.state = [b \in Backing |-> IF b \in now THEN "retired" ELSE @[b]]]
<1>1. S.audit \in Replay
  BY Zenon DEF Good, AuditGood
<1>2. Quiet(S.audit, RegisterAbort(S.audit, lost, now \cap S.handoff_pending))
  BY <1>1, RegistrationEventsQuiet, Zenon
<1>3. Quiet(S.audit, A)
  BY <1>2, RegistrationEventsQuiet, QuietTransitive
  DEF Quiet
<1>4. /\ T \in State /\ T.audit = S.audit /\ T.charged = S.charged
      /\ T.authority = S.authority /\ T.uncertain_exposure = S.uncertain_exposure
      /\ T.views = S.views /\ Present(T) = Present(S) /\ T.sessions = S.sessions
      /\ \A b \in Backing : T.state[b] \in {"pending", "active"} => T.state[b] = S.state[b]
  BY DEF Good, State, Present
<1>6. Retire(S, lost, X) = Bump(Log(T, A), Cardinality(now))
  BY Zenon DEF Retire
<1> HIDE DEF now, A, T
<1>a. Steady(S, T)
  BY <1>4, Zenon DEF Steady
<1>b. (Refs(S) => Refs(T)) /\ Halts(S, T)
  BY <1>a, SteadyStep, Zenon
<1>7. Keeps(S, T)
  BY <1>1, <1>4, <1>b, QuietStep, Zenon DEF Quiet, Open
<1>8. Keeps(T, Log(T, A))
  BY <1>3, <1>4, <1>7, LogQuiet, Zenon DEF Keeps
<1>9. Keeps(Log(T, A), Bump(Log(T, A), Cardinality(now)))
  BY <1>8, BumpKeeps, Zenon DEF Keeps
<1> QED
  BY <1>3, <1>4, <1>6, <1>7, <1>8, <1>9, KeepsTransitive, LogFields, BumpFields
  DEF Quiet

\* A backing is closed only when no view of it is unresolved.
LEMMA BackingCloseEffect ==
    ASSUME NEW A, AuditGood(A), NEW lost, NEW X \in SUBSET Backing
    PROVE LET B == BackingClose(A, lost, X)
          IN /\ AuditGood(B)
             /\ Held(B) = Held(A) \ {b \in X : B.backings[b] = "Closed"}
             /\ Unresolved(B) = Unresolved(A) /\ B.view_id = A.view_id
             /\ B.backing_id = A.backing_id /\ B.terminated = A.terminated
<1> DEFINE intent == Recorded(A, lost, "BackingCloseIntent", {b \in X : backing_can_close(A, b)})
           done == Recorded(A, lost, "BackingCloseDone", intent)
           f == [b \in Backing |-> IF b \in done THEN "Closed"
                                   ELSE IF b \in intent THEN "Closing" ELSE A.backings[b]]
           B == Poison([A EXCEPT !.backings = f], ~(X \subseteq done))
<1>1. /\ done \subseteq intent /\ intent \subseteq X
      /\ \A b \in intent : backing_can_close(A, b)
  BY Zenon DEF Recorded
<1>2. BackingClose(A, lost, X) = B
  BY Zenon DEF BackingClose, AuditGood, Replay
<1>3. A \in Replay
  BY Zenon DEF AuditGood
<1> HIDE DEF intent, done
<1>4. f \in [Backing -> BackingState]
  BY <1>3, Zenon DEF Replay, BackingState
<1> HIDE DEF f
<1>5. /\ B \in Replay /\ B.backings = f /\ B.views = A.views /\ B.view_id = A.view_id
      /\ B.backing_id = A.backing_id
      /\ B.terminated = A.terminated /\ B.checkpointed = A.checkpointed
  BY <1>3, <1>4, Zenon DEF Poison, Replay
<1> HIDE DEF B
<1>6. Unresolved(B) = Unresolved(A)
  BY <1>5, Zenon DEF Unresolved
<1>7. Held(B) = Held(A) \ {b \in X : B.backings[b] = "Closed"}
  BY <1>1, <1>5 DEF Held, f, backing_can_close
<1>8. \A b \in Held(A) \ Held(B) : \A v \in Unresolved(A) : A.view_id[v].object # b
  BY <1>1, <1>5, Zenon DEF Held, f, backing_can_close
<1>9. Zero(A) => Zero(B)
  BY <1>5, <1>6, <1>7, Zenon DEF Zero
<1>10. AuditGood(B)
  BY <1>5, <1>6, <1>8, <1>9, Zenon DEF AuditGood
<1> QED
  BY <1>2, <1>5, <1>6, <1>7, <1>10, Zenon

\* Collecting uncharges what the replay has closed, no more.
LEMMA CollectKeeps ==
    ASSUME NEW S, Good(S), NEW lost
    PROVE Keeps(S, collect_retired(S, lost)) /\ collect_retired(S, lost).views = S.views
<1> DEFINE ready == {b \in S.charged : /\ S.state[b] = "retired"
                                       /\ ~InFlight(S, b)
                                       /\ \A v \in Open(S) : S.audit.view_id[v].object # b}
           X == IF S.audit.poisoned THEN {} ELSE {b \in ready : backing_can_close(S.audit, b)}
           A == BackingClose(S.audit, lost, X)
           closed == {b \in X : A.backings[b] = "Closed"}
           T == [S EXCEPT !.file = @ \ {b \in X : A.backings[b] \in {"Closing", "Closed"}},
                          !.charged = @ \ closed]
<1>1. S \in State /\ AuditGood(S.audit) /\ X \in SUBSET Backing
  BY Zenon DEF Good, State
<1>2. collect_retired(S, lost) = Bump(Log(T, A), Cardinality(closed))
  BY Zenon DEF collect_retired
<1> HIDE DEF ready, X
<1>4. /\ AuditGood(A) /\ Held(A) = Held(S.audit) \ closed
      /\ Unresolved(A) = Unresolved(S.audit) /\ A.view_id = S.audit.view_id
      /\ A.backing_id = S.audit.backing_id /\ A.terminated = S.audit.terminated
  BY <1>1, BackingCloseEffect
<1> HIDE DEF A, closed
<1>5. /\ T \in State /\ T.charged = S.charged \ closed /\ T.views = S.views /\ T.state = S.state
      /\ T.authority = S.authority /\ T.uncertain_exposure = S.uncertain_exposure
      /\ T.sessions = S.sessions
  BY <1>1, Zenon DEF State
<1> HIDE DEF T
<1>6. A \in Replay
  BY <1>4, Zenon DEF AuditGood
<1>7. /\ Log(T, A) \in State /\ Log(T, A).audit = A /\ Log(T, A).charged = S.charged \ closed
      /\ Log(T, A).views = S.views /\ Log(T, A).authority = S.authority
      /\ Log(T, A).uncertain_exposure = S.uncertain_exposure /\ Log(T, A).state = S.state
      /\ Log(T, A).sessions = S.sessions
  BY <1>5, <1>6, LogFields, Zenon
<1>8. Good(Log(T, A))
  BY <1>4, <1>7, Zenon DEF Good, Zero, Open, Present
<1>a. Steady(S, Log(T, A))
  BY <1>4, <1>7, Zenon DEF Steady, Present
<1>b. (Refs(S) => Refs(Log(T, A))) /\ Halts(S, Log(T, A))
  BY <1>a, SteadyStep, Zenon
<1>9. Keeps(S, Log(T, A))
  BY <1>4, <1>7, <1>8, <1>b, Zenon DEF Keeps
<1> QED
  BY <1>2, <1>7, <1>8, <1>9, BumpKeeps, BumpFields, KeepsTransitive

\* Recording deaths changes the set of dead processes only.
LEMMA PeerTerminatedEffect ==
    ASSUME NEW A, AuditGood(A), NEW lost, NEW X \in SUBSET Proc
    PROVE LET B == PeerTerminated(A, lost, X)
          IN /\ AuditGood(B) /\ Held(B) = Held(A) /\ Unresolved(B) = Unresolved(A)
             /\ B.view_id = A.view_id /\ B.backing_id = A.backing_id
             /\ (X = {} => B.terminated = A.terminated)
<1> DEFINE known == {A.backing_id[b].owner : b \in {c \in Backing : A.backings[c] # "None"}}
                    \cup {A.view_id[v].accessor : v \in {u \in View : A.views[u] # "None"}}
           done == Recorded(A, lost, "PeerTerminated", X \cap known)
           B == Poison([A EXCEPT !.terminated = @ \cup done], ~(X \subseteq done))
<1>1. done \subseteq X /\ (A.checkpointed => done = {})
  BY Zenon DEF Recorded, Accepting
<1>2. PeerTerminated(A, lost, X) = B
  BY Zenon DEF PeerTerminated
<1>3. A \in Replay
  BY Zenon DEF AuditGood
<1> HIDE DEF done
<1>4. /\ B \in Replay /\ B.backings = A.backings /\ B.views = A.views
      /\ B.view_id = A.view_id /\ B.backing_id = A.backing_id
      /\ B.terminated = A.terminated \cup done
      /\ B.checkpointed = A.checkpointed
  BY <1>1, <1>3, Zenon DEF Poison, Replay
<1> HIDE DEF B
<1>5. Held(B) = Held(A) /\ Unresolved(B) = Unresolved(A)
  BY <1>4, Zenon DEF Held, Unresolved
<1> QED
  BY <1>1, <1>2, <1>4, <1>5, Zenon DEF AuditGood, Zero

\* A replay without obligations has no holders, so no exit is recorded.
LEMMA ZeroHasNoHolders ==
    ASSUME NEW A, Zero(A)
    PROVE unresolved_holders(A) = {}
  BY Zenon DEF Zero, unresolved_holders

\* Closing the sessions of dead processes gives nothing away.
LEMMA RefreshKeeps ==
    ASSUME NEW S, Good(S), NEW up, NEW lost
    PROVE Keeps(S, refresh(S, up, lost))
<1> DEFINE gone == {p \in Proc : S.sessions[p] = "live" /\ p \notin up}
           holders == gone \cap unresolved_holders(S.audit)
           A == PeerTerminated(S.audit, lost, holders)
           S1 == Log(S, A)
           U == [S1 EXCEPT
                  !.uncertain_exposure = @ \/ holders # {},
                  !.admission_poisoned = @ \/ holders # {},
                  !.sessions = [p \in Proc |-> IF p \in gone THEN "dead" ELSE @[p]]]
           S2 == Bump(U, Cardinality(gone))
           S3 == Retire(S2, lost, UNION {Owned(S2, p) : p \in gone})
           held == Open(S3) \cap UNION {HeldBy(S3, p) : p \in gone}
           L == Log(S3, ViewPeerTerminated(S3.audit, lost, held))
           S4 == CloseViews(L, held)
<1>1. S \in State /\ AuditGood(S.audit) /\ holders \in SUBSET Proc
  BY Zenon DEF Good
<1>3. refresh(S, up, lost) = collect_retired(S4, lost)
  BY Zenon DEF refresh
<1>4. S.authority = "clean" => holders = {}
  BY ZeroHasNoHolders, Zenon DEF Good
<1> HIDE DEF holders, gone
<1>5. /\ AuditGood(A) /\ Held(A) = Held(S.audit) /\ Unresolved(A) = Unresolved(S.audit)
      /\ A.view_id = S.audit.view_id /\ A.backing_id = S.audit.backing_id
      /\ (holders = {} => A.terminated = S.audit.terminated)
  BY <1>1, PeerTerminatedEffect, ZenonT(60)
<1> HIDE DEF A
<1>6. /\ S1 \in State /\ S1.audit = A /\ S1.charged = S.charged /\ S1.views = S.views
      /\ S1.state = S.state
      /\ S1.authority = S.authority /\ S1.uncertain_exposure = S.uncertain_exposure
      /\ S1.sessions = S.sessions
  BY <1>1, <1>5, LogFields, Zenon DEF AuditGood
<1> HIDE DEF S1
<1>b. (Refs(S) => Refs(S1)) /\ Halts(S, S1)
  <2>1. Steady(S, S1)
    BY <1>5, <1>6, Zenon DEF Steady, Present
  <2> QED
    BY <2>1, SteadyStep, Zenon
<1>7. Keeps(S, S1)
  BY <1>4, <1>5, <1>6, <1>b, Zenon DEF Keeps, Good, Zero, Open, Present
<1>8. /\ U \in State /\ U.audit = S1.audit /\ U.charged = S1.charged /\ U.views = S1.views
      /\ U.state = S1.state /\ U.authority = S1.authority
      /\ (holders = {} => U.uncertain_exposure = S1.uncertain_exposure)
      /\ (S1.uncertain_exposure => U.uncertain_exposure)
      /\ \A p \in Proc : S1.sessions[p] # "none" => U.sessions[p] # "none"
  BY <1>6, Zenon DEF State
<1> HIDE DEF U
<1>c. (Refs(S1) => Refs(U)) /\ Halts(S1, U)
  <2>1. Steady(S1, U)
    BY <1>8, Zenon DEF Steady, Present
  <2>2. Good(S1)
    BY <1>7, KeepsGood, Zenon
  <2> QED
    BY <2>1, <2>2, SteadyStep, Zenon
<1>9. Keeps(S1, U)
  BY <1>4, <1>6, <1>7, <1>8, <1>c, QuietStep DEF Keeps, Good, AuditGood, Quiet, Open, Present
<1>10. Keeps(U, S2)
  BY <1>9, BumpKeeps, Zenon DEF Keeps
<1> HIDE DEF S2
<1>11. Keeps(S2, S3)
  BY <1>10, RetireKeeps, UNION {Owned(S2, p) : p \in gone} \in SUBSET Backing
  DEF Keeps, Owned, Present
<1> HIDE DEF S3
<1>12. held \in SUBSET View
  BY Zenon DEF Open
<1> HIDE DEF held
<1>13. Keeps(S3, L)
  BY <1>11, <1>12, LogQuiet, ViewEventsQuiet, ZenonT(30) DEF Keeps, Good, AuditGood
<1> HIDE DEF L
<1>14. Keeps(L, S4)
  BY <1>12, <1>13, CloseViewsKeeps, ZenonT(60) DEF Keeps
<1> HIDE DEF S4
<1>15. Keeps(S4, collect_retired(S4, lost))
  BY <1>14, CollectKeeps DEF Keeps
<1>16. Keeps(S, S2)
  BY <1>7, <1>9, <1>10, KeepsTransitive, Zenon
<1>17. Keeps(S2, L)
  BY <1>11, <1>13, KeepsTransitive, Zenon
<1> QED
  BY <1>3, <1>14, <1>15, <1>16, <1>17, KeepsTransitive, Zenon

\* Nothing is admitted while the state file still says clean.
LEMMA AdmissionKeeps ==
    ASSUME NEW S, Good(S), NEW lost
    PROVE LET T == before_admission(S, lost)
          IN Keeps(S, T) /\ (Admitted(T) => T.authority = "dirty") /\ T.views = S.views
<1> DEFINE T == before_admission(S, lost)
           D == [S EXCEPT !.authority = "dirty"]
           P == Poison(S.audit, TRUE)
<1>1. S \in State /\ S.audit \in Replay /\ S.audit.poisoned \in BOOLEAN
  BY Zenon DEF Good, AuditGood, Replay
<1>2. Quiet(S.audit, P) /\ P.poisoned
  BY <1>1, PoisonQuiet, Zenon DEF Poison, Replay
<1> HIDE DEF P
<1>3. CASE S.uncertain_exposure \/ S.audit.poisoned
  <2>1. T = S
    BY <1>3, Zenon DEF before_admission
  <2> QED
    BY <1>3, <2>1, KeepsReflexive, Zenon DEF Admitted
<1>4. CASE ~S.uncertain_exposure /\ ~S.audit.poisoned /\ S.admission_poisoned
  <2>1. T = [S EXCEPT !.audit = P]
    BY <1>4, Zenon DEF before_admission, P
  <2>2. /\ T \in State /\ T.audit = P /\ T.charged = S.charged /\ T.views = S.views
        /\ T.authority = S.authority /\ T.uncertain_exposure = S.uncertain_exposure
        /\ T.state = S.state /\ T.sessions = S.sessions
    BY <1>1, <1>2, <2>1 DEF State, Quiet
  <2> HIDE DEF T
  <2>3. Steady(S, T)
    BY <1>2, <2>2, Zenon DEF Steady, Quiet, Present
  <2>4. (Refs(S) => Refs(T)) /\ Halts(S, T)
    BY <2>3, SteadyStep, Zenon
  <2> QED
    BY <1>2, <2>2, <2>4, QuietStep, Zenon DEF Admitted, Open, Present, T
<1>5. CASE /\ ~S.uncertain_exposure /\ ~S.audit.poisoned /\ ~S.admission_poisoned
           /\ S.authority = "clean" /\ <<"WriteDirty", None>> \in lost
  <2> DEFINE a == IF <<"RetryDirty", None>> \in lost THEN "clean" ELSE "dirty"
  <2>1. T = [S EXCEPT !.audit = P, !.admission_poisoned = TRUE, !.authority = a]
    BY <1>5, Zenon DEF before_admission, P
  <2>a. a \in {"clean", "dirty"}
    OBVIOUS
  <2>b. P \in Replay
    BY <1>2, Zenon DEF Quiet
  <2> HIDE DEF a, T
  <2>2. /\ T \in State /\ T.audit = P /\ T.charged = S.charged /\ T.views = S.views
        /\ T.uncertain_exposure = S.uncertain_exposure /\ T.state = S.state
        /\ T.sessions = S.sessions
    BY <1>1, <2>1, <2>a, <2>b, Zenon DEF State
  <2>c. Steady(S, T)
    BY <1>2, <1>5, <2>2, Zenon DEF Steady, Quiet, Present
  <2>d. (Refs(S) => Refs(T)) /\ Halts(S, T)
    BY <2>c, SteadyStep, Zenon
  <2>3. Keeps(S, T)
    BY <1>2, <1>5, <2>2, <2>d, Zenon DEF Keeps, Good, AuditGood, Quiet, Zero, Open, Present
  <2> QED
    BY <1>2, <2>2, <2>3, Zenon DEF Admitted, T
<1>6. CASE /\ ~S.uncertain_exposure /\ ~S.audit.poisoned /\ ~S.admission_poisoned
           /\ ~(S.authority = "clean" /\ <<"WriteDirty", None>> \in lost)
  <2>1. /\ D \in State /\ D.audit = S.audit /\ D.charged = S.charged /\ D.views = S.views
        /\ D.authority = "dirty" /\ D.uncertain_exposure = S.uncertain_exposure
        /\ D.state = S.state /\ D.sessions = S.sessions
    BY <1>1, Zenon DEF State
  <2>a. (Refs(S) => Refs(D)) /\ Halts(S, D)
    <3> HIDE DEF D
    <3>1. Steady(S, D)
      BY <1>6, <2>1, Zenon DEF Steady, Present
    <3> QED
      BY <3>1, SteadyStep, Zenon
  <2>2. Keeps(S, D)
    BY <2>1, <2>a, Zenon DEF Keeps, Good, Open, Present
  <2>3. T = IF D.audit.broker_birth THEN D ELSE Log(D, BrokerBirth(D.audit, lost))
    BY <1>6, Zenon DEF before_admission
  <2> HIDE DEF D, T
  <2>4. Keeps(D, Log(D, BrokerBirth(D.audit, lost)))
    BY <1>1, <2>1, <2>2, LogQuiet, BrokerEventsQuiet, Zenon DEF Keeps
  <2>5. /\ Log(D, BrokerBirth(D.audit, lost)).views = D.views
        /\ Log(D, BrokerBirth(D.audit, lost)).authority = D.authority
    BY <1>1, <2>1, LogFields, BrokerEventsQuiet, Zenon DEF Quiet
  <2> QED
    BY <2>1, <2>2, <2>3, <2>4, <2>5, KeepsTransitive DEF T
<1> QED
  BY <1>1, <1>3, <1>4, <1>5, <1>6, Zenon DEF State

\* A new session changes nothing else.
LEMMA SessionKeeps ==
    ASSUME NEW S, Good(S), NEW p \in Proc
    PROVE /\ Keeps(S, session(S, p)) /\ session(S, p).views = S.views
          /\ session(S, p).authority = S.authority
          /\ session(S, p).sessions[p] # "none"
<1> DEFINE T == [S EXCEPT !.sessions[p] = "live"]
<1>1. /\ T \in State /\ T.audit = S.audit /\ T.charged = S.charged /\ T.views = S.views
      /\ T.authority = S.authority /\ T.uncertain_exposure = S.uncertain_exposure
      /\ T.state = S.state /\ T.sessions = [S.sessions EXCEPT ![p] = "live"]
      /\ DOMAIN S.sessions = Proc
  BY Zenon DEF Good, State
<1>2. (session(S, p) = S /\ S.sessions[p] # "none") \/ session(S, p) = Bump(T, 1)
  BY Zenon DEF session
<1> HIDE DEF T
<1>a. Steady(S, T)
  BY <1>1, Zenon DEF Steady, Present
<1>b. (Refs(S) => Refs(T)) /\ Halts(S, T)
  BY <1>a, SteadyStep, Zenon
<1>3. Keeps(S, T)
  BY <1>1, <1>b, QuietStep, Zenon DEF Good, AuditGood, Quiet, Open, Present
<1>4. Keeps(T, Bump(T, 1))
  BY <1>3, BumpKeeps, Zenon DEF Keeps
<1>5. /\ Bump(T, 1).views = T.views /\ Bump(T, 1).authority = T.authority
      /\ Bump(T, 1).sessions = T.sessions /\ T.sessions[p] = "live"
  BY <1>1, BumpFields, Zenon
<1> QED
  BY <1>1, <1>2, <1>3, <1>4, <1>5, KeepsTransitive, KeepsReflexive

\* Discarding a session drops catalog entries that are no longer charged or open.
LEMMA DiscardKeeps ==
    ASSUME NEW S, Good(S), NEW p
    PROVE Keeps(S, discard_uncommitted_session(S, p))
<1> DEFINE T == [S EXCEPT
                  !.sessions[p] = "none",
                  !.state = [b \in Backing |-> IF b \in Owned(S, p) THEN "none" ELSE @[b]],
                  !.handoff_pending = @ \ Owned(S, p),
                  !.views = [v \in View |-> IF v \in HeldBy(S, p) THEN "none" ELSE @[v]]]
<1>1. /\ T \in State /\ T.audit = S.audit /\ T.charged = S.charged
      /\ T.authority = S.authority /\ T.uncertain_exposure = S.uncertain_exposure
      /\ \A v \in View : T.views[v] = "none" \/ T.views[v] = S.views[v]
      /\ Present(T) \subseteq Present(S)
  BY Zenon DEF Good, State, Present
<1>2. \/ discard_uncommitted_session(S, p) = S
      \/ /\ discard_uncommitted_session(S, p) = Bump(T, 1)
         /\ \A b \in Owned(S, p) : b \notin S.charged
  BY Zenon DEF discard_uncommitted_session
<1>a. /\ \A q \in Proc : q # p => T.sessions[q] = S.sessions[q]
      /\ \A b \in Backing : T.state[b] = IF b \in Owned(S, p) THEN "none" ELSE S.state[b]
      /\ \A v \in HeldBy(S, p) : T.views[v] = "none"
  BY Zenon DEF Good, State, HeldBy
<1> HIDE DEF T
<1>b. Halts(S, T)
  BY <1>1, <1>a, Zenon DEF Halts
<1>c. ASSUME \A b \in Owned(S, p) : b \notin S.charged, Refs(S)
      PROVE  Refs(T)
  <2>1. Present(T) = Present(S) \ Owned(S, p)
    BY <1>a, Zenon DEF Present, Owned
  <2>2. ASSUME NEW b \in Present(T)
        PROVE  T.sessions[T.audit.backing_id[b].owner] # "none"
    <3>1. /\ b \in Present(S) /\ S.audit.backing_id[b].owner # p
          /\ S.audit.backing_id[b].owner \in Proc
      BY <2>1, Zenon DEF Owned, Good, BackingIdentity
    <3>2. S.sessions[S.audit.backing_id[b].owner] # "none" /\ T.audit = S.audit
      BY <1>1, <1>c, <3>1, Zenon DEF Refs
    <3> QED
      BY <1>a, <3>1, <3>2, Zenon
  <2>3. ASSUME NEW v \in Open(T)
        PROVE  /\ T.sessions[T.audit.view_id[v].accessor] # "none"
               /\ T.audit.view_id[v].object \in Present(T)
    <3>1. v \in Open(S) /\ v \notin HeldBy(S, p)
      BY <1>1, <1>a, Zenon DEF Open, HeldBy
    <3>2. /\ S.audit.view_id[v].accessor # p /\ S.audit.view_id[v].accessor \in Proc
          /\ S.audit.view_id[v].object \in S.charged
      BY <3>1, Zenon DEF HeldBy, Open, Good, AuditGood, ViewIdentity
    <3>3. /\ S.sessions[S.audit.view_id[v].accessor] # "none" /\ T.audit = S.audit
          /\ S.audit.view_id[v].object \in Present(S)
      BY <1>1, <1>c, <3>1, Zenon DEF Refs
    <3> QED
      BY <1>a, <1>c, <2>1, <3>2, <3>3, Zenon
  <2> QED
    BY <2>2, <2>3, Zenon DEF Refs
<1>3. \A v \in Open(T) : T.views[v] = S.views[v]
  BY <1>1, Zenon DEF Open
<1>4. ASSUME \A b \in Owned(S, p) : b \notin S.charged
      PROVE  Keeps(S, Bump(T, 1))
  <2>1. Refs(S) => Refs(T)
    BY <1>c, <1>4, Zenon
  <2>2. Keeps(S, T)
    BY <1>1, <1>3, <1>b, <2>1, QuietStep, Zenon DEF Good, AuditGood, Quiet
  <2>3. Keeps(T, Bump(T, 1))
    BY <2>2, KeepsGood, BumpKeeps, Zenon
  <2> QED
    BY <2>2, <2>3, KeepsTransitive, Zenon
<1> QED
  BY <1>2, <1>4, KeepsReflexive, Zenon

\* The end of a request: collect, then discard.
LEMMA FinishedKeeps ==
    ASSUME NEW S, Good(S), NEW p \in Proc, NEW lost
    PROVE Keeps(S, Finished(S, p, lost))
<1>1. Keeps(S, collect_retired(S, lost))
  BY CollectKeeps, Zenon
<1> QED
  BY <1>1, DiscardKeeps, KeepsTransitive DEF Finished, Keeps

-----------------------------------------------------------------------------
\* The two operations that take on an obligation: their record says so first,
\* and they run only once the state file says dirty.
LEMMA RegisterKeeps ==
    ASSUME NEW S, Good(S), S.authority = "dirty", NEW lost, NEW b \in Backing,
           NEW id \in BackingIdentity, ~S.uncertain_exposure, S.sessions[id.owner] # "none"
    PROVE Keeps(S, register(S, lost, b, id))
<1> DEFINE A == RegisterIntent(S.audit, lost, b, id)
           R == [S.audit EXCEPT !.backings[b] = "Provisional", !.backing_id[b] = id]
           T == Log(S, A)
           U == [T EXCEPT !.state[b] = "pending", !.charged = @ \cup {b}, !.file = @ \cup {b},
                          !.handoff_pending = @ \cup {b}]
<1>1. S \in State /\ S.audit \in Replay
  BY Zenon DEF Good, AuditGood
<1>2. A = Poison(S.audit, TRUE) \/ (A = R /\ Accepting(S.audit))
  BY Zenon DEF RegisterIntent, Recorded
<1>3. CASE A = Poison(S.audit, TRUE)
  <2>1. Quiet(S.audit, A) /\ A.poisoned
    BY <1>1, <1>3, PoisonQuiet, Zenon DEF Poison, Replay
  <2>2. T.audit = A
    BY <1>1, <2>1, LogFields, Zenon DEF Quiet
  <2> QED
    BY <2>1, <2>2, LogQuiet, Zenon DEF register
<1>4. CASE A = R /\ Accepting(S.audit)
  <2>1. /\ R \in Replay /\ R.views = S.audit.views /\ R.view_id = S.audit.view_id
        /\ R.terminated = S.audit.terminated /\ R.checkpointed = S.audit.checkpointed
        /\ R.poisoned = S.audit.poisoned
        /\ R.backings = [S.audit.backings EXCEPT ![b] = "Provisional"]
        /\ R.backing_id = [S.audit.backing_id EXCEPT ![b] = id]
    BY <1>1, Zenon DEF Replay, BackingState
  <2> HIDE DEF R
  <2>2. Held(R) = Held(S.audit) \cup {b} /\ Unresolved(R) = Unresolved(S.audit)
    BY <1>1, <2>1 DEF Held, Unresolved, Replay
  <2>3. AuditGood(R)
    BY <1>4, <2>1, <2>2, Zenon DEF Good, AuditGood, Accepting
  <2>4. /\ T \in State /\ T.audit = R /\ T.charged = S.charged /\ T.views = S.views
        /\ T.authority = S.authority /\ T.state = S.state /\ T.sessions = S.sessions
    BY <1>1, <1>4, <2>1, LogFields, ZenonT(60)
  <2> HIDE DEF T
  <2>5. /\ U \in State /\ U.audit = R /\ U.charged = S.charged \cup {b} /\ U.views = S.views
        /\ U.authority = "dirty" /\ U.state = [S.state EXCEPT ![b] = "pending"]
        /\ U.sessions = S.sessions
    BY <2>4, ZenonT(30) DEF State
  <2> HIDE DEF U
  <2>b. Present(U) = Present(S) \cup {b}
    BY <1>1, <2>5, ZenonT(60) DEF State, Present
  <2>c. Refs(S) => Refs(U)
    <3>1. /\ R.backing_id[b] = id
          /\ \A c \in Backing : c # b => R.backing_id[c] = S.audit.backing_id[c]
      BY <1>1, <2>1, Zenon DEF Replay
    <3>2. Open(U) = Open(S)
      BY <2>5, Zenon DEF Open
    <3>3. ASSUME Refs(S), NEW c \in Present(U)
          PROVE  U.sessions[R.backing_id[c].owner] # "none"
      BY <2>5, <2>b, <3>1, <3>3, Zenon DEF Refs, Present
    <3>4. ASSUME Refs(S), NEW v \in Open(U)
          PROVE  U.sessions[R.view_id[v].accessor] # "none" /\ R.view_id[v].object \in Present(U)
      BY <2>1, <2>5, <2>b, <3>2, <3>4 DEF Refs
    <3> QED
      BY <2>5, <3>3, <3>4, Zenon DEF Refs
  <2>d. Halts(S, U)
    BY Zenon DEF Halts
  <2>a. \A c \in Present(U) : U.audit.backing_id[c] \in BackingIdentity
    BY <1>1, <2>1, <2>5 DEF Good, State, Replay, Present
  <2>6. Keeps(S, U)
    BY <2>1, <2>2, <2>3, <2>5, <2>a, <2>c, <2>d, Zenon DEF Keeps, Good, Open
  <2>7. Keeps(U, Bump(U, 1))
    BY <2>6, BumpKeeps, Zenon DEF Keeps
  <2>8. ~T.audit.poisoned
    BY <1>4, <2>1, <2>4, Zenon DEF Accepting
  <2>9. register(S, lost, b, id) = Bump(U, 1)
    BY <2>8, Zenon DEF register, U, T
  <2> QED
    BY <2>6, <2>7, <2>9, KeepsTransitive, Zenon
<1> QED
  BY <1>2, <1>3, <1>4, Zenon

\* A granted view is unresolved before it is handed over.
LEMMA GrantKeeps ==
    ASSUME NEW S, Good(S), S.authority = "dirty", NEW lost, NEW v \in View,
           NEW id \in ViewIdentity, ~S.uncertain_exposure,
           S.sessions[id.accessor] # "none", id.object \in Present(S)
    PROVE /\ Keeps(S, grant_view(S, lost, v, id))
          /\ grant_view(S, lost, v, id).views[v] = "pending" =>
               v \in Unresolved(grant_view(S, lost, v, id).audit)
<1> DEFINE A == ViewIntent(S.audit, lost, v, id)
           R == [S.audit EXCEPT !.views[v] = "Intent", !.view_id[v] = id]
           T == Log(S, A)
           U == [T EXCEPT !.views[v] = "pending"]
           G == grant_view(S, lost, v, id)
<1>1. S \in State /\ S.audit \in Replay
  BY Zenon DEF Good, AuditGood
<1>2. \/ A = Poison(S.audit, TRUE)
      \/ A = R /\ Accepting(S.audit) /\ S.audit.backings[id.object] = "Active"
         /\ S.audit.views[v] = "None"
  BY Zenon DEF ViewIntent, Recorded
<1>3. CASE A = Poison(S.audit, TRUE)
  <2>1. Quiet(S.audit, A) /\ A.poisoned
    BY <1>1, <1>3, PoisonQuiet, Zenon DEF Poison, Replay
  <2>2. T.audit = A
    BY <1>1, <2>1, LogFields, Zenon DEF Quiet
  <2>3. G = T /\ Keeps(S, G)
    BY <2>1, <2>2, LogQuiet, Zenon DEF grant_view
  <2> QED
    BY <2>3, Zenon DEF Keeps, Good, Open
<1>4. CASE A = R /\ Accepting(S.audit) /\ S.audit.backings[id.object] = "Active"
           /\ S.audit.views[v] = "None"
  <2>1. /\ R \in Replay /\ R.backings = S.audit.backings
        /\ R.terminated = S.audit.terminated /\ R.checkpointed = S.audit.checkpointed
        /\ R.poisoned = S.audit.poisoned
        /\ R.views = [S.audit.views EXCEPT ![v] = "Intent"]
        /\ R.view_id = [S.audit.view_id EXCEPT ![v] = id]
        /\ R.backing_id = S.audit.backing_id
    BY <1>1, Zenon DEF Replay, ViewState
  <2> HIDE DEF R
  <2>2. /\ Held(R) = Held(S.audit) /\ Unresolved(R) = Unresolved(S.audit) \cup {v}
        /\ v \notin Unresolved(S.audit) /\ id.object \in Held(R)
    BY <1>1, <1>4, <2>1 DEF Held, Unresolved, Replay, ViewIdentity
  <2>3. AuditGood(R) /\ \A u \in Unresolved(S.audit) : R.view_id[u] = S.audit.view_id[u]
    <3>1. /\ R.view_id[v] = id
          /\ \A u \in Unresolved(S.audit) : R.view_id[u] = S.audit.view_id[u]
      BY <1>1, <2>1, <2>2, ZenonT(60) DEF Replay, Unresolved
    <3>2. /\ AuditGood(S.audit) /\ ~R.checkpointed
      BY <1>1, <1>4, <2>1, Zenon DEF Good, Accepting
    <3>. QED
      BY <1>1, <2>1, <2>2, <3>1, <3>2 DEF AuditGood
  <2>4. /\ T \in State /\ T.audit = R /\ T.charged = S.charged /\ T.views = S.views
        /\ T.authority = S.authority /\ T.state = S.state /\ T.sessions = S.sessions
    BY <1>1, <1>4, <2>1, LogFields
  <2> HIDE DEF T
  <2>5. /\ U \in State /\ U.audit = R /\ U.charged = S.charged
        /\ U.views = [S.views EXCEPT ![v] = "pending"]
        /\ U.authority = "dirty" /\ U.state = S.state /\ U.sessions = S.sessions
    BY <2>4, Zenon DEF State
  <2> HIDE DEF U
  <2>a. \A u \in View : U.views[u] # "none" => U.audit.view_id[u] \in ViewIdentity
    BY <1>1, <2>1, <2>5 DEF Good, State, Replay
  <2>b. \A c \in Present(U) : U.audit.backing_id[c] \in BackingIdentity
    BY <2>1, <2>5, Zenon DEF Good, Present
  <2>6. \A u \in View : u # v => U.views[u] = S.views[u]
    BY <1>1, <2>5, ZenonT(60) DEF State
  <2>7. U.views[v] = "pending"
    BY <1>1, <2>5, Zenon DEF State
  <2>c. Refs(S) => Refs(U)
    <3>1. /\ R.view_id[v] = id
          /\ \A u \in View : u # v => R.view_id[u] = S.audit.view_id[u]
      BY <1>1, <2>1, Zenon DEF Replay
    <3>2. Present(U) = Present(S) /\ \A u \in Open(U) : u = v \/ u \in Open(S)
      BY <2>5, <2>6, Zenon DEF Open, Present
    <3>3. ASSUME Refs(S), NEW c \in Present(U)
          PROVE  U.sessions[R.backing_id[c].owner] # "none"
      BY <2>1, <2>5, <3>2, <3>3 DEF Refs
    <3>4. ASSUME Refs(S), NEW u \in Open(U)
          PROVE  U.sessions[R.view_id[u].accessor] # "none" /\ R.view_id[u].object \in Present(U)
      BY <2>5, <3>1, <3>2, <3>4 DEF Refs, Open
    <3> QED
      BY <2>5, <3>3, <3>4, Zenon DEF Refs
  <2>d. Halts(S, U)
    BY Zenon DEF Halts
  <2>8. Keeps(S, U)
    BY <2>2, <2>3, <2>5, <2>6, <2>7, <2>a, <2>b, <2>c, <2>d, Zenon DEF Keeps, Good, Open
  <2>9. Keeps(U, Bump(U, 1))
    BY <2>8, KeepsGood, BumpKeeps, Zenon
  <2>10. ~T.audit.poisoned
    BY <1>4, <2>1, <2>4, Zenon DEF Accepting
  <2>11. G = Bump(U, 1)
    BY <2>10, Zenon DEF grant_view, U, T
  <2>12. Keeps(S, G)
    BY <2>8, <2>9, <2>11, KeepsTransitive, Zenon
  <2>13. v \in Unresolved(Bump(U, 1).audit)
    BY <2>2, <2>5, <2>9, Zenon DEF Keeps
  <2> QED
    BY <2>11, <2>12, <2>13, Zenon
<1> QED
  BY <1>2, <1>3, <1>4, Zenon

----------------------------------------------------------------------------

\* Keeps, for the operations that resolve or activate the one view v.
KeepsOthers(S, T, v) ==
    /\ Good(T)
    /\ \A u \in Unresolved(S.audit) \ {v} :
         u \in Unresolved(T.audit) /\ T.audit.view_id[u] = S.audit.view_id[u]
    /\ \A u \in View \ {v} : T.views[u] = "active" => S.views[u] = "active"
    /\ S.authority = "dirty" => T.authority = "dirty"
    /\ Refs(S) => Refs(T)
    /\ Halts(S, T)

\* What keeps every view keeps all but one.
LEMMA KeepsOthersWeaker ==
    ASSUME NEW S, NEW T, NEW v, Keeps(S, T)
    PROVE KeepsOthers(S, T, v)
  BY Zenon DEF Keeps, KeepsOthers

\* Operations on one view compose.
LEMMA KeepsOthersTransitive ==
    ASSUME NEW S, NEW T, NEW U, NEW v, KeepsOthers(S, T, v), KeepsOthers(T, U, v)
    PROVE KeepsOthers(S, U, v)
<1>1. Halts(S, U)
  BY Zenon DEF KeepsOthers, Halts
<1> QED
  BY <1>1, Zenon DEF KeepsOthers

\* A closed view is the only one that is resolved.
LEMMA ViewCloseDoneEffect ==
    ASSUME NEW A, AuditGood(A), NEW lost, NEW v \in View
    PROVE LET B == ViewCloseDone(A, lost, v)
          IN /\ AuditGood(B) /\ Held(B) = Held(A) /\ B.terminated = A.terminated
             /\ Unresolved(B) \subseteq Unresolved(A) /\ Unresolved(A) \ {v} \subseteq Unresolved(B)
             /\ B.view_id = A.view_id /\ B.backing_id = A.backing_id
<1> DEFINE done == Recorded(A, lost, "ViewCloseDone", {u \in {v} : A.views[u] \in {"Closing"}})
           f == [u \in View |-> IF u \in done THEN "Closed" ELSE A.views[u]]
           B == Poison([A EXCEPT !.views = f], ~({v} \subseteq done))
<1>1. done \subseteq {v}
  BY Zenon DEF Recorded
<1>2. A \in Replay
  BY Zenon DEF AuditGood
<1>3. ViewCloseDone(A, lost, v) = B
  BY <1>2, Zenon DEF ViewCloseDone, MoveViews, Replay
<1> HIDE DEF done
<1>4. f \in [View -> ViewState]
  BY <1>2, Zenon DEF Replay, ViewState
<1> HIDE DEF f
<1>5. /\ B \in Replay /\ B.views = f /\ B.backings = A.backings /\ B.view_id = A.view_id
      /\ B.backing_id = A.backing_id
      /\ B.terminated = A.terminated /\ B.checkpointed = A.checkpointed
  BY <1>2, <1>4, Zenon DEF Poison, Replay
<1> HIDE DEF B
<1>6. Held(B) = Held(A)
  BY <1>5, Zenon DEF Held
<1>7. Unresolved(B) \subseteq Unresolved(A) /\ Unresolved(A) \ {v} \subseteq Unresolved(B)
  BY <1>1, <1>5, Zenon DEF Unresolved, f
<1> QED
  BY <1>3, <1>5, <1>6, <1>7, Zenon DEF AuditGood, Zero

\* A release resolves the released view only.
LEMMA ReleaseKeeps ==
    ASSUME NEW S, Good(S), NEW lost, NEW v \in View
    PROVE KeepsOthers(S, release_view(S, lost, v), v)
<1> DEFINE L == Log(S, ViewCloseIntent(S.audit, lost, v))
           T == CloseViews(L, {v})
           A == ViewCloseDone(T.audit, lost, v)
<1>1. release_view(S, lost, v) \in {S, T, Log(T, A)}
  BY Zenon DEF release_view
<1>2. Keeps(S, L)
  BY LogQuiet, ViewEventsQuiet, Zenon DEF Good, AuditGood
<1> HIDE DEF L
<1>3. Keeps(L, T) /\ v \notin Open(T)
  BY <1>2, CloseViewsKeeps DEF Keeps
<1>4. Keeps(S, T) /\ Good(T)
  BY <1>2, <1>3, KeepsTransitive, Zenon DEF Keeps
<1> HIDE DEF T
<1>5. /\ AuditGood(A) /\ Held(A) = Held(T.audit) /\ A.terminated = T.audit.terminated
      /\ Unresolved(A) \subseteq Unresolved(T.audit)
      /\ Unresolved(T.audit) \ {v} \subseteq Unresolved(A) /\ A.view_id = T.audit.view_id
      /\ A.backing_id = T.audit.backing_id
  BY <1>4, ViewCloseDoneEffect, ZenonT(30) DEF Good
<1> HIDE DEF A
<1>6. /\ Log(T, A) \in State /\ Log(T, A).audit = A /\ Log(T, A).charged = T.charged
      /\ Log(T, A).views = T.views /\ Log(T, A).authority = T.authority
      /\ Log(T, A).uncertain_exposure = T.uncertain_exposure /\ Log(T, A).state = T.state
      /\ Log(T, A).sessions = T.sessions
  BY <1>4, <1>5, LogFields, Zenon DEF Good, AuditGood
<1>a. Steady(T, Log(T, A))
  BY <1>5, <1>6, Zenon DEF Steady, Present
<1>b. (Refs(T) => Refs(Log(T, A))) /\ Halts(T, Log(T, A))
  BY <1>4, <1>a, SteadyStep, Zenon
<1>7. Good(Log(T, A))
  BY <1>3, <1>4, <1>5, <1>6, Zenon DEF Good, Zero, Open, Present
<1>8. KeepsOthers(T, Log(T, A), v)
  BY <1>5, <1>6, <1>7, <1>b, Zenon DEF KeepsOthers
<1> QED
  BY <1>1, <1>4, <1>8, KeepsOthersWeaker, KeepsOthersTransitive, KeepsReflexive, Zenon

\* A committed registration stays charged.
LEMMA CommitRegistrationKeeps ==
    ASSUME NEW S, Good(S), NEW lost, NEW b \in Backing, CanCommitRegistration(S, b)
    PROVE Keeps(S, commit_registration(S, lost, b))
<1> DEFINE T == Log(S, RegisterCommit(S.audit, lost, b))
           id == S.audit.backing_id[b]
           st == IF id.purpose = "Immutable" THEN "active" ELSE T.state[b]
           U == [T EXCEPT !.handoff_pending = @ \ {b}, !.state[b] = st,
                          !.committed = @ \cup {id.owner}]
<1>a. S \in State /\ S.audit \in Replay
  BY Zenon DEF Good, AuditGood
<1>b. Quiet(S.audit, RegisterCommit(S.audit, lost, b))
  BY <1>a, RegistrationEventsQuiet, Zenon
<1>1. /\ Keeps(S, T) /\ T \in State /\ T.state = S.state
      /\ T.uncertain_exposure = S.uncertain_exposure
  BY <1>a, <1>b, LogQuiet, LogFields, Zenon DEF Quiet
<1>2. commit_registration(S, lost, b) \in {T, Bump(U, 1)}
  BY <1>1, Zenon DEF commit_registration, State
<1> HIDE DEF T
<1>3. b \in Present(S) /\ id.owner \in Proc
  BY Zenon DEF CanCommitRegistration, Present, Good, BackingIdentity
<1>4. st \in {"pending", "active", "retired"} /\ b \in Present(T)
  BY <1>1, <1>3, Zenon DEF State, Present
<1> HIDE DEF id, st
<1>5. /\ U \in State /\ U.audit = T.audit /\ U.charged = T.charged /\ U.views = T.views
      /\ U.authority = T.authority /\ U.uncertain_exposure = T.uncertain_exposure
      /\ U.state = [T.state EXCEPT ![b] = st] /\ U.sessions = T.sessions
  BY <1>1, <1>3, <1>4, Zenon DEF State
<1> HIDE DEF U
<1>6. Present(U) = Present(T)
  BY <1>1, <1>4, <1>5, Zenon DEF State, Present
<1>c. Refs(T) => Refs(U)
  BY <1>5, <1>6, Zenon DEF Refs, Open
<1>d. Halts(T, U)
  BY <1>1, Zenon DEF Halts, CanCommitRegistration, Admitted
<1>7. Keeps(T, U) /\ Good(U)
  BY <1>1, <1>5, <1>6, <1>c, <1>d, QuietStep, ZenonT(30) DEF Good, AuditGood, Quiet, Open, Keeps
<1> QED
  BY <1>1, <1>2, <1>7, BumpKeeps, KeepsTransitive

\* A commit activates the committed view only.
LEMMA CommitViewKeeps ==
    ASSUME NEW S, Good(S), NEW lost, NEW v \in View, CanCommitView(S, v)
    PROVE /\ KeepsOthers(S, commit_view(S, lost, v), v)
          /\ v \in Unresolved(S.audit)
          /\ v \in Unresolved(commit_view(S, lost, v).audit)
          /\ commit_view(S, lost, v).audit.view_id[v] = S.audit.view_id[v]
<1> DEFINE T == Log(S, ViewCommit(S.audit, lost, v))
           U == [T EXCEPT !.views[v] = "active",
                          !.committed = @ \cup {S.audit.view_id[v].accessor}]
<1>a. S \in State /\ S.audit \in Replay
  BY Zenon DEF Good, AuditGood
<1>b. Quiet(S.audit, ViewCommit(S.audit, lost, v))
  BY <1>a, ViewEventsQuiet, Zenon
<1>1. /\ Keeps(S, T) /\ T \in State /\ Quiet(S.audit, T.audit) /\ T.views = S.views
      /\ T.uncertain_exposure = S.uncertain_exposure
  BY <1>a, <1>b, LogQuiet, LogFields, Zenon DEF Quiet
<1>2. commit_view(S, lost, v) \in {T, Bump(U, 1)}
  BY Zenon DEF commit_view
<1> HIDE DEF T
<1>3. v \in Open(S) /\ v \in Unresolved(S.audit) /\ S.audit.view_id[v].accessor \in Proc
  BY Zenon DEF CanCommitView, Open, Good, AuditGood, ViewIdentity
<1>4. /\ U \in State /\ U.audit = T.audit /\ U.charged = T.charged /\ U.state = T.state
      /\ U.authority = T.authority /\ U.uncertain_exposure = T.uncertain_exposure
      /\ U.views = [T.views EXCEPT ![v] = "active"] /\ U.sessions = T.sessions
  BY <1>1, <1>3, Zenon DEF State
<1> HIDE DEF U
<1>5. \A u \in View \ {v} : U.views[u] = T.views[u]
  <2>1. DOMAIN T.views = View
    BY <1>1, Zenon DEF State
  <2>. QED
    BY <1>4, <2>1
<1>6. T.views[v] # "none" /\ v \in Unresolved(T.audit)
  BY <1>1, <1>3, Zenon DEF Open, Quiet
<1>7. Good(U)
  BY <1>1, <1>4, <1>5, <1>6, Zenon DEF Keeps, Good, Open, Present
<1>c. Refs(T) => Refs(U)
  <2>1. Present(U) = Present(T) /\ Open(U) \subseteq Open(T)
    BY <1>1, <1>3, <1>4, <1>5, Zenon DEF Open, Present
  <2> QED
    BY <1>4, <2>1, Zenon DEF Refs
<1>d. Halts(T, U)
  BY <1>1, Zenon DEF Halts, CanCommitView, Admitted
<1>8. KeepsOthers(T, U, v)
  BY <1>4, <1>5, <1>7, <1>c, <1>d, Zenon DEF KeepsOthers
<1>9. Keeps(U, Bump(U, 1))
  BY <1>7, BumpKeeps, Zenon
<1>10. KeepsOthers(S, T, v) /\ KeepsOthers(S, Bump(U, 1), v)
  BY <1>1, <1>8, <1>9, KeepsOthersWeaker, KeepsOthersTransitive, Zenon
<1>11. \A W \in {T, Bump(U, 1)} :
         v \in Unresolved(W.audit) /\ W.audit.view_id[v] = S.audit.view_id[v]
  <2>1. v \in Unresolved(T.audit) /\ T.audit.view_id[v] = S.audit.view_id[v]
    BY <1>1, <1>6, Zenon DEF Quiet
  <2>2. U.audit = T.audit
    BY <1>4, Zenon
  <2>3. \A u \in Unresolved(U.audit) :
          u \in Unresolved(Bump(U, 1).audit) /\ Bump(U, 1).audit.view_id[u] = U.audit.view_id[u]
    BY <1>9, Zenon DEF Keeps
  <2>. QED
    BY <2>1, <2>2, <2>3
<1> QED
  BY <1>2, <1>3, <1>10, <1>11, Zenon

-----------------------------------------------------------------------------
\* Undoing a view never forgets that its FD may be out.
LEMMA MarkExposedKeeps ==
    ASSUME NEW S, Good(S), NEW lost, NEW v \in View
    PROVE Keeps(S, MarkExposed(S, lost, v))
<1> DEFINE A == IF S.views[v] = "pending" THEN ViewAbort(S.audit, lost, v)
                                          ELSE ViewCommitUnconfirmed(S.audit, lost, v)
           L == Log(S, A)
           U == [L EXCEPT !.uncertain_exposure = TRUE, !.admission_poisoned = TRUE]
<1>1. S \in State /\ S.audit \in Replay
  BY Zenon DEF Good, AuditGood
<1>2. Quiet(S.audit, A)
  BY <1>1, ViewEventsQuiet, Zenon
<1>3. Keeps(S, L) /\ L \in State
  BY <1>1, <1>2, LogQuiet, LogFields, Zenon DEF Quiet
<1>4. CASE S.views[v] \notin {"pending", "active"}
  BY <1>4, KeepsReflexive, Zenon DEF MarkExposed
<1>5. CASE S.views[v] \in {"pending", "active"}
  <2>1. MarkExposed(S, lost, v) = U
    BY <1>5, Zenon DEF MarkExposed
  <2>2. S.authority = "dirty"
    BY <1>1, <1>5, Zenon DEF Good, Zero, Open, State
  <2> HIDE DEF L
  <2>3. /\ U \in State /\ U.audit = L.audit /\ U.charged = L.charged /\ U.views = L.views
        /\ U.state = L.state /\ U.authority = L.authority /\ U.sessions = L.sessions
        /\ U.uncertain_exposure
    BY <1>3, Zenon DEF State
  <2> HIDE DEF U
  <2>a. (Refs(L) => Refs(U)) /\ Halts(L, U)
    <3>1. Steady(L, U)
      BY <2>3, Zenon DEF Steady, Present
    <3>2. Good(L)
      BY <1>3, KeepsGood, Zenon
    <3> QED
      BY <3>1, <3>2, SteadyStep, Zenon
  <2>4. Keeps(L, U)
    <3>1. Good(L) /\ L.audit \in Replay /\ U.authority # "clean"
      BY <1>3, <2>2, <2>3, Zenon DEF Keeps, Good, AuditGood
    <3>2. Quiet(L.audit, U.audit) /\ Present(U) \subseteq Present(L)
      BY <2>3, <3>1, Zenon DEF Quiet, Present
    <3> QED
      BY <2>3, <2>a, <3>1, <3>2, QuietStep, Zenon
  <2> QED
    BY <1>3, <2>1, <2>4, KeepsTransitive, Zenon
<1> QED
  BY <1>4, <1>5, Zenon

\* An undone view stays unresolved.
LEMMA UndoViewKeeps ==
    ASSUME NEW S, Good(S), NEW lost, NEW v \in View
    PROVE Keeps(S, undo_view(S, lost, v))
<1> DEFINE M == MarkExposed(S, lost, v)
           C == CloseViews(M, {v})
           T == collect_retired(C, lost)
<1>1. Keeps(S, M)
  BY MarkExposedKeeps, Zenon
<1>2. undo_view(S, lost, v) \in {T, discard_uncommitted_session(T, S.audit.view_id[v].accessor)}
  BY Zenon DEF undo_view
<1> HIDE DEF M
<1>3. Keeps(M, C)
  <2>1. Good(M) /\ {v} \in SUBSET View
    BY <1>1, KeepsGood
  <2>. QED
    BY <2>1, CloseViewsKeeps, Zenon
<1> HIDE DEF C
<1>4. Keeps(C, T)
  BY <1>3, CollectKeeps DEF Keeps
<1> HIDE DEF T
<1>5. Keeps(S, T)
  BY <1>1, <1>3, <1>4, KeepsTransitive, Zenon
<1>6. Keeps(T, discard_uncommitted_session(T, S.audit.view_id[v].accessor))
  <2>1. Good(T)
    BY <1>5, KeepsGood
  <2>. QED
    BY <2>1, DiscardKeeps, Zenon
<1> QED
  BY <1>2, <1>5, <1>6, KeepsTransitive

\* An undone registration is retired and collected like any other.
LEMMA UndoRegistrationKeeps ==
    ASSUME NEW S, Good(S), NEW lost, NEW b \in Backing
    PROVE Keeps(S, undo_registration(S, lost, b))
<1> DEFINE R == Retire(S, lost, {b})
           T == collect_retired(R, lost)
<1>1. Keeps(S, R)
  BY RetireKeeps, Zenon
<1>2. undo_registration(S, lost, b) \in {T, discard_uncommitted_session(T, S.audit.backing_id[b].owner)}
  BY Zenon DEF undo_registration
<1> HIDE DEF R
<1>3. Keeps(R, T)
  BY <1>1, CollectKeeps DEF Keeps
<1> HIDE DEF T
<1>4. Keeps(S, T)
  BY <1>1, <1>3, KeepsTransitive, Zenon
<1>5. Keeps(T, discard_uncommitted_session(T, S.audit.backing_id[b].owner))
  <2>1. Good(T)
    BY <1>4, KeepsGood
  <2>. QED
    BY <2>1, DiscardKeeps, Zenon
<1> QED
  BY <1>2, <1>4, <1>5, KeepsTransitive

\* Shutdown resolves nothing: it only writes down what is already so.
LEMMA FinishShutdownKeeps ==
    ASSUME NEW S, Good(S), NEW lost
    PROVE LET T == finish_shutdown(S, lost)
          IN /\ Good(T) /\ T.views = S.views
             /\ Unresolved(T.audit) = Unresolved(S.audit) /\ T.audit.view_id = S.audit.view_id
             /\ (Refs(S) => Refs(T)) /\ Halts(S, T)
<1> DEFINE failed(T) == [T EXCEPT !.admission_poisoned = TRUE]
           Same(T) == /\ Good(T) /\ T.views = S.views
                      /\ Unresolved(T.audit) = Unresolved(S.audit)
                      /\ T.audit.view_id = S.audit.view_id
                      /\ T.uncertain_exposure = S.uncertain_exposure
                      /\ T.audit.backing_id = S.audit.backing_id
                      /\ T.state = S.state /\ T.sessions = S.sessions
           drained == Log(S, BrokerDrained(S.audit, lost))
           C == CleanCheckpoint(drained.audit, lost)
           sealed == [drained EXCEPT !.audit = C]
<1>1. S \in State /\ S.audit \in Replay /\ Same(S)
  BY Zenon DEF Good, AuditGood
<1>2. ASSUME NEW T, Same(T)
      PROVE  Same(failed(T))
  <2>1. /\ failed(T) \in State /\ failed(T).audit = T.audit /\ failed(T).charged = T.charged
        /\ failed(T).views = T.views /\ failed(T).state = T.state
        /\ failed(T).authority = T.authority
        /\ failed(T).uncertain_exposure = T.uncertain_exposure
        /\ failed(T).sessions = T.sessions
    BY <1>2, Zenon DEF Good, State
  <2> QED
    BY <1>2, <2>1, Zenon DEF Good, Open, Present
<1>3. Quiet(S.audit, BrokerDrained(S.audit, lost))
  BY <1>1, BrokerEventsQuiet, Zenon
<1>4. Same(drained)
  BY <1>1, <1>3, LogQuiet, LogFields, Zenon DEF Quiet, Keeps
<1>5. finish_shutdown(S, lost) =
        IF S.uncertain_exposure THEN failed(S)
        ELSE IF ~S.audit.broker_birth
        THEN IF /\ ~S.audit.poisoned /\ ~S.admission_poisoned
                /\ Present(S) = {} /\ \A v \in View : S.views[v] = "none" /\ S.copy_work = {}
             THEN S ELSE failed(S)
        ELSE IF ~Reconciled(S) THEN failed(S)
        ELSE IF ~sealed.audit.checkpointed THEN failed(sealed)
        ELSE PublishClean(sealed, lost)
  BY <1>4, Zenon DEF finish_shutdown, Good, State
<1> HIDE DEF drained
<1>6. /\ AuditGood(C) /\ Held(C) = Held(drained.audit)
      /\ Unresolved(C) = Unresolved(drained.audit) /\ C.view_id = drained.audit.view_id
      /\ C.backing_id = drained.audit.backing_id /\ (Zero(drained.audit) => Zero(C))
  <2>1. drained.audit \in Replay /\ AuditGood(drained.audit)
    BY <1>4, Zenon DEF Good, AuditGood
  <2>2. CASE C = drained.audit
    BY <2>1, <2>2, Zenon
  <2>3. CASE C = Poison(drained.audit, TRUE)
    BY <2>1, <2>3, PoisonQuiet, ZenonT(60) DEF Quiet, AuditGood, Zero
  <2>4. CASE C = [drained.audit EXCEPT !.checkpointed = TRUE] /\ ZeroObligations(drained.audit)
    <3> DEFINE A == drained.audit
    <3>1. /\ C \in Replay /\ C.backings = A.backings /\ C.views = A.views
          /\ C.view_id = A.view_id /\ C.backing_id = A.backing_id /\ C.terminated = A.terminated
      BY <2>1, <2>4, Zenon DEF Replay
    <3>2. Held(C) = Held(A) /\ Unresolved(C) = Unresolved(A)
      BY <3>1, Zenon DEF Held, Unresolved
    <3>3. Zero(A)
      <4>1. Held(A) = {} /\ unresolved_holders(A) = {}
        BY <2>4, Zenon DEF ZeroObligations
      <4>2. \A v \in Unresolved(A) : A.view_id[v].accessor \in unresolved_holders(A)
        BY Zenon DEF unresolved_holders
      <4>3. A.terminated \subseteq unresolved_holders(A)
        BY Zenon DEF unresolved_holders
      <4> QED
        BY <4>1, <4>2, <4>3, Zenon DEF Zero
    <3> QED
      BY <3>1, <3>2, <3>3, Zenon DEF AuditGood, Zero
  <2> QED
    BY <2>2, <2>3, <2>4, Zenon DEF CleanCheckpoint
<1> HIDE DEF C
<1>7. Same(sealed) /\ sealed.audit = C
  <2>1. /\ sealed \in State /\ sealed.audit = C /\ sealed.charged = drained.charged
        /\ sealed.views = drained.views /\ sealed.state = drained.state
        /\ sealed.authority = drained.authority
        /\ sealed.uncertain_exposure = drained.uncertain_exposure
        /\ sealed.sessions = drained.sessions
    BY <1>4, <1>6, Zenon DEF Good, State, AuditGood
  <2> QED
    BY <1>4, <1>6, <2>1, Zenon DEF Good, Open, Present
<1> HIDE DEF sealed
<1>8. ASSUME sealed.audit.checkpointed, ~S.uncertain_exposure
      PROVE  Same(PublishClean(sealed, lost))
  <2> DEFINE P == PublishClean(sealed, lost)
  <2>1. /\ P \in State /\ P.audit = sealed.audit /\ P.charged = sealed.charged
        /\ P.views = sealed.views /\ P.state = sealed.state
        /\ P.uncertain_exposure = sealed.uncertain_exposure /\ P.sessions = sealed.sessions
    BY <1>7, Zenon DEF PublishClean, Good, State
  <2>2. Zero(P.audit) /\ ~P.uncertain_exposure
    BY <1>7, <1>8, <2>1, Zenon DEF Good, AuditGood
  <2> HIDE DEF P
  <2>3. Good(P)
    BY <1>7, <2>1, <2>2, Zenon DEF Good, Open, Present
  <2> QED
    BY <1>7, <2>1, <2>3, Zenon DEF P
<1>9. Same(finish_shutdown(S, lost))
  <2>1. Same(failed(S)) /\ Same(failed(sealed))
    BY <1>1, <1>2, <1>7, Zenon
  <2> QED
    BY <1>1, <1>5, <1>8, <2>1, Zenon
<1>10. S.uncertain_exposure => finish_shutdown(S, lost).authority = S.authority
  <2>1. failed(S).authority = S.authority
    BY <1>1, Zenon DEF State
  <2> QED
    BY <1>5, <2>1, Zenon
<1> DEFINE F == finish_shutdown(S, lost)
<1> HIDE DEF F
<1>11. Steady(S, F)
  BY <1>9, <1>10, Zenon DEF Steady, Present, F
<1>12. (Refs(S) => Refs(F)) /\ Halts(S, F)
  BY <1>11, SteadyStep, Zenon
<1> QED
  BY <1>9, <1>12, Zenon DEF F

----------------------------------------------------------------------------

\* The inductive invariant: the broker's state is Good, a view whose FD may be
\* out is unresolved, and so is one whose reply is about to be sent (and it
\* cannot be released yet); a handoff under way means a dirty state file.
Inv ==
    /\ Good(ext) /\ Refs(ext)
    /\ handoff \in [Backing \cup View -> {"none", "replied", "sent", "committed", "undo"}]
    /\ exposed \subseteq Unresolved(ext.audit) /\ alive \subseteq Proc
    /\ phase \in {"running", "draining", "stopped"}
    /\ \A v \in View : handoff[v] = "replied" =>
         v \in Unresolved(ext.audit) /\ ext.views[v] # "active"
    /\ \A x \in Backing \cup View :
         handoff[x] \in {"replied", "sent", "committed"} => ext.authority = "dirty"

\* The broker starts with nothing promised.
LEMMA InitInv == Init => Inv
<1> SUFFICES ASSUME Init PROVE Inv
  OBVIOUS
<1>1. /\ NewReplay \in Replay /\ NewReplay.backings = [b \in Backing |-> "None"]
      /\ NewReplay.views = [v \in View |-> "None"] /\ NewReplay.terminated = {}
      /\ NewReplay.checkpointed = FALSE
  BY Zenon DEF NewReplay, Replay, BackingState, ViewState
<1>2. Zero(NewReplay)
  BY <1>1, Zenon DEF Zero, Held, Unresolved
<1>3. AuditGood(NewReplay)
  BY <1>1, <1>2, Zenon DEF AuditGood, Zero
<1>4. /\ NewState \in State /\ NewState.audit = NewReplay /\ NewState.charged = {}
      /\ NewState.views = [v \in View |-> "none"] /\ NewState.state = [b \in Backing |-> "none"]
      /\ NewState.uncertain_exposure = FALSE
  BY <1>1, Zenon DEF NewState, State
<1>5. Good(NewState)
  BY <1>2, <1>3, <1>4, Zenon DEF Good, Zero, Open, Present
<1>6. Refs(NewState)
  BY <1>4, Zenon DEF Refs, Open, Present
<1> QED
  BY <1>5, <1>6, Zenon DEF Init, Inv

\* A step of the broker that hands nothing over.
LEMMA InvKept ==
    ASSUME Inv, Keeps(ext, ext'), UNCHANGED <<handoff, exposed, alive, phase>>
    PROVE Inv' /\ Halts(ext, ext')
<1>1. Good(ext') /\ Refs(ext') /\ exposed' \subseteq Unresolved(ext'.audit)
  BY Zenon DEF Inv, Keeps
<1>2. \A v \in View : handoff'[v] = "replied" =>
        v \in Unresolved(ext'.audit) /\ ext'.views[v] # "active"
  BY Zenon DEF Inv, Keeps
<1>3. \A x \in Backing \cup View :
        handoff'[x] \in {"replied", "sent", "committed"} => ext'.authority = "dirty"
  <2>1. ext.authority = "dirty" => ext'.authority = "dirty"
    BY Zenon DEF Keeps
  <2> QED
    BY <2>1, Zenon DEF Inv
<1>4. Halts(ext, ext')
  BY Zenon DEF Keeps
<1> QED
  BY <1>1, <1>2, <1>3, <1>4, Zenon DEF Inv

\* An admitted request finds a good state that is marked dirty.
LEMMA EnteredKeeps ==
    ASSUME Inv, NEW p \in Proc, NEW lost
    PROVE /\ Keeps(ext, Entered(p, lost))
          /\ Admitted(Entered(p, lost)) => Entered(p, lost).authority = "dirty"
          /\ Entered(p, lost).sessions[p] # "none"
<1> DEFINE R == refresh(ext, alive, lost)
           B == before_admission(R, lost)
<1>1. Keeps(ext, R)
  BY RefreshKeeps, Zenon DEF Inv
<1> HIDE DEF R
<1>2. Keeps(R, B) /\ (Admitted(B) => B.authority = "dirty")
  <2>1. Good(R)
    BY <1>1, KeepsGood
  <2>. QED
    BY <2>1, AdmissionKeeps, Zenon
<1> HIDE DEF B
<1>3. /\ Keeps(B, session(B, p)) /\ session(B, p).authority = B.authority
      /\ session(B, p).sessions[p] # "none"
  BY <1>2, SessionKeeps, ZenonT(60) DEF Keeps
<1>4. Admitted(session(B, p)) => Admitted(B)
  <2> DEFINE T == [B EXCEPT !.sessions[p] = "live"]
  <2>1. T \in State /\ T.audit = B.audit /\ T.uncertain_exposure = B.uncertain_exposure
    BY <1>2, Zenon DEF Keeps, Good, State
  <2>2. session(B, p) = B \/ session(B, p) = Bump(T, 1)
    BY Zenon DEF session
  <2> HIDE DEF T
  <2> QED
    <3>1. /\ Quiet(T.audit, Bump(T, 1).audit)
          /\ Bump(T, 1).audit.poisoned = T.audit.poisoned
          /\ Bump(T, 1).uncertain_exposure = T.uncertain_exposure
      BY <2>1, BumpFields
    <3>. QED
      BY <2>1, <2>2, <3>1, Zenon DEF Admitted
<1> QED
  BY <1>1, <1>2, <1>3, <1>4, KeepsTransitive, Zenon DEF Entered, R, B

\* What Register and Acquire share: a provisional reply for x, or none.
LEMMA HandKeepsInv ==
    ASSUME Inv, NEW x \in Backing \cup View, NEW T, Keeps(ext, T),
           NEW provisional \in BOOLEAN, NEW p \in Proc, NEW lost,
           Hand(x, T, provisional, p, lost),
           provisional => T.authority = "dirty",
           x \in View /\ provisional => x \in Unresolved(T.audit) /\ T.views[x] # "active"
    PROVE Inv' /\ Halts(ext, ext')
<1>1. CASE ~provisional
  <2>1. ext' = Finished(T, p, lost) /\ UNCHANGED <<handoff, exposed, alive, phase>>
    BY <1>1, Zenon DEF Hand, Inv
  <2>2. Good(T)
    BY Zenon DEF Keeps
  <2>3. Keeps(T, ext')
    BY <2>1, <2>2, FinishedKeeps, Zenon
  <2>4. Keeps(ext, ext')
    BY <2>3, KeepsTransitive, Zenon
  <2> QED
    BY <2>1, <2>4, InvKept, Zenon
<1>2. CASE provisional
  <2>1. /\ ext' = T /\ handoff' = [handoff EXCEPT ![x] = "replied"]
        /\ UNCHANGED <<exposed, alive, phase>>
    BY <1>2, Zenon DEF Hand
  <2>2. handoff' \in [Backing \cup View -> {"none", "replied", "sent", "committed", "undo"}]
    BY <2>1, Zenon DEF Inv
  <2>3. \A v \in View : handoff'[v] = "replied" =>
          v \in Unresolved(ext'.audit) /\ ext'.views[v] # "active"
    BY <1>2, <2>1, Zenon DEF Inv, Keeps
  <2>4. Inv'
    BY <1>2, <2>1, <2>2, <2>3, Zenon DEF Inv, Keeps
  <2> QED
    BY <2>1, <2>4, Zenon DEF Keeps
<1> QED
  BY <1>1, <1>2, Zenon

\* One step per action of Next.
LEMMA NextInv == Inv /\ [Next]_vars => Inv' /\ Halts(ext, ext')
<1> SUFFICES ASSUME Inv, [Next]_vars PROVE Inv' /\ Halts(ext, ext')
  OBVIOUS
<1>c. ASSUME UNCHANGED ext PROVE Halts(ext, ext')
  BY <1>c, Zenon DEF Halts
<1>a. \A lost : Keeps(ext, refresh(ext, alive, lost))
  BY RefreshKeeps, Zenon DEF Inv
<1>b. ASSUME NEW lost
      PROVE LET S == before_admission(refresh(ext, alive, lost), lost)
            IN Keeps(ext, S) /\ (Admitted(S) => S.authority = "dirty")
  <2> DEFINE R == refresh(ext, alive, lost)
  <2>1. Keeps(ext, R)
    BY <1>a, Zenon
  <2> HIDE DEF R
  <2>g. Good(R)
    BY <2>1, Zenon DEF Keeps
  <2>2. Keeps(R, before_admission(R, lost))
        /\ (Admitted(before_admission(R, lost)) => before_admission(R, lost).authority = "dirty")
    BY <2>g, AdmissionKeeps, Zenon
  <2> QED
    BY <2>1, <2>2, KeepsTransitive, Zenon DEF R
<1>1. ASSUME NEW lost, NEW p \in Proc, NEW b \in Backing, NEW id \in Registrations,
             Register(p, b, id, lost)
      PROVE Inv' /\ Halts(ext, ext')
  <2> DEFINE S == Entered(p, lost)
             T == register(S, lost, b, id)
  <2>1. /\ Keeps(ext, S) /\ S.authority = "dirty" /\ ~S.uncertain_exposure
        /\ S.sessions[p] # "none" /\ id.owner = p
    BY <1>1, EnteredKeeps, Zenon DEF Register, Admitted
  <2>2. Hand(b, T, T.state[b] = "pending", p, lost)
    BY <1>1, Zenon DEF Register
  <2> HIDE DEF S
  <2>g. Good(S) /\ id \in BackingIdentity
    BY <2>1, RequestAssumption, Zenon DEF Keeps
  <2>3. Keeps(S, T)
    BY <2>1, <2>g, RegisterKeeps, Zenon
  <2>4. Keeps(ext, T)
    BY <2>1, <2>3, KeepsTransitive, Zenon
  <2>5. T.authority = "dirty"
    BY <2>1, <2>3, Zenon DEF Keeps
  <2>6. b \in Backing \cup View /\ b \notin View
    BY DomainAssumption, Zenon
  <2> HIDE DEF T
  <2> QED
    BY <2>2, <2>4, <2>5, <2>6, HandKeepsInv, Zenon
<1>2. ASSUME NEW lost, NEW p \in Proc, NEW v \in View, NEW id \in Imports, Acquire(p, v, id, lost)
      PROVE Inv' /\ Halts(ext, ext')
  <2> DEFINE S == Entered(p, lost)
             T == grant_view(S, lost, v, id)
  <2>1. /\ Keeps(ext, S) /\ S.authority = "dirty" /\ ~S.uncertain_exposure
        /\ S.sessions[p] # "none" /\ id.accessor = p /\ S.state[id.object] = "active"
    BY <1>2, EnteredKeeps, Zenon DEF Acquire, Admitted, CanGrant
  <2>2. Hand(v, T, T.views[v] = "pending", p, lost)
    BY <1>2, Zenon DEF Acquire
  <2> HIDE DEF S
  <2>g. Good(S) /\ id \in ViewIdentity
    BY <2>1, RequestAssumption, Zenon DEF Keeps
  <2>h. id.object \in Present(S)
    BY <2>1, <2>g, Zenon DEF Present, ViewIdentity
  <2>3. Keeps(S, T) /\ (T.views[v] = "pending" => v \in Unresolved(T.audit))
    BY <2>1, <2>g, <2>h, GrantKeeps, Zenon
  <2>4. Keeps(ext, T)
    BY <2>1, <2>3, KeepsTransitive, Zenon
  <2>5. T.authority = "dirty"
    BY <2>1, <2>3, Zenon DEF Keeps
  <2> HIDE DEF T
  <2> QED
    BY <2>2, <2>3, <2>4, <2>5, HandKeepsInv, Zenon
<1>3. ASSUME NEW lost, NEW p \in Proc, Reject(p, lost)
      PROVE Inv' /\ Halts(ext, ext')
  <2> DEFINE S == before_admission(refresh(ext, alive, lost), lost)
  <2>1. Keeps(ext, S)
    BY <1>b, Zenon
  <2>2. UNCHANGED <<handoff, exposed, alive, phase>> /\ ext' \in {S, Finished(session(S, p), p, lost)}
    BY <1>3, Zenon DEF Reject
  <2> HIDE DEF S
  <2>3. Keeps(S, session(S, p))
    BY <2>1, SessionKeeps, ZenonT(60) DEF Keeps
  <2> DEFINE E == session(S, p)
  <2> HIDE DEF E
  <2>4. Good(E)
    BY <2>3, Zenon DEF Keeps, E
  <2>5. Keeps(E, Finished(E, p, lost))
    BY <2>4, FinishedKeeps, Zenon
  <2>6. Keeps(ext, ext')
    BY <2>1, <2>2, <2>3, <2>5, KeepsTransitive DEF E
  <2> QED
    BY <2>2, <2>6, InvKept, Zenon
<1>4. ASSUME NEW lost, NEW p \in Proc, Decline(p, lost)
      PROVE Inv' /\ Halts(ext, ext')
  <2> DEFINE S == refresh(ext, alive, lost)
  <2>1. Keeps(ext, S)
    BY <1>a, Zenon
  <2>2. UNCHANGED <<handoff, exposed, alive, phase>> /\ ext' = Finished(session(S, p), p, lost)
    BY <1>4, Zenon DEF Decline
  <2> HIDE DEF S
  <2>3. Keeps(S, session(S, p))
    BY <2>1, SessionKeeps, ZenonT(60) DEF Keeps
  <2> DEFINE E == session(S, p)
  <2> HIDE DEF E
  <2>4. Good(E)
    BY <2>3, Zenon DEF Keeps, E
  <2>5. Keeps(E, Finished(E, p, lost))
    BY <2>4, FinishedKeeps, Zenon
  <2>6. Keeps(ext, ext')
    BY <2>1, <2>2, <2>3, <2>5, KeepsTransitive, Zenon DEF E
  <2> QED
    BY <2>2, <2>6, InvKept, Zenon
<1>5. ASSUME NEW lost, NEW p \in Proc, NEW v \in View, Release(p, v, lost)
      PROVE Inv' /\ Halts(ext, ext')
  <2> DEFINE S == refresh(ext, alive, lost)
             T == release_view(S, lost, v)
             C == collect_retired(T, lost)
  <2>1. Keeps(ext, S)
    BY <1>a, Zenon
  <2>2. /\ ext.views[v] = "active" /\ exposed' = exposed \ {v}
        /\ UNCHANGED <<handoff, alive, phase>> /\ ext' = Finished(C, p, lost)
    BY <1>5, Zenon DEF Release
  <2> HIDE DEF S
  <2>3. KeepsOthers(S, T, v)
    BY <2>1, ReleaseKeeps, Zenon DEF Keeps
  <2> HIDE DEF T
  <2>4. Keeps(T, C)
    BY <2>3, CollectKeeps, Zenon DEF KeepsOthers
  <2> HIDE DEF C
  <2>g. Good(C)
    BY <2>4, Zenon DEF Keeps
  <2>5. Keeps(C, ext')
    BY <2>2, <2>g, FinishedKeeps, Zenon
  <2>6. KeepsOthers(ext, ext', v)
    BY <2>1, <2>3, <2>4, <2>5, KeepsOthersWeaker, KeepsOthersTransitive, Zenon
  <2>7. handoff[v] # "replied"
    BY <2>2, Zenon DEF Inv
  <2>8. Inv'
    BY <2>2, <2>6, <2>7, Zenon DEF Inv, KeepsOthers
  <2> QED
    BY <2>6, <2>8, Zenon DEF KeepsOthers
<1>6. ASSUME NEW lost, NEW p \in Proc, NEW b \in Backing, RevokeBacking(p, b, lost)
      PROVE Inv' /\ Halts(ext, ext')
  <2> DEFINE S == refresh(ext, alive, lost)
             T == Retire(S, lost, {b})
             C == collect_retired(T, lost)
  <2>1. Keeps(ext, S)
    BY <1>a, Zenon
  <2>2. UNCHANGED <<handoff, exposed, alive, phase>> /\ ext' = Finished(C, p, lost)
    BY <1>6, Zenon DEF RevokeBacking
  <2> HIDE DEF S
  <2>s. Good(S)
    BY <2>1, Zenon DEF Keeps
  <2>3. Keeps(S, T)
    BY <2>s, RetireKeeps, Zenon
  <2> HIDE DEF T
  <2>t. Good(T)
    BY <2>3, Zenon DEF Keeps
  <2>4. Keeps(T, C)
    BY <2>t, CollectKeeps, Zenon
  <2> HIDE DEF C
  <2>g. Good(C)
    BY <2>4, Zenon DEF Keeps
  <2>5. Keeps(C, ext')
    BY <2>2, <2>g, FinishedKeeps, Zenon
  <2>6. Keeps(ext, ext')
    BY <2>1, <2>3, <2>4, <2>5, KeepsTransitive, Zenon
  <2> QED
    BY <2>2, <2>6, InvKept, Zenon
<1>7. ASSUME NEW lost, Query(lost)
      PROVE Inv' /\ Halts(ext, ext')
  BY <1>7, <1>a, InvKept, Zenon DEF Query
<1>8. ASSUME NEW lost, NEW x \in Backing \cup View, Commit(x, lost)
      PROVE Inv' /\ Halts(ext, ext')
  <2> DEFINE S == before_admission(refresh(ext, alive, lost), lost)
             can == IF x \in Backing THEN CanCommitRegistration(S, x) ELSE CanCommitView(S, x)
  <2>1. Keeps(ext, S) /\ (Admitted(S) => S.authority = "dirty")
    BY <1>b, Zenon
  <2>2. /\ ext' = IF ~can THEN S ELSE IF x \in Backing THEN commit_registration(S, lost, x)
                                                      ELSE commit_view(S, lost, x)
        /\ handoff[x] = "sent" /\ UNCHANGED <<exposed, alive, phase>>
        /\ \E h \in {"committed", "undo"} :
             handoff' = [handoff EXCEPT ![x] = h] /\ (h = "committed" => can)
    BY <1>8, Zenon DEF Commit
  <2> HIDE DEF S
  <2>3. can => Admitted(S)
    BY Zenon DEF CanCommitRegistration, CanCommitView
  <2>4. /\ Good(ext') /\ (S.authority = "dirty" => ext'.authority = "dirty")
        /\ \A v \in Unresolved(S.audit) : v \in Unresolved(ext'.audit)
        /\ \A v \in View \ {x} : ext'.views[v] = "active" => S.views[v] = "active"
        /\ Refs(ext') /\ Halts(ext, ext')
    <3>a. Refs(S) /\ Halts(ext, S)
      BY <2>1, Zenon DEF Inv, Keeps
    <3>b. Halts(S, ext') => Halts(ext, ext')
      BY <3>a, Zenon DEF Halts
    <3>1. CASE ~can
      BY <2>1, <2>2, <3>1, <3>a, Zenon DEF Keeps
    <3>2. CASE can /\ x \in Backing
      <4>g. Good(S) /\ CanCommitRegistration(S, x) /\ ext' = commit_registration(S, lost, x)
        BY <2>1, <2>2, <3>2, Zenon DEF Keeps
      <4>1. Keeps(S, ext')
        BY <3>2, <4>g, CommitRegistrationKeeps, Zenon
      <4> QED
        BY <4>1, <3>a, <3>b, Zenon DEF Keeps
    <3>3. CASE can /\ x \notin Backing
      <4>1. x \in View /\ CanCommitView(S, x) /\ ext' = commit_view(S, lost, x)
        BY <2>2, <3>3, Zenon
      <4>2. KeepsOthers(S, ext', x) /\ x \in Unresolved(ext'.audit)
        BY <2>1, <4>1, CommitViewKeeps, Zenon DEF Keeps
      <4> QED
        BY <4>2, <3>a, <3>b, Zenon DEF KeepsOthers
    <3> QED
      BY <3>1, <3>2, <3>3, Zenon
  <2>5. /\ exposed' \subseteq Unresolved(ext'.audit)
        /\ \A v \in View \ {x} : handoff[v] = "replied" =>
             v \in Unresolved(ext'.audit) /\ ext'.views[v] # "active"
        /\ ext.authority = "dirty" => ext'.authority = "dirty"
        /\ can => ext'.authority = "dirty"
    BY <2>1, <2>2, <2>3, <2>4, Zenon DEF Inv, Keeps
  <2> HIDE DEF can
  <2> QED
    BY <2>2, <2>4, <2>5, Zenon DEF Inv
<1>9. ASSUME NEW lost, NEW x \in Backing \cup View, Undo(x, lost)
      PROVE Inv' /\ Halts(ext, ext')
  <2>1. Keeps(ext, ext')
    BY <1>9, UndoViewKeeps, UndoRegistrationKeeps, Zenon DEF Undo, Inv
  <2>2. handoff' = [handoff EXCEPT ![x] = "none"] /\ UNCHANGED <<exposed, alive, phase>>
    BY <1>9, Zenon DEF Undo
  <2>3. Inv'
    BY <2>1, <2>2, Zenon DEF Inv, Keeps
  <2> QED
    BY <2>1, <2>3, Zenon DEF Keeps
<1>10. ASSUME NEW lost, Stop(lost)
       PROVE Inv' /\ Halts(ext, ext')
  <2> DEFINE S == refresh(ext, alive, lost)
  <2>1. Keeps(ext, S)
    BY <1>a, Zenon
  <2>2. /\ ext' = finish_shutdown(S, lost) /\ phase' = "stopped"
        /\ \A x \in Backing \cup View : handoff[x] = "none"
        /\ UNCHANGED <<handoff, exposed, alive>>
    BY <1>10, Zenon DEF Stop
  <2> HIDE DEF S
  <2>3. /\ Good(ext') /\ Unresolved(ext'.audit) = Unresolved(S.audit)
        /\ (Refs(S) => Refs(ext')) /\ Halts(S, ext')
    BY <2>1, <2>2, FinishShutdownKeeps, Zenon DEF Keeps
  <2>4. Halts(ext, ext')
    BY <2>1, <2>3, Zenon DEF Keeps, Halts
  <2>5. Inv'
    BY <2>1, <2>2, <2>3, Zenon DEF Inv, Keeps
  <2> QED
    BY <2>4, <2>5, Zenon
<1>11. ASSUME NEW x \in Backing \cup View, Send(x)
       PROVE Inv' /\ Halts(ext, ext')
  <2>1. /\ handoff[x] = "replied" /\ UNCHANGED <<ext, alive, phase>>
        /\ exposed' \subseteq exposed \cup ({x} \cap View)
        /\ \E h \in {"sent", "undo"} : handoff' = [handoff EXCEPT ![x] = h]
    BY <1>11, Zenon DEF Send
  <2> QED
    BY <2>1, <1>c, Zenon DEF Inv
<1>12. ASSUME NEW x \in Backing \cup View, AckLost(x)
       PROVE Inv' /\ Halts(ext, ext')
  BY <1>12, <1>c, Zenon DEF AckLost, Inv
<1>13. ASSUME NEW x \in Backing \cup View, Confirm(x)
       PROVE Inv' /\ Halts(ext, ext')
  BY <1>13, <1>c, Zenon DEF Confirm, Inv
<1>14. ASSUME NEW p \in Proc, Exit(p)
       PROVE Inv' /\ Halts(ext, ext')
  BY <1>14, <1>c, Zenon DEF Exit, Inv
<1>15. CASE Shutdown
  BY <1>15, <1>c, Zenon DEF Shutdown, Inv
<1>16. CASE UNCHANGED vars
  BY <1>16, <1>c, Zenon DEF vars, Inv
<1> QED
  BY <1>1, <1>2, <1>3, <1>4, <1>5, <1>6, <1>7, <1>8, <1>9, <1>10, <1>11, <1>12, <1>13, <1>14,
     <1>15, <1>16, Zenon DEF Next

\* The inductive invariant holds of every behaviour.
THEOREM Invariance == Spec => []Inv
  BY InitInv, NextInv, PTL DEF Spec

\* Every operation of external_ddr.rs, whatever appends fail, leaves the broker's
\* state and the replay well formed.
THEOREM TypeCorrect == Spec => []TypeOK
<1>1. Inv => TypeOK
  BY Zenon DEF Inv, TypeOK, Good, Unresolved
<1> QED
  BY <1>1, Invariance, PTL

\* Memory that a client may still have mapped stays charged, and the journal
\* says so: no interleaving of handlers, revokes (retire), exits (refresh), lost
\* acknowledgements (undo) and failed appends gives the bytes away.
THEOREM ExposureIsAccounted == Spec => []ExposureAccounted
<1>1. Inv => ExposureAccounted
  BY Zenon DEF Inv, ExposureAccounted, Good, AuditGood, Object
<1> QED
  BY <1>1, Invariance, PTL

\* The state file of the managed authority says clean only while the broker
\* owes nothing, between startup and the first admission (before_admission) and
\* after a drained shutdown (finish_shutdown).
THEOREM CleanIsDrained == Spec => []CleanMeansDrained
<1>1. Inv => CleanMeansDrained
  BY Zenon DEF Inv, CleanMeansDrained, Good, Zero
<1> QED
  BY <1>1, Invariance, PTL

\* What the broker indexes under the catalog mutex is there: every present
\* backing has a session of its owner, every open view one of its client and a
\* backing, although requests that fail discard the sessions they made
\* (discard_uncommitted_session) while other handlers are under way.
THEOREM ReferencesHold == Spec => []ReferencesResolve
<1>1. Inv => ReferencesResolve
  BY Zenon DEF Inv, Refs, ReferencesResolve, Object, Accessor, Owner
<1> QED
  BY <1>1, Invariance, PTL

\* A possible FD exposure or an unresolved peer death stops admission for good
\* (before_admission, refresh, undo): from then on no handler, whichever handoff
\* it was in the middle of, makes a backing or a view pending or active, and the
\* state file stays as it is.
THEOREM ExposureStops == Spec => ExposureStopsAdmission
<1>1. Inv /\ [Next]_vars =>
        [ext.uncertain_exposure =>
           /\ ext'.uncertain_exposure /\ ext'.authority = ext.authority
           /\ \A b \in Backing : ext'.state[b] \in {"pending", "active"} => ext'.state[b] = ext.state[b]
           /\ \A v \in View : ext'.views[v] \in {"pending", "active"} => ext'.views[v] = ext.views[v]]_vars
  BY NextInv, Zenon DEF Halts
<1> QED
  BY <1>1, Invariance, PTL DEF Spec, ExposureStopsAdmission


-----------------------------------------------------------------------------
\* What the catalog says of a backing or a view is what the replay says of it.
BackingAgrees(S, b) ==
    /\ S.state[b] = "active" => S.audit.backings[b] = "Active"
    /\ S.state[b] = "pending" =>
         S.audit.backings[b] = IF b \in S.handoff_pending THEN "Provisional" ELSE "Pending"
    /\ S.state[b] = "retired" => S.audit.backings[b] \in {"Retired", "Closed"}

ViewAgrees(S, v) ==
    /\ S.views[v] = "pending" <=> S.audit.views[v] = "Intent"
    /\ S.views[v] = "active" <=> S.audit.views[v] = "Active"

Agree(S) ==
    ~S.audit.poisoned =>
        (\A b \in Backing : BackingAgrees(S, b)) /\ (\A v \in View : ViewAgrees(S, v))

Sound(S) == Good(S) /\ Agree(S)

\* Unless the writer is poisoned, what differs between S and T agrees in T.
Settles(S, T) ==
    \/ T.audit.poisoned
    \/ /\ ~S.audit.poisoned
       /\ \A b \in Backing :
            \/ /\ T.state[b] = S.state[b] /\ T.audit.backings[b] = S.audit.backings[b]
               /\ b \in T.handoff_pending <=> b \in S.handoff_pending
            \/ BackingAgrees(T, b)
       /\ \A v \in View :
            \/ T.views[v] = S.views[v] /\ T.audit.views[v] = S.audit.views[v]
            \/ ViewAgrees(T, v)

\* An event that was recorded for every backing of X, or failed.
Moved(A, B, X, to) ==
    \/ B.poisoned
    \/ /\ ~A.poisoned /\ B.views = A.views
       /\ \A b \in Backing : B.backings[b] = IF b \in X THEN to ELSE A.backings[b]

\* An event that ended every view of X, or failed.
Ended(A, B, X) ==
    \/ B.poisoned
    \/ /\ ~A.poisoned /\ B.backings = A.backings
       /\ \A v \in View : IF v \in X THEN B.views[v] \notin {"Intent", "Active"}
                                     ELSE B.views[v] = A.views[v]

\* An event of neither kind.
Unmoved(A, B) ==
    B.poisoned \/ (~A.poisoned /\ B.backings = A.backings /\ B.views = A.views)

SameCatalog(S, T) ==
    T.state = S.state /\ T.handoff_pending = S.handoff_pending /\ T.views = S.views

\* Where the differences agree, everything does.
LEMMA SettledAgrees ==
    ASSUME NEW S, NEW T, Agree(S), Settles(S, T)
    PROVE Agree(T)
<1>1. CASE T.audit.poisoned
  BY <1>1, Zenon DEF Agree
<1>2. CASE ~T.audit.poisoned
  <2>1. ~S.audit.poisoned
    BY <1>2, Zenon DEF Settles
  <2>2. \A b \in Backing : BackingAgrees(T, b)
    <3> SUFFICES ASSUME NEW b \in Backing, ~BackingAgrees(T, b) PROVE FALSE
      OBVIOUS
    <3>1. /\ T.state[b] = S.state[b] /\ T.audit.backings[b] = S.audit.backings[b]
          /\ b \in T.handoff_pending <=> b \in S.handoff_pending
      BY <1>2, Zenon DEF Settles
    <3>2. BackingAgrees(S, b)
      BY <2>1, Zenon DEF Agree
    <3> QED
      BY <3>1, <3>2, Zenon DEF BackingAgrees
  <2>3. \A v \in View : ViewAgrees(T, v)
    <3> SUFFICES ASSUME NEW v \in View, ~ViewAgrees(T, v) PROVE FALSE
      OBVIOUS
    <3>1. T.views[v] = S.views[v] /\ T.audit.views[v] = S.audit.views[v]
      BY <1>2, Zenon DEF Settles
    <3>2. ViewAgrees(S, v)
      BY <2>1, Zenon DEF Agree
    <3> QED
      BY <3>1, <3>2, Zenon DEF ViewAgrees
  <2> QED
    BY <2>2, <2>3, Zenon DEF Agree
<1> QED
  BY <1>1, <1>2, Zenon

\* Steps that leave the catalog and the replay's backings and views alone.
LEMMA SameAgrees ==
    ASSUME NEW S, NEW T, Agree(S), SameCatalog(S, T), Unmoved(S.audit, T.audit)
    PROVE Agree(T)
<1>1. Settles(S, T)
  BY Zenon DEF SameCatalog, Unmoved, Settles
<1> QED
  BY <1>1, SettledAgrees, Zenon

\* A new epoch changes nothing that is compared.
LEMMA BumpAgrees ==
    ASSUME NEW S \in State, NEW n, Agree(S)
    PROVE Agree(Bump(S, n))
<1>1. SameCatalog(S, Bump(S, n)) /\ Unmoved(S.audit, Bump(S, n).audit)
  BY BumpFields, Zenon DEF SameCatalog, Unmoved
<1> QED
  BY <1>1, SameAgrees, Zenon

\* Recording an event that moves nothing.
LEMMA LogAgrees ==
    ASSUME NEW S \in State, NEW A \in Replay, Agree(S), Unmoved(S.audit, A)
    PROVE Agree(Log(S, A))
<1>1. SameCatalog(S, Log(S, A)) /\ Log(S, A).audit = A
  BY LogFields, Zenon DEF SameCatalog
<1> QED
  BY <1>1, SameAgrees, Zenon

-----------------------------------------------------------------------------
\* RegisterCommit, RegisterAbort and Revoke are recorded for each backing or fail.
LEMMA MoveBackingsMoves ==
    ASSUME NEW A \in Replay, NEW lost, NEW event, NEW X \in SUBSET Backing, NEW from, NEW to
    PROVE Moved(A, MoveBackings(A, lost, event, X, from, to), X, to)
<1> DEFINE done == Recorded(A, lost, event, {b \in X : A.backings[b] \in from})
           f == [b \in Backing |-> IF b \in done THEN to ELSE A.backings[b]]
           B == Poison([A EXCEPT !.backings = f], ~(X \subseteq done))
<1>1. MoveBackings(A, lost, event, X, from, to) = B
  BY Zenon DEF MoveBackings, Replay
<1>2. done \subseteq X
  BY Zenon DEF Recorded
<1> HIDE DEF done
<1>3. /\ B.views = A.views /\ B.backings = f
      /\ B.poisoned = (A.poisoned \/ ~(X \subseteq done))
  BY Zenon DEF Poison, Replay
<1> HIDE DEF B
<1> QED
  BY <1>1, <1>2, <1>3, Zenon DEF Moved

\* The events that end views are recorded for each of them or fail.
LEMMA MoveViewsEnds ==
    ASSUME NEW A \in Replay, NEW lost, NEW event, NEW X \in SUBSET View, NEW from,
           NEW to, to \notin {"Intent", "Active"}
    PROVE Ended(A, MoveViews(A, lost, event, X, from, to), X)
<1> DEFINE done == Recorded(A, lost, event, {v \in X : A.views[v] \in from})
           f == [v \in View |-> IF v \in done THEN to ELSE A.views[v]]
           B == Poison([A EXCEPT !.views = f], ~(X \subseteq done))
<1>1. MoveViews(A, lost, event, X, from, to) = B
  BY Zenon DEF MoveViews, Replay
<1>2. done \subseteq X
  BY Zenon DEF Recorded
<1> HIDE DEF done
<1>3. /\ B.backings = A.backings /\ B.views = f
      /\ B.poisoned = (A.poisoned \/ ~(X \subseteq done))
  BY Zenon DEF Poison, Replay
<1> HIDE DEF B
<1> QED
  BY <1>1, <1>2, <1>3, Zenon DEF Ended

\* Events about the broker and its peers move no backing and no view.
LEMMA BrokerEventsUnmoved ==
    ASSUME NEW A \in Replay, NEW lost
    PROVE /\ Unmoved(A, BrokerBirth(A, lost)) /\ Unmoved(A, BrokerDrained(A, lost))
          /\ Unmoved(A, CleanCheckpoint(A, lost)) /\ Unmoved(A, Poison(A, TRUE))
          /\ \A X : Unmoved(A, PeerTerminated(A, lost, X))
<1>1. Unmoved(A, Poison(A, TRUE))
  BY Zenon DEF Poison, Unmoved, Replay
<1>2. Unmoved(A, BrokerBirth(A, lost)) /\ Unmoved(A, BrokerDrained(A, lost))
  BY Zenon DEF BrokerBirth, BrokerDrained, Poison, Unmoved, Replay
<1>3. Unmoved(A, CleanCheckpoint(A, lost))
  BY <1>1, Zenon DEF CleanCheckpoint, Unmoved, Replay
<1>4. \A X : Unmoved(A, PeerTerminated(A, lost, X))
  BY Zenon DEF PeerTerminated, Poison, Unmoved, Replay
<1> QED
  BY <1>1, <1>2, <1>3, <1>4, Zenon

\* retire records RegisterAbort for a provisional registration and Revoke for any other.
LEMMA RetireSound ==
    ASSUME NEW S, Sound(S), NEW lost, NEW X \in SUBSET Backing
    PROVE Sound(Retire(S, lost, X))
<1> DEFINE now == {b \in X : S.state[b] \in {"active", "pending"}}
           R == RegisterAbort(S.audit, lost, now \cap S.handoff_pending)
           A == Revoke(R, lost, now \ S.handoff_pending)
           T == [S EXCEPT !.state = [b \in Backing |-> IF b \in now THEN "retired" ELSE @[b]]]
           L == Log(T, A)
<1>1. S \in State /\ S.audit \in Replay /\ Good(S) /\ Agree(S)
  BY Zenon DEF Sound, Good, AuditGood
<1>2. R \in Replay /\ A \in Replay
  BY <1>1, RegistrationEventsQuiet, Zenon DEF Quiet
<1>3. Moved(S.audit, R, now \cap S.handoff_pending, "Retired")
  BY <1>1, MoveBackingsMoves, Zenon DEF RegisterAbort
<1>4. Moved(R, A, now \ S.handoff_pending, "Retired")
  BY <1>2, MoveBackingsMoves, Zenon DEF Revoke
<1>5. Retire(S, lost, X) = Bump(L, Cardinality(now))
  BY Zenon DEF Retire
<1>6. /\ T \in State /\ T.views = S.views /\ T.handoff_pending = S.handoff_pending
      /\ \A b \in Backing : T.state[b] = IF b \in now THEN "retired" ELSE S.state[b]
  BY <1>1, Zenon DEF State
<1> HIDE DEF now, R, A, T
<1>7. Moved(S.audit, A, now, "Retired")
  BY <1>3, <1>4, Zenon DEF Moved
<1>8. /\ L \in State /\ L.audit = A /\ L.views = S.views
      /\ L.handoff_pending = S.handoff_pending /\ L.state = T.state
  BY <1>2, <1>6, LogFields, Zenon
<1> HIDE DEF L
<1>9. Settles(S, L)
  BY <1>6, <1>7, <1>8, Zenon DEF Settles, Moved, BackingAgrees
<1>10. Agree(Retire(S, lost, X))
  BY <1>1, <1>5, <1>8, <1>9, SettledAgrees, BumpAgrees, Zenon
<1>11. Good(Retire(S, lost, X))
  BY <1>1, RetireKeeps, Zenon DEF Keeps
<1> QED
  BY <1>10, <1>11, Zenon DEF Sound

\* collect_retired closes retired backings only, in both.
LEMMA CollectSound ==
    ASSUME NEW S, Sound(S), NEW lost
    PROVE Sound(collect_retired(S, lost))
<1> DEFINE ready == {b \in S.charged : /\ S.state[b] = "retired"
                                       /\ ~InFlight(S, b)
                                       /\ \A v \in Open(S) : S.audit.view_id[v].object # b}
           X == IF S.audit.poisoned THEN {} ELSE {b \in ready : backing_can_close(S.audit, b)}
           A == BackingClose(S.audit, lost, X)
           closed == {b \in X : A.backings[b] = "Closed"}
           T == [S EXCEPT !.file = @ \ {b \in X : A.backings[b] \in {"Closing", "Closed"}},
                          !.charged = @ \ closed]
           L == Log(T, A)
<1>1. /\ S \in State /\ S.audit \in Replay /\ AuditGood(S.audit) /\ Good(S) /\ Agree(S)
      /\ X \in SUBSET Backing /\ \A b \in X : S.state[b] = "retired"
  BY Zenon DEF Sound, Good, AuditGood, State
<1>2. collect_retired(S, lost) = Bump(L, Cardinality(closed))
  BY Zenon DEF collect_retired
<1> HIDE DEF ready, X
<1>3. A \in Replay
  BY <1>1, BackingCloseEffect, Zenon DEF AuditGood
<1>4. Moved(S.audit, A, X, "Closed")
  <2> DEFINE B == S.audit
             intent == Recorded(B, lost, "BackingCloseIntent", {b \in X : backing_can_close(B, b)})
             done == Recorded(B, lost, "BackingCloseDone", intent)
             f == [b \in Backing |-> IF b \in done THEN "Closed"
                                     ELSE IF b \in intent THEN "Closing" ELSE B.backings[b]]
             C == Poison([B EXCEPT !.backings = f], ~(X \subseteq done))
  <2>1. A = C
    BY <1>1, Zenon DEF BackingClose, Replay
  <2>2. intent \subseteq X /\ done \subseteq X
    BY Zenon DEF Recorded
  <2> HIDE DEF intent, done
  <2>3. /\ C.views = B.views /\ C.backings = f
        /\ C.poisoned = (B.poisoned \/ ~(X \subseteq done))
    BY <1>1, Zenon DEF Poison, Replay
  <2> HIDE DEF C, A
  <2> QED
    BY <2>1, <2>2, <2>3, Zenon DEF Moved
<1> HIDE DEF A, closed
<1>5. /\ T \in State /\ T.state = S.state /\ T.views = S.views
      /\ T.handoff_pending = S.handoff_pending
  BY <1>1, Zenon DEF State
<1> HIDE DEF T
<1>6. /\ L \in State /\ L.audit = A /\ L.views = S.views
      /\ L.handoff_pending = S.handoff_pending /\ L.state = S.state
  BY <1>3, <1>5, LogFields, Zenon
<1> HIDE DEF L
<1>7. Settles(S, L)
  BY <1>1, <1>4, <1>6, Zenon DEF Settles, Moved, BackingAgrees
<1>8. Agree(collect_retired(S, lost))
  BY <1>1, <1>2, <1>6, <1>7, SettledAgrees, BumpAgrees, Zenon
<1>9. Good(collect_retired(S, lost))
  BY <1>1, CollectKeeps, Zenon DEF Keeps
<1> QED
  BY <1>8, <1>9, Zenon DEF Sound

\* Views that an event has ended are closed in the catalog right after it.
LEMMA CloseAgrees ==
    ASSUME NEW S, Agree(S), NEW M \in State, NEW X \in SUBSET View,
           SameCatalog(S, M), Ended(S.audit, M.audit, X)
    PROVE Agree(CloseViews(M, X))
<1> DEFINE closing == X \cap Open(M)
           T == [M EXCEPT !.views = [v \in View |-> IF v \in closing THEN "released" ELSE @[v]]]
<1>1. CloseViews(M, X) = Bump(T, Cardinality(closing))
  BY Zenon DEF CloseViews
<1>2. /\ T \in State /\ T.audit = M.audit /\ T.state = M.state
      /\ T.handoff_pending = M.handoff_pending
      /\ \A v \in View : IF v \in X THEN T.views[v] \notin {"pending", "active"}
                                    ELSE T.views[v] = M.views[v]
  BY Zenon DEF State, Open
<1> HIDE DEF closing, T
<1>3. Settles(S, T)
  BY <1>2, Zenon DEF SameCatalog, Ended, Settles, ViewAgrees
<1> QED
  BY <1>1, <1>2, <1>3, SettledAgrees, BumpAgrees, Zenon

\* refresh ends the views of a dead client in the journal, then in the catalog.
LEMMA RefreshSound ==
    ASSUME NEW S, Sound(S), NEW up, NEW lost
    PROVE Sound(refresh(S, up, lost))
<1> DEFINE gone == {p \in Proc : S.sessions[p] = "live" /\ p \notin up}
           holders == gone \cap unresolved_holders(S.audit)
           A == PeerTerminated(S.audit, lost, holders)
           S1 == Log(S, A)
           U == [S1 EXCEPT
                  !.uncertain_exposure = @ \/ holders # {},
                  !.admission_poisoned = @ \/ holders # {},
                  !.sessions = [p \in Proc |-> IF p \in gone THEN "dead" ELSE @[p]]]
           S2 == Bump(U, Cardinality(gone))
           S3 == Retire(S2, lost, UNION {Owned(S2, p) : p \in gone})
           held == Open(S3) \cap UNION {HeldBy(S3, p) : p \in gone}
           B == ViewPeerTerminated(S3.audit, lost, held)
           L == Log(S3, B)
           S4 == CloseViews(L, held)
<1>1. S \in State /\ AuditGood(S.audit) /\ S.audit \in Replay /\ Good(S) /\ Agree(S)
      /\ holders \in SUBSET Proc
  BY Zenon DEF Sound, Good, AuditGood
<1>2. refresh(S, up, lost) = collect_retired(S4, lost)
  BY Zenon DEF refresh
<1>3. S.authority = "clean" => holders = {}
  BY <1>1, ZeroHasNoHolders, Zenon DEF Good
<1> HIDE DEF holders, gone
<1>a. /\ AuditGood(A) /\ Held(A) = Held(S.audit) /\ Unresolved(A) = Unresolved(S.audit)
      /\ A.view_id = S.audit.view_id /\ A.backing_id = S.audit.backing_id
      /\ (holders = {} => A.terminated = S.audit.terminated)
  BY <1>1, PeerTerminatedEffect, ZenonT(60)
<1>4. A \in Replay
  BY <1>a, Zenon DEF AuditGood
<1>5. Unmoved(S.audit, A)
  BY <1>1, BrokerEventsUnmoved, Zenon
<1> HIDE DEF A
<1>6. /\ S1 \in State /\ S1.audit = A /\ S1.charged = S.charged /\ S1.views = S.views
      /\ S1.state = S.state /\ S1.handoff_pending = S.handoff_pending
      /\ S1.authority = S.authority /\ S1.uncertain_exposure = S.uncertain_exposure
  BY <1>1, <1>4, LogFields, Zenon
<1> HIDE DEF S1
<1>7. /\ U \in State /\ U.audit = A /\ U.charged = S.charged /\ U.views = S.views
      /\ U.state = S.state /\ U.handoff_pending = S.handoff_pending
      /\ U.authority = S.authority
      /\ (holders = {} => U.uncertain_exposure = S.uncertain_exposure)
  BY <1>6, Zenon DEF State
<1> HIDE DEF U
<1>8. Good(U)
  BY <1>1, <1>3, <1>a, <1>7, Zenon DEF Good, Zero, Open, Present
<1>9. Agree(U)
  BY <1>1, <1>5, <1>7, SameAgrees, Zenon DEF SameCatalog
<1>10. Sound(S2)
  BY <1>7, <1>8, <1>9, BumpKeeps, BumpAgrees, Zenon DEF Sound, Keeps
<1> HIDE DEF S2
<1>11. UNION {Owned(S2, p) : p \in gone} \in SUBSET Backing
  BY Zenon DEF Owned, Present
<1>12. Sound(S3)
  BY <1>10, <1>11, RetireSound, Zenon
<1> HIDE DEF S3
<1>13. held \in SUBSET View /\ S3 \in State /\ S3.audit \in Replay /\ Good(S3) /\ Agree(S3)
  BY <1>12, Zenon DEF Open, Sound, Good, AuditGood
<1> HIDE DEF held
<1>14. Ended(S3.audit, B, held) /\ Quiet(S3.audit, B)
  BY <1>13, MoveViewsEnds, ViewEventsQuiet, Zenon DEF ViewPeerTerminated
<1> HIDE DEF B
<1>15. Good(L) /\ L \in State /\ L.audit = B /\ SameCatalog(S3, L)
  BY <1>13, <1>14, LogQuiet, LogFields, Zenon DEF Keeps, Quiet, SameCatalog
<1> HIDE DEF L
<1>16. Agree(S4)
  BY <1>13, <1>14, <1>15, CloseAgrees, Zenon
<1>17. Good(S4)
  BY <1>13, <1>15, CloseViewsKeeps, Zenon DEF Keeps
<1> HIDE DEF S4
<1> QED
  BY <1>2, <1>16, <1>17, CollectSound, Zenon DEF Sound

\* before_admission touches neither.
LEMMA AdmissionSound ==
    ASSUME NEW S, Sound(S), NEW lost
    PROVE Sound(before_admission(S, lost))
<1> DEFINE T == before_admission(S, lost)
           D == [S EXCEPT !.authority = "dirty"]
           P == Poison(S.audit, TRUE)
<1>1. S \in State /\ S.audit \in Replay /\ Good(S) /\ Agree(S)
  BY Zenon DEF Sound, Good, AuditGood
<1>2. Unmoved(S.audit, P) /\ Unmoved(S.audit, BrokerBirth(S.audit, lost)) /\ Unmoved(S.audit, S.audit)
  BY <1>1, BrokerEventsUnmoved, Zenon DEF Unmoved
<1>3. P \in Replay /\ BrokerBirth(S.audit, lost) \in Replay
  BY <1>1, PoisonQuiet, BrokerEventsQuiet, Zenon DEF Quiet
<1> HIDE DEF P
<1>4. ASSUME T = S PROVE Agree(T)
  BY <1>1, <1>4, Zenon
<1>5. ASSUME T = [S EXCEPT !.audit = P] PROVE Agree(T)
  <2>1. SameCatalog(S, T) /\ T.audit = P
    BY <1>1, <1>5, Zenon DEF SameCatalog, State
  <2> QED
    BY <1>1, <1>2, <2>1, SameAgrees, Zenon
<1>6. ASSUME NEW a, T = [S EXCEPT !.audit = P, !.admission_poisoned = TRUE, !.authority = a]
      PROVE Agree(T)
  <2>1. SameCatalog(S, T) /\ T.audit = P
    BY <1>1, <1>6, Zenon DEF SameCatalog, State
  <2> QED
    BY <1>1, <1>2, <2>1, SameAgrees, Zenon
<1>7. D \in State /\ SameCatalog(S, D) /\ D.audit = S.audit
  BY <1>1, Zenon DEF SameCatalog, State
<1>8. Agree(D)
  BY <1>1, <1>2, <1>7, SameAgrees, Zenon
<1>9. Agree(Log(D, BrokerBirth(D.audit, lost)))
  BY <1>2, <1>3, <1>7, <1>8, LogAgrees, Zenon
<1>10. \/ T = S \/ T = [S EXCEPT !.audit = P]
       \/ \E a : T = [S EXCEPT !.audit = P, !.admission_poisoned = TRUE, !.authority = a]
       \/ T = D \/ T = Log(D, BrokerBirth(D.audit, lost))
  BY Zenon DEF before_admission, P
<1>11. Agree(T)
  BY <1>4, <1>5, <1>6, <1>8, <1>9, <1>10, Zenon
<1>12. Good(T)
  BY <1>1, AdmissionKeeps, Zenon DEF Keeps
<1> QED
  BY <1>11, <1>12, Zenon DEF Sound

\* Neither does a new session.
LEMMA SessionSound ==
    ASSUME NEW S, Sound(S), NEW p \in Proc
    PROVE Sound(session(S, p))
<1> DEFINE T == [S EXCEPT !.sessions[p] = "live"]
<1>1. S \in State /\ Good(S) /\ Agree(S)
  BY Zenon DEF Sound, Good
<1>2. T \in State /\ SameCatalog(S, T) /\ T.audit = S.audit
  BY <1>1, Zenon DEF State, SameCatalog
<1>3. Agree(T)
  BY <1>1, <1>2, SameAgrees, Zenon DEF Unmoved
<1>4. session(S, p) = S \/ session(S, p) = Bump(T, 1)
  BY Zenon DEF session
<1> HIDE DEF T
<1>5. Agree(Bump(T, 1))
  BY <1>2, <1>3, BumpAgrees, Zenon
<1>6. Good(session(S, p))
  BY <1>1, SessionKeeps, Zenon DEF Keeps
<1> QED
  BY <1>1, <1>4, <1>5, <1>6, Zenon DEF Sound

\* What a session leaves behind when it is discarded, the journal no longer counts.
LEMMA DiscardSound ==
    ASSUME NEW S, Sound(S), NEW p
    PROVE Sound(discard_uncommitted_session(S, p))
<1> DEFINE T == [S EXCEPT
                  !.sessions[p] = "none",
                  !.state = [b \in Backing |-> IF b \in Owned(S, p) THEN "none" ELSE @[b]],
                  !.handoff_pending = @ \ Owned(S, p),
                  !.views = [v \in View |-> IF v \in HeldBy(S, p) THEN "none" ELSE @[v]]]
           D == discard_uncommitted_session(S, p)
<1>1. S \in State /\ Good(S) /\ Agree(S)
  BY Zenon DEF Sound, Good
<1>2. D = S \/ (D = Bump(T, 1) /\ HeldBy(S, p) \cap Open(S) = {})
  BY Zenon DEF discard_uncommitted_session
<1>3. /\ T \in State /\ T.audit = S.audit /\ T.handoff_pending = S.handoff_pending \ Owned(S, p)
      /\ \A b \in Backing : T.state[b] = IF b \in Owned(S, p) THEN "none" ELSE S.state[b]
      /\ \A v \in View : T.views[v] = IF v \in HeldBy(S, p) THEN "none" ELSE S.views[v]
  BY <1>1, Zenon DEF State
<1> HIDE DEF T
<1>4. ASSUME HeldBy(S, p) \cap Open(S) = {} PROVE Settles(S, T)
  <2>1. \A b \in Backing : b \notin Owned(S, p) =>
          /\ T.state[b] = S.state[b] /\ T.audit.backings[b] = S.audit.backings[b]
          /\ b \in T.handoff_pending <=> b \in S.handoff_pending
    BY <1>3, Zenon
  <2>2. \A b \in Backing : b \in Owned(S, p) => BackingAgrees(T, b)
    BY <1>3, Zenon DEF BackingAgrees
  <2>3. \A v \in View : v \notin HeldBy(S, p) =>
          T.views[v] = S.views[v] /\ T.audit.views[v] = S.audit.views[v]
    BY <1>3, Zenon
  <2>4. ~S.audit.poisoned => \A v \in View : v \in HeldBy(S, p) => ViewAgrees(T, v)
    BY <1>1, <1>3, <1>4, Zenon DEF Agree, ViewAgrees, Open
  <2> QED
    BY <1>3, <2>1, <2>2, <2>3, <2>4, Zenon DEF Settles
<1>5. Agree(D)
  BY <1>1, <1>2, <1>3, <1>4, SettledAgrees, BumpAgrees, Zenon
<1> HIDE DEF D
<1> QED
  BY <1>1, <1>5, DiscardKeeps, Zenon DEF Sound, Keeps, D

\* The end of a request.
LEMMA FinishedSound ==
    ASSUME NEW S, Sound(S), NEW p, NEW lost
    PROVE Sound(Finished(S, p, lost))
  BY CollectSound, DiscardSound, Zenon DEF Finished

-----------------------------------------------------------------------------
\* A registration is provisional in both, or its record failed.
LEMMA RegisterSound ==
    ASSUME NEW S, Sound(S), S.authority = "dirty", NEW lost, NEW b \in Backing,
           NEW id \in BackingIdentity, ~S.uncertain_exposure, S.sessions[id.owner] # "none"
    PROVE Sound(register(S, lost, b, id))
<1> DEFINE A == RegisterIntent(S.audit, lost, b, id)
           R == [S.audit EXCEPT !.backings[b] = "Provisional", !.backing_id[b] = id]
           T == Log(S, A)
           U == [T EXCEPT !.state[b] = "pending", !.charged = @ \cup {b}, !.file = @ \cup {b},
                          !.handoff_pending = @ \cup {b}]
<1>1. S \in State /\ S.audit \in Replay /\ Good(S) /\ Agree(S)
  BY Zenon DEF Sound, Good, AuditGood
<1>2. Good(register(S, lost, b, id))
  BY <1>1, RegisterKeeps, Zenon DEF Keeps
<1>3. A = Poison(S.audit, TRUE) \/ (A = R /\ Accepting(S.audit))
  BY Zenon DEF RegisterIntent, Recorded
<1>4. CASE A = Poison(S.audit, TRUE)
  <2>a. Quiet(S.audit, A) /\ A.poisoned
    BY <1>1, <1>4, PoisonQuiet, Zenon DEF Poison, Replay
  <2>1. A \in Replay /\ A.poisoned /\ Unmoved(S.audit, A)
    BY <2>a, Zenon DEF Quiet, Unmoved
  <2>2. T.audit = A
    BY <1>1, <2>1, LogFields, Zenon
  <2> HIDE DEF A
  <2>3. register(S, lost, b, id) = T
    BY <2>1, <2>2, Zenon DEF register, A
  <2> QED
    BY <1>1, <1>2, <2>1, <2>3, LogAgrees, Zenon DEF Sound
<1>5. CASE A = R /\ Accepting(S.audit)
  <2>1. /\ R \in Replay /\ R.views = S.audit.views /\ R.poisoned = S.audit.poisoned
        /\ R.backings = [S.audit.backings EXCEPT ![b] = "Provisional"]
    BY <1>1, Zenon DEF Replay, BackingState
  <2> HIDE DEF R
  <2>2. /\ T \in State /\ T.audit = R /\ T.views = S.views /\ T.state = S.state
        /\ T.handoff_pending = S.handoff_pending
    BY <1>1, <1>5, <2>1, LogFields, ZenonT(60)
  <2> HIDE DEF T
  <2>3. /\ U \in State /\ U.audit = R /\ U.views = S.views
        /\ U.state = [S.state EXCEPT ![b] = "pending"]
        /\ U.handoff_pending = S.handoff_pending \cup {b}
    BY <2>2, ZenonT(30) DEF State
  <2>4. register(S, lost, b, id) = Bump(U, 1)
    BY <1>5, <2>1, <2>2, Zenon DEF register, Accepting, T
  <2> HIDE DEF U
  <2>a. DOMAIN S.state = Backing /\ DOMAIN S.audit.backings = Backing
    BY <1>1, Zenon DEF State, Replay
  <2>b. U.state[b] = "pending" /\ U.audit.backings[b] = "Provisional" /\ b \in U.handoff_pending
    BY <2>1, <2>3, <2>a, Zenon
  <2>5. BackingAgrees(U, b)
    BY <2>b, Zenon DEF BackingAgrees
  <2>6. \A c \in Backing : c # b =>
          /\ U.state[c] = S.state[c] /\ U.audit.backings[c] = S.audit.backings[c]
          /\ c \in U.handoff_pending <=> c \in S.handoff_pending
    BY <2>1, <2>3, <2>a, Zenon
  <2>7. Settles(S, U)
    BY <1>5, <2>1, <2>3, <2>5, <2>6, Zenon DEF Settles, Accepting
  <2> QED
    BY <1>1, <1>2, <2>3, <2>4, <2>7, SettledAgrees, BumpAgrees, Zenon DEF Sound
<1> QED
  BY <1>3, <1>4, <1>5, Zenon

\* A view is granted in both, or its record failed.
LEMMA GrantSound ==
    ASSUME NEW S, Sound(S), S.authority = "dirty", NEW lost, NEW v \in View,
           NEW id \in ViewIdentity, ~S.uncertain_exposure,
           S.sessions[id.accessor] # "none", id.object \in Present(S)
    PROVE Sound(grant_view(S, lost, v, id))
<1> DEFINE A == ViewIntent(S.audit, lost, v, id)
           R == [S.audit EXCEPT !.views[v] = "Intent", !.view_id[v] = id]
           T == Log(S, A)
           U == [T EXCEPT !.views[v] = "pending"]
<1>1. S \in State /\ S.audit \in Replay /\ Good(S) /\ Agree(S)
  BY Zenon DEF Sound, Good, AuditGood
<1>2. Good(grant_view(S, lost, v, id))
  BY <1>1, GrantKeeps, Zenon DEF Keeps
<1>3. A = Poison(S.audit, TRUE) \/ (A = R /\ Accepting(S.audit))
  BY Zenon DEF ViewIntent, Recorded
<1>4. CASE A = Poison(S.audit, TRUE)
  <2>a. Quiet(S.audit, A) /\ A.poisoned
    BY <1>1, <1>4, PoisonQuiet, ZenonT(60) DEF Poison, Replay
  <2>1. A \in Replay /\ A.poisoned /\ Unmoved(S.audit, A)
    BY <2>a, Zenon DEF Quiet, Unmoved
  <2>2. T.audit = A
    BY <1>1, <2>1, LogFields, Zenon
  <2> HIDE DEF A
  <2>3. grant_view(S, lost, v, id) = T
    BY <2>1, <2>2, Zenon DEF grant_view, A
  <2> QED
    BY <1>1, <1>2, <2>1, <2>3, LogAgrees, Zenon DEF Sound
<1>5. CASE A = R /\ Accepting(S.audit)
  <2>1. /\ R \in Replay /\ R.backings = S.audit.backings /\ R.poisoned = S.audit.poisoned
        /\ R.views = [S.audit.views EXCEPT ![v] = "Intent"]
    BY <1>1, Zenon DEF Replay, ViewState
  <2> HIDE DEF R
  <2>2. /\ T \in State /\ T.audit = R /\ T.views = S.views /\ T.state = S.state
        /\ T.handoff_pending = S.handoff_pending
    BY <1>1, <1>5, <2>1, LogFields, ZenonT(60)
  <2> HIDE DEF T
  <2>3. /\ U \in State /\ U.audit = R /\ U.state = S.state
        /\ U.views = [S.views EXCEPT ![v] = "pending"]
        /\ U.handoff_pending = S.handoff_pending
    BY <2>2, Zenon DEF State
  <2>4. grant_view(S, lost, v, id) = Bump(U, 1)
    BY <1>5, <2>1, <2>2, Zenon DEF grant_view, Accepting, T
  <2> HIDE DEF U
  <2>a. DOMAIN S.views = View /\ DOMAIN S.audit.views = View
    BY <1>1, Zenon DEF State, Replay
  <2>b. U.views[v] = "pending" /\ U.audit.views[v] = "Intent"
    BY <2>1, <2>3, <2>a, Zenon
  <2>5. ViewAgrees(U, v)
    BY <2>b, Zenon DEF ViewAgrees
  <2>6. \A u \in View : u # v =>
          U.views[u] = S.views[u] /\ U.audit.views[u] = S.audit.views[u]
    BY <2>1, <2>3, <2>a, Zenon
  <2>7. Settles(S, U)
    BY <1>5, <2>1, <2>3, <2>5, <2>6, Zenon DEF Settles, Accepting
  <2> QED
    BY <1>1, <1>2, <2>3, <2>4, <2>7, SettledAgrees, BumpAgrees, Zenon DEF Sound
<1> QED
  BY <1>3, <1>4, <1>5, Zenon

\* release_view closes the view in the catalog between its two records.
LEMMA ReleaseSound ==
    ASSUME NEW S, Sound(S), NEW lost, NEW v \in View
    PROVE Sound(release_view(S, lost, v))
<1> DEFINE L == Log(S, ViewCloseIntent(S.audit, lost, v))
           T == CloseViews(L, {v})
           A == ViewCloseDone(T.audit, lost, v)
<1>1. S \in State /\ S.audit \in Replay /\ Good(S) /\ Agree(S)
  BY Zenon DEF Sound, Good, AuditGood
<1>2. release_view(S, lost, v) \in {S, T, Log(T, A)}
  BY Zenon DEF release_view
<1>3. /\ Ended(S.audit, ViewCloseIntent(S.audit, lost, v), {v})
      /\ Quiet(S.audit, ViewCloseIntent(S.audit, lost, v))
  BY <1>1, MoveViewsEnds, ViewEventsQuiet, Zenon DEF ViewCloseIntent
<1>4. Good(L) /\ L \in State /\ SameCatalog(S, L) /\ Ended(S.audit, L.audit, {v})
  BY <1>1, <1>3, LogQuiet, LogFields, ZenonT(60) DEF Keeps, Quiet, SameCatalog
<1> HIDE DEF L
<1>a. {v} \in SUBSET View
  BY Zenon
<1>5. Agree(T) /\ Good(T) /\ v \notin Open(T)
  <2>1. Agree(T)
    BY <1>1, <1>4, <1>a, CloseAgrees, Zenon
  <2>2. Keeps(L, T) /\ \A u \in {v} : u \notin Open(T)
    BY <1>4, <1>a, CloseViewsKeeps, Zenon
  <2> QED
    BY <2>1, <2>2, Zenon DEF Keeps
<1> HIDE DEF T
<1>6. T \in State /\ T.audit \in Replay /\ AuditGood(T.audit)
  BY <1>5, Zenon DEF Good, AuditGood
<1>7. Ended(T.audit, A, {v}) /\ A \in Replay
  BY <1>6, MoveViewsEnds, ViewCloseDoneEffect, Zenon DEF ViewCloseDone, AuditGood
<1> HIDE DEF A
<1>8. Log(T, A).audit = A /\ SameCatalog(T, Log(T, A))
  BY <1>6, <1>7, LogFields, Zenon DEF SameCatalog
<1>9. Settles(T, Log(T, A))
  BY <1>5, <1>7, <1>8, Zenon DEF SameCatalog, Ended, Settles, ViewAgrees, Open
<1>10. Agree(Log(T, A))
  BY <1>5, <1>9, SettledAgrees, Zenon
<1> QED
  BY <1>1, <1>2, <1>5, <1>10, ReleaseKeeps, Zenon DEF Sound, KeepsOthers

\* A commit moves a registration on in both, or its record failed.
LEMMA CommitRegistrationSound ==
    ASSUME NEW S, Sound(S), NEW lost, NEW b \in Backing, CanCommitRegistration(S, b)
    PROVE Sound(commit_registration(S, lost, b))
<1> DEFINE id == S.audit.backing_id[b]
           to == IF id.purpose = "Immutable" THEN "Active" ELSE "Pending"
           A == RegisterCommit(S.audit, lost, b)
           T == Log(S, A)
           U == [T EXCEPT !.handoff_pending = @ \ {b},
                          !.state[b] = IF id.purpose = "Immutable" THEN "active" ELSE @,
                          !.committed = @ \cup {id.owner}]
<1>1. S \in State /\ S.audit \in Replay /\ Good(S) /\ Agree(S) /\ S.state[b] = "pending"
  BY Zenon DEF Sound, Good, AuditGood, CanCommitRegistration
<1>2. Moved(S.audit, A, {b}, to)
  BY <1>1, MoveBackingsMoves, Zenon DEF RegisterCommit
<1>3. A \in Replay
  BY <1>1, RegistrationEventsQuiet, Zenon DEF Quiet
<1>4. commit_registration(S, lost, b) = IF T.audit.poisoned THEN T ELSE Bump(U, 1)
  BY Zenon DEF commit_registration
<1> HIDE DEF A
<1>5. /\ T \in State /\ T.audit = A /\ T.views = S.views /\ T.state = S.state
      /\ T.handoff_pending = S.handoff_pending
  BY <1>1, <1>3, LogFields, Zenon
<1> HIDE DEF T
<1>6. b \in Present(S)
  BY <1>1, Zenon DEF Present
<1>7. id.owner \in Proc
  BY <1>1, <1>6, Zenon DEF Good, BackingIdentity
<1>8. /\ U \in State /\ U.audit = A /\ U.views = S.views
      /\ U.state = [S.state EXCEPT ![b] = IF id.purpose = "Immutable" THEN "active" ELSE "pending"]
      /\ U.handoff_pending = S.handoff_pending \ {b}
  <2> DEFINE st == IF id.purpose = "Immutable" THEN "active" ELSE "pending"
  <2>1. U = [T EXCEPT !.handoff_pending = @ \ {b}, !.state[b] = st, !.committed = @ \cup {id.owner}]
    BY <1>1, <1>5, Zenon
  <2>2. st \in {"active", "pending"}
    OBVIOUS
  <2> HIDE DEF st, U, id
  <2>3. /\ U \in State /\ U.audit = A /\ U.views = S.views
        /\ U.state = [S.state EXCEPT ![b] = st]
        /\ U.handoff_pending = S.handoff_pending \ {b}
    BY <1>5, <1>7, <2>1, <2>2, ZenonT(30) DEF State
  <2> QED
    BY <2>3, Zenon DEF st
<1> HIDE DEF U
<1>a. DOMAIN S.state = Backing
  BY <1>1, Zenon DEF State
<1>9. A.poisoned \/ BackingAgrees(U, b)
  <2>1. /\ U.state[b] = IF id.purpose = "Immutable" THEN "active" ELSE "pending"
        /\ b \notin U.handoff_pending
    BY <1>8, <1>a, Zenon
  <2>2. A.poisoned \/ U.audit.backings[b] = to
    BY <1>2, <1>8, Zenon DEF Moved
  <2> QED
    BY <2>1, <2>2, Zenon DEF BackingAgrees
<1>10. A.poisoned \/ \A c \in Backing : c # b =>
         /\ U.state[c] = S.state[c] /\ U.audit.backings[c] = S.audit.backings[c]
         /\ c \in U.handoff_pending <=> c \in S.handoff_pending
  BY <1>1, <1>2, <1>8, ZenonT(60) DEF Moved, State
<1>11. Settles(S, U)
  BY <1>2, <1>8, <1>9, <1>10, Zenon DEF Settles, Moved
<1>12. Agree(U) /\ (T.audit.poisoned => Agree(T))
  BY <1>1, <1>11, SettledAgrees, Zenon DEF Agree
<1>13. Agree(commit_registration(S, lost, b))
  <2>1. Agree(Bump(U, 1))
    BY <1>8, <1>12, BumpAgrees, Zenon
  <2> QED
    BY <1>4, <1>12, <2>1, Zenon
<1>14. Good(commit_registration(S, lost, b))
  BY <1>1, CommitRegistrationKeeps, Zenon DEF Keeps
<1> QED
  BY <1>13, <1>14, Zenon DEF Sound

\* A commit activates a view in both, or its record failed.
LEMMA CommitViewSound ==
    ASSUME NEW S, Sound(S), NEW lost, NEW v \in View, CanCommitView(S, v)
    PROVE Sound(commit_view(S, lost, v))
<1> DEFINE A == ViewCommit(S.audit, lost, v)
           T == Log(S, A)
           U == [T EXCEPT !.views[v] = "active",
                          !.committed = @ \cup {S.audit.view_id[v].accessor}]
<1>1. S \in State /\ S.audit \in Replay /\ Good(S) /\ Agree(S)
  BY Zenon DEF Sound, Good, AuditGood
<1>2. A \in Replay
  BY <1>1, ViewEventsQuiet, Zenon DEF Quiet
<1>3. \/ A.poisoned
      \/ /\ ~S.audit.poisoned /\ A.backings = S.audit.backings
         /\ \A u \in View : A.views[u] = IF u = v THEN "Active" ELSE S.audit.views[u]
  <2> DEFINE from == IF /\ S.audit.backings[S.audit.view_id[v].object] = "Active"
                        /\ S.audit.backing_id[S.audit.view_id[v].object].owner \notin S.audit.terminated
                        /\ S.audit.view_id[v].accessor \notin S.audit.terminated
                     THEN {"Intent"} ELSE {}
             done == Recorded(S.audit, lost, "ViewCommit", {u \in {v} : S.audit.views[u] \in from})
             f == [u \in View |-> IF u \in done THEN "Active" ELSE S.audit.views[u]]
             B == Poison([S.audit EXCEPT !.views = f], ~({v} \subseteq done))
  <2>1. A = B
    BY <1>1, Zenon DEF ViewCommit, MoveViews, Replay
  <2>2. done \subseteq {v}
    BY Zenon DEF Recorded
  <2> HIDE DEF done
  <2>3. /\ B.backings = S.audit.backings /\ B.views = f
        /\ B.poisoned = (S.audit.poisoned \/ ~({v} \subseteq done))
    BY <1>1, Zenon DEF Poison, Replay
  <2> HIDE DEF B, A
  <2> QED
    BY <2>1, <2>2, <2>3, Zenon
<1>4. commit_view(S, lost, v) = IF T.audit.poisoned THEN T ELSE Bump(U, 1)
  BY Zenon DEF commit_view
<1> HIDE DEF A
<1>5. /\ T \in State /\ T.audit = A /\ T.views = S.views /\ T.state = S.state
      /\ T.handoff_pending = S.handoff_pending
  BY <1>1, <1>2, LogFields, Zenon
<1> HIDE DEF T
<1>6. S.audit.view_id[v].accessor \in Proc
  BY <1>1, Zenon DEF CanCommitView, Good, ViewIdentity
<1>7. /\ U \in State /\ U.audit = A /\ U.state = S.state
      /\ U.views = [S.views EXCEPT ![v] = "active"]
      /\ U.handoff_pending = S.handoff_pending
  BY <1>5, <1>6, Zenon DEF State
<1> HIDE DEF U
<1>8. A.poisoned \/ \A u \in View :
        \/ U.views[u] = S.views[u] /\ U.audit.views[u] = S.audit.views[u]
        \/ ViewAgrees(U, u)
  <2>1. DOMAIN S.views = View
    BY <1>1, Zenon DEF State
  <2>2. U.views[v] = "active" /\ \A u \in View : u # v => U.views[u] = S.views[u]
    BY <1>7, <2>1, Zenon
  <2>3. \/ A.poisoned
        \/ A.views[v] = "Active" /\ \A u \in View : u # v => A.views[u] = S.audit.views[u]
    BY <1>3, Zenon
  <2>4. A.poisoned \/ ViewAgrees(U, v)
    BY <1>7, <2>2, <2>3, Zenon DEF ViewAgrees
  <2> QED
    BY <1>7, <2>2, <2>3, <2>4, Zenon
<1>9. Settles(S, U)
  BY <1>3, <1>7, <1>8, Zenon DEF Settles
<1>10. Agree(U) /\ (T.audit.poisoned => Agree(T))
  BY <1>1, <1>9, SettledAgrees, Zenon DEF Agree
<1>11. Agree(commit_view(S, lost, v))
  BY <1>4, <1>7, <1>10, BumpAgrees, Zenon
<1>12. Good(commit_view(S, lost, v))
  BY <1>1, CommitViewKeeps, Zenon DEF KeepsOthers
<1> QED
  BY <1>11, <1>12, Zenon DEF Sound

\* Undoing a view ends it in the journal, then in the catalog.
LEMMA UndoViewSound ==
    ASSUME NEW S, Sound(S), NEW lost, NEW v \in View
    PROVE Sound(undo_view(S, lost, v))
<1> DEFINE A == IF S.views[v] = "pending" THEN ViewAbort(S.audit, lost, v)
                                          ELSE ViewCommitUnconfirmed(S.audit, lost, v)
           L == Log(S, A)
           U == [L EXCEPT !.uncertain_exposure = TRUE, !.admission_poisoned = TRUE]
           M == MarkExposed(S, lost, v)
           C == CloseViews(M, {v})
           T == collect_retired(C, lost)
<1>1. S \in State /\ S.audit \in Replay /\ Good(S) /\ Agree(S)
  BY Zenon DEF Sound, Good, AuditGood
<1>2. Ended(S.audit, A, {v}) /\ A \in Replay
  <2>1. /\ Ended(S.audit, ViewAbort(S.audit, lost, v), {v})
        /\ Ended(S.audit, ViewCommitUnconfirmed(S.audit, lost, v), {v})
    BY <1>1, MoveViewsEnds, Zenon DEF ViewAbort, ViewCommitUnconfirmed
  <2>2. /\ ViewAbort(S.audit, lost, v) \in Replay
        /\ ViewCommitUnconfirmed(S.audit, lost, v) \in Replay
    BY <1>1, ViewEventsQuiet, Zenon DEF Quiet
  <2> QED
    BY <2>1, <2>2, Zenon
<1>3. SameCatalog(S, M) /\ Ended(S.audit, M.audit, {v})
  <2>1. CASE S.views[v] \notin {"pending", "active"}
    <3>1. M = S
      BY <2>1, Zenon DEF MarkExposed
    <3>2. S.audit.poisoned \/ S.audit.views[v] \notin {"Intent", "Active"}
      BY <1>1, <2>1, Zenon DEF Agree, ViewAgrees
    <3> HIDE DEF M
    <3> QED
      BY <3>1, <3>2, Zenon DEF SameCatalog, Ended
  <2>2. CASE S.views[v] \in {"pending", "active"}
    <3>1. M = U
      BY <2>2, Zenon DEF MarkExposed
    <3> HIDE DEF A, M
    <3>2. L \in State /\ L.audit = A /\ SameCatalog(S, L)
      BY <1>1, <1>2, LogFields, Zenon DEF SameCatalog
    <3> HIDE DEF L
    <3>3. U.audit = L.audit /\ SameCatalog(L, U)
      BY <3>2, Zenon DEF State, SameCatalog
    <3> HIDE DEF U
    <3> QED
      BY <1>2, <3>1, <3>2, <3>3, Zenon DEF SameCatalog
  <2> QED
    BY <2>1, <2>2, Zenon
<1>4. Good(M)
  BY <1>1, MarkExposedKeeps, Zenon DEF Keeps
<1>5. undo_view(S, lost, v) \in {T, discard_uncommitted_session(T, S.audit.view_id[v].accessor)}
  BY Zenon DEF undo_view
<1> HIDE DEF M
<1>6. Agree(C)
  BY <1>1, <1>3, <1>4, CloseAgrees, Zenon DEF Good
<1>7. Good(C)
  <2>1. {v} \in SUBSET View
    BY Zenon
  <2> QED
    BY <1>4, <2>1, CloseViewsKeeps, Zenon DEF Keeps
<1> HIDE DEF C
<1>8. Sound(T)
  BY <1>6, <1>7, CollectSound, Zenon DEF Sound
<1> HIDE DEF T
<1> QED
  BY <1>5, <1>8, DiscardSound, Zenon

\* Undoing a registration retires it.
LEMMA UndoRegistrationSound ==
    ASSUME NEW S, Sound(S), NEW lost, NEW b \in Backing
    PROVE Sound(undo_registration(S, lost, b))
<1> DEFINE R == Retire(S, lost, {b})
           T == collect_retired(R, lost)
<1>1. Sound(R)
  BY RetireSound, Zenon
<1>2. undo_registration(S, lost, b) \in {T, discard_uncommitted_session(T, S.audit.backing_id[b].owner)}
  BY Zenon DEF undo_registration
<1> HIDE DEF R
<1>3. Sound(T)
  BY <1>1, CollectSound, Zenon
<1> HIDE DEF T
<1> QED
  BY <1>2, <1>3, DiscardSound, Zenon

\* The last records of a shutdown move nothing.
LEMMA FinishShutdownSound ==
    ASSUME NEW S, Sound(S), NEW lost
    PROVE Sound(finish_shutdown(S, lost))
<1> DEFINE failed(T) == [T EXCEPT !.admission_poisoned = TRUE]
           drained == Log(S, BrokerDrained(S.audit, lost))
           C == CleanCheckpoint(drained.audit, lost)
           sealed == [drained EXCEPT !.audit = C]
<1>1. S \in State /\ S.audit \in Replay /\ Good(S) /\ Agree(S)
  BY Zenon DEF Sound, Good, AuditGood
<1>2. BrokerDrained(S.audit, lost) \in Replay /\ Unmoved(S.audit, BrokerDrained(S.audit, lost))
  BY <1>1, BrokerEventsQuiet, BrokerEventsUnmoved, Zenon DEF Quiet
<1>3. drained \in State /\ drained.audit \in Replay /\ Agree(drained)
  BY <1>1, <1>2, LogFields, LogAgrees, Zenon
<1>4. finish_shutdown(S, lost) \in {S, failed(S), failed(sealed), PublishClean(sealed, lost)}
  BY Zenon DEF finish_shutdown
<1> HIDE DEF drained
<1>5. Unmoved(drained.audit, C)
  BY <1>3, BrokerEventsUnmoved, Zenon
<1> HIDE DEF C
<1>6. SameCatalog(drained, sealed) /\ sealed.audit = C
  BY <1>3, Zenon DEF SameCatalog, State
<1>7. Agree(sealed)
  BY <1>3, <1>5, <1>6, SameAgrees, Zenon
<1>8. /\ SameCatalog(S, failed(S)) /\ failed(S).audit = S.audit
      /\ SameCatalog(sealed, failed(sealed)) /\ failed(sealed).audit = sealed.audit
      /\ SameCatalog(sealed, PublishClean(sealed, lost))
      /\ PublishClean(sealed, lost).audit = sealed.audit
  BY <1>1, <1>3, Zenon DEF SameCatalog, State, PublishClean
<1> HIDE DEF sealed
<1>9. Agree(failed(S)) /\ Agree(failed(sealed)) /\ Agree(PublishClean(sealed, lost))
  BY <1>1, <1>7, <1>8, SameAgrees, Zenon DEF Unmoved
<1>10. Agree(finish_shutdown(S, lost))
  BY <1>1, <1>4, <1>9, Zenon
<1>11. Good(finish_shutdown(S, lost))
  BY <1>1, FinishShutdownKeeps, Zenon
<1> QED
  BY <1>10, <1>11, Zenon DEF Sound

-----------------------------------------------------------------------------
Agreed == Agree(ext)

\* One step per action that runs a critical section; the others leave ext alone.
LEMMA NextAgreed == Inv /\ Agreed /\ [Next]_vars => Agreed'
<1> SUFFICES ASSUME Inv, Agreed, [Next]_vars PROVE Sound(ext')
  BY Zenon DEF Sound, Agreed
<1>a. Sound(ext) /\ \A lost : Sound(refresh(ext, alive, lost))
  <2>1. Sound(ext)
    BY Zenon DEF Sound, Inv, Agreed
  <2> QED
    BY <2>1, RefreshSound, Zenon
<1>b. \A lost : Sound(before_admission(refresh(ext, alive, lost), lost))
  BY <1>a, AdmissionSound, Zenon
<1>c. \A lost : \A p \in Proc : Sound(Entered(p, lost))
  BY <1>b, SessionSound, Zenon DEF Entered
<1>1. ASSUME NEW lost, NEW p \in Proc, NEW b \in Backing, NEW id \in Registrations,
             Register(p, b, id, lost)
      PROVE Sound(ext')
  <2> DEFINE S == Entered(p, lost)
             T == register(S, lost, b, id)
  <2>1. /\ S.authority = "dirty" /\ ~S.uncertain_exposure
        /\ S.sessions[p] # "none" /\ id.owner = p
    BY <1>1, EnteredKeeps, Zenon DEF Register, Admitted
  <2>2. ext' = T \/ ext' = Finished(T, p, lost)
    BY <1>1, Zenon DEF Register, Hand
  <2>3. Sound(S) /\ id \in BackingIdentity
    BY <1>c, RequestAssumption, Zenon
  <2> HIDE DEF S
  <2>4. Sound(T)
    BY <2>1, <2>3, RegisterSound, Zenon
  <2> HIDE DEF T
  <2> QED
    BY <2>2, <2>4, FinishedSound, Zenon
<1>2. ASSUME NEW lost, NEW p \in Proc, NEW v \in View, NEW id \in Imports, Acquire(p, v, id, lost)
      PROVE Sound(ext')
  <2> DEFINE S == Entered(p, lost)
             T == grant_view(S, lost, v, id)
  <2>1. /\ S.authority = "dirty" /\ ~S.uncertain_exposure
        /\ S.sessions[p] # "none" /\ id.accessor = p /\ S.state[id.object] = "active"
    BY <1>2, EnteredKeeps, Zenon DEF Acquire, Admitted, CanGrant
  <2>2. ext' = T \/ ext' = Finished(T, p, lost)
    BY <1>2, Zenon DEF Acquire, Hand
  <2>3. Sound(S) /\ id \in ViewIdentity
    BY <1>c, RequestAssumption, Zenon
  <2> HIDE DEF S
  <2>4. id.object \in Present(S)
    BY <2>1, <2>3, Zenon DEF Present, ViewIdentity
  <2>5. Sound(T)
    BY <2>1, <2>3, <2>4, GrantSound, Zenon
  <2> HIDE DEF T
  <2> QED
    BY <2>2, <2>5, FinishedSound, Zenon
<1>3. ASSUME NEW lost, NEW p \in Proc, Reject(p, lost)
      PROVE Sound(ext')
  BY <1>3, <1>b, SessionSound, FinishedSound, Zenon DEF Reject
<1>4. ASSUME NEW lost, NEW p \in Proc, Decline(p, lost)
      PROVE Sound(ext')
  BY <1>4, <1>a, SessionSound, FinishedSound, Zenon DEF Decline
<1>5. ASSUME NEW lost, NEW p \in Proc, NEW v \in View, Release(p, v, lost)
      PROVE Sound(ext')
  BY <1>5, <1>a, ReleaseSound, CollectSound, FinishedSound, Zenon DEF Release
<1>6. ASSUME NEW lost, NEW p \in Proc, NEW b \in Backing, RevokeBacking(p, b, lost)
      PROVE Sound(ext')
  <2>1. {b} \in SUBSET Backing
    OBVIOUS
  <2> QED
    BY <1>6, <1>a, <2>1, RetireSound, CollectSound, FinishedSound, Zenon DEF RevokeBacking
<1>7. ASSUME NEW lost, Query(lost)
      PROVE Sound(ext')
  BY <1>7, <1>a, Zenon DEF Query
<1>8. ASSUME NEW lost, NEW x \in Backing \cup View, Commit(x, lost)
      PROVE Sound(ext')
  <2> DEFINE S == before_admission(refresh(ext, alive, lost), lost)
  <2>1. Sound(S)
    BY <1>b, Zenon
  <2>2. \/ ext' = S
        \/ x \in Backing /\ CanCommitRegistration(S, x) /\ ext' = commit_registration(S, lost, x)
        \/ x \in View /\ CanCommitView(S, x) /\ ext' = commit_view(S, lost, x)
    BY <1>8, Zenon DEF Commit
  <2> HIDE DEF S
  <2> QED
    BY <2>1, <2>2, CommitRegistrationSound, CommitViewSound, Zenon
<1>9. ASSUME NEW lost, NEW x \in Backing \cup View, Undo(x, lost)
      PROVE Sound(ext')
  BY <1>9, <1>a, UndoViewSound, UndoRegistrationSound, Zenon DEF Undo
<1>10. ASSUME NEW lost, Stop(lost)
       PROVE Sound(ext')
  BY <1>10, <1>a, FinishShutdownSound, Zenon DEF Stop
<1>11. ASSUME UNCHANGED ext
       PROVE Sound(ext')
  BY <1>a, <1>11, Zenon
<1>12. (\E x \in Backing \cup View : Send(x) \/ AckLost(x) \/ Confirm(x))
         \/ (\E p \in Proc : Exit(p)) \/ Shutdown \/ UNCHANGED vars => UNCHANGED ext
  BY Zenon DEF Send, AckLost, Confirm, Exit, Shutdown, vars
<1> QED
  BY <1>1, <1>2, <1>3, <1>4, <1>5, <1>6, <1>7, <1>8, <1>9, <1>10, <1>11, <1>12, Zenon DEF Next

\* While the writer works, the journal and the catalog tell the same of every
\* backing and every view, whatever handlers, revokes, exits and failing appends
\* come between the critical sections of external_ddr.rs: a restart that replays
\* the journal finds what the broker last knew.
THEOREM JournalMatches == Spec => []JournalMatchesCatalog
<1>1. Init => Agreed
  <2> SUFFICES ASSUME Init PROVE Agree(NewState)
    BY Zenon DEF Init, Agreed
  <2>1. /\ NewState.state = [b \in Backing |-> "none"] /\ NewState.views = [v \in View |-> "none"]
        /\ NewState.audit.views = [v \in View |-> "None"]
    BY Zenon DEF NewState, NewReplay
  <2> QED
    BY <2>1, Zenon DEF Agree, BackingAgrees, ViewAgrees
<1>2. Inv /\ Agreed => JournalMatchesCatalog
  BY Zenon DEF Inv, Agreed, Good, Agree, BackingAgrees, ViewAgrees, JournalMatchesCatalog
<1> QED
  BY <1>1, <1>2, InitInv, NextInv, NextAgreed, PTL DEF Spec
=============================================================================
