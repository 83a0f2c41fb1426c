------------------------- MODULE ExternalDdrState -------------------------
(***************************************************************************)
(* The state of the external DDR broker (ExternalDdrState of               *)
(* external_ddr.rs) and its operations, as operators on a record S.  They  *)
(* run under the catalog mutex; ExternalDdr makes handlers out of them.    *)
(*                                                                         *)
(*   sessions          a live, dead or absent Session of each process      *)
(*   state             Backing.state; "retired" stands for the tombstone   *)
(*                     states revoked, owner_exited, registration_rollback *)
(*   charged, file,    fields of the same names of each backing (file also *)
(*   handoff_pending   stands for the writer)                              *)
(*   views             pending, active or released; none when not there    *)
(*   copy_work         works under way; in_flight of a backing is derived  *)
(*   authority         the state file of the managed authority             *)
(*   admission_poisoned  of the managed authority                          *)
(*   audit             the lifecycle writer, see RecoveryAudit             *)
(*                                                                         *)
(* `alive` is the set of processes whose pidfd is not readable, `lost` the *)
(* set of appends and state writes that fail in this critical section.     *)
(* The lifecycle epoch appears only as audit.lag.  The namespace checks of *)
(* the authority always succeed: its files are not touched by others.      *)
(***************************************************************************)
EXTENDS RecoveryAudit

State ==
    [sessions : [Proc -> {"none", "live", "dead"}], committed : SUBSET Proc,
     state : [Backing -> {"none", "pending", "active", "retired"}],
     charged : SUBSET Backing, file : SUBSET Backing, handoff_pending : SUBSET Backing,
     views : [View -> {"none", "pending", "active", "released"}],
     copy_work : SUBSET Work, uncertain_exposure : BOOLEAN,
     authority : {"clean", "dirty"}, admission_poisoned : BOOLEAN, audit : Replay]

\* attach_lifecycle on a clean authority.
NewState ==
    [sessions |-> [p \in Proc |-> "none"], committed |-> {},
     state |-> [b \in Backing |-> "none"],
     charged |-> {}, file |-> {}, handoff_pending |-> {},
     views |-> [v \in View |-> "none"],
     copy_work |-> {}, uncertain_exposure |-> FALSE,
     authority |-> "clean", admission_poisoned |-> FALSE, audit |-> NewReplay]

-----------------------------------------------------------------------------

\* The epoch moves forward by n.
Bump(S, n) == [S EXCEPT !.audit.lag = IF @ - n \in Nat THEN @ - n ELSE 0]

\* record_fixture_event: a failed record also stops the authority.
Log(S, A) == [S EXCEPT !.audit = A, !.admission_poisoned = @ \/ A.poisoned]

Present(S) == {b \in Backing : S.state[b] # "none"}
Open(S) == {v \in View : S.views[v] \in {"pending", "active"}}
Owned(S, p) == {b \in Present(S) : S.audit.backing_id[b].owner = p}
HeldBy(S, p) == {v \in View : S.views[v] # "none" /\ S.audit.view_id[v].accessor = p}
InFlight(S, b) == \E w \in S.copy_work : b \in {S.audit.works[w].source, S.audit.works[w].target}

CloseViews(S, X) ==
    LET closing == X \cap Open(S)
    IN Bump([S EXCEPT !.views = [v \in View |-> IF v \in closing THEN "released" ELSE @[v]]],
            Cardinality(closing))

\* A mutant: a provisional registration is retired without its event.
RetireForgettingAbort(S, lost, X) ==
    LET now == {b \in X : S.state[b] \in {"active", "pending"}}
        A == Revoke(S.audit, lost, now \ S.handoff_pending)
    IN Bump(Log([S EXCEPT !.state = [b \in Backing |-> IF b \in now THEN "retired" ELSE @[b]]], A),
            Cardinality(now))

\* A mutant: a provisional registration is recorded as revoked.
RetireByRevoke(S, lost, X) ==
    LET now == {b \in X : S.state[b] \in {"active", "pending"}}
    IN Bump(Log([S EXCEPT !.state = [b \in Backing |-> IF b \in now THEN "retired" ELSE @[b]]],
                Revoke(S.audit, lost, now)),
            Cardinality(now))

\* retire: the catalog entry is retired even when the record fails.
Retire(S, lost, X) ==
    LET now == {b \in X : S.state[b] \in {"active", "pending"}}
        A == Revoke(RegisterAbort(S.audit, lost, now \cap S.handoff_pending),
                    lost, now \ S.handoff_pending)
    IN Bump(Log([S EXCEPT !.state = [b \in Backing |-> IF b \in now THEN "retired" ELSE @[b]]], A),
            Cardinality(now))

collect_retired(S, lost) ==
    LET ready == {b \in S.charged : /\ S.state[b] = "retired"
                                    /\ ~InFlight(S, b)
                                    /\ \A v \in Open(S) : S.audit.view_id[v].object # b}
        X == IF S.audit.poisoned THEN {} ELSE {b \in ready : backing_can_close(S.audit, b)}
        A == BackingClose(S.audit, lost, X)
        closed == {b \in X : A.backings[b] = "Closed"}
    IN Bump(Log([S EXCEPT !.file = @ \ {b \in X : A.backings[b] \in {"Closing", "Closed"}},
                          !.charged = @ \ closed], A),
            Cardinality(closed))

\* The sessions whose process is gone are closed: their backings retire, their
\* views close, and a process that may still hold something stops admission
\* for good.  All sessions take each of the steps together.
refresh(S, alive, lost) ==
    LET gone == {p \in Proc : S.sessions[p] = "live" /\ p \notin alive}
        holders == gone \cap unresolved_holders(S.audit)
        S1 == Log(S, PeerTerminated(S.audit, lost, holders))
        S2 == Bump([S1 EXCEPT
                     !.uncertain_exposure = @ \/ holders # {},
                     !.admission_poisoned = @ \/ holders # {},
                     !.sessions = [p \in Proc |-> IF p \in gone THEN "dead" ELSE @[p]]],
                   Cardinality(gone))
        S3 == Retire(S2, lost, UNION {Owned(S2, p) : p \in gone})
        held == Open(S3) \cap UNION {HeldBy(S3, p) : p \in gone}
        S4 == CloseViews(Log(S3, ViewPeerTerminated(S3.audit, lost, held)), held)
    IN collect_retired(S4, lost)

\* A mutant: the state file is left as it is.
AdmissionWithoutDirty(S, lost) ==
    IF S.uncertain_exposure \/ S.audit.poisoned \/ S.audit.broker_birth THEN S
    ELSE Log(S, BrokerBirth(S.audit, lost))

\* The authority is dirty and the broker's birth recorded before anything is
\* promised.  A failed state write is retried once; admission stays closed.
before_admission(S, lost) ==
    IF S.uncertain_exposure \/ S.audit.poisoned THEN S
    ELSE IF S.admission_poisoned THEN [S EXCEPT !.audit = Poison(@, TRUE)]
    ELSE IF S.authority = "clean" /\ <<"WriteDirty", None>> \in lost
         THEN [S EXCEPT !.audit = Poison(@, TRUE), !.admission_poisoned = TRUE,
                        !.authority = IF <<"RetryDirty", None>> \in lost THEN "clean" ELSE "dirty"]
    ELSE LET D == [S EXCEPT !.authority = "dirty"]
         IN IF D.audit.broker_birth THEN D ELSE Log(D, BrokerBirth(D.audit, lost))

\* A mutant: a possible exposure does not stop admission.
AdmittedUnlessPoisoned(S) == ~S.audit.poisoned

\* before_admission returned Ok.
Admitted(S) == ~S.uncertain_exposure /\ ~S.audit.poisoned

session(S, p) ==
    IF S.sessions[p] = "none" THEN Bump([S EXCEPT !.sessions[p] = "live"], 1) ELSE S

\* A mutant: the records of the session stay.
DiscardSessionOnly(S, p) ==
    IF \/ S.sessions[p] = "none" \/ p \in S.committed
       \/ \E b \in Owned(S, p) : S.state[b] \in {"active", "pending"} \/ b \in S.charged
       \/ HeldBy(S, p) \cap Open(S) # {}
    THEN S
    ELSE Bump([S EXCEPT !.sessions[p] = "none"], 1)

discard_uncommitted_session(S, p) ==
    IF \/ S.sessions[p] = "none" \/ p \in S.committed
       \/ \E b \in Owned(S, p) : S.state[b] \in {"active", "pending"} \/ b \in S.charged
       \/ HeldBy(S, p) \cap Open(S) # {}
    THEN S
    ELSE Bump([S EXCEPT
                !.sessions[p] = "none",
                !.state = [b \in Backing |-> IF b \in Owned(S, p) THEN "none" ELSE @[b]],
                !.handoff_pending = @ \ Owned(S, p),
                !.views = [v \in View |-> IF v \in HeldBy(S, p) THEN "none" ELSE @[v]]], 1)

\* The end of a request that hands nothing over.
Finished(S, p, lost) == discard_uncommitted_session(collect_retired(S, lost), p)

-----------------------------------------------------------------------------
\* register: the checks before anything changes.
CanRegister(S, id) ==
    /\ id.purpose # "Immutable" =>
          \E c \in Owned(S, id.owner) : S.state[c] = "active" /\ c \in S.file
    /\ \A c \in S.charged : S.audit.backing_id[c].ino # id.ino
    /\ WithinBudget(S.audit, id, S.charged)

register(S, lost, b, id) ==
    LET T == Log(S, RegisterIntent(S.audit, lost, b, id))
    IN IF T.audit.poisoned THEN T
       ELSE Bump([T EXCEPT !.state[b] = "pending", !.charged = @ \cup {b}, !.file = @ \cup {b},
                           !.handoff_pending = @ \cup {b}], 1)

CanGrant(S, id) ==
    /\ S.state[id.object] = "active" /\ id.object \in S.file
    /\ id.parent # None =>
          /\ S.views[id.parent] = "active"
          /\ S.audit.view_id[id.parent].accessor = id.accessor
          /\ S.audit.view_id[id.parent].object = id.object

grant_view(S, lost, v, id) ==
    LET T == Log(S, ViewIntent(S.audit, lost, v, id))
    IN IF T.audit.poisoned THEN T ELSE Bump([T EXCEPT !.views[v] = "pending"], 1)

\* A view that is not active is refused (pending) or left as it is (released).
release_view(S, lost, v) ==
    IF S.views[v] # "active" THEN S
    ELSE LET T == CloseViews(Log(S, ViewCloseIntent(S.audit, lost, v)), {v})
         IN IF T.audit.poisoned THEN T ELSE Log(T, ViewCloseDone(T.audit, lost, v))

\* commit, after refresh and before_admission.
CanCommitRegistration(S, b) ==
    /\ Admitted(S) /\ S.state[b] = "pending" /\ b \in S.handoff_pending
    /\ S.sessions[S.audit.backing_id[b].owner] = "live"

commit_registration(S, lost, b) ==
    LET T == Log(S, RegisterCommit(S.audit, lost, b))
        id == S.audit.backing_id[b]
    IN IF T.audit.poisoned THEN T
       ELSE Bump([T EXCEPT !.handoff_pending = @ \ {b},
                           !.state[b] = IF id.purpose = "Immutable" THEN "active" ELSE @,
                           !.committed = @ \cup {id.owner}], 1)

CanCommitView(S, v) ==
    /\ Admitted(S) /\ S.views[v] = "pending"
    /\ S.sessions[S.audit.view_id[v].accessor] = "live"
    /\ S.state[S.audit.view_id[v].object] = "active"

commit_view(S, lost, v) ==
    LET T == Log(S, ViewCommit(S.audit, lost, v))
    IN IF T.audit.poisoned THEN T
       ELSE Bump([T EXCEPT !.views[v] = "active",
                           !.committed = @ \cup {S.audit.view_id[v].accessor}], 1)

\* undo of a view: the FD may be out, so the record says so, admission ends and
\* only then is the catalog entry closed.
MarkExposed(S, lost, v) ==
    IF S.views[v] \notin {"pending", "active"} THEN S
    ELSE [Log(S, IF S.views[v] = "pending" THEN ViewAbort(S.audit, lost, v)
                                           ELSE ViewCommitUnconfirmed(S.audit, lost, v))
          EXCEPT !.uncertain_exposure = TRUE, !.admission_poisoned = TRUE]

undo_view(S, lost, v) ==
    LET T == collect_retired(CloseViews(MarkExposed(S, lost, v), {v}), lost)
    IN IF S.views[v] = "none" THEN T
       ELSE discard_uncommitted_session(T, S.audit.view_id[v].accessor)

undo_registration(S, lost, b) ==
    LET T == collect_retired(Retire(S, lost, {b}), lost)
    IN IF S.state[b] = "none" THEN T
       ELSE discard_uncommitted_session(T, S.audit.backing_id[b].owner)

\* The catalog and the replay agree on what is left, and nothing is under way.
Reconciled(S) ==
    /\ ~S.audit.poisoned /\ ~S.admission_poisoned
    /\ Cardinality(Held(S.audit)) = Cardinality(S.charged)
    /\ charged_bytes(S.audit, Held(S.audit)) = charged_bytes(S.audit, S.charged)
    /\ Cardinality({v \in View : S.audit.views[v] \in {"Active", "Closing"}})
         = Cardinality({v \in View : S.views[v] = "active"})
    /\ PendingHandoffs(S.audit) = {}
    /\ {b \in S.handoff_pending : S.state[b] = "pending"} = {}
    /\ {v \in View : S.views[v] = "pending"} = {}
    /\ Undrained(S.audit) = {} /\ S.copy_work = {}

\* clean_after_semantic_drain: the state file says clean again.  After a failed
\* write the old dirty state is put back; if that fails too, the file may well
\* say clean.
PublishClean(S, lost) ==
    IF <<"WriteClean", None>> \in lost
    THEN [S EXCEPT !.admission_poisoned = TRUE,
                   !.authority = IF <<"Rollback", None>> \in lost THEN "clean" ELSE "dirty"]
    ELSE [S EXCEPT !.authority = "clean"]

\* finish_shutdown after its refresh; Broker::stop poisons the authority when it
\* returns an error.
finish_shutdown(S, lost) ==
    LET failed(T) == [T EXCEPT !.admission_poisoned = TRUE]
        drained == Log(S, BrokerDrained(S.audit, lost))
        sealed == [drained EXCEPT !.audit = CleanCheckpoint(@, lost)]
    IN IF S.uncertain_exposure THEN failed(S)
       ELSE IF ~S.audit.broker_birth
       THEN IF /\ ~S.audit.poisoned /\ ~S.admission_poisoned
               /\ Present(S) = {} /\ \A v \in View : S.views[v] = "none" /\ S.copy_work = {}
            THEN S ELSE failed(S)
       ELSE IF ~Reconciled(S) THEN failed(S)
       ELSE IF ~sealed.audit.checkpointed THEN failed(sealed)
       ELSE PublishClean(sealed, lost)
=============================================================================
