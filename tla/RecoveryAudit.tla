--------------------------- MODULE RecoveryAudit ---------------------------
(***************************************************************************)
(* The semantic replay of ddr_recovery_audit.rs and the durable writer of  *)
(* ddr_recovery_durable.rs: what the journal says about every backing,     *)
(* read view and copy work of one broker incarnation.  Everything here is  *)
(* an operator on a replay record A; ExternalDdr calls them.               *)
(*                                                                         *)
(* The broker records one frame per event.  An append can fail, and a      *)
(* failed or rejected append poisons the writer: nothing is recorded after *)
(* it.  The appends that fail during one critical section are the pairs    *)
(* <<event, id>> of a set `lost`.  Loops of the code over several ids (in  *)
(* hash order) are set-wise: the ids that were recorded before the failure *)
(* are the ones not lost.                                                  *)
(*                                                                         *)
(* A process stands for its birth record, so PID reuse is a new process.   *)
(* The identity of a backing or view is kept once, in the replay: the      *)
(* catalog entry and the audit identity are filled with the same values.   *)
(* Fresh numeric identities (leases, handoffs, generations, reservations)  *)
(* are abstracted: ids are never reused.                                   *)
(***************************************************************************)
EXTENDS Naturals, FiniteSets, FiniteSetsExt

CONSTANTS
    Proc,       \* client processes (births)
    Inode,      \* memfds
    Size,       \* bytes of each memfd
    Backing,    \* object ids
    View,       \* view ids
    Work,       \* copy work ids
    TotalLimit, \* domain.total_limit
    OwnerLimit, \* domain.owner_limit
    None

BackingState == {"None", "Provisional", "Active", "Pending", "Publishing",
                 "Retired", "Closing", "Closed"}
ViewState == {"None", "Intent", "Active", "PossiblyExposed", "Closing", "Closed"}

BackingIdentity == [owner : Proc, ino : Inode, purpose : {"Immutable", "Staging", "ProbeOnly"}]
ViewIdentity == [object : Backing, accessor : Proc, parent : View \cup {None}]
WorkIdentity == [source : Backing, target : Backing]

ASSUME DomainAssumption ==
    /\ Size \in [Inode -> Nat \ {0}]
    /\ OwnerLimit \in Nat \ {0} /\ TotalLimit \in Nat /\ OwnerLimit <= TotalLimit
    /\ None \notin Proc \cup Inode \cup Backing \cup View \cup Work
    /\ None \notin BackingIdentity \cup ViewIdentity \cup WorkIdentity
    /\ Backing \cap View = {}

Replay ==
    [backings : [Backing -> BackingState], backing_id : [Backing -> BackingIdentity \cup {None}],
     views : [View -> ViewState], view_id : [View -> ViewIdentity \cup {None}],
     works : [Work -> WorkIdentity \cup {None}], works_drained : SUBSET Work,
     works_cancelled : SUBSET Work, works_completed : SUBSET Work,
     terminated : SUBSET Proc, broker_birth : BOOLEAN,
     drained : BOOLEAN, checkpointed : BOOLEAN, poisoned : BOOLEAN, lag : Nat]

NewReplay ==
    [backings |-> [b \in Backing |-> "None"], backing_id |-> [b \in Backing |-> None],
     views |-> [v \in View |-> "None"], view_id |-> [v \in View |-> None],
     works |-> [w \in Work |-> None], works_drained |-> {},
     works_cancelled |-> {}, works_completed |-> {},
     terminated |-> {}, broker_birth |-> FALSE,
     drained |-> FALSE, checkpointed |-> FALSE, poisoned |-> FALSE, lag |-> 0]

-----------------------------------------------------------------------------
\* Backings that count against the quota and views that may still be mapped.
Held(A) == {b \in Backing : A.backings[b] \notin {"None", "Closed"}}
Unresolved(A) == {v \in View : A.views[v] \notin {"None", "Closed"}}
Undrained(A) == {w \in Work : A.works[w] # None /\ w \notin A.works_drained}

Bytes(A, b) == Size[A.backing_id[b].ino]
charged_bytes(A, bs) == MapThenSumSet(LAMBDA b : Bytes(A, b), bs)
OwnedBy(A, p, bs) == {b \in bs : A.backing_id[b].owner = p}

unresolved_holders(A) ==
    {A.backing_id[b].owner : b \in Held(A)}
    \cup {A.view_id[v].accessor : v \in Unresolved(A)}
    \cup A.terminated

\* A mutant: a retired backing closes whatever views and copies it has.
CloseIgnoringViews(A, b) == A.backings[b] = "Retired"

backing_can_close(A, b) ==
    /\ A.backings[b] = "Retired"
    /\ \A v \in Unresolved(A) : A.view_id[v].object # b
    /\ \A w \in Undrained(A) : A.works[w].source # b /\ A.works[w].target # b

\* What apply demands of every event but the checkpoint, whose epoch must not
\* be behind the replay's: `lag` is how far the broker's epoch is behind it.
Accepting(A) == ~A.poisoned /\ ~A.drained /\ ~A.checkpointed /\ A.lag = 0

\* Of the ids X, the ones whose frame of this event becomes durable.
Recorded(A, lost, event, X) ==
    IF Accepting(A) THEN {x \in X : <<event, x>> \notin lost} ELSE {}

Poison(A, failed) == [A EXCEPT !.poisoned = @ \/ failed]

\* An event that moves each backing of X from a state of `from` to state `to`.
MoveBackings(A, lost, event, X, from, to) ==
    LET done == Recorded(A, lost, event, {b \in X : A.backings[b] \in from})
    IN Poison([A EXCEPT !.backings = [b \in Backing |-> IF b \in done THEN to ELSE @[b]]],
              ~(X \subseteq done))

MoveViews(A, lost, event, X, from, to) ==
    LET done == Recorded(A, lost, event, {v \in X : A.views[v] \in from})
    IN Poison([A EXCEPT !.views = [v \in View |-> IF v \in done THEN to ELSE @[v]]],
              ~(X \subseteq done))

-----------------------------------------------------------------------------
\* One operator per event kind.  The writer is poisoned afterwards exactly when
\* some frame was not recorded, so a caller reads success off `poisoned`.

BrokerBirth(A, lost) ==
    LET accepted == ~A.broker_birth /\ Held(A) = {} /\ Unresolved(A) = {} /\ A.terminated = {}
        done == accepted /\ Recorded(A, lost, "BrokerBirth", {None}) # {}
    IN Poison([A EXCEPT !.broker_birth = @ \/ done], ~done)

\* A mutant: the owner's limit is forgotten.
WithinTotal(A, id, held) == charged_bytes(A, held) + Size[id.ino] <= TotalLimit

WithinBudget(A, id, held) ==
    /\ charged_bytes(A, held) + Size[id.ino] <= TotalLimit
    /\ charged_bytes(A, OwnedBy(A, id.owner, held)) + Size[id.ino] <= OwnerLimit

RegisterIntent(A, lost, b, id) ==
    LET accepted == /\ A.backings[b] = "None"
                    /\ id.owner \notin A.terminated
                    /\ \A c \in Held(A) : A.backing_id[c].ino # id.ino
                    /\ WithinBudget(A, id, Held(A))
        done == accepted /\ Recorded(A, lost, "RegisterIntent", {b}) # {}
    IN IF done
       THEN [A EXCEPT !.backings[b] = "Provisional", !.backing_id[b] = id]
       ELSE Poison(A, TRUE)

RegisterCommit(A, lost, b) ==
    MoveBackings(A, lost, "RegisterCommit", {b},
                 IF A.backing_id[b].owner \in A.terminated THEN {} ELSE {"Provisional"},
                 IF A.backing_id[b].purpose = "Immutable" THEN "Active" ELSE "Pending")

RegisterAbort(A, lost, X) ==
    MoveBackings(A, lost, "RegisterAbort", X, {"Provisional"}, "Retired")

Revoke(A, lost, X) ==
    MoveBackings(A, lost, "Revoke", X, {"Active", "Pending"}, "Retired")

\* BackingCloseIntent then BackingCloseDone for each backing of X in turn: the
\* one whose second frame fails stays Closing, the ones after it untouched.
BackingClose(A, lost, X) ==
    LET intent == Recorded(A, lost, "BackingCloseIntent", {b \in X : backing_can_close(A, b)})
        done == Recorded(A, lost, "BackingCloseDone", intent)
    IN Poison([A EXCEPT !.backings = [b \in Backing |-> IF b \in done THEN "Closed"
                                                        ELSE IF b \in intent THEN "Closing"
                                                        ELSE @[b]]],
              ~(X \subseteq done))

ViewIntent(A, lost, v, id) ==
    LET accepted == /\ A.views[v] = "None"
                    /\ A.backings[id.object] = "Active"
                    /\ A.backing_id[id.object].owner \notin A.terminated
                    /\ id.accessor \notin A.terminated
                    /\ id.parent # None =>
                          /\ A.views[id.parent] = "Active"
                          /\ A.view_id[id.parent].object = id.object
                          /\ A.view_id[id.parent].accessor = id.accessor
        done == accepted /\ Recorded(A, lost, "ViewIntent", {v}) # {}
    IN IF done
       THEN [A EXCEPT !.views[v] = "Intent", !.view_id[v] = id]
       ELSE Poison(A, TRUE)

ViewCommit(A, lost, v) ==
    LET id == A.view_id[v]
        live == /\ A.backings[id.object] = "Active"
                /\ A.backing_id[id.object].owner \notin A.terminated
                /\ id.accessor \notin A.terminated
    IN MoveViews(A, lost, "ViewCommit", {v}, IF live THEN {"Intent"} ELSE {}, "Active")

ViewAbort(A, lost, v) ==
    MoveViews(A, lost, "ViewAbort", {v}, {"Intent"}, "PossiblyExposed")

ViewCommitUnconfirmed(A, lost, v) ==
    MoveViews(A, lost, "ViewCommitUnconfirmed", {v}, {"Active"}, "PossiblyExposed")

ViewPeerTerminated(A, lost, X) ==
    MoveViews(A, lost, "ViewPeerTerminated", X,
              IF \A v \in X : A.view_id[v].accessor \in A.terminated
              THEN {"Intent", "Active"} ELSE {},
              "PossiblyExposed")

ViewCloseIntent(A, lost, v) ==
    MoveViews(A, lost, "ViewCloseIntent", {v}, {"Active"}, "Closing")

ViewCloseDone(A, lost, v) ==
    MoveViews(A, lost, "ViewCloseDone", {v}, {"Closing"}, "Closed")

PeerTerminated(A, lost, X) ==
    LET known == {A.backing_id[b].owner : b \in {c \in Backing : A.backings[c] # "None"}}
                 \cup {A.view_id[v].accessor : v \in {u \in View : A.views[u] # "None"}}
        done == Recorded(A, lost, "PeerTerminated", X \cap known)
    IN Poison([A EXCEPT !.terminated = @ \cup done], ~(X \subseteq done))

\* An event of work w that turns A into B.
WorkEvent(A, lost, event, w, accepted, B) ==
    IF accepted /\ Recorded(A, lost, event, {w}) # {} THEN B ELSE Poison(A, TRUE)

\* Source and target of a work are as the copy needs them.
Current(A, id, from, to) ==
    /\ A.backings[id.source] = from /\ A.backings[id.target] = to
    /\ A.backing_id[id.source].owner \notin A.terminated
    /\ A.backing_id[id.target].owner \notin A.terminated

\* A target takes one work ever.
SingleUse(A, w, id) ==
    A.works[w] = None /\ \A o \in Work : A.works[o] # None => A.works[o].target # id.target

WorkIntent(A, lost, w, id) ==
    WorkEvent(A, lost, "WorkIntent", w,
              /\ SingleUse(A, w, id)
              /\ id.source # id.target /\ Current(A, id, "Active", "Pending")
              /\ A.backing_id[id.target].purpose # "Immutable"
              /\ A.backing_id[id.source].ino # A.backing_id[id.target].ino,
              [A EXCEPT !.works[w] = id])

CancelRequest(A, lost, w) ==
    WorkEvent(A, lost, "CancelRequest", w, A.works[w] # None,
              [A EXCEPT !.works_cancelled = @ \cup {w}])

WorkDrained(A, lost, w) ==
    WorkEvent(A, lost, "WorkDrained", w, A.works[w] # None /\ w \notin A.works_drained,
              [A EXCEPT !.works_drained = @ \cup {w}])

\* io_completed and verified.
WorkCompleted(A, lost, event, w) ==
    WorkEvent(A, lost, event, w,
              /\ w \in A.works_drained /\ w \notin A.works_cancelled
              /\ Current(A, A.works[w], "Active", "Pending"),
              [A EXCEPT !.works_completed = @ \cup {w}])

Publishable(A, w) ==
    /\ w \in A.works_drained \cap A.works_completed /\ w \notin A.works_cancelled
    /\ A.backing_id[A.works[w].target].purpose = "Staging"

PublishIntent(A, lost, w) ==
    WorkEvent(A, lost, "PublishIntent", w,
              Publishable(A, w) /\ Current(A, A.works[w], "Active", "Pending"),
              [A EXCEPT !.backings[A.works[w].target] = "Publishing"])

PublishDone(A, lost, w) ==
    WorkEvent(A, lost, "PublishDone", w,
              Publishable(A, w) /\ Current(A, A.works[w], "Active", "Publishing"),
              [A EXCEPT !.backings[A.works[w].target] = "Active"])

PublishAbort(A, lost, w) ==
    WorkEvent(A, lost, "PublishAbort", w, A.backings[A.works[w].target] = "Publishing",
              [A EXCEPT !.backings[A.works[w].target] = "Pending"])

\* observed_drain: handoffs under way, and obligations of any kind.
PendingHandoffs(A) ==
    {b \in Backing : A.backings[b] = "Provisional"} \cup {v \in View : A.views[v] = "Intent"}

BrokerDrained(A, lost) ==
    LET done == /\ PendingHandoffs(A) = {} /\ Undrained(A) = {}
                /\ Recorded(A, lost, "BrokerDrained", {None}) # {}
    IN Poison([A EXCEPT !.drained = @ \/ done], ~done)

ZeroObligations(A) ==
    /\ PendingHandoffs(A) = {} /\ Held(A) = {} /\ Undrained(A) = {}
    /\ unresolved_holders(A) = {}

\* A refused checkpoint leaves the writer as it is, a failed append poisons it.
CleanCheckpoint(A, lost) ==
    IF A.poisoned \/ A.checkpointed \/ ~A.drained \/ ~ZeroObligations(A) THEN A
    ELSE IF <<"CleanCheckpoint", None>> \in lost THEN Poison(A, TRUE)
    ELSE [A EXCEPT !.checkpointed = TRUE]
=============================================================================
