---------------------------- MODULE ExternalDdr ----------------------------
(***************************************************************************)
(* The external DDR broker of external_ddr.rs.  Handler threads serve      *)
(* clients over a Unix socket: a request runs under the catalog mutex, the *)
(* reply (with the FD of a view) is sent without it, and a registration or *)
(* a view stays provisional until the client has acknowledged it and the   *)
(* handler has committed it under the mutex again.  Anything else undoes   *)
(* it.  Clients die at any time; handlers interleave between critical      *)
(* sections; the daemon shuts down and seals its authority.                *)
(*                                                                         *)
(* A handler is known by the backing or view it hands over (handoff).  A   *)
(* client is cooperative: it unmaps a view before it releases it.          *)
(***************************************************************************)
EXTENDS ExternalDdrState

CONSTANTS
    Registrations, \* what clients may ask to register
    Imports,       \* what clients may ask to map
    Faults         \* sets of appends and state writes that may fail together

ASSUME RequestAssumption ==
    Registrations \subseteq BackingIdentity /\ Imports \subseteq ViewIdentity

VARIABLES
    ext,      \* the broker's state, under the catalog mutex
    handoff,  \* where the handler of each backing or view is in serve
    exposed,  \* views whose FD may be mapped outside the broker
    alive,    \* client processes that run
    phase     \* running, draining (shutdown_requested), stopped

vars == <<ext, handoff, exposed, alive, phase>>

Init ==
    /\ ext = NewState
    /\ handoff = [x \in Backing \cup View |-> "none"]
    /\ exposed = {}
    /\ alive = Proc
    /\ phase = "running"

-----------------------------------------------------------------------------
\* The appends and state writes that each kind of critical section attempts.
RefreshEvents == {"PeerTerminated", "RegisterAbort", "Revoke", "ViewPeerTerminated",
                  "BackingCloseIntent", "BackingCloseDone"}
AdmissionEvents == RefreshEvents \cup {"WriteDirty", "RetryDirty", "BrokerBirth"}
UndoEvents == {"RegisterAbort", "Revoke", "ViewAbort", "ViewCommitUnconfirmed",
               "BackingCloseIntent", "BackingCloseDone"}
StopEvents == RefreshEvents \cup {"BrokerDrained", "CleanCheckpoint", "WriteClean", "Rollback"}

\* What can fail in a section that attempts these events.  A poisoned writer
\* refuses every append: there is nothing left to lose.
Losable(lost, events) ==
    /\ lost = {} \/ ~ext.audit.poisoned
    /\ \A f \in lost : f[1] \in events

\* handle: what an admission request finds once the broker has let it in.
Entered(p, lost) ==
    session(before_admission(refresh(ext, alive, lost), lost), p)

Request(p) == p \in alive /\ phase # "stopped"

\* The reply is provisional, or the request failed at its own record.
Hand(x, T, provisional, p, lost) ==
    /\ ext' = IF provisional THEN T ELSE Finished(T, p, lost)
    /\ handoff' = [handoff EXCEPT ![x] = IF provisional THEN "replied" ELSE @]
    /\ UNCHANGED <<exposed, alive, phase>>

Register(p, b, id, lost) ==
    LET S == Entered(p, lost)
        T == register(S, lost, b, id)
    IN /\ Request(p) /\ phase = "running"
       /\ Losable(lost, AdmissionEvents \cup {"RegisterIntent"})
       /\ ext.audit.backings[b] = "None" /\ id.owner = p
       /\ Admitted(S) /\ CanRegister(S, id)
       /\ Hand(b, T, T.state[b] = "pending", p, lost)

\* AcquireExternalRead (no parent) and RetainExternalView.
Acquire(p, v, id, lost) ==
    LET S == Entered(p, lost)
        T == grant_view(S, lost, v, id)
    IN /\ Request(p) /\ phase = "running"
       /\ Losable(lost, AdmissionEvents \cup {"ViewIntent"})
       /\ ext.audit.views[v] = "None" /\ id.accessor = p
       /\ Admitted(S) /\ CanGrant(S, id)
       /\ Hand(v, T, T.views[v] = "pending", p, lost)

\* An admission request that is turned down: by the broker, by the checks that
\* come before the session (the process may be gone by now) or after it.
Reject(p, lost) ==
    LET S == before_admission(refresh(ext, alive, lost), lost)
    IN /\ phase = "running" /\ Losable(lost, AdmissionEvents)
       /\ \/ ext' = S
          \/ /\ Admitted(S) /\ p \in alive
             /\ ext' = Finished(session(S, p), p, lost)
       /\ UNCHANGED <<handoff, exposed, alive, phase>>

\* The client has unmapped the view and says so.
Release(p, v, lost) ==
    LET S == refresh(ext, alive, lost)
    IN /\ Request(p) /\ v \in HeldBy(ext, p) /\ ext.views[v] = "active"
       /\ Losable(lost, RefreshEvents \cup {"ViewCloseIntent", "ViewCloseDone"})
       /\ ext' = Finished(collect_retired(release_view(S, lost, v), lost), p, lost)
       /\ exposed' = exposed \ {v}
       /\ UNCHANGED <<handoff, alive, phase>>

RevokeBacking(p, b, lost) ==
    LET S == refresh(ext, alive, lost)
    IN /\ Request(p) /\ Losable(lost, RefreshEvents) /\ b \in Owned(S, p)
       /\ ext' = Finished(collect_retired(Retire(S, lost, {b}), lost), p, lost)
       /\ UNCHANGED <<handoff, exposed, alive, phase>>

\* A snapshot, or a request refused before it has a session.
Query(lost) ==
    /\ phase # "stopped" /\ Losable(lost, RefreshEvents)
    /\ ext' = refresh(ext, alive, lost)
    /\ UNCHANGED <<handoff, exposed, alive, phase>>

\* An unknown operation, a release or a revoke refused on its own checks.
Decline(p, lost) ==
    /\ Request(p) /\ Losable(lost, RefreshEvents)
    /\ ext' = Finished(session(refresh(ext, alive, lost), p), p, lost)
    /\ UNCHANGED <<handoff, exposed, alive, phase>>

-----------------------------------------------------------------------------
\* serve, after handle returned a provisional reply.

\* sendmsg: a failed or partial send may still have delivered the FD.
Send(x) ==
    /\ handoff[x] = "replied"
    /\ \/ /\ handoff' = [handoff EXCEPT ![x] = "sent"]
          /\ exposed' = exposed \cup ({x} \cap View)
       \/ /\ handoff' = [handoff EXCEPT ![x] = "undo"]
          /\ exposed' \in {exposed, exposed \cup ({x} \cap View)}
    /\ UNCHANGED <<ext, alive, phase>>

\* No ACK within the timeout, or the client hung up.
AckLost(x) ==
    /\ handoff[x] = "sent"
    /\ handoff' = [handoff EXCEPT ![x] = "undo"]
    /\ UNCHANGED <<ext, exposed, alive, phase>>

Commit(x, lost) ==
    LET S == before_admission(refresh(ext, alive, lost), lost)
        can == IF x \in Backing THEN CanCommitRegistration(S, x) ELSE CanCommitView(S, x)
        T == IF ~can THEN S
             ELSE IF x \in Backing THEN commit_registration(S, lost, x)
             ELSE commit_view(S, lost, x)
    IN /\ handoff[x] = "sent" /\ Losable(lost, AdmissionEvents \cup {"RegisterCommit", "ViewCommit"})
       /\ ext' = T
       /\ handoff' = [handoff EXCEPT ![x] =
                        IF can /\ ~T.audit.poisoned THEN "committed" ELSE "undo"]
       /\ UNCHANGED <<exposed, alive, phase>>

\* Writing the confirmation; if that fails the commit is undone.
Confirm(x) ==
    /\ handoff[x] = "committed"
    /\ handoff' \in {[handoff EXCEPT ![x] = "none"], [handoff EXCEPT ![x] = "undo"]}
    /\ UNCHANGED <<ext, exposed, alive, phase>>

Undo(x, lost) ==
    /\ handoff[x] = "undo" /\ Losable(lost, UndoEvents)
    /\ ext' = IF x \in Backing THEN undo_registration(ext, lost, x) ELSE undo_view(ext, lost, x)
    /\ handoff' = [handoff EXCEPT ![x] = "none"]
    /\ UNCHANGED <<exposed, alive, phase>>

-----------------------------------------------------------------------------
Exit(p) ==
    /\ p \in alive
    /\ alive' = alive \ {p}
    /\ UNCHANGED <<ext, handoff, exposed, phase>>

Shutdown ==
    /\ phase = "running"
    /\ phase' = "draining"
    /\ UNCHANGED <<ext, handoff, exposed, alive>>

\* Broker::stop: the listener and every handler have joined.
Stop(lost) ==
    /\ phase = "draining" /\ Losable(lost, StopEvents)
    /\ \A x \in Backing \cup View : handoff[x] = "none"
    /\ ext' = finish_shutdown(refresh(ext, alive, lost), lost)
    /\ phase' = "stopped"
    /\ UNCHANGED <<handoff, exposed, alive>>

Next ==
    \/ \E lost \in Faults :
         \/ \E p \in Proc :
              \/ \E b \in Backing, id \in Registrations : Register(p, b, id, lost)
              \/ \E v \in View, id \in Imports : Acquire(p, v, id, lost)
              \/ Reject(p, lost)
              \/ Decline(p, lost)
              \/ \E v \in View : Release(p, v, lost)
              \/ \E b \in Backing : RevokeBacking(p, b, lost)
         \/ Query(lost)
         \/ \E x \in Backing \cup View : Commit(x, lost) \/ Undo(x, lost)
         \/ Stop(lost)
    \/ \E x \in Backing \cup View : Send(x) \/ AckLost(x) \/ Confirm(x)
    \/ \E p \in Proc : Exit(p)
    \/ Shutdown

\* What Send, AckLost, Commit, Confirm and Undo do to the handler of x, and Stop
\* to the phase: fairness only needs to know that one of them happens.
Serves(x) ==
    /\ handoff[x] # "none"
    /\ \E h \in {"none", "sent", "committed", "undo"} \ {handoff[x]} :
         handoff' = [handoff EXCEPT ![x] = h]

Stops ==
    /\ phase = "draining" /\ phase' = "stopped"
    /\ \A x \in Backing \cup View : handoff[x] = "none"

\* Socket timeouts bound every wait of a handler, and the main thread joins
\* them once the listener has stopped.
Fairness == WF_phase(Stops) /\ \A x \in Backing \cup View : WF_handoff(Serves(x))

Spec == Init /\ [][Next]_vars /\ Fairness

-----------------------------------------------------------------------------
Object(v) == ext.audit.view_id[v].object
Accessor(v) == ext.audit.view_id[v].accessor
Owner(b) == ext.audit.backing_id[b].owner

\* Every variable has its type.
TypeOK ==
    /\ ext \in State
    /\ handoff \in [Backing \cup View -> {"none", "replied", "sent", "committed", "undo"}]
    /\ exposed \subseteq View /\ alive \subseteq Proc
    /\ phase \in {"running", "draining", "stopped"}

\* As long as a client may have a view mapped (its FD was sent, or may have
\* been, and the client has not released it), the journal holds the view
\* unresolved and its memory stays charged to the owner and to the host: no
\* revoke, exit, lost acknowledgement or failed append gives the bytes away.
ExposureAccounted ==
    \A v \in exposed :
        /\ v \in Unresolved(ext.audit)
        /\ Object(v) \in Held(ext.audit) \cap ext.charged

\* The state file says clean only while nothing is promised: no memory charged,
\* no view that may be mapped, no registration or view under way, and no peer
\* whose death left the question open.  finish_shutdown and before_admission
\* must leave it dirty in every other case, failed writes included.
CleanMeansDrained ==
    ext.authority = "clean" =>
        /\ exposed = {} /\ Open(ext) = {}
        /\ ext.charged = {} /\ Held(ext.audit) = {} /\ Unresolved(ext.audit) = {}
        /\ ~ext.uncertain_exposure
        /\ \A x \in Backing \cup View : handoff[x] \notin {"replied", "sent", "committed"}

\* While the writer works, the catalog and the replay agree on every backing and
\* on every view, whatever handlers, revokes and exits interleaved: a restart
\* that reads the journal sees what the broker saw.
JournalMatchesCatalog ==
    ~ext.audit.poisoned =>
        /\ \A b \in Backing :
             /\ b \in ext.charged <=> b \in Held(ext.audit)
             /\ ext.state[b] = "active" => ext.audit.backings[b] = "Active"
             /\ ext.state[b] = "pending" =>
                  ext.audit.backings[b] = IF b \in ext.handoff_pending THEN "Provisional" ELSE "Pending"
             /\ ext.state[b] = "retired" => ext.audit.backings[b] \in {"Retired", "Closed"}
        /\ \A v \in View :
             /\ ext.views[v] = "pending" <=> ext.audit.views[v] = "Intent"
             /\ ext.views[v] = "active" <=> ext.audit.views[v] = "Active"

\* register checks the budget against the catalog, the replay against the
\* journal: neither lets the charges of all, or of one owner, pass the limits,
\* or one memfd be charged twice.
QuotaHolds ==
    LET A == ext.audit
    IN \A held \in {ext.charged, Held(A)} :
         /\ charged_bytes(A, held) <= TotalLimit
         /\ \A p \in Proc : charged_bytes(A, OwnedBy(A, p, held)) <= OwnerLimit
         /\ \A b, c \in held : A.backing_id[b].ino = A.backing_id[c].ino => b = c

\* discard_uncommitted_session leaves nothing dangling: descriptor, snapshot and
\* commit index the sessions by the owner of a backing or the client of a view,
\* and would panic with the catalog mutex held.
ReferencesResolve ==
    /\ \A b \in Present(ext) : ext.sessions[Owner(b)] # "none"
    /\ \A v \in Open(ext) :
         ext.sessions[Accessor(v)] # "none" /\ Object(v) \in Present(ext)

\* "A possible FD exposure or unresolved peer death permanently stops admissions
\* for this live authority" (external_ddr.rs): from then on no backing and no
\* view is taken on or made active, and the authority never says clean again.
ExposureStopsAdmission ==
    [][ext.uncertain_exposure =>
         /\ ext'.uncertain_exposure /\ ext'.authority = ext.authority
         /\ \A b \in Backing : ext'.state[b] \in {"pending", "active"} => ext'.state[b] = ext.state[b]
         /\ \A v \in View : ext'.views[v] \in {"pending", "active"} => ext'.views[v] = ext.views[v]]_vars

\* The replay is strict about the order of events, and a rejected event poisons
\* the writer for good.  As long as no append fails, no interleaving of
\* handlers, revokes, exits and shutdown makes the broker record something that
\* the replay rejects.
NeverSelfPoisoned == ~ext.audit.poisoned

\* Once the daemon has asked the broker to stop, every handler comes to its end
\* and the broker stops, whatever clients do or leave undone.
ShutdownEnds == phase = "draining" ~> phase = "stopped"
=============================================================================
