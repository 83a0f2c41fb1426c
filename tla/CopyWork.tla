----------------------------- MODULE CopyWork -----------------------------
(***************************************************************************)
(* Copies between external backings: external_ddr_capability.rs (plan with *)
(* a probe, receipt, submit), external_ddr_copy_admission.rs (admission,   *)
(* worker threads, finish, shutdown) and external_ddr_transfer.rs (events),*)
(* on top of the broker of ExternalDdr.                                    *)
(*                                                                         *)
(* Planning copies into a private probe first and issues a receipt for the *)
(* exact request; submitting it admits the work under the catalog mutex    *)
(* and starts a worker.  Nobody watches a worker: a poll, wait or cancel   *)
(* of its event, or the shutdown, joins it when it has returned, and then  *)
(* finishes the copy under the mutex.  The discovery mutex is held over a  *)
(* whole plan and a whole submit, so there is one planner at a time.       *)
(*                                                                         *)
(* A receipt is good for one epoch.  Only whether the epoch has moved      *)
(* since is kept, read off what it counts; a planner, an executor, a seal  *)
(* or the comparison of the bytes may always fail.  finish refreshes the   *)
(* sessions twice, and processes may die in between (Dying).               *)
(***************************************************************************)
EXTENDS ExternalDdr

CONSTANTS
    Staged,     \* registrations that are committed at the start
    Dying       \* sets of processes that may die during one finish

ASSUME CopyAssumption ==
    /\ \A b \in DOMAIN Staged : b \in Backing /\ Staged[b] \in BackingIdentity
    /\ Dying \subseteq SUBSET Proc

VARIABLES
    planner,          \* where the holder of the discovery mutex is
    receipt,          \* the request that the current receipt authorizes
    worker,           \* copy_workers, and the threads themselves
    copied,           \* works whose executor returned success
    cancelled,        \* the flag each executor looks at
    event,            \* status of the transfer event of each work
    cancel_requested, \* of the event
    stopping          \* the handlers have joined, stop joins the workers

copy == <<planner, receipt, worker, copied, cancelled, event, cancel_requested, stopping>>
copyvars == <<vars, copy>>

CopyRequest == [client : Proc, source : Backing, target : Backing]
NoPlan == [step |-> "idle"]

\* Registrations as Register, Send and Commit leave them.
Committed ==
    LET owners == {Staged[b].owner : b \in DOMAIN Staged}
        In(b, yes, no) == IF b \in DOMAIN Staged THEN yes ELSE no
        State_(b) == IF Staged[b].purpose = "Immutable" THEN "Active" ELSE "Pending"
        A == [NewReplay EXCEPT
                !.broker_birth = TRUE,
                !.backings = [b \in Backing |-> In(b, State_(b), "None")],
                !.backing_id = [b \in Backing |-> In(b, Staged[b], None)]]
    IN [NewState EXCEPT
          !.sessions = [p \in Proc |-> IF p \in owners THEN "live" ELSE "none"],
          !.committed = owners, !.authority = "dirty", !.audit = A,
          !.state = [b \in Backing |-> In(b, IF State_(b) = "Active" THEN "active" ELSE "pending", "none")],
          !.charged = DOMAIN Staged, !.file = DOMAIN Staged]

CopyInit ==
    /\ ext = Committed
    /\ handoff = [x \in Backing \cup View |-> "none"]
    /\ exposed = {} /\ alive = Proc /\ phase = "running"
    /\ planner = NoPlan /\ receipt = None
    /\ worker = [w \in Work |-> "none"]
    /\ copied = {} /\ cancelled = {}
    /\ event = [w \in Work |-> "none"] /\ cancel_requested = {}
    /\ stopping = FALSE

-----------------------------------------------------------------------------
\* Operations on the broker's state, under the catalog mutex.

\* What moves the epoch, and how often it moves from S to T in a refresh.
Counted(S) == <<S.sessions, S.state, S.charged, S.handoff_pending, S.views, S.copy_work>>
Moves(S, T) ==
    Cardinality({p \in Proc : S.sessions[p] # T.sessions[p]})
    + Cardinality({b \in Backing : S.state[b] # T.state[b]})
    + Cardinality(Open(S) \ Open(T)) + Cardinality(S.charged \ T.charged)

Live(S, b) == S.sessions[S.audit.backing_id[b].owner] = "live"

\* The checks on source and target that admission and planning share.
Copyable(S, s, t, purpose) ==
    /\ s # t /\ s \in Present(S) /\ t \in Present(S) /\ Live(S, s) /\ Live(S, t)
    /\ S.state[s] = "active" /\ s \in S.file
    /\ S.state[t] = "pending" /\ t \notin S.handoff_pending /\ t \in S.file
    /\ S.audit.backing_id[t].purpose = purpose
    /\ ~InFlight(S, t)
    /\ S.audit.backing_id[s].ino # S.audit.backing_id[t].ino

validate_copy_request(S, r) ==
    /\ phase = "running" /\ r.target \in Present(S)
    /\ S.audit.backing_id[r.target].owner = r.client
    /\ Copyable(S, r.source, r.target, "Staging")

\* admit_copy_mode: afterwards w is in copy_work exactly when it is admitted.
EnterWork(S, w) ==
    IF S.audit.poisoned THEN S ELSE Bump([S EXCEPT !.copy_work = @ \cup {w}], 1)
IntendWork(S, lost, w, id) ==
    IF ~Admitted(S) THEN S ELSE EnterWork(Log(S, WorkIntent(S.audit, lost, w, id)), w)
AdmitWork(S, lost, w, id, purpose) ==
    IF ~Copyable(S, id.source, id.target, purpose) THEN S
    ELSE IntendWork(before_admission(S, lost), lost, w, id)
admit_copy(S, running, lost, w, id, purpose) ==
    AdmitWork(refresh(S, running, lost), lost, w, id, purpose)

\* A thread that cannot be started poisons everything: its work never drains.
Unspawned(S, w) == Log(S, Poison(S.audit, TRUE))

\* The end of finish_copy_wip.  The epoch is set to one past what it was before the
\* second refresh: `back` is how far that is behind the last record.
Release_(S, lost, w, back, failed) ==
    LET t == S.audit.works[w].target
        T == IF failed THEN Retire(S, lost, {t})
             ELSE IF S.audit.backing_id[t].purpose = "ProbeOnly" THEN S
             ELSE [S EXCEPT !.state[t] = "active"]
    IN collect_retired([T EXCEPT !.copy_work = @ \ {w}, !.audit.lag = back], lost)

\* The executor succeeded, nobody cancelled, and both sides are still there.
Wanted(S, w) ==
    LET id == S.audit.works[w]
    IN /\ w \in copied /\ w \notin cancelled
       /\ S.state[id.source] = "active" /\ S.state[id.target] = "pending"
       /\ Live(S, id.source) /\ Live(S, id.target)

\* How far the epoch falls behind when the refresh moved it `moves` times and the
\* last `unrecorded` of those came with no record.
Behind(moves, unrecorded) == IF moves < unrecorded THEN 0 ELSE moves - unrecorded

\* The stages of finish_copy_wip, last to first.  Each takes the state that the stage
\* before it left; an error ends it there, with w still in copy_work.
Probing(S, w) == S.audit.backing_id[S.audit.works[w].target].purpose = "ProbeOnly"

Released(S, lost, w, back) ==
    IF S.audit.poisoned THEN S ELSE Release_(S, lost, w, back, FALSE)
Aborted(S, lost, w, back) ==
    IF S.audit.poisoned /\ ~Probing(S, w) THEN S ELSE Release_(S, lost, w, back, TRUE)
AbortPublish(S, lost, w, back) ==
    Aborted(IF Probing(S, w) THEN S ELSE Log(S, PublishAbort(S.audit, lost, w)), lost, w, back)

Published(S, lost, w) ==
    Log(S, IF Probing(S, w) THEN WorkCompleted(S.audit, lost, "WorkVerified", w)
                            ELSE PublishDone(S.audit, lost, w))

\* After the second refresh, which found S and left T.
Recheck(S, T, lost, w, proof) ==
    LET unrecorded == IF Probing(T, w) /\ T.state[T.audit.works[w].target] = "retired" THEN 2 ELSE 1
        back == Behind(Moves(S, T), unrecorded)
    IN IF Wanted(T, w) /\ proof THEN Released(Published(T, lost, w), lost, w, back)
       ELSE AbortPublish(T, lost, w, back)

Seal(S, lost, w, dying, sealed, proof) ==
    IF S.audit.poisoned THEN S
    ELSE IF ~sealed THEN AbortPublish(S, lost, w, 0)
    ELSE Recheck(S, refresh(S, alive \ dying, lost), lost, w, proof)

IoCompleted(S, lost, w) == Log(S, WorkCompleted(S.audit, lost, "WorkIoCompleted", w))
Intended(S, lost, w) ==
    IF Probing(S, w) THEN S ELSE Log(S, PublishIntent(S.audit, lost, w))

Complete(S, lost, w, dying, sealed, proof) ==
    IF S.audit.poisoned THEN S
    ELSE IF ~Wanted(S, w) THEN Release_(S, lost, w, 0, TRUE)
    ELSE Seal(Intended(IoCompleted(S, lost, w), lost, w), lost, w, dying, sealed, proof)

Drained(S, lost, w) == Log(S, WorkDrained(S.audit, lost, w))
finish_copy(w, dying, sealed, proof, lost) ==
    Complete(Drained(refresh(ext, alive, lost), lost, w), lost, w, dying, sealed, proof)

-----------------------------------------------------------------------------
\* A receipt of another epoch is no receipt.
Fresh == receipt' = IF Counted(ext') = Counted(ext) THEN receipt ELSE None

\* What finishing work w of an event, or of the planner, may meet.
FinishEvents ==
    RefreshEvents \cup {"WorkDrained", "WorkIoCompleted", "WorkVerified", "PublishIntent",
                        "PublishDone", "PublishAbort"}
Finishes(w, lost) ==
    /\ Losable(lost, FinishEvents)
    /\ \E dying \in Dying, sealed, proof \in BOOLEAN :
          /\ ext' = finish_copy(w, dying, sealed, proof, lost)
          /\ alive' = alive \ dying
    /\ worker' = [worker EXCEPT ![w] = "done"]
    /\ Fresh

\* probe, first section: register the probe, commit it, admit the copy into it.
ProbeCommitted(S, lost, q) == IF S.audit.poisoned THEN S ELSE commit_registration(S, lost, q)
BeginProbe(r, q, w, id, lost) ==
    /\ planner = NoPlan /\ Request(r.client)
    /\ Losable(lost, AdmissionEvents \cup {"RegisterIntent", "RegisterCommit", "WorkIntent", "Spawn"})
    /\ ext.audit.backings[q] = "None" /\ ext.audit.works[w] = None
    /\ id.owner = r.client /\ id.purpose = "ProbeOnly"
    /\ \E S \in {before_admission(refresh(ext, alive, lost), lost)} :
          /\ validate_copy_request(S, r) /\ Admitted(S)
          /\ Size[id.ino] = Bytes(S.audit, r.target)
          /\ \A b \in S.charged : S.audit.backing_id[b].purpose # "ProbeOnly"
          /\ CanRegister(S, id)
          /\ \E R \in {ProbeCommitted(register(S, lost, q, id), lost, q)} :
               \/ /\ R.state[q] # "pending" /\ ext' = R
                  /\ UNCHANGED <<planner, worker>>
               \/ /\ q \in R.handoff_pending
                  /\ ext' = undo_registration(R, lost, q)
                  /\ UNCHANGED <<planner, worker>>
               \/ /\ R.state[q] = "pending" /\ q \notin R.handoff_pending
                  /\ \E A \in {admit_copy(R, alive, lost, w, [source |-> r.source, target |-> q],
                                          "ProbeOnly")} :
                       \/ /\ w \notin A.copy_work
                          /\ ext' = collect_retired(Retire(A, lost, {q}), lost)
                          /\ UNCHANGED <<planner, worker>>
                       \/ /\ w \in A.copy_work /\ <<"Spawn", w>> \in lost
                          /\ ext' = Unspawned(A, w)
                          /\ UNCHANGED <<planner, worker>>
                       \/ /\ w \in A.copy_work /\ <<"Spawn", w>> \notin lost
                          /\ ext' = A
                          /\ planner' = [step |-> "join", request |-> r, probe |-> q, work |-> w]
                          /\ worker' = [worker EXCEPT ![w] = "running"]
    /\ Fresh
    /\ UNCHANGED <<handoff, exposed, alive, phase, copied, cancelled, event, cancel_requested, stopping>>

\* join of the probe's worker; an error leaves the probe charged.
JoinProbe(lost) ==
    /\ planner.step = "join" /\ worker[planner.work] = "returned"
    /\ Finishes(planner.work, lost)
    /\ planner' = IF planner.work \in ext'.copy_work THEN NoPlan
                  ELSE [step |-> "close", request |-> planner.request, probe |-> planner.probe,
                        measured |-> ext'.state[planner.probe] = "pending"]
    /\ UNCHANGED <<handoff, exposed, phase, copied, cancelled, event, cancel_requested, stopping>>

CloseProbe(lost) ==
    LET T == Retire(ext, lost, {planner.probe})
        C == collect_retired(T, lost)
    IN /\ planner.step = "close" /\ Losable(lost, UndoEvents)
       /\ ext' = IF T.audit.poisoned THEN T ELSE C
       /\ planner' = IF ext'.audit.poisoned \/ planner.probe \in ext'.charged \/ ~planner.measured
                     THEN NoPlan ELSE [step |-> "issue", request |-> planner.request]
       /\ Fresh
       /\ UNCHANGED <<handoff, exposed, alive, phase, worker, copied, cancelled, event,
                      cancel_requested, stopping>>

\* The last section of probe: the request is checked again at the epoch of a
\* snapshot taken after the probe was closed.
IssueReceipt(lost) ==
    /\ planner.step = "issue" /\ Losable(lost, AdmissionEvents)
    /\ ext' = before_admission(refresh(ext, alive, lost), lost)
    /\ \/ Fresh /\ planner' = NoPlan
       \/ /\ Counted(ext') = Counted(ext) /\ validate_copy_request(ext', planner.request)
          /\ Admitted(ext')
          /\ receipt' = planner.request
          /\ planner' = [step |-> "plan"]
    /\ UNCHANGED <<handoff, exposed, alive, phase, worker, copied, cancelled, event,
                   cancel_requested, stopping>>

\* The end of plan_result: the client gets a plan, or nobody can use the receipt.
SavePlan ==
    /\ planner.step = "plan"
    /\ receipt' \in {receipt, None}
    /\ planner' = NoPlan
    /\ UNCHANGED <<vars, worker, copied, cancelled, event, cancel_requested, stopping>>

Expire ==
    /\ receipt # None /\ receipt' = None
    /\ UNCHANGED <<vars, planner, worker, copied, cancelled, event, cancel_requested, stopping>>

\* admit: receipt, request and epoch are compared and the work is admitted in one
\* section.  The event is entered in the next one.
SubmitCopy(w, lost) ==
    /\ planner = NoPlan /\ receipt # None /\ Request(receipt.client)
    /\ Losable(lost, AdmissionEvents \cup {"WorkIntent", "Spawn"})
    /\ ext.audit.works[w] = None
    /\ \E S \in {refresh(ext, alive, lost)} :
          /\ Counted(S) = Counted(ext) /\ validate_copy_request(S, receipt)
          /\ \E A \in {admit_copy(S, alive, lost, w,
                                  [source |-> receipt.source, target |-> receipt.target], "Staging")} :
               \/ w \notin A.copy_work /\ ext' = A /\ UNCHANGED <<planner, worker>>
               \/ /\ w \in A.copy_work /\ <<"Spawn", w>> \in lost
                  /\ ext' = Unspawned(A, w)
                  /\ UNCHANGED <<planner, worker>>
               \/ /\ w \in A.copy_work /\ <<"Spawn", w>> \notin lost
                  /\ ext' = A
                  /\ planner' = [step |-> "event", work |-> w]
                  /\ worker' = [worker EXCEPT ![w] = "running"]
    /\ Fresh
    /\ UNCHANGED <<handoff, exposed, alive, phase, copied, cancelled, event, cancel_requested, stopping>>

EnterEvent ==
    /\ planner.step = "event"
    /\ event' = [event EXCEPT ![planner.work] = "running"]
    /\ planner' = NoPlan
    /\ UNCHANGED <<vars, receipt, worker, copied, cancelled, cancel_requested, stopping>>

-----------------------------------------------------------------------------
\* The worker thread: the copy is complete, or failed, or stopped by the flag.
Execute(w) ==
    /\ worker[w] = "running"
    /\ worker' = [worker EXCEPT ![w] = "returned"]
    /\ copied' \in {copied, copied \cup {w}}
    /\ UNCHANGED <<vars, planner, receipt, cancelled, event, cancel_requested, stopping>>

\* authorize_event: only the live client that submitted it sees its event.
Client(w) == ext.audit.backing_id[ext.audit.works[w].target].owner
Authorized(w) == /\ event[w] # "none" /\ Request(Client(w)) /\ ~stopping
                 /\ ext.sessions[Client(w)] = "live"

\* A mutant: too late to stop the worker, the request is only noted.
CancelIfRunning(w, lost) ==
    LET late == worker[w] # "running"
        A == IF late THEN ext.audit ELSE CancelRequest(ext.audit, lost, w)
    IN /\ Authorized(w) /\ event[w] = "running" /\ w \in ext.copy_work
       /\ Losable(lost, {"CancelRequest"})
       /\ ext' = Log(ext, A)
       /\ cancelled' = IF late THEN cancelled ELSE cancelled \cup {w}
       /\ cancel_requested' = IF A.poisoned THEN cancel_requested ELSE cancel_requested \cup {w}
       /\ UNCHANGED <<handoff, exposed, alive, phase, planner, receipt, worker, copied, event, stopping>>

\* A mutant: a cancelled work is given up at once.
CancelDropsWork(w, lost) ==
    LET A == CancelRequest(ext.audit, lost, w)
    IN /\ Authorized(w) /\ event[w] = "running" /\ w \in ext.copy_work
       /\ Losable(lost, {"CancelRequest"})
       /\ ext' = [Log(ext, A) EXCEPT !.copy_work = @ \ {w}]
       /\ cancelled' = cancelled \cup {w}
       /\ cancel_requested' = IF A.poisoned THEN cancel_requested ELSE cancel_requested \cup {w}
       /\ UNCHANGED <<handoff, exposed, alive, phase, planner, receipt, worker, copied, event, stopping>>

\* CancelEvent: the flag is set even when the record fails.
CancelEvent(w, lost) ==
    LET A == CancelRequest(ext.audit, lost, w)
    IN /\ Authorized(w) /\ event[w] = "running" /\ w \in ext.copy_work
       /\ Losable(lost, {"CancelRequest"})
       /\ ext' = Log(ext, A)
       /\ cancelled' = cancelled \cup {w}
       /\ cancel_requested' = IF A.poisoned THEN cancel_requested ELSE cancel_requested \cup {w}
       /\ UNCHANGED <<handoff, exposed, alive, phase, planner, receipt, worker, copied, event, stopping>>

\* observe (poll, wait, cancel): the handle of a finished worker is taken out under
\* the mutex, so that one handler joins it.
TakeWorker(w) ==
    /\ Authorized(w) /\ worker[w] = "returned"
    /\ worker' = [worker EXCEPT ![w] = "joining"]
    /\ UNCHANGED <<vars, planner, receipt, copied, cancelled, event, cancel_requested, stopping>>

\* A mutant: the event reports what the executor returned.
OutcomeOfWorker(w) ==
    IF w \in copied THEN "complete" ELSE IF w \in cancel_requested THEN "cancelled" ELSE "failed"

\* complete, for the event of a work that finished.
Outcome(w) ==
    IF ext'.state[ext.audit.works[w].target] = "active" THEN "complete"
    ELSE IF w \in cancel_requested THEN "cancelled" ELSE "failed"

FinishCopy(w, lost) ==
    /\ worker[w] = "joining"
    /\ Finishes(w, lost)
    /\ event' = [event EXCEPT ![w] = IF w \in ext'.copy_work THEN "failed" ELSE Outcome(w)]
    /\ UNCHANGED <<handoff, exposed, phase, planner, copied, cancelled, cancel_requested, stopping>>

-----------------------------------------------------------------------------
\* A mutant: the broker waits until no copy is under way.
JoinHandlersIdle ==
    /\ phase = "draining" /\ ~stopping /\ planner = NoPlan /\ ext.copy_work = {}
    /\ \A x \in Backing \cup View : handoff[x] = "none"
    /\ stopping' = TRUE
    /\ UNCHANGED <<vars, planner, receipt, worker, copied, cancelled, event, cancel_requested>>

\* Broker::stop, once the listener and the handlers have joined.
JoinHandlers ==
    /\ phase = "draining" /\ ~stopping /\ planner = NoPlan
    /\ \A x \in Backing \cup View : handoff[x] = "none"
    /\ \A w \in Work : worker[w] # "joining"
    /\ stopping' = TRUE
    /\ UNCHANGED <<vars, planner, receipt, worker, copied, cancelled, event, cancel_requested>>

\* stop_and_join_workers.
JoinWorker(w, lost) ==
    /\ stopping /\ worker[w] = "returned"
    /\ Finishes(w, lost)
    /\ event' = [event EXCEPT ![w] = IF w \in ext'.copy_work THEN @ ELSE Outcome(w)]
    /\ UNCHANGED <<handoff, exposed, phase, planner, copied, cancelled, cancel_requested, stopping>>

WorkersJoined == \A w \in Work : worker[w] \in {"none", "done"}

\* Work that was not finished keeps the authority dirty.
StopDirty ==
    /\ stopping /\ phase = "draining" /\ WorkersJoined /\ ext.copy_work # {}
    /\ ext' = [ext EXCEPT !.admission_poisoned = TRUE]
    /\ phase' = "stopped"
    /\ UNCHANGED <<handoff, exposed, alive, copy>>

StopClean(lost) ==
    /\ stopping /\ WorkersJoined /\ ext.copy_work = {}
    /\ Stop(lost)
    /\ UNCHANGED copy

\* The rest of the broker, until its handlers have joined.
Serve ==
    /\ ~stopping /\ Next /\ phase' # "stopped"
    /\ Fresh
    /\ UNCHANGED <<planner, worker, copied, cancelled, event, cancel_requested, stopping>>

ProbeIdentity == {id \in BackingIdentity : id.purpose = "ProbeOnly"}

CopyNext ==
    \/ Serve
    \/ \E lost \in Faults :
         \/ \E r \in CopyRequest, q \in Backing, w \in Work, id \in ProbeIdentity :
               BeginProbe(r, q, w, id, lost)
         \/ JoinProbe(lost) \/ CloseProbe(lost) \/ IssueReceipt(lost)
         \/ \E w \in Work :
               \/ SubmitCopy(w, lost) \/ CancelEvent(w, lost)
               \/ FinishCopy(w, lost) \/ JoinWorker(w, lost)
         \/ StopClean(lost)
    \/ Expire \/ SavePlan \/ EnterEvent \/ JoinHandlers \/ StopDirty
    \/ \E w \in Work : Execute(w) \/ TakeWorker(w)
    \/ stopping /\ \E p \in Proc : Exit(p) /\ UNCHANGED copy

\* Workers return: they copy a bounded number of bytes or meet the flag.  Handlers
\* and stop go on by themselves, with whatever outcome.
Progress(w) ==
    /\ worker[w] # "none"
    /\ \E s \in {"returned", "done"} \ {worker[w]} :
          /\ s = "done" => stopping \/ worker[w] = "joining" \/ planner.step = "join"
          /\ worker' = [worker EXCEPT ![w] = s]

Plans ==
    /\ planner.step # "idle"
    /\ planner.step = "join" => worker[planner.work] = "returned"
    /\ planner' \in {NoPlan} \cup
          CASE planner.step = "join" ->
                 [step : {"close"}, request : {planner.request}, probe : {planner.probe},
                  measured : BOOLEAN]
            [] planner.step = "close" -> [step : {"issue"}, request : {planner.request}]
            [] planner.step = "issue" -> [step : {"plan"}]
            [] OTHER -> {}

CopyFairness ==
    /\ \A w \in Work : WF_worker(Progress(w))
    /\ WF_planner(Plans)
    /\ WF_stopping(JoinHandlers)
    /\ WF_phase(stopping /\ WorkersJoined /\ phase = "draining" /\ phase' = "stopped")
    /\ \A x \in Backing \cup View : WF_handoff(Serves(x))

CopySpec == CopyInit /\ [][CopyNext]_copyvars /\ CopyFairness

-----------------------------------------------------------------------------
\* Every variable has its type.
CopyTypeOK ==
    /\ ext \in State
    /\ planner.step \in {"idle", "join", "close", "issue", "plan", "event"}
    /\ receipt \in CopyRequest \cup {None}
    /\ worker \in [Work -> {"none", "running", "returned", "joining", "done"}]
    /\ copied \subseteq Work /\ cancelled \subseteq Work /\ cancel_requested \subseteq Work
    /\ event \in [Work -> {"none", "running", "complete", "cancelled", "failed"}]
    /\ stopping \in BOOLEAN

Sides(w) == {ext.audit.works[w].source, ext.audit.works[w].target}
Target(w) == ext.audit.works[w].target

\* A worker holds descriptors of both sides: until its copy is finished, neither is
\* closed or given back to the quota, whatever owners revoke and whoever dies.
CopiesRetained ==
    \A w \in Work :
        worker[w] \in {"running", "returned", "joining"} =>
            /\ w \in ext.copy_work
            /\ Sides(w) \subseteq ext.charged \cap ext.file \cap Held(ext.audit)

\* Once a cancel is acknowledged the target never becomes readable data, even when
\* the worker had already returned with success.
CancelledNeverPublished ==
    \A w \in cancel_requested :
        ext.state[Target(w)] # "active" /\ event[w] # "complete"

\* An event that ended says what became of the target: complete means published,
\* with the journal agreeing, anything else means that it never will be.  An event
\* that runs has its work under way.
EventsTellTheTruth ==
    \A w \in Work :
        /\ event[w] = "complete" =>
              /\ w \notin ext.copy_work /\ ext.state[Target(w)] \in {"active", "retired"}
              /\ w \in ext.audit.works_completed
        /\ event[w] \in {"cancelled", "failed"} => ext.state[Target(w)] # "active"
        /\ event[w] = "running" => w \in ext.copy_work

=============================================================================
