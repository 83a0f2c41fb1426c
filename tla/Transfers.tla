----------------------------- MODULE Transfers -----------------------------
(***************************************************************************)
(* Asynchronous transfers between catalog objects (transfer_planner.rs,    *)
(* transfer_executor.rs and the worker queue of direct_transfer.rs) on top *)
(* of the object catalog.                                                  *)
(*                                                                         *)
(* SubmitTransfer copies the source and destination records, with their    *)
(* addresses, into a job and queues it after it has dropped the lock.  A   *)
(* worker executes the job without the lock and then finishes the event,   *)
(* which CancelEvent may have ended before.  Whoever ends an event records *)
(* its transfer.outcome after it has dropped the lock (tracing is on).     *)
(*                                                                         *)
(* PlanTransfer can be made whenever both objects are in the catalog, and  *)
(* SubmitTransfer looks them up again, so the plan a submission names      *)
(* constrains nothing and is made in the same step.  Everything else in a  *)
(* plan only chooses the copy engine.  What the copy does, its fallback    *)
(* from a direct path to the relay included, is its outcome here.  Workers *)
(* are threads that nobody joins; some may not have been spawned.          *)
(***************************************************************************)
EXTENDS ObjectCatalog, Sequences, Functions

CONSTANTS
    Worker,    \* transfer worker threads
    Event      \* transfer event ids

VARIABLES
    events,    \* st.transfer_events
    queue,     \* the executor's channel
    worker,    \* what each worker thread is doing; None if it was not spawned
    outcomes   \* the transfer.outcome instants recorded for each event

transferVars == <<events, queue, worker, outcomes>>
vars == <<catalogVars, transferVars>>

Terminal == {"complete", "failed", "cancelled"}
Idle == Step("idle", None)

\* A thread that has ended e: it holds a snapshot of the event as it left it.
Snapshot == [event : Event, status : Terminal]
Recording(e, status) == Step("recording", [event |-> e, status |-> status])

Job == [src : Object, dst : Object, status : Terminal \cup {"running"}, source_ready : BOOLEAN,
        memory : SUBSET (Block \cup Object)]

\* What a handler or a worker thread is doing.
HandlerStep == [at : {"ready", "exited", "freeing", "enqueueing", "recording", "waiting", "woken"},
                arg : Event \cup Snapshot \cup Block \cup Object \cup {None}]
WorkerStep == [at : {"idle", "copying", "refusing", "recording"}, arg : Event \cup Snapshot \cup {None}]

ASSUME TransferAssumption == None \notin Event \cup Job \cup HandlerStep \cup WorkerStep

Init ==
    /\ CatalogInit
    /\ events = [e \in Event |-> None]
    /\ queue = <<>>
    /\ worker \in [Worker -> {Idle, None}]
    /\ outcomes = [e \in Event |-> <<>>]

Spawned == {w \in Worker : worker[w] # None}

-----------------------------------------------------------------------------
\* The job holds what the objects are now.  A plan from an object to itself is
\* complete at once and needs no worker.
NewEvent(src, dst) ==
    [src |-> src, dst |-> dst, status |-> IF src = dst THEN "complete" ELSE "running",
     source_ready |-> objects[src].state \in {"Ready", "Modified"},
     memory |-> {MemoryOf(src), MemoryOf(dst)}]

submit_transfer(c, src, dst, e) ==
    /\ Serving(c) /\ {src, dst} \subseteq Live
    /\ events[e] = None
    /\ events' = [events EXCEPT ![e] = NewEvent(src, dst)]
    /\ handler' = NotifyAll([handler EXCEPT
                     ![c] = IF src = dst THEN Recording(e, "complete") ELSE Step("enqueueing", e)])
    /\ UNCHANGED <<objects, blocks, leases, memory, phase, queue, worker, outcomes>>

\* A mutant: a late worker overwrites the status of an event that has ended.
FinishAnyway(e, status) ==
    /\ events' = [events EXCEPT ![e].status = status]
    /\ objects' = objects

\* finish_transfer_event, under the lock: nothing happens to an event that has
\* already ended; a completed copy makes its destination Ready.
finish_transfer_event(e, status) ==
    IF events[e].status \in Terminal
    THEN UNCHANGED <<events, objects>>
    ELSE /\ events' = [events EXCEPT ![e].status = status]
         /\ objects' = IF status = "complete" /\ events[e].dst \in Live
                       THEN [objects EXCEPT ![events[e].dst].state = "Ready"] ELSE objects

\* Only the call that ended the event goes on to notify and to record.
Ends(e) == events[e].status \notin Terminal

\* A mutant: a handler that sees the shutdown drops the job it was to queue.
EnqueueUnlessStopping(c) ==
    /\ handler[c].at = "enqueueing" /\ Spawned # {}
    /\ queue' = IF phase = "running" THEN Append(queue, handler[c].arg) ELSE queue
    /\ handler' = Answered(handler, c)
    /\ UNCHANGED <<objects, blocks, leases, memory, phase, events, worker, outcomes>>

Enqueue(c) ==
    /\ handler[c].at = "enqueueing" /\ Spawned # {}
    /\ queue' = Append(queue, handler[c].arg)
    /\ handler' = Answered(handler, c)
    /\ UNCHANGED <<objects, blocks, leases, memory, phase, events, worker, outcomes>>

\* No worker holds the receiver: the submitter itself fails the event.
EnqueueFails(c) ==
    LET e == handler[c].arg
    IN /\ handler[c].at = "enqueueing" /\ Spawned = {}
       /\ finish_transfer_event(e, "failed")
       /\ handler' = IF Ends(e) THEN NotifyAll([handler EXCEPT ![c] = Recording(e, "failed")])
                     ELSE Answered(handler, c)
       /\ UNCHANGED <<blocks, leases, memory, phase, queue, worker, outcomes>>

\* ensure_transfer_bounds comes before the copy: a source that was not ready when
\* the job was made is refused, and no memory is touched.
Execution(e) == IF events[e].source_ready THEN "copying" ELSE "refusing"

Take(w) ==
    /\ phase # "gone" /\ worker[w] = Idle /\ queue # <<>>
    /\ worker' = [worker EXCEPT ![w] = Step(Execution(Head(queue)), Head(queue))]
    /\ queue' = Tail(queue)
    /\ UNCHANGED <<catalogVars, events, outcomes>>

\* What execute_transfer_work may return.
CopyOutcome(e) == IF events[e].source_ready THEN {"complete", "failed"} ELSE {"failed"}

FinishCopy(w) ==
    LET e == worker[w].arg
    IN /\ phase # "gone" /\ worker[w] # None /\ worker[w].at \in {"copying", "refusing"}
       /\ \E status \in CopyOutcome(e) :
             /\ finish_transfer_event(e, status)
             /\ worker' = [worker EXCEPT ![w] = IF Ends(e) THEN Recording(e, status) ELSE Idle]
       /\ handler' = IF Ends(e) THEN NotifyAll(handler) ELSE handler
       /\ UNCHANGED <<blocks, leases, memory, phase, queue, outcomes>>

\* record_terminal_trace
Recorded(snapshot) == [outcomes EXCEPT ![snapshot.event] = Append(@, snapshot.status)]

WorkerRecords(w) ==
    /\ phase # "gone" /\ worker[w] # None /\ worker[w].at = "recording"
    /\ outcomes' = Recorded(worker[w].arg)
    /\ worker' = [worker EXCEPT ![w] = Idle]
    /\ UNCHANGED <<catalogVars, events, queue>>

HandlerRecords(c) ==
    /\ handler[c].at = "recording"
    /\ outcomes' = Recorded(handler[c].arg)
    /\ handler' = Answered(handler, c)
    /\ UNCHANGED <<objects, blocks, leases, memory, phase, events, queue, worker>>

cancel_event(c, e) ==
    /\ Serving(c) /\ events[e] # None /\ Ends(e)
    /\ {events[e].src, events[e].dst} \subseteq Live
    /\ events' = [events EXCEPT ![e].status = "cancelled"]
    /\ handler' = NotifyAll([handler EXCEPT ![c] = Recording(e, "cancelled")])
    /\ UNCHANGED <<objects, blocks, leases, memory, phase, queue, worker, outcomes>>

-----------------------------------------------------------------------------
\* A mutant: a wait does not look at shutdown_requested.
WaitsThroughShutdown(e) == events[e].status \notin Terminal

\* What keeps WaitEvent blocked, tested whenever it has the lock.
MustWait(e) == events[e].status \notin Terminal /\ phase = "running"

wait_event(c, e) ==
    /\ Serving(c) /\ events[e] # None /\ MustWait(e)
    /\ handler' = [handler EXCEPT ![c] = Step("waiting", e)]
    /\ UNCHANGED <<objects, blocks, leases, memory, phase, transferVars>>

WaitResumes(c) ==
    /\ handler[c].at = "woken"
    /\ handler' = IF MustWait(handler[c].arg)
                  THEN [handler EXCEPT ![c] = Step("waiting", handler[c].arg)]
                  ELSE Answered(handler, c)
    /\ UNCHANGED <<objects, blocks, leases, memory, phase, transferVars>>

WaitTimesOut(c) ==
    /\ handler[c].at \in {"waiting", "woken"}
    /\ handler' = Answered(handler, c)
    /\ UNCHANGED <<objects, blocks, leases, memory, phase, transferVars>>

-----------------------------------------------------------------------------
CatalogStep == CatalogNext /\ UNCHANGED transferVars

\* The rest of a request, after the handler has let go of the lock.
Resumes(c) ==
    \/ Free(c) /\ UNCHANGED transferVars
    \/ Enqueue(c)
    \/ EnqueueFails(c)
    \/ HandlerRecords(c)
    \/ WaitResumes(c)

Works(w) ==
    \/ Take(w)
    \/ FinishCopy(w)
    \/ WorkerRecords(w)

Next ==
    \/ CatalogStep
    \/ \E c \in Client :
          \/ \E src, dst \in Object, e \in Event : submit_transfer(c, src, dst, e)
          \/ \E e \in Event : cancel_event(c, e) \/ wait_event(c, e)
          \/ Enqueue(c)
          \/ EnqueueFails(c)
          \/ HandlerRecords(c)
          \/ WaitResumes(c)
          \/ WaitTimesOut(c)
    \/ \E w \in Worker : Works(w)

\* Handler threads that can run do run, and main joins them once shutdown is
\* requested.  Nobody has to send a request, a wait has no deadline it can rely
\* on, and the shutdown itself may never come.
HandlersRun ==
    /\ \A c \in Client : WF_vars(Resumes(c))
    /\ \A c \in Client : WF_vars(phase # "running" /\ HandlerExits(c) /\ UNCHANGED transferVars)
    /\ WF_vars(cleanup_blocks /\ UNCHANGED transferVars)

\* Workers run too, and every copy returns.
WorkersRun == \A w \in Worker : WF_vars(Works(w))

\* A copy may hang in the device forever: the specification does not assume that
\* workers get on.
Spec == Init /\ [][Next]_vars /\ HandlersRun

-----------------------------------------------------------------------------
TypeOK ==
    /\ CatalogTypeOK
    /\ events \in [Event -> Job \cup {None}]
    /\ queue \in Seq(Event)
    /\ worker \in [Worker -> WorkerStep \cup {None}]
    /\ outcomes \in [Event -> Seq(Terminal)]
    /\ handler \in [Client -> HandlerStep]

Running(e) == events[e] # None /\ events[e].status = "running"
Ended(e) == events[e] # None /\ events[e].status \in Terminal

\* The threads that have ended e and are about to record it.
Unrecorded(e, step) ==
    {x \in DOMAIN step : step[x] # None /\ step[x].at = "recording" /\ step[x].arg.event = e}

\* An event that has ended keeps its status and has exactly one outcome, recorded
\* or about to be, which tells that status; a running one has none.  So it is
\* however a worker, a cancel and a failing submit race for its end.
OneOutcome ==
    \A e \in Event :
        LET handlers == Unrecorded(e, handler)
            workers == Unrecorded(e, worker)
            told == Range(outcomes[e]) \cup {handler[c].arg.status : c \in handlers}
                    \cup {worker[w].arg.status : w \in workers}
        IN /\ Len(outcomes[e]) + Cardinality(handlers) + Cardinality(workers) =
                 IF Ended(e) THEN 1 ELSE 0
           /\ Ended(e) => told = {events[e].status}

\* If copies return, every transfer ends, unless the process is gone before.
EventsEnd ==
    WorkersRun => \A e \in Event : Running(e) ~> Ended(e) \/ phase = "gone"

\* If copies return, a client blocked in WaitEvent is released by the end of its
\* event, or by shutdown, without the help of its timeout.
WaitsEnd ==
    WorkersRun => \A c \in Client :
        handler[c].at \in {"waiting", "woken"} ~> handler[c].at \notin {"waiting", "woken"}

\* Once shutdown is requested every handler is joined and the blocks are freed,
\* even if a client waits for a copy that never returns.
ShutdownCompletes == phase = "draining" ~> phase \in {"cleaned", "gone"}

\* While a worker copies, which it does only from a source that was ready when the
\* transfer was submitted, the memory of both objects is there: a release and the
\* cleanup at shutdown leave the buffers of a copy alone (release_data_object,
\* execute_transfer_work).
CopiesLiveMemory ==
    \A w \in Spawned : worker[w].at = "copying" =>
        \A m \in events[worker[w].arg].memory : memory[m] = "live"
=============================================================================
