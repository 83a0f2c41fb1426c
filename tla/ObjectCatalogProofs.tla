------------------------ MODULE ObjectCatalogProofs ------------------------
(***************************************************************************)
(* Proofs about ObjectCatalog and Transfers for every number of clients,   *)
(* objects, blocks, leases, events and workers.  First what each step does *)
(* to the handlers and the workers, and that types and names stay right;   *)
(* then the catalog: it is consistent, and what the daemon allocates it    *)
(* frees once.  TransfersProofs joins those steps and goes on with the     *)
(* events and their outcomes.                                              *)
(***************************************************************************)
EXTENDS Transfers, TLAPS

Freeing == {c \in Client : handler[c].at = "freeing"}

\* What a handler, a worker or the queue names is there: an event that was made,
\* or the snapshot of one that has ended.
NamesFit ==
    /\ \A c \in Client :
          /\ handler[c].at \in {"enqueueing", "waiting", "woken"} =>
                handler[c].arg \in Event /\ events[handler[c].arg] # None
          /\ handler[c].at = "recording" => handler[c].arg \in Snapshot
    /\ \A w \in Worker : worker[w] # None =>
          /\ worker[w].at \in {"copying", "refusing"} => worker[w].arg \in Event /\ events[worker[w].arg] # None
          /\ worker[w].at = "recording" => worker[w].arg \in Snapshot
    /\ \A i \in DOMAIN queue : events[queue[i]] # None

\* Who owns memory.  A handler that is about to free memory is the only one to
\* name it, and nothing in the catalog does; until the cleanup an allocation that
\* is there has a block in the catalog or such a handler; the cleanup leaves none.
MemoryOwned ==
    /\ \A o \in Live : objects[o].request.medium # "hbm" => objects[o].block = None
    /\ \A c \in Freeing :
          LET m == handler[c].arg
          IN /\ memory[m] = "live"
             /\ m \in Block => blocks[m] = Released
             /\ m \in Object => objects[m] = Released
    /\ \A c, d \in Freeing : c # d => handler[c].arg # handler[d].arg
    /\ phase \in {"running", "draining"} =>
          \A b \in Block : memory[b] = "live" =>
             b \in CatalogBlocks \/ \E c \in Freeing : handler[c].arg = b
    /\ phase \in {"cleaned", "gone"} => \A c \in Client : handler[c] = Exited

\* OneOutcome without its count: the one thread that still has to record the end
\* of an event is named.
OutcomeNamed ==
    \A e \in Event :
       LET handlers == Unrecorded(e, handler)
           workers == Unrecorded(e, worker)
       IN \/ ~Ended(e) /\ outcomes[e] = <<>> /\ handlers = {} /\ workers = {}
          \/ /\ Ended(e)
             /\ \/ outcomes[e] = <<events[e].status>> /\ handlers = {} /\ workers = {}
                \/ /\ outcomes[e] = <<>> /\ workers = {}
                   /\ \E c \in Client : handlers = {c} /\ handler[c].arg.status = events[e].status
                \/ /\ outcomes[e] = <<>> /\ handlers = {}
                   /\ \E w \in Worker : workers = {w} /\ worker[w].arg.status = events[e].status

\* The inductive invariant.
IInv == TypeOK /\ NamesFit /\ CatalogConsistent /\ MemoryOwned /\ FreedOnce /\ OutcomeNamed
-----------------------------------------------------------------------------
\* The values that stand for nothing are no records and no ids.
LEMMA NoneDistinct ==
  /\ None \notin Block /\ None \notin Object /\ None \notin Event
  /\ None \notin ObjectRecord /\ None \notin BlockRecord /\ None \notin LeaseRecord
  /\ None \notin Job /\ None \notin HandlerStep /\ None \notin WorkerStep
  /\ Released \notin ObjectRecord /\ Released \notin BlockRecord /\ Released # None
  /\ Request \subseteq Creation /\ Block \cap Object = {}
  BY CatalogAssumption, TransferAssumption, Zenon

\* A handler other than c stays where it is, unless it waits and is woken.
Others(c) ==
    \A d \in Client \ {c} :
       \/ handler'[d] = handler[d]
       \/ handler[d].at = "waiting" /\ handler'[d] = Step("woken", handler[d].arg)

\* Handler c goes on to s.
Moved(c, s) == handler' \in [Client -> HandlerStep] /\ handler'[c] = s /\ Others(c)

\* No handler does anything but wake up.
Quiet ==
    /\ handler' \in [Client -> HandlerStep]
    /\ \A d \in Client :
          \/ handler'[d] = handler[d]
          \/ handler[d].at = "waiting" /\ handler'[d] = Step("woken", handler[d].arg)

\* cv.notify_all moves nobody but those who wait.
LEMMA NotifyWakes ==
  ASSUME NEW h \in [Client -> HandlerStep]
  PROVE  /\ NotifyAll(h) \in [Client -> HandlerStep]
         /\ \A d \in Client :
               \/ NotifyAll(h)[d] = h[d]
               \/ h[d].at = "waiting" /\ NotifyAll(h)[d] = Step("woken", h[d].arg)
         /\ \A d \in Client : h[d].at # "waiting" => NotifyAll(h)[d] = h[d]
  <1>1. \A d \in Client : h[d].at = "waiting" => Step("woken", h[d].arg) \in HandlerStep
    BY Zenon DEF HandlerStep, Step
  <1>2. NotifyAll(h) \in [Client -> HandlerStep]
    BY <1>1, Zenon DEF NotifyAll
  <1>3. \A d \in Client : NotifyAll(h)[d] = IF h[d].at = "waiting" THEN Step("woken", h[d].arg) ELSE h[d]
    BY Zenon DEF NotifyAll
  <1>. QED
    BY <1>2, <1>3, Zenon

\* A step of handler c, with or without a notification.
LEMMA Moves ==
  ASSUME handler \in [Client -> HandlerStep], NEW c \in Client, NEW s \in HandlerStep
  PROVE  /\ handler' = [handler EXCEPT ![c] = s] => Moved(c, s)
         /\ s.at # "waiting" /\ handler' = NotifyAll([handler EXCEPT ![c] = s]) => Moved(c, s)
  <1>. DEFINE h == [handler EXCEPT ![c] = s]
  <1>1. /\ h \in [Client -> HandlerStep] /\ h[c] = s
        /\ \A d \in Client \ {c} : h[d] = handler[d]
    OBVIOUS
  <1>. HIDE DEF h
  <1>2. ASSUME handler' = h PROVE Moved(c, s)
    BY <1>1, <1>2, Zenon DEF Moved, Others
  <1>3. ASSUME s.at # "waiting", handler' = NotifyAll(h) PROVE Moved(c, s)
    <2>1. /\ handler' \in [Client -> HandlerStep]
          /\ \A d \in Client :
                \/ handler'[d] = h[d]
                \/ h[d].at = "waiting" /\ handler'[d] = Step("woken", h[d].arg)
          /\ \A d \in Client : h[d].at # "waiting" => handler'[d] = h[d]
      BY <1>1, <1>3, NotifyWakes, Zenon
    <2>2. handler'[c] = s
      BY <1>1, <1>3, <2>1, Zenon
    <2>. QED
      BY <1>1, <2>1, <2>2, Zenon DEF Moved, Others
  <1>. QED
    BY <1>2, <1>3, Zenon DEF h

\* The steps of a handler thread are steps.
LEMMA StepTypes ==
  /\ Ready \in HandlerStep /\ Exited \in HandlerStep /\ Ready.at = "ready" /\ Exited.at = "exited"
  /\ \A m \in Block \cup Object : Step("freeing", m) \in HandlerStep
  /\ \A e \in Event, at \in {"enqueueing", "waiting", "woken"} : Step(at, e) \in HandlerStep
  /\ \A e \in Event, st \in Terminal : /\ Recording(e, st) \in HandlerStep /\ Recording(e, st) \in WorkerStep
                                       /\ Recording(e, st).at = "recording"
                                       /\ Recording(e, st).arg \in Snapshot
                                       /\ Recording(e, st).arg.event = e
                                       /\ Recording(e, st).arg.status = st
  /\ \A at, x : Step(at, x).at = at /\ Step(at, x).arg = x
  /\ Idle \in WorkerStep /\ Idle.at = "idle"
  /\ \A e \in Event, at \in {"copying", "refusing"} : Step(at, e) \in WorkerStep
  BY Zenon DEF Ready, Exited, Step, Recording, HandlerStep, WorkerStep, Snapshot, Idle

\* Their fields.
LEMMA StepAt ==
  /\ Ready.at = "ready" /\ Exited.at = "exited"
  /\ \A at, x : Step(at, x).at = at /\ Step(at, x).arg = x
  BY Zenon DEF Ready, Exited, Step

\* A handler that has answered is ready for the next request, or leaves.
LEMMA AnsweredMoves ==
  ASSUME handler \in [Client -> HandlerStep], NEW c \in Client
  PROVE  /\ handler' = Answered(handler, c) => \E s \in {Ready, Exited} : Moved(c, s)
         /\ handler' = NotifyAll(Answered(handler, c)) => \E s \in {Ready, Exited} : Moved(c, s)
  <1>1. PICK s \in {Ready, Exited} : Answered(handler, c) = [handler EXCEPT ![c] = s]
    BY Zenon DEF Answered
  <1>2. s \in HandlerStep /\ s.at # "waiting"
    BY StepTypes, Zenon
  <1>. QED
    BY <1>1, <1>2, Moves, Zenon

\* What is live is a record of the catalog.
LEMMA LiveIs ==
  ASSUME TypeOK
  PROVE  /\ \A o \in Object : o \in Live <=> objects[o] \in ObjectRecord
         /\ \A b \in Block : b \in CatalogBlocks <=> blocks[b] \in BlockRecord
         /\ Live \subseteq Object /\ CatalogBlocks \subseteq Block
  BY NoneDistinct, Zenon DEF TypeOK, CatalogTypeOK, Live, CatalogBlocks

-----------------------------------------------------------------------------
\* Types.  A new lease, and what becomes of the leases of a released object.
LEMMA LeaseTypes ==
  ASSUME TypeOK, NEW o \in Object
  PROVE  /\ \A c \in Client : MakeLease(c, o) => leases' \in [Lease -> LeaseRecord \cup {None}]
         /\ LeasesStaled(o) \in [Lease -> LeaseRecord \cup {None}]
         /\ \A l \in Lease : leases[l] # None =>
               [leases EXCEPT ![l].state = "Closed"] \in [Lease -> LeaseRecord \cup {None}]
  <1>1. leases \in [Lease -> LeaseRecord \cup {None}]
    BY Zenon DEF TypeOK, CatalogTypeOK
  <1>2. ASSUME NEW c \in Client, MakeLease(c, o) PROVE leases' \in [Lease -> LeaseRecord \cup {None}]
    <2>1. [object |-> o, client |-> c, state |-> "Active"] \in LeaseRecord
      BY Zenon DEF LeaseRecord
    <2>. QED
      BY <1>1, <1>2, <2>1, Zenon DEF MakeLease
  <1>3. LeasesStaled(o) \in [Lease -> LeaseRecord \cup {None}]
    BY <1>1, Zenon DEF LeasesStaled, LeaseRecord
  <1>4. ASSUME NEW l \in Lease, leases[l] # None
        PROVE  [leases EXCEPT ![l].state = "Closed"] \in [Lease -> LeaseRecord \cup {None}]
    BY <1>1, <1>4, Zenon DEF LeaseRecord
  <1>. QED
    BY <1>2, <1>3, <1>4, Zenon

\* The memory of an object in the catalog is a block or the object itself.
LEMMA MemoryOfType ==
  ASSUME TypeOK, CatalogConsistent, NEW o \in Live
  PROVE  MemoryOf(o) \in Block \cup Object
  BY LiveIs, Zenon DEF MemoryOf, CatalogConsistent

\* The state of an object in the catalog is all that Mark and a finished copy change.
LEMMA StateSet ==
  ASSUME TypeOK, NEW o \in Live, NEW st \in {"Ready", "Modified"}
  PROVE  /\ [objects EXCEPT ![o].state = st] \in [Object -> ObjectRecord \cup {None, Released}]
         /\ [objects EXCEPT ![o].state = st][o] \in ObjectRecord
         /\ [objects EXCEPT ![o].state = st][o].request = objects[o].request
         /\ [objects EXCEPT ![o].state = st][o].block = objects[o].block
         /\ \A p \in Object \ {o} : [objects EXCEPT ![o].state = st][p] = objects[p]
  <1>1. objects \in [Object -> ObjectRecord \cup {None, Released}] /\ objects[o] \in ObjectRecord /\ o \in Object
    BY LiveIs, Zenon DEF TypeOK, CatalogTypeOK
  <1>2. [objects[o] EXCEPT !.state = st] \in ObjectRecord
    BY <1>1, Zenon DEF ObjectRecord
  <1>. QED
    BY <1>1, <1>2, Zenon DEF ObjectRecord

-----------------------------------------------------------------------------
\* Handler c is done with its request.
Answers(c) == \E s \in {Ready, Exited} : Moved(c, s)

\* Where the requests of the catalog leave their handler.
LEMMA CatalogMoves ==
  ASSUME TypeOK, CatalogConsistent, NEW c \in Client
  PROVE  /\ \A r \in Request : Reuse(c, r) => handler[c].at = "ready" /\ Answers(c)
         /\ \A r \in Request : CreateDdrOrSsd(c, r) => handler[c].at = "ready" /\ Answers(c)
         /\ \A r \in Request : CreateHbm(c, r) => handler[c].at = "ready" /\ Answers(c)
         /\ \A r \in Request : CreateHbmExportFails(c, r) => handler[c].at = "ready" /\ Answers(c)
         /\ \A o \in Object : open_data_object(c, o) => handler[c].at = "ready" /\ Answers(c)
         /\ \A o \in Object, st \in {"Ready", "Modified"} : Mark(c, o, st) => handler[c].at = "ready" /\ Answers(c)
         /\ \A l \in Lease : close_lease(c, l) => handler[c].at = "ready" /\ Answers(c)
         /\ \A o \in Object : release_data_object(c, o) =>
               handler[c].at = "ready" /\ Moved(c, Step("freeing", MemoryOf(o)))
         /\ Free(c) => handler[c].at = "freeing" /\ Answers(c)
         /\ shutdown_daemon(c) => handler[c].at = "ready" /\ Moved(c, Exited)
         /\ HandlerExits(c) => handler[c].at = "ready" /\ Moved(c, Exited)
  <1>. handler \in [Client -> HandlerStep]
    BY Zenon DEF TypeOK
  <1>1. \A r \in Request : Reuse(c, r) => handler[c].at = "ready" /\ Answers(c)
    BY AnsweredMoves, Zenon DEF Reuse, Serving, Answers
  <1>2. \A r \in Request : CreateDdrOrSsd(c, r) => handler[c].at = "ready" /\ Answers(c)
    BY AnsweredMoves, Zenon DEF CreateDdrOrSsd, Serving, Answers
  <1>3. \A r \in Request : CreateHbm(c, r) => handler[c].at = "ready" /\ Answers(c)
    BY AnsweredMoves, Zenon DEF CreateHbm, Serving, Answers
  <1>4. \A r \in Request : CreateHbmExportFails(c, r) => handler[c].at = "ready" /\ Answers(c)
    BY AnsweredMoves, Zenon DEF CreateHbmExportFails, Serving, Answers
  <1>5. \A o \in Object : open_data_object(c, o) => handler[c].at = "ready" /\ Answers(c)
    BY AnsweredMoves, Zenon DEF open_data_object, Serving, Answers
  <1>6. \A o \in Object, st \in {"Ready", "Modified"} : Mark(c, o, st) => handler[c].at = "ready" /\ Answers(c)
    BY AnsweredMoves, Zenon DEF Mark, Serving, Answers
  <1>7. \A l \in Lease : close_lease(c, l) => handler[c].at = "ready" /\ Answers(c)
    BY AnsweredMoves, Zenon DEF close_lease, Serving, Answers
  <1>8. ASSUME NEW o \in Object, release_data_object(c, o)
        PROVE  handler[c].at = "ready" /\ Moved(c, Step("freeing", MemoryOf(o)))
    <2>1. o \in Live /\ handler[c].at = "ready"
          /\ handler' = NotifyAll([handler EXCEPT ![c] = Step("freeing", MemoryOf(o))])
      BY <1>8, Zenon DEF release_data_object, Serving, ToFree
    <2>2. Step("freeing", MemoryOf(o)) \in HandlerStep /\ Step("freeing", MemoryOf(o)).at # "waiting"
      BY <2>1, MemoryOfType, StepTypes
    <2>. QED
      BY <2>1, <2>2, Moves, Zenon
  <1>9. Free(c) => handler[c].at = "freeing" /\ Answers(c)
    BY AnsweredMoves, Zenon DEF Free, Answers
  <1>10. Exited \in HandlerStep /\ Exited.at # "waiting"
    BY StepTypes, Zenon
  <1>11. shutdown_daemon(c) => handler[c].at = "ready" /\ Moved(c, Exited)
    BY <1>10, Moves, Zenon DEF shutdown_daemon, ShutdownNotified, Serving
  <1>12. HandlerExits(c) => handler[c].at = "ready" /\ Moved(c, Exited)
    BY <1>10, Moves, Zenon DEF HandlerExits, Serving
  <1>. QED
    BY <1>1, <1>2, <1>3, <1>4, <1>5, <1>6, <1>7, <1>8, <1>9, <1>11, <1>12, Zenon

\* Where the requests about transfers leave their handler.
LEMMA TransferMoves ==
  ASSUME TypeOK, NamesFit, NEW c \in Client
  PROVE  /\ \A src, dst \in Object, e \in Event : submit_transfer(c, src, dst, e) =>
               /\ handler[c].at = "ready"
               /\ src = dst => Moved(c, Recording(e, "complete"))
               /\ src # dst => Moved(c, Step("enqueueing", e))
         /\ \A e \in Event : cancel_event(c, e) =>
               handler[c].at = "ready" /\ Moved(c, Recording(e, "cancelled"))
         /\ \A e \in Event : wait_event(c, e) => handler[c].at = "ready" /\ Moved(c, Step("waiting", e))
         /\ Enqueue(c) => handler[c].at = "enqueueing" /\ Answers(c)
         /\ EnqueueFails(c) =>
               /\ handler[c].at = "enqueueing"
               /\ Ends(handler[c].arg) => Moved(c, Recording(handler[c].arg, "failed"))
               /\ ~Ends(handler[c].arg) => Answers(c)
         /\ HandlerRecords(c) => handler[c].at = "recording" /\ Answers(c)
         /\ WaitResumes(c) =>
               handler[c].at = "woken" /\ (Moved(c, Step("waiting", handler[c].arg)) \/ Answers(c))
         /\ WaitTimesOut(c) => handler[c].at \in {"waiting", "woken"} /\ Answers(c)
  <1>. handler \in [Client -> HandlerStep]
    BY Zenon DEF TypeOK
  <1>0. \A e \in Event, st \in Terminal :
          Recording(e, st) \in HandlerStep /\ Recording(e, st).at # "waiting"
    BY StepTypes, Zenon
  <1>. DEFINE arg == handler[c].arg
  <1>1. ASSUME NEW src \in Object, NEW dst \in Object, NEW e \in Event, submit_transfer(c, src, dst, e)
        PROVE  /\ handler[c].at = "ready"
               /\ src = dst => Moved(c, Recording(e, "complete"))
               /\ src # dst => Moved(c, Step("enqueueing", e))
    <2>1. /\ handler[c].at = "ready"
          /\ handler' = NotifyAll([handler EXCEPT
                   ![c] = IF src = dst THEN Recording(e, "complete") ELSE Step("enqueueing", e)])
      BY <1>1, Zenon DEF submit_transfer, Serving
    <2>2. Step("enqueueing", e) \in HandlerStep /\ Step("enqueueing", e).at # "waiting"
      BY StepTypes
    <2>3. Recording(e, "complete") \in HandlerStep /\ Recording(e, "complete").at # "waiting"
      BY <1>0, Zenon DEF Terminal
    <2>4. ASSUME src = dst PROVE Moved(c, Recording(e, "complete"))
      BY <2>1, <2>3, <2>4, Moves, Zenon
    <2>5. ASSUME src # dst PROVE Moved(c, Step("enqueueing", e))
      BY <2>1, <2>2, <2>5, Moves, Zenon
    <2>. QED
      BY <2>1, <2>4, <2>5, Zenon
  <1>2. ASSUME NEW e \in Event, cancel_event(c, e)
        PROVE  handler[c].at = "ready" /\ Moved(c, Recording(e, "cancelled"))
    <2>1. Recording(e, "cancelled") \in HandlerStep /\ Recording(e, "cancelled").at # "waiting"
      BY <1>0, Zenon DEF Terminal
    <2>. QED
      BY <1>2, <2>1, Moves, Zenon DEF cancel_event, Serving
  <1>3. ASSUME NEW e \in Event, wait_event(c, e)
        PROVE  handler[c].at = "ready" /\ Moved(c, Step("waiting", e))
    <2>1. Step("waiting", e) \in HandlerStep
      BY StepTypes, Zenon
    <2>. QED
      BY <1>3, <2>1, Moves, Zenon DEF wait_event, Serving
  <1>4. Enqueue(c) => handler[c].at = "enqueueing" /\ Answers(c)
    BY AnsweredMoves, Zenon DEF Enqueue, Answers
  <1>5. ASSUME EnqueueFails(c)
        PROVE  /\ handler[c].at = "enqueueing"
               /\ Ends(arg) => Moved(c, Recording(arg, "failed"))
               /\ ~Ends(arg) => Answers(c)
    <2>1. /\ handler[c].at = "enqueueing"
          /\ handler' = IF Ends(arg) THEN NotifyAll([handler EXCEPT ![c] = Recording(arg, "failed")])
                        ELSE Answered(handler, c)
      BY <1>5, Zenon DEF EnqueueFails
    <2>2. arg \in Event
      BY <2>1, Zenon DEF NamesFit
    <2>3. Recording(arg, "failed") \in HandlerStep /\ Recording(arg, "failed").at # "waiting"
      BY <1>0, <2>2, Zenon DEF Terminal
    <2>4. ASSUME Ends(arg) PROVE Moved(c, Recording(arg, "failed"))
      BY <2>1, <2>3, <2>4, Moves, Zenon
    <2>5. ASSUME ~Ends(arg) PROVE Answers(c)
      BY <2>1, <2>5, AnsweredMoves, Zenon DEF Answers
    <2>. QED
      BY <2>1, <2>4, <2>5, Zenon
  <1>6. HandlerRecords(c) => handler[c].at = "recording" /\ Answers(c)
    BY AnsweredMoves, Zenon DEF HandlerRecords, Answers
  <1>7. ASSUME WaitResumes(c)
        PROVE  handler[c].at = "woken" /\ (Moved(c, Step("waiting", arg)) \/ Answers(c))
    <2>1. /\ handler[c].at = "woken"
          /\ \/ handler' = [handler EXCEPT ![c] = Step("waiting", arg)]
             \/ handler' = Answered(handler, c)
      BY <1>7, Zenon DEF WaitResumes
    <2>2. arg \in Event
      BY <2>1, Zenon DEF NamesFit
    <2>3. Step("waiting", arg) \in HandlerStep
      BY <2>2, StepTypes, Zenon
    <2>. QED
      BY <2>1, <2>3, Moves, AnsweredMoves, Zenon DEF Answers
  <1>8. WaitTimesOut(c) => handler[c].at \in {"waiting", "woken"} /\ Answers(c)
    BY AnsweredMoves, Zenon DEF WaitTimesOut, Answers
  <1>. QED
    BY <1>1, <1>2, <1>3, <1>4, <1>5, <1>6, <1>7, <1>8, Zenon

\* Nobody else moves a handler, but to wake it.
LEMMA QuietMoves ==
  ASSUME TypeOK
  PROVE  /\ AcceptError => Quiet
         /\ handler' = handler => Quiet
         /\ \A w \in Worker : Works(w) => Quiet
  <1>. handler \in [Client -> HandlerStep]
    BY Zenon DEF TypeOK
  <1>1. handler' = NotifyAll(handler) => Quiet
    BY NotifyWakes, Zenon DEF Quiet
  <1>2. handler' = handler => Quiet
    BY Zenon DEF Quiet
  <1>3. AcceptError => Quiet
    BY <1>1, Zenon DEF AcceptError, ShutdownNotified
  <1>4. ASSUME NEW w \in Worker, Works(w) PROVE Quiet
    BY <1>1, <1>2, <1>4, Zenon DEF Works, Take, FinishCopy, WorkerRecords, catalogVars
  <1>. QED
    BY <1>2, <1>3, <1>4, Zenon

-----------------------------------------------------------------------------
\* The part of TypeOK about handlers.
HandlersTyped ==
    /\ handler \in [Client -> HandlerStep] /\ DOMAIN handler = Client
    /\ \A c \in Client : handler[c].at = "freeing" => handler[c].arg \in Block \cup Object

\* The part about the other tables of the catalog.
TablesTyped ==
    /\ objects \in [Object -> ObjectRecord \cup {None, Released}]
    /\ blocks \in [Block -> BlockRecord \cup {None, Released}]
    /\ leases \in [Lease -> LeaseRecord \cup {None}]
    /\ memory \in [Block \cup Object -> {"none", "live", "freed", "leaked", "freed twice"}]
    /\ phase \in {"running", "draining", "cleaned", "gone"}

\* The steps above keep the handlers typed.
LEMMA MovesTyped ==
  ASSUME TypeOK
  PROVE  /\ Quiet => HandlersTyped'
         /\ \A c \in Client : Answers(c) => HandlersTyped'
         /\ \A c \in Client : \A s : Moved(c, s) /\ (s.at = "freeing" => s.arg \in Block \cup Object)
               => HandlersTyped'
  <1>1. HandlersTyped
    BY Zenon DEF TypeOK, CatalogTypeOK, HandlersTyped
  <1>2. \A x : Step("woken", x).at # "freeing"
    BY StepTypes
  <1>3. Quiet => HandlersTyped'
    BY <1>1, <1>2, Zenon DEF Quiet, HandlersTyped
  <1>4. ASSUME NEW c \in Client, NEW s, Moved(c, s), s.at = "freeing" => s.arg \in Block \cup Object
        PROVE  HandlersTyped'
    BY <1>1, <1>2, <1>4, Zenon DEF Moved, Others, HandlersTyped
  <1>5. ASSUME NEW c \in Client, Answers(c) PROVE HandlersTyped'
    <2>1. PICK s \in {Ready, Exited} : Moved(c, s)
      BY <1>5, Zenon DEF Answers
    <2>2. s.at # "freeing"
      BY StepTypes, Zenon
    <2>. QED
      BY <1>4, <2>1, <2>2, Zenon
  <1>. QED
    BY <1>3, <1>4, <1>5, Zenon

\* The tables of the catalog keep their types through its own steps.
LEMMA CatalogNextType == TypeOK /\ CatalogConsistent /\ CatalogNext => CatalogTypeOK' /\ HandlersTyped'
  <1>. SUFFICES ASSUME TypeOK, CatalogConsistent, CatalogNext PROVE CatalogTypeOK' /\ HandlersTyped'
    OBVIOUS
  <1>. USE DEF TablesTyped
  <1>. SUFFICES TablesTyped' /\ HandlersTyped'
    BY Zenon DEF CatalogTypeOK, HandlersTyped
  <1>1. TablesTyped
    BY Zenon DEF TypeOK, CatalogTypeOK
  <1>2. \A o \in Object : /\ LeasesStaled(o) \in [Lease -> LeaseRecord \cup {None}]
                          /\ \A c \in Client : MakeLease(c, o) => leases' \in [Lease -> LeaseRecord \cup {None}]
    BY LeaseTypes, Zenon
  <1>3. ASSUME NEW c \in Client, ClientStep(c) PROVE TablesTyped' /\ HandlersTyped'
    <2>1. ASSUME NEW r \in Request, Reuse(c, r) PROVE TablesTyped' /\ HandlersTyped'
      <3>1. HandlersTyped'
        BY <2>1, CatalogMoves, MovesTyped, Zenon
      <3>2. leases' \in [Lease -> LeaseRecord \cup {None}]
        BY <1>2, <2>1, Zenon DEF Reuse, find_reusable_object, Live
      <3>. QED
        BY <1>1, <2>1, <3>1, <3>2, Zenon DEF Reuse
    <2>2. ASSUME NEW r \in Request, CreateDdrOrSsd(c, r) PROVE TablesTyped' /\ HandlersTyped'
      <3>1. HandlersTyped'
        BY <2>2, CatalogMoves, MovesTyped, Zenon
      <3>2. PICK o \in Object : NewObject(c, r, None, o) /\ memory' = [memory EXCEPT ![o] = "live"]
        BY <2>2, Zenon DEF CreateDdrOrSsd
      <3>3. [request |-> r, state |-> "Created", block |-> None] \in ObjectRecord
        BY NoneDistinct, Zenon DEF ObjectRecord
      <3>4. objects' \in [Object -> ObjectRecord \cup {None, Released}]
        BY <1>1, <3>2, <3>3, Zenon DEF NewObject
      <3>5. leases' \in [Lease -> LeaseRecord \cup {None}]
        BY <1>2, <3>2, Zenon DEF NewObject
      <3>6. memory' \in [Block \cup Object -> {"none", "live", "freed", "leaked", "freed twice"}]
        BY <1>1, <3>2, Zenon
      <3>. QED
        BY <1>1, <2>2, <3>1, <3>4, <3>5, <3>6, Zenon DEF CreateDdrOrSsd
    <2>3. ASSUME NEW r \in Request, NEW b \in Block, ChosenBlock(b, r),
                 NEW x \in Object \cup {None}
          PROVE  /\ [blocks EXCEPT ![b] = [size |-> BlockSize(b, r), object |-> x]]
                       \in [Block -> BlockRecord \cup {None, Released}]
                 /\ [memory EXCEPT ![b] = "live"]
                       \in [Block \cup Object -> {"none", "live", "freed", "leaked", "freed twice"}]
      <3>1. BlockSize(b, r) \in Nat
        BY <2>3, LiveIs, NoneDistinct, Zenon DEF BlockSize, ChosenBlock, can_hold, BlockRecord, Creation
      <3>2. [size |-> BlockSize(b, r), object |-> x] \in BlockRecord
        BY <3>1, Zenon DEF BlockRecord
      <3>. QED
        BY <1>1, <3>2, Zenon
    <2>4. ASSUME NEW r \in Request, CreateHbm(c, r) PROVE TablesTyped' /\ HandlersTyped'
      <3>1. HandlersTyped'
        BY <2>4, CatalogMoves, MovesTyped, Zenon
      <3>2. PICK b \in Block, o \in Object :
               /\ ChosenBlock(b, r) /\ NewObject(c, r, b, o)
               /\ blocks' = [blocks EXCEPT ![b] = [size |-> BlockSize(b, r), object |-> o]]
               /\ memory' = [memory EXCEPT ![b] = "live"]
        BY <2>4, Zenon DEF CreateHbm
      <3>3. [request |-> r, state |-> "Created", block |-> b] \in ObjectRecord
        BY NoneDistinct, Zenon DEF ObjectRecord
      <3>4. objects' \in [Object -> ObjectRecord \cup {None, Released}]
        BY <1>1, <3>2, <3>3, Zenon DEF NewObject
      <3>5. leases' \in [Lease -> LeaseRecord \cup {None}]
        BY <1>2, <3>2, Zenon DEF NewObject
      <3>6. phase' = phase
        BY <2>4, Zenon DEF CreateHbm
      <3>. QED
        BY <1>1, <2>3, <3>1, <3>2, <3>4, <3>5, <3>6, Zenon
    <2>5. ASSUME NEW r \in Request, CreateHbmExportFails(c, r) PROVE TablesTyped' /\ HandlersTyped'
      <3>1. HandlersTyped'
        BY <2>5, CatalogMoves, MovesTyped, Zenon
      <3>2. PICK b \in Block :
               /\ ChosenBlock(b, r)
               /\ blocks' = [blocks EXCEPT ![b] = [size |-> BlockSize(b, r), object |-> None]]
               /\ memory' = [memory EXCEPT ![b] = "live"]
        BY <2>5, Zenon DEF CreateHbmExportFails
      <3>3. UNCHANGED <<objects, leases, phase>>
        BY <2>5, Zenon DEF CreateHbmExportFails
      <3>. QED
        BY <1>1, <2>3, <3>1, <3>2, <3>3, Zenon
    <2>6. ASSUME NEW o \in Object, open_data_object(c, o) PROVE TablesTyped' /\ HandlersTyped'
      <3>1. HandlersTyped'
        BY <2>6, CatalogMoves, MovesTyped, Zenon
      <3>. QED
        BY <1>1, <1>2, <2>6, <3>1, Zenon DEF open_data_object
    <2>7. ASSUME NEW o \in Object, NEW st \in {"Ready", "Modified"}, Mark(c, o, st)
          PROVE  TablesTyped' /\ HandlersTyped'
      <3>1. HandlersTyped'
        BY <2>7, CatalogMoves, MovesTyped, Zenon
      <3>2. o \in Live /\ objects' = [objects EXCEPT ![o].state = st] /\ UNCHANGED <<blocks, leases, memory, phase>>
        BY <2>7, Zenon DEF Mark
      <3>3. objects' \in [Object -> ObjectRecord \cup {None, Released}]
        BY <3>2, StateSet, Zenon
      <3>. QED
        BY <1>1, <3>1, <3>2, <3>3, Zenon
    <2>8. ASSUME NEW o \in Object, release_data_object(c, o) PROVE TablesTyped' /\ HandlersTyped'
      <3>1. o \in Live /\ Moved(c, Step("freeing", MemoryOf(o)))
        BY <2>8, CatalogMoves, Zenon DEF release_data_object
      <3>2. Step("freeing", MemoryOf(o)).arg \in Block \cup Object
        BY <3>1, MemoryOfType, StepTypes
      <3>3. HandlersTyped'
        BY <3>1, <3>2, MovesTyped, Zenon
      <3>4. objects' \in [Object -> ObjectRecord \cup {None, Released}]
        BY <1>1, <2>8, Zenon DEF release_data_object
      <3>5. blocks' \in [Block -> BlockRecord \cup {None, Released}]
        BY <1>1, <2>8, Zenon DEF release_data_object, BlockRemoved
      <3>. QED
        BY <1>1, <1>2, <2>8, <3>3, <3>4, <3>5, Zenon DEF release_data_object
    <2>9. ASSUME NEW l \in Lease, close_lease(c, l) PROVE TablesTyped' /\ HandlersTyped'
      <3>1. HandlersTyped'
        BY <2>9, CatalogMoves, MovesTyped, Zenon
      <3>2. leases[l].object \in Object /\ leases[l] # None
        BY <1>1, <2>9, Zenon DEF close_lease, LeaseRecord
      <3>3. leases' \in [Lease -> LeaseRecord \cup {None}]
        BY <2>9, <3>2, LeaseTypes, Zenon DEF close_lease
      <3>. QED
        BY <1>1, <2>9, <3>1, <3>3, Zenon DEF close_lease
    <2>10. ASSUME Free(c) PROVE TablesTyped' /\ HandlersTyped'
      <3>1. HandlersTyped'
        BY <2>10, CatalogMoves, MovesTyped, Zenon
      <3>. QED
        BY <1>1, <2>10, <3>1, Zenon DEF Free, Freed
    <2>11. ASSUME shutdown_daemon(c) \/ HandlerExits(c) PROVE TablesTyped' /\ HandlersTyped'
      <3>1. Moved(c, Exited) /\ Exited.at # "freeing"
        BY <2>11, CatalogMoves, StepAt, Zenon
      <3>2. HandlersTyped'
        BY <3>1, MovesTyped, Zenon
      <3>. QED
        BY <1>1, <2>11, <3>2, Zenon DEF shutdown_daemon, HandlerExits
    <2>. QED
      BY <1>3, <2>1, <2>2, <2>4, <2>5, <2>6, <2>7, <2>8, <2>9, <2>10, <2>11, Zenon DEF ClientStep
  <1>4. ASSUME AcceptError PROVE TablesTyped' /\ HandlersTyped'
    <2>1. HandlersTyped'
      BY <1>4, QuietMoves, MovesTyped, Zenon
    <2>. QED
      BY <1>1, <1>4, <2>1, Zenon DEF AcceptError
  <1>5. ASSUME cleanup_blocks PROVE TablesTyped' /\ HandlersTyped'
    <2>1. HandlersTyped'
      BY <1>5, QuietMoves, MovesTyped, Zenon DEF cleanup_blocks
    <2>2. PICK outcome \in [BlocksToFree -> {"freed", "leaked", "freed twice"}] :
             memory' = [m \in DOMAIN memory |-> IF m \in BlocksToFree THEN outcome[m] ELSE memory[m]]
      BY <1>5, Zenon DEF cleanup_blocks
    <2>3. memory' \in [Block \cup Object -> {"none", "live", "freed", "leaked", "freed twice"}]
      BY <1>1, <2>2, Zenon
    <2>. QED
      BY <1>1, <1>5, <2>1, <2>3, Zenon DEF cleanup_blocks
  <1>6. ASSUME ProcessExits PROVE TablesTyped' /\ HandlersTyped'
    <2>1. HandlersTyped'
      BY <1>6, QuietMoves, MovesTyped, Zenon DEF ProcessExits
    <2>. QED
      BY <1>1, <1>6, <2>1, Zenon DEF ProcessExits
  <1>. QED
    BY <1>3, <1>4, <1>5, <1>6, Zenon DEF CatalogNext

-----------------------------------------------------------------------------
\* finish_transfer_event, for an event that was made.
LEMMA FinishTypes ==
  ASSUME TypeOK, NEW e \in Event, events[e] # None, NEW st \in {"complete", "failed"},
         finish_transfer_event(e, st)
  PROVE  /\ events' \in [Event -> Job \cup {None}]
         /\ objects' \in [Object -> ObjectRecord \cup {None, Released}]
         /\ \A f \in Event \ {e} : events'[f] = events[f]
         /\ events'[e] # None
         /\ Ends(e) => events'[e].status = st
         /\ ~Ends(e) => events'[e] = events[e]
         /\ \A o \in Object : /\ objects'[o] = objects[o] \/ (objects[o] \in ObjectRecord /\ objects'[o] \in ObjectRecord)
                              /\ objects[o] \in ObjectRecord =>
                                    /\ objects'[o].request = objects[o].request
                                    /\ objects'[o].block = objects[o].block
  <1>1. events[e] \in Job /\ events \in [Event -> Job \cup {None}]
    BY Zenon DEF TypeOK
  <1>2. [events EXCEPT ![e].status = st] = [events EXCEPT ![e] = [events[e] EXCEPT !.status = st]]
    OBVIOUS
  <1>3. [events[e] EXCEPT !.status = st] \in Job /\ [events[e] EXCEPT !.status = st].status = st
    BY <1>1, Zenon DEF Job, Terminal
  <1>4. objects \in [Object -> ObjectRecord \cup {None, Released}]
    BY Zenon DEF TypeOK, CatalogTypeOK
  <1>5. ASSUME ~Ends(e) PROVE UNCHANGED <<events, objects>>
    BY <1>5, Zenon DEF Ends, finish_transfer_event
  <1>6. ASSUME Ends(e)
        PROVE  /\ events' = [events EXCEPT ![e] = [events[e] EXCEPT !.status = st]]
               /\ \/ objects' = objects
                  \/ events[e].dst \in Live /\ objects' = [objects EXCEPT ![events[e].dst].state = "Ready"]
    BY <1>2, <1>6, Zenon DEF Ends, finish_transfer_event
  <1>7. ASSUME Ends(e)
        PROVE  /\ events' \in [Event -> Job \cup {None}]
               /\ \A f \in Event \ {e} : events'[f] = events[f]
               /\ events'[e] # None /\ events'[e].status = st
    BY <1>1, <1>3, <1>6, <1>7, NoneDistinct, Zenon
  <1>. DEFINE Kept == /\ objects' \in [Object -> ObjectRecord \cup {None, Released}]
                      /\ \A o \in Object :
                            /\ objects'[o] = objects[o] \/ (objects[o] \in ObjectRecord /\ objects'[o] \in ObjectRecord)
                            /\ objects[o] \in ObjectRecord => /\ objects'[o].request = objects[o].request
                                                              /\ objects'[o].block = objects[o].block
  <1>8. ASSUME objects' = objects PROVE Kept
    BY <1>4, <1>8, Zenon
  <1>9. ASSUME NEW d \in Live, objects' = [objects EXCEPT ![d].state = "Ready"] PROVE Kept
    <2>1. d \in Object /\ objects[d] \in ObjectRecord
      BY LiveIs, Zenon
    <2>2. /\ objects' \in [Object -> ObjectRecord \cup {None, Released}]
          /\ objects'[d] \in ObjectRecord
          /\ objects'[d].request = objects[d].request /\ objects'[d].block = objects[d].block
          /\ \A o \in Object \ {d} : objects'[o] = objects[o]
      BY <1>9, StateSet, Zenon
    <2>. QED
      BY <2>1, <2>2, Zenon
  <1>10. Kept
    BY <1>5, <1>6, <1>8, <1>9, Zenon
  <1>. HIDE DEF Kept
  <1>11. CASE Ends(e)
    BY <1>7, <1>10, <1>11, Zenon DEF Kept
  <1>12. CASE ~Ends(e)
    BY <1>1, <1>5, <1>10, <1>12, Zenon DEF Kept
  <1>. QED
    BY <1>11, <1>12, Zenon


\* The part of TypeOK about transfers.
TransfersTyped ==
    /\ events \in [Event -> Job \cup {None}]
    /\ queue \in Seq(Event)
    /\ worker \in [Worker -> WorkerStep \cup {None}]
    /\ outcomes \in [Event -> Seq(Terminal)]

\* TypeOK, part by part.
LEMMA TypeParts ==
  /\ TypeOK <=> TablesTyped /\ HandlersTyped /\ TransfersTyped
  /\ TypeOK' <=> TablesTyped' /\ HandlersTyped' /\ TransfersTyped'
  BY Zenon DEF TypeOK, CatalogTypeOK, TablesTyped, HandlersTyped, TransfersTyped

\* The outcome of a snapshot is recorded under its event.
LEMMA RecordedType ==
  ASSUME TypeOK, NEW s \in Snapshot
  PROVE  /\ s.event \in Event /\ s.status \in Terminal
         /\ Recorded(s) \in [Event -> Seq(Terminal)]
         /\ Recorded(s)[s.event] = Append(outcomes[s.event], s.status)
         /\ \A e \in Event \ {s.event} : Recorded(s)[e] = outcomes[e]
  <1>1. s.event \in Event /\ s.status \in Terminal
    BY Zenon DEF Snapshot
  <1>2. outcomes \in [Event -> Seq(Terminal)]
    BY Zenon DEF TypeOK
  <1>3. Append(outcomes[s.event], s.status) \in Seq(Terminal)
    BY <1>1, <1>2
  <1>. QED
    BY <1>1, <1>2, <1>3, Zenon DEF Recorded

\* The requests about transfers keep everything typed.
LEMMA RequestType ==
  ASSUME TypeOK, NamesFit, CatalogConsistent, NEW c \in Client
  PROVE  /\ \A src, dst \in Object, e \in Event : submit_transfer(c, src, dst, e) => TypeOK'
         /\ \A e \in Event : cancel_event(c, e) => TypeOK'
         /\ \A e \in Event : wait_event(c, e) => TypeOK'
         /\ Enqueue(c) => TypeOK'
         /\ EnqueueFails(c) => TypeOK'
         /\ HandlerRecords(c) => TypeOK'
         /\ WaitResumes(c) => TypeOK'
         /\ WaitTimesOut(c) => TypeOK'
  <1>1. TablesTyped /\ HandlersTyped /\ TransfersTyped
    BY TypeParts, Zenon
  <1>2. \A s : Moved(c, s) /\ s.at # "freeing" => HandlersTyped'
    BY MovesTyped, Zenon
  <1>3. \A e \in Event, st \in Terminal : Recording(e, st).at # "freeing"
    BY StepTypes, Zenon
  <1>4. ASSUME NEW e \in Event, NEW j \in Job PROVE [events EXCEPT ![e] = j] \in [Event -> Job \cup {None}]
    BY <1>1, Zenon DEF TransfersTyped
  <1>5. ASSUME NEW src \in Object, NEW dst \in Object, NEW e \in Event, submit_transfer(c, src, dst, e)
        PROVE  TypeOK'
    <2>1. Step("enqueueing", e).at # "freeing" /\ Recording(e, "complete").at # "freeing"
      BY <1>3, StepTypes DEF Terminal
    <2>2. HandlersTyped'
      BY <1>2, <1>5, <2>1, TransferMoves, Zenon
    <2>3. src \in Live /\ dst \in Live
      BY <1>5, Zenon DEF submit_transfer
    <2>4. MemoryOf(src) \in Block \cup Object /\ MemoryOf(dst) \in Block \cup Object
      BY <2>3, MemoryOfType, Zenon
    <2>5. NewEvent(src, dst) \in Job
      BY <2>4 DEF NewEvent, Job, Terminal
    <2>6. events' \in [Event -> Job \cup {None}]
      BY <1>4, <1>5, <2>5, Zenon DEF submit_transfer
    <2>7. TransfersTyped' /\ TablesTyped'
      BY <1>1, <1>5, <2>6, Zenon DEF submit_transfer, TransfersTyped, TablesTyped
    <2>. QED
      BY <2>2, <2>7, TypeParts, Zenon
  <1>6. ASSUME NEW e \in Event, cancel_event(c, e) PROVE TypeOK'
    <2>1. HandlersTyped'
      BY <1>2, <1>3, <1>6, TransferMoves, Zenon DEF Terminal
    <2>2. events[e] \in Job
      BY <1>1, <1>6, Zenon DEF cancel_event, TransfersTyped
    <2>3. [events[e] EXCEPT !.status = "cancelled"] \in Job
      BY <2>2, Zenon DEF Job, Terminal
    <2>4. events' = [events EXCEPT ![e] = [events[e] EXCEPT !.status = "cancelled"]]
      BY <1>6, Zenon DEF cancel_event
    <2>5. events' \in [Event -> Job \cup {None}]
      BY <1>4, <2>3, <2>4, Zenon
    <2>6. TransfersTyped' /\ TablesTyped'
      BY <1>1, <1>6, <2>5, Zenon DEF cancel_event, TransfersTyped, TablesTyped
    <2>. QED
      BY <2>1, <2>6, TypeParts, Zenon
  <1>7. ASSUME NEW e \in Event, wait_event(c, e) PROVE TypeOK'
    <2>1. HandlersTyped'
      <3>1. Moved(c, Step("waiting", e))
        BY <1>7, TransferMoves, Zenon
      <3>. QED
        BY <1>2, <3>1, StepAt, ZenonT(60)
    <2>2. TransfersTyped' /\ TablesTyped'
      BY <1>1, <1>7, Zenon DEF wait_event, TransfersTyped, TablesTyped, transferVars
    <2>. QED
      BY <2>1, <2>2, TypeParts, Zenon
  <1>8. ASSUME Enqueue(c) PROVE TypeOK'
    <2>1. HandlersTyped'
      BY <1>8, MovesTyped, TransferMoves, Zenon
    <2>2. handler[c].arg \in Event
      BY <1>8, TransferMoves, Zenon DEF NamesFit
    <2>3. queue' \in Seq(Event)
      BY <1>1, <1>8, <2>2 DEF Enqueue, TransfersTyped
    <2>4. TransfersTyped' /\ TablesTyped'
      BY <1>1, <1>8, <2>3, Zenon DEF Enqueue, TransfersTyped, TablesTyped
    <2>. QED
      BY <2>1, <2>4, TypeParts, Zenon
  <1>9. ASSUME EnqueueFails(c) PROVE TypeOK'
    <2>. DEFINE e == handler[c].arg
    <2>1. e \in Event /\ events[e] # None
      BY <1>9, TransferMoves, Zenon DEF NamesFit
    <2>2. HandlersTyped'
      BY <1>2, <1>3, <1>9, <2>1, MovesTyped, TransferMoves, Zenon DEF Terminal
    <2>3. finish_transfer_event(e, "failed") /\ UNCHANGED <<blocks, leases, memory, phase, queue, worker, outcomes>>
      BY <1>9, Zenon DEF EnqueueFails
    <2>. HIDE DEF e
    <2>4. events' \in [Event -> Job \cup {None}] /\ objects' \in [Object -> ObjectRecord \cup {None, Released}]
      BY <2>1, <2>3, FinishTypes, Zenon
    <2>5. TransfersTyped' /\ TablesTyped'
      BY <1>1, <2>3, <2>4, Zenon DEF TransfersTyped, TablesTyped
    <2>. QED
      BY <2>2, <2>5, TypeParts, Zenon
  <1>10. ASSUME HandlerRecords(c) PROVE TypeOK'
    <2>1. HandlersTyped'
      BY <1>10, MovesTyped, TransferMoves, Zenon
    <2>2. handler[c].arg \in Snapshot
      BY <1>10, TransferMoves, Zenon DEF NamesFit
    <2>3. outcomes' \in [Event -> Seq(Terminal)]
      BY <1>10, <2>2, RecordedType, Zenon DEF HandlerRecords
    <2>4. TransfersTyped' /\ TablesTyped'
      BY <1>1, <1>10, <2>3, Zenon DEF HandlerRecords, TransfersTyped, TablesTyped
    <2>. QED
      BY <2>1, <2>4, TypeParts, Zenon
  <1>11. ASSUME WaitResumes(c) PROVE TypeOK'
    <2>1. HandlersTyped'
      <3>1. Moved(c, Step("waiting", handler[c].arg)) \/ Answers(c)
        BY <1>11, TransferMoves, Zenon
      <3>2. Answers(c) => HandlersTyped'
        BY MovesTyped, Zenon
      <3>. QED
        BY <1>2, <3>1, <3>2, StepAt
    <2>2. TransfersTyped' /\ TablesTyped'
      BY <1>1, <1>11, Zenon DEF WaitResumes, TransfersTyped, TablesTyped, transferVars
    <2>. QED
      BY <2>1, <2>2, TypeParts, Zenon
  <1>12. ASSUME WaitTimesOut(c) PROVE TypeOK'
    <2>1. HandlersTyped'
      BY <1>12, MovesTyped, TransferMoves, Zenon
    <2>2. TransfersTyped' /\ TablesTyped'
      BY <1>1, <1>12, Zenon DEF WaitTimesOut, TransfersTyped, TablesTyped, transferVars
    <2>. QED
      BY <2>1, <2>2, TypeParts, Zenon
  <1>. QED
    BY <1>5, <1>6, <1>7, <1>8, <1>9, <1>10, <1>11, <1>12, Zenon

\* What the workers do keeps everything typed.
LEMMA WorkType ==
  ASSUME TypeOK, NamesFit, NEW w \in Worker, Works(w)
  PROVE  TypeOK'
  <1>1. TablesTyped /\ HandlersTyped /\ TransfersTyped
    BY TypeParts, Zenon
  <1>2. HandlersTyped'
    BY MovesTyped, QuietMoves, Zenon
  <1>3. ASSUME NEW s \in WorkerStep PROVE [worker EXCEPT ![w] = s] \in [Worker -> WorkerStep \cup {None}]
    BY <1>1, Zenon DEF TransfersTyped
  <1>4. ASSUME Take(w) PROVE TypeOK'
    <2>1. queue \in Seq(Event) /\ queue # <<>>
      BY <1>1, <1>4, Zenon DEF Take, TransfersTyped
    <2>2. Head(queue) \in Event /\ Tail(queue) \in Seq(Event)
      BY <2>1
    <2>3. Step(Execution(Head(queue)), Head(queue)) \in WorkerStep
      BY <2>2, StepTypes, Zenon DEF Execution
    <2>4. worker' \in [Worker -> WorkerStep \cup {None}] /\ queue' \in Seq(Event)
      BY <1>3, <1>4, <2>2, <2>3, Zenon DEF Take
    <2>5. TransfersTyped' /\ TablesTyped'
      BY <1>1, <1>4, <2>4, Zenon DEF Take, catalogVars, TransfersTyped, TablesTyped
    <2>. QED
      BY <1>2, <2>5, TypeParts, Zenon
  <1>5. ASSUME FinishCopy(w) PROVE TypeOK'
    <2>. DEFINE e == worker[w].arg
    <2>1. e \in Event /\ events[e] # None
      BY <1>5, Zenon DEF FinishCopy, NamesFit
    <2>2. PICK st \in CopyOutcome(e) :
             /\ finish_transfer_event(e, st)
             /\ worker' = [worker EXCEPT ![w] = IF Ends(e) THEN Recording(e, st) ELSE Idle]
      BY <1>5, Zenon DEF FinishCopy
    <2>3. st \in {"complete", "failed"}
      BY Zenon DEF CopyOutcome
    <2>4. UNCHANGED <<blocks, leases, memory, phase, queue, outcomes>>
      BY <1>5, Zenon DEF FinishCopy
    <2>. HIDE DEF e
    <2>5. events' \in [Event -> Job \cup {None}] /\ objects' \in [Object -> ObjectRecord \cup {None, Released}]
      BY <2>1, <2>2, <2>3, FinishTypes, Zenon
    <2>6. Recording(e, st) \in WorkerStep /\ Idle \in WorkerStep
      BY <2>1, <2>3, StepTypes, Zenon DEF Terminal
    <2>7. worker' \in [Worker -> WorkerStep \cup {None}]
      BY <1>3, <2>2, <2>6, Zenon
    <2>8. TransfersTyped' /\ TablesTyped'
      BY <1>1, <2>4, <2>5, <2>7, Zenon DEF TransfersTyped, TablesTyped
    <2>. QED
      BY <1>2, <2>8, TypeParts, Zenon
  <1>6. ASSUME WorkerRecords(w) PROVE TypeOK'
    <2>1. worker[w].arg \in Snapshot
      BY <1>6, Zenon DEF WorkerRecords, NamesFit
    <2>2. outcomes' \in [Event -> Seq(Terminal)]
      BY <1>6, <2>1, RecordedType, Zenon DEF WorkerRecords
    <2>3. worker' \in [Worker -> WorkerStep \cup {None}]
      BY <1>3, <1>6, StepTypes, Zenon DEF WorkerRecords
    <2>4. TransfersTyped' /\ TablesTyped'
      BY <1>1, <1>6, <2>2, <2>3, Zenon DEF WorkerRecords, catalogVars, TransfersTyped, TablesTyped
    <2>. QED
      BY <1>2, <2>4, TypeParts, Zenon
  <1>. QED
    BY <1>4, <1>5, <1>6, Zenon DEF Works

\* Every step keeps everything typed.
LEMMA NextType == TypeOK /\ NamesFit /\ CatalogConsistent /\ Next => TypeOK'
  <1>. SUFFICES ASSUME TypeOK, NamesFit, CatalogConsistent, Next PROVE TypeOK'
    OBVIOUS
  <1>1. ASSUME CatalogStep PROVE TypeOK'
    <2>1. CatalogNext /\ UNCHANGED transferVars
      BY <1>1, Zenon DEF CatalogStep
    <2>2. CatalogTypeOK' /\ HandlersTyped'
      BY <2>1, CatalogNextType, Zenon
    <2>3. TransfersTyped'
      BY <2>1, TypeParts, Zenon DEF transferVars, TransfersTyped
    <2>4. TablesTyped'
      BY <2>2, Zenon DEF CatalogTypeOK, TablesTyped
    <2>. QED
      BY <2>2, <2>3, <2>4, TypeParts, Zenon
  <1>. QED
    BY <1>1, RequestType, WorkType, Zenon DEF Next

-----------------------------------------------------------------------------
\* Names.  No step forgets an event.
LEMMA EventsStay ==
  ASSUME TypeOK, NamesFit, Next, NEW e \in Event, events[e] # None
  PROVE  events'[e] # None
  <1>. USE DEF Ends
  <1>0. events \in [Event -> Job \cup {None}] /\ events[e] \in Job
    BY Zenon DEF TypeOK
  <1>1. ASSUME events' = events PROVE events'[e] # None
    BY <1>1, Zenon
  <1>2. ASSUME NEW f \in Event, events[f] # None, NEW st \in {"complete", "failed"},
               finish_transfer_event(f, st)
        PROVE  events'[e] # None
    <2>1. events'[f] # None /\ \A g \in Event \ {f} : events'[g] = events[g]
      BY <1>2, FinishTypes, Zenon
    <2>. QED
      BY <2>1, Zenon
  <1>3. CASE CatalogStep
    BY <1>1, <1>3, Zenon DEF CatalogStep, transferVars
  <1>4. ASSUME NEW c \in Client, NEW src \in Object, NEW dst \in Object, NEW f \in Event,
               submit_transfer(c, src, dst, f)
        PROVE  events'[e] # None
    <2>1. e # f
      BY <1>4, Zenon DEF submit_transfer
    <2>. QED
      BY <1>0, <1>4, <2>1, Zenon DEF submit_transfer
  <1>5. ASSUME NEW c \in Client, NEW f \in Event, cancel_event(c, f) PROVE events'[e] # None
    <2>1. e = f => events'[e] = [events[e] EXCEPT !.status = "cancelled"]
      BY <1>0, <1>5, Zenon DEF cancel_event
    <2>2. [events[e] EXCEPT !.status = "cancelled"] \in Job
      BY <1>0, Zenon DEF Job, Terminal
    <2>3. e # f => events'[e] = events[e]
      BY <1>0, <1>5, Zenon DEF cancel_event
    <2>. QED
      BY <1>0, <2>1, <2>2, <2>3, NoneDistinct, Zenon
  <1>6. ASSUME NEW c \in Client, EnqueueFails(c) PROVE events'[e] # None
    <2>1. handler[c].arg \in Event /\ events[handler[c].arg] # None
      BY <1>6, Zenon DEF EnqueueFails, NamesFit
    <2>. QED
      BY <1>2, <1>6, <2>1, Zenon DEF EnqueueFails
  <1>7. ASSUME NEW c \in Client,
               \/ \E f \in Event : wait_event(c, f)
               \/ Enqueue(c)
               \/ HandlerRecords(c)
               \/ WaitResumes(c)
               \/ WaitTimesOut(c)
        PROVE  events' = events
    BY <1>7, Zenon DEF wait_event, Enqueue, HandlerRecords, WaitResumes, WaitTimesOut, transferVars
  <1>8. ASSUME NEW w \in Worker, FinishCopy(w) PROVE events'[e] # None
    <2>1. worker[w].arg \in Event /\ events[worker[w].arg] # None
      BY <1>8, Zenon DEF FinishCopy, NamesFit
    <2>2. PICK st \in CopyOutcome(worker[w].arg) : finish_transfer_event(worker[w].arg, st)
      BY <1>8, Zenon DEF FinishCopy
    <2>3. st \in {"complete", "failed"}
      BY Zenon DEF CopyOutcome
    <2>. QED
      BY <1>2, <2>1, <2>2, <2>3, Zenon
  <1>9. ASSUME NEW w \in Worker, Take(w) \/ WorkerRecords(w) PROVE events' = events
    BY <1>9, Zenon DEF Take, WorkerRecords
  <1>. QED
    BY <1>1, <1>3, <1>4, <1>5, <1>6, <1>7, <1>8, <1>9, Zenon DEF Next, Works

HandlersNamed ==
    \A c \in Client :
       /\ handler[c].at \in {"enqueueing", "waiting", "woken"} =>
             handler[c].arg \in Event /\ events[handler[c].arg] # None
       /\ handler[c].at = "recording" => handler[c].arg \in Snapshot

WorkersNamed ==
    \A w \in Worker : worker[w] # None =>
       /\ worker[w].at \in {"copying", "refusing"} => worker[w].arg \in Event /\ events[worker[w].arg] # None
       /\ worker[w].at = "recording" => worker[w].arg \in Snapshot

QueueNamed == \A i \in DOMAIN queue : events[queue[i]] # None

\* NamesFit, part by part.
LEMMA NameParts ==
  /\ NamesFit <=> HandlersNamed /\ WorkersNamed /\ QueueNamed
  /\ NamesFit' <=> HandlersNamed' /\ WorkersNamed' /\ QueueNamed'
  BY Zenon DEF NamesFit, HandlersNamed, WorkersNamed, QueueNamed

\* As no event is forgotten, a thread that stays where it is still names one.
LEMMA NamesMove ==
  ASSUME TypeOK, NamesFit, Next
  PROVE  /\ Quiet => HandlersNamed'
         /\ \A c \in Client : Answers(c) => HandlersNamed'
         /\ \A c \in Client, e \in Event, at \in {"enqueueing", "waiting", "woken"} :
               Moved(c, Step(at, e)) /\ events'[e] # None => HandlersNamed'
         /\ \A c \in Client, e \in Event, st \in Terminal : Moved(c, Recording(e, st)) => HandlersNamed'
         /\ \A c \in Client : \A m : Moved(c, Step("freeing", m)) => HandlersNamed'
         /\ \A c \in Client : Moved(c, Exited) => HandlersNamed'
         /\ worker' = worker => WorkersNamed'
         /\ queue' = queue => QueueNamed'
  <1>1. HandlersNamed /\ WorkersNamed /\ QueueNamed
    BY NameParts, Zenon
  <1>2. \A e \in Event : events[e] # None => events'[e] # None
    BY EventsStay, Zenon
  <1>. DEFINE Fits(s) == /\ s.at \in {"enqueueing", "waiting", "woken"} =>
                               s.arg \in Event /\ events'[s.arg] # None
                         /\ s.at = "recording" => s.arg \in Snapshot
  <1>3. \A d \in Client : Fits(handler[d])
    BY <1>1, <1>2, Zenon DEF HandlersNamed
  <1>4. \A d \in Client : handler[d].at = "waiting" => Fits(Step("woken", handler[d].arg))
    BY <1>3, StepTypes
  <1>5. (\A d \in Client : Fits(handler'[d])) => HandlersNamed'
    BY Zenon DEF HandlersNamed
  <1>. HIDE DEF Fits
  <1>6. Quiet => HandlersNamed'
    BY <1>3, <1>4, <1>5, Zenon DEF Quiet
  <1>7. \A c \in Client : \A s : Moved(c, s) /\ Fits(s) => HandlersNamed'
    BY <1>3, <1>4, <1>5, Zenon DEF Moved, Others
  <1>8. /\ Fits(Ready) /\ Fits(Exited)
        /\ \A m : Fits(Step("freeing", m))
        /\ \A e \in Event, at \in {"enqueueing", "waiting", "woken"} : events'[e] # None => Fits(Step(at, e))
        /\ \A e \in Event, st \in Terminal : Fits(Recording(e, st))
    BY StepTypes DEF Fits
  <1>9. worker' = worker => WorkersNamed'
    BY <1>1, <1>2, Zenon DEF WorkersNamed
  <1>10. queue' = queue => QueueNamed'
    <2>1. \A i \in DOMAIN queue : queue[i] \in Event
      BY DEF TypeOK
    <2>. QED
      BY <1>1, <1>2, <2>1, Zenon DEF QueueNamed
  <1>11. \A c \in Client : Answers(c) => HandlersNamed'
    BY <1>7, <1>8, Zenon DEF Answers
  <1>. QED
    BY <1>6, <1>7, <1>8, <1>9, <1>10, <1>11, Zenon

\* Every step keeps the names fitting.
LEMMA NextNames == TypeOK /\ NamesFit /\ CatalogConsistent /\ Next => NamesFit'
  <1>. SUFFICES ASSUME TypeOK, NamesFit, CatalogConsistent, Next PROVE NamesFit'
    OBVIOUS
  <1>. SUFFICES HandlersNamed' /\ WorkersNamed' /\ QueueNamed'
    BY NameParts, Zenon
  <1>. DEFINE Goal == HandlersNamed' /\ WorkersNamed' /\ QueueNamed'
  <1>0. worker' = worker /\ queue' = queue /\ HandlersNamed' => Goal
    BY NamesMove, Zenon
  <1>. HIDE DEF Goal
  <1>1. ASSUME CatalogStep PROVE Goal
    <2>1. worker' = worker /\ queue' = queue
      BY <1>1, Zenon DEF CatalogStep, transferVars
    <2>2. CatalogNext
      BY <1>1, Zenon DEF CatalogStep
    <2>3. ASSUME NEW c \in Client, ClientStep(c) PROVE HandlersNamed'
      <3>1. ASSUME NEW o \in Object, release_data_object(c, o) PROVE HandlersNamed'
        BY <3>1, CatalogMoves, NamesMove, Zenon
      <3>2. ASSUME \/ \E r \in Request :
                         \/ Reuse(c, r)
                         \/ CreateDdrOrSsd(c, r)
                         \/ CreateHbm(c, r)
                         \/ CreateHbmExportFails(c, r)
                   \/ \E o \in Object :
                         \/ open_data_object(c, o)
                         \/ Mark(c, o, "Ready")
                         \/ Mark(c, o, "Modified")
                   \/ \E l \in Lease : close_lease(c, l)
                   \/ Free(c)
            PROVE  Answers(c)
        BY <3>2, CatalogMoves, Zenon
      <3>3. ASSUME shutdown_daemon(c) \/ HandlerExits(c) PROVE HandlersNamed'
        BY <3>3, CatalogMoves, NamesMove, Zenon
      <3>. QED
        BY <2>3, <3>1, <3>2, <3>3, NamesMove, Zenon DEF ClientStep
    <2>4. ASSUME AcceptError \/ cleanup_blocks \/ ProcessExits PROVE Quiet
      BY <2>4, QuietMoves, Zenon DEF cleanup_blocks, ProcessExits
    <2>5. HandlersNamed'
      BY <2>2, <2>3, <2>4, NamesMove, Zenon DEF CatalogNext
    <2>. QED
      BY <1>0, <2>1, <2>5, Zenon
  <1>2. ASSUME NEW c \in Client, NEW src \in Object, NEW dst \in Object, NEW e \in Event,
               submit_transfer(c, src, dst, e)
        PROVE  Goal
    <2>1. events'[e] # None
      <3>1. {src, dst} \subseteq Live /\ events' = [events EXCEPT ![e] = NewEvent(src, dst)]
        BY <1>2, Zenon DEF submit_transfer
      <3>2. MemoryOf(src) \in Block \cup Object /\ MemoryOf(dst) \in Block \cup Object
        BY <3>1, MemoryOfType, Zenon
      <3>3. NewEvent(src, dst) \in Job
        BY <3>2 DEF NewEvent, Job, Terminal
      <3>. QED
        BY <3>1, <3>3, NoneDistinct, Zenon DEF TypeOK
    <2>2. HandlersNamed'
      BY <1>2, <2>1, TransferMoves, NamesMove, Zenon DEF Terminal
    <2>3. worker' = worker /\ queue' = queue
      BY <1>2, Zenon DEF submit_transfer
    <2>. QED
      BY <1>0, <2>2, <2>3, Zenon
  <1>3. ASSUME NEW c \in Client, NEW e \in Event, cancel_event(c, e) PROVE Goal
    <2>1. HandlersNamed'
      BY <1>3, TransferMoves, NamesMove, Zenon DEF Terminal
    <2>. QED
      BY <1>0, <1>3, <2>1, Zenon DEF cancel_event
  <1>4. ASSUME NEW c \in Client, NEW e \in Event, wait_event(c, e) PROVE Goal
    <2>1. events'[e] # None
      BY <1>4, EventsStay, Zenon DEF wait_event
    <2>2. HandlersNamed'
      BY <1>4, <2>1, TransferMoves, NamesMove, Zenon
    <2>3. worker' = worker /\ queue' = queue
      BY <1>4, Zenon DEF wait_event, transferVars
    <2>. QED
      BY <1>0, <2>2, <2>3, Zenon
  <1>5. ASSUME NEW c \in Client, Enqueue(c) PROVE Goal
    <2>1. HandlersNamed' /\ WorkersNamed'
      BY <1>5, TransferMoves, NamesMove, Zenon DEF Enqueue
    <2>2. handler[c].arg \in Event /\ events[handler[c].arg] # None
      BY <1>5, TransferMoves, Zenon DEF NamesFit
    <2>3. queue \in Seq(Event) /\ queue' = Append(queue, handler[c].arg) /\ events' = events
      BY <1>5, Zenon DEF Enqueue, TypeOK
    <2>4. \A i \in DOMAIN queue' : IF i = Len(queue) + 1 THEN queue'[i] = handler[c].arg
                                                          ELSE i \in DOMAIN queue /\ queue'[i] = queue[i]
      BY <2>2, <2>3
    <2>5. QueueNamed'
      BY <2>2, <2>3, <2>4, NameParts, Zenon DEF QueueNamed
    <2>. QED
      BY <2>1, <2>5, Zenon DEF Goal
  <1>6. ASSUME NEW c \in Client, EnqueueFails(c) PROVE Goal
    <2>1. handler[c].arg \in Event
      BY <1>6, TransferMoves, Zenon DEF NamesFit
    <2>2. HandlersNamed'
      BY <1>6, <2>1, TransferMoves, NamesMove, Zenon DEF Terminal
    <2>3. worker' = worker /\ queue' = queue
      BY <1>6, Zenon DEF EnqueueFails
    <2>. QED
      BY <1>0, <2>2, <2>3, Zenon
  <1>7. ASSUME NEW c \in Client, HandlerRecords(c) PROVE Goal
    BY <1>0, <1>7, TransferMoves, NamesMove, Zenon DEF HandlerRecords
  <1>8. ASSUME NEW c \in Client, WaitResumes(c) PROVE Goal
    <2>1. handler[c].arg \in Event /\ events[handler[c].arg] # None
      BY <1>8, TransferMoves, Zenon DEF NamesFit
    <2>2. events'[handler[c].arg] # None
      BY <2>1, EventsStay, Zenon
    <2>3. HandlersNamed'
      BY <1>8, <2>1, <2>2, TransferMoves, NamesMove, Zenon
    <2>4. worker' = worker /\ queue' = queue
      BY <1>8, Zenon DEF WaitResumes, transferVars
    <2>. QED
      BY <1>0, <2>3, <2>4, Zenon
  <1>9. ASSUME NEW c \in Client, WaitTimesOut(c) PROVE Goal
    <2>1. HandlersNamed'
      BY <1>9, TransferMoves, NamesMove, Zenon
    <2>2. worker' = worker /\ queue' = queue
      BY <1>9, Zenon DEF WaitTimesOut, transferVars
    <2>. QED
      BY <1>0, <2>1, <2>2, Zenon
  <1>10. ASSUME NEW w \in Worker, Works(w) PROVE Goal
    <2>1. HandlersNamed'
      BY <1>10, QuietMoves, NamesMove, Zenon
    <2>2. \A v \in Worker : worker[v] # None =>
             /\ worker[v].at \in {"copying", "refusing"} => worker[v].arg \in Event /\ events'[worker[v].arg] # None
             /\ worker[v].at = "recording" => worker[v].arg \in Snapshot
      BY EventsStay, NameParts, Zenon DEF WorkersNamed
    <2>3. ASSUME NEW s, worker' = [worker EXCEPT ![w] = s],
                 s.at \in {"copying", "refusing"} => s.arg \in Event /\ events'[s.arg] # None,
                 s.at = "recording" => s.arg \in Snapshot
          PROVE  WorkersNamed'
      <3>1. \A v \in Worker : worker'[v] = IF v = w THEN s ELSE worker[v]
        BY <2>3, Zenon DEF TypeOK
      <3>. QED
        BY <2>2, <2>3, <3>1, Zenon DEF WorkersNamed
    <2>4. CASE Take(w)
      <3>1. queue \in Seq(Event) /\ queue # <<>> /\ queue' = Tail(queue)
            /\ events' = events /\ worker' = [worker EXCEPT ![w] = Step(Execution(Head(queue)), Head(queue))]
        BY <2>4, Zenon DEF Take, TypeOK
      <3>2. /\ 1 \in DOMAIN queue /\ Head(queue) = queue[1] /\ queue[1] \in Event
            /\ \A i \in DOMAIN queue' : i + 1 \in DOMAIN queue /\ queue'[i] = queue[i + 1]
        BY <3>1
      <3>3. Head(queue) \in Event /\ events'[Head(queue)] # None /\ QueueNamed'
        BY <3>1, <3>2, NameParts, Zenon DEF QueueNamed
      <3>4. WorkersNamed'
        <4>. DEFINE s == Step(Execution(Head(queue)), Head(queue))
        <4>1. s.at \in {"copying", "refusing"} /\ s.arg = Head(queue)
          <5>1. Execution(Head(queue)) \in {"copying", "refusing"}
            BY Zenon DEF Execution
          <5>. QED
            BY <5>1, StepTypes
        <4>2. worker' = [worker EXCEPT ![w] = s]
          BY <3>1, Zenon
        <4>. HIDE DEF s
        <4>. QED
          BY <2>3, <3>3, <4>1, <4>2, Zenon
      <3>. QED
        BY <2>1, <3>3, <3>4, Zenon DEF Goal
    <2>5. CASE FinishCopy(w)
      <3>. DEFINE e == worker[w].arg
      <3>1. e \in Event
        BY <2>5, Zenon DEF FinishCopy, NamesFit
      <3>2. PICK st \in CopyOutcome(e) :
               worker' = [worker EXCEPT ![w] = IF Ends(e) THEN Recording(e, st) ELSE Idle]
        BY <2>5, Zenon DEF FinishCopy
      <3>3. st \in Terminal
        BY Zenon DEF CopyOutcome, Terminal
      <3>. HIDE DEF e
      <3>4. /\ Recording(e, st).at = "recording" /\ Recording(e, st).arg \in Snapshot
            /\ Idle.at = "idle"
        BY <3>1, <3>3, StepTypes, Zenon
      <3>5. WorkersNamed'
        BY <2>3, <3>2, <3>4, Zenon
      <3>6. queue' = queue
        BY <2>5, Zenon DEF FinishCopy
      <3>. QED
        BY <2>1, <3>5, <3>6, NamesMove, Zenon DEF Goal
    <2>6. CASE WorkerRecords(w)
      <3>1. WorkersNamed'
        BY <2>3, <2>6, StepTypes, Zenon DEF WorkerRecords
      <3>2. queue' = queue
        BY <2>6, Zenon DEF WorkerRecords
      <3>. QED
        BY <2>1, <3>1, <3>2, NamesMove, Zenon DEF Goal
    <2>. QED
      BY <1>10, <2>4, <2>5, <2>6, Zenon DEF Works
  <1>. QED
    BY <1>1, <1>2, <1>3, <1>4, <1>5, <1>6, <1>7, <1>8, <1>9, <1>10, Zenon DEF Next, Goal

-----------------------------------------------------------------------------

\* The catalog.  Its invariants, part by part.
ObjectsHeld ==
    \A o \in Live :
       IF objects[o].request.medium = "hbm"
       THEN /\ objects[o].block \in CatalogBlocks /\ blocks[objects[o].block].object = o
            /\ blocks[objects[o].block].size >= objects[o].request.size
       ELSE objects[o].block = None

BlocksHeld ==
    \A b \in CatalogBlocks : blocks[b].object # None =>
       blocks[b].object \in Live /\ objects[blocks[b].object].block = b

LeasesLive == \A l \in Lease : leases[l] # None /\ leases[l].state = "Active" => leases[l].object \in Live

Shared ==
    \A o, p \in Live :
       /\ objects[o].request = objects[p].request
       /\ objects[o].request.immutable /\ objects[o].request.key # None
       => o = p

\* Until the cleanup: what the catalog and the handlers that free own is there,
\* and they own all of it.
MemoryThere ==
    phase \in {"running", "draining"} =>
       /\ \A o \in Live : memory[MemoryOf(o)] = "live"
       /\ \A b \in CatalogBlocks : memory[b] = "live"
       /\ \A b \in Block : memory[b] = "live" => b \in CatalogBlocks \/ \E c \in Freeing : handler[c].arg = b

FreeingOwns ==
    \A c \in Freeing :
       /\ memory[handler[c].arg] = "live"
       /\ handler[c].arg \in Block => blocks[handler[c].arg] = Released
       /\ handler[c].arg \in Object => objects[handler[c].arg] = Released
       /\ \A d \in Freeing : c # d => handler[c].arg # handler[d].arg

\* After the cleanup.
CleanedUp ==
    phase \in {"cleaned", "gone"} =>
       (\A c \in Client : handler[c] = Exited) /\ \A b \in Block : memory[b] # "live"

NeverTwice == \A m \in Block \cup Object : memory[m] # "freed twice"

CatalogInv ==
    /\ ObjectsHeld /\ BlocksHeld /\ LeasesLive /\ Shared
    /\ MemoryThere /\ FreeingOwns /\ CleanedUp /\ NeverTwice

\* The parts and the whole.
LEMMA CatalogParts == TypeOK => (CatalogConsistent /\ MemoryOwned /\ FreedOnce <=> CatalogInv)
  <1>. SUFFICES ASSUME TypeOK PROVE CatalogConsistent /\ MemoryOwned /\ FreedOnce <=> CatalogInv
    OBVIOUS
  <1>1. DOMAIN memory = Block \cup Object
    BY Zenon DEF TypeOK, CatalogTypeOK
  <1>2. ASSUME CatalogConsistent, MemoryOwned, FreedOnce PROVE CatalogInv
    <2>1. ObjectsHeld
      BY <1>2, Zenon DEF CatalogConsistent, MemoryOwned, ObjectsHeld
    <2>2. BlocksHeld /\ LeasesLive /\ Shared
      BY <1>2, Zenon DEF CatalogConsistent, BlocksHeld, LeasesLive, Shared
    <2>3. MemoryThere
      BY <1>2, Zenon DEF CatalogConsistent, MemoryOwned, MemoryThere
    <2>4. FreeingOwns
      BY <1>2, Zenon DEF MemoryOwned, FreeingOwns
    <2>5. CleanedUp /\ NeverTwice
      BY <1>1, <1>2, Zenon DEF MemoryOwned, FreedOnce, CleanedUp, NeverTwice
    <2>. QED
      BY <2>1, <2>2, <2>3, <2>4, <2>5, Zenon DEF CatalogInv
  <1>3. ASSUME CatalogInv PROVE CatalogConsistent /\ MemoryOwned /\ FreedOnce
    <2>1. CatalogConsistent
      BY <1>3, Zenon DEF CatalogInv, ObjectsHeld, BlocksHeld, LeasesLive, Shared, MemoryThere, CatalogConsistent
    <2>2. MemoryOwned
      BY <1>3, Zenon DEF CatalogInv, ObjectsHeld, MemoryThere, FreeingOwns, CleanedUp, MemoryOwned
    <2>3. FreedOnce
      BY <1>1, <1>3, Zenon DEF CatalogInv, CleanedUp, NeverTwice, FreedOnce
    <2>. QED
      BY <2>1, <2>2, <2>3, Zenon
  <1>. QED
    BY <1>2, <1>3, Zenon

\* The handlers that free stay as they are, and none moves after the cleanup.
SameFreeing ==
    /\ Freeing' = Freeing /\ \A c \in Freeing : handler'[c] = handler[c]
    /\ phase \in {"cleaned", "gone"} => \A c \in Client : handler'[c] = Exited

\* A handler that neither starts nor ends a free, or none at all.
LEMMA FreeingStays ==
  ASSUME TypeOK, CatalogInv
  PROVE  /\ Quiet => SameFreeing
         /\ \A c \in Client : handler[c].at # "exited" => phase \in {"running", "draining"}
         /\ \A c \in Client : \A s : Moved(c, s) /\ handler[c].at \notin {"freeing", "exited"} /\ s.at # "freeing"
               => SameFreeing
  <1>1. CleanedUp /\ phase \in {"running", "draining", "cleaned", "gone"} /\ Exited.at = "exited"
    BY StepTypes, Zenon DEF CatalogInv, TypeOK, CatalogTypeOK
  <1>2. \A x : Step("woken", x).at = "woken"
    BY StepTypes, Zenon
  <1>3. \A c \in Client : handler[c].at # "exited" => phase \in {"running", "draining"}
    BY <1>1, Zenon DEF CleanedUp
  <1>4. ASSUME Quiet PROVE SameFreeing
    <2>1. \A d \in Client : (handler'[d].at = "freeing" <=> handler[d].at = "freeing")
                            /\ (handler[d].at = "freeing" => handler'[d] = handler[d])
      BY <1>2, <1>4, Zenon DEF Quiet
    <2>2. phase \in {"cleaned", "gone"} => \A d \in Client : handler'[d] = Exited
      BY <1>1, <1>4, Zenon DEF Quiet, CleanedUp
    <2>. QED
      BY <2>1, <2>2, Zenon DEF SameFreeing, Freeing
  <1>5. ASSUME NEW c \in Client, NEW s, Moved(c, s), handler[c].at \notin {"freeing", "exited"}, s.at # "freeing"
        PROVE  SameFreeing
    <2>1. \A d \in Client : (handler'[d].at = "freeing" <=> handler[d].at = "freeing")
                            /\ (handler[d].at = "freeing" => handler'[d] = handler[d])
      BY <1>2, <1>5, Zenon DEF Moved, Others
    <2>2. phase \notin {"cleaned", "gone"}
      BY <1>3, <1>5, Zenon
    <2>. QED
      BY <2>1, <2>2, Zenon DEF SameFreeing, Freeing
  <1>. QED
    BY <1>3, <1>4, <1>5, Zenon


\* The objects keep their requests and blocks, whatever becomes of their state.
SameObjects ==
    \A o \in Object :
       /\ objects'[o] = objects[o] \/ (objects[o] \in ObjectRecord /\ objects'[o] \in ObjectRecord)
       /\ objects[o] \in ObjectRecord =>
             objects'[o].request = objects[o].request /\ objects'[o].block = objects[o].block

\* A step that allocates nothing, frees nothing and makes or removes no object.
LEMMA CatalogFrame ==
  ASSUME TypeOK, TypeOK', CatalogInv, SameObjects, SameFreeing, LeasesLive',
         UNCHANGED <<blocks, memory>>,
         phase' \in {"running", "draining"} <=> phase \in {"running", "draining"}
  PROVE  CatalogInv'
  <1>1. /\ phase \in {"running", "draining", "cleaned", "gone"}
        /\ phase' \in {"running", "draining", "cleaned", "gone"}
    BY Zenon DEF TypeOK, CatalogTypeOK
  <1>2. \A o \in Object : /\ o \in Live <=> objects[o] \in ObjectRecord
                          /\ o \in Live' <=> objects'[o] \in ObjectRecord
    <2>1. \A o \in Object : o \in Live <=> objects[o] \in ObjectRecord
      BY LiveIs, Zenon
    <2>2. \A o \in Object : o \in Live' <=> objects'[o] \in ObjectRecord
      BY NoneDistinct, Zenon DEF TypeOK, CatalogTypeOK, Live
    <2>. QED
      BY <2>1, <2>2, Zenon
  <1>3. Live' = Live /\ Live \subseteq Object
    BY <1>2, Zenon DEF SameObjects, Live
  <1>4. \A o \in Live : objects'[o].request = objects[o].request /\ objects'[o].block = objects[o].block
                        /\ MemoryOf(o)' = MemoryOf(o)
    BY <1>2, <1>3, Zenon DEF SameObjects, MemoryOf
  <1>5. CatalogBlocks' = CatalogBlocks
    BY Zenon DEF CatalogBlocks
  <1>6. ObjectsHeld' /\ BlocksHeld' /\ Shared'
    <2>1. ObjectsHeld'
      BY <1>3, <1>4, <1>5, Zenon DEF CatalogInv, ObjectsHeld
    <2>2. BlocksHeld'
      BY <1>3, <1>4, <1>5, Zenon DEF CatalogInv, BlocksHeld
    <2>3. Shared'
      BY <1>3, <1>4 DEF CatalogInv, Shared
    <2>. QED
      BY <2>1, <2>2, <2>3, Zenon
  <1>7. MemoryThere'
    <2>1. ASSUME NEW o \in Live, phase \in {"running", "draining"} PROVE memory'[MemoryOf(o)'] = "live"
      BY <1>4, <2>1, Zenon DEF CatalogInv, MemoryThere
    <2>2. ASSUME NEW b \in Block, phase \in {"running", "draining"}, memory'[b] = "live"
          PROVE  b \in CatalogBlocks \/ \E c \in Freeing : handler'[c].arg = b
      BY <2>2, Zenon DEF CatalogInv, MemoryThere, SameFreeing
    <2>3. phase \in {"running", "draining"} => \A b \in CatalogBlocks : memory'[b] = "live"
      BY Zenon DEF CatalogInv, MemoryThere
    <2>4. Freeing' = Freeing
      BY Zenon DEF SameFreeing
    <2>. QED
      BY <1>3, <1>5, <2>1, <2>2, <2>3, <2>4, Zenon DEF MemoryThere
  <1>8. FreeingOwns'
    <2>1. \A o \in Object : objects[o] = Released => objects'[o] = Released
      BY NoneDistinct, Zenon DEF SameObjects
    <2>2. Freeing' = Freeing /\ \A c \in Freeing : handler'[c] = handler[c]
      BY Zenon DEF SameFreeing
    <2>. QED
      BY <2>1, <2>2 DEF CatalogInv, FreeingOwns
  <1>9. CleanedUp'
    BY <1>1, Zenon DEF CatalogInv, CleanedUp, SameFreeing
  <1>10. NeverTwice'
    BY Zenon DEF CatalogInv, NeverTwice
  <1>. QED
    BY <1>6, <1>7, <1>8, <1>9, <1>10, Zenon DEF CatalogInv

\* A new lease for an object in the catalog, and the leases after a release.
LEMMA LeasesMade ==
  ASSUME TypeOK, CatalogInv, NEW c \in Client, NEW o \in Object
  PROVE  /\ MakeLease(c, o) =>
               \A l \in Lease : leases'[l] # None /\ leases'[l].state = "Active" =>
                                   leases'[l].object \in Live \cup {o}
         /\ \A l \in Lease : LeasesStaled(o)[l] # None /\ LeasesStaled(o)[l].state = "Active" =>
                                LeasesStaled(o)[l].object \in Live \ {o}
         /\ \A k \in Lease : leases[k] # None /\ leases' = [leases EXCEPT ![k].state = "Closed"] =>
               \A l \in Lease : leases'[l] # None /\ leases'[l].state = "Active" =>
                                   leases'[l].object \in Live
  <1>1. leases \in [Lease -> LeaseRecord \cup {None}]
    BY Zenon DEF TypeOK, CatalogTypeOK
  <1>2. \A l \in Lease : leases[l] # None /\ leases[l].state = "Active" => leases[l].object \in Live
    BY Zenon DEF CatalogInv, LeasesLive
  <1>3. ASSUME MakeLease(c, o), NEW l \in Lease, leases'[l] # None, leases'[l].state = "Active"
        PROVE  leases'[l].object \in Live \cup {o}
    BY <1>1, <1>2, <1>3 DEF MakeLease
  <1>4. ASSUME NEW l \in Lease, LeasesStaled(o)[l] # None, LeasesStaled(o)[l].state = "Active"
        PROVE  LeasesStaled(o)[l].object \in Live \ {o}
    BY <1>1, <1>2, <1>4, Zenon DEF LeasesStaled, LeaseRecord
  <1>5. ASSUME NEW k \in Lease, leases[k] # None, leases' = [leases EXCEPT ![k].state = "Closed"],
               NEW l \in Lease, leases'[l] # None, leases'[l].state = "Active"
        PROVE  leases'[l].object \in Live
    BY <1>1, <1>2, <1>5, Zenon DEF LeaseRecord
  <1>. QED
    BY <1>3, <1>4, <1>5, Zenon


\* A new object, in a block that no object has or with memory of its own.
LEMMA ObjectMade ==
  ASSUME TypeOK, TypeOK', CatalogInv, SameFreeing, phase' = phase, phase \in {"running", "draining"},
         NEW c \in Client, NEW r \in Request, NEW o \in Object, NEW x \in Block \cup {None},
         NewObject(c, r, x, o), find_reusable_object(r) = {},
         IF x = None
         THEN r.medium # "hbm" /\ blocks' = blocks /\ memory' = [memory EXCEPT ![o] = "live"]
         ELSE /\ r.medium = "hbm" /\ ChosenBlock(x, r)
              /\ blocks' = [blocks EXCEPT ![x] = [size |-> BlockSize(x, r), object |-> o]]
              /\ memory' = [memory EXCEPT ![x] = "live"]
  PROVE  CatalogInv'
  <1>. DEFINE m == IF x = None THEN o ELSE x
  <1>1. /\ objects \in [Object -> ObjectRecord \cup {None, Released}]
        /\ blocks \in [Block -> BlockRecord \cup {None, Released}]
        /\ memory \in [Block \cup Object -> {"none", "live", "freed", "leaked", "freed twice"}]
    BY Zenon DEF TypeOK, CatalogTypeOK
  <1>2. /\ objects[o] = None /\ o \notin Live /\ objects[o] # Released
        /\ objects'[o] = [request |-> r, state |-> "Created", block |-> x]
        /\ \A p \in Object \ {o} : objects'[p] = objects[p]
    BY <1>1, NoneDistinct, Zenon DEF NewObject, Live
  <1>3. [request |-> r, state |-> "Created", block |-> x] \in ObjectRecord
    BY NoneDistinct, Zenon DEF ObjectRecord
  <1>4. Live' = Live \cup {o} /\ Live \subseteq Object
    <2>1. objects'[o] \notin {None, Released}
      BY <1>2, <1>3, NoneDistinct, Zenon
    <2>. QED
      BY <1>2, <2>1, Zenon DEF Live
  <1>5. objects'[o].request = r /\ objects'[o].block = x /\ r \in Creation
    BY <1>2, NoneDistinct
  <1>6. m \in Block \cup Object /\ memory' = [memory EXCEPT ![m] = "live"]
    BY NoneDistinct, Zenon
  <1>7. memory'[m] = "live" /\ \A n \in (Block \cup Object) \ {m} : memory'[n] = memory[n]
    BY <1>1, <1>6, Zenon
  <1>7a. \A n \in Block \cup Object : memory[n] = "live" => memory'[n] = "live"
    BY <1>7, Zenon
  <1>8. MemoryOf(o)' = m
    BY <1>5, Zenon DEF MemoryOf
  <1>9. \A p \in Live : objects'[p] = objects[p] /\ MemoryOf(p)' = MemoryOf(p) /\ p # o
    BY <1>2, <1>4, Zenon DEF MemoryOf
  <1>10. ASSUME x # None
         PROVE  /\ x \in Block /\ blocks'[x] = [size |-> BlockSize(x, r), object |-> o]
                /\ blocks'[x].object = o /\ blocks'[x].size >= r.size
                /\ blocks[x] # Released /\ (x \in CatalogBlocks => blocks[x].object = None)
                /\ BlockSize(x, r) \in Nat /\ BlockSize(x, r) >= r.size
                /\ \A b \in Block \ {x} : blocks'[b] = blocks[b]
                /\ CatalogBlocks' = CatalogBlocks \cup {x}
    <2>1. x \in Block /\ ChosenBlock(x, r) /\ r.size \in Nat
      BY <1>5, <1>10, Zenon DEF Creation
    <2>2. blocks[x] # Released /\ (x \in CatalogBlocks => blocks[x].object = None)
      BY <2>1, NoneDistinct, Zenon DEF ChosenBlock, can_hold, CatalogBlocks
    <2>3. blocks[x] = None \/ (blocks[x] \in BlockRecord /\ blocks[x].size >= r.size)
      BY <1>1, <2>1, NoneDistinct, Zenon DEF ChosenBlock, can_hold, CatalogBlocks
    <2>4. BlockSize(x, r) \in Nat /\ BlockSize(x, r) >= r.size
      BY <2>1, <2>3, NoneDistinct DEF BlockSize, BlockRecord
    <2>5. blocks'[x] = [size |-> BlockSize(x, r), object |-> o] /\ \A b \in Block \ {x} : blocks'[b] = blocks[b]
      BY <1>1, <1>10, <2>1, Zenon
    <2>6. [size |-> BlockSize(x, r), object |-> o] \in BlockRecord
      BY <2>4, Zenon DEF BlockRecord
    <2>7. CatalogBlocks' = CatalogBlocks \cup {x}
      BY <2>1, <2>5, <2>6, NoneDistinct, Zenon DEF CatalogBlocks
    <2>8. blocks'[x].object = o /\ blocks'[x].size >= r.size
      BY <2>4, <2>5
    <2>. QED
      BY <2>1, <2>2, <2>4, <2>5, <2>7, <2>8, Zenon
  <1>11. x = None => CatalogBlocks' = CatalogBlocks /\ blocks' = blocks
    BY Zenon DEF CatalogBlocks
  <1>12. CatalogBlocks \subseteq Block
    BY Zenon DEF CatalogBlocks
  <1>. HIDE DEF m
  <1>13. \A p \in Live : objects[p].block # x \/ x = None
    <2>1. ASSUME NEW p \in Live, x # None, objects[p].block = x PROVE FALSE
      <3>1. x \in CatalogBlocks /\ blocks[x].object = p
        BY <2>1, NoneDistinct, Zenon DEF CatalogInv, ObjectsHeld
      <3>. QED
        BY <1>4, <1>10, <2>1, <3>1, NoneDistinct, Zenon
    <2>. QED
      BY <2>1, Zenon
  <1>14. ObjectsHeld'
    <2>1. ASSUME NEW p \in Live
          PROVE  IF objects'[p].request.medium = "hbm"
                 THEN /\ objects'[p].block \in CatalogBlocks' /\ blocks'[objects'[p].block].object = p
                      /\ blocks'[objects'[p].block].size >= objects'[p].request.size
                 ELSE objects'[p].block = None
      <3>1. objects'[p] = objects[p]
        BY <1>9, Zenon
      <3>2. CASE objects[p].request.medium # "hbm"
        BY <3>1, <3>2, Zenon DEF CatalogInv, ObjectsHeld
      <3>3. CASE objects[p].request.medium = "hbm"
        <4>1. /\ objects[p].block \in CatalogBlocks /\ blocks[objects[p].block].object = p
              /\ blocks[objects[p].block].size >= objects[p].request.size
          BY <3>3, Zenon DEF CatalogInv, ObjectsHeld
        <4>2. objects[p].block \in CatalogBlocks' /\ blocks'[objects[p].block] = blocks[objects[p].block]
          BY <1>10, <1>11, <1>12, <1>13, <4>1, Zenon
        <4>. QED
          BY <3>1, <3>3, <4>1, <4>2, Zenon
      <3>. QED
        BY <3>2, <3>3, Zenon
    <2>2. IF r.medium = "hbm"
          THEN x \in CatalogBlocks' /\ blocks'[x].object = o /\ blocks'[x].size >= r.size
          ELSE x = None
      <3>1. x = None => r.medium # "hbm"
        BY Zenon
      <3>2. x # None => /\ r.medium = "hbm" /\ x \in CatalogBlocks \cup {x}
                        /\ CatalogBlocks' = CatalogBlocks \cup {x}
                        /\ blocks'[x].object = o /\ blocks'[x].size >= r.size
        BY <1>10, Zenon
      <3>. QED
        BY <3>1, <3>2, Zenon
    <2>. QED
      BY <1>4, <1>5, <2>1, <2>2, Zenon DEF ObjectsHeld
  <1>15. BlocksHeld'
    <2>1. ASSUME NEW b \in CatalogBlocks', blocks'[b].object # None
          PROVE  blocks'[b].object \in Live' /\ objects'[blocks'[b].object].block = b
      <3>1. CASE b = x
        <4>1. b \in Block
          BY Zenon DEF CatalogBlocks
        <4>2. x # None
          BY <3>1, <4>1, NoneDistinct, Zenon
        <4>3. blocks'[x].object = o
          BY <1>10, <4>2, Zenon
        <4>. QED
          BY <1>4, <1>5, <3>1, <4>3, Zenon
      <3>2. CASE b # x
        <4>1. b \in CatalogBlocks /\ blocks'[b] = blocks[b]
          BY <1>10, <1>11, <1>12, <3>2, Zenon
        <4>2. blocks[b].object \in Live /\ objects[blocks[b].object].block = b
          BY <2>1, <4>1, Zenon DEF CatalogInv, BlocksHeld
        <4>. QED
          BY <1>4, <1>9, <4>1, <4>2, Zenon
      <3>. QED
        BY <3>1, <3>2, Zenon
    <2>. QED
      BY <2>1, Zenon DEF BlocksHeld
  <1>16. LeasesLive'
    <2>1. MakeLease(c, o)
      BY Zenon DEF NewObject
    <2>. QED
      BY <1>4, <2>1, LeasesMade, Zenon DEF LeasesLive
  <1>17. Shared'
    <2>1. ASSUME NEW p \in Live, objects[p].request = r, r.immutable, r.key # None PROVE FALSE
      BY <2>1, Zenon DEF find_reusable_object
    <2>2. \A p, q \in Live : /\ objects'[p].request = objects'[q].request
                             /\ objects'[p].request.immutable /\ objects'[p].request.key # None
                             => p = q
      BY <1>9, Zenon DEF CatalogInv, Shared
    <2>3. \A p \in Live : /\ objects'[p].request = r => ~(r.immutable /\ r.key # None)
      BY <1>9, <2>1, Zenon
    <2>. QED
      BY <1>4, <1>5, <2>2, <2>3, Zenon DEF Shared
  <1>18. MemoryThere'
    <2>1. /\ \A p \in Live : memory[MemoryOf(p)] = "live" /\ MemoryOf(p) \in Block \cup Object
          /\ \A b \in CatalogBlocks : memory[b] = "live"
          /\ \A b \in Block : memory[b] = "live" => b \in CatalogBlocks \/ \E d \in Freeing : handler[d].arg = b
      BY <1>4, <1>12, Zenon DEF CatalogInv, MemoryThere, ObjectsHeld, MemoryOf
    <2>2. \A p \in Live \cup {o} : memory'[MemoryOf(p)'] = "live"
      BY <1>7, <1>7a, <1>8, <1>9, <2>1, Zenon
    <2>3. \A b \in CatalogBlocks' : memory'[b] = "live"
      BY <1>7, <1>10, <1>11, <1>12, <2>1, Zenon DEF m
    <2>4. \A b \in Block : memory'[b] = "live" =>
             b \in CatalogBlocks' \/ \E d \in Freeing : handler'[d].arg = b
      <3>1. ASSUME NEW b \in Block, b # m, memory'[b] = "live"
            PROVE  b \in CatalogBlocks' \/ \E d \in Freeing : handler'[d].arg = b
        BY <1>7, <1>10, <1>11, <2>1, <3>1, Zenon DEF SameFreeing
      <3>2. m \in Block => m \in CatalogBlocks'
        BY <1>10, NoneDistinct, Zenon DEF m
      <3>. QED
        BY <3>1, <3>2, Zenon
    <2>5. Freeing' = Freeing
      BY Zenon DEF SameFreeing
    <2>. QED
      BY <1>4, <2>2, <2>3, <2>4, <2>5, Zenon DEF MemoryThere
  <1>19. FreeingOwns'
    <2>1. Freeing' = Freeing /\ \A d \in Freeing : handler'[d] = handler[d] /\ handler[d].arg \in Block \cup Object
      BY Zenon DEF SameFreeing, Freeing, TypeOK, CatalogTypeOK
    <2>2. ASSUME NEW d \in Freeing
          PROVE  /\ memory'[handler[d].arg] = "live"
                 /\ handler[d].arg \in Block => blocks'[handler[d].arg] = Released
                 /\ handler[d].arg \in Object => objects'[handler[d].arg] = Released
      <3>1. /\ memory[handler[d].arg] = "live"
            /\ handler[d].arg \in Block => blocks[handler[d].arg] = Released
            /\ handler[d].arg \in Object => objects[handler[d].arg] = Released
        BY Zenon DEF CatalogInv, FreeingOwns
      <3>2. memory'[handler[d].arg] = "live"
        BY <1>7, <2>1, <3>1, Zenon
      <3>3. handler[d].arg \in Object => objects'[handler[d].arg] = Released
        BY <1>2, <3>1, Zenon
      <3>4. handler[d].arg \in Block => blocks'[handler[d].arg] = Released
        BY <1>10, <1>11, <3>1, Zenon
      <3>. QED
        BY <3>2, <3>3, <3>4, Zenon
    <2>3. \A d, e \in Freeing : d # e => handler[d].arg # handler[e].arg
      BY Zenon DEF CatalogInv, FreeingOwns
    <2>4. ASSUME NEW d \in Freeing'
          PROVE  /\ memory'[handler'[d].arg] = "live"
                 /\ handler'[d].arg \in Block => blocks'[handler'[d].arg] = Released
                 /\ handler'[d].arg \in Object => objects'[handler'[d].arg] = Released
                 /\ \A e \in Freeing' : d # e => handler'[d].arg # handler'[e].arg
      BY <2>1, <2>2, <2>3, Zenon
    <2>. QED
      BY <2>4, Zenon DEF FreeingOwns
  <1>20. CleanedUp' /\ NeverTwice'
    BY <1>7, Zenon DEF CatalogInv, CleanedUp, NeverTwice
  <1>. QED
    BY <1>14, <1>15, <1>16, <1>17, <1>18, <1>19, <1>20, Zenon DEF CatalogInv


\* export_for_client failed: the block is in the catalog and no object has it.
LEMMA ExportFailed ==
  ASSUME TypeOK, TypeOK', CatalogInv, NEW c \in Client, NEW r \in Request, CreateHbmExportFails(c, r)
  PROVE  CatalogInv'
  <1>1. handler[c].at = "ready" /\ Answers(c)
    BY CatalogMoves, CatalogParts, Zenon
  <1>2. SameFreeing /\ phase \in {"running", "draining"}
    BY <1>1, FreeingStays, StepTypes, Zenon DEF Answers
  <1>3. PICK x \in Block :
           /\ ChosenBlock(x, r)
           /\ blocks' = [blocks EXCEPT ![x] = [size |-> BlockSize(x, r), object |-> None]]
           /\ memory' = [memory EXCEPT ![x] = "live"]
    BY Zenon DEF CreateHbmExportFails
  <1>4. UNCHANGED <<objects, leases, phase>>
    BY Zenon DEF CreateHbmExportFails
  <1>5. /\ blocks \in [Block -> BlockRecord \cup {None, Released}]
        /\ memory \in [Block \cup Object -> {"none", "live", "freed", "leaked", "freed twice"}]
        /\ blocks' \in [Block -> BlockRecord \cup {None, Released}]
    BY Zenon DEF TypeOK, CatalogTypeOK
  <1>6. /\ memory'[x] = "live" /\ \A m \in (Block \cup Object) \ {x} : memory'[m] = memory[m]
        /\ blocks'[x].object = None /\ \A b \in Block \ {x} : blocks'[b] = blocks[b]
    BY <1>3, <1>5, Zenon
  <1>7. blocks[x] # Released /\ (x \in CatalogBlocks => blocks[x].object = None)
    BY <1>3, NoneDistinct, Zenon DEF ChosenBlock, can_hold, CatalogBlocks
  <1>8. CatalogBlocks' = CatalogBlocks \cup {x} /\ CatalogBlocks \subseteq Block
    <2>1. blocks'[x] = [size |-> BlockSize(x, r), object |-> None]
      BY <1>3, <1>5, Zenon
    <2>2. \A y \in {None, Released} : y # blocks'[x]
      <3>1. BlockSize(x, r) \in Nat
        BY <1>3, <1>5, NoneDistinct, Zenon DEF BlockSize, ChosenBlock, can_hold, CatalogBlocks, BlockRecord, Creation
      <3>2. [size |-> BlockSize(x, r), object |-> None] \in BlockRecord
        BY <3>1, Zenon DEF BlockRecord
      <3>. QED
        BY <2>1, <3>2, NoneDistinct, Zenon
    <2>. QED
      BY <1>6, <2>2, Zenon DEF CatalogBlocks
  <1>9. Live' = Live /\ Live \subseteq Object /\ \A o \in Object : MemoryOf(o)' = MemoryOf(o)
    BY <1>4, Zenon DEF Live, MemoryOf
  <1>10. \A o \in Live : objects[o].block # x
    <2>1. ASSUME NEW o \in Live, objects[o].block = x PROVE FALSE
      <3>1. x \in CatalogBlocks /\ blocks[x].object = o
        BY <2>1, NoneDistinct, Zenon DEF CatalogInv, ObjectsHeld
      <3>. QED
        BY <1>7, <1>9, <3>1, NoneDistinct, Zenon
    <2>. QED
      BY <2>1, Zenon
  <1>11. ObjectsHeld'
    BY <1>4, <1>6, <1>8, <1>9, <1>10, Zenon DEF CatalogInv, ObjectsHeld
  <1>12. BlocksHeld'
    BY <1>4, <1>6, <1>8, <1>9, Zenon DEF CatalogInv, BlocksHeld
  <1>13. LeasesLive' /\ Shared'
    BY <1>4, <1>9, Zenon DEF CatalogInv, LeasesLive, Shared
  <1>14. MemoryThere'
    <2>1. /\ \A p \in Live : memory[MemoryOf(p)] = "live" /\ MemoryOf(p) \in Block \cup Object
          /\ \A b \in CatalogBlocks : memory[b] = "live"
          /\ \A b \in Block : memory[b] = "live" => b \in CatalogBlocks \/ \E d \in Freeing : handler[d].arg = b
      BY <1>2, <1>8, <1>9, Zenon DEF CatalogInv, MemoryThere, ObjectsHeld, MemoryOf
    <2>2. \A p \in Live : memory'[MemoryOf(p)'] = "live"
      BY <1>6, <1>9, <2>1, Zenon
    <2>3. \A b \in CatalogBlocks' : memory'[b] = "live"
      BY <1>6, <1>8, <2>1, Zenon
    <2>4. \A b \in Block : memory'[b] = "live" =>
             b \in CatalogBlocks' \/ \E d \in Freeing : handler'[d].arg = b
      BY <1>2, <1>6, <1>8, <2>1, Zenon DEF SameFreeing
    <2>5. Freeing' = Freeing
      BY <1>2, Zenon DEF SameFreeing
    <2>. QED
      BY <1>9, <2>2, <2>3, <2>4, <2>5, Zenon DEF MemoryThere
  <1>15. FreeingOwns'
    <2>1. Freeing' = Freeing /\ \A d \in Freeing : handler'[d] = handler[d] /\ handler[d].arg \in Block \cup Object
      BY <1>2, Zenon DEF SameFreeing, Freeing, TypeOK, CatalogTypeOK
    <2>2. \A d \in Freeing : /\ memory[handler[d].arg] = "live"
                             /\ handler[d].arg \in Block => blocks[handler[d].arg] = Released
      BY Zenon DEF CatalogInv, FreeingOwns
    <2>3. \A d \in Freeing : /\ memory'[handler[d].arg] = "live"
                             /\ handler[d].arg \in Block => blocks'[handler[d].arg] = Released
      BY <1>6, <1>7, <2>1, <2>2, Zenon
    <2>. QED
      BY <1>4, <2>1, <2>3 DEF CatalogInv, FreeingOwns
  <1>16. CleanedUp' /\ NeverTwice'
    BY <1>2, <1>4, <1>6, Zenon DEF CatalogInv, CleanedUp, NeverTwice
  <1>. QED
    BY <1>11, <1>12, <1>13, <1>14, <1>15, <1>16, Zenon DEF CatalogInv

\* A release: the object and its block leave the catalog and the handler that
\* served it is the only one to name their memory.
LEMMA ObjectReleased ==
  ASSUME TypeOK, TypeOK', CatalogInv, NEW c \in Client, NEW o \in Object, release_data_object(c, o)
  PROVE  CatalogInv'
  <1>. DEFINE m == MemoryOf(o)
  <1>1. handler[c].at = "ready" /\ Moved(c, Step("freeing", m))
    BY CatalogMoves, CatalogParts, Zenon
  <1>2. phase \in {"running", "draining"} /\ phase' = phase /\ memory' = memory /\ o \in Live
    BY <1>1, FreeingStays, Zenon DEF release_data_object
  <1>3. /\ objects' = [objects EXCEPT ![o] = Released] /\ blocks' = BlockRemoved(o)
        /\ leases' = LeasesStaled(o)
    BY Zenon DEF release_data_object
  <1>4. objects \in [Object -> ObjectRecord \cup {None, Released}]
    BY Zenon DEF TypeOK, CatalogTypeOK
  <1>5. objects'[o] = Released /\ \A p \in Object \ {o} : objects'[p] = objects[p]
    BY <1>3, <1>4, Zenon
  <1>6. Live' = Live \ {o} /\ Live \subseteq Object
    BY <1>5, Zenon DEF Live
  <1>7. \A b \in Block : blocks'[b] = IF b = objects[o].block THEN Released ELSE blocks[b]
    BY <1>3, Zenon DEF BlockRemoved
  <1>8. CatalogBlocks' = CatalogBlocks \ {objects[o].block} /\ CatalogBlocks \subseteq Block
    BY <1>7, Zenon DEF CatalogBlocks
  <1>9. \/ objects[o].block = None /\ m = o
        \/ m = objects[o].block /\ m \in CatalogBlocks /\ blocks[m].object = o
    BY <1>2, Zenon DEF MemoryOf, CatalogInv, ObjectsHeld
  <1>10. m \in Block \cup Object /\ memory[m] = "live"
    BY <1>2, <1>8, <1>9, Zenon DEF CatalogInv, MemoryThere
  <1>11. /\ m \in Block => blocks'[m] = Released /\ m \in CatalogBlocks
         /\ m \in Object => objects'[m] = Released /\ m \in Live
    BY <1>2, <1>5, <1>7, <1>8, <1>9, NoneDistinct, Zenon
  <1>12. /\ Freeing' = Freeing \cup {c} /\ c \notin Freeing
         /\ handler'[c].arg = m /\ \A d \in Freeing : handler'[d] = handler[d]
    <2>1. \A x : Step("woken", x).at = "woken"
      BY StepTypes, Zenon
    <2>2. handler'[c].at = "freeing" /\ handler'[c].arg = m
      BY <1>1, StepTypes DEF Moved
    <2>3. \A d \in Client \ {c} : (handler'[d].at = "freeing" <=> handler[d].at = "freeing")
                                  /\ (handler[d].at = "freeing" => handler'[d] = handler[d])
      BY <1>1, <2>1, Zenon DEF Moved, Others
    <2>. QED
      BY <1>1, <2>2, <2>3, Zenon DEF Freeing
  <1>. HIDE DEF m
  <1>13. \A p \in Live \ {o} : /\ objects'[p] = objects[p] /\ MemoryOf(p)' = MemoryOf(p)
                               /\ objects[p].block \in Block => objects[p].block # objects[o].block
    <2>1. \A p \in Live \ {o} : objects'[p] = objects[p] /\ MemoryOf(p)' = MemoryOf(p)
      BY <1>5, <1>6, Zenon DEF MemoryOf
    <2>2. ASSUME NEW p \in Live \ {o}, objects[p].block \in Block PROVE objects[p].block # objects[o].block
      BY <1>2, <2>2, NoneDistinct, Zenon DEF CatalogInv, ObjectsHeld
    <2>. QED
      BY <2>1, <2>2, Zenon
  <1>14. ObjectsHeld'
    <2>1. ASSUME NEW p \in Live \ {o}, objects[p].request.medium = "hbm"
          PROVE  /\ objects[p].block \in CatalogBlocks' /\ blocks'[objects[p].block].object = p
                 /\ blocks'[objects[p].block].size >= objects[p].request.size
      <3>1. /\ objects[p].block \in CatalogBlocks /\ blocks[objects[p].block].object = p
            /\ blocks[objects[p].block].size >= objects[p].request.size
        BY <2>1, Zenon DEF CatalogInv, ObjectsHeld
      <3>. QED
        BY <1>7, <1>8, <1>13, <3>1, Zenon
    <2>2. \A p \in Live \ {o} : objects[p].request.medium # "hbm" => objects[p].block = None
      BY Zenon DEF CatalogInv, ObjectsHeld
    <2>. QED
      BY <1>6, <1>13, <2>1, <2>2, Zenon DEF ObjectsHeld
  <1>15. BlocksHeld'
    <2>1. ASSUME NEW b \in CatalogBlocks', blocks'[b].object # None
          PROVE  blocks'[b].object \in Live' /\ objects'[blocks'[b].object].block = b
      <3>1. b \in CatalogBlocks /\ b # objects[o].block /\ blocks'[b] = blocks[b]
        BY <1>7, <1>8, Zenon
      <3>2. blocks[b].object \in Live /\ objects[blocks[b].object].block = b
        BY <2>1, <3>1, Zenon DEF CatalogInv, BlocksHeld
      <3>. QED
        BY <1>6, <1>13, <3>1, <3>2, Zenon
    <2>. QED
      BY <2>1, Zenon DEF BlocksHeld
  <1>16. LeasesLive'
    BY <1>3, <1>6, LeasesMade, Zenon DEF LeasesLive
  <1>17. Shared'
    BY <1>6, <1>13 DEF CatalogInv, Shared
  <1>18. MemoryThere'
    <2>1. /\ \A p \in Live : memory[MemoryOf(p)] = "live"
          /\ \A b \in CatalogBlocks : memory[b] = "live"
          /\ \A b \in Block : memory[b] = "live" => b \in CatalogBlocks \/ \E d \in Freeing : handler[d].arg = b
      BY <1>2, Zenon DEF CatalogInv, MemoryThere
    <2>2. \A p \in Live' : memory'[MemoryOf(p)'] = "live"
      BY <1>2, <1>6, <1>13, <2>1
    <2>3. \A b \in CatalogBlocks' : memory'[b] = "live"
      BY <1>2, <1>8, <2>1, Zenon
    <2>4. ASSUME NEW b \in Block, memory'[b] = "live"
          PROVE  b \in CatalogBlocks' \/ \E d \in Freeing' : handler'[d].arg = b
      <3>1. CASE b \in CatalogBlocks /\ b # objects[o].block
        BY <1>8, <3>1, Zenon
      <3>2. CASE b = objects[o].block
        BY <1>9, <1>12, <3>2, NoneDistinct, Zenon
      <3>3. CASE \E d \in Freeing : handler[d].arg = b
        BY <1>12, <3>3, Zenon
      <3>. QED
        BY <1>2, <2>1, <2>4, <3>1, <3>2, <3>3, Zenon
    <2>. QED
      BY <2>2, <2>3, <2>4, Zenon DEF MemoryThere
  <1>19. FreeingOwns'
    <2>1. \A d \in Freeing : /\ memory[handler[d].arg] = "live"
                             /\ handler[d].arg \in Block => blocks[handler[d].arg] = Released
                             /\ handler[d].arg \in Object => objects[handler[d].arg] = Released
                             /\ \A e \in Freeing : d # e => handler[d].arg # handler[e].arg
      BY Zenon DEF CatalogInv, FreeingOwns
    <2>2. \A d \in Freeing : handler[d].arg # m
      <3>1. m \in Block => blocks[m] # Released
        BY <1>11, Zenon DEF CatalogBlocks
      <3>2. m \in Object => objects[m] # Released
        BY <1>11, Zenon DEF Live
      <3>. QED
        BY <1>10, <2>1, <3>1, <3>2, Zenon
    <2>3. \A d \in Freeing : /\ handler[d].arg \in Block => blocks'[handler[d].arg] = Released
                             /\ handler[d].arg \in Object => objects'[handler[d].arg] = Released
      BY <1>5, <1>7, <2>1, Zenon
    <2>4. ASSUME NEW d \in Freeing'
          PROVE  /\ memory'[handler'[d].arg] = "live"
                 /\ handler'[d].arg \in Block => blocks'[handler'[d].arg] = Released
                 /\ handler'[d].arg \in Object => objects'[handler'[d].arg] = Released
      <3>1. CASE d = c
        BY <1>2, <1>10, <1>11, <1>12, <3>1, Zenon
      <3>2. CASE d # c
        BY <1>2, <1>12, <2>1, <2>3, <3>2, Zenon
      <3>. QED
        BY <3>1, <3>2, Zenon
    <2>5. \A d, e \in Freeing' : d # e => handler'[d].arg # handler'[e].arg
      BY <1>12, <2>1, <2>2
    <2>. QED
      BY <2>4, <2>5, Zenon DEF FreeingOwns
  <1>20. CleanedUp' /\ NeverTwice'
    BY <1>2, Zenon DEF CatalogInv, CleanedUp, NeverTwice
  <1>. QED
    BY <1>14, <1>15, <1>16, <1>17, <1>18, <1>19, <1>20, Zenon DEF CatalogInv


\* A free: the memory goes and nobody else names it.
LEMMA MemoryFreed ==
  ASSUME TypeOK, TypeOK', CatalogInv, NEW c \in Client, Free(c)
  PROVE  CatalogInv'
  <1>. DEFINE m == handler[c].arg
  <1>1. handler[c].at = "freeing" /\ c \in Freeing /\ Answers(c)
    BY CatalogMoves, CatalogParts, Zenon DEF Freeing
  <1>2. m \in Block \cup Object
    BY <1>1, Zenon DEF TypeOK, CatalogTypeOK
  <1>3. /\ memory[m] = "live"
        /\ m \in Block => blocks[m] = Released
        /\ m \in Object => objects[m] = Released
        /\ \A d \in Freeing : d # c => handler[d].arg # m
    BY <1>1, Zenon DEF CatalogInv, FreeingOwns
  <1>4. UNCHANGED <<objects, blocks, leases, phase>> /\ phase \in {"running", "draining"}
    BY <1>1, FreeingStays, Zenon DEF Free
  <1>5. memory \in [Block \cup Object -> {"none", "live", "freed", "leaked", "freed twice"}]
    BY Zenon DEF TypeOK, CatalogTypeOK
  <1>6. PICK outcome \in Freed(m) : memory' = [memory EXCEPT ![m] = outcome]
    BY Zenon DEF Free
  <1>7. outcome \in {"freed", "leaked"}
    BY <1>3, <1>6, Zenon DEF Freed
  <1>8. memory'[m] \in {"freed", "leaked"} /\ \A n \in (Block \cup Object) \ {m} : memory'[n] = memory[n]
    BY <1>2, <1>5, <1>6, <1>7, Zenon
  <1>8a. \A n \in Block \cup Object : n # m => memory'[n] = memory[n]
    BY <1>8, Zenon
  <1>9. /\ Freeing' = Freeing \ {c} /\ Freeing \subseteq Client
        /\ \A d \in Freeing \ {c} : handler'[d] = handler[d] /\ handler[d].arg \in Block \cup Object
    <2>1. \A x : Step("woken", x).at = "woken"
      BY StepTypes, Zenon
    <2>2. handler'[c].at # "freeing"
      BY <1>1, StepTypes, Zenon DEF Answers, Moved
    <2>3. \A d \in Client \ {c} : (handler'[d].at = "freeing" <=> handler[d].at = "freeing")
                                  /\ (handler[d].at = "freeing" => handler'[d] = handler[d])
      BY <1>1, <2>1, Zenon DEF Answers, Moved, Others
    <2>4. \A d \in Freeing : handler[d].arg \in Block \cup Object
      BY Zenon DEF TypeOK, CatalogTypeOK, Freeing
    <2>. QED
      BY <2>2, <2>3, <2>4, Zenon DEF Freeing
  <1>10. Live' = Live /\ CatalogBlocks' = CatalogBlocks /\ \A o \in Object : MemoryOf(o)' = MemoryOf(o)
    BY <1>4, Zenon DEF Live, CatalogBlocks, MemoryOf
  <1>. HIDE DEF m
  <1>11. /\ \A b \in CatalogBlocks : b \in Block /\ b # m
         /\ \A o \in Live : o \in Object /\ o # m
    BY <1>3, Zenon DEF CatalogBlocks, Live
  <1>12. ObjectsHeld' /\ BlocksHeld' /\ LeasesLive' /\ Shared'
    BY <1>4, <1>10, Zenon DEF CatalogInv, ObjectsHeld, BlocksHeld, LeasesLive, Shared
  <1>13. MemoryThere'
    <2>1. /\ \A p \in Live : memory[MemoryOf(p)] = "live" /\ (MemoryOf(p) = p \/ MemoryOf(p) \in CatalogBlocks)
          /\ \A b \in CatalogBlocks : memory[b] = "live"
          /\ \A b \in Block : memory[b] = "live" => b \in CatalogBlocks \/ \E d \in Freeing : handler[d].arg = b
      BY <1>4, Zenon DEF CatalogInv, MemoryThere, ObjectsHeld, MemoryOf
    <2>2. \A p \in Live : memory'[MemoryOf(p)'] = "live"
      <3>1. \A p \in Live : /\ MemoryOf(p)' = MemoryOf(p) /\ MemoryOf(p) # m
                            /\ MemoryOf(p) \in Block \cup Object
        BY <1>10, <1>11, <2>1, Zenon
      <3>. QED
        BY <1>8a, <2>1, <3>1, Zenon
    <2>3. \A b \in CatalogBlocks : memory'[b] = "live"
      BY <1>8a, <1>11, <2>1, Zenon
    <2>4. ASSUME NEW b \in Block, memory'[b] = "live"
          PROVE  b \in CatalogBlocks \/ \E d \in Freeing' : handler'[d].arg = b
      <3>1. b # m /\ memory[b] = "live"
        BY <1>8, <2>4, Zenon
      <3>. QED
        BY <1>9, <2>1, <3>1, Zenon DEF m
    <2>. QED
      BY <1>10, <2>2, <2>3, <2>4, Zenon DEF MemoryThere
  <1>14. FreeingOwns'
    <2>1. \A d \in Freeing \ {c} : /\ memory[handler[d].arg] = "live"
                                   /\ handler[d].arg \in Block => blocks[handler[d].arg] = Released
                                   /\ handler[d].arg \in Object => objects[handler[d].arg] = Released
                                   /\ \A e \in Freeing : d # e => handler[d].arg # handler[e].arg
      BY Zenon DEF CatalogInv, FreeingOwns
    <2>2. \A d \in Freeing \ {c} : memory'[handler[d].arg] = "live"
      BY <1>3, <1>8, <1>9, <2>1, Zenon
    <2>. QED
      BY <1>4, <1>9, <2>1, <2>2 DEF FreeingOwns
  <1>15. CleanedUp' /\ NeverTwice'
    <2>1. CleanedUp'
      BY <1>4, Zenon DEF CleanedUp
    <2>2. NeverTwice'
      BY <1>8, Zenon DEF CatalogInv, NeverTwice
    <2>. QED
      BY <2>1, <2>2, Zenon
  <1>. QED
    BY <1>12, <1>13, <1>14, <1>15, Zenon DEF CatalogInv

\* The cleanup: every handler has left, so the blocks in the catalog are all that is there.
LEMMA BlocksCleaned ==
  ASSUME TypeOK, TypeOK', CatalogInv, cleanup_blocks
  PROVE  CatalogInv'
  <1>1. /\ phase = "draining" /\ phase' = "cleaned" /\ UNCHANGED <<objects, blocks, leases, handler>>
        /\ \A c \in Client : handler[c] = Exited
    BY Zenon DEF cleanup_blocks, join_control_handlers
  <1>2. Freeing = {} /\ Freeing' = {}
    BY <1>1, StepTypes, Zenon DEF Freeing
  <1>3. Live' = Live /\ CatalogBlocks' = CatalogBlocks
    BY <1>1, Zenon DEF Live, CatalogBlocks
  <1>4. memory \in [Block \cup Object -> {"none", "live", "freed", "leaked", "freed twice"}]
        /\ CatalogBlocks \subseteq Block
    BY Zenon DEF TypeOK, CatalogTypeOK, CatalogBlocks
  <1>5. PICK outcome \in [CatalogBlocks -> {"freed", "leaked", "freed twice"}] :
           /\ \A b \in CatalogBlocks : outcome[b] \in Freed(b)
           /\ memory' = [m \in DOMAIN memory |-> IF m \in CatalogBlocks THEN outcome[m] ELSE memory[m]]
    BY Zenon DEF cleanup_blocks, BlocksToFree
  <1>6. \A b \in CatalogBlocks : memory[b] = "live"
    BY <1>1, Zenon DEF CatalogInv, MemoryThere
  <1>7. \A b \in CatalogBlocks : memory'[b] \in {"freed", "leaked"}
    BY <1>4, <1>5, <1>6, Zenon DEF Freed
  <1>8. \A m \in (Block \cup Object) \ CatalogBlocks : memory'[m] = memory[m]
    BY <1>4, <1>5, Zenon
  <1>9. \A b \in Block \ CatalogBlocks : memory[b] # "live"
    BY <1>1, <1>2, Zenon DEF CatalogInv, MemoryThere
  <1>10. ObjectsHeld' /\ BlocksHeld' /\ LeasesLive' /\ Shared'
    BY <1>1, <1>3, Zenon DEF CatalogInv, ObjectsHeld, BlocksHeld, LeasesLive, Shared
  <1>11. MemoryThere' /\ FreeingOwns'
    BY <1>1, <1>2, Zenon DEF MemoryThere, FreeingOwns
  <1>12. CleanedUp'
    BY <1>1, <1>7, <1>8, <1>9, Zenon DEF CleanedUp
  <1>13. NeverTwice'
    BY <1>7, <1>8, Zenon DEF CatalogInv, NeverTwice
  <1>. QED
    BY <1>10, <1>11, <1>12, <1>13, Zenon DEF CatalogInv

=============================================================================
