-------------------------- MODULE TransfersProofs --------------------------
(***************************************************************************)
(* Proofs about Transfers: every transfer that ends has exactly one        *)
(* outcome, recorded by the one thread that ended it.  The theorems about  *)
(* the catalog and about transfers follow from one inductive invariant.    *)
(***************************************************************************)
EXTENDS ObjectCatalogProofs, FiniteSetTheorems

\* Every step keeps the catalog and its memory as they should be.
LEMMA NextCatalog ==
  ASSUME TypeOK, TypeOK', NamesFit, CatalogInv, Next
  PROVE  CatalogInv'
  <1>0. CatalogConsistent
    BY CatalogParts, Zenon
  <1>1. objects' = objects => SameObjects
    BY Zenon DEF SameObjects
  <1>2. UNCHANGED <<objects, leases>> => LeasesLive'
    BY Zenon DEF CatalogInv, LeasesLive, Live
  <1>3. ASSUME NEW c \in Client, handler[c].at \notin {"freeing", "exited"},
               Answers(c) \/ (\E s : Moved(c, s) /\ s.at # "freeing")
        PROVE  SameFreeing /\ phase \in {"running", "draining"}
    <2>1. \E s : Moved(c, s) /\ s.at # "freeing"
      BY <1>3, StepTypes, Zenon DEF Answers
    <2>. QED
      BY <1>3, <2>1, FreeingStays, Zenon
  <1>4. SameObjects => Live' = Live
    <2>1. \A o \in Object : o \in Live <=> objects[o] \in ObjectRecord
      BY LiveIs, Zenon
    <2>2. \A o \in Object : o \in Live' <=> objects'[o] \in ObjectRecord
      BY NoneDistinct, Zenon DEF TypeOK, CatalogTypeOK, Live
    <2>. QED
      BY <2>1, <2>2, Zenon DEF SameObjects, Live
  <1>5. SameObjects /\ leases' = leases => LeasesLive'
    BY <1>4, Zenon DEF CatalogInv, LeasesLive
  <1>6. ASSUME CatalogStep PROVE CatalogInv'
    <2>1. ASSUME NEW c \in Client, NEW r \in Request, Reuse(c, r) PROVE CatalogInv'
      <3>1. SameFreeing
        BY <1>0, <1>3, <2>1, CatalogMoves, Zenon
      <3>2. UNCHANGED <<objects, blocks, memory, phase>>
        BY <2>1, Zenon DEF Reuse
      <3>3. PICK o \in Live : MakeLease(c, o)
        BY <2>1, Zenon DEF Reuse, find_reusable_object
      <3>4. o \in Object /\ Live' = Live
        BY <1>1, <1>4, <3>2, Zenon DEF Live
      <3>5. LeasesLive'
        BY <3>3, <3>4, LeasesMade DEF LeasesLive
      <3>. QED
        BY <1>1, <3>1, <3>2, <3>5, CatalogFrame, Zenon
    <2>2. ASSUME NEW c \in Client, NEW r \in Request, CreateDdrOrSsd(c, r) PROVE CatalogInv'
      <3>1. SameFreeing /\ phase \in {"running", "draining"}
        BY <1>0, <1>3, <2>2, CatalogMoves, Zenon
      <3>2. PICK o \in Object : NewObject(c, r, None, o) /\ memory' = [memory EXCEPT ![o] = "live"]
        BY <2>2, Zenon DEF CreateDdrOrSsd
      <3>3. r.medium # "hbm" /\ find_reusable_object(r) = {} /\ UNCHANGED <<blocks, phase>>
        BY <2>2, Zenon DEF CreateDdrOrSsd
      <3>. QED
        BY <3>1, <3>2, <3>3, ObjectMade, Zenon
    <2>3. ASSUME NEW c \in Client, NEW r \in Request, CreateHbm(c, r) PROVE CatalogInv'
      <3>1. SameFreeing /\ phase \in {"running", "draining"}
        BY <1>0, <1>3, <2>3, CatalogMoves, Zenon
      <3>2. PICK b \in Block, o \in Object :
               /\ ChosenBlock(b, r) /\ NewObject(c, r, b, o)
               /\ blocks' = [blocks EXCEPT ![b] = [size |-> BlockSize(b, r), object |-> o]]
               /\ memory' = [memory EXCEPT ![b] = "live"]
        BY <2>3, Zenon DEF CreateHbm
      <3>3. r.medium = "hbm" /\ find_reusable_object(r) = {} /\ phase' = phase
        BY <2>3, Zenon DEF CreateHbm
      <3>4. b # None
        BY NoneDistinct, Zenon
      <3>. QED
        BY <3>1, <3>2, <3>3, <3>4, ObjectMade, Zenon
    <2>4. ASSUME NEW c \in Client, NEW o \in Object, open_data_object(c, o) PROVE CatalogInv'
      <3>1. SameFreeing
        BY <1>0, <1>3, <2>4, CatalogMoves, Zenon
      <3>2. UNCHANGED <<objects, blocks, memory, phase>> /\ MakeLease(c, o) /\ o \in Live
        BY <2>4, Zenon DEF open_data_object
      <3>3. LeasesLive'
        BY <1>1, <1>4, <3>2, LeasesMade DEF LeasesLive
      <3>. QED
        BY <1>1, <3>1, <3>2, <3>3, CatalogFrame, Zenon
    <2>5. ASSUME NEW c \in Client, NEW o \in Object, NEW st \in {"Ready", "Modified"}, Mark(c, o, st)
          PROVE  CatalogInv'
      <3>1. SameFreeing
        BY <1>0, <1>3, <2>5, CatalogMoves, Zenon
      <3>2. o \in Live /\ objects' = [objects EXCEPT ![o].state = st] /\ UNCHANGED <<blocks, leases, memory, phase>>
        BY <2>5, Zenon DEF Mark
      <3>3. objects[o] \in ObjectRecord
        BY <3>2, LiveIs, Zenon
      <3>4. SameObjects
        <4>1. /\ objects'[o] \in ObjectRecord
              /\ objects'[o].request = objects[o].request /\ objects'[o].block = objects[o].block
              /\ \A p \in Object \ {o} : objects'[p] = objects[p]
          BY <3>2, StateSet, Zenon
        <4>. QED
          BY <3>3, <4>1, Zenon DEF SameObjects
      <3>. QED
        BY <1>5, <3>1, <3>2, <3>4, CatalogFrame, Zenon
    <2>6. ASSUME NEW c \in Client, NEW l \in Lease, close_lease(c, l) PROVE CatalogInv'
      <3>1. SameFreeing
        BY <1>0, <1>3, <2>6, CatalogMoves, Zenon
      <3>2. UNCHANGED <<objects, blocks, memory, phase>> /\ leases[l] # None
            /\ leases' = [leases EXCEPT ![l].state = "Closed"]
        BY <2>6, Zenon DEF close_lease
      <3>3. leases[l].object \in Object
        BY <3>2, Zenon DEF TypeOK, CatalogTypeOK, LeaseRecord
      <3>4. \A k \in Lease : leases'[k] # None /\ leases'[k].state = "Active" => leases'[k].object \in Live
        BY <3>2, <3>3, LeasesMade, Zenon
      <3>5. LeasesLive'
        BY <1>1, <1>4, <3>2, <3>4, Zenon DEF LeasesLive
      <3>. QED
        BY <1>1, <3>1, <3>2, <3>5, CatalogFrame, Zenon
    <2>7. ASSUME NEW c \in Client, shutdown_daemon(c) \/ HandlerExits(c) PROVE CatalogInv'
      <3>1. handler[c].at = "ready" /\ Moved(c, Exited) /\ Exited.at # "freeing"
        BY <1>0, <2>7, CatalogMoves, StepAt, Zenon
      <3>2. SameFreeing
        BY <1>3, <3>1, Zenon
      <3>3. UNCHANGED <<objects, blocks, leases, memory>>
            /\ (phase' = phase \/ (phase = "running" /\ phase' = "draining"))
        BY <2>7, Zenon DEF shutdown_daemon, HandlerExits
      <3>. QED
        BY <1>1, <1>2, <3>2, <3>3, CatalogFrame, Zenon
    <2>8. ASSUME AcceptError \/ ProcessExits PROVE CatalogInv'
      <3>1. SameFreeing
        BY <2>8, QuietMoves, FreeingStays, Zenon DEF ProcessExits
      <3>2. UNCHANGED <<objects, blocks, leases, memory>>
            /\ \/ phase = "running" /\ phase' = "draining"
               \/ phase = "cleaned" /\ phase' = "gone"
        BY <2>8, Zenon DEF AcceptError, ProcessExits
      <3>. QED
        BY <1>1, <1>2, <3>1, <3>2, CatalogFrame, Zenon
    <2>. QED
      BY <1>6, <2>1, <2>2, <2>3, <2>4, <2>5, <2>6, <2>7, <2>8, ExportFailed, ObjectReleased, MemoryFreed,
         BlocksCleaned, Zenon DEF CatalogStep, CatalogNext, ClientStep
  <1>7. ASSUME NEW c \in Client, \E src, dst \in Object, e \in Event : submit_transfer(c, src, dst, e)
        PROVE  CatalogInv'
    <2>1. PICK src \in Object, dst \in Object, e \in Event : submit_transfer(c, src, dst, e)
      BY <1>7, Zenon
    <2>2. \E s : Moved(c, s) /\ s.at # "freeing"
      <3>1. Recording(e, "complete").at # "freeing" /\ Step("enqueueing", e).at # "freeing"
        BY StepTypes DEF Terminal
      <3>. QED
        BY <2>1, <3>1, TransferMoves, Zenon
    <2>3. SameFreeing
      BY <1>3, <2>1, <2>2, TransferMoves, Zenon
    <2>4. UNCHANGED <<objects, blocks, leases, memory, phase>>
      BY <2>1, Zenon DEF submit_transfer
    <2>. QED
      BY <1>1, <1>2, <2>3, <2>4, CatalogFrame, Zenon
  <1>8. ASSUME NEW c \in Client, NEW e \in Event, cancel_event(c, e) PROVE CatalogInv'
    <2>1. SameFreeing
      <3>1. handler[c].at = "ready" /\ Moved(c, Recording(e, "cancelled"))
        BY <1>8, TransferMoves, Zenon
      <3>2. Recording(e, "cancelled").at = "recording"
        BY StepAt, Zenon DEF Recording
      <3>. QED
        BY <1>3, <3>1, <3>2, Zenon
    <2>2. UNCHANGED <<objects, blocks, leases, memory, phase>>
      BY <1>8, Zenon DEF cancel_event
    <2>. QED
      BY <1>1, <1>2, <2>1, <2>2, CatalogFrame, Zenon
  <1>9. ASSUME NEW c \in Client, NEW e \in Event, wait_event(c, e) PROVE CatalogInv'
    <2>1. SameFreeing
      <3>1. handler[c].at = "ready" /\ Moved(c, Step("waiting", e))
        BY <1>9, TransferMoves, Zenon
      <3>. QED
        BY <1>3, <3>1, StepAt
    <2>2. UNCHANGED <<objects, blocks, leases, memory, phase>>
      BY <1>9, Zenon DEF wait_event
    <2>. QED
      BY <1>1, <1>2, <2>1, <2>2, CatalogFrame, Zenon
  <1>10. ASSUME NEW c \in Client,
                \/ Enqueue(c)
                \/ HandlerRecords(c)
                \/ WaitTimesOut(c)
         PROVE  CatalogInv'
    <2>1. SameFreeing
      BY <1>3, <1>10, TransferMoves, Zenon
    <2>2. UNCHANGED <<objects, blocks, leases, memory, phase>>
      BY <1>10, Zenon DEF Enqueue, HandlerRecords, WaitTimesOut
    <2>. QED
      BY <1>1, <1>2, <2>1, <2>2, CatalogFrame, Zenon
  <1>11. ASSUME NEW c \in Client, WaitResumes(c) PROVE CatalogInv'
    <2>1. SameFreeing
      <3>1. handler[c].at = "woken" /\ (Moved(c, Step("waiting", handler[c].arg)) \/ Answers(c))
        BY <1>11, TransferMoves, Zenon
      <3>. QED
        BY <1>3, <3>1, StepAt
    <2>2. UNCHANGED <<objects, blocks, leases, memory, phase>>
      BY <1>11, Zenon DEF WaitResumes
    <2>. QED
      BY <1>1, <1>2, <2>1, <2>2, CatalogFrame, Zenon
  <1>12. ASSUME NEW e \in Event, events[e] # None, NEW st \in {"complete", "failed"}, finish_transfer_event(e, st)
         PROVE  SameObjects
    BY <1>12, FinishTypes, Zenon DEF SameObjects
  <1>13. ASSUME NEW c \in Client, EnqueueFails(c) PROVE CatalogInv'
    <2>1. handler[c].arg \in Event /\ events[handler[c].arg] # None
      BY <1>13, TransferMoves, Zenon DEF NamesFit
    <2>2. SameObjects
      BY <1>12, <1>13, <2>1, Zenon DEF EnqueueFails
    <2>3. SameFreeing
      <3>1. handler[c].at = "enqueueing" /\ (Moved(c, Recording(handler[c].arg, "failed")) \/ Answers(c))
        BY <1>13, TransferMoves, Zenon
      <3>2. Recording(handler[c].arg, "failed").at = "recording"
        BY StepAt, Zenon DEF Recording
      <3>. QED
        BY <1>3, <3>1, <3>2, StepAt, Zenon
    <2>4. UNCHANGED <<blocks, leases, memory, phase>>
      BY <1>13, Zenon DEF EnqueueFails
    <2>. QED
      BY <1>5, <2>2, <2>3, <2>4, CatalogFrame, Zenon
  <1>14. ASSUME NEW w \in Worker, Works(w) PROVE CatalogInv'
    <2>1. SameFreeing
      BY <1>14, QuietMoves, FreeingStays, Zenon
    <2>2. CASE Take(w) \/ WorkerRecords(w)
      <3>1. UNCHANGED <<objects, blocks, leases, memory, phase>>
        BY <2>2, Zenon DEF Take, WorkerRecords, catalogVars
      <3>. QED
        BY <1>1, <1>2, <2>1, <3>1, CatalogFrame, Zenon
    <2>3. CASE FinishCopy(w)
      <3>1. worker[w].arg \in Event /\ events[worker[w].arg] # None
        BY <2>3, Zenon DEF FinishCopy, NamesFit
      <3>2. PICK st \in CopyOutcome(worker[w].arg) : finish_transfer_event(worker[w].arg, st)
        BY <2>3, Zenon DEF FinishCopy
      <3>3. st \in {"complete", "failed"}
        BY Zenon DEF CopyOutcome
      <3>4. SameObjects
        BY <1>12, <3>1, <3>2, <3>3, Zenon
      <3>5. UNCHANGED <<blocks, leases, memory, phase>>
        BY <2>3, Zenon DEF FinishCopy
      <3>. QED
        BY <1>5, <2>1, <3>4, <3>5, CatalogFrame, Zenon
    <2>. QED
      BY <1>14, <2>2, <2>3, Zenon DEF Works
  <1>. QED
    BY <1>6, <1>7, <1>8, <1>9, <1>10, <1>11, <1>13, <1>14, Zenon DEF Next

-----------------------------------------------------------------------------
\* Outcomes.  The outcome of one event.
OutcomeAt(e) ==
    \/ ~Ended(e) /\ outcomes[e] = <<>> /\ Unrecorded(e, handler) = {} /\ Unrecorded(e, worker) = {}
    \/ /\ Ended(e)
       /\ \/ /\ outcomes[e] = <<events[e].status>>
             /\ Unrecorded(e, handler) = {} /\ Unrecorded(e, worker) = {}
          \/ /\ outcomes[e] = <<>> /\ Unrecorded(e, worker) = {}
             /\ \E c \in Client : Unrecorded(e, handler) = {c} /\ handler[c].arg.status = events[e].status
          \/ /\ outcomes[e] = <<>> /\ Unrecorded(e, handler) = {}
             /\ \E w \in Worker : Unrecorded(e, worker) = {w} /\ worker[w].arg.status = events[e].status

\* The threads that have still to record the end of e are the same.
SameRecorders(e) ==
    /\ Unrecorded(e, handler') = Unrecorded(e, handler)
    /\ \A c \in Unrecorded(e, handler) : handler'[c] = handler[c]
    /\ Unrecorded(e, worker') = Unrecorded(e, worker)
    /\ \A w \in Unrecorded(e, worker) : worker'[w] = worker[w]

\* The status of e, and what was recorded of it, are the same.
SameEnd(e) ==
    /\ Ended(e)' <=> Ended(e)
    /\ Ended(e) => events'[e].status = events[e].status
    /\ outcomes'[e] = outcomes[e]

\* Then its outcome is.
LEMMA OutcomeFrame ==
  ASSUME NEW e \in Event, OutcomeAt(e), SameRecorders(e), SameEnd(e)
  PROVE  OutcomeAt(e)'
  <1>1. CASE ~Ended(e)
    BY <1>1, Zenon DEF OutcomeAt, SameRecorders, SameEnd
  <1>2. CASE Ended(e)
    <2>1. /\ Ended(e)' /\ events'[e].status = events[e].status /\ outcomes'[e] = outcomes[e]
          /\ Unrecorded(e, handler') = Unrecorded(e, handler)
          /\ Unrecorded(e, worker') = Unrecorded(e, worker)
      BY <1>2, Zenon DEF SameRecorders, SameEnd
    <2>2. CASE /\ outcomes[e] = <<events[e].status>>
               /\ Unrecorded(e, handler) = {} /\ Unrecorded(e, worker) = {}
      BY <2>1, <2>2, Zenon DEF OutcomeAt
    <2>3. ASSUME NEW c \in Client, Unrecorded(e, handler) = {c}, handler[c].arg.status = events[e].status,
                 outcomes[e] = <<>>, Unrecorded(e, worker) = {}
          PROVE  OutcomeAt(e)'
      <3>1. handler'[c].arg.status = events'[e].status
        BY <2>1, <2>3, Zenon DEF SameRecorders
      <3>. QED
        BY <2>1, <2>3, <3>1, Zenon DEF OutcomeAt
    <2>4. ASSUME NEW w \in Worker, Unrecorded(e, worker) = {w}, worker[w].arg.status = events[e].status,
                 outcomes[e] = <<>>, Unrecorded(e, handler) = {}
          PROVE  OutcomeAt(e)'
      <3>1. worker'[w].arg.status = events'[e].status
        BY <2>1, <2>4, Zenon DEF SameRecorders
      <3>. QED
        BY <2>1, <2>4, <3>1, Zenon DEF OutcomeAt
    <2>. QED
      BY <1>2, <2>2, <2>3, <2>4, Zenon DEF OutcomeAt
  <1>. QED
    BY <1>1, <1>2, Zenon

\* What Unrecorded selects.
LEMMA UnrecordedIs ==
  /\ TypeOK => \A e : /\ Unrecorded(e, handler) =
                            {c \in Client : handler[c].at = "recording" /\ handler[c].arg.event = e}
                      /\ Unrecorded(e, worker) =
                            {w \in Worker : worker[w] # None /\ worker[w].at = "recording" /\ worker[w].arg.event = e}
  /\ TypeOK' => \A e : /\ Unrecorded(e, handler') =
                             {c \in Client : handler'[c].at = "recording" /\ handler'[c].arg.event = e}
                       /\ Unrecorded(e, worker') =
                             {w \in Worker : worker'[w] # None /\ worker'[w].at = "recording" /\ worker'[w].arg.event = e}
  <1>1. ASSUME NEW h, NEW v, h \in [Client -> HandlerStep], v \in [Worker -> WorkerStep \cup {None}], NEW e
        PROVE  /\ Unrecorded(e, h) = {c \in Client : h[c].at = "recording" /\ h[c].arg.event = e}
               /\ Unrecorded(e, v) = {w \in Worker : v[w] # None /\ v[w].at = "recording" /\ v[w].arg.event = e}
    <2>1. \A c \in Client : h[c] # None
      BY <1>1, NoneDistinct, Zenon
    <2>2. DOMAIN h = Client /\ DOMAIN v = Worker
      BY <1>1, Zenon
    <2>. QED
      BY <2>1, <2>2, Zenon DEF Unrecorded
  <1>. QED
    BY <1>1 DEF TypeOK

\* How a step of a handler changes who has still to record.
LEMMA HandlerRecorders ==
  ASSUME TypeOK, TypeOK', worker' = worker
  PROVE  /\ Quiet => \A e \in Event : SameRecorders(e)
         /\ \A c \in Client : \A s : Moved(c, s) /\ handler[c].at # "recording" /\ s.at # "recording"
               => \A e \in Event : SameRecorders(e)
         /\ \A c \in Client, e \in Event, st \in Terminal :
               Moved(c, Recording(e, st)) /\ handler[c].at # "recording" =>
                  /\ \A f \in Event \ {e} : SameRecorders(f)
                  /\ Unrecorded(e, handler') = Unrecorded(e, handler) \cup {c}
                  /\ handler'[c].arg.status = st
         /\ \A c \in Client : \A s : Moved(c, s) /\ handler[c].at = "recording" /\ s.at # "recording" =>
               /\ \A f \in Event \ {handler[c].arg.event} : SameRecorders(f)
               /\ Unrecorded(handler[c].arg.event, handler') = Unrecorded(handler[c].arg.event, handler) \ {c}
  <1>1. \A e : /\ Unrecorded(e, handler) = {c \in Client : handler[c].at = "recording" /\ handler[c].arg.event = e}
               /\ Unrecorded(e, handler') = {c \in Client : handler'[c].at = "recording" /\ handler'[c].arg.event = e}
    BY UnrecordedIs, Zenon
  <1>2. \A x : Step("woken", x).at = "woken"
    BY StepTypes, Zenon
  <1>3. ASSUME NEW e,
               \A d \in Client : /\ (handler'[d].at = "recording" /\ handler'[d].arg.event = e)
                                       <=> (handler[d].at = "recording" /\ handler[d].arg.event = e)
                                 /\ (handler[d].at = "recording" /\ handler[d].arg.event = e) => handler'[d] = handler[d]
        PROVE  SameRecorders(e)
    BY <1>1, <1>3, ZenonT(60) DEF SameRecorders
  <1>4. ASSUME Quiet PROVE \A e \in Event : SameRecorders(e)
    <2>1. \A d \in Client : (handler'[d].at = "recording" <=> handler[d].at = "recording")
                            /\ (handler[d].at = "recording" => handler'[d] = handler[d])
      BY <1>2, <1>4, Zenon DEF Quiet
    <2>. QED
      BY <1>3, <2>1, Zenon
  <1>5. ASSUME NEW c \in Client, NEW s, Moved(c, s)
        PROVE  /\ handler'[c] = s
               /\ \A d \in Client \ {c} : (handler'[d].at = "recording" <=> handler[d].at = "recording")
                                          /\ (handler[d].at = "recording" => handler'[d] = handler[d])
    BY <1>2, <1>5, Zenon DEF Moved, Others
  <1>6. ASSUME NEW c \in Client, NEW s, Moved(c, s), handler[c].at # "recording", s.at # "recording"
        PROVE  \A e \in Event : SameRecorders(e)
    BY <1>3, <1>5, <1>6, Zenon
  <1>7. ASSUME NEW c \in Client, NEW e \in Event, NEW st \in Terminal, Moved(c, Recording(e, st)),
               handler[c].at # "recording"
        PROVE  /\ \A f \in Event \ {e} : SameRecorders(f)
               /\ Unrecorded(e, handler') = Unrecorded(e, handler) \cup {c}
               /\ handler'[c].arg.status = st
    <2>1. handler'[c].at = "recording" /\ handler'[c].arg.event = e /\ handler'[c].arg.status = st
      BY <1>5, <1>7, StepTypes
    <2>2. \A d \in Client \ {c} : (handler'[d].at = "recording" <=> handler[d].at = "recording")
                                  /\ (handler[d].at = "recording" => handler'[d] = handler[d])
      BY <1>5, <1>7, Zenon
    <2>3. \A f \in Event \ {e} : SameRecorders(f)
      BY <1>3, <1>7, <2>1, <2>2, Zenon
    <2>4. Unrecorded(e, handler') = Unrecorded(e, handler) \cup {c}
      BY <1>1, <1>7, <2>1, <2>2
    <2>. QED
      BY <2>1, <2>3, <2>4, Zenon
  <1>8. ASSUME NEW c \in Client, NEW s, Moved(c, s), handler[c].at = "recording", s.at # "recording"
        PROVE  /\ \A f \in Event \ {handler[c].arg.event} : SameRecorders(f)
               /\ Unrecorded(handler[c].arg.event, handler') = Unrecorded(handler[c].arg.event, handler) \ {c}
    <2>1. \A d \in Client \ {c} : (handler'[d].at = "recording" <=> handler[d].at = "recording")
                                  /\ (handler[d].at = "recording" => handler'[d] = handler[d])
      BY <1>5, <1>8, Zenon
    <2>2. handler'[c].at # "recording"
      BY <1>5, <1>8, Zenon
    <2>3. \A f \in Event \ {handler[c].arg.event} : SameRecorders(f)
      BY <1>3, <1>8, <2>1, <2>2, Zenon
    <2>. QED
      BY <1>1, <2>1, <2>2, <2>3
  <1>. QED
    BY <1>4, <1>6, <1>7, <1>8, Zenon


\* A handler or a worker that ends an event is the one to record it.
LEMMA EndsOnce ==
  ASSUME NEW e \in Event, OutcomeAt(e), ~Ended(e), Ended(e)', outcomes' = outcomes
  PROVE  /\ \A c \in Client : /\ Unrecorded(e, handler') = Unrecorded(e, handler) \cup {c}
                              /\ handler'[c].arg.status = events'[e].status
                              /\ worker' = worker
                              => OutcomeAt(e)'
         /\ \A w \in Worker : /\ Unrecorded(e, worker') = Unrecorded(e, worker) \cup {w}
                              /\ worker'[w].arg.status = events'[e].status
                              /\ Unrecorded(e, handler') = Unrecorded(e, handler)
                              => OutcomeAt(e)'
  <1>1. outcomes'[e] = <<>> /\ Unrecorded(e, handler) = {} /\ Unrecorded(e, worker) = {}
    BY Zenon DEF OutcomeAt
  <1>2. ASSUME NEW c \in Client, Unrecorded(e, handler') = Unrecorded(e, handler) \cup {c},
               handler'[c].arg.status = events'[e].status, worker' = worker
        PROVE  OutcomeAt(e)'
    <2>1. Unrecorded(e, handler') = {c} /\ Unrecorded(e, worker') = {}
      BY <1>1, <1>2, Zenon
    <2>. QED
      BY <1>1, <1>2, <2>1, Zenon DEF OutcomeAt
  <1>3. ASSUME NEW w \in Worker, Unrecorded(e, worker') = Unrecorded(e, worker) \cup {w},
               worker'[w].arg.status = events'[e].status, Unrecorded(e, handler') = Unrecorded(e, handler)
        PROVE  OutcomeAt(e)'
    <2>1. Unrecorded(e, worker') = {w} /\ Unrecorded(e, handler') = {}
      BY <1>1, <1>3, Zenon
    <2>. QED
      BY <1>1, <1>3, <2>1, Zenon DEF OutcomeAt
  <1>. QED
    BY <1>2, <1>3, Zenon

\* A thread that records leaves exactly that outcome.
LEMMA RecordsOnce ==
  ASSUME TypeOK, NEW s \in Snapshot, OutcomeAt(s.event), outcomes' = Recorded(s), events' = events
  PROVE  /\ \A c \in Client : /\ handler[c].at = "recording" /\ handler[c].arg = s /\ worker' = worker
                              /\ Unrecorded(s.event, handler') = Unrecorded(s.event, handler) \ {c}
                              => OutcomeAt(s.event)'
         /\ \A w \in Worker : /\ worker[w] # None /\ worker[w].at = "recording" /\ worker[w].arg = s
                              /\ handler' = handler
                              /\ Unrecorded(s.event, worker') = Unrecorded(s.event, worker) \ {w}
                              => OutcomeAt(s.event)'
  <1>. DEFINE e == s.event
  <1>1. e \in Event /\ outcomes'[e] = Append(outcomes[e], s.status)
    BY RecordedType, Zenon
  <1>2. Ended(e)' <=> Ended(e)
    BY Zenon DEF Ended
  <1>3. outcomes[e] = <<>> => outcomes'[e] = <<s.status>>
    BY <1>1
  <1>. HIDE DEF e
  <1>4. ASSUME NEW c \in Client, handler[c].at = "recording", handler[c].arg = s, worker' = worker,
               Unrecorded(e, handler') = Unrecorded(e, handler) \ {c}
        PROVE  OutcomeAt(e)'
    <2>1. c \in Unrecorded(e, handler)
      BY <1>4, UnrecordedIs DEF e
    <2>2. /\ Ended(e) /\ outcomes[e] = <<>> /\ Unrecorded(e, worker) = {}
          /\ Unrecorded(e, handler) = {c} /\ s.status = events[e].status
      BY <1>4, <2>1, Zenon DEF OutcomeAt, e
    <2>3. Unrecorded(e, handler') = {} /\ Unrecorded(e, worker') = {}
      BY <1>4, <2>2, Zenon
    <2>. QED
      BY <1>2, <1>3, <2>2, <2>3, Zenon DEF OutcomeAt
  <1>5. ASSUME NEW w \in Worker, worker[w] # None, worker[w].at = "recording", worker[w].arg = s, handler' = handler,
               Unrecorded(e, worker') = Unrecorded(e, worker) \ {w}
        PROVE  OutcomeAt(e)'
    <2>1. w \in Unrecorded(e, worker)
      BY <1>5, UnrecordedIs, ZenonT(60) DEF e
    <2>2. /\ Ended(e) /\ outcomes[e] = <<>> /\ Unrecorded(e, handler) = {}
          /\ Unrecorded(e, worker) = {w} /\ s.status = events[e].status
      BY <1>5, <2>1, Zenon DEF OutcomeAt, e
    <2>3. Unrecorded(e, handler') = {} /\ Unrecorded(e, worker') = {}
      BY <1>5, <2>2, Zenon
    <2>. QED
      BY <1>2, <1>3, <2>2, <2>3, Zenon DEF OutcomeAt
  <1>. QED
    BY <1>4, <1>5, Zenon DEF e

\* Every step keeps the outcome of every event.
LEMMA NextOutcome ==
  ASSUME TypeOK, TypeOK', NamesFit, CatalogConsistent, OutcomeNamed, Next
  PROVE  OutcomeNamed'
  <1>1. \A e \in Event : OutcomeAt(e)
    BY Zenon DEF OutcomeNamed, OutcomeAt
  <1>2. (\A e \in Event : OutcomeAt(e)') => OutcomeNamed'
    BY Zenon DEF OutcomeNamed, OutcomeAt
  <1>. SUFFICES \A e \in Event : OutcomeAt(e)'
    BY <1>2, Zenon
  <1>. DEFINE Goal == \A e \in Event : OutcomeAt(e)'
  <1>3. ASSUME events' = events, outcomes' = outcomes, \A e \in Event : SameRecorders(e) PROVE Goal
    <2>1. \A e \in Event : SameEnd(e)
      BY <1>3, Zenon DEF SameEnd, Ended
    <2>. QED
      BY <1>1, <1>3, <2>1, OutcomeFrame, Zenon
  <1>4. ASSUME NEW c \in Client, Answers(c), handler[c].at # "recording", UNCHANGED <<events, outcomes, worker>>
        PROVE  Goal
    <2>1. \A e \in Event : SameRecorders(e)
      BY <1>4, HandlerRecorders, StepTypes, Zenon DEF Answers
    <2>. QED
      BY <1>3, <1>4, <2>1, Zenon
  <1>5. ASSUME NEW c \in Client, NEW s, Moved(c, s), handler[c].at # "recording", s.at # "recording",
               UNCHANGED <<events, outcomes, worker>>
        PROVE  Goal
    <2>1. \A e \in Event : SameRecorders(e)
      BY <1>5, HandlerRecorders, Zenon
    <2>. QED
      BY <1>3, <1>5, <2>1, Zenon
  <1>6. ASSUME Quiet, UNCHANGED <<events, outcomes, worker>> PROVE Goal
    <2>1. \A e \in Event : SameRecorders(e)
      BY <1>6, HandlerRecorders, Zenon
    <2>. QED
      BY <1>3, <1>6, <2>1, Zenon
  <1>7. ASSUME NEW c \in Client, NEW e \in Event, NEW st \in Terminal, Moved(c, Recording(e, st)),
               handler[c].at # "recording", UNCHANGED <<outcomes, worker>>,
               ~Ended(e), Ended(e)', events'[e].status = st, \A f \in Event \ {e} : events'[f] = events[f]
        PROVE  Goal
    <2>1. /\ \A f \in Event \ {e} : SameRecorders(f)
          /\ Unrecorded(e, handler') = Unrecorded(e, handler) \cup {c}
          /\ handler'[c].arg.status = st
      BY <1>7, HandlerRecorders, Zenon
    <2>2. \A f \in Event \ {e} : SameEnd(f)
      BY <1>7, Zenon DEF SameEnd, Ended
    <2>3. \A f \in Event \ {e} : OutcomeAt(f)'
      BY <1>1, <2>1, <2>2, OutcomeFrame, Zenon
    <2>4. OutcomeAt(e)'
      BY <1>1, <1>7, <2>1, EndsOnce, Zenon
    <2>. QED
      BY <2>3, <2>4, Zenon
  <1>. HIDE DEF Goal
  <1>8. ASSUME CatalogStep PROVE Goal
    <2>1. UNCHANGED <<events, outcomes, worker>> /\ CatalogNext
      BY <1>8, Zenon DEF CatalogStep, transferVars
    <2>2. ASSUME NEW c \in Client, ClientStep(c) PROVE Goal
      <3>1. ASSUME NEW o \in Object, release_data_object(c, o) PROVE Goal
        <4>1. Step("freeing", MemoryOf(o)).at # "recording"
          BY StepTypes
        <4>. QED
          BY <1>5, <2>1, <3>1, <4>1, CatalogMoves, Zenon
      <3>2. ASSUME \/ \E r \in Request :
                         \/ Reuse(c, r)
                         \/ CreateDdrOrSsd(c, r)
                         \/ CreateHbm(c, r)
                         \/ CreateHbmExportFails(c, r)
                   \/ \E o \in Object :
                         \/ open_data_object(c, o)
                         \/ Mark(c, o, "Ready")
                         \/ Mark(c, o, "Modified")
                   \/ \E l \in Lease : close_lease(c, l)
                   \/ Free(c)
            PROVE  Answers(c) /\ handler[c].at # "recording"
        BY <3>2, CatalogMoves, Zenon
      <3>3. ASSUME shutdown_daemon(c) \/ HandlerExits(c) PROVE Goal
        <4>1. handler[c].at = "ready" /\ Moved(c, Exited) /\ Exited.at # "recording"
          BY <3>3, CatalogMoves, StepAt, Zenon
        <4>. QED
          BY <1>5, <2>1, <4>1, Zenon
      <3>. QED
        BY <1>4, <2>1, <2>2, <3>1, <3>2, <3>3, Zenon DEF ClientStep
    <2>3. ASSUME AcceptError \/ cleanup_blocks \/ ProcessExits PROVE Goal
      <3>1. Quiet
        BY <2>3, QuietMoves, Zenon DEF cleanup_blocks, ProcessExits
      <3>. QED
        BY <1>6, <2>1, <3>1, Zenon
    <2>. QED
      BY <2>1, <2>2, <2>3, Zenon DEF CatalogNext
  <1>9. ASSUME NEW c \in Client, NEW src \in Object, NEW dst \in Object, NEW e \in Event,
               submit_transfer(c, src, dst, e)
        PROVE  Goal
    <2>1. /\ events[e] = None /\ events' = [events EXCEPT ![e] = NewEvent(src, dst)]
          /\ UNCHANGED <<outcomes, worker>>
      BY <1>9, Zenon DEF submit_transfer
    <2>2. events \in [Event -> Job \cup {None}] /\ events' \in [Event -> Job \cup {None}]
      BY Zenon DEF TypeOK
    <2>3. ~Ended(e) /\ \A f \in Event \ {e} : events'[f] = events[f]
      BY <2>1, <2>2, Zenon DEF Ended
    <2>4. events'[e] # None /\ events'[e].status = IF src = dst THEN "complete" ELSE "running"
      <3>1. events'[e] = NewEvent(src, dst)
        BY <2>1, <2>2, Zenon
      <3>2. src \in Live /\ dst \in Live
        BY <1>9, Zenon DEF submit_transfer
      <3>3. MemoryOf(src) \in Block \cup Object /\ MemoryOf(dst) \in Block \cup Object
        BY <3>2, MemoryOfType, Zenon
      <3>4. NewEvent(src, dst) \in Job
        BY <3>3 DEF NewEvent, Job, Terminal
      <3>5. NewEvent(src, dst).status = IF src = dst THEN "complete" ELSE "running"
        BY Zenon DEF NewEvent
      <3>. QED
        BY <3>1, <3>4, <3>5, NoneDistinct, Zenon
    <2>5. CASE src = dst
      <3>1. Ended(e)' /\ events'[e].status = "complete" /\ "complete" \in Terminal
        BY <2>4, <2>5, Zenon DEF Ended, Terminal
      <3>2. handler[c].at # "recording" /\ Moved(c, Recording(e, "complete"))
        BY <1>9, <2>5, TransferMoves, Zenon
      <3>. QED
        BY <1>7, <2>1, <2>3, <3>1, <3>2, Zenon
    <2>6. CASE src # dst
      <3>1. ~Ended(e)'
        BY <2>4, <2>6, Zenon DEF Ended, Terminal
      <3>2. handler[c].at # "recording" /\ Moved(c, Step("enqueueing", e)) /\ Step("enqueueing", e).at # "recording"
        <4>1. handler[c].at = "ready" /\ Moved(c, Step("enqueueing", e))
          BY <1>9, <2>6, TransferMoves, Zenon
        <4>. QED
          BY <4>1, StepAt, Zenon
      <3>3. \A f \in Event : SameRecorders(f)
        BY <2>1, <3>2, HandlerRecorders, Zenon
      <3>4. \A f \in Event : SameEnd(f)
        BY <2>1, <2>3, <3>1, Zenon DEF SameEnd, Ended
      <3>. QED
        BY <1>1, <3>3, <3>4, OutcomeFrame, Zenon DEF Goal
    <2>. QED
      BY <2>5, <2>6, Zenon
  <1>10. ASSUME NEW c \in Client, NEW e \in Event, cancel_event(c, e) PROVE Goal
    <2>1. /\ events[e] # None /\ events[e].status \notin Terminal
          /\ events' = [events EXCEPT ![e].status = "cancelled"] /\ UNCHANGED <<outcomes, worker>>
      BY <1>10, Zenon DEF cancel_event, Ends
    <2>2. events[e] \in Job /\ events \in [Event -> Job \cup {None}]
      BY <2>1, Zenon DEF TypeOK
    <2>3. events'[e] = [events[e] EXCEPT !.status = "cancelled"] /\ \A f \in Event \ {e} : events'[f] = events[f]
      BY <2>1, <2>2, Zenon
    <2>4. events'[e] \in Job /\ events'[e].status = "cancelled" /\ "cancelled" \in Terminal
      BY <2>2, <2>3, Zenon DEF Job, Terminal
    <2>5. ~Ended(e) /\ Ended(e)'
      BY <2>1, <2>4, NoneDistinct, Zenon DEF Ended
    <2>6. handler[c].at # "recording" /\ Moved(c, Recording(e, "cancelled"))
      BY <1>10, TransferMoves, Zenon
    <2>. QED
      BY <1>7, <2>1, <2>3, <2>4, <2>5, <2>6, Zenon
  <1>11. ASSUME NEW c \in Client, NEW e \in Event, wait_event(c, e) PROVE Goal
    <2>1. handler[c].at # "recording" /\ Moved(c, Step("waiting", e)) /\ Step("waiting", e).at # "recording"
      <3>1. handler[c].at = "ready" /\ Moved(c, Step("waiting", e))
        BY <1>11, TransferMoves, Zenon
      <3>. QED
        BY <3>1, StepAt, Zenon
    <2>2. UNCHANGED <<events, outcomes, worker>>
      BY <1>11, Zenon DEF wait_event, transferVars
    <2>. QED
      BY <1>5, <2>1, <2>2, Zenon
  <1>12. ASSUME NEW c \in Client, Enqueue(c) \/ WaitTimesOut(c) PROVE Goal
    <2>1. handler[c].at # "recording" /\ Answers(c)
      BY <1>12, TransferMoves, Zenon
    <2>2. UNCHANGED <<events, outcomes, worker>>
      BY <1>12, Zenon DEF Enqueue, WaitTimesOut, transferVars
    <2>. QED
      BY <1>4, <2>1, <2>2, Zenon
  <1>13. ASSUME NEW c \in Client, WaitResumes(c) PROVE Goal
    <2>1. handler[c].at # "recording" /\ (Moved(c, Step("waiting", handler[c].arg)) \/ Answers(c))
      BY <1>13, TransferMoves, Zenon
    <2>2. UNCHANGED <<events, outcomes, worker>>
      BY <1>13, Zenon DEF WaitResumes, transferVars
    <2>3. Step("waiting", handler[c].arg).at # "recording"
      BY StepTypes
    <2>. QED
      BY <1>4, <1>5, <2>1, <2>2, <2>3, Zenon
  <1>14. ASSUME NEW c \in Client, EnqueueFails(c) PROVE Goal
    <2>1. PICK e \in Event : handler[c].at = "enqueueing" /\ e = handler[c].arg /\ events[e] # None
      BY <1>14, TransferMoves, Zenon DEF NamesFit
    <2>2. finish_transfer_event(e, "failed") /\ UNCHANGED <<outcomes, worker>>
      BY <1>14, <2>1, Zenon DEF EnqueueFails
    <2>3. /\ Ends(e) => Moved(c, Recording(e, "failed"))
          /\ ~Ends(e) => Answers(c)
      BY <1>14, <2>1, TransferMoves, Zenon
    <2>4. /\ \A f \in Event \ {e} : events'[f] = events[f]
          /\ events'[e] # None
          /\ Ends(e) => events'[e].status = "failed"
          /\ ~Ends(e) => events' = events
      BY <2>1, <2>2, FinishTypes, Zenon DEF finish_transfer_event, Ends
    <2>5. CASE Ends(e)
      <3>1. ~Ended(e) /\ Ended(e)' /\ "failed" \in Terminal
        BY <2>4, <2>5, Zenon DEF Ended, Ends, Terminal
      <3>. QED
        BY <1>7, <2>1, <2>2, <2>3, <2>4, <2>5, <3>1, Zenon
    <2>6. CASE ~Ends(e)
      BY <1>4, <2>1, <2>2, <2>3, <2>4, <2>6, Zenon
    <2>. QED
      BY <2>5, <2>6, Zenon
  <1>15. ASSUME NEW c \in Client, HandlerRecords(c) PROVE Goal
    <2>1. PICK s \in Snapshot : handler[c].at = "recording" /\ s = handler[c].arg /\ Answers(c)
      BY <1>15, TransferMoves, Zenon DEF NamesFit
    <2>2. outcomes' = Recorded(s) /\ UNCHANGED <<events, worker>>
      BY <1>15, <2>1, Zenon DEF HandlerRecords
    <2>3. /\ \A f \in Event \ {s.event} : SameRecorders(f)
          /\ Unrecorded(s.event, handler') = Unrecorded(s.event, handler) \ {c}
      <3>1. PICK t \in {Ready, Exited} : Moved(c, t)
        BY <2>1, Zenon DEF Answers
      <3>2. t.at # "recording"
        BY StepTypes, Zenon
      <3>. QED
        BY <2>1, <2>2, <3>1, <3>2, HandlerRecorders, Zenon
    <2>4. s.event \in Event /\ \A f \in Event \ {s.event} : SameEnd(f)
      <3>1. s.event \in Event /\ \A f \in Event \ {s.event} : outcomes'[f] = outcomes[f]
        BY <2>1, <2>2, RecordedType, Zenon
      <3>. QED
        BY <2>2, <3>1, Zenon DEF SameEnd, Ended
    <2>5. \A f \in Event \ {s.event} : OutcomeAt(f)'
      BY <1>1, <2>3, <2>4, OutcomeFrame, Zenon
    <2>6. OutcomeAt(s.event)'
      BY <1>1, <2>1, <2>2, <2>3, <2>4, RecordsOnce, Zenon
    <2>. QED
      BY <2>5, <2>6, Zenon DEF Goal
  <1>16. ASSUME NEW w \in Worker, Works(w) PROVE Goal
    <2>0. \A e : /\ Unrecorded(e, worker) =
                       {v \in Worker : worker[v] # None /\ worker[v].at = "recording" /\ worker[v].arg.event = e}
                 /\ Unrecorded(e, worker') =
                       {v \in Worker : worker'[v] # None /\ worker'[v].at = "recording" /\ worker'[v].arg.event = e}
      BY UnrecordedIs, Zenon
    <2>1. \A e \in Event : Unrecorded(e, handler') = Unrecorded(e, handler)
                           /\ \A c \in Unrecorded(e, handler) : handler'[c] = handler[c]
      <3>1. \A x : Step("woken", x).at = "woken"
        BY StepTypes, Zenon
      <3>2. \A d \in Client : (handler'[d].at = "recording" <=> handler[d].at = "recording")
                              /\ (handler[d].at = "recording" => handler'[d] = handler[d])
        BY <1>16, <3>1, QuietMoves, Zenon DEF Quiet
      <3>. SUFFICES ASSUME NEW e \in Event
                    PROVE  /\ Unrecorded(e, handler') = Unrecorded(e, handler)
                           /\ \A c \in Unrecorded(e, handler) : handler'[c] = handler[c]
        OBVIOUS
      <3>3. /\ Unrecorded(e, handler) = {c \in Client : handler[c].at = "recording" /\ handler[c].arg.event = e}
            /\ Unrecorded(e, handler') = {c \in Client : handler'[c].at = "recording" /\ handler'[c].arg.event = e}
        BY UnrecordedIs, Zenon
      <3>. QED
        BY <3>2, <3>3, Zenon
    <2>2. ASSUME NEW s \in WorkerStep, worker' = [worker EXCEPT ![w] = s]
          PROVE  worker'[w] = s /\ s # None /\ \A v \in Worker \ {w} : worker'[v] = worker[v]
      BY <2>2, NoneDistinct, Zenon DEF TypeOK
    <2>3. ASSUME NEW s \in WorkerStep, worker' = [worker EXCEPT ![w] = s], worker[w] # None,
                 NEW f \in Event, worker[w].at = "recording" => worker[w].arg.event # f,
                 s.at = "recording" => s.arg.event # f
          PROVE  SameRecorders(f)
      <3>1. worker'[w] = s /\ s # None /\ \A v \in Worker \ {w} : worker'[v] = worker[v]
        BY <2>2, <2>3, Zenon
      <3>2. Unrecorded(f, worker') = Unrecorded(f, worker) /\ w \notin Unrecorded(f, worker)
            /\ Unrecorded(f, worker) \subseteq Worker
        <4>1. /\ Unrecorded(f, worker) =
                      {v \in Worker : worker[v] # None /\ worker[v].at = "recording" /\ worker[v].arg.event = f}
                /\ Unrecorded(f, worker') =
                      {v \in Worker : worker'[v] # None /\ worker'[v].at = "recording" /\ worker'[v].arg.event = f}
          BY <2>0, Zenon
        <4>2. w \notin Unrecorded(f, worker) /\ w \notin Unrecorded(f, worker')
          BY <2>3, <3>1, <4>1, Zenon
        <4>3. \A v \in Worker \ {w} : v \in Unrecorded(f, worker) <=> v \in Unrecorded(f, worker')
          BY <3>1, <4>1, Zenon
        <4>4. Unrecorded(f, worker) \subseteq Worker /\ Unrecorded(f, worker') \subseteq Worker
          BY <4>1, Zenon
        <4>. QED
          BY <4>2, <4>3, <4>4
      <3>. QED
        BY <2>1, <3>1, <3>2, Zenon DEF SameRecorders
    <2>4. CASE Take(w)
      <3>. DEFINE s == Step(Execution(Head(queue)), Head(queue))
      <3>1. UNCHANGED <<events, outcomes>> /\ worker[w] = Idle /\ worker' = [worker EXCEPT ![w] = s]
        BY <2>4, Zenon DEF Take
      <3>2. queue \in Seq(Event) /\ queue # <<>>
        BY <2>4, Zenon DEF Take, TypeOK
      <3>3. Head(queue) \in Event
        BY <3>2
      <3>4. s \in WorkerStep /\ s.at \in {"copying", "refusing"} /\ Idle.at = "idle" /\ Idle # None
        <4>1. Execution(Head(queue)) \in {"copying", "refusing"}
          BY Zenon DEF Execution
        <4>. QED
          BY <3>3, <4>1, StepTypes, NoneDistinct
      <3>. HIDE DEF s
      <3>5. \A f \in Event : SameRecorders(f)
        BY <2>3, <3>1, <3>4, Zenon
      <3>. QED
        BY <1>3, <3>1, <3>5, Zenon
    <2>5. CASE FinishCopy(w)
      <3>1. PICK e \in Event : /\ e = worker[w].arg /\ events[e] # None
                               /\ worker[w] # None /\ worker[w].at \in {"copying", "refusing"}
        BY <2>5, Zenon DEF FinishCopy, NamesFit
      <3>2. PICK st \in CopyOutcome(e) :
               /\ finish_transfer_event(e, st)
               /\ worker' = [worker EXCEPT ![w] = IF Ends(e) THEN Recording(e, st) ELSE Idle]
        BY <2>5, <3>1, Zenon DEF FinishCopy
      <3>3. st \in {"complete", "failed"} /\ st \in Terminal
        BY Zenon DEF CopyOutcome, Terminal
      <3>4. outcomes' = outcomes
        BY <2>5, Zenon DEF FinishCopy
      <3>5. /\ \A f \in Event \ {e} : events'[f] = events[f]
            /\ events'[e] # None
            /\ Ends(e) => events'[e].status = st
            /\ ~Ends(e) => events' = events
        BY <3>1, <3>2, <3>3, FinishTypes, Zenon DEF finish_transfer_event, Ends
      <3>6. CASE ~Ends(e)
        <4>1. worker' = [worker EXCEPT ![w] = Idle] /\ Idle \in WorkerStep /\ Idle.at # "recording"
          BY <3>2, <3>6, StepTypes, Zenon
        <4>2. \A f \in Event : SameRecorders(f)
          BY <2>3, <3>1, <4>1, Zenon
        <4>. QED
          BY <1>3, <3>4, <3>5, <3>6, <4>2, Zenon
      <3>7. CASE Ends(e)
        <4>1. PICK s \in WorkerStep : /\ worker' = [worker EXCEPT ![w] = s]
                                      /\ s.at = "recording" /\ s.arg.event = e /\ s.arg.status = st
          <5>1. worker' = [worker EXCEPT ![w] = Recording(e, st)]
            BY <3>2, <3>7, Zenon
          <5>2. /\ Recording(e, st) \in WorkerStep /\ Recording(e, st).at = "recording"
                /\ Recording(e, st).arg.event = e /\ Recording(e, st).arg.status = st
            BY <3>3, StepTypes, Zenon
          <5>. QED
            BY <5>1, <5>2, Zenon
        <4>2. \A f \in Event \ {e} : SameRecorders(f)
          BY <2>3, <3>1, <4>1, Zenon
        <4>3. \A f \in Event \ {e} : SameEnd(f)
          BY <3>4, <3>5, Zenon DEF SameEnd, Ended
        <4>4. \A f \in Event \ {e} : OutcomeAt(f)'
          BY <1>1, <4>2, <4>3, OutcomeFrame, Zenon
        <4>5. Unrecorded(e, worker') = Unrecorded(e, worker) \cup {w} /\ worker'[w].arg.status = st
          <5>1. worker'[w] = s /\ s # None /\ \A v \in Worker \ {w} : worker'[v] = worker[v]
            BY <2>2, <4>1, Zenon
          <5>2. Unrecorded(e, worker') = Unrecorded(e, worker) \cup {w}
            <6>1. /\ Unrecorded(e, worker) =
                          {v \in Worker : worker[v] # None /\ worker[v].at = "recording" /\ worker[v].arg.event = e}
                    /\ Unrecorded(e, worker') =
                          {v \in Worker : worker'[v] # None /\ worker'[v].at = "recording" /\ worker'[v].arg.event = e}
              BY <2>0, Zenon
            <6>2. w \in Unrecorded(e, worker')
              BY <4>1, <5>1, <6>1, Zenon
            <6>3. \A v \in Worker \ {w} : v \in Unrecorded(e, worker) <=> v \in Unrecorded(e, worker')
              BY <5>1, <6>1, Zenon
            <6>4. Unrecorded(e, worker) \subseteq Worker /\ Unrecorded(e, worker') \subseteq Worker
              BY <6>1, Zenon
            <6>. QED
              BY <6>2, <6>3, <6>4, Zenon
          <5>. QED
            BY <4>1, <5>1, <5>2, Zenon
        <4>6. ~Ended(e) /\ Ended(e)' /\ events'[e].status = st
          BY <3>3, <3>5, <3>7, Zenon DEF Ended, Ends
        <4>7. OutcomeAt(e)'
          BY <1>1, <2>1, <3>1, <3>4, <4>5, <4>6, EndsOnce, Zenon
        <4>. QED
          BY <4>4, <4>7, Zenon DEF Goal
      <3>. QED
        BY <3>6, <3>7, Zenon
    <2>6. CASE WorkerRecords(w)
      <3>1. PICK s \in Snapshot :
            /\ worker[w] # None /\ worker[w].at = "recording" /\ s = worker[w].arg
            /\ outcomes' = Recorded(s) /\ worker' = [worker EXCEPT ![w] = Idle]
            /\ events' = events /\ handler' = handler
        BY <2>6, Zenon DEF WorkerRecords, NamesFit, catalogVars
      <3>2. Idle \in WorkerStep /\ Idle.at # "recording"
        BY StepTypes, Zenon
      <3>3. s.event \in Event /\ \A f \in Event \ {s.event} : outcomes'[f] = outcomes[f]
        BY <3>1, RecordedType, Zenon
      <3>4. \A f \in Event \ {s.event} : SameRecorders(f)
        BY <2>3, <3>1, <3>2, Zenon
      <3>5. Unrecorded(s.event, worker') = Unrecorded(s.event, worker) \ {w}
        <4>1. worker'[w] = Idle /\ \A v \in Worker \ {w} : worker'[v] = worker[v]
          BY <2>2, <3>1, <3>2, Zenon
        <4>2. /\ Unrecorded(s.event, worker) =
                      {v \in Worker : worker[v] # None /\ worker[v].at = "recording" /\ worker[v].arg.event = s.event}
                /\ Unrecorded(s.event, worker') =
                      {v \in Worker : worker'[v] # None /\ worker'[v].at = "recording" /\ worker'[v].arg.event = s.event}
          BY <2>0, Zenon
        <4>. QED
          BY <3>2, <4>1, <4>2, Zenon
      <3>6. \A f \in Event \ {s.event} : SameEnd(f)
        BY <3>1, <3>3, Zenon DEF SameEnd, Ended
      <3>7. \A f \in Event \ {s.event} : OutcomeAt(f)'
        BY <1>1, <3>4, <3>6, OutcomeFrame, Zenon
      <3>8. OutcomeAt(s.event)'
        BY <1>1, <3>1, <3>3, <3>5, RecordsOnce, Zenon
      <3>. QED
        BY <3>7, <3>8, Zenon DEF Goal
    <2>. QED
      BY <1>16, <2>4, <2>5, <2>6, Zenon DEF Works
  <1>. QED
    BY <1>8, <1>9, <1>10, <1>11, <1>12, <1>13, <1>14, <1>15, <1>16, Zenon DEF Next, Goal


\* The count of OneOutcome, from the named thread.
LEMMA OutcomeCounts == TypeOK /\ OutcomeNamed => OneOutcome
  <1>. SUFFICES ASSUME TypeOK, OutcomeNamed, NEW e \in Event
                PROVE  LET handlers == Unrecorded(e, handler)
                           workers == Unrecorded(e, worker)
                           told == Range(outcomes[e]) \cup {handler[c].arg.status : c \in handlers}
                                   \cup {worker[w].arg.status : w \in workers}
                       IN /\ Len(outcomes[e]) + Cardinality(handlers) + Cardinality(workers) =
                                IF Ended(e) THEN 1 ELSE 0
                          /\ Ended(e) => told = {events[e].status}
    BY Zenon DEF OneOutcome
  <1>. DEFINE handlers == Unrecorded(e, handler)
              workers == Unrecorded(e, worker)
  <1>1. OutcomeAt(e)
    BY Zenon DEF OutcomeNamed, OutcomeAt
  <1>2. Cardinality({}) = 0 /\ \A x : Cardinality({x}) = 1
    BY FS_EmptySet, FS_Singleton, Zenon
  <1>3. Len(<<>>) = 0 /\ Range(<<>>) = {} /\ \A x : Len(<<x>>) = 1 /\ Range(<<x>>) = {x}
    <2>1. Len(<<>>) = 0 /\ Range(<<>>) = {}
      BY DEF Range
    <2>2. ASSUME NEW x PROVE Len(<<x>>) = 1 /\ Range(<<x>>) = {x}
      <3>1. Len(<<x>>) = 1 /\ DOMAIN <<x>> = {1} /\ <<x>>[1] = x
        OBVIOUS
      <3>. QED
        BY <3>1, Zenon DEF Range
    <2>. QED
      BY <2>1, <2>2, Zenon
  <1>. DEFINE Says == /\ Len(outcomes[e]) + Cardinality(handlers) + Cardinality(workers) = IF Ended(e) THEN 1 ELSE 0
                      /\ Ended(e) => Range(outcomes[e]) \cup {handler[c].arg.status : c \in handlers}
                                     \cup {worker[w].arg.status : w \in workers} = {events[e].status}
  <1>. HIDE DEF handlers, workers
  <1>4. ASSUME ~Ended(e), outcomes[e] = <<>>, handlers = {}, workers = {} PROVE Says
    BY <1>2, <1>3, <1>4
  <1>5. ASSUME Ended(e), outcomes[e] = <<events[e].status>>, handlers = {}, workers = {} PROVE Says
    <2>1. Len(outcomes[e]) = 1 /\ Range(outcomes[e]) = {events[e].status}
      BY <1>3, <1>5, Zenon
    <2>. QED
      BY <1>2, <1>5, <2>1
  <1>6. ASSUME Ended(e), outcomes[e] = <<>>, workers = {}, NEW c \in Client, handlers = {c},
               handler[c].arg.status = events[e].status
        PROVE  Says
    <2>1. Len(outcomes[e]) = 0 /\ Range(outcomes[e]) = {}
      BY <1>3, <1>6, Zenon
    <2>2. {handler[d].arg.status : d \in handlers} = {events[e].status}
      BY <1>6, Zenon
    <2>3. {worker[v].arg.status : v \in workers} = {}
      BY <1>6, Zenon
    <2>4. Cardinality(handlers) = 1 /\ Cardinality(workers) = 0
      BY <1>2, <1>6, Zenon
    <2>. QED
      BY <1>6, <2>1, <2>2, <2>3, <2>4
  <1>7. ASSUME Ended(e), outcomes[e] = <<>>, handlers = {}, NEW w \in Worker, workers = {w},
               worker[w].arg.status = events[e].status
        PROVE  Says
    <2>1. Len(outcomes[e]) = 0 /\ Range(outcomes[e]) = {}
      BY <1>3, <1>7, Zenon
    <2>2. {worker[v].arg.status : v \in workers} = {events[e].status}
      BY <1>7, Zenon
    <2>3. {handler[d].arg.status : d \in handlers} = {}
      BY <1>7, Zenon
    <2>4. Cardinality(handlers) = 0 /\ Cardinality(workers) = 1
      BY <1>2, <1>7, Zenon
    <2>. QED
      BY <1>7, <2>1, <2>2, <2>3, <2>4
  <1>. HIDE DEF Says
  <1>8. Says
    BY <1>1, <1>4, <1>5, <1>6, <1>7, Zenon DEF OutcomeAt, handlers, workers
  <1>. QED
    BY <1>8, Zenon DEF Says, handlers, workers

-----------------------------------------------------------------------------
\* The daemon starts with an empty catalog, idle workers and no event.
LEMMA Starts == Init => IInv
  <1>. SUFFICES ASSUME Init PROVE IInv
    OBVIOUS
  <1>1. /\ objects = [o \in Object |-> None] /\ blocks = [b \in Block |-> None]
        /\ leases = [l \in Lease |-> None] /\ memory = [m \in Block \cup Object |-> "none"]
        /\ handler = [c \in Client |-> Ready] /\ phase = "running"
        /\ events = [e \in Event |-> None] /\ queue = <<>>
        /\ worker \in [Worker -> {Idle, None}] /\ outcomes = [e \in Event |-> <<>>]
    BY Zenon DEF Init, CatalogInit
  <1>2. TablesTyped
    BY <1>1, Zenon DEF TablesTyped
  <1>3. HandlersTyped
    BY <1>1, StepTypes, Zenon DEF HandlersTyped
  <1>4. TransfersTyped
    <2>1. worker \in [Worker -> WorkerStep \cup {None}]
      BY <1>1, StepTypes, Zenon
    <2>. QED
      BY <1>1, <2>1 DEF TransfersTyped
  <1>5. TypeOK
    BY <1>2, <1>3, <1>4, TypeParts, Zenon
  <1>6. \A w \in Worker : worker[w] # None => worker[w].at = "idle"
    BY <1>1, StepTypes, Zenon
  <1>7. \A c \in Client : handler[c].at = "ready"
    BY <1>1, StepTypes, Zenon
  <1>8. NamesFit
    BY <1>1, <1>6, <1>7 DEF NamesFit
  <1>9. Live = {} /\ CatalogBlocks = {} /\ Freeing = {}
    BY <1>1, <1>7, Zenon DEF Live, CatalogBlocks, Freeing
  <1>10. CatalogInv
    <2>1. ObjectsHeld /\ BlocksHeld /\ Shared /\ FreeingOwns
      BY <1>9, Zenon DEF ObjectsHeld, BlocksHeld, Shared, FreeingOwns
    <2>2. LeasesLive /\ MemoryThere /\ CleanedUp /\ NeverTwice
      BY <1>1, <1>9, Zenon DEF LeasesLive, MemoryThere, CleanedUp, NeverTwice
    <2>. QED
      BY <2>1, <2>2, Zenon DEF CatalogInv
  <1>11. OutcomeNamed
    <2>1. ASSUME NEW e \in Event PROVE OutcomeAt(e)
      <3>1. Unrecorded(e, handler) = {} /\ Unrecorded(e, worker) = {}
        BY <1>5, <1>6, <1>7, UnrecordedIs, Zenon
      <3>2. ~Ended(e) /\ outcomes[e] = <<>>
        BY <1>1, Zenon DEF Ended
      <3>. QED
        BY <3>1, <3>2, Zenon DEF OutcomeAt
    <2>. QED
      BY <2>1, Zenon DEF OutcomeNamed, OutcomeAt
  <1>. QED
    BY <1>5, <1>8, <1>10, <1>11, CatalogParts, Zenon DEF IInv

\* Every step of the daemon keeps the inductive invariant.
LEMMA Keeps == IInv /\ [Next]_vars => IInv'
  <1>. SUFFICES ASSUME IInv, [Next]_vars PROVE IInv'
    OBVIOUS
  <1>1. TypeOK /\ NamesFit /\ CatalogConsistent /\ MemoryOwned /\ FreedOnce /\ OutcomeNamed
    BY Zenon DEF IInv
  <1>2. ASSUME Next PROVE IInv'
    <2>1. TypeOK' /\ NamesFit'
      BY <1>1, <1>2, NextType, NextNames, Zenon
    <2>2. CatalogInv
      BY <1>1, CatalogParts, Zenon
    <2>3. CatalogInv'
      BY <1>1, <1>2, <2>1, <2>2, NextCatalog, Zenon
    <2>5. (CatalogConsistent /\ MemoryOwned /\ FreedOnce)'
      <3>1. (TypeOK => (CatalogConsistent /\ MemoryOwned /\ FreedOnce <=> CatalogInv))'
        BY CatalogParts, PTL
      <3>. QED
        BY <2>1, <2>3, <3>1, Zenon
    <2>6. OutcomeNamed'
      BY <1>1, <1>2, <2>1, NextOutcome, Zenon
    <2>. QED
      BY <2>1, <2>5, <2>6, Zenon DEF IInv
  <1>3. ASSUME UNCHANGED vars PROVE IInv'
    <2>1. UNCHANGED <<objects, blocks, leases, memory, handler, phase, events, queue, worker, outcomes>>
      BY <1>3, Zenon DEF vars, catalogVars, transferVars
    <2>2. TypeOK'
      BY <1>1, <2>1, Zenon DEF TypeOK, CatalogTypeOK
    <2>3. NamesFit' /\ FreedOnce'
      BY <1>1, <2>1, Zenon DEF NamesFit, FreedOnce
    <2>4. CatalogConsistent' /\ MemoryOwned'
      <3>1. /\ Live' = Live /\ CatalogBlocks' = CatalogBlocks /\ Freeing' = Freeing
            /\ \A o : MemoryOf(o)' = MemoryOf(o)
        BY <2>1, Zenon DEF Live, CatalogBlocks, Freeing, MemoryOf
      <3>2. CatalogConsistent'
        BY <1>1, <2>1, <3>1, Zenon DEF CatalogConsistent
      <3>3. MemoryOwned'
        BY <1>1, <2>1, <3>1, Zenon DEF MemoryOwned
      <3>. QED
        BY <3>2, <3>3, Zenon
    <2>5. OutcomeNamed'
      <3>1. \A e \in Event : OutcomeAt(e)
        BY <1>1, Zenon DEF OutcomeNamed, OutcomeAt
      <3>2. \A e \in Event : SameRecorders(e) /\ SameEnd(e)
        BY <2>1, Zenon DEF SameRecorders, SameEnd, Ended
      <3>3. \A e \in Event : OutcomeAt(e)'
        BY <3>1, <3>2, OutcomeFrame, Zenon
      <3>. QED
        BY <3>3, Zenon DEF OutcomeNamed, OutcomeAt
    <2>. QED
      BY <2>2, <2>3, <2>4, <2>5, Zenon DEF IInv
  <1>. QED
    BY <1>2, <1>3, Zenon

\* The inductive invariant: names fit, the catalog is consistent, memory has one
\* owner, and the end of every transfer is recorded once, whatever handlers and
\* workers do.
THEOREM Invariance == Spec => []IInv
  BY Starts, Keeps, PTL DEF Spec

\* catalog.rs keeps objects, blocks, leases and memory consistent.
THEOREM Consistent == Spec => []CatalogConsistent
  <1>1. IInv => CatalogConsistent
    BY Zenon DEF IInv
  <1>. QED
    BY <1>1, Invariance, PTL

\* Releases and the cleanup at shutdown free every allocation once.
THEOREM Frees == Spec => []FreedOnce
  <1>1. IInv => FreedOnce
    BY Zenon DEF IInv
  <1>. QED
    BY <1>1, Invariance, PTL

\* A worker, a cancel and a failing submit that race for the end of a transfer
\* leave one transfer.outcome, and it tells the status of the event.
THEOREM Outcome == Spec => []OneOutcome
  <1>1. IInv => OneOutcome
    BY OutcomeCounts, Zenon DEF IInv
  <1>. QED
    BY <1>1, Invariance, PTL
=============================================================================
