-------------------------- MODULE SimObjectsProofs --------------------------
(***************************************************************************)
(* Proofs about simulated objects for any number of handlers, objects,     *)
(* accesses and plans.                                                     *)
(***************************************************************************)
EXTENDS SimObjects, TLAPS

\* What a call knows while it is away from the catalog: the object or access it
\* found has not vanished, and what it did at the provider is still so.
CallInv(c) ==
    /\ c.op = "create" => /\ c.step = "commit" /\ c.object \in resources
                          /\ object[c.object] = "None"
    /\ c.op = "publish" => c.range \in Range_ /\ c.object \in Object /\ object[c.object] # "None"
    /\ c.op = "import" =>
          /\ c.range \in Range_ /\ c.object \in Object /\ object[c.object] # "None"
          /\ descriptor[c.object] # None
          /\ c.step = "commit" =>
                /\ c.access \in Access /\ access[c.access] = None
                /\ accesses[c.access] = [source |-> c.object, range |-> c.range]
    /\ c.op = "checksum" => c.access \in Access /\ access[c.access] # None
    /\ c.op = "revoke" =>
          /\ c.access \in Access /\ access[c.access] # None
          /\ c.step = "commit" => accesses[c.access] = None
    /\ c.op = "release" =>
          /\ c.object \in Object /\ object[c.object] # "None"
          /\ c.step = "commit" => object[c.object] = "Ready" /\ c.object \notin resources

\* No two handlers are about to enter the same object or the same access, or
\* have both released one object.
Exclusive(c, d) ==
    /\ c.op = "create" /\ d.op = "create" => c.object # d.object
    /\ /\ c.op = "import" /\ d.op = "import" /\ c.step = "commit" /\ d.step = "commit"
       => c.access # d.access
    /\ /\ c.op = "release" /\ d.op = "release" /\ c.step = "commit" /\ d.step = "commit"
       => c.object # d.object

CallsInv ==
    /\ \A h \in Handler : CallInv(call[h])
    /\ \A h, k \in Handler : h # k => Exclusive(call[h], call[k])

Doing(op, o) == \E h \in Handler : Commits(h, op) /\ call[h].object = o
DoingAccess(op, a) == \E h \in Handler : Commits(h, op) /\ call[h].access = a

\* Catalog and provider agree, but for what some call is about to enter.
Agreement ==
    /\ \A o \in Object : object[o] = "Released" => o \notin resources
    /\ \A o \in resources : object[o] = "None" => Doing("create", o)
    /\ \A o \in Object : object[o] = "Ready" => o \in resources \/ Doing("release", o)
    /\ \A a \in Access : accesses[a] # None =>
          /\ accesses[a].source \in resources
          /\ access[a] = None => DoingAccess("import", a)
          /\ access[a] # None => /\ access[a].state = "Ready"
                                 /\ accesses[a].source = access[a].object
                                 /\ accesses[a].range = access[a].range
    /\ \A a \in ReadyAccesses : accesses[a] = None => DoingAccess("revoke", a)
    /\ \A a \in ReadyAccesses : object[access[a].object] # "Released"

\* Plans exist where they are named, and the plan of an access has its import step.
Planned ==
    /\ \A o \in Object : descriptor[o] # None => object_plan[o] # None
    /\ \A o \in Object : object_plan[o] # None => plans[object_plan[o]] # None
    /\ \A a \in Access : access[a] # None =>
          LET p == plans[access[a].plan]
          IN p # None /\ \E j \in DOMAIN p.steps : p.steps[j] = [step_id |-> 2, access |-> a]

IInv == TypeOK /\ CallsInv /\ Agreement /\ Planned /\ ValidationOrder

-----------------------------------------------------------------------------
\* The empty catalog satisfies the invariant.
LEMMA InitIInv == Init => IInv
  BY NoneAssumption DEF Init, IInv, TypeOK, CallsInv, CallInv, Exclusive, NoCall, Agreement,
     ReadyAccesses, Planned, ValidationOrder

\* A call under way is a whole one.
LEMMA CallType ==
  ASSUME TypeOK, NEW h \in Handler, call[h].op # "none"
  PROVE  call[h] \in Call
  BY DEF TypeOK, NoCall

\* A request a handler starts (the ones object_service.rs accepts) is a well-formed call.
LEMMA RequestType ==
  ASSUME NEW op \in Op, NEW o \in Object \cup {None}, NEW a \in Access \cup {None},
         NEW r \in Range_ \cup {None}, NEW d \in Range_ \cup {None}
  PROVE  Request(op, o, a, r, d) \in Call
  BY Zenon DEF Request, Call

\* A step is added at the end of its plan and nothing else moves.
LEMMA AddStepType ==
  ASSUME TypeOK, NEW p \in Plan, plans[p] # None, NEW id \in {2, 3}, NEW a \in Access
  PROVE  /\ AddStep(p, id, a) \in [Plan -> PlanRecord \cup {None}]
         /\ AddStep(p, id, a)[p] \in PlanRecord
         /\ AddStep(p, id, a)[p].steps = Append(plans[p].steps, [step_id |-> id, access |-> a])
         /\ AddStep(p, id, a)[p].parent = plans[p].parent
         /\ \A q \in Plan : q # p => AddStep(p, id, a)[q] = plans[q]
  <1>1. plans[p] \in PlanRecord
    BY Zenon DEF TypeOK
  <1>2. Append(plans[p].steps, [step_id |-> id, access |-> a]) \in Seq(Step)
    BY <1>1 DEF PlanRecord, Step
  <1>3. [plans[p] EXCEPT !.steps = Append(plans[p].steps, [step_id |-> id, access |-> a])]
          \in PlanRecord
    BY <1>1, <1>2, Zenon DEF PlanRecord
  <1>4. AddStep(p, id, a) = [plans EXCEPT ![p] =
           [plans[p] EXCEPT !.steps = Append(plans[p].steps, [step_id |-> id, access |-> a])]]
    BY Zenon DEF AddStep
  <1>. QED
    BY <1>1, <1>3, <1>4, ZenonT(60) DEF TypeOK, PlanRecord

\* Every variable keeps its type.
LEMMA NextType == IInv /\ Next => TypeOK'
  <1>. SUFFICES ASSUME IInv, NEW h \in Handler, Handle(h) PROVE TypeOK'
    BY Zenon DEF Next
  <1>. USE NoneAssumption DEF IInv, catalog, provider
  <1>1. ASSUME NEW op \in Op, NEW o \in Object \cup {None}, NEW a \in Access \cup {None},
               NEW r \in Range_ \cup {None}, NEW d \in Range_ \cup {None},
               Begin(h, Request(op, o, a, r, d))
        PROVE  TypeOK'
    <2>. DEFINE c == Request(op, o, a, r, d)
    <2>1. c \in Call
      BY RequestType, Zenon
    <2>2. call' = [call EXCEPT ![h] = c] /\ UNCHANGED <<catalog, provider>>
      BY <1>1, Zenon DEF Begin
    <2>. HIDE DEF c
    <2>. QED
      BY <2>1, <2>2, Zenon DEF TypeOK
  <1>2. Returned(h) => (call \in [Handler -> Call \cup {NoCall}])'
    BY Zenon DEF Returned, TypeOK
  <1>3. call[h].op # "none" /\ Completed(h) => (call \in [Handler -> Call \cup {NoCall}])'
    BY CallType DEF Completed, TypeOK, Call
  <1>4. CASE create_data_object(h)
    <2>1. PICK o \in Object : /\ resources' = resources \cup {o}
                              /\ call' = [call EXCEPT ![h] = [Request("create", o, None, None, None)
                                                               EXCEPT !.step = "commit"]]
      BY <1>4, Zenon DEF create_data_object, Allocate
    <2>2. [Request("create", o, None, None, None) EXCEPT !.step = "commit"] \in Call
      BY Zenon DEF Request, Call, Op
    <2>. QED
      BY <1>4, <2>1, <2>2, Zenon DEF create_data_object, TypeOK
  <1>5. CASE CommitCreate(h)
    BY <1>2, <1>5, Zenon DEF CommitCreate, TypeOK
  <1>6. CASE publish(h)
    BY <1>1, <1>6, Zenon DEF publish, Op
  <1>7. CASE SubmitPublish(h) \/ SubmitChecksum(h)
    BY <1>3, <1>7, Zenon DEF SubmitPublish, SubmitChecksum, Submitted, TypeOK
  <1>8. CASE CommitPublish(h)
    <2>. DEFINE o == call[h].object
    <2>1. o \in Object /\ call[h].range \in Range_
      BY <1>8, Zenon DEF CommitPublish, Commits, CallsInv, CallInv
    <2>2. PICK p \in Plan :
             /\ plans' = [plans EXCEPT ![p] = [object |-> o, parent |-> "Running",
                                               steps |-> <<[step_id |-> 1, access |-> None]>>]]
             /\ object_plan' = [object_plan EXCEPT ![o] = p]
      BY <1>8, Zenon DEF CommitPublish
    <2>3. [object |-> o, parent |-> "Running", steps |-> <<[step_id |-> 1, access |-> None]>>]
            \in PlanRecord
      BY <2>1 DEF PlanRecord, Step
    <2>4. plans' \in [Plan -> PlanRecord \cup {None}]
      BY <2>2, <2>3, Zenon DEF TypeOK
    <2>. QED
      BY <1>2, <1>8, <2>1, <2>2, <2>4, Zenon DEF CommitPublish, TypeOK
  <1>9. CASE import_read_only(h)
    <2>1. PICK o \in Object, r \in Range_ :
             /\ descriptor[o] # None
             /\ Begin(h, Request("import", o, None, r, [offset |-> 0, nbytes |-> descriptor[o].nbytes]))
      BY <1>9, Zenon DEF import_read_only
    <2>2. [offset |-> 0, nbytes |-> descriptor[o].nbytes] \in Range_
      BY <2>1, SizeAssumption DEF TypeOK, Range_
    <2>. QED
      BY <1>1, <2>1, <2>2, Zenon DEF Op
  <1>10. CASE SubmitImport(h)
    <2>1. call[h] \in Call /\ call[h].object \in Object /\ call[h].range \in Range_
      BY <1>10, CallType, Zenon DEF SubmitImport, Submitted, CallsInv, CallInv
    <2>2. PICK a \in Access :
             /\ accesses' = [accesses EXCEPT ![a] = [source |-> call[h].object, range |-> call[h].range]]
             /\ call' = [call EXCEPT ![h].step = "commit", ![h].access = a]
      BY <1>10, Zenon DEF SubmitImport
    <2>3. accesses' \in [Access -> ProviderAccess \cup {None}]
      BY <2>1, <2>2, Zenon DEF TypeOK, ProviderAccess
    <2>4. call' \in [Handler -> Call \cup {NoCall}]
      BY <2>1, <2>2, Zenon DEF TypeOK, Call
    <2>. QED
      BY <1>10, <2>3, <2>4, Zenon DEF SubmitImport, TypeOK
  <1>11. ASSUME NEW p \in Plan, plans[p] # None, NEW id \in {2, 3}, NEW a \in Access
         PROVE  AddStep(p, id, a) \in [Plan -> PlanRecord \cup {None}]
    BY <1>11, AddStepType, Zenon
  <1>12. CASE CommitImport(h)
    <2>. DEFINE c == call[h]
                p == object_plan[c.object]
    <2>1. c.object \in Object /\ c.range \in Range_ /\ c.access \in Access /\ descriptor[c.object] # None
      BY <1>12, Zenon DEF CommitImport, Commits, CallsInv, CallInv
    <2>2. p \in Plan /\ plans[p] # None
      BY <2>1, Zenon DEF Planned, TypeOK
    <2>3. access' \in [Access -> AccessRecord \cup {None}]
      BY <1>12, <2>1, <2>2, Zenon DEF CommitImport, TypeOK, AccessRecord
    <2>4. plans' \in [Plan -> PlanRecord \cup {None}]
      BY <1>11, <1>12, <2>1, <2>2, Zenon DEF CommitImport
    <2>. QED
      BY <1>2, <1>12, <2>3, <2>4, Zenon DEF CommitImport, TypeOK
  <1>13. CASE checksum_access(h) \/ revoke_access(h)
    BY <1>1, <1>13, Zenon DEF checksum_access, revoke_access, ReadyAccesses, Op
  <1>14. CASE CommitChecksum(h)
    <2>. DEFINE a == call[h].access
                p == access[a].plan
    <2>1. a \in Access /\ access[a] # None
      BY <1>14, Zenon DEF CommitChecksum, Commits, CallsInv, CallInv
    <2>2. p \in Plan /\ plans[p] # None
      BY <2>1, Zenon DEF Planned, TypeOK, AccessRecord
    <2>3. plans' \in [Plan -> PlanRecord \cup {None}]
      <3>1. AddStep(p, 3, a) \in [Plan -> PlanRecord \cup {None}] /\ AddStep(p, 3, a)[p] \in PlanRecord
        BY <2>1, <2>2, AddStepType, Zenon
      <3>2. [AddStep(p, 3, a) EXCEPT ![p].parent = "Complete"] \in [Plan -> PlanRecord \cup {None}]
        BY <2>2, <3>1, Zenon DEF PlanRecord
      <3>. QED
        BY <1>14, <3>2, Zenon DEF CommitChecksum, TypeOK
    <2>. QED
      BY <1>2, <1>14, <2>3, Zenon DEF CommitChecksum, TypeOK
  <1>15. CASE SubmitRevoke(h)
    BY <1>3, <1>15, Zenon DEF SubmitRevoke, Submitted, TypeOK
  <1>16. CASE CommitRevoke(h)
    <2>1. call[h].access \in Access /\ access[call[h].access] \in AccessRecord
      BY <1>16, Zenon DEF CommitRevoke, Commits, CallsInv, CallInv, TypeOK
    <2>2. access' \in [Access -> AccessRecord \cup {None}]
      BY <1>16, <2>1, Zenon DEF CommitRevoke, TypeOK, AccessRecord
    <2>. QED
      BY <1>2, <1>16, <2>2, Zenon DEF CommitRevoke, TypeOK
  <1>17. CASE release_data_object(h)
    BY <1>1, <1>17, Zenon DEF release_data_object, Op
  <1>18. CASE SubmitRelease(h)
    BY <1>3, <1>18, Zenon DEF SubmitRelease, Submitted, TypeOK
  <1>19. CASE CommitRelease(h)
    <2>1. access' \in [Access -> AccessRecord \cup {None}]
      BY <1>19 DEF CommitRelease, mark_object_released, TypeOK, AccessRecord
    <2>. QED
      BY <1>2, <1>19, <2>1, Zenon DEF CommitRelease, mark_object_released, TypeOK
  <1>20. CASE Refuse(h)
    BY <1>2, <1>20, Zenon DEF Refuse, TypeOK
  <1>. QED
    BY <1>4, <1>5, <1>6, <1>7, <1>8, <1>9, <1>10, <1>12, <1>13, <1>14, <1>15, <1>16, <1>17, <1>18,
       <1>19, <1>20, Zenon DEF Handle

\* A handler's step leaves what the calls of the others know true.
LEMMA NextCalls == IInv /\ Next => CallsInv'
  <1>. SUFFICES ASSUME IInv, NEW h \in Handler, Handle(h) PROVE CallsInv'
    BY Zenon DEF Next
  <1>. USE NoneAssumption DEF IInv, catalog, provider, Returned, Completed, Submitted, Commits
  <1>1. ASSUME \A k \in Handler \ {h} : call'[k] = call[k],
               \A k \in Handler : CallInv(call[k])',
               \A k \in Handler \ {h} : Exclusive(call[h], call[k])' /\ Exclusive(call[k], call[h])'
        PROVE  CallsInv'
    BY <1>1 DEF CallsInv, Exclusive
  <1>2. ASSUME Returned(h), \A k \in Handler \ {h} : CallInv(call[k])' PROVE CallsInv'
    <2>1. call'[h] = NoCall /\ \A k \in Handler \ {h} : call'[k] = call[k]
      BY <1>2, Zenon DEF TypeOK
    <2>. QED
      BY <1>1, <1>2, <2>1 DEF CallInv, Exclusive, NoCall
  <1>3. CASE create_data_object(h)
    <2>1. PICK o \in Object : /\ object[o] = "None" /\ o \notin resources
                              /\ resources' = resources \cup {o}
                              /\ call' = [call EXCEPT ![h] = [Request("create", o, None, None, None)
                                                               EXCEPT !.step = "commit"]]
      BY <1>3, Zenon DEF create_data_object, Allocate
    <2>2. UNCHANGED <<object, descriptor, access, accesses>>
      BY <1>3, Zenon DEF create_data_object
    <2>3. /\ call'[h].op = "create" /\ call'[h].step = "commit" /\ call'[h].object = o
          /\ \A k \in Handler \ {h} : call'[k] = call[k]
      BY <2>1, Zenon DEF TypeOK, Request
    <2>4. \A k \in Handler : CallInv(call[k])'
      BY <2>1, <2>2, <2>3 DEF CallsInv, CallInv
    <2>5. \A k \in Handler \ {h} : Exclusive(call[h], call[k])' /\ Exclusive(call[k], call[h])'
      <3>1. \A k \in Handler : call[k].op = "create" => call[k].object \in resources
        BY Zenon DEF CallsInv, CallInv
      <3>. QED
        BY <2>1, <2>3, <3>1, Zenon DEF Exclusive
    <2>. QED
      BY <1>1, <2>3, <2>4, <2>5, Zenon
  <1>4. CASE CommitCreate(h) \/ Refuse(h)
    <2>1. \A k \in Handler \ {h} : CallInv(call[k])'
      BY <1>4 DEF CommitCreate, Refuse, TypeOK, CallsInv, CallInv, Exclusive
    <2>. QED
      BY <1>2, <1>4, <2>1, Zenon DEF CommitCreate, Refuse
  <1>5. CASE publish(h) \/ import_read_only(h) \/ checksum_access(h) \/ revoke_access(h)
             \/ release_data_object(h)
    <2>1. \E c : Begin(h, c) /\ c.op # "create" /\ c.step = "submit" /\ CallInv(c)
      <3>. USE DEF Request, CallInv
      <3>1. CASE publish(h)
        BY <3>1 DEF publish
      <3>2. CASE import_read_only(h)
        <4>1. PICK o \in Object, r \in Range_ :
                /\ object[o] = "Ready" /\ descriptor[o] # None
                /\ Begin(h, Request("import", o, None, r,
                                    [offset |-> 0, nbytes |-> descriptor[o].nbytes]))
          BY <3>2, Zenon DEF import_read_only
        <4>. DEFINE d == [offset |-> 0, nbytes |-> descriptor[o].nbytes]
        <4>2. CallInv(Request("import", o, None, r, d))
          BY <4>1, Zenon
        <4>. QED
          BY <4>1, <4>2, Zenon
      <3>3. CASE checksum_access(h)
        BY <3>3 DEF checksum_access, ReadyAccesses
      <3>4. CASE revoke_access(h)
        BY <3>4 DEF revoke_access, ReadyAccesses
      <3>5. CASE release_data_object(h)
        BY <3>5 DEF release_data_object
      <3>. QED
        BY <1>5, <3>1, <3>2, <3>3, <3>4, <3>5, Zenon
    <2>2. PICK c : Begin(h, c) /\ c.op # "create" /\ c.step = "submit" /\ CallInv(c)
      BY <2>1, Zenon
    <2>3. UNCHANGED <<object, descriptor, access, accesses, resources>>
      BY <2>2, Zenon DEF Begin
    <2>4. call'[h] = c /\ \A k \in Handler \ {h} : call'[k] = call[k]
      BY <2>2, Zenon DEF Begin, TypeOK
    <2>5. \A k \in Handler : CallInv(call[k])'
      <3>1. \A k \in Handler : CallInv(call[k])
        BY Zenon DEF CallsInv
      <3>2. \A k \in Handler : CallInv(call'[k])
        BY <2>2, <2>4, <3>1, Zenon
      <3>. QED
        BY <2>3, <3>2, Zenon DEF CallInv
    <2>6. \A k \in Handler \ {h} : Exclusive(call[h], call[k])' /\ Exclusive(call[k], call[h])'
      BY <2>2, <2>4, Zenon DEF Exclusive
    <2>. QED
      BY <1>1, <2>4, <2>5, <2>6, Zenon
  <1>6. CASE SubmitPublish(h) \/ SubmitChecksum(h)
    <2>1. CASE SubmitPublish(h)
      BY <2>1 DEF SubmitPublish, TypeOK, CallsInv, CallInv, Exclusive, NoCall
    <2>2. CASE SubmitChecksum(h)
      BY <2>2 DEF SubmitChecksum, TypeOK, CallsInv, CallInv, Exclusive, NoCall
    <2>. QED
      BY <1>6, <2>1, <2>2, Zenon
  <1>7. CASE CommitPublish(h)
    <2>1. descriptor' = [descriptor EXCEPT ![call[h].object] = call[h].range]
      BY <1>7, Zenon DEF CommitPublish
    <2>2. call[h].range # None /\ UNCHANGED <<object, access, accesses, resources>>
      BY <1>7, Zenon DEF CommitPublish, CallsInv, CallInv
    <2>3. \A k \in Handler \ {h} : call'[k] = call[k]
      BY <1>7, Zenon DEF CommitPublish, TypeOK
    <2>4. \A k \in Handler \ {h} : CallInv(call[k])'
      BY <2>1, <2>2, <2>3 DEF TypeOK, CallsInv, CallInv
    <2>. QED
      BY <1>2, <1>7, <2>4, Zenon DEF CommitPublish
  <1>8. CASE SubmitImport(h)
    <2>1. PICK a \in Access :
             /\ accesses[a] = None /\ access[a] = None
             /\ accesses' = [accesses EXCEPT ![a] = [source |-> call[h].object, range |-> call[h].range]]
             /\ call' = [call EXCEPT ![h].step = "commit", ![h].access = a]
      BY <1>8, Zenon DEF SubmitImport
    <2>2. UNCHANGED <<object, descriptor, access, resources>>
      BY <1>8, Zenon DEF SubmitImport
    <2>3. call[h] \in Call /\ call[h].op = "import"
      BY <1>8, CallType, Zenon DEF SubmitImport
    <2>4. /\ call'[h].op = "import" /\ call'[h].step = "commit" /\ call'[h].access = a
          /\ call'[h].object = call[h].object /\ call'[h].range = call[h].range
          /\ \A k \in Handler \ {h} : call'[k] = call[k]
      BY <2>1, <2>3, Zenon DEF TypeOK, Call
    <2>5. accesses'[a] = [source |-> call[h].object, range |-> call[h].range]
      BY <2>1, Zenon DEF TypeOK
    <2>6. CallInv(call[h])'
      BY <2>1, <2>2, <2>3, <2>4, <2>5, Zenon DEF CallsInv, CallInv
    <2>7. \A k \in Handler \ {h} : CallInv(call[k])'
      <3>1. \A b \in Access : b # a => accesses'[b] = accesses[b]
        BY <2>1, Zenon DEF TypeOK
      <3>2. \A k \in Handler \ {h} :
               /\ CallInv(call[k])
               /\ call[k].op = "import" /\ call[k].step = "commit" => call[k].access # a
               /\ call[k].op = "revoke" => call[k].access # a
        <4>. SUFFICES ASSUME NEW k \in Handler \ {h}
                     PROVE  /\ CallInv(call[k])
                            /\ call[k].op = "import" /\ call[k].step = "commit" => call[k].access # a
                            /\ call[k].op = "revoke" => call[k].access # a
          OBVIOUS
        <4>1. CallInv(call[k])
          BY Zenon DEF CallsInv
        <4>2. [source |-> call[k].object, range |-> call[k].range] # None
              \/ ~(call[k].op = "import")
          BY <4>1 DEF CallInv, ProviderAccess
        <4>. QED
          BY <2>1, <4>1, <4>2, Zenon DEF CallInv
      <3>. SUFFICES ASSUME NEW k \in Handler \ {h} PROVE CallInv(call[k])'
        OBVIOUS
      <3>3. /\ CallInv(call[k]) /\ call'[k] = call[k]
            /\ call[k].op = "import" /\ call[k].step = "commit" => call[k].access # a
            /\ call[k].op = "revoke" => call[k].access # a
        BY <2>4, <3>2, Zenon
      <3>. QED
        BY <2>2, <3>1, <3>3, Zenon DEF CallInv
    <2>8. \A k \in Handler \ {h} : Exclusive(call[h], call[k])' /\ Exclusive(call[k], call[h])'
      <3>. SUFFICES ASSUME NEW k \in Handler \ {h}, call[k].op = "import", call[k].step = "commit"
                   PROVE  call[k].access # a
        BY <2>4, Zenon DEF Exclusive
      <3>1. /\ accesses[call[k].access] = [source |-> call[k].object, range |-> call[k].range]
            /\ call[k].object \in Object /\ call[k].range \in Range_
        BY SMTT(30) DEF CallsInv, CallInv
      <3>. QED
        BY <2>1, <3>1 DEF ProviderAccess
    <2>. QED
      BY <1>1, <2>4, <2>6, <2>7, <2>8, Zenon
  <1>9. CASE CommitImport(h)
    <2>1. /\ call[h].op = "import" /\ call[h].step = "commit"
          /\ call[h].access \in Access /\ access[call[h].access] = None
          /\ call[h].object \in Object /\ call[h].range \in Range_ /\ descriptor[call[h].object] # None
      BY <1>9, Zenon DEF CommitImport, CallsInv, CallInv
    <2>2. object_plan[call[h].object] \in Plan
      BY <2>1 DEF TypeOK, Planned
    <2>3. access'[call[h].access] # None /\ \A b \in Access : b # call[h].access => access'[b] = access[b]
      BY <1>9, <2>1, <2>2 DEF CommitImport, TypeOK, AccessRecord
    <2>4. UNCHANGED <<object, descriptor, accesses, resources>>
      BY <1>9, Zenon DEF CommitImport
    <2>5. \A k \in Handler \ {h} : call'[k] = call[k]
      BY <1>9, SMTT(30) DEF CommitImport, TypeOK
    <2>6. \A k \in Handler \ {h} : CallInv(call[k])'
      <3>. SUFFICES ASSUME NEW k \in Handler \ {h} PROVE CallInv(call[k])'
        OBVIOUS
      <3>1. CallInv(call[k]) /\ Exclusive(call[h], call[k]) /\ call'[k] = call[k]
        BY <2>5, Zenon DEF CallsInv
      <3>2. call[k].op = "import" /\ call[k].step = "commit" => call[k].access # call[h].access
        BY <2>1, <3>1, Zenon DEF Exclusive
      <3>. QED
        BY <2>3, <2>4, <3>1, <3>2, Zenon DEF CallInv
    <2>. QED
      BY <1>2, <1>9, <2>6, Zenon DEF CommitImport
  <1>10. CASE CommitChecksum(h)
    <2>1. UNCHANGED <<object, descriptor, access, accesses, resources>>
      BY <1>10, Zenon DEF CommitChecksum
    <2>2. \A k \in Handler \ {h} : CallInv(call[k])'
      BY <1>10, <2>1 DEF CommitChecksum, TypeOK, CallsInv, CallInv
    <2>. QED
      BY <1>2, <1>10, <2>2, Zenon DEF CommitChecksum
  <1>11. CASE SubmitRevoke(h)
    BY <1>11 DEF SubmitRevoke, TypeOK, CallsInv, CallInv, Exclusive, NoCall
  <1>12. CASE CommitRevoke(h)
    <2>1. \A b \in Access : access'[b] = None <=> access[b] = None
      BY <1>12, ZenonT(60) DEF CommitRevoke, TypeOK, AccessRecord, CallsInv, CallInv
    <2>2. UNCHANGED <<object, descriptor, accesses, resources>>
      BY <1>12, Zenon DEF CommitRevoke
    <2>3. \A k \in Handler \ {h} : CallInv(call[k])'
      BY <1>12, <2>1, <2>2 DEF CommitRevoke, TypeOK, CallsInv, CallInv
    <2>. QED
      BY <1>2, <1>12, <2>3, Zenon DEF CommitRevoke
  <1>13. CASE SubmitRelease(h)
    <2>1. /\ call[h] \in Call /\ call[h].op = "release" /\ call[h].object \in resources
          /\ resources' = resources \ {call[h].object}
          /\ UNCHANGED <<object, descriptor, access, accesses>>
      BY <1>13, CallType, Zenon DEF SubmitRelease, Executes, Releasable
    <2>2. /\ call'[h].op = "release" /\ call'[h].step = "commit" /\ call'[h].object = call[h].object
          /\ \A k \in Handler \ {h} : call'[k] = call[k]
      BY <1>13, <2>1, Zenon DEF SubmitRelease, TypeOK, Call
    <2>3. call[h].object \in Object /\ object[call[h].object] = "Ready"
      <3>1. call[h].object \in Object /\ object[call[h].object] # "None"
        BY <2>1, Zenon DEF CallsInv, CallInv
      <3>2. object[call[h].object] # "Released"
        BY <2>1, <3>1, Zenon DEF Agreement
      <3>. QED
        BY <3>1, <3>2, Zenon DEF TypeOK
    <2>4. \A k \in Handler : CallInv(call[k])'
      <3>1. CallInv(call[h])'
        BY <2>1, <2>2, <2>3, SMTT(30) DEF CallInv
      <3>2. ASSUME NEW k \in Handler \ {h} PROVE CallInv(call[k])'
        <4>1. CallInv(call[k]) /\ call'[k] = call[k]
          BY <2>2, Zenon DEF CallsInv
        <4>2. call[k].op = "create" => call[k].object # call[h].object
          BY <2>3, <4>1, Zenon DEF CallInv
        <4>. QED
          BY <2>1, <4>1, <4>2, Zenon DEF CallInv
      <3>. QED
        BY <3>1, <3>2, Zenon
    <2>5. \A k \in Handler \ {h} : Exclusive(call[h], call[k])' /\ Exclusive(call[k], call[h])'
      BY <2>1, <2>2, <2>3, ZenonT(60) DEF CallsInv, CallInv, Exclusive
    <2>. QED
      BY <1>1, <2>2, <2>4, <2>5, Zenon
  <1>14. CASE CommitRelease(h)
    <2>1. \A b \in Access : access'[b] = None <=> access[b] = None
      BY <1>14, Zenon DEF CommitRelease, mark_object_released, TypeOK, AccessRecord
    <2>2. /\ UNCHANGED <<descriptor, accesses, resources>>
          /\ object' = [object EXCEPT ![call[h].object] = "Released"]
          /\ call[h].op = "release" /\ call[h].step = "commit"
      BY <1>14, Zenon DEF CommitRelease, mark_object_released
    <2>3. \A k \in Handler \ {h} : call'[k] = call[k]
      BY <1>14, Zenon DEF CommitRelease, TypeOK
    <2>4. \A k \in Handler \ {h} : CallInv(call[k])'
      <3>1. call[h].object \in Object /\ object[call[h].object] = "Ready"
        BY <2>2, Zenon DEF CallsInv, CallInv
      <3>2. \A o \in Object : /\ object'[o] = "None" <=> object[o] = "None"
                              /\ o # call[h].object => object'[o] = object[o]
        BY <2>2, <3>1, Zenon DEF TypeOK
      <3>. SUFFICES ASSUME NEW k \in Handler \ {h} PROVE CallInv(call[k])'
        OBVIOUS
      <3>3. CallInv(call[k]) /\ Exclusive(call[h], call[k]) /\ call'[k] = call[k]
        BY <2>3, Zenon DEF CallsInv
      <3>4. /\ call[k].op = "release" /\ call[k].step = "commit" => call[k].object # call[h].object
            /\ call[k].op = "create" => call[k].object # call[h].object
        BY <2>2, <3>1, <3>3, Zenon DEF CallInv, Exclusive
      <3>5. UNCHANGED <<descriptor, accesses, resources>>
        BY <2>2, Zenon
      <3>6. resources \subseteq Object
        BY Zenon DEF TypeOK
      <3>. HIDE NoneAssumption DEF IInv
      <3>. QED
        BY <2>1, <3>2, <3>3, <3>4, <3>5, <3>6, SMTT(30) DEF CallInv
    <2>. QED
      BY <1>2, <1>14, <2>4, Zenon DEF CommitRelease
  <1>. QED
    BY <1>3, <1>4, <1>5, <1>6, <1>7, <1>8, <1>9, <1>10, <1>11, <1>12, <1>13, <1>14, Zenon DEF Handle

\* A handler's step keeps catalog and provider in agreement.
LEMMA NextAgreement == IInv /\ Next => Agreement'
  <1>. SUFFICES ASSUME IInv, NEW h \in Handler, Handle(h) PROVE Agreement'
    BY Zenon DEF Next
  <1>. USE NoneAssumption DEF IInv, catalog, provider
  <1>. DEFINE Idle == call[h].op \in {"none", "publish", "checksum"} \/ call[h].step = "submit"
  <1>1. \A k \in Handler \ {h} : call'[k] = call[k]
    BY ZenonT(60) DEF Handle, create_data_object, CommitCreate, publish, SubmitPublish, CommitPublish,
       import_read_only, SubmitImport, CommitImport, checksum_access, SubmitChecksum, CommitChecksum,
       revoke_access, SubmitRevoke, CommitRevoke, release_data_object, SubmitRelease, CommitRelease,
       Refuse, Begin, Returned, Completed, TypeOK
  <1>2. /\ \A op \in {"create", "release"}, o \in Object :
              Doing(op, o) => Doing(op, o)' \/ (Commits(h, op) /\ call[h].object = o)
        /\ \A op \in {"import", "revoke"}, a \in Access :
              DoingAccess(op, a) => DoingAccess(op, a)' \/ (Commits(h, op) /\ call[h].access = a)
    <2>1. ASSUME NEW op \in {"create", "release"}, NEW o \in Object, Doing(op, o)
          PROVE  Doing(op, o)' \/ (Commits(h, op) /\ call[h].object = o)
      <3>1. PICK k \in Handler : Commits(k, op) /\ call[k].object = o
        BY <2>1, Zenon DEF Doing
      <3>2. k # h => Commits(k, op)' /\ call'[k].object = o
        BY <1>1, <3>1, Zenon DEF Commits
      <3>. QED
        BY <3>1, <3>2, Zenon DEF Doing
    <2>2. ASSUME NEW op \in {"import", "revoke"}, NEW a \in Access, DoingAccess(op, a)
          PROVE  DoingAccess(op, a)' \/ (Commits(h, op) /\ call[h].access = a)
      <3>1. PICK k \in Handler : Commits(k, op) /\ call[k].access = a
        BY <2>2, Zenon DEF DoingAccess
      <3>2. k # h => Commits(k, op)' /\ call'[k].access = a
        BY <1>1, <3>1, Zenon DEF Commits
      <3>. QED
        BY <3>1, <3>2, Zenon DEF DoingAccess
    <2>. QED
      BY <2>1, <2>2, Zenon
  <1>3. Idle => /\ \A op \in {"create", "release"}, o \in Object : Doing(op, o) => Doing(op, o)'
                /\ \A op \in {"import", "revoke"}, a \in Access : DoingAccess(op, a) => DoingAccess(op, a)'
    BY <1>2, Zenon DEF Commits
  <1>4. ASSUME Idle, UNCHANGED <<object, access, provider>> PROVE Agreement'
    BY <1>3, <1>4, Zenon DEF Agreement, ReadyAccesses, TypeOK
  <1>5. CASE publish(h) \/ import_read_only(h) \/ checksum_access(h) \/ revoke_access(h)
             \/ release_data_object(h)
    <2>1. call[h] = NoCall /\ UNCHANGED <<object, access, provider>>
      BY <1>5, Zenon DEF publish, import_read_only, checksum_access, revoke_access, release_data_object, Begin
    <2>. QED
      BY <1>4, <2>1 DEF NoCall
  <1>6. CASE SubmitPublish(h) \/ SubmitChecksum(h) \/ CommitPublish(h) \/ CommitChecksum(h) \/ Refuse(h)
    <2>1. Idle /\ UNCHANGED <<object, access, provider>>
      BY <1>6, Zenon DEF SubmitPublish, SubmitChecksum, CommitPublish, CommitChecksum, Refuse, Submitted, Commits
    <2>. QED
      BY <1>4, <2>1, Zenon
  <1>7. CASE create_data_object(h)
    <2>1. Idle /\ UNCHANGED <<object, access, accesses>>
      BY <1>7 DEF create_data_object, NoCall
    <2>2. PICK o \in Object : /\ object[o] = "None" /\ o \notin resources
                              /\ resources' = resources \cup {o}
                              /\ call' = [call EXCEPT ![h] = [Request("create", o, None, None, None)
                                                               EXCEPT !.step = "commit"]]
      BY <1>7, Zenon DEF create_data_object, Allocate
    <2>3. Doing("create", o)'
      BY <2>2, Zenon DEF Doing, Commits, Request, TypeOK
    <2>. QED
      BY <1>3, <2>1, <2>2, <2>3, Zenon DEF Agreement, ReadyAccesses, TypeOK
  <1>8. CASE CommitCreate(h)
    <2>1. /\ Commits(h, "create") /\ UNCHANGED <<access, provider>>
          /\ object' = [object EXCEPT ![call[h].object] = "Ready"]
      BY <1>8, Zenon DEF CommitCreate
    <2>2. call[h].object \in resources /\ object[call[h].object] = "None"
      BY <2>1, Zenon DEF CallsInv, CallInv, Commits
    <2>3. /\ \A o \in Object : Doing("release", o) => Doing("release", o)'
          /\ \A o \in Object : Doing("create", o) => Doing("create", o)' \/ o = call[h].object
          /\ \A op \in {"import", "revoke"}, a \in Access : DoingAccess(op, a) => DoingAccess(op, a)'
      BY <1>2, <2>1, Zenon DEF Commits
    <2>4. /\ object'[call[h].object] = "Ready"
          /\ \A o \in Object : o # call[h].object => object'[o] = object[o]
      BY <2>1, <2>2, Zenon DEF TypeOK
    <2>. QED
      BY <2>1, <2>2, <2>3, <2>4, ZenonT(60) DEF Agreement, ReadyAccesses, TypeOK, AccessRecord
  <1>9. CASE SubmitImport(h)
    <2>1. Idle /\ UNCHANGED <<object, access, resources>> /\ call[h].op = "import"
      BY <1>9, Zenon DEF SubmitImport, Submitted
    <2>2. PICK a \in Access :
             /\ accesses[a] = None /\ access[a] = None
             /\ accesses' = [accesses EXCEPT ![a] = [source |-> call[h].object, range |-> call[h].range]]
             /\ call' = [call EXCEPT ![h].step = "commit", ![h].access = a]
      BY <1>9, Zenon DEF SubmitImport
    <2>3. call[h].object \in resources /\ call[h] \in Call
      BY <1>9, <2>1, CallType, Zenon DEF SubmitImport, Executes, Importable
    <2>4. DoingAccess("import", a)'
      BY <2>1, <2>2, <2>3, Zenon DEF DoingAccess, Commits, TypeOK, Call
    <2>5. /\ accesses'[a] = [source |-> call[h].object, range |-> call[h].range]
          /\ \A b \in Access : b # a => accesses'[b] = accesses[b]
      BY <2>2, Zenon DEF TypeOK
    <2>6. \A b \in Access : accesses'[b] # None =>
             /\ accesses'[b].source \in resources'
             /\ access'[b] = None => DoingAccess("import", b)'
             /\ access'[b] # None => /\ access'[b].state = "Ready"
                                     /\ accesses'[b].source = access'[b].object
                                     /\ accesses'[b].range = access'[b].range
      BY <1>3, <2>1, <2>2, <2>3, <2>4, <2>5 DEF Agreement
    <2>. QED
      BY <1>3, <2>1, <2>2, <2>5, <2>6, ZenonT(60) DEF Agreement, ReadyAccesses, TypeOK
  <1>10. CASE CommitImport(h)
    <2>. DEFINE a == call[h].access
                o == call[h].object
    <2>1. Commits(h, "import") /\ UNCHANGED <<object, provider>>
      BY <1>10, SMTT(30) DEF CommitImport
    <2>2. /\ a \in Access /\ access[a] = None /\ o \in Object /\ call[h].range \in Range_
          /\ accesses[a] = [source |-> o, range |-> call[h].range] /\ descriptor[o] # None
      BY <2>1, Zenon DEF CallsInv, CallInv, Commits
    <2>3. PICK p \in Plan :
             access' = [access EXCEPT ![a] = [object |-> o, range |-> call[h].range,
                                              state |-> "Ready", plan |-> p]]
      <3>1. object_plan[o] \in Plan
        BY <2>2 DEF TypeOK, Planned
      <3>. QED
        BY <1>10, <3>1, Zenon DEF CommitImport
    <2>4. /\ access'[a] = [object |-> o, range |-> call[h].range, state |-> "Ready", plan |-> p]
          /\ \A b \in Access : b # a => access'[b] = access[b]
      BY <2>2, <2>3, Zenon DEF TypeOK
    <2>5. /\ \A op \in {"create", "release"}, q \in Object : Doing(op, q) => Doing(op, q)'
          /\ \A b \in Access : DoingAccess("revoke", b) => DoingAccess("revoke", b)'
          /\ \A b \in Access : DoingAccess("import", b) => DoingAccess("import", b)' \/ b = a
      BY <1>2, <2>1, Zenon DEF Commits
    <2>6. /\ accesses[a] # None /\ accesses[a].source = o /\ accesses[a].range = call[h].range
          /\ access'[a] # None
      BY <2>2, <2>4 DEF ProviderAccess, AccessRecord
    <2>7. o \in resources /\ object[o] # "Released"
      BY <2>2, <2>6, Zenon DEF Agreement
    <2>8. \A b \in Access : accesses'[b] # None =>
             /\ accesses'[b].source \in resources'
             /\ access'[b] = None => DoingAccess("import", b)'
             /\ access'[b] # None => /\ access'[b].state = "Ready"
                                     /\ accesses'[b].source = access'[b].object
                                     /\ accesses'[b].range = access'[b].range
      <3>. SUFFICES ASSUME NEW b \in Access, accesses'[b] # None
                   PROVE  /\ accesses'[b].source \in resources'
                          /\ access'[b] = None => DoingAccess("import", b)'
                          /\ access'[b] # None => /\ access'[b].state = "Ready"
                                                  /\ accesses'[b].source = access'[b].object
                                                  /\ accesses'[b].range = access'[b].range
        OBVIOUS
      <3>1. /\ accesses[b] # None /\ accesses'[b] = accesses[b] /\ accesses[b].source \in resources
            /\ access[b] = None => DoingAccess("import", b)
            /\ access[b] # None => /\ access[b].state = "Ready"
                                   /\ accesses[b].source = access[b].object
                                   /\ accesses[b].range = access[b].range
        BY <2>1, Zenon DEF Agreement
      <3>2. UNCHANGED resources
        BY <2>1, SMTT(30)
      <3>3. CASE b = a
        BY <2>4, <2>6, <3>1, <3>2, <3>3
      <3>4. CASE b # a
        BY <2>4, <2>5, <3>1, <3>2, <3>4, Zenon
      <3>. QED
        BY <3>3, <3>4, Zenon
    <2>9. \A b \in ReadyAccesses' : /\ accesses'[b] = None => DoingAccess("revoke", b)'
                                    /\ object'[access'[b].object] # "Released"
      BY <2>1, <2>4, <2>5, <2>6, <2>7 DEF Agreement, ReadyAccesses
    <2>. QED
      BY <2>1, <2>5, <2>8, <2>9, Zenon DEF Agreement, TypeOK
  <1>11. CASE SubmitRevoke(h)
    <2>1. /\ Idle /\ UNCHANGED <<object, access, resources>> /\ call[h].op = "revoke"
          /\ accesses' = [accesses EXCEPT ![call[h].access] = None]
          /\ call' = [call EXCEPT ![h].step = "commit"]
      BY <1>11, Zenon DEF SubmitRevoke, Submitted, Completed
    <2>2. call[h].access \in Access /\ call[h] \in Call
      BY <2>1, CallType, Zenon DEF CallsInv, CallInv
    <2>3. DoingAccess("revoke", call[h].access)'
      BY <2>1, <2>2, Zenon DEF DoingAccess, Commits, TypeOK, Call
    <2>4. accesses'[call[h].access] = None /\ \A b \in Access : b # call[h].access => accesses'[b] = accesses[b]
      BY <2>1, <2>2, Zenon DEF TypeOK
    <2>. QED
      BY <1>3, <2>1, <2>3, <2>4 DEF Agreement, ReadyAccesses, TypeOK
  <1>12. CASE CommitRevoke(h)
    <2>. DEFINE a == call[h].access
    <2>1. /\ Commits(h, "revoke") /\ UNCHANGED <<object, provider>>
          /\ access' = [access EXCEPT ![a].state = "Stale"]
      BY <1>12, Zenon DEF CommitRevoke
    <2>2. a \in Access /\ access[a] \in AccessRecord /\ accesses[a] = None
      BY <2>1, Zenon DEF CallsInv, CallInv, Commits, TypeOK
    <2>3. /\ access'[a].state = "Stale" /\ \A b \in Access : b # a => access'[b] = access[b]
          /\ access'[a].object = access[a].object
      BY <2>1, <2>2, Zenon DEF TypeOK, AccessRecord
    <2>4. /\ \A op \in {"create", "release"}, q \in Object : Doing(op, q) => Doing(op, q)'
          /\ \A b \in Access : DoingAccess("import", b) => DoingAccess("import", b)'
          /\ \A b \in Access : DoingAccess("revoke", b) => DoingAccess("revoke", b)' \/ b = a
      BY <1>2, <2>1, Zenon DEF Commits
    <2>. QED
      BY <2>1, <2>2, <2>3, <2>4 DEF Agreement, ReadyAccesses, TypeOK
  <1>13. CASE SubmitRelease(h)
    <2>1. /\ Idle /\ UNCHANGED <<object, access, accesses>> /\ call[h].op = "release"
          /\ resources' = resources \ {call[h].object} /\ AccessesOf(call[h].object) = {}
          /\ call' = [call EXCEPT ![h].step = "commit"]
      BY <1>13, Zenon DEF SubmitRelease, Submitted, Completed, Executes, Releasable
    <2>2. call[h].object \in Object /\ call[h] \in Call
      BY <2>1, CallType, Zenon DEF CallsInv, CallInv
    <2>3. Doing("release", call[h].object)'
      BY <2>1, <2>2, Zenon DEF Doing, Commits, TypeOK, Call
    <2>4. \A a \in Access : accesses[a] # None => accesses[a].source # call[h].object
      BY <2>1, Zenon DEF AccessesOf
    <2>. QED
      BY <1>3, <2>1, <2>3, <2>4 DEF Agreement, ReadyAccesses, TypeOK
  <1>14. CASE CommitRelease(h)
    <2>. DEFINE o == call[h].object
    <2>1. /\ Commits(h, "release") /\ UNCHANGED provider
          /\ object' = [object EXCEPT ![o] = "Released"]
          /\ access' = [a \in Access |->
                           IF access[a] # None /\ access[a].object = o
                           THEN [access[a] EXCEPT !.state = "Stale"] ELSE access[a]]
      BY <1>14, Zenon DEF CommitRelease, mark_object_released
    <2>2. o \in Object /\ object[o] = "Ready" /\ o \notin resources
      BY <2>1, Zenon DEF CallsInv, CallInv, Commits
    <2>3. object'[o] = "Released" /\ \A q \in Object : q # o => object'[q] = object[q]
      BY <2>1, <2>2, Zenon DEF TypeOK
    <2>4. \A a \in Access : \/ access'[a] = access[a] /\ (access[a] # None => access[a].object # o)
                            \/ /\ access[a] # None /\ access[a].object = o
                               /\ access'[a] # None /\ access'[a].state = "Stale"
      BY <2>1, Zenon DEF TypeOK, AccessRecord
    <2>5. /\ \A q \in Object : Doing("create", q) => Doing("create", q)'
          /\ \A q \in Object : Doing("release", q) => Doing("release", q)' \/ q = o
          /\ \A op \in {"import", "revoke"}, b \in Access : DoingAccess(op, b) => DoingAccess(op, b)'
      BY <1>2, <2>1, Zenon DEF Commits
    <2>6. \A b \in Access : accesses'[b] # None =>
             /\ accesses'[b].source \in resources'
             /\ access'[b] = None => DoingAccess("import", b)'
             /\ access'[b] # None => /\ access'[b].state = "Ready"
                                     /\ accesses'[b].source = access'[b].object
                                     /\ accesses'[b].range = access'[b].range
      BY <2>1, <2>2, <2>4, <2>5 DEF Agreement
    <2>7. \A b \in ReadyAccesses' : /\ accesses'[b] = None => DoingAccess("revoke", b)'
                                    /\ object'[access'[b].object] # "Released"
      <3>. SUFFICES ASSUME NEW b \in ReadyAccesses'
                   PROVE  /\ accesses'[b] = None => DoingAccess("revoke", b)'
                          /\ object'[access'[b].object] # "Released"
        OBVIOUS
      <3>1. b \in Access /\ access'[b] # None /\ access'[b].state = "Ready"
        BY Zenon DEF ReadyAccesses
      <3>2. access'[b] = access[b] /\ access[b].object # o /\ b \in ReadyAccesses
        BY <2>4, <3>1, Zenon DEF ReadyAccesses
      <3>3. (accesses[b] = None => DoingAccess("revoke", b)) /\ object[access[b].object] # "Released"
        BY <3>2, Zenon DEF Agreement
      <3>4. access[b].object \in Object
        BY <3>1, <3>2, Zenon DEF TypeOK, AccessRecord
      <3>. QED
        BY <2>1, <2>3, <2>5, <3>1, <3>2, <3>3, <3>4, Zenon DEF TypeOK
    <2>8. /\ \A q \in Object : object[q] = "Released" => q \notin resources
          /\ \A q \in resources : object[q] = "None" => Doing("create", q)
          /\ \A q \in Object : object[q] = "Ready" => q \in resources \/ Doing("release", q)
          /\ resources \subseteq Object /\ resources' = resources
      BY <2>1, Zenon DEF Agreement, TypeOK
    <2>9. \A q \in Object : object'[q] = "Released" => q \notin resources'
      BY <2>2, <2>3, <2>8, Zenon
    <2>10. \A q \in resources' : object'[q] = "None" => Doing("create", q)'
      BY <2>2, <2>3, <2>5, <2>8, Zenon
    <2>11. \A q \in Object : object'[q] = "Ready" => q \in resources' \/ Doing("release", q)'
      BY <2>3, <2>5, <2>8, Zenon
    <2>. QED
      BY <2>6, <2>7, <2>9, <2>10, <2>11, Zenon DEF Agreement
  <1>. QED
    BY <1>5, <1>6, <1>7, <1>8, <1>9, <1>10, <1>11, <1>12, <1>13, <1>14, Zenon DEF Handle

\* Plans are never dropped and their steps only grow.
PlansGrow ==
    \A p \in Plan : plans[p] # None =>
        /\ plans'[p] # None
        /\ \A j \in DOMAIN plans[p].steps :
              j \in DOMAIN plans'[p].steps /\ plans'[p].steps[j] = plans[p].steps[j]

\* A sequence with an element added at its end.
LEMMA Appended ==
  ASSUME NEW S, NEW s \in Seq(S), NEW e \in S
  PROVE  /\ DOMAIN s = 1..Len(s) /\ DOMAIN Append(s, e) = 1..(Len(s) + 1) /\ Len(s) \in Nat
         /\ \A j \in DOMAIN s : j \in DOMAIN Append(s, e) /\ Append(s, e)[j] = s[j]
         /\ Append(s, e)[Len(s) + 1] = e
  OBVIOUS

\* A step added at the end of one plan leaves the earlier ones where they were.
LEMMA AppendGrows ==
  ASSUME NEW p \in Plan, plans[p] \in PlanRecord, NEW e \in Step, plans'[p] # None,
         plans'[p].steps = Append(plans[p].steps, e), \A q \in Plan : q # p => plans'[q] = plans[q]
  PROVE  /\ PlansGrow
         /\ \E j \in DOMAIN plans'[p].steps : plans'[p].steps[j] = e
  <1>1. plans[p].steps \in Seq(Step)
    BY Zenon DEF PlanRecord
  <1>. DEFINE s == plans[p].steps
              t == plans'[p].steps
  <1>2. /\ DOMAIN t = 1..(Len(s) + 1) /\ Len(s) \in Nat
        /\ \A j \in DOMAIN s : j \in DOMAIN t /\ t[j] = s[j]
        /\ t[Len(s) + 1] = e
    <2>1. t = Append(s, e)
      OBVIOUS
    <2>. HIDE DEF s, t
    <2>. QED
      BY <1>1, <2>1, Appended DEF s
  <1>3. PlansGrow
    BY <1>2, Zenon DEF PlansGrow
  <1>. HIDE DEF s, t
  <1>4. Len(s) + 1 \in DOMAIN t
    BY <1>2
  <1>5. \E j \in DOMAIN t : t[j] = e
    BY <1>2, <1>4, Zenon
  <1>. QED
    BY <1>3, <1>5, Zenon DEF t

\* What CommitImport and CommitChecksum write to the plans.
LEMMA CommitImportPlans ==
  ASSUME IInv, NEW h \in Handler, CommitImport(h)
  PROVE  LET p == object_plan[call[h].object]
         IN /\ call[h].object \in Object /\ call[h].access \in Access
            /\ call[h].range \in Range_ /\ access[call[h].access] = None
            /\ p \in Plan /\ plans[p] # None /\ plans' = AddStep(p, 2, call[h].access)
            /\ access' = [access EXCEPT ![call[h].access] =
                             [object |-> call[h].object, range |-> call[h].range,
                              state |-> "Ready", plan |-> p]]
  <1>. USE NoneAssumption DEF IInv
  <1>1. /\ call[h].object \in Object /\ descriptor[call[h].object] # None
        /\ call[h].access \in Access /\ call[h].range \in Range_
        /\ access[call[h].access] = None
    BY Zenon DEF CommitImport, Commits, CallsInv, CallInv
  <1>2. /\ object_plan[call[h].object] \in Plan /\ object_plan[call[h].object] # None
        /\ plans[object_plan[call[h].object]] # None
    BY <1>1 DEF Planned, TypeOK
  <1>. QED
    BY <1>1, <1>2, Zenon DEF CommitImport

\* A committed checksum leaves the plans alone, or completes the running plan of its access
\* with the checksum step at its end.
LEMMA CommitChecksumPlans ==
  ASSUME IInv, NEW h \in Handler, CommitChecksum(h)
  PROVE  LET a == call[h].access
             p == access[a].plan
         IN /\ a \in Access /\ access[a] # None /\ p \in Plan /\ plans[p] \in PlanRecord
            /\ \/ UNCHANGED plans
               \/ /\ plans[p].parent = "Running"
                  /\ plans' = [AddStep(p, 3, a) EXCEPT ![p].parent = "Complete"]
  <1>. USE NoneAssumption DEF IInv
  <1>1. call[h].access \in Access /\ access[call[h].access] # None
    BY Zenon DEF CommitChecksum, Commits, CallsInv, CallInv
  <1>2. access[call[h].access].plan \in Plan /\ plans[access[call[h].access].plan] # None
    BY <1>1, Zenon DEF Planned, TypeOK, AccessRecord
  <1>3. plans[access[call[h].access].plan] \in PlanRecord
    BY <1>2, Zenon DEF TypeOK
  <1>. QED
    BY <1>1, <1>2, <1>3, Zenon DEF CommitChecksum, Terminal, PlanRecord

\* What a completed checksum leaves in the plan: one more step, and the parent.
LEMMA ChecksumSteps ==
  ASSUME IInv, NEW h \in Handler, CommitChecksum(h), plans' # plans
  PROVE  LET a == call[h].access
             p == access[a].plan
         IN /\ plans'[p] \in PlanRecord
            /\ plans'[p].parent = "Complete" /\ plans'[p].steps = AddStep(p, 3, a)[p].steps
            /\ \A q \in Plan : q # p => plans'[q] = plans[q]
  <1>. DEFINE a == call[h].access
              p == access[a].plan
              t == AddStep(p, 3, a)
  <1>1. /\ a \in Access /\ p \in Plan /\ plans[p] \in PlanRecord
        /\ plans' = [t EXCEPT ![p].parent = "Complete"]
    BY CommitChecksumPlans, Zenon
  <1>2. plans[p] # None
    BY <1>1, NoneAssumption, Zenon
  <1>3. t[p] \in PlanRecord /\ t \in [Plan -> PlanRecord \cup {None}]
        /\ \A q \in Plan : q # p => t[q] = plans[q]
    BY <1>1, <1>2, AddStepType, Zenon DEF IInv
  <1>. HIDE DEF t, p, a
  <1>4. plans' = [t EXCEPT ![p] = [t[p] EXCEPT !.parent = "Complete"]]
    BY <1>1, Zenon
  <1>5. /\ [t[p] EXCEPT !.parent = "Complete"] \in PlanRecord
        /\ [t[p] EXCEPT !.parent = "Complete"].parent = "Complete"
        /\ [t[p] EXCEPT !.parent = "Complete"].steps = t[p].steps
    BY <1>3, Zenon DEF PlanRecord
  <1>6. /\ plans'[p] = [t[p] EXCEPT !.parent = "Complete"]
        /\ \A q \in Plan : q # p => plans'[q] = t[q]
    BY <1>1, <1>3, <1>4, Zenon
  <1>7. /\ plans'[p] \in PlanRecord /\ plans'[p].parent = "Complete" /\ plans'[p].steps = t[p].steps
        /\ \A q \in Plan : q # p => plans'[q] = plans[q]
    BY <1>3, <1>5, <1>6, Zenon
  <1>. QED
    BY <1>7, Zenon DEF t, p, a

\* A handler's step leaves every named plan in place.
LEMMA NextPlanned == IInv /\ Next => Planned'
  <1>. SUFFICES ASSUME IInv, NEW h \in Handler, Handle(h) PROVE Planned'
    BY Zenon DEF Next
  <1>. USE NoneAssumption DEF IInv
  <1>1. ASSUME PlansGrow, UNCHANGED <<descriptor, object_plan>>,
               \A a \in Access : access'[a] # None =>
                   access[a] # None /\ access'[a].plan = access[a].plan
        PROVE  Planned'
    BY <1>1 DEF PlansGrow, Planned, TypeOK, AccessRecord
  <1>2. UNCHANGED plans => PlansGrow
    BY Zenon DEF PlansGrow
  <1>3. CASE publish(h) \/ import_read_only(h) \/ checksum_access(h) \/ revoke_access(h)
             \/ release_data_object(h) \/ create_data_object(h) \/ CommitCreate(h) \/ SubmitPublish(h)
             \/ SubmitChecksum(h) \/ SubmitImport(h) \/ SubmitRevoke(h) \/ SubmitRelease(h) \/ Refuse(h)
    <2>1. UNCHANGED <<descriptor, object_plan, plans, access>>
      BY <1>3, Zenon DEF publish, import_read_only, checksum_access, revoke_access, release_data_object,
         create_data_object, CommitCreate, SubmitPublish, SubmitChecksum, SubmitImport, SubmitRevoke,
         SubmitRelease, Refuse, Begin, catalog
    <2>. QED
      BY <1>1, <1>2, <2>1, Zenon
  <1>4. CASE CommitPublish(h)
    <2>. DEFINE o == call[h].object
    <2>1. PICK p \in Plan :
             /\ plans[p] = None
             /\ plans' = [plans EXCEPT ![p] = [object |-> o, parent |-> "Running",
                                               steps |-> <<[step_id |-> 1, access |-> None]>>]]
             /\ object_plan' = [object_plan EXCEPT ![o] = p]
      BY <1>4, Zenon DEF CommitPublish
    <2>2. /\ o \in Object /\ UNCHANGED access /\ descriptor' = [descriptor EXCEPT ![o] = call[h].range]
      BY <1>4, Zenon DEF CommitPublish, Commits, CallsInv, CallInv
    <2>3. [object |-> o, parent |-> "Running", steps |-> <<[step_id |-> 1, access |-> None]>>]
            \in PlanRecord
      BY <2>2 DEF PlanRecord, Step
    <2>4. plans'[p] # None /\ \A q \in Plan : q # p => plans'[q] = plans[q]
      BY <2>1, <2>3, Zenon DEF TypeOK
    <2>5. \A a \in Access : access[a] # None => access[a].plan \in Plan /\ access[a].plan # p
      <3>. SUFFICES ASSUME NEW a \in Access, access[a] # None
                   PROVE  access[a].plan \in Plan /\ access[a].plan # p
        OBVIOUS
      <3>1. access[a] \in AccessRecord /\ plans[access[a].plan] # None
        BY Zenon DEF Planned, TypeOK
      <3>. QED
        BY <2>1, <3>1, Zenon DEF AccessRecord
    <2>6. /\ object_plan'[o] = p /\ p # None
          /\ \A q \in Object : q # o => object_plan'[q] = object_plan[q] /\ descriptor'[q] = descriptor[q]
      BY <2>1, <2>2, Zenon DEF TypeOK
    <2>. QED
      BY <2>1, <2>2, <2>4, <2>5, <2>6 DEF Planned, TypeOK
  <1>5. CASE CommitImport(h)
    <2>. DEFINE o == call[h].object
                a == call[h].access
                p == object_plan[o]
                t == AddStep(p, 2, a)
    <2>1. /\ o \in Object /\ a \in Access /\ p \in Plan /\ plans[p] # None /\ plans' = t
          /\ access' = [access EXCEPT ![a] = [object |-> o, range |-> call[h].range,
                                              state |-> "Ready", plan |-> p]]
          /\ UNCHANGED <<descriptor, object_plan>>
      BY <1>5, CommitImportPlans, Zenon DEF CommitImport
    <2>2. /\ plans'[p] \in PlanRecord /\ \A q \in Plan : q # p => plans'[q] = plans[q]
          /\ plans'[p].steps = Append(plans[p].steps, [step_id |-> 2, access |-> a])
      <3>1. TypeOK /\ 2 \in {2, 3}
        OBVIOUS
      <3>2. /\ t[p] \in PlanRecord /\ \A q \in Plan : q # p => t[q] = plans[q]
            /\ t[p].steps = Append(plans[p].steps, [step_id |-> 2, access |-> a])
        <4>. HIDE DEF a, o, p
        <4>. QED
          BY <2>1, <3>1, AddStepType, Zenon
      <3>. HIDE DEF t, p, a, o
      <3>. QED
        BY <2>1, <3>2, Zenon
    <2>3. access'[a].plan = p /\ \A b \in Access : b # a => access'[b] = access[b]
      BY <2>1, SMTT(30) DEF TypeOK
    <2>4. plans[p] \in PlanRecord /\ [step_id |-> 2, access |-> a] \in Step
      BY <2>1, Zenon DEF TypeOK, Step
    <2>. HIDE DEF t, p, a, o
    <2>5. plans'[p] # None
      BY <2>2, SMTT(30)
    <2>6. /\ PlansGrow
          /\ \E j \in DOMAIN plans'[p].steps : plans'[p].steps[j] = [step_id |-> 2, access |-> a]
      BY <2>1, <2>2, <2>4, <2>5, AppendGrows, Zenon
    <2>7. ASSUME NEW b \in Access, b # a, access[b] # None
          PROVE  /\ plans'[access[b].plan] # None
                 /\ \E j \in DOMAIN plans'[access[b].plan].steps :
                       plans'[access[b].plan].steps[j] = [step_id |-> 2, access |-> b]
      <3>1. access[b].plan \in Plan
        BY <2>7, Zenon DEF TypeOK, AccessRecord
      <3>. DEFINE q == access[b].plan
                  e == [step_id |-> 2, access |-> b]
      <3>2. plans[q] # None /\ \E j \in DOMAIN plans[q].steps : plans[q].steps[j] = e
        BY <2>7, Zenon DEF Planned
      <3>. HIDE DEF q, e
      <3>3. /\ plans'[q] # None
            /\ \A j \in DOMAIN plans[q].steps :
                  j \in DOMAIN plans'[q].steps /\ plans'[q].steps[j] = plans[q].steps[j]
        BY <2>6, <3>1, <3>2, Zenon DEF PlansGrow, q
      <3>4. \E j \in DOMAIN plans'[q].steps : plans'[q].steps[j] = e
        BY <3>2, <3>3, Zenon
      <3>. QED
        BY <3>3, <3>4, Zenon DEF q, e
    <2>8. \A q \in Object : object_plan[q] # None => plans'[object_plan[q]] # None
      BY <2>6 DEF Planned, PlansGrow, TypeOK
    <2>. QED
      BY <2>1, <2>3, <2>5, <2>6, <2>7, <2>8 DEF Planned
  <1>6. CASE CommitChecksum(h)
    <2>1. UNCHANGED <<descriptor, object_plan, access>>
      BY <1>6, Zenon DEF CommitChecksum
    <2>2. CASE plans' # plans
      <3>. DEFINE a == call[h].access
                  p == access[a].plan
      <3>1. a \in Access /\ p \in Plan /\ plans[p] \in PlanRecord /\ plans[p] # None
        BY <1>6, CommitChecksumPlans, Zenon
      <3>2. /\ plans'[p] \in PlanRecord
            /\ plans'[p].steps = Append(plans[p].steps, [step_id |-> 3, access |-> a])
            /\ \A q \in Plan : q # p => plans'[q] = plans[q]
        <4>1. AddStep(p, 3, a)[p].steps = Append(plans[p].steps, [step_id |-> 3, access |-> a])
          BY <3>1, AddStepType, Zenon
        <4>2. /\ plans'[p] \in PlanRecord
              /\ plans'[p].steps = AddStep(p, 3, a)[p].steps
              /\ \A q \in Plan : q # p => plans'[q] = plans[q]
          BY <1>6, <2>2, ChecksumSteps, Zenon
        <4>. QED
          BY <4>1, <4>2, Zenon
      <3>3. [step_id |-> 3, access |-> a] \in Step /\ plans'[p] # None
        BY <3>1, <3>2, Zenon DEF Step
      <3>. HIDE DEF p, a
      <3>4. PlansGrow
        BY <3>1, <3>2, <3>3, AppendGrows, Zenon
      <3>. QED
        BY <1>1, <2>1, <3>4, Zenon
    <2>. QED
      BY <1>1, <1>2, <2>1, <2>2, Zenon
  <1>7. CASE CommitRevoke(h) \/ CommitRelease(h)
    <2>1. UNCHANGED <<descriptor, object_plan, plans>>
      BY <1>7, Zenon DEF CommitRevoke, CommitRelease
    <2>2. \A a \in Access : access'[a] # None => access[a] # None /\ access'[a].plan = access[a].plan
      <3>1. CASE CommitRevoke(h)
        <4>1. call[h].access \in Access /\ access[call[h].access] \in AccessRecord
          BY <3>1, Zenon DEF CommitRevoke, Commits, CallsInv, CallInv, TypeOK
        <4>2. /\ access'[call[h].access].plan = access[call[h].access].plan
              /\ \A a \in Access : a # call[h].access => access'[a] = access[a]
          BY <3>1, <4>1, Zenon DEF CommitRevoke, TypeOK, AccessRecord
        <4>. QED
          BY <4>1, <4>2, Zenon
      <3>2. CASE CommitRelease(h)
        <4>. SUFFICES ASSUME NEW a \in Access, access'[a] # None
                     PROVE  access[a] # None /\ access'[a].plan = access[a].plan
          OBVIOUS
        <4>1. access'[a] = IF access[a] # None /\ access[a].object = call[h].object
                           THEN [access[a] EXCEPT !.state = "Stale"] ELSE access[a]
          BY <3>2, Zenon DEF CommitRelease, mark_object_released
        <4>2. access[a] \in AccessRecord \cup {None}
          BY Zenon DEF TypeOK
        <4>. QED
          BY <4>1, <4>2, Zenon DEF AccessRecord
      <3>. QED
        BY <1>7, <3>1, <3>2, Zenon
    <2>. QED
      BY <1>1, <1>2, <2>1, <2>2, Zenon
  <1>. QED
    BY <1>3, <1>4, <1>5, <1>6, <1>7, Zenon DEF Handle

\* ValidationOrder for one plan.
Sums(steps) == {i \in DOMAIN steps : steps[i].step_id = 3}
Ordered(pl) ==
    /\ (pl.parent = "Complete") <=> Sums(pl.steps) # {}
    /\ \A i, j \in Sums(pl.steps) : i = j
    /\ \A i \in Sums(pl.steps) : \E j \in 1..(i - 1) :
          pl.steps[j] = [step_id |-> 2, access |-> pl.steps[i].access]

\* The order of the plans' steps, plan by plan.
LEMMA OrderIsOrdered == ValidationOrder <=> \A p \in Plan : plans[p] # None => Ordered(plans[p])
  BY Zenon DEF ValidationOrder, Ordered, Sums

\* The same after a step.
LEMMA OrderIsOrderedNext ==
  ValidationOrder' <=> \A p \in Plan : plans'[p] # None => Ordered(plans'[p])
  BY Zenon DEF ValidationOrder, Ordered, Sums

\* An import step added to a plan, and the one checksum step.
LEMMA ImportOrdered ==
  ASSUME NEW pl \in PlanRecord, Ordered(pl), NEW a \in Access, NEW ql \in PlanRecord,
         ql.steps = Append(pl.steps, [step_id |-> 2, access |-> a]), ql.parent = pl.parent
  PROVE  Ordered(ql)
  <1>. DEFINE s == pl.steps
              t == ql.steps
              e == [step_id |-> 2, access |-> a]
  <1>1. s \in Seq(Step) /\ e \in Step
    BY Zenon DEF PlanRecord, Step
  <1>2. /\ DOMAIN s = 1..Len(s) /\ DOMAIN t = 1..(Len(s) + 1) /\ Len(s) \in Nat
        /\ \A j \in DOMAIN s : j \in DOMAIN t /\ t[j] = s[j]
        /\ t[Len(s) + 1].step_id = 2
    <2>1. t = Append(s, e) /\ e.step_id = 2
      OBVIOUS
    <2>. HIDE DEF s, t, e
    <2>. QED
      BY <1>1, <2>1, Appended
  <1>3. /\ (pl.parent = "Complete") <=> Sums(s) # {}
        /\ \A i, j \in Sums(s) : i = j
        /\ \A i \in Sums(s) : \E j \in 1..(i - 1) : s[j] = [step_id |-> 2, access |-> s[i].access]
    BY Zenon DEF Ordered
  <1>. HIDE DEF s, t, e
  <1>4. Sums(t) = Sums(s)
    BY <1>2 DEF Sums
  <1>5. \A i \in Sums(s) : \E j \in 1..(i - 1) : t[j] = [step_id |-> 2, access |-> t[i].access]
    <2>. SUFFICES ASSUME NEW i \in Sums(s)
                 PROVE  \E j \in 1..(i - 1) : t[j] = [step_id |-> 2, access |-> t[i].access]
      OBVIOUS
    <2>1. PICK j \in 1..(i - 1) : s[j] = [step_id |-> 2, access |-> s[i].access]
      BY <1>3, Zenon
    <2>2. i \in 1..Len(s) /\ j \in 1..Len(s)
      BY <1>2 DEF Sums
    <2>3. t[j] = s[j] /\ t[i] = s[i]
      BY <1>2, <2>2, Zenon
    <2>. QED
      BY <2>1, <2>3, Zenon
  <1>. QED
    BY <1>3, <1>4, <1>5, Zenon DEF Ordered, s, t

\* A checksum step appended to a running plan whose access was imported keeps the order.
LEMMA ChecksumOrdered ==
  ASSUME NEW pl \in PlanRecord, Ordered(pl), pl.parent = "Running", NEW a \in Access,
         \E j \in DOMAIN pl.steps : pl.steps[j] = [step_id |-> 2, access |-> a],
         NEW ql \in PlanRecord,
         ql.steps = Append(pl.steps, [step_id |-> 3, access |-> a]), ql.parent = "Complete"
  PROVE  Ordered(ql)
  <1>. DEFINE s == pl.steps
              t == ql.steps
              e == [step_id |-> 3, access |-> a]
  <1>1. s \in Seq(Step) /\ e \in Step
    BY Zenon DEF PlanRecord, Step
  <1>2. /\ DOMAIN s = 1..Len(s) /\ DOMAIN t = 1..(Len(s) + 1) /\ Len(s) \in Nat
        /\ \A j \in DOMAIN s : j \in DOMAIN t /\ t[j] = s[j]
        /\ t[Len(s) + 1].step_id = 3 /\ t[Len(s) + 1].access = a
    <2>1. t = Append(s, e) /\ e.step_id = 3 /\ e.access = a
      OBVIOUS
    <2>. HIDE DEF s, t, e
    <2>. QED
      BY <1>1, <2>1, Appended
  <1>3. Sums(s) = {}
    BY Zenon DEF Ordered
  <1>4. PICK j \in DOMAIN s : s[j] = [step_id |-> 2, access |-> a]
    OBVIOUS
  <1>. HIDE DEF s, t, e
  <1>5. Sums(t) = {Len(s) + 1}
    BY <1>2, <1>3 DEF Sums
  <1>6. \A i \in Sums(t) : \E k \in 1..(i - 1) : t[k] = [step_id |-> 2, access |-> t[i].access]
    BY <1>2, <1>4, <1>5
  <1>. QED
    BY <1>5, <1>6, Zenon DEF Ordered, t

\* A handler's step keeps every plan in order.
LEMMA NextOrder == IInv /\ Next => ValidationOrder'
  <1>. SUFFICES ASSUME IInv, NEW h \in Handler, Handle(h) PROVE ValidationOrder'
    BY Zenon DEF Next
  <1>. USE NoneAssumption DEF IInv
  <1>1. \A p \in Plan : plans[p] # None => plans[p] \in PlanRecord /\ Ordered(plans[p])
    BY OrderIsOrdered, Zenon DEF TypeOK
  <1>2. UNCHANGED plans => ValidationOrder'
    BY <1>1, OrderIsOrderedNext, Zenon
  <1>3. ASSUME NEW p \in Plan, Ordered(plans'[p]), \A q \in Plan : q # p => plans'[q] = plans[q]
        PROVE  ValidationOrder'
    BY <1>1, <1>3, OrderIsOrderedNext, Zenon
  <1>4. CASE CommitPublish(h)
    <2>. DEFINE o == call[h].object
                pl == [object |-> o, parent |-> "Running", steps |-> <<[step_id |-> 1, access |-> None]>>]
    <2>1. PICK p \in Plan : plans[p] = None /\ plans' = [plans EXCEPT ![p] = pl]
      BY <1>4, Zenon DEF CommitPublish
    <2>2. Ordered(pl)
      BY SMTT(30) DEF Ordered, Sums
    <2>. HIDE DEF pl
    <2>. QED
      BY <1>3, <2>1, <2>2, Zenon DEF TypeOK
  <1>5. CASE CommitImport(h)
    <2>. DEFINE a == call[h].access
                p == object_plan[call[h].object]
                t == AddStep(p, 2, a)
    <2>1. a \in Access /\ p \in Plan /\ plans[p] # None /\ plans' = t
      BY <1>5, CommitImportPlans, Zenon
    <2>2. TypeOK /\ 2 \in {2, 3}
      OBVIOUS
    <2>3. /\ t[p] \in PlanRecord /\ \A q \in Plan : q # p => t[q] = plans[q]
          /\ t[p].steps = Append(plans[p].steps, [step_id |-> 2, access |-> a])
          /\ t[p].parent = plans[p].parent
      <3>. HIDE DEF a, p
      <3>. QED
        BY <2>1, <2>2, AddStepType, SMTT(30)
    <2>. HIDE DEF t, p, a
    <2>4. Ordered(t[p])
      BY <1>1, <2>1, <2>3, ImportOrdered, Zenon
    <2>. QED
      BY <1>3, <2>1, <2>3, <2>4, Zenon
  <1>6. CASE CommitChecksum(h)
    <2>. SUFFICES ASSUME plans' # plans PROVE ValidationOrder'
      BY <1>2, Zenon
    <2>. DEFINE a == call[h].access
                p == access[a].plan
    <2>1. /\ a \in Access /\ access[a] # None /\ p \in Plan /\ plans[p] \in PlanRecord
          /\ plans[p] # None /\ plans[p].parent = "Running"
      BY <1>6, CommitChecksumPlans, Zenon
    <2>2. /\ plans'[p] \in PlanRecord /\ plans'[p].parent = "Complete"
          /\ plans'[p].steps = Append(plans[p].steps, [step_id |-> 3, access |-> a])
          /\ \A q \in Plan : q # p => plans'[q] = plans[q]
      <3>1. AddStep(p, 3, a)[p].steps = Append(plans[p].steps, [step_id |-> 3, access |-> a])
        BY <2>1, AddStepType, Zenon
      <3>2. /\ plans'[p] \in PlanRecord /\ plans'[p].parent = "Complete"
            /\ plans'[p].steps = AddStep(p, 3, a)[p].steps
            /\ \A q \in Plan : q # p => plans'[q] = plans[q]
        BY <1>6, ChecksumSteps, Zenon
      <3>. QED
        BY <3>1, <3>2, Zenon
    <2>3. \E j \in DOMAIN plans[p].steps : plans[p].steps[j] = [step_id |-> 2, access |-> a]
      BY <2>1, Zenon DEF Planned
    <2>. HIDE DEF p, a
    <2>4. Ordered(plans'[p])
      BY <1>1, <2>1, <2>2, <2>3, ChecksumOrdered, Zenon
    <2>. QED
      BY <1>3, <2>1, <2>2, <2>4, Zenon
  <1>7. CASE publish(h) \/ import_read_only(h) \/ checksum_access(h) \/ revoke_access(h)
             \/ release_data_object(h) \/ create_data_object(h) \/ CommitCreate(h) \/ SubmitPublish(h)
             \/ SubmitChecksum(h) \/ SubmitImport(h) \/ SubmitRevoke(h) \/ SubmitRelease(h) \/ Refuse(h)
             \/ CommitRevoke(h) \/ CommitRelease(h)
    BY <1>2, <1>7, Zenon DEF publish, import_read_only, checksum_access, revoke_access, release_data_object,
       create_data_object, CommitCreate, SubmitPublish, SubmitChecksum, SubmitImport, SubmitRevoke,
       SubmitRelease, Refuse, CommitRevoke, CommitRelease, Begin, catalog
  <1>. QED
    BY <1>4, <1>5, <1>6, <1>7, Zenon DEF Handle

-----------------------------------------------------------------------------
\* The invariant holds in every reachable state.
THEOREM Invariance == Spec => []IInv
  <1>1. IInv /\ UNCHANGED vars => IInv'
    <2>. SUFFICES ASSUME IInv, UNCHANGED vars PROVE IInv'
      OBVIOUS
    <2>. USE DEF IInv, vars, catalog, provider
    <2>1. TypeOK'
      BY Zenon DEF TypeOK
    <2>2. CallsInv'
      BY ZenonT(60) DEF CallsInv, CallInv, Exclusive
    <2>3. Agreement'
      <3>1. UNCHANGED <<object, access, accesses, resources>> /\ Agreement
        OBVIOUS
      <3>2. /\ \A op, o : Doing(op, o) => Doing(op, o)'
            /\ \A op, a : DoingAccess(op, a) => DoingAccess(op, a)'
        BY Zenon DEF Doing, DoingAccess, Commits
      <3>3. ReadyAccesses' = ReadyAccesses
        BY <3>1, Zenon DEF ReadyAccesses
      <3>. QED
        BY <3>1, <3>2, <3>3, Zenon DEF Agreement
    <2>4. Planned'
      BY SMTT(30) DEF Planned
    <2>5. ValidationOrder'
      BY DEF ValidationOrder
    <2>. QED
      BY <2>1, <2>2, <2>3, <2>4, <2>5, Zenon
  <1>2. IInv /\ [Next]_vars => IInv'
    BY <1>1, NextType, NextCalls, NextAgreement, NextPlanned, NextOrder, Zenon DEF IInv
  <1>. QED
    BY <1>2, InitIInv, PTL DEF Spec

\* After release_data_object no access of the object is ready, at the provider or
\* in the catalog, whatever imports were under way.
THEOREM Released == Spec => []ReleasedIsStale
  <1>1. IInv => ReleasedIsStale
    <2>. SUFFICES ASSUME IInv, NEW o \in Object, object[o] = "Released"
                 PROVE  /\ o \notin resources /\ AccessesOf(o) = {}
                        /\ \A a \in ReadyAccesses : access[a].object # o
      BY Zenon DEF ReleasedIsStale
    <2>. QED
      BY Zenon DEF IInv, Agreement, AccessesOf
  <1>. QED
    BY <1>1, Invariance, PTL

\* No resource and no access of the provider is forgotten by the catalog, and
\* none the catalog calls Ready is missing, but for a call that is on its way.
THEOREM Matches == Spec => []CatalogMatchesProvider
  <1>1. IInv => CatalogMatchesProvider
    <2>. SUFFICES ASSUME IInv PROVE CatalogMatchesProvider
      OBVIOUS
    <2>. USE DEF IInv
    <2>1. /\ \A op, o : Doing(op, o) => Committing(op, o)
          /\ \A op, a : DoingAccess(op, a) => Committing(op, a)
      BY SMTT(30) DEF Doing, DoingAccess, Committing
    <2>2. \A o \in resources : object[o] = "Ready" \/ Committing("create", o)
      BY <2>1, SMTT(30) DEF Agreement, TypeOK
    <2>3. \A a \in Access : accesses[a] # None => a \in ReadyAccesses \/ Committing("import", a)
      BY <2>1, Zenon DEF Agreement, ReadyAccesses
    <2>4. \A o \in Object : object[o] = "Ready" => o \in resources \/ Committing("release", o)
      BY <2>1, SMTT(30) DEF Agreement
    <2>5. ASSUME NEW a \in ReadyAccesses, accesses[a] # None
          PROVE  accesses[a] = [source |-> access[a].object, range |-> access[a].range]
      <3>1. accesses[a] \in ProviderAccess
        BY <2>5, Zenon DEF TypeOK, ReadyAccesses
      <3>2. accesses[a].source = access[a].object /\ accesses[a].range = access[a].range
        BY <2>5, Zenon DEF Agreement, ReadyAccesses
      <3>. QED
        BY <3>1, <3>2, Zenon DEF ProviderAccess
    <2>6. \A a \in ReadyAccesses : accesses[a] = None => Committing("revoke", a)
      BY <2>1, Zenon DEF Agreement
    <2>. QED
      BY <2>2, <2>3, <2>4, <2>5, <2>6, Zenon DEF CatalogMatchesProvider
  <1>. QED
    BY <1>1, Invariance, PTL

\* A plan is completed by exactly one checksum, of an access it imported before.
THEOREM Validated == Spec => []ValidationOrder
  BY Invariance, PTL DEF IInv

=============================================================================
