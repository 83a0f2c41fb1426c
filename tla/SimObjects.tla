----------------------------- MODULE SimObjects -----------------------------
(***************************************************************************)
(* Simulated objects: the handlers of sim_object_service.rs and the mock   *)
(* provider of providers/mock.rs that serves them ("mock", and             *)
(* "ub_sim_mock" which delegates to it).                                   *)
(*                                                                         *)
(* A handler reads the catalog under its mutex, drops the mutex, has the   *)
(* provider do its operation (atomic under the provider's own mutex) and   *)
(* takes the catalog's mutex again to record the result: two handlers may  *)
(* interleave at every one of these points.  A call is in step "submit"    *)
(* before the provider's operation and in step "commit" after it.          *)
(*                                                                         *)
(* An object, its one placement, its one binding and the resource of the   *)
(* binding share an id, an access binding and the provider's access too.   *)
(* A plan stands for its parent event as well; a step for its step event.  *)
(* Requests that a handler refuses before it calls the provider change     *)
(* nothing and are left out.  Generations are abstracted: a resource keeps *)
(* its own for life, and the one of an access only moves when it turns     *)
(* Stale.  Bytes are abstracted: nothing writes a resource once its seed   *)
(* is in.                                                                  *)
(***************************************************************************)
EXTENDS Naturals, Sequences, FiniteSets

CONSTANTS
    Object,     \* object ids
    Access,     \* access binding ids
    Plan,       \* typed plan ids
    Handler,    \* connection threads
    Size,       \* bytes of every object
    None

ASSUME SizeAssumption == Size \in Nat \ {0}

VARIABLES
    object,       \* state of the object, its placement and its binding
    descriptor,   \* binding.allowed_*, None while opaque_descriptor is empty
    object_plan,  \* simulated_object_plan_ids
    plans,        \* typed_transfer_plans with their parent events
    access,       \* access_bindings with simulated_access_plan_ids
    resources,    \* MockState.resources
    accesses,     \* MockState.accesses
    call          \* what each handler is doing

catalog == <<object, descriptor, object_plan, plans, access>>
provider == <<resources, accesses>>
vars == <<catalog, provider, call>>

\* offset_bytes and nbytes of a request; nbytes = 0 is replaced before.
Range_ == [offset : 0..Size, nbytes : 1..Size]
Step == [step_id : {1, 2, 3}, access : Access \cup {None}]
PlanRecord == [object : Object, parent : {"Running", "Complete"}, steps : Seq(Step)]
AccessRecord == [object : Object, range : Range_, state : {"Ready", "Stale"}, plan : Plan]
ProviderAccess == [source : Object, range : Range_]

ASSUME NoneAssumption ==
    None \notin Object \cup Access \cup Plan \cup Range_ \cup PlanRecord \cup AccessRecord
              \cup ProviderAccess

Op == {"create", "publish", "import", "checksum", "revoke", "release"}
NoCall == [op |-> "none"]
Call == [op : Op, step : {"submit", "commit"}, object : Object \cup {None},
         access : Access \cup {None}, range : Range_ \cup {None},
         descriptor : Range_ \cup {None}]

Init ==
    /\ object = [o \in Object |-> "None"]
    /\ descriptor = [o \in Object |-> None]
    /\ object_plan = [o \in Object |-> None]
    /\ plans = [p \in Plan |-> None]
    /\ access = [a \in Access |-> None]
    /\ resources = {}
    /\ accesses = [a \in Access |-> None]
    /\ call = [h \in Handler |-> NoCall]

-----------------------------------------------------------------------------
\* The provider.

check_range(total, r) == r.offset + r.nbytes <= total

Within(r, allowed) ==
    /\ r.offset >= allowed.offset
    /\ r.offset + r.nbytes <= allowed.offset + allowed.nbytes

AccessesOf(o) == {a \in Access : accesses[a] # None /\ accesses[a].source = o}

\* A mutant: a resource is released whatever accesses it has.
ReleasableInUse(o) == o \in resources

Releasable(o) == o \in resources /\ AccessesOf(o) = {}

Publishable(c) == c.object \in resources /\ check_range(Size, c.range)

Importable(c) ==
    /\ c.object \in resources /\ check_range(Size, c.range)
    /\ Within(c.range, c.descriptor)

Revocable(c) == accesses[c.access] # None

Readable(c) == accesses[c.access] # None /\ accesses[c.access].source \in resources

\* The operations execute performs; the others fail in their completion.
Executes(c) ==
    \/ c.op = "publish" /\ Publishable(c)
    \/ c.op = "import" /\ Importable(c)
    \/ c.op = "checksum" /\ Readable(c)
    \/ c.op = "revoke" /\ Revocable(c)
    \/ c.op = "release" /\ Releasable(c.object)

Allocate(o) == o \notin resources /\ resources' = resources \cup {o}

Submitted(h, op) == call[h].op = op /\ call[h].step = "submit"
Commits(h, op) == call[h].op = op /\ call[h].step = "commit"
Returned(h) == call' = [call EXCEPT ![h] = NoCall]
Completed(h) == call' = [call EXCEPT ![h].step = "commit"]

\* The completion carries an error: the handler returns it.
Refuse(h) ==
    /\ call[h].op # "none" /\ call[h].step = "submit" /\ ~Executes(call[h])
    /\ Returned(h)
    /\ UNCHANGED <<catalog, provider>>

SubmitPublish(h) ==
    /\ Submitted(h, "publish") /\ Executes(call[h])
    /\ Completed(h)
    /\ UNCHANGED <<catalog, provider>>

SubmitImport(h) ==
    /\ Submitted(h, "import") /\ Executes(call[h])
    /\ \E a \in Access :
          /\ accesses[a] = None /\ access[a] = None
          /\ accesses' = [accesses EXCEPT ![a] = [source |-> call[h].object,
                                                  range |-> call[h].range]]
          /\ call' = [call EXCEPT ![h].step = "commit", ![h].access = a]
    /\ UNCHANGED <<catalog, resources>>

SubmitChecksum(h) ==
    /\ Submitted(h, "checksum") /\ Executes(call[h])
    /\ Completed(h)
    /\ UNCHANGED <<catalog, provider>>

\* A mutant: the provider keeps the access.
SubmitRevokeKeeping(h) ==
    /\ Submitted(h, "revoke") /\ Executes(call[h])
    /\ Completed(h)
    /\ UNCHANGED <<catalog, provider>>

SubmitRevoke(h) ==
    /\ Submitted(h, "revoke") /\ Executes(call[h])
    /\ accesses' = [accesses EXCEPT ![call[h].access] = None]
    /\ Completed(h)
    /\ UNCHANGED <<catalog, resources>>

SubmitRelease(h) ==
    /\ Submitted(h, "release") /\ Executes(call[h])
    /\ resources' = resources \ {call[h].object}
    /\ Completed(h)
    /\ UNCHANGED <<catalog, accesses>>

-----------------------------------------------------------------------------
\* The handlers.

Begin(h, c) ==
    /\ call[h] = NoCall
    /\ call' = [call EXCEPT ![h] = c]
    /\ UNCHANGED <<catalog, provider>>

Request(op, o, a, r, d) ==
    [op |-> op, step |-> "submit", object |-> o, access |-> a, range |-> r, descriptor |-> d]

\* Allocate, and the seed and checksum of a resource no other handler knows:
\* the mock cannot refuse these two.
create_data_object(h) ==
    /\ call[h] = NoCall
    /\ \E o \in Object :
          /\ object[o] = "None" /\ Allocate(o)
          /\ call' = [call EXCEPT ![h] = [Request("create", o, None, None, None)
                                           EXCEPT !.step = "commit"]]
    /\ UNCHANGED <<catalog, accesses>>

CommitCreate(h) ==
    /\ Commits(h, "create")
    /\ object' = [object EXCEPT ![call[h].object] = "Ready"]
    /\ Returned(h)
    /\ UNCHANGED <<descriptor, object_plan, plans, access, provider>>

\* The model's bound: as many publishes and imports at a time as ids are left.
Spare(op, ids) == Cardinality(ids) > Cardinality({h \in Handler : call[h].op = op})

publish(h) ==
    \E o \in Object, r \in Range_ :
        /\ object[o] = "Ready"
        /\ Spare("publish", {p \in Plan : plans[p] = None})
        /\ Begin(h, Request("publish", o, None, r, None))

\* The binding is updated whatever became of the object in the meantime.
CommitPublish(h) ==
    LET o == call[h].object
    IN /\ Commits(h, "publish")
       /\ descriptor' = [descriptor EXCEPT ![o] = call[h].range]
       /\ \E p \in Plan :
             /\ plans[p] = None
             /\ plans' = [plans EXCEPT ![p] = [object |-> o, parent |-> "Running",
                                               steps |-> <<[step_id |-> 1, access |-> None]>>]]
             /\ object_plan' = [object_plan EXCEPT ![o] = p]
       /\ Returned(h)
       /\ UNCHANGED <<object, access, provider>>

\* The descriptor handed to the provider starts at byte 0.
import_read_only(h) ==
    \E o \in Object, r \in Range_ :
        /\ object[o] = "Ready" /\ descriptor[o] # None
        /\ Spare("import", {a \in Access : accesses[a] = None /\ access[a] = None})
        /\ Begin(h, Request("import", o, None, r,
                            [offset |-> 0, nbytes |-> descriptor[o].nbytes]))

AddStep(p, id, a) ==
    [plans EXCEPT ![p].steps = Append(@, [step_id |-> id, access |-> a])]

\* The access is entered before its plan is looked up: the plan of the object's
\* latest publish.
CommitImport(h) ==
    LET c == call[h]
        p == object_plan[c.object]
    IN /\ Commits(h, "import")
       /\ access' = [access EXCEPT ![c.access] = [object |-> c.object, range |-> c.range,
                                                  state |-> "Ready", plan |-> p]]
       /\ plans' = IF p = None THEN plans ELSE AddStep(p, 2, c.access)
       /\ Returned(h)
       /\ UNCHANGED <<object, descriptor, object_plan, provider>>

ReadyAccesses == {a \in Access : access[a] # None /\ access[a].state = "Ready"}

checksum_access(h) ==
    \E a \in ReadyAccesses : Begin(h, Request("checksum", None, a, None, None))

\* A mutant: the parent event is completed a second time.
NeverTerminal(p) == FALSE

Terminal(p) == plans[p].parent # "Running"

CommitChecksum(h) ==
    LET a == call[h].access
        p == access[a].plan
    IN /\ Commits(h, "checksum")
       /\ plans' = IF p = None \/ Terminal(p) THEN plans
                    ELSE [AddStep(p, 3, a) EXCEPT ![p].parent = "Complete"]
       /\ Returned(h)
       /\ UNCHANGED <<object, descriptor, object_plan, access, provider>>

revoke_access(h) ==
    \E a \in ReadyAccesses : Begin(h, Request("revoke", None, a, None, None))

CommitRevoke(h) ==
    /\ Commits(h, "revoke")
    /\ access' = [access EXCEPT ![call[h].access].state = "Stale"]
    /\ Returned(h)
    /\ UNCHANGED <<object, descriptor, object_plan, plans, provider>>

release_data_object(h) ==
    \E o \in Object :
        /\ object[o] = "Ready"
        /\ \A a \in ReadyAccesses : access[a].object # o
        /\ Begin(h, Request("release", o, None, None, None))

mark_object_released(o) ==
    /\ object' = [object EXCEPT ![o] = "Released"]
    /\ access' = [a \in Access |->
                     IF access[a] # None /\ access[a].object = o
                     THEN [access[a] EXCEPT !.state = "Stale"] ELSE access[a]]

CommitRelease(h) ==
    /\ Commits(h, "release")
    /\ mark_object_released(call[h].object)
    /\ Returned(h)
    /\ UNCHANGED <<descriptor, object_plan, plans, provider>>

Handle(h) ==
    \/ create_data_object(h) \/ CommitCreate(h)
    \/ publish(h) \/ SubmitPublish(h) \/ CommitPublish(h)
    \/ import_read_only(h) \/ SubmitImport(h) \/ CommitImport(h)
    \/ checksum_access(h) \/ SubmitChecksum(h) \/ CommitChecksum(h)
    \/ revoke_access(h) \/ SubmitRevoke(h) \/ CommitRevoke(h)
    \/ release_data_object(h) \/ SubmitRelease(h) \/ CommitRelease(h)
    \/ Refuse(h)

Next == \E h \in Handler : Handle(h)

Spec == Init /\ [][Next]_vars

-----------------------------------------------------------------------------
\* Properties.

\* The type invariant.  An access always has a plan: the error of
\* import_read_only for a published object without one is never returned, so no
\* client is told of a failure while the access stays.
TypeOK ==
    /\ object \in [Object -> {"None", "Ready", "Released"}]
    /\ descriptor \in [Object -> Range_ \cup {None}]
    /\ object_plan \in [Object -> Plan \cup {None}]
    /\ plans \in [Plan -> PlanRecord \cup {None}]
    /\ access \in [Access -> AccessRecord \cup {None}]
    /\ resources \subseteq Object
    /\ accesses \in [Access -> ProviderAccess \cup {None}]
    /\ call \in [Handler -> Call \cup {NoCall}]

\* After a release every access of the object is stale, in the catalog and at
\* the provider, also one whose import was under way when the release began.
ReleasedIsStale ==
    \A o \in Object : object[o] = "Released" =>
        /\ o \notin resources /\ AccessesOf(o) = {}
        /\ \A a \in ReadyAccesses : access[a].object # o

Committing(op, id) ==
    \E h \in Handler : Commits(h, op) /\ id \in {call[h].object, call[h].access}

\* What the provider holds, the catalog knows of or a handler is about to enter:
\* no resource and no access is left with nobody to release it.  And what the
\* catalog calls Ready exists at the provider, with the range that was asked for,
\* but for the moment in which the handler that removed it has not come back yet.
CatalogMatchesProvider ==
    /\ \A o \in resources : object[o] = "Ready" \/ Committing("create", o)
    /\ \A a \in Access : accesses[a] # None =>
          a \in ReadyAccesses \/ Committing("import", a)
    /\ \A o \in Object : object[o] = "Ready" => o \in resources \/ Committing("release", o)
    /\ \A a \in ReadyAccesses :
          \/ Committing("revoke", a)
          \/ accesses[a] = [source |-> access[a].object, range |-> access[a].range]

\* A parent event is Complete exactly when its plan has its one checksum step,
\* which reads an access that the same plan imported before; a second checksum,
\* of the same or of another access, changes nothing.
ValidationOrder ==
    \A p \in Plan : plans[p] # None =>
        LET steps == plans[p].steps
            sums == {i \in DOMAIN steps : steps[i].step_id = 3}
        IN /\ (plans[p].parent = "Complete") <=> sums # {}
           /\ \A i, j \in sums : i = j
           /\ \A i \in sums : \E j \in 1..(i - 1) :
                 steps[j] = [step_id |-> 2, access |-> steps[i].access]

=============================================================================
