---------------------------- MODULE UbSimBridge ----------------------------
(***************************************************************************)
(* The remote provider: UbSimProvider of providers/ub_sim.rs on the host,  *)
(* the agent uf_ub_sim_agent_obmm.c in each of the two guests, and the     *)
(* stream of bridge frames between them.                                   *)
(*                                                                         *)
(* The provider's mutex is held over a whole operation, so one call is     *)
(* under way at a time; it writes one request and reads one frame, with a  *)
(* read timeout.  An answer that comes after the timeout stays in the      *)
(* stream for the call that reads next.  A guest may reboot: its agent     *)
(* starts with a new session and empty tables, the host keeps its stream   *)
(* and the session it learned when it connected.                           *)
(*                                                                         *)
(* A frame is whole: a timeout in the middle of one is left out.  The SDK  *)
(* under the agent is external: an operation on what exists succeeds or    *)
(* fails.  The host never sends a request id twice to one agent, so the    *)
(* agent's replay slots are never hit and are left out.                    *)
(***************************************************************************)
EXTENDS Naturals, Sequences, FiniteSets

CONSTANTS
    Id,             \* ids the SDK gives to resources and to accesses
    MaxRequest,     \* bound on next_request_id
    MaxReboot       \* bound on the reboots of a guest

ASSUME BoundsAssumption == MaxRequest \in Nat /\ MaxReboot \in Nat

VARIABLES
    guests,           \* session_generation of each GuestConnection
    resources,        \* RealState.resources: what is known of nodeA:id
    accesses,         \* RealState.accesses
    described,        \* a caller holds a descriptor that publish returned
    next_request_id,
    call,             \* the operation that holds the provider's mutex
    to_guest,         \* frames written, not read by the agent yet
    to_host,          \* frames of the agent, not read by the host yet
    session,          \* session generation of the agent that runs now
    exported,         \* resources of nodeA's SDK session
    mapped,           \* accesses of nodeB's SDK session
    abandoned         \* ghost: the calls that ended without their own answer

host == <<guests, resources, accesses, described, next_request_id>>
guest == <<session, exported, mapped>>
vars == <<host, guest, call, to_guest, to_host, abandoned>>

Node == {"nodeA", "nodeB"}
Op == {"allocate", "seed", "publish", "import", "checksum", "revoke", "release"}
NodeOf(op) == IF op \in {"import", "checksum", "revoke"} THEN "nodeB" ELSE "nodeA"

NoId == 0
NoCall == [op |-> "none"]
Frame == [op : Op, id : Nat, key : Nat, request_id : 1..MaxRequest, session : Nat]
Answer == [id : Nat, request_id : 1..MaxRequest, session : Nat, ok : BOOLEAN]

Init ==
    /\ guests = [n \in Node |-> 1]
    /\ resources = << >>
    /\ accesses = {}
    /\ described = FALSE
    /\ next_request_id = 2
    /\ call = NoCall
    /\ to_guest = [n \in Node |-> << >>]
    /\ to_host = [n \in Node |-> << >>]
    /\ session = [n \in Node |-> 1]
    /\ exported = {}
    /\ mapped = {}
    /\ abandoned = {}

-----------------------------------------------------------------------------
\* The host.

\* call_guest, up to its read.  The key is the host's own name of an access.
CallGuest(op, id, key) ==
    LET n == NodeOf(op)
        frame == [op |-> op, id |-> id, key |-> key, request_id |-> next_request_id,
                  session |-> guests[n]]
    IN /\ call = NoCall /\ next_request_id <= MaxRequest
       /\ next_request_id' = next_request_id + 1
       /\ call' = frame
       /\ to_guest' = [to_guest EXCEPT ![n] = Append(@, frame)]
       /\ UNCHANGED <<guests, resources, described, to_host, guest, abandoned>>

Allocate == CallGuest("allocate", NoId, NoId) /\ UNCHANGED accesses
InitializeDeterministic ==
    \E r \in DOMAIN resources : CallGuest("seed", r, NoId) /\ UNCHANGED accesses
Publish ==
    \E r \in DOMAIN resources :
        resources[r].seeded /\ CallGuest("publish", r, NoId) /\ UNCHANGED accesses
\* The host takes the descriptor from its caller and looks at no record of its own.
Import == described /\ CallGuest("import", NoId, NoId) /\ UNCHANGED accesses
ChecksumAccess ==
    \E a \in accesses : CallGuest("checksum", a.id, a.key) /\ UNCHANGED accesses
Release ==
    \E r \in DOMAIN resources : CallGuest("release", r, NoId) /\ UNCHANGED accesses

Revoke ==
    \E a \in accesses : CallGuest("revoke", a.id, a.key) /\ UNCHANGED accesses

Submit ==
    \/ Allocate \/ InitializeDeterministic \/ Publish \/ Import
    \/ ChecksumAccess \/ Release \/ Revoke

\* What execute does with the answer to its request.
Allocated(id) ==
    [r \in DOMAIN resources \cup {id} |-> IF r = id THEN [seeded |-> FALSE] ELSE resources[r]]
Seeded(id) == [resources EXCEPT ![id].seeded = TRUE]

\* A mutant: the released resource stays on record.
ReleasedKeeping(id) == resources

Released(id) == [r \in DOMAIN resources \ {id} |-> resources[r]]

Imported(id, key) == accesses \cup {[id |-> id, key |-> key]}
Revoked(key) == {a \in accesses : a.key # key}

Completed(c, answer) ==
    /\ resources' = CASE c.op = "allocate" -> Allocated(answer.id)
                      [] c.op = "seed" -> Seeded(c.id)
                      [] c.op = "release" -> Released(c.id)
                      [] OTHER -> resources
    /\ accesses' = CASE c.op = "import" -> Imported(answer.id, c.request_id)
                     [] c.op = "revoke" -> Revoked(c.key)
                     [] OTHER -> accesses
    /\ described' = (described \/ c.op = "publish")

\* A mutant: the frame read is taken for the answer whatever it answers.
MatchesSession(c, answer) == answer.session = c.session

Matches(c, answer) == answer.request_id = c.request_id /\ answer.session = c.session

Succeeds(n) ==
    /\ call # NoCall /\ n = NodeOf(call.op)
    /\ to_host[n] # << >>
    /\ Matches(call, Head(to_host[n])) /\ Head(to_host[n]).ok

\* The frame is consumed whether it matches or not.
Receive ==
    /\ call # NoCall
    /\ LET n == NodeOf(call.op)
       IN /\ to_host[n] # << >>
          /\ IF Succeeds(n) THEN Completed(call, Head(to_host[n]))
                            ELSE UNCHANGED <<resources, accesses, described>>
          /\ to_host' = [to_host EXCEPT ![n] = Tail(@)]
          /\ abandoned' = IF Matches(call, Head(to_host[n])) THEN abandoned
                                                             ELSE abandoned \cup {call}
    /\ call' = NoCall
    /\ UNCHANGED <<guests, next_request_id, guest, to_guest>>

\* The read timeout of the stream.
Timeout ==
    /\ call # NoCall /\ to_host[NodeOf(call.op)] = << >>
    /\ abandoned' = abandoned \cup {call}
    /\ call' = NoCall
    /\ UNCHANGED <<host, guest, to_guest, to_host>>

-----------------------------------------------------------------------------
\* The guests.

\* What the SDK does for an operation that succeeds, with the id it returns.
SdkEffect(frame, id) ==
    CASE frame.op = "allocate" ->
           id \in Id \ exported /\ exported' = exported \cup {id} /\ UNCHANGED mapped
      [] frame.op \in {"seed", "publish"} ->
           id = frame.id /\ id \in exported /\ UNCHANGED <<exported, mapped>>
      [] frame.op = "release" ->
           id = frame.id /\ id \in exported /\ exported' = exported \ {id} /\ UNCHANGED mapped
      [] frame.op = "import" ->
           id \in Id \ mapped /\ mapped' = mapped \cup {id} /\ UNCHANGED exported
      [] frame.op = "checksum" ->
           id = frame.id /\ id \in mapped /\ UNCHANGED <<exported, mapped>>
      [] frame.op = "revoke" ->
           id = frame.id /\ id \in mapped /\ mapped' = mapped \ {id} /\ UNCHANGED exported

\* A mutant: requests of an earlier session are carried out.
AnySession(n, frame) == TRUE

CurrentSession(n, frame) == frame.session = session[n]

\* handle_request, and the loop of the agent around it.
HandleRequest(n) ==
    /\ to_guest[n] # << >>
    /\ LET frame == Head(to_guest[n])
           Reply(id, ok) == to_host' = [to_host EXCEPT ![n] = Append(@,
               [id |-> id, request_id |-> frame.request_id, session |-> session[n], ok |-> ok])]
       IN \/ \E id \in Id :
                CurrentSession(n, frame) /\ SdkEffect(frame, id) /\ Reply(id, TRUE)
          \/ Reply(NoId, FALSE) /\ UNCHANGED <<exported, mapped>>
    /\ to_guest' = [to_guest EXCEPT ![n] = Tail(@)]
    /\ UNCHANGED <<host, session, call, abandoned>>

\* Frames under way to the guest are lost or found by the new agent.
Reboot(n) ==
    /\ session[n] <= MaxReboot
    /\ session' = [session EXCEPT ![n] = @ + 1]
    /\ exported' = IF n = "nodeA" THEN {} ELSE exported
    /\ mapped' = IF n = "nodeB" THEN {} ELSE mapped
    /\ \E lost \in 0..Len(to_guest[n]) :
          to_guest' = [to_guest EXCEPT ![n] = SubSeq(@, lost + 1, Len(@))]
    /\ UNCHANGED <<host, call, to_host, abandoned>>

Next ==
    \/ Submit \/ Receive \/ Timeout
    \/ \E n \in Node : HandleRequest(n) \/ Reboot(n)

Spec == Init /\ [][Next]_vars

-----------------------------------------------------------------------------
\* Properties.

\* The type invariant; one request of the current call at most is on its way
\* behind the abandoned ones.
TypeOK ==
    /\ guests \in [Node -> {1}]
    /\ DOMAIN resources \subseteq Id
    /\ \A r \in DOMAIN resources :
          resources[r] \in [seeded : BOOLEAN]
    /\ described \in BOOLEAN
    /\ accesses \subseteq [id : Id, key : 2..MaxRequest]
    /\ next_request_id \in 2..(MaxRequest + 1)
    /\ call = NoCall \/ call \in Frame
    /\ \A n \in Node : to_guest[n] \in Seq(Frame) /\ to_host[n] \in Seq(Answer)
    /\ session \in [Node -> 1..(MaxReboot + 1)]
    /\ exported \subseteq Id /\ mapped \subseteq Id
    /\ abandoned \subseteq Frame

\* The calls whose outcome the host does not know, or not yet.
Unsettled(op) == {c \in abandoned \cup {call} : c.op = op}

\* What the provider has on record exists in the guest, unless the guest has
\* rebooted since or a call to remove it missed its answer, and what a guest holds
\* the provider has on record or may learn of from a call that is under way or missed
\* its answer: no answer of one call is ever taken for the answer of another.
HostMatchesGuest ==
    /\ session["nodeA"] = guests["nodeA"] =>
          \A r \in DOMAIN resources : r \in exported \/ \E c \in Unsettled("release") : c.id = r
    /\ session["nodeB"] = guests["nodeB"] =>
          \A a \in accesses : a.id \in mapped \/ \E c \in Unsettled("revoke") : c.id = a.id
    /\ \A r \in exported : r \in DOMAIN resources \/ Unsettled("allocate") # {}
    /\ \A a \in mapped : a \in {x.id : x \in accesses} \/ Unsettled("import") # {}

\* After a reboot nothing is ever created in that guest again by a host that
\* still uses the old session: every call for a binding of that guest fails closed
\* (handle_request compares the session first).  It says nothing of the other guest:
\* what nodeB has mapped of a resource of a rebooted nodeA stays usable.
RebootedStaysEmpty ==
    /\ session["nodeA"] # guests["nodeA"] => exported = {}
    /\ session["nodeB"] # guests["nodeB"] => mapped = {}

\* Once a call to a node has timed out, no later call to that node succeeds: each
\* reads the answer to an earlier one, which its request id tells it apart from.
TimeoutIsFinal ==
    [][\A n \in Node :
          (\E c \in abandoned : NodeOf(c.op) = n) => ~(Receive /\ Succeeds(n))]_vars
=============================================================================
