----------------------------- MODULE TrustChain -----------------------------
(***************************************************************************)
(* The generations of the external DDR root: a deployment witness starts a *)
(* broker behind a ready gate, a binder process appends BIND to the trust  *)
(* file, the released broker runs its quarantined lifecycle, and a sealer  *)
(* process appends SEAL after the witness has seen the broker exit         *)
(* (ddr_trust_transaction.rs, ddr_trust_history.rs, ddr_witness_evidence.rs*)
(* ddr_ready_gate.rs).                                                     *)
(*                                                                         *)
(* The binder, the sealer, the broker and ordinary brokers are processes   *)
(* that take authority.lock one after the other.  Each can end between any *)
(* two of its writes, by a crash, an I/O error or a failed check: the      *)
(* process exits and its files stay as they are (Exits).  A reboot ends    *)
(* the root, so what was written is what the next process reads.           *)
(*                                                                         *)
(* The witness is a deployment script (t3_deployment_witness.py); it       *)
(* records what it saw, and is taken to start its helpers, to release the  *)
(* gate and to die at any moment.  A record, journal and head, is one step *)
(* with what it is about: a torn record is refused by every guard, and a   *)
(* child that was not recorded never leaves its gate.  Several witnesses   *)
(* may be at work, and of a roster only the broker is kept.                *)
(*                                                                         *)
(* A frame stands for its bytes and checksum; the DEPLOY frame, the policy *)
(* and the configuration are fixed, so trust holds the frames after DEPLOY.*)
(* An ordinary broker is cut down to its first and its last write          *)
(* (ManagedAuthority has all).                                             *)
(***************************************************************************)
EXTENDS Naturals, Sequences, SequencesExt

CONSTANTS
    Witness,    \* deployment attempts: a witness, its broker, its evidence
    Name,       \* generation and broker names the operator chooses from
    MaxFrames,  \* MAX_FRAMES, the DEPLOY frame included
    MaxOrdinary,\* bound on the lifecycles of ordinary brokers
    None,
    Empty,      \* the content of the truncated state file
    Half        \* the first half of a trust frame

VARIABLES
    trust,      \* witness.trust after DEPLOY, its last entry perhaps Half
    state,      \* the state file
    journal,    \* recovery.journal
    jhead,      \* recovery.head: the number of frames it anchors
    evidence,   \* evidence[w]: witness.journal and witness.head of w
    name,       \* name[w]: the name w was started with
    witness,    \* witness[w]: unused, live or dead
    broker,     \* broker[w]: the life of w's broker process
    proc        \* the process that holds authority.lock, or None

vars == <<trust, state, journal, jhead, evidence, name, witness, broker, proc>>
files == <<trust, state, journal, jhead>>
world == <<evidence, name, witness, broker>>

ASSUME TrustAssumption ==
    /\ MaxFrames \in Nat \ {0} /\ MaxOrdinary \in Nat
    /\ None \notin Witness \cup Name

Event == {"witness_start", "child_birth", "child_wait", "child_wait_failed", "witness_seal"}
Lifecycle == <<"BrokerBirth", "BrokerDrained", "CleanCheckpoint">>
Sealed == <<"witness_start", "child_birth", "child_wait", "witness_seal">>
Stage == <<"BeforePending", "PendingTruncated", "PendingWritten", "PendingSynced",
           "TrustPartial", "TrustWritten", "TrustSynced",
           "FinalTruncated", "FinalWritten", "FinalSynced", "FinalReadback">>

BindFrame == [kind : {"BIND"}, w : Witness, name : Name, initial_head : Nat]
SealFrame == [kind : {"SEAL"}, w : Witness, name : Name, final_head : Nat, evidence : Seq(Event)]
State == [closure : {"closed", "normal", "bound", "sealed"}, mode : {"clean", "dirty"},
          anchor : Nat, generation : Witness \cup {None}, journal_head : Nat, pending : BOOLEAN]

GenesisState == [closure |-> "closed", mode |-> "clean", anchor |-> 0,
                 generation |-> None, journal_head |-> 0, pending |-> FALSE]

-----------------------------------------------------------------------------
\* The trust history and the state that anchors it.

\* A mutant: a name or a birth may come back in a later generation.
BindReused(tr, i) ==
    /\ i > 1 => tr[i - 1].kind = "SEAL"
    /\ tr[i].initial_head = IF i = 1 THEN 0 ELSE tr[i - 1].final_head

BindFits(tr, i) ==
    /\ i > 1 => tr[i - 1].kind = "SEAL"
    /\ \A j \in 1..i - 1 : tr[j].name # tr[i].name /\ tr[j].w # tr[i].w
    /\ tr[i].initial_head = IF i = 1 THEN 0 ELSE tr[i - 1].final_head

SealFits(tr, i) ==
    /\ i > 1 /\ tr[i - 1].kind = "BIND"
    /\ tr[i].w = tr[i - 1].w /\ tr[i].name = tr[i - 1].name
    /\ tr[i].final_head > tr[i - 1].initial_head

verify(tr, anchor) ==
    /\ Len(tr) = anchor /\ Len(tr) < MaxFrames
    /\ Half \notin ToSet(tr)
    /\ \A i \in DOMAIN tr : IF tr[i].kind = "BIND" THEN BindFits(tr, i) ELSE SealFits(tr, i)

HeadMode(n) == IF n = 0 \/ journal[n].kind = "CleanCheckpoint" THEN "clean" ELSE "dirty"

\* refused; live: an ordinary broker may admit; quarantined: nobody may.
verify_deployment_state(st, tr, n) ==
    IF st = Empty \/ st.pending THEN "refused"
    ELSE IF st.closure = "closed" THEN
        IF st = GenesisState /\ tr = <<>> /\ n = 0 THEN "live" ELSE "refused"
    ELSE IF st.closure = "normal" THEN
        IF tr # <<>> THEN "refused"
        ELSE IF st.mode = "dirty" THEN "quarantined"
        ELSE IF st.journal_head = n THEN "live" ELSE "refused"
    ELSE IF /\ verify(tr, st.anchor) /\ tr # <<>>
            /\ st.journal_head = n /\ st.mode = HeadMode(n)
            /\ st.generation = Last(tr).w
            /\ IF Last(tr).kind = "SEAL"
               THEN st.closure = "sealed" /\ Last(tr).final_head = n
               ELSE /\ st.closure = "bound"
                    /\ \/ n = Last(tr).initial_head
                       \/ n > Last(tr).initial_head /\ journal[n].by = Last(tr).w
         THEN "quarantined" ELSE "refused"

Generations(tr) == {i \in DOMAIN tr : tr[i].kind = "BIND"}

\* Where the generation bound by frame i ends: its SEAL, or the journal's end.
Limit(tr, i) == IF i < Len(tr) THEN tr[i + 1].final_head ELSE Len(journal)

inspect_versioned(tr) ==
    /\ tr = <<>> => journal = <<>>
    /\ tr # <<>> /\ Last(tr).kind = "SEAL" => Last(tr).final_head = Len(journal)
    /\ \A i \in Generations(tr) :
          \E frames \in {SubSeq(journal, tr[i].initial_head + 1, Limit(tr, i))} :
             /\ \A k \in DOMAIN frames :
                   k <= Len(Lifecycle) /\ frames[k] = [kind |-> Lifecycle[k], by |-> tr[i].w]
             /\ i < Len(tr) => Len(frames) = Len(Lifecycle)

open_journal == jhead = Len(journal)

\* A mutant: a sealed, clean root is opened for ordinary work.
SealedIsLive ==
    IF ~open_journal THEN "refused"
    ELSE IF state # Empty /\ state.closure = "sealed" THEN "live"
    ELSE verify_deployment_state(state, trust, jhead)

open_at_held_lock ==
    IF ~open_journal THEN "refused"
    ELSE IF /\ verify_deployment_state(state, trust, jhead) = "quarantined"
            /\ state.closure # "normal" /\ ~inspect_versioned(trust)
         THEN "refused"
    ELSE verify_deployment_state(state, trust, jhead)

\* The namespace as the process remembers it.
ensure_namespace == open_journal /\ state = proc.cached /\ open_at_held_lock # "refused"

-----------------------------------------------------------------------------
\* The evidence of a witness and the guards taken from it.

BrokerLive(w) == broker[w] \in {"gate", "open", "bare"}

verify_sealed_generation(w, ev) == evidence[w] = ev /\ ev = Sealed

verify_sealed_history(tr) ==
    \A i \in DOMAIN tr : tr[i].kind = "SEAL" => verify_sealed_generation(tr[i].w, tr[i].evidence)

verify_live_binding(w) ==
    /\ evidence[w] = <<"witness_start", "child_birth">>
    /\ witness[w] = "live" /\ BrokerLive(w)

LiveBindingGuard_recheck(w, guard) ==
    evidence[w] = guard /\ witness[w] = "live" /\ BrokerLive(w)

\* A mutant: the sealer looks at the witness, not at what it recorded.
SealUnwitnessed(w, guard) == evidence[w] = guard /\ witness[w] = "live"

LiveSealGuard_recheck(w, guard) ==
    /\ evidence[w] = guard /\ witness[w] = "live"
    /\ verify_sealed_generation(w, guard)

Recheck ==
    IF proc.role = "binder" THEN LiveBindingGuard_recheck(proc.w, proc.guard)
    ELSE LiveSealGuard_recheck(proc.w, proc.guard)

-----------------------------------------------------------------------------
\* Processes that take the lock.

Process(role, w, pc) ==
    [role |-> role, w |-> w, pc |-> pc, cached |-> state, guard |-> <<>>, frame |-> None, step |-> 0]

Holds(role, pc) == proc # None /\ proc.role = role /\ proc.pc = pc

\* The lock holder ends, whatever the reason, and leaves its files behind.
Exits ==
    /\ proc # None
    /\ proc' = None
    /\ broker' = IF proc.role = "broker" THEN [broker EXCEPT ![proc.w] = "failed"] ELSE broker
    /\ UNCHANGED <<files, evidence, name, witness>>

\* begin_bound_generation and seal_bound_generation up to BINDER-LOCKED.
HelperOpens(w, role) ==
    /\ proc = None /\ witness[w] = "live"
    /\ open_at_held_lock # "refused"
    /\ proc' = Process(role, w, "locked")
    /\ UNCHANGED <<files, world>>

prepare_live_binding ==
    /\ Holds("binder", "locked") /\ ensure_namespace
    /\ state.mode = "clean" /\ state.closure \in {"closed", "sealed"}
    /\ inspect_versioned(trust) /\ verify_sealed_history(trust)
    /\ verify_live_binding(proc.w)
    /\ proc' = [proc EXCEPT !.pc = "prepared", !.guard = evidence[proc.w]]
    /\ UNCHANGED <<files, world>>

trust_has_capacity == Len(trust) + 1 < MaxFrames

FinalState(frame) ==
    [state EXCEPT !.anchor = Len(trust) + 1, !.generation = frame.w,
                  !.closure = IF frame.kind = "BIND" THEN "bound" ELSE "sealed"]

\* commit_prepared_trust up to its first write: the new chain and the new state
\* must verify, and leave the root quarantined.
Starts(guard, frame) ==
    /\ ensure_namespace /\ ~state.pending
    /\ verify(trust, state.anchor) /\ trust_has_capacity
    /\ verify(Append(trust, frame), state.anchor + 1)
    /\ verify_deployment_state(FinalState(frame), Append(trust, frame), jhead) = "quarantined"
    /\ proc' = [proc EXCEPT !.pc = "commit", !.guard = guard, !.frame = frame, !.step = 1]
    /\ UNCHANGED <<files, world>>

commit_live_binding ==
    /\ Holds("binder", "prepared")
    /\ state.mode = "clean" /\ HeadMode(jhead) = "clean"
    /\ IF trust = <<>> THEN state.closure = "closed" /\ journal = <<>>
       ELSE state.closure = "sealed" /\ inspect_versioned(trust) /\ verify_sealed_history(trust)
    /\ Recheck
    /\ Starts(proc.guard, [kind |-> "BIND", w |-> proc.w, name |-> name[proc.w], initial_head |-> jhead])

\* No path, head or frame is the caller's: all come from the bound generation.
\* verify_live_seal takes the guard, commit_prepared_trust starts.
seal_bound_quarantine ==
    /\ Holds("sealer", "locked") /\ ensure_namespace
    /\ state.mode = "clean" /\ state.closure = "bound"
    /\ Last(trust).w = proc.w
    /\ jhead > 0 /\ HeadMode(jhead) = "clean" /\ journal[jhead].by = proc.w
    /\ inspect_versioned(trust)
    /\ \A i \in Generations(trust) : Limit(trust, i) = trust[i].initial_head + Len(Lifecycle)
    /\ verify_sealed_history(trust)
    /\ LiveSealGuard_recheck(proc.w, evidence[proc.w])
    /\ Starts(evidence[proc.w], [kind |-> "SEAL", w |-> proc.w, name |-> Last(trust).name,
                                 final_head |-> jhead, evidence |-> evidence[proc.w]])

\* One stage of commit_prepared_trust: what it writes, then the hook, which
\* looks at the live pair and the evidence again.  What is read back between the
\* writes is what this process wrote, since it holds the lock.
StageWrites(stage) ==
    /\ state' = CASE stage \in {"PendingTruncated", "FinalTruncated"} -> Empty
                  [] stage = "PendingWritten" -> [proc.cached EXCEPT !.pending = TRUE]
                  [] stage = "FinalWritten" ->
                        [proc.cached EXCEPT !.anchor = Len(trust), !.generation = proc.frame.w,
                            !.closure = IF proc.frame.kind = "BIND" THEN "bound" ELSE "sealed"]
                  [] OTHER -> state
    /\ trust' = CASE stage = "TrustPartial" -> Append(trust, Half)
                  [] stage = "TrustWritten" -> Append(Front(trust), proc.frame)
                  [] OTHER -> trust

commit_prepared_trust ==
    /\ proc # None /\ proc.pc = "commit"
    /\ StageWrites(Stage[proc.step])
    /\ proc' = IF ~Recheck THEN [proc EXCEPT !.pc = "poisoned"]
               ELSE IF proc.step < Len(Stage) THEN [proc EXCEPT !.step = @ + 1]
               ELSE [proc EXCEPT !.pc = "done", !.cached = state]
    /\ UNCHANGED <<journal, jhead, world>>

\* The helper drops the lock before it answers its witness.  The sealer first
\* reads all sealed evidence again.
HelperReleases ==
    /\ proc # None /\ proc.pc = "done"
    /\ proc.role = "sealer" => ensure_namespace /\ verify_sealed_history(trust) /\ Recheck
    /\ proc' = None
    /\ UNCHANGED <<files, world>>

-----------------------------------------------------------------------------
\* The bound broker.  Its witness opens the gate; it must then find the root
\* bound to itself, under its own lock.

GateRejects(w) ==
    /\ broker[w] = "gate"
    /\ broker' = [broker EXCEPT ![w] = "failed"]
    /\ UNCHANGED <<files, evidence, name, witness, proc>>

BrokerOpens(w) ==
    /\ broker[w] = "gate" /\ witness[w] = "live"
    /\ proc = None /\ open_at_held_lock # "refused"
    /\ broker' = [broker EXCEPT ![w] = "open"]
    /\ proc' = Process("broker", w, "opened")
    /\ UNCHANGED <<files, evidence, name, witness>>

\* A mutant: any gated broker may run a bound root.
BoundToSomeone ==
    /\ state.closure = "bound" /\ state.mode = "clean"
    /\ Last(trust).kind = "BIND" /\ Last(trust).initial_head = jhead

verify_bound_self_from_anchor ==
    /\ state.closure = "bound" /\ state.mode = "clean"
    /\ Last(trust).kind = "BIND" /\ Last(trust).initial_head = jhead
    /\ Last(trust).w = proc.w
    /\ verify_live_binding(proc.w)

start_bound_quarantine_audit ==
    /\ Holds("broker", "opened") /\ ensure_namespace
    /\ verify_bound_self_from_anchor
    /\ inspect_versioned(trust) /\ verify_sealed_history(trust)
    /\ proc' = [proc EXCEPT !.pc = "lifecycle"]
    /\ UNCHANGED <<files, world>>

\* Birth, drain and checkpoint, each recorded and then published: the frame, the
\* journal head, and the state file truncated and written.
Ordinal == proc.step \div 4 + 1

publish_bound_quarantine_head ==
    /\ open_journal /\ Len(journal) = Last(trust).initial_head + Ordinal
    /\ proc.step % 4 = 2 => state = proc.cached /\ state.journal_head + 1 = jhead
    /\ state' = IF proc.step % 4 = 2 THEN Empty
                ELSE [proc.cached EXCEPT !.mode = HeadMode(jhead), !.journal_head = jhead]
    /\ UNCHANGED <<journal, jhead>>

record ==
    /\ journal' = IF proc.step % 4 = 0
                  THEN Append(journal, [kind |-> Lifecycle[Ordinal], by |-> proc.w])
                  ELSE journal
    /\ jhead' = IF proc.step % 4 = 1 THEN Len(journal) ELSE jhead
    /\ UNCHANGED state

BrokerLifecycle ==
    /\ Holds("broker", "lifecycle") /\ proc.step < 4 * Len(Lifecycle)
    /\ IF proc.step % 4 < 2 THEN record ELSE publish_bound_quarantine_head
    /\ proc' = [proc EXCEPT !.step = @ + 1, !.cached = IF proc.step % 4 = 3 THEN state' ELSE @]
    /\ UNCHANGED <<trust, world>>

BrokerFinishes ==
    /\ Holds("broker", "lifecycle") /\ proc.step = 4 * Len(Lifecycle)
    /\ broker' = [broker EXCEPT ![proc.w] = "exited"]
    /\ proc' = None
    /\ UNCHANGED <<files, evidence, name, witness>>

\* The external listener does not start: the daemon drops the authority and goes
\* on without it, to a normal exit.
disable_authority ==
    /\ Holds("broker", "lifecycle") /\ proc.step = 4
    /\ broker' = [broker EXCEPT ![proc.w] = "bare"]
    /\ proc' = None
    /\ UNCHANGED <<files, evidence, name, witness>>

BareExits(w) ==
    /\ broker[w] = "bare"
    /\ \E end \in {"exited", "failed"} : broker' = [broker EXCEPT ![w] = end]
    /\ UNCHANGED <<files, evidence, name, witness, proc>>

-----------------------------------------------------------------------------
\* An ordinary broker, which knows nothing of witnesses.

OrdinaryOpens ==
    /\ proc = None /\ open_at_held_lock # "refused"
    /\ proc' = Process("ordinary", None, open_at_held_lock)
    /\ UNCHANGED <<files, world>>

OrdinaryAdmits ==
    /\ Holds("ordinary", "live") /\ ensure_namespace
    /\ Len(journal) < MaxOrdinary * Len(Lifecycle)
    /\ state' = [state EXCEPT !.closure = "normal", !.mode = "dirty"]
    /\ journal' = Append(journal, [kind |-> "BrokerBirth", by |-> None])
    /\ jhead' = Len(journal) + 1
    /\ proc' = [proc EXCEPT !.pc = "serving"]
    /\ UNCHANGED <<trust, world>>

OrdinaryStops ==
    /\ Holds("ordinary", "serving")
    /\ journal' = journal \o <<[kind |-> "BrokerDrained", by |-> None],
                               [kind |-> "CleanCheckpoint", by |-> None]>>
    /\ jhead' = Len(journal) + 2
    /\ state' = [state EXCEPT !.mode = "clean", !.journal_head = Len(journal) + 2]
    /\ proc' = None
    /\ UNCHANGED <<trust, world>>

-----------------------------------------------------------------------------
\* The witness.

Records(w, event) == evidence' = [evidence EXCEPT ![w] = Append(@, event)]

WitnessStarts(w) ==
    /\ witness[w] = "unused"
    /\ witness' = [witness EXCEPT ![w] = "live"]
    /\ \E n \in Name : name' = [name EXCEPT ![w] = n]
    /\ Records(w, "witness_start")
    /\ UNCHANGED <<files, broker, proc>>

WitnessSpawns(w) ==
    /\ witness[w] = "live" /\ broker[w] = "none"
    /\ Records(w, "child_birth")
    /\ broker' = [broker EXCEPT ![w] = "gate"]
    /\ UNCHANGED <<files, name, witness, proc>>

WitnessWaits(w) ==
    /\ witness[w] = "live" /\ broker[w] \in {"exited", "failed"} /\ Len(evidence[w]) = 2
    /\ Records(w, IF broker[w] = "exited" THEN "child_wait" ELSE "child_wait_failed")
    /\ UNCHANGED <<files, name, witness, broker, proc>>

WitnessSeals(w) ==
    /\ witness[w] = "live" /\ Len(evidence[w]) = 3 /\ Last(evidence[w]) = "child_wait"
    /\ Records(w, "witness_seal")
    /\ UNCHANGED <<files, name, witness, broker, proc>>

WitnessDies(w) ==
    /\ witness[w] = "live"
    /\ witness' = [witness EXCEPT ![w] = "dead"]
    /\ UNCHANGED <<files, evidence, name, broker, proc>>

-----------------------------------------------------------------------------
Init ==
    /\ trust = <<>> /\ state = GenesisState /\ journal = <<>> /\ jhead = 0
    /\ evidence = [w \in Witness |-> <<>>]
    /\ name = [w \in Witness |-> None]
    /\ witness = [w \in Witness |-> "unused"]
    /\ broker = [w \in Witness |-> "none"]
    /\ proc = None

Next ==
    \/ Exits
    \/ prepare_live_binding \/ commit_live_binding \/ seal_bound_quarantine
    \/ commit_prepared_trust \/ HelperReleases
    \/ start_bound_quarantine_audit \/ BrokerLifecycle \/ BrokerFinishes \/ disable_authority
    \/ OrdinaryOpens \/ OrdinaryAdmits \/ OrdinaryStops
    \/ \E w \in Witness :
          \/ WitnessStarts(w) \/ WitnessSpawns(w) \/ WitnessWaits(w)
          \/ WitnessSeals(w) \/ WitnessDies(w)
          \/ HelperOpens(w, "binder") \/ HelperOpens(w, "sealer")
          \/ GateRejects(w) \/ BrokerOpens(w) \/ BareExits(w)

Spec == Init /\ [][Next]_vars

-----------------------------------------------------------------------------
\* Properties.

\* The files and the processes keep their shape: only the last trust frame can
\* be torn, the journal is at most one frame ahead of its head, and evidence is a
\* prefix of what a witness records.
TypeOK ==
    /\ \A i \in DOMAIN trust :
          \/ trust[i] \in BindFrame \/ trust[i] \in SealFrame
          \/ i = Len(trust) /\ trust[i] = Half
    /\ state = Empty \/ state \in State
    /\ jhead \in {Len(journal) - 1, Len(journal)} \ {-1}
    /\ \A w \in Witness :
          /\ \/ IsPrefix(evidence[w], Sealed)
             \/ evidence[w] = <<"witness_start", "child_birth", "child_wait_failed">>
          /\ name[w] \in Name \cup {None}
          /\ witness[w] \in {"unused", "live", "dead"}
          /\ broker[w] \in {"none", "gate", "open", "bare", "exited", "failed"}

\* A SEAL in the trust file tells the truth, whatever crashed on the way to it:
\* the broker of that generation exited normally, its witness recorded the exit
\* and closed its evidence, and the journal up to the sealed head ends with the
\* birth, the drain and the checkpoint of that broker (seal_bound_quarantine).
SealTellsTheTruth ==
    \A i \in DOMAIN trust :
        trust[i] # Half /\ trust[i].kind = "SEAL" =>
            \E n \in {trust[i].final_head}, w \in {trust[i].w} :
                /\ broker[w] = "exited" /\ evidence[w] = Sealed
                /\ n >= 3 /\ n <= Len(journal)
                /\ \A k \in 1..3 : journal[n - 3 + k] = [kind |-> Lifecycle[k], by |-> w]

\* Only the broker a BIND names ever writes to the journal of a bound root, and
\* only behind the head it was bound at, although every gated broker may be
\* released at any moment and take the lock in between
\* (verify_bound_self_from_anchor, start_bound_quarantine_audit).
OnlyBoundBrokerWrites ==
    \A n \in DOMAIN journal :
        journal[n].by # None =>
            \E i \in DOMAIN trust :
                /\ trust[i] # Half /\ trust[i].kind = "BIND" /\ trust[i].w = journal[n].by
                /\ trust[i].initial_head \in {n - 1, n - 2, n - 3}

\* Once a generation was ever bound, no ordinary broker serves external DDR
\* again: a successor may get the lock, never the admission (main.rs,
\* begin_bound_generation; verify_deployment_state).
NoAdmissionOnceBound ==
    proc # None /\ proc.role = "ordinary" /\ proc.pc = "serving" => trust = <<>>

\* The lock is free and the files show a write that did not end.
Interrupted ==
    /\ proc = None
    /\ \/ ~open_journal \/ state = Empty
       \/ state.pending
       \/ state.closure \in {"bound", "sealed"} /\ state.journal_head # jhead
       \/ Half \in ToSet(trust)

Complete(f) == f # Half
Lifecycle_ == INSTANCE TrustLifecycle WITH
    chain <- [i \in DOMAIN SelectSeq(trust, Complete) |->
                 [kind |-> trust[i].kind, witness |-> trust[i].w, name |-> trust[i].name]],
    finished <- {w \in Witness : broker[w] = "exited"
                    /\ [kind |-> "CleanCheckpoint", by |-> w] \in ToSet(journal)},
    lost <- Interrupted

\* The chain implements its lifecycle: read through its complete frames, what
\* binder, sealer, brokers and crashes do to the trust file is what
\* TrustLifecycle allows, and an interrupted root is a lost one.
ImplementsLifecycle == Lifecycle_!Spec

=============================================================================
