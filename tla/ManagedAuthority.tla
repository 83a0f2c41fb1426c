-------------------------- MODULE ManagedAuthority --------------------------
(***************************************************************************)
(* The durable root of the external DDR domain and the brokers that use it *)
(* one after the other: the lock, the journal and its head                 *)
(* (ddr_recovery_journal.rs), the writer and the replay of the history     *)
(* (ddr_recovery_durable.rs) and the state file (ddr_managed_authority.rs).*)
(* An initializer makes the root first and publishes its manifest last.    *)
(*                                                                         *)
(* A broker process works under one lock, so its file operations form one  *)
(* sequence `todo`; it can crash between any two of them, and each can     *)
(* fail.  The page cache survives a crash: the variables are what the next *)
(* broker reads, `synced` is what the last successful sync put on the disk.*)
(* A reboot ends the root: its bootstrap names the boot it belongs to.     *)
(*                                                                         *)
(* What a frame says about an object is cut down to intent, close intent   *)
(* and close done; RecoveryAudit has all events.  A frame stands for its   *)
(* bytes and checksum, so the head's offset and checksum are its sequence. *)
(* The files are changed by nobody else, so the inode checks are left out. *)
(***************************************************************************)
EXTENDS Naturals, Sequences, Functions

CONSTANTS
    Broker,     \* broker incarnations
    Object,     \* what is handed to clients: backings and views
    MaxFrames,  \* MAX_JOURNAL, in frames
    None,
    Torn        \* the content of a file, or of a frame, that was cut short

VARIABLES
    journal,    \* recovery.journal: frames, the last one perhaps Torn
    head,       \* recovery.head
    state,      \* state: clean, or dirty since the checkpoint it pins
    synced,     \* the three files as they are on the disk
    bootstrap,  \* how far the initializer came, and whether it still runs
    proc,       \* the process that holds authority.lock, or None
    started,    \* incarnations that have been used
    held        \* what the clients of each broker may still have mapped

rest == <<proc, started, held>>
vars == <<journal, head, state, synced, bootstrap, rest>>

Kind == {"BrokerBirth", "Intent", "CloseIntent", "CloseDone", "BrokerDrained", "CleanCheckpoint"}
Frame == [kind : Kind, broker : Broker, obj : Object \cup {None}]
Head_ == [mode : {"clean", "dirty"}, broker : Broker \cup {None},
          sequence : 0..MaxFrames, clean_sequence : 0..MaxFrames]
State == [mode : {"clean", "dirty"}, journal_head : Head_]

genesis == [mode |-> "clean", broker |-> None, sequence |-> 0, clean_sequence |-> 0]
GenesisState == [mode |-> "clean", journal_head |-> genesis]

-----------------------------------------------------------------------------
\* The replay of one generation, and of the whole history.

Generation == [broker : Broker \cup {None}, birth : BOOLEAN,
               obj : [Object -> {"none", "open", "closing", "closed"}],
               drained : BOOLEAN, checkpointed : BOOLEAN]

NewGeneration(b) ==
    [broker |-> b, birth |-> FALSE, obj |-> [o \in Object |-> "none"],
     drained |-> FALSE, checkpointed |-> FALSE]

ZeroObligations(g) == \A o \in Object : g.obj[o] \in {"none", "closed"}

Accepts(g, f) ==
    /\ ~g.checkpointed
    /\ g.drained <=> f.kind = "CleanCheckpoint"
    /\ CASE f.kind = "BrokerBirth" -> ~g.birth
         [] f.kind = "Intent" -> g.obj[f.obj] = "none"
         [] f.kind = "CloseIntent" -> g.obj[f.obj] = "open"
         [] f.kind = "CloseDone" -> g.obj[f.obj] = "closing"
         [] f.kind = "BrokerDrained" -> TRUE
         [] f.kind = "CleanCheckpoint" -> ZeroObligations(g)

apply(g, f) ==
    CASE f.kind = "BrokerBirth" -> [g EXCEPT !.birth = TRUE]
      [] f.kind = "Intent" -> [g EXCEPT !.obj[f.obj] = "open"]
      [] f.kind = "CloseIntent" -> [g EXCEPT !.obj[f.obj] = "closing"]
      [] f.kind = "CloseDone" -> [g EXCEPT !.obj[f.obj] = "closed"]
      [] f.kind = "BrokerDrained" -> [g EXCEPT !.drained = TRUE]
      [] f.kind = "CleanCheckpoint" -> [g EXCEPT !.checkpointed = TRUE]

\* One frame more: a generation ends at its checkpoint, the next one starts
\* with the birth of an incarnation never seen before.
Extend(h, f, i) ==
    LET starts == h.gen.broker = None \/ h.gen.checkpointed
        gen == IF starts THEN NewGeneration(f.broker) ELSE h.gen
        ok == /\ h.ok
              /\ starts => f.kind = "BrokerBirth" /\ f.broker \notin h.brokers
              /\ f.broker = gen.broker
              /\ Accepts(gen, f)
    IN [ok |-> ok, brokers |-> h.brokers \cup {f.broker},
        gen |-> IF ok THEN apply(gen, f) ELSE gen,
        latest_clean |-> IF f.kind = "CleanCheckpoint" THEN i ELSE h.latest_clean]

replay_history(frames) ==
    LET h[i \in 0..Len(frames)] ==
            IF i = 0
            THEN [ok |-> TRUE, brokers |-> {}, gen |-> NewGeneration(None), latest_clean |-> 0]
            ELSE Extend(h[i - 1], frames[i], i)
    IN h[Len(frames)]

-----------------------------------------------------------------------------
\* Opening the root: AnchoredJournal::open, the state's verdict on the head and
\* the confirmation of the last clean stop.

parse_frames ==
    /\ head # Torn /\ Torn \notin Range(journal)
    /\ Len(journal) = head.sequence
    /\ head.clean_sequence # 0 => journal[head.clean_sequence].kind = "CleanCheckpoint"
    /\ head.mode = "clean" /\ head.sequence # 0 => journal[Len(journal)].kind = "CleanCheckpoint"

confirm_normal_restart ==
    LET h == replay_history(journal)
    IN /\ head.mode = "clean" /\ h.ok
       /\ journal # <<>> => h.gen.checkpointed
       /\ h.latest_clean = head.clean_sequence /\ h.gen.broker = head.broker

\* A mutant: a dirty root is opened for work.
InheritsDirty ==
    IF state = Torn \/ ~parse_frames THEN "refused" ELSE "live"

PinsCheckpoint ==
    LET checkpoint == state.journal_head
    IN checkpoint.mode = "clean" /\ checkpoint.clean_sequence = checkpoint.sequence

verify_deployment_state ==
    IF state = Torn \/ ~parse_frames \/ ~PinsCheckpoint THEN "refused"
    ELSE IF state.mode = "clean" /\ head = state.journal_head
         THEN IF confirm_normal_restart THEN "live" ELSE "refused"
    ELSE IF state.mode = "dirty" /\ head.sequence >= state.journal_head.sequence
         THEN "quarantined"
    ELSE "refused"

-----------------------------------------------------------------------------
\* The file operations a broker still has to do, in order, and how far it is
\* with the first of them.

WriteState(purpose) == [op |-> "state", purpose |-> purpose]
Record(kind, o) == [op |-> "frame", kind |-> kind, obj |-> o]
Expose(o) == [op |-> "expose", obj |-> o]

Operation ==
    [op : {"state"}, purpose : {"dirty", "retry", "clean", "rollback"}]
    \cup [op : {"frame"}, kind : Kind, obj : Object \cup {None}]
    \cup [op : {"expose"}, obj : Object]

Process ==
    [broker : Broker, quarantined : BOOLEAN, dirty : BOOLEAN, poisoned : BOOLEAN,
     birth_pending : BOOLEAN, gen : Generation, anchor : Head_,
     stopping : BOOLEAN, todo : Seq(Operation), stage : 0..5]

ASSUME RootAssumption ==
    /\ MaxFrames \in Nat
    /\ None \notin Broker \cup Object \cup Process
    /\ Torn \notin Frame \cup Head_ \cup State

Init ==
    /\ journal = <<>> /\ head = Torn /\ state = Torn
    /\ synced = [journal |-> Torn, head |-> Torn, state |-> Torn]
    /\ bootstrap = [stage |-> "None", live |-> TRUE]
    /\ proc = None /\ started = {} /\ held = [b \in Broker |-> {}]

-----------------------------------------------------------------------------
\* initialize_at_mode_inner.  mkdir fails on a root that exists, so there is one
\* initializer ever, and what it leaves behind is neither repaired nor reused.
\* It holds the lock from LockCreated until it ends.  The witness file and the
\* inodes are left out; an empty file is Torn.

BootstrapStage == <<"None", "RootCreated", "LockCreated", "StateCreated", "JournalCreated",
                    "HeadCreated", "WitnessCreated", "StateWritten", "StateSynced", "HeadWritten",
                    "ComponentsSynced", "DirectoriesSynced", "ManifestSynced", "Published",
                    "Returned">>

\* The final name of the manifest exists.
Published == bootstrap.stage \in {"Published", "Returned"}

\* The initializer goes on from one stage to another.
Reaches(from, stage) ==
    /\ bootstrap = [stage |-> from, live |-> TRUE]
    /\ bootstrap' = [stage |-> stage, live |-> stage # "Returned"]
    /\ UNCHANGED rest

\* The directory, the lock and the empty files.
CreateFiles ==
    /\ \E i \in 1..6 : Reaches(BootstrapStage[i], BootstrapStage[i + 1])
    /\ UNCHANGED <<journal, head, state, synced>>

WriteGenesisState ==
    /\ Reaches("WitnessCreated", "StateWritten")
    /\ state' = GenesisState
    /\ UNCHANGED <<journal, head, synced>>

SyncGenesisState ==
    /\ Reaches("StateWritten", "StateSynced")
    /\ synced' = [synced EXCEPT !.state = state]
    /\ UNCHANGED <<journal, head, state>>

WriteGenesisHead ==
    /\ Reaches("StateSynced", "HeadWritten")
    /\ head' = genesis
    /\ UNCHANGED <<journal, state, synced>>

SyncComponents ==
    /\ Reaches("HeadWritten", "ComponentsSynced")
    /\ synced' = [synced EXCEPT !.journal = journal, !.head = head]
    /\ UNCHANGED <<journal, head, state>>

\* The directories are synced, the manifest is written under its pending name once
\* the files were read back, renamed to its final name, synced and read back.
PublishManifest ==
    /\ \/ Reaches("ComponentsSynced", "DirectoriesSynced")
       \/ /\ state = GenesisState /\ parse_frames /\ journal = <<>>
          /\ Reaches("DirectoriesSynced", "ManifestSynced")
       \/ Reaches("ManifestSynced", "Published")
       \/ Reaches("Published", "Returned")
    /\ UNCHANGED <<journal, head, state, synced>>

\* An operation fails, another process holds the lock in its first moment, or
\* the initializer is killed.
BootstrapEnds ==
    /\ bootstrap.live
    /\ bootstrap' = [bootstrap EXCEPT !.live = FALSE]
    /\ UNCHANGED <<journal, head, state, synced, rest>>

-----------------------------------------------------------------------------
\* A refused open changes nothing, an initializer under way holds the lock.  A
\* quarantined broker keeps the lock.
Open(b) ==
    /\ proc = None /\ ~bootstrap.live /\ Published /\ b \notin started
    /\ verify_deployment_state # "refused"
    /\ LET quarantined == verify_deployment_state = "quarantined"
       IN /\ proc' = [broker |-> b, quarantined |-> quarantined, dirty |-> quarantined,
                      poisoned |-> FALSE, birth_pending |-> ~quarantined,
                      gen |-> NewGeneration(b), anchor |-> state.journal_head,
                      stopping |-> FALSE, todo |-> <<>>, stage |-> 0]
          /\ synced' = IF quarantined THEN synced
                       ELSE [journal |-> journal, head |-> head, state |-> state]
    /\ started' = started \cup {b}
    /\ UNCHANGED <<journal, head, state, held, bootstrap>>

Idle == proc # None /\ proc.todo = <<>> /\ ~proc.stopping

before_admission ==
    (IF proc.dirty THEN <<>> ELSE <<WriteState("dirty")>>)
    \o (IF proc.birth_pending THEN <<Record("BrokerBirth", None)>> ELSE <<>>)

Admit(o) ==
    /\ Idle /\ ~proc.quarantined /\ ~proc.poisoned /\ proc.gen.obj[o] = "none"
    /\ proc' = [proc EXCEPT !.todo = before_admission \o <<Record("Intent", o), Expose(o)>>]
    /\ UNCHANGED <<journal, head, state, synced, started, held, bootstrap>>

Release(o) ==
    /\ Idle /\ ~proc.poisoned /\ proc.gen.obj[o] = "open" /\ o \notin held[proc.broker]
    /\ proc' = [proc EXCEPT !.todo = <<Record("CloseIntent", o), Record("CloseDone", o)>>]
    /\ UNCHANGED <<journal, head, state, synced, started, held, bootstrap>>

\* A client closes what it has mapped, or dies, whoever serves it.
LetGo(b, o) ==
    /\ o \in held[b]
    /\ held' = [held EXCEPT ![b] = @ \ {o}]
    /\ UNCHANGED <<journal, head, state, synced, proc, started, bootstrap>>

-----------------------------------------------------------------------------
\* append_inner: header, payload, sync of the journal, then the head truncated,
\* written and synced.  The effect the frame announces comes after it.

Now == Head(proc.todo)
Doing(op) == proc # None /\ proc.todo # <<>> /\ Now.op = op
FrameNow == [kind |-> Now.kind, broker |-> proc.broker, obj |-> Now.obj]

NextHead ==
    LET clean == Now.kind = "CleanCheckpoint"
    IN [mode |-> IF clean THEN "clean" ELSE "dirty", broker |-> proc.broker,
        sequence |-> Len(journal),
        clean_sequence |-> IF clean THEN Len(journal) ELSE proc.anchor.clean_sequence]

\* The journal does not pass its limit with one frame more.
HasRoom == Len(journal) < MaxFrames

Appendable ==
    /\ Accepts(proc.gen, FrameNow)
    /\ head.mode = "dirty" => head.broker = proc.broker
    /\ HasRoom

Advanced == [proc EXCEPT !.stage = @ + 1]
Finished == [proc EXCEPT !.stage = 0, !.todo = Tail(@)]

WriteHeader ==
    /\ Doing("frame") /\ proc.stage = 0 /\ Appendable
    /\ journal' = Append(journal, Torn)
    /\ proc' = Advanced
    /\ UNCHANGED <<head, state, synced, started, held, bootstrap>>

WritePayload ==
    /\ Doing("frame") /\ proc.stage = 1
    /\ journal' = [journal EXCEPT ![Len(journal)] = FrameNow]
    /\ proc' = Advanced
    /\ UNCHANGED <<head, state, synced, started, held, bootstrap>>

\* A mutant: the sync of the journal is forgotten.
JournalUnsynced == synced

JournalSynced == [synced EXCEPT !.journal = journal]

SyncJournal ==
    /\ Doing("frame") /\ proc.stage = 2
    /\ synced' = JournalSynced
    /\ proc' = Advanced
    /\ UNCHANGED <<journal, head, state, started, held, bootstrap>>

TruncateHead ==
    /\ Doing("frame") /\ proc.stage = 3
    /\ head' = Torn
    /\ proc' = Advanced
    /\ UNCHANGED <<journal, state, synced, started, held, bootstrap>>

WriteHead ==
    /\ Doing("frame") /\ proc.stage = 4
    /\ head' = NextHead
    /\ proc' = Advanced
    /\ UNCHANGED <<journal, state, synced, started, held, bootstrap>>

SyncHead ==
    /\ Doing("frame") /\ proc.stage = 5
    /\ synced' = [synced EXCEPT !.head = head]
    /\ proc' = [Finished EXCEPT !.gen = apply(@, FrameNow),
                                !.birth_pending = @ /\ Now.kind # "BrokerBirth"]
    /\ UNCHANGED <<journal, head, state, started, held, bootstrap>>

\* Only now is the descriptor sent or the backing mapped.
Exposes ==
    /\ Doing("expose")
    /\ held' = [held EXCEPT ![proc.broker] = @ \cup {Now.obj}]
    /\ proc' = Finished
    /\ UNCHANGED <<journal, head, state, synced, started, bootstrap>>

-----------------------------------------------------------------------------
\* write_pinned_state_inner: truncate, write, sync and read back.

\* A mutant: a clean state pins the checkpoint before the last.
PinsOldCheckpoint(purpose) ==
    [mode |-> IF purpose = "clean" THEN "clean" ELSE "dirty", journal_head |-> proc.anchor]

NextState(purpose) ==
    IF purpose = "clean" THEN [mode |-> "clean", journal_head |-> head]
    ELSE [mode |-> "dirty", journal_head |-> proc.anchor]

TruncateState ==
    /\ Doing("state") /\ proc.stage = 0
    /\ state' = Torn
    /\ proc' = Advanced
    /\ UNCHANGED <<journal, head, synced, started, held, bootstrap>>

WriteStateText ==
    /\ Doing("state") /\ proc.stage = 1
    /\ state' = NextState(Now.purpose)
    /\ proc' = Advanced
    /\ UNCHANGED <<journal, head, synced, started, held, bootstrap>>

\* A retried dirty write leaves the broker poisoned, a rollback leaves its flag.
SyncState ==
    /\ Doing("state") /\ proc.stage = 2
    /\ synced' = [synced EXCEPT !.state = state]
    /\ proc' = [Finished EXCEPT !.dirty = CASE Now.purpose \in {"dirty", "retry"} -> TRUE
                                            [] Now.purpose = "clean" -> FALSE
                                            [] OTHER -> @]
    /\ UNCHANGED <<journal, head, state, started, held, bootstrap>>

-----------------------------------------------------------------------------
\* Every operation can fail at every stage, and an append can be refused before
\* the first.  A failure drops what was to follow and poisons the broker, but
\* for a checkpoint that is refused: obligations are left and the root stays
\* dirty.

Poisoned(p) == [p EXCEPT !.poisoned = TRUE, !.todo = <<>>, !.stage = 0]

FrameFails ==
    /\ Doing("frame")
    /\ proc' = IF proc.stage = 0 /\ Now.kind = "CleanCheckpoint" /\ ~Accepts(proc.gen, FrameNow)
               THEN [proc EXCEPT !.todo = <<>>]
               ELSE Poisoned(proc)
    /\ UNCHANGED <<journal, head, state, synced, started, held, bootstrap>>

\* One retry of a dirty write, one rollback of a clean one.
AfterFailure(purpose) ==
    CASE purpose = "dirty" -> <<WriteState("retry")>>
      [] purpose = "clean" -> <<WriteState("rollback")>>
      [] OTHER -> <<>>

StateFails ==
    /\ Doing("state")
    /\ proc' = [Poisoned(proc) EXCEPT !.todo = AfterFailure(Now.purpose)]
    /\ UNCHANGED <<journal, head, state, synced, started, held, bootstrap>>

-----------------------------------------------------------------------------
\* finish_shutdown, after every handler and worker has been joined: nothing is
\* written by a quarantined, a poisoned or an unused broker.
finish_shutdown ==
    /\ Idle
    /\ proc' = [proc EXCEPT !.stopping = TRUE,
                  !.todo = IF proc.quarantined \/ proc.poisoned \/ proc.birth_pending THEN <<>>
                           ELSE <<Record("BrokerDrained", None), Record("CleanCheckpoint", None),
                                  WriteState("clean")>>]
    /\ UNCHANGED <<journal, head, state, synced, started, held, bootstrap>>

\* The process ends after its stop, or is killed anywhere before.
Ends ==
    /\ proc # None
    /\ proc' = None
    /\ UNCHANGED <<journal, head, state, synced, started, held, bootstrap>>

Next ==
    \/ CreateFiles \/ WriteGenesisState \/ SyncGenesisState \/ WriteGenesisHead
    \/ SyncComponents \/ PublishManifest \/ BootstrapEnds
    \/ \E b \in Broker : Open(b)
    \/ \E o \in Object : Admit(o) \/ Release(o)
    \/ \E b \in Broker, o \in Object : LetGo(b, o)
    \/ WriteHeader \/ WritePayload \/ SyncJournal \/ TruncateHead \/ WriteHead \/ SyncHead
    \/ Exposes
    \/ TruncateState \/ WriteStateText \/ SyncState
    \/ FrameFails \/ StateFails
    \/ finish_shutdown \/ Ends

Spec == Init /\ [][Next]_vars

-----------------------------------------------------------------------------
\* Every variable has its type; the journal never grows past its limit.
TypeOK ==
    /\ journal \in Seq(Frame \cup {Torn}) /\ Len(journal) <= MaxFrames
    /\ head \in Head_ \cup {Torn} /\ state \in State \cup {Torn}
    /\ synced \in [journal : Seq(Frame \cup {Torn}) \cup {Torn}, head : Head_ \cup {Torn},
                   state : State \cup {Torn}]
    /\ bootstrap \in [stage : Range(BootstrapStage), live : BOOLEAN]
    /\ proc \in Process \cup {None}
    /\ started \subseteq Broker
    /\ held \in [Broker -> SUBSET Object]

\* A broker that may admit work has no predecessor whose clients still have
\* memory mapped: a root is never opened as clean while an earlier generation
\* is exposed (verify_deployment_state, confirm_normal_restart).
NoFalseClean ==
    proc # None /\ ~proc.quarantined =>
        \A b \in Broker \ {proc.broker} : held[b] = {}

\* Whatever a client has mapped is announced by an intent that is on the disk,
\* under a state on the disk that is not clean: "may cross its side-effect
\* barrier only on success" (append_dirty, before_admission).
EffectsDurable ==
    \A b \in Broker : \A o \in held[b] :
        /\ [kind |-> "Intent", broker |-> b, obj |-> o] \in Range(synced.journal)
        /\ synced.state # Torn /\ synced.state.mode = "dirty"

\* A clean root opens.  A broker that is not poisoned and has put its state back
\* to clean leaves a root that the next broker opens live, and no client with
\* memory mapped (clean_after_semantic_drain).  And whatever became of its
\* initializer, a root nobody has used opens live once it can be opened at all,
\* from files that are on the disk (initialize_at_mode_inner).
CleanRootOpens ==
    /\ proc # None /\ proc.todo = <<>> /\ ~proc.dirty /\ ~proc.poisoned =>
          verify_deployment_state = "live" /\ held[proc.broker] = {}
    /\ Published /\ started = {} =>
          /\ verify_deployment_state = "live"
          /\ synced = [journal |-> journal, head |-> head, state |-> state]

=============================================================================
