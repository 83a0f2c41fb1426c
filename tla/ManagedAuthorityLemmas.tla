----------------------- MODULE ManagedAuthorityLemmas -----------------------
(***************************************************************************)
(* The lemmas about the durable root: the replay of its journal, the       *)
(* inductive invariant, what each step makes of the process, and the parts *)
(* of the invariant that speak of the files and of what clients have       *)
(* mapped.  ManagedAuthorityProofs has the part about the process.         *)
(***************************************************************************)
EXTENDS ManagedAuthority, SequenceTheorems, WellFoundedInduction, TLAPS

-----------------------------------------------------------------------------
\* A set of naturals that is not empty has a least member.
LEMMA Least ==
  ASSUME NEW T \in SUBSET Nat, T # {}
  PROVE  \E n \in T : \A m \in T : ~(m < n)
  <1>1. \E x \in T : \A y \in T : ~ (<<y, x>> \in OpToRel(<, Nat))
    BY NatLessThanWellFounded, WFMin, Zenon
  <1>. QED
    BY <1>1, Zenon DEF OpToRel

\* Induction over the naturals: a set with 0 that is closed under the successor
\* has every natural number.
LEMMA SetInduction ==
  ASSUME NEW T, 0 \in T, \A n \in Nat : n \in T => n + 1 \in T
  PROVE  Nat \subseteq T
  <1>. DEFINE B == Nat \ T
  <1>. SUFFICES ASSUME B # {} PROVE FALSE
    OBVIOUS
  <1>1. PICK n \in B : \A m \in B : ~(m < n)
    BY Least, Zenon
  <1>2. n - 1 \in Nat /\ n - 1 \notin B
    BY <1>1
  <1>. QED
    BY <1>1, <1>2

-----------------------------------------------------------------------------
\* The replay of a history, frame by frame.

NoHistory == [ok |-> TRUE, brokers |-> {}, gen |-> NewGeneration(None), latest_clean |-> 0]

\* The table of the replays of the first i frames, i up to n.
Replays(g, frames, n) ==
    g = [i \in 0..n |-> IF i = 0 THEN NoHistory ELSE Extend(g[i - 1], frames[i], i)]

\* There is such a table, of every length.
LEMMA ReplayExists ==
  ASSUME NEW frames, NEW n \in Nat
  PROVE  \E g : Replays(g, frames, n)
  <1>. DEFINE T == {k \in Nat : \E g : Replays(g, frames, k)}
  <1>1. 0 \in T
    <2>1. Replays([i \in 0..0 |-> NoHistory], frames, 0)
      BY DEF Replays
    <2>. QED
      BY <2>1, Zenon
  <1>2. ASSUME NEW k \in Nat, k \in T PROVE k + 1 \in T
    <2>1. PICK g : Replays(g, frames, k)
      BY <1>2, Zenon
    <2>. DEFINE e == [i \in 0..(k + 1) |-> IF i = k + 1 THEN Extend(g[k], frames[k + 1], k + 1) ELSE g[i]]
    <2>2. \A i \in 0..k : g[i] = IF i = 0 THEN NoHistory ELSE Extend(g[i - 1], frames[i], i)
      BY <2>1, Zenon DEF Replays
    <2>3. \A i \in 0..(k + 1) : e[i] = IF i = 0 THEN NoHistory ELSE Extend(e[i - 1], frames[i], i)
      BY <2>2
    <2>4. Replays(e, frames, k + 1)
      BY <2>3, Zenon DEF Replays
    <2>. QED
      BY <2>4
  <1>3. Nat \subseteq T
    BY <1>1, <1>2, SetInduction, Zenon
  <1>. QED
    BY <1>3, Zenon

\* The replay of a history is the last entry of its table.
LEMMA ReplayTable ==
  ASSUME NEW frames \in Seq(Frame)
  PROVE  \E g : Replays(g, frames, Len(frames)) /\ replay_history(frames) = g[Len(frames)]
  <1>. DEFINE h == CHOOSE g : Replays(g, frames, Len(frames))
  <1>1. Len(frames) \in Nat
    OBVIOUS
  <1>2. Replays(h, frames, Len(frames))
    BY <1>1, ReplayExists, Zenon
  <1>3. replay_history(frames) = h[Len(frames)]
    BY Zenon DEF replay_history, Replays, NoHistory
  <1>. QED
    BY <1>2, <1>3, Zenon

\* Two tables of the same first frames agree on them.
LEMMA ReplaysAgree ==
  ASSUME NEW f1, NEW f2, NEW n1 \in Nat, NEW g1, NEW g2,
         Replays(g1, f1, n1), Replays(g2, f2, n1 + 1), \A i \in 1..n1 : f1[i] = f2[i]
  PROVE  g1[n1] = g2[n1]
  <1>. DEFINE T == {i \in 0..n1 : g1[i] # g2[i]}
  <1>. SUFFICES ASSUME T # {} PROVE FALSE
    <2>1. n1 \in 0..n1
      OBVIOUS
    <2>. QED
      BY <2>1, Zenon
  <1>0. T \in SUBSET Nat
    OBVIOUS
  <1>1. PICK n \in T : \A m \in T : ~(m < n)
    <2>. HIDE DEF T
    <2>. QED
      BY <1>0, Least, Zenon
  <1>2. n \in 0..n1 /\ g1[n] # g2[n]
    OBVIOUS
  <1>3. g1[n] = IF n = 0 THEN NoHistory ELSE Extend(g1[n - 1], f1[n], n)
    BY <1>2, Zenon DEF Replays
  <1>4. g2[n] = IF n = 0 THEN NoHistory ELSE Extend(g2[n - 1], f2[n], n)
    BY <1>2 DEF Replays
  <1>5. n # 0 => n - 1 \in 0..n1 /\ n - 1 \notin T
    BY <1>1, <1>2
  <1>. QED
    BY <1>2, <1>3, <1>4, <1>5

\* The replay of no frame.
LEMMA ReplayEmpty == replay_history(<<>>) = NoHistory
  <1>0. <<>> \in Seq(Frame) /\ Len(<<>>) = 0
    OBVIOUS
  <1>1. PICK g : Replays(g, <<>>, 0) /\ replay_history(<<>>) = g[0]
    BY <1>0, ReplayTable, Zenon
  <1>. QED
    BY <1>1 DEF Replays

\* The replay of one frame more extends the replay of the others.
LEMMA ReplayAppend ==
  ASSUME NEW frames \in Seq(Frame), NEW f \in Frame
  PROVE  replay_history(Append(frames, f)) = Extend(replay_history(frames), f, Len(frames) + 1)
  <1>. DEFINE n == Len(frames)
              longer == Append(frames, f)
  <1>1. /\ longer \in Seq(Frame) /\ Len(longer) = n + 1 /\ n \in Nat
        /\ longer[n + 1] = f /\ \A i \in 1..n : frames[i] = longer[i]
    OBVIOUS
  <1>. HIDE DEF longer
  <1>2. PICK g1 : Replays(g1, frames, n) /\ replay_history(frames) = g1[n]
    BY ReplayTable, Zenon
  <1>3. PICK g2 : Replays(g2, longer, n + 1) /\ replay_history(longer) = g2[n + 1]
    BY <1>1, ReplayTable, Zenon
  <1>4. g1[n] = g2[n]
    <2>. HIDE DEF n
    <2>1. n \in Nat /\ \A i \in 1..n : frames[i] = longer[i]
      BY <1>1, Zenon
    <2>. QED
      BY <1>2, <1>3, <2>1, ReplaysAgree, SMT
  <1>5. g2[n + 1] = Extend(g2[n], longer[n + 1], n + 1)
    BY <1>1, <1>3 DEF Replays
  <1>. QED
    BY <1>1, <1>2, <1>3, <1>4, <1>5, Zenon DEF longer

\* The incarnations a replay has seen are those its frames name.
LEMMA ReplayBrokers ==
  ASSUME NEW frames \in Seq(Frame), NEW S, \A i \in DOMAIN frames : frames[i].broker \in S
  PROVE  replay_history(frames).brokers \subseteq S
  <1>1. PICK g : Replays(g, frames, Len(frames)) /\ replay_history(frames) = g[Len(frames)]
    BY ReplayTable, Zenon
  <1>. DEFINE T == {i \in 0..Len(frames) : ~(g[i].brokers \subseteq S)}
  <1>. SUFFICES ASSUME T # {} PROVE FALSE
    BY <1>1
  <1>0. T \in SUBSET Nat
    OBVIOUS
  <1>2. PICK n \in T : \A m \in T : ~(m < n)
    <2>. HIDE DEF T
    <2>. QED
      BY <1>0, Least, Zenon
  <1>3. n \in 0..Len(frames) /\ ~(g[n].brokers \subseteq S)
    OBVIOUS
  <1>4. g[n] = IF n = 0 THEN NoHistory ELSE Extend(g[n - 1], frames[n], n)
    BY <1>1, <1>3, Zenon DEF Replays
  <1>5. n # 0
    BY <1>3, <1>4 DEF NoHistory
  <1>6. n - 1 \in 0..Len(frames) /\ n - 1 \notin T
    BY <1>2, <1>3, <1>5
  <1>7. g[n].brokers = g[n - 1].brokers \cup {frames[n].broker}
    BY <1>4, <1>5 DEF Extend
  <1>8. frames[n].broker \in S
    BY <1>3, <1>5
  <1>. QED
    BY <1>3, <1>6, <1>7, <1>8, Zenon

-----------------------------------------------------------------------------
\* The journal without its last frame, and its last frame.
Front(s) == [i \in 1..(Len(s) - 1) |-> s[i]]
Last(s) == s[Len(s)]

-----------------------------------------------------------------------------
\* The inductive invariant.

\* Before the first broker the files are what the initializer has made of them.
Early == {"None", "RootCreated", "LockCreated", "StateCreated", "JournalCreated", "HeadCreated",
          "WitnessCreated"}
Past(stages) == bootstrap.stage \notin Early \cup stages
BootInv ==
    /\ bootstrap.live \/ ~Published => started = {}
    /\ started = {} =>
          /\ proc = None /\ journal = <<>>
          /\ Past({}) => state = GenesisState
          /\ Past({"StateWritten"}) => synced.state = GenesisState
          /\ Past({"StateWritten", "StateSynced"}) => head = genesis
          /\ Past({"StateWritten", "StateSynced", "HeadWritten"}) =>
                synced.journal = <<>> /\ synced.head = genesis

\* Nothing is mapped under a clean state; what is mapped is in the journal.
HeldInv ==
    /\ state # Torn /\ state.mode = "clean" => \A b \in Broker : held[b] = {}
    /\ \A b \in Broker \ started : held[b] = {}
    /\ \A b \in Broker : \A o \in held[b] :
          [kind |-> "Intent", broker |-> b, obj |-> o] \in Range(journal)
    /\ \A i \in DOMAIN journal : journal[i] # Torn => journal[i].broker \in started

\* The frame under way, and the journal without it.
Appending == Doing("frame") /\ proc.stage > 0
Settled == IF Appending THEN Front(journal) ELSE journal

\* The state is dirty, in the file and on the disk.
DirtyState ==
    /\ state # Torn /\ state.mode = "dirty"
    /\ synced.state # Torn /\ synced.state.mode = "dirty"

\* The journal ends with the checkpoint of this generation and the head says so.
Sealed ==
    /\ proc.gen.checkpointed /\ ZeroObligations(proc.gen)
    /\ head = [mode |-> "clean", broker |-> proc.broker, sequence |-> Len(journal),
               clean_sequence |-> Len(journal)]
    /\ journal # <<>> /\ Last(journal).kind = "CleanCheckpoint"
    /\ replay_history(journal).latest_clean = Len(journal)

\* A broker that can still work replays as what it remembers.
ReplayInv ==
    /\ Settled \in Seq(Frame)
    /\ Appending => /\ journal = Append(Settled, IF proc.stage = 1 THEN Torn ELSE FrameNow)
                    /\ Accepts(proc.gen, FrameNow)
                    /\ proc.stage > 2 => synced.journal = journal
                    /\ proc.stage = 5 => head = NextHead
    /\ replay_history(Settled).ok
    /\ proc.birth_pending =>
          /\ proc.gen = NewGeneration(proc.broker)
          /\ Settled = <<>> \/ replay_history(Settled).gen.checkpointed
          /\ proc.broker \notin replay_history(Settled).brokers
    /\ ~proc.birth_pending => replay_history(Settled).gen = proc.gen

Fresh == ~proc.dirty /\ proc.birth_pending
Working == proc.dirty /\ ~proc.birth_pending

\* What a broker that can still work does next, what it does then, and what it
\* may rely on.
FrameStep(now, then) ==
    /\ DirtyState
    /\ \/ \E o \in Object :
             \/ /\ now = Record("BrokerBirth", None) /\ then = <<Record("Intent", o), Expose(o)>>
                /\ proc.dirty /\ proc.birth_pending
             \/ now = Record("Intent", o) /\ then = <<Expose(o)>> /\ Working
             \/ /\ now = Record("CloseIntent", o) /\ then = <<Record("CloseDone", o)>>
                /\ Working /\ o \notin held[proc.broker]
             \/ /\ now = Record("CloseDone", o) /\ then = <<>>
                /\ Working /\ o \notin held[proc.broker]
       \/ /\ now = Record("BrokerDrained", None)
          /\ then = <<Record("CleanCheckpoint", None), WriteState("clean")>>
          /\ Working /\ proc.stopping
       \/ /\ now = Record("CleanCheckpoint", None) /\ then = <<WriteState("clean")>>
          /\ Working /\ proc.stopping

ExposeStep(now, then) ==
    \E o \in Object :
        /\ now = Expose(o) /\ then = <<>> /\ Working /\ DirtyState /\ proc.gen.obj[o] = "open"
        /\ [kind |-> "Intent", broker |-> proc.broker, obj |-> o]
              \in Range(journal) \cap Range(synced.journal)

StateStep(now, then) ==
    \/ \E o \in Object :
          /\ now = WriteState("dirty") /\ Fresh
          /\ then = <<Record("BrokerBirth", None), Record("Intent", o), Expose(o)>>
    \/ now = WriteState("clean") /\ then = <<>> /\ Working /\ proc.stopping /\ Sealed

TodoInv ==
    IF proc.todo = <<>>
    THEN \/ Fresh /\ verify_deployment_state = "live"
         \/ Working /\ DirtyState
         \/ /\ ~proc.dirty /\ ~proc.birth_pending /\ proc.stopping
            /\ verify_deployment_state = "live"
    ELSE LET now == Head(proc.todo)
             then == Tail(proc.todo)
         IN FrameStep(now, then) \/ ExposeStep(now, then) \/ StateStep(now, then)

ProcInv ==
    /\ proc.broker \in started /\ proc.gen.broker = proc.broker
    /\ \A o \in held[proc.broker] : proc.gen.obj[o] = "open"
    /\ proc.todo = <<>> => proc.stage = 0
    /\ Doing("state") => /\ proc.stage \in 0..2
                         /\ proc.stage = 2 => state = NextState(Now.purpose)
    /\ proc.quarantined => /\ proc.todo = <<>> /\ proc.dirty
                           /\ proc.gen = NewGeneration(proc.broker)
    /\ proc.poisoned => proc.todo \in {<<>>, <<WriteState("retry")>>, <<WriteState("rollback")>>}
    /\ ~proc.quarantined /\ ~proc.poisoned => ReplayInv /\ TodoInv

IInv == TypeOK /\ BootInv /\ HeldInv /\ EffectsDurable /\ NoFalseClean /\ (proc # None => ProcInv)

-----------------------------------------------------------------------------
\* What a step makes of the process, field by field.

Kept(p, q) ==
    /\ q.broker = p.broker /\ q.quarantined = p.quarantined /\ q.dirty = p.dirty
    /\ q.poisoned = p.poisoned /\ q.birth_pending = p.birth_pending /\ q.gen = p.gen
    /\ q.anchor = p.anchor /\ q.stopping = p.stopping

\* Single fields of a process can be set to values of their types.
LEMMA ProcessUpdate ==
  /\ \A p \in Process, t \in Seq(Operation) : [p EXCEPT !.todo = t] \in Process
  /\ \A p \in Process : [p EXCEPT !.stage = 0] \in Process
  /\ \A p \in Process : [p EXCEPT !.poisoned = TRUE] \in Process
  <1>1. \A p \in Process, t \in Seq(Operation) : [p EXCEPT !.todo = t] \in Process
    BY Zenon DEF Process
  <1>2. \A p \in Process : [p EXCEPT !.stage = 0] \in Process
    <2>1. 0 \in 0..5
      OBVIOUS
    <2>. QED
      BY <2>1, Zenon DEF Process
  <1>3. \A p \in Process : [p EXCEPT !.poisoned = TRUE] \in Process
    BY Zenon DEF Process
  <1>. QED
    BY <1>1, <1>2, <1>3, Zenon

\* A stage further nothing else of the process has changed.
LEMMA AdvancedIs ==
  ASSUME proc \in Process, proc.stage < 5
  PROVE  /\ Advanced \in Process /\ Kept(proc, Advanced)
         /\ Advanced.todo = proc.todo /\ Advanced.stage = proc.stage + 1
  BY DEF Advanced, Process, Kept

\* A finished operation leaves the others to do, from the first stage on.
LEMMA FinishedIs ==
  ASSUME proc \in Process, proc.todo # <<>>
  PROVE  /\ Finished \in Process /\ Kept(proc, Finished)
         /\ Finished.todo = Tail(proc.todo) /\ Finished.stage = 0
  <1>1. Tail(proc.todo) \in Seq(Operation)
    BY DEF Process
  <1>. DEFINE t == Tail(proc.todo)
  <1>2. Finished = [proc EXCEPT !.stage = 0, !.todo = t]
    BY Zenon DEF Finished
  <1>. HIDE DEF t
  <1>3. Finished \in Process
    <2>1. [proc EXCEPT !.stage = 0] \in Process
      BY <1>1, ProcessUpdate, Zenon
    <2>2. Finished = [[proc EXCEPT !.stage = 0] EXCEPT !.todo = t]
      BY <1>2, Zenon DEF Process
    <2>. QED
      BY <1>1, <2>1, <2>2, ProcessUpdate, Zenon DEF t
  <1>4. Kept(proc, Finished) /\ Finished.todo = t /\ Finished.stage = 0
    BY <1>2, Zenon DEF Process, Kept
  <1>. QED
    BY <1>3, <1>4, Zenon DEF t

\* A poisoned process has nothing left to do.
LEMMA PoisonedIs ==
  ASSUME proc \in Process
  PROVE  /\ Poisoned(proc) \in Process /\ Poisoned(proc).broker = proc.broker
         /\ Poisoned(proc).quarantined = proc.quarantined /\ Poisoned(proc).poisoned = TRUE
         /\ Poisoned(proc).gen = proc.gen /\ Poisoned(proc).todo = <<>> /\ Poisoned(proc).stage = 0
  <1>. DEFINE t == <<>>
  <1>1. t \in Seq(Operation)
    OBVIOUS
  <1>2. Poisoned(proc) = [proc EXCEPT !.poisoned = TRUE, !.todo = t, !.stage = 0]
    BY Zenon DEF Poisoned
  <1>. HIDE DEF t
  <1>3. Poisoned(proc) \in Process
    <2>1. [proc EXCEPT !.poisoned = TRUE] \in Process
      BY <1>1, ProcessUpdate, Zenon
    <2>2. [[proc EXCEPT !.poisoned = TRUE] EXCEPT !.todo = t] \in Process
      BY <1>1, <2>1, ProcessUpdate, Zenon
    <2>3. Poisoned(proc) = [[[proc EXCEPT !.poisoned = TRUE] EXCEPT !.todo = t] EXCEPT !.stage = 0]
      BY <1>2, Zenon DEF Process
    <2>. QED
      BY <1>1, <2>2, <2>3, ProcessUpdate, Zenon
  <1>4. /\ Poisoned(proc).broker = proc.broker /\ Poisoned(proc).quarantined = proc.quarantined
        /\ Poisoned(proc).poisoned = TRUE /\ Poisoned(proc).gen = proc.gen
        /\ Poisoned(proc).todo = t /\ Poisoned(proc).stage = 0
    BY <1>2, Zenon DEF Process
  <1>. QED
    BY <1>3, <1>4, Zenon DEF t

\* The operations by their fields.
LEMMA Operations ==
  /\ \A o \in Object \cup {None}, k \in Kind :
        /\ Record(k, o) \in Operation
        /\ Record(k, o).op = "frame" /\ Record(k, o).kind = k /\ Record(k, o).obj = o
  /\ \A u \in {"dirty", "retry", "clean", "rollback"} :
        WriteState(u) \in Operation /\ WriteState(u).op = "state" /\ WriteState(u).purpose = u
  /\ \A o \in Object :
        Expose(o) \in Operation /\ Expose(o).op = "expose" /\ Expose(o).obj = o
  BY Zenon DEF Record, WriteState, Expose, Operation

\* The first of a few operations, and those after it.
LEMMA Queue ==
  /\ \A a : <<a>> # <<>> /\ Head(<<a>>) = a /\ Tail(<<a>>) = <<>>
  /\ \A a, b : <<a, b>> # <<>> /\ Head(<<a, b>>) = a /\ Tail(<<a, b>>) = <<b>>
  /\ \A a, b, c : <<a, b, c>> # <<>> /\ Head(<<a, b, c>>) = a /\ Tail(<<a, b, c>>) = <<b, c>>
  /\ \A a, b, c, d :
        <<a, b, c, d>> # <<>> /\ Head(<<a, b, c, d>>) = a /\ Tail(<<a, b, c, d>>) = <<b, c, d>>
  <1>1. ASSUME NEW a PROVE <<a>> # <<>> /\ Head(<<a>>) = a /\ Tail(<<a>>) = <<>>
    OBVIOUS
  <1>2. ASSUME NEW a, NEW b PROVE <<a, b>> # <<>> /\ Head(<<a, b>>) = a /\ Tail(<<a, b>>) = <<b>>
    OBVIOUS
  <1>3. ASSUME NEW a, NEW b, NEW c
        PROVE  <<a, b, c>> # <<>> /\ Head(<<a, b, c>>) = a /\ Tail(<<a, b, c>>) = <<b, c>>
    OBVIOUS
  <1>4. ASSUME NEW a, NEW b, NEW c, NEW d
        PROVE  <<a, b, c, d>> # <<>> /\ Head(<<a, b, c, d>>) = a /\ Tail(<<a, b, c, d>>) = <<b, c, d>>
    OBVIOUS
  <1>. QED
    BY <1>1, <1>2, <1>3, <1>4, Zenon

\* The journal without the frame just added.
LEMMA FrontAppend ==
  ASSUME NEW S, NEW s \in Seq(S), NEW e \in S
  PROVE  /\ Front(Append(s, e)) = s /\ Last(Append(s, e)) = e /\ Append(s, e) # <<>>
         /\ Range(Append(s, e)) = Range(s) \cup {e}
  <1>1. /\ Len(Append(s, e)) = Len(s) + 1 /\ Len(s) \in Nat /\ Append(s, e) \in Seq(S)
        /\ \A i \in 1..Len(s) : Append(s, e)[i] = s[i]
        /\ Append(s, e)[Len(s) + 1] = e
        /\ DOMAIN s = 1..Len(s) /\ DOMAIN Append(s, e) = 1..(Len(s) + 1)
    OBVIOUS
  <1>2. Front(Append(s, e)) = s
    BY <1>1 DEF Front
  <1>3. Last(Append(s, e)) = e /\ Append(s, e) # <<>>
    BY <1>1 DEF Last
  <1>. DEFINE t == Append(s, e)
  <1>. HIDE DEF t
  <1>4. Range(t) = Range(s) \cup {e}
    <2>1. \A i \in DOMAIN s : i \in DOMAIN t /\ t[i] = s[i]
      BY <1>1 DEF t
    <2>2. Len(s) + 1 \in DOMAIN t /\ t[Len(s) + 1] = e
      BY <1>1 DEF t
    <2>3. \A i \in DOMAIN t : i \in DOMAIN s \/ i = Len(s) + 1
      BY <1>1 DEF t
    <2>. QED
      BY <2>1, <2>2, <2>3, Zenon DEF Range
  <1>. QED
    BY <1>2, <1>3, <1>4, Zenon DEF t

\* Frames are written, and effects let out, only by a process that is not
\* poisoned; a poisoned one only writes its state.
LEMMA WorkNow ==
  ASSUME IInv, proc # None, proc.todo # <<>>
  PROVE  /\ proc \in Process /\ ProcInv /\ ~proc.quarantined
         /\ Doing("frame") => ~proc.poisoned /\ FrameStep(Now, Tail(proc.todo))
         /\ Doing("expose") => ~proc.poisoned /\ ExposeStep(Now, Tail(proc.todo))
         /\ Doing("state") /\ ~proc.poisoned => StateStep(Now, Tail(proc.todo))
         /\ proc.poisoned => /\ Now \in {WriteState("retry"), WriteState("rollback")}
                             /\ Tail(proc.todo) = <<>>
  <1>1. proc \in Process /\ ProcInv /\ ~proc.quarantined
    BY Zenon DEF IInv, TypeOK, ProcInv
  <1>2. proc.poisoned => /\ Now \in {WriteState("retry"), WriteState("rollback")}
                         /\ Tail(proc.todo) = <<>>
    <2>1. proc.poisoned => proc.todo = <<WriteState("retry")>> \/ proc.todo = <<WriteState("rollback")>>
      BY <1>1, Zenon DEF ProcInv
    <2>2. \A a : proc.todo = <<a>> => Head(proc.todo) = a /\ Tail(proc.todo) = <<>>
      BY Queue, Zenon
    <2>. QED
      BY <2>1, <2>2, Zenon DEF Now
  <1>3. proc.poisoned => Now.op = "state"
    BY <1>2 DEF WriteState
  <1>4. ~proc.poisoned => FrameStep(Now, Tail(proc.todo)) \/ ExposeStep(Now, Tail(proc.todo))
                            \/ StateStep(Now, Tail(proc.todo))
    BY <1>1, Zenon DEF ProcInv, TodoInv, Now
  <1>5. /\ FrameStep(Now, Tail(proc.todo)) => Now.op = "frame"
        /\ ExposeStep(Now, Tail(proc.todo)) => Now.op = "expose"
        /\ StateStep(Now, Tail(proc.todo)) => Now.op = "state"
    <2>1. ASSUME NEW now, NEW then, FrameStep(now, then) PROVE now.op = "frame"
      BY <2>1 DEF FrameStep, Record
    <2>2. ASSUME NEW now, NEW then, ExposeStep(now, then) PROVE now.op = "expose"
      BY <2>2 DEF ExposeStep, Expose
    <2>3. ASSUME NEW now, NEW then, StateStep(now, then) PROVE now.op = "state"
      BY <2>3 DEF StateStep, WriteState
    <2>. QED
      BY <2>1, <2>2, <2>3, Zenon
  <1>. QED
    BY <1>1, <1>2, <1>3, <1>4, <1>5, Zenon DEF Doing

\* The frame under way is a frame.
LEMMA FrameNowType ==
  ASSUME IInv, Doing("frame")
  PROVE  /\ FrameNow \in Frame /\ FrameNow.kind = Now.kind /\ FrameNow.broker = proc.broker
         /\ FrameNow.obj = Now.obj
  <1>1. proc \in Process /\ FrameStep(Now, Tail(proc.todo))
    BY WorkNow, Zenon DEF Doing
  <1>2. Now.kind \in Kind /\ Now.obj \in Object \cup {None}
    <2>1. ASSUME NEW now, NEW then, FrameStep(now, then)
          PROVE  now.kind \in Kind /\ now.obj \in Object \cup {None}
      BY <2>1 DEF FrameStep, Record, Kind
    <2>. QED
      BY <1>1, <2>1, Zenon
  <1>. QED
    BY <1>1, <1>2, Zenon DEF FrameNow, Frame, Process

\* Applying a frame gives a generation of the same broker.
LEMMA ApplyType ==
  ASSUME NEW g \in Generation, NEW f \in Frame
  PROVE  /\ apply(g, f) \in Generation /\ apply(g, f).broker = g.broker
         /\ apply(g, f).drained = (g.drained \/ f.kind = "BrokerDrained")
         /\ apply(g, f).checkpointed = (g.checkpointed \/ f.kind = "CleanCheckpoint")
  <1>1. f.kind \in Kind
    BY Zenon DEF Frame
  <1>2. CASE f.kind = "BrokerBirth"
    BY <1>2, Zenon DEF apply, Generation
  <1>3. CASE f.kind = "Intent"
    BY <1>3, Zenon DEF apply, Generation
  <1>4. CASE f.kind = "CloseIntent"
    BY <1>4, Zenon DEF apply, Generation
  <1>5. CASE f.kind = "CloseDone"
    BY <1>5, Zenon DEF apply, Generation
  <1>6. CASE f.kind = "BrokerDrained"
    BY <1>6, Zenon DEF apply, Generation
  <1>7. CASE f.kind = "CleanCheckpoint"
    BY <1>7, Zenon DEF apply, Generation
  <1>. QED
    BY <1>1, <1>2, <1>3, <1>4, <1>5, <1>6, <1>7, Zenon DEF Kind

\* What a finished append makes of the process.
LEMMA SyncHeadIs ==
  ASSUME IInv, SyncHead
  PROVE  /\ proc' \in Process /\ proc'.gen = apply(proc.gen, FrameNow)
         /\ proc'.birth_pending = (proc.birth_pending /\ Now.kind # "BrokerBirth")
         /\ proc'.broker = proc.broker /\ proc'.quarantined = proc.quarantined /\ proc'.dirty = proc.dirty
         /\ proc'.poisoned = proc.poisoned /\ proc'.anchor = proc.anchor /\ proc'.stopping = proc.stopping
         /\ proc'.todo = Tail(proc.todo) /\ proc'.stage = 0
  <1>1. /\ Doing("frame") /\ proc.todo # <<>>
        /\ proc' = [Finished EXCEPT !.gen = apply(@, FrameNow), !.birth_pending = @ /\ Now.kind # "BrokerBirth"]
    BY Zenon DEF SyncHead, Doing
  <1>2. proc \in Process /\ FrameNow \in Frame
    BY <1>1, WorkNow, FrameNowType, Zenon DEF Doing
  <1>3. apply(proc.gen, FrameNow) \in Generation
    BY <1>2, ApplyType, Zenon DEF Process
  <1>4. /\ Finished \in Process /\ Kept(proc, Finished)
        /\ Finished.todo = Tail(proc.todo) /\ Finished.stage = 0
    BY <1>1, <1>2, FinishedIs, Zenon
  <1>. DEFINE g == apply(proc.gen, FrameNow)
              b == proc.birth_pending /\ Now.kind # "BrokerBirth"
  <1>5. proc' = [Finished EXCEPT !.gen = g, !.birth_pending = b]
    BY <1>1, <1>4, Zenon DEF Kept
  <1>6. g \in Generation /\ b \in BOOLEAN
    BY <1>3, Zenon
  <1>. HIDE DEF g, b
  <1>7. proc' \in Process
    <2>1. [Finished EXCEPT !.gen = g] \in Process
      BY <1>4, <1>6, Zenon DEF Process
    <2>2. proc' = [[Finished EXCEPT !.gen = g] EXCEPT !.birth_pending = b]
      BY <1>4, <1>5, Zenon DEF Process
    <2>. QED
      BY <1>6, <2>1, <2>2, Zenon DEF Process
  <1>8. /\ proc'.gen = g /\ proc'.birth_pending = b /\ proc'.broker = Finished.broker
        /\ proc'.quarantined = Finished.quarantined /\ proc'.dirty = Finished.dirty
        /\ proc'.poisoned = Finished.poisoned /\ proc'.anchor = Finished.anchor
        /\ proc'.stopping = Finished.stopping /\ proc'.todo = Finished.todo /\ proc'.stage = Finished.stage
    BY <1>4, <1>5, Zenon DEF Process
  <1>. QED
    BY <1>4, <1>7, <1>8, Zenon DEF Kept, g, b

\* What a finished state write makes of the process.
LEMMA SyncStateIs ==
  ASSUME IInv, SyncState
  PROVE  /\ proc' \in Process
         /\ Now.purpose = "dirty" => proc'.dirty = TRUE
         /\ Now.purpose = "clean" => proc'.dirty = FALSE
         /\ proc'.broker = proc.broker /\ proc'.quarantined = proc.quarantined
         /\ proc'.birth_pending = proc.birth_pending /\ proc'.gen = proc.gen
         /\ proc'.poisoned = proc.poisoned /\ proc'.anchor = proc.anchor /\ proc'.stopping = proc.stopping
         /\ proc'.todo = Tail(proc.todo) /\ proc'.stage = 0
  <1>. DEFINE d == CASE Now.purpose \in {"dirty", "retry"} -> TRUE
                     [] Now.purpose = "clean" -> FALSE
                     [] OTHER -> proc.dirty
  <1>1. proc # None /\ proc.todo # <<>>
    BY Zenon DEF SyncState, Doing
  <1>2. proc \in Process
    BY <1>1, WorkNow, Zenon
  <1>4. /\ Finished \in Process /\ Kept(proc, Finished)
        /\ Finished.todo = Tail(proc.todo) /\ Finished.stage = 0
    BY <1>1, <1>2, FinishedIs, Zenon
  <1>5. proc' = [Finished EXCEPT !.dirty = d]
    BY <1>4, Zenon DEF SyncState, Kept
  <1>6. d \in BOOLEAN /\ (Now.purpose = "dirty" => d = TRUE) /\ (Now.purpose = "clean" => d = FALSE)
    BY <1>2, Zenon DEF Process
  <1>. HIDE DEF d
  <1>7. proc' \in Process
    BY <1>4, <1>5, <1>6, Zenon DEF Process
  <1>8. /\ proc'.gen = Finished.gen /\ proc'.birth_pending = Finished.birth_pending
        /\ proc'.broker = Finished.broker /\ proc'.quarantined = Finished.quarantined /\ proc'.dirty = d
        /\ proc'.poisoned = Finished.poisoned /\ proc'.anchor = Finished.anchor
        /\ proc'.stopping = Finished.stopping /\ proc'.todo = Finished.todo /\ proc'.stage = Finished.stage
    BY <1>4, <1>5, Zenon DEF Process
  <1>. QED
    BY <1>4, <1>6, <1>7, <1>8, Zenon DEF Kept

\* What a failed state write makes of the process: it is poisoned, and has a
\* retry or a rollback to do.
LEMMA StateFailsIs ==
  ASSUME IInv, StateFails
  PROVE  /\ proc' \in Process /\ proc'.broker = proc.broker /\ proc'.quarantined = proc.quarantined
         /\ proc'.poisoned = TRUE /\ proc'.gen = proc.gen /\ proc'.stage = 0
         /\ proc'.todo \in {<<>>, <<WriteState("retry")>>, <<WriteState("rollback")>>}
  <1>. DEFINE t == AfterFailure(Now.purpose)
  <1>1. proc # None /\ proc.todo # <<>> /\ proc' = [Poisoned(proc) EXCEPT !.todo = t]
    BY Zenon DEF StateFails, Doing
  <1>2. proc \in Process
    BY <1>1, WorkNow, Zenon
  <1>3. t \in {<<>>, <<WriteState("retry")>>, <<WriteState("rollback")>>}
    BY Zenon DEF AfterFailure
  <1>4. t \in Seq(Operation)
    <2>1. WriteState("retry") \in Operation /\ WriteState("rollback") \in Operation
      BY Zenon DEF WriteState, Operation
    <2>2. \A a \in Operation : <<a>> \in Seq(Operation) /\ <<>> \in Seq(Operation)
      OBVIOUS
    <2>. QED
      BY <1>3, <2>1, <2>2, Zenon
  <1>. HIDE DEF t
  <1>5. [Poisoned(proc) EXCEPT !.todo = t] \in Process
    BY <1>2, <1>4, PoisonedIs, ProcessUpdate, Zenon
  <1>6. /\ proc'.broker = Poisoned(proc).broker /\ proc'.quarantined = Poisoned(proc).quarantined
        /\ proc'.poisoned = Poisoned(proc).poisoned /\ proc'.gen = Poisoned(proc).gen
        /\ proc'.stage = Poisoned(proc).stage /\ proc'.todo = t
    BY <1>1, <1>2, PoisonedIs, Zenon DEF Process
  <1>. QED
    BY <1>1, <1>2, <1>3, <1>5, <1>6, PoisonedIs, Zenon

\* New work changes nothing else of the process.
LEMMA TodoIs ==
  ASSUME NEW p \in Process, NEW t \in Seq(Operation), NEW q, q = [p EXCEPT !.todo = t]
  PROVE  q \in Process /\ Kept(p, q) /\ q.todo = t /\ q.stage = p.stage
  BY Zenon DEF Process, Kept

\* What a stop makes of the process.
LEMMA StopIs ==
  ASSUME IInv, finish_shutdown
  PROVE  /\ proc' \in Process
         /\ proc'.broker = proc.broker /\ proc'.quarantined = proc.quarantined
         /\ proc'.dirty = proc.dirty /\ proc'.birth_pending = proc.birth_pending /\ proc'.gen = proc.gen
         /\ proc'.poisoned = proc.poisoned /\ proc'.anchor = proc.anchor /\ proc'.stopping = TRUE
         /\ proc'.stage = proc.stage
         /\ proc'.todo = IF proc.quarantined \/ proc.poisoned \/ proc.birth_pending THEN <<>>
                         ELSE <<Record("BrokerDrained", None), Record("CleanCheckpoint", None),
                                WriteState("clean")>>
  <1>. DEFINE t == IF proc.quarantined \/ proc.poisoned \/ proc.birth_pending THEN <<>>
                   ELSE <<Record("BrokerDrained", None), Record("CleanCheckpoint", None),
                          WriteState("clean")>>
  <1>1. proc \in Process /\ proc' = [proc EXCEPT !.stopping = TRUE, !.todo = t]
    BY Zenon DEF finish_shutdown, Idle, IInv, TypeOK
  <1>2. t \in Seq(Operation)
    <2>1. /\ Record("BrokerDrained", None) \in Operation /\ Record("CleanCheckpoint", None) \in Operation
          /\ WriteState("clean") \in Operation
      BY Operations, Zenon DEF Kind
    <2>2. \A a, b, c \in Operation : <<a, b, c>> \in Seq(Operation) /\ <<>> \in Seq(Operation)
      OBVIOUS
    <2>. QED
      BY <2>1, <2>2, Zenon
  <1>. HIDE DEF t
  <1>3. [proc EXCEPT !.stopping = TRUE] \in Process
    BY <1>1, Zenon DEF Process
  <1>4. proc' = [[proc EXCEPT !.stopping = TRUE] EXCEPT !.todo = t]
    BY <1>1, Zenon DEF Process
  <1>5. proc' \in Process
    BY <1>2, <1>3, <1>4, ProcessUpdate, Zenon
  <1>6. /\ proc'.broker = proc.broker /\ proc'.quarantined = proc.quarantined
        /\ proc'.dirty = proc.dirty /\ proc'.birth_pending = proc.birth_pending /\ proc'.gen = proc.gen
        /\ proc'.poisoned = proc.poisoned /\ proc'.anchor = proc.anchor /\ proc'.stopping = TRUE
        /\ proc'.stage = proc.stage /\ proc'.todo = t
    BY <1>1, Zenon DEF Process
  <1>. QED
    BY <1>5, <1>6, Zenon DEF t

\* The stages of the initializer by name.
Stages == Early \cup {"StateWritten", "StateSynced", "HeadWritten", "ComponentsSynced",
                     "DirectoriesSynced", "ManifestSynced", "Published", "Returned"}

\* The names in the sequence of stages.
LEMMA StageNames ==
  /\ Range(BootstrapStage) = Stages
  /\ \A i \in 1..6 : BootstrapStage[i] \in Early /\ BootstrapStage[i + 1] \in Early
  <1>1. \A i \in 1..6 : BootstrapStage[i] \in Early /\ BootstrapStage[i + 1] \in Early
    BY DEF BootstrapStage, Early
  <1>2. DOMAIN BootstrapStage = 1..15
    BY DEF BootstrapStage
  <1>3. \A i \in 1..15 : BootstrapStage[i] \in Stages
    BY DEF BootstrapStage, Stages, Early
  <1>4. /\ BootstrapStage[1] = "None" /\ BootstrapStage[2] = "RootCreated"
        /\ BootstrapStage[3] = "LockCreated" /\ BootstrapStage[4] = "StateCreated"
        /\ BootstrapStage[5] = "JournalCreated" /\ BootstrapStage[6] = "HeadCreated"
        /\ BootstrapStage[7] = "WitnessCreated" /\ BootstrapStage[8] = "StateWritten"
        /\ BootstrapStage[9] = "StateSynced" /\ BootstrapStage[10] = "HeadWritten"
        /\ BootstrapStage[11] = "ComponentsSynced" /\ BootstrapStage[12] = "DirectoriesSynced"
        /\ BootstrapStage[13] = "ManifestSynced" /\ BootstrapStage[14] = "Published"
        /\ BootstrapStage[15] = "Returned"
    BY Zenon DEF BootstrapStage
  <1>5. \A x \in Stages : \E i \in 1..15 : BootstrapStage[i] = x
    BY <1>4 DEF Stages, Early
  <1>. QED
    BY <1>1, <1>2, <1>3, <1>5, Zenon DEF Range

\* A step of the initializer.
Boots == CreateFiles \/ WriteGenesisState \/ SyncGenesisState \/ WriteGenesisHead
           \/ SyncComponents \/ PublishManifest \/ BootstrapEnds

\* The initializer works before the first broker, when nothing is mapped.
LEMMA BootStep ==
  ASSUME IInv, Boots
  PROVE  /\ bootstrap.live /\ started = {} /\ journal = <<>> /\ proc = None
         /\ UNCHANGED <<journal, proc, started, held>>
         /\ \A b \in Broker : held[b] = {}
         /\ bootstrap' \in [stage : Stages, live : BOOLEAN]
  <1>1. bootstrap \in [stage : Stages, live : BOOLEAN]
    BY StageNames, Zenon DEF IInv, TypeOK
  <1>2. bootstrap.live /\ UNCHANGED rest
    BY DEF Boots, CreateFiles, WriteGenesisState, SyncGenesisState, WriteGenesisHead, SyncComponents,
       PublishManifest, BootstrapEnds, Reaches
  <1>3. started = {} /\ journal = <<>> /\ proc = None /\ \A b \in Broker : held[b] = {}
    BY <1>2, Zenon DEF IInv, BootInv, HeldInv
  <1>4. UNCHANGED journal
    BY Zenon DEF Boots, CreateFiles, WriteGenesisState, SyncGenesisState, WriteGenesisHead, SyncComponents,
       PublishManifest, BootstrapEnds
  <1>5. bootstrap' \in [stage : Stages, live : BOOLEAN]
    <2>1. CASE CreateFiles
      <3>1. PICK i \in 1..6 : Reaches(BootstrapStage[i], BootstrapStage[i + 1])
        BY <2>1, Zenon DEF CreateFiles
      <3>2. BootstrapStage[i + 1] \in Stages
        BY StageNames, Zenon DEF Stages
      <3>. QED
        BY <3>1, <3>2, Zenon DEF Reaches
    <2>2. CASE BootstrapEnds
      BY <1>1, <2>2, Zenon DEF BootstrapEnds
    <2>3. CASE WriteGenesisState \/ SyncGenesisState \/ WriteGenesisHead \/ SyncComponents \/ PublishManifest
      <3>1. \E from, stage \in Stages : Reaches(from, stage)
        <4>. USE DEF Stages
        <4>1. CASE WriteGenesisState
          BY <4>1, Zenon DEF WriteGenesisState, Early
        <4>2. CASE SyncGenesisState
          BY <4>2, Zenon DEF SyncGenesisState
        <4>3. CASE WriteGenesisHead
          BY <4>3, Zenon DEF WriteGenesisHead
        <4>4. CASE SyncComponents
          BY <4>4, Zenon DEF SyncComponents
        <4>5. CASE PublishManifest
          BY <4>5, Zenon DEF PublishManifest
        <4>. QED
          BY <2>3, <4>1, <4>2, <4>3, <4>4, <4>5, Zenon
      <3>. QED
        BY <3>1 DEF Reaches
    <2>. QED
      BY <2>1, <2>2, <2>3, Zenon DEF Boots
  <1>. QED
    BY <1>2, <1>3, <1>4, <1>5, Zenon DEF rest

\* An append in its stages.
LEMMA AppendStage ==
  ASSUME IInv, Doing("frame")
  PROVE  /\ proc \in Process /\ FrameNow \in Frame /\ ~proc.poisoned /\ ~proc.quarantined
         /\ ProcInv /\ ReplayInv /\ proc # None /\ FrameStep(Now, Tail(proc.todo)) /\ proc.todo # <<>>
         /\ journal \in Seq(Frame \cup {Torn}) /\ Len(journal) <= MaxFrames
         /\ proc.stage > 0 => Appending
         /\ proc.stage = 0 => ~Appending
  <1>1. proc # None /\ proc.todo # <<>>
    BY Zenon DEF Doing
  <1>. QED
    BY <1>1, WorkNow, FrameNowType DEF IInv, TypeOK, ProcInv, Appending

\* The payload replaces the torn frame its header has left.
LEMMA PayloadIs ==
  ASSUME IInv, WritePayload
  PROVE  /\ journal = Append(Settled, Torn) /\ Settled \in Seq(Frame)
         /\ journal' = Append(Settled, FrameNow)
  <1>1. Doing("frame") /\ proc.stage = 1 /\ journal' = [journal EXCEPT ![Len(journal)] = FrameNow]
    BY Zenon DEF WritePayload
  <1>2. Settled \in Seq(Frame) /\ journal = Append(Settled, Torn) /\ FrameNow \in Frame
    BY <1>1, AppendStage DEF ReplayInv
  <1>3. \A s \in Seq(Frame), f \in Frame :
           [Append(s, Torn) EXCEPT ![Len(Append(s, Torn))] = f] = Append(s, f)
    <2>. SUFFICES ASSUME NEW s \in Seq(Frame), NEW f \in Frame
                 PROVE  [Append(s, Torn) EXCEPT ![Len(Append(s, Torn))] = f] = Append(s, f)
      OBVIOUS
    <2>. DEFINE n == Len(s)
                a == Append(s, Torn)
                c == Append(s, f)
    <2>1. /\ n \in Nat /\ Len(a) = n + 1 /\ DOMAIN a = 1..(n + 1) /\ DOMAIN c = 1..(n + 1)
          /\ \A i \in 1..n : a[i] = s[i] /\ c[i] = s[i]
          /\ c[n + 1] = f
      OBVIOUS
    <2>2. a \in [1..(n + 1) -> Frame \cup {Torn}] /\ c \in [1..(n + 1) -> Frame]
      <3>1. a \in Seq(Frame \cup {Torn}) /\ c \in Seq(Frame) /\ Len(c) = n + 1
        OBVIOUS
      <3>. HIDE DEF n, a, c
      <3>. QED
        BY <2>1, <3>1, LenProperties, Zenon
    <2>. HIDE DEF n, a, c
    <2>3. [a EXCEPT ![n + 1] = f] = c
      BY <2>1, <2>2
    <2>. QED
      BY <2>1, <2>3, Zenon DEF a, c
  <1>. QED
    BY <1>1, <1>2, <1>3, Zenon

\* The new process of each step of a broker.
LEMMA NewProcess ==
  ASSUME IInv,
         \/ WriteHeader \/ WritePayload \/ SyncJournal \/ TruncateHead \/ WriteHead
         \/ TruncateState \/ WriteStateText
  PROVE  /\ proc \in Process /\ proc # None /\ proc.todo # <<>>
         /\ proc' \in Process /\ proc' # None /\ Kept(proc, proc')
         /\ proc'.todo = proc.todo /\ proc'.stage = proc.stage + 1
  <1>1. proc # None /\ proc.todo # <<>> /\ proc.stage \in 0..4 /\ proc' = Advanced
    BY DEF WriteHeader, WritePayload, SyncJournal, TruncateHead, WriteHead, TruncateState, WriteStateText, Doing
  <1>2. proc \in Process
    BY <1>1, Zenon DEF IInv, TypeOK
  <1>. QED
    BY <1>1, <1>2, AdvancedIs, RootAssumption

\* What a failed append makes of the process.
LEMMA FrameFailsIs ==
  ASSUME IInv, FrameFails
  PROVE  /\ proc' \in Process /\ proc'.broker = proc.broker /\ proc'.quarantined = proc.quarantined
         /\ proc'.gen = proc.gen /\ proc'.todo = <<>> /\ proc'.stage = 0
         /\ \/ proc'.poisoned
            \/ /\ Kept(proc, proc') /\ Now.kind = "CleanCheckpoint" /\ proc.stage = 0
  <1>1. proc # None /\ proc.todo # <<>>
    BY Zenon DEF FrameFails, Doing
  <1>2. proc \in Process
    BY <1>1, WorkNow, Zenon
  <1>3. CASE proc' = Poisoned(proc)
    BY <1>2, <1>3, PoisonedIs, Zenon
  <1>4. CASE proc' = [proc EXCEPT !.todo = <<>>] /\ proc.stage = 0 /\ Now.kind = "CleanCheckpoint"
    <2>1. <<>> \in Seq(Operation)
      OBVIOUS
    <2>2. proc' \in Process /\ Kept(proc, proc') /\ proc'.todo = <<>> /\ proc'.stage = proc.stage
      BY <1>2, <1>4, <2>1, TodoIs, Zenon
    <2>. QED
      BY <1>4, <2>2, Zenon DEF Kept
  <1>. QED
    BY <1>3, <1>4, Zenon DEF FrameFails

\* Operations chained one after the other.
LEMMA Chain ==
  \A a, b, c, d \in Operation : (<<a>> \o <<b>>) \o <<c, d>> = <<a, b, c, d>>
  <1>. SUFFICES ASSUME NEW a \in Operation, NEW b \in Operation, NEW c \in Operation, NEW d \in Operation
               PROVE  (<<a>> \o <<b>>) \o <<c, d>> = <<a, b, c, d>>
    BY Zenon
  <1>. DEFINE s1 == <<a>>
              t1 == <<b>>
              u1 == <<a, b>>
              t2 == <<c, d>>
              u2 == <<a, b, c, d>>
  <1>1. /\ s1 \in Seq(Operation) /\ t1 \in Seq(Operation) /\ u1 \in Seq(Operation)
        /\ Len(s1) = 1 /\ Len(t1) = 1 /\ Len(u1) = 2
        /\ s1[1] = a /\ t1[1] = b /\ u1[1] = a /\ u1[2] = b
    OBVIOUS
  <1>2. /\ t2 \in Seq(Operation) /\ u2 \in Seq(Operation) /\ Len(t2) = 2 /\ Len(u2) = 4
        /\ t2[1] = c /\ t2[2] = d /\ u2[1] = a /\ u2[2] = b /\ u2[3] = c /\ u2[4] = d
    OBVIOUS
  <1>. HIDE DEF s1, t1, u1, t2, u2
  <1>3. s1 \o t1 = u1
    <2>. DEFINE v == s1 \o t1
    <2>1. v \in Seq(Operation) /\ Len(v) = 2 /\ v[1] = a /\ v[2] = b
      BY <1>1, ConcatProperties
    <2>. HIDE DEF v
    <2>2. Len(v) = Len(u1) /\ \A i \in 1..Len(v) : v[i] = u1[i]
      BY <1>1, <2>1
    <2>3. v = u1
      BY <1>1, <2>1, <2>2, SeqEqual, Zenon
    <2>. QED
      BY <2>3, Zenon DEF v
  <1>4. u1 \o t2 = u2
    <2>. DEFINE v == u1 \o t2
    <2>1. v \in Seq(Operation) /\ Len(v) = 4 /\ v[1] = a /\ v[2] = b /\ v[3] = c /\ v[4] = d
      <3>1. /\ v \in Seq(Operation) /\ Len(v) = Len(u1) + Len(t2)
            /\ \A i \in 1..Len(u1) + Len(t2) : v[i] = IF i <= Len(u1) THEN u1[i] ELSE t2[i - Len(u1)]
        BY <1>1, <1>2, ConcatProperties, Zenon
      <3>. HIDE DEF v
      <3>2. \A i \in 1..4 : v[i] = IF i <= 2 THEN u1[i] ELSE t2[i - 2]
        BY <1>1, <1>2, <3>1
      <3>3. v[1] = u1[1] /\ v[2] = u1[2] /\ v[3] = t2[1] /\ v[4] = t2[2]
        BY <3>2
      <3>. QED
        BY <1>1, <1>2, <3>1, <3>3
    <2>. HIDE DEF v
    <2>2. Len(v) = Len(u2) /\ \A i \in 1..Len(v) : v[i] = u2[i]
      BY <1>2, <2>1
    <2>3. v = u2
      BY <1>2, <2>1, <2>2, SeqEqual, Zenon
    <2>. QED
      BY <2>3, Zenon DEF v
  <1>. QED
    BY <1>3, <1>4, Zenon DEF s1, t1, u1, t2, u2

\* An admission writes the intent, after the dirty state and the birth when it
\* is the first, and then lets the effect out.
LEMMA AdmitIs ==
  ASSUME IInv, NEW o \in Object, Admit(o)
  PROVE  /\ proc \in Process /\ proc # None /\ proc.todo = <<>> /\ proc.stage = 0
         /\ ~proc.quarantined /\ ~proc.poisoned
         /\ proc' \in Process /\ Kept(proc, proc') /\ proc'.stage = 0
         /\ \/ /\ Fresh
               /\ proc'.todo = <<WriteState("dirty"), Record("BrokerBirth", None), Record("Intent", o),
                                 Expose(o)>>
            \/ Working /\ DirtyState /\ proc'.todo = <<Record("Intent", o), Expose(o)>>
  <1>1. /\ proc \in Process /\ proc # None /\ proc.todo = <<>> /\ ~proc.quarantined /\ ~proc.poisoned
        /\ ~proc.stopping
        /\ proc' = [proc EXCEPT !.todo = before_admission \o <<Record("Intent", o), Expose(o)>>]
    BY Zenon DEF Admit, Idle, IInv, TypeOK
  <1>2. Fresh \/ (Working /\ DirtyState)
    BY <1>1, Zenon DEF IInv, ProcInv, TodoInv
  <1>3. proc.stage = 0
    BY <1>1, Zenon DEF IInv, ProcInv
  <1>. DEFINE t == before_admission \o <<Record("Intent", o), Expose(o)>>
              long == <<WriteState("dirty"), Record("BrokerBirth", None), Record("Intent", o), Expose(o)>>
              short == <<Record("Intent", o), Expose(o)>>
  <1>4. t = IF Fresh THEN long ELSE short
    <2>1. (<<WriteState("dirty")>> \o <<Record("BrokerBirth", None)>>) \o short = long
      BY Operations, Chain DEF Kind
    <2>2. \A c, d : (<<>> \o <<>>) \o <<c, d>> = <<c, d>>
      OBVIOUS
    <2>. QED
      BY <1>2, <2>1, <2>2, Zenon DEF before_admission, Fresh, Working
  <1>5. long \in Seq(Operation) /\ short \in Seq(Operation)
    <2>1. /\ WriteState("dirty") \in Operation /\ Record("BrokerBirth", None) \in Operation
          /\ Record("Intent", o) \in Operation /\ Expose(o) \in Operation
      BY Operations, Zenon DEF Kind
    <2>2. \A a, b, c, d \in Operation : <<a, b, c, d>> \in Seq(Operation) /\ <<c, d>> \in Seq(Operation)
      OBVIOUS
    <2>. QED
      BY <2>1, <2>2, Zenon
  <1>6. t \in Seq(Operation) /\ proc' = [proc EXCEPT !.todo = t]
    BY <1>1, <1>4, <1>5, Zenon
  <1>. HIDE DEF t, long, short
  <1>7. proc' \in Process /\ Kept(proc, proc') /\ proc'.todo = t /\ proc'.stage = 0
    <2>1. proc \in Process
      BY <1>1, Zenon
    <2>. QED
      BY <1>3, <1>6, <2>1, TodoIs
  <1>. QED
    BY <1>1, <1>2, <1>3, <1>4, <1>7, Zenon DEF long, short

\* A release writes two frames, and only a broker at work can release.
LEMMA ReleaseIs ==
  ASSUME IInv, NEW o \in Object, Release(o)
  PROVE  /\ proc \in Process /\ proc # None /\ proc.todo = <<>> /\ proc.stage = 0
         /\ ~proc.quarantined /\ ~proc.poisoned /\ o \notin held[proc.broker]
         /\ proc' \in Process /\ Kept(proc, proc') /\ proc'.stage = 0
         /\ Working /\ DirtyState /\ proc'.todo = <<Record("CloseIntent", o), Record("CloseDone", o)>>
  <1>. DEFINE t == <<Record("CloseIntent", o), Record("CloseDone", o)>>
  <1>1. /\ proc \in Process /\ proc # None /\ proc.todo = <<>> /\ ~proc.poisoned
        /\ ~proc.stopping /\ proc.gen.obj[o] = "open" /\ o \notin held[proc.broker]
        /\ proc' = [proc EXCEPT !.todo = t]
    BY Zenon DEF Release, Idle, IInv, TypeOK
  <1>2. NewGeneration(proc.broker).obj[o] = "none"
    BY Zenon DEF NewGeneration
  <1>3. ~proc.quarantined /\ proc.stage = 0
    BY <1>1, <1>2, Zenon DEF IInv, ProcInv
  <1>4. ~proc.birth_pending
    BY <1>1, <1>2, <1>3, Zenon DEF IInv, ProcInv, ReplayInv
  <1>5. Working /\ DirtyState
    BY <1>1, <1>3, <1>4, Zenon DEF IInv, ProcInv, TodoInv, Fresh
  <1>6. t \in Seq(Operation)
    <2>1. Record("CloseIntent", o) \in Operation /\ Record("CloseDone", o) \in Operation
      BY Operations, Zenon DEF Kind
    <2>2. \A a, b \in Operation : <<a, b>> \in Seq(Operation)
      OBVIOUS
    <2>. QED
      BY <2>1, <2>2, Zenon
  <1>. HIDE DEF t
  <1>7. proc' \in Process /\ Kept(proc, proc') /\ proc'.todo = t /\ proc'.stage = 0
    BY <1>1, <1>3, <1>6, TodoIs
  <1>. QED
    BY <1>1, <1>3, <1>5, <1>7, Zenon DEF t

\* What an open makes of the root: live from a clean state, or quarantined.
LEMMA OpenIs ==
  ASSUME IInv, NEW b \in Broker, Open(b)
  PROVE  /\ proc = None /\ b \notin started /\ started' = started \cup {b}
         /\ UNCHANGED <<journal, head, state, held, bootstrap>>
         /\ proc' \in Process /\ proc'.broker = b /\ ~proc'.poisoned /\ proc'.gen = NewGeneration(b)
         /\ proc'.todo = <<>> /\ proc'.stage = 0
         /\ \/ /\ proc'.quarantined /\ proc'.dirty /\ synced' = synced
            \/ /\ ~proc'.quarantined /\ ~proc'.dirty /\ proc'.birth_pending
               /\ verify_deployment_state = "live"
               /\ synced' = [journal |-> journal, head |-> head, state |-> state]
  <1>. DEFINE q == verify_deployment_state = "quarantined"
              v == verify_deployment_state
  <1>1. /\ proc = None /\ b \notin started /\ started' = started \cup {b}
        /\ UNCHANGED <<journal, head, state, held, bootstrap>> /\ v # "refused"
        /\ synced' = IF q THEN synced ELSE [journal |-> journal, head |-> head, state |-> state]
    BY Zenon DEF Open
  <1>2. proc' = [broker |-> b, quarantined |-> q, dirty |-> q, poisoned |-> FALSE, birth_pending |-> ~q,
                 gen |-> NewGeneration(b), anchor |-> state.journal_head,
                 stopping |-> FALSE, todo |-> <<>>, stage |-> 0]
    BY Zenon DEF Open
  <1>3. v \in {"refused", "live", "quarantined"}
    BY Zenon DEF verify_deployment_state
  <1>4. state # Torn
    BY <1>1, Zenon DEF verify_deployment_state
  <1>5. state.journal_head \in Head_
    BY <1>4, Zenon DEF IInv, TypeOK, State
  <1>6. NewGeneration(b) \in Generation
    BY Zenon DEF NewGeneration, Generation
  <1>7. q \in BOOLEAN /\ <<>> \in Seq(Operation)
    OBVIOUS
  <1>. HIDE DEF q, v
  <1>8. proc' \in Process
    BY <1>2, <1>5, <1>6, <1>7 DEF Process
  <1>9. ~q => v = "live"
    BY <1>1, <1>3, Zenon DEF q, v
  <1>. QED
    BY <1>1, <1>2, <1>8, <1>9, Zenon DEF v

-----------------------------------------------------------------------------
\* Every variable keeps its type.
LEMMA NextType == IInv /\ Next => TypeOK'
  <1>. SUFFICES ASSUME IInv, Next PROVE TypeOK'
    OBVIOUS
  <1>1. TypeOK
    BY Zenon DEF IInv
  <1>2. CASE Boots
    <2>1. /\ UNCHANGED <<journal, proc, started, held>> /\ journal = <<>>
          /\ bootstrap' \in [stage : Range(BootstrapStage), live : BOOLEAN]
      BY <1>2, BootStep, StageNames, Zenon
    <2>2. genesis \in Head_ /\ GenesisState \in State
      BY RootAssumption DEF genesis, GenesisState, Head_, State
    <2>3. head' \in Head_ \cup {Torn} /\ state' \in State \cup {Torn}
      BY <1>1, <1>2, <2>2, Zenon DEF Boots, CreateFiles, WriteGenesisState, SyncGenesisState, WriteGenesisHead,
         SyncComponents, PublishManifest, BootstrapEnds, TypeOK
    <2>4. synced' \in [journal : Seq(Frame \cup {Torn}) \cup {Torn}, head : Head_ \cup {Torn},
                       state : State \cup {Torn}]
      BY <1>1, <1>2, <2>1, Zenon DEF Boots, CreateFiles, WriteGenesisState, SyncGenesisState, WriteGenesisHead,
         SyncComponents, PublishManifest, BootstrapEnds, TypeOK
    <2>. QED
      BY <1>1, <2>1, <2>3, <2>4, Zenon DEF TypeOK
  <1>3. ASSUME NEW b \in Broker, Open(b) PROVE TypeOK'
    <2>1. /\ proc' \in Process /\ started' = started \cup {b} /\ UNCHANGED <<journal, head, state, held, bootstrap>>
          /\ synced' \in {synced, [journal |-> journal, head |-> head, state |-> state]}
      BY <1>3, OpenIs, Zenon
    <2>. QED
      BY <1>1, <2>1 DEF TypeOK
  <1>4. ASSUME NEW o \in Object, Admit(o) \/ Release(o) PROVE TypeOK'
    <2>1. proc' \in Process
      BY <1>4, AdmitIs, ReleaseIs, Zenon
    <2>. QED
      BY <1>1, <1>4, <2>1, Zenon DEF Admit, Release, TypeOK
  <1>5. ASSUME NEW b \in Broker, NEW o \in Object, LetGo(b, o) PROVE TypeOK'
    BY <1>1, <1>5, Zenon DEF LetGo, TypeOK
  <1>6. CASE WriteHeader
    <2>1. proc' \in Process /\ journal' = Append(journal, Torn) /\ Len(journal) < MaxFrames
      BY <1>6, NewProcess, Zenon DEF WriteHeader, Appendable, HasRoom
    <2>2. journal' \in Seq(Frame \cup {Torn}) /\ Len(journal') <= MaxFrames
      BY <1>1, <2>1, RootAssumption DEF TypeOK
    <2>. QED
      BY <1>1, <1>6, <2>1, <2>2, Zenon DEF WriteHeader, TypeOK
  <1>7. CASE WritePayload
    <2>1. proc' \in Process /\ journal' = [journal EXCEPT ![Len(journal)] = FrameNow] /\ FrameNow \in Frame
      BY <1>7, NewProcess, AppendStage, Zenon DEF WritePayload
    <2>2. journal' \in Seq(Frame \cup {Torn}) /\ Len(journal') = Len(journal)
      <3>1. journal = Append(Settled, Torn) /\ Settled \in Seq(Frame) /\ journal' = Append(Settled, FrameNow)
        BY <1>7, PayloadIs, Zenon
      <3>. QED
        BY <2>1, <3>1
    <2>. QED
      BY <1>1, <1>7, <2>1, <2>2, Zenon DEF WritePayload, TypeOK
  <1>8. CASE SyncJournal
    <2>1. proc' \in Process
      BY <1>8, NewProcess, Zenon
    <2>. QED
      BY <1>1, <1>8, <2>1, Zenon DEF SyncJournal, JournalSynced, TypeOK
  <1>9. CASE TruncateHead \/ TruncateState
    <2>1. proc' \in Process
      BY <1>9, NewProcess, Zenon
    <2>. QED
      BY <1>1, <1>9, <2>1, Zenon DEF TruncateHead, TruncateState, TypeOK
  <1>10. CASE WriteHead
    <2>1. proc' \in Process /\ proc \in Process /\ head' = NextHead
      BY <1>10, NewProcess, Zenon DEF WriteHead
    <2>2. Len(journal) \in 0..MaxFrames
      BY <1>1, RootAssumption DEF TypeOK
    <2>3. proc.broker \in Broker /\ proc.anchor \in Head_
      BY <2>1, Zenon DEF Process
    <2>4. NextHead \in Head_
      BY <2>2, <2>3, Zenon DEF NextHead, Head_
    <2>. QED
      BY <1>1, <1>10, <2>1, <2>4, Zenon DEF WriteHead, TypeOK
  <1>11. CASE SyncHead
    <2>1. proc' \in Process
      BY <1>11, SyncHeadIs, Zenon
    <2>. QED
      BY <1>1, <1>11, <2>1, Zenon DEF SyncHead, TypeOK
  <1>12. CASE Exposes
    <2>1. proc # None /\ proc.todo # <<>>
      BY <1>12, Zenon DEF Exposes, Doing
    <2>2. proc \in Process /\ ExposeStep(Now, Tail(proc.todo))
      BY <1>12, <2>1, WorkNow, Zenon DEF Exposes
    <2>3. Now.obj \in Object
      BY <2>2 DEF ExposeStep, Expose
    <2>4. Finished \in Process
      BY <2>1, <2>2, FinishedIs, Zenon
    <2>. QED
      BY <1>1, <1>12, <2>3, <2>4, Zenon DEF Exposes, TypeOK
  <1>13. CASE WriteStateText
    <2>1. proc' \in Process /\ proc \in Process /\ proc # None /\ proc.todo # <<>>
          /\ state' = NextState(Now.purpose) /\ Doing("state")
      BY <1>13, NewProcess, Zenon DEF WriteStateText
    <2>2. proc.anchor \in Head_
      BY <2>1, Zenon DEF Process
    <2>3. Now.purpose = "clean" => head \in Head_
      <3>1. Now.purpose = "clean" => ~proc.poisoned
        BY <2>1, WorkNow DEF WriteState
      <3>2. ASSUME Now.purpose = "clean" PROVE Sealed
        BY <2>1, <3>1, <3>2, WorkNow DEF StateStep, WriteState
      <3>. QED
        BY <1>1, <2>1, <3>2, RootAssumption DEF Sealed, Process, Head_, TypeOK
    <2>4. NextState(Now.purpose) \in State
      BY <2>2, <2>3, Zenon DEF NextState, State
    <2>. QED
      BY <1>1, <1>13, <2>1, <2>4, Zenon DEF WriteStateText, TypeOK
  <1>14. CASE SyncState
    <2>1. proc' \in Process
      BY <1>14, SyncStateIs, Zenon
    <2>. QED
      BY <1>1, <1>14, <2>1, Zenon DEF SyncState, TypeOK
  <1>15. CASE FrameFails \/ StateFails \/ finish_shutdown
    <2>1. proc' \in Process
      BY <1>15, FrameFailsIs, StateFailsIs, StopIs, Zenon
    <2>. QED
      BY <1>1, <1>15, <2>1, Zenon DEF FrameFails, StateFails, finish_shutdown, TypeOK
  <1>16. CASE Ends
    BY <1>1, <1>16, Zenon DEF Ends, TypeOK
  <1>. QED
    BY <1>2, <1>3, <1>4, <1>5, <1>6, <1>7, <1>8, <1>9, <1>10, <1>11, <1>12, <1>13, <1>14, <1>15, <1>16, Zenon
       DEF Next, Boots

\* Before the first broker the files stay what the initializer made of them.
LEMMA NextBoot == IInv /\ Next => BootInv'
  <1>. SUFFICES ASSUME IInv, Next PROVE BootInv'
    OBVIOUS
  <1>1. BootInv /\ TypeOK
    BY Zenon DEF IInv
  <1>2. CASE Boots
    <2>1. /\ started = {} /\ journal = <<>> /\ proc = None /\ UNCHANGED <<journal, proc, started, held>>
      BY <1>2, BootStep, Zenon
    <2>. USE DEF BootInv, Past, Early, Published
    <2>2. CASE CreateFiles
      <3>1. bootstrap.stage \in Early /\ bootstrap'.stage \in Early
        BY <2>2, StageNames DEF CreateFiles, Reaches
      <3>. QED
        BY <2>1, <3>1, Zenon
    <2>3. CASE BootstrapEnds
      BY <1>1, <2>1, <2>3, Zenon DEF BootstrapEnds, TypeOK
    <2>4. CASE WriteGenesisState
      BY <2>1, <2>4, Zenon DEF WriteGenesisState, Reaches
    <2>5. CASE SyncGenesisState
      BY <1>1, <2>1, <2>5, Zenon DEF SyncGenesisState, Reaches, TypeOK
    <2>6. CASE WriteGenesisHead
      BY <1>1, <2>1, <2>6, Zenon DEF WriteGenesisHead, Reaches
    <2>7. CASE SyncComponents
      BY <1>1, <2>1, <2>7, Zenon DEF SyncComponents, Reaches, TypeOK
    <2>8. CASE PublishManifest
      BY <1>1, <2>1, <2>8 DEF PublishManifest, Reaches
    <2>. QED
      BY <1>2, <2>2, <2>3, <2>4, <2>5, <2>6, <2>7, <2>8, Zenon DEF Boots
  <1>3. ASSUME NEW b \in Broker, Open(b) PROVE BootInv'
    BY <1>3, Zenon DEF Open, BootInv, Published
  <1>4. ASSUME NEW b \in Broker, NEW o \in Object, LetGo(b, o) PROVE BootInv'
    <2>1. UNCHANGED <<journal, head, state, synced, proc, started, bootstrap>>
      BY <1>4, Zenon DEF LetGo
    <2>. QED
      BY <1>1, <2>1, Zenon DEF BootInv, Past, Published
  <1>5. CASE ~Boots /\ ~(\E b \in Broker : Open(b)) /\ ~(\E b \in Broker, o \in Object : LetGo(b, o))
    <2>1. proc # None /\ UNCHANGED <<started, bootstrap>>
      BY <1>5, Zenon DEF Next, Boots, Admit, Release, Idle, WriteHeader, WritePayload, SyncJournal, TruncateHead,
         WriteHead, SyncHead, Exposes, TruncateState, WriteStateText, SyncState, FrameFails, StateFails,
         finish_shutdown, Ends, Doing
    <2>2. started # {}
      BY <1>1, <2>1, Zenon DEF BootInv
    <2>. QED
      BY <1>1, <2>1, <2>2, Zenon DEF BootInv, Published
  <1>. QED
    BY <1>2, <1>3, <1>4, <1>5, Zenon

\* Every step leaves a clean state with nothing mapped, and what is mapped in the
\* journal.
LEMMA NextHeld == IInv /\ Next => HeldInv'
  <1>. SUFFICES ASSUME IInv, Next PROVE HeldInv'
    OBVIOUS
  <1>1. HeldInv /\ TypeOK
    BY Zenon DEF IInv
  <1>2. UNCHANGED <<journal, state, held, started>> => HeldInv'
    BY <1>1, Zenon DEF HeldInv
  <1>3. CASE Boots
    <2>1. /\ started = {} /\ journal = <<>> /\ UNCHANGED <<journal, proc, started, held>>
          /\ \A b \in Broker : held[b] = {}
      BY <1>3, BootStep, Zenon
    <2>. QED
      BY <2>1 DEF HeldInv
  <1>4. ASSUME NEW b \in Broker, Open(b) PROVE HeldInv'
    BY <1>1, <1>4, OpenIs, Zenon DEF HeldInv
  <1>5. ASSUME NEW b \in Broker, NEW o \in Object, LetGo(b, o) PROVE HeldInv'
    BY <1>1, <1>5, Zenon DEF LetGo, HeldInv, TypeOK
  <1>6. CASE WriteHeader
    <2>1. journal' = Append(journal, Torn) /\ UNCHANGED <<state, held, started>>
          /\ journal \in Seq(Frame \cup {Torn})
      BY <1>1, <1>6, Zenon DEF WriteHeader, TypeOK
    <2>2. Range(journal') = Range(journal) \cup {Torn}
      BY <2>1, FrontAppend
    <2>3. \A i \in DOMAIN journal' : journal'[i] # Torn => i \in DOMAIN journal /\ journal'[i] = journal[i]
      BY <2>1
    <2>. QED
      BY <1>1, <2>1, <2>2, <2>3, Zenon DEF HeldInv
  <1>7. CASE WritePayload
    <2>1. /\ journal = Append(Settled, Torn) /\ Settled \in Seq(Frame)
          /\ journal' = Append(Settled, FrameNow) /\ FrameNow \in Frame
          /\ UNCHANGED <<state, held, started>> /\ FrameNow.broker = proc.broker
      BY <1>7, PayloadIs, FrameNowType, Zenon DEF WritePayload
    <2>2. proc.broker \in started
      BY <1>7, AppendStage, Zenon DEF WritePayload, ProcInv
    <2>. DEFINE s == Settled
                f == FrameNow
    <2>. HIDE DEF s, f
    <2>3. s \in Seq(Frame \cup {Torn}) /\ s \in Seq(Frame)
      BY <2>1 DEF s
    <2>4. Range(journal) = Range(s) \cup {Torn} /\ Range(journal') = Range(s) \cup {f}
      BY <2>1, <2>3, FrontAppend DEF s, f
    <2>5. \A b \in Broker, o \in Object : [kind |-> "Intent", broker |-> b, obj |-> o] # Torn
      BY RootAssumption DEF Frame, Kind
    <2>6. \A b \in Broker : \A o \in held[b] : [kind |-> "Intent", broker |-> b, obj |-> o] \in Range(journal')
      <3>1. \A b \in Broker : held[b] \subseteq Object
        BY <1>1, Zenon DEF TypeOK
      <3>2. \A b \in Broker : \A o \in held[b] : [kind |-> "Intent", broker |-> b, obj |-> o] \in Range(journal)
        BY <1>1, Zenon DEF HeldInv
      <3>. QED
        BY <2>4, <2>5, <3>1, <3>2, Zenon
    <2>7. ASSUME NEW i \in DOMAIN journal', journal'[i] # Torn PROVE journal'[i].broker \in started
      <3>1. i = Len(s) + 1 => journal'[i] = f
        BY <2>1, <2>3 DEF s, f
      <3>2. i # Len(s) + 1 => i \in DOMAIN journal /\ journal[i] = journal'[i]
        BY <2>1, <2>3 DEF s, f
      <3>. QED
        BY <1>1, <2>1, <2>2, <2>7, <3>1, <3>2, Zenon DEF HeldInv, f
    <2>. QED
      BY <1>1, <2>1, <2>6, <2>7, Zenon DEF HeldInv
  <1>8. CASE Exposes
    <2>1. proc # None /\ proc.todo # <<>>
      BY <1>8, Zenon DEF Exposes, Doing
    <2>2. PICK o \in Object :
            /\ Now = Expose(o) /\ DirtyState
            /\ [kind |-> "Intent", broker |-> proc.broker, obj |-> o] \in Range(journal)
      BY <1>8, <2>1, WorkNow, Zenon DEF Exposes, ExposeStep
    <2>3. proc.broker \in started /\ proc.broker \in Broker
      BY <2>1, WorkNow, Zenon DEF ProcInv, Process
    <2>4. held' = [held EXCEPT ![proc.broker] = @ \cup {o}] /\ UNCHANGED <<journal, state, started>>
      BY <1>8, <2>2, Zenon DEF Exposes, Expose
    <2>. QED
      BY <1>1, <2>2, <2>3, <2>4, Zenon DEF HeldInv, TypeOK, DirtyState
  <1>9. CASE TruncateState
    BY <1>1, <1>9, Zenon DEF TruncateState, HeldInv
  <1>10. CASE WriteStateText
    <2>1. /\ proc # None /\ proc.todo # <<>> /\ state' = NextState(Now.purpose) /\ Doing("state")
          /\ UNCHANGED <<journal, held, started>>
      BY <1>10, Zenon DEF WriteStateText, Doing
    <2>2. state'.mode = "clean" => Now.purpose = "clean"
      BY <2>1, Zenon DEF NextState
    <2>3. ASSUME Now.purpose = "clean" PROVE \A b \in Broker : held[b] = {}
      <3>1. ProcInv /\ ~proc.quarantined /\ proc \in Process
        BY <2>1, WorkNow, Zenon
      <3>2. ~proc.poisoned
        BY <2>1, <2>3, WorkNow DEF WriteState
      <3>3. Sealed
        BY <2>1, <2>3, <3>2, WorkNow DEF StateStep, WriteState
      <3>4. held[proc.broker] \subseteq Object
        BY <1>1, <3>1, Zenon DEF TypeOK, Process
      <3>5. held[proc.broker] = {}
        BY <3>1, <3>3, <3>4, Zenon DEF ProcInv, Sealed, ZeroObligations
      <3>. QED
        BY <2>1, <3>1, <3>5, Zenon DEF IInv, NoFalseClean
    <2>. QED
      BY <1>1, <2>1, <2>2, <2>3, Zenon DEF HeldInv
  <1>11. CASE \/ \E o \in Object : Admit(o) \/ Release(o)
              \/ SyncJournal \/ TruncateHead \/ WriteHead \/ SyncHead \/ SyncState \/ FrameFails
              \/ StateFails \/ finish_shutdown \/ Ends
    BY <1>2, <1>11, Zenon DEF Admit, Release, SyncJournal, TruncateHead, WriteHead, SyncHead, SyncState, FrameFails,
       StateFails, finish_shutdown, Ends
  <1>. QED
    BY <1>3, <1>4, <1>5, <1>6, <1>7, <1>8, <1>9, <1>10, <1>11, Zenon DEF Next, Boots

\* Every step leaves what is mapped announced on the disk.
LEMMA NextDurable == IInv /\ Next => EffectsDurable'
  <1>. SUFFICES ASSUME IInv, Next PROVE EffectsDurable'
    OBVIOUS
  <1>1. EffectsDurable /\ HeldInv /\ TypeOK
    BY Zenon DEF IInv
  <1>2. UNCHANGED <<synced, held>> => EffectsDurable'
    BY <1>1, Zenon DEF EffectsDurable
  <1>3. CASE Boots
    BY <1>3, BootStep, Zenon DEF EffectsDurable
  <1>4. ASSUME NEW b \in Broker, Open(b) PROVE EffectsDurable'
    <2>1. CASE verify_deployment_state = "live"
      <3>1. state # Torn /\ state.mode = "clean"
        BY <2>1, Zenon DEF verify_deployment_state
      <3>. QED
        BY <1>1, <1>4, <3>1, OpenIs, Zenon DEF HeldInv, EffectsDurable
    <2>2. CASE synced' = synced
      BY <1>2, <1>4, <2>2, OpenIs, Zenon
    <2>. QED
      BY <1>4, <2>1, <2>2, OpenIs, Zenon
  <1>5. ASSUME NEW b \in Broker, NEW o \in Object, LetGo(b, o) PROVE EffectsDurable'
    BY <1>1, <1>5, Zenon DEF LetGo, EffectsDurable, TypeOK
  <1>6. CASE SyncJournal
    <2>1. synced'.journal = journal /\ synced'.state = synced.state /\ UNCHANGED held
      BY <1>1, <1>6, Zenon DEF SyncJournal, JournalSynced, TypeOK
    <2>. QED
      BY <1>1, <2>1, Zenon DEF EffectsDurable, HeldInv
  <1>7. CASE SyncHead
    <2>1. synced'.journal = synced.journal /\ synced'.state = synced.state /\ UNCHANGED held
      BY <1>1, <1>7, Zenon DEF SyncHead, TypeOK
    <2>. QED
      BY <1>1, <2>1, Zenon DEF EffectsDurable
  <1>8. CASE SyncState
    <2>1. /\ synced'.journal = synced.journal /\ synced'.state = state /\ UNCHANGED held
          /\ proc # None /\ proc.todo # <<>> /\ Doing("state") /\ proc.stage = 2
      BY <1>1, <1>8, Zenon DEF SyncState, TypeOK, Doing
    <2>2. state = NextState(Now.purpose) /\ proc \in Process
      BY <2>1, WorkNow, Zenon DEF ProcInv
    <2>3. state.mode \in {"clean", "dirty"}
      BY <2>2, Zenon DEF NextState
    <2>4. state # Torn
      <3>1. proc.poisoned \/ StateStep(Now, Tail(proc.todo))
        BY <2>1, WorkNow, Zenon
      <3>2. Now.purpose = "clean" => Sealed
        BY <2>1, <3>1, WorkNow DEF StateStep, WriteState
      <3>3. Now.purpose = "clean" => head \in Head_
        BY <1>1, <2>2, <3>2, RootAssumption DEF Sealed, Process, Head_, TypeOK
      <3>4. proc.anchor \in Head_
        BY <2>2, Zenon DEF Process
      <3>5. NextState(Now.purpose) \in State
        BY <3>3, <3>4, Zenon DEF NextState, State
      <3>. QED
        BY <2>2, <3>5, RootAssumption, Zenon
    <2>. QED
      BY <1>1, <2>1, <2>3, <2>4, Zenon DEF EffectsDurable, HeldInv
  <1>9. CASE Exposes
    <2>1. proc # None /\ proc.todo # <<>>
      BY <1>9, Zenon DEF Exposes, Doing
    <2>2. PICK o \in Object :
            /\ Now = Expose(o) /\ DirtyState
            /\ [kind |-> "Intent", broker |-> proc.broker, obj |-> o] \in Range(synced.journal)
      BY <1>9, <2>1, WorkNow, Zenon DEF Exposes, ExposeStep
    <2>3. proc.broker \in Broker
      BY <2>1, WorkNow, Zenon DEF Process
    <2>4. held' = [held EXCEPT ![proc.broker] = @ \cup {o}] /\ UNCHANGED synced
      BY <1>9, <2>2, Zenon DEF Exposes, Expose
    <2>. QED
      BY <1>1, <2>2, <2>3, <2>4, Zenon DEF EffectsDurable, TypeOK, DirtyState
  <1>10. CASE \/ \E o \in Object : Admit(o) \/ Release(o)
              \/ WriteHeader \/ WritePayload \/ TruncateHead \/ WriteHead \/ TruncateState \/ WriteStateText
              \/ FrameFails \/ StateFails \/ finish_shutdown \/ Ends
    BY <1>2, <1>10, Zenon DEF Admit, Release, WriteHeader, WritePayload, TruncateHead, WriteHead, TruncateState,
       WriteStateText, FrameFails, StateFails, finish_shutdown, Ends
  <1>. QED
    BY <1>3, <1>4, <1>5, <1>6, <1>7, <1>8, <1>9, <1>10, Zenon DEF Next, Boots

\* No step makes a broker live while a predecessor's clients have memory mapped.
LEMMA NextClean == IInv /\ Next => NoFalseClean'
  <1>. SUFFICES ASSUME IInv, Next PROVE NoFalseClean'
    OBVIOUS
  <1>1. NoFalseClean /\ HeldInv /\ TypeOK
    BY Zenon DEF IInv
  <1>2. ASSUME proc # None, proc'.broker = proc.broker, proc'.quarantined = proc.quarantined, UNCHANGED held
        PROVE  NoFalseClean'
    BY <1>1, <1>2, Zenon DEF NoFalseClean
  <1>3. CASE Boots
    BY <1>3, BootStep, Zenon DEF NoFalseClean
  <1>4. ASSUME NEW b \in Broker, Open(b) PROVE NoFalseClean'
    <2>1. CASE verify_deployment_state = "live"
      <3>1. state # Torn /\ state.mode = "clean"
        BY <2>1, Zenon DEF verify_deployment_state
      <3>. QED
        BY <1>1, <1>4, <3>1, OpenIs, Zenon DEF HeldInv, NoFalseClean
    <2>2. CASE proc'.quarantined
      BY <2>2, Zenon DEF NoFalseClean
    <2>. QED
      BY <1>4, <2>1, <2>2, OpenIs, Zenon
  <1>5. ASSUME NEW b \in Broker, NEW o \in Object, LetGo(b, o) PROVE NoFalseClean'
    BY <1>1, <1>5, Zenon DEF LetGo, NoFalseClean, TypeOK
  <1>6. ASSUME NEW o \in Object, Admit(o) \/ Release(o) PROVE NoFalseClean'
    BY <1>2, <1>6, AdmitIs, ReleaseIs, Zenon DEF Admit, Release, Kept
  <1>7. CASE WriteHeader \/ WritePayload \/ SyncJournal \/ TruncateHead \/ WriteHead \/ TruncateState
               \/ WriteStateText
    <2>1. UNCHANGED held
      BY <1>7, Zenon DEF WriteHeader, WritePayload, SyncJournal, TruncateHead, WriteHead, TruncateState, WriteStateText
    <2>. QED
      BY <1>2, <1>7, <2>1, NewProcess, Zenon DEF Kept
  <1>8. CASE SyncHead
    BY <1>2, <1>8, SyncHeadIs, Zenon DEF SyncHead, Doing
  <1>9. CASE SyncState
    BY <1>2, <1>9, SyncStateIs, Zenon DEF SyncState, Doing
  <1>10. CASE FrameFails
    BY <1>2, <1>10, FrameFailsIs, Zenon DEF FrameFails, Doing
  <1>11. CASE StateFails
    BY <1>2, <1>11, StateFailsIs, Zenon DEF StateFails, Doing
  <1>12. CASE finish_shutdown
    BY <1>2, <1>12, StopIs, Zenon DEF finish_shutdown, Idle
  <1>13. CASE Exposes
    <2>1. proc # None /\ proc.todo # <<>> /\ proc \in Process
      BY <1>1, <1>13, Zenon DEF Exposes, Doing, TypeOK
    <2>2. proc'.broker = proc.broker /\ proc'.quarantined = proc.quarantined
      BY <1>13, <2>1, FinishedIs, Zenon DEF Exposes, Kept
    <2>3. \A b \in Broker \ {proc.broker} : held'[b] = held[b]
      BY <1>1, <1>13, Zenon DEF Exposes, TypeOK
    <2>. QED
      BY <1>1, <2>1, <2>2, <2>3, Zenon DEF NoFalseClean
  <1>14. CASE Ends
    BY <1>14, Zenon DEF Ends, NoFalseClean
  <1>. QED
    BY <1>3, <1>4, <1>5, <1>6, <1>7, <1>8, <1>9, <1>10, <1>11, <1>12, <1>13, <1>14, Zenon DEF Next, Boots
=============================================================================
