-------------------------- MODULE DiscoveryProofs --------------------------
(***************************************************************************)
(* Proofs about Discovery for any sessions, backings and inventories, any  *)
(* clocks and any number of changes and snapshots: what a snapshot shows   *)
(* was true at one moment, a guard that passes saw no change, and evidence *)
(* is accepted under the state it was measured in.                         *)
(***************************************************************************)
EXTENDS Discovery, FiniteSetTheorems, TLAPS

\* The shapes the proofs need.
Fields == {"at", "session", "guarded", "start", "wall_start", "seen", "first", "first_at",
           "physical_a", "second", "second_at", "version"}
Busy == {"first", "physical_a", "physical_b", "second", "end"}

Shapes ==
    /\ DOMAIN broker = {"instance", "epoch", "rows"} /\ broker.instance \in Nat /\ broker.epoch \in Nat
    /\ DOMAIN version = {"broker", "inventory"} /\ version.broker \in Nat
    /\ DOMAIN time = {"mono", "skew"} /\ time.mono \in Nat
    /\ DOMAIN discovery = {"last", "generation", "begun"} /\ discovery.generation \in Nat
    /\ DOMAIN held = Session
    /\ \A s \in Session : held[s] # None => held[s].captured \in Nat
    /\ sample = Idle \/ (sample.at \in Busy /\ DOMAIN sample = Fields)

\* Where the broker was at some version: every change moves the epoch or the instance.
Mark(b, v) == [instance |-> b.instance, epoch |-> b.epoch, version |-> v]

\* The versions that somebody remembers: the broker itself, the sessions, and the
\* snapshot that has made its last query.
Marks ==
    {Mark(broker, version.broker)}
    \cup {Mark(held[s].print, held[s].version) : s \in {x \in Session : held[x] # None}}
    \cup (IF sample.at = "end" THEN {Mark(sample.second, sample.version)} ELSE {})

\* Within one instance the epoch counts the changes, so it tells the version.
EpochsTell ==
    /\ \A x \in Marks : /\ x.instance \in Nat /\ x.epoch \in Nat /\ x.version \in Nat
                        /\ x.instance <= broker.instance
    /\ \A x, y \in Marks : x.instance = y.instance => x.epoch + y.version = y.epoch + x.version

\* A generation, and what it is the generation of.
Gen(g, p) == [generation |-> g, print |-> p]

Gens ==
    {Gen(discovery.generation, discovery.last)}
    \cup {Gen(held[s].generation, held[s].print) : s \in {x \in Session : held[x] # None}}
    \cup (IF evidence # None THEN {Gen(evidence.generation, evidence.under)} ELSE {})

GenerationsTell ==
    /\ \A x \in Gens : x.generation \in Nat /\ x.generation <= discovery.generation
    /\ \A x, y \in Gens : x.generation = y.generation => x.print = y.print

Later(b, a) == b.instance > a.instance \/ (b.instance = a.instance /\ b.epoch > a.epoch)

\* The snapshot being taken.  What was read of the inventory was there together with
\* the broker of the first query, or the broker has moved on since that query.
SampleFits ==
    sample.at # "idle" =>
        /\ <<broker, physical>> \in sample.seen
        /\ sample.start \in Nat /\ sample.start <= time.mono
        /\ sample.session \in Session
        /\ sample.guarded # None => held[sample.session] # None
        /\ sample.at # "first" =>
             /\ sample.first.instance \in Nat /\ sample.first.epoch \in Nat
             /\ broker = sample.first \/ Later(broker, sample.first)
        /\ sample.at \in {"physical_b", "second"} =>
             <<sample.first, sample.physical_a>> \in sample.seen \/ Later(broker, sample.first)
        /\ sample.at = "end" =>
             <<sample.first, sample.physical_a>> \in sample.seen \/ Later(sample.second, sample.first)

\* The inductive invariant.
IInv ==
    /\ Shapes /\ EpochsTell /\ GenerationsTell /\ SampleFits
    /\ NotTorn /\ GuardSeesNoChange /\ EvidenceIsOfThisState


-----------------------------------------------------------------------------
\* What does not move the versions, the generations or the snapshots.

\* Fewer marks, of the same broker.
LEMMA MarksFrame ==
  ASSUME EpochsTell, Marks' \subseteq Marks, broker' = broker
  PROVE  EpochsTell'
  BY Zenon DEF EpochsTell

\* The marks that nothing touches.
LEMMA MarksSame ==
  ASSUME EpochsTell, UNCHANGED <<broker, held>>, version'.broker = version.broker,
         sample'.at = "end" =>
            /\ sample.at = "end"
            /\ sample'.second = sample.second /\ sample'.version = sample.version
  PROVE  EpochsTell'
  <1>1. Marks' \subseteq Marks
    BY Zenon DEF Marks, Mark
  <1>. QED
    BY <1>1, MarksFrame, Zenon

\* Fewer generations.
LEMMA GensFrame ==
  ASSUME GenerationsTell, Gens' \subseteq Gens, discovery'.generation = discovery.generation
  PROVE  GenerationsTell'
  BY Zenon DEF GenerationsTell

\* The generations that nothing touches.
LEMMA GensSame ==
  ASSUME GenerationsTell, UNCHANGED <<held, evidence>>,
         discovery'.generation = discovery.generation, discovery'.last = discovery.last
  PROVE  GenerationsTell'
  <1>1. Gens' = Gens
    BY Zenon DEF Gens, Gen
  <1>. QED
    BY <1>1, GensFrame, Zenon

\* The snapshots and the verdict that nothing touches.
LEMMA VerdictsSame ==
  ASSUME NotTorn, GuardSeesNoChange, EvidenceIsOfThisState, UNCHANGED <<held, verdict>>
  PROVE  NotTorn' /\ GuardSeesNoChange' /\ EvidenceIsOfThisState'
  BY Zenon DEF NotTorn, Snapshots, GuardSeesNoChange, EvidenceIsOfThisState

\* A session is where its snapshot, and its mark and generation, are.
LEMMA HeldIs ==
  ASSUME NEW s \in Session, held[s] # None
  PROVE  /\ held[s] \in Snapshots
         /\ Mark(held[s].print, held[s].version) \in Marks
         /\ Gen(held[s].generation, held[s].print) \in Gens
  BY Zenon DEF Snapshots, Marks, Gens

\* The fields of marks and generations.
LEMMA MarkFields ==
  /\ \A b, v : Mark(b, v).instance = b.instance /\ Mark(b, v).epoch = b.epoch /\ Mark(b, v).version = v
  /\ \A g, p : Gen(g, p).generation = g /\ Gen(g, p).print = p
  BY Zenon DEF Mark, Gen

-----------------------------------------------------------------------------
\* The world moves.

\* Remember only adds to what the sample has seen.
LEMMA Remembered ==
  ASSUME Shapes, NEW b, NEW p, Remember(b, p)
  PROVE  /\ sample'.at = sample.at
         /\ sample = Idle => sample' = Idle
         /\ sample.at # "idle" =>
              /\ DOMAIN sample' = Fields /\ <<b, p>> \in sample'.seen
              /\ sample.seen \subseteq sample'.seen
              /\ \A f \in Fields \ {"seen"} : sample'[f] = sample[f]
  <1>1. CASE sample = Idle
    BY <1>1, Zenon DEF Remember, Idle
  <1>2. CASE sample.at \in Busy /\ DOMAIN sample = Fields
    <2>1. sample' = [sample EXCEPT !.seen = @ \cup {<<b, p>>}] /\ sample.at # "idle"
      BY <1>2, Zenon DEF Remember, Busy
    <2>2. "seen" \in Fields /\ "at" \in Fields
      BY Zenon DEF Fields
    <2>3. /\ DOMAIN sample' = Fields /\ sample'.seen = sample.seen \cup {<<b, p>>}
          /\ \A f \in Fields \ {"seen"} : sample'[f] = sample[f]
      BY <1>2, <2>1, <2>2, Zenon
    <2>4. sample'.at = sample.at
      BY <2>2, <2>3, Zenon
    <2>5. sample # Idle
      BY <2>1 DEF Idle
    <2>. QED
      BY <2>1, <2>3, <2>4, <2>5, Zenon
  <1>. QED
    BY <1>1, <1>2, Zenon DEF Shapes

\* What SampleFits reads of a sample.
SameSample ==
    /\ sample'.at = sample.at
    /\ sample.at # "idle" =>
         /\ sample.seen \subseteq sample'.seen
         /\ sample'.start = sample.start /\ sample'.session = sample.session
         /\ sample'.guarded = sample.guarded /\ sample'.first = sample.first
         /\ sample'.physical_a = sample.physical_a /\ sample'.second = sample.second
         /\ sample'.version = sample.version

\* A change of the world leaves the sample as it is, but for what it has seen.
LEMMA RememberedSame ==
  ASSUME Shapes, NEW b, NEW p, Remember(b, p)
  PROVE  SameSample /\ (sample.at # "idle" => <<b, p>> \in sample'.seen)
  BY Remembered, Zenon DEF SameSample, Fields

\* The broker moves on by an epoch, or to another instance.
Advances(b) ==
    /\ DOMAIN b = {"instance", "epoch", "rows"} /\ b.instance \in Nat /\ b.epoch \in Nat
    /\ \/ b.instance = broker.instance /\ b.epoch = broker.epoch + 1
       \/ b.instance = broker.instance + 1


\* Every change of the broker is one of these.
LEMMA ChangesAdvance ==
  ASSUME Shapes, NEW rows
  PROVE  /\ Advances([broker EXCEPT !.epoch = @ + 1, !.rows = rows])
         /\ Advances([instance |-> broker.instance + 1, epoch |-> 0, rows |-> rows])
  BY DEF Advances, Shapes

\* The broker of the first query stays behind.
LEMMA LaterStill ==
  ASSUME NEW b, Advances(b), Shapes, NEW a, a.instance \in Nat, a.epoch \in Nat
  PROVE  /\ Later(b, broker)
         /\ broker = a \/ Later(broker, a) => Later(b, a)
  BY DEF Advances, Shapes, Later

\* The broker changes, while a snapshot may be under way.
LEMMA BrokerMoves ==
  ASSUME IInv, NEW b, Advances(b), BrokerChanges(b)
  PROVE  IInv'
  <1>1. /\ broker' = b /\ version' = [version EXCEPT !.broker = @ + 1]
        /\ UNCHANGED <<physical, time, discovery, held, evidence, verdict>>
    BY Zenon DEF BrokerChanges
  <1>2. SameSample /\ (sample.at # "idle" => <<broker', physical'>> \in sample'.seen)
    BY <1>1, RememberedSame, Zenon DEF BrokerChanges, IInv
  <1>3. Shapes'
    <2>1. DOMAIN version' = {"broker", "inventory"} /\ version'.broker = version.broker + 1
          /\ version'.broker \in Nat
      BY <1>1 DEF IInv, Shapes
    <2>2. sample' = Idle \/ (sample'.at \in Busy /\ DOMAIN sample' = Fields)
      BY Remembered, Zenon DEF BrokerChanges, IInv, Shapes, Busy
    <2>. QED
      BY <1>1, <2>1, <2>2, Zenon DEF IInv, Shapes, Advances
  <1>4. EpochsTell'
    <2>. DEFINE new == Mark(b, version.broker + 1)
                old == Mark(broker, version.broker)
    <2>1. version'.broker = version.broker + 1 /\ version.broker \in Nat
      BY <1>1, Zenon DEF IInv, Shapes
    <2>2. new \in Marks' /\ Marks' \subseteq Marks \cup {new} /\ old \in Marks
      BY <1>1, <1>2, <2>1, Zenon DEF Marks, SameSample, Mark
    <2>3. /\ new.instance = b.instance /\ new.epoch = b.epoch /\ new.version = version.broker + 1
          /\ old.instance = broker.instance /\ old.epoch = broker.epoch /\ old.version = version.broker
      BY MarkFields, Zenon
    <2>. HIDE DEF new, old
    <2>4. /\ b.instance \in Nat /\ b.epoch \in Nat /\ broker.instance <= b.instance
          /\ broker.instance \in Nat /\ broker.epoch \in Nat
          /\ b.instance = broker.instance => b.epoch = broker.epoch + 1
      BY DEF Advances, IInv, Shapes
    <2>5. ASSUME NEW x \in Marks
          PROVE  /\ x.instance \in Nat /\ x.epoch \in Nat /\ x.version \in Nat
                 /\ x.instance <= b.instance
                 /\ x.instance = new.instance => x.epoch + new.version = new.epoch + x.version
      <3>1. /\ x.instance \in Nat /\ x.epoch \in Nat /\ x.version \in Nat
            /\ x.instance <= broker.instance
            /\ x.instance = old.instance => x.epoch + old.version = old.epoch + x.version
        BY <2>2, Zenon DEF IInv, EpochsTell
      <3>. QED
        BY <2>1, <2>3, <2>4, <3>1
    <2>6. \A x, y \in Marks : x.instance = y.instance => x.epoch + y.version = y.epoch + x.version
      BY Zenon DEF IInv, EpochsTell
    <2>7. ASSUME NEW x \in Marks \cup {new}, NEW y \in Marks \cup {new}
          PROVE  x.instance = y.instance => x.epoch + y.version = y.epoch + x.version
      BY <2>1, <2>3, <2>4, <2>5, <2>6, Zenon
    <2>8. ASSUME NEW x \in Marks \cup {new}
          PROVE  /\ x.instance \in Nat /\ x.epoch \in Nat /\ x.version \in Nat
                 /\ x.instance <= b.instance
      BY <2>1, <2>3, <2>4, <2>5
    <2>. QED
      BY <1>1, <2>2, <2>7, <2>8, Zenon DEF EpochsTell
  <1>5. GenerationsTell'
    BY <1>1, GensSame, Zenon DEF IInv
  <1>6. SampleFits'
    <2>1. ASSUME sample.at # "idle", sample.at # "first"
          PROVE  Later(b, sample.first)
      BY <2>1, LaterStill, Zenon DEF IInv, SampleFits
    <2>. QED
      BY <1>1, <1>2, <2>1, Zenon DEF IInv, SampleFits, SameSample
  <1>7. NotTorn' /\ GuardSeesNoChange' /\ EvidenceIsOfThisState'
    BY <1>1, VerdictsSame, Zenon DEF IInv
  <1>. QED
    BY <1>3, <1>4, <1>5, <1>6, <1>7, Zenon DEF IInv

\* The inventory changes.
LEMMA InventoryMoves ==
  ASSUME IInv, NEW p, InventoryChanges(p)
  PROVE  IInv'
  <1>1. /\ physical' = p /\ version' = [version EXCEPT !.inventory = @ + 1]
        /\ UNCHANGED <<broker, time, discovery, held, evidence, verdict>>
    BY Zenon DEF InventoryChanges
  <1>2. SameSample /\ (sample.at # "idle" => <<broker', physical'>> \in sample'.seen)
    BY <1>1, RememberedSame, Zenon DEF InventoryChanges, IInv
  <1>3. DOMAIN version' = {"broker", "inventory"} /\ version'.broker = version.broker
    BY <1>1, Zenon DEF IInv, Shapes
  <1>4. Shapes'
    <2>1. sample' = Idle \/ (sample'.at \in Busy /\ DOMAIN sample' = Fields)
      BY Remembered, Zenon DEF InventoryChanges, IInv, Shapes, Busy
    <2>. QED
      BY <1>1, <1>3, <2>1, Zenon DEF IInv, Shapes
  <1>5. EpochsTell'
    BY <1>1, <1>2, <1>3, MarksSame, Zenon DEF IInv, SameSample
  <1>6. GenerationsTell'
    BY <1>1, GensSame, Zenon DEF IInv
  <1>7. SampleFits'
    BY <1>1, <1>2, Zenon DEF IInv, SampleFits, SameSample
  <1>8. NotTorn' /\ GuardSeesNoChange' /\ EvidenceIsOfThisState'
    BY <1>1, VerdictsSame, Zenon DEF IInv
  <1>. QED
    BY <1>4, <1>5, <1>6, <1>7, <1>8, Zenon DEF IInv

\* The clocks: time passes, and the wall clock is set.
LEMMA ClocksMove ==
  ASSUME IInv, Tick \/ \E skew \in Skew : SetClock(skew)
  PROVE  IInv'
  <1>1. /\ DOMAIN time' = {"mono", "skew"} /\ time'.mono \in Nat /\ time.mono \in Nat
        /\ time.mono <= time'.mono
        /\ UNCHANGED <<broker, physical, version, discovery, sample, held, evidence, verdict>>
    BY DEF Tick, SetClock, IInv, Shapes
  <1>2. Shapes'
    BY <1>1, Zenon DEF IInv, Shapes
  <1>3. EpochsTell'
    BY <1>1, MarksSame, Zenon DEF IInv
  <1>4. GenerationsTell'
    BY <1>1, GensSame, Zenon DEF IInv
  <1>5. SampleFits'
    BY <1>1 DEF IInv, SampleFits
  <1>6. NotTorn' /\ GuardSeesNoChange' /\ EvidenceIsOfThisState'
    BY <1>1, VerdictsSame, Zenon DEF IInv
  <1>. QED
    BY <1>2, <1>3, <1>4, <1>5, <1>6, Zenon DEF IInv


-----------------------------------------------------------------------------
\* A snapshot is taken.

\* A step of the sample alone, up to its last query.
LEMMA SampleMoves ==
  ASSUME IInv, UNCHANGED <<world, held, evidence, verdict>>,
         DOMAIN discovery' = DOMAIN discovery,
         discovery'.generation = discovery.generation, discovery'.last = discovery.last,
         sample' = Idle \/ (sample'.at \in Busy \ {"end"} /\ DOMAIN sample' = Fields),
         SampleFits'
  PROVE  IInv'
  <1>1. UNCHANGED <<broker, physical, time, version>>
    BY Zenon DEF world
  <1>2. Shapes'
    BY <1>1, Zenon DEF IInv, Shapes
  <1>3. EpochsTell'
    <2>1. sample'.at # "end"
      BY DEF Idle
    <2>. QED
      BY <1>1, <2>1, MarksSame, Zenon DEF IInv
  <1>4. GenerationsTell'
    BY GensSame, Zenon DEF IInv
  <1>5. NotTorn' /\ GuardSeesNoChange' /\ EvidenceIsOfThisState'
    BY VerdictsSame, Zenon DEF IInv
  <1>. QED
    BY <1>2, <1>3, <1>4, <1>5, Zenon DEF IInv

\* A snapshot begins, by itself or for a guard.
LEMMA BeginMoves ==
  ASSUME IInv, NEW s \in Session, NEW o, Begin(s, o)
  PROVE  IInv'
  <1>1. /\ UNCHANGED <<world, held, evidence, verdict>> /\ UNCHANGED <<broker, physical, time>>
        /\ discovery' = [discovery EXCEPT !.begun = @ + 1]
        /\ o # None => held[s] # None
    BY Zenon DEF Begin, world
  <1>2. /\ sample'.at = "first" /\ DOMAIN sample' = Fields
        /\ sample'.session = s /\ sample'.guarded = o /\ sample'.start = time.mono
        /\ sample'.seen = {<<broker, physical>>}
    BY Zenon DEF Begin, Fields
  <1>3. /\ DOMAIN discovery' = DOMAIN discovery
        /\ discovery'.generation = discovery.generation /\ discovery'.last = discovery.last
    BY <1>1, Zenon DEF IInv, Shapes
  <1>4. SampleFits'
    BY <1>1, <1>2 DEF SampleFits, IInv, Shapes
  <1>5. sample'.at \in Busy \ {"end"}
    BY <1>2, Zenon DEF Busy
  <1>. QED
    BY <1>1, <1>2, <1>3, <1>4, <1>5, SampleMoves, Zenon

\* A query or a read goes on to the next one, or the snapshot fails.
LEMMA ReadMoves ==
  ASSUME IInv, QueryFirst \/ ReadPhysicalA \/ ReadPhysicalB
  PROVE  IInv'
  <1>1. /\ UNCHANGED <<world, discovery, held, evidence, verdict>>
        /\ UNCHANGED <<broker, physical, time>>
    BY Zenon DEF QueryFirst, ReadPhysicalA, ReadPhysicalB, world
  <1>2. sample.at \in {"first", "physical_a", "physical_b"} /\ DOMAIN sample = Fields
    BY DEF QueryFirst, ReadPhysicalA, ReadPhysicalB, IInv, Shapes, Idle
  <1>3. /\ <<broker, physical>> \in sample.seen
        /\ sample.start \in Nat /\ sample.start <= time.mono
        /\ sample.session \in Session
        /\ sample.guarded # None => held[sample.session] # None
    BY <1>2, Zenon DEF IInv, SampleFits
  <1>5. CASE sample' = Idle
    <2>1. SampleFits'
      BY <1>5, Zenon DEF SampleFits, Idle
    <2>. QED
      BY <1>1, <1>5, <2>1, SampleMoves, Zenon
  <1>6. CASE sample.at = "first" /\ sample' # Idle
    <2>1. sample' = [sample EXCEPT !.at = "physical_a", !.first = broker, !.first_at = unix_ns]
      BY <1>6, Zenon DEF QueryFirst, ReadPhysicalA, ReadPhysicalB, Fail
    <2>2. /\ DOMAIN sample' = Fields /\ sample'.at = "physical_a" /\ sample'.first = broker
          /\ sample'.seen = sample.seen /\ sample'.start = sample.start
          /\ sample'.session = sample.session /\ sample'.guarded = sample.guarded
      BY <1>2, <2>1, Zenon DEF Fields
    <2>3. SampleFits'
      BY <1>1, <1>3, <2>2, Zenon DEF SampleFits, IInv, Shapes
    <2>. QED
      BY <1>1, <2>2, <2>3, SampleMoves, Zenon DEF Busy
  <1>7. CASE sample.at = "physical_a"
    <2>1. sample' = [sample EXCEPT !.at = "physical_b", !.physical_a = physical]
      BY <1>7, Zenon DEF QueryFirst, ReadPhysicalA, ReadPhysicalB
    <2>2. /\ DOMAIN sample' = Fields /\ sample'.at = "physical_b" /\ sample'.first = sample.first
          /\ sample'.physical_a = physical
          /\ sample'.seen = sample.seen /\ sample'.start = sample.start
          /\ sample'.session = sample.session /\ sample'.guarded = sample.guarded
      BY <1>2, <2>1, Zenon DEF Fields
    <2>3. /\ sample.first.instance \in Nat /\ sample.first.epoch \in Nat
          /\ broker = sample.first \/ Later(broker, sample.first)
      BY <1>7, Zenon DEF IInv, SampleFits
    <2>4. SampleFits'
      BY <1>1, <1>3, <2>2, <2>3, Zenon DEF SampleFits
    <2>. QED
      BY <1>1, <2>2, <2>4, SampleMoves, Zenon DEF Busy
  <1>8. CASE sample.at = "physical_b" /\ sample' # Idle
    <2>1. sample' = [sample EXCEPT !.at = "second"]
      BY <1>8, Zenon DEF QueryFirst, ReadPhysicalA, ReadPhysicalB
    <2>2. /\ DOMAIN sample' = Fields /\ sample'.at = "second" /\ sample'.first = sample.first
          /\ sample'.physical_a = sample.physical_a
          /\ sample'.seen = sample.seen /\ sample'.start = sample.start
          /\ sample'.session = sample.session /\ sample'.guarded = sample.guarded
      BY <1>2, <2>1, Zenon DEF Fields
    <2>3. /\ sample.first.instance \in Nat /\ sample.first.epoch \in Nat
          /\ broker = sample.first \/ Later(broker, sample.first)
          /\ <<sample.first, sample.physical_a>> \in sample.seen \/ Later(broker, sample.first)
      BY <1>8, Zenon DEF IInv, SampleFits
    <2>4. SampleFits'
      BY <1>1, <1>3, <2>2, <2>3, Zenon DEF SampleFits
    <2>. QED
      BY <1>1, <2>2, <2>4, SampleMoves, Zenon DEF Busy
  <1>. QED
    BY <1>2, <1>5, <1>6, <1>7, <1>8, Zenon


\* The second query: the sample gets a mark of its own, the broker's.
LEMMA SecondMoves ==
  ASSUME IInv, QuerySecond
  PROVE  IInv'
  <1>1. /\ UNCHANGED <<world, discovery, held, evidence, verdict>>
        /\ UNCHANGED <<broker, physical, time, version>>
    BY Zenon DEF QuerySecond, world
  <1>2. sample.at = "second" /\ DOMAIN sample = Fields
    BY DEF QuerySecond, IInv, Shapes, Idle
  <1>3. /\ <<broker, physical>> \in sample.seen
        /\ sample.start \in Nat /\ sample.start <= time.mono
        /\ sample.session \in Session
        /\ sample.guarded # None => held[sample.session] # None
        /\ sample.first.instance \in Nat /\ sample.first.epoch \in Nat
        /\ broker = sample.first \/ Later(broker, sample.first)
        /\ <<sample.first, sample.physical_a>> \in sample.seen \/ Later(broker, sample.first)
    BY <1>2, Zenon DEF IInv, SampleFits
  <1>4. CASE sample' = Idle
    <2>1. SampleFits'
      BY <1>4, Zenon DEF SampleFits, Idle
    <2>. QED
      BY <1>1, <1>4, <2>1, SampleMoves, Zenon
  <1>5. CASE sample' # Idle
    <2>1. sample' = [sample EXCEPT !.at = "end", !.second = broker, !.second_at = unix_ns,
                                   !.version = version.broker]
      BY <1>5, Zenon DEF QuerySecond, Fail
    <2>2. /\ DOMAIN sample' = Fields /\ sample'.at = "end" /\ sample'.first = sample.first
          /\ sample'.physical_a = sample.physical_a
          /\ sample'.second = broker /\ sample'.version = version.broker
          /\ sample'.seen = sample.seen /\ sample'.start = sample.start
          /\ sample'.session = sample.session /\ sample'.guarded = sample.guarded
      BY <1>2, <2>1, Zenon DEF Fields
    <2>3. Shapes'
      BY <1>1, <2>2, Zenon DEF IInv, Shapes, Busy
    <2>4. EpochsTell'
      <3>1. Marks' \subseteq Marks
        BY <1>1, <2>2, Zenon DEF Marks
      <3>. QED
        BY <1>1, <3>1, MarksFrame, Zenon DEF IInv
    <2>5. GenerationsTell'
      BY <1>1, GensSame, Zenon DEF IInv
    <2>6. SampleFits'
      BY <1>1, <1>3, <2>2, Zenon DEF SampleFits
    <2>7. NotTorn' /\ GuardSeesNoChange' /\ EvidenceIsOfThisState'
      BY <1>1, VerdictsSame, Zenon DEF IInv
    <2>. QED
      BY <2>3, <2>4, <2>5, <2>6, <2>7, Zenon DEF IInv
  <1>. QED
    BY <1>4, <1>5, Zenon

\* The fields of a snapshot that is taken.
LEMMA TakenFields ==
  ASSUME NEW s, NEW g, NEW budget
  PROVE  /\ Taken(s, g, budget).print = Fingerprint(s.second, s.physical_a)
         /\ Taken(s, g, budget).generation = g /\ Taken(s, g, budget).captured = s.start
         /\ Taken(s, g, budget).version = s.version
         /\ Taken(s, g, budget).whole <=>
              \E x \in s.seen : Fingerprint(x[1], x[2]) = Fingerprint(s.second, s.physical_a)
  BY Zenon DEF Taken

\* A projection that is the same at both queries was there when the inventory was read.
LEMMA WholeIsSeen ==
  ASSUME IInv, sample.at = "end", Observed(sample), NEW g, NEW budget
  PROVE  Taken(sample, g, budget).whole
  <1>1. sample.first = sample.second
    BY Zenon DEF Observed, same_projection
  <1>2. sample.first.instance \in Nat /\ sample.first.epoch \in Nat
    BY Zenon DEF IInv, SampleFits
  <1>3. ~Later(sample.second, sample.first)
    BY <1>1, <1>2 DEF Later
  <1>4. <<sample.second, sample.physical_a>> \in sample.seen
    BY <1>1, <1>3, Zenon DEF IInv, SampleFits
  <1>5. \E x \in sample.seen : Fingerprint(x[1], x[2]) = Fingerprint(sample.second, sample.physical_a)
    <2>. DEFINE x == <<sample.second, sample.physical_a>>
    <2>1. x \in sample.seen /\ x[1] = sample.second /\ x[2] = sample.physical_a
      BY <1>4, Zenon
    <2>. QED
      BY <2>1, Zenon
  <1>. QED
    BY <1>5, TakenFields, Zenon


\* The end of a snapshot: the session, or the guard, gets what was observed.
LEMMA EndMoves ==
  ASSUME IInv, NEW a, NEW b, EndSnapshot(a, b)
  PROVE  IInv'
  <1>1. /\ sample.at = "end" /\ sample' = Idle /\ evidence' = evidence
        /\ UNCHANGED <<world, evidence>> /\ UNCHANGED <<broker, physical, time, version>>
    BY Zenon DEF EndSnapshot, world
  <1>2. SampleFits' /\ sample'.at = "idle"
    BY <1>1, Zenon DEF SampleFits, Idle
  <1>3. CASE ~Observed(sample)
    <2>1. UNCHANGED <<discovery, held, verdict>>
      BY <1>3, Zenon DEF EndSnapshot
    <2>. QED
      BY <1>1, <1>2, <2>1, SampleMoves, Zenon
  <1>4. CASE Observed(sample)
    <2>. DEFINE print == Fingerprint(sample.second, sample.physical_a)
                g == IF SameFingerprint(print) THEN discovery.generation ELSE discovery.generation + 1
                current == Taken(sample, g, Budget(sample.second.rows, a, b))
                s == sample.session
    <2>1. discovery' = [discovery EXCEPT !.last = print, !.generation = g]
      BY <1>4, Zenon DEF EndSnapshot
    <2>2. \/ held' = [held EXCEPT ![s] = current] /\ verdict' = verdict
          \/ held' = held /\ verdict' = verdict
          \/ /\ held' = held /\ GuardHolds(held[s], current, sample.guarded) /\ sample.guarded # None
             /\ verdict' = [kind |-> "guard", previous |-> held[s], current |-> current]
      BY <1>4, Zenon DEF EndSnapshot
    <2>3. /\ current.print = print /\ current.generation = g /\ current.captured = sample.start
          /\ current.version = sample.version /\ current.whole
      BY <1>1, <1>4, TakenFields, WholeIsSeen
    <2>4. /\ s \in Session /\ sample.start \in Nat /\ sample.start <= time.mono /\ time.mono \in Nat
          /\ sample.guarded # None => held[s] # None
      BY <1>1, Zenon DEF IInv, SampleFits, Shapes
    <2>5. print.instance = sample.second.instance /\ print.epoch = sample.second.epoch
      BY Zenon DEF Fingerprint
    <2>6. /\ g \in Nat /\ discovery.generation \in Nat /\ discovery.generation <= g
          /\ g = discovery.generation => discovery.last = print
      BY DEF IInv, Shapes, SameFingerprint
    <2>7. /\ DOMAIN discovery' = {"last", "generation", "begun"}
          /\ discovery'.last = print /\ discovery'.generation = g
      BY <2>1, Zenon DEF IInv, Shapes
    <2>. HIDE DEF print, g, current, s
    <2>8. /\ DOMAIN held' = Session /\ DOMAIN held = Session
          /\ \A t \in Session : held'[t] = held[t] \/ held'[t] = current
      BY <2>2, Zenon DEF IInv, Shapes
    <2>9. Shapes'
      BY <1>1, <2>3, <2>4, <2>6, <2>7, <2>8, Zenon DEF IInv, Shapes
    <2>10. Mark(current.print, current.version) \in Marks
      <3>1. Mark(current.print, current.version) = Mark(sample.second, sample.version)
        BY <2>3, <2>5, Zenon DEF Mark
      <3>. QED
        BY <1>1, <3>1, Zenon DEF Marks
    <2>11. EpochsTell'
      <3>1. ASSUME NEW t \in Session, held'[t] # None
            PROVE  Mark(held'[t].print, held'[t].version) \in Marks
        BY <2>8, <2>10, <3>1, HeldIs, Zenon
      <3>2. Marks' \subseteq Marks
        BY <1>1, <1>2, <3>1, Zenon DEF Marks
      <3>. QED
        BY <1>1, <3>2, MarksFrame, Zenon DEF IInv
    <2>12. GenerationsTell'
      <3>. DEFINE new == Gen(g, print)
                  old == Gen(discovery.generation, discovery.last)
      <3>1. /\ new.generation = g /\ new.print = print
            /\ old.generation = discovery.generation /\ old.print = discovery.last /\ old \in Gens
        BY MarkFields, Zenon DEF Gens
      <3>2. ASSUME NEW t \in Session, held'[t] # None
            PROVE  Gen(held'[t].generation, held'[t].print) \in Gens \cup {new}
        BY <2>3, <2>8, <3>2, HeldIs, Zenon
      <3>3. Gens' \subseteq Gens \cup {new}
        BY <1>1, <2>7, <3>2, Zenon DEF Gens
      <3>. HIDE DEF new, old
      <3>4. ASSUME NEW x \in Gens
            PROVE  /\ x.generation \in Nat /\ x.generation <= g
                   /\ x.generation = g => x.print = print
        <4>1. /\ x.generation \in Nat /\ x.generation <= discovery.generation
              /\ x.generation = old.generation => x.print = old.print
          BY <3>1, Zenon DEF IInv, GenerationsTell
        <4>. QED
          BY <2>6, <3>1, <4>1
      <3>5. \A x, y \in Gens : x.generation = y.generation => x.print = y.print
        BY Zenon DEF IInv, GenerationsTell
      <3>6. \A x \in Gens \cup {new} : x.generation \in Nat /\ x.generation <= g
        BY <2>6, <3>1, <3>4
      <3>7. \A x, y \in Gens \cup {new} : x.generation = y.generation => x.print = y.print
        BY <3>1, <3>4, <3>5, Zenon
      <3>. QED
        BY <2>7, <3>3, <3>6, <3>7, Zenon DEF GenerationsTell
    <2>13. NotTorn'
      BY <2>3, <2>8, Zenon DEF IInv, NotTorn, Snapshots
    <2>14. EvidenceIsOfThisState'
      <3>1. verdict' = verdict \/ verdict'.kind = "guard"
        BY <2>2
      <3>. QED
        BY <3>1, Zenon DEF IInv, EvidenceIsOfThisState
    <2>15. GuardSeesNoChange'
      <3>1. CASE verdict' = verdict
        BY <3>1, Zenon DEF IInv, GuardSeesNoChange
      <3>2. CASE /\ GuardHolds(held[s], current, sample.guarded) /\ sample.guarded # None
                 /\ verdict' = [kind |-> "guard", previous |-> held[s], current |-> current]
        <4>1. /\ held[s] # None /\ held[s].captured \in Nat /\ held[s].print = current.print
              /\ time.mono - held[s].captured <= MaxAge
          BY <2>4, <3>2, DiscoveryAssumption DEF GuardHolds, Aged, IInv, Shapes
        <4>2. Mark(held[s].print, held[s].version) \in Marks
          BY <2>4, <4>1, HeldIs, Zenon
        <4>3. held[s].version = current.version
          <5>. DEFINE x == Mark(held[s].print, held[s].version)
                      y == Mark(current.print, current.version)
          <5>1. /\ x.instance = y.instance /\ x.epoch = y.epoch
                /\ x.version = held[s].version /\ y.version = current.version
            BY <4>1, MarkFields
          <5>2. x \in Marks /\ y \in Marks
            BY <2>10, <4>2, Zenon
          <5>. HIDE DEF x, y
          <5>3. /\ x.epoch \in Nat /\ x.version \in Nat /\ y.version \in Nat
                /\ x.epoch + y.version = y.epoch + x.version
            BY <5>1, <5>2, Zenon DEF IInv, EpochsTell
          <5>. QED
            BY <5>1, <5>3
        <4>4. current.captured - held[s].captured <= MaxAge
          BY <2>3, <2>4, <4>1, DiscoveryAssumption
        <4>5. verdict'.previous = held[s] /\ verdict'.current = current
          BY <3>2, Zenon
        <4>. QED
          BY <4>3, <4>4, <4>5, Zenon DEF GuardSeesNoChange
      <3>. QED
        BY <2>2, <3>1, <3>2, Zenon
    <2>. QED
      BY <1>2, <2>9, <2>11, <2>12, <2>13, <2>14, <2>15, Zenon DEF IInv
  <1>. QED
    BY <1>3, <1>4, Zenon


-----------------------------------------------------------------------------
\* Evidence is measured under a snapshot that a session holds, and checked against one.
LEMMA EvidenceMoves ==
  ASSUME IInv, NEW s \in Session,
         \/ \E route \in Object \X Owner, expires \in Expiry : Measure(s, route, expires)
         \/ VerifyEvidence(s)
  PROVE  IInv'
  <1>1. /\ UNCHANGED <<discovery, sample, held>> /\ UNCHANGED <<broker, physical, time, version>>
        /\ held[s] # None
    BY Zenon DEF Measure, VerifyEvidence, world
  <1>2. Shapes' /\ SampleFits' /\ NotTorn'
    BY <1>1, Zenon DEF IInv, Shapes, SampleFits, NotTorn, Snapshots
  <1>3. EpochsTell'
    BY <1>1, MarksSame, Zenon DEF IInv
  <1>4. CASE \E route \in Object \X Owner, expires \in Expiry : Measure(s, route, expires)
    <2>1. /\ evidence'.under = held[s].print /\ evidence'.generation = held[s].generation
          /\ verdict' = verdict
      BY <1>4 DEF Measure
    <2>2. Gens' \subseteq Gens
      <3>1. Gen(evidence'.generation, evidence'.under) \in Gens
        BY <1>1, <2>1, HeldIs, Zenon
      <3>. QED
        BY <1>1, <3>1, Zenon DEF Gens
    <2>3. GenerationsTell'
      BY <1>1, <2>2, GensFrame, Zenon DEF IInv
    <2>4. GuardSeesNoChange' /\ EvidenceIsOfThisState'
      BY <2>1, Zenon DEF IInv, GuardSeesNoChange, EvidenceIsOfThisState
    <2>. QED
      BY <1>2, <1>3, <2>3, <2>4, Zenon DEF IInv
  <1>5. CASE VerifyEvidence(s)
    <2>1. /\ evidence # None /\ evidence' = evidence /\ EvidenceFits(held[s], evidence)
          /\ verdict' = [kind |-> "evidence", evidence |-> evidence, snapshot |-> held[s]]
      BY <1>5, Zenon DEF VerifyEvidence
    <2>2. GenerationsTell'
      BY <1>1, <2>1, GensSame, Zenon DEF IInv
    <2>3. evidence.under = held[s].print
      <3>. DEFINE x == Gen(evidence.generation, evidence.under)
                  y == Gen(held[s].generation, held[s].print)
      <3>1. x \in Gens /\ y \in Gens
        BY <1>1, <2>1, HeldIs, Zenon DEF Gens
      <3>2. /\ x.generation = y.generation
            /\ x.print = evidence.under /\ y.print = held[s].print
        BY <2>1, MarkFields DEF EvidenceFits
      <3>. HIDE DEF x, y
      <3>. QED
        BY <3>1, <3>2, Zenon DEF IInv, GenerationsTell
    <2>4. GuardSeesNoChange' /\ EvidenceIsOfThisState'
      BY <2>1, <2>3, Zenon DEF GuardSeesNoChange, EvidenceIsOfThisState
    <2>. QED
      BY <1>2, <1>3, <2>2, <2>4, Zenon DEF IInv
  <1>. QED
    BY <1>4, <1>5, Zenon

\* The discovery starts with no snapshot, next to a broker that counts its epochs.
LEMMA Starts == Init => IInv
  <1>. SUFFICES ASSUME Init PROVE IInv
    OBVIOUS
  <1>1. broker.instance = 1 /\ DOMAIN broker = {"instance", "epoch", "rows"} /\ broker.epoch \in Nat
    <2>1. /\ {OwnerOf[o] : o \in Published} \in SUBSET Owner /\ Published \in SUBSET Object
          /\ IsFiniteSet(Owner) /\ IsFiniteSet(Object)
      BY DiscoveryAssumption, Zenon
    <2>2. IsFiniteSet({OwnerOf[o] : o \in Published}) /\ IsFiniteSet(Published)
      BY <2>1, FS_Subset, Zenon
    <2>3. Cardinality({OwnerOf[o] : o \in Published}) \in Nat /\ Cardinality(Published) \in Nat
      BY <2>2, FS_CardinalityType, Zenon
    <2>. QED
      BY <2>3 DEF Init
  <1>2. /\ DOMAIN version = {"broker", "inventory"} /\ version.broker = 0
        /\ DOMAIN time = {"mono", "skew"} /\ time.mono = 0
        /\ DOMAIN discovery = {"last", "generation", "begun"} /\ discovery.generation = 0
        /\ sample = Idle /\ sample.at = "idle" /\ evidence = None /\ verdict.kind = "none"
        /\ DOMAIN held = Session /\ \A s \in Session : held[s] = None
    BY DEF Init, Idle, NoVerdict
  <1>3. Shapes
    BY <1>1, <1>2 DEF Shapes
  <1>4. EpochsTell
    <2>1. Marks = {Mark(broker, version.broker)}
      BY <1>2, Zenon DEF Marks
    <2>. QED
      BY <1>1, <1>2, <2>1, MarkFields DEF EpochsTell
  <1>5. GenerationsTell
    <2>1. Gens = {Gen(discovery.generation, discovery.last)}
      BY <1>2, Zenon DEF Gens
    <2>. QED
      BY <1>2, <2>1, MarkFields DEF GenerationsTell
  <1>6. SampleFits /\ NotTorn /\ GuardSeesNoChange /\ EvidenceIsOfThisState
    BY <1>2, Zenon DEF SampleFits, NotTorn, Snapshots, GuardSeesNoChange, EvidenceIsOfThisState
  <1>. QED
    BY <1>3, <1>4, <1>5, <1>6, Zenon DEF IInv

\* Every step keeps the invariant.
LEMMA Keeps == IInv /\ [Next]_vars => IInv'
  <1>. SUFFICES ASSUME IInv, [Next]_vars PROVE IInv'
    OBVIOUS
  <1>1. ASSUME NEW o \in Object, Register(o) \/ Publish(o) \/ Retire(o) \/ Reclaim(o) PROVE IInv'
    <2>1. \E row : SetRow(o, row)
      BY <1>1, Zenon DEF Register, Publish, Retire, Reclaim
    <2>2. \E rows : BrokerChanges([broker EXCEPT !.epoch = @ + 1, !.rows = rows])
      BY <2>1, Zenon DEF SetRow
    <2>. QED
      BY <2>2, ChangesAdvance, BrokerMoves, Zenon DEF IInv
  <1>2. ASSUME NEW w \in Owner, OwnerExits(w) PROVE IInv'
    <2>1. \E rows : BrokerChanges([broker EXCEPT !.epoch = @ + 1, !.rows = rows])
      BY <1>2, Zenon DEF OwnerExits
    <2>. QED
      BY <2>1, ChangesAdvance, BrokerMoves, Zenon DEF IInv
  <1>3. ASSUME Restart PROVE IInv'
    BY <1>3, ChangesAdvance, BrokerMoves, Zenon DEF Restart, IInv
  <1>4. ASSUME NEW p \in Inventory, InventoryChanges(p) PROVE IInv'
    BY <1>4, InventoryMoves, Zenon
  <1>5. ASSUME Tick \/ \E skew \in Skew : SetClock(skew) PROVE IInv'
    BY <1>5, ClocksMove, Zenon
  <1>6. ASSUME NEW s \in Session, NEW o, Begin(s, o) PROVE IInv'
    BY <1>6, BeginMoves, Zenon
  <1>7. ASSUME QueryFirst \/ ReadPhysicalA \/ ReadPhysicalB PROVE IInv'
    BY <1>7, ReadMoves, Zenon
  <1>8. ASSUME QuerySecond PROVE IInv'
    BY <1>8, SecondMoves, Zenon
  <1>9. ASSUME NEW a, NEW b, EndSnapshot(a, b) PROVE IInv'
    BY <1>9, EndMoves, Zenon
  <1>10. ASSUME NEW s \in Session,
                \/ \E route \in Object \X Owner, expires \in Expiry : Measure(s, route, expires)
                \/ VerifyEvidence(s)
         PROVE  IInv'
    BY <1>10, EvidenceMoves, Zenon
  <1>11. CASE UNCHANGED vars
    <2>1. UNCHANGED <<broker, physical, time, version>>
          /\ UNCHANGED <<discovery, sample, held, evidence, verdict>>
      BY <1>11, Zenon DEF vars
    <2>2. Shapes' /\ SampleFits'
      BY <2>1, Zenon DEF IInv, Shapes, SampleFits
    <2>3. EpochsTell'
      BY <2>1, MarksSame, Zenon DEF IInv
    <2>4. GenerationsTell'
      BY <2>1, GensSame, Zenon DEF IInv
    <2>5. NotTorn' /\ GuardSeesNoChange' /\ EvidenceIsOfThisState'
      BY <2>1, VerdictsSame, Zenon DEF IInv
    <2>. QED
      BY <2>2, <2>3, <2>4, <2>5, Zenon DEF IInv
  <1>. QED
    BY <1>1, <1>2, <1>3, <1>4, <1>5, <1>6, <1>7, <1>8, <1>9, <1>10, <1>11, Zenon DEF Next

-----------------------------------------------------------------------------
\* The inductive invariant holds of every behaviour of the discovery, the broker and
\* the clocks.
THEOREM Invariance == Spec => []IInv
  BY Starts, Keeps, PTL DEF Spec

\* No torn snapshot, whatever changes between the reads: the rows of the broker and the
\* inventory of every snapshot were true together at one moment (snapshot).
THEOREM SnapshotsAreWhole == Spec => []NotTorn
  <1>1. IInv => NotTorn
    BY Zenon DEF IInv
  <1>. QED
    BY <1>1, Invariance, PTL

\* A guard that passes saw the broker at the version of the earlier snapshot, which was
\* young enough, across any restarts and clock changes (guard).
THEOREM GuardsSeeNoChange == Spec => []GuardSeesNoChange
  <1>1. IInv => GuardSeesNoChange
    BY Zenon DEF IInv
  <1>. QED
    BY <1>1, Invariance, PTL

\* Evidence is accepted only for a snapshot of the very state it was measured under
\* (verify_capability_evidence): a generation is never given to two states.
THEOREM EvidenceFitsState == Spec => []EvidenceIsOfThisState
  <1>1. IInv => EvidenceIsOfThisState
    BY Zenon DEF IInv
  <1>. QED
    BY <1>1, Invariance, PTL
=============================================================================
