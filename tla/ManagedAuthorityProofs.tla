----------------------- MODULE ManagedAuthorityProofs -----------------------
(***************************************************************************)
(* Proofs about the durable root for any number of brokers and objects and *)
(* any length of the journal: what a broker remembers is what the journal  *)
(* replays as, and what it does next may rely on the files.                *)
(***************************************************************************)
EXTENDS ManagedAuthorityLemmas

-----------------------------------------------------------------------------
\* What a broker that can still work does next.

\* The verdict on a root depends on its three files only.
LEMMA SameVerdict ==
  ASSUME UNCHANGED <<journal, head, state>>
  PROVE  verify_deployment_state' = verify_deployment_state
  BY Zenon DEF verify_deployment_state, parse_frames, PinsCheckpoint, confirm_normal_restart

\* Between two appends the replay stays what it is.
LEMMA ReplayKept ==
  ASSUME ReplayInv, ~Appending, ~Appending', journal' = journal,
         proc'.gen = proc.gen, proc'.broker = proc.broker, proc'.birth_pending = proc.birth_pending
  PROVE  ReplayInv'
  <1>1. Settled' = Settled
    BY Zenon DEF Settled
  <1>. QED
    BY <1>1, Zenon DEF ReplayInv

\* The stages of an append: the frame and what follows stay, and the replay of
\* what was there before.
Appends == WriteHeader \/ WritePayload \/ SyncJournal \/ TruncateHead \/ WriteHead

\* What a stage of an append leaves alone.
LEMMA AppendIs ==
  ASSUME IInv, Appends
  PROVE  /\ Kept(proc, proc') /\ proc'.todo = proc.todo /\ proc'.stage = proc.stage + 1
         /\ proc.stage \in 0..4 /\ proc # None /\ proc' # None /\ Doing("frame") /\ Doing("frame")'
         /\ Now' = Now /\ FrameNow' = FrameNow /\ Appending'
         /\ UNCHANGED <<state, started, held>> /\ synced'.state = synced.state
  <1>1. /\ Kept(proc, proc') /\ proc'.todo = proc.todo /\ proc'.stage = proc.stage + 1 /\ proc # None /\ proc' # None
    BY NewProcess, Zenon DEF Appends
  <1>2. Doing("frame") /\ proc.stage \in 0..4
    BY DEF Appends, WriteHeader, WritePayload, SyncJournal, TruncateHead, WriteHead
  <1>3. UNCHANGED <<state, started, held>> /\ synced'.state = synced.state
    BY Zenon DEF Appends, WriteHeader, WritePayload, SyncJournal, TruncateHead, WriteHead, JournalSynced, IInv, TypeOK
  <1>4. Now' = Now /\ FrameNow' = FrameNow
    BY <1>1, Zenon DEF Now, FrameNow, Kept
  <1>5. Doing("frame")' /\ Appending'
    BY <1>1, <1>2, <1>4 DEF Doing, Appending
  <1>. QED
    BY <1>1, <1>2, <1>3, <1>4, <1>5, Zenon

\* A stage of an append leaves the replay of the frames before it.
LEMMA AppendReplay ==
  ASSUME IInv, Appends
  PROVE  ReplayInv'
  <1>1. /\ Kept(proc, proc') /\ proc'.stage = proc.stage + 1 /\ proc.stage \in 0..4 /\ Doing("frame")
        /\ Now' = Now /\ FrameNow' = FrameNow /\ Appending'
    BY AppendIs, Zenon
  <1>2. /\ ReplayInv /\ FrameNow \in Frame /\ (proc.stage > 0 => Appending) /\ (proc.stage = 0 => ~Appending)
        /\ journal \in Seq(Frame \cup {Torn})
    BY <1>1, AppendStage, Zenon
  <1>3. Settled \in Seq(Frame)
    BY <1>2, Zenon DEF ReplayInv
  <1>4. journal' = Append(Settled, IF proc'.stage = 1 THEN Torn ELSE FrameNow)
    <2>1. CASE WriteHeader
      BY <1>1, <1>2, <2>1 DEF WriteHeader, Settled
    <2>2. CASE WritePayload
      BY <1>1, <2>2, PayloadIs DEF WritePayload
    <2>3. CASE SyncJournal \/ TruncateHead \/ WriteHead
      BY <1>1, <1>2, <2>3 DEF SyncJournal, TruncateHead, WriteHead, ReplayInv
    <2>. QED
      BY <2>1, <2>2, <2>3, Zenon DEF Appends
  <1>5. Settled' = Settled
    <2>. DEFINE e == IF proc'.stage = 1 THEN Torn ELSE FrameNow
    <2>1. e \in Frame \cup {Torn} /\ Settled \in Seq(Frame \cup {Torn}) /\ journal' = Append(Settled, e)
      BY <1>2, <1>3, <1>4
    <2>. HIDE DEF e
    <2>2. Front(journal') = Settled
      BY <2>1, FrontAppend
    <2>. QED
      BY <1>1, <2>2, Zenon DEF Settled
  <1>6. Accepts(proc.gen, FrameNow)
    <2>1. CASE WriteHeader
      BY <2>1, Zenon DEF WriteHeader, Appendable
    <2>2. CASE Appending
      BY <1>2, <2>2, Zenon DEF ReplayInv
    <2>3. WriteHeader \/ proc.stage > 0
      BY DEF Appends, WritePayload, SyncJournal, TruncateHead, WriteHead
    <2>. QED
      BY <1>2, <2>1, <2>2, <2>3, Zenon
  <1>7. proc'.stage > 2 => synced'.journal = journal'
    BY <1>1, <1>2 DEF Appends, WriteHeader, WritePayload, SyncJournal, TruncateHead, WriteHead, JournalSynced,
       ReplayInv, IInv, TypeOK
  <1>8. proc'.stage = 5 => head' = NextHead'
    BY <1>1 DEF Appends, WriteHeader, WritePayload, SyncJournal, TruncateHead, WriteHead, NextHead, Kept
  <1>9. proc'.gen = proc.gen /\ proc'.broker = proc.broker /\ proc'.birth_pending = proc.birth_pending
    BY <1>1, Zenon DEF Kept
  <1>10. /\ replay_history(Settled).ok
         /\ proc.birth_pending =>
               /\ proc.gen = NewGeneration(proc.broker)
               /\ Settled = <<>> \/ replay_history(Settled).gen.checkpointed
               /\ proc.broker \notin replay_history(Settled).brokers
         /\ ~proc.birth_pending => replay_history(Settled).gen = proc.gen
    BY <1>2, Zenon DEF ReplayInv
  <1>. QED
    BY <1>1, <1>3, <1>4, <1>5, <1>6, <1>7, <1>8, <1>9, <1>10, Zenon DEF ReplayInv

\* A stage of an append keeps what holds of the process.
LEMMA AppendProc ==
  ASSUME IInv, Appends
  PROVE  ProcInv'
  <1>1. /\ Kept(proc, proc') /\ proc'.todo = proc.todo /\ Doing("frame") /\ Doing("frame")'
        /\ Now' = Now /\ UNCHANGED <<started, state, held>> /\ synced'.state = synced.state
    BY AppendIs, Zenon
  <1>2. ProcInv /\ FrameStep(Now, Tail(proc.todo)) /\ ~proc.poisoned /\ ~proc.quarantined /\ proc.todo # <<>>
    BY <1>1, AppendStage, Zenon
  <1>3. ReplayInv'
    BY AppendReplay, Zenon
  <1>4. TodoInv'
    <2>1. FrameStep(Now, Tail(proc.todo))'
      BY <1>1, <1>2, Zenon DEF FrameStep, DirtyState, Working, Kept
    <2>. QED
      BY <1>1, <1>2, <2>1, Zenon DEF TodoInv, Now
  <1>5. ~Doing("state")'
    BY <1>1, Zenon DEF Doing
  <1>6. /\ proc'.broker = proc.broker /\ proc'.gen = proc.gen /\ proc'.poisoned = proc.poisoned
        /\ proc'.quarantined = proc.quarantined
    BY <1>1, Zenon DEF Kept
  <1>. QED
    BY <1>1, <1>2, <1>3, <1>4, <1>5, <1>6, Zenon DEF ProcInv

\* An append that is complete: the broker remembers what the longer history says.
LEMMA SyncHeadReplay ==
  ASSUME IInv, SyncHead
  PROVE  /\ ReplayInv' /\ ~proc'.birth_pending /\ Settled \in Seq(Frame)
         /\ journal = Append(Settled, FrameNow) /\ synced.journal = journal /\ head = NextHead
         /\ Accepts(proc.gen, FrameNow) /\ UNCHANGED <<journal, head, state, started, held>>
         /\ synced'.journal = synced.journal /\ synced'.state = synced.state
         /\ Now.kind = "CleanCheckpoint" => replay_history(journal).latest_clean = Len(journal)
  <1>1. /\ Doing("frame") /\ proc.stage = 5 /\ UNCHANGED <<journal, head, state, started, held>>
        /\ synced' = [synced EXCEPT !.head = head]
    BY Zenon DEF SyncHead
  <1>2. synced'.journal = synced.journal /\ synced'.state = synced.state
    BY <1>1, Zenon DEF IInv, TypeOK
  <1>3. /\ proc \in Process /\ ReplayInv /\ ProcInv /\ FrameNow \in Frame /\ Appending
        /\ FrameStep(Now, Tail(proc.todo))
    BY <1>1, AppendStage
  <1>4. /\ Settled \in Seq(Frame) /\ journal = Append(Settled, FrameNow) /\ Accepts(proc.gen, FrameNow)
        /\ synced.journal = journal /\ head = NextHead
    BY <1>1, <1>3 DEF ReplayInv
  <1>5. FrameNow.kind = Now.kind /\ FrameNow.broker = proc.broker
    BY <1>1, FrameNowType, Zenon
  <1>. DEFINE h == replay_history(Settled)
              n == Len(Settled) + 1
              g == replay_history(journal)
  <1>6. g = Extend(h, FrameNow, n) /\ Len(journal) = n
    BY <1>3, <1>4, ReplayAppend
  <1>7. /\ proc'.gen = apply(proc.gen, FrameNow) /\ proc'.broker = proc.broker /\ proc'.stage = 0
        /\ proc'.birth_pending = (proc.birth_pending /\ Now.kind # "BrokerBirth")
    BY SyncHeadIs, Zenon
  <1>8. proc.birth_pending = (Now.kind = "BrokerBirth")
    <2>1. ASSUME NEW now, NEW then, FrameStep(now, then)
          PROVE  /\ proc.birth_pending => now.kind = "BrokerBirth"
                 /\ now.kind = "BrokerBirth" => proc.birth_pending
      BY <2>1 DEF FrameStep, Record, Working
    <2>. QED
      BY <1>3, <2>1, Zenon DEF Process
  <1>9. proc.broker # None /\ proc.gen.broker = proc.broker
    BY <1>3, RootAssumption, Zenon DEF Process, ProcInv
  <1>10. h.ok
    BY <1>3, Zenon DEF ReplayInv
  <1>11. g.ok /\ g.gen = apply(proc.gen, FrameNow)
    <2>1. CASE proc.birth_pending
      <3>1. /\ proc.gen = NewGeneration(proc.broker) /\ proc.broker \notin h.brokers
            /\ Settled = <<>> \/ h.gen.checkpointed
        BY <1>3, <2>1, Zenon DEF ReplayInv
      <3>2. h.gen.broker = None \/ h.gen.checkpointed
        BY <3>1, ReplayEmpty DEF NoHistory, NewGeneration
      <3>. HIDE DEF h, n, g
      <3>. QED
        BY <1>4, <1>5, <1>6, <1>8, <1>9, <1>10, <2>1, <3>1, <3>2, Zenon DEF Extend
    <2>2. CASE ~proc.birth_pending
      <3>1. h.gen = proc.gen
        BY <1>3, <2>2, Zenon DEF ReplayInv
      <3>2. ~proc.gen.checkpointed
        BY <1>4, Zenon DEF Accepts
      <3>. HIDE DEF h, n, g
      <3>. QED
        BY <1>4, <1>5, <1>6, <1>9, <1>10, <3>1, <3>2, Zenon DEF Extend
    <2>. QED
      BY <2>1, <2>2, Zenon
  <1>12. Now.kind = "CleanCheckpoint" => g.latest_clean = Len(journal)
    <2>. HIDE DEF h, n, g
    <2>. QED
      BY <1>5, <1>6, Zenon DEF Extend
  <1>13. ReplayInv'
    <2>1. ~Appending' /\ Settled' = journal
      BY <1>1, <1>7 DEF Appending, Settled
    <2>2. journal \in Seq(Frame)
      BY <1>3, <1>4
    <2>3. ~proc'.birth_pending
      BY <1>7, <1>8, Zenon
    <2>. QED
      BY <1>7, <1>11, <2>1, <2>2, <2>3, Zenon DEF ReplayInv
  <1>. QED
    BY <1>1, <1>2, <1>4, <1>7, <1>8, <1>12, <1>13, Zenon

\* A complete append keeps what holds of the process: what comes next may rely
\* on the frame.
LEMMA SyncHeadProc ==
  ASSUME IInv, SyncHead
  PROVE  ProcInv'
  <1>1. /\ ReplayInv' /\ ~proc'.birth_pending /\ Settled \in Seq(Frame)
        /\ journal = Append(Settled, FrameNow) /\ synced.journal = journal /\ head = NextHead
        /\ Accepts(proc.gen, FrameNow) /\ UNCHANGED <<journal, head, state, started, held>>
        /\ synced'.journal = synced.journal /\ synced'.state = synced.state
        /\ Now.kind = "CleanCheckpoint" => replay_history(journal).latest_clean = Len(journal)
    BY SyncHeadReplay, Zenon
  <1>2. /\ proc'.gen = apply(proc.gen, FrameNow) /\ proc'.broker = proc.broker /\ proc'.stage = 0
        /\ proc'.quarantined = proc.quarantined /\ proc'.dirty = proc.dirty
        /\ proc'.poisoned = proc.poisoned /\ proc'.stopping = proc.stopping
        /\ proc'.todo = Tail(proc.todo)
    BY SyncHeadIs, Zenon
  <1>3. Doing("frame")
    BY Zenon DEF SyncHead
  <1>4. /\ proc \in Process /\ ProcInv /\ FrameNow \in Frame /\ ~proc.poisoned /\ ~proc.quarantined
        /\ FrameStep(Now, Tail(proc.todo))
    BY <1>3, AppendStage, Zenon
  <1>5. FrameNow.kind = Now.kind /\ FrameNow.broker = proc.broker /\ FrameNow.obj = Now.obj
    BY <1>3, FrameNowType, Zenon
  <1>6. DirtyState' /\ proc.dirty
    BY <1>1, <1>4, Zenon DEF FrameStep, DirtyState, Working
  <1>7. Working'
    BY <1>1, <1>2, <1>6, Zenon DEF Working
  <1>. DEFINE then == Tail(proc.todo)
  <1>8. ASSUME NEW t, then = t, t = <<>> \/ FrameStep(Head(t), Tail(t))' \/ ExposeStep(Head(t), Tail(t))'
                                 \/ StateStep(Head(t), Tail(t))'
        PROVE  TodoInv'
    BY <1>2, <1>6, <1>7, <1>8, Zenon DEF TodoInv
  <1>9. \A o \in Object : proc'.gen.obj[o] = IF Now.kind = "Intent" /\ Now.obj = o THEN "open"
                                             ELSE IF Now.kind = "CloseIntent" /\ Now.obj = o THEN "closing"
                                             ELSE IF Now.kind = "CloseDone" /\ Now.obj = o THEN "closed"
                                             ELSE proc.gen.obj[o]
    <2>1. proc.gen \in Generation /\ FrameNow.kind \in Kind
      BY <1>4, Zenon DEF Process, Frame
    <2>. QED
      BY <1>2, <1>5, <2>1 DEF apply, Generation, Kind
  <1>10. FrameNow \in Range(journal)
    <2>1. Settled \in Seq(Frame \cup {Torn})
      BY <1>1
    <2>. QED
      BY <1>1, <1>4, <2>1, FrontAppend
  <1>. HIDE DEF then
  <1>11. TodoInv'
    <2>1. CASE \E o \in Object : Now = Record("BrokerBirth", None) /\ then = <<Record("Intent", o), Expose(o)>>
      <3>1. PICK o \in Object : then = <<Record("Intent", o), Expose(o)>>
        BY <2>1, Zenon
      <3>2. FrameStep(Record("Intent", o), <<Expose(o)>>)'
        BY <1>6, <1>7, Zenon DEF FrameStep
      <3>. QED
        <4>. DEFINE t == <<Record("Intent", o), Expose(o)>>
        <4>1. Head(t) = Record("Intent", o) /\ Tail(t) = <<Expose(o)>>
          BY Queue, Zenon
        <4>. HIDE DEF t
        <4>2. FrameStep(Head(t), Tail(t))'
          BY <3>2, <4>1, Zenon
        <4>. QED
          BY <1>8, <3>1, <4>2, Zenon DEF t
    <2>2. CASE \E o \in Object : Now = Record("Intent", o) /\ then = <<Expose(o)>>
      <3>1. PICK o \in Object : Now = Record("Intent", o) /\ then = <<Expose(o)>>
        BY <2>2, Zenon
      <3>2. Now.kind = "Intent" /\ Now.obj = o
        BY <3>1, Operations DEF Kind
      <3>3. proc'.gen.obj[o] = "open"
        BY <1>9, <3>2, Zenon
      <3>4. [kind |-> "Intent", broker |-> proc.broker, obj |-> o] \in Range(journal)
        BY <1>10, <3>2, Zenon DEF FrameNow
      <3>5. ExposeStep(Expose(o), <<>>)'
        BY <1>1, <1>2, <1>6, <1>7, <3>3, <3>4, Zenon DEF ExposeStep
      <3>. QED
        BY <1>8, <3>1, <3>5, Queue, Zenon
    <2>3. CASE \E o \in Object : /\ Now = Record("CloseIntent", o) /\ then = <<Record("CloseDone", o)>>
                                 /\ o \notin held[proc.broker]
      <3>1. PICK o \in Object : then = <<Record("CloseDone", o)>> /\ o \notin held[proc.broker]
        BY <2>3, Zenon
      <3>2. FrameStep(Record("CloseDone", o), <<>>)'
        BY <1>1, <1>2, <1>6, <1>7, <3>1, Zenon DEF FrameStep
      <3>. QED
        BY <1>8, <3>1, <3>2, Queue, Zenon
    <2>4. CASE then = <<>>
      BY <1>8, <2>4, Zenon
    <2>5. CASE then = <<Record("CleanCheckpoint", None), WriteState("clean")>> /\ proc.stopping
      <3>1. FrameStep(Record("CleanCheckpoint", None), <<WriteState("clean")>>)'
        BY <1>2, <1>6, <1>7, <2>5, Zenon DEF FrameStep
      <3>. QED
        <4>. DEFINE t == <<Record("CleanCheckpoint", None), WriteState("clean")>>
        <4>1. Head(t) = Record("CleanCheckpoint", None) /\ Tail(t) = <<WriteState("clean")>>
          BY Queue, Zenon
        <4>. HIDE DEF t
        <4>2. FrameStep(Head(t), Tail(t))'
          BY <3>1, <4>1, Zenon
        <4>. QED
          BY <1>8, <2>5, <4>2, Zenon DEF t
    <2>6. CASE Now = Record("CleanCheckpoint", None) /\ then = <<WriteState("clean")>> /\ proc.stopping
      <3>1. Now.kind = "CleanCheckpoint"
        BY <2>6, Zenon DEF Record
      <3>2. ZeroObligations(proc.gen)
        BY <1>1, <1>5, <3>1, Zenon DEF Accepts
      <3>3. ZeroObligations(proc'.gen)
        BY <1>9, <3>1, <3>2, Zenon DEF ZeroObligations
      <3>4. proc'.gen.checkpointed
        <4>1. proc.gen \in Generation
          BY <1>4, Zenon DEF Process
        <4>2. apply(proc.gen, FrameNow).checkpointed
                = (proc.gen.checkpointed \/ FrameNow.kind = "CleanCheckpoint")
          BY <1>4, <4>1, ApplyType, Zenon
        <4>. QED
          BY <1>2, <1>5, <3>1, <4>2, Zenon
      <3>5. head = [mode |-> "clean", broker |-> proc.broker, sequence |-> Len(journal),
                    clean_sequence |-> Len(journal)]
        BY <1>1, <3>1, Zenon DEF NextHead
      <3>6. journal # <<>> /\ Last(journal) = FrameNow
        BY <1>1, <1>4, FrontAppend
      <3>7. Sealed'
        BY <1>1, <1>2, <1>5, <3>1, <3>3, <3>4, <3>5, <3>6, Zenon DEF Sealed
      <3>8. StateStep(WriteState("clean"), <<>>)'
        BY <1>2, <1>7, <2>6, <3>7, Zenon DEF StateStep
      <3>. QED
        BY <1>8, <2>6, <3>8, Queue, Zenon
    <2>. QED
      BY <1>4, <2>1, <2>2, <2>3, <2>4, <2>5, <2>6, Zenon DEF FrameStep, then
  <1>12. \A o \in held[proc.broker] : proc'.gen.obj[o] = "open"
    <2>1. held[proc.broker] \subseteq Object /\ \A o \in held[proc.broker] : proc.gen.obj[o] = "open"
      BY <1>4, Zenon DEF IInv, TypeOK, ProcInv, Process
    <2>2. ASSUME Now.kind \in {"CloseIntent", "CloseDone"} PROVE Now.obj \notin held[proc.broker]
      <3>1. ASSUME NEW now, NEW t, FrameStep(now, t), now.kind \in {"CloseIntent", "CloseDone"}
            PROVE  now.obj \notin held[proc.broker]
        BY <3>1 DEF FrameStep, Record
      <3>. QED
        BY <1>4, <2>2, <3>1, Zenon
    <2>. QED
      BY <1>9, <2>1, <2>2, Zenon
  <1>13. proc'.gen.broker = proc'.broker
    BY <1>2, <1>4, ApplyType, Zenon DEF Process, ProcInv
  <1>14. proc'.broker \in started' /\ ~proc'.poisoned /\ ~proc'.quarantined
    BY <1>1, <1>2, <1>4, Zenon DEF ProcInv
  <1>15. proc'.stage = 0 /\ proc'.stage \in 0..2 /\ proc'.stage # 2
    BY <1>2
  <1>16. \A o \in held'[proc'.broker] : proc'.gen.obj[o] = "open"
    BY <1>1, <1>2, <1>12, Zenon
  <1>17. ReplayInv'
    BY <1>1, Zenon
  <1>. QED
    BY <1>11, <1>13, <1>14, <1>15, <1>16, <1>17, Zenon DEF ProcInv

\* What a clean state pins is a root that opens live.
LEMMA SealedOpens ==
  ASSUME IInv, proc # None, Sealed, ReplayInv, ~Appending, ~proc.birth_pending, ProcInv,
         state = [mode |-> "clean", journal_head |-> head], state # Torn
  PROVE  verify_deployment_state = "live"
  <1>1. /\ journal \in Seq(Frame) /\ replay_history(journal).ok
        /\ replay_history(journal).gen = proc.gen
    BY Zenon DEF ReplayInv, Settled
  <1>2. /\ head = [mode |-> "clean", broker |-> proc.broker, sequence |-> Len(journal),
                   clean_sequence |-> Len(journal)]
        /\ journal # <<>> /\ Last(journal).kind = "CleanCheckpoint" /\ proc.gen.checkpointed
        /\ replay_history(journal).latest_clean = Len(journal)
    BY Zenon DEF Sealed
  <1>3. proc \in Process /\ Len(journal) \in 0..MaxFrames /\ proc.gen.broker = proc.broker
    BY <1>1 DEF IInv, TypeOK, ProcInv
  <1>4. head \in Head_
    BY <1>2, <1>3, Zenon DEF Head_, Process
  <1>5. Torn \notin Range(journal)
    BY <1>1, RootAssumption DEF Range
  <1>6. /\ head.mode = "clean" /\ head.broker = proc.broker /\ head.sequence = Len(journal)
        /\ head.clean_sequence = Len(journal)
    BY <1>2, Zenon
  <1>7. parse_frames
    BY <1>2, <1>4, <1>5, <1>6, RootAssumption, Zenon DEF parse_frames, Last
  <1>8. PinsCheckpoint
    BY <1>6, Zenon DEF PinsCheckpoint
  <1>9. confirm_normal_restart
    BY <1>1, <1>2, <1>3, <1>6, Zenon DEF confirm_normal_restart
  <1>. QED
    BY <1>7, <1>8, <1>9, Zenon DEF verify_deployment_state

\* A state write that is complete: the broker may work, or is clean.
LEMMA SyncStateProc ==
  ASSUME IInv, SyncState
  PROVE  ProcInv'
  <1>1. /\ Doing("state") /\ proc.stage = 2 /\ proc # None /\ proc.todo # <<>>
        /\ UNCHANGED <<journal, head, state, started, held>>
        /\ synced' = [synced EXCEPT !.state = state]
    BY Zenon DEF SyncState, Doing
  <1>2. synced'.state = state
    BY <1>1, Zenon DEF IInv, TypeOK
  <1>3. /\ Now.purpose = "dirty" => proc'.dirty = TRUE
        /\ Now.purpose = "clean" => proc'.dirty = FALSE
        /\ proc'.broker = proc.broker /\ proc'.quarantined = proc.quarantined
        /\ proc'.birth_pending = proc.birth_pending /\ proc'.gen = proc.gen
        /\ proc'.poisoned = proc.poisoned /\ proc'.anchor = proc.anchor /\ proc'.stopping = proc.stopping
        /\ proc'.todo = Tail(proc.todo) /\ proc'.stage = 0
    BY SyncStateIs, Zenon
  <1>4. /\ proc \in Process /\ ProcInv /\ ~proc.quarantined /\ state = NextState(Now.purpose)
    BY <1>1, WorkNow, Zenon DEF ProcInv
  <1>5. ~Appending /\ ~Appending'
    BY <1>1, <1>3 DEF Appending, Doing
  <1>6. ASSUME ~proc.poisoned PROVE ReplayInv' /\ TodoInv'
    <2>1. ReplayInv /\ StateStep(Now, Tail(proc.todo))
      BY <1>1, <1>4, <1>6, WorkNow, Zenon DEF ProcInv
    <2>2. ReplayInv'
      BY <1>1, <1>3, <1>5, <2>1, ReplayKept, Zenon
    <2>3. CASE Now.purpose = "dirty"
      <3>1. PICK o \in Object : Fresh /\ Tail(proc.todo) = <<Record("BrokerBirth", None), Record("Intent", o), Expose(o)>>
        BY <2>1, <2>3 DEF StateStep, WriteState
      <3>2. state = [mode |-> "dirty", journal_head |-> proc.anchor]
        BY <1>4, <2>3, Zenon DEF NextState
      <3>3. state \in State /\ state.mode = "dirty"
        BY <1>4, <3>2 DEF State, Process
      <3>4. DirtyState'
        BY <1>1, <1>2, <3>3, RootAssumption, Zenon DEF DirtyState
      <3>5. FrameStep(Record("BrokerBirth", None), <<Record("Intent", o), Expose(o)>>)'
        BY <1>3, <2>3, <3>1, <3>4, Zenon DEF FrameStep, Fresh
      <3>. DEFINE t == <<Record("BrokerBirth", None), Record("Intent", o), Expose(o)>>
      <3>6. t # <<>> /\ Head(t) = Record("BrokerBirth", None) /\ Tail(t) = <<Record("Intent", o), Expose(o)>>
        BY Queue
      <3>7. proc'.todo = t
        BY <1>3, <3>1, Zenon
      <3>. HIDE DEF t
      <3>8. TodoInv'
        BY <3>5, <3>6, <3>7, Zenon DEF TodoInv
      <3>. QED
        BY <2>2, <3>8, Zenon
    <2>4. CASE Now.purpose = "clean"
      <3>1. Tail(proc.todo) = <<>> /\ Working /\ proc.stopping /\ Sealed
        BY <2>1, <2>4 DEF StateStep, WriteState
      <3>2. state = [mode |-> "clean", journal_head |-> head]
        BY <1>4, <2>4, Zenon DEF NextState
      <3>3. head \in Head_
        BY <1>4, <3>1, RootAssumption DEF Sealed, Process, Head_, IInv, TypeOK
      <3>4. state # Torn
        BY <3>2, <3>3, RootAssumption DEF State
      <3>5. verify_deployment_state = "live"
        BY <1>1, <1>4, <1>5, <2>1, <3>1, <3>2, <3>4, SealedOpens, Zenon DEF Working
      <3>6. TodoInv'
        BY <1>1, <1>3, <2>4, <3>1, <3>5, SameVerdict, Zenon DEF TodoInv, Working
      <3>. QED
        BY <2>2, <3>6, Zenon
    <2>. QED
      BY <2>1, <2>3, <2>4, Operations, Zenon DEF StateStep
  <1>7. proc.poisoned => proc'.todo = <<>>
    BY <1>1, <1>3, WorkNow, Zenon
  <1>8. Doing("state")' => proc'.stage = 0
    BY <1>3, Zenon
  <1>. QED
    BY <1>1, <1>3, <1>4, <1>6, <1>7, <1>8 DEF ProcInv

\* A state write under way.
LEMMA StateProc ==
  ASSUME IInv, TruncateState \/ WriteStateText
  PROVE  ProcInv'
  <1>1. /\ Doing("state") /\ proc.stage \in 0..1 /\ proc # None /\ proc.todo # <<>>
        /\ UNCHANGED <<journal, head, synced, started, held>>
    BY DEF TruncateState, WriteStateText, Doing
  <1>2. Kept(proc, proc') /\ proc'.todo = proc.todo /\ proc'.stage = proc.stage + 1 /\ proc' # None
    BY NewProcess, Zenon
  <1>3. proc \in Process /\ ProcInv /\ ~proc.quarantined
    BY <1>1, WorkNow, Zenon
  <1>4. Now' = Now /\ Doing("state")'
    BY <1>1, <1>2, Zenon DEF Now, Doing
  <1>5. ~Appending /\ ~Appending'
    BY <1>1, <1>4, Zenon DEF Appending, Doing
  <1>6. /\ proc'.broker = proc.broker /\ proc'.gen = proc.gen /\ proc'.poisoned = proc.poisoned
        /\ proc'.quarantined = proc.quarantined /\ proc'.birth_pending = proc.birth_pending
        /\ proc'.dirty = proc.dirty /\ proc'.stopping = proc.stopping /\ proc'.anchor = proc.anchor
    BY <1>2, Zenon DEF Kept
  <1>7. ASSUME ~proc.poisoned PROVE ReplayInv' /\ TodoInv'
    <2>1. ReplayInv /\ StateStep(Now, Tail(proc.todo))
      BY <1>1, <1>3, <1>7, WorkNow, Zenon DEF ProcInv
    <2>2. ReplayInv'
      BY <1>1, <1>5, <1>6, <2>1, ReplayKept, Zenon
    <2>3. Sealed => Sealed'
      BY <1>1, <1>6, Zenon DEF Sealed
    <2>4. StateStep(Now, Tail(proc.todo))'
      BY <1>2, <1>4, <1>6, <2>1, <2>3, Zenon DEF StateStep, Fresh, Working
    <2>5. TodoInv'
      BY <1>1, <1>2, <1>4, <2>4, Zenon DEF TodoInv, Now
    <2>. QED
      BY <2>2, <2>5, Zenon
  <1>8. proc'.stage \in 0..2
    BY <1>1, <1>2
  <1>9. proc'.stage = 2 => state' = NextState(Now.purpose)'
    <2>1. CASE TruncateState
      BY <1>2, <2>1 DEF TruncateState
    <2>2. CASE WriteStateText
      <3>1. state' = NextState(Now.purpose)
        BY <2>2, Zenon DEF WriteStateText
      <3>2. NextState(Now.purpose)' = NextState(Now.purpose)
        BY <1>1, <1>4, <1>6, Zenon DEF NextState
      <3>. QED
        BY <3>1, <3>2, Zenon
    <2>. QED
      BY <2>1, <2>2, Zenon
  <1>. QED
    BY <1>1, <1>2, <1>3, <1>6, <1>7, <1>8, <1>9, Zenon DEF ProcInv

\* An open: a live broker finds a root that replays and knows nothing of it.
LEMMA OpenProc ==
  ASSUME IInv, NEW b \in Broker, Open(b)
  PROVE  ProcInv'
  <1>1. /\ proc = None /\ b \notin started /\ started' = started \cup {b}
        /\ UNCHANGED <<journal, head, state, held, bootstrap>>
        /\ proc' \in Process /\ proc'.broker = b /\ ~proc'.poisoned /\ proc'.gen = NewGeneration(b)
        /\ proc'.todo = <<>> /\ proc'.stage = 0
        /\ \/ /\ proc'.quarantined /\ proc'.dirty
           \/ /\ ~proc'.quarantined /\ ~proc'.dirty /\ proc'.birth_pending
              /\ verify_deployment_state = "live"
    BY OpenIs, Zenon
  <1>2. held[b] = {}
    BY <1>1, Zenon DEF IInv, HeldInv
  <1>3. NewGeneration(b).broker = b
    BY Zenon DEF NewGeneration
  <1>4. ~Doing("state")' /\ ~Appending'
    BY <1>1, Zenon DEF Doing, Appending
  <1>5. ASSUME ~proc'.quarantined PROVE ReplayInv' /\ TodoInv'
    <2>1. verify_deployment_state = "live" /\ proc'.birth_pending /\ ~proc'.dirty
      BY <1>1, <1>5, Zenon
    <2>2. parse_frames /\ confirm_normal_restart
      BY <2>1, Zenon DEF verify_deployment_state
    <2>3. journal \in Seq(Frame)
      <3>1. journal \in Seq(Frame \cup {Torn}) /\ Torn \notin Range(journal)
        BY <2>2, Zenon DEF parse_frames, IInv, TypeOK
      <3>2. \A i \in 1..Len(journal) : journal[i] \in Frame
        BY <3>1 DEF Range
      <3>. QED
        BY <3>1, <3>2
    <2>4. replay_history(journal).ok /\ (journal = <<>> \/ replay_history(journal).gen.checkpointed)
      BY <2>2, Zenon DEF confirm_normal_restart
    <2>5. b \notin replay_history(journal).brokers
      <3>1. \A i \in DOMAIN journal : journal[i].broker \in started
        BY <2>3, RootAssumption DEF IInv, HeldInv
      <3>2. replay_history(journal).brokers \subseteq started
        BY <2>3, <3>1, ReplayBrokers, Zenon
      <3>. QED
        BY <1>1, <3>2, Zenon
    <2>6. Settled' = journal
      BY <1>1, <1>4, Zenon DEF Settled
    <2>7. ReplayInv'
      BY <1>1, <1>4, <2>1, <2>3, <2>4, <2>5, <2>6, Zenon DEF ReplayInv
    <2>8. TodoInv'
      BY <1>1, <2>1, SameVerdict, Zenon DEF TodoInv, Fresh
    <2>. QED
      BY <2>7, <2>8, Zenon
  <1>. QED
    BY <1>1, <1>2, <1>3, <1>4, <1>5, Zenon DEF ProcInv

\* A broker with nothing to do takes on work, or stops.
LEMMA IdleProc ==
  ASSUME IInv, (\E o \in Object : Admit(o) \/ Release(o)) \/ finish_shutdown
  PROVE  ProcInv'
  <1>1. UNCHANGED <<journal, head, state, synced, started, held>>
    BY Zenon DEF Admit, Release, finish_shutdown
  <1>2. /\ proc \in Process /\ ProcInv /\ proc.todo = <<>> /\ proc.stage = 0 /\ ~proc.stopping
    BY Zenon DEF Admit, Release, finish_shutdown, Idle, IInv, TypeOK, ProcInv
  <1>3. /\ proc'.broker = proc.broker /\ proc'.quarantined = proc.quarantined /\ proc'.dirty = proc.dirty
        /\ proc'.poisoned = proc.poisoned /\ proc'.birth_pending = proc.birth_pending
        /\ proc'.gen = proc.gen /\ proc'.stage = 0
    BY <1>2, AdmitIs, ReleaseIs, StopIs, Zenon DEF Kept
  <1>4. ~Appending /\ ~Appending'
    BY <1>2, <1>3 DEF Appending
  <1>5. DirtyState => DirtyState'
    BY <1>1, Zenon DEF DirtyState
  <1>6. Working => Working'
    BY <1>3, Zenon DEF Working
  <1>7. proc'.quarantined \/ proc'.poisoned => proc'.todo = <<>>
    BY <1>2, <1>3, AdmitIs, ReleaseIs, StopIs, Zenon
  <1>8. ASSUME ~proc.poisoned, ~proc.quarantined PROVE TodoInv'
    <2>1. ASSUME NEW t, NEW x, NEW y, proc'.todo = t, t # <<>>, Head(t) = x, Tail(t) = y,
                 FrameStep(x, y)' \/ StateStep(x, y)'
          PROVE  TodoInv'
      BY <2>1, Zenon DEF TodoInv
    <2>2. ASSUME NEW o \in Object, Admit(o) PROVE TodoInv'
      <3>1. CASE Fresh /\ proc'.todo = <<WriteState("dirty"), Record("BrokerBirth", None), Record("Intent", o),
                                         Expose(o)>>
        <4>1. StateStep(WriteState("dirty"), <<Record("BrokerBirth", None), Record("Intent", o), Expose(o)>>)'
          BY <1>3, <3>1, Zenon DEF StateStep, Fresh
        <4>. DEFINE t == <<WriteState("dirty"), Record("BrokerBirth", None), Record("Intent", o), Expose(o)>>
                    y == <<Record("BrokerBirth", None), Record("Intent", o), Expose(o)>>
        <4>2. t # <<>> /\ Head(t) = WriteState("dirty") /\ Tail(t) = y
          BY Queue
        <4>3. proc'.todo = t /\ StateStep(WriteState("dirty"), y)'
          BY <3>1, <4>1, Zenon
        <4>. HIDE DEF t, y
        <4>. QED
          BY <2>1, <4>2, <4>3, Zenon
      <3>2. CASE Working /\ DirtyState /\ proc'.todo = <<Record("Intent", o), Expose(o)>>
        <4>1. FrameStep(Record("Intent", o), <<Expose(o)>>)'
          BY <1>5, <1>6, <3>2, Zenon DEF FrameStep
        <4>. DEFINE t == <<Record("Intent", o), Expose(o)>>
        <4>2. t # <<>> /\ Head(t) = Record("Intent", o) /\ Tail(t) = <<Expose(o)>>
          BY Queue, Zenon
        <4>3. proc'.todo = t
          BY <3>2, Zenon
        <4>. HIDE DEF t
        <4>. QED
          BY <2>1, <4>1, <4>2, <4>3, Zenon
      <3>. QED
        BY <2>2, <3>1, <3>2, AdmitIs, Zenon
    <2>3. ASSUME NEW o \in Object, Release(o) PROVE TodoInv'
      <3>1. /\ Working /\ DirtyState /\ proc'.todo = <<Record("CloseIntent", o), Record("CloseDone", o)>>
            /\ o \notin held[proc.broker]
        BY <2>3, ReleaseIs, Zenon
      <3>2. FrameStep(Record("CloseIntent", o), <<Record("CloseDone", o)>>)'
        BY <1>1, <1>3, <1>5, <1>6, <3>1, Zenon DEF FrameStep
      <3>. DEFINE t == <<Record("CloseIntent", o), Record("CloseDone", o)>>
      <3>3. t # <<>> /\ Head(t) = Record("CloseIntent", o) /\ Tail(t) = <<Record("CloseDone", o)>>
        BY Queue, Zenon
      <3>4. proc'.todo = t
        BY <3>1, Zenon
      <3>. HIDE DEF t
      <3>. QED
        BY <2>1, <3>2, <3>3, <3>4, Zenon
    <2>4. CASE finish_shutdown
      <3>1. proc'.stopping = TRUE
        BY <2>4, StopIs, Zenon
      <3>2. CASE proc.birth_pending
        <4>1. proc'.todo = <<>>
          BY <2>4, <3>2, StopIs, Zenon
        <4>2. Fresh /\ verify_deployment_state = "live"
          BY <1>2, <1>8, <3>2, Zenon DEF ProcInv, TodoInv, Working
        <4>. QED
          BY <1>1, <1>3, <4>1, <4>2, SameVerdict, Zenon DEF TodoInv, Fresh
      <3>3. CASE ~proc.birth_pending
        <4>1. Working /\ DirtyState
          BY <1>2, <1>8, <3>3, Zenon DEF ProcInv, TodoInv, Fresh
        <4>. DEFINE t == <<Record("BrokerDrained", None), Record("CleanCheckpoint", None), WriteState("clean")>>
                    y == <<Record("CleanCheckpoint", None), WriteState("clean")>>
        <4>2. proc'.todo = t
          BY <1>8, <2>4, <3>3, StopIs, Zenon
        <4>3. FrameStep(Record("BrokerDrained", None), y)'
          BY <1>5, <1>6, <3>1, <4>1, Zenon DEF FrameStep
        <4>4. t # <<>> /\ Head(t) = Record("BrokerDrained", None) /\ Tail(t) = y
          BY Queue
        <4>. HIDE DEF t, y
        <4>. QED
          BY <2>1, <4>2, <4>3, <4>4, Zenon
      <3>. QED
        BY <3>2, <3>3, Zenon
    <2>. QED
      BY <2>2, <2>3, <2>4, Zenon
  <1>9. ~proc.poisoned /\ ~proc.quarantined => ReplayInv'
    BY <1>1, <1>2, <1>3, <1>4, ReplayKept, Zenon DEF ProcInv
  <1>10. /\ proc'.broker \in started' /\ proc'.gen.broker = proc'.broker
         /\ \A o \in held'[proc'.broker] : proc'.gen.obj[o] = "open"
    BY <1>1, <1>2, <1>3, Zenon DEF ProcInv
  <1>11. proc'.stage = 0 /\ proc'.stage \in 0..2 /\ proc'.stage # 2
    BY <1>3
  <1>12. proc'.quarantined => proc'.dirty /\ proc'.gen = NewGeneration(proc'.broker)
    BY <1>2, <1>3, Zenon DEF ProcInv
  <1>13. ~proc'.poisoned /\ ~proc'.quarantined => ReplayInv' /\ TodoInv'
    BY <1>3, <1>8, <1>9, Zenon
  <1>. QED
    BY <1>7, <1>10, <1>11, <1>12, <1>13, Zenon DEF ProcInv

\* An effect goes out: the broker remembers the object as open.
LEMMA ExposeProc ==
  ASSUME IInv, Exposes
  PROVE  ProcInv'
  <1>1. /\ Doing("expose") /\ proc # None /\ proc.todo # <<>> /\ proc' = Finished
        /\ held' = [held EXCEPT ![proc.broker] = @ \cup {Now.obj}]
        /\ UNCHANGED <<journal, head, state, synced, started>>
    BY Zenon DEF Exposes, Doing
  <1>2. /\ proc \in Process /\ ProcInv /\ ~proc.quarantined /\ ~proc.poisoned
        /\ ExposeStep(Now, Tail(proc.todo))
    BY <1>1, WorkNow, Zenon
  <1>3. PICK o \in Object : Now = Expose(o) /\ Tail(proc.todo) = <<>> /\ Working /\ DirtyState
                           /\ proc.gen.obj[o] = "open"
    BY <1>2, Zenon DEF ExposeStep
  <1>4. /\ proc'.broker = proc.broker /\ proc'.gen = proc.gen /\ proc'.poisoned = proc.poisoned
        /\ proc'.quarantined = proc.quarantined /\ proc'.birth_pending = proc.birth_pending
        /\ proc'.dirty = proc.dirty /\ proc'.todo = <<>> /\ proc'.stage = 0
    BY <1>1, <1>2, <1>3, FinishedIs, Zenon DEF Kept
  <1>5. held'[proc.broker] = held[proc.broker] \cup {o}
    BY <1>1, <1>2, <1>3, Operations, Zenon DEF IInv, TypeOK, Process
  <1>6. ~Appending /\ ~Appending' /\ ~Doing("state")'
    BY <1>1, <1>4, Zenon DEF Appending, Doing
  <1>7. ReplayInv'
    BY <1>1, <1>2, <1>4, <1>6, ReplayKept, Zenon DEF ProcInv
  <1>8. TodoInv'
    BY <1>1, <1>3, <1>4, Zenon DEF TodoInv, Working, DirtyState
  <1>. QED
    BY <1>1, <1>2, <1>3, <1>4, <1>5, <1>6, <1>7, <1>8, Zenon DEF ProcInv

\* A client lets go of an object.
LEMMA LetGoProc ==
  ASSUME IInv, proc # None, NEW b \in Broker, NEW o \in Object, LetGo(b, o)
  PROVE  ProcInv'
  <1>1. /\ held' = [held EXCEPT ![b] = @ \ {o}]
        /\ UNCHANGED <<journal, head, state, synced, proc, started>>
    BY Zenon DEF LetGo
  <1>2. ProcInv /\ held'[proc.broker] \subseteq held[proc.broker]
    BY <1>1, Zenon DEF IInv, TypeOK, Process
  <1>3. Appending' = Appending /\ Now' = Now /\ FrameNow' = FrameNow /\ Settled' = Settled /\ NextHead' = NextHead
    BY <1>1, Zenon DEF Appending, Doing, Now, FrameNow, Settled, NextHead
  <1>4. ReplayInv => ReplayInv'
    BY <1>1, <1>3, Zenon DEF ReplayInv
  <1>5. (DirtyState => DirtyState') /\ (Working => Working') /\ (Fresh => Fresh') /\ (Sealed => Sealed')
    BY <1>1, Zenon DEF DirtyState, Working, Fresh, Sealed
  <1>6. ASSUME NEW now, NEW then
        PROVE  /\ FrameStep(now, then) => FrameStep(now, then)'
               /\ ExposeStep(now, then) => ExposeStep(now, then)'
               /\ StateStep(now, then) => StateStep(now, then)'
    BY <1>1, <1>2, <1>5, Zenon DEF FrameStep, ExposeStep, StateStep
  <1>7. TodoInv => TodoInv'
    BY <1>1, <1>5, <1>6, SameVerdict, Zenon DEF TodoInv
  <1>8. Doing("state")' => /\ proc'.stage \in 0..2
                           /\ proc'.stage = 2 => state' = NextState(Now.purpose)'
    BY <1>1, <1>2, Zenon DEF ProcInv, Doing, Now, NextState
  <1>9. /\ proc'.broker \in started' /\ proc'.gen.broker = proc'.broker
        /\ \A x \in held'[proc'.broker] : proc'.gen.obj[x] = "open"
        /\ proc'.todo = <<>> => proc'.stage = 0
    BY <1>1, <1>2, Zenon DEF ProcInv
  <1>10. /\ proc'.quarantined => /\ proc'.todo = <<>> /\ proc'.dirty
                                 /\ proc'.gen = NewGeneration(proc'.broker)
         /\ proc'.poisoned => proc'.todo \in {<<>>, <<WriteState("retry")>>, <<WriteState("rollback")>>}
    BY <1>1, <1>2, Zenon DEF ProcInv
  <1>11. ~proc'.quarantined /\ ~proc'.poisoned => ReplayInv' /\ TodoInv'
    BY <1>1, <1>2, <1>4, <1>7, Zenon DEF ProcInv
  <1>. QED
    BY <1>8, <1>9, <1>10, <1>11, Zenon DEF ProcInv

\* A failure leaves a poisoned broker, or a broker whose checkpoint was refused.
LEMMA FailProc ==
  ASSUME IInv, FrameFails \/ StateFails
  PROVE  ProcInv'
  <1>1. /\ proc # None /\ proc.todo # <<>> /\ UNCHANGED <<journal, head, state, synced, started, held>>
    BY Zenon DEF FrameFails, StateFails, Doing
  <1>2. proc \in Process /\ ProcInv /\ ~proc.quarantined
    BY <1>1, WorkNow, Zenon
  <1>3. proc'.broker = proc.broker /\ proc'.quarantined = proc.quarantined /\ proc'.gen = proc.gen /\ proc'.stage = 0
    BY FrameFailsIs, StateFailsIs, Zenon
  <1>4. /\ proc'.broker \in started' /\ proc'.gen.broker = proc'.broker /\ ~proc'.quarantined
        /\ \A o \in held'[proc'.broker] : proc'.gen.obj[o] = "open"
    BY <1>1, <1>2, <1>3, Zenon DEF ProcInv
  <1>5. CASE StateFails
    <2>1. /\ proc'.poisoned = TRUE
          /\ proc'.todo \in {<<>>, <<WriteState("retry")>>, <<WriteState("rollback")>>}
      BY <1>5, StateFailsIs, Zenon
    <2>2. proc'.stage \in 0..2 /\ proc'.stage # 2
      BY <1>3
    <2>. QED
      BY <1>3, <1>4, <2>1, <2>2, Zenon DEF ProcInv
  <1>6. CASE FrameFails /\ proc'.poisoned
    <2>1. proc'.todo = <<>> /\ proc'.stage \in 0..2 /\ proc'.stage # 2
      BY <1>3, <1>6, FrameFailsIs
    <2>. QED
      BY <1>3, <1>4, <1>6, <2>1, Zenon DEF ProcInv
  <1>7. CASE FrameFails /\ ~proc'.poisoned
    <2>1. proc'.todo = <<>> /\ Kept(proc, proc') /\ Now.kind = "CleanCheckpoint" /\ proc.stage = 0
      BY <1>7, FrameFailsIs, Zenon
    <2>2. Doing("frame")
      BY <1>7, Zenon DEF FrameFails
    <2>3. FrameStep(Now, Tail(proc.todo)) /\ ReplayInv /\ ~Appending
      BY <2>1, <2>2, AppendStage, Zenon
    <2>4. Working /\ DirtyState
      <3>1. ASSUME NEW now, NEW then, FrameStep(now, then), now.kind = "CleanCheckpoint"
            PROVE  Working /\ DirtyState
        BY <3>1 DEF FrameStep, Record
      <3>. QED
        BY <2>1, <2>3, <3>1, Zenon
    <2>5. ~Appending' /\ ~Doing("state")'
      BY <2>1, Zenon DEF Appending, Doing
    <2>6. ReplayInv'
      BY <1>1, <2>1, <2>3, <2>5, ReplayKept, Zenon DEF Kept
    <2>7. TodoInv'
      BY <1>1, <2>1, <2>4, Zenon DEF TodoInv, Working, DirtyState, Kept
    <2>. QED
      BY <1>1, <1>2, <1>3, <1>7, <2>1, <2>5, <2>6, <2>7, Zenon DEF ProcInv
  <1>. QED
    BY <1>5, <1>6, <1>7, Zenon

\* Every step keeps what holds of the process.
LEMMA NextProc == IInv /\ Next => (proc # None => ProcInv)'
  <1>. SUFFICES ASSUME IInv, Next, proc' # None PROVE ProcInv'
    OBVIOUS
  <1>1. ~Boots /\ ~Ends
    BY BootStep, Zenon DEF Ends
  <1>2. ASSUME NEW b \in Broker, NEW o \in Object, LetGo(b, o) PROVE ProcInv'
    <2>1. proc # None
      BY <1>2, Zenon DEF LetGo
    <2>. QED
      BY <1>2, <2>1, LetGoProc, Zenon
  <1>3. ASSUME NEW b \in Broker, Open(b) PROVE ProcInv'
    BY <1>3, OpenProc, Zenon
  <1>4. CASE (\E o \in Object : Admit(o) \/ Release(o)) \/ finish_shutdown
    BY <1>4, IdleProc, Zenon
  <1>5. CASE Appends
    BY <1>5, AppendProc, Zenon
  <1>6. CASE SyncHead
    BY <1>6, SyncHeadProc, Zenon
  <1>7. CASE Exposes
    BY <1>7, ExposeProc, Zenon
  <1>8. CASE TruncateState \/ WriteStateText
    BY <1>8, StateProc, Zenon
  <1>9. CASE SyncState
    BY <1>9, SyncStateProc, Zenon
  <1>10. CASE FrameFails \/ StateFails
    BY <1>10, FailProc, Zenon
  <1>. QED
    BY <1>1, <1>2, <1>3, <1>4, <1>5, <1>6, <1>7, <1>8, <1>9, <1>10, Zenon DEF Next, Boots, Appends

-----------------------------------------------------------------------------
\* The invariant holds before the initializer has begun.
LEMMA InitIInv == Init => IInv
  <1>. SUFFICES ASSUME Init PROVE IInv
    OBVIOUS
  <1>. USE DEF Init
  <1>1. bootstrap.stage = "None" /\ bootstrap.live
    OBVIOUS
  <1>2. "None" \in Range(BootstrapStage)
    BY StageNames, Zenon DEF Stages, Early
  <1>3. TypeOK
    <2>1. journal \in Seq(Frame \cup {Torn}) /\ Len(journal) <= MaxFrames
      BY RootAssumption
    <2>2. bootstrap \in [stage : Range(BootstrapStage), live : BOOLEAN]
      BY <1>2, Zenon
    <2>3. synced \in [journal : Seq(Frame \cup {Torn}) \cup {Torn}, head : Head_ \cup {Torn},
                      state : State \cup {Torn}]
      OBVIOUS
    <2>. QED
      BY <2>1, <2>2, <2>3, Zenon DEF TypeOK
  <1>4. BootInv
    BY <1>1, Zenon DEF BootInv, Past, Early, Published
  <1>5. HeldInv /\ EffectsDurable /\ NoFalseClean
    BY DEF HeldInv, EffectsDurable, NoFalseClean
  <1>. QED
    BY <1>3, <1>4, <1>5, Zenon DEF IInv

\* A step that changes nothing of the root keeps what holds of it.
LEMMA StutterIInv == IInv /\ UNCHANGED vars => IInv'
  <1>. SUFFICES ASSUME IInv, UNCHANGED vars PROVE IInv'
    OBVIOUS
  <1>1. UNCHANGED <<journal, head, state, synced, bootstrap, proc, started, held>>
    BY Zenon DEF vars, rest
  <1>2. TypeOK' /\ BootInv' /\ HeldInv' /\ EffectsDurable' /\ NoFalseClean'
    <2>1. TypeOK'
      BY <1>1, Zenon DEF IInv, TypeOK
    <2>2. BootInv'
      BY <1>1, Zenon DEF IInv, BootInv, Past, Published
    <2>3. HeldInv' /\ EffectsDurable' /\ NoFalseClean'
      BY <1>1, Zenon DEF IInv, HeldInv, EffectsDurable, NoFalseClean
    <2>. QED
      BY <2>1, <2>2, <2>3, Zenon
  <1>3. ASSUME proc # None PROVE ProcInv'
    <2>1. ProcInv
      BY <1>3, Zenon DEF IInv
    <2>2. Appending' = Appending /\ Now' = Now /\ FrameNow' = FrameNow /\ Settled' = Settled /\ NextHead' = NextHead
      BY <1>1, Zenon DEF Appending, Doing, Now, FrameNow, Settled, NextHead
    <2>3. ReplayInv => ReplayInv'
      BY <1>1, <2>2, Zenon DEF ReplayInv
    <2>4. (DirtyState => DirtyState') /\ (Working => Working') /\ (Fresh => Fresh') /\ (Sealed => Sealed')
      BY <1>1, Zenon DEF DirtyState, Working, Fresh, Sealed
    <2>5. ASSUME NEW now, NEW then
          PROVE  /\ FrameStep(now, then) => FrameStep(now, then)'
                 /\ ExposeStep(now, then) => ExposeStep(now, then)'
                 /\ StateStep(now, then) => StateStep(now, then)'
      BY <1>1, <2>4, Zenon DEF FrameStep, ExposeStep, StateStep
    <2>6. TodoInv => TodoInv'
      BY <1>1, <2>4, <2>5, SameVerdict, Zenon DEF TodoInv
    <2>7. Doing("state")' => /\ proc'.stage \in 0..2
                             /\ proc'.stage = 2 => state' = NextState(Now.purpose)'
      BY <1>1, <2>1, Zenon DEF ProcInv, Doing, Now, NextState
    <2>8. /\ proc'.broker \in started' /\ proc'.gen.broker = proc'.broker
          /\ \A x \in held'[proc'.broker] : proc'.gen.obj[x] = "open"
          /\ proc'.todo = <<>> => proc'.stage = 0
      BY <1>1, <2>1, Zenon DEF ProcInv
    <2>9. /\ proc'.quarantined => /\ proc'.todo = <<>> /\ proc'.dirty
                                  /\ proc'.gen = NewGeneration(proc'.broker)
          /\ proc'.poisoned => proc'.todo \in {<<>>, <<WriteState("retry")>>, <<WriteState("rollback")>>}
      BY <1>1, <2>1, Zenon DEF ProcInv
    <2>10. ~proc'.quarantined /\ ~proc'.poisoned => ReplayInv' /\ TodoInv'
      BY <1>1, <2>1, <2>3, <2>6, Zenon DEF ProcInv
    <2>. QED
      BY <2>7, <2>8, <2>9, <2>10, Zenon DEF ProcInv
  <1>. QED
    BY <1>1, <1>2, <1>3, Zenon DEF IInv

\* The invariant of the root holds throughout.
THEOREM Invariance == Spec => []IInv
  <1>1. IInv /\ Next => IInv'
    BY NextType, NextBoot, NextHeld, NextDurable, NextClean, NextProc, Zenon DEF IInv
  <1>. QED
    BY <1>1, InitIInv, StutterIInv, PTL DEF Spec

\* A broker that may admit work has no predecessor whose clients still have
\* memory mapped, for any number of brokers, crashes and failed writes
\* (verify_deployment_state, confirm_normal_restart).
THEOREM FalseCleanNever == Spec => []NoFalseClean
  <1>1. IInv => NoFalseClean
    BY Zenon DEF IInv
  <1>. QED
    BY <1>1, Invariance, PTL

\* Whatever a client has mapped is announced by an intent on the disk, under a
\* state on the disk that is not clean (append_dirty, before_admission).
THEOREM Durable == Spec => []EffectsDurable
  <1>1. IInv => EffectsDurable
    BY Zenon DEF IInv
  <1>. QED
    BY <1>1, Invariance, PTL

\* A root left clean opens live and nobody has memory of it mapped; so does a
\* root nobody has used, from files that are on the disk
\* (clean_after_semantic_drain, initialize_at_mode_inner).
THEOREM CleanOpens == Spec => []CleanRootOpens
  <1>1. IInv => CleanRootOpens
    <2>. SUFFICES ASSUME IInv PROVE CleanRootOpens
      OBVIOUS
    <2>1. ASSUME proc # None, proc.todo = <<>>, ~proc.dirty, ~proc.poisoned
          PROVE  verify_deployment_state = "live" /\ held[proc.broker] = {}
      <3>1. ~proc.quarantined /\ TodoInv
        BY <2>1, Zenon DEF IInv, ProcInv
      <3>2. verify_deployment_state = "live"
        BY <2>1, <3>1, Zenon DEF TodoInv, Working
      <3>3. state # Torn /\ state.mode = "clean"
        BY <3>2, Zenon DEF verify_deployment_state
      <3>4. proc.broker \in Broker
        BY <2>1, Zenon DEF IInv, TypeOK, Process
      <3>. QED
        BY <3>2, <3>3, <3>4, Zenon DEF IInv, HeldInv
    <2>2. ASSUME Published, started = {}
          PROVE  /\ verify_deployment_state = "live"
                 /\ synced = [journal |-> journal, head |-> head, state |-> state]
      <3>1. bootstrap.stage \in {"Published", "Returned"}
        BY <2>2, Zenon DEF Published
      <3>2. /\ journal = <<>> /\ state = GenesisState /\ synced.state = GenesisState /\ head = genesis
            /\ synced.journal = <<>> /\ synced.head = genesis
        BY <2>2, <3>1, Zenon DEF IInv, BootInv, Past, Early
      <3>3. synced = [journal |-> journal, head |-> head, state |-> state]
        BY <3>2, Zenon DEF IInv, TypeOK
      <3>4. genesis \in Head_ /\ GenesisState \in State
        BY RootAssumption DEF genesis, GenesisState, Head_, State
      <3>5. Range(journal) = {} /\ Len(journal) = 0
        BY <3>2 DEF Range
      <3>6. parse_frames
        <4>1. head # Torn /\ head.sequence = 0 /\ head.clean_sequence = 0
          BY <3>2, <3>4, RootAssumption, Zenon DEF genesis
        <4>. QED
          BY <3>5, <4>1, Zenon DEF parse_frames
      <3>7. PinsCheckpoint
        BY <3>2, Zenon DEF PinsCheckpoint, GenesisState, genesis
      <3>8. confirm_normal_restart
        BY <3>2, ReplayEmpty DEF confirm_normal_restart, NoHistory, NewGeneration, genesis
      <3>9. state # Torn /\ state.mode = "clean" /\ head = state.journal_head
        BY <3>2, <3>4, RootAssumption, Zenon DEF GenesisState
      <3>. QED
        BY <3>3, <3>6, <3>7, <3>8, <3>9, Zenon DEF verify_deployment_state
    <2>. QED
      BY <2>1, <2>2, Zenon DEF CleanRootOpens
  <1>. QED
    BY <1>1, Invariance, PTL
=============================================================================
