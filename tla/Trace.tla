------------------------------- MODULE Trace -------------------------------
(***************************************************************************)
(* The trace collector of trace.rs, driven by the requests of trace_api.rs.*)
(* Threads of the daemon record events into one bounded buffer; handlers   *)
(* start, stop, clear and flush it.  Whether tracing is on, which          *)
(* categories are traced and how many events were dropped are atomics that *)
(* are read and written without the mutex of the rest.  A flush copies the *)
(* buffer under the mutex and writes the artifacts without it.             *)
(*                                                                         *)
(* An event is its category.  The contents of an artifact are the events   *)
(* and the count that it was rendered from.  A run stands for its id and   *)
(* its output directory; a start may bring the ones of an earlier run.     *)
(* The two loads of category_enabled are one step, and a poisoned mutex is *)
(* left out: nothing panics while holding it.                              *)
(***************************************************************************)
EXTENDS Naturals, FiniteSets, Sequences, SequencesExt

CONSTANTS
    Recorder,   \* threads that record
    Handler,    \* threads that serve trace requests
    Run,        \* run ids
    Config,     \* configurations a start may bring
    Event,      \* events that may be recorded
    Records,    \* bound: events that one recorder begins
    Calls,      \* bound: requests that one handler serves
    None

Artifacts == <<"trace_events.json", "trace_summary.json", "trace_summary.csv",
               "transfer_summary.csv", "summary.md">>

ASSUME TraceAssumption ==
    /\ \A c \in Config : c.run \in Run /\ c.max_events \in Nat \ {0}
    /\ Records \in Nat /\ Calls \in Nat /\ None \notin Run \cup Config

VARIABLES
    enabled, category_mask, dropped_events,    \* atomics
    config, events, flush_count, last_flush_error,   \* TraceState, under the mutex
    rec,        \* what each recorder is doing, and how often it has begun
    req,        \* what each handler is doing, and how many requests it has served
    disk,       \* the artifacts of each run
    given,      \* history: events that were accepted in the current run
    past        \* history: what the flush of each handler has met, and the events given before it

atomics == <<enabled, category_mask, dropped_events>>
state == <<config, events, flush_count, last_flush_error>>
vars == <<atomics, state, rec, req, disk, given, past>>

Init ==
    /\ enabled = FALSE /\ category_mask = {} /\ dropped_events = 0
    /\ config = None /\ events = <<>> /\ flush_count = 0 /\ last_flush_error = FALSE
    /\ rec = [r \in Recorder |-> [at |-> "idle", begun |-> 0]]
    /\ req = [h \in Handler |-> [at |-> "idle", served |-> 0]]
    /\ disk = [r \in Run |-> [i \in 1..Len(Artifacts) |-> None]]
    /\ given = 0
    /\ past = [h \in Handler |-> [met |-> {}, owed |-> 0]]

-----------------------------------------------------------------------------
\* Recording.

category_enabled(e) == enabled /\ e.category \in category_mask

\* The mutex is held from Lock to Append only; handlers use it in single steps.
Unlocked == \A r \in Recorder : rec[r].at # "accepted"

Go(r, at, e) == rec' = [rec EXCEPT ![r] = [at |-> at, begun |-> @.begun, event |-> e]]

\* span, record_duration_us, record_instant.
Begin(r, e) ==
    /\ rec[r].at = "idle" /\ rec[r].begun < Records
    /\ category_enabled(e)
    /\ rec' = [rec EXCEPT ![r] = [at |-> "open", begun |-> @.begun + 1, event |-> e]]
    /\ UNCHANGED <<atomics, state, req, disk, given>>

\* record_event, up to the mutex; a span gets here when it is dropped.
Check(r) ==
    /\ rec[r].at = "open"
    /\ Go(r, IF category_enabled(rec[r].event) THEN "waiting" ELSE "idle", rec[r].event)
    /\ UNCHANGED <<atomics, state, req, disk, given>>

\* A mutant: what was enabled before the mutex is taken for enabled after it.
LockUnchecked(r) ==
    /\ rec[r].at = "waiting" /\ Unlocked
    /\ Go(r, "accepted", rec[r].event)
    /\ given' = given + 1
    /\ UNCHANGED <<atomics, state, req, disk>>

\* The second check, with the mutex held.
Lock(r) ==
    /\ rec[r].at = "waiting" /\ Unlocked
    /\ Go(r, IF category_enabled(rec[r].event) THEN "accepted" ELSE "idle", rec[r].event)
    /\ given' = IF category_enabled(rec[r].event) THEN given + 1 ELSE given
    /\ UNCHANGED <<atomics, state, req, disk>>

HasRoom == config # None /\ Len(events) < config.max_events

\* The rest of record_event.  An event whose trace was cleared in the meantime, or
\* that finds the buffer full, is counted as dropped.
Append_(r) ==
    /\ rec[r].at = "accepted"
    /\ Go(r, "idle", rec[r].event)
    /\ \/ HasRoom /\ events' = Append(events, rec[r].event) /\ UNCHANGED dropped_events
       \/ ~HasRoom /\ dropped_events' = dropped_events + 1 /\ UNCHANGED events
    /\ UNCHANGED <<enabled, category_mask, config, flush_count, last_flush_error, req, disk, given>>

-----------------------------------------------------------------------------
\* Requests, served in steps.
Accept(h) == req[h].at = "idle" /\ req[h].served < Calls
Step(h, from, to) == req[h].at = from /\ req' = [req EXCEPT ![h].at = to]
Return(h) == req' = [req EXCEPT ![h] = [at |-> "idle", served |-> @.served]]
Serving(h, fields) ==
    req' = [req EXCEPT ![h] = fields @@ [served |-> @.served + 1]]

\* start.  A configuration without categories is refused before anything changes.
Start(h, c) ==
    /\ Accept(h) /\ c.categories # {}
    /\ Serving(h, [at |-> "start_dropped", config |-> c])
    /\ enabled' = FALSE
    /\ UNCHANGED <<category_mask, dropped_events, state, rec, disk, given>>

StartDropped(h) ==
    /\ Step(h, "start_dropped", "start_mask") /\ dropped_events' = 0
    /\ UNCHANGED <<enabled, category_mask, state, rec, disk, given>>

StartMask(h) ==
    /\ Step(h, "start_mask", "start_state") /\ category_mask' = req[h].config.categories
    /\ UNCHANGED <<enabled, dropped_events, state, rec, disk, given>>

StartState(h) ==
    /\ req[h].at = "start_state" /\ Unlocked
    /\ events' = <<>> /\ flush_count' = 0 /\ last_flush_error' = FALSE /\ config' = req[h].config
    /\ enabled' = TRUE
    /\ given' = 0
    /\ Return(h)
    /\ UNCHANGED <<category_mask, dropped_events, rec, disk>>

\* stop.  Its first step, then the mutex for the time of the stop.
Stop(h, flush) ==
    /\ Accept(h) /\ enabled' = FALSE
    /\ Serving(h, [at |-> "stop_state", flush |-> flush])
    /\ UNCHANGED <<category_mask, dropped_events, state, rec, disk, given>>

StopState(h) ==
    /\ req[h].at = "stop_state" /\ Unlocked
    /\ IF req[h].flush THEN req' = [req EXCEPT ![h].at = "flush"] ELSE Return(h)
    /\ UNCHANGED <<atomics, state, rec, disk, given>>

\* clear.
Clear(h) ==
    /\ Accept(h) /\ Serving(h, [at |-> "clear_mask"])
    /\ enabled' = FALSE
    /\ UNCHANGED <<category_mask, dropped_events, state, rec, disk, given>>

ClearMask(h) ==
    /\ Step(h, "clear_mask", "clear_dropped") /\ category_mask' = {}
    /\ UNCHANGED <<enabled, dropped_events, state, rec, disk, given>>

ClearDropped(h) ==
    /\ Step(h, "clear_dropped", "clear_state") /\ dropped_events' = 0
    /\ UNCHANGED <<enabled, category_mask, state, rec, disk, given>>

ClearState(h) ==
    /\ req[h].at = "clear_state" /\ Unlocked
    /\ events' = <<>> /\ last_flush_error' = FALSE /\ config' = None
    /\ given' = 0
    /\ Return(h)
    /\ UNCHANGED <<atomics, flush_count, rec, disk>>

\* flush, and export_trace.
Flush(h) ==
    /\ Accept(h) /\ Serving(h, [at |-> "flush"])
    /\ UNCHANGED <<atomics, state, rec, disk, given>>

\* A mutant: the events are moved out of the buffer.
SnapshotDraining(h) ==
    /\ req[h].at = "flush" /\ Unlocked
    /\ IF config = None THEN Return(h) /\ UNCHANGED events
       ELSE /\ req' = [req EXCEPT ![h] = [at |-> "count", served |-> @.served,
                                          config |-> config, events |-> events]]
            /\ events' = <<>>
    /\ UNCHANGED <<atomics, config, flush_count, last_flush_error, rec, disk, given>>

Snapshot(h) ==
    /\ req[h].at = "flush" /\ Unlocked
    /\ IF config = None THEN Return(h)
       ELSE req' = [req EXCEPT ![h] = [at |-> "count", served |-> @.served,
                                       config |-> config, events |-> events]]
    /\ UNCHANGED <<atomics, state, rec, disk, given>>

\* The number of dropped events is read after the mutex was given back.
CountDropped(h) ==
    /\ req[h].at = "count"
    /\ req' = [req EXCEPT ![h] = [at |-> "write", served |-> @.served, config |-> @.config,
                                  events |-> @.events,
                                  dropped |-> dropped_events, file |-> 1]]
    /\ UNCHANGED <<atomics, state, rec, disk, given>>

\* What an artifact is rendered from (chrome_trace_json and the summaries).
Rendered(q) == [events |-> q.events, dropped |-> q.dropped]

\* atomic_write of the next artifact: a failure publishes nothing.
WriteArtifact(h) ==
    LET q == req[h]
    IN /\ q.at = "write" /\ q.file <= Len(Artifacts)
       /\ disk' = [disk EXCEPT ![q.config.run][q.file] =
                      [of |-> Rendered(q), alone |-> "flush" \notin past[h].met]]
       /\ req' = [req EXCEPT ![h].file = @ + 1]
       /\ UNCHANGED <<atomics, state, rec, given>>

WriteFails(h) ==
    /\ req[h].at = "write" /\ req[h].file <= Len(Artifacts)
    /\ req' = [req EXCEPT ![h].at = "failed"]
    /\ UNCHANGED <<atomics, state, rec, disk, given>>

\* A mutant: whatever run is configured now counts as flushed.
AnyRun(h) == config # None

SameRun(h) == config # None /\ config.run = req[h].config.run

EndFlush(h) ==
    /\ \/ req[h].at = "write" /\ req[h].file > Len(Artifacts)
       \/ req[h].at = "failed"
    /\ Unlocked
    /\ flush_count' = IF SameRun(h) /\ req[h].at = "write" THEN flush_count + 1 ELSE flush_count
    /\ last_flush_error' = IF SameRun(h) THEN req[h].at = "failed" ELSE last_flush_error
    /\ Return(h)
    /\ UNCHANGED <<atomics, config, events, rec, disk, given>>

-----------------------------------------------------------------------------
\* History: the requests that were under way at the same time as a flush.
Flushes(q) == q.at \in {"flush", "count", "write", "failed"} \/ (q.at = "stop_state" /\ q.flush)
Resets(q) == q.at \in {"start_dropped", "start_mask", "start_state",
                       "clear_mask", "clear_dropped", "clear_state"}
Writes(q, run) == q.at \in {"count", "write", "failed"} /\ q.config.run = run
Meets(h, q) ==
    LET others == {q[k] : k \in Handler \ {h}}
    IN {"reset" : o \in {x \in others : Resets(x)}} \cup
       {"flush" : o \in {x \in others : \E run \in Run : Writes(x, run) /\ Writes(q[h], run)}}

Remember ==
    past' = [h \in Handler |->
                [met |-> IF Flushes(req'[h]) THEN past[h].met \cup Meets(h, req') ELSE {},
                 owed |-> IF req'[h].at = "idle" THEN 0
                          ELSE IF req[h].at = "flush" THEN given ELSE past[h].owed]]

Work ==
    \/ \E r \in Recorder :
         \/ \E e \in Event : Begin(r, e)
         \/ Check(r) \/ Lock(r) \/ Append_(r)
    \/ \E h \in Handler :
         \/ \E c \in Config : Start(h, c)
         \/ StartDropped(h) \/ StartMask(h) \/ StartState(h)
         \/ \E flush \in BOOLEAN : Stop(h, flush)
         \/ StopState(h)
         \/ Clear(h) \/ ClearMask(h) \/ ClearDropped(h) \/ ClearState(h)
         \/ Flush(h) \/ Snapshot(h) \/ CountDropped(h)
         \/ WriteArtifact(h) \/ WriteFails(h) \/ EndFlush(h)

Next == Work /\ Remember

Spec == Init /\ [][Next]_vars

-----------------------------------------------------------------------------
\* Every variable has its type.
TypeOK ==
    /\ enabled \in BOOLEAN /\ last_flush_error \in BOOLEAN
    /\ dropped_events \in Nat /\ flush_count \in Nat /\ given \in Nat
    /\ config \in Config \cup {None} /\ events \in Seq(Event)
    /\ \A r \in Recorder : rec[r].at \in {"idle", "open", "waiting", "accepted"}

\* The buffer keeps the limit of the run it belongs to, whatever recorders and restarts
\* with another limit interleave, and between restarts every event that record_event
\* accepted is in it or counted as dropped: no flush, stop or late recorder loses one
\* silently.
NothingLost ==
    /\ Len(events) <= IF config = None THEN 0 ELSE config.max_events
    /\ (\A h \in Handler : req[h].at \notin {"start_mask", "start_state", "clear_state"}) =>
          Len(events) + dropped_events + Cardinality({r \in Recorder : rec[r].at = "accepted"}) >= given

\* While a handler flushes a trace that is off and nobody else starts, stops or clears
\* it, no event that finishes late enters the buffer: the flush of a stop writes the
\* whole run.
StoppedStaysStopped ==
    [][\A h \in Handler :
         /\ req[h].at \in {"flush", "count", "write", "failed"} /\ ~enabled /\ ~enabled'
         /\ \A k \in Handler \ {h} : req[k].at = "idle"
         => Len(events') <= Len(events)]_vars

\* A run that is reported as flushed has its five artifacts on disk, and they tell one
\* snapshot of it with one count of dropped events, however restarts, clears and flushes
\* of other runs interleave with the flush: unless the last flush failed, one is under
\* way, or two flushes of this run were.  What a flush tells accounts for every event
\* accepted before it, unless a start or a clear reset the count meanwhile.  The run is
\* its id and its directory, as in same_run: a flush that began before a restart under the
\* same id counts for it (flush, write_trace_files).
FlushedIsWhole ==
    /\ flush_count > 0 /\ config # None =>
          LET written == disk[config.run]
          IN /\ None \notin Range(written)
             /\ ~last_flush_error /\ ~(\E h \in Handler : Writes(req[h], config.run))
                /\ (\A i \in DOMAIN written : written[i].alone) =>
                   \A i \in DOMAIN written : written[i].of = written[1].of
    /\ \A h \in Handler :
          req[h].at = "write" /\ "reset" \notin past[h].met =>
             Len(req[h].events) + req[h].dropped >= past[h].owed
=============================================================================
