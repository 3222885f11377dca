---------------------------- MODULE MetricsLibrary ----------------------------
(***************************************************************************)
(* The metrics library (pkgs/metrics): callers look metrics up in the      *)
(* registry, create them and update them, directly or through events       *)
(* queued for the collector; the collector exports all metrics at          *)
(* intervals and hands them in chunks to the writer, which batches them    *)
(* and writes them to Redis streams, one pipeline per metric type.  A      *)
(* third goroutine writes aggregates of every metric over time windows.    *)
(*                                                                         *)
(* The locks are modelled where a thread can be made to wait: a waiting    *)
(* writer of a RWMutex keeps new readers out, and Histogram.Export calls   *)
(* Value, which takes the read lock a second time.  Counters and gauges    *)
(* are updated without waiting, histograms under their lock.  An export of *)
(* a histogram ends with a bucket whose bound is +Inf, which json.Marshal  *)
(* refuses: the writer leaves it out.  The three metrics of the collector  *)
(* itself, what the aggregates are, and retention are left out.            *)
(***************************************************************************)
EXTENDS Integers, Sequences, FiniteSets

CONSTANTS
  Counters, Gauges, Histograms, \* metric keys (name and labels), by type
  Caller,     \* goroutines that update metrics directly
  MetricsOf,  \* per caller and event: the keys it updates, in order
  Event,      \* events, each given to ProcessEvent once
  Loop,       \* the goroutine processEvents
  None,       \* nil
  ChanSize,   \* capacity of eventChan, 1000 in the code
  BatchSize,  \* CollectorConfig.BatchSize
  Windows,    \* number of time windows, 4 in the code
  MaxRounds,  \* bound on the collection cycles
  MaxCycles,  \* bound on the aggregation cycles
  MaxFaults   \* bound on failing pipelines

Metric == Counters \cup Gauges \cup Histograms
Unlocked == Counters \cup Gauges      \* with atomic values
Thread == Caller \cup {Loop}

ASSUME KeyAssumption ==
  /\ Unlocked \cap Histograms = {} /\ Counters \cap Gauges = {} /\ Loop \notin Caller
  /\ \A x \in Caller \cup Event : MetricsOf[x] \in Seq(Metric) \ {<<>>}
ASSUME NoneAssumption == None \notin Metric \X Thread
ASSUME BoundAssumption ==
  /\ ChanSize \in Nat \ {0} /\ BatchSize \in Nat \ {0}
  /\ MaxRounds \in Nat /\ MaxCycles \in Nat /\ Windows \in Nat /\ MaxFaults \in Nat

VARIABLES
  metrics,    \* Registry.metrics: per key the instance, or None
  value,      \* per instance: the updates it has taken in
  pc,         \* per thread: where its update is
  keys,       \* per thread: the keys it has still to update
  ref,        \* per thread: what GetOrCreate returned
  done,       \* history: per key, updates that have returned
  skipped,    \* history: per key, those that had got nil
  eventChan, unsent,  \* queued events, and those not given to ProcessEvent yet
  xpc,        \* the collection goroutine
  todo,       \* metrics Export has still to visit
  current,    \* the histogram whose read lock it holds, or None
  exports,    \* exports not handed to the writer yet
  round,      \* collection cycles begun
  apc, windowsLeft, visit, \* the aggregation goroutine: metrics to visit in a window
  cycle,      \* aggregation cycles begun
  summaries,  \* metrics with an aggregate in Redis
  batch,      \* Writer.batch
  flush,      \* types still to be written by the flush holding batchMu, or None
  flusher,    \* who called it
  timer,      \* batchTimer is armed
  written,    \* per export: XADDs executed
  stop,       \* "no", "cancelled" (collector), "writer" (its context too), "done"
  faults

registryVars == <<metrics, value>>
threadVars == <<pc, keys, ref, done, skipped, eventChan, unsent>>
collectVars == <<xpc, todo, current, exports, round>>
aggVars == <<apc, windowsLeft, visit, cycle, summaries>>
writerVars == <<batch, flush, flusher, timer, written, faults>>
vars == <<registryVars, threadVars, collectVars, aggVars, writerVars, stop>>

-----------------------------------------------------------------------------
Instance == Metric \X Thread    \* an instance is named for its creator
Export == Metric \X (1 .. MaxRounds)
MetricType == {"counter", "gauge", "histogram"}
TypeOf(x) == IF x[1] \in Counters THEN "counter"
             ELSE IF x[1] \in Gauges THEN "gauge" ELSE "histogram"

\* json.Marshal of an export: it fails on the +Inf bound of a histogram.
Marshals(x) == x[1] \notin Histograms

\* Export holds r.mu for reading; a thread that has called Lock waits for it
\* and keeps other readers out.
Exporting == xpc \in {"visit", "value"}
RegisterWaits == \E t \in Thread : pc[t] = "lock"
Key(t) == Head(keys[t])
ObserveWaits(k) == \E t \in Thread : pc[t] = "observe" /\ Key(t) = k

Init ==
  /\ metrics = [k \in Metric |-> None] /\ value = [i \in Instance |-> 0]
  /\ pc = [t \in Thread |-> IF t = Loop THEN "select" ELSE "get"]
  /\ keys = [t \in Thread |-> IF t = Loop THEN <<>> ELSE MetricsOf[t]]
  /\ ref = [t \in Thread |-> None]
  /\ done = [k \in Metric |-> 0] /\ skipped = [k \in Metric |-> 0]
  /\ eventChan = <<>> /\ unsent = Event
  /\ xpc = "select" /\ todo = {} /\ current = None /\ exports = {} /\ round = 0
  /\ apc = "select" /\ windowsLeft = 0 /\ visit = {} /\ cycle = 0 /\ summaries = {}
  /\ batch = {} /\ flush = None /\ flusher = None /\ timer = FALSE
  /\ written = [x \in Export |-> 0] /\ stop = "no" /\ faults = 0

-----------------------------------------------------------------------------
(***************************************************************************)
(* Updates.                                                                *)
(***************************************************************************)
\* Mutant: the send does not look at the capacity.
ProcessEventUnbounded(ev) ==
  /\ ev \in unsent /\ unsent' = unsent \ {ev}
  /\ eventChan' = Append(eventChan, ev)
  /\ UNCHANGED <<registryVars, pc, keys, ref, done, skipped, collectVars, aggVars, writerVars, stop>>

\* ProcessEvent: the event is dropped when the channel is full.
ProcessEvent(ev) ==
  /\ ev \in unsent /\ unsent' = unsent \ {ev}
  /\ eventChan' = IF Len(eventChan) < ChanSize THEN Append(eventChan, ev) ELSE eventChan
  /\ UNCHANGED <<registryVars, pc, keys, ref, done, skipped, collectVars, aggVars, writerVars, stop>>

\* processEvents takes an event, or finds the context done.
LoopTake ==
  /\ pc[Loop] = "select" /\ eventChan # <<>>
  /\ pc' = [pc EXCEPT ![Loop] = "get"]
  /\ keys' = [keys EXCEPT ![Loop] = MetricsOf[Head(eventChan)]]
  /\ eventChan' = Tail(eventChan)
  /\ UNCHANGED <<registryVars, ref, done, skipped, unsent, collectVars, aggVars, writerVars, stop>>

LoopExit ==
  /\ pc[Loop] = "select" /\ stop # "no" /\ pc' = [pc EXCEPT ![Loop] = "gone"]
  /\ UNCHANGED <<registryVars, keys, ref, done, skipped, eventChan, unsent, collectVars, aggVars, writerVars, stop>>

Step(t, from, to) == pc[t] = from /\ pc' = [pc EXCEPT ![t] = to]

\* GetOrCreate looks the metric up under the read lock.
Get(t) ==
  /\ pc[t] = "get" /\ ~RegisterWaits
  /\ ref' = [ref EXCEPT ![t] = metrics[Key(t)]]
  /\ Step(t, "get", IF metrics[Key(t)] = None THEN "miss" ELSE "update")
  /\ UNCHANGED <<registryVars, keys, done, skipped, eventChan, unsent, collectVars, aggVars, writerVars, stop>>

\* Register calls Lock.
RegisterLock(t) ==
  /\ Step(t, "miss", "lock")
  /\ UNCHANGED <<registryVars, keys, ref, done, skipped, eventChan, unsent, collectVars, aggVars, writerVars, stop>>

\* Mutant: an existing metric is replaced.
RegisterOver(t) ==
  /\ ~Exporting /\ Step(t, "lock", "update")
  /\ metrics' = [metrics EXCEPT ![Key(t)] = <<Key(t), t>>]
  /\ value' = [value EXCEPT ![<<Key(t), t>>] = 0]
  /\ ref' = [ref EXCEPT ![t] = <<Key(t), t>>]
  /\ UNCHANGED <<keys, done, skipped, eventChan, unsent, collectVars, aggVars, writerVars, stop>>

\* Register creates the metric, or fails because another call did: the error
\* is dropped and GetOrCreate returns nil.
Register(t) ==
  /\ ~Exporting /\ Step(t, "lock", "update")
  /\ LET new == <<Key(t), t>>
     IN IF metrics[Key(t)] = None
        THEN /\ metrics' = [metrics EXCEPT ![Key(t)] = new]
             /\ value' = [value EXCEPT ![new] = 0]
             /\ ref' = [ref EXCEPT ![t] = new]
        ELSE UNCHANGED <<registryVars, ref>>
  /\ UNCHANGED <<keys, done, skipped, eventChan, unsent, collectVars, aggVars, writerVars, stop>>

\* The update has returned; the next metric of the event follows.
Return(t, missed) ==
  /\ pc' = [pc EXCEPT ![t] = IF Len(keys[t]) > 1 THEN "get" ELSE IF t = Loop THEN "select" ELSE "done"]
  /\ keys' = [keys EXCEPT ![t] = Tail(@)]
  /\ ref' = [ref EXCEPT ![t] = None]
  /\ done' = [done EXCEPT ![Key(t)] = @ + 1]
  /\ skipped' = [skipped EXCEPT ![Key(t)] = @ + missed]

\* The type assertion on nil fails and the update is skipped.
SkipNil(t) ==
  /\ pc[t] = "update" /\ ref[t] = None
  /\ Return(t, 1)
  /\ UNCHANGED <<registryVars, eventChan, unsent, collectVars, aggVars, writerVars, stop>>

\* Inc of a counter, Set or Add of a gauge: atomic.
CounterInc(t) ==
  /\ pc[t] = "update" /\ ref[t] # None /\ Key(t) \in Unlocked
  /\ value' = [value EXCEPT ![ref[t]] = @ + 1]
  /\ Return(t, 0)
  /\ UNCHANGED <<metrics, eventChan, unsent, collectVars, aggVars, writerVars, stop>>

\* Observe calls Lock, and goes on when the export has given its lock back.
ObserveLock(t) ==
  /\ ref[t] # None /\ Key(t) \in Histograms /\ Step(t, "update", "observe")
  /\ UNCHANGED <<registryVars, keys, ref, done, skipped, eventChan, unsent, collectVars, aggVars, writerVars, stop>>

Observe(t) ==
  /\ pc[t] = "observe" /\ current # Key(t)
  /\ value' = [value EXCEPT ![ref[t]] = @ + 1]
  /\ Return(t, 0)
  /\ UNCHANGED <<metrics, eventChan, unsent, collectVars, aggVars, writerVars, stop>>

-----------------------------------------------------------------------------
(***************************************************************************)
(* The collection goroutine.                                               *)
(***************************************************************************)
\* collect calls Registry.Export, which takes r.mu for reading.
ExportBegin ==
  /\ xpc = "select" /\ round < MaxRounds /\ ~RegisterWaits
  /\ xpc' = "visit" /\ round' = round + 1
  /\ todo' = {k \in Metric : metrics[k] # None}
  /\ UNCHANGED <<registryVars, threadVars, aggVars, current, exports, writerVars, stop>>

\* Export of a metric; a histogram takes its read lock first.
ExportCounter(k) ==
  /\ xpc = "visit" /\ k \in todo \cap Unlocked
  /\ todo' = todo \ {k} /\ exports' = exports \cup {<<k, round>>}
  /\ UNCHANGED <<registryVars, threadVars, aggVars, xpc, current, round, writerVars, stop>>

ExportHistogram(k) ==
  /\ xpc = "visit" /\ k \in todo \cap Histograms /\ ~ObserveWaits(k)
  /\ xpc' = "value" /\ current' = k
  /\ UNCHANGED <<registryVars, threadVars, aggVars, todo, exports, round, writerVars, stop>>

\* Value takes the lock a second time: not past a waiting Observe.
HistogramValue ==
  /\ xpc = "value" /\ ~ObserveWaits(current)
  /\ xpc' = "visit" /\ current' = None
  /\ todo' = todo \ {current} /\ exports' = exports \cup {<<current, round>>}
  /\ UNCHANGED <<registryVars, threadVars, aggVars, round, writerVars, stop>>

ExportEnd ==
  /\ xpc = "visit" /\ todo = {} /\ xpc' = "chunk"
  /\ UNCHANGED <<registryVars, threadVars, aggVars, todo, current, exports, round, writerVars, stop>>

\* A full chunk, or the rest, goes to WriteBatch, which takes batchMu; a full
\* batch is flushed at once, by the caller.
WriteBatch(chunk) ==
  /\ xpc = "chunk" /\ flush = None
  /\ chunk \subseteq exports /\ chunk # {}
  /\ Cardinality(chunk) = BatchSize \/ (chunk = exports /\ Cardinality(chunk) < BatchSize)
  /\ exports' = exports \ chunk /\ batch' = batch \cup chunk
  /\ IF Cardinality(batch') >= BatchSize
     THEN /\ flush' = {TypeOf(x) : x \in batch'} /\ flusher' = "collect"
          /\ timer' = FALSE /\ xpc' = "flushing"
     ELSE timer' = TRUE /\ UNCHANGED <<flush, flusher, xpc>>
  /\ UNCHANGED <<registryVars, threadVars, aggVars, todo, current, round, written, faults, stop>>

CollectEnd ==
  /\ xpc = "chunk" /\ exports = {} /\ xpc' = "select"
  /\ UNCHANGED <<registryVars, threadVars, aggVars, todo, current, exports, round, writerVars, stop>>

CollectExit ==
  /\ xpc = "select" /\ stop # "no" /\ xpc' = "gone"
  /\ UNCHANGED <<registryVars, threadVars, aggVars, todo, current, exports, round, writerVars, stop>>

-----------------------------------------------------------------------------
(***************************************************************************)
(* The aggregation goroutine.                                              *)
(***************************************************************************)
AggBegin ==
  /\ apc = "select" /\ cycle < MaxCycles
  /\ apc' = "window" /\ cycle' = cycle + 1 /\ windowsLeft' = Windows
  /\ UNCHANGED <<registryVars, threadVars, collectVars, visit, summaries, writerVars, stop>>

\* The next window: List takes r.mu for reading.
AggList ==
  /\ apc = "window" /\ visit = {} /\ windowsLeft > 0 /\ ~RegisterWaits
  /\ windowsLeft' = windowsLeft - 1
  /\ visit' = {k \in Metric : metrics[k] # None}
  /\ UNCHANGED <<registryVars, threadVars, collectVars, apc, cycle, summaries, writerVars, stop>>

\* Points takes the metric's read lock, not past a waiting Observe.
Points(k) ==
  /\ apc = "window" /\ k \in visit /\ ~ObserveWaits(k)
  /\ visit' = visit \ {k}
  /\ UNCHANGED <<registryVars, threadVars, collectVars, apc, windowsLeft, cycle, writerVars, stop>>

\* There are points in the window, and the XADD succeeds.
WriteAggregated(k) ==
  /\ Points(k) /\ value[metrics[k]] > 0
  /\ summaries' = summaries \cup {k}

\* There are none, or the XADD fails.
AggSkip(k) == Points(k) /\ UNCHANGED summaries

\* The cycle is over, or the context done.
AggEnd ==
  /\ \/ apc = "window" /\ visit = {} /\ windowsLeft = 0 /\ apc' = "select"
     \/ apc = "select" /\ stop # "no" /\ apc' = "gone"
  /\ UNCHANGED <<registryVars, threadVars, collectVars, windowsLeft, visit, cycle, summaries, writerVars, stop>>

-----------------------------------------------------------------------------
(***************************************************************************)
(* The writer.                                                             *)
(***************************************************************************)
FlushBegin(who) ==
  /\ flush = None /\ batch # {}
  /\ flush' = {TypeOf(x) : x \in batch} /\ flusher' = who /\ timer' = FALSE
  /\ UNCHANGED <<registryVars, threadVars, aggVars, collectVars, batch, written, faults>>

\* The flush worker ticks until its context is done; the timer always fires.
FlushWorker == stop \in {"no", "cancelled"} /\ FlushBegin("worker") /\ UNCHANGED stop
FlushTimer == timer /\ FlushBegin("timer") /\ UNCHANGED stop

ReleaseMutex ==
  /\ flush' = None /\ flusher' = None
  /\ xpc' = IF flusher = "collect" THEN "chunk" ELSE xpc

\* The pipeline of one type: what marshals of it.
Pipeline(ty) == {x \in batch : TypeOf(x) = ty /\ Marshals(x)}
Executed(ty) == [x \in Export |-> written[x] + IF x \in Pipeline(ty) THEN 1 ELSE 0]

\* Its Exec succeeds: before the context is cancelled, or if it is empty.
FlushType(ty) ==
  /\ flush # None /\ ty \in flush
  /\ stop \in {"no", "cancelled"} \/ Pipeline(ty) = {}
  /\ flush' = flush \ {ty}
  /\ written' = Executed(ty)
  /\ UNCHANGED <<registryVars, threadVars, aggVars, collectVars, batch, flusher, timer, faults, stop>>

\* Mutant: the batch is given up with the flush that failed.
FlushFailDrops(ty) ==
  /\ flush # None /\ ty \in flush /\ Pipeline(ty) # {}
  /\ stop \in {"no", "cancelled"} => faults < MaxFaults
  /\ faults' = IF stop \in {"no", "cancelled"} THEN faults + 1 ELSE faults
  /\ batch' = {} /\ written' = written
  /\ ReleaseMutex
  /\ UNCHANGED <<registryVars, threadVars, aggVars, todo, current, exports, round, timer, stop>>

\* It fails, before or after Redis executed it, always once the context is
\* cancelled: the batch is kept, other types may have been written.
FlushFail(ty) ==
  /\ flush # None /\ ty \in flush /\ Pipeline(ty) # {}
  /\ stop \in {"no", "cancelled"} => faults < MaxFaults
  /\ faults' = IF stop \in {"no", "cancelled"} THEN faults + 1 ELSE faults
  /\ \/ UNCHANGED written
     \/ stop \in {"no", "cancelled"} /\ written' = Executed(ty)
  /\ ReleaseMutex
  /\ UNCHANGED <<registryVars, threadVars, aggVars, todo, current, exports, round, batch, timer, stop>>

\* Every type is written: the batch is cleared.
FlushEnd ==
  /\ flush = {} /\ batch' = {}
  /\ ReleaseMutex
  /\ UNCHANGED <<registryVars, threadVars, aggVars, todo, current, exports, round, timer, written, faults, stop>>

-----------------------------------------------------------------------------
(***************************************************************************)
(* Stop.                                                                   *)
(***************************************************************************)
CollectorStop ==
  /\ stop = "no" /\ stop' = "cancelled"
  /\ UNCHANGED <<registryVars, threadVars, collectVars, aggVars, writerVars>>

\* wg.Wait returned; Writer.Stop cancels its context before its last flush.
WriterStop ==
  /\ stop = "cancelled" /\ xpc = "gone" /\ pc[Loop] = "gone" /\ apc = "gone"
  /\ stop' = "writer"
  /\ UNCHANGED <<registryVars, threadVars, collectVars, aggVars, writerVars>>

WriterStopFlush ==
  /\ stop = "writer" /\ stop' = "done"
  /\ IF batch = {} THEN flush = None /\ UNCHANGED <<registryVars, threadVars, collectVars, aggVars, writerVars>>
                   ELSE FlushBegin("stop")

-----------------------------------------------------------------------------
Update(t) ==
  \/ Get(t) \/ RegisterLock(t) \/ Register(t) \/ SkipNil(t)
  \/ CounterInc(t) \/ ObserveLock(t) \/ Observe(t)
Collect ==
  \/ \E k \in Metric : ExportCounter(k) \/ ExportHistogram(k)
  \/ HistogramValue \/ ExportEnd \/ CollectEnd
  \/ \E chunk \in SUBSET exports : WriteBatch(chunk)
Aggregate ==
  \/ AggBegin \/ AggList \/ AggEnd
  \/ \E k \in Metric : WriteAggregated(k) \/ AggSkip(k)
Flush ==
  \/ FlushWorker \/ FlushTimer \/ FlushEnd
  \/ \E ty \in MetricType : FlushType(ty) \/ FlushFail(ty)

Next ==
  \/ \E ev \in Event : ProcessEvent(ev)
  \/ LoopTake \/ LoopExit
  \/ \E t \in Thread : Update(t)
  \/ ExportBegin \/ Collect \/ CollectExit
  \/ Aggregate \/ Flush
  \/ CollectorStop \/ WriterStop \/ WriterStopFlush

Spec == Init /\ [][Next]_vars

\* The Go scheduler runs what can run; the flush worker ticks for ever.
FairSpec ==
  Spec /\ WF_vars(FlushWorker \/ FlushEnd \/ \E ty \in MetricType : FlushType(ty))

-----------------------------------------------------------------------------
(***************************************************************************)
(* Properties.                                                             *)
(***************************************************************************)
RegistryTypes ==
  /\ metrics \in [Metric -> Instance \cup {None}] /\ value \in [Instance -> Nat]
  /\ done \in [Metric -> Nat] /\ skipped \in [Metric -> Nat]
ThreadTypes ==
  /\ pc \in [Thread -> {"select", "get", "miss", "lock", "update", "observe", "done", "gone"}]
  /\ keys \in [Thread -> Seq(Metric)] /\ ref \in [Thread -> Instance \cup {None}]
ChannelTypes ==
  eventChan \in Seq(Event) /\ Len(eventChan) <= ChanSize /\ unsent \subseteq Event
CollectTypes ==
  /\ xpc \in {"select", "visit", "value", "chunk", "flushing", "gone"}
  /\ todo \subseteq Metric /\ current \in Histograms \cup {None}
  /\ exports \subseteq Export /\ round \in 0 .. MaxRounds
AggTypes ==
  /\ apc \in {"select", "window", "gone"} /\ windowsLeft \in 0 .. Windows
  /\ cycle \in 0 .. MaxCycles /\ visit \subseteq Metric /\ summaries \subseteq Metric
WriterTypes ==
  /\ batch \subseteq Export /\ (flush = None \/ flush \subseteq MetricType)
  /\ flusher \in {None, "collect", "worker", "timer", "stop"}
  /\ written \in [Export -> Nat] /\ faults \in 0 .. MaxFaults
  /\ stop \in {"no", "cancelled", "writer", "done"}

\* The types of the variables; the event channel never holds more than its
\* capacity.
TypeOK ==
  /\ RegistryTypes /\ ThreadTypes /\ ChannelTypes
  /\ CollectTypes /\ AggTypes /\ WriterTypes /\ timer \in BOOLEAN

\* Every update that has returned is in the metric the registry knows and the
\* collector exports, unless GetOrCreate had returned nil: callers that race
\* to create a metric never end up with two instances of it.
UpdatesKept ==
  \A k \in Metric :
    done[k] = skipped[k] + IF metrics[k] = None THEN 0 ELSE value[metrics[k]]

\* Whatever the writer has taken into its batch and can marshal reaches Redis,
\* as long as it is not stopped: a failing pipeline costs a duplicate, not the
\* batch, nor does a histogram beside it that is left out, and an exporter that
\* is stuck behind a histogram's lock does not stop the flushes
\* (writer.go:196-263).
ExportsWritten ==
  \A x \in Export :
    x \in batch /\ Marshals(x) ~> written[x] > 0 \/ stop \in {"writer", "done"}
=============================================================================
