------------------------ MODULE MetricsLibraryProofs ------------------------
(***************************************************************************)
(* Proofs about MetricsLibrary, for any set of metrics, callers and        *)
(* events, any channel capacity and any batch size.                        *)
(***************************************************************************)
EXTENDS MetricsLibrary, TLAPS

-----------------------------------------------------------------------------
(* The steps that matter to each group of variables.                       *)

CollectorStep ==
  \/ ExportBegin \/ HistogramValue \/ ExportEnd \/ CollectEnd \/ CollectExit
  \/ \E k \in Metric : ExportCounter(k) \/ ExportHistogram(k)
  \/ \E chunk \in SUBSET exports : WriteBatch(chunk)
WriterStep ==
  \/ FlushWorker \/ FlushTimer \/ FlushEnd \/ WriterStopFlush
  \/ CollectorStop \/ WriterStop
  \/ \E ty \in MetricType : FlushType(ty) \/ FlushFail(ty)

LEMMA NextCases ==
  ASSUME [Next]_vars
  PROVE  \/ \E ev \in Event : ProcessEvent(ev)
         \/ LoopTake \/ LoopExit
         \/ \E t \in Thread : Update(t)
         \/ CollectorStep \/ Aggregate \/ WriterStep
         \/ UNCHANGED vars
BY DEF Next, Collect, Flush, CollectorStep, WriterStep

(* What each kind of step leaves alone.                                    *)
LEMMA ChannelFrame ==
  ASSUME NEW ev \in Event, ProcessEvent(ev)
  PROVE  UNCHANGED <<registryVars, pc, keys, ref, done, skipped, collectVars,
                     aggVars, writerVars, stop>>
BY DEF ProcessEvent

LEMMA UpdateFrame ==
  ASSUME NEW t \in Thread, Update(t)
  PROVE  UNCHANGED <<eventChan, unsent, collectVars, aggVars, writerVars, stop>>
BY DEF Update, Get, RegisterLock, Register, SkipNil, CounterInc, ObserveLock,
       Observe

LEMMA CollectorFrame ==
  ASSUME CollectorStep
  PROVE  UNCHANGED <<registryVars, threadVars, aggVars, stop>>
BY DEF CollectorStep, ExportBegin, HistogramValue, ExportEnd, CollectEnd,
       CollectExit, ExportCounter, ExportHistogram, WriteBatch, writerVars

LEMMA AggregateFrame ==
  ASSUME Aggregate
  PROVE  UNCHANGED <<registryVars, threadVars, collectVars, writerVars, stop>>
BY DEF Aggregate, AggBegin, AggList, AggEnd, WriteAggregated, AggSkip, Points

LEMMA WriterFrame ==
  ASSUME WriterStep
  PROVE  UNCHANGED <<registryVars, threadVars, aggVars,
                     todo, current, exports, round>>
BY DEF WriterStep, FlushWorker, FlushTimer, FlushEnd, WriterStopFlush,
       CollectorStop, WriterStop, FlushType, FlushFail, FlushBegin, collectVars

-----------------------------------------------------------------------------
(* Type correctness.                                                       *)

Updating == {"get", "miss", "lock", "update", "observe"}

(* A thread in the middle of an update has a key to update, and an export  *)
(* that has called Value holds a histogram in some collection cycle.       *)
KeysLeft == \A t \in Thread : pc[t] \in Updating => keys[t] # <<>>
ExportHolds ==
  /\ xpc = "value" => current \in Histograms
  /\ xpc \in {"visit", "value"} => round > 0

TypeInv == TypeOK /\ KeysLeft /\ ExportHolds

LEMMA KeyType ==
  ASSUME ThreadTypes, KeysLeft, NEW t \in Thread, pc[t] \in Updating
  PROVE  /\ Key(t) \in Metric
         /\ Len(keys[t]) \in Nat \ {0}
         /\ Tail(keys[t]) \in Seq(Metric)
         /\ Len(keys[t]) > 1 => Tail(keys[t]) # <<>>
<1>1. keys[t] \in Seq(Metric) /\ keys[t] # <<>>
  BY DEF ThreadTypes, KeysLeft
<1>2. ASSUME NEW S, NEW s \in Seq(S), s # <<>>
      PROVE  /\ Head(s) \in S /\ Len(s) \in Nat \ {0} /\ Tail(s) \in Seq(S)
             /\ Len(s) > 1 => Tail(s) # <<>>
  <2>1. Head(s) \in S /\ Len(s) \in Nat \ {0} /\ Tail(s) \in Seq(S)
    BY <1>2
  <2>2. Len(Tail(s)) = Len(s) - 1
    BY <1>2
  <2>3. Len(s) > 1 => Len(Tail(s)) # 0
    BY <2>1, <2>2
  <2>4. \A r : r = <<>> => Len(r) = 0
    OBVIOUS
  <2>5. QED
    BY <2>1, <2>3, <2>4
<1>3. QED
  BY <1>1, <1>2 DEF Key

LEMMA InitType == Init => TypeInv
<1> SUFFICES ASSUME Init PROVE TypeInv
  OBVIOUS
<1> USE KeyAssumption, BoundAssumption
<1>1. RegistryTypes /\ ChannelTypes /\ AggTypes
  BY DEF Init, RegistryTypes, ChannelTypes, AggTypes
<1>2. ThreadTypes /\ KeysLeft
  BY DEF Init, ThreadTypes, KeysLeft, Thread, Updating
<1>3. CollectTypes /\ ExportHolds
  BY DEF Init, CollectTypes, ExportHolds
<1>4. WriterTypes
  BY DEF Init, WriterTypes
<1>5. timer \in BOOLEAN
  BY DEF Init
<1>6. QED
  BY <1>1, <1>2, <1>3, <1>4, <1>5 DEF TypeInv, TypeOK

(* Append and Tail keep the channel within its capacity.                   *)
LEMMA StepChannelTypes == TypeInv /\ [Next]_vars => ChannelTypes'
<1> SUFFICES ASSUME TypeInv, [Next]_vars PROVE ChannelTypes'
  OBVIOUS
<1> USE BoundAssumption DEF TypeInv, TypeOK, ChannelTypes
<1>1. ASSUME NEW ev \in Event, ProcessEvent(ev) PROVE ChannelTypes'
  BY <1>1 DEF ProcessEvent
<1>2. CASE LoopTake
  BY <1>2 DEF LoopTake
<1>3. CASE LoopExit \/ (\E t \in Thread : Update(t)) \/ CollectorStep
           \/ Aggregate \/ WriterStep \/ UNCHANGED vars
  BY <1>3, UpdateFrame, CollectorFrame, AggregateFrame, WriterFrame
     DEF LoopExit, vars, threadVars
<1>4. QED
  BY <1>1, <1>2, <1>3, NextCases

LEMMA StepThreadTypes == TypeInv /\ [Next]_vars => ThreadTypes' /\ KeysLeft'
<1> SUFFICES ASSUME TypeInv, [Next]_vars PROVE ThreadTypes' /\ KeysLeft'
  OBVIOUS
<1> USE DEF TypeInv, TypeOK, ThreadTypes, KeysLeft, Updating
<1>1. CASE LoopTake
  <2>1. Loop \in Thread /\ Head(eventChan) \in Event
    BY <1>1 DEF LoopTake, ChannelTypes, Thread
  <2>2. MetricsOf[Head(eventChan)] \in Seq(Metric) \ {<<>>}
    BY <2>1, KeyAssumption
  <2>3. QED
    BY <1>1, <2>1, <2>2 DEF LoopTake
<1>2. CASE LoopExit
  BY <1>2 DEF LoopExit
<1>3. ASSUME NEW t \in Thread, Get(t) PROVE ThreadTypes' /\ KeysLeft'
  <2>1. Key(t) \in Metric
    BY <1>3, KeyType DEF Get
  <2>2. metrics[Key(t)] \in Instance \cup {None}
    BY <2>1 DEF RegistryTypes
  <2>3. QED
    BY <1>3, <2>2 DEF Get, Step
<1>4. ASSUME NEW t \in Thread, RegisterLock(t) PROVE ThreadTypes' /\ KeysLeft'
  BY <1>4 DEF RegisterLock, Step
<1>5. ASSUME NEW t \in Thread, Register(t) PROVE ThreadTypes' /\ KeysLeft'
  <2>1. <<Key(t), t>> \in Instance
    BY <1>5, KeyType DEF Register, Step, Instance
  <2>2. QED
    BY <1>5, <2>1 DEF Register, Step
<1>6. ASSUME NEW t \in Thread, ObserveLock(t) PROVE ThreadTypes' /\ KeysLeft'
  BY <1>6 DEF ObserveLock, Step
<1>7. ASSUME NEW t \in Thread, NEW missed \in {0, 1}, Return(t, missed),
             pc[t] \in Updating
      PROVE  ThreadTypes' /\ KeysLeft'
  BY <1>7, KeyType DEF Return
<1>8. ASSUME NEW t \in Thread, SkipNil(t) \/ CounterInc(t) \/ Observe(t)
      PROVE  ThreadTypes' /\ KeysLeft'
  BY <1>7, <1>8 DEF SkipNil, CounterInc, Observe
<1>9. CASE (\E ev \in Event : ProcessEvent(ev)) \/ CollectorStep
           \/ Aggregate \/ WriterStep \/ UNCHANGED vars
  BY <1>9, ChannelFrame, CollectorFrame, AggregateFrame, WriterFrame
     DEF vars, threadVars
<1>10. QED
  BY <1>1, <1>2, <1>3, <1>4, <1>5, <1>6, <1>8, <1>9, NextCases DEF Update

LEMMA StepRegistryTypes == TypeInv /\ [Next]_vars => RegistryTypes'
<1> SUFFICES ASSUME TypeInv, [Next]_vars PROVE RegistryTypes'
  OBVIOUS
<1> USE DEF TypeInv, TypeOK, RegistryTypes
<1>1. ASSUME NEW t \in Thread, Register(t) PROVE RegistryTypes'
  <2>1. <<Key(t), t>> \in Instance
    BY <1>1, KeyType DEF Register, Step, Instance, Updating
  <2>2. QED
    BY <1>1, <2>1 DEF Register, registryVars
<1>2. ASSUME NEW t \in Thread, NEW missed \in {0, 1}, Return(t, missed),
             pc[t] \in Updating
      PROVE  done' \in [Metric -> Nat] /\ skipped' \in [Metric -> Nat]
  BY <1>2, KeyType DEF Return
<1>3. ASSUME NEW t \in Thread, SkipNil(t) PROVE RegistryTypes'
  BY <1>2, <1>3 DEF SkipNil, registryVars, Updating
<1>4. ASSUME NEW t \in Thread, CounterInc(t) \/ Observe(t) PROVE RegistryTypes'
  <2>1. value' \in [Instance -> Nat] /\ metrics' = metrics
    BY <1>4 DEF CounterInc, Observe
  <2>2. QED
    BY <1>2, <1>4, <2>1 DEF CounterInc, Observe, Updating
<1>5. ASSUME NEW t \in Thread, Get(t) \/ RegisterLock(t) \/ ObserveLock(t)
      PROVE  RegistryTypes'
  BY <1>5 DEF Get, RegisterLock, ObserveLock, registryVars
<1>6. CASE (\E ev \in Event : ProcessEvent(ev)) \/ LoopTake \/ LoopExit
           \/ CollectorStep \/ Aggregate \/ WriterStep \/ UNCHANGED vars
  BY <1>6, ChannelFrame, CollectorFrame, AggregateFrame, WriterFrame
     DEF LoopTake, LoopExit, vars, threadVars, registryVars
<1>7. QED
  BY <1>1, <1>3, <1>4, <1>5, <1>6, NextCases DEF Update

LEMMA StepCollectTypes == TypeInv /\ [Next]_vars => CollectTypes' /\ ExportHolds'
<1> SUFFICES ASSUME TypeInv, [Next]_vars PROVE CollectTypes' /\ ExportHolds'
  OBVIOUS
<1> USE BoundAssumption DEF TypeInv, TypeOK, CollectTypes, ExportHolds
<1>1. CASE ExportBegin
  BY <1>1 DEF ExportBegin
<1>2. ASSUME NEW k \in Metric, ExportCounter(k)
      PROVE  CollectTypes' /\ ExportHolds'
  BY <1>2 DEF ExportCounter, Export
<1>3. ASSUME NEW k \in Metric, ExportHistogram(k)
      PROVE  CollectTypes' /\ ExportHolds'
  BY <1>3 DEF ExportHistogram
<1>4. CASE HistogramValue
  BY <1>4 DEF HistogramValue, Export, Metric
<1>5. ASSUME NEW chunk \in SUBSET exports, WriteBatch(chunk)
      PROVE  CollectTypes' /\ ExportHolds'
  BY <1>5 DEF WriteBatch
<1>6. CASE ExportEnd \/ CollectEnd \/ CollectExit
  BY <1>6 DEF ExportEnd, CollectEnd, CollectExit
<1>7. CASE CollectorStep
  BY <1>1, <1>2, <1>3, <1>4, <1>5, <1>6, <1>7 DEF CollectorStep
<1>8. CASE WriterStep
  <2>1. UNCHANGED <<todo, current, exports, round>>
    BY <1>8, WriterFrame
  <2>2. xpc' \in {xpc, "chunk"}
    BY <1>8 DEF WriterStep, FlushWorker, FlushTimer, FlushEnd, WriterStopFlush,
                CollectorStop, WriterStop, FlushType, FlushFail, FlushBegin,
                ReleaseMutex, collectVars
  <2>3. QED
    BY <2>1, <2>2
<1>9. CASE (\E ev \in Event : ProcessEvent(ev)) \/ LoopTake \/ LoopExit
           \/ (\E t \in Thread : Update(t)) \/ Aggregate \/ UNCHANGED vars
  BY <1>9, ChannelFrame, UpdateFrame, AggregateFrame
     DEF LoopTake, LoopExit, vars, collectVars
<1>10. QED
  BY <1>7, <1>8, <1>9, NextCases

LEMMA StepAggTypes == TypeInv /\ [Next]_vars => AggTypes'
<1> SUFFICES ASSUME TypeInv, [Next]_vars PROVE AggTypes'
  OBVIOUS
<1> USE BoundAssumption DEF TypeInv, TypeOK, AggTypes
<1>1. CASE Aggregate
  BY <1>1 DEF Aggregate, AggBegin, AggList, AggEnd, WriteAggregated, AggSkip, Points
<1>2. CASE (\E ev \in Event : ProcessEvent(ev)) \/ LoopTake \/ LoopExit
           \/ (\E t \in Thread : Update(t)) \/ CollectorStep \/ WriterStep
           \/ UNCHANGED vars
  BY <1>2, ChannelFrame, UpdateFrame, CollectorFrame, WriterFrame
     DEF LoopTake, LoopExit, vars, aggVars
<1>3. QED
  BY <1>1, <1>2, NextCases

LEMMA StepWriterTypes == TypeInv /\ [Next]_vars => WriterTypes'
<1> SUFFICES ASSUME TypeInv, [Next]_vars PROVE WriterTypes'
  OBVIOUS
<1> USE BoundAssumption DEF TypeInv, TypeOK, WriterTypes
<1>1. \A x : TypeOf(x) \in MetricType
  BY DEF TypeOf, MetricType
<1>2. ASSUME NEW chunk \in SUBSET exports, WriteBatch(chunk) PROVE WriterTypes'
  BY <1>1, <1>2 DEF WriteBatch, CollectTypes
<1>3. CASE ExportBegin \/ HistogramValue \/ ExportEnd \/ CollectEnd \/ CollectExit
           \/ \E k \in Metric : ExportCounter(k) \/ ExportHistogram(k)
  BY <1>3 DEF ExportBegin, HistogramValue, ExportEnd, CollectEnd, CollectExit,
              ExportCounter, ExportHistogram, writerVars
<1>4. CASE FlushWorker \/ FlushTimer \/ WriterStopFlush
  BY <1>1, <1>4 DEF FlushWorker, FlushTimer, WriterStopFlush, FlushBegin, writerVars
<1> DEFINE ExecutedTyped == \A ty \in MetricType : Executed(ty) \in [Export -> Nat]
<1>4a. ExecutedTyped
  BY DEF Executed
<1> HIDE DEF ExecutedTyped
<1>5. ASSUME NEW ty \in MetricType, FlushType(ty) PROVE WriterTypes'
  BY <1>5, <1>4a DEF FlushType, ExecutedTyped
<1>6. ASSUME NEW ty \in MetricType, FlushFail(ty) PROVE WriterTypes'
  BY <1>6, <1>4a DEF FlushFail, ReleaseMutex, ExecutedTyped
<1>7. CASE FlushEnd \/ CollectorStop \/ WriterStop
  BY <1>7 DEF FlushEnd, ReleaseMutex, CollectorStop, WriterStop, writerVars
<1>8. CASE (\E ev \in Event : ProcessEvent(ev)) \/ LoopTake \/ LoopExit
           \/ (\E t \in Thread : Update(t)) \/ Aggregate \/ UNCHANGED vars
  BY <1>8, ChannelFrame, UpdateFrame, AggregateFrame
     DEF LoopTake, LoopExit, vars, writerVars
<1>9. QED
  BY <1>2, <1>3, <1>4, <1>5, <1>6, <1>7, <1>8, NextCases
     DEF CollectorStep, WriterStep

LEMMA StepTimerType == TypeInv /\ [Next]_vars => timer' \in BOOLEAN
<1> SUFFICES ASSUME TypeInv, [Next]_vars PROVE timer' \in BOOLEAN
  OBVIOUS
<1>1. timer \in BOOLEAN
  BY DEF TypeInv, TypeOK
<1>2. CASE CollectorStep \/ WriterStep
  BY <1>1, <1>2
     DEF CollectorStep, WriteBatch, ExportBegin, HistogramValue, ExportEnd,
         CollectEnd, CollectExit, ExportCounter, ExportHistogram, WriterStep,
         FlushWorker, FlushTimer, WriterStopFlush, FlushBegin, FlushEnd,
         CollectorStop, WriterStop, FlushType, FlushFail, writerVars
<1>3. CASE (\E ev \in Event : ProcessEvent(ev)) \/ LoopTake \/ LoopExit
           \/ (\E t \in Thread : Update(t)) \/ Aggregate \/ UNCHANGED vars
  BY <1>1, <1>3, ChannelFrame, UpdateFrame, AggregateFrame
     DEF LoopTake, LoopExit, vars, writerVars
<1>4. QED
  BY <1>2, <1>3, NextCases

LEMMA TypeInductive == Spec => []TypeInv
<1>1. TypeInv /\ [Next]_vars => TypeInv'
  BY StepChannelTypes, StepThreadTypes, StepRegistryTypes, StepCollectTypes,
     StepAggTypes, StepWriterTypes, StepTimerType DEF TypeInv, TypeOK
<1>2. QED
  BY <1>1, InitType, PTL DEF Spec

(* The variables have their types; eventChan stays within its capacity.    *)
THEOREM TypeCorrect == Spec => []TypeOK
<1>1. TypeInv => TypeOK
  BY DEF TypeInv
<1>2. QED
  BY <1>1, TypeInductive, PTL

-----------------------------------------------------------------------------
(* No update is lost.                                                      *)

(* A thread holds the instance the registry knows, and only between the    *)
(* look-up and the end of the update.                                      *)
RefIsRegistered ==
  \A t \in Thread :
    /\ ref[t] # None => pc[t] \in {"update", "observe"} /\ ref[t] = metrics[Key(t)]
    /\ pc[t] = "observe" => ref[t] # None

(* No two keys share an instance.                                          *)
OwnInstance == \A k \in Metric : metrics[k] # None => metrics[k][1] = k

IInv == TypeInv /\ RefIsRegistered /\ OwnInstance /\ UpdatesKept

LEMMA InitInv == Init => IInv
<1> SUFFICES ASSUME Init PROVE IInv
  OBVIOUS
<1>1. RefIsRegistered /\ OwnInstance /\ UpdatesKept
  BY DEF Init, RefIsRegistered, OwnInstance, UpdatesKept
<1>2. QED
  BY <1>1, InitType DEF IInv

(* The first to register a key makes the instance; nobody replaces it.     *)
LEMMA RegisterKeeps ==
  ASSUME IInv, NEW t \in Thread, Register(t)
  PROVE  RefIsRegistered' /\ OwnInstance' /\ UpdatesKept'
<1> DEFINE k == Key(t)
           new == <<k, t>>
<1>1. /\ k \in Metric /\ new \in Instance /\ new # None /\ new[1] = k
      /\ ref[t] = None
  <2>1. pc[t] = "lock"
    BY DEF Register, Step
  <2>2. k \in Metric
    BY <2>1, KeyType DEF IInv, TypeInv, TypeOK, Updating
  <2>3. QED
    BY <2>1, <2>2, NoneAssumption DEF Instance, IInv, RefIsRegistered
<1>2. \A u \in Thread : Key(u)' = Key(u)
  BY DEF Register, Key
<1>3. /\ pc' = [pc EXCEPT ![t] = "update"]
      /\ UNCHANGED <<done, skipped>>
  BY DEF Register, Step
<1> HIDE DEF k, new
<1>4. CASE metrics[k] = None
  <2>1. /\ metrics' = [metrics EXCEPT ![k] = new]
        /\ value' = [value EXCEPT ![new] = 0]
        /\ ref' = [ref EXCEPT ![t] = new]
    BY <1>4 DEF Register, k, new
  <2>2. RefIsRegistered'
    <3> SUFFICES ASSUME NEW u \in Thread
                 PROVE  /\ ref'[u] # None => /\ pc'[u] \in {"update", "observe"}
                                             /\ ref'[u] = metrics'[Key(u)']
                        /\ pc'[u] = "observe" => ref'[u] # None
      BY DEF RefIsRegistered
    <3>1. CASE u = t
      BY <1>1, <1>2, <1>3, <2>1, <3>1 DEF IInv, TypeInv, TypeOK, ThreadTypes, RegistryTypes, k
    <3>2. CASE u # t
      <4>1. ref'[u] = ref[u] /\ pc'[u] = pc[u]
        BY <2>1, <1>3, <3>2 DEF IInv, TypeInv, TypeOK, ThreadTypes
      <4>2. ref[u] # None => Key(u) \in Metric /\ Key(u) # k
        BY <1>4, KeyType DEF IInv, TypeInv, TypeOK, RefIsRegistered, Updating
      <4>3. QED
        BY <4>1, <4>2, <1>2, <2>1
           DEF IInv, RefIsRegistered, TypeInv, TypeOK, RegistryTypes
    <3>3. QED
      BY <3>1, <3>2
  <2>3. OwnInstance'
    BY <1>1, <2>1 DEF IInv, OwnInstance, TypeInv, TypeOK, RegistryTypes
  <2>4. UpdatesKept'
    <3> SUFFICES ASSUME NEW l \in Metric
                 PROVE  done[l] = skipped[l] + IF metrics'[l] = None THEN 0
                                               ELSE value'[metrics'[l]]
      BY <1>3 DEF UpdatesKept
    <3>1. CASE l = k
      BY <1>1, <1>4, <2>1, <3>1 DEF IInv, UpdatesKept, TypeInv, TypeOK, RegistryTypes
    <3>2. CASE l # k
      <4>1. metrics'[l] = metrics[l]
        BY <2>1, <3>2 DEF IInv, TypeInv, TypeOK, RegistryTypes
      <4>2. metrics[l] # None => metrics[l] # new /\ metrics[l] \in Instance
        BY <1>1, <3>2 DEF IInv, OwnInstance, TypeInv, TypeOK, RegistryTypes
      <4>3. metrics[l] # None => value'[metrics[l]] = value[metrics[l]]
        BY <2>1, <4>2 DEF IInv, TypeInv, TypeOK, RegistryTypes
      <4>4. QED
        BY <4>1, <4>3 DEF IInv, UpdatesKept
    <3>3. QED
      BY <3>1, <3>2
  <2>5. QED
    BY <2>2, <2>3, <2>4
<1>5. CASE metrics[k] # None
  <2>1. UNCHANGED <<metrics, value, ref>>
    BY <1>5 DEF Register, k, registryVars
  <2>2. RefIsRegistered'
    BY <1>1, <1>2, <1>3, <2>1 DEF IInv, RefIsRegistered, TypeInv, TypeOK, ThreadTypes
  <2>3. QED
    BY <1>3, <2>1, <2>2 DEF IInv, OwnInstance, UpdatesKept
<1>6. QED
  BY <1>4, <1>5

(* An update that returns is counted where the registry looks for it.      *)
LEMMA ReturnKeeps ==
  ASSUME IInv, NEW t \in Thread, SkipNil(t) \/ CounterInc(t) \/ Observe(t)
  PROVE  RefIsRegistered' /\ OwnInstance' /\ UpdatesKept'
<1> DEFINE k == Key(t)
<1>1. pc[t] \in {"update", "observe"} /\ metrics' = metrics
  BY DEF SkipNil, CounterInc, Observe, registryVars
<1>2. k \in Metric
  BY <1>1, KeyType DEF IInv, TypeInv, TypeOK, Updating
<1>3. /\ \A u \in Thread \ {t} : pc'[u] = pc[u] /\ Key(u)' = Key(u) /\ ref'[u] = ref[u]
      /\ ref'[t] = None /\ pc'[t] \in {"get", "select", "done"}
  BY DEF SkipNil, CounterInc, Observe, Return, IInv, TypeInv, TypeOK, ThreadTypes, Key
<1>4. RefIsRegistered'
  BY <1>1, <1>3 DEF IInv, RefIsRegistered
<1>5. OwnInstance'
  BY <1>1 DEF IInv, OwnInstance
<1>6. done' = [done EXCEPT ![k] = @ + 1]
  BY DEF SkipNil, CounterInc, Observe, Return
<1>7. CASE SkipNil(t)
  <2>1. skipped' = [skipped EXCEPT ![k] = @ + 1] /\ value' = value
    BY <1>7 DEF SkipNil, Return, registryVars
  <2>2. QED
    BY <1>1, <1>2, <1>4, <1>5, <1>6, <2>1
       DEF IInv, UpdatesKept, TypeInv, TypeOK, RegistryTypes
<1>8. CASE CounterInc(t) \/ Observe(t)
  <2>1. value' = [value EXCEPT ![ref[t]] = @ + 1]
    BY <1>8 DEF CounterInc, Observe
  <2>2. skipped' = [skipped EXCEPT ![k] = @ + 0]
    BY <1>8 DEF CounterInc, Observe, Return
  <2>3. ref[t] = metrics[k] /\ metrics[k] # None
    BY <1>8 DEF CounterInc, Observe, IInv, RefIsRegistered
  <2> HIDE DEF k
  <2>4. ASSUME NEW l \in Metric
        PROVE  done'[l] = skipped'[l] + IF metrics[l] = None THEN 0
                                        ELSE value'[metrics[l]]
    <3>1. /\ done[l] \in Nat /\ skipped[l] \in Nat
          /\ metrics[l] # None => metrics[l] \in Instance /\ value[metrics[l]] \in Nat
      BY DEF IInv, TypeInv, TypeOK, RegistryTypes
    <3>2. skipped'[l] = skipped[l]
      BY <2>2, <3>1, <1>2 DEF IInv, TypeInv, TypeOK, RegistryTypes
    <3>3. CASE l = k
      <4>1. done'[l] = done[l] + 1 /\ value'[metrics[l]] = value[metrics[l]] + 1
        BY <1>6, <2>1, <2>3, <3>1, <3>3 DEF IInv, TypeInv, TypeOK, RegistryTypes
      <4>2. QED
        BY <2>3, <3>1, <3>2, <3>3, <4>1 DEF IInv, UpdatesKept
    <3>4. CASE l # k
      <4>1. done'[l] = done[l]
        BY <1>6, <3>4 DEF IInv, TypeInv, TypeOK, RegistryTypes
      <4>2. metrics[l] # None => metrics[l] # metrics[k]
        BY <1>2, <2>3, <3>4 DEF IInv, OwnInstance
      <4>3. metrics[l] # None => value'[metrics[l]] = value[metrics[l]]
        BY <2>1, <2>3, <3>1, <4>2 DEF IInv, TypeInv, TypeOK, RegistryTypes
      <4>4. QED
        BY <3>2, <4>1, <4>3 DEF IInv, UpdatesKept
    <3>5. QED
      BY <3>3, <3>4
  <2>5. QED
    BY <1>1, <1>4, <1>5, <2>4 DEF UpdatesKept
<1>9. QED
  BY <1>7, <1>8

LEMMA Inductive == Spec => []IInv
<1>1. ASSUME IInv, [Next]_vars
      PROVE  RefIsRegistered' /\ OwnInstance' /\ UpdatesKept'
  <2>1. ASSUME NEW t \in Thread, Get(t)
        PROVE  RefIsRegistered' /\ OwnInstance' /\ UpdatesKept'
    <3>1. UNCHANGED <<metrics, value, done, skipped>>
      BY <2>1 DEF Get, registryVars
    <3>2. \A u \in Thread : Key(u)' = Key(u)
      BY <2>1 DEF Get, Key
    <3>3. RefIsRegistered'
      BY <1>1, <2>1, <3>1, <3>2
         DEF Get, Step, IInv, RefIsRegistered, TypeInv, TypeOK, ThreadTypes
    <3>4. QED
      BY <1>1, <3>1, <3>3 DEF IInv, OwnInstance, UpdatesKept
  <2>2. ASSUME NEW t \in Thread, RegisterLock(t) \/ ObserveLock(t)
        PROVE  RefIsRegistered' /\ OwnInstance' /\ UpdatesKept'
    <3>1. UNCHANGED <<metrics, value, done, skipped, ref>>
      BY <2>2 DEF RegisterLock, ObserveLock, registryVars
    <3>2. \A u \in Thread : Key(u)' = Key(u)
      BY <2>2 DEF RegisterLock, ObserveLock, Key
    <3>3. RefIsRegistered'
      BY <1>1, <2>2, <3>1, <3>2
         DEF RegisterLock, ObserveLock, Step, IInv, RefIsRegistered, TypeInv, TypeOK,
             ThreadTypes
    <3>4. QED
      BY <1>1, <3>1, <3>3 DEF IInv, OwnInstance, UpdatesKept
  <2>3. CASE LoopTake \/ LoopExit
    <3>1. /\ UNCHANGED <<metrics, value, done, skipped, ref>>
          /\ ref[Loop] = None /\ pc'[Loop] \in {"get", "gone"}
          /\ \A u \in Thread \ {Loop} : pc'[u] = pc[u] /\ Key(u)' = Key(u)
      BY <1>1, <2>3 DEF LoopTake, LoopExit, registryVars, IInv, RefIsRegistered,
                        TypeInv, TypeOK, ThreadTypes, Thread, Key
    <3>2. RefIsRegistered'
      BY <1>1, <3>1 DEF IInv, RefIsRegistered
    <3>3. QED
      BY <1>1, <3>1, <3>2 DEF IInv, OwnInstance, UpdatesKept
  <2>4. CASE (\E ev \in Event : ProcessEvent(ev)) \/ CollectorStep
             \/ Aggregate \/ WriterStep \/ UNCHANGED vars
    <3>1. UNCHANGED <<metrics, value, done, skipped, ref, pc, keys>>
      BY <2>4, ChannelFrame, CollectorFrame, AggregateFrame, WriterFrame
         DEF vars, threadVars, registryVars
    <3>2. \A u \in Thread : Key(u)' = Key(u)
      BY <3>1 DEF Key
    <3>3. QED
      BY <1>1, <3>1, <3>2 DEF IInv, RefIsRegistered, OwnInstance, UpdatesKept
  <2>5. QED
    BY <1>1, <2>1, <2>2, <2>3, <2>4, RegisterKeeps, ReturnKeeps, NextCases DEF Update
<1>2. IInv /\ [Next]_vars /\ TypeInv' => IInv'
  BY <1>1 DEF IInv
<1>3. QED
  BY <1>2, InitInv, TypeInductive, PTL DEF Spec

(* Whatever the interleaving of look-ups, registrations and updates, every *)
(* update that returned is in the instance the registry knows, or had got  *)
(* nil.                                                                    *)
THEOREM NoUpdateLost == Spec => []UpdatesKept
<1>1. IInv => UpdatesKept
  BY DEF IInv
<1>2. QED
  BY <1>1, Inductive, PTL

=============================================================================
