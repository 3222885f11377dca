-------------------------- MODULE StateTrackerProofs --------------------------
(***************************************************************************)
(* Proofs about StateTracker, for any epochs, any length of the hour and   *)
(* of the day and any bounds.                                              *)
(***************************************************************************)
EXTENDS StateTracker, FiniteSetTheorems, TLAPS

-----------------------------------------------------------------------------
(* The steps by actor, and what those of each actor leave alone.           *)

Reading == Metrics \/ Hourly \/ Daily

LEMMA NextCases ==
  ASSUME [Next]_vars
  PROVE  \/ Services \/ Tick \/ (\E kind \in Kinds : Listen(kind))
         \/ Reading \/ Prune \/ UNCHANGED vars
BY DEF Next, Reading

LEMMA ReadingFrame ==
  ASSUME Reading
  PROVE  UNCHANGED <<now, serviceVars, counterVars, pruneVars>>
<1> USE DEF StartRun, Read, Store
<1>1. CASE Metrics
  <2>1. CASE StatusInfo \/ FallbackInfo \/ StatusLocal \/ StatusAggregated
    BY <2>1 DEF StatusInfo, FallbackInfo, InfoStep, StatusLocal, StatusAggregated,
       FoundPhase, DefaultPhase
  <2>2. CASE ParticipationScan \/ ParticipationList \/ StatusPick \/ FallbackPick
    BY <2>2 DEF ParticipationScan, ParticipationList, StatusPick, FallbackPick, PickEpoch
  <2>3. QED
    BY <1>1, <2>1, <2>2 DEF Metrics, MetricsStart, MetricsUnlock, MetricsSummary,
       ParticipationStart, ParticipationStore, StatusStore
<1>2. CASE Hourly
  BY <1>2 DEF Hourly, HourlyStart, HourEpochs, HourStore, CountEpochs
<1>3. CASE Daily
  BY <1>3 DEF Daily, DailyStart, DailyEpochs, DailyBreakdown, DailyStore, CountEpochs
<1>4. QED
  BY <1>1, <1>2, <1>3 DEF Reading

LEMMA ServicesFrame ==
  ASSUME Services
  PROVE  UNCHANGED <<now, epochs, lastReset, readVars, pruneVars>> /\ published' = None
BY DEF Services, Activate, OpenWindow, OpenInfo, CloseWindow, CloseInfo, LocalBatch, Aggregate,
       BatchKeys, RemoteBatch, RemoteEntry, Begin, Finish, ServiceStep, Silent

LEMMA PruneFrame ==
  ASSUME Prune
  PROVE  UNCHANGED <<now, serviceVars, pending, pc, runs>> /\ published' = None
BY DEF Prune, PruneStart, PruneEpochs, PruneBatches, PruneReset, PruneTimeline, Silent,
       counterVars, readVars

LEMMA TickFrame ==
  ASSUME Tick
  PROVE  UNCHANGED <<stage, score, key, writes, counterVars, readVars, pruneVars>>
         /\ published' = None
BY DEF Tick, Silent

LEMMA ListenFrame ==
  ASSUME NEW kind \in Kinds, Listen(kind)
  PROVE  UNCHANGED <<now, lastReset, serviceVars, readVars, pruneVars>> /\ published' = None
BY DEF Listen, Silent

LEMMA AnEntry ==
  \A e \in Epoch, k \in {"open", "close", "local", "aggregated", "validator"} : <<k, e>> \in Entry
BY DEF Entry, EpochEntry, BatchEntry

(* A service takes one pipeline a step further, or none.                   *)
Starts(en) ==
  /\ Begin(en) /\ UNCHANGED key
  /\ IF en[1] = "validator" THEN UNCHANGED score ELSE ZAdd(en)
Ends(en) ==
  /\ Finish(en)
  /\ IF en[1] = "validator"
     THEN ZAdd(en) /\ UNCHANGED key
     ELSE UNCHANGED score /\ (Sets(en) \/ UNCHANGED key)

LEMMA ServicesDo ==
  ASSUME Services
  PROVE  \/ UNCHANGED <<stage, score, key, writes>>
         \/ \E en \in Entry : Starts(en) \/ Ends(en)
<1>1. PICK e \in Epoch :
        \/ Activate(e) \/ OpenWindow(e) \/ OpenInfo(e) \/ CloseWindow(e) \/ CloseInfo(e)
        \/ LocalBatch(e) \/ Aggregate(e) \/ \E kind \in {"local", "aggregated"} : BatchKeys(kind, e)
        \/ RemoteBatch(e) \/ RemoteEntry(e)
  BY DEF Services
<1>2. CASE Activate(e)
  BY <1>2 DEF Activate
<1>3. CASE OpenWindow(e)
  <2>1. Starts(<<"open", e>>)
    BY <1>3 DEF OpenWindow, Starts
  <2>2. QED
    BY <2>1, AnEntry
<1>4. CASE OpenInfo(e)
  <2>1. Ends(<<"open", e>>)
    BY <1>4 DEF OpenInfo, Ends
  <2>2. QED
    BY <2>1, AnEntry
<1>5. CASE CloseWindow(e)
  <2>1. Starts(<<"close", e>>)
    BY <1>5 DEF CloseWindow, Starts
  <2>2. QED
    BY <2>1, AnEntry
<1>6. CASE CloseInfo(e)
  <2>1. Ends(<<"close", e>>)
    BY <1>6 DEF CloseInfo, Ends
  <2>2. QED
    BY <2>1, AnEntry
<1>7. CASE LocalBatch(e)
  <2>1. Starts(<<"local", e>>)
    BY <1>7 DEF LocalBatch, Starts
  <2>2. QED
    BY <2>1, AnEntry
<1>8. CASE Aggregate(e)
  <2>1. Starts(<<"aggregated", e>>)
    BY <1>8 DEF Aggregate, Starts
  <2>2. QED
    BY <2>1, AnEntry
<1>9. ASSUME NEW kind \in {"local", "aggregated"}, BatchKeys(kind, e)
      PROVE  \E en \in Entry : Ends(en)
  <2>1. Ends(<<kind, e>>)
    BY <1>9 DEF BatchKeys, Ends
  <2>2. QED
    BY <2>1, AnEntry
<1>10. CASE RemoteBatch(e)
  <2>1. Starts(<<"validator", e>>)
    BY <1>10 DEF RemoteBatch, Starts
  <2>2. QED
    BY <2>1, AnEntry
<1>11. CASE RemoteEntry(e)
  <2>1. Ends(<<"validator", e>>)
    BY <1>11 DEF RemoteEntry, Ends
  <2>2. QED
    BY <2>1, AnEntry
<1>12. QED
  BY <1>1, <1>2, <1>3, <1>4, <1>5, <1>6, <1>7, <1>8, <1>9, <1>10, <1>11

-----------------------------------------------------------------------------
(* Type correctness.                                                       *)

LEMMA DayFacts == Day \in Nat \ {0} /\ InfoTTL \in Nat
BY TimeAssumption DEF Day, InfoTTL

LEMMA HourFacts ==
  ASSUME NEW t \in Nat
  PROVE  CurrentHour(t) \in Int /\ CurrentHour(t) <= t
<1>1. t % Hour \in Nat
  BY TimeAssumption
<1>2. QED
  BY <1>1 DEF CurrentHour

LEMMA EntryKinds ==
  /\ EpochEntry \subseteq Entry /\ BatchEntry \subseteq Entry
  /\ AggregatedEntry \subseteq BatchEntry /\ AggregatedEntry \subseteq Entry
BY DEF Entry, EpochEntry, BatchEntry, AggregatedEntry

LEMMA InitTypes == Init => TypeOK
<1> SUFFICES ASSUME Init PROVE TypeOK
  OBVIOUS
<1> USE TimeAssumption DEF Init
<1>1. ServiceTypes
  BY DEF ServiceTypes, Stages
<1>2. CounterTypes
  BY DEF CounterTypes
<1>3. RunTypes
  BY DEF RunTypes, RunRecord, Steps, NoRun
<1>4. PruneTypes
  BY DEF PruneTypes
<1>5. QED
  BY <1>1, <1>2, <1>3, <1>4 DEF TypeOK

LEMMA StepServiceTypes == TypeOK /\ [Next]_vars => ServiceTypes'
<1> SUFFICES ASSUME TypeOK, [Next]_vars PROVE ServiceTypes'
  OBVIOUS
<1> USE TimeAssumption DEF TypeOK
<1>1. CASE UNCHANGED <<now, serviceVars>>
  BY <1>1 DEF ServiceTypes, serviceVars
<1>2. CASE Services
  <2>1. UNCHANGED now
    BY <1>2, ServicesFrame
  <2>2. ASSUME NEW en \in Entry, Starts(en) \/ Ends(en)
        PROVE  /\ stage' \in [Entry -> Stages] /\ writes' \in 0 .. MaxWrites
               /\ score' \in [Entry -> (0 .. MaxTime) \cup {None}]
               /\ key' \in [Entry -> (0 .. MaxTime) \cup {None}]
    <3>1. stage' \in [Entry -> Stages] /\ writes' \in 0 .. MaxWrites
      BY <2>2 DEF Starts, Ends, Begin, Finish, ServiceTypes, Stages
    <3>2. UNCHANGED score \/ \E t \in 0 .. MaxTime : score' = [score EXCEPT ![en] = t]
      <4>1. UNCHANGED score \/ ZAdd(en)
        BY <2>2 DEF Starts, Ends
      <4>2. ASSUME NEW t \in now - MaxLag .. now, t >= 0 PROVE t \in 0 .. MaxTime
        BY <4>2 DEF ServiceTypes
      <4>3. QED
        BY <4>1, <4>2 DEF ZAdd
    <3>3. UNCHANGED key \/ key' = [key EXCEPT ![en] = now]
      BY <2>2 DEF Starts, Ends, Sets
    <3>4. QED
      BY <3>1, <3>2, <3>3 DEF ServiceTypes
  <2>3. /\ stage' \in [Entry -> Stages] /\ writes' \in 0 .. MaxWrites
        /\ score' \in [Entry -> (0 .. MaxTime) \cup {None}]
        /\ key' \in [Entry -> (0 .. MaxTime) \cup {None}]
    BY <1>2, <2>2, ServicesDo DEF ServiceTypes
  <2>4. active' \subseteq Epoch /\ activeUntil' \in Nat \cup {None}
    BY <1>2, DayFacts, EpochAssumption DEF ServiceTypes, Services, Activate, OpenWindow, OpenInfo,
       CloseWindow, CloseInfo, LocalBatch, Aggregate, BatchKeys, RemoteBatch, RemoteEntry
  <2>5. info' \in [Epoch -> {"open", "closed", None}]
    BY <1>2 DEF ServiceTypes, Services, Activate, OpenWindow, OpenInfo,
       CloseWindow, CloseInfo, LocalBatch, Aggregate, BatchKeys, RemoteBatch, RemoteEntry
  <2>6. QED
    BY <2>1, <2>3, <2>4, <2>5 DEF ServiceTypes
<1>3. CASE Tick
  <2>1. now' \in 0 .. MaxTime /\ UNCHANGED <<stage, score, key, writes>>
    BY <1>3 DEF Tick, ServiceTypes
  <2>2. active' \subseteq Epoch /\ activeUntil' \in Nat \cup {None}
    BY <1>3 DEF Tick, ServiceTypes
  <2>3. info' \in [Epoch -> {"open", "closed", None}]
    BY <1>3 DEF Tick, ServiceTypes
  <2>4. QED
    BY <2>1, <2>2, <2>3 DEF ServiceTypes
<1>4. QED
  BY <1>1, <1>2, <1>3, NextCases, ReadingFrame, ListenFrame, PruneFrame DEF vars

LEMMA StepCounterTypes == TypeOK /\ [Next]_vars => CounterTypes'
<1> SUFFICES ASSUME TypeOK, [Next]_vars PROVE CounterTypes'
  OBVIOUS
<1> USE TimeAssumption DEF TypeOK, CounterTypes
<1>1. CASE UNCHANGED counterVars
  BY <1>1 DEF counterVars
<1>2. CASE Services
  <2>1. UNCHANGED <<epochs, lastReset>>
    BY <1>2, ServicesFrame
  <2>2. pending' \in [Kinds -> Nat]
    BY <1>2 DEF Services, Activate, OpenWindow, OpenInfo, CloseWindow, CloseInfo, LocalBatch,
       Aggregate, BatchKeys, RemoteBatch, RemoteEntry, PublishChange, Kinds
  <2>3. QED
    BY <2>1, <2>2
<1>3. ASSUME NEW kind \in Kinds, Listen(kind) PROVE CounterTypes'
  BY <1>3 DEF Listen, processSimpleStateChange
<1>4. CASE Prune
  BY <1>4 DEF Prune, PruneStart, PruneEpochs, PruneBatches, PruneTimeline, PruneReset,
     counterVars, ServiceTypes
<1>5. QED
  BY <1>1, <1>2, <1>3, <1>4, NextCases, ReadingFrame, TickFrame DEF vars

LEMMA StepPruneTypes == TypeOK /\ [Next]_vars => PruneTypes'
<1> SUFFICES ASSUME TypeOK, [Next]_vars PROVE PruneTypes'
  OBVIOUS
<1> USE TimeAssumption DEF TypeOK, PruneTypes
<1>1. CASE UNCHANGED pruneVars
  BY <1>1 DEF pruneVars
<1>2. CASE PruneStart
  BY <1>2, DayFacts DEF PruneStart, ServiceTypes
<1>3. CASE PruneReset
  BY <1>3 DEF PruneReset
<1>4. CASE PruneEpochs \/ PruneBatches
  BY <1>4 DEF PruneEpochs, PruneBatches, PruneTimeline, Entry
<1>5. QED
  BY <1>1, <1>2, <1>3, <1>4, NextCases, ReadingFrame, TickFrame, ListenFrame, ServicesFrame
     DEF vars, Prune

(* The locals of a run.                                                    *)
LEMMA RunFields ==
  ASSUME NEW r \in RunRecord
  PROVE  /\ r.began \in 0 .. MaxTime /\ r.began \in Int /\ r.hour \in Nat
         /\ r.start \in Int /\ r.end \in Int
         /\ r.present \subseteq Entry /\ r.list \subseteq Entry /\ r.counted \subseteq Entry
         /\ r.breakdown \subseteq Nat \X Entry
         /\ r.facts \subseteq {"open", "closed", "local", "aggregated"}
BY TimeAssumption DEF RunRecord

(* Nothing is counted yet.                                                 *)
Blank(r) == /\ r.present = {} /\ r.list = {} /\ r.counted = {} /\ r.hour = 0 /\ r.breakdown = {}
            /\ r.end = 0

LEMMA BeganFields ==
  ASSUME NEW t \in 0 .. MaxTime
  PROVE  Began(t) \in RunRecord /\ Began(t).began = t /\ Blank(Began(t))
<1>1. NoRun \in RunRecord
  BY TimeAssumption DEF RunRecord, NoRun
<1>2. Blank(NoRun)
  BY DEF NoRun, Blank
<1>3. QED
  BY <1>1, <1>2 DEF RunRecord, Began, Blank

LEMMA NoRunFields == NoRun \in RunRecord /\ NoRun.began = 0 /\ Blank(NoRun)
<1>1. NoRun \in RunRecord
  BY TimeAssumption DEF RunRecord, NoRun
<1>2. QED
  BY <1>1 DEF NoRun, Blank

LEMMA ContinuedFields ==
  ASSUME TypeOK
  PROVE  Continued \in RunRecord /\ Continued.began = run.began /\ Blank(Continued)
<1>1. run.began \in 0 .. MaxTime
  BY RunFields DEF TypeOK, RunTypes
<1>2. QED
  BY <1>1, BeganFields DEF Continued

LEMMA OverFields ==
  ASSUME NEW r \in RunRecord, NEW S \in SUBSET Entry, NEW from \in Int, NEW to \in Int
  PROVE  /\ Over(r, S, from, to) \in RunRecord /\ Over(r, S, from, to).began = r.began
         /\ Over(r, S, from, to).start = from /\ Over(r, S, from, to).end = to
         /\ Over(r, S, from, to).present = Between(S \cap Readable, from, to)
         /\ Over(r, S, from, to).list = r.list /\ Over(r, S, from, to).counted = r.counted
         /\ Over(r, S, from, to).hour = r.hour /\ Over(r, S, from, to).breakdown = r.breakdown
<1> DEFINE P == Between(S \cap Readable, from, to)
<1>1. P \subseteq Entry /\ Over(r, S, from, to) = [r EXCEPT !.start = from, !.end = to, !.present = P]
  BY DEF Between, Over
<1> HIDE DEF P
<1>2. QED
  BY <1>1, ZenonT(60) DEF RunRecord, P

(* What every local but the named ones keeps.                              *)
Same(r, s) == /\ r.began = s.began /\ r.start = s.start /\ r.end = s.end
              /\ r.epoch = s.epoch /\ r.facts = s.facts
Uncounted(r, s) == r.list = s.list /\ r.counted = s.counted
                   /\ r.hour = s.hour /\ r.breakdown = s.breakdown

LEMMA FailedFields ==
  ASSUME run \in RunRecord
  PROVE  /\ Failed \in RunRecord /\ Failed.failed = TRUE /\ Failed.present = {}
         /\ Failed.phase = run.phase /\ Same(Failed, run) /\ Uncounted(Failed, run)
BY ZenonT(60) DEF RunRecord, Failed, Same, Uncounted

LEMMA PhaseFields ==
  ASSUME NEW r \in RunRecord, NEW p \in Phases
  PROVE  /\ [r EXCEPT !.phase = p] \in RunRecord /\ [r EXCEPT !.phase = p].phase = p
         /\ [r EXCEPT !.phase = p].failed = r.failed
         /\ [r EXCEPT !.phase = p].present = r.present
         /\ Same([r EXCEPT !.phase = p], r) /\ Uncounted([r EXCEPT !.phase = p], r)
BY ZenonT(60) DEF RunRecord, Same, Uncounted

LEMMA CountFields ==
  ASSUME NEW r \in RunRecord, NEW S \in SUBSET Entry
  PROVE  /\ [r EXCEPT !.counted = S] \in RunRecord /\ [r EXCEPT !.counted = S].counted = S
         /\ [r EXCEPT !.counted = S].present = r.present /\ [r EXCEPT !.counted = S].list = r.list
         /\ [r EXCEPT !.counted = S].hour = r.hour
         /\ [r EXCEPT !.counted = S].breakdown = r.breakdown /\ Same([r EXCEPT !.counted = S], r)
BY ZenonT(60) DEF RunRecord, Same

LEMMA ListFields ==
  ASSUME NEW r \in RunRecord, NEW S \in SUBSET Entry
  PROVE  /\ [r EXCEPT !.list = S] \in RunRecord /\ [r EXCEPT !.list = S].list = S
         /\ [r EXCEPT !.list = S].present = r.present
         /\ [r EXCEPT !.list = S].counted = r.counted
         /\ [r EXCEPT !.list = S].hour = r.hour
         /\ [r EXCEPT !.list = S].breakdown = r.breakdown /\ Same([r EXCEPT !.list = S], r)
BY ZenonT(60) DEF RunRecord, Same

LEMMA HourCountFields ==
  ASSUME NEW r \in RunRecord, NEW S \in SUBSET Entry
  PROVE  /\ HourCount(r, S) \in RunRecord /\ HourCount(r, S).hour = r.hour + 1
         /\ HourCount(r, S).breakdown = r.breakdown \cup ({r.hour} \X S)
         /\ HourCount(r, S).present = r.present /\ HourCount(r, S).counted = r.counted
         /\ HourCount(r, S).list = r.list /\ Same(HourCount(r, S), r)
<1>1. r.hour \in Nat /\ r.breakdown \subseteq Nat \X Entry
  BY DEF RunRecord
<1> DEFINE h == r.hour + 1
           b == r.breakdown \cup ({r.hour} \X S)
<1>2. h \in Nat /\ b \subseteq Nat \X Entry /\ HourCount(r, S) = [r EXCEPT !.hour = h, !.breakdown = b]
  BY <1>1 DEF HourCount
<1> HIDE DEF h, b
<1>3. HourCount(r, S) \in RunRecord
  BY <1>2, ZenonT(60) DEF RunRecord
<1>4. HourCount(r, S).hour = h /\ HourCount(r, S).breakdown = b
  BY <1>2, ZenonT(60) DEF RunRecord
<1>5. /\ HourCount(r, S).present = r.present /\ HourCount(r, S).counted = r.counted
      /\ HourCount(r, S).list = r.list /\ Same(HourCount(r, S), r)
  BY <1>2, ZenonT(60) DEF RunRecord, Same
<1>6. QED
  BY <1>3, <1>4, <1>5 DEF h, b

LEMMA FactsTypes == \A e \in Epoch : Facts(e) \subseteq {"open", "closed", "local", "aggregated"}
BY DEF Facts

LEMMA RangeTypes ==
  ASSUME NEW S \in SUBSET Entry, NEW from, NEW to
  PROVE  Between(S, from, to) \subseteq Entry /\ ZRange(S, from, to) \subseteq Entry
BY DEF ZRange, Between

(* What the steps of ParticipationList make of the locals.                 *)
LEMMA ListSteps ==
  ASSUME TypeOK, ParticipationList
  PROVE  /\ pc = "lists" /\ pc' = "lists"
         /\ \E en \in run.list, r \in {run, Failed} :
              \/ run' = [r EXCEPT !.list = run.list \ {en}] /\ (r = Failed \/ ~Exists(en[1], en[2]))
              \/ run' = [[run EXCEPT !.list = run.list \ {en}] EXCEPT !.counted = run.counted \cup {en}]
<1>1. run \in RunRecord
  BY DEF TypeOK, RunTypes
<1>2. PICK en \in run.list :
        LET rest == [run EXCEPT !.list = @ \ {en}]
        IN \/ Exists(en[1], en[2]) /\ Read("lists", "lists", [rest EXCEPT !.counted = @ \cup {en}])
           \/ ~Exists(en[1], en[2]) /\ Read("lists", "lists", rest)
           \/ Read("lists", "lists", [Failed EXCEPT !.list = rest.list])
  BY DEF ParticipationList
<1>3. /\ run.list \ {en} \in SUBSET Entry
      /\ [run EXCEPT !.list = run.list \ {en}].list = run.list \ {en}
      /\ [run EXCEPT !.list = run.list \ {en}].counted = run.counted
  BY <1>1, ListFields, RunFields
<1>4. CASE Read("lists", "lists", [run EXCEPT !.list = run.list \ {en}]) /\ ~Exists(en[1], en[2])
  BY <1>4 DEF Read
<1>5. CASE Read("lists", "lists", [Failed EXCEPT !.list = run.list \ {en}])
  BY <1>5 DEF Read
<1>6. CASE Read("lists", "lists", [[run EXCEPT !.list = run.list \ {en}]
                                     EXCEPT !.counted = run.counted \cup {en}])
  BY <1>6 DEF Read
<1>7. QED
  BY <1>2, <1>3, <1>4, <1>5, <1>6

(* Where the steps of the readers lead.                                    *)
LEMMA ReadingInto ==
  ASSUME Reading
  PROVE  /\ pc' \in {"processed", "summary"} => MetricsStart \/ MetricsUnlock
         /\ pc' \in EpochSteps => Hourly \/ Daily
         /\ pc' \in {"scan", "lists"} => ParticipationStart \/ ParticipationScan \/ ParticipationList
         /\ pc' \in KeySteps => \/ StatusPick \/ FallbackPick \/ StatusInfo \/ FallbackInfo
                                \/ StatusLocal \/ StatusAggregated
<1> USE DEF StartRun, Read, Store, EpochSteps, KeySteps
<1>1. CASE Metrics
  <2>1. CASE StatusInfo \/ FallbackInfo \/ StatusLocal \/ StatusAggregated
    BY <2>1 DEF StatusInfo, FallbackInfo, InfoStep, StatusLocal, StatusAggregated,
       FoundPhase, DefaultPhase
  <2>2. CASE ParticipationScan \/ ParticipationList \/ StatusPick \/ FallbackPick
    BY <2>2 DEF ParticipationScan, ParticipationList, StatusPick, FallbackPick, PickEpoch
  <2>3. CASE MetricsStart \/ MetricsUnlock \/ MetricsSummary \/ ParticipationStart
    BY <2>3 DEF MetricsStart, MetricsUnlock, MetricsSummary, ParticipationStart
  <2>4. CASE ParticipationStore \/ StatusStore
    BY <2>4 DEF ParticipationStore, StatusStore
  <2>5. QED
    BY <1>1, <2>1, <2>2, <2>3, <2>4 DEF Metrics
<1>2. CASE Hourly
  BY <1>2 DEF Hourly, HourlyStart, HourEpochs, HourStore, CountEpochs
<1>3. CASE Daily
  BY <1>3 DEF Daily, DailyStart, DailyEpochs, DailyBreakdown, DailyStore, CountEpochs
<1>4. QED
  BY <1>1, <1>2, <1>3 DEF Reading

LEMMA StepRunTypes == TypeOK /\ [Next]_vars => RunTypes'
<1> SUFFICES ASSUME TypeOK, [Next]_vars PROVE RunTypes'
  OBVIOUS
<1> USE TimeAssumption
<1>1. CASE UNCHANGED readVars
  BY <1>1 DEF readVars, TypeOK, RunTypes
<1>2. NoRun \in RunRecord /\ Continued \in RunRecord /\ Failed \in RunRecord
  BY NoRunFields, ContinuedFields, FailedFields DEF TypeOK, RunTypes
<1>3. now \in 0 .. MaxTime /\ now \in Nat /\ now \in Int /\ now - Day \in Int
      /\ epochs \in Nat /\ run \in RunRecord
  BY DayFacts DEF TypeOK, ServiceTypes, CounterTypes, RunTypes
<1>4. ASSUME NEW step \in Steps, NEW l \in RunRecord, StartRun(step, l) PROVE RunTypes'
  BY <1>4 DEF StartRun, TypeOK, RunTypes
<1>5. ASSUME NEW step, NEW next \in Steps, NEW l \in RunRecord,
             Read(step, next, l) \/ \E d : Store(step, next, l, d)
      PROVE  RunTypes'
  BY <1>5 DEF Read, Store, TypeOK, RunTypes
<1>6. \A S \in SUBSET Entry : /\ [run EXCEPT !.counted = S] \in RunRecord
                              /\ [run EXCEPT !.list = S] \in RunRecord
                              /\ [Failed EXCEPT !.list = S] \in RunRecord
  BY <1>2, <1>3, CountFields, ListFields
<1> USE DEF Steps, EpochSteps, KeySteps
<1>7. CASE Metrics
  <2>1. CASE MetricsStart
    <3>1. [NoRun EXCEPT !.began = now, !.rated = epochs] \in RunRecord
      BY <1>2, <1>3, ZenonT(60) DEF RunRecord, NoRun
    <3>2. QED
      BY <1>4, <2>1, <3>1 DEF MetricsStart
  <2>2. CASE MetricsUnlock \/ MetricsSummary \/ ParticipationStore \/ StatusStore
    BY <1>2, <1>3, <1>5, <2>2 DEF MetricsUnlock, MetricsSummary, ParticipationStore, StatusStore
  <2>3. CASE ParticipationStart
    <3>1. Over(Continued, AggregatedEntry, now - Day, now) \in RunRecord
      BY <1>2, <1>3, OverFields, EntryKinds
    <3>2. QED
      BY <1>5, <2>3, <3>1 DEF ParticipationStart
  <2>4. CASE ParticipationScan
    <3> DEFINE S == ZRange(BatchEntry, run.start, run.end) \cap AggregatedEntry
    <3>1. S \in SUBSET Entry
      BY EntryKinds
    <3> HIDE DEF S
    <3>2. [run EXCEPT !.list = S] \in RunRecord
      BY <1>6, <3>1
    <3>3. QED
      BY <1>2, <1>5, <2>4, <3>2 DEF ParticipationScan, S
  <2>5. CASE ParticipationList
    <3>1. PICK en \in run.list, r \in {run, Failed} :
            \/ run' = [r EXCEPT !.list = run.list \ {en}]
            \/ run' = [[run EXCEPT !.list = run.list \ {en}] EXCEPT !.counted = run.counted \cup {en}]
      BY <2>5, ListSteps
    <3>2. /\ run.list \ {en} \in SUBSET Entry /\ run.counted \cup {en} \in SUBSET Entry
      BY <1>3, RunFields
    <3>3. \A S, T \in SUBSET Entry : [[run EXCEPT !.list = S] EXCEPT !.counted = T] \in RunRecord
      BY <1>6, CountFields
    <3>4. [r EXCEPT !.list = run.list \ {en}] \in RunRecord
      BY <1>6, <3>2
    <3>5. run' \in RunRecord
      BY <3>1, <3>2, <3>3, <3>4
    <3>6. pc' = "lists" /\ runs' = runs
      BY <2>5 DEF ParticipationList, Read
    <3>7. QED
      BY <3>5, <3>6 DEF TypeOK, RunTypes
  <2>6. ASSUME NEW from, NEW to \in Steps, NEW e \in Epoch, PickEpoch(from, to, e) PROVE RunTypes'
    <3>1. [Continued EXCEPT !.epoch = e, !.facts = Facts(e)] \in RunRecord
      BY <1>2, FactsTypes, ZenonT(60) DEF RunRecord
    <3>2. QED
      BY <1>5, <2>6, <3>1 DEF PickEpoch
  <2>7. CASE StatusPick
    BY <1>2, <1>5, <2>6, <2>7 DEF StatusPick, TypeOK, ServiceTypes
  <2>8. CASE FallbackPick
    BY <1>2, <1>5, <2>6, <2>8 DEF FallbackPick
  <2>9. ASSUME NEW p \in Phases, NEW from, FoundPhase(from, p) \/ DefaultPhase(from, p) PROVE RunTypes'
    <3>1. [run EXCEPT !.phase = p] \in RunRecord /\ [Failed EXCEPT !.phase = p] \in RunRecord
      BY <1>2, <1>3, PhaseFields
    <3>2. QED
      BY <1>5, <2>9, <3>1 DEF FoundPhase, DefaultPhase
  <2>10. CASE StatusInfo \/ FallbackInfo
    BY <1>3, <1>5, <2>9, <2>10 DEF StatusInfo, FallbackInfo, InfoStep, Phases
  <2>11. CASE StatusLocal
    BY <1>3, <1>5, <2>9, <2>11 DEF StatusLocal, Phases
  <2>12. CASE StatusAggregated
    BY <2>9, <2>12 DEF StatusAggregated, Phases
  <2>13. QED
    BY <1>7, <2>1, <2>2, <2>3, <2>4, <2>5, <2>7, <2>8, <2>10, <2>11, <2>12 DEF Metrics
<1>8. ASSUME NEW from, NEW to \in Steps, CountEpochs(from, to) PROVE RunTypes'
  <2> DEFINE S == ZRange(EpochEntry, run.start, run.end)
  <2>1. S \in SUBSET Entry
    BY RangeTypes, EntryKinds
  <2> HIDE DEF S
  <2>2. [run EXCEPT !.counted = S] \in RunRecord
    BY <1>6, <2>1
  <2>3. QED
    BY <1>2, <1>5, <1>8, <2>2 DEF CountEpochs, S
<1>9. CASE Hourly
  <2>1. CASE HourlyStart
    <3>1. Over(Began(now), EpochEntry, CurrentHour(now), now) \in RunRecord
      <4>1. Began(now) \in RunRecord
        BY <1>3, BeganFields
      <4>2. CurrentHour(now) \in Int
        BY <1>3, HourFacts
      <4>3. QED
        BY <1>3, <4>1, <4>2, OverFields, EntryKinds
    <3>2. QED
      BY <1>4, <2>1, <3>1 DEF HourlyStart
  <2>2. CASE HourEpochs
    BY <1>8, <2>2 DEF HourEpochs
  <2>3. CASE HourStore
    <3>1. CurrentHour(run.began) \in Int /\ CurrentHour(run.began) - Hour \in Int
      BY <1>3, HourFacts DEF RunRecord
    <3>2. Over(Continued, EpochEntry, CurrentHour(run.began) - Hour, CurrentHour(run.began)) \in RunRecord
      BY <1>2, <3>1, OverFields, EntryKinds
    <3>3. QED
      BY <1>2, <1>5, <2>3, <3>2 DEF HourStore
  <2>4. QED
    BY <1>9, <2>1, <2>2, <2>3 DEF Hourly
<1>10. CASE DailyBreakdown
  <2>1. PICK r \in {run, Failed}, S \in SUBSET Entry, next \in {"breakdown", "dayStore"} :
          Read("breakdown", next, HourCount(r, S))
    BY <1>10, RangeTypes, EntryKinds DEF DailyBreakdown
  <2>2. HourCount(r, S) \in RunRecord
    BY <1>2, <1>3, HourCountFields
  <2>3. QED
    BY <1>5, <2>1, <2>2
<1>11. CASE Daily
  <2>1. CASE DailyStart
    <3>1. Over(Began(now), EpochEntry, now - Day, now) \in RunRecord
      BY <1>3, BeganFields, OverFields, EntryKinds
    <3>2. QED
      BY <1>4, <2>1, <3>1 DEF DailyStart
  <2>2. CASE DailyEpochs
    BY <1>8, <2>2 DEF DailyEpochs
  <2>3. CASE DailyStore
    BY <1>2, <1>5, <2>3 DEF DailyStore
  <2>4. QED
    BY <1>10, <1>11, <2>1, <2>2, <2>3 DEF Daily
<1>12. CASE Prune
  <2>1. UNCHANGED <<pc, runs>>
    BY <1>12, PruneFrame
  <2>2. run' = run \/ run' = [run EXCEPT !.reset = pc = "summary"]
    BY <1>12 DEF Prune, PruneStart, PruneEpochs, PruneBatches, PruneTimeline, PruneReset, readVars
  <2>3. (pc = "summary") \in BOOLEAN
    OBVIOUS
  <2>4. \A b \in BOOLEAN : [run EXCEPT !.reset = b] \in RunRecord
    BY <1>3 DEF RunRecord
  <2>5. [run EXCEPT !.reset = pc = "summary"] \in RunRecord
    BY <2>3, <2>4
  <2>6. QED
    BY <1>3, <2>1, <2>2, <2>5 DEF TypeOK, RunTypes
<1>13. QED
  BY <1>1, <1>7, <1>9, <1>10, <1>11, <1>12, NextCases, TickFrame, ListenFrame, ServicesFrame
     DEF vars, Reading

LEMMA StepTypes == TypeOK /\ [Next]_vars => TypeOK'
BY StepServiceTypes, StepCounterTypes, StepRunTypes, StepPruneTypes DEF TypeOK

-----------------------------------------------------------------------------
(* How far the pipeline of an entry has come, and what it has left.        *)

Staged(en) ==
  /\ stage[en] = "none" => ~Written(en)
  /\ stage[en] # "done" => ~Keyed(en)
  /\ stage[en] = "added" => (Written(en) <=> en[1] # "validator")
  /\ Written(en) => score[en] \in Nat /\ score[en] <= now
  /\ Keyed(en) => Written(en) /\ key[en] \in Nat /\ score[en] <= key[en] /\ key[en] <= now
AllStaged == \A en \in Entry : Staged(en)

(* The entry a service has written, as it stands after the step.           *)
LEMMA ScoreChanged ==
  ASSUME TypeOK, NEW en \in Entry, ZAdd(en)
  PROVE  /\ score'[en] \in Nat /\ score'[en] <= now /\ Written(en)'
         /\ \A x \in Entry : x # en => score'[x] = score[x]
<1>1. PICK t \in now - MaxLag .. now : t >= 0 /\ score' = [score EXCEPT ![en] = t]
  BY DEF ZAdd
<1>2. t \in Nat /\ t <= now /\ t # None
  BY <1>1, NoneAssumption, TimeAssumption DEF TypeOK, ServiceTypes
<1>3. score'[en] = t /\ \A x \in Entry : x # en => score'[x] = score[x]
  BY <1>1 DEF TypeOK, ServiceTypes
<1>4. QED
  BY <1>2, <1>3 DEF Written

LEMMA KeyChanged ==
  ASSUME TypeOK, NEW en \in Entry, Sets(en)
  PROVE  /\ key'[en] = now /\ Keyed(en)'
         /\ \A x \in Entry : x # en => key'[x] = key[x]
<1>1. now # None
  BY NoneAssumption DEF TypeOK, ServiceTypes
<1>2. key'[en] = now /\ \A x \in Entry : x # en => key'[x] = key[x]
  BY DEF Sets, TypeOK, ServiceTypes
<1>3. QED
  BY <1>1, <1>2 DEF Keyed

LEMMA StageChanged ==
  ASSUME TypeOK, NEW en \in Entry, Begin(en) \/ Finish(en)
  PROVE  /\ stage'[en] = IF Begin(en) THEN "added" ELSE "done"
         /\ stage[en] = IF Begin(en) THEN "none" ELSE "added"
         /\ \A x \in Entry : x # en => stage'[x] = stage[x]
BY DEF Begin, Finish, TypeOK, ServiceTypes

(* The other entries are left alone, and so is the clock.                  *)
LEMMA OthersKept ==
  ASSUME TypeOK, NEW en \in Entry, Starts(en) \/ Ends(en)
  PROVE  /\ UNCHANGED now
         /\ \A x \in Entry : x # en => /\ stage'[x] = stage[x] /\ score'[x] = score[x] /\ key'[x] = key[x]
                                       /\ (Written(x)' <=> Written(x)) /\ (Keyed(x)' <=> Keyed(x))
<1>1. Begin(en) \/ Finish(en)
  BY DEF Starts, Ends
<1>2. UNCHANGED score \/ ZAdd(en)
  BY DEF Starts, Ends
<1>3. UNCHANGED key \/ Sets(en)
  BY DEF Starts, Ends
<1>4. UNCHANGED now
  BY <1>1 DEF Begin, Finish, ServiceStep
<1>5. \A x \in Entry : x # en => stage'[x] = stage[x] /\ score'[x] = score[x] /\ key'[x] = key[x]
  BY <1>1, <1>2, <1>3, StageChanged, ScoreChanged, KeyChanged
<1>6. QED
  BY <1>4, <1>5 DEF Written, Keyed

(* And the entry itself goes on.                                           *)
LEMMA EntryOn ==
  ASSUME TypeOK, NEW en \in Entry, Staged(en), Starts(en) \/ Ends(en)
  PROVE  /\ Staged(en)'
         /\ stage[en] # "done" /\ stage'[en] # "none"
         /\ Written(en) => Written(en)' /\ score'[en] = score[en]
         /\ ~Keyed(en)
<1>1. now \in Nat /\ UNCHANGED now
  BY OthersKept DEF TypeOK, ServiceTypes
<1>2. CASE Starts(en)
  <2>1. stage[en] = "none" /\ stage'[en] = "added"
    BY <1>2, StageChanged DEF Starts
  <2>2. ~Written(en) /\ ~Keyed(en) /\ ~Keyed(en)'
    BY <1>2, <2>1 DEF Staged, Starts, Keyed
  <2>3. CASE en[1] = "validator"
    <3>1. ~Written(en)'
      BY <1>2, <2>2, <2>3 DEF Starts, Written
    <3>2. QED
      BY <2>1, <2>2, <2>3, <3>1 DEF Staged
  <2>4. CASE en[1] # "validator"
    <3>1. ZAdd(en)
      BY <1>2, <2>4 DEF Starts
    <3>2. Written(en)' /\ score'[en] \in Nat /\ score'[en] <= now
      BY <3>1, ScoreChanged
    <3>3. QED
      BY <1>1, <2>1, <2>2, <2>4, <3>2 DEF Staged
  <2>5. QED
    BY <2>3, <2>4
<1>3. CASE Ends(en)
  <2>1. stage[en] = "added" /\ stage'[en] = "done"
    <3>1. Finish(en) /\ stage[en] = "added"
      BY <1>3 DEF Ends, Finish
    <3>2. QED
      BY <3>1, StageChanged DEF Begin
  <2>2. ~Keyed(en) /\ (Written(en) <=> en[1] # "validator")
    BY <2>1 DEF Staged
  <2>3. CASE en[1] = "validator"
    <3>1. Written(en)' /\ score'[en] \in Nat /\ score'[en] <= now
      BY <1>3, <2>3, ScoreChanged DEF Ends
    <3>2. ~Keyed(en)'
      BY <1>3, <2>2, <2>3 DEF Ends, Keyed
    <3>3. QED
      BY <1>1, <2>1, <2>2, <2>3, <3>1, <3>2 DEF Staged
  <2>4. CASE en[1] # "validator"
    <3>1. UNCHANGED score /\ (Sets(en) \/ UNCHANGED key)
      BY <1>3, <2>4 DEF Ends
    <3>2. Written(en) /\ Written(en)' /\ score'[en] = score[en] /\ score[en] \in Nat /\ score[en] <= now
      BY <2>2, <2>4, <3>1 DEF Staged, Written
    <3>3. CASE Sets(en)
      <4>1. key'[en] = now /\ Keyed(en)'
        BY <3>3, KeyChanged
      <4>2. QED
        BY <1>1, <2>1, <2>2, <3>2, <4>1 DEF Staged
    <3>4. CASE UNCHANGED key
      <4>1. ~Keyed(en)'
        BY <2>2, <3>4 DEF Keyed
      <4>2. QED
        BY <1>1, <2>1, <2>2, <3>2, <4>1 DEF Staged
    <3>5. QED
      BY <3>1, <3>3, <3>4
  <2>5. QED
    BY <2>3, <2>4
<1>4. QED
  BY <1>2, <1>3

(* What a step does to the entries.                                        *)
LEMMA Onward ==
  ASSUME TypeOK, [Next]_vars
  PROVE  /\ now' \in {now, now + 1} /\ now \in Nat /\ now' \in Nat /\ now <= now'
         /\ \/ UNCHANGED <<stage, score, key>>
            \/ \E en \in Entry : Starts(en) \/ Ends(en)
<1>1. CASE Services
  BY <1>1, ServicesFrame, ServicesDo DEF TypeOK, ServiceTypes
<1>2. CASE Tick
  BY <1>2 DEF Tick, TypeOK, ServiceTypes
<1>3. CASE UNCHANGED <<now, serviceVars>>
  BY <1>3 DEF serviceVars, TypeOK, ServiceTypes
<1>4. QED
  BY <1>1, <1>2, <1>3, NextCases, ReadingFrame, ListenFrame, PruneFrame DEF vars

LEMMA StepStaged == TypeOK /\ AllStaged /\ [Next]_vars => AllStaged'
<1> SUFFICES ASSUME TypeOK, AllStaged, [Next]_vars, NEW x \in Entry PROVE Staged(x)'
  BY DEF AllStaged
<1>1. Staged(x) /\ now \in Nat /\ now' \in Nat /\ now <= now'
  BY Onward DEF AllStaged
<1>2. CASE UNCHANGED <<stage, score, key>>
  BY <1>1, <1>2 DEF Staged, Written, Keyed
<1>3. ASSUME NEW en \in Entry, Starts(en) \/ Ends(en) PROVE Staged(x)'
  <2>1. CASE x = en
    BY <1>1, <1>3, <2>1, EntryOn
  <2>2. CASE x # en
    <3>1. /\ stage'[x] = stage[x] /\ score'[x] = score[x] /\ key'[x] = key[x] /\ now' = now
          /\ (Written(x)' <=> Written(x)) /\ (Keyed(x)' <=> Keyed(x))
      BY <1>3, <2>2, OthersKept
    <3>2. QED
      BY <1>1, <3>1 DEF Staged
  <2>3. QED
    BY <2>1, <2>2
<1>4. QED
  BY <1>2, <1>3, Onward

(* What is written stays, with the times it was written at.                *)
LEMMA Kept ==
  ASSUME TypeOK, AllStaged, [Next]_vars, NEW x \in Entry
  PROVE  /\ Written(x) => Written(x)' /\ score'[x] = score[x]
         /\ Keyed(x) => Keyed(x)' /\ key'[x] = key[x]
         /\ stage[x] = "done" => stage'[x] = "done"
         /\ stage[x] # "none" => stage'[x] # "none"
<1>1. CASE UNCHANGED <<stage, score, key>>
  BY <1>1 DEF Written, Keyed
<1>2. ASSUME NEW en \in Entry, Starts(en) \/ Ends(en)
      PROVE  /\ Written(x) => Written(x)' /\ score'[x] = score[x]
             /\ Keyed(x) => Keyed(x)' /\ key'[x] = key[x]
             /\ stage[x] = "done" => stage'[x] = "done"
             /\ stage[x] # "none" => stage'[x] # "none"
  <2>1. CASE x = en
    BY <1>2, <2>1, EntryOn DEF AllStaged
  <2>2. CASE x # en
    BY <1>2, <2>2, OthersKept
  <2>3. QED
    BY <2>1, <2>2
<1>3. QED
  BY <1>1, <1>2, Onward

LEMMA ReadableKept ==
  ASSUME TypeOK, AllStaged, [Next]_vars
  PROVE  Readable \subseteq Readable'
BY Kept DEF Readable

-----------------------------------------------------------------------------
(* The pruning worker removes what is a day old.                           *)

PrunedOld ==
  /\ prune # "idle" => cutoff <= now - Day
  /\ \A en \in pruned : Written(en) /\ score[en] <= now - Day

LEMMA Later == \A a, b, d \in Nat, c \in Int : a <= b /\ c <= a - d => c <= b - d
OBVIOUS

LEMMA StepPrunedOld == TypeOK /\ AllStaged /\ PrunedOld /\ [Next]_vars => PrunedOld'
<1> SUFFICES ASSUME TypeOK, AllStaged, PrunedOld, [Next]_vars PROVE PrunedOld'
  OBVIOUS
<1>1. pruned \subseteq Entry
  BY DEF TypeOK, PruneTypes
<1>2. now \in Nat /\ now' \in Nat /\ now <= now' /\ Day \in Nat /\ cutoff \in Int
  BY Onward, DayFacts DEF TypeOK, PruneTypes
<1>3. \A en \in Entry : Written(en) => /\ Written(en)' /\ score'[en] = score[en] /\ score[en] \in Nat
  BY Kept DEF AllStaged, Staged
<1>4. CASE UNCHANGED pruneVars
  <2>1. UNCHANGED <<prune, cutoff, pruned>>
    BY <1>4 DEF pruneVars
  <2>2. prune' # "idle" => cutoff' <= now' - Day
    BY <1>2, <2>1, Later DEF PrunedOld
  <2>3. \A en \in pruned : Written(en)' /\ score'[en] <= now' - Day
    BY <1>1, <1>2, <1>3 DEF PrunedOld
  <2>4. QED
    BY <2>1, <2>2, <2>3 DEF PrunedOld
<1>5. ASSUME PruneStart \/ PruneReset PROVE PrunedOld'
  BY <1>1, <1>2, <1>3, <1>5 DEF PrunedOld, PruneStart, PruneReset
<1>6. ASSUME NEW S \in SUBSET Entry, NEW step, NEW next, step # "idle",
             PruneTimeline(S, step, next)
      PROVE  PrunedOld'
  <2>1. UNCHANGED <<now, cutoff, score>> /\ prune # "idle"
    BY <1>6 DEF PruneTimeline, serviceVars
  <2>2. \A en \in pruned' : en \in pruned \/ (en \in Entry /\ Written(en) /\ score[en] <= cutoff)
    BY <1>6 DEF PruneTimeline
  <2>3. QED
    BY <1>1, <1>2, <1>3, <2>1, <2>2 DEF PrunedOld
<1>7. CASE Prune
  BY <1>5, <1>6, <1>7, EntryKinds DEF Prune, PruneEpochs, PruneBatches
<1>8. QED
  BY <1>4, <1>7, NextCases, ReadingFrame, TickFrame, ListenFrame, ServicesFrame DEF vars

-----------------------------------------------------------------------------
(* The counter of epochs and the summary.                                  *)

Windows == {e \in Epoch : stage[<<"open", e>>] # "none"}
Opened == {e \in Epoch : stage[<<"open", e>>] = "done"}

OpensCounted == IsFiniteSet(Windows) /\ epochs + pending["open"] <= Cardinality(Opened)
Rated == pc \in {"processed", "summary"} => run.rated <= epochs \/ run.reset

LEMMA CardLe ==
  ASSUME NEW T, IsFiniteSet(T), NEW S, S \subseteq T
  PROVE  /\ IsFiniteSet(S) /\ Cardinality(S) \in Nat /\ Cardinality(T) \in Nat
         /\ Cardinality(S) <= Cardinality(T)
BY FS_Subset, FS_CardinalityType

LEMMA OpenedWindows ==
  ASSUME OpensCounted
  PROVE  /\ IsFiniteSet(Opened) /\ Cardinality(Opened) \in Nat /\ Cardinality(Windows) \in Nat
         /\ Cardinality(Opened) <= Cardinality(Windows)
<1>1. Opened \subseteq Windows
  BY DEF Opened, Windows
<1>2. QED
  BY <1>1, CardLe DEF OpensCounted

LEMMA StepWindows ==
  ASSUME TypeOK, AllStaged, OpensCounted, [Next]_vars
  PROVE  IsFiniteSet(Windows')
<1>1. CASE UNCHANGED stage
  BY <1>1 DEF Windows, OpensCounted
<1>2. ASSUME NEW en \in Entry, Starts(en) \/ Ends(en) PROVE IsFiniteSet(Windows')
  <2>1. \A x \in Entry : x # en => stage'[x] = stage[x]
    BY <1>2, OthersKept
  <2>2. Windows' \subseteq Windows \cup {en[2]}
    <3>1. ASSUME NEW e \in Windows', e \notin Windows PROVE e = en[2]
      <4>1. e \in Epoch /\ <<"open", e>> \in Entry /\ stage'[<<"open", e>>] # stage[<<"open", e>>]
        BY <3>1, AnEntry DEF Windows
      <4>2. <<"open", e>> = en
        BY <2>1, <4>1
      <4>3. QED
        BY <4>2
    <3>2. QED
      BY <3>1
  <2>3. IsFiniteSet(Windows \cup {en[2]})
    BY FS_AddElement DEF OpensCounted
  <2>4. QED
    BY <2>2, <2>3, FS_Subset
<1>3. QED
  BY <1>1, <1>2, Onward

LEMMA OpenInfoCounts ==
  ASSUME TypeOK, OpensCounted, NEW e \in Epoch, OpenInfo(e)
  PROVE  epochs' + pending'["open"] <= Cardinality(Opened')
<1>1. /\ epochs \in Nat /\ pending \in [Kinds -> Nat] /\ pending["open"] \in Nat
      /\ Cardinality(Opened) \in Nat /\ IsFiniteSet(Opened)
  BY OpenedWindows DEF TypeOK, CounterTypes, Kinds
<1>2. UNCHANGED epochs /\ pending'["open"] \in {pending["open"], pending["open"] + 1}
  BY <1>1 DEF OpenInfo, Finish, ServiceStep, PublishChange, Kinds
<1>3. Opened' = Opened \cup {e} /\ e \notin Opened
  <2>1. /\ stage[<<"open", e>>] = "added" /\ stage' = [stage EXCEPT ![<<"open", e>>] = "done"]
    BY DEF OpenInfo, Finish
  <2>2. \A x \in Epoch : <<"open", x>> \in Entry
    BY AnEntry
  <2>3. \A x \in Epoch : stage'[<<"open", x>>] = IF x = e THEN "done" ELSE stage[<<"open", x>>]
    BY <2>1, <2>2 DEF TypeOK, ServiceTypes
  <2>4. QED
    BY <2>1, <2>3 DEF Opened
<1>4. Cardinality(Opened') = Cardinality(Opened) + 1
  BY <1>1, <1>3, FS_AddElement
<1>5. QED
  BY <1>1, <1>2, <1>4 DEF OpensCounted

LEMMA StepOpensCounted == TypeOK /\ AllStaged /\ OpensCounted /\ [Next]_vars => OpensCounted'
<1> SUFFICES ASSUME TypeOK, AllStaged, OpensCounted, [Next]_vars PROVE OpensCounted'
  OBVIOUS
<1>1. /\ epochs \in Nat /\ pending \in [Kinds -> Nat] /\ pending["open"] \in Nat
      /\ Cardinality(Opened) \in Nat
  BY OpenedWindows DEF TypeOK, CounterTypes, Kinds
<1>2. /\ IsFiniteSet(Windows') /\ Cardinality(Opened') \in Nat /\ Cardinality(Opened) <= Cardinality(Opened')
  <2>1. Opened \subseteq Opened' /\ Opened' \subseteq Windows'
    BY Kept, AnEntry DEF Opened, Windows
  <2>2. QED
    BY <2>1, StepWindows, CardLe
<1>3. CASE UNCHANGED <<epochs, pending>>
  BY <1>1, <1>2, <1>3 DEF OpensCounted
<1>4. CASE Services
  <2>1. UNCHANGED epochs
    BY <1>4, ServicesFrame
  <2>2. (\E e \in Epoch : OpenInfo(e)) \/ pending'["open"] = pending["open"]
    BY <1>1, <1>4 DEF Services, Activate, OpenWindow, CloseWindow, CloseInfo, LocalBatch,
       Aggregate, BatchKeys, RemoteBatch, RemoteEntry, PublishChange, Kinds
  <2>3. CASE pending'["open"] = pending["open"]
    BY <1>1, <1>2, <2>1, <2>3 DEF OpensCounted
  <2>4. QED
    BY <1>2, <2>2, <2>3, OpenInfoCounts DEF OpensCounted
<1>5. ASSUME NEW kind \in Kinds, Listen(kind) PROVE OpensCounted'
  <2>1. epochs' + pending'["open"] <= epochs + pending["open"]
    BY <1>1, <1>5 DEF Listen, processSimpleStateChange, Kinds
  <2>2. epochs' \in Nat /\ pending'["open"] \in Int
    BY <1>1, <1>5 DEF Listen, processSimpleStateChange, Kinds
  <2>3. QED
    BY <1>1, <1>2, <2>1, <2>2 DEF OpensCounted
<1>6. CASE Prune
  <2>1. UNCHANGED pending /\ epochs' \in {0, epochs}
    BY <1>6, PruneFrame DEF Prune, PruneStart, PruneEpochs, PruneBatches, PruneTimeline,
       PruneReset, counterVars
  <2>2. QED
    BY <1>1, <1>2, <2>1 DEF OpensCounted
<1>7. QED
  BY <1>3, <1>4, <1>5, <1>6, NextCases, ReadingFrame, TickFrame DEF vars, counterVars

LEMMA StepRated == TypeOK /\ Rated /\ [Next]_vars => Rated'
<1> SUFFICES ASSUME TypeOK, Rated, [Next]_vars PROVE Rated'
  OBVIOUS
<1>1. CASE UNCHANGED <<pc, run, epochs>>
  BY <1>1 DEF Rated
<1>2. ASSUME NEW kind \in Kinds, Listen(kind) PROVE Rated'
  <2>1. UNCHANGED <<pc, run>>
    BY <1>2, ListenFrame DEF readVars
  <2>2. epochs' >= epochs /\ epochs' \in Nat /\ epochs \in Nat /\ run.rated \in Nat
    BY <1>2 DEF Listen, processSimpleStateChange, TypeOK, CounterTypes, RunTypes, RunRecord
  <2>3. QED
    BY <2>1, <2>2 DEF Rated
<1>3. CASE Prune
  <2>1. CASE PruneReset /\ now - lastReset > Day
    <3>1. pc # "processed" /\ UNCHANGED pc
      BY <2>1 DEF PruneReset, Locked
    <3>2. run' = [run EXCEPT !.reset = (pc = "summary")]
      BY <2>1 DEF PruneReset
    <3>3. pc = "summary" => run'.reset
      BY <3>2 DEF TypeOK, RunTypes, RunRecord
    <3>4. QED
      BY <3>1, <3>3 DEF Rated
  <2>2. QED
    BY <1>1, <1>3, <2>1 DEF Prune, PruneStart, PruneEpochs, PruneBatches, PruneTimeline,
       PruneReset, readVars, counterVars
<1>4. CASE Reading
  <2>1. epochs \in Nat /\ UNCHANGED epochs
    BY <1>4, ReadingFrame DEF counterVars, TypeOK, CounterTypes
  <2>2. CASE MetricsStart
    <3>1. run'.rated = epochs
      BY <2>2 DEF MetricsStart, StartRun, NoRun
    <3>2. QED
      BY <2>1, <3>1 DEF Rated
  <2>3. CASE MetricsUnlock
    BY <2>1, <2>3 DEF MetricsUnlock, Read, Rated
  <2>4. QED
    BY <1>4, <2>2, <2>3, ReadingInto DEF Rated
<1>5. QED
  BY <1>1, <1>2, <1>3, <1>4, NextCases, TickFrame, ServicesFrame
     DEF vars, readVars, counterVars

-----------------------------------------------------------------------------
(* What a run has counted, while the services write and the pruning worker *)
(* deletes: nothing outside of its period and everything due that was      *)
(* there when the period was fixed.                                        *)

InSpan(S) == Between(S, run.start, run.end)
Span(S) == run.present \cup run.list \cup run.counted \subseteq InSpan(S)
DueNow == {en \in run.present : score[en] > now - Day}

CountedRun ==
  /\ pc \in EpochSteps => Span(EpochEntry)
  /\ pc \in {"scan", "lists"} => Span(AggregatedEntry) /\ run.present \subseteq Readable
  /\ pc \in {"hourStore", "breakdown", "dayStore"} => DueNow \subseteq run.counted
  /\ pc = "lists" => DueNow \subseteq run.list \cup run.counted

(* The fields that only readers change.                                    *)
LEMMA LocalsKept ==
  ASSUME TypeOK, [Next]_vars, ~Reading
  PROVE  /\ UNCHANGED pc
         /\ Same(run', run) /\ Uncounted(run', run) /\ run'.present = run.present
         /\ run'.failed = run.failed /\ run'.phase = run.phase
<1>1. CASE UNCHANGED <<pc, run>>
  BY <1>1 DEF Same, Uncounted
<1>2. CASE Prune
  <2>1. run' = run \/ run' = [run EXCEPT !.reset = (pc = "summary")]
    BY <1>2 DEF Prune, PruneStart, PruneEpochs, PruneBatches, PruneTimeline, PruneReset, readVars
  <2>2. run \in RunRecord
    BY DEF TypeOK, RunTypes
  <2>3. QED
    BY <1>2, <2>1, <2>2, PruneFrame, ZenonT(60) DEF RunRecord, Same, Uncounted
<1>3. QED
  BY <1>1, <1>2, NextCases, TickFrame, ListenFrame, ServicesFrame DEF vars, readVars

(* As time goes on, less is due and more has been written.                 *)
LEMMA DueLess ==
  ASSUME TypeOK, AllStaged, [Next]_vars, run'.present = run.present, NEW S \in SUBSET Entry,
         run.present \subseteq InSpan(S)
  PROVE  DueNow' \subseteq DueNow
<1>1. now \in Nat /\ now' \in Nat /\ now <= now' /\ Day \in Nat
  BY Onward, DayFacts
<1>2. ASSUME NEW en \in DueNow' PROVE en \in DueNow
  <2>1. en \in run.present /\ score'[en] > now' - Day
    BY <1>2 DEF DueNow
  <2>2. en \in Entry /\ Written(en)
    BY <2>1 DEF InSpan, Between
  <2>3. score'[en] = score[en] /\ score[en] \in Nat
    BY <2>2, Kept DEF AllStaged, Staged
  <2>4. score[en] > now - Day
    BY <1>1, <2>1, <2>3
  <2>5. QED
    BY <2>1, <2>4 DEF DueNow
<1>3. QED
  BY <1>2

LEMMA SpanKept ==
  ASSUME TypeOK, AllStaged, [Next]_vars, ~Reading, NEW S \in SUBSET Entry, Span(S)
  PROVE  Span(S)' /\ DueNow' \subseteq DueNow
<1>1. Same(run', run) /\ Uncounted(run', run) /\ run'.present = run.present
  BY LocalsKept
<1>2. InSpan(S) \subseteq InSpan(S)'
  <2>1. run'.start = run.start /\ run'.end = run.end
    BY <1>1 DEF Same
  <2>2. QED
    BY <2>1, Kept DEF InSpan, Between
<1>3. Span(S)'
  BY <1>1, <1>2 DEF Span, Uncounted
<1>4. QED
  BY <1>1, <1>3, DueLess DEF Span

LEMMA CountedOthers ==
  ASSUME TypeOK, AllStaged, CountedRun, [Next]_vars, ~Reading
  PROVE  CountedRun'
<1>1. UNCHANGED pc /\ Uncounted(run', run) /\ run'.present = run.present
  BY LocalsKept
<1>2. CASE pc \in EpochSteps
  <2>1. Span(EpochEntry)' /\ DueNow' \subseteq DueNow
    BY <1>2, SpanKept, EntryKinds DEF CountedRun
  <2>2. QED
    BY <1>1, <1>2, <2>1 DEF CountedRun, Uncounted, EpochSteps
<1>3. CASE pc \in {"scan", "lists"}
  <2>1. Span(AggregatedEntry)' /\ DueNow' \subseteq DueNow
    BY <1>3, SpanKept, EntryKinds DEF CountedRun
  <2>2. (run.present \subseteq Readable)'
    BY <1>1, <1>3, ReadableKept DEF CountedRun
  <2>3. QED
    BY <1>1, <1>3, <2>1, <2>2 DEF CountedRun, Uncounted, EpochSteps
<1>4. QED
  BY <1>1, <1>2, <1>3 DEF CountedRun, EpochSteps

(* A step of a reader changes nothing it reads.                            *)
LEMMA ReadingKeeps ==
  ASSUME Reading
  PROVE  /\ UNCHANGED <<now, score, key, stage, info, pruned>> /\ Readable' = Readable
         /\ \A S, from, to : Between(S, from, to)' = Between(S, from, to)
         /\ DueNow' = {en \in run'.present : score[en] > now - Day}
<1>1. UNCHANGED <<now, score, key, stage, info, pruned>>
  BY ReadingFrame DEF serviceVars, pruneVars
<1>2. QED
  BY <1>1 DEF Readable, Between, Written, Keyed, DueNow

(* A run that begins with its period.                                      *)
LEMMA FreshFields ==
  ASSUME NEW r \in RunRecord, Blank(r), NEW S \in SUBSET Entry, NEW from \in Int, NEW to \in Int,
         run' = Over(r, S, from, to)
  PROVE  /\ run'.start = from /\ run'.end = to /\ run'.present = Between(S \cap Readable, from, to)
         /\ run'.list = {} /\ run'.counted = {} /\ run'.hour = 0 /\ run'.breakdown = {}
<1> DEFINE P == Between(S \cap Readable, from, to)
<1>1. run' = [r EXCEPT !.start = from, !.end = to, !.present = P]
  BY DEF Over
<1> HIDE DEF P
<1>2. run'.start = from /\ run'.end = to /\ run'.present = P
  BY <1>1, ZenonT(60) DEF RunRecord
<1>3. run'.list = {} /\ run'.counted = {} /\ run'.hour = 0 /\ run'.breakdown = {}
  BY <1>1, ZenonT(60) DEF RunRecord, Blank
<1>4. QED
  BY <1>2, <1>3 DEF P

LEMMA FreshSpan ==
  ASSUME Reading, NEW r \in RunRecord, Blank(r), NEW S \in SUBSET Entry, NEW from \in Int, NEW to \in Int,
         run' = Over(r, S, from, to)
  PROVE  Span(S)' /\ (run.present \subseteq Readable)'
<1>1. /\ run'.start = from /\ run'.end = to /\ run'.present = Between(S \cap Readable, from, to)
      /\ run'.list = {} /\ run'.counted = {}
  BY FreshFields
<1>2. InSpan(S)' = Between(S, from, to)
  BY <1>1, ReadingKeeps DEF InSpan
<1>3. Readable' = Readable
  BY ReadingKeeps
<1>4. QED
  BY <1>1, <1>2, <1>3 DEF Span, Between

(* What is due has not been pruned.                                        *)
LEMMA DueThere ==
  ASSUME TypeOK, PrunedOld, AllStaged, NEW en \in DueNow
  PROVE  en \notin pruned
<1>1. now \in Nat /\ Day \in Nat /\ score[en] > now - Day
  BY DayFacts DEF TypeOK, ServiceTypes, DueNow
<1>2. SUFFICES ASSUME en \in pruned PROVE FALSE
  OBVIOUS
<1>3. en \in Entry /\ Written(en) /\ score[en] <= now - Day
  BY <1>2 DEF PrunedOld, TypeOK, PruneTypes
<1>4. score[en] \in Nat
  BY <1>3 DEF AllStaged, Staged
<1>5. QED
  BY <1>1, <1>3, <1>4

(* The locals after a read that failed, but for what it changes.           *)
LEMMA FailedSpan ==
  ASSUME TypeOK, NEW S \in SUBSET Entry, Span(S), Reading,
         run' = Failed
  PROVE  Span(S)' /\ DueNow' = {} /\ (run.present \subseteq Readable)'
<1>1. run'.present = {} /\ Same(run', run) /\ Uncounted(run', run)
  BY FailedFields DEF TypeOK, RunTypes
<1>2. InSpan(S)' = InSpan(S)
  BY <1>1, ReadingKeeps DEF InSpan, Same
<1>3. QED
  BY <1>1, <1>2, ReadingKeeps DEF Span, Uncounted

LEMMA CountEpochsCounted ==
  ASSUME TypeOK, AllStaged, PrunedOld, CountedRun, Reading, NEW from \in EpochSteps, NEW to,
         CountEpochs(from, to)
  PROVE  Span(EpochEntry)' /\ (DueNow \subseteq run.counted)'
<1>1. run \in RunRecord /\ Span(EpochEntry)
  BY DEF TypeOK, RunTypes, CountEpochs, Read, CountedRun
<1>2. CASE run' = Failed
  BY <1>1, <1>2, FailedSpan, EntryKinds
<1>3. CASE run' = [run EXCEPT !.counted = ZRange(EpochEntry, run.start, run.end)]
  <2> DEFINE C == ZRange(EpochEntry, run.start, run.end)
  <2>1. C \in SUBSET Entry /\ C = InSpan(EpochEntry) \ pruned
    BY RangeTypes, EntryKinds DEF ZRange, InSpan
  <2> HIDE DEF C
  <2>2. /\ run'.counted = C /\ run'.present = run.present /\ run'.list = run.list /\ Same(run', run)
    BY <1>1, <1>3, <2>1, CountFields DEF C
  <2>3. InSpan(EpochEntry)' = InSpan(EpochEntry) /\ DueNow' = DueNow
    BY <2>2, ReadingKeeps DEF InSpan, Same, DueNow
  <2>4. Span(EpochEntry)'
    BY <1>1, <2>1, <2>2, <2>3 DEF Span
  <2>5. DueNow \subseteq C
    BY <1>1, <2>1, DueThere DEF DueNow, Span
  <2>6. QED
    BY <2>2, <2>3, <2>4, <2>5
<1>4. QED
  BY <1>2, <1>3 DEF CountEpochs, Read

LEMMA BreakdownCounted ==
  ASSUME TypeOK, CountedRun, Reading, DailyBreakdown
  PROVE  Span(EpochEntry)' /\ (DueNow \subseteq run.counted)'
<1>1. PICK r \in {run, Failed}, S \in SUBSET Entry : run' = HourCount(r, S) /\ pc = "breakdown"
  BY RangeTypes, EntryKinds DEF DailyBreakdown, Read
<1>2. run \in RunRecord /\ Failed \in RunRecord /\ Span(EpochEntry) /\ DueNow \subseteq run.counted
  BY <1>1, FailedFields DEF TypeOK, RunTypes, CountedRun, EpochSteps
<1>3. /\ run'.present \in {run.present, {}} /\ run'.list = run.list /\ run'.counted = run.counted
      /\ Same(run', run)
  BY <1>1, <1>2, HourCountFields, FailedFields DEF Same, Uncounted
<1>4. InSpan(EpochEntry)' = InSpan(EpochEntry) /\ DueNow' \subseteq DueNow
  BY <1>3, ReadingKeeps DEF InSpan, Same, DueNow
<1>5. QED
  BY <1>2, <1>3, <1>4 DEF Span

LEMMA EpochsCounted ==
  ASSUME TypeOK, AllStaged, PrunedOld, CountedRun, Reading, pc' \in EpochSteps
  PROVE  Span(EpochEntry)' /\ (pc' \in {"hourStore", "breakdown", "dayStore"} => (DueNow \subseteq run.counted)')
<1> USE DEF EpochSteps
<1>1. /\ run \in RunRecord /\ now \in 0 .. MaxTime /\ now \in Nat /\ now \in Int /\ now - Day \in Int
      /\ CurrentHour(now) \in Int /\ CurrentHour(run.began) \in Int
      /\ CurrentHour(run.began) - Hour \in Int
  <2>1. run \in RunRecord /\ now \in 0 .. MaxTime /\ now \in Nat /\ now \in Int
    BY DEF TypeOK, RunTypes, ServiceTypes
  <2>2. run.began \in Nat /\ Hour \in Nat /\ Day \in Nat
    BY <2>1, RunFields, TimeAssumption, DayFacts
  <2>3. CurrentHour(run.began) \in Int /\ CurrentHour(now) \in Int
    BY <2>1, <2>2, HourFacts
  <2>4. QED
    BY <2>1, <2>2, <2>3
<1>2. CASE HourlyStart
  <2>1. /\ run' = Over(Began(now), EpochEntry, CurrentHour(now), now) /\ pc' = "hour"
        /\ Began(now) \in RunRecord /\ Blank(Began(now))
    BY <1>1, <1>2, BeganFields DEF HourlyStart, StartRun
  <2>2. QED
    BY <1>1, <2>1, FreshSpan, EntryKinds
<1>3. CASE DailyStart
  <2>1. /\ run' = Over(Began(now), EpochEntry, now - Day, now) /\ pc' = "day"
        /\ Began(now) \in RunRecord /\ Blank(Began(now))
    BY <1>1, <1>3, BeganFields DEF DailyStart, StartRun
  <2>2. QED
    BY <1>1, <2>1, FreshSpan, EntryKinds
<1>4. CASE HourStore
  <2> DEFINE current == CurrentHour(run.began)
  <2>1. /\ run' = Over(Continued, EpochEntry, current - Hour, current) /\ pc' = "hour"
        /\ Continued \in RunRecord /\ Blank(Continued)
    BY <1>4, ContinuedFields DEF HourStore, Store
  <2>2. QED
    BY <1>1, <2>1, FreshSpan, EntryKinds
<1>5. CASE HourEpochs \/ DailyEpochs
  BY <1>5, CountEpochsCounted DEF HourEpochs, DailyEpochs
<1>6. CASE DailyBreakdown
  BY <1>6, BreakdownCounted
<1>7. CASE DailyStore
  BY <1>7 DEF DailyStore, Store
<1>8. QED
  BY <1>2, <1>3, <1>4, <1>5, <1>6, <1>7, ReadingInto DEF Hourly, Daily

(* An aggregated batch that is due still has its list of validators.       *)
LEMMA DueExists ==
  ASSUME TypeOK, AllStaged, Span(AggregatedEntry), run.present \subseteq Readable, NEW en \in DueNow
  PROVE  Exists(en[1], en[2])
<1>1. en \in AggregatedEntry /\ en \in Entry /\ en \in Readable /\ score[en] > now - Day
  BY EntryKinds DEF DueNow, Span, InSpan, Between
<1>2. en[1] = "aggregated" /\ en = <<en[1], en[2]>>
  BY <1>1 DEF AggregatedEntry
<1>3. /\ Keyed(en) /\ key[en] \in Nat /\ score[en] \in Nat /\ score[en] <= key[en]
      /\ now \in Nat /\ Day \in Nat
  BY <1>1, <1>2, DayFacts DEF Readable, AllStaged, Staged, TypeOK, ServiceTypes
<1>4. now < key[en] + Day
  BY <1>1, <1>3
<1>5. QED
  BY <1>2, <1>3, <1>4 DEF Exists

LEMMA ScanCounted ==
  ASSUME TypeOK, AllStaged, PrunedOld, CountedRun, Reading, ParticipationScan
  PROVE  Span(AggregatedEntry)' /\ (run.present \subseteq Readable)'
         /\ DueNow' \subseteq run'.list \cup run'.counted
<1>1. run \in RunRecord /\ Span(AggregatedEntry) /\ run.present \subseteq Readable
  BY DEF TypeOK, RunTypes, ParticipationScan, Read, CountedRun
<1>2. CASE run' = Failed
  BY <1>1, <1>2, FailedSpan, EntryKinds
<1>3. CASE run' = [run EXCEPT !.list = ZRange(BatchEntry, run.start, run.end) \cap AggregatedEntry]
  <2> DEFINE C == ZRange(BatchEntry, run.start, run.end) \cap AggregatedEntry
  <2>1. C \in SUBSET Entry /\ C = InSpan(AggregatedEntry) \ pruned
    BY EntryKinds DEF ZRange, InSpan, Between
  <2> HIDE DEF C
  <2>2. /\ run'.list = C /\ run'.present = run.present /\ run'.counted = run.counted /\ Same(run', run)
    BY <1>1, <1>3, <2>1, ListFields DEF C
  <2>3. InSpan(AggregatedEntry)' = InSpan(AggregatedEntry) /\ DueNow' = DueNow /\ Readable' = Readable
    BY <2>2, ReadingKeeps DEF InSpan, Same, DueNow
  <2>4. Span(AggregatedEntry)'
    BY <1>1, <2>1, <2>2, <2>3 DEF Span
  <2>5. DueNow \subseteq C
    BY <1>1, <2>1, DueThere DEF DueNow, Span
  <2>6. QED
    BY <1>1, <2>2, <2>3, <2>4, <2>5
<1>4. QED
  BY <1>2, <1>3 DEF ParticipationScan, Read

LEMMA ListCounted ==
  ASSUME TypeOK, AllStaged, CountedRun, Reading, ParticipationList
  PROVE  Span(AggregatedEntry)' /\ (run.present \subseteq Readable)'
         /\ DueNow' \subseteq run'.list \cup run'.counted
<1>1. /\ run \in RunRecord /\ Failed \in RunRecord /\ Span(AggregatedEntry) /\ run.present \subseteq Readable
      /\ DueNow \subseteq run.list \cup run.counted
  BY FailedFields, ListSteps DEF TypeOK, RunTypes, CountedRun
<1>2. PICK en \in run.list, r \in {run, Failed} :
        \/ run' = [r EXCEPT !.list = run.list \ {en}] /\ (r = Failed \/ ~Exists(en[1], en[2]))
        \/ run' = [[run EXCEPT !.list = run.list \ {en}] EXCEPT !.counted = run.counted \cup {en}]
  BY ListSteps
<1>3. run.list \ {en} \in SUBSET Entry /\ run.counted \cup {en} \in SUBSET Entry
  BY <1>1, RunFields
<1>4. ASSUME Same(run', run), run'.present \subseteq run.present, run'.list = run.list \ {en},
             run'.counted \in {run.counted, run.counted \cup {en}},
             run'.present = {} \/ en \in run'.counted \/ en \notin DueNow
      PROVE  Span(AggregatedEntry)' /\ (run.present \subseteq Readable)'
             /\ DueNow' \subseteq run'.list \cup run'.counted
  <2>1. InSpan(AggregatedEntry)' = InSpan(AggregatedEntry) /\ Readable' = Readable
        /\ DueNow' = {x \in run'.present : score[x] > now - Day}
    BY <1>4, ReadingKeeps DEF InSpan, Same
  <2>2. Span(AggregatedEntry)'
    BY <1>1, <1>4, <2>1 DEF Span
  <2>3. DueNow' \subseteq run'.list \cup run'.counted
    BY <1>1, <1>4, <2>1 DEF DueNow
  <2>4. QED
    BY <1>1, <1>4, <2>1, <2>2, <2>3
<1>5. CASE run' = [Failed EXCEPT !.list = run.list \ {en}]
  <2>1. /\ Same(run', Failed) /\ run'.present = Failed.present /\ run'.list = run.list \ {en}
        /\ run'.counted = Failed.counted
    BY <1>1, <1>3, <1>5, ListFields
  <2>2. Same(run', run) /\ run'.present = {} /\ run'.counted = run.counted
    BY <1>1, <2>1, FailedFields DEF Same, Uncounted
  <2>3. QED
    BY <1>4, <2>1, <2>2
<1>6. CASE run' = [run EXCEPT !.list = run.list \ {en}] /\ ~Exists(en[1], en[2])
  <2>1. /\ Same(run', run) /\ run'.present = run.present /\ run'.list = run.list \ {en}
        /\ run'.counted = run.counted
    BY <1>1, <1>3, <1>6, ListFields
  <2>2. en \notin DueNow
    BY <1>1, <1>6, DueExists
  <2>3. QED
    BY <1>4, <2>1, <2>2
<1>7. CASE run' = [[run EXCEPT !.list = run.list \ {en}] EXCEPT !.counted = run.counted \cup {en}]
  <2> DEFINE l == [run EXCEPT !.list = run.list \ {en}]
  <2>1. l \in RunRecord /\ Same(l, run) /\ l.present = run.present /\ l.list = run.list \ {en}
    BY <1>1, <1>3, ListFields
  <2> HIDE DEF l
  <2>2. /\ Same(run', l) /\ run'.present = l.present /\ run'.list = l.list
        /\ run'.counted = run.counted \cup {en}
    BY <1>3, <1>7, <2>1, CountFields DEF l
  <2>3. Same(run', run)
    BY <2>1, <2>2 DEF Same
  <2>4. QED
    BY <1>4, <2>1, <2>2, <2>3
<1>8. QED
  BY <1>2, <1>5, <1>6, <1>7

LEMMA ParticipationCounted ==
  ASSUME TypeOK, AllStaged, PrunedOld, CountedRun, Reading, pc' \in {"scan", "lists"}
  PROVE  /\ Span(AggregatedEntry)' /\ (run.present \subseteq Readable)'
         /\ pc' = "lists" => DueNow' \subseteq run'.list \cup run'.counted
<1>1. CASE ParticipationStart
  <2>1. now \in Int /\ now - Day \in Int
    BY DayFacts DEF TypeOK, ServiceTypes
  <2>2. run' = Over(Continued, AggregatedEntry, now - Day, now) /\ pc' = "scan"
    BY <1>1 DEF ParticipationStart, Read
  <2>3. Continued \in RunRecord /\ Blank(Continued)
    BY ContinuedFields
  <2>4. QED
    BY <2>1, <2>2, <2>3, FreshSpan, EntryKinds
<1>2. CASE ParticipationScan
  BY <1>2, ScanCounted
<1>3. CASE ParticipationList
  BY <1>3, ListCounted
<1>4. QED
  BY <1>1, <1>2, <1>3, ReadingInto

LEMMA StepCountedRun ==
  TypeOK /\ AllStaged /\ PrunedOld /\ CountedRun /\ [Next]_vars => CountedRun'
<1> SUFFICES ASSUME TypeOK, AllStaged, PrunedOld, CountedRun, [Next]_vars PROVE CountedRun'
  OBVIOUS
<1>1. CASE Reading
  <2>1. CASE pc' \in EpochSteps
    BY <1>1, <2>1, EpochsCounted DEF CountedRun, EpochSteps
  <2>2. CASE pc' \in {"scan", "lists"}
    BY <1>1, <2>2, ParticipationCounted DEF CountedRun, EpochSteps
  <2>3. QED
    BY <2>1, <2>2 DEF CountedRun, EpochSteps
<1>2. QED
  BY <1>1, CountedOthers

-----------------------------------------------------------------------------
(* The hours of the day counted so far.                                    *)

HourOf(i) == Between(EpochEntry, HourStart(run.start, i), HourStart(run.start, i + 1))
InHours == \A p \in run.breakdown : p[2] \in HourOf(p[1])
DueBefore == {en \in DueNow : run.hour > 0 /\ score[en] <= HourStart(run.start, run.hour)}
HoursCounted ==
  \A en \in DueBefore : \E i \in 0 .. run.hour - 1 : <<i, en>> \in run.breakdown

DayRun ==
  /\ pc \in {"day", "breakdown", "dayStore"} => run.end = run.start + Day /\ InHours /\ HoursCounted
  /\ pc \in {"day", "breakdown"} => run.hour < HoursPerDay
  /\ pc = "day" => run.hour = 0
  /\ pc = "dayStore" => run.hour = HoursPerDay

LEMMA HourSteps ==
  ASSUME NEW from \in Int, NEW i \in Nat
  PROVE  /\ HourStart(from, i) \in Int /\ HourStart(from, i + 1) \in Int
         /\ HourStart(from, i) <= HourStart(from, i + 1)
         /\ HourStart(from, 0) = from /\ HourStart(from, HoursPerDay) = from + Day
<1>1. Hour \in Nat /\ HoursPerDay \in Nat
  BY TimeAssumption
<1>2. i * Hour \in Nat /\ (i + 1) * Hour = i * Hour + Hour
  BY <1>1
<1>3. QED
  BY <1>1, <1>2 DEF HourStart, Day

LEMMA DayOthers ==
  ASSUME TypeOK, AllStaged, CountedRun, DayRun, [Next]_vars, ~Reading
  PROVE  DayRun'
<1>1. UNCHANGED pc /\ Same(run', run) /\ Uncounted(run', run) /\ run'.present = run.present
  BY LocalsKept
<1>2. CASE pc \in {"day", "breakdown", "dayStore"}
  <2>1. /\ run'.start = run.start /\ run'.end = run.end /\ run'.hour = run.hour
        /\ run'.breakdown = run.breakdown /\ run.breakdown \subseteq Nat \X Entry
    BY <1>1, RunFields DEF Same, Uncounted, TypeOK, RunTypes
  <2>2. DueNow' \subseteq DueNow /\ \A en \in DueNow : Written(en) /\ en \in Entry
    <3>1. Span(EpochEntry)
      BY <1>2 DEF CountedRun, EpochSteps
    <3>2. QED
      BY <1>1, <3>1, SpanKept, EntryKinds DEF DueNow, Span, InSpan, Between
  <2>3. ASSUME NEW p \in run.breakdown PROVE p[2] \in HourOf(p[1])'
    <3>1. p[2] \in HourOf(p[1]) /\ p[2] \in Entry
      BY <1>2, <2>1 DEF DayRun, InHours
    <3>2. QED
      BY <2>1, <3>1, Kept DEF HourOf, Between
  <2>4. InHours'
    BY <2>1, <2>3 DEF InHours
  <2>5. DueBefore' \subseteq DueBefore
    BY <2>1, <2>2, Kept DEF DueBefore
  <2>6. HoursCounted'
    BY <1>2, <2>1, <2>5 DEF DayRun, HoursCounted
  <2>7. QED
    BY <1>1, <1>2, <2>1, <2>4, <2>6 DEF DayRun
<1>3. QED
  BY <1>1, <1>2 DEF DayRun

(* The hour has been counted: nothing outside of it, all that is due in it. *)
LEMMA BreakdownDay ==
  ASSUME TypeOK, AllStaged, PrunedOld, CountedRun, DayRun, Reading, DailyBreakdown
  PROVE  DayRun'
<1>1. /\ pc = "breakdown" /\ run \in RunRecord /\ Failed \in RunRecord
      /\ run.start \in Int /\ run.hour \in Nat /\ run.hour < HoursPerDay /\ HoursPerDay \in Nat
      /\ run.breakdown \subseteq Nat \X Entry
  BY RunFields, FailedFields, TimeAssumption DEF TypeOK, RunTypes, DailyBreakdown, Read, DayRun
<1>2. run.end = run.start + Day /\ InHours /\ HoursCounted /\ Span(EpochEntry)
  BY <1>1 DEF DayRun, CountedRun, EpochSteps
<1> DEFINE found == HourOf(run.hour) \ pruned
<1>3. /\ pc' = IF run.hour + 1 < HoursPerDay THEN "breakdown" ELSE "dayStore"
      /\ run' = HourCount(run, found) \/ run' = HourCount(Failed, {})
  BY DEF DailyBreakdown, Read, ZRange, HourOf
<1>4. found \in SUBSET Entry /\ found \subseteq HourOf(run.hour)
  BY EntryKinds DEF HourOf, Between
<1> HIDE DEF found
<1>5. PICK r \in {run, Failed}, S \in {found, {}} :
        run' = HourCount(r, S) /\ (r = Failed \/ S = found)
  BY <1>3
<1>6. r \in RunRecord /\ S \in SUBSET Entry
  BY <1>1, <1>4
<1>7. /\ run'.hour = run.hour + 1 /\ run'.breakdown = run.breakdown \cup ({run.hour} \X S)
      /\ run'.start = run.start /\ run'.end = run.end
      /\ (run'.present = run.present /\ S = found) \/ run'.present = {}
  <2>1. /\ run'.hour = r.hour + 1 /\ run'.breakdown = r.breakdown \cup ({r.hour} \X S)
        /\ run'.present = r.present /\ Same(run', r)
    BY <1>5, <1>6, HourCountFields
  <2>2. /\ r.hour = run.hour /\ r.breakdown = run.breakdown /\ Same(r, run)
        /\ r = Failed => r.present = {}
    BY <1>1, FailedFields DEF Same, Uncounted
  <2>3. QED
    BY <1>5, <2>1, <2>2 DEF Same
<1>8. \A i : HourOf(i)' = HourOf(i)
  BY <1>7, ReadingKeeps DEF HourOf
<1>9. InHours'
  <2>1. ASSUME NEW p \in {run.hour} \X S PROVE p[2] \in HourOf(p[1])
    BY <1>4, <1>5
  <2>2. QED
    BY <1>2, <1>7, <1>8, <2>1 DEF InHours
<1>10. HoursCounted'
  <2>1. SUFFICES ASSUME NEW en \in DueBefore'
                 PROVE  \E i \in 0 .. run.hour : <<i, en>> \in run'.breakdown
    BY <1>1, <1>7 DEF HoursCounted
  <2>2. /\ en \in run'.present /\ score[en] > now - Day
        /\ score[en] <= HourStart(run.start, run.hour + 1)
    BY <1>7, ReadingKeeps DEF DueBefore, DueNow
  <2>3. en \in DueNow /\ S = found
    BY <1>7, <2>2 DEF DueNow
  <2>4. en \in EpochEntry /\ Written(en) /\ en \notin pruned /\ run.start <= score[en] /\ score[en] \in Nat
    BY <1>2, <2>3, DueThere, EntryKinds DEF DueNow, Span, InSpan, Between, AllStaged, Staged
  <2>5. /\ HourStart(run.start, run.hour) \in Int /\ HourStart(run.start, 0) = run.start
        /\ HourStart(run.start, run.hour + 1) \in Int
    BY <1>1, HourSteps
  <2>6. CASE run.hour > 0 /\ score[en] <= HourStart(run.start, run.hour)
    <3>1. PICK i \in 0 .. run.hour - 1 : <<i, en>> \in run.breakdown
      BY <1>2, <2>3, <2>6 DEF HoursCounted, DueBefore
    <3>2. QED
      BY <1>1, <1>7, <3>1
  <2>7. CASE HourStart(run.start, run.hour) <= score[en]
    <3>1. en \in found
      BY <2>2, <2>4, <2>7 DEF found, HourOf, Between
    <3>2. <<run.hour, en>> \in run'.breakdown
      BY <1>7, <2>3, <3>1
    <3>3. QED
      BY <1>1, <3>2
  <2>8. run.hour = 0 => HourStart(run.start, run.hour) <= score[en]
    BY <2>4, <2>5
  <2>9. QED
    BY <1>1, <2>4, <2>5, <2>6, <2>7, <2>8
<1>11. /\ pc' = "breakdown" => run'.hour < HoursPerDay
       /\ pc' = "dayStore" => run'.hour = HoursPerDay
  BY <1>1, <1>3, <1>7
<1>12. QED
  BY <1>2, <1>3, <1>7, <1>9, <1>10, <1>11 DEF DayRun

LEMMA DayReading ==
  ASSUME TypeOK, AllStaged, PrunedOld, CountedRun, DayRun, Reading
  PROVE  DayRun'
<1>1. CASE Hourly
  <2>1. pc' \notin {"day", "breakdown", "dayStore"}
    BY <1>1 DEF Hourly, HourlyStart, HourEpochs, HourStore, CountEpochs, StartRun, Read, Store
  <2>2. QED
    BY <2>1 DEF DayRun
<1>2. CASE DailyStart
  <2>1. now \in Int /\ now \in 0 .. MaxTime /\ Day \in Nat
    BY DayFacts DEF TypeOK, ServiceTypes
  <2>2. Began(now) \in RunRecord /\ Blank(Began(now)) /\ now - Day \in Int
    BY <2>1, BeganFields
  <2>3. /\ pc' = "day" /\ run' = Over(Began(now), EpochEntry, now - Day, now)
    BY <1>2 DEF DailyStart, StartRun
  <2>4. run'.start = now - Day /\ run'.end = now /\ run'.hour = 0 /\ run'.breakdown = {}
    BY <2>1, <2>2, <2>3, FreshFields, EntryKinds
  <2>5. run'.end = run'.start + Day
    BY <2>1, <2>4
  <2>6. InHours' /\ HoursCounted'
    BY <2>4 DEF InHours, HoursCounted, DueBefore
  <2>7. QED
    BY <2>3, <2>4, <2>5, <2>6, TimeAssumption DEF DayRun
<1>3. CASE DailyEpochs
  <2> DEFINE C == ZRange(EpochEntry, run.start, run.end)
  <2>1. run \in RunRecord /\ C \in SUBSET Entry
    BY RangeTypes, EntryKinds DEF TypeOK, RunTypes
  <2>2. pc = "day" /\ pc' = "breakdown" /\ (run' = [run EXCEPT !.counted = C] \/ run' = Failed)
    BY <1>3 DEF DailyEpochs, CountEpochs, Read
  <2> HIDE DEF C
  <2>3. Same(run', run) /\ run'.hour = run.hour /\ run'.breakdown = run.breakdown
    <3>1. CASE run' = Failed
      BY <2>1, <3>1, FailedFields DEF Uncounted
    <3>2. CASE run' = [run EXCEPT !.counted = C]
      BY <2>1, <3>2, CountFields
    <3>3. QED
      BY <2>2, <3>1, <3>2
  <2>4. run.hour = 0 /\ run.end = run.start + Day /\ InHours
    BY <2>2 DEF DayRun
  <2>5. \A i : HourOf(i)' = HourOf(i)
    BY <2>3, ReadingKeeps DEF HourOf, Same
  <2>6. InHours' /\ HoursCounted'
    BY <2>3, <2>4, <2>5 DEF InHours, HoursCounted, DueBefore
  <2>7. QED
    BY <2>2, <2>3, <2>4, <2>6, TimeAssumption DEF DayRun, Same
<1>4. CASE DailyBreakdown
  BY <1>4, BreakdownDay
<1>5. CASE DailyStore
  BY <1>5 DEF DailyStore, Store, DayRun
<1>6. CASE pc' \notin EpochSteps
  BY <1>6 DEF DayRun, EpochSteps
<1>7. QED
  BY <1>1, <1>2, <1>3, <1>4, <1>5, <1>6, ReadingInto DEF Daily

LEMMA StepDayRun ==
  TypeOK /\ AllStaged /\ PrunedOld /\ CountedRun /\ DayRun /\ [Next]_vars => DayRun'
BY DayReading, DayOthers

-----------------------------------------------------------------------------
(* The window of an epoch, its info and its timeline entries.              *)

Order(e) ==
  /\ info[e] = "open" => stage[<<"open", e>>] = "done" /\ Keyed(<<"open", e>>)
  /\ info[e] = "closed" => Keyed(<<"close", e>>)
  /\ Keyed(<<"close", e>>) => info[e] # "open"
  /\ stage[<<"close", e>>] # "none" => stage[<<"open", e>>] # "added"
Ordered == \A e \in Epoch : Order(e)

LEMMA OrderSame ==
  ASSUME NEW e \in Epoch, Order(e), info'[e] \in {info[e], None},
         UNCHANGED <<stage[<<"open", e>>], stage[<<"close", e>>]>>,
         (Keyed(<<"open", e>>) <=> Keyed(<<"open", e>>)'),
         (Keyed(<<"close", e>>) <=> Keyed(<<"close", e>>)')
  PROVE  Order(e)'
BY NoneAssumption DEF Order

(* A pipeline that touches neither the window nor the info of the epoch.   *)
LEMMA OrderApart ==
  ASSUME TypeOK, NEW e \in Epoch, Order(e), NEW en \in Entry, Starts(en) \/ Ends(en),
         en # <<"open", e>>, en # <<"close", e>>, info'[e] = info[e]
  PROVE  Order(e)'
BY OthersKept, OrderSame, AnEntry

(* One that does.                                                          *)
LEMMA WindowSteps ==
  ASSUME TypeOK, NEW e \in Epoch, Staged(<<"open", e>>), Staged(<<"close", e>>), Order(e),
         OpenWindow(e) \/ OpenInfo(e) \/ CloseWindow(e) \/ CloseInfo(e)
  PROVE  Order(e)' /\ (info[e] = "open" => info'[e] = "open" \/ Keyed(<<"close", e>>)')
<1> DEFINE o == <<"open", e>>
           c == <<"close", e>>
<1>1. o \in Entry /\ c \in Entry /\ o # c
  BY AnEntry
<1>2. CASE OpenWindow(e)
  <2>1. Starts(o) /\ UNCHANGED <<info, key>> /\ stage[c] = "none" /\ stage[o] = "none"
    BY <1>2 DEF OpenWindow, Starts, Begin
  <2>2. UNCHANGED stage[c] /\ (Keyed(c)' <=> Keyed(c)) /\ ~Keyed(c)
    BY <1>1, <2>1, OthersKept DEF Staged
  <2>3. QED
    BY <2>1, <2>2 DEF Order
<1>3. CASE OpenInfo(e)
  <2>1. /\ Ends(o) /\ stage[o] = "added"
        /\ (Sets(o) /\ info' = [info EXCEPT ![e] = "open"]) \/ UNCHANGED <<key, info>>
    BY <1>3 DEF OpenInfo, Ends, Finish
  <2>2. stage'[o] = "done" /\ UNCHANGED stage[c] /\ (Keyed(c)' <=> Keyed(c)) /\ ~Keyed(c)
    <3>1. stage[c] = "none" /\ Finish(o)
      BY <2>1 DEF Order, Ends
    <3>2. ~Begin(o)
      BY <2>1 DEF Begin
    <3>3. QED
      BY <1>1, <2>1, <3>1, <3>2, OthersKept, StageChanged DEF Staged
  <2>3. CASE Sets(o) /\ info' = [info EXCEPT ![e] = "open"]
    <3>1. Keyed(o)' /\ info'[e] = "open"
      BY <1>1, <2>3, KeyChanged DEF TypeOK, ServiceTypes
    <3>2. QED
      BY <2>2, <3>1 DEF Order
  <2>4. CASE UNCHANGED <<key, info>>
    BY <2>1, <2>2, <2>4 DEF Order, Keyed
  <2>5. QED
    BY <2>1, <2>3, <2>4
<1>4. CASE CloseWindow(e)
  <2>1. Starts(c) /\ UNCHANGED <<info, key>> /\ stage[o] # "added"
    BY <1>4 DEF CloseWindow, Starts, Ended
  <2>2. UNCHANGED stage[o]
    BY <1>1, <2>1, OthersKept
  <2>3. QED
    BY <2>1, <2>2 DEF Order, Keyed
<1>5. CASE CloseInfo(e)
  <2>1. /\ Ends(c) /\ stage[c] = "added"
        /\ (Sets(c) /\ info' = [info EXCEPT ![e] = "closed"]) \/ UNCHANGED <<key, info>>
    BY <1>5 DEF CloseInfo, Ends, Finish
  <2>2. UNCHANGED stage[o] /\ stage[o] # "added" /\ (Keyed(o)' <=> Keyed(o))
    BY <1>1, <2>1, OthersKept DEF Order
  <2>3. CASE Sets(c) /\ info' = [info EXCEPT ![e] = "closed"]
    <3>1. Keyed(c)' /\ info'[e] = "closed"
      BY <1>1, <2>3, KeyChanged DEF TypeOK, ServiceTypes
    <3>2. QED
      BY <2>2, <3>1 DEF Order
  <2>4. CASE UNCHANGED <<key, info>>
    BY <2>1, <2>2, <2>4 DEF Order, Keyed
  <2>5. QED
    BY <2>1, <2>3, <2>4
<1>6. QED
  BY <1>2, <1>3, <1>4, <1>5

(* The info of an epoch stays open until the window is closed or its TTL   *)
(* is over.                                                                *)
LEMMA InfoOn ==
  ASSUME TypeOK, AllStaged, Ordered, [Next]_vars, NEW e \in Epoch
  PROVE  Order(e)' /\ (info[e] = "open" => info'[e] = "open" \/ Left(e)')
<1>1. Order(e) /\ <<"open", e>> \in Entry /\ <<"close", e>> \in Entry
      /\ Staged(<<"open", e>>) /\ Staged(<<"close", e>>)
  BY AnEntry DEF Ordered, AllStaged
<1>2. CASE UNCHANGED serviceVars
  BY <1>1, <1>2 DEF Order, serviceVars, Keyed
<1>3. CASE Tick
  <2>1. UNCHANGED <<stage, key>> /\ info'[e] = IF Keyed(<<"open", e>>) /\ key[<<"open", e>>] + InfoTTL = now + 1
                                               THEN None ELSE info[e]
    BY <1>3 DEF Tick
  <2>2. Order(e)'
    BY <1>1, <2>1, OrderSame DEF Keyed
  <2>3. ASSUME info[e] = "open", info'[e] # "open" PROVE Left(e)'
    <3>1. Keyed(<<"open", e>>) /\ key[<<"open", e>>] + InfoTTL = now + 1
      BY <2>1, <2>3
    <3>2. Keyed(<<"open", e>>)' /\ key'[<<"open", e>>] + InfoTTL = now' /\ now' \in Nat
      BY <1>3, <2>1, <3>1, Onward DEF Keyed, Tick
    <3>3. key'[<<"open", e>>] + InfoTTL <= now'
      BY <3>2
    <3>4. QED
      BY <3>2, <3>3 DEF Left
  <2>4. QED
    BY <2>2, <2>3
<1>4. CASE Services
  <2>1. PICK f \in Epoch :
        \/ Activate(f) \/ OpenWindow(f) \/ OpenInfo(f) \/ CloseWindow(f) \/ CloseInfo(f)
        \/ LocalBatch(f) \/ Aggregate(f) \/ \E kind \in {"local", "aggregated"} : BatchKeys(kind, f)
        \/ RemoteBatch(f) \/ RemoteEntry(f)
    BY <1>4 DEF Services
  <2>2. CASE Activate(f)
    BY <1>1, <2>2, OrderSame DEF Activate, Keyed
  <2>3. ASSUME NEW en \in Entry, Starts(en) \/ Ends(en), en # <<"open", e>>, en # <<"close", e>>,
               info'[e] = info[e]
        PROVE  Order(e)' /\ (info[e] = "open" => info'[e] = "open" \/ Left(e)')
    BY <1>1, <2>3, OrderApart
  <2>4. CASE OpenWindow(f) \/ OpenInfo(f) \/ CloseWindow(f) \/ CloseInfo(f)
    <3>1. CASE f = e
      <4>1. Order(e)' /\ (info[e] = "open" => info'[e] = "open" \/ Keyed(<<"close", e>>)')
        BY <1>1, <2>4, <3>1, WindowSteps
      <4>2. QED
        BY <4>1 DEF Left
    <3>2. CASE f # e
      <4>1. /\ \E en \in {<<"open", f>>, <<"close", f>>} : Starts(en) \/ Ends(en)
            /\ info'[e] = info[e]
        BY <2>4, <3>2 DEF OpenWindow, OpenInfo, CloseWindow, CloseInfo, Starts, Ends, TypeOK, ServiceTypes
      <4>2. QED
        BY <2>3, <3>2, <4>1, AnEntry
    <3>3. QED
      BY <3>1, <3>2
  <2>5. CASE LocalBatch(f) \/ Aggregate(f) \/ RemoteBatch(f)
             \/ RemoteEntry(f) \/ \E kind \in {"local", "aggregated"} : BatchKeys(kind, f)
    <3>1. \E kind \in {"local", "aggregated", "validator"} : Starts(<<kind, f>>) \/ Ends(<<kind, f>>)
      BY <2>5 DEF LocalBatch, Aggregate, RemoteBatch, RemoteEntry, BatchKeys, Starts, Ends
    <3>2. UNCHANGED info
      BY <2>5 DEF LocalBatch, Aggregate, RemoteBatch, RemoteEntry, BatchKeys
    <3>3. QED
      BY <2>3, <3>1, <3>2, AnEntry
  <2>6. QED
    BY <2>1, <2>2, <2>4, <2>5
<1>5. QED
  BY <1>2, <1>3, <1>4, NextCases, ReadingFrame, ListenFrame, PruneFrame DEF vars

LEMMA StepOrdered == TypeOK /\ AllStaged /\ Ordered /\ [Next]_vars => Ordered'
BY InfoOn DEF Ordered

-----------------------------------------------------------------------------
(* The phase of an epoch while it is looked for.                           *)

Gone(en) == Keyed(en) /\ key[en] + Day <= now
Past == {"finalization", "aggregation", "complete"}

(* What the keys said at the first read still holds, or the key is gone.   *)
FactsHold(e, facts) ==
  /\ e \in Epoch
  /\ "closed" \in facts => Keyed(<<"close", e>>)
  /\ \A kind \in {"local", "aggregated"} : kind \in facts => Keyed(<<kind, e>>)
  /\ "open" \in facts => info[e] = "open" \/ Left(e)

PhaseFound(r) ==
  /\ r.phase = "submission" => stage[<<"open", r.epoch>>] = "done" /\ "closed" \notin r.facts
  /\ r.phase = "finalization" => ("local" \in r.facts => Gone(<<"local", r.epoch>>) \/ r.failed)
  /\ r.phase = "aggregation" =>
       /\ Keyed(<<"local", r.epoch>>)
       /\ "aggregated" \in r.facts => Gone(<<"aggregated", r.epoch>>) \/ r.failed
  /\ r.phase = "complete" => Keyed(<<"local", r.epoch>>) /\ Keyed(<<"aggregated", r.epoch>>)
  /\ r.phase = "unknown" => r.failed
  /\ r.phase \in Past /\ "open" \in r.facts => Left(r.epoch)

StatusRun ==
  /\ pc \in KeySteps => FactsHold(run.epoch, run.facts)
  /\ pc \in {"local", "aggregated"} /\ "open" \in run.facts => Left(run.epoch)
  /\ pc = "aggregated" => Keyed(<<"local", run.epoch>>)
  /\ pc = "status" => PhaseFound(run)

LEMMA LeftKept ==
  ASSUME TypeOK, AllStaged, [Next]_vars, NEW e \in Epoch, Left(e)
  PROVE  Left(e)'
<1>1. <<"open", e>> \in Entry /\ <<"close", e>> \in Entry
  BY AnEntry
<1>2. /\ \A en \in Entry : Keyed(en) => Keyed(en)' /\ key'[en] = key[en] /\ key[en] \in Nat
      /\ now \in Nat /\ now' \in Nat /\ now <= now' /\ InfoTTL \in Nat
  BY Kept, Onward, DayFacts DEF AllStaged, Staged
<1>3. CASE Keyed(<<"close", e>>)
  BY <1>1, <1>2, <1>3 DEF Left
<1>4. CASE Keyed(<<"open", e>>) /\ key[<<"open", e>>] + InfoTTL <= now
  <2>1. key'[<<"open", e>>] = key[<<"open", e>>] /\ Keyed(<<"open", e>>)' /\ key[<<"open", e>>] \in Nat
    BY <1>1, <1>2, <1>4
  <2>2. key'[<<"open", e>>] + InfoTTL <= now'
    BY <1>2, <1>4, <2>1
  <2>3. QED
    BY <2>1, <2>2 DEF Left
<1>5. QED
  BY <1>3, <1>4 DEF Left

LEMMA GoneKept ==
  ASSUME TypeOK, AllStaged, [Next]_vars, NEW en \in Entry, Gone(en)
  PROVE  Gone(en)'
<1>1. Keyed(en)' /\ key'[en] = key[en] /\ key[en] \in Nat /\ key[en] + Day <= now
  BY Kept DEF AllStaged, Staged, Gone
<1>2. now \in Nat /\ now' \in Nat /\ now <= now' /\ Day \in Nat
  BY Onward, DayFacts
<1>3. key'[en] + Day <= now'
  BY <1>1, <1>2
<1>4. QED
  BY <1>1, <1>3 DEF Gone

LEMMA FactsHoldOn ==
  ASSUME TypeOK, AllStaged, Ordered, [Next]_vars, FactsHold(run.epoch, run.facts),
         run'.epoch = run.epoch, run'.facts = run.facts
  PROVE  FactsHold(run.epoch, run.facts)'
<1> DEFINE e == run.epoch
<1>1. e \in Epoch
  BY DEF FactsHold
<1>2. \A k \in {"close", "local", "aggregated"} : Keyed(<<k, e>>) => Keyed(<<k, e>>)'
  BY <1>1, Kept, AnEntry
<1>3. info[e] = "open" \/ Left(e) => info'[e] = "open" \/ Left(e)'
  BY <1>1, InfoOn, LeftKept
<1>4. QED
  BY <1>1, <1>2, <1>3 DEF FactsHold, Keyed, Left

LEMMA StatusOthers ==
  ASSUME TypeOK, AllStaged, Ordered, StatusRun, [Next]_vars, ~Reading
  PROVE  StatusRun'
<1>1. /\ UNCHANGED pc /\ run'.epoch = run.epoch /\ run'.facts = run.facts
      /\ run'.phase = run.phase /\ run'.failed = run.failed
  BY LocalsKept DEF Same
<1>2. CASE pc \in KeySteps
  <2>1. FactsHold(run.epoch, run.facts) /\ run.epoch \in Epoch
    BY <1>2 DEF StatusRun, FactsHold
  <2>2. FactsHold(run.epoch, run.facts)'
    BY <1>1, <2>1, FactsHoldOn
  <2>3. Left(run.epoch) => Left(run.epoch)'
    BY <2>1, LeftKept, <1>1 DEF Left, Keyed
  <2>4. \A k \in {"open", "local", "aggregated"} :
          /\ Keyed(<<k, run.epoch>>) => Keyed(<<k, run.epoch>>)'
          /\ Gone(<<k, run.epoch>>) => Gone(<<k, run.epoch>>)'
          /\ stage[<<k, run.epoch>>] = "done" => stage'[<<k, run.epoch>>] = "done"
    BY <1>1, <2>1, Kept, GoneKept, AnEntry DEF Keyed, Gone
  <2>5. PhaseFound(run) => PhaseFound(run)'
    BY <1>1, <2>3, <2>4 DEF PhaseFound, Left, Keyed, Gone
  <2>6. QED
    BY <1>1, <2>2, <2>3, <2>4, <2>5 DEF StatusRun
<1>3. CASE pc \notin KeySteps
  BY <1>1, <1>3 DEF StatusRun, KeySteps
<1>4. QED
  BY <1>2, <1>3

(* The locals of the step that finds a phase.                              *)
LEMMA FoundFields ==
  ASSUME TypeOK, NEW p \in Phases, NEW from, FoundPhase(from, p) \/ DefaultPhase(from, p)
  PROVE  /\ pc = from /\ pc' = "status" /\ run'.phase = p
         /\ run'.epoch = run.epoch /\ run'.facts = run.facts
         /\ run'.failed \/ FoundPhase(from, p)
<1>1. run \in RunRecord /\ Failed \in RunRecord
  BY FailedFields DEF TypeOK, RunTypes
<1>2. CASE FoundPhase(from, p)
  <2>1. run' = [run EXCEPT !.phase = p] /\ pc = from /\ pc' = "status"
    BY <1>2 DEF FoundPhase, Read
  <2>2. run'.phase = p /\ Same(run', run)
    BY <1>1, <2>1, PhaseFields
  <2>3. QED
    BY <1>2, <2>1, <2>2 DEF Same
<1>3. CASE DefaultPhase(from, p)
  <2>1. run' = [Failed EXCEPT !.phase = p] /\ pc = from /\ pc' = "status"
    BY <1>3 DEF DefaultPhase, Read
  <2>2. run'.phase = p /\ Same(run', Failed) /\ run'.failed = Failed.failed
    BY <1>1, <2>1, PhaseFields
  <2>3. Same(Failed, run) /\ Failed.failed = TRUE
    BY <1>1, FailedFields
  <2>4. QED
    BY <2>1, <2>2, <2>3 DEF Same
<1>4. QED
  BY <1>2, <1>3

LEMMA DefaultFails ==
  ASSUME TypeOK, NEW p \in Phases, NEW from, DefaultPhase(from, p)
  PROVE  run'.failed
<1>1. run' = [Failed EXCEPT !.phase = p] /\ Failed \in RunRecord /\ Failed.failed = TRUE
  BY FailedFields DEF DefaultPhase, Read, TypeOK, RunTypes
<1>2. QED
  BY <1>1, PhaseFields

(* A batch that is not found is gone, unless the read failed.              *)
LEMMA NotThere ==
  ASSUME TypeOK, NEW kind \in {"local", "aggregated"}, NEW e \in Epoch,
         kind \in run.facts => Keyed(<<kind, e>>), NEW p \in Phases, NEW from,
         ~Exists(kind, e) \/ DefaultPhase(from, p)
  PROVE  kind \in run.facts => Gone(<<kind, e>>) \/ run'.failed
<1>1. CASE DefaultPhase(from, p)
  BY <1>1, DefaultFails
<1>2. CASE ~Exists(kind, e)
  <2>1. Keyed(<<kind, e>>) => key[<<kind, e>>] \in Nat
    <3>1. <<kind, e>> \in Entry
      BY AnEntry
    <3>2. QED
      BY <3>1 DEF TypeOK, ServiceTypes, Keyed
  <2>2. now \in Nat /\ Day \in Nat
    BY DayFacts DEF TypeOK, ServiceTypes
  <2>3. QED
    BY <1>2, <2>1, <2>2 DEF Exists, Gone
<1>3. QED
  BY <1>1, <1>2

(* A step that picks the epoch.                                            *)
LEMMA PickStatus ==
  ASSUME TypeOK, Ordered, Reading, NEW from, NEW to \in {"info", "fallbackInfo"}, NEW e \in Epoch,
         PickEpoch(from, to, e)
  PROVE  StatusRun'
<1>1. run' = [Continued EXCEPT !.epoch = e, !.facts = Facts(e)] /\ pc' = to
  BY DEF PickEpoch, Read
<1> DEFINE F == Facts(e)
<1>2. run'.epoch = e /\ run'.facts = F
  <2>1. Continued \in RunRecord
    BY ContinuedFields
  <2> HIDE DEF F
  <2>2. run' = [Continued EXCEPT !.epoch = e, !.facts = F]
    BY <1>1 DEF F
  <2>3. QED
    BY <2>1, <2>2 DEF RunRecord
<1>3. UNCHANGED <<info, key, now>>
  BY ReadingKeeps
<1>4. FactsHold(e, F)
  BY DEF FactsHold, Facts, Exists, Ordered, Order
<1> HIDE DEF F
<1>5. FactsHold(run.epoch, run.facts)'
  BY <1>2, <1>3, <1>4 DEF FactsHold, Keyed, Left
<1>6. QED
  BY <1>1, <1>5 DEF StatusRun

LEMMA KeyReading ==
  ASSUME TypeOK, Ordered, StatusRun, Reading,
         StatusInfo \/ FallbackInfo \/ StatusLocal \/ StatusAggregated
  PROVE  StatusRun'
<1> DEFINE e == run.epoch
<1>1. /\ pc \in KeySteps /\ run'.epoch = run.epoch /\ run'.facts = run.facts
      /\ pc' = "status" \/ (pc' \in {"local", "aggregated"} /\ run' = run)
  BY FoundFields DEF StatusInfo, FallbackInfo, InfoStep, StatusLocal, StatusAggregated,
     FoundPhase, DefaultPhase, Read, Phases, KeySteps
<1>2. FactsHold(e, run.facts) /\ e \in Epoch /\ Order(e)
  BY <1>1 DEF StatusRun, FactsHold, Ordered
<1>3. UNCHANGED <<now, stage, key, info>>
  BY ReadingKeeps
<1>4. FactsHold(run.epoch, run.facts)'
  BY <1>1, <1>2, <1>3 DEF FactsHold, Keyed, Left
<1>5. CASE StatusInfo \/ FallbackInfo
  <2>1. PICK from \in {"info", "fallbackInfo"} : InfoStep(from)
    BY <1>5 DEF StatusInfo, FallbackInfo
  <2>2. CASE info[e] = "open" /\ FoundPhase(from, "submission")
    <3>1. pc' = "status" /\ run'.phase = "submission"
      BY <2>2, FoundFields DEF Phases
    <3>2. stage[<<"open", e>>] = "done" /\ "closed" \notin run.facts
      BY <1>2, <2>2 DEF Order, FactsHold
    <3>3. QED
      BY <1>1, <1>3, <1>4, <3>1, <3>2 DEF StatusRun, PhaseFound, Past
  <2>3. CASE info[e] # "open" /\ Read(from, "local", run)
    <3>1. pc' = "local" /\ run' = run
      BY <2>3 DEF Read
    <3>2. "open" \in run.facts => Left(e)
      BY <1>2, <2>3 DEF FactsHold
    <3>3. QED
      BY <1>3, <1>4, <3>1, <3>2 DEF StatusRun, Left, Keyed
  <2>4. CASE DefaultPhase(from, "unknown")
    <3>1. pc' = "status" /\ run'.phase = "unknown"
      BY <2>4, FoundFields DEF Phases
    <3>2. run'.failed
      BY <2>4, DefaultFails DEF Phases
    <3>3. QED
      BY <1>4, <3>1, <3>2 DEF StatusRun, PhaseFound, Past
  <2>5. QED
    BY <2>1, <2>2, <2>3, <2>4 DEF InfoStep
<1>6. CASE StatusLocal
  <2>1. "open" \in run.facts => Left(e)
    BY <1>6 DEF StatusLocal, StatusRun
  <2>2. CASE Exists("local", e) /\ Read("local", "aggregated", run)
    <3>1. pc' = "aggregated" /\ run' = run
      BY <2>2 DEF Read
    <3>2. QED
      BY <1>3, <1>4, <2>1, <2>2, <3>1 DEF StatusRun, Left, Keyed, Exists
  <2>3. ASSUME FoundPhase("local", "finalization") \/ DefaultPhase("local", "finalization"),
               ~Exists("local", e) \/ DefaultPhase("local", "finalization")
        PROVE  StatusRun'
    <3>1. /\ pc' = "status" /\ run'.phase = "finalization"
      BY <2>3, FoundFields DEF Phases
    <3>2. "local" \in run.facts => Gone(<<"local", e>>) \/ run'.failed
      BY <1>2, <2>3, NotThere DEF FactsHold, Phases
    <3>3. QED
      BY <1>1, <1>3, <1>4, <2>1, <3>1, <3>2 DEF StatusRun, PhaseFound, Past, Left, Keyed, Gone
  <2>4. QED
    BY <1>6, <2>2, <2>3 DEF StatusLocal
<1>7. CASE StatusAggregated
  <2>1. Keyed(<<"local", e>>) /\ ("open" \in run.facts => Left(e))
    BY <1>7 DEF StatusAggregated, StatusRun
  <2>2. CASE Exists("aggregated", e) /\ FoundPhase("aggregated", "complete")
    <3>1. pc' = "status" /\ run'.phase = "complete"
      BY <2>2, FoundFields DEF Phases
    <3>2. QED
      BY <1>1, <1>3, <1>4, <2>1, <2>2, <3>1 DEF StatusRun, PhaseFound, Past, Left, Keyed, Exists
  <2>3. ASSUME FoundPhase("aggregated", "aggregation") \/ DefaultPhase("aggregated", "aggregation"),
               ~Exists("aggregated", e) \/ DefaultPhase("aggregated", "aggregation")
        PROVE  StatusRun'
    <3>1. pc' = "status" /\ run'.phase = "aggregation"
      BY <2>3, FoundFields DEF Phases
    <3>2. "aggregated" \in run.facts => Gone(<<"aggregated", e>>) \/ run'.failed
      BY <1>2, <2>3, NotThere DEF FactsHold, Phases
    <3>3. QED
      BY <1>1, <1>3, <1>4, <2>1, <3>1, <3>2 DEF StatusRun, PhaseFound, Past, Left, Keyed, Gone
  <2>4. QED
    BY <1>7, <2>2, <2>3 DEF StatusAggregated
<1>8. QED
  BY <1>5, <1>6, <1>7

LEMMA StepStatusRun == TypeOK /\ AllStaged /\ Ordered /\ StatusRun /\ [Next]_vars => StatusRun'
<1> SUFFICES ASSUME TypeOK, AllStaged, Ordered, StatusRun, [Next]_vars PROVE StatusRun'
  OBVIOUS
<1>1. CASE Reading
  <2>1. CASE pc' \notin KeySteps
    BY <2>1 DEF StatusRun, KeySteps
  <2>2. CASE StatusPick \/ FallbackPick
    <3>1. \/ pc' \notin KeySteps
          \/ \E from, to \in {"info", "fallbackInfo", "pick", "fallback"}, e \in Epoch :
               to \in {"info", "fallbackInfo"} /\ PickEpoch(from, to, e)
      BY <2>2 DEF StatusPick, FallbackPick, Read, KeySteps, TypeOK, ServiceTypes
    <3>2. QED
      BY <1>1, <2>1, <3>1, PickStatus
  <2>3. QED
    BY <1>1, <2>1, <2>2, KeyReading, ReadingInto
<1>2. QED
  BY <1>1, StatusOthers

-----------------------------------------------------------------------------
(* What is published.                                                      *)

(* No step but those that store a dataset leaves one published.            *)
LEMMA PublishedBy ==
  ASSUME [Next]_vars
  PROVE  \/ published' = None \/ UNCHANGED vars
         \/ MetricsSummary \/ ParticipationStore \/ StatusStore \/ HourStore \/ DailyStore
<1>1. CASE Services \/ Tick \/ Prune \/ \E kind \in Kinds : Listen(kind)
  BY <1>1, ServicesFrame, TickFrame, PruneFrame, ListenFrame
<1>2. CASE Metrics
  <2>1. CASE StatusInfo \/ FallbackInfo \/ StatusLocal \/ StatusAggregated
    BY <2>1 DEF StatusInfo, FallbackInfo, InfoStep, StatusLocal, StatusAggregated,
       FoundPhase, DefaultPhase, Read, Silent
  <2>2. CASE ParticipationScan \/ ParticipationList \/ StatusPick \/ FallbackPick
    BY <2>2 DEF ParticipationScan, ParticipationList, StatusPick, FallbackPick, PickEpoch, Read, Silent
  <2>3. CASE MetricsStart \/ MetricsUnlock \/ ParticipationStart
    BY <2>3 DEF MetricsStart, MetricsUnlock, ParticipationStart, StartRun, Read, Silent
  <2>4. QED
    BY <1>2, <2>1, <2>2, <2>3 DEF Metrics
<1>3. CASE Hourly \/ Daily
  BY <1>3 DEF Hourly, HourlyStart, HourEpochs, CountEpochs, Daily, DailyStart, DailyEpochs,
     DailyBreakdown, StartRun, Read, Silent
<1>4. QED
  BY <1>1, <1>2, <1>3, NextCases DEF Reading

(* The three properties depend on what was published and on what is        *)
(* written, set and finished.                                              *)
LEMMA SummaryStep ==
  ASSUME TypeOK, AllStaged, Rated, OpensCounted, SummaryCounts, [Next]_vars
  PROVE  SummaryCounts'
<1>1. CASE published' = None
  BY <1>1 DEF SummaryCounts, Stored
<1>2. CASE UNCHANGED vars
  BY <1>2 DEF SummaryCounts, Stored, vars, serviceVars
<1>3. CASE MetricsSummary
  <2>1. /\ pc = "summary" /\ UNCHANGED stage
        /\ published' = [set |-> "summary", rated |-> run.rated, reset |-> run.reset, epochs |-> epochs]
    BY <1>3 DEF MetricsSummary, Store, serviceVars
  <2>2. run.rated <= epochs \/ run.reset
    BY <2>1 DEF Rated
  <2>3. epochs <= Cardinality(Windows) /\ Windows' = Windows
    <3>1. epochs \in Nat /\ pending["open"] \in Nat
      BY DEF TypeOK, CounterTypes, Kinds
    <3>2. Windows' = Windows
      BY <2>1 DEF Windows
    <3>3. QED
      BY <3>1, <3>2, OpenedWindows DEF OpensCounted
  <2>4. QED
    BY <2>1, <2>2, <2>3 DEF SummaryCounts, Windows
<1>4. CASE ParticipationStore \/ StatusStore \/ HourStore \/ DailyStore
  BY <1>4 DEF ParticipationStore, StatusStore, HourStore, DailyStore, Store, Figures,
     SummaryCounts, Stored
<1>5. QED
  BY <1>1, <1>2, <1>3, <1>4, PublishedBy

(* The figures that are stored count what is due.                          *)
LEMMA FiguresCounted ==
  ASSUME NEW name, UNCHANGED <<score, key>>, published' = Figures(name), NEW S, S \in SUBSET Entry,
         Span(S), DueNow \subseteq run.counted
  PROVE  /\ published'.set = name /\ Counted(S, published)' /\ Due(published)' = DueNow
         /\ published'.start = run.start /\ published'.breakdown = run.breakdown
<1>1. /\ published'.set = name /\ published'.start = run.start /\ published'.end = run.end
      /\ published'.at = now /\ published'.present = run.present
      /\ published'.counted = run.counted /\ published'.breakdown = run.breakdown
  BY DEF Figures
<1>2. Due(published)' = DueNow
  BY <1>1 DEF Due, DueNow
<1>3. Between(S, published'.start, published'.end) = InSpan(S)
  BY <1>1 DEF InSpan
<1>4. run.counted \subseteq InSpan(S)
  BY DEF Span
<1>5. Counted(S, published)'
  BY <1>1, <1>2, <1>4 DEF Counted, InSpan, Between, Written
<1>6. QED
  BY <1>1, <1>2, <1>5

LEMMA StatsStep ==
  ASSUME TypeOK, CountedRun, DayRun, StatsCoverPeriod, [Next]_vars
  PROVE  StatsCoverPeriod'
<1>1. CASE published' = None
  BY <1>1 DEF StatsCoverPeriod, Stored
<1>2. CASE UNCHANGED vars
  BY <1>2 DEF StatsCoverPeriod, Stored, Counted, Due, Between, Written, vars, serviceVars
<1>3. CASE HourStore
  <2>1. pc = "hourStore" /\ published' = Figures("hourly") /\ UNCHANGED <<score, key>>
    BY <1>3 DEF HourStore, Store, serviceVars
  <2>2. Span(EpochEntry) /\ DueNow \subseteq run.counted
    BY <2>1 DEF CountedRun, EpochSteps
  <2>3. published'.set = "hourly" /\ Counted(EpochEntry, published)'
    BY <2>1, <2>2, FiguresCounted, EntryKinds
  <2>4. QED
    BY <2>3 DEF StatsCoverPeriod, Stored
<1>4. CASE ParticipationStore
  <2>1. pc = "lists" /\ run.list = {} /\ published' = Figures("participation") /\ UNCHANGED <<score, key>>
    BY <1>4 DEF ParticipationStore, Store, serviceVars
  <2>2. Span(AggregatedEntry) /\ DueNow \subseteq run.counted
    BY <2>1 DEF CountedRun
  <2>3. published'.set = "participation" /\ Counted(AggregatedEntry, published)'
    BY <2>1, <2>2, FiguresCounted, EntryKinds
  <2>4. QED
    BY <2>3 DEF StatsCoverPeriod, Stored
<1>5. CASE DailyStore
  <2>1. pc = "dayStore" /\ published' = Figures("daily") /\ UNCHANGED <<score, key>>
    BY <1>5 DEF DailyStore, Store, serviceVars
  <2>2. /\ Span(EpochEntry) /\ DueNow \subseteq run.counted
        /\ InHours /\ HoursCounted /\ run.hour = HoursPerDay /\ run.end = run.start + Day
    BY <2>1 DEF CountedRun, DayRun, EpochSteps
  <2>3. /\ published'.set = "daily" /\ Counted(EpochEntry, published)' /\ Due(published)' = DueNow
        /\ published'.start = run.start /\ published'.breakdown = run.breakdown
    BY <2>1, <2>2, FiguresCounted, EntryKinds
  <2>4. \A hour \in published'.breakdown :
          hour[2] \in Between(EpochEntry, HourStart(published.start, hour[1]),
                             HourStart(published.start, hour[1] + 1))'
    BY <2>1, <2>2, <2>3 DEF InHours, HourOf, Between, Written, HourStart
  <2>5. ASSUME NEW en \in DueNow PROVE \E i \in 0 .. HoursPerDay - 1 : <<i, en>> \in published'.breakdown
    <3>1. score[en] <= run.end
      BY <2>2 DEF DueNow, Span, InSpan, Between
    <3>2. HourStart(run.start, HoursPerDay) = run.end /\ HoursPerDay > 0
      <4>1. run.start \in Int /\ 0 \in Nat
        BY RunFields DEF TypeOK, RunTypes
      <4>2. HourStart(run.start, HoursPerDay) = run.start + Day
        BY <4>1, HourSteps
      <4>3. QED
        BY <2>2, <4>2, TimeAssumption
    <3>3. en \in DueBefore
      BY <2>2, <3>1, <3>2 DEF DueBefore
    <3>4. QED
      BY <2>2, <2>3, <3>3 DEF HoursCounted
  <2>6. QED
    BY <2>3, <2>4, <2>5 DEF StatsCoverPeriod, Stored
<1>6. CASE MetricsSummary \/ StatusStore
  BY <1>6 DEF MetricsSummary, StatusStore, Store, StatsCoverPeriod, Stored
<1>7. QED
  BY <1>1, <1>2, <1>3, <1>4, <1>5, <1>6, PublishedBy

LEMMA PhaseStep ==
  ASSUME TypeOK, StatusRun, PhaseJustified, [Next]_vars
  PROVE  PhaseJustified'
<1>1. CASE published' = None
  BY <1>1 DEF PhaseJustified, Stored
<1>2. CASE UNCHANGED vars
  BY <1>2 DEF PhaseJustified, Stored, Left, Keyed, vars, serviceVars
<1>3. CASE StatusStore
  <2> DEFINE e == run.epoch
  <2>1. /\ pc = "status" /\ UNCHANGED <<now, stage, key, info>>
        /\ published'.set = "status" /\ published'.epoch = e /\ published'.phase = run.phase
        /\ published'.failed = run.failed /\ published'.first = run.facts
        /\ published'.before = run.facts \cap Facts(e)
    BY <1>3 DEF StatusStore, Store, serviceVars
  <2>2. FactsHold(e, run.facts) /\ PhaseFound(run) /\ e \in Epoch
    BY <2>1 DEF StatusRun, KeySteps, FactsHold
  <2>3. \A kind \in {"local", "aggregated"} : Gone(<<kind, e>>) => kind \notin published'.before
    <3>1. \A kind \in {"local", "aggregated"} : Gone(<<kind, e>>) => ~Exists(kind, e)
      <4>1. SUFFICES ASSUME NEW kind \in {"local", "aggregated"}, Gone(<<kind, e>>), Exists(kind, e)
                     PROVE  FALSE
        OBVIOUS
      <4>2. <<kind, e>> \in Entry
        BY <2>2, AnEntry
      <4>3. key[<<kind, e>>] \in Nat /\ now \in Nat /\ Day \in Nat
        BY <4>1, <4>2, DayFacts DEF TypeOK, ServiceTypes, Gone, Keyed
      <4>4. QED
        BY <4>1, <4>3 DEF Gone, Exists
    <3>2. QED
      BY <2>1, <3>1 DEF Facts
  <2>4. QED
    BY <2>1, <2>2, <2>3 DEF PhaseJustified, Stored, PhaseFound, Past, Left, Keyed
<1>4. CASE MetricsSummary \/ ParticipationStore \/ HourStore \/ DailyStore
  BY <1>4 DEF MetricsSummary, ParticipationStore, HourStore, DailyStore, Store, Figures,
     PhaseJustified, Stored
<1>5. QED
  BY <1>1, <1>2, <1>3, <1>4, PublishedBy

-----------------------------------------------------------------------------
(* The inductive invariant.                                                *)

IInv ==
  /\ TypeOK /\ AllStaged /\ PrunedOld /\ OpensCounted /\ Rated
  /\ CountedRun /\ DayRun /\ Ordered /\ StatusRun
  /\ SummaryCounts /\ StatsCoverPeriod /\ PhaseJustified

LEMMA InitInv == Init => IInv
<1> SUFFICES ASSUME Init PROVE IInv
  OBVIOUS
<1>1. TypeOK
  BY InitTypes
<1>2. /\ pc = "idle" /\ prune = "idle" /\ published = None /\ epochs = 0 /\ pending["open"] = 0
      /\ pruned = {} /\ \A e \in Epoch : info[e] = None
      /\ \A en \in Entry : stage[en] = "none" /\ ~Written(en) /\ ~Keyed(en)
  BY DEF Init, Kinds, Written, Keyed
<1>3. AllStaged /\ Ordered
  BY <1>2, NoneAssumption, AnEntry DEF AllStaged, Staged, Ordered, Order
<1>4. OpensCounted
  <2>1. Windows = {} /\ Opened = {}
    BY <1>2, AnEntry DEF Windows, Opened
  <2>2. QED
    BY <1>2, <2>1, FS_EmptySet DEF OpensCounted
<1>5. PrunedOld /\ Rated /\ CountedRun /\ DayRun /\ StatusRun
  BY <1>2 DEF PrunedOld, Rated, CountedRun, DayRun, StatusRun, EpochSteps, KeySteps
<1>6. SummaryCounts /\ StatsCoverPeriod /\ PhaseJustified
  BY <1>2 DEF SummaryCounts, StatsCoverPeriod, PhaseJustified, Stored
<1>7. QED
  BY <1>1, <1>3, <1>4, <1>5, <1>6 DEF IInv

LEMMA Inductive == IInv /\ [Next]_vars => IInv'
<1> SUFFICES ASSUME IInv, [Next]_vars PROVE IInv'
  OBVIOUS
<1> USE DEF IInv
<1>1. TypeOK' /\ AllStaged' /\ PrunedOld'
  BY StepTypes, StepStaged, StepPrunedOld
<1>2. OpensCounted' /\ Rated'
  BY StepOpensCounted, StepRated
<1>3. CountedRun' /\ DayRun'
  BY StepCountedRun, StepDayRun
<1>4. Ordered' /\ StatusRun'
  BY StepOrdered, StepStatusRun
<1>5. SummaryCounts' /\ StatsCoverPeriod' /\ PhaseJustified'
  BY SummaryStep, StatsStep, PhaseStep
<1>6. QED
  BY <1>1, <1>2, <1>3, <1>4, <1>5

LEMMA Invariant == Spec => []IInv
BY InitInv, Inductive, PTL DEF Spec

-----------------------------------------------------------------------------
(* The variables keep their types, the listener's counter included: no     *)
(* message is counted that was not published.                              *)
THEOREM TypeCorrect == Spec => []TypeOK
<1>1. IInv => TypeOK
  BY DEF IInv
<1>2. QED
  BY <1>1, Invariant, PTL

(* The figures of a summary agree with each other and with the windows     *)
(* that were opened (MetricsSummary, with the lock given back before the   *)
(* totals are read, against the listener and the reset of the counters).   *)
THEOREM SummaryAgrees == Spec => []SummaryCounts
<1>1. IInv => SummaryCounts
  BY DEF IInv
<1>2. QED
  BY <1>1, Invariant, PTL

(* Hourly, daily and participation statistics count nothing outside of     *)
(* their period and, unless a read failed, everything that was there when  *)
(* the period was fixed and is not a day old, while entries appear late    *)
(* with older timestamps and the pruning worker deletes between the reads. *)
THEOREM PeriodCovered == Spec => []StatsCoverPeriod
<1>1. IInv => StatsCoverPeriod
  BY DEF IInv
<1>2. QED
  BY <1>1, Invariant, PTL

(* The published phase is not ahead of what the services have written and, *)
(* unless a read failed, not behind what held from the first read on;      *)
(* "finalization" and later phases of an epoch that was open then mean     *)
(* that its window was closed meanwhile or its info is over (determining   *)
(* the phase by up to three reads that may each fail).                     *)
THEOREM PhaseHeld == Spec => []PhaseJustified
<1>1. IInv => PhaseJustified
  BY DEF IInv
<1>2. QED
  BY <1>1, Invariant, PTL
=============================================================================
