----------------------------- MODULE StateTracker -----------------------------
(***************************************************************************)
(* The state tracker (cmd/state-tracker/worker.go): a listener that counts *)
(* the messages of the channel "state:change", three workers that read at  *)
(* intervals what the other services leave in Redis and publish the        *)
(* datasets of the Monitor API (current metrics, hourly and daily          *)
(* statistics), and one that prunes the timelines.  They are goroutines of *)
(* one process and share the counters.  A dataset is put together from     *)
(* Redis commands issued one after the other: every read a property        *)
(* depends on is a step of its own, and every such read may fail: the      *)
(* workers go on with zero, an empty list or a default.                    *)
(*                                                                         *)
(* The services that write to Redis (event monitor, gateway, aggregator)   *)
(* are the environment.  A pipeline is not a transaction: it takes its     *)
(* timestamp, adds its timeline entry some time later, and sets its key    *)
(* and publishes its message later still, or fails to.  One that fails as  *)
(* a whole is one that is not sent.                                        *)
(* Time is counted in units; an hour and a day have Hour and Day of them.  *)
(*                                                                         *)
(* One figure of each kind is kept, the epoch counter as a number, the     *)
(* others (the epochs of an hour or a day, the aggregated batches of a     *)
(* day) as the set of entries that the number counts.  Submissions,        *)
(* batches and validators are counted in the same way and left out.        *)
(***************************************************************************)
EXTENDS Integers, FiniteSets, FiniteSetsExt

CONSTANTS
  Epoch,         \* epoch ids
  Seen,          \* the epochs the own event monitor sees released
  Heard,         \* the epochs for which the gateway receives a remote batch
  Prefixed,      \* per epoch: the epochs whose decimal id begins with its own
  None,          \* "not there"
  Hour,          \* length of an hour
  HoursPerDay,   \* 24 in the code
  FallbackDepth, \* timeline entries the fallback looks at, 5 in the code
  MaxTime,       \* bound on the clock
  MaxSpan,       \* bound on the units that pass during one run of a worker
  MaxLag,        \* bound on the units between a timestamp and its use
  MaxWrites,     \* bound on the pipelines the other services execute
  MaxRuns,       \* bound on the runs of the reading workers
  MaxPrunes,     \* bound on the runs of the pruning worker
  Narrow         \* whether a run is followed only together with what it reads

ASSUME EpochAssumption ==
  /\ Seen \subseteq Epoch /\ Heard \subseteq Epoch /\ Prefixed \in [Epoch -> SUBSET Epoch]
  /\ \A e \in Epoch : e \in Prefixed[e]
ASSUME NoneAssumption ==
  None \notin Int \cup {"open", "closed", "submission", "finalization", "aggregation", "complete", "unknown"}
ASSUME TimeAssumption ==
  /\ Hour \in Nat \ {0} /\ HoursPerDay \in Nat \ {0} /\ FallbackDepth \in Nat \ {0}
  /\ {MaxTime, MaxSpan, MaxLag, MaxWrites, MaxRuns, MaxPrunes} \subseteq Nat
  /\ Narrow \in BOOLEAN

VARIABLES
  now,           \* the clock
  stage,         \* per entry: how far the pipeline that writes it has come
  score,         \* per entry: its score in the timeline, or None
  key,           \* per entry: when its pipeline set its key, or None
  active,        \* the set ActiveEpochs
  activeUntil,   \* when Redis drops that set, None: no TTL is set
  info,          \* per epoch: the status in MetricsEpochInfo, None: no such key
  pending,       \* per kind: messages on their way to the listener
  epochs,        \* sw.epochs
  lastReset,     \* sw.lastReset
  pc,            \* next step of the reading worker under way, or "idle"
  run,           \* its local variables
  prune,         \* next step of the pruning worker
  cutoff,        \* its local variable
  pruned,        \* entries removed from the timelines
  published,     \* the dataset the last step stored, None: it stored none
  writes, runs, prunes   \* bounds

serviceVars == <<stage, score, key, active, activeUntil, info, writes>>
counterVars == <<pending, epochs, lastReset>>
readVars == <<pc, run, runs>>
pruneVars == <<prune, cutoff, pruned, prunes>>
vars == <<now, serviceVars, counterVars, readVars, pruneVars, published>>

-----------------------------------------------------------------------------
Day == HoursPerDay * Hour
InfoTTL == 2 * Hour

EpochEntry == {"open", "close"} \X Epoch
BatchEntry == {"local", "aggregated", "validator"} \X Epoch
Entry == EpochEntry \cup BatchEntry
AggregatedEntry == {"aggregated"} \X Epoch
Kinds == {"open", "closed"}
Phases == {"submission", "finalization", "aggregation", "complete", "unknown"}
Stages == {"none", "added", "done"}
EpochSteps == {"hour", "hourStore", "day", "breakdown", "dayStore"}
KeySteps == {"info", "fallbackInfo", "local", "aggregated", "status"}
Steps == {"idle", "processed", "summary", "participation", "scan", "lists", "pick", "fallback"}
         \cup KeySteps \cup EpochSteps

Written(en) == score[en] # None
Keyed(en) == key[en] # None
\* ZCOUNT and ZRANGEBYSCORE take both ends of a range in.
Between(S, from, to) == {en \in S : Written(en) /\ from <= score[en] /\ score[en] <= to}
ZRange(S, from, to) == Between(S, from, to) \ pruned
Timeline == ZRange(EpochEntry, 0, now)

\* What a read of an entry finds: the entry and, with an aggregated batch, its
\* list of validators.
Readable == {en \in Entry : Written(en) /\ (en[1] = "aggregated" => Keyed(en))}

\* Keys set with a TTL of 24 hours: a batch, the list of its validators.
Exists(kind, e) == Keyed(<<kind, e>>) /\ now < key[<<kind, e>>] + Day

\* sw.mu is read-locked while aggregateCurrentMetrics collects its counts.
Locked == pc = "processed"

\* Bound: what happens around the readers is followed while a run of theirs is
\* under way or still to come; with Narrow, not between the parts of a run, where
\* the worker has nothing in hand and it could as well have happened before.
Followed ==
  /\ pc = "idle" => runs < MaxRuns
  /\ Narrow => pc \notin {"participation", "pick", "fallback"}

\* Bound: with Narrow, what a worker does not read does not happen while it
\* reads, pruning begins during a run, and the steps that read no batches,
\* counters or timelines are followed where nothing has happened to these.
Relevant(en) ==
  Narrow => /\ pc \in EpochSteps \cup {"processed", "summary"} => en \in EpochEntry
            /\ pc \in {"participation", "scan", "lists"} => en \in AggregatedEntry
            /\ pc \in KeySteps => en[2] = run.epoch /\ en[1] # "validator"
Pruning == Followed /\ (Narrow => pc # "idle" /\ pc \notin KeySteps)
Spared == Narrow /\ pc \in {"processed", "summary"} => pruned' = pruned
Unheard == Narrow => epochs = 0 /\ \A kind \in Kinds : pending[kind] = 0
Unpruned == Narrow => prunes = 0
Unbatched == active = {} /\ \A en \in BatchEntry : stage[en] = "none"
EpochsOnly == Unheard /\ (Narrow => Unbatched)

\* Bound: the counter is followed while a summary may still read it.
Listening == pc \in {"idle", "processed", "summary"}

Silent == published' = None

NoRun == [began |-> 0, rated |-> 0, reset |-> FALSE, failed |-> FALSE,
          start |-> 0, end |-> 0, present |-> {}, list |-> {}, counted |-> {},
          hour |-> 0, breakdown |-> {}, epoch |-> None, facts |-> {}, phase |-> None]

Init ==
  /\ now = 0 /\ stage = [en \in Entry |-> "none"]
  /\ score = [en \in Entry |-> None] /\ key = [en \in Entry |-> None]
  /\ active = {} /\ activeUntil = None /\ info = [e \in Epoch |-> None]
  /\ pending = [k \in Kinds |-> 0] /\ epochs = 0 /\ lastReset = 0
  /\ pc = "idle" /\ run = NoRun
  /\ prune = "idle" /\ cutoff = 0 /\ pruned = {}
  /\ published = None /\ writes = 0 /\ runs = 0 /\ prunes = 0

-----------------------------------------------------------------------------
(***************************************************************************)
(* The other services.                                                     *)
(***************************************************************************)
ServiceStep == Silent /\ UNCHANGED <<now, epochs, lastReset, readVars, pruneVars>>

\* A pipeline begins, and later goes on to its end.
Begin(en) ==
  /\ Followed /\ Relevant(en) /\ writes < MaxWrites /\ writes' = writes + 1
  /\ stage[en] = "none" /\ stage' = [stage EXCEPT ![en] = "added"]
  /\ ServiceStep
Finish(en) ==
  /\ Followed /\ Relevant(en) /\ stage[en] = "added" /\ stage' = [stage EXCEPT ![en] = "done"]
  /\ ServiceStep /\ UNCHANGED writes

\* ZADD, with the timestamp taken before the pipeline was sent.
ZAdd(en) ==
  \E t \in now - MaxLag .. now : t >= 0 /\ score' = [score EXCEPT ![en] = t]

\* The command after it sets a key, or fails.
Sets(en) == key' = [key EXCEPT ![en] = now]

\* A message finds the listener subscribed, or is lost.
PublishChange(kind) ==
  \/ Listening /\ pending' = [pending EXCEPT ![kind] = @ + 1]
  \/ UNCHANGED pending

\* handleEpochReleased puts the epoch into ActiveEpochs, or fails to and goes on.
Activate(e) ==
  /\ Followed /\ Relevant(<<"validator", e>>) /\ e \in Seen \ active /\ stage[<<"open", e>>] = "none"
  /\ active' = active \cup {e} /\ activeUntil' = now + Day
  /\ ServiceStep /\ UNCHANGED <<stage, score, key, info, writes, pending>>

\* StartSubmissionWindow's pipeline.  It is over, or has failed as a whole,
\* when the window ends, which lasts longer than a round trip to Redis.
OpenWindow(e) ==
  /\ e \in Seen /\ stage[<<"close", e>>] = "none" /\ stage[<<"local", e>>] = "none"
  /\ Begin(<<"open", e>>) /\ ZAdd(<<"open", e>>)
  /\ UNCHANGED <<key, pending, active, activeUntil, info>>
OpenInfo(e) ==
  /\ Finish(<<"open", e>>)
  /\ \/ Sets(<<"open", e>>) /\ info' = [info EXCEPT ![e] = "open"]
     \/ UNCHANGED <<key, info>>
  /\ PublishChange("open") /\ UNCHANGED <<score, active, activeUntil>>

Ended(e) == e \in Seen /\ stage[<<"open", e>>] # "added"

\* closeWindow's pipeline; it sets no TTL of its own.
CloseWindow(e) ==
  /\ Ended(e)
  /\ Begin(<<"close", e>>) /\ ZAdd(<<"close", e>>)
  /\ UNCHANGED <<key, pending, active, activeUntil, info>>
CloseInfo(e) ==
  /\ Finish(<<"close", e>>)
  /\ \/ Sets(<<"close", e>>) /\ info' = [info EXCEPT ![e] = "closed"]
     \/ UNCHANGED <<key, info>>
  /\ PublishChange("closed") /\ UNCHANGED <<score, active, activeUntil>>

\* aggregateWorkerParts' pipeline; the finalization it ends is asked for before
\* closeWindow's pipeline is sent.
LocalBatch(e) ==
  /\ Ended(e)
  /\ Begin(<<"local", e>>) /\ ZAdd(<<"local", e>>)
  /\ UNCHANGED <<key, pending, active, activeUntil, info>>

\* aggregateEpoch's pipeline.
Aggregate(e) ==
  /\ e \in Heard \/ stage[<<"local", e>>] # "none"
  /\ Begin(<<"aggregated", e>>) /\ ZAdd(<<"aggregated", e>>)
  /\ UNCHANGED <<key, pending, active, activeUntil, info>>

\* The batch and, with an aggregated one, the list of its validators.
BatchKeys(kind, e) ==
  /\ Finish(<<kind, e>>)
  /\ Sets(<<kind, e>>) \/ UNCHANGED key
  /\ UNCHANGED <<score, pending, active, activeUntil, info>>

\* The gateway stores a remote batch: SADD without TTL, then its pipeline.
RemoteBatch(e) ==
  /\ e \in Heard
  /\ Begin(<<"validator", e>>)
  /\ active' \in {active, active \cup {e}}
  /\ UNCHANGED <<score, key, pending, activeUntil, info>>
RemoteEntry(e) ==
  /\ Finish(<<"validator", e>>) /\ ZAdd(<<"validator", e>>)
  /\ UNCHANGED <<key, pending, active, activeUntil, info>>

\* Time passes and Redis drops the keys whose TTL is over.
Tick ==
  /\ Followed /\ now < MaxTime /\ now' = now + 1
  /\ pc # "idle" => now - run.began < MaxSpan
  /\ prune # "idle" => now - (cutoff + Day) < MaxSpan
  /\ LET over == activeUntil # None /\ activeUntil <= now + 1
     IN /\ active' = IF over THEN {} ELSE active
        /\ activeUntil' = IF over THEN None ELSE activeUntil
  /\ info' = [e \in Epoch |->
       IF Keyed(<<"open", e>>) /\ key[<<"open", e>>] + InfoTTL = now + 1 THEN None ELSE info[e]]
  /\ Silent /\ UNCHANGED <<stage, score, key, writes, counterVars, readVars, pruneVars>>

-----------------------------------------------------------------------------
(***************************************************************************)
(* The listener.                                                           *)
(***************************************************************************)
\* Mutant: closes are counted too, as the legacy handler does.
processStateChange(kind) == epochs' = epochs + 1

\* Only opens are counted.
processSimpleStateChange(kind) == epochs' = IF kind = "open" THEN epochs + 1 ELSE epochs

\* Mutant: the nil message of a closed subscription is not skipped.
ListenNil(kind) ==
  /\ Followed /\ Listening /\ ~Locked
  /\ pending' = [pending EXCEPT ![kind] = @ - 1]
  /\ processSimpleStateChange(kind)
  /\ Silent /\ UNCHANGED <<now, lastReset, serviceVars, readVars, pruneVars>>

Listen(kind) ==
  /\ Followed /\ Listening /\ ~Locked /\ pending[kind] > 0
  /\ pending' = [pending EXCEPT ![kind] = @ - 1]
  /\ processSimpleStateChange(kind)
  /\ Silent /\ UNCHANGED <<now, lastReset, serviceVars, readVars, pruneVars>>

-----------------------------------------------------------------------------
(***************************************************************************)
(* The reading workers.  None writes anything another one reads, so their  *)
(* runs are followed one at a time; services, listener and pruning go on   *)
(* between the steps.                                                      *)
(***************************************************************************)
StartRun(step, locals) ==
  /\ pc = "idle" /\ pc' = step /\ runs < MaxRuns /\ runs' = runs + 1
  /\ run' = locals
  /\ Silent /\ UNCHANGED <<now, serviceVars, counterVars, pruneVars>>

Read(step, next, locals) ==
  /\ pc = step /\ pc' = next /\ run' = locals
  /\ Silent /\ UNCHANGED <<now, runs, serviceVars, counterVars, pruneVars>>

Store(step, next, locals, dataset) ==
  /\ pc = step /\ pc' = next /\ run' = locals /\ published' = dataset
  /\ UNCHANGED <<now, runs, serviceVars, counterVars, pruneVars>>

Began(t) == [NoRun EXCEPT !.began = t]
Continued == Began(run.began)

\* The locals r of a run that counts entries of S over a period; those that can
\* be read when it is fixed are remembered for the properties.
Over(r, S, from, to) ==
  [r EXCEPT !.start = from, !.end = to, !.present = Between(S \cap Readable, from, to)]

\* A read that fails leaves the local variable at its default, and less than
\* what is there is counted.
Failed == [run EXCEPT !.failed = TRUE, !.present = {}]

(***************************************************************************)
(* The metrics aggregator: aggregateCurrentMetrics and, called by it,      *)
(* aggregateParticipationMetrics and aggregateCurrentEpochStatus.          *)
(***************************************************************************)
\* RLock, and the rates computed from the counters.
MetricsStart ==
  (Unheard \/ Unbatched) /\ StartRun("processed", [NoRun EXCEPT !.began = now, !.rated = epochs])

\* The submissions of the active epochs have been counted; RUnlock.
MetricsUnlock == Read("processed", "summary", run)

\* The totals are read without the lock and the summary is stored.
MetricsSummary ==
  Store("summary", "participation", Continued,
        [set |-> "summary", rated |-> run.rated, reset |-> run.reset, epochs |-> epochs])

\* The period is fixed and the batches are counted for the rates.
ParticipationStart ==
  Unheard /\ Read("participation", "scan", Over(Continued, AggregatedEntry, now - Day, now))

\* The aggregated batches on the timeline; an error leaves an empty list.
ParticipationScan ==
  \/ Read("scan", "lists", [run EXCEPT !.list =
       ZRange(BatchEntry, run.start, run.end) \cap AggregatedEntry])
  \/ Read("scan", "lists", Failed)

\* One after the other, the lists of validators; the aggregator always puts
\* the own validator on it.  A list that is not there, or that GET fails to
\* fetch, is skipped.
ParticipationList ==
  \E en \in run.list :
    LET rest == [run EXCEPT !.list = @ \ {en}]
    IN \/ Exists(en[1], en[2]) /\ Read("lists", "lists", [rest EXCEPT !.counted = @ \cup {en}])
       \/ ~Exists(en[1], en[2]) /\ Read("lists", "lists", rest)
       \/ Read("lists", "lists", [Failed EXCEPT !.list = rest.list])

\* The figures of a period, as they are stored.
Figures(name) ==
  [set |-> name, start |-> run.start, end |-> run.end, at |-> now, present |-> run.present,
   counted |-> run.counted, breakdown |-> run.breakdown]

ParticipationStore ==
  run.list = {} /\ Store("lists", "pick", Continued, Figures("participation"))

\* What the keys of an epoch say: the status of its window, its batches.
Facts(e) ==
  {f \in {"open", "closed", "local", "aggregated"} :
     IF f \in {"open", "closed"} THEN info[e] = f ELSE Exists(f, e)}

\* S: the latest entries of the epochs timeline.
Latest(S) ==
  /\ Cardinality(S) = Min({FallbackDepth, Cardinality(Timeline)})
  /\ \A en \in S, other \in Timeline \ S : score[other] <= score[en]
NotClosed(S) == {en \in S : en[1] = "open" /\ ~\E f \in Prefixed[en[2]] : <<"close", f>> \in S}

\* The latest open epoch without a close among the latest entries, or the
\* epoch of the latest entry.
FromTimeline(e) ==
  \E S \in SUBSET Timeline :
    /\ Latest(S)
    /\ LET candidates == IF NotClosed(S) # {} THEN NotClosed(S) ELSE S
       IN \E en \in candidates :
            en[2] = e /\ \A other \in candidates : score[other] <= score[en]

PickEpoch(from, to, e) == Read(from, to, [Continued EXCEPT !.epoch = e, !.facts = Facts(e)])

\* SMEMBERS returns the members of a set in no promised order; when there are
\* none, or it fails, the timeline is read.
StatusPick ==
  /\ Unpruned
  /\ \/ Read("pick", "fallback", Continued)
     \/ \E e \in active : PickEpoch("pick", "info", e)

FallbackPick ==
  \/ Read("fallback", "idle", NoRun)
  \/ \E e \in Epoch : FromTimeline(e) /\ PickEpoch("fallback", "fallbackInfo", e)

\* The step that finds a phase is the last one before the status is stored.
FoundPhase(from, phase) == Read(from, "status", [run EXCEPT !.phase = phase])
DefaultPhase(from, phase) == Read(from, "status", [Failed EXCEPT !.phase = phase])

\* The epoch's info, from either source, and the phase of an open window.  An
\* empty hash is no error: the window is taken to be closed.
InfoStep(from) ==
  /\ pc = from
  /\ \/ info[run.epoch] = "open" /\ FoundPhase(from, "submission")
     \/ info[run.epoch] # "open" /\ Read(from, "local", run)
     \/ DefaultPhase(from, "unknown")

StatusInfo == InfoStep("info")
FallbackInfo == InfoStep("fallbackInfo")

\* Mutant: an aggregated batch is taken to imply the local one.
StatusLocalEither ==
  /\ pc = "local"
  /\ IF Exists("local", run.epoch) \/ Exists("aggregated", run.epoch)
     THEN Read("local", "aggregated", run)
     ELSE FoundPhase("local", "finalization")

\* The error of EXISTS is discarded, and so it is in the next step.
StatusLocal ==
  /\ pc = "local"
  /\ \/ Exists("local", run.epoch) /\ Read("local", "aggregated", run)
     \/ ~Exists("local", run.epoch) /\ FoundPhase("local", "finalization")
     \/ DefaultPhase("local", "finalization")

StatusAggregated ==
  /\ pc = "aggregated"
  /\ \/ Exists("aggregated", run.epoch) /\ FoundPhase("aggregated", "complete")
     \/ ~Exists("aggregated", run.epoch) /\ FoundPhase("aggregated", "aggregation")
     \/ DefaultPhase("aggregated", "aggregation")

StatusStore ==
  Store("status", "idle", NoRun,
        [set |-> "status", epoch |-> run.epoch, phase |-> run.phase, failed |-> run.failed,
         first |-> run.facts, before |-> run.facts \cap Facts(run.epoch)])

(***************************************************************************)
(* The hourly worker: the current hour up to now, then the previous hour.  *)
(***************************************************************************)
CurrentHour(t) == t - (t % Hour)

HourlyStart == EpochsOnly /\ StartRun("hour", Over(Began(now), EpochEntry, CurrentHour(now), now))

\* ZCOUNT of the epochs timeline; an error gives zero.
CountEpochs(from, to) ==
  \/ Read(from, to, [run EXCEPT !.counted = ZRange(EpochEntry, run.start, run.end)])
  \/ Read(from, to, Failed)

HourEpochs == CountEpochs("hour", "hourStore")

HourStore ==
  LET current == CurrentHour(run.began)
  IN IF run.start = current
     THEN Store("hourStore", "hour", Over(Continued, EpochEntry, current - Hour, current),
                Figures("hourly"))
     ELSE Store("hourStore", "idle", NoRun, Figures("hourly"))

(***************************************************************************)
(* The daily worker.  The hours of the breakdown are counted one after the *)
(* other, each with both its ends: an entry on the hour is in two of them. *)
(***************************************************************************)
DailyStart == EpochsOnly /\ StartRun("day", Over(Began(now), EpochEntry, now - Day, now))

DailyEpochs == CountEpochs("day", "breakdown")

HourStart(from, i) == from + i * Hour

\* The entries of the hour, none when ZCOUNT fails.
HourCount(r, found) ==
  [r EXCEPT !.hour = @ + 1, !.breakdown = @ \cup ({r.hour} \X found)]

DailyBreakdown ==
  LET next == IF run.hour + 1 < HoursPerDay THEN "breakdown" ELSE "dayStore"
      found == ZRange(EpochEntry, HourStart(run.start, run.hour), HourStart(run.start, run.hour + 1))
  IN \/ Read("breakdown", next, HourCount(run, found))
     \/ Read("breakdown", next, HourCount(Failed, {}))

DailyStore == Store("dayStore", "idle", NoRun, Figures("daily"))

-----------------------------------------------------------------------------
(***************************************************************************)
(* The pruning worker.                                                     *)
(***************************************************************************)
\* Bound: a run before anything can be a day old changes nothing and is skipped.
PruneStart ==
  /\ Pruning /\ now >= Day /\ prune = "idle" /\ prune' = "epochs" /\ prunes < MaxPrunes /\ prunes' = prunes + 1
  /\ cutoff' = now - Day
  /\ Silent /\ UNCHANGED <<now, pruned, serviceVars, counterVars, readVars>>

\* Mutant: what is up to an hour younger than the cut-off goes too.
PruneYoungest(S, step, next) ==
  /\ Spared /\ Pruning /\ prune = step /\ prune' = next
  /\ pruned' \in {pruned, pruned \cup {en \in S : Written(en) /\ score[en] <= cutoff + Hour}}
  /\ Silent /\ UNCHANGED <<now, cutoff, prunes, serviceVars, counterVars, readVars>>

\* ZREMRANGEBYSCORE -inf cutoff; when it fails the worker goes on.
PruneTimeline(S, step, next) ==
  /\ Spared /\ Pruning /\ prune = step /\ prune' = next
  /\ pruned' \in {pruned, pruned \cup {en \in S : Written(en) /\ score[en] <= cutoff}}
  /\ Silent /\ UNCHANGED <<now, cutoff, prunes, serviceVars, counterVars, readVars>>

PruneEpochs == PruneTimeline(EpochEntry, "epochs", "batches")
PruneBatches == PruneTimeline(BatchEntry, "batches", "reset")

\* The counters start over after more than 24 hours.
PruneReset ==
  /\ Pruning /\ prune = "reset" /\ prune' = "idle" /\ cutoff' = 0 /\ ~Locked
  /\ IF now - lastReset > Day
     THEN /\ epochs' = 0 /\ lastReset' = now
          /\ run' = [run EXCEPT !.reset = pc = "summary"]
     ELSE UNCHANGED <<epochs, lastReset, run>>
  /\ Silent /\ UNCHANGED <<now, pending, pc, runs, pruned, prunes, serviceVars>>

-----------------------------------------------------------------------------
Services ==
  \E e \in Epoch :
    \/ Activate(e) \/ OpenWindow(e) \/ OpenInfo(e) \/ CloseWindow(e) \/ CloseInfo(e)
    \/ LocalBatch(e) \/ Aggregate(e) \/ \E kind \in {"local", "aggregated"} : BatchKeys(kind, e)
    \/ RemoteBatch(e) \/ RemoteEntry(e)
Metrics ==
  \/ MetricsStart \/ MetricsUnlock \/ MetricsSummary
  \/ ParticipationStart \/ ParticipationScan \/ ParticipationList \/ ParticipationStore
  \/ StatusPick \/ StatusInfo \/ FallbackPick \/ FallbackInfo
  \/ StatusLocal \/ StatusAggregated \/ StatusStore
Hourly == HourlyStart \/ HourEpochs \/ HourStore
Daily == DailyStart \/ DailyEpochs \/ DailyBreakdown \/ DailyStore
Prune == PruneStart \/ PruneEpochs \/ PruneBatches \/ PruneReset

Next ==
  \/ Services \/ Tick
  \/ \E kind \in Kinds : Listen(kind)
  \/ Metrics \/ Hourly \/ Daily \/ Prune

Spec == Init /\ [][Next]_vars

-----------------------------------------------------------------------------
(***************************************************************************)
(* Properties.                                                             *)
(***************************************************************************)
ServiceTypes ==
  /\ now \in 0 .. MaxTime /\ stage \in [Entry -> Stages]
  /\ score \in [Entry -> (0 .. MaxTime) \cup {None}]
  /\ key \in [Entry -> (0 .. MaxTime) \cup {None}]
  /\ active \subseteq Epoch /\ activeUntil \in Nat \cup {None}
  /\ info \in [Epoch -> {"open", "closed", None}] /\ writes \in 0 .. MaxWrites

CounterTypes ==
  pending \in [Kinds -> Nat] /\ epochs \in Nat /\ lastReset \in 0 .. MaxTime

RunRecord ==
  [began : 0 .. MaxTime, rated : Nat, reset : BOOLEAN, failed : BOOLEAN, start : Int, end : Int,
   present : SUBSET Entry, list : SUBSET Entry, counted : SUBSET Entry,
   hour : Nat, breakdown : SUBSET (Nat \X Entry), epoch : Epoch \cup {None},
   facts : SUBSET {"open", "closed", "local", "aggregated"}, phase : Phases \cup {None}]

RunTypes == pc \in Steps /\ runs \in 0 .. MaxRuns /\ run \in RunRecord

PruneTypes ==
  /\ prune \in {"idle", "epochs", "batches", "reset"} /\ cutoff \in Int
  /\ pruned \subseteq Entry /\ prunes \in 0 .. MaxPrunes

\* The types of the variables; no message is taken that was not published.
TypeOK == ServiceTypes /\ CounterTypes /\ RunTypes /\ PruneTypes

Stored(name) == published # None /\ published.set = name

\* The figures of the dashboard summary, taken partly under the lock and
\* partly after it was given back, agree with each other and with what
\* happened: the number of epochs behind the rate is at most the total, unless
\* the counters were reset meanwhile, and the total at most the number of
\* windows that were opened: a close is not counted as another epoch.
SummaryCounts ==
  Stored("summary") =>
    /\ published.rated <= published.epochs \/ published.reset
    /\ published.epochs <= Cardinality({e \in Epoch : stage[<<"open", e>>] # "none"})

\* The entries a dataset has to count: those of its period that could be read
\* when it was fixed and are not a day old when the dataset is stored; none when
\* a read failed.
Due(d) == {en \in d.present : score[en] > d.at - Day}
Counted(S, d) ==
  /\ d.counted \subseteq Between(S, d.start, d.end)
  /\ Due(d) \subseteq d.counted

\* Published statistics count what happened in their period, although the
\* clock moves on, entries appear with older timestamps and the pruning worker
\* deletes while they are put together: none is counted that is outside the
\* period and, unless a read failed, no recent one is missing that was there
\* when the period was fixed.  The daily breakdown puts each of them in an
\* hour, and in no hour that it is outside of.
StatsCoverPeriod ==
  /\ Stored("hourly") => Counted(EpochEntry, published)
  /\ Stored("daily") =>
       /\ Counted(EpochEntry, published)
       /\ \A hour \in published.breakdown :
            hour[2] \in Between(EpochEntry, HourStart(published.start, hour[1]),
                               HourStart(published.start, hour[1] + 1))
       /\ \A en \in Due(published) :
            \E i \in 0 .. HoursPerDay - 1 : <<i, en>> \in published.breakdown
  /\ Stored("participation") => Counted(AggregatedEntry, published)

\* The info of the epoch no longer says "open": closed, or over after two hours.
Left(e) ==
  \/ Keyed(<<"close", e>>)
  \/ Keyed(<<"open", e>>) /\ key[<<"open", e>>] + InfoTTL <= now

\* The published phase of an epoch, found by up to three reads, is not ahead of
\* what has been written and, unless one of them failed, not behind what held
\* before the first read and still holds.  An epoch that was open at the first
\* read is past submission only if its window was closed meanwhile or its
\* info is over; "unknown" tells of a failed read.
PhaseJustified ==
  Stored("status") =>
    LET e == published.epoch
        phase == published.phase
        Outdated(f) == f \in published.before /\ ~published.failed
    IN /\ phase = "submission" => stage[<<"open", e>>] = "done" /\ ~Outdated("closed")
       /\ phase = "finalization" => ~Outdated("local")
       /\ phase = "aggregation" => Keyed(<<"local", e>>) /\ ~Outdated("aggregated")
       /\ phase = "complete" => Keyed(<<"local", e>>) /\ Keyed(<<"aggregated", e>>)
       /\ phase \in {"finalization", "aggregation", "complete"} /\ "open" \in published.first => Left(e)
       /\ phase = "unknown" => published.failed
=============================================================================
