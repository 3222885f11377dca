---------------------------- MODULE Finalization ----------------------------
(***************************************************************************)
(* Parallel finalization of an epoch and its Level 1 aggregation.          *)
(*                                                                         *)
(* When a submission window closes, the event monitor splits the epoch     *)
(* into batch parts and pushes them, one LPUSH per part, to the            *)
(* finalization queue.  Finalizer workers pop a part each, store its       *)
(* result and count it in the Redis key parts:completed.  The worker that  *)
(* believes its part was the last one pushes the epoch to the Level 1      *)
(* aggregation queue.  The aggregator then merges the stored parts into    *)
(* the local finalized batch, broadcasts it and deletes the tracking keys. *)
(*                                                                         *)
(* Every Redis command is a step of its own, so that the commands of       *)
(* different workers interleave as they do on the server.  The pipeline    *)
(* that publishes the progress is not a transaction: it takes two steps.   *)
(* A Redis command may fail (at most MaxFaults times), a worker or the     *)
(* aggregator may crash (a fault too): what it had popped is gone.         *)
(* Monitoring keys (part status, worker status, metrics) are left out.     *)
(***************************************************************************)
EXTENDS Integers, Sequences, FiniteSets

CONSTANTS
  Worker,      \* the finalization worker goroutines
  Epoch,       \* the epochs whose windows close
  TotalParts,  \* number of batch parts of every epoch (len(batches))
  MaxFaults    \* bound on Redis errors and crashes

ASSUME WorkerAssumption == IsFiniteSet(Worker)
ASSUME EpochAssumption  == Epoch # {}
ASSUME PartsAssumption  == TotalParts \in [Epoch -> Nat]
ASSUME FaultAssumption  == MaxFaults \in Nat

VARIABLES
  pushed,            \* number of parts triggerFinalization is through with
  finalizationQueue, \* the finalizationQueue list, oldest element first
  parts,             \* the batch:part keys that exist
  completed,         \* the parts:completed counter (0: the key is absent)
  ready,             \* the parts:ready flag
  aggregationQueue,  \* the Level 1 aggregationQueue list, oldest first
  finalized,         \* the finalized:{epoch} key: its parts, or NoBatch
  broadcasts,        \* number of messages queued for the validator network
  pc, job, count,    \* per worker: control state, popped part, Incr result
  aggPc, aggJob, aggNext, aggMerged, \* the aggregator's control state/locals
  faults,            \* faults so far
  stored,            \* history: parts whose key was ever written
  counted,           \* history: parts whose increment was applied
  triggers,          \* history: number of Level 1 triggers per epoch
  skipped,           \* history: parts the aggregator failed to read
  aborted            \* history: epochs whose aggregation was cut short

emVars     == <<pushed>>
redisVars  == <<finalizationQueue, parts, completed, ready, aggregationQueue,
                finalized, broadcasts>>
workerVars == <<pc, job, count>>
aggVars    == <<aggPc, aggJob, aggNext, aggMerged>>
histVars   == <<stored, counted, triggers, skipped, aborted>>
vars == <<emVars, redisVars, workerVars, aggVars, faults, histVars>>

Parts(e) == 0 .. TotalParts[e] - 1

Job      == [epoch : Epoch, part : Nat]
Trigger  == [epoch : Epoch, total : Nat]
NoBatch  == {-1}
NoJob    == [epoch |-> CHOOSE e \in Epoch : TRUE, part |-> 0]
NoAggJob == [epoch |-> CHOOSE e \in Epoch : TRUE, total |-> 0]

Fault ==
  /\ faults < MaxFaults
  /\ faults' = faults + 1

Init ==
  /\ pushed = [e \in Epoch |-> 0]
  /\ finalizationQueue = <<>>
  /\ parts = [e \in Epoch |-> {}]
  /\ completed = [e \in Epoch |-> 0]
  /\ ready = [e \in Epoch |-> FALSE]
  /\ aggregationQueue = <<>>
  /\ finalized = [e \in Epoch |-> NoBatch]
  /\ broadcasts = [e \in Epoch |-> 0]
  /\ pc = [w \in Worker |-> "pop"]
  /\ job = [w \in Worker |-> NoJob]
  /\ count = [w \in Worker |-> 0]
  /\ aggPc = "pop"
  /\ aggJob = NoAggJob
  /\ aggNext = 0
  /\ aggMerged = {}
  /\ faults = 0
  /\ stored = [e \in Epoch |-> {}]
  /\ counted = [e \in Epoch |-> {}]
  /\ triggers = [e \in Epoch |-> 0]
  /\ skipped = [e \in Epoch |-> {}]
  /\ aborted = [e \in Epoch |-> FALSE]

-----------------------------------------------------------------------------
(* Event monitor: the LPUSH loop of triggerFinalization.                   *)

(* Mutant: batch ids numbered from 1, as the log message prints them. *)
PushPartFromOne(e) ==
  /\ pushed[e] < TotalParts[e]
  /\ pushed' = [pushed EXCEPT ![e] = @ + 1]
  /\ finalizationQueue' =
       Append(finalizationQueue, [epoch |-> e, part |-> pushed[e] + 1])
  /\ UNCHANGED <<parts, completed, ready, aggregationQueue, finalized,
                 broadcasts, workerVars, aggVars, faults, histVars>>

PushPart(e) ==
  /\ pushed[e] < TotalParts[e]
  /\ pushed' = [pushed EXCEPT ![e] = @ + 1]
  /\ finalizationQueue' =
       Append(finalizationQueue, [epoch |-> e, part |-> pushed[e]])
  /\ UNCHANGED <<parts, completed, ready, aggregationQueue, finalized,
                 broadcasts, workerVars, aggVars, faults, histVars>>

(* A failed LPUSH is logged and the loop goes on with the next part. *)
PushPartFails(e) ==
  /\ Fault
  /\ pushed[e] < TotalParts[e]
  /\ pushed' = [pushed EXCEPT ![e] = @ + 1]
  /\ UNCHANGED <<redisVars, workerVars, aggVars, histVars>>

-----------------------------------------------------------------------------
(* Finalizer worker.                                                       *)

Goto(w, label) == pc' = [pc EXCEPT ![w] = label]

PopPart(w) ==
  /\ pc[w] = "pop"
  /\ finalizationQueue # <<>>
  /\ job' = [job EXCEPT ![w] = Head(finalizationQueue)]
  /\ finalizationQueue' = Tail(finalizationQueue)
  /\ Goto(w, "store")
  /\ UNCHANGED <<emVars, parts, completed, ready, aggregationQueue, finalized,
                 broadcasts, count, aggVars, faults, histVars>>

StorePart(w) ==
  LET e == job[w].epoch IN
  /\ pc[w] = "store"
  /\ parts'  = [parts  EXCEPT ![e] = @ \cup {job[w].part}]
  /\ stored' = [stored EXCEPT ![e] = @ \cup {job[w].part}]
  /\ Goto(w, "incr")
  /\ UNCHANGED <<emVars, finalizationQueue, completed, ready,
                 aggregationQueue, finalized, broadcasts, job, count, aggVars,
                 faults, counted, triggers, skipped, aborted>>

IncrCompleted(w) ==
  LET e == job[w].epoch IN
  /\ pc[w] = "incr"
  /\ completed' = [completed EXCEPT ![e] = @ + 1]
  /\ counted'   = [counted EXCEPT ![e] = @ \cup {job[w].part}]
  /\ count'     = [count EXCEPT ![w] = completed[e] + 1]
  /\ Goto(w, "update")
  /\ UNCHANGED <<emVars, finalizationQueue, parts, ready, aggregationQueue,
                 finalized, broadcasts, job, aggVars, faults, stored,
                 triggers, skipped, aborted>>

(* The error of INCR is discarded and completed is 0; when only the reply  *)
(* was lost the increment is applied nevertheless.                         *)
IncrCompletedFails(w) ==
  LET e == job[w].epoch IN
  /\ Fault
  /\ pc[w] = "incr"
  /\ \/ UNCHANGED <<completed, counted>>
     \/ /\ completed' = [completed EXCEPT ![e] = @ + 1]
        /\ counted'   = [counted EXCEPT ![e] = @ \cup {job[w].part}]
  /\ count' = [count EXCEPT ![w] = 0]
  /\ Goto(w, "update")
  /\ UNCHANGED <<emVars, finalizationQueue, parts, ready, aggregationQueue,
                 finalized, broadcasts, job, aggVars, stored, triggers,
                 skipped, aborted>>

(* Mutants: a test that is satisfied one part early; a test of the shared  *)
(* counter instead of the worker's own Incr result; a test for a count     *)
(* past the total.                                                         *)
AllPartsCompleteEarly(w) == count[w] >= TotalParts[job[w].epoch] - 1
AllPartsCompleteShared(w) ==
  completed[job[w].epoch] = TotalParts[job[w].epoch]
AllPartsCompletePast(w) == count[w] > TotalParts[job[w].epoch]

AllPartsComplete(w) ==
  LET total == TotalParts[job[w].epoch] IN count[w] = total /\ total > 0

(* The progress pipeline: the counter is SET to the value Incr returned... *)
SetProgress(w) ==
  LET e == job[w].epoch IN
  /\ pc[w] = "update"
  /\ completed' = [completed EXCEPT ![e] = count[w]]
  /\ Goto(w, IF AllPartsComplete(w) THEN "ready" ELSE "pop")
  /\ UNCHANGED <<emVars, finalizationQueue, parts, ready, aggregationQueue,
                 finalized, broadcasts, job, count, aggVars, faults, histVars>>

(* ... and, when that value is the total, the epoch is marked and queued.  *)
MarkReady(w) ==
  LET e == job[w].epoch IN
  /\ pc[w] = "ready"
  /\ ready' = [ready EXCEPT ![e] = TRUE]
  /\ aggregationQueue' =
       Append(aggregationQueue, [epoch |-> e, total |-> count[w]])
  /\ triggers' = [triggers EXCEPT ![e] = @ + 1]
  /\ Goto(w, "pop")
  /\ UNCHANGED <<emVars, finalizationQueue, parts, completed, finalized,
                 broadcasts, job, count, aggVars, faults, stored, counted,
                 skipped, aborted>>

(* A failed SET of the part, a failed (or half-sent) pipeline and a crash  *)
(* all leave the worker back at the queue without its part.                *)
WorkerFails(w) ==
  /\ Fault
  /\ pc[w] # "pop"
  /\ Goto(w, "pop")
  /\ UNCHANGED <<emVars, redisVars, job, count, aggVars, histVars>>

-----------------------------------------------------------------------------
(* Aggregator, Level 1.                                                    *)

PopTrigger ==
  /\ aggPc = "pop"
  /\ aggregationQueue # <<>>
  /\ aggJob' = Head(aggregationQueue)
  /\ aggregationQueue' = Tail(aggregationQueue)
  /\ aggNext' = 0
  /\ aggMerged' = {}
  /\ aggPc' = "merge"
  /\ UNCHANGED <<emVars, finalizationQueue, parts, completed, ready,
                 finalized, broadcasts, workerVars, faults, histVars>>

(* Mutant: the results of a part replace the earlier ones. *)
MergePartOverwrites ==
  LET e == aggJob.epoch IN
  /\ aggPc = "merge"
  /\ aggNext < aggJob.total
  /\ aggMerged' = {aggNext} \cap parts[e]
  /\ parts' = [parts EXCEPT ![e] = @ \ {aggNext}]
  /\ aggNext' = aggNext + 1
  /\ UNCHANGED <<emVars, finalizationQueue, completed, ready,
                 aggregationQueue, finalized, broadcasts, workerVars, aggPc,
                 aggJob, faults, histVars>>

(* One turn of the loop over 0 .. totalParts-1: read, merge, delete.  A    *)
(* key that is not there is skipped.                                       *)
MergePart ==
  LET e == aggJob.epoch IN
  /\ aggPc = "merge"
  /\ aggNext < aggJob.total
  /\ aggMerged' = aggMerged \cup ({aggNext} \cap parts[e])
  /\ parts' = [parts EXCEPT ![e] = @ \ {aggNext}]
  /\ aggNext' = aggNext + 1
  /\ UNCHANGED <<emVars, finalizationQueue, completed, ready,
                 aggregationQueue, finalized, broadcasts, workerVars, aggPc,
                 aggJob, faults, histVars>>

(* GET fails: the part is skipped and its key stays. *)
MergePartFails ==
  LET e == aggJob.epoch IN
  /\ Fault
  /\ aggPc = "merge"
  /\ aggNext < aggJob.total
  /\ skipped' = [skipped EXCEPT ![e] = @ \cup {aggNext}]
  /\ aggNext' = aggNext + 1
  /\ UNCHANGED <<emVars, redisVars, workerVars, aggPc, aggJob, aggMerged,
                 stored, counted, triggers, aborted>>

(* Mutant: the loop ends one part early. *)
SetFinalizedEarly ==
  /\ aggPc = "merge"
  /\ aggNext + 1 >= aggJob.total
  /\ finalized' = [finalized EXCEPT ![aggJob.epoch] = aggMerged]
  /\ aggPc' = "broadcast"
  /\ UNCHANGED <<emVars, finalizationQueue, parts, completed, ready,
                 aggregationQueue, broadcasts, workerVars, aggJob, aggNext,
                 aggMerged, faults, histVars>>

SetFinalized ==
  /\ aggPc = "merge"
  /\ aggNext >= aggJob.total
  /\ finalized' = [finalized EXCEPT ![aggJob.epoch] = aggMerged]
  /\ aggPc' = "broadcast"
  /\ UNCHANGED <<emVars, finalizationQueue, parts, completed, ready,
                 aggregationQueue, broadcasts, workerVars, aggJob, aggNext,
                 aggMerged, faults, histVars>>

Broadcast ==
  /\ aggPc = "broadcast"
  /\ broadcasts' = [broadcasts EXCEPT ![aggJob.epoch] = @ + 1]
  /\ aggPc' = "cleanup"
  /\ UNCHANGED <<emVars, finalizationQueue, parts, completed, ready,
                 aggregationQueue, finalized, workerVars, aggJob, aggNext,
                 aggMerged, faults, histVars>>

(* A failed LPUSH to the broadcast queue is only logged. *)
BroadcastFails ==
  /\ Fault
  /\ aggPc = "broadcast"
  /\ aggPc' = "cleanup"
  /\ UNCHANGED <<emVars, redisVars, workerVars, aggJob, aggNext, aggMerged,
                 histVars>>

Cleanup ==
  /\ aggPc = "cleanup"
  /\ completed' = [completed EXCEPT ![aggJob.epoch] = 0]
  /\ ready' = [ready EXCEPT ![aggJob.epoch] = FALSE]
  /\ aggPc' = "pop"
  /\ UNCHANGED <<emVars, finalizationQueue, parts, aggregationQueue,
                 finalized, broadcasts, workerVars, aggJob, aggNext,
                 aggMerged, faults, histVars>>

(* A failed SET of the finalized batch returns, a crash starts over: the   *)
(* popped trigger and the parts already deleted are gone.                  *)
AggregatorFails ==
  /\ Fault
  /\ aggPc # "pop"
  /\ aborted' = [aborted EXCEPT ![aggJob.epoch] = @ \/ aggPc = "merge"]
  /\ aggPc' = "pop"
  /\ UNCHANGED <<emVars, redisVars, workerVars, aggJob, aggNext, aggMerged,
                 stored, counted, triggers, skipped>>

-----------------------------------------------------------------------------
WorkerStep(w) ==
  \/ PopPart(w) \/ StorePart(w) \/ IncrCompleted(w)
  \/ SetProgress(w) \/ MarkReady(w)

AggregatorStep ==
  \/ PopTrigger \/ MergePart \/ SetFinalized \/ Broadcast \/ Cleanup

Next ==
  \/ \E e \in Epoch : PushPart(e) \/ PushPartFails(e)
  \/ \E w \in Worker : WorkerStep(w) \/ IncrCompletedFails(w) \/ WorkerFails(w)
  \/ AggregatorStep \/ MergePartFails \/ BroadcastFails \/ AggregatorFails

Spec == Init /\ [][Next]_vars

(* Goroutines that can run eventually do; Redis answers.  No fault is fair. *)
Fairness ==
  /\ \A e \in Epoch : WF_vars(PushPart(e))
  /\ \A w \in Worker : WF_vars(WorkerStep(w))
  /\ WF_vars(AggregatorStep)

FairSpec == Spec /\ Fairness

-----------------------------------------------------------------------------
(* Properties.                                                             *)

EpochTypes ==
  /\ pushed \in [Epoch -> Nat]
  /\ parts \in [Epoch -> SUBSET Nat]
  /\ completed \in [Epoch -> Nat]
  /\ ready \in [Epoch -> BOOLEAN]
  /\ finalized \in [Epoch -> SUBSET Int]
  /\ broadcasts \in [Epoch -> Nat]

QueueTypes ==
  /\ finalizationQueue \in Seq(Job)
  /\ aggregationQueue \in Seq(Trigger)

ActorTypes ==
  /\ pc \in [Worker -> {"pop", "store", "incr", "update", "ready"}]
  /\ job \in [Worker -> Job]
  /\ count \in [Worker -> Nat]
  /\ aggPc \in {"pop", "merge", "broadcast", "cleanup"}
  /\ aggJob \in Trigger
  /\ aggNext \in Nat
  /\ aggMerged \in SUBSET Nat
  /\ faults \in 0 .. MaxFaults

HistoryTypes ==
  /\ stored \in [Epoch -> SUBSET Nat]
  /\ counted \in [Epoch -> SUBSET Nat]
  /\ triggers \in [Epoch -> Nat]
  /\ skipped \in [Epoch -> SUBSET Nat]
  /\ aborted \in [Epoch -> BOOLEAN]

BatchIdsInRange ==
  /\ \A e \in Epoch : pushed[e] <= TotalParts[e] /\ parts[e] \subseteq Parts(e)
  /\ \A i \in DOMAIN finalizationQueue :
       finalizationQueue[i].part \in Parts(finalizationQueue[i].epoch)
  /\ \A w \in Worker : pc[w] # "pop" => job[w].part \in Parts(job[w].epoch)

(* The variables have the types of the Redis keys and goroutine locals     *)
(* they stand for; batch ids lie in 0 .. total-1, which is the range       *)
(* aggregateWorkerParts reads.                                             *)
TypeOK ==
  EpochTypes /\ QueueTypes /\ ActorTypes /\ HistoryTypes /\ BatchIdsInRange

(* A trigger in the Level 1 queue names the epoch's real number of parts   *)
(* and all of them were stored before it was pushed, whatever the          *)
(* interleaving of the workers' Incr and SET on parts:completed and        *)
(* whichever commands failed (UpdateBatchPartsProgress never announces an  *)
(* epoch early).                                                           *)
TriggerOnlyWhenComplete ==
  \A i \in DOMAIN aggregationQueue :
    LET t == aggregationQueue[i] IN
      t.total = TotalParts[t.epoch] /\ stored[t.epoch] = Parts(t.epoch)

(* An epoch is announced for Level 1 at most once, so that it is broadcast *)
(* to the validator network at most once.                                  *)
TriggeredOnce ==
  \A e \in Epoch : triggers[e] <= 1 /\ broadcasts[e] <= triggers[e]

(* The local finalized batch holds every part of its epoch except those    *)
(* whose GET failed while aggregateWorkerParts ran.                        *)
FinalizedIsWhole ==
  \A e \in Epoch : finalized[e] # NoBatch =>
    /\ finalized[e] \cup skipped[e] = Parts(e)
    /\ finalized[e] \cap skipped[e] = {}

(* A stored part is never in nobody's hands: its key exists, or the        *)
(* aggregator holds it, or the finalized batch does.  The one way to lose  *)
(* it is an aggregator that dies, or cannot store the batch, after it has  *)
(* begun to delete part keys.                                              *)
PartsNotLost ==
  \A e \in Epoch : ~aborted[e] =>
    \A p \in stored[e] :
      \/ p \in parts[e]
      \/ aggPc = "merge" /\ aggJob.epoch = e /\ p \in aggMerged
      \/ p \in finalized[e]

(* REDIS_KEYS.md:119: parts:ready is "Written by: Finalizer workers when   *)
(* all parts complete".  Once all parts of an epoch are counted and no     *)
(* worker is busy, the epoch has been announced.                           *)
ReadyWhenAllPartsComplete ==
  \A e \in Epoch :
    /\ TotalParts[e] > 0
    /\ counted[e] = Parts(e)
    /\ \A w \in Worker : pc[w] = "pop"
    => triggers[e] = 1

(* Unless a command fails or a process crashes, an epoch of one or two     *)
(* parts ends up in a local finalized batch with all its parts; with more  *)
(* parts ReadyWhenAllPartsComplete fails and nothing of the kind holds.    *)
EventuallyFinalized ==
  \A e \in Epoch : TotalParts[e] \in 1 .. 2 =>
    <>(finalized[e] = Parts(e) \/ faults > 0)

-----------------------------------------------------------------------------
(* Refinement: seen through the finalized:{epoch} key, workers, queues and *)
(* aggregator implement a register per epoch that is written at most once. *)

LocalBatches == INSTANCE LocalBatch WITH batch <- finalized

(* The specification of the finalization implements LocalBatch!Spec.       *)
ImplementsLocalBatch == LocalBatches!Spec

=============================================================================
