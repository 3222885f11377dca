------------------------- MODULE FinalizationProofs -------------------------
(***************************************************************************)
(* Proofs about Finalization, for any set of workers, any epochs with any  *)
(* numbers of parts and any number of faults.                              *)
(***************************************************************************)
EXTENDS Finalization, FiniteSetTheorems, TLAPS

-----------------------------------------------------------------------------
(* What LPUSH and BRPOP do to a list.                                      *)

LEMMA AppendElements ==
  ASSUME NEW S, NEW s \in Seq(S), NEW x \in S
  PROVE  /\ Append(s, x) \in Seq(S)
         /\ \A i \in DOMAIN Append(s, x) :
              \/ i \in DOMAIN s /\ Append(s, x)[i] = s[i]
              \/ i = Len(s) + 1 /\ Append(s, x)[i] = x
         /\ \A i \in DOMAIN s : i \in Nat /\ i # Len(s) + 1
  OBVIOUS

LEMMA PopElements ==
  ASSUME NEW S, NEW s \in Seq(S), s # <<>>
  PROVE  /\ Tail(s) \in Seq(S)
         /\ Head(s) = s[1] /\ 1 \in DOMAIN s
         /\ \A i \in DOMAIN Tail(s) :
              i \in Nat \ {0} /\ i + 1 \in DOMAIN s /\ Tail(s)[i] = s[i + 1]
  OBVIOUS

LEMMA JobFacts ==
  /\ \A a \in Job : a.epoch \in Epoch /\ a.part \in Nat
  /\ \A a, b \in Job : a.epoch = b.epoch /\ a.part = b.part => a = b
<1>1. \A a \in Job : a.epoch \in Epoch /\ a.part \in Nat
  BY DEF Job
<1>2. ASSUME NEW a \in Job, NEW b \in Job, a.epoch = b.epoch, a.part = b.part
      PROVE  a = b
  <2>1. /\ a = [epoch |-> a.epoch, part |-> a.part]
        /\ b = [epoch |-> b.epoch, part |-> b.part]
    BY DEF Job
  <2>2. QED
    BY <1>2, <2>1
<1>3. QED
  BY <1>1, <1>2

-----------------------------------------------------------------------------
(* Type correctness.                                                       *)

LEMMA InitType == Init => TypeOK
<1> USE EpochAssumption, PartsAssumption, FaultAssumption
<1>1. NoJob \in Job /\ NoAggJob \in Trigger
  BY DEF NoJob, NoAggJob, Job, Trigger
<1>2. Init => EpochTypes /\ QueueTypes
  BY DEF Init, EpochTypes, QueueTypes, NoBatch
<1>3. Init => ActorTypes /\ HistoryTypes
  BY <1>1 DEF Init, ActorTypes, HistoryTypes
<1>4. Init => BatchIdsInRange
  BY DEF Init, BatchIdsInRange, Parts
<1>5. QED
  BY <1>2, <1>3, <1>4 DEF TypeOK

LEMMA StepEpochTypes == TypeOK /\ [Next]_vars => EpochTypes'
<1> SUFFICES ASSUME TypeOK, [Next]_vars PROVE EpochTypes'
  OBVIOUS
<1> USE PartsAssumption, FaultAssumption
    DEF TypeOK, EpochTypes, ActorTypes, Job, Trigger,
        emVars, redisVars, workerVars, aggVars, histVars, Goto, Fault
<1>1. ASSUME NEW e \in Epoch, PushPart(e) PROVE EpochTypes'
  BY <1>1 DEF PushPart
<1>2. ASSUME NEW e \in Epoch, PushPartFails(e) PROVE EpochTypes'
  BY <1>2 DEF PushPartFails
<1>3. ASSUME NEW w \in Worker, PopPart(w) PROVE EpochTypes'
  BY <1>3 DEF PopPart
<1>4. ASSUME NEW w \in Worker, StorePart(w) PROVE EpochTypes'
  BY <1>4 DEF StorePart
<1>5. ASSUME NEW w \in Worker, IncrCompleted(w) PROVE EpochTypes'
  BY <1>5 DEF IncrCompleted
<1>6. ASSUME NEW w \in Worker, SetProgress(w) PROVE EpochTypes'
  BY <1>6 DEF SetProgress
<1>7. ASSUME NEW w \in Worker, MarkReady(w) PROVE EpochTypes'
  BY <1>7 DEF MarkReady
<1>8. ASSUME NEW w \in Worker, IncrCompletedFails(w) PROVE EpochTypes'
  BY <1>8 DEF IncrCompletedFails
<1>9. ASSUME NEW w \in Worker, WorkerFails(w) PROVE EpochTypes'
  BY <1>9 DEF WorkerFails
<1>10. CASE PopTrigger
  BY <1>10 DEF PopTrigger
<1>11. CASE MergePart
  BY <1>11 DEF MergePart
<1>12. CASE SetFinalized
  BY <1>12 DEF SetFinalized
<1>13. CASE Broadcast
  BY <1>13 DEF Broadcast
<1>14. CASE Cleanup
  BY <1>14 DEF Cleanup
<1>15. CASE MergePartFails
  BY <1>15 DEF MergePartFails
<1>16. CASE BroadcastFails
  BY <1>16 DEF BroadcastFails
<1>17. CASE AggregatorFails
  BY <1>17 DEF AggregatorFails
<1>18. CASE UNCHANGED vars
  BY <1>18 DEF vars
<1>19. QED
  BY <1>1, <1>2, <1>3, <1>4, <1>5, <1>6, <1>7, <1>8, <1>9,
     <1>10, <1>11, <1>12, <1>13, <1>14, <1>15, <1>16, <1>17, <1>18
     DEF Next, WorkerStep, AggregatorStep

LEMMA StepQueueTypes == TypeOK /\ [Next]_vars => QueueTypes'
<1> SUFFICES ASSUME TypeOK, [Next]_vars PROVE QueueTypes'
  OBVIOUS
<1> USE PartsAssumption, FaultAssumption
    DEF TypeOK, EpochTypes, QueueTypes, ActorTypes, Job, Trigger,
        emVars, redisVars, workerVars, aggVars, histVars, Goto, Fault
<1>1. ASSUME NEW e \in Epoch, PushPart(e) PROVE QueueTypes'
  BY <1>1 DEF PushPart
<1>2. ASSUME NEW e \in Epoch, PushPartFails(e) PROVE QueueTypes'
  BY <1>2 DEF PushPartFails
<1>3. ASSUME NEW w \in Worker, PopPart(w) PROVE QueueTypes'
  BY <1>3 DEF PopPart
<1>4. ASSUME NEW w \in Worker, StorePart(w) PROVE QueueTypes'
  BY <1>4 DEF StorePart
<1>5. ASSUME NEW w \in Worker, IncrCompleted(w) PROVE QueueTypes'
  BY <1>5 DEF IncrCompleted
<1>6. ASSUME NEW w \in Worker, SetProgress(w) PROVE QueueTypes'
  BY <1>6 DEF SetProgress
<1>7. ASSUME NEW w \in Worker, MarkReady(w) PROVE QueueTypes'
  BY <1>7 DEF MarkReady
<1>8. ASSUME NEW w \in Worker, IncrCompletedFails(w) PROVE QueueTypes'
  BY <1>8 DEF IncrCompletedFails
<1>9. ASSUME NEW w \in Worker, WorkerFails(w) PROVE QueueTypes'
  BY <1>9 DEF WorkerFails
<1>10. CASE PopTrigger
  BY <1>10 DEF PopTrigger
<1>11. CASE MergePart
  BY <1>11 DEF MergePart
<1>12. CASE SetFinalized
  BY <1>12 DEF SetFinalized
<1>13. CASE Broadcast
  BY <1>13 DEF Broadcast
<1>14. CASE Cleanup
  BY <1>14 DEF Cleanup
<1>15. CASE MergePartFails
  BY <1>15 DEF MergePartFails
<1>16. CASE BroadcastFails
  BY <1>16 DEF BroadcastFails
<1>17. CASE AggregatorFails
  BY <1>17 DEF AggregatorFails
<1>18. CASE UNCHANGED vars
  BY <1>18 DEF vars
<1>19. QED
  BY <1>1, <1>2, <1>3, <1>4, <1>5, <1>6, <1>7, <1>8, <1>9,
     <1>10, <1>11, <1>12, <1>13, <1>14, <1>15, <1>16, <1>17, <1>18
     DEF Next, WorkerStep, AggregatorStep

LEMMA StepActorTypes == TypeOK /\ [Next]_vars => ActorTypes'
<1> SUFFICES ASSUME TypeOK, [Next]_vars PROVE ActorTypes'
  OBVIOUS
<1> USE PartsAssumption, FaultAssumption
    DEF TypeOK, ActorTypes, EpochTypes, QueueTypes,
        emVars, redisVars, workerVars, aggVars, histVars, Goto, Fault
<1>1. ASSUME NEW e \in Epoch, PushPart(e) PROVE ActorTypes'
  BY <1>1 DEF PushPart
<1>2. ASSUME NEW e \in Epoch, PushPartFails(e) PROVE ActorTypes'
  BY <1>2 DEF PushPartFails
<1>3. ASSUME NEW w \in Worker, PopPart(w) PROVE ActorTypes'
  BY <1>3 DEF PopPart
<1>4. ASSUME NEW w \in Worker, StorePart(w) PROVE ActorTypes'
  BY <1>4 DEF StorePart
<1>5. ASSUME NEW w \in Worker, IncrCompleted(w) PROVE ActorTypes'
  <2>1. completed[job[w].epoch] \in Nat
    BY DEF Job
  <2>2. QED
    BY <1>5, <2>1 DEF IncrCompleted
<1>6. ASSUME NEW w \in Worker, SetProgress(w) PROVE ActorTypes'
  BY <1>6 DEF SetProgress
<1>7. ASSUME NEW w \in Worker, MarkReady(w) PROVE ActorTypes'
  BY <1>7 DEF MarkReady
<1>8. ASSUME NEW w \in Worker, IncrCompletedFails(w) PROVE ActorTypes'
  BY <1>8 DEF IncrCompletedFails
<1>9. ASSUME NEW w \in Worker, WorkerFails(w) PROVE ActorTypes'
  BY <1>9 DEF WorkerFails
<1>10. CASE PopTrigger
  BY <1>10 DEF PopTrigger
<1>11. CASE MergePart
  <2>1. \A S : aggMerged \cup ({aggNext} \cap S) \in SUBSET Nat
    OBVIOUS
  <2>2. QED
    BY <1>11, <2>1 DEF MergePart
<1>12. CASE SetFinalized
  BY <1>12 DEF SetFinalized
<1>13. CASE Broadcast
  BY <1>13 DEF Broadcast
<1>14. CASE Cleanup
  BY <1>14 DEF Cleanup
<1>15. CASE MergePartFails
  BY <1>15 DEF MergePartFails
<1>16. CASE BroadcastFails
  BY <1>16 DEF BroadcastFails
<1>17. CASE AggregatorFails
  BY <1>17 DEF AggregatorFails
<1>18. CASE UNCHANGED vars
  BY <1>18 DEF vars
<1>19. QED
  BY <1>1, <1>2, <1>3, <1>4, <1>5, <1>6, <1>7, <1>8, <1>9,
     <1>10, <1>11, <1>12, <1>13, <1>14, <1>15, <1>16, <1>17, <1>18
     DEF Next, WorkerStep, AggregatorStep

LEMMA StepHistoryTypes == TypeOK /\ [Next]_vars => HistoryTypes'
<1> SUFFICES ASSUME TypeOK, [Next]_vars PROVE HistoryTypes'
  OBVIOUS
<1> USE PartsAssumption, FaultAssumption
    DEF TypeOK, HistoryTypes, ActorTypes, Job, Trigger,
        emVars, redisVars, workerVars, aggVars, histVars, Goto, Fault
<1>1. ASSUME NEW e \in Epoch, PushPart(e) PROVE HistoryTypes'
  BY <1>1 DEF PushPart
<1>2. ASSUME NEW e \in Epoch, PushPartFails(e) PROVE HistoryTypes'
  BY <1>2 DEF PushPartFails
<1>3. ASSUME NEW w \in Worker, PopPart(w) PROVE HistoryTypes'
  BY <1>3 DEF PopPart
<1>4. ASSUME NEW w \in Worker, StorePart(w) PROVE HistoryTypes'
  BY <1>4 DEF StorePart
<1>5. ASSUME NEW w \in Worker, IncrCompleted(w) PROVE HistoryTypes'
  BY <1>5 DEF IncrCompleted
<1>6. ASSUME NEW w \in Worker, SetProgress(w) PROVE HistoryTypes'
  BY <1>6 DEF SetProgress
<1>7. ASSUME NEW w \in Worker, MarkReady(w) PROVE HistoryTypes'
  BY <1>7 DEF MarkReady
<1>8. ASSUME NEW w \in Worker, IncrCompletedFails(w) PROVE HistoryTypes'
  BY <1>8 DEF IncrCompletedFails
<1>9. ASSUME NEW w \in Worker, WorkerFails(w) PROVE HistoryTypes'
  BY <1>9 DEF WorkerFails
<1>10. CASE PopTrigger
  BY <1>10 DEF PopTrigger
<1>11. CASE MergePart
  BY <1>11 DEF MergePart
<1>12. CASE SetFinalized
  BY <1>12 DEF SetFinalized
<1>13. CASE Broadcast
  BY <1>13 DEF Broadcast
<1>14. CASE Cleanup
  BY <1>14 DEF Cleanup
<1>15. CASE MergePartFails
  BY <1>15 DEF MergePartFails
<1>16. CASE BroadcastFails
  BY <1>16 DEF BroadcastFails
<1>17. CASE AggregatorFails
  BY <1>17 DEF AggregatorFails
<1>18. CASE UNCHANGED vars
  BY <1>18 DEF vars
<1>19. QED
  BY <1>1, <1>2, <1>3, <1>4, <1>5, <1>6, <1>7, <1>8, <1>9,
     <1>10, <1>11, <1>12, <1>13, <1>14, <1>15, <1>16, <1>17, <1>18
     DEF Next, WorkerStep, AggregatorStep

LEMMA StepBatchIdsInRange == TypeOK /\ [Next]_vars => BatchIdsInRange'
<1> SUFFICES ASSUME TypeOK, [Next]_vars PROVE BatchIdsInRange'
  OBVIOUS
<1> USE PartsAssumption, FaultAssumption
    DEF TypeOK, BatchIdsInRange, EpochTypes, QueueTypes, ActorTypes, Job, Trigger, Parts,
        emVars, redisVars, workerVars, aggVars, histVars, Goto, Fault
<1>1. ASSUME NEW e \in Epoch, PushPart(e) PROVE BatchIdsInRange'
  <2> DEFINE x == [epoch |-> e, part |-> pushed[e]]
  <2>1. x \in Job /\ x.part = pushed[e] /\ x.epoch = e
    OBVIOUS
  <2>2. pushed[e] \in Parts(e)
    BY <1>1 DEF PushPart
  <2>3. \A d \in Epoch : pushed'[d] <= TotalParts[d] /\ parts'[d] \subseteq Parts(d)
    BY <1>1, SMTT(30) DEF PushPart
  <2>4. finalizationQueue' = Append(finalizationQueue, x)
    BY <1>1 DEF PushPart
  <2>5. \A w \in Worker : pc'[w] # "pop" => job'[w].part \in Parts(job'[w].epoch)
    BY <1>1 DEF PushPart
  <2> HIDE DEF x, Job, Parts
  <2>6. \A i \in DOMAIN finalizationQueue' :
          \/ i \in DOMAIN finalizationQueue /\ finalizationQueue'[i] = finalizationQueue[i]
          \/ finalizationQueue'[i] = x
    BY <2>1, <2>4, AppendElements
  <2>7. \A i \in DOMAIN finalizationQueue' :
          finalizationQueue'[i].part \in Parts(finalizationQueue'[i].epoch)
    BY <2>1, <2>2, <2>6
  <2>8. QED
    BY <2>3, <2>5, <2>7
<1>2. ASSUME NEW e \in Epoch, PushPartFails(e) PROVE BatchIdsInRange'
  BY <1>2, SMTT(30) DEF PushPartFails
<1>3. ASSUME NEW w \in Worker, PopPart(w) PROVE BatchIdsInRange'
  <2>1. \A i \in DOMAIN finalizationQueue' :
          i + 1 \in DOMAIN finalizationQueue /\ finalizationQueue'[i] = finalizationQueue[i + 1]
    BY <1>3 DEF PopPart
  <2>2. job'[w] = finalizationQueue[1] /\ 1 \in DOMAIN finalizationQueue
    BY <1>3 DEF PopPart
  <2>3. \A v \in Worker : v # w => pc'[v] = pc[v] /\ job'[v] = job[v]
    BY <1>3 DEF PopPart
  <2>4. \A i \in DOMAIN finalizationQueue' :
          finalizationQueue'[i].part \in Parts(finalizationQueue'[i].epoch)
    BY <2>1
  <2>5. \A v \in Worker : pc'[v] # "pop" => job'[v].part \in Parts(job'[v].epoch)
    BY <2>2, <2>3
  <2>6. QED
    BY <1>3, <2>4, <2>5 DEF PopPart
<1>4. ASSUME NEW w \in Worker, StorePart(w) PROVE BatchIdsInRange'
  BY <1>4 DEF StorePart
<1>5. ASSUME NEW w \in Worker, IncrCompleted(w) PROVE BatchIdsInRange'
  BY <1>5 DEF IncrCompleted
<1>6. ASSUME NEW w \in Worker, SetProgress(w) PROVE BatchIdsInRange'
  BY <1>6 DEF SetProgress
<1>7. ASSUME NEW w \in Worker, MarkReady(w) PROVE BatchIdsInRange'
  BY <1>7 DEF MarkReady
<1>8. ASSUME NEW w \in Worker, IncrCompletedFails(w) PROVE BatchIdsInRange'
  BY <1>8 DEF IncrCompletedFails
<1>9. ASSUME NEW w \in Worker, WorkerFails(w) PROVE BatchIdsInRange'
  BY <1>9 DEF WorkerFails
<1>10. CASE PopTrigger
  BY <1>10 DEF PopTrigger
<1>11. CASE MergePart
  BY <1>11 DEF MergePart
<1>12. CASE SetFinalized
  BY <1>12 DEF SetFinalized
<1>13. CASE Broadcast
  BY <1>13 DEF Broadcast
<1>14. CASE Cleanup
  BY <1>14 DEF Cleanup
<1>15. CASE MergePartFails
  BY <1>15 DEF MergePartFails
<1>16. CASE BroadcastFails
  BY <1>16 DEF BroadcastFails
<1>17. CASE AggregatorFails
  BY <1>17 DEF AggregatorFails
<1>18. CASE UNCHANGED vars
  BY <1>18 DEF vars
<1>19. QED
  BY <1>1, <1>2, <1>3, <1>4, <1>5, <1>6, <1>7, <1>8, <1>9,
     <1>10, <1>11, <1>12, <1>13, <1>14, <1>15, <1>16, <1>17, <1>18
     DEF Next, WorkerStep, AggregatorStep

(* Type correctness: every action keeps Redis keys and locals in their     *)
(* types, and every batch id within 0 .. total-1.                          *)
THEOREM TypeCorrect == Spec => []TypeOK
<1>1. TypeOK /\ [Next]_vars => TypeOK'
  BY StepEpochTypes, StepQueueTypes, StepActorTypes, StepHistoryTypes,
     StepBatchIdsInRange DEF TypeOK
<1>2. QED
  BY <1>1, InitType, PTL DEF Spec

-----------------------------------------------------------------------------
(* The inductive invariant, in layers that are proved one after another.   *)

(* Who has a part: it is in the queue once, or one worker holds it, and it *)
(* is stored, then counted, only on its way through that worker.           *)
QueueOwnership ==
  /\ \A i, j \in DOMAIN finalizationQueue :
       i # j => finalizationQueue[i] # finalizationQueue[j]
  /\ \A i \in DOMAIN finalizationQueue :
       LET q == finalizationQueue[i] IN
         q.part < pushed[q.epoch] /\ q.part \notin stored[q.epoch]

WorkerOwnership ==
  /\ \A w \in Worker : pc[w] # "pop" =>
       /\ job[w].part < pushed[job[w].epoch]
       /\ \A i \in DOMAIN finalizationQueue : job[w] # finalizationQueue[i]
       /\ \A v \in Worker : v # w /\ pc[v] # "pop" => job[v] # job[w]
  /\ \A w \in Worker :
       /\ pc[w] = "store" => job[w].part \notin stored[job[w].epoch]
       /\ pc[w] = "incr" => job[w].part \notin counted[job[w].epoch]
       /\ pc[w] = "incr" => job[w].part \in stored[job[w].epoch]

StoredBeforeCounted ==
  \A e \in Epoch :
    /\ counted[e] \subseteq stored[e]
    /\ stored[e] \subseteq Parts(e)
    /\ \A p \in stored[e] : p < pushed[e]

Ownership == QueueOwnership /\ WorkerOwnership /\ StoredBeforeCounted

(* The counter in Redis and every Incr result in a worker's hands are at   *)
(* most the number of parts counted; hence only the worker that counted    *)
(* the last part can have seen the total.                                  *)
Announces(w, e) ==
  /\ pc[w] \in {"update", "ready"}
  /\ job[w].epoch = e
  /\ count[w] = TotalParts[e]
  /\ TotalParts[e] > 0

CounterBound ==
  /\ \A e \in Epoch : completed[e] <= Cardinality(counted[e])
  /\ \A w \in Worker : pc[w] \in {"update", "ready"} =>
       count[w] <= Cardinality(counted[job[w].epoch])

SoleAnnouncer ==
  /\ \A w \in Worker : pc[w] = "ready" => Announces(w, job[w].epoch)
  /\ \A e \in Epoch, w \in Worker : Announces(w, e) =>
       /\ triggers[e] = 0
       /\ \A v \in Worker : Announces(v, e) => v = w
  /\ \A e \in Epoch :
       /\ triggers[e] <= 1
       /\ triggers[e] = 1 => counted[e] = Parts(e) /\ TotalParts[e] > 0

(* Where an announced epoch is: in the Level 1 queue, with the aggregator, *)
(* or done with (finalized or given up).                                   *)
Queued(e) == \E i \in DOMAIN aggregationQueue : aggregationQueue[i].epoch = e

Merging(e) == aggPc = "merge" /\ aggJob.epoch = e

QueuedTriggers ==
  /\ \A i, j \in DOMAIN aggregationQueue :
       i # j => aggregationQueue[i].epoch # aggregationQueue[j].epoch
  /\ \A i \in DOMAIN aggregationQueue :
       aggregationQueue[i].total = TotalParts[aggregationQueue[i].epoch]
  /\ \A e \in Epoch : Queued(e) =>
       /\ triggers[e] = 1
       /\ finalized[e] = NoBatch
       /\ skipped[e] = {}
       /\ broadcasts[e] = 0
       /\ parts[e] = Parts(e)

HeldTrigger ==
  aggPc # "pop" => triggers[aggJob.epoch] = 1 /\ ~Queued(aggJob.epoch)

NotTriggered ==
  \A e \in Epoch : triggers[e] = 0 =>
    /\ finalized[e] = NoBatch
    /\ skipped[e] = {}
    /\ broadcasts[e] = 0
    /\ parts[e] = stored[e]

MergeProgress ==
  /\ aggPc \in {"merge", "broadcast"} => broadcasts[aggJob.epoch] = 0
  /\ aggPc = "merge" =>
       LET e == aggJob.epoch IN
         /\ finalized[e] = NoBatch
         /\ aggJob.total = TotalParts[e]
         /\ aggNext <= aggJob.total
         /\ aggMerged \cup skipped[e] = 0 .. aggNext - 1
         /\ aggMerged \cap skipped[e] = {}
         /\ aggNext .. aggJob.total - 1 \subseteq parts[e]

Level1Inv ==
  /\ QueuedTriggers
  /\ HeldTrigger
  /\ NotTriggered
  /\ MergeProgress
  /\ FinalizedIsWhole
  /\ PartsNotLost
  /\ \A e \in Epoch : broadcasts[e] <= 1

IInv == TypeOK /\ Ownership /\ CounterBound /\ SoleAnnouncer /\ Level1Inv

-----------------------------------------------------------------------------
(* Layer 1: ownership of parts.                                            *)

OwnershipVars == <<pushed, finalizationQueue, pc, job, stored, counted>>

LEMMA InitOwnership == Init => Ownership
  BY PartsAssumption
  DEF Init, Ownership, QueueOwnership, WorkerOwnership, StoredBeforeCounted

LEMMA StepOwnership == TypeOK /\ Ownership /\ [Next]_vars => Ownership'
<1> SUFFICES ASSUME TypeOK, Ownership, [Next]_vars PROVE Ownership'
  OBVIOUS
<1> USE PartsAssumption
    DEF TypeOK, EpochTypes, QueueTypes, ActorTypes, HistoryTypes,
        Ownership, QueueOwnership, WorkerOwnership, StoredBeforeCounted, Goto
<1>1. ASSUME NEW e \in Epoch, PushPart(e) PROVE Ownership'
  <2> DEFINE x == [epoch |-> e, part |-> pushed[e]]
  <2>1. x \in Job /\ x.part = pushed[e] /\ x.epoch = e
    BY DEF Job
  <2>2. finalizationQueue' = Append(finalizationQueue, x)
    BY <1>1 DEF PushPart
  <2> HIDE DEF x
  <2>3. /\ pushed' = [pushed EXCEPT ![e] = @ + 1]
        /\ UNCHANGED <<pc, job, stored, counted>>
    BY <1>1 DEF PushPart, workerVars, histVars
  <2>4. \A i \in DOMAIN finalizationQueue' :
          \/ i \in DOMAIN finalizationQueue /\ finalizationQueue'[i] = finalizationQueue[i]
          \/ i = Len(finalizationQueue) + 1 /\ finalizationQueue'[i] = x
    BY <2>1, <2>2, AppendElements
  <2>5. \A d \in Epoch : pushed[d] \in Nat /\ pushed'[d] \in Nat /\ pushed[d] <= pushed'[d]
    BY <2>3
  <2>6. pushed'[e] = pushed[e] + 1
    BY <2>3
  <2>7. \A i \in DOMAIN finalizationQueue : finalizationQueue[i] \in Job /\ finalizationQueue[i] # x
    BY <2>1
  <2>8. \A w \in Worker : pc[w] # "pop" => job[w] # x
    BY <2>1 DEF Job
  <2>9. pushed[e] \notin stored[e]
    BY <2>5
  <2>10. QueueOwnership'
    <3>1. \A i, j \in DOMAIN finalizationQueue' :
            i # j => finalizationQueue'[i] # finalizationQueue'[j]
      <4>1. \A i, j \in DOMAIN finalizationQueue :
              i # j => finalizationQueue[i] # finalizationQueue[j]
        OBVIOUS
      <4> HIDE DEF TypeOK, EpochTypes, QueueTypes, ActorTypes, HistoryTypes, Ownership,
                   QueueOwnership, WorkerOwnership, StoredBeforeCounted, Goto
      <4>2. QED
        BY <2>4, <2>7, <4>1
    <3>2. ASSUME NEW i \in DOMAIN finalizationQueue'
          PROVE  LET q == finalizationQueue'[i] IN
                   q.part < pushed'[q.epoch] /\ q.part \notin stored'[q.epoch]
      <4>1. CASE i \in DOMAIN finalizationQueue /\ finalizationQueue'[i] = finalizationQueue[i]
        <5>1. finalizationQueue[i] \in Job
          BY <4>1
        <5>2. QED
          BY <4>1, <5>1, <2>3, <2>5, JobFacts, SMTT(30)
      <4>2. CASE finalizationQueue'[i] = x
        BY <4>2, <2>1, <2>3, <2>5, <2>6, <2>9
      <4>3. QED
        BY <4>1, <4>2, <2>4
    <3>3. QED
      BY <3>1, <3>2
  <2>11. WorkerOwnership'
    BY <2>3, <2>4, <2>5, <2>8, SMTT(30) DEF Job
  <2>12. StoredBeforeCounted'
    BY <2>3, <2>5, SMTT(30)
  <2>13. QED
    BY <2>10, <2>11, <2>12
<1>2. ASSUME NEW e \in Epoch, PushPartFails(e) PROVE Ownership'
  <2>1. \A d \in Epoch : pushed[d] \in Nat /\ pushed'[d] \in Nat /\ pushed[d] <= pushed'[d]
    BY <1>2 DEF PushPartFails
  <2>2. UNCHANGED <<finalizationQueue, pc, job, stored, counted>>
    BY <1>2 DEF PushPartFails, redisVars, workerVars, histVars
  <2>3. \A i \in DOMAIN finalizationQueue : finalizationQueue[i] \in Job
    OBVIOUS
  <2>4. QueueOwnership'
    <3>1. ASSUME NEW i \in DOMAIN finalizationQueue
          PROVE  finalizationQueue[i].part < pushed'[finalizationQueue[i].epoch]
      BY <2>1, <2>3, JobFacts, SMTT(30)
    <3>2. QED
      BY <2>2, <3>1
  <2>5. WorkerOwnership'
    BY <2>1, <2>2, JobFacts, SMTT(30)
  <2>6. StoredBeforeCounted'
    BY <2>1, <2>2, SMTT(30)
  <2>7. QED
    BY <2>4, <2>5, <2>6
<1>3. ASSUME NEW w \in Worker, PopPart(w) PROVE Ownership'
  <2>1. /\ finalizationQueue # <<>>
        /\ finalizationQueue' = Tail(finalizationQueue)
        /\ job' = [job EXCEPT ![w] = Head(finalizationQueue)]
        /\ pc' = [pc EXCEPT ![w] = "store"]
        /\ UNCHANGED <<pushed, stored, counted>>
        /\ pc[w] = "pop"
    BY <1>3 DEF PopPart, emVars, histVars
  <2>2. /\ Head(finalizationQueue) = finalizationQueue[1]
        /\ 1 \in DOMAIN finalizationQueue
        /\ \A i \in DOMAIN finalizationQueue' :
             /\ i + 1 \in DOMAIN finalizationQueue
             /\ i + 1 # 1
             /\ i \in Nat
             /\ finalizationQueue'[i] = finalizationQueue[i + 1]
    BY <2>1, PopElements
  <2>3. QueueOwnership'
    BY <2>1, <2>2
  <2>4. WorkerOwnership'
    BY <2>1, <2>2
  <2>5. StoredBeforeCounted'
    BY <2>1
  <2>6. QED
    BY <2>3, <2>4, <2>5
<1>4. ASSUME NEW w \in Worker, StorePart(w) PROVE Ownership'
  <2> DEFINE e == job[w].epoch
             p == job[w].part
  <2>1. /\ pc[w] = "store"
        /\ stored' = [stored EXCEPT ![e] = @ \cup {p}]
        /\ pc' = [pc EXCEPT ![w] = "incr"]
        /\ UNCHANGED <<pushed, finalizationQueue, job, counted>>
    BY <1>4 DEF StorePart, emVars
  <2>2. e \in Epoch /\ p \in Parts(e) /\ p < pushed[e]
    BY <2>1 DEF BatchIdsInRange, Job
  <2>3. \A a, b \in Job : a.epoch = b.epoch /\ a.part = b.part => a = b
    BY JobFacts
  <2>4. \A i \in DOMAIN finalizationQueue : finalizationQueue[i] \in Job
    OBVIOUS
  <2>5. \A d \in Epoch : \A n :
          n \in stored'[d] <=> n \in stored[d] \/ (d = e /\ n = p)
    BY <2>1, <2>2
  <2>6. job[w] \in Job
    OBVIOUS
  <2>7. \A i \in DOMAIN finalizationQueue : finalizationQueue[i].epoch \in Epoch
    BY <2>4 DEF Job
  <2>8. \A v \in Worker : job[v] \in Job /\ job[v].epoch \in Epoch
    BY DEF Job
  <2>9. QueueOwnership'
    <3>1. ASSUME NEW i \in DOMAIN finalizationQueue
          PROVE  LET q == finalizationQueue[i] IN q.part \notin stored'[q.epoch]
      <4>1. finalizationQueue[i] # job[w]
        BY <2>1
      <4>2. finalizationQueue[i].part \notin stored[finalizationQueue[i].epoch]
        OBVIOUS
      <4>3. ~(finalizationQueue[i].epoch = e /\ finalizationQueue[i].part = p)
        BY <4>1, <2>3, <2>4, <2>6
      <4>4. QED
        BY <4>2, <4>3, <2>5, <2>7
    <3>2. QED
      BY <2>1, <3>1
  <2>10. WorkerOwnership'
    <3>1. \A v \in Worker : pc'[v] # "pop" => pc[v] # "pop"
      BY <2>1
    <3>2. \A v \in Worker : pc'[v] = "store" => job[v].part \notin stored'[job[v].epoch]
      <4> SUFFICES ASSUME NEW v \in Worker, pc'[v] = "store"
                   PROVE  job[v].part \notin stored'[job[v].epoch]
        OBVIOUS
      <4>1. v # w /\ pc[v] = "store"
        BY <2>1
      <4>2. job[v] # job[w] /\ job[v].part \notin stored[job[v].epoch]
        BY <4>1, <2>1
      <4>3. ~(job[v].epoch = e /\ job[v].part = p)
        BY <4>2, <2>3, <2>8
      <4>4. QED
        BY <4>2, <4>3, <2>5, <2>8
    <3>3. \A v \in Worker : pc'[v] = "incr" =>
            job[v].part \notin counted[job[v].epoch] /\ job[v].part \in stored'[job[v].epoch]
      BY <2>1, <2>2, <2>5, <2>8
    <3>4. QED
      BY <2>1, <3>1, <3>2, <3>3, SMTT(30)
  <2>11. StoredBeforeCounted'
    BY <2>1, <2>2, <2>5
  <2>12. QED
    BY <2>9, <2>10, <2>11
<1>5. ASSUME NEW w \in Worker, IncrCompleted(w) \/ IncrCompletedFails(w)
      PROVE  Ownership'
  <2> DEFINE e == job[w].epoch
             p == job[w].part
  <2>1. /\ pc[w] = "incr"
        /\ \/ counted' = counted
           \/ counted' = [counted EXCEPT ![e] = @ \cup {p}]
        /\ pc' = [pc EXCEPT ![w] = "update"]
        /\ UNCHANGED <<pushed, finalizationQueue, job, stored>>
    BY <1>5 DEF IncrCompleted, IncrCompletedFails, emVars
  <2>2. e \in Epoch /\ p \in stored[e] /\ job[w] \in Job
    BY <2>1 DEF Job
  <2>3. \A a, b \in Job : a.epoch = b.epoch /\ a.part = b.part => a = b
    BY JobFacts
  <2>4. \A d \in Epoch : \A n :
          n \in counted'[d] => n \in counted[d] \/ (d = e /\ n = p)
    <3>1. CASE counted' = counted
      BY <3>1
    <3>2. CASE counted' = [counted EXCEPT ![e] = @ \cup {p}]
      BY <3>2, <2>2
    <3>3. QED
      BY <2>1, <3>1, <3>2
  <2>5. \A v \in Worker : job[v] \in Job /\ job[v].epoch \in Epoch
    BY DEF Job
  <2>6. QueueOwnership'
    BY <2>1
  <2>7. WorkerOwnership'
    <3>1. \A v \in Worker : pc'[v] # "pop" => pc[v] # "pop"
      BY <2>1
    <3>2. \A v \in Worker : pc'[v] = "incr" => v # w /\ pc[v] = "incr"
      BY <2>1
    <3>3. \A v \in Worker : pc'[v] = "incr" => job[v].part \notin counted'[job[v].epoch]
      <4> SUFFICES ASSUME NEW v \in Worker, pc'[v] = "incr"
                   PROVE  job[v].part \notin counted'[job[v].epoch]
        OBVIOUS
      <4>1. v # w /\ pc[v] = "incr"
        BY <3>2
      <4>2. job[v] # job[w] /\ job[v].part \notin counted[job[v].epoch]
        BY <4>1, <2>1
      <4>3. ~(job[v].epoch = e /\ job[v].part = p)
        BY <4>2, <2>3, <2>5
      <4>4. QED
        BY <4>2, <4>3, <2>4, <2>5
    <3>4. \A v \in Worker : pc'[v] = "store" => pc[v] = "store"
      BY <2>1
    <3>5. QED
      BY <2>1, <3>1, <3>2, <3>3, <3>4
  <2>8. StoredBeforeCounted'
    <3>1. ASSUME NEW d \in Epoch PROVE counted'[d] \subseteq stored[d]
      BY <2>2, <2>4
    <3>2. QED
      BY <2>1, <3>1
  <2>9. QED
    BY <2>6, <2>7, <2>8
<1>6. ASSUME NEW w \in Worker, SetProgress(w) \/ MarkReady(w) \/ WorkerFails(w)
      PROVE  Ownership'
  <2>1. /\ pc[w] # "pop"
        /\ pc' = [pc EXCEPT ![w] = "ready"] \/ pc' = [pc EXCEPT ![w] = "pop"]
        /\ UNCHANGED <<pushed, finalizationQueue, job, stored, counted>>
    BY <1>6 DEF SetProgress, MarkReady, WorkerFails, emVars, redisVars, histVars
  <2>2. \A v \in Worker : pc'[v] = pc[v] \/ (v = w /\ pc'[v] \in {"ready", "pop"})
    BY <2>1
  <2>3. QueueOwnership' /\ StoredBeforeCounted'
    BY <2>1
  <2>4. WorkerOwnership'
    BY <2>1, <2>2
  <2>5. QED
    BY <2>3, <2>4
<1>7. CASE UNCHANGED OwnershipVars
  BY <1>7 DEF OwnershipVars
<1>8. AggregatorStep \/ MergePartFails \/ BroadcastFails \/ AggregatorFails
      \/ UNCHANGED vars => UNCHANGED OwnershipVars
  BY DEF AggregatorStep, PopTrigger, MergePart, SetFinalized, Broadcast,
         Cleanup, MergePartFails, BroadcastFails, AggregatorFails,
         OwnershipVars, emVars, redisVars, workerVars, histVars, vars
<1>9. QED
  BY <1>1, <1>2, <1>3, <1>4, <1>5, <1>6, <1>7, <1>8 DEF Next, WorkerStep

-----------------------------------------------------------------------------
(* Layer 2: the counter.                                                   *)

LEMMA SubsetOfParts ==
  ASSUME NEW n \in Nat, NEW S \in SUBSET (0 .. n - 1)
  PROVE  /\ IsFiniteSet(S)
         /\ Cardinality(S) \in Nat
         /\ Cardinality(S) <= n
         /\ Cardinality(S) = n => S = 0 .. n - 1
<1>1. IsFiniteSet(0 .. n - 1) /\ Cardinality(0 .. n - 1) = n
  BY FS_Interval
<1>2. QED
  BY <1>1, FS_Subset, FS_CardinalityType

LEMMA CountedParts ==
  ASSUME TypeOK, Ownership, NEW e \in Epoch
  PROVE  /\ TotalParts[e] \in Nat
         /\ IsFiniteSet(counted[e])
         /\ Cardinality(counted[e]) \in Nat
         /\ Cardinality(counted[e]) <= TotalParts[e]
         /\ Cardinality(counted[e]) = TotalParts[e] => counted[e] = Parts(e)
         /\ counted[e] = Parts(e) => Cardinality(counted[e]) = TotalParts[e]
<1>1. TotalParts[e] \in Nat /\ counted[e] \in SUBSET (0 .. TotalParts[e] - 1)
  BY PartsAssumption DEF Ownership, StoredBeforeCounted, Parts
<1>2. IsFiniteSet(Parts(e)) /\ Cardinality(Parts(e)) = TotalParts[e]
  BY <1>1, FS_Interval, SMTT(30) DEF Parts
<1>3. QED
  BY <1>1, <1>2, SubsetOfParts DEF Parts

CounterInv == CounterBound /\ SoleAnnouncer

LEMMA InitCounter == Init => CounterInv
<1> SUFFICES ASSUME Init PROVE CounterInv
  OBVIOUS
<1>1. Cardinality({}) = 0
  BY FS_EmptySet
<1>2. CounterBound
  BY <1>1 DEF Init, CounterBound
<1>3. SoleAnnouncer
  BY DEF Init, SoleAnnouncer, Announces
<1>4. QED
  BY <1>2, <1>3 DEF CounterInv

(* What INCR does when it is applied for a worker that has not counted its *)
(* part yet: the number of counted parts grows by one, and was below the   *)
(* total.                                                                  *)
LEMMA IncrCounts ==
  ASSUME TypeOK, Ownership, NEW w \in Worker, pc[w] = "incr",
         counted' = [counted EXCEPT ![job[w].epoch] = @ \cup {job[w].part}]
  PROVE  LET e == job[w].epoch IN
           /\ e \in Epoch
           /\ Cardinality(counted'[e]) = Cardinality(counted[e]) + 1
           /\ Cardinality(counted[e]) < TotalParts[e]
           /\ \A d \in Epoch : d # e => counted'[d] = counted[d]
<1> DEFINE e == job[w].epoch
           p == job[w].part
<1>1. job[w] \in Job /\ e \in Epoch
  BY JobFacts DEF TypeOK, ActorTypes
<1>2. p \notin counted[e] /\ p \in Parts(e)
  BY <1>1 DEF Ownership, WorkerOwnership, StoredBeforeCounted
<1>3. counted \in [Epoch -> SUBSET Nat]
  BY DEF TypeOK, HistoryTypes
<1>4. counted'[e] = counted[e] \cup {p} /\ \A d \in Epoch : d # e => counted'[d] = counted[d]
  BY <1>1, <1>3
<1>5. Cardinality(counted'[e]) = Cardinality(counted[e]) + 1
  <2>1. IsFiniteSet(counted[e])
    BY <1>1, CountedParts
  <2>2. Cardinality(counted[e] \cup {p}) = Cardinality(counted[e]) + 1
    BY <2>1, <1>2, FS_AddElement
  <2>3. QED
    BY <2>2, <1>4
<1>6. Cardinality(counted[e]) < TotalParts[e]
  BY <1>1, <1>2, CountedParts
<1>7. QED
  BY <1>1, <1>4, <1>5, <1>6

LEMMA StepCounter ==
  TypeOK /\ Ownership /\ CounterInv /\ [Next]_vars => CounterInv'
<1> SUFFICES ASSUME TypeOK, Ownership, CounterInv, [Next]_vars
             PROVE  CounterInv'
  OBVIOUS
<1>0. /\ pc \in [Worker -> {"pop", "store", "incr", "update", "ready"}]
      /\ job \in [Worker -> Job]
      /\ count \in [Worker -> Nat]
      /\ completed \in [Epoch -> Nat]
      /\ triggers \in [Epoch -> Nat]
      /\ TotalParts \in [Epoch -> Nat]
      /\ \A v \in Worker : job[v].epoch \in Epoch
      /\ counted \in [Epoch -> SUBSET Nat]
  BY PartsAssumption, JobFacts
     DEF TypeOK, ActorTypes, EpochTypes, HistoryTypes
<1>N. \A e \in Epoch : Cardinality(counted[e]) \in Nat
  BY CountedParts
<1>1. ASSUME NEW w \in Worker, IncrCompleted(w) \/ IncrCompletedFails(w),
             counted' # counted
      PROVE  CounterInv'
  <2> DEFINE e == job[w].epoch
  <2>1. /\ pc[w] = "incr"
        /\ pc' = [pc EXCEPT ![w] = "update"]
        /\ counted' = [counted EXCEPT ![e] = @ \cup {job[w].part}]
        /\ completed' = [completed EXCEPT ![e] = @ + 1]
        /\ \/ count' = [count EXCEPT ![w] = completed[e] + 1]
           \/ count' = [count EXCEPT ![w] = 0]
        /\ UNCHANGED <<job, triggers>>
    BY <1>1 DEF IncrCompleted, IncrCompletedFails, Goto
  <2>2. /\ e \in Epoch
        /\ Cardinality(counted'[e]) = Cardinality(counted[e]) + 1
        /\ Cardinality(counted[e]) < TotalParts[e]
        /\ \A d \in Epoch : d # e => counted'[d] = counted[d]
    BY <2>1, IncrCounts
  <2> HIDE DEF e
  <2>3. /\ job[w].epoch = e
        /\ completed'[e] = completed[e] + 1
        /\ \A d \in Epoch : d # e => completed'[d] = completed[d]
        /\ count'[w] \in Nat /\ count'[w] <= completed[e] + 1
        /\ \A v \in Worker : v # w => pc'[v] = pc[v] /\ count'[v] = count[v]
        /\ pc'[w] = "update"
    BY <1>0, <2>1, <2>2 DEF e
  <2>4. /\ completed[e] <= Cardinality(counted[e])
        /\ \A v \in Worker : pc[v] \in {"update", "ready"} =>
             count[v] <= Cardinality(counted[job[v].epoch])
    BY <2>2 DEF CounterInv, CounterBound
  <2>5. CounterBound'
    <3>1. \A d \in Epoch : completed'[d] <= Cardinality(counted'[d])
      BY <1>0, <1>N, <2>2, <2>3 DEF CounterInv, CounterBound
    <3>2. ASSUME NEW v \in Worker, pc'[v] \in {"update", "ready"}
          PROVE  count'[v] <= Cardinality(counted'[job[v].epoch])
      <4>1. CASE v = w
        BY <4>1, <1>0, <1>N, <2>2, <2>3, <2>4
      <4>2. CASE v # w
        <5>1. count[v] <= Cardinality(counted[job[v].epoch]) /\ count'[v] = count[v]
          BY <4>2, <3>2, <2>3, <2>4
        <5>2. CASE job[v].epoch = e
          BY <5>1, <5>2, <1>0, <1>N, <2>2
        <5>3. CASE job[v].epoch # e
          BY <5>1, <5>3, <1>0, <2>2
        <5>4. QED
          BY <5>2, <5>3
      <4>3. QED
        BY <4>1, <4>2
    <3>3. QED
      BY <2>1, <3>1, <3>2 DEF CounterBound
  <2>6. triggers[e] = 0
    <3>1. counted[e] # Parts(e)
      BY <1>0, <2>2, CountedParts
    <3>2. triggers[e] \in Nat /\ triggers[e] <= 1 /\ triggers[e] # 1
      BY <1>0, <2>2, <3>1 DEF CounterInv, SoleAnnouncer
    <3>3. QED
      BY <3>2
  <2>7. ASSUME NEW v \in Worker, NEW d \in Epoch, Announces(v, d)'
        PROVE  \/ v = w /\ d = e
               \/ d # e /\ Announces(v, d)
    <3>1. CASE v = w
      BY <3>1, <2>7, <2>1, <2>3 DEF Announces
    <3>2. CASE v # w
      <4>1. Announces(v, d) /\ job[v].epoch = d
        BY <3>2, <2>7, <2>1, <2>3 DEF Announces
      <4>2. count[v] <= Cardinality(counted[d]) /\ count[v] = TotalParts[d]
        BY <4>1, <2>4 DEF Announces
      <4>3. d # e
        BY <4>2, <1>0, <1>N, <2>2
      <4>4. QED
        BY <4>1, <4>3
    <3>3. QED
      BY <3>1, <3>2
  <2>8. SoleAnnouncer'
    <3>1. \A v \in Worker : pc'[v] = "ready" => Announces(v, job[v].epoch)'
      BY <2>1, <2>3 DEF CounterInv, SoleAnnouncer, Announces
    <3>2. ASSUME NEW d \in Epoch, NEW v \in Worker, Announces(v, d)'
          PROVE  /\ triggers'[d] = 0
                 /\ \A u \in Worker : Announces(u, d)' => u = v
      BY <3>2, <2>1, <2>6, <2>7 DEF CounterInv, SoleAnnouncer
    <3>3. ASSUME NEW d \in Epoch
          PROVE  /\ triggers'[d] <= 1
                 /\ triggers'[d] = 1 => counted'[d] = Parts(d) /\ TotalParts[d] > 0
      BY <2>1, <2>2, <2>6 DEF CounterInv, SoleAnnouncer
    <3>4. QED
      BY <2>1, <3>1, <3>2, <3>3 DEF SoleAnnouncer
  <2>9. QED
    BY <2>5, <2>8 DEF CounterInv
(* Steps that neither count a part nor announce an epoch. *)
<1>2. ASSUME /\ UNCHANGED <<counted, triggers>>
             /\ \A d \in Epoch : completed'[d] = completed[d]
                               \/ completed'[d] <= Cardinality(counted[d])
             /\ \A v \in Worker : pc'[v] \in {"update", "ready"} =>
                  \/ /\ pc[v] \in {"update", "ready"}
                     /\ job'[v] = job[v] /\ count'[v] = count[v]
                     /\ pc'[v] = pc[v] \/ Announces(v, job[v].epoch)
                  \/ /\ count'[v] = 0 /\ pc'[v] = "update"
                     /\ job'[v] = job[v]
      PROVE  CounterInv'
  <2>1. CounterBound'
    BY <1>0, <1>2, <1>N DEF CounterInv, CounterBound
  <2>2. ASSUME NEW v \in Worker, NEW d \in Epoch, Announces(v, d)'
        PROVE  Announces(v, d)
    BY <2>2, <1>0, <1>2 DEF Announces
  <2>3. \A v \in Worker : pc'[v] = "ready" => Announces(v, job[v].epoch)'
    BY <1>0, <1>2 DEF Announces, CounterInv, SoleAnnouncer
  <2>4. SoleAnnouncer'
    BY <1>2, <2>2, <2>3 DEF CounterInv, SoleAnnouncer
  <2>5. QED
    BY <2>1, <2>4 DEF CounterInv
<1>3. ASSUME NEW w \in Worker, IncrCompletedFails(w), counted' = counted
      PROVE  CounterInv'
  <2>1. /\ pc' = [pc EXCEPT ![w] = "update"]
        /\ count' = [count EXCEPT ![w] = 0]
        /\ UNCHANGED <<job, triggers>>
    BY <1>3 DEF IncrCompletedFails, Goto
  <2>2. completed' = completed
    <3>1. job[w].part \notin counted[job[w].epoch] /\ job[w].epoch \in Epoch
      BY <1>0, <1>3 DEF IncrCompletedFails, Ownership, WorkerOwnership
    <3>2. counted' # [counted EXCEPT ![job[w].epoch] = @ \cup {job[w].part}]
      BY <1>0, <1>3, <3>1
    <3>3. QED
      BY <1>3, <3>2 DEF IncrCompletedFails
  <2>3. QED
    BY <1>0, <1>2, <1>3, <2>1, <2>2
<1>4. ASSUME NEW w \in Worker, SetProgress(w) PROVE CounterInv'
  <2>1. /\ pc[w] = "update"
        /\ completed' = [completed EXCEPT ![job[w].epoch] = count[w]]
        /\ pc' = [pc EXCEPT ![w] = IF AllPartsComplete(w) THEN "ready" ELSE "pop"]
        /\ UNCHANGED <<counted, triggers, job, count>>
    BY <1>4 DEF SetProgress, Goto, histVars
  <2>2. count[w] <= Cardinality(counted[job[w].epoch])
    BY <2>1 DEF CounterInv, CounterBound
  <2>3. \A d \in Epoch : completed'[d] = completed[d]
                       \/ completed'[d] <= Cardinality(counted[d])
    BY <1>0, <2>1, <2>2
  <2>4. AllPartsComplete(w) => Announces(w, job[w].epoch)
    BY <2>1 DEF AllPartsComplete, Announces
  <2>5. QED
    BY <1>0, <1>2, <2>1, <2>3, <2>4
<1>5. ASSUME NEW w \in Worker, MarkReady(w) PROVE CounterInv'
  <2> DEFINE e == job[w].epoch
  <2>1. /\ pc[w] = "ready"
        /\ pc' = [pc EXCEPT ![w] = "pop"]
        /\ triggers' = [triggers EXCEPT ![e] = @ + 1]
        /\ UNCHANGED <<counted, completed, job, count>>
    BY <1>5 DEF MarkReady, Goto
  <2>2. Announces(w, e) /\ e \in Epoch
    BY <1>0, <2>1 DEF CounterInv, SoleAnnouncer
  <2>3. triggers[e] = 0 /\ triggers'[e] = 1 /\ \A d \in Epoch : d # e => triggers'[d] = triggers[d]
    BY <1>0, <2>1, <2>2 DEF CounterInv, SoleAnnouncer
  <2>4. counted[e] = Parts(e) /\ TotalParts[e] > 0
    <3>1. TotalParts[e] <= Cardinality(counted[e])
      BY <2>1, <2>2 DEF CounterInv, CounterBound, Announces
    <3>2. QED
      BY <1>0, <2>2, <3>1, CountedParts DEF Announces
  <2> HIDE DEF e
  <2>5. CounterBound'
    BY <1>0, <2>1 DEF CounterInv, CounterBound
  <2>6. ASSUME NEW v \in Worker, NEW d \in Epoch, Announces(v, d)'
        PROVE  Announces(v, d) /\ d # e
    BY <2>6, <1>0, <2>1, <2>2 DEF Announces, CounterInv, SoleAnnouncer
  <2>7. \A v \in Worker : pc'[v] = "ready" => Announces(v, job[v].epoch)'
    BY <1>0, <2>1 DEF Announces, CounterInv, SoleAnnouncer
  <2>8. ASSUME NEW d \in Epoch
        PROVE  /\ triggers'[d] <= 1
               /\ triggers'[d] = 1 => counted[d] = Parts(d) /\ TotalParts[d] > 0
    BY <2>2, <2>3, <2>4 DEF CounterInv, SoleAnnouncer
  <2>9. SoleAnnouncer'
    BY <2>1, <2>3, <2>6, <2>7, <2>8 DEF CounterInv, SoleAnnouncer
  <2>10. QED
    BY <2>5, <2>9 DEF CounterInv
<1>6. ASSUME NEW w \in Worker, PopPart(w) \/ StorePart(w) \/ WorkerFails(w)
      PROVE  CounterInv'
  <2>1. /\ \E l \in {"pop", "store", "incr"} : pc' = [pc EXCEPT ![w] = l]
        /\ \A v \in Worker : v # w => job'[v] = job[v]
        /\ UNCHANGED <<counted, triggers, completed, count>>
    BY <1>0, <1>6 DEF PopPart, StorePart, WorkerFails, Goto, histVars, redisVars
  <2>2. QED
    BY <1>0, <1>2, <2>1
<1>7. CASE Cleanup
  <2>1. /\ \A d \in Epoch : completed'[d] = completed[d] \/ completed'[d] = 0
        /\ UNCHANGED <<pc, job, count, counted, triggers>>
    BY <1>0, <1>7 DEF Cleanup, workerVars, histVars, TypeOK, ActorTypes, Trigger
  <2>2. QED
    BY <1>0, <1>N, <1>2, <2>1
<1>8. CASE UNCHANGED <<pc, job, count, counted, triggers, completed>>
  BY <1>0, <1>2, <1>8
<1>9. ASSUME \/ \E e \in Epoch : PushPart(e) \/ PushPartFails(e)
             \/ PopTrigger \/ MergePart \/ SetFinalized \/ Broadcast
             \/ MergePartFails \/ BroadcastFails \/ AggregatorFails
             \/ UNCHANGED vars
      PROVE  UNCHANGED <<pc, job, count, counted, triggers, completed>>
  BY <1>9 DEF PushPart, PushPartFails, PopTrigger, MergePart, SetFinalized,
         Broadcast, MergePartFails, BroadcastFails, AggregatorFails,
         redisVars, workerVars, histVars, vars
<1>10. ASSUME NEW w \in Worker, IncrCompleted(w), counted' = counted
       PROVE  FALSE
  <2>1. job[w].part \notin counted[job[w].epoch] /\ job[w].epoch \in Epoch
    BY <1>0, <1>10 DEF IncrCompleted, Ownership, WorkerOwnership
  <2>2. counted' = [counted EXCEPT ![job[w].epoch] = @ \cup {job[w].part}]
    BY <1>10 DEF IncrCompleted
  <2>3. QED
    BY <1>0, <1>10, <2>1, <2>2
<1>11. QED
  BY <1>1, <1>3, <1>4, <1>5, <1>6, <1>7, <1>8, <1>9, <1>10
     DEF Next, WorkerStep, AggregatorStep

-----------------------------------------------------------------------------
(* Layer 3: Level 1 aggregation.                                           *)

Level1Vars == <<aggregationQueue, triggers, finalized, skipped, broadcasts,
                parts, stored, aggVars, aborted>>

LEMMA TriggerFacts == \A t \in Trigger : t.epoch \in Epoch /\ t.total \in Nat
  BY DEF Trigger

LEMMA InitLevel1 == Init => Level1Inv
<1> SUFFICES ASSUME Init PROVE Level1Inv
  OBVIOUS
<1>1. QueuedTriggers
  BY DEF Init, QueuedTriggers, Queued
<1>2. HeldTrigger /\ NotTriggered /\ MergeProgress /\ FinalizedIsWhole
  BY DEF Init, HeldTrigger, NotTriggered, MergeProgress, FinalizedIsWhole
<1>3. PartsNotLost /\ \A e \in Epoch : broadcasts[e] <= 1
  BY DEF Init, PartsNotLost
<1>4. QED
  BY <1>1, <1>2, <1>3 DEF Level1Inv

LEMMA StepLevel1 ==
  TypeOK /\ Ownership /\ CounterInv /\ Level1Inv /\ [Next]_vars => Level1Inv'
<1> SUFFICES ASSUME TypeOK, Ownership, CounterInv, Level1Inv, [Next]_vars
             PROVE  Level1Inv'
  OBVIOUS
<1>0. /\ aggregationQueue \in Seq(Trigger)
      /\ aggJob \in Trigger
      /\ aggJob.epoch \in Epoch
      /\ aggJob.total \in Nat
      /\ aggNext \in Nat
      /\ aggMerged \in SUBSET Nat
      /\ triggers \in [Epoch -> Nat]
      /\ finalized \in [Epoch -> SUBSET Int]
      /\ broadcasts \in [Epoch -> Nat]
      /\ parts \in [Epoch -> SUBSET Nat]
      /\ stored \in [Epoch -> SUBSET Nat]
      /\ skipped \in [Epoch -> SUBSET Nat]
      /\ aborted \in [Epoch -> BOOLEAN]
      /\ TotalParts \in [Epoch -> Nat]
      /\ \A i \in DOMAIN aggregationQueue : aggregationQueue[i].epoch \in Epoch
  BY PartsAssumption, TriggerFacts
     DEF TypeOK, EpochTypes, QueueTypes, ActorTypes, HistoryTypes
<1>P. \A e \in Epoch : triggers[e] # 0 =>
        counted[e] = Parts(e) /\ stored[e] = Parts(e) /\ triggers[e] = 1
  <2> SUFFICES ASSUME NEW e \in Epoch, triggers[e] # 0
               PROVE  counted[e] = Parts(e) /\ stored[e] = Parts(e) /\ triggers[e] = 1
    OBVIOUS
  <2>1. triggers[e] \in Nat /\ triggers[e] <= 1
    BY <1>0 DEF CounterInv, SoleAnnouncer
  <2>2. triggers[e] = 1
    BY <2>1
  <2>3. counted[e] = Parts(e)
    BY <2>2 DEF CounterInv, SoleAnnouncer
  <2>4. counted[e] \subseteq stored[e] /\ stored[e] \subseteq Parts(e)
    BY DEF Ownership, StoredBeforeCounted
  <2>5. QED
    BY <2>2, <2>3, <2>4
<1>1. ASSUME NEW w \in Worker, StorePart(w) PROVE Level1Inv'
  <2> DEFINE e == job[w].epoch
             p == job[w].part
  <2>1. /\ pc[w] = "store"
        /\ parts' = [parts EXCEPT ![e] = @ \cup {p}]
        /\ stored' = [stored EXCEPT ![e] = @ \cup {p}]
        /\ UNCHANGED <<aggregationQueue, triggers, finalized, skipped,
                       broadcasts, aggPc, aggJob, aggNext, aggMerged, aborted>>
    BY <1>1 DEF StorePart, aggVars
  <2>2. e \in Epoch /\ p \in Parts(e) /\ p \notin stored[e]
    BY <2>1, JobFacts DEF TypeOK, ActorTypes, BatchIdsInRange, Ownership, WorkerOwnership
  <2>3. triggers[e] = 0
    BY <1>P, <2>2
  <2> HIDE DEF e, p
  <2>4. \A d \in Epoch : d # e => parts'[d] = parts[d] /\ stored'[d] = stored[d]
    BY <1>0, <2>1
  <2>5. parts'[e] = parts[e] \cup {p} /\ stored'[e] = stored[e] \cup {p}
    BY <1>0, <2>1, <2>2
  <2>6. ~Queued(e) /\ (aggPc # "pop" => aggJob.epoch # e)
    BY <2>2, <2>3 DEF Level1Inv, QueuedTriggers, HeldTrigger
  <2>7. QueuedTriggers'
    BY <2>1, <2>4, <2>6 DEF Level1Inv, QueuedTriggers, Queued
  <2>8. HeldTrigger'
    BY <2>1 DEF Level1Inv, HeldTrigger, Queued
  <2>9. NotTriggered'
    BY <2>1, <2>4, <2>5 DEF Level1Inv, NotTriggered
  <2>10. MergeProgress'
    BY <1>0, <2>1, <2>4, <2>6 DEF Level1Inv, MergeProgress
  <2>11. FinalizedIsWhole'
    BY <2>1 DEF Level1Inv, FinalizedIsWhole
  <2>12. PartsNotLost'
    BY <2>1, <2>4, <2>5 DEF Level1Inv, PartsNotLost
  <2>13. QED
    BY <2>1, <2>7, <2>8, <2>9, <2>10, <2>11, <2>12 DEF Level1Inv
<1>2. ASSUME NEW w \in Worker, MarkReady(w) PROVE Level1Inv'
  <2> DEFINE e == job[w].epoch
             x == [epoch |-> e, total |-> count[w]]
  <2>1. /\ pc[w] = "ready"
        /\ aggregationQueue' = Append(aggregationQueue, x)
        /\ triggers' = [triggers EXCEPT ![e] = @ + 1]
        /\ UNCHANGED <<finalized, skipped, broadcasts, parts, stored, aggPc,
                       aggJob, aggNext, aggMerged, aborted>>
    BY <1>2 DEF MarkReady, aggVars
  <2>2. e \in Epoch /\ count[w] = TotalParts[e] /\ triggers[e] = 0
    BY <2>1, JobFacts DEF TypeOK, ActorTypes, CounterInv, SoleAnnouncer, Announces
  <2>3. x \in Trigger /\ x.epoch = e /\ x.total = TotalParts[e]
    BY <1>0, <2>2 DEF Trigger
  <2>4. counted[e] = Parts(e)
    <3>1. TotalParts[e] <= Cardinality(counted[e])
      BY <2>1, <2>2 DEF CounterInv, CounterBound
    <3>2. QED
      BY <1>0, <2>2, <3>1, CountedParts
  <2>5. parts[e] = Parts(e)
    <3>1. parts[e] = stored[e]
      BY <2>2 DEF Level1Inv, NotTriggered
    <3>2. counted[e] \subseteq stored[e] /\ stored[e] \subseteq Parts(e)
      BY <2>2 DEF Ownership, StoredBeforeCounted
    <3>3. QED
      BY <2>4, <3>1, <3>2
  <2> HIDE DEF e, x
  <2>6. triggers'[e] = 1 /\ \A d \in Epoch : d # e => triggers'[d] = triggers[d]
    BY <1>0, <2>1, <2>2
  <2>7. \A i \in DOMAIN aggregationQueue' :
          \/ i \in DOMAIN aggregationQueue /\ aggregationQueue'[i] = aggregationQueue[i]
          \/ i = Len(aggregationQueue) + 1 /\ aggregationQueue'[i] = x
    BY <1>0, <2>1, <2>3, AppendElements
  <2>8. \A d \in Epoch : Queued(d)' => d = e \/ Queued(d)
    BY <2>3, <2>7 DEF Queued
  <2>9. ~Queued(e) /\ (aggPc # "pop" => aggJob.epoch # e)
    BY <2>2 DEF Level1Inv, QueuedTriggers, HeldTrigger
  <2>10. QueuedTriggers'
    <3>1. \A i, j \in DOMAIN aggregationQueue' :
            i # j => aggregationQueue'[i].epoch # aggregationQueue'[j].epoch
      BY <2>3, <2>7, <2>9 DEF Level1Inv, QueuedTriggers, Queued
    <3>2. \A i \in DOMAIN aggregationQueue' :
            aggregationQueue'[i].total = TotalParts[aggregationQueue'[i].epoch]
      BY <2>3, <2>7 DEF Level1Inv, QueuedTriggers
    <3>3. ASSUME NEW d \in Epoch, Queued(d)'
          PROVE  /\ triggers'[d] = 1
                 /\ finalized[d] = NoBatch
                 /\ skipped[d] = {}
                 /\ broadcasts[d] = 0
                 /\ parts[d] = Parts(d)
      BY <3>3, <2>2, <2>5, <2>6, <2>8 DEF Level1Inv, QueuedTriggers, NotTriggered
    <3>4. QED
      BY <2>1, <3>1, <3>2, <3>3 DEF QueuedTriggers
  <2>11. HeldTrigger'
    BY <1>0, <2>1, <2>6, <2>8, <2>9 DEF Level1Inv, HeldTrigger
  <2>12. NotTriggered'
    BY <2>1, <2>6 DEF Level1Inv, NotTriggered
  <2>13. MergeProgress' /\ FinalizedIsWhole' /\ PartsNotLost'
    BY <2>1 DEF Level1Inv, MergeProgress, FinalizedIsWhole, PartsNotLost
  <2>14. QED
    BY <2>1, <2>10, <2>11, <2>12, <2>13 DEF Level1Inv
<1>3. CASE PopTrigger
  <2>1. /\ aggPc = "pop" /\ aggPc' = "merge"
        /\ aggregationQueue # <<>>
        /\ aggJob' = Head(aggregationQueue)
        /\ aggregationQueue' = Tail(aggregationQueue)
        /\ aggNext' = 0 /\ aggMerged' = {}
        /\ UNCHANGED <<triggers, finalized, skipped, broadcasts, parts,
                       stored, aborted>>
    BY <1>3 DEF PopTrigger, histVars
  <2>2. /\ aggJob' = aggregationQueue[1]
        /\ 1 \in DOMAIN aggregationQueue
        /\ \A i \in DOMAIN aggregationQueue' :
             /\ i + 1 \in DOMAIN aggregationQueue
             /\ i \in Nat /\ i + 1 # 1
             /\ aggregationQueue'[i] = aggregationQueue[i + 1]
    BY <1>0, <2>1, PopElements
  <2>3. Queued(aggJob'.epoch) /\ aggJob'.epoch \in Epoch
        /\ aggJob'.total = TotalParts[aggJob'.epoch]
    BY <1>0, <2>2 DEF Queued, Level1Inv, QueuedTriggers
  <2>4. \A d \in Epoch : Queued(d)' => Queued(d)
    BY <2>2 DEF Queued
  <2>5. QueuedTriggers'
    <3>1. \A i, j \in DOMAIN aggregationQueue' :
            i # j => aggregationQueue'[i].epoch # aggregationQueue'[j].epoch
      <4> SUFFICES ASSUME NEW i \in DOMAIN aggregationQueue',
                          NEW j \in DOMAIN aggregationQueue', i # j
                   PROVE  aggregationQueue'[i].epoch # aggregationQueue'[j].epoch
        OBVIOUS
      <4>1. i + 1 # j + 1
        BY <2>2
      <4>2. QED
        BY <2>2, <4>1 DEF Level1Inv, QueuedTriggers
    <3>2. QED
      BY <2>1, <2>2, <2>4, <3>1 DEF Level1Inv, QueuedTriggers
  <2>6. HeldTrigger'
    <3>1. triggers[aggJob'.epoch] = 1
      BY <2>3 DEF Level1Inv, QueuedTriggers
    <3>2. ~Queued(aggJob.epoch)'
      BY <2>2 DEF Queued, Level1Inv, QueuedTriggers
    <3>3. QED
      BY <2>1, <3>1, <3>2 DEF HeldTrigger
  <2>7. NotTriggered'
    BY <2>1 DEF Level1Inv, NotTriggered
  <2>8. MergeProgress'
    <3>1. /\ finalized[aggJob'.epoch] = NoBatch
          /\ skipped[aggJob'.epoch] = {}
          /\ broadcasts[aggJob'.epoch] = 0
          /\ parts[aggJob'.epoch] = 0 .. aggJob'.total - 1
          /\ aggJob'.total \in Nat
      BY <1>0, <2>3 DEF Level1Inv, QueuedTriggers, Parts
    <3>2. QED
      BY <2>1, <2>3, <3>1 DEF MergeProgress
  <2>9. FinalizedIsWhole' /\ PartsNotLost'
    BY <2>1 DEF Level1Inv, FinalizedIsWhole, PartsNotLost
  <2>10. QED
    BY <2>1, <2>5, <2>6, <2>7, <2>8, <2>9 DEF Level1Inv
<1>4. CASE MergePart \/ MergePartFails
  <2> DEFINE e == aggJob.epoch
  <2>1. /\ aggPc = "merge" /\ aggNext < aggJob.total
        /\ aggNext' = aggNext + 1
        /\ \/ /\ aggMerged' = aggMerged \cup ({aggNext} \cap parts[e])
              /\ parts' = [parts EXCEPT ![e] = @ \ {aggNext}]
              /\ skipped' = skipped
           \/ /\ skipped' = [skipped EXCEPT ![e] = @ \cup {aggNext}]
              /\ UNCHANGED <<aggMerged, parts>>
        /\ UNCHANGED <<aggPc, aggJob, aggregationQueue, triggers, finalized,
                       broadcasts, stored, aborted>>
    BY <1>4 DEF MergePart, MergePartFails, redisVars, histVars
  <2>2. e \in Epoch /\ triggers[e] = 1 /\ ~Queued(e)
    BY <1>0, <2>1 DEF Level1Inv, HeldTrigger
  <2>3. /\ finalized[e] = NoBatch
        /\ aggJob.total = TotalParts[e]
        /\ aggMerged \cup skipped[e] = 0 .. aggNext - 1
        /\ aggMerged \cap skipped[e] = {}
        /\ aggNext .. aggJob.total - 1 \subseteq parts[e]
        /\ broadcasts[e] = 0
    BY <2>1 DEF Level1Inv, MergeProgress
  <2>4. \A d \in Epoch : d # e => parts'[d] = parts[d] /\ skipped'[d] = skipped[d]
    BY <1>0, <2>1
  <2>5. aggNext \in parts[e]
    <3>1. aggNext \in aggNext .. aggJob.total - 1
      BY <1>0, <2>1
    <3>2. QED
      BY <2>3, <3>1
  <2>6. \/ /\ aggMerged' = aggMerged \cup {aggNext}
           /\ parts'[e] = parts[e] \ {aggNext}
           /\ skipped'[e] = skipped[e]
        \/ /\ aggMerged' = aggMerged
           /\ parts'[e] = parts[e]
           /\ skipped'[e] = skipped[e] \cup {aggNext}
    BY <1>0, <2>1, <2>2, <2>5
  <2>E. aggJob.epoch = e
    OBVIOUS
  <2> HIDE DEF e
  <2>7. QueuedTriggers'
    BY <2>1, <2>2, <2>4 DEF Level1Inv, QueuedTriggers, Queued
  <2>8. HeldTrigger'
    BY <2>1 DEF Level1Inv, HeldTrigger, Queued
  <2>9. NotTriggered'
    BY <2>1, <2>2, <2>4 DEF Level1Inv, NotTriggered
  <2>10. MergeProgress'
    <3>1. aggMerged' \cup skipped'[e] = 0 .. aggNext
      <4>1. (aggMerged \cup skipped[e]) \cup {aggNext} = 0 .. aggNext
        BY <1>0, <2>3
      <4>2. QED
        BY <2>6, <4>1
    <3>2. aggMerged' \cap skipped'[e] = {}
      <4>1. aggNext \notin aggMerged /\ aggNext \notin skipped[e]
        BY <1>0, <2>3
      <4>2. QED
        BY <2>3, <2>6, <4>1
    <3>3. aggNext + 1 .. aggJob.total - 1 \subseteq parts'[e]
      BY <1>0, <2>3, <2>6
    <3>4. aggNext + 1 <= aggJob.total /\ aggNext' - 1 = aggNext
      BY <1>0, <2>1
    <3>5. QED
      BY <2>1, <2>3, <2>E, <3>1, <3>2, <3>3, <3>4 DEF MergeProgress
  <2>11. FinalizedIsWhole'
    BY <2>1, <2>3, <2>4 DEF Level1Inv, FinalizedIsWhole
  <2>12. PartsNotLost'
    BY <2>1, <2>4, <2>6, <2>E DEF Level1Inv, PartsNotLost
  <2>13. QED
    BY <2>1, <2>7, <2>8, <2>9, <2>10, <2>11, <2>12 DEF Level1Inv
<1>5. CASE SetFinalized
  <2> DEFINE e == aggJob.epoch
  <2>1. /\ aggPc = "merge" /\ aggNext >= aggJob.total
        /\ finalized' = [finalized EXCEPT ![e] = aggMerged]
        /\ aggPc' = "broadcast"
        /\ UNCHANGED <<aggJob, aggNext, aggMerged, aggregationQueue, parts,
                       triggers, skipped, broadcasts, stored, aborted>>
    BY <1>5 DEF SetFinalized, histVars
  <2>2. e \in Epoch /\ triggers[e] = 1 /\ ~Queued(e)
    BY <1>0, <2>1 DEF Level1Inv, HeldTrigger
  <2>3. /\ finalized[e] = NoBatch
        /\ aggMerged \cup skipped[e] = Parts(e)
        /\ aggMerged \cap skipped[e] = {}
        /\ broadcasts[e] = 0
    BY <1>0, <2>1, <2>2 DEF Level1Inv, MergeProgress, Parts
  <2>4. finalized'[e] = aggMerged /\ \A d \in Epoch : d # e => finalized'[d] = finalized[d]
    BY <1>0, <2>1, <2>2
  <2>E. aggJob.epoch = e
    OBVIOUS
  <2> HIDE DEF e
  <2>5. QueuedTriggers'
    BY <2>1, <2>2, <2>4 DEF Level1Inv, QueuedTriggers, Queued
  <2>6. HeldTrigger'
    BY <2>1, <2>2, <2>E DEF HeldTrigger, Queued
  <2>7. NotTriggered'
    BY <2>1, <2>2, <2>4 DEF Level1Inv, NotTriggered
  <2>8. MergeProgress'
    BY <2>1, <2>3, <2>E DEF MergeProgress
  <2>9. FinalizedIsWhole'
    BY <2>1, <2>3, <2>4 DEF Level1Inv, FinalizedIsWhole
  <2>10. PartsNotLost'
    <3>1. NoBatch \cap Nat = {}
      BY DEF NoBatch
    <3>2. QED
      BY <1>0, <2>1, <2>3, <2>4, <2>E, <3>1 DEF Level1Inv, PartsNotLost
  <2>11. QED
    BY <2>1, <2>5, <2>6, <2>7, <2>8, <2>9, <2>10 DEF Level1Inv
<1>6. CASE Broadcast
  <2> DEFINE e == aggJob.epoch
  <2>1. /\ aggPc = "broadcast" /\ aggPc' = "cleanup"
        /\ broadcasts' = [broadcasts EXCEPT ![e] = @ + 1]
        /\ UNCHANGED <<aggJob, aggNext, aggMerged, aggregationQueue, parts,
                       triggers, skipped, finalized, stored, aborted>>
    BY <1>6 DEF Broadcast, histVars
  <2>2. e \in Epoch /\ triggers[e] = 1 /\ ~Queued(e) /\ broadcasts[e] = 0
    BY <1>0, <2>1 DEF Level1Inv, HeldTrigger, MergeProgress
  <2>3. broadcasts'[e] = 1 /\ \A d \in Epoch : d # e => broadcasts'[d] = broadcasts[d]
    BY <1>0, <2>1, <2>2
  <2>E. aggJob.epoch = e
    OBVIOUS
  <2> HIDE DEF e
  <2>4. QueuedTriggers'
    BY <2>1, <2>2, <2>3 DEF Level1Inv, QueuedTriggers, Queued
  <2>5. HeldTrigger' /\ MergeProgress'
    BY <2>1, <2>2, <2>E DEF HeldTrigger, MergeProgress, Queued
  <2>6. NotTriggered'
    BY <2>1, <2>2, <2>3 DEF Level1Inv, NotTriggered
  <2>7. FinalizedIsWhole' /\ PartsNotLost'
    BY <2>1 DEF Level1Inv, FinalizedIsWhole, PartsNotLost
  <2>8. \A d \in Epoch : broadcasts'[d] <= 1
    BY <2>3 DEF Level1Inv
  <2>9. QED
    BY <2>4, <2>5, <2>6, <2>7, <2>8 DEF Level1Inv
<1>7. CASE Cleanup \/ BroadcastFails \/ AggregatorFails
  <2>1. /\ aggPc # "pop" /\ aggPc' \in {"pop", "cleanup"}
        /\ aggPc' = "pop" \/ aggPc # "merge"
        /\ UNCHANGED <<aggJob, aggNext, aggMerged, aggregationQueue, parts,
                       triggers, skipped, finalized, broadcasts, stored>>
        /\ \A d \in Epoch : ~aborted'[d] => ~aborted[d]
        /\ aggPc = "merge" => aborted'[aggJob.epoch]
    BY <1>0, <1>7 DEF Cleanup, BroadcastFails, AggregatorFails, redisVars, histVars
  <2>2. QueuedTriggers' /\ NotTriggered' /\ FinalizedIsWhole'
    BY <2>1 DEF Level1Inv, QueuedTriggers, NotTriggered, FinalizedIsWhole, Queued
  <2>3. HeldTrigger' /\ MergeProgress'
    BY <2>1 DEF Level1Inv, HeldTrigger, MergeProgress, Queued
  <2>4. PartsNotLost'
    BY <2>1 DEF Level1Inv, PartsNotLost
  <2>5. QED
    BY <2>1, <2>2, <2>3, <2>4 DEF Level1Inv
<1>8. CASE UNCHANGED Level1Vars
  <2>1. QueuedTriggers' /\ HeldTrigger' /\ NotTriggered' /\ MergeProgress'
    BY <1>8 DEF Level1Vars, aggVars, Level1Inv, QueuedTriggers, HeldTrigger,
                NotTriggered, MergeProgress, Queued
  <2>2. QED
    BY <1>8, <2>1 DEF Level1Vars, aggVars, Level1Inv, FinalizedIsWhole, PartsNotLost
<1>9. ASSUME \/ \E e \in Epoch : PushPart(e) \/ PushPartFails(e)
             \/ \E w \in Worker : PopPart(w) \/ IncrCompleted(w)
                                   \/ IncrCompletedFails(w)
                                   \/ SetProgress(w) \/ WorkerFails(w)
             \/ UNCHANGED vars
      PROVE  UNCHANGED Level1Vars
  BY <1>9 DEF PushPart, PushPartFails, PopPart, IncrCompleted,
         IncrCompletedFails, SetProgress, WorkerFails,
         redisVars, aggVars, histVars, vars, Level1Vars
<1>10. QED
  BY <1>1, <1>2, <1>3, <1>4, <1>5, <1>6, <1>7, <1>8, <1>9
     DEF Next, WorkerStep, AggregatorStep

-----------------------------------------------------------------------------
(* The theorems.                                                           *)

LEMMA Inductive == Spec => []IInv
<1>1. Init => IInv
  BY InitType, InitOwnership, InitCounter, InitLevel1 DEF IInv, CounterInv
<1>2. IInv /\ [Next]_vars => IInv'
  <2>1. TypeOK /\ [Next]_vars => TypeOK'
    BY StepEpochTypes, StepQueueTypes, StepActorTypes, StepHistoryTypes,
       StepBatchIdsInRange DEF TypeOK
  <2>2. QED
    BY <2>1, StepOwnership, StepCounter, StepLevel1 DEF IInv, CounterInv
<1>3. QED
  BY <1>1, <1>2, PTL DEF Spec

(* No early announcement: for any number of workers, parts and faults, an  *)
(* epoch in the Level 1 queue has all its parts stored, although the       *)
(* parts:completed counter is updated by an INCR and a separate SET.       *)
THEOREM NoEarlyTrigger == Spec => []TriggerOnlyWhenComplete
<1>1. IInv => TriggerOnlyWhenComplete
  <2> SUFFICES ASSUME IInv, NEW i \in DOMAIN aggregationQueue
               PROVE  LET t == aggregationQueue[i] IN
                        t.total = TotalParts[t.epoch] /\ stored[t.epoch] = Parts(t.epoch)
    BY DEF TriggerOnlyWhenComplete
  <2> DEFINE e == aggregationQueue[i].epoch
  <2>1. e \in Epoch
    BY TriggerFacts DEF IInv, TypeOK, QueueTypes
  <2>2. Queued(e) /\ aggregationQueue[i].total = TotalParts[e]
    BY DEF Queued, IInv, Level1Inv, QueuedTriggers
  <2>3. counted[e] = Parts(e)
    BY <2>1, <2>2 DEF IInv, Level1Inv, QueuedTriggers, SoleAnnouncer
  <2>4. counted[e] \subseteq stored[e] /\ stored[e] \subseteq Parts(e)
    BY <2>1 DEF IInv, Ownership, StoredBeforeCounted
  <2>5. QED
    BY <2>2, <2>3, <2>4
<1>2. QED
  BY <1>1, Inductive, PTL

(* An epoch is announced, and its batch broadcast, at most once.           *)
THEOREM AnnouncedOnce == Spec => []TriggeredOnce
<1>1. IInv => TriggeredOnce
  <2> SUFFICES ASSUME IInv, NEW e \in Epoch
               PROVE  triggers[e] <= 1 /\ broadcasts[e] <= triggers[e]
    BY DEF TriggeredOnce
  <2>1. triggers[e] \in Nat /\ broadcasts[e] \in Nat
    BY DEF IInv, TypeOK, EpochTypes, HistoryTypes
  <2>2. triggers[e] <= 1 /\ broadcasts[e] <= 1
    BY DEF IInv, SoleAnnouncer, Level1Inv
  <2>3. triggers[e] = 0 => broadcasts[e] = 0
    BY DEF IInv, Level1Inv, NotTriggered
  <2>4. QED
    BY <2>1, <2>2, <2>3
<1>2. QED
  BY <1>1, Inductive, PTL

(* The local batch is whole up to the parts whose GET failed.              *)
THEOREM LocalBatchIsWhole == Spec => []FinalizedIsWhole
<1>1. IInv => FinalizedIsWhole
  BY DEF IInv, Level1Inv
<1>2. QED
  BY <1>1, Inductive, PTL

(* A stored part is lost only with an aggregator that dies, or cannot      *)
(* store the batch, while it merges the epoch.                             *)
THEOREM StoredPartsSurvive == Spec => []PartsNotLost
<1>1. IInv => PartsNotLost
  BY DEF IInv, Level1Inv
<1>2. QED
  BY <1>1, Inductive, PTL

(* Workers, queues and aggregator implement the write-once register of     *)
(* LocalBatch: only SetFinalized writes finalized:{epoch}, and it finds it *)
(* absent.                                                                 *)
THEOREM Refinement == Spec => ImplementsLocalBatch
<1>1. Init => LocalBatches!Init
  BY DEF Init, LocalBatches!Init, NoBatch, LocalBatches!Absent
<1>2. IInv /\ [Next]_vars => [LocalBatches!Next]_finalized
  <2> SUFFICES ASSUME IInv, [Next]_vars
               PROVE  LocalBatches!Next \/ UNCHANGED finalized
    OBVIOUS
  <2>1. CASE SetFinalized
    <3> DEFINE e == aggJob.epoch
    <3>1. e \in Epoch /\ TotalParts[e] \in Nat
      BY TriggerFacts, PartsAssumption DEF IInv, TypeOK, ActorTypes
    <3>2. /\ finalized[e] = NoBatch
          /\ aggMerged \cup skipped[e] = 0 .. TotalParts[e] - 1
      BY <2>1, <3>1 DEF SetFinalized, IInv, Level1Inv, MergeProgress,
                        TypeOK, ActorTypes
    <3>3. finalized' = [finalized EXCEPT ![e] = aggMerged]
      BY <2>1 DEF SetFinalized
    <3>4. LocalBatches!Publish(e)
      BY <3>2, <3>3 DEF LocalBatches!Publish, LocalBatches!Absent, NoBatch
    <3>5. QED
      BY <3>1, <3>4 DEF LocalBatches!Next
  <2>2. CASE UNCHANGED vars
    BY <2>2 DEF vars, redisVars
  <2>3. CASE \/ \E e \in Epoch : PushPart(e) \/ PushPartFails(e)
             \/ \E w \in Worker : \/ PopPart(w) \/ StorePart(w)
                                   \/ IncrCompleted(w) \/ SetProgress(w)
                                   \/ MarkReady(w) \/ WorkerFails(w)
                                   \/ IncrCompletedFails(w)
    BY <2>3 DEF PushPart, PushPartFails, PopPart, StorePart, IncrCompleted,
                SetProgress, MarkReady, WorkerFails, IncrCompletedFails,
                redisVars
  <2>4. CASE \/ PopTrigger \/ MergePart \/ Broadcast \/ Cleanup
             \/ MergePartFails \/ BroadcastFails \/ AggregatorFails
    BY <2>4 DEF PopTrigger, MergePart, Broadcast, Cleanup, MergePartFails,
                BroadcastFails, AggregatorFails, redisVars
  <2>5. QED
    BY <2>1, <2>2, <2>3, <2>4 DEF Next, WorkerStep, AggregatorStep
<1>3. QED
  BY <1>1, <1>2, Inductive, PTL DEF Spec, ImplementsLocalBatch, LocalBatches!Spec

=============================================================================
