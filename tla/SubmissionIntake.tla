-------------------------- MODULE SubmissionIntake --------------------------
(***************************************************************************)
(* The way of a submission of one epoch from the gossip network into the   *)
(* votes of its project.                                                   *)
(*                                                                         *)
(* The P2P gateway queues every message; the listener of the unified       *)
(* sequencer deduplicates first (local LRU, then SETNX) and then queues.   *)
(* Dequeuer workers pop a message each, validate its submissions and store *)
(* the results in Redis.  When the submission window closes, the event     *)
(* monitor collects the stored submissions and counts votes.               *)
(*                                                                         *)
(* A submission stands for its id (epoch, project, slot, CID).  Whether    *)
(* its fields, signature and slot registration are in order is a property  *)
(* of the submission.  Redis commands and critical sections are steps; at  *)
(* most MaxFaults commands fail.  TTLs outlive the instances.  Of the      *)
(* metrics and timelines a worker reports to, the set of validated ids     *)
(* stands for all.                                                         *)
(***************************************************************************)
EXTENDS Integers, Sequences, FiniteSets

CONSTANTS
  Submission,   \* submission ids
  Valid,        \* those that pass validation, signature and slot checks
  Addressed,    \* those whose protocolState and dataMarket are the node's
  Message,      \* the gossip messages: [format, subs]
  Topic,        \* the listener's topic goroutines
  Worker,       \* the dequeuer workers
  MaxCopies,    \* bound on deliveries of a message
  CacheLimit,   \* processed submissions kept in memory (1000 in the code)
  CacheKeep,    \* kept by a clean-up (500 in the code)
  ScanRepeats,  \* how often SCAN may return one key
  MaxFaults     \* bound on failing Redis commands

ASSUME SubmissionAssumption ==
  /\ IsFiniteSet(Submission) /\ Submission # {}
  /\ Valid \subseteq Submission /\ Addressed \subseteq Submission
ASSUME MessageAssumption ==
  /\ Message # {}
  /\ \A m \in Message :
       /\ m.format \in {"single", "batch"}
       /\ m.subs \in Seq(Submission) /\ m.subs # <<>>
       /\ m.format = "single" => Len(m.subs) = 1
ASSUME BoundAssumption ==
  /\ MaxCopies \in Nat /\ MaxFaults \in Nat /\ ScanRepeats \in Nat \ {0}
  /\ CacheLimit \in Nat /\ CacheKeep \in 0 .. CacheLimit

VARIABLES
  copies,        \* per message: deliveries so far
  localCache,    \* the deduplicator's LRU cache
  seenKeys,      \* the dedup:* keys in Redis
  topicPc, topicMsg, \* per topic goroutine: control state and message
  queue,         \* the submissionQueue list, oldest first
  pc, job,       \* per worker: control state and submissions left
  processed,     \* processedSubmissions, oldest first
  results,       \* the processed:{sequencer}:{id} keys
  members,       \* the members of epoch:{e}:processed
  validated,     \* the members of metrics:epoch:{e}:validated
  collectPc, ids,\* collectEpochSubmissions: control state and ids left
  votes,         \* per submission: how often it was counted
  faults,
  arrived,       \* history: messages a listener has taken a decision on
  falseDuplicates, \* history: messages skipped though never taken before
  failed,        \* history: submissions a failing command hit
  accepted,      \* history: submissions processed without a failure
  onTime         \* history: those accepted when the collection began

dedupVars   == <<localCache, seenKeys, topicPc, topicMsg>>
workerVars  == <<pc, job, processed>>
storeVars   == <<results, members, validated>>
collectVars == <<collectPc, ids, votes>>
histVars    == <<arrived, falseDuplicates, failed, accepted, onTime>>
vars == <<copies, dedupVars, queue, workerVars, storeVars, collectVars, faults,
          histVars>>

NoMessage == [format |-> "none", subs |-> <<>>]

Fault ==
  /\ faults < MaxFaults
  /\ faults' = faults + 1

Init ==
  /\ copies = [m \in Message |-> 0]
  /\ localCache = {} /\ seenKeys = {}
  /\ topicPc = [t \in Topic |-> "next"]
  /\ topicMsg = [t \in Topic |-> NoMessage]
  /\ queue = <<>>
  /\ pc = [w \in Worker |-> "pop"] /\ job = [w \in Worker |-> <<>>]
  /\ processed = <<>>
  /\ results = {} /\ members = {} /\ validated = {}
  /\ collectPc = "open" /\ ids = {}
  /\ votes = [s \in Submission |-> 0]
  /\ faults = 0
  /\ arrived = {} /\ falseDuplicates = {} /\ failed = {} /\ accepted = {}
  /\ onTime = {}

-----------------------------------------------------------------------------
(* The gateway.                                                            *)

GatewayQueues(m) ==
  /\ copies[m] < MaxCopies
  /\ copies' = [copies EXCEPT ![m] = @ + 1]
  /\ queue' = Append(queue, m.subs)
  /\ UNCHANGED <<dedupVars, workerVars, storeVars, collectVars, faults,
                 histVars>>

-----------------------------------------------------------------------------
(* The listener: queueSubmissionFromP2P and CheckAndMark.                  *)

(* The key is made of request["project_id"], request["snapshot_cid"] and   *)
(* the top-level epoch_id.  A single submission has projectId, snapshotCid *)
(* and no epoch_id, so every one of them gets the key of "<nil>:0:<nil>".  *)
GenerateKey(m) == "<nil>:0:<nil>"

TopicGoto(t, label) == topicPc' = [topicPc EXCEPT ![t] = label]

(* What skipping a message as a duplicate, or not, leaves in the history. *)
Decided(m, skipped) ==
  /\ arrived' = arrived \cup {m}
  /\ falseDuplicates' = IF skipped /\ m \notin arrived
                          THEN falseDuplicates \cup {m} ELSE falseDuplicates
  /\ UNCHANGED <<failed, accepted, onTime>>

(* A batch has no top-level request and is not deduplicated. *)
ListenerReceives(t, m) ==
  /\ topicPc[t] = "next"
  /\ copies[m] < MaxCopies
  /\ copies' = [copies EXCEPT ![m] = @ + 1]
  /\ topicMsg' = [topicMsg EXCEPT ![t] = m]
  /\ IF m.format = "single" /\ GenerateKey(m) \in localCache
       THEN TopicGoto(t, "next") /\ Decided(m, TRUE)
       ELSE /\ TopicGoto(t, IF m.format = "single" THEN "setnx" ELSE "push")
            /\ UNCHANGED histVars
  /\ UNCHANGED <<localCache, seenKeys, queue, workerVars, storeVars,
                 collectVars, faults>>

SetNX(t) ==
  LET m == topicMsg[t] IN
  /\ topicPc[t] = "setnx"
  /\ seenKeys' = seenKeys \cup {GenerateKey(m)}
  /\ localCache' = localCache \cup {GenerateKey(m)}
  /\ IF GenerateKey(m) \in seenKeys
       THEN TopicGoto(t, "next") /\ Decided(m, TRUE)
       ELSE TopicGoto(t, "push") /\ Decided(m, FALSE)
  /\ UNCHANGED <<copies, topicMsg, queue, workerVars, storeVars, collectVars,
                 faults>>

(* On an error the submission is queued nevertheless. *)
SetNXFails(t) ==
  /\ Fault
  /\ topicPc[t] = "setnx"
  /\ TopicGoto(t, "push")
  /\ UNCHANGED <<copies, localCache, seenKeys, topicMsg, queue, workerVars,
                 storeVars, collectVars, histVars>>

ListenerQueues(t) ==
  /\ topicPc[t] = "push"
  /\ queue' = Append(queue, topicMsg[t].subs)
  /\ TopicGoto(t, "next")
  /\ UNCHANGED <<copies, localCache, seenKeys, topicMsg, workerVars, storeVars,
                 collectVars, faults, histVars>>

(* LPUSH fails: the message is dropped, and its key stays marked. *)
ListenerQueuesFails(t) ==
  /\ Fault
  /\ topicPc[t] = "push"
  /\ TopicGoto(t, "next")
  /\ UNCHANGED <<copies, localCache, seenKeys, topicMsg, queue, workerVars,
                 storeVars, collectVars, histVars>>

-----------------------------------------------------------------------------
(* A dequeuer worker: runDequeuerWorker and ProcessSubmission.             *)

Goto(w, label) == pc' = [pc EXCEPT ![w] = label]
Current(w) == Head(job[w])

(* On to the next submission of the message, or the next message. *)
Advance(w) ==
  /\ job' = [job EXCEPT ![w] = Tail(@)]
  /\ Goto(w, IF Len(job[w]) = 1 THEN "pop" ELSE "check")

Pop(w) ==
  /\ pc[w] = "pop"
  /\ queue # <<>>
  /\ job' = [job EXCEPT ![w] = Head(queue)]
  /\ queue' = Tail(queue)
  /\ Goto(w, "check")
  /\ UNCHANGED <<copies, dedupVars, processed, storeVars, collectVars, faults,
                 histVars>>

AlreadyProcessed(s) == \E i \in DOMAIN processed : processed[i] = s

(* The entries without that of s: the map has one entry for an id. *)
Others(s) ==
  IF AlreadyProcessed(s)
    THEN LET k == CHOOSE i \in DOMAIN processed : processed[i] = s IN
           SubSeq(processed, 1, k - 1)
             \o SubSeq(processed, k + 1, Len(processed))
    ELSE processed

(* Mutant: one entry too many before a clean-up. *)
InsertLate(s) ==
  LET p == Append(Others(s), s) IN
    IF Len(p) > CacheLimit + 1 THEN <<s>> ELSE p

Newest(s, n) == SubSeq(s, Len(s) - n + 1, Len(s))

(* The cache with s in it: the newest CacheKeep entries of too many. *)
Insert(s) ==
  LET p == Append(Others(s), s) IN
    IF Len(p) > CacheLimit THEN Newest(p, CacheKeep) ELSE p

(* Mutant: the submission is marked where it is looked up. *)
CheckAndInsert(w) ==
  /\ pc[w] = "check"
  /\ IF AlreadyProcessed(Current(w))
       THEN Advance(w) /\ UNCHANGED processed
       ELSE /\ Goto(w, "verify")
            /\ processed' = Insert(Current(w))
            /\ UNCHANGED job
  /\ UNCHANGED <<copies, dedupVars, queue, storeVars, collectVars, faults,
                 histVars>>

CheckDuplicate(w) ==
  /\ pc[w] = "check"
  /\ IF AlreadyProcessed(Current(w))
       THEN Advance(w)
       ELSE Goto(w, "verify") /\ UNCHANGED job
  /\ UNCHANGED <<copies, dedupVars, queue, processed, storeVars, collectVars,
                 faults, histVars>>

(* Mutant: a submission that fails a check is only reported. *)
VerifyNothing(w) ==
  /\ pc[w] = "verify"
  /\ Goto(w, "remember")
  /\ UNCHANGED <<copies, dedupVars, queue, job, processed, storeVars,
                 collectVars, faults, histVars>>


(* validateSubmission, verifySignature, ValidateSnapshotterForSlot. *)
Verify(w) ==
  /\ pc[w] = "verify"
  /\ IF Current(w) \in Valid
       THEN Goto(w, "remember") /\ UNCHANGED job
       ELSE Advance(w)
  /\ UNCHANGED <<copies, dedupVars, queue, processed, storeVars, collectVars,
                 faults, histVars>>

(* The slot look-up in Redis fails: the submission is dropped. *)
VerifyFails(w) ==
  /\ Fault
  /\ pc[w] = "verify"
  /\ failed' = failed \cup {Current(w)}
  /\ Advance(w)
  /\ UNCHANGED <<copies, dedupVars, queue, processed, storeVars, collectVars,
                 arrived, falseDuplicates, accepted, onTime>>

(* Under the lock: insert and clean up. *)
Remember(w) ==
  /\ pc[w] = "remember"
  /\ processed' = Insert(Current(w))
  /\ Goto(w, "store")
  /\ UNCHANGED <<copies, dedupVars, queue, job, storeVars, collectVars, faults,
                 histVars>>

(* Mutant: only the epoch's set is written. *)
StoreNothing(w) ==
  /\ pc[w] = "store"
  /\ Goto(w, "sadd")
  /\ UNCHANGED <<copies, dedupVars, queue, job, processed, storeVars,
                 collectVars, faults, histVars>>

(* storeProcessingResult: SET of the result, then SADD to the epoch's set, *)
(* both under the names the submission itself carries.                     *)
StoreResult(w) ==
  /\ pc[w] = "store"
  /\ results' = results \cup {Current(w)}
  /\ Goto(w, "sadd")
  /\ UNCHANGED <<copies, dedupVars, queue, job, processed, members, validated,
                 collectVars, faults, histVars>>

AddMember(w) ==
  LET s == Current(w) IN
  /\ pc[w] = "sadd"
  /\ members' = members \cup ({s} \cap Addressed)
  /\ accepted' = accepted \cup ({s} \ failed)
  /\ Goto(w, "report")
  /\ UNCHANGED <<copies, dedupVars, queue, job, processed, results, validated,
                 collectVars, faults, arrived, falseDuplicates, failed, onTime>>

(* A failing SET is logged, a failing SADD ignored. *)
StoreFails(w) ==
  /\ Fault
  /\ pc[w] \in {"store", "sadd"}
  /\ failed' = failed \cup {Current(w)}
  /\ Goto(w, IF pc[w] = "store" THEN "sadd" ELSE "report")
  /\ UNCHANGED <<copies, dedupVars, queue, job, processed, storeVars,
                 collectVars, arrived, falseDuplicates, accepted, onTime>>

(* The pipeline of the monitoring metrics, under names without the node's  *)
(* protocol state and data market.                                         *)
ReportValidated(w) ==
  /\ pc[w] = "report"
  /\ validated' = validated \cup {Current(w)}
  /\ Advance(w)
  /\ UNCHANGED <<copies, dedupVars, queue, processed, results, members,
                 collectVars, faults, histVars>>

(* Its error is ignored. *)
ReportFails(w) ==
  /\ Fault
  /\ pc[w] = "report"
  /\ Advance(w)
  /\ UNCHANGED <<copies, dedupVars, queue, processed, storeVars, collectVars,
                 histVars>>

-----------------------------------------------------------------------------
(* The event monitor: collectEpochSubmissions.                             *)

BeginCollection ==
  /\ collectPc = "open"
  /\ collectPc' = "collect"
  /\ ids' = members
  /\ onTime' = accepted
  /\ UNCHANGED <<copies, dedupVars, queue, workerVars, storeVars, votes,
                 faults, arrived, falseDuplicates, failed, accepted>>

(* SMEMBERS fails: the epoch is collected as empty. *)
BeginCollectionFails ==
  /\ Fault
  /\ collectPc = "open"
  /\ collectPc' = "done"
  /\ UNCHANGED <<copies, dedupVars, queue, workerVars, storeVars, ids, votes,
                 histVars>>

(* One id: SCAN for its result keys and count a vote for each one found. *)
CollectOne(s) ==
  /\ collectPc = "collect"
  /\ s \in ids
  /\ \E n \in 1 .. ScanRepeats :
       votes' = [votes EXCEPT ![s] = IF s \in results THEN @ + n ELSE @]
  /\ ids' = ids \ {s}
  /\ UNCHANGED <<copies, dedupVars, queue, workerVars, storeVars, collectPc,
                 faults, histVars>>

(* SCAN or GET fails: the id is passed over. *)
CollectOneFails(s) ==
  /\ Fault
  /\ collectPc = "collect"
  /\ s \in ids
  /\ ids' = ids \ {s}
  /\ failed' = failed \cup {s}
  /\ UNCHANGED <<copies, dedupVars, queue, workerVars, storeVars, collectPc,
                 votes, arrived, falseDuplicates, accepted, onTime>>

EndCollection ==
  /\ collectPc = "collect"
  /\ ids = {}
  /\ collectPc' = "done"
  /\ UNCHANGED <<copies, dedupVars, queue, workerVars, storeVars, ids, votes,
                 faults, histVars>>

-----------------------------------------------------------------------------
WorkerStep(w) ==
  \/ Pop(w) \/ CheckDuplicate(w) \/ Verify(w) \/ Remember(w)
  \/ StoreResult(w) \/ AddMember(w) \/ ReportValidated(w)

TopicStep(t) == SetNX(t) \/ ListenerQueues(t)

CollectStep ==
  \/ BeginCollection \/ EndCollection
  \/ \E s \in Submission : CollectOne(s)

FaultStep ==
  \/ \E t \in Topic : SetNXFails(t) \/ ListenerQueuesFails(t)
  \/ \E w \in Worker : VerifyFails(w) \/ StoreFails(w) \/ ReportFails(w)
  \/ BeginCollectionFails
  \/ \E s \in Submission : CollectOneFails(s)

Next ==
  \/ \E m \in Message :
       GatewayQueues(m) \/ \E t \in Topic : ListenerReceives(t, m)
  \/ \E t \in Topic : TopicStep(t)
  \/ \E w \in Worker : WorkerStep(w)
  \/ CollectStep
  \/ FaultStep

Spec == Init /\ [][Next]_vars

(* The goroutines run; the network owes nothing and the window may close   *)
(* at any time.                                                            *)
Fairness ==
  /\ \A t \in Topic : WF_vars(TopicStep(t))
  /\ \A w \in Worker : WF_vars(WorkerStep(w))

FairSpec == Spec /\ Fairness

-----------------------------------------------------------------------------
(* Properties.                                                             *)

NetworkTypes ==
  /\ copies \in [Message -> 0 .. MaxCopies]
  /\ topicPc \in [Topic -> {"next", "setnx", "push"}]
  /\ topicMsg \in [Topic -> Message \cup {NoMessage}]
  /\ \A t \in Topic : topicPc[t] # "next" => topicMsg[t] \in Message
  /\ localCache \subseteq seenKeys
  /\ queue \in Seq({m.subs : m \in Message})
  /\ arrived \subseteq Message /\ falseDuplicates \subseteq arrived

WorkerTypes ==
  /\ pc \in [Worker -> {"pop", "check", "verify", "remember", "store", "sadd",
                        "report"}]
  /\ job \in [Worker -> Seq(Submission)]
  /\ \A w \in Worker : pc[w] = "pop" <=> job[w] = <<>>

CacheTypes ==
  /\ processed \in Seq(Submission) /\ Len(processed) <= CacheLimit
  /\ \A i, j \in DOMAIN processed : processed[i] = processed[j] => i = j

StoreTypes ==
  /\ results \subseteq Submission /\ members \subseteq Submission
  /\ validated \subseteq Submission /\ failed \subseteq Submission
  /\ accepted \subseteq Submission /\ onTime \subseteq Submission

CollectTypes ==
  /\ collectPc \in {"open", "collect", "done"} /\ ids \subseteq Submission
  /\ votes \in [Submission -> Nat]
  /\ faults \in 0 .. MaxFaults

(* The variables have the types of the queues, caches and Redis keys they  *)
(* stand for; a busy worker has a submission at hand, and the cache of     *)
(* processed submissions has one entry for an id and stays within its      *)
(* limit.                                                                  *)
TypeOK ==
  NetworkTypes /\ WorkerTypes /\ CacheTypes /\ StoreTypes /\ CollectTypes

(* Whatever arrives beside it, in whatever order workers take it up and    *)
(* however often SCAN returns its key, a submission is counted only if it  *)
(* was verified and is stored, result and member of the epoch's set, under *)
(* the node's protocol state and data market: the collector itself checks  *)
(* nothing (monitor.go:646-725).                                           *)
VotesVerified ==
  \A s \in Submission :
    votes[s] > 0 => s \in Valid /\ s \in Addressed /\ s \in results \cap members

(* A submission that a worker has finished before the window's collection  *)
(* began is counted by it, provided it carries the node's protocol state   *)
(* and data market and no Redis command failed on its behalf.              *)
OnTimeCounted ==
  collectPc = "done" =>
    \A s \in (onTime \cap Addressed) \ failed : votes[s] >= 1

Stored(s) == s \in results /\ s \in members \cup (Submission \ Addressed)

(* A submission that the cache calls processed has its result in Redis, or *)
(* some worker is about to store it, or a failing SET or SADD lost it for  *)
(* good: ProcessSubmission remembers it before it stores it, so that later *)
(* copies are skipped.  What the monitoring keys call validated is stored  *)
(* or lost in the same way.                                                *)
ProcessedIsStored ==
  /\ \A i \in DOMAIN processed :
       LET s == processed[i] IN
         \/ Stored(s) \/ s \in failed
         \/ \E w \in Worker : pc[w] \in {"store", "sadd"} /\ Current(w) = s
  /\ \A s \in validated : Stored(s) \/ s \in failed

(* deduplicator.go:45: CheckAndMark "checks if a submission was seen".  No *)
(* message is skipped as a duplicate the first time it arrives.            *)
SkipsOnlyDuplicates == falseDuplicates = {}

Queued(s) ==
  \E i \in DOMAIN queue : \E j \in DOMAIN queue[i] : queue[i][j] = s


=============================================================================
