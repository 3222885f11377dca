-------------------------- MODULE Level2Aggregation --------------------------
(***************************************************************************)
(* Level 2 aggregation: from the batches of other validators to the        *)
(* network-wide batch of an epoch.                                         *)
(*                                                                         *)
(* The P2P gateway receives finalized batches from the gossip topic,       *)
(* announces each on a Redis stream and stores it.  The aggregator's       *)
(* stream consumer opens an aggregation window per epoch; when the window  *)
(* expires, a timer goroutine reads the local batch and the incoming ones, *)
(* stores the aggregated batch and deletes what it read.  Level 1 (module  *)
(* Finalization) writes the local batch, at most once per epoch, at any    *)
(* time.                                                                   *)
(*                                                                         *)
(* Every Redis command is a step; a pipeline is not a transaction.  A      *)
(* command may fail or a process crash, at most MaxFaults times in all.    *)
(* A batch is named by its validator: what the merge does with the votes   *)
(* in it is left out, who is merged and who is counted is not.  Windows    *)
(* expire at any time.  The gateway trims the stream, and it and the       *)
(* aggregator create the stream and its consumer group where they are      *)
(* missing: the stream key is lost at most MaxLosses times (evicted or     *)
(* deleted).  Other keys do not expire within the instances, and the       *)
(* health events the gateway emits are left out.                           *)
(***************************************************************************)
EXTENDS Integers, Sequences, FiniteSets

CONSTANTS
  Epoch,       \* epoch ids
  Remote,      \* the other validators
  Self,        \* this validator (SequencerID)
  IPFS,        \* whether the validators store batches in IPFS
  MaxCopies,   \* bound on deliveries by the gossip network
  MaxStream,   \* entries a clean-up leaves in the stream (1000 in the code)
  ReadCount,   \* StreamBatchSize
  ClaimCount,  \* pending entries a health check looks at (10 in the code)
  MaxLosses,   \* bound on losses of the stream key
  MaxFaults    \* bound on Redis errors and crashes

ASSUME SelfAssumption == Self \notin Remote /\ IsFiniteSet(Remote)
ASSUME EpochAssumption == Epoch # {} /\ Remote # {}
ASSUME BoundAssumption ==
  /\ MaxCopies \in Nat /\ MaxFaults \in Nat /\ MaxLosses \in Nat
  /\ MaxStream \in Nat
  /\ ReadCount \in Nat \ {0} /\ ClaimCount \in Nat \ {0}
  /\ IPFS \in BOOLEAN

VARIABLES
  copies,      \* deliveries so far
  gwPc, gwMsg, \* the gateway's handleIncomingBatches
  incoming,    \* per epoch: validators whose incoming:batch key exists
  validators,  \* per epoch: the members of epoch:{e}:validators
  stream,      \* all entries of the aggregation stream: epochs, as they came
  trimmed,     \* the entries up to this one are no longer in the stream
  group,       \* "ready", "missing", or "absent" with the stream itself
  lastRead,    \* the consumer group's last delivered entry
  pending,     \* entries delivered to the group and never acknowledged
  readPc,      \* per reader: "idle", "check" or "start"
  readQueue,   \* per reader: entries read and not processed yet
  window,      \* per epoch: "none" or the state of the timer goroutine
  own,         \* per epoch: the goroutine read the local batch
  keys, todo,  \* per epoch: incomingKeys, and those not read yet
  merged,      \* per epoch: validators merged so far
  finalized,   \* per epoch: the finalized key exists
  level1Done,  \* per epoch: Level 1 has written its batch
  aggregated,  \* per epoch: the aggregated batch, or NoBatch
  faults, losses,
  writes,      \* history: SETs of the aggregated key
  unread,      \* history: incoming batches whose GET failed
  lost         \* history: batches deleted that no aggregated batch holds

netVars    == <<copies>>
gwVars     == <<gwPc, gwMsg>>
storeVars  == <<incoming, validators>>
streamVars == <<stream, trimmed, group, lastRead, pending, losses>>
readVars   == <<readPc, readQueue>>
timerVars  == <<window, own, keys, todo, merged>>
localVars  == <<finalized, level1Done>>
histVars   == <<writes, unread, lost>>
vars == <<netVars, gwVars, storeVars, streamVars, readVars, timerVars,
          localVars, aggregated, faults, histVars>>

(* The stream consumer and the health check that claims stalled entries    *)
(* run processStreamMessage concurrently.                                  *)
Reader == {"consumer", "claimer"}

Message == [epoch : Epoch, validator : Remote]
NoMessage == [epoch |-> CHOOSE e \in Epoch : TRUE,
              validator |-> CHOOSE v \in Remote : TRUE]

NoBatch == [from |-> {}, count |-> -1]

Fault ==
  /\ faults < MaxFaults
  /\ faults' = faults + 1

Init ==
  /\ copies = 0
  /\ gwPc = "next" /\ gwMsg = NoMessage
  /\ incoming = [e \in Epoch |-> {}] /\ validators = [e \in Epoch |-> {}]
  /\ stream = <<>> /\ trimmed = 0 /\ group = "ready" /\ lastRead = 0
  /\ pending = {} /\ losses = 0
  /\ readPc = [r \in Reader |-> "idle"] /\ readQueue = [r \in Reader |-> <<>>]
  /\ window = [e \in Epoch |-> "none"]
  /\ own = [e \in Epoch |-> FALSE]
  /\ keys = [e \in Epoch |-> {}] /\ todo = [e \in Epoch |-> {}]
  /\ merged = [e \in Epoch |-> {}]
  /\ finalized = [e \in Epoch |-> FALSE]
  /\ level1Done = [e \in Epoch |-> FALSE]
  /\ aggregated = [e \in Epoch |-> NoBatch]
  /\ faults = 0
  /\ writes = [e \in Epoch |-> 0]
  /\ unread = [e \in Epoch |-> {}] /\ lost = [e \in Epoch |-> {}]

(* aggregateWorkerParts stores the local batch. *)
Level1Writes(e) ==
  /\ ~level1Done[e]
  /\ level1Done' = [level1Done EXCEPT ![e] = TRUE]
  /\ finalized' = [finalized EXCEPT ![e] = TRUE]
  /\ UNCHANGED <<netVars, gwVars, storeVars, streamVars, readVars, timerVars,
                 aggregated, faults, histVars>>

-----------------------------------------------------------------------------
(* The gateway: handleIncomingBatches.                                     *)

GwGoto(label) == gwPc' = label

(* Mutant: the group is created with "$", behind the last entry. *)
CreateGroupAtEnd ==
  /\ group' = "ready"
  /\ lastRead' = IF group = "ready" THEN lastRead ELSE Len(stream)

(* XGROUP CREATE MKSTREAM with "0": a group that exists is left as it is,  *)
(* a new one has read nothing.                                             *)
CreateGroup == group' = "ready" /\ lastRead' = lastRead

(* A batch of another validator arrives, perhaps not for the first time.   *)
(* The stream notification comes first, and before it the look at the      *)
(* stream and its group (ensureStreamExists).                              *)
EnsureStream(e, v) ==
  /\ gwPc = "next"
  /\ copies < MaxCopies
  /\ copies' = copies + 1
  /\ gwMsg' = [epoch |-> e, validator |-> v]
  /\ CreateGroup
  /\ GwGoto("xadd")
  /\ UNCHANGED <<storeVars, stream, trimmed, pending, losses, readVars,
                 timerVars, localVars, aggregated, faults, histVars>>

(* XADD: a stream that is gone again is created without its group. *)
Notify ==
  /\ gwPc = "xadd"
  /\ stream' = Append(stream, gwMsg.epoch)
  /\ group' = IF group = "absent" THEN "missing" ELSE group
  /\ GwGoto("set")
  /\ UNCHANGED <<netVars, gwMsg, storeVars, trimmed, lastRead, pending, losses,
                 readVars, timerVars, localVars, aggregated, faults, histVars>>

(* All attempts of addToStreamWithRetry fail: the handler returns and no   *)
(* batch is received any more.                                             *)
NotifyFails ==
  /\ Fault
  /\ gwPc = "xadd"
  /\ GwGoto("returned")
  /\ UNCHANGED <<netVars, gwMsg, storeVars, streamVars, readVars, timerVars,
                 localVars, aggregated, histVars>>

StoreBatch ==
  /\ gwPc = "set"
  /\ incoming' = [incoming EXCEPT ![gwMsg.epoch] = @ \cup {gwMsg.validator}]
  /\ GwGoto("sadd")
  /\ UNCHANGED <<netVars, gwMsg, validators, streamVars, readVars, timerVars,
                 localVars, aggregated, faults, histVars>>

AddValidator ==
  /\ gwPc = "sadd"
  /\ validators' = [validators EXCEPT ![gwMsg.epoch] = @ \cup {gwMsg.validator}]
  /\ GwGoto("next")
  /\ UNCHANGED <<netVars, gwMsg, incoming, streamVars, readVars, timerVars,
                 localVars, aggregated, faults, histVars>>

PipelineFails ==
  /\ Fault
  /\ gwPc \in {"set", "sadd"}
  /\ GwGoto("next")
  /\ UNCHANGED <<netVars, gwMsg, storeVars, streamVars, readVars, timerVars,
                 localVars, aggregated, histVars>>

(* The gateway crashes and is restarted: initializeStreams. *)
GatewayCrash ==
  /\ Fault
  /\ gwPc # "next" \/ group # "ready"
  /\ CreateGroup
  /\ GwGoto("next")
  /\ UNCHANGED <<netVars, gwMsg, storeVars, stream, trimmed, pending, losses,
                 readVars, timerVars, localVars, aggregated, histVars>>

-----------------------------------------------------------------------------
(* The stream: its health check, its clean-up, its loss.                   *)

(* monitorStreamHealth: nothing is done while there is no stream. *)
MonitorStreamHealth ==
  /\ group = "missing"
  /\ CreateGroup
  /\ UNCHANGED <<netVars, gwVars, storeVars, stream, trimmed, pending, losses,
                 readVars, timerVars, localVars, aggregated, faults, histVars>>

(* cleanupOldStreamEntries: XTRIM MAXLEN ~, down to MaxStream entries or   *)
(* some more, whether they have been read or not.                          *)
TrimStream ==
  /\ Len(stream) - trimmed > MaxStream
  /\ trimmed' \in trimmed + 1 .. Len(stream) - MaxStream
  /\ UNCHANGED <<netVars, gwVars, storeVars, stream, group, lastRead, pending,
                 losses, readVars, timerVars, localVars, aggregated, faults,
                 histVars>>

StreamLost ==
  /\ losses < MaxLosses
  /\ losses' = losses + 1
  /\ trimmed' = Len(stream) /\ group' = "absent"
  /\ lastRead' = 0 /\ pending' = {}
  /\ UNCHANGED <<netVars, gwVars, storeVars, stream, readVars, timerVars,
                 localVars, aggregated, faults, histVars>>

-----------------------------------------------------------------------------
(* The stream readers.                                                     *)

Larger(a, b) == IF a > b THEN a ELSE b
Smaller(a, b) == IF a < b THEN a ELSE b

(* XREADGROUP with ">": up to ReadCount entries after the group's last,    *)
(* from the first that is still in the stream.                             *)
Deliver(first, n) ==
  /\ readQueue' = [readQueue EXCEPT !["consumer"] = [i \in 1 .. n |-> first + i]]
  /\ pending' = pending \cup (first + 1 .. first + n)
  /\ lastRead' = first + n

(* Mutant: the entry the group has read last is delivered again. *)
ReadStreamFromZero ==
  /\ readPc["consumer"] = "idle" /\ group = "ready"
  /\ lastRead < Len(stream)
  /\ Deliver(lastRead - 1, Smaller(ReadCount, Len(stream) - lastRead + 1))
  /\ readPc' = [readPc EXCEPT !["consumer"] = "check"]
  /\ UNCHANGED <<netVars, gwVars, storeVars, stream, trimmed, group, losses,
                 timerVars, localVars, aggregated, faults, histVars>>

ReadStream ==
  LET first == Larger(lastRead, trimmed) IN
  /\ readPc["consumer"] = "idle" /\ group = "ready"
  /\ first < Len(stream)
  /\ Deliver(first, Smaller(ReadCount, Len(stream) - first))
  /\ readPc' = [readPc EXCEPT !["consumer"] = "check"]
  /\ UNCHANGED <<netVars, gwVars, storeVars, stream, trimmed, group, losses,
                 timerVars, localVars, aggregated, faults, histVars>>

(* claimStalledMessages, when the consumer has not read for long: the      *)
(* oldest ClaimCount pending entries, as far as they are idle long enough. *)
(* Redis forgets a pending entry that was trimmed when it is claimed.      *)
ClaimStalled ==
  /\ readPc["claimer"] = "idle"
  /\ readPc["consumer"] # "idle"
  /\ \E i \in pending :
       /\ Cardinality({j \in pending : j < i}) < ClaimCount
       /\ IF i > trimmed
            THEN /\ readQueue' = [readQueue EXCEPT !["claimer"] = <<i>>]
                 /\ readPc' = [readPc EXCEPT !["claimer"] = "check"]
                 /\ UNCHANGED pending
            ELSE pending' = pending \ {i} /\ UNCHANGED readVars
  /\ UNCHANGED <<netVars, gwVars, storeVars, stream, trimmed, group, lastRead,
                 losses, timerVars, localVars, aggregated, faults, histVars>>

(* The entry at the head of the queue is done with; it is not acknowledged. *)
NextEntry(r) ==
  /\ readQueue' = [readQueue EXCEPT ![r] = Tail(@)]
  /\ readPc' = [readPc EXCEPT ![r] = IF Len(readQueue[r]) = 1
                                       THEN "idle" ELSE "check"]

(* processStreamMessage: EXISTS aggregated. *)
CheckAggregated(r) ==
  LET e == stream[Head(readQueue[r])] IN
  /\ readPc[r] = "check"
  /\ IF aggregated[e] # NoBatch
       THEN NextEntry(r)
       ELSE /\ readPc' = [readPc EXCEPT ![r] = "start"]
            /\ UNCHANGED readQueue
  /\ UNCHANGED <<netVars, gwVars, storeVars, streamVars, timerVars, localVars,
                 aggregated, faults, histVars>>

(* EXISTS fails: the consumer moves the entry to the dead letter queue and *)
(* acknowledges it, the claimer leaves it pending.                         *)
CheckFails(r) ==
  /\ Fault
  /\ readPc[r] = "check"
  /\ pending' = IF r = "consumer" THEN pending \ {Head(readQueue[r])}
                                  ELSE pending
  /\ NextEntry(r)
  /\ UNCHANGED <<netVars, gwVars, storeVars, stream, trimmed, group, lastRead,
                 losses, timerVars, localVars, aggregated, histVars>>

(* startAggregationWindow: a window that exists is left as it is. *)
StartWindow(r) ==
  LET e == stream[Head(readQueue[r])] IN
  /\ readPc[r] = "start"
  /\ window' = IF window[e] = "none" THEN [window EXCEPT ![e] = "open"]
                                     ELSE window
  /\ NextEntry(r)
  /\ UNCHANGED <<netVars, gwVars, storeVars, streamVars, own, keys, todo,
                 merged, localVars, aggregated, faults, histVars>>

-----------------------------------------------------------------------------
(* The timer goroutine of an epoch: aggregateEpoch.                        *)

WinGoto(e, label) == window' = [window EXCEPT ![e] = label]

(* Mutant: no second look at the aggregated key. *)
ExpireUnchecked(e) ==
  /\ window[e] = "open"
  /\ WinGoto(e, "own")
  /\ UNCHANGED <<netVars, gwVars, storeVars, streamVars, readVars, own, keys,
                 todo, merged, localVars, aggregated, faults, histVars>>

(* The window expires; EXISTS aggregated. *)
Expire(e) ==
  /\ window[e] = "open"
  /\ WinGoto(e, IF aggregated[e] # NoBatch THEN "finish" ELSE "own")
  /\ UNCHANGED <<netVars, gwVars, storeVars, streamVars, readVars, own, keys,
                 todo, merged, localVars, aggregated, faults, histVars>>

ReadOwn(e) ==
  /\ window[e] = "own"
  /\ own' = [own EXCEPT ![e] = finalized[e]]
  /\ WinGoto(e, "members")
  /\ UNCHANGED <<netVars, gwVars, storeVars, streamVars, readVars, keys, todo,
                 merged, localVars, aggregated, faults, histVars>>

(* SMEMBERS; this validator's own id is skipped. *)
ReadMembers(e) ==
  /\ window[e] = "members"
  /\ keys' = [keys EXCEPT ![e] = validators[e] \ {Self}]
  /\ todo' = [todo EXCEPT ![e] = validators[e] \ {Self}]
  /\ merged' = [merged EXCEPT ![e] = IF own[e] THEN {Self} ELSE {}]
  /\ WinGoto(e, "merge")
  /\ UNCHANGED <<netVars, gwVars, storeVars, streamVars, readVars, own,
                 localVars, aggregated, faults, histVars>>

(* createAggregatedBatch, one incoming key: a key that is gone is skipped. *)
MergeIncoming(e, v) ==
  /\ window[e] = "merge"
  /\ v \in todo[e]
  /\ todo' = [todo EXCEPT ![e] = @ \ {v}]
  /\ merged' = [merged EXCEPT ![e] = @ \cup ({v} \cap incoming[e])]
  /\ UNCHANGED <<netVars, gwVars, storeVars, streamVars, readVars, window, own,
                 keys, localVars, aggregated, faults, histVars>>

(* The keys of validatorViews.  A FinalizedBatch with a batch_ipfs_cid is  *)
(* taken for a ValidatorBatch, whose validator_id is then empty.           *)
Anonymous == "anonymous"
ViewKey(v) == IF v # Self /\ IPFS THEN Anonymous ELSE v
ValidatorCount(S) == Cardinality({ViewKey(v) : v \in S})

(* Mutant: the batch is written before the last incoming key is read.      *)
StoreAggregatedEarly(e) ==
  /\ window[e] = "merge"
  /\ Cardinality(todo[e]) <= 1
  /\ aggregated' = [aggregated EXCEPT ![e] =
       [from |-> merged[e], count |-> ValidatorCount(merged[e])]]
  /\ writes' = [writes EXCEPT ![e] = @ + 1]
  /\ WinGoto(e, "delete")
  /\ UNCHANGED <<netVars, gwVars, storeVars, streamVars, readVars, own, keys,
                 todo, merged, localVars, faults, unread, lost>>

StoreAggregated(e) ==
  /\ window[e] = "merge"
  /\ todo[e] = {}
  /\ aggregated' = [aggregated EXCEPT ![e] =
       [from |-> merged[e], count |-> ValidatorCount(merged[e])]]
  /\ writes' = [writes EXCEPT ![e] = @ + 1]
  /\ WinGoto(e, "delete")
  /\ UNCHANGED <<netVars, gwVars, storeVars, streamVars, readVars, own, keys,
                 todo, merged, localVars, faults, unread, lost>>

(* DEL of the local batch and of every key in incomingKeys. *)
DeleteSources(e) ==
  LET deleted == (incoming[e] \cap keys[e])
                   \cup (IF finalized[e] THEN {Self} ELSE {}) IN
  /\ window[e] = "delete"
  /\ finalized' = [finalized EXCEPT ![e] = FALSE]
  /\ incoming' = [incoming EXCEPT ![e] = @ \ keys[e]]
  /\ lost' = [lost EXCEPT ![e] = @ \cup (deleted \ aggregated[e].from)]
  /\ WinGoto(e, "finish")
  /\ UNCHANGED <<netVars, gwVars, validators, streamVars, readVars, own, keys,
                 todo, merged, level1Done, aggregated, faults, writes, unread>>

(* delete(a.epochTimers, epochID) *)
RemoveTimer(e) ==
  /\ window[e] = "finish"
  /\ WinGoto(e, "none")
  /\ own' = [own EXCEPT ![e] = FALSE]
  /\ keys' = [keys EXCEPT ![e] = {}]
  /\ merged' = [merged EXCEPT ![e] = {}]
  /\ UNCHANGED <<netVars, gwVars, storeVars, streamVars, readVars, todo,
                 localVars, aggregated, faults, histVars>>

(* EXISTS, or the SET of the aggregated batch, or the DEL fails: the       *)
(* goroutine goes on to remove its timer.                                  *)
AggregateFails(e) ==
  /\ Fault
  /\ \/ window[e] \in {"open", "delete"}
     \/ window[e] = "merge" /\ todo[e] = {}
  /\ WinGoto(e, "finish")
  /\ UNCHANGED <<netVars, gwVars, storeVars, streamVars, readVars, own, keys,
                 todo, merged, localVars, aggregated, histVars>>

(* A failed GET of the local batch or SMEMBERS counts as an empty answer. *)
ReadOwnFails(e) ==
  /\ Fault
  /\ window[e] = "own"
  /\ own' = [own EXCEPT ![e] = FALSE]
  /\ WinGoto(e, "members")
  /\ UNCHANGED <<netVars, gwVars, storeVars, streamVars, readVars, keys, todo,
                 merged, localVars, aggregated, histVars>>

ReadMembersFails(e) ==
  /\ Fault
  /\ window[e] = "members"
  /\ keys' = [keys EXCEPT ![e] = {}]
  /\ todo' = [todo EXCEPT ![e] = {}]
  /\ merged' = [merged EXCEPT ![e] = IF own[e] THEN {Self} ELSE {}]
  /\ WinGoto(e, "merge")
  /\ UNCHANGED <<netVars, gwVars, storeVars, streamVars, readVars, own,
                 localVars, aggregated, histVars>>

MergeFails(e, v) ==
  /\ Fault
  /\ window[e] = "merge"
  /\ v \in todo[e]
  /\ todo' = [todo EXCEPT ![e] = @ \ {v}]
  /\ unread' = [unread EXCEPT ![e] = @ \cup {v}]
  /\ UNCHANGED <<netVars, gwVars, storeVars, streamVars, readVars, window, own,
                 keys, merged, localVars, aggregated, writes, lost>>

(* The aggregator crashes: timers and read entries are gone, the consumer  *)
(* group remembers what was delivered.  initializeStreamConsumer creates   *)
(* the group if there is none.                                             *)
AggregatorCrash ==
  /\ Fault
  /\ CreateGroup
  /\ readPc' = [r \in Reader |-> "idle"]
  /\ readQueue' = [r \in Reader |-> <<>>]
  /\ window' = [e \in Epoch |-> "none"]
  /\ own' = [e \in Epoch |-> FALSE]
  /\ keys' = [e \in Epoch |-> {}]
  /\ todo' = [e \in Epoch |-> {}]
  /\ merged' = [e \in Epoch |-> {}]
  /\ UNCHANGED <<netVars, gwVars, storeVars, stream, trimmed, pending, losses,
                 localVars, aggregated, histVars>>

-----------------------------------------------------------------------------
ReaderStep(r) == CheckAggregated(r) \/ StartWindow(r)

TimerStep(e) ==
  \/ Expire(e) \/ ReadOwn(e) \/ ReadMembers(e)
  \/ \E v \in Remote : MergeIncoming(e, v)
  \/ StoreAggregated(e) \/ DeleteSources(e) \/ RemoveTimer(e)

FaultStep ==
  \/ NotifyFails \/ PipelineFails \/ GatewayCrash \/ AggregatorCrash
  \/ \E r \in Reader : CheckFails(r)
  \/ \E e \in Epoch :
       \/ AggregateFails(e) \/ ReadOwnFails(e) \/ ReadMembersFails(e)
       \/ \E v \in Remote : MergeFails(e, v)

Next ==
  \/ \E e \in Epoch :
       Level1Writes(e) \/ TimerStep(e) \/ \E v \in Remote : EnsureStream(e, v)
  \/ Notify \/ StoreBatch \/ AddValidator
  \/ MonitorStreamHealth \/ TrimStream \/ StreamLost
  \/ ReadStream \/ ClaimStalled \/ \E r \in Reader : ReaderStep(r)
  \/ FaultStep

Spec == Init /\ [][Next]_vars

(* The goroutines of gateway and aggregator run, windows expire and Level  *)
(* 1 ends; the gateway's health check ticks, the network owes nothing and   *)
(* the aggregator's health check need not claim.                           *)
Fairness ==
  /\ WF_vars(Notify \/ StoreBatch \/ AddValidator)
  /\ WF_vars(MonitorStreamHealth)
  /\ WF_vars(ReadStream)
  /\ \A r \in Reader : WF_vars(ReaderStep(r))
  /\ \A e \in Epoch : WF_vars(TimerStep(e)) /\ WF_vars(Level1Writes(e))

FairSpec == Spec /\ Fairness

-----------------------------------------------------------------------------
(* Properties.                                                             *)

GatewayTypes ==
  /\ copies \in 0 .. MaxCopies /\ faults \in 0 .. MaxFaults
  /\ gwPc \in {"next", "xadd", "set", "sadd", "returned"} /\ gwMsg \in Message
  /\ incoming \in [Epoch -> SUBSET Remote]
  /\ validators \in [Epoch -> SUBSET Remote]
StreamTypes ==
  /\ stream \in Seq(Epoch) /\ lastRead \in 0 .. Len(stream)
  /\ trimmed \in 0 .. Len(stream) /\ group \in {"ready", "missing", "absent"}
  /\ pending \subseteq 1 .. lastRead /\ losses \in 0 .. MaxLosses
ReaderTypes ==
  /\ readPc \in [Reader -> {"idle", "check", "start"}]
  /\ readQueue \in [Reader -> Seq(1 .. Len(stream))]
  /\ \A r \in Reader : readPc[r] = "idle" <=> readQueue[r] = <<>>
TimerTypes ==
  /\ window \in [Epoch -> {"none", "open", "own", "members", "merge",
                           "delete", "finish"}]
  /\ keys \in [Epoch -> SUBSET Remote] /\ todo \in [Epoch -> SUBSET Remote]
  /\ merged \in [Epoch -> SUBSET (Remote \cup {Self})]
  /\ \A e \in Epoch : todo[e] \subseteq keys[e]
FlagTypes ==
  /\ own \in [Epoch -> BOOLEAN]
  /\ finalized \in [Epoch -> BOOLEAN] /\ level1Done \in [Epoch -> BOOLEAN]
ResultTypes ==
  /\ aggregated \in [Epoch -> [from : SUBSET (Remote \cup {Self}),
                               count : Nat \cup {-1}]]
  /\ writes \in [Epoch -> Nat]
  /\ unread \in [Epoch -> SUBSET Remote]
  /\ lost \in [Epoch -> SUBSET (Remote \cup {Self})]

(* The variables have the types of the Redis keys and goroutine locals     *)
(* they stand for; queued entries are entries of the stream, pending ones  *)
(* were delivered to the consumer group.                                   *)
TypeOK ==
  /\ GatewayTypes /\ StreamTypes /\ ReaderTypes
  /\ TimerTypes /\ FlagTypes /\ ResultTypes

(* The aggregated batch of an epoch is written at most once, although      *)
(* processStreamMessage may find no batch, be overtaken by the window's    *)
(* goroutine and then open a second window (the EXISTS in aggregateEpoch). *)
AggregatedOnce == \A e \in Epoch : writes[e] <= 1

(* A batch of another validator is deleted only after it was merged into   *)
(* the aggregated batch, unless its GET failed: the keys deleted are the   *)
(* ones read, and a validator is a member only once its batch is stored.   *)
RemoteBatchesMerged == \A e \in Epoch : lost[e] \ {Self} \subseteq unread[e]

(* aggregator main.go:839,849: aggregateEpoch cleans up "source batches    *)
(* after successful aggregation".  The local batch it deletes is one it    *)
(* aggregated.                                                             *)
OnlySourcesDeleted == \A e \in Epoch : Self \notin lost[e]

Announced(e) == \E i \in trimmed + 1 .. Len(stream) : stream[i] = e

(* Unless a command fails or a process crashes, an epoch announced on the  *)
(* stream is aggregated in the end, or its last entry was trimmed or lost: *)
(* whatever arrives in between, whether or not Level 1 has stored the      *)
(* local batch, and although the consumer group may have to be created     *)
(* anew around the entry.                                                  *)
NotifiedAggregated ==
  \A e \in Epoch : Announced(e) ~>
    (aggregated[e] # NoBatch \/ faults > 0 \/ ~Announced(e))

=============================================================================
