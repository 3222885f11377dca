------------------------- MODULE ValidatorConsensus -------------------------
(***************************************************************************)
(* P2PConsensus (pkgs/consensus/p2p_consensus.go) of one validator, for    *)
(* one epoch: batches of other validators arrive by gossip, each in a      *)
(* goroutine of its own; their contents are fetched from IPFS by further   *)
(* goroutines; every arrival and a ticker recount the votes and publish    *)
(* the aggregation status in memory and in Redis.                          *)
(*                                                                         *)
(* A batch is named by its validator and the number of the delivery: each  *)
(* delivery is an object of its own, of which the map keeps the last.      *)
(* Deliveries of one validator's batch are handled one after the other,    *)
(* though the fetch of an earlier one may still run.                       *)
(* A batch may name CIDs twice: in Metadata["votes"], which comes with the *)
(* message, and in the BatchData fetched later; aggregateEpochVotes counts *)
(* both.  The own batch has neither in a form that is counted (line 171    *)
(* puts in vote counts).  The ticker's checkRecentEpochs visits the ids    *)
(* unix/30 .. unix/30 - 4 only: an epoch with another id never (Visits is  *)
(* 0), one of these at a few ticks.  Epochs share nothing but the lock.    *)
(***************************************************************************)
EXTENDS Integers, FiniteSets

CONSTANTS
  Remote,        \* the other validators
  Self,          \* this validator (sequencerID)
  Project, Cid,  \* what the batches vote on
  None,          \* nothing
  Ticker,        \* names periodicConsensusCheck
  Contents,      \* the combinations of batches considered
  Copies,        \* per remote validator: deliveries of its batch at most
  Visits,        \* the ticks at which checkRecentEpochs visits the epoch, at most
  MinValidators  \* MinValidatorsForConsensus

Votes == [Project -> Cid \cup {None}]

\* What a validator's batch names: in BatchData, and in Metadata["votes"] where
\* that has one of the two forms the code reads.
Batch == [data : Votes, meta : Votes]

ASSUME ValidatorAssumption ==
  /\ IsFiniteSet(Remote) /\ Self \notin Remote /\ None \notin Cid
  /\ Ticker \notin Remote
  /\ Copies \in [Remote -> 0 .. 2]
  /\ Contents \subseteq [Remote -> Batch]
\* A status: the validators counted and projectVotes.
StatusRecord == [total : Nat, votes : [Project -> [Cid -> Nat]]]

ASSUME NoneAssumption == None \notin StatusRecord
ASSUME BoundAssumption == MinValidators \in Nat \ {0} /\ Visits \in Nat

Validator == Remote \cup {Self}
Message == {<<v, k>> : v \in Remote, k \in 1 .. 2} \* the k-th delivery from v
Thread == Remote \cup {Ticker}                     \* who runs aggregateEpochVotes

VARIABLES
  content,     \* per remote validator: its batch; fixed
  pc,          \* per thread: where processBatchMessage or the ticker is
  seen,        \* per remote validator: deliveries so far
  fetch,       \* per message: the fetchBatchFromIPFS goroutine
  batches,     \* validatorBatches: per validator the delivery kept, or 0
  loaded,      \* messages whose BatchData is set
  visits,      \* the ticker's visits so far
  view,        \* per thread: the count in progress
  status,      \* aggregationStatus, or None
  redisStatus, \* consensus:epoch:{e}:status and :result, or None
  crashed      \* None, "panic" or "race"

netVars == <<seen, fetch, batches, loaded>>
outVars == <<status, redisStatus>>
vars == <<content, pc, netVars, visits, view, outVars, crashed>>

-----------------------------------------------------------------------------
Stored == {v \in Validator : batches[v] # 0}

\* The batches a thread finds with metadata, and with BatchData as well.
WithMeta == Stored \cap Remote
WithData == {v \in WithMeta : <<v, batches[v]>> \in loaded}

\* projectVotes per project and CID: one for a validator that names it in its
\* metadata, and one more if its BatchData is there and names it too.
Tally(named, voters) == [p \in Project |-> [c \in Cid |->
    Cardinality({v \in named : content[v].meta[p] = c})
  + Cardinality({v \in voters : content[v].data[p] = c})]]

NoView == [total |-> 0, named |-> {}, voters |-> {}, status |-> None]

Goto(t, label) == pc' = [pc EXCEPT ![t] = label]

Init ==
  /\ content \in Contents
  /\ pc = [t \in Thread |-> "idle"]
  /\ seen = [v \in Remote |-> 0]
  /\ fetch = [m \in Message |-> "idle"]
  /\ batches = [v \in Validator |-> 0] /\ loaded = {}
  /\ visits = 0 /\ view = [t \in Thread |-> NoView]
  /\ status = None /\ redisStatus = None
  /\ crashed = None

-----------------------------------------------------------------------------
(* Batches in and out.                                                     *)

\* The process ends and its memory is gone; nothing restarts it.
Crash(reason) ==
  /\ crashed' = reason
  /\ pc' = [t \in Thread |-> "idle"] /\ view' = [t \in Thread |-> NoView]
  /\ seen' = [v \in Remote |-> 0] /\ fetch' = [m \in Message |-> "idle"]
  /\ batches' = [v \in Validator |-> 0] /\ loaded' = {}
  /\ status' = None
  /\ UNCHANGED <<content, visits, redisStatus>>

\* storeValidatorBatch, under the lock.
StoreValidatorBatch(v, k) == batches' = [batches EXCEPT ![v] = k]

\* A goroutine that is iterating over the inner map holds no lock: the Go
\* runtime may notice a store at that moment and abort the process.
ConcurrentMapWrite == (\E t \in Thread : pc[t] = "count") /\ Crash("race")

\* BroadcastFinalizedBatch, after a successful publish, keeps the own batch
\* (without BatchData); on failure it changes nothing.
Broadcast ==
  /\ batches[Self] = 0
  /\ \/ /\ StoreValidatorBatch(Self, 1)
        /\ UNCHANGED <<content, pc, seen, fetch, loaded, visits, view,
                       outVars, crashed>>
     \/ ConcurrentMapWrite

\* The JSON formats on the topic, by the fields of ValidatorBatch they carry:
\* BroadcastFinalizedBatch sends a ValidatorBatch, a P2P gateway sends a
\* FinalizedBatch, whose other fields have other names.
Required == {"batch_ipfs_cid", "merkle_root", "validator_id", "epoch_id"}
Fields == [validator |-> Required, finalized |-> {"batch_ipfs_cid"}]

\* The log line of processBatchMessage slices MerkleRoot[:16] before
\* validateBatch has looked at it.
LogPanics(format) == "merkle_root" \notin Fields[format]

\* processBatchMessage up to validateBatch, which starts the fetch.
Receive(v) ==
  /\ pc[v] = "idle" /\ seen[v] < Copies[v]
  /\ ~LogPanics("validator") /\ Required \subseteq Fields.validator
  /\ seen' = [seen EXCEPT ![v] = @ + 1]
  /\ Goto(v, "store")
  /\ fetch' = [fetch EXCEPT ![<<v, seen[v] + 1>>] = "run"]
  /\ UNCHANGED <<content, batches, loaded, visits, view, outVars, crashed>>

\* A message in the other format; one that validateBatch refuses changes
\* nothing.
ReceiveForeign == LogPanics("finalized") /\ Crash("panic")

\* storeValidatorBatch; storeBatchInRedis then writes keys no code reads.
Store(v) ==
  /\ pc[v] = "store"
  /\ \/ /\ StoreValidatorBatch(v, seen[v])
        /\ Goto(v, "begin")
        /\ UNCHANGED <<content, seen, fetch, loaded, visits, view, outVars, crashed>>
     \/ ConcurrentMapWrite

\* fetchBatchFromIPFS: the data goes to whichever delivery the map holds by
\* now, and nowhere if there is none; retrieval or the root check may fail.
FetchBatch(v, k) ==
  /\ fetch[<<v, k>>] = "run"
  /\ fetch' = [fetch EXCEPT ![<<v, k>>] = "done"]
  /\ loaded' \in {loaded,
                  IF batches[v] = 0 THEN loaded ELSE loaded \cup {<<v, batches[v]>>}}
  /\ UNCHANGED <<content, pc, seen, batches, visits, view, outVars, crashed>>

-----------------------------------------------------------------------------
(* aggregateEpochVotes, run by every message goroutine and by the ticker.  *)

\* A message counts after its batch was stored, the ticker's checkRecentEpochs
\* at a tick that falls into the epoch's five slots of 30 s.
MayBegin(t) ==
  IF t = Ticker THEN pc[t] = "idle" /\ visits < Visits ELSE pc[t] = "begin"

VisitsAfter(t) == IF t = Ticker THEN visits + 1 ELSE visits

\* Mutant: the total includes the caller once more.
AggBeginPlusOne(t) ==
  /\ MayBegin(t)
  /\ IF Cardinality(Stored) < MinValidators
     THEN Goto(t, "idle") /\ UNCHANGED view
     ELSE /\ Goto(t, "count")
          /\ view' = [view EXCEPT ![t].total = Cardinality(Stored) + 1]
  /\ visits' = VisitsAfter(t)
  /\ UNCHANGED <<content, netVars, outVars, crashed>>

\* Mutant: more than the minimum is asked for.
AggBeginAboveMinimum(t) ==
  /\ MayBegin(t)
  /\ IF Cardinality(Stored) <= MinValidators
     THEN Goto(t, "idle") /\ UNCHANGED view
     ELSE /\ Goto(t, "count")
          /\ view' = [view EXCEPT ![t].total = Cardinality(Stored)]
  /\ visits' = VisitsAfter(t)
  /\ UNCHANGED <<content, netVars, outVars, crashed>>

\* The inner map is taken under the read lock and used after it is released.
AggBegin(t) ==
  /\ MayBegin(t)
  /\ IF Cardinality(Stored) < MinValidators
     THEN Goto(t, "idle") /\ UNCHANGED view
     ELSE /\ Goto(t, "count")
          /\ view' = [view EXCEPT ![t].total = Cardinality(Stored)]
  /\ visits' = VisitsAfter(t)
  /\ UNCHANGED <<content, netVars, outVars, crashed>>

\* The loop over the map, with the data that has been fetched by then.
AggCount(t) ==
  /\ pc[t] = "count"
  /\ Goto(t, "status")
  /\ view' = [view EXCEPT ![t].named = WithMeta, ![t].voters = WithData]
  /\ UNCHANGED <<content, netVars, visits, outVars, crashed>>

\* The CIDs with the most votes for p; the first the map yields wins.
Winners(tally, p) ==
  {c \in Cid : tally[p][c] > 0 /\ \A d \in Cid : tally[p][d] <= tally[p][c]}

\* AggregatedProjects of a status: a winner needs half of the validators.
\* Which of several winners is taken is up to the map; all are considered.
Aggregated(st) ==
  LET eligible(p) == {c \in Winners(st.votes, p) : 2 * st.votes[p][c] >= st.total}
  IN  {g \in Votes : \A p \in Project :
         IF eligible(p) = {} THEN g[p] = None ELSE g[p] \in eligible(p)}

\* Mutant: the data of every delivery is counted, not that of the last one.
AggStatusPerDelivery(t) ==
  /\ pc[t] = "status"
  /\ status' = [total |-> view[t].total,
                votes |-> [p \in Project |-> [c \in Cid |->
                  Tally(view[t].named, {})[p][c]
                  + Cardinality({m \in loaded : content[m[1]].data[p] = c})]]]
  /\ view' = [view EXCEPT ![t] = [NoView EXCEPT !.status = status']]
  /\ Goto(t, "publish")
  /\ UNCHANGED <<content, netVars, visits, redisStatus, crashed>>

\* The status is built and put in place, under the lock.
AggStatus(t) ==
  /\ pc[t] = "status"
  /\ status' = [total |-> view[t].total,
                votes |-> Tally(view[t].named, view[t].voters)]
  /\ view' = [view EXCEPT ![t] = [NoView EXCEPT !.status = status']]
  /\ Goto(t, "publish")
  /\ UNCHANGED <<content, netVars, visits, redisStatus, crashed>>

\* storeAggregationStatus and onAggregationComplete SET two keys from the
\* status this goroutine has built; errors are dropped.
AggPublish(t, ok) ==
  /\ pc[t] = "publish"
  /\ redisStatus' = IF ok THEN view[t].status ELSE redisStatus
  /\ view' = [view EXCEPT ![t] = NoView]
  /\ Goto(t, "idle")
  /\ UNCHANGED <<content, netVars, visits, status, crashed>>

Aggregate(t) ==
  \/ AggBegin(t) \/ AggCount(t) \/ AggStatus(t)
  \/ \E ok \in BOOLEAN : AggPublish(t, ok)

-----------------------------------------------------------------------------
Goroutine(v) == Store(v) \/ Aggregate(v)

Next ==
  /\ crashed = None
  /\ \/ Broadcast \/ ReceiveForeign \/ Aggregate(Ticker)
     \/ \E v \in Remote : Receive(v) \/ Goroutine(v)
     \/ \E m \in Message : FetchBatch(m[1], m[2])

Spec == Init /\ [][Next]_vars

-----------------------------------------------------------------------------
(* Properties.                                                             *)

ViewRecord == [total : 0 .. Cardinality(Validator), named : SUBSET Remote,
               voters : SUBSET Remote, status : StatusRecord \cup {None}]

\* Types of the consensus state.
TypeOK ==
  /\ content \in Contents
  /\ pc \in [Thread -> {"idle", "store", "begin", "count", "status", "publish"}]
  /\ seen \in [Remote -> 0 .. 2]
  /\ fetch \in [Message -> {"idle", "run", "done"}]
  /\ batches \in [Validator -> 0 .. 2] /\ loaded \subseteq Message
  /\ visits \in 0 .. Visits /\ view \in [Thread -> ViewRecord]
  /\ status \in StatusRecord \cup {None} /\ redisStatus \in StatusRecord \cup {None}
  /\ crashed \in {None, "panic", "race"}

\* How often the batches of validators name c for p, in either form.
Naming(p, c) == Cardinality({v \in Remote : content[v].meta[p] = c})
              + Cardinality({v \in Remote : content[v].data[p] = c})

\* The CIDs of a status are named half as often as it counts validators.
ByHalf(st) ==
  \A g \in Aggregated(st), p \in Project :
    g[p] # None => 2 * Naming(p, g[p]) >= st.total

\* No CID is aggregated, in memory or in Redis, unless the batches name it, in
\* metadata or data, half as often as there were validators reporting: neither
\* a second delivery, nor a fetch that ends on another delivery, nor a count
\* during which batches arrive gives one naming a second vote.  A validator
\* that names a CID in both forms has two (p2p_consensus.go:366-437).
AgreedByHalf == \A st \in {status, redisStatus} \ {None} : ByHalf(st)

\* Once the goroutines of the messages are through and enough batches of other
\* validators are stored, the epoch has a status, which counts no fewer than
\* the minimum and no more than there are: two batches that arrive at once do
\* not both leave the count to the other, ticker or not
\* (p2p_consensus.go:237-252, 366-375, 450-452).  The own batch alone does not
\* start a count.
QuorumCounted ==
  crashed = None /\ (\A t \in Thread : pc[t] = "idle")
                 /\ Cardinality(WithMeta) >= MinValidators =>
    /\ status # None
    /\ status.total \in MinValidators .. Cardinality(Stored)

\* A batch without merkle root is refused by validateBatch, not fatal
\* (p2p_consensus.go:233, 255-264).
InvalidBatchRefused == crashed # "panic"

=============================================================================
