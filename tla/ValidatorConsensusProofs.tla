---------------------- MODULE ValidatorConsensusProofs ----------------------
(***************************************************************************)
(* Proofs about ValidatorConsensus, for any finite set of validators, any  *)
(* projects, CIDs and batch contents, and any minimum of validators.       *)
(***************************************************************************)
EXTENDS ValidatorConsensus, FiniteSetTheorems, TLAPS

-----------------------------------------------------------------------------
(* Counting.                                                               *)

LEMMA StoredCount ==
  /\ IsFiniteSet(Validator) /\ Cardinality(Validator) \in Nat
  /\ Cardinality(Stored) \in 0 .. Cardinality(Validator)
<1>1. IsFiniteSet({Self})
  BY FS_Singleton
<1>2. IsFiniteSet(Validator)
  BY <1>1, FS_Union, ValidatorAssumption DEF Validator
<1>3. Stored \subseteq Validator
  BY DEF Stored
<1>4. Cardinality(Stored) <= Cardinality(Validator) /\ IsFiniteSet(Stored)
  BY <1>2, <1>3, FS_Subset
<1>5. Cardinality(Stored) \in Nat /\ Cardinality(Validator) \in Nat
  BY <1>2, <1>4, FS_CardinalityType
<1>6. QED
  BY <1>2, <1>4, <1>5

LEMMA TallyType ==
  ASSUME NEW named \in SUBSET Remote, NEW voters \in SUBSET Remote
  PROVE  Tally(named, voters) \in [Project -> [Cid -> Nat]]
<1>1. ASSUME NEW p \in Project, NEW c \in Cid
      PROVE  /\ Cardinality({v \in named : content[v].meta[p] = c}) \in Nat
             /\ Cardinality({v \in voters : content[v].data[p] = c}) \in Nat
  <2>1. /\ {v \in named : content[v].meta[p] = c} \subseteq Remote
        /\ {v \in voters : content[v].data[p] = c} \subseteq Remote
    OBVIOUS
  <2>2. \A S \in SUBSET Remote : IsFiniteSet(S) /\ Cardinality(S) \in Nat
    BY FS_Subset, FS_CardinalityType, ValidatorAssumption
  <2>3. QED
    BY <2>1, <2>2
<1>2. \A p \in Project, c \in Cid :
          Cardinality({v \in named : content[v].meta[p] = c})
        + Cardinality({v \in voters : content[v].data[p] = c}) \in Nat
  BY <1>1
<1>3. QED
  BY <1>2 DEF Tally

LEMMA MessageFacts ==
  /\ \A v \in Remote, k \in 1 .. 2 : <<v, k>> \in Message
  /\ \A m \in Message : m[1] \in Remote /\ m[2] \in 1 .. 2 /\ <<m[1], m[2]>> = m
BY DEF Message

-----------------------------------------------------------------------------
(* Type correctness.                                                       *)

LEMMA InitType == Init => TypeOK
<1> SUFFICES ASSUME Init PROVE TypeOK
  OBVIOUS
<1>1. NoView \in ViewRecord
  BY StoredCount DEF NoView, ViewRecord
<1>2. QED
  BY <1>1, BoundAssumption DEF Init, TypeOK

LEMMA CrashType ==
  ASSUME TypeOK, NEW reason \in {"panic", "race"}, Crash(reason)
  PROVE  TypeOK'
<1>1. NoView \in ViewRecord
  BY StoredCount DEF NoView, ViewRecord
<1>2. QED
  BY <1>1 DEF Crash, TypeOK

LEMMA AggregateType ==
  ASSUME TypeOK, NEW t \in Thread, Aggregate(t)
  PROVE  TypeOK'
<1>1. CASE AggBegin(t)
  <2>1. view' \in [Thread -> ViewRecord]
    <3>1. view[t] \in ViewRecord /\ view \in [Thread -> ViewRecord]
      BY DEF TypeOK
    <3>2. [view[t] EXCEPT !.total = Cardinality(Stored)] \in ViewRecord
      BY <3>1, StoredCount DEF ViewRecord
    <3>3. view' \in {view, [view EXCEPT ![t] = [view[t] EXCEPT !.total = Cardinality(Stored)]]}
      BY <1>1 DEF AggBegin
    <3>4. QED
      BY <3>1, <3>2, <3>3
  <2>2. pc' \in [Thread -> {"idle", "store", "begin", "count", "status", "publish"}]
    BY <1>1 DEF AggBegin, TypeOK, Goto
  <2>3. visits' \in 0 .. Visits
    BY <1>1, BoundAssumption DEF AggBegin, MayBegin, VisitsAfter, TypeOK
  <2>4. QED
    BY <1>1, <2>1, <2>2, <2>3 DEF AggBegin, TypeOK, netVars, outVars
<1>2. CASE AggCount(t)
  <2>1. WithMeta \in SUBSET Remote /\ WithData \in SUBSET Remote
    BY DEF WithMeta, WithData
  <2>2. view' \in [Thread -> ViewRecord]
    <3>1. view[t] \in ViewRecord /\ view \in [Thread -> ViewRecord]
      BY DEF TypeOK
    <3>2. [view[t] EXCEPT !.named = WithMeta, !.voters = WithData] \in ViewRecord
      BY <2>1, <3>1 DEF ViewRecord
    <3>3. view' = [view EXCEPT ![t] = [view[t] EXCEPT !.named = WithMeta, !.voters = WithData]]
      BY <1>2, <3>1 DEF AggCount
    <3>4. QED
      BY <3>1, <3>2, <3>3
  <2>3. QED
    BY <1>2, <2>2 DEF AggCount, TypeOK, Goto, netVars, outVars
<1>3. CASE AggStatus(t)
  <2>1. view[t] \in ViewRecord
    BY DEF TypeOK
  <2>2. /\ view[t].total \in Nat
        /\ view[t].named \in SUBSET Remote /\ view[t].voters \in SUBSET Remote
    BY <2>1, StoredCount DEF ViewRecord
  <2>3. status' \in StatusRecord
    BY <1>3, <2>2, TallyType DEF AggStatus, StatusRecord
  <2>4. [NoView EXCEPT !.status = status'] \in ViewRecord
    BY <2>3, StoredCount DEF NoView, ViewRecord
  <2>5. view' \in [Thread -> ViewRecord]
    BY <1>3, <2>4 DEF AggStatus, TypeOK
  <2>6. QED
    BY <1>3, <2>3, <2>5 DEF AggStatus, TypeOK, Goto, netVars
<1>4. ASSUME NEW ok \in BOOLEAN, AggPublish(t, ok) PROVE TypeOK'
  <2>1. NoView \in ViewRecord
    BY StoredCount DEF NoView, ViewRecord
  <2>2. redisStatus' \in StatusRecord \cup {None}
    BY <1>4 DEF AggPublish, TypeOK, ViewRecord
  <2>3. QED
    BY <1>4, <2>1, <2>2 DEF AggPublish, TypeOK, Goto, netVars
<1>5. QED
  BY <1>1, <1>2, <1>3, <1>4 DEF Aggregate

LEMMA StepType == TypeOK /\ [Next]_vars => TypeOK'
<1> SUFFICES ASSUME TypeOK, [Next]_vars PROVE TypeOK'
  OBVIOUS
<1>1. ASSUME ConcurrentMapWrite \/ ReceiveForeign PROVE TypeOK'
  BY <1>1, CrashType DEF ConcurrentMapWrite, ReceiveForeign
<1>2. CASE Broadcast
  BY <1>1, <1>2 DEF Broadcast, StoreValidatorBatch, TypeOK, outVars, Validator
<1>3. ASSUME NEW v \in Remote, Receive(v) PROVE TypeOK'
  <2>1. seen[v] \in 0 .. 1 /\ seen' \in [Remote -> 0 .. 2]
    <3>1. seen \in [Remote -> 0 .. 2] /\ Copies[v] \in 0 .. 2
      BY ValidatorAssumption DEF TypeOK
    <3>2. seen[v] < Copies[v] /\ seen' = [seen EXCEPT ![v] = @ + 1]
      BY <1>3 DEF Receive
    <3>3. QED
      BY <3>1, <3>2
  <2>2. fetch' \in [Message -> {"idle", "run", "done"}]
    BY <1>3, <2>1, MessageFacts DEF Receive, TypeOK
  <2>3. QED
    BY <1>3, <2>1, <2>2 DEF Receive, TypeOK, Goto, outVars
<1>4. ASSUME NEW v \in Remote, Store(v) PROVE TypeOK'
  BY <1>1, <1>4 DEF Store, StoreValidatorBatch, TypeOK, Goto, outVars
<1>5. ASSUME NEW m \in Message, FetchBatch(m[1], m[2]) PROVE TypeOK'
  <2>1. m[1] \in Remote /\ m[1] \in Validator /\ m[2] \in 1 .. 2
    BY MessageFacts DEF Validator
  <2>2. batches[m[1]] # 0 => <<m[1], batches[m[1]]>> \in Message
    <3>1. batches[m[1]] \in 0 .. 2
      BY <2>1 DEF TypeOK
    <3>2. batches[m[1]] # 0 => batches[m[1]] \in 1 .. 2
      BY <3>1
    <3>3. QED
      BY <2>1, <3>2, MessageFacts
  <2>3. loaded' \subseteq Message
    BY <1>5, <2>2 DEF FetchBatch, TypeOK
  <2>4. QED
    BY <1>5, <2>3 DEF FetchBatch, TypeOK, outVars
<1>6. CASE UNCHANGED vars
  BY <1>6 DEF vars, netVars, outVars, TypeOK
<1>7. Ticker \in Thread /\ Remote \subseteq Thread
  BY DEF Thread
<1>8. QED
  BY <1>1, <1>2, <1>3, <1>4, <1>5, <1>6, <1>7, AggregateType DEF Next, Goroutine

(* The variables have their types.                                         *)
THEOREM TypeCorrect == Spec => []TypeOK
BY InitType, StepType, PTL DEF Spec

-----------------------------------------------------------------------------
(* The votes of a status are those of two sets of validators, each counted *)
(* once for the CID in its metadata or in its data.                        *)

Counted(st) ==
  st # None => \E named, voters \in SUBSET Remote : st.votes = Tally(named, voters)

StatusesCounted ==
  /\ Counted(status) /\ Counted(redisStatus)
  /\ \A t \in Thread : Counted(view[t].status)

IInv == TypeOK /\ StatusesCounted

LEMMA StepCounted == IInv /\ [Next]_vars => StatusesCounted'
<1> SUFFICES ASSUME IInv, [Next]_vars PROVE StatusesCounted'
  OBVIOUS
<1> DEFINE Backed(st) ==
             st # None => \E named, voters \in SUBSET Remote :
                            st.votes = Tally(named, voters)
<1>1. content' = content
  BY DEF Next, Broadcast, ConcurrentMapWrite, Crash, ReceiveForeign, Aggregate,
         AggBegin, AggCount, AggStatus, AggPublish, Receive, Goroutine, Store,
         FetchBatch, vars
<1>2. \A named, voters : Tally(named, voters)' = Tally(named, voters)
  BY <1>1 DEF Tally
<1>3. /\ Backed(status) /\ Backed(redisStatus) /\ Backed(None)
      /\ \A t \in Thread : Backed(view[t].status)
  BY DEF IInv, StatusesCounted, Counted
<1>4. SUFFICES /\ Backed(status') /\ Backed(redisStatus')
               /\ \A t \in Thread : Backed(view'[t].status)
  BY <1>2 DEF StatusesCounted, Counted
<1>5. NoView.status = None
  BY DEF NoView
<1> HIDE DEF Backed
<1>6. ASSUME NEW reason, Crash(reason)
      PROVE  /\ Backed(status') /\ Backed(redisStatus')
             /\ \A t \in Thread : Backed(view'[t].status)
  BY <1>3, <1>5, <1>6 DEF Crash
<1>7. ASSUME UNCHANGED <<view, outVars>>
      PROVE  /\ Backed(status') /\ Backed(redisStatus')
             /\ \A t \in Thread : Backed(view'[t].status)
  BY <1>3, <1>7 DEF outVars
<1>8. CASE Broadcast \/ ReceiveForeign \/ \E v \in Remote : Receive(v) \/ Store(v)
  BY <1>6, <1>7, <1>8 DEF Broadcast, ConcurrentMapWrite, ReceiveForeign, Receive, Store
<1>9. CASE (\E m \in Message : FetchBatch(m[1], m[2])) \/ UNCHANGED vars
  BY <1>7, <1>9 DEF FetchBatch, vars
<1>10. ASSUME NEW t \in Thread, Aggregate(t)
       PROVE  /\ Backed(status') /\ Backed(redisStatus')
              /\ \A u \in Thread : Backed(view'[u].status)
  <2>1. CASE AggBegin(t) \/ AggCount(t)
    <3>1. \A u \in Thread : view'[u].status = view[u].status
      BY <2>1 DEF AggBegin, AggCount, IInv, TypeOK, ViewRecord
    <3>2. UNCHANGED outVars
      BY <2>1 DEF AggBegin, AggCount
    <3>3. QED
      BY <1>3, <3>1, <3>2 DEF outVars
  <2>2. CASE AggStatus(t)
    <3>1. view[t].named \in SUBSET Remote /\ view[t].voters \in SUBSET Remote
      BY DEF IInv, TypeOK, ViewRecord
    <3>2. status'.votes = Tally(view[t].named, view[t].voters)
      BY <2>2 DEF AggStatus
    <3>3. Backed(status')
      BY <3>1, <3>2 DEF Backed
    <3>4. /\ view'[t].status = status'
          /\ \A u \in Thread \ {t} : view'[u] = view[u]
      BY <2>2 DEF AggStatus, NoView, IInv, TypeOK
    <3>5. QED
      BY <1>3, <2>2, <3>3, <3>4 DEF AggStatus
  <2>3. ASSUME NEW ok \in BOOLEAN, AggPublish(t, ok)
        PROVE  /\ Backed(status') /\ Backed(redisStatus')
               /\ \A u \in Thread : Backed(view'[u].status)
    <3>1. redisStatus' \in {redisStatus, view[t].status} /\ status' = status
      BY <2>3 DEF AggPublish
    <3>2. view'[t] = NoView /\ \A u \in Thread \ {t} : view'[u] = view[u]
      BY <2>3 DEF AggPublish, IInv, TypeOK
    <3>3. QED
      BY <1>3, <1>5, <3>1, <3>2
  <2>4. QED
    BY <1>10, <2>1, <2>2, <2>3 DEF Aggregate
<1>11. QED
  BY <1>8, <1>9, <1>10 DEF Next, Goroutine, Thread

LEMMA Inductive == Spec => []IInv
<1>1. Init => StatusesCounted
  BY DEF Init, StatusesCounted, Counted, NoView
<1>2. Init => IInv
  BY <1>1, InitType DEF IInv
<1>3. IInv /\ [Next]_vars => IInv'
  BY StepType, StepCounted DEF IInv
<1>4. QED
  BY <1>2, <1>3, PTL DEF Spec

(* A winner of a counted status has at least half of the total, and its    *)
(* votes are at most how often the batches name it.                        *)
LEMMA CountedByHalf ==
  ASSUME NEW st \in StatusRecord, st # None, Counted(st)
  PROVE  ByHalf(st)
<1> SUFFICES ASSUME NEW g \in Aggregated(st), NEW p \in Project, g[p] # None
             PROVE  2 * Naming(p, g[p]) >= st.total
  BY DEF ByHalf
<1>1. PICK named \in SUBSET Remote, voters \in SUBSET Remote :
        st.votes = Tally(named, voters)
  BY DEF Counted
<1>2. g[p] \in Cid /\ 2 * st.votes[p][g[p]] >= st.total
  BY DEF Aggregated, Winners
<1>3. \A S \in SUBSET Remote : \A T \in SUBSET S :
        /\ Cardinality(T) <= Cardinality(S)
        /\ Cardinality(T) \in Nat /\ Cardinality(S) \in Nat
  BY FS_Subset, FS_CardinalityType, ValidatorAssumption
<1> DEFINE meta(S) == {v \in S : content[v].meta[p] = g[p]}
           data(S) == {v \in S : content[v].data[p] = g[p]}
<1>4. /\ meta(Remote) \in SUBSET Remote /\ meta(named) \in SUBSET meta(Remote)
      /\ data(Remote) \in SUBSET Remote /\ data(voters) \in SUBSET data(Remote)
  OBVIOUS
<1>5. st.votes[p][g[p]] = Cardinality(meta(named)) + Cardinality(data(voters))
  BY <1>1, <1>2 DEF Tally
<1>6. Naming(p, g[p]) = Cardinality(meta(Remote)) + Cardinality(data(Remote))
  BY DEF Naming
<1> HIDE DEF meta, data
<1>7. /\ Cardinality(meta(named)) <= Cardinality(meta(Remote))
      /\ Cardinality(meta(named)) \in Nat /\ Cardinality(meta(Remote)) \in Nat
  BY <1>3, <1>4
<1>8. /\ Cardinality(data(voters)) <= Cardinality(data(Remote))
      /\ Cardinality(data(voters)) \in Nat /\ Cardinality(data(Remote)) \in Nat
  BY <1>3, <1>4
<1>9. st.total \in Nat
  BY DEF StatusRecord
<1>10. QED
  BY <1>2, <1>5, <1>6, <1>7, <1>8, <1>9

(* Whatever the order of deliveries, fetches, recounts and crashes, a CID  *)
(* the status names, in memory or in Redis, is named by the batches half   *)
(* as often as the status counts validators.                               *)
THEOREM HalfAgree == Spec => []AgreedByHalf
<1>1. ASSUME IInv PROVE AgreedByHalf
  <2>1. /\ status \in StatusRecord \cup {None} /\ redisStatus \in StatusRecord \cup {None}
        /\ Counted(status) /\ Counted(redisStatus)
    BY <1>1 DEF IInv, TypeOK, StatusesCounted
  <2>2. QED
    BY <2>1, CountedByHalf DEF AgreedByHalf
<1>2. QED
  BY <1>1, Inductive, PTL

-----------------------------------------------------------------------------
(* No quorum is left uncounted.                                            *)

\* A count starts from a quorum and its total stays below what is stored.
TotalsInRange ==
  /\ status # None => status.total \in MinValidators .. Cardinality(Stored)
  /\ \A t \in Thread : pc[t] \in {"count", "status"} =>
       view[t].total \in MinValidators .. Cardinality(Stored)

\* As long as there is no status, someone is about to count or to publish one.
CountPending ==
  \/ status # None
  \/ Cardinality(WithMeta) < MinValidators
  \/ \E v \in Remote : pc[v] = "begin"
  \/ \E t \in Thread : pc[t] \in {"count", "status"}

\* What is about to be stored has been received.
StoresReceived == \A v \in Remote : pc[v] = "store" => seen[v] \in 1 .. 2

QInv == TypeOK /\ TotalsInRange /\ CountPending /\ StoresReceived

LEMMA StepReceived == TypeOK /\ StoresReceived /\ [Next]_vars => StoresReceived'
<1> SUFFICES ASSUME TypeOK, StoresReceived, [Next]_vars PROVE StoresReceived'
  OBVIOUS
<1>1. ASSUME NEW reason, Crash(reason) PROVE StoresReceived'
  BY <1>1 DEF Crash, StoresReceived, Thread
<1>2. CASE Broadcast \/ ReceiveForeign \/ \E m \in Message : FetchBatch(m[1], m[2])
  BY <1>1, <1>2 DEF Broadcast, ConcurrentMapWrite, ReceiveForeign, FetchBatch, StoresReceived
<1>3. ASSUME NEW v \in Remote, Receive(v) PROVE StoresReceived'
  <2>1. seen[v] < Copies[v] /\ Copies[v] \in 0 .. 2 /\ seen[v] \in 0 .. 2
    BY <1>3, ValidatorAssumption DEF Receive, TypeOK
  <2>2. /\ seen'[v] = seen[v] + 1
        /\ \A u \in Remote \ {v} : pc'[u] = pc[u] /\ seen'[u] = seen[u]
    BY <1>3 DEF Receive, Goto, TypeOK, Thread
  <2>3. QED
    BY <2>1, <2>2 DEF StoresReceived
<1>4. ASSUME NEW t \in Thread, NEW label, label # "store", Goto(t, label), seen' = seen
      PROVE  StoresReceived'
  BY <1>4 DEF Goto, StoresReceived, TypeOK, Thread
<1>5. ASSUME NEW v \in Remote, Store(v) PROVE StoresReceived'
  BY <1>1, <1>4, <1>5 DEF Store, ConcurrentMapWrite, Thread
<1>6. ASSUME NEW t \in Thread, Aggregate(t) PROVE StoresReceived'
  BY <1>4, <1>6 DEF Aggregate, AggBegin, AggCount, AggStatus, AggPublish, netVars
<1>7. CASE UNCHANGED vars
  BY <1>7 DEF vars, netVars, StoresReceived
<1>8. QED
  BY <1>2, <1>3, <1>5, <1>6, <1>7 DEF Next, Goroutine, Thread

LEMMA StoredFacts ==
  /\ IsFiniteSet(Stored) /\ Cardinality(Stored) \in Nat
  /\ Cardinality(WithMeta) \in Nat /\ Cardinality(WithMeta) <= Cardinality(Stored)
<1>1. Stored \subseteq Validator /\ WithMeta \subseteq Stored
  BY DEF Stored, WithMeta
<1>2. QED
  BY <1>1, StoredCount, FS_Subset, FS_CardinalityType

LEMMA NothingStored ==
  ASSUME batches = [v \in Validator |-> 0]
  PROVE  Cardinality(WithMeta) = 0
<1>1. WithMeta = {}
  BY DEF WithMeta, Stored
<1>2. QED
  BY <1>1, FS_EmptySet

LEMMA InitQuorum == Init => TotalsInRange /\ CountPending
BY NothingStored, BoundAssumption DEF Init, TotalsInRange, CountPending

LEMMA CrashQuorum ==
  ASSUME NEW reason, Crash(reason)
  PROVE  TotalsInRange' /\ CountPending'
<1>1. (batches = [v \in Validator |-> 0] => Cardinality(WithMeta) = 0)'
  BY NothingStored, PTL
<1>2. QED
  BY <1>1, BoundAssumption DEF Crash, TotalsInRange, CountPending

(* A store adds to what is stored, and to what is counted only if it is    *)
(* another validator's batch.                                              *)
LEMMA StoreGrows ==
  ASSUME TypeOK, NEW v \in Validator, NEW k \in 1 .. 2, StoreValidatorBatch(v, k)
  PROVE  /\ Cardinality(Stored) \in Nat /\ Cardinality(Stored') \in Nat
         /\ Cardinality(Stored) <= Cardinality(Stored')
         /\ v = Self => WithMeta' = WithMeta
<1>1. Stored' = Stored \cup {v}
  BY DEF Stored, StoreValidatorBatch, TypeOK
<1>2. IsFiniteSet(Stored \cup {v})
  BY StoredFacts, FS_AddElement
<1>3. Cardinality(Stored) <= Cardinality(Stored')
  BY <1>1, <1>2, FS_Subset
<1>4. Cardinality(Stored') \in Nat
  BY <1>1, <1>2, FS_CardinalityType
<1>5. v = Self => WithMeta' = WithMeta
  BY <1>1, ValidatorAssumption DEF WithMeta
<1>6. QED
  BY <1>3, <1>4, <1>5, StoredFacts

LEMMA AggregateQuorum ==
  ASSUME QInv, NEW t \in Thread, Aggregate(t)
  PROVE  TotalsInRange' /\ CountPending'
<1>1. UNCHANGED <<batches, loaded>>
  BY DEF Aggregate, AggBegin, AggCount, AggStatus, AggPublish, netVars
<1>2. Stored' = Stored /\ WithMeta' = WithMeta
  BY <1>1 DEF Stored, WithMeta
<1>3. /\ Cardinality(Stored) \in Nat /\ Cardinality(WithMeta) \in Nat
      /\ Cardinality(WithMeta) <= Cardinality(Stored) /\ MinValidators \in Nat
  BY StoredFacts, BoundAssumption
<1>4. CASE AggBegin(t)
  <2>1. status' = status /\ pc' \in [Thread -> {"idle", "store", "begin", "count", "status", "publish"}]
    BY <1>4 DEF AggBegin, Goto, outVars, QInv, TypeOK
  <2>2. CASE Cardinality(Stored) < MinValidators
    <3>1. pc' = [pc EXCEPT ![t] = "idle"] /\ view' = view
      BY <1>4, <2>2 DEF AggBegin, Goto
    <3>2. TotalsInRange'
      BY <1>2, <2>1, <3>1 DEF TotalsInRange, QInv, TypeOK
    <3>3. QED
      BY <1>2, <1>3, <2>2, <3>2 DEF CountPending
  <2>3. CASE ~(Cardinality(Stored) < MinValidators)
    <3>1. /\ pc' = [pc EXCEPT ![t] = "count"]
          /\ view' = [view EXCEPT ![t].total = Cardinality(Stored)]
      BY <1>4, <2>3 DEF AggBegin, Goto
    <3>2. /\ pc'[t] = "count" /\ view'[t].total = Cardinality(Stored)
          /\ \A u \in Thread \ {t} : pc'[u] = pc[u] /\ view'[u] = view[u]
      BY <3>1 DEF QInv, TypeOK, ViewRecord
    <3>3. TotalsInRange'
      BY <1>2, <1>3, <2>1, <2>3, <3>2 DEF TotalsInRange, QInv
    <3>4. QED
      BY <3>2, <3>3 DEF CountPending
  <2>4. QED
    BY <2>2, <2>3
<1>5. CASE AggCount(t)
  <2>1. /\ pc[t] = "count" /\ pc'[t] = "status" /\ status' = status
        /\ \A u \in Thread : view'[u].total = view[u].total
        /\ \A u \in Thread \ {t} : pc'[u] = pc[u]
    BY <1>5 DEF AggCount, Goto, outVars, QInv, TypeOK, ViewRecord
  <2>2. TotalsInRange'
    BY <1>2, <2>1 DEF TotalsInRange, QInv
  <2>3. QED
    BY <2>1, <2>2 DEF CountPending
<1>6. CASE AggStatus(t)
  <2>1. view[t] \in ViewRecord
    BY DEF QInv, TypeOK
  <2>2. /\ view[t].total \in Nat
        /\ view[t].named \in SUBSET Remote /\ view[t].voters \in SUBSET Remote
    BY <2>1, StoredCount DEF ViewRecord
  <2>3. status' \in StatusRecord /\ status'.total = view[t].total
    BY <1>6, <2>2, TallyType DEF AggStatus, StatusRecord
  <2>4. /\ pc[t] = "status" /\ pc'[t] = "publish"
        /\ \A u \in Thread \ {t} : pc'[u] = pc[u] /\ view'[u] = view[u]
    BY <1>6 DEF AggStatus, Goto, QInv, TypeOK
  <2>5. TotalsInRange'
    BY <1>2, <2>3, <2>4 DEF TotalsInRange, QInv
  <2>6. QED
    BY <2>3, <2>5, NoneAssumption DEF CountPending
<1>7. ASSUME NEW ok \in BOOLEAN, AggPublish(t, ok)
      PROVE  TotalsInRange' /\ CountPending'
  <2>1. /\ pc[t] = "publish" /\ pc'[t] = "idle" /\ status' = status
        /\ \A u \in Thread \ {t} : pc'[u] = pc[u] /\ view'[u] = view[u]
    BY <1>7 DEF AggPublish, Goto, QInv, TypeOK
  <2>2. TotalsInRange'
    BY <1>2, <2>1 DEF TotalsInRange, QInv
  <2>3. CountPending'
    BY <1>2, <2>1, ValidatorAssumption DEF CountPending, QInv, Thread
  <2>4. QED
    BY <2>2, <2>3
<1>8. QED
  BY <1>4, <1>5, <1>6, <1>7 DEF Aggregate

LEMMA StepQuorum == QInv /\ [Next]_vars => TotalsInRange' /\ CountPending'
<1> SUFFICES ASSUME QInv, [Next]_vars PROVE TotalsInRange' /\ CountPending'
  OBVIOUS
<1>1. ASSUME ConcurrentMapWrite \/ ReceiveForeign
      PROVE  TotalsInRange' /\ CountPending'
  BY <1>1, CrashQuorum DEF ConcurrentMapWrite, ReceiveForeign
<1>2. ASSUME StoreValidatorBatch(Self, 1),
             UNCHANGED <<content, pc, seen, fetch, loaded, visits, view, outVars, crashed>>
      PROVE  TotalsInRange' /\ CountPending'
  <2>1. /\ Cardinality(Stored) \in Nat /\ Cardinality(Stored') \in Nat
        /\ Cardinality(Stored) <= Cardinality(Stored') /\ WithMeta' = WithMeta
    BY <1>2, StoreGrows DEF QInv, Validator
  <2>2. UNCHANGED <<pc, view, status>>
    BY <1>2 DEF outVars
  <2>3. TotalsInRange'
    BY <2>1, <2>2, BoundAssumption DEF TotalsInRange, QInv
  <2>4. QED
    BY <2>1, <2>2, <2>3 DEF CountPending, QInv
<1>3. CASE Broadcast
  BY <1>1, <1>2, <1>3 DEF Broadcast
<1>4. ASSUME NEW v \in Remote, Receive(v)
      PROVE  TotalsInRange' /\ CountPending'
  <2>1. /\ pc[v] = "idle" /\ pc'[v] = "store" /\ UNCHANGED <<batches, view, status>>
        /\ \A u \in Thread \ {v} : pc'[u] = pc[u]
    BY <1>4 DEF Receive, Goto, outVars, QInv, TypeOK, Thread
  <2>2. Stored' = Stored /\ WithMeta' = WithMeta
    BY <2>1 DEF Stored, WithMeta
  <2>3. TotalsInRange'
    BY <2>1, <2>2 DEF TotalsInRange, QInv
  <2>4. CountPending'
    BY <2>1, <2>2 DEF CountPending, QInv, Thread
  <2>5. QED
    BY <2>3, <2>4
<1>5. ASSUME NEW v \in Remote, Store(v)
      PROVE  TotalsInRange' /\ CountPending'
  <2>1. CASE StoreValidatorBatch(v, seen[v]) /\ Goto(v, "begin")
             /\ UNCHANGED <<view, outVars>>
    <3>1. seen[v] \in 1 .. 2
      BY <1>5 DEF Store, QInv, StoresReceived
    <3>2. /\ Cardinality(Stored) \in Nat /\ Cardinality(Stored') \in Nat
          /\ Cardinality(Stored) <= Cardinality(Stored')
      BY <2>1, <3>1, StoreGrows DEF QInv, Validator
    <3>3. pc'[v] = "begin" /\ \A u \in Thread \ {v} : pc'[u] = pc[u]
      BY <2>1 DEF Goto, QInv, TypeOK, Thread
    <3>4. TotalsInRange'
      BY <2>1, <3>2, <3>3, BoundAssumption DEF TotalsInRange, QInv, outVars
    <3>5. QED
      BY <3>3, <3>4 DEF CountPending
  <2>2. QED
    BY <1>1, <1>5, <2>1 DEF Store
<1>6. ASSUME UNCHANGED <<batches, pc, view, outVars>>
      PROVE  TotalsInRange' /\ CountPending'
  <2>1. Stored' = Stored /\ WithMeta' = WithMeta
    BY <1>6 DEF Stored, WithMeta
  <2>2. QED
    BY <1>6, <2>1 DEF TotalsInRange, CountPending, QInv, outVars
<1>7. CASE (\E m \in Message : FetchBatch(m[1], m[2])) \/ UNCHANGED vars
  BY <1>6, <1>7 DEF FetchBatch, vars, netVars
<1>8. Ticker \in Thread /\ Remote \subseteq Thread
  BY DEF Thread
<1>9. QED
  BY <1>1, <1>3, <1>4, <1>5, <1>7, <1>8, AggregateQuorum DEF Next, Goroutine

(* Whatever the order of deliveries, stores, counts and crashes, a quorum  *)
(* of other validators' batches has a status once the goroutines are       *)
(* through, whether or not the ticker ever visits the epoch.               *)
THEOREM QuorumAlwaysCounted == Spec => []QuorumCounted
<1>1. Init => QInv
  BY InitType, InitQuorum DEF QInv, Init, StoresReceived, Thread
<1>2. QInv /\ [Next]_vars => QInv'
  BY StepType, StepQuorum, StepReceived DEF QInv
<1>3. QInv => QuorumCounted
  <2> SUFFICES ASSUME QInv, \A t \in Thread : pc[t] = "idle",
                      Cardinality(WithMeta) >= MinValidators
               PROVE  /\ status # None
                      /\ status.total \in MinValidators .. Cardinality(Stored)
    BY DEF QuorumCounted
  <2>1. status # None
    BY StoredFacts, BoundAssumption DEF QInv, CountPending, Thread
  <2>2. QED
    BY <2>1 DEF QInv, TotalsInRange
<1>4. QED
  BY <1>1, <1>2, <1>3, PTL DEF Spec

=============================================================================
