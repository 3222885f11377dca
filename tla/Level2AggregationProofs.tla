---------------------- MODULE Level2AggregationProofs -----------------------
(***************************************************************************)
(* Proofs about Level2Aggregation, for any epochs, any finite set of other *)
(* validators and any number of deliveries, stream losses and faults.      *)
(***************************************************************************)
EXTENDS Level2Aggregation, FiniteSetTheorems, TLAPS

-----------------------------------------------------------------------------
(* The steps by actor, and what those of each actor leave alone.           *)

GatewayStep ==
  \/ \E e \in Epoch, v \in Remote : EnsureStream(e, v)
  \/ Notify \/ NotifyFails \/ StoreBatch \/ AddValidator
  \/ PipelineFails \/ GatewayCrash
StreamStep == MonitorStreamHealth \/ TrimStream \/ StreamLost
ReadStep ==
  \/ ReadStream \/ ClaimStalled
  \/ \E r \in Reader : CheckAggregated(r) \/ CheckFails(r)
EpochStep(e) ==
  \/ TimerStep(e) \/ AggregateFails(e) \/ ReadOwnFails(e) \/ ReadMembersFails(e)
  \/ \E v \in Remote : MergeFails(e, v)

LEMMA NextCases ==
  ASSUME [Next]_vars
  PROVE  \/ GatewayStep \/ StreamStep \/ ReadStep
         \/ \E r \in Reader : StartWindow(r)
         \/ \E e \in Epoch : Level1Writes(e) \/ EpochStep(e)
         \/ AggregatorCrash \/ UNCHANGED vars
BY DEF Next, FaultStep, ReaderStep, GatewayStep, StreamStep, ReadStep, EpochStep

LEMMA GatewayFrame ==
  ASSUME GatewayStep
  PROVE  UNCHANGED <<trimmed, pending, losses, readVars, timerVars, localVars,
                     aggregated, histVars>>
BY DEF GatewayStep, EnsureStream, Notify, NotifyFails, StoreBatch, AddValidator,
       PipelineFails, GatewayCrash, streamVars

LEMMA StreamFrame ==
  ASSUME StreamStep
  PROVE  UNCHANGED <<netVars, gwVars, storeVars, stream, readVars, timerVars,
                     localVars, aggregated, faults, histVars>>
BY DEF StreamStep, MonitorStreamHealth, TrimStream, StreamLost

LEMMA ReadFrame ==
  ASSUME ReadStep
  PROVE  UNCHANGED <<netVars, gwVars, storeVars, stream, trimmed, group, losses,
                     timerVars, localVars, aggregated, histVars>>
BY DEF ReadStep, ReadStream, ClaimStalled, CheckAggregated, CheckFails, streamVars

LEMMA EpochFrame ==
  ASSUME NEW e \in Epoch, EpochStep(e)
  PROVE  UNCHANGED <<netVars, gwVars, validators, streamVars, readVars, level1Done>>
BY DEF EpochStep, TimerStep, Expire, ReadOwn, ReadMembers, MergeIncoming,
       StoreAggregated, DeleteSources, RemoveTimer, AggregateFails, ReadOwnFails,
       ReadMembersFails, MergeFails, storeVars, localVars

-----------------------------------------------------------------------------
(* Sequences and counts.                                                   *)

LEMMA SeqOf ==
  ASSUME NEW n \in Nat, NEW S, NEW f \in [1 .. n -> S]
  PROVE  f \in Seq(S) /\ Len(f) = n
OBVIOUS

LEMMA SeqGrows ==
  ASSUME NEW S, NEW T, S \subseteq T, NEW s \in Seq(S)
  PROVE  s \in Seq(T)
OBVIOUS

LEMMA QueueFacts ==
  ASSUME NEW S, NEW s \in Seq(S), s # <<>>
  PROVE  /\ Head(s) \in S /\ Tail(s) \in Seq(S)
         /\ Len(s) = 1 <=> Tail(s) = <<>>
<1>1. Head(s) \in S /\ Tail(s) \in Seq(S) /\ Len(Tail(s)) = Len(s) - 1
      /\ Len(s) \in Nat
  OBVIOUS
<1>2. ASSUME NEW r \in Seq(S) PROVE Len(r) = 0 <=> r = <<>>
  OBVIOUS
<1>3. Len(s) = 1 <=> Len(Tail(s)) = 0
  BY <1>1
<1>4. QED
  BY <1>1, <1>2, <1>3

LEMMA CountType ==
  ASSUME NEW S \in SUBSET (Remote \cup {Self})
  PROVE  IsFiniteSet(S) /\ ValidatorCount(S) \in Nat
<1>1. IsFiniteSet(Remote \cup {Self})
  BY SelfAssumption, FS_Singleton, FS_Union
<1>2. IsFiniteSet(S)
  BY <1>1, FS_Subset
<1>3. IsFiniteSet(S \cup {Anonymous})
  BY <1>2, FS_Singleton, FS_Union
<1>4. {ViewKey(v) : v \in S} \subseteq S \cup {Anonymous}
  BY DEF ViewKey
<1>5. IsFiniteSet({ViewKey(v) : v \in S})
  BY <1>3, <1>4, FS_Subset
<1>6. QED
  BY <1>2, <1>5, FS_CardinalityType DEF ValidatorCount

-----------------------------------------------------------------------------
(* Type correctness.                                                       *)

(* Only a merging goroutine has keys left to read.                         *)
TodoInMerge == \A e \in Epoch : window[e] # "merge" => todo[e] = {}

TypeInv == TypeOK /\ TodoInMerge

LEMMA InitType == Init => TypeInv
<1> SUFFICES ASSUME Init PROVE TypeInv
  OBVIOUS
<1> USE BoundAssumption, EpochAssumption
<1>1. GatewayTypes
  BY DEF Init, GatewayTypes, NoMessage, Message
<1>2. StreamTypes /\ ReaderTypes
  BY DEF Init, StreamTypes, ReaderTypes
<1>3. TimerTypes /\ TodoInMerge
  BY DEF Init, TimerTypes, TodoInMerge
<1>4. FlagTypes
  BY DEF Init, FlagTypes
<1>5. ResultTypes
  BY DEF Init, ResultTypes, NoBatch
<1>6. QED
  BY <1>1, <1>2, <1>3, <1>4, <1>5 DEF TypeInv, TypeOK

LEMMA StepGatewayTypes == TypeInv /\ [Next]_vars => GatewayTypes'
<1> SUFFICES ASSUME TypeInv, [Next]_vars PROVE GatewayTypes'
  OBVIOUS
<1> USE BoundAssumption
    DEF TypeInv, TypeOK, GatewayTypes, Fault, GwGoto, netVars, gwVars, storeVars
<1>1. CASE GatewayStep
  BY <1>1 DEF GatewayStep, EnsureStream, Notify, NotifyFails, StoreBatch,
              AddValidator, PipelineFails, GatewayCrash, Message
<1>2. CASE StreamStep
  BY <1>2, StreamFrame
<1>3. CASE ReadStep
  BY <1>3 DEF ReadStep, ReadStream, ClaimStalled, CheckAggregated, CheckFails
<1>4. CASE AggregatorCrash \/ (\E r \in Reader : StartWindow(r))
           \/ (\E e \in Epoch : Level1Writes(e)) \/ UNCHANGED vars
  BY <1>4 DEF AggregatorCrash, StartWindow, Level1Writes, vars
<1>5. ASSUME NEW e \in Epoch, EpochStep(e) PROVE GatewayTypes'
  BY <1>5 DEF EpochStep, TimerStep, Expire, ReadOwn, ReadMembers, MergeIncoming,
              StoreAggregated, DeleteSources, RemoveTimer, AggregateFails,
              ReadOwnFails, ReadMembersFails, MergeFails
<1>6. QED
  BY <1>1, <1>2, <1>3, <1>4, <1>5, NextCases

(* The entries XREADGROUP delivers.                                        *)
LEMMA ReadRange ==
  ASSUME StreamTypes, Larger(lastRead, trimmed) < Len(stream)
  PROVE  LET first == Larger(lastRead, trimmed)
             n == Smaller(ReadCount, Len(stream) - first)
         IN  /\ Len(stream) \in Nat /\ first \in Nat
             /\ first >= lastRead /\ first < Len(stream)
             /\ n \in Nat \ {0} /\ first + n <= Len(stream)
<1>1. Len(stream) \in Nat /\ lastRead \in 0 .. Len(stream) /\ trimmed \in 0 .. Len(stream)
  BY DEF StreamTypes
<1>2. ReadCount \in Nat \ {0}
  BY BoundAssumption
<1> DEFINE first == Larger(lastRead, trimmed)
           rest == Len(stream) - first
<1>3. first \in Nat /\ first >= lastRead
  BY <1>1 DEF Larger
<1> HIDE DEF first
<1>4. rest \in Nat \ {0} /\ first + rest = Len(stream) /\ first < Len(stream)
  BY <1>1, <1>3 DEF first
<1> HIDE DEF rest
<1>5. Smaller(ReadCount, rest) \in Nat \ {0} /\ Smaller(ReadCount, rest) <= rest
  BY <1>2, <1>4 DEF Smaller
<1>6. first + Smaller(ReadCount, rest) <= Len(stream)
  BY <1>1, <1>3, <1>4, <1>5
<1>7. QED
  BY <1>1, <1>3, <1>4, <1>5, <1>6 DEF first, rest

LEMMA StepStreamTypes == TypeInv /\ [Next]_vars => StreamTypes'
<1> SUFFICES ASSUME TypeInv, [Next]_vars PROVE StreamTypes'
  OBVIOUS
<1> USE BoundAssumption DEF TypeInv, TypeOK, StreamTypes, CreateGroup, streamVars
<1>1. CASE GatewayStep
  <2>1. gwMsg.epoch \in Epoch
    BY DEF GatewayTypes, Message
  <2>2. CASE Notify
    BY <2>1, <2>2 DEF Notify
  <2>3. CASE ~Notify
    BY <1>1, <2>3 DEF GatewayStep, EnsureStream, NotifyFails, StoreBatch,
                      AddValidator, PipelineFails, GatewayCrash
  <2>4. QED
    BY <2>2, <2>3
<1>2. CASE MonitorStreamHealth \/ StreamLost
  <2>1. Len(stream) \in Nat
    OBVIOUS
  <2>2. CASE MonitorStreamHealth
    BY <2>2 DEF MonitorStreamHealth
  <2>3. CASE StreamLost
    BY <2>1, <2>3 DEF StreamLost
  <2>4. QED
    BY <1>2, <2>2, <2>3
<1>3. CASE TrimStream
  BY <1>3 DEF TrimStream
<1>4. CASE ReadStream
  <2> DEFINE first == Larger(lastRead, trimmed)
             n == Smaller(ReadCount, Len(stream) - first)
  <2>1. /\ first \in Nat /\ first >= lastRead /\ first < Len(stream)
        /\ n \in Nat \ {0} /\ first + n <= Len(stream)
    BY <1>4, ReadRange DEF ReadStream
  <2>2. pending' = pending \cup (first + 1 .. first + n) /\ lastRead' = first + n
    BY <1>4 DEF ReadStream, Deliver
  <2> HIDE DEF first, n
  <2>3. pending' \subseteq 1 .. lastRead' /\ lastRead' \in 0 .. Len(stream)
    BY <2>1, <2>2
  <2>4. QED
    BY <1>4, <2>3 DEF ReadStream
<1>5. CASE ClaimStalled \/ \E r \in Reader : CheckAggregated(r) \/ CheckFails(r)
  BY <1>5 DEF ClaimStalled, CheckAggregated, CheckFails
<1>6. CASE AggregatorCrash \/ (\E r \in Reader : StartWindow(r))
           \/ (\E e \in Epoch : Level1Writes(e)) \/ UNCHANGED vars
  BY <1>6 DEF AggregatorCrash, StartWindow, Level1Writes, vars
<1>7. CASE \E e \in Epoch : EpochStep(e)
  BY <1>7, EpochFrame
<1>8. QED
  BY <1>1, <1>2, <1>3, <1>4, <1>5, <1>6, <1>7, NextCases DEF StreamStep, ReadStep

LEMMA StepReaderTypes == TypeInv /\ [Next]_vars => ReaderTypes'
<1> SUFFICES ASSUME TypeInv, [Next]_vars PROVE ReaderTypes'
  OBVIOUS
<1> USE DEF TypeInv, TypeOK, ReaderTypes, readVars
<1>1. ASSUME NEW r \in Reader, NextEntry(r), readPc[r] # "idle", stream' = stream
      PROVE  ReaderTypes'
  <2>1. readQueue[r] \in Seq(1 .. Len(stream)) /\ readQueue[r] # <<>>
    BY <1>1
  <2>2. /\ Tail(readQueue[r]) \in Seq(1 .. Len(stream))
        /\ Len(readQueue[r]) = 1 <=> Tail(readQueue[r]) = <<>>
    BY <2>1, QueueFacts
  <2>3. QED
    BY <1>1, <2>2 DEF NextEntry
<1>2. CASE ReadStream
  <2> DEFINE first == Larger(lastRead, trimmed)
             n == Smaller(ReadCount, Len(stream) - first)
             entries == [i \in 1 .. n |-> first + i]
  <2>1. /\ first \in Nat /\ first < Len(stream)
        /\ n \in Nat \ {0} /\ first + n <= Len(stream) /\ Len(stream) \in Nat
    BY <1>2, ReadRange DEF ReadStream
  <2>2. /\ readQueue' = [readQueue EXCEPT !["consumer"] = entries]
        /\ readPc' = [readPc EXCEPT !["consumer"] = "check"] /\ stream' = stream
    BY <1>2 DEF ReadStream, Deliver
  <2> HIDE DEF first, n
  <2>3. entries \in [1 .. n -> 1 .. Len(stream)]
    BY <2>1
  <2>4. entries \in Seq(1 .. Len(stream)) /\ Len(entries) = n
    BY <2>1, <2>3, SeqOf
  <2>5. entries # <<>>
    BY <2>1, <2>4
  <2> HIDE DEF entries
  <2>6. QED
    BY <2>2, <2>4, <2>5
<1>3. CASE ClaimStalled
  <2>1. PICK i \in pending :
          IF i > trimmed
            THEN /\ readQueue' = [readQueue EXCEPT !["claimer"] = <<i>>]
                 /\ readPc' = [readPc EXCEPT !["claimer"] = "check"]
            ELSE UNCHANGED readVars
    BY <1>3 DEF ClaimStalled
  <2>2. <<i>> \in Seq(1 .. Len(stream)) /\ <<i>> # <<>>
    BY DEF StreamTypes
  <2>3. QED
    BY <1>3, <2>1, <2>2 DEF ClaimStalled
<1>4. ASSUME NEW r \in Reader, CheckAggregated(r) PROVE ReaderTypes'
  BY <1>1, <1>4 DEF CheckAggregated, streamVars
<1>5. ASSUME NEW r \in Reader, CheckFails(r) \/ StartWindow(r) PROVE ReaderTypes'
  BY <1>1, <1>5 DEF CheckFails, StartWindow, streamVars
<1>6. CASE GatewayStep
  <2>1. UNCHANGED readVars
    BY <1>6, GatewayFrame
  <2>2. stream' = stream \/ \E e \in Epoch : stream' = Append(stream, e)
    BY <1>6 DEF GatewayStep, EnsureStream, Notify, NotifyFails, StoreBatch,
                AddValidator, PipelineFails, GatewayCrash, streamVars,
                GatewayTypes, Message
  <2>3. 1 .. Len(stream) \subseteq 1 .. Len(stream')
    BY <2>2 DEF StreamTypes
  <2>4. \A r \in Reader : readQueue[r] \in Seq(1 .. Len(stream'))
    BY <2>3, SeqGrows
  <2>5. QED
    BY <2>1, <2>4
<1>7. CASE AggregatorCrash
  BY <1>7 DEF AggregatorCrash
<1>8. CASE StreamStep \/ (\E e \in Epoch : Level1Writes(e) \/ EpochStep(e))
           \/ UNCHANGED vars
  BY <1>8, StreamFrame, EpochFrame DEF Level1Writes, streamVars, vars
<1>9. QED
  BY <1>2, <1>3, <1>4, <1>5, <1>6, <1>7, <1>8, NextCases DEF ReadStep

LEMMA StepTimerTypes == TypeInv /\ [Next]_vars => TimerTypes' /\ TodoInMerge'
<1> SUFFICES ASSUME TypeInv, [Next]_vars PROVE TimerTypes' /\ TodoInMerge'
  OBVIOUS
<1> USE DEF TypeInv, TypeOK, TimerTypes, TodoInMerge, timerVars, WinGoto
<1>1. ASSUME NEW e \in Epoch, EpochStep(e) PROVE TimerTypes' /\ TodoInMerge'
  <2>1. CASE Expire(e) \/ ReadOwn(e) \/ ReadOwnFails(e) \/ DeleteSources(e)
    BY <2>1 DEF Expire, ReadOwn, ReadOwnFails, DeleteSources
  <2>2. CASE ReadMembers(e) \/ ReadMembersFails(e)
    BY <2>2 DEF ReadMembers, ReadMembersFails, GatewayTypes
  <2>3. ASSUME NEW v \in Remote, MergeIncoming(e, v) \/ MergeFails(e, v)
        PROVE  TimerTypes' /\ TodoInMerge'
    BY <2>3 DEF MergeIncoming, MergeFails
  <2>4. CASE StoreAggregated(e) \/ AggregateFails(e)
    BY <2>4 DEF StoreAggregated, AggregateFails
  <2>5. CASE RemoveTimer(e)
    BY <2>5 DEF RemoveTimer
  <2>6. QED
    BY <1>1, <2>1, <2>2, <2>3, <2>4, <2>5 DEF EpochStep, TimerStep
<1>2. ASSUME NEW r \in Reader, StartWindow(r) PROVE TimerTypes' /\ TodoInMerge'
  BY <1>2 DEF StartWindow
<1>3. CASE AggregatorCrash
  BY <1>3 DEF AggregatorCrash
<1>4. CASE GatewayStep \/ StreamStep \/ ReadStep
           \/ (\E e \in Epoch : Level1Writes(e)) \/ UNCHANGED vars
  BY <1>4, GatewayFrame, StreamFrame, ReadFrame DEF Level1Writes, vars
<1>5. QED
  BY <1>1, <1>2, <1>3, <1>4, NextCases

LEMMA StepFlagTypes == TypeInv /\ [Next]_vars => FlagTypes'
<1> SUFFICES ASSUME TypeInv, [Next]_vars PROVE FlagTypes'
  OBVIOUS
<1> USE DEF TypeInv, TypeOK, FlagTypes, timerVars, localVars
<1>1. ASSUME NEW e \in Epoch, EpochStep(e) PROVE FlagTypes'
  BY <1>1 DEF EpochStep, TimerStep, Expire, ReadOwn, ReadMembers, MergeIncoming,
              StoreAggregated, DeleteSources, RemoveTimer, AggregateFails,
              ReadOwnFails, ReadMembersFails, MergeFails
<1>2. ASSUME NEW e \in Epoch, Level1Writes(e) PROVE FlagTypes'
  BY <1>2 DEF Level1Writes
<1>3. CASE (\E r \in Reader : StartWindow(r)) \/ AggregatorCrash
  BY <1>3 DEF StartWindow, AggregatorCrash
<1>4. CASE GatewayStep \/ StreamStep \/ ReadStep \/ UNCHANGED vars
  BY <1>4, GatewayFrame, StreamFrame, ReadFrame DEF vars
<1>5. QED
  BY <1>1, <1>2, <1>3, <1>4, NextCases

LEMMA StepResultTypes == TypeInv /\ [Next]_vars => ResultTypes'
<1> SUFFICES ASSUME TypeInv, [Next]_vars PROVE ResultTypes'
  OBVIOUS
<1> USE DEF TypeInv, TypeOK, ResultTypes, histVars
<1>1. ASSUME NEW e \in Epoch, EpochStep(e) PROVE ResultTypes'
  <2>1. CASE StoreAggregated(e)
    <3>1. merged[e] \in SUBSET (Remote \cup {Self})
      BY DEF TimerTypes
    <3>2. ValidatorCount(merged[e]) \in Nat
      BY <3>1, CountType
    <3>3. QED
      BY <2>1, <3>1, <3>2 DEF StoreAggregated
  <2>2. CASE DeleteSources(e)
    BY <2>2 DEF DeleteSources, GatewayTypes
  <2>3. ASSUME NEW v \in Remote, MergeFails(e, v) PROVE ResultTypes'
    BY <2>3 DEF MergeFails
  <2>4. CASE ~(StoreAggregated(e) \/ DeleteSources(e) \/ \E v \in Remote : MergeFails(e, v))
    BY <1>1, <2>4 DEF EpochStep, TimerStep, Expire, ReadOwn, ReadMembers,
                      MergeIncoming, RemoveTimer, AggregateFails, ReadOwnFails,
                      ReadMembersFails
  <2>5. QED
    BY <2>1, <2>2, <2>3, <2>4
<1>2. CASE (\E e \in Epoch : Level1Writes(e)) \/ (\E r \in Reader : StartWindow(r))
           \/ AggregatorCrash
  BY <1>2 DEF Level1Writes, StartWindow, AggregatorCrash
<1>3. CASE GatewayStep \/ StreamStep \/ ReadStep \/ UNCHANGED vars
  BY <1>3, GatewayFrame, StreamFrame, ReadFrame DEF vars
<1>4. QED
  BY <1>1, <1>2, <1>3, NextCases

LEMMA TypeInductive == Spec => []TypeInv
<1>1. TypeInv /\ [Next]_vars => TypeInv'
  BY StepGatewayTypes, StepStreamTypes, StepReaderTypes, StepTimerTypes,
     StepFlagTypes, StepResultTypes DEF TypeInv, TypeOK
<1>2. QED
  BY <1>1, InitType, PTL DEF Spec

(* The variables have their types; a queued entry is one of the stream and *)
(* a pending one was delivered to the consumer group.                      *)
THEOREM TypeCorrect == Spec => []TypeOK
<1>1. TypeInv => TypeOK
  BY DEF TypeInv
<1>2. QED
  BY <1>1, TypeInductive, PTL

-----------------------------------------------------------------------------
(* The aggregated batch is written once.                                   *)

(* A goroutine past its EXISTS has found no batch, and no other goroutine  *)
(* of the epoch can write one: the batch is absent until it does.          *)
Unwritten ==
  \A e \in Epoch : window[e] \in {"own", "members", "merge"} => aggregated[e] = NoBatch
WrittenBefore ==
  \A e \in Epoch : window[e] = "delete" => aggregated[e] # NoBatch
WritesCounted ==
  \A e \in Epoch : writes[e] = IF aggregated[e] = NoBatch THEN 0 ELSE 1

OnceInv == TypeInv /\ Unwritten /\ WrittenBefore /\ WritesCounted

LEMMA InitOnce == Init => OnceInv
<1>1. Init => Unwritten /\ WrittenBefore /\ WritesCounted
  BY DEF Init, Unwritten, WrittenBefore, WritesCounted
<1>2. QED
  BY <1>1, InitType DEF OnceInv

LEMMA StepOnce == OnceInv /\ [Next]_vars => Unwritten' /\ WrittenBefore' /\ WritesCounted'
<1> SUFFICES ASSUME OnceInv, [Next]_vars PROVE Unwritten' /\ WrittenBefore' /\ WritesCounted'
  OBVIOUS
<1> USE DEF OnceInv, TypeInv, TypeOK, TimerTypes, ResultTypes, Unwritten,
            WrittenBefore, WritesCounted, timerVars, histVars
<1>1. ASSUME NEW e \in Epoch, EpochStep(e) PROVE Unwritten' /\ WrittenBefore' /\ WritesCounted'
  <2>1. CASE StoreAggregated(e)
    <3> DEFINE new == [from |-> merged[e], count |-> ValidatorCount(merged[e])]
    <3>1. ValidatorCount(merged[e]) \in Nat
      BY CountType
    <3>2. new.count # NoBatch.count
      BY <3>1 DEF NoBatch
    <3>3. new # NoBatch
      BY <3>2
    <3> HIDE DEF new
    <3>4. /\ aggregated' = [aggregated EXCEPT ![e] = new]
          /\ writes' = [writes EXCEPT ![e] = @ + 1]
          /\ window' = [window EXCEPT ![e] = "delete"]
          /\ aggregated[e] = NoBatch
      BY <2>1 DEF StoreAggregated, WinGoto, new
    <3>5. QED
      BY <3>3, <3>4
  <2>2. CASE ~StoreAggregated(e)
    <3>1. UNCHANGED <<aggregated, writes>>
      BY <1>1, <2>2
         DEF EpochStep, TimerStep, Expire, ReadOwn, ReadMembers, MergeIncoming,
             DeleteSources, RemoveTimer, AggregateFails, ReadOwnFails,
             ReadMembersFails, MergeFails
    <3>2. /\ \A d \in Epoch \ {e} : window'[d] = window[d]
          /\ window'[e] \in {"own", "members", "merge"} => aggregated[e] = NoBatch
          /\ window'[e] # "delete"
      BY <1>1, <2>2
         DEF EpochStep, TimerStep, Expire, ReadOwn, ReadMembers, MergeIncoming,
             DeleteSources, RemoveTimer, AggregateFails, ReadOwnFails,
             ReadMembersFails, MergeFails, WinGoto
    <3>3. QED
      BY <3>1, <3>2
  <2>3. QED
    BY <2>1, <2>2
<1>2. ASSUME NEW r \in Reader, StartWindow(r) PROVE Unwritten' /\ WrittenBefore' /\ WritesCounted'
  BY <1>2 DEF StartWindow
<1>3. CASE AggregatorCrash
  BY <1>3 DEF AggregatorCrash
<1>4. CASE GatewayStep \/ StreamStep \/ ReadStep
           \/ (\E e \in Epoch : Level1Writes(e)) \/ UNCHANGED vars
  BY <1>4, GatewayFrame, StreamFrame, ReadFrame DEF Level1Writes, vars
<1>5. QED
  BY <1>1, <1>2, <1>3, <1>4, NextCases

LEMMA OnceInductive == Spec => []OnceInv
<1>1. OnceInv /\ [Next]_vars /\ TypeInv' => OnceInv'
  BY StepOnce DEF OnceInv
<1>2. QED
  BY <1>1, InitOnce, TypeInductive, PTL DEF Spec

(* However readers, claims, crashes and windows of the epoch interleave,   *)
(* aggregated:{epoch} is SET at most once.                                 *)
THEOREM WrittenOnce == Spec => []AggregatedOnce
<1>1. OnceInv => AggregatedOnce
  BY DEF OnceInv, WritesCounted, AggregatedOnce
<1>2. QED
  BY <1>1, OnceInductive, PTL

-----------------------------------------------------------------------------
(* What is deleted was merged.                                             *)

(* Until the epoch is aggregated nothing is deleted, so the batch of every *)
(* member of the validators set is there.                                  *)
MembersStored ==
  /\ \A e \in Epoch : aggregated[e] = NoBatch => validators[e] \subseteq incoming[e]
  /\ gwPc = "sadd" /\ aggregated[gwMsg.epoch] = NoBatch =>
       gwMsg.validator \in incoming[gwMsg.epoch]

(* The keys read are members; those visited are merged or were not read.   *)
KeysMerged ==
  \A e \in Epoch :
    /\ keys[e] \subseteq validators[e]
    /\ window[e] = "merge" => keys[e] \ todo[e] \subseteq merged[e] \cup unread[e]
    /\ window[e] = "delete" => keys[e] \subseteq aggregated[e].from \cup unread[e]

IInv == OnceInv /\ MembersStored /\ KeysMerged /\ RemoteBatchesMerged

LEMMA InitInv == Init => IInv
<1>1. Init => MembersStored /\ KeysMerged /\ RemoteBatchesMerged
  BY DEF Init, MembersStored, KeysMerged, RemoteBatchesMerged
<1>2. QED
  BY <1>1, InitOnce DEF IInv

LEMMA StepMembers == IInv /\ [Next]_vars /\ OnceInv' => MembersStored'
<1> SUFFICES ASSUME IInv, [Next]_vars, OnceInv' PROVE MembersStored'
  OBVIOUS
<1> USE DEF IInv, OnceInv, TypeInv, TypeOK, GatewayTypes, MembersStored,
            gwVars, storeVars
<1>1. gwMsg.epoch \in Epoch /\ gwMsg.validator \in Remote
  BY DEF Message
<1>2. CASE GatewayStep
  <2>1. UNCHANGED aggregated
    BY <1>2, GatewayFrame
  <2>2. CASE StoreBatch
    BY <1>1, <2>1, <2>2 DEF StoreBatch, GwGoto
  <2>3. CASE AddValidator
    BY <1>1, <2>1, <2>3 DEF AddValidator, GwGoto
  <2>4. CASE ~StoreBatch /\ ~AddValidator
    <3>1. UNCHANGED storeVars /\ gwPc' # "sadd"
      BY <1>2, <2>4 DEF GatewayStep, EnsureStream, Notify, NotifyFails,
                        PipelineFails, GatewayCrash, GwGoto
    <3>2. QED
      BY <2>1, <3>1
  <2>5. QED
    BY <2>2, <2>3, <2>4
<1>3. ASSUME NEW e \in Epoch, EpochStep(e) PROVE MembersStored'
  <2>1. CASE DeleteSources(e)
    <3>1. aggregated' = aggregated /\ aggregated[e] # NoBatch
      <4>1. window[e] = "delete" /\ aggregated' = aggregated
        BY <2>1 DEF DeleteSources
      <4>2. QED
        BY <4>1 DEF WrittenBefore
    <3>2. /\ UNCHANGED <<validators, gwVars>>
          /\ \A d \in Epoch \ {e} : incoming'[d] = incoming[d]
      BY <2>1 DEF DeleteSources
    <3>3. QED
      BY <1>1, <3>1, <3>2
  <2>2. CASE ~DeleteSources(e)
    <3>1. UNCHANGED <<storeVars, gwVars>>
      BY <1>3, <2>2 DEF EpochStep, TimerStep, Expire, ReadOwn, ReadMembers,
             MergeIncoming, StoreAggregated, RemoveTimer, AggregateFails,
             ReadOwnFails, ReadMembersFails, MergeFails
    <3>2. \A d \in Epoch : aggregated'[d] = NoBatch => aggregated[d] = NoBatch
      BY <1>3, <2>2 DEF EpochStep, TimerStep, Expire, ReadOwn, ReadMembers,
             MergeIncoming, StoreAggregated, RemoveTimer, AggregateFails,
             ReadOwnFails, ReadMembersFails, MergeFails, Unwritten, ResultTypes
    <3>3. QED
      BY <1>1, <3>1, <3>2
  <2>3. QED
    BY <2>1, <2>2
<1>4. CASE StreamStep \/ ReadStep
  BY <1>4, StreamFrame, ReadFrame
<1>5. CASE (\E e \in Epoch : Level1Writes(e)) \/ (\E r \in Reader : StartWindow(r))
           \/ AggregatorCrash \/ UNCHANGED vars
  BY <1>5 DEF Level1Writes, StartWindow, AggregatorCrash, vars
<1>6. QED
  BY <1>2, <1>3, <1>4, <1>5, NextCases

LEMMA StepKeys == IInv /\ [Next]_vars => KeysMerged' /\ RemoteBatchesMerged'
<1> SUFFICES ASSUME IInv, [Next]_vars PROVE KeysMerged' /\ RemoteBatchesMerged'
  OBVIOUS
<1> USE DEF IInv, OnceInv, TypeInv, TypeOK, GatewayTypes, TimerTypes, ResultTypes,
            KeysMerged, RemoteBatchesMerged, storeVars, timerVars, histVars, WinGoto
<1>1. ASSUME NEW e \in Epoch, EpochStep(e) PROVE KeysMerged' /\ RemoteBatchesMerged'
  <2>1. CASE Expire(e) \/ ReadOwn(e) \/ ReadOwnFails(e) \/ AggregateFails(e)
             \/ RemoveTimer(e)
    BY <2>1 DEF Expire, ReadOwn, ReadOwnFails, AggregateFails, RemoveTimer
  <2>2. CASE ReadMembers(e) \/ ReadMembersFails(e)
    BY <2>2 DEF ReadMembers, ReadMembersFails
  <2>3. ASSUME NEW v \in Remote, MergeIncoming(e, v)
        PROVE  KeysMerged' /\ RemoteBatchesMerged'
    <3>1. v \in incoming[e]
      BY <2>3 DEF MergeIncoming, MembersStored, Unwritten
    <3>2. QED
      BY <2>3, <3>1 DEF MergeIncoming
  <2>4. ASSUME NEW v \in Remote, MergeFails(e, v)
        PROVE  KeysMerged' /\ RemoteBatchesMerged'
    BY <2>4 DEF MergeFails
  <2>5. CASE StoreAggregated(e)
    BY <2>5 DEF StoreAggregated
  <2>6. CASE DeleteSources(e)
    BY <2>6 DEF DeleteSources
  <2>7. QED
    BY <1>1, <2>1, <2>2, <2>3, <2>4, <2>5, <2>6 DEF EpochStep, TimerStep
<1>2. CASE GatewayStep
  <2>1. \A e \in Epoch : validators[e] \subseteq validators'[e]
    BY <1>2 DEF GatewayStep, EnsureStream, Notify, NotifyFails, StoreBatch,
                AddValidator, PipelineFails, GatewayCrash
  <2>2. QED
    BY <1>2, <2>1, GatewayFrame
<1>3. ASSUME NEW r \in Reader, StartWindow(r) PROVE KeysMerged' /\ RemoteBatchesMerged'
  BY <1>3 DEF StartWindow
<1>4. CASE AggregatorCrash
  BY <1>4 DEF AggregatorCrash
<1>5. CASE StreamStep \/ ReadStep \/ (\E e \in Epoch : Level1Writes(e)) \/ UNCHANGED vars
  BY <1>5, StreamFrame, ReadFrame DEF Level1Writes, vars
<1>6. QED
  BY <1>1, <1>2, <1>3, <1>4, <1>5, NextCases

LEMMA Inductive == Spec => []IInv
<1>1. IInv /\ [Next]_vars /\ OnceInv' => IInv'
  BY StepMembers, StepKeys DEF IInv
<1>2. QED
  BY <1>1, InitInv, OnceInductive, PTL DEF Spec

(* No batch of another validator is deleted unmerged, unless its GET       *)
(* failed.                                                                 *)
THEOREM DeletedWereMerged == Spec => []RemoteBatchesMerged
<1>1. IInv => RemoteBatchesMerged
  BY DEF IInv
<1>2. QED
  BY <1>1, Inductive, PTL

=============================================================================
