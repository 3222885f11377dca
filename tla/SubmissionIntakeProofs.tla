----------------------- MODULE SubmissionIntakeProofs -----------------------
(***************************************************************************)
(* Proofs about SubmissionIntake, for any set of messages, any number of   *)
(* listeners, workers, deliveries and failing Redis commands, and any      *)
(* limits of the cache.                                                    *)
(***************************************************************************)
EXTENDS SubmissionIntake, SequenceTheorems, TLAPS

-----------------------------------------------------------------------------
(* Sequences and the cache.                                                *)

Elements(s) == {s[n] : n \in DOMAIN s}

LEMMA SeqFacts ==
  ASSUME NEW S, NEW s \in Seq(S)
  PROVE  /\ \A x \in S : Append(s, x) \in Seq(S)
         /\ s # <<>> => /\ Head(s) \in S /\ Tail(s) \in Seq(S) /\ Len(s) \in Nat \ {0}
                        /\ Len(Tail(s)) = Len(s) - 1
         /\ Len(s) \in Nat /\ DOMAIN s = 1 .. Len(s)
         /\ \A i \in DOMAIN s : s[i] \in S
OBVIOUS

LEMMA ConcatFacts ==
  ASSUME NEW S, NEW a \in Seq(S), NEW b \in Seq(S)
  PROVE  /\ a \o b \in Seq(S) /\ DOMAIN (a \o b) = 1 .. (Len(a) + Len(b))
         /\ \A i \in 1 .. (Len(a) + Len(b)) :
              (a \o b)[i] = IF i <= Len(a) THEN a[i] ELSE b[i - Len(a)]
<1>1. /\ a \o b \in Seq(S) /\ Len(a \o b) = Len(a) + Len(b)
      /\ \A i \in 1 .. Len(a) + Len(b) :
           (a \o b)[i] = IF i <= Len(a) THEN a[i] ELSE b[i - Len(a)]
  BY ConcatProperties, Zenon
<1>2. DOMAIN (a \o b) = 1 .. Len(a \o b)
  BY <1>1, SeqFacts, Zenon
<1>3. QED
  BY <1>1, <1>2, Zenon

LEMMA EmptyLen == ASSUME NEW S, NEW s \in Seq(S) PROVE s = <<>> <=> Len(s) = 0
OBVIOUS

NoRepeats(s) == \A i, j \in DOMAIN s : s[i] = s[j] => i = j

(* The cache without the entry of s: what is left is in it once, and s is  *)
(* not.                                                                    *)
LEMMA OthersFacts ==
  ASSUME CacheTypes, NEW s \in Submission
  PROVE  /\ Others(s) \in Seq(Submission)
         /\ NoRepeats(Others(s))
         /\ \A i \in DOMAIN Others(s) :
              Others(s)[i] # s /\ Others(s)[i] \in Elements(processed)
<1> USE DEF CacheTypes
<1>1. CASE ~AlreadyProcessed(s)
  BY <1>1 DEF Others, AlreadyProcessed, NoRepeats, Elements
<1>2. CASE AlreadyProcessed(s)
  <2> DEFINE k == CHOOSE i \in DOMAIN processed : processed[i] = s
             a == SubSeq(processed, 1, k - 1)
             b == SubSeq(processed, k + 1, Len(processed))
  <2>1. k \in DOMAIN processed /\ processed[k] = s
    BY <1>2 DEF AlreadyProcessed
  <2>2. Others(s) = a \o b
    BY <1>2 DEF Others
  <2> HIDE DEF k
  <2>3. /\ k \in 1 .. Len(processed) /\ Len(processed) \in Nat
        /\ DOMAIN processed = 1 .. Len(processed)
    BY <2>1, SeqFacts
  <2>4. /\ a \in Seq(Submission) /\ Len(a) = k - 1
        /\ \A i \in 1 .. (k - 1) : a[i] = processed[i]
    BY <2>3
  <2>5. /\ b \in Seq(Submission) /\ Len(b) = Len(processed) - k
        /\ \A i \in 1 .. (Len(processed) - k) : b[i] = processed[k + i]
    <3>1. \A i \in (k + 1) .. Len(processed) : processed[i] \in Submission
      BY <2>3, SeqFacts
    <3>2. /\ b \in Seq(Submission)
          /\ Len(b) = IF k + 1 <= Len(processed) THEN Len(processed) - (k + 1) + 1 ELSE 0
          /\ \A i \in 1 .. Len(processed) - (k + 1) + 1 : b[i] = processed[(k + 1) + i - 1]
      BY <2>3, <3>1, SubSeqProperties
    <3> HIDE DEF b, a, CacheTypes
    <3>3. Len(b) = Len(processed) - k
      <4> DEFINE n == Len(processed)
      <4>1. n \in Nat /\ k \in 1 .. n
        BY <2>3
      <4>2. Len(b) = IF k + 1 <= n THEN n - (k + 1) + 1 ELSE 0
        BY <3>2
      <4> HIDE DEF n
      <4>3. Len(b) = n - k
        BY <4>1, <4>2
      <4>4. QED
        BY <4>3 DEF n
    <3>4. ASSUME NEW i \in 1 .. (Len(processed) - k) PROVE b[i] = processed[k + i]
      <4>1. (k + 1) + i - 1 = k + i /\ i \in 1 .. Len(processed) - (k + 1) + 1
        BY <2>3
      <4>2. QED
        BY <3>2, <4>1
    <3>5. QED
      BY <3>2, <3>3, <3>4
  <2> HIDE DEF a, b
  <2>6. /\ a \o b \in Seq(Submission) /\ DOMAIN (a \o b) = 1 .. (Len(a) + Len(b))
        /\ \A i \in 1 .. (Len(a) + Len(b)) :
             (a \o b)[i] = IF i <= Len(a) THEN a[i] ELSE b[i - Len(a)]
    BY <2>4, <2>5, ConcatFacts, Zenon
  <2> DEFINE c == a \o b
  <2> HIDE DEF c
  <2> DEFINE at(i) == IF i < k THEN i ELSE i + 1
  <2>7. /\ DOMAIN c = 1 .. (Len(processed) - 1)
        /\ \A i \in 1 .. (Len(processed) - 1) :
             /\ c[i] = processed[at(i)]
             /\ at(i) \in DOMAIN processed /\ at(i) # k
    <3>1. DOMAIN c = 1 .. (Len(processed) - 1)
      BY <2>3, <2>4, <2>5, <2>6 DEF c
    <3>2. ASSUME NEW i \in 1 .. (Len(processed) - 1), i < k
          PROVE  c[i] = processed[i]
      BY <2>3, <2>4, <2>5, <2>6, <3>2 DEF c
    <3>3. ASSUME NEW i \in 1 .. (Len(processed) - 1), ~(i < k)
          PROVE  c[i] = processed[i + 1]
      <4>1. c[i] = b[i - (k - 1)] /\ i - (k - 1) \in 1 .. (Len(processed) - k)
        BY <2>3, <2>4, <2>5, <2>6, <3>3 DEF c
      <4>2. k + (i - (k - 1)) = i + 1
        BY <2>3
      <4>3. QED
        BY <2>5, <4>1, <4>2
    <3>4. ASSUME NEW i \in 1 .. (Len(processed) - 1)
          PROVE  /\ c[i] = processed[at(i)]
                 /\ at(i) \in DOMAIN processed /\ at(i) # k
      <4>1. CASE i < k
        BY <2>3, <3>2, <4>1
      <4>2. CASE ~(i < k)
        BY <2>3, <3>3, <4>2
      <4>3. QED
        BY <4>1, <4>2
    <3>5. QED
      BY <3>1, <3>4
  <2>8. ASSUME NEW i \in 1 .. (Len(processed) - 1), NEW j \in 1 .. (Len(processed) - 1),
               at(i) = at(j)
        PROVE  i = j
    BY <2>3, <2>8
  <2>9. NoRepeats(c)
    <3>1. SUFFICES ASSUME NEW i \in DOMAIN c, NEW j \in DOMAIN c,
                          c[i] = c[j]
                   PROVE  i = j
      BY DEF NoRepeats
    <3>2. at(i) \in DOMAIN processed /\ at(j) \in DOMAIN processed
          /\ processed[at(i)] = processed[at(j)]
      BY <2>7, <3>1
    <3>3. at(i) = at(j)
      BY <3>2
    <3>4. QED
      BY <2>7, <2>8, <3>3
  <2>10. ASSUME NEW i \in DOMAIN c
         PROVE  c[i] # s /\ c[i] \in Elements(processed)
    <3>1. c[i] = processed[at(i)] /\ at(i) \in DOMAIN processed /\ at(i) # k
      BY <2>7
    <3>2. QED
      BY <2>1, <3>1 DEF Elements
  <2>11. QED
    BY <2>2, <2>6, <2>9, <2>10 DEF c
<1>3. QED
  BY <1>1, <1>2

(* The clean-up keeps the limit, and neither insertion nor clean-up makes  *)
(* up an entry.                                                            *)
LEMMA InsertFacts ==
  ASSUME CacheTypes, NEW s \in Submission
  PROVE  /\ Insert(s) \in Seq(Submission) /\ Len(Insert(s)) <= CacheLimit
         /\ NoRepeats(Insert(s))
         /\ Elements(Insert(s)) \subseteq Elements(processed) \cup {s}
<1> DEFINE o == Others(s)
           p == Append(o, s)
           q == Newest(p, CacheKeep)
<1>1. /\ o \in Seq(Submission) /\ NoRepeats(o)
      /\ \A i \in DOMAIN o : o[i] # s /\ o[i] \in Elements(processed)
  BY OthersFacts
<1>2. Insert(s) = IF Len(p) > CacheLimit THEN q ELSE p
  BY DEF Insert
<1> HIDE DEF o
<1>3. /\ p \in Seq(Submission) /\ Len(p) = Len(o) + 1 /\ Len(o) \in Nat
      /\ DOMAIN p = 1 .. (Len(o) + 1) /\ DOMAIN o = 1 .. Len(o)
      /\ \A i \in 1 .. Len(o) : p[i] = o[i]
      /\ p[Len(o) + 1] = s
  BY <1>1
<1> HIDE DEF p
<1>4. NoRepeats(p)
  BY <1>1, <1>3 DEF NoRepeats
<1>5. Elements(p) \subseteq Elements(processed) \cup {s}
  BY <1>1, <1>3 DEF Elements
<1>6. CASE Len(p) <= CacheLimit
  BY <1>2, <1>3, <1>4, <1>5, <1>6, BoundAssumption
<1>7. CASE ~(Len(p) <= CacheLimit)
  <2>1. Insert(s) = q
    BY <1>2, <1>3, <1>7, BoundAssumption
  <2>2. CacheKeep \in Nat /\ CacheKeep <= CacheLimit /\ CacheKeep < Len(p)
        /\ Len(p) \in Nat /\ CacheLimit \in Nat
    BY <1>3, <1>7, BoundAssumption
  <2> DEFINE from == Len(p) - CacheKeep + 1
  <2>3. /\ q \in Seq(Submission) /\ Len(q) = CacheKeep /\ DOMAIN q = 1 .. CacheKeep
        /\ \A i \in 1 .. CacheKeep :
             q[i] = p[from + i - 1] /\ from + i - 1 \in DOMAIN p
    BY <1>3, <2>2 DEF Newest
  <2> HIDE DEF q
  <2>4. NoRepeats(q)
    <3>1. SUFFICES ASSUME NEW i \in 1 .. CacheKeep, NEW j \in 1 .. CacheKeep,
                          q[i] = q[j]
                   PROVE  i = j
      BY <2>3 DEF NoRepeats
    <3>2. from + i - 1 = from + j - 1
      BY <1>4, <2>3, <3>1 DEF NoRepeats
    <3>3. QED
      BY <2>2, <3>2
  <2>5. Elements(q) \subseteq Elements(p)
    BY <2>3 DEF Elements
  <2>6. QED
    BY <1>5, <2>1, <2>2, <2>3, <2>4, <2>5
<1>8. QED
  BY <1>6, <1>7

-----------------------------------------------------------------------------
(* The steps by actor, and what those of each actor leave alone.           *)

NetworkStep ==
  \/ \E m \in Message :
       GatewayQueues(m) \/ \E t \in Topic : ListenerReceives(t, m)
  \/ \E t \in Topic : \/ SetNX(t) \/ ListenerQueues(t)
                      \/ SetNXFails(t) \/ ListenerQueuesFails(t)

WorkerStepOrFault(w) ==
  WorkerStep(w) \/ VerifyFails(w) \/ StoreFails(w) \/ ReportFails(w)

CollectorStep ==
  CollectStep \/ BeginCollectionFails \/ \E s \in Submission : CollectOneFails(s)

LEMMA NextCases ==
  ASSUME [Next]_vars
  PROVE  \/ NetworkStep \/ CollectorStep \/ UNCHANGED vars
         \/ \E w \in Worker : WorkerStepOrFault(w)
BY DEF Next, NetworkStep, WorkerStepOrFault, CollectorStep, TopicStep, FaultStep

LEMMA NetworkFrame ==
  ASSUME NetworkStep
  PROVE  UNCHANGED <<workerVars, storeVars, collectVars, failed, accepted, onTime>>
<1>1. ASSUME NEW m \in Message, GatewayQueues(m)
      PROVE  UNCHANGED <<workerVars, storeVars, collectVars, failed, accepted, onTime>>
  BY <1>1 DEF GatewayQueues, histVars
<1>2. ASSUME NEW m \in Message, NEW t \in Topic, ListenerReceives(t, m)
      PROVE  UNCHANGED <<workerVars, storeVars, collectVars, failed, accepted, onTime>>
  BY <1>2 DEF ListenerReceives, Decided, histVars
<1>3. ASSUME NEW t \in Topic,
             SetNX(t) \/ ListenerQueues(t) \/ SetNXFails(t) \/ ListenerQueuesFails(t)
      PROVE  UNCHANGED <<workerVars, storeVars, collectVars, failed, accepted, onTime>>
  BY <1>3 DEF SetNX, Decided, ListenerQueues, SetNXFails, ListenerQueuesFails, histVars
<1>4. QED
  BY <1>1, <1>2, <1>3 DEF NetworkStep

LEMMA WorkerFrame ==
  ASSUME NEW w \in Worker, WorkerStepOrFault(w)
  PROVE  UNCHANGED <<copies, dedupVars, collectVars, arrived, falseDuplicates, onTime>>
BY DEF WorkerStepOrFault, WorkerStep, Pop, CheckDuplicate, Verify, Remember,
       StoreResult, AddMember, ReportValidated, VerifyFails, StoreFails,
       ReportFails, histVars

LEMMA CollectorFrame ==
  ASSUME CollectorStep
  PROVE  UNCHANGED <<copies, dedupVars, queue, workerVars, storeVars, arrived,
                     falseDuplicates, accepted>>
BY DEF CollectorStep, CollectStep, BeginCollection, EndCollection, CollectOne,
       BeginCollectionFails, CollectOneFails, histVars

-----------------------------------------------------------------------------
(* Type correctness.                                                       *)

Subs == {m.subs : m \in Message}

LEMMA SubsFacts == \A q \in Subs : q \in Seq(Submission) /\ q # <<>>
BY MessageAssumption DEF Subs

LEMMA NoMessageFact == NoMessage \notin Message
BY MessageAssumption DEF NoMessage

LEMMA InitType == Init => TypeOK
<1> SUFFICES ASSUME Init PROVE TypeOK
  OBVIOUS
<1>1. NetworkTypes
  <2>1. copies \in [Message -> 0 .. MaxCopies]
    BY BoundAssumption DEF Init
  <2>2. queue \in Seq({m.subs : m \in Message})
    BY DEF Init
  <2>3. QED
    BY <2>1, <2>2 DEF Init, NetworkTypes
<1>2. WorkerTypes
  BY DEF Init, WorkerTypes
<1>3. CacheTypes
  BY BoundAssumption DEF Init, CacheTypes
<1>4. StoreTypes
  BY DEF Init, StoreTypes
<1>5. CollectTypes
  BY BoundAssumption DEF Init, CollectTypes
<1>6. QED
  BY <1>1, <1>2, <1>3, <1>4, <1>5 DEF TypeOK

LEMMA StepNetworkTypes == TypeOK /\ [Next]_vars => NetworkTypes'
<1> SUFFICES ASSUME TypeOK, [Next]_vars PROVE NetworkTypes'
  OBVIOUS
<1> USE DEF TypeOK, NetworkTypes, dedupVars, histVars, Subs
<1>1. /\ \A q \in Subs : Append(queue, q) \in Seq(Subs)
      /\ queue # <<>> => Tail(queue) \in Seq(Subs)
  BY SeqFacts
<1>2. ASSUME NEW m \in Message, GatewayQueues(m) PROVE NetworkTypes'
  <2>1. copies' \in [Message -> 0 .. MaxCopies]
    BY <1>2, BoundAssumption DEF GatewayQueues
  <2>2. queue' \in Seq(Subs)
    BY <1>1, <1>2 DEF GatewayQueues
  <2>3. QED
    BY <1>2, <2>1, <2>2 DEF GatewayQueues
<1>3. ASSUME NEW m \in Message, NEW t \in Topic, ListenerReceives(t, m)
      PROVE  NetworkTypes'
  <2>1. copies' \in [Message -> 0 .. MaxCopies]
    BY <1>3, BoundAssumption DEF ListenerReceives
  <2>2. /\ topicPc' \in [Topic -> {"next", "setnx", "push"}]
        /\ topicMsg' \in [Topic -> Message \cup {NoMessage}]
        /\ \A u \in Topic : topicPc'[u] # "next" => topicMsg'[u] \in Message
    BY <1>3 DEF ListenerReceives, TopicGoto
  <2>3. arrived' \subseteq Message /\ falseDuplicates' \subseteq arrived'
    BY <1>3 DEF ListenerReceives, Decided
  <2>4. QED
    BY <1>3, <2>1, <2>2, <2>3 DEF ListenerReceives
<1>4. ASSUME NEW t \in Topic, SetNX(t) PROVE NetworkTypes'
  <2>1. topicMsg[t] \in Message
    BY <1>4 DEF SetNX
  <2>2. /\ topicPc' \in [Topic -> {"next", "setnx", "push"}]
        /\ \A u \in Topic : topicPc'[u] # "next" => topicMsg[u] \in Message
    BY <1>4, <2>1 DEF SetNX, TopicGoto
  <2>3. arrived' \subseteq Message /\ falseDuplicates' \subseteq arrived'
    BY <1>4, <2>1 DEF SetNX, Decided
  <2>4. QED
    BY <1>4, <2>2, <2>3 DEF SetNX
<1>5. ASSUME NEW t \in Topic, ListenerQueues(t) PROVE NetworkTypes'
  <2>1. topicMsg[t].subs \in Subs
    BY <1>5 DEF ListenerQueues
  <2>2. queue' \in Seq(Subs)
    BY <1>1, <1>5, <2>1 DEF ListenerQueues
  <2>3. QED
    BY <1>5, <2>2 DEF ListenerQueues, TopicGoto
<1>6. ASSUME NEW t \in Topic, SetNXFails(t) \/ ListenerQueuesFails(t)
      PROVE  NetworkTypes'
  BY <1>6 DEF SetNXFails, ListenerQueuesFails, TopicGoto
<1>7. ASSUME NEW w \in Worker, WorkerStepOrFault(w) PROVE NetworkTypes'
  <2>1. UNCHANGED <<copies, dedupVars, arrived, falseDuplicates>>
    BY <1>7, WorkerFrame
  <2>2. UNCHANGED queue \/ (queue # <<>> /\ queue' = Tail(queue))
    BY <1>7 DEF WorkerStepOrFault, WorkerStep, Pop, CheckDuplicate, Verify, Remember,
                StoreResult, AddMember, ReportValidated, VerifyFails, StoreFails,
                ReportFails
  <2>3. queue' \in Seq(Subs)
    BY <1>1, <2>2
  <2>4. QED
    BY <2>1, <2>3
<1>8. CASE CollectorStep \/ UNCHANGED vars
  BY <1>8, CollectorFrame DEF vars
<1>9. QED
  BY <1>2, <1>3, <1>4, <1>5, <1>6, <1>7, <1>8, NextCases DEF NetworkStep

(* A worker at work has a submission at hand.                              *)
LEMMA CurrentType ==
  ASSUME TypeOK, NEW w \in Worker, pc[w] # "pop"
  PROVE  Current(w) \in Submission /\ job[w] \in Seq(Submission) /\ job[w] # <<>>
<1>1. job[w] \in Seq(Submission) /\ job[w] # <<>>
  BY DEF TypeOK, WorkerTypes
<1>2. QED
  BY <1>1, SeqFacts DEF Current

LEMMA AdvanceTypes ==
  ASSUME TypeOK, NEW w \in Worker, pc[w] # "pop", Advance(w)
  PROVE  WorkerTypes'
<1>1. /\ job[w] \in Seq(Submission) /\ Tail(job[w]) \in Seq(Submission)
      /\ Len(job[w]) \in Nat \ {0} /\ Len(Tail(job[w])) = Len(job[w]) - 1
  BY CurrentType, SeqFacts
<1>2. Tail(job[w]) = <<>> <=> Len(job[w]) = 1
  <2>1. Tail(job[w]) = <<>> <=> Len(Tail(job[w])) = 0
    BY <1>1, EmptyLen
  <2>2. QED
    BY <1>1, <2>1
<1>3. /\ job' = [job EXCEPT ![w] = Tail(@)]
      /\ pc' = [pc EXCEPT ![w] = IF Len(job[w]) = 1 THEN "pop" ELSE "check"]
  BY DEF Advance, Goto
<1>4. QED
  BY <1>1, <1>2, <1>3 DEF TypeOK, WorkerTypes

LEMMA StepWorkerTypes == TypeOK /\ [Next]_vars => WorkerTypes'
<1> SUFFICES ASSUME TypeOK, [Next]_vars PROVE WorkerTypes'
  OBVIOUS
<1>1. ASSUME NEW w \in Worker, WorkerStepOrFault(w) PROVE WorkerTypes'
  <2>1. CASE Pop(w)
    <3>1. Head(queue) \in Subs
      BY <2>1, SeqFacts DEF Pop, TypeOK, NetworkTypes, Subs
    <3>2. Head(queue) \in Seq(Submission) /\ Head(queue) # <<>>
      BY <3>1, SubsFacts
    <3>3. QED
      BY <2>1, <3>2 DEF Pop, Goto, TypeOK, WorkerTypes
  <2>2. CASE Advance(w) /\ pc[w] # "pop"
    BY <2>2, AdvanceTypes
  <2>3. CASE /\ UNCHANGED job /\ pc[w] # "pop"
             /\ \/ Goto(w, "verify") \/ Goto(w, "remember") \/ Goto(w, "store")
                \/ Goto(w, "sadd") \/ Goto(w, "report")
    BY <2>3 DEF Goto, TypeOK, WorkerTypes
  <2>4. CASE CheckDuplicate(w) \/ Verify(w) \/ Remember(w) \/ StoreResult(w) \/ AddMember(w)
    BY <2>2, <2>3, <2>4 DEF CheckDuplicate, Verify, Remember, StoreResult, AddMember
  <2>5. CASE ReportValidated(w) \/ VerifyFails(w) \/ ReportFails(w)
    BY <2>2, <2>5 DEF ReportValidated, VerifyFails, ReportFails
  <2>6. CASE StoreFails(w)
    BY <2>3, <2>6 DEF StoreFails
  <2>7. QED
    BY <1>1, <2>1, <2>4, <2>5, <2>6 DEF WorkerStepOrFault, WorkerStep
<1>2. CASE NetworkStep \/ CollectorStep \/ UNCHANGED vars
  BY <1>2, NetworkFrame, CollectorFrame DEF workerVars, vars, TypeOK, WorkerTypes
<1>3. QED
  BY <1>1, <1>2, NextCases

LEMMA StepCacheTypes == TypeOK /\ [Next]_vars => CacheTypes'
<1> SUFFICES ASSUME TypeOK, [Next]_vars PROVE CacheTypes'
  OBVIOUS
<1>1. ASSUME NEW w \in Worker, Remember(w) PROVE CacheTypes'
  <2>1. Current(w) \in Submission
    BY <1>1, CurrentType DEF Remember
  <2>2. /\ processed' \in Seq(Submission) /\ Len(processed') <= CacheLimit
        /\ NoRepeats(processed')
    BY <1>1, <2>1, InsertFacts DEF Remember, TypeOK
  <2>3. QED
    BY <2>2 DEF NoRepeats, CacheTypes
<1>2. ASSUME NEW w \in Worker, WorkerStepOrFault(w), ~Remember(w)
      PROVE  UNCHANGED processed
  BY <1>2 DEF WorkerStepOrFault, WorkerStep, Pop, CheckDuplicate, Verify,
              StoreResult, AddMember, ReportValidated, VerifyFails, StoreFails,
              ReportFails
<1>3. CASE NetworkStep \/ CollectorStep \/ UNCHANGED vars
  BY <1>3, NetworkFrame, CollectorFrame DEF workerVars, vars, TypeOK, CacheTypes
<1>4. QED
  BY <1>1, <1>2, <1>3, NextCases DEF TypeOK, CacheTypes

LEMMA StepStoreTypes == TypeOK /\ [Next]_vars => StoreTypes'
<1> SUFFICES ASSUME TypeOK, [Next]_vars PROVE StoreTypes'
  OBVIOUS
<1> USE DEF TypeOK, StoreTypes, storeVars, histVars
<1>1. ASSUME NEW w \in Worker, WorkerStepOrFault(w) PROVE StoreTypes'
  <2>1. CASE pc[w] = "pop" \/ Remember(w)
    BY <1>1, <2>1 DEF WorkerStepOrFault, WorkerStep, Pop, CheckDuplicate, Verify, Remember,
                      StoreResult, AddMember, ReportValidated, VerifyFails,
                      StoreFails, ReportFails
  <2>2. CASE pc[w] # "pop" /\ ~Remember(w)
    <3>1. Current(w) \in Submission
      BY <2>2, CurrentType
    <3>2. QED
      BY <1>1, <2>2, <3>1
         DEF WorkerStepOrFault, WorkerStep, Pop, CheckDuplicate, Verify,
             StoreResult, AddMember, ReportValidated, VerifyFails, StoreFails,
             ReportFails
  <2>3. QED
    BY <2>1, <2>2
<1>2. CASE CollectorStep
  BY <1>2 DEF CollectorStep, CollectStep, BeginCollection, EndCollection, CollectOne,
              BeginCollectionFails, CollectOneFails
<1>3. CASE NetworkStep \/ UNCHANGED vars
  BY <1>3, NetworkFrame DEF vars
<1>4. QED
  BY <1>1, <1>2, <1>3, NextCases

LEMMA StepFaults == TypeOK /\ [Next]_vars => faults' \in 0 .. MaxFaults
<1> SUFFICES ASSUME TypeOK, [Next]_vars PROVE faults' \in 0 .. MaxFaults
  OBVIOUS
<1>1. UNCHANGED faults \/ Fault
  <2>1. ASSUME NEW w \in Worker, WorkerStepOrFault(w) PROVE UNCHANGED faults \/ Fault
    BY <2>1 DEF WorkerStepOrFault, WorkerStep, Pop, CheckDuplicate, Verify, Remember,
                StoreResult, AddMember, ReportValidated, VerifyFails, StoreFails,
                ReportFails
  <2>2. CASE NetworkStep
    BY <2>2 DEF NetworkStep, GatewayQueues, ListenerReceives, SetNX, ListenerQueues,
                SetNXFails, ListenerQueuesFails
  <2>3. CASE CollectorStep
    BY <2>3 DEF CollectorStep, CollectStep, BeginCollection, EndCollection,
                CollectOne, BeginCollectionFails, CollectOneFails
  <2>4. CASE UNCHANGED vars
    BY <2>4 DEF vars
  <2>5. QED
    BY <2>1, <2>2, <2>3, <2>4, NextCases
<1>2. QED
  BY <1>1, BoundAssumption DEF Fault, TypeOK, CollectTypes

LEMMA StepCollectTypes == TypeOK /\ [Next]_vars => CollectTypes'
<1> SUFFICES ASSUME TypeOK, [Next]_vars PROVE CollectTypes'
  OBVIOUS
<1>1. faults' \in 0 .. MaxFaults
  BY StepFaults
<1>2. CASE CollectorStep
  <2> USE DEF TypeOK, CollectTypes
  <2>1. CASE BeginCollection
    BY <1>1, <2>1 DEF BeginCollection, StoreTypes
  <2>2. CASE EndCollection \/ BeginCollectionFails
    BY <1>1, <2>2 DEF EndCollection, BeginCollectionFails
  <2>3. ASSUME NEW s \in Submission, CollectOne(s) PROVE CollectTypes'
    <3>1. PICK n \in 1 .. ScanRepeats :
            votes' = [votes EXCEPT ![s] = IF s \in results THEN @ + n ELSE @]
      BY <2>3 DEF CollectOne
    <3>2. votes' \in [Submission -> Nat]
      BY <3>1, BoundAssumption
    <3>3. QED
      BY <1>1, <2>3, <3>2 DEF CollectOne
  <2>4. ASSUME NEW s \in Submission, CollectOneFails(s) PROVE CollectTypes'
    BY <1>1, <2>4 DEF CollectOneFails
  <2>5. QED
    BY <1>2, <2>1, <2>2, <2>3, <2>4 DEF CollectorStep, CollectStep
<1>3. CASE ~CollectorStep
  <2>1. UNCHANGED collectVars
    BY <1>3, NetworkFrame, WorkerFrame, NextCases DEF vars
  <2>2. QED
    BY <1>1, <2>1 DEF TypeOK, CollectTypes, collectVars
<1>4. QED
  BY <1>2, <1>3

LEMMA StepType == TypeOK /\ [Next]_vars => TypeOK'
BY StepNetworkTypes, StepWorkerTypes, StepCacheTypes, StepStoreTypes, StepCollectTypes
   DEF TypeOK

(* Queues, caches and Redis keys keep their types: the cache of processed  *)
(* submissions stays within its limit and has one entry for an id, and a   *)
(* worker that is not waiting for a message has a submission at hand.      *)
THEOREM TypeCorrect == Spec => []TypeOK
<1>1. Spec => Init /\ [][Next]_vars
  BY DEF Spec
<1>2. QED
  BY <1>1, InitType, StepType, PTL
-----------------------------------------------------------------------------
(* What the workers leave in Redis.                                        *)

(* Only what has been verified is stored.                                  *)
Verified ==
  /\ results \subseteq Valid
  /\ \A w \in Worker :
       pc[w] \in {"remember", "store", "sadd", "report"} => Current(w) \in Valid

(* What a worker has behind it: at "sadd" the SET, at "report" the SADD    *)
(* too, or one of them failed.                                             *)
Written ==
  /\ accepted \subseteq results /\ accepted \cap Addressed \subseteq members
  /\ \A w \in Worker :
       /\ pc[w] = "sadd" => Current(w) \in results \cup failed
       /\ pc[w] = "report" => Stored(Current(w)) \/ Current(w) \in failed

(* A step of one worker concerns no other, and its submission is the same  *)
(* until it is done with it.                                               *)
LEMMA WorkerLocal ==
  ASSUME TypeOK, NEW w \in Worker, WorkerStepOrFault(w)
  PROVE  /\ \A v \in Worker \ {w} :
              pc'[v] = pc[v] /\ job'[v] = job[v] /\ Current(v)' = Current(v)
         /\ pc'[w] \in {"verify", "remember", "store", "sadd", "report"} =>
              job'[w] = job[w] /\ Current(w)' = Current(w)
<1> USE DEF TypeOK, WorkerTypes, Goto, Current
<1>1. CASE Pop(w)
  BY <1>1 DEF Pop
<1>2. CASE Advance(w)
  BY <1>2 DEF Advance
<1>3. CASE UNCHANGED job /\ \E l : pc' = [pc EXCEPT ![w] = l]
  BY <1>3
<1>4. QED
  BY <1>1, <1>2, <1>3, <1>1
     DEF WorkerStepOrFault, WorkerStep, CheckDuplicate, Verify, Remember,
         StoreResult, AddMember, ReportValidated, VerifyFails, StoreFails, ReportFails

LEMMA StepVerified == TypeOK /\ Verified /\ [Next]_vars => Verified'
<1> SUFFICES ASSUME TypeOK, Verified, [Next]_vars PROVE Verified'
  OBVIOUS
<1>1. ASSUME NEW w \in Worker, WorkerStepOrFault(w) PROVE Verified'
  <2>1. results' \subseteq Valid
    BY <1>1 DEF WorkerStepOrFault, WorkerStep, Pop, CheckDuplicate, Verify, Remember,
                StoreResult, AddMember, ReportValidated, VerifyFails, StoreFails,
                ReportFails, storeVars, Verified
  <2>2. ASSUME pc'[w] \in {"remember", "store", "sadd", "report"}
        PROVE  Current(w) \in Valid
    <3>1. pc[w] \in {"remember", "store", "sadd", "report"} \/ Current(w) \in Valid
      BY <1>1, <2>2 DEF WorkerStepOrFault, WorkerStep, Pop, CheckDuplicate, Verify, Remember,
                  StoreResult, AddMember, ReportValidated, VerifyFails, StoreFails,
                  ReportFails, Advance, Goto, TypeOK, WorkerTypes
    <3>2. QED
      BY <3>1 DEF Verified
  <2>3. ASSUME NEW v \in Worker, pc'[v] \in {"remember", "store", "sadd", "report"}
        PROVE  Current(v)' \in Valid
    <3>1. CASE v = w
      BY <1>1, <2>2, <2>3, <3>1, WorkerLocal
    <3>2. CASE v # w
      BY <1>1, <2>3, <3>2, WorkerLocal DEF Verified
    <3>3. QED
      BY <3>1, <3>2
  <2>4. QED
    BY <2>1, <2>3 DEF Verified
<1>2. CASE NetworkStep \/ CollectorStep \/ UNCHANGED vars
  BY <1>2, NetworkFrame, CollectorFrame
     DEF workerVars, storeVars, vars, Verified, Current
<1>3. QED
  BY <1>1, <1>2, NextCases

(* Redis keys and failures are only added.                                 *)
LEMMA StoresGrow ==
  ASSUME [Next]_vars
  PROVE  /\ results \subseteq results' /\ members \subseteq members'
         /\ failed \subseteq failed'
<1>1. ASSUME NEW w \in Worker, WorkerStepOrFault(w)
      PROVE  /\ results \subseteq results' /\ members \subseteq members'
             /\ failed \subseteq failed'
  BY <1>1 DEF WorkerStepOrFault, WorkerStep, Pop, CheckDuplicate, Verify, Remember,
              StoreResult, AddMember, ReportValidated, VerifyFails, StoreFails,
              ReportFails, storeVars, histVars
<1>2. CASE CollectorStep
  BY <1>2 DEF CollectorStep, CollectStep, BeginCollection, EndCollection, CollectOne,
              BeginCollectionFails, CollectOneFails, storeVars, histVars
<1>3. CASE NetworkStep \/ UNCHANGED vars
  BY <1>3, NetworkFrame DEF vars, storeVars, histVars
<1>4. QED
  BY <1>1, <1>2, <1>3, NextCases

LEMMA StepWritten == TypeOK /\ Written /\ [Next]_vars => Written'
<1> SUFFICES ASSUME TypeOK, Written, [Next]_vars PROVE Written'
  OBVIOUS
<1> DEFINE SetDone(v) == Current(v) \in results \cup failed
           AddDone(v) == Stored(Current(v)) \/ Current(v) \in failed
<1>1. /\ results \subseteq results' /\ members \subseteq members'
      /\ failed \subseteq failed'
  BY StoresGrow
<1>2. ASSUME NEW v \in Worker, pc'[v] = pc[v], job'[v] = job[v]
      PROVE  /\ pc'[v] = "sadd" => SetDone(v)'
             /\ pc'[v] = "report" => AddDone(v)'
  BY <1>1, <1>2 DEF Written, Stored, Current
<1>3. ASSUME NEW w \in Worker, WorkerStepOrFault(w) PROVE Written'
  <2> DEFINE Kept == /\ accepted' \subseteq results'
                     /\ accepted' \cap Addressed \subseteq members'
             Mine == /\ pc'[w] = "sadd" => SetDone(w)'
                     /\ pc'[w] = "report" => AddDone(w)'
  <2> USE DEF TypeOK, WorkerTypes, Goto, storeVars, histVars
  <2>1. Kept /\ Mine
    <3>1. CASE StoreResult(w)
      <4>1. Current(w)' \in results' /\ pc'[w] = "sadd"
        BY <3>1 DEF StoreResult, Current
      <4>2. Kept
        BY <1>1, <3>1 DEF StoreResult, Written
      <4>3. QED
        BY <4>1, <4>2 
    <3>2. CASE AddMember(w)
      <4>1. Current(w) \in results \cup failed /\ Current(w) \in Submission
        BY <3>2, CurrentType DEF AddMember, Written
      <4>2. /\ Current(w)' = Current(w) /\ pc'[w] = "report"
            /\ members' = members \cup ({Current(w)} \cap Addressed)
            /\ accepted' = accepted \cup ({Current(w)} \ failed)
            /\ UNCHANGED <<results, failed>>
        BY <3>2 DEF AddMember, Current
      <4>3. Kept
        BY <4>1, <4>2 DEF Written
      <4>4. AddDone(w)'
        BY <4>1, <4>2 DEF Stored
      <4>5. QED
        BY <4>2, <4>3, <4>4
    <3>3. CASE StoreFails(w)
      <4>1. Current(w)' \in failed' /\ UNCHANGED <<accepted, results, members>>
        BY <3>3 DEF StoreFails, Current
      <4>2. QED
        BY <4>1 DEF Written
    <3>4. CASE ~(StoreResult(w) \/ AddMember(w) \/ StoreFails(w))
      <4>1. pc'[w] \notin {"sadd", "report"} /\ UNCHANGED accepted
        BY <1>3, <3>4 DEF WorkerStepOrFault, WorkerStep, Pop, CheckDuplicate, Verify, Remember,
                    ReportValidated, VerifyFails, ReportFails, Advance
      <4>2. QED
        BY <1>1, <4>1 DEF Written
    <3>5. QED
      BY <3>1, <3>2, <3>3, <3>4
  <2>2. ASSUME NEW v \in Worker
        PROVE  /\ pc'[v] = "sadd" => SetDone(v)'
               /\ pc'[v] = "report" => AddDone(v)'
    <3>1. CASE v = w
      BY <2>1, <3>1
    <3>2. CASE v # w
      BY <1>2, <1>3, <3>2, WorkerLocal
    <3>3. QED
      BY <3>1, <3>2
  <2>3. QED
    BY <2>1, <2>2 DEF Written
<1>4. CASE NetworkStep \/ CollectorStep \/ UNCHANGED vars
  <2>1. UNCHANGED <<workerVars, storeVars, accepted>>
    BY <1>4, NetworkFrame, CollectorFrame DEF vars, histVars
  <2>2. \A v \in Worker : /\ pc'[v] = "sadd" => SetDone(v)'
                          /\ pc'[v] = "report" => AddDone(v)'
    BY <1>2, <2>1 DEF workerVars
  <2>3. QED
    BY <2>1, <2>2 DEF Written, storeVars
<1>5. QED
  BY <1>3, <1>4, NextCases
-----------------------------------------------------------------------------
(* The collection.                                                         *)

(* Votes are counted once, from the results, and only by a collection.     *)
VotesCounted ==
  /\ collectPc = "open" => \A s \in Submission : votes[s] = 0
  /\ collectPc = "collect" => \A s \in ids : votes[s] = 0
  /\ ids \subseteq members /\ members \subseteq Addressed
  /\ \A s \in Submission : votes[s] > 0 => s \in results \cap members

(* What was on time has its result, and is counted or still to be.         *)
OnTimeKept ==
  /\ collectPc = "open" => onTime = {}
  /\ onTime \subseteq accepted
  /\ collectPc = "collect" =>
       \A s \in (onTime \cap Addressed) \ failed : s \in ids \/ votes[s] >= 1

LEMMA StepVotes == TypeOK /\ VotesCounted /\ [Next]_vars => VotesCounted'
<1> SUFFICES ASSUME TypeOK, VotesCounted, [Next]_vars PROVE VotesCounted'
  OBVIOUS
<1> USE BoundAssumption DEF TypeOK, CollectTypes, StoreTypes, VotesCounted, collectVars, storeVars
<1>1. CASE BeginCollection
  BY <1>1 DEF BeginCollection
<1>2. CASE EndCollection \/ BeginCollectionFails
  BY <1>2 DEF EndCollection, BeginCollectionFails
<1>3. ASSUME NEW s \in Submission, CollectOne(s) PROVE VotesCounted'
  <2>1. PICK n \in 1 .. ScanRepeats :
          votes' = [votes EXCEPT ![s] = IF s \in results THEN @ + n ELSE @]
    BY <1>3 DEF CollectOne
  <2>2. votes[s] = 0
    BY <1>3 DEF CollectOne
  <2>3. /\ votes'[s] = 0 \/ (s \in results /\ votes'[s] = n)
        /\ \A x \in Submission \ {s} : votes'[x] = votes[x]
    BY <2>1, <2>2
  <2>4. QED
    BY <1>3, <2>3 DEF CollectOne
<1>4. ASSUME NEW s \in Submission, CollectOneFails(s) PROVE VotesCounted'
  BY <1>4 DEF CollectOneFails
<1>5. CASE ~CollectorStep
  <2>1. UNCHANGED collectVars
    BY <1>5, NetworkFrame, WorkerFrame, NextCases DEF vars
  <2>2. results \subseteq results' /\ members \subseteq members'
    BY StoresGrow
  <2>3. members' \subseteq Addressed
    <3>1. ASSUME NEW w \in Worker, WorkerStepOrFault(w) PROVE members' \subseteq Addressed
      BY <3>1 DEF WorkerStepOrFault, WorkerStep, Pop, CheckDuplicate, Verify, Remember,
                  StoreResult, AddMember, ReportValidated, VerifyFails, StoreFails,
                  ReportFails
    <3>2. CASE NetworkStep \/ UNCHANGED vars
      BY <3>2, NetworkFrame DEF vars
    <3>3. QED
      BY <1>5, <3>1, <3>2, NextCases
  <2>4. QED
    BY <2>1, <2>2, <2>3
<1>6. QED
  BY <1>1, <1>2, <1>3, <1>4, <1>5 DEF CollectorStep, CollectStep

LEMMA StepOnTime ==
  TypeOK /\ Written /\ OnTimeKept /\ OnTimeCounted /\ [Next]_vars
    => OnTimeKept' /\ OnTimeCounted'
<1> SUFFICES ASSUME TypeOK, Written, OnTimeKept, OnTimeCounted, [Next]_vars
             PROVE  OnTimeKept' /\ OnTimeCounted'
  OBVIOUS
<1> USE DEF TypeOK, CollectTypes, StoreTypes, OnTimeKept, OnTimeCounted
<1>1. CASE BeginCollection
  BY <1>1 DEF BeginCollection, Written
<1>2. CASE BeginCollectionFails
  BY <1>2 DEF BeginCollectionFails, histVars
<1>3. CASE EndCollection
  BY <1>3 DEF EndCollection, histVars
<1>4. ASSUME NEW s \in Submission, CollectOne(s)
      PROVE  OnTimeKept' /\ OnTimeCounted'
  <2>1. PICK n \in 1 .. ScanRepeats :
          votes' = [votes EXCEPT ![s] = IF s \in results THEN @ + n ELSE @]
    BY <1>4 DEF CollectOne
  <2>2. /\ s \in results => votes'[s] >= 1
        /\ \A x \in Submission \ {s} : votes'[x] = votes[x]
    BY <2>1, BoundAssumption
  <2>3. s \in onTime => s \in results
    BY DEF Written
  <2>4. collectPc = "collect" /\ ids' = ids \ {s} /\ UNCHANGED <<collectPc, histVars>>
    BY <1>4 DEF CollectOne
  <2>5. QED
    BY <2>2, <2>3, <2>4 DEF histVars
<1>5. ASSUME NEW s \in Submission, CollectOneFails(s)
      PROVE  OnTimeKept' /\ OnTimeCounted'
  BY <1>5 DEF CollectOneFails
<1>6. CASE ~CollectorStep
  <2>1. UNCHANGED <<collectVars, onTime>>
    BY <1>6, NetworkFrame, WorkerFrame, NextCases DEF vars, histVars
  <2>2. failed \subseteq failed'
    BY StoresGrow
  <2>3. accepted \subseteq accepted'
    <3>1. ASSUME NEW w \in Worker, WorkerStepOrFault(w)
          PROVE  accepted \subseteq accepted'
      BY <3>1 DEF WorkerStepOrFault, WorkerStep, Pop, CheckDuplicate, Verify, Remember,
                  StoreResult, AddMember, ReportValidated, VerifyFails, StoreFails,
                  ReportFails, histVars
    <3>2. QED
      BY <1>6, <3>1, NetworkFrame, NextCases DEF vars, histVars
  <2>4. QED
    BY <2>1, <2>2, <2>3 DEF collectVars
<1>7. QED
  BY <1>1, <1>2, <1>3, <1>4, <1>5, <1>6 DEF CollectorStep, CollectStep

-----------------------------------------------------------------------------
(* The cache and what is in Redis.                                         *)

(* s is stored, lost to a failing command, or about to be stored.          *)
CaredFor(s) ==
  \/ Stored(s) \/ s \in failed
  \/ \E w \in Worker : pc[w] \in {"store", "sadd"} /\ Current(w) = s

LEMMA ProcessedParts ==
  ProcessedIsStored <=>
    /\ \A s \in Elements(processed) : CaredFor(s)
    /\ \A s \in validated : Stored(s) \/ s \in failed
BY DEF ProcessedIsStored, CaredFor, Elements

LEMMA StepCaredFor ==
  ASSUME TypeOK, Written, [Next]_vars, NEW s \in Submission, CaredFor(s)
  PROVE  CaredFor(s)'
<1>1. Stored(s) => Stored(s)'
  BY StoresGrow DEF Stored
<1>2. s \in failed => s \in failed'
  BY StoresGrow
<1>3. ASSUME NEW w \in Worker, pc[w] \in {"store", "sadd"}, Current(w) = s
      PROVE  CaredFor(s)'
  <2>1. CASE pc'[w] = pc[w] /\ job'[w] = job[w]
    BY <1>3, <2>1 DEF CaredFor, Current
  <2>2. CASE WorkerStepOrFault(w)
    <3> USE DEF TypeOK, WorkerTypes, Goto
    <3>1. CASE StoreResult(w)
      <4>1. pc'[w] = "sadd" /\ Current(w)' = s
        BY <1>3, <3>1 DEF StoreResult, Current
      <4>2. QED
        BY <4>1 DEF CaredFor
    <3>2. CASE AddMember(w)
      <4>1. s \in results \cup failed
        BY <1>3, <3>2 DEF AddMember, Written
      <4>2. /\ members' = members \cup ({s} \cap Addressed)
            /\ UNCHANGED <<results, failed>>
        BY <1>3, <3>2 DEF AddMember
      <4>3. QED
        BY <4>1, <4>2 DEF CaredFor, Stored
    <3>3. CASE StoreFails(w)
      BY <1>3, <3>3 DEF StoreFails, CaredFor
    <3>4. QED
      BY <1>3, <2>2, <3>1, <3>2, <3>3
         DEF WorkerStepOrFault, WorkerStep, Pop, CheckDuplicate, Verify, Remember,
             ReportValidated, VerifyFails, ReportFails
  <2>3. QED
    <3>1. ASSUME NEW v \in Worker, WorkerStepOrFault(v), v # w
          PROVE  pc'[w] = pc[w] /\ job'[w] = job[w]
      BY <3>1, WorkerLocal
    <3>2. CASE NetworkStep \/ CollectorStep \/ UNCHANGED vars
      BY <2>1, <3>2, NetworkFrame, CollectorFrame DEF vars, workerVars
    <3>3. QED
      BY <2>1, <2>2, <3>1, <3>2, NextCases
<1>4. QED
  BY <1>1, <1>2, <1>3 DEF CaredFor

LEMMA StepProcessed ==
  TypeOK /\ Written /\ ProcessedIsStored /\ [Next]_vars => ProcessedIsStored'
<1> SUFFICES ASSUME TypeOK, Written, ProcessedIsStored, [Next]_vars
             PROVE  ProcessedIsStored'
  OBVIOUS
<1>1. Elements(processed) \subseteq Submission /\ validated \subseteq Submission
  BY SeqFacts DEF TypeOK, CacheTypes, StoreTypes, Elements
<1>2. /\ \A s \in Elements(processed) : CaredFor(s)'
      /\ \A s \in validated : (Stored(s) \/ s \in failed)'
  <2>1. /\ \A s \in Elements(processed) : CaredFor(s)
        /\ \A s \in validated : Stored(s) \/ s \in failed
    BY ProcessedParts
  <2>2. \A s \in Elements(processed) : CaredFor(s)'
    BY <1>1, <2>1, StepCaredFor
  <2>3. \A s \in validated : (Stored(s) \/ s \in failed)'
    BY <2>1, StoresGrow DEF Stored
  <2>4. QED
    BY <2>2, <2>3
<1>3. ASSUME NEW s \in Elements(processed)' PROVE CaredFor(s)'
  <2>1. ASSUME NEW w \in Worker, Remember(w) PROVE CaredFor(s)'
    <3>1. Current(w) \in Submission
      BY <2>1, CurrentType DEF Remember
    <3>2. Elements(processed)' \subseteq Elements(processed) \cup {Current(w)}
      <4>1. Elements(Insert(Current(w))) \subseteq Elements(processed) \cup {Current(w)}
        BY <3>1, InsertFacts DEF TypeOK
      <4>2. Elements(processed)' = Elements(Insert(Current(w)))
        BY <2>1 DEF Remember, Elements
      <4>3. QED
        BY <4>1, <4>2
    <3>3. CASE s = Current(w)
      <4>1. pc'[w] = "store" /\ Current(w)' = s
        BY <2>1, <3>3 DEF Remember, Goto, Current, TypeOK, WorkerTypes
      <4>2. QED
        BY <4>1 DEF CaredFor
    <3>4. QED
      BY <1>2, <1>3, <3>2, <3>3
  <2>2. CASE UNCHANGED processed
    BY <1>2, <1>3, <2>2 DEF Elements
  <2>3. QED
    <3>1. ASSUME NEW w \in Worker, WorkerStepOrFault(w), ~Remember(w)
          PROVE  UNCHANGED processed
      BY <3>1 DEF WorkerStepOrFault, WorkerStep, Pop, CheckDuplicate, Verify,
                  StoreResult, AddMember, ReportValidated, VerifyFails,
                  StoreFails, ReportFails
    <3>2. CASE NetworkStep \/ CollectorStep \/ UNCHANGED vars
      BY <2>2, <3>2, NetworkFrame, CollectorFrame DEF vars, workerVars
    <3>3. QED
      BY <2>1, <2>2, <3>1, <3>2, NextCases
<1>4. ASSUME NEW s \in validated' PROVE (Stored(s) \/ s \in failed)'
  <2>1. ASSUME NEW w \in Worker, ReportValidated(w)
        PROVE  (Stored(s) \/ s \in failed)'
    <3>1. Stored(Current(w)) \/ Current(w) \in failed
      BY <2>1 DEF ReportValidated, Written
    <3>2. validated' = validated \cup {Current(w)} /\ UNCHANGED <<results, members, failed>>
      BY <2>1 DEF ReportValidated, histVars
    <3>3. QED
      BY <1>2, <1>4, <3>1, <3>2 DEF Stored
  <2>2. CASE UNCHANGED validated
    BY <1>2, <1>4, <2>2
  <2>3. QED
    <3>1. ASSUME NEW w \in Worker, WorkerStepOrFault(w), ~ReportValidated(w)
          PROVE  UNCHANGED validated
      BY <3>1 DEF WorkerStepOrFault, WorkerStep, Pop, CheckDuplicate, Verify, Remember,
                  StoreResult, AddMember, VerifyFails, StoreFails, ReportFails,
                  storeVars
    <3>2. CASE NetworkStep \/ CollectorStep \/ UNCHANGED vars
      BY <2>2, <3>2, NetworkFrame, CollectorFrame DEF vars, storeVars
    <3>3. QED
      BY <2>1, <2>2, <3>1, <3>2, NextCases
<1>5. (\A s \in Elements(processed) : CaredFor(s))'
  BY <1>3
<1>6. (\A s \in validated : Stored(s) \/ s \in failed)'
  BY <1>4
<1>7. QED
  BY <1>5, <1>6 DEF ProcessedIsStored, CaredFor, Elements

-----------------------------------------------------------------------------
(* The theorems.                                                           *)

IInv ==
  /\ TypeOK /\ Verified /\ Written /\ VotesCounted
  /\ OnTimeKept /\ OnTimeCounted /\ ProcessedIsStored

LEMMA Inductive == Spec => []IInv
<1>1. Init => IInv
  <2> SUFFICES ASSUME Init PROVE IInv
    OBVIOUS
  <2>1. Verified /\ Written /\ VotesCounted
    BY BoundAssumption DEF Init, Verified, Written, VotesCounted
  <2>2. OnTimeKept /\ OnTimeCounted /\ ProcessedIsStored
    BY DEF Init, OnTimeKept, OnTimeCounted, ProcessedIsStored
  <2>3. QED
    BY <2>1, <2>2, InitType DEF IInv
<1>2. IInv /\ [Next]_vars => IInv'
  BY StepType, StepVerified, StepWritten, StepVotes, StepOnTime, StepProcessed DEF IInv
<1>3. QED
  BY <1>1, <1>2, PTL DEF Spec

(* Only verified submissions that are stored under the node's names are    *)
(* counted, however often a key is returned by SCAN.                       *)
THEOREM VotesAreVerified == Spec => []VotesVerified
<1>1. IInv => VotesVerified
  <2> SUFFICES ASSUME IInv, NEW s \in Submission, votes[s] > 0
               PROVE  s \in Valid /\ s \in Addressed /\ s \in results \cap members
    BY DEF VotesVerified
  <2>1. s \in results \cap members /\ members \subseteq Addressed
    BY DEF IInv, VotesCounted
  <2>2. results \subseteq Valid
    BY DEF IInv, Verified
  <2>3. QED
    BY <2>1, <2>2
<1>2. QED
  BY <1>1, Inductive, PTL

(* A submission a worker was done with when the collection began is        *)
(* counted, unless it is not addressed to the node or a Redis command      *)
(* failed on its behalf.                                                   *)
THEOREM CountedIfOnTime == Spec => []OnTimeCounted
<1>1. IInv => OnTimeCounted
  BY DEF IInv
<1>2. QED
  BY <1>1, Inductive, PTL

(* What the cache calls processed, so that later copies are skipped, is in *)
(* Redis, on its way there or lost to a failing command; so is what the    *)
(* monitoring keys call validated.                                         *)
THEOREM ProcessedKept == Spec => []ProcessedIsStored
<1>1. IInv => ProcessedIsStored
  BY DEF IInv
<1>2. QED
  BY <1>1, Inductive, PTL

=============================================================================
