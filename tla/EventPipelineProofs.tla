------------------------- MODULE EventPipelineProofs -------------------------
(***************************************************************************)
(* Proofs about EventPipeline, for any events and subscribers, any sizes   *)
(* of channel, pool and batch, and any number of failing publishes.        *)
(***************************************************************************)
EXTENDS EventPipeline, FiniteSetTheorems, TLAPS

-----------------------------------------------------------------------------
(* Sequences.                                                              *)

Distinct(s) == \A i, j \in DOMAIN s : s[i] = s[j] => i = j

LEMMA AppendFacts ==
  ASSUME NEW S, NEW s \in Seq(S), NEW x \in S
  PROVE  /\ Append(s, x) \in Seq(S) /\ Append(s, x) # <<>>
         /\ Len(Append(s, x)) = Len(s) + 1 /\ Len(s) \in Nat
         /\ Elements(Append(s, x)) = Elements(s) \cup {x}
         /\ Distinct(s) /\ x \notin Elements(s) => Distinct(Append(s, x))
<1>1. /\ Append(s, x) \in Seq(S) /\ Append(s, x) # <<>>
      /\ Len(Append(s, x)) = Len(s) + 1 /\ Len(s) \in Nat
      /\ DOMAIN Append(s, x) = 1 .. (Len(s) + 1) /\ DOMAIN s = 1 .. Len(s)
      /\ \A n \in 1 .. Len(s) : Append(s, x)[n] = s[n]
      /\ Append(s, x)[Len(s) + 1] = x
  OBVIOUS
<1> DEFINE t == Append(s, x)
<1> HIDE DEF t
<1>2. Elements(t) = Elements(s) \cup {x}
  BY <1>1 DEF Elements, t
<1>3. ASSUME Distinct(s), x \notin Elements(s) PROVE Distinct(t)
  <2>1. \A i \in 1 .. Len(s) : t[i] = s[i] /\ t[i] # x
    BY <1>1, <1>3 DEF Elements, t
  <2>2. QED
    BY <1>1, <1>3, <2>1 DEF Distinct, t
<1>4. QED
  BY <1>1, <1>2, <1>3 DEF t

LEMMA TailFacts ==
  ASSUME NEW S, NEW s \in Seq(S), s # <<>>
  PROVE  /\ Tail(s) \in Seq(S) /\ Len(Tail(s)) = Len(s) - 1 /\ Len(s) \in Nat
         /\ Head(s) \in S /\ Head(s) \in Elements(s)
         /\ Elements(s) = Elements(Tail(s)) \cup {Head(s)}
         /\ Distinct(s) => Distinct(Tail(s)) /\ Head(s) \notin Elements(Tail(s))
<1>1. /\ Tail(s) \in Seq(S) /\ Len(Tail(s)) = Len(s) - 1 /\ Len(s) \in Nat \ {0}
      /\ Head(s) \in S /\ Head(s) = s[1]
      /\ DOMAIN s = 1 .. Len(s) /\ DOMAIN Tail(s) = 1 .. (Len(s) - 1)
      /\ \A n \in 1 .. (Len(s) - 1) : Tail(s)[n] = s[n + 1]
  OBVIOUS
<1> DEFINE t == Tail(s)
<1> HIDE DEF t
<1>2. Head(s) \in Elements(s)
  BY <1>1 DEF Elements
<1>3. ASSUME NEW x \in Elements(s) PROVE x \in Elements(t) \cup {Head(s)}
  <2>1. PICK n \in 1 .. Len(s) : x = s[n]
    BY <1>1 DEF Elements
  <2>2. CASE n = 1
    BY <1>1, <2>1, <2>2
  <2>3. CASE n # 1
    <3>1. n - 1 \in 1 .. (Len(s) - 1) /\ (n - 1) + 1 = n
      BY <1>1, <2>3
    <3>2. t[n - 1] = x /\ n - 1 \in DOMAIN t
      BY <1>1, <2>1, <3>1 DEF t
    <3>3. QED
      BY <3>2 DEF Elements
  <2>4. QED
    BY <2>2, <2>3
<1>4. Elements(t) \subseteq Elements(s)
  BY <1>1 DEF Elements, t
<1>5. ASSUME Distinct(s) PROVE Distinct(t) /\ Head(s) \notin Elements(t)
  <2>1. \A i \in DOMAIN t : i \in Nat \ {0} /\ i + 1 \in DOMAIN s /\ t[i] = s[i + 1]
    BY <1>1 DEF t
  <2>2. ASSUME NEW i \in DOMAIN t, NEW j \in DOMAIN t, t[i] = t[j] PROVE i = j
    <3>1. i + 1 = j + 1
      BY <1>5, <2>1, <2>2 DEF Distinct
    <3>2. QED
      BY <2>1, <3>1
  <2>3. ASSUME NEW i \in DOMAIN t PROVE t[i] # Head(s)
    <3>1. i + 1 \in DOMAIN s /\ 1 \in DOMAIN s /\ i + 1 # 1
      BY <1>1, <2>1
    <3>2. QED
      BY <1>1, <1>5, <2>1, <3>1 DEF Distinct
  <2>4. QED
    BY <2>2, <2>3 DEF Distinct, Elements
<1>6. QED
  BY <1>1, <1>2, <1>3, <1>4, <1>5 DEF t

LEMMA EmptyFacts ==
  /\ Elements(<<>>) = {} /\ Distinct(<<>>) /\ Len(<<>>) = 0
  /\ \A S : <<>> \in Seq(S)
<1>1. DOMAIN <<>> = {} /\ Len(<<>>) = 0 /\ \A S : <<>> \in Seq(S)
  OBVIOUS
<1>2. QED
  BY <1>1 DEF Elements, Distinct

LEMMA ElementTypes ==
  ASSUME NEW S, NEW s \in Seq(S)
  PROVE  /\ Elements(s) \subseteq S /\ Len(s) \in Nat /\ DOMAIN s = 1 .. Len(s)
         /\ s # <<>> => Len(s) > 0
<1>1. Len(s) \in Nat /\ DOMAIN s = 1 .. Len(s) /\ \A i \in DOMAIN s : s[i] \in S
  OBVIOUS
<1>2. s # <<>> => Len(s) > 0
  OBVIOUS
<1>3. QED
  BY <1>1, <1>2 DEF Elements

-----------------------------------------------------------------------------
(* The steps by actor, and what those of each actor leave alone.           *)

EmitStep(ev) == EmitCheck(ev) \/ EmitSend(ev) \/ EmitBlocked(ev)
HandlersStep(ev) == PublishStep(ev) \/ \E s \in Subscriber : HandlerReturns(ev, s)
SubscriptionStep == \E s \in Subscriber : Unsubscribe(s)
BatchStep == Flight \/ FlushBatch \/ PublisherStop \/ PublisherStopped

LEMMA NextCases ==
  ASSUME [Next]_vars
  PROVE  \/ Start \/ EmitterStop \/ EmitterClose \/ SubscriptionStep
         \/ \E ev \in Event : EmitStep(ev) \/ Worker(ev) \/ HandlersStep(ev)
         \/ Processor \/ BatchStep \/ UNCHANGED vars
BY DEF Next, Stopping, EmitStep, HandlersStep, SubscriptionStep, BatchStep

LEMMA EmitFrame ==
  ASSUME NEW ev \in Event, EmitStep(ev)
  PROVE  UNCHANGED <<emitterVars, handleVars, publisherVars, batching>>
BY DEF EmitStep, EmitCheck, EmitSend, EmitBlocked

LEMMA ProcessorFrame ==
  ASSUME Processor
  PROVE  UNCHANGED <<call, emitter, graceful, waiting, handler, subscribers,
                     impatient, publisherVars, batching>>
BY DEF Processor, ProcTake, ProcDispatch, ProcAbandon, ProcCancelled, ProcClosed,
       DrainTake, DrainEmpty, DrainTimeout, callVars, handleVars

LEMMA WorkerFrame ==
  ASSUME NEW ev \in Event, Worker(ev)
  PROVE  UNCHANGED <<callVars, emitter, graceful, procPc, drained, subscribers,
                     publisherVars, batching>>
BY DEF Worker, Notify, NotifyTimeout, HandleEnd, emitterVars, handleVars

LEMMA HandlersFrame ==
  ASSUME NEW ev \in Event, HandlersStep(ev)
  PROVE  UNCHANGED <<callVars, emitterVars, todo, subscribers, impatient, publisher,
                     batching>>
BY DEF HandlersStep, PublishStep, HandlerReturns, PublishCheck, AddToBatch, PublishSingle,
       publisherVars

LEMMA BatchFrame ==
  ASSUME BatchStep
  PROVE  UNCHANGED <<callVars, emitterVars, handleVars, batching>>
BY DEF BatchStep, Flight, PublishBatchCheck, PublishBatchExec, FlushBatch,
       PublisherStop, PublisherStopped

LEMMA SetupFrame ==
  ASSUME Start \/ EmitterStop \/ EmitterClose \/ SubscriptionStep \/ UNCHANGED vars
  PROVE  UNCHANGED <<callVars, held, tokens, workers, drained, todo, waiting, handler,
                     impatient, batch, timer, flights, published, failed, faults,
                     batching>>
BY DEF Start, EmitterStop, EmitterClose, SubscriptionStep, Unsubscribe, vars,
       emitterVars, handleVars, publisherVars

(* What an Emit call does: it sends its event, or does not.                *)
LEMMA EmitCases ==
  ASSUME EmitterTypes, NEW ev \in Event, EmitStep(ev)
  PROVE  \/ /\ call[ev] \in {"checked", "blocked"}
            /\ ~Closed /\ Len(eventChan) < BufferSize /\ Send(ev)
         \/ /\ call[ev] \in {"idle", "checked", "blocked"} /\ UNCHANGED eventChan
            /\ \E r \in {"checked", "refused", "panic", "dropped", "blocked"} :
                 call' = [call EXCEPT ![ev] = r]
<1> USE DEF CallStates
<1>1. CASE EmitCheck(ev)
  <2>1. call' = [call EXCEPT ![ev] = "checked"] \/ call' = [call EXCEPT ![ev] = "refused"]
    BY <1>1 DEF EmitCheck
  <2>2. QED
    BY <1>1, <2>1 DEF EmitCheck
<1>2. CASE EmitSend(ev)
  BY <1>2 DEF EmitSend, Outcome
<1>3. CASE EmitBlocked(ev)
  BY <1>3 DEF EmitBlocked, Outcome
<1>4. QED
  BY <1>1, <1>2, <1>3 DEF EmitStep

-----------------------------------------------------------------------------
(* Type correctness, but for the tokens.                                   *)

BaseTypes == EmitterTypes /\ HandlerTypes /\ PublisherTypes /\ workers \subseteq Event

LEMMA InitTypes == Init => BaseTypes /\ FlagTypes
<1> SUFFICES ASSUME Init PROVE BaseTypes /\ FlagTypes
  OBVIOUS
<1>1. EmitterTypes /\ workers \subseteq Event
  BY SizeAssumption, EmptyFacts DEF Init, EmitterTypes, CallStates
<1>2. HandlerTypes
  BY DEF Init, HandlerTypes, HandlerStates
<1>3. PublisherTypes
  BY SizeAssumption, EmptyFacts DEF Init, PublisherTypes
<1>4. FlagTypes
  BY DEF Init, FlagTypes
<1>5. QED
  BY <1>1, <1>2, <1>3, <1>4 DEF BaseTypes

LEMMA StepEmitterTypes ==
  BaseTypes /\ [Next]_vars => EmitterTypes' /\ workers' \subseteq Event
<1> SUFFICES ASSUME BaseTypes, [Next]_vars
             PROVE  EmitterTypes' /\ workers' \subseteq Event
  OBVIOUS
<1> USE DEF BaseTypes, EmitterTypes, emitterVars, callVars
<1>1. ASSUME NEW ev \in Event, EmitStep(ev)
      PROVE  EmitterTypes' /\ workers' \subseteq Event
  <2>1. UNCHANGED emitterVars
    BY <1>1, EmitFrame
  <2>2. CASE Len(eventChan) < BufferSize /\ Send(ev)
    <3>1. eventChan' \in Seq(Event) /\ Len(eventChan') <= BufferSize
      BY <2>2, AppendFacts, SizeAssumption DEF Send
    <3>2. call' \in [Event -> CallStates]
      BY <2>2 DEF Send, CallStates
    <3>3. QED
      BY <2>1, <3>1, <3>2
  <2>3. CASE /\ UNCHANGED eventChan
             /\ \E r \in {"checked", "refused", "panic", "dropped", "blocked"} :
                  call' = [call EXCEPT ![ev] = r]
    BY <2>1, <2>3 DEF CallStates
  <2>4. QED
    BY <1>1, <2>2, <2>3, EmitCases
<1>2. CASE Processor
  <2>1. UNCHANGED <<call, emitter>>
    BY <1>2, ProcessorFrame
  <2>2. eventChan # <<>> =>
          /\ Head(eventChan) \in Event /\ Tail(eventChan) \in Seq(Event)
          /\ Len(Tail(eventChan)) <= BufferSize
    BY TailFacts, SizeAssumption
  <2>3. CASE ProcTake
    BY <2>1, <2>2, <2>3 DEF ProcTake
  <2>4. CASE DrainTake
    BY <2>1, <2>2, <2>4 DEF DrainTake
  <2>5. CASE ~ProcTake /\ ~DrainTake
    BY <1>2, <2>1, <2>5
       DEF Processor, ProcDispatch, ProcAbandon, ProcCancelled, ProcClosed,
           DrainEmpty, DrainTimeout
  <2>6. QED
    BY <2>3, <2>4, <2>5
<1>3. ASSUME NEW ev \in Event, Worker(ev)
      PROVE  EmitterTypes' /\ workers' \subseteq Event
  BY <1>3 DEF Worker, Notify, NotifyTimeout, HandleEnd
<1>4. ASSUME NEW ev \in Event, HandlersStep(ev)
      PROVE  EmitterTypes' /\ workers' \subseteq Event
  BY <1>4, HandlersFrame
<1>5. CASE BatchStep
  BY <1>5, BatchFrame
<1>6. CASE Start \/ EmitterStop \/ EmitterClose \/ SubscriptionStep \/ UNCHANGED vars
  <2>1. UNCHANGED <<callVars, held, workers>>
    BY <1>6, SetupFrame
  <2>2. /\ emitter' \in {emitter, "running", "stopping", "closed"}
        /\ procPc' \in {procPc, "select"}
    BY <1>6 DEF Start, EmitterStop, EmitterClose, SubscriptionStep, Unsubscribe, vars
  <2>3. QED
    BY <2>1, <2>2
<1>7. QED
  BY <1>1, <1>2, <1>3, <1>4, <1>5, <1>6, NextCases

LEMMA StepHandlerTypes == BaseTypes /\ [Next]_vars => HandlerTypes'
<1> SUFFICES ASSUME BaseTypes, [Next]_vars PROVE HandlerTypes'
  OBVIOUS
<1> USE PublisherAssumption DEF BaseTypes, HandlerTypes, handleVars, HandlerStates
<1>1. CASE Processor
  <2>1. UNCHANGED <<waiting, handler, subscribers>>
    BY <1>1, ProcessorFrame
  <2>2. UNCHANGED todo \/ \E ev \in Event : Snapshot(ev)
    <3>1. held \subseteq Event /\ (eventChan # <<>> => Head(eventChan) \in Event)
      BY TailFacts DEF EmitterTypes
    <3>2. QED
      BY <1>1, <3>1 DEF Processor, ProcTake, ProcDispatch, ProcAbandon, ProcCancelled,
                  ProcClosed, DrainTake, DrainEmpty, DrainTimeout
  <2>3. todo' \in [Event -> SUBSET Subscriber]
    BY <2>2 DEF Snapshot
  <2>4. QED
    BY <2>1, <2>3
<1>2. ASSUME NEW ev \in Event, Worker(ev) PROVE HandlerTypes'
  <2>1. ASSUME NEW s \in Subscriber, Notify(ev, s) PROVE HandlerTypes'
    BY <2>1 DEF Notify
  <2>2. QED
    BY <1>2, <2>1 DEF Worker, NotifyTimeout, HandleEnd
<1>3. ASSUME NEW ev \in Event, HandlersStep(ev) PROVE HandlerTypes'
  <2>1. ASSUME NEW s \in Subscriber, HandlerDone(ev, s)
        PROVE  /\ waiting' \in [Event -> Subscriber \cup {NoOne}]
               /\ handler' \in [Event -> [Subscriber -> HandlerStates]]
    BY <2>1 DEF HandlerDone
  <2>2. ASSUME NEW l \in HandlerStates, HandlerGoes(ev, l)
        PROVE  /\ waiting' \in [Event -> Subscriber \cup {NoOne}]
               /\ handler' \in [Event -> [Subscriber -> HandlerStates]]
    BY <2>2 DEF HandlerGoes
  <2>3. \/ \E s \in Subscriber : HandlerDone(ev, s)
        \/ \E l \in HandlerStates : HandlerGoes(ev, l)
    BY <1>3 DEF HandlersStep, PublishStep, PublishCheck, AddToBatch, PublishSingle,
                HandlerReturns
  <2>4. QED
    BY <1>3, <2>1, <2>2, <2>3, HandlersFrame
<1>4. ASSUME NEW ev \in Event, EmitStep(ev) PROVE HandlerTypes'
  BY <1>4, EmitFrame
<1>5. CASE BatchStep
  BY <1>5, BatchFrame
<1>6. CASE Start \/ EmitterStop \/ EmitterClose \/ SubscriptionStep \/ UNCHANGED vars
  <2>1. subscribers' \subseteq Subscriber
    BY <1>6 DEF Start, EmitterStop, EmitterClose, SubscriptionStep, Unsubscribe, vars
  <2>2. QED
    BY <1>6, <2>1, SetupFrame
<1>7. QED
  BY <1>1, <1>2, <1>3, <1>4, <1>5, <1>6, NextCases

(* The flights that flushing events makes.                                 *)
LEMMA FlushTypes ==
  ASSUME PublisherTypes, NEW evs \in Seq(Event), FlushBatchLocked(evs)
  PROVE  /\ batch' \in Seq(Event) /\ Len(batch') < BatchSize
         /\ flights' \subseteq [events : Seq(Event), stage : {"check", "exec"}]
BY EmptyFacts, SizeAssumption DEF FlushBatchLocked, PublisherTypes

LEMMA StepPublisherTypes == BaseTypes /\ [Next]_vars => PublisherTypes'
<1> SUFFICES ASSUME BaseTypes, [Next]_vars PROVE PublisherTypes'
  OBVIOUS
<1> USE DEF BaseTypes, publisherVars
<1>1. ASSUME NEW ev \in Event, AddToBatch(ev) PROVE PublisherTypes'
  <2> DEFINE evs == Append(batch, ev)
  <2>1. evs \in Seq(Event) /\ Len(evs) \in Nat
    BY AppendFacts DEF PublisherTypes
  <2>2. CASE FlushBatchLocked(evs)
    BY <1>1, <2>1, <2>2, FlushTypes DEF AddToBatch, PublisherTypes
  <2>3. CASE Len(evs) < BatchSize /\ batch' = evs /\ UNCHANGED flights
    BY <1>1, <2>1, <2>3 DEF AddToBatch, PublisherTypes
  <2>4. QED
    BY <1>1, <2>1, <2>2, <2>3, SizeAssumption DEF AddToBatch
<1>2. ASSUME NEW ev \in Event, PublishCheck(ev) \/ PublishSingle(ev)
      PROVE  PublisherTypes'
  <2>1. published' = published \/ published' = [published EXCEPT ![ev] = @ + 1]
    BY <1>2 DEF PublishCheck, PublishSingle
  <2>2. failed' \subseteq Event /\ published' \in [Event -> Nat]
    BY <1>2, <2>1 DEF PublishCheck, PublishSingle, PublisherTypes
  <2>3. faults' \in 0 .. MaxFaults
    BY <1>2, SizeAssumption DEF PublishCheck, PublishSingle, PublisherTypes
  <2>4. UNCHANGED <<publisher, batch, flights>>
    BY <1>2 DEF PublishCheck, PublishSingle
  <2>5. QED
    BY <2>2, <2>3, <2>4 DEF PublisherTypes
<1>3. ASSUME NEW f \in flights, PublishBatchCheck(f) PROVE PublisherTypes'
  <2>1. f \in [events : Seq(Event), stage : {"check", "exec"}]
    BY DEF PublisherTypes
  <2>2. /\ [f EXCEPT !.stage = "exec"] \in [events : Seq(Event), stage : {"check", "exec"}]
        /\ Elements(f.events) \subseteq Event
    BY <2>1, ElementTypes
  <2>3. QED
    BY <1>3, <2>2 DEF PublishBatchCheck, PublisherTypes
<1>4. ASSUME NEW f \in flights, PublishBatchExec(f) PROVE PublisherTypes'
  <2>1. f \in [events : Seq(Event), stage : {"check", "exec"}]
    BY DEF PublisherTypes
  <2>2. PICK n \in 0 .. Len(f.events) :
          /\ IF n = Len(f.events)
             THEN ~PubCancelled /\ UNCHANGED faults
             ELSE /\ PubCancelled \/ faults < MaxFaults
                  /\ faults' = IF PubCancelled THEN faults ELSE faults + 1
          /\ published' = [ev \in Event |->
               published[ev] + Cardinality({i \in 1..n : f.events[i] = ev})]
          /\ failed' = failed \cup {f.events[i] : i \in (n + 1)..Len(f.events)}
    BY <1>4 DEF PublishBatchExec
  <2>3. faults' \in 0 .. MaxFaults
    BY <2>2, SizeAssumption DEF PublisherTypes
  <2>4. f.events \in Seq(Event) /\ Len(f.events) \in Nat
    BY <2>1, ElementTypes
  <2>5. failed' \subseteq Event
    <3>1. \A i \in (n + 1) .. Len(f.events) : i \in DOMAIN f.events /\ f.events[i] \in Event
      BY <2>2, <2>4
    <3>2. QED
      BY <2>2, <3>1 DEF PublisherTypes
  <2>6. published' \in [Event -> Nat]
    <3>1. ASSUME NEW ev \in Event
          PROVE  Cardinality({i \in 1..n : f.events[i] = ev}) \in Nat
      <4>1. IsFiniteSet(1 .. n)
        BY <2>2, <2>4, FS_Interval
      <4>2. IsFiniteSet({i \in 1..n : f.events[i] = ev})
        BY <4>1, FS_Subset
      <4>3. QED
        BY <4>2, FS_CardinalityType
    <3>2. \A ev \in Event : published[ev] \in Nat
      BY DEF PublisherTypes
    <3>3. QED
      BY <2>2, <3>1, <3>2
  <2>7. flights' = flights \ {f} /\ UNCHANGED <<publisher, batch>>
    BY <1>4 DEF PublishBatchExec
  <2>8. QED
    BY <2>3, <2>5, <2>6, <2>7 DEF PublisherTypes
<1>5. CASE FlushBatch
  <2>1. batch \in Seq(Event)
    BY DEF PublisherTypes
  <2>2. QED
    BY <1>5, <2>1, FlushTypes DEF FlushBatch, PublisherTypes
<1>6. CASE PublisherStop \/ PublisherStopped
  <2>1. batch \in Seq(Event)
    BY DEF PublisherTypes
  <2>2. QED
    BY <1>6, <2>1, FlushTypes DEF PublisherStop, PublisherStopped, PublisherTypes
<1>7. ASSUME NEW ev \in Event, EmitStep(ev) \/ Worker(ev) \/
                               \E s \in Subscriber : HandlerReturns(ev, s)
      PROVE  PublisherTypes'
  <2>1. UNCHANGED publisherVars
    BY <1>7, EmitFrame, WorkerFrame DEF HandlerReturns
  <2>2. QED
    BY <2>1 DEF PublisherTypes
<1>8. CASE Processor
  BY <1>8, ProcessorFrame DEF PublisherTypes
<1>9. CASE Start \/ EmitterStop \/ EmitterClose \/ SubscriptionStep \/ UNCHANGED vars
  <2>1. publisher' \in {publisher, "running"}
    BY <1>9 DEF Start, EmitterStop, EmitterClose, SubscriptionStep, Unsubscribe, vars
  <2>2. QED
    BY <1>9, <2>1, SetupFrame DEF PublisherTypes
<1>10. QED
  BY <1>1, <1>2, <1>3, <1>4, <1>5, <1>6, <1>7, <1>8, <1>9, NextCases
     DEF HandlersStep, PublishStep, BatchStep, Flight

LEMMA StepBase == BaseTypes /\ [Next]_vars => BaseTypes'
BY StepEmitterTypes, StepHandlerTypes, StepPublisherTypes DEF BaseTypes

LEMMA StepFlags == FlagTypes /\ [Next]_vars => FlagTypes'
<1> SUFFICES ASSUME FlagTypes, [Next]_vars PROVE FlagTypes'
  OBVIOUS
<1>1. UNCHANGED batching
  BY NextCases, EmitFrame, ProcessorFrame, WorkerFrame, HandlersFrame, BatchFrame, SetupFrame
<1>2. graceful' = graceful \/ graceful' = (procPc = "done" /\ workers = {})
  <2>1. CASE Start \/ EmitterStop \/ EmitterClose \/ SubscriptionStep \/ UNCHANGED vars
    BY <2>1 DEF Start, EmitterStop, EmitterClose, SubscriptionStep, Unsubscribe, vars,
                emitterVars
  <2>2. QED
    BY <2>1, NextCases, EmitFrame, ProcessorFrame, WorkerFrame, HandlersFrame, BatchFrame
       DEF emitterVars
<1>3. drained' = drained \/ drained' = TRUE
  <2>1. CASE Processor
    BY <2>1 DEF Processor, ProcTake, ProcDispatch, ProcAbandon, ProcCancelled, ProcClosed,
                DrainTake, DrainEmpty, DrainTimeout
  <2>2. QED
    BY <2>1, NextCases, EmitFrame, WorkerFrame, HandlersFrame, BatchFrame, SetupFrame
       DEF emitterVars
<1>4. impatient' = impatient \/ impatient' = TRUE
  <2>1. ASSUME NEW ev \in Event, Worker(ev) PROVE impatient' = impatient \/ impatient' = TRUE
    BY <2>1 DEF Worker, Notify, NotifyTimeout, HandleEnd, handleVars
  <2>2. QED
    BY <2>1, NextCases, EmitFrame, ProcessorFrame, HandlersFrame, BatchFrame, SetupFrame
       DEF handleVars
<1>5. timer' = timer \/ timer' = TRUE \/ timer' = FALSE
  <2>1. CASE BatchStep
    BY <2>1 DEF BatchStep, Flight, PublishBatchCheck, PublishBatchExec, FlushBatch,
                PublisherStop, PublisherStopped, FlushBatchLocked
  <2>2. ASSUME NEW ev \in Event, HandlersStep(ev)
        PROVE  timer' = timer \/ timer' = TRUE \/ timer' = FALSE
    BY <2>2 DEF HandlersStep, PublishStep, HandlerReturns, PublishCheck, AddToBatch,
                PublishSingle, FlushBatchLocked, publisherVars
  <2>3. QED
    BY <2>1, <2>2, NextCases, EmitFrame, ProcessorFrame, WorkerFrame, SetupFrame
       DEF publisherVars
<1>6. QED
  BY <1>1, <1>2, <1>3, <1>4, <1>5 DEF FlagTypes

-----------------------------------------------------------------------------
(* The life of emitter and publisher.                                      *)

Life ==
  /\ emitter = "new" => procPc = "off"
  /\ emitter = "new" <=> publisher = "new"
  /\ Running => procPc \in {"select", "token"}
  /\ procPc # "off" => Publisher \in subscribers
  /\ emitter \in {"running", "stopping"} => publisher = "running"
  /\ graceful => Closed /\ procPc = "done" /\ workers = {}
  /\ drained => procPc = "done" /\ Cancelled
  /\ \A ev \in Event : /\ call[ev] = "late" => Cancelled
                       /\ emitter = "new" => call[ev] = "idle"

LEMMA StepLife == BaseTypes /\ FlagTypes /\ Life /\ [Next]_vars => Life'
<1> SUFFICES ASSUME BaseTypes, Life, [Next]_vars PROVE Life'
  OBVIOUS
<1> USE DEF Life, Running, Closed, Cancelled, emitterVars, callVars, handleVars, publisherVars
<1>1. ASSUME NEW ev \in Event, EmitStep(ev) PROVE Life'
  <2>1. UNCHANGED <<emitterVars, handleVars, publisherVars>>
    BY <1>1, EmitFrame
  <2>2. \A x \in Event : call'[x] = "late" => call[x] = "late" \/ Cancelled
    <3>1. CASE Send(ev) /\ call[ev] \in {"checked", "blocked"}
      <4>1. emitter # "new" => Running \/ Cancelled
        BY DEF BaseTypes, EmitterTypes
      <4>2. emitter # "new"
        BY <3>1
      <4>3. QED
        BY <3>1, <4>1, <4>2 DEF Send, BaseTypes, EmitterTypes
    <3>2. CASE \E r \in {"checked", "refused", "panic", "dropped", "blocked"} :
                 call' = [call EXCEPT ![ev] = r]
      BY <3>2 DEF BaseTypes, EmitterTypes
    <3>3. QED
      BY <1>1, <3>1, <3>2, EmitCases DEF BaseTypes
  <2>3. emitter # "new"
    BY <1>1 DEF EmitStep, EmitCheck, EmitSend, EmitBlocked
  <2>4. QED
    BY <2>1, <2>2, <2>3
<1>2. CASE Processor
  <2>1. UNCHANGED <<call, emitter, graceful, subscribers, publisher>>
    BY <1>2, ProcessorFrame
  <2>2. /\ procPc \notin {"off", "done"} /\ procPc' # "off"
        /\ procPc' \in {"drain", "done"} => procPc = "drain" \/ Cancelled
        /\ drained' = drained \/ (procPc' = "done" /\ procPc = "drain")
    BY <1>2 DEF Processor, ProcTake, ProcDispatch, ProcAbandon, ProcCancelled, ProcClosed,
                DrainTake, DrainEmpty, DrainTimeout
  <2>3. procPc = "drain" => Cancelled
    BY DEF BaseTypes, EmitterTypes
  <2>4. ~graceful /\ ~drained
    BY <2>2
  <2>5. Running => procPc' \in {"select", "token"}
    BY <1>2, <2>3 DEF Processor, ProcTake, ProcDispatch, ProcAbandon, ProcCancelled, ProcClosed,
                DrainTake, DrainEmpty, DrainTimeout
  <2>6. QED
    BY <2>1, <2>2, <2>3, <2>4, <2>5
<1>3. ASSUME NEW ev \in Event, Worker(ev) PROVE Life'
  <2>1. workers' \subseteq workers
    BY <1>3 DEF Worker, Notify, NotifyTimeout, HandleEnd
  <2>2. QED
    BY <1>3, <2>1, WorkerFrame
<1>4. ASSUME NEW ev \in Event, HandlersStep(ev) PROVE Life'
  BY <1>4, HandlersFrame
<1>5. CASE BatchStep
  <2>1. UNCHANGED <<callVars, emitterVars, handleVars>>
    BY <1>5, BatchFrame
  <2>2. \/ UNCHANGED publisher
        \/ Closed /\ publisher = "running" /\ publisher' = "stopping"
        \/ publisher = "stopping" /\ publisher' = "stopped"
    BY <1>5 DEF BatchStep, Flight, PublishBatchCheck, PublishBatchExec, FlushBatch,
                PublisherStop, PublisherStopped
  <2>3. QED
    BY <2>1, <2>2
<1>6. CASE Start
  BY <1>6, PublisherAssumption DEF Start
<1>7. CASE EmitterStop \/ EmitterClose
  <2>1. CASE EmitterStop
    BY <2>1 DEF EmitterStop
  <2>2. CASE EmitterClose
    <3>1. graceful' => procPc = "done" /\ workers = {}
      BY <2>2 DEF EmitterClose
    <3>2. /\ emitter = "stopping" /\ emitter' = "closed"
          /\ UNCHANGED <<call, procPc, workers, drained, subscribers, publisher>>
      BY <2>2 DEF EmitterClose
    <3>3. QED
      BY <3>1, <3>2
  <2>3. QED
    BY <1>7, <2>1, <2>2
<1>8. CASE SubscriptionStep \/ UNCHANGED vars
  BY <1>8 DEF SubscriptionStep, Unsubscribe, vars
<1>9. QED
  BY <1>1, <1>2, <1>3, <1>4, <1>5, <1>6, <1>7, <1>8, NextCases

-----------------------------------------------------------------------------
(* Where an event is in the emitter.                                       *)

(* Nobody has begun to handle the event.                                   *)
Fresh(ev) ==
  /\ ev \notin workers /\ todo[ev] = {} /\ waiting[ev] = NoOne
  /\ handler[ev][Publisher] = "none"

(* An event is in one place: still with its caller, in the channel, with   *)
(* the processor, or handled.                                              *)
Place(ev) ==
  /\ ~Accepted(ev) => Fresh(ev) /\ ev \notin Elements(eventChan) /\ ev \notin held
  /\ ev \in Elements(eventChan) => Fresh(ev) /\ ev \notin held
  /\ ev \in held => /\ ev \notin workers /\ procPc \in {"token", "drain"}
                    /\ procPc = "token" => Fresh(ev)
  /\ todo[ev] # {} \/ waiting[ev] # NoOne => ev \in Handling
  /\ Publisher \in todo[ev] => handler[ev][Publisher] = "none"

Placed == Distinct(eventChan) /\ \A ev \in Event : Place(ev)

LEMMA PlaceFrame ==
  ASSUME NEW ev \in Event, Place(ev), Accepted(ev)' = Accepted(ev),
         ev \in Elements(eventChan)' <=> ev \in Elements(eventChan),
         ev \in workers' <=> ev \in workers, ev \in held' <=> ev \in held,
         procPc' = procPc, todo'[ev] = todo[ev], waiting'[ev] \in {waiting[ev], NoOne},
         handler'[ev][Publisher] = handler[ev][Publisher]
  PROVE  Place(ev)'
BY DEF Place, Fresh, Handling

LEMMA PlaceEmit ==
  ASSUME BaseTypes, Placed, NEW ev \in Event, EmitStep(ev)
  PROVE  Placed'
<1>1. UNCHANGED <<emitterVars, handleVars>>
  BY EmitFrame
<1>2. CASE call[ev] \in {"checked", "blocked"} /\ Send(ev)
  <2>1. ~Accepted(ev) /\ Place(ev)
    BY <1>2 DEF Accepted, Placed
  <2>2. /\ Elements(eventChan)' = Elements(eventChan) \cup {ev}
        /\ Distinct(eventChan)'
    <3>1. ev \notin Elements(eventChan) /\ eventChan \in Seq(Event)
      BY <2>1 DEF Place, BaseTypes, EmitterTypes
    <3>2. Elements(Append(eventChan, ev)) = Elements(eventChan) \cup {ev}
          /\ Distinct(Append(eventChan, ev))
      BY <3>1, AppendFacts DEF Placed
    <3>3. eventChan' = Append(eventChan, ev)
      BY <1>2 DEF Send
    <3>4. QED
      BY <3>2, <3>3 DEF Elements, Distinct
  <2>3. ASSUME NEW x \in Event PROVE Place(x)'
    <3>1. CASE x = ev
      <4>1. Accepted(ev)'
        BY <1>2 DEF Send, Accepted, BaseTypes, EmitterTypes
      <4>2. QED
        BY <1>1, <2>1, <2>2, <3>1, <4>1 DEF Place, Fresh, Handling, emitterVars, handleVars
    <3>2. CASE x # ev
      <4>1. Accepted(x)' = Accepted(x)
        BY <1>2, <3>2 DEF Send, Accepted, BaseTypes, EmitterTypes
      <4>2. QED
        BY <1>1, <2>2, <3>2, <4>1, PlaceFrame DEF Placed, emitterVars, handleVars
    <3>3. QED
      BY <3>1, <3>2
  <2>4. QED
    BY <2>2, <2>3 DEF Placed
<1>3. CASE /\ call[ev] \in {"idle", "checked", "blocked"} /\ UNCHANGED eventChan
           /\ \E r \in {"checked", "refused", "panic", "dropped", "blocked"} :
                call' = [call EXCEPT ![ev] = r]
  <2>1. \A x \in Event : Accepted(x)' = Accepted(x)
    BY <1>3 DEF Accepted, BaseTypes, EmitterTypes
  <2>2. Elements(eventChan)' = Elements(eventChan) /\ Distinct(eventChan)'
    BY <1>3 DEF Elements, Distinct, Placed
  <2>3. \A x \in Event : Place(x)'
    BY <1>1, <2>1, <2>2, PlaceFrame DEF Placed, emitterVars, handleVars
  <2>4. QED
    BY <2>2, <2>3 DEF Placed
<1>4. QED
  BY <1>2, <1>3, EmitCases DEF BaseTypes

(* The processor takes the first event of the channel.                     *)
LEMMA HeadPlace ==
  ASSUME BaseTypes, Placed, eventChan # <<>>, NEW h, h = Head(eventChan),
         eventChan' = Tail(eventChan), UNCHANGED call
  PROVE  /\ h \in Event /\ h \in Elements(eventChan) /\ Accepted(h)
         /\ Elements(eventChan)' = Elements(eventChan) \ {h} /\ Distinct(eventChan)'
         /\ Fresh(h)
<1>1. /\ h \in Event /\ h \in Elements(eventChan)
      /\ Elements(eventChan) = Elements(Tail(eventChan)) \cup {h}
      /\ Distinct(Tail(eventChan)) /\ h \notin Elements(Tail(eventChan))
  BY TailFacts DEF BaseTypes, EmitterTypes, Placed
<1>2. Elements(eventChan)' = Elements(Tail(eventChan)) /\ Distinct(eventChan)'
  BY <1>1 DEF Elements, Distinct
<1>3. Place(h)
  BY <1>1 DEF Placed
<1>4. QED
  BY <1>1, <1>2, <1>3 DEF Place

LEMMA PlaceProcessor ==
  ASSUME BaseTypes, Placed, Processor
  PROVE  Placed'
<1>1. UNCHANGED <<call, emitter, waiting, handler, subscribers>>
  BY ProcessorFrame
<1>2. \A x \in Event : Accepted(x)' = Accepted(x)
  BY <1>1 DEF Accepted
<1>3. procPc \notin {"token", "drain"} => held = {}
  BY DEF Placed, Place, BaseTypes, EmitterTypes
<1>4. CASE ProcTake
  <2> DEFINE h == Head(eventChan)
  <2>1. /\ procPc = "select" /\ procPc' = "token" /\ held = {} /\ held' = {h}
        /\ UNCHANGED <<workers, todo>>
    BY <1>3, <1>4 DEF ProcTake, handleVars
  <2>2. /\ h \in Event /\ h \in Elements(eventChan) /\ Accepted(h) /\ Fresh(h)
        /\ Elements(eventChan)' = Elements(eventChan) \ {h} /\ Distinct(eventChan)'
    BY <1>4, HeadPlace DEF ProcTake
  <2> HIDE DEF h
  <2>3. ASSUME NEW x \in Event PROVE Place(x)'
    BY <1>1, <1>2, <2>1, <2>2 DEF Placed, Place, Fresh, Handling
  <2>4. QED
    BY <2>2, <2>3 DEF Placed
<1>5. CASE DrainTake
  <2> DEFINE h == Head(eventChan)
  <2>1. /\ procPc = "drain" /\ procPc' = "drain" /\ held = {} /\ held' = {h}
        /\ UNCHANGED workers
        /\ todo' = [todo EXCEPT ![h] = {s \in subscribers : h \in Types[s]}]
    BY <1>5 DEF DrainTake, Snapshot
  <2>2. /\ h \in Event /\ h \in Elements(eventChan) /\ Accepted(h) /\ Fresh(h)
        /\ Elements(eventChan)' = Elements(eventChan) \ {h} /\ Distinct(eventChan)'
    BY <1>5, HeadPlace DEF DrainTake
  <2> HIDE DEF h
  <2>3. ASSUME NEW x \in Event PROVE Place(x)'
    <3>1. CASE x = h
      BY <1>1, <1>2, <2>1, <2>2, <3>1 DEF Place, Fresh, Handling
    <3>2. CASE x # h
      <4>1. todo'[x] = todo[x]
        BY <2>1, <3>2 DEF BaseTypes, HandlerTypes
      <4>2. QED
        BY <1>1, <1>2, <2>1, <2>2, <3>2, <4>1 DEF Placed, Place, Fresh, Handling
    <3>3. QED
      BY <3>1, <3>2
  <2>4. QED
    BY <2>2, <2>3 DEF Placed
<1>6. CASE ~ProcTake /\ ~DrainTake
  <2>1. UNCHANGED eventChan
    BY <1>6 DEF Processor, ProcDispatch, ProcAbandon, ProcCancelled, ProcClosed,
                DrainEmpty, DrainTimeout, callVars
  <2>2. Elements(eventChan)' = Elements(eventChan) /\ Distinct(eventChan)'
    BY <2>1 DEF Elements, Distinct, Placed
  <2>3. CASE ProcDispatch
    <3>1. PICK ev \in held : workers' = workers \cup {ev} /\ Snapshot(ev)
      BY <2>3 DEF ProcDispatch
    <3>2. /\ procPc = "token" /\ procPc' = "select" /\ held' = {} /\ held = {ev}
          /\ ev \in Event
      BY <2>3, <3>1 DEF ProcDispatch, BaseTypes, EmitterTypes
    <3>3. Place(ev) /\ Fresh(ev) /\ Accepted(ev)
      BY <3>1, <3>2 DEF Placed, Place
    <3>4. ASSUME NEW x \in Event PROVE Place(x)'
      <4>1. CASE x = ev
        BY <1>1, <1>2, <2>2, <3>1, <3>2, <3>3, <4>1 DEF Place, Fresh, Handling
      <4>2. CASE x # ev
        <5>1. todo'[x] = todo[x]
          BY <3>1, <4>2 DEF Snapshot, BaseTypes, HandlerTypes
        <5>2. QED
          BY <1>1, <1>2, <2>2, <3>1, <3>2, <4>2, <5>1 DEF Placed, Place, Fresh, Handling
      <4>3. QED
        BY <4>1, <4>2
    <3>5. QED
      BY <2>2, <3>4 DEF Placed
  <2>4. CASE ~ProcDispatch
    <3>1. /\ UNCHANGED <<workers, todo>> /\ held' = {}
          /\ procPc = "token" \/ held = {}
          /\ procPc' # "token"
      BY <1>3, <1>6, <2>4 DEF Processor, ProcAbandon, ProcCancelled, ProcClosed,
                        DrainEmpty, DrainTimeout, handleVars
    <3>2. ASSUME NEW x \in Event PROVE Place(x)'
      BY <1>1, <1>2, <2>2, <3>1 DEF Placed, Place, Fresh, Handling
    <3>3. QED
      BY <2>2, <3>2 DEF Placed
  <2>5. QED
    BY <2>3, <2>4
<1>7. QED
  BY <1>4, <1>5, <1>6

LEMMA PlaceWorker ==
  ASSUME BaseTypes, Placed, NEW ev \in Event, Worker(ev)
  PROVE  Placed'
<1> USE NoOneAssumption, PublisherAssumption
<1>1. UNCHANGED <<call, eventChan, procPc>>
  BY WorkerFrame DEF callVars
<1>2. \A x \in Event : Accepted(x)' = Accepted(x)
  BY <1>1 DEF Accepted
<1>3. Elements(eventChan)' = Elements(eventChan) /\ Distinct(eventChan)'
  BY <1>1 DEF Elements, Distinct, Placed
<1>4. Place(ev) /\ \A x \in Event : Place(x)
  BY DEF Placed
<1>5. ev \in Handling =>
        /\ Accepted(ev) /\ ev \notin Elements(eventChan)
        /\ ev \in workers \/ (ev \in held /\ procPc = "drain")
  BY <1>4 DEF Handling, Place, Fresh
<1>6. ASSUME NEW s \in Subscriber, Notify(ev, s) PROVE \A x \in Event : Place(x)'
  <2>1. /\ ev \in Handling /\ s \in todo[ev] /\ UNCHANGED <<workers, held>>
        /\ handler' = [handler EXCEPT ![ev][s] = "run"]
        /\ waiting' = [waiting EXCEPT ![ev] = s]
        /\ todo' = [todo EXCEPT ![ev] = @ \ {s}]
    BY <1>6 DEF Notify, emitterVars
  <2>2. Place(ev)'
    <3>1. todo'[ev] = todo[ev] \ {s}
      BY <2>1 DEF BaseTypes, HandlerTypes
    <3>2. s # Publisher => handler'[ev][Publisher] = handler[ev][Publisher]
      BY <2>1 DEF BaseTypes, HandlerTypes
    <3>3. QED
      BY <1>1, <1>2, <1>3, <1>4, <1>5, <2>1, <3>1, <3>2 DEF Place, Handling
  <2>3. ASSUME NEW x \in Event, x # ev PROVE Place(x)'
    <3>1. /\ todo'[x] = todo[x] /\ waiting'[x] = waiting[x]
          /\ handler'[x] = handler[x]
      BY <2>1, <2>3 DEF BaseTypes, HandlerTypes
    <3>2. QED
      BY <1>1, <1>2, <1>3, <1>4, <2>1, <3>1, PlaceFrame
  <2>4. QED
    BY <2>2, <2>3
<1>7. ASSUME NotifyTimeout(ev) PROVE \A x \in Event : Place(x)'
  <2>1. /\ waiting' = [waiting EXCEPT ![ev] = NoOne]
        /\ UNCHANGED <<workers, held, todo, handler>>
    BY <1>7 DEF NotifyTimeout, emitterVars
  <2>2. \A x \in Event : waiting'[x] \in {waiting[x], NoOne}
    BY <2>1 DEF BaseTypes, HandlerTypes
  <2>3. QED
    BY <1>1, <1>2, <1>3, <1>4, <2>1, <2>2, PlaceFrame
<1>8. ASSUME HandleEnd(ev) PROVE \A x \in Event : Place(x)'
  <2>1. /\ ev \in Handling /\ todo[ev] = {} /\ waiting[ev] = NoOne
        /\ workers' = workers \ {ev} /\ held' = held \ {ev}
        /\ UNCHANGED <<todo, waiting, handler>>
    BY <1>8 DEF HandleEnd, handleVars
  <2>2. Place(ev)'
    BY <1>1, <1>2, <1>3, <1>5, <2>1 DEF Place, Handling
  <2>3. ASSUME NEW x \in Event, x # ev PROVE Place(x)'
    BY <1>1, <1>2, <1>3, <1>4, <2>1, <2>3, PlaceFrame
  <2>4. QED
    BY <2>2, <2>3
<1>9. QED
  BY <1>3, <1>6, <1>7, <1>8 DEF Worker, Placed

(* A step of a handler concerns the one that takes it.                     *)
LEMMA HandlerMoves ==
  ASSUME NEW ev \in Event, HandlersStep(ev)
  PROVE  \E s \in Subscriber :
           /\ handler[ev][s] # "none"
           /\ \E l \in HandlerStates \ {"none"} : handler' = [handler EXCEPT ![ev][s] = l]
           /\ waiting' = [waiting EXCEPT ![ev] = IF @ = s THEN NoOne ELSE @]
              \/ UNCHANGED waiting
BY PublisherAssumption
   DEF HandlersStep, PublishStep, HandlerReturns, PublishCheck, AddToBatch,
       PublishSingle, HandlerDone, HandlerGoes, HandlerStates

LEMMA PlaceHandlers ==
  ASSUME BaseTypes, Placed, NEW ev \in Event, HandlersStep(ev)
  PROVE  Placed'
<1> USE NoOneAssumption, PublisherAssumption
<1>1. UNCHANGED <<call, eventChan, procPc, workers, held, todo>>
  BY HandlersFrame DEF callVars, emitterVars
<1>2. \A x \in Event : Accepted(x)' = Accepted(x)
  BY <1>1 DEF Accepted
<1>3. Elements(eventChan)' = Elements(eventChan) /\ Distinct(eventChan)'
  BY <1>1 DEF Elements, Distinct, Placed
<1>4. Place(ev) /\ \A x \in Event : Place(x)
  BY DEF Placed
<1>5. PICK s \in Subscriber :
        /\ handler[ev][s] # "none"
        /\ \E l \in HandlerStates \ {"none"} : handler' = [handler EXCEPT ![ev][s] = l]
        /\ waiting' = [waiting EXCEPT ![ev] = IF @ = s THEN NoOne ELSE @]
           \/ UNCHANGED waiting
  BY HandlerMoves
<1>6. \A x \in Event : waiting'[x] \in {waiting[x], NoOne}
  BY <1>5 DEF BaseTypes, HandlerTypes
<1>7. ASSUME NEW x \in Event,
             handler'[x][Publisher] = handler[x][Publisher]
      PROVE  Place(x)'
  BY <1>1, <1>2, <1>3, <1>4, <1>6, <1>7, PlaceFrame
<1>8. \A x \in Event : x # ev => handler'[x][Publisher] = handler[x][Publisher]
  BY <1>5 DEF BaseTypes, HandlerTypes
<1>9. CASE s # Publisher
  <2>1. handler'[ev][Publisher] = handler[ev][Publisher]
    BY <1>5, <1>9 DEF BaseTypes, HandlerTypes
  <2>2. QED
    BY <1>3, <1>7, <1>8, <2>1 DEF Placed
<1>10. CASE s = Publisher
  <2>1. handler[ev][Publisher] # "none"
    BY <1>5, <1>10
  <2>2. Place(ev)'
    BY <1>1, <1>2, <1>3, <1>4, <1>6, <2>1 DEF Place, Fresh, Handling
  <2>3. QED
    BY <1>3, <1>7, <1>8, <2>2 DEF Placed
<1>11. QED
  BY <1>9, <1>10

LEMMA StepPlaced == BaseTypes /\ Life /\ Placed /\ [Next]_vars => Placed'
<1> SUFFICES ASSUME BaseTypes, Life, Placed, [Next]_vars PROVE Placed'
  OBVIOUS
<1>1. CASE BatchStep \/ EmitterStop \/ EmitterClose \/ SubscriptionStep \/ UNCHANGED vars
  <2>1. UNCHANGED <<callVars, procPc, held, workers, todo, waiting, handler>>
    BY <1>1, BatchFrame DEF EmitterStop, EmitterClose, SubscriptionStep, Unsubscribe, vars,
       emitterVars, handleVars
  <2>2. Elements(eventChan)' = Elements(eventChan) /\ Distinct(eventChan)'
    BY <2>1 DEF callVars, Elements, Distinct, Placed
  <2>3. \A x \in Event : Accepted(x)' = Accepted(x)
    BY <2>1 DEF callVars, Accepted
  <2>4. QED
    BY <2>1, <2>2, <2>3, PlaceFrame DEF Placed
<1>2. CASE Start
  <2>1. /\ UNCHANGED <<callVars, held, workers, todo, waiting, handler>>
        /\ procPc = "off" /\ procPc' = "select"
    BY <1>2 DEF Start, Life, handleVars
  <2>2. Elements(eventChan)' = Elements(eventChan) /\ Distinct(eventChan)'
    BY <2>1 DEF callVars, Elements, Distinct, Placed
  <2>3. \A x \in Event : Accepted(x)' = Accepted(x)
    BY <2>1 DEF callVars, Accepted
  <2>4. ASSUME NEW x \in Event PROVE Place(x)'
    BY <2>1, <2>2, <2>3 DEF Placed, Place, Fresh, Handling
  <2>5. QED
    BY <2>2, <2>4 DEF Placed
<1>3. QED
  BY <1>1, <1>2, PlaceEmit, PlaceProcessor, PlaceWorker, PlaceHandlers, NextCases

-----------------------------------------------------------------------------
(* The tokens of the worker pool.                                          *)

LEMMA StepPool == BaseTypes /\ Placed /\ PoolTypes /\ [Next]_vars => PoolTypes'
<1> SUFFICES ASSUME BaseTypes, Placed, PoolTypes, [Next]_vars PROVE PoolTypes'
  OBVIOUS
<1> USE SizeAssumption DEF PoolTypes
<1>0. Cardinality(workers) \in Nat
  BY FS_CardinalityType
<1>1. CASE UNCHANGED <<workers, tokens>>
  BY <1>1
<1>2. CASE ProcDispatch
  <2>1. PICK ev \in held : workers' = workers \cup {ev}
    BY <1>2 DEF ProcDispatch
  <2>2. tokens' = tokens - 1 /\ tokens > 0
    BY <1>2 DEF ProcDispatch
  <2>3. ev \in Event /\ ev \notin workers
    BY <2>1 DEF BaseTypes, EmitterTypes, Placed, Place
  <2>4. IsFiniteSet(workers') /\ Cardinality(workers') = Cardinality(workers) + 1
    BY <2>1, <2>3, FS_AddElement
  <2>5. QED
    BY <1>0, <2>1, <2>2, <2>3, <2>4
<1>3. ASSUME NEW ev \in Event, HandleEnd(ev) PROVE PoolTypes'
  <2>1. /\ workers' = workers \ {ev}
        /\ tokens' = IF ev \in workers THEN tokens + 1 ELSE tokens
    BY <1>3 DEF HandleEnd
  <2>2. CASE ev \in workers
    <3>1. IsFiniteSet(workers') /\ Cardinality(workers') = Cardinality(workers) - 1
      BY <2>1, <2>2, FS_RemoveElement
    <3>2. Cardinality(workers') \in Nat
      BY <3>1, FS_CardinalityType
    <3>3. QED
      BY <1>0, <2>1, <2>2, <3>1, <3>2
  <2>3. CASE ev \notin workers
    BY <2>1, <2>3
  <2>4. QED
    BY <2>2, <2>3
<1>4. CASE Processor /\ ~ProcDispatch
  <2>1. UNCHANGED <<workers, tokens>>
    BY <1>4 DEF Processor, ProcTake, ProcAbandon, ProcCancelled, ProcClosed,
                DrainTake, DrainEmpty, DrainTimeout
  <2>2. QED
    BY <1>1, <2>1
<1>5. ASSUME NEW ev \in Event, Worker(ev), ~HandleEnd(ev) PROVE PoolTypes'
  BY <1>1, <1>5 DEF Worker, Notify, NotifyTimeout, emitterVars
<1>6. QED
  BY <1>1, <1>2, <1>3, <1>4, <1>5, NextCases, EmitFrame, HandlersFrame, BatchFrame,
     SetupFrame DEF emitterVars

-----------------------------------------------------------------------------
(* Where an event is in the publisher.                                     *)

InFlight(ev) == \E f \in flights : ev \in Elements(f.events)

(* The publisher has an event in one place: with its handler, in the       *)
(* batch, in flight, or sent.                                              *)
Sent(ev) ==
  /\ handler[ev][Publisher] # "done" =>
       ev \notin Elements(batch) /\ ~InFlight(ev) /\ published[ev] = 0
  /\ ev \in Elements(batch) => ~InFlight(ev) /\ published[ev] = 0
  /\ InFlight(ev) => published[ev] = 0
  /\ published[ev] <= 1
  /\ handler[ev][Publisher] = "done" =>
       ev \in Elements(batch) \/ InFlight(ev) \/ published[ev] = 1 \/ ev \in failed

FlightsApart ==
  /\ \A f \in flights : Distinct(f.events)
  /\ \A f, g \in flights : Elements(f.events) \cap Elements(g.events) # {} => f = g

SentOnce == Distinct(batch) /\ FlightsApart /\ \A ev \in Event : Sent(ev)

LEMMA SentFrame ==
  ASSUME NEW ev \in Event, Sent(ev),
         handler'[ev][Publisher] = "done" <=> handler[ev][Publisher] = "done",
         ev \in Elements(batch)' <=> ev \in Elements(batch),
         InFlight(ev)' <=> InFlight(ev), published'[ev] = published[ev],
         failed \subseteq failed'
  PROVE  Sent(ev)'
BY DEF Sent

(* Flushing events that are in no flight puts them into one.               *)
LEMMA Flushed ==
  ASSUME FlightsApart, NEW evs \in Seq(Event), Distinct(evs),
         \A x \in Elements(evs) : ~InFlight(x), FlushBatchLocked(evs)
  PROVE  /\ FlightsApart' /\ Distinct(batch)' /\ Elements(batch)' = {}
         /\ \A x : InFlight(x)' <=> InFlight(x) \/ x \in Elements(evs)
<1>1. batch' = <<>>
  BY DEF FlushBatchLocked
<1>2. Distinct(batch)' /\ Elements(batch)' = {}
  BY <1>1, EmptyFacts DEF Distinct, Elements
<1>3. CASE evs = <<>>
  <2>1. Elements(evs) = {} /\ flights' = flights
    BY <1>3, EmptyFacts DEF FlushBatchLocked
  <2>2. QED
    BY <1>2, <2>1 DEF FlightsApart, InFlight
<1>4. CASE evs # <<>>
  <2> DEFINE new == [events |-> evs, stage |-> "check"]
  <2>1. flights' = flights \cup {new} /\ new.events = evs
    BY <1>4 DEF FlushBatchLocked
  <2> HIDE DEF new
  <2>2. \A f \in flights : Elements(f.events) \cap Elements(evs) = {}
    BY DEF InFlight
  <2>3. FlightsApart'
    BY <2>1, <2>2 DEF FlightsApart
  <2>4. \A x : InFlight(x)' <=> InFlight(x) \/ x \in Elements(evs)
    BY <2>1 DEF InFlight
  <2>5. QED
    BY <1>2, <2>3, <2>4
<1>5. QED
  BY <1>3, <1>4

(* How often the first n commands of a pipeline publish an event.          *)
LEMMA SentCount ==
  ASSUME NEW s \in Seq(Event), Distinct(s), NEW n \in 0 .. Len(s), NEW x
  PROVE  LET k == Cardinality({i \in 1 .. n : s[i] = x})
         IN  /\ x \notin Elements(s) => k = 0
             /\ x \in Elements(s) =>
                  k = 1 \/ (k = 0 /\ x \in {s[i] : i \in (n + 1) .. Len(s)})
<1> DEFINE I == {i \in 1 .. n : s[i] = x}
<1>1. Len(s) \in Nat /\ DOMAIN s = 1 .. Len(s)
  BY ElementTypes
<1>2. ASSUME x \notin Elements(s) PROVE Cardinality(I) = 0
  <2>1. I = {}
    BY <1>1, <1>2 DEF Elements
  <2>2. QED
    BY <2>1, FS_EmptySet
<1>3. ASSUME x \in Elements(s)
      PROVE  \/ Cardinality(I) = 1
             \/ Cardinality(I) = 0 /\ x \in {s[i] : i \in (n + 1) .. Len(s)}
  <2>1. PICK k \in 1 .. Len(s) : s[k] = x
    BY <1>1, <1>3 DEF Elements
  <2>2. CASE k <= n
    <3>1. \A i \in 1 .. n : s[i] = x => i = k
      BY <1>1, <2>1 DEF Distinct
    <3>2. I = {k}
      BY <1>1, <2>1, <2>2, <3>1
    <3>3. QED
      BY <3>2, FS_Singleton
  <2>3. CASE ~(k <= n)
    <3>1. I = {}
      BY <1>1, <2>1, <2>3 DEF Distinct
    <3>2. k \in (n + 1) .. Len(s)
      BY <1>1, <2>1, <2>3
    <3>3. QED
      BY <2>1, <3>1, <3>2, FS_EmptySet
  <2>4. QED
    BY <2>2, <2>3
<1>4. QED
  BY <1>2, <1>3

LEMMA SentFlush ==
  ASSUME BaseTypes, SentOnce, FlushBatchLocked(batch),
         UNCHANGED <<handler, published, failed>>
  PROVE  SentOnce'
<1>1. batch \in Seq(Event) /\ Elements(batch) \subseteq Event
  BY ElementTypes DEF BaseTypes, PublisherTypes
<1>2. \A x \in Elements(batch) : ~InFlight(x)
  BY <1>1 DEF SentOnce, Sent
<1>3. /\ FlightsApart' /\ Distinct(batch)' /\ Elements(batch)' = {}
      /\ \A x : InFlight(x)' <=> InFlight(x) \/ x \in Elements(batch)
  BY <1>1, <1>2, Flushed DEF SentOnce
<1>4. ASSUME NEW x \in Event PROVE Sent(x)'
  BY <1>3 DEF SentOnce, Sent
<1>5. QED
  BY <1>3, <1>4 DEF SentOnce

LEMMA SentFlight ==
  ASSUME BaseTypes, SentOnce, NEW f \in flights,
         PublishBatchCheck(f) \/ PublishBatchExec(f)
  PROVE  SentOnce'
<1>1. UNCHANGED <<handler, batch>>
  BY DEF PublishBatchCheck, PublishBatchExec, handleVars
<1>2. Distinct(batch)' /\ Elements(batch)' = Elements(batch)
  BY <1>1 DEF SentOnce, Distinct, Elements
<1>3. f \in [events : Seq(Event), stage : {"check", "exec"}]
  BY DEF BaseTypes, PublisherTypes
<1>4. CASE flights' = (flights \ {f}) \cup {[f EXCEPT !.stage = "exec"]}
           /\ UNCHANGED <<published, failed>>
  <2> DEFINE g == [f EXCEPT !.stage = "exec"]
  <2>1. g.events = f.events
    BY <1>3
  <2>2. flights' = (flights \ {f}) \cup {g}
    BY <1>4
  <2> HIDE DEF g
  <2>3. FlightsApart'
    BY <2>1, <2>2 DEF SentOnce, FlightsApart
  <2>4. \A x : InFlight(x)' <=> InFlight(x)
    BY <2>1, <2>2 DEF InFlight
  <2>5. \A x \in Event : Sent(x)'
    BY <1>1, <1>2, <1>4, <2>4, SentFrame DEF SentOnce
  <2>6. QED
    BY <1>2, <2>3, <2>5 DEF SentOnce
<1>5. CASE flights' = flights \ {f}
  <2>1. FlightsApart'
    BY <1>5 DEF SentOnce, FlightsApart
  <2>2. \A x : InFlight(x)' <=> InFlight(x) /\ x \notin Elements(f.events)
    BY <1>5 DEF SentOnce, FlightsApart, InFlight
  <2>3. \A x \in Elements(f.events) : InFlight(x)
    BY DEF InFlight
  <2>4. /\ failed \subseteq failed'
        /\ \A x \in Event :
             /\ x \notin Elements(f.events) => published'[x] = published[x]
             /\ x \in Elements(f.events) =>
                  \/ published'[x] = published[x] + 1
                  \/ published'[x] = published[x] /\ x \in failed'
    <3>1. CASE PublishBatchCheck(f)
      <4>1. UNCHANGED published
        BY <3>1 DEF PublishBatchCheck
      <4>2. CASE failed' = failed \cup Elements(f.events)
        BY <4>1, <4>2
      <4>3. CASE publisher = "running"
        <5>1. [f EXCEPT !.stage = "exec"] \in flights'
          BY <3>1, <4>3 DEF PublishBatchCheck
        <5>2. f.stage = "check"
          BY <3>1 DEF PublishBatchCheck
        <5>3. /\ [f EXCEPT !.stage = "exec"] \in flights
              /\ [f EXCEPT !.stage = "exec"].events = f.events
              /\ [f EXCEPT !.stage = "exec"].stage = "exec"
          BY <1>3, <1>5, <5>1
        <5>4. [f EXCEPT !.stage = "exec"] # f
          BY <5>2, <5>3
        <5>5. Elements(f.events) = {}
          BY <5>3, <5>4 DEF SentOnce, FlightsApart
        <5>6. UNCHANGED failed
          BY <3>1, <4>3 DEF PublishBatchCheck
        <5>7. QED
          BY <4>1, <5>5, <5>6
      <4>4. QED
        BY <3>1, <4>2, <4>3 DEF PublishBatchCheck
    <3>2. CASE PublishBatchExec(f)
      <4>1. PICK n \in 0 .. Len(f.events) :
              /\ published' = [ev \in Event |->
                   published[ev] + Cardinality({i \in 1..n : f.events[i] = ev})]
              /\ failed' = failed \cup {f.events[i] : i \in (n + 1)..Len(f.events)}
        BY <3>2 DEF PublishBatchExec
      <4>2. f.events \in Seq(Event) /\ Distinct(f.events)
        BY <1>3 DEF SentOnce, FlightsApart
      <4>3. ASSUME NEW x \in Event
            PROVE  /\ published[x] \in Nat
                   /\ x \notin Elements(f.events) => published'[x] = published[x]
                   /\ x \in Elements(f.events) =>
                        \/ published'[x] = published[x] + 1
                        \/ published'[x] = published[x] /\ x \in failed'
        <5> DEFINE k == Cardinality({i \in 1..n : f.events[i] = x})
        <5>1. published'[x] = published[x] + k /\ published[x] \in Nat
          BY <4>1 DEF BaseTypes, PublisherTypes
        <5>2. /\ x \notin Elements(f.events) => k = 0
              /\ x \in Elements(f.events) =>
                  k = 1 \/ (k = 0 /\ x \in {f.events[i] : i \in (n + 1) .. Len(f.events)})
          BY <4>2, SentCount
        <5> HIDE DEF k
        <5>3. QED
          BY <4>1, <5>1, <5>2
      <4>4. QED
        BY <4>1, <4>3
    <3>3. QED
      BY <3>1, <3>2
  <2>5. ASSUME NEW x \in Event PROVE Sent(x)'
    <3>1. CASE x \notin Elements(f.events)
      BY <1>1, <1>2, <2>2, <2>4, <3>1, SentFrame DEF SentOnce
    <3>2. CASE x \in Elements(f.events)
      <4>1. /\ Sent(x) /\ published[x] = 0 /\ x \notin Elements(batch)
            /\ handler[x][Publisher] = "done"
        BY <2>3, <3>2 DEF SentOnce, Sent
      <4>2. ~InFlight(x)'
        BY <2>2, <3>2
      <4>3. published'[x] = 1 \/ (published'[x] = 0 /\ x \in failed')
        BY <2>4, <3>2, <4>1
      <4>4. QED
        BY <1>1, <1>2, <4>1, <4>2, <4>3 DEF Sent
    <3>3. QED
      BY <3>1, <3>2
  <2>6. QED
    BY <1>2, <2>1, <2>5 DEF SentOnce
<1>6. QED
  BY <1>4, <1>5 DEF PublishBatchCheck, PublishBatchExec

LEMMA SentHandlers ==
  ASSUME BaseTypes, SentOnce, NEW ev \in Event, HandlersStep(ev)
  PROVE  SentOnce'
<1> USE PublisherAssumption
<1>1. Sent(ev) /\ \A x \in Event : Sent(x)
  BY DEF SentOnce
<1>2. \A x \in Event : published[x] \in Nat
  BY DEF BaseTypes, PublisherTypes
<1>3. ASSUME UNCHANGED <<batch, flights>>
      PROVE  /\ Distinct(batch)' /\ Elements(batch)' = Elements(batch) /\ FlightsApart'
             /\ \A x : InFlight(x)' <=> InFlight(x)
  BY <1>3 DEF SentOnce, Distinct, Elements, FlightsApart, InFlight
<1>4. \A x \in Event : x # ev => handler'[x][Publisher] = handler[x][Publisher]
  BY DEF HandlersStep, PublishStep, HandlerReturns, PublishCheck, AddToBatch, PublishSingle,
         HandlerDone, HandlerGoes, BaseTypes, HandlerTypes
<1>5. CASE AddToBatch(ev)
  <2> DEFINE evs == Append(batch, ev)
  <2>1. /\ handler[ev][Publisher] = "add" /\ handler'[ev][Publisher] = "done"
        /\ UNCHANGED <<published, failed>>
    BY <1>5 DEF AddToBatch, HandlerDone, BaseTypes, HandlerTypes
  <2>2. ev \notin Elements(batch) /\ ~InFlight(ev) /\ published[ev] = 0
    BY <1>1, <2>1 DEF Sent
  <2>3. /\ evs \in Seq(Event) /\ Distinct(evs) /\ Elements(evs) = Elements(batch) \cup {ev}
        /\ Elements(batch) \subseteq Event
    BY <2>2, AppendFacts, ElementTypes DEF SentOnce, BaseTypes, PublisherTypes
  <2>4. \A x \in Elements(evs) : ~InFlight(x)
    BY <1>1, <2>2, <2>3 DEF Sent
  <2>5. CASE FlushBatchLocked(evs)
    <3>1. /\ FlightsApart' /\ Distinct(batch)' /\ Elements(batch)' = {}
          /\ \A x : InFlight(x)' <=> InFlight(x) \/ x \in Elements(evs)
      BY <2>3, <2>4, <2>5, Flushed DEF SentOnce
    <3>2. ASSUME NEW x \in Event PROVE Sent(x)'
      <4>1. CASE x = ev
        BY <2>1, <2>2, <2>3, <3>1, <4>1 DEF Sent
      <4>2. CASE x # ev
        BY <1>1, <1>4, <2>1, <2>3, <3>1, <4>2 DEF Sent
      <4>3. QED
        BY <4>1, <4>2
    <3>3. QED
      BY <3>1, <3>2 DEF SentOnce
  <2>6. CASE batch' = evs /\ UNCHANGED flights
    <3>1. Distinct(batch)' /\ Elements(batch)' = Elements(batch) \cup {ev}
      BY <2>3, <2>6 DEF Distinct, Elements
    <3>2. FlightsApart' /\ \A x : InFlight(x)' <=> InFlight(x)
      BY <2>6 DEF SentOnce, FlightsApart, InFlight
    <3>3. ASSUME NEW x \in Event PROVE Sent(x)'
      <4>1. CASE x = ev
        BY <2>1, <2>2, <3>1, <3>2, <4>1 DEF Sent
      <4>2. CASE x # ev
        BY <1>1, <1>4, <2>1, <3>1, <3>2, <4>2, SentFrame
      <4>3. QED
        BY <4>1, <4>2
    <3>4. QED
      BY <3>1, <3>2, <3>3 DEF SentOnce
  <2>7. QED
    BY <1>5, <2>5, <2>6 DEF AddToBatch
<1>6. CASE PublishCheck(ev) \/ PublishSingle(ev)
  <2>1. /\ handler[ev][Publisher] # "done" /\ UNCHANGED <<batch, flights>>
        /\ failed \subseteq failed'
        /\ \A x \in Event : x # ev => published'[x] = published[x]
        /\ \/ handler'[ev][Publisher] # "done" /\ UNCHANGED published
           \/ /\ handler'[ev][Publisher] = "done"
              /\ \/ published'[ev] = published[ev] + 1
                 \/ published'[ev] = published[ev] /\ ev \in failed'
    BY <1>2, <1>6 DEF PublishCheck, PublishSingle, HandlerDone, HandlerGoes, BaseTypes,
                HandlerTypes, PublisherTypes
  <2>2. ev \notin Elements(batch) /\ ~InFlight(ev) /\ published[ev] = 0
    BY <1>1, <2>1 DEF Sent
  <2>3. Sent(ev)'
    BY <1>3, <2>1, <2>2 DEF Sent
  <2>4. \A x \in Event : x # ev => Sent(x)'
    BY <1>1, <1>3, <1>4, <2>1, SentFrame
  <2>5. QED
    BY <1>3, <2>1, <2>3, <2>4 DEF SentOnce
<1>7. ASSUME NEW s \in Subscriber, HandlerReturns(ev, s) PROVE SentOnce'
  <2>1. handler'[ev][Publisher] = handler[ev][Publisher] /\ UNCHANGED publisherVars
    BY <1>7 DEF HandlerReturns, HandlerDone, BaseTypes, HandlerTypes
  <2>2. QED
    BY <1>1, <1>3, <1>4, <2>1, SentFrame DEF SentOnce, publisherVars
<1>8. QED
  BY <1>5, <1>6, <1>7 DEF HandlersStep, PublishStep

LEMMA StepSent == BaseTypes /\ Placed /\ SentOnce /\ [Next]_vars => SentOnce'
<1> SUFFICES ASSUME BaseTypes, Placed, SentOnce, [Next]_vars PROVE SentOnce'
  OBVIOUS
<1>1. ASSUME UNCHANGED <<batch, flights, published, failed>>,
             \A x \in Event : handler'[x][Publisher] = "done" <=> handler[x][Publisher] = "done"
      PROVE  SentOnce'
  <2>1. /\ Distinct(batch)' /\ Elements(batch)' = Elements(batch) /\ FlightsApart'
        /\ \A x : InFlight(x)' <=> InFlight(x)
    BY <1>1 DEF SentOnce, Distinct, Elements, FlightsApart, InFlight
  <2>2. QED
    BY <1>1, <2>1, SentFrame DEF SentOnce
<1>2. ASSUME NEW ev \in Event, Worker(ev) PROVE SentOnce'
  <2>1. UNCHANGED <<batch, flights, published, failed>>
    BY <1>2, WorkerFrame DEF publisherVars
  <2>2. ASSUME NEW s \in Subscriber, Notify(ev, s), NEW x \in Event
        PROVE  handler'[x][Publisher] = "done" <=> handler[x][Publisher] = "done"
    <3>1. s = Publisher => handler[ev][Publisher] = "none"
      BY <2>2 DEF Notify, Placed, Place
    <3>2. QED
      BY <2>2, <3>1, PublisherAssumption DEF Notify, BaseTypes, HandlerTypes
  <2>3. CASE UNCHANGED handler
    BY <1>1, <2>1, <2>3
  <2>4. QED
    BY <1>1, <1>2, <2>1, <2>2, <2>3 DEF Worker, NotifyTimeout, HandleEnd, handleVars
<1>3. CASE BatchStep
  <2>1. UNCHANGED handler
    BY <1>3, BatchFrame DEF handleVars
  <2>2. CASE FlushBatch
    BY <2>1, <2>2, SentFlush DEF FlushBatch
  <2>3. CASE PublisherStop \/ PublisherStopped
    <3>1. UNCHANGED <<published, failed>>
          /\ (FlushBatchLocked(batch) \/ UNCHANGED <<batch, flights>>)
      BY <2>3 DEF PublisherStop, PublisherStopped
    <3>2. QED
      BY <1>1, <2>1, <3>1, SentFlush
  <2>4. QED
    BY <1>3, <2>2, <2>3, SentFlight DEF BatchStep, Flight
<1>4. QED
  BY <1>1, <1>2, <1>3, NextCases, EmitFrame, ProcessorFrame, SetupFrame, SentHandlers
     DEF publisherVars, handleVars

-----------------------------------------------------------------------------
(* What has been accepted is on its way.                                   *)

Traced(ev) ==
  ev \in Types[Publisher] /\ call[ev] = "accepted" =>
    \/ ev \in Elements(eventChan) \/ (ev \in held /\ procPc = "token")
    \/ Publisher \in todo[ev] \/ handler[ev][Publisher] # "none"
    \/ procPc = "done" /\ ~drained

OnTheWay ==
  /\ \A ev \in Event : Traced(ev)
  /\ drained => \A ev \in Event : call[ev] = "accepted" => ev \notin Elements(eventChan)

LEMMA TracedProcessor ==
  ASSUME BaseTypes, Life, Placed, OnTheWay, Processor
  PROVE  OnTheWay'
<1>1. UNCHANGED <<call, waiting, handler, subscribers>>
  BY ProcessorFrame
<1>2. ~drained /\ procPc \in {"select", "token", "drain"} /\ Publisher \in subscribers
  BY DEF Life, Processor, ProcTake, ProcDispatch, ProcAbandon, ProcCancelled, ProcClosed,
         DrainTake, DrainEmpty, DrainTimeout
<1>3. ASSUME NEW h \in Event, Snapshot(h), h \in Types[Publisher]
      PROVE  Publisher \in todo'[h]
  BY <1>2, <1>3 DEF Snapshot, BaseTypes, HandlerTypes
<1>4. ASSUME NEW h \in Event, Snapshot(h) \/ UNCHANGED todo, NEW x \in Event, x # h
      PROVE  todo'[x] = todo[x]
  BY <1>4 DEF Snapshot, BaseTypes, HandlerTypes
<1>5. CASE ProcTake \/ DrainTake
  <2> DEFINE h == Head(eventChan)
  <2>1. /\ eventChan # <<>> /\ eventChan' = Tail(eventChan) /\ held' = {h}
        /\ UNCHANGED drained
        /\ \/ procPc = "select" /\ procPc' = "token" /\ UNCHANGED todo
           \/ procPc = "drain" /\ procPc' = "drain" /\ Snapshot(h)
    BY <1>5 DEF ProcTake, DrainTake, handleVars
  <2>2. h \in Event /\ Elements(eventChan)' = Elements(eventChan) \ {h}
    BY <1>1, <2>1, HeadPlace
  <2> HIDE DEF h
  <2>3. ASSUME NEW x \in Event PROVE Traced(x)'
    <3>1. CASE x = h
      BY <1>3, <2>1, <2>2, <3>1 DEF Traced
    <3>2. CASE x # h
      <4>1. Traced(x) /\ todo'[x] = todo[x] /\ (x \in held => procPc # "token")
        BY <1>4, <2>1, <2>2, <3>2 DEF OnTheWay
      <4>2. QED
        BY <1>1, <1>2, <2>1, <2>2, <3>2, <4>1 DEF Traced
    <3>3. QED
      BY <3>1, <3>2
  <2>4. QED
    BY <1>2, <2>1, <2>3 DEF OnTheWay
<1>6. CASE ProcDispatch
  <2>1. PICK h \in held : Snapshot(h)
    BY <1>6 DEF ProcDispatch
  <2>2. /\ h \in Event /\ held = {h} /\ UNCHANGED <<eventChan, drained>>
        /\ procPc = "token" /\ procPc' = "select"
    BY <1>6, <2>1 DEF ProcDispatch, callVars, BaseTypes, EmitterTypes
  <2>3. Elements(eventChan)' = Elements(eventChan)
    BY <2>2 DEF Elements
  <2>4. ASSUME NEW x \in Event PROVE Traced(x)'
    <3>1. CASE x = h
      BY <1>3, <2>1, <2>2, <3>1 DEF Traced
    <3>2. CASE x # h
      <4>1. Traced(x) /\ todo'[x] = todo[x]
        BY <1>4, <2>1, <2>2, <3>2 DEF OnTheWay
      <4>2. QED
        BY <1>1, <1>2, <2>2, <2>3, <3>2, <4>1 DEF Traced
    <3>3. QED
      BY <3>1, <3>2
  <2>5. QED
    BY <1>2, <2>2, <2>4 DEF OnTheWay
<1>7. CASE ProcCancelled
  <2>1. UNCHANGED <<eventChan, todo, drained>> /\ procPc = "select"
    BY <1>7 DEF ProcCancelled, callVars, handleVars
  <2>2. Elements(eventChan)' = Elements(eventChan)
    BY <2>1 DEF Elements
  <2>3. QED
    BY <1>1, <1>2, <2>1, <2>2 DEF OnTheWay, Traced
<1>8. CASE ProcAbandon \/ ProcClosed \/ DrainTimeout
  <2>1. procPc' = "done" /\ UNCHANGED drained
    BY <1>8 DEF ProcAbandon, ProcClosed, DrainTimeout
  <2>2. QED
    BY <1>2, <2>1 DEF OnTheWay, Traced
<1>9. CASE DrainEmpty
  <2>1. UNCHANGED <<eventChan, todo>> /\ eventChan = <<>> /\ procPc = "drain"
    BY <1>9 DEF DrainEmpty, callVars, handleVars
  <2>2. Elements(eventChan)' = {} /\ Elements(eventChan) = {}
    BY <2>1, EmptyFacts DEF Elements
  <2>3. ASSUME NEW x \in Event PROVE Traced(x)'
    <3>1. Traced(x)
      BY DEF OnTheWay
    <3>2. QED
      BY <1>1, <2>1, <2>2, <3>1 DEF Traced
  <2>4. QED
    BY <2>2, <2>3 DEF OnTheWay
<1>10. QED
  BY <1>5, <1>6, <1>7, <1>8, <1>9 DEF Processor

LEMMA StepTraced ==
  BaseTypes /\ Life /\ Placed /\ OnTheWay /\ [Next]_vars => OnTheWay'
<1> SUFFICES ASSUME BaseTypes, Life, Placed, OnTheWay, [Next]_vars PROVE OnTheWay'
  OBVIOUS
<1>1. ASSUME NEW ev \in Event, EmitStep(ev) PROVE OnTheWay'
  <2>1. UNCHANGED <<emitterVars, handleVars>>
    BY <1>1, EmitFrame
  <2>2. CASE Send(ev)
    <3>1. Elements(eventChan)' = Elements(eventChan) \cup {ev}
      BY <2>2, AppendFacts DEF Send, BaseTypes, EmitterTypes, Elements
    <3>2. /\ \A x \in Event : x # ev => call'[x] = call[x]
          /\ call'[ev] = "accepted" => Running
      BY <2>2 DEF Send, BaseTypes, EmitterTypes
    <3>3. \A x \in Event : Traced(x)'
      BY <2>1, <3>1, <3>2 DEF OnTheWay, Traced, emitterVars, handleVars
    <3>4. drained => ~Running
      BY DEF Life, Running, Cancelled
    <3>5. QED
      BY <2>1, <3>1, <3>2, <3>3, <3>4 DEF OnTheWay, emitterVars
  <2>3. CASE /\ UNCHANGED eventChan
             /\ \E r \in {"checked", "refused", "panic", "dropped", "blocked"} :
                  call' = [call EXCEPT ![ev] = r]
    <3>1. Elements(eventChan)' = Elements(eventChan)
      BY <2>3 DEF Elements
    <3>2. \A x \in Event : call'[x] = "accepted" => call[x] = "accepted"
      BY <2>3 DEF BaseTypes, EmitterTypes
    <3>3. QED
      BY <2>1, <3>1, <3>2 DEF OnTheWay, Traced, emitterVars, handleVars
  <2>4. QED
    BY <1>1, <2>2, <2>3, EmitCases DEF BaseTypes
<1>2. ASSUME UNCHANGED <<callVars, drained>>,
             procPc' = procPc \/ (procPc = "off" /\ procPc' = "select"),
             \A x \in Event :
               /\ x \in held /\ procPc = "token" => x \in held'
               /\ Publisher \in todo[x] => Publisher \in todo'[x] \/ handler'[x][Publisher] # "none"
               /\ handler[x][Publisher] # "none" => handler'[x][Publisher] # "none"
      PROVE  OnTheWay'
  <2>1. UNCHANGED call /\ Elements(eventChan)' = Elements(eventChan)
    BY <1>2 DEF callVars, Elements
  <2>2. QED
    BY <1>2, <2>1 DEF OnTheWay, Traced
<1>3. ASSUME NEW ev \in Event, Worker(ev) PROVE OnTheWay'
  <2>1. UNCHANGED <<callVars, drained, procPc>>
    BY <1>3, WorkerFrame
  <2>2. ASSUME NEW s \in Subscriber, Notify(ev, s) PROVE OnTheWay'
    <3>1. UNCHANGED held
      BY <2>2 DEF Notify, emitterVars
    <3>2. \A x \in Event :
            /\ Publisher \in todo[x] => Publisher \in todo'[x] \/ handler'[x][Publisher] # "none"
            /\ handler[x][Publisher] # "none" => handler'[x][Publisher] # "none"
      BY <2>2, PublisherAssumption DEF Notify, BaseTypes, HandlerTypes
    <3>3. QED
      BY <1>2, <2>1, <3>1, <3>2
  <2>3. CASE NotifyTimeout(ev)
    BY <1>2, <2>1, <2>3 DEF NotifyTimeout, emitterVars
  <2>4. CASE HandleEnd(ev)
    <3>1. procPc = "token" => ev \notin held
      BY <2>4 DEF HandleEnd, Handling, Placed, Place
    <3>2. held' = held \ {ev} /\ UNCHANGED <<todo, handler>>
      BY <2>4 DEF HandleEnd, handleVars
    <3>3. QED
      BY <1>2, <2>1, <3>1, <3>2
  <2>5. QED
    BY <1>3, <2>2, <2>3, <2>4 DEF Worker
<1>4. ASSUME NEW ev \in Event, HandlersStep(ev) PROVE OnTheWay'
  <2>1. UNCHANGED <<callVars, drained, procPc, held, todo>>
    BY <1>4, HandlersFrame DEF emitterVars
  <2>2. \A x \in Event : handler[x][Publisher] # "none" => handler'[x][Publisher] # "none"
    <3>1. PICK s \in Subscriber :
            \E l \in HandlerStates \ {"none"} : handler' = [handler EXCEPT ![ev][s] = l]
      BY <1>4, HandlerMoves
    <3>2. QED
      BY <3>1, PublisherAssumption DEF BaseTypes, HandlerTypes
  <2>3. QED
    BY <1>2, <2>1, <2>2
<1>5. CASE BatchStep
  BY <1>2, <1>5, BatchFrame DEF emitterVars, handleVars
<1>6. CASE Start \/ EmitterStop \/ EmitterClose \/ SubscriptionStep \/ UNCHANGED vars
  <2>1. UNCHANGED <<callVars, drained, held, todo, handler>>
    BY <1>6, SetupFrame
  <2>2. procPc' = procPc \/ (procPc = "off" /\ procPc' = "select")
    BY <1>6 DEF Start, EmitterStop, EmitterClose, SubscriptionStep, Unsubscribe, vars,
                emitterVars, Life
  <2>3. QED
    BY <1>2, <2>1, <2>2
<1>7. QED
  BY <1>1, <1>3, <1>4, <1>5, <1>6, TracedProcessor, NextCases

-----------------------------------------------------------------------------
(* What the publisher gives up.                                            *)

Waited ==
  \A ev \in Event :
    handler[ev][Publisher] \in {"run", "add", "single"} => waiting[ev] = Publisher \/ impatient

NoBatch ==
  \/ batching /\ publisher # "new"
  \/ batch = <<>> /\ flights = {} /\ \A ev \in Event : handler[ev][Publisher] # "add"

(* While it runs, and after a stop that left nobody behind, the publisher  *)
(* has given up nothing but for a fault.                                   *)
Served == publisher \in {"new", "running"} \/ (graceful /\ ~impatient /\ ~batching)
FailedByFault == Served /\ failed # {} => faults > 0

LEMMA StepWaited == BaseTypes /\ Waited /\ [Next]_vars => Waited'
<1> SUFFICES ASSUME BaseTypes, Waited, [Next]_vars PROVE Waited'
  OBVIOUS
<1> USE PublisherAssumption, NoOneAssumption
<1>1. CASE UNCHANGED <<handler, waiting, impatient>>
  BY <1>1 DEF Waited
<1>2. ASSUME NEW ev \in Event, Worker(ev) PROVE Waited'
  <2>1. ASSUME NEW s \in Subscriber, Notify(ev, s) PROVE Waited'
    BY <2>1 DEF Notify, Waited, BaseTypes, HandlerTypes
  <2>2. CASE NotifyTimeout(ev)
    BY <2>2 DEF NotifyTimeout, Waited
  <2>3. CASE HandleEnd(ev)
    BY <1>1, <2>3 DEF HandleEnd, handleVars
  <2>4. QED
    BY <1>2, <2>1, <2>2, <2>3 DEF Worker
<1>3. ASSUME NEW ev \in Event, HandlersStep(ev) PROVE Waited'
  <2>1. UNCHANGED impatient
    BY <1>3, HandlersFrame
  <2>2. ASSUME NEW s \in Subscriber, HandlerDone(ev, s) PROVE Waited'
    BY <2>1, <2>2 DEF HandlerDone, Waited, BaseTypes, HandlerTypes
  <2>3. ASSUME NEW l, HandlerGoes(ev, l), handler[ev][Publisher] = "run" PROVE Waited'
    BY <2>1, <2>3 DEF HandlerGoes, Waited, BaseTypes, HandlerTypes
  <2>4. QED
    BY <1>3, <2>2, <2>3 DEF HandlersStep, PublishStep, HandlerReturns, PublishCheck,
       AddToBatch, PublishSingle
<1>4. QED
  BY <1>1, <1>2, <1>3, NextCases, EmitFrame, ProcessorFrame, BatchFrame, SetupFrame
     DEF handleVars

LEMMA StepNoBatch == BaseTypes /\ NoBatch /\ [Next]_vars => NoBatch'
<1> SUFFICES ASSUME BaseTypes, NoBatch, [Next]_vars PROVE NoBatch'
  OBVIOUS
<1> USE PublisherAssumption
<1>1. UNCHANGED batching
  BY NextCases, EmitFrame, ProcessorFrame, WorkerFrame, HandlersFrame, BatchFrame, SetupFrame
<1>2. publisher # "new" => publisher' # "new"
  <2>1. CASE BatchStep
    BY <2>1 DEF BatchStep, Flight, PublishBatchCheck, PublishBatchExec, FlushBatch,
                PublisherStop, PublisherStopped
  <2>2. CASE Start \/ EmitterStop \/ EmitterClose \/ SubscriptionStep \/ UNCHANGED vars
    BY <2>2 DEF Start, EmitterStop, EmitterClose, SubscriptionStep, Unsubscribe, vars,
                publisherVars
  <2>3. QED
    BY <2>1, <2>2, NextCases, EmitFrame, ProcessorFrame, WorkerFrame, HandlersFrame
       DEF publisherVars
<1>3. CASE batching /\ publisher # "new"
  BY <1>1, <1>2, <1>3 DEF NoBatch
<1>4. ASSUME ~(batching /\ publisher # "new") PROVE NoBatch'
  <2>0. batch = <<>> /\ flights = {} /\ \A ev \in Event : handler[ev][Publisher] # "add"
    BY <1>4 DEF NoBatch
  <2>1. CASE UNCHANGED <<batch, flights, handler>>
    BY <2>0, <2>1 DEF NoBatch
  <2>2. ASSUME NEW ev \in Event, Worker(ev) PROVE NoBatch'
    <3>1. UNCHANGED <<batch, flights>>
      BY <2>2, WorkerFrame DEF publisherVars
    <3>2. ASSUME NEW s \in Subscriber, Notify(ev, s) PROVE NoBatch'
      BY <2>0, <3>1, <3>2 DEF Notify, NoBatch, BaseTypes, HandlerTypes
    <3>3. QED
      BY <2>1, <2>2, <3>1, <3>2 DEF Worker, NotifyTimeout, HandleEnd, handleVars
  <2>3. ASSUME NEW ev \in Event, HandlersStep(ev) PROVE NoBatch'
    <3>1. ASSUME NEW s \in Subscriber, NEW l \in {"done", "single"},
                 handler' = [handler EXCEPT ![ev][s] = l], UNCHANGED <<batch, flights>>
          PROVE  NoBatch'
      BY <2>0, <3>1 DEF NoBatch, BaseTypes, HandlerTypes
    <3>2. CASE PublishCheck(ev)
      <4>1. UNCHANGED <<batch, flights>>
        BY <3>2 DEF PublishCheck
      <4>2. \/ handler' = [handler EXCEPT ![ev][Publisher] = "single"]
            \/ handler' = [handler EXCEPT ![ev][Publisher] = "done"]
        BY <1>4, <3>2 DEF PublishCheck, HandlerGoes, HandlerDone
      <4>3. QED
        BY <3>1, <4>1, <4>2
    <3>3. ~AddToBatch(ev)
      BY <2>0 DEF AddToBatch
    <3>4. CASE PublishSingle(ev)
      BY <3>1, <3>4 DEF PublishSingle, HandlerDone
    <3>5. ASSUME NEW s \in Subscriber, HandlerReturns(ev, s) PROVE NoBatch'
      BY <3>1, <3>5 DEF HandlerReturns, HandlerDone, publisherVars
    <3>6. QED
      BY <2>3, <3>2, <3>3, <3>4, <3>5 DEF HandlersStep, PublishStep
  <2>4. CASE BatchStep
    <3>1. UNCHANGED handler
      BY <2>4, BatchFrame DEF handleVars
    <3>2. UNCHANGED <<batch, flights>>
      BY <1>4, <2>0, <2>4 DEF BatchStep, Flight, FlushBatch, PublisherStop, PublisherStopped
    <3>3. QED
      BY <2>1, <3>1, <3>2
  <2>5. QED
    BY <2>1, <2>2, <2>3, <2>4, NextCases, EmitFrame, ProcessorFrame, SetupFrame
       DEF handleVars, publisherVars
<1>5. QED
  BY <1>3, <1>4

(* A handler that calls Publish finds the publisher running: it started     *)
(* first, and a graceful stop has waited for the handler.                   *)
LEMMA ServedInTime ==
  ASSUME Life, Placed, Waited, Served, NEW ev \in Event,
         handler[ev][Publisher] \in {"run", "add", "single"}
  PROVE  publisher = "running"
<1>1. CASE publisher = "new"
  <2>1. call[ev] = "idle"
    BY <1>1 DEF Life
  <2>2. Fresh(ev)
    BY <2>1 DEF Placed, Place, Accepted
  <2>3. QED
    BY <2>2 DEF Fresh
<1>2. CASE graceful /\ ~impatient
  <2>1. waiting[ev] # NoOne
    BY <1>2, PublisherAssumption, NoOneAssumption DEF Waited
  <2>2. ev \in Handling
    BY <2>1 DEF Placed, Place
  <2>3. QED
    BY <1>2, <2>2 DEF Life, Handling
<1>3. QED
  BY <1>1, <1>2 DEF Served

LEMMA StepFailed ==
  /\ BaseTypes /\ FlagTypes /\ Life /\ Placed /\ Waited /\ NoBatch /\ FailedByFault
  /\ [Next]_vars
  => FailedByFault'
<1> SUFFICES ASSUME BaseTypes, FlagTypes, Life, Placed, Waited, NoBatch, FailedByFault,
                    [Next]_vars
             PROVE  FailedByFault'
  OBVIOUS
<1> USE SizeAssumption
<1>1. Served' => Served
  <2>1. UNCHANGED batching /\ (impatient => impatient')
    <3>1. ASSUME NEW ev \in Event, Worker(ev) PROVE impatient => impatient'
      BY <3>1 DEF Worker, Notify, NotifyTimeout, HandleEnd, handleVars
    <3>2. QED
      BY <3>1, NextCases, EmitFrame, ProcessorFrame, WorkerFrame, HandlersFrame, BatchFrame,
         SetupFrame DEF handleVars
  <2>2. CASE BatchStep
    <3>1. UNCHANGED graceful
      BY <2>2, BatchFrame DEF emitterVars
    <3>2. publisher' = publisher \/ publisher \in {"new", "running"}
          \/ publisher' \notin {"new", "running"}
      BY <2>2 DEF BatchStep, Flight, PublishBatchCheck, PublishBatchExec, FlushBatch,
                  PublisherStop, PublisherStopped
    <3>3. QED
      BY <2>1, <3>1, <3>2 DEF Served
  <2>3. CASE Start \/ EmitterStop \/ EmitterClose
    BY <2>3 DEF Start, EmitterStop, EmitterClose, Served, Life, Running
  <2>4. CASE UNCHANGED <<publisher, graceful>>
    BY <2>1, <2>4 DEF Served
  <2>5. QED
    BY <2>2, <2>3, <2>4, NextCases, EmitFrame, ProcessorFrame, WorkerFrame, HandlersFrame
       DEF publisherVars, emitterVars, SubscriptionStep, Unsubscribe, vars
<1>2. faults \in Nat /\ faults' \in Nat
  BY StepBase DEF BaseTypes, PublisherTypes
<1>3. CASE UNCHANGED <<failed, faults>>
  BY <1>1, <1>3 DEF FailedByFault
<1>4. CASE faults' = faults + 1
  BY <1>2, <1>4 DEF FailedByFault
<1>5. ASSUME NEW ev \in Event, HandlersStep(ev) PROVE FailedByFault'
  <2>1. CASE ~Served
    BY <1>1, <2>1 DEF FailedByFault
  <2>2. ASSUME Served, PublishCheck(ev) \/ PublishSingle(ev) PROVE FailedByFault'
    <3>1. handler[ev][Publisher] \in {"run", "add", "single"}
      BY <2>2 DEF PublishCheck, PublishSingle
    <3>2. publisher = "running" /\ ~PubCancelled
      BY <2>2, <3>1, ServedInTime DEF PubCancelled
    <3>3. UNCHANGED <<failed, faults>> \/ faults' = faults + 1
      BY <2>2, <3>2 DEF PublishCheck, PublishSingle
    <3>4. QED
      BY <1>3, <1>4, <3>3
  <2>3. CASE AddToBatch(ev) \/ \E s \in Subscriber : HandlerReturns(ev, s)
    BY <1>3, <2>3 DEF AddToBatch, HandlerReturns, publisherVars
  <2>4. QED
    BY <1>5, <2>1, <2>2, <2>3 DEF HandlersStep, PublishStep
<1>6. ASSUME NEW f \in flights, PublishBatchCheck(f) \/ PublishBatchExec(f)
      PROVE  FailedByFault'
  <2>1. batching /\ publisher # "new"
    BY DEF NoBatch
  <2>2. UNCHANGED <<publisher, batching>>
    BY <1>6 DEF PublishBatchCheck, PublishBatchExec
  <2>3. CASE publisher # "running"
    BY <2>1, <2>2, <2>3 DEF FailedByFault, Served
  <2>4. CASE publisher = "running"
    <3>1. CASE PublishBatchCheck(f)
      BY <1>3, <2>4, <3>1 DEF PublishBatchCheck
    <3>2. CASE PublishBatchExec(f)
      <4>1. ~PubCancelled
        BY <2>4 DEF PubCancelled
      <4>2. PICK n \in 0 .. Len(f.events) :
              /\ IF n = Len(f.events) THEN UNCHANGED faults ELSE faults' = faults + 1
              /\ failed' = failed \cup {f.events[i] : i \in (n + 1) .. Len(f.events)}
        BY <3>2, <4>1 DEF PublishBatchExec
      <4>3. CASE n = Len(f.events)
        <5>1. Len(f.events) \in Nat
          BY ElementTypes DEF BaseTypes, PublisherTypes
        <5>2. (n + 1) .. Len(f.events) = {}
          BY <4>3, <5>1
        <5>3. QED
          BY <1>3, <4>2, <4>3, <5>2
      <4>4. QED
        BY <1>4, <4>2, <4>3
    <3>3. QED
      BY <1>6, <3>1, <3>2
  <2>5. QED
    BY <2>3, <2>4
<1>7. CASE BatchStep
  BY <1>3, <1>6, <1>7 DEF BatchStep, Flight, FlushBatch, PublisherStop, PublisherStopped
<1>8. QED
  BY <1>3, <1>5, <1>7, NextCases, EmitFrame, ProcessorFrame, WorkerFrame, SetupFrame
     DEF publisherVars

-----------------------------------------------------------------------------
(* The inductive invariant and the theorems.                               *)

IInv ==
  /\ BaseTypes /\ FlagTypes /\ PoolTypes /\ Life /\ Placed
  /\ SentOnce /\ OnTheWay /\ Waited /\ NoBatch /\ FailedByFault

LEMMA InitInv == Init => IInv
<1> SUFFICES ASSUME Init PROVE IInv
  OBVIOUS
<1> USE DEF Init
<1>1. BaseTypes /\ FlagTypes
  BY InitTypes
<1>2. PoolTypes
  BY FS_EmptySet, SizeAssumption DEF PoolTypes
<1>3. Life
  BY DEF Life, Running, Closed, Cancelled
<1>4. Elements(eventChan) = {} /\ Elements(batch) = {} /\ Distinct(eventChan) /\ Distinct(batch)
  BY EmptyFacts
<1>5. \A ev \in Event : handler[ev][Publisher] = "none"
  BY PublisherAssumption
<1>6. Placed
  BY <1>4, <1>5 DEF Placed, Place, Fresh, Accepted
<1>7. SentOnce
  BY <1>4, <1>5 DEF SentOnce, Sent, InFlight, FlightsApart
<1>8. OnTheWay /\ Waited /\ NoBatch /\ FailedByFault
  BY <1>5 DEF OnTheWay, Traced, Waited, NoBatch, FailedByFault
<1>9. QED
  BY <1>1, <1>2, <1>3, <1>6, <1>7, <1>8 DEF IInv

LEMMA Inductive == Spec => []IInv
<1>1. IInv /\ [Next]_vars => IInv'
  BY StepBase, StepFlags, StepPool, StepLife, StepPlaced, StepSent, StepTraced, StepWaited,
     StepNoBatch, StepFailed DEF IInv
<1>2. QED
  BY <1>1, InitInv, PTL DEF Spec

(* The variables keep their types: the channel and the batch stay within   *)
(* their capacities and every worker token is free or with a worker.       *)
THEOREM TypeCorrect == Spec => []TypeOK
<1>1. IInv => TypeOK
  BY DEF IInv, BaseTypes, TypeOK
<1>2. QED
  BY <1>1, Inductive, PTL

(* Redis receives an event at most once, whichever of the flush timer, the *)
(* flush worker, a full batch and Stop flushes the batch it is in.         *)
THEOREM OncePublished == Spec => []PublishedOnce
<1>1. IInv => PublishedOnce
  <2> SUFFICES ASSUME IInv, NEW ev \in Event
               PROVE  published[ev] <= 1 /\ (published[ev] = 1 => Accepted(ev))
    BY DEF PublishedOnce
  <2>1. Sent(ev) /\ Place(ev)
    BY DEF IInv, SentOnce, Placed
  <2>2. QED
    BY <2>1 DEF Sent, Place, Fresh
<1>2. QED
  BY <1>1, Inductive, PTL

(* While the gateway runs, an event Emit accepted is still on its way, has *)
(* been published, or was given up for a failed Redis call.                *)
THEOREM NoneLost == Spec => []AcceptedNotLost
<1>1. IInv => AcceptedNotLost
  <2> SUFFICES ASSUME IInv, Running, NEW ev \in Event, Accepted(ev), ev \in Types[Publisher]
               PROVE  Pending(ev) \/ published[ev] = 1 \/ (ev \in failed /\ faults > 0)
    BY DEF AcceptedNotLost
  <2>1. call[ev] = "accepted" /\ procPc # "done" /\ publisher = "running"
    BY DEF IInv, Life, Accepted, Running, Cancelled
  <2>2. Traced(ev) /\ Sent(ev)
    BY DEF IInv, OnTheWay, SentOnce
  <2>3. CASE handler[ev][Publisher] = "done"
    <3>1. Pending(ev) \/ published[ev] = 1 \/ ev \in failed
      BY <2>2, <2>3 DEF Sent, InFlight, Pending
    <3>2. ev \in failed => faults > 0
      BY <2>1 DEF IInv, FailedByFault, Served
    <3>3. QED
      BY <3>1, <3>2
  <2>4. CASE handler[ev][Publisher] \in {"run", "add", "single"}
    BY <2>4 DEF Pending
  <2>5. CASE handler[ev][Publisher] = "none"
    BY <2>1, <2>2, <2>5 DEF Traced, Pending
  <2>6. QED
    BY <2>3, <2>4, <2>5, PublisherAssumption
       DEF IInv, BaseTypes, HandlerTypes, HandlerStates
<1>2. QED
  BY <1>1, Inductive, PTL

(* After a graceful stop whose drain emptied the channel, every event that *)
(* was accepted before the stop has been handed to the publisher.          *)
THEOREM DrainedAll == Spec => []GracefulStopDrains
<1>1. IInv => GracefulStopDrains
  <2> SUFFICES ASSUME IInv, graceful, drained, NEW ev \in Types[Publisher],
                      call[ev] = "accepted"
               PROVE  handler[ev][Publisher] # "none"
    BY DEF GracefulStopDrains
  <2>1. ev \in Event
    BY PublisherAssumption
  <2>2. procPc = "done" /\ workers = {} /\ ev \notin Elements(eventChan)
    BY <2>1 DEF IInv, Life, OnTheWay
  <2>3. todo[ev] = {}
    BY <2>1, <2>2 DEF IInv, Placed, Place, Handling
  <2>4. QED
    BY <2>1, <2>2, <2>3 DEF IInv, OnTheWay, Traced
<1>2. QED
  BY <1>1, Inductive, PTL

(* A graceful stop in which no handler timed out, without batching, turns  *)
(* no event away: the publisher gives up events for a Redis fault only.    *)
THEOREM StopPublishes == Spec => []GracefulStopPublishes
<1>1. IInv => GracefulStopPublishes
  BY DEF IInv, FailedByFault, Served, GracefulStopPublishes
<1>2. QED
  BY <1>1, Inductive, PTL

==============================================================================
