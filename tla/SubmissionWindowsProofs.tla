---------------------- MODULE SubmissionWindowsProofs -----------------------
(***************************************************************************)
(* Proofs about SubmissionWindows, for any chain of logs, any finite set   *)
(* of epochs, any scan range and capacities, and any number of restarts.   *)
(***************************************************************************)
EXTENDS SubmissionWindows, FiniteSetTheorems, TLAPS

-----------------------------------------------------------------------------
(* The chain, and sequences of its logs.                                   *)

LEMMA ChainFacts ==
  /\ Event \subseteq Nat \ {0} /\ NoEvent \notin Event /\ IsFiniteSet(Event)
  /\ \A i \in Event : EpochOf(i) \in Epoch /\ Chain[i].block \in Nat
  /\ \A i, j \in Event : Chain[i].block < Chain[j].block => i < j
<1>1. Event = 1 .. Len(Chain) /\ Len(Chain) \in Nat
  BY ChainAssumption DEF Event
<1>2. IsFiniteSet(Event)
  BY <1>1, FS_Interval
<1>3. Event \subseteq Nat \ {0} /\ NoEvent \notin Event
  BY <1>1 DEF NoEvent
<1>4. \A i \in Event : Chain[i] \in [epoch : Epoch, block : Nat \ {0}, ours : BOOLEAN]
  <2>1. ASSUME NEW S, NEW s \in Seq(S), NEW i \in DOMAIN s PROVE s[i] \in S
    OBVIOUS
  <2>2. QED
    BY <2>1, ChainAssumption DEF Event
<1>5. \A i \in Event : EpochOf(i) \in Epoch /\ Chain[i].block \in Nat
  BY <1>4 DEF EpochOf
<1>6. ASSUME NEW i \in Event, NEW j \in Event, Chain[i].block < Chain[j].block
      PROVE  i < j
  <2>1. i \in Nat /\ j \in Nat /\ Chain[i].block \in Nat /\ Chain[j].block \in Nat
    BY <1>3, <1>5
  <2>2. i # j
    BY <1>6, <2>1
  <2>3. ~(j < i)
    BY <1>6, <2>1, ChainAssumption
  <2>4. QED
    BY <2>1, <2>2, <2>3
<1>7. QED
  BY <1>2, <1>3, <1>5, <1>6

LEMMA BlockType == \A i \in Event : Chain[i].block \in Nat
BY ChainFacts

LEMMA LogsSplit ==
  ASSUME NEW a \in Nat, NEW b \in Nat, NEW c \in Nat, a <= b, b <= c
  PROVE  /\ Logs(a, a) = {}
         /\ Logs(a, c) = Logs(a, b) \cup Logs(b, c)
         /\ Logs(a, b) \cap Logs(b, c) = {}
<1>1. ASSUME NEW i \in Event
      PROVE  /\ ~(a < Chain[i].block /\ Chain[i].block <= a)
             /\ a < Chain[i].block /\ Chain[i].block <= c <=>
                  \/ a < Chain[i].block /\ Chain[i].block <= b
                  \/ b < Chain[i].block /\ Chain[i].block <= c
             /\ ~(Chain[i].block <= b /\ b < Chain[i].block)
  <2>1. Chain[i].block \in Nat
    BY BlockType
  <2> DEFINE k == Chain[i].block
  <2> HIDE DEF k
  <2>2. k \in Nat
    BY <2>1 DEF k
  <2>3. /\ ~(a < k /\ k <= a) /\ ~(k <= b /\ b < k)
        /\ a < k /\ k <= c <=> (a < k /\ k <= b) \/ (b < k /\ k <= c)
    BY <2>2
  <2>4. QED
    BY <2>3 DEF k
<1>2. QED
  BY <1>1 DEF Logs

Elements(s) == {s[n] : n \in DOMAIN s}

LEMMA AppendElements ==
  ASSUME NEW S, NEW s \in Seq(S), NEW x \in S
  PROVE  /\ Append(s, x) \in Seq(S)
         /\ Len(Append(s, x)) = Len(s) + 1
         /\ DOMAIN Append(s, x) = DOMAIN s \cup {Len(s) + 1}
         /\ \A n \in DOMAIN s : n \in Nat /\ n <= Len(s) /\ Append(s, x)[n] = s[n]
         /\ Append(s, x)[Len(s) + 1] = x
         /\ Elements(Append(s, x)) = Elements(s) \cup {x}
<1>1. /\ Append(s, x) \in Seq(S)
      /\ Len(Append(s, x)) = Len(s) + 1 /\ Len(s) \in Nat
      /\ \A n \in DOMAIN s : n \in Nat /\ n <= Len(s) /\ Append(s, x)[n] = s[n]
      /\ Append(s, x)[Len(s) + 1] = x
  OBVIOUS
<1>2. DOMAIN Append(s, x) = DOMAIN s \cup {Len(s) + 1}
  OBVIOUS
<1>3. QED
  BY <1>1, <1>2 DEF Elements

LEMMA TailElements ==
  ASSUME NEW S, NEW s \in Seq(S), s # <<>>
  PROVE  /\ Tail(s) \in Seq(S) /\ Len(Tail(s)) = Len(s) - 1 /\ Len(s) \in Nat
         /\ Head(s) = s[1] /\ 1 \in DOMAIN s
         /\ \A n \in DOMAIN Tail(s) :
              n \in Nat \ {0} /\ n + 1 \in DOMAIN s /\ Tail(s)[n] = s[n + 1]
OBVIOUS

-----------------------------------------------------------------------------
(* The steps by actor, and what those of each actor leave alone.           *)

TimersStep == \E i \in Event : TimerStep(i)

LEMMA NextCases ==
  ASSUME [Next]_vars
  PROVE  \/ NewBlock \/ PollerStep \/ ProcessorStep \/ StopStep
         \/ TimersStep \/ Restart \/ UNCHANGED vars
BY DEF Next, TimersStep

LEMMA PollerFrame ==
  ASSUME PollerStep
  PROVE  UNCHANGED <<head, procVars, windowVars, runVars, opened, dropped,
                     abandoned, finalizations>>
BY DEF PollerStep, PollStart, SendEvent, PollDone, histVars

LEMMA ProcessorFrame ==
  ASSUME ProcessorStep
  PROVE  UNCHANGED <<head, pollVars, runVars, closing, doneCloses, sent,
                     abandoned, finalizations>>
BY DEF ProcessorStep, ReceiveEvent, ProcessorExits, SkipOld, RejectDuplicate, Drop,
       CheckExists, AcquireSlot, RefuseWindow, InsertWindow, ArmTimer, windowVars,
       histVars

LEMMA TimersFrame ==
  ASSUME TimersStep
  PROVE  UNCHANGED <<head, pollVars, eventChan, procVars, runVars, sent, opened,
                     dropped, abandoned>>
BY DEF TimersStep, TimerStep, TimerFires, CloseWindow, CloseFindsNothing, ReleaseSlot,
       CloseDone, TriggerFinalization, histVars

LEMMA StopFrame ==
  ASSUME StopStep
  PROVE  UNCHANGED <<head, pollVars, eventChan, procVars, semaphore, closing, restarts,
                     start, sent, opened, dropped, finalizations>>
BY DEF StopStep, Cancel, Shutdown, ShutdownPanics, windowVars, histVars

-----------------------------------------------------------------------------
(* Type correctness.                                                       *)

(* The event processor at work has an event, a closer a window.            *)
Held ==
  /\ procPc \in {"handle", "acquire", "insert", "arm"} => procEvent \in Event
  /\ \A i \in Event : timer[i] \in {"release", "close", "trigger"} =>
       closing[i] \in Event

TypeInv == TypeOK /\ Held

LEMMA StartType == ASSUME NEW h \in Nat PROVE StartBlocks(h) \subseteq Nat
BY BoundAssumption DEF StartBlocks

LEMMA HeadType == PollTypes => head \in Nat
BY BoundAssumption DEF PollTypes

LEMMA InitType == Init => TypeInv
<1> SUFFICES ASSUME Init PROVE TypeInv
  OBVIOUS
<1>1. PollTypes
  <2>1. head \in {0, 1} /\ lastProcessedBlock \in Nat
    BY StartType DEF Init
  <2>2. QED
    BY <2>1, BoundAssumption DEF Init, PollTypes
<1>2. ProcTypes
  BY BoundAssumption DEF Init, ProcTypes
<1>3. WindowTypes
  BY BoundAssumption DEF Init, WindowTypes
<1>4. panicked \in BOOLEAN
  BY DEF Init
<1>5. Held
  BY DEF Init, Held
<1>6. QED
  BY <1>1, <1>2, <1>3, <1>4, <1>5 DEF TypeInv, TypeOK

LEMMA StepPollTypes == TypeInv /\ [Next]_vars => PollTypes'
<1> SUFFICES ASSUME TypeInv, [Next]_vars PROVE PollTypes'
  OBVIOUS
<1> USE BoundAssumption DEF TypeInv, TypeOK, PollTypes, pollVars
<1>1. head \in Nat
  BY HeadType
<1>2. CASE NewBlock
  BY <1>1, <1>2 DEF NewBlock, runVars, histVars
<1>3. CASE PollStart
  <2>1. pending' \subseteq Event
    BY <1>3 DEF PollStart, Logs
  <2>2. pollTo' \in Nat
    BY <1>1, <1>3 DEF PollStart
  <2>3. QED
    BY <1>3, <2>1, <2>2 DEF PollStart, runVars, histVars
<1>4. CASE SendEvent
  <2>1. PICK i \in pending : /\ eventChan' = Append(eventChan, i)
                             /\ sent' = Append(sent, i)
                             /\ pending' = pending \ {i}
    BY <1>4 DEF SendEvent
  <2>2. /\ eventChan' \in Seq(Event) /\ Len(eventChan') = Len(eventChan) + 1
        /\ sent' \in Seq(Event)
    BY <2>1, AppendElements
  <2>3. Len(eventChan') <= ChanCap
    BY <1>4, <2>2 DEF SendEvent
  <2>4. QED
    BY <1>4, <2>1, <2>2, <2>3 DEF SendEvent, runVars
<1>5. CASE PollDone
  BY <1>5 DEF PollDone, runVars, histVars
<1>6. CASE ProcessorStep
  <2>1. UNCHANGED <<head, pollVars, start, sent>>
    BY <1>6, ProcessorFrame DEF runVars
  <2>2. CASE ReceiveEvent
    <3>1. eventChan' \in Seq(Event) /\ Len(eventChan') = Len(eventChan) - 1
          /\ Len(eventChan) \in Nat
      BY <2>2, TailElements DEF ReceiveEvent
    <3>2. QED
      BY <2>1, <3>1
  <2>3. CASE ~ReceiveEvent
    BY <1>6, <2>1, <2>3
       DEF ProcessorStep, ProcessorExits, SkipOld, RejectDuplicate, Drop,
           CheckExists, AcquireSlot, RefuseWindow, InsertWindow, ArmTimer
  <2>4. QED
    BY <2>2, <2>3
<1>7. CASE TimersStep \/ StopStep
  BY <1>7, TimersFrame, StopFrame DEF runVars
<1>8. CASE Restart
  BY <1>1, <1>8, StartType DEF Restart
<1>9. CASE UNCHANGED vars
  BY <1>9 DEF vars, runVars, histVars
<1>10. QED
  BY <1>2, <1>3, <1>4, <1>5, <1>6, <1>7, <1>8, <1>9, NextCases DEF PollerStep

LEMMA StepProcTypes == TypeInv /\ [Next]_vars => ProcTypes'
<1> SUFFICES ASSUME TypeInv, [Next]_vars PROVE ProcTypes'
  OBVIOUS
<1> USE BoundAssumption DEF TypeInv, TypeOK, ProcTypes, procVars, runVars, Goto
<1>1. CASE ReceiveEvent
  BY <1>1 DEF ReceiveEvent, PollTypes
<1>2. CASE ProcessorStep /\ ~ReceiveEvent
  BY <1>2, ProcessorFrame
     DEF ProcessorStep, ProcessorExits, SkipOld, RejectDuplicate, Drop,
         CheckExists, AcquireSlot, RefuseWindow, InsertWindow, ArmTimer
<1>3. CASE NewBlock \/ PollerStep \/ TimersStep \/ UNCHANGED vars
  BY <1>3, PollerFrame, TimersFrame DEF NewBlock, vars
<1>4. CASE StopStep
  BY <1>4 DEF StopStep, Cancel, Shutdown, ShutdownPanics
<1>5. CASE Restart
  BY <1>5 DEF Restart
<1>6. QED
  BY <1>1, <1>2, <1>3, <1>4, <1>5, NextCases

LEMMA StepWindowTypes == TypeInv /\ [Next]_vars => WindowTypes'
<1> SUFFICES ASSUME TypeInv, [Next]_vars PROVE WindowTypes'
  OBVIOUS
<1> USE BoundAssumption DEF TypeInv, TypeOK, Held, WindowTypes, windowVars, histVars
<1>1. CASE ProcessorStep
  <2>1. CASE SkipOld \/ RejectDuplicate \/ RefuseWindow
    <3>1. procPc \in {"handle", "acquire"} /\ dropped' = dropped \cup {procEvent}
          /\ UNCHANGED <<windowVars, opened, abandoned, finalizations>>
      BY <2>1 DEF SkipOld, RejectDuplicate, RefuseWindow, Drop
    <3>2. QED
      BY <3>1
  <2>2. CASE AcquireSlot
    BY <2>2 DEF AcquireSlot
  <2>3. CASE InsertWindow
    BY <2>3 DEF InsertWindow
  <2>4. CASE ArmTimer
    BY <2>4 DEF ArmTimer
  <2>5. CASE ReceiveEvent \/ ProcessorExits \/ CheckExists
    BY <2>5 DEF ReceiveEvent, ProcessorExits, CheckExists
  <2>6. QED
    BY <1>1, <2>1, <2>2, <2>3, <2>4, <2>5 DEF ProcessorStep
<1>2. ASSUME NEW i \in Event, TimerStep(i) PROVE WindowTypes'
  <2>1. CASE TimerFires(i)
    BY <2>1 DEF TimerFires
  <2>2. CASE CloseWindow(i)
    <3>1. EpochOf(i) \in Epoch
      BY ChainFacts
    <3>2. QED
      BY <2>2, <3>1 DEF CloseWindow
  <2>3. CASE CloseFindsNothing(i)
    BY <2>3 DEF CloseFindsNothing
  <2>4. CASE ReleaseSlot(i)
    BY <2>4 DEF ReleaseSlot
  <2>5. CASE CloseDone(i)
    BY <2>5 DEF CloseDone
  <2>6. CASE TriggerFinalization(i)
    BY <2>6 DEF TriggerFinalization
  <2>7. QED
    BY <1>2, <2>1, <2>2, <2>3, <2>4, <2>5, <2>6 DEF TimerStep
<1>3. CASE Shutdown
  BY <1>3 DEF Shutdown, Open
<1>4. CASE Cancel \/ ShutdownPanics
  BY <1>4 DEF Cancel, ShutdownPanics
<1>5. CASE NewBlock \/ PollerStep \/ UNCHANGED vars
  BY <1>5, PollerFrame DEF NewBlock, vars
<1>6. CASE Restart
  BY <1>6 DEF Restart
<1>7. QED
  BY <1>1, <1>2, <1>3, <1>4, <1>5, <1>6, NextCases DEF TimersStep, StopStep

LEMMA StepPanicType == TypeInv /\ [Next]_vars => panicked' \in BOOLEAN
<1> SUFFICES ASSUME TypeInv, [Next]_vars PROVE panicked' \in BOOLEAN
  OBVIOUS
<1>1. panicked' = panicked \/ panicked' = TRUE \/ panicked' = FALSE
  <2>1. CASE NewBlock \/ PollerStep \/ ProcessorStep \/ TimersStep \/ UNCHANGED vars
    BY <2>1, PollerFrame, ProcessorFrame, TimersFrame DEF NewBlock, runVars, vars
  <2>2. CASE StopStep \/ Restart
    BY <2>2 DEF StopStep, Cancel, Shutdown, ShutdownPanics, Restart
  <2>3. QED
    BY <2>1, <2>2, NextCases
<1>2. QED
  BY <1>1 DEF TypeInv, TypeOK

LEMMA StepHeld == TypeInv /\ [Next]_vars => Held'
<1> SUFFICES ASSUME TypeInv, [Next]_vars PROVE Held'
  OBVIOUS
<1> USE DEF TypeInv, TypeOK, Held, Goto, procVars, windowVars, histVars
<1>1. CASE ProcessorStep
  <2>1. procPc' \in {"handle", "acquire", "insert", "arm"} => procEvent' \in Event
    BY <1>1 DEF ProcessorStep, ReceiveEvent, ProcessorExits, SkipOld, RejectDuplicate,
                Drop, CheckExists, AcquireSlot, RefuseWindow, InsertWindow, ArmTimer,
                PollTypes
  <2>2. /\ \A i \in Event : timer'[i] \in {timer[i], "armed"}
        /\ UNCHANGED closing
    BY <1>1 DEF ProcessorStep, ReceiveEvent, ProcessorExits, SkipOld, RejectDuplicate,
                Drop, CheckExists, AcquireSlot, RefuseWindow, InsertWindow, ArmTimer,
                WindowTypes
  <2>3. QED
    BY <2>1, <2>2
<1>2. ASSUME NEW i \in Event, TimerStep(i) PROVE Held'
  <2>1. CASE CloseWindow(i)
    <3>1. activeWindows[EpochOf(i)] \in Event
      BY <2>1, ChainFacts DEF CloseWindow, WindowTypes
    <3>2. QED
      BY <2>1, <3>1 DEF CloseWindow, WindowTypes
  <2>2. CASE ~CloseWindow(i)
    <3>1. UNCHANGED <<closing, procVars>> /\ \A j \in Event \ {i} : timer'[j] = timer[j]
      BY <1>2, <2>2 DEF TimerStep, TimerFires, CloseFindsNothing, ReleaseSlot,
                        CloseDone, TriggerFinalization, WindowTypes
    <3>2. timer'[i] \in {"release", "close", "trigger"} =>
            timer[i] \in {"release", "close", "trigger"}
      BY <1>2, <2>2 DEF TimerStep, TimerFires, CloseFindsNothing, ReleaseSlot,
                        CloseDone, TriggerFinalization, WindowTypes
    <3>3. QED
      BY <3>1, <3>2
  <2>3. QED
    BY <2>1, <2>2
<1>3. CASE StopStep
  BY <1>3 DEF StopStep, Cancel, Shutdown, ShutdownPanics
<1>4. CASE Restart
  BY <1>4 DEF Restart
<1>5. CASE NewBlock \/ PollerStep \/ UNCHANGED vars
  BY <1>5, PollerFrame DEF NewBlock, vars
<1>6. QED
  BY <1>1, <1>2, <1>3, <1>4, <1>5, NextCases DEF TimersStep

LEMMA StepType == TypeInv /\ [Next]_vars => TypeInv'
BY StepPollTypes, StepProcTypes, StepWindowTypes, StepPanicType, StepHeld
   DEF TypeInv, TypeOK

(* The variables have their types; eventChan and the window semaphore stay *)
(* within their capacities.                                                *)
THEOREM TypeCorrect == Spec => []TypeOK
<1>1. TypeInv => TypeOK
  BY DEF TypeInv
<1>2. QED
  BY <1>1, InitType, StepType, PTL DEF Spec

-----------------------------------------------------------------------------
(* Scans.                                                                  *)

(* A scan ends after the block the last one ended with, and has logs to    *)
(* send only while it runs; what was sent comes before what is pending.    *)
ScanBounds ==
  /\ start <= lastProcessedBlock
  /\ pollTo # 0 => lastProcessedBlock < pollTo
  /\ pollTo = 0 => pending = {}
  /\ \A n \in DOMAIN sent, i \in pending : sent[n] < i

ScanInv == TypeInv /\ ScanBounds /\ ScannedInOrder

LEMMA InitScan == Init => ScanInv
<1> SUFFICES ASSUME Init PROVE ScanInv
  OBVIOUS
<1>1. TypeInv
  BY InitType
<1>2. Logs(start, start) = {}
  BY <1>1, LogsSplit DEF TypeInv, TypeOK, PollTypes
<1>3. QED
  BY <1>1, <1>2 DEF Init, ScanInv, ScanBounds, ScannedInOrder, TypeInv, TypeOK, PollTypes

LEMMA StepScan == ScanInv /\ [Next]_vars => ScanBounds' /\ ScannedInOrder'
<1> SUFFICES ASSUME ScanInv, [Next]_vars PROVE ScanBounds' /\ ScannedInOrder'
  OBVIOUS
<1> USE DEF ScanInv
<1>0. /\ lastProcessedBlock \in Nat /\ pollTo \in Nat /\ start \in Nat /\ head \in Nat
      /\ pending \subseteq Event /\ sent \in Seq(Event)
  BY HeadType DEF TypeInv, TypeOK, PollTypes
<1>1. CASE PollStart
  <2>1. /\ pollTo = 0 /\ pending = {} /\ UNCHANGED <<lastProcessedBlock, start, sent>>
        /\ pending' = Logs(lastProcessedBlock, pollTo')
    BY <1>1 DEF PollStart, ScanBounds, runVars, histVars
  <2>2. pollTo' \in Nat /\ lastProcessedBlock < pollTo'
    BY <1>0, <1>1, BoundAssumption DEF PollStart
  <2>3. /\ Elements(sent) = Logs(start, lastProcessedBlock)
        /\ \A m, n \in DOMAIN sent : m < n => sent[m] < sent[n]
    BY <2>1 DEF ScannedInOrder, Elements
  <2>4. /\ Logs(start, pollTo') = Logs(start, lastProcessedBlock) \cup pending'
        /\ Logs(start, lastProcessedBlock) \cap pending' = {}
    BY <1>0, <2>1, <2>2, LogsSplit DEF ScanBounds
  <2>5. ASSUME NEW n \in DOMAIN sent, NEW i \in pending' PROVE sent[n] < i
    <3>1. sent[n] \in Logs(start, lastProcessedBlock)
      BY <2>3 DEF Elements
    <3>2. /\ sent[n] \in Event /\ i \in Event
          /\ Chain[sent[n]].block <= lastProcessedBlock /\ lastProcessedBlock < Chain[i].block
      BY <2>1, <3>1 DEF Logs
    <3>3. Chain[sent[n]].block < Chain[i].block
      BY <1>0, <3>2, BlockType
    <3>4. QED
      BY <3>2, <3>3, ChainFacts
  <2>6. ScanBounds'
    BY <1>0, <2>1, <2>2, <2>5 DEF ScanBounds
  <2>7. ScannedInOrder'
    BY <1>0, <2>1, <2>2, <2>3, <2>4 DEF ScannedInOrder, Elements
  <2>8. QED
    BY <2>6, <2>7
<1>2. CASE SendEvent
  <2>1. PICK i \in pending : /\ \A j \in pending : i <= j
                             /\ sent' = Append(sent, i)
                             /\ pending' = pending \ {i}
    BY <1>2 DEF SendEvent
  <2>2. UNCHANGED <<lastProcessedBlock, start, pollTo>>
    BY <1>2 DEF SendEvent, runVars
  <2>3. /\ DOMAIN sent' = DOMAIN sent \cup {Len(sent) + 1} /\ Len(sent) \in Nat
        /\ \A n \in DOMAIN sent : n \in Nat /\ n <= Len(sent) /\ sent'[n] = sent[n]
        /\ sent'[Len(sent) + 1] = i
        /\ Elements(sent') = Elements(sent) \cup {i}
    BY <1>0, <2>1, AppendElements
  <2>4. i \in Nat /\ \A j \in pending : j \in Nat
    BY <1>0, ChainFacts
  <2>5. \A n \in DOMAIN sent', j \in pending' : sent'[n] < j
    <3>1. ASSUME NEW j \in pending' PROVE i < j
      BY <2>1, <2>4, <3>1
    <3>2. \A n \in DOMAIN sent, j \in pending' : sent[n] < j
      BY <2>1 DEF ScanBounds
    <3>3. QED
      BY <2>3, <3>1, <3>2
  <2>6. ScanBounds'
    BY <1>0, <2>1, <2>2, <2>5 DEF ScanBounds
  <2>7. \A m, n \in DOMAIN sent' : m < n => sent'[m] < sent'[n]
    <3> SUFFICES ASSUME NEW m \in DOMAIN sent', NEW n \in DOMAIN sent', m < n
                 PROVE  sent'[m] < sent'[n]
      OBVIOUS
    <3>1. CASE n \in DOMAIN sent
      <4>1. m \in DOMAIN sent
        BY <2>3, <3>1
      <4>2. QED
        BY <2>3, <3>1, <4>1 DEF ScannedInOrder
    <3>2. CASE n = Len(sent) + 1
      <4>1. m \in DOMAIN sent
        BY <2>3, <3>2
      <4>2. QED
        BY <2>3, <3>2, <4>1 DEF ScanBounds
    <3>3. QED
      BY <2>3, <3>1, <3>2
  <2>8. ScannedInOrder'
    <3> DEFINE scanned == Logs(start, IF pollTo = 0 THEN lastProcessedBlock ELSE pollTo)
    <3>1. pending \subseteq scanned /\ Elements(sent) = scanned \ pending
      BY DEF ScannedInOrder, Elements
    <3> HIDE DEF scanned
    <3>2. pending' \subseteq scanned /\ Elements(sent') = scanned \ pending'
      BY <2>1, <2>3, <3>1
    <3>3. QED
      BY <2>2, <2>7, <3>2 DEF ScannedInOrder, Elements, scanned
  <2>9. QED
    BY <2>6, <2>8
<1>3. CASE PollDone
  BY <1>0, <1>3 DEF PollDone, ScanBounds, ScannedInOrder, runVars, histVars
<1>4. CASE Restart
  <2>1. /\ start' = lastProcessedBlock' /\ pollTo' = 0 /\ pending' = {} /\ sent' = <<>>
        /\ lastProcessedBlock' \in Nat
    BY <1>0, <1>4, StartType DEF Restart
  <2>2. Logs(start', start') = {}
    BY <2>1, LogsSplit
  <2>3. QED
    BY <2>1, <2>2 DEF ScanBounds, ScannedInOrder
<1>5. CASE NewBlock \/ ProcessorStep \/ TimersStep \/ StopStep \/ UNCHANGED vars
  <2>1. UNCHANGED <<pollVars, start, sent>>
    BY <1>5, ProcessorFrame, TimersFrame, StopFrame DEF NewBlock, runVars, histVars, vars
  <2>2. QED
    BY <2>1 DEF ScanBounds, ScannedInOrder, pollVars
<1>6. QED
  BY <1>1, <1>2, <1>3, <1>4, <1>5, NextCases DEF PollerStep

LEMMA ScanInductive == Spec => []ScanInv
<1>1. ScanInv /\ [Next]_vars => ScanInv'
  BY StepType, StepScan DEF ScanInv
<1>2. QED
  BY <1>1, InitScan, PTL DEF Spec

(* Wherever the scan ranges are cut and however long a send blocks, every  *)
(* wanted log between the start block and the scanned height is handed     *)
(* over once, in chain order.                                              *)
THEOREM LogsInOrder == Spec => []ScannedInOrder
<1>1. ScanInv => ScannedInOrder
  BY DEF ScanInv
<1>2. QED
  BY <1>1, ScanInductive, PTL

-----------------------------------------------------------------------------
(* Every event is handled once.                                            *)

(* What the processor handles was sent, and no event in the channel has    *)
(* been received before.                                                   *)
Fresh ==
  /\ opened \subseteq Elements(sent) /\ Elements(eventChan) \subseteq Elements(sent)
  /\ procEvent \in Elements(sent) \cup {NoEvent}
  /\ \A m, n \in DOMAIN eventChan : eventChan[m] = eventChan[n] => m = n
  /\ \A n \in DOMAIN eventChan : eventChan[n] \notin opened /\ eventChan[n] # procEvent
  /\ procPc \in {"handle", "acquire", "insert"} => procEvent \notin opened

LEMMA InitFresh == Init => Fresh
BY DEF Init, Fresh, Elements

LEMMA StepFresh == ScanInv /\ Fresh /\ [Next]_vars => Fresh'
<1> SUFFICES ASSUME ScanInv, Fresh, [Next]_vars PROVE Fresh'
  OBVIOUS
<1>0. /\ eventChan \in Seq(Event) /\ sent \in Seq(Event) /\ pending \subseteq Event
      /\ Elements(sent) \cap pending = {} /\ Elements(eventChan) \subseteq Elements(sent)
      /\ NoEvent \notin Event
  <2>1. ASSUME NEW n \in DOMAIN sent PROVE sent[n] \notin pending
    <3>1. sent[n] \in Event
      BY DEF ScanInv, TypeInv, TypeOK, PollTypes
    <3>2. sent[n] \in Nat
      BY <3>1, ChainFacts
    <3>3. \A j \in pending : sent[n] < j
      BY DEF ScanInv, ScanBounds
    <3>4. QED
      BY <3>2, <3>3
  <2>2. QED
    BY <2>1, ChainFacts, SMTT(30) DEF ScanInv, TypeInv, TypeOK, PollTypes, Elements, Fresh
<1>1. CASE SendEvent
  <2>1. PICK i \in pending : /\ sent' = Append(sent, i)
                             /\ eventChan' = Append(eventChan, i)
    BY <1>1 DEF SendEvent
  <2>2. UNCHANGED <<opened, procPc, procEvent>>
    BY <1>1 DEF SendEvent, procVars
  <2>3. i \in Event /\ i \notin Elements(sent) /\ i # NoEvent
    BY <1>0
  <2>4. Elements(sent') = Elements(sent) \cup {i}
    BY <1>0, <2>1, <2>3, AppendElements
  <2>5. /\ DOMAIN eventChan' = DOMAIN eventChan \cup {Len(eventChan) + 1}
        /\ \A n \in DOMAIN eventChan : /\ n \in Nat /\ n <= Len(eventChan)
                                       /\ eventChan'[n] = eventChan[n]
        /\ eventChan'[Len(eventChan) + 1] = i
        /\ Elements(eventChan') = Elements(eventChan) \cup {i}
    BY <1>0, <2>1, <2>3, AppendElements
  <2>6. \A n \in DOMAIN eventChan : eventChan[n] \in Elements(sent)
    BY <1>0 DEF Elements
  <2>7. \A m, n \in DOMAIN eventChan' : eventChan'[m] = eventChan'[n] => m = n
    BY <2>3, <2>5, <2>6 DEF Fresh
  <2>8. \A n \in DOMAIN eventChan' : eventChan'[n] \notin opened /\ eventChan'[n] # procEvent
    BY <2>3, <2>5 DEF Fresh
  <2>9. QED
    BY <2>2, <2>4, <2>5, <2>7, <2>8 DEF Fresh
<1>2. CASE ReceiveEvent
  <2>1. /\ eventChan' = Tail(eventChan) /\ eventChan # <<>>
        /\ procEvent' = Head(eventChan) /\ UNCHANGED <<sent, opened>>
    BY <1>2 DEF ReceiveEvent, histVars
  <2>2. /\ procEvent' = eventChan[1] /\ 1 \in DOMAIN eventChan
        /\ \A n \in DOMAIN eventChan' :
             n \in Nat \ {0} /\ n + 1 \in DOMAIN eventChan /\ eventChan'[n] = eventChan[n + 1]
    BY <1>0, <2>1, TailElements
  <2>3. \A n \in DOMAIN eventChan' : n + 1 # 1
    BY <2>2
  <2>4. /\ \A m, n \in DOMAIN eventChan' : eventChan'[m] = eventChan'[n] => m = n
        /\ \A n \in DOMAIN eventChan' : eventChan'[n] \notin opened /\ eventChan'[n] # procEvent'
    BY <2>2, <2>3 DEF Fresh
  <2>5. Elements(eventChan') \subseteq Elements(eventChan) /\ procEvent' \in Elements(eventChan)
    BY <2>2 DEF Elements
  <2>6. procEvent' \notin opened
    BY <2>2 DEF Fresh
  <2>7. QED
    BY <2>1, <2>4, <2>5, <2>6 DEF Fresh
<1>3. CASE InsertWindow
  <2>1. /\ opened' = opened \cup {procEvent} /\ procPc' = "arm"
        /\ UNCHANGED <<sent, eventChan, procEvent>> /\ procEvent \in Event
    BY <1>3 DEF InsertWindow, Goto, ScanInv, TypeInv, Held
  <2>2. QED
    BY <1>0, <2>1 DEF Fresh
<1>4. CASE ProcessorStep /\ ~ReceiveEvent /\ ~InsertWindow
  <2>1. UNCHANGED <<sent, eventChan, procEvent, opened>>
    BY <1>4 DEF ProcessorStep, ProcessorExits, SkipOld, RejectDuplicate, Drop,
                CheckExists, AcquireSlot, RefuseWindow, ArmTimer, histVars
  <2>2. procPc' \in {"handle", "acquire", "insert"} => procPc \in {"handle", "acquire", "insert"}
    BY <1>4 DEF ProcessorStep, ProcessorExits, SkipOld, RejectDuplicate, Drop, Goto,
                CheckExists, AcquireSlot, RefuseWindow, ArmTimer
  <2>3. QED
    BY <2>1, <2>2 DEF Fresh
<1>5. CASE Restart
  <2>1. sent' = <<>> /\ eventChan' = <<>> /\ opened' = {} /\ procEvent' = NoEvent
    BY <1>5 DEF Restart
  <2>2. QED
    BY <2>1 DEF Fresh, Elements
<1>6. CASE NewBlock \/ PollStart \/ PollDone \/ TimersStep \/ StopStep \/ UNCHANGED vars
  <2>1. UNCHANGED <<sent, eventChan, procVars, opened>>
    BY <1>6, TimersFrame, StopFrame DEF NewBlock, PollStart, PollDone, histVars, vars
  <2>2. QED
    BY <2>1 DEF Fresh, procVars
<1>7. QED
  BY <1>1, <1>2, <1>3, <1>4, <1>5, <1>6, NextCases DEF PollerStep

-----------------------------------------------------------------------------
(* The window map, the timers and the event processor.                     *)

(* A window is in the map under its own epoch; the processor inserts only  *)
(* where nothing is, and arms a timer that nobody has armed.               *)
Mapped ==
  /\ \A e \in Epoch : activeWindows[e] # NoEvent =>
       EpochOf(activeWindows[e]) = e /\ activeWindows[e] \in opened
  /\ procPc \in {"acquire", "insert"} => activeWindows[EpochOf(procEvent)] = NoEvent
  /\ procPc = "arm" => procEvent \in opened /\ timer[procEvent] = "none"
  /\ \A i \in Event : timer[i] # "none" => i \in opened

MapInv == ScanInv /\ Fresh /\ Mapped /\ OpenWindowsHaveTimers

LEMMA InitMap == Init => MapInv
<1> SUFFICES ASSUME Init PROVE MapInv
  OBVIOUS
<1>1. Mapped /\ OpenWindowsHaveTimers
  BY DEF Init, Mapped, OpenWindowsHaveTimers, Open
<1>2. QED
  BY <1>1, InitScan, InitFresh DEF MapInv

(* What an open window is.                                                 *)
LEMMA OpenFacts ==
  ASSUME MapInv, NEW w \in Open
  PROVE  w \in Event /\ w # NoEvent /\ w \in opened /\ activeWindows[EpochOf(w)] = w
<1>1. PICK e \in Epoch : w = activeWindows[e] /\ w # NoEvent
  BY DEF Open
<1>2. w \in Event
  BY <1>1 DEF MapInv, ScanInv, TypeInv, TypeOK, WindowTypes
<1>3. QED
  BY <1>1, <1>2 DEF MapInv, Mapped

LEMMA StepMapped == MapInv /\ [Next]_vars => Mapped'
<1> SUFFICES ASSUME MapInv, [Next]_vars PROVE Mapped'
  OBVIOUS
<1> USE DEF MapInv, ScanInv, TypeInv, TypeOK, WindowTypes, ProcTypes, Held, Mapped,
            windowVars, procVars, histVars, Goto
<1>0. \A i \in Event : EpochOf(i) \in Epoch /\ i # NoEvent
  BY ChainFacts
<1>1. CASE CheckExists
  BY <1>1 DEF CheckExists, WindowExists
<1>2. CASE InsertWindow
  <2>1. /\ procEvent \in Event /\ procEvent \notin opened /\ timer[procEvent] = "none"
        /\ activeWindows[EpochOf(procEvent)] = NoEvent
    BY <1>2 DEF InsertWindow, Fresh
  <2>2. QED
    BY <1>0, <1>2, <2>1 DEF InsertWindow
<1>3. CASE ArmTimer
  BY <1>3 DEF ArmTimer
<1>4. CASE ReceiveEvent \/ ProcessorExits \/ AcquireSlot
  BY <1>4 DEF ReceiveEvent, ProcessorExits, AcquireSlot
<1>5. CASE SkipOld \/ RejectDuplicate \/ RefuseWindow
  BY <1>5 DEF SkipOld, RejectDuplicate, RefuseWindow, Drop
<1>6. ASSUME NEW i \in Event, TimerStep(i) PROVE Mapped'
  <2>1. i \in opened /\ timer[i] # "none"
    BY <1>6 DEF TimerStep, TimerFires, CloseWindow, CloseFindsNothing, ReleaseSlot,
                CloseDone, TriggerFinalization
  <2>2. /\ UNCHANGED <<procPc, procEvent, opened>>
        /\ \A j \in Event \ {i} : timer'[j] = timer[j]
        /\ \A e \in Epoch : activeWindows'[e] \in {activeWindows[e], NoEvent}
    BY <1>6 DEF TimerStep, TimerFires, CloseWindow, CloseFindsNothing, ReleaseSlot,
                CloseDone, TriggerFinalization
  <2>3. procPc = "arm" => procEvent # i
    BY <2>1
  <2>4. QED
    BY <1>0, <2>1, <2>2, <2>3
<1>7. CASE StopStep
  <2>1. /\ UNCHANGED <<procPc, procEvent, opened>>
        /\ \A e \in Epoch : activeWindows'[e] \in {activeWindows[e], NoEvent}
        /\ \A j \in Event : timer'[j] = timer[j] \/ (timer[j] = "armed" /\ timer'[j] = "stopped")
    BY <1>7 DEF StopStep, Cancel, Shutdown, ShutdownPanics
  <2>2. QED
    BY <1>0, <2>1
<1>8. CASE Restart
  BY <1>8 DEF Restart
<1>9. CASE NewBlock \/ PollerStep \/ UNCHANGED vars
  BY <1>9, PollerFrame DEF NewBlock, vars
<1>10. QED
  BY <1>1, <1>2, <1>3, <1>4, <1>5, <1>6, <1>7, <1>8, <1>9, NextCases
     DEF TimersStep, ProcessorStep

LEMMA StepTimers == MapInv /\ [Next]_vars => OpenWindowsHaveTimers'
<1> SUFFICES ASSUME MapInv, [Next]_vars, ~panicked', NEW w \in Open'
             PROVE  \/ timer'[w] \in {"armed", "fired"}
                    \/ procPc' = "arm" /\ procEvent' = w
  BY DEF OpenWindowsHaveTimers
<1> USE DEF MapInv, ScanInv, TypeInv, TypeOK, WindowTypes, ProcTypes, Held,
            windowVars, procVars, runVars, histVars, Goto
<1>1. CASE Restart
  BY <1>1 DEF Restart, Open
<1>2. CASE ~Restart /\ w \in Open
  <2>1. w \in Event /\ activeWindows[EpochOf(w)] = w /\ w # NoEvent
    BY <1>2, OpenFacts
  <2>2. ~panicked
    BY <1>2 DEF Next, vars
  <2>3. \/ timer[w] \in {"armed", "fired"}
        \/ procPc = "arm" /\ procEvent = w
    BY <1>2, <2>2 DEF OpenWindowsHaveTimers
  <2>4. CASE ProcessorStep
    BY <2>1, <2>3, <2>4
       DEF ProcessorStep, ReceiveEvent, ProcessorExits, SkipOld, RejectDuplicate,
           Drop, CheckExists, AcquireSlot, RefuseWindow, InsertWindow, ArmTimer
  <2>5. ASSUME NEW i \in Event, TimerStep(i)
        PROVE  \/ timer'[w] \in {"armed", "fired"}
               \/ procPc' = "arm" /\ procEvent' = w
    <3>1. CASE i # w
      <4>1. timer'[w] = timer[w] /\ UNCHANGED procVars
        BY <2>1, <2>5, <3>1 DEF TimerStep, TimerFires, CloseWindow, CloseFindsNothing,
                           ReleaseSlot, CloseDone, TriggerFinalization
      <4>2. QED
        BY <2>3, <4>1
    <3>2. CASE i = w
      <4>1. timer[w] # "none"
        BY <2>5, <3>2 DEF TimerStep, TimerFires, CloseWindow, CloseFindsNothing,
                           ReleaseSlot, CloseDone, TriggerFinalization
      <4>2. timer[w] \in {"armed", "fired"}
        BY <2>3, <4>1 DEF Mapped
      <4>3. CASE TimerFires(i)
        BY <3>2, <4>3 DEF TimerFires
      <4>4. CASE CloseWindow(i)
        <5>1. activeWindows' = [activeWindows EXCEPT ![EpochOf(w)] = NoEvent]
          BY <3>2, <4>4 DEF CloseWindow
        <5>2. PICK e \in Epoch : activeWindows'[e] = w
          BY DEF Open
        <5>3. activeWindows[e] = w /\ e # EpochOf(w)
          BY <2>1, <5>1, <5>2
        <5>4. QED
          BY <2>1, <5>3 DEF Mapped
      <4>5. QED
        BY <2>1, <2>5, <3>2, <4>2, <4>3, <4>4
           DEF TimerStep, CloseFindsNothing, ReleaseSlot, CloseDone, TriggerFinalization
    <3>3. QED
      BY <3>1, <3>2
  <2>6. CASE StopStep
    <3>1. CASE Shutdown
      BY <3>1 DEF Shutdown, Open
    <3>2. CASE Cancel \/ ShutdownPanics
      BY <2>3, <3>2 DEF Cancel, ShutdownPanics
    <3>3. QED
      BY <2>6, <3>1, <3>2 DEF StopStep
  <2>7. CASE NewBlock \/ PollerStep \/ UNCHANGED vars
    BY <2>3, <2>7, PollerFrame DEF NewBlock, vars
  <2>8. QED
    BY <1>2, <2>4, <2>5, <2>6, <2>7, NextCases DEF TimersStep
<1>3. CASE ~Restart /\ w \notin Open
  <2>1. PICK e \in Epoch : activeWindows'[e] = w /\ w # NoEvent /\ activeWindows[e] # w
    BY <1>3 DEF Open
  <2>2. InsertWindow
    BY <1>3, <2>1, NextCases, PollerFrame
       DEF NewBlock, vars, ProcessorStep, ReceiveEvent, ProcessorExits, SkipOld,
           RejectDuplicate, Drop, CheckExists, AcquireSlot, RefuseWindow, ArmTimer,
           TimersStep, TimerStep, TimerFires, CloseWindow, CloseFindsNothing,
           ReleaseSlot, CloseDone, TriggerFinalization, StopStep, Cancel, Shutdown,
           ShutdownPanics
  <2>3. QED
    BY <2>1, <2>2 DEF InsertWindow
<1>4. QED
  BY <1>1, <1>2, <1>3

LEMMA MapInductive == Spec => []MapInv
<1>1. MapInv /\ [Next]_vars /\ ScanInv' => MapInv'
  BY StepFresh, StepMapped, StepTimers DEF MapInv
<1>2. QED
  BY <1>1, InitMap, ScanInductive, PTL DEF Spec

(* The look-up by epoch in closeWindow never leaves an open window without *)
(* a timer, whatever duplicates, expiries and Shutdown do in between.      *)
THEOREM TimersForWindows == Spec => []OpenWindowsHaveTimers
<1>1. MapInv => OpenWindowsHaveTimers
  BY DEF MapInv
<1>2. QED
  BY <1>1, MapInductive, PTL

-----------------------------------------------------------------------------
(* Windows are conserved.                                                  *)

Closers == {"release", "close", "trigger"}

(* The two parts of WindowsConserved.                                      *)
Conserved(w) ==
  (IF activeWindows[EpochOf(w)] = w THEN 1 ELSE 0)
    + Cardinality(Closing(w)) + finalizations[w]
    + (IF w \in abandoned THEN 1 ELSE 0)
    = (IF w \in opened THEN 1 ELSE 0)
DoneOnce(w) ==
  /\ doneCloses[w] <= 1
  /\ doneCloses[w] = 1 =>
       \/ finalizations[w] = 1 \/ w \in abandoned
       \/ \E i \in Closing(w) : timer[i] = "trigger"

LEMMA ConservedParts ==
  WindowsConserved <=> \A w \in Event : Conserved(w) /\ DoneOnce(w)
BY DEF WindowsConserved, Conserved, DoneOnce

LEMMA ClosingFinite ==
  \A w : IsFiniteSet(Closing(w)) /\ Cardinality(Closing(w)) \in Nat
<1> SUFFICES ASSUME NEW w
             PROVE  IsFiniteSet(Closing(w)) /\ Cardinality(Closing(w)) \in Nat
  OBVIOUS
<1>1. Closing(w) \subseteq Event
  BY DEF Closing
<1>2. IsFiniteSet(Closing(w))
  BY <1>1, ChainFacts, FS_Subset
<1>3. QED
  BY <1>2, FS_CardinalityType

(* A window in one place is in no other.                                   *)
LEMMA OnePlace ==
  ASSUME TypeOK, NEW w \in Event, Conserved(w)
  PROVE  /\ activeWindows[EpochOf(w)] = w =>
              Closing(w) = {} /\ finalizations[w] = 0 /\ w \notin abandoned
         /\ \A i \in Closing(w) :
              Closing(w) = {i} /\ finalizations[w] = 0 /\ w \notin abandoned
         /\ w \notin opened =>
              /\ activeWindows[EpochOf(w)] # w
              /\ Closing(w) = {} /\ finalizations[w] = 0 /\ w \notin abandoned
<1> DEFINE a == IF activeWindows[EpochOf(w)] = w THEN 1 ELSE 0
           c == Cardinality(Closing(w))
           f == finalizations[w]
           b == IF w \in abandoned THEN 1 ELSE 0
           o == IF w \in opened THEN 1 ELSE 0
<1>1. a + c + f + b = o
  BY DEF Conserved
<1>2. c \in Nat /\ f \in Nat
  BY ClosingFinite DEF TypeOK, WindowTypes
<1>3. a \in {0, 1} /\ b \in {0, 1} /\ o \in {0, 1}
  OBVIOUS
<1>4. /\ c = 0 <=> Closing(w) = {}
      /\ c = 1 <=> \E x : Closing(w) = {x}
  BY ClosingFinite, FS_EmptySet, FS_Singleton
<1>5. /\ a = 1 <=> activeWindows[EpochOf(w)] = w
      /\ b = 1 <=> w \in abandoned
      /\ o = 1 <=> w \in opened
  OBVIOUS
<1> HIDE DEF a, b, c, f, o
<1>6. /\ a = 1 => c = 0 /\ f = 0 /\ b # 1
      /\ c # 0 => c = 1 /\ f = 0 /\ b # 1
      /\ o # 1 => a # 1 /\ c = 0 /\ f = 0 /\ b # 1
  BY <1>1, <1>2, <1>3
<1>7. QED
  BY <1>4, <1>5, <1>6 DEF f

(* A step that moves no window.                                            *)
LEMMA QuietConserves ==
  ASSUME WindowsConserved,
         UNCHANGED <<activeWindows, closing, doneCloses, finalizations, abandoned, opened>>,
         \A i \in Event : /\ timer'[i] \in Closers <=> timer[i] \in Closers
                          /\ timer'[i] = "trigger" <=> timer[i] = "trigger"
  PROVE  WindowsConserved'
<1>1. \A w : Closing(w)' = Closing(w)
  BY DEF Closing, Closers
<1>2. \A w \in Event : Closing(w) \subseteq Event
  BY DEF Closing
<1>3. QED
  BY <1>1, <1>2 DEF WindowsConserved

IInv == MapInv /\ WindowsConserved /\ SlotsOwned

(* The window goes into the map.                                           *)
LEMMA InsertConserves ==
  ASSUME MapInv, WindowsConserved, InsertWindow
  PROVE  WindowsConserved'
<1> USE DEF MapInv, ScanInv, TypeInv, TypeOK, WindowTypes, Held
<1>1. /\ procEvent \in Event /\ procEvent \notin opened
      /\ activeWindows[EpochOf(procEvent)] = NoEvent
      /\ EpochOf(procEvent) \in Epoch /\ NoEvent \notin Event
  BY ChainFacts DEF InsertWindow, Fresh, Mapped
<1>2. /\ activeWindows' = [activeWindows EXCEPT ![EpochOf(procEvent)] = procEvent]
      /\ opened' = opened \cup {procEvent}
      /\ UNCHANGED <<timer, closing, doneCloses, finalizations, abandoned>>
  BY DEF InsertWindow
<1>3. \A w : Closing(w)' = Closing(w)
  BY <1>2 DEF Closing
<1>4. ASSUME NEW w \in Event PROVE Conserved(w)' /\ DoneOnce(w)'
  <2>1. Conserved(w) /\ DoneOnce(w)
    BY ConservedParts
  <2>2. DoneOnce(w)'
    BY <1>2, <1>3, <2>1 DEF DoneOnce
  <2>3. CASE w = procEvent
    <3>1. Closing(w) = {} /\ finalizations[w] = 0 /\ w \notin abandoned
      BY <1>1, <2>1, <2>3, OnePlace
    <3>2. activeWindows'[EpochOf(w)] = w /\ w \in opened'
      BY <1>1, <1>2, <2>3
    <3>3. Cardinality(Closing(w)) = 0
      BY <3>1, FS_EmptySet
    <3>4. QED
      BY <1>2, <1>3, <2>2, <3>1, <3>2, <3>3 DEF Conserved
  <2>4. CASE w # procEvent
    <3>1. activeWindows'[EpochOf(w)] = w <=> activeWindows[EpochOf(w)] = w
      BY <1>1, <1>2, <2>4, ChainFacts
    <3>2. w \in opened' <=> w \in opened
      BY <1>2, <2>4
    <3>3. QED
      BY <1>2, <1>3, <2>1, <2>2, <3>1, <3>2 DEF Conserved
  <2>5. QED
    BY <2>3, <2>4
<1>5. QED
  BY <1>4 DEF WindowsConserved, Conserved, DoneOnce

(* closeWindow takes the window from the map.                              *)
LEMMA CloseConserves ==
  ASSUME MapInv, WindowsConserved, NEW i \in Event, CloseWindow(i)
  PROVE  WindowsConserved'
<1> USE DEF MapInv, ScanInv, TypeInv, TypeOK, WindowTypes, Held
<1> DEFINE e == EpochOf(i)
           x == activeWindows[e]
<1>1. /\ e \in Epoch /\ x \in Event /\ EpochOf(x) = e /\ x # NoEvent
      /\ timer[i] = "fired" /\ NoEvent \notin Event
  BY ChainFacts DEF CloseWindow, Mapped
<1>2. /\ activeWindows' = [activeWindows EXCEPT ![e] = NoEvent]
      /\ closing' = [closing EXCEPT ![i] = x]
      /\ timer' = [timer EXCEPT ![i] = "release"]
      /\ UNCHANGED <<doneCloses, finalizations, abandoned, opened>>
  BY DEF CloseWindow, histVars
<1> HIDE DEF x, e
<1>3. \A w \in Event : w = x => Closing(w)' = Closing(w) \cup {i}
  BY <1>1, <1>2 DEF Closing
<1>4. \A w \in Event : w # x => Closing(w)' = Closing(w)
  BY <1>1, <1>2 DEF Closing
<1>5. ASSUME NEW w \in Event PROVE Conserved(w)' /\ DoneOnce(w)'
  <2>1. Conserved(w) /\ DoneOnce(w)
    BY ConservedParts
  <2>2. CASE w = x
    <3>1. /\ activeWindows[EpochOf(w)] = w /\ activeWindows'[EpochOf(w)] # w
      BY <1>1, <1>2, <2>2 DEF x
    <3>2. Closing(w) = {} /\ finalizations[w] = 0 /\ w \notin abandoned
      BY <2>1, <3>1, OnePlace
    <3>3. Cardinality(Closing(w)') = 1
      BY <1>3, <2>2, <3>2, FS_Singleton
    <3>4. w \in opened
      BY <2>1, <3>1, OnePlace
    <3>5. Conserved(w)'
      BY <1>2, <3>1, <3>2, <3>3, <3>4 DEF Conserved
    <3>6. doneCloses[w] = 0
      BY <2>1, <3>2 DEF DoneOnce
    <3>7. QED
      BY <1>2, <3>5, <3>6 DEF DoneOnce
  <2>3. CASE w # x
    <3>1. activeWindows'[EpochOf(w)] = w <=> activeWindows[EpochOf(w)] = w
      BY <1>1, <1>2, <2>3, ChainFacts DEF x
    <3>2. Conserved(w)'
      BY <1>2, <1>4, <2>1, <2>3, <3>1 DEF Conserved
    <3>3. \A j \in Closing(w) : timer'[j] = timer[j]
      BY <1>1, <1>2 DEF Closing
    <3>4. DoneOnce(w)'
      BY <1>2, <1>4, <2>1, <2>3, <3>3 DEF DoneOnce
    <3>5. QED
      BY <3>2, <3>4
  <2>4. QED
    BY <2>2, <2>3
<1>6. QED
  BY <1>5 DEF WindowsConserved, Conserved, DoneOnce

(* close(window.Done), by the one closer of the window.                    *)
LEMMA DoneConserves ==
  ASSUME MapInv, WindowsConserved, NEW i \in Event, CloseDone(i)
  PROVE  WindowsConserved'
<1> USE DEF MapInv, ScanInv, TypeInv, TypeOK, WindowTypes, Held
<1> DEFINE x == closing[i]
<1>1. x \in Event /\ timer[i] = "close" /\ i \in Closing(x)
  BY DEF CloseDone, Closing
<1>2. /\ doneCloses' = [doneCloses EXCEPT ![x] = @ + 1]
      /\ timer' = [timer EXCEPT ![i] = "trigger"]
      /\ UNCHANGED <<activeWindows, closing, finalizations, abandoned, opened>>
  BY DEF CloseDone, histVars
<1>3. \A w \in Event : Closing(w)' = Closing(w)
  BY <1>1, <1>2 DEF Closing
<1> HIDE DEF x
<1>4. ASSUME NEW w \in Event PROVE Conserved(w)' /\ DoneOnce(w)'
  <2>1. Conserved(w) /\ DoneOnce(w)
    BY ConservedParts
  <2>2. Conserved(w)'
    BY <1>2, <1>3, <2>1 DEF Conserved
  <2>3. CASE w = x
    <3>1. Closing(w) = {i} /\ finalizations[w] = 0 /\ w \notin abandoned
      BY <1>1, <2>1, <2>3, OnePlace
    <3>2. doneCloses[w] = 0
      BY <1>1, <2>1, <3>1 DEF DoneOnce
    <3>3. doneCloses'[w] = 1 /\ timer'[i] = "trigger"
      BY <1>2, <2>3, <3>2
    <3>4. DoneOnce(w)'
      BY <1>3, <3>1, <3>3 DEF DoneOnce
    <3>5. QED
      BY <2>2, <3>4
  <2>4. CASE w # x
    <3>1. doneCloses'[w] = doneCloses[w]
      BY <1>2, <2>4
    <3>2. \A j \in Closing(w) : timer'[j] = timer[j]
      BY <1>2, <2>4 DEF Closing, x
    <3>3. DoneOnce(w)'
      BY <1>2, <1>3, <2>1, <3>1, <3>2 DEF DoneOnce
    <3>4. QED
      BY <2>2, <3>3
  <2>5. QED
    BY <2>3, <2>4
<1>5. QED
  BY <1>4 DEF WindowsConserved, Conserved, DoneOnce

(* triggerFinalization, by the same closer.                                *)
LEMMA TriggerConserves ==
  ASSUME MapInv, WindowsConserved, NEW i \in Event, TriggerFinalization(i)
  PROVE  WindowsConserved'
<1> USE DEF MapInv, ScanInv, TypeInv, TypeOK, WindowTypes, Held
<1> DEFINE x == closing[i]
<1>1. x \in Event /\ timer[i] = "trigger" /\ i \in Closing(x)
  BY DEF TriggerFinalization, Closing
<1>2. /\ finalizations' = [finalizations EXCEPT ![x] = @ + 1]
      /\ timer' = [timer EXCEPT ![i] = "returned"]
      /\ UNCHANGED <<activeWindows, closing, doneCloses, abandoned, opened>>
  BY DEF TriggerFinalization
<1>3. /\ \A w \in Event : w # x => Closing(w)' = Closing(w)
      /\ \A w \in Event : w = x => Closing(w)' = Closing(w) \ {i}
  BY <1>1, <1>2 DEF Closing
<1> HIDE DEF x
<1>4. ASSUME NEW w \in Event PROVE Conserved(w)' /\ DoneOnce(w)'
  <2>1. Conserved(w) /\ DoneOnce(w)
    BY ConservedParts
  <2>2. CASE w = x
    <3>1. /\ Closing(w) = {i} /\ finalizations[w] = 0 /\ w \notin abandoned
          /\ activeWindows[EpochOf(w)] # w /\ w \in opened
      BY <1>1, <2>1, <2>2, OnePlace
    <3>2. Closing(w)' = {} /\ finalizations'[w] = 1
      BY <1>2, <1>3, <2>2, <3>1
    <3>3. Cardinality(Closing(w)') = 0
      BY <3>2, FS_EmptySet
    <3>4. Conserved(w)'
      BY <1>2, <3>1, <3>2, <3>3 DEF Conserved
    <3>5. DoneOnce(w)'
      BY <1>2, <2>1, <3>2 DEF DoneOnce
    <3>6. QED
      BY <3>4, <3>5
  <2>3. CASE w # x
    <3>1. finalizations'[w] = finalizations[w]
      BY <1>2, <2>3
    <3>2. \A j \in Closing(w) : timer'[j] = timer[j]
      BY <1>2, <2>3 DEF Closing, x
    <3>3. Conserved(w)' /\ DoneOnce(w)'
      BY <1>2, <1>3, <2>1, <2>3, <3>1, <3>2 DEF Conserved, DoneOnce
    <3>4. QED
      BY <3>3
  <2>4. QED
    BY <2>2, <2>3
<1>5. QED
  BY <1>4 DEF WindowsConserved, Conserved, DoneOnce

(* Shutdown throws the open windows away.                                  *)
LEMMA ShutdownConserves ==
  ASSUME MapInv, WindowsConserved, Shutdown
  PROVE  WindowsConserved'
<1> USE DEF MapInv, ScanInv, TypeInv, TypeOK, WindowTypes, Held
<1>1. /\ timer' = [i \in Event |-> IF i \in Open /\ timer[i] = "armed"
                                     THEN "stopped" ELSE timer[i]]
      /\ doneCloses' = [i \in Event |-> IF i \in Open THEN doneCloses[i] + 1
                                                      ELSE doneCloses[i]]
      /\ activeWindows' = [e \in Epoch |-> NoEvent]
      /\ abandoned' = abandoned \cup Open
      /\ UNCHANGED <<closing, finalizations, opened>>
  BY DEF Shutdown
<1>2. \A w \in Event : Closing(w)' = Closing(w)
  BY <1>1 DEF Closing
<1>3. \A w \in Event : w \in Open <=> activeWindows[EpochOf(w)] = w
  <2>1. \A w \in Event : EpochOf(w) \in Epoch /\ w # NoEvent
    BY ChainFacts
  <2>2. QED
    BY <2>1, OpenFacts DEF Open
<1>4. ASSUME NEW w \in Event PROVE Conserved(w)' /\ DoneOnce(w)'
  <2>1. Conserved(w) /\ DoneOnce(w) /\ activeWindows'[EpochOf(w)] # w
    BY <1>1, ConservedParts, ChainFacts
  <2>2. CASE w \in Open
    <3>1. /\ Closing(w) = {} /\ finalizations[w] = 0 /\ w \notin abandoned
          /\ w \in opened
      BY <1>3, <2>1, <2>2, OnePlace
    <3>2. doneCloses[w] = 0
      BY <2>1, <3>1 DEF DoneOnce
    <3>3. Cardinality(Closing(w)') = 0 /\ w \in abandoned' /\ doneCloses'[w] = 1
      BY <1>1, <1>2, <2>2, <3>1, <3>2, FS_EmptySet, SMTT(30)
    <3>4. QED
      BY <1>1, <2>1, <3>1, <3>3 DEF Conserved, DoneOnce
  <2>3. CASE w \notin Open
    <3>1. w \in abandoned' <=> w \in abandoned
      BY <1>1, <2>3
    <3>2. Conserved(w)'
      BY <1>1, <1>2, <1>3, <2>1, <2>3, <3>1 DEF Conserved
    <3>3. \A j \in Closing(w) : timer'[j] = "trigger" <=> timer[j] = "trigger"
      BY <1>1 DEF Closing
    <3>4. DoneOnce(w)'
      BY <1>1, <1>2, <2>1, <2>3, <3>1, <3>3 DEF DoneOnce
    <3>5. QED
      BY <3>2, <3>4
  <2>4. QED
    BY <2>2, <2>3
<1>5. QED
  BY <1>4 DEF WindowsConserved, Conserved, DoneOnce

(* Nothing has happened to any window.                                     *)
LEMMA EmptyConserved ==
  ASSUME activeWindows = [e \in Epoch |-> NoEvent],
         timer = [i \in Event |-> "none"], doneCloses = [i \in Event |-> 0],
         finalizations = [i \in Event |-> 0], abandoned = {}, opened = {}
  PROVE  WindowsConserved
<1>1. \A w : Closing(w) = {}
  BY DEF Closing
<1>2. \A w : Cardinality(Closing(w)) = 0
  BY <1>1, FS_EmptySet
<1>3. \A w \in Event : activeWindows[EpochOf(w)] # w
  BY ChainFacts
<1>4. QED
  BY <1>1, <1>2, <1>3 DEF WindowsConserved

LEMMA StepConserved == MapInv /\ WindowsConserved /\ [Next]_vars => WindowsConserved'
<1> SUFFICES ASSUME MapInv, WindowsConserved, [Next]_vars PROVE WindowsConserved'
  OBVIOUS
<1>1. CASE ProcessorStep /\ ~InsertWindow
  <2>1. UNCHANGED <<activeWindows, closing, doneCloses, finalizations, abandoned, opened>>
    BY <1>1 DEF ProcessorStep, ReceiveEvent, ProcessorExits, SkipOld, RejectDuplicate,
                Drop, CheckExists, AcquireSlot, RefuseWindow, ArmTimer, windowVars,
                histVars
  <2>2. \A j \in Event : timer'[j] = timer[j] \/ (timer[j] = "none" /\ timer'[j] = "armed")
    BY <1>1 DEF ProcessorStep, ReceiveEvent, ProcessorExits, SkipOld, RejectDuplicate,
                Drop, CheckExists, AcquireSlot, RefuseWindow, ArmTimer, windowVars,
                MapInv, Mapped, ScanInv, TypeInv, TypeOK, WindowTypes
  <2>3. QED
    BY <2>1, <2>2, QuietConserves DEF Closers
<1>2. ASSUME NEW i \in Event, TimerFires(i) \/ CloseFindsNothing(i) \/ ReleaseSlot(i)
      PROVE  WindowsConserved'
  <2>1. UNCHANGED <<activeWindows, closing, doneCloses, finalizations, abandoned, opened>>
    BY <1>2 DEF TimerFires, CloseFindsNothing, ReleaseSlot, histVars
  <2>2. \A j \in Event : /\ timer'[j] \in Closers <=> timer[j] \in Closers
                         /\ timer'[j] = "trigger" <=> timer[j] = "trigger"
    BY <1>2 DEF TimerFires, CloseFindsNothing, ReleaseSlot, Closers, MapInv, ScanInv,
                TypeInv, TypeOK, WindowTypes
  <2>3. QED
    BY <2>1, <2>2, QuietConserves
<1>3. CASE NewBlock \/ PollerStep \/ Cancel \/ ShutdownPanics \/ UNCHANGED vars
  <2>1. UNCHANGED <<windowVars, finalizations, abandoned, opened>>
    BY <1>3, PollerFrame DEF NewBlock, Cancel, ShutdownPanics, histVars, vars
  <2>2. QED
    BY <2>1, QuietConserves DEF windowVars
<1>4. CASE Restart
  <2>1. /\ activeWindows' = [e \in Epoch |-> NoEvent] /\ timer' = [i \in Event |-> "none"]
        /\ doneCloses' = [i \in Event |-> 0] /\ finalizations' = [i \in Event |-> 0]
        /\ abandoned' = {} /\ opened' = {}
    BY <1>4 DEF Restart
  <2>2. \A w \in Event : Closing(w)' = {} /\ activeWindows'[EpochOf(w)] # w
    BY <2>1, ChainFacts DEF Closing
  <2>3. \A w \in Event : Cardinality(Closing(w)') = 0
    BY <2>2, FS_EmptySet
  <2>4. QED
    BY <2>1, <2>2, <2>3 DEF WindowsConserved
<1>5. QED
  BY <1>1, <1>2, <1>3, <1>4, InsertConserves, CloseConserves, DoneConserves,
     TriggerConserves, ShutdownConserves, NextCases
     DEF ProcessorStep, TimersStep, TimerStep, StopStep

-----------------------------------------------------------------------------
(* Slots have owners.                                                      *)

OpenEpochs == {e \in Epoch : activeWindows[e] # NoEvent}
Releasing == {i \in Event : timer[i] = "release"}

LEMMA SlotSets ==
  ASSUME TypeOK
  PROVE  /\ IsFiniteSet(OpenEpochs) /\ Cardinality(OpenEpochs) \in Nat
         /\ IsFiniteSet(Releasing) /\ Cardinality(Releasing) \in Nat
         /\ IsFiniteSet(abandoned) /\ Cardinality(abandoned) \in Nat
<1>1. OpenEpochs \subseteq Epoch /\ Releasing \subseteq Event /\ abandoned \subseteq Event
  BY DEF OpenEpochs, Releasing, TypeOK, WindowTypes
<1>2. IsFiniteSet(OpenEpochs) /\ IsFiniteSet(Releasing) /\ IsFiniteSet(abandoned)
  BY <1>1, EpochAssumption, ChainFacts, FS_Subset
<1>3. QED
  BY <1>2, FS_CardinalityType

(* Every open epoch has one open window.                                   *)
LEMMA OpenCount ==
  ASSUME MapInv
  PROVE  IsFiniteSet(Open) /\ Cardinality(Open) = Cardinality(OpenEpochs)
<1> DEFINE f == [e \in OpenEpochs |-> activeWindows[e]]
<1>1. f \in [OpenEpochs -> Open]
  BY DEF Open, OpenEpochs
<1>2. \A d, e \in OpenEpochs : f[d] = f[e] => d = e
  BY DEF OpenEpochs, MapInv, Mapped
<1>3. \A w \in Open : \E e \in OpenEpochs : f[e] = w
  BY DEF Open, OpenEpochs
<1>4. f \in Bijection(OpenEpochs, Open)
  BY <1>1, <1>2, <1>3 DEF Bijection, Injection, Surjection, IsInjective
<1>5. ExistsBijection(OpenEpochs, Open)
  BY <1>4 DEF ExistsBijection
<1>6. QED
  BY <1>5, SlotSets, FS_Bijection DEF MapInv, ScanInv, TypeInv

LEMMA SlotsFrame ==
  ASSUME SlotsOwned, UNCHANGED <<activeWindows, semaphore, abandoned>>,
         procPc' = "insert" <=> procPc = "insert",
         \A i \in Event : timer'[i] = "release" <=> timer[i] = "release"
  PROVE  SlotsOwned'
<1>1. {i \in Event : timer'[i] = "release"} = {i \in Event : timer[i] = "release"}
  OBVIOUS
<1>2. QED
  BY <1>1 DEF SlotsOwned

LEMMA StepSlots ==
  MapInv /\ WindowsConserved /\ SlotsOwned /\ [Next]_vars => SlotsOwned'
<1> SUFFICES ASSUME MapInv, WindowsConserved, SlotsOwned, [Next]_vars PROVE SlotsOwned'
  OBVIOUS
<1> USE DEF MapInv, ScanInv, TypeInv, TypeOK, WindowTypes, ProcTypes, Held
<1>0. /\ semaphore = Cardinality(OpenEpochs) + Cardinality(Releasing)
                     + (IF procPc = "insert" THEN 1 ELSE 0) + Cardinality(abandoned)
      /\ semaphore \in Nat
      /\ IsFiniteSet(OpenEpochs) /\ Cardinality(OpenEpochs) \in Nat
      /\ IsFiniteSet(Releasing) /\ Cardinality(Releasing) \in Nat
      /\ IsFiniteSet(abandoned) /\ Cardinality(abandoned) \in Nat
  <2>1. semaphore \in Nat
    BY BoundAssumption
  <2>2. QED
    BY <2>1, SlotSets DEF SlotsOwned, OpenEpochs, Releasing
<1>1. SUFFICES semaphore' = Cardinality(OpenEpochs') + Cardinality(Releasing')
                            + (IF procPc' = "insert" THEN 1 ELSE 0)
                            + Cardinality(abandoned')
  BY DEF SlotsOwned, OpenEpochs, Releasing
<1>2. CASE AcquireSlot
  <2>1. /\ semaphore' = semaphore + 1 /\ procPc = "acquire" /\ procPc' = "insert"
        /\ UNCHANGED <<activeWindows, timer, abandoned>>
    BY <1>2 DEF AcquireSlot, Goto, histVars
  <2>2. OpenEpochs' = OpenEpochs /\ Releasing' = Releasing
    BY <2>1 DEF OpenEpochs, Releasing
  <2>3. QED
    BY <1>0, <2>1, <2>2
<1>3. CASE InsertWindow
  <2>1. /\ procPc = "insert" /\ procPc' = "arm"
        /\ activeWindows' = [activeWindows EXCEPT ![EpochOf(procEvent)] = procEvent]
        /\ UNCHANGED <<semaphore, timer, abandoned>>
    BY <1>3 DEF InsertWindow, Goto
  <2>2. /\ procEvent \in Event /\ EpochOf(procEvent) \in Epoch /\ procEvent # NoEvent
        /\ activeWindows[EpochOf(procEvent)] = NoEvent
    BY <2>1, ChainFacts DEF Mapped
  <2>3. /\ OpenEpochs' = OpenEpochs \cup {EpochOf(procEvent)}
        /\ EpochOf(procEvent) \notin OpenEpochs /\ Releasing' = Releasing
    BY <2>1, <2>2 DEF OpenEpochs, Releasing
  <2>4. Cardinality(OpenEpochs') = Cardinality(OpenEpochs) + 1
    BY <1>0, <2>3, FS_AddElement
  <2>5. QED
    BY <1>0, <2>1, <2>3, <2>4
<1>4. ASSUME NEW i \in Event, CloseWindow(i)
      PROVE  semaphore' = Cardinality(OpenEpochs') + Cardinality(Releasing')
                          + (IF procPc' = "insert" THEN 1 ELSE 0)
                          + Cardinality(abandoned')
  <2>1. /\ timer[i] = "fired" /\ timer' = [timer EXCEPT ![i] = "release"]
        /\ activeWindows[EpochOf(i)] # NoEvent
        /\ activeWindows' = [activeWindows EXCEPT ![EpochOf(i)] = NoEvent]
        /\ UNCHANGED <<semaphore, procPc, abandoned>>
    BY <1>4 DEF CloseWindow, procVars, histVars
  <2>2. EpochOf(i) \in Epoch
    BY ChainFacts
  <2>3. /\ OpenEpochs' = OpenEpochs \ {EpochOf(i)} /\ EpochOf(i) \in OpenEpochs
        /\ Releasing' = Releasing \cup {i} /\ i \notin Releasing
    BY <2>1, <2>2 DEF OpenEpochs, Releasing
  <2>4. /\ Cardinality(OpenEpochs') = Cardinality(OpenEpochs) - 1
        /\ Cardinality(Releasing') = Cardinality(Releasing) + 1
    BY <1>0, <2>3, FS_AddElement, FS_RemoveElement
  <2>5. QED
    BY <1>0, <2>1, <2>4
<1>5. ASSUME NEW i \in Event, ReleaseSlot(i)
      PROVE  semaphore' = Cardinality(OpenEpochs') + Cardinality(Releasing')
                          + (IF procPc' = "insert" THEN 1 ELSE 0)
                          + Cardinality(abandoned')
  <2>1. /\ timer[i] = "release" /\ timer' = [timer EXCEPT ![i] = "close"]
        /\ semaphore' = semaphore - 1
        /\ UNCHANGED <<activeWindows, procPc, abandoned>>
    BY <1>5 DEF ReleaseSlot, procVars, histVars
  <2>2. /\ OpenEpochs' = OpenEpochs
        /\ Releasing' = Releasing \ {i} /\ i \in Releasing
    BY <2>1 DEF OpenEpochs, Releasing
  <2>3. Cardinality(Releasing') = Cardinality(Releasing) - 1
    BY <1>0, <2>2, FS_RemoveElement
  <2>4. QED
    BY <1>0, <2>1, <2>2, <2>3
<1>6. CASE Shutdown
  <2>1. /\ activeWindows' = [e \in Epoch |-> NoEvent]
        /\ abandoned' = abandoned \cup Open
        /\ \A i \in Event : timer'[i] = "release" <=> timer[i] = "release"
        /\ UNCHANGED <<semaphore, procPc>>
    BY <1>6 DEF Shutdown, procVars
  <2>2. OpenEpochs' = {} /\ Releasing' = Releasing
    BY <2>1 DEF OpenEpochs, Releasing
  <2>3. abandoned \cap Open = {}
    <3>1. ASSUME NEW w \in Open PROVE w \notin abandoned
      <4>1. w \in Event /\ activeWindows[EpochOf(w)] = w
        BY OpenFacts
      <4>2. QED
        BY <4>1, ConservedParts, OnePlace
    <3>2. QED
      BY <3>1
  <2>4. IsFiniteSet(Open) /\ Cardinality(Open) = Cardinality(OpenEpochs)
    BY OpenCount
  <2>5. Cardinality(abandoned') = Cardinality(abandoned) + Cardinality(Open) - Cardinality({})
    BY <1>0, <2>1, <2>3, <2>4, FS_Union
  <2>6. Cardinality({}) = 0
    BY FS_EmptySet
  <2>7. QED
    BY <1>0, <2>1, <2>2, <2>4, <2>5, <2>6
<1>7. CASE Restart
  <2>1. /\ OpenEpochs' = {} /\ Releasing' = {} /\ abandoned' = {}
        /\ semaphore' = 0 /\ procPc' = "receive"
    BY <1>7 DEF Restart, OpenEpochs, Releasing
  <2>2. QED
    BY <2>1, FS_EmptySet
<1>8. CASE NewBlock \/ PollerStep \/ Cancel \/ ShutdownPanics \/ UNCHANGED vars
  <2>1. UNCHANGED <<procPc, windowVars, abandoned>>
    BY <1>8, PollerFrame DEF NewBlock, Cancel, ShutdownPanics, procVars, histVars, vars
  <2>2. SlotsOwned'
    BY <2>1, SlotsFrame DEF windowVars
  <2>3. QED
    BY <2>2 DEF SlotsOwned, OpenEpochs, Releasing
<1>9. CASE ProcessorStep /\ ~AcquireSlot /\ ~InsertWindow
  <2>1. UNCHANGED <<activeWindows, semaphore, abandoned>>
    BY <1>9 DEF ProcessorStep, ReceiveEvent, ProcessorExits, SkipOld, RejectDuplicate,
                Drop, CheckExists, RefuseWindow, ArmTimer, windowVars, histVars
  <2>2. procPc # "insert" /\ procPc' # "insert"
    BY <1>9 DEF ProcessorStep, ReceiveEvent, ProcessorExits, SkipOld, RejectDuplicate,
                Drop, CheckExists, RefuseWindow, ArmTimer, Goto
  <2>3. \A j \in Event : timer'[j] = timer[j] \/ (timer[j] = "none" /\ timer'[j] = "armed")
    BY <1>9 DEF ProcessorStep, ReceiveEvent, ProcessorExits, SkipOld, RejectDuplicate,
                Drop, CheckExists, RefuseWindow, ArmTimer, windowVars, Mapped
  <2>4. SlotsOwned'
    BY <2>1, <2>2, <2>3, SlotsFrame
  <2>5. QED
    BY <2>4 DEF SlotsOwned, OpenEpochs, Releasing
<1>10. ASSUME NEW i \in Event, TimerFires(i) \/ CloseFindsNothing(i) \/ CloseDone(i)
                               \/ TriggerFinalization(i)
       PROVE  semaphore' = Cardinality(OpenEpochs') + Cardinality(Releasing')
                           + (IF procPc' = "insert" THEN 1 ELSE 0)
                           + Cardinality(abandoned')
  <2>1. UNCHANGED <<activeWindows, semaphore, abandoned, procPc>>
    BY <1>10 DEF TimerFires, CloseFindsNothing, CloseDone, TriggerFinalization,
                 procVars, histVars
  <2>2. \A j \in Event : timer'[j] = "release" <=> timer[j] = "release"
    BY <1>10 DEF TimerFires, CloseFindsNothing, CloseDone, TriggerFinalization
  <2>3. SlotsOwned'
    BY <2>1, <2>2, SlotsFrame
  <2>4. QED
    BY <2>3 DEF SlotsOwned, OpenEpochs, Releasing
<1>11. QED
  BY <1>2, <1>3, <1>4, <1>5, <1>6, <1>7, <1>8, <1>9, <1>10, NextCases
     DEF ProcessorStep, TimersStep, TimerStep, StopStep

-----------------------------------------------------------------------------
LEMMA InitInv == Init => IInv
<1> SUFFICES ASSUME Init PROVE IInv
  OBVIOUS
<1>1. WindowsConserved
  BY EmptyConserved DEF Init
<1>2. /\ {e \in Epoch : activeWindows[e] # NoEvent} = {}
      /\ {i \in Event : timer[i] = "release"} = {}
      /\ abandoned = {} /\ semaphore = 0 /\ procPc = "receive"
  BY DEF Init
<1>3. SlotsOwned
  BY <1>2, FS_EmptySet DEF SlotsOwned
<1>4. QED
  BY <1>1, <1>3, InitMap DEF IInv

LEMMA Inductive == Spec => []IInv
<1>1. IInv /\ [Next]_vars /\ MapInv' => IInv'
  BY StepConserved, StepSlots DEF IInv
<1>2. QED
  BY <1>1, InitInv, MapInductive, PTL DEF Spec

(* A window once opened is open, being closed, finalized or thrown away,   *)
(* once and in one place only; Done is closed at most once.                *)
THEOREM WindowsKept == Spec => []WindowsConserved
<1>1. IInv => WindowsConserved
  BY DEF IInv
<1>2. QED
  BY <1>1, Inductive, PTL

(* Slots of the window semaphore are neither leaked nor released twice.    *)
THEOREM SlotsKept == Spec => []SlotsOwned
<1>1. IInv => SlotsOwned
  BY DEF IInv
<1>2. QED
  BY <1>1, Inductive, PTL

=============================================================================
