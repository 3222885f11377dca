-------------------------- MODULE SubmissionWindows --------------------------
(***************************************************************************)
(* The event monitor: from EpochReleased logs to closed submission windows.*)
(*                                                                         *)
(* Three kinds of goroutines share a WindowManager.  The poller scans the  *)
(* chain in ranges and sends the events to a bounded channel.  The event   *)
(* processor receives them and opens a window per epoch, if a slot of the  *)
(* window semaphore is free.  Every window has a timer whose callback      *)
(* closes it and triggers the finalization of its epoch.  Stop cancels the *)
(* context and runs Shutdown; a restart begins with an empty manager.      *)
(*                                                                         *)
(* A window is named by the log it was opened for, its position in Chain.  *)
(* Each critical section of wm.mu and each channel operation is a step.    *)
(* Time is abstracted: an armed timer may fire at any moment, an event may *)
(* be found too old whenever it is handled.  Failed RPC calls change       *)
(* nothing and are not steps.  Redis writes of the monitor (epoch info,    *)
(* the window key, metrics) are read by no step here and are left out; the *)
(* parts triggerFinalization queues are the subject of Finalization.       *)
(***************************************************************************)
EXTENDS Integers, Sequences, FiniteSets

CONSTANTS
  Epoch,        \* the (data market, epoch id) pairs, the keys of the window map
  Chain,        \* the EpochReleased logs: [epoch, block, ours], in chain order
  MaxBlock,     \* bound on the height of the chain
  ScanRange,    \* blocks per scan (1000 in the code)
  ChanCap,      \* capacity of eventChan (100 in the code)
  MaxWindows,   \* capacity of the window semaphore
  StartBlock,   \* the configured start block, 0: start at the chain's head
  MayStop,      \* whether Stop is called
  MaxRestarts   \* bound on the restarts of the process

Event == DOMAIN Chain
NoEvent == 0

ASSUME EpochAssumption == IsFiniteSet(Epoch)
ASSUME ChainAssumption ==
  /\ Chain \in Seq([epoch : Epoch, block : Nat \ {0}, ours : BOOLEAN])
  /\ \A i, j \in Event : i < j => Chain[i].block <= Chain[j].block
ASSUME BoundAssumption ==
  /\ MaxBlock \in Nat /\ StartBlock \in Nat /\ MaxRestarts \in Nat
  /\ ScanRange \in Nat \ {0} /\ ChanCap \in Nat \ {0}
  /\ MaxWindows \in Nat
  /\ MayStop \in BOOLEAN

VARIABLES
  head,               \* the height of the chain
  lastProcessedBlock,
  pollTo, pending,    \* toBlock of the running scan (0: none), logs to send
  eventChan,
  procPc, procEvent,  \* the event processor
  activeWindows,      \* epoch -> the window open for it, or NoEvent
  semaphore,          \* slots of windowSemaphore that are taken
  timer,              \* per window: its timer, then the timer's goroutine
  closing,            \* per timer goroutine: the window it found in the map
  doneCloses,         \* per window: how often its Done channel was closed
  stopPc,             \* "up", then "cancelled" and "down"
  panicked,           \* the process died of a panic
  restarts,
  start,              \* history: lastProcessedBlock when the process started
  sent,               \* history: what the poller sent since then
  opened,             \* history: windows opened since then
  dropped,            \* history: events handled without opening a window
  abandoned,          \* history: windows removed by Shutdown
  finalizations       \* history: finalizations triggered per window

pollVars   == <<lastProcessedBlock, pollTo, pending>>
procVars   == <<procPc, procEvent>>
windowVars == <<activeWindows, semaphore, timer, closing, doneCloses>>
runVars    == <<stopPc, panicked, restarts, start>>
histVars   == <<sent, opened, dropped, abandoned, finalizations>>
vars == <<head, pollVars, eventChan, procVars, windowVars, runVars, histVars>>

EpochOf(i) == Chain[i].epoch

(* parseEpochReleasedEvent and isValidDataMarket: a log the monitor keeps. *)
Wanted(i) == Chain[i].ours

(* FilterLogs: the wanted logs of blocks from+1 .. to. *)
Logs(from, to) ==
  {i \in Event : Wanted(i) /\ from < Chain[i].block /\ Chain[i].block <= to}

(* NewEventMonitor with the chain at height h.  A failing BlockNumber call *)
(* leaves the start block at 0.                                            *)
StartBlocks(h) ==
  IF StartBlock # 0 THEN {StartBlock}
                    ELSE {0, IF h > 0 THEN h - 1 ELSE 0}

Init ==
  /\ head \in {0, 1}
  /\ lastProcessedBlock \in StartBlocks(head)
  /\ start = lastProcessedBlock
  /\ restarts = 0
  /\ pollTo = 0 /\ pending = {} /\ eventChan = <<>>
  /\ procPc = "receive" /\ procEvent = NoEvent
  /\ activeWindows = [e \in Epoch |-> NoEvent]
  /\ semaphore = 0
  /\ timer = [i \in Event |-> "none"]
  /\ closing = [i \in Event |-> NoEvent]
  /\ doneCloses = [i \in Event |-> 0]
  /\ stopPc = "up" /\ panicked = FALSE
  /\ sent = <<>> /\ opened = {} /\ dropped = {} /\ abandoned = {}
  /\ finalizations = [i \in Event |-> 0]

(* The chain grows. *)
NewBlock ==
  /\ head < MaxBlock
  /\ head' = head + 1
  /\ UNCHANGED <<pollVars, eventChan, procVars, windowVars, runVars, histVars>>

-----------------------------------------------------------------------------
(* The poller: checkForNewEvents.                                          *)

PollStart ==
  /\ stopPc = "up"
  /\ pollTo = 0
  /\ lastProcessedBlock < head
  /\ LET to == IF lastProcessedBlock + ScanRange > head
                 THEN head ELSE lastProcessedBlock + ScanRange
     IN pollTo' = to /\ pending' = Logs(lastProcessedBlock, to)
  /\ UNCHANGED <<head, lastProcessedBlock, eventChan, procVars, windowVars,
                 runVars, histVars>>

(* The loop over the logs, in chain order; m.eventChan <- event blocks     *)
(* while the channel is full, cancelled or not.                            *)
SendEvent ==
  /\ Len(eventChan) < ChanCap
  /\ \E i \in pending :
       /\ \A j \in pending : i <= j
       /\ eventChan' = Append(eventChan, i)
       /\ sent' = Append(sent, i)
       /\ pending' = pending \ {i}
  /\ UNCHANGED <<head, lastProcessedBlock, pollTo, procVars, windowVars,
                 runVars, opened, dropped, abandoned, finalizations>>

(* Mutant: the scan is recorded as having reached the current head. *)
PollDoneAtHead ==
  /\ pollTo # 0 /\ pending = {}
  /\ lastProcessedBlock' = head
  /\ pollTo' = 0
  /\ UNCHANGED <<head, pending, eventChan, procVars, windowVars, runVars,
                 histVars>>

PollDone ==
  /\ pollTo # 0 /\ pending = {}
  /\ lastProcessedBlock' = pollTo
  /\ pollTo' = 0
  /\ UNCHANGED <<head, pending, eventChan, procVars, windowVars, runVars,
                 histVars>>

-----------------------------------------------------------------------------
(* The event processor: processEvents, handleEpochReleased and             *)
(* StartSubmissionWindow.                                                  *)

Goto(label) == procPc' = label

(* Both cases of the select may be ready after a cancellation. *)
ReceiveEvent ==
  /\ procPc = "receive"
  /\ eventChan # <<>>
  /\ procEvent' = Head(eventChan)
  /\ eventChan' = Tail(eventChan)
  /\ Goto("handle")
  /\ UNCHANGED <<head, pollVars, windowVars, runVars, histVars>>

ProcessorExits ==
  /\ procPc = "receive"
  /\ stopPc # "up"
  /\ Goto("exited")
  /\ UNCHANGED <<head, pollVars, eventChan, procEvent, windowVars, runVars,
                 histVars>>

Drop(label) ==
  /\ procPc = label
  /\ dropped' = dropped \cup {procEvent}
  /\ Goto("receive")
  /\ UNCHANGED <<head, pollVars, eventChan, procEvent, windowVars, runVars,
                 sent, opened, abandoned, finalizations>>

(* Older than twice the window duration. *)
SkipOld == Drop("handle")

WindowExists == activeWindows[EpochOf(procEvent)] # NoEvent

RejectDuplicate == procPc = "handle" /\ WindowExists /\ Drop("handle")

(* Mutant: windows are opened without a look at the map. *)
CheckNothing ==
  /\ procPc = "handle"
  /\ Goto("acquire")
  /\ UNCHANGED <<head, pollVars, eventChan, procEvent, windowVars, runVars,
                 histVars>>

CheckExists ==
  /\ procPc = "handle"
  /\ ~WindowExists
  /\ Goto("acquire")
  /\ UNCHANGED <<head, pollVars, eventChan, procEvent, windowVars, runVars,
                 histVars>>

(* Mutant: one slot too many. *)
AcquireExtraSlot ==
  /\ procPc = "acquire"
  /\ semaphore <= MaxWindows
  /\ semaphore' = semaphore + 1
  /\ Goto("insert")
  /\ UNCHANGED <<head, pollVars, eventChan, procEvent, activeWindows, timer,
                 closing, doneCloses, runVars, histVars>>

AcquireSlot ==
  /\ procPc = "acquire"
  /\ semaphore < MaxWindows
  /\ semaphore' = semaphore + 1
  /\ Goto("insert")
  /\ UNCHANGED <<head, pollVars, eventChan, procEvent, activeWindows, timer,
                 closing, doneCloses, runVars, histVars>>

(* No slot within a second. *)
RefuseWindow == semaphore >= MaxWindows /\ Drop("acquire")

InsertWindow ==
  /\ procPc = "insert"
  /\ activeWindows' = [activeWindows EXCEPT ![EpochOf(procEvent)] = procEvent]
  /\ opened' = opened \cup {procEvent}
  /\ Goto("arm")
  /\ UNCHANGED <<head, pollVars, eventChan, procEvent, semaphore, timer,
                 closing, doneCloses, runVars, sent, dropped, abandoned,
                 finalizations>>

(* window.Timer = time.AfterFunc(...), outside the lock. *)
ArmTimer ==
  /\ procPc = "arm"
  /\ timer' = [timer EXCEPT ![procEvent] = "armed"]
  /\ Goto("receive")
  /\ UNCHANGED <<head, pollVars, eventChan, procEvent, activeWindows,
                 semaphore, closing, doneCloses, runVars, histVars>>

-----------------------------------------------------------------------------
(* A timer's goroutine: closeWindow.                                       *)

TimerFires(i) ==
  /\ timer[i] = "armed"
  /\ timer' = [timer EXCEPT ![i] = "fired"]
  /\ UNCHANGED <<head, pollVars, eventChan, procVars, activeWindows,
                 semaphore, closing, doneCloses, runVars, histVars>>

(* Mutant: the window stays in the map until it is finalized. *)
CloseWindowKeepsEntry(i) ==
  LET w == activeWindows[EpochOf(i)] IN
  /\ timer[i] = "fired"
  /\ w # NoEvent
  /\ closing' = [closing EXCEPT ![i] = w]
  /\ timer' = [timer EXCEPT ![i] = "release"]
  /\ UNCHANGED <<head, pollVars, eventChan, procVars, activeWindows,
                 semaphore, doneCloses, runVars, histVars>>

CloseWindow(i) ==
  LET e == EpochOf(i)
      w == activeWindows[e] IN
  /\ timer[i] = "fired"
  /\ w # NoEvent
  /\ activeWindows' = [activeWindows EXCEPT ![e] = NoEvent]
  /\ closing' = [closing EXCEPT ![i] = w]
  /\ timer' = [timer EXCEPT ![i] = "release"]
  /\ UNCHANGED <<head, pollVars, eventChan, procVars, semaphore, doneCloses,
                 runVars, histVars>>

CloseFindsNothing(i) ==
  /\ timer[i] = "fired"
  /\ activeWindows[EpochOf(i)] = NoEvent
  /\ timer' = [timer EXCEPT ![i] = "returned"]
  /\ UNCHANGED <<head, pollVars, eventChan, procVars, activeWindows,
                 semaphore, closing, doneCloses, runVars, histVars>>

(* <-wm.windowSemaphore blocks when no slot is taken. *)
ReleaseSlot(i) ==
  /\ timer[i] = "release"
  /\ semaphore > 0
  /\ semaphore' = semaphore - 1
  /\ timer' = [timer EXCEPT ![i] = "close"]
  /\ UNCHANGED <<head, pollVars, eventChan, procVars, activeWindows, closing,
                 doneCloses, runVars, histVars>>

CloseDone(i) ==
  /\ timer[i] = "close"
  /\ doneCloses' = [doneCloses EXCEPT ![closing[i]] = @ + 1]
  /\ timer' = [timer EXCEPT ![i] = "trigger"]
  /\ UNCHANGED <<head, pollVars, eventChan, procVars, activeWindows,
                 semaphore, closing, runVars, histVars>>

TriggerFinalization(i) ==
  /\ timer[i] = "trigger"
  /\ finalizations' = [finalizations EXCEPT ![closing[i]] = @ + 1]
  /\ timer' = [timer EXCEPT ![i] = "returned"]
  /\ UNCHANGED <<head, pollVars, eventChan, procVars, activeWindows,
                 semaphore, closing, doneCloses, runVars, sent, opened,
                 dropped, abandoned>>

-----------------------------------------------------------------------------
(* Stop, Shutdown and restart.                                             *)

Open == {activeWindows[e] : e \in Epoch} \ {NoEvent}

Cancel ==
  /\ MayStop
  /\ stopPc = "up"
  /\ stopPc' = "cancelled"
  /\ UNCHANGED <<head, pollVars, eventChan, procVars, windowVars, panicked,
                 restarts, start, histVars>>

(* Mutant: Shutdown closes the windows and leaves them in the map. *)
ShutdownKeepsEntries ==
  /\ stopPc = "cancelled"
  /\ \A w \in Open : timer[w] # "none"
  /\ stopPc' = "down"
  /\ timer' = [i \in Event |-> IF i \in Open /\ timer[i] = "armed"
                                 THEN "stopped" ELSE timer[i]]
  /\ doneCloses' = [i \in Event |-> IF i \in Open THEN doneCloses[i] + 1
                                                  ELSE doneCloses[i]]
  /\ abandoned' = abandoned \cup Open
  /\ UNCHANGED <<head, pollVars, eventChan, procVars, activeWindows,
                 semaphore, closing, panicked, restarts, start, sent, opened,
                 dropped, finalizations>>

(* Stops the timers that have not fired; the semaphore keeps their slots.  *)
Shutdown ==
  /\ stopPc = "cancelled"
  /\ \A w \in Open : timer[w] # "none"
  /\ stopPc' = "down"
  /\ timer' = [i \in Event |-> IF i \in Open /\ timer[i] = "armed"
                                 THEN "stopped" ELSE timer[i]]
  /\ doneCloses' = [i \in Event |-> IF i \in Open THEN doneCloses[i] + 1
                                                  ELSE doneCloses[i]]
  /\ activeWindows' = [e \in Epoch |-> NoEvent]
  /\ abandoned' = abandoned \cup Open
  /\ UNCHANGED <<head, pollVars, eventChan, procVars, semaphore, closing,
                 panicked, restarts, start, sent, opened, dropped,
                 finalizations>>

(* window.Timer.Stop() on a window whose Timer is not assigned yet. *)
ShutdownPanics ==
  /\ stopPc = "cancelled"
  /\ \E w \in Open : timer[w] = "none"
  /\ stopPc' = "down"
  /\ panicked' = TRUE
  /\ UNCHANGED <<head, pollVars, eventChan, procVars, windowVars, restarts,
                 start, histVars>>

(* The process ends, however it ends, and a new one starts: everything but *)
(* the chain is gone.                                                      *)
Restart ==
  /\ restarts < MaxRestarts
  /\ restarts' = restarts + 1
  /\ lastProcessedBlock' \in StartBlocks(head)
  /\ start' = lastProcessedBlock'
  /\ pollTo' = 0 /\ pending' = {} /\ eventChan' = <<>>
  /\ procPc' = "receive" /\ procEvent' = NoEvent
  /\ activeWindows' = [e \in Epoch |-> NoEvent]
  /\ semaphore' = 0
  /\ timer' = [i \in Event |-> "none"]
  /\ closing' = [i \in Event |-> NoEvent]
  /\ doneCloses' = [i \in Event |-> 0]
  /\ stopPc' = "up" /\ panicked' = FALSE
  /\ sent' = <<>> /\ opened' = {} /\ dropped' = {} /\ abandoned' = {}
  /\ finalizations' = [i \in Event |-> 0]
  /\ UNCHANGED head

-----------------------------------------------------------------------------
PollerStep == PollStart \/ SendEvent \/ PollDone

ProcessorStep ==
  \/ ReceiveEvent \/ ProcessorExits \/ SkipOld \/ RejectDuplicate
  \/ CheckExists \/ AcquireSlot \/ RefuseWindow \/ InsertWindow \/ ArmTimer

TimerStep(i) ==
  \/ TimerFires(i) \/ CloseWindow(i) \/ CloseFindsNothing(i)
  \/ ReleaseSlot(i) \/ CloseDone(i) \/ TriggerFinalization(i)

StopStep == Cancel \/ Shutdown \/ ShutdownPanics

Next ==
  \/ /\ ~panicked
     /\ \/ NewBlock \/ PollerStep \/ ProcessorStep \/ StopStep
        \/ \E i \in Event : TimerStep(i)
  \/ Restart

Spec == Init /\ [][Next]_vars

(* The chain grows, the ticker ticks, timers fire, goroutines that can run *)
(* do.  Neither Stop nor a restart is fair.                                *)
Fairness ==
  /\ WF_vars(NewBlock)
  /\ WF_vars(~panicked /\ PollerStep)
  /\ WF_vars(~panicked /\ ProcessorStep)
  /\ \A i \in Event : WF_vars(~panicked /\ TimerStep(i))

FairSpec == Spec /\ Fairness

-----------------------------------------------------------------------------
(* Properties.                                                             *)

PollTypes ==
  /\ head \in 0 .. MaxBlock \cup {1}
  /\ lastProcessedBlock \in Nat /\ pollTo \in Nat /\ start \in Nat
  /\ pending \subseteq Event /\ sent \in Seq(Event)
  /\ eventChan \in Seq(Event) /\ Len(eventChan) <= ChanCap
ProcTypes ==
  /\ procPc \in {"receive", "handle", "acquire", "insert", "arm", "exited"}
  /\ procEvent \in Event \cup {NoEvent}
  /\ stopPc \in {"up", "cancelled", "down"} /\ restarts \in 0 .. MaxRestarts
WindowTypes ==
  /\ activeWindows \in [Epoch -> Event \cup {NoEvent}]
  /\ semaphore \in 0 .. MaxWindows
  /\ timer \in [Event -> {"none", "armed", "fired", "stopped", "release",
                          "close", "trigger", "returned"}]
  /\ closing \in [Event -> Event \cup {NoEvent}]
  /\ doneCloses \in [Event -> Nat] /\ finalizations \in [Event -> Nat]
  /\ opened \subseteq Event /\ dropped \subseteq Event
  /\ abandoned \subseteq Event

(* The variables have the types of the channels, maps and fields they      *)
(* stand for, and the channel and the semaphore stay within capacity.      *)
TypeOK == PollTypes /\ ProcTypes /\ WindowTypes /\ panicked \in BOOLEAN

(* checkForNewEvents hands over every wanted log exactly once and in chain *)
(* order, however far the chain grows while the poller is blocked on a     *)
(* full channel and wherever the scan ranges are cut.                      *)
ScannedInOrder ==
  LET scanned == Logs(start, IF pollTo = 0 THEN lastProcessedBlock ELSE pollTo)
  IN  /\ pending \subseteq scanned
      /\ {sent[n] : n \in DOMAIN sent} = scanned \ pending
      /\ \A m, n \in DOMAIN sent : m < n => sent[m] < sent[n]

(* Every taken slot of the window semaphore has an owner: an open window,  *)
(* a closer that is about to release it, the processor between acquire and *)
(* insert, or a window that Shutdown threw away.  So open windows never    *)
(* exceed MaxWindows, a release never blocks and no slot leaks while the   *)
(* monitor runs (StartSubmissionWindow, closeWindow).                      *)
SlotsOwned ==
  semaphore =
    Cardinality({e \in Epoch : activeWindows[e] # NoEvent})
    + Cardinality({i \in Event : timer[i] = "release"})
    + (IF procPc = "insert" THEN 1 ELSE 0)
    + Cardinality(abandoned)

Closing(w) ==
  {i \in Event : closing[i] = w /\ timer[i] \in {"release", "close", "trigger"}}

(* A window once opened is in exactly one place: open under its own epoch, *)
(* in the hands of one closer, finalized once, or thrown away by Shutdown; *)
(* its Done channel is closed at most once, so close never panics, and     *)
(* only windows are finalized (closeWindow racing Shutdown).               *)
WindowsConserved ==
  \A w \in Event :
    /\ (IF activeWindows[EpochOf(w)] = w THEN 1 ELSE 0)
         + Cardinality(Closing(w)) + finalizations[w]
         + (IF w \in abandoned THEN 1 ELSE 0)
         = (IF w \in opened THEN 1 ELSE 0)
    /\ doneCloses[w] <= 1
    /\ doneCloses[w] = 1 =>
         \/ finalizations[w] = 1 \/ w \in abandoned
         \/ \E i \in Closing(w) : timer[i] = "trigger"

(* An open window always has a timer goroutine that will close it, except  *)
(* while the processor is between inserting it and arming its timer: the   *)
(* look-up by epoch in closeWindow never leaves a window behind.           *)
OpenWindowsHaveTimers ==
  ~panicked => \A w \in Open :
    \/ timer[w] \in {"armed", "fired"}
    \/ procPc = "arm" /\ procEvent = w

(* While the monitor is not stopped, every wanted log after the start      *)
(* block is dealt with in the end: its event is dropped (too old,          *)
(* duplicate, no slot) or its window is opened, closed and finalized, even *)
(* if the process is restarted in between.                                 *)
EveryEventServed ==
  \A i \in Event :
    Wanted(i) /\ Chain[i].block <= MaxBlock =>
      <>(\/ Chain[i].block <= start
         \/ i \in dropped
         \/ finalizations[i] = 1
         \/ stopPc # "up")

=============================================================================
