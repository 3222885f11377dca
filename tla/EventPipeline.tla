---------------------------- MODULE EventPipeline ----------------------------
(***************************************************************************)
(* The event pipeline of the P2P gateway: callers hand events to the       *)
(* emitter (pkgs/events/emitter.go), whose processor passes them to a pool *)
(* of workers that call the subscribers; one subscriber is the publisher   *)
(* (pkgs/events/publisher.go), which sends them to Redis, singly or in     *)
(* batches.  NewP2PGateway starts and wires the two, P2PGateway.Stop shuts *)
(* them down while callers may still be emitting.                          *)
(*                                                                         *)
(* Every event is emitted by a goroutine of its own, once.  The counters   *)
(* of both components are logged only and left out.  A Redis publish fails *)
(* at most MaxFaults times, and always once the publisher's context is     *)
(* cancelled.  Time-outs may fire whenever the code waits for them.        *)
(***************************************************************************)
EXTENDS Integers, Sequences, FiniteSets

CONSTANTS
  Event,        \* events, each emitted at most once
  Subscriber,   \* subscriber ids
  Publisher,    \* the id "redis-publisher"
  Types,        \* per subscriber: the events its Types and Filter let through
  DropOnOverflow, \* EmitterConfig.DropOnOverflow
  Patient,      \* the events emitted with EmitWithTimeout
  BufferSize,   \* capacity of eventChan
  MaxWorkers,   \* tokens in workerPool
  BatchSize,    \* publisher batch size
  MaxFaults     \* bound on failing publishes

ASSUME PublisherAssumption ==
  /\ Publisher \in Subscriber /\ Types \in [Subscriber -> SUBSET Event]
  /\ Patient \subseteq Event /\ DropOnOverflow \in BOOLEAN
ASSUME SizeAssumption ==
  /\ BufferSize \in Nat \ {0} /\ MaxWorkers \in Nat \ {0}
  /\ BatchSize \in Nat \ {0} /\ MaxFaults \in Nat

VARIABLES
  batching,       \* PublisherConfig.EnableBatching, fixed
  emitter,        \* "new", "running", "stopping" (context cancelled), "closed"
  graceful,       \* Stop saw every goroutine of the emitter end
  call,           \* per event: where its Emit call is
  eventChan,      \* the buffered channel
  procPc,         \* the processor: "off", "select", "token", "drain", "done"
  held,           \* events taken from the channel by the processor itself
  tokens,         \* free workers
  workers,        \* events with a worker goroutine
  todo,           \* per event being handled: subscribers still to be notified
  waiting,        \* per event: the subscriber whose handler is waited for
  handler,        \* per event and subscriber: the handler goroutine
  subscribers,    \* the subscriber map
  publisher,      \* "new", "running", "stopping" (mutex held), "stopped"
  batch,          \* events gathered by addToBatch
  timer,          \* flushTimer is armed
  flights,        \* goroutines running PublishBatch
  published,      \* per event: PUBLISH commands Redis executed
  failed,         \* history: events the publisher gave up
  drained,        \* history: the drain found the channel empty
  impatient,      \* history: a handler was given up after EventTimeout
  faults

emitterVars == <<emitter, graceful, procPc, held, tokens, workers, drained>>
callVars == <<call, eventChan>>
handleVars == <<todo, waiting, handler, subscribers, impatient>>
publisherVars == <<publisher, batch, timer, flights, published, failed, faults>>
vars == <<emitterVars, callVars, handleVars, publisherVars, batching>>

-----------------------------------------------------------------------------
NoOne == "noone"
ASSUME NoOneAssumption == NoOne \notin Subscriber

CallStates == {"idle", "checked", "blocked", "accepted", "late", "dropped", "refused", "panic"}
HandlerStates == {"none", "run", "add", "single", "done"}

Running == emitter = "running"
Cancelled == emitter \in {"stopping", "closed"}  \* e.ctx is done
Closed == emitter = "closed"                     \* eventChan is closed
PubCancelled == publisher \in {"stopping", "stopped"}
MutexFree == publisher # "stopping"              \* Stop holds p.mutex till it returns

Elements(s) == {s[i] : i \in DOMAIN s}

\* Emit returned nil, before or after the emitter was stopped.
Accepted(ev) == call[ev] \in {"accepted", "late"}

Handling == workers \cup (IF procPc = "drain" THEN held ELSE {})

Init ==
  /\ batching \in BOOLEAN
  /\ emitter = "new" /\ graceful = FALSE
  /\ call = [ev \in Event |-> "idle"]
  /\ eventChan = <<>> /\ procPc = "off" /\ held = {}
  /\ tokens = MaxWorkers /\ workers = {}
  /\ todo = [ev \in Event |-> {}] /\ waiting = [ev \in Event |-> NoOne]
  /\ handler = [ev \in Event |-> [s \in Subscriber |-> "none"]]
  /\ subscribers = {}
  /\ publisher = "new" /\ batch = <<>> /\ timer = FALSE /\ flights = {}
  /\ published = [ev \in Event |-> 0] /\ failed = {}
  /\ drained = FALSE /\ impatient = FALSE /\ faults = 0

-----------------------------------------------------------------------------
(* Set-up and subscriptions.                                               *)

\* NewP2PGateway: emitter.Start, publisher.Start and Subscribe, under an id
\* that is not taken; nothing emits before it returns.
Start ==
  /\ emitter = "new"
  /\ emitter' = "running" /\ procPc' = "select"
  /\ publisher' = "running"
  /\ subscribers' = Subscriber
  /\ UNCHANGED <<graceful, held, tokens, workers, drained, callVars, todo, waiting,
                 handler, impatient, batch, timer, flights, published, failed,
                 faults, batching>>

\* The gateway never unsubscribes its publisher; others may leave.
Unsubscribe(s) ==
  /\ s # Publisher /\ s \in subscribers
  /\ subscribers' = subscribers \ {s}
  /\ UNCHANGED <<emitterVars, callVars, todo, waiting, handler, impatient,
                 publisherVars, batching>>

-----------------------------------------------------------------------------
(* Emit and EmitWithTimeout: the running check, then the send.             *)

EmitCheck(ev) ==
  /\ emitter # "new" /\ call[ev] = "idle"
  /\ call' = [call EXCEPT ![ev] = IF Running THEN "checked" ELSE "refused"]
  /\ UNCHANGED <<eventChan, emitterVars, handleVars, publisherVars, batching>>

Send(ev) ==
  /\ call' = [call EXCEPT ![ev] = IF Running THEN "accepted" ELSE "late"]
  /\ eventChan' = Append(eventChan, ev)

Outcome(ev, result) ==
  /\ call' = [call EXCEPT ![ev] = result]
  /\ UNCHANGED eventChan

\* The first select of either function.  A send on a closed channel panics;
\* EmitWithTimeout's select may take the cancelled context instead.
EmitSend(ev) ==
  /\ call[ev] = "checked"
  /\ \/ Closed /\ Outcome(ev, "panic")
     \/ ~Closed /\ Len(eventChan) < BufferSize /\ Send(ev)
     \/ ev \in Patient /\ Cancelled /\ Outcome(ev, "refused")
     \/ /\ ~Closed /\ Len(eventChan) = BufferSize
        /\ Outcome(ev, IF DropOnOverflow /\ ev \notin Patient THEN "dropped" ELSE "blocked")
  /\ UNCHANGED <<emitterVars, handleVars, publisherVars, batching>>

\* A caller blocked on a full channel; cancellation wakes it before close.
EmitBlocked(ev) ==
  /\ call[ev] = "blocked"
  /\ \/ ~Closed /\ Len(eventChan) < BufferSize /\ Send(ev)
     \/ ev \in Patient /\ Outcome(ev, "dropped")
     \/ Cancelled /\ Outcome(ev, "refused")
  /\ UNCHANGED <<emitterVars, handleVars, publisherVars, batching>>

-----------------------------------------------------------------------------
(* processEvents and drainEvents.                                          *)

\* The processor receives an event and looks for a worker.
ProcTake ==
  /\ procPc = "select" /\ eventChan # <<>>
  /\ held' = {Head(eventChan)} /\ eventChan' = Tail(eventChan)
  /\ procPc' = "token"
  /\ UNCHANGED <<call, emitter, graceful, tokens, workers, drained,
                 handleVars, publisherVars, batching>>

\* handleEvent, first part: the snapshot of interested subscribers.
Snapshot(ev) ==
  todo' = [todo EXCEPT ![ev] = {s \in subscribers : ev \in Types[s]}]

\* Mutant: an event that finds no free worker is dropped.
ProcDispatchOrDrop ==
  /\ procPc = "token"
  /\ \/ /\ tokens > 0
        /\ tokens' = tokens - 1
        /\ \E ev \in held : workers' = workers \cup {ev} /\ Snapshot(ev)
     \/ tokens = 0 /\ UNCHANGED <<tokens, workers, todo>>
  /\ held' = {} /\ procPc' = "select"
  /\ UNCHANGED <<callVars, emitter, graceful, drained, waiting, handler,
                 subscribers, impatient, publisherVars, batching>>

\* A worker token is free: handleEvent runs in a goroutine of its own.
ProcDispatch ==
  /\ procPc = "token" /\ tokens > 0
  /\ tokens' = tokens - 1
  /\ \E ev \in held : workers' = workers \cup {ev} /\ Snapshot(ev)
  /\ held' = {} /\ procPc' = "select"
  /\ UNCHANGED <<callVars, emitter, graceful, drained, waiting, handler,
                 subscribers, impatient, publisherVars, batching>>

\* No worker yet and the context is cancelled: the processor leaves, with
\* the event in its hands and without draining.
ProcAbandon ==
  /\ procPc = "token" /\ Cancelled
  /\ held' = {} /\ procPc' = "done"
  /\ UNCHANGED <<callVars, emitter, graceful, tokens, workers, drained,
                 handleVars, publisherVars, batching>>

\* The outer select sees the cancellation, or the closed and empty channel.
ProcCancelled ==
  /\ procPc = "select" /\ Cancelled
  /\ procPc' = "drain"
  /\ UNCHANGED <<callVars, emitter, graceful, held, tokens, workers, drained,
                 handleVars, publisherVars, batching>>

ProcClosed ==
  /\ procPc = "select" /\ Closed /\ eventChan = <<>>
  /\ procPc' = "done"
  /\ UNCHANGED <<callVars, emitter, graceful, held, tokens, workers, drained,
                 handleVars, publisherVars, batching>>

\* drainEvents calls handleEvent itself, one event after the other, ...
DrainTake ==
  /\ procPc = "drain" /\ held = {} /\ eventChan # <<>>
  /\ held' = {Head(eventChan)} /\ eventChan' = Tail(eventChan)
  /\ Snapshot(Head(eventChan))
  /\ UNCHANGED <<call, emitter, graceful, procPc, tokens, workers, drained,
                 waiting, handler, subscribers, impatient, publisherVars, batching>>

\* Mutant: the drain handles one event at most.
DrainOnce ==
  /\ procPc = "drain" /\ held = {} /\ ~Closed
  /\ procPc' = "done" /\ drained' = TRUE
  /\ UNCHANGED <<callVars, emitter, graceful, held, tokens, workers,
                 handleVars, publisherVars, batching>>

\* ... until the open channel is empty ...
DrainEmpty ==
  /\ procPc = "drain" /\ held = {} /\ eventChan = <<>> /\ ~Closed
  /\ procPc' = "done" /\ drained' = TRUE
  /\ UNCHANGED <<callVars, emitter, graceful, held, tokens, workers,
                 handleVars, publisherVars, batching>>

\* ... or five seconds have passed.
DrainTimeout ==
  /\ procPc = "drain" /\ held = {}
  /\ procPc' = "done"
  /\ UNCHANGED <<callVars, emitter, graceful, held, tokens, workers, drained,
                 handleVars, publisherVars, batching>>

-----------------------------------------------------------------------------
(* handleEvent: one handler goroutine after the other, each with a         *)
(* time-out.                                                               *)

Notify(ev, s) ==
  /\ ev \in Handling /\ waiting[ev] = NoOne /\ s \in todo[ev]
  /\ handler' = [handler EXCEPT ![ev][s] = "run"]
  /\ waiting' = [waiting EXCEPT ![ev] = s]
  /\ todo' = [todo EXCEPT ![ev] = @ \ {s}]
  /\ UNCHANGED <<subscribers, impatient, emitterVars, callVars, publisherVars, batching>>

\* EventTimeout: the worker goes on, the handler goroutine does too.
NotifyTimeout(ev) ==
  /\ waiting[ev] # NoOne
  /\ waiting' = [waiting EXCEPT ![ev] = NoOne]
  /\ impatient' = TRUE
  /\ UNCHANGED <<todo, handler, subscribers, emitterVars, callVars,
                 publisherVars, batching>>

\* Mutant: the token is not returned.
HandleEndKeepsToken(ev) ==
  /\ ev \in Handling /\ todo[ev] = {} /\ waiting[ev] = NoOne
  /\ workers' = workers \ {ev} /\ held' = held \ {ev}
  /\ UNCHANGED <<emitter, graceful, procPc, tokens, drained, callVars, handleVars,
                 publisherVars, batching>>

\* A worker returns its token; the drain takes the next event.
HandleEnd(ev) ==
  /\ ev \in Handling /\ todo[ev] = {} /\ waiting[ev] = NoOne
  /\ workers' = workers \ {ev}
  /\ tokens' = IF ev \in workers THEN tokens + 1 ELSE tokens
  /\ held' = held \ {ev}
  /\ UNCHANGED <<emitter, graceful, procPc, drained, callVars, handleVars,
                 publisherVars, batching>>

\* A handler returns: close(done) wakes the worker if it still waits.
HandlerDone(ev, s) ==
  /\ handler' = [handler EXCEPT ![ev][s] = "done"]
  /\ waiting' = [waiting EXCEPT ![ev] = IF @ = s THEN NoOne ELSE @]

\* The handler of another subscriber returns, or panics and is recovered.
HandlerReturns(ev, s) ==
  /\ s # Publisher /\ handler[ev][s] = "run"
  /\ HandlerDone(ev, s)
  /\ UNCHANGED <<todo, subscribers, impatient, emitterVars, callVars,
                 publisherVars, batching>>

-----------------------------------------------------------------------------
(* Publisher.Publish, called by the handler of redis-publisher.            *)

HandlerGoes(ev, state) ==
  /\ handler' = [handler EXCEPT ![ev][Publisher] = state]
  /\ UNCHANGED waiting

PublishCheck(ev) ==
  /\ handler[ev][Publisher] = "run" /\ MutexFree
  /\ IF publisher = "running"
     THEN HandlerGoes(ev, IF batching THEN "add" ELSE "single") /\ UNCHANGED failed
     ELSE HandlerDone(ev, Publisher) /\ failed' = failed \cup {ev}
  /\ UNCHANGED <<todo, subscribers, impatient, publisher, batch, timer,
                 flights, published, faults, emitterVars, callVars, batching>>

\* flushBatchLocked on the events evs: empty the batch, stop the timer and
\* start a goroutine that publishes.
FlushBatchLocked(evs) ==
  /\ batch' = <<>> /\ timer' = FALSE
  /\ flights' = IF evs = <<>> THEN flights
                ELSE flights \cup {[events |-> evs, stage |-> "check"]}

AddToBatch(ev) ==
  /\ handler[ev][Publisher] = "add"
  /\ LET evs == Append(batch, ev) IN
       IF Len(evs) >= BatchSize
       THEN FlushBatchLocked(evs)
       ELSE batch' = evs /\ timer' = TRUE /\ UNCHANGED flights
  /\ HandlerDone(ev, Publisher)
  /\ UNCHANGED <<todo, subscribers, impatient, publisher, published,
                 failed, faults, emitterVars, callVars, batching>>

PublishSingle(ev) ==
  /\ handler[ev][Publisher] = "single"
  /\ \/ /\ ~PubCancelled
        /\ published' = [published EXCEPT ![ev] = @ + 1]
        /\ UNCHANGED <<failed, faults>>
     \/ /\ PubCancelled \/ faults < MaxFaults
        /\ faults' = IF PubCancelled THEN faults ELSE faults + 1
        /\ failed' = failed \cup {ev}
        /\ UNCHANGED published
  /\ HandlerDone(ev, Publisher)
  /\ UNCHANGED <<todo, subscribers, impatient, publisher, batch, timer,
                 flights, emitterVars, callVars, batching>>

\* Mutants: the batch is not emptied; only full batches are flushed.
FlushBatchKeepsEvents ==
  /\ batch # <<>>
  /\ timer \/ publisher = "running"
  /\ flights' = flights \cup {[events |-> batch, stage |-> "check"]}
  /\ UNCHANGED <<publisher, batch, timer, published, failed, faults, handleVars,
                 emitterVars, callVars, batching>>

FlushBatchWhenFull ==
  /\ Len(batch) >= BatchSize
  /\ timer \/ publisher = "running"
  /\ FlushBatchLocked(batch)
  /\ UNCHANGED <<publisher, published, failed, faults, handleVars, emitterVars,
                 callVars, batching>>

\* flushBatch, called by the flush worker until the context is cancelled and
\* by the flush timer at any time.
FlushBatch ==
  /\ batch # <<>>
  /\ timer \/ publisher = "running"
  /\ FlushBatchLocked(batch)
  /\ UNCHANGED <<publisher, published, failed, faults, handleVars, emitterVars,
                 callVars, batching>>

\* PublishBatch waits for Stop to release the mutex and checks running, ...
PublishBatchCheck(f) ==
  /\ f.stage = "check" /\ MutexFree
  /\ IF publisher = "running"
     THEN /\ flights' = (flights \ {f}) \cup {[f EXCEPT !.stage = "exec"]}
          /\ UNCHANGED failed
     ELSE /\ flights' = flights \ {f}
          /\ failed' = failed \cup Elements(f.events)
  /\ UNCHANGED <<publisher, batch, timer, published, faults, handleVars,
                 emitterVars, callVars, batching>>

\* ... then executes a pipeline, which may break off after n commands.
PublishBatchExec(f) ==
  /\ f.stage = "exec"
  /\ \E n \in 0..Len(f.events) :
       /\ IF n = Len(f.events)
          THEN ~PubCancelled /\ UNCHANGED faults
          ELSE /\ PubCancelled \/ faults < MaxFaults
               /\ faults' = IF PubCancelled THEN faults ELSE faults + 1
       /\ published' = [ev \in Event |->
            published[ev] + Cardinality({i \in 1..n : f.events[i] = ev})]
       /\ failed' = failed \cup {f.events[i] : i \in (n + 1)..Len(f.events)}
  /\ flights' = flights \ {f}
  /\ UNCHANGED <<publisher, batch, timer, handleVars, emitterVars, callVars, batching>>

-----------------------------------------------------------------------------
(* P2PGateway.Stop: first the emitter, then the publisher.                 *)

EmitterStop ==
  /\ Running
  /\ emitter' = "stopping"
  /\ UNCHANGED <<graceful, procPc, held, tokens, workers, drained, callVars,
                 handleVars, publisherVars, batching>>

\* The wait group of the emitter is done, or ten seconds have passed; the
\* channel is closed either way.
EmitterClose ==
  /\ emitter = "stopping"
  /\ emitter' = "closed"
  /\ graceful' = (procPc = "done" /\ workers = {})
  /\ UNCHANGED <<procPc, held, tokens, workers, drained, callVars, handleVars,
                 publisherVars, batching>>

\* Mutant: the publisher does not wait for the emitter to stop.
PublisherStopFirst ==
  /\ Cancelled /\ publisher = "running"
  /\ publisher' = "stopping"
  /\ IF batching THEN FlushBatchLocked(batch)
     ELSE UNCHANGED <<batch, timer, flights>>
  /\ UNCHANGED <<published, failed, faults, handleVars, emitterVars, callVars, batching>>

\* Publisher.Stop takes the mutex, cancels and flushes what is left ...
PublisherStop ==
  /\ Closed /\ publisher = "running"
  /\ publisher' = "stopping"
  /\ IF batching THEN FlushBatchLocked(batch)
     ELSE UNCHANGED <<batch, timer, flights>>
  /\ UNCHANGED <<published, failed, faults, handleVars, emitterVars, callVars, batching>>

\* Mutant: Stop waits for the batch it has flushed.
PublisherStoppedFlushed ==
  /\ publisher = "stopping" /\ flights = {}
  /\ publisher' = "stopped"
  /\ UNCHANGED <<batch, timer, flights, published, failed, faults, handleVars,
                 emitterVars, callVars, batching>>

\* ... and returns when the flush worker has ended or five seconds passed.
PublisherStopped ==
  /\ publisher = "stopping"
  /\ publisher' = "stopped"
  /\ UNCHANGED <<batch, timer, flights, published, failed, faults, handleVars,
                 emitterVars, callVars, batching>>

-----------------------------------------------------------------------------
Processor == \/ ProcTake \/ ProcDispatch \/ ProcAbandon \/ ProcCancelled
             \/ ProcClosed \/ DrainTake \/ DrainEmpty \/ DrainTimeout
Worker(ev) ==
  \/ \E s \in Subscriber : Notify(ev, s)
  \/ NotifyTimeout(ev) \/ HandleEnd(ev)
PublishStep(ev) == PublishCheck(ev) \/ AddToBatch(ev) \/ PublishSingle(ev)
Flight == \E f \in flights : PublishBatchCheck(f) \/ PublishBatchExec(f)
Stopping == EmitterClose \/ PublisherStop \/ PublisherStopped

Next ==
  \/ Start \/ EmitterStop \/ Stopping
  \/ \E s \in Subscriber : Unsubscribe(s)
  \/ \E ev \in Event :
       \/ EmitCheck(ev) \/ EmitSend(ev) \/ EmitBlocked(ev)
       \/ Worker(ev) \/ PublishStep(ev)
       \/ \E s \in Subscriber : HandlerReturns(ev, s)
  \/ Processor \/ Flight \/ FlushBatch

Spec == Init /\ [][Next]_vars

\* Goroutines of the pipeline are scheduled and timers fire; callers, other
\* subscribers' handlers and the decision to stop are the environment's.
FairSpec ==
  /\ Spec
  /\ WF_vars(Processor) /\ WF_vars(Flight) /\ WF_vars(FlushBatch)
  /\ WF_vars(Stopping)
  /\ \A ev \in Event : WF_vars(Worker(ev)) /\ WF_vars(PublishStep(ev))

-----------------------------------------------------------------------------
(* Properties.                                                             *)

EmitterTypes ==
  /\ emitter \in {"new", "running", "stopping", "closed"}
  /\ call \in [Event -> CallStates]
  /\ eventChan \in Seq(Event) /\ Len(eventChan) <= BufferSize
  /\ procPc \in {"off", "select", "token", "drain", "done"}
  /\ held \subseteq Event /\ \A x, y \in held : x = y

PoolTypes ==
  /\ workers \subseteq Event /\ IsFiniteSet(workers)
  /\ tokens \in 0..MaxWorkers /\ tokens + Cardinality(workers) = MaxWorkers

HandlerTypes ==
  /\ todo \in [Event -> SUBSET Subscriber]
  /\ waiting \in [Event -> Subscriber \cup {NoOne}]
  /\ handler \in [Event -> [Subscriber -> HandlerStates]]
  /\ subscribers \subseteq Subscriber

PublisherTypes ==
  /\ publisher \in {"new", "running", "stopping", "stopped"}
  /\ batch \in Seq(Event) /\ Len(batch) < BatchSize
  /\ flights \subseteq [events : Seq(Event), stage : {"check", "exec"}]
  /\ published \in [Event -> Nat] /\ failed \subseteq Event
  /\ faults \in 0..MaxFaults

FlagTypes ==
  /\ batching \in BOOLEAN /\ graceful \in BOOLEAN /\ timer \in BOOLEAN
  /\ drained \in BOOLEAN /\ impatient \in BOOLEAN

\* Types of the state of emitter and publisher: the channel and the batch stay
\* within their capacities, the processor has one event at most, and every
\* token is free or with a worker.
TypeOK == EmitterTypes /\ PoolTypes /\ HandlerTypes /\ PublisherTypes /\ FlagTypes

\* The publisher has the event, or will be given it.
Pending(ev) ==
  \/ ev \in Elements(eventChan) \cup held
  \/ Publisher \in todo[ev]
  \/ handler[ev][Publisher] \in {"run", "add", "single"}
  \/ ev \in Elements(batch)
  \/ \E f \in flights : ev \in Elements(f.events)

\* Redis receives an event at most once, and only one whose Emit returned
\* nil: a timer, the flush worker, a full batch and Stop may all flush the
\* same batch (publisher.go:246-303).
PublishedOnce ==
  \A ev \in Event : published[ev] <= 1 /\ (published[ev] = 1 => Accepted(ev))

\* While the gateway runs, an event whose Emit returned nil and which the
\* publisher listens to is on its way, published, or was given up after a
\* failed Redis call (emitter.go:264-361, publisher.go:188-303).
AcceptedNotLost ==
  Running => \A ev \in Event :
    Accepted(ev) /\ ev \in Types[Publisher]
      => Pending(ev) \/ published[ev] = 1 \/ (ev \in failed /\ faults > 0)

\* A graceful Stop loses no event that was in the channel when it began,
\* provided the processor noticed the cancellation between two events and its
\* drain was not cut short: what is left in the channel was sent after that
\* (emitter.go:122-147, 286-293, 364-384).
GracefulStopDrains ==
  graceful /\ drained => \A ev \in Types[Publisher] :
    call[ev] = "accepted" => handler[ev][Publisher] # "none"

\* The publisher is stopped after the emitter, so a graceful Stop in which no
\* handler timed out turns no event away: unless Redis failed or events are
\* batched, every handled event is published (p2p-gateway main.go:1199-1209).
GracefulStopPublishes ==
  publisher = "stopped" /\ graceful /\ ~impatient /\ ~batching =>
    \A ev \in Event : ev \in failed => faults > 0

\* Nothing handled before the publisher stops is stuck in a batch for good:
\* an accepted event reaches Redis or is reported as failed unless the
\* gateway stops (flush timer and flush worker, publisher.go:256, 338).
AcceptedPublished ==
  \A ev \in Types[Publisher] :
    Accepted(ev) ~> (published[ev] = 1 \/ ev \in failed \/ ~Running)

\* Stop of the gateway terminates: Publisher.Stop holds the mutex PublishBatch
\* needs while it flushes and waits (publisher.go:151-185, 204-210).
StopCompletes == emitter = "stopping" ~> publisher = "stopped"

=============================================================================
