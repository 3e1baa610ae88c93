------------------------------ MODULE Pipeline ------------------------------
(***************************************************************************)
(* The user-space pipeline of the flows agent (pkg/agent/flows/agent.go):  *)
(*                                                                         *)
(*   map tracer ------------------------> limiter -> exporter              *)
(*   ring-buffer tracers -> accounter --/                                  *)
(*                                                                         *)
(* Every box is a goroutine (the map tracer two: TraceLoop and             *)
(* evictionSynchronization), every arrow to a box its bounded input        *)
(* channel.  A channel is closed when its last sender node has returned    *)
(* (gopipes).  Run cancels nothing itself: when the context is cancelled   *)
(* it closes the eBPF objects and waits for the exporter.                  *)
(*                                                                         *)
(* An item is a flow of the kernel map or a single-packet flow of the ring *)
(* buffer; the accounter merges items of the same flow, and a merged entry *)
(* is the set of its items.  LookupAndDeleteMap is one step here and is    *)
(* detailed in FlowMap.                                                    *)
(***************************************************************************)
EXTENDS Naturals, Sequences, FiniteSets

CONSTANTS MapItem,          \* items that pass through the kernel map
          RingItem,         \* items that pass through the ring buffer
          FlowOfs,          \* the ways of giving each item its flow
          EnableSSL,        \* a second ring-buffer tracer feeds the accounter
          MaxErrors,        \* records that cannot be read or parsed
          MaxEntries,       \* Accounter.maxEntries (CACHE_MAX_FLOWS)
          BuffersLength,    \* capacity of the accounter's and limiter's inputs
          ExporterBuffer    \* capacity of the exporter's input

Item == MapItem \cup RingItem

ASSUME PipelineAssumption ==
  /\ MapItem \cap RingItem = {}
  /\ {MaxEntries, BuffersLength, ExporterBuffer} \subseteq Nat \ {0}
  /\ MaxErrors \in Nat
  /\ EnableSSL \in BOOLEAN

VARIABLES
  flowOf,     \* the flow of each item
  coming,     \* flows that are not yet in the kernel map
  kernelMap,  \* items in aggregated_flows
  ringbuf,    \* items that reach direct_flows, until they are read
  exported, dropped,   \* items handed to the collector, dropped by the limiter
  unparsed,   \* records of the ring buffer that could not be parsed
  errors,     \* reads of the ring buffer and records that failed
  cancelled,  \* the context given to Run
  overtaken,  \* the eviction that was under way when the context was cancelled
  run,        \* Agent.Run: running, closing, waiting, stopped
  readers,    \* ring-buffer readers: open, closed
  objects,    \* Fetcher.objects: open, closed (maps closed), nil
  panicked,   \* a goroutine panicked and the process is gone
  traceLoop,  \* MapTracer.TraceLoop: run, returned
  evictor,    \* evictionSynchronization: lock, wait, woken, fetch, select, send, returned
  evBatch,    \* the flows its eviction has read
  rb, rbHand, \* RingBufTracer.TraceLoop: loop, read, send, returned; its record
  ssl,        \* the SSL ring-buffer tracer: run, returned
  acc,        \* Account: select, evict, full, closing, returned
  entries,    \* Accounter.entries, as the set of items accumulated
  accBatch,   \* the entries being evicted
  accHand,    \* the record that found the cache full
  limiter,    \* Limit: run, returned
  exporter,   \* the exporter node: run, done
  accIn, limIn, expIn   \* the input channels

fetchVars == <<flowOf, coming, kernelMap, ringbuf>>
runVars   == <<cancelled, overtaken, run, readers, objects>>
mapVars   == <<traceLoop, evictor, evBatch>>
rbVars    == <<rb, rbHand, unparsed, errors, ssl>>
accVars   == <<acc, entries, accBatch, accHand>>
limVars   == <<limiter, dropped>>
expVars   == <<exporter, exported>>
vars == <<fetchVars, runVars, panicked, mapVars, rbVars, accVars, limVars, expVars,
          accIn, limIn, expIn>>

Init ==
  /\ flowOf \in FlowOfs
  /\ coming = MapItem /\ kernelMap = {} /\ ringbuf = RingItem
  /\ exported = {} /\ dropped = {} /\ unparsed = {} /\ errors = 0
  /\ cancelled = FALSE /\ overtaken = FALSE /\ run = "running" /\ readers = "open" /\ objects = "open"
  /\ panicked = FALSE
  /\ traceLoop = "run" /\ evictor = "lock" /\ evBatch = {}
  /\ rb = "loop" /\ rbHand = {} /\ ssl = (IF EnableSSL THEN "run" ELSE "returned")
  /\ acc = "select" /\ entries = {} /\ accBatch = {} /\ accHand = {}
  /\ limiter = "run"
  /\ exporter = "run"
  /\ accIn = << >> /\ limIn = << >> /\ expIn = << >>

\* A channel is closed once all the nodes that send to it have returned.
accClosed == rb = "returned" /\ ssl = "returned"
limClosed == traceLoop = "returned" /\ acc = "returned"
expClosed == limiter = "returned"
-----------------------------------------------------------------------------
(* A flow enters the kernel map (when a packet enters the ring buffer shows only *)
(* in when it is read).                                                          *)

Produce(i) ==
  /\ i \in coming
  /\ coming' = coming \ {i}
  /\ kernelMap' = kernelMap \cup {i}
  /\ UNCHANGED <<flowOf, ringbuf, runVars, panicked, mapVars, rbVars, accVars, limVars, expVars,
                 accIn, limIn, expIn>>
-----------------------------------------------------------------------------
(* Agent.Run *)

\* evictFlows has been called and has not returned.
Evicting == evictor \in {"fetch", "select", "send"}

Cancel ==
  /\ ~cancelled
  /\ cancelled' = TRUE
  /\ overtaken' = Evicting
  /\ UNCHANGED <<fetchVars, run, readers, objects, panicked, mapVars, rbVars, accVars,
                 limVars, expVars, accIn, limIn, expIn>>

\* Mutant of CloseReaders: the readers stay open.
CloseReaders_LeavesOpen ==
  /\ run = "running" /\ cancelled
  /\ run' = "closing"
  /\ UNCHANGED <<fetchVars, cancelled, overtaken, readers, objects, panicked, mapVars, rbVars, accVars,
                 limVars, expVars, accIn, limIn, expIn>>

\* Fetcher.Close closes the ring-buffer readers first.
CloseReaders ==
  /\ run = "running" /\ cancelled
  /\ readers' = "closed"
  /\ run' = "closing"
  /\ UNCHANGED <<fetchVars, cancelled, overtaken, objects, panicked, mapVars, rbVars, accVars,
                 limVars, expVars, accIn, limIn, expIn>>

\* It then closes the maps, and forgets the objects unless some close failed.
CloseObjects ==
  /\ run = "closing"
  /\ objects' \in {"closed", "nil"}
  /\ run' = "waiting"
  /\ UNCHANGED <<fetchVars, cancelled, overtaken, readers, panicked, mapVars, rbVars, accVars,
                 limVars, expVars, accIn, limIn, expIn>>

\* <-graph.Done()
Stopped ==
  /\ run = "waiting"
  /\ exporter = "done"
  /\ run' = "stopped"
  /\ UNCHANGED <<fetchVars, cancelled, overtaken, readers, objects, panicked, mapVars, rbVars,
                 accVars, limVars, expVars, accIn, limIn, expIn>>

AgentRun == CloseReaders \/ CloseObjects \/ Stopped
-----------------------------------------------------------------------------
(* MapTracer *)

\* Flush on the eviction ticker.  The broadcast wakes the evictor only if it waits.
Tick ==
  /\ traceLoop = "run"
  /\ evictor = "wait"
  /\ evictor' = "woken"
  /\ UNCHANGED <<fetchVars, runVars, panicked, traceLoop, evBatch, rbVars, accVars,
                 limVars, expVars, accIn, limIn, expIn>>

TraceLoopExit ==
  /\ traceLoop = "run"
  /\ cancelled
  /\ traceLoop' = "returned"
  /\ UNCHANGED <<fetchVars, runVars, panicked, evictor, evBatch, rbVars, accVars,
                 limVars, expVars, accIn, limIn, expIn>>

EvictorWait ==
  /\ evictor = "lock"
  /\ evictor' = "wait"
  /\ UNCHANGED <<fetchVars, runVars, panicked, traceLoop, evBatch, rbVars, accVars,
                 limVars, expVars, accIn, limIn, expIn>>

\* Mutant of EvictorWoken: the context is not looked at after the wait.
EvictorWoken_NoCheck ==
  /\ evictor = "woken"
  /\ evictor' = "fetch"
  /\ UNCHANGED <<fetchVars, runVars, panicked, traceLoop, evBatch, rbVars, accVars,
                 limVars, expVars, accIn, limIn, expIn>>

EvictorWoken ==
  /\ evictor = "woken"
  /\ evictor' = IF cancelled THEN "returned" ELSE "fetch"
  /\ UNCHANGED <<fetchVars, runVars, panicked, traceLoop, evBatch, rbVars, accVars,
                 limVars, expVars, accIn, limIn, expIn>>

\* LookupAndDeleteMap dereferences objects; closed maps answer nothing.
EvictorFetch ==
  /\ evictor = "fetch"
  /\ IF objects = "nil"
       THEN panicked' = TRUE /\ UNCHANGED <<kernelMap, evBatch, evictor>>
       ELSE /\ evBatch' = IF objects = "open" THEN kernelMap ELSE {}
            /\ kernelMap' = kernelMap \ evBatch'
            /\ evictor' = "select"
            /\ UNCHANGED panicked
  /\ UNCHANGED <<flowOf, coming, ringbuf, runVars, traceLoop, rbVars, accVars, limVars, expVars,
                 accIn, limIn, expIn>>

\* DeleteMapsStaleEntries dereferences objects again (what it deletes is in DnsTracker),
\* and the context is looked at: "skipping flow eviction as agent is being stopped".
EvictorSelect ==
  /\ evictor = "select"
  /\ IF objects = "nil" THEN panicked' = TRUE /\ UNCHANGED <<evBatch, evictor>>
     ELSE /\ IF cancelled THEN evBatch' = {} /\ evictor' = "lock"
                          ELSE evictor' = "send" /\ UNCHANGED evBatch
          /\ UNCHANGED panicked
  /\ UNCHANGED <<fetchVars, runVars, traceLoop, rbVars, accVars, limVars, expVars,
                 accIn, limIn, expIn>>

\* Mutant of EvictorSend: it returns after one eviction.
EvictorSend_Once ==
  /\ evictor = "send"
  /\ Len(limIn) < BuffersLength
  /\ limIn' = Append(limIn, evBatch)
  /\ evBatch' = {}
  /\ evictor' = "returned"
  /\ UNCHANGED <<fetchVars, runVars, panicked, traceLoop, rbVars, accVars, limVars,
                 expVars, accIn, expIn>>

\* The send blocks while the channel is full, and panics once it is closed.
EvictorSend ==
  /\ evictor = "send"
  /\ \/ /\ limClosed
        /\ panicked' = TRUE
        /\ UNCHANGED <<evictor, evBatch, limIn>>
     \/ /\ ~limClosed
        /\ Len(limIn) < BuffersLength
        /\ limIn' = Append(limIn, evBatch)
        /\ evBatch' = {}
        /\ evictor' = "lock"
        /\ UNCHANGED panicked
  /\ UNCHANGED <<fetchVars, runVars, traceLoop, rbVars, accVars, limVars, expVars,
                 accIn, expIn>>

Evictor == EvictorWait \/ EvictorWoken \/ EvictorFetch \/ EvictorSelect \/ EvictorSend
-----------------------------------------------------------------------------
(* RingBufTracer; the SSL tracer forwards no record and only keeps the channel open. *)

RBLoop ==
  /\ rb = "loop"
  /\ rb' = IF cancelled THEN "returned" ELSE "read"
  /\ UNCHANGED <<fetchVars, runVars, panicked, mapVars, rbHand, unparsed, errors, ssl, accVars,
                 limVars, expVars, accIn, limIn, expIn>>

\* ReadRingBuf blocks until a record comes or the reader is closed.
RBRead ==
  /\ rb = "read"
  /\ \/ /\ readers = "open"
        /\ \E i \in ringbuf : rbHand' = {i} /\ ringbuf' = ringbuf \ {i}
        /\ rb' = "send"
     \/ /\ readers = "closed"
        /\ rb' = "returned"
        /\ UNCHANGED <<rbHand, ringbuf>>
  /\ UNCHANGED <<flowOf, coming, kernelMap, runVars, panicked, mapVars, unparsed, errors, ssl,
                 accVars, limVars, expVars, accIn, limIn, expIn>>

\* "ignoring flow event": the read fails, or a record is read and cannot be parsed.
RBError ==
  /\ rb = "read" /\ readers = "open"
  /\ errors < MaxErrors
  /\ errors' = errors + 1
  /\ \/ UNCHANGED <<ringbuf, unparsed>>
     \/ \E i \in ringbuf : ringbuf' = ringbuf \ {i} /\ unparsed' = unparsed \cup {i}
  /\ rb' = "loop"
  /\ UNCHANGED <<flowOf, coming, kernelMap, runVars, panicked, mapVars, rbHand, ssl, accVars,
                 limVars, expVars, accIn, limIn, expIn>>

RBSend ==
  /\ rb = "send"
  /\ Len(accIn) < BuffersLength
  /\ accIn' = Append(accIn, rbHand)
  /\ rbHand' = {}
  /\ rb' = "loop"
  /\ UNCHANGED <<fetchVars, runVars, panicked, mapVars, unparsed, errors, ssl, accVars, limVars,
                 expVars, limIn, expIn>>

\* ReadSSLRingBuf blocks until its reader is closed,
SSLClosed ==
  /\ ssl = "run"
  /\ readers = "closed"
  /\ ssl' = "returned"
  /\ UNCHANGED <<fetchVars, runVars, panicked, mapVars, rb, rbHand, unparsed, errors, accVars,
                 limVars, expVars, accIn, limIn, expIn>>

\* or until an event comes, or an error, which may never happen: the loop then looks at the
\* context, and only if it is cancelled does this show.
SSLEvent ==
  /\ ssl = "run"
  /\ readers = "open" /\ cancelled
  /\ ssl' = "returned"
  /\ UNCHANGED <<fetchVars, runVars, panicked, mapVars, rb, rbHand, unparsed, errors, accVars,
                 limVars, expVars, accIn, limIn, expIn>>

RingBufTracer == RBLoop \/ RBRead \/ RBSend
-----------------------------------------------------------------------------
(* Accounter.Account *)

Flows(items) == {flowOf[i] : i \in items}

\* The eviction ticker fires; nothing happens when there are no entries.
AccTick ==
  /\ acc = "select"
  /\ entries # {}
  /\ accBatch' = entries
  /\ entries' = {}
  /\ acc' = "evict"
  /\ UNCHANGED <<fetchVars, runVars, panicked, mapVars, rbVars, accHand, limVars,
                 expVars, accIn, limIn, expIn>>

\* Mutant of AccRecord: a record replaces its flow's entry instead of being accumulated.
AccRecord_Replaces ==
  /\ acc = "select"
  /\ accIn # << >>
  /\ accIn' = Tail(accIn)
  /\ IF \/ Flows(Head(accIn)) \subseteq Flows(entries)
        \/ Cardinality(Flows(entries)) < MaxEntries
       THEN /\ entries' = {i \in entries : flowOf[i] \notin Flows(Head(accIn))} \cup Head(accIn)
            /\ UNCHANGED <<acc, accBatch, accHand>>
       ELSE /\ accBatch' = entries
            /\ entries' = {}
            /\ accHand' = Head(accIn)
            /\ acc' = "full"
  /\ UNCHANGED <<fetchVars, runVars, panicked, mapVars, rbVars, limVars, expVars,
                 limIn, expIn>>

\* A record is merged with its flow's entry, added, or makes room first.
AccRecord ==
  /\ acc = "select"
  /\ accIn # << >>
  /\ accIn' = Tail(accIn)
  /\ IF \/ Flows(Head(accIn)) \subseteq Flows(entries)
        \/ Cardinality(Flows(entries)) < MaxEntries
       THEN entries' = entries \cup Head(accIn) /\ UNCHANGED <<acc, accBatch, accHand>>
       ELSE /\ accBatch' = entries
            /\ entries' = {}
            /\ accHand' = Head(accIn)
            /\ acc' = "full"
  /\ UNCHANGED <<fetchVars, runVars, panicked, mapVars, rbVars, limVars, expVars,
                 limIn, expIn>>

\* Mutant of AccClosed: the entries left at the end are forgotten.
AccClosed_Forgets ==
  /\ acc = "select"
  /\ accIn = << >> /\ accClosed
  /\ acc' = "closing"
  /\ UNCHANGED <<fetchVars, runVars, panicked, mapVars, rbVars, entries, accBatch, accHand,
                 limVars, expVars, accIn, limIn, expIn>>

\* The input is closed and drained: the entries are evicted, even if there are none,
\* and never looked at again.
AccClosed ==
  /\ acc = "select"
  /\ accIn = << >> /\ accClosed
  /\ accBatch' = entries
  /\ entries' = {}
  /\ acc' = "closing"
  /\ UNCHANGED <<fetchVars, runVars, panicked, mapVars, rbVars, accHand, limVars,
                 expVars, accIn, limIn, expIn>>

\* evict sends its records; the record that found the cache full is then added.
AccEvict ==
  /\ acc \in {"evict", "full", "closing"}
  /\ Len(limIn) < BuffersLength
  /\ limIn' = Append(limIn, accBatch)
  /\ accBatch' = {}
  /\ entries' = entries \cup accHand
  /\ accHand' = {}
  /\ acc' = IF acc = "closing" THEN "returned" ELSE "select"
  /\ UNCHANGED <<fetchVars, runVars, panicked, mapVars, rbVars, limVars, expVars,
                 accIn, expIn>>

Account == AccTick \/ AccRecord \/ AccClosed \/ AccEvict
-----------------------------------------------------------------------------
(* CapacityLimiter.Limit and the exporter *)

\* A batch is received and dropped when the exporter's channel has no room.  The limiter
\* is the only sender, so that the room it sees is still there when it sends.
LimitBatch ==
  /\ limiter = "run"
  /\ limIn # << >>
  /\ limIn' = Tail(limIn)
  /\ IF Len(expIn) < ExporterBuffer
       THEN expIn' = Append(expIn, Head(limIn)) /\ UNCHANGED dropped
       ELSE dropped' = dropped \cup Head(limIn) /\ UNCHANGED expIn
  /\ UNCHANGED <<fetchVars, runVars, panicked, mapVars, rbVars, accVars, limiter, expVars,
                 accIn>>

LimitExit ==
  /\ limiter = "run"
  /\ limIn = << >> /\ limClosed
  /\ limiter' = "returned"
  /\ UNCHANGED <<fetchVars, runVars, panicked, mapVars, rbVars, accVars, dropped,
                 expVars, accIn, limIn, expIn>>

Limit == LimitBatch \/ LimitExit

\* Every exporter ranges over its input and returns when it is closed and drained.
Export ==
  /\ exporter = "run"
  /\ \/ /\ expIn # << >>
        /\ exported' = exported \cup Head(expIn)
        /\ expIn' = Tail(expIn)
        /\ UNCHANGED exporter
     \/ /\ expIn = << >> /\ expClosed
        /\ exporter' = "done"
        /\ UNCHANGED <<exported, expIn>>
  /\ UNCHANGED <<fetchVars, runVars, panicked, mapVars, rbVars, accVars, limVars,
                 accIn, limIn>>
-----------------------------------------------------------------------------
\* A panic ends the process.
Next ==
  /\ ~panicked
  /\ \/ \E i \in MapItem : Produce(i)
     \/ Cancel \/ AgentRun
     \/ Tick \/ TraceLoopExit \/ Evictor
     \/ RingBufTracer \/ RBError \/ SSLClosed \/ SSLEvent
     \/ Account \/ Limit \/ Export

\* Every goroutine that can go on eventually does, the eviction tickers keep
\* ticking, and the exporters' calls return.  The two senders of the limiter's
\* channel are queued first come, first served when they block on it (Go), so
\* neither is overtaken for ever: strong fairness.
Fairness ==
  /\ WF_vars(~panicked /\ AgentRun)
  /\ WF_vars(~panicked /\ Tick) /\ WF_vars(~panicked /\ TraceLoopExit)
  /\ WF_vars(~panicked /\ Evictor) /\ SF_vars(~panicked /\ EvictorSend)
  /\ WF_vars(~panicked /\ RingBufTracer) /\ WF_vars(~panicked /\ SSLClosed)
  /\ WF_vars(~panicked /\ Account) /\ WF_vars(~panicked /\ AccTick)
  /\ SF_vars(~panicked /\ AccEvict)
  /\ WF_vars(~panicked /\ Limit)
  /\ WF_vars(~panicked /\ Export)

Spec == Init /\ [][Next]_vars
FairSpec == Spec /\ Fairness
-----------------------------------------------------------------------------
(* Properties *)

Queued(ch) == UNION {ch[k] : k \in DOMAIN ch}

\* Items that are in the hands of a node of the graph or in a channel.
InGraph == rbHand \cup Queued(accIn) \cup entries \cup accBatch \cup accHand
             \cup Queued(limIn) \cup Queued(expIn)

\* The pipeline implements Delivery: whatever the interleaving of ticks, full
\* caches, full channels and the shutdown, no item is lost, and none is delivered
\* or dropped twice, except that a record of the ring buffer that cannot be parsed is
\* dropped where it is read, and that a stop lets the evictor abandon its batch.
D == INSTANCE Delivery WITH
       source <- coming \cup kernelMap \cup ringbuf,
       transit <- InGraph \cup evBatch,
       dropped <- dropped \cup unparsed,
       stopping <- cancelled

Delivers == D!Spec

\* When Run returns, every node of the graph has returned, and what any of them had
\* received was exported or dropped ("waiting for all nodes to finish their pending work",
\* agent.go).
NodesFinished ==
  run = "stopped" => InGraph = {} /\ {traceLoop, rb, ssl, acc, limiter} = {"returned"}

\* A stop that finds no eviction under way is clean: whatever the ticks, the closing of the
\* eBPF objects and the ends of the nodes do before the last of them has returned, no
\* eviction follows that would panic (objects forgotten, channel closed) or be abandoned.
CleanStop == cancelled /\ ~overtaken => ~panicked /\ evBatch = {}

\* A flow counted in the kernel map, or a packet that goes through the ring buffer and the
\* accounter, reaches the collector or is dropped by the limiter, unless its record cannot be
\* parsed or the agent is stopped: a tick lost while an eviction is running is made up for by a later one.
ItemsLeaveKernel ==
  \A i \in Item : (i \in kernelMap \cup ringbuf) ~> (i \in exported \cup dropped \cup unparsed \/ cancelled)

\* The shutdown never hangs: every node returns whatever it was blocked on.
ShutdownCompletes == cancelled ~> (run = "stopped" \/ panicked)
=============================================================================
