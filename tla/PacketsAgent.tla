---------------------------- MODULE PacketsAgent ----------------------------
(***************************************************************************)
(* The packets agent (pkg/agent/packets) with the TLS plaintext branch.    *)
(* Two pipelines of the same shape run side by side: a tracer that reads a *)
(* ring buffer, a buffer that makes batches, an exporter.  "packet" reads  *)
(* the packets that the kernel captured, "plain" the events of the OpenSSL *)
(* probes.  Run starts both, and when it is told to stop it closes the     *)
(* probes and the readers and waits for the exporter of packets.           *)
(***************************************************************************)
EXTENDS OpenSSL

CONSTANTS
  Scenarios,     \* what happens at most: see Init
  MaxEntries,    \* CacheMaxFlows
  BuffersLength  \* of each channel between two nodes

Branch == {"packet", "plain"}

VARIABLES
  scenario, budget,
  ring,       \* packet_record: the packets that the kernel captured
  run,        \* where Agent.Run is
  open,       \* the readers that are open
  tracer,     \* TraceLoop of each branch: its step and the record it sends
  in,         \* the channel from the tracer to the buffer
  buffer,     \* PBuffer: its entries, the batch it sends and what it does next
  out,        \* the channel from the buffer to the exporter
  exporter,   \* whether the exporter goes on, and all that it exported
  read        \* history: the records that the tracer kept

nodeVars  == <<tracer, in, buffer, out, exporter, read>>
agentVars == <<scenario, budget, ring, run, open>>
vars      == <<sslVars, nodeVars, agentVars>>

cancelled == run \notin {"new", "started"}

\* Up to scenario.packets packets arrive and scenario.calls TLS calls or mishaps happen.  The
\* probes are being attached, or they are already; the agent runs or does not yet.
Init ==
  /\ scenario \in Scenarios
  /\ SSLInitWith(scenario.hooked)
  /\ budget = [packets |-> scenario.packets, calls |-> scenario.calls]
  /\ ring = << >> /\ run = "new" /\ open = Branch
  /\ tracer = [b \in Branch |-> [step |-> "new", rec |-> << >>]]
  /\ in = [b \in Branch |-> << >>] /\ out = [b \in Branch |-> << >>]
  /\ buffer = [b \in Branch |-> [entries |-> << >>, batch |-> << >>, next |-> << >>, step |-> "select"]]
  /\ exporter = [b \in Branch |-> [done |-> FALSE, exported |-> << >>]]
  /\ read = [b \in Branch |-> << >>]
-----------------------------------------------------------------------------
(* Nodes *)

\* The loop of a tracer, which looks at the context between two records.
TraceLoop(b) ==
  /\ tracer[b].step = "loop"
  /\ tracer' = [tracer EXCEPT ![b].step = IF cancelled THEN "returned" ELSE "read"]
  /\ UNCHANGED <<sslVars, agentVars, in, buffer, out, exporter, read>>

Records(b) == IF b = "packet" THEN ring ELSE events

\* ReadPerf or ReadSSLRingBuf.  A record that cannot be parsed is ignored, and Scope.Process
\* may drop a plaintext record.
listenAndForward(b) ==
  /\ tracer[b].step = "read" /\ b \in open /\ Records(b) # << >>
  /\ IF b = "packet" THEN ring' = Tail(ring) /\ UNCHANGED sslVars
                     ELSE ReadSSLRingBuf /\ UNCHANGED ring
  /\ \/ /\ tracer' = [tracer EXCEPT ![b] = [step |-> "send", rec |-> <<Head(Records(b))>>]]
        /\ read' = [read EXCEPT ![b] = Append(@, Head(Records(b)))]
     \/ /\ tracer' = [tracer EXCEPT ![b].step = "loop"]
        /\ UNCHANGED read
  /\ UNCHANGED <<scenario, budget, run, open, in, buffer, out, exporter>>

\* Any other error than ErrClosed is logged, and the loop goes on.
ReadError(b) ==
  /\ tracer[b].step = "read" /\ b \in open
  /\ tracer' = [tracer EXCEPT ![b].step = "loop"]
  /\ UNCHANGED <<sslVars, agentVars, in, buffer, out, exporter, read>>

\* The reader is closed while the tracer reads.
ErrClosed(b) ==
  /\ tracer[b].step = "read" /\ b \notin open
  /\ tracer' = [tracer EXCEPT ![b].step = "returned"]
  /\ UNCHANGED <<sslVars, agentVars, in, buffer, out, exporter, read>>

Forward(b) ==
  /\ tracer[b].step = "send" /\ Len(in[b]) < BuffersLength
  /\ in' = [in EXCEPT ![b] = @ \o tracer[b].rec]
  /\ tracer' = [tracer EXCEPT ![b] = [step |-> "loop", rec |-> << >>]]
  /\ UNCHANGED <<sslVars, agentVars, buffer, out, exporter, read>>

\* evict: the entries are the batch that is sent next; then next is appended, or the buffer
\* returns.
Evicting(b, next, last) ==
  [entries |-> << >>, batch |-> buffer[b].entries, next |-> next,
   step |-> IF last THEN "last" ELSE "evict"]

\* The ticker fires.
BufferTick(b) ==
  /\ buffer[b].step = "select" /\ buffer[b].entries # << >>
  /\ buffer' = [buffer EXCEPT ![b] = Evicting(b, << >>, FALSE)]
  /\ UNCHANGED <<sslVars, agentVars, tracer, in, out, exporter, read>>

\* Mutant of PBuffer: a full buffer forgets the record that did not fit.
PBuffer_Forgets(b) ==
  /\ buffer[b].step = "select" /\ in[b] # << >>
  /\ in' = [in EXCEPT ![b] = Tail(@)]
  /\ buffer' = [buffer EXCEPT ![b] =
                  IF Len(@.entries) >= MaxEntries THEN Evicting(b, << >>, FALSE)
                  ELSE [@ EXCEPT !.entries = Append(@, Head(in[b]))]]
  /\ UNCHANGED <<sslVars, agentVars, tracer, out, exporter, read>>

\* A record arrives: a full buffer is evicted first.
PBuffer(b) ==
  /\ buffer[b].step = "select" /\ in[b] # << >>
  /\ in' = [in EXCEPT ![b] = Tail(@)]
  /\ buffer' = [buffer EXCEPT ![b] =
                  IF Len(@.entries) >= MaxEntries THEN Evicting(b, <<Head(in[b])>>, FALSE)
                  ELSE [@ EXCEPT !.entries = Append(@, Head(in[b]))]]
  /\ UNCHANGED <<sslVars, agentVars, tracer, out, exporter, read>>

\* Mutant of BufferClosed: it returns with its entries.
BufferClosed_Returns(b) ==
  /\ buffer[b].step = "select" /\ in[b] = << >> /\ tracer[b].step = "returned"
  /\ buffer' = [buffer EXCEPT ![b].step = "returned"]
  /\ UNCHANGED <<sslVars, agentVars, tracer, in, out, exporter, read>>

\* The channel is closed and empty: what is left is evicted.  The buffer of packets sends an
\* empty batch, too.
BufferClosed(b) ==
  /\ buffer[b].step = "select" /\ in[b] = << >> /\ tracer[b].step = "returned"
  /\ buffer' = [buffer EXCEPT ![b] =
                  IF b = "plain" /\ @.entries = << >> THEN [@ EXCEPT !.step = "returned"]
                  ELSE Evicting(b, << >>, TRUE)]
  /\ UNCHANGED <<sslVars, agentVars, tracer, in, out, exporter, read>>

\* evictor <- packets
evict(b) ==
  /\ buffer[b].step \in {"evict", "last"} /\ Len(out[b]) < BuffersLength
  /\ out' = [out EXCEPT ![b] = Append(@, buffer[b].batch)]
  /\ buffer' = [buffer EXCEPT ![b] =
                  [entries |-> @.next, batch |-> << >>, next |-> << >>,
                   step |-> IF @.step = "last" THEN "returned" ELSE "select"]]
  /\ UNCHANGED <<sslVars, agentVars, tracer, in, exporter, read>>

\* The exporter takes a batch and hands its records to Send, whose errors it logs, or finds
\* its channel closed.
Export(b) ==
  /\ ~exporter[b].done
  /\ \/ /\ out[b] # << >>
        /\ out' = [out EXCEPT ![b] = Tail(@)]
        /\ exporter' = [exporter EXCEPT ![b].exported = @ \o Head(out[b])]
     \/ /\ out[b] = << >> /\ buffer[b].step = "returned"
        /\ exporter' = [exporter EXCEPT ![b].done = TRUE]
        /\ UNCHANGED out
  /\ UNCHANGED <<sslVars, agentVars, tracer, in, buffer, read>>

Node(b) ==
  \/ TraceLoop(b) \/ listenAndForward(b) \/ ReadError(b) \/ ErrClosed(b) \/ Forward(b)
  \/ BufferTick(b) \/ PBuffer(b) \/ BufferClosed(b) \/ evict(b) \/ Export(b)
-----------------------------------------------------------------------------
(* Run *)

\* buildAndStartPipeline
Start ==
  /\ run = "new" /\ scenario.start
  /\ run' = "started"
  /\ tracer' = [b \in Branch |-> [tracer[b] EXCEPT !.step = "loop"]]
  /\ UNCHANGED <<sslVars, scenario, budget, ring, open, in, buffer, out, exporter, read>>

\* The context is cancelled; Fetcher.Close closes the probes, ...
Cancel ==
  /\ run = "started"
  /\ run' = "stopping"
  /\ UNCHANGED <<sslVars, nodeVars, scenario, budget, ring, open>>

CloseAttacher ==
  /\ run = "stopping" /\ CloseStart
  /\ run' = "closing"
  /\ UNCHANGED <<nodeVars, scenario, budget, ring, open>>

\* ... the reader of the events, and the reader of the packets.
CloseReaders ==
  /\ run = "closing" /\ closed = "closed" /\ open # {}
  /\ open' = IF "plain" \in open THEN open \ {"plain"} ELSE {}
  /\ UNCHANGED <<sslVars, nodeVars, scenario, budget, ring, run>>

\* <-graph.Done(), which the exporter of packets closes.
Done ==
  /\ run = "closing" /\ open = {} /\ exporter["packet"].done
  /\ run' = "stopped"
  /\ UNCHANGED <<sslVars, nodeVars, scenario, budget, ring, open>>

\* The kernel captures a packet; without room it is lost.  After the reader was closed nobody
\* would see it.
Capture ==
  /\ budget.packets > 0 /\ "packet" \in open
  /\ budget' = [budget EXCEPT !.packets = @ - 1]
  /\ ring' = IF Len(ring) < MaxRing THEN Append(ring, budget.packets) ELSE ring
  /\ UNCHANGED <<sslVars, nodeVars, scenario, run, open>>

\* The process takes a step that counts.
Process ==
  /\ budget.calls > 0 /\ (Calls \/ Mishaps)
  /\ budget' = [budget EXCEPT !.calls = @ - 1]
  /\ UNCHANGED <<nodeVars, scenario, ring, run, open>>

\* What goes on by itself.
Background ==
  /\ Attacher \/ Returns
  /\ UNCHANGED <<nodeVars, agentVars>>

\* Everything has come to its end.
Idle == ~scenario.start \/ (run = "stopped" /\ \A b \in Branch : exporter[b].done)

Terminated == Idle /\ UNCHANGED vars

Next ==
  \/ \E b \in Branch : Node(b)
  \/ Start \/ Cancel \/ CloseAttacher \/ CloseReaders \/ Done
  \/ Capture \/ Process \/ Background \/ Terminated

Spec == Init /\ [][Next]_vars
-----------------------------------------------------------------------------
(* Properties *)

SX == INSTANCE SequencesExt

\* What a branch holds between its tracer and its exporter, oldest first.
InTransit(b) ==
  SX!FlattenSeq(out[b]) \o buffer[b].batch \o buffer[b].entries \o buffer[b].next
    \o in[b] \o tracer[b].rec

\* Every record that a tracer kept is exported once and in the order it was read, whatever
\* the order of ticks, full buffers, blocked sends and the shutdown: nothing is lost, doubled
\* or overtaken between the reader and the exporter.
ExportedInOrder ==
  \A b \in Branch : exporter[b].exported \o InTransit(b) = read[b]

\* When Run returns, every packet that was read has been exported, and the nodes of that
\* branch have returned ("waiting for all nodes to finish their pending work", agent.go).
\* Run waits for this exporter alone: the nodes of the other branch may still hold records.
FinishedWhenStopped ==
  run = "stopped" =>
    /\ exporter["packet"].exported = read["packet"]
    /\ tracer["packet"].step = "returned" /\ buffer["packet"].step = "returned"
=============================================================================
