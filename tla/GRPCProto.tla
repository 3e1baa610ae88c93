------------------------------- MODULE GRPCProto -------------------------------
(***************************************************************************)
(* The gRPC exporter (pkg/exporter/flows/grpc_proto.go): ExportFlows sends *)
(* the batches of its input channel, split into messages by FlowsToPB,     *)
(* while a goroutine replaces the connection at every tick of a timer.     *)
(*                                                                         *)
(* External: a connection, once closed, refuses Send and refuses a second  *)
(* Close; the certificates that ConnectClient reads come and go (a secret  *)
(* being rotated); the collector may refuse a message.                     *)
(***************************************************************************)
EXTENDS Naturals, Sequences, SequencesExt, FiniteSets

CONSTANTS Batches,             \* the batches of the input: sequences of records
          GRPCMessageMaxFlows, \* records per message
          MaxFaults            \* bound: times the certificates cannot be read

ASSUME GRPCAssumption ==
  /\ GRPCMessageMaxFlows \in Nat \ {0}
  /\ MaxFaults \in Nat

VARIABLES
  input,     \* the channel: batches not yet received
  ended,     \* whether it is closed
  conn,      \* g.clientConn: open or closed
  open,      \* number of connections open
  certs,     \* whether ConnectClient can read its certificates
  faults,    \* times it could not
  timerPc,   \* the goroutine of the timer: select, locked, dial, ended
  pc,        \* ExportFlows: receive, send (sendBatch, with g.m read-locked), close, done,
             \* returned
  entries,   \* sendBatch: the records not yet sent
  messages,  \* history: the messages given to Send
  refused,   \* history: how many of them a closed connection refused
  failed     \* history: whether a reconnection has failed

connVars == <<conn, open, certs, faults, timerPc, failed>>
sendVars == <<input, ended, pc, entries, messages, refused>>
vars == <<connVars, sendVars>>

\* StartGRPCProto has connected once.
Init ==
  /\ input = Batches /\ ended = FALSE
  /\ conn = "open" /\ open = 1
  /\ certs = TRUE /\ faults = 0 /\ failed = FALSE
  /\ timerPc = "select"
  /\ pc = "receive" /\ entries = << >>
  /\ messages = << >> /\ refused = 0
-----------------------------------------------------------------------------
CertsChange ==
  /\ certs => faults < MaxFaults
  /\ certs' = ~certs
  /\ faults' = IF certs THEN faults + 1 ELSE faults
  /\ UNCHANGED <<conn, open, timerPc, failed, sendVars>>

\* Mutant: the write lock does not wait for a batch that is being sent.
WriteLockFree_Always == TRUE

WriteLockFree == pc # "send"

\* A tick: reconnect takes the lock.
Tick ==
  /\ timerPc = "select"
  /\ WriteLockFree
  /\ timerPc' = "locked"
  /\ UNCHANGED <<conn, open, certs, faults, failed, sendVars>>

\* Mutant: a failed attempt is made again without leaving the lock.
AfterReconnect_Retries(ok) == timerPc' = IF ok THEN "select" ELSE timerPc

\* The error of reconnect is logged and counted.
AfterReconnect(ok) == timerPc' = "select"

CloseConn == conn' = "closed" /\ open' = open - 1

\* The old connection is closed first; an error of Close ends the attempt.
ReconnectClose ==
  /\ timerPc = "locked"
  /\ \/ /\ conn = "closed"
        /\ failed' = TRUE /\ AfterReconnect(FALSE) /\ UNCHANGED <<conn, open>>
     \/ /\ conn = "open"
        /\ CloseConn /\ timerPc' = "dial" /\ UNCHANGED failed
  /\ UNCHANGED <<certs, faults, sendVars>>

\* ConnectClient, which fails without its certificates; then the unlock.
ConnectClient ==
  /\ timerPc = "dial"
  /\ \/ certs /\ conn' = "open" /\ open' = open + 1 /\ UNCHANGED failed
     \/ ~certs /\ failed' = TRUE /\ UNCHANGED <<conn, open>>
  /\ AfterReconnect(certs)
  /\ UNCHANGED <<certs, faults, sendVars>>

\* The unbuffered channel done: ExportFlows sends, the goroutine receives and ends.
Done ==
  /\ pc = "done" /\ timerPc = "select"
  /\ timerPc' = "ended" /\ pc' = "returned"
  /\ UNCHANGED <<conn, open, certs, faults, failed, input, ended, entries, messages, refused>>
-----------------------------------------------------------------------------
\* The last stage before the exporter returns and closes its output.
InputCloses ==
  /\ ~ended /\ ended' = TRUE
  /\ UNCHANGED <<connVars, input, pc, entries, messages, refused>>

\* The loop of ExportFlows and the read lock of sendBatch.
Receive ==
  /\ pc = "receive"
  /\ \/ /\ input # << >>
        /\ timerPc \notin {"locked", "dial"}
        /\ input' = Tail(input) /\ entries' = Head(input)
        /\ pc' = "send"
     \/ /\ input = << >> /\ ended
        /\ pc' = "close" /\ UNCHANGED <<input, entries>>
  /\ UNCHANGED <<connVars, ended, messages, refused>>

\* Mutant: the records after the first message are left out.
Rest_Dropped(end) == << >>

\* FlowsToPB: what is left of the entries after a message.
Rest(end) == SubSeq(entries, end + 1, Len(entries))

MessageEnd == IF Len(entries) > GRPCMessageMaxFlows THEN GRPCMessageMaxFlows ELSE Len(entries)

\* sendBatch: one message; an error is logged and the next one is sent.
Send ==
  /\ pc = "send"
  /\ \/ /\ entries # << >>
        /\ messages' = Append(messages, SubSeq(entries, 1, MessageEnd))
        /\ entries' = Rest(MessageEnd)
        /\ refused' = IF conn = "closed" THEN refused + 1 ELSE refused
        /\ UNCHANGED pc
     \/ /\ entries = << >>
        /\ pc' = "receive"
        /\ UNCHANGED <<entries, messages, refused>>
  /\ UNCHANGED <<connVars, input, ended>>

\* The input is closed: the connection is closed, without the lock.
Close ==
  /\ pc = "close"
  /\ \/ conn = "open" /\ conn' = "closed" /\ open' = open - 1
     \/ conn = "closed" /\ UNCHANGED <<conn, open>>
  /\ pc' = "done"
  /\ UNCHANGED <<certs, faults, timerPc, failed, input, ended, entries, messages,
                 refused>>

Stopped == pc = "returned" /\ UNCHANGED vars

Timer == Tick \/ ReconnectClose \/ ConnectClient
Export == Receive \/ Send \/ Close \/ Done

Next == CertsChange \/ InputCloses \/ Timer \/ Export \/ Stopped

Spec == Init /\ [][Next]_vars

\* Both goroutines run, and the timer ticks again and again.  The goroutine of the timer
\* waits on done and the timer in one select, which takes either at random: strong
\* fairness for Done.  A reader waiting for the lock is let in before the next writer.
FairSpec ==
  /\ Spec
  /\ WF_vars(Timer) /\ WF_vars(Send \/ Close) /\ SF_vars(Receive) /\ SF_vars(Done)
-----------------------------------------------------------------------------
\* The types of the variables.
TypeOK ==
  /\ conn \in {"open", "closed"} /\ open \in 0..1 /\ ended \in BOOLEAN
  /\ certs \in BOOLEAN /\ faults \in 0..MaxFaults /\ failed \in BOOLEAN
  /\ timerPc \in {"select", "locked", "dial", "ended"}
  /\ pc \in {"receive", "send", "close", "done", "returned"}
  /\ refused \in 0..Len(messages)

\* sendBatch and FlowsToPB: every record of the input is given to Send exactly once and in
\* order, however the batches are split.
EveryRecordSent ==
  FlattenSeq(messages) \o entries \o FlattenSeq(input) = FlattenSeq(Batches)

\* The lock of sendBatch and reconnect: replacing the connection, in the middle of a batch
\* or not, never makes a Send fail unless a reconnection has failed.
ReconnectLosesNothing == ~failed => refused = 0

\* ExportFlows returns once its input is closed, although it must hand done to a goroutine
\* that may be reconnecting, or may have failed to.
ExportReturns == ended ~> pc = "returned"

\* docs/config.md: GRPC_RECONNECT_TIMER is "a period after which the GRPC connection is
\* re-established".  If from some time on the certificates can be read, an exporter that
\* runs has an open connection again and again.
Reestablished == <>[](certs /\ ~ended) => []<>(conn = "open")
=============================================================================
