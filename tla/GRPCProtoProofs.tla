---------------------------- MODULE GRPCProtoProofs ----------------------------
(***************************************************************************)
(* The connection of the gRPC exporter, for every input, every limit of a  *)
(* message and any number of failures: replacing the connection makes no   *)
(* Send fail unless a reconnection failed, and no connection leaks.        *)
(***************************************************************************)
EXTENDS GRPCProto, TLAPS

\* The part of the state the two goroutines share: what each label says of the lock and
\* of the connection.
Shared ==
  /\ conn \in {"open", "closed"}
  /\ timerPc \in {"select", "locked", "dial", "ended"}
  /\ pc \in {"receive", "send", "close", "done", "returned"}
  /\ refused \in Nat

\* The lock: no batch is being sent while the connection is replaced.
Excluded == pc = "send" => timerPc \notin {"locked", "dial"}

\* An exporter that sends or may still send has an open connection, unless the timer is
\* just replacing it or could not.
OpenWhileSending ==
  /\ timerPc = "dial" => conn = "closed"
  /\ conn = "closed" /\ pc \in {"receive", "send"} => timerPc = "dial" \/ failed

\* reconnect closes the old connection before it makes the next: only the current one is
\* ever open, the closing of the exporter included.
NoConnectionLeaks == open = IF conn = "open" THEN 1 ELSE 0

\* The inductive invariant of the connection.
ConnInv == Shared /\ Excluded /\ OpenWhileSending /\ NoConnectionLeaks /\ ReconnectLosesNothing

\* StartGRPCProto leaves the exporter with one open connection.
LEMMA ConnInit == Init => ConnInv
  BY DEF Init, ConnInv, Shared, Excluded, OpenWhileSending, NoConnectionLeaks,
         ReconnectLosesNothing

\* A step of the goroutine of the timer keeps the invariant.
LEMMA ConnTimer == ConnInv /\ Timer => ConnInv'
<1> SUFFICES ASSUME ConnInv, Timer PROVE ConnInv'
  OBVIOUS
<1> USE DEF ConnInv, Shared, Excluded, OpenWhileSending, NoConnectionLeaks,
            ReconnectLosesNothing, sendVars
<1>1. CASE Tick
  BY <1>1 DEF Tick, WriteLockFree
<1>2. CASE ReconnectClose
  BY <1>2 DEF ReconnectClose, CloseConn, AfterReconnect
<1>3. CASE ConnectClient
  BY <1>3 DEF ConnectClient, AfterReconnect
<1>4. QED
  BY <1>1, <1>2, <1>3 DEF Timer

\* A step of ExportFlows keeps the invariant.
LEMMA ConnExport == ConnInv /\ Export => ConnInv'
<1> SUFFICES ASSUME ConnInv, Export PROVE ConnInv'
  OBVIOUS
<1> USE DEF ConnInv, Shared, Excluded, OpenWhileSending, NoConnectionLeaks,
            ReconnectLosesNothing, connVars
<1>1. CASE Receive
  BY <1>1 DEF Receive
<1>2. CASE Send
  BY <1>2 DEF Send
<1>3. CASE Close
  BY <1>3 DEF Close
<1>4. CASE Done
  BY <1>4 DEF Done
<1>5. QED
  BY <1>1, <1>2, <1>3, <1>4 DEF Export

\* What happens around the exporter, and a step that changes nothing, keep it too.
LEMMA ConnQuiet == ConnInv /\ (CertsChange \/ InputCloses \/ UNCHANGED vars) => ConnInv'
  BY DEF ConnInv, Shared, Excluded, OpenWhileSending, NoConnectionLeaks,
         ReconnectLosesNothing, connVars, sendVars, vars, CertsChange, InputCloses

\* The invariant of the connection, whatever the batches and the failures.
THEOREM ConnInvariant == Spec => []ConnInv
<1>1. ConnInv /\ [Next]_vars => ConnInv'
  BY ConnTimer, ConnExport, ConnQuiet DEF Next, Stopped
<1>2. QED
  BY ConnInit, <1>1, PTL DEF Spec

\* sendBatch and reconnect: a reconnection, in the middle of a batch or not, never makes a
\* Send fail as long as no reconnection has failed.
THEOREM NothingLost == Spec => []ReconnectLosesNothing
<1>1. ConnInv => ReconnectLosesNothing
  BY DEF ConnInv
<1>2. QED
  BY ConnInvariant, <1>1, PTL

\* reconnect and the end of ExportFlows: only the current connection is ever open.
THEOREM NoLeak == Spec => []NoConnectionLeaks
<1>1. ConnInv => NoConnectionLeaks
  BY DEF ConnInv
<1>2. QED
  BY ConnInvariant, <1>1, PTL
=============================================================================
