----------------------------- MODULE FlowElement -----------------------------
(***************************************************************************)
(* The life of one element of aggregated_flows, from the packet that       *)
(* creates it to its eviction: what flow_monitor and update_existing_flow  *)
(* (bpf/flows/flows.c) write to it besides the counters, and the interface *)
(* list NewRecordInto (pkg/model/record.go) builds from it.                *)
(*                                                                         *)
(* A hook invocation reads the clock when the packet arrives and writes    *)
(* the element later, in one step under the element's spin lock; another   *)
(* CPU can overtake it in between.  The insertion race (EEXIST) ends in    *)
(* the same update, so the first write creates the element and the others  *)
(* update it; which element a write reaches is the subject of FlowMap.     *)
(* TCP flags, DSCP, sampling and the MACs are left out; cipher stands for  *)
(* both tls_cipher_suite and tls_key_share, which are written alike.       *)
(***************************************************************************)
EXTENDS Naturals, Sequences, FiniteSets

CONSTANTS CPU,           \* the CPUs that run hooks
          Intf,          \* interface indexes, 0 being the unknown one
          Tls,           \* TLS data of a packet: records with version, type, cipher
          Input,         \* what can reach a hook: records with intf, dir and tls
          MaxObserved,   \* MAX_OBSERVED_INTERFACES
          HasProto,      \* the flow's transport_protocol is not zero
          MaxPackets     \* bound: packets of the flow in a behaviour

INGRESS == 0
EGRESS  == 1
BOTH    == 3

Direction == {INGRESS, EGRESS}

ASSUME ElementAssumption ==
  /\ Intf \subseteq Nat
  /\ Input \subseteq [intf : Intf, dir : Direction, tls : Tls]
  /\ {MaxObserved, MaxPackets} \subseteq Nat
  /\ HasProto \in BOOLEAN
  /\ \A t \in Tls : t.version \in Nat /\ t.cipher \in Nat

\* A packet in a hook: its timestamp, interface, direction and TLS data.
Packet == [ts : 1..MaxPackets, intf : Intf, dir : Direction, tls : Tls]

\* observed_intf and observed_direction are one sequence here.
Observed == [intf : Intf, dir : Direction \cup {BOTH}]

VARIABLES
  clock,     \* bpf_ktime_get_ns: the number of packets that have arrived
  hook,      \* the packets each CPU's hook is handling (at most one)
  elem,      \* the element: {} before its creation, a singleton afterwards
  missed,    \* increments of the counter OBSERVED_INTF_MISSED
  seen       \* history: the packets that reached the element, in that order

vars == <<clock, hook, elem, missed, seen>>

Init ==
  /\ clock = 0
  /\ hook = [c \in CPU |-> {}]
  /\ elem = {}
  /\ missed = 0
  /\ seen = << >>

\* The packet enters flow_monitor, which records the current time first.
Arrive(c) ==
  /\ hook[c] = {}
  /\ clock < MaxPackets
  /\ clock' = clock + 1
  /\ \E x \in Input :
       hook' = [hook EXCEPT ![c] = {[ts |-> clock', intf |-> x.intf, dir |-> x.dir,
                                     tls |-> x.tls]}]
  /\ UNCHANGED <<elem, missed, seen>>

\* The new_flow of flow_monitor.
NewFlow(p) ==
  [first |-> p.intf, dirFirst |-> p.dir, packets |-> 1,
   start |-> p.ts, end |-> p.ts, observed |-> << >>,
   version |-> p.tls.version, mismatch |-> FALSE,
   cipher |-> p.tls.cipher, types |-> {p.tls.type}]

CapacityReached(e) == Len(e.observed) >= MaxObserved

AddObservedIntf_NoScan(e, p) ==
  IF CapacityReached(e) THEN e.observed
  ELSE Append(e.observed, [intf |-> p.intf, dir |-> p.dir])

\* add_observed_intf: the capacity is checked before the interface is searched.
AddObservedIntf(e, p) ==
  IF CapacityReached(e) THEN e.observed
  ELSE IF \E k \in DOMAIN e.observed : e.observed[k].intf = p.intf
         THEN [k \in DOMAIN e.observed |->
                 IF e.observed[k].intf = p.intf /\ e.observed[k].dir # p.dir
                   THEN [intf |-> p.intf, dir |-> BOTH]
                   ELSE e.observed[k]]
         ELSE Append(e.observed, [intf |-> p.intf, dir |-> p.dir])

\* Mutant of SameInterface: a later hello replaces the version silently.
SameInterface_LastVersion(e, p) ==
  [e EXCEPT !.packets = @ + 1, !.end = p.ts,
            !.version = IF p.tls.version > 0 THEN p.tls.version ELSE @,
            !.cipher = IF p.tls.cipher > 0 /\ p.tls.type = "server" THEN p.tls.cipher ELSE @,
            !.types = @ \cup {p.tls.type}]

\* The first branch of update_existing_flow: a packet of the interface that
\* created the element is counted, and its TLS hello compared.
SameInterface(e, p) ==
  [e EXCEPT !.packets = @ + 1, !.end = p.ts,
            !.version = IF @ = 0 THEN p.tls.version ELSE @,
            !.mismatch = @ \/ (p.tls.version > 0 /\ e.version \notin {0, p.tls.version}),
            !.cipher = IF p.tls.cipher > 0 /\ p.tls.type = "server" THEN p.tls.cipher ELSE @,
            !.types = @ \cup {p.tls.type}]

\* Mutant of OtherInterface: the end time is left alone.
OtherInterface_KeepsEnd(e, p) == [e EXCEPT !.observed = AddObservedIntf(e, p)]

\* The second branch: a packet of another interface only leaves a trace.
OtherInterface(e, p) ==
  [e EXCEPT !.end = p.ts, !.observed = AddObservedIntf(e, p)]

\* The condition of that branch.
IsOther(e, p) == p.intf # e.first /\ p.intf # 0

UpdateExistingFlow(e, p) ==
  IF p.intf = e.first THEN SameInterface(e, p)
  ELSE IF p.intf # 0 THEN OtherInterface(e, p)
  ELSE e

\* The interfaces of the record NewRecordInto builds: the first one seen, then
\* the observed ones.
RecordInterfaces(e) ==
  [k \in 1..(Len(e.observed) + 1) |-> IF k = 1 THEN e.first ELSE e.observed[k - 1].intf]

\* Mutant of CountsMissed: the counter is raised by flows without a protocol only.
CountsMissed_Inverted(e, p) == IsOther(e, p) /\ CapacityReached(e) /\ ~HasProto

\* update_existing_flow raises OBSERVED_INTF_MISSED for this packet.
CountsMissed(e, p) == IsOther(e, p) /\ CapacityReached(e) /\ HasProto

\* flow_monitor writes the element: it is created or updated.
Apply(c) ==
  \E p \in hook[c] :
    /\ hook' = [hook EXCEPT ![c] = {}]
    /\ seen' = Append(seen, p)
    /\ \/ /\ elem = {}
          /\ elem' = {NewFlow(p)}
          /\ UNCHANGED missed
       \/ \E e \in elem :
            /\ elem' = {UpdateExistingFlow(e, p)}
            /\ missed' = IF CountsMissed(e, p) THEN missed + 1 ELSE missed
    /\ UNCHANGED clock

Next == \E c \in CPU : Arrive(c) \/ Apply(c)

Spec == Init /\ [][Next]_vars
-----------------------------------------------------------------------------
(* Properties *)

Element == [first : Intf, dirFirst : Direction, packets : Nat, start : Nat, end : Nat,
            observed : Seq(Observed), version : Nat, mismatch : BOOLEAN,
            cipher : Nat, types : SUBSET {t.type : t \in Tls}]

\* The types of the variables; the observed interfaces fit the arrays of flow_metrics_t.
TypeOK ==
  /\ clock \in 0..MaxPackets
  /\ hook \in [CPU -> SUBSET Packet]
  /\ elem \subseteq Element
  /\ missed \in Nat
  /\ seen \in Seq(Packet)
  /\ \A e \in elem : Len(e.observed) <= MaxObserved

Seen == {seen[k] : k \in DOMAIN seen}

\* A record never lists an interface twice, whichever packets on whichever CPUs
\* updated the element (add_observed_intf and the test that guards it).
InterfacesListedOnce ==
  \A e \in elem : \A j, k \in DOMAIN RecordInterfaces(e) :
    RecordInterfaces(e)[j] = RecordInterfaces(e)[k] => j = k

\* An interface that saw the flow is listed, unless it is unknown (index 0) or the
\* list is full and, for a flow with a protocol, OBSERVED_INTF_MISSED says so.
SeenListedOrMissed ==
  \A e \in elem : \A p \in Seen :
    \/ p.intf \in {0, e.first}
    \/ \E k \in DOMAIN e.observed : e.observed[k].intf = p.intf
    \/ CapacityReached(e) /\ (HasProto => missed > 0)

\* MISC_FLAGS_SSL_MISMATCH is set exactly when two hellos of different versions
\* passed the interface that created the element, in any order.
MismatchIffHellosDiffer ==
  \A e \in elem :
    LET versions == {p.tls.version : p \in {q \in Seen : q.intf = e.first}} \ {0}
    IN  e.mismatch <=> Cardinality(versions) > 1

\* The end time lags behind a packet only when an older packet overtook it: the
\* time is read when the packet arrives and written later, on any CPU.
EndLagsOnlyWhenOvertaken ==
  \A e \in elem : \A j \in DOMAIN seen :
    \/ seen[j].ts <= e.end
    \/ seen[j].intf = 0
    \/ \E k \in DOMAIN seen : k > j /\ seen[k].ts = e.end

=============================================================================
