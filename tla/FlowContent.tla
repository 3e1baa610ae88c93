------------------------------ MODULE FlowContent ------------------------------
(***************************************************************************)
(* The values of the secondary maps, one map per feature and one value per *)
(* CPU: how the kernel hooks make and update them (bpf/*_tracker.h,        *)
(* pkt_drops.h, ipsec.h, network_events_monitoring.h, pkt_translation.h),  *)
(* and how user space merges the values of the CPUs into the content of a  *)
(* flow (pkg/model/flow_content.go).                                       *)
(*                                                                         *)
(* A value is a record of the fields that are merged; start and end are    *)
(* its times, 0 if unset.  An event is what a hook saw.                    *)
(***************************************************************************)
EXTENDS Integers, Sequences, SequencesExt, FiniteSets, FiniteSetsExt

CONSTANTS MaxUint16,         \* 65535
          MaxNetworkEvents   \* slots for network events

ASSUME ContentAssumption == {MaxUint16, MaxNetworkEvents} \subseteq Nat \ {0}

\* utils.h add_len_u16: the sum wraps, and wrapping is seen by the sum being smaller.
add_len_u16(old, add) ==
  LET n == (old + add) % (MaxUint16 + 1)
  IN  IF add > MaxUint16 \/ n < add THEN MaxUint16 ELSE n

\* flow_content.go addUint16
addUint16(a, b) ==
  LET s == (a + b) % (MaxUint16 + 1)
  IN  IF s < a THEN MaxUint16 ELSE s

Larger(a, b) == IF a < b THEN b ELSE a
-----------------------------------------------------------------------------
(* The kernel's updates, for an event e at time t *)

\* The MAX_EVENT_MD bytes of a slot: the metadata of an event, and the bytes after it.
Cookie(md, tail) == [md |-> md, tail |-> tail]

NoSlots == [i \in 1..MaxNetworkEvents |-> [cookie |-> Cookie(0, 0), packets |-> 0]]

\* What a CPU finds in an element that another CPU created.
Zero(feature) ==
  CASE feature = "drops" -> [start |-> 0, end |-> 0, packets |-> 0, bytes |-> 0, cause |-> 0]
    [] feature = "additional" -> [start |-> 0, end |-> 0, rtt |-> 0, ret |-> 0, enc |-> FALSE]
    [] feature = "dns" -> [start |-> 0, end |-> 0, id |-> 0, errno |-> 0, latency |-> 0]
    [] feature = "quic" -> [start |-> 0, end |-> 0, version |-> 0, long |-> 0, short |-> 0]
    [] feature = "xlat" -> [start |-> 0, end |-> 0, tuple |-> 0]
    [] feature = "netev" -> [start |-> 0, end |-> 0, slots |-> NoSlots, idx |-> 1]

\* pkt_drop_lookup_and_update_flow
UpdateDrop(v, e, t) ==
  [v EXCEPT !.end = t, !.packets = add_len_u16(@, 1), !.bytes = add_len_u16(@, e.len),
            !.cause = e.cause]

\* rtt_lookup_and_update_flow; srtt grows and shrinks, the largest is kept.
UpdateRtt(v, e, t) == [v EXCEPT !.end = t, !.rtt = Larger(@, e.rtt)]

\* ipsec_lookup_and_update_flow
UpdateIPsec(v, e, t) ==
  IF e.ret # 0 THEN [v EXCEPT !.end = t, !.ret = e.ret, !.enc = FALSE]
               ELSE [v EXCEPT !.end = t, !.enc = TRUE]

\* update_dns: a response sets its fields, an error is kept.
UpdateDns(v, e, t) ==
  LET u == IF e.id # 0 THEN [v EXCEPT !.end = t, !.id = e.id, !.latency = e.latency] ELSE v
  IN  IF e.errno # 0 THEN [u EXCEPT !.errno = e.errno] ELSE u

\* track_quic_packet, once the header was recognised
UpdateQuic(v, e, t) ==
  IF e.long THEN [v EXCEPT !.end = t, !.long = 1,
                           !.version = IF e.version # 0 THEN e.version ELSE @]
            ELSE [v EXCEPT !.end = t, !.short = 1]

\* translate_lookup_and_update_flow
UpdateXlat(v, e, t) == [v EXCEPT !.end = t, !.tuple = e.tuple]

\* lookup_and_update_existing_flow_network_events: a known event is counted, another one
\* takes the next slot, over what was there.  The bytes after a short event are what the
\* stack held (e.tail), and are compared, too.  NETWORK_EVENTS_OVERFLOW is left out.
UpdateNetEv(v, e, t) ==
  LET same == {i \in 1..MaxNetworkEvents : v.slots[i].cookie = Cookie(e.md, e.tail)}
  IN  IF same # {}
      THEN [v EXCEPT !.end = t, !.slots[Min(same)].packets = add_len_u16(@, 1)]
      ELSE [v EXCEPT !.end = t, !.slots[v.idx] = [cookie |-> Cookie(e.md, e.tail), packets |-> 1],
                     !.idx = (v.idx % MaxNetworkEvents) + 1]

Update(feature, v, e, t) ==
  CASE feature = "drops" -> UpdateDrop(v, e, t)
    [] feature = "additional" /\ e.kind = "rtt" -> UpdateRtt(v, e, t)
    [] feature = "additional" /\ e.kind = "ipsec" -> UpdateIPsec(v, e, t)
    [] feature = "dns" -> UpdateDns(v, e, t)
    [] feature = "quic" -> UpdateQuic(v, e, t)
    [] feature = "xlat" -> UpdateXlat(v, e, t)
    [] feature = "netev" -> UpdateNetEv(v, e, t)

\* The value of a new element: the event on top of zeros, with both times set.
NewValue(feature, e, t) ==
  LET new == IF feature = "netev" THEN [e EXCEPT !.tail = 0] ELSE e
  IN  [Update(feature, Zero(feature), new, t) EXCEPT !.start = t, !.end = t]
-----------------------------------------------------------------------------
(* User space: the content p of a flow is a base (start, end, packets) and the merged *)
(* value of the feature, as a set that is empty for a nil pointer.                     *)

\* Mutant: an unset time counts as the earliest.
BuildBase_ZeroStart(base, o) ==
  [base EXCEPT !.start = IF @ > o.start THEN o.start ELSE @, !.end = Larger(@, o.end)]

\* buildBaseFromAdditional
BuildBase(base, o) ==
  [base EXCEPT !.start = IF @ = 0 \/ (@ > o.start /\ o.start # 0) THEN o.start ELSE @,
               !.end = Larger(@, o.end)]

AccumulateDrops(p, o) ==
  [p EXCEPT !.bytes = addUint16(@, o.bytes), !.packets = addUint16(@, o.packets),
            !.cause = IF o.cause # 0 THEN o.cause ELSE @]

AccumulateDNS(p, o) ==
  [p EXCEPT !.id = IF o.id # 0 THEN o.id ELSE @, !.errno = o.errno,
            !.latency = Larger(@, o.latency)]

\* Mutant: the next slot stays the same.
AddSlot_SameSlot(p, slot) ==
  IF slot.packets # 0 /\ \A i \in 1..MaxNetworkEvents : p.slots[i].cookie # slot.cookie
    THEN [p EXCEPT !.slots[p.idx] =
                       [cookie |-> slot.cookie, packets |-> addUint16(@.packets, slot.packets)]]
    ELSE p

\* One slot of the other value: an event that is not there takes the next slot.
AddSlot(p, slot) ==
  IF slot.packets # 0 /\ \A i \in 1..MaxNetworkEvents : p.slots[i].cookie # slot.cookie
    THEN [p EXCEPT !.slots[p.idx] =
                       [cookie |-> slot.cookie, packets |-> addUint16(@.packets, slot.packets)],
                   !.idx = (p.idx % MaxNetworkEvents) + 1]
    ELSE p

AccumulateNetworkEvents(p, o) == FoldLeft(AddSlot, p, o.slots)

AccumulateXlat(p, o) == IF o.tuple # 0 THEN o ELSE p

AccumulateAdditional(p, o) ==
  LET q == [p EXCEPT !.rtt = Larger(@, o.rtt)]
  IN  CASE q.ret < o.ret -> [q EXCEPT !.ret = o.ret, !.enc = o.enc]
        [] q.ret = o.ret -> [q EXCEPT !.enc = @ \/ o.enc]
        [] q.ret > o.ret -> q

AccumulateQuic(p, o) ==
  [p EXCEPT !.version = Larger(@, o.version), !.long = Larger(@, o.long),
            !.short = Larger(@, o.short)]

Merge(feature, p, o) ==
  CASE feature = "drops" -> AccumulateDrops(p, o)
    [] feature = "additional" -> AccumulateAdditional(p, o)
    [] feature = "dns" -> AccumulateDNS(p, o)
    [] feature = "quic" -> AccumulateQuic(p, o)
    [] feature = "xlat" -> AccumulateXlat(p, o)
    [] feature = "netev" -> AccumulateNetworkEvents(p, o)

\* Accumulate<Feature>: the base is extended, and the first value is taken as it is.
Accumulate(feature, content, o) ==
  [base |-> BuildBase(content.base, o),
   ext  |-> IF content.ext = {} THEN {o} ELSE {Merge(feature, p, o) : p \in content.ext}]

\* The values of all CPUs, in their order, on top of the content.
AccumulateAll(feature, content, values) ==
  FoldLeft(LAMBDA c, o : Accumulate(feature, c, o), content, values)
-----------------------------------------------------------------------------
(* ipsec_merge.go: flows is a function from flow ids to contents *)

isIPsecOrphan(content) ==
  content.base.packets = 0 /\ \E v \in content.ext : v.enc \/ v.ret # 0

isIPsecWireFlow(id) == id.proto \in {"ESP", "NATT"}

\* The wire flows with these endpoints.
WireFlows(flows, src, dst) ==
  {id \in DOMAIN flows : /\ isIPsecWireFlow(id) /\ id.src = src /\ id.dst = dst
                         /\ ~isIPsecOrphan(flows[id]) /\ flows[id].base.packets # 0}

\* Mutant: an orphan without a wire flow is dropped.
OrphanTargets_Self(flows, orphan) == {orphan}

\* The wire flows of an orphan, in its direction or else in the other one.
OrphanTargets(flows, orphan) ==
  LET forward == WireFlows(flows, orphan.src, orphan.dst)
  IN  IF forward # {} THEN forward ELSE WireFlows(flows, orphan.dst, orphan.src)

\* cmpBpfFlowID, for ids with the same endpoints: NAT-T has ports, ESP has none.
FirstFlow(ids) ==
  CHOOSE id \in ids : \A other \in ids : id.proto = "ESP" \/ other.proto = id.proto

mergeIPsecOrphans(flows) ==
  LET orphans == {id \in DOMAIN flows : isIPsecOrphan(flows[id])}
      merged  == {id \in orphans : OrphanTargets(flows, id) # {}}
      into(id) == {flows[o].ext : o \in {m \in merged : FirstFlow(OrphanTargets(flows, m)) = id}}
      content(id) == FoldSet(LAMBDA ext, c : Accumulate("additional", c, CHOOSE v \in ext : TRUE),
                             flows[id], into(id))
  IN  [id \in DOMAIN flows \ merged |-> content(id)]
=============================================================================
