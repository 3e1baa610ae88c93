----------------------------- MODULE SecondaryMaps -----------------------------
(***************************************************************************)
(* The per-CPU secondary maps: kernel hooks on several CPUs, each of which *)
(* looks an element up and then updates or creates it, against the fetcher *)
(* that copies and deletes elements and merges them into the flows         *)
(* (pkg/tracer/flows/fetcher.go accumulateSecondaryMaps), and against the  *)
(* reading and resetting of the global counters.  IPsec events come from   *)
(* the entry and the return of xfrm functions, which a map from the task   *)
(* to the flow connects (bpf/ipsec.h).                                     *)
(*                                                                         *)
(* One feature is enabled in a behaviour.  Packets that the filter or the  *)
(* sampling keeps from the hooks are no events, except for IPsec, where    *)
(* the two halves of an event may differ.  An element is copied as a whole *)
(* (a CPU's value is not torn).                                            *)
(***************************************************************************)
EXTENDS FlowContent

CONSTANTS FlowsOf,   \* flow ids that each feature meets: records with src, dst and proto
          NCPU,      \* number of CPUs
          Task,      \* the values of pid_tgid under which xfrm functions run
          Events,    \* the events of each feature (IPsec apart)
          IPsecRets, \* return values of the xfrm functions
          MaxCalls,  \* bound: xfrm functions that run under one key
          MaxErrors, \* bound: failures of the system calls and of map creation
          MaxEvents, \* bound: events, for each feature
          MaxFetches \* bound: evictions, for each feature

ASSUME SecondaryAssumption ==
  /\ {NCPU, MaxCalls} \subseteq Nat \ {0}
  /\ IPsecRets \subseteq Int /\ MaxErrors \in Nat
  /\ DOMAIN FlowsOf = DOMAIN Events
  /\ {MaxEvents, MaxFetches} \subseteq [DOMAIN Events -> Nat]

CPU == 1..NCPU
Flow == UNION {FlowsOf[f] : f \in DOMAIN FlowsOf}

VARIABLES
  feature,     \* the feature that is enabled
  time,        \* number of events so far
  elem,        \* the map: the elements of each flow, at most one; a value per CPU
  hist,        \* history: the events counted in it
  cpu,         \* of each CPU: what its hook is doing
  counter,     \* global counter of the hook's failures, on each CPU
  failures,    \* history: how often it was increased, and how often between a read and a reset
  errors,      \* number of errors so far
  pc,          \* the fetcher: idle, drain, report, counters
  fetches,     \* number of evictions
  ids,         \* the keys it has listed and not yet drained
  flows,       \* the flows of this eviction
  got,         \* history: the events of the elements it got
  notReset,    \* history: failures that were read and not reset
  metric,      \* the metric they were added to
  xfrm,        \* of each task: the calls of xfrm functions it runs
  ipsecMap,    \* ipsec_egress_map: the flow stored for each task, as a set
  stale        \* history: tasks whose flow outlived its call

kernelVars == <<time, elem, hist, cpu, counter, failures, errors>>
fetchVars  == <<pc, fetches, ids, flows, got, notReset, metric>>
xfrmVars   == <<xfrm, ipsecMap, stale>>
vars == <<feature, kernelVars, fetchVars, xfrmVars>>

Idle == [step |-> "idle"]

Init ==
  /\ feature \in DOMAIN Events
  /\ time = 0
  /\ elem = [f \in Flow |-> {}] /\ hist = [f \in Flow |-> {}]
  /\ cpu = [c \in CPU |-> Idle]
  /\ counter = [c \in CPU |-> 0] /\ failures = [all |-> 0, between |-> 0] /\ errors = 0
  /\ pc = "idle" /\ fetches = 0 /\ ids = {} /\ flows = << >> /\ got = [f \in Flow |-> {}]
  /\ notReset = 0 /\ metric = 0
  /\ xfrm = [t \in Task |-> {}] /\ ipsecMap = [t \in Task |-> {}] /\ stale = {}
-----------------------------------------------------------------------------
(* A hook: lookup, then update or create; on EEXIST, lookup and update again *)

Hook(step, f, e, t) == [step |-> step, flow |-> f, event |-> e, time |-> t]

\* The first lookup of a hook, for an event at the next time.
Lookup(c, f, e) ==
  /\ cpu[c] = Idle /\ time < MaxEvents[feature]
  /\ time' = time + 1
  /\ cpu' = [cpu EXCEPT ![c] = Hook(IF elem[f] # {} THEN "update" ELSE "create", f, e, time')]
  /\ UNCHANGED <<elem, hist, counter, failures, errors>>

Written(h, v, t) ==
  /\ elem' = [elem EXCEPT ![h.flow] = {v}]
  /\ hist' = [hist EXCEPT ![h.flow] = @ \cup {[event |-> h.event, seen |-> h.time, time |-> t]}]

\* These hooks take the time before the lookup, the others when they update.
TimeFirst == {"dns", "quic", "xlat"}

\* The value of this CPU is updated in place.
UpdateElem(c) ==
  /\ cpu[c].step = "update"
  /\ LET h == cpu[c]
         t == IF feature \in TimeFirst THEN h.time ELSE time
     IN  \E vs \in elem[h.flow] : Written(h, [vs EXCEPT ![c] = Update(feature, @, h.event, t)], t)
  /\ cpu' = [cpu EXCEPT ![c] = Idle]
  /\ UNCHANGED <<feature, time, counter, failures, errors, fetchVars, xfrmVars>>

\* The element was deleted since the lookup: the update goes where nobody reads it.
UpdateDeleted(c) ==
  /\ cpu[c].step = "deleted"
  /\ cpu' = [cpu EXCEPT ![c] = Idle]
  /\ UNCHANGED <<feature, time, elem, hist, counter, failures, errors, fetchVars, xfrmVars>>

\* increase_counter of HASHMAP_FAIL_UPDATE_DNS, NETWORK_EVENTS_ERR_UPDATE_MAP_FLOWS; the
\* other hooks count no failures.
CountFailure(c) ==
  IF feature \in {"dns", "netev"}
    THEN /\ counter' = [counter EXCEPT ![c] = @ + 1]
         /\ failures' = [all |-> failures.all + 1,
                         between |-> failures.between + IF pc = "counters" THEN 1 ELSE 0]
    ELSE UNCHANGED <<counter, failures>>

\* BPF_NOEXIST
CanCreate(f) == elem[f] = {}

CreateElem(c) ==
  /\ cpu[c].step = "create"
  /\ LET h == cpu[c]
     IN  \/ /\ CanCreate(h.flow)
            /\ Written(h, [i \in CPU |-> IF i = c THEN NewValue(feature, h.event, h.time)
                                                  ELSE Zero(feature)], h.time)
            /\ cpu' = [cpu EXCEPT ![c] = Idle]
            /\ UNCHANGED <<counter, failures, errors>>
         \/ /\ ~CanCreate(h.flow)
            /\ cpu' = [cpu EXCEPT ![c].step = "again"]
            /\ UNCHANGED <<elem, hist, counter, failures, errors>>
         \/ /\ CanCreate(h.flow) /\ errors < MaxErrors    \* the map is full or busy
            /\ errors' = errors + 1
            /\ CountFailure(c)
            /\ cpu' = [cpu EXCEPT ![c] = Idle]
            /\ UNCHANGED <<elem, hist>>
  /\ UNCHANGED <<feature, time, fetchVars, xfrmVars>>

\* The second lookup: the element may have been deleted in between.
LookupAgain(c) ==
  /\ cpu[c].step = "again"
  /\ \/ /\ elem[cpu[c].flow] # {}
        /\ cpu' = [cpu EXCEPT ![c].step = "update"]
        /\ UNCHANGED <<counter, failures>>
     \/ /\ elem[cpu[c].flow] = {}
        /\ cpu' = [cpu EXCEPT ![c] = Idle]
        /\ CountFailure(c)
  /\ UNCHANGED <<feature, time, elem, hist, errors, fetchVars, xfrmVars>>

Event(c) ==
  /\ \E f \in FlowsOf[feature], e \in Events[feature] :
       /\ feature = "additional" => f.proto = "TCP"    \* calculate_flow_rtt_tcp
       /\ Lookup(c, f, e)
  /\ UNCHANGED <<feature, fetchVars, xfrmVars>>
-----------------------------------------------------------------------------
(* ipsec.h *)

\* ipsec_to_wire_flow_id
ipsec_to_wire_flow_id(f) ==
  IF f.proto \in {"ESP", "NATT"} THEN f ELSE [f EXCEPT !.proto = "ESP"]

\* A call is crossed if another one ran under the same pid_tgid at the same time (in an
\* interrupt, or on another idle CPU), or if it found the flow of an earlier call.
Call(n, wire, crossed) == [num |-> n, wire |-> wire, crossed |-> crossed]

\* enter_xfrm_func; the packet is skipped if the filter says so or the hooks are off, and
\* a flow that is stored stays.
enter_xfrm_func(t, f, skip) ==
  LET free == (1..MaxCalls) \ {call.num : call \in xfrm[t]}
      wire == ipsec_to_wire_flow_id(f)
  IN  /\ feature = "additional" /\ time < MaxEvents[feature]
      /\ free # {}
      /\ xfrm' = [xfrm EXCEPT ![t] = {[call EXCEPT !.crossed = TRUE] : call \in @}
                                       \cup {Call(Min(free), wire, @ # {} \/ t \in stale)}]
      /\ ipsecMap' = IF ~skip /\ ipsecMap[t] = {} THEN [ipsecMap EXCEPT ![t] = {wire}]
                                                  ELSE ipsecMap
      /\ UNCHANGED <<feature, kernelVars, fetchVars, stale>>

\* Mutant: the task keeps its entry.
Release_Keeps(t) == UNCHANGED <<ipsecMap, stale>>

Release(t) ==
  /\ ipsecMap' = [ipsecMap EXCEPT ![t] = {}]
  /\ stale' = stale \ {t}

IPsecEvent(call, ret) ==
  [kind |-> "ipsec", ret |-> ret, wire |-> call.wire, crossed |-> call.crossed]

\* update_flow_with_ipsec_return, on the CPU the task runs on, for the return of a call of
\* the task: it takes the flow that is stored.
xfrm_return(t, call, c, ret) ==
  /\ call \in xfrm[t]
  /\ xfrm' = [xfrm EXCEPT ![t] = @ \ {call}]
  /\ \/ /\ \E f \in ipsecMap[t] : Lookup(c, f, IPsecEvent(call, ret))
        /\ Release(t)
     \/ /\ ipsecMap[t] = {}
        /\ UNCHANGED <<kernelVars, ipsecMap, stale>>
  /\ UNCHANGED <<feature, fetchVars>>

\* The probe does not run for a return: the hooks are off, or the kernel has no more room
\* for return probes.
xfrm_return_missed(t, call) ==
  /\ call \in xfrm[t]
  /\ xfrm' = [xfrm EXCEPT ![t] = @ \ {call}]
  /\ stale' = IF ipsecMap[t] # {} THEN stale \cup {t} ELSE stale
  /\ UNCHANGED <<feature, kernelVars, fetchVars, ipsecMap>>

IPsec ==
  \E t \in Task :
    \/ \E f \in FlowsOf[feature], skip \in BOOLEAN : enter_xfrm_func(t, f, skip)
    \/ \E call \in xfrm[t] : \/ \E c \in CPU, ret \in IPsecRets : xfrm_return(t, call, c, ret)
                            \/ xfrm_return_missed(t, call)
-----------------------------------------------------------------------------
(* The fetcher *)

NewContent(packets, t) == [base |-> [start |-> t, end |-> t, packets |-> packets], ext |-> {}]

\* The main map was drained: some flows have packets.  The keys of the secondary map are
\* listed.
FetchList(main) ==
  /\ pc = "idle" /\ fetches < MaxFetches[feature]
  /\ fetches' = fetches + 1
  /\ pc' = "drain"
  /\ flows' = [f \in main |-> NewContent(1, 1)]
  /\ ids' = {f \in Flow : elem[f] # {}}
  /\ UNCHANGED <<feature, kernelVars, got, notReset, metric, xfrmVars>>

Merged(f, content) == [g \in DOMAIN flows \cup {f} |-> IF g = f THEN content ELSE flows[g]]

AfterFetch(f) == {}

\* lookupAndDeletePerCPUMap, one key.  A hook that holds a pointer to the element keeps it.
LookupAndDelete(f) ==
  /\ pc = "drain" /\ f \in ids
  /\ ids' = ids \ {f}
  /\ \E values \in elem[f] :
       flows' = Merged(f, AccumulateAll(feature,
                            IF f \in DOMAIN flows THEN flows[f] ELSE NewContent(0, 0), values))
  /\ got' = [got EXCEPT ![f] = hist[f]]
  /\ elem' = [elem EXCEPT ![f] = AfterFetch(f)]
  /\ hist' = [hist EXCEPT ![f] = {}]
  /\ cpu' = [c \in CPU |-> IF cpu[c].step = "update" /\ cpu[c].flow = f
                             THEN [cpu[c] EXCEPT !.step = "deleted"] ELSE cpu[c]]
  /\ UNCHANGED <<feature, time, counter, failures, errors, pc, fetches, notReset, metric, xfrmVars>>

\* An error is logged and counted; the element stays for the next eviction.
CannotDelete(f) ==
  /\ pc = "drain" /\ f \in ids
  /\ errors < MaxErrors
  /\ errors' = errors + 1
  /\ ids' = ids \ {f}
  /\ UNCHANGED <<feature, time, elem, hist, cpu, counter, failures,
                 pc, fetches, flows, got, notReset, metric, xfrmVars>>

\* mergeIPsecOrphans; the flows are complete.
FetchMerge ==
  /\ pc = "drain" /\ ids = {}
  /\ pc' = "report"
  /\ flows' = IF feature = "additional" THEN mergeIPsecOrphans(flows) ELSE flows
  /\ UNCHANGED <<feature, kernelVars, fetches, ids, got, notReset, metric, xfrmVars>>

\* The flows leave for the tracer.
Reported == flows' = << >> /\ got' = [f \in Flow |-> {}]

\* ReadGlobalCounter: the counters of all CPUs are read and added to the metric, ...
ReadGlobalCounter ==
  /\ pc = "report"
  /\ pc' = "counters"
  /\ Reported
  /\ metric' = metric + FoldFunction(+, 0, counter)
  /\ UNCHANGED <<feature, kernelVars, fetches, ids, notReset, xfrmVars>>

CannotRead ==
  /\ pc = "report" /\ errors < MaxErrors
  /\ errors' = errors + 1
  /\ pc' = "idle"
  /\ Reported
  /\ UNCHANGED <<feature, time, elem, hist, cpu, counter, failures,
                 fetches, ids, notReset, metric, xfrmVars>>

\* Mutant: the counters are not reset.
Zeroed_Not == counter

Zeroed == [c \in CPU |-> 0]

\* ... then reset, unless that fails.
ResetGlobalCounter ==
  /\ pc = "counters"
  /\ pc' = "idle"
  /\ counter' = Zeroed
  /\ UNCHANGED <<feature, time, elem, hist, cpu, failures, errors,
                 fetches, ids, flows, got, notReset, metric, xfrmVars>>

CannotReset ==
  /\ pc = "counters" /\ errors < MaxErrors
  /\ errors' = errors + 1
  /\ pc' = "idle"
  /\ notReset' = notReset + FoldFunction(+, 0, counter)
  /\ UNCHANGED <<feature, time, elem, hist, cpu, counter, failures,
                 fetches, ids, flows, got, metric, xfrmVars>>

Fetch ==
  \/ \E main \in SUBSET FlowsOf[feature] : FetchList(main)
  \/ \E f \in Flow : LookupAndDelete(f) \/ CannotDelete(f)
  \/ FetchMerge \/ ReadGlobalCounter \/ CannotRead \/ ResetGlobalCounter \/ CannotReset

Next ==
  \/ \E c \in CPU : Event(c) \/ UpdateElem(c) \/ UpdateDeleted(c) \/ CreateElem(c) \/ LookupAgain(c)
  \/ IPsec
  \/ Fetch

Spec == Init /\ [][Next]_vars
-----------------------------------------------------------------------------
(* Properties *)

SeenIn(f) == {x.event : x \in got[f]}
Least(a, b) == IF a < b THEN a ELSE b

\* The values of a flow, merged over the CPUs, are those of the events in the element that the
\* fetcher got; no interleaving of CPUs that create the same element loses or invents one,
\* and the zeros of an idle CPU hide none.
\*   - Drops: all packets and bytes, cut off at the largest uint16 (AccumulateDrops).
\*   - The largest round trip time; a flow reported as encrypted had a packet whose xfrm
\*     function succeeded, it or an orphan that was merged into it.
\*   - A DNS id and latency, the QUIC headers and a version, a translation that were seen.
\*   - Network events: if they fit the slots, with the bytes that may follow a short one,
\*     each of them, with at least one packet and at most as many as it had
\*     (AccumulateNetworkEvents).
MergedValuesSeen ==
  pc = "report" =>
    \A f \in DOMAIN flows : \A v \in flows[f].ext :
      LET seen == SeenIn(f)
      IN  CASE feature = "drops" ->
                 /\ v.packets = Least(MaxUint16, Cardinality(got[f]))
                 /\ v.bytes = Least(MaxUint16, MapThenSumSet(LAMBDA x : x.event.len, got[f]))
                 /\ v.cause \in {e.cause : e \in seen}
            [] feature = "additional" ->
                 /\ v.rtt = Max({0} \cup {e.rtt : e \in {d \in seen : d.kind = "rtt"}})
                 /\ v.enc => \E g \in Flow :
                      /\ {g.src, g.dst} = {f.src, f.dst}
                      /\ \E e \in SeenIn(g) : e.kind = "ipsec" /\ e.ret = 0
            [] feature = "dns" ->
                 /\ v.id \in {e.id : e \in seen} /\ (v.id = 0 => \A e \in seen : e.id = 0)
                 /\ v.latency \in {0} \cup {e.latency : e \in seen}
            [] feature = "quic" ->
                 /\ v.long = 1 <=> \E e \in seen : e.long
                 /\ v.short = 1 <=> \E e \in seen : ~e.long
                 /\ v.version \in {e.version : e \in seen} \cup {0}
                 /\ v.version = 0 => \A e \in seen : e.version = 0
            [] feature = "xlat" -> \E e \in seen : e.tuple = v.tuple
            [] feature = "netev" ->
                 LET cookies == {Cookie(e.md, tail) : e \in seen, tail \in {0} \cup {d.tail : d \in seen}}
                     slots == {i \in 1..MaxNetworkEvents : v.slots[i].packets # 0}
                     md(i) == v.slots[i].cookie.md
                 IN  Cardinality(cookies) <= MaxNetworkEvents =>
                       /\ {md(i) : i \in slots} = {e.md : e \in seen}
                       /\ \A i \in slots :
                            v.slots[i].packets <= Cardinality({x \in got[f] : x.event.md = md(i)})

\* The times of a flow that the main map did not have are times of its events
\* (buildBaseFromAdditional): the zero start of a CPU that did not create the element is
\* never taken.  They cover every event, if the hook takes the time when it updates.
TimesOfEvents ==
  pc = "report" =>
    \A f \in DOMAIN flows :
      LET b == flows[f].base
          times == {x.time : x \in got[f]}
      IN  b.packets = 0 =>
            /\ {b.start, b.end} \subseteq times /\ b.start <= b.end
            /\ feature \notin TimeFirst => \A t \in times : b.start <= t /\ t <= b.end

\* What the secondary map had is reported: with its own flow, or, for an IPsec orphan, with
\* a wire flow between the same two addresses (mergeIPsecOrphans).  An orphan is reported
\* on its own only if there is no such flow.
NothingLeftOut ==
  pc = "report" =>
    LET wire(f) == {g \in DOMAIN flows : /\ isIPsecWireFlow(g) /\ flows[g].base.packets # 0
                                         /\ {g.src, g.dst} = {f.src, f.dst}}
    IN  /\ \A f \in Flow : got[f] # {} =>
             \/ f \in DOMAIN flows /\ flows[f].ext # {}
             \/ \E g \in wire(f) : flows[g].ext # {}
        /\ feature = "additional" =>
             \A f \in DOMAIN flows : isIPsecOrphan(flows[f]) => wire(f) = {}

\* The result of an xfrm function is recorded for the packet that entered it: the flow that
\* the return probe takes is the one its own entry probe stored, whatever packets the filter
\* and the sampling skip.  It can be another one only for a call that another call under
\* the same pid_tgid crossed, or that found the flow of a call whose return was missed
\* (BPF_NOEXIST keeps it, ipsec.h:165); the first return that takes such a flow removes it.
ResultOfItsFlow ==
  feature = "additional" =>
    \A f \in Flow : \A x \in hist[f] :
      x.event.kind = "ipsec" /\ ~x.event.crossed => x.event.wire = f

\* The metric and the counters account for every failure of a hook once (ReadGlobalCounter).
\* Reading and resetting the counters is not atomic: only failures in between can be lost,
\* and only those whose reset failed can be reported again.
FailuresReportedOnce ==
  LET shown == metric + IF pc = "counters" THEN 0 ELSE FoldFunction(+, 0, counter)
  IN  failures.all - failures.between <= shown /\ shown <= failures.all + notReset
=============================================================================
