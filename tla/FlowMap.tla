------------------------------- MODULE FlowMap -------------------------------
(***************************************************************************)
(* The kernel hash map aggregated_flows, shared by the packet hooks        *)
(* (flow_monitor in bpf/flows/flows.c, running on every CPU at once) and   *)
(* by the user-space eviction (Fetcher.LookupAndDeleteMap in               *)
(* pkg/tracer/flows/fetcher.go, with its legacy variant in legacy.go).     *)
(*                                                                         *)
(* An observation is one packet of one flow seen by the hook of one        *)
(* interface.  The packets and bytes counters of a map element are         *)
(* abstracted to the sets of observations they have counted, so that a     *)
(* lost or a repeated count is visible.  A hook invocation is identified   *)
(* with the observation it handles; at most NCPU of them run at once.      *)
(*                                                                         *)
(* Packets that flow_monitor drops before the map lookup (sampling, filter *)
(* rules, unparsable headers) are observations that never arrive.          *)
(***************************************************************************)
EXTENDS Naturals, FiniteSets

CONSTANTS Obs,            \* the observations: records with flow, intf and pkt
          NCPU,           \* hook invocations that can be in progress at once
          CacheMaxFlows,  \* CACHE_MAX_FLOWS, max_entries of aggregated_flows
          EnableRingbuf,  \* enable_directflows_ringbuf
          RingbufSize,    \* records that direct_flows can hold
          AtomicDelete,   \* the kernel has BPF_MAP_LOOKUP_AND_DELETE_ELEM for hash maps
          MaxErrors       \* bound: map operations that fail in a behaviour

Flow == {o.flow : o \in Obs}
Intf == {o.intf : o \in Obs}

ASSUME BoundsAssumption ==
  /\ {NCPU, CacheMaxFlows, RingbufSize, MaxErrors} \subseteq Nat
  /\ {EnableRingbuf, AtomicDelete} \subseteq BOOLEAN

Entry == [first : Intf, packets : SUBSET Obs, bytes : SUBSET Obs]

\* The value of a flow that has no element in the map (or in the batch).
NoEntry == [first |-> CHOOSE i \in Intf : TRUE, packets |-> {}, bytes |-> {}]

VARIABLES
  present,    \* keys of aggregated_flows
  entry,      \* the value of each key; NoEntry for the absent ones
  pc,         \* where the hook invocation of each observation stands
  linked,     \* the element the invocation looked up is still in the map
  ringbuf,    \* single-packet flows waiting in direct_flows
  failed,     \* observations counted in a HASHMAP_FAIL_* global counter
  errors,     \* map operations that failed so far
  supported,  \* Fetcher.lookupAndDeleteSupported
  epc,        \* where the eviction stands
  ids,        \* keys read by the iteration, still to be looked up and deleted
  cursor,     \* the key a lookup has read, with its value as far as it was copied
  visits,     \* legacy iteration: MapIterator.count
  batch,      \* the flows map the eviction is filling
  reported,   \* how often each observation was counted in what left the map
  raced       \* history: observations written while their element was being copied

kernelVars == <<present, entry, pc, linked, ringbuf, failed>>
evictVars  == <<supported, epc, ids, cursor, visits, batch, reported>>
vars == <<kernelVars, errors, evictVars, raced>>

KernelPC == {"new", "lookup", "insert", "relookup", "update", "updating",
             "fallback", "done"}
EvictPC  == {"idle", "iterate", "delete", "copy", "unlink", "legacy", "legacyCopy",
             "legacyDelete", "deliver"}

Init ==
  /\ present = {}
  /\ entry = [f \in Flow |-> NoEntry]
  /\ pc = [o \in Obs |-> "new"]
  /\ linked = [o \in Obs |-> FALSE]
  /\ ringbuf = {}
  /\ failed = {}
  /\ errors = 0
  /\ supported = TRUE
  /\ epc = "idle"
  /\ ids = {}
  /\ cursor = {}
  /\ visits = 0
  /\ batch = [f \in Flow |-> NoEntry]
  /\ reported = [o \in Obs |-> 0]
  /\ raced = {}
-----------------------------------------------------------------------------
(* flow_monitor, one invocation per observation. *)

Goto(o, label) == pc' = [pc EXCEPT ![o] = label]

Running == {o \in Obs : pc[o] \notin {"new", "done"}}

\* The packet reaches the hook and passes the sampling and filter checks.
Receive(o) ==
  /\ pc[o] = "new"
  /\ Cardinality(Running) < NCPU
  /\ Goto(o, "lookup")
  /\ UNCHANGED <<present, entry, linked, ringbuf, failed, errors, evictVars, raced>>

\* bpf_map_lookup_elem; a hit returns a pointer into the element.
LookupElem(o) ==
  /\ pc[o] = "lookup"
  /\ IF o.flow \in present
       THEN Goto(o, "update") /\ linked' = [linked EXCEPT ![o] = TRUE]
       ELSE Goto(o, "insert") /\ UNCHANGED linked
  /\ UNCHANGED <<present, entry, ringbuf, failed, errors, evictVars, raced>>

InsertOK_BPF_ANY(o) ==
  /\ pc[o] = "insert"
  /\ o.flow \in present \/ Cardinality(present) < CacheMaxFlows
  /\ present' = present \cup {o.flow}
  /\ entry' = [entry EXCEPT ![o.flow] =
                 [first |-> o.intf, packets |-> {o}, bytes |-> {o}]]
  /\ Goto(o, "done")
  /\ UNCHANGED <<linked, ringbuf, failed, errors, evictVars, raced>>

\* bpf_map_update_elem with BPF_NOEXIST: the new element counts the packet.
InsertOK(o) ==
  /\ pc[o] = "insert"
  /\ o.flow \notin present
  /\ Cardinality(present) < CacheMaxFlows
  /\ present' = present \cup {o.flow}
  /\ entry' = [entry EXCEPT ![o.flow] =
                 [first |-> o.intf, packets |-> {o}, bytes |-> {o}]]
  /\ Goto(o, "done")
  /\ UNCHANGED <<linked, ringbuf, failed, errors, evictVars, raced>>

\* -EEXIST: another CPU created the element since the lookup.
InsertExists(o) ==
  /\ pc[o] = "insert"
  /\ o.flow \in present
  /\ Goto(o, "relookup")
  /\ UNCHANGED <<present, entry, linked, ringbuf, failed, errors, evictVars, raced>>

\* -E2BIG when the map is full.
InsertFull(o) ==
  /\ pc[o] = "insert"
  /\ o.flow \notin present
  /\ Cardinality(present) >= CacheMaxFlows
  /\ Goto(o, "fallback")
  /\ UNCHANGED <<present, entry, linked, ringbuf, failed, errors, evictVars, raced>>

\* -EBUSY, whatever the map holds.
InsertBusy(o) ==
  /\ pc[o] = "insert"
  /\ errors < MaxErrors
  /\ errors' = errors + 1
  /\ Goto(o, "fallback")
  /\ UNCHANGED <<present, entry, linked, ringbuf, failed, evictVars, raced>>

\* Mutant of Relookup: the failure is counted even when the element is found.
Relookup_CountsFailure(o) ==
  /\ pc[o] = "relookup"
  /\ failed' = failed \cup {o}
  /\ IF o.flow \in present
       THEN Goto(o, "update") /\ linked' = [linked EXCEPT ![o] = TRUE]
       ELSE Goto(o, "done") /\ UNCHANGED linked
  /\ UNCHANGED <<present, entry, ringbuf, errors, evictVars, raced>>

\* The second lookup, after -EEXIST.  The eviction may have deleted the element.
Relookup(o) ==
  /\ pc[o] = "relookup"
  /\ IF o.flow \in present
       THEN /\ Goto(o, "update")
            /\ linked' = [linked EXCEPT ![o] = TRUE]
            /\ UNCHANGED failed
       ELSE /\ Goto(o, "done")
            /\ failed' = failed \cup {o}    \* HASHMAP_FAIL_UPDATE_FLOW
            /\ UNCHANGED linked
  /\ UNCHANGED <<present, entry, ringbuf, errors, evictVars, raced>>

\* The single-packet flow goes to the ring buffer, is dropped when the buffer
\* has no room, or is counted in HASHMAP_FAIL_CREATE_FLOW.
Fallback(o) ==
  /\ pc[o] = "fallback"
  /\ Goto(o, "done")
  /\ \/ /\ EnableRingbuf
        /\ Cardinality(ringbuf) < RingbufSize
        /\ ringbuf' = ringbuf \cup {o}
        /\ UNCHANGED failed
     \/ /\ EnableRingbuf
        /\ Cardinality(ringbuf) >= RingbufSize
        /\ UNCHANGED <<ringbuf, failed>>
     \/ /\ ~EnableRingbuf
        /\ failed' = failed \cup {o}
        /\ UNCHANGED ringbuf
  /\ UNCHANGED <<present, entry, linked, errors, evictVars, raced>>

\* The invocation is between bpf_spin_lock and bpf_spin_unlock of an element of the map.
Writing(o) == pc[o] = "updating" /\ linked[o]

\* The spin lock of an element is held by the invocation that is updating it.
Locked(f) == \E o \in Obs : o.flow = f /\ Writing(o)

\* A lookup is copying the element of f, or is about to unlink what it has copied.
UnderCopy(f) == epc \in {"copy", "unlink", "legacyCopy"} /\ \E c \in cursor : c.flow = f

CountPacket(e, o) == [e EXCEPT !.packets = @ \cup {o}]
CountBytes(e, o)  == [e EXCEPT !.bytes = @ \cup {o}]

\* Mutants of UpdateLock: the lock is not taken, so that packets + 1 is computed from what
\* the other invocations had not yet written; packets of every interface are counted.
UpdateLock_NoLock(o) ==
  /\ pc[o] = "update"
  /\ IF linked[o] /\ entry[o.flow].first = o.intf
       THEN entry' = [entry EXCEPT ![o.flow].packets =
                        (@ \ {p \in Obs : Writing(p)}) \cup {o}]
       ELSE UNCHANGED entry
  /\ raced' = raced \cup (IF linked[o] /\ UnderCopy(o.flow) THEN {o} ELSE {})
  /\ Goto(o, "updating")
  /\ UNCHANGED <<present, linked, ringbuf, failed, errors, evictVars>>

UpdateLock_AnyInterface(o) ==
  /\ pc[o] = "update"
  /\ linked[o] => ~Locked(o.flow)
  /\ IF linked[o]
       THEN entry' = [entry EXCEPT ![o.flow] = CountPacket(@, o)]
       ELSE UNCHANGED entry
  /\ raced' = raced \cup (IF linked[o] /\ UnderCopy(o.flow) THEN {o} ELSE {})
  /\ Goto(o, "updating")
  /\ UNCHANGED <<present, linked, ringbuf, failed, errors, evictVars>>

\* update_existing_flow: take the lock and start writing the counters.  Only
\* packets of the interface that created the element are counted; an unlinked
\* element is memory that nobody will read.
UpdateLock(o) ==
  /\ pc[o] = "update"
  /\ linked[o] => ~Locked(o.flow)
  /\ IF linked[o] /\ entry[o.flow].first = o.intf
       THEN entry' = [entry EXCEPT ![o.flow] = CountPacket(@, o)]
       ELSE UNCHANGED entry
  /\ raced' = raced \cup (IF linked[o] /\ UnderCopy(o.flow) THEN {o} ELSE {})
  /\ Goto(o, "updating")
  /\ UNCHANGED <<present, linked, ringbuf, failed, errors, evictVars>>

UpdateUnlock(o) ==
  /\ pc[o] = "updating"
  /\ IF linked[o] /\ entry[o.flow].first = o.intf
       THEN entry' = [entry EXCEPT ![o.flow] = CountBytes(@, o)]
       ELSE UNCHANGED entry
  /\ linked' = [linked EXCEPT ![o] = FALSE]
  /\ Goto(o, "done")
  /\ UNCHANGED <<present, ringbuf, failed, errors, evictVars, raced>>

FlowMonitor(o) ==
  \/ Receive(o) \/ LookupElem(o) \/ InsertOK(o) \/ InsertExists(o)
  \/ InsertFull(o) \/ InsertBusy(o) \/ Relookup(o) \/ Fallback(o)
  \/ UpdateLock(o) \/ UpdateUnlock(o)
-----------------------------------------------------------------------------
(* LookupAndDeleteMap, run by the map tracer once per eviction. *)

\* Unlinks the element of f: invocations holding a pointer to it keep writing
\* to memory that is no longer in the map.
Unlink(f) ==
  /\ present' = present \ {f}
  /\ entry' = [entry EXCEPT ![f] = NoEntry]
  /\ linked' = [o \in Obs |-> linked[o] /\ o.flow # f]

\* An eviction starts; the iteration will see at least the keys present now.
EvictStart ==
  /\ epc = "idle"
  /\ IF supported
       THEN epc' = "iterate" /\ ids' = present
       ELSE epc' = "legacy" /\ UNCHANGED ids
  /\ UNCHANGED <<kernelVars, errors, supported, cursor, visits, batch, reported, raced>>

\* The iteration ends; it may or may not have seen keys inserted meanwhile.
IterateDone ==
  /\ epc = "iterate"
  /\ ids' \in {S \in SUBSET present : ids \subseteq S}
  /\ epc' = "delete"
  /\ UNCHANGED <<kernelVars, errors, supported, cursor, visits, batch, reported, raced>>

\* The kernel copies the value without the element's lock, and hooks of other CPUs, or of
\* softirqs that interrupt it, can run between the copies of two fields.  The copy goes
\* up or down the value, so that bytes or packets may come first.
CopyFirst(f) ==
  /\ \E half \in {"packets", "bytes"} :
       cursor' = {[flow |-> f, rest |-> half,
                   value |-> IF half = "packets" THEN [entry[f] EXCEPT !.packets = {}]
                                                 ELSE [entry[f] EXCEPT !.bytes = {}]]}
  /\ raced' = raced \cup {o \in Obs : o.flow = f /\ Writing(o)}

CopyRest ==
  cursor' = {[flow |-> c.flow, rest |-> "none",
              value |-> IF c.rest = "packets"
                          THEN [c.value EXCEPT !.packets = entry[c.flow].packets]
                          ELSE [c.value EXCEPT !.bytes = entry[c.flow].bytes]] : c \in cursor}

\* LookupAndDelete of one id, a single system call: it holds the lock of the bucket, not
\* the one of the element, and copies the value before it unlinks the element.
LookupAndDelete(f) ==
  /\ epc = "delete" /\ AtomicDelete
  /\ f \in ids /\ f \in present
  /\ CopyFirst(f)
  /\ epc' = "copy"
  /\ UNCHANGED <<kernelVars, errors, supported, ids, visits, batch, reported>>

LookupCopied ==
  /\ epc = "copy"
  /\ CopyRest
  /\ epc' = "unlink"
  /\ UNCHANGED <<kernelVars, errors, supported, ids, visits, batch, reported, raced>>

\* The value read goes to the batch, replacing what the same key left there.
Record(c) == batch' = [batch EXCEPT ![c.flow] = c.value]

\* Mutant of UnlinkCopied: the element is left in the map.
UnlinkCopied_KeepsElement ==
  /\ epc = "unlink"
  /\ \E c \in cursor : Record(c) /\ ids' = ids \ {c.flow}
  /\ cursor' = {}
  /\ epc' = "delete"
  /\ UNCHANGED <<kernelVars, errors, supported, visits, reported, raced>>

UnlinkCopied ==
  /\ epc = "unlink"
  /\ \E c \in cursor : Unlink(c.flow) /\ Record(c) /\ ids' = ids \ {c.flow}
  /\ cursor' = {}
  /\ epc' = "delete"
  /\ UNCHANGED <<pc, ringbuf, failed, errors, supported, visits, reported, raced>>

\* LookupAndDelete fails: the id is skipped and stays in the map.
LookupAndDeleteFails(f) ==
  /\ epc = "delete" /\ AtomicDelete
  /\ f \in ids
  /\ errors < MaxErrors
  /\ errors' = errors + 1
  /\ ids' = ids \ {f}
  /\ UNCHANGED <<kernelVars, supported, epc, cursor, visits, batch, reported, raced>>

\* The first id answers ErrNotSupported: switch to legacy mode for good.
SwitchToLegacy ==
  /\ epc = "delete" /\ ~AtomicDelete
  /\ ids # {}
  /\ supported' = FALSE
  /\ ids' = {}
  /\ epc' = "legacy"
  /\ UNCHANGED <<kernelVars, errors, cursor, visits, batch, reported, raced>>

DeletesDone ==
  /\ epc = "delete"
  /\ ids = {}
  /\ epc' = "deliver"
  /\ UNCHANGED <<kernelVars, errors, supported, ids, cursor, visits, batch, reported, raced>>

\* MapIterator.Next: when the previous key was deleted the kernel restarts from
\* the first bucket and any present key may come next, again and again, until
\* more than CacheMaxFlows keys were visited.  A key whose delete failed is
\* still the cursor, and the keys of later buckets follow it.
LegacyNext(f) ==
  /\ epc = "legacy"
  /\ f \in present
  /\ \A c \in cursor : c.flow # f
  /\ visits <= CacheMaxFlows
  /\ visits' = visits + 1
  /\ CopyFirst(f)
  /\ epc' = "legacyCopy"
  /\ UNCHANGED <<kernelVars, errors, supported, ids, batch, reported>>

LegacyCopied ==
  /\ epc = "legacyCopy"
  /\ CopyRest
  /\ epc' = "legacyDelete"
  /\ UNCHANGED <<kernelVars, errors, supported, ids, visits, batch, reported, raced>>

\* Mutant of LegacyDelete: the element is recorded and never deleted.
LegacyDelete_KeepsElement ==
  /\ epc = "legacyDelete"
  /\ \E c \in cursor : Record(c)
  /\ epc' = "legacy"
  /\ UNCHANGED <<kernelVars, errors, supported, ids, cursor, visits, reported, raced>>

LegacyDelete ==
  /\ epc = "legacyDelete"
  /\ \E c \in cursor : Unlink(c.flow) /\ Record(c)
  /\ cursor' = {}
  /\ epc' = "legacy"
  /\ UNCHANGED <<pc, ringbuf, failed, errors, supported, ids, visits, reported, raced>>

\* The delete fails: the error is logged and the value recorded all the same.
LegacyDeleteFails ==
  /\ epc = "legacyDelete"
  /\ errors < MaxErrors
  /\ errors' = errors + 1
  /\ \E c \in cursor : Record(c)
  /\ epc' = "legacy"
  /\ UNCHANGED <<kernelVars, supported, ids, cursor, visits, reported, raced>>

LegacyDone ==
  /\ epc = "legacy"
  /\ present = {} \/ visits > CacheMaxFlows \/ cursor # {}
  /\ visits' = 0
  /\ cursor' = {}
  /\ epc' = "deliver"
  /\ UNCHANGED <<kernelVars, errors, supported, ids, batch, reported, raced>>

\* Mutant of Deliver: the batch is discarded.
Deliver_DropsBatch ==
  /\ epc = "deliver"
  /\ batch' = [f \in Flow |-> NoEntry]
  /\ epc' = "idle"
  /\ UNCHANGED <<kernelVars, errors, supported, ids, cursor, visits, reported, raced>>

\* The batch is returned to the map tracer, which turns it into records.
Deliver ==
  /\ epc = "deliver"
  /\ reported' = [o \in Obs |-> IF o \in batch[o.flow].packets
                                  THEN reported[o] + 1 ELSE reported[o]]
  /\ batch' = [f \in Flow |-> NoEntry]
  /\ epc' = "idle"
  /\ UNCHANGED <<kernelVars, errors, supported, ids, cursor, visits, raced>>

Evict ==
  \/ EvictStart \/ IterateDone \/ SwitchToLegacy \/ DeletesDone
  \/ LookupCopied \/ UnlinkCopied \/ LegacyCopied
  \/ LegacyDelete \/ LegacyDeleteFails \/ LegacyDone \/ Deliver
  \/ \E f \in Flow : LookupAndDelete(f) \/ LookupAndDeleteFails(f) \/ LegacyNext(f)

\* ReadRingBuf: the ring-buffer tracer takes a single-packet flow.
ReadRingBuf(o) ==
  /\ o \in ringbuf
  /\ ringbuf' = ringbuf \ {o}
  /\ reported' = [reported EXCEPT ![o] = @ + 1]
  /\ UNCHANGED <<present, entry, pc, linked, failed, errors, supported, epc, ids,
                 cursor, visits, batch, raced>>

Next ==
  \/ \E o \in Obs : FlowMonitor(o) \/ ReadRingBuf(o)
  \/ Evict

\* The hooks are run by the kernel to completion, the map tracer's ticker keeps
\* evicting, and the ring-buffer tracer keeps reading.
Fairness ==
  /\ WF_vars(Evict)
  /\ \A o \in Obs : WF_vars(ReadRingBuf(o))
  /\ \A o \in Obs : WF_vars(FlowMonitor(o) /\ pc[o] # "new")

Spec == Init /\ [][Next]_vars
FairSpec == Spec /\ Fairness
-----------------------------------------------------------------------------
(* Properties *)

Mapped(o)  == o \in entry[o.flow].packets
Batched(o) == o \in batch[o.flow].packets
Queued(o)  == o \in ringbuf
Counted(o) == Mapped(o) \/ Batched(o) \/ Queued(o) \/ reported[o] > 0

\* The types of the variables.
TypeOK ==
  /\ present \subseteq Flow
  /\ entry \in [Flow -> Entry]
  /\ pc \in [Obs -> KernelPC]
  /\ linked \in [Obs -> BOOLEAN]
  /\ ringbuf \subseteq Obs
  /\ failed \subseteq Obs
  /\ errors \in 0..MaxErrors
  /\ supported \in BOOLEAN
  /\ epc \in EvictPC
  /\ ids \subseteq Flow
  /\ cursor \subseteq [flow : Flow, value : Entry, rest : {"packets", "bytes", "none"}]
  /\ visits \in Nat
  /\ batch \in [Flow -> Entry]
  /\ reported \in [Obs -> Nat]
  /\ raced \subseteq Obs

\* No observation is counted twice: it is in at most one of the map, the batch
\* of the running eviction, the ring buffer and what was handed over, and was
\* handed over at most once (lookup-and-delete, BPF_NOEXIST, EEXIST retry).
NoDoubleCount ==
  \A o \in Obs :
    /\ reported[o] <= 1
    /\ reported[o] = 1 => ~Mapped(o) /\ ~Batched(o) /\ ~Queued(o)
    /\ ~(Mapped(o) /\ Batched(o))
    /\ ~(Queued(o) /\ (Mapped(o) \/ Batched(o)))

\* In legacy mode the value read is recorded even when its delete fails, so the
\* element is read again; as long as no map operation failed nothing is counted
\* twice, in either mode.
DoubleCountNeedsError == errors = 0 => NoDoubleCount

\* A count is never lost once made, except one that was written while its element was being
\* copied to be deleted: an eviction moves every packet counted before its copy into the
\* batch, and every packet after it goes into a fresh element (fetcher.go, "the atomic
\* Lookup+Delete", which is not atomic for the hooks that hold a pointer to the element).
CountedStaysCounted == [][\A o \in Obs \ raced : Counted(o) => Counted(o)']_vars

\* A packet that a HASHMAP_FAIL_* counter reports as dropped is in no flow: the
\* counters are raised only on the paths of flow_monitor that count nothing.
FailedNotCounted == \A o \in failed : ~Counted(o)

\* Every element and every evicted record counts the packets of a single
\* interface, the one that created the element ("Count only packets seen from
\* the same interface as previously to avoid duplicate counts", flows.c).
RecordOneInterface ==
  \A f \in Flow : \A e \in {entry[f], batch[f]} :
    \A o \in e.packets \cup e.bytes : o.flow = f /\ o.intf = e.first

\* The packets and the bytes of a record differ only by packets whose hooks held the lock of
\* the element at some time during its copy: hooks before and after the copy leave both
\* counters in step, because the lock makes them write one after the other.
Torn(e) == (e.packets \ e.bytes) \cup (e.bytes \ e.packets)

TornOnlyByRacing == \A f \in Flow : Torn(batch[f]) \subseteq raced

\* A packet counted in the map is eventually handed over to the pipeline, unless it was
\* counted while the element was being copied.
MappedEventuallyReported ==
  \A o \in Obs : Mapped(o) ~> (reported[o] > 0 \/ o \in raced)
=============================================================================
