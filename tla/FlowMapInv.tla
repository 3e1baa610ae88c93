---------------------------- MODULE FlowMapInv -------------------------------
(* The inductive invariant of FlowMap, for every set of observations and every bound. *)
EXTENDS FlowMap, TLAPS

\* The time a leaf may take.
USE SMTT(40)

\* Where the eviction may have left something in the batch: nothing before the
\* deletes start, nothing for an id that is still to be deleted, and never a
\* value of the legacy path when the kernel has the atomic operation.
BatchInv ==
  /\ epc \in {"idle", "iterate"} => \A f \in Flow : batch[f] = NoEntry
  /\ epc \in {"delete", "copy", "unlink"} => \A f \in ids : batch[f] = NoEntry
  /\ AtomicDelete => supported /\ epc \notin {"legacy", "legacyCopy", "legacyDelete"}

\* A hook that has not reached its count has counted nothing anywhere.
PendingInv ==
  \A o \in Obs :
    pc[o] \in {"new", "lookup", "insert", "relookup", "update", "fallback"}
      => ~Counted(o)

\* Absent keys have no value, and a pointer into the map is to a present key.
AbsentInv ==
  /\ \A f \in Flow \ present : entry[f] = NoEntry
  /\ \A o \in Obs : linked[o] => o.flow \in present

FailedInv == \A o \in failed : pc[o] = "done" /\ ~Counted(o)

BInv == TypeOK /\ BatchInv /\ PendingInv /\ AbsentInv /\ FailedInv
          /\ RecordOneInterface /\ NoDoubleCount

\* What a lookup has copied is of an element still in the map, which only grows meanwhile.
CopyOf(c) ==
  /\ c.flow \in ids \cap present
  /\ c.value.first = entry[c.flow].first
  /\ c.value.packets \subseteq entry[c.flow].packets
  /\ c.value.bytes \subseteq entry[c.flow].bytes

\* The hooks that write the element during the copy have raced it, and a counter that was
\* copied lacks only what they wrote.
RacedBy(c) ==
  /\ \A o \in Obs : o.flow = c.flow /\ Writing(o) => o \in raced
  /\ c.rest # "packets" => entry[c.flow].packets \subseteq c.value.packets \cup raced
  /\ c.rest # "bytes" => entry[c.flow].bytes \subseteq c.value.bytes \cup raced

CopyInv ==
  /\ epc \notin {"copy", "unlink"} => cursor = {}
  /\ \A c \in cursor : CopyOf(c) /\ RacedBy(c)
  /\ epc = "unlink" => \A c \in cursor : c.rest = "none"

\* The inductive invariant behind NoDoubleCount and CountedStaysCounted.
IInv == BInv /\ CopyInv

\* The flow and the interface of an observation are in the sets of flows and interfaces.
LEMMA FlowType == \A o \in Obs : o.flow \in Flow /\ o.intf \in Intf
  BY DEF Flow, Intf

\* NoEntry, which stands for no element, has the type of an element and has counted nothing.
LEMMA NoEntryType ==
  /\ Obs # {} => NoEntry \in Entry
  /\ Flow # {} => Obs # {}
  /\ NoEntry.packets = {}
  /\ NoEntry.bytes = {}
  BY DEF NoEntry, Entry, Intf, Flow

\* Counting a packet (the packets field of update_existing_flow) adds it to one counter only.
LEMMA CountPacketEntry ==
  ASSUME NEW e \in Entry, NEW o \in Obs
  PROVE  /\ CountPacket(e, o) \in Entry
         /\ CountPacket(e, o).first = e.first
         /\ CountPacket(e, o).packets = e.packets \cup {o}
         /\ CountPacket(e, o).bytes = e.bytes
  BY DEF CountPacket, Entry

\* Counting its bytes adds it to the other counter only.
LEMMA CountBytesEntry ==
  ASSUME NEW e \in Entry, NEW o \in Obs
  PROVE  /\ CountBytes(e, o) \in Entry
         /\ CountBytes(e, o).first = e.first
         /\ CountBytes(e, o).packets = e.packets
         /\ CountBytes(e, o).bytes = e.bytes \cup {o}
  BY DEF CountBytes, Entry
-----------------------------------------------------------------------------
\* The variables have their types before the first packet.
LEMMA TypeInit == Init => TypeOK
  BY NoEntryType, BoundsAssumption DEF Init, TypeOK, KernelPC, EvictPC

\* The first step of a copy takes a value of the map with one of the counters left out.
LEMMA CopyFirstType ==
  ASSUME TypeOK, NEW f \in Flow, CopyFirst(f)
  PROVE  /\ cursor' \subseteq [flow : Flow, value : Entry, rest : {"packets", "bytes", "none"}]
         /\ raced' \subseteq Obs
<1>1. [entry[f] EXCEPT !.packets = {}] \in Entry /\ [entry[f] EXCEPT !.bytes = {}] \in Entry
  BY DEF TypeOK, Entry
<1> QED
  BY <1>1 DEF CopyFirst, TypeOK

\* The second one adds the counter that was left out.
LEMMA CopyRestType ==
  ASSUME TypeOK, CopyRest
  PROVE  cursor' \subseteq [flow : Flow, value : Entry, rest : {"packets", "bytes", "none"}]
<1>1. ASSUME NEW c \in cursor
      PROVE  /\ c.flow \in Flow
             /\ [c.value EXCEPT !.packets = entry[c.flow].packets] \in Entry
             /\ [c.value EXCEPT !.bytes = entry[c.flow].bytes] \in Entry
  BY DEF TypeOK, Entry
<1>2. ASSUME NEW d \in cursor'
      PROVE  d \in [flow : Flow, value : Entry, rest : {"packets", "bytes", "none"}]
  <2>1. PICK c \in cursor :
          d = [flow |-> c.flow, rest |-> "none",
               value |-> IF c.rest = "packets"
                           THEN [c.value EXCEPT !.packets = entry[c.flow].packets]
                           ELSE [c.value EXCEPT !.bytes = entry[c.flow].bytes]]
    BY <1>2 DEF CopyRest
  <2> DEFINE v == IF c.rest = "packets"
                    THEN [c.value EXCEPT !.packets = entry[c.flow].packets]
                    ELSE [c.value EXCEPT !.bytes = entry[c.flow].bytes]
  <2>2. v \in Entry /\ c.flow \in Flow
    BY <1>1
  <2>3. d = [flow |-> c.flow, rest |-> "none", value |-> v]
    BY <2>1
  <2> HIDE DEF v
  <2> QED
    BY <2>2, <2>3
<1> QED
  BY <1>2

\* Type correctness, in both eviction modes.
THEOREM TypeCorrect == Spec => []TypeOK
<1>1. Init => TypeOK
  BY TypeInit
<1>2. TypeOK /\ [Next]_vars => TypeOK'
  <2> SUFFICES ASSUME TypeOK, [Next]_vars PROVE TypeOK'
    OBVIOUS
  <2> USE BoundsAssumption, FlowType DEF TypeOK, KernelPC, EvictPC, kernelVars, evictVars
  <2>1. ASSUME NEW o \in Obs, Receive(o) PROVE TypeOK'
    BY <2>1 DEF Receive, Goto
  <2>2. ASSUME NEW o \in Obs, LookupElem(o) PROVE TypeOK'
    BY <2>2, Zenon DEF LookupElem, Goto
  <2>3. ASSUME NEW o \in Obs, InsertExists(o) PROVE TypeOK'
    BY <2>3 DEF InsertExists, Goto
  <2>4. ASSUME NEW o \in Obs, InsertFull(o) PROVE TypeOK'
    BY <2>4 DEF InsertFull, Goto
  <2>5. ASSUME NEW o \in Obs, InsertBusy(o) PROVE TypeOK'
    BY <2>5 DEF InsertBusy, Goto
  <2>6. ASSUME NEW o \in Obs, Relookup(o) PROVE TypeOK'
    BY <2>6, Zenon DEF Relookup, Goto
  <2>7. ASSUME NEW o \in Obs, Fallback(o) PROVE TypeOK'
    BY <2>7 DEF Fallback, Goto
  <2>8. ASSUME NEW o \in Obs, InsertOK(o) PROVE TypeOK'
    BY <2>8 DEF InsertOK, Goto, Entry
  <2>9. ASSUME NEW o \in Obs, UpdateLock(o) PROVE TypeOK'
    <3>1. CountPacket(entry[o.flow], o) \in Entry
      BY CountPacketEntry
    <3> QED
      BY <2>9, <3>1 DEF UpdateLock, Goto
  <2>10. ASSUME NEW o \in Obs, UpdateUnlock(o) PROVE TypeOK'
    <3>1. CountBytes(entry[o.flow], o) \in Entry
      BY CountBytesEntry
    <3> QED
      BY <2>10, <3>1 DEF UpdateUnlock, Goto
  <2>11. ASSUME NEW o \in Obs, ReadRingBuf(o) PROVE TypeOK'
    BY <2>11 DEF ReadRingBuf
  <2>12. CASE EvictStart
    BY <2>12, NoEntryType DEF EvictStart
  <2>13. CASE IterateDone
    BY <2>13, NoEntryType DEF IterateDone
  <2>14. CASE SwitchToLegacy
    BY <2>14, NoEntryType, Zenon DEF SwitchToLegacy
  <2>15. CASE DeletesDone
    BY <2>15, NoEntryType DEF DeletesDone
  <2>16. CASE LegacyDelete
    BY <2>16, NoEntryType DEF LegacyDelete, Unlink, Record
  <2>17. CASE LegacyDeleteFails
    BY <2>17, NoEntryType DEF LegacyDeleteFails, Record
  <2>18. CASE LegacyDone
    BY <2>18, NoEntryType DEF LegacyDone
  <2>19. CASE Deliver
    BY <2>19, NoEntryType DEF Deliver
  <2>20. ASSUME NEW f \in Flow, LookupAndDelete(f) PROVE TypeOK'
    BY <2>20, CopyFirstType DEF LookupAndDelete
  <2>21. ASSUME NEW f \in Flow, LookupAndDeleteFails(f) PROVE TypeOK'
    BY <2>21, NoEntryType DEF LookupAndDeleteFails
  <2>22. ASSUME NEW f \in Flow, LegacyNext(f) PROVE TypeOK'
    BY <2>22, CopyFirstType DEF LegacyNext
  <2>23. CASE UNCHANGED vars
    BY <2>23 DEF vars
  <2>24. CASE LookupCopied
    BY <2>24, CopyRestType DEF LookupCopied
  <2>25. CASE LegacyCopied
    BY <2>25, CopyRestType DEF LegacyCopied
  <2>26. CASE UnlinkCopied
    BY <2>26, NoEntryType DEF UnlinkCopied, Unlink, Record
  <2> QED
    BY Zenon, <2>1, <2>2, <2>3, <2>4, <2>5, <2>6, <2>7, <2>8, <2>9, <2>10, <2>11, <2>12,
       <2>13, <2>14, <2>15, <2>16, <2>17, <2>18, <2>19, <2>20, <2>21, <2>22, <2>23,
       <2>24, <2>25, <2>26
    DEF Next, FlowMonitor, Evict
<1> QED
  BY <1>1, <1>2, PTL DEF Spec
-----------------------------------------------------------------------------
\* The inductive step of BInv, when the kernel has the atomic operation.
LEMMA BInvStep ==
  ASSUME AtomicDelete, IInv, TypeOK', [Next]_vars
  PROVE  BInv'
<1> USE FlowType DEF IInv, BInv, Counted, Mapped, Batched, Queued
<1>1. ASSUME NEW o \in Obs, Receive(o) PROVE BInv'
  BY <1>1 DEF Receive, Goto, TypeOK, evictVars, BatchInv, PendingInv, AbsentInv, FailedInv, RecordOneInterface, NoDoubleCount
<1>2. ASSUME NEW o \in Obs, LookupElem(o) PROVE BInv'
  BY <1>2 DEF LookupElem, Goto, TypeOK, evictVars, BatchInv, PendingInv, AbsentInv, FailedInv, RecordOneInterface, NoDoubleCount
<1>3. ASSUME NEW o \in Obs, InsertExists(o) PROVE BInv'
  BY <1>3 DEF InsertExists, Goto, TypeOK, evictVars, BatchInv, PendingInv, AbsentInv, FailedInv, RecordOneInterface, NoDoubleCount
<1>4. ASSUME NEW o \in Obs, InsertFull(o) PROVE BInv'
  BY <1>4 DEF InsertFull, Goto, TypeOK, evictVars, BatchInv, PendingInv, AbsentInv, FailedInv, RecordOneInterface, NoDoubleCount
<1>5. ASSUME NEW o \in Obs, InsertBusy(o) PROVE BInv'
  BY <1>5 DEF InsertBusy, Goto, TypeOK, evictVars, BatchInv, PendingInv, AbsentInv, FailedInv, RecordOneInterface, NoDoubleCount
<1>6. ASSUME NEW o \in Obs, Relookup(o) PROVE BInv'
  BY <1>6 DEF Relookup, Goto, TypeOK, evictVars, BatchInv, PendingInv, AbsentInv, FailedInv, RecordOneInterface, NoDoubleCount
<1>7. ASSUME NEW o \in Obs, InsertOK(o) PROVE BInv'
  <2>1. /\ entry'[o.flow] = [first |-> o.intf, packets |-> {o}, bytes |-> {o}]
        /\ \A f \in Flow \ {o.flow} : entry'[f] = entry[f]
    BY <1>7 DEF InsertOK, TypeOK
  <2>2. entry[o.flow] = NoEntry
    BY <1>7 DEF InsertOK, AbsentInv
  <2>3. RecordOneInterface'
    BY <1>7, <2>1 DEF InsertOK, RecordOneInterface, evictVars
  <2>4. PendingInv' /\ FailedInv' /\ NoDoubleCount'
    BY <1>7, <2>1, <2>2, NoEntryType DEF InsertOK, Goto, TypeOK, evictVars, PendingInv, FailedInv, NoDoubleCount
  <2>5. BatchInv' /\ AbsentInv'
    BY <1>7, <2>1 DEF InsertOK, evictVars, BatchInv, AbsentInv
  <2> QED
    BY <2>3, <2>4, <2>5
<1>8. ASSUME NEW o \in Obs, Fallback(o) PROVE BInv'
  BY <1>8 DEF Fallback, Goto, TypeOK, evictVars, BatchInv, PendingInv, AbsentInv, FailedInv, RecordOneInterface, NoDoubleCount
<1>9. ASSUME NEW o \in Obs, UpdateLock(o) PROVE BInv'
  <2>1. CASE linked[o] /\ entry[o.flow].first = o.intf
    <3>1. /\ entry'[o.flow] = CountPacket(entry[o.flow], o)
          /\ \A f \in Flow \ {o.flow} : entry'[f] = entry[f]
      BY <1>9, <2>1 DEF UpdateLock, TypeOK
    <3>2. /\ entry'[o.flow].first = entry[o.flow].first
          /\ entry'[o.flow].packets = entry[o.flow].packets \cup {o}
          /\ entry'[o.flow].bytes \subseteq entry[o.flow].bytes \cup {o}
      BY <3>1, CountPacketEntry DEF TypeOK
    <3>3. RecordOneInterface'
      BY <1>9, <2>1, <3>1, <3>2 DEF UpdateLock, RecordOneInterface, evictVars
    <3>4. \A p \in Obs : Mapped(p)' <=> (Mapped(p) \/ p = o)
      BY <3>1, <3>2 DEF TypeOK
    <3>5. PendingInv' /\ FailedInv'
      BY <1>9, <3>4 DEF UpdateLock, Goto, TypeOK, evictVars, PendingInv, FailedInv
    <3>6. NoDoubleCount'
      BY <1>9, <3>4 DEF UpdateLock, TypeOK, evictVars, PendingInv, NoDoubleCount
    <3>7. BatchInv' /\ AbsentInv'
      BY <1>9, <2>1, <3>1 DEF UpdateLock, evictVars, BatchInv, AbsentInv
    <3> QED
      BY <3>3, <3>5, <3>6, <3>7
  <2>2. CASE ~(linked[o] /\ entry[o.flow].first = o.intf)
    BY <1>9, <2>2 DEF UpdateLock, Goto, TypeOK, evictVars, BatchInv, PendingInv, AbsentInv, FailedInv, RecordOneInterface, NoDoubleCount
  <2> QED
    BY <2>1, <2>2
<1>10. ASSUME NEW o \in Obs, UpdateUnlock(o) PROVE BInv'
  <2>1. CASE linked[o] /\ entry[o.flow].first = o.intf
    <3>1. /\ entry'[o.flow] = CountBytes(entry[o.flow], o)
          /\ \A f \in Flow \ {o.flow} : entry'[f] = entry[f]
      BY <1>10, <2>1 DEF UpdateUnlock, TypeOK
    <3>2. /\ entry'[o.flow].first = entry[o.flow].first
          /\ entry'[o.flow].packets = entry[o.flow].packets
          /\ entry'[o.flow].bytes \subseteq entry[o.flow].bytes \cup {o}
      BY <3>1, CountBytesEntry DEF TypeOK
    <3>3. RecordOneInterface'
      BY <1>10, <2>1, <3>1, <3>2 DEF UpdateUnlock, RecordOneInterface, evictVars
    <3>4. \A p \in Obs : Mapped(p)' <=> Mapped(p)
      BY <3>1, <3>2 DEF TypeOK
    <3>5. PendingInv' /\ FailedInv'
      BY <1>10, <3>4 DEF UpdateUnlock, Goto, TypeOK, evictVars, PendingInv, FailedInv
    <3>6. NoDoubleCount'
      BY <1>10, <3>4 DEF UpdateUnlock, TypeOK, evictVars, PendingInv, NoDoubleCount
    <3>7. BatchInv' /\ AbsentInv'
      BY <1>10, <2>1, <3>1 DEF UpdateUnlock, evictVars, BatchInv, AbsentInv
    <3> QED
      BY <3>3, <3>5, <3>6, <3>7
  <2>2. CASE ~(linked[o] /\ entry[o.flow].first = o.intf)
    BY <1>10, <2>2 DEF UpdateUnlock, Goto, TypeOK, evictVars, BatchInv, PendingInv, AbsentInv, FailedInv, RecordOneInterface, NoDoubleCount
  <2> QED
    BY <2>1, <2>2
<1>11. ASSUME NEW o \in Obs, ReadRingBuf(o) PROVE BInv'
  <2>1. reported'[o] = 1
    <3>1. reported[o] \in Nat /\ reported[o] <= 1 /\ reported[o] # 1
      BY <1>11 DEF ReadRingBuf, TypeOK, NoDoubleCount
    <3>2. reported'[o] = reported[o] + 1
      BY <1>11 DEF ReadRingBuf, TypeOK
    <3> QED
      BY <3>1, <3>2
  <2>2. /\ \A p \in Obs \ {o} : reported'[p] = reported[p] /\ (Queued(p)' <=> Queued(p))
        /\ \A p \in Obs : (Mapped(p)' <=> Mapped(p)) /\ (Batched(p)' <=> Batched(p))
        /\ Queued(o) /\ ~Queued(o)'
        /\ pc' = pc /\ failed' = failed
    BY <1>11 DEF ReadRingBuf, TypeOK
  <2>3. PendingInv' /\ FailedInv'
    <3>1. \A p \in Obs : p # o => (Counted(p)' <=> Counted(p))
      BY <2>2
    <3> QED
      BY <2>2, <3>1 DEF PendingInv, FailedInv, TypeOK
  <2>4. NoDoubleCount'
    BY <2>1, <2>2 DEF NoDoubleCount
  <2>5. BatchInv' /\ AbsentInv' /\ RecordOneInterface'
    BY <1>11 DEF ReadRingBuf, BatchInv, AbsentInv, RecordOneInterface
  <2> QED
    BY <2>3, <2>4, <2>5
<1>12. CASE EvictStart
  BY <1>12 DEF EvictStart, TypeOK, kernelVars, BatchInv, PendingInv, AbsentInv, FailedInv, RecordOneInterface, NoDoubleCount
<1>13. CASE IterateDone
  BY <1>13 DEF IterateDone, TypeOK, kernelVars, BatchInv, PendingInv, AbsentInv, FailedInv, RecordOneInterface, NoDoubleCount
<1>14. CASE DeletesDone
  BY Zenon, <1>14 DEF DeletesDone, TypeOK, kernelVars, BatchInv, PendingInv, AbsentInv, FailedInv, RecordOneInterface, NoDoubleCount
<1>15. ~(SwitchToLegacy \/ LegacyCopied \/ LegacyDelete \/ LegacyDeleteFails \/ LegacyDone)
  BY Zenon DEF SwitchToLegacy, LegacyCopied, LegacyDelete, LegacyDeleteFails, LegacyDone, BatchInv
<1>16. CASE Deliver
  <2>1. /\ \A p \in Obs : ~Batched(p)' /\ (Mapped(p)' <=> Mapped(p)) /\ (Queued(p)' <=> Queued(p))
        /\ \A p \in Obs : reported'[p] = IF Batched(p) THEN reported[p] + 1 ELSE reported[p]
        /\ pc' = pc /\ failed' = failed
    BY <1>16, NoEntryType DEF Deliver, kernelVars
  <2>2. \A p \in Obs : reported[p] \in Nat /\ (Counted(p)' => Counted(p))
    BY <2>1 DEF TypeOK
  <2>3. PendingInv' /\ FailedInv'
    BY <2>1, <2>2 DEF PendingInv, FailedInv, TypeOK
  <2>4. NoDoubleCount'
    BY <2>1, <2>2 DEF NoDoubleCount
  <2>5. BatchInv' /\ AbsentInv'
    BY <1>16 DEF Deliver, kernelVars, BatchInv, AbsentInv
  <2>6. RecordOneInterface'
    BY <1>16, NoEntryType DEF Deliver, kernelVars, RecordOneInterface
  <2> QED
    BY <2>3, <2>4, <2>5, <2>6
<1>17. CASE UnlinkCopied
  <2>0. PICK c \in cursor : Unlink(c.flow) /\ Record(c) /\ ids' = ids \ {c.flow}
    BY <1>17 DEF UnlinkCopied
  <2> DEFINE f == c.flow
  <2>1. f \in Flow /\ CopyOf(c) /\ c.value \in Entry
    BY DEF CopyInv, TypeOK
  <2>2. /\ entry'[f] = NoEntry /\ batch'[f] = c.value
        /\ \A g \in Flow \ {f} : entry'[g] = entry[g] /\ batch'[g] = batch[g]
    BY <2>0, <2>1 DEF Unlink, Record, TypeOK
  <2>3. /\ c.value.first = entry[f].first
        /\ c.value.packets \subseteq entry[f].packets /\ c.value.bytes \subseteq entry[f].bytes
    BY <2>1 DEF CopyOf
  <2>4. RecordOneInterface'
    <3>1. \A o \in c.value.packets \cup c.value.bytes : o.flow = f /\ o.intf = c.value.first
      BY <2>1, <2>3 DEF RecordOneInterface
    <3> HIDE DEF f
    <3> QED
      BY <2>1, <2>2, <3>1, NoEntryType DEF RecordOneInterface
  <2>5. batch[f] = NoEntry /\ UNCHANGED <<pc, failed, ringbuf, reported>>
    BY Zenon, <1>17, <2>1 DEF UnlinkCopied, BatchInv, CopyOf
  <2>6. PendingInv' /\ FailedInv' /\ NoDoubleCount'
    <3> HIDE DEF f
    <3>2. \A o \in Obs : o.flow # f => (Mapped(o)' <=> Mapped(o)) /\ (Batched(o)' <=> Batched(o))
      BY <2>2
    <3>3. \A o \in Obs : o.flow = f => ~Mapped(o)' /\ (Batched(o)' => Mapped(o)) /\ ~Batched(o)
      BY <2>2, <2>3, <2>5, NoEntryType
    <3>4. \A o \in Obs : Counted(o)' => Counted(o)
      BY <2>5, <3>2, <3>3
    <3>5. PendingInv' /\ FailedInv'
      BY <2>5, <3>4 DEF PendingInv, FailedInv, TypeOK
    <3>6. NoDoubleCount'
      BY <2>5, <3>2, <3>3 DEF NoDoubleCount
    <3> QED
      BY <3>5, <3>6
  <2>7. BatchInv' /\ AbsentInv'
    <3>1. BatchInv'
      <4>1. epc = "unlink" /\ epc' = "delete" /\ supported' = supported /\ ids' = ids \ {f}
        BY <1>17, <2>0 DEF UnlinkCopied
      <4>2. \A g \in ids' : g \in ids /\ g \in Flow /\ batch'[g] = batch[g]
        BY <2>2, <4>1 DEF TypeOK
      <4> QED
        BY Zenon, <4>1, <4>2 DEF BatchInv
    <3>2. AbsentInv'
      BY <1>17, <2>0, <2>1, <2>2, Zenon DEF Unlink, AbsentInv
    <3> QED
      BY <3>1, <3>2
  <2> QED
    BY <2>4, <2>6, <2>7
<1>18. ASSUME NEW f \in Flow, LookupAndDeleteFails(f) PROVE BInv'
  BY Zenon, <1>18 DEF LookupAndDeleteFails, TypeOK, kernelVars, BatchInv, PendingInv, AbsentInv, FailedInv, RecordOneInterface, NoDoubleCount
<1>19. ASSUME NEW f \in Flow, LegacyNext(f) PROVE FALSE
  BY Zenon, <1>19 DEF LegacyNext, BatchInv
<1>21. ASSUME NEW f \in Flow, LookupAndDelete(f) PROVE BInv'
  BY Zenon, <1>21 DEF LookupAndDelete, TypeOK, kernelVars, BatchInv, PendingInv, AbsentInv, FailedInv, RecordOneInterface, NoDoubleCount
<1>22. CASE LookupCopied
  BY Zenon, <1>22 DEF LookupCopied, TypeOK, kernelVars, BatchInv, PendingInv, AbsentInv, FailedInv, RecordOneInterface, NoDoubleCount
<1>20. CASE UNCHANGED vars
  BY Zenon, <1>20 DEF vars, kernelVars, evictVars, TypeOK, BatchInv, PendingInv, AbsentInv, FailedInv, RecordOneInterface, NoDoubleCount
<1> QED
  BY <1>1, <1>2, <1>3, <1>4, <1>5, <1>6, <1>7, <1>8, <1>9, <1>10, <1>11, <1>12,
     <1>13, <1>14, <1>15, <1>16, <1>17, <1>18, <1>19, <1>20,
     <1>21, <1>22
  DEF Next, FlowMonitor, Evict

\* A step that keeps the copy, the elements that are in the map and the writers keeps what is
\* known of the copy.
LEMMA CopyFrame ==
  ASSUME TypeOK, CopyInv, UNCHANGED <<cursor, epc, ids>>,
         present \subseteq present', raced \subseteq raced',
         \A f \in present : entry'[f] = entry[f],
         \A o \in Obs : Writing(o)' => Writing(o)
  PROVE  CopyInv'
<1>1. ASSUME NEW c \in cursor PROVE CopyOf(c)' /\ RacedBy(c)'
  <2>1. CopyOf(c) /\ RacedBy(c) /\ entry'[c.flow] = entry[c.flow]
    BY Zenon DEF CopyInv, CopyOf
  <2>2. ids' = ids /\ \A x \in present : x \in present'
    BY Zenon
  <2>3. CopyOf(c)'
    BY Zenon, <2>1, <2>2 DEF CopyOf
  <2>4. RacedBy(c)'
    BY Zenon, <2>1 DEF RacedBy
  <2> QED
    BY Zenon, <2>3, <2>4
<1>2. cursor' = cursor /\ epc' = epc
  BY Zenon
<1> QED
  BY Zenon, <1>1, <1>2 DEF CopyInv

\* The element of f gains at most the packet of o, in one counter or the other.
Adds(o, f) ==
  /\ entry'[f].first = entry[f].first
  /\ entry[f].packets \subseteq entry'[f].packets
  /\ entry[f].bytes \subseteq entry'[f].bytes
  /\ entry'[f] = entry[f] \/ (f = o.flow /\ linked[o])
  /\ entry'[f].packets \subseteq entry[f].packets \cup {o}
  /\ entry'[f].bytes \subseteq entry[f].bytes \cup {o}

\* A step of a hook in update_existing_flow adds its packet to a counter, and has raced the
\* copy if there is one.
LEMMA CopyWrite ==
  ASSUME TypeOK, CopyInv, NEW o \in Obs,
         cursor' = cursor, epc' = epc, ids' = ids, present' = present,
         raced \subseteq raced', UnderCopy(o.flow) /\ linked[o] => o \in raced',
         \A f \in Flow : Adds(o, f),
         \A p \in Obs : Writing(p)' => Writing(p) \/ (p = o /\ linked[o])
  PROVE  CopyInv'
<1>1. ASSUME NEW c \in cursor PROVE CopyOf(c)' /\ RacedBy(c)'
  <2>1. CopyOf(c) /\ RacedBy(c)
    BY Zenon DEF CopyInv
  <2>2. Adds(o, c.flow)
    <3>1. c.flow \in Flow
      BY DEF TypeOK
    <3> QED
      BY Zenon, <3>1
  <2>3. CopyOf(c)'
    BY Zenon, <2>1, <2>2 DEF CopyOf, Adds
  <2>4. UnderCopy(c.flow)
    BY Zenon DEF CopyInv, UnderCopy
  <2>5. c.flow = o.flow /\ linked[o] => o \in raced'
    BY Zenon, <2>4
  <2>6. ASSUME NEW p \in Obs, p.flow = c.flow, Writing(p)' PROVE p \in raced'
    BY Zenon, <2>1, <2>5, <2>6 DEF RacedBy
  <2>7. /\ entry'[c.flow].packets \subseteq entry[c.flow].packets \cup raced'
        /\ entry'[c.flow].bytes \subseteq entry[c.flow].bytes \cup raced'
    BY Zenon, <2>2, <2>5 DEF Adds
  <2>8. RacedBy(c)'
    BY Zenon, <2>1, <2>6, <2>7 DEF RacedBy
  <2> QED
    BY Zenon, <2>3, <2>8
<1> QED
  BY Zenon, <1>1 DEF CopyInv

\* The inductive step of CopyInv.
LEMMA CopyStep ==
  ASSUME AtomicDelete, IInv, TypeOK', [Next]_vars
  PROVE  CopyInv'
<1> USE DEF IInv, BInv
<1>1. ASSUME NEW o \in Obs,
             Receive(o) \/ LookupElem(o) \/ InsertExists(o) \/ InsertFull(o)
               \/ InsertBusy(o) \/ Relookup(o) \/ Fallback(o) \/ InsertOK(o)
      PROVE  CopyInv'
  <2>1. UNCHANGED <<cursor, epc, ids, raced>> /\ present \subseteq present'
    BY <1>1, Zenon DEF Receive, LookupElem, InsertExists, InsertFull, InsertBusy, Relookup,
                Fallback, InsertOK, evictVars
  <2>2. \A f \in present : entry'[f] = entry[f]
    BY <1>1, FlowType DEF Receive, LookupElem, InsertExists, InsertFull, InsertBusy, Relookup,
                Fallback, InsertOK, TypeOK
  <2>3. /\ pc'[o] # "updating"
        /\ \A p \in Obs \ {o} : pc'[p] = pc[p] /\ linked'[p] = linked[p]
    BY <1>1 DEF Receive, LookupElem, InsertExists, InsertFull, InsertBusy, Relookup,
                Fallback, InsertOK, Goto, TypeOK
  <2>4. \A p \in Obs : Writing(p)' => Writing(p)
    BY <2>3 DEF Writing
  <2> QED
    BY <2>1, <2>2, <2>4, CopyFrame
<1>2. ASSUME NEW o \in Obs, UpdateLock(o) PROVE CopyInv'
  <2>1. /\ cursor' = cursor /\ epc' = epc /\ ids' = ids /\ present' = present
        /\ raced \subseteq raced'
        /\ UnderCopy(o.flow) /\ linked[o] => o \in raced'
    BY <1>2 DEF UpdateLock, evictVars
  <2>2. \A p \in Obs : Writing(p)' => Writing(p) \/ (p = o /\ linked[o])
    BY <1>2 DEF UpdateLock, Goto, Writing, TypeOK
  <2>3. ASSUME NEW f \in Flow PROVE Adds(o, f)
    <3>1. CASE entry'[f] = entry[f]
      BY Zenon, <3>1 DEF Adds
    <3>2. CASE entry'[f] # entry[f]
      <4>1. f = o.flow /\ linked[o] /\ entry'[f] = CountPacket(entry[f], o)
        BY <1>2, <3>2, FlowType DEF UpdateLock, TypeOK
      <4>2. entry[f] \in Entry
        BY DEF TypeOK
      <4>3. /\ entry'[f].first = entry[f].first
            /\ entry'[f].packets = entry[f].packets \cup {o}
            /\ entry'[f].bytes = entry[f].bytes
        BY <4>1, <4>2, CountPacketEntry
      <4> QED
        BY Zenon, <4>1, <4>3 DEF Adds
    <3> QED
      BY <3>1, <3>2
  <2> QED
    BY <2>1, <2>2, <2>3, CopyWrite
<1>3. ASSUME NEW o \in Obs, UpdateUnlock(o) PROVE CopyInv'
  <2>1. UNCHANGED <<cursor, epc, ids, present, raced>>
    BY <1>3, Zenon DEF UpdateUnlock, evictVars
  <2>2. \A p \in Obs : Writing(p)' => Writing(p)
    BY <1>3 DEF UpdateUnlock, Goto, Writing, TypeOK
  <2>3. UnderCopy(o.flow) /\ linked[o] => o \in raced'
    BY <1>3, <2>1 DEF UpdateUnlock, UnderCopy, CopyInv, RacedBy, Writing
  <2>4. ASSUME NEW f \in Flow PROVE Adds(o, f)
    <3>1. CASE entry'[f] = entry[f]
      BY Zenon, <3>1 DEF Adds
    <3>2. CASE entry'[f] # entry[f]
      <4>1. f = o.flow /\ linked[o] /\ entry'[f] = CountBytes(entry[f], o)
        BY <1>3, <3>2, FlowType DEF UpdateUnlock, TypeOK
      <4>2. entry[f] \in Entry
        BY DEF TypeOK
      <4>3. /\ entry'[f].first = entry[f].first
            /\ entry'[f].packets = entry[f].packets
            /\ entry'[f].bytes = entry[f].bytes \cup {o}
        BY <4>1, <4>2, CountBytesEntry
      <4> QED
        BY Zenon, <4>1, <4>3 DEF Adds
    <3> QED
      BY <3>1, <3>2
  <2> QED
    BY <2>1, <2>2, <2>3, <2>4, CopyWrite
<1>4. ASSUME NEW o \in Obs, ReadRingBuf(o) PROVE CopyInv'
  <2>1. UNCHANGED <<cursor, epc, ids, present, raced, entry, pc, linked>>
    BY <1>4 DEF ReadRingBuf
  <2> QED
    BY <2>1, CopyFrame DEF Writing
<1>5. CASE UNCHANGED vars
  <2>1. UNCHANGED <<cursor, epc, ids, present, raced, entry, pc, linked>>
    BY <1>5 DEF vars, kernelVars, evictVars
  <2> QED
    BY <2>1, CopyFrame DEF Writing
<1>6. CASE EvictStart \/ IterateDone \/ DeletesDone \/ Deliver
             \/ \E f \in Flow : LookupAndDeleteFails(f)
  <2>1. epc \notin {"copy", "unlink"} /\ epc' \notin {"copy", "unlink"} /\ cursor' = cursor
    <3>1. CASE EvictStart \/ IterateDone
      BY Zenon, <3>1 DEF EvictStart, IterateDone, BatchInv
    <3>2. CASE DeletesDone \/ Deliver
      BY Zenon, <3>2 DEF DeletesDone, Deliver
    <3>3. CASE \E f \in Flow : LookupAndDeleteFails(f)
      BY Zenon, <3>3 DEF LookupAndDeleteFails
    <3> QED
      BY <1>6, <3>1, <3>2, <3>3
  <2> QED
    BY <2>1 DEF CopyInv
<1>7. ASSUME NEW f \in Flow, LookupAndDelete(f) PROVE CopyInv'
  <2>1. /\ epc' = "copy" /\ f \in ids \cap present /\ CopyFirst(f)
        /\ UNCHANGED <<ids, present, entry, pc, linked>>
    BY <1>7 DEF LookupAndDelete, kernelVars
  <2>2. entry[f] \in Entry
    BY DEF TypeOK
  <2>3. \A o \in Obs : o.flow = f /\ Writing(o)' => o \in raced'
    BY <2>1 DEF CopyFirst, Writing
  <2>4. ASSUME NEW c \in cursor'
        PROVE  /\ c.flow = f /\ c.value.first = entry[f].first
               /\ c.value.packets \subseteq entry[f].packets
               /\ c.value.bytes \subseteq entry[f].bytes
               /\ c.rest # "packets" => c.value.packets = entry[f].packets
               /\ c.rest # "bytes" => c.value.bytes = entry[f].bytes
    BY <2>1, <2>2, <2>4 DEF CopyFirst, Entry
  <2>5. ASSUME NEW c \in cursor' PROVE CopyOf(c)' /\ RacedBy(c)'
    BY <2>1, <2>3, <2>4 DEF CopyOf, RacedBy
  <2> QED
    BY <2>1, <2>5 DEF CopyInv
<1>8. CASE LookupCopied
  <2>1. /\ epc' = "unlink" /\ CopyRest
        /\ UNCHANGED <<ids, present, entry, pc, linked, raced>>
    BY <1>8 DEF LookupCopied, kernelVars
  <2>2. ASSUME NEW d \in cursor' PROVE CopyOf(d)' /\ RacedBy(d)' /\ d.rest = "none"
    <3>1. PICK c \in cursor :
            d = [flow |-> c.flow, rest |-> "none",
                 value |-> IF c.rest = "packets"
                             THEN [c.value EXCEPT !.packets = entry[c.flow].packets]
                             ELSE [c.value EXCEPT !.bytes = entry[c.flow].bytes]]
      BY <2>1, <2>2 DEF CopyRest
    <3>2. /\ CopyOf(c) /\ RacedBy(c) /\ c.value \in Entry
          /\ c.rest \in {"packets", "bytes", "none"}
      BY DEF CopyInv, TypeOK
    <3>3. /\ d.flow = c.flow /\ d.rest = "none" /\ d.value.first = c.value.first
          /\ d.value.packets = IF c.rest = "packets" THEN entry[c.flow].packets
                                                      ELSE c.value.packets
          /\ d.value.bytes = IF c.rest = "packets" THEN c.value.bytes ELSE entry[c.flow].bytes
      BY <3>1, <3>2 DEF Entry
    <3>4. CopyOf(d)'
      BY <2>1, <3>2, <3>3 DEF CopyOf
    <3>5. RacedBy(d)'
      BY <2>1, <3>2, <3>3 DEF RacedBy, Writing
    <3> QED
      BY <3>3, <3>4, <3>5
  <2> QED
    BY <2>1, <2>2 DEF CopyInv
<1>9. CASE UnlinkCopied
  BY <1>9 DEF UnlinkCopied, CopyInv
<1>10. ~(SwitchToLegacy \/ LegacyCopied \/ LegacyDelete \/ LegacyDeleteFails \/ LegacyDone
           \/ \E f \in Flow : LegacyNext(f))
  BY Zenon DEF SwitchToLegacy, LegacyCopied, LegacyDelete, LegacyDeleteFails, LegacyDone,
               LegacyNext, BatchInv
<1> QED
  BY Zenon, <1>1, <1>2, <1>3, <1>4, <1>5, <1>6, <1>7, <1>8, <1>9, <1>10
  DEF Next, FlowMonitor, Evict

\* The inductive invariant holds in the empty map.
LEMMA InvInit == Init => IInv
<1> SUFFICES ASSUME Init PROVE IInv
  OBVIOUS
<1>1. \A o \in Obs : ~Mapped(o) /\ ~Batched(o) /\ ~Queued(o) /\ reported[o] = 0
  BY Zenon, NoEntryType, FlowType DEF Init, Mapped, Batched, Queued
<1>2. PendingInv /\ FailedInv /\ NoDoubleCount
  BY <1>1 DEF Init, PendingInv, FailedInv, NoDoubleCount, Counted
<1>3. RecordOneInterface
  BY NoEntryType DEF Init, RecordOneInterface
<1>4. BatchInv /\ AbsentInv
  BY DEF Init, BatchInv, AbsentInv
<1>5. CopyInv
  BY DEF Init, CopyInv
<1> QED
  BY <1>2, <1>3, <1>4, <1>5, TypeInit DEF IInv, BInv

\* With the atomic operation IInv holds in every reachable state.
THEOREM Invariance == ASSUME AtomicDelete PROVE Spec => []IInv
<1>1. IInv /\ TypeOK' /\ [Next]_vars => IInv'
  BY BInvStep, CopyStep DEF IInv
<1> QED
  BY <1>1, InvInit, TypeCorrect, PTL DEF Spec
=============================================================================
