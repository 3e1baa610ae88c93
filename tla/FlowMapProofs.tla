---------------------------- MODULE FlowMapProofs ----------------------------
(* What the inductive invariant of FlowMapInv says of the eviction. *)
EXTENDS FlowMapInv

\* With the atomic lookup-and-delete, whatever the number of CPUs, flows,
\* interfaces and map operations that fail, no packet is counted twice.
THEOREM NeverCountedTwice == ASSUME AtomicDelete PROVE Spec => []NoDoubleCount
<1>1. IInv => NoDoubleCount
  BY DEF IInv, BInv
<1> QED
  BY <1>1, Invariance, PTL

\* With the atomic lookup-and-delete, every record aggregates the packets of
\* one flow seen through one interface.
THEOREM OneInterfacePerRecord == ASSUME AtomicDelete PROVE Spec => []RecordOneInterface
<1>1. IInv => RecordOneInterface
  BY DEF IInv, BInv
<1> QED
  BY <1>1, Invariance, PTL

\* With the atomic lookup-and-delete, a packet reported as dropped by a
\* HASHMAP_FAIL_* counter is in no record.
THEOREM DroppedIsNotCounted == ASSUME AtomicDelete PROVE Spec => []FailedNotCounted
<1>1. IInv => FailedNotCounted
  BY DEF IInv, BInv, FailedInv, FailedNotCounted
<1> QED
  BY <1>1, Invariance, PTL

\* With the atomic lookup-and-delete, an eviction loses no count already made, except one
\* that raced the copy of the value: a step takes a packet out of the map only into the
\* batch, and out of the batch only into what is handed over.
THEOREM CountsAreKept == ASSUME AtomicDelete PROVE Spec => CountedStaysCounted
<1> DEFINE Kept == \A o \in Obs \ raced : Counted(o) => Counted(o)'
<1>1. IInv /\ TypeOK' /\ [Next]_vars => [Kept]_vars
  <2> SUFFICES ASSUME IInv, TypeOK', Next PROVE Kept
    OBVIOUS
  <2> USE FlowType DEF IInv, BInv, Counted, Mapped, Batched, Queued, TypeOK
  <2>1. ASSUME NEW o \in Obs, FlowMonitor(o) PROVE Kept
    <3>1. batch' = batch /\ reported' = reported
      BY Zenon, <2>1 DEF FlowMonitor, Receive, LookupElem, InsertOK, InsertExists, InsertFull,
                  InsertBusy, Relookup, Fallback, UpdateLock, UpdateUnlock, evictVars
    <3>2. ringbuf \subseteq ringbuf'
      BY <2>1 DEF FlowMonitor, Receive, LookupElem, InsertOK, InsertExists, InsertFull,
                  InsertBusy, Relookup, Fallback, UpdateLock, UpdateUnlock
    <3>3. \A f \in Flow : entry[f].packets \subseteq entry'[f].packets
      <4>1. CASE InsertOK(o)
        BY <4>1, NoEntryType DEF InsertOK, AbsentInv
      <4>2. CASE UpdateLock(o)
        <5>1. entry[o.flow].packets \subseteq CountPacket(entry[o.flow], o).packets
          BY CountPacketEntry
        <5> QED
          BY <4>2, <5>1 DEF UpdateLock
      <4>3. CASE UpdateUnlock(o)
        <5>1. CountBytes(entry[o.flow], o).packets = entry[o.flow].packets
          BY CountBytesEntry
        <5> QED
          BY <4>3, <5>1 DEF UpdateUnlock
      <4> QED
        BY <2>1, <4>1, <4>2, <4>3 DEF FlowMonitor, Receive, LookupElem, InsertExists,
             InsertFull, InsertBusy, Relookup, Fallback
    <3> QED
      BY <3>1, <3>2, <3>3
  <2>2. ASSUME NEW o \in Obs, ReadRingBuf(o) PROVE Kept
    <3>1. /\ entry' = entry /\ batch' = batch /\ ringbuf' = ringbuf \ {o}
          /\ \A p \in Obs \ {o} : reported'[p] = reported[p]
      BY <2>2 DEF ReadRingBuf
    <3>2. reported'[o] > 0
      BY <2>2 DEF ReadRingBuf
    <3> QED
      BY <3>1, <3>2
  <2>3. CASE UnlinkCopied
    <3>1. PICK c \in cursor : Unlink(c.flow) /\ Record(c) /\ ids' = ids \ {c.flow}
      BY <2>3 DEF UnlinkCopied
    <3>2. c.flow \in Flow /\ CopyOf(c) /\ RacedBy(c) /\ c.rest = "none"
      BY <2>3 DEF CopyInv, UnlinkCopied
    <3>3. \A o \in entry[c.flow].packets \ raced : o \in c.value.packets
      BY <3>2 DEF RacedBy
    <3>4. /\ batch[c.flow] = NoEntry /\ batch'[c.flow] = c.value
          /\ \A g \in Flow \ {c.flow} : entry'[g] = entry[g] /\ batch'[g] = batch[g]
          /\ ringbuf' = ringbuf /\ reported' = reported
      BY <2>3, <3>1, <3>2 DEF UnlinkCopied, Unlink, Record, BatchInv, CopyOf
    <3> QED
      BY <3>2, <3>3, <3>4, NoEntryType
  <2>4. CASE Deliver
    BY <2>4 DEF Deliver, kernelVars
  <2>5. CASE EvictStart \/ IterateDone \/ DeletesDone \/ LookupCopied
               \/ \E f \in Flow : LookupAndDelete(f) \/ LookupAndDeleteFails(f)
    BY <2>5 DEF EvictStart, IterateDone, DeletesDone, LookupCopied, LookupAndDelete,
                LookupAndDeleteFails, kernelVars
  <2>6. ~(SwitchToLegacy \/ LegacyCopied \/ LegacyDelete \/ LegacyDeleteFails \/ LegacyDone
            \/ \E f \in Flow : LegacyNext(f))
    BY Zenon DEF SwitchToLegacy, LegacyCopied, LegacyDelete, LegacyDeleteFails, LegacyDone,
                 LegacyNext, BatchInv
  <2> QED
    BY Zenon, <2>1, <2>2, <2>3, <2>4, <2>5, <2>6 DEF Next, Evict
<1> QED
  BY <1>1, Invariance, TypeCorrect, PTL DEF Spec, CountedStaysCounted
-----------------------------------------------------------------------------
\* Behind TornOnlyByRacing: a hook that is writing an element has counted its packet and
\* not yet its bytes, and nothing else separates the two counters.
WriterMapped == \A o \in Obs : Writing(o) /\ entry[o.flow].first = o.intf => Mapped(o)

TornIsWritten == \A f \in Flow : \A o \in Torn(entry[f]) : Writing(o)

LockInv == WriterMapped /\ TornIsWritten /\ TornOnlyByRacing

\* A torn element differs by observations of its flow and its interface.
LEMMA TornObs ==
  ASSUME IInv, NEW f \in Flow, NEW o \in Torn(entry[f])
  PROVE  o \in Obs /\ o.flow = f /\ o.intf = entry[f].first
  BY DEF IInv, BInv, TypeOK, Entry, RecordOneInterface, Torn

\* The steps that write neither the map nor the batch, and keep the writers.
LEMMA LockQuiet ==
  ASSUME IInv, LockInv, entry' = entry, batch' = batch, raced \subseteq raced',
         \A o \in Obs : Writing(o)' <=> Writing(o)
  PROVE  LockInv'
<1>2. WriterMapped'
  BY DEF LockInv, WriterMapped, Mapped
<1>3. TornIsWritten'
  <2> SUFFICES ASSUME NEW f \in Flow, NEW o \in Torn(entry[f]) PROVE Writing(o)'
    BY DEF TornIsWritten
  <2> QED
    BY TornObs DEF LockInv, TornIsWritten
<1>4. TornOnlyByRacing'
  BY DEF LockInv, TornOnlyByRacing
<1> QED
  BY <1>2, <1>3, <1>4 DEF LockInv

\* LockInv is kept by the first write of update_existing_flow, which takes the spin lock.
LEMMA LockUpdateLock ==
  ASSUME IInv, LockInv, NEW o \in Obs, UpdateLock(o)
  PROVE  LockInv'
<1>1. /\ pc[o] = "update" /\ pc'[o] = "updating" /\ linked' = linked
      /\ batch' = batch /\ raced \subseteq raced'
      /\ \A p \in Obs \ {o} : pc'[p] = pc[p]
  BY DEF UpdateLock, Goto, IInv, BInv, TypeOK, evictVars
<1>2. /\ \A p \in Obs \ {o} : Writing(p)' <=> Writing(p)
      /\ Writing(o)' <=> linked[o]
  BY <1>1 DEF Writing
<1>5. TornOnlyByRacing'
  BY <1>1 DEF LockInv, TornOnlyByRacing
<1>6. CASE linked[o] /\ entry[o.flow].first = o.intf
  <2>1. entry[o.flow] \in Entry /\ o.flow \in Flow
    BY FlowType DEF IInv, BInv, TypeOK
  <2>2. /\ entry'[o.flow] = CountPacket(entry[o.flow], o)
        /\ \A f \in Flow \ {o.flow} : entry'[f] = entry[f]
    BY <1>6, <2>1 DEF UpdateLock, IInv, BInv, TypeOK
  <2>3. /\ entry'[o.flow].first = entry[o.flow].first
        /\ entry'[o.flow].packets = entry[o.flow].packets \cup {o}
        /\ entry'[o.flow].bytes = entry[o.flow].bytes
    <3> DEFINE e == entry[o.flow]
    <3>0. e \in Entry
      BY <2>1
    <3>1. /\ CountPacket(e, o).first = e.first
          /\ CountPacket(e, o).packets = e.packets \cup {o}
          /\ CountPacket(e, o).bytes = e.bytes
      <4> HIDE DEF e
      <4> QED
        BY <3>0, CountPacketEntry
    <3> QED
      BY <2>2, <3>1
  <2>4. Torn(entry'[o.flow]) \subseteq Torn(entry[o.flow]) \cup {o}
    BY <2>3 DEF Torn
  <2>6. TornIsWritten'
    <3> SUFFICES ASSUME NEW f \in Flow, NEW p \in Torn(entry'[f]) PROVE Writing(p)'
      BY DEF TornIsWritten
    <3>1. p = o \/ p \in Torn(entry[f])
      BY <2>2, <2>4
    <3>2. CASE p = o
      BY <1>2, <1>6, <3>2
    <3>3. CASE p # o
      <4>1. p \in Obs /\ Writing(p)
        BY <3>1, <3>3, TornObs DEF LockInv, TornIsWritten
      <4> QED
        BY <1>2, <3>3, <4>1
    <3> QED
      BY <3>2, <3>3
  <2>7. WriterMapped'
    <3> SUFFICES ASSUME NEW p \in Obs, Writing(p)', entry'[p.flow].first = p.intf
                 PROVE  p \in entry'[p.flow].packets
      BY DEF WriterMapped, Mapped
    <3>1. p.flow \in Flow
      BY FlowType
    <3>2. CASE p = o
      BY <2>3, <3>2
    <3>3. CASE p # o
      <4>1. p \in entry[p.flow].packets
        <5>1. entry[p.flow].first = p.intf
          BY <2>2, <2>3, <3>1
        <5> QED
          BY <1>2, <3>3, <5>1 DEF LockInv, WriterMapped, Mapped
      <4> QED
        BY <2>2, <2>3, <3>1, <4>1
    <3> QED
      BY <3>2, <3>3
  <2> QED
    BY <1>5, <2>6, <2>7 DEF LockInv
<1>7. CASE ~(linked[o] /\ entry[o.flow].first = o.intf)
  <2>1. entry' = entry
    BY <1>7 DEF UpdateLock
  <2>2. WriterMapped'
    BY <1>2, <1>7, <2>1 DEF LockInv, WriterMapped, Mapped
  <2>3. TornIsWritten'
    <3> SUFFICES ASSUME NEW f \in Flow, NEW p \in Torn(entry[f]) PROVE Writing(p)'
      BY <2>1 DEF TornIsWritten
    <3>1. p \in Obs /\ Writing(p)
      BY TornObs DEF LockInv, TornIsWritten
    <3>2. p # o
      BY <1>1, <3>1 DEF Writing
    <3> QED
      BY <1>2, <3>1, <3>2
  <2> QED
    BY <1>5, <2>2, <2>3 DEF LockInv
<1> QED
  BY <1>6, <1>7

\* LockInv is kept by its last write, which releases the lock.
LEMMA LockUpdateUnlock ==
  ASSUME IInv, LockInv, NEW o \in Obs, UpdateUnlock(o)
  PROVE  LockInv'
<1>1. /\ pc[o] = "updating" /\ pc'[o] = "done" /\ batch' = batch /\ raced' = raced
      /\ \A p \in Obs \ {o} : pc'[p] = pc[p] /\ linked'[p] = linked[p]
  BY DEF UpdateUnlock, Goto, IInv, BInv, TypeOK, evictVars
<1>2. /\ \A p \in Obs \ {o} : Writing(p)' <=> Writing(p)
      /\ ~Writing(o)' /\ (Writing(o) <=> linked[o])
  BY <1>1 DEF Writing
<1>4. TornOnlyByRacing'
  BY <1>1 DEF LockInv, TornOnlyByRacing
<1>5. \A f \in Flow : \A p \in Torn(entry[f]) : p \in Obs /\ p.flow = f /\ Writing(p)
  BY TornObs DEF LockInv, TornIsWritten
<1>6. CASE linked[o] /\ entry[o.flow].first = o.intf
  <2>1. entry[o.flow] \in Entry /\ o.flow \in Flow
    BY FlowType DEF IInv, BInv, TypeOK
  <2>2. /\ entry'[o.flow] = CountBytes(entry[o.flow], o)
        /\ \A f \in Flow \ {o.flow} : entry'[f] = entry[f]
    BY <1>6, <2>1 DEF UpdateUnlock, IInv, BInv, TypeOK
  <2>3. /\ entry'[o.flow].first = entry[o.flow].first
        /\ entry'[o.flow].packets = entry[o.flow].packets
        /\ entry'[o.flow].bytes = entry[o.flow].bytes \cup {o}
    BY <2>1, <2>2, CountBytesEntry
  <2>4. o \in entry[o.flow].packets
    BY <1>2, <1>6 DEF LockInv, WriterMapped, Mapped
  <2>5. Torn(entry'[o.flow]) \subseteq Torn(entry[o.flow]) \ {o}
    BY <2>3, <2>4 DEF Torn
  <2>6. \A f \in Flow : \A p \in Torn(entry'[f]) : p \in Torn(entry[f]) /\ p # o
    <3> SUFFICES ASSUME NEW f \in Flow, NEW p \in Torn(entry'[f])
                 PROVE  p \in Torn(entry[f]) /\ p # o
      OBVIOUS
    <3>1. CASE f = o.flow
      BY <2>5, <3>1
    <3>2. CASE f # o.flow
      <4>1. p \in Torn(entry[f])
        BY <2>2, <3>2
      <4> QED
        BY <1>5, <3>2, <4>1
    <3> QED
      BY <3>1, <3>2
  <2>7. TornIsWritten'
    BY <1>2, <1>5, <2>6 DEF TornIsWritten
  <2>8. WriterMapped'
    <3> SUFFICES ASSUME NEW p \in Obs, Writing(p)', entry'[p.flow].first = p.intf
                 PROVE  p \in entry'[p.flow].packets
      BY DEF WriterMapped, Mapped
    <3>1. p.flow \in Flow /\ p # o
      BY <1>2, FlowType
    <3>2. entry[p.flow].first = p.intf /\ entry'[p.flow].packets = entry[p.flow].packets
      BY <2>2, <2>3, <3>1
    <3> QED
      BY <1>2, <3>1, <3>2 DEF LockInv, WriterMapped, Mapped
  <2> QED
    BY <1>4, <2>7, <2>8 DEF LockInv
<1>7. CASE ~(linked[o] /\ entry[o.flow].first = o.intf)
  <2>1. entry' = entry
    BY <1>7 DEF UpdateUnlock
  <2>2. WriterMapped'
    BY <1>2, <2>1 DEF LockInv, WriterMapped, Mapped
  <2>3. TornIsWritten'
    <3> SUFFICES ASSUME NEW f \in Flow, NEW p \in Torn(entry[f]) PROVE Writing(p)'
      BY <2>1 DEF TornIsWritten
    <3>1. p \in Obs /\ p.flow = f /\ Writing(p) /\ p.intf = entry[f].first
      BY <1>5, TornObs
    <3>2. p # o
      BY <1>2, <1>7, <3>1
    <3> QED
      BY <1>2, <3>1, <3>2
  <2> QED
    BY <1>4, <2>2, <2>3 DEF LockInv
<1> QED
  BY <1>6, <1>7

\* The inductive step of LockInv, one case per action that writes the map, the batch or
\* the lock.
LEMMA LockStep ==
  ASSUME AtomicDelete, IInv, LockInv, TypeOK', [Next]_vars
  PROVE  LockInv'
<1>1. ASSUME NEW o \in Obs,
             Receive(o) \/ LookupElem(o) \/ InsertExists(o) \/ InsertFull(o)
               \/ InsertBusy(o) \/ Relookup(o) \/ Fallback(o)
      PROVE  LockInv'
  <2>1. entry' = entry /\ batch' = batch /\ raced' = raced
    BY <1>1 DEF Receive, LookupElem, InsertExists, InsertFull, InsertBusy, Relookup,
                Fallback, evictVars
  <2>2. /\ pc[o] # "updating" /\ pc'[o] # "updating"
        /\ \A p \in Obs \ {o} : pc'[p] = pc[p] /\ linked'[p] = linked[p]
    BY <1>1 DEF Receive, LookupElem, InsertExists, InsertFull, InsertBusy, Relookup,
                Fallback, Goto, IInv, BInv, TypeOK
  <2>3. \A p \in Obs : Writing(p)' <=> Writing(p)
    BY <2>2 DEF Writing
  <2> QED
    BY <2>1, <2>3, LockQuiet
<1>2. ASSUME NEW o \in Obs, InsertOK(o) PROVE LockInv'
  <2>1. /\ entry'[o.flow] = [first |-> o.intf, packets |-> {o}, bytes |-> {o}]
        /\ \A f \in Flow \ {o.flow} : entry'[f] = entry[f]
        /\ batch' = batch /\ raced' = raced
    BY Zenon, <1>2, FlowType DEF InsertOK, IInv, BInv, TypeOK, evictVars
  <2>2. Torn(entry'[o.flow]) = {}
    BY <2>1 DEF Torn
  <2>3. /\ pc[o] # "updating" /\ pc'[o] # "updating" /\ linked' = linked
        /\ \A p \in Obs \ {o} : pc'[p] = pc[p]
    BY <1>2 DEF InsertOK, Goto, IInv, BInv, TypeOK
  <2>4. \A p \in Obs : Writing(p)' <=> Writing(p)
    BY <2>3 DEF Writing
  <2>5. \A p \in Obs : Writing(p) => p.flow # o.flow
    BY Zenon, <1>2 DEF InsertOK, IInv, BInv, AbsentInv, Writing
  <2>7. WriterMapped'
    BY <2>1, <2>4, <2>5, FlowType DEF LockInv, WriterMapped, Mapped
  <2>8. TornIsWritten'
    <3> SUFFICES ASSUME NEW f \in Flow, NEW p \in Torn(entry'[f]) PROVE Writing(p)'
      BY DEF TornIsWritten
    <3>1. f # o.flow
      BY <2>2
    <3>2. p \in Torn(entry[f])
      BY <2>1, <3>1
    <3> QED
      BY <2>4, <3>2, TornObs DEF LockInv, TornIsWritten
  <2>9. TornOnlyByRacing'
    BY <2>1 DEF LockInv, TornOnlyByRacing
  <2> QED
    BY <2>7, <2>8, <2>9 DEF LockInv
<1>3. ASSUME NEW o \in Obs, UpdateLock(o) \/ UpdateUnlock(o) PROVE LockInv'
  BY <1>3, LockUpdateLock, LockUpdateUnlock
<1>4. CASE (\E o \in Obs : ReadRingBuf(o)) \/ EvictStart \/ IterateDone \/ DeletesDone
             \/ LookupCopied
             \/ (\E f \in Flow : LookupAndDelete(f) \/ LookupAndDeleteFails(f)) \/ UNCHANGED vars
  <2>1. /\ entry' = entry /\ batch' = batch /\ pc' = pc /\ linked' = linked
        /\ raced \subseteq raced'
    BY <1>4 DEF ReadRingBuf, EvictStart, IterateDone, DeletesDone, LookupAndDeleteFails,
                LookupAndDelete, LookupCopied, CopyFirst,
                vars, kernelVars, evictVars
  <2>2. \A p \in Obs : Writing(p)' <=> Writing(p)
    BY <2>1 DEF Writing
  <2> QED
    BY <2>1, <2>2, LockQuiet
<1>5. CASE Deliver
  <2>1. /\ entry' = entry /\ pc' = pc /\ linked' = linked
        /\ \A f \in Flow : batch'[f] = NoEntry
    BY <1>5 DEF Deliver, kernelVars
  <2>2. TornOnlyByRacing'
    BY <2>1, NoEntryType DEF TornOnlyByRacing, Torn
  <2>3. WriterMapped' /\ TornIsWritten'
    BY Zenon, <2>1 DEF LockInv, WriterMapped, TornIsWritten, Mapped, Writing
  <2> QED
    BY <2>2, <2>3 DEF LockInv
<1>6. CASE UnlinkCopied
  <2>0. PICK c \in cursor : Unlink(c.flow) /\ Record(c)
    BY <1>6 DEF UnlinkCopied
  <2> DEFINE f == c.flow
  <2>z. f \in Flow /\ CopyOf(c) /\ RacedBy(c) /\ c.rest = "none" /\ c.value \in Entry
    BY <1>6 DEF UnlinkCopied, IInv, BInv, CopyInv, TypeOK
  <2>1. /\ entry'[f] = NoEntry /\ batch'[f] = c.value /\ raced' = raced
        /\ \A g \in Flow \ {f} : entry'[g] = entry[g] /\ batch'[g] = batch[g]
    BY <1>6, <2>0, <2>z DEF UnlinkCopied, Unlink, Record, IInv, BInv, TypeOK
  <2>2. \A o \in Obs : Writing(o)' <=> Writing(o) /\ o.flow # f
    <3>1. pc' = pc /\ linked' = [o \in Obs |-> linked[o] /\ o.flow # f]
      BY <1>6, <2>0, Zenon DEF UnlinkCopied, Unlink
    <3> QED
      BY <3>1, Zenon DEF Writing
  <2>3. Torn(entry'[f]) = {}
    BY <2>1, NoEntryType DEF Torn
  <2>5. WriterMapped'
    BY <2>1, <2>2, FlowType DEF LockInv, WriterMapped, Mapped
  <2>6. TornIsWritten'
    <3> SUFFICES ASSUME NEW g \in Flow, NEW p \in Torn(entry'[g]) PROVE Writing(p)'
      BY DEF TornIsWritten
    <3>1. g # f
      BY <2>3
    <3>2. p \in Torn(entry[g])
      BY <2>1, <3>1
    <3>3. p \in Obs /\ p.flow = g /\ Writing(p)
      BY <3>2, TornObs DEF LockInv, TornIsWritten
    <3> QED
      BY <2>2, <3>1, <3>3
  <2>7. TornOnlyByRacing'
    <3> SUFFICES ASSUME NEW g \in Flow, NEW o \in Torn(batch'[g]) PROVE o \in raced
      BY <2>1 DEF TornOnlyByRacing
    <3>1. CASE g = f
      <4>1. o \in Torn(c.value)
        BY <2>1, <3>1
      <4>2. /\ c.value.packets \subseteq entry[f].packets /\ c.value.bytes \subseteq entry[f].bytes
            /\ entry[f].packets \subseteq c.value.packets \cup raced
            /\ entry[f].bytes \subseteq c.value.bytes \cup raced
        BY <2>z DEF CopyOf, RacedBy
      <4>3. o \in raced \/ o \in Torn(entry[f])
        BY <4>1, <4>2 DEF Torn
      <4>4. o \in Torn(entry[f]) => o \in Obs /\ o.flow = f /\ Writing(o)
        BY <2>z, TornObs DEF LockInv, TornIsWritten
      <4> QED
        BY <2>z, <4>3, <4>4 DEF RacedBy
    <3>2. CASE g # f
      BY <2>1, <3>2 DEF LockInv, TornOnlyByRacing
    <3> QED
      BY <3>1, <3>2
  <2> QED
    BY <2>5, <2>6, <2>7 DEF LockInv
<1>7. ~(SwitchToLegacy \/ LegacyCopied \/ LegacyDelete \/ LegacyDeleteFails \/ LegacyDone
          \/ \E f \in Flow : LegacyNext(f))
  BY Zenon DEF SwitchToLegacy, LegacyCopied, LegacyDelete, LegacyDeleteFails, LegacyDone,
               LegacyNext, IInv, BInv, BatchInv
<1> QED
  BY <1>1, <1>2, <1>3, <1>4, <1>5, <1>6, <1>7 DEF Next, FlowMonitor, Evict

\* With the atomic lookup-and-delete, packets and bytes of an evicted record disagree only
\* about packets whose hook wrote the element while its value was being copied.
THEOREM TornByRacing == ASSUME AtomicDelete PROVE Spec => []TornOnlyByRacing
<1>1. Init => LockInv
  BY Zenon, NoEntryType, FlowType DEF Init, LockInv, WriterMapped, TornIsWritten, Writing,
                              TornOnlyByRacing, Torn
<1>2. IInv /\ LockInv /\ TypeOK' /\ [Next]_vars => LockInv'
  BY LockStep
<1>3. LockInv => TornOnlyByRacing
  BY DEF LockInv
<1> QED
  BY <1>1, <1>2, <1>3, Invariance, TypeCorrect, PTL DEF Spec
=============================================================================
