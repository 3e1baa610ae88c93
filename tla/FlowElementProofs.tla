-------------------------- MODULE FlowElementProofs --------------------------
(* Proofs for FlowElement: its types, and what the interface list contains. *)
EXTENDS FlowElement, SequenceTheorems, TLAPS

ListInv ==
  \A e \in elem :
    /\ \A k \in DOMAIN e.observed : e.observed[k].intf # e.first
    /\ \A j, k \in DOMAIN e.observed : e.observed[j].intf = e.observed[k].intf => j = k

\* What add_observed_intf returns: the old list with directions changed, or the
\* old list and the packet's interface, which was not in it.
LEMMA AddObserved ==
  ASSUME NEW e \in Element, NEW p \in Packet, Len(e.observed) <= MaxObserved,
         ElementAssumption
  PROVE  LET new == AddObservedIntf(e, p)
         IN /\ new \in Seq(Observed)
            /\ Len(new) <= MaxObserved
            /\ \/ /\ Len(new) = Len(e.observed)
                  /\ \A k \in DOMAIN e.observed : new[k].intf = e.observed[k].intf
                  /\ \/ CapacityReached(e)
                     \/ \E k \in DOMAIN e.observed : e.observed[k].intf = p.intf
               \/ /\ Len(new) = Len(e.observed) + 1
                  /\ \A k \in DOMAIN e.observed : new[k] = e.observed[k]
                  /\ new[Len(new)].intf = p.intf
                  /\ \A k \in DOMAIN e.observed : e.observed[k].intf # p.intf
<1> DEFINE old == e.observed
           item == [intf |-> p.intf, dir |-> p.dir]
<1>1. /\ old \in Seq(Observed)
      /\ item \in Observed
      /\ p.intf \in Intf
      /\ MaxObserved \in Nat
  BY DEF Element, Packet, Observed, ElementAssumption
<1>2. CASE CapacityReached(e)
  BY <1>1, <1>2 DEF AddObservedIntf
<1>3. CASE ~CapacityReached(e) /\ \E k \in DOMAIN old : old[k].intf = p.intf
  <2> DEFINE new == [k \in DOMAIN old |->
                       IF old[k].intf = p.intf /\ old[k].dir # p.dir
                         THEN [intf |-> p.intf, dir |-> BOTH] ELSE old[k]]
  <2>1. AddObservedIntf(e, p) = new
    BY <1>3 DEF AddObservedIntf
  <2>2. DOMAIN old = 1..Len(old) /\ Len(old) \in Nat
    BY <1>1
  <2>3. \A k \in DOMAIN old : new[k] \in Observed /\ new[k].intf = old[k].intf
    <3> TAKE k \in DOMAIN old
    <3>1. old[k] \in Observed
      BY <1>1, <2>2
    <3>2. [intf |-> p.intf, dir |-> BOTH] \in Observed
      BY <1>1 DEF Observed
    <3>3. CASE old[k].intf = p.intf /\ old[k].dir # p.dir
      BY <3>2, <3>3
    <3>4. CASE ~(old[k].intf = p.intf /\ old[k].dir # p.dir)
      BY <3>1, <3>4
    <3>. QED
      BY <3>3, <3>4
  <2>4. new \in [1..Len(old) -> Observed]
    BY <2>2, <2>3
  <2>5. new \in Seq(Observed) /\ Len(new) = Len(old)
    <3> HIDE DEF new, old
    <3>. QED
      BY <2>2, <2>4, SeqDef
  <2>. QED
    BY <1>1, <1>3, <2>1, <2>2, <2>3, <2>5
<1>4. CASE ~CapacityReached(e) /\ ~ \E k \in DOMAIN old : old[k].intf = p.intf
  <2>1. AddObservedIntf(e, p) = Append(old, item)
    BY <1>4 DEF AddObservedIntf
  <2>. QED
    BY <1>1, <1>4, <2>1 DEF CapacityReached
<1>. QED
  BY <1>2, <1>3, <1>4

\* Updating an element keeps its type and its first interface.
LEMMA UpdateType ==
  ASSUME NEW e \in Element, NEW p \in Packet, Len(e.observed) <= MaxObserved,
         ElementAssumption
  PROVE  /\ UpdateExistingFlow(e, p) \in Element
         /\ UpdateExistingFlow(e, p).first = e.first
         /\ UpdateExistingFlow(e, p).observed =
              IF IsOther(e, p) THEN AddObservedIntf(e, p) ELSE e.observed
<1>1. AddObservedIntf(e, p) \in Seq(Observed)
  BY AddObserved
<1>2. /\ p.tls \in Tls /\ p.tls.version \in Nat /\ p.tls.cipher \in Nat
      /\ p.tls.type \in {t.type : t \in Tls}
      /\ p.ts \in Nat
  BY DEF Packet, ElementAssumption
<1>3. CASE p.intf = e.first
  <2> DEFINE v == IF e.version = 0 THEN p.tls.version ELSE e.version
             m == e.mismatch \/ (p.tls.version > 0 /\ e.version \notin {0, p.tls.version})
             c == IF p.tls.cipher > 0 /\ p.tls.type = "server" THEN p.tls.cipher ELSE e.cipher
             t == e.types \cup {p.tls.type}
  <2>1. m \in BOOLEAN
    BY DEF Element
  <2>2. v \in Nat /\ c \in Nat /\ t \in SUBSET {u.type : u \in Tls}
    BY <1>2 DEF Element
  <2>3. UpdateExistingFlow(e, p) =
          [e EXCEPT !.packets = e.packets + 1, !.end = p.ts, !.version = v,
                    !.mismatch = m, !.cipher = c, !.types = t]
    BY <1>3 DEF UpdateExistingFlow, SameInterface
  <2> HIDE DEF v, m, c, t
  <2> DEFINE u == [e EXCEPT !.packets = e.packets + 1, !.end = p.ts, !.version = v,
                            !.mismatch = m, !.cipher = c, !.types = t]
  <2>4. u \in Element
    <3> DEFINE n == e.packets + 1
    <3>1. n \in Nat
      BY DEF Element
    <3> HIDE DEF n
    <3>2. [e EXCEPT !.packets = n, !.end = p.ts, !.version = v,
                    !.mismatch = m, !.cipher = c, !.types = t] \in Element
      BY <1>2, <2>1, <2>2, <3>1 DEF Element
    <3>. QED
      BY <3>2 DEF n
  <2>5. u.first = e.first /\ u.observed = e.observed
    BY DEF Element
  <2>. QED
    BY <1>3, <2>3, <2>4, <2>5 DEF IsOther
<1>4. CASE p.intf # e.first /\ p.intf # 0
  BY <1>1, <1>2, <1>4 DEF UpdateExistingFlow, OtherInterface, IsOther, Element
<1>5. CASE p.intf # e.first /\ p.intf = 0
  BY <1>5 DEF UpdateExistingFlow, IsOther
<1>. QED
  BY <1>3, <1>4, <1>5

\* Creating an element gives a well-typed one with no observed interface.
LEMMA NewType ==
  ASSUME NEW p \in Packet, ElementAssumption
  PROVE  /\ NewFlow(p) \in Element
         /\ NewFlow(p).first = p.intf
         /\ NewFlow(p).observed = << >>
<1>1. /\ p.tls \in Tls /\ p.tls.version \in Nat /\ p.tls.cipher \in Nat
      /\ p.tls.type \in {t.type : t \in Tls}
      /\ p.ts \in Nat
  BY DEF Packet, ElementAssumption
<1>. QED
  BY <1>1 DEF NewFlow, Element, Packet

\* The inductive invariant; there is at most one element, and none before the
\* first packet.
IInv ==
  /\ TypeOK
  /\ ListInv
  /\ SeenListedOrMissed
  /\ elem = {} => seen = << >>
  /\ \A e1, e2 \in elem : e1 = e2

\* The invariant holds before the first packet.
LEMMA InvInit == ASSUME ElementAssumption PROVE Init => IInv
<1> SUFFICES ASSUME Init PROVE IInv
  OBVIOUS
<1>1. TypeOK
  BY DEF Init, TypeOK, ElementAssumption
<1>. QED
  BY <1>1 DEF Init, IInv, ListInv, SeenListedOrMissed

\* A packet that enters a hook disturbs nothing (flow_monitor up to the lookup).
LEMMA InvArrive ==
  ASSUME IInv, NEW c \in CPU, Arrive(c), ElementAssumption
  PROVE  IInv'
<1>1. PICK x \in Input :
        hook' = [hook EXCEPT ![c] = {[ts |-> clock', intf |-> x.intf, dir |-> x.dir,
                                      tls |-> x.tls]}]
  BY DEF Arrive
<1>2. clock' \in 1..MaxPackets
  BY DEF Arrive, IInv, TypeOK, ElementAssumption
<1>3. [ts |-> clock', intf |-> x.intf, dir |-> x.dir, tls |-> x.tls] \in Packet
  BY <1>2 DEF Packet, ElementAssumption
<1>4. hook' \in [CPU -> SUBSET Packet]
  BY <1>1, <1>3 DEF IInv, TypeOK
<1>5. TypeOK'
  BY <1>2, <1>4 DEF Arrive, IInv, TypeOK, ElementAssumption
<1>. QED
  BY <1>5 DEF Arrive, IInv, ListInv, SeenListedOrMissed, Seen, CapacityReached

\* A write of the element keeps the invariant (creation, then the branches of
\* update_existing_flow).
LEMMA InvApply ==
  ASSUME IInv, NEW c \in CPU, Apply(c), ElementAssumption
  PROVE  IInv'
<1>1. PICK p \in hook[c] :
        /\ hook' = [hook EXCEPT ![c] = {}]
        /\ seen' = Append(seen, p)
        /\ \/ elem = {} /\ elem' = {NewFlow(p)} /\ UNCHANGED missed
           \/ \E e \in elem :
                /\ elem' = {UpdateExistingFlow(e, p)}
                /\ missed' = IF CountsMissed(e, p) THEN missed + 1 ELSE missed
        /\ UNCHANGED clock
  BY DEF Apply
<1>2. p \in Packet /\ missed \in Nat
  BY DEF IInv, TypeOK
<1>3. hook' \in [CPU -> SUBSET Packet] /\ clock' \in 0..MaxPackets /\ seen' \in Seq(Packet)
  BY <1>1, <1>2 DEF IInv, TypeOK
<1>4. Seen' = Seen \cup {p}
  <2>1. seen \in Seq(Packet) /\ DOMAIN seen = 1..Len(seen) /\ Len(seen) \in Nat
    BY DEF IInv, TypeOK
  <2>2. DOMAIN seen' = 1..(Len(seen) + 1)
    BY <1>1, <1>2, <2>1
  <2>3. \A k \in DOMAIN seen : seen'[k] = seen[k]
    BY <1>1, <1>2, <2>1
  <2>4. seen'[Len(seen) + 1] = p
    BY <1>1, <1>2, <2>1
  <2>5. \A k \in DOMAIN seen' : k \in DOMAIN seen \/ k = Len(seen) + 1
    BY <2>1, <2>2
  <2>6. DOMAIN seen \subseteq DOMAIN seen' /\ Len(seen) + 1 \in DOMAIN seen'
    BY <2>1, <2>2
  <2>. QED
    BY <2>3, <2>4, <2>5, <2>6 DEF Seen
<1>5. seen' # << >>
  BY <1>1, <1>2 DEF IInv, TypeOK
<1>6. CASE elem = {} /\ elem' = {NewFlow(p)} /\ UNCHANGED missed
  <2>. MaxObserved \in Nat
    BY DEF ElementAssumption
  <2>1. TypeOK'
    BY <1>2, <1>3, <1>6, NewType DEF IInv, TypeOK
  <2>2. ListInv'
    BY <1>2, <1>6, NewType DEF ListInv
  <2>3. Seen' = {p}
    <3>1. seen = << >>
      BY <1>6 DEF IInv
    <3>2. Seen = {}
      BY <3>1 DEF Seen
    <3>. QED
      BY <1>4, <3>2
  <2>4. SeenListedOrMissed'
    BY <1>2, <1>6, <2>3, NewType DEF SeenListedOrMissed
  <2>. QED
    BY <1>5, <1>6, <2>1, <2>2, <2>4 DEF IInv
<1>7. ASSUME NEW e \in elem,
             elem' = {UpdateExistingFlow(e, p)},
             missed' = IF CountsMissed(e, p) THEN missed + 1 ELSE missed
      PROVE  IInv'
  <2> DEFINE u == UpdateExistingFlow(e, p)
             new == AddObservedIntf(e, p)
  <2>1. e \in Element /\ Len(e.observed) <= MaxObserved /\ e.observed \in Seq(Observed)
    BY DEF IInv, TypeOK, Element
  <2>2. /\ u \in Element
        /\ u.first = e.first
        /\ u.observed = IF IsOther(e, p) THEN new ELSE e.observed
    BY <1>2, <2>1, UpdateType
  <2>3. /\ new \in Seq(Observed)
        /\ Len(new) <= MaxObserved
        /\ \/ /\ Len(new) = Len(e.observed)
              /\ \A k \in DOMAIN e.observed : new[k].intf = e.observed[k].intf
              /\ \/ CapacityReached(e)
                 \/ \E k \in DOMAIN e.observed : e.observed[k].intf = p.intf
           \/ /\ Len(new) = Len(e.observed) + 1
              /\ \A k \in DOMAIN e.observed : new[k] = e.observed[k]
              /\ new[Len(new)].intf = p.intf
              /\ \A k \in DOMAIN e.observed : e.observed[k].intf # p.intf
    BY <1>2, <2>1, AddObserved
  <2> HIDE DEF u, new
  <2>4. missed' \in Nat /\ missed' >= missed /\ (CountsMissed(e, p) => missed' > 0)
    BY <1>2, <1>7
  <2>5. elem' = {u}
    BY <1>7 DEF u
  <2>6. TypeOK'
    BY <1>3, <2>1, <2>2, <2>3, <2>4, <2>5 DEF TypeOK
  <2>7. DOMAIN e.observed = 1..Len(e.observed) /\ DOMAIN new = 1..Len(new)
        /\ Len(e.observed) \in Nat
    BY <2>1, <2>3
  <2> DEFINE Same == /\ Len(new) = Len(e.observed)
                     /\ \A k \in DOMAIN e.observed : new[k].intf = e.observed[k].intf
             Grown == /\ Len(new) = Len(e.observed) + 1
                      /\ \A k \in DOMAIN e.observed : new[k].intf = e.observed[k].intf
                      /\ new[Len(new)].intf = p.intf
                      /\ \A k \in DOMAIN e.observed : e.observed[k].intf # p.intf
  <2>8. /\ \/ Same /\ (CapacityReached(e) \/ \E k \in DOMAIN e.observed : e.observed[k].intf = p.intf)
           \/ Grown
        /\ \A k \in DOMAIN e.observed : k \in DOMAIN new /\ new[k].intf = e.observed[k].intf
        /\ Len(new) >= Len(e.observed)
    <3>1. CASE /\ Len(new) = Len(e.observed)
               /\ \A k \in DOMAIN e.observed : new[k].intf = e.observed[k].intf
               /\ \/ CapacityReached(e)
                  \/ \E k \in DOMAIN e.observed : e.observed[k].intf = p.intf
      <4>1. DOMAIN new = DOMAIN e.observed /\ Len(new) >= Len(e.observed)
        BY <2>7, <3>1
      <4>. QED
        BY <3>1, <4>1
    <3>2. CASE /\ Len(new) = Len(e.observed) + 1
               /\ \A k \in DOMAIN e.observed : new[k] = e.observed[k]
               /\ new[Len(new)].intf = p.intf
               /\ \A k \in DOMAIN e.observed : e.observed[k].intf # p.intf
      <4>1. DOMAIN e.observed \subseteq DOMAIN new /\ Len(new) >= Len(e.observed)
        BY <2>7, <3>2
      <4>2. Grown
        BY <3>2
      <4>. QED
        BY <3>2, <4>1, <4>2
    <3>. QED
      BY <2>3, <3>1, <3>2
  <2>9. CapacityReached(e) => CapacityReached(u)
    <3>1. MaxObserved \in Nat /\ Len(new) \in Nat
      BY <2>3 DEF ElementAssumption
    <3>2. Len(u.observed) = Len(new) \/ Len(u.observed) = Len(e.observed)
      BY <2>2
    <3>3. Len(new) >= Len(e.observed) /\ Len(e.observed) \in Nat
      BY <2>7, <2>8
    <3>. QED
      BY <3>1, <3>2, <3>3 DEF CapacityReached
  <2>10. ListInv'
    <3>1. /\ \A k \in DOMAIN e.observed : e.observed[k].intf # e.first
          /\ \A j, k \in DOMAIN e.observed : e.observed[j].intf = e.observed[k].intf => j = k
      BY DEF IInv, ListInv
    <3>2. ASSUME IsOther(e, p)
          PROVE  /\ \A k \in DOMAIN new : new[k].intf # e.first
                 /\ \A j, k \in DOMAIN new : new[j].intf = new[k].intf => j = k
      <4>1. CASE Same
        <5>1. DOMAIN new = DOMAIN e.observed
          BY <2>7, <4>1
        <5>. QED
          BY <3>1, <4>1, <5>1
      <4>2. CASE Grown
        <5>1. \A k \in DOMAIN new : k \in DOMAIN e.observed \/ k = Len(new)
          BY <2>7, <4>2
        <5>2. p.intf # e.first
          BY <3>2 DEF IsOther
        <5>. QED
          BY <3>1, <4>2, <5>1, <5>2
      <4>. QED
        BY <2>8, <4>1, <4>2
    <3>. QED
      BY <2>2, <2>5, <3>1, <3>2 DEF ListInv
  <2>11. ASSUME NEW q \in Seen'
        PROVE  \/ q.intf \in {0, u.first}
               \/ \E k \in DOMAIN u.observed : u.observed[k].intf = q.intf
               \/ CapacityReached(u) /\ (HasProto => missed' > 0)
    <3>1. CASE q \in Seen
      <4>1. \/ q.intf \in {0, e.first}
            \/ \E k \in DOMAIN e.observed : e.observed[k].intf = q.intf
            \/ CapacityReached(e) /\ (HasProto => missed > 0)
        BY <3>1 DEF IInv, SeenListedOrMissed
      <4>2. \A k \in DOMAIN e.observed :
              k \in DOMAIN u.observed /\ u.observed[k].intf = e.observed[k].intf
        BY <2>2, <2>8
      <4>4. missed > 0 => missed' > 0
        BY <1>2, <2>4
      <4>. QED
        BY <2>2, <2>9, <4>1, <4>2, <4>4
    <3>2. CASE q = p /\ IsOther(e, p)
      <4>1. CASE CapacityReached(e)
        <5>2. HasProto => missed' > 0
          BY <2>4, <3>2, <4>1 DEF CountsMissed
        <5>. QED
          BY <2>9, <4>1, <5>2
      <4>2. CASE ~CapacityReached(e)
        <5>1. u.observed = new
          BY <2>2, <3>2
        <5>2. \E k \in DOMAIN new : new[k].intf = p.intf
          <6>1. CASE Same /\ \E k \in DOMAIN e.observed : e.observed[k].intf = p.intf
            BY <2>8, <6>1
          <6>2. CASE Grown
            <7>1. Len(new) \in DOMAIN new
              BY <2>7, <6>2
            <7>. QED
              BY <6>2, <7>1
          <6>. QED
            BY <2>8, <4>2, <6>1, <6>2
        <5>. QED
          BY <3>2, <5>1, <5>2
      <4>. QED
        BY <4>1, <4>2
    <3>3. CASE q = p /\ ~IsOther(e, p)
      BY <2>2, <3>3 DEF IsOther
    <3>. QED
      BY <1>4, <3>1, <3>2, <3>3
  <2>12. SeenListedOrMissed'
    BY <2>5, <2>11 DEF SeenListedOrMissed, CapacityReached
  <2>. QED
    BY <1>5, <2>5, <2>6, <2>10, <2>12 DEF IInv
<1>. QED
  BY <1>1, <1>6, <1>7

\* The inductive invariant: types, the list without repetition, and every interface
\* seen being listed or missed (flow_monitor, update_existing_flow).
THEOREM Invariance == Spec => []IInv
<1> USE ElementAssumption
<1>1. Init => IInv
  BY InvInit
<1>2. IInv /\ [Next]_vars => IInv'
  <2>1. ASSUME IInv, Next PROVE IInv'
    BY <2>1, InvArrive, InvApply DEF Next
  <2>2. ASSUME IInv, UNCHANGED vars PROVE IInv'
    BY <2>2 DEF vars, IInv, TypeOK, ListInv, SeenListedOrMissed, Seen, CapacityReached
  <2>. QED
    BY <2>1, <2>2
<1>. QED
  BY <1>1, <1>2, PTL DEF Spec

\* The element always has its type, and its observed list never outgrows
\* MAX_OBSERVED_INTERFACES (the arrays of flow_metrics_t).
THEOREM ElementTypeCorrect == Spec => []TypeOK
<1>1. IInv => TypeOK
  BY DEF IInv
<1>. QED
  BY <1>1, Invariance, PTL

\* A record never lists an interface twice, for any number of CPUs, interfaces
\* and packets (add_observed_intf).
THEOREM ListedOnce == Spec => []InterfacesListedOnce
<1>1. ASSUME IInv PROVE InterfacesListedOnce
  <2> SUFFICES ASSUME NEW e \in elem,
                      NEW j \in DOMAIN RecordInterfaces(e),
                      NEW k \in DOMAIN RecordInterfaces(e),
                      RecordInterfaces(e)[j] = RecordInterfaces(e)[k]
               PROVE  j = k
    BY DEF InterfacesListedOnce
  <2>1. e.observed \in Seq(Observed)
    BY <1>1 DEF IInv, TypeOK, Element
  <2>2. DOMAIN e.observed = 1..Len(e.observed) /\ Len(e.observed) \in Nat
    BY <2>1
  <2>3. j \in 1..(Len(e.observed) + 1) /\ k \in 1..(Len(e.observed) + 1)
    BY DEF RecordInterfaces
  <2>4. /\ \A i \in DOMAIN e.observed : e.observed[i].intf # e.first
        /\ \A i, l \in DOMAIN e.observed : e.observed[i].intf = e.observed[l].intf => i = l
    BY <1>1 DEF IInv, ListInv
  <2>5. /\ j # 1 => j - 1 \in DOMAIN e.observed
        /\ k # 1 => k - 1 \in DOMAIN e.observed
    BY <2>2, <2>3
  <2>6. /\ RecordInterfaces(e)[j] = IF j = 1 THEN e.first ELSE e.observed[j - 1].intf
        /\ RecordInterfaces(e)[k] = IF k = 1 THEN e.first ELSE e.observed[k - 1].intf
    BY <2>3 DEF RecordInterfaces
  <2>7. CASE j = 1 \/ k = 1
    BY <2>4, <2>5, <2>6, <2>7
  <2>8. CASE j # 1 /\ k # 1
    <3>1. j - 1 = k - 1
      BY <2>4, <2>5, <2>6, <2>8
    <3>. QED
      BY <2>3, <3>1
  <2>. QED
    BY <2>7, <2>8
<1>. QED
  BY <1>1, Invariance, PTL

\* An interface that saw the flow is in the record, or the list was full and the
\* counter OBSERVED_INTF_MISSED was raised (update_existing_flow).
THEOREM SeenIsListed == Spec => []SeenListedOrMissed
<1>1. IInv => SeenListedOrMissed
  BY DEF IInv
<1>. QED
  BY <1>1, Invariance, PTL
=============================================================================
