------------------------------ MODULE Delivery ------------------------------
(***************************************************************************)
(* What the flow pipeline promises: every item (a flow read from the       *)
(* kernel map, or a packet read from the ring buffer) is taken from the    *)
(* kernel once and then exported once or dropped once, or is rejected when *)
(* it is taken.  Only after a stop was requested can an item be abandoned. *)
(***************************************************************************)
CONSTANT Item

VARIABLES source, transit, exported, dropped, stopping

vars == <<source, transit, exported, dropped, stopping>>

Init ==
  /\ source = Item
  /\ transit = {}
  /\ exported = {}
  /\ dropped = {}
  /\ stopping = FALSE

Take(S) ==
  /\ S \subseteq source
  /\ source' = source \ S
  /\ transit' = transit \cup S
  /\ UNCHANGED <<exported, dropped, stopping>>

Export(S) ==
  /\ S \subseteq transit
  /\ transit' = transit \ S
  /\ exported' = exported \cup S
  /\ UNCHANGED <<source, dropped, stopping>>

Drop(S) ==
  /\ S \subseteq transit
  /\ transit' = transit \ S
  /\ dropped' = dropped \cup S
  /\ UNCHANGED <<source, exported, stopping>>

Reject(S) ==
  /\ S \subseteq source
  /\ source' = source \ S
  /\ dropped' = dropped \cup S
  /\ UNCHANGED <<transit, exported, stopping>>

Stop ==
  /\ stopping' = TRUE
  /\ UNCHANGED <<source, transit, exported, dropped>>

Abandon(S) ==
  /\ stopping
  /\ S \subseteq transit
  /\ transit' = transit \ S
  /\ UNCHANGED <<source, exported, dropped, stopping>>

Next ==
  \/ Stop
  \/ \E S \in SUBSET Item : Take(S) \/ Export(S) \/ Drop(S) \/ Reject(S) \/ Abandon(S)

Spec == Init /\ [][Next]_vars
=============================================================================
