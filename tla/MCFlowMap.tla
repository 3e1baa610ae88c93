------------------------------ MODULE MCFlowMap ------------------------------
(* Instances of FlowMap for TLC. *)
EXTENDS FlowMap, TLC

\* Two flows.  Packet 1 of f is seen by the hooks of two interfaces, packet 2
\* of f and packet 3 of g by one.
MCObs == {[flow |-> "f", intf |-> "eth0", pkt |-> 1],
          [flow |-> "f", intf |-> "eth1", pkt |-> 1],
          [flow |-> "f", intf |-> "eth0", pkt |-> 2],
          [flow |-> "g", intf |-> "eth0", pkt |-> 3]}

\* A third packet of f, so that two hooks can be writing the element of the first.
MCMoreObs == MCObs \cup {[flow |-> "f", intf |-> "eth0", pkt |-> 4]}
=============================================================================
