---------------------------- MODULE MCFlowElement ----------------------------
(* Instances of FlowElement: packets without TLS and hellos of two versions. *)
EXTENDS FlowElement, TLC

NoTls == [version |-> 0, type |-> "none", cipher |-> 0]

MCTls == {NoTls,
          [version |-> 1, type |-> "client", cipher |-> 0],
          [version |-> 2, type |-> "server", cipher |-> 7]}

\* Packets without TLS go anywhere, hellos through interface 1, and one through 2.
MCInput ==
  [intf : Intf, dir : Direction, tls : {NoTls}]
    \cup [intf : {1}, dir : {INGRESS}, tls : MCTls]
    \cup [intf : {2}, dir : {EGRESS}, tls : {t \in MCTls : t.type = "server"}]

\* CPUs are interchangeable.
Symmetry == Permutations(CPU)
=============================================================================
