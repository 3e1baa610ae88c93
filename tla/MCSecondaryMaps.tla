---------------------------- MODULE MCSecondaryMaps ----------------------------
(* Two addresses; the IPsec flows between them in both directions and both encapsulations *)
(* for the additional metrics, one flow for the other features.                            *)
EXTENDS SecondaryMaps

MCFlow(src, dst, proto) == [src |-> src, dst |-> dst, proto |-> proto]

MCFlowsOf ==
  [f \in {"drops", "additional", "dns", "quic", "xlat", "netev"} |->
     IF f = "additional"
       THEN {MCFlow("a", "b", "TCP"), MCFlow("a", "b", "ESP"), MCFlow("b", "a", "NATT")}
       ELSE {MCFlow("a", "b", "TCP")}]

\* Two drops of 2 bytes exceed MaxUint16 = 3; three events do not fit two slots.
MCEvents ==
  [drops      |-> {[len |-> 2, cause |-> 1], [len |-> 1, cause |-> 2]},
   additional |-> {[kind |-> "rtt", rtt |-> 1]},
   dns        |-> {[id |-> 1, errno |-> 0, latency |-> 2], [id |-> 2, errno |-> 1, latency |-> 0],
                   [id |-> 0, errno |-> 2, latency |-> 0]},
   quic       |-> {[long |-> TRUE, version |-> 0], [long |-> TRUE, version |-> 1],
                   [long |-> TRUE, version |-> 2], [long |-> FALSE, version |-> 0]},
   xlat       |-> {[tuple |-> 1], [tuple |-> 2]},
   netev      |-> {[md |-> 1, tail |-> 0], [md |-> 1, tail |-> 9], [md |-> 2, tail |-> 0],
                   [md |-> 3, tail |-> 0]}]

MCMaxEvents  == [f \in DOMAIN MCEvents |-> IF f = "additional" THEN 2 ELSE 3]
MCMaxFetches == [f \in DOMAIN MCEvents |-> IF f = "additional" THEN 1 ELSE 2]

MCIPsecRets == {-1, 0}
=============================================================================
