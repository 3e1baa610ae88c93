----------------------------- MODULE MCPipeline -----------------------------
(* Instances of Pipeline: a flow of the kernel map, and packets of one or of two *)
(* flows that go through the ring buffer.                                        *)
EXTENDS Pipeline

MCFlowOfs == {f \in [Item -> {"f", "g"}] : \A i \in Item \ {"r2"} : f[i] = "f"}
=============================================================================
