------------------------------ MODULE MCGRPCProto ------------------------------
\* Small instances of GRPCProto: a batch of two messages and a half, one of one.
EXTENDS GRPCProto

MCBatches == << <<1, 2, 3, 4, 5>>, <<6, 7>>, <<8>> >>
=============================================================================
