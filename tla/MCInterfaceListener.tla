------------------------ MODULE MCInterfaceListener ------------------------
(* An instance of InterfaceListener: an interface of the host, and one of the same name *)
(* in another namespace.                                                                *)
EXTENDS InterfaceListener

MCNamesakes == {[name |-> "eth0", ns |-> ""], [name |-> "eth0", ns |-> "pod"]}
=============================================================================
