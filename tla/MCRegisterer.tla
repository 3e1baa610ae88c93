----------------------------- MODULE MCRegisterer -----------------------------
\* Small instances of Registerer: the host and the namespace of a pod.
EXTENDS Registerer

Eth0   == [index |-> 2, name |-> "ens5", mac |-> "A", ns |-> ""]
PodEth == [index |-> 2, name |-> "eth0", mac |-> "B", ns |-> "pod"]
Moved  == [index |-> 2, name |-> "net1", mac |-> "A", ns |-> "pod"]

MCLinks == {Eth0, PodEth, Moved}
MCNamespaces == {"", "pod"}
MCPreferred == <<[macs |-> {"B"}, intf |-> "eth0"]>>

MCWatch == [informer |-> "watch", startNs |-> MCNamespaces, links |-> {Eth0, PodEth},
            lives |-> 1, changes |-> 1, refusals |-> TRUE, lookups |-> TRUE]
MCMove  == [informer |-> "watch", startNs |-> MCNamespaces, links |-> {Eth0, Moved},
            lives |-> 1, changes |-> 2, refusals |-> FALSE, lookups |-> FALSE]
MCReuse == [informer |-> "watch", startNs |-> {""}, links |-> {PodEth},
            lives |-> 2, changes |-> 2, refusals |-> FALSE, lookups |-> FALSE]
MCPoll  == [informer |-> "poll", startNs |-> {""}, links |-> {Eth0},
            lives |-> 1, changes |-> 3, refusals |-> FALSE, lookups |-> TRUE]
MCPollAll == [informer |-> "poll", startNs |-> MCNamespaces, links |-> {Eth0, PodEth},
              lives |-> 1, changes |-> 1, refusals |-> FALSE, lookups |-> FALSE]

MCScenarios == {MCWatch, MCMove, MCReuse, MCPoll, MCPollAll}
=============================================================================
