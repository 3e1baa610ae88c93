---------------------------- MODULE MCPacketPath ----------------------------
(* Small configurations of the packet hooks, each with a few packets. *)
EXTENDS PacketPath

\* Addresses of two bits (IPv4) and of three (IPv6).
V4 == {<<a, b>> : a \in 0..1, b \in 0..1}

NoSegment == [content |-> "none", record |-> 0, handshake |-> "none", version |-> 0, cipher |-> 0,
              exts |-> << >>, loads |-> 0, cut |-> FALSE]

AnyPacket ==
  [ip |-> TRUE, src |-> <<0, 0>>, dst |-> <<1, 1>>, proto |-> "TCP", l4 |-> TRUE, sport |-> 5, dport |-> 7,
   icmp |-> <<0, 0>>, bits |-> {"ack"}, direction |-> "Ingress", len |-> 1,
   udp_len |-> 8, doff |-> 5, dns |-> [id |-> 0, response |-> FALSE, held |-> FALSE],
   segment |-> NoSegment, payload |-> [fixed |-> FALSE, long |-> FALSE, dcid_len |-> 0, scid_len |-> 0, held |-> 0]]

Plain == [mode |-> "flows", rules |-> << >>, sampling |-> 0, dns |-> FALSE, tls |-> FALSE,
          quic |-> "disabled", traffic |-> "fields", cpus |-> 1, max |-> 1]

\* Pairs of rules on addresses, peers and protocols; one of the packets is IPv6.
AddressRules ==
  {[AnyRule EXCEPT !.action = a, !.ip_cidr = k, !.peer_cidr = peer, !.protocol = q] :
     a \in {"Accept", "Reject"}, k \in {<< >>, <<0>>, <<0, 1>>}, peer \in {{}, {<<1>>}, {<<0, 0>>}},
     q \in {"none", "UDP"}}

AddressPackets ==
  {[AnyPacket EXCEPT !.src = s, !.dst = d] : s \in V4, d \in V4}
    \cup {[AnyPacket EXCEPT !.src = <<0, 1, 1>>, !.dst = <<1, 0, 0>>]}

AddressScenarios ==
  {[Plain EXCEPT !.rules = <<r, s>>, !.traffic = "addresses"] : r \in AddressRules, s \in AddressRules}

\* One rule at a time: ports, flags, ICMP, direction and drops.
PortRules ==
  {[AnyRule EXCEPT !.action = "Accept", !.dst = [NoPorts EXCEPT !.range = r]] : r \in {<<6, 8>>, <<8, 6>>, <<7, 7>>, <<0, 7>>}}
    \cup {[AnyRule EXCEPT !.action = "Reject", !.port = [NoPorts EXCEPT !.list = l]] : l \in {<<7, 5>>, <<3, 4>>, <<7, 0>>}}
    \cup {[AnyRule EXCEPT !.action = "Accept", !.src = [NoPorts EXCEPT !.single = n]] : n \in {5, 6, 65541}}
    \cup {[AnyRule EXCEPT !.action = "Reject", !.port = [single |-> 5, range |-> <<6, 8>>, list |-> <<1, 2>>]]}
FieldRules ==
  {[AnyRule EXCEPT !.action = "Accept", !.tcp_flags = f] : f \in {"SYN", "SYN-ACK", "ACK", "PSH", "PUSH"}}
    \cup {[AnyRule EXCEPT !.action = "Accept", !.protocol = "ICMP", !.icmp_type = 8],
          [AnyRule EXCEPT !.action = "Reject", !.direction = "Egress"],
          [AnyRule EXCEPT !.action = "Accept", !.drops = TRUE],
          AnyRule}

FieldPackets ==
  {[AnyPacket EXCEPT !.sport = n, !.dport = m] : n \in {5, 6}, m \in {0, 4, 7}}
    \cup {[AnyPacket EXCEPT !.bits = b] : b \in {{"syn"}, {"syn", "ack"}, {"psh"}, {"rst", "ack", "psh"}}}
    \cup {[AnyPacket EXCEPT !.proto = q, !.l4 = l, !.icmp = <<8, 0>>] : q \in {"UDP", "ICMP", "IGMP"}, l \in BOOLEAN}
    \cup {[AnyPacket EXCEPT !.direction = "Egress"],
          [AnyPacket EXCEPT !.ip = FALSE]}

FieldScenarios ==
  {[Plain EXCEPT !.rules = <<r>>, !.mode = m, !.sampling = n] :
     r \in PortRules \cup FieldRules, m \in {"flows", "packets"}, n \in {0, 2}}

\* Rules with rates of their own, met one packet after the other.
SamplingScenarios ==
  {[Plain EXCEPT !.rules = <<[AnyRule EXCEPT !.action = "Accept", !.sample = m],
                             [AnyRule EXCEPT !.action = "Reject", !.ip_cidr = <<1>>, !.sample = k, !.protocol = q]>>,
                 !.sampling = n, !.max = 2, !.traffic = "sampling"] :
     m \in {0, 3}, k \in {0, 1, 2}, q \in {"none", "UDP"}, n \in {0, 1, 4}}

\* The draws of two CPUs, before the filter and after it.
DrawScenarios ==
  {[Plain EXCEPT !.rules = r, !.sampling = 2, !.max = 3, !.cpus = 2, !.traffic = "sampling"] :
     r \in {<< >>, <<[AnyRule EXCEPT !.action = "Accept", !.sample = 3]>>}}

\* A query and its answer, seen again and again at two interfaces; malformed packets.
Query == [AnyPacket EXCEPT !.proto = "UDP", !.dport = 53, !.udp_len = 40, !.dns = [id |-> 9, response |-> FALSE, held |-> TRUE]]
Answer == [Query EXCEPT !.src = Query.dst, !.dst = Query.src, !.sport = 53, !.dport = 5, !.dns.response = TRUE]
OtherQuery == [Query EXCEPT !.dns.id = 8, !.proto = "TCP"]

Malformed ==
  {[Query EXCEPT !.udp_len = 260], [Query EXCEPT !.udp_len = 7], [Query EXCEPT !.udp_len = 600],
   [Query EXCEPT !.dns.held = FALSE], [Query EXCEPT !.proto = "SCTP"], [Query EXCEPT !.l4 = FALSE]}

DnsScenarios ==
  {[Plain EXCEPT !.dns = TRUE, !.traffic = "answers", !.cpus = 2, !.max = 3],
   [Plain EXCEPT !.dns = TRUE, !.traffic = "queries", !.max = 3],
   [Plain EXCEPT !.dns = TRUE, !.traffic = "malformed"]}

\* Hellos, whole or cut off.
Ext(t, v) == [type |-> t, vals |-> v]
ClientExts == {<< >>, <<Ext("other", <<0>>)>>, <<Ext("versions", <<56026, 772, 771>>)>>, <<Ext("other", <<0, 0>>), Ext("versions", <<771, 772>>)>>,
               <<Ext("versions", <<56026>>)>>, <<Ext("other", << >>), Ext("other", << >>), Ext("other", << >>), Ext("versions", <<772>>)>>}
ServerExts == {<< >>, <<Ext("versions", <<772>>)>>, <<Ext("key_share", <<29>>)>>, <<Ext("versions", <<772>>), Ext("other", <<0>>), Ext("key_share", <<29>>)>>,
               <<Ext("key_share", <<29>>), Ext("versions", <<772>>)>>}
Items(h, exts) == (IF h = "client_hello" THEN 7 ELSE 6) + Len(exts) + SumFunction([i \in DOMAIN exts |-> Len(exts[i].vals)])
Hello(h, v, exts, n) ==
  [content |-> "handshake", record |-> 769, handshake |-> h, version |-> v, cipher |-> 4865, exts |-> exts,
   loads |-> IF n < Items(h, exts) THEN n ELSE Items(h, exts), cut |-> n < Items(h, exts)]
Hellos ==
  {Hello("client_hello", v, e, n) : v \in {770, 771, 772}, e \in ClientExts, n \in 0..14}
    \cup {Hello("server_hello", v, e, n) : v \in {770, 771, 772}, e \in ServerExts, n \in 0..14}
Segments ==
  Hellos \cup {[Hello("other", 771, << >>, 14) EXCEPT !.content = t, !.record = r, !.handshake = h] :
               t \in {"handshake", "alert", "app_data", "none"}, r \in {771, 5}, h \in {"other", "none"}}

TlsPackets == {[AnyPacket EXCEPT !.segment = s, !.bits = b] : s \in Segments, b \in {{"ack", "psh"}, {"ack", "fin"}}}

\* QUIC packets around the sizes that are tested.
QuicPackets ==
  {[AnyPacket EXCEPT !.proto = "UDP", !.dport = d, !.udp_len = 8 + n, !.len = n,
      !.payload = [fixed |-> f, long |-> l, dcid_len |-> x, scid_len |-> 1, held |-> h]] :
    d \in {443, 7}, n \in {20, 21, 28, 29}, f \in BOOLEAN, l \in BOOLEAN, x \in {0, 20, 21}, h \in {0, 5, 27, 40}}

TrackerScenarios ==
  {[Plain EXCEPT !.tls = TRUE, !.traffic = "tls"]}
    \cup {[Plain EXCEPT !.quic = m, !.traffic = "quic"] : m \in {"disabled", "enabled", "any"}}

MCTraffic ==
  [fields |-> FieldPackets, addresses |-> AddressPackets,
   sampling |-> {AnyPacket, [AnyPacket EXCEPT !.src = <<1, 0>>], [AnyPacket EXCEPT !.ip = FALSE]},
   answers |-> {Query, Answer}, queries |-> {Query, OtherQuery}, malformed |-> Malformed,
   tls |-> TlsPackets, quic |-> QuicPackets]

MCScenarios ==
  AddressScenarios \cup FieldScenarios \cup SamplingScenarios \cup DrawScenarios \cup DnsScenarios \cup TrackerScenarios
=============================================================================
