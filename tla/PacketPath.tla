------------------------------ MODULE PacketPath ------------------------------
(***************************************************************************)
(* A packet on its way through the TC hooks, up to the flow map:           *)
(* flow_monitor (bpf/flows/flows.c) samples it, parses it, filters it and  *)
(* hands it to the DNS, TLS and QUIC trackers; export_packet_payload       *)
(* (bpf/packets/packet_capture.h) samples, filters and captures it.  The   *)
(* hooks run on several CPUs.  What happens to a packet in the flow map    *)
(* and in the secondary maps is in FlowMap and SecondaryMaps.              *)
(*                                                                         *)
(* An agent is configured once: a scenario is a configuration together     *)
(* with the packets that its hooks meet.  A packet met several times is a  *)
(* packet seen at several interfaces, or sent again.                       *)
(***************************************************************************)
EXTENDS PacketFilter, DnsTracker, TlsTracker, QuicTracker

CONSTANTS NCPU,         \* number of CPUs
          Scenarios,    \* records: mode, rules, sampling, dns, tls, quic, traffic, cpus, max
          Traffic,      \* the packets of each kind of traffic
          MaxPayload    \* MAX_PAYLOAD_SIZE

CPU == 1..NCPU

VARIABLES
  scen,          \* the scenario
  arrived,       \* number of packets so far, at most scen.max
  cpu,           \* of each CPU: the packet in hand or the last one, and what was found out
  do_sampling    \* whether the other hooks look at their packets

vars == <<scen, arrived, cpu, do_sampling, dnsVars>>

Idle == [next |-> "idle"]

\* rate: what the record says; drawn: what the packet was drawn with, 0 for no draw.
\* off (history): another CPU's packet lost its draw while this one was in hand.
Run(p) == [next |-> "done", p |-> p, verdict |-> "kept", counter |-> "none", rate |-> 0, drawn |-> 0,
           dns |-> NoDns, tls |-> NoTls, quic |-> "not_quic", len |-> 0, off |-> FALSE]

InHand(c) == cpu[c].next \notin {"idle", "done"}

Init ==
  /\ scen \in Scenarios
  /\ arrived = 0
  /\ cpu = [c \in CPU |-> Idle]
  /\ do_sampling = FALSE
  /\ DnsInit

\* The next packet for a CPU whose last one is done.
Arrive(c, p) ==
  /\ cpu[c].next \in {"idle", "done"}
  /\ c <= scen.cpus /\ arrived < scen.max
  /\ p \in Traffic[scen.traffic]
  /\ arrived' = arrived + 1

\* A packet is looked at, or not if its rate is above 1.
Draw(rate) == IF rate > 1 THEN BOOLEAN ELSE {TRUE}

\* Neither of the hooks knows of a drop.
Filtered(p, sampling) ==
  check_and_apply_filter(scen.rules # << >>, ProgramFilter(scen.rules), fill_l4info(p),
                         p.direction, 0, sampling)

\* Mutant: a draw after the filter does not switch the hooks on.
HooksOn_EarlyOnly(first, parsed, looked) ==
  IF first THEN looked ELSE IF parsed /\ ~looked THEN FALSE ELSE do_sampling

\* do_sampling after a packet; one that is not IP comes to no draw if the filter is first.
HooksOn(first, parsed, looked) == IF first \/ parsed THEN looked ELSE do_sampling

\* flow_monitor up to the trackers.  Without a rule that samples, the draw comes first;
\* otherwise the filter runs first and its rule has a say.
flow_monitor(c, p) ==
  LET first == ~HasSampling(scen.rules)
      parsed == fill_ethhdr(p) = "SUBMIT"
      f     == Filtered(p, IF first THEN scen.sampling ELSE 0)
      rate  == IF ~first /\ f.sampling = 0 THEN scen.sampling ELSE f.sampling
      draw  == IF first THEN scen.sampling ELSE IF parsed THEN rate ELSE 0
  IN  /\ scen.mode = "flows" /\ Arrive(c, p)
      /\ \E looked \in Draw(draw) :
           LET run == [Run(p) EXCEPT !.drawn = IF draw > 1 THEN draw ELSE 0]
               filtered == parsed /\ (looked \/ ~first)
               counted == [run EXCEPT !.counter = IF filtered THEN f.counter ELSE "none"]
               result ==
                 IF ~looked THEN [counted EXCEPT !.verdict = "unsampled"]
                 ELSE IF ~parsed THEN [counted EXCEPT !.verdict = "discarded"]
                 ELSE IF f.skip THEN [counted EXCEPT !.verdict = "skipped"]
                 ELSE [counted EXCEPT !.rate = rate, !.next = "trackers"]
           IN  /\ do_sampling' = HooksOn(first, parsed, looked)
               /\ cpu' = [d \in CPU |-> IF d = c THEN result
                                        ELSE IF ~looked /\ InHand(d) THEN [cpu[d] EXCEPT !.off = TRUE]
                                        ELSE cpu[d]]
      /\ UNCHANGED <<scen, dnsVars>>

\* track_dns_packet takes the time ...
track_dns_packet(c) ==
  /\ cpu[c].next = "trackers"
  /\ LET p == cpu[c].p
         id == fill_l4info(p)
     IN  cpu' = [cpu EXCEPT ![c] = IF scen.dns /\ (is_dns_port(id.dport) \/ is_dns_port(id.sport))
                                     THEN DnsHeader(@, id, p) ELSE [@ EXCEPT !.next = "track"]]
  /\ UNCHANGED <<scen, arrived, do_sampling, dnsVars>>

\* ... and keeps it for a query, ...
StoreQuery(c) ==
  /\ cpu[c].next = "insert"
  /\ DnsInsert(cpu[c])
  /\ LET r == InsertResult(cpu[c])
         overtakes(d) == /\ r.dns.errno = "none"
                         /\ cpu[d].next = "lookup" /\ cpu[d].dns.key = r.dns.key
     IN  cpu' = [d \in CPU |-> IF d = c THEN r
                               ELSE IF overtakes(d) THEN [cpu[d] EXCEPT !.dns.raced = TRUE] ELSE cpu[d]]
  /\ UNCHANGED <<scen, arrived, do_sampling, clock, sweep>>

\* ... or compares it with that of the query of an answer, ...
FindQuery(c) ==
  /\ cpu[c].next = "lookup"
  /\ cpu' = [cpu EXCEPT ![c] = DnsLookup(@)]
  /\ UNCHANGED <<scen, arrived, do_sampling, dnsVars>>

\* ... which it then deletes.
DeleteQuery(c) ==
  /\ cpu[c].next = "delete"
  /\ DnsDelete(cpu[c])
  /\ cpu' = [cpu EXCEPT ![c].next = "track"]
  /\ UNCHANGED <<scen, arrived, do_sampling, clock, inserts, sweep>>

\* track_tls and track_quic_packet; the packet goes on to the maps, with the DNS metrics.
Track(c) ==
  /\ cpu[c].next = "track"
  /\ LET p == cpu[c].p
         id == fill_l4info(p)
     IN  cpu' = [cpu EXCEPT ![c].next = "done", ![c].dns = NoDns,
                            ![c].tls = IF scen.tls THEN track_tls(id, p.doff, p.segment) ELSE NoTls,
                            ![c].quic = track_quic_packet(scen.quic, id, p.udp_len, p.payload)]
  /\ UNCHANGED <<scen, arrived, do_sampling, dnsVars>>

\* The draw comes first, and rules have no rates; the ring buffer may be full.
export_packet_payload(c, p) ==
  LET f == Filtered(p, 0)
  IN  /\ scen.mode = "packets" /\ Arrive(c, p)
      /\ \E looked \in Draw(scen.sampling), reserved \in BOOLEAN :
           LET run == [Run(p) EXCEPT !.rate = scen.sampling,
                                     !.drawn = IF scen.sampling > 1 THEN scen.sampling ELSE 0]
               counted == [run EXCEPT !.counter = f.counter]
           IN  cpu' = [cpu EXCEPT ![c] =
                 IF ~looked THEN [run EXCEPT !.verdict = "unsampled"]
                 ELSE IF fill_ethhdr(p) = "DISCARD" THEN [run EXCEPT !.verdict = "discarded"]
                 ELSE IF f.skip THEN [counted EXCEPT !.verdict = "skipped"]
                 ELSE IF ~reserved \/ p.len = 0 THEN [counted EXCEPT !.verdict = "lost"]
                 ELSE [counted EXCEPT !.len = IF p.len > MaxPayload THEN MaxPayload ELSE p.len]]
      /\ UNCHANGED <<scen, do_sampling, dnsVars>>

Packets ==
  \E c \in CPU :
    \/ \E p \in Traffic[scen.traffic] : flow_monitor(c, p) \/ export_packet_payload(c, p)
    \/ track_dns_packet(c) \/ StoreQuery(c) \/ FindQuery(c) \/ DeleteQuery(c) \/ Track(c)

Sweep ==
  /\ \/ SweepStart \/ SweepVisited \/ SweepEnd
     \/ \E k \in DOMAIN dns_flows : SweepVisit(k)
     \/ \E k \in sweep.keysToDelete : SweepDelete(k)
  /\ UNCHANGED <<scen, arrived, cpu, do_sampling>>

\* Time matters to the DNS tracker only.
Time == scen.dns /\ Tick /\ UNCHANGED <<scen, arrived, cpu, do_sampling>>

Next == Packets \/ (scen.dns /\ Sweep) \/ Time

\* Time goes on, and evictions follow each other as long as the agent runs.
Spec == Init /\ [][Next]_vars /\ WF_vars(Time) /\ WF_vars(scen.dns /\ Sweep)
-----------------------------------------------------------------------------
(* Properties *)

\* The rules that cover an address and of which none with a longer prefix does.
Deciding(addr) ==
  LET rules == scen.rules
      covers == {i \in DOMAIN rules : IsPrefix(rules[i].ip_cidr, addr)}
  IN  {i \in covers : \A j \in covers : Len(rules[j].ip_cidr) <= Len(rules[i].ip_cidr)}

PeerIn(I, peer) == \E i \in I : \E k \in scen.rules[i].peer_cidr : IsPrefix(k, peer)

PeerFits(i, peer) == scen.rules[i].peer_cidr # {} => PeerIn({i}, peer)

\* One of the ports is configured.  A range that does not go up from at least 1, a list
\* that starts with 0 or repeats a port and the single port 0 configure nothing.
PortFits(c, ports) ==
  CASE c.range # << >> -> c.range[1] = 0 \/ c.range[1] >= c.range[2] \/ \E x \in ports : c.range[1] <= x /\ x <= c.range[2]
    [] c.range = << >> /\ c.list # << >> -> c.list[1] \in {0, c.list[2]} \/ ports \cap Range(c.list) # {}
    [] OTHER -> c.single % PortMod \in {0} \cup ports

\* The documented name of a flag.
FlagCalled(name) == CASE name = "PSH" -> "PUSH" [] name = "RST_ACK" -> "RST-ACK" [] OTHER -> name

\* What a rule says about a packet, its addresses apart; a rule for drops fits none, as
\* these hooks see no drops.
Fits(i, p) ==
  LET r == scen.rules[i]
      id == fill_l4info(p)
  IN  /\ r.protocol \in {"none", p.proto}
      /\ p.proto \in {"TCP", "UDP", "SCTP"} =>
           PortFits(r.dst, {id.dport}) /\ PortFits(r.src, {id.sport}) /\ PortFits(r.port, {id.dport, id.sport})
      /\ p.proto = "TCP" /\ r.tcp_flags # "none" => FlagCalled(r.tcp_flags) = id.flags
      /\ p.proto \in {"ICMP", "ICMPv6"} =>
           r.icmp_type \in {0, id.icmp_type} /\ r.icmp_code \in {0, id.icmp_code}
      /\ r.direction \in {"none", p.direction}
      /\ ~r.drops

\* The rule that fits a packet, as a set: that of the source goes first.
Fitting(p) ==
  LET source == {i \in Deciding(p.src) : PeerFits(i, p.dst) /\ Fits(i, p)}
  IN  IF source # {} THEN source ELSE {i \in Deciding(p.dst) : PeerFits(i, p.src) /\ Fits(i, p)}

\* The last rule that is asked about it, unless its peer is missing.
LastAsked(p) ==
  IF Deciding(p.dst) # {} THEN {i \in Deciding(p.dst) : PeerFits(i, p.src)}
                          ELSE {i \in Deciding(p.src) : PeerFits(i, p.dst)}

\* The code departs from docs/flow_filtering.md for a rule and a packet with this peer: the
\* peer is another rule's (lines 50-51), the default action (34) is not taken, the name of a
\* flag is unknown (52), the ICMP type and code are dropped (48-49), or port 0, which also
\* stands for a header that is cut off, passes for any single port and any list (39-47).
RuleDeparts(i, p, peer) ==
  LET r == scen.rules[i]
      id == fill_l4info(p)
  IN  \/ r.peer_cidr # {} /\ ~PeerIn({i}, peer) /\ PeerIn(DOMAIN scen.rules, peer)
      \/ r.action = "none"
      \/ p.proto = "TCP" /\ r.tcp_flags \notin FlagNames \cup {"none"}
      \/ p.proto \in {"ICMP", "ICMPv6"} /\ (r.icmp_type # 0 \/ r.icmp_code # 0)
      \/ /\ p.proto \in {"TCP", "UDP", "SCTP"} /\ 0 \in {id.sport, id.dport}
         /\ \E c \in {r.dst, r.src, r.port} : c # NoPorts /\ c.range = << >>

\* ... or two rules have the same ip_cidr: only the later one counts, although with different
\* peers both are allowed (58).
Departs(p) ==
  \/ Cardinality(Deciding(p.src)) > 1 \/ Cardinality(Deciding(p.dst)) > 1
  \/ \E i \in Deciding(p.src) : RuleDeparts(i, p, p.dst)
  \/ \E i \in Deciding(p.dst) : RuleDeparts(i, p, p.src)

ActionOf(I) == {scen.rules[i].action : i \in I}

Done(c) == cpu[c].next = "done"

\* The verdict on a packet is the documented one (docs/flow_filtering.md), save for the
\* cases that Departs lists.  Of the rules that cover the source only the one with the
\* longest ip_cidr is asked, then the one for the destination; a rule whose own peer and
\* whose other settings fit accepts or rejects.  If none fits, the packet is kept exactly
\* if the last rule that was asked is a Reject rule whose peer was there
\* (check_and_apply_filter), whatever the other rules say.
VerdictByRules ==
  scen.rules # << >> =>
    \A c \in CPU : Done(c) /\ cpu[c].counter # "none" /\ ~Departs(cpu[c].p) =>
      LET p == cpu[c].p
          fits == Fitting(p) # {}
      IN  /\ cpu[c].counter \in IF fits THEN ActionOf(Fitting(p)) ELSE {"NoMatch"}
          /\ cpu[c].verdict # "unsampled" =>
               (cpu[c].verdict # "skipped" <=>
                  IF fits THEN "Accept" \in ActionOf(Fitting(p)) ELSE "Reject" \in ActionOf(LastAsked(p)))

\* A packet that is kept was drawn once, with the rate that its record carries (HasSampling
\* in the agent and has_filter_sampling in the hook agree on where the draw is made).  It is
\* the rate of the rule that fits if that has one.  Otherwise it is the default rate or the
\* one that a rule for one of its ends left behind although it does not fit.
SampledAtRecordedRate ==
  \A c \in CPU : cpu[c].next # "idle" /\ cpu[c].verdict = "kept" =>
    LET p == cpu[c].p
        ratesOf(I) == {scen.rules[i].sample : i \in I} \ {0}
        own == IF Departs(p) THEN {} ELSE ratesOf(Fitting(p))
    IN  /\ cpu[c].rate > 1 => cpu[c].drawn = cpu[c].rate
        /\ cpu[c].rate <= 1 => cpu[c].drawn = 0
        /\ cpu[c].rate \in IF scen.mode = "flows" /\ own # {} THEN own
                           ELSE {scen.sampling} \cup ratesOf(Deciding(p.src) \cup Deciding(p.dst))

\* The hooks for drops, round trip times, translations, network events and IPsec are on
\* (do_sampling) from the draw of a packet that is kept until it reaches the maps, so that
\* they look at it as well, unless another CPU's packet lost its draw meanwhile: there is
\* one flag for all CPUs.
HooksOnForPacketInHand ==
  \A c \in CPU : InHand(c) => do_sampling \/ cpu[c].off

\* The latency of an answer is the time since its query.  It wraps around only if the query
\* was stored between the moment the answer took its time and its lookup (track_dns_packet
\* on two CPUs).
LatencyWrapsOnlyIfRaced ==
  \A c \in CPU : cpu[c].next \in {"delete", "track"} /\ cpu[c].dns.id # 0 /\ cpu[c].dns.errno = "none" =>
    \/ cpu[c].dns.latency = cpu[c].dns.ts - cpu[c].dns.query
    \/ cpu[c].dns.raced

\* The version reported for a hello of TLS 1.2 or 1.3 that is not cut off: of those a client
\* offers the highest known one, and the one a server selects if it also sends a key share;
\* without these extensions the version of the hello.  A hello that is cut off is never
\* reported as TLS 1.2 just because the tracker did not get to the extension that says
\* otherwise (tls_read_client_hello, tls_read_server_hello).
HelloVersionRead ==
  \A c \in CPU : Done(c) /\ cpu[c].tls.type \in {"client", "server"} =>
    LET s == cpu[c].p.segment
        version == cpu[c].tls.hello_version
        exts == Range(FirstOf(s.exts, MaxExts))
        offered == UNION {Range(FirstOf(e.vals, MaxVersions)) : e \in {x \in exts : x.type = "versions"}}
        known == {v \in offered : IS_KNOWN_VERSION_EXT(v)}
        shared == \E e \in exts : e.type = "key_share"
    IN  s.version = TLS12 =>
          /\ s.cut \/ version =
               (IF offered = {} \/ (cpu[c].tls.type = "server" /\ ~shared) THEN s.version
                ELSE Max(IF known # {} THEN known ELSE offered))
          /\ s.cut => version \in {0} \cup offered \/ offered = {} \/ (cpu[c].tls.type = "server" /\ ~shared)

\* A query leaves dns_flows only when its answer was found or when it is too old, as long as
\* its key was not used again: only then can the sweep, or a late answer, delete a query
\* that it has not seen.
RemovedWhenDone ==
  [][\A k \in DOMAIN dns_flows \ DOMAIN dns_flows' :
       \/ inserts[k] > 1
       \/ \E c \in CPU : cpu[c].next = "delete" /\ cpu[c].dns.key = k
       \/ clock - dns_flows[k] >= TimeOut]_vars

\* A query that is never answered does not stay in dns_flows: once it is too old, an
\* eviction removes it (DeleteMapsStaleEntries).
StaleQueriesSwept ==
  LET queries == {p \in UNION {Traffic[s.traffic] : s \in {t \in Scenarios : t.dns}} :
                    ~p.dns.response /\ p.dns.held /\ calc_dns_header_offset(fill_l4info(p), p) # 0}
  IN  \A k \in {fill_dns_id(fill_l4info(p), p.dns.id, FALSE) : p \in queries} :
        (k \in DOMAIN dns_flows /\ dns_flows[k] + TimeOut <= MaxTime) ~> (k \notin DOMAIN dns_flows)
=============================================================================
