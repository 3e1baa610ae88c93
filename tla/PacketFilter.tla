----------------------------- MODULE PacketFilter -----------------------------
(***************************************************************************)
(* Parsing and rule-based filtering of one packet: FLOW_FILTER_RULES, the  *)
(* two LPM tries they are written to (pkg/tracer/attach/filter.go) and the *)
(* lookups that decide about a packet (bpf/common/filter.h,                *)
(* bpf/common/packet_utils.h).                                             *)
(*                                                                         *)
(* An address is the sequence of its bits, shorter for IPv4 than for IPv6, *)
(* and a CIDR is a prefix of such a sequence: two keys of the kernel's     *)
(* trie are the same entry when their prefixes are.                        *)
(***************************************************************************)
EXTENDS Integers, Sequences, FiniteSets, SequencesExt

CONSTANT PortMod    \* number of port numbers, 2^16

NoPorts == [single |-> 0, range |-> << >>, list |-> << >>]

\* A rule that matches every packet and has no action.
AnyRule ==
  [action |-> "none", direction |-> "none", ip_cidr |-> << >>, peer_cidr |-> {},
   protocol |-> "none", dst |-> NoPorts, src |-> NoPorts, port |-> NoPorts,
   tcp_flags |-> "none", icmp_type |-> 0, icmp_code |-> 0, drops |-> FALSE, sample |-> 0]
-----------------------------------------------------------------------------
(* From the rules to the tries *)

\* The ICMP type and code of a rule are not taken over.
ParseFlowFilterRules(rules) ==
  [i \in DOMAIN rules |-> [rules[i] EXCEPT !.icmp_type = 0, !.icmp_code = 0]]

\* getPortsFromString: no ports, unless there are two different ones and the first is not 0.
Ports(p, sorted) ==
  IF /\ Len(p) = 2
     /\ sorted => p[1] <= p[2]
     /\ p[1] # p[2] /\ p[1] # 0
    THEN p ELSE <<0, 0>>

\* A range goes before a list, a list before a single port (ConvertFilterPortsToInstr).
PortValue(c) ==
  LET range == IF c.range # << >> THEN Ports(c.range, TRUE)
               ELSE IF c.list # << >> THEN <<0, 0>> ELSE <<c.single % PortMod, 0>>
      list  == IF c.range # << >> THEN <<0, 0>> ELSE Ports(c.list, FALSE)
  IN  [start |-> range[1], end |-> range[2], p1 |-> list[1], p2 |-> list[2]]

FlagNames == {"SYN", "SYN-ACK", "ACK", "FIN", "RST", "PUSH", "URG", "ECE", "CWR", "FIN-ACK", "RST-ACK"}

getFilterValue(c) ==
  [action |-> c.action, direction |-> c.direction, protocol |-> c.protocol,
   dst |-> PortValue(c.dst), src |-> PortValue(c.src), port |-> PortValue(c.port),
   icmpType |-> c.icmp_type, icmpCode |-> c.icmp_code,
   tcpFlags |-> IF c.tcp_flags \in FlagNames THEN c.tcp_flags ELSE "none",
   filter_drops |-> c.drops, sample |-> c.sample,
   do_peerCIDR_lookup |-> c.peer_cidr # {}]

\* The last rule written for a prefix stays.
LastFor(rules, prefix) ==
  rules[CHOOSE i \in DOMAIN rules :
          /\ rules[i].ip_cidr = prefix
          /\ \A j \in DOMAIN rules : rules[j].ip_cidr = prefix => j <= i]

\* ProgramFilter
ProgramFilter(rules) ==
  LET cfg == ParseFlowFilterRules(rules)
  IN  [filter_map |-> [k \in {cfg[i].ip_cidr : i \in DOMAIN cfg} |-> getFilterValue(LastFor(cfg, k))],
       peer_filter_map |-> UNION {cfg[i].peer_cidr : i \in DOMAIN cfg}]

\* Mutant: only the first rule is asked.
HasSampling_First(rules) == rules # << >> /\ rules[1].sample > 0

HasSampling(rules) == \E i \in DOMAIN rules : rules[i].sample > 0
-----------------------------------------------------------------------------
(* Parsing *)

\* The flag that stands for the bits of a TCP header: the first of these whose bits are set.
FlagOf == << <<"SYN-ACK", {"ack", "syn"}>>, <<"FIN-ACK", {"ack", "fin"}>>,
             <<"RST-ACK", {"ack", "rst"}>>, <<"FIN", {"fin"}>>, <<"SYN", {"syn"}>>,
             <<"ACK", {"ack"}>>, <<"RST", {"rst"}>>, <<"PUSH", {"psh"}>>,
             <<"URG", {"urg"}>>, <<"ECE", {"ece"}>>, <<"CWR", {"cwr"}>> >>

set_flags(bits) ==
  LET i == SelectInSeq(FlagOf, LAMBDA f : f[2] \subseteq bits)
  IN  IF i = 0 THEN "none" ELSE FlagOf[i][1]

\* A packet that is not IP, or whose Ethernet or IP header is cut off, has ip FALSE.
fill_ethhdr(p) == IF p.ip THEN "SUBMIT" ELSE "DISCARD"

\* fill_l4info: the fields of a transport header that is cut off stay zero.
fill_l4info(p) ==
  LET known == p.l4 /\ p.proto \in {"TCP", "UDP", "SCTP", "ICMP", "ICMPv6"}
      ports == known /\ p.proto \in {"TCP", "UDP", "SCTP"}
      icmp  == known /\ ~ports
  IN  [src |-> p.src, dst |-> p.dst, proto |-> p.proto,
       sport |-> IF ports THEN p.sport ELSE 0, dport |-> IF ports THEN p.dport ELSE 0,
       icmp_type |-> IF icmp THEN p.icmp[1] ELSE 0, icmp_code |-> IF icmp THEN p.icmp[2] ELSE 0,
       flags |-> IF known /\ p.proto = "TCP" THEN set_flags(p.bits) ELSE "none",
       l4_hdr |-> known]
-----------------------------------------------------------------------------
(* Lookups *)

Matching(prefixes, addr) == {k \in prefixes : IsPrefix(k, addr)}

\* The entry of an LPM trie that an address finds.
Longest(prefixes, addr) ==
  CHOOSE k \in Matching(prefixes, addr) : \A l \in Matching(prefixes, addr) : Len(l) <= Len(k)

\* A single port or two are compared with the unset ones too: port 0 is always among them.
PortsMatch(v, ports) ==
  IF (v.start # 0 /\ v.end = 0) \/ v.p1 # 0 \/ v.p2 # 0
    THEN ports \cap {v.start, v.p1, v.p2} # {}
    ELSE v.start # 0 /\ v.end # 0 => \E p \in ports : v.start <= p /\ p <= v.end

\* Everything of a rule except its addresses.
RuleMatches(rule, id, direction, drop_reason) ==
  /\ rule.protocol \in {id.proto, "none"}
  /\ id.proto \in {"TCP", "UDP", "SCTP"} =>
       /\ PortsMatch(rule.dst, {id.dport})
       /\ PortsMatch(rule.src, {id.sport})
       /\ PortsMatch(rule.port, {id.sport, id.dport})
       /\ id.proto = "TCP" /\ rule.tcpFlags # "none" => rule.tcpFlags = id.flags
  /\ id.proto \in {"ICMP", "ICMPv6"} /\ rule.icmpType # 0 =>
       /\ rule.icmpType = id.icmp_type
       /\ rule.icmpCode # 0 => rule.icmpCode = id.icmp_code
  /\ rule.direction \in {direction, "none"}
  /\ rule.filter_drops => drop_reason # 0

\* Mutant: a failed peer lookup keeps the action.
do_filter_lookup_NoReset(maps, id, direction, drop_reason, addr, peer, st) ==
  LET keys == DOMAIN maps.filter_map
      rule == maps.filter_map[Longest(keys, addr)]
      peered == rule.do_peerCIDR_lookup => Matching(maps.peer_filter_map, peer) # {}
  IN  IF Matching(keys, addr) = {} THEN [st EXCEPT !.result = FALSE]
      ELSE [result   |-> peered /\ RuleMatches(rule, id, direction, drop_reason),
            action   |-> IF rule.action # "none" THEN rule.action ELSE st.action,
            sampling |-> IF rule.sample # 0 THEN rule.sample ELSE st.sampling]

\* do_filter_lookup of an address, the other end being the peer.  A rule that does not match
\* leaves its action and its sampling behind, unless its peer lookup fails.
do_filter_lookup(maps, id, direction, drop_reason, addr, peer, st) ==
  LET keys == DOMAIN maps.filter_map
      rule == maps.filter_map[Longest(keys, addr)]
  IN  IF Matching(keys, addr) = {} THEN [st EXCEPT !.result = FALSE]
      ELSE IF rule.do_peerCIDR_lookup /\ Matching(maps.peer_filter_map, peer) = {}
        THEN [st EXCEPT !.result = FALSE, !.action = "none"]
        ELSE [result   |-> RuleMatches(rule, id, direction, drop_reason),
              action   |-> IF rule.action # "none" THEN rule.action ELSE st.action,
              sampling |-> IF rule.sample # 0 THEN rule.sample ELSE st.sampling]

matches_filter(maps, id, direction, drop_reason, sampling) ==
  LET first == do_filter_lookup(maps, id, direction, drop_reason, id.src, id.dst,
                                [result |-> FALSE, action |-> "none", sampling |-> sampling])
  IN  IF first.result THEN first
      ELSE do_filter_lookup(maps, id, direction, drop_reason, id.dst, id.src, first)

\* Without rules the filter is off (the packet is kept and not counted).
check_and_apply_filter(enabled, maps, id, direction, drop_reason, sampling) ==
  LET m == matches_filter(maps, id, direction, drop_reason, sampling)
  IN  IF ~enabled THEN [skip |-> FALSE, counter |-> "none", sampling |-> sampling]
      ELSE IF m.result /\ m.action # "none"
        THEN [skip |-> m.action = "Reject", counter |-> m.action, sampling |-> m.sampling]
        ELSE [skip |-> m.action # "Reject", counter |-> "NoMatch", sampling |-> m.sampling]
=============================================================================
