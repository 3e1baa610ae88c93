------------------------------ MODULE DnsTracker ------------------------------
(***************************************************************************)
(* DNS latency: the queries that wait for their answer (dns_flows), the    *)
(* steps of track_dns_packet on a CPU (bpf/dns_tracker.h) and the sweep of *)
(* stale queries at each eviction (lookupAndDeleteDNSMap in                *)
(* pkg/tracer/flows/fetcher.go).                                           *)
(*                                                                         *)
(* A key of dns_flows is the id, the protocol and both ends of a query.    *)
(* A step of the tracker takes the record of the packet in hand and gives  *)
(* the record with the result of the step; its field next is the step that *)
(* follows.                                                                *)
(***************************************************************************)
EXTENDS Integers, Sequences, FiniteSets

CONSTANTS ByteMod,     \* 2^8
          UDP_MAXMSG,  \* 512
          DnsPorts,    \* dns_ports
          TimeMod,     \* times wrap around here, 2^64
          TimeOut,     \* staleEntriesEvictTimeout
          MaxDns,      \* queries that dns_flows holds
          MaxTime      \* bound: the clock

VARIABLES
  clock,       \* bpf_ktime_get_ns and monotime.Now
  dns_flows,   \* the time of each query that waits for its answer
  inserts,     \* history: how often each key was inserted
  sweep        \* the sweep: its step, the time it read, the keys of the iteration, keys to delete

dnsVars == <<clock, dns_flows, inserts, sweep>>

NoSweep == [step |-> "idle", now |-> 0, due |-> {}, visited |-> {}, keysToDelete |-> {}]

DnsInit ==
  /\ clock = 0
  /\ dns_flows = << >> /\ inserts = << >>
  /\ sweep = NoSweep

Without(f, k) == [x \in DOMAIN f \ {k} |-> f[x]]
With(f, k, v) == [x \in DOMAIN f \cup {k} |-> IF x = k THEN v ELSE f[x]]

Tick ==
  /\ clock < MaxTime
  /\ clock' = clock + 1
  /\ UNCHANGED <<dns_flows, inserts, sweep>>
-----------------------------------------------------------------------------
(* The tracker *)

is_dns_port(p) == p \in DnsPorts

\* fill_dns_id; the key of an answer is that of its query.
fill_dns_id(id, dns_id, reverse) ==
  LET s == <<id.src, id.sport>>
      d == <<id.dst, id.dport>>
  IN  [id |-> dns_id, proto |-> id.proto, src |-> IF reverse THEN d ELSE s, dst |-> IF reverse THEN s ELSE d]

\* The length of the UDP packet is cut to a byte before it is compared, and the comparison
\* is unsigned.
calc_dns_header_offset(id, p) ==
  LET len == p.udp_len % ByteMod
  IN  CASE ~id.l4_hdr -> 0
        [] id.l4_hdr /\ id.proto = "TCP" -> p.doff * 4 + 2
        [] id.l4_hdr /\ id.proto = "UDP" -> IF len < 8 \/ len - 8 > UDP_MAXMSG THEN 0 ELSE 8
        [] OTHER -> 0

NoDns == [id |-> 0, latency |-> 0, errno |-> "none", key |-> << >>, ts |-> 0, query |-> 0, raced |-> FALSE]

\* Until the time is taken.
DnsHeader(r, id, p) ==
  IF calc_dns_header_offset(id, p) = 0
    THEN [r EXCEPT !.next = "track", !.dns.errno = "EINVAL"]
  ELSE IF ~p.dns.held THEN [r EXCEPT !.next = "track", !.dns.errno = "EFAULT"]
  ELSE [r EXCEPT !.next = IF p.dns.response THEN "lookup" ELSE "insert",
                 !.dns.key = fill_dns_id(id, p.dns.id, p.dns.response), !.dns.ts = clock]

\* bpf_map_update_elem, BPF_NOEXIST
InsertResult(r) ==
  [r EXCEPT !.next = "track",
            !.dns.errno = IF r.dns.key \in DOMAIN dns_flows THEN "-EEXIST"
                          ELSE IF Cardinality(DOMAIN dns_flows) >= MaxDns THEN "-E2BIG" ELSE "none"]

DnsInsert(r) ==
  LET k == r.dns.key
  IN  IF InsertResult(r).dns.errno = "none"
        THEN /\ dns_flows' = With(dns_flows, k, r.dns.ts)
             /\ inserts' = With(inserts, k, 1 + IF k \in DOMAIN inserts THEN inserts[k] ELSE 0)
        ELSE UNCHANGED <<dns_flows, inserts>>

\* Mutant: the difference is taken the other way round.
DnsLookup_Swapped(r) ==
  LET found == r.dns.key \in DOMAIN dns_flows
      time == IF found THEN dns_flows[r.dns.key] ELSE 0
  IN  [r EXCEPT !.next = IF found THEN "delete" ELSE "track", !.dns.id = r.dns.key.id, !.dns.query = time,
                !.dns.latency = IF found THEN (time - r.dns.ts) % TimeMod ELSE 0,
                !.dns.errno = IF found THEN "none" ELSE "ENOENT"]

DnsLookup(r) ==
  LET k == r.dns.key
      found == k \in DOMAIN dns_flows
      time == IF found THEN dns_flows[k] ELSE 0
  IN  [r EXCEPT !.next = IF found THEN "delete" ELSE "track",
                !.dns.id = k.id,
                !.dns.query = time,
                !.dns.latency = IF found THEN (r.dns.ts - time) % TimeMod ELSE 0,
                !.dns.errno = IF found THEN "none" ELSE "ENOENT"]

DnsDelete(r) == dns_flows' = Without(dns_flows, r.dns.key)
-----------------------------------------------------------------------------
(* The sweep *)

SweepStart ==
  /\ sweep.step = "idle"
  /\ sweep' = [NoSweep EXCEPT !.step = "visit", !.now = clock, !.due = DOMAIN dns_flows]
  /\ UNCHANGED <<clock, dns_flows, inserts>>

\* Mutant: the age is compared unsigned.
Stale_Unsigned(now, time) == (now - time) % TimeMod >= TimeOut

\* The age of a query that is newer than the sweep is negative.
Stale(now, time) == now - time >= TimeOut

\* The iterator meets every key that is there all the time; of those inserted or deleted
\* meanwhile it may meet some.
SweepVisit(k) ==
  /\ sweep.step = "visit" /\ k \in DOMAIN dns_flows \ sweep.visited
  /\ sweep' = [sweep EXCEPT !.visited = @ \cup {k},
                            !.keysToDelete = IF Stale(sweep.now, dns_flows[k]) THEN @ \cup {k} ELSE @]
  /\ UNCHANGED <<clock, dns_flows, inserts>>

SweepVisited ==
  /\ sweep.step = "visit" /\ sweep.due \cap DOMAIN dns_flows \subseteq sweep.visited
  /\ sweep' = [sweep EXCEPT !.step = "delete", !.due = {}, !.visited = {}]
  /\ UNCHANGED <<clock, dns_flows, inserts>>

\* Mutant: the key is not deleted.
SweepDelete_Kept(k) ==
  /\ sweep.step = "delete" /\ k \in sweep.keysToDelete
  /\ sweep' = [sweep EXCEPT !.keysToDelete = @ \ {k}]
  /\ UNCHANGED <<clock, dns_flows, inserts>>

\* Keys are deleted one by one, whatever they hold by now.
SweepDelete(k) ==
  /\ sweep.step = "delete" /\ k \in sweep.keysToDelete
  /\ dns_flows' = Without(dns_flows, k)
  /\ sweep' = [sweep EXCEPT !.keysToDelete = @ \ {k}]
  /\ UNCHANGED <<clock, inserts>>

SweepEnd ==
  /\ sweep.step = "delete" /\ sweep.keysToDelete = {}
  /\ sweep' = NoSweep
  /\ UNCHANGED <<clock, dns_flows, inserts>>
=============================================================================
