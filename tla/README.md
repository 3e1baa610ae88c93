# TLA+ verification of the NetObserv eBPF agent

The agent counts network flows in the kernel with eBPF programs and exports them
from user space. This directory holds TLA+ modules that model the concurrent and
failure-prone parts of it, TLC configurations that model-check them on small
instances, and TLAPS proofs of the central safety properties for instances of any
size. `PROJECT.json` maps every definition to the source lines it models, lists
the runs, a mutant for each checked property, the hazards of the code with the
properties about them, and the theorems.

## The system

```
 kernel                                  user space (one Go process)

 tc/tcx hook on every CPU                Watcher / Poller -> Registerer -> listener
   flow_monitor (bpf/flows/flows.c)        (pkg/ifaces)        |         attaches hooks
   sampling, parsing, filter,                                  |
   DNS, TLS and QUIC trackers            names for records <---+
     |            \
     v             \  map full
 aggregated_flows   direct_flows
 + 6 per-CPU maps   (ring buffer)
     |                 |
     | lookup+delete   | read
     v                 v
   Fetcher          RingBufTracer -> Accounter --+
   (fetcher.go)                                  v
   MapTracer ------------------------------> Limiter -> exporter (gRPC, Kafka, ...)
   (pkg/flow)

 export_packet_payload -> packet_record ---> tracer -> buffer -> exporter
 uprobes on OpenSSL -> ssl_data_event_map -> tracer -> buffer -> exporter
   (attached by pkg/tracer/plaintext)        (pkg/agent/packets, pkg/flow)
```

| Part | State | What changes it | What is hard about it |
|---|---|---|---|
| flow map, `bpf/flows/flows.c` | `aggregated_flows`, ring buffer, failure counters | `flow_monitor` on all CPUs; eviction | creation races, unlocked copies, failing map calls |
| flow element, `update_existing_flow` | times, observed interfaces, TLS data | hooks of several interfaces and CPUs | packets written in another order than they arrived; full list |
| secondary maps, `bpf/*_tracker.h` and others | a value per CPU and flow, six features; IPsec task maps; global counters | hooks; `accumulateSecondaryMaps`; counter reset | idle CPUs' zeros, 16-bit counters, orphans, read-then-reset |
| pipeline, `pkg/flow`, `pkg/agent/flows` | bounded channels, accounter cache, goroutines | ticks, evictions, shutdown | lost wake-ups, full channels, what a shutdown abandons |
| informers, `pkg/ifaces` | `current`, `nsDone`, sockets, event channel | links and namespaces that come and go | subscribe against list, one mutex held over a blocking send |
| registerer, `pkg/ifaces/registerer.go` | cache by index and MAC | events; lookups with a fallback to the host | a lookup racing a deletion |
| interface listener, `pkg/agent/common`, `netattach` | hooks, link descriptors, retry queue | events, retries, failing system calls | partial attachment, retries behind newer events |
| gRPC exporter | connection, lock, timer goroutine | batches, reconnect timer, shutdown | replacing a connection in use; failed reconnects |
| packet path, `flow_monitor`, `export_packet_payload`, `bpf/common` | rules in two tries, `do_sampling` | packets on all CPUs | values left behind by one lookup for the next; the draw before or after the filter |
| DNS queries, `bpf/dns_tracker.h` | `dns_flows` | hooks on all CPUs; the sweep at each eviction | a sweep that deletes by key, times taken before a lookup |
| TLS and QUIC trackers | what is read from a packet | | packets cut off anywhere, extensions in any order |
| OpenSSL probes, `bpf/openssl_tracker.h`, `pkg/tracer/plaintext` | descriptors of SSL objects, active calls, attached probes | threads of the process; scans and Close | probes attached one by one under running calls; reused objects, descriptors and thread ids |
| packets agent, `pkg/agent/packets` | ring buffers, channels, buffers | captures, ticks, shutdown | full buffers and channels, readers closed under the tracers |

## Modules

Every module has a head comment that says what stands for what; in short:

* **FlowMap** — `flow_monitor`'s path to the map (lookup, create with
  `BPF_NOEXIST`, second lookup after `EEXIST`, locked update in two writes, ring
  buffer fallback, failure counters) on `NCPU` CPUs, against
  `Fetcher.LookupAndDeleteMap` and the `legacy.go` loop, each map call of which may
  fail. The packet and byte counters are the *sets of observations* counted, so a
  loss or a repetition is visible. The eviction copies an element counter by counter,
  in either order, without its lock, and unlinks it after that; `raced` records the
  hooks that write meanwhile. An update through a pointer to an element that was
  deleted meanwhile writes to memory no one reads (`linked`).
* **FlowElement** — the fields of a single element: `add_observed_intf`,
  `update_existing_flow`, the record's interface list. A packet takes its timestamp
  on arrival and is applied later, so packets of different CPUs overtake.
* **FlowContent**, **SecondaryMaps** — the values of the six per-CPU maps as
  operators (`FlowContent`: making, updating, merging, as in
  `pkg/model/flow_content.go` and `ipsec_merge.go`), and the state machine of hooks,
  fetcher, IPsec probes and global counters around them. One feature per behaviour.
  Several xfrm calls may run under one `pid_tgid`, and the return of a call may be
  missed. The cookie of a network event is its metadata and what the uninitialized
  rest of the buffer holds.
* **Pipeline**, **Delivery** — the goroutines and channels of the flows agent with
  `Run`'s shutdown and the errors of the ring buffer; `Delivery` is the abstract
  promise (taken once, then exported once or dropped once; a record that cannot be
  parsed is dropped as it is taken; abandoned only after a stop).
* **Informers**, **Registerer** — `Watcher` and `Poller` over an external kernel
  with links and namespaces; the registerer's cache on top of them. Storing an
  interface and sending its event are two steps, between which others run. A namespace
  of the same name that is created again is another *life* of it.
* **InterfaceListener** — `interfaceListener` over `AttachTCX`, `DetachTCX`,
  `Register`, `UnRegister`, with TC filters and TCX links, descriptors that a
  failure leaves behind, programs of another agent (`others`) and retries.
* **GRPCProto** — `ExportFlows`, `sendBatch` with `FlowsToPB`'s splitting, and the
  reconnect timer with its read-write lock.
* **PacketFilter** — `FLOW_FILTER_RULES` as configured, the two LPM tries that
  `attach/filter.go` writes, and the lookups of `bpf/common/filter.h` and
  `packet_utils.h` with the `action` and the rate that each leaves to the next. An
  address is the sequence of its bits and a CIDR a prefix of one.
* **DnsTracker**, **TlsTracker**, **QuicTracker** — `track_dns_packet` in the steps
  between which other CPUs run, and the sweep of `lookupAndDeleteDNSMap`; the hello
  parsers as a walk over the items that a segment still holds; the length tests of
  `parse_quic_header`.
* **PacketPath** — composes these four: `flow_monitor` up to the flow map and
  `export_packet_payload`, on several CPUs, under a configuration (a *scenario*).
* **OpenSSL** — the uprobes and their maps, `attachToLibrary` with failing and undone
  attachments, rescans and `Close`, against threads that bind, rebind, free, read (in
  nested calls) and write, and that end inside a call.
* **PacketsAgent** — extends OpenSSL: tracer, buffer and exporter of both branches and
  `Agent.Run` with its shutdown.
* **MC*** instantiate these for TLC; **\*Proofs** and **FlowMapInv** hold the theorems. Operators named
  `X_Something` before `X` are mutants of `X`, used to show that a property can fail.

## Runs

| Run | What it shows |
|---|---|
| FlowMapAtomic | With lookup-and-delete: no packet counted twice (`NoDoubleCount`), none lost once counted but for hooks that write during the copy (`CountedStaysCounted`), one interface per record, failure counters tell the truth, and everything counted is handed over in the end (`MappedEventuallyReported`). |
| FlowMapLegacy | With iterate-and-delete: a packet is counted twice only after a failed call; the packets and the bytes of a record differ only by hooks that wrote during its copy (`TornOnlyByRacing`). |
| FlowElement | Interfaces are listed once and listed or reported as missed; the TLS mismatch flag is exact; the end time is wrong only if an older packet overtook. |
| SecondaryMaps | Merged drops, times, round trip times, DNS, QUIC, translation and network events are those of the events in the copied element; nothing copied is left out of the report; an IPsec result belongs to the packet that entered the function, unless calls crossed under one key or a return was missed; each failure is in the metric once, but for those between a read and its reset and those whose reset failed (`FailuresReportedOnce`). |
| PipelineSafety | `Pipeline` implements `Delivery`; when `Run` returns no node still holds anything; a stop that finds no eviction under way ends without a panic and abandons nothing (`CleanStop`). |
| PipelineLive | Flows and packets reach the collector or are dropped by the limiter; a shutdown completes. |
| Listener | In all attach modes, with failures and retries, hooks match the interfaces once all events are handled, up to the cases that the comment of `HooksFollowInterface` lists; every event is done with. |
| Registerer | What is up was announced and is found by index and MAC, in namespaces that were neither missed nor mixed up with an earlier one; what is gone leaves the cache unless a lookup put it back; one full channel does not starve a namespace. |
| GRPCProto | Every record is handed to `Send` once, in order; no `Send` meets a closed connection unless a reconnection failed; the exporter returns. |
| PacketPath | The verdict on a packet is the one `docs/flow_filtering.md` describes, except in the cases that `Departs` lists (`VerdictByRules`); a kept packet was drawn once, with the rate in its record, which is that of the rule that fits; the other hooks are on for a packet in hand, unless another CPU lost a draw meanwhile (`HooksOnForPacketInHand`); a DNS latency wraps only in one race; the TLS version is that of the hello, also in cut-off ones; a query leaves `dns_flows` when answered or stale, and does leave it. |
| PacketsAgent | An event names the descriptor its SSL object uses, or none, and the object that was read; each record is exported once and in order; when `Run` returns the packet branch is done. No deadlock. |
| GRPCReconnect *(violated)* | A reconnection that fails after closing the old connection leaves the closed one in place; closing it again fails, so no later tick re-establishes it. |

### Bounds

Flow map: four or five observations — one packet seen through two interfaces, more
packets of the same flow and one of another — three hooks at once, a map of one
element (so creation also fails for lack of room), one failing call. Three hooks are
what the longest race needs: one creating, one failing to create, one updating.
FlowElement: two CPUs, three interfaces and the unknown one, a list of two, four
packets, hence a full list and overtaking. SecondaryMaps: two CPUs, two or three
events, two evictions, 16-bit counters cut to two bits so that they overflow, two
event slots for three kinds; two xfrm calls under one key. Pipeline: channels and cache
of one, three items of one or two flows, so that every channel is full at some time,
and one error of the ring buffer. Listener: a host interface and its namesake in
another namespace, four events, two failures, three attempts. Registerer, with a
channel of one: a host and a pod interface with the same index; a link that is moved
from one to the other; a namespace of two lives; a poller of one namespace through
three changes, and pollers of two. Each of these five scenarios spends its changes on
one question, because their product is out of reach. gRPC: batches of five, two and
one, messages of two, two faults. Packet path: addresses of two bits (IPv4) and three
(IPv6), every pair out of 36 address rules, 80 settings with a single rule on ports,
flags, ICMP, direction or drops, 36 with rates; two CPUs that draw three packets
before or after the filter; two CPUs with three DNS packets, a
table of two queries, a clock of three and a timeout of two, so that a query gets
stale while another is new; hellos cut off after every item, with more extensions and
versions than the loops look at; QUIC packets on both sides of each size. Two rules
suffice because a lookup finds one rule and a packet has two. Packets agent: two
threads, objects and descriptors (each kind interchangeable, hence the symmetry), one
entry in the map of active reads and in each channel and ring, two in each buffer. Its
five scenarios spend a budget of calls and packets where it matters: five calls while
probes get attached, six with all attached, and up to four records through the
running agent. Every bound is a named constant or part of a scenario.

Deadlock checking is off where behaviours legitimately end (inputs exhausted, agent
stopped).

### Fairness

Weak fairness of the steps of each goroutine, of hooks that have started and of
tickers: the Go scheduler and the kernel run what can run, and tickers tick again.
Strong fairness is used where Go's channels and locks serve waiters in order or a
`select` chooses at random among ready cases: the two senders to the limiter, the
listener's `select` between events and retries, the exporter's read lock and its
`done` hand-over. Exporter calls are assumed to return, and neither links nor
packets are ever obliged to appear. In PacketPath the clock and the evictions with their
sweep go on; the hooks need no fairness, as its one liveness property is about the
sweep. OpenSSL and PacketsAgent assume none.

## Proofs

For every value of the constants (assumptions are the `ASSUME`s of the modules, and
`AtomicDelete` where stated):

* **FlowMapInv**, **FlowMapProofs.** `TypeCorrect` in both eviction modes. With
  `AtomicDelete`: `NeverCountedTwice`, `OneInterfacePerRecord`, `DroppedIsNotCounted`,
  `CountsAreKept`, `TornByRacing`. They rest on `IInv` (FlowMapInv): none of the
  properties is inductive, because whether a count is made twice depends on what the
  eviction has in hand (`BatchInv`: nothing for a key still to be deleted), on hooks
  in flight having counted nothing (`PendingInv`), on pointers being to present
  keys (`AbsentInv`), and on what was copied lacking only what racing hooks wrote
  (`CopyInv`). `TornByRacing` adds `LockInv`: what separates the two counters of an
  element is being written.
* **FlowElementProofs.** `ElementTypeCorrect` (the list fits its array),
  `ListedOnce`, `SeenIsListed`, for any number of CPUs, interfaces and packets. The
  invariant adds that the creating interface never enters the list and that there is
  one element.
* **GRPCProtoProofs.** `NothingLost` (no `Send` fails unless a reconnection failed)
  and `NoLeak`, from the lock (`Excluded`) and from where the connection may be
  closed (`OpenWhileSending`).

* **OpenSSLProofs.** `SocketOfEvent` and `CallOfEvent`, for any number of threads, SSL
  objects and descriptors and any size of the maps. That an event names the right
  descriptor is not inductive: it needs that a binding in `ssl_fd_map` is the
  descriptor in use (`BindingIsUsed`), which holds because a probe that binds is never
  attached without those that unbind (`AttachOrder`, the reason behind the order in
  `attachSocketTracking`), because a pending entry is of the call its thread is in
  (`PendingIsSetting`, lost when a return was missed) and because an object is used by
  one thread at a time (`SetAlone`, `SetIsUsed`). For reads, the entry of a thread is
  of its innermost call or absent (`ActiveIsRead`), as far as its entry was seen
  (`Seen`).

Only model-checked: all liveness properties (fairness is outside the prover's
reach), the legacy eviction but for its types, the buffers of PacketsAgent, and all of
Pipeline, SecondaryMaps, Informers, Registerer, InterfaceListener and PacketPath. The
hello parsers and the tries are folds and walks over data, whose induction is outside
the prover's reach as well.

## Behaviour worth knowing

Seen while translating. Where a passing property would not hold because of one of
these, its formula leaves the case out by name and its comment says which; the others
are outside of what the properties speak about.

* `tracer_map.go:65`: `Run`'s shutdown does not wait for `evictionSynchronization`:
  its send can meet a closed channel, or its read eBPF objects that `Close` dropped.
  `CleanStop` shows that a stop which finds no eviction under way meets neither.
* `fetcher.go:1044`, `legacy.go:22`: the copy of an element takes no lock. A hook that
  writes meanwhile can be in the packets and not in the bytes of a record, or be lost
  with the element (`TornOnlyByRacing`, `CountedStaysCounted`).
* `interfaces_listener.go:160`: in `tc` mode the retry of a failed Deleted event that
  runs after the interface came back removes its filters (`HooksFollowInterface`
  leaves it out: `handled` is not the latest event).
* `fetcher.go:444`: when a TCX program is attached already, the link of the *last*
  program is taken, which may be another agent's: the agent's own link is forgotten, and
  its hook goes when the descriptor is collected (`taken`).
* `agent/packets/agent.go:208`: "waiting for all nodes to finish their pending work"
  waits for the exporter of packets; plaintext records may still be on their way.
* `openssl.go:82`: `Close` removes the probes that unbind first, so the last events can
  name a descriptor that was given up. `openssl.go:78`: a scan that races `Close`
  attaches probes again. While neither `SSL_write` nor `SSL_read` can be hooked, each
  scan adds another set of tracking probes.
* `openssl_tracker.h:46`: after a missed return of `SSL_set_fd`, a later `SSL_set_fd` of
  that thread with a negative descriptor commits the old entry. The comment at
  `openssl.go:223` ("Bindings are safe only if both successful setup and invalidation
  are observed") is what `EventOfItsSocket` makes precise.
* `openssl_tracker.h:102`: entries of threads that end inside `SSL_read` stay in
  `ssl_read_active_map`.
* Where the filter departs from `docs/flow_filtering.md` (`RuleDeparts`, `Departs`): all
  rules share one table of peers, so the peer of another rule fits (lines 50-51, 73-75);
  of two rules with the same `ip_cidr` only the later one is in the trie, although they
  may have different peers (58); a rule without an action is not Accept but is skipped
  (34, `attach/filter.go:201`); ICMP type and code are not taken over from the rules
  (48-49, 140, `agent/common/filter.go`); the flag names in the code are `PUSH` and
  `RST-ACK` (52), and another name sets no flag; a rule with a single port or two also
  fits port 0, which a cut-off header has (39-47).
* `filter.h:88`: if no rule fits, the action of the last rule asked decides, and its
  rate stays. IPv4 and IPv6 prefixes share one trie. A rule for drops fits no packet in
  `flow_monitor`.
* `utils.h:10`: `do_sampling` is one variable for all CPUs, so a packet that loses its
  draw switches the other hooks off for one that another CPU has in hand (`off`).
* `dns_tracker.h:54`: the UDP length is cut to a byte before it is tested. A query that
  is seen twice keeps its first time; the second sighting of an answer reports `ENOENT`.
* `tls_tracker.h:207`: a server hello with `supported_versions` and no key share is
  reported with the version field of the hello.
* `flows.c:72`: the capacity of the observed list is tested before the search, so
  with a full list a listed interface seen in the other direction is not marked
  as seen both ways.
* `flow_content.go:90, 168`: a later CPU's zero replaces a DNS errno, and an idle
  CPU's zero replaces a negative IPsec result. `130`: a network event that several
  CPUs saw keeps the count of one of them. `131`: with more kinds of network events
  than slots, counts of different events are added.
* `ipsec.h:165`: with sampling, an entry without its return stays for the task and
  the next result is recorded for it; calls of the idle tasks of several CPUs share the
  key 0 and can take each other's entries (`crossed`).
* `network_events_monitoring.h:21`: the cookie is read into a buffer that is not
  initialized and compared in full, so an event with a short cookie may not be
  recognized.
* `netattach.go:108`: `Unregister` finds the interface by name in the agent's own
  namespace: the filters of an interface of another namespace stay, and a host interface
  of the same name loses its own (`hit`).
* `poller.go:102`: with two namespaces each poll deletes the interfaces of the
  other; `poller.go:75`: both goroutines close the channel of events.
* `watcher.go`: a namespace created between the listing and the fsnotify watch is
  never seen, nor is one whose subscription fails for a second (`missed`); a namespace
  made again under its old name finds its interfaces in `current` and does not announce
  them, and a goroutine of its earlier life may subscribe to it (`reused`).
* `registerer.go:61`: events of two namespaces come in any order, so the names of a
  link that moves can end up swapped or missing (`overwritten`).
* `fetcher.go`: failures counted between the reading and the reset of the global
  counters are lost (`between`).

## Not modelled

* The fields of a per-CPU value are written one by one; the fetcher copies the value of
  a CPU whole, so a value torn on its own CPU is not modelled. The counter
  `NETWORK_EVENTS_OVERFLOW` is not either.
* Informers: their end, errors while listing. Listener: netkit interfaces, and the
  interface filters, which are matching of names.
* Finding libraries and sockets under `/proc` (`pkg/tracer/plaintext`, all but
  `openssl.go`) and the socket fields that `ssl_socket_tuple` reads: input and parsing.
  In PacketsAgent the scope keeps or drops a record by choice. Several processes and
  reused process ids are left out with it.
* The copying of the DNS name, MAC addresses, and the kernel structures from which the
  drop, conntrack and IPsec hooks take a flow: data that no property tells apart.
* Loading and pinning of the eBPF objects: one sequence of library calls that ends the
  agent at the first error. Of closing, the models have what goroutines still use.
* Kafka, IPFIX and direct-FLP exporters (loops over their input that call a library),
  record encoding, configuration, metrics and servers: no control worth modelling.
* Generated code, which includes the kernel headers `bpf/headers/vmlinux_*.h`: type
  declarations only, and by far the most lines under `bpf/`.
