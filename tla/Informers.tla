------------------------------ MODULE Informers ------------------------------
(***************************************************************************)
(* The informers of pkg/ifaces, which report the interfaces of the host's  *)
(* network namespaces: Watcher (watcher.go), with a goroutine sendUpdates  *)
(* per namespace and one for the namespaces that come and go, and Poller   *)
(* (poller.go), with a goroutine per namespace found at the start.  They   *)
(* share the channel of events and the map current.                        *)
(*                                                                         *)
(* The kernel side is external: a link is absent, down or up; a change of  *)
(* a link puts a message into the sockets subscribed to its namespace, and *)
(* a namespace that goes takes its links away silently, because the socket *)
(* that would report it is closed first.  A namespace of the same name can *)
(* be created again: it is another life of it.                             *)
(***************************************************************************)
EXTENDS Naturals, Sequences, FiniteSets

CONSTANTS Link,           \* possible links: records with index, name, mac and ns
          Namespace,      \* the namespaces; "" is the agent's own
          BuffersLength,  \* capacity of the channel of events
          MaxLives,       \* bound: lives of a namespace
          Scenario        \* what CreateInformer builds, "watch" (Watcher) or "poll" (Poller),
                          \* and the bounds it runs under: the namespaces that may exist at
                          \* the start, the links, lives of a namespace and changes of links,
                          \* and whether subscriptions are refused and names looked up

ASSUME InformersAssumption ==
  /\ "" \in Namespace
  /\ \A l \in Link : l.ns \in Namespace
  /\ {BuffersLength, MaxLives} \subseteq Nat \ {0}
  /\ \A s \in Scenario :
       /\ s.informer \in {"watch", "poll"}
       /\ s.startNs \subseteq Namespace /\ s.links \subseteq Link
       /\ s.lives \in 1..MaxLives /\ s.changes \in Nat
       /\ {s.refusals, s.lookups} \subseteq BOOLEAN

\* A worker is the goroutine started for a life of a namespace; the agent's own stays.
Worker == {w \in [ns : Namespace, life : 1..MaxLives] : w.ns = "" => w.life = 1}

VARIABLES
  scenario,   \* the informer that CreateInformer built, and its bounds
  phase,      \* Subscribe: list (namespaces), watch (add the fsnotify watch), run
  alive,      \* namespaces that exist
  life,       \* number of lives of each namespace
  missed,     \* history: lives of namespaces that no worker subscribed to: created before
              \* the fsnotify watch, or given up
  reused,     \* history: lives that the worker of an earlier life subscribed to, by name, or
              \* whose entry in current it replaced, or that an update mixed up with another
  link,       \* the state of every link: absent, down, up
  changes,    \* number of changes of links
  fs,         \* the fsnotify events: records with op, ns and life
  nsDone,     \* Watcher.nsDone: the life whose done channel is stored, 0 if none
  closed,     \* lives whose done channel is closed
  pc,         \* of each worker: none, load, subscribe, list, loop, returned;
              \* poll, new, gone in Poller
  done,       \* the done channel of each worker
  inst,       \* the life its socket is subscribed to
  sock,       \* the messages in its socket
  todo,       \* interfaces it has listed, or found in current, and not yet visited
  acquired,   \* Poller: the interfaces it has listed
  hand,       \* the event it is sending, as a set
  mutex,      \* the worker that holds Watcher.mutex, as a set
  current,    \* Watcher.current, Poller.current: links with the life of their namespace,
              \* which Interface.NetNS stands for
  out         \* the channel of events

kernelVars == <<alive, life, missed, reused, link, changes>>
nsVars     == <<scenario, phase, fs, nsDone, closed>>
workerVars == <<pc, done, inst, sock, todo, acquired, hand, mutex, current>>
informerVars == <<kernelVars, nsVars, workerVars, out>>

SameKey(l, m) == l.index = m.index /\ l.name = m.name /\ l.ns = m.ns

\* Links of one namespace that cannot exist at once.
Clash(l, m) == l # m /\ l.ns = m.ns /\ (l.index = m.index \/ l.name = m.name)

Init ==
  /\ scenario \in Scenario
  /\ phase = "list"
  /\ alive \in {S \cup {""} : S \in SUBSET scenario.startNs}
  /\ life = [n \in Namespace |-> IF n \in alive THEN 1 ELSE 0]
  /\ missed = {} /\ reused = {}
  /\ link \in [Link -> {"absent", "up"}]
  /\ \A l \in Link : l.ns \notin alive \/ l \notin scenario.links => link[l] = "absent"
  /\ \A l, m \in Link : Clash(l, m) => "absent" \in {link[l], link[m]}
  /\ changes = 0
  /\ fs = << >>
  /\ nsDone = [n \in Namespace |-> 0] /\ closed = {}
  /\ pc = [w \in Worker |-> "none"]
  /\ done = [w \in Worker |-> 0] /\ inst = [w \in Worker |-> 0]
  /\ sock = [w \in Worker |-> << >>]
  /\ todo = [w \in Worker |-> {}] /\ acquired = todo /\ hand = todo
  /\ mutex = {} /\ current = {} /\ out = << >>
-----------------------------------------------------------------------------
(* The kernel.  The namespaces of a Poller stay: its goroutines keep them open. *)

\* A worker that receives the messages of its namespace.
Listening(w) == pc[w] \in {"list", "loop"}

LinkChanges(l, s) ==
  /\ changes < scenario.changes /\ l \in scenario.links
  /\ l.ns \in alive /\ s # link[l]
  /\ s # "absent" => \A m \in Link : Clash(l, m) => link[m] = "absent"
  /\ changes' = changes + 1
  /\ link' = [link EXCEPT ![l] = s]
  /\ sock' = [w \in Worker |->
                IF w.ns = l.ns /\ Listening(w) /\ inst[w] = life[l.ns]
                  THEN Append(sock[w], [link |-> l, up |-> s = "up"]) ELSE sock[w]]
  /\ UNCHANGED <<alive, life, missed, reused, nsVars, pc, done, inst, todo, acquired, hand, mutex, current, out>>

Notify(op, n) ==
  fs' = IF phase = "run"
          THEN Append(fs, [op |-> op, ns |-> n, life |-> life'[n]]) ELSE fs

NamespaceCreated(n) ==
  /\ scenario.informer = "watch"
  /\ n \notin alive /\ life[n] < scenario.lives
  /\ alive' = alive \cup {n}
  /\ life' = [life EXCEPT ![n] = @ + 1]
  /\ missed' = IF phase = "watch" THEN missed \cup {<<n, life'[n]>>} ELSE missed
  /\ Notify("Create", n)
  /\ UNCHANGED <<reused, link, changes, scenario, phase, nsDone, closed, workerVars, out>>

NamespaceRemoved(n) ==
  /\ scenario.informer = "watch"
  /\ n \in alive \ {""}
  /\ alive' = alive \ {n}
  /\ link' = [l \in Link |-> IF l.ns = n THEN "absent" ELSE link[l]]
  /\ life' = life
  /\ Notify("Remove", n)
  /\ UNCHANGED <<missed, reused, changes, scenario, phase, nsDone, closed, workerVars, out>>

Kernel ==
  \/ \E l \in Link, s \in {"absent", "down", "up"} : LinkChanges(l, s)
  \/ \E n \in Namespace : NamespaceCreated(n) \/ NamespaceRemoved(n)
-----------------------------------------------------------------------------
(* Subscribe, and the goroutine of netnsNotify *)

\* A worker for every namespace there is.
SubscribeList ==
  /\ phase = "list"
  /\ phase' = "watch"
  /\ nsDone' = [n \in Namespace |-> IF n \in alive /\ scenario.informer = "watch" THEN life[n] ELSE 0]
  /\ pc' = [w \in Worker |->
              IF w.ns \in alive /\ w.life = life[w.ns]
                THEN (IF scenario.informer = "watch" THEN "load" ELSE "poll") ELSE pc[w]]
  /\ UNCHANGED <<kernelVars, scenario, fs, closed, done, inst, sock, todo, acquired, hand, mutex,
                 current, out>>

\* The watch is added after the namespaces were listed.
SubscribeWatch ==
  /\ phase = "watch"
  /\ phase' = "run"
  /\ UNCHANGED <<kernelVars, scenario, fs, nsDone, closed, workerVars, out>>

CloseDone(n) == closed' = IF nsDone[n] # 0 THEN closed \cup {<<n, nsDone[n]>>} ELSE closed

createNamespace(n, k) ==
  /\ CloseDone(n)
  /\ nsDone' = [nsDone EXCEPT ![n] = k]
  /\ pc' = [pc EXCEPT ![[ns |-> n, life |-> k]] = "load"]

deleteNamespace(n) ==
  /\ CloseDone(n)
  /\ nsDone' = [nsDone EXCEPT ![n] = 0]
  /\ UNCHANGED pc

handleEvent ==
  /\ fs # << >>
  /\ fs' = Tail(fs)
  /\ \/ Head(fs).op = "Create" /\ createNamespace(Head(fs).ns, Head(fs).life)
     \/ Head(fs).op = "Remove" /\ deleteNamespace(Head(fs).ns)
  /\ UNCHANGED <<kernelVars, scenario, phase, done, inst, sock, todo, acquired, hand, mutex, current, out>>
-----------------------------------------------------------------------------
(* Watcher.sendUpdates *)

Goto(w, label) == pc' = [pc EXCEPT ![w] = label]

LoadDone(w) ==
  /\ pc[w] = "load"
  /\ done' = [done EXCEPT ![w] = nsDone[w.ns]]
  /\ Goto(w, IF nsDone[w.ns] = 0 THEN "returned" ELSE "subscribe")
  /\ UNCHANGED <<kernelVars, nsVars, inst, sock, todo, acquired, hand, mutex, current, out>>

\* The subscription is tried for a second; it fails if the namespace is gone, or the
\* system refuses it.
SubscribeLinks(w) ==
  /\ pc[w] = "subscribe"
  /\ \/ /\ w.ns \in alive /\ inst' = [inst EXCEPT ![w] = life[w.ns]] /\ Goto(w, "list")
        /\ reused' = IF w.life = life[w.ns] THEN reused ELSE reused \cup {<<w.ns, life[w.ns]>>}
        /\ UNCHANGED missed
     \/ /\ w.ns \in alive => scenario.refusals
        /\ missed' = missed \cup {<<w.ns, life[w.ns]>>} /\ Goto(w, "returned")
        /\ UNCHANGED <<inst, reused>>
  /\ UNCHANGED <<alive, life, link, changes, nsVars, done, sock, todo, acquired, hand, mutex, current, out>>

\* The links of the worker's namespace: none once that life of it has ended.
Present(w) ==
  {l \in Link : l.ns = w.ns /\ link[l] # "absent" /\ inst[w] = life[w.ns]}

\* netInterfaces lists every interface, up or not.
ListInterfaces(w) ==
  /\ pc[w] = "list"
  /\ todo' = [todo EXCEPT ![w] = Present(w)]
  /\ Goto(w, "loop")
  /\ UNCHANGED <<kernelVars, nsVars, done, inst, sock, acquired, hand, mutex, current, out>>

Stored(l, w) == [link |-> l, life |-> inst[w]]

Known(l) == {m \in current : SameKey(l, m.link)}

Event(type, m) == [type |-> type, link |-> m.link, life |-> m.life]

LockFree == mutex = {}

\* Mutant: an interface that is known is not announced by the listing.
StoreListed_New(w, l) ==
  /\ pc[w] = "loop" /\ hand[w] = {} /\ LockFree
  /\ l \in todo[w]
  /\ todo' = [todo EXCEPT ![w] = @ \ {l}]
  /\ \/ Known(l) # {} /\ UNCHANGED <<current, hand>>
     \/ /\ Known(l) = {}
        /\ current' = current \cup {Stored(l, w)}
        /\ hand' = [hand EXCEPT ![w] = {Event("Added", Stored(l, w))}]
  /\ UNCHANGED <<kernelVars, nsVars, pc, done, inst, sock, acquired, mutex, out>>

StoreListed(w, l) ==
  /\ pc[w] = "loop" /\ hand[w] = {} /\ LockFree
  /\ l \in todo[w]
  /\ todo' = [todo EXCEPT ![w] = @ \ {l}]
  /\ current' = (current \ Known(l)) \cup {Stored(l, w)}
  /\ reused' = reused \cup {<<w.ns, m.life>> : m \in {n \in Known(l) : n.life > inst[w]}}
  /\ hand' = [hand EXCEPT ![w] = {Event("Added", Stored(l, w))}]
  /\ UNCHANGED <<alive, life, missed, link, changes, nsVars, pc, done, inst, sock, acquired,
                 mutex, out>>

\* The lives that an update of w's mixes up.
Mixed(w, known) ==
  LET other == {m.life : m \in known} \ {inst[w]}
  IN  {<<w.ns, k>> : k \in IF other = {} THEN {} ELSE other \cup {inst[w]}}

\* The event for a known interface that stopped carries what was stored.
DeletedEvents(known) == {Event("Deleted", m) : m \in known}

\* A link update: an interface that runs and is not known is added, a known one that
\* does not run is deleted; the mutex is held until the event is sent.
HandleLink(w) ==
  /\ pc[w] = "loop" /\ todo[w] = {} /\ hand[w] = {} /\ LockFree
  /\ sock[w] # << >>
  /\ LET l == Head(sock[w]).link
         known == Known(l)
     IN  /\ \/ /\ Head(sock[w]).up /\ known = {}
               /\ current' = current \cup {Stored(l, w)}
               /\ hand' = [hand EXCEPT ![w] = {Event("Added", Stored(l, w))}]
               /\ mutex' = mutex \cup {w}
            \/ /\ Head(sock[w]).up = (known # {})
               /\ UNCHANGED <<current, hand, mutex>>
            \/ /\ ~Head(sock[w]).up /\ known # {}
               /\ current' = current \ known
               /\ hand' = [hand EXCEPT ![w] = DeletedEvents(known)]
               /\ mutex' = mutex \cup {w}
         /\ reused' = reused \cup Mixed(w, known)
  /\ sock' = [sock EXCEPT ![w] = Tail(@)]
  /\ UNCHANGED <<alive, life, missed, link, changes, nsVars, pc, done, inst, todo, acquired, out>>

\* Mutant: the mutex is not released after an event.
Unlock_Forgotten(w) == UNCHANGED mutex

Unlock(w) == mutex' = mutex \ {w}

SendEvent(w) ==
  /\ hand[w] # {}
  /\ Len(out) < BuffersLength
  /\ \E ev \in hand[w] : out' = Append(out, ev)
  /\ hand' = [hand EXCEPT ![w] = {}]
  /\ Unlock(w)
  /\ UNCHANGED <<kernelVars, nsVars, pc, done, inst, sock, todo, acquired, current>>

\* A closed done channel closes the socket, and with it the channel of updates.
LinksClosed(w) ==
  /\ pc[w] = "loop" /\ todo[w] = {} /\ hand[w] = {}
  /\ <<w.ns, done[w]>> \in closed
  /\ Goto(w, "returned")
  /\ sock' = [sock EXCEPT ![w] = << >>]
  /\ UNCHANGED <<kernelVars, nsVars, done, inst, todo, acquired, hand, mutex, current, out>>

sendUpdates(w) ==
  \/ LoadDone(w) \/ SubscribeLinks(w) \/ ListInterfaces(w)
  \/ HandleLink(w) \/ SendEvent(w) \/ LinksClosed(w)
  \/ \E l \in Link : StoreListed(w, l)
-----------------------------------------------------------------------------
(* Poller.pollForEvents: the interfaces of one namespace are listed and compared, by *)
(* diffNames, with the map that all namespaces share, unlocked; again after a period.  *)

pollForEvents(w) ==
  /\ pc[w] = "poll"
  /\ inst' = [inst EXCEPT ![w] = life[w.ns]]
  /\ acquired' = [acquired EXCEPT ![w] = {l \in Link : l.ns = w.ns /\ link[l] # "absent"}]
  /\ todo' = [todo EXCEPT ![w] = acquired'[w]]
  /\ Goto(w, "new")
  /\ UNCHANGED <<kernelVars, nsVars, done, sock, hand, mutex, current, out>>

\* An interface that is not known is stored, and then the goroutine waits to send it.
DiffNew(w, l) ==
  /\ pc[w] = "new" /\ hand[w] = {}
  /\ l \in todo[w]
  /\ todo' = [todo EXCEPT ![w] = @ \ {l}]
  /\ \/ Known(l) # {} /\ UNCHANGED <<current, hand>>
     \/ /\ Known(l) = {}
        /\ current' = current \cup {Stored(l, w)}
        /\ hand' = [hand EXCEPT ![w] = {Event("Added", Stored(l, w))}]
  /\ UNCHANGED <<kernelVars, nsVars, pc, done, inst, sock, acquired, mutex, out>>

\* The iteration over current visits the entries that stay in it.
DiffNewDone(w) ==
  /\ pc[w] = "new" /\ hand[w] = {} /\ todo[w] = {}
  /\ todo' = [todo EXCEPT ![w] = {m.link : m \in current} \ acquired[w]]
  /\ Goto(w, "gone")
  /\ UNCHANGED <<kernelVars, nsVars, done, inst, sock, acquired, hand, mutex, current, out>>

\* It may visit the ones that are stored meanwhile.
DiffGone(w, m) ==
  /\ pc[w] = "gone" /\ hand[w] = {}
  /\ m \in current /\ m.link \notin acquired[w]
  /\ current' = current \ {m}
  /\ todo' = [v \in Worker |-> IF pc[v] = "gone" THEN todo[v] \ {m.link} ELSE todo[v]]
  /\ hand' = [hand EXCEPT ![w] = {Event("Deleted", m)}]
  /\ UNCHANGED <<kernelVars, nsVars, pc, done, inst, sock, acquired, mutex, out>>

DiffGoneDone(w) ==
  /\ pc[w] = "gone" /\ hand[w] = {} /\ todo[w] = {}
  /\ acquired' = [acquired EXCEPT ![w] = {}]
  /\ Goto(w, "poll")
  /\ UNCHANGED <<kernelVars, nsVars, done, inst, sock, todo, hand, mutex, current, out>>

poller(w) ==
  \/ pollForEvents(w) \/ DiffNewDone(w) \/ DiffGoneDone(w)
  \/ \E l \in Link : DiffNew(w, l)
  \/ \E m \in current : DiffGone(w, m)

Informer ==
  \/ SubscribeList \/ SubscribeWatch \/ handleEvent
  \/ \E w \in Worker : sendUpdates(w) \/ poller(w)
=============================================================================
