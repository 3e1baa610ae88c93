------------------------------ MODULE Registerer ------------------------------
(***************************************************************************)
(* The Registerer (pkg/ifaces/registerer.go) on top of an informer: its    *)
(* goroutine keeps the cache of interface names, by index and MAC, that    *)
(* the flows are decorated with, and forwards the events; the lookups of   *)
(* the pipeline read the cache and fall back to the kernel, inserting what *)
(* they find.                                                              *)
(***************************************************************************)
EXTENDS Informers

CONSTANTS Caller,     \* goroutines that look up names
          Preferred   \* preferredInterfaces: records with macs (of the prefix) and intf

VARIABLES
  ifaces,     \* Registerer.ifaces, as entries with index, mac and name
  lookup,     \* of each caller: the index it looks up in the kernel (0 if none)
  found,      \* the interface the kernel returned to it, as a set of entries
  forwarding, \* the event handled last waits for room in the channel to the listener
  announced,  \* history: the last event of each link, and the latest life it was announced in
  overwritten,\* history: links whose entry was overwritten by the Added of another link
  inserted    \* history: entries that lookups have inserted since their last event

historyVars == <<announced, overwritten, inserted>>
regVars == <<ifaces, lookup, found, forwarding, historyVars>>
vars == <<informerVars, regVars>>

RegInit ==
  /\ Init
  /\ ifaces = {} /\ inserted = {} /\ overwritten = {} /\ forwarding = FALSE
  /\ lookup = [c \in Caller |-> 0] /\ found = [c \in Caller |-> {}]
  /\ announced = [l \in Link |-> [type |-> "none", life |-> 0]]

Entry(l) == [index |-> l.index, mac |-> l.mac, name |-> l.name]

SameSlot(e, f) == e.index = f.index /\ e.mac = f.mac

Added(e) == {f \in ifaces : ~SameSlot(e, f)} \cup {e}

\* Mutant: every MAC of the index is removed.
Deleted_WholeIndex(e) == {f \in ifaces : f.index # e.index}

\* The entry goes only if it holds the name of the deleted interface.
Deleted(e) == ifaces \ {e}

\* The goroutine of Subscribe: one event of the inner informer, which is then forwarded.
HandleEvent ==
  /\ out # << >> /\ ~forwarding
  /\ LET ev == Head(out)
         e  == Entry(ev.link)
     IN  /\ ifaces' = IF ev.type = "Added" THEN Added(e) ELSE Deleted(e)
         /\ announced' = [announced EXCEPT ![ev.link] =
                            [type |-> ev.type,
                             life |-> IF ev.life > @.life THEN ev.life ELSE @.life]]
         /\ overwritten' =
              IF ev.type = "Added"
                THEN (overwritten \cup {l \in Link : SameSlot(e, l)}) \ {ev.link}
                ELSE overwritten
         /\ inserted' = inserted \ {e}
  /\ out' = Tail(out)
  /\ forwarding' = TRUE
  /\ UNCHANGED <<kernelVars, nsVars, workerVars, lookup, found>>

\* The listener, which takes its events in its own time, has made room.
Forwarded ==
  /\ forwarding
  /\ forwarding' = FALSE
  /\ UNCHANGED <<informerVars, ifaces, lookup, found, historyVars>>
-----------------------------------------------------------------------------
(* IfaceNameForIndexAndMAC *)

\* A preferred interface for the MAC that is among the entries of the index.
matches(p, mac, entries) ==
  {e.name : e \in {f \in entries : mac \in p.macs /\ f.name = p.intf}}

\* ifaceCacheLookup: the names it may return; the iteration over a map takes any entry.
ifaceCacheLookup(idx, mac) ==
  LET entries == {e \in ifaces : e.index = idx}
      exact   == {e.name : e \in {f \in entries : f.mac = mac}}
      prefer  == {i \in 1..Len(Preferred) : matches(Preferred[i], mac, entries) # {}}
      any     == {e.name : e \in entries}
  IN  CASE Cardinality(entries) <= 1 -> any
        [] Cardinality(entries) > 1 /\ exact # {} -> exact
        [] Cardinality(entries) > 1 /\ exact = {} /\ prefer # {} ->
             LET first == CHOOSE i \in prefer : \A j \in prefer : i <= j
             IN  matches(Preferred[first], mac, entries)
        [] OTHER -> any

\* The name is not in the cache.
LookupMisses(c, idx, mac) ==
  /\ lookup[c] = 0 /\ scenario.lookups
  /\ ifaceCacheLookup(idx, mac) = {}
  /\ lookup' = [lookup EXCEPT ![c] = idx]
  /\ UNCHANGED <<informerVars, ifaces, found, forwarding, historyVars>>

\* net.InterfaceByIndex looks in the namespace of the agent.
InterfaceByIndex(c) ==
  /\ lookup[c] # 0 /\ found[c] = {}
  /\ LET there == {l \in Link : l.ns = "" /\ l.index = lookup[c] /\ link[l] # "absent"}
     IN  \/ \E l \in there : found' = [found EXCEPT ![c] = {Entry(l)}] /\ UNCHANGED lookup
         \/ there = {} /\ lookup' = [lookup EXCEPT ![c] = 0] /\ UNCHANGED found
  /\ UNCHANGED <<informerVars, ifaces, forwarding, historyVars>>

\* The second look, under the lock: an entry that came in between is respected.
InsertFound(c) ==
  /\ found[c] # {}
  /\ \E e \in found[c] :
       \/ (\E f \in ifaces : SameSlot(e, f)) /\ UNCHANGED <<ifaces, inserted>>
       \/ /\ ~\E f \in ifaces : SameSlot(e, f)
          /\ ifaces' = ifaces \cup {e}
          /\ inserted' = inserted \cup {e}
  /\ lookup' = [lookup EXCEPT ![c] = 0]
  /\ found' = [found EXCEPT ![c] = {}]
  /\ UNCHANGED <<informerVars, forwarding, announced, overwritten>>

IfaceNameForIndexAndMAC(c) ==
  \/ \E l \in Link : LookupMisses(c, l.index, l.mac)
  \/ InterfaceByIndex(c) \/ InsertFound(c)
-----------------------------------------------------------------------------
Next ==
  \/ (Kernel \/ Informer) /\ UNCHANGED regVars
  \/ HandleEvent \/ Forwarded
  \/ \E c \in Caller : IfaceNameForIndexAndMAC(c)

Spec == RegInit /\ [][Next]_vars

\* The goroutines of Watcher, Registerer and listener run; the kernel owes nothing.
FairSpec ==
  /\ Spec
  /\ WF_vars(HandleEvent) /\ WF_vars(Forwarded)
  /\ WF_vars((SubscribeList \/ SubscribeWatch) /\ UNCHANGED regVars)
  /\ WF_vars(handleEvent /\ UNCHANGED regVars)
  /\ \A w \in Worker : WF_vars(sendUpdates(w) /\ UNCHANGED regVars)
-----------------------------------------------------------------------------
(* Properties *)

\* Nothing is under way in the informer: every change of the kernel was handled.
Settled ==
  /\ phase = "run" /\ fs = << >> /\ out = << >>
  /\ \A w \in Worker :
       /\ pc[w] \in {"none", "loop", "poll", "returned"}
       /\ todo[w] = {} /\ hand[w] = {} /\ sock[w] = << >>
       /\ <<w.ns, done[w]>> \in closed => pc[w] # "loop"
       /\ pc[w] = "poll" =>
            {m.link : m \in {n \in current : n.link.ns = w.ns}}
              = {l \in Link : l.ns = w.ns /\ link[l] # "absent"}

\* The pollers of several namespaces delete each other's interfaces (poller.go:102).
OnePoller == scenario.informer = "poll" => alive = {""}

\* Watcher.sendUpdates subscribes before it lists, so that no interface falls between the
\* two, and Poller compares what it lists with what it knows: once the informer is settled,
\* the last event of an interface that is up is that it was added.  Left out are the pollers
\* of several namespaces, a namespace that was created before the watch of the directory or
\* could not be subscribed to, and one that was mixed up with an earlier namespace of the
\* same name: an update found the entry of the other in current, where deleteNamespace
\* leaves it (watcher.go:237), or the earlier goroutine subscribed late, to the new one, or
\* replaced its entry.
UpIsAnnounced ==
  Settled /\ OnePoller => \A l \in Link :
    link[l] = "up" /\ <<l.ns, life[l.ns]>> \notin missed \cup reused =>
      announced[l] = [type |-> "Added", life |-> life[l.ns]]

\* The cache follows the events.  An interface that was added has its own name in it
\* (IfaceNameForIndexAndMAC), whatever the interfaces of other namespaces with the same index,
\* whatever the lookups that raced with the events have inserted, and also when a Deleted of
\* another interface with the same index and MAC, from which the link was moved, comes late;
\* only the Added of that one, coming late, takes its place.  Once the informer is settled,
\* the cache keeps an interface that is gone only if a lookup inserted it after its last
\* event, if its namespace went with it or could not be subscribed to, if it was mixed up
\* with an earlier one of that name, or with the pollers of several namespaces.
CacheFollowsEvents ==
  /\ \A l \in Link \ overwritten :
       announced[l].type = "Added" /\ announced[l].life = life[l.ns] /\ link[l] = "up"
         => ifaceCacheLookup(l.index, l.mac) = {l.name}
  /\ Settled /\ OnePoller => \A e \in ifaces :
       \/ e \in inserted
       \/ \E l \in Link :
            /\ Entry(l) = e
            /\ \/ link[l] # "absent"
               \/ announced[l].life # life[l.ns] \/ l.ns \notin alive
               \/ <<l.ns, life[l.ns]>> \in missed \cup reused

\* Watcher: an interface that stays up, in a namespace it knows of, is announced, although
\* every worker holds the one mutex while it waits for room in the channel; namespaces that
\* were missed or mixed up are left out as above.
UpEventuallyAnnounced ==
  \A l \in Link :
    scenario.informer = "watch" /\ link[l] = "up" ~>
      \/ link[l] # "up" \/ <<l.ns, life[l.ns]>> \in missed \cup reused
      \/ announced[l] = [type |-> "Added", life |-> life[l.ns]]
=============================================================================
