-------------------------- MODULE InterfaceListener --------------------------
(***************************************************************************)
(* The goroutine that attaches the flow hooks to the network interfaces:   *)
(* interfaceListener (pkg/agent/common/interfaces_listener.go) over        *)
(* Fetcher.AttachTCX, DetachTCX, Register and UnRegister                   *)
(* (pkg/tracer/flows/fetcher.go) and pkg/tracer/internal/netattach.        *)
(*                                                                         *)
(* An informer reports an interface Added when it runs and Deleted when it *)
(* stops or is removed.  The listener handles one event at a time; an      *)
(* event that failed sleeps in a goroutine of its own and is then requeued *)
(* behind whatever the informer reported meanwhile.                        *)
(*                                                                         *)
(* The hooks of an interface are the sets of directions in which it has a  *)
(* TCX program and a TC filter.  The TCX programs of an interface may end  *)
(* with one of another agent.  Interfaces that the configuration excludes, *)
(* and netkit devices, are left out.                                       *)
(***************************************************************************)
EXTENDS Naturals, Sequences, FiniteSets

CONSTANTS Iface,            \* interfaces: records with name and ns ("" is the agent's)
          TCAttachModes,    \* the values of tcAttachMode to consider
          EnableEgress, EnableIngress,
          TCAttachRetries,
          BuffersLength,    \* capacity of the informer's channel and of requeue
          MaxEvents,        \* bound: events the informer sends
          MaxFailures       \* bound: system calls that fail

ASSUME ListenerAssumption ==
  /\ TCAttachModes \subseteq {"tcx", "tc", "any"}
  /\ {EnableEgress, EnableIngress} \subseteq BOOLEAN /\ (EnableEgress \/ EnableIngress)
  /\ {TCAttachRetries, BuffersLength} \subseteq Nat \ {0}
  /\ {MaxEvents, MaxFailures} \subseteq Nat

Egress  == IF EnableEgress THEN {"egress"} ELSE {}
Ingress == IF EnableIngress THEN {"ingress"} ELSE {}
Dir == Egress \cup Ingress

\* The directions hooked when a sequence of attach operations, egress first, stops.
Prefix == {{}, Egress, Dir}

Event == [iface : Iface, type : {"Added", "Deleted"}, num : 1..MaxEvents,
          attempt : 1..TCAttachRetries]

VARIABLES
  tcAttachMode, \* "tcx", "tc" or "any", configured at start
  exists,     \* interfaces that have not been removed
  up,         \* interfaces that are up and running
  sent,       \* number of events the informer sent
  latest,     \* history: the number of the last event of each interface
  handled,    \* history: the number of the event of each interface handled last
  hit,        \* history: interfaces that lost filters since then, to an event of a namesake
  events,     \* the informer's channel
  sleeping,   \* events whose retry is waiting for its delay
  requeue,    \* interfaceListener.requeue
  abandoned,  \* events that completed with an error
  failures,   \* system calls that failed
  tcx, tc,    \* the hooks of each interface in the kernel
  others,     \* interfaces whose last TCX program, in both directions, is another agent's
  link,       \* directions with an entry in egressTCXLink or ingressTCXLink
  taken,      \* directions whose entry is the link of the other agent's program
  orphan      \* directions whose TCX link is also held by a forgotten descriptor

kernelVars == <<tcAttachMode, exists, up, others>>
queueVars  == <<sent, latest, handled, hit, events, sleeping, requeue, abandoned>>
tcxVars    == <<tcx, link, taken, orphan>>
hookVars   == <<tcxVars, tc>>
vars == <<kernelVars, queueVars, failures, hookVars>>

Init ==
  /\ tcAttachMode \in TCAttachModes
  /\ exists = Iface /\ others \in SUBSET Iface
  /\ up = {}
  /\ sent = 0 /\ latest = [i \in Iface |-> 0] /\ handled = latest /\ hit = {}
  /\ events = << >> /\ sleeping = {} /\ requeue = << >> /\ abandoned = {}
  /\ failures = 0
  /\ tcx = [i \in Iface |-> {}] /\ tc = [i \in Iface |-> {}]
  /\ link = [i \in Iface |-> {}] /\ taken = link /\ orphan = [i \in Iface |-> {}]
-----------------------------------------------------------------------------
(* The interfaces and their informer *)

Send(i, type) ==
  /\ sent < MaxEvents
  /\ Len(events) < BuffersLength
  /\ sent' = sent + 1
  /\ latest' = [latest EXCEPT ![i] = sent']
  /\ events' = Append(events, [iface |-> i, type |-> type, num |-> sent', attempt |-> 1])
  /\ UNCHANGED <<others, handled, hit, sleeping, requeue, abandoned, failures>>

Starts(i) ==
  /\ i \in exists \ up
  /\ up' = up \cup {i}
  /\ Send(i, "Added")
  /\ UNCHANGED <<tcAttachMode, exists, hookVars>>

Stops(i) ==
  /\ i \in up
  /\ up' = up \ {i}
  /\ Send(i, "Deleted")
  /\ UNCHANGED <<tcAttachMode, exists, hookVars>>

\* The kernel drops the hooks of a removed interface; the links stay open.
Removed(i) ==
  /\ i \in up
  /\ up' = up \ {i}
  /\ exists' = exists \ {i}
  /\ tcx' = [tcx EXCEPT ![i] = {}]
  /\ tc' = [tc EXCEPT ![i] = {}]
  /\ Send(i, "Deleted")
  /\ UNCHANGED <<tcAttachMode, link, taken, orphan>>

\* A descriptor that no link refers to is closed by the garbage collector.
CollectGarbage(i) ==
  /\ orphan[i] # {}
  /\ orphan' = [orphan EXCEPT ![i] = {}]
  /\ tcx' = [tcx EXCEPT ![i] = @ \cap (link[i] \ taken[i])]
  /\ UNCHANGED <<kernelVars, queueVars, failures, tc, link, taken>>
-----------------------------------------------------------------------------
(* The operations of the fetcher: the hooks they leave, given the directions S that *)
(* are hooked when they return; S # Dir is an error.                                *)

\* n system calls fail in this step.
Fail(n) == failures' = failures + n /\ failures' <= MaxFailures

\* The failures of an attach that hooks S: a missing interface makes it fail anyway.
AttachFailures(i, S) == IF S = Dir \/ i \notin exists THEN 0 ELSE 1

\* AttachTCX stores each link as it goes.  A direction that is hooked already (ErrExist)
\* gets a descriptor of the link of the last program there, its own or another agent's,
\* and the descriptor that was stored before is forgotten.
AttachTCX(i, S) ==
  LET again == S \cap tcx[i]
  IN  /\ S \in Prefix
      /\ i \notin exists => S = {}
      /\ orphan' = [orphan EXCEPT ![i] = @ \cup (S \cap (link[i] \ taken[i]))]
      /\ link' = [link EXCEPT ![i] = @ \cup S]
      /\ taken' = [taken EXCEPT ![i] = (@ \ S) \cup (IF i \in others THEN again ELSE {})]
      /\ tcx' = [tcx EXCEPT ![i] = @ \cup S]

\* Every link is closed and forgotten; a hook stays while an orphan holds its link.
DetachTCX(i) ==
  /\ link' = [link EXCEPT ![i] = {}]
  /\ taken' = [taken EXCEPT ![i] = {}]
  /\ tcx' = [tcx EXCEPT ![i] = @ \cap orphan[i]]
  /\ UNCHANGED orphan

\* It returns an error, never retried, when a link is missing or when a Close reports one,
\* which releases the descriptor all the same: the failures with which it can return one.
CloseFailures(i) == (IF link[i] # Dir THEN {0} ELSE {}) \cup (IF link[i] # {} THEN {1} ELSE {})

\* netattach.Unregister removes the filters of the interfaces of that name that it
\* finds in the agent's own namespace; the ones it cannot remove are only logged.
SameName(i) == {j \in Iface : j.name = i.name /\ j.ns = ""}

Unregister(filters, i, kept) ==
  [j \in Iface |-> IF j \in SameName(i) THEN filters[j] \cap kept ELSE filters[j]]

\* Register deletes the qdisc with its filters and adds it again, removes the filters
\* of the name, and adds the new ones; step is the last step begun.
Register(i, S, step) ==
  LET fresh == [tc EXCEPT ![i] = {}]
  IN  /\ S \in Prefix
      /\ S # {} => step = "filters"
      /\ i \notin exists => step = "lookup"
      /\ tc' = CASE step = "lookup"  -> tc
                 [] step = "qdisc"   -> fresh
                 [] step = "filters" -> [Unregister(fresh, i, {}) EXCEPT ![i] = S]

Step == {"lookup", "qdisc", "filters"}
-----------------------------------------------------------------------------
(* interfaceListener *)

\* runWithRetries: a failed event sleeps until its retry, or completes with the error.
RunWithRetries(ev, ok, retriable) ==
  LET again == retriable /\ ev.attempt < TCAttachRetries
  IN  /\ sleeping' = IF ~ok /\ again THEN sleeping \cup {ev} ELSE sleeping
      /\ abandoned' = IF ~ok /\ ~again THEN abandoned \cup {ev} ELSE abandoned

Complete(ev, ok) == RunWithRetries(ev, ok, FALSE)

attachTC(ev) ==
  \E S \in Prefix, step \in Step :
    /\ Register(ev.iface, S, step)
    /\ Fail(AttachFailures(ev.iface, S))
    /\ RunWithRetries(ev, S = Dir, TRUE)
    /\ UNCHANGED tcxVars

attachTCX(ev) ==
  \E S \in Prefix :
    /\ AttachTCX(ev.iface, S)
    /\ Fail(AttachFailures(ev.iface, S))
    /\ RunWithRetries(ev, S = Dir, TRUE)
    /\ UNCHANGED tc

\* Mutant of attachAny: the fallback is skipped once TCX hooked a direction.
attachAny_PartialIsEnough(ev) ==
  \E S \in Prefix :
    /\ AttachTCX(ev.iface, S)
    /\ \/ /\ S # {}
          /\ Complete(ev, TRUE)
          /\ Fail(AttachFailures(ev.iface, S))
          /\ UNCHANGED tc
       \/ /\ S = {}
          /\ \E T \in Prefix, step \in Step :
               /\ Register(ev.iface, T, step)
               /\ Fail(AttachFailures(ev.iface, S) + AttachFailures(ev.iface, T))
               /\ Complete(ev, T = Dir)

\* TC filters are tried when the TCX programs could not all be attached.
attachAny(ev) ==
  \E S \in Prefix :
    /\ AttachTCX(ev.iface, S)
    /\ \/ /\ S = Dir
          /\ Complete(ev, TRUE)
          /\ UNCHANGED <<tc, failures>>
       \/ /\ S # Dir
          /\ \E T \in Prefix, step \in Step :
               /\ Register(ev.iface, T, step)
               /\ Fail(AttachFailures(ev.iface, S) + AttachFailures(ev.iface, T))
               /\ Complete(ev, T = Dir)

\* UnRegister, after n other failures; it fails when the links or filters cannot be listed.
UnRegister(i, n) ==
  \E kept \in SUBSET Dir :
    /\ tc' = Unregister(tc, i, kept)
    /\ Fail(IF kept = {} THEN n ELSE n + 1)

UnRegisterFails(n) == Fail(n + 1) /\ UNCHANGED tc

detachTC(ev) ==
  /\ \/ UnRegister(ev.iface, 0) /\ RunWithRetries(ev, TRUE, TRUE)
     \/ UnRegisterFails(0) /\ RunWithRetries(ev, FALSE, TRUE)
  /\ UNCHANGED tcxVars

detachTCX(ev) ==
  /\ DetachTCX(ev.iface)
  /\ \/ /\ link[ev.iface] = Dir
        /\ RunWithRetries(ev, TRUE, FALSE)
        /\ UNCHANGED failures
     \/ /\ \E n \in CloseFailures(ev.iface) : Fail(n)
        /\ RunWithRetries(ev, FALSE, FALSE)
  /\ UNCHANGED tc

\* TC filters are removed when a TCX link was missing or not closed.
detachAny(ev) ==
  /\ DetachTCX(ev.iface)
  /\ \/ /\ link[ev.iface] = Dir
        /\ Complete(ev, TRUE)
        /\ UNCHANGED <<tc, failures>>
     \/ \E n \in CloseFailures(ev.iface) :
          \/ UnRegister(ev.iface, n) /\ Complete(ev, TRUE)
          \/ UnRegisterFails(n) /\ Complete(ev, FALSE)

onEventReceived(ev) ==
  \/ ev.type = "Added" /\ tcAttachMode = "tc" /\ attachTC(ev)
  \/ ev.type = "Added" /\ tcAttachMode = "tcx" /\ attachTCX(ev)
  \/ ev.type = "Added" /\ tcAttachMode = "any" /\ attachAny(ev)
  \/ ev.type = "Deleted" /\ tcAttachMode = "tc" /\ detachTC(ev)
  \/ ev.type = "Deleted" /\ tcAttachMode = "tcx" /\ detachTCX(ev)
  \/ ev.type = "Deleted" /\ tcAttachMode = "any" /\ detachAny(ev)

Handled(ev) ==
  /\ handled' = [handled EXCEPT ![ev.iface] = ev.num]
  /\ hit' = (hit \cup {j \in Iface : tc'[j] # tc[j]}) \ {ev.iface}

\* The select of start takes from either channel.
HandleEvent ==
  /\ events # << >>
  /\ onEventReceived(Head(events))
  /\ events' = Tail(events)
  /\ Handled(Head(events))
  /\ UNCHANGED <<kernelVars, sent, latest, requeue>>

HandleRetry ==
  /\ requeue # << >>
  /\ onEventReceived(Head(requeue))
  /\ requeue' = Tail(requeue)
  /\ Handled(Head(requeue))
  /\ UNCHANGED <<kernelVars, sent, latest, events>>

\* Mutant of Requeue: the attempts are not counted.
Requeue_SameAttempt(ev) ==
  /\ ev \in sleeping
  /\ Len(requeue) < BuffersLength
  /\ sleeping' = sleeping \ {ev}
  /\ requeue' = Append(requeue, ev)
  /\ UNCHANGED <<kernelVars, sent, latest, handled, hit, events, abandoned, failures, hookVars>>

\* The goroutine of runWithRetries, after its sleep.
Requeue(ev) ==
  /\ ev \in sleeping
  /\ Len(requeue) < BuffersLength
  /\ sleeping' = sleeping \ {ev}
  /\ requeue' = Append(requeue, [ev EXCEPT !.attempt = @ + 1])
  /\ UNCHANGED <<kernelVars, sent, latest, handled, hit, events, abandoned, failures, hookVars>>

Listener == HandleEvent \/ HandleRetry

Next ==
  \/ \E i \in Iface : Starts(i) \/ Stops(i) \/ Removed(i) \/ CollectGarbage(i)
  \/ Listener
  \/ \E ev \in sleeping : Requeue(ev)

\* The goroutines go on and every delay ends; the interfaces may do nothing.  Go's
\* select picks at random among the channels that are ready, so neither starves.
Fairness ==
  /\ SF_vars(HandleEvent) /\ SF_vars(HandleRetry)
  /\ WF_vars(\E ev \in sleeping : Requeue(ev))
  /\ \A i \in Iface : WF_vars(CollectGarbage(i))

Spec == Init /\ [][Next]_vars
FairSpec == Spec /\ Fairness
-----------------------------------------------------------------------------
(* Properties *)

Pending == {events[k] : k \in DOMAIN events} \cup sleeping \cup {requeue[k] : k \in DOMAIN requeue}

Hooked(i) == Dir \in {tcx[i], tc[i]}

\* A hook that only an orphan descriptor holds goes away by itself.
Unhooked(i) == tc[i] = {} /\ tcx[i] \subseteq orphan[i] \ link[i]

\* Once every event is handled, the hooks match the interfaces.  A running interface is hooked
\* in all directions ("For each running interface, it registers a flow ebpfFetcher",
\* interfaces_listener.go), except in these cases: its last event was abandoned after its
\* retries; a second attach took the link of another agent's program for its own and forgot
\* the real one (fetcher.go:444); with TC filters only, the retry of a Deleted event came
\* after the interface was back and removed the filters of the event that overtook it; an
\* event of an interface of the same name in another namespace removed its filters
\* (netattach.go:108).  When no system call failed, it is hooked by one mechanism, and an
\* interface that stopped is not hooked, unless it has TC filters in another namespace,
\* where they are not looked for.
HooksFollowInterface ==
  Pending = {} =>
    \A i \in exists :
      /\ i \in up => \/ Hooked(i)
                     \/ \E ev \in abandoned : ev.num = latest[i]
                     \/ taken[i] # {}
                     \/ (tcAttachMode = "tc" /\ handled[i] # latest[i])
                     \/ i \in hit
      /\ failures = 0 =>
           IF i \in up THEN {} \in {tcx[i], tc[i]}
                       ELSE Unhooked(i) \/ (tcAttachMode = "tc" /\ i.ns # "")

\* Every event is eventually done with: retries end, even for an interface that is gone.
EventsSettle ==
  \A n \in 1..MaxEvents : (\E ev \in Pending : ev.num = n) ~> ~(\E ev \in Pending : ev.num = n)
=============================================================================
