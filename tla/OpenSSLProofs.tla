---------------------------- MODULE OpenSSLProofs ----------------------------
(***************************************************************************)
(* Which object and which descriptor an event of the OpenSSL probes names, *)
(* for any number of threads, SSL objects and descriptors, any sizes of    *)
(* the maps, and any order of calls, attachments, failures and losses.     *)
(***************************************************************************)
EXTENDS OpenSSL, TLAPS

Fds  == Fd \cup {"none"}
SSLs == SSL \cup {"none"}

Call == [ssl : SSLs, fd : Fds, step : {"none", "entered", "set"}, ret : BOOLEAN]
Read == [ssl : SSLs, ret : BOOLEAN]

\* A map from some of K to V.
IsMap(f, K, V) == f \in [DOMAIN f -> V] /\ DOMAIN f \subseteq K

EventType == [conn_user_ptr : SSL, direction : {"read", "write"}, socket_fd : Fds,
              own : SSL, fd : Fds, closing : BOOLEAN, missed : BOOLEAN]

AppType ==
  /\ bio \in [SSL -> Fds]
  /\ setting \in [Thread -> Call]
  /\ \A t \in Thread : setting[t] # NoCall => setting[t].ssl \in SSL
  /\ reading \in [Thread -> Read] /\ suspended \in [Thread -> Read]
  /\ \A t \in Thread : reading[t] # NoRead => reading[t].ssl \in SSL
  /\ \A t \in Thread : suspended[t] # NoRead => suspended[t].ssl \in SSL

HookType ==
  /\ hooks \in SUBSET Probes
  /\ attacher \in [step : Probes \cup {"undo", "done", "returned"}, links : SUBSET Probes]
  /\ closed \in {"open", "closing", "closed"}

ProbeType ==
  /\ missed \in BOOLEAN
  /\ IsMap(ssl_fd_map, SSL, Fd)
  /\ IsMap(ssl_fd_pending_map, Thread, [ssl : SSL, fd : Fd])
  /\ IsMap(ssl_read_active_map, Thread, SSL)
  /\ events \in Seq(EventType)

SSLTypeOK == AppType /\ HookType /\ ProbeType

\* What the attacher has done of the library when it comes to a probe, and what it would undo.
AttachOrder ==
  /\ attacher.step \in {"bio", "set_fd", "set_fd_ret"} => "free" \in hooks
  /\ attacher.step \in {"set_fd", "set_fd_ret"} => "bio" \in hooks
  /\ attacher.step = "set_fd_ret" => "set_fd" \in hooks
  /\ attacher.step = "read_ret" => "read" \in hooks
  /\ attacher.step \in Tracking \cup {"undo"} => attacher.links \subseteq Tracking
  /\ attacher.step \in Tracking \cup {"undo"} /\ "set_fd_ret" \in hooks => attacher.links = {}
  /\ "set_fd_ret" \in hooks => Tracking \subseteq hooks
  /\ "read_ret" \in hooks => "read" \in hooks

\* The calls that a return probe will see, and the bindings there can be at all.
Seen ==
  /\ \A t \in Thread : setting[t].ret => "set_fd_ret" \in hooks
  /\ \A t \in Thread : reading[t].ret => "read_ret" \in hooks
  /\ \A t \in Thread : suspended[t].ret => reading[t].ret
  /\ DOMAIN ssl_fd_map # {} => "set_fd_ret" \in hooks

\* One thread sets the descriptor of an object at a time.
SetAlone ==
  \A t, u \in Thread : t # u /\ setting[t] # NoCall => setting[t].ssl # setting[u].ssl

SetIsUsed ==
  \A t \in Thread : setting[t].step = "set" => bio[setting[t].ssl] = setting[t].fd

\* An entry of an active read is of the innermost call of its thread.
ActiveIsRead ==
  \A t \in Thread : reading[t].ret /\ t \in DOMAIN ssl_read_active_map
                      => ssl_read_active_map[t] = reading[t].ssl

PendingIsSetting ==
  \A t \in DOMAIN ssl_fd_pending_map :
    /\ setting[t] # NoCall /\ setting[t].ret
    /\ ssl_fd_pending_map[t] = [ssl |-> setting[t].ssl, fd |-> setting[t].fd]

BindingIsUsed == \A s \in DOMAIN ssl_fd_map : ssl_fd_map[s] = bio[s]

IInv ==
  /\ SSLTypeOK /\ SetAlone /\ SetIsUsed
  /\ closed = "open" => AttachOrder /\ Seen /\ ActiveIsRead
  /\ closed = "open" /\ ~missed => PendingIsSetting /\ BindingIsUsed
  /\ EventOfItsSocket /\ ReadOfItsCall
-----------------------------------------------------------------------------
\* The probe that follows another.
LEMMA AfterFacts ==
  /\ After("free") = "bio" /\ After("bio") = "set_fd" /\ After("set_fd") = "set_fd_ret"
  /\ After("set_fd_ret") = "write" /\ After("write") = "read" /\ After("read") = "read_ret"
  /\ After("read_ret") = "done"
<1>1. /\ Place("free") = 1 /\ Place("bio") = 2 /\ Place("set_fd") = 3 /\ Place("set_fd_ret") = 4
      /\ Place("write") = 5 /\ Place("read") = 6 /\ Place("read_ret") = 7
  BY DEF Place, Order
<1> QED
  BY <1>1 DEF After, Order
-----------------------------------------------------------------------------
(* The attacher: it changes neither the maps nor the process. *)

\* The steps of the attacher.  Undoing takes away no probe that a binding or a call relies on.
LEMMA AttacherKeeps ==
  IInv /\ (Attacher \/ CloseStart \/ scanOnce \/ AttachFails) => IInv'
<1> SUFFICES ASSUME IInv, Attacher \/ CloseStart \/ scanOnce \/ AttachFails PROVE IInv'
  OBVIOUS
<1>1. UNCHANGED <<appVars, probeVars, events>>
  BY DEF Attacher, attachToLibrary, AttachUndo, ScanStops, CloseLinks, CloseStart, scanOnce, AttachFails
<1> USE DEF IInv
<1>2. HookType'
  BY AfterFacts DEF SSLTypeOK, HookType, Probes, Tracking, Attacher, attachToLibrary, AttachUndo,
                    ScanStops, CloseLinks, CloseStart, scanOnce, AttachFails
<1>3. SSLTypeOK' /\ SetAlone' /\ SetIsUsed' /\ EventOfItsSocket' /\ ReadOfItsCall'
  BY <1>1, <1>2 DEF SSLTypeOK, AppType, ProbeType, SetAlone, SetIsUsed, EventOfItsSocket,
                    ReadOfItsCall, appVars, probeVars
<1>4. ASSUME closed' = "open"
      PROVE  closed = "open" /\ AttachOrder' /\ ("set_fd_ret" \in hooks => "set_fd_ret" \in hooks')
               /\ ("read_ret" \in hooks => "read_ret" \in hooks')
  <2>1. CASE attachToLibrary
    BY <1>4, <2>1, AfterFacts DEF attachToLibrary, AttachOrder, SSLTypeOK, HookType, Probes, Tracking
  <2>2. CASE AttachFails
    BY <1>4, <2>2 DEF AttachFails, AttachOrder, SSLTypeOK, HookType, Probes, Tracking
  <2>3. CASE AttachUndo
    BY <1>4, <2>3 DEF AttachUndo, AttachOrder, SSLTypeOK, HookType, Probes, Tracking
  <2>4. CASE ScanStops \/ CloseLinks \/ CloseStart \/ scanOnce
    BY <1>4, <2>4 DEF ScanStops, CloseLinks, CloseStart, scanOnce, AttachOrder, SSLTypeOK,
                      HookType, Tracking
  <2> QED
    BY <2>1, <2>2, <2>3, <2>4 DEF Attacher
<1>5. ASSUME closed' = "open" PROVE Seen' /\ ActiveIsRead'
  BY <1>1, <1>4, <1>5 DEF Seen, ActiveIsRead, appVars, probeVars
<1>6. ASSUME closed' = "open", ~missed' PROVE PendingIsSetting' /\ BindingIsUsed'
  BY <1>1, <1>4, <1>6 DEF PendingIsSetting, BindingIsUsed, appVars, probeVars
<1> QED
  BY <1>3, <1>4, <1>5, <1>6
-----------------------------------------------------------------------------
(* The calls that bind a descriptor *)

\* A thread that is in no call has nothing pending.
LEMMA EntryKeeps ==
  ASSUME IInv, NEW t \in Thread, NEW ssl \in SSL, NEW fd \in Fds, SSL_set_fd_entry(t, ssl, fd)
  PROVE  IInv'
<1> DEFINE probed == "set_fd" \in hooks /\ fd # "none"
           ret == "set_fd_ret" \in hooks
           call == [ssl |-> ssl, fd |-> fd, step |-> "entered", ret |-> ret]
           binding == [ssl |-> ssl, fd |-> fd]
<1>1. /\ setting[t] = NoCall /\ ssl \notin InUse
      /\ setting' = [setting EXCEPT ![t] = call]
      /\ ssl_fd_map' = IF probed THEN Drop(ssl_fd_map, ssl) ELSE ssl_fd_map
      /\ ssl_fd_pending_map' = IF probed THEN Put(ssl_fd_pending_map, t, binding) ELSE ssl_fd_pending_map
      /\ missed' = (missed \/ (probed /\ ~ret))
      /\ UNCHANGED <<bio, reading, suspended, hooks, attacher, closed, ssl_read_active_map, events>>
  BY DEF SSL_set_fd_entry, Free, hookVars
<1>2. call \in Call /\ (probed => binding \in [ssl : SSL, fd : Fd])
  BY DEF Call, SSLs, Fds
<1>3. /\ IsMap(ssl_fd_map', SSL, Fd) /\ DOMAIN ssl_fd_map' \subseteq DOMAIN ssl_fd_map
      /\ \A s \in DOMAIN ssl_fd_map' : ssl_fd_map'[s] = ssl_fd_map[s]
  BY <1>1 DEF IInv, SSLTypeOK, ProbeType, IsMap, Drop
<1>4. /\ IsMap(ssl_fd_pending_map', Thread, [ssl : SSL, fd : Fd])
      /\ DOMAIN ssl_fd_pending_map' = DOMAIN ssl_fd_pending_map \cup (IF probed THEN {t} ELSE {})
      /\ probed => ssl_fd_pending_map'[t] = binding
      /\ \A u \in DOMAIN ssl_fd_pending_map \ {t} : ssl_fd_pending_map'[u] = ssl_fd_pending_map[u]
  BY <1>1, <1>2 DEF IInv, SSLTypeOK, ProbeType, IsMap, Put
<1>5. SSLTypeOK'
  BY <1>1, <1>2, <1>3, <1>4 DEF IInv, SSLTypeOK, AppType, HookType, ProbeType
<1>6. SetAlone' /\ SetIsUsed'
  <2>1. \A u \in Thread : setting[u].ssl # ssl
    BY <1>1 DEF InUse, Uses
  <2> QED
    BY <1>1, <2>1, Zenon DEF IInv, SSLTypeOK, AppType, SetAlone, SetIsUsed, NoCall
<1>7. ASSUME closed' = "open" PROVE AttachOrder' /\ Seen' /\ ActiveIsRead'
  BY <1>1, <1>3, <1>7, Zenon DEF IInv, SSLTypeOK, AppType, AttachOrder, Seen, ActiveIsRead
<1>8. ASSUME closed' = "open", ~missed' PROVE PendingIsSetting' /\ BindingIsUsed'
  <2>1. PendingIsSetting'
    BY <1>1, <1>4, <1>8, Zenon DEF IInv, SSLTypeOK, AppType, ProbeType, IsMap, PendingIsSetting, NoCall
  <2>2. BindingIsUsed'
    BY <1>1, <1>3, <1>8, Zenon DEF IInv, BindingIsUsed
  <2> QED
    BY <2>1, <2>2
<1> QED
  BY <1>1, <1>5, <1>6, <1>7, <1>8 DEF IInv, EventOfItsSocket, ReadOfItsCall

\* Without the probe on SSL_set_bio there are no bindings.
LEMMA BioKeeps ==
  ASSUME IInv, NEW t \in Thread, SSL_set_fd_bio(t)
  PROVE  IInv'
<1> DEFINE ssl == setting[t].ssl
<1>1. /\ setting[t].step = "entered" /\ ssl \in SSL
      /\ setting' = [setting EXCEPT ![t].step = "set"]
      /\ bio' = [bio EXCEPT ![ssl] = setting[t].fd]
      /\ ssl_fd_map' = IF "bio" \in hooks THEN Drop(ssl_fd_map, ssl) ELSE ssl_fd_map
      /\ UNCHANGED <<reading, suspended, hooks, attacher, closed, missed, ssl_fd_pending_map,
                     ssl_read_active_map, events>>
  BY DEF SSL_set_fd_bio, hookVars, IInv, SSLTypeOK, AppType, NoCall
<1>2. /\ IsMap(ssl_fd_map', SSL, Fd) /\ DOMAIN ssl_fd_map' \subseteq DOMAIN ssl_fd_map
      /\ "bio" \in hooks => ssl \notin DOMAIN ssl_fd_map'
      /\ \A s \in DOMAIN ssl_fd_map' : ssl_fd_map'[s] = ssl_fd_map[s]
  BY <1>1 DEF IInv, SSLTypeOK, ProbeType, IsMap, Drop
<1>3. SSLTypeOK'
  <2>1. setting[t] \in Call /\ setting[t] # NoCall /\ setting[t].fd \in Fds
    BY <1>1 DEF IInv, SSLTypeOK, AppType, Call, NoCall
  <2>2. setting' \in [Thread -> Call] /\ \A u \in Thread : setting'[u].ssl = setting[u].ssl
    BY <1>1, <2>1 DEF IInv, SSLTypeOK, AppType, Call
  <2>3. \A u \in Thread : setting'[u] # NoCall => setting'[u].ssl \in SSL
    BY <1>1, <2>1, <2>2 DEF IInv, SSLTypeOK, AppType
  <2> QED
    BY <1>1, <1>2, <2>1, <2>2, <2>3 DEF IInv, SSLTypeOK, AppType, HookType, ProbeType
<1>4. SetAlone' /\ SetIsUsed'
  <2>1. \A u \in Thread : /\ setting'[u].ssl = setting[u].ssl /\ setting'[u].fd = setting[u].fd
                          /\ setting'[u].step = IF u = t THEN "set" ELSE setting[u].step
                          /\ setting'[u] # NoCall => setting[u] # NoCall
    <3>1. setting'[t] = [setting[t] EXCEPT !.step = "set"] /\ setting[t] \in Call /\ setting[t] # NoCall
      BY <1>1 DEF IInv, SSLTypeOK, AppType, NoCall
    <3>2. \A u \in Thread \ {t} : setting'[u] = setting[u]
      BY <1>1 DEF IInv, SSLTypeOK, AppType
    <3> QED
      BY <3>1, <3>2 DEF Call
  <2>2. \A u \in Thread \ {t} : setting[u].ssl # ssl
    BY <1>1 DEF IInv, SetAlone, NoCall
  <2>3. SetAlone'
    BY <2>1 DEF IInv, SetAlone
  <2>4. SetIsUsed'
    <3> SUFFICES ASSUME NEW u \in Thread, setting'[u].step = "set"
                 PROVE  bio'[setting'[u].ssl] = setting'[u].fd
      BY DEF SetIsUsed
    <3>1. CASE u = t
      BY <1>1, <2>1, <3>1 DEF IInv, SSLTypeOK, AppType
    <3>2. CASE u # t
      BY <1>1, <2>1, <2>2, <3>2 DEF IInv, SSLTypeOK, AppType, SetIsUsed, NoCall
    <3> QED
      BY <3>1, <3>2
  <2> QED
    BY <2>3, <2>4
<1>5. ASSUME closed' = "open" PROVE AttachOrder' /\ Seen' /\ ActiveIsRead'
  BY <1>1, <1>2, <1>5 DEF IInv, SSLTypeOK, AppType, AttachOrder, Seen, ActiveIsRead, Call
<1>6. ASSUME closed' = "open", ~missed' PROVE PendingIsSetting' /\ BindingIsUsed'
  <2>1. PendingIsSetting'
    BY <1>1, <1>6 DEF IInv, SSLTypeOK, AppType, ProbeType, IsMap, PendingIsSetting, NoCall, Call
  <2>2. BindingIsUsed'
    BY <1>1, <1>2, <1>6 DEF IInv, SSLTypeOK, AppType, ProbeType, IsMap, BindingIsUsed, Seen, AttachOrder, Tracking
  <2> QED
    BY <2>1, <2>2
<1> QED
  BY <1>1, <1>3, <1>4, <1>5, <1>6 DEF IInv, EventOfItsSocket, ReadOfItsCall

\* The binding that is committed is the one of this call, and the object uses it by now.
LEMMA RetKeeps ==
  ASSUME IInv, NEW t \in Thread, SSL_set_fd_ret(t)
  PROVE  IInv'
<1> DEFINE probed == setting[t].ret /\ "set_fd_ret" \in hooks /\ t \in DOMAIN ssl_fd_pending_map
           binding == ssl_fd_pending_map[t]
           commits == probed /\ setting[t].step = "set"
<1>1. /\ setting[t] # NoCall
      /\ setting' = [setting EXCEPT ![t] = NoCall]
      /\ ssl_fd_pending_map' = IF probed THEN Drop(ssl_fd_pending_map, t) ELSE ssl_fd_pending_map
      /\ ssl_fd_map' = IF commits THEN Put(ssl_fd_map, binding.ssl, binding.fd) ELSE ssl_fd_map
      /\ UNCHANGED <<bio, reading, suspended, hooks, attacher, closed, missed, ssl_read_active_map, events>>
  BY DEF SSL_set_fd_ret, hookVars
<1>2. probed => binding \in [ssl : SSL, fd : Fd]
  BY DEF IInv, SSLTypeOK, ProbeType, IsMap
<1>3. /\ IsMap(ssl_fd_map', SSL, Fd)
      /\ DOMAIN ssl_fd_map' = DOMAIN ssl_fd_map \cup (IF commits THEN {binding.ssl} ELSE {})
      /\ commits => ssl_fd_map'[binding.ssl] = binding.fd
      /\ \A s \in DOMAIN ssl_fd_map \ {binding.ssl} : ssl_fd_map'[s] = ssl_fd_map[s]
      /\ ~commits => ssl_fd_map' = ssl_fd_map
  BY <1>1, <1>2 DEF IInv, SSLTypeOK, ProbeType, IsMap, Put
<1>4. /\ IsMap(ssl_fd_pending_map', Thread, [ssl : SSL, fd : Fd])
      /\ DOMAIN ssl_fd_pending_map' = DOMAIN ssl_fd_pending_map \ (IF probed THEN {t} ELSE {})
      /\ \A u \in DOMAIN ssl_fd_pending_map' : ssl_fd_pending_map'[u] = ssl_fd_pending_map[u]
  BY <1>1 DEF IInv, SSLTypeOK, ProbeType, IsMap, Drop
<1>5. SSLTypeOK'
  BY <1>1, <1>3, <1>4, Zenon DEF IInv, SSLTypeOK, AppType, HookType, ProbeType, Call, NoCall, SSLs, Fds
<1>6. SetAlone' /\ SetIsUsed'
  BY <1>1, OpenSSLAssumption, Zenon DEF IInv, SSLTypeOK, AppType, SetAlone, SetIsUsed, NoCall
<1>7. ASSUME closed' = "open" PROVE AttachOrder' /\ Seen' /\ ActiveIsRead'
  BY <1>1, <1>3, <1>7 DEF IInv, SSLTypeOK, AppType, AttachOrder, Seen, ActiveIsRead, NoCall
<1>8. ASSUME closed' = "open", ~missed' PROVE PendingIsSetting' /\ BindingIsUsed'
  <2>1. PendingIsSetting'
    BY <1>1, <1>4, <1>8 DEF IInv, SSLTypeOK, AppType, ProbeType, IsMap, PendingIsSetting, Seen
  <2>2. BindingIsUsed'
    BY <1>1, <1>3, <1>8 DEF IInv, PendingIsSetting, BindingIsUsed, SetIsUsed
  <2> QED
    BY <2>1, <2>2
<1> QED
  BY <1>1, <1>5, <1>6, <1>7, <1>8 DEF IInv, EventOfItsSocket, ReadOfItsCall

\* SSL_free and SSL_set_bio are seen when there is a binding to invalidate.
LEMMA FreeKeeps ==
  ASSUME IInv, NEW t \in Thread, NEW ssl \in SSL, NEW probe \in {"free", "bio"},
         SSL_free_entry(t, ssl, probe)
  PROVE  IInv'
<1>1. /\ ssl \notin InUse
      /\ bio' = [bio EXCEPT ![ssl] = "none"]
      /\ ssl_fd_map' = IF probe \in hooks THEN Drop(ssl_fd_map, ssl) ELSE ssl_fd_map
      /\ UNCHANGED <<setting, reading, suspended, hooks, attacher, closed, missed, ssl_fd_pending_map,
                     ssl_read_active_map, events>>
  BY DEF SSL_free_entry, hookVars
<1>2. /\ IsMap(ssl_fd_map', SSL, Fd) /\ DOMAIN ssl_fd_map' \subseteq DOMAIN ssl_fd_map
      /\ probe \in hooks => ssl \notin DOMAIN ssl_fd_map'
      /\ \A s \in DOMAIN ssl_fd_map' : ssl_fd_map'[s] = ssl_fd_map[s]
  BY <1>1 DEF IInv, SSLTypeOK, ProbeType, IsMap, Drop
<1>3. SSLTypeOK'
  BY <1>1, <1>2 DEF IInv, SSLTypeOK, AppType, HookType, ProbeType, Fds
<1>4. SetAlone' /\ SetIsUsed'
  BY <1>1 DEF IInv, SSLTypeOK, AppType, SetAlone, SetIsUsed, InUse, Uses, NoCall
<1>5. ASSUME closed' = "open" PROVE AttachOrder' /\ Seen' /\ ActiveIsRead'
  BY <1>1, <1>2, <1>5 DEF IInv, AttachOrder, Seen, ActiveIsRead
<1>6. ASSUME closed' = "open", ~missed' PROVE PendingIsSetting' /\ BindingIsUsed'
  BY <1>1, <1>2, <1>6 DEF IInv, SSLTypeOK, AppType, ProbeType, IsMap, PendingIsSetting, BindingIsUsed,
                           Seen, AttachOrder, Tracking
<1> QED
  BY <1>1, <1>3, <1>4, <1>5, <1>6 DEF IInv, EventOfItsSocket, ReadOfItsCall
-----------------------------------------------------------------------------
(* The calls that read and write *)

\* An event about its own object, made while the probes can be relied on, names the
\* descriptor of that object.
LEMMA EventKeeps ==
  ASSUME IInv, NEW ssl \in SSL, NEW own \in SSL, NEW d \in {"read", "write"},
         closed = "open" => ssl = own, generate_SSL_data_event(ssl, own, d)
  PROVE  /\ events' \in Seq(EventType)
         /\ EventOfItsSocket' /\ ReadOfItsCall'
<1> DEFINE e == Event(ssl, own, d)
<1>1. e \in EventType
  BY DEF IInv, SSLTypeOK, AppType, ProbeType, IsMap, Event, EventType, Fds
<1>2. e.closing \/ e.conn_user_ptr = e.own
  BY Zenon DEF Event
<1>3. e.closing \/ e.missed \/ e.socket_fd \in {"none", e.fd}
  BY Zenon DEF IInv, SSLTypeOK, HookType, Event, BindingIsUsed
<1>4. events \in Seq(EventType)
  BY DEF IInv, SSLTypeOK, ProbeType
<1>5. events' = events \/ events' = Append(events, e)
  BY DEF generate_SSL_data_event
<1> HIDE DEF e
<1>6. CASE events' = events
  BY <1>4, <1>6 DEF IInv, EventOfItsSocket, ReadOfItsCall
<1>7. CASE events' = Append(events, e)
  <2>1. /\ events' \in Seq(EventType) /\ DOMAIN events' = DOMAIN events \cup {Len(events) + 1}
        /\ events'[Len(events) + 1] = e /\ \A i \in DOMAIN events : events'[i] = events[i]
    BY <1>1, <1>4, <1>7
  <2> QED
    BY <1>2, <1>3, <2>1 DEF IInv, EventOfItsSocket, ReadOfItsCall
<1> QED
  BY <1>5, <1>6, <1>7

LEMMA WriteKeeps ==
  ASSUME IInv, NEW t \in Thread, NEW ssl \in SSL, SSL_write_entry(t, ssl)
  PROVE  IInv'
<1>1. UNCHANGED <<appVars, hookVars, probeVars>> /\ generate_SSL_data_event(ssl, ssl, "write")
  BY DEF SSL_write_entry
<1>2. events' \in Seq(EventType) /\ EventOfItsSocket' /\ ReadOfItsCall'
  BY <1>1, EventKeeps
<1> QED
  BY <1>1, <1>2 DEF IInv, SSLTypeOK, AppType, HookType, ProbeType, SetAlone, SetIsUsed, AttachOrder, Seen,
       ActiveIsRead, PendingIsSetting, BindingIsUsed, appVars, hookVars, probeVars

\* A call whose return will be seen has its entry, or its thread has none.
LEMMA ReadEntryKeeps ==
  ASSUME IInv, NEW t \in Thread, NEW ssl \in SSL, SSL_read_entry(t, ssl)
  PROVE  IInv'
<1> DEFINE active == ssl_read_active_map
           call == [ssl |-> ssl, ret |-> "read_ret" \in hooks]
           enters == "read" \in hooks /\ (t \in DOMAIN active \/ Cardinality(DOMAIN active) < MaxActive)
<1>1. /\ setting[t] = NoCall /\ suspended[t] = NoRead
      /\ suspended' = [suspended EXCEPT ![t] = reading[t]]
      /\ reading' = [reading EXCEPT ![t] = call]
      /\ active' = IF enters THEN Put(active, t, ssl) ELSE active
      /\ UNCHANGED <<bio, setting, hooks, attacher, closed, missed, ssl_fd_map, ssl_fd_pending_map, events>>
  BY DEF SSL_read_entry, hookVars
<1>2. /\ IsMap(active', Thread, SSL)
      /\ "read" \in hooks /\ t \in DOMAIN active' => active'[t] = ssl
      /\ \A u \in Thread \ {t} : /\ u \in DOMAIN active' => u \in DOMAIN active
                                 /\ u \in DOMAIN active => active'[u] = active[u]
  <2>1. IsMap(active, Thread, SSL)
    BY DEF IInv, SSLTypeOK, ProbeType
  <2>2. CASE enters
    BY <1>1, <2>1, <2>2 DEF IsMap, Put
  <2>3. CASE ~enters
    BY <1>1, <2>1, <2>3
  <2> QED
    BY <2>2, <2>3
<1>3. SSLTypeOK'
  <2>1. call \in Read /\ call.ssl \in SSL
    BY DEF Read, SSLs
  <2> HIDE DEF call
  <2>2. AppType'
    BY <1>1, <2>1, Zenon DEF IInv, SSLTypeOK, AppType, NoRead
  <2> QED
    BY <1>1, <1>2, <2>2 DEF IInv, SSLTypeOK, HookType, ProbeType
<1>4. SetAlone' /\ SetIsUsed'
  BY <1>1 DEF IInv, SetAlone, SetIsUsed
<1>5. ASSUME closed' = "open" PROVE AttachOrder' /\ Seen' /\ ActiveIsRead'
  <2>1. \A u \in Thread \ {t} : reading'[u] = reading[u] /\ suspended'[u] = suspended[u]
    BY <1>1 DEF IInv, SSLTypeOK, AppType
  <2>2. /\ reading'[t].ssl = ssl /\ (reading'[t].ret <=> "read_ret" \in hooks)
        /\ suspended'[t].ret = reading[t].ret
    BY <1>1, Zenon DEF IInv, SSLTypeOK, AppType
  <2>3. AttachOrder' /\ Seen'
    BY <1>1, <1>5, <2>1, <2>2 DEF IInv, AttachOrder, Seen
  <2>4. ActiveIsRead'
    BY <1>1, <1>2, <1>5, <2>1, <2>2 DEF IInv, AttachOrder, ActiveIsRead
  <2> QED
    BY <2>3, <2>4
<1>6. ASSUME closed' = "open", ~missed' PROVE PendingIsSetting' /\ BindingIsUsed'
  BY <1>1, <1>6 DEF IInv, PendingIsSetting, BindingIsUsed
<1> QED
  BY <1>1, <1>3, <1>4, <1>5, <1>6 DEF IInv, EventOfItsSocket, ReadOfItsCall

\* The return deletes the entry, so that the call it was made from finds none.
LEMMA ReadRetKeeps ==
  ASSUME IInv, NEW t \in Thread, NEW n, SSL_read_ret(t, n)
  PROVE  IInv'
<1> DEFINE active == ssl_read_active_map
           probed == reading[t].ret /\ "read_ret" \in hooks /\ t \in DOMAIN active
<1>1. /\ reading[t] # NoRead
      /\ reading' = [reading EXCEPT ![t] = suspended[t]]
      /\ suspended' = [suspended EXCEPT ![t] = NoRead]
      /\ active' = IF probed THEN Drop(active, t) ELSE active
      /\ \/ events' = events
         \/ probed /\ generate_SSL_data_event(active[t], reading[t].ssl, "read")
      /\ UNCHANGED <<bio, setting, hooks, attacher, closed, missed, ssl_fd_map, ssl_fd_pending_map>>
  BY DEF SSL_read_ret, hookVars
<1>2. events' \in Seq(EventType) /\ EventOfItsSocket' /\ ReadOfItsCall'
  <2>1. CASE events' = events
    BY <2>1 DEF IInv, SSLTypeOK, ProbeType, EventOfItsSocket, ReadOfItsCall
  <2>2. CASE probed /\ generate_SSL_data_event(active[t], reading[t].ssl, "read")
    <3>1. active[t] \in SSL /\ reading[t].ssl \in SSL /\ (closed = "open" => active[t] = reading[t].ssl)
      BY <1>1, <2>2 DEF IInv, SSLTypeOK, AppType, ProbeType, IsMap, ActiveIsRead
    <3> QED
      BY <2>2, <3>1, EventKeeps
  <2> QED
    BY <1>1, <2>1, <2>2
<1>3. /\ IsMap(active', Thread, SSL)
      /\ DOMAIN active' = DOMAIN active \ (IF probed THEN {t} ELSE {})
      /\ \A u \in DOMAIN active' : active'[u] = active[u]
  BY <1>1 DEF IInv, SSLTypeOK, ProbeType, IsMap, Drop
<1>4. SSLTypeOK'
  BY <1>1, <1>2, <1>3, Zenon DEF IInv, SSLTypeOK, AppType, HookType, ProbeType, Read, SSLs, NoRead
<1>5. SetAlone' /\ SetIsUsed'
  BY <1>1 DEF IInv, SetAlone, SetIsUsed
<1>6. ASSUME closed' = "open" PROVE AttachOrder' /\ Seen' /\ ActiveIsRead'
  BY <1>1, <1>3, <1>6 DEF IInv, SSLTypeOK, AppType, AttachOrder, Seen, ActiveIsRead, NoRead
<1>7. ASSUME closed' = "open", ~missed' PROVE PendingIsSetting' /\ BindingIsUsed'
  BY <1>1, <1>7 DEF IInv, PendingIsSetting, BindingIsUsed
<1> QED
  BY <1>2, <1>4, <1>5, <1>6, <1>7 DEF IInv
-----------------------------------------------------------------------------
(* Losses *)

\* A thread that ends with something pending is remembered in missed.
LEMMA ExitKeeps ==
  ASSUME IInv, NEW t \in Thread, ThreadExit(t)
  PROVE  IInv'
<1>1. /\ setting' = [setting EXCEPT ![t] = NoCall]
      /\ reading' = [reading EXCEPT ![t] = NoRead] /\ suspended' = [suspended EXCEPT ![t] = NoRead]
      /\ missed' = (missed \/ t \in DOMAIN ssl_fd_pending_map)
      /\ UNCHANGED <<bio, hooks, attacher, closed, ssl_fd_map, ssl_fd_pending_map, ssl_read_active_map, events>>
  BY DEF ThreadExit, hookVars
<1>2. SSLTypeOK'
  BY <1>1, Zenon DEF IInv, SSLTypeOK, AppType, HookType, ProbeType, Call, Read, NoCall, NoRead, SSLs, Fds
<1>3. SetAlone' /\ SetIsUsed'
  BY <1>1, OpenSSLAssumption, Zenon DEF IInv, SSLTypeOK, AppType, SetAlone, SetIsUsed, NoCall
<1>4. ASSUME closed' = "open" PROVE AttachOrder' /\ Seen' /\ ActiveIsRead'
  BY <1>1, <1>4 DEF IInv, SSLTypeOK, AppType, AttachOrder, Seen, ActiveIsRead, NoCall, NoRead
<1>5. ASSUME closed' = "open", ~missed' PROVE PendingIsSetting' /\ BindingIsUsed'
  BY <1>1, <1>5, Zenon DEF IInv, SSLTypeOK, AppType, ProbeType, IsMap, PendingIsSetting, BindingIsUsed
<1> QED
  BY <1>1, <1>2, <1>3, <1>4, <1>5 DEF IInv, EventOfItsSocket, ReadOfItsCall

LEMMA EvictedKeeps == ASSUME IInv, Evicted PROVE IInv'
<1>1. /\ DOMAIN ssl_fd_map' \subseteq DOMAIN ssl_fd_map /\ IsMap(ssl_fd_map', SSL, Fd)
      /\ \A s \in DOMAIN ssl_fd_map' : ssl_fd_map'[s] = ssl_fd_map[s]
  BY Zenon DEF Evicted, IInv, SSLTypeOK, ProbeType, IsMap, Drop
<1>2. /\ DOMAIN ssl_fd_pending_map' \subseteq DOMAIN ssl_fd_pending_map
      /\ IsMap(ssl_fd_pending_map', Thread, [ssl : SSL, fd : Fd])
      /\ \A t \in DOMAIN ssl_fd_pending_map' : ssl_fd_pending_map'[t] = ssl_fd_pending_map[t]
  BY Zenon DEF Evicted, IInv, SSLTypeOK, ProbeType, IsMap, Drop
<1>3. UNCHANGED <<appVars, hookVars, missed, ssl_read_active_map, events>>
  BY DEF Evicted
<1> QED
  BY <1>1, <1>2, <1>3 DEF IInv, SSLTypeOK, AppType, HookType, ProbeType, SetAlone, SetIsUsed, AttachOrder,
       Seen, ActiveIsRead, PendingIsSetting, BindingIsUsed, EventOfItsSocket, ReadOfItsCall, appVars, hookVars

\* The events that are left were there before.
LEMMA ReaderKeeps == ASSUME IInv, ReadSSLRingBuf PROVE IInv'
<1>1. events \in Seq(EventType) /\ events # << >> /\ events' = Tail(events)
  BY DEF ReadSSLRingBuf, IInv, SSLTypeOK, ProbeType
<1>2. /\ events' \in Seq(EventType)
      /\ \A i \in DOMAIN events' : i + 1 \in DOMAIN events /\ events'[i] = events[i + 1]
  BY <1>1
<1>3. UNCHANGED <<appVars, hookVars, probeVars>>
  BY DEF ReadSSLRingBuf
<1>4. EventOfItsSocket' /\ ReadOfItsCall'
  BY <1>2 DEF IInv, EventOfItsSocket, ReadOfItsCall
<1> QED
  BY <1>2, <1>3, <1>4 DEF IInv, SSLTypeOK, AppType, HookType, ProbeType, SetAlone, SetIsUsed, AttachOrder,
       Seen, ActiveIsRead, PendingIsSetting, BindingIsUsed, appVars, hookVars, probeVars
-----------------------------------------------------------------------------
(* The invariant, and what follows *)

LEMMA InitOK == SSLInit => IInv
<1> SUFFICES ASSUME NEW hooked \in BOOLEAN, SSLInitWith(hooked) PROVE IInv
  BY DEF SSLInit
<1> USE DEF SSLInitWith
<1>1. AppType
  BY DEF AppType, Call, Read, NoCall, NoRead, SSLs, Fds
<1>2. HookType /\ ProbeType
  <2>1. HookType
    BY DEF HookType, Probes, Tracking
  <2>2. /\ IsMap(<< >>, SSL, Fd) /\ IsMap(<< >>, Thread, SSL)
        /\ IsMap(<< >>, Thread, [ssl : SSL, fd : Fd])
    BY DEF IsMap
  <2>3. << >> \in Seq(EventType)
    OBVIOUS
  <2> QED
    BY <2>1, <2>2, <2>3, Zenon DEF ProbeType
<1>3. SetAlone /\ SetIsUsed
  BY DEF SetAlone, SetIsUsed, NoCall
<1>4. AttachOrder /\ Seen /\ ActiveIsRead
  BY DEF AttachOrder, Seen, ActiveIsRead, NoCall, NoRead, Probes, Tracking
<1>5. PendingIsSetting /\ BindingIsUsed /\ EventOfItsSocket /\ ReadOfItsCall
  BY DEF PendingIsSetting, BindingIsUsed, EventOfItsSocket, ReadOfItsCall
<1> QED
  BY <1>1, <1>2, <1>3, <1>4, <1>5 DEF IInv, SSLTypeOK

LEMMA NextOK == IInv /\ [SSLNext]_sslVars => IInv'
<1> SUFFICES ASSUME IInv, [SSLNext]_sslVars PROVE IInv'
  OBVIOUS
<1>1. CASE Attacher \/ CloseStart \/ scanOnce \/ AttachFails
  BY <1>1, AttacherKeeps
<1>2. CASE Calls
  BY <1>2, EntryKeeps, FreeKeeps, WriteKeeps, ReadEntryKeeps DEF Calls, Fds
<1>3. CASE Returns
  BY <1>3, BioKeeps, RetKeeps, ReadRetKeeps DEF Returns
<1>4. CASE Evicted \/ \E t \in Thread : ThreadExit(t)
  BY <1>4, EvictedKeeps, ExitKeeps
<1>5. CASE ReadSSLRingBuf
  BY <1>5, ReaderKeeps
<1>6. CASE UNCHANGED sslVars
  BY <1>6 DEF sslVars, appVars, hookVars, probeVars, IInv, SSLTypeOK, AppType, HookType, ProbeType,
       SetAlone, SetIsUsed, AttachOrder, Seen, ActiveIsRead, PendingIsSetting, BindingIsUsed,
       EventOfItsSocket, ReadOfItsCall
<1> QED
  BY <1>1, <1>2, <1>3, <1>4, <1>5, <1>6 DEF SSLNext, Mishaps

LEMMA Invariant == SSLSpec => []IInv
BY InitOK, NextOK, PTL DEF SSLSpec

\* The descriptor of an event is the one of the SSL object of the call
\* (generate_SSL_data_event), while the probes are there and no return was missed.
THEOREM SocketOfEvent == SSLSpec => []EventOfItsSocket
<1>1. IInv => EventOfItsSocket
  BY DEF IInv
<1> QED
  BY <1>1, Invariant, PTL

\* What SSL_read returned is reported for the object it was called for, also when calls are
\* nested (ssl_read_active_map).
THEOREM CallOfEvent == SSLSpec => []ReadOfItsCall
<1>1. IInv => ReadOfItsCall
  BY DEF IInv
<1> QED
  BY <1>1, Invariant, PTL
=============================================================================
