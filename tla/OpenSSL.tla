------------------------------- MODULE OpenSSL -------------------------------
(***************************************************************************)
(* The uprobes on OpenSSL that capture TLS plaintext                       *)
(* (bpf/openssl_tracker.h, bpf/tls_plaintext.h), how they are attached to  *)
(* a library and closed (pkg/tracer/plaintext/openssl.go), and one process *)
(* whose threads call the library meanwhile.                               *)
(*                                                                         *)
(* The probes keep the descriptor of each SSL object in ssl_fd_map, so     *)
(* that an event says which socket its bytes belong to.  A return probe    *)
(* runs for the calls that were entered while it was attached.  As OpenSSL *)
(* demands, an SSL object is used by one thread at a time.  "bio" stands   *)
(* for the probes on SSL_set_bio, SSL_set0_rbio and SSL_set0_wbio.         *)
(***************************************************************************)
EXTENDS Naturals, Sequences, FiniteSets

CONSTANTS Thread, SSL, Fd,
          MaxActive,    \* entries of ssl_read_active_map
          MaxRing       \* events in ssl_data_event_map

ASSUME OpenSSLAssumption == "none" \notin Fd \cup SSL

VARIABLES
  bio,        \* the descriptor that each SSL object reads and writes, or "none"
  setting,    \* the SSL_set_fd that each thread is in
  reading,    \* the SSL_read that each thread is in, ...
  suspended,  \* ... and the one it was called from (TLS over TLS)
  hooks,      \* the probes that are attached
  attacher,   \* attachToLibrary: the next probe, and the links it would undo
  closed,     \* OpenSSLAttacher.Close: "open", "closing" (under its lock) or "closed"
  missed,     \* history: the return of an SSL_set_fd was not seen
  ssl_fd_map, ssl_fd_pending_map, ssl_read_active_map,
  events      \* ssl_data_event_map

appVars   == <<bio, setting, reading, suspended>>
hookVars  == <<hooks, attacher, closed>>
probeVars == <<missed, ssl_fd_map, ssl_fd_pending_map, ssl_read_active_map>>
sslVars   == <<appVars, hookVars, probeVars, events>>

NoCall == [ssl |-> "none", fd |-> "none", step |-> "none", ret |-> FALSE]
NoRead == [ssl |-> "none", ret |-> FALSE]

Tracking == {"free", "bio", "set_fd", "set_fd_ret"}

Probes == Tracking \cup {"write", "read", "read_ret"}

\* No call was made yet; the library was found before (hooked) or is found now.
SSLInitWith(hooked) ==
  /\ bio = [s \in SSL |-> "none"]
  /\ setting = [t \in Thread |-> NoCall]
  /\ reading = [t \in Thread |-> NoRead] /\ suspended = [t \in Thread |-> NoRead]
  /\ hooks = IF hooked THEN Probes ELSE {}
  /\ attacher = [step |-> IF hooked THEN "done" ELSE "free", links |-> {}]
  /\ closed = "open" /\ missed = FALSE
  /\ ssl_fd_map = << >> /\ ssl_fd_pending_map = << >> /\ ssl_read_active_map = << >>
  /\ events = << >>

Drop(f, k) == [x \in DOMAIN f \ {k} |-> f[x]]
Put(f, k, v) == [x \in DOMAIN f \cup {k} |-> IF x = k THEN v ELSE f[x]]
-----------------------------------------------------------------------------
(* OpenSSLAttacher *)

\* Mutant of Order: the calls that bind a descriptor are hooked before those that unbind it.
Order_BindFirst == <<"free", "set_fd", "set_fd_ret", "bio", "write", "read", "read_ret", "done">>

\* The order in which the probes are attached.
Order == <<"free", "bio", "set_fd", "set_fd_ret", "write", "read", "read_ret", "done">>

Place(probe) == CHOOSE i \in DOMAIN Order : Order[i] = probe

After(step) == Order[Place(step) + 1]

\* Links are closed in the order in which the probes were attached.
First(h, links) == \A g \in links : Place(h) <= Place(g)

\* One probe more, under the lock.
attachToLibrary ==
  /\ attacher.step \in Probes /\ closed # "closing"
  /\ hooks' = hooks \cup {attacher.step}
  /\ attacher' = [step |-> After(attacher.step), links |-> attacher.links \cup ({attacher.step} \ hooks)]
  /\ UNCHANGED <<appVars, closed, probeVars, events>>

\* A probe for the socket cannot be attached: the links of attachSocketTracking are closed.
\* Without SSL_read there is no use for its return, and either may be missing.
AttachFails ==
  /\ attacher.step \in Probes /\ closed # "closing"
  /\ attacher' = CASE attacher.step \in Tracking -> [attacher EXCEPT !.step = "undo"]
                   [] attacher.step = "write" -> [attacher EXCEPT !.step = "read"]
                   [] OTHER -> [attacher EXCEPT !.step = "done"]
  /\ UNCHANGED <<appVars, hooks, closed, probeVars, events>>

AttachUndo ==
  /\ attacher.step = "undo"
  /\ \/ \E h \in attacher.links : /\ First(h, attacher.links)
                                  /\ hooks' = hooks \ {h}
                                  /\ attacher' = [attacher EXCEPT !.links = @ \ {h}]
     \/ /\ attacher.links = {}
        /\ attacher' = [attacher EXCEPT !.step = "write"]
        /\ UNCHANGED hooks
  /\ UNCHANGED <<appVars, closed, probeVars, events>>

\* A tick starts a scan, also when it races the stop.  The library is done with once SSL_write
\* or SSL_read is hooked, until Close forgets that.
scanOnce ==
  /\ attacher.step = "done" /\ (closed # "open" \/ hooks \cap {"write", "read_ret"} = {})
  /\ attacher' = [step |-> "free", links |-> {}]
  /\ UNCHANGED <<appVars, hooks, closed, probeVars, events>>

ScanStops ==
  /\ attacher.step = "done" /\ closed # "open"
  /\ attacher' = [attacher EXCEPT !.step = "returned"]
  /\ UNCHANGED <<appVars, hooks, closed, probeVars, events>>

\* Close gets the lock: before or after a library is attached.
CloseStart ==
  /\ closed = "open" /\ attacher.step \in {"free", "done"}
  /\ closed' = "closing"
  /\ UNCHANGED <<appVars, hooks, attacher, probeVars, events>>

CloseLinks ==
  /\ closed = "closing"
  /\ \/ \E h \in hooks : First(h, hooks) /\ hooks' = hooks \ {h} /\ UNCHANGED closed
     \/ hooks = {} /\ closed' = "closed" /\ UNCHANGED hooks
  /\ UNCHANGED <<appVars, attacher, probeVars, events>>

Attacher == attachToLibrary \/ AttachUndo \/ ScanStops \/ CloseLinks
-----------------------------------------------------------------------------
(* Events *)

\* generate_SSL_data_event for the object that the probe takes the call for: the descriptor
\* says which socket the bytes are of (ssl_socket_tuple reads its addresses at once).  The
\* history fields say whose call it was and what it used, and whether all probes were there.
Event(ssl, own, direction) ==
  [conn_user_ptr |-> ssl, direction |-> direction,
   socket_fd |-> IF ssl \in DOMAIN ssl_fd_map THEN ssl_fd_map[ssl] ELSE "none",
   own |-> own, fd |-> bio[own], closing |-> closed # "open", missed |-> missed]

\* Without room in the ring buffer the event is lost.
generate_SSL_data_event(ssl, own, direction) ==
  events' = IF Len(events) < MaxRing THEN Append(events, Event(ssl, own, direction)) ELSE events
-----------------------------------------------------------------------------
(* The process: its descriptors and its calls, each with the probes that it runs into. *)

Uses(t) == {setting[t].ssl, reading[t].ssl, suspended[t].ssl}

InUse == UNION {Uses(t) : t \in Thread}

\* A thread that may call SSL_set_fd, SSL_set_bio, SSL_free or SSL_write.
Free(t) == setting[t] = NoCall /\ reading[t] = NoRead

\* A thread enters SSL_set_fd; fd "none" is a negative one.
SSL_set_fd_entry(t, ssl, fd) ==
  LET probed == "set_fd" \in hooks /\ fd # "none"
      ret == "set_fd_ret" \in hooks
  IN  /\ Free(t) /\ ssl \notin InUse
      /\ setting' = [setting EXCEPT ![t] = [ssl |-> ssl, fd |-> fd, step |-> "entered", ret |-> ret]]
      /\ ssl_fd_map' = IF probed THEN Drop(ssl_fd_map, ssl) ELSE ssl_fd_map
      /\ ssl_fd_pending_map' = IF probed THEN Put(ssl_fd_pending_map, t, [ssl |-> ssl, fd |-> fd])
                                         ELSE ssl_fd_pending_map
      /\ missed' = (missed \/ (probed /\ ~ret))
      /\ UNCHANGED <<bio, reading, suspended, hookVars, ssl_read_active_map, events>>

\* SSL_set_fd calls SSL_set_bio, unless it fails.
SSL_set_fd_bio(t) ==
  LET ssl == setting[t].ssl
  IN  /\ setting[t].step = "entered"
      /\ setting' = [setting EXCEPT ![t].step = "set"]
      /\ bio' = [bio EXCEPT ![ssl] = setting[t].fd]
      /\ ssl_fd_map' = IF "bio" \in hooks THEN Drop(ssl_fd_map, ssl) ELSE ssl_fd_map
      /\ UNCHANGED <<reading, suspended, hookVars, missed, ssl_fd_pending_map,
                     ssl_read_active_map, events>>

\* The binding is committed when SSL_set_fd returns 1.
SSL_set_fd_ret(t) ==
  LET probed == /\ setting[t].ret /\ "set_fd_ret" \in hooks
                /\ t \in DOMAIN ssl_fd_pending_map
      binding == ssl_fd_pending_map[t]
  IN  /\ setting[t] # NoCall
      /\ setting' = [setting EXCEPT ![t] = NoCall]
      /\ ssl_fd_pending_map' = IF probed THEN Drop(ssl_fd_pending_map, t) ELSE ssl_fd_pending_map
      /\ ssl_fd_map' = IF probed /\ setting[t].step = "set"
                         THEN Put(ssl_fd_map, binding.ssl, binding.fd) ELSE ssl_fd_map
      /\ UNCHANGED <<bio, reading, suspended, hookVars, missed, ssl_read_active_map, events>>

\* SSL_free, or another BIO (probe is "free" or "bio").
SSL_free_entry(t, ssl, probe) ==
  /\ Free(t) /\ ssl \notin InUse
  /\ bio' = [bio EXCEPT ![ssl] = "none"]
  /\ ssl_fd_map' = IF probe \in hooks THEN Drop(ssl_fd_map, ssl) ELSE ssl_fd_map
  /\ UNCHANGED <<setting, reading, suspended, hookVars, missed, ssl_fd_pending_map,
                 ssl_read_active_map, events>>

\* SSL_write of at least one byte.
SSL_write_entry(t, ssl) ==
  /\ Free(t) /\ ssl \notin InUse
  /\ "write" \in hooks
  /\ generate_SSL_data_event(ssl, ssl, "write")
  /\ UNCHANGED <<appVars, hookVars, probeVars>>

\* An entry for a new thread finds no room in a full map.
SSL_read_entry(t, ssl) ==
  LET active == ssl_read_active_map
      room == t \in DOMAIN active \/ Cardinality(DOMAIN active) < MaxActive
  IN  /\ setting[t] = NoCall /\ suspended[t] = NoRead /\ ssl \notin InUse
      /\ suspended' = [suspended EXCEPT ![t] = reading[t]]
      /\ reading' = [reading EXCEPT ![t] = [ssl |-> ssl, ret |-> "read_ret" \in hooks]]
      /\ ssl_read_active_map' = IF "read" \in hooks /\ room THEN Put(active, t, ssl) ELSE active
      /\ UNCHANGED <<bio, setting, hookVars, missed, ssl_fd_map, ssl_fd_pending_map, events>>

\* Mutant of SSL_read_ret: the entry of the call is not deleted.
SSL_read_ret_Keeps(t, n) ==
  /\ reading[t] # NoRead
  /\ reading' = [reading EXCEPT ![t] = suspended[t]]
  /\ suspended' = [suspended EXCEPT ![t] = NoRead]
  /\ IF reading[t].ret /\ "read_ret" \in hooks /\ t \in DOMAIN ssl_read_active_map /\ n > 0
       THEN generate_SSL_data_event(ssl_read_active_map[t], reading[t].ssl, "read")
       ELSE UNCHANGED events
  /\ UNCHANGED <<bio, setting, hookVars, probeVars>>

\* SSL_read returns n.
SSL_read_ret(t, n) ==
  LET active == ssl_read_active_map
      probed == reading[t].ret /\ "read_ret" \in hooks /\ t \in DOMAIN active
  IN  /\ reading[t] # NoRead
      /\ reading' = [reading EXCEPT ![t] = suspended[t]]
      /\ suspended' = [suspended EXCEPT ![t] = NoRead]
      /\ ssl_read_active_map' = IF probed THEN Drop(active, t) ELSE active
      /\ IF probed /\ n > 0 THEN generate_SSL_data_event(active[t], reading[t].ssl, "read")
                            ELSE UNCHANGED events
      /\ UNCHANGED <<bio, setting, hookVars, missed, ssl_fd_map, ssl_fd_pending_map>>

\* A thread ends inside its call, and its id is used again.
ThreadExit(t) ==
  /\ ~Free(t)
  /\ setting' = [setting EXCEPT ![t] = NoCall]
  /\ reading' = [reading EXCEPT ![t] = NoRead]
  /\ suspended' = [suspended EXCEPT ![t] = NoRead]
  /\ missed' = (missed \/ t \in DOMAIN ssl_fd_pending_map)
  /\ UNCHANGED <<bio, hookVars, ssl_fd_map, ssl_fd_pending_map, ssl_read_active_map, events>>

\* The maps of descriptors are LRU maps: an entry may have to make room for another.
Evicted ==
  /\ \/ \E s \in DOMAIN ssl_fd_map : ssl_fd_map' = Drop(ssl_fd_map, s) /\ UNCHANGED ssl_fd_pending_map
     \/ \E t \in DOMAIN ssl_fd_pending_map :
          ssl_fd_pending_map' = Drop(ssl_fd_pending_map, t) /\ UNCHANGED ssl_fd_map
  /\ UNCHANGED <<appVars, hookVars, missed, ssl_read_active_map, events>>

\* A thread enters a call.
Calls ==
  \E t \in Thread, ssl \in SSL :
    \/ \E fd \in Fd \cup {"none"} : SSL_set_fd_entry(t, ssl, fd)
    \/ \E probe \in {"free", "bio"} : SSL_free_entry(t, ssl, probe)
    \/ SSL_write_entry(t, ssl) \/ SSL_read_entry(t, ssl)

\* A thread goes on in its call.
Returns ==
  \E t \in Thread :
    \/ SSL_set_fd_bio(t) \/ SSL_set_fd_ret(t)
    \/ \E n \in 0..1 : SSL_read_ret(t, n)

\* What may happen at any time: another scan, failures and losses.
Mishaps == scanOnce \/ AttachFails \/ Evicted \/ \E t \in Thread : ThreadExit(t)

\* The agent takes the oldest event.
ReadSSLRingBuf ==
  /\ events # << >>
  /\ events' = Tail(events)
  /\ UNCHANGED <<appVars, hookVars, probeVars>>

SSLInit == \E hooked \in BOOLEAN : SSLInitWith(hooked)

SSLNext == Attacher \/ CloseStart \/ Calls \/ Returns \/ Mishaps \/ ReadSSLRingBuf

SSLSpec == SSLInit /\ [][SSLNext]_sslVars
-----------------------------------------------------------------------------
(* Properties *)

\* An event says which socket its bytes belong to, or nothing: the descriptor in it is the
\* one that the SSL object of the call uses at that moment, whatever the order in which
\* objects are bound, rebound, freed and used again and probes are attached.  It can be
\* wrong only when probes are being closed, or after the return of an SSL_set_fd was not
\* seen: that call was entered between the attachments of its two probes, or its thread
\* ended in it.
EventOfItsSocket ==
  \A i \in DOMAIN events :
    \/ events[i].closing \/ events[i].missed
    \/ events[i].socket_fd \in {"none", events[i].fd}

\* The bytes that SSL_read returned are reported for the object they were read from, also
\* in nested calls, in threads whose id was used before, and when the map of active calls
\* is full; unless probes are being closed.
ReadOfItsCall ==
  \A i \in DOMAIN events : events[i].closing \/ events[i].conn_user_ptr = events[i].own
=============================================================================
