------------------------------ MODULE TlsTracker ------------------------------
(***************************************************************************)
(* What the TLS tracker reads from a TCP segment (bpf/tls_tracker.h).      *)
(*                                                                         *)
(* A segment is the record [content, record, handshake, version, cipher,   *)
(* exts, loads].  An extension is [type, vals]: the versions of a          *)
(* supported_versions extension, the group of a key_share.  A packet may   *)
(* be cut off anywhere: loads is the number of items it still holds, of    *)
(* the items in the order in which the tracker loads them.                 *)
(***************************************************************************)
EXTENDS Integers, Sequences, SequencesExt

CONSTANTS MaxExts,       \* extensions that are looked at, 30
          MaxVersions    \* versions of a supported_versions extension that are looked at, 5

TLS12 == 771    \* 0x0303

IS_KNOWN_VERSION(v) == v \in 768..771
IS_KNOWN_VERSION_EXT(v) == v \in 768..772

NoTls == [type |-> "none", hello_version |-> 0, cipher_suite |-> 0, key_share |-> 0]

FirstOf(s, n) == SubSeq(s, 1, IF Len(s) < n THEN Len(s) ELSE n)

\* Known versions are favoured over unknown ones, then the higher one.
Favour(acc, v) ==
  IF (~acc.known /\ IS_KNOWN_VERSION_EXT(v)) \/ (acc.known = IS_KNOWN_VERSION_EXT(v) /\ v > acc.version)
    THEN [version |-> v, known |-> IS_KNOWN_VERSION_EXT(v)] ELSE acc

\* The walk over the extensions: left is the number of items that can still be loaded, read
\* the number of extensions it was looking for, end how the walk stopped.
Walk(left) == [left |-> left, version |-> 0, key_share |-> 0, read |-> 0, end |-> "walking"]

\* Past an extension that is of no interest.
Skip(w, e) == [w EXCEPT !.left = IF @ > 1 + Len(e.vals) THEN @ - 1 - Len(e.vals) ELSE 0]

ClientExt(w, e) ==
  IF w.end # "walking" THEN w
  ELSE IF w.left = 0 THEN [w EXCEPT !.end = "cut"]
  ELSE IF e.type # "versions" THEN Skip(w, e)
  ELSE LET wanted == FirstOf(e.vals, MaxVersions)
           held   == FirstOf(wanted, w.left - 1)
       IN  [w EXCEPT !.version = FoldLeft(Favour, [version |-> 0, known |-> FALSE], held).version,
                     !.end = IF held = wanted THEN "read" ELSE "cut"]

\* Mutant: the walk ends at the supported versions.
ServerExt_Versions(w, e) ==
  IF w.end # "walking" THEN w
  ELSE IF w.left = 0 THEN [w EXCEPT !.end = "cut"]
  ELSE IF e.type # "versions" THEN Skip(w, e)
  ELSE [w EXCEPT !.version = e.vals[1], !.end = "read"]

ServerExt(w, e) ==
  IF w.end # "walking" THEN w
  ELSE IF w.left = 0 THEN [w EXCEPT !.end = "cut"]
  ELSE IF e.type \notin {"versions", "key_share"} THEN Skip(w, e)
  ELSE IF w.left = 1 THEN [w EXCEPT !.end = "cut"]
  ELSE LET x == Skip(IF e.type = "versions" THEN [w EXCEPT !.version = e.vals[1], !.read = @ + 1]
                                            ELSE [w EXCEPT !.key_share = e.vals[1], !.read = @ + 1], e)
       IN  [x EXCEPT !.end = IF x.read = 2 THEN "read" ELSE @]

\* The first items are the record, the handshake and the version of the hello.
tls_read_client_hello(s) ==
  LET hello == [NoTls EXCEPT !.type = "client"]
      w == FoldLeft(ClientExt, Walk(s.loads - 7), FirstOf(s.exts, MaxExts))
  IN  IF s.loads < 3 \/ ~IS_KNOWN_VERSION(s.version) THEN NoTls
      ELSE IF s.version # TLS12 THEN [hello EXCEPT !.hello_version = s.version]
      ELSE IF s.loads < 7 THEN hello      \* session, ciphers, compression, length
      ELSE [hello EXCEPT !.hello_version = IF w.end = "walking" THEN s.version ELSE w.version]

tls_read_server_hello(s) ==
  LET hello == [NoTls EXCEPT !.type = "server"]
      suite == [hello EXCEPT !.cipher_suite = s.cipher]
      w == FoldLeft(ServerExt, Walk(s.loads - 6), FirstOf(s.exts, MaxExts))
  IN  IF s.loads < 3 \/ ~IS_KNOWN_VERSION(s.version) THEN NoTls
      ELSE IF s.version # TLS12 THEN [hello EXCEPT !.hello_version = s.version]
      ELSE IF s.loads < 5 THEN hello      \* session, cipher suite
      ELSE IF s.loads < 6 THEN suite      \* length
      ELSE [suite EXCEPT !.key_share = w.key_share,
                         !.hello_version = IF w.end = "walking" THEN s.version ELSE w.version]

track_tls_tcp(doff, s) ==
  IF doff = 0 \/ s.loads < 1 \/ ~IS_KNOWN_VERSION(s.record) THEN NoTls
  ELSE IF s.content # "handshake"
    THEN [NoTls EXCEPT !.type = IF s.content \in {"change_cipher", "alert", "app_data"}
                                  THEN s.content ELSE "none"]
  ELSE IF s.loads < 2 THEN NoTls
  ELSE CASE s.handshake = "client_hello" -> tls_read_client_hello(s)
         [] s.handshake = "server_hello" -> tls_read_server_hello(s)
         [] s.handshake = "other" -> [NoTls EXCEPT !.type = "other_handshake"]
         [] OTHER -> NoTls     \* not TLS, or an encrypted FINISHED

\* A segment whose flags are just those of an ACK (set_flags) is looked at.
track_tls(id, doff, segment) ==
  IF id.proto = "TCP" /\ id.flags = "ACK" THEN track_tls_tcp(doff, segment) ELSE NoTls
=============================================================================
