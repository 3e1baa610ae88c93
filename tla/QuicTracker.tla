----------------------------- MODULE QuicTracker -----------------------------
(***************************************************************************)
(* What the QUIC tracker reads from a UDP packet (bpf/quic_tracker.h).     *)
(* The metrics it keeps of a flow are in SecondaryMaps.                    *)
(*                                                                         *)
(* The payload of a packet is the record [fixed, long, dcid_len, scid_len, *)
(* held]: two bits of its first byte, the two length bytes, and the number *)
(* of its bytes that the packet holds (the UDP length may promise more).   *)
(***************************************************************************)
EXTENDS Integers

CONSTANTS QUIC_PORT,              \* 443
          QUIC_MIN_PACKET_SIZE,   \* 21
          QUIC_MAX_CID_LEN,       \* 20
          UdpHeader               \* bytes of the UDP header, 8

QUIC_LH_MIN_LEN == 7

\* bpf_skb_load_bytes of the first n bytes of the payload
Loads(q, n) == n <= q.held

\* Each byte is loaded only after the length was found to cover it.
parse_quic_header(q, payload_len) ==
  IF ~Loads(q, 1) \/ ~q.fixed THEN "not_quic"
  ELSE IF ~q.long THEN "short"
  ELSE IF /\ payload_len >= QUIC_LH_MIN_LEN
          /\ Loads(q, 6)    \* version and length of the destination id
          /\ q.dcid_len <= QUIC_MAX_CID_LEN
          /\ payload_len >= 6 + q.dcid_len + 1
          /\ Loads(q, 6 + q.dcid_len + 1)
          /\ q.scid_len <= QUIC_MAX_CID_LEN
          /\ payload_len >= QUIC_LH_MIN_LEN + q.dcid_len + q.scid_len
    THEN "long" ELSE "not_quic"

\* The kind of header that is counted for the flow of a packet; mode is enable_quic_tracking.
track_quic_packet(mode, id, udp_len, q) ==
  IF /\ mode # "disabled" /\ id.proto = "UDP"
     /\ mode = "enabled" => QUIC_PORT \in {id.sport, id.dport}
     /\ id.l4_hdr
     /\ udp_len >= UdpHeader + QUIC_MIN_PACKET_SIZE
    THEN parse_quic_header(q, udp_len - UdpHeader) ELSE "not_quic"
=============================================================================
