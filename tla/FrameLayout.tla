------------------------------ MODULE FrameLayout ------------------------------
(***************************************************************************)
(* Where the headers of a frame read from a TAP device lie                 *)
(* (programs/proxy-fuzzer/net_types.h).  The first four bytes are the      *)
(* packet-information prefix of the TUN driver, then come Ethernet, IPv4   *)
(* (without options), UDP and the InfiniBand base transport header (BTH).  *)
(* A byte is the set of its bits that are 1, so that XOR is the symmetric  *)
(* difference and a mask is an intersection.                               *)
(***************************************************************************)
EXTENDS Integers

Byte == SUBSET (0..7)
Xor(a, b) == (a \ b) \cup (b \ a)

TAP_FRAME_OFFSET == 4

\* struct eth_hdr
DEST_MAC_OFFSET == TAP_FRAME_OFFSET
SRC_MAC_OFFSET  == DEST_MAC_OFFSET + 6
ETH_TYPE_OFFSET == SRC_MAC_OFFSET + 6

\* struct ip_hdr
IP_HDR_OFFSET   == ETH_TYPE_OFFSET + 2
VER_IHL_OFFSET  == IP_HDR_OFFSET
DSCP_ECN_OFFSET == VER_IHL_OFFSET + 1
TOTAL_LEN_OFFSET == DSCP_ECN_OFFSET + 1
IDENTIFICATION_OFFSET == TOTAL_LEN_OFFSET + 2
FLAGS_FRAG_OFFSET_OFFSET == IDENTIFICATION_OFFSET + 2
TTL_OFFSET      == FLAGS_FRAG_OFFSET_OFFSET + 2
PROTOCOL_OFFSET == TTL_OFFSET + 1
HDR_CHECKSUM_OFFSET == PROTOCOL_OFFSET + 1
SRC_IP_ADDR_OFFSET  == HDR_CHECKSUM_OFFSET + 2
DEST_IP_ADDR_OFFSET == SRC_IP_ADDR_OFFSET + 4

\* struct udp_hdr
UDP_HDR_OFFSET   == DEST_IP_ADDR_OFFSET + 4
SRC_PORT_OFFSET  == UDP_HDR_OFFSET
DEST_PORT_OFFSET == SRC_PORT_OFFSET + 2
UDP_LEN_OFFSET   == DEST_PORT_OFFSET + 2
UDP_CHECKSUM_OFFSET == UDP_LEN_OFFSET + 2

\* struct ib_bth
IB_BTH_OFFSET         == UDP_CHECKSUM_OFFSET + 2
IB_OPCODE_OFFSET      == IB_BTH_OFFSET
IB_SMPT_OFFSET        == IB_OPCODE_OFFSET + 1
IB_PKEY_OFFSET_B1     == IB_SMPT_OFFSET + 1
IB_PKEY_OFFSET_B2     == IB_PKEY_OFFSET_B1 + 1
IB_FR_BR_RESERVED_OFFSET == IB_PKEY_OFFSET_B2 + 1
IB_DEST_QP_B1_OFFSET  == IB_FR_BR_RESERVED_OFFSET + 1
IB_DEST_QP_B2_OFFSET  == IB_DEST_QP_B1_OFFSET + 1
IB_DEST_QP_B3_OFFSET  == IB_DEST_QP_B2_OFFSET + 1
IB_AR_OFFSET          == IB_DEST_QP_B3_OFFSET + 1
IB_PSN_B1_OFFSET      == IB_AR_OFFSET + 1
IB_PSN_B2_OFFSET      == IB_PSN_B1_OFFSET + 1
IB_PSN_B3_OFFSET      == IB_PSN_B2_OFFSET + 1
IB_PSEUD_PAYLOAD_OFFSET == IB_PSN_B3_OFFSET + 1

\* enum bth_header_offsets: the same fields counted from the start of the BTH
IB_OPCODE   == 0
IB_SMPT     == 1
IB_QP_BYTES == 5..7
IB_PSN_B3   == 11

\* A frame on the wire: its length and its bytes.
IsFrame(f) == f.len \in Nat /\ f.at \in [0..f.len - 1 -> Byte]

(***************************************************************************)
(* The tests of check_buffer_type on the bytes b of a frame.               *)
(***************************************************************************)
IsIPv4(b) == b[ETH_TYPE_OFFSET] = {3} /\ b[ETH_TYPE_OFFSET + 1] = {}
IsOptionlessUdp(b) ==
  b[PROTOCOL_OFFSET] = {0, 4} /\ b[VER_IHL_OFFSET] \cap (0..3) = {0, 2}
ToRocePort(b) ==
  b[DEST_PORT_OFFSET] = {1, 4} /\ b[DEST_PORT_OFFSET + 1] = {0, 1, 2, 4, 5, 7}

\* check_buffer_type(buffer, buffer_size)
CheckBufferType(b, size) ==
  IF size < IB_BTH_OFFSET \/ ~IsIPv4(b) THEN "OTHER"
  ELSE IF ~IsOptionlessUdp(b) THEN "IP_PKT"
  ELSE IF ToRocePort(b) THEN "IB_TRAFFIC" ELSE "UDP_SEG"
================================================================================
