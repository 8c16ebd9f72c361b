------------------------------ MODULE MCProxyFuzzer ------------------------------
(***************************************************************************)
(* Small instances of ProxyFuzzer: a handful of frames that reach every    *)
(* branch of the classification and of the mutation.                       *)
(***************************************************************************)
EXTENDS ProxyFuzzer

\* An Ethernet frame whose bytes all carry the mark m but for the fields that
\* the relay inspects.
FrameWith(n, m, type, proto, port, opcode) ==
  [len |-> n,
   at  |-> [i \in 0..n - 1 |->
     CASE i = ETH_TYPE_OFFSET       -> {3}
       [] i = ETH_TYPE_OFFSET + 1   -> type
       [] i = VER_IHL_OFFSET        -> {0, 2, 6}
       [] i = PROTOCOL_OFFSET       -> proto
       [] i = DEST_PORT_OFFSET      -> {1, 4}
       [] i = DEST_PORT_OFFSET + 1  -> port
       [] i = IB_OPCODE_OFFSET      -> opcode
       [] OTHER                     -> m]]

Udp  == {0, 4}
Roce == {0, 1, 2, 4, 5, 7}

\* RDMA packets: a SEND (0x04), an RDMA WRITE (0x0A) longer than the buffer, and
\* one cut off in the middle of its BTH.
Send      == FrameWith(64, {5}, {}, Udp, Roce, {2})
RdmaWrite == FrameWith(100, {6}, {}, Udp, Roce, {1, 3})
Truncated == FrameWith(47, {1}, {}, Udp, Roce, {2})
\* Other traffic: UDP to another port, TCP, ARP and a frame without a UDP header.
OtherUdp  == FrameWith(60, {2}, {}, Udp, {0}, {2})
Tcp       == FrameWith(60, {3}, {}, {1, 2}, Roce, {2})
Arp       == FrameWith(60, {4}, {1, 2}, Udp, Roce, {2})
Runt      == FrameWith(45, {0}, {}, Udp, Roce, {})

AllFrames     == {Send, Truncated, RdmaWrite, OtherUdp, Tcp, Arp, Runt}
MixedFrames   == {Send, OtherUdp, Runt}
OneFrame      == {Send}

\* Offsets of the mutation: the opcode, SMPT, a destination QP byte, and the
\* last byte of each extension header (15 % 16, 27 % 28).
OpcodeOffsets == {0}
TruncatedOffsets == {0, 2}  \* the second, a byte of the P_Key, is behind Truncated
BthOffsets    == {0, 1, 6, 15, 27}
\* XOR 0x0E turns SEND (0x04) into RDMA WRITE (0x0A), 0x17 into an atomic (0x13).
MCRandByte    == {{1, 2, 3}, {0, 1, 2, 4}, 0..7}
OneByte       == {{1, 2, 3}}

NoOptions == {<<>>}
MCNames   == {"", "br", "tap2", "tap3", "averylonginterfacename"}
Opt(o, n) == [opt |-> o, arg |-> n]
MCArgv    == {<<>>, <<Opt("c", "tap3")>>, <<Opt("s", "br"), Opt("c", "tap3")>>,
              <<Opt("c", "tap3"), Opt("s", "tap2")>>, <<Opt("s", "averylonginterfacename")>>,
              <<Opt("c", "tap3"), Opt("c", "tap2")>>, <<Opt("?", "")>>}
SwappedDevices == {<<Opt("c", "tap3"), Opt("s", "tap2")>>}

Frames(s, c) == [d \in Direction |-> IF d = "toServer" THEN s ELSE c]
TwoToServer == Frames(2, 0)
OneEach     == Frames(1, 1)
TwoOne      == Frames(2, 1)
================================================================================
