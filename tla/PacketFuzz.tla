------------------------------- MODULE PacketFuzz -------------------------------
(***************************************************************************)
(* The mutation of one RDMA packet (programs/proxy-fuzzer/proxy-f.c,       *)
(* fuzz_ib_bth, fuzz_atomic_eth and fuzz_rdma_eth).  An operator returns   *)
(* the set of buffers that the calls of rand() can lead to.                *)
(***************************************************************************)
EXTENDS FrameLayout

CONSTANTS
  Rand,       \* the values a call of rand() made for an offset may return
  RandByte    \* the values of random_byte

ASSUME RandAssumption ==
  /\ Rand \subseteq Nat /\ Rand # {}
  /\ RandByte \subseteq Byte /\ RandByte # {}

BTH_SIZE == IB_PSEUD_PAYLOAD_OFFSET - IB_BTH_OFFSET
ATOMIC_ETH_LEN == 28
RDMA_ETH_LEN   == 16

\* The end of the last byte a mutation can touch.
FUZZ_END == IB_PSEUD_PAYLOAD_OFFSET + ATOMIC_ETH_LEN

\* Mutant: the transport version and the destination QP are fuzzed like the rest.
FuzzMask_All(offset) == 0..7

\* The bits of random_byte that reach the field at an offset of the BTH: the
\* transport version keeps its four bits and the destination QP all of them.
FuzzMask(offset) ==
  IF offset \in IB_QP_BYTES THEN {}
  ELSE IF offset = IB_SMPT THEN 4..7 ELSE 0..7

\* buf[i] ^ (random_byte & mask)
XorAt(buf, i, mask) ==
  {[buf EXCEPT ![i] = Xor(buf[i], r \cap mask)] : r \in RandByte}

\* The switch of fuzz_ib_bth.
FuzzField(buf) ==
  UNION {XorAt(buf, IB_BTH_OFFSET + (n % BTH_SIZE), FuzzMask(n % BTH_SIZE)) : n \in Rand}

\* fuzz_atomic_eth and fuzz_rdma_eth: one byte of the extension header.
FuzzExtension(buf, len) ==
  UNION {XorAt(buf, IB_PSEUD_PAYLOAD_OFFSET + (n % len), 0..7) : n \in Rand}

\* The five low bits of the opcode, which select the operation.
Operation(opcode) == opcode \cap (0..4)
AtomicOperations  == {{0, 1, 4}, {2, 4}}                           \* 0x13 0x14
RdmaOperations    == {{0, 1, 2}, {1, 3}, {0, 1, 3}, {2, 3}}  \* 0x07 0x0A 0x0B 0x0C

\* Mutant: every extension header is taken to have the length of an atomic one.
FuzzAnnounced_OneLength(buf) ==
  IF Operation(buf[IB_OPCODE_OFFSET]) \in AtomicOperations \cup RdmaOperations
  THEN FuzzExtension(buf, ATOMIC_ETH_LEN) ELSE {buf}

\* The test of the opcode after the switch: it reads the mutated opcode.
FuzzAnnounced(buf) ==
  LET op == Operation(buf[IB_OPCODE_OFFSET])
  IN  IF op \in AtomicOperations THEN FuzzExtension(buf, ATOMIC_ETH_LEN)
      ELSE IF op \in RdmaOperations THEN FuzzExtension(buf, RDMA_ETH_LEN)
      ELSE {buf}

\* One round of the loop of fuzz_ib_bth.
FuzzRound(buf) == UNION {FuzzAnnounced(b) : b \in FuzzField(buf)}
================================================================================
