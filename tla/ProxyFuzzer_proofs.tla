--------------------------- MODULE ProxyFuzzer_proofs ---------------------------
(***************************************************************************)
(* Theorems about ProxyFuzzer for every frame set, buffer size, number of  *)
(* rounds, command line and bound, with machine-checked proofs.            *)
(***************************************************************************)
EXTENDS ProxyFuzzer, SequenceTheorems, TLAPS

--------------------------------------------------------------------------------
(***************************************************************************)
(* Lemmas about the layout and the mutation.                               *)
(***************************************************************************)

\* The offsets that the proofs use, as the chain of definitions gives them.
LEMMA Offsets ==
  /\ IB_BTH_OFFSET = 46 /\ IB_OPCODE_OFFSET = 46 /\ IB_PSEUD_PAYLOAD_OFFSET = 58
  /\ BTH_SIZE = 12 /\ FUZZ_END = 86
  /\ ETH_TYPE_OFFSET = 16 /\ VER_IHL_OFFSET = 18
  /\ PROTOCOL_OFFSET = 27 /\ DEST_PORT_OFFSET = 40
BY DEF BTH_SIZE, FUZZ_END, ATOMIC_ETH_LEN, IB_PSEUD_PAYLOAD_OFFSET, IB_PSN_B3_OFFSET,
  IB_PSN_B2_OFFSET, IB_PSN_B1_OFFSET, IB_AR_OFFSET, IB_DEST_QP_B3_OFFSET,
  IB_DEST_QP_B2_OFFSET, IB_DEST_QP_B1_OFFSET, IB_FR_BR_RESERVED_OFFSET, IB_PKEY_OFFSET_B2,
  IB_PKEY_OFFSET_B1, IB_SMPT_OFFSET, IB_OPCODE_OFFSET, IB_BTH_OFFSET, UDP_CHECKSUM_OFFSET,
  UDP_LEN_OFFSET, DEST_PORT_OFFSET, SRC_PORT_OFFSET, UDP_HDR_OFFSET, DEST_IP_ADDR_OFFSET,
  SRC_IP_ADDR_OFFSET, HDR_CHECKSUM_OFFSET, PROTOCOL_OFFSET, TTL_OFFSET,
  FLAGS_FRAG_OFFSET_OFFSET, IDENTIFICATION_OFFSET, TOTAL_LEN_OFFSET, DSCP_ECN_OFFSET,
  VER_IHL_OFFSET, IP_HDR_OFFSET, ETH_TYPE_OFFSET, SRC_MAC_OFFSET, DEST_MAC_OFFSET,
  TAP_FRAME_OFFSET

\* The fuzzable bits of the tunnel in numbers.
LEMMA FuzzableBits ==
  \A i \in Int : T!Fuzzable(i) = IF i \notin 46..85 \/ i \in 51..53 THEN {}
                                 ELSE IF i = 47 THEN 4..7 ELSE 0..7
<1>1. /\ T!IB_BTH_OFFSET = 46 /\ T!IB_SMPT_OFFSET = 47
      /\ T!IB_DEST_QP_B1_OFFSET = 51 /\ T!IB_DEST_QP_B3_OFFSET = 53
  BY DEF T!IB_DEST_QP_B3_OFFSET, T!IB_DEST_QP_B2_OFFSET, T!IB_DEST_QP_B1_OFFSET,
    T!IB_FR_BR_RESERVED_OFFSET, T!IB_PKEY_OFFSET_B2, T!IB_PKEY_OFFSET_B1, T!IB_SMPT_OFFSET,
    T!IB_OPCODE_OFFSET, T!IB_BTH_OFFSET, T!UDP_CHECKSUM_OFFSET, T!UDP_LEN_OFFSET,
    T!DEST_PORT_OFFSET, T!SRC_PORT_OFFSET, T!UDP_HDR_OFFSET, T!DEST_IP_ADDR_OFFSET,
    T!SRC_IP_ADDR_OFFSET, T!HDR_CHECKSUM_OFFSET, T!PROTOCOL_OFFSET, T!TTL_OFFSET,
    T!FLAGS_FRAG_OFFSET_OFFSET, T!IDENTIFICATION_OFFSET, T!TOTAL_LEN_OFFSET,
    T!DSCP_ECN_OFFSET, T!VER_IHL_OFFSET, T!IP_HDR_OFFSET, T!ETH_TYPE_OFFSET,
    T!SRC_MAC_OFFSET, T!DEST_MAC_OFFSET, T!TAP_FRAME_OFFSET
<1> QED BY <1>1, Offsets DEF T!Fuzzable

\* XOR-ing a byte changes that byte only, and only inside the mask.
LEMMA XorAtBits ==
  ASSUME NEW buf \in Buffer, NEW i \in 0..MAX_ETH_LEN - 1, NEW mask \in SUBSET (0..7),
         NEW b \in XorAt(buf, i, mask)
  PROVE  /\ b \in Buffer
         /\ \A j \in 0..MAX_ETH_LEN - 1 :
              Xor(b[j], buf[j]) \subseteq IF j = i THEN mask ELSE {}
<1>1. PICK r \in RandByte : b = [buf EXCEPT ![i] = Xor(buf[i], r \cap mask)]
  BY DEF XorAt
<1>2. Xor(buf[i], r \cap mask) \in Byte
  BY RandAssumption DEF Buffer, Byte, Xor
<1>3. b \in Buffer
  BY <1>1, <1>2 DEF Buffer
<1>4. ASSUME NEW j \in 0..MAX_ETH_LEN - 1
      PROVE  Xor(b[j], buf[j]) \subseteq IF j = i THEN mask ELSE {}
  BY <1>1 DEF Buffer, Xor
<1> QED BY <1>3, <1>4

\* Differences add up.
LEMMA XorChain ==
  ASSUME NEW a, NEW b, NEW c
  PROVE  Xor(a, c) \subseteq Xor(a, b) \cup Xor(b, c)
BY DEF Xor

LEMMA FuzzFieldBits ==
  ASSUME NEW buf \in Buffer, NEW b \in FuzzField(buf)
  PROVE  /\ b \in Buffer
         /\ \A j \in 0..MAX_ETH_LEN - 1 : Xor(b[j], buf[j]) \subseteq T!Fuzzable(j)
<1>1. PICK n \in Rand : b \in XorAt(buf, 46 + (n % 12), FuzzMask(n % 12))
  BY Offsets DEF FuzzField
<1> DEFINE k == n % 12
<1>2. k \in 0..11 /\ 46 + k \in 0..MAX_ETH_LEN - 1
  BY Offsets, RandAssumption, BufferAssumption
<1> HIDE DEF k
<1>3. FuzzMask(k) \in SUBSET (0..7) /\ FuzzMask(k) = T!Fuzzable(46 + k)
  <2>0. 46 + k \in Int
    BY <1>2
  <2>1. T!Fuzzable(46 + k) = IF 46 + k \notin 46..85 \/ 46 + k \in 51..53 THEN {}
                             ELSE IF 46 + k = 47 THEN 4..7 ELSE 0..7
    BY <2>0, FuzzableBits, Zenon
  <2> QED BY <1>2, <2>1 DEF FuzzMask, IB_QP_BYTES, IB_SMPT
<1>4. b \in XorAt(buf, 46 + k, FuzzMask(k))
  BY <1>1 DEF k
<1> QED BY <1>2, <1>3, <1>4, XorAtBits

LEMMA FuzzExtensionBits ==
  ASSUME NEW buf \in Buffer, NEW len \in 1..28, NEW b \in FuzzExtension(buf, len)
  PROVE  /\ b \in Buffer
         /\ \A j \in 0..MAX_ETH_LEN - 1 : Xor(b[j], buf[j]) \subseteq T!Fuzzable(j)
<1>1. PICK n \in Rand : b \in XorAt(buf, 58 + (n % len), 0..7)
  BY Offsets DEF FuzzExtension
<1> DEFINE k == n % len
<1>2. k \in 0..len - 1
  BY RandAssumption
<1> HIDE DEF k
<1>3. 58 + k \in 0..MAX_ETH_LEN - 1 /\ T!Fuzzable(58 + k) = 0..7
  <2>0. 58 + k \in Int
    BY <1>2
  <2>1. T!Fuzzable(58 + k) = IF 58 + k \notin 46..85 \/ 58 + k \in 51..53 THEN {}
                             ELSE IF 58 + k = 47 THEN 4..7 ELSE 0..7
    BY <2>0, FuzzableBits, Zenon
  <2> QED BY <1>2, <2>1, Offsets, BufferAssumption
<1>4. b \in XorAt(buf, 58 + k, 0..7)
  BY <1>1 DEF k
<1> QED BY <1>3, <1>4, XorAtBits

\* One round of fuzz_ib_bth stays inside the buffer and inside the fuzzable bits.
LEMMA FuzzRoundBits ==
  ASSUME NEW buf \in Buffer, NEW b \in FuzzRound(buf)
  PROVE  /\ b \in Buffer
         /\ \A j \in 0..MAX_ETH_LEN - 1 : Xor(b[j], buf[j]) \subseteq T!Fuzzable(j)
<1>1. PICK m \in FuzzField(buf) : b \in FuzzAnnounced(m)
  BY DEF FuzzRound
<1>2. m \in Buffer /\ \A j \in 0..MAX_ETH_LEN - 1 : Xor(m[j], buf[j]) \subseteq T!Fuzzable(j)
  BY <1>1, FuzzFieldBits
<1>3. b \in FuzzExtension(m, 28) \/ b \in FuzzExtension(m, 16) \/ b = m
  BY <1>1 DEF FuzzAnnounced, ATOMIC_ETH_LEN, RDMA_ETH_LEN
<1>4. CASE b = m
  BY <1>2, <1>4
<1>5. ASSUME NEW len \in 1..28, b \in FuzzExtension(m, len)
      PROVE  /\ b \in Buffer
             /\ \A j \in 0..MAX_ETH_LEN - 1 : Xor(b[j], buf[j]) \subseteq T!Fuzzable(j)
  <2>1. b \in Buffer /\ \A j \in 0..MAX_ETH_LEN - 1 : Xor(b[j], m[j]) \subseteq T!Fuzzable(j)
    BY <1>2, <1>5, FuzzExtensionBits
  <2>2. ASSUME NEW j \in 0..MAX_ETH_LEN - 1
        PROVE  Xor(b[j], buf[j]) \subseteq T!Fuzzable(j)
    BY <1>2, <2>1, XorChain
  <2> QED BY <2>1, <2>2
<1> QED BY <1>3, <1>4, <1>5

--------------------------------------------------------------------------------
(***************************************************************************)
(* Type correctness.  TypeInv is TypeOK with the type of tx written as a   *)
(* set, which TLC cannot enumerate.                                        *)
(***************************************************************************)

Written == UNION {[len : {n}, at : [0..n - 1 -> Byte]] : n \in 0..MAX_ETH_LEN}

MainType ==
  /\ phase \in {"options", "client", "server", "fork", "running", "exited"}
  /\ argv \in Seq([opt : {"c", "s", "?"}, arg : Name])
  /\ name \in [Role -> Name]
  /\ fd \in [Role -> Name]

RelayType ==
  /\ pc \in [Direction -> {"off", "read", "classify", "fuzz", "write", "clear", "crashed"}]
  /\ pc["toClient"] \notin {"classify", "fuzz"}
  /\ buffer \in [Direction -> Buffer]
  /\ nread \in [Direction -> -1..MAX_ETH_LEN]
  /\ round \in 0..Rounds
  /\ DOMAIN orig = Direction /\ \A d \in Direction : InFlight(d) => orig[d] \in Frame

NetType ==
  /\ link \in [Role -> {"up", "down", "gone"}]
  /\ arrived \in [Direction -> Nat]
  /\ rx \in [Direction -> Seq(Frame)]
  /\ tx \in [Direction -> Seq(Written)]

TypeInv == MainType /\ RelayType /\ NetType

\* What write() sends is a frame no longer than the buffer.
LEMMA HeldWritten ==
  ASSUME RelayType, NEW d \in Direction, nread[d] # -1
  PROVE  Held(d) \in Written
<1> DEFINE n == nread[d]
           bytes == [i \in 0..n - 1 |-> buffer[d][i]]
<1>1. n \in 0..MAX_ETH_LEN
  BY BufferAssumption DEF RelayType
<1>2. bytes \in [0..n - 1 -> Byte]
  BY <1>1, BufferAssumption DEF RelayType, Buffer
<1> HIDE DEF n, bytes
<1>3. [len |-> n, at |-> bytes] \in [len : {n}, at : [0..n - 1 -> Byte]]
  BY <1>2
<1>4. [len |-> n, at |-> bytes] \in Written
  BY <1>1, <1>3 DEF Written
<1> QED BY <1>4 DEF Held, n, bytes

\* The part of a frame that fits the buffer.
LEMMA CutFits ==
  ASSUME NEW f, IsFrame(f)
  PROVE  /\ Min2(f.len, MAX_ETH_LEN) \in 0..MAX_ETH_LEN
         /\ \A i \in 0..Min2(f.len, MAX_ETH_LEN) - 1 : i \in 0..f.len - 1 /\ f.at[i] \in Byte
<1> DEFINE n == f.len
           at == f.at
<1>1. n \in Nat /\ at \in [0..n - 1 -> Byte]
  BY DEF IsFrame
<1> HIDE DEF n, at
<1>2. Min2(n, MAX_ETH_LEN) \in 0..MAX_ETH_LEN /\ Min2(n, MAX_ETH_LEN) <= n
  BY <1>1, BufferAssumption DEF Min2
<1>3. \A i \in 0..Min2(n, MAX_ETH_LEN) - 1 : i \in 0..n - 1 /\ at[i] \in Byte
  BY <1>1, <1>2, BufferAssumption
<1> QED BY <1>2, <1>3 DEF n, at

\* main() before the fork touches no relay and no queue.
LEMMA StartupType ==
  ASSUME TypeInv, Startup
  PROVE  TypeInv'
<1> USE DEF TypeInv
<1>1. CASE ParseOption
  <2>1. MainType'
    <3> DEFINE o == Head(argv)
    <3>1. o \in [opt : {"c", "s", "?"}, arg : Name] /\ argv' \in Seq([opt : {"c", "s", "?"}, arg : Name])
      BY <1>1, HeadTailProperties DEF ParseOption, MainType
    <3> QED BY <1>1, <3>1, NameAssumption DEF ParseOption, MainType, Exit, Role
  <2> QED BY <1>1, <2>1 DEF ParseOption, relayVars, netVars, RelayType, NetType, InFlight
<1>2. CASE UseDefaults
  BY <1>2, NameAssumption
     DEF UseDefaults, DefaultName, MainType, RelayType, NetType, InFlight, relayVars, netVars, Role
<1>3. ASSUME NEW r \in Role, NEW next \in {"server", "fork"}, TunAlloc(r, next)
      PROVE  TypeInv'
  BY <1>3, NameAssumption
     DEF TunAlloc, Exit, MainType, RelayType, NetType, InFlight, relayVars, netVars, Role
<1>4. CASE Fork
  BY <1>4 DEF Fork, MainType, RelayType, NetType, InFlight, netVars, Direction
<1> QED BY <1>1, <1>2, <1>3, <1>4 DEF Startup, Role

LEMMA RelayTypeStep ==
  ASSUME TypeInv, NEW d \in Direction, Relay(d)
  PROVE  TypeInv'
<1> USE BufferAssumption, RoundsAssumption DEF TypeInv
<1>1. CASE ReadFrame(d)
  <2> DEFINE f == Head(rx[d])
             n == Min2(f.len, MAX_ETH_LEN)
  <2>1. f \in Frame /\ rx' \in [Direction -> Seq(Frame)]
    BY <1>1, HeadTailProperties DEF ReadFrame, NetType
  <2>2. IsFrame(f)
    BY <2>1, FrameAssumption
  <2>3. n \in 0..MAX_ETH_LEN /\ \A i \in 0..n - 1 : f.at[i] \in Byte
    BY <2>2, CutFits
  <2> HIDE DEF f, n
  <2>4. buffer' \in [Direction -> Buffer] /\ nread' = [nread EXCEPT ![d] = n]
        /\ orig' = [orig EXCEPT ![d] = f]
    BY <1>1, <2>3 DEF ReadFrame, RelayType, Buffer, f, n
  <2>5. RelayType'
    BY <1>1, <2>1, <2>3, <2>4 DEF ReadFrame, Goto, AfterRead, RelayType, InFlight, Direction, mainVars
  <2> QED BY <1>1, <2>1, <2>5 DEF ReadFrame, MainType, NetType, mainVars
<1>2. CASE ReadFails(d)
  BY <1>2 DEF ReadFails, Goto, AfterRead, MainType, RelayType, NetType, InFlight,
              Direction, mainVars, netVars
<1>3. CASE Classify(d)
  BY <1>3 DEF Classify, Goto, MainType, RelayType, NetType, InFlight, Direction, mainVars, netVars
<1>4. CASE Fuzz(d)
  <2>1. buffer' \in [Direction -> Buffer]
    BY <1>4, FuzzRoundBits DEF Fuzz, RelayType
  <2> QED BY <1>4, <2>1 DEF Fuzz, Goto, MainType, RelayType, NetType, InFlight,
                            Direction, mainVars, netVars
<1>5. CASE Write(d)
  <2>1. tx' \in [Direction -> Seq(Written)]
    <3>1. CASE nread[d] # -1 /\ link[Sink(d)] = "up"
      <4>1. Held(d) \in Written
        BY <3>1, HeldWritten
      <4>2. tx[d] \in Seq(Written) /\ Append(tx[d], Held(d)) \in Seq(Written)
        BY <4>1, AppendProperties DEF NetType
      <4> QED BY <1>5, <3>1, <4>2 DEF Write, NetType
    <3>2. CASE ~(nread[d] # -1 /\ link[Sink(d)] = "up")
      BY <1>5, <3>2 DEF Write, NetType
    <3> QED BY <3>1, <3>2
  <2> QED BY <1>5, <2>1 DEF Write, Goto, MainType, RelayType, NetType, InFlight,
                            Direction, mainVars
<1>6. CASE Clear(d)
  <2>1. buffer' \in [Direction -> Buffer]
    <3>1. \A i \in 0..MAX_ETH_LEN - 1 : (IF i < nread[d] THEN {} ELSE buffer[d][i]) \in Byte
      BY DEF RelayType, Buffer, Byte
    <3> DEFINE cleared == [i \in 0..MAX_ETH_LEN - 1 |-> IF i < nread[d] THEN {} ELSE buffer[d][i]]
    <3>2. cleared \in Buffer
      BY <3>1 DEF Buffer
    <3>3. buffer' = buffer \/ buffer' = [buffer EXCEPT ![d] = cleared]
      BY <1>6 DEF Clear
    <3> HIDE DEF cleared
    <3> QED BY <3>2, <3>3 DEF RelayType
  <2> QED BY <1>6, <2>1 DEF Clear, Goto, MainType, RelayType, NetType, InFlight,
                            Direction, mainVars, netVars
<1> QED BY <1>1, <1>2, <1>3, <1>4, <1>5, <1>6 DEF Relay

LEMMA NetworkType ==
  ASSUME TypeInv, Network
  PROVE  TypeInv'
<1> USE DEF TypeInv
<1>1. ASSUME NEW d \in Direction, NEW f \in Frame, Arrive(d, f)
      PROVE  TypeInv'
  <2>1. rx' \in [Direction -> Seq(Frame)]
    BY <1>1, AppendProperties DEF Arrive, NetType
  <2> QED BY <1>1, <2>1 DEF Arrive, MainType, RelayType, NetType, InFlight, mainVars, relayVars
<1>2. ASSUME NEW r \in Role, LinkChange(r)
      PROVE  TypeInv'
  BY <1>2 DEF LinkChange, MainType, RelayType, NetType, InFlight, mainVars, relayVars
<1> QED BY <1>1, <1>2 DEF Network

LEMMA InitTypes == Init => TypeInv
<1> SUFFICES ASSUME Init PROVE TypeInv
  OBVIOUS
<1>1. MainType
  BY NameAssumption, ArgvAssumption DEF Init, MainType
<1>2. {} \in Byte
  BY DEF Byte
<1>3. RelayType
  <2>1. [i \in 0..MAX_ETH_LEN - 1 |-> {}] \in Buffer
    BY <1>2 DEF Buffer
  <2>2. buffer \in [Direction -> Buffer]
    BY <2>1 DEF Init
  <2>3. 0 \in -1..MAX_ETH_LEN /\ 0 \in 0..Rounds
    BY BufferAssumption, RoundsAssumption
  <2>4. \A d \in Direction : pc[d] = "off"
    BY DEF Init
  <2> QED BY <2>2, <2>3, <2>4 DEF Init, RelayType, InFlight, Direction
<1>4. NetType
  <2>1. \A S : <<>> \in Seq(S)
    OBVIOUS
  <2> QED BY <2>1 DEF Init, NetType
<1> QED BY <1>1, <1>3, <1>4 DEF TypeInv

LEMMA NextTypes == TypeInv /\ [Next]_vars => TypeInv'
<1>1. CASE UNCHANGED vars
  BY <1>1 DEF vars, mainVars, relayVars, netVars, TypeInv, MainType, RelayType, NetType, InFlight
<1> QED BY <1>1, StartupType, RelayTypeStep, NetworkType DEF Next

\* Every variable keeps its type, for every value of the constants.
THEOREM TypeInvariant == Spec => []TypeInv
BY InitTypes, NextTypes, PTL DEF Spec

\* The type invariant that the runs check.
THEOREM TypeCorrect == Spec => []TypeOK
<1>1. TypeInv => TypeOK
  <2> SUFFICES ASSUME TypeInv PROVE TypeOK
    OBVIOUS
  <2>1. ASSUME NEW d \in Direction, NEW k \in 1..Len(tx[d])
        PROVE  IsFrame(tx[d][k]) /\ tx[d][k].len <= MAX_ETH_LEN
    <3>1. tx[d][k] \in Written
      BY <2>1 DEF TypeInv, NetType
    <3> QED BY <3>1, BufferAssumption DEF Written, IsFrame
  <2> QED BY <2>1 DEF TypeOK, TypeInv, MainType, RelayType, NetType
<1> QED BY <1>1, TypeInvariant, PTL

--------------------------------------------------------------------------------
(***************************************************************************)
(* Frame integrity.  Intact(d) says of the buffer what T!Allowed says of   *)
(* the frame that write() would send.  HeldIntact alone is not inductive:  *)
(* the child mutates the buffer in its "fuzz" state, so the invariant must *)
(* remember that it is there for an RDMA packet only.                      *)
(***************************************************************************)

IsRdma(f) == T!CheckBufferType(f.at, T!Cut(f)) = "IB_TRAFFIC"

SameByte(d, f, i) ==
  IF d = "toServer" /\ IsRdma(f)
  THEN Xor(buffer[d][i], f.at[i]) \subseteq T!Fuzzable(i)
  ELSE buffer[d][i] = f.at[i]

Intact(d) == /\ nread[d] = T!Cut(orig[d])
             /\ \A i \in 0..nread[d] - 1 : SameByte(d, orig[d], i)

FuzzesRdma(d) == pc[d] = "fuzz" => d = "toServer" /\ InFlight(d) /\ IsRdma(orig[d])

IntegrityInv == \A d \in Direction : (InFlight(d) => Intact(d)) /\ FuzzesRdma(d)

LEMMA IntactIsAllowed ==
  ASSUME TypeInv, NEW d \in Direction, InFlight(d)
  PROVE  T!Allowed(d, orig[d], Held(d)) <=> Intact(d)
<1>1. Held(d) \in Written
  BY HeldWritten DEF InFlight, TypeInv
<1>2. IsFrame(Held(d)) /\ Held(d).len = nread[d]
  BY <1>1, BufferAssumption DEF Written, IsFrame, Held
<1>3. \A i \in 0..nread[d] - 1 : Held(d).at[i] = buffer[d][i]
  BY DEF Held
<1>4. Held(d).at \in [0..nread[d] - 1 -> Byte]
  BY <1>2 DEF IsFrame
<1>5. T!IsFrame(Held(d))
  BY <1>2, <1>4, BufferAssumption DEF T!IsFrame, T!Byte, Byte, IsFrame
<1>6. T!Allowed(d, orig[d], Held(d)) <=>
        /\ nread[d] = T!Cut(orig[d])
        /\ \A i \in 0..nread[d] - 1 : SameByte(d, orig[d], i)
  BY <1>2, <1>3, <1>5 DEF T!Allowed, SameByte, IsRdma, T!Xor, Xor
<1> QED BY <1>6 DEF Intact

\* The classification looks at bytes of the frame that no mutation reaches.
LEMMA SameType ==
  ASSUME NEW b, NEW c, NEW size \in Int, size >= 46 => \A i \in 0..45 : b[i] = c[i]
  PROVE  CheckBufferType(b, size) = T!CheckBufferType(c, size)
<1>1. /\ T!IB_BTH_OFFSET = 46 /\ T!ETH_TYPE_OFFSET = 16 /\ T!VER_IHL_OFFSET = 18
      /\ T!PROTOCOL_OFFSET = 27 /\ T!DEST_PORT_OFFSET = 40
  BY DEF T!IB_BTH_OFFSET, T!UDP_CHECKSUM_OFFSET, T!UDP_LEN_OFFSET,
    T!DEST_PORT_OFFSET, T!SRC_PORT_OFFSET, T!UDP_HDR_OFFSET, T!DEST_IP_ADDR_OFFSET,
    T!SRC_IP_ADDR_OFFSET, T!HDR_CHECKSUM_OFFSET, T!PROTOCOL_OFFSET, T!TTL_OFFSET,
    T!FLAGS_FRAG_OFFSET_OFFSET, T!IDENTIFICATION_OFFSET, T!TOTAL_LEN_OFFSET,
    T!DSCP_ECN_OFFSET, T!VER_IHL_OFFSET, T!IP_HDR_OFFSET, T!ETH_TYPE_OFFSET,
    T!SRC_MAC_OFFSET, T!DEST_MAC_OFFSET, T!TAP_FRAME_OFFSET
<1>2. CASE size < 46
  BY <1>1, <1>2, Offsets DEF CheckBufferType, T!CheckBufferType
<1>3. CASE size >= 46
  <2>1. b[16] = c[16] /\ b[17] = c[17] /\ b[18] = c[18] /\ b[27] = c[27]
        /\ b[40] = c[40] /\ b[41] = c[41]
    BY <1>3
  <2>2. 16 + 1 = 17 /\ 40 + 1 = 41
    OBVIOUS
  <2>3. /\ IsIPv4(b) <=> T!IsIPv4(c)
        /\ IsOptionlessUdp(b) <=> T!IsOptionlessUdp(c)
        /\ ToRocePort(b) <=> T!ToRocePort(c)
    BY <1>1, <2>1, <2>2, Offsets
       DEF IsIPv4, T!IsIPv4, IsOptionlessUdp, T!IsOptionlessUdp, ToRocePort, T!ToRocePort
  <2> QED BY <1>1, <1>3, <2>3, Offsets DEF CheckBufferType, T!CheckBufferType
<1> QED BY <1>2, <1>3

\* Bytes before the BTH have no fuzzable bits.
LEMMA HeaderIntact ==
  ASSUME NEW d \in Direction, Intact(d), NEW i \in 0..nread[d] - 1, i < 46
  PROVE  buffer[d][i] = orig[d].at[i]
<1>1. i \in Int /\ i \notin 46..85
  OBVIOUS
<1>2. T!Fuzzable(i) = {}
  BY <1>1, FuzzableBits
<1>3. SameByte(d, orig[d], i)
  BY DEF Intact
<1> QED BY <1>2, <1>3 DEF SameByte, Xor

LEMMA StartupIntegrity ==
  ASSUME TypeInv, IntegrityInv, Startup
  PROVE  IntegrityInv'
<1>1. CASE UNCHANGED relayVars
  BY <1>1 DEF IntegrityInv, Intact, FuzzesRdma, InFlight, SameByte, relayVars
<1>2. CASE Fork
  BY <1>2 DEF Fork, IntegrityInv, Intact, FuzzesRdma, InFlight, SameByte, Direction, TypeInv, RelayType
<1> QED BY <1>1, <1>2 DEF Startup, ParseOption, UseDefaults, TunAlloc

LEMMA NetworkIntegrity ==
  ASSUME IntegrityInv, Network
  PROVE  IntegrityInv'
<1>1. UNCHANGED relayVars
  BY DEF Network, Arrive, LinkChange
<1> QED BY <1>1 DEF IntegrityInv, Intact, FuzzesRdma, InFlight, SameByte, relayVars

\* A step of one relay leaves the other relay's frame alone.
LEMMA OtherRelay ==
  ASSUME TypeInv, NEW d \in Direction, Relay(d), NEW e \in Direction, e # d
  PROVE  /\ pc'[e] = pc[e] /\ buffer'[e] = buffer[e]
         /\ nread'[e] = nread[e] /\ orig'[e] = orig[e]
BY DEF Relay, ReadFrame, ReadFails, Classify, Fuzz, Write, Clear, Goto,
       TypeInv, RelayType, mainVars, netVars

LEMMA RelayIntegrity ==
  ASSUME TypeInv, TypeInv', IntegrityInv, NEW d \in Direction, Relay(d)
  PROVE  IntegrityInv'
<1>1. ASSUME NEW e \in Direction, e # d
      PROVE  (InFlight(e) => Intact(e))' /\ FuzzesRdma(e)'
  <2>1. /\ pc'[e] = pc[e] /\ buffer'[e] = buffer[e]
        /\ nread'[e] = nread[e] /\ orig'[e] = orig[e]
    BY <1>1, OtherRelay
  <2> QED BY <2>1 DEF IntegrityInv, InFlight, Intact, FuzzesRdma, SameByte
<1>2. (InFlight(d) => Intact(d))' /\ FuzzesRdma(d)'
  <2>1. CASE ReadFrame(d)
    <3> DEFINE f == Head(rx[d])
               n == Min2(f.len, MAX_ETH_LEN)
    <3>1. f \in Frame
      BY <2>1, HeadTailProperties DEF ReadFrame, TypeInv, NetType
    <3>2. n \in 0..MAX_ETH_LEN /\ n = T!Cut(f)
      BY <3>1, CutFits, FrameAssumption DEF Min2, T!Cut
    <3>3. /\ nread'[d] = n /\ orig'[d] = f
          /\ pc'[d] = AfterRead(d)
          /\ buffer'[d] = [i \in 0..MAX_ETH_LEN - 1 |-> IF i < n THEN f.at[i] ELSE buffer[d][i]]
      BY <2>1 DEF ReadFrame, Goto, TypeInv, RelayType
    <3> HIDE DEF f, n
    <3>4. \A i \in 0..n - 1 : buffer'[d][i] = f.at[i]
      BY <3>2, <3>3, BufferAssumption
    <3>5. Intact(d)'
      BY <3>2, <3>3, <3>4 DEF Intact, SameByte, Xor
    <3>6. FuzzesRdma(d)'
      BY <3>3 DEF FuzzesRdma, AfterRead
    <3> QED BY <3>5, <3>6
  <2>2. CASE ReadFails(d)
    BY <2>2 DEF ReadFails, Goto, AfterRead, InFlight, FuzzesRdma, TypeInv, RelayType
  <2>3. CASE Classify(d)
    <3>1. /\ nread'[d] = nread[d] /\ orig'[d] = orig[d] /\ buffer'[d] = buffer[d]
          /\ pc'[d] = IF CheckBufferType(buffer[d], nread[d]) = "IB_TRAFFIC" THEN "fuzz" ELSE "write"
      BY <2>3 DEF Classify, Goto, TypeInv, RelayType
    <3>2. pc[d] = "classify" /\ d = "toServer"
      BY <2>3 DEF Classify, TypeInv, RelayType, Direction
    <3>3. (InFlight(d) => Intact(d))'
      BY <3>1, <3>2 DEF InFlight, IntegrityInv, Intact, SameByte
    <3>4. ASSUME pc'[d] = "fuzz"
          PROVE  InFlight(d)' /\ IsRdma(orig'[d])
      <4>1. CheckBufferType(buffer[d], nread[d]) = "IB_TRAFFIC" /\ nread[d] \in Int
        BY <3>1, <3>4, BufferAssumption DEF TypeInv, RelayType
      <4>2. nread[d] >= 46
        BY <4>1, Offsets DEF CheckBufferType
      <4>3. InFlight(d) /\ Intact(d)
        BY <3>2, <4>2 DEF InFlight, IntegrityInv
      <4>4. \A i \in 0..45 : buffer[d][i] = orig[d].at[i]
        BY <4>1, <4>2, <4>3, HeaderIntact
      <4>5. T!CheckBufferType(orig[d].at, nread[d]) = "IB_TRAFFIC"
        BY <4>1, <4>4, SameType
      <4> QED BY <3>1, <3>4, <4>2, <4>3, <4>5 DEF IsRdma, Intact, InFlight
    <3> QED BY <3>2, <3>3, <3>4 DEF FuzzesRdma
  <2>4. CASE Fuzz(d)
    <3>1. /\ nread'[d] = nread[d] /\ orig'[d] = orig[d] /\ pc[d] = "fuzz"
          /\ pc'[d] \in {"fuzz", "write"}
      BY <2>4 DEF Fuzz, Goto, TypeInv, RelayType
    <3>2. d = "toServer" /\ InFlight(d) /\ IsRdma(orig[d]) /\ Intact(d)
      BY <3>1 DEF IntegrityInv, FuzzesRdma
    <3>3. \A i \in 0..nread[d] - 1 : SameByte(d, orig[d], i)'
      <4>1. CASE buffer' = buffer
        BY <3>1, <3>2, <4>1 DEF Intact, SameByte
      <4>2. ASSUME NEW b \in FuzzRound(buffer[d]), buffer' = [buffer EXCEPT ![d] = b],
                   NEW i \in 0..nread[d] - 1
            PROVE  SameByte(d, orig[d], i)'
        <5>1. buffer[d] \in Buffer /\ i \in 0..MAX_ETH_LEN - 1 /\ buffer'[d] = b
          BY <4>2, BufferAssumption DEF TypeInv, RelayType
        <5>2. Xor(b[i], buffer[d][i]) \subseteq T!Fuzzable(i)
          BY <5>1, FuzzRoundBits
        <5>3. Xor(buffer[d][i], orig[d].at[i]) \subseteq T!Fuzzable(i)
          BY <3>2 DEF Intact, SameByte
        <5>4. Xor(b[i], orig[d].at[i]) \subseteq T!Fuzzable(i)
          BY <5>2, <5>3, XorChain
        <5> QED BY <3>1, <3>2, <5>1, <5>4 DEF SameByte
      <4> QED BY <2>4, <4>1, <4>2 DEF Fuzz
    <3> QED BY <3>1, <3>2, <3>3 DEF Intact, FuzzesRdma, InFlight
  <2>5. CASE Write(d)
    BY <2>5 DEF Write, Goto, InFlight, FuzzesRdma, TypeInv, RelayType
  <2>6. CASE Clear(d)
    BY <2>6 DEF Clear, Goto, InFlight, FuzzesRdma, TypeInv, RelayType
  <2> QED BY <2>1, <2>2, <2>3, <2>4, <2>5, <2>6 DEF Relay
<1> QED BY <1>1, <1>2 DEF IntegrityInv

LEMMA IntegrityInductive ==
  TypeInv /\ TypeInv' /\ IntegrityInv /\ [Next]_vars => IntegrityInv'
<1>1. ASSUME IntegrityInv, UNCHANGED vars PROVE IntegrityInv'
  BY <1>1 DEF vars, relayVars, IntegrityInv, Intact, FuzzesRdma, InFlight, SameByte
<1> QED BY <1>1, StartupIntegrity, NetworkIntegrity, RelayIntegrity DEF Next

LEMMA InitIntegrity == Init => IntegrityInv
BY DEF Init, IntegrityInv, FuzzesRdma, InFlight

THEOREM IntegrityInvariant == Spec => []IntegrityInv
BY InitIntegrity, IntegrityInductive, TypeInvariant, PTL DEF Spec

\* Frame integrity, for every frame, buffer size and number of rounds: what a
\* relay sends differs from what it read in the fuzzable bits only.
THEOREM FrameIntegrity == Spec => []HeldIntact
<1>1. TypeInv /\ IntegrityInv => HeldIntact
  BY IntactIsAllowed DEF IntegrityInv, HeldIntact
<1> QED BY <1>1, TypeInvariant, IntegrityInvariant, PTL

--------------------------------------------------------------------------------
(***************************************************************************)
(* One round of mutation.  What it alters in the frame is bounded by the   *)
(* opcode it leaves behind.                                                *)
(***************************************************************************)

\* XOR-ing a byte leaves the others as they are.
LEMMA XorAtOne ==
  ASSUME NEW buf \in Buffer, NEW i \in 0..MAX_ETH_LEN - 1, NEW mask, NEW b \in XorAt(buf, i, mask)
  PROVE  \A j \in 0..MAX_ETH_LEN - 1 : j # i => b[j] = buf[j]
BY DEF XorAt, Buffer

\* b is what one round makes of buf: one byte of the BTH, and bytes of the
\* extension header that the opcode of b announces.
OneRound(buf, b) ==
  /\ \E k \in 46..57 : \A j \in 46..57 : j # k => b[j] = buf[j]
  /\ \A j \in 58..85 : b[j] # buf[j] =>
       LET op == Operation(b[46])
       IN  op \in AtomicOperations \/ (op \in RdmaOperations /\ j < 74)

LEMMA FuzzFieldOne ==
  ASSUME NEW buf \in Buffer, NEW b \in FuzzField(buf)
  PROVE  \E k \in 46..57 : \A j \in 0..MAX_ETH_LEN - 1 : j # k => b[j] = buf[j]
<1>1. PICK n \in Rand : b \in XorAt(buf, 46 + (n % 12), FuzzMask(n % 12))
  BY Offsets DEF FuzzField
<1> DEFINE k == n % 12
<1>2. 46 + k \in 46..57 /\ 46 + k \in 0..MAX_ETH_LEN - 1
  BY Offsets, RandAssumption, BufferAssumption
<1> HIDE DEF k
<1>3. b \in XorAt(buf, 46 + k, FuzzMask(k))
  BY <1>1 DEF k
<1> QED BY <1>2, <1>3, XorAtOne

LEMMA FuzzExtensionOne ==
  ASSUME NEW buf \in Buffer, NEW len \in 1..28, NEW b \in FuzzExtension(buf, len)
  PROVE  \A j \in 0..MAX_ETH_LEN - 1 : j \notin 58..(57 + len) => b[j] = buf[j]
<1>1. PICK n \in Rand : b \in XorAt(buf, 58 + (n % len), 0..7)
  BY Offsets DEF FuzzExtension
<1> DEFINE k == n % len
<1>2. 58 + k \in 58..(57 + len) /\ 58 + k \in 0..MAX_ETH_LEN - 1
  BY Offsets, RandAssumption, BufferAssumption
<1> HIDE DEF k
<1>3. b \in XorAt(buf, 58 + k, 0..7)
  BY <1>1 DEF k
<1> QED BY <1>2, <1>3, XorAtOne

LEMMA FuzzRoundOne ==
  ASSUME NEW buf \in Buffer, NEW b \in FuzzRound(buf)
  PROVE  OneRound(buf, b)
<1>1. PICK m \in FuzzField(buf) : b \in FuzzAnnounced(m)
  BY DEF FuzzRound
<1>2. m \in Buffer
  BY FuzzFieldBits
<1>3. PICK k \in 46..57 : \A j \in 0..MAX_ETH_LEN - 1 : j # k => m[j] = buf[j]
  BY FuzzFieldOne
<1>4. \A j \in 0..85 : j \in 0..MAX_ETH_LEN - 1
  BY Offsets, BufferAssumption
<1> DEFINE op == Operation(m[46])
<1>5. \/ op \in AtomicOperations /\ b \in FuzzExtension(m, 28)
      \/ op \in RdmaOperations /\ b \in FuzzExtension(m, 16)
      \/ b = m
  BY <1>1, Offsets DEF FuzzAnnounced, ATOMIC_ETH_LEN, RDMA_ETH_LEN
<1> HIDE DEF op
<1>6. ASSUME NEW len \in {16, 28}, b \in FuzzExtension(m, len)
      PROVE  \A j \in 46..85 : j \notin 58..(57 + len) => b[j] = m[j]
  BY <1>2, <1>4, <1>6, FuzzExtensionOne
<1>7. /\ \A j \in 46..57 : b[j] = m[j]
      /\ \A j \in 58..85 : b[j] # m[j] => op \in AtomicOperations \/ (op \in RdmaOperations /\ j < 74)
  BY <1>5, <1>6
<1>8. Operation(b[46]) = op
  BY <1>7 DEF op
<1>9. \A j \in 46..57 : j # k => b[j] = buf[j]
  BY <1>3, <1>4, <1>7
<1>10. \A j \in 58..85 : b[j] # buf[j] => op \in AtomicOperations \/ (op \in RdmaOperations /\ j < 74)
  BY <1>3, <1>4, <1>7
<1> QED BY <1>8, <1>9, <1>10 DEF OneRound

child == "toServer"

AsRead == \A i \in 0..nread[child] - 1 : buffer[child][i] = orig[child].at[i]

\* What MutationConfined says of the frame that leaves.
Confined ==
  /\ \A i, j \in Changed(BthRange) : i = j
  /\ \A i \in Changed(ExtensionRange) :
       LET op == Operation(buffer[child][IB_OPCODE_OFFSET])
       IN  \/ op \in AtomicOperations
           \/ op \in RdmaOperations /\ i < IB_PSEUD_PAYLOAD_OFFSET + RDMA_ETH_LEN

\* The strengthening of MutationConfined: before its only round the frame is as
\* it was read.
RoundInv ==
  Rounds = 1 /\ InFlight(child) =>
    /\ pc[child] = "classify" \/ (pc[child] = "fuzz" /\ round = 0) => AsRead
    /\ Confined

LEMMA AsReadIsConfined == AsRead => Confined
<1> SUFFICES ASSUME AsRead PROVE Confined
  OBVIOUS
<1>1. \A range : Changed(range) = {}
  BY DEF AsRead, Changed, child
<1> QED BY <1>1 DEF Confined

LEMMA RoundIsConfined ==
  ASSUME TypeInv, TypeInv', AsRead, nread'[child] = nread[child], orig'[child] = orig[child],
         OneRound(buffer[child], buffer'[child])
  PROVE  Confined'
<1> DEFINE b == buffer'[child]
           f == orig[child].at
           n == nread[child]
<1>0. n \in Int
  BY BufferAssumption DEF TypeInv, RelayType, Direction, child
<1>1. BthRange = 46..57 /\ ExtensionRange = 58..85 /\ IB_OPCODE_OFFSET = 46
      /\ IB_PSEUD_PAYLOAD_OFFSET + RDMA_ETH_LEN = 74
  BY Offsets DEF BthRange, ExtensionRange, RDMA_ETH_LEN
<1>2. \A range : Changed(range)' = {i \in range \cap 0..n - 1 : b[i] # f[i]}
  BY DEF Changed, child
<1>3. \A i \in 0..n - 1 : buffer[child][i] = f[i]
  BY DEF AsRead
<1> HIDE DEF b, f, n
<1>4. PICK k \in 46..57 : \A j \in 46..57 : j # k => b[j] = buffer[child][j]
  BY DEF OneRound, b
<1>5. \A i, j \in Changed(BthRange)' : i = j
  BY <1>1, <1>2, <1>3, <1>4
<1>6. \A i \in Changed(ExtensionRange)' :
        LET op == Operation(b[46])
        IN  op \in AtomicOperations \/ (op \in RdmaOperations /\ i < 74)
  BY <1>1, <1>2, <1>3 DEF OneRound, b
<1> QED BY <1>1, <1>5, <1>6 DEF Confined, b

LEMMA RelayRound ==
  ASSUME TypeInv, TypeInv', IntegrityInv, RoundInv, Rounds = 1, Relay(child)
  PROVE  RoundInv'
<1> USE DEF child
<1>0. child \in Direction
  BY DEF Direction
<1>1. CASE ReadFrame(child)
  <2> DEFINE f == Head(rx[child])
             n == Min2(f.len, MAX_ETH_LEN)
  <2>1. f \in Frame
    BY <1>0, <1>1, HeadTailProperties DEF ReadFrame, TypeInv, NetType
  <2>2. n \in 0..MAX_ETH_LEN
    BY <2>1, CutFits, FrameAssumption
  <2>3. /\ nread'[child] = n /\ orig'[child] = f
        /\ buffer'[child] = [i \in 0..MAX_ETH_LEN - 1 |-> IF i < n THEN f.at[i] ELSE buffer[child][i]]
    BY <1>0, <1>1 DEF ReadFrame, Goto, TypeInv, RelayType
  <2> HIDE DEF f, n
  <2>4. AsRead'
    BY <2>2, <2>3, BufferAssumption DEF AsRead
  <2>5. AsRead' => Confined'
    BY AsReadIsConfined, PTL
  <2> QED BY <2>4, <2>5 DEF RoundInv
<1>2. CASE ReadFails(child) \/ Clear(child)
  BY <1>0, <1>2 DEF ReadFails, Clear, Goto, InFlight, TypeInv, RelayType, RoundInv
<1>3. CASE Classify(child) \/ Write(child)
  <2>1. /\ UNCHANGED <<buffer, nread, orig>>
        /\ InFlight(child)' => InFlight(child) /\ pc[child] = "classify"
    BY <1>0, <1>3 DEF Classify, Write, Goto, InFlight, TypeInv, RelayType
  <2>2. AsRead' = AsRead /\ Confined' = Confined
    BY <2>1 DEF AsRead, Confined, Changed
  <2> QED BY <2>1, <2>2 DEF RoundInv
<1>4. CASE Fuzz(child)
  <2>1. /\ nread'[child] = nread[child] /\ orig'[child] = orig[child] /\ InFlight(child)
        /\ pc[child] = "fuzz" /\ round \in {0, 1}
    BY <1>0, <1>4 DEF Fuzz, IntegrityInv, FuzzesRdma, TypeInv, RelayType
  <2>2. CASE round = 0
    <3>1. AsRead /\ buffer[child] \in Buffer
      BY <1>0, <2>1, <2>2 DEF RoundInv, TypeInv, RelayType
    <3>2. PICK b \in FuzzRound(buffer[child]) : buffer' = [buffer EXCEPT ![child] = b]
      BY <1>4, <2>2 DEF Fuzz
    <3>3. buffer'[child] = b /\ OneRound(buffer[child], b)
      BY <1>0, <3>1, <3>2, FuzzRoundOne DEF TypeInv, RelayType
    <3>4. Confined'
      BY <2>1, <3>1, <3>3, RoundIsConfined
    <3>5. round' = 1 /\ pc'[child] = "fuzz"
      BY <1>4, <2>1, <2>2 DEF Fuzz
    <3> QED BY <3>4, <3>5 DEF RoundInv
  <2>3. CASE round = 1
    <3>1. UNCHANGED <<buffer, nread, orig>> /\ pc'[child] = "write"
      BY <1>0, <1>4, <2>3 DEF Fuzz, Goto, TypeInv, RelayType
    <3>2. Confined' = Confined
      BY <3>1 DEF Confined, Changed
    <3> QED BY <2>1, <3>1, <3>2 DEF RoundInv
  <2> QED BY <2>1, <2>2, <2>3
<1> QED BY <1>1, <1>2, <1>3, <1>4 DEF Relay

\* Nothing else touches the child's frame.
LEMMA RoundKept ==
  ASSUME RoundInv, pc'[child] = pc[child] \/ pc'[child] \in {"off", "read"}, round' = round,
         buffer'[child] = buffer[child], nread'[child] = nread[child], orig'[child] = orig[child]
  PROVE  RoundInv'
BY DEF RoundInv, InFlight, AsRead, Confined, Changed, child

LEMMA NextRound == TypeInv /\ TypeInv' /\ IntegrityInv /\ RoundInv /\ [Next]_vars => RoundInv'
<1> SUFFICES ASSUME TypeInv, TypeInv', IntegrityInv, RoundInv, [Next]_vars PROVE RoundInv'
  OBVIOUS
<1>1. CASE Startup
  <2>1. UNCHANGED <<buffer, nread, round, orig>> /\ (pc' = pc \/ Fork)
    BY <1>1 DEF Startup, ParseOption, UseDefaults, TunAlloc, Fork, relayVars
  <2>2. Fork => pc'[child] = "read" \/ pc'[child] = pc[child]
    BY DEF Fork, Direction, child, TypeInv, RelayType
  <2> QED BY <2>1, <2>2, RoundKept
<1>2. CASE Relay(child)
  <2>1. CASE Rounds = 1
    BY <1>2, <2>1, RelayRound
  <2> QED BY <2>1 DEF RoundInv
<1>3. CASE Relay("toClient")
  <2>1. /\ pc'[child] = pc[child] /\ buffer'[child] = buffer[child]
        /\ nread'[child] = nread[child] /\ orig'[child] = orig[child]
    BY <1>3, OtherRelay DEF Direction, child
  <2>2. round' = round
    BY <1>3 DEF Relay, ReadFrame, ReadFails, Classify, Fuzz, Write, Clear, TypeInv, RelayType
  <2> QED BY <2>1, <2>2, RoundKept
<1>4. CASE Network \/ UNCHANGED vars
  <2>1. UNCHANGED relayVars
    BY <1>4 DEF Network, Arrive, LinkChange, vars
  <2> QED BY <2>1, RoundKept DEF relayVars
<1> QED BY <1>1, <1>2, <1>3, <1>4 DEF Next, Direction, child

\* A packet that leaves after the one round of mutation has at most one altered
\* byte of the BTH, and behind it altered bytes only where the opcode that leaves
\* announces an extension header that long, for any frames and random numbers.
THEOREM OneFieldAltered == Spec => []MutationConfined
<1>1. Init => RoundInv
  BY DEF Init, RoundInv, InFlight, child, Direction
<1>2. RoundInv => MutationConfined
  BY DEF RoundInv, MutationConfined, Confined, child
<1> QED BY <1>1, <1>2, NextRound, TypeInvariant, IntegrityInvariant, PTL DEF Spec

--------------------------------------------------------------------------------
(***************************************************************************)
(* The startup.  No relay runs before the fork.                            *)
(***************************************************************************)

StartupInv ==
  /\ phase = "options" => /\ fd = [r \in Role |-> ""]
                          /\ \A r \in Role : name[r] \in LongName => name[r] = ""
  /\ phase \in {"client", "server", "fork", "running"} =>
       \A r \in Role : name[r] \notin ShortName \cup LongName
  /\ phase = "client" => fd = [r \in Role |-> ""]
  /\ phase = "server" => fd["client"] = name["client"] /\ fd["server"] = ""
  /\ phase \in {"fork", "running"} => fd = name /\ fd["client"] # fd["server"]
  /\ phase # "running" => \A d \in Direction : pc[d] = "off"

LEMMA StartupInductive == TypeInv /\ StartupInv /\ [Next]_vars => StartupInv'
<1> SUFFICES ASSUME TypeInv, StartupInv, [Next]_vars PROVE StartupInv'
  OBVIOUS
<1>1. CASE UNCHANGED <<mainVars, pc>>
  BY <1>1 DEF StartupInv, mainVars
<1>2. CASE ParseOption
  BY <1>2, NameAssumption DEF ParseOption, Exit, relayVars, StartupInv, TypeInv, MainType, Role
<1>3. CASE UseDefaults
  BY <1>3, NameAssumption DEF UseDefaults, DefaultName, relayVars, StartupInv, TypeInv, MainType, Role
<1>4. CASE TunAlloc("client", "server")
  BY <1>4 DEF TunAlloc, Exit, relayVars, StartupInv, TypeInv, MainType, Role
<1>5. CASE TunAlloc("server", "fork")
  BY <1>5 DEF TunAlloc, Exit, relayVars, StartupInv, TypeInv, MainType, Role
<1>6. CASE Fork
  BY <1>6 DEF Fork, StartupInv
<1>7. ASSUME NEW d \in Direction, Relay(d) PROVE StartupInv'
  <2>1. UNCHANGED mainVars
    BY <1>7 DEF Relay, ReadFrame, ReadFails, Classify, Fuzz, Write, Clear
  <2>2. pc[d] # "off"
    BY <1>7 DEF Relay, ReadFrame, ReadFails, Classify, Fuzz, Write, Clear
  <2> QED BY <2>1, <2>2 DEF StartupInv, mainVars
<1>8. ASSUME Network PROVE UNCHANGED <<mainVars, pc>>
  BY <1>8 DEF Network, Arrive, LinkChange, relayVars
<1> QED BY <1>1, <1>2, <1>3, <1>4, <1>5, <1>6, <1>7, <1>8 DEF Next, Startup, vars, relayVars

LEMMA InitStartup == Init => StartupInv
<1>1. ASSUME Init PROVE phase = "options" /\ fd = [r \in Role |-> ""] /\ name = [r \in Role |-> ""]
                        /\ pc = [d \in Direction |-> "off"]
  BY <1>1, Zenon DEF Init
<1> QED BY <1>1 DEF StartupInv

THEOREM StartupInvariant == Spec => []StartupInv
BY InitStartup, StartupInductive, TypeInvariant, PTL DEF Spec

\* The relays start between two different devices, the ones asked for.
THEOREM StartsBetweenItsDevices == Spec => []RunsBetweenItsDevices
<1>1. StartupInv => RunsBetweenItsDevices
  BY DEF StartupInv, RunsBetweenItsDevices
<1> QED BY <1>1, StartupInvariant, PTL

--------------------------------------------------------------------------------
(***************************************************************************)
(* Residue in the buffers.  Between a read and the memset() that follows   *)
(* it a buffer also holds the frame, so the invariant covers every state.  *)
(***************************************************************************)

Residue(limit) ==
  \A d \in Direction, i \in 0..MAX_ETH_LEN - 1 :
    buffer[d][i] # {} => \/ pc[d] \in {"classify", "fuzz", "write", "clear"} /\ i < nread[d]
                         \/ d = "toServer" /\ i \in 46..limit - 1

\* The strengthening of ResidueConfined.
ResidueInv == Residue(86)

\* Nothing but a mutation adds to the residue.
QuietRelay(d) == ReadFrame(d) \/ ReadFails(d) \/ Classify(d) \/ Write(d) \/ Clear(d)

LEMMA QuietResidue ==
  ASSUME NEW CONSTANT n \in Int, TypeInv, Residue(n), NEW d \in Direction, QuietRelay(d)
  PROVE  Residue(n)'
<1> SUFFICES ASSUME NEW e \in Direction, NEW i \in 0..MAX_ETH_LEN - 1, buffer'[e][i] # {}
             PROVE  \/ pc'[e] \in {"classify", "fuzz", "write", "clear"} /\ i < nread'[e]
                    \/ e = "toServer" /\ i \in 46..n - 1
  BY DEF Residue
<1> USE DEF Residue, TypeInv, RelayType, Goto
<1>1. CASE e # d
  BY <1>1, OtherRelay DEF QuietRelay, Relay
<1>2. CASE e = d
  <2>1. CASE ReadFrame(d)
    BY <1>2, <2>1 DEF ReadFrame, AfterRead
  <2>2. CASE ReadFails(d)
    BY <1>2, <2>2 DEF ReadFails
  <2>3. CASE Classify(d)
    BY <1>2, <2>3 DEF Classify
  <2>4. CASE Write(d)
    BY <1>2, <2>4 DEF Write
  <2>5. CASE Clear(d)
    BY <1>2, <2>5, BufferAssumption DEF Clear
  <2> QED BY <2>1, <2>2, <2>3, <2>4, <2>5 DEF QuietRelay
<1> QED BY <1>1, <1>2

\* A mutation between read and write that stays below the limit.
LEMMA FuzzResidue ==
  ASSUME NEW CONSTANT n \in Int, Residue(n), NEW d \in Direction, d = "toServer",
         pc[d] \in {"classify", "fuzz"}, pc'[d] \in {"fuzz", "write"}, nread' = nread,
         \A e \in Direction : e # d => pc'[e] = pc[e] /\ buffer'[e] = buffer[e],
         \A i \in 0..MAX_ETH_LEN - 1 : i \in 46..n - 1 \/ buffer'[d][i] = buffer[d][i]
  PROVE  Residue(n)'
<1> SUFFICES ASSUME NEW e \in Direction, NEW i \in 0..MAX_ETH_LEN - 1, buffer'[e][i] # {}
             PROVE  \/ pc'[e] \in {"classify", "fuzz", "write", "clear"} /\ i < nread'[e]
                    \/ e = "toServer" /\ i \in 46..n - 1
  BY DEF Residue
<1>1. CASE e # d
  BY <1>1 DEF Residue
<1>2. CASE e = d
  BY <1>2 DEF Residue
<1> QED BY <1>1, <1>2

\* Startup and networks do not touch the buffers.
LEMMA RestResidue ==
  ASSUME NEW CONSTANT n \in Int, StartupInv, Residue(n), Startup \/ Network \/ UNCHANGED vars
  PROVE  Residue(n)'
<1>1. CASE Fork
  <2>1. UNCHANGED buffer /\ \A d \in Direction : pc[d] = "off"
    BY <1>1 DEF Fork, StartupInv
  <2> QED BY <2>1 DEF Residue
<1>2. CASE ~Fork
  <2>1. UNCHANGED relayVars
    BY <1>2 DEF Startup, ParseOption, UseDefaults, TunAlloc, Network, Arrive, LinkChange, vars
  <2> QED BY <2>1 DEF Residue, relayVars
<1> QED BY <1>1, <1>2

LEMMA InitResidue ==
  ASSUME NEW CONSTANT n \in Int, Init
  PROVE  Residue(n)
<1>1. buffer = [d \in Direction |-> [i \in 0..MAX_ETH_LEN - 1 |-> {}]]
  BY Zenon DEF Init
<1> QED BY <1>1 DEF Residue

\* What a round of proxy-f.c writes is below FUZZ_END.
LEMMA FuzzStaysBelow ==
  ASSUME TypeInv, Residue(86), NEW d \in Direction, Fuzz(d)
  PROVE  Residue(86)'
<1>1. /\ pc[d] \in {"classify", "fuzz"} /\ pc'[d] \in {"fuzz", "write"}
      /\ d = "toServer" /\ nread' = nread
      /\ \A e \in Direction : e # d => pc'[e] = pc[e] /\ buffer'[e] = buffer[e]
  BY DEF Fuzz, Goto, TypeInv, RelayType, Direction
<1>2. ASSUME NEW i \in 0..MAX_ETH_LEN - 1, i \notin 46..85
      PROVE  buffer'[d][i] = buffer[d][i]
  <2>1. CASE buffer' = buffer
    BY <2>1
  <2>2. ASSUME NEW b \in FuzzRound(buffer[d]), buffer' = [buffer EXCEPT ![d] = b]
        PROVE  buffer'[d][i] = buffer[d][i]
    <3>1. buffer[d] \in Buffer /\ buffer'[d] = b
      BY <2>2 DEF TypeInv, RelayType
    <3>2. i \in Int /\ T!Fuzzable(i) = {}
      BY <1>2, BufferAssumption, FuzzableBits
    <3>3. Xor(b[i], buffer[d][i]) \subseteq {}
      BY <3>1, <3>2, FuzzRoundBits
    <3> QED BY <3>1, <3>3 DEF Xor
  <2> QED BY <2>1, <2>2 DEF Fuzz
<1>3. \A i \in 0..MAX_ETH_LEN - 1 : i \in 46..86 - 1 \/ buffer'[d][i] = buffer[d][i]
  <2>1. 86 - 1 = 85
    OBVIOUS
  <2> QED BY <1>2, <2>1, Zenon
<1>4. 86 \in Int
  OBVIOUS
<1> QED BY <1>1, <1>3, <1>4, FuzzResidue, Zenon

LEMMA NextResidue == TypeInv /\ StartupInv /\ ResidueInv /\ [Next]_vars => ResidueInv'
<1> SUFFICES ASSUME TypeInv, StartupInv, Residue(86), [Next]_vars PROVE Residue(86)'
  BY DEF ResidueInv
<1>1. CASE Startup \/ Network \/ UNCHANGED vars
  BY <1>1, RestResidue
<1>2. ASSUME NEW d \in Direction, Relay(d) PROVE Residue(86)'
  BY <1>2, QuietResidue, FuzzStaysBelow DEF Relay, QuietRelay
<1> QED BY <1>1, <1>2 DEF Next

\* Nothing of an earlier frame is left in a buffer when the next one is read,
\* except bits that the mutation wrote behind a truncated packet.
THEOREM NoFrameLeftBehind == Spec => []ResidueConfined
<1>1. Init => ResidueInv
  BY InitResidue DEF ResidueInv
<1>2. ResidueInv => ResidueConfined
  BY Offsets DEF ResidueInv, Residue, ResidueConfined
<1> QED BY <1>1, <1>2, NextResidue, TypeInvariant, StartupInvariant, PTL DEF Spec

--------------------------------------------------------------------------------
(***************************************************************************)
(* The crash.  A failed read leaves -1 behind until the memset() that      *)
(* follows it kills the process, and a deleted device never comes back.    *)
(***************************************************************************)

CrashInv ==
  \A d \in Direction : /\ pc[d] = "crashed" => nread[d] = -1
                       /\ nread[d] = -1 => link[Source(d)] = "gone"

LEMMA InitCrash == Init => CrashInv
<1>1. ASSUME Init PROVE pc = [d \in Direction |-> "off"] /\ nread = [d \in Direction |-> 0]
  BY <1>1, Zenon DEF Init
<1> QED BY <1>1 DEF CrashInv

LEMMA NextCrash == TypeInv /\ CrashInv /\ [Next]_vars => CrashInv'
<1> SUFFICES ASSUME TypeInv, CrashInv, [Next]_vars, NEW e \in Direction
             PROVE  /\ pc'[e] = "crashed" => nread'[e] = -1
                    /\ nread'[e] = -1 => link'[Source(e)] = "gone"
  BY DEF CrashInv
<1>1. CASE UNCHANGED <<relayVars, link>>
  BY <1>1 DEF CrashInv, relayVars
<1>2. ASSUME NEW d \in Direction, Relay(d)
      PROVE  /\ pc'[e] = "crashed" => nread'[e] = -1
             /\ nread'[e] = -1 => link'[Source(e)] = "gone"
  <2>1. link' = link
    BY <1>2 DEF Relay, ReadFrame, ReadFails, Classify, Fuzz, Write, Clear, netVars
  <2>2. CASE e # d
    BY <1>2, <2>1, <2>2, OtherRelay DEF CrashInv
  <2>3. CASE e = d /\ ReadFrame(d)
    <3>1. Head(rx[d]) \in Frame
      BY <2>3, HeadTailProperties DEF ReadFrame, TypeInv, NetType
    <3>2. Min2(Head(rx[d]).len, MAX_ETH_LEN) # -1
      BY <3>1, CutFits, FrameAssumption, BufferAssumption
    <3> QED BY <2>3, <3>2 DEF ReadFrame, Goto, AfterRead, TypeInv, RelayType
  <2>4. CASE e = d /\ ~ReadFrame(d)
    BY <1>2, <2>1, <2>4
       DEF Relay, ReadFails, Classify, Fuzz, Write, Clear, Goto, AfterRead, CrashInv,
           TypeInv, RelayType
  <2> QED BY <2>2, <2>3, <2>4
<1>3. CASE Fork
  BY <1>3 DEF Fork, CrashInv, TypeInv, RelayType, netVars
<1>4. ASSUME Startup PROVE UNCHANGED <<relayVars, link>> \/ Fork
  BY <1>4 DEF Startup, ParseOption, UseDefaults, TunAlloc, netVars
<1>5. ASSUME NEW r \in Role, LinkChange(r)
      PROVE  /\ pc'[e] = "crashed" => nread'[e] = -1
             /\ nread'[e] = -1 => link'[Source(e)] = "gone"
  BY <1>5 DEF LinkChange, CrashInv, TypeInv, NetType, relayVars, Role
<1>6. ASSUME NEW d \in Direction, NEW f \in Frame, Arrive(d, f)
      PROVE  UNCHANGED <<relayVars, link>>
  BY <1>6 DEF Arrive
<1> QED BY <1>1, <1>2, <1>3, <1>4, <1>5, <1>6 DEF Next, Network, vars, netVars

\* A relay crashes only when the device it reads was deleted.
THEOREM CrashesAreConfined == Spec => []CrashIsOwnDevice
<1>1. CrashInv => CrashIsOwnDevice
  BY DEF CrashInv, CrashIsOwnDevice
<1> QED BY <1>1, InitCrash, NextCrash, TypeInvariant, PTL DEF Spec

--------------------------------------------------------------------------------
(***************************************************************************)
(* Refinement: the write of a frame is the tunnel's delivery or its loss,  *)
(* an arrival is an arrival, and every other step stutters.                *)
(***************************************************************************)

\* Steps that change no queue as the tunnel sees it.
LEMMA Stutter ==
  ASSUME tx' = tx,
         \A d \in Direction :
           (IF InFlight(d) THEN <<orig[d]>> \o rx[d] ELSE rx[d])'
             = IF InFlight(d) THEN <<orig[d]>> \o rx[d] ELSE rx[d]
  PROVE  UNCHANGED T!vars
BY Zenon DEF T!vars, Pending

\* One queue changes: the tunnel's view of the other one does not.
LEMMA OtherPending ==
  ASSUME TypeInv, NEW d \in Direction, Relay(d), NEW e \in Direction, e # d
  PROVE  Pending'[e] = Pending[e] /\ tx'[e] = tx[e]
<1>1. rx'[e] = rx[e] /\ tx'[e] = tx[e]
  BY DEF Relay, ReadFrame, ReadFails, Classify, Fuzz, Write, Clear, TypeInv, NetType, netVars
<1>2. InFlight(e)' = InFlight(e) /\ orig'[e] = orig[e]
  BY OtherRelay DEF InFlight
<1> QED BY <1>1, <1>2 DEF Pending

\* A step of a relay that is not its write leaves its queue as it was.
LEMMA QuietStep ==
  ASSUME TypeInv, NEW d \in Direction, Relay(d), ~Write(d)
  PROVE  Pending'[d] = Pending[d] /\ tx' = tx
<1>1. CASE ReadFrame(d)
  <2> DEFINE f == Head(rx[d])
  <2>1. f \in Frame /\ rx[d] = <<f>> \o Tail(rx[d])
    BY <1>1, HeadTailProperties DEF ReadFrame, TypeInv, NetType
  <2>2. Min2(f.len, MAX_ETH_LEN) # -1
    BY <2>1, CutFits, FrameAssumption, BufferAssumption
  <2>3. InFlight(d)' /\ ~InFlight(d)
    BY <1>1, <2>2 DEF ReadFrame, Goto, AfterRead, InFlight, TypeInv, RelayType
  <2>4. orig'[d] = f /\ rx'[d] = Tail(rx[d]) /\ tx' = tx
    BY <1>1 DEF ReadFrame, TypeInv, RelayType, NetType
  <2> QED BY <2>1, <2>3, <2>4 DEF Pending
<1>2. CASE ~ReadFrame(d)
  <2>1. rx' = rx /\ tx' = tx /\ orig'[d] = orig[d]
    BY <1>2 DEF Relay, ReadFails, Classify, Fuzz, Clear, netVars
  <2>2. InFlight(d)' = InFlight(d)
    BY <1>2 DEF Relay, ReadFails, Classify, Fuzz, Clear, Goto, AfterRead, InFlight, TypeInv, RelayType
  <2> QED BY <2>1, <2>2 DEF Pending
<1> QED BY <1>1, <1>2

\* What write() does to the queues: nothing after a failed read, or the frame the
\* relay holds leaves its queue, and is appended to tx or not.
TakesHead(d) ==
  /\ InFlight(d) /\ Pending[d] # <<>> /\ Head(Pending[d]) = orig[d]
  /\ Pending' = [Pending EXCEPT ![d] = Tail(@)]
AppendsHeld(d) ==
  /\ tx' = [tx EXCEPT ![d] = Append(@, Held(d))]
  /\ tx'[d] # <<>> /\ tx'[d][Len(tx'[d])] = Held(d)

LEMMA WriteEffect ==
  ASSUME TypeInv, NEW d \in Direction, Write(d)
  PROVE  \/ UNCHANGED <<Pending, tx>>
         \/ TakesHead(d) /\ tx' = tx /\ link[Sink(d)] # "up"
         \/ TakesHead(d) /\ AppendsHeld(d)
<1>1. \A e \in Direction : e # d => Pending'[e] = Pending[e]
  BY OtherPending DEF Relay
<1>2. DOMAIN Pending = Direction /\ DOMAIN Pending' = Direction
      /\ Pending = [e \in Direction |-> Pending[e]] /\ Pending' = [e \in Direction |-> Pending'[e]]
  BY DEF Pending
<1>3. Pending'[d] = rx[d]
  BY DEF Write, Goto, InFlight, TypeInv, RelayType, Pending
<1>4. CASE ~InFlight(d)
  <2>1. Pending'[d] = Pending[d] /\ tx' = tx
    BY <1>3, <1>4 DEF Pending, InFlight, Write
  <2>2. Pending' = Pending
    BY <1>1, <1>2, <2>1
  <2> QED BY <2>1, <2>2
<1>5. CASE InFlight(d)
  <2>1. orig[d] \in Frame /\ rx[d] \in Seq(Frame) /\ Pending[d] = <<orig[d]>> \o rx[d]
    BY <1>5 DEF TypeInv, RelayType, NetType, Pending
  <2>2. Pending[d] # <<>> /\ Head(Pending[d]) = orig[d] /\ Tail(Pending[d]) = rx[d]
    BY <2>1
  <2>3. Pending' = [Pending EXCEPT ![d] = Tail(@)]
    BY <1>1, <1>2, <1>3, <2>2
  <2>4. TakesHead(d)
    BY <1>5, <2>2, <2>3 DEF TakesHead
  <2>5. CASE tx' = [tx EXCEPT ![d] = Append(@, Held(d))]
    <3>1. tx[d] \in Seq(Written) /\ Held(d) \in Written /\ tx'[d] = Append(tx[d], Held(d))
      BY <1>5, <2>5, HeldWritten DEF TypeInv, NetType, InFlight
    <3>2. tx'[d] # <<>> /\ tx'[d][Len(tx'[d])] = Held(d)
      BY <3>1
    <3> QED BY <2>4, <2>5, <3>2, Zenon DEF AppendsHeld
  <2>6. \/ tx' = tx /\ link[Sink(d)] # "up"
        \/ tx' = [tx EXCEPT ![d] = Append(@, Held(d))]
    BY <1>5 DEF Write, InFlight
  <2> QED BY <2>4, <2>5, <2>6, Zenon
<1> QED BY <1>4, <1>5, Zenon

LEMMA WriteImplements ==
  ASSUME TypeInv, IntegrityInv, NEW d \in Direction, Write(d)
  PROVE  T!Deliver(d) \/ T!Lose(d) \/ UNCHANGED T!vars
<1>1. CASE UNCHANGED <<Pending, tx>>
  BY <1>1 DEF T!vars
<1>2. CASE TakesHead(d) /\ tx' = tx
  BY <1>2 DEF TakesHead, T!Lose
<1>3. CASE TakesHead(d) /\ AppendsHeld(d)
  <2>1. T!Allowed(d, orig[d], Held(d))
    BY <1>3, IntactIsAllowed DEF TakesHead, IntegrityInv
  <2> QED BY <1>3, <2>1 DEF TakesHead, AppendsHeld, T!Deliver, T!Newest
<1> QED BY <1>1, <1>2, <1>3, WriteEffect

LEMMA ArriveImplements ==
  ASSUME TypeInv, NEW d \in Direction, NEW f \in Frame, Arrive(d, f)
  PROVE  T!Arrive(d, f)
<1>1. \A e \in Direction : InFlight(e)' = InFlight(e) /\ orig'[e] = orig[e]
  BY DEF Arrive, InFlight, relayVars
<1>2. rx' = [rx EXCEPT ![d] = Append(@, f)] /\ tx' = tx
  BY DEF Arrive
<1>3. ASSUME NEW e \in Direction, e # d
      PROVE  Pending'[e] = Pending[e]
  BY <1>1, <1>2, <1>3 DEF Pending, TypeInv, NetType
<1>4. Pending'[d] = Append(Pending[d], f)
  <2>1. rx[d] \in Seq(Frame) /\ rx'[d] = Append(rx[d], f)
    BY <1>2 DEF TypeInv, NetType
  <2>2. CASE InFlight(d)
    <3>1. <<orig[d]>> \o Append(rx[d], f) = Append(<<orig[d]>> \o rx[d], f)
      <4>1. orig[d] \in Frame
        BY <2>2 DEF TypeInv, RelayType
      <4> QED BY <2>1, <4>1
    <3> QED BY <1>1, <2>1, <2>2, <3>1 DEF Pending
  <2>3. CASE ~InFlight(d)
    BY <1>1, <2>1, <2>3 DEF Pending
  <2> QED BY <2>2, <2>3
<1>5. Pending' = [Pending EXCEPT ![d] = Append(@, f)]
  <2>1. Pending = [e \in Direction |-> Pending[e]] /\ Pending' = [e \in Direction |-> Pending'[e]]
    BY DEF Pending
  <2> QED BY <1>3, <1>4, <2>1
<1> QED BY <1>2, <1>5 DEF T!Arrive

LEMMA InitImplements == Init => T!Init
<1> SUFFICES ASSUME Init PROVE T!Init
  OBVIOUS
<1>1. /\ \A d \in Direction : pc[d] = "off"
      /\ rx = [d \in Direction |-> <<>>] /\ tx = [d \in Direction |-> <<>>]
  BY DEF Init
<1>2. Pending = [d \in Direction |-> <<>>]
  BY <1>1 DEF Pending, InFlight
<1> QED BY <1>1, <1>2 DEF T!Init, T!Direction, Direction

\* Only a write and an arrival change what the tunnel is about.
LEMMA NextQueues ==
  ASSUME TypeInv, StartupInv, [Next]_vars
  PROVE  \/ UNCHANGED T!vars
         \/ \E d \in Direction : Write(d)
         \/ \E d \in Direction, f \in Frame : Arrive(d, f)
<1>1. ASSUME UNCHANGED <<relayVars, rx, tx>> PROVE UNCHANGED T!vars
  BY <1>1 DEF relayVars, T!vars, Pending, InFlight
<1>2. CASE Startup
  <2>1. CASE Fork
    <3>1. \A d \in Direction : ~InFlight(d) /\ ~InFlight(d)'
      BY <2>1 DEF Fork, InFlight, StartupInv, TypeInv, RelayType
    <3>2. rx' = rx /\ tx' = tx
      BY <2>1 DEF Fork, netVars
    <3> QED BY <3>1, <3>2, Stutter
  <2>2. CASE ~Fork
    BY <1>1, <1>2, <2>2 DEF Startup, ParseOption, UseDefaults, TunAlloc, netVars
  <2> QED BY <2>1, <2>2
<1>3. ASSUME NEW d \in Direction, Relay(d), ~Write(d)
      PROVE  UNCHANGED T!vars
  <2>1. \A e \in Direction : Pending'[e] = Pending[e]
    BY <1>3, OtherPending, QuietStep
  <2>2. Pending' = Pending /\ tx' = tx
    BY <1>3, <2>1, QuietStep DEF Pending
  <2> QED BY <2>2 DEF T!vars
<1>4. CASE UNCHANGED vars
  BY <1>1, <1>4 DEF vars, netVars
<1>5. ASSUME NEW r \in Role, LinkChange(r) PROVE UNCHANGED T!vars
  BY <1>1, <1>5 DEF LinkChange
<1> QED BY <1>2, <1>3, <1>4, <1>5 DEF Next, Network

LEMMA NextImplements ==
  TypeInv /\ StartupInv /\ IntegrityInv /\ [Next]_vars => [T!Next]_T!vars
<1> SUFFICES ASSUME TypeInv, StartupInv, IntegrityInv, [Next]_vars
             PROVE  T!Next \/ UNCHANGED T!vars
  OBVIOUS
<1>1. ASSUME NEW d \in Direction, Write(d) PROVE T!Next \/ UNCHANGED T!vars
  BY <1>1, WriteImplements DEF T!Next, T!Direction, Direction
<1>2. ASSUME NEW d \in Direction, NEW f \in Frame, Arrive(d, f) PROVE T!Next
  BY <1>2, ArriveImplements DEF T!Next, T!Direction, Direction
<1> QED BY <1>1, <1>2, NextQueues

\* The proxy fuzzer is a tunnel that may lose frames but neither reorders,
\* duplicates nor invents them, and alters nothing but the fuzzable bits.
THEOREM Refinement == Spec => ImplementsTunnel
BY InitImplements, NextImplements, TypeInvariant, StartupInvariant, IntegrityInvariant, PTL
   DEF Spec, ImplementsTunnel, T!Spec

--------------------------------------------------------------------------------
(***************************************************************************)
(* Counting frames: what arrived was written, is pending or was lost at a  *)
(* device that was not up.                                                 *)
(***************************************************************************)

LEMMA QueueTypes ==
  ASSUME TypeInv, NEW d \in Direction
  PROVE  /\ Pending[d] \in Seq(Frame) /\ tx[d] \in Seq(Written)
         /\ Len(Pending[d]) \in Nat /\ Len(tx[d]) \in Nat /\ arrived[d] \in Nat
<1>1. Pending[d] \in Seq(Frame)
  BY DEF TypeInv, RelayType, NetType, Pending
<1>2. tx[d] \in Seq(Written) /\ arrived[d] \in Nat
  BY DEF TypeInv, NetType
<1> QED BY <1>1, <1>2

\* A frame that is written or lost leaves the queue it was in, one that arrives
\* is added to it; the queue of the other direction stays.
LEMMA WriteCounts ==
  ASSUME TypeInv, NEW d \in Direction, Write(d)
  PROVE  /\ \A e \in Direction : e # d => Pending'[e] = Pending[e] /\ tx'[e] = tx[e]
         /\ \/ Pending'[d] = Pending[d] /\ tx'[d] = tx[d]
            \/ /\ Len(Pending'[d]) = Len(Pending[d]) - 1
               /\ tx'[d] = tx[d] /\ link[Sink(d)] # "up"
            \/ /\ Len(Pending'[d]) = Len(Pending[d]) - 1
               /\ Len(tx'[d]) = Len(tx[d]) + 1
<1>1. \A e \in Direction : e # d => Pending'[e] = Pending[e] /\ tx'[e] = tx[e]
  BY OtherPending DEF Relay
<1>2. ASSUME TakesHead(d) PROVE Len(Pending'[d]) = Len(Pending[d]) - 1
  <2>1. Pending[d] \in Seq(Frame) /\ Pending[d] # <<>> /\ Pending'[d] = Tail(Pending[d])
    BY <1>2, QueueTypes DEF TakesHead, Pending
  <2> QED BY <2>1
<1>3. ASSUME TakesHead(d), AppendsHeld(d) PROVE Len(tx'[d]) = Len(tx[d]) + 1
  <2>1. Held(d) \in Written /\ tx[d] \in Seq(Written)
    BY <1>3, HeldWritten DEF TakesHead, InFlight, TypeInv, NetType
  <2>2. tx'[d] = Append(tx[d], Held(d))
    BY <1>3 DEF AppendsHeld, TypeInv, NetType
  <2> QED BY <2>1, <2>2
<1> QED BY <1>1, <1>2, <1>3, WriteEffect

LEMMA ArriveCounts ==
  ASSUME TypeInv, NEW d \in Direction, NEW f \in Frame, Arrive(d, f)
  PROVE  /\ tx' = tx /\ arrived'[d] = arrived[d] + 1
         /\ Len(Pending'[d]) = Len(Pending[d]) + 1
         /\ \A e \in Direction : e # d => Pending'[e] = Pending[e] /\ arrived'[e] = arrived[e]
<1>1. tx' = tx /\ Pending' = [Pending EXCEPT ![d] = Append(@, f)]
  BY ArriveImplements DEF T!Arrive
<1>2. Pending'[d] = Append(Pending[d], f) /\ \A e \in Direction : e # d => Pending'[e] = Pending[e]
  BY <1>1 DEF Pending
<1>3. Len(Pending'[d]) = Len(Pending[d]) + 1
  BY <1>2, QueueTypes
<1> QED BY <1>1, <1>2, <1>3 DEF Arrive, TypeInv, NetType

\* Without faults of the links both devices stay up.
StaysUp == LinkFaults \/ \A r \in Role : link[r] = "up"

LEMMA InitCounts == Init => StaysUp /\ FramesAreCounted
<1> SUFFICES ASSUME Init PROVE StaysUp /\ FramesAreCounted
  OBVIOUS
<1>1. \A d \in Direction : Pending[d] = <<>> /\ tx[d] = <<>>
  BY InitImplements, Zenon DEF T!Init, T!Direction, Direction
<1>2. arrived = [d \in Direction |-> 0] /\ link = [r \in Role |-> "up"]
  BY Zenon DEF Init
<1>3. StaysUp
  BY <1>2, Zenon DEF StaysUp
<1>4. \A d \in Direction : Len(tx[d]) = 0 /\ Len(Pending[d]) = 0 /\ arrived[d] = 0
  BY <1>1, <1>2
<1>5. \A d \in Direction : Len(tx[d]) + Len(Pending[d]) = arrived[d] /\ arrived[d] <= arrived[d]
  <2>1. 0 + 0 = 0 /\ 0 <= 0
    OBVIOUS
  <2> QED BY <1>4, <2>1, Zenon
<1>6. FramesAreCounted
  BY <1>5, Zenon DEF FramesAreCounted
<1> QED BY <1>3, <1>6

\* The lengths that FramesAreCounted compares are numbers.
LengthTypes == \A d \in Direction : Len(Pending[d]) \in Nat /\ Len(tx[d]) \in Nat
LEMMA LengthsAreNumbers == TypeInv => LengthTypes
BY QueueTypes DEF LengthTypes
LEMMA LengthsStayNumbers == TypeInv' => LengthTypes'
BY LengthsAreNumbers, PTL

LEMMA NextCounts ==
  TypeInv /\ TypeInv' /\ StartupInv /\ StaysUp /\ FramesAreCounted /\ [Next]_vars
    => StaysUp' /\ FramesAreCounted'
<1> SUFFICES ASSUME TypeInv, TypeInv', StartupInv, StaysUp, FramesAreCounted, [Next]_vars
             PROVE  StaysUp' /\ FramesAreCounted'
  OBVIOUS
<1>1. StaysUp'
  BY DEF StaysUp, Next, Startup, ParseOption, UseDefaults, TunAlloc, Fork, Relay, ReadFrame,
         ReadFails, Classify, Fuzz, Write, Clear, Network, Arrive, LinkChange, vars, netVars
<1>2. \A d \in Direction : arrived[d] \in Nat
  BY DEF TypeInv, NetType
<1>3. LengthTypes /\ LengthTypes'
  BY LengthsAreNumbers, LengthsStayNumbers
<1> DEFINE n(d) == Len(Pending[d])
           m(d) == Len(tx[d])
<1>4. \A d \in Direction : /\ n(d) \in Nat /\ m(d) \in Nat /\ n(d)' \in Nat /\ m(d)' \in Nat
                           /\ m(d) + n(d) <= arrived[d]
                           /\ LinkFaults \/ m(d) + n(d) = arrived[d]
  BY <1>3 DEF LengthTypes, FramesAreCounted
<1>5. SUFFICES ASSUME NEW e \in Direction
               PROVE  /\ m(e)' + n(e)' <= arrived'[e]
                      /\ LinkFaults \/ m(e)' + n(e)' = arrived'[e]
  BY <1>1 DEF FramesAreCounted
<1>6. ASSUME NEW d \in Direction, Write(d)
      PROVE  /\ m(e)' + n(e)' <= arrived'[e]
             /\ LinkFaults \/ m(e)' + n(e)' = arrived'[e]
  <2>1. arrived' = arrived /\ (LinkFaults \/ link[Sink(d)] = "up")
    BY <1>6 DEF Write, Sink, Role, StaysUp
  <2>2. CASE n(e)' = n(e) /\ m(e)' = m(e)
    BY <1>4, <2>1, <2>2
  <2>3. CASE n(e)' = n(e) - 1 /\ m(e)' = m(e) /\ LinkFaults
    <3> HIDE DEF n, m
    <3> QED BY <1>2, <1>4, <2>1, <2>3
  <2>4. CASE n(e)' = n(e) - 1 /\ m(e)' = m(e) + 1
    <3> HIDE DEF n, m
    <3> QED BY <1>2, <1>4, <2>1, <2>4
  <2>5. CASE e # d
    BY <1>6, <2>2, <2>5, WriteCounts
  <2>6. CASE e = d
    BY <1>6, <2>1, <2>2, <2>3, <2>4, <2>6, WriteCounts
  <2> QED BY <2>5, <2>6
<1>7. ASSUME NEW d \in Direction, NEW f \in Frame, Arrive(d, f)
      PROVE  /\ m(e)' + n(e)' <= arrived'[e]
             /\ LinkFaults \/ m(e)' + n(e)' = arrived'[e]
  <2>1. m(e)' = m(e)
    BY <1>7, ArriveCounts
  <2>2. \/ n(e)' = n(e) /\ arrived'[e] = arrived[e]
        \/ n(e)' = n(e) + 1 /\ arrived'[e] = arrived[e] + 1
    BY <1>7, ArriveCounts
  <2> HIDE DEF n, m
  <2> QED BY <1>2, <1>4, <2>1, <2>2
<1>8. ASSUME UNCHANGED T!vars, ~(\E d \in Direction, f \in Frame : Arrive(d, f))
      PROVE  /\ m(e)' + n(e)' <= arrived'[e]
             /\ LinkFaults \/ m(e)' + n(e)' = arrived'[e]
  <2>1. arrived' = arrived
    BY <1>8 DEF Next, Startup, ParseOption, UseDefaults, TunAlloc, Fork, Relay, ReadFrame,
         ReadFails, Classify, Fuzz, Write, Clear, Network, LinkChange, vars, netVars
  <2> QED BY <1>4, <1>8, <2>1 DEF T!vars
<1> QED BY <1>6, <1>7, <1>8, NextQueues

\* No frame is invented or written twice, and while the devices stay up none is lost.
THEOREM EveryFrameCounts == Spec => []FramesAreCounted
BY InitCounts, NextCounts, TypeInvariant, StartupInvariant, PTL DEF Spec

LEMMA NextLoses ==
  ASSUME TypeInv, StartupInv, [Next]_vars, NEW e \in Direction,
         Len(Pending'[e]) < Len(Pending[e]), UNCHANGED tx[e]
  PROVE  link[Sink(e)] # "up"
<1>0. Len(Pending[e]) \in Nat /\ Len(tx[e]) \in Nat
  BY QueueTypes
<1>1. CASE UNCHANGED T!vars
  BY <1>0, <1>1 DEF T!vars
<1>2. ASSUME NEW d \in Direction, Write(d) PROVE link[Sink(e)] # "up"
  BY <1>0, <1>2, WriteCounts
<1>3. ASSUME NEW d \in Direction, NEW f \in Frame, Arrive(d, f) PROVE FALSE
  BY <1>0, <1>3, ArriveCounts
<1> QED BY <1>1, <1>2, <1>3, NextQueues

\* A frame that was read is lost only at a device that is not up.
THEOREM LostAtTheDevice == Spec => LosesOnlyWhenDown
<1>1. TypeInv /\ StartupInv /\ [Next]_vars =>
        [\A d \in Direction : Len(Pending[d])' < Len(Pending[d]) /\ UNCHANGED tx[d]
                                => link[Sink(d)] # "up"]_vars
  BY NextLoses
<1> QED BY <1>1, TypeInvariant, StartupInvariant, PTL DEF Spec, LosesOnlyWhenDown
================================================================================
