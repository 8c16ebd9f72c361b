-------------------------- MODULE FrameTunnels_proofs --------------------------
(***************************************************************************)
(* Theorems about the proxy fuzzer and the two tunnels together: whichever *)
(* program runs, it runs between two different devices and implements the  *)
(* tunnel of its own kind.  Most steps are steps of ProxyFuzzer, for which *)
(* ProxyFuzzer_proofs has the lemmas.                                      *)
(***************************************************************************)
EXTENDS FrameTunnels, ProxyFuzzer_proofs

-----------------------------------------------------------------------------
(***************************************************************************)
(* The layout and the fuzzable bits as each tunnel has them.               *)
(***************************************************************************)

LEMMA LayoutT ==
  /\ T!IB_BTH_OFFSET = 46 /\ T!IB_SMPT_OFFSET = 47
  /\ T!IB_DEST_QP_B1_OFFSET = 51 /\ T!IB_DEST_QP_B3_OFFSET = 53
  /\ T!ETH_TYPE_OFFSET = 16 /\ T!VER_IHL_OFFSET = 18
  /\ T!PROTOCOL_OFFSET = 27 /\ T!DEST_PORT_OFFSET = 40
BY DEF
  T!IB_DEST_QP_B3_OFFSET, T!IB_DEST_QP_B2_OFFSET, T!IB_DEST_QP_B1_OFFSET,
  T!IB_FR_BR_RESERVED_OFFSET, T!IB_PKEY_OFFSET_B2, T!IB_PKEY_OFFSET_B1, T!IB_SMPT_OFFSET,
  T!IB_OPCODE_OFFSET, T!IB_BTH_OFFSET, T!UDP_CHECKSUM_OFFSET, T!UDP_LEN_OFFSET,
  T!DEST_PORT_OFFSET, T!SRC_PORT_OFFSET, T!UDP_HDR_OFFSET, T!DEST_IP_ADDR_OFFSET,
  T!SRC_IP_ADDR_OFFSET, T!HDR_CHECKSUM_OFFSET, T!PROTOCOL_OFFSET, T!TTL_OFFSET,
  T!FLAGS_FRAG_OFFSET_OFFSET, T!IDENTIFICATION_OFFSET, T!TOTAL_LEN_OFFSET, T!DSCP_ECN_OFFSET,
  T!VER_IHL_OFFSET, T!IP_HDR_OFFSET, T!ETH_TYPE_OFFSET, T!SRC_MAC_OFFSET, T!DEST_MAC_OFFSET,
  T!TAP_FRAME_OFFSET

LEMMA LayoutPlain ==
  /\ PlainTunnel!IB_BTH_OFFSET = 46 /\ PlainTunnel!IB_SMPT_OFFSET = 47
  /\ PlainTunnel!IB_DEST_QP_B1_OFFSET = 51 /\ PlainTunnel!IB_DEST_QP_B3_OFFSET = 53
  /\ PlainTunnel!ETH_TYPE_OFFSET = 16 /\ PlainTunnel!VER_IHL_OFFSET = 18
  /\ PlainTunnel!PROTOCOL_OFFSET = 27 /\ PlainTunnel!DEST_PORT_OFFSET = 40
BY DEF
  PlainTunnel!IB_DEST_QP_B3_OFFSET, PlainTunnel!IB_DEST_QP_B2_OFFSET,
  PlainTunnel!IB_DEST_QP_B1_OFFSET, PlainTunnel!IB_FR_BR_RESERVED_OFFSET,
  PlainTunnel!IB_PKEY_OFFSET_B2, PlainTunnel!IB_PKEY_OFFSET_B1, PlainTunnel!IB_SMPT_OFFSET,
  PlainTunnel!IB_OPCODE_OFFSET, PlainTunnel!IB_BTH_OFFSET, PlainTunnel!UDP_CHECKSUM_OFFSET,
  PlainTunnel!UDP_LEN_OFFSET, PlainTunnel!DEST_PORT_OFFSET, PlainTunnel!SRC_PORT_OFFSET,
  PlainTunnel!UDP_HDR_OFFSET, PlainTunnel!DEST_IP_ADDR_OFFSET, PlainTunnel!SRC_IP_ADDR_OFFSET,
  PlainTunnel!HDR_CHECKSUM_OFFSET, PlainTunnel!PROTOCOL_OFFSET, PlainTunnel!TTL_OFFSET,
  PlainTunnel!FLAGS_FRAG_OFFSET_OFFSET, PlainTunnel!IDENTIFICATION_OFFSET,
  PlainTunnel!TOTAL_LEN_OFFSET, PlainTunnel!DSCP_ECN_OFFSET, PlainTunnel!VER_IHL_OFFSET,
  PlainTunnel!IP_HDR_OFFSET, PlainTunnel!ETH_TYPE_OFFSET, PlainTunnel!SRC_MAC_OFFSET,
  PlainTunnel!DEST_MAC_OFFSET, PlainTunnel!TAP_FRAME_OFFSET

LEMMA LayoutBth ==
  /\ BthTunnel!IB_BTH_OFFSET = 46 /\ BthTunnel!IB_SMPT_OFFSET = 47
  /\ BthTunnel!IB_DEST_QP_B1_OFFSET = 51 /\ BthTunnel!IB_DEST_QP_B3_OFFSET = 53
  /\ BthTunnel!ETH_TYPE_OFFSET = 16 /\ BthTunnel!VER_IHL_OFFSET = 18
  /\ BthTunnel!PROTOCOL_OFFSET = 27 /\ BthTunnel!DEST_PORT_OFFSET = 40
BY DEF
  BthTunnel!IB_DEST_QP_B3_OFFSET, BthTunnel!IB_DEST_QP_B2_OFFSET,
  BthTunnel!IB_DEST_QP_B1_OFFSET, BthTunnel!IB_FR_BR_RESERVED_OFFSET,
  BthTunnel!IB_PKEY_OFFSET_B2, BthTunnel!IB_PKEY_OFFSET_B1, BthTunnel!IB_SMPT_OFFSET,
  BthTunnel!IB_OPCODE_OFFSET, BthTunnel!IB_BTH_OFFSET, BthTunnel!UDP_CHECKSUM_OFFSET,
  BthTunnel!UDP_LEN_OFFSET, BthTunnel!DEST_PORT_OFFSET, BthTunnel!SRC_PORT_OFFSET,
  BthTunnel!UDP_HDR_OFFSET, BthTunnel!DEST_IP_ADDR_OFFSET, BthTunnel!SRC_IP_ADDR_OFFSET,
  BthTunnel!HDR_CHECKSUM_OFFSET, BthTunnel!PROTOCOL_OFFSET, BthTunnel!TTL_OFFSET,
  BthTunnel!FLAGS_FRAG_OFFSET_OFFSET, BthTunnel!IDENTIFICATION_OFFSET,
  BthTunnel!TOTAL_LEN_OFFSET, BthTunnel!DSCP_ECN_OFFSET, BthTunnel!VER_IHL_OFFSET,
  BthTunnel!IP_HDR_OFFSET, BthTunnel!ETH_TYPE_OFFSET, BthTunnel!SRC_MAC_OFFSET,
  BthTunnel!DEST_MAC_OFFSET, BthTunnel!TAP_FRAME_OFFSET

\* The three tunnels tell RDMA packets from others in the same way.
LEMMA SameClasses ==
  ASSUME NEW b, NEW n
  PROVE  /\ PlainTunnel!CheckBufferType(b, n) = T!CheckBufferType(b, n)
         /\ BthTunnel!CheckBufferType(b, n) = T!CheckBufferType(b, n)
<1>1. /\ PlainTunnel!IsIPv4(b) <=> T!IsIPv4(b)
      /\ PlainTunnel!IsOptionlessUdp(b) <=> T!IsOptionlessUdp(b)
      /\ PlainTunnel!ToRocePort(b) <=> T!ToRocePort(b)
  BY LayoutT, LayoutPlain
     DEF PlainTunnel!IsIPv4, T!IsIPv4, PlainTunnel!IsOptionlessUdp, T!IsOptionlessUdp,
         PlainTunnel!ToRocePort, T!ToRocePort
<1>2. /\ BthTunnel!IsIPv4(b) <=> T!IsIPv4(b)
      /\ BthTunnel!IsOptionlessUdp(b) <=> T!IsOptionlessUdp(b)
      /\ BthTunnel!ToRocePort(b) <=> T!ToRocePort(b)
  BY LayoutT, LayoutBth
     DEF BthTunnel!IsIPv4, T!IsIPv4, BthTunnel!IsOptionlessUdp, T!IsOptionlessUdp,
         BthTunnel!ToRocePort, T!ToRocePort
<1>3. PlainTunnel!IB_BTH_OFFSET = T!IB_BTH_OFFSET /\ BthTunnel!IB_BTH_OFFSET = T!IB_BTH_OFFSET
  BY LayoutT, LayoutPlain, LayoutBth
<1> QED BY <1>1, <1>2, <1>3
           DEF PlainTunnel!CheckBufferType, BthTunnel!CheckBufferType, T!CheckBufferType

LEMMA PlainFuzzable == \A i \in Int : PlainTunnel!Fuzzable(i) = {}
BY LayoutPlain DEF PlainTunnel!Fuzzable

LEMMA BthFuzzable ==
  \A i \in Int : BthTunnel!Fuzzable(i) = IF i \notin 46..57 \/ i \in 51..53 THEN {}
                                         ELSE IF i = 47 THEN 4..7 ELSE 0..7
BY LayoutBth, Offsets DEF BthTunnel!Fuzzable

\* The bits that the program that runs may mutate.
OwnFuzzable(i) ==
  IF program = "tunnelnofuzz" THEN PlainTunnel!Fuzzable(i)
  ELSE IF program = "taptunnel" THEN BthTunnel!Fuzzable(i) ELSE T!Fuzzable(i)

LEMMA OwnIsLess == \A i \in Int : OwnFuzzable(i) \subseteq T!Fuzzable(i)
<1> SUFFICES ASSUME NEW i \in Int PROVE OwnFuzzable(i) \subseteq T!Fuzzable(i)
  OBVIOUS
<1>1. PlainTunnel!Fuzzable(i) \subseteq T!Fuzzable(i)
  BY PlainFuzzable
<1>2. BthTunnel!Fuzzable(i) \subseteq T!Fuzzable(i)
  <2>1. CASE i \in 46..57 /\ i \notin 51..53
    BY <2>1, BthFuzzable, FuzzableBits
  <2>2. CASE i \notin 46..57 \/ i \in 51..53
    BY <2>2, BthFuzzable
  <2> QED BY <2>1, <2>2
<1> QED BY <1>1, <1>2 DEF OwnFuzzable

\* One turn of the loop of taptunnel.c alters fuzzable bits of the BTH only.
LEMMA FuzzFieldInBth ==
  ASSUME NEW buf \in Buffer, NEW b \in FuzzField(buf)
  PROVE  /\ b \in Buffer
         /\ \A j \in 0..MAX_ETH_LEN - 1 : Xor(b[j], buf[j]) \subseteq BthTunnel!Fuzzable(j)
<1>1. b \in Buffer /\ \A j \in 0..MAX_ETH_LEN - 1 : Xor(b[j], buf[j]) \subseteq T!Fuzzable(j)
  BY FuzzFieldBits
<1>2. PICK k \in 46..57 : \A j \in 0..MAX_ETH_LEN - 1 : j # k => b[j] = buf[j]
  BY FuzzFieldOne
<1>3. ASSUME NEW j \in 0..MAX_ETH_LEN - 1
      PROVE  Xor(b[j], buf[j]) \subseteq BthTunnel!Fuzzable(j)
  <2>1. j \in Int
    BY BufferAssumption
  <2>2. CASE j = k
    <3>1. BthTunnel!Fuzzable(j) = T!Fuzzable(j)
      <4>1. j \in 46..57 /\ j \in 46..85
        BY <2>2
      <4>2. BthTunnel!Fuzzable(j) = IF j \in 51..53 THEN {} ELSE IF j = 47 THEN 4..7 ELSE 0..7
        BY <2>1, <4>1, BthFuzzable, Zenon
      <4>3. T!Fuzzable(j) = IF j \in 51..53 THEN {} ELSE IF j = 47 THEN 4..7 ELSE 0..7
        BY <2>1, <4>1, FuzzableBits, Zenon
      <4> QED BY <4>2, <4>3, Zenon
    <3> QED BY <1>1, <3>1
  <2>3. CASE j # k
    BY <1>2, <2>3 DEF Xor
  <2> QED BY <2>2, <2>3
<1> QED BY <1>1, <1>3

-----------------------------------------------------------------------------
(***************************************************************************)
(* The steps of the programs: those that proxy-f.c shares with the tunnels *)
(* are steps of ProxyFuzzer.                                               *)
(***************************************************************************)

SharedRelay(d) == ReadFrame(d) \/ ReadFails(d) \/ Classify(d) \/ Write(d) \/ Clear(d)
SharedStep == AttachAndFork \/ Network \/ UNCHANGED vars \/ \E d \in Direction : SharedRelay(d)

LEMMA ProgramSteps ==
  ASSUME [ProgramNext]_programVars
  PROVE  /\ program' = program
         /\ \/ program = "proxy-f" /\ [Next]_vars
            \/ SharedStep
            \/ ConfiguredNames
            \/ program = "tunnelnofuzz" /\ \E d \in Direction : OnlyClassify(d)
            \/ program = "taptunnel" /\ \E d \in Direction : FuzzBth(d)
<1>1. CASE UNCHANGED programVars
  BY <1>1 DEF programVars, SharedStep
<1>2. CASE Main
  BY <1>2 DEF Main, TunnelDefaults, SharedStep, Next
<1>3. CASE UserTypes
  BY <1>3 DEF UserTypes
<1>4. ASSUME NEW d \in Direction, AnyRelay(d)
      PROVE  /\ program' = program
             /\ \/ program = "proxy-f" /\ Next
                \/ SharedRelay(d)
                \/ program = "tunnelnofuzz" /\ OnlyClassify(d)
                \/ program = "taptunnel" /\ FuzzBth(d)
  BY <1>4 DEF AnyRelay, TunnelRelay, SharedRelay, Next
<1>5. CASE Network /\ UNCHANGED program
  BY <1>5 DEF SharedStep
<1> QED BY <1>1, <1>2, <1>3, <1>4, <1>5 DEF ProgramNext, SharedStep

LEMMA SharedIsNext == SharedStep => [Next]_vars
BY DEF SharedStep, SharedRelay, AttachAndFork, Startup, Relay, Next

\* What the loops of the tunnels do between the read and the write.
LEMMA OwnRelaySteps ==
  ASSUME TypeInv, NEW d \in Direction, OnlyClassify(d) \/ FuzzBth(d)
  PROVE  /\ UNCHANGED <<mainVars, nread, orig, netVars>>
         /\ pc[d] \in {"classify", "fuzz"} /\ pc'[d] \in {"fuzz", "write"}
         /\ d = "toServer" /\ \A e \in Direction : e # d => pc'[e] = pc[e] /\ buffer'[e] = buffer[e]
         /\ round' \in 0..Rounds
         /\ \/ UNCHANGED buffer
            \/ FuzzBth(d) /\ \E b \in FuzzField(buffer[d]) : buffer' = [buffer EXCEPT ![d] = b]
<1> USE DEF TypeInv, RelayType
<1>1. CASE OnlyClassify(d)
  BY <1>1 DEF OnlyClassify, Goto, Direction
<1>2. CASE FuzzBth(d) /\ round < Rounds
  BY <1>2, RoundsAssumption DEF FuzzBth, Direction
<1>3. CASE FuzzBth(d) /\ ~(round < Rounds)
  BY <1>3 DEF FuzzBth, Goto, Direction
<1> QED BY <1>1, <1>2, <1>3

LEMMA OwnRelayTypes ==
  ASSUME TypeInv, NEW d \in Direction, OnlyClassify(d) \/ FuzzBth(d)
  PROVE  TypeInv'
<1>1. MainType' /\ NetType'
  BY OwnRelaySteps DEF TypeInv, MainType, NetType, mainVars, netVars
<1>2. buffer' \in [Direction -> Buffer]
  BY OwnRelaySteps, FuzzFieldInBth DEF TypeInv, RelayType
<1>3. pc' \in [Direction -> {"off", "read", "classify", "fuzz", "write", "clear", "crashed"}]
      /\ pc'["toClient"] \notin {"classify", "fuzz"}
  BY DEF OnlyClassify, FuzzBth, Goto, TypeInv, RelayType, Direction
<1>4. \A e \in Direction : InFlight(e)' => InFlight(e)
  BY OwnRelaySteps DEF InFlight
<1> QED BY <1>1, <1>2, <1>3, <1>4, OwnRelaySteps DEF TypeInv, RelayType

LEMMA ConfiguredTypes ==
  ASSUME TypeInv, StartupInv, ConfiguredNames
  PROVE  TypeInv' /\ StartupInv'
<1>1. TypeInv'
  BY NameAssumption DEF ConfiguredNames, DefaultName, TypeInv, MainType, RelayType, NetType,
     InFlight, relayVars, netVars, Role
<1>2. StartupInv'
  BY NameAssumption DEF ConfiguredNames, DefaultName, relayVars, StartupInv, TypeInv, MainType, Role
<1> QED BY <1>1, <1>2

\* The types and the startup invariant of ProxyFuzzer hold of every program.
BaseInv == program \in Program /\ TypeInv /\ StartupInv

LEMMA InitBase == ProgramInit => BaseInv
BY InitTypes, InitStartup DEF ProgramInit, BaseInv

LEMMA NextBase == BaseInv /\ [ProgramNext]_programVars => BaseInv'
<1> SUFFICES ASSUME BaseInv, [ProgramNext]_programVars PROVE BaseInv'
  OBVIOUS
<1>1. CASE [Next]_vars
  BY <1>1, NextTypes, StartupInductive, ProgramSteps DEF BaseInv
<1>2. CASE ConfiguredNames
  BY <1>2, ConfiguredTypes, ProgramSteps DEF BaseInv
<1>3. ASSUME NEW d \in Direction, OnlyClassify(d) \/ FuzzBth(d)
      PROVE  BaseInv'
  <2>1. TypeInv' /\ UNCHANGED mainVars /\ pc[d] # "off"
    BY <1>3, OwnRelayTypes, OwnRelaySteps DEF BaseInv
  <2>2. StartupInv'
    BY <2>1 DEF BaseInv, StartupInv, mainVars
  <2> QED BY <2>1, <2>2, ProgramSteps DEF BaseInv
<1> QED BY <1>1, <1>2, <1>3, ProgramSteps, SharedIsNext

\* Every variable keeps its type, and no relay runs before the fork, in all programs.
THEOREM BaseInvariant == ProgramSpec => []BaseInv
BY InitBase, NextBase, PTL DEF ProgramSpec

\* Each of the three programs relays between two different devices, the ones its
\* command line or its configuration names.
THEOREM TunnelsHaveTheirDevices == ProgramSpec => []RunsBetweenItsDevices
<1>1. BaseInv => RunsBetweenItsDevices
  BY DEF BaseInv, StartupInv, RunsBetweenItsDevices
<1> QED BY <1>1, BaseInvariant, PTL

-----------------------------------------------------------------------------
(***************************************************************************)
(* The frame a relay holds, in terms of the bits its program may mutate.   *)
(***************************************************************************)

OwnSame(d, f, i) ==
  IF d = "toServer" /\ IsRdma(f)
  THEN Xor(buffer[d][i], f.at[i]) \subseteq OwnFuzzable(i)
  ELSE buffer[d][i] = f.at[i]

OwnIntact(d) == /\ nread[d] = T!Cut(orig[d])
                /\ \A i \in 0..nread[d] - 1 : OwnSame(d, orig[d], i)

\* The strengthening of ImplementsOwnTunnel: as IntegrityInv, for each program.
OwnInv == \A d \in Direction : (InFlight(d) => OwnIntact(d)) /\ FuzzesRdma(d)

LEMMA OwnIsIntegrity == BaseInv /\ OwnInv => IntegrityInv
<1> SUFFICES ASSUME BaseInv, OwnInv, NEW d \in Direction, InFlight(d) PROVE Intact(d)
  BY DEF OwnInv, IntegrityInv
<1>1. OwnIntact(d) /\ nread[d] \in Int
  BY BufferAssumption DEF OwnInv, BaseInv, TypeInv, RelayType
<1>2. ASSUME NEW i \in 0..nread[d] - 1 PROVE SameByte(d, orig[d], i)
  <2>1. OwnSame(d, orig[d], i) /\ OwnFuzzable(i) \subseteq T!Fuzzable(i)
    BY <1>1, <1>2, OwnIsLess DEF OwnIntact
  <2> QED BY <2>1 DEF OwnSame, SameByte
<1> QED BY <1>1, <1>2 DEF OwnIntact, Intact

LEMMA IntegrityIsOwn == program = "proxy-f" /\ IntegrityInv => OwnInv
<1> SUFFICES ASSUME program = "proxy-f", IntegrityInv, NEW d \in Direction, InFlight(d)
             PROVE  OwnIntact(d)
  BY DEF OwnInv, IntegrityInv
<1>1. \A i \in 0..nread[d] - 1 : OwnSame(d, orig[d], i) <=> SameByte(d, orig[d], i)
  BY DEF OwnSame, SameByte, OwnFuzzable
<1> QED BY <1>1 DEF IntegrityInv, Intact, OwnIntact

\* A step that leaves a frame alone.
LEMMA OwnKept ==
  ASSUME OwnInv, program' = program, NEW d \in Direction,
         InFlight(d)' => InFlight(d) /\ buffer'[d] = buffer[d] /\ nread'[d] = nread[d]
                           /\ orig'[d] = orig[d]
  PROVE  (InFlight(d) => OwnIntact(d))'
<1> SUFFICES ASSUME InFlight(d)' PROVE OwnIntact(d)'
  OBVIOUS
<1>1. \A i : OwnFuzzable(i)' = OwnFuzzable(i)
  BY DEF OwnFuzzable
<1>2. \A f, i : OwnSame(d, f, i)' = OwnSame(d, f, i)
  BY <1>1 DEF OwnSame
<1> QED BY <1>2 DEF OwnInv, OwnIntact

\* The read puts the frame where the remains of an earlier one may lie.
LEMMA ReadOwn ==
  ASSUME TypeInv, NEW d \in Direction, ReadFrame(d)
  PROVE  OwnIntact(d)'
<1> DEFINE f == Head(rx[d])
           n == Min2(f.len, MAX_ETH_LEN)
<1>1. f \in Frame
  BY HeadTailProperties DEF ReadFrame, TypeInv, NetType
<1>2. n \in 0..MAX_ETH_LEN /\ n = T!Cut(f)
  BY <1>1, CutFits, FrameAssumption DEF Min2, T!Cut
<1>3. /\ nread'[d] = n /\ orig'[d] = f
      /\ buffer'[d] = [i \in 0..MAX_ETH_LEN - 1 |-> IF i < n THEN f.at[i] ELSE buffer[d][i]]
  BY DEF ReadFrame, TypeInv, RelayType
<1> HIDE DEF f, n
<1>4. \A i \in 0..n - 1 : buffer'[d][i] = f.at[i]
  BY <1>2, <1>3, BufferAssumption
<1> QED BY <1>2, <1>3, <1>4 DEF OwnIntact, OwnSame, Xor

LEMMA SharedOwn ==
  ASSUME BaseInv, BaseInv', OwnInv, program' = program, SharedStep
  PROVE  OwnInv'
<1>1. IntegrityInv'
  BY SharedIsNext, OwnIsIntegrity, IntegrityInductive DEF BaseInv
<1>2. ASSUME NEW e \in Direction PROVE (InFlight(e) => OwnIntact(e))'
  <2>1. CASE UNCHANGED relayVars
    BY <2>1, OwnKept DEF relayVars, InFlight
  <2>2. CASE Fork
    <3>1. InFlight(e)' => InFlight(e)
      BY <2>2 DEF Fork, InFlight, BaseInv, TypeInv, RelayType, Direction
    <3> QED BY <2>2, <3>1, OwnKept DEF Fork
  <2>3. ASSUME NEW d \in Direction, SharedRelay(d) PROVE (InFlight(e) => OwnIntact(e))'
    <3>1. CASE e # d
      <4>1. /\ pc'[e] = pc[e] /\ buffer'[e] = buffer[e]
            /\ nread'[e] = nread[e] /\ orig'[e] = orig[e]
        BY <2>3, <3>1, OtherRelay DEF SharedRelay, Relay, BaseInv
      <4> QED BY <4>1, OwnKept DEF InFlight
    <3>2. CASE e = d /\ ReadFrame(d)
      BY <3>2, ReadOwn DEF BaseInv
    <3>3. CASE e = d /\ ~ReadFrame(d)
      <4>1. InFlight(d)' => Classify(d)
        BY <2>3, <3>3 DEF SharedRelay, ReadFails, Write, Clear, Goto, AfterRead, InFlight,
           BaseInv, TypeInv, RelayType
      <4>2. Classify(d) => /\ InFlight(d)' => InFlight(d)
                           /\ buffer' = buffer /\ nread' = nread /\ orig' = orig
        BY DEF Classify, Goto, InFlight, BaseInv, TypeInv, RelayType
      <4> QED BY <3>3, <4>1, <4>2, OwnKept
    <3> QED BY <2>3, <3>1, <3>2, <3>3
  <2>4. SharedStep => UNCHANGED relayVars \/ Fork \/ \E d \in Direction : SharedRelay(d)
    BY DEF SharedStep, AttachAndFork, TunAlloc, Network, Arrive, LinkChange, vars
  <2> QED BY <2>1, <2>2, <2>3, <2>4
<1> QED BY <1>1, <1>2 DEF OwnInv, IntegrityInv

\* A round of taptunnel.c keeps to the bits of its own tunnel.
LEMMA FuzzBthOwn ==
  ASSUME BaseInv, OwnInv, program = "taptunnel", program' = program,
         NEW d \in Direction, FuzzBth(d)
  PROVE  OwnInv'
<1>1. /\ nread' = nread /\ orig' = orig /\ d = "toServer"
      /\ pc[d] = "fuzz" /\ pc'[d] \in {"fuzz", "write"}
      /\ \A e \in Direction : e # d => pc'[e] = pc[e] /\ buffer'[e] = buffer[e]
      /\ buffer' = buffer \/ \E b \in FuzzField(buffer[d]) : buffer' = [buffer EXCEPT ![d] = b]
  <2>1. pc[d] = "fuzz"
    BY DEF FuzzBth
  <2> QED BY <2>1, OwnRelaySteps DEF BaseInv
<1>2. InFlight(d) /\ IsRdma(orig[d]) /\ OwnIntact(d)
  BY <1>1 DEF OwnInv, FuzzesRdma
<1>3. ASSUME NEW e \in Direction PROVE (InFlight(e) => OwnIntact(e))' /\ FuzzesRdma(e)'
  <2>1. CASE e # d
    <3>1. InFlight(e)' <=> InFlight(e)
      BY <1>1, <2>1 DEF InFlight
    <3> QED BY <1>1, <2>1, <3>1, OwnKept DEF OwnInv, FuzzesRdma
  <2>2. CASE e = d /\ buffer' = buffer
    BY <1>1, <1>2, <2>2, OwnKept DEF FuzzesRdma, InFlight
  <2>3. ASSUME NEW b \in FuzzField(buffer[d]), buffer' = [buffer EXCEPT ![d] = b], e = d
        PROVE  OwnIntact(d)' /\ FuzzesRdma(d)'
    <3>1. buffer[d] \in Buffer /\ buffer'[d] = b /\ nread[d] \in -1..MAX_ETH_LEN
      BY <2>3 DEF BaseInv, TypeInv, RelayType
    <3>2. ASSUME NEW i \in 0..nread[d] - 1 PROVE OwnSame(d, orig[d], i)'
      <4>1. i \in 0..MAX_ETH_LEN - 1
        BY <3>1, <3>2, BufferAssumption
      <4>2. Xor(b[i], buffer[d][i]) \subseteq BthTunnel!Fuzzable(i)
        BY <3>1, <4>1, FuzzFieldInBth
      <4>3. Xor(buffer[d][i], orig[d].at[i]) \subseteq BthTunnel!Fuzzable(i)
        BY <1>1, <1>2, <3>2 DEF OwnIntact, OwnSame, OwnFuzzable
      <4>4. Xor(b[i], orig[d].at[i]) \subseteq BthTunnel!Fuzzable(i)
        BY <4>2, <4>3, XorChain
      <4> QED BY <1>1, <1>2, <3>1, <4>4 DEF OwnSame, OwnFuzzable
    <3>3. OwnIntact(d)'
      BY <1>1, <1>2, <3>2 DEF OwnIntact
    <3> QED BY <1>1, <1>2, <3>3 DEF FuzzesRdma, InFlight
  <2> QED BY <1>1, <2>1, <2>2, <2>3
<1> QED BY <1>3 DEF OwnInv

LEMMA NextOwn == BaseInv /\ BaseInv' /\ OwnInv /\ [ProgramNext]_programVars => OwnInv'
<1> SUFFICES ASSUME BaseInv, BaseInv', OwnInv, [ProgramNext]_programVars PROVE OwnInv'
  OBVIOUS
<1>0. program' = program
  BY ProgramSteps
<1>1. CASE program = "proxy-f" /\ [Next]_vars
  <2>1. IntegrityInv'
    BY <1>1, OwnIsIntegrity, IntegrityInductive DEF BaseInv
  <2>2. (program = "proxy-f" /\ IntegrityInv => OwnInv)'
    BY IntegrityIsOwn, PTL
  <2> QED BY <1>0, <1>1, <2>1, <2>2
<1>2. CASE SharedStep
  BY <1>0, <1>2, SharedOwn
<1>3. CASE ConfiguredNames
  <2>1. UNCHANGED relayVars
    BY <1>3 DEF ConfiguredNames
  <2> QED BY <1>0, <2>1, OwnKept DEF OwnInv, FuzzesRdma, InFlight, relayVars
<1>4. ASSUME NEW d \in Direction, OnlyClassify(d) PROVE OwnInv'
  <2>1. /\ UNCHANGED <<buffer, nread, orig>> /\ pc[d] = "classify" /\ pc'[d] = "write"
        /\ \A e \in Direction : e # d => pc'[e] = pc[e]
    BY <1>4 DEF OnlyClassify, Goto, BaseInv, TypeInv, RelayType
  <2>2. \A e \in Direction : (InFlight(e)' => InFlight(e)) /\ (pc'[e] = "fuzz" => pc[e] = "fuzz" /\ InFlight(e)')
    BY <2>1 DEF InFlight, OwnInv, FuzzesRdma
  <2> QED BY <1>0, <2>1, <2>2, OwnKept DEF OwnInv, FuzzesRdma
<1>5. ASSUME NEW d \in Direction, program = "taptunnel", FuzzBth(d) PROVE OwnInv'
  BY <1>0, <1>5, FuzzBthOwn
<1> QED BY <1>1, <1>2, <1>3, <1>4, <1>5, ProgramSteps

\* The frame a relay holds differs from what it read in its program's bits only.
THEOREM OwnInvariant == ProgramSpec => []OwnInv
<1>1. ProgramInit => OwnInv
  BY DEF ProgramInit, Init, OwnInv, FuzzesRdma, InFlight
<1> QED BY <1>1, NextOwn, BaseInvariant, PTL DEF ProgramSpec

-----------------------------------------------------------------------------
(***************************************************************************)
(* Refinement: as for ProxyFuzzer, with the tunnel of the program's kind.  *)
(***************************************************************************)

OwnAllowed(d, f, g) ==
  /\ program = "proxy-f" => T!Allowed(d, f, g)
  /\ program = "tunnelnofuzz" => PlainTunnel!Allowed(d, f, g)
  /\ program = "taptunnel" => BthTunnel!Allowed(d, f, g)

LEMMA HeldIsAllowed ==
  ASSUME BaseInv, OwnInv, NEW d \in Direction, InFlight(d)
  PROVE  OwnAllowed(d, orig[d], Held(d))
<1> DEFINE f == orig[d]
           g == Held(d)
<1>1. T!Allowed(d, f, g)
  BY OwnIsIntegrity, IntactIsAllowed DEF BaseInv, IntegrityInv
<1>2. T!IsFrame(g) /\ g.len = T!Cut(f) /\ g.len = nread[d]
      /\ \A i \in 0..nread[d] - 1 : g.at[i] = buffer[d][i]
  BY <1>1 DEF T!Allowed, Held
<1>3. \A i \in 0..g.len - 1 : IF d = "toServer" /\ IsRdma(f)
                              THEN Xor(g.at[i], f.at[i]) \subseteq OwnFuzzable(i)
                              ELSE g.at[i] = f.at[i]
  BY <1>2 DEF OwnInv, OwnIntact, OwnSame
<1> HIDE DEF f, g
<1>4. CASE program = "tunnelnofuzz"
  <2>1. PlainTunnel!IsFrame(g) /\ PlainTunnel!Cut(f) = T!Cut(f)
    BY <1>2 DEF PlainTunnel!IsFrame, T!IsFrame, PlainTunnel!Byte, T!Byte, PlainTunnel!Cut, T!Cut
  <2>2. PlainTunnel!CheckBufferType(f.at, PlainTunnel!Cut(f)) = "IB_TRAFFIC" <=> IsRdma(f)
    BY <2>1, SameClasses DEF IsRdma
  <2>3. \A i \in 0..g.len - 1 :
          IF d = "toServer" /\ PlainTunnel!CheckBufferType(f.at, PlainTunnel!Cut(f)) = "IB_TRAFFIC"
          THEN PlainTunnel!Xor(g.at[i], f.at[i]) \subseteq PlainTunnel!Fuzzable(i)
          ELSE g.at[i] = f.at[i]
    BY <1>3, <1>4, <2>2 DEF OwnFuzzable, PlainTunnel!Xor, Xor
  <2>4. PlainTunnel!Allowed(d, f, g)
    BY <1>2, <2>1, <2>3 DEF PlainTunnel!Allowed
  <2> QED BY <1>4, <2>4 DEF OwnAllowed, f, g
<1>5. CASE program = "taptunnel"
  <2>1. BthTunnel!IsFrame(g) /\ BthTunnel!Cut(f) = T!Cut(f)
    BY <1>2 DEF BthTunnel!IsFrame, T!IsFrame, BthTunnel!Byte, T!Byte, BthTunnel!Cut, T!Cut
  <2>2. BthTunnel!CheckBufferType(f.at, BthTunnel!Cut(f)) = "IB_TRAFFIC" <=> IsRdma(f)
    BY <2>1, SameClasses DEF IsRdma
  <2>3. \A i \in 0..g.len - 1 :
          IF d = "toServer" /\ BthTunnel!CheckBufferType(f.at, BthTunnel!Cut(f)) = "IB_TRAFFIC"
          THEN BthTunnel!Xor(g.at[i], f.at[i]) \subseteq BthTunnel!Fuzzable(i)
          ELSE g.at[i] = f.at[i]
    BY <1>3, <1>5, <2>2 DEF OwnFuzzable, BthTunnel!Xor, Xor
  <2>4. BthTunnel!Allowed(d, f, g)
    BY <1>2, <2>1, <2>3 DEF BthTunnel!Allowed
  <2> QED BY <1>5, <2>4 DEF OwnAllowed, f, g
<1>6. CASE program = "proxy-f"
  BY <1>1, <1>6 DEF OwnAllowed, f, g
<1> QED BY <1>4, <1>5, <1>6 DEF BaseInv, Program, f, g

LEMMA OwnDelivers ==
  ASSUME BaseInv, NEW d \in Direction, TakesHead(d), AppendsHeld(d),
         OwnAllowed(d, orig[d], Held(d))
  PROVE  OwnTunnelStep
<1>1. CASE program = "proxy-f"
  <2>1. T!Deliver(d)
    BY <1>1 DEF OwnAllowed, TakesHead, AppendsHeld, T!Deliver, T!Newest
  <2> QED BY <1>1, <2>1 DEF OwnTunnelStep, T!Next, T!Direction, Direction
<1>2. CASE program = "tunnelnofuzz"
  <2>1. PlainTunnel!Deliver(d)
    BY <1>2 DEF OwnAllowed, TakesHead, AppendsHeld, PlainTunnel!Deliver, PlainTunnel!Newest
  <2> QED BY <1>2, <2>1 DEF OwnTunnelStep, PlainTunnel!Next, PlainTunnel!Direction, Direction
<1>3. CASE program = "taptunnel"
  <2>1. BthTunnel!Deliver(d)
    BY <1>3 DEF OwnAllowed, TakesHead, AppendsHeld, BthTunnel!Deliver, BthTunnel!Newest
  <2> QED BY <1>3, <2>1 DEF OwnTunnelStep, BthTunnel!Next, BthTunnel!Direction, Direction
<1> QED BY <1>1, <1>2, <1>3 DEF BaseInv, Program

\* A loss and an arrival are the same for all tunnels.
LEMMA OwnLosesAndArrives ==
  ASSUME BaseInv,
         \/ \E d \in Direction : TakesHead(d) /\ tx' = tx
         \/ \E d \in Direction, f \in Frame : T!Arrive(d, f)
  PROVE  OwnTunnelStep
<1>1. ASSUME NEW d \in Direction, TakesHead(d), tx' = tx PROVE OwnTunnelStep
  <2>1. T!Lose(d) /\ PlainTunnel!Lose(d) /\ BthTunnel!Lose(d)
    BY <1>1 DEF TakesHead, T!Lose, PlainTunnel!Lose, BthTunnel!Lose
  <2>2. T!Next /\ PlainTunnel!Next /\ BthTunnel!Next
    BY <2>1 DEF T!Next, T!Direction, PlainTunnel!Next, PlainTunnel!Direction,
                BthTunnel!Next, BthTunnel!Direction, Direction
  <2> QED BY <2>2 DEF OwnTunnelStep, BaseInv, Program
<1>2. ASSUME NEW d \in Direction, NEW f \in Frame, T!Arrive(d, f) PROVE OwnTunnelStep
  <2>1. PlainTunnel!Arrive(d, f) /\ BthTunnel!Arrive(d, f)
    BY <1>2 DEF T!Arrive, PlainTunnel!Arrive, BthTunnel!Arrive
  <2>2. T!Next /\ PlainTunnel!Next /\ BthTunnel!Next
    BY <1>2, <2>1 DEF T!Next, T!Direction, PlainTunnel!Next, PlainTunnel!Direction,
                      BthTunnel!Next, BthTunnel!Direction, Direction
  <2> QED BY <2>2 DEF OwnTunnelStep, BaseInv, Program
<1> QED BY <1>1, <1>2

\* What the tunnels do on their own touches neither the queues nor the devices.
LEMMA OwnStepsKeepQueues ==
  ASSUME TypeInv,
         ConfiguredNames \/ \E d \in Direction : OnlyClassify(d) \/ FuzzBth(d)
  PROVE  UNCHANGED <<Pending, tx, arrived, link>>
<1>1. CASE ConfiguredNames
  <2>1. UNCHANGED <<relayVars, netVars>>
    BY <1>1 DEF ConfiguredNames
  <2> QED BY <2>1 DEF relayVars, netVars, Pending, InFlight
<1>2. ASSUME NEW d \in Direction, OnlyClassify(d) \/ FuzzBth(d)
      PROVE  UNCHANGED <<Pending, tx, arrived, link>>
  <2>1. UNCHANGED <<nread, orig, netVars>> /\ \A e \in Direction : InFlight(e)' <=> InFlight(e)
    BY <1>2, OwnRelaySteps DEF InFlight
  <2> QED BY <2>1 DEF Pending, netVars
<1> QED BY <1>1, <1>2

\* A step that is not one of ProxyFuzzer is one of those.
LEMMA OwnOrNext ==
  ASSUME [ProgramNext]_programVars
  PROVE  \/ [Next]_vars
         \/ ConfiguredNames \/ \E d \in Direction : OnlyClassify(d) \/ FuzzBth(d)
BY ProgramSteps, SharedIsNext

LEMMA StepImplementsOwn ==
  BaseInv /\ OwnInv /\ [ProgramNext]_programVars => [OwnTunnelStep]_<<Pending, tx>>
<1> SUFFICES ASSUME BaseInv, OwnInv, [ProgramNext]_programVars
             PROVE  OwnTunnelStep \/ UNCHANGED <<Pending, tx>>
  OBVIOUS
<1>1. CASE [Next]_vars
  <2>1. CASE UNCHANGED T!vars
    BY <2>1 DEF T!vars
  <2>2. ASSUME NEW d \in Direction, Write(d)
        PROVE  OwnTunnelStep \/ UNCHANGED <<Pending, tx>>
    <3>1. CASE TakesHead(d) /\ tx' = tx
      BY <3>1, OwnLosesAndArrives
    <3>2. CASE TakesHead(d) /\ AppendsHeld(d)
      BY <3>2, HeldIsAllowed, OwnDelivers DEF TakesHead
    <3> QED BY <2>2, <3>1, <3>2, WriteEffect DEF BaseInv
  <2>3. ASSUME NEW d \in Direction, NEW f \in Frame, Arrive(d, f) PROVE OwnTunnelStep
    BY <2>3, ArriveImplements, OwnLosesAndArrives DEF BaseInv
  <2> QED BY <1>1, <2>1, <2>2, <2>3, NextQueues DEF BaseInv
<1>2. CASE ConfiguredNames \/ \E d \in Direction : OnlyClassify(d) \/ FuzzBth(d)
  BY <1>2, OwnStepsKeepQueues DEF BaseInv
<1> QED BY <1>1, <1>2, OwnOrNext

\* The proxy fuzzer and both tunnels lose frames at most, and mutate no more than
\* their own share of an RDMA packet: nothing (tunnelnofuzz), its base transport
\* header (taptunnel) or an extension header as well (proxy-f).
THEOREM EachIsItsTunnel == ProgramSpec => ImplementsOwnTunnel
<1>1. ProgramInit => T!Init
  BY InitImplements DEF ProgramInit
<1> QED BY <1>1, StepImplementsOwn, BaseInvariant, OwnInvariant, PTL
        DEF ProgramSpec, ImplementsOwnTunnel

-----------------------------------------------------------------------------
(***************************************************************************)
(* What ProxyFuzzer_proofs shows of proxy-f.c holds of the tunnels as well *)
(* where their code is the same, and within their own limit where it is    *)
(* not.                                                                    *)
(***************************************************************************)

\* While proxy-f is the program that runs, the three programs together are the proxy
\* fuzzer of ProxyFuzzer: all that is proved of it is proved here.
THEOREM ProxyFIsProxyFuzzer == ProgramSpec /\ program = "proxy-f" => Spec
<1>1. program = "proxy-f" /\ [ProgramNext]_programVars => [Next]_vars /\ (program = "proxy-f")'
  BY ProgramSteps DEF ProgramNext, programVars, Main, TunnelDefaults, UserTypes, AnyRelay, Next
<1> QED BY <1>1, PTL DEF ProgramSpec, ProgramInit, Spec

LEMMA NextCountsAll ==
  BaseInv /\ BaseInv' /\ StaysUp /\ FramesAreCounted /\ [ProgramNext]_programVars
    => StaysUp' /\ FramesAreCounted'
<1> SUFFICES ASSUME BaseInv, BaseInv', StaysUp, FramesAreCounted, [ProgramNext]_programVars
             PROVE  StaysUp' /\ FramesAreCounted'
  OBVIOUS
<1>1. CASE [Next]_vars
  BY <1>1, NextCounts DEF BaseInv
<1>2. CASE UNCHANGED <<Pending, tx, arrived, link>>
  BY <1>2 DEF StaysUp, FramesAreCounted
<1> QED BY <1>1, <1>2, OwnOrNext, OwnStepsKeepQueues DEF BaseInv

\* None of the three programs invents a frame or writes one twice, and none is lost
\* while the devices stay up.
THEOREM TunnelsCountFrames == ProgramSpec => []FramesAreCounted
<1>1. ProgramInit => StaysUp /\ FramesAreCounted
  BY InitCounts DEF ProgramInit
<1> QED BY <1>1, NextCountsAll, BaseInvariant, PTL DEF ProgramSpec

\* In none of them is a frame lost at a device that is up.
THEOREM TunnelsLoseAtTheDevice == ProgramSpec => LosesOnlyWhenDown
<1>1. ASSUME BaseInv, [ProgramNext]_programVars, NEW d \in Direction,
             Len(Pending'[d]) < Len(Pending[d]), UNCHANGED tx[d]
      PROVE  link[Sink(d)] # "up"
  <2>1. CASE [Next]_vars
    BY <1>1, <2>1, NextLoses DEF BaseInv
  <2>2. CASE UNCHANGED Pending
    <3>1. Len(Pending[d]) \in Nat
      BY <1>1, QueueTypes DEF BaseInv
    <3> QED BY <1>1, <2>2, <3>1
  <2> QED BY <1>1, <2>1, <2>2, OwnOrNext, OwnStepsKeepQueues DEF BaseInv
<1>2. BaseInv /\ [ProgramNext]_programVars =>
        [\A d \in Direction : Len(Pending[d])' < Len(Pending[d]) /\ UNCHANGED tx[d]
                                => link[Sink(d)] # "up"]_vars
  BY <1>1
<1> QED BY <1>2, BaseInvariant, PTL DEF ProgramSpec, LosesOnlyWhenDown

LEMMA NextCrashAll == BaseInv /\ CrashInv /\ [ProgramNext]_programVars => CrashInv'
<1> SUFFICES ASSUME BaseInv, CrashInv, [ProgramNext]_programVars PROVE CrashInv'
  OBVIOUS
<1>1. CASE [Next]_vars
  BY <1>1, NextCrash DEF BaseInv
<1>2. CASE ConfiguredNames
  <2>1. UNCHANGED <<pc, nread, link>>
    BY <1>2 DEF ConfiguredNames, relayVars, netVars
  <2> QED BY <2>1 DEF CrashInv
<1>3. ASSUME NEW d \in Direction, OnlyClassify(d) \/ FuzzBth(d)
      PROVE  CrashInv'
  <2>1. UNCHANGED <<nread, link>> /\ \A e \in Direction : pc'[e] = "crashed" => pc[e] = "crashed"
    BY <1>3, OwnRelaySteps DEF BaseInv, netVars
  <2> QED BY <2>1 DEF CrashInv
<1> QED BY <1>1, <1>2, <1>3, OwnOrNext

\* A relay of any of the programs crashes only when the device it reads was deleted.
THEOREM TunnelCrashesAreConfined == ProgramSpec => []CrashIsOwnDevice
<1>1. ProgramInit => CrashInv
  BY InitCrash DEF ProgramInit
<1>2. CrashInv => CrashIsOwnDevice
  BY DEF CrashInv, CrashIsOwnDevice
<1> QED BY <1>1, <1>2, NextCrashAll, BaseInvariant, PTL DEF ProgramSpec

-----------------------------------------------------------------------------
(***************************************************************************)
(* Residue: as ResidueInv, with the limit of the program that runs.        *)
(***************************************************************************)

OwnResidueInv == /\ program = "tunnelnofuzz" => Residue(0)
                 /\ program = "taptunnel" => Residue(58)
                 /\ program = "proxy-f" => Residue(86)

LEMMA SharedResidue ==
  ASSUME NEW CONSTANT n \in Int, BaseInv, Residue(n), SharedStep \/ ConfiguredNames
  PROVE  Residue(n)'
<1>1. CASE SharedStep
  <2>1. CASE Startup \/ Network \/ UNCHANGED vars
    BY <2>1, RestResidue DEF BaseInv
  <2>2. ASSUME NEW d \in Direction, SharedRelay(d) PROVE Residue(n)'
    BY <2>2, QuietResidue DEF SharedRelay, QuietRelay, BaseInv
  <2> QED BY <1>1, <2>1, <2>2 DEF SharedStep, AttachAndFork, Startup
<1>2. CASE ConfiguredNames
  <2>1. UNCHANGED <<pc, buffer, nread>>
    BY <1>2 DEF ConfiguredNames, relayVars
  <2> QED BY <2>1 DEF Residue
<1> QED BY <1>1, <1>2

\* tunnelnofuzz writes to no buffer, taptunnel to the bytes of the BTH.
LEMMA OnlyClassifyResidue ==
  ASSUME BaseInv, Residue(0), NEW d \in Direction, OnlyClassify(d)
  PROVE  Residue(0)'
<1>1. buffer' = buffer
  BY DEF OnlyClassify
<1> QED BY <1>1, FuzzResidue, OwnRelaySteps DEF BaseInv

LEMMA FuzzBthResidue ==
  ASSUME BaseInv, Residue(58), NEW d \in Direction, FuzzBth(d)
  PROVE  Residue(58)'
<1>1. \A i \in 0..MAX_ETH_LEN - 1 : i \in 46..58 - 1 \/ buffer'[d][i] = buffer[d][i]
  <2>1. CASE UNCHANGED buffer
    BY <2>1
  <2>2. ASSUME NEW b \in FuzzField(buffer[d]), buffer' = [buffer EXCEPT ![d] = b]
        PROVE  \A i \in 0..MAX_ETH_LEN - 1 : i \in 46..58 - 1 \/ buffer'[d][i] = buffer[d][i]
    <3>1. buffer[d] \in Buffer /\ buffer'[d] = b
      BY <2>2 DEF BaseInv, TypeInv, RelayType
    <3>2. PICK k \in 46..57 : \A j \in 0..MAX_ETH_LEN - 1 : j # k => b[j] = buffer[d][j]
      BY <3>1, FuzzFieldOne
    <3> QED BY <3>1, <3>2
  <2> QED BY <2>1, <2>2, OwnRelaySteps DEF BaseInv
<1> QED BY <1>1, FuzzResidue, OwnRelaySteps DEF BaseInv

LEMMA NextOwnResidue ==
  BaseInv /\ OwnResidueInv /\ [ProgramNext]_programVars => OwnResidueInv'
<1> SUFFICES ASSUME BaseInv, OwnResidueInv, [ProgramNext]_programVars PROVE OwnResidueInv'
  OBVIOUS
<1>0. program' = program
  BY ProgramSteps
<1>1. CASE program = "proxy-f" /\ [Next]_vars
  <2>1. ResidueInv'
    BY <1>1, NextResidue DEF BaseInv, OwnResidueInv, ResidueInv
  <2> QED BY <1>0, <1>1, <2>1 DEF OwnResidueInv, ResidueInv
<1>2. CASE SharedStep \/ ConfiguredNames
  <2>1. /\ Residue(0) => Residue(0)'
        /\ Residue(58) => Residue(58)'
        /\ Residue(86) => Residue(86)'
    BY <1>2, SharedResidue
  <2> QED BY <1>0, <2>1 DEF OwnResidueInv
<1>3. ASSUME NEW d \in Direction, program = "tunnelnofuzz", OnlyClassify(d) PROVE OwnResidueInv'
  BY <1>0, <1>3, OnlyClassifyResidue DEF OwnResidueInv
<1>4. ASSUME NEW d \in Direction, program = "taptunnel", FuzzBth(d) PROVE OwnResidueInv'
  BY <1>0, <1>4, FuzzBthResidue DEF OwnResidueInv
<1> QED BY <1>1, <1>2, <1>3, <1>4, ProgramSteps

\* What a frame leaves in a buffer stays within what its own program mutates:
\* nothing at all in tunnelnofuzz.
THEOREM NoFrameLeftBehindByAny == ProgramSpec => []ResidueIsOwn
<1>1. ProgramInit => OwnResidueInv
  BY InitResidue DEF ProgramInit, OwnResidueInv
<1>2. BaseInv /\ OwnResidueInv => ResidueIsOwn
  <2> SUFFICES ASSUME BaseInv, OwnResidueInv, NEW d \in Direction, NEW i \in 0..MAX_ETH_LEN - 1,
                      pc[d] = "read", buffer[d][i] # {}
               PROVE  d = "toServer" /\ i \in IB_BTH_OFFSET..OwnLimit - 1
    BY DEF ResidueIsOwn
  <2>1. \A n \in Int : Residue(n) => d = "toServer" /\ i \in 46..n - 1
    BY DEF Residue
  <2>2. /\ program = "tunnelnofuzz" => OwnLimit = 0
        /\ program = "taptunnel" => OwnLimit = 58
        /\ program = "proxy-f" => OwnLimit = 86
    BY Offsets DEF OwnLimit
  <2> QED BY <2>1, <2>2, Offsets DEF OwnResidueInv, BaseInv, Program
<1> QED BY <1>1, <1>2, NextOwnResidue, BaseInvariant, PTL DEF ProgramSpec
================================================================================
