------------------------------- MODULE ProxyFuzzer -------------------------------
(***************************************************************************)
(* The proxy fuzzer (programs/proxy-fuzzer/proxy-f.c): it parses its       *)
(* options, attaches to two TAP devices, forks, and relays frames between  *)
(* the devices, one process per direction, mutating the RDMA packets that  *)
(* travel to the server.                                                   *)
(*                                                                         *)
(* A direction names its relay: "toClient" is the loop of the parent,      *)
(* "toServer" the loop of the child.  fork() copies the memory, so each    *)
(* relay has a buffer of its own; the two share only the devices.          *)
(***************************************************************************)
EXTENDS PacketFuzz, Sequences

CONSTANTS
  Frame,          \* the frames the two networks may send
  MAX_ETH_LEN,    \* the size of a relay's buffer
  Rounds,         \* the third argument of fuzz_ib_bth
  Name,           \* device names
  ShortName,      \* the names of fewer than 3 characters
  LongName,       \* the names of IFNAMSIZ characters or more
  Argv,           \* the command lines
  MaxFrames,      \* bound: MaxFrames[d] frames arrive in direction d
  LinkFaults      \* whether a device may go down, come back or be deleted

ASSUME BufferAssumption == MAX_ETH_LEN \in Nat /\ MAX_ETH_LEN >= FUZZ_END
ASSUME FrameAssumption == \A f \in Frame : IsFrame(f)
ASSUME RoundsAssumption == Rounds \in Nat
ASSUME NameAssumption ==
  /\ {"", "tap2", "tap3"} \subseteq Name
  /\ ShortName \subseteq Name /\ LongName \subseteq Name
  /\ "" \in ShortName /\ {"tap2", "tap3"} \cap (ShortName \cup LongName) = {}
ASSUME ArgvAssumption == Argv \subseteq Seq([opt : {"c", "s", "?"}, arg : Name])
ASSUME BoundAssumption ==
  MaxFrames \in [{"toServer", "toClient"} -> Nat] /\ LinkFaults \in BOOLEAN

VARIABLES
  phase,          \* how far main() has come
  argv,           \* the options getopt() has not returned yet
  name,           \* client_dev_name and server_dev_name
  fd,             \* client_tap_fd and server_tap_fd: the device attached, or ""
  pc,             \* pc[d]: the next call of the relay
  buffer,         \* buffer_client and buffer_server
  nread,          \* nread_from_client and nread_from_server
  round,          \* the loop counter of fuzz_ib_bth
  link,           \* the state of the two devices
  arrived,        \* number of frames that arrived per direction
  rx,             \* rx[d]: frames waiting at the device that d reads
  tx,             \* tx[d]: frames written to the device that d writes
  orig            \* auxiliary: orig[d] is the frame that d read last

mainVars  == <<phase, argv, name, fd>>
relayVars == <<pc, buffer, nread, round, orig>>
netVars   == <<link, arrived, rx, tx>>
vars == <<mainVars, relayVars, netVars>>

Direction == {"toServer", "toClient"}
Role      == {"client", "server"}
Buffer    == [0..MAX_ETH_LEN - 1 -> Byte]

\* The device a direction reads and the one it writes.
Source(d) == IF d = "toServer" THEN "client" ELSE "server"
Sink(d)   == IF d = "toServer" THEN "server" ELSE "client"

Min2(a, b) == IF a <= b THEN a ELSE b

Init ==
  /\ phase = "options" /\ argv \in Argv
  /\ name = [r \in Role |-> ""]
  /\ fd = [r \in Role |-> ""]
  /\ pc = [d \in Direction |-> "off"]
  /\ buffer = [d \in Direction |-> [i \in 0..MAX_ETH_LEN - 1 |-> {}]]
  /\ nread = [d \in Direction |-> 0]
  /\ round = 0
  /\ link = [r \in Role |-> "up"]
  /\ arrived = [d \in Direction |-> 0]
  /\ rx = [d \in Direction |-> <<>>]
  /\ tx = [d \in Direction |-> <<>>]
  /\ orig = [d \in Direction |-> [len |-> 0, at |-> <<>>]]
--------------------------------------------------------------------------------
(***************************************************************************)
(* main() up to the fork.                                                  *)
(***************************************************************************)

\* exit(EXIT_FAILURE) and return 1: the kernel closes the descriptors.
Exit == /\ phase' = "exited"
        /\ fd' = [r \in Role |-> ""]

\* One turn of the getopt() loop.
ParseOption ==
  /\ phase = "options" /\ argv # <<>>
  /\ argv' = Tail(argv)
  /\ LET o == Head(argv)
         r == IF o.opt = "c" THEN "client" ELSE "server"
     IN  IF o.opt = "?" \/ o.arg \in LongName
         THEN Exit /\ UNCHANGED name
         ELSE name' = [name EXCEPT ![r] = o.arg] /\ UNCHANGED <<phase, fd>>
  /\ UNCHANGED <<relayVars, netVars>>

DefaultName(r) == IF r = "client" THEN "tap2" ELSE "tap3"

\* Mutant: the default replaces a missing name only.
UseDefaults_IfEmpty ==
  /\ phase = "options" /\ argv = <<>>
  /\ phase' = "client"
  /\ name' = [r \in Role |-> IF name[r] = "" THEN DefaultName(r) ELSE name[r]]
  /\ UNCHANGED <<argv, fd, relayVars, netVars>>

\* The defaults of config replace a name that is missing or too short.
UseDefaults ==
  /\ phase = "options" /\ argv = <<>>
  /\ phase' = "client"
  /\ name' = [r \in Role |-> IF name[r] \in ShortName THEN DefaultName(r) ELSE name[r]]
  /\ UNCHANGED <<argv, fd, relayVars, netVars>>

\* tun_alloc(): open() and ioctl(TUNSETIFF).  The driver refuses a device that
\* is attached already; either call may fail for other reasons.
TunAlloc(r, next) ==
  /\ phase = r
  /\ \/ /\ \A q \in Role : fd[q] # name[r]
        /\ fd' = [fd EXCEPT ![r] = name[r]]
        /\ phase' = next
     \/ Exit
  /\ UNCHANGED <<argv, name, relayVars, netVars>>

\* fork(): its -1 is true as well, so a failure leaves the parent's loop alone.
Fork ==
  /\ phase = "fork"
  /\ phase' = "running"
  /\ \/ pc' = [d \in Direction |-> "read"]
     \/ pc' = [pc EXCEPT !["toClient"] = "read"]
  /\ UNCHANGED <<argv, name, fd, buffer, nread, round, orig, netVars>>

Startup == \/ ParseOption \/ UseDefaults
           \/ TunAlloc("client", "server")
           \/ TunAlloc("server", "fork")
           \/ Fork
--------------------------------------------------------------------------------
(***************************************************************************)
(* The two relay loops.                                                    *)
(***************************************************************************)

Goto(d, label) == pc' = [pc EXCEPT ![d] = label]

\* Only the child looks at what it has read.
AfterRead(d) == IF d = "toServer" THEN "classify" ELSE "write"

\* read() returns the next frame, cut at the size of the buffer.  The bytes
\* behind it keep what they held.
ReadFrame(d) ==
  /\ pc[d] = "read" /\ rx[d] # <<>> /\ link[Source(d)] # "gone"
  /\ LET f == Head(rx[d])
         n == Min2(f.len, MAX_ETH_LEN)
     IN  /\ buffer' = [buffer EXCEPT ![d] = [i \in 0..MAX_ETH_LEN - 1 |->
                        IF i < n THEN f.at[i] ELSE buffer[d][i]]]
         /\ nread' = [nread EXCEPT ![d] = n]
         /\ orig' = [orig EXCEPT ![d] = f]
  /\ rx' = [rx EXCEPT ![d] = Tail(@)]
  /\ Goto(d, AfterRead(d))
  /\ UNCHANGED <<mainVars, round, link, arrived, tx>>

\* Mutant: a device that is down fails the read as well.
ReadFails_WhenDown(d) ==
  /\ pc[d] = "read" /\ link[Source(d)] # "up"
  /\ nread' = [nread EXCEPT ![d] = -1]
  /\ Goto(d, AfterRead(d))
  /\ UNCHANGED <<mainVars, buffer, round, orig, netVars>>

\* read() fails once the device has been deleted; nobody tests the result.
ReadFails(d) ==
  /\ pc[d] = "read" /\ link[Source(d)] = "gone"
  /\ nread' = [nread EXCEPT ![d] = -1]
  /\ Goto(d, AfterRead(d))
  /\ UNCHANGED <<mainVars, buffer, round, orig, netVars>>

\* Mutant: the case of UDP segments falls through to the one of RDMA packets.
Classify_FallThrough(d) ==
  /\ pc[d] = "classify"
  /\ round' = 0
  /\ Goto(d, IF CheckBufferType(buffer[d], nread[d]) \in {"UDP_SEG", "IB_TRAFFIC"}
             THEN "fuzz" ELSE "write")
  /\ UNCHANGED <<mainVars, buffer, nread, orig, netVars>>

\* Mutant: the switch has no write() for traffic that is not RDMA.
Classify_DropOther(d) ==
  /\ pc[d] = "classify"
  /\ round' = 0
  /\ Goto(d, IF CheckBufferType(buffer[d], nread[d]) = "IB_TRAFFIC"
             THEN "fuzz" ELSE "clear")
  /\ UNCHANGED <<mainVars, buffer, nread, orig, netVars>>

\* check_buffer_type() and the switch on its result.
Classify(d) ==
  /\ pc[d] = "classify"
  /\ round' = 0
  /\ Goto(d, IF CheckBufferType(buffer[d], nread[d]) = "IB_TRAFFIC"
             THEN "fuzz" ELSE "write")
  /\ UNCHANGED <<mainVars, buffer, nread, orig, netVars>>

\* Mutants: the loop runs once too often; the loop counter is not advanced.
Fuzz_OneMore(d) ==
  /\ pc[d] = "fuzz"
  /\ IF round <= Rounds
     THEN /\ \E b \in FuzzRound(buffer[d]) : buffer' = [buffer EXCEPT ![d] = b]
          /\ round' = round + 1
          /\ UNCHANGED pc
     ELSE Goto(d, "write") /\ UNCHANGED <<buffer, round>>
  /\ UNCHANGED <<mainVars, nread, orig, netVars>>
Fuzz_Forever(d) ==
  /\ pc[d] = "fuzz" /\ round < Rounds
  /\ \E b \in FuzzRound(buffer[d]) : buffer' = [buffer EXCEPT ![d] = b]
  /\ UNCHANGED <<mainVars, pc, nread, round, orig, netVars>>

\* Mutant: a continue behind the mutation starts the next turn of the relay.
Fuzz_Continue(d) ==
  /\ pc[d] = "fuzz"
  /\ IF round < Rounds
     THEN /\ \E b \in FuzzRound(buffer[d]) : buffer' = [buffer EXCEPT ![d] = b]
          /\ round' = round + 1
          /\ UNCHANGED pc
     ELSE Goto(d, "read") /\ UNCHANGED <<buffer, round>>
  /\ UNCHANGED <<mainVars, nread, orig, netVars>>

\* The loop of fuzz_ib_bth().
Fuzz(d) ==
  /\ pc[d] = "fuzz"
  /\ IF round < Rounds
     THEN /\ \E b \in FuzzRound(buffer[d]) : buffer' = [buffer EXCEPT ![d] = b]
          /\ round' = round + 1
          /\ UNCHANGED pc
     ELSE Goto(d, "write") /\ UNCHANGED <<buffer, round>>
  /\ UNCHANGED <<mainVars, nread, orig, netVars>>

\* The frame that write() would send now.
Held(d) == [len |-> nread[d], at |-> [i \in 0..nread[d] - 1 |-> buffer[d][i]]]

\* Mutant: a write that fails is repeated until the device takes the frame.
Write_Retry(d) ==
  /\ pc[d] = "write"
  /\ nread[d] # -1 => link[Sink(d)] = "up"
  /\ IF nread[d] # -1 THEN tx' = [tx EXCEPT ![d] = Append(@, Held(d))] ELSE UNCHANGED tx
  /\ Goto(d, "clear")
  /\ UNCHANGED <<mainVars, buffer, nread, round, orig, link, arrived, rx>>

\* write(): the frame is lost when the device is not up, and a length of -1 is
\* refused; nobody tests the result.
Write(d) ==
  /\ pc[d] = "write"
  /\ IF nread[d] # -1 /\ link[Sink(d)] = "up"
     THEN tx' = [tx EXCEPT ![d] = Append(@, Held(d))]
     ELSE UNCHANGED tx
  /\ Goto(d, "clear")
  /\ UNCHANGED <<mainVars, buffer, nread, round, orig, link, arrived, rx>>

\* Mutant: memset() misses the last byte of the frame.
Clear_OneShort(d) ==
  /\ pc[d] = "clear"
  /\ IF nread[d] = -1
     THEN Goto(d, "crashed") /\ UNCHANGED buffer
     ELSE /\ buffer' = [buffer EXCEPT ![d] = [i \in 0..MAX_ETH_LEN - 1 |->
                         IF i < nread[d] - 1 THEN {} ELSE buffer[d][i]]]
          /\ Goto(d, "read")
  /\ UNCHANGED <<mainVars, nread, round, orig, netVars>>

\* memset(buffer, 0, nread): a length of -1 runs out of the address space.
Clear(d) ==
  /\ pc[d] = "clear"
  /\ IF nread[d] = -1
     THEN Goto(d, "crashed") /\ UNCHANGED buffer
     ELSE /\ buffer' = [buffer EXCEPT ![d] = [i \in 0..MAX_ETH_LEN - 1 |->
                         IF i < nread[d] THEN {} ELSE buffer[d][i]]]
          /\ Goto(d, "read")
  /\ UNCHANGED <<mainVars, nread, round, orig, netVars>>

Relay(d) == \/ ReadFrame(d) \/ ReadFails(d) \/ Classify(d)
            \/ Fuzz(d) \/ Write(d) \/ Clear(d)
--------------------------------------------------------------------------------
(***************************************************************************)
(* The networks behind the two devices.                                    *)
(***************************************************************************)

\* A process that runs holds both devices.
Attached(r) == /\ fd[r] # ""
               /\ phase = "running" => \E d \in Direction : pc[d] \notin {"off", "crashed"}

Arrive(d, f) ==
  /\ Attached(Source(d)) /\ link[Source(d)] = "up" /\ arrived[d] < MaxFrames[d]
  /\ rx' = [rx EXCEPT ![d] = Append(@, f)]
  /\ arrived' = [arrived EXCEPT ![d] = @ + 1]
  /\ UNCHANGED <<mainVars, relayVars, link, tx>>

\* ip link set down/up, and ip link del (deletedevs.sh).
LinkChange(r) ==
  /\ LinkFaults /\ Attached(r) /\ link[r] # "gone"
  /\ \E s \in {"up", "down", "gone"} \ {link[r]} : link' = [link EXCEPT ![r] = s]
  /\ UNCHANGED <<mainVars, relayVars, arrived, rx, tx>>

Network == \/ \E d \in Direction, f \in Frame : Arrive(d, f)
           \/ \E r \in Role : LinkChange(r)

Next == Startup \/ (\E d \in Direction : Relay(d)) \/ Network

Spec == Init /\ [][Next]_vars

\* The scheduler runs main() and each relay; nothing is assumed of the networks.
FairSpec == Spec /\ WF_vars(Startup) /\ \A d \in Direction : WF_vars(Relay(d))
--------------------------------------------------------------------------------
(***************************************************************************)
(* Correctness.                                                            *)
(***************************************************************************)

\* A read that succeeded and has not been answered by a write yet.
InFlight(d) == pc[d] \in {"classify", "fuzz", "write"} /\ nread[d] # -1

TypeOK ==
  /\ phase \in {"options", "client", "server", "fork", "running", "exited"}
  /\ argv \in Seq([opt : {"c", "s", "?"}, arg : Name])
  /\ name \in [Role -> Name]
  /\ fd \in [Role -> Name]
  /\ pc \in [Direction -> {"off", "read", "classify", "fuzz", "write", "clear", "crashed"}]
  /\ pc["toClient"] \notin {"classify", "fuzz"}
  /\ buffer \in [Direction -> Buffer]
  /\ nread \in [Direction -> -1..MAX_ETH_LEN]
  /\ round \in 0..Rounds
  /\ link \in [Role -> {"up", "down", "gone"}]
  /\ arrived \in [Direction -> Nat]
  /\ rx \in [Direction -> Seq(Frame)]
  /\ DOMAIN tx = Direction
  /\ \A d \in Direction : \A k \in 1..Len(tx[d]) :
       IsFrame(tx[d][k]) /\ tx[d][k].len <= MAX_ETH_LEN
  /\ DOMAIN orig = Direction /\ \A d \in Direction : InFlight(d) => orig[d] \in Frame

\* The tunnel this program implements: a frame that a relay holds between its
\* read and its write is still pending.
Pending == [d \in Direction |-> IF InFlight(d) THEN <<orig[d]>> \o rx[d] ELSE rx[d]]
T == INSTANCE Tunnel WITH
       MTU <- MAX_ETH_LEN, FUZZ_LIMIT <- FUZZ_END, pending <- Pending, delivered <- tx

\* The frame a relay holds differs from the one it read in nothing but the
\* fuzzable bits of an RDMA packet travelling to the server: whatever earlier
\* frames left in the buffer, none of it is in the frame.
HeldIntact == \A d \in Direction : InFlight(d) => T!Allowed(d, orig[d], Held(d))

\* When a relay is about to read, its buffer is zero except for the bytes that
\* fuzz_ib_bth may have written behind the end of a truncated packet.
ResidueConfined ==
  \A d \in Direction, i \in 0..MAX_ETH_LEN - 1 :
    pc[d] = "read" /\ buffer[d][i] # {}
      => d = "toServer" /\ i \in IB_BTH_OFFSET..FUZZ_END - 1

\* The bytes in a range of the frame the child holds that differ from what it read.
Changed(range) ==
  {i \in range \cap 0..nread["toServer"] - 1 :
     buffer["toServer"][i] # orig["toServer"].at[i]}
BthRange == IB_BTH_OFFSET..IB_PSEUD_PAYLOAD_OFFSET - 1
ExtensionRange == IB_PSEUD_PAYLOAD_OFFSET..FUZZ_END - 1

\* A packet that leaves with one round of mutation has at most one altered BTH
\* byte, and altered bytes behind the BTH only where the opcode it now carries
\* announces an extension header that long.
MutationConfined ==
  InFlight("toServer") /\ pc["toServer"] = "write" /\ Rounds = 1
    => /\ \A i, j \in Changed(BthRange) : i = j
       /\ \A i \in Changed(ExtensionRange) :
            LET op == Operation(buffer["toServer"][IB_OPCODE_OFFSET])
            IN  \/ op \in AtomicOperations
                \/ op \in RdmaOperations /\ i < IB_PSEUD_PAYLOAD_OFFSET + RDMA_ETH_LEN

\* The relays run between two different devices, the ones the options or the
\* defaults name.
RunsBetweenItsDevices ==
  phase \in {"fork", "running"} =>
    /\ fd = name /\ fd["client"] # fd["server"]
    /\ \A r \in Role : fd[r] \notin ShortName \cup LongName

\* A relay crashes only when the device it reads was deleted: what happens to
\* the other device or to the other relay never stops it.
CrashIsOwnDevice ==
  \A d \in Direction : pc[d] = "crashed" => link[Source(d)] = "gone"

\* A frame that was read leaves the relay without being written only when the
\* device it goes to is not up at the time: the class of the frame, its length, the
\* mutation and the other direction cost no frame.
LosesOnlyWhenDown ==
  [][\A d \in Direction :
       Len(Pending[d])' < Len(Pending[d]) /\ UNCHANGED tx[d] => link[Sink(d)] # "up"]_vars

\* Every frame written or still to be written arrived, once: none is invented or
\* written twice, and while no device goes down none is lost on the way.
FramesAreCounted ==
  \A d \in Direction :
    LET accounted == Len(tx[d]) + Len(Pending[d])
    IN  accounted <= arrived[d] /\ (LinkFaults \/ accounted = arrived[d])

\* design.tex 48, "The RDMA payload is completely ignored": the bytes behind
\* the BTH of a SEND packet (operation 0x04), which has no extension header,
\* leave as they came.
SendOnly == {2}
PayloadIgnored ==
  InFlight("toServer") /\ Operation(orig["toServer"].at[IB_OPCODE_OFFSET]) = SendOnly
    => Changed(IB_PSEUD_PAYLOAD_OFFSET..MAX_ETH_LEN - 1) = {}

\* Every frame that arrives is taken from the device, unless the relay has
\* crashed or was never forked.
FramesAreTaken ==
  \A d \in Direction :
    (pc[d] # "off" /\ rx[d] # <<>>) ~> (rx[d] = <<>> \/ pc[d] = "crashed")

\* While the devices stay up, every frame that arrives is delivered.
FramesAreDelivered ==
  [](\A r \in Role : link[r] = "up") =>
    \A d \in Direction :
      (pc[d] # "off" /\ rx[d] # <<>>) ~> (Len(tx[d]) = arrived[d])

\* The program implements the lossy tunnel.
ImplementsTunnel == T!Spec
================================================================================
