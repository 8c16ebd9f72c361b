------------------------------ MODULE FrameTunnels ------------------------------
(***************************************************************************)
(* The proxy fuzzer and the two frame tunnels it grew from: tunnelnofuzz.c *)
(* (programs/proxy-fuzzer), which recognises RDMA packets but leaves them  *)
(* alone, and taptunnel.c (programs/tapdev), which mutates their base      *)
(* transport header only.  Both take no options; taptunnel.c waits for the *)
(* user before it attaches to the devices.  All that is not redefined here *)
(* is the same code as in proxy-f.c.                                       *)
(***************************************************************************)
EXTENDS ProxyFuzzer

VARIABLE program          \* the program that runs

programVars == <<program, vars>>

Program == {"proxy-f", "tunnelnofuzz", "taptunnel"}

ProgramInit == program \in Program /\ Init

\* strcpy() of the two names of config; the command line is not looked at.
ConfiguredNames ==
  /\ phase = "options"
  /\ phase' = "client"
  /\ name' = [r \in Role |-> DefaultName(r)]
  /\ UNCHANGED <<argv, fd, relayVars, netVars>>

TunnelDefaults == program = "tunnelnofuzz" /\ ConfiguredNames

\* scanf() returns when the user has typed something.
UserTypes == program = "taptunnel" /\ ConfiguredNames /\ UNCHANGED program

AttachAndFork == TunAlloc("client", "server") \/ TunAlloc("server", "fork") \/ Fork

Main ==
  /\ \/ program = "proxy-f" /\ Startup
     \/ TunnelDefaults
     \/ program # "proxy-f" /\ AttachAndFork
  /\ UNCHANGED program

\* The switch of tunnelnofuzz.c: the call of fuzz_ib_bth() is commented out.
OnlyClassify(d) ==
  /\ pc[d] = "classify"
  /\ Goto(d, "write")
  /\ UNCHANGED <<mainVars, buffer, nread, round, orig, netVars>>

\* Mutant: an extension header that the opcode announces is mutated, as in proxy-f.c.
FuzzBth_Extension(d) == Fuzz(d)

\* The loop of fuzz_ib_bth() in taptunnel.c: no extension header is looked for.
FuzzBth(d) ==
  /\ pc[d] = "fuzz"
  /\ IF round < Rounds
     THEN /\ \E b \in FuzzField(buffer[d]) : buffer' = [buffer EXCEPT ![d] = b]
          /\ round' = round + 1
          /\ UNCHANGED pc
     ELSE Goto(d, "write") /\ UNCHANGED <<buffer, round>>
  /\ UNCHANGED <<mainVars, nread, orig, netVars>>

TunnelRelay(d) ==
  \/ ReadFrame(d) \/ ReadFails(d) \/ Write(d) \/ Clear(d)
  \/ program = "tunnelnofuzz" /\ OnlyClassify(d)
  \/ program = "taptunnel" /\ (Classify(d) \/ FuzzBth(d))

AnyRelay(d) ==
  /\ \/ program = "proxy-f" /\ Relay(d)
     \/ program # "proxy-f" /\ TunnelRelay(d)
  /\ UNCHANGED program

ProgramNext ==
  \/ Main \/ UserTypes
  \/ \E d \in Direction : AnyRelay(d)
  \/ Network /\ UNCHANGED program

ProgramSpec == ProgramInit /\ [][ProgramNext]_programVars

\* As in ProxyFuzzer; the user need not type anything.
FairPrograms ==
  ProgramSpec /\ WF_programVars(Main) /\ \A d \in Direction : WF_programVars(AnyRelay(d))

-----------------------------------------------------------------------------

\* Each program is a tunnel of its own kind: no byte may be mutated, those of
\* the BTH, or those of the longest extension header as well.
PlainTunnel == INSTANCE Tunnel WITH
  MTU <- MAX_ETH_LEN, FUZZ_LIMIT <- 0, pending <- Pending, delivered <- tx
BthTunnel == INSTANCE Tunnel WITH
  MTU <- MAX_ETH_LEN, FUZZ_LIMIT <- IB_PSEUD_PAYLOAD_OFFSET, pending <- Pending, delivered <- tx

OwnTunnelStep ==
  \/ program = "proxy-f" /\ T!Next
  \/ program = "tunnelnofuzz" /\ PlainTunnel!Next
  \/ program = "taptunnel" /\ BthTunnel!Next

\* Each program implements the lossy tunnel that mutates no more than its own
\* share of an RDMA packet: nothing for tunnelnofuzz, the base transport header
\* for taptunnel, whatever a longer packet left in the buffer.
ImplementsOwnTunnel == T!Init /\ [][OwnTunnelStep]_<<Pending, tx>>

\* The end of the bytes that the program may write behind a frame.
OwnLimit ==
  CASE program = "tunnelnofuzz" -> 0
    [] program = "taptunnel" -> IB_PSEUD_PAYLOAD_OFFSET
    [] program = "proxy-f" -> FUZZ_END

\* When a relay is about to read, its buffer is zero except for what its own
\* program may have written behind the end of a truncated packet: memset() cleared
\* no more than was read, so tunnelnofuzz leaves nothing for the next frame and
\* taptunnel no more than bytes of a BTH.
ResidueIsOwn ==
  \A d \in Direction, i \in 0..MAX_ETH_LEN - 1 :
    pc[d] = "read" /\ buffer[d][i] # {}
      => d = "toServer" /\ i \in IB_BTH_OFFSET..OwnLimit - 1
================================================================================
