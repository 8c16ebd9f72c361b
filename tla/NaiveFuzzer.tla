------------------------------ MODULE NaiveFuzzer ------------------------------
(***************************************************************************)
(* The naive UDP fuzzer (programs/naive-udp-fuzzer, udp.go and mutate.go): *)
(* it sends one InfiniBand packet, then in endless cycles that packet and  *)
(* ever more mutated copies of it, with 25 mutations of four adjacent bits *)
(* and 10 of whole bytes in a cycle.                                       *)
(*                                                                         *)
(* A packet is its base transport header, the 12 bytes that a mutation may *)
(* choose; the 205 bytes behind it are never touched.                      *)
(***************************************************************************)
EXTENDS FrameLayout, FiniteSets

CONSTANTS
  BitRounds,      \* 25: the bit-wise mutations of a cycle
  ByteRounds,     \* 10: the byte-wise mutations of a cycle
  Offset,         \* the values rand.Intn(12) may return
  Start,          \* the values rand.Intn(4) may return
  Fails           \* whether calls of the network may fail

ASSUME NaiveAssumption ==
  /\ BitRounds \in Nat /\ ByteRounds \in Nat
  /\ Offset \subseteq 0..11 /\ Offset # {}
  /\ Start \subseteq 0..3 /\ Start # {}
  /\ Fails \in BOOLEAN

VARIABLES
  step,           \* "resolve", "dial", "first", "copy", "bits", "bytes" or "exited"
  i,              \* the counter of the loop of this step
  packet_bytes,   \* the packet as it was encoded
  cp_pkt,         \* the copy that is mutated
  sent,           \* history: the packet last sent, and the mutations made on it
  made            \* history: the mutations made since the copy

vars == <<step, i, packet_bytes, cp_pkt, sent, made>>

Packet == [0..11 -> Byte]

\* bth: 0x81 0x00 0xFFFF 0x40 0x000011 0x00 0x000000
Header == [n \in 0..11 |->
  CASE n = 0 -> {0, 7} [] n \in {2, 3} -> 0..7 [] n = 4 -> {6} [] n = 7 -> {0, 4} [] OTHER -> {}]
Zeros  == [n \in 0..11 |-> {}]

\* The transport version and the destination QP.
Protected == {1, 5, 6, 7}

\* Mutants: the test for the destination QP is missing; the pattern is one bit
\* short.
FlipBits_AllFields(pkt, pos, bits, start) ==
  IF pos = 1 THEN pkt ELSE [pkt EXCEPT ![pos] = Xor(pkt[pos], start..(start + bits - 1))]
FlipBits_OneShort(pkt, pos, bits, start) ==
  IF pos \in Protected THEN pkt ELSE [pkt EXCEPT ![pos] = Xor(pkt[pos], start..(start + bits - 2))]

\* flip_bits(): 0b1111 << bit_pos_start, for bits = 4
FlipBits(pkt, pos, bits, start) ==
  IF pos \in Protected THEN pkt ELSE [pkt EXCEPT ![pos] = Xor(pkt[pos], start..(start + bits - 1))]

\* flip_bytewise()
FlipBytewise(pkt, pos) ==
  IF pos \in Protected THEN pkt ELSE [pkt EXCEPT ![pos] = Xor(pkt[pos], 0..7)]

Init ==
  /\ step = "resolve" /\ i = 0
  /\ packet_bytes = Header      \* binary.Write() of a packet of fixed size
  /\ cp_pkt = Zeros
  /\ sent = [pkt |-> Header, made |-> 0]
  /\ made = 0

Goto(label) == step' = label /\ i' = 0

\* conn.Write() of what has been mutated n times; its error is not looked at,
\* and nothing has been sent then.
Write(pkt, n) ==
  \/ sent' = [pkt |-> pkt, made |-> n]
  \/ Fails /\ UNCHANGED sent

\* net.ResolveUDPAddr() and net.DialUDP()
Connect ==
  /\ step \in {"resolve", "dial"}
  /\ \/ Goto(IF step = "resolve" THEN "dial" ELSE "first")
     \/ Fails /\ Goto("exited")
  /\ UNCHANGED <<packet_bytes, cp_pkt, sent, made>>

First ==
  /\ step = "first"
  /\ Write(packet_bytes, 0)
  /\ Goto("copy")
  /\ UNCHANGED <<packet_bytes, cp_pkt, made>>

\* Mutant: the arguments of copy() are swapped.
Copy_Swapped ==
  /\ step = "copy"
  /\ packet_bytes' = cp_pkt
  /\ made' = 0
  /\ Goto("bits")
  /\ UNCHANGED <<cp_pkt, sent>>

\* copy(cp_pkt, packet_bytes): a cycle begins.
Copy ==
  /\ step = "copy"
  /\ cp_pkt' = packet_bytes
  /\ made' = 0
  /\ Goto("bits")
  /\ UNCHANGED <<packet_bytes, sent>>

\* One turn of a loop: the copy is sent, and mutated afterwards.
Turn(label, rounds, next, mutated) ==
  /\ step = label
  /\ IF i < rounds
     THEN /\ Write(cp_pkt, made)
          /\ cp_pkt' \in mutated
          /\ made' = made + 1
          /\ i' = i + 1
          /\ UNCHANGED step
     ELSE Goto(next) /\ UNCHANGED <<cp_pkt, sent, made>>
  /\ UNCHANGED packet_bytes

BitTurn ==
  Turn("bits", BitRounds, "bytes", {FlipBits(cp_pkt, pos, 4, s) : pos \in Offset, s \in Start})

\* Mutant: after the byte-wise loop the bit-wise one follows, without a new copy.
ByteTurn_NoCopy ==
  Turn("bytes", ByteRounds, "bits", {FlipBytewise(cp_pkt, pos) : pos \in Offset})

ByteTurn ==
  Turn("bytes", ByteRounds, "copy", {FlipBytewise(cp_pkt, pos) : pos \in Offset})

Next == Connect \/ First \/ Copy \/ BitTurn \/ ByteTurn

\* The program runs.
Spec == Init /\ [][Next]_vars /\ WF_vars(Next)

-----------------------------------------------------------------------------

Changed(pkt) == {n \in 0..11 : pkt[n] # Header[n]}

\* Every variable has its type.
TypeOK ==
  /\ step \in {"resolve", "dial", "first", "copy", "bits", "bytes", "exited"}
  /\ i \in 0..BitRounds \cup 0..ByteRounds
  /\ packet_bytes \in Packet /\ cp_pkt \in Packet
  /\ sent \in [pkt : Packet, made : 0..(BitRounds + ByteRounds)]
  /\ made \in 0..(BitRounds + ByteRounds)

\* However many cycles have passed and whichever writes failed, a packet sent
\* after n mutations differs from the original packet in at most n fields, and
\* in neither the transport version nor the destination QP: no mutation of one
\* cycle leaks into the next.
MutationsOfOneCycle ==
  /\ Changed(sent.pkt) \cap Protected = {}
  /\ Cardinality(Changed(sent.pkt)) <= sent.made

\* What mutate.go can reach: in each byte sent, the two halves are altered in
\* the same bits or in complementary ones.  Of the 256 values of a byte a
\* mutation reaches 32, and never one that differs from the original in an odd
\* number of bits.
HalvesAlike ==
  \A n \in 0..11 :
    LET d == Xor(sent.pkt[n], Header[n])
        Same(k) == (k \in d) <=> (k + 4 \in d)
    IN  \A k \in 0..3 : Same(k) <=> Same(0)

\* Unless it exits, the fuzzer begins a cycle with the original packet again
\* and again.
StartsOver == []<>(step = "exited" \/ (step = "bits" /\ i = 0 /\ cp_pkt = Header))
================================================================================
