--------------------------- MODULE NaiveFuzzer_proofs ---------------------------
(***************************************************************************)
(* Proofs about the naive UDP fuzzer, for any number of rounds in a cycle, *)
(* any random numbers and any writes that fail.                            *)
(***************************************************************************)
EXTENDS NaiveFuzzer, FiniteSetTheorems, TLAPS

LEMMA HeaderType == Header \in Packet /\ Zeros \in Packet
BY DEF Header, Zeros, Packet, Byte

\* A mutation alters one field, which is none of the protected ones, in one of
\* five patterns.
Pattern == {0..7} \cup {s..(s + 3) : s \in 0..3}

LEMMA MutationEffect ==
  ASSUME NEW pkt \in Packet, NEW pos \in 0..11,
         NEW p, p = FlipBytewise(pkt, pos) \/ \E s \in 0..3 : p = FlipBits(pkt, pos, 4, s)
  PROVE  /\ p \in Packet
         /\ \/ p = pkt
            \/ /\ pos \notin Protected
               /\ \E m \in Pattern : p[pos] = Xor(pkt[pos], m)
               /\ \A n \in 0..11 : n # pos => p[n] = pkt[n]
<1>1. CASE pos \in Protected
  BY <1>1 DEF FlipBytewise, FlipBits
<1>2. CASE pos \notin Protected
  <2>1. PICK m \in Pattern : p = [pkt EXCEPT ![pos] = Xor(pkt[pos], m)]
    <3>1. CASE p = FlipBytewise(pkt, pos)
      BY <1>2, <3>1 DEF FlipBytewise, Pattern
    <3>2. CASE \E s \in 0..3 : p = FlipBits(pkt, pos, 4, s)
      <4>1. PICK s \in 0..3 : p = FlipBits(pkt, pos, 4, s)
        BY <3>2
      <4>2. s + 4 - 1 = s + 3
        OBVIOUS
      <4> QED BY <1>2, <4>1, <4>2 DEF FlipBits, Pattern
    <3> QED BY <3>1, <3>2
  <2>2. m \in Byte
    BY DEF Pattern, Byte
  <2>3. Xor(pkt[pos], m) \in Byte
    BY <2>2 DEF Packet, Byte, Xor
  <2> QED BY <1>2, <2>1, <2>3 DEF Packet
<1> QED BY <1>1, <1>2

\* What a turn of a loop does to the copy.
LEMMA TurnMutates ==
  ASSUME cp_pkt \in Packet, BitTurn \/ ByteTurn
  PROVE  /\ UNCHANGED packet_bytes
         /\ \/ /\ \E pos \in 0..11 : cp_pkt' = FlipBytewise(cp_pkt, pos)
                                   \/ \E s \in 0..3 : cp_pkt' = FlipBits(cp_pkt, pos, 4, s)
               /\ made' = made + 1
               /\ UNCHANGED sent \/ sent' = [pkt |-> cp_pkt, made |-> made]
            \/ UNCHANGED <<cp_pkt, made, sent>>
BY NaiveAssumption DEF BitTurn, ByteTurn, Turn, Write, Goto

-----------------------------------------------------------------------------

\* The counters: how often the copy was mutated follows from the loop.
CountInv ==
  /\ step \in {"resolve", "dial", "first", "copy", "bits", "bytes", "exited"}
  /\ i \in Nat /\ made \in Nat
  /\ step \in {"resolve", "dial", "first", "copy", "exited"} => i = 0
  /\ step = "bits" => made = i /\ i <= BitRounds
  /\ step = "bytes" => made = BitRounds + i /\ i <= ByteRounds
  /\ made <= BitRounds + ByteRounds
  /\ packet_bytes \in Packet /\ cp_pkt \in Packet
  /\ sent \in [pkt : Packet, made : 0..(BitRounds + ByteRounds)]

LEMMA InitCounts == Init => CountInv
BY HeaderType, NaiveAssumption DEF Init, CountInv

LEMMA NextCounts == CountInv /\ [Next]_vars => CountInv'
<1> SUFFICES ASSUME CountInv, [Next]_vars PROVE CountInv'
  OBVIOUS
<1> USE NaiveAssumption DEF CountInv
<1>1. CASE Connect
  BY <1>1 DEF Connect, Goto
<1>2. CASE First
  BY <1>2 DEF First, Goto, Write
<1>3. CASE Copy
  BY <1>3 DEF Copy, Goto
<1>4. CASE BitTurn \/ ByteTurn
  <2>1. cp_pkt' \in Packet
    BY <1>4, TurnMutates, MutationEffect
  <2>2. sent' \in [pkt : Packet, made : 0..(BitRounds + ByteRounds)]
    BY <1>4, TurnMutates
  <2>3. CASE BitTurn
    BY <2>1, <2>2, <2>3 DEF BitTurn, Turn, Goto
  <2>4. CASE ByteTurn
    BY <2>1, <2>2, <2>4 DEF ByteTurn, Turn, Goto
  <2> QED BY <1>4, <2>3, <2>4
<1>5. CASE UNCHANGED vars
  BY <1>5 DEF vars
<1> QED BY <1>1, <1>2, <1>3, <1>4, <1>5 DEF Next

THEOREM Counts == Spec => []CountInv
BY InitCounts, NextCounts, PTL DEF Spec

\* Every variable of the naive fuzzer keeps its type, and the mutations counted
\* never exceed those of one cycle.
THEOREM NaiveTypes == Spec => []TypeOK
<1>1. CountInv => TypeOK
  BY NaiveAssumption DEF CountInv, TypeOK
<1> QED BY <1>1, Counts, PTL

-----------------------------------------------------------------------------

Confined(pkt, n) ==
  /\ Changed(pkt) \cap Protected = {}
  /\ Cardinality(Changed(pkt)) <= n

\* In the loops the copy is the original with the mutations of this cycle.
CycleInv ==
  /\ packet_bytes = Header
  /\ step \in {"bits", "bytes"} => Confined(cp_pkt, made)
  /\ Confined(sent.pkt, sent.made)

LEMMA OriginalConfined == Confined(Header, 0)
<1>1. Changed(Header) = {}
  BY DEF Changed
<1> QED BY <1>1, FS_EmptySet DEF Confined

LEMMA OneMoreChange ==
  ASSUME NEW pkt \in Packet, NEW n \in Nat, Confined(pkt, n), NEW pos \in 0..11,
         NEW p, p = FlipBytewise(pkt, pos) \/ \E s \in 0..3 : p = FlipBits(pkt, pos, 4, s)
  PROVE  Confined(p, n + 1)
<1>0. 0 \in Int /\ 11 \in Int
  OBVIOUS
<1>1. IsFiniteSet(0..11)
  BY <1>0, FS_Interval, Zenon
<1>2. \A q \in Packet : IsFiniteSet(Changed(q)) /\ Cardinality(Changed(q)) \in Nat
  BY <1>1, FS_Subset, FS_CardinalityType DEF Changed
<1>3. CASE p = pkt
  BY <1>2, <1>3 DEF Confined
<1>4. CASE p # pkt
  <2>1. p \in Packet /\ pos \notin Protected /\ \A k \in 0..11 : k # pos => p[k] = pkt[k]
    BY <1>4, MutationEffect
  <2>2. Changed(p) \subseteq Changed(pkt) \cup {pos}
    BY <2>1 DEF Changed
  <2>3. /\ IsFiniteSet(Changed(pkt) \cup {pos})
        /\ Cardinality(Changed(pkt) \cup {pos}) <= Cardinality(Changed(pkt)) + 1
    BY <1>2, FS_AddElement
  <2>4. Cardinality(Changed(p)) <= Cardinality(Changed(pkt) \cup {pos})
    BY <2>2, <2>3, FS_Subset
  <2>5. Cardinality(Changed(p)) <= n + 1
    BY <1>2, <2>1, <2>3, <2>4, FS_CardinalityType DEF Confined
  <2> QED BY <2>1, <2>2, <2>5 DEF Confined
<1> QED BY <1>3, <1>4

LEMMA InitCycle == Init => CycleInv
BY OriginalConfined DEF Init, CycleInv

LEMMA NextCycle == CountInv /\ CycleInv /\ [Next]_vars => CycleInv'
<1> SUFFICES ASSUME CountInv, CycleInv, [Next]_vars PROVE CycleInv'
  OBVIOUS
<1> USE DEF CycleInv
<1>1. CASE Connect
  BY <1>1 DEF Connect, Goto
<1>2. CASE First
  BY <1>2, OriginalConfined DEF First, Goto, Write
<1>3. CASE Copy
  BY <1>3, OriginalConfined DEF Copy, Goto
<1>4. CASE BitTurn \/ ByteTurn
  <2>1. step \in {"bits", "bytes"} /\ cp_pkt \in Packet /\ made \in Nat
    BY <1>4 DEF BitTurn, ByteTurn, Turn, CountInv
  <2>2. Confined(cp_pkt', made')
    BY <1>4, <2>1, TurnMutates, OneMoreChange
  <2>3. Confined(sent'.pkt, sent'.made)
    BY <1>4, <2>1, TurnMutates
  <2> QED BY <1>4, <2>1, <2>2, <2>3, TurnMutates
<1>5. CASE UNCHANGED vars
  BY <1>5 DEF vars
<1> QED BY <1>1, <1>2, <1>3, <1>4, <1>5 DEF Next

\* A packet sent after n mutations differs from the original in at most n
\* fields and in no protected one, whichever writes failed in however many cycles.
THEOREM OneCycleOfMutations == Spec => []MutationsOfOneCycle
<1>1. CycleInv => MutationsOfOneCycle
  BY DEF CycleInv, Confined, MutationsOfOneCycle
<1> QED BY <1>1, Counts, InitCycle, NextCycle, PTL DEF Spec

-----------------------------------------------------------------------------

\* The two halves of the difference between two bytes are the same or complementary.
Alike(d) == \A k \in 0..3 : (k \in d <=> k + 4 \in d) <=> (0 \in d <=> 4 \in d)

HalvesInv ==
  /\ packet_bytes = Header
  /\ step \in {"bits", "bytes"} => \A n \in 0..11 : Alike(Xor(cp_pkt[n], Header[n]))
  /\ \A n \in 0..11 : Alike(Xor(sent.pkt[n], Header[n]))

LEMMA OriginalAlike == \A n \in 0..11 : Alike(Xor(Header[n], Header[n]))
BY DEF Alike, Xor

\* A pattern flips one bit of each pair, or both of each.
LEMMA PatternAlike ==
  ASSUME NEW b, NEW h, NEW m \in Pattern, Alike(Xor(b, h))
  PROVE  Alike(Xor(Xor(b, m), h))
<1>1. \A k \in 0..7 : k \in Xor(Xor(b, m), h) <=> (k \in Xor(b, h) <=> k \notin m)
  BY DEF Xor
<1>2. CASE m = 0..7
  <2>1. \A k \in 0..7 : k \in m
    BY <1>2
  <2> QED BY <1>1, <2>1 DEF Alike
<1>3. CASE \E s \in 0..3 : m = s..(s + 3)
  <2>1. \A k \in 0..3 : k \in m <=> k + 4 \notin m
    BY <1>3
  <2> QED BY <1>1, <2>1 DEF Alike
<1> QED BY <1>2, <1>3 DEF Pattern

LEMMA InitHalves == Init => HalvesInv
BY OriginalAlike DEF Init, HalvesInv

LEMMA NextHalves == CountInv /\ HalvesInv /\ [Next]_vars => HalvesInv'
<1> SUFFICES ASSUME CountInv, HalvesInv, [Next]_vars PROVE HalvesInv'
  OBVIOUS
<1> USE DEF HalvesInv
<1>1. CASE Connect
  BY <1>1 DEF Connect, Goto
<1>2. CASE First
  BY <1>2, OriginalAlike DEF First, Goto, Write
<1>3. CASE Copy
  BY <1>3, OriginalAlike DEF Copy, Goto
<1>4. CASE BitTurn \/ ByteTurn
  <2>1. step \in {"bits", "bytes"} /\ cp_pkt \in Packet
    BY <1>4 DEF BitTurn, ByteTurn, Turn, CountInv
  <2>2. \/ cp_pkt' = cp_pkt
        \/ \E pos \in 0..11 : /\ \E m \in Pattern : cp_pkt'[pos] = Xor(cp_pkt[pos], m)
                              /\ \A n \in 0..11 : n # pos => cp_pkt'[n] = cp_pkt[n]
    BY <1>4, <2>1, TurnMutates, MutationEffect
  <2>3. \A n \in 0..11 : Alike(Xor(cp_pkt'[n], Header[n]))
    BY <2>1, <2>2, PatternAlike
  <2>4. \A n \in 0..11 : Alike(Xor(sent'.pkt[n], Header[n]))
    BY <1>4, <2>1, TurnMutates
  <2> QED BY <1>4, <2>1, <2>3, <2>4, TurnMutates
<1>5. CASE UNCHANGED vars
  BY <1>5 DEF vars
<1> QED BY <1>1, <1>2, <1>3, <1>4, <1>5 DEF Next

\* In every byte that is ever sent the two halves are altered alike or in
\* complementary bits: most values of a byte are out of the fuzzer's reach.
THEOREM HalvesStayAlike == Spec => []HalvesAlike
<1>1. HalvesInv => HalvesAlike
  BY DEF HalvesInv, Alike, HalvesAlike
<1> QED BY <1>1, Counts, InitHalves, NextHalves, PTL DEF Spec
================================================================================
