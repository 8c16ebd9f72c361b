--------------------------------- MODULE Tunnel ---------------------------------
(***************************************************************************)
(* What a tap-to-tap tunnel promises: two independent directions, each a   *)
(* first-in first-out queue that may lose a frame but never duplicates,    *)
(* reorders or invents one.  Towards the client a frame is delivered as it *)
(* came; towards the server only the fuzzable bytes of RDMA packets may    *)
(* differ.  A frame longer than the tunnel's buffer is cut at its size.    *)
(***************************************************************************)
EXTENDS FrameLayout, Sequences

CONSTANTS
  Frame,          \* the frames the network may deliver
  MTU,            \* the size of the tunnel's buffer
  FUZZ_LIMIT      \* the first offset behind the bytes that may be mutated

VARIABLES
  pending,        \* pending[d]: frames that arrived and were not dealt with
  delivered       \* delivered[d]: frames handed to the other side

vars == <<pending, delivered>>

Direction == {"toServer", "toClient"}

Cut(f) == IF f.len <= MTU THEN f.len ELSE MTU

\* The fuzzable bits of the byte at an offset.
Fuzzable(i) ==
  IF i \notin IB_BTH_OFFSET..FUZZ_LIMIT - 1 THEN {}
  ELSE IF i \in IB_DEST_QP_B1_OFFSET..IB_DEST_QP_B3_OFFSET THEN {}
  ELSE IF i = IB_SMPT_OFFSET THEN 4..7 ELSE 0..7

\* g may be delivered in direction d for the frame f.
Allowed(d, f, g) ==
  /\ IsFrame(g) /\ g.len = Cut(f)
  /\ \A i \in 0..g.len - 1 :
       IF d = "toServer" /\ CheckBufferType(f.at, Cut(f)) = "IB_TRAFFIC"
       THEN Xor(g.at[i], f.at[i]) \subseteq Fuzzable(i)
       ELSE g.at[i] = f.at[i]

Init == /\ pending = [d \in Direction |-> <<>>]
        /\ delivered = [d \in Direction |-> <<>>]

Arrive(d, f) == /\ pending' = [pending EXCEPT ![d] = Append(@, f)]
                /\ UNCHANGED delivered

Newest(s) == s[Len(s)]

Deliver(d) ==
  /\ pending[d] # <<>>
  /\ pending' = [pending EXCEPT ![d] = Tail(@)]
  /\ delivered'[d] # <<>>
  /\ Allowed(d, Head(pending[d]), Newest(delivered'[d]))
  /\ delivered' = [delivered EXCEPT ![d] = Append(@, Newest(delivered'[d]))]

Lose(d) == /\ pending[d] # <<>>
           /\ pending' = [pending EXCEPT ![d] = Tail(@)]
           /\ UNCHANGED delivered

Next == \E d \in Direction : \/ \E f \in Frame : Arrive(d, f)
                             \/ Deliver(d)
                             \/ Lose(d)

Spec == Init /\ [][Next]_vars
================================================================================
