----------------------------- MODULE IbProxy_proofs -----------------------------
(***************************************************************************)
(* Proofs about the address-based proxy, for any set of hosts.             *)
(***************************************************************************)
EXTENDS IbProxy, SequenceTheorems, TLAPS

Forwards == [from : Hosts, to : {client_address, server_address}]

\* The strengthening of TypeOK: setup ends with its last call, and no more is
\* forwarded than counted.
TypeInv ==
  /\ TypeOK
  /\ pc = "setup" => step \in 1..Len(Setup)
  /\ pc = "returned" => i = 2
  /\ Len(forwarded) <= i

LEMMA SetupLength == Len(Setup) = 8
BY DEF Setup

\* The empty address is nobody's, so a host that is forwarded is in Hosts.
LEMMA GarbageIsNobody == ~FromClient(Garbage) /\ ~FromServer(Garbage)
<1>1. Len(client_address) = 2 /\ Len(server_address) = 2 /\ Len(Garbage) = 0
  BY DEF client_address, server_address, Garbage
<1> QED BY <1>1 DEF FromClient, FromServer, IsPrefix

\* A packet counted is forwarded unless there was none.
LEMMA CountEffect ==
  ASSUME TypeInv, i < 2, NEW h \in Hosts \cup {Garbage}, NEW ok \in BOOLEAN, CountAndForward(h, ok)
  PROVE  /\ i' \in 0..2 /\ forwarded' \in Seq(Forwards) /\ Len(forwarded') <= i'
         /\ \/ forwarded' = forwarded
            \/ /\ ok /\ h \in Hosts /\ (FromClient(h) \/ FromServer(h))
               /\ forwarded' = Append(forwarded, [from |-> h, to |-> Destination(h)])
<1>0. i \in 0..2 /\ forwarded \in Seq(Forwards) /\ Len(forwarded) \in Nat /\ Len(forwarded) <= i
  BY LenProperties DEF TypeInv, TypeOK, Forwards
<1>1. CASE FromClient(h) \/ FromServer(h)
  <2> DEFINE f == [from |-> h, to |-> Destination(h)]
  <2>1. h \in Hosts
    BY <1>1, GarbageIsNobody
  <2>2. f \in Forwards
    BY <2>1 DEF Forwards, Destination
  <2>3. Append(forwarded, f) \in Seq(Forwards) /\ Len(Append(forwarded, f)) = Len(forwarded) + 1
    BY <1>0, <2>2, AppendProperties
  <2>4. i' = i + 1 /\ forwarded' = IF ok THEN Append(forwarded, f) ELSE forwarded
    BY <1>1 DEF CountAndForward
  <2> QED BY <1>0, <1>1, <2>1, <2>3, <2>4
<1>2. CASE ~(FromClient(h) \/ FromServer(h))
  BY <1>0, <1>2 DEF CountAndForward
<1> QED BY <1>1, <1>2

LEMMA InitTypes == Init => TypeInv
<1> SUFFICES ASSUME Init PROVE TypeInv
  OBVIOUS
<1>1. queue \in Seq(Hosts) /\ forwarded \in Seq(Forwards) /\ Len(forwarded) = 0
  BY EmptySeq DEF Init
<1> QED BY <1>1, SetupLength, IbProxyAssumption DEF Init, TypeInv, TypeOK, Forwards

LEMMA NextTypes == TypeInv /\ [Next]_vars => TypeInv'
<1> SUFFICES ASSUME TypeInv, [Next]_vars PROVE TypeInv'
  OBVIOUS
<1> USE DEF TypeInv, TypeOK, Forwards
<1>1. CASE SetupStep
  BY <1>1, SetupLength DEF SetupStep
<1>2. CASE SetupError
  BY <1>2 DEF SetupError
<1>3. CASE ForwardNext
  <2>1. Head(queue) \in Hosts /\ Tail(queue) \in Seq(Hosts)
    BY <1>3, HeadTailProperties DEF ForwardNext
  <2>2. PICK ok \in {TRUE, ~SendFails} : CountAndForward(Head(queue), ok)
    BY <1>3 DEF ForwardNext
  <2>3. ok \in BOOLEAN
    BY IbProxyAssumption
  <2>4. i' \in 0..2 /\ forwarded' \in Seq(Forwards) /\ Len(forwarded') <= i'
    BY <1>3, <2>1, <2>2, <2>3, CountEffect DEF ForwardNext
  <2> QED BY <1>3, <2>1, <2>4 DEF ForwardNext
<1>4. CASE ReceiveError
  <2>1. sender_hostname' \in Hosts \cup {Garbage}
    BY <1>4 DEF ReceiveError
  <2>2. i' \in 0..2 /\ forwarded' \in Seq(Forwards) /\ Len(forwarded') <= i'
    BY <1>4, <2>1, CountEffect DEF ReceiveError
  <2> QED BY <1>4, <2>1, <2>2 DEF ReceiveError
<1>5. CASE Return
  BY <1>5, EmptySeq DEF Return
<1>6. ASSUME NEW h \in Hosts, Arrive(h) PROVE TypeInv'
  <2>1. Append(queue, h) \in Seq(Hosts)
    BY AppendProperties
  <2>2. queue' \in Seq(Hosts)
    BY <1>6, <2>1 DEF Arrive
  <2>3. sent' \in [Hosts -> 0..MaxDatagrams]
    BY <1>6, IbProxyAssumption DEF Arrive
  <2> QED BY <1>6, <2>2, <2>3 DEF Arrive
<1>7. CASE UNCHANGED vars
  BY <1>7 DEF vars
<1> QED BY <1>1, <1>2, <1>3, <1>4, <1>5, <1>6, <1>7 DEF Next, ProgramStep

THEOREM Counts == Spec => []TypeInv
BY InitTypes, NextTypes, PTL DEF Spec

\* Every variable keeps its type, and no third datagram is ever counted, whoever
\* sends and whatever recvfrom() returns.
THEOREM IbTypes == Spec => []TypeOK
<1>1. TypeInv => TypeOK
  BY DEF TypeInv
<1> QED BY <1>1, Counts, PTL

-----------------------------------------------------------------------------

\* What BothServed presupposes: each host sends once.
SendOnce == MaxDatagrams = 1

\* The strengthening of BothServed: no host is twice among those that wait and
\* those that were served, and who was served begins like a peer.
ServedInv ==
  /\ \A n \in 1..Len(queue) : sent[queue[n]] = 1
  /\ \A n \in 1..Len(forwarded) :
       /\ sent[forwarded[n].from] = 1
       /\ FromClient(forwarded[n].from) \/ FromServer(forwarded[n].from)
  /\ \A k, n \in 1..Len(queue) : queue[k] = queue[n] => k = n
  /\ \A k, n \in 1..Len(forwarded) : forwarded[k].from = forwarded[n].from => k = n
  /\ \A k \in 1..Len(queue), n \in 1..Len(forwarded) : queue[k] # forwarded[n].from

LEMMA InitServed == Init => ServedInv
<1> SUFFICES ASSUME Init PROVE ServedInv
  OBVIOUS
<1>1. Len(queue) = 0 /\ Len(forwarded) = 0
  BY DEF Init
<1> QED BY <1>1 DEF ServedInv

\* A host that sends has not sent before.
LEMMA ArriveServed ==
  ASSUME SendOnce, TypeInv, ServedInv, NEW h \in Hosts, Arrive(h)
  PROVE  ServedInv'
<1>1. sent[h] = 0 /\ sent'[h] = 1 /\ \A g \in Hosts : g # h => sent'[g] = sent[g]
  BY DEF Arrive, SendOnce, TypeInv, TypeOK
<1>2. forwarded' = forwarded
  BY DEF Arrive
<1>3. /\ Len(queue) \in Nat /\ Len(forwarded) \in Nat
      /\ \A n \in 1..Len(queue) : queue[n] \in Hosts /\ queue[n] # h
      /\ \A n \in 1..Len(forwarded) : forwarded[n].from \in Hosts /\ forwarded[n].from # h
  <2>1. Len(queue) \in Nat /\ \A n \in 1..Len(queue) : queue[n] \in Hosts
    BY LenProperties, ElementOfSeq DEF TypeInv, TypeOK
  <2>2. Len(forwarded) \in Nat /\ \A n \in 1..Len(forwarded) : forwarded[n] \in Forwards
    BY LenProperties, ElementOfSeq DEF TypeInv, TypeOK, Forwards
  <2> QED BY <1>1, <2>1, <2>2 DEF ServedInv, Forwards
<1>4. CASE queue' = queue
  BY <1>1, <1>2, <1>3, <1>4 DEF ServedInv
<1>5. CASE queue' = Append(queue, h)
  <2>1. /\ Len(queue') = Len(queue) + 1 /\ queue'[Len(queue) + 1] = h
        /\ \A n \in 1..Len(queue) : queue'[n] = queue[n]
    BY <1>5, AppendProperties DEF TypeInv, TypeOK
  <2> HIDE <1>5
  <2>2. \A n \in 1..Len(queue') : n = Len(queue) + 1 \/ n \in 1..Len(queue)
    BY <1>3, <2>1
  <2> QED BY <1>1, <1>2, <1>3, <2>1, <2>2 DEF ServedInv
<1> QED BY <1>4, <1>5 DEF Arrive

\* The head of the queue leaves it, and may be served.
LEMMA ForwardServed ==
  ASSUME SendOnce, TypeInv, ServedInv, ForwardNext
  PROVE  ServedInv'
<1> DEFINE h == Head(queue)
<1>1. /\ h \in Hosts /\ Len(queue') = Len(queue) - 1 /\ Len(queue) \in Nat \ {0}
      /\ \A n \in 1..Len(queue') : queue'[n] = queue[n + 1]
      /\ h = queue[1]
  BY HeadTailProperties, LenProperties, EmptySeq DEF ForwardNext, TypeInv, TypeOK
<1>2. sent' = sent
  BY DEF ForwardNext
<1>3. \/ forwarded' = forwarded
      \/ /\ FromClient(h) \/ FromServer(h)
         /\ forwarded' = Append(forwarded, [from |-> h, to |-> Destination(h)])
  <2>1. PICK ok \in {TRUE, ~SendFails} : CountAndForward(h, ok)
    BY DEF ForwardNext
  <2>2. ok \in BOOLEAN
    BY IbProxyAssumption
  <2> QED BY <1>1, <2>1, <2>2, CountEffect DEF ForwardNext
<1>4. /\ \A n \in 1..Len(queue') : n + 1 \in 1..Len(queue) /\ queue'[n] = queue[n + 1]
      /\ 1 \in 1..Len(queue)
  BY <1>1
<1>5. \A n \in 1..Len(queue') : queue'[n] # h
  BY <1>1, <1>4 DEF ServedInv
<1>6. CASE forwarded' = forwarded
  BY <1>2, <1>4, <1>6 DEF ServedInv
<1>7. CASE (FromClient(h) \/ FromServer(h))
           /\ forwarded' = Append(forwarded, [from |-> h, to |-> Destination(h)])
  <2> DEFINE f == [from |-> h, to |-> Destination(h)]
  <2>1. f \in Forwards /\ forwarded \in Seq(Forwards)
    BY <1>1 DEF Forwards, Destination, TypeInv, TypeOK
  <2>2. /\ Len(forwarded') = Len(forwarded) + 1 /\ forwarded'[Len(forwarded) + 1] = f
        /\ \A n \in 1..Len(forwarded) : forwarded'[n] = forwarded[n]
    BY <1>7, <2>1, AppendProperties
  <2>3. Len(forwarded) \in Nat /\ f.from = h
    BY <2>1, LenProperties
  <2>4. \A n \in 1..Len(forwarded') : n = Len(forwarded) + 1 \/ n \in 1..Len(forwarded)
    BY <2>2, <2>3
  <2>5. \A n \in 1..Len(forwarded) : forwarded[n].from # h
    BY <1>1, <1>4 DEF ServedInv
  <2>6. (FromClient(h) \/ FromServer(h)) /\ sent[h] = 1
    BY <1>1, <1>4, <1>7 DEF ServedInv
  <2> HIDE DEF f, h
  <2>7. \A n \in 1..Len(forwarded') :
          \/ forwarded'[n].from = h /\ n = Len(forwarded) + 1
          \/ n \in 1..Len(forwarded) /\ forwarded'[n].from = forwarded[n].from
    BY <2>2, <2>3, <2>4
  <2>8. /\ \A n \in 1..Len(queue') : sent'[queue'[n]] = 1
        /\ \A k, n \in 1..Len(queue') : queue'[k] = queue'[n] => k = n
    <3>1. /\ \A n \in 1..Len(queue) : sent[queue[n]] = 1
          /\ \A k, n \in 1..Len(queue) : queue[k] = queue[n] => k = n
      BY DEF ServedInv
    <3>2. \A n \in 1..Len(queue') : sent'[queue'[n]] = 1
      BY <1>2, <1>4, <3>1
    <3> QED BY <1>1, <1>4, <3>1, <3>2
  <2>9. \A n \in 1..Len(forwarded') :
          /\ sent'[forwarded'[n].from] = 1
          /\ FromClient(forwarded'[n].from) \/ FromServer(forwarded'[n].from)
    BY <1>2, <2>6, <2>7 DEF ServedInv
  <2>10. \A k, n \in 1..Len(forwarded') : forwarded'[k].from = forwarded'[n].from => k = n
    BY <2>5, <2>7 DEF ServedInv
  <2>11. \A k \in 1..Len(queue'), n \in 1..Len(forwarded') : queue'[k] # forwarded'[n].from
    BY <1>4, <1>5, <2>7 DEF ServedInv
  <2> QED BY <2>8, <2>9, <2>10, <2>11 DEF ServedInv
<1> QED BY <1>3, <1>6, <1>7

LEMMA NextServed ==
  ASSUME SendOnce, TypeInv, ServedInv, [Next]_vars
  PROVE  ServedInv'
<1>1. CASE SetupStep \/ SetupError \/ UNCHANGED vars
  BY <1>1 DEF SetupStep, SetupError, vars, ServedInv
<1>2. CASE ForwardNext
  BY <1>2, ForwardServed
<1>3. CASE ReceiveError
  <2>1. forwarded' = forwarded
    <3>1. sender_hostname' \in Hosts \cup {Garbage}
      BY <1>3 DEF ReceiveError, TypeInv, TypeOK
    <3> QED BY <1>3, <3>1, CountEffect DEF ReceiveError
  <2> QED BY <1>3, <2>1 DEF ReceiveError, ServedInv
<1>4. CASE Return
  <2>1. Len(queue') = 0 /\ UNCHANGED <<sent, forwarded>>
    BY <1>4 DEF Return
  <2> QED BY <2>1 DEF ServedInv
<1>5. ASSUME NEW h \in Hosts, Arrive(h) PROVE ServedInv'
  BY <1>5, ArriveServed
<1> QED BY <1>1, <1>2, <1>3, <1>4, <1>5 DEF Next, ProgramStep

\* Who begins like a peer and is neither the client nor the server is a host that
\* BeginsLikePeer speaks of.
LEMMA PeerOrLikePeer ==
  ASSUME NEW h, FromClient(h) \/ FromServer(h)
  PROVE  h \in {client_address, server_address} \/ BeginsLikePeer(h)
BY DEF FromClient, FromServer, BeginsLikePeer

\* When each host sends once, the proxy ends only after it has served two different
\* hosts, unless an error was counted; these are the client and the server, or one
\* of them begins like a peer.
THEOREM BothAreServed == ASSUME SendOnce PROVE Spec => []BothServed
<1>1. TypeInv /\ ServedInv => BothServed
  <2> SUFFICES ASSUME TypeInv, ServedInv, pc = "returned", Len(forwarded) = i
               PROVE  /\ \E g, h \in Served : g # h
                      /\ \/ Served = {client_address, server_address}
                         \/ \E h \in Served : BeginsLikePeer(h)
    BY DEF BothServed
  <2> DEFINE g == forwarded[1].from
             h == forwarded[2].from
  <2>1. Len(forwarded) = 2 /\ DOMAIN forwarded = 1..2
    BY LenProperties DEF TypeInv, TypeOK
  <2>2. /\ FromClient(g) \/ FromServer(g)
        /\ FromClient(h) \/ FromServer(h)
        /\ g # h
    BY <2>1 DEF ServedInv
  <2>3. Served = {g, h}
    BY <2>1 DEF Served
  <2> HIDE DEF g, h
  <2>4. /\ g \in {client_address, server_address} \/ BeginsLikePeer(g)
        /\ h \in {client_address, server_address} \/ BeginsLikePeer(h)
    BY <2>2, PeerOrLikePeer
  <2>5. CASE g \in {client_address, server_address} /\ h \in {client_address, server_address}
    BY <2>2, <2>3, <2>5
  <2>6. CASE BeginsLikePeer(g) \/ BeginsLikePeer(h)
    BY <2>2, <2>3, <2>6
  <2> QED BY <2>4, <2>5, <2>6
<1>2. TypeInv /\ ServedInv /\ [Next]_vars => ServedInv'
  BY NextServed
<1> QED BY <1>1, <1>2, InitServed, Counts, PTL DEF Spec

-----------------------------------------------------------------------------

FromPeer(h) == FromClient(h) \/ FromServer(h)

\* The head of the queue is counted if it is a peer's; the rest moves up.
LEMMA ForwardEnough ==
  ASSUME TypeInv, ForwardNext, Enough
  PROVE  Enough'
<1> DEFINE h == Head(queue)
<1>1. /\ h = queue[1] /\ h \in Hosts /\ Len(queue) \in Nat \ {0}
      /\ DOMAIN queue = 1..Len(queue) /\ DOMAIN queue' = 1..(Len(queue) - 1)
      /\ \A n \in 1..(Len(queue) - 1) : queue'[n] = queue[n + 1]
  BY HeadTailProperties, LenProperties, EmptySeq DEF ForwardNext, TypeInv, TypeOK
<1>2. i \in 0..1 /\ i' = IF FromPeer(h) THEN i + 1 ELSE i
  BY DEF ForwardNext, CountAndForward, FromPeer, TypeInv, TypeOK
<1>3. \A n \in DOMAIN queue : n # 1 => n - 1 \in DOMAIN queue' /\ queue'[n - 1] = queue[n]
  BY <1>1
<1> HIDE DEF h
<1>4. CASE FromPeer(h)
  <2>1. CASE i = 1
    BY <1>2, <1>4, <2>1 DEF Enough
  <2>2. CASE i = 0
    <3>1. PICK n \in DOMAIN queue : n # 1 /\ FromPeer(queue[n])
      BY <2>2 DEF Enough, FromPeer
    <3>2. n - 1 \in DOMAIN queue' /\ FromPeer(queue'[n - 1])
      BY <1>3, <3>1
    <3> QED BY <1>2, <1>4, <2>2, <3>2 DEF Enough, FromPeer
  <2> QED BY <1>2, <2>1, <2>2
<1>5. CASE ~FromPeer(h)
  <2>1. CASE i = 1
    <3>1. PICK n \in DOMAIN queue : n # 1 /\ FromPeer(queue[n])
      BY <1>1, <1>5, <2>1 DEF Enough, FromPeer
    <3>2. n - 1 \in DOMAIN queue' /\ FromPeer(queue'[n - 1])
      BY <1>3, <3>1
    <3> QED BY <1>2, <1>5, <2>1, <3>2 DEF Enough, FromPeer
  <2>2. CASE i = 0
    <3>1. PICK k, n \in DOMAIN queue : k # n /\ FromPeer(queue[k]) /\ FromPeer(queue[n])
      BY <2>2 DEF Enough, FromPeer
    <3>2. k # 1 /\ n # 1 /\ k \in Int /\ n \in Int
      BY <1>1, <1>5, <3>1
    <3>3. /\ k - 1 \in DOMAIN queue' /\ FromPeer(queue'[k - 1])
          /\ n - 1 \in DOMAIN queue' /\ FromPeer(queue'[n - 1])
          /\ k - 1 # n - 1
      BY <1>3, <3>1, <3>2
    <3> QED BY <3>3 DEF Enough, FromPeer
  <2> QED BY <1>2, <2>1, <2>2
<1> QED BY <1>4, <1>5

LEMMA NextEnough ==
  ASSUME TypeInv, [Next]_vars, Enough
  PROVE  Enough'
<1>1. CASE SetupStep \/ SetupError \/ UNCHANGED vars
  BY <1>1 DEF SetupStep, SetupError, vars, Enough
<1>2. CASE ForwardNext
  BY <1>2, ForwardEnough
<1>3. CASE ReceiveError
  <2>1. queue' = queue /\ i \in 0..1 /\ (i' = i \/ i' = i + 1)
    BY <1>3 DEF ReceiveError, CountAndForward, TypeInv, TypeOK
  <2>2. CASE i = 1
    BY <2>1, <2>2 DEF Enough
  <2>3. CASE i = 0
    <3>1. PICK k, n \in DOMAIN queue : k # n /\ FromPeer(queue[k]) /\ FromPeer(queue[n])
      BY <2>3 DEF Enough, FromPeer
    <3> QED BY <2>1, <2>3, <3>1 DEF Enough, FromPeer
  <2> QED BY <2>1, <2>2, <2>3
<1>4. CASE Return
  BY <1>4 DEF Return, Enough
<1>5. ASSUME NEW h \in Hosts, Arrive(h) PROVE Enough'
  <2>1. CASE queue' = queue
    BY <1>5, <2>1 DEF Arrive, Enough
  <2>2. CASE queue' = Append(queue, h)
    <3>1. \A n \in DOMAIN queue : n \in DOMAIN queue' /\ queue'[n] = queue[n]
      BY <2>2, AppendProperties, LenProperties DEF TypeInv, TypeOK
    <3>2. i' = i
      BY <1>5 DEF Arrive
    <3> HIDE <2>2
    <3> QED BY <3>1, <3>2 DEF Enough
  <2> QED BY <1>5, <2>1, <2>2 DEF Arrive
<1> QED BY <1>1, <1>2, <1>3, <1>4, <1>5 DEF Next, ProgramStep

\* No datagram of a peer is taken from the socket without being counted, whoever
\* sends and whatever recvfrom() returns: the safety half of Ends.
THEOREM NothingIsUsedUp == Spec => EnoughStays
<1>1. TypeInv /\ [Next]_vars => [Enough => Enough']_vars
  BY NextEnough
<1> QED BY <1>1, Counts, PTL DEF Spec, EnoughStays
================================================================================
