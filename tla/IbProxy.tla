--------------------------------- MODULE IbProxy ---------------------------------
(***************************************************************************)
(* The UDP proxy that knows its peers by address (programs/udp-proxy/      *)
(* ib_proxy.c): it sets up two sockets, forwards two datagrams of          *)
(* connection information and ends.  RDMA traffic is a TODO of the code.   *)
(*                                                                         *)
(* All addresses are 172.0.0.x; a host is the sequence of the digits of x. *)
(***************************************************************************)
EXTENDS Integers, SequencesExt

CONSTANTS
  MaxDatagrams,     \* bound: the datagrams each host sends
  Hosts,            \* who sends to the exchange port
  SetupFails,       \* whether getaddrinfo(), socket() and bind() may fail
  ReceiveFails,     \* whether recvfrom() may fail
  SendFails         \* whether sendto() may fail

ASSUME IbProxyAssumption ==
  /\ MaxDatagrams \in Nat
  /\ Hosts \subseteq Seq(0..9)
  /\ SetupFails \in BOOLEAN /\ ReceiveFails \in BOOLEAN /\ SendFails \in BOOLEAN

VARIABLES
  sent,             \* sent[h]: the number of datagrams h has sent
  queue,            \* what waits at sd_xch, in order of arrival
  pc,               \* where the program is
  step,             \* the next call of prepare_conn_resources()
  sender_hostname,  \* of the last datagram; Garbage before the first
  i,                \* the number of packets counted as forwarded
  forwarded         \* history: the datagrams forwarded, with their destination

vars == <<sent, queue, pc, step, sender_hostname, i, forwarded>>

client_address == <<1, 5>>
server_address == <<1, 6>>
Garbage        == <<>>

Setup == <<"xch_addr", "xch_socket", "xch_bind", "rdma_addr", "rdma_socket", "rdma_bind",
           "client_addr", "server_addr">>

Init ==
  /\ sent = [h \in Hosts |-> 0]
  /\ queue = <<>>
  /\ pc = "setup" /\ step = 1
  /\ sender_hostname = Garbage
  /\ i = 0
  /\ forwarded = <<>>

\* A host sends; the datagram is lost unless the exchange socket is bound, and
\* may be lost anyway.
Arrive(h) ==
  /\ sent[h] < MaxDatagrams
  /\ sent' = [sent EXCEPT ![h] = @ + 1]
  /\ queue' \in {queue} \cup
       IF step > 3 /\ pc \in {"setup", "forward"} THEN {Append(queue, h)} ELSE {}
  /\ UNCHANGED <<pc, step, sender_hostname, i, forwarded>>

SetupStep ==
  /\ pc = "setup"
  /\ step' = step + 1
  /\ pc' = IF step = Len(Setup) THEN "forward" ELSE pc
  /\ UNCHANGED <<sent, queue, sender_hostname, i, forwarded>>

\* prepare_sock_exit with rc = 1: server_res was never assigned, whichever call
\* failed, and is freed; what freeaddrinfo() does with it is undefined.
SetupError ==
  /\ pc = "setup" /\ SetupFails
  /\ pc' \in {"exited", "crashed"}
  /\ UNCHANGED <<sent, queue, step, sender_hostname, i, forwarded>>

\* Mutant: the length compared is that of a shorter address, 172.0.0.1.
FromClient_Short(h) == IsPrefix(<<1>>, h) /\ h # server_address

FromClient(h) == IsPrefix(client_address, h)
FromServer(h) == IsPrefix(server_address, h) /\ ~FromClient(h)

\* Both branches send to res_server_xch.
Destination(h) == server_address

\* Mutant: the server's packet is forwarded without being counted.
CountAndForward_ClientOnly(h, ok) ==
  /\ i' = IF FromClient(h) THEN i + 1 ELSE i
  /\ forwarded' = IF ok /\ (FromClient(h) \/ FromServer(h))
                  THEN Append(forwarded, [from |-> h, to |-> Destination(h)])
                  ELSE forwarded

\* A sendto() that fails counts all the same.
CountAndForward(h, ok) ==
  IF FromClient(h) \/ FromServer(h)
  THEN /\ i' = i + 1
       /\ forwarded' = IF ok THEN Append(forwarded, [from |-> h, to |-> Destination(h)])
                       ELSE forwarded
  ELSE UNCHANGED <<i, forwarded>>

\* Mutant: i <= 2 for i < 2.
ForwardNext_OneMore ==
  /\ pc = "forward" /\ i <= 2 /\ queue # <<>>
  /\ sender_hostname' = Head(queue)
  /\ queue' = Tail(queue)
  /\ \E ok \in {TRUE, ~SendFails} : CountAndForward(Head(queue), ok)
  /\ UNCHANGED <<sent, pc, step>>

ForwardNext ==
  /\ pc = "forward" /\ i < 2 /\ queue # <<>>
  /\ sender_hostname' = Head(queue)
  /\ queue' = Tail(queue)
  /\ \E ok \in {TRUE, ~SendFails} : CountAndForward(Head(queue), ok)
  /\ UNCHANGED <<sent, pc, step>>

\* The result of recvfrom() is not looked at: the name of the last sender is
\* taken, and before the first datagram whatever the stack holds.  A sendto() of
\* -1 bytes always fails.
ReceiveError ==
  /\ pc = "forward" /\ i < 2 /\ ReceiveFails
  /\ sender_hostname' \in IF sender_hostname = Garbage THEN Hosts \cup {Garbage}
                          ELSE {sender_hostname}
  /\ CountAndForward(sender_hostname', FALSE)
  /\ UNCHANGED <<sent, queue, pc, step>>

\* close(sd_xch) and the end of main().
Return ==
  /\ pc = "forward" /\ i = 2
  /\ pc' = "returned"
  /\ queue' = <<>>
  /\ UNCHANGED <<sent, step, sender_hostname, i, forwarded>>

ProgramStep == SetupStep \/ ForwardNext \/ Return

Next == ProgramStep \/ SetupError \/ ReceiveError \/ \E h \in Hosts : Arrive(h)

\* The program is scheduled; no call has to fail.
Spec == Init /\ [][Next]_vars /\ WF_vars(ProgramStep)

-----------------------------------------------------------------------------

\* Every variable has its type; no third datagram is ever counted, whatever
\* recvfrom() returns.
TypeOK ==
  /\ sent \in [Hosts -> 0..MaxDatagrams]
  /\ queue \in Seq(Hosts)
  /\ pc \in {"setup", "forward", "returned", "exited", "crashed"}
  /\ step \in 1..(Len(Setup) + 1)
  /\ sender_hostname \in Hosts \cup {Garbage}
  /\ i \in 0..2
  /\ forwarded \in Seq([from : Hosts, to : {client_address, server_address}])

\* The hosts that were served.
Served == {forwarded[n].from : n \in DOMAIN forwarded}

\* A host that is no peer but whose address begins with that of one, as
\* 172.0.0.150 begins with 172.0.0.15.
BeginsLikePeer(h) ==
  /\ h \notin {client_address, server_address}
  /\ IsPrefix(client_address, h) \/ IsPrefix(server_address, h)

\* When each host sends once and every packet counted was sent, the proxy has
\* served two different hosts when it ends (ib_proxy.c:165), and these are its
\* peers unless a host whose address begins like a peer's was taken for one:
\* strncmp() compares no further (171, 179).  Other strangers and errors of
\* recvfrom() make no difference.
BothServed ==
  pc = "returned" /\ Len(forwarded) = i =>
    /\ \E g, h \in Served : g # h
    /\ \/ Served = {client_address, server_address}
       \/ \E h \in Served : BeginsLikePeer(h)

\* Once the information of both sides waits at the socket, the proxy ends: no
\* stranger and no error keeps it from counting to two, nor does a sendto() that
\* fails.
Ends ==
  (pc = "forward" /\ {client_address, server_address} \subseteq ToSet(queue)) ~> pc = "returned"

\* The packets counted and the peers' datagrams that wait are two together.
Enough ==
  LET FromPeer(n) == FromClient(queue[n]) \/ FromServer(queue[n])
  IN  \/ i = 2
      \/ i = 1 /\ \E n \in DOMAIN queue : FromPeer(n)
      \/ \E k, n \in DOMAIN queue : k # n /\ FromPeer(k) /\ FromPeer(n)

\* Once there is enough for the loop to end there always is: none of the peers'
\* datagrams is taken from the socket without being counted, whatever strangers
\* and errors come in between (ib_proxy.c:165-187).
EnoughStays == [][Enough => Enough']_vars

\* What the server sends goes to the client: res_client_xch is the "resolved
\* address for client conn information exchange" (ib_proxy.c:13).
ServerReachesClient ==
  \A n \in DOMAIN forwarded : forwarded[n].from = server_address => forwarded[n].to = client_address
================================================================================
