----------------------------- MODULE ExchangeSystem -----------------------------
(***************************************************************************)
(* The client and the server of xch-qpn.c, the proxy of ib_proxy_two.c     *)
(* between them, and the UDP network.  After the exchange the RDMA stacks  *)
(* of the two virtual machines send through the same proxy port.           *)
(***************************************************************************)
EXTENDS Integers, Sequences

CONSTANTS
  MaxRestarts, CanFail, ReceiveFails,     \* see XchQpn
  SetupFails,               \* see IbProxyTwo
  Loses,                    \* whether the network loses datagrams
  Strays                    \* whether others send datagrams to the proxy

ASSUME ExchangeAssumption ==
  /\ MaxRestarts \in Nat
  /\ {CanFail, ReceiveFails, SetupFails, Loses, Strays} \subseteq BOOLEAN

VARIABLES net, xpc, bound, got, cinf, inc,
          step, socket, client_flag, server_flag, client_port, server_port

X == INSTANCE XchQpn
P == INSTANCE IbProxyTwo

xchVars   == <<xpc, bound, got, cinf, inc>>
proxyVars == <<step, socket, client_flag, server_flag, client_port, server_port>>
vars == <<net, xchVars, proxyVars>>

Partner(r) == IF r = "client" THEN "server" ELSE "client"

Init == net = {} /\ X!XchInit /\ P!ProxyInit

EndpointStep(r) == X!XchStep(r) /\ UNCHANGED proxyVars

ProxyTurn == (P!SetupStep \/ P!ProxyStep \/ P!ProxyStops) /\ UNCHANGED xchVars

Others == UNCHANGED <<xchVars, proxyVars>>

\* Nothing listens at the destination of a datagram.
Unreachable(m) ==
  \/ m.dst = "proxy" /\ step < 4
  \/ m.dst = "proxy" /\ step = P!EXITED
  \/ m.dst \in X!Endpoint /\ ~bound[m.dst]

Drop == Others /\ \E m \in net : (Loses \/ Unreachable(m)) /\ net' = net \ {m}

\* A datagram of anybody else, too short to be connection information.
Stray == Others /\ Strays /\ net' = net \cup {X!Datagram("other", "proxy", X!NoInfo, 1)}

\* RDMA packets: the client sends once it has its partner's information, the
\* stack of the server answers what it gets.
RdmaPort(r) == IF r = "client" THEN P!client_port_std ELSE P!server_port_std
RdmaPacket(r) == X!Datagram(RdmaPort(r), "proxy", X!Info(r), 4096)

RdmaRequest ==
  /\ xpc["client"] = "done"
  /\ net' = net \cup {RdmaPacket("client")}
  /\ Others

RdmaAnswer ==
  /\ \E m \in net :
       /\ m.dst = "server_rdma"
       /\ net' = (net \ {m}) \cup IF xpc["server"] = "done" THEN {RdmaPacket("server")} ELSE {}
  /\ Others

RdmaArrives == Others /\ \E m \in net : m.dst = "client_rdma" /\ net' = net \ {m}

Next ==
  \/ \E r \in X!Endpoint : EndpointStep(r)
  \/ \E r \in X!Endpoint : X!Restart(r) /\ UNCHANGED proxyVars
  \/ ProxyTurn
  \/ Drop \/ Stray
  \/ RdmaRequest \/ RdmaAnswer \/ RdmaArrives

\* The operating systems run both processes and the proxy.
Fairness ==
  /\ \A r \in X!Endpoint : WF_vars(EndpointStep(r))
  /\ WF_vars(ProxyTurn)

Spec == Init /\ [][Next]_vars /\ Fairness

-----------------------------------------------------------------------------

Datagrams ==
  [port : {"client_xch", "server_xch", "9001", "8001", "other"},
   dst  : {"proxy", "client", "server", "client_rdma", "server_rdma"},
   info : [role : X!Endpoint \cup {"none"}, inc : 0..MaxRestarts],
   len  : {1, 100, 4096}]

\* Every variable of both programs and every datagram has its type.
TypeOK ==
  /\ X!XchTypeOK /\ P!ProxyTypeOK
  /\ net \subseteq Datagrams
  /\ got \in [X!Endpoint -> Datagrams \cup {X!NoMessage}]
  /\ cinf \in [X!Endpoint -> [role : X!Endpoint \cup {"none"}, inc : 0..MaxRestarts]]

\* When no process is started again, the proxy records the port of the client
\* and then that of the server (comment at ib_proxy_two.c:257).
RolesLearnt ==
  /\ client_flag => client_port = "client_xch"
  /\ server_flag => server_port = "server_xch"

\* Who owns a port of the exchange, and the port the proxy took for that of the
\* partner of process r.
Owner(port) ==
  CASE port = "client_xch" -> "client" [] port = "server_xch" -> "server" [] OTHER -> "none"
PartnerPort(r) == IF r = "server" THEN client_port ELSE server_port

\* However often both processes are started again, whatever fails or is lost and
\* whoever else sends: an exchange that ends well has left the information of
\* whoever the proxy took for the partner, and nobody else's.  The server never
\* gets its own when the client spoke first, and what a failing recvfrom() left
\* empty never passes for an answer: only a stranger's datagram, which the proxy
\* fills up to 4096 bytes, has nothing in it and is accepted.
LearnsFromRecorded ==
  \A r \in X!Endpoint : xpc[r] = "done" => cinf[r].role = Owner(PartnerPort(r))

\* Every RDMA packet the proxy passes on goes to the side that did not send it,
\* and none is taken for connection information.
RdmaCrosses ==
  \A m \in net :
    /\ m.dst = "server_rdma" <=> m.dst # "proxy" /\ m.port = P!client_port_std
    /\ m.dst = "client_rdma" <=> m.dst # "proxy" /\ m.port = P!server_port_std

\* Whose information a process has.  The server has it from the datagram on:
\* its answer may reach the client before the server looks at what it got.
learntFrom ==
  [r \in X!Endpoint |->
     IF xpc[r] = "done" THEN cinf[r].role
     ELSE IF r = "server" /\ xpc[r] \in {"send", "parse"} THEN got[r].info.role
     ELSE "none"]

IE == INSTANCE InfoExchange WITH learnt <- learntFrom

\* The exchange implements its abstract specification: the server has the
\* information of the client before the client has that of the server.
ImplementsInfoExchange == IE!Spec

\* When the proxy listens and the server waits before the client is started,
\* both finish the exchange.
ReadyForClient == step >= 4 /\ xpc["server"] = "recv" /\ xpc["client"] = "start"

ExchangeCompletes ==
  ReadyForClient ~> \A r \in X!Endpoint : xpc[r] = "done"

\* A datagram is under way that the proxy has passed or will pass on to r.
UnderWay(r) ==
  \E m \in net :
    \/ m.dst = r
    \/ m.dst = "proxy" /\ (IF r = "server" THEN ~client_flag ELSE client_flag /\ ~server_flag)

\* Nobody waits for a datagram that does not come.
OnItsWay ==
  /\ step \in 4..(P!EXITED - 1)
  /\ xpc["server"] # "start" /\ \A r \in X!Endpoint : xpc[r] # "failed"
  /\ xpc["server"] = "recv" => xpc["client"] \in {"start", "send"} \/ UnderWay("server")
  /\ xpc["client"] = "recv" => xpc["server"] \in {"recv", "send"} \/ UnderWay("client")

\* Once the proxy listens and the server waits for the client, the three never
\* get into a state in which both sides wait: neither has a timeout, and the one
\* datagram each way has to reach the process that is in recvfrom().
ExchangeStaysAlive == [][OnItsWay => OnItsWay']_vars

\* The proxy forwards only after every socket was created: the code prints an
\* error and exits when it finds none (ib_proxy_two.c:192-195, 204-207, 216-219,
\* 228-231).
RunsWithSockets == P!Running => \A s \in P!Forwarding : socket[s]
================================================================================
