-------------------------- MODULE ExchangeSystem_proofs --------------------------
(***************************************************************************)
(* Proofs about the exchange through the learning proxy, for any number of *)
(* restarts, with loss, failing calls and datagrams of others.             *)
(***************************************************************************)
EXTENDS ExchangeSystem, TLAPS

USE DEF X!Endpoint

LEMMA DatagramType ==
  ASSUME NEW port \in {"client_xch", "server_xch", "9001", "8001", "other"},
         NEW dst \in {"proxy", "client", "server", "client_rdma", "server_rdma"},
         NEW info \in [role : X!Endpoint \cup {"none"}, inc : 0..MaxRestarts],
         NEW len \in {1, 100, 4096}
  PROVE  X!Datagram(port, dst, info, len) \in Datagrams
BY DEF X!Datagram, Datagrams

LEMMA InfoType ==
  ASSUME inc \in [X!Endpoint -> 0..MaxRestarts], NEW r \in X!Endpoint
  PROVE  X!Info(r) \in [role : X!Endpoint \cup {"none"}, inc : 0..MaxRestarts]
BY DEF X!Info

\* One step of an endpoint keeps the types.
LEMMA EndpointTypes ==
  ASSUME TypeOK, NEW r \in X!Endpoint, EndpointStep(r)
  PROVE  TypeOK'
<1> USE ExchangeAssumption DEF TypeOK, X!XchTypeOK, X!Goto, xchVars, proxyVars
<1>0. P!ProxyTypeOK'
  BY DEF EndpointStep, P!ProxyTypeOK
<1>1. CASE X!Open(r)
  BY <1>1, <1>0 DEF X!Open, EndpointStep
<1>2. CASE X!Send(r)
  <2>1. X!Datagram(X!XchPort(r), "proxy", X!Info(r), 100) \in Datagrams
    BY InfoType, DatagramType DEF X!XchPort
  <2> QED BY <1>2, <1>0, <2>1 DEF X!Send
<1>3. CASE X!Receive(r)
  BY <1>3, <1>0 DEF X!Receive
<1>4. CASE X!Parse(r)
  <2>1. got[r].info \in [role : X!Endpoint \cup {"none"}, inc : 0..MaxRestarts]
    BY DEF Datagrams, X!NoMessage, X!NoInfo, X!Datagram
  <2> QED BY <1>4, <1>0, <2>1 DEF X!Parse
<1> QED BY <1>1, <1>2, <1>3, <1>4 DEF EndpointStep, X!XchStep

\* So does the restart of a process.
LEMMA RestartTypes ==
  ASSUME TypeOK, NEW r \in X!Endpoint, X!Restart(r), UNCHANGED proxyVars
  PROVE  TypeOK'
<1> USE ExchangeAssumption DEF TypeOK, X!XchTypeOK, X!Goto, proxyVars
<1>0. P!ProxyTypeOK'
  BY DEF P!ProxyTypeOK
<1>1. inc'[r] \in 0..MaxRestarts /\ inc' \in [X!Endpoint -> 0..MaxRestarts]
  BY DEF X!Restart
<1> QED BY <1>0, <1>1 DEF X!Restart, X!NoInfo

\* What the proxy forwards is a datagram again, to where it forwards it.
LEMMA ForwardEffect ==
  ASSUME net \subseteq Datagrams, NEW m \in net, NEW s,
         NEW dst \in {"client", "server", "client_rdma", "server_rdma"}, P!Forward(m, s, dst)
  PROVE  /\ net' \subseteq Datagrams
         /\ \A d \in net' : d \in net \/ (d.dst = dst /\ d.info = m.info /\ d.port = m.port)
<1> DEFINE f == [port |-> m.port, dst |-> dst, info |-> m.info, len |-> 4096]
<1>1. f \in Datagrams
  BY DEF Datagrams
<1>2. f.dst = dst /\ f.info = m.info /\ f.port = m.port
  OBVIOUS
<1>3. net' \subseteq net \cup {f}
  BY DEF P!Forward
<1> QED BY <1>1, <1>2, <1>3

\* A turn of the proxy keeps the types.
LEMMA ProxyTypes ==
  ASSUME TypeOK, ProxyTurn
  PROVE  TypeOK'
<1> USE DEF TypeOK, xchVars
<1>0. UNCHANGED <<xpc, bound, got, cinf, inc>> /\ X!XchTypeOK'
  BY DEF ProxyTurn, X!XchTypeOK
<1>a. Len(P!Setup) = 11 /\ P!EXITED = 13
  BY DEF P!Setup, P!EXITED
<1>1. CASE P!SetupStep
  <2>1. step' \in 1..P!EXITED
    BY <1>1, <1>a DEF P!SetupStep
  <2>2. socket' \in [P!Forwarding -> BOOLEAN]
    BY <1>1 DEF P!SetupStep, P!ProxyTypeOK
  <2> QED BY <1>0, <1>1, <2>1, <2>2 DEF P!SetupStep, P!ProxyTypeOK
<1>2. CASE P!ProxyStep
  <2>1. PICK m \in net : P!FirstFromClient(m) \/ P!SecondFromServer(m) \/ P!Traffic(m)
    BY <1>2 DEF P!ProxyStep
  <2>2. net' \subseteq Datagrams /\ client_flag' \in BOOLEAN /\ server_flag' \in BOOLEAN
    BY <2>1, ForwardEffect
    DEF P!FirstFromClient, P!SecondFromServer, P!Traffic, P!ProxyTypeOK
  <2> QED BY <1>0, <1>2, <2>2 DEF P!ProxyStep, P!ProxyTypeOK
<1>3. CASE P!ProxyStops
  BY <1>0, <1>3, <1>a DEF P!ProxyStops, P!ProxyTypeOK
<1> QED BY <1>1, <1>2, <1>3 DEF ProxyTurn

\* Network, strangers and RDMA stacks add nothing but datagrams.
LEMMA OtherTypes ==
  ASSUME TypeOK, Drop \/ Stray \/ RdmaRequest \/ RdmaAnswer \/ RdmaArrives
  PROVE  TypeOK'
<1> USE ExchangeAssumption DEF TypeOK, Others, xchVars, proxyVars
<1>0. Others /\ X!XchTypeOK' /\ P!ProxyTypeOK'
  BY DEF Drop, Stray, RdmaRequest, RdmaAnswer, RdmaArrives, X!XchTypeOK, P!ProxyTypeOK
<1>1. X!Datagram("other", "proxy", X!NoInfo, 1) \in Datagrams
  BY DatagramType DEF X!NoInfo
<1>2. \A r \in X!Endpoint : RdmaPacket(r) \in Datagrams
  BY InfoType, DatagramType
  DEF RdmaPacket, RdmaPort, P!client_port_std, P!server_port_std, X!XchTypeOK
<1>3. net' \subseteq Datagrams
  BY <1>1, <1>2 DEF Drop, Stray, RdmaRequest, RdmaAnswer, RdmaArrives
<1> QED BY <1>0, <1>3

\* The initial state and every step are well-typed.
LEMMA InitTypes == Init => TypeOK
<1> SUFFICES ASSUME Init PROVE TypeOK
  OBVIOUS
<1>1. Len(P!Setup) = 11 /\ P!EXITED = 13
  BY DEF P!Setup, P!EXITED
<1>2. MaxRestarts \in Nat
  BY ExchangeAssumption
<1>3. X!XchTypeOK
  BY <1>2 DEF Init, X!XchInit, X!XchTypeOK
<1>4. P!ProxyTypeOK
  <2>0. step = 1
    BY DEF Init, P!ProxyInit
  <2>1. step \in 1..P!EXITED
    BY <1>1, <2>0
  <2>2. socket \in [P!Forwarding -> BOOLEAN]
    BY DEF Init, P!ProxyInit
  <2>3. client_flag \in BOOLEAN /\ server_flag \in BOOLEAN
    BY DEF Init, P!ProxyInit
  <2> QED BY <2>1, <2>2, <2>3 DEF P!ProxyTypeOK
<1>5. net \subseteq Datagrams /\ got \in [X!Endpoint -> Datagrams \cup {X!NoMessage}]
  BY DEF Init, X!XchInit
<1>6. cinf \in [X!Endpoint -> [role : X!Endpoint \cup {"none"}, inc : 0..MaxRestarts]]
  BY <1>2 DEF Init, X!XchInit, X!NoInfo
<1> QED BY <1>3, <1>4, <1>5, <1>6 DEF TypeOK

LEMMA NextTypes == TypeOK /\ [Next]_vars => TypeOK'
<1> SUFFICES ASSUME TypeOK, [Next]_vars PROVE TypeOK'
  OBVIOUS
<1>1. ASSUME NEW r \in X!Endpoint, EndpointStep(r) PROVE TypeOK'
  BY <1>1, EndpointTypes
<1>2. ASSUME NEW r \in X!Endpoint, X!Restart(r) /\ UNCHANGED proxyVars PROVE TypeOK'
  BY <1>2, RestartTypes
<1>3. CASE ProxyTurn
  BY <1>3, ProxyTypes
<1>4. CASE Drop \/ Stray \/ RdmaRequest \/ RdmaAnswer \/ RdmaArrives
  BY <1>4, OtherTypes
<1>5. CASE UNCHANGED vars
  BY <1>5 DEF vars, xchVars, proxyVars, TypeOK, X!XchTypeOK, P!ProxyTypeOK
<1> QED BY <1>1, <1>2, <1>3, <1>4, <1>5 DEF Next

\* Every variable and every datagram keeps its type, whatever is lost, fails or
\* is sent by others.
THEOREM ExchangeTypes == Spec => []TypeOK
<1> QED BY InitTypes, NextTypes, PTL DEF Spec

-----------------------------------------------------------------------------

\* Whether the proxy has recorded the partner of process r.
Known(r) == IF r = "server" THEN client_flag ELSE server_flag

RdmaPorts == {P!client_port_std, P!server_port_std}

\* An exchange datagram carries the information of whoever owns its port.
CarriesOwn(m) == m.port \notin RdmaPorts => m.info.role = Owner(m.port)
FromRecorded(r, m) == Known(r) /\ m.port = PartnerPort(r)

\* The strengthening of RdmaCrosses and LearnsFromRecorded: what is under way to
\* a process or was received by it comes from the port recorded for its partner,
\* and there are RDMA packets only when both ports are.
NetRoutes ==
  \A m \in net :
    /\ CarriesOwn(m)
    /\ m.dst \in X!Endpoint => FromRecorded(m.dst, m)
    /\ m.port \in RdmaPorts => server_flag

HasLearnt(r) ==
  /\ got[r].len # 0 => got[r].info.role = Owner(got[r].port) /\ FromRecorded(r, got[r])
  /\ xpc[r] = "done" => Known(r) /\ cinf[r].role = Owner(PartnerPort(r))
  /\ xpc[r] # "done" => cinf[r] = X!NoInfo

RouteInv ==
  /\ server_flag => client_flag
  /\ NetRoutes
  /\ \A r \in X!Endpoint : HasLearnt(r)
  /\ RdmaCrosses

LEMMA InitRoutes == Init => RouteInv
<1> SUFFICES ASSUME Init PROVE RouteInv
  OBVIOUS
<1>1. net = {} /\ ~server_flag
  BY DEF Init, P!ProxyInit
<1>2. \A r \in X!Endpoint : HasLearnt(r)
  BY DEF Init, X!XchInit, HasLearnt, X!NoMessage, X!NoInfo, X!Datagram
<1> QED BY <1>1, <1>2 DEF RouteInv, NetRoutes, RdmaCrosses

\* What an endpoint sends goes to the proxy, carries its information and leaves
\* from the port of the exchange.
LEMMA EndpointRoutes ==
  ASSUME TypeOK, RouteInv, NEW r \in X!Endpoint,
         EndpointStep(r) \/ (X!Restart(r) /\ UNCHANGED proxyVars)
  PROVE  RouteInv'
<1>0. UNCHANGED <<client_flag, client_port, server_flag, server_port>>
  BY DEF EndpointStep, proxyVars
<1>1. \A m \in net' : m \in net \/
         /\ m.dst = "proxy" /\ m.port = X!XchPort(r) /\ m.info.role = r
  BY DEF EndpointStep, X!XchStep, X!Open, X!Send, X!Receive, X!Parse, X!Restart,
         X!Datagram, X!Info
<1>2. X!XchPort(r) \notin RdmaPorts /\ Owner(X!XchPort(r)) = r
  BY DEF Owner, X!XchPort, RdmaPorts, P!client_port_std, P!server_port_std
<1>3. NetRoutes'
  BY <1>0, <1>1, <1>2 DEF RouteInv, NetRoutes, CarriesOwn, FromRecorded, Known, PartnerPort
<1>4. RdmaCrosses'
  BY <1>1, <1>2 DEF RouteInv, RdmaCrosses, RdmaPorts
<1>5. ASSUME NEW q \in X!Endpoint PROVE HasLearnt(q)'
  <2> USE DEF TypeOK, X!XchTypeOK, RouteInv, HasLearnt, CarriesOwn, FromRecorded, Known, PartnerPort
  <2>1. CASE X!Open(r)
    BY <1>0, <2>1 DEF X!Open, X!Goto
  <2>2. CASE X!Send(r)
    BY <1>0, <2>2 DEF X!Send, X!Goto
  <2>3. CASE X!Receive(r)
    <3>1. CASE net' = net /\ got' = got
      BY <1>0, <2>3, <3>1 DEF X!Receive, X!Goto
    <3>2. CASE ~(net' = net /\ got' = got)
      <4>1. PICK m \in net : m.dst = r /\ got' = [got EXCEPT ![r] = m]
        BY <2>3, <3>2 DEF X!Receive
      <4>2. m.port \notin RdmaPorts
        BY <4>1 DEF RdmaCrosses, RdmaPorts
      <4>3. m.info.role = Owner(m.port) /\ FromRecorded(r, m)
        BY <4>1, <4>2 DEF NetRoutes, CarriesOwn
      <4> QED BY <1>0, <2>3, <4>1, <4>3 DEF X!Receive, X!Goto
    <3> QED BY <3>1, <3>2
  <2>4. CASE X!Parse(r)
    <3>1. CASE got[r].len < 18
      BY <1>0, <2>4, <3>1 DEF X!Parse, X!Goto
    <3>2. CASE ~(got[r].len < 18)
      <4>1. got[r].len # 0
        BY <3>2 DEF X!NoMessage, X!Datagram
      <4> QED BY <1>0, <2>4, <3>2, <4>1 DEF X!Parse, X!Goto
    <3> QED BY <3>1, <3>2
  <2>5. CASE X!Restart(r)
    BY <1>0, <2>5 DEF X!Restart, X!Goto, X!NoMessage, X!NoInfo, X!Datagram
  <2> QED BY <2>1, <2>2, <2>3, <2>4, <2>5 DEF EndpointStep, X!XchStep
<1> QED BY <1>0, <1>3, <1>4, <1>5 DEF RouteInv

\* A datagram that the proxy takes for its first or its second is no RDMA packet.
LEMMA ProxyRoutes ==
  ASSUME TypeOK, RouteInv, ProxyTurn
  PROVE  RouteInv'
<1>0. UNCHANGED <<xpc, got, cinf>>
  BY DEF ProxyTurn, xchVars
<1>1. CASE P!SetupStep \/ P!ProxyStops
  <2>1. UNCHANGED <<net, client_flag, client_port, server_flag, server_port>>
    BY <1>1 DEF P!SetupStep, P!ProxyStops
  <2> QED BY <1>0, <2>1 DEF RouteInv, NetRoutes, HasLearnt, RdmaCrosses, CarriesOwn, FromRecorded,
                            Known, PartnerPort
<1>2. CASE P!ProxyStep
  <2>1. PICK m \in net : P!FirstFromClient(m) \/ P!SecondFromServer(m) \/ P!Traffic(m)
    BY <1>2 DEF P!ProxyStep
  <2> USE DEF RouteInv, NetRoutes, HasLearnt, CarriesOwn, FromRecorded, Known, PartnerPort
  <2>2. CASE P!FirstFromClient(m)
    <3>1. \A d \in net' : d \in net \/ (d.dst = "server" /\ d.info = m.info /\ d.port = m.port)
      BY <2>2, ForwardEffect DEF TypeOK, P!FirstFromClient
    <3>2. /\ ~client_flag /\ ~server_flag /\ client_flag' /\ client_port' = m.port
          /\ UNCHANGED <<server_flag, server_port>> /\ m.port \notin RdmaPorts
      BY <2>2 DEF P!FirstFromClient
    <3>3. NetRoutes'
      BY <3>1, <3>2
    <3>4. RdmaCrosses'
      BY <3>1, <3>2 DEF RdmaCrosses, RdmaPorts
    <3>5. \A q \in X!Endpoint : HasLearnt(q)'
      BY <1>0, <3>2
    <3> QED BY <3>2, <3>3, <3>4, <3>5
  <2>3. CASE P!SecondFromServer(m)
    <3>1. \A d \in net' : d \in net \/ (d.dst = "client" /\ d.info = m.info /\ d.port = m.port)
      BY <2>3, ForwardEffect DEF TypeOK, P!SecondFromServer
    <3>2. /\ client_flag /\ ~server_flag /\ server_flag' /\ server_port' = m.port
          /\ UNCHANGED <<client_flag, client_port>> /\ m.port \notin RdmaPorts
      BY <2>3 DEF P!SecondFromServer
    <3>3. NetRoutes'
      BY <3>1, <3>2
    <3>4. RdmaCrosses'
      BY <3>1, <3>2 DEF RdmaCrosses, RdmaPorts
    <3>5. \A q \in X!Endpoint : HasLearnt(q)'
      BY <1>0, <3>2
    <3> QED BY <3>2, <3>3, <3>4, <3>5
  <2>4. CASE P!Traffic(m)
    <3>1. /\ client_flag /\ server_flag
          /\ UNCHANGED <<client_flag, client_port, server_flag, server_port>>
      BY <2>4 DEF P!Traffic
    <3>2. \A d \in net' : d \in net \/
             /\ d.info = m.info /\ d.port = m.port
             /\ \/ d.dst = "server_rdma" /\ m.port = P!client_port_std
                \/ d.dst = "client_rdma" /\ m.port = P!server_port_std
      BY <2>4, ForwardEffect DEF TypeOK, P!Traffic
    <3>3. NetRoutes'
      BY <3>1, <3>2
    <3>4. RdmaCrosses'
      BY <3>2 DEF RdmaCrosses, P!client_port_std, P!server_port_std
    <3>5. \A q \in X!Endpoint : HasLearnt(q)'
      BY <1>0, <3>1
    <3> QED BY <3>1, <3>3, <3>4, <3>5
  <2> QED BY <2>1, <2>2, <2>3, <2>4
<1> QED BY <1>1, <1>2 DEF ProxyTurn

LEMMA OtherRoutes ==
  ASSUME TypeOK, RouteInv, Drop \/ Stray \/ RdmaRequest \/ RdmaAnswer \/ RdmaArrives
  PROVE  RouteInv'
<1>0. UNCHANGED <<xpc, got, cinf, client_flag, client_port, server_flag, server_port>>
  BY DEF Drop, Stray, RdmaRequest, RdmaAnswer, RdmaArrives, Others, xchVars, proxyVars
<1>1. ASSUME NEW m \in net'
      PROVE  \/ m \in net
             \/ /\ m.dst = "proxy" /\ CarriesOwn(m)
                /\ m.port \in RdmaPorts => server_flag
  <2>1. CASE Drop \/ RdmaArrives
    BY <2>1 DEF Drop, RdmaArrives
  <2>2. CASE Stray
    <3>1. "other" \notin RdmaPorts
      BY DEF RdmaPorts, P!client_port_std, P!server_port_std
    <3> QED BY <2>2, <3>1 DEF Stray, X!Datagram, X!NoInfo, CarriesOwn, Owner
  <2>3. CASE RdmaRequest
    <3>1. server_flag
      BY <2>3 DEF RdmaRequest, RouteInv, HasLearnt, Known
    <3> QED BY <2>3, <3>1 DEF RdmaRequest, RdmaPacket, RdmaPort, RdmaPorts, X!Datagram, CarriesOwn
  <2>4. CASE RdmaAnswer
    <3>1. server_flag
      BY <2>4 DEF RdmaAnswer, RouteInv, RdmaCrosses, NetRoutes, RdmaPorts
    <3> QED BY <2>4, <3>1 DEF RdmaAnswer, RdmaPacket, RdmaPort, RdmaPorts, X!Datagram, CarriesOwn
  <2> QED BY <2>1, <2>2, <2>3, <2>4
<1>2. NetRoutes'
  BY <1>0, <1>1 DEF RouteInv, NetRoutes, CarriesOwn, FromRecorded, Known, PartnerPort
<1>3. RdmaCrosses'
  BY <1>1 DEF RouteInv, RdmaCrosses
<1> QED BY <1>0, <1>2, <1>3 DEF RouteInv, HasLearnt, CarriesOwn, FromRecorded, Known, PartnerPort

LEMMA NextRoutes == TypeOK /\ RouteInv /\ [Next]_vars => RouteInv'
<1> SUFFICES ASSUME TypeOK, RouteInv, [Next]_vars PROVE RouteInv'
  OBVIOUS
<1>1. ASSUME NEW r \in X!Endpoint, EndpointStep(r) \/ (X!Restart(r) /\ UNCHANGED proxyVars)
      PROVE  RouteInv'
  BY <1>1, EndpointRoutes
<1>2. CASE ProxyTurn
  BY <1>2, ProxyRoutes
<1>3. CASE Drop \/ Stray \/ RdmaRequest \/ RdmaAnswer \/ RdmaArrives
  BY <1>3, OtherRoutes
<1>4. CASE UNCHANGED vars
  BY <1>4 DEF vars, xchVars, proxyVars, RouteInv, NetRoutes, HasLearnt, RdmaCrosses, CarriesOwn,
              FromRecorded, Known, PartnerPort
<1> QED BY <1>1, <1>2, <1>3, <1>4 DEF Next

THEOREM Routes == Spec => []RouteInv
BY InitRoutes, NextRoutes, ExchangeTypes, PTL DEF Spec

\* The proxy passes RDMA packets to the side that did not send them, and takes
\* none for connection information, for any number of restarts.
THEOREM RdmaGoesAcross == Spec => []RdmaCrosses
<1>1. RouteInv => RdmaCrosses
  BY DEF RouteInv
<1> QED BY <1>1, Routes, PTL

\* An exchange that ends well has left the information of whoever the proxy took
\* for the partner, whatever fails or is lost and for any number of restarts.
THEOREM LearntFromRecorded == Spec => []LearnsFromRecorded
<1>1. RouteInv => LearnsFromRecorded
  BY DEF RouteInv, HasLearnt, LearnsFromRecorded
<1> QED BY <1>1, Routes, PTL

\* No process takes its own information for its partner's, unless the proxy took
\* it for its own partner.
THEOREM NobodyLearnsItself ==
  Spec => [](\A r \in X!Endpoint : PartnerPort(r) # X!XchPort(r) => cinf[r].role # r)
<1>1. RouteInv => \A r \in X!Endpoint : PartnerPort(r) # X!XchPort(r) => cinf[r].role # r
  BY DEF RouteInv, HasLearnt, Owner, X!XchPort, X!NoInfo
<1> QED BY <1>1, Routes, PTL

\* An exchange that ends well has left somebody's information, unless the proxy
\* recorded a stranger as the partner.
THEOREM NothingFromNobody ==
  Spec => [](\A r \in X!Endpoint :
               xpc[r] = "done" /\ cinf[r] = X!NoInfo
                 => PartnerPort(r) \notin {"client_xch", "server_xch"})
<1>1. RouteInv => \A r \in X!Endpoint :
                    xpc[r] = "done" /\ cinf[r] = X!NoInfo
                      => PartnerPort(r) \notin {"client_xch", "server_xch"}
  BY DEF RouteInv, HasLearnt, Owner, X!NoInfo
<1> QED BY <1>1, Routes, PTL

-----------------------------------------------------------------------------

\* What RolesLearnt and the refinement of InfoExchange presuppose.
RunsOnce == MaxRestarts = 0 /\ ~Strays /\ ~ReceiveFails

FirstDatagram == X!Datagram("client_xch", "proxy", [role |-> "client", inc |-> 0], 100)

\* The datagrams of one run: the client's reaches the proxy first, and the
\* server's leaves only when the server has the client's.
NetOrder ==
  \A m \in net :
    /\ m.port # "other"
    /\ m.port = "client_xch" => m.info.role = "client" /\ xpc["client"] \notin {"start", "send"}
    /\ m.port = "client_xch" /\ m.dst = "proxy" => ~client_flag /\ m = FirstDatagram
    /\ m.port = "server_xch" => m.info.role = "server" /\ xpc["server"] \in {"parse", "done"}
    /\ m.dst \in X!Endpoint => m.len = 4096

ServerOrder ==
  /\ xpc["server"] \in {"send", "parse"} => got["server"].info.role = "client" /\ got["server"].len = 4096
  /\ xpc["server"] = "done" => cinf["server"].role = "client"
  /\ xpc["server"] \in {"send", "parse", "done"} => client_flag

ClientOrder ==
  /\ xpc["client"] = "parse" => got["client"].info.role = "server" /\ got["client"].len = 4096
  /\ xpc["client"] = "done" => cinf["client"].role = "server"
  /\ xpc["client"] \in {"parse", "done"} => server_flag

\* The strengthening of RolesLearnt: the three programs take their turns.
TurnsInv ==
  /\ NetOrder /\ ServerOrder /\ ClientOrder
  /\ RolesLearnt
  /\ xpc["client"] \in {"start", "send"} => ~client_flag
  /\ server_flag => xpc["server"] \in {"parse", "done"}

LEMMA InitTurns == Init => TurnsInv
<1> SUFFICES ASSUME Init PROVE TurnsInv
  OBVIOUS
<1>1. net = {} /\ ~client_flag /\ ~server_flag /\ \A r \in X!Endpoint : xpc[r] = "start"
  BY DEF Init, P!ProxyInit, X!XchInit
<1> QED BY <1>1 DEF TurnsInv, NetOrder, ServerOrder, ClientOrder, RolesLearnt

\* A step of the client.  A datagram that comes for it was the server's.
LEMMA ClientTurns ==
  ASSUME RunsOnce, TypeOK, RouteInv, TurnsInv, EndpointStep("client")
  PROVE  TurnsInv'
<1> USE DEF TypeOK, X!XchTypeOK, X!Goto, TurnsInv, NetOrder, ServerOrder, ClientOrder
<1>0. /\ UNCHANGED <<client_flag, client_port, server_flag, server_port>>
      /\ xpc'["server"] = xpc["server"] /\ got'["server"] = got["server"]
      /\ cinf'["server"] = cinf["server"] /\ RolesLearnt'
  BY DEF EndpointStep, proxyVars, X!XchStep, X!Open, X!Send, X!Receive, X!Parse, RolesLearnt
<1>1. CASE X!Open("client")
  BY <1>0, <1>1 DEF X!Open
<1>2. CASE X!Send("client")
  <2>1. inc["client"] = 0
    BY DEF RunsOnce
  <2>2. /\ xpc' = [xpc EXCEPT !["client"] = "recv"] /\ ~client_flag
        /\ \A m \in net' : m \in net \/ m = FirstDatagram
    BY <1>2, <2>1 DEF X!Send, X!Datagram, X!Info, X!XchPort, FirstDatagram
  <2>3. /\ FirstDatagram.port = "client_xch" /\ FirstDatagram.dst = "proxy"
        /\ FirstDatagram.info.role = "client"
    BY DEF FirstDatagram, X!Datagram
  <2> QED BY <1>0, <2>2, <2>3
<1>3. CASE X!Receive("client")
  <2>1. PICK m \in net : /\ m.dst = "client" /\ got' = [got EXCEPT !["client"] = m]
                         /\ net' = net \ {m} /\ xpc' = [xpc EXCEPT !["client"] = "parse"]
    BY <1>3 DEF X!Receive, RunsOnce
  <2>2. server_flag /\ m.port = server_port
    BY <2>1 DEF RouteInv, NetRoutes, FromRecorded, Known, PartnerPort
  <2>3. m.info.role = "server" /\ m.len = 4096
    BY <2>1, <2>2 DEF RolesLearnt
  <2> QED BY <1>0, <2>1, <2>2, <2>3
<1>4. CASE X!Parse("client")
  <2>1. /\ xpc' = [xpc EXCEPT !["client"] = "done"]
        /\ cinf' = [cinf EXCEPT !["client"] = got["client"].info]
        /\ net' = net /\ got' = got /\ xpc["client"] = "parse"
    BY <1>4 DEF X!Parse
  <2> QED BY <1>0, <2>1
<1> QED BY <1>1, <1>2, <1>3, <1>4 DEF EndpointStep, X!XchStep

\* A step of the server.  A datagram that comes for it was the client's.
LEMMA ServerTurns ==
  ASSUME RunsOnce, TypeOK, RouteInv, TurnsInv, EndpointStep("server")
  PROVE  TurnsInv'
<1> USE DEF TypeOK, X!XchTypeOK, X!Goto, TurnsInv, NetOrder, ServerOrder, ClientOrder
<1>0. /\ UNCHANGED <<client_flag, client_port, server_flag, server_port>>
      /\ xpc'["client"] = xpc["client"] /\ got'["client"] = got["client"]
      /\ cinf'["client"] = cinf["client"] /\ RolesLearnt'
  BY DEF EndpointStep, proxyVars, X!XchStep, X!Open, X!Send, X!Receive, X!Parse, RolesLearnt
<1>1. CASE X!Open("server")
  BY <1>0, <1>1 DEF X!Open
<1>2. CASE X!Send("server")
  <2>1. /\ xpc' = [xpc EXCEPT !["server"] = "parse"] /\ xpc["server"] = "send"
        /\ got' = got /\ cinf' = cinf
        /\ \A m \in net' :
             m \in net \/ (m.port = "server_xch" /\ m.dst = "proxy" /\ m.info.role = "server")
    BY <1>2 DEF X!Send, X!Datagram, X!Info, X!XchPort
  <2> QED BY <1>0, <2>1
<1>3. CASE X!Receive("server")
  <2>1. PICK m \in net : /\ m.dst = "server" /\ got' = [got EXCEPT !["server"] = m]
                         /\ net' = net \ {m} /\ xpc' = [xpc EXCEPT !["server"] = "send"]
                         /\ xpc["server"] = "recv"
    BY <1>3 DEF X!Receive, RunsOnce
  <2>2. client_flag /\ m.port = client_port
    BY <2>1 DEF RouteInv, NetRoutes, FromRecorded, Known, PartnerPort
  <2>3. m.info.role = "client" /\ m.len = 4096
    BY <2>1, <2>2 DEF RolesLearnt
  <2> QED BY <1>0, <2>1, <2>2, <2>3
<1>4. CASE X!Parse("server")
  <2>1. /\ xpc' = [xpc EXCEPT !["server"] = "done"]
        /\ cinf' = [cinf EXCEPT !["server"] = got["server"].info]
        /\ net' = net /\ got' = got /\ xpc["server"] = "parse"
    BY <1>4 DEF X!Parse
  <2> QED BY <1>0, <2>1
<1> QED BY <1>1, <1>2, <1>3, <1>4 DEF EndpointStep, X!XchStep

\* What the proxy takes is gone, and what it forwards is 4096 bytes long.
LEMMA ForwardLength ==
  ASSUME NEW m, NEW s, NEW dst \in {"client", "server", "client_rdma", "server_rdma"},
         P!Forward(m, s, dst)
  PROVE  /\ \A d \in net' : d \in net \/ d.len = 4096
         /\ \A d \in net' : d.dst = "proxy" => d # m
<1> DEFINE f == [port |-> m.port, dst |-> dst, info |-> m.info, len |-> 4096]
<1>1. net' \subseteq (net \ {m}) \cup {f} /\ f.dst # "proxy" /\ f.len = 4096
  BY DEF P!Forward
<1> QED BY <1>1

\* The first datagram the proxy takes is the client's, the second the server's.
LEMMA ProxyTurns ==
  ASSUME RunsOnce, TypeOK, RouteInv, TurnsInv, ProxyTurn
  PROVE  TurnsInv'
<1> USE DEF TurnsInv, NetOrder, ServerOrder, ClientOrder
<1>0. UNCHANGED <<xpc, got, cinf>>
  BY DEF ProxyTurn, xchVars
<1>1. CASE P!SetupStep \/ P!ProxyStops
  <2>1. UNCHANGED <<net, client_flag, client_port, server_flag, server_port>>
    BY <1>1 DEF P!SetupStep, P!ProxyStops
  <2> QED BY <1>0, <2>1 DEF RolesLearnt
<1>2. CASE P!ProxyStep
  <2>1. PICK m \in net : /\ m.dst = "proxy"
                         /\ P!FirstFromClient(m) \/ P!SecondFromServer(m) \/ P!Traffic(m)
    BY <1>2 DEF P!ProxyStep
  <2>2. m.port \in {"client_xch", "server_xch"} \cup RdmaPorts
    BY DEF TypeOK, Datagrams, RdmaPorts, P!client_port_std, P!server_port_std
  <2>3. CASE P!FirstFromClient(m)
    <3>1. \A d \in net' : d \in net \/ (d.dst = "server" /\ d.info = m.info /\ d.port = m.port)
      BY <2>3, ForwardEffect DEF TypeOK, P!FirstFromClient
    <3>2. /\ ~client_flag /\ ~server_flag /\ client_flag' /\ client_port' = m.port
          /\ UNCHANGED <<server_flag, server_port>>
      BY <2>3 DEF P!FirstFromClient, RouteInv
    <3>3. m.port = "client_xch" /\ m = FirstDatagram
      BY <2>1, <2>2, <3>2 DEF RouteInv, NetRoutes
    <3>4. /\ \A d \in net' : d \in net \/ d.len = 4096
          /\ \A d \in net' : d.dst = "proxy" => d # m
      BY <2>3, ForwardLength DEF P!FirstFromClient
    <3> QED BY <1>0, <3>1, <3>2, <3>3, <3>4 DEF RolesLearnt
  <2>4. CASE P!SecondFromServer(m)
    <3>1. \A d \in net' : d \in net \/ (d.dst = "client" /\ d.info = m.info /\ d.port = m.port)
      BY <2>4, ForwardEffect DEF TypeOK, P!SecondFromServer
    <3>2. /\ client_flag /\ ~server_flag /\ server_flag' /\ server_port' = m.port
          /\ UNCHANGED <<client_flag, client_port>>
      BY <2>4 DEF P!SecondFromServer
    <3>3. m.port = "server_xch"
      BY <2>1, <2>2, <3>2 DEF RouteInv, NetRoutes
    <3>4. \A d \in net' : d \in net \/ d.len = 4096
      BY <2>4, ForwardLength DEF P!SecondFromServer
    <3> QED BY <1>0, <3>1, <3>2, <3>3, <3>4 DEF RolesLearnt
  <2>5. CASE P!Traffic(m)
    <3>1. /\ client_flag /\ server_flag
          /\ UNCHANGED <<client_flag, client_port, server_flag, server_port>>
      BY <2>5 DEF P!Traffic
    <3>2. \A d \in net' : d \in net \/
             (d.port \in RdmaPorts /\ d.dst \in {"server_rdma", "client_rdma"})
      BY <2>5, ForwardEffect DEF TypeOK, P!Traffic, RdmaPorts
    <3>3. RdmaPorts = {"9001", "8001"}
      BY DEF RdmaPorts, P!client_port_std, P!server_port_std
    <3> QED BY <1>0, <3>1, <3>2, <3>3 DEF RolesLearnt
  <2> QED BY <2>1, <2>3, <2>4, <2>5
<1> QED BY <1>1, <1>2 DEF ProxyTurn

LEMMA OtherTurns ==
  ASSUME RunsOnce, TypeOK, TurnsInv, Drop \/ Stray \/ RdmaRequest \/ RdmaAnswer \/ RdmaArrives
  PROVE  TurnsInv'
<1>1. UNCHANGED <<xpc, got, cinf, client_flag, client_port, server_flag, server_port>>
  BY DEF Drop, Stray, RdmaRequest, RdmaAnswer, RdmaArrives, Others, xchVars, proxyVars
<1>2. \A m \in net' : m \in net \/ (m.dst = "proxy" /\ m.port \in {"9001", "8001"})
  BY DEF RunsOnce, Drop, Stray, RdmaRequest, RdmaAnswer, RdmaArrives, RdmaPacket, RdmaPort,
         X!Datagram, P!client_port_std, P!server_port_std
<1> QED BY <1>1, <1>2 DEF TurnsInv, NetOrder, ServerOrder, ClientOrder, RolesLearnt

LEMMA NoRestart ==
  ASSUME RunsOnce, TypeOK, NEW r \in X!Endpoint
  PROVE  ~X!Restart(r)
BY DEF RunsOnce, TypeOK, X!XchTypeOK, X!Restart

LEMMA NextTurns ==
  ASSUME RunsOnce, TypeOK, RouteInv, TurnsInv, [Next]_vars
  PROVE  TurnsInv'
<1>1. ASSUME NEW r \in X!Endpoint, EndpointStep(r) PROVE TurnsInv'
  BY <1>1, ClientTurns, ServerTurns
<1>2. CASE ProxyTurn
  BY <1>2, ProxyTurns
<1>3. CASE Drop \/ Stray \/ RdmaRequest \/ RdmaAnswer \/ RdmaArrives
  BY <1>3, OtherTurns
<1>4. CASE UNCHANGED vars
  BY <1>4 DEF vars, xchVars, proxyVars, TurnsInv, NetOrder, ServerOrder, ClientOrder, RolesLearnt
<1> QED BY <1>1, <1>2, <1>3, <1>4, NoRestart DEF Next

\* When no process is started again, nobody else sends and recvfrom() does not
\* fail, the proxy records the client and then the server, whatever is lost and
\* whatever other call fails.
THEOREM RolesAreLearnt == ASSUME RunsOnce PROVE Spec => []RolesLearnt
<1>1. TypeOK /\ RouteInv /\ TurnsInv /\ [Next]_vars => TurnsInv'
  BY NextTurns
<1>2. TurnsInv => RolesLearnt
  BY DEF TurnsInv
<1> QED BY <1>1, <1>2, InitTurns, ExchangeTypes, Routes, PTL DEF Spec

-----------------------------------------------------------------------------

LEMMA InitExchange == Init => IE!Init
BY DEF Init, X!XchInit, IE!Init, learntFrom, X!Endpoint

\* Receiving the client's datagram is the server's learning, parsing the
\* server's is the client's; every other step changes nothing of it.
LEMMA NextExchange ==
  ASSUME RunsOnce, TypeOK, RouteInv, TurnsInv, TurnsInv', [Next]_vars
  PROVE  [IE!ServerLearns \/ IE!ClientLearns]_learntFrom
<1> DEFINE lc == IF xpc["client"] = "done" THEN "server" ELSE "none"
           ls == IF xpc["server"] \in {"send", "parse", "done"} THEN "client" ELSE "none"
<1>1. learntFrom = [r \in X!Endpoint |-> IF r = "client" THEN lc ELSE ls]
  BY DEF learntFrom, TurnsInv, ServerOrder, ClientOrder
<1>2. learntFrom' = [r \in X!Endpoint |-> IF r = "client" THEN lc' ELSE ls']
  BY DEF learntFrom, TurnsInv, ServerOrder, ClientOrder
<1>3. ASSUME UNCHANGED <<lc, ls>> PROVE UNCHANGED learntFrom
  BY <1>1, <1>2, <1>3
<1>4. CASE EndpointStep("client")
  <2>1. CASE X!Parse("client")
    <3>1. lc = "none" /\ lc' = "server" /\ ls = "client" /\ ls' = "client"
      BY <2>1 DEF X!Parse, X!Goto, TypeOK, X!XchTypeOK, TurnsInv, ClientOrder, RouteInv
    <3> QED BY <1>1, <1>2, <3>1 DEF IE!ClientLearns
  <2>2. CASE X!Open("client") \/ X!Send("client") \/ X!Receive("client")
    <3>1. UNCHANGED <<lc, ls>>
      BY <2>2 DEF X!Open, X!Send, X!Receive, X!Goto, TypeOK, X!XchTypeOK
    <3> QED BY <1>3, <3>1
  <2> QED BY <1>4, <2>1, <2>2 DEF EndpointStep, X!XchStep
<1>5. CASE EndpointStep("server")
  <2>1. CASE X!Receive("server")
    <3>1. ls = "none" /\ ls' = "client" /\ lc = "none" /\ lc' = "none"
      BY <2>1 DEF X!Receive, X!Goto, TypeOK, X!XchTypeOK, TurnsInv, ClientOrder
    <3> QED BY <1>1, <1>2, <3>1 DEF IE!ServerLearns
  <2>2. CASE X!Open("server") \/ X!Send("server") \/ X!Parse("server")
    <3>1. UNCHANGED <<lc, ls>>
      BY <2>2 DEF X!Open, X!Send, X!Parse, X!Goto, TypeOK, X!XchTypeOK, TurnsInv, ServerOrder
    <3> QED BY <1>3, <3>1
  <2> QED BY <1>5, <2>1, <2>2 DEF EndpointStep, X!XchStep
<1>6. CASE UNCHANGED xpc
  BY <1>3, <1>6
<1>7. ASSUME ~(\E r \in X!Endpoint : EndpointStep(r)) PROVE UNCHANGED xpc
  BY <1>7, NoRestart DEF Next, vars, xchVars, ProxyTurn, Drop, Stray, RdmaRequest, RdmaAnswer,
                         RdmaArrives, Others
<1> QED BY <1>4, <1>5, <1>6, <1>7

\* Under the same premises the exchange through the proxy implements its
\* abstract specification, whatever is lost and whatever other call fails.
THEOREM ExchangeRefinement == ASSUME RunsOnce PROVE Spec => ImplementsInfoExchange
<1>1. TypeOK /\ RouteInv /\ TurnsInv /\ [Next]_vars => TurnsInv'
  BY NextTurns
<1>2. TypeOK /\ RouteInv /\ TurnsInv /\ TurnsInv' /\ [Next]_vars
        => [IE!ServerLearns \/ IE!ClientLearns]_learntFrom
  BY NextExchange
<1> QED BY <1>1, <1>2, InitTurns, InitExchange, ExchangeTypes, Routes, PTL
        DEF Spec, ImplementsInfoExchange, IE!Spec

-----------------------------------------------------------------------------

\* What ExchangeStaysAlive presupposes.
NothingFails == RunsOnce /\ ~CanFail /\ ~SetupFails /\ ~Loses

\* What is open by then: nobody reaches recvfrom() without a bound socket, and
\* the proxy its loop without the two sockets of the exchange.
Prepared ==
  /\ \A r \in X!Endpoint : xpc[r] # "start" => bound[r]
  /\ step # P!EXITED
  /\ step > 7 => socket["toclient_xch"]
  /\ step > 11 => socket["toserv_xch"]

LEMMA SetupCalls ==
  /\ Len(P!Setup) = 11 /\ P!EXITED = 13
  /\ P!Setup[7] = "toclient_xch" /\ P!Setup[11] = "toserv_xch"
BY DEF P!Setup, P!EXITED

LEMMA InitPrepared == Init => Prepared
<1> SUFFICES ASSUME Init PROVE Prepared
  OBVIOUS
<1>1. step = 1 /\ \A r \in X!Endpoint : xpc[r] = "start"
  BY DEF Init, P!ProxyInit, X!XchInit
<1> QED BY <1>1, SetupCalls DEF Prepared

LEMMA NextPrepared ==
  ASSUME NothingFails, TypeOK, Prepared, [Next]_vars
  PROVE  Prepared'
<1> USE DEF Prepared, TypeOK, X!XchTypeOK, P!ProxyTypeOK
<1>1. ASSUME NEW r \in X!Endpoint, EndpointStep(r) PROVE Prepared'
  <2>1. UNCHANGED <<step, socket>>
    BY <1>1 DEF EndpointStep, proxyVars
  <2>2. \A q \in X!Endpoint : xpc'[q] # "start" => bound'[q]
    BY <1>1 DEF NothingFails, EndpointStep, X!XchStep, X!Open, X!Send, X!Receive, X!Parse, X!Goto
  <2> QED BY <2>1, <2>2
<1>2. CASE ProxyTurn
  <2>1. UNCHANGED <<xpc, bound>>
    BY <1>2 DEF ProxyTurn, xchVars
  <2>2. CASE P!SetupStep
    <3>1. /\ step \in 1..11 /\ step' = step + 1
          /\ socket' = [s \in P!Forwarding |-> socket[s] \/ s = P!Setup[step]]
      BY <2>2, SetupCalls DEF P!SetupStep, NothingFails
    <3>2. \A s \in {"toclient_xch", "toserv_xch"} : socket[s] \/ s = P!Setup[step] => socket'[s]
      BY <3>1 DEF P!Forwarding
    <3>3. step' # P!EXITED
      BY <3>1, SetupCalls
    <3>4. step' > 7 => socket'["toclient_xch"]
      <4>1. CASE step = 7
        BY <4>1, <3>2, SetupCalls
      <4>2. CASE step # 7
        BY <4>2, <3>1, <3>2
      <4> QED BY <4>1, <4>2
    <3>5. step' > 11 => socket'["toserv_xch"]
      <4>1. CASE step = 11
        BY <4>1, <3>2, SetupCalls
      <4>2. CASE step # 11
        BY <4>2, <3>1
      <4> QED BY <4>1, <4>2
    <3> QED BY <2>1, <3>3, <3>4, <3>5
  <2>3. CASE P!ProxyStep
    BY <2>1, <2>3 DEF P!ProxyStep
  <2>4. CASE P!ProxyStops
    BY <2>4 DEF P!ProxyStops, NothingFails
  <2> QED BY <1>2, <2>2, <2>3, <2>4 DEF ProxyTurn
<1>3. CASE UNCHANGED <<xpc, bound, step, socket>>
  BY <1>3
<1>4. CASE Drop \/ Stray \/ RdmaRequest \/ RdmaAnswer \/ RdmaArrives \/ UNCHANGED vars
  BY <1>3, <1>4 DEF Drop, Stray, RdmaRequest, RdmaAnswer, RdmaArrives, Others, vars, xchVars, proxyVars
<1>5. ASSUME NEW r \in X!Endpoint PROVE ~X!Restart(r)
  BY NoRestart DEF NothingFails
<1> QED BY <1>1, <1>2, <1>4, <1>5 DEF Next

\* A datagram for r is still there as long as none for it or the proxy is taken.
LEMMA UnderWayKept ==
  ASSUME UNCHANGED <<client_flag, server_flag>>, NEW r, UnderWay(r),
         \A d \in net : d.dst \in {r, "proxy"} => d \in net'
  PROVE  UnderWay(r)'
BY DEF UnderWay

LEMMA ClientAlive ==
  ASSUME NothingFails, TypeOK, RouteInv, TurnsInv, OnItsWay, EndpointStep("client")
  PROVE  OnItsWay'
<1> USE DEF TypeOK, X!XchTypeOK, X!Goto, OnItsWay, TurnsInv, ServerOrder, ClientOrder
<1>0. UNCHANGED <<step, client_flag, server_flag>> /\ xpc'["server"] = xpc["server"]
  BY DEF EndpointStep, proxyVars, X!XchStep, X!Open, X!Send, X!Receive, X!Parse
<1>1. CASE X!Open("client")
  BY <1>0, <1>1 DEF X!Open, NothingFails
<1>2. CASE X!Send("client")
  <2>1. xpc["client"] = "send" /\ xpc'["client"] = "recv" /\ ~client_flag
    BY <1>2 DEF X!Send
  <2>2. xpc["server"] = "recv"
    BY <2>1
  <2>3. \E m \in net' : m.dst = "proxy"
    <3> DEFINE d == X!Datagram(X!XchPort("client"), "proxy", X!Info("client"), 100)
    <3>1. d \in net' /\ d.dst = "proxy"
      BY <1>2 DEF X!Send, X!Datagram
    <3> QED BY <3>1
  <2>4. UnderWay("server")'
    BY <1>0, <2>1, <2>3 DEF UnderWay
  <2> QED BY <1>0, <2>1, <2>2, <2>4
<1>3. CASE X!Receive("client")
  <2>1. PICK m \in net : m.dst = "client" /\ xpc' = [xpc EXCEPT !["client"] = "parse"]
    BY <1>3 DEF X!Receive, NothingFails, RunsOnce
  <2>2. server_flag
    BY <2>1 DEF RouteInv, NetRoutes, FromRecorded, Known
  <2> QED BY <1>0, <2>1, <2>2
<1>4. CASE X!Parse("client")
  <2>1. xpc' = [xpc EXCEPT !["client"] = "done"] /\ server_flag
    BY <1>4 DEF X!Parse
  <2> QED BY <1>0, <2>1
<1> QED BY <1>1, <1>2, <1>3, <1>4 DEF EndpointStep, X!XchStep

LEMMA ServerAlive ==
  ASSUME NothingFails, TypeOK, RouteInv, TurnsInv, OnItsWay, EndpointStep("server")
  PROVE  OnItsWay'
<1> USE DEF TypeOK, X!XchTypeOK, X!Goto, OnItsWay, TurnsInv, ServerOrder
<1>0. UNCHANGED <<step, client_flag, server_flag>> /\ xpc'["client"] = xpc["client"]
  BY DEF EndpointStep, proxyVars, X!XchStep, X!Open, X!Send, X!Receive, X!Parse
<1>1. ~X!Open("server")
  BY DEF X!Open
<1>2. CASE X!Send("server")
  <2>1. xpc["server"] = "send" /\ xpc'["server"] = "parse" /\ client_flag /\ ~server_flag
    BY <1>2 DEF X!Send
  <2>2. \E m \in net' : m.dst = "proxy"
    <3> DEFINE d == X!Datagram(X!XchPort("server"), "proxy", X!Info("server"), 100)
    <3>1. d \in net' /\ d.dst = "proxy"
      BY <1>2 DEF X!Send, X!Datagram
    <3> QED BY <3>1
  <2>3. UnderWay("client")'
    BY <1>0, <2>1, <2>2 DEF UnderWay
  <2> QED BY <1>0, <2>1, <2>3
<1>3. CASE X!Receive("server")
  BY <1>0, <1>3 DEF X!Receive
<1>4. CASE X!Parse("server")
  <2>1. xpc["server"] = "parse" /\ xpc'["server"] = "done" /\ net' = net
    BY <1>4 DEF X!Parse
  <2>2. UnderWay("client") => UnderWay("client")'
    BY <1>0, <2>1, UnderWayKept
  <2> QED BY <1>0, <2>1, <2>2
<1> QED BY <1>1, <1>2, <1>3, <1>4 DEF EndpointStep, X!XchStep

\* What the proxy takes it passes on, to the process that waits for it.
LEMMA Forwarded ==
  ASSUME NEW m, NEW s, NEW dst, socket[s], P!Forward(m, s, dst)
  PROVE  \E d \in net' : d.dst = dst
<1> DEFINE f == [port |-> m.port, dst |-> dst, info |-> m.info, len |-> 4096]
<1>1. f \in net' /\ f.dst = dst
  BY DEF P!Forward
<1> QED BY <1>1

LEMMA ProxyAlive ==
  ASSUME NothingFails, TypeOK, RouteInv, TurnsInv, Prepared, OnItsWay, ProxyTurn
  PROVE  OnItsWay'
<1> USE DEF OnItsWay
<1>0. UNCHANGED xpc
  BY DEF ProxyTurn, xchVars
<1>1. CASE P!SetupStep
  <2>1. UNCHANGED <<net, client_flag, server_flag>>
    BY <1>1 DEF P!SetupStep
  <2>2. step \in 4..11 /\ step' = step + 1
    BY <1>1, SetupCalls DEF P!SetupStep, NothingFails
  <2>3. step' \in 4..(P!EXITED - 1)
    BY <2>2, SetupCalls
  <2>4. UnderWay("server")' = UnderWay("server") /\ UnderWay("client")' = UnderWay("client")
    BY <2>1 DEF UnderWay
  <2> QED BY <1>0, <2>3, <2>4
<1>2. CASE P!ProxyStep
  <2>0. UNCHANGED step /\ socket["toclient_xch"] /\ socket["toserv_xch"]
    BY <1>2, SetupCalls DEF P!ProxyStep, P!Running, Prepared
  <2>1. PICK m \in net : /\ m.dst = "proxy"
                         /\ P!FirstFromClient(m) \/ P!SecondFromServer(m) \/ P!Traffic(m)
    BY <1>2 DEF P!ProxyStep
  <2>2. m.port \in {"client_xch", "server_xch"} \cup RdmaPorts
    BY <2>1 DEF TypeOK, Datagrams, RdmaPorts, P!client_port_std, P!server_port_std,
                TurnsInv, NetOrder
  <2>3. CASE P!FirstFromClient(m)
    <3>1. ~client_flag
      BY <2>3 DEF P!FirstFromClient
    <3>2. xpc["server"] = "recv"
      BY <3>1 DEF TurnsInv, ServerOrder, TypeOK, X!XchTypeOK
    <3>3. UnderWay("server")'
      BY <2>0, <2>3, Forwarded DEF P!FirstFromClient, UnderWay
    <3> QED BY <1>0, <2>0, <3>2, <3>3
  <2>4. CASE P!SecondFromServer(m)
    <3>1. client_flag /\ ~server_flag
      BY <2>4 DEF P!SecondFromServer
    <3>2. xpc["server"] # "recv"
      BY <2>1, <2>2, <3>1 DEF RouteInv, NetRoutes, TurnsInv, NetOrder
    <3>3. UnderWay("client")'
      BY <2>0, <2>4, Forwarded DEF P!SecondFromServer, UnderWay
    <3> QED BY <1>0, <2>0, <3>2, <3>3
  <2>5. CASE P!Traffic(m)
    <3>1. client_flag /\ server_flag /\ UNCHANGED <<client_flag, server_flag>>
      BY <2>5 DEF P!Traffic
    <3>2. net \ {m} \subseteq net'
      BY <2>5 DEF P!Traffic, P!Forward
    <3>3. ASSUME NEW r \in X!Endpoint, UnderWay(r) PROVE UnderWay(r)'
      BY <2>1, <3>1, <3>2, <3>3 DEF UnderWay
    <3> QED BY <1>0, <2>0, <3>3
  <2> QED BY <2>1, <2>3, <2>4, <2>5
<1>3. ~P!ProxyStops
  BY DEF P!ProxyStops, NothingFails
<1> QED BY <1>1, <1>2, <1>3 DEF ProxyTurn

\* Nothing that somebody waits for is dropped: who waits has a bound socket.
LEMMA OtherAlive ==
  ASSUME NothingFails, Prepared, OnItsWay, Drop \/ Stray \/ RdmaRequest \/ RdmaAnswer \/ RdmaArrives
  PROVE  OnItsWay'
<1>0. UNCHANGED <<xpc, step, client_flag, server_flag>>
  BY DEF Drop, Stray, RdmaRequest, RdmaAnswer, RdmaArrives, Others, xchVars, proxyVars
<1>1. ASSUME NEW r \in X!Endpoint, xpc[r] = "recv", UnderWay(r) PROVE UnderWay(r)'
  <2>1. bound[r] /\ ~(step < 4) /\ step # P!EXITED
    BY <1>1, SetupCalls DEF Prepared, OnItsWay
  <2>2. ASSUME NEW d \in net, d.dst \in {r, "proxy"} PROVE d \in net'
    <3>1. CASE Drop
      BY <2>1, <2>2, <3>1 DEF Drop, Unreachable, NothingFails
    <3>2. CASE Stray \/ RdmaRequest
      BY <3>2 DEF Stray, RdmaRequest
    <3>3. CASE RdmaAnswer \/ RdmaArrives
      <4>1. PICK m \in net : m.dst \in {"server_rdma", "client_rdma"} /\ net \ {m} \subseteq net'
        BY <3>3 DEF RdmaAnswer, RdmaArrives
      <4> QED BY <2>2, <4>1
    <3> QED BY <3>1, <3>2, <3>3
  <2> QED BY <1>0, <1>1, <2>2, UnderWayKept
<1> QED BY <1>0, <1>1 DEF OnItsWay

\* What ExchangeCompletes starts from is such a state.
LEMMA ReadyIsAlive ==
  ASSUME TypeOK, Prepared, ReadyForClient
  PROVE  OnItsWay
BY SetupCalls DEF TypeOK, P!ProxyTypeOK, Prepared, ReadyForClient, OnItsWay

LEMMA NextAlive ==
  ASSUME NothingFails, TypeOK, RouteInv, TurnsInv, Prepared, [Next]_vars, OnItsWay
  PROVE  OnItsWay'
<1>1. ASSUME NEW r \in X!Endpoint, EndpointStep(r) PROVE OnItsWay'
  BY <1>1, ClientAlive, ServerAlive
<1>2. CASE ProxyTurn
  BY <1>2, ProxyAlive
<1>3. CASE Drop \/ Stray \/ RdmaRequest \/ RdmaAnswer \/ RdmaArrives
  BY <1>3, OtherAlive
<1>4. CASE UNCHANGED vars
  BY <1>4 DEF vars, xchVars, proxyVars, OnItsWay, UnderWay
<1>5. ASSUME NEW r \in X!Endpoint PROVE ~X!Restart(r)
  BY NoRestart DEF NothingFails
<1> QED BY <1>1, <1>2, <1>3, <1>4, <1>5 DEF Next

\* When nothing fails and nothing is lost, the exchange never gets into a state
\* from which both sides wait for ever: the safety half of ExchangeCompletes.
THEOREM StaysAlive ==
  ASSUME NothingFails
  PROVE  Spec => ExchangeStaysAlive /\ [](ReadyForClient => OnItsWay)
<1>1. TypeOK /\ RouteInv /\ TurnsInv /\ [Next]_vars => TurnsInv'
  BY NextTurns DEF NothingFails
<1>2. TypeOK /\ Prepared /\ [Next]_vars => Prepared'
  BY NextPrepared
<1>3. TypeOK /\ RouteInv /\ TurnsInv /\ Prepared /\ [Next]_vars => [OnItsWay => OnItsWay']_vars
  BY NextAlive
<1>4. TypeOK /\ Prepared => (ReadyForClient => OnItsWay)
  BY ReadyIsAlive
<1> QED BY <1>1, <1>2, <1>3, <1>4, InitTurns, InitPrepared, ExchangeTypes, Routes, PTL
        DEF Spec, ExchangeStaysAlive
================================================================================
