------------------------------- MODULE IbProxyTwo -------------------------------
(***************************************************************************)
(* The UDP proxy that learns its peers (programs/udp-proxy/                *)
(* ib_proxy_two.c).  The first datagram it receives goes to the exchange   *)
(* port of the server and the second to that of the client, whoever sent   *)
(* them; from then on the source port decides.                             *)
(***************************************************************************)
EXTENDS Integers, Sequences

CONSTANT SetupFails       \* whether getaddrinfo(), socket() and bind() may fail

VARIABLES
  net,            \* the datagrams in flight
  step,           \* the setup call main() makes next; "run" and "exited" follow
  socket,         \* socket[s]: whether a socket could be created
  client_flag, server_flag,
  client_port, server_port        \* struct ports_record

client_port_std == "9001"
server_port_std == "8001"

\* The calls of main() before the loop.  The four sockets for forwarding are
\* followed by a test of sd_listen, which cannot fail any more.
Forwarding == {"toclient", "toclient_xch", "toserv", "toserv_xch"}
Setup == <<"listen_addr", "listen_socket", "listen_bind",
           "client_addr", "toclient", "client_xch_addr", "toclient_xch",
           "server_addr", "toserv", "server_xch_addr", "toserv_xch">>

Running == step = Len(Setup) + 1
EXITED  == Len(Setup) + 2

ProxyInit ==
  /\ step = 1
  /\ socket = [s \in Forwarding |-> FALSE]
  /\ client_flag = FALSE /\ server_flag = FALSE
  /\ client_port = "" /\ server_port = ""

SetupStep ==
  /\ step \in 1..Len(Setup)
  /\ \/ /\ step' = step + 1
        /\ socket' = [s \in Forwarding |-> socket[s] \/ s = Setup[step]]
     \/ /\ SetupFails
        /\ step' = IF Setup[step] \in Forwarding THEN step + 1 ELSE EXITED
        /\ UNCHANGED socket
  /\ UNCHANGED <<net, client_flag, server_flag, client_port, server_port>>

\* sendto(): all 4096 bytes of the buffer; it fails on a descriptor of -1.
Forward(m, s, dst) ==
  net' = (net \ {m}) \cup
         IF socket[s] THEN {[port |-> m.port, dst |-> dst, info |-> m.info, len |-> 4096]} ELSE {}

\* Mutant: the flag is not looked at, so every datagram comes from the client.
FirstFromClient_Any(m) ==
  /\ client_port' = m.port /\ client_flag' = TRUE
  /\ Forward(m, "toserv_xch", "server")
  /\ UNCHANGED <<server_flag, server_port>>

FirstFromClient(m) ==
  /\ ~client_flag
  /\ client_port' = m.port /\ client_flag' = TRUE
  /\ Forward(m, "toserv_xch", "server")
  /\ UNCHANGED <<server_flag, server_port>>

\* Mutant: the second datagram takes the way of the first.
SecondFromServer_Same(m) ==
  /\ client_flag /\ ~server_flag
  /\ server_port' = m.port /\ server_flag' = TRUE
  /\ Forward(m, "toserv_xch", "server")
  /\ UNCHANGED <<client_flag, client_port>>

SecondFromServer(m) ==
  /\ client_flag /\ ~server_flag
  /\ server_port' = m.port /\ server_flag' = TRUE
  /\ Forward(m, "toclient_xch", "client")
  /\ UNCHANGED <<client_flag, client_port>>

\* Mutant: whoever is not the client is the server.
Traffic_Recorded(m) ==
  /\ client_flag /\ server_flag
  /\ IF m.port = client_port_std THEN Forward(m, "toserv", "server_rdma")
     ELSE Forward(m, "toclient", "client_rdma")
  /\ UNCHANGED <<client_flag, server_flag, client_port, server_port>>

\* The ports recorded are not used: the standard ports tell the sides apart.
Traffic(m) ==
  /\ client_flag /\ server_flag
  /\ IF m.port = client_port_std THEN Forward(m, "toserv", "server_rdma")
     ELSE IF m.port = server_port_std THEN Forward(m, "toclient", "client_rdma")
     ELSE net' = net \ {m}
  /\ UNCHANGED <<client_flag, server_flag, client_port, server_port>>

\* One turn of the loop.
ProxyStep ==
  /\ Running
  /\ \E m \in net : m.dst = "proxy" /\ (FirstFromClient(m) \/ SecondFromServer(m) \/ Traffic(m))
  /\ UNCHANGED <<step, socket>>

\* recvfrom() fails: the loop ends and main() returns.
ProxyStops ==
  /\ Running /\ SetupFails
  /\ step' = EXITED
  /\ UNCHANGED <<net, socket, client_flag, server_flag, client_port, server_port>>

ProxyTypeOK ==
  /\ step \in 1..EXITED
  /\ socket \in [Forwarding -> BOOLEAN]
  /\ client_flag \in BOOLEAN /\ server_flag \in BOOLEAN
================================================================================
