--------------------------------- MODULE XchQpn ---------------------------------
(***************************************************************************)
(* The exchange of connection information between an RDMA client and an    *)
(* RDMA server (programs/rdma-progs/client-server/xch-qpn.c,               *)
(* xch_conn_inf_client and xch_conn_inf_server).  Each side sends one UDP  *)
(* datagram to the host of the proxy and waits for one on port 4793, with  *)
(* neither a timeout nor a retry.                                          *)
(*                                                                         *)
(* The information of a process (its GID and queue pair number) is its     *)
(* role and the number of times it was started again: a new process has a  *)
(* new queue pair.                                                         *)
(***************************************************************************)
EXTENDS Integers

CONSTANTS
  MaxRestarts,    \* bound: how often each process is started again
  CanFail,        \* whether getaddrinfo(), socket() and bind() may fail
  ReceiveFails    \* whether recvfrom() may fail

VARIABLES
  net,            \* the datagrams in flight
  xpc,            \* xpc[r]: where the exchange of process r is
  bound,          \* bound[r]: whether a socket is bound to port 4793 of r
  got,            \* msg_recv: the datagram received
  cinf,           \* *cinf: what the caller learns about its partner
  inc             \* the number of times the process was started again

Endpoint == {"client", "server"}

Info(r)   == [role |-> r, inc |-> inc[r]]
NoInfo    == [role |-> "none", inc |-> 0]     \* memset(&cinf, 0, sizeof cinf)
Datagram(port, dst, info, len) == [port |-> port, dst |-> dst, info |-> info, len |-> len]
NoMessage == Datagram("none", "none", NoInfo, 0)

\* The source port of the exchange datagrams, as the proxy sees it.
XchPort(r) == IF r = "client" THEN "client_xch" ELSE "server_xch"

XchInit ==
  /\ xpc = [r \in Endpoint |-> "start"]
  /\ bound = [r \in Endpoint |-> FALSE]
  /\ got = [r \in Endpoint |-> NoMessage]
  /\ cinf = [r \in Endpoint |-> NoInfo]
  /\ inc = [r \in Endpoint |-> 0]

Goto(r, label) == xpc' = [xpc EXCEPT ![r] = label]

\* Mutant: both sides wait for the other before they send.
Open_BothWait(r) ==
  /\ xpc[r] = "start"
  /\ \/ bound' = [bound EXCEPT ![r] = TRUE] /\ Goto(r, "recv")
     \/ CanFail /\ bound' \in {bound, [bound EXCEPT ![r] = TRUE]} /\ Goto(r, "failed")
  /\ UNCHANGED <<net, got, cinf, inc>>

\* A socket bound to 4793 and one for sending.  A failure behind the bind
\* returns through err1 or err2 and leaves the bound socket open.
Open(r) ==
  /\ xpc[r] = "start"
  /\ \/ bound' = [bound EXCEPT ![r] = TRUE] /\ Goto(r, IF r = "client" THEN "send" ELSE "recv")
     \/ CanFail /\ bound' \in {bound, [bound EXCEPT ![r] = TRUE]} /\ Goto(r, "failed")
  /\ UNCHANGED <<net, got, cinf, inc>>

\* Mutant: the server's reply carries what it received.
Send_Echo(r) ==
  /\ xpc[r] = "send"
  /\ net' = net \cup {Datagram(XchPort(r), "proxy",
                               IF r = "server" THEN got[r].info ELSE Info(r), 100)}
  /\ Goto(r, IF r = "client" THEN "recv" ELSE "parse")
  /\ UNCHANGED <<bound, got, cinf, inc>>

\* Mutant: what was printed into msg_send is sent, not the whole of it.
Send_Strlen(r) ==
  /\ xpc[r] = "send"
  /\ net' = net \cup {Datagram(XchPort(r), "proxy", Info(r), 18)}
  /\ Goto(r, IF r = "client" THEN "recv" ELSE "parse")
  /\ UNCHANGED <<bound, got, cinf, inc>>

\* prepare_msg() and sendto(): the client sends first, the server answers.
Send(r) ==
  /\ xpc[r] = "send"
  /\ net' = net \cup {Datagram(XchPort(r), "proxy", Info(r), 100)}
  /\ Goto(r, IF r = "client" THEN "recv" ELSE "parse")
  /\ UNCHANGED <<bound, got, cinf, inc>>

\* recvfrom() blocks until a datagram is there; msg_recv was cleared, and when
\* the call fails it stays so and the server answers all the same.
Receive(r) ==
  /\ xpc[r] = "recv"
  /\ \/ \E m \in net : m.dst = r /\ got' = [got EXCEPT ![r] = m] /\ net' = net \ {m}
     \/ ReceiveFails /\ UNCHANGED <<net, got>>
  /\ Goto(r, IF r = "client" THEN "parse" ELSE "send")
  /\ UNCHANGED <<bound, cinf, inc>>

\* Mutant: the length is not looked at.
Parse_AnyLength(r) ==
  /\ xpc[r] = "parse"
  /\ Goto(r, "done") /\ cinf' = [cinf EXCEPT ![r] = got[r].info]
  /\ UNCHANGED <<net, bound, got, inc>>

\* parse_conn_inf() and the return.  shutdown() does not close the socket: the
\* port stays taken until the process ends.
Parse(r) ==
  /\ xpc[r] = "parse"
  /\ IF got[r].len < 18
     THEN Goto(r, "failed") /\ UNCHANGED cinf
     ELSE Goto(r, "done") /\ cinf' = [cinf EXCEPT ![r] = got[r].info]
  /\ UNCHANGED <<net, bound, got, inc>>

\* The user kills a process and starts it again: a new queue pair.  The
\* datagrams of net that the old socket had queued are lost like any other.
Restart(r) ==
  /\ xpc[r] # "start" /\ inc[r] < MaxRestarts
  /\ inc' = [inc EXCEPT ![r] = @ + 1]
  /\ Goto(r, "start")
  /\ bound' = [bound EXCEPT ![r] = FALSE]
  /\ got' = [got EXCEPT ![r] = NoMessage]
  /\ cinf' = [cinf EXCEPT ![r] = NoInfo]
  /\ UNCHANGED net

XchStep(r) == Open(r) \/ Send(r) \/ Receive(r) \/ Parse(r)

XchTypeOK ==
  /\ xpc \in [Endpoint -> {"start", "send", "recv", "parse", "done", "failed"}]
  /\ bound \in [Endpoint -> BOOLEAN]
  /\ inc \in [Endpoint -> 0..MaxRestarts]
================================================================================
