------------------------------- MODULE MCIbProxy -------------------------------
(***************************************************************************)
(* IbProxy for TLC: the two peers; a host whose address the client's        *)
(* begins with, one that begins with the client's, and two others.         *)
(***************************************************************************)
EXTENDS IbProxy

Peers       == {client_address, server_address}
PeersOthers == Peers \cup {<<1>>, <<1, 5, 0>>, <<1, 7>>, <<2, 5>>}
================================================================================
