------------------------------ MODULE InfoExchange ------------------------------
(***************************************************************************)
(* What the exchange of connection information promises its two callers    *)
(* when neither process is started again: the server learns the            *)
(* information of the client, and only then the client learns that of the  *)
(* server.  It promises nothing of when.                                   *)
(***************************************************************************)
VARIABLE learnt           \* learnt[r]: whose information r has, or "none"

Init == learnt = [r \in {"client", "server"} |-> "none"]

ServerLearns ==
  /\ learnt["server"] = "none" /\ learnt["client"] = "none"
  /\ learnt' = [learnt EXCEPT !["server"] = "client"]

ClientLearns ==
  /\ learnt["server"] = "client" /\ learnt["client"] = "none"
  /\ learnt' = [learnt EXCEPT !["client"] = "server"]

Spec == Init /\ [][ServerLearns \/ ClientLearns]_learnt
================================================================================
