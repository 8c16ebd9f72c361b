-------------------------------- MODULE RcSession --------------------------------
(***************************************************************************)
(* The RDMA client and server that exchange messages over a reliable       *)
(* connection: programs/rdma-progs/client-server ("exchanged": the peer's  *)
(* GID and queue pair number come from xch-qpn.c) and the earlier programs *)
(* of vagrant-environment, key_based_improved ("typed": both run on one    *)
(* device and the user types the peer's number) and key_based_storage      *)
(* ("one_shot": typed too, but the client sends "hello" once and leaves).  *)
(*                                                                         *)
(* A message is its number; client memory 2n holds message n and 2n - 1 a  *)
(* copy of it that strcpy() has not finished.  Memory 0 is empty.          *)
(***************************************************************************)
EXTENDS Integers, Sequences

CONSTANTS
  Variants,       \* the pairs of programs considered
  MaxMessages,    \* bound: the messages typed, or empty at the end of the input
  NumCqe,         \* num_cqe, 16 in the code: the capacity of a completion queue
  CanFail         \* whether the command line is bad, or a call of the verbs library fails

ASSUME RcAssumption ==
  /\ Variants \subseteq {"exchanged", "typed", "one_shot"}
  /\ MaxMessages \in Nat \ {0} /\ NumCqe \in Nat /\ CanFail \in BOOLEAN

VARIABLES
  variant,        \* the pair of programs that runs
  at,             \* at[r]: the call process r makes next
  qp,             \* qp[r]: the state of its queue pair
  dest,           \* dest[r]: whether its queue pair is addressed to the partner's
  learnt,         \* what xch_conn_inf_client/server() have found (InfoExchange)
  mem,            \* mem[r]: the registered memory
  sq,             \* the client's send requests without a completion, in order
  wire,           \* the payload of a packet under way to the server, or NoPacket
  unpolled,       \* the completions in the client's completion queue
  posted,         \* whether the server has a receive request posted
  completion,     \* the server's completion queue: at most one entry
  printed         \* history: what the server printed

vars == <<variant, at, qp, dest, learnt, mem, sq, wire, unpolled, posted, completion, printed>>
setupVars == <<qp, dest, learnt>>
dataVars  == <<mem, sq, wire, unpolled, posted, completion, printed>>

Role == {"client", "server"}
IE == INSTANCE InfoExchange

NoPacket == -1

\* What main() does before it calls run_client() or run_server(): the programs
\* with one message look at no option and take the first device of the list.
Main(v) == IF v = "one_shot" THEN <<"device_list">>
           ELSE <<"options", "device_list", "find_device">>

Session == <<"open_device", "query_gid", "alloc_pd", "create_cq", "create_qp", "to_init",
             "query_port", "learn", "to_rtr", "to_rts", "reg_mr">>
Setup(v) == Main(v) \o Session
Calls(v) == {Setup(v)[n] : n \in DOMAIN Setup(v)}

\* What follows the setup.  "hello" has been copied before the memory is registered.
Loop(r) == IF r = "server" THEN "post_recv"
           ELSE IF variant = "one_shot" THEN "post_send" ELSE "input"
After(r) == LET n == CHOOSE k \in DOMAIN Setup(variant) : Setup(variant)[k] = at[r]
            IN  IF n = Len(Setup(variant)) THEN Loop(r) ELSE Setup(variant)[n + 1]
Goto(r, label) == at' = [at EXCEPT ![r] = label]

Init ==
  /\ variant \in Variants
  /\ at = [r \in Role |-> Head(Main(variant))]
  /\ qp = [r \in Role |-> "none"]
  /\ dest = [r \in Role |-> "unset"]
  /\ IE!Init
  /\ mem = [r \in Role |-> 0]
  /\ sq = <<>> /\ wire = NoPacket /\ unpolled = 0
  /\ posted = FALSE /\ completion = "none"
  /\ printed = <<>>

\* Mutant: qp_rtr_to_rts() asks for another state.
StateAfter_Drained(call, state) ==
  CASE call = "create_qp" -> "RESET" [] call = "to_init" -> "INIT"
    [] call = "to_rtr" -> "RTR" [] call = "to_rts" -> "SQD" [] OTHER -> state

\* The state a successful call leaves the queue pair in.
StateAfter(call, state) ==
  CASE call = "create_qp" -> "RESET" [] call = "to_init" -> "INIT"
    [] call = "to_rtr" -> "RTR" [] call = "to_rts" -> "RTS" [] OTHER -> state

\* Whom "to_rtr" connects with.  The client takes what the exchange left in
\* cinf, the server its own GID and a number it never assigned; in the other
\* pairs the GID is that of the one device and the number is typed.
Connects(r) ==
  IF variant # "exchanged" THEN {"partner", "other"}
  ELSE IF r = "client" /\ learnt[r] # "none" THEN {"partner"} ELSE {"other"}

\* The memory that "reg_mr" registers.
Registered(r) == IF variant = "one_shot" /\ r = "client" THEN 2 ELSE 0

SetupCall(r) ==
  /\ at[r] \in Calls(variant) \ {"learn"}
  /\ Goto(r, After(r))
  /\ qp' = [qp EXCEPT ![r] = StateAfter(at[r], @)]
  /\ IF at[r] = "to_rtr"
     THEN \E d \in Connects(r) : dest' = [dest EXCEPT ![r] = d]
     ELSE UNCHANGED dest
  /\ mem' = IF at[r] = "reg_mr" THEN [mem EXCEPT ![r] = Registered(r)] ELSE mem
  /\ UNCHANGED <<variant, learnt, sq, wire, unpolled, posted, completion, printed>>

\* Every call is checked, but the client reads mr->lkey before it checks mr, and
\* the first device of an empty list is opened all the same.
Failure(r) ==
  IF r = "client" /\ at[r] = "reg_mr" THEN {"crashed"}
  ELSE IF variant = "one_shot" /\ at[r] = "open_device" THEN {"exited", "crashed"}
  ELSE {"exited"}

SetupFails(r) ==
  /\ CanFail /\ at[r] \in Calls(variant) \ {"learn"}
  /\ \E label \in Failure(r) : Goto(r, label)
  /\ qp' = [qp EXCEPT ![r] = "none"]
  /\ UNCHANGED <<variant, dest, learnt, dataVars>>

\* The exchange of connection information runs while both sides are in it; what
\* it returns is not looked at.  A number typed is one that scanf() waits for.
Exchange ==
  /\ variant = "exchanged" /\ at["client"] = "learn"
  /\ \/ at["server"] = "learn" /\ IE!ServerLearns
     \/ IE!ClientLearns
  /\ UNCHANGED <<variant, at, qp, dest, dataVars>>

Learn(r) ==
  /\ at[r] = "learn"
  /\ variant # "exchanged" \/ CanFail \/ learnt[r] # "none"
  /\ Goto(r, After(r))
  /\ UNCHANGED <<variant, setupVars, dataVars>>

-----------------------------------------------------------------------------

\* Mutant: the request is posted before the message is copied.
Input_PostFirst ==
  /\ at["client"] = "input" /\ mem["client"] < 2 * MaxMessages
  /\ sq' = Append(sq, "sent")
  /\ Goto("client", "copy")
  /\ UNCHANGED <<variant, setupVars, mem, wire, unpolled, posted, completion, printed>>

\* scanf() and the first half of strcpy(mem, input_buf).  The result of scanf() is
\* not looked at: at the end of the input each turn has an empty message, which
\* counts as typed like any other.
Input ==
  /\ at["client"] = "input" /\ mem["client"] < 2 * MaxMessages
  /\ mem' = [mem EXCEPT !["client"] = @ + 1]
  /\ Goto("client", "copy")
  /\ UNCHANGED <<variant, setupVars, sq, wire, unpolled, posted, completion, printed>>

Copy ==
  /\ at["client"] = "copy"
  /\ mem' = [mem EXCEPT !["client"] = @ + 1]
  /\ Goto("client", "post_send")
  /\ UNCHANGED <<variant, setupVars, sq, wire, unpolled, posted, completion, printed>>

\* ibv_post_send(): the queue was asked for one entry and may have more.
PostSend ==
  /\ at["client"] = "post_send"
  /\ \/ /\ sq' = IF qp["client"] = "RTS" THEN Append(sq, "sent") ELSE sq
        /\ Goto("client", IF variant = "one_shot" THEN "close" ELSE "input")
        /\ UNCHANGED qp
     \/ /\ CanFail \/ sq # <<>>
        /\ Goto("client", "exited")
        /\ qp' = [qp EXCEPT !["client"] = "none"] /\ sq' = <<>>
  /\ UNCHANGED <<variant, dest, learnt, mem, wire, unpolled, posted, completion, printed>>

\* The end of a one-shot program: ibv_close_device() takes the queue pair with
\* it, on the client whether or not the message has been sent.  The server
\* deregisters its memory before, which may fail.
Close(r) ==
  /\ at[r] = "close"
  /\ \/ Goto(r, "returned")
     \/ CanFail /\ r = "server" /\ Goto(r, "exited")
  /\ qp' = [qp EXCEPT ![r] = "none"]
  /\ sq' = IF r = "client" THEN <<>> ELSE sq
  /\ UNCHANGED <<variant, dest, learnt, mem, wire, unpolled, posted, completion, printed>>

\* ibv_post_recv().
PostRecv ==
  /\ at["server"] = "post_recv"
  /\ posted' = TRUE
  /\ Goto("server", "poll")
  /\ UNCHANGED <<variant, setupVars, mem, sq, wire, unpolled, completion, printed>>

\* Mutant: the next receive request is posted before the message is printed.
Poll_PostAgain ==
  /\ at["server"] = "poll" /\ completion = "success"
  /\ completion' = "none" /\ posted' = TRUE
  /\ Goto("server", "print")
  /\ UNCHANGED <<variant, setupVars, mem, sq, wire, unpolled, printed>>

\* Mutant: ibv_poll_cq() is called once; the status it leaves alone is 0, success.
Poll_Once ==
  /\ at["server"] = "poll"
  /\ completion' = "none"
  /\ Goto("server", "print")
  /\ UNCHANGED <<variant, setupVars, mem, sq, wire, unpolled, posted, printed>>

\* Mutant: the next receive request is posted and the message is not printed.
Poll_Quiet ==
  /\ at["server"] = "poll" /\ completion = "success"
  /\ completion' = "none"
  /\ Goto("server", "post_recv")
  /\ UNCHANGED <<variant, setupVars, mem, sq, wire, unpolled, posted, printed>>

\* ibv_poll_cq() until there is a completion.
Poll ==
  /\ at["server"] = "poll" /\ completion = "success"
  /\ completion' = "none"
  /\ Goto("server", "print")
  /\ UNCHANGED <<variant, setupVars, mem, sq, wire, unpolled, posted, printed>>

\* ibv_post_recv() or ibv_poll_cq() fails, or the completion is an error.
ServerFails ==
  /\ CanFail /\ at["server"] \in {"post_recv", "poll"}
  /\ Goto("server", "exited")
  /\ qp' = [qp EXCEPT !["server"] = "none"]
  /\ posted' = FALSE /\ completion' = "none"
  /\ UNCHANGED <<variant, dest, learnt, mem, sq, wire, unpolled, printed>>

\* Mutant: only one receive request is ever posted.
PrintMessage_PostOnce ==
  /\ at["server"] = "print"
  /\ printed' = Append(printed, mem["server"])
  /\ mem' = [mem EXCEPT !["server"] = 0]
  /\ Goto("server", "poll")
  /\ UNCHANGED <<variant, setupVars, sq, wire, unpolled, posted, completion>>

\* printf(), and memset(mem, 0, mem_len) or the end of the program.
PrintMessage ==
  /\ at["server"] = "print"
  /\ printed' = Append(printed, mem["server"])
  /\ mem' = [mem EXCEPT !["server"] = 0]
  /\ Goto("server", IF variant = "one_shot" THEN "close" ELSE "post_recv")
  /\ UNCHANGED <<variant, setupVars, sq, wire, unpolled, posted, completion>>

-----------------------------------------------------------------------------

\* The reliable connection.  The oldest request that has not arrived is sent, or
\* sent again; the payload is read from the client's memory now.
Transmit ==
  /\ qp["client"] = "RTS" /\ dest["client"] = "partner"
  /\ \E n \in DOMAIN sq : sq[n] = "sent"
  /\ wire' = mem["client"] /\ wire # mem["client"]
  /\ UNCHANGED <<variant, at, setupVars, mem, sq, unpolled, posted, completion, printed>>

\* A packet is lost, or refused by a server that is not ready for it.
Lose ==
  /\ wire # NoPacket
  /\ wire' = NoPacket
  /\ UNCHANGED <<variant, at, setupVars, mem, sq, unpolled, posted, completion, printed>>

\* It reaches the server, whose queue pair takes it wherever its own address
\* points and even if its sender is gone.
Deliver ==
  /\ wire # NoPacket /\ qp["server"] \in {"RTR", "RTS"} /\ posted
  /\ IF \E n \in DOMAIN sq : sq[n] = "sent"
     THEN \E n \in DOMAIN sq :
            /\ sq[n] = "sent" /\ \A k \in 1..(n - 1) : sq[k] = "arrived"
            /\ sq' = [sq EXCEPT ![n] = "arrived"]
     ELSE UNCHANGED sq
  /\ wire' = NoPacket
  /\ mem' = [mem EXCEPT !["server"] = wire]
  /\ posted' = FALSE
  /\ completion' = "success"
  /\ UNCHANGED <<variant, at, setupVars, unpolled, printed>>

\* The answer of the server completes the oldest request.  The client never
\* polls: one completion too many is an error of its queue pair.
Acknowledge ==
  /\ qp["client"] = "RTS" /\ dest["server"] = "partner"
  /\ sq # <<>> /\ Head(sq) = "arrived"
  /\ sq' = Tail(sq)
  /\ IF unpolled < NumCqe
     THEN unpolled' = unpolled + 1 /\ UNCHANGED qp
     ELSE qp' = [qp EXCEPT !["client"] = "ERR"] /\ UNCHANGED unpolled
  /\ UNCHANGED <<variant, at, dest, learnt, mem, wire, posted, completion, printed>>

Connected ==
  /\ qp["client"] = "RTS" /\ qp["server"] \in {"RTR", "RTS"}
  /\ dest = [r \in Role |-> "partner"]

\* Seven retries without an answer (retry_cnt 7) are an error of the client's queue
\* pair: nobody is there to answer, or the network lost them all.  A server without
\* a receive request does answer and is asked again without end (rnr_retry 7).
GiveUp ==
  /\ qp["client"] = "RTS" /\ sq # <<>>
  /\ qp' = [qp EXCEPT !["client"] = "ERR"]
  /\ sq' = <<>>
  /\ UNCHANGED <<variant, at, dest, learnt, mem, wire, unpolled, posted, completion, printed>>

ClientStep == Input \/ Copy \/ PostSend \/ Close("client")
ServerStep == PostRecv \/ Poll \/ PrintMessage \/ Close("server")

Next ==
  \/ \E r \in Role : SetupCall(r) \/ SetupFails(r) \/ Learn(r)
  \/ Exchange
  \/ ClientStep \/ ServerStep \/ ServerFails
  \/ Transmit \/ Lose \/ Deliver \/ Acknowledge \/ GiveUp

\* The server is scheduled, and the adapters carry out what they are asked, over
\* a network that does not lose every packet for as long as the client's adapter
\* tries.  The user need not type anything, and the client need not run.
Fairness == /\ WF_vars(SetupCall("server")) /\ WF_vars(ServerStep)
            /\ WF_vars(Transmit) /\ SF_vars(Deliver)

Spec == Init /\ [][Next]_vars /\ Fairness

-----------------------------------------------------------------------------

\* Every variable has its type.
TypeOK ==
  /\ variant \in Variants
  /\ at \in [Role -> Calls(variant) \cup {"input", "copy", "post_send", "post_recv", "poll",
                                        "print", "close", "returned", "exited", "crashed"}]
  /\ qp \in [Role -> {"none", "RESET", "INIT", "RTR", "RTS", "ERR"}]
  /\ dest \in [Role -> {"unset", "partner", "other"}]
  /\ learnt \in [Role -> Role \cup {"none"}]
  /\ mem \in [Role -> 0..(2 * MaxMessages)]
  /\ sq \in Seq({"sent", "arrived"})
  /\ wire \in 0..(2 * MaxMessages) \cup {NoPacket}
  /\ unpolled \in 0..NumCqe
  /\ posted \in BOOLEAN /\ completion \in {"none", "success"}
  /\ printed \in Seq(0..(2 * MaxMessages))

\* What the server prints was typed, in the order it was typed.  A message may
\* be skipped, repeated or mixed with the one after it, since the client copies
\* the next message without a look at the request before, but none comes back
\* and the server neither prints cleared memory nor clears a message unseen.
PrintsWhatWasTyped ==
  /\ \A n \in DOMAIN printed : printed[n] \in 1..mem["client"]
  /\ \A k, n \in DOMAIN printed : k < n => printed[k] <= printed[n]

\* ibv_poll_cq() may write 16 completions where the server has room for one
\* (wc): a message can arrive only while the server polls and has none to poll,
\* so that there is never a second, and the memory it prints or clears stays put.
ReceivesOneByOne == posted => at["server"] = "poll" /\ completion = "none"

\* The server of a one-shot pair prints the message, whole and once, or nothing:
\* it never returns without it, and never before the client has posted it, even
\* though that client leaves at once and may take the message with it.
OneShotExact ==
  variant = "one_shot" =>
    /\ printed \in {<<>>, <<2>>}
    /\ at["server"] = "returned" =>
         printed = <<2>> /\ at["client"] \in {"close", "returned"}

\* A message lies in the server's memory and has not been printed.
HasMessage == completion = "success" \/ at["server"] = "print"

\* The k-th message that the server prints is the k-th that was typed or one
\* after it: no request delivers what lay in the client's memory before it was
\* posted, and none is printed twice, however often it is sent or refused.  So
\* there are never more messages printed than typed.
NoneOlder == \A k \in DOMAIN printed : 2 * k <= printed[k]

\* A request that completed at the client was printed, or lies in the server's
\* memory and is printed next, unless a call of the server fails.
CompletedIsPrinted ==
  at["server"] # "exited" => unpolled <= Len(printed) + (IF HasMessage THEN 1 ELSE 0)

\* The server never waits for a completion that cannot come: while it polls there
\* is one, or a request for one.
NeverDeaf == at["server"] = "poll" => posted \/ completion = "success"

\* A message posted on a working connection is printed, or one after it that
\* was copied over it, unless the connection ends: by a call that fails, a client
\* that leaves, a full completion queue or retries that are used up.
PostedIsPrinted ==
  \A n \in 1..MaxMessages :
    (Connected /\ at["client"] \in {"input", "close"} /\ mem["client"] = 2 * n
       /\ sq # <<>> /\ sq[Len(sq)] = "sent")
    ~> (~Connected \/ \E k \in DOMAIN printed : printed[k] >= 2 * n)

\* A server that was told of its client connects its queue pair with it
\* (server.c:104, "exchange info with client").
ServerConnectsToClient ==
  qp["server"] \in {"RTR", "RTS"} /\ learnt["server"] = "client" => dest["server"] = "partner"
================================================================================
