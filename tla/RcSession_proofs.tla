---------------------------- MODULE RcSession_proofs ----------------------------
(***************************************************************************)
(* Proofs about the RDMA client and server, for any number of messages,    *)
(* any completion queue, failing calls and a network that loses packets.   *)
(***************************************************************************)
EXTENDS RcSession, SequenceTheorems, TLAPS

USE DEF Role

AllCalls == {"options", "device_list", "find_device", "open_device", "query_gid", "alloc_pd",
             "create_cq", "create_qp", "to_init", "query_port", "learn", "to_rtr", "to_rts", "reg_mr"}

\* "reg_mr" is the last call of the setup, for every pair of programs.
LEMMA SessionFacts ==
  /\ Session \in Seq(AllCalls) /\ Len(Session) = 11
  /\ \A n \in 1..11 : Session[n] = "reg_mr" <=> n = 11
BY DEF Session, AllCalls

LEMMA MainFacts ==
  ASSUME NEW v
  PROVE  /\ Main(v) \in Seq(AllCalls) /\ Len(Main(v)) \in {1, 3}
         /\ \A n \in 1..Len(Main(v)) : Main(v)[n] # "reg_mr"
<1>1. CASE v = "one_shot"
  <2> DEFINE m == <<"device_list">>
  <2>1. m \in Seq(AllCalls) /\ Len(m) = 1 /\ \A n \in 1..1 : m[n] # "reg_mr"
    BY DEF AllCalls
  <2> QED BY <1>1, <2>1 DEF Main
<1>2. CASE v # "one_shot"
  <2> DEFINE m == <<"options", "device_list", "find_device">>
  <2>1. m \in Seq(AllCalls) /\ Len(m) = 3 /\ \A n \in 1..3 : m[n] # "reg_mr"
    BY DEF AllCalls
  <2> QED BY <1>2, <2>1 DEF Main
<1> QED BY <1>1, <1>2

LEMMA SetupConcat ==
  ASSUME NEW v
  PROVE  /\ Setup(v) \in Seq(AllCalls)
         /\ Len(Setup(v)) = Len(Main(v)) + 11
         /\ \A n \in 1..(Len(Main(v)) + 11) :
              Setup(v)[n] = IF n <= Len(Main(v)) THEN Main(v)[n] ELSE Session[n - Len(Main(v))]
<1> DEFINE m == Main(v)
<1>1. m \in Seq(AllCalls) /\ Setup(v) = m \o Session
  BY MainFacts DEF Setup
<1> HIDE DEF m
<1>2. /\ m \o Session \in Seq(AllCalls)
      /\ Len(m \o Session) = Len(m) + Len(Session)
      /\ \A n \in 1..(Len(m) + Len(Session)) :
            (m \o Session)[n] = IF n <= Len(m) THEN m[n] ELSE Session[n - Len(m)]
  BY <1>1, SessionFacts, ConcatProperties, Zenon
<1> QED BY <1>1, <1>2, SessionFacts DEF m

LEMMA SetupFacts ==
  ASSUME NEW v
  PROVE  /\ Setup(v) \in Seq(AllCalls)
         /\ Len(Setup(v)) \in Nat \ {0}
         /\ \A n \in 1..Len(Setup(v)) : Setup(v)[n] = "reg_mr" <=> n = Len(Setup(v))
         /\ Head(Main(v)) = Setup(v)[1]
<1> DEFINE m == Main(v)
<1>0. m \in Seq(AllCalls) /\ Len(m) \in {1, 3} /\ \A n \in 1..Len(m) : m[n] # "reg_mr"
  BY MainFacts
<1>1. /\ Setup(v) \in Seq(AllCalls)
      /\ Len(Setup(v)) = Len(m) + 11
      /\ \A n \in 1..(Len(m) + 11) :
            Setup(v)[n] = IF n <= Len(m) THEN m[n] ELSE Session[n - Len(m)]
  BY SetupConcat
<1> HIDE DEF m
<1>2. ASSUME NEW n \in 1..Len(Setup(v))
      PROVE  Setup(v)[n] = "reg_mr" <=> n = Len(Setup(v))
  <2>1. CASE n <= Len(m)
    BY <1>0, <1>1, <2>1
  <2>2. CASE n > Len(m)
    <3>1. n - Len(m) \in 1..11 /\ (n - Len(m) = 11 <=> n = Len(Setup(v)))
      BY <1>0, <1>1, <2>2
    <3>2. Setup(v)[n] = Session[n - Len(m)]
      BY <1>0, <1>1, <2>2
    <3> QED BY <3>1, <3>2, SessionFacts
  <2> QED BY <1>0, <1>1, <2>1, <2>2
<1>3. Head(m) = Setup(v)[1]
  BY <1>0, <1>1
<1> QED BY <1>0, <1>1, <1>2, <1>3 DEF m

LEMMA CallsFacts ==
  ASSUME NEW v
  PROVE  /\ Calls(v) \subseteq AllCalls
         /\ Head(Main(v)) \in Calls(v)
<1>1. DOMAIN Setup(v) = 1..Len(Setup(v))
  BY SetupFacts
<1> QED BY <1>1, SetupFacts DEF Calls

LEMMA LearnIsCalled ==
  ASSUME NEW v
  PROVE  "learn" \in Calls(v)
<1>1. Session[8] = "learn"
  BY DEF Session
<1>2. Len(Main(v)) + 8 \in 1..(Len(Main(v)) + 11) /\ Len(Main(v)) + 8 - Len(Main(v)) = 8
  BY MainFacts
<1>3. Len(Main(v)) + 8 \in DOMAIN Setup(v) /\ Setup(v)[Len(Main(v)) + 8] = "learn"
  BY <1>1, <1>2, SetupConcat, MainFacts
<1> QED BY <1>3 DEF Calls

\* What follows a call of the setup.
LEMMA AfterFacts ==
  ASSUME NEW r \in Role, at[r] \in Calls(variant)
  PROVE  IF at[r] = "reg_mr" THEN After(r) = Loop(r) ELSE After(r) \in Calls(variant)
<1> DEFINE S == Setup(variant)
           n == CHOOSE k \in DOMAIN S : S[k] = at[r]
<1>1. DOMAIN S = 1..Len(S)
  BY SetupFacts
<1>2. n \in DOMAIN S /\ S[n] = at[r]
  BY DEF Calls
<1>3. After(r) = IF n = Len(S) THEN Loop(r) ELSE S[n + 1]
  BY DEF After
<1>4. CASE at[r] = "reg_mr"
  BY <1>1, <1>2, <1>3, <1>4, SetupFacts
<1>5. CASE at[r] # "reg_mr"
  <2>1. n # Len(S) /\ n + 1 \in DOMAIN S
    BY <1>1, <1>2, <1>5, SetupFacts
  <2> QED BY <1>3, <1>5, <2>1 DEF Calls
<1> QED BY <1>4, <1>5

-----------------------------------------------------------------------------

ClientLabels == {"input", "copy", "post_send", "close", "returned", "exited", "crashed"}
ServerLabels == {"post_recv", "poll", "print", "close", "returned", "exited", "crashed"}

EvenMem == {2 * k : k \in 0..MaxMessages}

\* Where the processes are, and what the client has copied there.
LabelInv ==
  /\ at \in [Role -> Calls(variant) \cup ClientLabels \cup ServerLabels]
  /\ at["client"] \in Calls(variant) \cup ClientLabels
  /\ at["server"] \in Calls(variant) \cup ServerLabels
  /\ at["client"] \in Calls(variant) => mem["client"] = 0
  /\ at["client"] = "input" => mem["client"] \in EvenMem
  /\ at["client"] = "copy" => mem["client"] + 1 \in EvenMem
  /\ at["client"] = "post_send" => mem["client"] \in EvenMem \ {0}

SetupTypes ==
  /\ qp \in [Role -> {"none", "RESET", "INIT", "RTR", "RTS", "ERR"}]
  /\ dest \in [Role -> {"unset", "partner", "other"}]
  /\ learnt \in [Role -> Role \cup {"none"}]

MemTypes ==
  /\ mem \in [Role -> 0..(2 * MaxMessages)]
  /\ wire \in 0..(2 * MaxMessages) \cup {NoPacket}
  /\ printed \in Seq(0..(2 * MaxMessages))

QueueTypes ==
  /\ sq \in Seq({"sent", "arrived"})
  /\ unpolled \in 0..NumCqe
  /\ posted \in BOOLEAN
  /\ completion \in {"none", "success"}

\* The strengthening of TypeOK.
TypeInv == variant \in Variants /\ LabelInv /\ SetupTypes /\ MemTypes /\ QueueTypes

\* No label of a loop is a call of the setup.
LEMMA LabelsDistinct == Calls(variant) \cap (ClientLabels \cup ServerLabels) = {}
BY CallsFacts DEF AllCalls, ClientLabels, ServerLabels

LEMMA InitTypes == Init => TypeInv
<1> SUFFICES ASSUME Init PROVE TypeInv
  OBVIOUS
<1>1. \A r \in Role : at[r] \in Calls(variant)
  BY CallsFacts DEF Init
<1>2. LabelInv
  <2>1. mem["client"] = 0
    BY DEF Init
  <2>2. at \in [Role -> Calls(variant) \cup ClientLabels \cup ServerLabels]
    BY <1>1 DEF Init
  <2> QED BY <1>1, <2>1, <2>2, LabelsDistinct DEF LabelInv, ClientLabels
<1>3. SetupTypes
  BY DEF Init, IE!Init, SetupTypes
<1>4. MemTypes
  BY RcAssumption, EmptySeq DEF Init, MemTypes
<1>5. QueueTypes
  <2>1. posted \in BOOLEAN
    BY Zenon DEF Init
  <2>2. sq \in Seq({"sent", "arrived"}) /\ unpolled \in 0..NumCqe
    BY RcAssumption, EmptySeq DEF Init
  <2>3. completion \in {"none", "success"}
    BY Zenon DEF Init
  <2> QED BY <2>1, <2>2, <2>3 DEF QueueTypes
<1> QED BY <1>2, <1>3, <1>4, <1>5 DEF TypeInv, Init

\* A process goes to another label, and its partner stays where it is.
LEMMA GotoEffect ==
  ASSUME LabelInv, NEW r \in Role, NEW l, Goto(r, l)
  PROVE  /\ at'[r] = l
         /\ \A q \in Role : q # r => at'[q] = at[q]
BY DEF Goto, LabelInv

\* A step of one process to a label of its own keeps LabelInv when the memory of
\* the client fits the label.
LEMMA LabelStep ==
  ASSUME LabelInv, NEW r \in Role, NEW l, Goto(r, l), UNCHANGED variant,
         l \in Calls(variant) \cup (IF r = "client" THEN ClientLabels ELSE ServerLabels),
         r = "server" => mem'["client"] = mem["client"],
         r = "client" =>
           /\ l \in Calls(variant) => mem'["client"] = 0
           /\ l = "input" => mem'["client"] \in EvenMem
           /\ l = "copy" => mem'["client"] + 1 \in EvenMem
           /\ l = "post_send" => mem'["client"] \in EvenMem \ {0}
  PROVE  LabelInv'
<1>1. at'[r] = l /\ \A q \in Role : q # r => at'[q] = at[q]
  BY GotoEffect
<1>2. at' \in [Role -> Calls(variant) \cup ClientLabels \cup ServerLabels]
  BY DEF Goto, LabelInv
<1>3. Calls(variant') = Calls(variant) /\ EvenMem' = EvenMem
  BY DEF Calls, Setup, Main, Session, EvenMem
<1>4. CASE r = "client"
  BY <1>1, <1>2, <1>3, <1>4 DEF LabelInv
<1>5. CASE r = "server"
  BY <1>1, <1>2, <1>3, <1>5 DEF LabelInv
<1> QED BY <1>4, <1>5

-----------------------------------------------------------------------------

\* The setup of either process.
LEMMA SetupTypesKept ==
  ASSUME TypeInv, NEW r \in Role, SetupCall(r) \/ SetupFails(r) \/ Learn(r)
  PROVE  TypeInv'
<1>0. /\ at[r] \in Calls(variant)
      /\ UNCHANGED <<variant, learnt, sq, wire, unpolled, posted, completion, printed>>
      /\ mem \in [Role -> 0..(2 * MaxMessages)] /\ LabelInv
  BY LearnIsCalled DEF SetupCall, SetupFails, Learn, setupVars, dataVars, TypeInv, MemTypes
<1>1. SetupTypes' /\ QueueTypes'
  <2>1. QueueTypes'
    BY <1>0 DEF TypeInv, QueueTypes
  <2>2. dest' \in [Role -> {"unset", "partner", "other"}]
    BY DEF SetupCall, SetupFails, Learn, setupVars, TypeInv, SetupTypes, Connects
  <2>3. qp' \in [Role -> {"none", "RESET", "INIT", "RTR", "RTS", "ERR"}]
    BY DEF SetupCall, SetupFails, Learn, setupVars, TypeInv, SetupTypes, StateAfter
  <2> QED BY <1>0, <2>1, <2>2, <2>3 DEF TypeInv, SetupTypes
<1>2. mem' \in [Role -> 0..(2 * MaxMessages)]
  BY <1>0, RcAssumption DEF SetupCall, SetupFails, Learn, dataVars, Registered
<1>3. MemTypes'
  BY <1>0, <1>2 DEF TypeInv, MemTypes
<1>4. LabelInv'
  <2>1. CASE (SetupCall(r) /\ at[r] # "reg_mr") \/ Learn(r)
    <3>1. Goto(r, After(r)) /\ After(r) \in Calls(variant) /\ UNCHANGED mem
      BY <1>0, <2>1, AfterFacts DEF SetupCall, Learn, dataVars
    <3> QED BY <1>0, <3>1, LabelStep, LabelsDistinct DEF LabelInv, ClientLabels
  <2>2. CASE SetupCall(r) /\ at[r] = "reg_mr"
    <3>1. Goto(r, After(r)) /\ After(r) = Loop(r) /\ mem' = [mem EXCEPT ![r] = Registered(r)]
      BY <1>0, <2>2, AfterFacts DEF SetupCall
    <3>2. CASE r = "server"
      BY <1>0, <3>1, <3>2, LabelStep DEF Loop, ServerLabels
    <3>3. CASE r = "client"
      <4>1. 0 \in EvenMem /\ 2 \in EvenMem \ {0}
        BY RcAssumption DEF EvenMem
      <4>2. Loop(r) = IF variant = "one_shot" THEN "post_send" ELSE "input"
        BY <3>3 DEF Loop
      <4>3. mem'["client"] = IF variant = "one_shot" THEN 2 ELSE 0
        BY <1>0, <3>1, <3>3 DEF Registered
      <4>4. Loop(r) \in ClientLabels /\ Loop(r) \notin Calls(variant)
        BY <4>2, LabelsDistinct DEF ClientLabels
      <4> QED BY <1>0, <3>1, <3>3, <4>1, <4>2, <4>3, <4>4, LabelStep
    <3> QED BY <3>2, <3>3
  <2>3. CASE SetupFails(r)
    <3>1. PICK l \in {"exited", "crashed"} : Goto(r, l)
      BY <2>3 DEF SetupFails, Failure
    <3>2. UNCHANGED mem /\ l \in ClientLabels \cap ServerLabels /\ l \notin Calls(variant)
      BY <2>3, LabelsDistinct DEF SetupFails, dataVars, ClientLabels, ServerLabels
    <3> QED BY <1>0, <3>1, <3>2, LabelStep
  <2> QED BY <2>1, <2>2, <2>3
<1> QED BY <1>0, <1>1, <1>3, <1>4 DEF TypeInv

\* The loop of the client.
LEMMA ClientTypesKept ==
  ASSUME TypeInv, ClientStep
  PROVE  TypeInv'
<1>0. /\ UNCHANGED <<variant, dest, learnt, wire, unpolled, posted, completion, printed>>
      /\ mem \in [Role -> 0..(2 * MaxMessages)] /\ LabelInv
  BY DEF ClientStep, Input, Copy, PostSend, Close, setupVars, TypeInv, MemTypes
<1>1. SetupTypes'
  BY <1>0 DEF ClientStep, Input, Copy, PostSend, Close, setupVars, TypeInv, SetupTypes
<1>2. QueueTypes'
  <2>1. sq' \in Seq({"sent", "arrived"})
    <3>1. sq \in Seq({"sent", "arrived"}) /\ <<>> \in Seq({"sent", "arrived"})
      BY EmptySeq DEF TypeInv, QueueTypes
    <3>2. Append(sq, "sent") \in Seq({"sent", "arrived"})
      BY <3>1, AppendProperties
    <3>3. sq' \in {sq, <<>>, Append(sq, "sent")}
      BY DEF ClientStep, Input, Copy, PostSend, Close
    <3> QED BY <3>1, <3>2, <3>3
  <2> QED BY <1>0, <2>1 DEF TypeInv, QueueTypes
<1>3. CASE Input
  <2>1. Goto("client", "copy") /\ mem' = [mem EXCEPT !["client"] = @ + 1]
    BY <1>3 DEF Input
  <2>2. mem["client"] \in EvenMem /\ mem["client"] < 2 * MaxMessages
    BY <1>0, <1>3 DEF Input, LabelInv
  <2>3. mem["client"] + 2 \in EvenMem /\ mem["client"] + 1 \in 0..(2 * MaxMessages)
    <3>1. PICK k \in 0..MaxMessages : mem["client"] = 2 * k
      BY <2>2 DEF EvenMem
    <3>2. MaxMessages \in Nat
      BY RcAssumption
    <3>3. k + 1 \in 0..MaxMessages /\ 2 * k + 2 = 2 * (k + 1)
      BY <2>2, <3>1, <3>2
    <3>4. mem["client"] + 2 \in EvenMem
      BY <3>1, <3>3 DEF EvenMem
    <3> QED BY <2>2, <3>1, <3>2, <3>4
  <2>4. mem'["client"] + 1 = mem["client"] + 2 /\ mem' \in [Role -> 0..(2 * MaxMessages)]
    BY <1>0, <2>1, <2>3
  <2>5. LabelInv'
    BY <1>0, <2>1, <2>3, <2>4, LabelStep, LabelsDistinct DEF ClientLabels
  <2> QED BY <1>0, <1>1, <1>2, <2>4, <2>5 DEF TypeInv, MemTypes
<1>4. CASE Copy
  <2>1. Goto("client", "post_send") /\ mem' = [mem EXCEPT !["client"] = @ + 1]
    BY <1>4 DEF Copy
  <2>2. mem["client"] + 1 \in EvenMem /\ mem["client"] >= 0
    BY <1>0, <1>4 DEF Copy, LabelInv
  <2>3. mem["client"] + 1 \in 0..(2 * MaxMessages) /\ mem["client"] + 1 # 0
    <3>1. PICK k \in 0..MaxMessages : mem["client"] + 1 = 2 * k
      BY <2>2 DEF EvenMem
    <3>2. MaxMessages \in Nat /\ mem["client"] \in Nat
      BY <1>0, RcAssumption
    <3> QED BY <2>2, <3>1, <3>2
  <2>4. mem'["client"] \in EvenMem \ {0} /\ mem' \in [Role -> 0..(2 * MaxMessages)]
    BY <1>0, <2>1, <2>2, <2>3
  <2>5. LabelInv'
    BY <1>0, <2>1, <2>4, LabelStep, LabelsDistinct DEF ClientLabels
  <2> QED BY <1>0, <1>1, <1>2, <2>4, <2>5 DEF TypeInv, MemTypes
<1>5. CASE PostSend \/ Close("client")
  <2>1. UNCHANGED mem /\ \E l \in {"close", "input", "exited", "returned"} :
          Goto("client", l) /\ (l = "input" => at["client"] = "post_send")
    BY <1>5 DEF PostSend, Close
  <2>2. at["client"] = "post_send" => mem["client"] \in EvenMem
    BY <1>0 DEF LabelInv
  <2>3. LabelInv'
    BY <1>0, <2>1, <2>2, LabelStep, LabelsDistinct DEF ClientLabels
  <2> QED BY <1>0, <1>1, <1>2, <2>1, <2>3 DEF TypeInv, MemTypes
<1> QED BY <1>3, <1>4, <1>5 DEF ClientStep

\* The loop of the server.
LEMMA ServerTypesKept ==
  ASSUME TypeInv, ServerStep \/ ServerFails
  PROVE  TypeInv'
<1>0. /\ UNCHANGED <<variant, dest, learnt, wire, unpolled>>
      /\ mem \in [Role -> 0..(2 * MaxMessages)] /\ LabelInv
  BY DEF ServerStep, ServerFails, PostRecv, Poll, PrintMessage, Close, setupVars, TypeInv, MemTypes
<1>1. SetupTypes'
  BY <1>0 DEF ServerStep, ServerFails, PostRecv, Poll, PrintMessage, Close, setupVars, TypeInv, SetupTypes
<1>2. QueueTypes'
  <2>1. posted' \in BOOLEAN
    BY Zenon DEF ServerStep, ServerFails, PostRecv, Poll, PrintMessage, Close, TypeInv, QueueTypes
  <2>2. completion' \in {"none", "success"}
    BY Zenon DEF ServerStep, ServerFails, PostRecv, Poll, PrintMessage, Close, TypeInv, QueueTypes
  <2>3. sq' = sq
    BY DEF ServerStep, ServerFails, PostRecv, Poll, PrintMessage, Close
  <2> QED BY <1>0, <2>1, <2>2, <2>3 DEF TypeInv, QueueTypes
<1>3. MemTypes'
  <2>1. UNCHANGED <<mem, printed>> \/ PrintMessage
    BY DEF ServerStep, ServerFails, PostRecv, Poll, Close
  <2>2. CASE PrintMessage
    <3>1. mem' \in [Role -> 0..(2 * MaxMessages)]
      BY <1>0, <2>2, RcAssumption DEF PrintMessage
    <3>2. Append(printed, mem["server"]) \in Seq(0..(2 * MaxMessages))
      BY <1>0, AppendProperties DEF TypeInv, MemTypes
    <3> QED BY <1>0, <2>2, <3>1, <3>2 DEF PrintMessage, TypeInv, MemTypes
  <2> QED BY <1>0, <2>1, <2>2 DEF TypeInv, MemTypes
<1>4. mem'["client"] = mem["client"]
  BY <1>0 DEF ServerStep, ServerFails, PostRecv, Poll, PrintMessage, Close
<1>5. \E l \in ServerLabels : Goto("server", l)
  BY DEF ServerStep, ServerFails, PostRecv, Poll, PrintMessage, Close, ServerLabels
<1>6. LabelInv'
  BY <1>0, <1>4, <1>5, LabelStep
<1> QED BY <1>0, <1>1, <1>2, <1>3, <1>6 DEF TypeInv

\* The exchange, the adapters and the network between them.
Adapters == Transmit \/ Lose \/ Deliver \/ Acknowledge \/ GiveUp

LEMMA NetworkTypesKept ==
  ASSUME TypeInv, Exchange \/ Adapters
  PROVE  TypeInv'
<1>0. /\ UNCHANGED <<variant, at, dest, printed>> /\ mem'["client"] = mem["client"]
      /\ mem \in [Role -> 0..(2 * MaxMessages)] /\ LabelInv
  BY DEF Exchange, Adapters, Transmit, Lose, Deliver, Acknowledge, GiveUp, setupVars, dataVars,
         TypeInv, MemTypes
<1>1. SetupTypes'
  <2>1. qp' \in [Role -> {"none", "RESET", "INIT", "RTR", "RTS", "ERR"}]
    BY DEF Exchange, Adapters, Transmit, Lose, Deliver, Acknowledge, GiveUp, setupVars, TypeInv, SetupTypes
  <2>2. learnt' \in [Role -> Role \cup {"none"}]
    BY DEF Exchange, Adapters, Transmit, Lose, Deliver, Acknowledge, GiveUp, setupVars, TypeInv,
           SetupTypes, IE!ServerLearns, IE!ClientLearns
  <2> QED BY <1>0, <2>1, <2>2 DEF TypeInv, SetupTypes
<1>2. QueueTypes'
  <2>1. posted' \in BOOLEAN
    BY Zenon DEF Exchange, Adapters, Transmit, Lose, Deliver, Acknowledge, GiveUp, dataVars, TypeInv, QueueTypes
  <2>2. completion' \in {"none", "success"}
    BY Zenon DEF Exchange, Adapters, Transmit, Lose, Deliver, Acknowledge, GiveUp, dataVars, TypeInv, QueueTypes
  <2>3. unpolled' \in 0..NumCqe
    BY RcAssumption
    DEF Exchange, Adapters, Transmit, Lose, Deliver, Acknowledge, GiveUp, dataVars, TypeInv, QueueTypes
  <2>4. sq' \in Seq({"sent", "arrived"})
    <3>1. sq \in Seq({"sent", "arrived"}) /\ <<>> \in Seq({"sent", "arrived"})
      BY EmptySeq DEF TypeInv, QueueTypes
    <3>2. CASE Deliver
      <4>1. sq' = sq \/ \E n \in DOMAIN sq : sq' = [sq EXCEPT ![n] = "arrived"]
        BY <3>2 DEF Deliver
      <4>2. \A n \in DOMAIN sq : [sq EXCEPT ![n] = "arrived"] \in Seq({"sent", "arrived"})
        BY <3>1, ExceptSeq, LenProperties
      <4> QED BY <3>1, <4>1, <4>2
    <3>3. CASE Acknowledge
      BY <3>1, <3>3, HeadTailProperties DEF Acknowledge
    <3>4. CASE Exchange \/ Transmit \/ Lose \/ GiveUp
      BY <3>1, <3>4 DEF Exchange, Transmit, Lose, GiveUp, dataVars
    <3> QED BY <3>2, <3>3, <3>4 DEF Adapters
  <2> QED BY <2>1, <2>2, <2>3, <2>4 DEF QueueTypes
<1>3. MemTypes'
  <2>1. mem' \in [Role -> 0..(2 * MaxMessages)]
    BY <1>0 DEF Exchange, Adapters, Transmit, Lose, Deliver, Acknowledge, GiveUp, dataVars, TypeInv, MemTypes, NoPacket
  <2>2. wire' \in 0..(2 * MaxMessages) \cup {NoPacket}
    BY <1>0 DEF Exchange, Adapters, Transmit, Lose, Deliver, Acknowledge, GiveUp, dataVars, TypeInv, MemTypes
  <2> QED BY <1>0, <2>1, <2>2 DEF TypeInv, MemTypes
<1>4. LabelInv'
  BY <1>0 DEF LabelInv, Calls, Setup, Main, Session, EvenMem
<1> QED BY <1>0, <1>1, <1>2, <1>3, <1>4 DEF TypeInv

LEMMA NextTypes == TypeInv /\ [Next]_vars => TypeInv'
<1> SUFFICES ASSUME TypeInv, [Next]_vars PROVE TypeInv'
  OBVIOUS
<1>1. ASSUME NEW r \in Role, SetupCall(r) \/ SetupFails(r) \/ Learn(r) PROVE TypeInv'
  BY <1>1, SetupTypesKept
<1>2. CASE ClientStep
  BY <1>2, ClientTypesKept
<1>3. CASE ServerStep \/ ServerFails
  BY <1>3, ServerTypesKept
<1>4. CASE Exchange \/ Adapters
  BY <1>4, NetworkTypesKept
<1>5. CASE UNCHANGED vars
  <2>1. LabelInv'
    BY <1>5 DEF vars, TypeInv, LabelInv, Calls, Setup, Main, Session, EvenMem
  <2>2. SetupTypes' /\ MemTypes'
    BY <1>5 DEF vars, TypeInv, SetupTypes, MemTypes
  <2>3. QueueTypes'
    BY <1>5, Zenon DEF vars, TypeInv, QueueTypes
  <2> QED BY <1>5, <2>1, <2>2, <2>3 DEF vars, TypeInv
<1> QED BY <1>1, <1>2, <1>3, <1>4, <1>5 DEF Next, Adapters

THEOREM Labels == Spec => []TypeInv
BY InitTypes, NextTypes, PTL DEF Spec

\* Every variable keeps its type; the memory never holds more than was typed.
THEOREM RcTypes == Spec => []TypeOK
<1>1. TypeInv => TypeOK
  BY DEF TypeInv, LabelInv, SetupTypes, MemTypes, QueueTypes, ClientLabels, ServerLabels, TypeOK
<1> QED BY <1>1, Labels, PTL

-----------------------------------------------------------------------------

\* Nothing later than message b has been printed.
PrintedUpTo(b) == \A n \in DOMAIN printed : printed[n] <= b

\* The strengthening of PrintsWhatWasTyped: printed, in the server's memory, on
\* the wire and in the client's memory are messages in the order of their typing.
OrderInv ==
  /\ ReceivesOneByOne
  /\ completion = "success" => at["server"] = "poll"
  /\ sq # <<>> => mem["client"] >= 1
  /\ wire # NoPacket => wire \in 1..mem["client"] /\ PrintedUpTo(wire)
  /\ wire # NoPacket /\ HasMessage => mem["server"] <= wire
  /\ HasMessage => mem["server"] \in 1..mem["client"] /\ PrintedUpTo(mem["server"])
  /\ PrintsWhatWasTyped

LEMMA InitOrder == Init => OrderInv
<1> SUFFICES ASSUME Init PROVE OrderInv
  OBVIOUS
<1>1. at["server"] \notin ServerLabels
  BY CallsFacts DEF Init, AllCalls, ServerLabels
<1>2. ~HasMessage
  BY <1>1 DEF Init, HasMessage, ServerLabels
<1>3. ~posted
  BY Zenon DEF Init
<1>4. DOMAIN printed = {} /\ sq = <<>> /\ wire = NoPacket
  BY DEF Init
<1> QED BY <1>2, <1>3, <1>4 DEF OrderInv, HasMessage, ReceivesOneByOne, PrintsWhatWasTyped

\* A step of the client, which adds to its memory at most.
LEMMA ClientOrder ==
  ASSUME TypeInv, TypeInv', OrderInv, UNCHANGED <<wire, posted, completion, printed>>,
         at'["server"] = at["server"], mem'["server"] = mem["server"],
         mem'["client"] >= mem["client"],
         sq' # <<>> => sq # <<>> \/ mem'["client"] >= 1
  PROVE  OrderInv'
<1>0. mem["client"] \in Int /\ mem'["client"] \in Int /\ mem["server"] \in Int
  BY DEF TypeInv, MemTypes
<1>1. \A k \in Int : k \in 1..mem["client"] => k \in 1..mem'["client"]
  BY <1>0
<1>2. ReceivesOneByOne' /\ HasMessage' = HasMessage
  BY DEF OrderInv, ReceivesOneByOne, HasMessage
<1>3. \A n \in DOMAIN printed : printed[n] \in Int
  <2>1. printed \in [1..Len(printed) -> 0..(2 * MaxMessages)]
    BY LenProperties DEF TypeInv, MemTypes
  <2> QED BY <2>1
<1>4. PrintsWhatWasTyped'
  BY <1>1, <1>3 DEF OrderInv, PrintsWhatWasTyped
<1>5. wire # NoPacket => wire' \in 1..mem'["client"]
  BY <1>0, <1>1 DEF OrderInv
<1> QED BY <1>0, <1>1, <1>2, <1>4, <1>5 DEF OrderInv, PrintedUpTo, HasMessage

\* A step after which the server has no message to print.
LEMMA ServerIdleOrder ==
  ASSUME TypeInv', OrderInv, UNCHANGED <<sq, wire, printed>>, mem'["client"] = mem["client"],
         ~HasMessage', posted' => at'["server"] = "poll"
  PROVE  OrderInv'
<1>1. completion' = "none"
  BY DEF HasMessage, TypeInv, QueueTypes
<1>2. ReceivesOneByOne'
  BY <1>1 DEF ReceivesOneByOne
<1>3. PrintsWhatWasTyped' /\ (sq' # <<>> => mem'["client"] >= 1)
  BY DEF OrderInv, PrintsWhatWasTyped
<1>4. wire' # NoPacket => wire' \in 1..mem'["client"] /\ PrintedUpTo(wire)'
  BY DEF OrderInv, PrintedUpTo
<1> QED BY <1>1, <1>2, <1>3, <1>4 DEF OrderInv

LEMMA SetupOrder ==
  ASSUME TypeInv, TypeInv', OrderInv, NEW r \in Role, SetupCall(r) \/ SetupFails(r) \/ Learn(r)
  PROVE  OrderInv'
<1>0. at[r] \in Calls(variant) /\ UNCHANGED <<sq, wire, posted, completion, printed>>
  BY LearnIsCalled DEF SetupCall, SetupFails, Learn, dataVars
<1>1. PICK l : Goto(r, l) /\ l \notin {"poll", "print"}
  <2>1. CASE SetupFails(r)
    BY <2>1 DEF SetupFails, Failure
  <2>2. CASE SetupCall(r) \/ Learn(r)
    <3>1. After(r) \in Calls(variant) \cup {"post_recv", "post_send", "input"}
      BY <1>0, AfterFacts DEF Loop
    <3> QED BY <2>2, <3>1, LabelsDistinct DEF SetupCall, Learn, ServerLabels
  <2> QED BY <2>1, <2>2
<1>2. at'[r] = l /\ \A q \in Role : q # r => at'[q] = at[q]
  BY <1>1, GotoEffect DEF TypeInv
<1>3. mem \in [Role -> Int] /\ \A q \in Role : q # r => mem'[q] = mem[q]
  BY DEF SetupCall, SetupFails, Learn, dataVars, TypeInv, MemTypes
<1>4. CASE r = "client"
  <2>1. mem["client"] = 0 /\ mem'["client"] >= 0
    BY <1>0, <1>4 DEF TypeInv, LabelInv, MemTypes
  <2> QED BY <1>0, <1>2, <1>3, <1>4, <2>1, ClientOrder
<1>5. CASE r = "server"
  <2>1. ~HasMessage /\ ~posted
    BY <1>0, <1>5, LabelsDistinct DEF OrderInv, HasMessage, ReceivesOneByOne, ServerLabels
  <2>2. ~HasMessage' /\ ~posted'
    BY <1>0, <1>1, <1>2, <1>5, <2>1 DEF HasMessage
  <2> QED BY <1>0, <1>3, <1>5, <2>2, ServerIdleOrder
<1> QED BY <1>4, <1>5

LEMMA ClientStepOrder ==
  ASSUME TypeInv, TypeInv', OrderInv, ClientStep
  PROVE  OrderInv'
<1>0. LabelInv /\ mem \in [Role -> Nat]
  BY DEF TypeInv, MemTypes
<1>1. UNCHANGED <<wire, posted, completion, printed>>
  BY DEF ClientStep, Input, Copy, PostSend, Close
<1>2. \E l : Goto("client", l)
  BY DEF ClientStep, Input, Copy, PostSend, Close
<1>3. at'["server"] = at["server"]
  BY <1>0, <1>2, GotoEffect
<1>4. mem'["server"] = mem["server"] /\ mem'["client"] >= mem["client"]
  BY <1>0 DEF ClientStep, Input, Copy, PostSend, Close
<1>5. sq' # <<>> => sq # <<>> \/ mem'["client"] >= 1
  <2>1. CASE PostSend
    <3>1. mem["client"] # 0 /\ mem' = mem
      BY <1>0, <2>1 DEF PostSend, LabelInv
    <3> QED BY <1>0, <3>1
  <2>2. CASE Input \/ Copy \/ Close("client")
    BY <2>2 DEF Input, Copy, Close
  <2> QED BY <2>1, <2>2 DEF ClientStep
<1> QED BY <1>1, <1>3, <1>4, <1>5, ClientOrder

LEMMA ServerStepOrder ==
  ASSUME TypeInv, TypeInv', OrderInv, ServerStep \/ ServerFails
  PROVE  OrderInv'
<1>0. LabelInv /\ mem \in [Role -> Nat] /\ UNCHANGED <<sq, wire>>
  BY DEF ServerStep, ServerFails, PostRecv, Poll, PrintMessage, Close, TypeInv, MemTypes
<1>1. CASE PostRecv \/ Close("server") \/ ServerFails
  <2>1. PICK l : /\ Goto("server", l) /\ l # "print"
                 /\ UNCHANGED <<mem, printed>>
                 /\ (completion' = completion /\ at["server"] # "poll") \/ completion' = "none"
                 /\ (posted' => l = "poll") \/ (posted' = posted /\ at["server"] = "close")
    BY <1>1 DEF PostRecv, Close, ServerFails
  <2>2. at'["server"] = l
    BY <1>0, <2>1, GotoEffect
  <2>3. completion' # "success"
    BY <2>1 DEF OrderInv
  <2>4. posted' => at'["server"] = "poll"
    BY <2>1, <2>2 DEF OrderInv, ReceivesOneByOne
  <2>5. ~HasMessage'
    BY <2>1, <2>2, <2>3 DEF HasMessage
  <2> QED BY <1>0, <2>1, <2>4, <2>5, ServerIdleOrder
<1>2. CASE Poll
  <2>1. /\ at'["server"] = "print" /\ completion' = "none"
        /\ UNCHANGED <<mem, posted, printed>> /\ HasMessage
    BY <1>0, <1>2, GotoEffect DEF Poll, HasMessage
  <2>2. ~posted
    BY <1>2 DEF Poll, OrderInv, ReceivesOneByOne
  <2>3. ReceivesOneByOne'
    BY <2>1, <2>2 DEF ReceivesOneByOne
  <2> QED BY <1>0, <2>1, <2>3 DEF OrderInv, PrintsWhatWasTyped, PrintedUpTo, HasMessage
<1>3. CASE PrintMessage
  <2> DEFINE m == mem["server"]
  <2>1. HasMessage /\ m \in 1..mem["client"] /\ PrintedUpTo(m)
    BY <1>3 DEF PrintMessage, HasMessage, OrderInv
  <2>2. /\ at'["server"] \in {"close", "post_recv"} /\ mem'["client"] = mem["client"]
        /\ printed' = Append(printed, m) /\ UNCHANGED <<posted, completion>>
    BY <1>0, <1>3, GotoEffect DEF PrintMessage
  <2>3. completion' # "success" /\ ~posted'
    BY <1>3, <2>2 DEF PrintMessage, OrderInv, ReceivesOneByOne
  <2>4. ~HasMessage' /\ ReceivesOneByOne'
    BY <2>2, <2>3 DEF HasMessage, ReceivesOneByOne
  <2>5. /\ DOMAIN printed' = 1..(Len(printed) + 1) /\ Len(printed) \in Nat
        /\ DOMAIN printed = 1..Len(printed)
        /\ printed'[Len(printed) + 1] = m
        /\ \A n \in 1..Len(printed) : printed'[n] = printed[n] /\ printed[n] \in Nat
    <3>1. printed \in Seq(Nat)
      BY RcAssumption, SeqMonotonic DEF TypeInv, MemTypes
    <3>2. m \in Nat
      BY <1>0
    <3> QED BY <2>2, <3>1, <3>2, AppendProperties, LenProperties
  <2>6. PrintsWhatWasTyped'
    <3>1. \A n \in DOMAIN printed' : printed'[n] \in 1..mem'["client"]
      BY <2>1, <2>2, <2>5 DEF OrderInv, PrintsWhatWasTyped
    <3>2. \A k, n \in DOMAIN printed' : k < n => printed'[k] <= printed'[n]
      BY <2>1, <2>5 DEF OrderInv, PrintsWhatWasTyped, PrintedUpTo
    <3> QED BY <3>1, <3>2 DEF PrintsWhatWasTyped
  <2>7. wire' # NoPacket => wire' \in 1..mem'["client"] /\ PrintedUpTo(wire)'
    <3> SUFFICES ASSUME wire # NoPacket PROVE wire \in 1..mem["client"] /\ PrintedUpTo(wire)'
      BY <1>0, <2>2
    <3>1. wire \in 1..mem["client"] /\ PrintedUpTo(wire) /\ m <= wire
      BY <2>1 DEF OrderInv
    <3> QED BY <1>0, <2>5, <3>1 DEF PrintedUpTo
  <2> QED BY <1>0, <2>2, <2>3, <2>4, <2>6, <2>7 DEF OrderInv
<1> QED BY <1>1, <1>2, <1>3 DEF ServerStep

LEMMA NetworkOrder ==
  ASSUME TypeInv, TypeInv', OrderInv, Exchange \/ Adapters
  PROVE  OrderInv'
<1>0. /\ UNCHANGED <<at, printed>> /\ mem'["client"] = mem["client"]
      /\ mem \in [Role -> Nat]
  BY DEF Exchange, Adapters, Transmit, Lose, Deliver, Acknowledge, GiveUp, setupVars, dataVars,
         TypeInv, MemTypes
<1>1. CASE Exchange \/ Acknowledge \/ GiveUp
  <2>1. UNCHANGED <<wire, posted, completion, printed, mem>> /\ (sq' # <<>> => sq # <<>>)
    BY <1>1 DEF Exchange, Acknowledge, GiveUp, dataVars
  <2> QED BY <1>0, <2>1, ClientOrder
<1>2. CASE Transmit
  <2>1. UNCHANGED <<mem, sq, posted, completion>> /\ sq # <<>> /\ wire' = mem["client"]
    BY <1>2 DEF Transmit
  <2>2. mem["client"] >= 1
    BY <2>1 DEF OrderInv
  <2>3. wire' \in 1..mem'["client"]
    BY <1>0, <2>1, <2>2
  <2>4. PrintedUpTo(wire)'
    BY <1>0, <2>1 DEF OrderInv, PrintsWhatWasTyped, PrintedUpTo
  <2>5. HasMessage' = HasMessage /\ (HasMessage => mem'["server"] <= wire')
    BY <1>0, <2>1 DEF HasMessage, OrderInv
  <2>6. ReceivesOneByOne' /\ PrintsWhatWasTyped'
    BY <1>0, <2>1 DEF OrderInv, ReceivesOneByOne, PrintsWhatWasTyped
  <2> QED BY <1>0, <2>1, <2>3, <2>4, <2>5, <2>6 DEF OrderInv, PrintedUpTo
<1>3. CASE Lose
  <2>1. UNCHANGED <<mem, sq, posted, completion>> /\ wire' = NoPacket
    BY <1>3 DEF Lose
  <2>2. ReceivesOneByOne' /\ PrintsWhatWasTyped' /\ HasMessage' = HasMessage
    BY <1>0, <2>1 DEF OrderInv, ReceivesOneByOne, PrintsWhatWasTyped, HasMessage
  <2> QED BY <1>0, <2>1, <2>2 DEF OrderInv, PrintedUpTo
<1>4. CASE Deliver
  <2>1. /\ wire # NoPacket /\ wire' = NoPacket /\ mem'["server"] = wire
        /\ ~posted' /\ completion' = "success"
    BY <1>0, <1>4 DEF Deliver
  <2>2. at["server"] = "poll"
    BY <1>4 DEF Deliver, OrderInv, ReceivesOneByOne
  <2>3. sq' # <<>> => mem'["client"] >= 1
    <3>1. wire \in 1..mem["client"]
      BY <2>1 DEF OrderInv
    <3> QED BY <1>0, <3>1
  <2>4. ReceivesOneByOne' /\ PrintsWhatWasTyped'
    BY <1>0, <2>1 DEF OrderInv, ReceivesOneByOne, PrintsWhatWasTyped
  <2> QED BY <1>0, <2>1, <2>2, <2>3, <2>4 DEF OrderInv, PrintedUpTo
<1> QED BY <1>1, <1>2, <1>3, <1>4 DEF Adapters

LEMMA NextOrder == TypeInv /\ TypeInv' /\ OrderInv /\ [Next]_vars => OrderInv'
<1> SUFFICES ASSUME TypeInv, TypeInv', OrderInv, [Next]_vars PROVE OrderInv'
  OBVIOUS
<1>1. ASSUME NEW r \in Role, SetupCall(r) \/ SetupFails(r) \/ Learn(r) PROVE OrderInv'
  BY <1>1, SetupOrder
<1>2. CASE ClientStep
  BY <1>2, ClientStepOrder
<1>3. CASE ServerStep \/ ServerFails
  BY <1>3, ServerStepOrder
<1>4. CASE Exchange \/ Adapters
  BY <1>4, NetworkOrder
<1>5. CASE UNCHANGED vars
  BY <1>5 DEF vars, OrderInv, ReceivesOneByOne, PrintsWhatWasTyped, HasMessage, PrintedUpTo
<1> QED BY <1>1, <1>2, <1>3, <1>4, <1>5 DEF Next, Adapters

THEOREM MessagesInOrder == Spec => []OrderInv
BY Labels, InitOrder, NextOrder, PTL DEF Spec

\* The server prints only what was typed, in the order of the typing, for any
\* number of messages and whatever the network loses or the adapters repeat.
THEOREM PrintedInOrder == Spec => []PrintsWhatWasTyped
<1>1. OrderInv => PrintsWhatWasTyped
  BY DEF OrderInv
<1> QED BY <1>1, MessagesInOrder, PTL

\* No second completion can arrive before the first was polled, and none while
\* the server prints or clears its memory.
THEOREM OneReceiveAtATime == Spec => []ReceivesOneByOne
<1>1. OrderInv => ReceivesOneByOne
  BY DEF OrderInv
<1> QED BY <1>1, MessagesInOrder, PTL

-----------------------------------------------------------------------------

\* The one-shot client has posted its message.
Started == sq # <<>> \/ wire # NoPacket \/ HasMessage \/ printed # <<>>

\* The strengthening of OneShotExact: whatever moves is "hello", whole, and the
\* client that posted it leaves; where the server is says what it has printed.
OneShotInv ==
  variant = "one_shot" =>
    /\ at["client"] \notin {"input", "copy"}
    /\ mem["client"] \in {0, 2} /\ wire \in {NoPacket, 2}
    /\ HasMessage => mem["server"] = 2
    /\ at["server"] \in Calls(variant) \cup {"post_recv", "poll", "print"} => printed = <<>>
    /\ at["server"] \in {"close", "returned"} => printed = <<2>>
    /\ printed \in {<<>>, <<2>>}
    /\ Started => at["client"] \in {"close", "returned"}

LEMMA InitOneShot == Init => OneShotInv
<1> SUFFICES ASSUME Init, variant = "one_shot" PROVE OneShotInv
  BY DEF OneShotInv
<1>1. at["server"] \in AllCalls /\ at["client"] \in AllCalls
  BY CallsFacts DEF Init
<1>2. mem["client"] = 0 /\ wire = NoPacket /\ printed = <<>> /\ sq = <<>> /\ completion # "success"
  BY DEF Init
<1>3. ~HasMessage /\ ~Started
  BY <1>1, <1>2 DEF HasMessage, Started, AllCalls
<1> QED BY <1>1, <1>2, <1>3 DEF OneShotInv, AllCalls

\* A step of the client, which may post the message as it goes to "close".
LEMMA ClientOneShot ==
  ASSUME OneShotInv, variant = "one_shot", UNCHANGED <<variant, wire, completion, printed>>,
         at'["server"] = at["server"], mem'["server"] = mem["server"],
         mem'["client"] \in {0, 2}, at'["client"] \notin {"input", "copy"},
         \/ at'["client"] \in {"close", "returned"}
         \/ sq' = <<>> /\ at["client"] \notin {"close", "returned"}
         \/ sq' = sq /\ at["client"] \notin {"close", "returned"}
  PROVE  OneShotInv'
<1>1. HasMessage' = HasMessage /\ Calls(variant') = Calls(variant)
  BY DEF HasMessage
<1>2. Started' => at'["client"] \in {"close", "returned"}
  BY <1>1 DEF OneShotInv, Started
<1> QED BY <1>1, <1>2 DEF OneShotInv

LEMMA SetupOneShot ==
  ASSUME TypeInv, OrderInv, OneShotInv, variant = "one_shot", NEW r \in Role,
         SetupCall(r) \/ SetupFails(r) \/ Learn(r)
  PROVE  OneShotInv'
<1>0. at[r] \in Calls(variant) /\ UNCHANGED <<variant, sq, wire, posted, completion, printed>>
  BY LearnIsCalled DEF SetupCall, SetupFails, Learn, dataVars
<1>1. PICK l : Goto(r, l) /\ (l \in Calls(variant) \cup {Loop(r)} \/ l \in {"exited", "crashed"})
  <2>1. CASE SetupFails(r)
    BY <2>1 DEF SetupFails, Failure
  <2>2. CASE SetupCall(r) \/ Learn(r)
    <3>1. After(r) \in Calls(variant) \cup {Loop(r)}
      BY <1>0, AfterFacts
    <3> QED BY <2>2, <3>1 DEF SetupCall, Learn
  <2> QED BY <2>1, <2>2
<1>2. at'[r] = l /\ \A q \in Role : q # r => at'[q] = at[q]
  BY <1>1, GotoEffect DEF TypeInv
<1>3. \A q \in Role : q # r => mem'[q] = mem[q]
  BY DEF SetupCall, SetupFails, Learn, dataVars, TypeInv, MemTypes
<1>4. Calls(variant) \subseteq AllCalls
  BY CallsFacts
<1>5. CASE r = "client"
  <2>1. mem'["client"] \in {0, 2}
    BY <1>5 DEF SetupCall, SetupFails, Learn, dataVars, TypeInv, MemTypes, OneShotInv, Registered
  <2>2. at'["client"] \notin {"input", "copy"} /\ at["client"] \notin {"close", "returned"}
    BY <1>0, <1>1, <1>2, <1>4, <1>5 DEF AllCalls, Loop
  <2> QED BY <1>0, <1>2, <1>3, <1>5, <2>1, <2>2, ClientOneShot
<1>6. CASE r = "server"
  <2>1. printed = <<>> /\ at["server"] \notin {"poll", "print"}
    BY <1>0, <1>4, <1>6 DEF OneShotInv, AllCalls
  <2>2. at'["server"] \notin {"close", "returned", "print"}
    BY <1>1, <1>2, <1>4, <1>6 DEF AllCalls, Loop
  <2>3. ~HasMessage /\ ~HasMessage'
    BY <1>0, <2>1, <2>2 DEF HasMessage, OrderInv
  <2>4. Started' = Started /\ at'["client"] = at["client"] /\ mem'["client"] = mem["client"]
    BY <1>0, <1>2, <1>3, <1>6, <2>3 DEF Started
  <2> QED BY <1>0, <2>1, <2>2, <2>3, <2>4 DEF OneShotInv
<1> QED BY <1>5, <1>6

LEMMA ClientStepOneShot ==
  ASSUME TypeInv, OneShotInv, variant = "one_shot", ClientStep
  PROVE  OneShotInv'
<1>0. LabelInv /\ mem \in [Role -> Nat]
  BY DEF TypeInv, MemTypes
<1>1. PostSend \/ Close("client")
  BY DEF ClientStep, Input, Copy, OneShotInv
<1>2. UNCHANGED <<variant, wire, completion, printed, mem>>
  BY <1>1 DEF PostSend, Close
<1>3. PICK l : Goto("client", l) /\ l \in {"close", "returned", "exited"}
               /\ (l = "exited" => sq' = <<>> /\ at["client"] = "post_send")
  BY <1>1 DEF PostSend, Close
<1>4. at'["client"] = l /\ at'["server"] = at["server"]
  BY <1>0, <1>3, GotoEffect
<1>5. mem'["client"] \in {0, 2} /\ mem'["server"] = mem["server"]
  BY <1>2 DEF OneShotInv
<1>6. at'["client"] \notin {"input", "copy"}
  BY <1>3, <1>4
<1> QED BY <1>2, <1>3, <1>4, <1>5, <1>6, ClientOneShot

LEMMA ServerStepOneShot ==
  ASSUME TypeInv, OrderInv, OneShotInv, variant = "one_shot", ServerStep \/ ServerFails
  PROVE  OneShotInv'
<1>0. LabelInv /\ mem \in [Role -> Nat] /\ UNCHANGED <<variant, sq, wire>>
  BY DEF ServerStep, ServerFails, PostRecv, Poll, PrintMessage, Close, TypeInv, MemTypes
<1>1. CASE PostRecv \/ ServerFails \/ Close("server")
  <2>1. PICK l : /\ Goto("server", l) /\ l \in {"poll", "returned", "exited"}
                 /\ l = "returned" => at["server"] = "close"
                 /\ l = "poll" => at["server"] = "post_recv"
                 /\ UNCHANGED <<mem, printed>>
                 /\ completion' = completion \/ completion' = "none"
    BY <1>1 DEF PostRecv, ServerFails, Close
  <2>2. at'["server"] = l /\ at'["client"] = at["client"]
    BY <1>0, <2>1, GotoEffect
  <2>3. HasMessage' => HasMessage
    BY <2>1, <2>2 DEF HasMessage
  <2>4. Started' => Started
    BY <1>0, <2>1, <2>3 DEF Started
  <2>5. l \notin Calls(variant) /\ l # "post_recv" /\ l # "print" /\ l # "close"
    BY <2>1, CallsFacts DEF AllCalls
  <2> QED BY <1>0, <2>1, <2>2, <2>3, <2>4, <2>5 DEF OneShotInv
<1>2. CASE Poll
  <2>1. /\ at'["server"] = "print" /\ UNCHANGED <<mem, printed>> /\ HasMessage
        /\ at'["client"] = at["client"] /\ at["server"] = "poll"
    BY <1>0, <1>2, GotoEffect DEF Poll, HasMessage
  <2> QED BY <1>0, <2>1 DEF OneShotInv, Started
<1>3. CASE PrintMessage
  <2>1. /\ HasMessage /\ at["server"] = "print" /\ printed' = Append(printed, mem["server"])
        /\ at'["server"] = "close" /\ at'["client"] = at["client"]
        /\ mem'["client"] = mem["client"] /\ completion' = completion
    BY <1>0, <1>3, GotoEffect DEF PrintMessage, HasMessage
  <2>2. printed' = <<2>> /\ at'["client"] \in {"close", "returned"}
    BY <2>1 DEF OneShotInv, Started
  <2>3. "close" \notin Calls(variant) /\ ~HasMessage'
    BY <2>1, CallsFacts DEF AllCalls, HasMessage, OrderInv
  <2> QED BY <1>0, <2>1, <2>2, <2>3 DEF OneShotInv
<1> QED BY <1>1, <1>2, <1>3 DEF ServerStep

LEMMA NetworkOneShot ==
  ASSUME TypeInv, OrderInv, OneShotInv, variant = "one_shot", Exchange \/ Adapters
  PROVE  OneShotInv'
<1>0. /\ UNCHANGED <<variant, at, printed>> /\ mem'["client"] = mem["client"]
      /\ mem \in [Role -> Nat]
  BY DEF Exchange, Adapters, Transmit, Lose, Deliver, Acknowledge, GiveUp, setupVars, dataVars,
         TypeInv, MemTypes
<1>1. wire' \in {NoPacket, 2}
  <2>1. CASE Transmit
    <3>1. sq # <<>> /\ wire' = mem["client"]
      BY <2>1 DEF Transmit
    <3>2. mem["client"] >= 1
      BY <3>1 DEF OrderInv
    <3> QED BY <3>1, <3>2 DEF OneShotInv
  <2>2. CASE ~Transmit
    BY <2>2 DEF Exchange, Adapters, Lose, Deliver, Acknowledge, GiveUp, dataVars, OneShotInv
  <2> QED BY <2>1, <2>2
<1>2. HasMessage' => mem'["server"] = 2 /\ (HasMessage \/ wire # NoPacket)
  BY <1>0 DEF Exchange, Adapters, Transmit, Lose, Deliver, Acknowledge, GiveUp, dataVars, OneShotInv,
              HasMessage
<1>3. Started' => Started
  <2>1. sq' # <<>> \/ wire' # NoPacket => sq # <<>> \/ wire # NoPacket
    BY DEF Exchange, Adapters, Transmit, Lose, Deliver, Acknowledge, GiveUp, dataVars
  <2> QED BY <1>0, <1>2, <2>1 DEF Started
<1> QED BY <1>0, <1>1, <1>2, <1>3 DEF OneShotInv

LEMMA NextOneShot == TypeInv /\ OrderInv /\ OneShotInv /\ [Next]_vars => OneShotInv'
<1> SUFFICES ASSUME TypeInv, OrderInv, OneShotInv, [Next]_vars PROVE OneShotInv'
  OBVIOUS
<1>0. variant' = variant
  BY DEF Next, vars, SetupCall, SetupFails, Learn, Exchange, ClientStep, ServerStep, ServerFails,
         Input, Copy, PostSend, Close, PostRecv, Poll, PrintMessage,
         Transmit, Lose, Deliver, Acknowledge, GiveUp
<1> SUFFICES ASSUME variant = "one_shot" PROVE OneShotInv'
  BY <1>0 DEF OneShotInv
<1>1. ASSUME NEW r \in Role, SetupCall(r) \/ SetupFails(r) \/ Learn(r) PROVE OneShotInv'
  BY <1>1, SetupOneShot
<1>2. CASE ClientStep
  BY <1>2, ClientStepOneShot
<1>3. CASE ServerStep \/ ServerFails
  BY <1>3, ServerStepOneShot
<1>4. CASE Exchange \/ Adapters
  BY <1>4, NetworkOneShot
<1>5. CASE UNCHANGED vars
  BY <1>5 DEF vars, OneShotInv, Started, HasMessage
<1> QED BY <1>1, <1>2, <1>3, <1>4, <1>5 DEF Next, Adapters

\* A one-shot server prints the message of its client, whole and once, or
\* nothing, whatever fails, is lost or is sent again.
THEOREM OneMessage == Spec => []OneShotExact
<1>1. Init => OneShotInv
  BY InitOneShot
<1>2. OneShotInv => OneShotExact
  BY DEF OneShotInv, OneShotExact, Started
<1> QED BY <1>1, <1>2, NextOneShot, Labels, MessagesInOrder, PTL DEF Spec
-----------------------------------------------------------------------------

\* The messages that reached the server, counting one that it has not printed.
Received == Len(printed) + (IF HasMessage THEN 1 ELSE 0)

\* The first a requests have arrived, and those after them have not.
Arrived(a) == \A n \in 1..Len(sq) : (sq[n] = "arrived") <=> (n <= a)

\* What is in the client's memory and was not posted: a message, or half of one.
Unposted == CASE at["client"] = "copy" -> 1 [] at["client"] = "post_send" -> 2 [] OTHER -> 0

\* The messages received and the requests that wait are no more than were posted.
Budget(a) == 2 * (Received + Len(sq) - a) <= mem["client"] - Unposted

\* The strengthening of NoneOlder and CompletedIsPrinted.  A packet under way, a
\* message in the server's memory and a printed one belong each to a request of
\* its own, and were read after that request was posted.
CountInv ==
  /\ NoneOlder
  /\ HasMessage => 2 * Received <= mem["server"]
  /\ wire # NoPacket => 2 * (Received + 1) <= wire
  /\ qp["client"] = "RTS" /\ wire # NoPacket => (\E n \in DOMAIN sq : sq[n] = "sent")
  /\ \E a \in 0..Len(sq) :
       /\ Arrived(a)
       /\ at["server"] # "exited" => unpolled + a <= Received
       /\ qp["client"] = "RTS" => Budget(a)

\* The types of what is counted.
Counts ==
  /\ Len(sq) \in Nat /\ DOMAIN sq = 1..Len(sq)
  /\ Len(printed) \in Nat /\ DOMAIN printed = 1..Len(printed)
  /\ Received \in Nat /\ unpolled \in Nat
  /\ Unposted \in 0..2
  /\ mem \in [Role -> Nat]
  /\ wire \in Int

LEMMA CountTypes == TypeInv => Counts
<1> SUFFICES ASSUME TypeInv PROVE Counts
  OBVIOUS
<1>1. sq \in Seq({"sent", "arrived"}) /\ printed \in Seq(0..(2 * MaxMessages))
  BY DEF TypeInv, QueueTypes, MemTypes
<1>2. /\ Len(sq) \in Nat /\ DOMAIN sq = 1..Len(sq)
      /\ Len(printed) \in Nat /\ DOMAIN printed = 1..Len(printed)
  BY <1>1, LenProperties
<1>3. Received \in Nat /\ Unposted \in 0..2
  BY <1>2 DEF Received, Unposted
<1>4. unpolled \in Nat /\ mem \in [Role -> Nat] /\ wire \in Int
  BY RcAssumption DEF TypeInv, QueueTypes, MemTypes, NoPacket
<1> QED BY <1>2, <1>3, <1>4 DEF Counts

LEMMA CountTypesNext == TypeInv' => Counts'
BY CountTypes, PTL

\* Arithmetic, apart from the state.
LEMMA FewerReceived ==
  \A x, y \in Nat, w \in Int : y <= x /\ 2 * (x + 1) <= w => 2 * (y + 1) <= w
OBVIOUS

LEMMA OneCompleted ==
  \A x, u, v \in Nat, b \in Int : v <= u + 1 /\ u + b <= x => v + (b - 1) <= x
OBVIOUS

LEMMA InitCount == Init => CountInv
<1> SUFFICES ASSUME Init PROVE CountInv
  OBVIOUS
<1>1. ~HasMessage
  <2>1. at["server"] # "print"
    BY CallsFacts DEF Init, AllCalls
  <2> QED BY <2>1 DEF Init, HasMessage
<1>2. /\ DOMAIN printed = {} /\ Len(printed) = 0 /\ Len(sq) = 0 /\ wire = NoPacket
      /\ unpolled = 0 /\ qp["client"] = "none"
  BY DEF Init
<1>3. Received = 0
  BY <1>1, <1>2 DEF Received
<1>4. Arrived(0) /\ 0 \in 0..Len(sq)
  BY <1>2 DEF Arrived
<1> QED BY <1>1, <1>2, <1>3, <1>4 DEF CountInv, NoneOlder

\* Before the end of its setup the client has posted nothing.
LEMMA NothingPosted ==
  ASSUME TypeInv, OrderInv, at["client"] \in Calls(variant)
  PROVE  sq = <<>> /\ wire = NoPacket /\ Received = 0 /\ mem["client"] = 0 /\ Unposted = 0
<1>1. mem["client"] = 0
  BY DEF TypeInv, LabelInv
<1>2. sq = <<>> /\ wire = NoPacket /\ ~HasMessage
  BY <1>1 DEF OrderInv
<1>3. Len(printed) = 0
  <2>1. \A n \in 1..Len(printed) : printed[n] \in 1..0
    BY <1>1, CountTypes DEF Counts, OrderInv, PrintsWhatWasTyped
  <2> QED BY <2>1, CountTypes DEF Counts
<1>4. Unposted = 0
  BY CallsFacts DEF Unposted, AllCalls
<1> QED BY <1>1, <1>2, <1>3, <1>4 DEF Received

\* A step that posts, sends, takes and prints nothing.
LEMMA CountKept ==
  ASSUME TypeInv, TypeInv', CountInv, UNCHANGED <<sq, wire, unpolled, printed>>,
         HasMessage' = HasMessage, mem'["server"] = mem["server"],
         at["server"] = "exited" => at'["server"] = "exited",
         mem'["client"] - Unposted' >= mem["client"] - Unposted,
         qp'["client"] = "RTS" =>
           \/ qp["client"] = "RTS"
           \/ sq = <<>> /\ wire = NoPacket /\ Received = 0 /\ mem'["client"] >= Unposted'
  PROVE  CountInv'
<1>1. Received' = Received
  BY DEF Received
<1>2. PICK a \in 0..Len(sq) : /\ Arrived(a)
                              /\ at["server"] # "exited" => unpolled + a <= Received
                              /\ qp["client"] = "RTS" => Budget(a)
  BY DEF CountInv
<1>3. Arrived(a)' /\ a \in 0..Len(sq')
  BY <1>2 DEF Arrived
<1>4. qp'["client"] = "RTS" => Budget(a)'
  <2>1. CASE qp["client"] = "RTS"
    BY <1>1, <1>2, <2>1, CountTypes, CountTypesNext DEF Counts, Budget
  <2>2. CASE qp["client"] # "RTS"
    <3> SUFFICES ASSUME qp'["client"] = "RTS" PROVE Budget(a)'
      OBVIOUS
    <3>1. Len(sq) = 0 /\ Received = 0 /\ mem'["client"] >= Unposted'
      BY <2>2
    <3>2. a = 0
      BY <1>2, <3>1
    <3> QED BY <1>1, <3>1, <3>2, CountTypesNext DEF Counts, Budget
  <2> QED BY <2>1, <2>2
<1>5. at'["server"] # "exited" => unpolled' + a <= Received'
  BY <1>1, <1>2
<1>6. NoneOlder' /\ (HasMessage' => 2 * Received' <= mem'["server"])
  BY <1>1 DEF CountInv, NoneOlder
<1>7. /\ wire' # NoPacket => 2 * (Received' + 1) <= wire'
      /\ qp'["client"] = "RTS" /\ wire' # NoPacket => (\E n \in DOMAIN sq' : sq'[n] = "sent")
  BY <1>1 DEF CountInv
<1> QED BY <1>3, <1>4, <1>5, <1>6, <1>7 DEF CountInv

LEMMA SetupCount ==
  ASSUME TypeInv, TypeInv', OrderInv, CountInv, NEW r \in Role,
         SetupCall(r) \/ SetupFails(r) \/ Learn(r)
  PROVE  CountInv'
<1>0. /\ at[r] \in Calls(variant) /\ UNCHANGED <<variant, sq, wire, posted, unpolled, completion, printed>>
      /\ LabelInv /\ mem \in [Role -> Nat] /\ qp \in [Role -> {"none", "RESET", "INIT", "RTR", "RTS", "ERR"}]
  BY LearnIsCalled, CountTypes DEF Counts, SetupCall, SetupFails, Learn, dataVars, TypeInv, SetupTypes
<1>1. PICK l : /\ Goto(r, l)
               /\ \/ l \in Calls(variant) /\ mem' = mem
                  \/ l = Loop(r) /\ mem' = [mem EXCEPT ![r] = Registered(r)]
                  \/ l \in {"exited", "crashed"} /\ mem' = mem
  <2>1. CASE SetupFails(r)
    BY <2>1 DEF SetupFails, Failure, dataVars
  <2>2. CASE Learn(r)
    BY <1>0, <2>2, AfterFacts DEF Learn, dataVars
  <2>3. CASE SetupCall(r)
    BY <1>0, <2>3, AfterFacts DEF SetupCall
  <2> QED BY <2>1, <2>2, <2>3
<1>2. at'[r] = l /\ \A q \in Role : q # r => at'[q] = at[q]
  BY <1>0, <1>1, GotoEffect
<1>3. \A q \in Role : q # r => mem'[q] = mem[q] /\ qp'[q] = qp[q]
  BY <1>0, <1>1 DEF SetupCall, SetupFails, Learn, setupVars
<1>4. Calls(variant) \subseteq AllCalls
  BY CallsFacts
<1>5. CASE r = "client"
  <2>1. sq = <<>> /\ wire = NoPacket /\ Received = 0 /\ mem["client"] = 0 /\ Unposted = 0
    BY <1>0, <1>5, NothingPosted
  <2>2. mem'["client"] >= Unposted'
    <3>1. CASE l = Loop(r)
      <4>1. l = (IF variant = "one_shot" THEN "post_send" ELSE "input")
        BY <1>5, <3>1 DEF Loop
      <4>2. mem' = [mem EXCEPT ![r] = Registered(r)]
        BY <1>1, <1>4, <3>1, <4>1 DEF AllCalls
      <4>3. mem'["client"] = IF variant = "one_shot" THEN 2 ELSE 0
        BY <1>0, <1>5, <4>2 DEF Registered
      <4> QED BY <1>2, <1>5, <3>1, <4>1, <4>3 DEF Unposted
    <3>2. CASE l # Loop(r)
      <4>1. mem' = mem /\ l \notin {"copy", "post_send"}
        BY <1>1, <1>4, <3>2 DEF AllCalls
      <4> QED BY <1>2, <1>5, <2>1, <4>1 DEF Unposted
    <3> QED BY <3>1, <3>2
  <2>3. /\ at'["server"] = at["server"] /\ mem'["server"] = mem["server"]
        /\ HasMessage' = HasMessage
    BY <1>0, <1>2, <1>3, <1>5 DEF HasMessage
  <2>4. mem'["client"] - Unposted' >= mem["client"] - Unposted
    BY <2>1, <2>2, CountTypesNext DEF Counts
  <2> QED BY <1>0, <2>1, <2>2, <2>3, <2>4, CountKept
<1>6. CASE r = "server"
  <2>1. mem'["client"] = mem["client"] /\ qp'["client"] = qp["client"] /\ Unposted' = Unposted
    BY <1>2, <1>3, <1>6 DEF Unposted
  <2>2. at["server"] \notin {"poll", "print", "exited"} /\ at'["server"] # "print"
    BY <1>0, <1>1, <1>2, <1>4, <1>6 DEF AllCalls, Loop
  <2>3. ~HasMessage /\ ~HasMessage'
    BY <1>0, <2>2 DEF HasMessage, OrderInv
  <2>4. CountInv'
    <3>1. Received' = Received
      BY <1>0, <2>3 DEF Received
    <3>2. PICK a \in 0..Len(sq) : /\ Arrived(a) /\ unpolled + a <= Received
                                  /\ qp["client"] = "RTS" => Budget(a)
      BY <2>2 DEF CountInv
    <3>3. Arrived(a)' /\ a \in 0..Len(sq') /\ (qp'["client"] = "RTS" => Budget(a)')
      BY <1>0, <2>1, <3>1, <3>2 DEF Arrived, Budget
    <3>4. NoneOlder' /\ (wire' # NoPacket => 2 * (Received' + 1) <= wire')
      BY <1>0, <3>1 DEF CountInv, NoneOlder
    <3>5. qp'["client"] = "RTS" /\ wire' # NoPacket => (\E n \in DOMAIN sq' : sq'[n] = "sent")
      BY <1>0, <2>1 DEF CountInv
    <3> QED BY <1>0, <2>3, <3>1, <3>2, <3>3, <3>4, <3>5 DEF CountInv
  <2> QED BY <2>4
<1> QED BY <1>5, <1>6

LEMMA ClientStepCount ==
  ASSUME TypeInv, TypeInv', CountInv, ClientStep
  PROVE  CountInv'
<1>0. LabelInv /\ Counts /\ Counts' /\ qp \in [Role -> {"none", "RESET", "INIT", "RTR", "RTS", "ERR"}]
  BY CountTypes, CountTypesNext DEF TypeInv, SetupTypes
<1>1. UNCHANGED <<wire, unpolled, posted, completion, printed>>
  BY DEF ClientStep, Input, Copy, PostSend, Close
<1>2. \E l : Goto("client", l)
  BY DEF ClientStep, Input, Copy, PostSend, Close
<1>3. at'["server"] = at["server"] /\ HasMessage' = HasMessage /\ Received' = Received
  <2>1. at'["server"] = at["server"]
    BY <1>0, <1>2, GotoEffect
  <2> QED BY <1>1, <2>1 DEF HasMessage, Received
<1>4. mem'["server"] = mem["server"]
  BY <1>0 DEF Counts, ClientStep, Input, Copy, PostSend, Close
<1>5. CASE Input \/ Copy
  <2>1. /\ UNCHANGED <<sq, qp>> /\ mem'["client"] = mem["client"] + 1
    BY <1>0, <1>5 DEF Counts, Input, Copy, setupVars
  <2>2. Unposted' = Unposted + 1
    BY <1>0, <1>5, GotoEffect DEF Input, Copy, Unposted
  <2>3. mem'["client"] - Unposted' >= mem["client"] - Unposted
    BY <1>0, <2>1, <2>2 DEF Counts
  <2> QED BY <1>1, <1>3, <1>4, <2>1, <2>3, CountKept
<1>6. CASE PostSend \/ Close("client")
  <2>0. PICK a \in 0..Len(sq) : /\ Arrived(a)
                                /\ at["server"] # "exited" => unpolled + a <= Received
                                /\ qp["client"] = "RTS" => Budget(a)
    BY DEF CountInv
  <2>1. mem' = mem
    BY <1>6 DEF PostSend, Close
  <2>2. NoneOlder' /\ (HasMessage' => 2 * Received' <= mem'["server"])
        /\ (wire' # NoPacket => 2 * (Received' + 1) <= wire')
    BY <1>1, <1>3, <1>4 DEF CountInv, NoneOlder
  <2>3. CASE qp["client"] = "RTS" /\ sq' = Append(sq, "sent") /\ at["client"] = "post_send"
             /\ UNCHANGED qp /\ at'["client"] \in {"close", "input"}
    <3>1. sq \in Seq({"sent", "arrived"}) /\ "sent" \in {"sent", "arrived"}
      BY DEF TypeInv, QueueTypes
    <3>2. /\ Len(sq') = Len(sq) + 1 /\ sq'[Len(sq) + 1] = "sent"
          /\ \A n \in 1..Len(sq) : sq'[n] = sq[n]
      BY <2>3, <3>1, AppendProperties
    <3>3. a \in 0..Len(sq') /\ Arrived(a)'
      <4> SUFFICES ASSUME NEW n \in 1..Len(sq') PROVE (sq'[n] = "arrived") <=> (n <= a)
        BY <1>0, <2>0, <3>2 DEF Counts, Arrived
      <4>1. CASE n = Len(sq) + 1
        BY <1>0, <2>0, <3>2, <4>1 DEF Counts
      <4>2. CASE n # Len(sq) + 1
        BY <1>0, <2>0, <3>2, <4>2 DEF Counts, Arrived
      <4> QED BY <4>1, <4>2
    <3>4. Unposted = 2 /\ Unposted' = 0
      BY <2>3 DEF Unposted
    <3>5. Budget(a)'
      BY <1>0, <1>3, <2>0, <2>1, <2>3, <3>2, <3>4 DEF Counts, Budget
    <3>6. \E n \in DOMAIN sq' : sq'[n] = "sent"
      BY <1>0, <3>2 DEF Counts
    <3> QED BY <1>1, <1>3, <2>0, <2>2, <3>3, <3>5, <3>6 DEF CountInv
  <2>4. CASE qp'["client"] # "RTS" /\ sq' \in {sq, <<>>}
    <3>1. PICK b \in 0..Len(sq') : Arrived(b)' /\ b <= a
      <4>1. CASE sq' = sq
        BY <2>0, <4>1 DEF Arrived
      <4>2. CASE sq' = <<>>
        <5>1. Arrived(0)' /\ 0 \in 0..Len(sq')
          BY <4>2 DEF Arrived
        <5> QED BY <2>0, <5>1
      <4> QED BY <2>4, <4>1, <4>2
    <3>2. at'["server"] # "exited" => unpolled' + b <= Received'
      BY <1>0, <1>1, <1>3, <2>0, <3>1 DEF Counts
    <3> QED BY <2>2, <2>4, <3>1, <3>2 DEF CountInv
  <2>5. \/ /\ qp["client"] = "RTS" /\ sq' = Append(sq, "sent") /\ at["client"] = "post_send"
           /\ UNCHANGED qp /\ at'["client"] \in {"close", "input"}
        \/ qp'["client"] # "RTS" /\ sq' \in {sq, <<>>}
    <3>1. CASE PostSend
      <4>1. CASE Goto("client", "exited")
        BY <1>0, <3>1, <4>1, GotoEffect DEF PostSend
      <4>2. CASE ~Goto("client", "exited")
        <5>1. /\ sq' = IF qp["client"] = "RTS" THEN Append(sq, "sent") ELSE sq
              /\ Goto("client", IF variant = "one_shot" THEN "close" ELSE "input")
              /\ UNCHANGED qp
          BY <3>1, <4>2 DEF PostSend
        <5>2. at'["client"] \in {"close", "input"}
          BY <1>0, <5>1, GotoEffect
        <5> QED BY <3>1, <5>1, <5>2 DEF PostSend
      <4> QED BY <4>1, <4>2
    <3>2. CASE Close("client")
      BY <1>0, <3>2 DEF Close
    <3> QED BY <1>6, <3>1, <3>2
  <2> QED BY <2>3, <2>4, <2>5
<1> QED BY <1>5, <1>6 DEF ClientStep

LEMMA ServerStepCount ==
  ASSUME TypeInv, TypeInv', OrderInv, CountInv, ServerStep \/ ServerFails
  PROVE  CountInv'
<1>0. LabelInv /\ Counts /\ Counts' /\ UNCHANGED <<variant, sq, wire, unpolled>>
      /\ qp \in [Role -> {"none", "RESET", "INIT", "RTR", "RTS", "ERR"}]
  BY CountTypes, CountTypesNext
  DEF ServerStep, ServerFails, PostRecv, Poll, PrintMessage, Close, TypeInv, SetupTypes
<1>1. \E l : Goto("server", l)
  BY DEF ServerStep, ServerFails, PostRecv, Poll, PrintMessage, Close
<1>2. /\ at'["client"] = at["client"] /\ Unposted' = Unposted
      /\ mem'["client"] = mem["client"] /\ qp'["client"] = qp["client"]
  <2>1. at'["client"] = at["client"]
    BY <1>0, <1>1, GotoEffect
  <2> QED BY <1>0, <2>1
          DEF Counts, ServerStep, ServerFails, PostRecv, Poll, PrintMessage, Close, setupVars, Unposted
<1>3. CASE PostRecv \/ Poll \/ Close("server")
  <2>1. /\ UNCHANGED <<mem, printed>> /\ at["server"] # "exited"
        /\ HasMessage' = HasMessage
    BY <1>0, <1>3, GotoEffect DEF PostRecv, Poll, Close, HasMessage
  <2> QED BY <1>0, <1>2, <2>1, CountKept DEF Counts
<1>4. PICK a \in 0..Len(sq) : /\ Arrived(a)
                              /\ at["server"] # "exited" => unpolled + a <= Received
                              /\ qp["client"] = "RTS" => Budget(a)
  BY DEF CountInv
<1>5. Arrived(a)' /\ a \in 0..Len(sq')
  BY <1>0, <1>4 DEF Arrived
<1>6. CASE ServerFails
  <2>1. at'["server"] = "exited" /\ completion' = "none" /\ printed' = printed
    BY <1>0, <1>6, GotoEffect DEF ServerFails
  <2>2. ~HasMessage' /\ Received' <= Received
    <3>1. ~HasMessage'
      BY <2>1 DEF HasMessage
    <3> QED BY <1>0, <2>1, <3>1 DEF Counts, Received
  <2>3. qp'["client"] = "RTS" => Budget(a)'
    BY <1>0, <1>2, <1>4, <2>2 DEF Counts, Budget
  <2>4. wire' # NoPacket => 2 * (Received' + 1) <= wire'
    <3>1. wire # NoPacket => 2 * (Received + 1) <= wire
      BY DEF CountInv
    <3>2. Received \in Nat /\ Received' \in Nat /\ wire \in Int /\ wire' = wire
      BY <1>0 DEF Counts
    <3>3. Received' <= Received
      BY <2>2
    <3> QED BY <3>1, <3>2, <3>3, FewerReceived
  <2> QED BY <1>0, <1>2, <1>5, <2>1, <2>2, <2>3, <2>4 DEF CountInv, NoneOlder
<1>7. CASE PrintMessage
  <2>1. /\ HasMessage /\ at["server"] = "print" /\ printed' = Append(printed, mem["server"])
        /\ at'["server"] \in {"close", "post_recv"} /\ completion' = completion
    BY <1>0, <1>7, GotoEffect DEF PrintMessage, HasMessage
  <2>2. ~HasMessage'
    BY <2>1 DEF HasMessage, OrderInv
  <2>3. /\ Len(printed') = Len(printed) + 1 /\ printed'[Len(printed) + 1] = mem["server"]
        /\ \A n \in 1..Len(printed) : printed'[n] = printed[n]
    <3>1. printed \in Seq(0..(2 * MaxMessages)) /\ mem["server"] \in 0..(2 * MaxMessages)
      BY DEF TypeInv, MemTypes
    <3> QED BY <2>1, <3>1, AppendProperties
  <2>4. Received' = Received /\ Received = Len(printed) + 1
    BY <1>0, <2>1, <2>2, <2>3 DEF Counts, Received
  <2>5. NoneOlder'
    <3> SUFFICES ASSUME NEW k \in DOMAIN printed' PROVE 2 * k <= printed'[k]
      BY DEF NoneOlder
    <3>1. CASE k = Len(printed) + 1
      BY <2>1, <2>3, <2>4, <3>1 DEF CountInv
    <3>2. CASE k # Len(printed) + 1
      <4>1. k \in DOMAIN printed
        BY <1>0, <2>3, <3>2 DEF Counts
      <4> QED BY <1>0, <2>3, <4>1 DEF Counts, CountInv, NoneOlder
    <3> QED BY <3>1, <3>2
  <2>6. /\ qp'["client"] = "RTS" => Budget(a)'
        /\ at'["server"] # "exited" => unpolled' + a <= Received'
    BY <1>0, <1>2, <1>4, <2>1, <2>4 DEF Budget
  <2>7. wire' # NoPacket => 2 * (Received' + 1) <= wire'
    BY <1>0, <2>4 DEF CountInv
  <2> QED BY <1>0, <1>2, <1>5, <2>2, <2>5, <2>6, <2>7 DEF CountInv
<1> QED BY <1>3, <1>6, <1>7 DEF ServerStep

LEMMA NetworkCount ==
  ASSUME TypeInv, TypeInv', OrderInv, CountInv, Exchange \/ Adapters
  PROVE  CountInv'
<1>0. /\ UNCHANGED <<variant, at, printed>> /\ mem'["client"] = mem["client"]
      /\ Unposted' = Unposted /\ Counts /\ Counts'
      /\ qp \in [Role -> {"none", "RESET", "INIT", "RTR", "RTS", "ERR"}]
  BY CountTypes, CountTypesNext
  DEF Exchange, Adapters, Transmit, Lose, Deliver, Acknowledge, GiveUp, setupVars, dataVars,
      TypeInv, MemTypes, SetupTypes, Unposted
<1>1. PICK a \in 0..Len(sq) : /\ Arrived(a)
                              /\ at["server"] # "exited" => unpolled + a <= Received
                              /\ qp["client"] = "RTS" => Budget(a)
  BY DEF CountInv
<1>2. CASE Exchange
  <2>1. UNCHANGED <<qp, mem, sq, wire, unpolled, completion>>
    BY <1>2 DEF Exchange, dataVars
  <2> QED BY <1>0, <2>1, CountKept DEF Counts, HasMessage
<1>3. CASE Transmit
  <2>1. UNCHANGED <<qp, mem, sq, unpolled, completion>> /\ wire' = mem["client"]
    BY <1>3 DEF Transmit, setupVars
  <2>2. HasMessage' = HasMessage /\ Received' = Received
    BY <1>0, <2>1 DEF HasMessage, Received
  <2>3. qp["client"] = "RTS" /\ \E n \in DOMAIN sq : sq[n] = "sent"
    BY <1>3 DEF Transmit
  <2>4. a < Len(sq)
    BY <1>0, <1>1, <2>3 DEF Counts, Arrived
  <2>5. 2 * (Received' + 1) <= wire'
    BY <1>0, <1>1, <2>1, <2>2, <2>3, <2>4 DEF Counts, Budget
  <2>6. Arrived(a)' /\ Budget(a)'
    BY <1>0, <1>1, <2>1, <2>2, <2>3 DEF Arrived, Budget
  <2> QED BY <1>0, <1>1, <2>1, <2>2, <2>3, <2>5, <2>6 DEF CountInv, NoneOlder
<1>4. CASE Lose
  <2>1. UNCHANGED <<qp, mem, sq, unpolled, completion>> /\ wire' = NoPacket
    BY <1>4 DEF Lose, setupVars
  <2>2. HasMessage' = HasMessage /\ Received' = Received
    BY <1>0, <2>1 DEF HasMessage, Received
  <2>3. Arrived(a)' /\ (qp["client"] = "RTS" => Budget(a)')
    BY <1>0, <1>1, <2>1, <2>2 DEF Arrived, Budget
  <2> QED BY <1>0, <1>1, <2>1, <2>2, <2>3 DEF CountInv, NoneOlder
<1>5. CASE Deliver
  <2>1. /\ wire # NoPacket /\ wire' = NoPacket /\ mem'["server"] = wire
        /\ UNCHANGED <<qp, unpolled>> /\ completion' = "success"
    BY <1>0, <1>5 DEF Counts, Deliver, setupVars
  <2>2. ~HasMessage /\ HasMessage'
    BY <1>5, <2>1 DEF Deliver, OrderInv, ReceivesOneByOne, HasMessage
  <2>3. Received' = Received + 1
    BY <1>0, <2>2 DEF Counts, Received
  <2>4. 2 * Received' <= mem'["server"] /\ NoneOlder'
    BY <1>0, <2>1, <2>3 DEF CountInv, NoneOlder
  <2>5. CASE \E n \in DOMAIN sq : sq[n] = "sent"
    <3>1. PICK n \in DOMAIN sq : /\ sq[n] = "sent" /\ \A k \in 1..(n - 1) : sq[k] = "arrived"
                                 /\ sq' = [sq EXCEPT ![n] = "arrived"]
      BY <1>5, <2>5 DEF Deliver
    <3>2. n = a + 1 /\ a + 1 \in 1..Len(sq)
      <4>1. n \in 1..Len(sq) /\ Len(sq) \in Nat /\ a \in Int
        BY <1>0 DEF Counts
      <4>2. ~(n <= a)
        BY <1>1, <3>1, <4>1 DEF Arrived
      <4>3. n > a + 1 => a + 1 \in 1..(n - 1) /\ a + 1 \in 1..Len(sq)
        BY <1>1, <4>1
      <4>4. a + 1 \in 1..Len(sq) => (sq[a + 1] = "arrived" <=> a + 1 <= a)
        BY <1>1 DEF Arrived
      <4> QED BY <1>1, <3>1, <4>1, <4>2, <4>3, <4>4
    <3>3. Len(sq') = Len(sq) /\ \A k \in 1..Len(sq) : sq'[k] = IF k = n THEN "arrived" ELSE sq[k]
      <4>1. sq \in Seq({"sent", "arrived"}) /\ n \in 1..Len(sq)
        BY <1>0 DEF Counts, TypeInv, QueueTypes
      <4> QED BY <3>1, <4>1, ExceptSeq
    <3>4. a + 1 \in 0..Len(sq') /\ Arrived(a + 1)'
      <4> SUFFICES ASSUME NEW k \in 1..Len(sq') PROVE (sq'[k] = "arrived") <=> (k <= a + 1)
        BY <1>0, <3>2, <3>3 DEF Counts, Arrived
      <4>1. k \in 1..Len(sq) /\ (sq[k] = "arrived" <=> k <= a)
        BY <1>1, <3>3 DEF Arrived
      <4> QED BY <1>0, <1>1, <3>2, <3>3, <4>1 DEF Counts
    <3>5. qp'["client"] = "RTS" => Budget(a + 1)'
      BY <1>0, <1>1, <2>1, <2>3, <3>3 DEF Counts, Budget
    <3>6. at'["server"] # "exited" => unpolled' + (a + 1) <= Received'
      BY <1>0, <1>1, <2>1, <2>3 DEF Counts
    <3> QED BY <2>1, <2>2, <2>4, <3>4, <3>5, <3>6 DEF CountInv
  <2>6. CASE ~ \E n \in DOMAIN sq : sq[n] = "sent"
    <3>1. sq' = sq /\ qp["client"] # "RTS"
      BY <1>5, <2>1, <2>6 DEF Deliver, CountInv
    <3>2. Arrived(a)' /\ a \in 0..Len(sq')
      BY <1>1, <3>1 DEF Arrived
    <3>3. at'["server"] # "exited" => unpolled' + a <= Received'
      BY <1>0, <1>1, <2>1, <2>3 DEF Counts
    <3> QED BY <2>1, <2>2, <2>4, <3>1, <3>2, <3>3 DEF CountInv
  <2> QED BY <2>5, <2>6
<1>6. CASE Acknowledge
  <2>1. /\ UNCHANGED <<mem, wire, completion>> /\ sq # <<>> /\ sq[1] = "arrived" /\ sq' = Tail(sq)
        /\ unpolled' <= unpolled + 1 /\ qp["client"] = "RTS"
        /\ qp'["client"] \in {"RTS", "ERR"}
    BY <1>0, <1>6 DEF Counts, Acknowledge
  <2>2. HasMessage' = HasMessage /\ Received' = Received
    BY <1>0, <2>1 DEF HasMessage, Received
  <2>3. Len(sq') = Len(sq) - 1 /\ Len(sq) >= 1 /\ \A n \in 1..(Len(sq) - 1) : sq'[n] = sq[n + 1]
    <3>1. sq \in Seq({"sent", "arrived"})
      BY DEF TypeInv, QueueTypes
    <3> QED BY <2>1, <3>1, HeadTailProperties, EmptySeq
  <2>4. a >= 1
    BY <1>0, <1>1, <2>1, <2>3 DEF Counts, Arrived
  <2>5. a - 1 \in 0..Len(sq') /\ Arrived(a - 1)'
    <3> SUFFICES ASSUME NEW n \in 1..Len(sq') PROVE (sq'[n] = "arrived") <=> (n <= a - 1)
      BY <1>0, <1>1, <2>3, <2>4 DEF Counts, Arrived
    <3>1. n + 1 \in 1..Len(sq) /\ sq'[n] = sq[n + 1]
      BY <1>0, <2>3 DEF Counts
    <3>2. (sq[n + 1] = "arrived") <=> (n + 1 <= a)
      BY <1>1, <3>1 DEF Arrived
    <3> QED BY <1>1, <3>1, <3>2
  <2>6. Budget(a - 1)'
    BY <1>0, <1>1, <2>1, <2>2, <2>3 DEF Counts, Budget
  <2>7. at'["server"] # "exited" => unpolled' + (a - 1) <= Received'
    <3>1. at' = at /\ unpolled' \in Nat /\ unpolled \in Nat /\ Received \in Nat /\ a \in Int
      BY <1>0 DEF Counts
    <3>2. at["server"] # "exited" => unpolled + a <= Received
      BY <1>1
    <3>3. unpolled' <= unpolled + 1 /\ Received' = Received
      BY <2>1, <2>2
    <3> QED BY <3>1, <3>2, <3>3, OneCompleted
  <2>8. wire' # NoPacket => (\E n \in DOMAIN sq' : sq'[n] = "sent")
    <3> SUFFICES ASSUME wire # NoPacket PROVE \E n \in DOMAIN sq' : sq'[n] = "sent"
      BY <2>1
    <3>1. PICK n \in DOMAIN sq : sq[n] = "sent"
      BY <2>1 DEF CountInv
    <3>2. n # 1 /\ n - 1 \in 1..(Len(sq) - 1) /\ (n - 1) + 1 = n
      BY <1>0, <2>1, <3>1 DEF Counts
    <3>3. sq'[n - 1] = "sent" /\ n - 1 \in DOMAIN sq'
      BY <1>0, <2>3, <3>1, <3>2 DEF Counts
    <3> QED BY <3>3
  <2>9. NoneOlder' /\ (HasMessage' => 2 * Received' <= mem'["server"])
        /\ (wire' # NoPacket => 2 * (Received' + 1) <= wire')
    BY <1>0, <2>1, <2>2 DEF CountInv, NoneOlder
  <2> QED BY <2>5, <2>6, <2>7, <2>8, <2>9 DEF CountInv
<1>7. CASE GiveUp
  <2>1. UNCHANGED <<mem, wire, unpolled, completion>> /\ sq' = <<>> /\ qp'["client"] = "ERR"
    BY <1>0, <1>7 DEF GiveUp
  <2>2. HasMessage' = HasMessage /\ Received' = Received
    BY <1>0, <2>1 DEF HasMessage, Received
  <2>3. Arrived(0)' /\ 0 \in 0..Len(sq')
    BY <2>1 DEF Arrived
  <2>4. at'["server"] # "exited" => unpolled' + 0 <= Received'
    BY <1>0, <1>1, <2>1, <2>2 DEF Counts
  <2>5. NoneOlder' /\ (HasMessage' => 2 * Received' <= mem'["server"])
        /\ (wire' # NoPacket => 2 * (Received' + 1) <= wire')
    BY <1>0, <2>1, <2>2 DEF CountInv, NoneOlder
  <2> QED BY <2>1, <2>3, <2>4, <2>5 DEF CountInv
<1> QED BY <1>2, <1>3, <1>4, <1>5, <1>6, <1>7 DEF Adapters

LEMMA NextCount == TypeInv /\ TypeInv' /\ OrderInv /\ CountInv /\ [Next]_vars => CountInv'
<1> SUFFICES ASSUME TypeInv, TypeInv', OrderInv, CountInv, [Next]_vars PROVE CountInv'
  OBVIOUS
<1>1. ASSUME NEW r \in Role, SetupCall(r) \/ SetupFails(r) \/ Learn(r) PROVE CountInv'
  BY <1>1, SetupCount
<1>2. CASE ClientStep
  BY <1>2, ClientStepCount
<1>3. CASE ServerStep \/ ServerFails
  BY <1>3, ServerStepCount
<1>4. CASE Exchange \/ Adapters
  BY <1>4, NetworkCount
<1>5. CASE UNCHANGED vars
  <2>1. Unposted' = Unposted /\ HasMessage' = HasMessage
    BY <1>5 DEF vars, Unposted, HasMessage
  <2>2. Counts
    BY CountTypes
  <2> QED BY <1>5, <2>1, <2>2, CountKept DEF vars, Counts
<1> QED BY <1>1, <1>2, <1>3, <1>4, <1>5 DEF Next, Adapters

THEOREM RequestsCounted == Spec => []CountInv
BY Labels, MessagesInOrder, InitCount, NextCount, PTL DEF Spec

\* What is printed as the k-th message was typed as the k-th or later, for any
\* number of messages, retransmissions and lost packets.
THEOREM NothingOlder == Spec => []NoneOlder
<1>1. CountInv => NoneOlder
  BY DEF CountInv
<1> QED BY <1>1, RequestsCounted, PTL

\* No more messages are printed than the client has typed.
THEOREM PrintedOnce == Spec => [](2 * Len(printed) <= mem["client"])
<1>1. TypeInv /\ OrderInv /\ CountInv => 2 * Len(printed) <= mem["client"]
  <2> SUFFICES ASSUME TypeInv, OrderInv, CountInv PROVE 2 * Len(printed) <= mem["client"]
    OBVIOUS
  <2>1. Counts
    BY CountTypes
  <2>2. CASE Len(printed) = 0
    BY <2>1, <2>2 DEF Counts
  <2>3. CASE Len(printed) # 0
    <3>1. Len(printed) \in DOMAIN printed
      BY <2>1, <2>3 DEF Counts
    <3>2. 2 * Len(printed) <= printed[Len(printed)] /\ printed[Len(printed)] \in 1..mem["client"]
      BY <3>1 DEF CountInv, NoneOlder, OrderInv, PrintsWhatWasTyped
    <3> QED BY <2>1, <3>2 DEF Counts
  <2> QED BY <2>2, <2>3
<1> QED BY <1>1, Labels, MessagesInOrder, RequestsCounted, PTL

\* What has completed at the client has reached the user of the server.
THEOREM CompletionMeansPrinted == Spec => []CompletedIsPrinted
<1>1. TypeInv /\ CountInv => CompletedIsPrinted
  <2> SUFFICES ASSUME TypeInv, CountInv, at["server"] # "exited" PROVE unpolled <= Received
    BY DEF CompletedIsPrinted, Received
  <2>1. Counts
    BY CountTypes
  <2>2. PICK a \in 0..Len(sq) : unpolled + a <= Received
    BY DEF CountInv
  <2> QED BY <2>1, <2>2 DEF Counts
<1> QED BY <1>1, Labels, RequestsCounted, PTL

-----------------------------------------------------------------------------

LEMMA InitHears == Init => NeverDeaf
BY CallsFacts DEF Init, AllCalls, NeverDeaf

LEMMA NextHears == TypeInv /\ NeverDeaf /\ [Next]_vars => NeverDeaf'
<1> SUFFICES ASSUME TypeInv, NeverDeaf, [Next]_vars PROVE NeverDeaf'
  OBVIOUS
<1>0. LabelInv
  BY DEF TypeInv
<1>1. ASSUME NEW r \in Role, SetupCall(r) \/ SetupFails(r) \/ Learn(r) PROVE NeverDeaf'
  <2>1. at[r] \in Calls(variant) /\ UNCHANGED <<posted, completion>>
    BY <1>1, LearnIsCalled DEF SetupCall, SetupFails, Learn, dataVars
  <2>2. PICK l : Goto(r, l) /\ l # "poll"
    <3>1. CASE SetupFails(r)
      BY <3>1 DEF SetupFails, Failure
    <3>2. CASE SetupCall(r) \/ Learn(r)
      <4>1. After(r) \in Calls(variant) \cup {"post_recv", "post_send", "input"}
        BY <2>1, AfterFacts DEF Loop
      <4> QED BY <3>2, <4>1, CallsFacts DEF AllCalls, SetupCall, Learn
    <3> QED BY <1>1, <3>1, <3>2
  <2>3. at'["server"] \in {at["server"], l}
    BY <1>0, <2>2, GotoEffect
  <2> QED BY <2>1, <2>2, <2>3 DEF NeverDeaf
<1>2. CASE ClientStep
  <2>1. UNCHANGED <<posted, completion>> /\ \E l : Goto("client", l)
    BY <1>2 DEF ClientStep, Input, Copy, PostSend, Close
  <2> QED BY <1>0, <2>1, GotoEffect DEF NeverDeaf
<1>3. CASE ServerStep \/ ServerFails
  <2>1. CASE PostRecv
    BY <2>1 DEF PostRecv, NeverDeaf
  <2>2. CASE ~PostRecv
    <3>1. PICK l : Goto("server", l) /\ l # "poll"
      BY <1>3, <2>2 DEF ServerStep, ServerFails, Poll, PrintMessage, Close
    <3> QED BY <1>0, <3>1, GotoEffect DEF NeverDeaf
  <2> QED BY <2>1, <2>2
<1>4. CASE Exchange \/ Adapters
  <2>1. at' = at /\ (UNCHANGED <<posted, completion>> \/ completion' = "success")
    BY <1>4 DEF Exchange, Adapters, Transmit, Lose, Deliver, Acknowledge, GiveUp, dataVars
  <2> QED BY <2>1 DEF NeverDeaf
<1>5. CASE UNCHANGED vars
  BY <1>5 DEF vars, NeverDeaf
<1> QED BY <1>1, <1>2, <1>3, <1>4, <1>5 DEF Next, Adapters

\* While the server polls, a completion has come or can come.
THEOREM ServerHears == Spec => []NeverDeaf
BY Labels, InitHears, NextHears, PTL DEF Spec

\* The server of the pair that exchanges its connection information never
\* addresses its queue pair to the client.
Misconnected == variant = "exchanged" => dest["server"] # "partner" /\ unpolled = 0

LEMMA NextMisconnected == TypeInv /\ Misconnected /\ [Next]_vars => Misconnected'
<1> SUFFICES ASSUME TypeInv, Misconnected, [Next]_vars, variant = "exchanged" PROVE Misconnected'
  BY DEF Next, vars, SetupCall, SetupFails, Learn, Exchange, ClientStep, ServerStep, ServerFails,
         Input, Copy, PostSend, Close, PostRecv, Poll, PrintMessage,
         Transmit, Lose, Deliver, Acknowledge, GiveUp, Misconnected
<1>0. dest \in [Role -> {"unset", "partner", "other"}]
  BY DEF TypeInv, SetupTypes
<1>1. CASE \E r \in Role : SetupCall(r)
  <2>1. PICK r \in Role : SetupCall(r)
    BY <1>1
  <2>2. unpolled' = unpolled /\ dest'["server"] # "partner"
    <3>1. CASE at[r] = "to_rtr"
      <4>1. PICK d \in Connects(r) : dest' = [dest EXCEPT ![r] = d]
        BY <2>1, <3>1 DEF SetupCall
      <4>2. r = "server" => d = "other"
        BY <4>1 DEF Connects
      <4> QED BY <1>0, <2>1, <4>1, <4>2 DEF SetupCall, Misconnected
    <3>2. CASE at[r] # "to_rtr"
      BY <2>1, <3>2 DEF SetupCall, Misconnected
    <3> QED BY <3>1, <3>2
  <2> QED BY <2>2 DEF Misconnected
<1>2. CASE ~ \E r \in Role : SetupCall(r)
  <2>1. UNCHANGED <<dest, unpolled>>
    BY <1>2 DEF Next, vars, SetupFails, Learn, Exchange, ClientStep, ServerStep, ServerFails,
         Input, Copy, PostSend, Close, PostRecv, Poll, PrintMessage,
         Transmit, Lose, Deliver, Acknowledge, GiveUp, Misconnected, setupVars, dataVars
  <2> QED BY <2>1 DEF Misconnected
<1> QED BY <1>1, <1>2

\* server.c never uses what the exchange returned: the pair is never connected
\* both ways, and no request of the client completes.
THEOREM NeverConnected == Spec => [](variant = "exchanged" => ~Connected /\ unpolled = 0)
<1>1. Init => Misconnected
  BY DEF Init, Misconnected
<1>2. TypeInv /\ Misconnected => (variant = "exchanged" => ~Connected /\ unpolled = 0)
  BY DEF Misconnected, Connected
<1> QED BY <1>1, <1>2, NextMisconnected, Labels, PTL DEF Spec
================================================================================
