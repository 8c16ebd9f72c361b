# A verification development for fuzzing-rdma

The repository holds the programs of a bachelor thesis on fuzzing RDMA: a proxy
that relays the traffic of two virtual machines through TAP devices and mutates
the InfiniBand headers of RDMA packets, UDP proxies for the exchange of
connection information, RDMA client and server programs that generate traffic,
and a naive UDP fuzzer. This directory models them in TLA+, checks the models
with TLC and proves theorems about them with TLAPS.

## The system

| Component | State it keeps | Operations | Interacts through |
|---|---|---|---|
| Proxy fuzzer (`programs/proxy-fuzzer/proxy-f.c`, `net_types.h`) | two device names and descriptors; per relay process a 1542-byte buffer and the length of the last read | option parsing, `tun_alloc`, `fork`, two endless relay loops, `fuzz_ib_bth` | frames of two TAP devices; the two processes share the descriptors |
| Frame tunnels without or with reduced fuzzing (`tunnelnofuzz.c`, `tapdev/taptunnel.c`) | the same, with fixed device names | the same loops; no mutation, or of the base transport header only | the same |
| RC client and server (`programs/rdma-progs/client-server`) | QP and its state, CQ, memory region, the peer's connection information | setup through `ibv_*`, exchange of QPN and GID, send/receive loop | UDP for the exchange, RDMA for the data |
| Connection exchange (`client-server/xch-qpn.c`) | one or two UDP sockets, a message buffer | `xch_conn_inf_server`, `xch_conn_inf_client`, `prepare_msg`, `parse_conn_inf` | one UDP datagram each way, possibly through a UDP proxy |
| UDP proxies (`programs/udp-proxy`) | `client_flag`, `server_flag`, the ports recorded; or a count of forwarded packets | setup of three sockets, the forwarding loop | UDP datagrams of client and server |
| Naive UDP fuzzer (`programs/naive-udp-fuzzer`) | the original packet and the mutated copy | 25 bit-wise and 10 byte-wise mutations per cycle, one write before each | a connected UDP socket |
| Early RC programs (`vagrant-environment/key_based_improved`) | as the RC programs, with the peer's number typed in | setup, endless transfer | RDMA |
| One-shot RC programs (`vagrant-environment/key_based_storage`) | the same | setup, one message, end | RDMA |

How they interact: an RC client and an RC server, one in each virtual machine,
exchange a GID and a queue pair number as one UDP datagram each way
(`xch-qpn.c`) and then send RDMA over RoCEv2, that is UDP port 4791. Either the
frames of the two machines cross the proxy fuzzer, which sees all of them and
mutates the RDMA ones, or the machines address a UDP proxy, which hands the
exchange and (in `ib_proxy_two.c`) the RDMA datagrams on. The naive fuzzer is
used alone, against any UDP service.

Not part of this development: the thesis itself (`TeX/`, consulted for what the
programs are meant to do), scripts and `Vagrantfile`s, and small experiments
listed in the table "What is not modelled" below.

### What is hard about them

* **Concurrency.** The two relays of the proxy fuzzer are processes on shared
  descriptors. The exchange is three programs and a network. In the RC programs
  the adapters read the client's memory and write the server's while the
  programs do the same, over a network that loses and delays packets. A one-shot
  client ends while its message may still be under way.
* **State left over.** The naive fuzzer mutates one copy 35 times before it takes
  a new one. A relay reuses one buffer for ever and clears only as
  much of it as it read; the mutation writes behind the end of a short packet.
* **Order.** `ib_proxy_two.c` tells its peers apart by the order of their first
  datagrams, `ib_proxy.c` counts to two, and the RC client has one memory
  region for all messages and never polls for a completion.
* **Failures.** Most results are ignored: `read()`, `write()`, `fork()`,
  `recvfrom()`, `sendto()`, `xch_conn_inf_server()`. One check tests the wrong
  variable, one pointer is read before it is checked. Nothing has a timeout or a
  retry but the reliable connection.

The file `PROJECT.json` lists each hazard at its line with the properties that
cover it.

### What makes each component correct

* *Proxy fuzzer*: what is not RDMA crosses unchanged; RDMA packets change in the
  fields meant to be mutated only; frames are neither repeated, reordered,
  invented nor mixed with earlier ones; one direction survives whatever happens
  to the other; it runs between two different devices.
* *Frame tunnels*: the same, and each mutates no more than its own share of a
  packet: nothing, or the base transport header.
* *Naive fuzzer*: each cycle starts from the original packet, whatever was
  mutated or lost before; protected fields stay.
* *Exchange with the learning proxy*: each side ends with the information of
  the other, and the server has it first; the proxy takes nobody for somebody
  else; RDMA packets go to the other side and never to an exchange port; who ends
  the exchange well has learnt something.
* *Address-based proxy*: it serves both sides before it ends, and it ends.
* *RC programs*: the server prints what the user typed, in that order, and each
  message that was posted or one that replaced it; the server never has more than
  the one completion it has room for; a one-shot server prints its message whole
  and once, or nothing; each side connects to the peer it was told of.

## The modules

Constants have named assumptions, every module that is meant for proofs is free
of recursive operators, and each operation of the code is one action. A
definition whose name ends in an underscore and a word (`Clear_OneShort`) is a
mutant: what the definition would be had the code a plausible bug. `PROJECT.json`
lists which property each of them breaks; no behaviour uses them.

| Module | Models | State and actions |
|---|---|---|
| `FrameLayout` | `net_types.h`, `check_buffer_type()` | offsets as the header computes them; a byte is the set of its bits, so XOR and masks are set operations |
| `PacketFuzz` | `fuzz_ib_bth()`, `fuzz_atomic_eth()`, `fuzz_rdma_eth()` | operators that return the set of buffers `rand()` can lead to |
| `Tunnel` | nothing: the abstract specification of a relay | two lossy first-in first-out queues; `Allowed` says how a frame may differ |
| `ProxyFuzzer` | `proxy-f.c` | `ParseOption`, `UseDefaults`, `TunAlloc`, `Fork`; per relay `ReadFrame`, `ReadFails`, `Classify`, `Fuzz`, `Write`, `Clear`; the networks `Arrive`, `LinkChange` (external) |
| `FrameTunnels` | `tunnelnofuzz.c`, `taptunnel.c` and `proxy-f.c` side by side | extends `ProxyFuzzer`, whose actions stand for the code the three share; `TunnelDefaults`, `UserTypes` (the `scanf()` of `taptunnel.c`), `AttachAndFork`, `OnlyClassify`, `FuzzBth` |
| `InfoExchange` | nothing: the abstract specification of the exchange | the server learns, then the client |
| `XchQpn` | `xch_conn_inf_server()`, `xch_conn_inf_client()` | per process `Open`, `Send`, `Receive`, `Parse`, and the user's `Restart`; `net` is the set of datagrams in flight |
| `IbProxyTwo` | `ib_proxy_two.c` | `SetupStep` (one call each), `ProxyStep` = one turn of the loop with the branches `FirstFromClient`, `SecondFromServer`, `Traffic`; `ProxyStops` |
| `ExchangeSystem` | the two above, the network and the RDMA stacks (external) | instances of both; `Drop`, `Stray`, `RdmaRequest`, `RdmaAnswer`, `RdmaArrives` |
| `IbProxy` | `ib_proxy.c` | `SetupStep`, `SetupError`, `ForwardNext`, `ReceiveError`, `Return`; `Arrive` (external) |
| `RcSession` | `main()` and `run_client()`/`run_server()` of `client-server` with `qp_transitions.c` (variant `exchanged`), of `key_based_improved` (`typed`) and of `key_based_storage` (`one_shot`) | `SetupCall` and `SetupFails` (one call each, from the options on), `Learn`; client `Input`, `Copy`, `PostSend`, `Close`; server `PostRecv`, `Poll`, `PrintMessage`, `Close`, `ServerFails`; adapters and network `Transmit`, `Lose`, `Deliver`, `Acknowledge`, `GiveUp` (external) |
| `NaiveFuzzer` | `udp.go`, `mutate.go` | `Connect`, `First`, `Copy`, `BitTurn`, `ByteTurn`; the operators `FlipBits`, `FlipBytewise` |
| `ProxyFuzzer_proofs`, `FrameTunnels_proofs`, `ExchangeSystem_proofs`, `IbProxy_proofs`, `RcSession_proofs`, `NaiveFuzzer_proofs` | | theorems and lemmas |
| `MC...` | | frames, command lines and bounds for TLC |

`RcSession` uses `InfoExchange` for the exchange instead of `ExchangeSystem`:
that this is justified is what the run `exchange` shows and the theorem
`ExchangeRefinement` proves.

### Choices a reader should know of

* **`ProxyFuzzer`.** A direction names its relay: `toClient` is the loop of the
  parent, `toServer` that of the child. One action is one system call or one
  library call, since another process can run between two of them. `rx` and
  `tx` are the queues of the devices. `orig` and the history in `tx` are
  auxiliary. Names are model values with their length reduced to "shorter than
  3" and "IFNAMSIZ or longer".
* **`XchQpn`.** The information of a process is its role and how often it was
  restarted, the content of a datagram is whose information it is and how long
  it is. `parse_conn_inf()` refuses fewer than 18 bytes; the proxy passes on
  4096 whatever it got, so the check is met by anything that went through it.
  `shutdown()` does not close a UDP socket, so the port stays bound.
* **`IbProxyTwo`.** The step counter is the call made next. After the four
  `socket()` calls for forwarding the code tests `sd_listen`; hence a failure
  there moves on, with the descriptor unusable.
* **`IbProxy`.** `strncmp` over the length of the configured address is a
  comparison of prefixes, so that 172.0.0.15 and 172.0.0.150 are the same client.
  `i` counts a `sendto()` whether it succeeds or not; `forwarded` has those that do.
  A failing `recvfrom()` is followed by `getnameinfo()` of the sender before,
  or of an uninitialized address. `prepare_sock_exit` frees a pointer that was
  never assigned: it may or may not crash.
* **`RcSession`.** Client memory `2n` holds message `n` and `2n - 1` a copy of it
  that `strcpy()` has not finished, so that the adapter may read it at any
  moment. `wire` is the payload of a packet under way: `Transmit` reads the memory
  when the adapter sends, for the first time or again, and `Deliver` writes the
  server's, even if the client is gone by then. In the variant `one_shot` the
  "hello" is message 1, copied before the memory is registered; `Close` of the
  client takes the queue pair and its request with it. A message typed is what a
  turn of the client's loop finds in `input_buf`: the result of `scanf()` is not
  looked at (`client.c:176`), so that each turn after the end of the input posts an
  empty message. `GiveUp` may happen to any request without a completion, on a
  connected pair too: the model does not count the seven retries (`retry_cnt`). `server.c` connects its
  queue pair with its own GID and an unassigned number: `Connects("server")` is
  `"other"` in the variant `exchanged`; a number that is typed may be right or
  wrong. `Failure` says how a failing call ends the program: `client.c` reads
  `mr->lkey` before it checks `mr` and crashes, and the one-shot programs open the
  first device of a list that may be empty.
* **`FrameTunnels`.** The three programs are copies of each other, so one module
  extends the other and redefines what differs: where the names come from, what
  follows the classification and how much of a packet the loop mutates.
* **`NaiveFuzzer`.** A packet is its 12 bytes of base transport header, since
  `rand.Intn(12)` chooses no other; a byte is the set of its bits. A write that
  fails sends nothing and is not noticed. `sent` and `made` are auxiliary.

## The runs

| Run | Instance | Shows |
|---|---|---|
| `fuzz_integrity` | 7 frames that reach each branch, 2 of them in a row to the server, 5 offsets and 3 bytes for `rand()` | types; `HeldIntact`, `ResidueConfined`: no bit outside the fuzzable ones changes and nothing of a frame stays for the next; `MutationConfined`: an extension header is altered only where the opcode that leaves announces it |
| `tunnel` | 3 frames, 2 one way and 1 the other, device names swapped by options, devices that go down, up and away | `ImplementsTunnel`; `LosesOnlyWhenDown`: a frame that was read is lost only at a device that is not up; `CrashIsOwnDevice`: a relay dies only of its own source; `FramesAreTaken`: under fairness nothing waits for ever |
| `startup` | the proxy fuzzer and both tunnels, 7 command lines, a SEND, an RDMA WRITE and a truncated packet, 2 one way and 1 the other | `RunsBetweenItsDevices`; `FramesAreDelivered` while no device goes down; `FramesAreCounted`: every frame written or pending arrived, once, and with both devices up none is missing; `ImplementsOwnTunnel`: each of the three programs mutates no more than its own share; `ResidueIsOwn`: nor does it leave more than that in a buffer |
| `payload_ignored` | one SEND packet | **violated**: see findings |
| `exchange` | no restart, loss or failing call | `RolesLearnt`, `ImplementsInfoExchange`; `ExchangeStaysAlive`: no step leads from a state in which whoever waits can still be answered to one in which it cannot; under fairness `ExchangeCompletes` when server and proxy are there first |
| `exchange_restart` | one restart of each process, every loss and failure, strangers | types; `LearnsFromRecorded`: who ends the exchange well holds the information of whoever the proxy recorded as its partner; `RdmaCrosses` |
| `exchange_sockets` | failing setup calls | **violated**: see findings |
| `ib_proxy` | 6 hosts: the peers, one whose address is a proper prefix of the client's, one whose address the client's is a proper prefix of, two others; one datagram each; failing calls, `sendto()` included | types (the count never exceeds 2), `BothServed`; `EnoughStays`: no step uses up a datagram that the proxy still needs in order to end; under fairness `Ends` |
| `ib_proxy_reply` | the two peers | **violated**: see findings |
| `rc_session` | all three variants, 3 messages, failing calls, lost and late packets | types, `PrintsWhatWasTyped`, `ReceivesOneByOne`, `OneShotExact`; `NoneOlder`: the k-th message printed is the k-th typed or a later one; `CompletedIsPrinted`: a request that completed was printed or is printed next; `NeverDeaf`: the server never polls for a completion that cannot come; under fairness `PostedIsPrinted` |
| `rc_server` | the variant `exchanged` | **violated**: see findings |
| `naive_fuzzer` | cycles of 3 and 2 mutations, writes that fail | types; `MutationsOfOneCycle`: n mutations alter n fields at most and no protected one; `HalvesAlike`: of the values of a byte one in eight is reached; under fairness `StartsOver` |

What the properties had to be weakened to says as much about the code as that
they hold:

* `RolesLearnt` and `ImplementsInfoExchange` need that nothing is restarted: a
  client that is started again before the server answered is recorded as the
  server, and gets its own information back. `LearnsFromRecorded` is what is left
  then: what a process learns is the information of whoever the proxy took for its
  partner, so it is misled only by a proxy that is. If the proxy took a stranger, it
  may be nobody's: the proxy passes on 4096 bytes whatever it received, and the
  receiver's check of the length refuses nothing.
* `ExchangeCompletes` needs the server to wait and the proxy to listen before
  the client sends, and no loss: there is no retry. `ExchangeStaysAlive` has the
  same premises. It says nothing of the states before the proxy listens.
* `PrintsWhatWasTyped` allows skipped, repeated and mixed messages, because the
  client overwrites memory that a request still refers to.
* `NoneOlder` bounds each message from below only, for the same reason: that the
  k-th printed is the k-th typed is false.
* `PostedIsPrinted` and `CompletedIsPrinted` are about the variants `typed` and
  `one_shot`. In the variant `exchanged`, the programs as they are, the premise of
  the first never holds and nothing completes (theorem `NeverConnected`, see
  finding 4).
* `FramesAreCounted` is an equation only while no device goes down; otherwise
  `LosesOnlyWhenDown` says where the missing frames went.
* `OneShotExact` allows that nothing is printed: the client closes its device
  right after `ibv_post_send()` and may take the message with it. The server then
  polls for ever, which is why its program has no termination property.
* `HalvesAlike` states a limit, not a merit: `flip_bits()` always turns four
  adjacent bits and `flip_bytewise()` all eight, so seven values in eight are out
  of reach however long the fuzzer runs.
* `BothServed` assumes that each host sends once and that no counted packet was
  an error or one that `sendto()` failed to send: two datagrams of the client use up
  the count (`MaxDatagrams` is 1 for that reason), and so does an error. Even
  then it promises two different hosts and not the two peers. The addresses
  are compared as far as the configured ones go (`ib_proxy.c:171`, `179`), so
  172.0.0.150 is counted and forwarded as the client, and the client or the server
  goes unserved; the host `<<1, 5, 0>>` of the run does just that. The two peers are
  served if no host that was heard begins like one of them.

### Findings

1. `proxy-f.c:190`: the opcode is read after it was mutated, so that payload of a
   packet without an extension header is changed; `design.tex:48` says that the
   payload is ignored.
2. `ib_proxy_two.c:192` (and 204, 216, 228): the code tests `sd_listen` instead
   of the descriptor it has just created.
3. `ib_proxy.c:183`: the server's information is sent to the server; the
   address resolved for the client is never used.
4. `server.c:128`: the server's queue pair is connected with the server's own
   GID and an uninitialized number instead of what the exchange returned. The
   theorem `NeverConnected` has the consequence: in no behaviour are the two queue
   pairs connected both ways, and no request of the client ever completes.

### Bounds

* `MAX_ETH_LEN` is 1542 in the code and 86 or 88 here. The largest offset the
  mutation reaches is 85 (`FUZZ_END` - 1), which `BufferAssumption` requires to
  be inside; what lies behind is treated alike. A frame of 100 bytes is cut.
* `Rand` gives offsets modulo 12, 16 and 28: the opcode, the masked fields, and
  the last byte of each header. `RandByte` has the bytes that turn a SEND into
  an RDMA and into an atomic operation, and all bits. The theorems hold for any.
* `MaxFrames` 2 in a row is what a left-over needs: one frame to leave it and
  one to carry it. `Rounds` is 1, the argument in the code.
* `MaxRestarts` 1 of each process lets each of the first two datagrams at the
  proxy come from any process; more restarts add no new sender. The
  theorems about this run's invariants are for any number.
* `MaxDatagrams` 1 is a premise of `BothServed`, see above.
* `NumCqe` is 16 in the code and 2 here: with 3 messages the completion queue
  overflows, as with 17 messages in the code, and two completions are compared with
  what was printed. `MaxMessages` 3 lets two requests
  wait while a third message is copied.
* `startup` has a SEND and an RDMA WRITE, which only `proxy-f.c` mutates behind
  the BTH, and a truncated packet. Its two offsets of the mutation are the opcode,
  within that packet, and a byte of the P_Key, behind its end: there the mutation of
  `taptunnel.c` and of `proxy-f.c` stays in the buffer.
* `naive_fuzzer`: 25 and 10 rounds in the code are 3 and 2 here, enough for
  mutations of both kinds to hit the same byte twice and for a second cycle to
  follow; offsets 0, 5 and 11 are the first byte, a protected one and the last.
  The theorems of `NaiveFuzzer_proofs` are for any number of rounds and all offsets.

### Fairness

* `ProxyFuzzer`: weak fairness of `main()`'s startup and of each relay: the
  scheduler runs both processes, and a blocking call returns when it can. A
  relay's action is enabled unless it waits for a frame. Nothing is assumed of
  the networks or of who changes links.
* `ExchangeSystem`: weak fairness of each endpoint and of the proxy. In the run
  that checks liveness no call fails and nothing is lost, which is the premise of
  the property and not an assumption of the model: the other runs have both.
* `IbProxy`: weak fairness of the calls that succeed. Errors are never forced.
* `FrameTunnels`: the same for each program. That the user of `taptunnel.c` types
  anything is not assumed.
* `RcSession`: weak fairness of the server's calls and loop and of `Transmit`,
  which the reliable connection repeats without end while the receiver is not
  ready (`rnr_retry` 7), and strong fairness of `Deliver`: the network does not
  lose every retransmission. An adapter that gives up ends the connection and with
  it what `PostedIsPrinted` promises; it is neither forced nor kept from doing so. Neither the user nor the client is forced; a failing
  call is never forced.
* `NaiveFuzzer`: weak fairness of the one process.

## The theorems

All leaves are checked by TLAPS with Z3, Zenon and LS4.

`ProxyFuzzer_proofs`, for any frames, buffer of at least `FUZZ_END` bytes, number
of rounds, values of `rand()`, names, command lines, number of frames and link
faults (the named assumptions of `PacketFuzz` and `ProxyFuzzer`):

* `TypeCorrect`: `Spec => []TypeOK`, from `TypeInv`, which says of what is written
  to a device that it is a frame no longer than the buffer.
* `FrameIntegrity`: `Spec => []HeldIntact`. `HeldIntact` is not inductive: that
  the loop of `fuzz_ib_bth()` runs on RDMA packets only is lost once `Classify`
  has decided. `IntegrityInv` adds `FuzzesRdma`, and that what is compared are the
  bytes the mutation does not touch, so the decision taken on the buffer is the
  one `Allowed` takes on the frame. The lemmas `XorAtBits` to `FuzzRoundBits`
  bound what a round of mutation can alter; `XorChain` composes rounds.
* `NoFrameLeftBehind`: `Spec => []ResidueConfined`, with `Residue(86)`, which adds
  what the buffer holds behind the frame while the frame is processed. The limit is
  a parameter, so that the tunnels can use the lemmas with theirs.
* `StartsBetweenItsDevices`, `CrashesAreConfined`: from `StartupInv`, which relates
  the descriptors to `phase`, and `CrashInv`: `nread = -1` only if the source of
  the relay is gone, which it stays.
* `Refinement`: `Spec => ImplementsTunnel`, that is `T!Spec`. A frame between its
  read and its write counts as pending, so that `Write` is `Deliver` or `Lose`,
  `Arrive` is `Arrive` and the rest stutters; `FrameIntegrity` gives `Allowed`.
* `OneFieldAltered`: `Spec => []MutationConfined`, for the one round of the code.
  `RoundInv` adds that the frame is as it was read until that round; what the round
  alters behind the BTH depends on the opcode as the same round may have left it.
* `EveryFrameCounts`, `LostAtTheDevice`: `Spec => []FramesAreCounted` and
  `Spec => LosesOnlyWhenDown`. Both rest on the lemmas of the refinement:
  `WriteEffect` says that a write takes the head of its queue and appends it to
  `tx` unless the device is not up, `NextQueues` that otherwise only an arrival
  changes a queue. The invariant adds `StaysUp`: without faults no device leaves "up".

`FrameTunnels_proofs`, under the same assumptions, for the proxy fuzzer and the two
tunnels together (`ProgramSpec`):

* `TunnelsHaveTheirDevices`: the startup invariant holds of all three, the names of
  `config` being admissible and different.
* `EachIsItsTunnel`: `ProgramSpec => ImplementsOwnTunnel`. Most steps are steps of
  `ProxyFuzzer` and inherit its lemmas; `OwnInv` repeats `IntegrityInv` with the bits
  the running program may mutate, and `FuzzFieldInBth` bounds a round of
  `taptunnel.c`. The lemma `SameClasses` says that the three abstract tunnels tell
  RDMA packets from others alike.
* `ProxyFIsProxyFuzzer`: `ProgramSpec` with `proxy-f` implements `Spec` of
  `ProxyFuzzer`, so that what is proved there needs no second proof here.
* `TunnelsCountFrames`, `TunnelsLoseAtTheDevice`, `TunnelCrashesAreConfined`: the
  properties of `ProxyFuzzer` for all three programs. The lemma `OwnStepsKeepQueues`
  disposes of the steps that are not shared.
* `NoFrameLeftBehindByAny`: `ProgramSpec => []ResidueIsOwn`, from `OwnResidueInv`,
  which is `Residue` with limit 0, 58 or 86.

`ExchangeSystem_proofs`, for any number of restarts, and whatever fails, is lost
or sent by strangers:

* `ExchangeTypes`: `Spec => []TypeOK`.
* `RdmaGoesAcross`, `LearntFromRecorded`: from `RouteInv`. Neither property is
  inductive: what is under way to a process, or was received by it, has to come
  from the port that the proxy recorded for its partner and carry the information of
  that port's owner, the proxy has the client before it has the server, and there
  are RDMA packets only when it has both. `NobodyLearnsItself` and
  `NothingFromNobody` draw the conclusions: a process that learnt its own
  information is its own partner in the proxy's books, and one that learnt nothing
  has a stranger for a partner.
* `RolesAreLearnt`, `ExchangeRefinement`: under the premise `RunsOnce` (no restart,
  no stranger, no failing `recvfrom()`), whatever else fails or is lost. `TurnsInv`
  says how far each process must be for a datagram to exist: the server's leaves
  only when the server has the client's. The server learns when it receives, since
  it answers before it parses; the client learns when it parses.
* `StaysAlive`: `Spec => ExchangeStaysAlive` under `NothingFails` (in addition no loss
  and no failing call). It also shows that the states from which the exchange is
  expected to complete are among those that `OnItsWay` describes. `Prepared` adds
  what a step relies on without testing it: a process behind `Open` has its
  port, the proxy behind its setup the two sockets of the exchange.

`IbProxy_proofs`, for any hosts and strangers:

* `IbTypes`: no third packet is counted, from `TypeInv` with
  `Len(forwarded) <= i`.
* `BothAreServed`: `Spec => []BothServed` under `SendOnce` (each host sends once),
  whatever the addresses of strangers, from `ServedInv`: no host is twice among those
  that wait and those that were served, and who was served begins like a peer.
* `NothingIsUsedUp`: `Spec => EnoughStays`, without any premise.

`RcSession_proofs`, for any number of messages and any completion queue, whatever
fails, is lost or is sent again:

* `RcTypes`: with `LabelInv`, which says which labels are whose.
* `PrintedInOrder`, `OneReceiveAtATime`: from `OrderInv`, which orders what was
  printed, what the server's memory holds, what is on the wire and what the client
  has typed: each is at most the next. That a receive request is there only while
  the server polls keeps the memory from changing under the server.
* `OneMessage`: from `OneShotInv`.
* `NothingOlder`, `PrintedOnce`, `CompletionMeansPrinted`: from `CountInv`, a
  balance between the two ends: a packet under way, a message in the server's memory
  and a printed one belong each to a request of its own and were read after it was
  posted. Of the requests that wait the first `a` have arrived; the messages received
  and the requests behind those `a` are no more than were posted (`Budget`), and the
  completions and the `a` no more than were received. `FewerReceived` and
  `OneCompleted` are the arithmetic, apart from the state.
* `ServerHears`: `NeverDeaf` is inductive with `OrderInv`.
* `NeverConnected`: from `Misconnected`, which follows the two queue pairs through
  the setup of the variant `exchanged`.

`NaiveFuzzer_proofs`, for any number of rounds and all offsets:

* `NaiveTypes` from `CountInv`, which relates the mutations made to the loop
  counter.
* `OneCycleOfMutations` from `CycleInv`, which says the same of the copy as of what
  was sent, and that the original is never written.
* `HalvesStayAlike` from `HalvesInv`: both patterns flip one bit of each pair
  `k`, `k + 4` or both, so that XOR with them keeps the halves alike or
  complementary.

Every invariant, every refinement and every action property of the passing runs
is the subject of a theorem. Only model-checked is liveness (`FramesAreTaken`,
`FramesAreDelivered`, `ExchangeCompletes`, `Ends`, `PostedIsPrinted`, `StartsOver`):
TLAPS handles neither fairness nor `ENABLED`. The safety half of four of them, that
what has to happen does not become impossible, is proved: `FramesAreCounted` and
`LosesOnlyWhenDown` for the delivery of frames, `ExchangeStaysAlive` for the
exchange, `EnoughStays` for the end of `ib_proxy`, `NeverDeaf` for the RC server.

## What is not modelled

| Part | Why |
|---|---|
| `rdma-progs/xch-qpn` | older text-based exchange with the same order of calls; no program links it |
| `udp-proxy/proxy.c`, `test.c` | one-way forwarding with nothing kept between two turns; `proxy.c` forks for the other direction, but that branch is empty; `test.c` prints what it receives |
| `tapdev.c` | opens a device and dumps what is read: input and output only |
| `dev_info.c` | repeats the setup of `RcSession` and fails at the transition to RTR, as its FIXME (line 118) says |
| `list_devices.c`, `preloadfuncs.c` | query and print: no state |
| the database file of `server.c` | opened, never read or written |
| `flip_single_bit()`, `slice_cases()`, other patterns of `flip_bits()` | called by nothing |
| hex dumps, `deserialize_ib_pkt()` | their calls are commented out or only print |
| scripts, `Vagrantfile`s, thesis | no program logic; links that go away are in `ProxyFuzzer` |

Abstracted inside the models: the bytes of the exchange messages and of RDMA
packets outside the proxy fuzzer (whose information they are is kept); the
restart of the UDP proxies; IPv4 options, which the classification excludes.

## Plan

Done, in this order: the proxy fuzzer with its abstract tunnel and its theorems;
the exchange; the two UDP proxies; the RC programs; the frame tunnels; the naive
fuzzer; `main()` of the RC programs, the one-shot pair and the lossy network of
`RcSession`; the proofs of all invariants and of the refinements of `InfoExchange` and
of the three tunnels; the counting properties (`NoneOlder`, `CompletedIsPrinted`,
`FramesAreCounted`) and the safety halves of the liveness properties, with proofs.

Left: restarts of the learning proxy in `ExchangeSystem`. A proxy that is started
again forgets both ports, so that the next RDMA packet is taken for a client's
datagram; `ib_proxy_two.c` has no provision for it, and the run would state what is
known to fail.
