# A verification development for network2022fall

The repository holds four programs written for a networking course: an FTP
client and server (`lab1-myftp`), a reliable transport over UDP (`lab2-rtp`), a
distance-vector router with address translation (`lab3-router`) and a learning
Ethernet switch (`lab4-switch`).  This directory holds TLA+ models of them, TLC
configurations that check the models on small instances, and proofs, checked by
TLAPS, of the properties that matter most for every instance.

Contents: 1 inventory, 2 plan, 3 modules and how they correspond to the code,
4 runs, 5 fairness, 6 proofs, 7 what disagrees with the repository's own
statements, 8 what is not modelled.

## 1. Inventory of the system

### lab2-rtp: reliable transport

| part | code | state | operations |
|---|---|---|---|
| packets | `rtp.h`, `rtp.c`, `util.c` | none | `set_header`, `get_ptk_length`, `check` (CRC-32) |
| sender | `sender_def.c` | `connfd`, `send_base`, `nxt_seq_num`, `sent`, `TIMEOUT` with ITIMER_REAL, the ring `pcache` | `initSender`, `sendMessage`, `sendMessageOpt`, `terminateSender`, `sigHandler` |
| receiver | `receiver_def.c` | `recvfd`, its own `nxt_seq_num`, the ring `pcache` with `valid` bits, the output file | `initReceiver`, `recvMessage`, `recvMessageOpt`, `terminateReceiver` |
| tests | `test.cpp` | none | `normal_sender`, `normal_receiver` compose the calls; `easy_test` runs both in threads |

Sender and receiver are processes joined only by UDP datagrams: START and END,
DATA with a sequence number, ACK.  `sendMessage`/`recvMessage` are go-back-N
with cumulative acknowledgements and a receiver that keeps packets ahead of a
gap; `sendMessageOpt`/`recvMessageOpt` are selective repeat.

Hard: datagrams lost, repeated, reordered and damaged, at once; a one-shot timer
that races answers; two ring buffers addressed by different conventions (relative
to `p`, and by `seq_num % size`) whose slots and flags are reused; failing calls
in the middle of a retransmission.

Correct when: the output is at all times a prefix of the input; acknowledgements
are never ahead of the file; 0 is returned only when the whole message has
arrived; END ends the receiver last; a timeout resends exactly what is
outstanding; and the transfer comes to an end.

### lab3-router: distance-vector router with NAT

| part | code | state | operations |
|---|---|---|---|
| routing | `router.cpp` | `DistanceVectorTable`, `portValueTable`, `portToRouter` | TRIGGER DV SEND, PORT VALUE CHANGE, TYPE_DV, choice of a port |
| translation | `router.cpp` | `NATTable`, `availableAddrStack` | inbound and outbound translation, RELEASE NAT ITEM |
| hosts | `router.cpp` | `hostTable`, `externalNetTable` (static, shared by all routers), `hostToPort` | ADD HOST, lookup |

A simulator that is not in the repository calls `router()` with one packet at a
time and sends what comes back out of the port it returns (0: all, 1: default
route, -1: none).

Hard: vectors that are old when they arrive; the two ends of a link told of a
new cost at different times; counting up after bad news; a pool of addresses
allocated and released in any order, with answers still under way.

Correct when: distances are never too short and settle on the true ones; packets
then follow the tables to their destination; no address is lost or shared;
answers reach the host that asked.

### lab4-switch: learning switch

| part | code | state | operations |
|---|---|---|---|
| switch | `switch.cc`, `switch.h`, `types.h` | `macTable`: address -> (port, counter) | `ProcessFrame` of a data frame (learn, then filter, forward or flood) and of a control frame (age) |

Hard: the tables of several switches age and learn independently, while a frame is
on its way through them and hosts are replugged.

Correct when: an entry for a host that stays put always points to it, a frame
reaches its destination exactly once, and wrong entries go away.

### lab1-myftp: FTP client and server

| part | code | state | operations |
|---|---|---|---|
| server | `ftp_server.c` | `connfd` (the session it serves), the file and the length of a transfer under way | `main`'s accept loop, `Open`, `Auth`, `List`, `Get`, `Put`, `Quit` |
| client | `ftp_client.c` | `clientfd`, `auth`, the file and the length of a transfer under way | the same commands, `main`'s prompt |
| stream | `io.h`, `header.h` | none | `Send`, `Recv`, `get_header`, `panic` |

Both speak over a TCP stream that keeps no message boundaries; the files of both
hosts are shared with everybody else on them.

Hard: `Recv` returns 0 at the end of the stream, which no caller tells from
success, inside loops that count down a length; a file changes between `fstat` and
`fread`; clients queue behind the one that is served by the only thread; a client
dies between two calls; `connfd` is never closed, so that descriptors run out and
`popen`, `fopen` and `accept` fail; a null `FILE` pointer is written to; `panic` does
not return.

Correct when: both sides agree where each message starts; a transfer is a copy;
every command returns and every queued client is served once those before it have
left; and what happens to one client does not reach those after it.

## 2. Plan

Order, by importance: (1) plain RTP, (2) optimised RTP, (3) the switch, (4) the
router's control plane and its data plane, (5) FTP, (6) timers and threads.

Done: 1 to 5, each with proofs of the safety properties of its runs, some of them
under the hypotheses that section 6 names.  What is left:

- Logins and listings longer than a unit or two.
- 6, the two steps of `setTimer` and the shared timer of `easy_test`'s threads, is
  dropped: the alarm is lost only when the whole of `WAITTIME` passes between two
  adjacent statements, which fairness to the sender, assumed in section 5, rules
  out; and two threads with one timer exist in that test only.

## 3. Modules

```
RtpLink <- RtpConnection <- RtpWindow <- RtpGbn <- MCRtpGbn, RtpGbnProofs
                                      <- RtpSr  <- MCRtpSr, RtpSrProofs
                                      <- RtpWindowProofs, used by both proofs
Transfer   the abstract specification that RtpGbn and RtpSr instantiate
EthernetSwitch <- SwitchedLan <- MCSwitchedLan, SwitchedLanProofs
Router <- RoutingNet <- MCRoutingNet, RoutingNetProofs
NatNet <- MCNatNet, NatNetProofs
FtpIo <- FtpServer <- FtpClient <- Ftp <- MCFtp, FtpProofs
                                       <- FtpDialogue
FtpDialogueProofs  about FtpDialogue, with FtpProofs
FileStore  the abstract specification that Ftp instantiates
```

**RtpLink** is the datagram network: one set of datagrams for each direction, so
every order of delivery is possible, and a constant `Faults` that switches loss,
duplication, damage and failing calls on.  A packet is its type and number: the
payload of DATA is a function of the number, and the CRC is taken to notice every
damage (`check` is the truth).

**RtpConnection** is `initSender`, `terminateSender`, `initReceiver`, the END
branch of the receive loops and the sender's timer.  `phase` and `rphase` are the
places in the code at which the processes wait or poll; one step goes from one
such place to the next.  `terminateSender` reads the variable `recv_n` before it is
assigned; the model takes every outcome.  The receiver has no timer: it
asks `setitimer` for 1e7 microseconds in `tv_usec`, which is refused.

**RtpWindow** holds what both protocols share: `nxt_seq_num`, `sent`, and the
receiver's ring (`cache_rtp_pkt`, `get_min_ncache`, the loop that writes and
clears slots).  The file is counted in chunks of `PAYLOAD_SIZE`; packets beyond
its end carry nothing, as in the code, which keeps sending them while its window
is open.  `LenModulus` is the cut of the file's length to a `uint32_t`.

**RtpGbn** is `sendMessage` and `recvMessage`.  One round of the send loop is
`SendNew` and then one of `PollAck`, `PollTimeout`, `PollNothing`.  **RtpSr** is
`sendMessageOpt` and `recvMessageOpt` in the same frame, with `is_acked` and the
loop that moves `send_base` over it.  In RtpSr `MaxSeq` bounds the packets
created, since a stale flag lets `send_base` run ahead, even of the packets that are
created (`Overrun`).

**Transfer** says what a transfer is: the output grows as a prefix of the
message, it is whole when the sender reports success, and the receiver ends after
the sender.

**EthernetSwitch** is `ProcessFrame` as operators on a table; **SwitchedLan**
puts switches on the wires of a tree, with hosts that send and move.

**Router** is what `Router::router` computes from the tables of one router;
**RoutingNet** connects routers by FIFO links and has the branches TRIGGER DV SEND,
PORT VALUE CHANGE and TYPE_DV as actions.  **NatNet** is the TYPE_DATA branch with
RELEASE NAT ITEM and ADD HOST, over routes that have settled: that they do, and
that packets then arrive, is what RoutingNet shows.

**FtpIo** is what client and server share: the two directions of each connection
as queues of units, `Send`, `Recv` and `get_header`, and the files.  A unit has the
size of a header.  Headers, names, logins and blocks of files are units, and
nothing but its place in the queue tells what a unit is: when the two sides
disagree about lengths, the next unit is taken for what it is not, and
`AsHeader` and `AsBlocks` say what may come of that.  TCP and the disks are
external.

**FtpServer** is `ftp_server.c`: `splace` is the `Recv`, the loop or the `accept`
the server is in, and a step goes from one to the next, through every `Send`
between them.  `ServerFails` and `AtEnd` are the two ways in which a client that has
gone shows: an error (`panic`, or SIGPIPE at a second `Send`) and the end of the
stream (`Recv` returns 0, and the caller goes on with what was in its buffer).

Calls of the handlers fail as follows.  A connection takes a descriptor for good, a
file one and the pipe of `List` two for a while; `Available` says whether they can be
had, and `EarlierSessions` how many sessions the server may have behind it at first.
`popen` fails without them or for another reason, and `List` goes to `panic`
(`ServeList`).  `fopen` for reading fails for a file that is not there, or is there
and cannot be opened, and the reply says so (`GetRefused`).  `fopen` for writing
fails for a directory, without a descriptor or for any other reason, which neither
`Put` of the server nor `Get` of the client looks at: both enter their loop
(`OpenForPut`, `GetHeader`) and wait at `putNull` or `getNull` for the first data, or
for none, and the process ends with `fwrite` or `fclose` (`PutNull`, `GetNull`).
`getaddrinfo` fails, and the client that opens is in `panic` (`OpenNowhere`).

**FtpClient** is `ftp_client.c`, once for every client, with `cplace` in the same
role.  **Ftp** composes them and adds clients that die at any place and files that
somebody else changes.  `mishaps` records which of the things that the code makes
no provision for happened during whose session (`MishapKinds`: a death, a changed
file, a directory, no descriptor, a `popen`, `fopen` or `getaddrinfo` that fails for
a reason from outside); the properties use it to say that nothing goes wrong
without such a cause.

**FileStore** says what a transfer is: from the step that creates the target on,
the target is being written; when the transfer ends it is what the source is
then, and neither host's files change in between.

Operators whose names have a suffix after an underscore and are marked `mutant`
are faulty variants.  Nothing uses them; put in the place of the original they
make the property beside which `PROJECT.json` lists them fail, which shows that the
property depends on that part of the code.

## 4. Runs

| run | instance | what is checked |
|---|---|---|
| `GbnSafety` | all faults, windows 3 and 3, 2 chunks | types, `WrittenInOrder`, `AckedIsWritten`, `SuccessMeansDelivered`, `EndIsLast`, `TimeoutResendsWindow`, `CacheInWindow`, `ImplementsTransfer` |
| `GbnLive` | lost DATA and END, windows 3 and 2, 3 chunks | `SendCompletes` |
| `GbnLostAck` | acknowledgements lost too | `SendCompletes` fails (section 7) |
| `GbnLostEnd` | lost DATA and END, 1 chunk | `ReceiveReturns` fails (section 7) |
| `SrSafety` | all faults but duplicated acknowledgements, windows 2 and 2, 3 chunks | types, `WrittenInOrder`, `FlagsAreTrue`, `SuccessMeansDelivered`, `ImplementsTransfer` |
| `SrLive` | both directions lose, windows 2 and 2, 4 chunks | `SendCompletes`, `OverrunIsFinal` (section 7) |
| `SrDupAck`, `SrLate` | all faults; no faults | `SuccessMeansDelivered`, `LateDataTolerated` fail (section 7) |
| `SwitchedLan` | 3 switches in a line, 3 hosts, 2 frames, 1 move, threshold 2 | types, `StationaryEntries`, `ExactlyOnce`, `TablesSettle` |
| `RoutingNet` | 3 routers in a line, one link late, one that becomes dearer | types, `NeverTooShort`, `DistancesSettle`, `RoutesArrive` |
| `NatNet` | 2 routers, 3 hosts, 2 external addresses, 3 packets, 2 answers, 1 release, 1 move | types, `AddressesConserved`, `RepliesComeHome`, `RightHost`, `AnswersArrive` |
| `Ftp` | 2 clients, 2 file names, buffers of 2 units, 3 descriptors, no or 2 earlier sessions, 2 transfers or repeated logins, any number of listings, 1 death, changed file or failing call | types, `InStep`, `StopsHaveCauses`, `ImplementsFileStore`, `CommandsReturn`, `OpensReturn` |

Why the bounds are enough to meet the interesting cases:

- *Windows and chunks.*  Packets are numbered past the window, so both rings wrap,
  and past the last chunk, so empty packets are sent.  With a receiver window of 2 or
  more a gap occurs, with 3 two packets can wait behind one.  In SrSafety `MaxSeq`
  (4) is twice the window: every slot is filled twice and stale flags are met.  In
  SrLive the file itself is twice the window (`FileChunks` 4, `MaxSeq` 5): both slots
  of the sender's ring hold two chunks in turn, so that a flag of the last round can
  be met by a chunk that is still to come.  The proofs remove the bounds for the
  safety properties.
- *What `SendCompletes` of RtpSr excludes.*  It is claimed of sessions in which
  `send_base` never overruns a chunk that is not sent yet and the receiver does not
  give up: both happen, and both end the transfer (section 7, 4 and 5).
  `OverrunIsFinal` says that the first exception is no more than that: after an
  overrun there is never success.
- *Aging threshold* 2 instead of 10: an entry is aged once and survives, is aged
  again and goes, with frames in between.  Two frames are enough for one to
  teach the tables while the other is under way.
- *Routing.*  In a line, routers 0 and 1 offer each other stale ways to router 2:
  the counting up that makes distance vectors hard.  `MaxUnderWay` bounds when
  triggers come, not how many vectors cross.
- *NAT.*  Two addresses for three hosts run out; three packets, a release and two
  answers contain the release of an address, its reuse and a late answer.
- *FTP.*  The server's file of three units takes two turns of a loop with a buffer of
  two, the last one not full.  One client is served while the other is queued.  Each
  of the two can name a file that exists, one that does not and one that is a
  directory here or there, and both the sending and the receiving side of a transfer
  meet a file that grew or shrank.  One death, change or failing call (`MaxTroubles`)
  happens at every place of every session: what follows it is what the properties
  are about, and two clients suffice for one to suffer from the other.
- *FTP descriptors.*  Of three, the first client leaves enough for everything it asks
  for, and the second for a file but not for a pipe; when two sessions came before,
  the first client has neither, and `accept` fails for the second.
- *FTP commands.*  `MaxCommands` are shared by `get`, `put` and a repeated `auth`.
  `ls` is not bounded: a client may type it for ever, so that no bound makes the
  client that is served leave.  `MaxUnread` keeps the stream finite when the two
  sides are out of step; in step there is nothing unread at the prompt.

Deadlock is checked in SwitchedLan and RoutingNet.  The RTP programs really stop,
and one of them may be left waiting for ever (section 7), NatNet is at rest
when its budget is spent, and the clients of Ftp end, or hang with the server.

## 5. Fairness

- The RTP sender polls (`MSG_DONTWAIT`) and never blocks: weak fairness of its
  steps together.  The alarm that `setitimer` armed goes off: weak fairness of
  `sigHandler`.  A process keeps reading a socket where datagrams keep arriving,
  and UDP delivers a datagram that is sent again and again: strong fairness of the
  receipt of each DATA packet, and of receiving some acknowledgement.
- For runs in which acknowledgements are lost, each single acknowledgement that
  is in flight infinitely often while the sender polls is received infinitely
  often.  `GbnLostAck` fails even under this stronger assumption.
- END and START are sent once and nothing is assumed about them.
- SwitchedLan: every frame on a wire is processed, control frames keep coming.
  RoutingNet: ends are told, vectors arrive, triggers keep coming (strong, because
  of the bound `MaxUnderWay` in its guard).  NatNet: packets on the way are
  processed.  The simulators that drive these programs do so in a loop.
- Ftp: the server goes on when it can, and so does each client in a command (weak
  fairness of each process: they block in `Recv` or `accept` and do nothing else).
  This is assumed until the first mishap only, as no property asks for more.  Users
  need not type another line, nobody has to die or to change a file, and no call has
  to fail.
- `CommandsReturn` needs no more: whoever is served gets every command back.
  `OpensReturn` is another matter.  The server has one thread, and a client that is
  connected and types on, or types nothing, keeps it: an `open` behind it waits for
  ever, without any mishap.  So `OpensReturn` has the hypothesis `NobodyStays`: every
  client has no connection any more from some time on.

## 6. Proofs

All theorems are proved for every value of the constants, from the named
assumptions on them only (`WindowAssumption`: windows between 1 and
`MAX_WINDOW_SIZE`; `FaultsAssumption`; `AgingAssumption`; `LanAssumption`: the wires
form a tree; `RouterAssumption`, `RoutingNetAssumption`; `NatNetAssumption`: pools
are disjoint and without repetition; `FtpAssumption`), and from further hypotheses
where the theorem states them.

**RtpGbnProofs.**  `Invariance` proves the inductive invariant `IInv`; all other
theorems follow from it.  The properties alone are not inductive: a false
acknowledgement, a packet in the wrong slot or an END sent too early would each
break them a step later.  `IInv` therefore adds

- `LinkInv`: whatever is in flight was justified when it was sent,
- `PhaseInv`: how `result` and the two places in the code relate,
- `CountInv`: `send_base <= expected <= nxt_seq_num <= send_base + window`,
- `RingInv`, `CacheInv`: packet `n` of either window is in the slot where `n` says
  it is, relative to `p`.

Numbers less than a window apart have different slots, and slots add modulo the
window (`ModInj`, `ModAdd`, from elementary arithmetic), which carries `RingInv`
and `CacheInv` over each step.  The hardest step is the receipt of the expected
packet: the run of valid slots behind it holds consecutive packets, so what is
written continues the file.  It is common to both protocols and proved in
**RtpWindowProofs**.  Proved of `Spec`:
`TypeOK`, `WrittenInOrder`, `AckedIsWritten`, `SuccessMeansDelivered`,
`EndIsLast`, `TimeoutResendsWindow`, `CacheInWindow`, and `ImplementsTransfer`
(`Refinement`): initial states map to initial states, and every step to a step of
`Transfer` or to a stutter.

**RtpSrProofs** has two levels.  `TypeOK` and `WrittenInOrder` hold under every set
of faults (`IInv`): they rest on the receiver's cache and on what may be in flight
alone.  What the sender believes is true only without duplicated acknowledgements
(`NoDupAck`, a hypothesis of the theorems): the run `SrDupAck` is the counterexample
without it.  Then an acknowledgement in flight is that of a DATA packet, whose flag it
sets (`BeliefInv`), and the packets counted in `sent` are different ones that the
receiver has (`CountedInv`, which speaks of a set of packets, as stale flags let
`send_base` jump).  From these follow `FlagsAreTrue`, `SuccessMeansDelivered` and
`ImplementsTransfer`, the last two for messages whose length fits its variable
(`LengthFits`).

**SwitchedLanProofs.**  `StationaryEntries` needs that every copy comes in by the
port behind which its source is (`FramesComeFromHome`), which holds because a
frame never goes back out where it came in and the wires form a tree.
`ExactlyOnce` counts, for each frame, deliveries and copies that still approach the
destination: every step keeps the sum at one (`WayInv`).  `TypeOK` is proved beside
them.

**RoutingNetProofs.**  `NeverTooShort` is proved in a more general form
(`NeverBelow`): any bound that is no more than each link's costs plus the bound
behind the link (`BelowEveryWay`) is never undercut, for every network, every
sequence of costs and every order of vectors and changes.  The invariant says so of
the three places in which distances are: a router's own vector, the copies of its
neighbours' vectors, and the vectors under way; it also needs that the cost of a
port is one the end was told (`ValuesAreCosts`).  `NeverTooShort` follows if the
lowest distances are such a bound.  That they are is an induction over the
number of links, which the prover cannot do: it is a hypothesis of `NoBeliefTooShort`,
and TLC evaluates it for the network of the run (`LowestIsBelow`).

**NatNetProofs.**  `AddressesConserved` (`Conserved`: at each router the stack and the
addresses in use are disjoint, without repetition and together the pool) and
`RightHost`, `RepliesComeHome`.  The inductive part is `CopiesJustified`: an answer
that comes from outside is addressed to what its host holds, and a packet inside is
on its way out from its host or addressed to it; of a host whose item was released
neither is asked, as its late answers may go to the next holder of the address.

**FtpProofs.**  `TypeOK` is not inductive: that a name read by the server is a
name depends on what is in the stream, after every mishap.  `IInv` adds that in
every stream each request has its name or login right behind it, unless it is the last
unit of a client that has gone (`StreamsWhole`), and that where the server waits
for such a body it is next, or the stream has ended (`BodyComes`).  It is preserved
although blocks of a file may be left over in the stream and be read as headers.
`NamesAreNames` states `BodyComes` as a theorem.

**FtpDialogueProofs.**  Neither `InStep` nor `StopsHaveCauses` nor the refinement is
inductive.  That the next unit in a stream is the right one depends on all that is
behind it, on what the other end has read of the same command, and, while a file is
sent, on how much of it is in the copy, in the stream and still to be sent.
**FtpDialogue** says where a client that no mishap happened to (`Mishap`) stands
towards the server:

- `Outside` or `Queued`: not connected, or in the backlog exactly once with its first
  request and no more in its stream;
- `InSession`, at one of the places of a command: the server has not come to the
  request yet (`Behind`), has taken its header (`Taken`), has replied (`Answered`,
  `Listing`, `Asked`), or a file is on its way (`Getting`, `Putting`);
- `Alone`: the server is dead.

At each place it says what is in both streams.  Of a file (`Carries`, `Copied`): what
is written, then what is in the stream, then what is left to send are, in this
order, the blocks of the source, and the lengths that the two loops count down
say how many.  `Behind` includes a server that is still in its loop, with nothing
left to send or with all of the rest in its stream, when the client has gone on to its next
command: the client does not wait for the end of the server's loop.

`Dialogue` together with `IInv` and `ResetsHaveCauses` (`DInv`) is inductive
(`DialogueInvariance`), which takes one lemma for each step of the server and of a
client, and lemmas that the steps of everybody else leave a client where it stands
(`OthersWait`, `ClientTouches`): the disk of the server is shared, and a client's file
may be changed by its user, which is a mishap of a client that is busy with a command.
`ResetsHaveCauses` is needed because an error on a stream stops the server, and it
must come from the client that is served.  A call that fails leads to no place of the
dialogue, and must therefore be a mishap of the client it fails for, whatever the
reason (`CallIsMishap`, `ListFails`, `OpensInVain`); a client without one never has a
null `FILE` pointer at either end (`NoNull`).  A `Get` that is refused although the
file is there needs no such exception: the dialogue goes on.  From the invariant
follow

- `StaysInStep` and `StopsAreCaused`: `InStep` and `StopsHaveCauses`;
- `FilesAreCopied`: `ImplementsFileStore`.  The mapping hides the file that is being
  written (`View`) and takes the transfer from the places of both programs
  (`Current`); every step begins or ends a transfer of `FileStore`, changes a file on a host
  that takes no part in one, or stutters.  At its end, the copy is whole because nothing is
  in the stream and nothing is left to send.

Model-checked only: all liveness properties (`SendCompletes`, `TablesSettle`,
`DistancesSettle`, `RoutesArrive`, `AnswersArrive`, `CommandsReturn`, `OpensReturn`), as
liveness under fairness is beyond this prover; `OverrunIsFinal`; and what rests on an
induction over data, as that the lowest distances are a bound below every way
(`LowestIsBelow`).

## 7. Disagreements with the repository's own statements

1 to 4 are shown by runs that end in a counterexample, 5 by a property that holds;
`PROJECT.json` quotes the statements.

1. `GbnLostAck`: `recvMessage` does not acknowledge again what it has written; one
   lost cumulative acknowledgement can keep `sendMessage` retransmitting for ever.
2. `GbnLostEnd`: the receiver's timeout is never armed; without END,
   `recvMessage` waits for ever.
3. `SrDupAck`: a second copy of the acknowledgement of START is taken for that of
   DATA 0; `sendMessageOpt` reports success with the first chunk missing.
4. `SrLate`: a DATA packet from before the receiver's last window of written packets
   makes `recvMessageOpt` give up in the middle of the transfer.  It is always a
   second copy of a packet that is written.  In the shortest trace, with a window of
   2 and a network without faults, it is the copy of DATA 0 that the timer sent
   because its acknowledgement was slow, delivered after 0, 1 and 2 are written.
5. `SrLive`: with a window of 2, let ACK 1 come before ACK 0; `send_base` is then 2.
   Let DATA 2 be sent and ACK 2 come before DATA 3 is created: the loop over the ring
   (`sender_def.c:348-354`) goes on over the flag that packet 1 left in the slot of
   packet 3, and `send_base` is 4.  DATA 3 is sent later, but its acknowledgement is
   below the window and is not counted, and it is not sent again: `sent` never reaches
   the length of the file, and `sendMessageOpt` does not return.  `OverrunIsFinal`
   shows that no session in which this happened ends in success.

## 8. Not modelled

- The timer races of RTP: see the plan.
- FTP: the set-up of the listening socket, which is taken to succeed; logins and
  listings of other lengths; command lines that overrun their buffers; commands
  the client refuses without sending, a connection that is refused among them; the
  descriptors of clients, of which none runs out by itself (a `fopen` of a client that
  fails for that reason is one that fails).  Contents of files are taken not to look like a
  header.
- The CRC (`util.c`): taken to be perfect.  Sequence numbers are natural
  numbers: a wrap needs 2^32 packets.  Windows above `MAX_WINDOW_SIZE`, which
  would overrun the arrays, are excluded by assumption.
- Address arithmetic of the router (CIDR ranges, byte order): sets of addresses.
- A network of routers that falls apart: distances then count up to 0x3a3a3a3a
  and stay (`Infinity` is not reached in the run).
- `CMakeFiles`: generated.  `simulator.cpp`, `simulator.cc`: they only call a main
  loop that is not in the repository.
