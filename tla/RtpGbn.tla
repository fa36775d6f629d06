------------------------------- MODULE RtpGbn -------------------------------
(***************************************************************************)
(* The plain RTP: sendMessage (sender_def.c) and recvMessage               *)
(* (receiver_def.c), a go-back-N sender with cumulative acknowledgements   *)
(* and a receiver that keeps the packets ahead of a gap.  Composed with    *)
(* connection set-up and tear-down and the datagram network, this is a     *)
(* whole session of normal_sender and normal_receiver (test.cpp).          *)
(***************************************************************************)
EXTENDS RtpWindow

VARIABLE pcache   \* the sender's: the number of the packet in every slot

senderSlots == 0..sender_window_size - 1
Slot(n) == n % sender_window_size

receiverVars == <<expected, cache, file>>
sendLoopVars == <<nxt_seq_num, sent, pcache>>
vars == <<linkVars, connectionVars, sendLoopVars, receiverVars>>

TypeOK ==
    /\ toReceiver \subseteq Packets
    /\ toSender \subseteq Packets
    /\ ConnectionTypeOK
    /\ WindowTypeOK
    /\ sent <= msg_len
    /\ pcache \in [p : senderSlots, buffer : [senderSlots -> Nat]]

Init ==
    /\ LinkInit
    /\ ConnectionInit
    /\ WindowInit
    /\ pcache = [p |-> 0, buffer |-> [slot \in senderSlots |-> 0]]

-----------------------------------------------------------------------------
\* sendMessage.  One round of its loop is SendNew, then one poll action.

WindowOpen == nxt_seq_num < sender_window_size + send_base

cachePkt_NoStart(c, seq, base) ==   \* mutant: the slot does not count from p
    [c EXCEPT !.buffer[Slot(seq - base)] = seq]

cachePkt(c, seq, base) ==
    [c EXCEPT !.buffer[Slot(seq - base + c.p)] = seq]

SendNew ==
    /\ phase = "send"
    /\ sent < msg_len
    /\ phase' = "poll"
    /\ IF WindowOpen
       THEN /\ toReceiver' = toReceiver \cup {Packet("DATA", nxt_seq_num)}
            /\ nxt_seq_num' = nxt_seq_num + 1
            /\ pcache' = cachePkt(pcache, nxt_seq_num, send_base)
       ELSE UNCHANGED <<toReceiver, nxt_seq_num, pcache>>
    /\ UNCHANGED <<timer, send_base, result, rphase, toSender, sent, receiverVars>>

\* The loop ends: sendMessage returns 0 and the caller terminates the session.
SendDone ==
    /\ phase = "send"
    /\ sent >= msg_len
    /\ result' = "ok"
    /\ terminateSender({})
    /\ UNCHANGED <<send_base, rphase, toSender, sendLoopVars, receiverVars>>

ChunksAcked_Uncapped(n) == sent + n   \* mutant: every packet counts in full

\* The loop that adds to sent adds one chunk per packet, never past msg_len.
ChunksAcked(n) == IF sent + n < msg_len THEN sent + n ELSE msg_len

PollAck(pkt) ==
    /\ phase = "poll"
    /\ toSender' \in AfterDelivery(toSender, pkt, "dupAck")
    /\ \E ack \in Received(pkt) :
         IF ack.type = "ACK" /\ check(ack) /\ ack.seq_num > send_base
         THEN LET acked_pkt == ack.seq_num - send_base
              IN  /\ send_base' = ack.seq_num
                  /\ pcache' = [pcache EXCEPT !.p = Slot(@ + acked_pkt)]
                  /\ sent' = ChunksAcked(acked_pkt)
                  /\ setTimer
         ELSE UNCHANGED <<send_base, pcache, sent, timer>>
    /\ phase' = "send"
    /\ UNCHANGED <<result, rphase, toReceiver, nxt_seq_num, receiverVars>>

\* The slots the retransmission loop visits, one per packet outstanding.
Outstanding ==
    {pcache.buffer[Slot(pcache.p + i)] :
        i \in 0..nxt_seq_num - send_base - 1}

Resent_SkipsBase ==   \* mutant: off by one at the start of the window
    {seq \in Outstanding : seq < nxt_seq_num /\ seq > send_base}

Resent == {seq \in Outstanding : seq < nxt_seq_num /\ seq >= send_base}

\* fopen, a sendto or a recvfrom fails: sendMessage returns -1, in the middle
\* of the retransmission perhaps.  The caller ignores that and terminates the
\* session all the same.
SendFails ==
    /\ "ioError" \in Faults
    /\ \/ phase = "send" /\ sent < msg_len /\ WindowOpen /\ terminateSender({})
       \/ phase = "poll" /\ terminateSender({})
       \/ /\ phase = "poll" /\ timer = "fired"
          /\ \E last \in Resent : terminateSender(DataPackets({seq \in Resent : seq < last}))
    /\ result' = "failed"
    /\ UNCHANGED <<send_base, rphase, toSender, sendLoopVars, receiverVars>>

\* Nothing received and TIMEOUT set.  TIMEOUT stays set and the timer off, so
\* the next round that receives nothing retransmits again.
PollTimeout ==
    /\ phase = "poll"
    /\ timer = "fired"
    /\ toReceiver' = toReceiver \cup DataPackets(Resent)
    /\ phase' = "send"
    /\ UNCHANGED <<timer, send_base, result, rphase, toSender, sendLoopVars, receiverVars>>

PollNothing ==
    /\ phase = "poll"
    /\ timer # "fired"
    /\ phase' = "send"
    /\ UNCHANGED <<timer, send_base, result, rphase, linkVars, sendLoopVars, receiverVars>>

-----------------------------------------------------------------------------
\* recvMessage: a good DATA packet.

ReceiveAhead_AcksIt(seq) ==   \* mutant: acknowledges past the gap
    CacheAhead(seq) /\ SendAck(seq)

ReceiveAhead(seq) == CacheAhead(seq) /\ SendAck(expected)

ReceiveExpected(seq) == WriteExpected(seq) /\ SendAck(expected')

\* From before the expected number, or from beyond the window: dropped without
\* an acknowledgement.
ReceiveOutside(seq) ==
    /\ seq < expected \/ seq >= expected + recver_window_size
    /\ UNCHANGED <<toSender, receiverVars>>

ReceiveData(pkt) ==
    /\ rphase = "receive"
    /\ pkt.type = "DATA"
    /\ toReceiver' \in AfterDelivery(toReceiver, pkt, "dupData")
    /\ \/ ReceiveAhead(pkt.seq_num)
       \/ ReceiveExpected(pkt.seq_num)
       \/ ReceiveOutside(pkt.seq_num)
    /\ UNCHANGED <<senderVars, rphase, sendLoopVars>>

-----------------------------------------------------------------------------
SendMessage ==
    \/ SendNew
    \/ SendDone
    \/ SendFails
    \/ \E pkt \in toSender : PollAck(pkt)
    \/ PollTimeout
    \/ PollNothing

\* Both programs have returned; nothing else happens.
Finished ==
    /\ SenderReturned
    /\ ReceiverReturned
    /\ UNCHANGED vars

Session(A) == A /\ UNCHANGED <<sendLoopVars, receiverVars>>

Next ==
    \/ Session(ConnectionSender)
    \/ Session(ConnectionReceiver)
    \/ Session(sigHandler)
    \/ SendMessage
    \/ \E pkt \in toReceiver : ReceiveData(pkt)
    \/ Session(LoseDatagram /\ UNCHANGED connectionVars)
    \/ Finished

Spec == Init /\ [][Next]_vars

-----------------------------------------------------------------------------
\* The sender process never blocks (its Recv uses MSG_DONTWAIT), the alarm goes
\* off in the end, and a process keeps reading what keeps arriving.  A packet
\* that is sent again and again gets through in the end.
Fairness ==
    /\ WF_vars(Session(ConnectionSender) \/ SendMessage)
    /\ WF_vars(Session(sigHandler))
    /\ WF_vars(Session(ConnectionReceiver))
    /\ SF_vars(\E pkt \in toSender : PollAck(pkt))
    /\ \A n \in 0..msg_len - 1 : SF_vars(ReceiveData(Packet("DATA", n)))

FairSpec == Spec /\ Fairness

\* The same for every acknowledgement, when those may be lost too.
\* Stronger than SF, for one may be lost before the next poll each time.
Sending == phase \in {"send", "poll"}

FairAcks ==
    \A n \in 1..msg_len + sender_window_size - 1 :
        []<>(Sending /\ Packet("ACK", n) \in toSender) => []<><<PollAck(Packet("ACK", n))>>_vars

FairLinkSpec == FairSpec /\ FairAcks

-----------------------------------------------------------------------------
\* Properties.

\* No acknowledgement in flight, and nothing the sender concluded from one,
\* is ahead of the file: a cumulative ACK n means that packets 0..n-1 are written.
AckedIsWritten ==
    /\ send_base <= expected
    /\ \A pkt \in toSender : pkt.seq_num <= expected

\* sendMessage returns 0 only when all of msg_len is in the receiver's file.
SuccessMeansDelivered == result = "ok" => Len(file) >= msg_len

\* recvMessage returns 0 only after the sender left its send loop, and
\* then never on half a message that the sender reported as sent.
EndIsLast == rphase = "done" => result # "none" /\ ~Sending

\* A timeout resends exactly the packets sent and not acknowledged: the ring
\* holds each of them in the slots that the loop over resend_num visits.
TimeoutResendsWindow == Sending => Outstanding = send_base..nxt_seq_num - 1

\* The valid slots of the receiver hold packets of the window that are not
\* written yet, each in the slot where the run after a gap looks for it.
CacheInWindow ==
    \A slot \in receiverSlots : cache.valid[slot] = 1 =>
        \E d \in 1..recver_window_size - 1 :
            /\ cache.buffer[slot] = expected + d
            /\ slot = RSlot(cache.p + d)

\* The session implements a transfer of msg_len chunks.  Packets after the
\* last chunk carry no bytes, so they are not part of the output.
outputLength == IF Len(file) < msg_len THEN Len(file) ELSE msg_len

Abstract == INSTANCE Transfer WITH
    Chunks <- msg_len,
    MayGiveUp <- FALSE,
    output <- [i \in 1..outputLength |-> file[i]],
    sender <- IF result = "none" THEN "sending" ELSE result,
    receiver <- rphase

\* What the two programs do together is what Transfer promises of them.
ImplementsTransfer == Abstract!TransferSpec

\* While only DATA and END get lost, sendMessage comes to a successful end.
SendCompletes == phase = "send" ~> result = "ok"

\* recvMessage does return in the end.
ReceiveReturns == rphase = "receive" ~> ReceiverReturned
=============================================================================
