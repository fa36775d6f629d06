------------------------------- MODULE RtpSr -------------------------------
(***************************************************************************)
(* The optimised RTP: sendMessageOpt (sender_def.c) and recvMessageOpt     *)
(* (receiver_def.c), selective repeat.  Every packet is acknowledged by    *)
(* its own number; is_acked[slot] tells whether the packet in a slot of    *)
(* the sender's ring was; the receiver acknowledges again what it has      *)
(* written already.  The session around it is that of RtpGbn.              *)
(***************************************************************************)
EXTENDS RtpWindow

CONSTANT MaxSeq   \* bound of the model: the sender creates packets 0..MaxSeq-1

ASSUME MaxSeqAssumption == MaxSeq \in Nat

VARIABLE pcache   \* the sender's: packet numbers and is_acked flags by seq_num % size

senderSlots == 0..sender_window_size - 1
Slot(seq) == seq % sender_window_size

receiverVars == <<expected, cache, file>>
sendLoopVars == <<nxt_seq_num, sent, pcache>>
vars == <<linkVars, connectionVars, sendLoopVars, receiverVars>>

TypeOK ==
    /\ toReceiver \subseteq Packets
    /\ toSender \subseteq Packets
    /\ ConnectionTypeOK
    /\ WindowTypeOK
    /\ pcache \in [p : senderSlots,
                   buffer : [senderSlots -> Nat],
                   is_acked : [senderSlots -> {0, 1}]]

Init ==
    /\ LinkInit
    /\ ConnectionInit
    /\ WindowInit
    /\ pcache = [p |-> 0,
                 buffer |-> [slot \in senderSlots |-> 0],
                 is_acked |-> [slot \in senderSlots |-> 0]]

-----------------------------------------------------------------------------
\* sendMessageOpt.

WindowOpen == nxt_seq_num < sender_window_size + send_base /\ nxt_seq_num < MaxSeq

Cached_KeepsFlag(c, seq) ==   \* mutant: is_acked is not reset
    [c EXCEPT !.buffer[Slot(seq)] = seq]

Cached(c, seq) ==
    [c EXCEPT !.buffer[Slot(seq)] = seq, !.is_acked[Slot(seq)] = 0]

SendNew ==
    /\ phase = "send"
    /\ sent < msg_len
    /\ phase' = "poll"
    /\ IF WindowOpen
       THEN /\ toReceiver' = toReceiver \cup {Packet("DATA", nxt_seq_num)}
            /\ nxt_seq_num' = nxt_seq_num + 1
            /\ pcache' = Cached(pcache, nxt_seq_num)
       ELSE UNCHANGED <<toReceiver, nxt_seq_num, pcache>>
    /\ UNCHANGED <<timer, send_base, result, rphase, toSender, sent, receiverVars>>

SendDone ==
    /\ phase = "send"
    /\ sent >= msg_len
    /\ result' = "ok"
    /\ terminateSender({})
    /\ UNCHANGED <<send_base, rphase, toSender, sendLoopVars, receiverVars>>

Acknowledges_Repeated(ack) ==   \* mutant: counts an acknowledgement twice
    /\ ack.type = "ACK"
    /\ check(ack)
    /\ ack.seq_num >= send_base
    /\ ack.seq_num < sender_window_size + send_base

Acknowledges_BelowBase(ack) ==   \* mutant: the lower end of the window is not checked
    /\ ack.type = "ACK"
    /\ check(ack)
    /\ ack.seq_num < sender_window_size + send_base
    /\ pcache.is_acked[Slot(ack.seq_num)] = 0

\* A first acknowledgement for a slot of the window.
Acknowledges(ack) ==
    /\ ack.type = "ACK"
    /\ check(ack)
    /\ ack.seq_num >= send_base
    /\ ack.seq_num < sender_window_size + send_base
    /\ pcache.is_acked[Slot(ack.seq_num)] = 0

\* The length added to sent: one chunk, none for a packet past the end.
BytesOf(seq) == IF seq < FileChunks THEN 1 ELSE 0

\* The loop over the ring passes n flags and stops at one that is not set, or
\* after the whole ring.
AckedRun(flags, n) ==
    /\ \A i \in 0..n - 1 : flags[Slot(pcache.p + i)] = 1
    /\ n < sender_window_size => flags[Slot(pcache.p + n)] # 1

Slide_NoWrap(flags) ==   \* mutant: p is not reduced to a slot
    \E n \in 0..sender_window_size :
        /\ AckedRun(flags, n)
        /\ send_base' = send_base + n
        /\ pcache' = [pcache EXCEPT !.p = send_base', !.is_acked = flags]
        /\ setTimer

Slide(flags) ==
    \E n \in 0..sender_window_size :
        /\ AckedRun(flags, n)
        /\ send_base' = send_base + n
        /\ pcache' = [pcache EXCEPT !.p = Slot(send_base'), !.is_acked = flags]
        /\ setTimer

PollAck(pkt) ==
    /\ phase = "poll"
    /\ toSender' \in AfterDelivery(toSender, pkt, "dupAck")
    /\ \E ack \in Received(pkt) :
         IF Acknowledges(ack)
         THEN LET slot == Slot(ack.seq_num)
                  flags == [pcache.is_acked EXCEPT ![slot] = 1]
              IN  /\ sent' = sent + BytesOf(pcache.buffer[slot])
                  /\ IF ack.seq_num = send_base
                     THEN Slide(flags)
                     ELSE /\ pcache' = [pcache EXCEPT !.is_acked = flags]
                          /\ UNCHANGED <<send_base, timer>>
         ELSE UNCHANGED <<send_base, pcache, sent, timer>>
    /\ phase' = "send"
    /\ UNCHANGED <<result, rphase, toReceiver, nxt_seq_num, receiverVars>>

\* The slots the retransmission loop visits whose flag is not set.  Should
\* send_base have passed nxt_seq_num, resend_num wraps around and the loop
\* turns 2^32 times, but finds no number from send_base on to send.
Outstanding ==
    {pcache.buffer[Slot(pcache.p + i)] :
        i \in {k \in 0..nxt_seq_num - send_base - 1 :
                 pcache.is_acked[Slot(k + pcache.p)] = 0}}

Resent == {seq \in Outstanding : seq < nxt_seq_num + send_base /\ seq >= send_base}

\* As in sendMessage, a failure may strike in the middle of the retransmission.
SendFails ==
    /\ "ioError" \in Faults
    /\ \/ phase = "send" /\ sent < msg_len /\ WindowOpen /\ terminateSender({})
       \/ phase = "poll" /\ terminateSender({})
       \/ /\ phase = "poll" /\ timer = "fired"
          /\ \E last \in Resent : terminateSender(DataPackets({seq \in Resent : seq < last}))
    /\ result' = "failed"
    /\ UNCHANGED <<send_base, rphase, toSender, sendLoopVars, receiverVars>>

PollTimeout ==
    /\ phase = "poll"
    /\ timer = "fired"
    /\ toReceiver' = toReceiver \cup DataPackets(Resent)
    /\ phase' = "send"
    /\ UNCHANGED <<timer, send_base, result, rphase, toSender, sendLoopVars, receiverVars>>

PollNothing ==
    /\ phase = "poll"
    /\ timer # "fired"
    /\ phase' = "send"
    /\ UNCHANGED <<timer, send_base, result, rphase, linkVars, sendLoopVars, receiverVars>>

-----------------------------------------------------------------------------
\* recvMessageOpt: a good DATA packet.

Rewritten_Never(seq) == FALSE   \* mutant: what is written is not acknowledged again

\* One of the last window of packets written is acknowledged once more.
Rewritten(seq) == seq < expected /\ seq + recver_window_size >= expected

\* An older one: "illegal pkt seq num", the receiver gives up and returns -1.
IllegalSeq(seq) == seq + recver_window_size < expected

ReceiveData(pkt) ==
    /\ rphase = "receive"
    /\ pkt.type = "DATA"
    /\ toReceiver' \in AfterDelivery(toReceiver, pkt, "dupData")
    /\ \/ /\ CacheAhead(pkt.seq_num) \/ WriteExpected(pkt.seq_num)
          /\ SendAck(pkt.seq_num)
          /\ UNCHANGED rphase
       \/ /\ Rewritten(pkt.seq_num)
          /\ SendAck(pkt.seq_num)
          /\ UNCHANGED <<rphase, receiverVars>>
       \/ /\ IllegalSeq(pkt.seq_num)
          /\ rphase' = "failed"
          /\ UNCHANGED <<toSender, receiverVars>>
       \/ /\ pkt.seq_num >= expected + recver_window_size
          /\ UNCHANGED <<rphase, toSender, receiverVars>>
    /\ UNCHANGED <<senderVars, sendLoopVars>>

-----------------------------------------------------------------------------
SendMessageOpt ==
    \/ SendNew
    \/ SendDone
    \/ SendFails
    \/ \E pkt \in toSender : PollAck(pkt)
    \/ PollTimeout
    \/ PollNothing

Session(A) == A /\ UNCHANGED <<sendLoopVars, receiverVars>>

\* Both programs have returned; nothing else happens.
Finished ==
    /\ SenderReturned
    /\ ReceiverReturned
    /\ UNCHANGED vars

Next ==
    \/ Session(ConnectionSender)
    \/ Session(ConnectionReceiver)
    \/ Session(sigHandler)
    \/ SendMessageOpt
    \/ \E pkt \in toReceiver : ReceiveData(pkt)
    \/ Session(LoseDatagram /\ UNCHANGED connectionVars)
    \/ Finished

Spec == Init /\ [][Next]_vars

\* As in RtpGbn, for a network that loses datagrams now and then: a packet that
\* is sent again and again gets through, an acknowledgement too.
Sending == phase \in {"send", "poll"}

Fairness ==
    /\ WF_vars(Session(ConnectionSender) \/ SendMessageOpt)
    /\ WF_vars(Session(sigHandler))
    /\ WF_vars(Session(ConnectionReceiver))
    /\ \A n \in 0..msg_len - 1 :
         /\ SF_vars(ReceiveData(Packet("DATA", n)))
         /\ []<>(Sending /\ Packet("ACK", n) \in toSender)
              => []<><<PollAck(Packet("ACK", n))>>_vars

FairSpec == Spec /\ Fairness

-----------------------------------------------------------------------------
\* Properties.

\* A set is_acked flag is true: the receiver has the packet in that slot of the
\* ring, written or cached.
FlagsAreTrue ==
    \A slot \in senderSlots :
        pcache.is_acked[slot] = 1 => HasReceived(pcache.buffer[slot])

\* sendMessageOpt returns 0 only when all of msg_len is in the receiver's file.
SuccessMeansDelivered == result = "ok" => Len(file) >= msg_len

\* A packet that comes late does not make the receiver give up in the middle of a
\* transfer: recvMessageOpt fails only after sendMessageOpt returned.  (A failure
\* of initReceiver, before anything is expected, is not meant.)
LateDataTolerated == rphase = "failed" => result # "none" \/ expected = 0

\* The session implements a transfer of msg_len chunks whose receiver may give up:
\* packets past the last chunk carry no bytes and are not part of the output.
outputLength == IF Len(file) < msg_len THEN Len(file) ELSE msg_len

Abstract == INSTANCE Transfer WITH
    Chunks <- msg_len,
    MayGiveUp <- TRUE,
    output <- [i \in 1..outputLength |-> file[i]],
    sender <- IF result = "none" THEN "sending" ELSE result,
    receiver <- rphase

\* What the two programs do together is what Transfer promises of them.
ImplementsTransfer == Abstract!TransferSpec

\* send_base has passed a chunk of the file that is not sent yet.  The loop over the
\* ring met a flag of the last round; when the chunk is sent after all, its
\* acknowledgement lies below the window and is not counted.
Overrun == nxt_seq_num < send_base /\ nxt_seq_num < msg_len

\* While datagrams get lost now and then, sendMessageOpt comes to a successful end,
\* unless acknowledgements out of order make send_base overrun the file or a late
\* packet makes the receiver give up.
SendCompletes ==
    [](~Overrun /\ rphase # "failed") => (phase = "send" ~> result = "ok")

\* The first exception is a hang for good: after an overrun sendMessageOpt does not
\* return 0 any more, whatever arrives.
OverrunIsFinal == [](Overrun => [](result # "ok"))
=============================================================================
