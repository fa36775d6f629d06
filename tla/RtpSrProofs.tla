----------------------------- MODULE RtpSrProofs -----------------------------
(***************************************************************************)
(* Proofs about RtpSr, for windows and messages of any size.               *)
(*                                                                         *)
(* Type correctness and the order of the output hold under every set of    *)
(* faults: they rest on the receiver's cache (RtpWindowProofs) and on what *)
(* may be in flight (IInv).                                                *)
(*                                                                         *)
(* What the sender believes is true only while no acknowledgement is       *)
(* duplicated: then an acknowledgement in flight is that of a DATA packet, *)
(* so the slot it sets belongs to that packet (BeliefInv), and sent counts *)
(* packets the receiver has (CountedInv).                                  *)
(***************************************************************************)
EXTENDS RtpSr, RtpWindowProofs, FiniteSetTheorems

-----------------------------------------------------------------------------
\* The rings.

LEMMA SlotRange ==
    ASSUME NEW a \in Nat
    PROVE  Slot(a) \in senderSlots
BY Sizes, ModRange DEF Slot, senderSlots

LEMMA SlotInj ==
    ASSUME NEW a \in Nat, NEW b \in Nat, a < b, b < a + sender_window_size
    PROVE  Slot(a) # Slot(b)
BY Sizes, ModInj DEF Slot

LEMMA RSlotZero == RSlot(0) = 0
<1>1. 0 \in 0..recver_window_size - 1
  BY Sizes
<1> QED
  BY <1>1, Sizes, ModSmall DEF RSlot

-----------------------------------------------------------------------------
\* The inductive invariant for every set of faults.

\* Only packets that were created are in flight, and END only when the sender
\* has left its loop.
LinkInv ==
    /\ \A pkt \in toSender : pkt.type = "ACK"
    /\ \A pkt \in toReceiver :
        /\ pkt.type \in {"START", "DATA", "END"}
        /\ pkt.type = "START" => pkt.seq_num = 0
        /\ pkt.type = "DATA" => pkt.seq_num < nxt_seq_num
        /\ pkt.type = "END" => result # "none"

\* The result is set when the sender leaves its loops, and the receiver's
\* success comes later.
PhaseInv ==
    /\ result = "none" <=> phase \in {"start", "connect", "send", "poll"}
    /\ phase \in {"start", "connect"} => send_base = 0
    /\ rphase = "done" => result # "none"
    /\ result = "ok" => sent >= msg_len

\* Whatever the retransmission finds in the ring was created before.
BufferInv == \A slot \in senderSlots : pcache.buffer[slot] < nxt_seq_num \/ pcache.buffer[slot] = 0

IInv ==
    /\ TypeOK
    /\ WrittenInOrder
    /\ LinkInv
    /\ PhaseInv
    /\ BufferInv
    /\ CacheInv

LEMMA ReceiverPart == IInv => ReceiverInv
BY DEF IInv, TypeOK, ReceiverInv

LEMMA InitIInv == Init => IInv
<1> SUFFICES ASSUME Init PROVE IInv
  OBVIOUS
<1> USE DEF Init, LinkInit, ConnectionInit, WindowInit, emptyCache
<1>1. TypeOK
  BY Sizes
  DEF TypeOK, ConnectionTypeOK, WindowTypeOK, senderSlots, receiverSlots, Packets
<1>2. WrittenInOrder
  BY DEF WrittenInOrder
<1>3. LinkInv /\ PhaseInv /\ BufferInv
  BY DEF LinkInv, PhaseInv, BufferInv
<1>4. CacheInv
  BY RSlotZero DEF CacheInv, receiverSlots
<1> QED
  BY <1>1, <1>2, <1>3, <1>4 DEF IInv

-----------------------------------------------------------------------------
\* Every step preserves it.

\* The rings and the file are not touched by the session around the transfer.
LEMMA RingsUnchanged ==
    ASSUME IInv, UNCHANGED <<nxt_seq_num, pcache, expected, cache, file>>
    PROVE  (WrittenInOrder /\ BufferInv /\ CacheInv)'
BY DEF IInv, WrittenInOrder, BufferInv, CacheInv, Ahead

LEMMA SenderSessionStep ==
    ASSUME IInv, Session(ConnectionSender)
    PROVE  IInv'
<1> USE DEF IInv, Session, sendLoopVars, receiverVars
<1>1. TypeOK /\ LinkInv /\ PhaseInv
  OBVIOUS
<1>2. UNCHANGED <<nxt_seq_num, sent, pcache, expected, cache, file, rphase>>
  BY DEF ConnectionSender, initSender, conn_reply, end_reply, conn_no_reply, end_no_reply
<1>3. toSender' \subseteq toSender
  BY Delivery
  DEF ConnectionSender, initSender, conn_reply, end_reply, conn_no_reply, end_no_reply, linkVars
<1>4. send_base' = send_base
  BY <1>1
  DEF ConnectionSender, initSender, conn_reply, end_reply, conn_no_reply, end_no_reply, PhaseInv
<1>5. \A pkt \in toReceiver' :
        \/ pkt \in toReceiver
        \/ pkt = Packet("START", 0)
        \/ pkt = Packet("END", send_base) /\ result' # "none"
  BY DEF ConnectionSender, initSender, conn_reply, end_reply, conn_no_reply, end_no_reply,
         linkVars, Refuse, SendEnd
<1>6. /\ phase' \in {"connect", "send", "closed", "returned"}
      /\ timer' \in {"off", "armed", "fired"}
      /\ \/ /\ result' = result
            /\ phase' \in {"connect", "send"} => phase \in {"start", "connect"}
            /\ phase' \in {"closed", "returned"} => phase = "end"
         \/ result' = "refused" /\ phase' = "returned"
  BY <1>1
  DEF ConnectionSender, initSender, conn_reply, end_reply, conn_no_reply, end_no_reply, Refuse,
      setTimer, resetTimer, TypeOK, ConnectionTypeOK
<1>7. (result = "none" /\ result' = "refused") \/ result' = result
  BY <1>1, <1>6
  DEF ConnectionSender, initSender, conn_reply, end_reply, conn_no_reply, end_no_reply, Refuse,
      PhaseInv
<1>8. TypeOK'
  BY <1>1, <1>2, <1>3, <1>4, <1>5, <1>6
  DEF Packet, Packets, PacketTypes, TypeOK, ConnectionTypeOK, WindowTypeOK
<1>9. LinkInv'
  BY <1>1, <1>2, <1>3, <1>5, <1>7 DEF Packet, LinkInv
<1>10. PhaseInv'
  BY <1>1, <1>2, <1>4, <1>6, <1>7 DEF PhaseInv, msg_len
<1> QED
  BY <1>2, <1>8, <1>9, <1>10, RingsUnchanged

LEMMA ReceiverSessionStep ==
    ASSUME IInv, Session(ConnectionReceiver)
    PROVE  IInv'
<1> USE DEF IInv, Session, sendLoopVars, receiverVars
<1>1. TypeOK /\ LinkInv /\ PhaseInv
  OBVIOUS
<1>2. PICK pkt \in toReceiver : initReceiver(pkt) \/ ReceiveEnd(pkt) \/ ReceiveIgnored(pkt)
  BY DEF ConnectionReceiver
<1>3. toReceiver' \subseteq toReceiver
  BY <1>2, Delivery DEF initReceiver, ReceiveEnd, ReceiveIgnored
<1>4. pkt.seq_num \in Nat
  BY <1>1, <1>2 DEF TypeOK, Packets
<1>5. UNCHANGED <<phase, timer, send_base, result, nxt_seq_num, sent, pcache, expected, cache, file>>
  BY <1>2 DEF initReceiver, ReceiveEnd, ReceiveIgnored, connectionVars, senderVars
<1>6. \A ack \in toSender' : ack \in toSender \/ ack = Packet("ACK", pkt.seq_num)
  BY <1>2, Intact DEF initReceiver, ReceiveEnd, ReceiveIgnored, SendAck
<1>7. rphase' \in {"listen", "receive", "done", "failed"} /\ (rphase' = "done" => result # "none")
  BY <1>1, <1>2
  DEF initReceiver, ReceiveEnd, ReceiveIgnored, connectionVars, LinkInv, PhaseInv, TypeOK,
      ConnectionTypeOK
<1>8. TypeOK'
  BY <1>1, <1>3, <1>4, <1>5, <1>6, <1>7
  DEF Packet, Packets, PacketTypes, TypeOK, ConnectionTypeOK, WindowTypeOK
<1>9. (LinkInv /\ PhaseInv)'
  BY <1>1, <1>3, <1>5, <1>6, <1>7 DEF Packet, LinkInv, PhaseInv, msg_len
<1> QED
  BY <1>5, <1>8, <1>9, RingsUnchanged

LEMMA SendNewStep ==
    ASSUME IInv, SendNew
    PROVE  IInv'
<1> USE DEF IInv
<1>1. TypeOK /\ LinkInv /\ PhaseInv /\ BufferInv
  OBVIOUS
<1>2. /\ UNCHANGED <<timer, send_base, result, rphase, toSender, sent, expected, cache, file>>
      /\ phase = "send" /\ phase' = "poll"
  BY DEF SendNew, receiverVars
<1>3. CASE WindowOpen
  <2>1. /\ toReceiver' = toReceiver \cup {Packet("DATA", nxt_seq_num)}
        /\ nxt_seq_num' = nxt_seq_num + 1
        /\ pcache' = [pcache EXCEPT !.buffer[Slot(nxt_seq_num)] = nxt_seq_num,
                                    !.is_acked[Slot(nxt_seq_num)] = 0]
    BY <1>3 DEF SendNew, Cached
  <2>2. nxt_seq_num \in Nat /\ Slot(nxt_seq_num) \in senderSlots
    BY <1>1, SlotRange DEF TypeOK, WindowTypeOK
  <2>3. /\ pcache' \in [p : senderSlots, buffer : [senderSlots -> Nat],
                        is_acked : [senderSlots -> {0, 1}]]
        /\ \A slot \in senderSlots : pcache'.buffer[slot] \in {pcache.buffer[slot], nxt_seq_num}
    BY <1>1, <2>1, <2>2 DEF TypeOK
  <2>4. BufferInv'
    BY <1>1, <2>1, <2>2, <2>3 DEF BufferInv, TypeOK
  <2>5. (LinkInv /\ PhaseInv)'
    BY <1>1, <1>2, <2>1, <2>2 DEF Packet, LinkInv, PhaseInv, TypeOK, Packets, msg_len
  <2>6. TypeOK'
    <3>1. toReceiver' \subseteq Packets
      BY <1>1, <2>1, <2>2 DEF Packet, Packets, PacketTypes, TypeOK
    <3>2. ConnectionTypeOK'
      BY <1>1, <1>2 DEF TypeOK, ConnectionTypeOK
    <3>3. WindowTypeOK'
      BY <1>1, <1>2, <2>1, <2>2 DEF TypeOK, WindowTypeOK
    <3> QED
      BY <1>1, <1>2, <2>3, <3>1, <3>2, <3>3 DEF TypeOK
  <2>7. (WrittenInOrder /\ CacheInv)'
    BY <1>1, <1>2, <2>1, <2>2 DEF WrittenInOrder, CacheInv, Ahead, TypeOK, WindowTypeOK
  <2> QED
    BY <2>4, <2>5, <2>6, <2>7
<1>4. CASE ~WindowOpen
  <2>1. UNCHANGED <<toReceiver, nxt_seq_num, pcache>>
    BY <1>4 DEF SendNew
  <2>2. (TypeOK /\ LinkInv /\ PhaseInv)'
    BY <1>1, <1>2, <2>1
    DEF LinkInv, PhaseInv, TypeOK, ConnectionTypeOK, WindowTypeOK, msg_len
  <2> QED
    BY <1>2, <2>1, <2>2, RingsUnchanged
<1> QED
  BY <1>3, <1>4

\* A failure or the end of the loop sends END, after part of a retransmission
\* perhaps; a timeout sends packets that were created before.
LEMMA ResentIsOld ==
    ASSUME IInv
    PROVE  \A seq \in Resent : seq \in Nat /\ seq < nxt_seq_num
<1>1. /\ nxt_seq_num \in Nat /\ send_base \in Nat
      /\ pcache \in [p : senderSlots, buffer : [senderSlots -> Nat], is_acked : [senderSlots -> {0, 1}]]
      /\ BufferInv
  BY DEF IInv, TypeOK, ConnectionTypeOK, WindowTypeOK
<1>2. ASSUME NEW seq \in Resent
      PROVE  seq \in Nat /\ seq < nxt_seq_num
  <2>1. PICK i \in 0..nxt_seq_num - send_base - 1 : seq = pcache.buffer[Slot(pcache.p + i)]
    BY DEF Resent, Outstanding
  <2>2. pcache.p + i \in Nat /\ nxt_seq_num > 0
    BY <1>1, <2>1 DEF senderSlots
  <2>3. Slot(pcache.p + i) \in senderSlots
    BY <2>2, SlotRange
  <2> QED
    BY <1>1, <2>1, <2>2, <2>3 DEF BufferInv
<1> QED
  BY <1>2

LEMMA SendEndsStep ==
    ASSUME IInv, SendDone \/ SendFails
    PROVE  IInv'
<1> USE DEF IInv
<1>1. TypeOK /\ LinkInv /\ PhaseInv
  OBVIOUS
<1>2. /\ UNCHANGED <<send_base, rphase, toSender, nxt_seq_num, sent, pcache, expected, cache, file>>
      /\ phase' \in {"end", "closed", "returned"}
      /\ timer' \in {"armed", "off"}
      /\ result' \in {"ok", "failed"}
      /\ result' = "ok" => sent >= msg_len
  BY DEF SendDone, SendFails, terminateSender, setTimer, resetTimer, sendLoopVars, receiverVars
<1>3. PICK seqs \in SUBSET Resent :
        toReceiver' = toReceiver \cup DataPackets(seqs) \cup {Packet("END", send_base)}
  <2>1. DataPackets({}) = {}
    BY DEF DataPackets
  <2> QED
    BY <2>1 DEF SendDone, SendFails, terminateSender
<1>4. \A p \in toReceiver' :
        \/ p \in toReceiver
        \/ p.type = "DATA" /\ p.seq_num < nxt_seq_num /\ p \in Packets
        \/ p = Packet("END", send_base)
  <2>1. \A seq \in seqs : seq \in Nat /\ seq < nxt_seq_num
    BY ResentIsOld
  <2> QED
    BY <1>3, <2>1 DEF DataPackets, Packet, Packets, PacketTypes
<1>5. (LinkInv /\ PhaseInv)'
  BY <1>1, <1>2, <1>4 DEF Packet, LinkInv, PhaseInv, msg_len
<1>6. TypeOK'
  BY <1>1, <1>2, <1>4
  DEF Packet, Packets, PacketTypes, TypeOK, ConnectionTypeOK, WindowTypeOK
<1> QED
  BY <1>2, <1>5, <1>6, RingsUnchanged

LEMMA PollTimeoutStep ==
    ASSUME IInv, PollTimeout
    PROVE  IInv'
<1> USE DEF IInv
<1>1. TypeOK /\ LinkInv /\ PhaseInv
  OBVIOUS
<1>2. /\ UNCHANGED <<timer, send_base, result, rphase, toSender, nxt_seq_num, sent, pcache>>
      /\ UNCHANGED <<expected, cache, file>>
      /\ phase = "poll" /\ phase' = "send"
      /\ toReceiver' = toReceiver \cup DataPackets(Resent)
  BY DEF PollTimeout, sendLoopVars, receiverVars
<1>3. \A pkt \in toReceiver' :
        \/ pkt \in toReceiver
        \/ pkt \in Packets /\ pkt.type = "DATA" /\ pkt.seq_num < nxt_seq_num
  BY <1>2, ResentIsOld DEF DataPackets, Packet, Packets, PacketTypes
<1>4. (LinkInv /\ PhaseInv)'
  BY <1>1, <1>2, <1>3 DEF LinkInv, PhaseInv, msg_len
<1>5. TypeOK'
  BY <1>1, <1>2, <1>3 DEF TypeOK, ConnectionTypeOK, WindowTypeOK
<1> QED
  BY <1>2, <1>4, <1>5, RingsUnchanged

\* What a poll that receives something may do: nothing, or set the flag of a
\* slot and, for the number at send_base, move the window.
PollEffect(ack, slides) ==
    /\ ack.type = "ACK" /\ ack.seq_num >= send_base
    /\ ack.seq_num < sender_window_size + send_base
    /\ pcache.is_acked[Slot(ack.seq_num)] = 0
    /\ sent' = sent + BytesOf(pcache.buffer[Slot(ack.seq_num)])
    /\ pcache'.buffer = pcache.buffer
    /\ pcache'.is_acked = [pcache.is_acked EXCEPT ![Slot(ack.seq_num)] = 1]
    /\ pcache'.p \in senderSlots
    /\ pcache' = [p |-> pcache'.p, buffer |-> pcache'.buffer, is_acked |-> pcache'.is_acked]
    /\ send_base' = send_base + slides

LEMMA PollAckEffect ==
    ASSUME TypeOK, NEW pkt \in toSender, PollAck(pkt)
    PROVE  /\ UNCHANGED <<result, rphase, toReceiver, nxt_seq_num, expected, cache, file>>
           /\ phase = "poll" /\ phase' = "send"
           /\ toSender' \in AfterDelivery(toSender, pkt, "dupAck")
           /\ timer' \in {timer, "armed"}
           /\ \/ UNCHANGED <<send_base, pcache, sent>>
              \/ \E slides \in Nat : PollEffect(pkt, slides)
<1> USE DEF receiverVars
<1>1. /\ UNCHANGED <<result, rphase, toReceiver, nxt_seq_num, expected, cache, file>>
      /\ phase = "poll" /\ phase' = "send"
      /\ toSender' \in AfterDelivery(toSender, pkt, "dupAck")
  BY DEF PollAck
<1>2. /\ send_base \in Nat /\ pkt.seq_num \in Nat
      /\ pcache \in [p : senderSlots, buffer : [senderSlots -> Nat], is_acked : [senderSlots -> {0, 1}]]
  BY DEF TypeOK, ConnectionTypeOK, Packets
<1>3. PICK ack \in Received(pkt) :
        IF Acknowledges(ack)
        THEN LET slot == Slot(ack.seq_num)
                 flags == [pcache.is_acked EXCEPT ![slot] = 1]
             IN  /\ sent' = sent + BytesOf(pcache.buffer[slot])
                 /\ IF ack.seq_num = send_base
                    THEN Slide(flags)
                    ELSE /\ pcache' = [pcache EXCEPT !.is_acked = flags]
                         /\ UNCHANGED <<send_base, timer>>
        ELSE UNCHANGED <<send_base, pcache, sent, timer>>
  BY DEF PollAck
<1>4. CASE ~Acknowledges(ack)
  BY <1>1, <1>3, <1>4
<1>5. CASE Acknowledges(ack)
  <2> DEFINE flags == [pcache.is_acked EXCEPT ![Slot(pkt.seq_num)] = 1]
  <2>1. ack.type = pkt.type /\ ack.seq_num = pkt.seq_num
    BY <1>5, Intact DEF Acknowledges
  <2>2. /\ pkt.type = "ACK" /\ pkt.seq_num >= send_base
        /\ pkt.seq_num < sender_window_size + send_base
        /\ pcache.is_acked[Slot(pkt.seq_num)] = 0
    BY <1>5, <2>1 DEF Acknowledges
  <2>3. sent' = sent + BytesOf(pcache.buffer[Slot(pkt.seq_num)])
    BY <1>3, <1>5, <2>1
  <2>4. CASE pkt.seq_num = send_base
    <3>1. Slide(flags)
      BY <1>3, <1>5, <2>1, <2>4
    <3>2. PICK n \in 0..sender_window_size :
            /\ send_base' = send_base + n
            /\ pcache' = [pcache EXCEPT !.p = Slot(send_base'), !.is_acked = flags]
            /\ timer' = "armed"
      BY <3>1 DEF Slide, setTimer
    <3>3. n \in Nat /\ send_base' \in Nat
      BY <1>2, <3>2
    <3>4. Slot(send_base') \in senderSlots
      BY <3>3, SlotRange
    <3>5. PollEffect(pkt, n)
      BY <1>2, <2>2, <2>3, <3>2, <3>4 DEF PollEffect
    <3> QED
      BY <1>1, <3>2, <3>3, <3>5
  <2>5. CASE pkt.seq_num # send_base
    <3>1. /\ pcache' = [pcache EXCEPT !.is_acked = flags]
          /\ UNCHANGED <<send_base, timer>>
      BY <1>3, <1>5, <2>1, <2>5
    <3>2. send_base' = send_base + 0
      BY <1>2, <3>1
    <3>3. PollEffect(pkt, 0)
      BY <1>2, <2>2, <2>3, <3>1, <3>2 DEF PollEffect
    <3> QED
      BY <1>1, <3>1, <3>3
  <2> QED
    BY <2>4, <2>5
<1> QED
  BY <1>4, <1>5

LEMMA PollAckStep ==
    ASSUME IInv, NEW pkt \in toSender, PollAck(pkt)
    PROVE  IInv'
<1> USE DEF IInv
<1>1. TypeOK /\ LinkInv /\ PhaseInv /\ BufferInv
  OBVIOUS
<1>2. /\ UNCHANGED <<result, rphase, toReceiver, nxt_seq_num, expected, cache, file>>
      /\ phase = "poll" /\ phase' = "send"
      /\ toSender' \subseteq toSender
      /\ timer' \in {timer, "armed"}
  BY PollAckEffect, Delivery
<1>3. /\ pcache' \in [p : senderSlots, buffer : [senderSlots -> Nat],
                      is_acked : [senderSlots -> {0, 1}]]
      /\ pcache'.buffer = pcache.buffer
      /\ send_base' \in Nat /\ sent' \in Nat
  <2>1. CASE UNCHANGED <<send_base, pcache, sent>>
    BY <1>1, <2>1 DEF TypeOK, ConnectionTypeOK, WindowTypeOK
  <2>2. ASSUME NEW slides \in Nat, PollEffect(pkt, slides)
        PROVE  /\ pcache' \in [p : senderSlots, buffer : [senderSlots -> Nat],
                             is_acked : [senderSlots -> {0, 1}]]
               /\ pcache'.buffer = pcache.buffer
               /\ send_base' \in Nat /\ sent' \in Nat
    <3>1. /\ pcache.buffer \in [senderSlots -> Nat]
          /\ pcache.is_acked \in [senderSlots -> {0, 1}]
          /\ send_base \in Nat /\ sent \in Nat
      BY <1>1 DEF TypeOK, ConnectionTypeOK, WindowTypeOK
    <3>2. pcache'.is_acked \in [senderSlots -> {0, 1}]
      BY <2>2, <3>1 DEF PollEffect
    <3>3. pcache'.p \in senderSlots /\ pcache'.buffer = pcache.buffer
      BY <2>2 DEF PollEffect
    <3>4. pcache' = [p |-> pcache'.p, buffer |-> pcache'.buffer, is_acked |-> pcache'.is_acked]
      BY <2>2 DEF PollEffect
    <3>5. send_base' \in Nat /\ sent' \in Nat
      BY <2>2, <3>1 DEF PollEffect, BytesOf
    <3> QED
      BY <3>1, <3>2, <3>3, <3>4, <3>5
  <2> QED
    BY <2>1, <2>2, PollAckEffect
<1>4. (WrittenInOrder /\ BufferInv /\ CacheInv)'
  BY <1>1, <1>2, <1>3 DEF WrittenInOrder, BufferInv, CacheInv, Ahead
<1>5. (LinkInv /\ PhaseInv)'
  BY <1>1, <1>2 DEF LinkInv, PhaseInv
<1>6. TypeOK'
  BY <1>1, <1>2, <1>3 DEF TypeOK, ConnectionTypeOK, WindowTypeOK
<1> QED
  BY <1>4, <1>5, <1>6

\* An idle poll, the alarm and a lost datagram change nothing that matters.
LEMMA IdleStep ==
    ASSUME IInv, PollNothing \/ Session(sigHandler) \/ Session(LoseDatagram /\ UNCHANGED connectionVars)
    PROVE  IInv'
<1> USE DEF IInv
<1>1. TypeOK /\ LinkInv /\ PhaseInv
  OBVIOUS
<1>2. /\ UNCHANGED <<send_base, result, rphase, nxt_seq_num, sent, pcache, expected, cache, file>>
      /\ toReceiver' \subseteq toReceiver
      /\ toSender' \subseteq toSender
      /\ phase' = phase \/ (phase = "poll" /\ phase' = "send")
      /\ timer' \in {timer, "fired"}
  <2> USE DEF sendLoopVars, receiverVars
  <2>1. CASE PollNothing
    BY <2>1 DEF PollNothing, linkVars
  <2>2. CASE Session(sigHandler)
    BY <2>2 DEF Session, sigHandler, linkVars
  <2>3. CASE Session(LoseDatagram /\ UNCHANGED connectionVars)
    BY <2>3 DEF Session, LoseDatagram, connectionVars, senderVars
  <2> QED
    BY <2>1, <2>2, <2>3
<1>3. (LinkInv /\ PhaseInv)'
  BY <1>1, <1>2 DEF LinkInv, PhaseInv, msg_len
<1>4. TypeOK'
  BY <1>1, <1>2 DEF TypeOK, ConnectionTypeOK, WindowTypeOK
<1> QED
  BY <1>2, <1>3, <1>4, RingsUnchanged

\* What the receiver does with a DATA packet: its half of the invariant holds, it
\* forgets nothing, and it acknowledges the packet only if it has it.
LEMMA ReceiveDataEffect ==
    ASSUME IInv, NEW pkt \in toReceiver, ReceiveData(pkt)
    PROVE  /\ UNCHANGED <<phase, timer, send_base, result, nxt_seq_num, sent, pcache>>
           /\ toReceiver' \subseteq toReceiver
           /\ pkt.type = "DATA" /\ pkt.seq_num \in Nat /\ pkt.seq_num < nxt_seq_num
           /\ rphase = "receive" /\ rphase' \in {"receive", "failed"}
           /\ UNCHANGED file \/ rphase' = "receive"
           /\ ReceiverInv'
           /\ expected' >= expected
           /\ \A n \in Nat : HasReceived(n) => HasReceived(n)'
           /\ \A ack \in toSender' :
                ack \in toSender \/ (ack = Packet("ACK", pkt.seq_num) /\ HasReceived(pkt.seq_num)')
<1>1. /\ UNCHANGED <<phase, timer, send_base, result, nxt_seq_num, sent, pcache>>
      /\ toReceiver' \subseteq toReceiver
      /\ pkt.type = "DATA"
      /\ rphase = "receive" /\ rphase' \in {"receive", "failed"}
  BY Delivery DEF ReceiveData, senderVars, sendLoopVars
<1>2. pkt.seq_num \in Nat /\ pkt.seq_num < nxt_seq_num
  BY <1>1 DEF IInv, TypeOK, Packets, LinkInv
<1>3. ReceiverInv /\ expected \in Nat /\ nxt_seq_num \in Nat
  BY ReceiverPart DEF ReceiverInv, WindowTypeOK
<1>4. CASE CacheAhead(pkt.seq_num) /\ SendAck(pkt.seq_num) /\ UNCHANGED rphase
  <2>1. /\ ReceiverInv'
        /\ HasReceived(pkt.seq_num)'
        /\ \A n \in Nat : HasReceived(n) => HasReceived(n)'
        /\ UNCHANGED <<expected, file>>
    BY <1>1, <1>2, <1>3, <1>4, CacheAheadStep
    DEF ReceiverInv, WindowTypeOK, CacheInv, WrittenInOrder, Ahead
  <2> QED
    BY <1>1, <1>2, <1>3, <1>4, <2>1 DEF SendAck
<1>5. CASE WriteExpected(pkt.seq_num) /\ SendAck(pkt.seq_num) /\ UNCHANGED rphase
  <2>1. /\ ReceiverInv'
        /\ \A n \in Nat : HasReceived(n) => HasReceived(n)'
        /\ expected' > expected /\ expected' \in Nat
    BY <1>1, <1>2, <1>3, <1>5, WriteExpectedStep
    DEF ReceiverInv, WindowTypeOK, CacheInv, WrittenInOrder, Ahead
  <2>2. pkt.seq_num < expected'
    BY <1>3, <1>5, <2>1 DEF WriteExpected
  <2>3. HasReceived(pkt.seq_num)'
    BY <2>2 DEF HasReceived
  <2> QED
    BY <1>1, <1>2, <1>3, <1>5, <2>1, <2>3 DEF SendAck
<1>6. CASE UNCHANGED receiverVars /\ (UNCHANGED toSender
                                      \/ (Rewritten(pkt.seq_num) /\ SendAck(pkt.seq_num)))
  <2>1. UNCHANGED <<nxt_seq_num, sent, expected, cache, file>>
    BY <1>1, <1>6 DEF receiverVars
  <2>2. ReceiverInv' /\ \A n \in Nat : HasReceived(n) => HasReceived(n)'
    BY <1>3, <2>1 DEF ReceiverInv, WindowTypeOK, CacheInv, WrittenInOrder, Ahead, HasReceived
  <2>3. Rewritten(pkt.seq_num) => HasReceived(pkt.seq_num)'
    BY <2>1 DEF Rewritten, HasReceived
  <2> QED
    BY <1>1, <1>2, <1>3, <1>6, <2>1, <2>2, <2>3 DEF SendAck
<1>7. \/ CacheAhead(pkt.seq_num) /\ SendAck(pkt.seq_num) /\ UNCHANGED rphase
      \/ WriteExpected(pkt.seq_num) /\ SendAck(pkt.seq_num) /\ UNCHANGED rphase
      \/ UNCHANGED receiverVars /\ (UNCHANGED toSender
                                    \/ (Rewritten(pkt.seq_num) /\ SendAck(pkt.seq_num)))
  BY DEF ReceiveData
<1> QED
  BY <1>4, <1>5, <1>6, <1>7

LEMMA ReceiveDataStep ==
    ASSUME IInv, NEW pkt \in toReceiver, ReceiveData(pkt)
    PROVE  IInv'
<1>1. TypeOK /\ LinkInv /\ PhaseInv /\ BufferInv
  BY DEF IInv
<1>2. /\ UNCHANGED <<phase, timer, send_base, result, nxt_seq_num, sent, pcache>>
      /\ toReceiver' \subseteq toReceiver
      /\ rphase' \in {"receive", "failed"}
      /\ ReceiverInv'
      /\ pkt.seq_num \in Nat
      /\ \A ack \in toSender' : ack \in toSender \/ ack = Packet("ACK", pkt.seq_num)
  BY ReceiveDataEffect
<1>3. (WrittenInOrder /\ BufferInv /\ CacheInv)'
  BY <1>1, <1>2 DEF ReceiverInv, BufferInv
<1>4. (LinkInv /\ PhaseInv)'
  <2>1. LinkInv'
    BY <1>1, <1>2 DEF Packet, LinkInv
  <2>2. PhaseInv'
    BY <1>1, <1>2 DEF PhaseInv, msg_len
  <2> QED
    BY <2>1, <2>2
<1>5. TypeOK'
  BY <1>1, <1>2 DEF Packet, Packets, PacketTypes, ReceiverInv, TypeOK, ConnectionTypeOK
<1> QED
  BY <1>3, <1>4, <1>5 DEF IInv

LEMMA NextIInv == IInv /\ [Next]_vars => IInv'
<1> SUFFICES ASSUME IInv, [Next]_vars PROVE IInv'
  OBVIOUS
<1>1. CASE SendMessageOpt
  BY <1>1, SendNewStep, SendEndsStep, PollAckStep, PollTimeoutStep, IdleStep DEF SendMessageOpt
<1>2. CASE UNCHANGED vars
  <2>1. UNCHANGED <<toReceiver, toSender, phase, timer, send_base, result, rphase,
                    nxt_seq_num, sent, pcache, expected, cache, file>>
    BY <1>2
    DEF vars, linkVars, connectionVars, senderVars, sendLoopVars, receiverVars
  <2>2. (TypeOK /\ LinkInv /\ PhaseInv)'
    BY <2>1 DEF IInv, TypeOK, ConnectionTypeOK, WindowTypeOK, LinkInv, PhaseInv, msg_len
  <2> QED
    BY <2>1, <2>2, RingsUnchanged DEF IInv
<1> QED
  BY <1>1, <1>2, SenderSessionStep, ReceiverSessionStep, ReceiveDataStep, IdleStep
  DEF Next, Finished

\* The invariant holds in every reachable state, under every set of faults.
THEOREM Invariance == Spec => []IInv
<1> QED
  BY InitIInv, NextIInv, PTL DEF Spec

\* Every variable keeps its type, also once send_base has run past nxt_seq_num.
THEOREM TypeCorrect == Spec => []TypeOK
<1>1. IInv => TypeOK
  BY DEF IInv
<1> QED
  BY <1>1, Invariance, PTL

\* The output file is a prefix of the input under every fault, also where the
\* sender is deceived about what was delivered.
THEOREM OutputIsPrefix == Spec => []WrittenInOrder
<1>1. IInv => WrittenInOrder
  BY DEF IInv
<1> QED
  BY <1>1, Invariance, PTL

-----------------------------------------------------------------------------
\* What the sender believes, while acknowledgements are not duplicated.

NoDupAck == "dupAck" \notin Faults

\* The acknowledgement of START is the only one until the data phase, whose
\* sender has consumed it.
SetupInv ==
    /\ phase = "start" => toReceiver = {} /\ toSender = {} /\ rphase = "listen"
    /\ phase \in {"start", "connect"} => nxt_seq_num = 0
    /\ phase = "connect" => \A ack \in toSender : ack = Packet("ACK", 0) /\ rphase # "listen"
    /\ Sending => rphase # "listen"

\* An acknowledgement in flight is that of a packet the receiver has, and the ring
\* holds the last packets created, whatever has become of send_base.
BeliefInv ==
    /\ Sending => \A ack \in toSender : ack.seq_num < nxt_seq_num /\ HasReceived(ack.seq_num)
    /\ nxt_seq_num <= send_base + sender_window_size
    /\ \A n \in 0..nxt_seq_num - 1 :
         nxt_seq_num <= n + sender_window_size => pcache.buffer[Slot(n)] = n
    /\ FlagsAreTrue

\* The packets of a set C were counted, each once: the flag of one that might be
\* counted again is still set.
Counted(C) ==
    /\ sent = Cardinality(C)
    /\ \A n \in C :
        /\ n < nxt_seq_num
        /\ HasReceived(n)
        /\ n >= send_base => pcache.is_acked[Slot(n)] = 1

CountedInv == \E C \in SUBSET (0..FileChunks - 1) : Counted(C)

TrueInv ==
    /\ IInv
    /\ SetupInv
    /\ BeliefInv
    /\ CountedInv

LEMMA InitTrueInv == Init => TrueInv
<1> SUFFICES ASSUME Init PROVE TrueInv
  OBVIOUS
<1> USE DEF Init, LinkInit, ConnectionInit, WindowInit
<1>1. SetupInv
  BY DEF SetupInv, Sending
<1>2. BeliefInv
  BY Sizes DEF BeliefInv, FlagsAreTrue, Sending
<1>3. CountedInv
  <2>1. Counted({})
    BY FS_EmptySet DEF Counted
  <2> QED
    BY <2>1 DEF CountedInv
<1> QED
  BY <1>1, <1>2, <1>3, InitIInv DEF TrueInv

\* While no packet is created or acknowledged, the beliefs depend on the
\* acknowledgements in flight only.
LEMMA BeliefsUnchanged ==
    ASSUME TrueInv,
           UNCHANGED <<send_base, nxt_seq_num, sent, pcache, expected, cache>>,
           Sending' => \A ack \in toSender' : ack.seq_num < nxt_seq_num /\ HasReceived(ack.seq_num)
    PROVE  (BeliefInv /\ CountedInv)'
<1>1. \A n : HasReceived(n)' <=> HasReceived(n)
  BY DEF HasReceived
<1>2. BeliefInv'
  BY <1>1 DEF TrueInv, BeliefInv, FlagsAreTrue
<1>3. CountedInv'
  <2>1. PICK C \in SUBSET (0..FileChunks - 1) : Counted(C)
    BY DEF TrueInv, CountedInv
  <2>2. Counted(C)'
    BY <1>1, <2>1 DEF Counted
  <2> QED
    BY <2>2 DEF CountedInv
<1> QED
  BY <1>2, <1>3

LEMMA SenderSessionTrue ==
    ASSUME NoDupAck, TrueInv, Session(ConnectionSender)
    PROVE  (SetupInv /\ BeliefInv /\ CountedInv)'
<1> USE DEF Session, sendLoopVars, receiverVars
<1>1. UNCHANGED <<nxt_seq_num, sent, pcache, expected, cache, file, rphase>>
  BY DEF ConnectionSender, initSender, conn_reply, end_reply, conn_no_reply, end_no_reply
<1>2. send_base' = send_base
  BY DEF ConnectionSender, initSender, conn_reply, end_reply, conn_no_reply, end_no_reply,
         TrueInv, IInv, PhaseInv
<1>3. CASE initSender
  <2>1. phase = "start" /\ phase' \in {"connect", "returned"} /\ toSender' = toSender
    BY <1>3 DEF initSender, Refuse
  <2>2. SetupInv'
    BY <1>1, <2>1 DEF TrueInv, SetupInv, Sending
  <2>3. ~Sending'
    BY <2>1 DEF Sending
  <2> QED
    BY <1>1, <1>2, <2>2, <2>3, BeliefsUnchanged
\* The reply is consumed, and it was the only one.
<1>4. CASE \E pkt \in toSender : conn_reply(pkt)
  <2>1. PICK pkt \in toSender : conn_reply(pkt)
    BY <1>4
  <2>2. phase = "connect" /\ phase' \in {"send", "returned"}
    BY <2>1 DEF conn_reply, Refuse
  <2>3. toSender' = toSender \ {pkt}
    BY <2>1 DEF conn_reply, AfterDelivery, NoDupAck
  <2>4. toSender' = {} /\ rphase # "listen"
    BY <2>1, <2>2, <2>3 DEF TrueInv, SetupInv
  <2>5. SetupInv'
    BY <1>1, <2>2, <2>4 DEF SetupInv, Sending
  <2> QED
    BY <1>1, <1>2, <2>4, <2>5, BeliefsUnchanged
<1>5. CASE conn_no_reply \/ end_no_reply \/ \E pkt \in toSender : end_reply(pkt)
  <2>1. phase' \in {"closed", "returned"}
    BY <1>5 DEF conn_no_reply, end_no_reply, end_reply, Refuse
  <2>2. SetupInv' /\ ~Sending'
    BY <2>1 DEF SetupInv, Sending
  <2> QED
    BY <1>1, <1>2, <2>2, BeliefsUnchanged
<1> QED
  BY <1>3, <1>4, <1>5 DEF ConnectionSender

LEMMA ReceiverSessionTrue ==
    ASSUME TrueInv, Session(ConnectionReceiver)
    PROVE  (SetupInv /\ BeliefInv /\ CountedInv)'
<1> USE DEF Session, sendLoopVars, receiverVars
<1>1. PICK pkt \in toReceiver : initReceiver(pkt) \/ ReceiveEnd(pkt) \/ ReceiveIgnored(pkt)
  BY DEF ConnectionReceiver
<1>2. UNCHANGED <<phase, send_base, result, nxt_seq_num, sent, pcache, expected, cache, file>>
  BY <1>1 DEF initReceiver, ReceiveEnd, ReceiveIgnored, connectionVars, senderVars
<1>3. phase # "start"
  BY <1>1 DEF TrueInv, SetupInv
<1>4. CASE initReceiver(pkt)
  <2>1. rphase = "listen" /\ rphase' # "listen"
    BY <1>4 DEF initReceiver
  <2>2. \A ack \in toSender' : ack \in toSender
                              \/ (ack = Packet("ACK", pkt.seq_num) /\ pkt.type = "START")
    BY <1>4, Intact DEF initReceiver, SendAck
  <2>3. \A ack \in toSender' : ack \in toSender \/ ack = Packet("ACK", 0)
    BY <1>1, <2>2 DEF TrueInv, IInv, LinkInv
  <2>4. ~Sending
    BY <2>1 DEF TrueInv, SetupInv
  <2>5. SetupInv' /\ ~Sending'
    BY <1>2, <1>3, <2>1, <2>3, <2>4 DEF TrueInv, SetupInv, Sending
  <2> QED
    BY <1>2, <2>5, BeliefsUnchanged
<1>5. CASE ReceiveEnd(pkt)
  <2>1. phase \notin {"start", "connect", "send", "poll"}
    BY <1>1, <1>5 DEF ReceiveEnd, TrueInv, IInv, LinkInv, PhaseInv
  <2>2. SetupInv' /\ ~Sending'
    BY <1>2, <2>1 DEF SetupInv, Sending
  <2> QED
    BY <1>2, <2>2, BeliefsUnchanged
<1>6. CASE ReceiveIgnored(pkt)
  <2>1. UNCHANGED <<rphase, toSender>>
    BY <1>6 DEF ReceiveIgnored, connectionVars
  <2>2. SetupInv'
    BY <1>2, <1>3, <2>1 DEF TrueInv, SetupInv, Sending
  <2> QED
    BY <1>2, <2>1, <2>2, BeliefsUnchanged DEF TrueInv, BeliefInv, Sending
<1> QED
  BY <1>1, <1>4, <1>5, <1>6

\* Steps that neither create nor acknowledge a packet.
LEMMA QuietTrue ==
    ASSUME TrueInv,
           \/ SendDone \/ SendFails \/ PollTimeout \/ PollNothing
           \/ Session(sigHandler) \/ Session(LoseDatagram /\ UNCHANGED connectionVars)
    PROVE  (SetupInv /\ BeliefInv /\ CountedInv)'
<1>1. /\ UNCHANGED <<send_base, nxt_seq_num, sent, pcache, expected, cache, file, rphase>>
      /\ toSender' \subseteq toSender
      /\ \/ phase' = phase /\ toReceiver' \subseteq toReceiver
         \/ phase \in {"send", "poll"} /\ phase' \in {"send", "poll", "end", "closed", "returned"}
  <2> USE DEF sendLoopVars, receiverVars
  <2>1. CASE SendDone \/ SendFails
    BY <2>1 DEF SendDone, SendFails, terminateSender
  <2>2. CASE PollTimeout \/ PollNothing
    BY <2>2 DEF PollTimeout, PollNothing, linkVars
  <2>3. CASE Session(sigHandler)
    BY <2>3 DEF Session, sigHandler, linkVars
  <2>4. CASE Session(LoseDatagram /\ UNCHANGED connectionVars)
    BY <2>4 DEF Session, LoseDatagram, connectionVars, senderVars
  <2> QED
    BY <2>1, <2>2, <2>3, <2>4
<1>2. SetupInv'
  BY <1>1 DEF TrueInv, SetupInv, Sending
<1>3. Sending' => \A ack \in toSender' : ack.seq_num < nxt_seq_num /\ HasReceived(ack.seq_num)
  BY <1>1 DEF TrueInv, BeliefInv, Sending
<1> QED
  BY <1>1, <1>2, <1>3, BeliefsUnchanged

LEMMA SenderTypes ==
    ASSUME TrueInv
    PROVE  /\ send_base \in Nat /\ nxt_seq_num \in Nat /\ sent \in Nat /\ expected \in Nat
           /\ pcache.buffer \in [senderSlots -> Nat]
           /\ pcache.is_acked \in [senderSlots -> {0, 1}]
           /\ sender_window_size \in Nat \ {0} /\ FileChunks \in Nat
BY Sizes DEF TrueInv, IInv, TypeOK, ConnectionTypeOK, WindowTypeOK

\* A new packet takes the slot and the flag of a packet below send_base.
LEMMA SendNewTrue ==
    ASSUME TrueInv, SendNew
    PROVE  (SetupInv /\ BeliefInv /\ CountedInv)'
<1>1. /\ UNCHANGED <<send_base, result, rphase, toSender, sent, expected, cache, file>>
      /\ phase = "send" /\ phase' = "poll"
  BY DEF SendNew, receiverVars
<1>2. SetupInv'
  BY <1>1 DEF TrueInv, SetupInv, Sending
<1>3. CASE WindowOpen
  <2>1. /\ nxt_seq_num' = nxt_seq_num + 1
        /\ pcache' = [pcache EXCEPT !.buffer[Slot(nxt_seq_num)] = nxt_seq_num,
                                    !.is_acked[Slot(nxt_seq_num)] = 0]
    BY <1>3 DEF SendNew, Cached
  <2>2. Slot(nxt_seq_num) \in senderSlots
    BY SenderTypes, SlotRange
  <2>3. ASSUME NEW slot \in senderSlots
        PROVE  IF slot = Slot(nxt_seq_num)
               THEN pcache'.buffer[slot] = nxt_seq_num /\ pcache'.is_acked[slot] = 0
               ELSE /\ pcache'.buffer[slot] = pcache.buffer[slot]
                    /\ pcache'.is_acked[slot] = pcache.is_acked[slot]
    <3>1. pcache \in [p : senderSlots, buffer : [senderSlots -> Nat],
                      is_acked : [senderSlots -> {0, 1}]]
      BY DEF TrueInv, IInv, TypeOK
    <3> QED
      BY <2>1, <2>2, <3>1
  <2>4. nxt_seq_num < send_base + sender_window_size
    BY <1>3, SenderTypes DEF WindowOpen
  <2>5. \A n : HasReceived(n)' <=> HasReceived(n)
    BY <1>1 DEF HasReceived
  \* Packets less than a window old keep their slots.
  <2>6. ASSUME NEW n \in 0..nxt_seq_num - 1, nxt_seq_num < n + sender_window_size
        PROVE  Slot(n) \in senderSlots /\ Slot(n) # Slot(nxt_seq_num)
    BY <2>6, SenderTypes, SlotRange, SlotInj
  <2>7. BeliefInv'
    <3>1. Sending' => \A ack \in toSender' : ack.seq_num < nxt_seq_num' /\ HasReceived(ack.seq_num)'
      <4>1. ASSUME NEW ack \in toSender'
            PROVE  ack.seq_num < nxt_seq_num' /\ HasReceived(ack.seq_num)'
        <5>1. ack \in toSender /\ ack.seq_num \in Nat
          BY <1>1, <4>1 DEF TrueInv, IInv, TypeOK, Packets
        <5>2. ack.seq_num < nxt_seq_num /\ HasReceived(ack.seq_num)
          BY <1>1, <5>1 DEF TrueInv, BeliefInv, Sending
        <5> QED
          BY <2>1, <2>5, <5>1, <5>2, SenderTypes
      <4> QED
        BY <4>1
    <3>2. nxt_seq_num' <= send_base' + sender_window_size
      BY <1>1, <2>1, <2>4, SenderTypes
    <3>3. ASSUME NEW n \in 0..nxt_seq_num' - 1, nxt_seq_num' <= n + sender_window_size
          PROVE  pcache'.buffer[Slot(n)] = n
      <4>1. CASE n = nxt_seq_num
        BY <2>2, <2>3, <4>1
      <4>2. CASE n # nxt_seq_num
        <5>1. n \in 0..nxt_seq_num - 1 /\ nxt_seq_num < n + sender_window_size
              /\ nxt_seq_num <= n + sender_window_size
          BY <2>1, <3>3, <4>2, SenderTypes
        <5>2. pcache.buffer[Slot(n)] = n
          BY <5>1 DEF TrueInv, BeliefInv
        <5> QED
          BY <2>3, <2>6, <5>1, <5>2
      <4> QED
        BY <4>1, <4>2
    <3>4. FlagsAreTrue'
      BY <2>3, <2>5 DEF TrueInv, BeliefInv, FlagsAreTrue
    <3> QED
      BY <3>1, <3>2, <3>3, <3>4 DEF BeliefInv
  <2>8. CountedInv'
    <3>1. PICK C \in SUBSET (0..FileChunks - 1) : Counted(C)
      BY DEF TrueInv, CountedInv
    <3>2. ASSUME NEW n \in C
          PROVE  /\ n < nxt_seq_num'
                 /\ HasReceived(n)'
                 /\ n >= send_base' => pcache'.is_acked[Slot(n)] = 1
      <4>1. n \in Nat /\ n < nxt_seq_num /\ HasReceived(n)
        BY <3>1, <3>2, SenderTypes DEF Counted
      <4>2. ASSUME n >= send_base PROVE pcache'.is_acked[Slot(n)] = 1
        <5>1. n \in 0..nxt_seq_num - 1 /\ nxt_seq_num < n + sender_window_size
          BY <2>4, <4>1, <4>2, SenderTypes
        <5>2. pcache.is_acked[Slot(n)] = 1
          BY <3>1, <3>2, <4>2 DEF Counted
        <5> QED
          BY <2>3, <2>6, <5>1, <5>2
      <4> QED
        BY <1>1, <2>1, <2>5, <4>1, <4>2, SenderTypes
    <3>3. Counted(C)'
      BY <1>1, <3>1, <3>2 DEF Counted
    <3> QED
      BY <3>3 DEF CountedInv
  <2> QED
    BY <1>2, <2>7, <2>8
<1>4. CASE ~WindowOpen
  <2>1. UNCHANGED <<nxt_seq_num, pcache>>
    BY <1>4 DEF SendNew
  <2>2. \A ack \in toSender' : ack.seq_num < nxt_seq_num /\ HasReceived(ack.seq_num)
    BY <1>1 DEF TrueInv, BeliefInv, Sending
  <2> QED
    BY <1>1, <1>2, <2>1, <2>2, BeliefsUnchanged
<1> QED
  BY <1>3, <1>4

\* The slot that an acknowledgement of the window sets holds the packet that it
\* acknowledges, which was not counted before.
LEMMA PollAckTrue ==
    ASSUME TrueInv, NEW pkt \in toSender, PollAck(pkt)
    PROVE  (SetupInv /\ BeliefInv /\ CountedInv)'
<1>1. /\ UNCHANGED <<result, rphase, toReceiver, nxt_seq_num, expected, cache, file>>
      /\ phase = "poll" /\ phase' = "send"
      /\ toSender' \subseteq toSender
      /\ \/ UNCHANGED <<send_base, pcache, sent>>
         \/ \E slides \in Nat : PollEffect(pkt, slides)
  BY PollAckEffect, Delivery DEF TrueInv, IInv
<1>2. SetupInv'
  BY <1>1 DEF TrueInv, SetupInv, Sending
<1>3. \A ack \in toSender' : ack.seq_num < nxt_seq_num /\ HasReceived(ack.seq_num)
  BY <1>1 DEF TrueInv, BeliefInv, Sending
<1>4. CASE UNCHANGED <<send_base, pcache, sent>>
  BY <1>1, <1>2, <1>3, <1>4, BeliefsUnchanged
<1>5. ASSUME NEW slides \in Nat, PollEffect(pkt, slides)
      PROVE  (BeliefInv /\ CountedInv)'
  <2>1. PICK seq : seq = pkt.seq_num
    OBVIOUS
  <2>2. /\ seq \in Nat /\ seq < nxt_seq_num /\ HasReceived(seq)
    BY <1>1, <2>1 DEF TrueInv, IInv, TypeOK, Packets, BeliefInv, Sending
  <2>3. /\ seq >= send_base
        /\ pcache.is_acked[Slot(seq)] = 0
        /\ sent' = sent + BytesOf(pcache.buffer[Slot(seq)])
        /\ pcache'.buffer = pcache.buffer
        /\ pcache'.is_acked = [pcache.is_acked EXCEPT ![Slot(seq)] = 1]
        /\ send_base' = send_base + slides
    BY <1>5, <2>1 DEF PollEffect
  <2>4. /\ Slot(seq) \in senderSlots
        /\ pcache.buffer[Slot(seq)] = seq
    <3>1. seq \in 0..nxt_seq_num - 1 /\ nxt_seq_num <= seq + sender_window_size
      BY <2>2, <2>3, SenderTypes DEF TrueInv, BeliefInv
    <3> QED
      BY <2>2, <3>1, SlotRange DEF TrueInv, BeliefInv
  <2>5. \A n : HasReceived(n)' <=> HasReceived(n)
    BY <1>1 DEF HasReceived
  <2>6. send_base' \in Nat /\ send_base' >= send_base
    BY <2>3, SenderTypes
  <2>7. \A slot \in senderSlots :
          pcache'.is_acked[slot] = IF slot = Slot(seq) THEN 1 ELSE pcache.is_acked[slot]
    BY <2>3, <2>4, SenderTypes
  <2>8. BeliefInv'
    <3>1. FlagsAreTrue'
      BY <2>2, <2>3, <2>4, <2>5, <2>7 DEF TrueInv, BeliefInv, FlagsAreTrue
    <3>2. nxt_seq_num' <= send_base' + sender_window_size
      BY <1>1, <2>6, SenderTypes DEF TrueInv, BeliefInv
    <3> QED
      BY <1>1, <1>3, <2>3, <2>5, <3>1, <3>2 DEF TrueInv, BeliefInv
  <2>9. PICK C \in SUBSET (0..FileChunks - 1) : Counted(C)
    BY DEF TrueInv, CountedInv
  <2>10. IsFiniteSet(C) /\ seq \notin C
    <3>1. IsFiniteSet(0..FileChunks - 1)
      BY SenderTypes, FS_Interval
    <3>2. IsFiniteSet(C)
      BY <2>9, <3>1, FS_Subset
    <3>3. ASSUME seq \in C PROVE FALSE
      <4>1. pcache.is_acked[Slot(seq)] = 1
        BY <2>3, <2>9, <3>3 DEF Counted
      <4> QED
        BY <2>3, <4>1
    <3> QED
      BY <3>2, <3>3
  <2>11. ASSUME NEW n \in C \cup {seq}
         PROVE  /\ n < nxt_seq_num'
                /\ HasReceived(n)'
                /\ n >= send_base' => pcache'.is_acked[Slot(n)] = 1
    <3>1. CASE n = seq
      BY <1>1, <2>2, <2>4, <2>5, <2>7, <3>1
    <3>2. CASE n \in C
      <4>1. n \in Nat /\ Slot(n) \in senderSlots
        BY <2>9, <3>2, SenderTypes, SlotRange
      <4>2. n >= send_base' => n >= send_base
        BY <2>6, <4>1, SenderTypes
      <4> QED
        BY <1>1, <2>5, <2>7, <2>9, <3>2, <4>1, <4>2 DEF Counted
    <3> QED
      BY <2>11, <3>1, <3>2
  <2>12. CASE seq < FileChunks
    <3>1. sent' = Cardinality(C \cup {seq})
      <4>1. sent' = sent + 1
        BY <2>3, <2>4, <2>12 DEF BytesOf
      <4>2. Cardinality(C \cup {seq}) = Cardinality(C) + 1
        BY <2>10, FS_AddElement
      <4>3. sent = Cardinality(C)
        BY <2>9 DEF Counted
      <4> QED
        BY <4>1, <4>2, <4>3
    <3>2. Counted(C \cup {seq})'
      BY <2>11, <3>1 DEF Counted
    <3>3. C \cup {seq} \in SUBSET (0..FileChunks - 1)
      <4>1. seq \in 0..FileChunks - 1
        BY <2>2, <2>12, SenderTypes
      <4> QED
        BY <4>1
    <3> QED
      BY <2>8, <3>2, <3>3 DEF CountedInv
  <2>13. CASE ~(seq < FileChunks)
    <3>1. sent' = sent
      BY <2>3, <2>4, <2>13, SenderTypes DEF BytesOf
    <3>2. Counted(C)'
      BY <2>9, <2>11, <3>1 DEF Counted
    <3> QED
      BY <2>8, <3>2 DEF CountedInv
  <2> QED
    BY <2>12, <2>13
<1> QED
  BY <1>1, <1>2, <1>4, <1>5

\* The receiver acknowledges what it has, and forgets nothing that was
\* acknowledged.
LEMMA ReceiveDataTrue ==
    ASSUME TrueInv, NEW pkt \in toReceiver, ReceiveData(pkt)
    PROVE  (SetupInv /\ BeliefInv /\ CountedInv)'
<1>1. /\ UNCHANGED <<phase, timer, send_base, result, nxt_seq_num, sent, pcache>>
      /\ pkt.seq_num \in Nat /\ pkt.seq_num < nxt_seq_num
      /\ rphase = "receive" /\ rphase' \in {"receive", "failed"}
      /\ \A n \in Nat : HasReceived(n) => HasReceived(n)'
      /\ \A ack \in toSender' :
           ack \in toSender \/ (ack = Packet("ACK", pkt.seq_num) /\ HasReceived(pkt.seq_num)')
  BY ReceiveDataEffect DEF TrueInv
<1>2. phase \notin {"start", "connect"}
  BY <1>1 DEF TrueInv, SetupInv
<1>3. SetupInv'
  BY <1>1, <1>2 DEF SetupInv, Sending
<1>4. BeliefInv'
  <2>1. ASSUME Sending', NEW ack \in toSender'
        PROVE  ack.seq_num < nxt_seq_num' /\ HasReceived(ack.seq_num)'
    <3>1. CASE ack \in toSender
      <4>1. ack.seq_num \in Nat
        BY <3>1 DEF TrueInv, IInv, TypeOK, Packets
      <4>2. ack.seq_num < nxt_seq_num /\ HasReceived(ack.seq_num)
        BY <1>1, <2>1, <3>1 DEF TrueInv, BeliefInv, Sending
      <4> QED
        BY <1>1, <4>1, <4>2
    <3>2. CASE ack = Packet("ACK", pkt.seq_num) /\ HasReceived(pkt.seq_num)'
      BY <1>1, <3>2 DEF Packet
    <3> QED
      BY <1>1, <2>1, <3>1, <3>2
  <2>2. FlagsAreTrue'
    <3>1. ASSUME NEW slot \in senderSlots, pcache'.is_acked[slot] = 1
          PROVE  HasReceived(pcache.buffer[slot])'
      <4>1. PICK n : n = pcache.buffer[slot]
        OBVIOUS
      <4>2. n \in Nat /\ HasReceived(n)
        BY <1>1, <3>1, <4>1, SenderTypes DEF TrueInv, BeliefInv, FlagsAreTrue
      <4>3. HasReceived(n)' /\ n = pcache'.buffer[slot]
        BY <1>1, <4>1, <4>2
      <4> QED
        BY <4>3 DEF HasReceived
    <3> QED
      BY <3>1 DEF FlagsAreTrue
  <2> QED
    BY <1>1, <2>1, <2>2 DEF TrueInv, BeliefInv
<1>5. CountedInv'
  <2>1. PICK C \in SUBSET (0..FileChunks - 1) : Counted(C)
    BY DEF TrueInv, CountedInv
  <2>2. ASSUME NEW n \in C
        PROVE  n \in Nat /\ HasReceived(n)'
    BY <1>1, <2>1, <2>2, SenderTypes DEF Counted
  <2>3. Counted(C)'
    BY <1>1, <2>1, <2>2 DEF Counted
  <2> QED
    BY <2>3 DEF CountedInv
<1> QED
  BY <1>3, <1>4, <1>5

LEMMA NextTrueInv == NoDupAck /\ TrueInv /\ [Next]_vars => TrueInv'
<1> SUFFICES ASSUME NoDupAck, TrueInv, [Next]_vars PROVE TrueInv'
  OBVIOUS
<1>1. IInv'
  BY NextIInv DEF TrueInv
<1>2. CASE SendMessageOpt
  BY <1>1, <1>2, SendNewTrue, PollAckTrue, QuietTrue DEF SendMessageOpt, TrueInv
<1>3. CASE UNCHANGED vars
  <2>1. UNCHANGED <<toReceiver, toSender, phase, timer, send_base, result, rphase,
                    nxt_seq_num, sent, pcache, expected, cache, file>>
    BY <1>3
    DEF vars, linkVars, connectionVars, senderVars, sendLoopVars, receiverVars
  <2>2. SetupInv'
    BY <2>1 DEF TrueInv, SetupInv, Sending
  <2>3. Sending' => \A ack \in toSender' : ack.seq_num < nxt_seq_num /\ HasReceived(ack.seq_num)
    BY <2>1 DEF TrueInv, BeliefInv, Sending
  <2> QED
    BY <1>1, <2>1, <2>2, <2>3, BeliefsUnchanged DEF TrueInv
<1> QED
  BY <1>1, <1>2, <1>3, SenderSessionTrue, ReceiverSessionTrue, ReceiveDataTrue, QuietTrue
  DEF Next, Finished, TrueInv

\* Without duplicated acknowledgements the sender's beliefs are true throughout.
THEOREM BeliefsAreTrue ==
    ASSUME NoDupAck
    PROVE  Spec => []TrueInv
<1>1. Init => TrueInv
  BY InitTrueInv
<1>2. TrueInv /\ [Next]_vars => TrueInv'
  BY NextTrueInv
<1> QED
  BY <1>1, <1>2, PTL DEF Spec

\* A set is_acked flag belongs to a packet that the receiver has written or
\* cached, also when flags are stale and send_base has run over them.
THEOREM FlagsHold ==
    ASSUME NoDupAck
    PROVE  Spec => []FlagsAreTrue
<1>1. TrueInv => FlagsAreTrue
  BY DEF TrueInv, BeliefInv
<1> QED
  BY <1>1, BeliefsAreTrue, PTL

\* The length of the file is not cut to 32 bits.
LengthFits == FileChunks < LenModulus

LEMMA UncutLength == LengthFits => msg_len = FileChunks
<1>1. ASSUME LengthFits PROVE FileChunks \in 0..LenModulus - 1
  BY <1>1, Sizes DEF LengthFits
<1> QED
  BY <1>1, Sizes, ModSmall DEF msg_len

\* When as many packets were counted as the message has, each was counted, and what
\* the receiver has of a whole message is not left in its cache.
LEMMA WholeMessage ==
    ASSUME LengthFits, TrueInv, sent >= msg_len
    PROVE  Len(file) >= msg_len
<1>1. /\ sent \in Nat /\ FileChunks \in Nat /\ expected \in Nat
      /\ expected = Len(file)
      /\ msg_len = FileChunks
  BY SenderTypes, UncutLength DEF TrueInv, IInv, WrittenInOrder
<1>2. PICK C \in SUBSET (0..FileChunks - 1) : Counted(C)
  BY DEF TrueInv, CountedInv
<1>3. /\ IsFiniteSet(0..FileChunks - 1)
      /\ Cardinality(0..FileChunks - 1) = FileChunks
  <2>1. 0 \in Int /\ FileChunks - 1 \in Int
    BY <1>1
  <2>2. /\ IsFiniteSet(0..FileChunks - 1)
        /\ Cardinality(0..FileChunks - 1)
             = IF 0 > FileChunks - 1 THEN 0 ELSE (FileChunks - 1) - 0 + 1
    BY <2>1, FS_Interval
  <2> QED
    BY <1>1, <2>2
<1>4. C = 0..FileChunks - 1
  <2>1. Cardinality(C) <= FileChunks /\ (Cardinality(C) = FileChunks => C = 0..FileChunks - 1)
    BY <1>2, <1>3, FS_Subset
  <2>2. Cardinality(C) = sent
    BY <1>2 DEF Counted
  <2> QED
    BY <1>1, <2>1, <2>2
<1>5. ASSUME expected < FileChunks PROVE FALSE
  <2>1. expected \in C
    BY <1>1, <1>4, <1>5
  <2>2. HasReceived(expected)
    BY <1>2, <2>1 DEF Counted
  <2>3. PICK slot \in receiverSlots : cache.valid[slot] = 1 /\ cache.buffer[slot] = expected
    BY <1>1, <2>2 DEF HasReceived
  <2>4. Ahead(cache, expected, slot)
    BY <2>3 DEF TrueInv, IInv, CacheInv
  <2> QED
    BY <1>1, <2>3, <2>4 DEF Ahead
<1> QED
  BY <1>1, <1>5

\* When sendMessageOpt returns 0 the whole message is in the receiver's file.
THEOREM SuccessIsDelivery ==
    ASSUME NoDupAck, LengthFits
    PROVE  Spec => []SuccessMeansDelivered
<1>1. TrueInv => SuccessMeansDelivered
  BY WholeMessage DEF SuccessMeansDelivered, TrueInv, IInv, PhaseInv
<1> QED
  BY <1>1, BeliefsAreTrue, PTL

-----------------------------------------------------------------------------
\* The session implements the abstract transfer.

\* The output of the refinement mapping holds the first chunks of the message.
LEMMA OutputContents ==
    ASSUME IInv
    PROVE  /\ outputLength \in Nat /\ outputLength <= msg_len
           /\ Abstract!Contents(outputLength) = [i \in 1..outputLength |-> file[i]]
<1>1. WrittenInOrder /\ file \in Seq(Nat) /\ msg_len \in Nat
  BY MsgLen DEF IInv, TypeOK, WindowTypeOK
<1>2. Len(file) \in Nat
  BY <1>1
<1>3. outputLength \in Nat /\ outputLength <= msg_len /\ outputLength <= Len(file)
  BY <1>1, <1>2 DEF outputLength
<1>4. \A i \in 1..outputLength : file[i] = i - 1
  BY <1>1, <1>2, <1>3 DEF WrittenInOrder
<1> QED
  BY <1>3, <1>4 DEF Abstract!Contents

LEMMA RefinementInit == Init => Abstract!TransferInit
<1> SUFFICES ASSUME Init PROVE Abstract!TransferInit
  OBVIOUS
<1>1. file = <<>> /\ result = "none" /\ rphase = "listen"
  BY DEF Init, ConnectionInit, WindowInit
<1>2. outputLength = 0
  BY <1>1, MsgLen DEF outputLength
<1> QED
  BY <1>1, <1>2 DEF Abstract!TransferInit, Abstract!Contents

\* What a step of the session may do to what the abstract transfer sees.
SenderReturns ==
    /\ UNCHANGED <<file, rphase, sent>>
    /\ result = "none"
    /\ result' \in {"ok", "failed", "refused"}

ReceiverMoves ==
    /\ UNCHANGED <<file, result>>
    /\ \/ rphase = "listen" /\ rphase' \in {"receive", "failed"}
       \/ rphase = "receive" /\ rphase' \in {"done", "failed"}

FileGrows ==
    /\ UNCHANGED <<result, rphase>>
    /\ rphase = "receive"
    /\ Len(file') >= Len(file)

LEMMA VisibleSteps ==
    ASSUME IInv, [Next]_vars
    PROVE  UNCHANGED <<file, result, rphase>> \/ SenderReturns \/ ReceiverMoves \/ FileGrows
<1>0. PhaseInv /\ WrittenInOrder /\ TypeOK
  BY DEF IInv
<1>1. CASE Session(ConnectionSender)
  <2>1. UNCHANGED <<file, sent>>
    BY <1>1 DEF Session, sendLoopVars, receiverVars
  <2>2. UNCHANGED rphase /\ (UNCHANGED result \/ (result' = "refused" /\ phase \in {"start", "connect"}))
    BY <1>1
    DEF Session, ConnectionSender, initSender, conn_reply, end_reply, conn_no_reply, end_no_reply, Refuse
  <2> QED
    BY <1>0, <2>1, <2>2 DEF SenderReturns, PhaseInv
<1>2. CASE Session(ConnectionReceiver)
  <2>1. UNCHANGED file
    BY <1>2 DEF Session, receiverVars
  <2>2. PICK pkt \in toReceiver : initReceiver(pkt) \/ ReceiveEnd(pkt) \/ ReceiveIgnored(pkt)
    BY <1>2 DEF Session, ConnectionReceiver
  <2>3. UNCHANGED result
    BY <2>2 DEF initReceiver, ReceiveEnd, ReceiveIgnored, connectionVars, senderVars
  <2> QED
    BY <2>1, <2>2, <2>3
    DEF initReceiver, ReceiveEnd, ReceiveIgnored, connectionVars, ReceiverMoves
<1>3. CASE Session(sigHandler) \/ Session(LoseDatagram /\ UNCHANGED connectionVars)
  BY <1>3 DEF Session, sigHandler, receiverVars, connectionVars, senderVars
<1>4. CASE SendMessageOpt
  <2>1. UNCHANGED <<file, rphase>>
    BY <1>4
    DEF SendMessageOpt, SendNew, SendDone, SendFails, PollAck, PollTimeout, PollNothing, receiverVars
  <2>2. \/ UNCHANGED result
        \/ result' \in {"ok", "failed"} /\ phase \in {"send", "poll"} /\ UNCHANGED sent
    BY <1>4
    DEF SendMessageOpt, SendNew, SendDone, SendFails, PollAck, PollTimeout, PollNothing,
        sendLoopVars
  <2> QED
    BY <1>0, <2>1, <2>2 DEF SenderReturns, PhaseInv
<1>5. CASE \E pkt \in toReceiver : ReceiveData(pkt)
  <2>1. PICK pkt \in toReceiver : ReceiveData(pkt)
    BY <1>5
  <2>2. /\ UNCHANGED result
        /\ rphase = "receive" /\ rphase' \in {"receive", "failed"}
        /\ UNCHANGED file \/ rphase' = "receive"
        /\ ReceiverInv' /\ expected' >= expected
    BY <2>1, ReceiveDataEffect
  <2>3. Len(file') >= Len(file)
    BY <1>0, <2>2 DEF ReceiverInv, WrittenInOrder
  <2> QED
    BY <2>2, <2>3 DEF FileGrows, ReceiverMoves
<1>6. CASE UNCHANGED vars
  BY <1>6 DEF vars, connectionVars, senderVars, receiverVars
<1> QED
  BY <1>1, <1>2, <1>3, <1>4, <1>5, <1>6 DEF Next, Finished

\* Every step of the session is a step of the abstract transfer, or none.
LEMMA RefinementNext ==
    ASSUME LengthFits, TrueInv, TrueInv', [Next]_vars
    PROVE  [Abstract!TransferNext]_(Abstract!transferVars)
<1> DEFINE out == [i \in 1..outputLength |-> file[i]]
           snd == IF result = "none" THEN "sending" ELSE result
<1>0. IInv /\ IInv'
  BY DEF TrueInv
<1>1. /\ msg_len \in Nat
      /\ outputLength \in Nat /\ outputLength <= msg_len
      /\ outputLength' \in Nat /\ outputLength' <= msg_len
  <2>1. file \in Seq(Nat) /\ file' \in Seq(Nat)
    BY <1>0 DEF IInv, TypeOK, WindowTypeOK
  <2> QED
    BY <2>1, MsgLen DEF outputLength, msg_len
<1>2. /\ out = Abstract!Contents(outputLength)
      /\ out' = Abstract!Contents(outputLength')
      /\ Len(out) = outputLength
  <2>1. out = Abstract!Contents(outputLength)
    BY <1>0, OutputContents
  <2>2. \A i \in 1..outputLength' : file'[i] = i - 1
    <3>1. /\ file' \in Seq(Nat) /\ \A i \in 1..Len(file') : file'[i] = i - 1
          /\ msg_len \in Nat
      BY <1>0, <1>1 DEF IInv, TypeOK, WindowTypeOK, WrittenInOrder
    <3>2. outputLength' <= Len(file')
      BY <3>1 DEF outputLength, msg_len
    <3> QED
      BY <1>1, <3>1, <3>2
  <2>3. out' = Abstract!Contents(outputLength')
    BY <2>2 DEF Abstract!Contents
  <2>4. Len(out) = outputLength
    BY <1>1
  <2> QED
    BY <2>1, <2>3, <2>4
<1> HIDE DEF out
<1>3. CASE UNCHANGED <<file, result, rphase>>
  BY <1>3 DEF Abstract!transferVars, outputLength, msg_len
<1>4. CASE SenderReturns
  <2>1. outputLength' = outputLength /\ out' = out
    BY <1>2, <1>4 DEF SenderReturns, outputLength, msg_len
  <2>2. result' = "ok" => outputLength = msg_len
    <3>1. result' = "ok" => sent >= msg_len
      BY <1>0, <1>4 DEF SenderReturns, IInv, PhaseInv, msg_len
    <3>2. result' = "ok" => Len(file) >= msg_len
      BY <3>1, WholeMessage
    <3>3. Len(file) \in Nat
      BY <1>0 DEF IInv, TypeOK, WindowTypeOK
    <3> QED
      BY <1>1, <3>2, <3>3 DEF outputLength
  <2>3. Abstract!SenderFinishes
    BY <1>2, <1>4, <2>1, <2>2 DEF SenderReturns, Abstract!SenderFinishes, out
  <2> QED
    BY <2>3 DEF Abstract!TransferNext
<1>5. CASE ReceiverMoves
  <2>1. out' = out
    BY <1>2, <1>5 DEF ReceiverMoves, outputLength, msg_len
  <2>2. rphase' = "done" => result # "none"
    BY <1>0, <1>5 DEF ReceiverMoves, IInv, PhaseInv
  <2>3. UNCHANGED <<out, snd>>
    BY <1>5, <2>1 DEF ReceiverMoves
  <2>4. CASE rphase = "listen" /\ rphase' \in {"receive", "failed"}
    BY <2>3, <2>4 DEF Abstract!TransferNext, Abstract!Accept, out
  <2>5. CASE rphase = "receive" /\ rphase' = "done"
    <3>1. result \in {"none", "ok", "failed", "refused"}
      BY <1>0 DEF IInv, TypeOK, ConnectionTypeOK
    <3>2. snd # "sending"
      BY <2>2, <2>5, <3>1
    <3> QED
      BY <2>3, <2>5, <3>2 DEF Abstract!TransferNext, Abstract!ReceiverFinishes, out
  <2>6. CASE rphase = "receive" /\ rphase' = "failed"
    BY <2>3, <2>6 DEF Abstract!TransferNext, Abstract!ReceiverFinishes, out
  <2> QED
    BY <1>5, <2>4, <2>5, <2>6 DEF ReceiverMoves
<1>6. CASE FileGrows
  <2>1. outputLength' >= outputLength
    <3>1. PICK before \in Nat, after \in Nat, length \in Nat :
             before = Len(file) /\ after = Len(file') /\ length = msg_len
      BY <1>0, <1>1 DEF IInv, TypeOK, WindowTypeOK
    <3>2. after >= before
      BY <1>6, <3>1 DEF FileGrows
    <3>3. /\ outputLength = (IF before < length THEN before ELSE length)
          /\ outputLength' = (IF after < length THEN after ELSE length)
      BY <3>1 DEF outputLength, msg_len
    <3> QED
      BY <3>2, <3>3
  <2>2. CASE outputLength' = outputLength
    <3>1. out' = out
      BY <1>2, <2>2
    <3> QED
      BY <1>6, <3>1 DEF FileGrows, Abstract!transferVars, out
  <2>3. CASE outputLength' > outputLength
    <3>1. outputLength' \in Len(out) + 1..msg_len
      BY <1>1, <1>2, <2>3
    <3>2. \E n \in Len(out) + 1..msg_len : out' = Abstract!Contents(n)
      BY <1>2, <3>1
    <3>3. Abstract!Deliver
      BY <1>6, <3>2 DEF FileGrows, Abstract!Deliver, out
    <3> QED
      BY <3>3 DEF Abstract!TransferNext
  <2> QED
    BY <1>1, <2>1, <2>2, <2>3
<1> QED
  BY <1>0, <1>3, <1>4, <1>5, <1>6, VisibleSteps

\* A whole session of the optimised protocol is an in-order transfer of the message:
\* nothing is written out of turn, 0 is returned to the sender only for a whole
\* message, and a receiver that returns 0 ends last.
THEOREM Refinement ==
    ASSUME NoDupAck, LengthFits
    PROVE  Spec => ImplementsTransfer
<1>1. Init => Abstract!TransferInit
  BY RefinementInit
<1>2. TrueInv /\ TrueInv' /\ [Next]_vars => [Abstract!TransferNext]_(Abstract!transferVars)
  BY RefinementNext
<1> QED
  BY <1>1, <1>2, BeliefsAreTrue, PTL DEF Spec, ImplementsTransfer, Abstract!TransferSpec
=============================================================================
