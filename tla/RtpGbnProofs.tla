---------------------------- MODULE RtpGbnProofs ----------------------------
(***************************************************************************)
(* Proofs about RtpGbn, for windows and messages of any size and for every *)
(* set of faults of the network.                                           *)
(*                                                                         *)
(* The argument: what is acknowledged is written and what is written was   *)
(* sent, so send_base <= expected <= nxt_seq_num <= send_base + window.    *)
(* Numbers less than a window apart have different slots, so both rings    *)
(* keep every packet where its number says (RingInv, CacheInv), and the    *)
(* run of valid slots after the expected one holds consecutive packets.    *)
(***************************************************************************)
EXTENDS RtpGbn, RtpWindowProofs

-----------------------------------------------------------------------------
\* The rings.

LEMMA SlotRange ==
    ASSUME NEW a \in Nat
    PROVE  Slot(a) \in senderSlots
BY Sizes, ModRange DEF Slot, senderSlots

LEMMA SlotAdd ==
    ASSUME NEW a \in Nat, NEW b \in Nat
    PROVE  Slot(Slot(a) + b) = Slot(a + b)
BY Sizes, ModAdd DEF Slot

LEMMA SlotInj ==
    ASSUME NEW a \in Nat, NEW b \in Nat, a < b, b < a + sender_window_size
    PROVE  Slot(a) # Slot(b)
BY Sizes, ModInj DEF Slot

LEMMA SlotZero == Slot(0) = 0 /\ RSlot(0) = 0
<1>1. 0 \in 0..sender_window_size - 1 /\ 0 \in 0..recver_window_size - 1
  BY Sizes
<1> QED
  BY <1>1, Sizes, ModSmall DEF Slot, RSlot

-----------------------------------------------------------------------------
\* The inductive invariant.

\* What is in flight was justified when it was sent.
LinkInv ==
    /\ \A pkt \in toSender : pkt.type = "ACK" /\ pkt.seq_num <= expected
    /\ \A pkt \in toReceiver :
        /\ pkt.type \in {"START", "DATA", "END"}
        /\ pkt.type = "START" => pkt.seq_num = 0
        /\ pkt.type = "DATA" => pkt.seq_num < nxt_seq_num
        /\ pkt.type = "END" => pkt.seq_num <= expected /\ result # "none"

\* The result is set when the sender leaves its loops, and the receiver ends later.
PhaseInv ==
    /\ result = "none" <=> phase \in {"start", "connect", "send", "poll"}
    /\ phase \in {"start", "connect"} => send_base = 0
    /\ rphase = "done" => result # "none"

CountInv ==
    /\ send_base <= expected
    /\ expected <= nxt_seq_num
    /\ nxt_seq_num <= send_base + sender_window_size
    /\ sent <= send_base
    /\ result = "ok" => sent >= msg_len

RingInv ==
    /\ pcache.p = Slot(send_base)
    /\ \A n \in send_base..nxt_seq_num - 1 : pcache.buffer[Slot(n)] = n

IInv ==
    /\ TypeOK
    /\ WrittenInOrder
    /\ LinkInv
    /\ PhaseInv
    /\ CountInv
    /\ RingInv
    /\ CacheInv

LEMMA InitIInv == Init => IInv
<1> SUFFICES ASSUME Init PROVE IInv
  OBVIOUS
<1> USE DEF Init, LinkInit, ConnectionInit, WindowInit, emptyCache
<1>1. TypeOK
  BY Sizes, MsgLen
  DEF TypeOK, ConnectionTypeOK, WindowTypeOK, senderSlots, receiverSlots, Packets
<1>2. WrittenInOrder
  BY DEF WrittenInOrder
<1>3. LinkInv /\ PhaseInv /\ CountInv
  BY Sizes DEF LinkInv, PhaseInv, CountInv
<1>4. RingInv /\ CacheInv
  BY SlotZero DEF RingInv, CacheInv, receiverSlots
<1> QED
  BY <1>1, <1>2, <1>3, <1>4 DEF IInv

-----------------------------------------------------------------------------
\* Every step preserves it.

\* The rings and the file are not touched by the session around the transfer.
LEMMA RingsUnchanged ==
    ASSUME IInv, UNCHANGED <<send_base, nxt_seq_num, pcache, expected, cache, file>>
    PROVE  (WrittenInOrder /\ RingInv /\ CacheInv)'
BY DEF IInv, WrittenInOrder, RingInv, CacheInv, Ahead

LEMMA ReceiverPart == IInv => ReceiverInv
BY DEF IInv, TypeOK, ReceiverInv

LEMMA SenderSessionStep ==
    ASSUME IInv, Session(ConnectionSender)
    PROVE  IInv'
<1> USE DEF IInv, Session, sendLoopVars, receiverVars
<1>1. TypeOK /\ LinkInv /\ PhaseInv /\ CountInv
  OBVIOUS
<1>2. CASE initSender
  <2>1. (LinkInv /\ PhaseInv /\ CountInv)'
    BY <1>1, <1>2
    DEF initSender, Refuse, Packet, LinkInv, PhaseInv, CountInv
  <2>2. TypeOK'
    BY <1>1, <1>2
    DEF initSender, Refuse, setTimer, Packet, Packets, PacketTypes, TypeOK, ConnectionTypeOK,
        WindowTypeOK
  <2>3. UNCHANGED <<send_base, nxt_seq_num, pcache, expected, cache, file>>
    BY <1>2 DEF initSender
  <2> QED
    BY <2>1, <2>2, <2>3, RingsUnchanged
<1>3. CASE \E pkt \in toSender : conn_reply(pkt)
  <2>1. PICK pkt \in toSender : conn_reply(pkt)
    BY <1>3
  <2>2. toSender' \subseteq toSender
    BY <2>1, Delivery DEF conn_reply
  <2>3. send_base' = send_base
    BY <1>1, <2>1 DEF conn_reply, PhaseInv
  <2>4. (LinkInv /\ PhaseInv /\ CountInv)'
    BY <1>1, <2>1, <2>2, <2>3
    DEF conn_reply, Refuse, SendEnd, Packet, LinkInv, PhaseInv, CountInv
  <2>5. TypeOK'
    BY <1>1, <2>1, <2>2, <2>3
    DEF conn_reply, Refuse, SendEnd, setTimer, resetTimer, Packet, Packets, PacketTypes,
        TypeOK, ConnectionTypeOK, WindowTypeOK
  <2> QED
    BY <2>1, <2>3, <2>4, <2>5, RingsUnchanged
<1>4. CASE \E pkt \in toSender : end_reply(pkt)
  <2>1. PICK pkt \in toSender : end_reply(pkt)
    BY <1>4
  <2>2. toSender' \subseteq toSender
    BY <2>1, Delivery DEF end_reply
  <2>3. (LinkInv /\ PhaseInv /\ CountInv)'
    BY <1>1, <2>1, <2>2
    DEF end_reply, LinkInv, PhaseInv, CountInv
  <2>4. TypeOK'
    BY <1>1, <2>1, <2>2
    DEF end_reply, resetTimer, TypeOK, ConnectionTypeOK, WindowTypeOK
  <2> QED
    BY <2>1, <2>3, <2>4, RingsUnchanged DEF end_reply
<1>5. CASE conn_no_reply
  <2>1. (LinkInv /\ PhaseInv /\ CountInv)'
    BY <1>1, <1>5
    DEF conn_no_reply, Refuse, SendEnd, Packet, LinkInv, PhaseInv, CountInv
  <2>2. TypeOK'
    BY <1>1, <1>5
    DEF conn_no_reply, Refuse, SendEnd, resetTimer, Packet, Packets, PacketTypes, TypeOK,
        ConnectionTypeOK, WindowTypeOK
  <2> QED
    BY <1>5, <2>1, <2>2, RingsUnchanged DEF conn_no_reply
<1>6. CASE end_no_reply
  <2>1. (LinkInv /\ PhaseInv /\ CountInv)'
    BY <1>1, <1>6 DEF end_no_reply, linkVars, LinkInv, PhaseInv, CountInv
  <2>2. TypeOK'
    BY <1>1, <1>6
    DEF end_no_reply, linkVars, resetTimer, TypeOK, ConnectionTypeOK, WindowTypeOK
  <2> QED
    BY <1>6, <2>1, <2>2, RingsUnchanged DEF end_no_reply
<1> QED
  BY <1>2, <1>3, <1>4, <1>5, <1>6 DEF ConnectionSender

LEMMA ReceiverSessionStep ==
    ASSUME IInv, Session(ConnectionReceiver)
    PROVE  IInv'
<1> USE DEF IInv, Session, sendLoopVars, receiverVars
<1>1. TypeOK /\ LinkInv /\ PhaseInv /\ CountInv
  OBVIOUS
<1>2. PICK pkt \in toReceiver : initReceiver(pkt) \/ ReceiveEnd(pkt) \/ ReceiveIgnored(pkt)
  BY DEF ConnectionReceiver
<1>3. toReceiver' \subseteq toReceiver
  BY <1>2, Delivery DEF initReceiver, ReceiveEnd, ReceiveIgnored
<1>4. pkt.seq_num \in Nat
  BY <1>1, <1>2 DEF TypeOK, Packets
<1>5. UNCHANGED senderVars
  BY <1>2 DEF initReceiver, ReceiveEnd, ReceiveIgnored, connectionVars
<1>6. \A ack \in toSender' : ack \in toSender \/ ack = Packet("ACK", pkt.seq_num)
  <2>1. CASE initReceiver(pkt)
    BY <2>1, Intact DEF initReceiver, SendAck
  <2>2. CASE ReceiveEnd(pkt) \/ ReceiveIgnored(pkt)
    BY <2>2 DEF ReceiveEnd, ReceiveIgnored, SendAck
  <2> QED
    BY <1>2, <2>1, <2>2
<1>7. \A ack \in toSender' : ack \in toSender \/ pkt.seq_num <= expected
  <2>1. CASE initReceiver(pkt)
    <3>1. toSender' = toSender \/ pkt.type = "START"
      BY <2>1, Intact DEF initReceiver
    <3> QED
      BY <1>1, <1>2, <3>1 DEF LinkInv, TypeOK, WindowTypeOK
  <2>2. CASE ReceiveEnd(pkt)
    BY <1>1, <1>2, <2>2 DEF ReceiveEnd, LinkInv
  <2>3. CASE ReceiveIgnored(pkt)
    BY <2>3 DEF ReceiveIgnored
  <2> QED
    BY <1>2, <2>1, <2>2, <2>3
<1>8. rphase' = "done" => result # "none"
  BY <1>1, <1>2
  DEF initReceiver, ReceiveEnd, ReceiveIgnored, connectionVars, LinkInv, PhaseInv
<1>9. LinkInv'
  BY <1>1, <1>3, <1>5, <1>6, <1>7 DEF senderVars, Packet, LinkInv
<1>10. (PhaseInv /\ CountInv)'
  BY <1>1, <1>5, <1>8 DEF senderVars, PhaseInv, CountInv
<1>11. rphase' \in {"listen", "receive", "done", "failed"}
  BY <1>1, <1>2
  DEF initReceiver, ReceiveEnd, ReceiveIgnored, connectionVars, TypeOK, ConnectionTypeOK
<1>12. TypeOK'
  BY <1>1, <1>3, <1>4, <1>5, <1>6, <1>11
  DEF senderVars, Packet, Packets, PacketTypes, TypeOK, ConnectionTypeOK, WindowTypeOK
<1> QED
  BY <1>5, <1>9, <1>10, <1>12, RingsUnchanged DEF senderVars

\* A new packet goes to a slot that no outstanding packet uses.
LEMMA SendNewStep ==
    ASSUME IInv, SendNew
    PROVE  IInv'
<1> USE DEF IInv
<1>1. TypeOK /\ LinkInv /\ PhaseInv /\ CountInv /\ RingInv
  OBVIOUS
<1>2. /\ UNCHANGED <<timer, send_base, result, rphase, toSender, sent, receiverVars>>
      /\ phase = "send" /\ phase' = "poll"
  BY DEF SendNew
<1>3. /\ send_base \in Nat /\ nxt_seq_num \in Nat /\ expected \in Nat
      /\ send_base <= nxt_seq_num
  BY <1>1 DEF TypeOK, ConnectionTypeOK, WindowTypeOK, CountInv
<1>4. CASE WindowOpen
  <2>1. /\ toReceiver' = toReceiver \cup {Packet("DATA", nxt_seq_num)}
        /\ nxt_seq_num' = nxt_seq_num + 1
        /\ pcache' = cachePkt(pcache, nxt_seq_num, send_base)
    BY <1>4 DEF SendNew
  <2>2. Slot(nxt_seq_num - send_base + pcache.p) = Slot(nxt_seq_num)
    <3>1. Slot(Slot(send_base) + (nxt_seq_num - send_base)) = Slot(send_base + (nxt_seq_num - send_base))
      BY <1>3, SlotRange, SlotAdd, SlotInj
    <3>2. Slot(send_base) \in Int
      BY <1>3, SlotRange, SlotAdd, SlotInj DEF senderSlots
    <3>3. /\ nxt_seq_num - send_base + Slot(send_base) = Slot(send_base) + (nxt_seq_num - send_base)
          /\ send_base + (nxt_seq_num - send_base) = nxt_seq_num
      BY <1>3, <3>2
    <3> QED
      BY <1>1, <3>1, <3>3 DEF RingInv
  <2>3. pcache' = [pcache EXCEPT !.buffer[Slot(nxt_seq_num)] = nxt_seq_num]
    BY <2>1, <2>2 DEF cachePkt
  <2>4. Slot(nxt_seq_num) \in senderSlots
    BY <1>3, SlotRange, SlotAdd, SlotInj
  <2>5. RingInv'
    <3>1. pcache'.p = Slot(send_base')
      BY <1>1, <1>2, <2>3 DEF RingInv, TypeOK
    <3>2. ASSUME NEW n \in send_base..nxt_seq_num
          PROVE  pcache'.buffer[Slot(n)] = n
      <4>1. n \in Nat /\ Slot(n) \in senderSlots
        BY <1>3, SlotRange, SlotAdd, SlotInj
      <4>2. CASE n = nxt_seq_num
        BY <1>1, <2>3, <2>4, <4>2 DEF TypeOK
      <4>3. CASE n < nxt_seq_num
        <5>1. Slot(n) # Slot(nxt_seq_num)
          BY <1>3, <1>4, <4>1, <4>3, Sizes, SlotRange, SlotAdd, SlotInj DEF WindowOpen
        <5> QED
          BY <1>1, <1>3, <2>3, <4>1, <4>3, <5>1 DEF RingInv, TypeOK
      <4> QED
        BY <1>3, <4>2, <4>3
    <3> QED
      BY <1>2, <1>3, <2>1, <3>1, <3>2 DEF RingInv
  <2>6. (LinkInv /\ PhaseInv /\ CountInv)'
    BY <1>1, <1>2, <1>3, <1>4, <2>1, Sizes
    DEF receiverVars, WindowOpen, Packet, LinkInv, PhaseInv, CountInv, TypeOK, Packets
  <2>7. TypeOK'
    <3>1. pcache' \in [p : senderSlots, buffer : [senderSlots -> Nat]]
      BY <1>1, <1>3, <2>3, <2>4 DEF TypeOK
    <3>2. toReceiver' \subseteq Packets
      BY <1>1, <1>3, <2>1 DEF Packet, Packets, PacketTypes, TypeOK
    <3> QED
      BY <1>1, <1>2, <1>3, <2>1, <3>1, <3>2
      DEF receiverVars, TypeOK, ConnectionTypeOK, WindowTypeOK
  <2>8. (WrittenInOrder /\ CacheInv)'
    BY <1>2, <1>3, <2>1
    DEF receiverVars, WrittenInOrder, CacheInv, Ahead, TypeOK, WindowTypeOK
  <2> QED
    BY <2>5, <2>6, <2>7, <2>8
<1>5. CASE ~WindowOpen
  <2>1. UNCHANGED <<toReceiver, nxt_seq_num, pcache>>
    BY <1>5 DEF SendNew
  <2>2. (LinkInv /\ PhaseInv /\ CountInv)'
    BY <1>1, <1>2, <2>1 DEF receiverVars, LinkInv, PhaseInv, CountInv
  <2>3. TypeOK'
    BY <1>1, <1>2, <2>1 DEF receiverVars, TypeOK, ConnectionTypeOK, WindowTypeOK
  <2> QED
    BY <1>2, <2>1, <2>2, <2>3, RingsUnchanged DEF receiverVars
<1> QED
  BY <1>4, <1>5

\* An acknowledgement moves the window by as many slots as packets.
LEMMA PollAckStep ==
    ASSUME IInv, NEW pkt \in toSender, PollAck(pkt)
    PROVE  IInv'
<1> USE DEF IInv
<1>1. TypeOK /\ LinkInv /\ PhaseInv /\ CountInv /\ RingInv
  OBVIOUS
<1>2. /\ UNCHANGED <<result, rphase, toReceiver, nxt_seq_num, receiverVars>>
      /\ phase = "poll" /\ phase' = "send"
      /\ toSender' \subseteq toSender
  BY Delivery DEF PollAck
<1>3. /\ send_base \in Nat /\ nxt_seq_num \in Nat /\ expected \in Nat /\ sent \in Nat
      /\ send_base <= expected /\ expected <= nxt_seq_num /\ sent <= msg_len
      /\ pkt.seq_num \in Nat /\ pkt.seq_num <= expected
  BY <1>1 DEF TypeOK, Packets, ConnectionTypeOK, WindowTypeOK, CountInv, LinkInv
<1>4. \/ UNCHANGED <<send_base, pcache, sent, timer>>
      \/ /\ pkt.seq_num > send_base
         /\ send_base' = pkt.seq_num
         /\ pcache' = [pcache EXCEPT !.p = Slot(@ + (pkt.seq_num - send_base))]
         /\ sent' = ChunksAcked(pkt.seq_num - send_base)
         /\ timer' = "armed"
  BY Intact DEF PollAck, setTimer
<1>5. CASE UNCHANGED <<send_base, pcache, sent, timer>>
  <2>1. (LinkInv /\ PhaseInv /\ CountInv)'
    BY <1>1, <1>2, <1>5 DEF receiverVars, LinkInv, PhaseInv, CountInv
  <2>2. TypeOK'
    BY <1>1, <1>2, <1>5 DEF receiverVars, TypeOK, ConnectionTypeOK, WindowTypeOK
  <2> QED
    BY <1>2, <1>5, <2>1, <2>2, RingsUnchanged DEF receiverVars
<1>6. ASSUME pkt.seq_num > send_base,
             send_base' = pkt.seq_num,
             pcache' = [pcache EXCEPT !.p = Slot(@ + (pkt.seq_num - send_base))],
             sent' = ChunksAcked(pkt.seq_num - send_base),
             timer' = "armed"
      PROVE  IInv'
  <2>1. /\ Slot(pcache.p + (pkt.seq_num - send_base)) = Slot(pkt.seq_num)
        /\ Slot(pkt.seq_num) \in senderSlots
    <3>1. /\ pkt.seq_num - send_base \in Nat
          /\ send_base + (pkt.seq_num - send_base) = pkt.seq_num
      BY <1>3, <1>6
    <3>2. Slot(Slot(send_base) + (pkt.seq_num - send_base))
            = Slot(send_base + (pkt.seq_num - send_base))
      BY <1>3, <3>1, SlotRange, SlotAdd, SlotInj
    <3> QED
      BY <1>1, <1>3, <3>1, <3>2, SlotRange, SlotAdd, SlotInj DEF RingInv
  <2>2. pcache' = [pcache EXCEPT !.p = Slot(pkt.seq_num)]
    BY <1>6, <2>1
  <2>3. /\ sent' \in Nat /\ sent' <= msg_len /\ sent' <= send_base'
        /\ sent' >= sent
    BY <1>1, <1>3, <1>6, MsgLen DEF ChunksAcked, CountInv
  <2>4. RingInv'
    BY <1>1, <1>2, <1>3, <1>6, <2>2 DEF RingInv, TypeOK
  <2>5. (LinkInv /\ PhaseInv /\ CountInv)'
    BY <1>1, <1>2, <1>3, <1>6, <2>3, Sizes, MsgLen
    DEF receiverVars, LinkInv, PhaseInv, CountInv
  <2>6. TypeOK'
    BY <1>1, <1>2, <1>3, <1>6, <2>1, <2>2, <2>3
    DEF receiverVars, TypeOK, ConnectionTypeOK, WindowTypeOK
  <2>7. (WrittenInOrder /\ CacheInv)'
    BY <1>2 DEF receiverVars, WrittenInOrder, CacheInv, Ahead
  <2> QED
    BY <2>4, <2>5, <2>6, <2>7
<1> QED
  BY <1>4, <1>5, <1>6

\* The retransmission visits exactly the packets sent and not acknowledged.
LEMMA OutstandingIsWindow ==
    ASSUME IInv
    PROVE  Outstanding = send_base..nxt_seq_num - 1
<1> USE DEF IInv
<1>1. TypeOK /\ CountInv /\ RingInv
  OBVIOUS
<1>2. send_base \in Nat /\ nxt_seq_num \in Nat
  BY <1>1 DEF TypeOK, ConnectionTypeOK, WindowTypeOK
<1>3. ASSUME NEW i \in 0..nxt_seq_num - send_base - 1
      PROVE  pcache.buffer[Slot(pcache.p + i)] = send_base + i
  <2>1. i \in Nat /\ send_base + i \in send_base..nxt_seq_num - 1
    BY <1>2
  <2>2. Slot(pcache.p + i) = Slot(send_base + i)
    BY <1>1, <1>2, <2>1, SlotRange, SlotAdd, SlotInj DEF RingInv
  <2> QED
    BY <1>1, <2>1, <2>2 DEF RingInv
<1>4. ASSUME NEW n \in send_base..nxt_seq_num - 1
      PROVE  n \in Outstanding
  <2>1. n - send_base \in 0..nxt_seq_num - send_base - 1 /\ send_base + (n - send_base) = n
    BY <1>2
  <2>2. pcache.buffer[Slot(pcache.p + (n - send_base))] = n
    BY <1>3, <2>1
  <2> QED
    BY <2>1, <2>2 DEF Outstanding
<1>5. ASSUME NEW n \in Outstanding
      PROVE  n \in send_base..nxt_seq_num - 1
  <2>1. PICK i \in 0..nxt_seq_num - send_base - 1 : n = pcache.buffer[Slot(pcache.p + i)]
    BY DEF Outstanding
  <2> QED
    BY <1>2, <1>3, <2>1
<1> QED
  BY <1>4, <1>5

\* Leaving the loop sends END, with everything acknowledged written, after part
\* of a retransmission perhaps.
LEMMA SendEndsStep ==
    ASSUME IInv, SendDone \/ SendFails
    PROVE  IInv'
<1> USE DEF IInv
<1>1. TypeOK /\ LinkInv /\ PhaseInv /\ CountInv
  OBVIOUS
<1>2. /\ UNCHANGED <<send_base, rphase, toSender, sendLoopVars, receiverVars>>
      /\ phase' \in {"end", "closed", "returned"}
      /\ timer' \in {"armed", "off"}
      /\ result' \in {"ok", "failed"}
      /\ result' = "ok" => sent >= msg_len
  BY DEF SendDone, SendFails, terminateSender, setTimer, resetTimer
<1>3. PICK seqs \in SUBSET Resent :
        toReceiver' = toReceiver \cup DataPackets(seqs) \cup {Packet("END", send_base)}
  <2>1. DataPackets({}) = {}
    BY DEF DataPackets
  <2> QED
    BY <2>1 DEF SendDone, SendFails, terminateSender
<1>4. \A p \in toReceiver' :
        \/ p \in toReceiver
        \/ p.type = "DATA" /\ p.seq_num \in Nat /\ p.seq_num < nxt_seq_num /\ p \in Packets
        \/ p = Packet("END", send_base)
  <2>1. \A seq \in seqs : seq \in Nat /\ seq < nxt_seq_num
    BY <1>1, OutstandingIsWindow DEF Resent, TypeOK, ConnectionTypeOK, WindowTypeOK
  <2> QED
    BY <1>3, <2>1 DEF DataPackets, Packet, Packets, PacketTypes
<1>5. (LinkInv /\ PhaseInv /\ CountInv)'
  BY <1>1, <1>2, <1>4 DEF sendLoopVars, receiverVars, Packet, LinkInv, PhaseInv, CountInv
<1>6. TypeOK'
  BY <1>1, <1>2, <1>4
  DEF sendLoopVars, receiverVars, Packet, Packets, PacketTypes, TypeOK, ConnectionTypeOK,
      WindowTypeOK
<1> QED
  BY <1>2, <1>5, <1>6, RingsUnchanged DEF sendLoopVars, receiverVars

LEMMA PollTimeoutStep ==
    ASSUME IInv, PollTimeout
    PROVE  IInv'
<1> USE DEF IInv
<1>1. TypeOK /\ LinkInv /\ PhaseInv /\ CountInv
  OBVIOUS
<1>2. /\ UNCHANGED <<timer, send_base, result, rphase, toSender, sendLoopVars, receiverVars>>
      /\ phase = "poll" /\ phase' = "send"
  BY DEF PollTimeout
<1>3. /\ toReceiver' = toReceiver \cup DataPackets(Resent)
      /\ Resent \subseteq {n \in Nat : n < nxt_seq_num}
  <2>1. send_base \in Nat /\ nxt_seq_num \in Nat
    BY <1>1 DEF TypeOK, ConnectionTypeOK, WindowTypeOK
  <2> QED
    BY <2>1, OutstandingIsWindow DEF PollTimeout, Resent
<1>4. \A pkt \in toReceiver' :
        \/ pkt \in toReceiver
        \/ pkt \in Packets /\ pkt.type = "DATA" /\ pkt.seq_num < nxt_seq_num
  BY <1>3 DEF DataPackets, Packet, Packets, PacketTypes
<1>5. (LinkInv /\ PhaseInv /\ CountInv)'
  BY <1>1, <1>2, <1>4 DEF sendLoopVars, receiverVars, LinkInv, PhaseInv, CountInv
<1>6. TypeOK'
  BY <1>1, <1>2, <1>4
  DEF sendLoopVars, receiverVars, TypeOK, ConnectionTypeOK, WindowTypeOK
<1> QED
  BY <1>2, <1>5, <1>6, RingsUnchanged DEF sendLoopVars, receiverVars

\* An idle poll, the alarm and a lost datagram change nothing that matters.
LEMMA IdleStep ==
    ASSUME IInv, PollNothing \/ Session(sigHandler) \/ Session(LoseDatagram /\ UNCHANGED connectionVars)
    PROVE  IInv'
<1> USE DEF IInv
<1>1. TypeOK /\ LinkInv /\ PhaseInv /\ CountInv
  OBVIOUS
<1>2. /\ UNCHANGED <<send_base, result, rphase, sendLoopVars, receiverVars>>
      /\ toReceiver' \subseteq toReceiver
      /\ toSender' \subseteq toSender
      /\ phase' = phase \/ (phase = "poll" /\ phase' = "send")
      /\ timer' \in {timer, "fired"}
  <2>1. CASE PollNothing
    BY <2>1 DEF PollNothing, linkVars
  <2>2. CASE Session(sigHandler)
    BY <2>2 DEF Session, sigHandler, linkVars
  <2>3. CASE Session(LoseDatagram /\ UNCHANGED connectionVars)
    BY <2>3 DEF Session, LoseDatagram, connectionVars, senderVars
  <2> QED
    BY <2>1, <2>2, <2>3
<1>3. (LinkInv /\ PhaseInv /\ CountInv)'
  BY <1>1, <1>2 DEF sendLoopVars, receiverVars, LinkInv, PhaseInv, CountInv
<1>4. TypeOK'
  BY <1>1, <1>2 DEF sendLoopVars, receiverVars, TypeOK, ConnectionTypeOK, WindowTypeOK
<1> QED
  BY <1>2, <1>3, <1>4, RingsUnchanged DEF sendLoopVars, receiverVars

LEMMA ReceiveDataStep ==
    ASSUME IInv, NEW pkt \in toReceiver, ReceiveData(pkt)
    PROVE  IInv'
<1> USE DEF IInv
<1>1. TypeOK /\ LinkInv /\ PhaseInv /\ CountInv
  OBVIOUS
<1>2. /\ UNCHANGED senderVars /\ UNCHANGED rphase /\ UNCHANGED sendLoopVars
      /\ toReceiver' \subseteq toReceiver
      /\ pkt.type = "DATA"
  BY Delivery DEF ReceiveData
<1>3. /\ pkt.seq_num \in Nat /\ pkt.seq_num < nxt_seq_num
      /\ expected \in Nat /\ send_base \in Nat /\ nxt_seq_num \in Nat
  BY <1>1, <1>2 DEF TypeOK, Packets, ConnectionTypeOK, WindowTypeOK, LinkInv
\* The three branches agree on what the invariant needs of them.
<1>4. /\ expected' \in Nat /\ expected' >= expected /\ expected' <= nxt_seq_num
      /\ file' \in Seq(Nat)
      /\ WrittenInOrder'
      /\ cache' \in [p : receiverSlots,
                     buffer : [receiverSlots -> Nat],
                     valid : [receiverSlots -> {0, 1}]]
      /\ CacheInv'
      /\ \A ack \in toSender' : ack \in toSender \/ ack = Packet("ACK", expected')
  <2>1. CASE ReceiveAhead(pkt.seq_num)
    <3>1. CacheAhead(pkt.seq_num)
      BY <2>1 DEF ReceiveAhead
    <3>2. UNCHANGED <<expected, file, nxt_seq_num>>
      BY <1>2, <3>1 DEF CacheAhead, sendLoopVars
    <3>3. CacheInv'
      BY <1>3, <3>1, <3>2, ReceiverPart, CacheAheadStep DEF CacheInv, Ahead
    <3>4. WrittenInOrder'
      BY <3>2 DEF WrittenInOrder
    <3>5. \A ack \in toSender' : ack \in toSender \/ ack = Packet("ACK", expected')
      BY <2>1, <3>2 DEF ReceiveAhead, SendAck
    <3>6. cache' \in [p : receiverSlots,
                      buffer : [receiverSlots -> Nat],
                      valid : [receiverSlots -> {0, 1}]]
      BY <1>3, <3>1, ReceiverPart, CacheAheadStep
    <3> QED
      BY <1>1, <3>2, <3>3, <3>4, <3>5, <3>6 DEF TypeOK, WindowTypeOK, CountInv
  <2>2. CASE ReceiveExpected(pkt.seq_num)
    <3>1. WriteExpected(pkt.seq_num)
      BY <2>2 DEF ReceiveExpected
    <3>2. nxt_seq_num' = nxt_seq_num
      BY <1>2 DEF sendLoopVars
    <3>3. CacheInv' /\ WrittenInOrder'
      BY <1>3, <3>1, <3>2, ReceiverPart, WriteExpectedStep DEF CacheInv, WrittenInOrder, Ahead
    <3>4. \A ack \in toSender' : ack \in toSender \/ ack = Packet("ACK", expected')
      BY <2>2 DEF ReceiveExpected, SendAck
    <3>5. /\ expected' \in Nat /\ expected' > expected /\ expected' <= nxt_seq_num
          /\ file' \in Seq(Nat)
          /\ cache' \in [p : receiverSlots,
                         buffer : [receiverSlots -> Nat],
                         valid : [receiverSlots -> {0, 1}]]
      BY <1>3, <3>1, ReceiverPart, WriteExpectedStep
    <3> QED
      BY <1>3, <3>3, <3>4, <3>5
  <2>3. CASE ReceiveOutside(pkt.seq_num)
    <3>1. UNCHANGED <<toSender, expected, cache, file, nxt_seq_num>>
      BY <1>2, <2>3 DEF ReceiveOutside, receiverVars, sendLoopVars
    <3>2. WrittenInOrder' /\ CacheInv'
      BY <3>1 DEF WrittenInOrder, CacheInv, Ahead
    <3> QED
      BY <1>1, <1>3, <3>1, <3>2 DEF TypeOK, WindowTypeOK, CountInv
  <2> QED
    BY <2>1, <2>2, <2>3 DEF ReceiveData
<1>5. RingInv'
  BY <1>2 DEF senderVars, sendLoopVars, RingInv
<1>6. (LinkInv /\ PhaseInv /\ CountInv)'
  <2>1. CountInv'
    BY <1>1, <1>2, <1>3, <1>4 DEF senderVars, sendLoopVars, CountInv
  <2>2. PhaseInv'
    BY <1>1, <1>2 DEF senderVars, PhaseInv
  <2>3. \A ack \in toSender' : ack.type = "ACK" /\ ack.seq_num <= expected'
    <3>1. ASSUME NEW ack \in toSender
          PROVE  ack.type = "ACK" /\ ack.seq_num <= expected'
      BY <1>1, <1>3, <1>4 DEF LinkInv, TypeOK, Packets
    <3> QED
      BY <1>4, <3>1 DEF Packet
  <2>4. ASSUME NEW p \in toReceiver'
        PROVE  /\ p.type \in {"START", "DATA", "END"}
               /\ p.type = "START" => p.seq_num = 0
               /\ p.type = "DATA" => p.seq_num < nxt_seq_num'
               /\ p.type = "END" => p.seq_num <= expected' /\ result' # "none"
    <3>1. p \in toReceiver /\ p.seq_num \in Nat
      BY <1>1, <1>2, <2>4 DEF TypeOK, Packets
    <3> QED
      BY <1>1, <1>2, <1>3, <1>4, <3>1 DEF senderVars, sendLoopVars, LinkInv
  <2> QED
    BY <2>1, <2>2, <2>3, <2>4 DEF LinkInv
<1>7. TypeOK'
  <2>1. toReceiver' \subseteq Packets /\ toSender' \subseteq Packets
    BY <1>1, <1>2, <1>4 DEF TypeOK, Packet, Packets, PacketTypes
  <2> QED
    BY <1>1, <1>2, <1>4, <2>1
    DEF senderVars, sendLoopVars, TypeOK, ConnectionTypeOK, WindowTypeOK
<1> QED
  BY <1>4, <1>5, <1>6, <1>7

LEMMA NextIInv == IInv /\ [Next]_vars => IInv'
<1> SUFFICES ASSUME IInv, [Next]_vars PROVE IInv'
  OBVIOUS
<1>1. CASE Session(ConnectionSender)
  BY <1>1, SenderSessionStep
<1>2. CASE Session(ConnectionReceiver)
  BY <1>2, ReceiverSessionStep
<1>3. CASE Session(sigHandler)
  BY <1>3, IdleStep
<1>4. CASE SendMessage
  BY <1>4, SendNewStep, SendEndsStep, PollAckStep, PollTimeoutStep, IdleStep DEF SendMessage
<1>5. CASE \E pkt \in toReceiver : ReceiveData(pkt)
  BY <1>5, ReceiveDataStep
<1>6. CASE Session(LoseDatagram /\ UNCHANGED connectionVars)
  BY <1>6, IdleStep
<1>7. CASE UNCHANGED vars
  <2>1. UNCHANGED <<toReceiver, toSender, phase, timer, send_base, result, rphase,
                    nxt_seq_num, sent, pcache, expected, cache, file>>
    BY <1>7
    DEF vars, linkVars, connectionVars, senderVars, sendLoopVars, receiverVars
  <2>2. (TypeOK /\ LinkInv /\ PhaseInv /\ CountInv)'
    BY <2>1
    DEF IInv, TypeOK, ConnectionTypeOK, WindowTypeOK, LinkInv, PhaseInv, CountInv
  <2> QED
    BY <2>1, <2>2, RingsUnchanged DEF IInv
<1> QED
  BY <1>1, <1>2, <1>3, <1>4, <1>5, <1>6, <1>7 DEF Next, Finished

\* The invariant holds in every reachable state.
THEOREM Invariance == Spec => []IInv
<1>1. Init => IInv
  BY InitIInv
<1>2. IInv /\ [Next]_vars => IInv'
  BY NextIInv
<1> QED
  BY <1>1, <1>2, PTL DEF Spec

-----------------------------------------------------------------------------
\* What it says about the protocol.

\* Type correctness: sent, too, never exceeds msg_len, so the loop of
\* sendMessage ends on equality.
THEOREM TypeCorrect == Spec => []TypeOK
<1>1. IInv => TypeOK
  BY DEF IInv
<1> QED
  BY <1>1, Invariance, PTL

\* The output file is a prefix of the input: recvMessage writes packet after
\* packet, without gap and repetition, whatever the network loses, repeats,
\* damages or overtakes.
THEOREM OutputIsPrefix == Spec => []WrittenInOrder
<1>1. IInv => WrittenInOrder
  BY DEF IInv
<1> QED
  BY <1>1, Invariance, PTL

\* A cumulative acknowledgement is never ahead of the file.
THEOREM AcksAreSafe == Spec => []AckedIsWritten
<1>1. IInv => AckedIsWritten
  BY DEF IInv, LinkInv, CountInv, AckedIsWritten
<1> QED
  BY <1>1, Invariance, PTL

\* When sendMessage returns 0 the whole message is in the receiver's file.
THEOREM SuccessIsDelivery == Spec => []SuccessMeansDelivered
<1>1. IInv => SuccessMeansDelivered
  <2> SUFFICES ASSUME IInv, result = "ok" PROVE Len(file) >= msg_len
    BY DEF SuccessMeansDelivered
  <2>1. sent >= msg_len /\ sent <= send_base /\ send_base <= expected /\ expected = Len(file)
    BY DEF IInv, CountInv, WrittenInOrder
  <2>2. sent \in Nat /\ send_base \in Nat /\ expected \in Nat
    BY DEF IInv, TypeOK, ConnectionTypeOK, WindowTypeOK
  <2> QED
    BY <2>1, <2>2, MsgLen
<1> QED
  BY <1>1, Invariance, PTL

\* The receiver's return value 0 means that the sender had left its loop.
THEOREM EndComesLast == Spec => []EndIsLast
<1>1. IInv => EndIsLast
  BY DEF IInv, PhaseInv, EndIsLast, Sending
<1> QED
  BY <1>1, Invariance, PTL

\* A timeout of sendMessage resends the packets of the window and no other.
THEOREM RetransmissionIsWindow == Spec => []TimeoutResendsWindow
<1>1. IInv => TimeoutResendsWindow
  BY OutstandingIsWindow DEF TimeoutResendsWindow
<1> QED
  BY <1>1, Invariance, PTL

\* The receiver's valid slots lie where the run after a gap is looked for.
THEOREM CacheStaysInWindow == Spec => []CacheInWindow
<1>1. IInv => CacheInWindow
  <2> SUFFICES ASSUME IInv, NEW slot \in receiverSlots, cache.valid[slot] = 1
               PROVE  \E d \in 1..recver_window_size - 1 :
                        cache.buffer[slot] = expected + d /\ slot = RSlot(cache.p + d)
    BY DEF CacheInWindow
  <2> DEFINE d == cache.buffer[slot] - expected
  <2>1. expected \in Nat /\ cache.buffer[slot] \in Nat /\ recver_window_size \in Nat
    BY Sizes DEF IInv, TypeOK, WindowTypeOK
  <2>2. cache.p = RSlot(expected) /\ Ahead(cache, expected, slot)
    BY DEF IInv, CacheInv
  <2>3. d \in 1..recver_window_size - 1 /\ d \in Nat /\ cache.buffer[slot] = expected + d
    BY <2>1, <2>2 DEF Ahead
  <2> HIDE DEF d
  <2>4. RSlot(cache.p + d) = RSlot(expected + d)
    BY <2>1, <2>2, <2>3, RSlotAdd
  <2>5. slot = RSlot(cache.p + d)
    BY <2>2, <2>3, <2>4 DEF Ahead
  <2> QED
    BY <2>3, <2>5
<1> QED
  BY <1>1, Invariance, PTL

-----------------------------------------------------------------------------
\* The session implements the abstract transfer.

\* The output of the refinement mapping holds the first chunks of the message.
LEMMA OutputContents ==
    ASSUME IInv
    PROVE  /\ outputLength \in Nat /\ outputLength <= msg_len
           /\ Abstract!Contents(outputLength) = [i \in 1..outputLength |-> file[i]]
<1>1. WrittenInOrder /\ file \in Seq(Nat) /\ msg_len \in Nat
  BY MsgLen DEF IInv, TypeOK, WindowTypeOK
<1>2. Len(file) \in Nat
  BY <1>1
<1>3. outputLength \in Nat /\ outputLength <= msg_len /\ outputLength <= Len(file)
  BY <1>1, <1>2 DEF outputLength
<1>4. \A i \in 1..outputLength : file[i] = i - 1
  BY <1>1, <1>2, <1>3 DEF WrittenInOrder
<1> QED
  BY <1>3, <1>4 DEF Abstract!Contents

LEMMA RefinementInit == Init => Abstract!TransferInit
<1> SUFFICES ASSUME Init PROVE Abstract!TransferInit
  OBVIOUS
<1>1. file = <<>> /\ result = "none" /\ rphase = "listen"
  BY DEF Init, ConnectionInit, WindowInit
<1>2. outputLength = 0
  BY <1>1, MsgLen DEF outputLength
<1> QED
  BY <1>1, <1>2 DEF Abstract!TransferInit, Abstract!Contents

\* What a step of the session may do to what the abstract transfer sees.
SenderReturns ==
    /\ UNCHANGED <<file, rphase>>
    /\ result = "none"
    /\ result' \in {"ok", "failed", "refused"}

ReceiverMoves ==
    /\ UNCHANGED <<file, result>>
    /\ \/ rphase = "listen" /\ rphase' \in {"receive", "failed"}
       \/ rphase = "receive" /\ rphase' = "done"

FileGrows ==
    /\ UNCHANGED <<result, rphase>>
    /\ rphase = "receive"
    /\ Len(file') >= Len(file)

LEMMA VisibleSteps ==
    ASSUME IInv, [Next]_vars
    PROVE  UNCHANGED <<file, result, rphase>> \/ SenderReturns \/ ReceiverMoves \/ FileGrows
<1>0. PhaseInv /\ WrittenInOrder /\ TypeOK
  BY DEF IInv
<1>1. CASE Session(ConnectionSender)
  <2>1. UNCHANGED file
    BY <1>1 DEF Session, receiverVars
  <2>2. UNCHANGED rphase /\ (UNCHANGED result \/ (result' = "refused" /\ phase \in {"start", "connect"}))
    BY <1>1
    DEF Session, ConnectionSender, initSender, conn_reply, end_reply, conn_no_reply, end_no_reply, Refuse
  <2> QED
    BY <1>0, <2>1, <2>2 DEF SenderReturns, PhaseInv
<1>2. CASE Session(ConnectionReceiver)
  <2>1. UNCHANGED file
    BY <1>2 DEF Session, receiverVars
  <2>2. PICK pkt \in toReceiver : initReceiver(pkt) \/ ReceiveEnd(pkt) \/ ReceiveIgnored(pkt)
    BY <1>2 DEF Session, ConnectionReceiver
  <2>3. UNCHANGED result
    BY <2>2 DEF initReceiver, ReceiveEnd, ReceiveIgnored, connectionVars, senderVars
  <2> QED
    BY <2>1, <2>2, <2>3
    DEF initReceiver, ReceiveEnd, ReceiveIgnored, connectionVars, ReceiverMoves
<1>3. CASE Session(sigHandler) \/ Session(LoseDatagram /\ UNCHANGED connectionVars)
  BY <1>3 DEF Session, sigHandler, receiverVars, connectionVars, senderVars
<1>4. CASE SendMessage
  <2>1. UNCHANGED <<file, rphase>>
    BY <1>4
    DEF SendMessage, SendNew, SendDone, SendFails, PollAck, PollTimeout, PollNothing, receiverVars
  <2>2. UNCHANGED result \/ (result' \in {"ok", "failed"} /\ phase \in {"send", "poll"})
    BY <1>4
    DEF SendMessage, SendNew, SendDone, SendFails, PollAck, PollTimeout, PollNothing
  <2> QED
    BY <1>0, <2>1, <2>2 DEF SenderReturns, PhaseInv
<1>5. CASE \E pkt \in toReceiver : ReceiveData(pkt)
  <2>1. IInv'
    BY NextIInv
  <2>2. PICK pkt \in toReceiver : ReceiveData(pkt)
    BY <1>5
  <2>3. rphase = "receive" /\ UNCHANGED <<result, rphase>>
    BY <2>2 DEF ReceiveData, senderVars
  <2>4. expected' >= expected
    <3>1. pkt.seq_num \in Nat /\ pkt.seq_num < nxt_seq_num
      BY <2>2 DEF ReceiveData, IInv, TypeOK, Packets, LinkInv
    <3>2. CASE ReceiveAhead(pkt.seq_num) \/ ReceiveOutside(pkt.seq_num)
      BY <1>0, <3>2
      DEF ReceiveAhead, CacheAhead, ReceiveOutside, receiverVars, TypeOK, WindowTypeOK
    <3>3. CASE ReceiveExpected(pkt.seq_num)
      <4>1. expected' > expected /\ expected' \in Nat
        BY <3>1, <3>3, ReceiverPart, WriteExpectedStep DEF ReceiveExpected
      <4> QED
        BY <1>0, <4>1 DEF TypeOK, WindowTypeOK
    <3> QED
      BY <2>2, <3>2, <3>3 DEF ReceiveData
  <2> QED
    BY <1>0, <2>1, <2>3, <2>4 DEF FileGrows, IInv, WrittenInOrder
<1>6. CASE UNCHANGED vars
  BY <1>6 DEF vars, connectionVars, senderVars, receiverVars
<1> QED
  BY <1>1, <1>2, <1>3, <1>4, <1>5, <1>6 DEF Next, Finished

\* Every step of the session is a step of the abstract transfer, or none.
LEMMA RefinementNext ==
    ASSUME IInv, IInv', [Next]_vars
    PROVE  [Abstract!TransferNext]_(Abstract!transferVars)
<1> DEFINE out == [i \in 1..outputLength |-> file[i]]
           snd == IF result = "none" THEN "sending" ELSE result
<1>1. /\ msg_len \in Nat
      /\ outputLength \in Nat /\ outputLength <= msg_len
      /\ outputLength' \in Nat /\ outputLength' <= msg_len
  <2>1. file \in Seq(Nat) /\ file' \in Seq(Nat)
    BY DEF IInv, TypeOK, WindowTypeOK
  <2> QED
    BY <2>1, MsgLen DEF outputLength, msg_len
<1>2. /\ out = Abstract!Contents(outputLength)
      /\ out' = Abstract!Contents(outputLength')
      /\ Len(out) = outputLength
  <2>1. out = Abstract!Contents(outputLength)
    BY OutputContents
  <2>2. \A i \in 1..outputLength' : file'[i] = i - 1
    <3>1. /\ file' \in Seq(Nat) /\ \A i \in 1..Len(file') : file'[i] = i - 1
          /\ msg_len \in Nat
      BY <1>1 DEF IInv, TypeOK, WindowTypeOK, WrittenInOrder
    <3>2. outputLength' <= Len(file')
      BY <3>1 DEF outputLength, msg_len
    <3> QED
      BY <1>1, <3>1, <3>2
  <2>3. out' = Abstract!Contents(outputLength')
    BY <2>2 DEF Abstract!Contents
  <2>4. Len(out) = outputLength
    BY <1>1
  <2> QED
    BY <2>1, <2>3, <2>4
<1> HIDE DEF out
<1>3. CASE UNCHANGED <<file, result, rphase>>
  BY <1>3 DEF Abstract!transferVars, outputLength, msg_len
<1>4. CASE SenderReturns
  <2>1. outputLength' = outputLength /\ out' = out
    BY <1>2, <1>4 DEF SenderReturns, outputLength, msg_len
  <2>2. result' = "ok" => outputLength = msg_len
    <3>1. result' = "ok" => sent' >= msg_len' /\ sent' <= send_base' /\ send_base' <= Len(file')
      BY DEF IInv, CountInv, WrittenInOrder
    <3>2. sent' \in Nat /\ send_base' \in Nat /\ Len(file') \in Nat /\ file' = file /\ msg_len' = msg_len
      BY <1>4 DEF SenderReturns, IInv, TypeOK, WindowTypeOK, ConnectionTypeOK, msg_len
    <3> QED
      BY <1>1, <3>1, <3>2 DEF outputLength
  <2>3. Abstract!SenderFinishes
    BY <1>2, <1>4, <2>1, <2>2 DEF SenderReturns, Abstract!SenderFinishes, out
  <2> QED
    BY <2>3 DEF Abstract!TransferNext
<1>5. CASE ReceiverMoves
  <2>1. out' = out
    BY <1>2, <1>5 DEF ReceiverMoves, outputLength, msg_len
  <2>2. rphase' = "done" => result # "none"
    BY <1>5 DEF ReceiverMoves, IInv, PhaseInv
  <2>3. UNCHANGED <<out, snd>>
    BY <1>5, <2>1 DEF ReceiverMoves
  <2>4. CASE rphase = "listen" /\ rphase' \in {"receive", "failed"}
    BY <2>3, <2>4 DEF Abstract!TransferNext, Abstract!Accept, out
  <2>5. CASE rphase = "receive" /\ rphase' = "done"
    <3>1. result \in {"none", "ok", "failed", "refused"}
      BY DEF IInv, TypeOK, ConnectionTypeOK
    <3>2. snd # "sending"
      BY <2>2, <2>5, <3>1
    <3> QED
      BY <2>3, <2>5, <3>2 DEF Abstract!TransferNext, Abstract!ReceiverFinishes, out
  <2> QED
    BY <1>5, <2>4, <2>5 DEF ReceiverMoves
<1>6. CASE FileGrows
  <2>1. outputLength' >= outputLength
    <3>1. PICK before \in Nat, after \in Nat, length \in Nat :
             before = Len(file) /\ after = Len(file') /\ length = msg_len
      BY <1>1 DEF IInv, TypeOK, WindowTypeOK
    <3>2. after >= before
      BY <1>6, <3>1 DEF FileGrows
    <3>3. /\ outputLength = (IF before < length THEN before ELSE length)
          /\ outputLength' = (IF after < length THEN after ELSE length)
      BY <3>1 DEF outputLength, msg_len
    <3> QED
      BY <3>2, <3>3
  <2>2. CASE outputLength' = outputLength
    <3>1. out' = out
      BY <1>2, <2>2
    <3> QED
      BY <1>6, <3>1 DEF FileGrows, Abstract!transferVars, out
  <2>3. CASE outputLength' > outputLength
    <3>1. outputLength' \in Len(out) + 1..msg_len
      BY <1>1, <1>2, <2>3
    <3>2. \E n \in Len(out) + 1..msg_len : out' = Abstract!Contents(n)
      BY <1>2, <3>1
    <3>3. Abstract!Deliver
      BY <1>6, <3>2 DEF FileGrows, Abstract!Deliver, out
    <3> QED
      BY <3>3 DEF Abstract!TransferNext
  <2> QED
    BY <1>1, <2>1, <2>2, <2>3
<1> QED
  BY <1>3, <1>4, <1>5, <1>6, VisibleSteps

\* A whole session, seen through its output file and the two return values, is
\* an in-order transfer of the message: nothing is written out of turn, 0 is
\* returned to the sender only for a whole message, and the receiver ends last.
THEOREM Refinement == Spec => ImplementsTransfer
<1>1. Init => Abstract!TransferInit
  BY RefinementInit
<1>2. IInv /\ IInv' /\ [Next]_vars => [Abstract!TransferNext]_(Abstract!transferVars)
  BY RefinementNext
<1> QED
  BY <1>1, <1>2, Invariance, PTL DEF Spec, ImplementsTransfer, Abstract!TransferSpec
=============================================================================
