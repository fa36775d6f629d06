------------------------------ MODULE RtpLink ------------------------------
(***************************************************************************)
(* The UDP path between the RTP sender and the RTP receiver of             *)
(* lab2-rtp/Lab2-RTP, and the packets it carries (rtp.h, rtp.c).           *)
(*                                                                         *)
(* The two sockets and the network are outside src/: they are modelled     *)
(* from how sendto and recvfrom are used.  Each direction is the set of    *)
(* the datagrams in flight.  A set has no order, so datagrams are          *)
(* delivered in any order; the other faults are switched on by Faults.     *)
(* Equal datagrams in flight at the same time are one element of the set.  *)
(*                                                                         *)
(* A packet is its header without the fields length and checksum.  The     *)
(* payload of a DATA packet is a function of seq_num alone (the sender     *)
(* freads the file once, in order), so seq_num stands for it.  The CRC is  *)
(* taken to detect every corruption, so check is the truth about it.       *)
(***************************************************************************)
EXTENDS Integers

CONSTANT Faults   \* what the network and the socket calls may do wrong

VARIABLES
    toReceiver,   \* datagrams in flight from the sender
    toSender      \* datagrams in flight from the receiver

linkVars == <<toReceiver, toSender>>

\* "lose..." drops a datagram of that direction, "dup..." delivers one and
\* keeps a copy in flight, "corrupt" damages one, and with "ioError" a sendto
\* or recvfrom of the sender, or the reply of initReceiver, may return -1.
FaultKinds == {"loseData", "loseAck", "dupData", "dupAck", "corrupt", "ioError"}

ASSUME FaultsAssumption == Faults \subseteq FaultKinds

PacketTypes == {"START", "END", "DATA", "ACK"}

\* What set_header makes of its arguments.
Packet(type, seq) == [type |-> type, seq_num |-> seq]

DataPackets(seqs) == {Packet("DATA", seq) : seq \in seqs}

Packets == [type : PacketTypes, seq_num : Nat]

\* What recvfrom may store for a datagram.  A corrupted one fails check; the
\* damage may or may not have hit the fields type and seq_num.
Received(pkt) ==
    {[type |-> pkt.type, seq_num |-> pkt.seq_num, intact |-> TRUE]}
    \cup (IF "corrupt" \in Faults
          THEN [type : {pkt.type, "garbled"},
                seq_num : {pkt.seq_num, pkt.seq_num + 1},
                intact : {FALSE}]
          ELSE {})

check_Ignored(pkt) == TRUE   \* mutant: no checksum

check(pkt) == pkt.intact

\* What may be in flight once pkt has been delivered: no outcome at all if it
\* was not in flight before.
AfterDelivery(net, pkt, duplication) ==
    {rest \in {net \ {pkt}, net} :
        /\ pkt \in net
        /\ rest = net => duplication \in Faults}

LinkInit ==
    /\ toReceiver = {}
    /\ toSender = {}

LoseDatagram ==
    \/ /\ "loseData" \in Faults
       /\ \E pkt \in toReceiver : toReceiver' = toReceiver \ {pkt}
       /\ UNCHANGED toSender
    \/ /\ "loseAck" \in Faults
       /\ \E pkt \in toSender : toSender' = toSender \ {pkt}
       /\ UNCHANGED toReceiver
=============================================================================
