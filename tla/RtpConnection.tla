--------------------------- MODULE RtpConnection ---------------------------
(***************************************************************************)
(* Set-up and tear-down of an RTP connection, shared by both protocols:    *)
(* initSender, terminateSender and the timer of sender_def.c, initReceiver *)
(* and the END branch of the receive loops of receiver_def.c.  One         *)
(* connection carries one message, as normal_sender and normal_receiver of *)
(* test.cpp use the library.  The data phase is in RtpGbn and RtpSr.       *)
(*                                                                         *)
(* phase, the sender's place:                                              *)
(*   start    before initSender         connect  waiting for conn_reply    *)
(*   send     top of the send loop      poll     at its Recv               *)
(*   end      terminateSender waits     closed   returned, connfd closed   *)
(*   returned the last call returned and left connfd open                  *)
(* rphase, the receiver's place:                                           *)
(*   listen   initReceiver's recvfrom   receive  in the receive loop       *)
(*   done     recvMessage returned 0    failed   a call returned -1        *)
(***************************************************************************)
EXTENDS RtpLink

VARIABLES
    phase,
    timer,       \* ITIMER_REAL with TIMEOUT: "off", "armed", or "fired" (TIMEOUT = 1)
    send_base,
    result,      \* "ok" and "failed": sendMessage's 0 and -1; "refused": initSender's -1
    rphase

senderVars == <<phase, timer, send_base, result>>
connectionVars == <<senderVars, rphase>>

ConnectionTypeOK ==
    /\ phase \in {"start", "connect", "send", "poll", "end", "closed", "returned"}
    /\ timer \in {"off", "armed", "fired"}
    /\ send_base \in Nat
    /\ result \in {"none", "ok", "failed", "refused"}
    /\ rphase \in {"listen", "receive", "done", "failed"}

ConnectionInit ==
    /\ phase = "start"
    /\ timer = "off"
    /\ send_base = 0
    /\ result = "none"
    /\ rphase = "listen"

SenderReturned == phase \in {"closed", "returned"}
ReceiverReturned == rphase \in {"done", "failed"}

-----------------------------------------------------------------------------
\* The sender.

setTimer == timer' = "armed"
resetTimer == timer' = "off"

\* The handler of SIGALRM.  The timer is one-shot: it_interval is 0.
sigHandler ==
    /\ timer = "armed"
    /\ timer' = "fired"
    /\ UNCHANGED <<phase, send_base, result, rphase, linkVars>>

SendEnd == toReceiver' = toReceiver \cup {Packet("END", send_base)}

\* initSender returns -1, with or without telling the receiver.
Refuse(telling) ==
    /\ phase' = "returned"
    /\ result' = "refused"
    /\ IF telling THEN SendEnd ELSE UNCHANGED toReceiver

initSender ==
    /\ phase = "start"
    /\ \/ /\ phase' = "connect"
          /\ setTimer
          /\ toReceiver' = toReceiver \cup {Packet("START", 0)}
          /\ UNCHANGED result
       \/ /\ "ioError" \in Faults
          /\ Refuse(FALSE)
          /\ UNCHANGED timer
    /\ UNCHANGED <<send_base, rphase, toSender>>

\* A reply ends the wait of initSender.  Its type and number are looked at
\* before its checksum; after a good one the caller enters sendMessage, which
\* arms the timer.
conn_reply(pkt) ==
    /\ phase = "connect"
    /\ toSender' \in AfterDelivery(toSender, pkt, "dupAck")
    /\ \E reply \in Received(pkt) :
         LET expected == reply.type = "ACK" /\ reply.seq_num = 0
         IN  \/ /\ expected /\ check(reply)
                /\ phase' = "send"
                /\ setTimer
                /\ UNCHANGED <<result, toReceiver>>
             \/ /\ ~(expected /\ check(reply))
                /\ Refuse(expected)
                /\ resetTimer
    /\ send_base' = IF phase' = "send" THEN 0 ELSE send_base
    /\ UNCHANGED rphase

\* No reply in time, or an error of recvfrom.
conn_no_reply ==
    /\ phase = "connect"
    /\ \/ timer = "fired" /\ Refuse(TRUE)
       \/ "ioError" \in Faults /\ Refuse(FALSE)
    /\ resetTimer
    /\ UNCHANGED <<send_base, rphase, toSender>>

\* terminateSender up to its wait.  recv_n is read before it is assigned: left
\* over as 0 the loop waits for a reply, otherwise the loop is skipped, and
\* the leftovers in recv_n and end_reply decide whether connfd is closed.
\* resent is what the send loop sent again before it gave up in this step.
terminateSender(resent) ==
    /\ toReceiver' = toReceiver \cup resent \cup {Packet("END", send_base)}
    /\ \/ phase' = "end" /\ setTimer
       \/ phase' \in {"closed", "returned"} /\ resetTimer

\* The first datagram ends the wait, whatever it is; check is not called.
end_reply(pkt) ==
    /\ phase = "end"
    /\ toSender' \in AfterDelivery(toSender, pkt, "dupAck")
    /\ \E reply \in Received(pkt) :
         phase' = IF reply.type = "ACK" /\ reply.seq_num = send_base
                  THEN "closed" ELSE "returned"
    /\ resetTimer
    /\ UNCHANGED <<send_base, result, rphase, toReceiver>>

end_no_reply ==
    /\ phase = "end"
    /\ \/ timer = "fired" /\ phase' = "closed"
       \/ "ioError" \in Faults /\ phase' = "returned"
    /\ resetTimer
    /\ UNCHANGED <<send_base, result, rphase, linkVars>>

-----------------------------------------------------------------------------
\* The receiver.  Recvfrom waits for ever: its setTimer asks for a tv_usec of
\* 1e7, which setitimer refuses (EINVAL: the range is 0..999999), so the
\* branches for recv_n == 0 and recv_n == -1 are never taken.

SendAck(n) == toSender' = toSender \cup {Packet("ACK", n)}

\* The first datagram decides, whatever it is.
initReceiver(pkt) ==
    /\ rphase = "listen"
    /\ toReceiver' \in AfterDelivery(toReceiver, pkt, "dupData")
    /\ \E conn_request \in Received(pkt) :
         \/ /\ conn_request.type = "START" /\ check(conn_request)
            /\ rphase' = "receive"
            /\ SendAck(conn_request.seq_num)
         \/ /\ \/ ~(conn_request.type = "START" /\ check(conn_request))
               \/ "ioError" \in Faults
            /\ rphase' = "failed"
            /\ UNCHANGED toSender
    /\ UNCHANGED senderVars

ReceiveEnd_AnyControl(pkt) ==   \* mutant: a repeated START ends the loop too
    /\ rphase = "receive"
    /\ pkt.type # "DATA"
    /\ toReceiver' \in AfterDelivery(toReceiver, pkt, "dupData")
    /\ rphase' = "done"
    /\ SendAck(pkt.seq_num)
    /\ UNCHANGED senderVars

\* A good END ends the receive loop at once, with return value 0.
ReceiveEnd(pkt) ==
    /\ rphase = "receive"
    /\ pkt.type = "END"
    /\ toReceiver' \in AfterDelivery(toReceiver, pkt, "dupData")
    /\ rphase' = "done"
    /\ SendAck(pkt.seq_num)
    /\ UNCHANGED senderVars

\* The receive loop drops damaged packets and those neither DATA nor END.
ReceiveIgnored(pkt) ==
    /\ rphase = "receive"
    /\ toReceiver' \in AfterDelivery(toReceiver, pkt, "dupData")
    /\ \E p \in Received(pkt) : ~check(p) \/ p.type \notin {"DATA", "END"}
    /\ UNCHANGED <<connectionVars, toSender>>

ConnectionSender ==
    \/ initSender
    \/ \E pkt \in toSender : conn_reply(pkt) \/ end_reply(pkt)
    \/ conn_no_reply
    \/ end_no_reply

ConnectionReceiver ==
    \E pkt \in toReceiver :
        initReceiver(pkt) \/ ReceiveEnd(pkt) \/ ReceiveIgnored(pkt)
=============================================================================
