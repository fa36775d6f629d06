------------------------------ MODULE MCRtpGbn ------------------------------
(***************************************************************************)
(* TLC instances of RtpGbn.  Packet numbers bound themselves: the sender   *)
(* stops at the end of the message, at most one window past it.            *)
(***************************************************************************)
EXTENDS RtpGbn

AllFaults == FaultKinds
DataLoss == {"loseData"}
BothLoss == {"loseData", "loseAck"}
=============================================================================
