------------------------------ MODULE MCRtpSr ------------------------------
(***************************************************************************)
(* TLC instances of RtpSr.                                                 *)
(***************************************************************************)
EXTENDS RtpSr

NoFaults == {}
BothLoss == {"loseData", "loseAck"}
AllFaults == FaultKinds
AllButDupAck == FaultKinds \ {"dupAck"}
=============================================================================
