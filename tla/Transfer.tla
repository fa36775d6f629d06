------------------------------ MODULE Transfer ------------------------------
(***************************************************************************)
(* What lab2-rtp promises its users: the receiver's file grows as a prefix *)
(* of the message, whole when sendMessage returns 0, and a receiver that   *)
(* has returned was told to by a sender that had finished.                 *)
(* Both protocols (RtpGbn, RtpSr) are shown to implement this.             *)
(***************************************************************************)
EXTENDS Integers, Sequences

CONSTANTS
    Chunks,     \* chunks of the message, a natural number; chunk n is represented by n
    MayGiveUp   \* whether the receiver may fail in the middle of a transfer

VARIABLES
    output,    \* chunks in the receiver's file
    sender,    \* "sending", then what its last call returned
    receiver   \* "listen", "receive", then "done" or "failed"

transferVars == <<output, sender, receiver>>

Contents(n) == [i \in 1..n |-> i - 1]

TransferInit ==
    /\ output = Contents(0)
    /\ sender = "sending"
    /\ receiver = "listen"

Accept ==
    /\ receiver = "listen"
    /\ receiver' \in {"receive", "failed"}
    /\ UNCHANGED <<output, sender>>

Deliver ==
    /\ receiver = "receive"
    /\ \E n \in Len(output) + 1..Chunks : output' = Contents(n)
    /\ UNCHANGED <<sender, receiver>>

SenderFinishes ==
    /\ sender = "sending"
    /\ \/ sender' = "ok" /\ output = Contents(Chunks)
       \/ sender' \in {"failed", "refused"}
    /\ UNCHANGED <<output, receiver>>

ReceiverFinishes ==
    /\ receiver = "receive"
    /\ \/ receiver' = "done" /\ sender # "sending"
       \/ receiver' = "failed" /\ MayGiveUp
    /\ UNCHANGED <<output, sender>>

TransferNext == Accept \/ Deliver \/ SenderFinishes \/ ReceiverFinishes

TransferSpec == TransferInit /\ [][TransferNext]_transferVars
=============================================================================
