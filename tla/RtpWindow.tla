----------------------------- MODULE RtpWindow -----------------------------
(***************************************************************************)
(* The two window buffers shared by the plain and the optimised RTP of     *)
(* lab2-rtp/Lab2-RTP, and the receiver's cache operations on its own.      *)
(*                                                                         *)
(* The file is measured in chunks: chunk n is what the n-th fread of       *)
(* PAYLOAD_SIZE bytes returns.  Packet n carries chunk n if there is one   *)
(* and no bytes if n >= FileChunks, for the send loop keeps reading after  *)
(* the end of the file while its window is open.                           *)
(***************************************************************************)
EXTENDS RtpConnection, Sequences

CONSTANTS
    sender_window_size,
    recver_window_size,
    FileChunks,   \* chunks in the file to send
    LenModulus    \* 2^32 bytes in chunks: msg_len is a uint32_t

MAX_WINDOW_SIZE == 1024

ASSUME WindowAssumption ==
    /\ sender_window_size \in 1..MAX_WINDOW_SIZE
    /\ recver_window_size \in 1..MAX_WINDOW_SIZE
    /\ FileChunks \in Nat
    /\ LenModulus \in Nat \ {0}

VARIABLES
    nxt_seq_num,  \* the sender's: number of the next new packet
    sent,         \* chunks of msg_len accounted for, as the code counts its bytes
    expected,     \* the receiver's nxt_seq_num
    cache,        \* the receiver's pcache; buffer holds the packets' numbers
    file          \* numbers of the packets fwritten so far, the empty ones too

msg_len == FileChunks % LenModulus

\* memset(&pcache, 0, ...) leaves number 0 in every slot.
receiverSlots == 0..recver_window_size - 1
RSlot(n) == n % recver_window_size
emptyCache == [p |-> 0,
               buffer |-> [slot \in receiverSlots |-> 0],
               valid |-> [slot \in receiverSlots |-> 0]]

WindowInit ==
    /\ nxt_seq_num = 0
    /\ sent = 0
    /\ expected = 0
    /\ cache = emptyCache
    /\ file = <<>>

WindowTypeOK ==
    /\ nxt_seq_num \in Nat
    /\ sent \in Nat
    /\ expected \in Nat
    /\ cache \in [p : receiverSlots,
                  buffer : [receiverSlots -> Nat],
                  valid : [receiverSlots -> {0, 1}]]
    /\ file \in Seq(Nat)

-----------------------------------------------------------------------------
\* The receiver's cache.  N is the number expected, at slot p.

cache_rtp_pkt_NoStart(c, seq, N) ==   \* mutant: the slot does not count from p
    LET place_pos == RSlot(seq - N)
    IN  [c EXCEPT !.buffer[place_pos] = seq, !.valid[place_pos] = 1]

cache_rtp_pkt(c, seq, N) ==
    LET place_pos == RSlot(seq - N + c.p)
    IN  [c EXCEPT !.buffer[place_pos] = seq, !.valid[place_pos] = 1]

\* The loop of get_min_ncache stops at i: the slots after p up to i are
\* valid, and slot i is not or is one round further.
FirstGap(c, i) ==
    /\ \A j \in 1..i - 1 : c.valid[RSlot(c.p + j)] = 1
    /\ i < recver_window_size => c.valid[RSlot(c.p + i)] = 0

get_min_ncache(c, i) == c.buffer[RSlot(c.p + i - 1)] + 1

\* The packets written by the loop over write_num slots, in order.
WrittenFrom(c, write_num) ==
    [i \in 1..write_num |-> c.buffer[RSlot(c.p + i - 1)]]

Flushed_KeepsValid(c, write_num) ==   \* mutant: written slots stay valid
    [c EXCEPT !.p = RSlot(c.p + write_num)]

\* The cache after that loop and the step of p.
Flushed(c, write_num) ==
    [c EXCEPT
        !.valid = [slot \in receiverSlots |->
                     IF \E i \in 0..write_num - 1 :
                            slot = RSlot(c.p + i)
                     THEN 0 ELSE c.valid[slot]],
        !.p = RSlot(c.p + write_num)]

\* A packet ahead of the expected one, inside the window.
CacheAhead(seq) ==
    /\ seq > expected
    /\ seq < expected + recver_window_size
    /\ cache' = cache_rtp_pkt(cache, seq, expected)
    /\ UNCHANGED <<expected, file>>

\* The expected packet: cached, and written with the run that follows it.
WriteExpected(seq) ==
    /\ seq = expected
    /\ LET cached == cache_rtp_pkt(cache, seq, seq)
           write_num == expected' - seq
       IN  \E i \in 1..recver_window_size :
             /\ FirstGap(cached, i)
             /\ expected' = get_min_ncache(cached, i)
             /\ file' = file \o WrittenFrom(cached, write_num)
             /\ cache' = Flushed(cached, write_num)

-----------------------------------------------------------------------------
\* What both protocols promise of the receiver.

\* fwrite is called for packet 0, 1, 2, ..., each once and in order, and the
\* number expected next counts them: the output file is a prefix of the input.
WrittenInOrder ==
    /\ expected = Len(file)
    /\ \A i \in 1..Len(file) : file[i] = i - 1

\* Packet seq is in the receiver's file or in its cache.
HasReceived(seq) ==
    \/ seq < expected
    \/ \E slot \in receiverSlots : cache.valid[slot] = 1 /\ cache.buffer[slot] = seq
=============================================================================
