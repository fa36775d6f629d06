---------------------------- MODULE RtpWindowProofs ----------------------------
(***************************************************************************)
(* Lemmas about what the two protocols share: the datagram path and the    *)
(* receiver's cache of RtpWindow, for windows of any size.                 *)
(*                                                                         *)
(* Numbers less than a window apart have different slots, so the cache     *)
(* keeps every packet where its number says (CacheInv), and the run of     *)
(* valid slots after the expected one holds consecutive packets.  Nothing  *)
(* that the receiver has is forgotten (the facts about HasReceived).       *)
(***************************************************************************)
EXTENDS RtpWindow, SequenceTheorems, TLAPS

-----------------------------------------------------------------------------
\* The arithmetic of ring buffers: numbers laid out modulo the n slots of a ring, as in
\* cachePkt, cache_rtp_pkt, get_min_ncache and the loops over resend_num and write_num.

\* The remainder names a slot of the ring.
LEMMA ModRange ==
    ASSUME NEW n \in Nat \ {0}, NEW a \in Nat
    PROVE  a % n \in 0..n - 1
OBVIOUS

\* Division with remainder.
LEMMA DivMod ==
    ASSUME NEW n \in Nat \ {0}, NEW a \in Nat
    PROVE  /\ a \div n \in Nat
           /\ a = n * (a \div n) + (a % n)
OBVIOUS

\* Facts about products that bound a quotient.
LEMMA MulBig ==
    ASSUME NEW n \in Nat \ {0}, NEW k \in Int, k >= 1
    PROVE  n * k >= n
OBVIOUS

LEMMA MulNeg ==
    ASSUME NEW n \in Nat \ {0}, NEW k \in Int, k <= -1
    PROVE  n * k <= -n
OBVIOUS

LEMMA Dist ==
    ASSUME NEW n \in Int, NEW k \in Int, NEW j \in Int
    PROVE  n * (k - j) = n * k - n * j
OBVIOUS

\* A number below n is its own slot.
LEMMA ModSmall ==
    ASSUME NEW n \in Nat \ {0}, NEW a \in 0..n - 1
    PROVE  a % n = a
OBVIOUS

\* The remainder is the only one.
LEMMA ModUnique ==
    ASSUME NEW n \in Nat \ {0}, NEW a \in Nat, NEW q \in Int, NEW r \in 0..n - 1,
           a = n * q + r
    PROVE  a % n = r
<1> DEFINE Q == a \div n
           R == a % n
<1>1. Q \in Nat /\ R \in 0..n - 1 /\ a = n * Q + R
  BY DivMod, ModRange
<1> HIDE DEF Q, R
<1>2. n * (q - Q) = R - r
  BY <1>1, Dist
<1>3. q - Q <= 0
  BY <1>1, <1>2, MulBig
<1>4. q - Q >= 0
  BY <1>1, <1>2, MulNeg
<1>5. q = Q
  BY <1>1, <1>3, <1>4
<1>6. R = r
  BY <1>5, <1>1, <1>2
<1> QED
  BY <1>6 DEF R

\* Two numbers less than a round apart have different slots.
LEMMA ModInj ==
    ASSUME NEW n \in Nat \ {0}, NEW a \in Nat, NEW b \in Nat, a < b, b < a + n
    PROVE  a % n # b % n
<1> SUFFICES ASSUME a % n = b % n PROVE FALSE
  OBVIOUS
<1> DEFINE A == a \div n
           B == b \div n
<1>1. A \in Nat /\ a = n * A + (a % n) /\ a % n \in 0..n - 1
  BY DivMod, ModRange
<1>2. B \in Nat /\ b = n * B + (b % n)
  BY DivMod, ModRange
<1> HIDE DEF A, B
<1>3. n * (B - A) = b - a
  BY <1>1, <1>2, Dist
<1>4. B - A >= 1 \/ B - A <= -1 \/ B - A = 0
  BY <1>1, <1>2
<1>5. CASE B - A >= 1
  BY <1>5, <1>3, MulBig, <1>1, <1>2
<1>6. CASE B - A <= -1
  BY <1>6, <1>3, MulNeg, <1>1, <1>2
<1>7. CASE B - A = 0
  BY <1>7, <1>3, <1>1, <1>2
<1> QED
  BY <1>4, <1>5, <1>6, <1>7

\* To move on from a slot is to move on from the number in it.
LEMMA ModAdd ==
    ASSUME NEW n \in Nat \ {0}, NEW a \in Nat, NEW b \in Nat
    PROVE  ((a % n) + b) % n = (a + b) % n
<1> DEFINE A == a \div n
           C == ((a % n) + b) \div n
           r == ((a % n) + b) % n
<1>1. a % n \in 0..n - 1
  BY ModRange
<1>2. A \in Nat /\ a = n * A + (a % n)
  BY DivMod
<1>3. C \in Nat /\ (a % n) + b = n * C + r
  BY <1>1, DivMod
<1>4. r \in 0..n - 1
  BY <1>1, ModRange
<1> HIDE DEF A, C, r
<1>5. a + b = n * A + n * C + r
  BY <1>1, <1>2, <1>3, <1>4
<1>6. n * A + n * C = n * (A + C)
  BY <1>2, <1>3
<1>7. a + b = n * (A + C) + r
  BY <1>5, <1>6
<1>8. A + C \in Int /\ a + b \in Nat
  BY <1>2, <1>3
<1>9. (a + b) % n = r
  BY <1>4, <1>7, <1>8, ModUnique
<1> QED
  BY <1>9 DEF r

-----------------------------------------------------------------------------
\* The rings of RtpWindow.

LEMMA Sizes ==
    /\ sender_window_size \in Nat \ {0}
    /\ recver_window_size \in Nat \ {0}
    /\ FileChunks \in Nat
    /\ LenModulus \in Nat \ {0}
BY WindowAssumption DEF MAX_WINDOW_SIZE

LEMMA MsgLen == msg_len \in Nat
BY Sizes, ModRange DEF msg_len

LEMMA RSlotRange ==
    ASSUME NEW a \in Nat
    PROVE  RSlot(a) \in receiverSlots
BY Sizes, ModRange DEF RSlot, receiverSlots

LEMMA RSlotAdd ==
    ASSUME NEW a \in Nat, NEW b \in Nat
    PROVE  RSlot(RSlot(a) + b) = RSlot(a + b)
BY Sizes, ModAdd DEF RSlot

LEMMA RSlotInj ==
    ASSUME NEW a \in Nat, NEW b \in Nat, a < b, b < a + recver_window_size
    PROVE  RSlot(a) # RSlot(b)
BY Sizes, ModInj DEF RSlot

-----------------------------------------------------------------------------
\* The receiver's half of the inductive invariants.

\* Slot slot holds a packet of the receive window, ahead of the expected one.
Ahead(c, N, slot) ==
    /\ N < c.buffer[slot]
    /\ c.buffer[slot] < N + recver_window_size
    /\ c.buffer[slot] < nxt_seq_num
    /\ RSlot(c.buffer[slot]) = slot

CacheInv ==
    /\ cache.p = RSlot(expected)
    /\ \A slot \in receiverSlots : cache.valid[slot] = 1 => Ahead(cache, expected, slot)

ReceiverInv == WindowTypeOK /\ WrittenInOrder /\ CacheInv

-----------------------------------------------------------------------------
\* The datagram path.

\* A packet that passes check is the packet that was sent.
LEMMA Intact ==
    ASSUME NEW pkt, NEW r \in Received(pkt), check(r)
    PROVE  r.type = pkt.type /\ r.seq_num = pkt.seq_num
<1> DEFINE Damaged == [type : {pkt.type, "garbled"},
                       seq_num : {pkt.seq_num, pkt.seq_num + 1},
                       intact : {FALSE}]
<1>1. r \in Damaged => r.intact \in {FALSE}
  OBVIOUS
<1>2. r \notin Damaged
  BY <1>1 DEF check
<1>3. r = [type |-> pkt.type, seq_num |-> pkt.seq_num, intact |-> TRUE]
  BY <1>2, Zenon DEF Received
<1> QED
  BY <1>3

\* A delivery takes a datagram that was in flight, and adds none.
LEMMA Delivery ==
    ASSUME NEW net, NEW pkt, NEW fault, NEW rest \in AfterDelivery(net, pkt, fault)
    PROVE  pkt \in net /\ rest \subseteq net
BY DEF AfterDelivery

-----------------------------------------------------------------------------
\* The receiver's cache.

\* A packet ahead is cached where its number says, over no other packet.
LEMMA CacheAheadStep ==
    ASSUME ReceiverInv, NEW seq \in Nat, seq < nxt_seq_num, CacheAhead(seq)
    PROVE  /\ UNCHANGED <<expected, file>>
           /\ cache' \in [p : receiverSlots,
                          buffer : [receiverSlots -> Nat],
                          valid : [receiverSlots -> {0, 1}]]
           /\ cache'.p = RSlot(expected)
           /\ \A slot \in receiverSlots : cache'.valid[slot] = 1 => Ahead(cache', expected, slot)
           /\ HasReceived(seq)'
           /\ \A n \in Nat : HasReceived(n) => HasReceived(n)'
<1> USE DEF ReceiverInv
<1>1. /\ cache \in [p : receiverSlots,
                    buffer : [receiverSlots -> Nat],
                    valid : [receiverSlots -> {0, 1}]]
      /\ expected \in Nat
      /\ CacheInv
  BY DEF ReceiverInv, WindowTypeOK
<1>2. seq > expected /\ seq < expected + recver_window_size
  BY DEF CacheAhead
<1>3. RSlot(seq - expected + cache.p) = RSlot(seq) /\ RSlot(seq) \in receiverSlots
  <2>1. seq - expected \in Nat /\ expected + (seq - expected) = seq
    BY <1>1, <1>2
  <2>2. RSlot(RSlot(expected) + (seq - expected)) = RSlot(expected + (seq - expected))
    BY <1>1, <2>1, RSlotRange, RSlotAdd, RSlotInj
  <2>3. RSlot(expected) \in Int
    BY <1>1, RSlotRange, RSlotAdd, RSlotInj DEF receiverSlots
  <2>4. seq - expected + RSlot(expected) = RSlot(expected) + (seq - expected)
    BY <1>1, <2>3
  <2> QED
    BY <1>1, <2>1, <2>2, <2>4, RSlotRange, RSlotAdd, RSlotInj DEF CacheInv
<1>4. cache' = [cache EXCEPT !.buffer[RSlot(seq)] = seq, !.valid[RSlot(seq)] = 1]
  BY <1>3 DEF CacheAhead, cache_rtp_pkt
<1>5. cache' \in [p : receiverSlots,
                 buffer : [receiverSlots -> Nat],
                 valid : [receiverSlots -> {0, 1}]]
  BY <1>1, <1>3, <1>4
<1>6. cache'.p = RSlot(expected)
  BY <1>1, <1>4 DEF CacheInv
<1>7. ASSUME NEW slot \in receiverSlots, cache'.valid[slot] = 1
      PROVE  Ahead(cache', expected, slot)
  <2>1. CASE slot = RSlot(seq)
    BY <1>1, <1>2, <1>3, <1>4, <2>1 DEF Ahead
  <2>2. CASE slot # RSlot(seq)
    <3>1. cache.valid[slot] = 1 /\ cache'.buffer[slot] = cache.buffer[slot]
      BY <1>1, <1>3, <1>4, <1>7, <2>2
    <3> QED
      BY <1>1, <3>1 DEF CacheInv, Ahead
  <2> QED
    BY <2>1, <2>2
<1>8. /\ cache'.valid[RSlot(seq)] = 1 /\ cache'.buffer[RSlot(seq)] = seq
      /\ UNCHANGED <<expected, file>>
  BY <1>1, <1>3, <1>4 DEF CacheAhead
<1>9. HasReceived(seq)'
  BY <1>3, <1>8 DEF HasReceived
\* A packet in the slot is that packet.
<1>10. ASSUME NEW n \in Nat, HasReceived(n)
       PROVE  HasReceived(n)'
  <2>1. CASE n < expected
    BY <1>8, <2>1 DEF HasReceived
  <2>2. ASSUME NEW slot \in receiverSlots, cache.valid[slot] = 1, cache.buffer[slot] = n
        PROVE  HasReceived(n)'
    <3>1. CASE slot # RSlot(seq)
      <4>1. cache'.valid[slot] = 1 /\ cache'.buffer[slot] = n
        BY <1>1, <1>3, <1>4, <2>2, <3>1
      <4> QED
        BY <2>2, <4>1 DEF HasReceived
    <3>2. CASE slot = RSlot(seq)
      <4>1. Ahead(cache, expected, slot)
        BY <1>1, <2>2 DEF CacheInv
      <4>2. /\ RSlot(n) = RSlot(seq)
            /\ n < seq + recver_window_size /\ seq < n + recver_window_size
        BY <1>1, <1>2, <2>2, <3>2, <4>1, Sizes DEF Ahead
      <4>3. ~(n < seq) /\ ~(seq < n)
        BY <4>2, RSlotInj
      <4>4. n = seq
        BY <4>3
      <4> QED
        BY <1>9, <4>4
    <3> QED
      BY <3>1, <3>2
  <2> QED
    BY <1>10, <2>1, <2>2 DEF HasReceived
<1> QED
  BY <1>5, <1>6, <1>7, <1>8, <1>9, <1>10

\* The run of valid slots that follows the expected packet holds the packets
\* that follow it: get_min_ncache returns the first number that is missing, and
\* what the loop over write_num writes are consecutive packets.
LEMMA WriteExpectedStep ==
    ASSUME ReceiverInv, NEW seq \in Nat, seq < nxt_seq_num, WriteExpected(seq)
    PROVE  /\ expected' \in Nat
           /\ expected' > expected
           /\ expected' <= nxt_seq_num
           /\ expected' = Len(file')
           /\ file' \in Seq(Nat)
           /\ \A k \in 1..Len(file') : file'[k] = k - 1
           /\ cache' \in [p : receiverSlots,
                          buffer : [receiverSlots -> Nat],
                          valid : [receiverSlots -> {0, 1}]]
           /\ cache'.p = RSlot(expected')
           /\ \A slot \in receiverSlots : cache'.valid[slot] = 1 => Ahead(cache', expected', slot)
           /\ \A n \in Nat : HasReceived(n) => HasReceived(n)'
<1> USE DEF ReceiverInv
<1> DEFINE Caches == [p : receiverSlots,
                      buffer : [receiverSlots -> Nat],
                      valid : [receiverSlots -> {0, 1}]]
           cached == cache_rtp_pkt(cache, seq, seq)
<1>1. /\ cache \in Caches /\ expected \in Nat /\ nxt_seq_num \in Nat
      /\ file \in Seq(Nat) /\ WrittenInOrder /\ CacheInv
      /\ recver_window_size \in Nat \ {0}
  BY Sizes DEF ReceiverInv, WindowTypeOK
<1>2. seq = expected
  BY DEF WriteExpected
<1>nat. /\ expected \in Nat /\ nxt_seq_num \in Nat /\ expected < nxt_seq_num
      /\ recver_window_size \in Nat \ {0}
  BY <1>1, <1>2
<1>3. cache.p = RSlot(expected) /\ RSlot(expected) \in receiverSlots
  BY <1>1, RSlotRange, RSlotAdd, RSlotInj DEF CacheInv
<1>4. RSlot(seq - seq + cache.p) = RSlot(expected)
  <2>1. RSlot(expected) \in Int
    BY <1>3 DEF receiverSlots
  <2>2. seq - seq + RSlot(expected) = RSlot(expected) + 0 /\ expected + 0 = expected
    BY <1>1, <1>2, <2>1
  <2>3. RSlot(RSlot(expected) + 0) = RSlot(expected + 0)
    BY <1>1, RSlotRange, RSlotAdd, RSlotInj
  <2> QED
    BY <1>3, <2>2, <2>3
<1>5. cached = [cache EXCEPT !.buffer[RSlot(expected)] = expected, !.valid[RSlot(expected)] = 1]
  BY <1>2, <1>4 DEF cache_rtp_pkt
<1>6. PICK i \in 1..recver_window_size :
        /\ FirstGap(cached, i)
        /\ expected' = get_min_ncache(cached, i)
        /\ file' = file \o WrittenFrom(cached, expected' - seq)
        /\ cache' = Flushed(cached, expected' - seq)
  BY DEF WriteExpected
<1> HIDE DEF cached
<1>7. cached \in Caches /\ cached.p = RSlot(expected)
  BY <1>1, <1>3, <1>5
\* The d-th slot after the start belongs to packet expected + d.
<1>8. ASSUME NEW d \in Nat
      PROVE  /\ RSlot(cached.p + d) = RSlot(expected + d)
             /\ RSlot(expected + d) \in receiverSlots
  <2>1. expected + d \in Nat
    BY <1>1
  <2> QED
    BY <1>1, <1>7, <2>1, RSlotRange, RSlotAdd, RSlotInj
\* Any other valid slot held a packet ahead before, and holds it still.
<1>9. ASSUME NEW slot \in receiverSlots, slot # RSlot(expected), cached.valid[slot] = 1
      PROVE  Ahead(cached, expected, slot)
  <2>1. cache.valid[slot] = 1 /\ cached.buffer[slot] = cache.buffer[slot]
    BY <1>1, <1>3, <1>5, <1>9
  <2> QED
    BY <1>1, <2>1 DEF CacheInv, Ahead
<1>10. cached.buffer[RSlot(expected)] = expected
  BY <1>1, <1>3, <1>5
\* Two packets of the window in the same slot are the same packet.
<1>11. ASSUME NEW a \in Nat, NEW b \in Nat, RSlot(a) = RSlot(b),
              expected <= a, a < expected + recver_window_size,
              expected <= b, b < expected + recver_window_size
       PROVE  a = b
  <2>1. b < a + recver_window_size /\ a < b + recver_window_size
    BY <1>nat, <1>11
  <2>2. ~(a < b) /\ ~(b < a)
    BY <1>11, <2>1, RSlotInj
  <2> QED
    BY <2>2
<1>12. ASSUME NEW d \in 0..i - 1
       PROVE  /\ cached.buffer[RSlot(cached.p + d)] = expected + d
              /\ expected + d < nxt_seq_num
  <2>1. CASE d = 0
    <3>1. 0 \in Nat /\ expected + 0 = expected
      BY <1>nat
    <3>2. RSlot(cached.p + 0) = RSlot(expected)
      BY <1>8, <3>1
    <3> QED
      BY <1>nat, <1>10, <2>1, <3>1, <3>2
  <2>2. CASE d > 0
    <3> DEFINE slot == RSlot(expected + d)
    <3>1. /\ d \in Nat /\ d \in 1..i - 1 /\ d < recver_window_size
          /\ expected + d \in Nat /\ expected < expected + d
          /\ expected + d < expected + recver_window_size
      BY <1>nat, <1>6, <2>2
    <3>2. slot \in receiverSlots /\ RSlot(cached.p + d) = slot
      BY <1>8, <3>1
    <3>3. cached.valid[slot] = 1
      BY <1>6, <3>1, <3>2 DEF FirstGap
    <3>4. slot # RSlot(expected)
      BY <1>nat, <3>1, RSlotInj
    <3>5. Ahead(cached, expected, slot)
      BY <1>9, <3>2, <3>3, <3>4
    <3>6. cached.buffer[slot] \in Nat
      BY <1>7, <3>2
    <3>7. /\ RSlot(cached.buffer[slot]) = RSlot(expected + d)
          /\ expected <= cached.buffer[slot]
          /\ cached.buffer[slot] < expected + recver_window_size
      BY <1>nat, <3>5, <3>6 DEF Ahead
    <3>8. expected <= expected + d
      BY <1>nat, <3>1
    <3>9. cached.buffer[slot] = expected + d
      BY <1>11, <3>1, <3>6, <3>7, <3>8
    <3> QED
      BY <3>2, <3>5, <3>9 DEF Ahead
  <2>3. d = 0 \/ d > 0
    BY <1>6
  <2> QED
    BY <2>1, <2>2, <2>3
<1>13. expected' = expected + i /\ expected' - seq = i
  <2>1. i - 1 \in 0..i - 1
    BY <1>6
  <2>2. cached.buffer[RSlot(cached.p + (i - 1))] = expected + (i - 1)
    BY <1>12, <2>1
  <2>3. cached.p \in Int
    BY <1>3, <1>7 DEF receiverSlots
  <2>4. cached.p + i - 1 = cached.p + (i - 1)
    BY <1>6, <2>3
  <2>5. expected' = expected + (i - 1) + 1
    BY <1>6, <2>2, <2>4 DEF get_min_ncache
  <2> QED
    BY <1>1, <1>2, <1>6, <2>5
<1>14. expected' \in Nat /\ expected' > expected /\ expected' <= nxt_seq_num
  <2>1. i \in Nat /\ i >= 1 /\ i - 1 \in 0..i - 1
    BY <1>nat, <1>6
  <2>2. expected + (i - 1) < nxt_seq_num
    BY <1>12, <2>1
  <2> QED
    BY <1>nat, <1>13, <2>1, <2>2
<1>15. /\ file' \in Seq(Nat)
       /\ expected' = Len(file')
       /\ \A k \in 1..Len(file') : file'[k] = k - 1
  <2> DEFINE run == WrittenFrom(cached, i)
  <2>1. run = [k \in 1..i |-> expected + k - 1]
    <3>1. ASSUME NEW k \in 1..i
          PROVE  cached.buffer[RSlot(cached.p + k - 1)] = expected + k - 1
      <4>1. k - 1 \in 0..i - 1
        BY <1>6
      <4>2. cached.p \in Int
        BY <1>3, <1>7 DEF receiverSlots
      <4>3. cached.p + k - 1 = cached.p + (k - 1) /\ expected + k - 1 = expected + (k - 1)
        BY <1>1, <1>6, <4>2
      <4> QED
        BY <1>12, <4>1, <4>3
    <3> QED
      BY <3>1 DEF WrittenFrom
  <2>2. run \in Seq(Nat) /\ Len(run) = i
    BY <1>1, <1>6, <2>1
  <2> HIDE DEF run
  <2>3. file' = file \o run
    BY <1>6, <1>13 DEF run
  <2>4. file' \in Seq(Nat) /\ Len(file') = Len(file) + i
    BY <1>1, <2>2, <2>3, ConcatProperties
  <2>5. expected' = Len(file')
    BY <1>1, <1>13, <2>4 DEF WrittenInOrder
  <2>6. ASSUME NEW k \in 1..Len(file')
        PROVE  file'[k] = k - 1
    <3>1. CASE k <= Len(file)
      BY <1>1, <2>2, <2>3, <2>4, <3>1, ConcatProperties DEF WrittenInOrder
    <3>2. CASE k > Len(file)
      <4>1. k - Len(file) \in 1..i
        BY <1>1, <1>6, <2>4, <3>2
      <4>2. file'[k] = run[k - Len(file)]
        BY <1>1, <2>2, <2>3, <2>4, <3>2, ConcatProperties
      <4>3. run[k - Len(file)] = expected + (k - Len(file)) - 1
        BY <2>1, <4>1
      <4> QED
        BY <1>1, <4>1, <4>2, <4>3 DEF WrittenInOrder
    <3> QED
      BY <1>1, <3>1, <3>2
  <2> QED
    BY <2>4, <2>5, <2>6
<1>16. cache' = Flushed(cached, i)
  BY <1>6, <1>13
<1>17. cache'.p = RSlot(expected') /\ cache'.p \in receiverSlots
  <2>1. cache'.p = RSlot(cached.p + i)
    BY <1>7, <1>16 DEF Flushed
  <2> QED
    BY <1>6, <1>8, <1>13, <2>1
<1>18. /\ cache'.buffer = cached.buffer
       /\ \A slot \in receiverSlots :
            cache'.valid[slot] = IF \E d \in 0..i - 1 : slot = RSlot(cached.p + d)
                                 THEN 0 ELSE cached.valid[slot]
  BY <1>7, <1>16 DEF Flushed
<1>19. cache' \in Caches
  BY <1>7, <1>16, <1>17 DEF Flushed
<1>20. ASSUME NEW slot \in receiverSlots, cache'.valid[slot] = 1
       PROVE  Ahead(cache', expected', slot)
  <2>1. cached.valid[slot] = 1 /\ \A d \in 0..i - 1 : slot # RSlot(expected + d)
    BY <1>8, <1>18, <1>20
  <2>2. slot # RSlot(expected)
    <3>1. 0 \in 0..i - 1 /\ expected + 0 = expected
      BY <1>nat, <1>6
    <3> QED
      BY <2>1, <3>1
  <2>3. Ahead(cached, expected, slot)
    BY <1>9, <2>1, <2>2
  <2>4. slot # RSlot(expected + i)
    <3>1. CASE i < recver_window_size
      BY <1>6, <1>8, <2>1, <3>1 DEF FirstGap
    <3>2. CASE i = recver_window_size
      <4>1. cached.buffer[slot] - expected \in 0..i - 1
        BY <1>1, <1>7, <2>3, <3>2 DEF Ahead
      <4>2. expected + (cached.buffer[slot] - expected) = cached.buffer[slot]
        BY <1>1, <1>7
      <4> QED
        BY <2>1, <2>3, <4>1, <4>2 DEF Ahead
    <3> QED
      BY <1>1, <1>6, <3>1, <3>2
  <2>5. cached.buffer[slot] > expected + i
    <3>1. PICK n \in Nat : n = cached.buffer[slot]
      BY <1>7
    <3>2. expected < n /\ RSlot(n) = slot
      BY <2>3, <3>1 DEF Ahead
    <3>3. expected \in Nat /\ i \in Nat
      BY <1>1, <1>6
    <3>4. ASSUME n <= expected + i PROVE FALSE
      <4>1. PICK d \in 0..i : n = expected + d
        <5>1. n - expected \in 0..i /\ expected + (n - expected) = n
          BY <3>2, <3>3, <3>4
        <5> QED
          BY <5>1
      <4>2. CASE d = i
        BY <2>4, <3>2, <4>1, <4>2
      <4>3. CASE d # i
        <5>1. d \in 0..i - 1
          BY <3>3, <4>3
        <5> QED
          BY <2>1, <3>2, <4>1, <5>1
      <4> QED
        BY <4>2, <4>3
    <3> QED
      BY <3>1, <3>3, <3>4
  <2>6. cache'.buffer[slot] = cached.buffer[slot]
    BY <1>18
  <2>7. PICK n \in Nat : n = cached.buffer[slot]
    BY <1>7
  <2>8. n < expected + recver_window_size /\ n < nxt_seq_num /\ RSlot(n) = slot
    BY <2>3, <2>7 DEF Ahead
  <2>9. expected' < n /\ n < expected' + recver_window_size
    BY <1>1, <1>6, <1>13, <2>5, <2>7, <2>8
  <2> QED
    BY <2>6, <2>7, <2>8, <2>9 DEF Ahead
\* What was in the cache is written or still there.
<1>21. ASSUME NEW n \in Nat, HasReceived(n)
       PROVE  HasReceived(n)'
  <2>1. CASE n < expected
    BY <1>1, <1>14, <2>1 DEF HasReceived
  <2>2. ASSUME NEW slot \in receiverSlots, cache.valid[slot] = 1, cache.buffer[slot] = n
        PROVE  HasReceived(n)'
    <3>1. Ahead(cache, expected, slot)
      BY <1>1, <2>2 DEF CacheInv
    <3>2. slot # RSlot(expected)
      BY <1>1, <2>2, <3>1, RSlotInj DEF Ahead
    <3>3. cached.valid[slot] = 1 /\ cached.buffer[slot] = n
      BY <1>1, <1>3, <1>5, <2>2, <3>2
    <3>4. CASE \E d \in 0..i - 1 : slot = RSlot(cached.p + d)
      <4>1. PICK d \in 0..i - 1 : slot = RSlot(cached.p + d)
        BY <3>4
      <4>2. n = expected + d
        BY <1>12, <3>3, <4>1
      <4>3. n < expected'
        BY <1>nat, <1>6, <1>13, <4>1, <4>2
      <4> QED
        BY <4>3 DEF HasReceived
    <3>5. CASE ~ \E d \in 0..i - 1 : slot = RSlot(cached.p + d)
      <4>1. cache'.valid[slot] = 1 /\ cache'.buffer[slot] = n
        BY <1>18, <2>2, <3>3, <3>5
      <4> QED
        BY <2>2, <4>1 DEF HasReceived
    <3> QED
      BY <3>4, <3>5
  <2> QED
    BY <1>21, <2>1, <2>2 DEF HasReceived
<1> QED
  BY <1>14, <1>15, <1>17, <1>19, <1>20, <1>21
=============================================================================
