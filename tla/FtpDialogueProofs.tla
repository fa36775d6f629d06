-------------------------- MODULE FtpDialogueProofs --------------------------
(***************************************************************************)
(* Proofs about lab1-myftp as a whole, for every value of the constants:   *)
(* any number of clients, files of any length, any size of the buffers.    *)
(*                                                                         *)
(* Dialogue (FtpDialogue) with IInv (FtpProofs) is inductive: the first    *)
(* part has what streams carry, the second every step of the server, the   *)
(* third every step of a client and every change of a file.  InStep and    *)
(* StopsHaveCauses follow, and in the last part that the disks do what     *)
(* FileStore says.                                                         *)
(***************************************************************************)
EXTENDS FtpProofs, FtpDialogue

-----------------------------------------------------------------------------
\* Streams that carry a file.

\* What SubSeq leaves of a stream, and Tail.
LEMMA PartOfStream ==
    ASSUME NEW S, NEW stream \in Seq(S), NEW n \in Nat, n <= Len(stream),
           NEW rest, rest = SubSeq(stream, n + 1, Len(stream))
    PROVE  /\ rest \in Seq(S)
           /\ Len(rest) = Len(stream) - n
           /\ \A i \in 1..Len(rest) : rest[i] = stream[n + i]
<1>1. Len(stream) \in Nat
  OBVIOUS
<1>2. /\ rest \in Seq(S)
      /\ Len(rest) = IF n + 1 <= Len(stream) THEN Len(stream) - (n + 1) + 1 ELSE 0
      /\ \A i \in 1..Len(stream) - (n + 1) + 1 : rest[i] = stream[(n + 1) + i - 1]
  BY <1>1, SubSeqProperties
<1> QED
  BY <1>1, <1>2

\* The same of Tail.
LEMMA TailOfStream ==
    ASSUME NEW S, NEW stream \in Seq(S), stream # <<>>
    PROVE  /\ Tail(stream) \in Seq(S)
           /\ Len(Tail(stream)) = Len(stream) - 1
           /\ \A i \in 1..Len(Tail(stream)) : Tail(stream)[i] = stream[1 + i]
           /\ Head(stream) = stream[1]
<1>1. Len(stream) \in Nat
  OBVIOUS
<1> QED
  BY <1>1, HeadTailProperties

\* What a Send appends to.
LEMMA LongerSequence ==
    ASSUME NEW S, NEW stream \in Seq(S), NEW units \in Seq(S),
           NEW longer, longer = stream \o units
    PROVE  /\ longer \in Seq(S)
           /\ Len(longer) = Len(stream) + Len(units)
           /\ \A i \in 1..Len(stream) : longer[i] = stream[i]
           /\ \A i \in 1..Len(units) : longer[Len(stream) + i] = units[i]
           /\ stream = <<>> => longer = units
           /\ units = <<>> => longer = stream
<1>1. Len(stream) \in Nat /\ Len(units) \in Nat
  OBVIOUS
<1> QED
  BY <1>1

\* What a write appends to.
LEMMA LongerFile ==
    ASSUME NEW target \in Seq(Blocks), NEW blocks \in Seq(Blocks),
           NEW longer, longer = target \o blocks
    PROVE  /\ longer \in Seq(Blocks)
           /\ Len(longer) = Len(target) + Len(blocks)
           /\ \A i \in 1..Len(target) : longer[i] = target[i]
           /\ \A i \in 1..Len(blocks) : longer[Len(target) + i] = blocks[i]
BY LongerSequence

\* Units are taken off the front: headers, then blocks.
LEMMA CarriesRest ==
    ASSUME NEW stream \in Seq(Units), NEW source \in Seq(Blocks), NEW command \in Seq(Units),
           NEW front \in Nat, NEW from \in Nat, NEW to \in Nat,
           Carries(stream, front, source, from, to, command),
           NEW rest \in Seq(Units), NEW taken \in Nat, NEW n \in Nat,
           taken <= front, taken = front \/ n = 0, n <= to - from,
           Len(rest) = Len(stream) - (taken + n),
           \A i \in 1..Len(rest) : rest[i] = stream[taken + n + i]
    PROVE  Carries(rest, front - taken, source, from + n, to, command)
<1>1. Len(stream) \in Nat /\ Len(source) \in Nat /\ Len(command) \in Nat /\ Len(rest) \in Nat
  OBVIOUS
<1>2. /\ from <= to /\ to <= Len(source)
      /\ Len(stream) = front + (to - from) + Len(command)
      /\ \A i \in 1..(to - from) : stream[front + i] = Body("block", source[from + i])
      /\ \A i \in 1..Len(command) : stream[front + (to - from) + i] = command[i]
  BY DEF Carries
<1>3. Len(rest) = (front - taken) + (to - (from + n)) + Len(command)
  <2>1. Len(rest) = Len(stream) - (taken + n) /\ Len(stream) = front + (to - from) + Len(command)
    BY <1>2
  <2>2. \A a, b, c, d, e, f, g, h \in Int :
          a = b - (c + d) /\ b = e + (f - g) + h => a = (e - c) + (f - (g + d)) + h
    OBVIOUS
  <2> QED
    BY <1>1, <2>1, <2>2
<1>4. ASSUME NEW i \in 1..(to - (from + n))
      PROVE  rest[(front - taken) + i] = Body("block", source[(from + n) + i])
  <2>1. PICK k : k = n + i
    OBVIOUS
  <2>2. /\ k \in 1..(to - from) /\ (from + n) + i = from + k
        /\ (front - taken) + i \in 1..Len(rest)
        /\ taken + n + ((front - taken) + i) = front + k
    BY <1>1, <1>2, <1>3, <2>1
  <2>3. rest[(front - taken) + i] = stream[front + k]
    BY <2>2
  <2> QED
    BY <1>2, <2>2, <2>3
<1>5. ASSUME NEW i \in 1..Len(command)
      PROVE  rest[(front - taken) + (to - (from + n)) + i] = command[i]
  <2>1. /\ (front - taken) + (to - (from + n)) + i \in 1..Len(rest)
        /\ taken + n + ((front - taken) + (to - (from + n)) + i) = front + (to - from) + i
    BY <1>1, <1>2, <1>3
  <2> QED
    BY <1>2, <2>1
<1> QED
  BY <1>1, <1>2, <1>3, <1>4, <1>5 DEF Carries

\* What follows is added: more blocks, or a command when all blocks are there.
LEMMA CarriesMore ==
    ASSUME NEW stream \in Seq(Units), NEW source \in Seq(Blocks), NEW units \in Seq(Units),
           NEW front \in Nat, NEW from \in Nat, NEW mid \in Nat, NEW to \in Nat,
           NEW command \in Seq(Units),
           Carries(stream, front, source, from, mid, <<>>),
           Carries(units, 0, source, mid, to, command),
           NEW longer, longer = stream \o units
    PROVE  /\ longer \in Seq(Units)
           /\ Carries(longer, front, source, from, to, command)
           /\ \A i \in 1..front : longer[i] = stream[i]
<1>1. /\ Len(stream) \in Nat /\ Len(units) \in Nat /\ Len(source) \in Nat
      /\ Len(command) \in Nat /\ Len(<<>>) = 0
  OBVIOUS
<1>2. /\ longer \in Seq(Units)
      /\ Len(longer) = Len(stream) + Len(units)
      /\ \A i \in 1..Len(stream) : longer[i] = stream[i]
      /\ \A i \in 1..Len(units) : longer[Len(stream) + i] = units[i]
  BY LongerSequence
<1>3. /\ from <= mid /\ mid <= Len(source)
      /\ Len(stream) = front + (mid - from)
      /\ \A i \in 1..(mid - from) : stream[front + i] = Body("block", source[from + i])
  BY <1>1 DEF Carries
<1>4. /\ mid <= to /\ to <= Len(source)
      /\ Len(units) = (to - mid) + Len(command)
      /\ \A i \in 1..(to - mid) : units[i] = Body("block", source[mid + i])
      /\ \A i \in 1..Len(command) : units[(to - mid) + i] = command[i]
  BY <1>1 DEF Carries
<1>5. ASSUME NEW i \in 1..(to - from)
      PROVE  longer[front + i] = Body("block", source[from + i])
  <2>1. CASE i <= mid - from
    <3>1. i \in 1..(mid - from) /\ front + i \in 1..Len(stream)
      BY <1>1, <1>3, <2>1
    <3> QED
      BY <1>2, <1>3, <3>1
  <2>2. CASE ~(i <= mid - from)
    <3>1. PICK k : k = i - (mid - from)
      OBVIOUS
    <3>2. /\ k \in 1..(to - mid) /\ k \in 1..Len(units)
          /\ front + i = Len(stream) + k /\ mid + k = from + i
      BY <1>1, <1>3, <1>4, <2>2, <3>1
    <3>3. longer[Len(stream) + k] = units[k]
      BY <1>2, <3>2
    <3>4. units[k] = Body("block", source[mid + k])
      BY <1>4, <3>2
    <3> QED
      BY <3>2, <3>3, <3>4
  <2> QED
    BY <2>1, <2>2
<1>6. ASSUME NEW i \in 1..Len(command)
      PROVE  longer[front + (to - from) + i] = command[i]
  <2>1. PICK k : k = (to - mid) + i
    OBVIOUS
  <2>2. k \in 1..Len(units) /\ front + (to - from) + i = Len(stream) + k
    BY <1>1, <1>3, <1>4, <2>1
  <2> QED
    BY <1>2, <1>4, <2>1, <2>2
<1>7. \A i \in 1..front : longer[i] = stream[i]
  <2>1. \A i \in 1..front : i \in 1..Len(stream)
    BY <1>3
  <2> QED
    BY <1>2, <2>1
<1>8. from <= to /\ Len(longer) = front + (to - from) + Len(command)
  BY <1>1, <1>2, <1>3, <1>4
<1> QED
  BY <1>2, <1>4, <1>5, <1>6, <1>7, <1>8 DEF Carries

\* A command by itself, when all blocks are sent.
LEMMA CarriesCommand ==
    ASSUME NEW source \in Seq(Blocks), NEW command \in Seq(Units)
    PROVE  Carries(command, 0, source, Len(source), Len(source), command)
<1>1. Len(source) \in Nat /\ Len(command) \in Nat
  OBVIOUS
<1> QED
  BY <1>1 DEF Carries

\* Blocks received and written are those that follow in the file.
LEMMA BlocksReceived ==
    ASSUME NEW stream \in Seq(Units), NEW source \in Seq(Blocks), NEW command \in Seq(Units),
           NEW from \in Nat, NEW to \in Nat,
           Carries(stream, 0, source, from, to, command),
           NEW n \in Nat, n <= to - from
    PROVE  /\ n <= Len(stream) /\ from + n <= Len(source)
           /\ \A blocks \in AsBlocks(SubSeq(stream, 1, n)) :
                /\ blocks \in Seq(Blocks) /\ Len(blocks) = n
                /\ \A i \in 1..n : blocks[i] = source[from + i]
<1>1. Len(stream) \in Nat /\ Len(source) \in Nat /\ Len(command) \in Nat
  OBVIOUS
<1>2. /\ from <= to /\ to <= Len(source)
      /\ Len(stream) = (to - from) + Len(command)
      /\ \A i \in 1..(to - from) : stream[i] = Body("block", source[from + i])
  BY <1>1 DEF Carries
<1>3. PICK units : units = SubSeq(stream, 1, n)
  OBVIOUS
<1>4. n <= Len(stream) /\ \A i \in 1..n : stream[i] \in Units
  <2>1. Len(stream) = (to - from) + Len(command)
    BY <1>2
  <2>2. n <= Len(stream)
    BY <1>1, <2>1
  <2> QED
    BY <1>1, <2>2
<1>5. units \in Seq(Units) /\ Len(units) = n /\ \A i \in 1..n : units[i] = stream[i]
  <2>1. /\ units \in Seq(Units)
        /\ Len(units) = IF 1 <= n THEN n - 1 + 1 ELSE 0
        /\ \A i \in 1..n - 1 + 1 : units[i] = stream[1 + i - 1]
    BY <1>1, <1>3, <1>4, SubSeqProperties
  <2> QED
    BY <2>1
<1>6. ASSUME NEW blocks \in AsBlocks(units)
      PROVE  /\ blocks \in Seq(Blocks) /\ Len(blocks) = n
             /\ \A i \in 1..n : blocks[i] = source[from + i]
  <2>1. DOMAIN units = 1..n
    BY <1>5
  <2>2. /\ blocks \in [1..n -> Blocks]
        /\ \A i \in 1..n : units[i].type = "block" => blocks[i] = units[i].value
    BY <1>3, <2>1 DEF AsBlocks
  <2>3. blocks \in Seq(Blocks) /\ Len(blocks) = n
    BY <2>2
  <2>4. \A i \in 1..n : blocks[i] = source[from + i]
    <3> SUFFICES ASSUME NEW i \in 1..n PROVE blocks[i] = source[from + i]
      OBVIOUS
    <3>1. i \in 1..(to - from)
      BY <1>1
    <3>2. units[i] = Body("block", source[from + i])
      BY <1>2, <1>5, <3>1
    <3>3. units[i].type = "block" /\ units[i].value = source[from + i]
      BY <3>2 DEF Body
    <3> QED
      BY <2>2, <3>3
  <2> QED
    BY <2>3, <2>4
<1>7. from + n <= Len(source)
  BY <1>1, <1>2
<1> QED
  BY <1>3, <1>4, <1>6, <1>7

\* A copy as long as its source is its source.
LEMMA AllCopied ==
    ASSUME NEW source \in Seq(Blocks), NEW target \in Seq(Blocks), Copied(target, source),
           Len(target) = Len(source)
    PROVE  target = source
BY DEF Copied

\* fread of a regular file, from pos to end.
PartRead(file, pos, end, blocks) ==
    /\ pos <= end /\ end <= file.size
    /\ blocks \in Seq(Blocks) /\ Len(blocks) = end - pos
    /\ AsUnits(blocks) \in Seq(Units)
    /\ Carries(AsUnits(blocks), 0, file.blocks, pos, end, <<>>)
    /\ blocks = <<>> <=> pos = file.size

\* What is read of a file: its next blocks, none only at its end.
LEMMA FileParts ==
    ASSUME NEW file \in Files, IsRegular(file), NEW pos \in Nat, pos <= file.size,
           NEW blocks, blocks = NextBlocks(file, pos)
    PROVE  \E end \in Nat : PartRead(file, pos, end, blocks)
<1>1. PICK all \in Seq(Blocks) : all = file.blocks
  BY FileKinds
<1>2. file.size = Len(all) /\ Len(all) \in Nat
  BY <1>1 DEF IsRegular, Regular
<1>3. PICK n \in Nat : n = Chunk(Len(all) - pos) /\ n <= Len(all) - pos /\ (n = 0 <=> pos = Len(all))
  <2>1. PICK length \in Nat : length = Len(all) - pos
    BY <1>2
  <2>2. Chunk(length) \in Nat /\ Chunk(length) <= length /\ (Chunk(length) = 0 <=> length = 0)
    BY FtpAssumption DEF Chunk
  <2> QED
    BY <1>2, <2>1, <2>2
<1>4. blocks = SubSeq(all, pos + 1, pos + n)
  BY <1>1, <1>3 DEF NextBlocks
<1>5. /\ blocks \in Seq(Blocks)
      /\ Len(blocks) = n
      /\ \A i \in 1..n : blocks[i] = all[pos + i]
  <2>1. PICK first, last : first = pos + 1 /\ last = pos + n
    OBVIOUS
  <2>2. first \in Int /\ last \in Int /\ blocks = SubSeq(all, first, last)
    BY <1>4, <2>1
  <2>3. \A i \in first..last : all[i] \in Blocks
    BY <1>2, <1>3, <2>1
  <2>4. /\ blocks \in Seq(Blocks)
        /\ Len(blocks) = IF first <= last THEN last - first + 1 ELSE 0
        /\ \A i \in 1..last - first + 1 : blocks[i] = all[first + i - 1]
    BY <2>2, <2>3, SubSeqProperties
  <2>5. Len(blocks) = n
    BY <2>1, <2>4
  <2>6. ASSUME NEW i \in 1..n PROVE blocks[i] = all[pos + i]
    <3>1. i \in 1..last - first + 1 /\ first + i - 1 = pos + i
      BY <2>1
    <3> QED
      BY <2>4, <3>1
  <2> QED
    BY <2>4, <2>5, <2>6
<1>6. PICK units : units = AsUnits(blocks)
  OBVIOUS
<1>7. DOMAIN blocks = 1..n
  BY <1>5
<1>8. units = [i \in 1..n |-> Body("block", blocks[i])]
  BY <1>6, <1>7 DEF AsUnits
<1>9. units \in Seq(Units)
  BY <1>5, <1>6, BlockStream
<1>10. Len(units) = n /\ \A i \in 1..n : units[i] = Body("block", all[pos + i])
  <2>1. DOMAIN units = 1..n
    BY <1>8
  <2>2. Len(units) = n
    BY <1>9, <2>1
  <2>3. \A i \in 1..n : units[i] = Body("block", blocks[i])
    BY <1>8
  <2> QED
    BY <1>5, <2>2, <2>3
<1>11. blocks = <<>> <=> n = 0
  BY <1>5
<1>12. PICK end \in Nat : end = pos + n
  <2>1. pos + n \in Nat
    OBVIOUS
  <2> QED
    BY <2>1
<1>13. Carries(units, 0, all, pos, end, <<>>)
  <2>1. Len(<<>>) = 0 /\ 1..Len(<<>>) = {} /\ end - pos = n /\ pos <= end /\ end <= Len(all)
    BY <1>2, <1>3, <1>12
  <2> QED
    BY <1>10, <2>1 DEF Carries
<1>14. pos <= end /\ end <= file.size /\ Len(blocks) = end - pos
  BY <1>2, <1>3, <1>5, <1>12
<1>15. PartRead(file, pos, end, blocks)
  BY <1>1, <1>2, <1>3, <1>5, <1>6, <1>9, <1>11, <1>13, <1>14 DEF PartRead
<1> QED
  BY <1>15

\* What is left of a stream when n units are taken.
IsRest(rest, stream, n) ==
    /\ rest \in Seq(Units) /\ n <= Len(stream) /\ Len(rest) = Len(stream) - n
    /\ \A i \in 1..Len(rest) : rest[i] = stream[n + i]

\* blocks are those of source behind the first from, up to the first to.
IsPart(blocks, source, from, to) ==
    /\ from <= to /\ to <= Len(source)
    /\ blocks \in Seq(Blocks) /\ Len(blocks) = to - from
    /\ \A i \in 1..Len(blocks) : blocks[i] = source[from + i]

\* The first units of source are copied.
IsCopy(copy, source, length) ==
    copy \in Seq(Blocks) /\ Len(copy) = length /\ Copied(copy, source)

\* A header is taken off, or blocks are.
LEMMA HeaderOff ==
    ASSUME NEW stream \in Seq(Units), NEW source \in Seq(Blocks), NEW command \in Seq(Units),
           NEW front \in Nat, NEW ahead \in Nat, front = ahead + 1,
           NEW from \in Nat, NEW to \in Nat,
           Carries(stream, front, source, from, to, command),
           NEW rest, IsRest(rest, stream, 1)
    PROVE  Carries(rest, ahead, source, from, to, command)
<1>1. PICK one, none \in Nat : one = 1 /\ none = 0
  OBVIOUS
<1>2. one <= front /\ none <= to - from /\ front - one = ahead /\ from + none = from /\ one + none = 1
  BY <1>1 DEF Carries
<1>3. rest \in Seq(Units) /\ Len(rest) = Len(stream) - (one + none)
  BY <1>2 DEF IsRest
<1>4. \A i \in 1..Len(rest) : rest[i] = stream[one + none + i]
  BY <1>2 DEF IsRest
<1>5. Carries(rest, front - one, source, from + none, to, command)
  BY <1>1, <1>2, <1>3, <1>4, CarriesRest
<1> QED
  BY <1>2, <1>5

\* Blocks are taken off the front of what carries them.
LEMMA BlocksOff ==
    ASSUME NEW stream \in Seq(Units), NEW source \in Seq(Blocks), NEW command \in Seq(Units),
           NEW from \in Nat, NEW to \in Nat, NEW n \in Nat, NEW next \in Nat,
           next = from + n, next <= to,
           Carries(stream, 0, source, from, to, command),
           NEW rest, IsRest(rest, stream, n)
    PROVE  Carries(rest, 0, source, next, to, command)
<1>1. PICK none \in Nat : none = 0
  OBVIOUS
<1>2. Carries(stream, none, source, from, to, command)
  BY <1>1
<1>3. none <= none /\ n <= to - from /\ none - none = none /\ none + n = n
  BY <1>1
<1>4. rest \in Seq(Units) /\ Len(rest) = Len(stream) - (none + n)
  BY <1>3 DEF IsRest
<1>5. \A i \in 1..Len(rest) : rest[i] = stream[none + n + i]
  BY <1>3 DEF IsRest
<1>6. Carries(rest, none - none, source, from + n, to, command)
  BY <1>2, <1>3, <1>4, <1>5, CarriesRest
<1> QED
  BY <1>1, <1>3, <1>6

\* What is written for the blocks taken off, and what it does to the copy.
LEMMA BlocksWritten ==
    ASSUME NEW stream \in Seq(Units), NEW source \in Seq(Blocks), NEW command \in Seq(Units),
           NEW from \in Nat, NEW to \in Nat, NEW n \in Nat, NEW next \in Nat,
           next = from + n, next <= to,
           Carries(stream, 0, source, from, to, command),
           NEW units, units = SubSeq(stream, 1, n), NEW blocks \in AsBlocks(units)
    PROVE  IsPart(blocks, source, from, next)
<1>1. n <= to - from
  OBVIOUS
<1>2. /\ from + n <= Len(source)
      /\ \A got \in AsBlocks(SubSeq(stream, 1, n)) :
           /\ got \in Seq(Blocks) /\ Len(got) = n
           /\ \A i \in 1..n : got[i] = source[from + i]
  BY <1>1, BlocksReceived, SMTT(30)
<1>3. /\ blocks \in Seq(Blocks) /\ Len(blocks) = n
      /\ \A i \in 1..n : blocks[i] = source[from + i]
  BY <1>2
<1> QED
  BY <1>2, <1>3 DEF IsPart

\* The blocks taken off continue the copy.
LEMMA CopyGrows ==
    ASSUME NEW source \in Seq(Blocks), NEW target \in Seq(Blocks), Copied(target, source),
           NEW from \in Nat, from = Len(target), NEW next \in Nat,
           NEW blocks, IsPart(blocks, source, from, next), NEW longer, longer = target \o blocks
    PROVE  IsCopy(longer, source, next)
<1>1. /\ blocks \in Seq(Blocks) /\ Len(blocks) = next - from
      /\ from <= next /\ next <= Len(source)
      /\ \A i \in 1..Len(blocks) : blocks[i] = source[from + i]
      /\ Len(source) \in Nat
  BY DEF IsPart
<1>2. /\ longer \in Seq(Blocks)
      /\ Len(longer) = next
      /\ \A i \in 1..from : longer[i] = target[i]
      /\ \A i \in 1..Len(blocks) : longer[from + i] = blocks[i]
  <2>1. /\ longer \in Seq(Blocks)
        /\ Len(longer) = Len(target) + Len(blocks)
        /\ \A i \in 1..Len(target) : longer[i] = target[i]
        /\ \A i \in 1..Len(blocks) : longer[Len(target) + i] = blocks[i]
    BY <1>1, LongerFile
  <2>2. Len(longer) = next
    BY <1>1, <2>1
  <2> QED
    BY <2>1, <2>2
<1>3. ASSUME NEW i \in 1..Len(longer)
      PROVE  longer[i] = source[i]
  <2>1. CASE i <= from
    <3>1. i \in 1..from
      BY <1>1, <2>1
    <3> QED
      BY <1>2, <3>1 DEF Copied
  <2>2. CASE ~(i <= from)
    <3>1. PICK k : k = i - from
      OBVIOUS
    <3>2. k \in 1..Len(blocks) /\ i = from + k
      BY <1>1, <1>2, <2>2, <3>1
    <3>3. longer[from + k] = blocks[k] /\ blocks[k] = source[from + k]
      BY <1>1, <1>2, <3>2
    <3> QED
      BY <3>2, <3>3
  <2> QED
    BY <2>1, <2>2
<1> QED
  BY <1>1, <1>2, <1>3 DEF Copied, IsCopy

\* All of the file is through.
LEMMA CarriesNoBlock ==
    ASSUME NEW stream \in Seq(Units), NEW source \in Seq(Blocks), NEW command \in Seq(Units),
           NEW from \in Nat, NEW to \in Nat, from = Len(source),
           Carries(stream, 0, source, from, to, command)
    PROVE  stream = command /\ to = from
<1>1. Len(command) \in Nat /\ Len(stream) \in Nat
  OBVIOUS
<1>2. /\ from <= to /\ to <= Len(source)
      /\ Len(stream) = 0 + (to - from) + Len(command)
      /\ \A i \in 1..Len(command) : stream[0 + (to - from) + i] = command[i]
  BY DEF Carries
<1>3. to = from
  BY <1>2
<1>4. Len(stream) = Len(command)
  BY <1>1, <1>2, <1>3
<1>5. ASSUME NEW i \in 1..Len(command) PROVE stream[i] = command[i]
  <2>1. 0 + (to - from) + i = i
    BY <1>3
  <2> QED
    BY <1>2, <2>1
<1> QED
  BY <1>3, <1>4, <1>5

-----------------------------------------------------------------------------
\* The server's part of the dialogue.

\* Streams of no unit or one.
LEMMA ShortSequences ==
    ASSUME NEW stream \in Seq(Units)
    PROVE  /\ Len(stream) = 0 => stream = <<>>
           /\ Len(stream) = 1 => stream = <<stream[1]>>
OBVIOUS

\* What the server's Recv and Send do to the streams of its client.
LEMMA UnitsReceived ==
    ASSUME IInv, NEW n \in Nat, ServerReceives(n)
    PROVE  /\ up'[serving] \in Seq(Units) /\ n <= Len(up[serving])
           /\ Len(up'[serving]) = Len(up[serving]) - n
           /\ \A i \in 1..Len(up'[serving]) : up'[serving][i] = up[serving][n + i]
<1>1. PICK stream \in Seq(Units) : stream = up[serving]
  BY Types
<1>2. PICK rest : rest = SubSeq(stream, n + 1, Len(stream))
  OBVIOUS
<1>3. n <= Len(stream) /\ up' = [up EXCEPT ![serving] = rest]
  <2>1. Len(stream) >= n /\ up' = [up EXCEPT ![serving] = rest]
    BY <1>1, <1>2 DEF ServerReceives
  <2> QED
    BY <2>1
<1>4. up'[serving] = rest
  BY <1>3, Types
<1>5. /\ rest \in Seq(Units)
      /\ Len(rest) = Len(stream) - n
      /\ \A i \in 1..Len(rest) : rest[i] = stream[n + i]
  BY <1>2, <1>3, PartOfStream
<1> QED
  BY <1>1, <1>3, <1>4, <1>5

\* What the server's Send appends.
LEMMA UnitsSent ==
    ASSUME IInv, NEW units \in Seq(Units), ServerSends(units), serving \notin left
    PROVE  down'[serving] = down[serving] \o units /\ reset' = reset
BY Types DEF ServerSends

\* The commands, by the place where their reply is awaited.
LEMMA CommandKinds ==
    ASSUME IInv, NEW c \in Clients, NEW command \in Commands(c)
    PROVE  /\ command \in Seq(Units)
           /\ \/ cplace[c] \in {"prompt", "exited"} /\ command = <<>>
              \/ \E header \in Units :
                   /\ command = <<header>>
                   /\ \/ cplace[c] = "open" /\ header.type = "OPEN_CONN_REQUEST"
                      \/ cplace[c] = "list" /\ header.type = "LIST_REQUEST"
                      \/ cplace[c] = "quit" /\ header.type = "QUIT_REQUEST"
              \/ \E header, body \in Units :
                   /\ command = <<header, body>>
                   /\ \/ /\ cplace[c] = "auth" /\ header.type = "AUTH_REQUEST"
                         /\ \E login \in {0, 1} : body = Body("login", login)
                      \/ /\ cplace[c] = "get" /\ header.type = "GET_REQUEST"
                         /\ body = Body("name", cname[c])
                      \/ /\ cplace[c] = "put" /\ header.type = "PUT_REQUEST"
                         /\ body = Body("name", cname[c])
<1>1. \A type \in HeaderTypes, length \in {0, 1} :
        get_header(UNUSED, type, length) \in Units /\ get_header(UNUSED, type, length).type = type
  <2>1. \A type \in HeaderTypes, length \in {0, 1} : get_header(UNUSED, type, length) \in Units
    BY UnitKinds
  <2> QED
    BY <2>1 DEF get_header
<1>2. /\ cname[c] \in Names
      /\ \A name \in Names : Body("name", name) \in Units
      /\ \A login \in {0, 1} : Body("login", login) \in Units
  BY UnitKinds, ClientTypes
<1>3. CASE cplace[c] \in {"prompt", "exited"}
  <2>1. command = <<>>
    BY <1>3 DEF Commands
  <2>2. <<>> \in Seq(Units)
    OBVIOUS
  <2> QED
    BY <1>3, <2>1, <2>2
<1>4. CASE cplace[c] \in {"open", "list", "quit"}
  <2>1. PICK type \in {"OPEN_CONN_REQUEST", "LIST_REQUEST", "QUIT_REQUEST"} :
          /\ command = <<get_header(UNUSED, type, 0)>>
          /\ \/ cplace[c] = "open" /\ type = "OPEN_CONN_REQUEST"
             \/ cplace[c] = "list" /\ type = "LIST_REQUEST"
             \/ cplace[c] = "quit" /\ type = "QUIT_REQUEST"
    BY <1>4 DEF Commands
  <2>2. PICK header \in Units : header = get_header(UNUSED, type, 0) /\ header.type = type
    BY <1>1 DEF HeaderTypes
  <2>3. command = <<header>>
    BY <2>1, <2>2
  <2> QED
    BY <2>1, <2>2, <2>3
<1>5. CASE cplace[c] \in {"auth", "get", "put"}
  <2>1. PICK type \in {"AUTH_REQUEST", "GET_REQUEST", "PUT_REQUEST"}, body \in Units :
          /\ command = <<get_header(UNUSED, type, 1), body>>
          /\ \/ /\ cplace[c] = "auth" /\ type = "AUTH_REQUEST"
                /\ \E login \in {0, 1} : body = Body("login", login)
             \/ cplace[c] = "get" /\ type = "GET_REQUEST" /\ body = Body("name", cname[c])
             \/ cplace[c] = "put" /\ type = "PUT_REQUEST" /\ body = Body("name", cname[c])
    BY <1>2, <1>5 DEF Commands
  <2>2. PICK header \in Units : header = get_header(UNUSED, type, 1) /\ header.type = type
    BY <1>1 DEF HeaderTypes
  <2>3. command = <<header, body>>
    BY <2>1, <2>2
  <2> QED
    BY <2>1, <2>2, <2>3
<1> QED
  BY <1>3, <1>4, <1>5 DEF Commands

\* Nobody is in step and gone but who left with nothing to wait for.
LEMMA GoneIsCalm ==
    ASSUME IInv, NEW c \in Clients, InSession(c), c \in left
    PROVE  cplace[c] = "exited" /\ Behind(c)
<1>1. cplace[c] = "exited"
  BY DEF IInv, ClientsKnown
<1> QED
  BY <1>1 DEF InSession, Taken, Answered, Listing, Getting, Asked, Putting

\* A request that is taken is that of the client's command.
LEMMA RequestTaken ==
    ASSUME IInv, InSession(serving), splace = "request", ServerReceives(1)
    PROVE  /\ down[serving] = <<>> /\ serving \notin left /\ Announced(serving)
           /\ \/ /\ up'[serving] = <<>>
                 /\ \/ cplace[serving] = "open" /\ Head(up[serving]).type = "OPEN_CONN_REQUEST"
                    \/ cplace[serving] = "list" /\ Head(up[serving]).type = "LIST_REQUEST"
                    \/ cplace[serving] = "quit" /\ Head(up[serving]).type = "QUIT_REQUEST"
              \/ /\ cplace[serving] = "auth" /\ Head(up[serving]).type = "AUTH_REQUEST"
                 /\ \E login \in {0, 1} : up'[serving] = <<Body("login", login)>>
              \/ /\ cplace[serving] = "get" /\ Head(up[serving]).type = "GET_REQUEST"
                 /\ up'[serving] = <<Body("name", cname[serving])>>
              \/ /\ cplace[serving] = "put" /\ Head(up[serving]).type = "PUT_REQUEST"
                 /\ up'[serving] = <<Body("name", cname[serving])>>
<1>1. PICK c \in Clients : c = serving
  BY Types
<1>2. PICK stream \in Seq(Units) : stream = up[c]
  BY <1>1, Types
<1>3. PICK rest \in Seq(Units) :
        /\ rest = up'[c] /\ 1 <= Len(stream) /\ Len(rest) = Len(stream) - 1
        /\ \A i \in 1..Len(rest) : rest[i] = stream[1 + i]
  BY <1>1, <1>2, UnitsReceived
<1>4. stream # <<>>
  BY <1>3
<1>5. Behind(c)
  BY <1>1, <1>2, <1>4 DEF InSession, Taken, Answered, Listing, Getting, GetFollows, Asked, Putting, PutFollows
<1>6. PICK command \in Commands(c) : stream = command
  BY <1>1, <1>2, <1>5 DEF Behind, PutFollows
<1>7. down[c] = <<>> /\ Announced(c)
  BY <1>5 DEF Behind
<1>8. cplace[c] # "exited"
  BY <1>4, <1>6, CommandKinds
<1>9. c \notin left
  BY <1>8, ClientTypes
<1>10. ASSUME NEW header \in Units, stream = <<header>>,
              \/ cplace[c] = "open" /\ header.type = "OPEN_CONN_REQUEST"
              \/ cplace[c] = "list" /\ header.type = "LIST_REQUEST"
              \/ cplace[c] = "quit" /\ header.type = "QUIT_REQUEST"
       PROVE  /\ rest = <<>>
              /\ \/ cplace[c] = "open" /\ Head(stream).type = "OPEN_CONN_REQUEST"
                 \/ cplace[c] = "list" /\ Head(stream).type = "LIST_REQUEST"
                 \/ cplace[c] = "quit" /\ Head(stream).type = "QUIT_REQUEST"
  <2>1. Head(stream) = header /\ Len(stream) = 1
    BY <1>10
  <2>2. rest = <<>>
    BY <1>3, <2>1, ShortSequences
  <2> QED
    BY <1>10, <2>1, <2>2
<1>11. ASSUME NEW header \in Units, NEW body \in Units, stream = <<header, body>>
       PROVE  Head(stream) = header /\ rest = <<body>>
  <2>1. Head(stream) = header /\ Len(stream) = 2 /\ stream[2] = body
    BY <1>11
  <2>2. Len(rest) = 1 /\ rest[1] = body
    BY <1>3, <2>1
  <2> QED
    BY <2>1, <2>2, ShortSequences
<1>12. \/ /\ rest = <<>>
          /\ \/ cplace[c] = "open" /\ Head(stream).type = "OPEN_CONN_REQUEST"
             \/ cplace[c] = "list" /\ Head(stream).type = "LIST_REQUEST"
             \/ cplace[c] = "quit" /\ Head(stream).type = "QUIT_REQUEST"
       \/ \E body \in Units :
            /\ rest = <<body>>
            /\ \/ /\ cplace[c] = "auth" /\ Head(stream).type = "AUTH_REQUEST"
                  /\ \E login \in {0, 1} : body = Body("login", login)
               \/ /\ cplace[c] = "get" /\ Head(stream).type = "GET_REQUEST"
                  /\ body = Body("name", cname[c])
               \/ /\ cplace[c] = "put" /\ Head(stream).type = "PUT_REQUEST"
                  /\ body = Body("name", cname[c])
  BY <1>4, <1>6, <1>10, <1>11, CommandKinds
<1> QED
  BY <1>1, <1>2, <1>3, <1>7, <1>9, <1>12

\* A step of the server that leaves its client in step.
LEMMA SessionGoesOn ==
    ASSUME NEW c \in Clients, InSession(c), UNCHANGED <<serving, backlog, cplace, clientfd>>,
           splace' # "accept",
           Behind(c)' \/ Taken(c)' \/ Answered(c)' \/ Listing(c)' \/ Getting(c)' \/ Asked(c)'
             \/ Putting(c)'
    PROVE  InSession(c)'
<1>1. Served(c)' /\ ~Waits(c)'
  BY DEF InSession, Served, Waits
<1> QED
  BY <1>1 DEF InSession

\* The reply it sends.
LEMMA AnswerSent ==
    ASSUME IInv, NEW units \in Seq(Units), ServerSends(units), serving \notin left,
           down[serving] = <<>>
    PROVE  down'[serving] = units /\ reset' = reset
<1>1. down'[serving] = <<>> \o units /\ reset' = reset
  BY UnitsSent
<1>2. <<>> \o units = units
  OBVIOUS
<1> QED
  BY <1>1, <1>2

\* The replies are units.
LEMMA ReplyKinds ==
    /\ \A status \in {0, 1, UNUSED}, type \in HeaderTypes, length \in Nat :
         /\ <<get_header(status, type, length)>> \in Seq(Units)
         /\ <<get_header(status, type, length), Body("listing", 0), Body("listing", 0)>> \in Seq(Units)
<1> SUFFICES ASSUME NEW status \in {0, 1, UNUSED}, NEW type \in HeaderTypes, NEW length \in Nat
             PROVE  /\ <<get_header(status, type, length)>> \in Seq(Units)
                    /\ <<get_header(status, type, length), Body("listing", 0), Body("listing", 0)>>
                         \in Seq(Units)
  OBVIOUS
<1>1. PICK header \in Units : header = get_header(status, type, length)
  BY UnitKinds
<1>2. PICK listing \in Units : listing = Body("listing", 0)
  BY UnitKinds
<1> QED
  BY <1>1, <1>2

\* The server takes a request, and answers it or waits for the body.
LEMMA AnswersAtOnce ==
    ASSUME IInv, InSession(serving), UNCHANGED clientVars,
           ServeOpen \/ ServeQuit \/ (ServeList /\ splace' = "request")
    PROVE  InSession(serving)' /\ reset' = reset
<1>1. PICK c \in Clients : c = serving
  BY Types
<1>2. /\ UNCHANGED <<serving, backlog, cplace, clientfd>>
      /\ splace = "request" /\ splace' = "request" /\ ServerReceives(1)
  BY DEF ServeOpen, ServeQuit, ServeList, Request, sessionVars, clientVars
<1>3. /\ down[c] = <<>> /\ c \notin left
      /\ \/ /\ up'[c] = <<>>
            /\ \/ cplace[c] = "open" /\ Head(up[c]).type = "OPEN_CONN_REQUEST"
               \/ cplace[c] = "list" /\ Head(up[c]).type = "LIST_REQUEST"
               \/ cplace[c] = "quit" /\ Head(up[c]).type = "QUIT_REQUEST"
         \/ Head(up[c]).type \in {"AUTH_REQUEST", "GET_REQUEST", "PUT_REQUEST"}
  BY <1>1, <1>2, RequestTaken
<1>4. Answered(c)' /\ reset' = reset
  <2>1. CASE ServeOpen
    <3>1. PICK units : units = <<get_header(1, "OPEN_CONN_REPLY", 0)>>
      OBVIOUS
    <3>2. units \in Seq(Units)
      BY <3>1, ReplyKinds DEF HeaderTypes
    <3>3. ServerSends(units) /\ Head(up[c]).type = "OPEN_CONN_REQUEST"
      BY <1>1, <2>1, <3>1 DEF ServeOpen, Request
    <3>4. down'[c] = units /\ reset' = reset
      BY <1>1, <1>3, <3>2, <3>3, AnswerSent
    <3> QED
      BY <1>2, <1>3, <3>1, <3>3, <3>4 DEF Answered
  <2>2. CASE ServeQuit
    <3>1. PICK units : units = <<get_header(UNUSED, "QUIT_REPLY", 0)>>
      OBVIOUS
    <3>2. units \in Seq(Units)
      BY <3>1, ReplyKinds DEF HeaderTypes
    <3>3. ServerSends(units) /\ Head(up[c]).type = "QUIT_REQUEST"
      BY <1>1, <2>2, <3>1 DEF ServeQuit, Request
    <3>4. down'[c] = units /\ reset' = reset
      BY <1>1, <1>3, <3>2, <3>3, AnswerSent
    <3> QED
      BY <1>2, <1>3, <3>1, <3>3, <3>4 DEF Answered
  <2>3. CASE ServeList /\ splace' = "request"
    <3>1. PICK units :
            units = <<get_header(UNUSED, "LIST_REPLY", 2), Body("listing", 0), Body("listing", 0)>>
      OBVIOUS
    <3>2. units \in Seq(Units)
      BY <3>1, ReplyKinds DEF HeaderTypes
    <3>3. ServerSends(units) /\ Head(up[c]).type = "LIST_REQUEST"
      BY <1>1, <2>3, <3>1 DEF ServeList, Request
    <3>4. down'[c] = units /\ reset' = reset
      BY <1>1, <1>3, <3>2, <3>3, AnswerSent
    <3> QED
      BY <1>2, <1>3, <3>1, <3>3, <3>4 DEF Answered
  <2> QED
    BY <2>1, <2>2, <2>3
<1> QED
  BY <1>1, <1>2, <1>4, SessionGoesOn

\* A call that fails is a mishap of the client that is served.
LEMMA CallIsMishap ==
    ASSUME IInv, NEW call \in MishapKinds, NEW n, MishapOf(call, n), UNCHANGED serving
    PROVE  Mishap(serving)' /\ mishaps \subseteq mishaps'
<1>1. PICK kind \in MishapKinds : mishaps' = mishaps \cup {<<kind, serving>>}
  BY DEF MishapOf, MishapKinds
<1>2. <<kind, serving>> \in mishaps' /\ serving' = serving
  BY <1>1
<1> QED
  BY <1>1, <1>2 DEF Mishap

\* Without its pipe, List is a mishap.
LEMMA ListFails ==
    ASSUME IInv, ServeList, splace' # "request"
    PROVE  Mishap(serving)' /\ reset' = reset
<1>1. splace = "request" /\ serving' = serving
  BY DEF ServeList, Request
<1>2. MishapOf("popen", 2) /\ reset' = reset
  BY <1>1 DEF ServeList, ServerSendsNothing
<1> QED
  BY <1>1, <1>2, CallIsMishap DEF MishapKinds

\* The server takes the header of a request.
LEMMA TakesHeader ==
    ASSUME IInv, InSession(serving), UNCHANGED clientVars,
           \/ ServeBody("AUTH_REQUEST", "auth")
           \/ ServeBody("GET_REQUEST", "getName")
           \/ ServeBody("PUT_REQUEST", "putName")
           \/ WrongHeader
    PROVE  InSession(serving)' /\ reset' = reset
<1>1. PICK c \in Clients : c = serving
  BY Types
<1>2. /\ UNCHANGED <<serving, backlog, cplace, clientfd, cname, announced, disk, down, reset>>
      /\ splace = "request" /\ splace' # "accept" /\ ServerReceives(1)
  BY DEF ServeBody, WrongHeader, Request, sessionVars, clientVars, ServerSendsNothing
<1>3. /\ down[c] = <<>> /\ Announced(c)
      /\ \/ Head(up[c]).type \in {"OPEN_CONN_REQUEST", "LIST_REQUEST", "QUIT_REQUEST"}
         \/ /\ cplace[c] = "auth" /\ Head(up[c]).type = "AUTH_REQUEST"
            /\ \E login \in {0, 1} : up'[c] = <<Body("login", login)>>
         \/ /\ cplace[c] = "get" /\ Head(up[c]).type = "GET_REQUEST"
            /\ up'[c] = <<Body("name", cname[c])>>
         \/ /\ cplace[c] = "put" /\ Head(up[c]).type = "PUT_REQUEST"
            /\ up'[c] = <<Body("name", cname[c])>>
  BY <1>1, <1>2, RequestTaken
<1>4. Announced(c)'
  BY <1>2, <1>3 DEF Announced
<1>5. CASE ServeBody("AUTH_REQUEST", "auth")
  <2>1. Head(up[c]).type = "AUTH_REQUEST" /\ splace' = "auth"
    BY <1>1, <1>5 DEF ServeBody, Request
  <2>2. Taken(c)'
    BY <1>2, <1>3, <1>4, <2>1 DEF Taken
  <2> QED
    BY <1>1, <1>2, <2>2, SessionGoesOn
<1>6. CASE ServeBody("GET_REQUEST", "getName")
  <2>1. Head(up[c]).type = "GET_REQUEST" /\ splace' = "getName"
    BY <1>1, <1>6 DEF ServeBody, Request
  <2>2. Taken(c)'
    BY <1>2, <1>3, <1>4, <2>1 DEF Taken
  <2> QED
    BY <1>1, <1>2, <2>2, SessionGoesOn
<1>7. CASE ServeBody("PUT_REQUEST", "putName")
  <2>1. Head(up[c]).type = "PUT_REQUEST" /\ splace' = "putName"
    BY <1>1, <1>7 DEF ServeBody, Request
  <2>2. Taken(c)'
    BY <1>2, <1>3, <1>4, <2>1 DEF Taken
  <2> QED
    BY <1>1, <1>2, <2>2, SessionGoesOn
<1>8. CASE WrongHeader
  BY <1>1, <1>3, <1>8 DEF WrongHeader
<1> QED
  BY <1>5, <1>6, <1>7, <1>8

\* The body is what belongs to the header.
LEMMA BodyFound ==
    ASSUME IInv, InSession(serving), splace \in {"auth", "getName", "putName"},
           ServerReceives(1) \/ AtEnd(1)
    PROVE  /\ ServerReceives(1)
           /\ down[serving] = <<>> /\ serving \notin left /\ Announced(serving)
           /\ up'[serving] = <<>>
           /\ \/ /\ cplace[serving] = "auth" /\ splace = "auth"
                 /\ Head(up[serving]).value \in {0, 1}
              \/ /\ cplace[serving] = "get" /\ splace = "getName"
                 /\ Head(up[serving]).value = cname[serving]
              \/ /\ cplace[serving] = "put" /\ splace = "putName"
                 /\ Head(up[serving]).value = cname[serving]
<1>1. PICK c \in Clients : c = serving
  BY Types
<1>2. PICK stream \in Seq(Units) : stream = up[c]
  BY <1>1, Types
<1>3. Taken(c)
  BY <1>1 DEF InSession, Behind, PutFollows, Answered, Listing, Getting, GetFollows, Asked, Putting
<1>4. c \notin left
  BY <1>3, ClientTypes DEF Taken
<1>5. ServerReceives(1)
  BY <1>1, <1>4 DEF AtEnd
<1>6. PICK body : /\ stream = <<body>>
                  /\ \/ /\ cplace[c] = "auth" /\ splace = "auth"
                        /\ \E login \in {0, 1} : body = Body("login", login)
                     \/ /\ cplace[c] = "get" /\ splace = "getName"
                        /\ body = Body("name", cname[c])
                     \/ /\ cplace[c] = "put" /\ splace = "putName"
                        /\ body = Body("name", cname[c])
  BY <1>2, <1>3 DEF Taken
<1>7. Head(stream) = body /\ Len(stream) = 1
  BY <1>6
<1>8. up'[c] = <<>>
  BY <1>1, <1>2, <1>5, <1>7, UnitsReceived, ShortSequences
<1>9. \A type, value : Body(type, value).value = value
  BY DEF Body
<1>10. \/ cplace[c] = "auth" /\ splace = "auth" /\ body.value \in {0, 1}
       \/ cplace[c] = "get" /\ splace = "getName" /\ body.value = cname[c]
       \/ cplace[c] = "put" /\ splace = "putName" /\ body.value = cname[c]
  BY <1>6, <1>9
<1> QED
  BY <1>1, <1>2, <1>3, <1>4, <1>5, <1>7, <1>8, <1>10 DEF Taken

\* It takes the body and answers.
LEMMA TakesBody ==
    ASSUME IInv, InSession(serving), UNCHANGED clientVars,
           ServeAuth \/ GetRefused \/ PutName
    PROVE  InSession(serving)' /\ reset' = reset
<1>1. PICK c \in Clients : c = serving
  BY Types
<1>2. /\ UNCHANGED <<serving, backlog, cplace, clientfd, cname, announced, disk>>
      /\ splace \in {"auth", "getName", "putName"} /\ splace' # "accept"
      /\ ServerReceives(1) \/ AtEnd(1)
  BY DEF ServeAuth, GetRefused, PutName, sessionVars, clientVars
<1>3. /\ down[c] = <<>> /\ c \notin left /\ Announced(c)
      /\ up'[c] = <<>>
      /\ \/ cplace[c] = "auth" /\ splace = "auth" /\ Head(up[c]).value \in {0, 1}
         \/ cplace[c] = "get" /\ splace = "getName" /\ Head(up[c]).value = cname[c]
         \/ cplace[c] = "put" /\ splace = "putName" /\ Head(up[c]).value = cname[c]
  BY <1>1, <1>2, BodyFound
<1>4. CASE ServeAuth
  <2>1. PICK login \in {0, 1} : login = Head(up[c]).value
    BY <1>3, <1>4 DEF ServeAuth
  <2>2. PICK units : units = <<get_header(login, "AUTH_REPLY", 0)>>
    OBVIOUS
  <2>3. units \in Seq(Units)
    BY <2>2, ReplyKinds DEF HeaderTypes
  <2>4. ServerSends(units) /\ splace' = "request" /\ splace = "auth"
    BY <1>1, <1>4, <2>1, <2>2 DEF ServeAuth
  <2>5. down'[c] = units /\ reset' = reset
    BY <1>1, <1>3, <2>3, <2>4, AnswerSent
  <2>6. Answered(c)'
    BY <1>2, <1>3, <2>2, <2>4, <2>5 DEF Answered
  <2> QED
    BY <1>1, <1>2, <2>5, <2>6, SessionGoesOn
<1>5. CASE GetRefused
  <2>1. PICK units : units = <<GetReply(0)>>
    OBVIOUS
  <2>2. units \in Seq(Units)
    BY <2>1, ReplyKinds DEF HeaderTypes, GetReply
  <2>3. ServerSends(units) /\ splace' = "request" /\ splace = "getName"
    BY <1>5, <2>1 DEF GetRefused
  <2>4. down'[c] = units /\ reset' = reset
    BY <1>1, <1>3, <2>2, <2>3, AnswerSent
  <2>5. Answered(c)'
    BY <1>2, <1>3, <2>1, <2>3, <2>4 DEF Answered
  <2> QED
    BY <1>1, <1>2, <2>4, <2>5, SessionGoesOn
<1>6. CASE PutName
  <2>1. PICK units : units = <<PutReply>>
    OBVIOUS
  <2>2. units \in Seq(Units)
    BY <2>1, ReplyKinds DEF HeaderTypes, PutReply
  <2>3. /\ ServerSends(units) /\ splace' = "putHeader" /\ splace = "putName"
        /\ sname' = Head(up[c]).value
    BY <1>1, <1>6, <2>1 DEF PutName
  <2>4. down'[c] = units /\ reset' = reset
    BY <1>1, <1>3, <2>2, <2>3, AnswerSent
  <2>5. Asked(c)'
    BY <1>2, <1>3, <2>1, <2>3, <2>4 DEF Asked, Announced
  <2> QED
    BY <1>1, <1>2, <2>4, <2>5, SessionGoesOn
<1> QED
  BY <1>4, <1>5, <1>6

\* Files that are no directory.
LEMMA RegularFile ==
    ASSUME NEW file \in Files, IsRegular(file)
    PROVE  file.blocks \in Seq(Blocks) /\ file.size = Len(file.blocks) /\ file.size \in Nat
<1>1. PICK blocks \in Seq(Blocks) : blocks = file.blocks
  BY FileKinds
<1>2. Len(blocks) \in Nat
  OBVIOUS
<1> QED
  BY <1>1, <1>2 DEF IsRegular, Regular

\* The files that are regular.
LEMMA RegularFiles ==
    /\ \A blocks \in Seq(Blocks) :
         /\ Regular(blocks) \in Files /\ IsRegular(Regular(blocks))
         /\ Regular(blocks).blocks = blocks /\ Regular(blocks).size = Len(blocks)
    /\ \A file \in Files : file \in {Absent, Directory} \/ IsRegular(file)
BY DEF IsRegular, Regular, Files

\* Get's file is announced.
LEMMA OpensSource ==
    ASSUME IInv, InSession(serving), UNCHANGED clientVars, GetFile
    PROVE  (InSession(serving)' \/ Mishap(serving)') /\ reset' = reset
<1>1. PICK c \in Clients : c = serving
  BY Types
<1>2. /\ UNCHANGED <<serving, backlog, cplace, clientfd, cname, disk>>
      /\ splace = "getName" /\ splace' = "getData" /\ sleft' = 0
      /\ ServerReceives(1) /\ sname' = Head(up[c]).value
  BY <1>1 DEF GetFile, clientVars
<1>3. /\ down[c] = <<>> /\ c \notin left /\ up'[c] = <<>>
      /\ cplace[c] = "get" /\ sname' = cname[c]
  BY <1>1, <1>2, BodyFound
<1>4. PICK name \in Names : name = cname[c]
  BY ClientTypes
<1>5. PICK file \in Files : file = disk[Server][name]
  BY Types
<1>6. /\ file # Absent
      /\ ServerSends(<<GetReply(1), get_header(UNUSED, "FILE_DATA", file.size)>>)
      /\ mishaps' = IF file = Directory THEN mishaps \cup {<<"directory", serving>>} ELSE mishaps
  BY <1>3, <1>4, <1>5 DEF GetFile
<1>7. reset' = reset
  BY <1>1, <1>3, <1>6 DEF ServerSends
<1>8. CASE file = Directory
  <2>1. <<"directory", serving>> \in mishaps' /\ serving' = serving
    BY <1>2, <1>6, <1>8
  <2> QED
    BY <1>7, <2>1 DEF Mishap, MishapKinds
<1>9. CASE file # Directory
  <2>1. IsRegular(file)
    BY <1>6, <1>9, RegularFiles
  <2>2. PICK source \in Seq(Blocks) : source = file.blocks /\ file.size = Len(source) /\ Len(source) \in Nat
    BY <2>1, RegularFile
  <2>3. PICK answer \in Units, header \in Units :
          answer = GetReply(1) /\ header = get_header(UNUSED, "FILE_DATA", file.size)
    <3>1. GetReply(1) \in Units
      BY UnitKinds DEF GetReply, HeaderTypes
    <3>2. get_header(UNUSED, "FILE_DATA", file.size) \in Units
      BY <2>2, UnitKinds DEF HeaderTypes
    <3> QED
      BY <3>1, <3>2
  <2>4. PICK units \in Seq(Units) : units = <<answer, header>>
    <3>1. <<answer, header>> \in Seq(Units)
      OBVIOUS
    <3> QED
      BY <3>1
  <2>5. ServerSends(units)
    BY <1>6, <2>3, <2>4
  <2>6. down'[c] = units
    BY <1>1, <1>3, <2>5, AnswerSent
  <2>7. units[1] = answer /\ units[2] = header /\ Len(units) = 2
    BY <2>4
  <2>8. Carries(units, 2, source, 0, 0, <<>>)
    BY <2>2, <2>7 DEF Carries
  <2>9. disk'[Server][sname'] = file /\ cname'[c] = sname'
    BY <1>2, <1>3, <1>4, <1>5
  <2>10. GetFollows(c, 2, 0)'
    BY <1>2, <1>3, <2>1, <2>2, <2>6, <2>8, <2>9 DEF GetFollows
  <2>11. Getting(c)'
    BY <1>2, <1>3, <2>3, <2>6, <2>7, <2>9, <2>10 DEF Getting, DataHeader
  <2> QED
    BY <1>1, <1>2, <1>7, <2>11, SessionGoesOn
<1> QED
  BY <1>8, <1>9

\* One turn of the server's loop, for any number of units before the blocks.
LEMMA SourceGoesOn ==
    ASSUME IInv, NEW c \in Clients, c = serving, c \notin left, GetBlocks, UNCHANGED clientVars,
           NEW front \in Nat, NEW written \in Nat, GetFollows(c, front, written)
    PROVE  /\ GetFollows(c, front, written)'
           /\ \A i \in 1..front : down'[c][i] = down[c][i]
           /\ reset' = reset
<1>1. /\ UNCHANGED <<serving, backlog, cplace, clientfd, cname, disk, up, sname>>
      /\ splace = "getData"
  BY DEF GetBlocks, clientVars, sessionVars
<1>2. PICK file \in Files : file = disk[Server][sname]
  BY Types
<1>3. IsRegular(file) /\ Carries(down[c], front, file.blocks, written, sleft, <<>>)
  BY <1>1, <1>2 DEF GetFollows
<1>4. PICK source \in Seq(Blocks) : source = file.blocks /\ file.size = Len(source)
  BY <1>3, RegularFile
<1>5. PICK sent \in Nat : sent = sleft
  BY Types
<1>6. sent <= file.size
  BY <1>3, <1>4, <1>5 DEF Carries
<1>7. PICK blocks : blocks = NextBlocks(file, sent)
  OBVIOUS
<1>8. PICK end \in Nat : PartRead(file, sent, end, blocks)
  BY <1>3, <1>6, <1>7, FileParts
<1>9. /\ blocks \in Seq(Blocks) /\ Len(blocks) = end - sent
      /\ AsUnits(blocks) \in Seq(Units)
      /\ Carries(AsUnits(blocks), 0, file.blocks, sent, end, <<>>)
      /\ blocks = <<>> <=> sent = file.size
  BY <1>8 DEF PartRead
<1>10. PICK units \in Seq(Units) : units = AsUnits(blocks)
  BY <1>9
<1>11. CASE blocks = <<>>
  <2>1. splace' = "request" /\ UNCHANGED <<down, reset>>
    BY <1>2, <1>5, <1>7, <1>11 DEF GetBlocks, ServerSendsNothing
  <2>2. sleft = file.size
    BY <1>5, <1>9, <1>11
  <2>3. GetFollows(c, front, written)'
    BY <1>1, <1>2, <1>3, <2>1, <2>2 DEF GetFollows
  <2> QED
    BY <2>1, <2>3
<1>12. CASE blocks # <<>>
  <2>1. splace' = "getData" /\ ServerSends(units) /\ sleft' = end
    BY <1>1, <1>2, <1>5, <1>7, <1>9, <1>10, <1>12 DEF GetBlocks
  <2>2. PICK stream \in Seq(Units) : stream = down[c]
    BY Types
  <2>3. PICK longer : longer = stream \o units
    OBVIOUS
  <2>4. down'[c] = longer /\ reset' = reset
    BY <2>1, <2>2, <2>3, UnitsSent
  <2>5. /\ Carries(stream, front, source, written, sent, <<>>)
        /\ Carries(units, 0, source, sent, end, <<>>)
    <3>1. Carries(stream, front, source, written, sent, <<>>)
      BY <1>3, <1>4, <1>5, <2>2
    <3>2. Carries(units, 0, source, sent, end, <<>>)
      BY <1>4, <1>9, <1>10
    <3> QED
      BY <3>1, <3>2
  <2>6. <<>> \in Seq(Units)
    OBVIOUS
  <2>7. Carries(longer, front, source, written, end, <<>>)
    BY <2>3, <2>5, <2>6, CarriesMore
  <2>8. \A i \in 1..front : longer[i] = stream[i]
    <3>1. Len(stream) = front + (sent - written) + Len(<<>>) /\ written <= sent /\ Len(<<>>) = 0
      BY <2>5 DEF Carries
    <3>2. \A i \in 1..front : i \in 1..Len(stream)
      BY <3>1
    <3>3. \A i \in 1..Len(stream) : longer[i] = stream[i]
      BY <2>3, LongerSequence
    <3> QED
      BY <3>2, <3>3
  <2>9. disk'[Server][sname'] = file /\ sleft' = end
    BY <1>1, <1>2, <2>1
  <2>10. GetFollows(c, front, written)'
    BY <1>1, <1>3, <1>4, <2>1, <2>4, <2>7, <2>9 DEF GetFollows
  <2> QED
    BY <2>2, <2>4, <2>10, <2>8
<1> QED
  BY <1>11, <1>12

\* A turn of Get's loop, wherever the client stands.
LEMMA SameCommands ==
    ASSUME NEW c \in Clients, UNCHANGED <<cplace, cname>>, NEW command \in Commands(c)
    PROVE  command \in Commands(c)'
BY DEF Commands

\* A turn of Get's loop leaves the client in step.
LEMMA SendsBlocks ==
    ASSUME IInv, InSession(serving), UNCHANGED clientVars, GetBlocks
    PROVE  InSession(serving)' /\ reset' = reset
<1>1. PICK c \in Clients : c = serving
  BY Types
<1>2. /\ UNCHANGED <<serving, backlog, cplace, clientfd, cname, announced, cleft, disk, up, sname>>
      /\ splace = "getData" /\ splace' # "accept"
  BY DEF GetBlocks, clientVars, sessionVars
<1>3. Behind(c) \/ Getting(c)
  BY <1>1, <1>2 DEF InSession, Taken, Answered, Listing, Asked, Putting, PutFollows
<1>4. PICK file \in Files : file = disk[Server][sname]
  BY Types
<1>5. CASE Behind(c)
  <2>1. PICK command \in Commands(c) : up[c] = command
    BY <1>2, <1>5 DEF Behind, PutFollows
  <2>2. IsRegular(file) /\ sleft = file.size /\ down[c] = <<>> /\ Announced(c)
    BY <1>2, <1>4, <1>5 DEF Behind, PutFollows
  <2>3. file.size \in Nat
    BY <2>2, RegularFile
  <2>4. PICK blocks : blocks = NextBlocks(file, sleft)
    OBVIOUS
  <2>5. blocks = <<>>
    <3>1. PICK end \in Nat : PartRead(file, file.size, end, blocks)
      BY <2>2, <2>3, <2>4, FileParts
    <3> QED
      BY <3>1 DEF PartRead
  <2>6. splace' = "request" /\ UNCHANGED <<down, reset>>
    BY <1>2, <1>4, <2>4, <2>5 DEF GetBlocks, ServerSendsNothing
  <2>7. command \in Commands(c)'
    BY <1>2, SameCommands
  <2>8. Announced(c)'
    BY <1>2, <2>2 DEF Announced
  <2>9. Behind(c)'
    BY <1>2, <2>1, <2>2, <2>6, <2>7, <2>8 DEF Behind
  <2> QED
    BY <1>1, <1>2, <2>6, <2>9, SessionGoesOn
<1>6. CASE Getting(c)
  <2>1. c \notin left
    BY <1>6, ClientTypes DEF Getting
  <2>2. CASE cplace[c] = "get"
    <3>1. /\ GetFollows(c, 2, 0)
          /\ down[c][1] = GetReply(1) /\ down[c][2] = DataHeader(disk[Server][sname])
      BY <1>6, <2>2 DEF Getting
    <3>2. 2 \in Nat /\ 0 \in Nat /\ 1 \in 1..2 /\ 2 \in 1..2
      OBVIOUS
    <3>3. GetFollows(c, 2, 0)' /\ down'[c][1] = down[c][1] /\ down'[c][2] = down[c][2] /\ reset' = reset
      BY <1>1, <2>1, <3>1, <3>2, SourceGoesOn
    <3>4. Getting(c)'
      BY <1>2, <2>2, <3>1, <3>3 DEF Getting, DataHeader
    <3> QED
      BY <1>1, <1>2, <3>3, <3>4, SessionGoesOn
  <2>3. CASE cplace[c] = "getHeader"
    <3>1. /\ GetFollows(c, 1, 0)
          /\ down[c][1] = DataHeader(disk[Server][sname])
      BY <1>6, <2>3 DEF Getting
    <3>2. 1 \in Nat /\ 0 \in Nat /\ 1 \in 1..1
      OBVIOUS
    <3>3. GetFollows(c, 1, 0)' /\ down'[c][1] = down[c][1] /\ reset' = reset
      BY <1>1, <2>1, <3>1, <3>2, SourceGoesOn
    <3>4. Getting(c)'
      BY <1>2, <2>3, <3>1, <3>3 DEF Getting, DataHeader
    <3> QED
      BY <1>1, <1>2, <3>3, <3>4, SessionGoesOn
  <2>4. CASE cplace[c] = "getData"
    <3>1. PICK target \in Files : target = disk[c][cname[c]]
      BY Types, ClientTypes
    <3>2. /\ IsRegular(target)
          /\ GetFollows(c, 0, target.size)
          /\ Copied(target.blocks, file.blocks)
          /\ cleft[c] = file.size - target.size
      BY <1>4, <1>6, <2>4, <3>1 DEF Getting
    <3>3. PICK written \in Nat : written = target.size
      BY <3>2, RegularFile
    <3>4. GetFollows(c, 0, written)' /\ reset' = reset
      BY <1>1, <2>1, <3>2, <3>3, SourceGoesOn
    <3>5. GetFollows(c, 0, disk[c][cname[c]].size)'
      BY <1>2, <3>1, <3>3, <3>4 DEF GetFollows
    <3>6. disk'[c][cname'[c]] = target /\ disk'[Server][sname'] = file /\ cleft'[c] = cleft[c]
      BY <1>2, <1>4, <3>1
    <3>7. Getting(c)'
      BY <1>2, <2>4, <3>2, <3>5, <3>6 DEF Getting
    <3> QED
      BY <1>1, <1>2, <3>4, <3>7, SessionGoesOn
  <2> QED
    BY <1>6, <2>2, <2>3, <2>4 DEF Getting
<1> QED
  BY <1>3, <1>5, <1>6

\* The server writes to a file of its own.
LEMMA DiskWritten ==
    ASSUME IInv, NEW c \in Clients, NEW name \in Names, NEW file,
           disk' = [disk EXCEPT ![Server][name] = file]
    PROVE  disk'[Server][name] = file /\ disk'[c] = disk[c]
<1>1. Server \in Hosts /\ c \in Hosts /\ c # Server /\ disk \in [Hosts -> [Names -> Files]]
  BY FtpAssumption, Types
<1> QED
  BY <1>1

\* What it leaves of the stream.
LEMMA RestReceived ==
    ASSUME IInv, NEW n \in Nat, ServerReceives(n)
    PROVE  IsRest(up'[serving], up[serving], n)
BY UnitsReceived DEF IsRest

\* Put's header is taken, which the file follows.
LEMMA TargetOpened ==
    ASSUME IInv, NEW c \in Clients, c = serving, splace = "putHeader", PutHeader,
           UNCHANGED clientVars, NEW sent \in Nat, NEW command \in Seq(Units),
           PutFollows(c, sent, command)
    PROVE  /\ (PutFollows(c, sent, command)' /\ splace' = "putData") \/ Mishap(c)'
           /\ UNCHANGED <<serving, backlog, sname, down, reset>> /\ disk'[c] = disk[c]
<1>1. UNCHANGED <<serving, backlog, sname, down, reset>>
  BY DEF PutHeader, ServerSendsNothing
<1>2. PICK file \in Files : file = disk[c][sname]
  BY Types
<1>3. IsRegular(file) /\ Carries(up[c], 1, file.blocks, 0, sent, command) /\ up[c][1] = DataHeader(file)
  BY <1>2 DEF PutFollows
<1>4. PICK source \in Seq(Blocks) : source = file.blocks /\ file.size = Len(source) /\ file.size \in Nat
  BY <1>3, RegularFile
<1>5. PICK stream \in Seq(Units) : stream = up[c]
  BY Types
<1>6. Len(stream) \in Nat /\ Len(stream) >= 1 /\ stream # <<>> /\ 1 \in 1..Len(stream)
  <2>1. Len(command) \in Nat /\ Len(stream) \in Nat /\ Len(stream) = 1 + (sent - 0) + Len(command)
    BY <1>3, <1>5 DEF Carries
  <2>2. Len(stream) >= 1
    BY <2>1
  <2> QED
    BY <2>1, <2>2
<1>7. PICK header : header = DataHeader(file)
  OBVIOUS
<1>8. header.length = file.size /\ header.type = "FILE_DATA"
  BY <1>7 DEF DataHeader, get_header
<1>9. header \notin BodyUnits
  BY <1>8 DEF BodyUnits, Bodies
<1>10. Head(stream) = header
  BY <1>3, <1>5, <1>6, <1>7
<1>11. ServerReceives(1) /\ OpenForPut(header)
  <2>1. ~AtEnd(1)
    BY <1>5, <1>6 DEF AtEnd
  <2>2. ServerReceives(1) /\ \E h \in AsHeader(header) : OpenForPut(h)
    BY <1>5, <1>10, <2>1 DEF PutHeader
  <2> QED
    BY <1>9, <2>2 DEF AsHeader
<1>12. PICK rest : rest = up'[c] /\ IsRest(rest, stream, 1)
  BY <1>5, <1>11, RestReceived
<1>13. CASE splace' = "putNull"
  <2>1. UNCHANGED disk
    BY <1>11, <1>13 DEF OpenForPut
  <2>2. CASE mishaps' = mishaps \cup {<<"directory", c>>}
    BY <1>1, <2>1, <2>2 DEF Mishap, MishapKinds
  <2>3. CASE MishapOf("fopen", 1)
    <3>1. Mishap(serving)' /\ serving' = c
      BY <1>1, <2>3, CallIsMishap DEF MishapKinds
    <3>2. Mishap(c)'
      BY <3>1 DEF Mishap
    <3> QED
      BY <1>1, <2>1, <3>2
  <2> QED
    BY <1>11, <1>13, <2>2, <2>3 DEF OpenForPut
<1>14. CASE splace' # "putNull"
  <2>1. PICK empty \in Files : empty = Regular(<<>>) /\ IsRegular(empty) /\ empty.blocks = <<>> /\ empty.size = 0
    <3>1. <<>> \in Seq(Blocks) /\ Len(<<>>) = 0
      OBVIOUS
    <3> QED
      BY <3>1, RegularFiles
  <2>2. /\ splace' = "putData" /\ sleft' = file.size
        /\ disk' = [disk EXCEPT ![Server][sname] = empty]
    BY <1>8, <1>11, <1>14, <2>1 DEF OpenForPut, Create
  <2>3. disk'[Server][sname] = empty /\ disk'[c] = disk[c]
    BY <2>2, DiskWritten, Types
  <2>4. Carries(rest, 0, source, 0, sent, command)
    <3>1. PICK one, none \in Nat : one = 1 /\ none = 0 /\ one = none + 1
      OBVIOUS
    <3>2. Carries(stream, one, source, none, sent, command)
      BY <1>3, <1>4, <1>5, <3>1
    <3>3. Carries(rest, none, source, none, sent, command)
      BY <1>12, <3>1, <3>2, HeaderOff
    <3> QED
      BY <3>1, <3>3
  <2>5. Copied(<<>>, source)
    BY <1>4 DEF Copied
  <2>6. sleft' = file.size - empty.size
    BY <1>4, <2>1, <2>2
  <2>7. disk'[c][sname'] = file /\ disk'[Server][sname'] = empty
    BY <1>1, <1>2, <2>3
  <2>8. PutFollows(c, sent, command)'
    BY <1>3, <1>4, <1>12, <2>1, <2>2, <2>4, <2>5, <2>6, <2>7 DEF PutFollows
  <2> QED
    BY <1>1, <2>2, <2>3, <2>8
<1> QED
  BY <1>13, <1>14

\* One turn of Put's loop.
LEMMA TargetWritten ==
    ASSUME IInv, NEW c \in Clients, c = serving, PutBlocks,
           UNCHANGED clientVars, NEW sent \in Nat, NEW command \in Seq(Units),
           PutFollows(c, sent, command), command = <<>> \/ sent = disk[c][sname].size
    PROVE  PutFollows(c, sent, command)' /\ disk'[c] = disk[c]
<1>1. UNCHANGED <<serving, sname, splace>> /\ splace = "putData" /\ sleft > 0
  BY DEF PutBlocks, sessionVars, ServerSendsNothing
<1>2. PICK file \in Files : file = disk[c][sname]
  BY Types
<1>3. PICK target \in Files : target = disk[Server][sname]
  BY Types
<1>4. /\ IsRegular(file) /\ IsRegular(target)
      /\ Copied(target.blocks, file.blocks)
      /\ sleft = file.size - target.size
      /\ Carries(up[c], 0, file.blocks, target.size, sent, command)
  BY <1>1, <1>2, <1>3 DEF PutFollows
<1>5. PICK source \in Seq(Blocks) : source = file.blocks /\ file.size = Len(source) /\ file.size \in Nat
  BY <1>4, RegularFile
<1>6. PICK before \in Seq(Blocks) : before = target.blocks /\ target.size = Len(before)
  BY <1>4, RegularFile
<1>7. PICK from \in Nat : from = target.size
  BY <1>4, RegularFile
<1>8. PICK stream \in Seq(Units) : stream = up[c]
  BY Types
<1>9. PICK length \in Nat : length = sleft
  BY Types
<1>10. PICK n \in Nat : n = Chunk(length) /\ n <= length
  BY ChunkBounds
<1>11. ServerReceives(n) /\ sleft' = length - n
  BY <1>9, <1>10 DEF PutBlocks
<1>12. PICK units : units = SubSeq(stream, 1, n)
  OBVIOUS
<1>13. PICK blocks \in AsBlocks(units) : Write(Server, sname, blocks)
  BY <1>8, <1>9, <1>10, <1>12 DEF PutBlocks
<1>14. PICK rest : rest = up'[c] /\ IsRest(rest, stream, n)
  BY <1>8, <1>11, RestReceived
<1>15. Carries(stream, 0, source, from, sent, command)
  BY <1>4, <1>5, <1>7, <1>8
<1>16. PICK next \in Nat : next = from + n
  <2>1. from + n \in Nat
    OBVIOUS
  <2> QED
    BY <2>1
<1>17. next <= sent
  <2>1. CASE command = <<>>
    <3>1. Len(stream) = (sent - from) + Len(<<>>) /\ Len(<<>>) = 0 /\ from <= sent
      BY <1>15, <2>1 DEF Carries
    <3>2. Len(stream) = sent - from
      BY <3>1
    <3>3. n <= Len(stream)
      BY <1>14 DEF IsRest
    <3> QED
      BY <1>16, <3>2, <3>3
  <2>2. CASE sent = file.size
    <3>1. length = sent - from
      BY <1>4, <1>7, <1>9, <2>2
    <3> QED
      BY <1>10, <1>16, <3>1
  <2> QED
    BY <1>2, <2>1, <2>2
<1>18. Carries(rest, 0, source, next, sent, command)
  BY <1>14, <1>15, <1>16, <1>17, BlocksOff
<1>19. PICK longer : longer = before \o blocks
  OBVIOUS
<1>20. longer \in Seq(Blocks) /\ Len(longer) = next /\ Copied(longer, source)
  <2>1. IsPart(blocks, source, from, next)
    BY <1>12, <1>13, <1>15, <1>16, <1>17, BlocksWritten
  <2>2. Copied(before, source) /\ from = Len(before)
    BY <1>4, <1>5, <1>6, <1>7
  <2>3. IsCopy(longer, source, next)
    BY <1>19, <2>1, <2>2, CopyGrows
  <2> QED
    BY <2>3 DEF IsCopy
<1>21. PICK now \in Files : now = Regular(longer) /\ IsRegular(now) /\ now.blocks = longer /\ now.size = next
  BY <1>20, RegularFiles
<1>22. disk' = [disk EXCEPT ![Server][sname] = now]
  BY <1>3, <1>6, <1>13, <1>19, <1>21 DEF Write
<1>23. disk'[Server][sname] = now /\ disk'[c] = disk[c]
  BY <1>22, DiskWritten, Types
<1>24. sleft' = file.size - now.size
  <2>1. sleft' = length - n /\ length = file.size - from /\ file.size \in Nat
    BY <1>4, <1>5, <1>7, <1>9, <1>11
  <2>2. now.size = from + n
    BY <1>16, <1>21
  <2> QED
    BY <2>1, <2>2, SMTT(30)
<1>25. disk'[c][sname'] = file /\ disk'[Server][sname'] = now
  BY <1>1, <1>2, <1>23
<1>26. PutFollows(c, sent, command)'
  BY <1>1, <1>4, <1>5, <1>14, <1>18, <1>20, <1>21, <1>24, <1>25 DEF PutFollows
<1> QED
  BY <1>23, <1>26

\* All of the file is there.
LEMMA TargetWhole ==
    ASSUME IInv, NEW c \in Clients, c = serving, splace = "putData", sleft = 0,
           NEW sent \in Nat, NEW command \in Seq(Units), PutFollows(c, sent, command)
    PROVE  /\ up[c] = command /\ sent = disk[c][sname].size
           /\ disk[Server][sname] = disk[c][sname]
<1>1. PICK file \in Files : file = disk[c][sname]
  BY Types
<1>2. PICK target \in Files : target = disk[Server][sname]
  BY Types
<1>3. /\ IsRegular(file) /\ IsRegular(target)
      /\ Copied(target.blocks, file.blocks)
      /\ sleft = file.size - target.size
      /\ Carries(up[c], 0, file.blocks, target.size, sent, command)
  BY <1>1, <1>2 DEF PutFollows
<1>4. PICK source \in Seq(Blocks) : source = file.blocks /\ file.size = Len(source) /\ file.size \in Nat
  BY <1>3, RegularFile
<1>5. PICK before \in Seq(Blocks) : before = target.blocks /\ target.size = Len(before) /\ target.size \in Nat
  BY <1>3, RegularFile
<1>6. Len(before) = Len(source) /\ target.size = file.size
  BY <1>3, <1>4, <1>5
<1>7. before = source
  BY <1>3, <1>4, <1>5, <1>6, AllCopied
<1>8. target = file
  BY <1>3, <1>4, <1>5, <1>7 DEF IsRegular
<1>9. PICK stream \in Seq(Units) : stream = up[c]
  BY Types
<1>10. PICK from \in Nat : from = target.size
  BY <1>5
<1>11. Carries(stream, 0, source, from, sent, command) /\ from = Len(source)
  BY <1>3, <1>4, <1>6, <1>9, <1>10
<1>12. stream = command /\ sent = from
  BY <1>11, CarriesNoBlock
<1> QED
  BY <1>1, <1>2, <1>6, <1>8, <1>9, <1>10, <1>12

\* Put's file on its way: before the next command, or in c's loop.
Sending(c, sent, command) ==
    /\ down[c] = <<>>
    /\ \/ command \in Commands(c) /\ sent = disk[c][sname].size /\ Announced(c)
       \/ command = <<>> /\ sent = cleft[c] /\ cplace[c] = "putData" /\ sname = cname[c]

\* The server is in Put: the file follows.
LEMMA FileComes ==
    ASSUME IInv, NEW c \in Clients, InSession(c),
           splace \in {"putHeader", "putData"}, ~Asked(c)
    PROVE  \E sent \in Nat, command \in Seq(Units) :
             /\ PutFollows(c, sent, command) /\ Sending(c, sent, command)
             /\ command = <<>> \/ sent = disk[c][sname].size
<1>1. Behind(c) \/ Putting(c)
  BY DEF InSession, Taken, Answered, Listing, Getting, GetFollows
<1>2. CASE Behind(c)
  <2>1. PICK command \in Commands(c) : PutFollows(c, disk[c][sname].size, command)
    BY <1>2 DEF Behind
  <2>2. PICK file \in Files : file = disk[c][sname]
    BY Types
  <2>3. IsRegular(file)
    BY <2>1, <2>2 DEF PutFollows
  <2>4. PICK sent \in Nat : sent = disk[c][sname].size
    BY <2>2, <2>3, RegularFile
  <2>5. command \in Seq(Units)
    BY <2>1, CommandKinds
  <2>6. Sending(c, sent, command)
    BY <1>2, <2>4 DEF Behind, Sending
  <2>7. PutFollows(c, sent, command)
    BY <2>1, <2>4
  <2> QED
    BY <2>4, <2>5, <2>6, <2>7
<1>3. CASE Putting(c)
  <2>1. <<>> \in Seq(Units)
    OBVIOUS
  <2>2. PICK command \in Seq(Units) : command = <<>>
    BY <2>1
  <2>3. PICK sent \in Nat : sent = cleft[c]
    BY ClientTypes
  <2>4. PutFollows(c, sent, command) /\ Sending(c, sent, command)
    BY <1>3, <2>2, <2>3 DEF Putting, Sending
  <2> QED
    BY <2>2, <2>4
<1> QED
  BY <1>1, <1>2, <1>3

\* More of the file follows when the client has sent more of it.
LEMMA FileStillComes ==
    ASSUME NEW c \in Clients, NEW sent \in Nat, NEW command \in Seq(Units),
           Sending(c, sent, command), PutFollows(c, sent, command)',
           UNCHANGED <<cplace, cname, cleft, announced, sname, down>>, disk'[c] = disk[c]
    PROVE  Behind(c)' \/ Putting(c)'
<1>1. down'[c] = <<>>
  BY DEF Sending
<1>2. CASE command \in Commands(c) /\ sent = disk[c][sname].size /\ Announced(c)
  <2>1. command \in Commands(c)'
    BY <1>2, SameCommands
  <2>2. Announced(c)'
    BY <1>2 DEF Announced
  <2>3. PutFollows(c, disk[c][sname].size, command)'
    BY <1>2
  <2>4. Behind(c)'
    BY <1>1, <2>1, <2>2, <2>3 DEF Behind
  <2> QED
    BY <2>4
<1>3. CASE command = <<>> /\ sent = cleft[c] /\ cplace[c] = "putData" /\ sname = cname[c]
  <2>1. PutFollows(c, cleft[c], <<>>)'
    BY <1>3
  <2>2. Putting(c)'
    BY <1>1, <1>3, <2>1 DEF Putting
  <2> QED
    BY <2>2
<1> QED
  BY <1>2, <1>3 DEF Sending

\* Put's steps at the server, for the client in step.
LEMMA OpensTarget ==
    ASSUME IInv, InSession(serving), UNCHANGED clientVars, PutHeader
    PROVE  (InSession(serving)' \/ Mishap(serving)') /\ reset' = reset
<1>1. PICK c \in Clients : c = serving
  BY Types
<1>2. /\ UNCHANGED <<cplace, clientfd, cname, announced, cleft, reset>>
      /\ splace = "putHeader" /\ (ServerReceives(1) \/ AtEnd(1))
  BY DEF PutHeader, clientVars, ServerSendsNothing
<1>3. ~Asked(c)
  <2> SUFFICES ASSUME Asked(c) PROVE FALSE
    OBVIOUS
  <2>1. c \notin left
    BY ClientTypes DEF Asked
  <2>2. ServerReceives(1)
    BY <1>1, <1>2, <2>1 DEF AtEnd
  <2>3. Len(up[c]) >= 1
    BY <1>1, <2>2 DEF ServerReceives
  <2> QED
    BY <2>3 DEF Asked
<1>4. PICK sent \in Nat, command \in Seq(Units) :
        PutFollows(c, sent, command) /\ Sending(c, sent, command)
  BY <1>1, <1>2, <1>3, FileComes
<1>5. /\ (PutFollows(c, sent, command)' /\ splace' = "putData") \/ Mishap(c)'
      /\ UNCHANGED <<serving, backlog, sname, down>> /\ disk'[c] = disk[c]
  BY <1>1, <1>2, <1>4, TargetOpened
<1>6. CASE PutFollows(c, sent, command)' /\ splace' = "putData"
  <2>1. Behind(c)' \/ Putting(c)'
    BY <1>2, <1>4, <1>5, <1>6, FileStillComes
  <2> QED
    BY <1>1, <1>2, <1>5, <1>6, <2>1, SessionGoesOn
<1>7. CASE Mishap(c)'
  BY <1>1, <1>2, <1>5, <1>7
<1> QED
  BY <1>5, <1>6, <1>7

\* A turn of Put's loop at the server leaves the client in step.
LEMMA WritesTarget ==
    ASSUME IInv, InSession(serving), UNCHANGED clientVars, PutBlocks
    PROVE  InSession(serving)' /\ reset' = reset
<1>1. PICK c \in Clients : c = serving
  BY Types
<1>2. /\ UNCHANGED <<cplace, clientfd, cname, announced, cleft, reset, down, serving, backlog, sname, splace>>
      /\ splace = "putData" /\ splace' # "accept"
  BY DEF PutBlocks, clientVars, ServerSendsNothing, sessionVars
<1>3. ~Asked(c)
  BY <1>2 DEF Asked
<1>4. PICK sent \in Nat, command \in Seq(Units) :
        /\ PutFollows(c, sent, command) /\ Sending(c, sent, command)
        /\ command = <<>> \/ sent = disk[c][sname].size
  BY <1>1, <1>2, <1>3, FileComes
<1>5. PutFollows(c, sent, command)' /\ disk'[c] = disk[c]
  BY <1>1, <1>4, TargetWritten
<1>6. Behind(c)' \/ Putting(c)'
  BY <1>2, <1>4, <1>5, FileStillComes
<1> QED
  BY <1>1, <1>2, <1>6, SessionGoesOn

\* The server's loop in Put is over.
LEMMA HasTarget ==
    ASSUME IInv, InSession(serving), UNCHANGED clientVars, PutDone
    PROVE  InSession(serving)' /\ reset' = reset
<1>1. PICK c \in Clients : c = serving
  BY Types
<1>2. /\ UNCHANGED <<cplace, clientfd, cname, announced, cleft, reset, up, down, serving, backlog, sname, disk>>
      /\ splace = "putData" /\ splace' = "request" /\ sleft = 0
  BY DEF PutDone, clientVars, ioVars
<1>3. ~Asked(c)
  BY <1>2 DEF Asked
<1>4. PICK sent \in Nat, command \in Seq(Units) :
        PutFollows(c, sent, command) /\ Sending(c, sent, command)
  BY <1>1, <1>2, <1>3, FileComes
<1>5. up[c] = command /\ sent = disk[c][sname].size
  BY <1>1, <1>2, <1>4, TargetWhole
<1>6. CASE command \in Commands(c) /\ Announced(c)
  <2>1. command \in Commands(c)'
    BY <1>2, <1>6, SameCommands
  <2>2. Announced(c)'
    BY <1>2, <1>6 DEF Announced
  <2>3. Behind(c)'
    BY <1>2, <1>4, <1>5, <2>1, <2>2 DEF Behind, Sending
  <2> QED
    BY <1>1, <1>2, <2>3, SessionGoesOn
<1>7. CASE command = <<>> /\ sent = cleft[c] /\ cplace[c] = "putData" /\ sname = cname[c]
  <2>1. IsRegular(disk[c][sname])
    BY <1>4 DEF PutFollows
  <2>2. disk[c][sname].size = Len(disk[c][sname].blocks)
    BY <2>1, RegularFile, Types
  <2>3. Putting(c)'
    BY <1>2, <1>4, <1>5, <1>7, <2>2 DEF Putting, Sending
  <2> QED
    BY <1>1, <1>2, <2>3, SessionGoesOn
<1> QED
  BY <1>4, <1>6, <1>7 DEF Sending

\* The client has gone: it left nothing to do.
LEMMA SessionEnds ==
    ASSUME IInv, InSession(serving), UNCHANGED clientVars, ClientGone
    PROVE  Outside(serving)' /\ reset' = reset
<1>1. PICK c \in Clients : c = serving
  BY Types
<1>2. /\ UNCHANGED <<cplace, backlog, serving, down, reset>>
      /\ splace = "request" /\ splace' = "accept" /\ AtEnd(1)
  BY DEF ClientGone, clientVars
<1>3. cplace[c] = "exited" /\ Behind(c)
  BY <1>1, <1>2, GoneIsCalm DEF AtEnd
<1>4. up'[c] = <<>>
  BY <1>1, <1>2, Types DEF AtEnd
<1>5. down'[c] = <<>>
  BY <1>2, <1>3 DEF Behind
<1>6. ~Served(c)' /\ ~Waits(c)'
  BY <1>1, <1>2 DEF Served, Waits, InSession
<1> QED
  BY <1>1, <1>2, <1>3, <1>4, <1>5, <1>6 DEF Outside

\* None of the server's ends but by a mishap.
LEMMA NoEnd ==
    ASSUME IInv, InSession(serving), serving \notin reset
    PROVE  ~PutNoName /\ ~PutNull /\ ~LoopAtEnd /\ ~ServerFails /\ ~ServerKilledSending
<1>1. PICK c \in Clients : c = serving
  BY Types
<1>2. ~PutNoName
  <2> SUFFICES ASSUME PutNoName PROVE FALSE
    OBVIOUS
  <2>1. splace = "putName" /\ AtEnd(1)
    BY DEF PutNoName
  <2>2. serving \notin left
    BY <2>1, BodyFound
  <2> QED
    BY <2>1, <2>2 DEF AtEnd
<1>3. splace # "putNull"
  BY <1>1 DEF InSession, Behind, PutFollows, Taken, Answered, Listing, Getting, GetFollows, Asked, Putting
<1>4. ~LoopAtEnd
  <2> SUFFICES ASSUME LoopAtEnd PROVE FALSE
    OBVIOUS
  <2>1. CASE splace = "auth" /\ AtEnd(1)
    <3>1. serving \notin left
      BY <2>1, BodyFound
    <3> QED
      BY <2>1, <3>1 DEF AtEnd
  <2>2. CASE splace = "putData" /\ sleft > 0 /\ AtEnd(Chunk(sleft))
    <3>1. c \in left /\ Len(up[c]) < Chunk(sleft)
      BY <1>1, <2>2 DEF AtEnd
    <3>2. cplace[c] = "exited" /\ Behind(c)
      BY <1>1, <3>1, GoneIsCalm
    <3>3. PICK command \in Commands(c) : PutFollows(c, disk[c][sname].size, command)
      BY <2>2, <3>2 DEF Behind
    <3>4. PICK file \in Files, target \in Files, stream \in Seq(Units) :
            file = disk[c][sname] /\ target = disk[Server][sname] /\ stream = up[c]
      BY Types
    <3>5. /\ IsRegular(file) /\ IsRegular(target) /\ sleft = file.size - target.size
          /\ Carries(stream, 0, file.blocks, target.size, file.size, command)
      BY <2>2, <3>3, <3>4 DEF PutFollows
    <3>6. file.size \in Nat /\ target.size \in Nat /\ command \in Seq(Units)
      BY <3>3, <3>5, RegularFile, CommandKinds
    <3>7. Len(stream) = 0 + (file.size - target.size) + Len(command)
      BY <3>5 DEF Carries
    <3>8. Len(command) \in Nat /\ Chunk(sleft) <= sleft /\ Chunk(sleft) \in Nat /\ sleft \in Nat
      BY <3>6, ChunkBounds, Types
    <3>9. Len(stream) >= sleft
      BY <3>5, <3>6, <3>7, <3>8
    <3> QED
      BY <3>1, <3>4, <3>8, <3>9
  <2>3. splace # "putNull"
    BY <1>3
  <2> QED
    BY <2>1, <2>2, <2>3 DEF LoopAtEnd
<1>5. ~ServerFails
  BY DEF ServerFails
<1>6. ~ServerKilledSending
  <2> SUFFICES ASSUME ServerKilledSending PROVE FALSE
    OBVIOUS
  <2>1. c \in left /\ up[c] # <<>> /\ splace \in {"getName", "request"}
    BY <1>1 DEF ServerKilledSending
  <2>2. cplace[c] = "exited" /\ Behind(c)
    BY <1>1, <2>1, GoneIsCalm
  <2>3. \E command \in Commands(c) : up[c] = command
    BY <2>1, <2>2 DEF Behind, PutFollows
  <2>4. Commands(c) = {<<>>}
    BY <2>2 DEF Commands
  <2> QED
    BY <2>1, <2>3, <2>4
<1> QED
  BY <1>2, <1>3, <1>4, <1>5, <1>6 DEF PutNull

\* Mishaps are never forgotten.
LEMMA MishapsStay ==
    ASSUME NEW c \in Clients, mishaps \subseteq mishaps', Mishap(c)
    PROVE  Mishap(c)'
BY DEF Mishap

\* What the server leaves of the others.
LEMMA ServerLeaves ==
    ASSUME IInv, ServerStep, splace # "accept", NEW c \in Clients
    PROVE  /\ c # serving => up'[c] = up[c] /\ down'[c] = down[c]
           /\ UNCHANGED <<serving, backlog>> /\ splace # "killed"
           /\ mishaps \subseteq mishaps'
           /\ reset' = reset \/ reset' = reset \cup {serving}
<1>1. \A n \in Nat : ServerReceives(n) => (c # serving => up'[c] = up[c])
  BY Types DEF ServerReceives
<1>2. \A n : AtEnd(n) => (c # serving => up'[c] = up[c])
  BY Types DEF AtEnd
<1>3. \A units : ServerSends(units) =>
        (c # serving => down'[c] = down[c]) /\ (reset' = reset \/ reset' = reset \cup {serving})
  BY Types DEF ServerSends
<1>4. ServerSendsNothing => down' = down /\ reset' = reset
  BY DEF ServerSendsNothing
<1>5. CASE ClientGone
  BY <1>2, <1>5 DEF ClientGone
<1>6. CASE ServeOpen \/ ServeQuit
  BY <1>1, <1>3, <1>6 DEF ServeOpen, ServeQuit, Request, sessionVars
<1>7. CASE \/ ServeBody("AUTH_REQUEST", "auth")
           \/ ServeBody("GET_REQUEST", "getName")
           \/ ServeBody("PUT_REQUEST", "putName")
           \/ WrongHeader
  BY <1>1, <1>4, <1>7 DEF ServeBody, WrongHeader, Request, sessionVars
<1>8. CASE ServeAuth
  BY <1>1, <1>3, <1>8 DEF ServeAuth, sessionVars
<1>9. CASE GetRefused
  BY <1>1, <1>2, <1>3, <1>9 DEF GetRefused, sessionVars
<1>10. CASE GetFile
  <2>1. \E units : ServerSends(units)
    BY <1>10 DEF GetFile
  <2>2. ServerReceives(1) /\ UNCHANGED <<serving, backlog>> /\ splace = "getName"
    BY <1>10 DEF GetFile
  <2>3. mishaps \subseteq mishaps'
    BY <1>10 DEF GetFile
  <2> QED
    BY <1>1, <1>3, <2>1, <2>2, <2>3
<1>11. CASE GetBlocks
  <2>1. ServerSendsNothing \/ \E units : ServerSends(units)
    BY <1>11 DEF GetBlocks
  <2>2. UNCHANGED <<up, serving, backlog, mishaps>> /\ splace = "getData"
    BY <1>11 DEF GetBlocks, sessionVars
  <2> QED
    BY <1>3, <1>4, <2>1, <2>2
<1>12. CASE PutName
  BY <1>1, <1>3, <1>12 DEF PutName, sessionVars
<1>13. CASE PutNoName
  BY <1>2, <1>4, <1>13 DEF PutNoName, sessionVars
<1>14. CASE PutHeader
  <2>1. ServerReceives(1) \/ AtEnd(1)
    BY <1>14 DEF PutHeader
  <2>2. mishaps \subseteq mishaps'
    <3>1. \E header : OpenForPut(header)
      BY <1>14 DEF PutHeader
    <3> QED
      BY <3>1 DEF OpenForPut, MishapOf
  <2>3. ServerSendsNothing /\ UNCHANGED <<serving, backlog>> /\ splace = "putHeader"
    BY <1>14 DEF PutHeader
  <2> QED
    BY <1>1, <1>2, <1>4, <2>1, <2>2, <2>3
<1>15. CASE PutBlocks
  <2>1. PICK n \in Nat : n = Chunk(sleft)
    BY ChunkBounds, Types
  <2>2. ServerReceives(n)
    BY <1>15, <2>1 DEF PutBlocks
  <2>3. ServerSendsNothing /\ UNCHANGED <<serving, backlog, mishaps>> /\ splace = "putData"
    BY <1>15 DEF PutBlocks, sessionVars
  <2> QED
    BY <1>1, <1>4, <2>2, <2>3
<1>16. CASE PutDone
  BY <1>16 DEF PutDone, ioVars
<1>17. CASE LoopAtEnd
  <2>1. \E n : AtEnd(n)
    BY <1>17 DEF LoopAtEnd
  <2>2. ServerSendsNothing /\ UNCHANGED <<serving, backlog, mishaps>> /\ splace # "killed"
    BY <1>17 DEF LoopAtEnd, sessionVars
  <2> QED
    BY <1>2, <1>4, <2>1, <2>2
<1>18. CASE ServerFails
  BY <1>18 DEF ServerFails, ServerStopped
<1>19. CASE ServerKilledSending
  BY <1>19 DEF ServerKilledSending
<1>20. CASE ServeList
  <2>1. ServerReceives(1) /\ UNCHANGED <<serving, backlog>> /\ splace = "request"
    BY <1>20 DEF ServeList, Request
  <2>2. ServerSendsNothing \/ \E units : ServerSends(units)
    BY <1>20 DEF ServeList
  <2>3. mishaps \subseteq mishaps'
    BY <1>20 DEF ServeList, MishapOf
  <2> QED
    BY <1>1, <1>3, <1>4, <2>1, <2>2, <2>3
<1>21. CASE PutNull
  <2>1. PICK n \in Nat : n = Chunk(sleft)
    BY ChunkBounds, Types
  <2>2. ServerReceives(n)
    BY <1>21, <2>1 DEF PutNull
  <2>3. ServerSendsNothing /\ UNCHANGED <<serving, backlog, mishaps>> /\ splace = "putNull"
    BY <1>21 DEF PutNull, sessionVars
  <2> QED
    BY <1>1, <1>4, <2>2, <2>3
<1>22. ~Accept
  BY DEF Accept
<1> QED
  BY <1>5, <1>6, <1>7, <1>8, <1>9, <1>10, <1>11, <1>12, <1>13, <1>14, <1>15, <1>16, <1>17, <1>18,
     <1>19, <1>20, <1>21, <1>22 DEF ServerStep

\* A step within the session of a client in step.
LEMMA SessionStep ==
    ASSUME IInv, InSession(serving), serving \notin reset, UNCHANGED clientVars, ServerStep
    PROVE  (AtEase(serving)' \/ Mishap(serving)') /\ reset' = reset
<1>1. splace # "accept"
  BY DEF InSession, Served
<1>2. ~Accept
  BY <1>1 DEF Accept
<1>3. CASE ServeOpen \/ ServeQuit \/ (ServeList /\ splace' = "request")
  BY <1>3, AnswersAtOnce DEF AtEase
<1>4. CASE \/ ServeBody("AUTH_REQUEST", "auth")
           \/ ServeBody("GET_REQUEST", "getName")
           \/ ServeBody("PUT_REQUEST", "putName")
           \/ WrongHeader
  BY <1>4, TakesHeader DEF AtEase
<1>5. CASE ServeAuth \/ GetRefused \/ PutName
  BY <1>5, TakesBody DEF AtEase
<1>6. CASE GetFile
  BY <1>6, OpensSource DEF AtEase
<1>7. CASE GetBlocks
  BY <1>7, SendsBlocks DEF AtEase
<1>8. CASE PutHeader
  BY <1>8, OpensTarget DEF AtEase
<1>9. CASE PutBlocks
  BY <1>9, WritesTarget DEF AtEase
<1>10. CASE PutDone
  BY <1>10, HasTarget DEF AtEase
<1>11. CASE ClientGone
  BY <1>11, SessionEnds DEF AtEase
<1>12. CASE PutNoName \/ PutNull \/ LoopAtEnd \/ ServerFails \/ ServerKilledSending
  BY <1>12, NoEnd
<1>13. CASE ServeList /\ splace' # "request"
  BY <1>13, ListFails
<1> QED
  BY <1>2, <1>3, <1>4, <1>5, <1>6, <1>7, <1>8, <1>9, <1>10, <1>11, <1>12, <1>13 DEF ServerStep

\* Clients that the server does not serve.
LEMMA OthersWait ==
    ASSUME IInv, NEW c \in Clients, c # serving, AtEase(c), UNCHANGED clientVars, ServerStep,
           splace # "accept"
    PROVE  AtEase(c)'
<1>1. /\ up'[c] = up[c] /\ down'[c] = down[c]
      /\ UNCHANGED <<serving, backlog, cplace, clientfd, cname>> /\ splace # "killed"
  BY ServerLeaves DEF clientVars
<1>2. ~Served(c)' /\ Waits(c)' = Waits(c)
  BY <1>1 DEF Served, Waits
<1>3. CASE Queued(c)
  <2>1. Commands(c)' = Commands(c)
    BY <1>1 DEF Commands
  <2>2. Queued(c)'
    BY <1>1, <1>2, <1>3, <2>1 DEF Queued
  <2> QED
    BY <2>2 DEF AtEase
<1>4. CASE Outside(c)
  <2>1. Outside(c)'
    BY <1>1, <1>2, <1>4 DEF Outside
  <2> QED
    BY <2>1 DEF AtEase
<1> QED
  BY <1>1, <1>3, <1>4 DEF AtEase, InSession, Served, Alone

\* The queue without its first.
LEMMA HeadAccepted ==
    ASSUME NEW queue \in Seq(Clients), queue # <<>>, NEW rest, rest = Tail(queue),
           NEW c \in Clients
    PROVE  /\ Len(rest) = Len(queue) - 1 /\ Len(queue) \in Nat
           /\ \A i \in 1..Len(rest) : 1 + i \in 1..Len(queue) /\ rest[i] = queue[1 + i]
           /\ 1 \in 1..Len(queue) /\ Head(queue) = queue[1] /\ Head(queue) \in Clients
<1>1. /\ Tail(queue) \in Seq(Clients)
      /\ Len(Tail(queue)) = Len(queue) - 1
      /\ \A i \in 1..Len(Tail(queue)) : Tail(queue)[i] = queue[1 + i]
      /\ Head(queue) = queue[1]
  BY TailOfStream
<1>2. Len(queue) \in Nat /\ Len(queue) >= 1
  OBVIOUS
<1> QED
  BY <1>1, <1>2

\* The first in the queue has its session, and the others still wait.
LEMMA NextAccepted ==
    ASSUME IInv, Dialogue, Accept, UNCHANGED clientVars, NEW c \in Clients, ~Mishap(c)
    PROVE  AtEase(c)' \/ Mishap(c)'
<1>1. /\ UNCHANGED <<cplace, clientfd, cname, announced, up, down, disk>> /\ splace = "accept"
  BY DEF Accept, clientVars, ioVars
<1>2. Queued(c) \/ Outside(c)
  BY <1>1 DEF Dialogue, AtEase, InSession, Served, Alone
<1>3. Commands(c)' = Commands(c)
  BY <1>1 DEF Commands
<1>4. CASE accepted = MaxDescriptors /\ splace' = "hung" /\ mishaps' = mishaps \cup {<<"descriptors", serving>>}
             /\ UNCHANGED <<serving, backlog>>
  <2>1. CASE c = serving
    BY <1>4, <2>1 DEF Mishap, MishapKinds
  <2>2. CASE c # serving
    <3>1. ~Served(c)' /\ Waits(c)' = Waits(c)
      BY <1>4, <2>2 DEF Served, Waits
    <3>2. Queued(c)' \/ Outside(c)'
      <4>1. CASE Queued(c)
        BY <1>1, <1>3, <1>4, <3>1, <4>1 DEF Queued
      <4>2. CASE Outside(c)
        BY <1>1, <3>1, <4>2 DEF Outside
      <4> QED
        BY <1>2, <4>1, <4>2
    <3> QED
      BY <3>2 DEF AtEase
  <2> QED
    BY <2>1, <2>2
<1>5. CASE backlog # <<>> /\ serving' = Head(backlog) /\ backlog' = Tail(backlog) /\ splace' = "request"
  <2>1. PICK queue \in Seq(Clients) : queue = backlog
    BY DEF IInv, TypeOK, ServerTypeOK
  <2>2. PICK rest : rest = Tail(queue)
    OBVIOUS
  <2>3. /\ Len(rest) = Len(queue) - 1 /\ Len(queue) \in Nat
        /\ \A i \in 1..Len(rest) : 1 + i \in 1..Len(queue) /\ rest[i] = queue[1 + i]
        /\ 1 \in 1..Len(queue) /\ Head(queue) = queue[1] /\ Head(queue) \in Clients
    BY <1>5, <2>1, <2>2, HeadAccepted
  <2>4. backlog' = rest /\ serving' = queue[1]
    BY <1>5, <2>1, <2>2, <2>3
  <2>5. CASE c = queue[1]
    <3>1. Waits(c)
      BY <2>1, <2>3, <2>5 DEF Waits
    <3>2. Queued(c)
      BY <1>2, <3>1 DEF Outside
    <3>3. ~Waits(c)'
      <4> SUFFICES ASSUME NEW i \in 1..Len(rest), rest[i] = c PROVE FALSE
        BY <2>4 DEF Waits
      <4>1. 1 + i \in 1..Len(queue) /\ queue[1 + i] = c
        BY <2>3
      <4>2. \A j, k \in 1..Len(queue) : queue[j] = c /\ queue[k] = c => j = k
        BY <2>1, <3>2 DEF Queued
      <4>3. 1 + i = 1
        BY <2>3, <2>5, <4>1, <4>2
      <4> QED
        BY <4>3
    <3>4. Served(c)'
      BY <1>5, <2>4, <2>5 DEF Served
    <3>5. Announced(c)'
      BY <1>1, <3>2 DEF Queued, Announced
    <3>6. Behind(c)'
      BY <1>1, <1>3, <1>5, <3>2, <3>5 DEF Queued, Behind
    <3>7. InSession(c)'
      BY <1>1, <3>2, <3>3, <3>4, <3>6 DEF InSession, Queued
    <3> QED
      BY <3>7 DEF AtEase
  <2>6. CASE c # queue[1]
    <3>1. ~Served(c)'
      BY <2>4, <2>6 DEF Served
    <3>2. CASE Queued(c)
      <4>1. PICK i \in 1..Len(queue) : queue[i] = c
        BY <2>1, <3>2 DEF Queued, Waits
      <4>2. PICK k : k = i - 1
        OBVIOUS
      <4>3. k \in 1..Len(rest) /\ 1 + k = i
        BY <2>3, <2>6, <4>1, <4>2
      <4>4. rest[k] = c
        BY <2>3, <4>1, <4>3
      <4>5. Waits(c)'
        BY <2>4, <4>3, <4>4 DEF Waits
      <4>6. \A j, m \in 1..Len(rest) : rest[j] = c /\ rest[m] = c => j = m
        <5>1. \A j, m \in 1..Len(queue) : queue[j] = c /\ queue[m] = c => j = m
          BY <2>1, <3>2 DEF Queued
        <5>2. ASSUME NEW j \in 1..Len(rest), NEW m \in 1..Len(rest), rest[j] = c, rest[m] = c
              PROVE  j = m
          <6>1. PICK a, b \in 1..Len(queue) : a = 1 + j /\ b = 1 + m
            BY <2>3
          <6>2. queue[a] = c /\ queue[b] = c
            BY <2>3, <5>2, <6>1
          <6>3. a = b
            BY <5>1, <6>2
          <6> QED
            BY <6>1, <6>3
        <5> QED
          BY <5>2
      <4>7. Queued(c)'
        BY <1>1, <1>3, <2>4, <3>1, <3>2, <4>5, <4>6 DEF Queued
      <4> QED
        BY <4>7 DEF AtEase
    <3>3. CASE Outside(c)
      <4>1. ~Waits(c)'
        <5> SUFFICES ASSUME NEW i \in 1..Len(rest), rest[i] = c PROVE FALSE
          BY <2>4 DEF Waits
        <5>1. 1 + i \in 1..Len(queue) /\ queue[1 + i] = c
          BY <2>3
        <5> QED
          BY <2>1, <3>3, <5>1 DEF Outside, Waits
      <4>2. Outside(c)'
        BY <1>1, <3>1, <3>3, <4>1 DEF Outside
      <4> QED
        BY <4>2 DEF AtEase
    <3> QED
      BY <1>2, <3>2, <3>3
  <2> QED
    BY <2>5, <2>6
<1> QED
  BY <1>4, <1>5 DEF Accept

\* Every step of the server.
LEMMA ServerInDialogue ==
    ASSUME IInv, Dialogue, ResetsHaveCauses, ServerStep, UNCHANGED clientVars
    PROVE  Dialogue' /\ ResetsHaveCauses'
<1>1. CASE splace = "accept"
  <2>1. Accept
    BY <1>1 DEF ServerStep, ClientGone, ServeOpen, ServeQuit, ServeList, ServeBody, WrongHeader, Request,
       ServeAuth, GetRefused, GetFile, GetBlocks, PutName, PutNoName, PutHeader, PutBlocks, PutDone,
       PutNull, LoopAtEnd, ServerFails, ServerKilledSending
  <2>2. mishaps \subseteq mishaps' /\ reset' = reset
    BY <2>1 DEF Accept, ioVars
  <2>3. ASSUME NEW c \in Clients, ~Mishap(c)' PROVE AtEase(c)'
    <3>1. ~Mishap(c)
      BY <2>2, <2>3, MishapsStay
    <3> QED
      BY <2>1, <2>3, <3>1, NextAccepted
  <2>4. ResetsHaveCauses'
    <3>1. ASSUME NEW c \in reset PROVE Mishap(c)'
      <4>1. c \in Clients /\ Mishap(c)
        BY Types DEF ResetsHaveCauses
      <4> QED
        BY <2>2, <4>1, MishapsStay
    <3> QED
      BY <2>2, <3>1 DEF ResetsHaveCauses
  <2> QED
    BY <2>3, <2>4 DEF Dialogue, AtEase
<1>2. CASE splace # "accept"
  <2>1. PICK c \in Clients : c = serving
    BY Types
  <2>2. mishaps \subseteq mishaps'
    BY <1>2, <2>1, ServerLeaves
  <2>3. ASSUME ~Mishap(c) PROVE (AtEase(c)' \/ Mishap(c)') /\ reset' = reset
    <3>1. InSession(c)
      BY <1>2, <2>1, <2>3, ServerLeaves DEF Dialogue, AtEase, Queued, Outside, Alone, Served
    <3>2. c \notin reset
      BY <2>3 DEF ResetsHaveCauses
    <3>3. serving' = c
      BY <1>2, <2>1, ServerLeaves
    <3>4. (AtEase(serving)' \/ Mishap(serving)') /\ reset' = reset
      BY <2>1, <3>1, <3>2, SessionStep
    <3> QED
      BY <3>3, <3>4
  <2>4. ASSUME NEW d \in Clients, ~Mishap(d)' PROVE AtEase(d)'
    <3>1. ~Mishap(d)
      BY <2>2, <2>4, MishapsStay
    <3>2. CASE d = c
      BY <2>3, <2>4, <3>1, <3>2
    <3>3. CASE d # c
      <4>1. AtEase(d)
        BY <3>1 DEF Dialogue, AtEase
      <4> QED
        BY <1>2, <2>1, <3>3, <4>1, OthersWait
    <3> QED
      BY <3>2, <3>3
  <2>5. ResetsHaveCauses'
    <3>1. reset' = reset \/ (reset' = reset \cup {c} /\ Mishap(c))
      <4>1. reset' = reset \/ reset' = reset \cup {c}
        BY <1>2, <2>1, ServerLeaves
      <4>2. ~Mishap(c) => reset' = reset
        BY <2>3
      <4> QED
        BY <4>1, <4>2
    <3>2. ASSUME NEW d \in reset' PROVE Mishap(d)'
      <4>1. d \in Clients /\ Mishap(d)
        BY <2>1, <3>1, <3>2, Types DEF ResetsHaveCauses
      <4> QED
        BY <2>2, <4>1, MishapsStay
    <3> QED
      BY <3>2 DEF ResetsHaveCauses
  <2> QED
    BY <2>4, <2>5 DEF Dialogue, AtEase
<1> QED
  BY <1>1, <1>2

-----------------------------------------------------------------------------
\* The clients' part of the dialogue.

\* What a step of client c or a change of files leaves alone for client d.
Untouched(c, d) ==
    /\ UNCHANGED <<splace, serving, sname, sleft>>
    /\ backlog' = backlog \/ backlog' = Append(backlog, c)
    /\ up'[d] = up[d] /\ down'[d] = down[d] /\ cplace'[d] = cplace[d]
    /\ cname'[d] = cname[d] /\ cleft'[d] = cleft[d] /\ announced'[d] = announced[d]
    /\ d \in clientfd' <=> d \in clientfd

\* One more in the queue.
LEMMA QueueOfOthers ==
    ASSUME IInv, NEW c \in Clients, NEW d \in Clients, d # c \/ backlog' = backlog,
           backlog' = backlog \/ backlog' = Append(backlog, c)
    PROVE  /\ Waits(d)' <=> Waits(d)
           /\ (\A i, j \in 1..Len(backlog) : backlog[i] = d /\ backlog[j] = d => i = j)
              => \A i, j \in 1..Len(backlog') : backlog'[i] = d /\ backlog'[j] = d => i = j
<1>1. PICK queue \in Seq(Clients) : queue = backlog
  BY DEF IInv, TypeOK, ServerTypeOK
<1>2. CASE backlog' = backlog
  BY <1>2 DEF Waits
<1>3. CASE d # c /\ backlog' = Append(backlog, c)
  <2>1. PICK longer : longer = Append(queue, c)
    OBVIOUS
  <2>2. /\ Len(longer) = Len(queue) + 1 /\ Len(queue) \in Nat
        /\ \A i \in 1..Len(queue) : longer[i] = queue[i]
        /\ longer[Len(queue) + 1] = c
    BY <2>1
  <2>3. \A i \in 1..Len(longer) : longer[i] = d => i \in 1..Len(queue) /\ queue[i] = d
    <3> SUFFICES ASSUME NEW i \in 1..Len(longer), longer[i] = d PROVE i \in 1..Len(queue) /\ queue[i] = d
      OBVIOUS
    <3>1. i # Len(queue) + 1
      BY <1>3, <2>2
    <3>2. i \in 1..Len(queue)
      BY <2>2, <3>1
    <3> QED
      BY <2>2, <3>2
  <2>4. \A i \in 1..Len(queue) : i \in 1..Len(longer)
    BY <2>2
  <2>5. backlog' = longer
    BY <1>1, <1>3, <2>1
  <2>6. Waits(d)' <=> Waits(d)
    BY <1>1, <2>2, <2>3, <2>4, <2>5 DEF Waits
  <2>7. (\A i, j \in 1..Len(queue) : queue[i] = d /\ queue[j] = d => i = j)
          => \A i, j \in 1..Len(longer) : longer[i] = d /\ longer[j] = d => i = j
    BY <2>3
  <2> QED
    BY <1>1, <2>5, <2>6, <2>7
<1> QED
  BY <1>2, <1>3

\* c's step does not touch d, even if it changes c's files.
LEMMA OthersGoOn ==
    ASSUME IInv, NEW c \in Clients, NEW d \in Clients, d # c \/ backlog' = backlog,
           Untouched(c, d), AtEase(d),
           disk'[Server] = disk[Server], disk'[d] = disk[d]
    PROVE  AtEase(d)'
<1>1. /\ UNCHANGED <<splace, serving, sname, sleft>>
      /\ up'[d] = up[d] /\ down'[d] = down[d] /\ cplace'[d] = cplace[d]
      /\ cname'[d] = cname[d] /\ cleft'[d] = cleft[d] /\ announced'[d] = announced[d]
      /\ (d \in clientfd' <=> d \in clientfd)
  BY DEF Untouched
<1>2. Served(d)' <=> Served(d)
  BY <1>1 DEF Served
<1>3. Commands(d)' = Commands(d) /\ (Announced(d)' <=> Announced(d))
  BY <1>1 DEF Commands, Announced
<1>4. Waits(d)' <=> Waits(d)
  BY QueueOfOthers DEF Untouched
<1>5. CASE InSession(d)
  <2> SUFFICES Behind(d)' \/ Taken(d)' \/ Answered(d)' \/ Listing(d)' \/ Getting(d)' \/ Asked(d)'
                 \/ Putting(d)'
    BY <1>2, <1>4, <1>5, <1>1 DEF AtEase, InSession
  <2>1. CASE Behind(d)
    <3>1. PICK command \in Commands(d) :
            \/ splace = "request" /\ up[d] = command
            \/ /\ splace = "getData" /\ up[d] = command
               /\ IsRegular(disk[Server][sname]) /\ sleft = disk[Server][sname].size
            \/ PutFollows(d, disk[d][sname].size, command)
      BY <2>1 DEF Behind
    <3>2. command \in Commands(d)'
      BY <1>3
    <3>3. down'[d] = <<>> /\ Announced(d)'
      BY <1>1, <1>3, <2>1 DEF Behind
    <3>4. CASE splace = "request" /\ up[d] = command
      <4>1. Behind(d)'
        BY <1>1, <3>2, <3>3, <3>4 DEF Behind
      <4> QED
        BY <4>1
    <3>5. CASE /\ splace = "getData" /\ up[d] = command
               /\ IsRegular(disk[Server][sname]) /\ sleft = disk[Server][sname].size
      <4>1. Behind(d)'
        BY <1>1, <3>2, <3>3, <3>5 DEF Behind
      <4> QED
        BY <4>1
    <3>6. CASE PutFollows(d, disk[d][sname].size, command)
      <4>1. PutFollows(d, disk[d][sname].size, command)'
        <5>1. PutFollows(d, disk[d][sname].size, command)' <=> PutFollows(d, disk[d][sname].size, command)
          BY <1>1 DEF PutFollows, DataHeader
        <5> QED
          BY <3>6, <5>1
      <4>2. Behind(d)'
        BY <3>2, <3>3, <4>1 DEF Behind
      <4> QED
        BY <4>2
    <3> QED
      BY <3>1, <3>4, <3>5, <3>6
  <2>2. CASE Taken(d)
    <3>1. Taken(d)'
      BY <1>1, <1>3, <2>2 DEF Taken
    <3> QED
      BY <3>1
  <2>3. CASE Answered(d)
    <3>1. Answered(d)'
      BY <1>1, <2>3 DEF Answered
    <3> QED
      BY <3>1
  <2>4. CASE Listing(d)
    <3>1. Listing(d)'
      BY <1>1, <2>4 DEF Listing
    <3> QED
      BY <3>1
  <2>5. CASE Getting(d)
    <3>1. Getting(d)'
      BY <1>1, <2>5 DEF Getting, GetFollows, DataHeader
    <3> QED
      BY <3>1
  <2>6. CASE Asked(d)
    <3>1. Asked(d)'
      BY <1>1, <1>3, <2>6 DEF Asked
    <3> QED
      BY <3>1
  <2>7. CASE Putting(d)
    <3>1. CASE sname = cname[d] /\ PutFollows(d, cleft[d], <<>>)
      <4>1. PutFollows(d, cleft[d], <<>>)'
        <5>1. PutFollows(d, cleft[d], <<>>)' <=> PutFollows(d, cleft[d], <<>>)
          BY <1>1 DEF PutFollows, DataHeader
        <5> QED
          BY <3>1, <5>1
      <4>2. Putting(d)'
        BY <1>1, <2>7, <3>1, <4>1 DEF Putting
      <4> QED
        BY <4>2
    <3>2. CASE splace = "request" /\ up[d] = <<>> /\ cleft[d] = Len(disk[d][cname[d]].blocks)
      <4>1. Putting(d)'
        BY <1>1, <2>7, <3>2 DEF Putting
      <4> QED
        BY <4>1
    <3> QED
      BY <2>7, <3>1, <3>2 DEF Putting
  <2> QED
    BY <1>5, <2>1, <2>2, <2>3, <2>4, <2>5, <2>6, <2>7 DEF InSession
<1>6. CASE Queued(d)
  <2>1. \A i, j \in 1..Len(backlog') : backlog'[i] = d /\ backlog'[j] = d => i = j
    BY <1>6, QueueOfOthers DEF Queued, Untouched
  <2>2. Queued(d)'
    BY <1>1, <1>2, <1>3, <1>4, <1>6, <2>1 DEF Queued
  <2> QED
    BY <2>2 DEF AtEase
<1>7. CASE Outside(d)
  <2>1. Outside(d)'
    BY <1>1, <1>2, <1>4, <1>7 DEF Outside
  <2> QED
    BY <2>1 DEF AtEase
<1>8. CASE Alone(d)
  <2>1. Alone(d)'
    BY <1>1, <1>2, <1>8 DEF Alone
  <2> QED
    BY <2>1 DEF AtEase
<1> QED
  BY <1>5, <1>6, <1>7, <1>8 DEF AtEase

\* A step of a client leaves the others alone, and the server's disk.
LEMMA ClientTouches ==
    ASSUME IInv, NEW c \in Clients, NEW d \in Clients, ClientStep(c) \/ ClientDies(c)
    PROVE  /\ d # c => Untouched(c, d) /\ disk'[d] = disk[d]
           /\ disk'[Server] = disk[Server]
           /\ mishaps \subseteq mishaps'
           /\ reset' = reset \/ reset' = reset \cup {c}
<1> USE Types, ClientTypes
<1>1. \A units : ClientSends(c, units) => (d # c => up'[d] = up[d])
  BY DEF ClientSends
<1>2. \A place : GoTo(c, place) => (d # c => cplace'[d] = cplace[d])
  BY DEF GoTo
<1>3. \A unread : Hangup(c, unread) =>
        (d # c => cplace'[d] = cplace[d]) /\ (reset' = reset \/ reset' = reset \cup {c})
  BY DEF Hangup, GoTo
<1>4. \A place, reply : Reply(c, place, reply) => (d # c => down'[d] = down[d])
  BY DEF Reply
<1>5. \A name \in Names : \A blocks : Create(c, name) \/ Write(c, name, blocks) =>
        (d # c => disk'[d] = disk[d]) /\ disk'[Server] = disk[Server]
  BY FtpAssumption DEF Create, Write
<1>6. cname[c] \in Names
  OBVIOUS
<1>7. CASE Open(c)
  BY <1>1, <1>2, <1>7 DEF Open, Untouched
<1>8. CASE \E login \in {0, 1} : Auth(c, login)
  BY <1>1, <1>2, <1>8 DEF Auth, othersVars, Untouched
<1>9. CASE List(c)
  BY <1>1, <1>2, <1>9 DEF List, othersVars, Untouched
<1>10. CASE \E name \in Names : Get(c, name)
  <2>1. PICK name \in Names : Get(c, name)
    BY <1>10
  <2>2. d # c => cname'[d] = cname[d]
    BY <2>1 DEF Get
  <2> QED
    BY <1>1, <1>2, <2>1, <2>2 DEF Get, othersVars, Untouched
<1>11. CASE \E name \in Names : Put(c, name)
  <2>1. PICK name \in Names : Put(c, name)
    BY <1>11
  <2>2. d # c => cname'[d] = cname[d] /\ announced'[d] = announced[d]
    BY <2>1 DEF Put
  <2>3. mishaps \subseteq mishaps'
    BY <2>1 DEF Put
  <2> QED
    BY <1>1, <1>2, <2>1, <2>2, <2>3 DEF Put, othersVars, Untouched
<1>12. CASE Quit(c)
  BY <1>1, <1>2, <1>12 DEF Quit, othersVars, Untouched
<1>13. ASSUME NEW reply, OpenReply(c, reply)
       PROVE  /\ d # c => Untouched(c, d) /\ disk'[d] = disk[d]
              /\ disk'[Server] = disk[Server] /\ mishaps' = mishaps /\ reset' = reset
  <2>1. d # c => (d \in clientfd' <=> d \in clientfd)
    BY <1>13 DEF OpenReply
  <2> QED
    BY <1>2, <1>4, <1>13, <2>1 DEF OpenReply, replyVars, othersVars, Untouched
<1>14. ASSUME NEW reply, AuthReply(c, reply)
       PROVE  /\ d # c => Untouched(c, d) /\ disk'[d] = disk[d]
              /\ disk'[Server] = disk[Server] /\ mishaps' = mishaps
              /\ reset' = reset \/ reset' = reset \cup {c}
  <2>1. /\ d # c => cplace'[d] = cplace[d]
        /\ reset' = reset \/ reset' = reset \cup {c}
    BY <1>2, <1>3, <1>14 DEF AuthReply
  <2> QED
    BY <1>4, <1>14, <2>1 DEF AuthReply, replyVars, othersVars, Untouched
<1>15. ASSUME NEW reply, ListReply(c, reply)
       PROVE  /\ d # c => Untouched(c, d) /\ disk'[d] = disk[d]
              /\ disk'[Server] = disk[Server] /\ mishaps' = mishaps /\ reset' = reset
  <2>1. d # c => cplace'[d] = cplace[d] /\ cleft'[d] = cleft[d]
    BY <1>2, <1>15 DEF ListReply
  <2> QED
    BY <1>4, <1>15, <2>1 DEF ListReply, replyVars, othersVars, Untouched
<1>16. ASSUME NEW reply, GetReplied(c, reply)
       PROVE  /\ d # c => Untouched(c, d) /\ disk'[d] = disk[d]
              /\ disk'[Server] = disk[Server] /\ mishaps' = mishaps /\ reset' = reset
  BY <1>2, <1>4, <1>16 DEF GetReplied, replyVars, othersVars, Untouched
<1>17. ASSUME NEW reply, GetHeader(c, reply)
       PROVE  /\ d # c => Untouched(c, d) /\ disk'[d] = disk[d]
              /\ disk'[Server] = disk[Server] /\ mishaps \subseteq mishaps'
              /\ reset' = reset \/ reset' = reset \cup {c}
  <2>1. /\ d # c => cplace'[d] = cplace[d] /\ disk'[d] = disk[d] /\ cleft'[d] = cleft[d]
        /\ disk'[Server] = disk[Server] /\ mishaps \subseteq mishaps'
        /\ reset' = reset \/ reset' = reset \cup {c}
    <3>1. d # c => cleft'[d] = cleft[d]
      BY <1>17 DEF GetHeader
    <3>2. CASE Create(c, cname[c]) /\ GoTo(c, "getData") /\ UNCHANGED mishaps
      BY <1>2, <1>5, <1>6, <1>17, <3>1, <3>2 DEF GetHeader
    <3>3. CASE GoTo(c, "getNull") /\ mishaps \subseteq mishaps' /\ UNCHANGED disk
      BY <1>2, <1>17, <3>1, <3>3 DEF GetHeader
    <3> QED
      BY <1>17, <3>2, <3>3 DEF GetHeader
  <2>2. UNCHANGED <<othersVars, up, clientfd, auth, cname, announced, commands>> /\ Reply(c, "getHeader", reply)
    BY <1>17 DEF GetHeader
  <2> QED
    BY <1>4, <2>1, <2>2 DEF othersVars, Untouched
<1>18. ASSUME NEW reply, PutReplied(c, reply)
       PROVE  /\ d # c => Untouched(c, d) /\ disk'[d] = disk[d]
              /\ disk'[Server] = disk[Server] /\ mishaps' = mishaps /\ reset' = reset
  <2>1. d # c => cplace'[d] = cplace[d] /\ cleft'[d] = cleft[d] /\ up'[d] = up[d]
    BY <1>1, <1>2, <1>18 DEF PutReplied
  <2>2. UNCHANGED <<replyVars, left, reset, clientfd, auth>> /\ Reply(c, "put", reply)
    BY <1>18 DEF PutReplied
  <2> QED
    BY <1>4, <2>1, <2>2 DEF replyVars, othersVars, Untouched
<1>19. ASSUME NEW reply, QuitReply(c, reply)
       PROVE  /\ d # c => Untouched(c, d) /\ disk'[d] = disk[d]
              /\ disk'[Server] = disk[Server] /\ mishaps' = mishaps
              /\ reset' = reset \/ reset' = reset \cup {c}
  BY <1>3, <1>4, <1>19 DEF QuitReply, replyVars, othersVars, Untouched
<1>20. \A place : ReceiveChunk(c, place) =>
         /\ d # c => down'[d] = down[d] /\ cleft'[d] = cleft[d]
         /\ UNCHANGED <<othersVars, mishaps, up, left, reset, cplace, clientfd, auth, cname, announced>>
  BY DEF ReceiveChunk
<1>21. CASE ListBlocks(c)
  BY <1>20, <1>21 DEF ListBlocks, othersVars, Untouched
<1>22. CASE GetBlocksOf(c)
  <2>1. ReceiveChunk(c, "getData") /\ \E blocks : Write(c, cname[c], blocks)
    BY <1>22 DEF GetBlocksOf
  <2>2. (d # c => disk'[d] = disk[d]) /\ disk'[Server] = disk[Server]
    BY <1>5, <1>6, <2>1
  <2> QED
    BY <1>20, <2>1, <2>2 DEF othersVars, Untouched
<1>23. CASE TransferDone(c)
  BY <1>2, <1>23 DEF TransferDone, ioVars, serverVars, Untouched
<1>24. CASE PutBlocksOf(c)
  <2>1. d # c => up'[d] = up[d] /\ cplace'[d] = cplace[d] /\ cleft'[d] = cleft[d]
    BY <1>1, <1>2, <1>24 DEF PutBlocksOf
  <2>2. UNCHANGED <<othersVars, mishaps, down, left, reset, disk, clientfd, auth, cname, announced, commands>>
    BY <1>24 DEF PutBlocksOf
  <2> QED
    BY <2>1, <2>2 DEF othersVars, Untouched
<1>25. CASE LeaveAtPrompt(c)
  <2>1. /\ d # c => cplace'[d] = cplace[d]
        /\ reset' = reset \/ reset' = reset \cup {c}
    BY <1>2, <1>3, <1>25 DEF LeaveAtPrompt
  <2> QED
    BY <1>25, <2>1 DEF LeaveAtPrompt, othersVars, Untouched
<1>26. CASE ClientFails(c)
  BY <1>2, <1>26 DEF ClientFails, ioVars, serverVars, Untouched
<1>27. CASE ClientDies(c)
  <2>1. d # c => up'[d] = up[d]
    BY <1>1, <1>27 DEF ClientDies
  <2>2. /\ \E unread : Hangup(c, unread)
        /\ mishaps \subseteq mishaps'
        /\ UNCHANGED <<othersVars, down, disk, clientfd, auth, cname, cleft, announced, commands>>
    BY <1>27 DEF ClientDies
  <2> QED
    BY <1>3, <2>1, <2>2 DEF othersVars, Untouched
<1>28. CASE OpenNowhere(c)
  BY <1>2, <1>28 DEF OpenNowhere, ioVars, serverVars, Untouched
<1>29. CASE GetNull(c)
  <2>1. \E unread : Hangup(c, unread)
    BY <1>29 DEF GetNull
  <2>2. d # c => down'[d] = down[d]
    BY <1>29 DEF GetNull
  <2>3. UNCHANGED <<othersVars, mishaps, up, disk, clientfd, cname, cleft, announced>>
    BY <1>29 DEF GetNull
  <2> QED
    BY <1>3, <2>1, <2>2, <2>3 DEF othersVars, Untouched
<1> QED
  BY <1>7, <1>8, <1>9, <1>10, <1>11, <1>12, <1>13, <1>14, <1>15, <1>16, <1>17, <1>18, <1>19, <1>21,
     <1>22, <1>23, <1>24, <1>25, <1>26, <1>27, <1>28, <1>29 DEF ClientStep

\* A client whose FILE pointer is null has nothing to read: it leaves nothing unread.
LEMMA EmptyRead ==
    ASSUME IInv, NEW c \in Clients, down[c] = <<>>, GetNull(c)
    PROVE  down'[c] = <<>> /\ reset' = reset
<1>1. cleft[c] \in Nat /\ down \in [Clients -> Seq(Units)]
  BY Types, ClientTypes
<1>2. PICK n \in Nat : n = Chunk(cleft[c])
  BY <1>1, ChunkBounds
<1>3. PICK rest : rest = SubSeq(<<>>, n + 1, Len(<<>>))
  OBVIOUS
<1>4. Len(<<>>) >= n /\ down' = [down EXCEPT ![c] = rest] /\ Hangup(c, rest)
  BY <1>2, <1>3 DEF GetNull
<1>5. n = 0
  BY <1>4
<1>6. rest = <<>>
  BY <1>3, <1>5
<1> QED
  BY <1>1, <1>4, <1>6 DEF Hangup

\* Without a server nothing comes any more.
LEMMA LeftAlone ==
    ASSUME IInv, NEW c \in Clients, AtEase(c), splace = "killed", ClientStep(c)
    PROVE  AtEase(c)' /\ reset' = reset
<1> USE Types, ClientTypes
<1>1. ~Served(c) /\ down[c] = <<>>
  BY DEF AtEase, InSession, Queued, Outside, Alone, Behind, Taken, Answered, Listing, Getting, GetFollows,
     Asked, Putting, PutFollows
<1>2. UNCHANGED <<splace, serving>>
  <2>1. UNCHANGED othersVars \/ UNCHANGED serverVars \/ Open(c)
    BY DEF ClientStep, Auth, List, Get, Put, Quit, OpenReply, AuthReply, ListReply, GetReplied,
       GetHeader, PutReplied, QuitReply, replyVars, ListBlocks, GetBlocksOf, ReceiveChunk, TransferDone,
       PutBlocksOf, LeaveAtPrompt, ClientFails, OpenNowhere, GetNull
  <2>2. ~Open(c)
    BY DEF Open
  <2> QED
    BY <2>1, <2>2 DEF othersVars, serverVars
<1>3. \A reply \in Replies(c) : reply.rest = <<>>
  BY <1>1 DEF Replies
<1>4. \A place, reply : reply \in Replies(c) /\ Reply(c, place, reply) => down'[c] = <<>>
  BY <1>3 DEF Reply
<1>5. \A unread : Hangup(c, unread) /\ unread = <<>> => reset' = reset
  BY DEF Hangup
<1>6. ~ReceiveChunk(c, "listData") /\ ~ReceiveChunk(c, "getData")
  <2> SUFFICES ASSUME NEW place, ReceiveChunk(c, place) PROVE FALSE
    OBVIOUS
  <2>1. PICK length \in Nat : length = cleft[c]
    OBVIOUS
  <2>2. length > 0 /\ Len(<<>>) >= Chunk(length)
    BY <1>1, <2>1 DEF ReceiveChunk
  <2>3. Chunk(length) > 0 /\ Len(<<>>) = 0
    BY <2>2, FtpAssumption DEF Chunk
  <2>4. Chunk(length) \in Nat
    BY ChunkBounds
  <2> QED
    BY <2>2, <2>3, <2>4
<1>7. down'[c] = <<>> /\ reset' = reset
  <2>1. CASE \/ \E login \in {0, 1} : Auth(c, login)
             \/ List(c)
             \/ \E name \in Names : Get(c, name) \/ Put(c, name)
             \/ Quit(c)
    BY <1>1, <2>1 DEF Auth, List, Get, Put, Quit
  <2>2. ASSUME NEW reply \in Replies(c), OpenReply(c, reply) \/ ListReply(c, reply)
                 \/ GetReplied(c, reply) \/ PutReplied(c, reply)
        PROVE  down'[c] = <<>> /\ reset' = reset
    BY <1>4, <2>2 DEF OpenReply, ListReply, GetReplied, PutReplied
  <2>3. ASSUME NEW reply \in Replies(c), AuthReply(c, reply) \/ GetHeader(c, reply) \/ QuitReply(c, reply)
        PROVE  down'[c] = <<>> /\ reset' = reset
    <3>1. reset' = reset \/ Hangup(c, reply.rest)
      BY <2>3 DEF AuthReply, GetHeader, QuitReply
    <3>2. \E place : Reply(c, place, reply)
      BY <2>3 DEF AuthReply, GetHeader, QuitReply
    <3> QED
      BY <1>3, <1>4, <1>5, <3>1, <3>2
  <2>4. CASE ListBlocks(c) \/ GetBlocksOf(c)
    BY <1>6, <2>4 DEF ListBlocks, GetBlocksOf
  <2>5. CASE TransferDone(c) \/ ClientFails(c)
    BY <1>1, <2>5 DEF TransferDone, ClientFails, ioVars
  <2>6. CASE PutBlocksOf(c)
    <3>1. UNCHANGED <<down, reset>>
      BY <2>6 DEF PutBlocksOf
    <3> QED
      BY <1>1, <3>1
  <2>7. CASE LeaveAtPrompt(c)
    BY <1>1, <1>5, <2>7 DEF LeaveAtPrompt
  <2>8. ~Open(c)
    BY DEF Open
  <2>9. CASE OpenNowhere(c)
    BY <1>1, <2>9 DEF OpenNowhere, ioVars
  <2>10. CASE GetNull(c)
    BY <1>1, <2>10, EmptyRead
  <2> QED
    BY <2>1, <2>2, <2>3, <2>4, <2>5, <2>6, <2>7, <2>8, <2>9, <2>10 DEF ClientStep
<1>8. Alone(c)'
  BY <1>1, <1>2, <1>7 DEF Alone, Served
<1> QED
  BY <1>7, <1>8 DEF AtEase

\* A step of a client that leaves it in step.
LEMMA ClientGoesOn ==
    ASSUME NEW c \in Clients, InSession(c), UNCHANGED <<splace, serving, backlog>>,
           cplace'[c] \in {"open", "exited"} \/ c \in clientfd',
           Behind(c)' \/ Taken(c)' \/ Answered(c)' \/ Listing(c)' \/ Getting(c)' \/ Asked(c)'
             \/ Putting(c)'
    PROVE  AtEase(c)'
<1>1. Served(c)' /\ ~Waits(c)'
  BY DEF InSession, Served, Waits
<1> QED
  BY <1>1 DEF InSession, AtEase

\* Where c stands when it waits for a command of its user.
LEMMA AtPrompt ==
    ASSUME IInv, NEW c \in Clients, AtEase(c), cplace[c] = "prompt", splace # "killed"
    PROVE  /\ down[c] = <<>>
           /\ c \in clientfd => InSession(c) /\ Behind(c)
           /\ c \notin clientfd => Outside(c)
<1>1. CASE InSession(c)
  BY <1>1 DEF InSession, Outside, Behind, Taken, Answered, Listing, Getting, Asked, Putting
<1>2. CASE Outside(c)
  BY <1>2 DEF Outside
<1> QED
  BY <1>1, <1>2 DEF AtEase, Queued, Alone

\* The connection is made: the client is in the queue.
LEMMA Connects ==
    ASSUME IInv, NEW c \in Clients, AtEase(c), Open(c)
    PROVE  AtEase(c)' /\ reset' = reset
<1> USE Types, ClientTypes
<1>1. /\ cplace[c] = "prompt" /\ c \notin clientfd /\ splace # "killed" /\ cplace'[c] = "open"
      /\ UNCHANGED <<splace, serving, down, reset>>
  BY DEF Open, GoTo
<1>2. Outside(c)
  BY <1>1, AtPrompt
<1>3. PICK queue \in Seq(Clients) : queue = backlog
  BY DEF IInv, TypeOK, ServerTypeOK
<1>4. PICK longer : longer = Append(queue, c) /\ backlog' = longer
  BY <1>3 DEF Open
<1>5. /\ Len(longer) = Len(queue) + 1 /\ Len(queue) \in Nat
      /\ \A i \in 1..Len(queue) : longer[i] = queue[i]
      /\ longer[Len(queue) + 1] = c
  BY <1>4, SMTT(30)
<1>6. \A i \in 1..Len(queue) : queue[i] # c
  BY <1>2, <1>3 DEF Outside, Waits
<1>7. \A i \in 1..Len(longer) : longer[i] = c => i = Len(queue) + 1
  <2> SUFFICES ASSUME NEW i \in 1..Len(longer), i # Len(queue) + 1 PROVE longer[i] # c
    OBVIOUS
  <2>1. i \in 1..Len(queue)
    BY <1>5, SMTT(30)
  <2> QED
    BY <1>5, <1>6, <2>1
<1>8. Waits(c)'
  <2>1. Len(queue) + 1 \in 1..Len(longer)
    BY <1>5
  <2> QED
    BY <1>4, <1>5, <2>1 DEF Waits
<1>9. up'[c] = <<get_header(UNUSED, "OPEN_CONN_REQUEST", 0)>>
  <2>1. PICK units : units = <<get_header(UNUSED, "OPEN_CONN_REQUEST", 0)>>
    OBVIOUS
  <2>2. units \in Seq(Units)
    BY <2>1, ReplyKinds DEF HeaderTypes
  <2>3. up[c] = <<>> /\ ClientSends(c, units)
    BY <1>2, <2>1 DEF Outside, Open
  <2>4. up'[c] = <<>> \o units
    BY <1>1, <2>3 DEF ClientSends
  <2>5. <<>> \o units = units
    BY <2>2
  <2> QED
    BY <2>1, <2>4, <2>5
<1>10. up'[c] \in Commands(c)'
  BY <1>1, <1>9 DEF Commands
<1>11. ~Served(c)' /\ down'[c] = <<>>
  BY <1>1, <1>2 DEF Outside, Served
<1>12. Queued(c)'
  BY <1>1, <1>4, <1>7, <1>8, <1>10, <1>11 DEF Queued
<1> QED
  BY <1>1, <1>12 DEF AtEase

\* A command follows what is on its way.
LEMMA CommandSent ==
    ASSUME IInv, NEW c \in Clients, InSession(c), Behind(c), cplace[c] = "prompt", splace # "killed",
           NEW units \in Seq(Units), ClientSends(c, units), units \in Commands(c)', Announced(c)',
           UNCHANGED <<down, disk, splace, serving, sname, sleft, backlog, clientfd>>
    PROVE  AtEase(c)'
<1> USE Types, ClientTypes
<1>1. PICK stream \in Seq(Units) : stream = up[c]
  OBVIOUS
<1>2. PICK longer : longer = stream \o units
  OBVIOUS
<1>3. up'[c] = longer
  BY <1>1, <1>2 DEF ClientSends
<1>4. Commands(c) = {<<>>} /\ down'[c] = <<>> /\ c \in clientfd
  BY DEF Commands, Behind, InSession
<1>5. stream = <<>> => longer = units
  BY <1>2, LongerSequence
<1>6. CASE splace = "request" /\ stream = <<>>
  <2>1. Behind(c)'
    BY <1>3, <1>4, <1>5, <1>6 DEF Behind
  <2> QED
    BY <1>4, <2>1, ClientGoesOn
<1>7. CASE /\ splace = "getData" /\ stream = <<>>
           /\ IsRegular(disk[Server][sname]) /\ sleft = disk[Server][sname].size
  <2>1. Behind(c)'
    BY <1>3, <1>4, <1>5, <1>7 DEF Behind
  <2> QED
    BY <1>4, <2>1, ClientGoesOn
<1>8. CASE PutFollows(c, disk[c][sname].size, <<>>)
  <2>1. PICK file \in Files : file = disk[c][sname]
    OBVIOUS
  <2>2. IsRegular(file)
    BY <1>8, <2>1 DEF PutFollows
  <2>3. PICK source \in Seq(Blocks), size \in Nat :
          source = file.blocks /\ file.size = size /\ size = Len(source)
    BY <2>2, RegularFile
  <2>4. Carries(units, 0, source, size, size, units)
    BY <2>3, CarriesCommand
  <2>5. ASSUME NEW front \in Nat, NEW from \in Nat, Carries(stream, front, source, from, size, <<>>)
        PROVE  Carries(longer, front, source, from, size, units)
    BY <1>2, <2>4, <2>5, CarriesMore
  <2>6. CASE splace = "putHeader"
    <3>1. Carries(stream, 1, source, 0, size, <<>>) /\ stream[1] = DataHeader(file)
      BY <1>1, <1>8, <2>1, <2>3, <2>6 DEF PutFollows
    <3>2. PICK one, none \in Nat : one = 1 /\ none = 0
      OBVIOUS
    <3>3. Carries(stream, one, source, none, size, <<>>)
      BY <3>1, <3>2
    <3>4. Carries(longer, one, source, none, size, units)
      BY <2>5, <3>3
    <3>5. longer[1] = stream[1]
      <4>1. Len(stream) = 1 + (size - 0) + Len(<<>>) /\ Len(<<>>) = 0
        BY <3>1 DEF Carries
      <4>2. 1 \in 1..Len(stream)
        BY <4>1
      <4>3. \A i \in 1..Len(stream) : longer[i] = stream[i]
        BY <1>2, LongerSequence
      <4> QED
        BY <4>2, <4>3
    <3>6. Carries(longer, 1, source, 0, size, units)
      BY <3>2, <3>4
    <3>7. PutFollows(c, file.size, units)'
      BY <1>3, <2>1, <2>2, <2>3, <2>6, <3>1, <3>5, <3>6 DEF PutFollows, DataHeader
    <3>8. Behind(c)'
      BY <1>4, <2>1, <3>7 DEF Behind
    <3> QED
      BY <1>4, <3>8, ClientGoesOn
  <2>7. CASE splace = "putData"
    <3>1. PICK target \in Files : target = disk[Server][sname]
      OBVIOUS
    <3>2. /\ IsRegular(target) /\ Copied(target.blocks, source) /\ sleft = file.size - target.size
          /\ Carries(stream, 0, source, target.size, size, <<>>)
      BY <1>1, <1>8, <2>1, <2>3, <2>7, <3>1 DEF PutFollows
    <3>3. PICK none, from \in Nat : none = 0 /\ from = target.size
      <4>1. target.size \in Nat
        BY <3>2, RegularFile
      <4> QED
        BY <4>1
    <3>4. Carries(stream, none, source, from, size, <<>>)
      BY <3>2, <3>3
    <3>5. Carries(longer, none, source, from, size, units)
      BY <2>5, <3>4
    <3>6. Carries(longer, 0, source, target.size, size, units)
      BY <3>3, <3>5
    <3>7. PutFollows(c, file.size, units)'
      BY <1>3, <2>1, <2>2, <2>3, <2>7, <3>1, <3>2, <3>6 DEF PutFollows
    <3>8. Behind(c)'
      BY <1>4, <2>1, <3>7 DEF Behind
    <3> QED
      BY <1>4, <3>8, ClientGoesOn
  <2> QED
    BY <1>8, <2>6, <2>7 DEF PutFollows
<1> QED
  BY <1>1, <1>4, <1>6, <1>7, <1>8 DEF Behind

\* What has one of the commands' request types.
LEMMA AskingSends ==
    ASSUME IInv, NEW c \in Clients, NEW units, units \in Commands(c)',
           cplace'[c] \in {"auth", "list", "get", "put", "quit"}, cname'[c] \in Names
    PROVE  units \in Seq(Units)
<1>1. PICK type \in HeaderTypes, length \in {0, 1}, name \in Names, login \in {0, 1} :
        \/ units = <<get_header(UNUSED, type, length)>>
        \/ units = <<get_header(UNUSED, type, length), Body("login", login)>>
        \/ units = <<get_header(UNUSED, type, length), Body("name", name)>>
  BY DEF Commands, HeaderTypes
<1>2. PICK header \in Units : header = get_header(UNUSED, type, length)
  BY UnitKinds
<1>3. PICK body, word \in Units : body = Body("login", login) /\ word = Body("name", name)
  BY UnitKinds
<1>4. <<header>> \in Seq(Units) /\ <<header, body>> \in Seq(Units) /\ <<header, word>> \in Seq(Units)
  OBVIOUS
<1> QED
  BY <1>1, <1>2, <1>3, <1>4

\* The commands, as typed.
LEMMA Asks ==
    ASSUME IInv, NEW c \in Clients, AtEase(c), splace # "killed",
           \/ \E login \in {0, 1} : Auth(c, login)
           \/ List(c)
           \/ \E name \in Names : Get(c, name) \/ Put(c, name)
           \/ Quit(c)
    PROVE  (AtEase(c)' \/ Mishap(c)') /\ reset' = reset
<1> USE Types, ClientTypes
<1>1. /\ cplace[c] = "prompt" /\ c \in clientfd
      /\ UNCHANGED <<down, disk, splace, serving, sname, sleft, backlog, clientfd, reset>>
  BY DEF Auth, List, Get, Put, Quit, Command, LoggedIn, Connected, othersVars
<1>2. InSession(c) /\ Behind(c)
  BY <1>1, AtPrompt
<1>3. ASSUME NEW units, ClientSends(c, units), units \in Commands(c)', Announced(c)',
             cplace'[c] \in {"auth", "list", "get", "put", "quit"}, cname'[c] \in Names
      PROVE  AtEase(c)'
  <2>1. units \in Seq(Units)
    BY <1>3, AskingSends
  <2> QED
    BY <1>1, <1>2, <1>3, <2>1, CommandSent
<1>4. ASSUME NEW login \in {0, 1}, Auth(c, login) PROVE AtEase(c)'
  <2>1. PICK units : units = <<get_header(UNUSED, "AUTH_REQUEST", 1), Body("login", login)>>
    OBVIOUS
  <2>2. ClientSends(c, units) /\ cplace'[c] = "auth" /\ cname'[c] \in Names
    BY <1>4, <2>1 DEF Auth, GoTo
  <2>3. units \in Commands(c)' /\ Announced(c)'
    BY <2>1, <2>2 DEF Commands, Announced
  <2> QED
    BY <1>3, <2>2, <2>3
<1>5. CASE List(c)
  <2>1. PICK units : units = <<get_header(UNUSED, "LIST_REQUEST", 0)>>
    OBVIOUS
  <2>2. ClientSends(c, units) /\ cplace'[c] = "list" /\ cname'[c] \in Names
    BY <1>5, <2>1 DEF List, GoTo
  <2>3. units \in Commands(c)' /\ Announced(c)'
    BY <2>1, <2>2 DEF Commands, Announced
  <2>4. AtEase(c)'
    BY <1>3, <2>2, <2>3
  <2> QED
    BY <1>1, <2>4
<1>6. ASSUME NEW name \in Names, Get(c, name) PROVE AtEase(c)'
  <2>1. PICK units : units = <<get_header(UNUSED, "GET_REQUEST", 1), Body("name", name)>>
    OBVIOUS
  <2>2. ClientSends(c, units) /\ cplace'[c] = "get" /\ cname'[c] = name
    BY <1>6, <2>1 DEF Get, GoTo
  <2>3. units \in Commands(c)' /\ Announced(c)'
    BY <2>1, <2>2 DEF Commands, Announced
  <2> QED
    BY <1>3, <2>2, <2>3
<1>7. ASSUME NEW name \in Names, Put(c, name) PROVE AtEase(c)' \/ Mishap(c)'
  <2>1. PICK units : units = <<get_header(UNUSED, "PUT_REQUEST", 1), Body("name", name)>>
    OBVIOUS
  <2>2. ClientSends(c, units) /\ cplace'[c] = "put" /\ cname'[c] = name
    BY <1>7, <2>1 DEF Put, GoTo
  <2>3. PICK file \in Files : file = disk[c][name]
    OBVIOUS
  <2>4. file # Absent
    BY <1>7, <2>3 DEF Put
  <2>5. CASE file = Directory
    <3>1. mishaps' = mishaps \cup {<<"directory", c>>}
      BY <1>7, <2>3, <2>5 DEF Put
    <3> QED
      BY <3>1 DEF Mishap, MishapKinds
  <2>6. CASE file # Directory
    <3>1. IsRegular(file)
      BY <2>4, <2>6, RegularFiles
    <3>2. announced'[c] = file.size
      <4>1. announced' = [announced EXCEPT ![c] = file.size]
        BY <1>7, <2>3 DEF Put
      <4> QED
        BY <4>1
    <3>3. Announced(c)'
      BY <1>1, <2>2, <2>3, <3>1, <3>2 DEF Announced
    <3>4. units \in Commands(c)'
      BY <2>1, <2>2 DEF Commands
    <3> QED
      BY <1>3, <2>2, <3>3, <3>4
  <2> QED
    BY <2>5, <2>6
<1>8. CASE Quit(c)
  <2>1. PICK units : units = <<get_header(UNUSED, "QUIT_REQUEST", 0)>>
    OBVIOUS
  <2>2. ClientSends(c, units) /\ cplace'[c] = "quit" /\ cname'[c] \in Names
    BY <1>8, <2>1 DEF Quit, GoTo
  <2>3. units \in Commands(c)' /\ Announced(c)'
    BY <2>1, <2>2 DEF Commands, Announced
  <2>4. AtEase(c)'
    BY <1>3, <2>2, <2>3
  <2> QED
    BY <1>1, <2>4
<1> QED
  BY <1>1, <1>4, <1>5, <1>6, <1>7, <1>8

\* Back at the prompt, or gone, with nothing in the stream or all of a file.
LEMMA NothingAsked ==
    ASSUME IInv, NEW c \in Clients, cplace'[c] \in {"prompt", "exited"},
           down'[c] = <<>>, UNCHANGED <<splace, sname, sleft, up, disk>>,
           \/ splace = "request" /\ up[c] = <<>>
           \/ /\ splace = "getData" /\ up[c] = <<>>
              /\ IsRegular(disk[Server][sname]) /\ sleft = disk[Server][sname].size
           \/ PutFollows(c, disk[c][sname].size, <<>>)
    PROVE  Behind(c)'
<1>1. <<>> \in Commands(c)' /\ Announced(c)'
  BY DEF Commands, Announced
<1>2. CASE PutFollows(c, disk[c][sname].size, <<>>)
  <2>1. PutFollows(c, disk[c][sname].size, <<>>)'
    BY <1>2 DEF PutFollows, DataHeader
  <2> QED
    BY <1>1, <2>1 DEF Behind
<1> QED
  BY <1>1, <1>2 DEF Behind

\* The client ends at the prompt.
LEMMA Leaves ==
    ASSUME IInv, NEW c \in Clients, AtEase(c), splace # "killed", LeaveAtPrompt(c)
    PROVE  AtEase(c)' /\ reset' = reset
<1> USE Types, ClientTypes
<1>1. /\ cplace[c] = "prompt"
      /\ UNCHANGED <<splace, serving, sname, sleft, backlog, up, down, disk, clientfd>>
  BY DEF LeaveAtPrompt, othersVars
<1>2. down[c] = <<>> /\ (c \in clientfd => InSession(c) /\ Behind(c)) /\ (c \notin clientfd => Outside(c))
  BY <1>1, AtPrompt
<1>3. cplace'[c] = "exited" /\ reset' = reset
  BY <1>2 DEF LeaveAtPrompt, Hangup, GoTo
<1>4. CASE c \in clientfd
  <2>1. Commands(c) = {<<>>}
    BY <1>1 DEF Commands
  <2>2. Behind(c)'
    BY <1>1, <1>2, <1>3, <1>4, <2>1, NothingAsked DEF Behind
  <2>3. AtEase(c)'
    BY <1>1, <1>2, <1>3, <1>4, <2>2, ClientGoesOn
  <2> QED
    BY <1>3, <2>3
<1>5. CASE c \notin clientfd
  <2>1. Outside(c)'
    BY <1>1, <1>2, <1>3, <1>5 DEF Outside, Served, Waits
  <2> QED
    BY <1>3, <2>1 DEF AtEase
<1> QED
  BY <1>4, <1>5

\* No header looks like a body.
LEMMA HeadersAreNoBodies ==
    \A status, length : \A type \in HeaderTypes : get_header(status, type, length) \notin BodyUnits
BY DEF get_header, HeaderTypes, BodyUnits, Bodies

\* A reply is what the stream begins with.
LEMMA ReplyRead ==
    ASSUME IInv, NEW c \in Clients, NEW reply \in Replies(c), NEW place, Reply(c, place, reply),
           splace # "killed"
    PROVE  /\ cplace[c] = place /\ IsRest(down'[c], down[c], 1)
           /\ down[c][1] \notin BodyUnits => reply.header = down[c][1]
           /\ reply.rest = down'[c]
<1>1. PICK stream \in Seq(Units) : stream = down[c]
  BY Types
<1>2. stream # <<>>
  BY <1>1 DEF Replies
<1>3. PICK rest : rest = Tail(stream)
  OBVIOUS
<1>4. reply \in [header : AsHeader(Head(stream)), rest : {rest}]
  BY <1>1, <1>2, <1>3 DEF Replies
<1>5. reply.header \in AsHeader(Head(stream)) /\ reply.rest = rest
  BY <1>4
<1>6. /\ rest \in Seq(Units) /\ Len(rest) = Len(stream) - 1
      /\ \A i \in 1..Len(rest) : rest[i] = stream[1 + i]
      /\ Head(stream) = stream[1]
  BY <1>2, <1>3, TailOfStream
<1>7. Len(stream) >= 1
  BY <1>2
<1>8. IsRest(rest, stream, 1)
  BY <1>6, <1>7 DEF IsRest
<1>9. down'[c] = rest /\ cplace[c] = place
  BY <1>5, Types DEF Reply
<1>10. stream[1] \notin BodyUnits => reply.header = stream[1]
  BY <1>5, <1>6 DEF AsHeader
<1> QED
  BY <1>1, <1>5, <1>8, <1>9, <1>10

\* What follows a reply that is the only one, or the first of three units.
LEMMA ShortRests ==
    ASSUME NEW stream, NEW rest, IsRest(rest, stream, 1)
    PROVE  /\ stream # <<>>
           /\ \A unit : stream = <<unit>> => rest = <<>> /\ stream[1] = unit
           /\ \A unit, next, last : stream = <<unit, next, last>> =>
                stream[1] = unit /\ Len(rest) = 2 /\ rest[1] = next /\ rest[2] = last
<1>1. stream # <<>>
  BY DEF IsRest
<1>2. ASSUME NEW unit, stream = <<unit>> PROVE rest = <<>> /\ stream[1] = unit
  <2>1. Len(rest) = 0 /\ rest \in Seq(Units)
    BY <1>2 DEF IsRest
  <2> QED
    BY <1>2, <2>1, ShortSequences
<1>3. ASSUME NEW unit, NEW next, NEW last, stream = <<unit, next, last>>
      PROVE  stream[1] = unit /\ Len(rest) = 2 /\ rest[1] = next /\ rest[2] = last
  BY <1>3 DEF IsRest
<1> QED
  BY <1>1, <1>2, <1>3

\* Replies of one header, after which c is back at the prompt or ends.
LEMMA CommandEnds ==
    ASSUME IInv, NEW c \in Clients, AtEase(c), splace # "killed", NEW reply \in Replies(c),
           OpenReply(c, reply) \/ AuthReply(c, reply) \/ QuitReply(c, reply)
    PROVE  AtEase(c)' /\ reset' = reset
<1> USE Types, ClientTypes
<1>1. PICK place \in {"open", "auth", "quit"} : Reply(c, place, reply)
  BY DEF OpenReply, AuthReply, QuitReply
<1>2. /\ cplace[c] = place /\ IsRest(down'[c], down[c], 1)
      /\ down[c][1] \notin BodyUnits => reply.header = down[c][1]
      /\ reply.rest = down'[c]
  BY <1>1, ReplyRead
<1>3. down[c] # <<>> /\ \A unit : down[c] = <<unit>> => down'[c] = <<>> /\ down[c][1] = unit
  <2>1. PICK stream, rest : stream = down[c] /\ rest = down'[c] /\ IsRest(rest, stream, 1)
    BY <1>2
  <2>2. stream # <<>>
    BY <2>1, ShortRests
  <2>3. \A unit : stream = <<unit>> => rest = <<>> /\ stream[1] = unit
    BY ONLY <2>1, ShortRests
  <2> QED
    BY <2>1, <2>2, <2>3
<1>4. InSession(c) /\ Answered(c)
  BY <1>2, <1>3 DEF AtEase, InSession, Queued, Outside, Alone, Behind, Taken, Listing, Getting, Asked, Putting
<1>5. UNCHANGED <<splace, serving, sname, sleft, backlog, up, disk>> /\ up[c] = <<>> /\ splace = "request"
  BY <1>4 DEF OpenReply, AuthReply, QuitReply, replyVars, othersVars, Answered
<1>6. /\ down'[c] = <<>>
      /\ place = "open" => reply.header.status = 1
  <2>1. CASE place = "open"
    <3>1. PICK header : header = get_header(1, "OPEN_CONN_REPLY", 0)
      OBVIOUS
    <3>2. header \notin BodyUnits /\ header.status = 1
      BY <3>1, HeadersAreNoBodies DEF HeaderTypes, get_header
    <3>3. down[c] = <<header>>
      BY <1>2, <1>4, <2>1, <3>1 DEF Answered
    <3> QED
      BY <1>2, <1>3, <3>2, <3>3
  <2>2. CASE place # "open"
    <3>1. \E unit : down[c] = <<unit>>
      BY <1>1, <1>2, <1>4, <2>2 DEF Answered
    <3> QED
      BY <1>3, <2>2, <3>1
  <2> QED
    BY <2>1, <2>2
<1>7. /\ cplace'[c] \in {"prompt", "exited"} /\ reset' = reset
      /\ cplace'[c] = "exited" \/ c \in clientfd'
  <2>1. CASE OpenReply(c, reply)
    <3>1. reply.header.status = 1
      BY <1>1, <1>2, <1>6, <2>1 DEF OpenReply, Reply
    <3> QED
      BY <2>1, <3>1 DEF OpenReply, GoTo
  <2>2. CASE AuthReply(c, reply)
    <3>1. reset' = reset /\ cplace'[c] \in {"prompt", "exited"} /\ clientfd' = clientfd
      BY <1>2, <1>6, <2>2 DEF AuthReply, GoTo, Hangup
    <3>2. c \in clientfd
      BY <2>2 DEF AuthReply, Reply, IInv, ClientsKnown
    <3> QED
      BY <3>1, <3>2
  <2>3. CASE QuitReply(c, reply)
    BY <1>2, <1>6, <2>3 DEF QuitReply, GoTo, Hangup
  <2> QED
    BY <2>1, <2>2, <2>3
<1>8. Behind(c)'
  BY <1>5, <1>6, <1>7, NothingAsked
<1>9. AtEase(c)'
  BY <1>4, <1>5, <1>7, <1>8, ClientGoesOn
<1> QED
  BY <1>7, <1>9

\* The listing is announced.
LEMMA ListComes ==
    ASSUME IInv, NEW c \in Clients, AtEase(c), splace # "killed", NEW reply \in Replies(c),
           ListReply(c, reply)
    PROVE  AtEase(c)' /\ reset' = reset
<1> USE Types, ClientTypes
<1>1. Reply(c, "list", reply)
  BY DEF ListReply
<1>2. /\ cplace[c] = "list" /\ IsRest(down'[c], down[c], 1)
      /\ down[c][1] \notin BodyUnits => reply.header = down[c][1]
  BY <1>1, ReplyRead
<1>3. down[c] # <<>>
  BY <1>2, ShortRests
<1>4. InSession(c) /\ Answered(c)
  BY <1>2, <1>3 DEF AtEase, InSession, Queued, Outside, Alone, Behind, Taken, Listing, Getting, Asked, Putting
<1>5. /\ UNCHANGED <<splace, serving, sname, sleft, backlog, up, disk, reset, clientfd>>
      /\ up[c] = <<>> /\ splace = "request" /\ c \in clientfd
  BY <1>2, <1>4 DEF ListReply, replyVars, othersVars, Answered, InSession
<1>6. PICK header, unit : /\ header = get_header(UNUSED, "LIST_REPLY", 2) /\ unit = Body("listing", 0)
                          /\ down[c] = <<header, unit, unit>>
  BY <1>2, <1>4 DEF Answered
<1>7. header.type = "LIST_REPLY" /\ header.length = 2 /\ header \notin BodyUnits
  BY <1>6, HeadersAreNoBodies DEF HeaderTypes, get_header
<1>8. down[c][1] = header /\ Len(down'[c]) = 2 /\ down'[c][1] = unit /\ down'[c][2] = unit
  BY <1>2, <1>6, ShortRests, SMTT(30)
<1>9. reply.header = header
  BY <1>2, <1>7, <1>8
<1>10. cplace'[c] = "listData" /\ cleft'[c] = 2
  BY <1>7, <1>9 DEF ListReply, GoTo
<1>11. \A i \in 1..Len(down'[c]) : down'[c][i] = unit
  <2>1. \A i \in 1..2 : i = 1 \/ i = 2
    OBVIOUS
  <2> QED
    BY <1>8, <2>1
<1>12. Listing(c)'
  BY <1>5, <1>6, <1>8, <1>10, <1>11 DEF Listing
<1>13. AtEase(c)'
  BY <1>4, <1>5, <1>12, ClientGoesOn
<1> QED
  BY <1>5, <1>13

\* One of the headers before Get's file is taken.
LEMMA OneHeaderLess ==
    ASSUME IInv, NEW c \in Clients, NEW front \in Nat, NEW ahead \in Nat, front = ahead + 1,
           GetFollows(c, front, 0), IsRest(down'[c], down[c], 1),
           UNCHANGED <<splace, sname, sleft, up, cname>>, disk'[Server] = disk[Server]
    PROVE  /\ GetFollows(c, ahead, 0)'
           /\ \A i \in 1..ahead : down'[c][i] = down[c][1 + i]
           /\ down[c] # <<>>
<1> USE Types
<1>1. PICK stream \in Seq(Units) : stream = down[c]
  BY Types
<1>2. PICK rest : rest = down'[c]
  OBVIOUS
<1>3. IsRest(rest, stream, 1)
  BY <1>1, <1>2
<1>4. PICK file \in Files : file = disk[Server][sname]
  OBVIOUS
<1>5. IsRegular(file)
  BY <1>4 DEF GetFollows
<1>6. PICK source \in Seq(Blocks) : source = file.blocks /\ file.size = Len(source) /\ file.size \in Nat
  BY <1>5, RegularFile
<1>7. PICK end \in Nat : end = IF splace = "getData" THEN sleft ELSE file.size
  BY <1>6
<1>8. PICK none \in Nat : none = 0
  OBVIOUS
<1>9. <<>> \in Seq(Units) /\ Len(<<>>) = 0
  OBVIOUS
<1>10. PICK nothing \in Seq(Units) : nothing = <<>>
  BY <1>9
<1>11. Carries(stream, front, source, none, end, nothing)
  BY <1>1, <1>2, <1>4, <1>6, <1>7, <1>8, <1>10 DEF GetFollows
<1>12. Carries(rest, ahead, source, none, end, nothing)
  BY <1>3, <1>11, HeaderOff
<1>13. Len(rest) = ahead + (end - none) + Len(nothing) /\ none <= end
  BY <1>12 DEF Carries
<1>14. Len(rest) >= ahead
  BY <1>8, <1>9, <1>10, <1>13
<1>15. \A i \in 1..ahead : rest[i] = stream[1 + i]
  BY <1>3, <1>14 DEF IsRest
<1>16. GetFollows(c, ahead, 0)'
  <2>1. disk'[Server][sname] = file /\ IsRegular(file) /\ up'[c] = <<>> /\ sname = cname[c]
        /\ splace \in {"getData", "request"}
    BY <1>4, <1>5 DEF GetFollows
  <2> QED
    BY <1>1, <1>2, <1>6, <1>7, <1>8, <1>10, <1>12, <2>1 DEF GetFollows
<1>17. stream # <<>>
  BY <1>3, ShortRests
<1> QED
  BY <1>1, <1>2, <1>15, <1>16, <1>17

\* Get is answered.
LEMMA FileIsAnnounced ==
    ASSUME IInv, NEW c \in Clients, AtEase(c), splace # "killed", NEW reply \in Replies(c),
           GetReplied(c, reply)
    PROVE  AtEase(c)' /\ reset' = reset
<1> USE Types, ClientTypes
<1>1. Reply(c, "get", reply)
  BY DEF GetReplied
<1>2. /\ cplace[c] = "get" /\ IsRest(down'[c], down[c], 1)
      /\ down[c][1] \notin BodyUnits => reply.header = down[c][1]
  BY <1>1, ReplyRead
<1>3. down[c] # <<>>
  BY <1>2, ShortRests
<1>4. InSession(c) /\ (Answered(c) \/ Getting(c))
  BY <1>2, <1>3 DEF AtEase, InSession, Queued, Outside, Alone, Behind, Taken, Listing, Asked, Putting
<1>5. /\ UNCHANGED <<splace, serving, sname, sleft, backlog, up, disk, reset, clientfd, cname>>
      /\ c \in clientfd
  BY <1>2, <1>4 DEF GetReplied, replyVars, othersVars, InSession
<1>6. CASE Answered(c)
  <2>1. PICK header : header = GetReply(0)
    OBVIOUS
  <2>2. header.status = 0 /\ header \notin BodyUnits
    BY <2>1, HeadersAreNoBodies DEF HeaderTypes, get_header, GetReply
  <2>3. down[c] = <<header>> /\ up[c] = <<>> /\ splace = "request"
    BY <1>2, <1>6, <2>1 DEF Answered
  <2>4. down[c][1] = header /\ down'[c] = <<>>
    BY <1>2, <2>3, ShortRests
  <2>5. reply.header.status = 0
    BY <1>2, <2>2, <2>4
  <2>6. cplace'[c] = "prompt"
    BY <2>5 DEF GetReplied, GoTo
  <2>7. Behind(c)'
    BY <1>5, <2>3, <2>4, <2>6, NothingAsked
  <2>8. AtEase(c)'
    BY <1>4, <1>5, <2>7, ClientGoesOn
  <2> QED
    BY <1>5, <2>8
<1>7. CASE Getting(c)
  <2>1. /\ GetFollows(c, 2, 0) /\ down[c][1] = GetReply(1)
        /\ down[c][2] = DataHeader(disk[Server][sname])
    BY <1>2, <1>7 DEF Getting
  <2>2. PICK header : header = GetReply(1)
    OBVIOUS
  <2>3. header \notin BodyUnits /\ header.status = 1 /\ header.type = "GET_REPLY"
    BY <2>2, HeadersAreNoBodies DEF HeaderTypes, get_header, GetReply
  <2>4. reply.header = header
    BY <1>2, <2>1, <2>2, <2>3
  <2>5. cplace'[c] = "getHeader"
    BY <2>3, <2>4 DEF GetReplied, GoTo
  <2>6. PICK one, two \in Nat : one = 1 /\ two = 2 /\ two = one + 1
    OBVIOUS
  <2>7. GetFollows(c, two, 0) /\ disk'[Server] = disk[Server]
    BY <1>5, <2>1, <2>6
  <2>8. GetFollows(c, one, 0)'
    BY <1>2, <1>5, <2>6, <2>7, OneHeaderLess
  <2>9. \A i \in 1..one : down'[c][i] = down[c][1 + i]
    BY <1>2, <1>5, <2>6, <2>7, OneHeaderLess, SMTT(30)
  <2>10. 1 \in 1..one /\ 1 + 1 = 2
    BY <2>6
  <2>11. down'[c][1] = down[c][2]
    BY <2>9, <2>10
  <2>12. GetFollows(c, 1, 0)'
    BY <2>6, <2>8
  <2>13. DataHeader(disk[Server][sname]) = DataHeader(disk[Server][sname])'
    BY <1>5 DEF DataHeader
  <2>14. Getting(c)'
    BY <2>1, <2>5, <2>11, <2>12, <2>13 DEF Getting
  <2>15. AtEase(c)'
    BY <1>4, <1>5, <2>14, ClientGoesOn
  <2> QED
    BY <1>5, <2>15
<1> QED
  BY <1>4, <1>6, <1>7

\* A client writes to a file of its own.
LEMMA OwnDiskWritten ==
    ASSUME IInv, NEW c \in Clients, NEW name \in Names, NEW file,
           disk' = [disk EXCEPT ![c][name] = file]
    PROVE  disk'[c][name] = file /\ disk'[Server] = disk[Server]
<1>1. Server \in Hosts /\ c \in Hosts /\ c # Server /\ disk \in [Hosts -> [Names -> Files]]
  BY FtpAssumption, Types
<1> QED
  BY <1>1

\* Get opens its file.
LEMMA OwnFileOpened ==
    ASSUME IInv, NEW c \in Clients, AtEase(c), splace # "killed", NEW reply \in Replies(c),
           GetHeader(c, reply)
    PROVE  (AtEase(c)' \/ Mishap(c)') /\ reset' = reset
<1> USE Types, ClientTypes
<1>1. Reply(c, "getHeader", reply)
  BY DEF GetHeader
<1>2. /\ cplace[c] = "getHeader" /\ IsRest(down'[c], down[c], 1)
      /\ down[c][1] \notin BodyUnits => reply.header = down[c][1]
  BY <1>1, ReplyRead
<1>3. down[c] # <<>>
  BY <1>2, ShortRests
<1>4. InSession(c) /\ Getting(c)
  BY <1>2, <1>3 DEF AtEase, InSession, Queued, Outside, Alone, Behind, Taken, Answered, Listing, Asked, Putting
<1>5. /\ UNCHANGED <<splace, serving, sname, sleft, backlog, up, clientfd, cname, reset>>
      /\ c \in clientfd
  BY <1>2, <1>4 DEF GetHeader, othersVars, InSession
<1>6. PICK name \in Names : name = cname[c]
  OBVIOUS
<1>7. CASE GoTo(c, "getNull")
  <2>1. cplace'[c] = "getNull"
    BY <1>7 DEF GoTo
  <2>2. ~GoTo(c, "getData")
    BY <2>1 DEF GoTo
  <2>3. \E kind \in {"directory", "fopen"} : mishaps' = mishaps \cup {<<kind, c>>}
    BY <2>2 DEF GetHeader
  <2> QED
    BY <1>5, <2>3 DEF Mishap, MishapKinds
<1>8. CASE ~GoTo(c, "getNull")
  <2>1. PICK empty \in Files : empty = Regular(<<>>) /\ IsRegular(empty) /\ empty.blocks = <<>> /\ empty.size = 0
    <3>1. <<>> \in Seq(Blocks) /\ Len(<<>>) = 0
      OBVIOUS
    <3> QED
      BY <3>1, RegularFiles
  <2>2. /\ disk' = [disk EXCEPT ![c][name] = empty]
        /\ cleft' = [cleft EXCEPT ![c] = reply.header.length]
        /\ cplace' = [cplace EXCEPT ![c] = "getData"] /\ reset' = reset
    BY <1>6, <1>8, <2>1 DEF GetHeader, Create, GoTo
  <2>3. disk'[c][name] = empty /\ disk'[Server] = disk[Server]
    BY <2>2, OwnDiskWritten
  <2>4. PICK file \in Files : file = disk[Server][sname]
    OBVIOUS
  <2>5. GetFollows(c, 1, 0) /\ down[c][1] = DataHeader(file) /\ IsRegular(file)
    BY <1>2, <1>4, <2>4 DEF Getting, GetFollows
  <2>6. PICK header : header = DataHeader(file)
    OBVIOUS
  <2>7. header \notin BodyUnits /\ header.length = file.size
    BY <2>6, HeadersAreNoBodies DEF HeaderTypes, get_header, DataHeader
  <2>8. cleft'[c] = file.size /\ cplace'[c] = "getData"
    BY <1>2, <2>2, <2>5, <2>6, <2>7
  <2>9. PICK none, one \in Nat : none = 0 /\ one = 1 /\ one = none + 1
    OBVIOUS
  <2>10. GetFollows(c, one, 0)
    BY <2>5, <2>9
  <2>11. GetFollows(c, none, 0)'
    BY <1>2, <1>5, <2>3, <2>9, <2>10, OneHeaderLess
  <2>12. GetFollows(c, 0, 0)'
    BY <2>9, <2>11
  <2>13. PICK source \in Seq(Blocks) : source = file.blocks /\ file.size = Len(source) /\ file.size \in Nat
    BY <2>5, RegularFile
  <2>14. Copied(<<>>, source)
    BY <2>13 DEF Copied
  <2>15. file.size - empty.size = file.size
    BY <2>1, <2>13
  <2>16. cname'[c] = name /\ disk'[c][cname'[c]] = empty /\ disk'[Server][sname'] = file
    BY <1>5, <1>6, <2>3, <2>4
  <2>17. Getting(c)'
    BY <2>1, <2>8, <2>12, <2>13, <2>14, <2>15, <2>16 DEF Getting
  <2>18. AtEase(c)'
    BY <1>4, <1>5, <2>17, ClientGoesOn
  <2> QED
    BY <2>2, <2>18
<1> QED
  BY <1>7, <1>8

\* Put sends its header.
LEMMA FileAnnouncedToServer ==
    ASSUME IInv, NEW c \in Clients, AtEase(c), splace # "killed", NEW reply \in Replies(c),
           PutReplied(c, reply)
    PROVE  AtEase(c)' /\ reset' = reset
<1> USE Types, ClientTypes
<1>1. Reply(c, "put", reply)
  BY DEF PutReplied
<1>2. /\ cplace[c] = "put" /\ IsRest(down'[c], down[c], 1)
      /\ down[c][1] \notin BodyUnits => reply.header = down[c][1]
  BY <1>1, ReplyRead
<1>3. down[c] # <<>>
  BY <1>2, ShortRests
<1>4. InSession(c) /\ Asked(c)
  BY <1>2, <1>3 DEF AtEase, InSession, Queued, Outside, Alone, Behind, Taken, Answered, Listing, Getting, Putting
<1>5. /\ UNCHANGED <<splace, serving, sname, sleft, backlog, clientfd, cname, disk, reset>>
      /\ c \in clientfd
  BY <1>2, <1>4 DEF PutReplied, replyVars, othersVars, InSession
<1>6. PICK file \in Files : file = disk[c][sname]
  OBVIOUS
<1>7. /\ IsRegular(file) /\ announced[c] = file.size /\ sname = cname[c] /\ splace = "putHeader"
      /\ up[c] = <<>>
  BY <1>4, <1>6 DEF Asked, Announced
<1>8. PICK header : header = PutReply
  OBVIOUS
<1>9. header \notin BodyUnits /\ header.type = "PUT_REPLY" /\ down[c] = <<header>>
  BY <1>4, <1>8, HeadersAreNoBodies DEF HeaderTypes, get_header, PutReply, Asked
<1>10. PICK stream, rest : stream = down[c] /\ rest = down'[c] /\ IsRest(rest, stream, 1)
  BY <1>2
<1>11. \A unit : stream = <<unit>> => rest = <<>> /\ stream[1] = unit
  BY ONLY <1>10, ShortRests
<1>12. down'[c] = <<>> /\ down[c][1] = header
  BY <1>9, <1>10, <1>11
<1>13. reply.header = header
  BY <1>2, <1>9, <1>12
<1>14. PICK data : data = DataHeader(file)
  OBVIOUS
<1>15. data \in Units
  BY <1>7, <1>14, RegularFile, UnitKinds DEF DataHeader, HeaderTypes
<1>16. ClientSends(c, <<data>>) /\ cplace'[c] = "putData" /\ cleft'[c] = 0
  BY <1>7, <1>9, <1>13, <1>14 DEF PutReplied, GoTo, DataHeader
<1>17. PICK unit \in Seq(Units) : unit = <<data>> /\ Len(unit) = 1 /\ unit[1] = data
  <2>1. <<data>> \in Seq(Units)
    BY <1>15
  <2> QED
    BY <2>1
<1>18. PICK longer : longer = up[c] \o unit
  OBVIOUS
<1>19. up'[c] = longer
  BY <1>16, <1>17, <1>18 DEF ClientSends
<1>20. longer = unit
  BY <1>7, <1>18, LongerSequence
<1>21. PICK source \in Seq(Blocks) : source = file.blocks /\ file.size = Len(source) /\ file.size \in Nat
  BY <1>7, RegularFile
<1>22. Carries(unit, 1, source, 0, 0, <<>>)
  <2>1. Len(source) \in Nat /\ Len(<<>>) = 0
    OBVIOUS
  <2> QED
    BY <1>17, <2>1 DEF Carries
<1>23. disk'[c][sname'] = file
  BY <1>5, <1>6
<1>24. PutFollows(c, 0, <<>>)'
  BY <1>5, <1>7, <1>14, <1>17, <1>19, <1>20, <1>21, <1>22, <1>23 DEF PutFollows
<1>25. Putting(c)'
  BY <1>5, <1>7, <1>12, <1>16, <1>24 DEF Putting
<1>26. AtEase(c)'
  BY <1>4, <1>5, <1>25, ClientGoesOn
<1> QED
  BY <1>5, <1>26

\* One turn of the loop of List or of Get.
LEMMA ChunkTaken ==
    ASSUME IInv, NEW c \in Clients, NEW place, ReceiveChunk(c, place)
    PROVE  /\ cplace[c] = place
           /\ UNCHANGED <<splace, backlog, serving, sname, sleft, up, reset, cplace, clientfd, cname>>
           /\ \E n, fewer \in Nat :
                /\ n = Chunk(cleft[c]) /\ cleft[c] = fewer + n /\ cleft'[c] = fewer
                /\ IsRest(down'[c], down[c], n)
<1>1. PICK length \in Nat : length = cleft[c]
  BY ClientTypes
<1>2. PICK n \in Nat : n = Chunk(length) /\ n <= length
  BY ChunkBounds
<1>3. PICK fewer \in Nat : fewer = length - n
  BY <1>2
<1>4. length = fewer + n
  BY <1>2, <1>3
<1>5. PICK stream \in Seq(Units) : stream = down[c]
  BY Types
<1>6. PICK rest : rest = SubSeq(stream, n + 1, Len(stream))
  OBVIOUS
<1>7. /\ cplace[c] = place /\ n <= Len(stream)
      /\ down' = [down EXCEPT ![c] = rest]
      /\ cleft' = [cleft EXCEPT ![c] = fewer]
  BY <1>1, <1>2, <1>3, <1>5, <1>6 DEF ReceiveChunk
<1>8. down'[c] = rest /\ cleft'[c] = fewer
  BY <1>7, Types, ClientTypes
<1>9. IsRest(rest, stream, n)
  <2>1. n <= Len(stream)
    BY <1>7
  <2>2. /\ rest \in Seq(Units) /\ Len(rest) = Len(stream) - n
        /\ \A i \in 1..Len(rest) : rest[i] = stream[n + i]
    <3>1. rest \in Seq(Units)
      BY <1>6, <2>1, PartOfStream
    <3>2. Len(rest) = Len(stream) - n
      BY <1>6, <2>1, PartOfStream
    <3>3. \A i \in 1..Len(rest) : rest[i] = stream[n + i]
      BY <1>6, <2>1, PartOfStream
    <3> QED
      BY <3>1, <3>2, <3>3
  <2> QED
    BY <2>1, <2>2 DEF IsRest
<1>10. UNCHANGED <<splace, backlog, serving, sname, sleft, up, reset, cplace, clientfd, cname>>
  BY DEF ReceiveChunk, othersVars
<1> QED
  BY <1>1, <1>2, <1>4, <1>5, <1>7, <1>8, <1>9, <1>10

\* A turn of List's loop.
LEMMA ListRead ==
    ASSUME IInv, NEW c \in Clients, AtEase(c), splace # "killed", ListBlocks(c)
    PROVE  AtEase(c)' /\ reset' = reset
<1> USE Types, ClientTypes
<1>1. ReceiveChunk(c, "listData")
  BY DEF ListBlocks
<1>2. /\ cplace[c] = "listData"
      /\ UNCHANGED <<splace, backlog, serving, sname, sleft, up, reset, cplace, clientfd, cname>>
  BY <1>1, ChunkTaken
<1>3. PICK n, fewer \in Nat : /\ cleft[c] = fewer + n /\ cleft'[c] = fewer
                              /\ IsRest(down'[c], down[c], n)
  BY <1>1, ChunkTaken
<1>4. Commands(c) = {}
  BY <1>2 DEF Commands
<1>5. InSession(c) /\ Listing(c)
  BY <1>2, <1>4 DEF AtEase, InSession, Queued, Outside, Alone, Behind, Taken, Answered, Getting, Asked, Putting
<1>6. PICK stream \in Seq(Units) : stream = down[c]
  BY Types
<1>7. PICK rest : rest = down'[c] /\ IsRest(rest, stream, n)
  BY <1>6, <1>3
<1>8. Len(stream) = fewer + n /\ \A i \in 1..Len(stream) : stream[i] = Body("listing", 0)
  BY <1>3, <1>5, <1>6, <1>7 DEF Listing
<1>9. Len(rest) = fewer /\ \A i \in 1..Len(rest) : rest[i] = Body("listing", 0)
  <2>1. Len(rest) = fewer
    BY <1>6, <1>7, <1>8 DEF IsRest
  <2>2. ASSUME NEW i \in 1..Len(rest) PROVE rest[i] = Body("listing", 0)
    <3>1. i \in Nat /\ 1 <= i /\ i <= fewer
      BY <2>1
    <3>2. n + i \in 1..(fewer + n)
      BY <3>1
    <3>3. rest[i] = stream[n + i]
      BY <1>6, <1>7 DEF IsRest
    <3> QED
      BY <1>8, <3>2, <3>3
  <2> QED
    BY <2>1, <2>2
<1>10. Listing(c)'
  BY <1>2, <1>3, <1>5, <1>6, <1>7, <1>9 DEF Listing
<1>11. cplace'[c] \in {"open", "exited"} \/ c \in clientfd'
  BY <1>2, <1>5 DEF InSession
<1>12. AtEase(c)'
  BY <1>2, <1>5, <1>10, <1>11, ClientGoesOn
<1> QED
  BY <1>2, <1>12

\* A turn of Get's loop.
LEMMA FileRead ==
    ASSUME IInv, NEW c \in Clients, AtEase(c), splace # "killed", GetBlocksOf(c)
    PROVE  AtEase(c)' /\ reset' = reset
<1>1. ReceiveChunk(c, "getData")
  BY DEF GetBlocksOf
<1>2. /\ cplace[c] = "getData"
      /\ UNCHANGED <<splace, backlog, serving, sname, sleft, up, reset, cplace, clientfd, cname>>
  BY <1>1, ChunkTaken
<1>3. PICK n, fewer \in Nat : /\ n = Chunk(cleft[c]) /\ cleft[c] = fewer + n /\ cleft'[c] = fewer
                              /\ IsRest(down'[c], down[c], n)
  BY <1>1, ChunkTaken
<1>4. Commands(c) = {}
  BY <1>2 DEF Commands
<1>5. InSession(c) /\ Getting(c)
  BY <1>2, <1>4 DEF AtEase, InSession, Queued, Outside, Alone, Behind, Taken, Answered, Listing, Asked, Putting
<1>6. PICK stream \in Seq(Units) : stream = down[c]
  BY Types
<1>7. PICK rest : rest = down'[c] /\ IsRest(rest, stream, n)
  BY <1>6, <1>3, Types
<1>8. PICK name \in Names : name = cname[c]
  BY ClientTypes
<1>9. PICK file \in Files : file = disk[Server][sname]
  BY Types
<1>10. PICK target \in Files : target = disk[c][name]
  BY Types
<1>11. /\ IsRegular(target) /\ GetFollows(c, 0, target.size) /\ Copied(target.blocks, file.blocks)
       /\ cleft[c] = file.size - target.size
  BY <1>2, <1>5, <1>8, <1>9, <1>10 DEF Getting
<1>12. IsRegular(file) /\ sname = name /\ up[c] = <<>> /\ splace \in {"getData", "request"}
  BY <1>8, <1>9, <1>11 DEF GetFollows
<1>13. PICK source \in Seq(Blocks) : source = file.blocks /\ file.size = Len(source) /\ file.size \in Nat
  BY <1>12, RegularFile
<1>14. PICK before \in Seq(Blocks) : before = target.blocks /\ target.size = Len(before)
  BY <1>11, RegularFile
<1>15. PICK from, next \in Nat : from = target.size /\ next = from + n
  BY <1>11, RegularFile
<1>16. PICK to \in Nat : to = IF splace = "getData" THEN sleft ELSE file.size
  BY <1>13, Types
<1>17. PICK none \in Nat : none = 0
  OBVIOUS
<1>18. <<>> \in Seq(Units) /\ Len(<<>>) = 0
  OBVIOUS
<1>19. PICK nothing \in Seq(Units) : nothing = <<>> /\ Len(nothing) = 0
  BY <1>18
<1>20. Carries(stream, 0, source, from, to, nothing)
  BY <1>6, <1>7, <1>9, <1>11, <1>13, <1>15, <1>16, <1>19 DEF GetFollows
<1>21. next <= to
  <2>1. Len(stream) = 0 + (to - from) + Len(nothing)
    BY <1>20 DEF Carries
  <2>2. Len(stream) = to - from
    BY <1>19, <2>1
  <2>3. n <= Len(stream)
    BY <1>6, <1>7 DEF IsRest
  <2>4. n <= to - from
    BY <2>2, <2>3
  <2> QED
    BY <1>15, <2>4, SMTT(30)
<1>22. PICK units : units = SubSeq(stream, 1, n)
  OBVIOUS
<1>23. PICK blocks \in AsBlocks(units) : Write(c, name, blocks)
  BY <1>3, <1>6, <1>7, <1>8, <1>22 DEF GetBlocksOf
<1>24. IsPart(blocks, source, from, next)
  BY <1>15, <1>20, <1>21, <1>22, BlocksWritten
<1>25. PICK longer : longer = before \o blocks
  OBVIOUS
<1>26. Copied(longer, source) /\ longer \in Seq(Blocks) /\ Len(longer) = next
  <2>1. Copied(before, source) /\ from = Len(before)
    BY <1>11, <1>13, <1>14, <1>15
  <2>2. IsCopy(longer, source, next)
    BY <1>24, <1>25, <2>1, CopyGrows
  <2> QED
    BY <2>2 DEF IsCopy
<1>27. Carries(rest, 0, source, next, to, nothing)
  BY <1>6, <1>7, <1>15, <1>20, <1>21, BlocksOff
<1>28. PICK after \in Files : /\ after = Regular(longer) /\ IsRegular(after) /\ after.blocks = longer
                              /\ after.size = next
  BY <1>26, RegularFiles
<1>29. disk' = [disk EXCEPT ![c][name] = after]
  BY <1>10, <1>14, <1>23, <1>25, <1>28 DEF Write
<1>30. disk'[c][name] = after /\ disk'[Server] = disk[Server]
  BY <1>29, OwnDiskWritten
<1>31. /\ disk'[c][cname'[c]] = after /\ disk'[Server][sname'] = file
       /\ cplace'[c] = "getData" /\ up'[c] = <<>>
  BY <1>2, <1>8, <1>9, <1>12, <1>30
<1>32. GetFollows(c, 0, next)'
  BY <1>2, <1>6, <1>7, <1>8, <1>12, <1>13, <1>16, <1>19, <1>27, <1>31 DEF GetFollows
<1>33. cleft'[c] = file.size - after.size
  <2>1. PICK size \in Nat : size = file.size
    BY <1>13
  <2>2. cleft[c] = size - from /\ cleft[c] = fewer + n /\ next = from + n
    BY <1>3, <1>11, <1>15, <2>1
  <2>3. fewer = size - next
    BY <2>2
  <2> QED
    BY <1>3, <1>28, <2>1, <2>3
<1>34. Getting(c)'
  BY <1>13, <1>26, <1>28, <1>31, <1>32, <1>33 DEF Getting
<1>35. cplace'[c] \in {"open", "exited"} \/ c \in clientfd'
  BY <1>2, <1>5 DEF InSession
<1>36. AtEase(c)'
  BY <1>2, <1>5, <1>34, <1>35, ClientGoesOn
<1> QED
  BY <1>2, <1>36

\* List and Get end.
LEMMA Returns ==
    ASSUME IInv, NEW c \in Clients, AtEase(c), splace # "killed", TransferDone(c)
    PROVE  /\ AtEase(c)' /\ reset' = reset
           /\ cplace[c] = "getData" => /\ sname = cname[c] /\ disk[c][cname[c]] = disk[Server][sname]
                                       /\ IsRegular(disk[Server][sname]) /\ serving = c
<1> USE Types, ClientTypes
<1>1. /\ UNCHANGED <<splace, backlog, serving, sname, sleft, up, down, disk, reset, clientfd, cname>>
      /\ cplace[c] \in {"listData", "getData"} /\ cleft[c] = 0 /\ cplace'[c] = "prompt"
  BY DEF TransferDone, ioVars, serverVars, GoTo
<1>2. Commands(c) = {}
  BY <1>1 DEF Commands
<1>3. InSession(c) /\ (Listing(c) \/ Getting(c)) /\ c \in clientfd'
  BY <1>1, <1>2 DEF AtEase, InSession, Queued, Outside, Alone, Behind, Taken, Answered, Asked, Putting
<1>4. CASE cplace[c] = "listData"
  <2>1. Listing(c)
    BY <1>3, <1>4 DEF Getting
  <2>2. Len(down[c]) = 0 /\ up[c] = <<>> /\ splace = "request"
    BY <1>1, <2>1 DEF Listing
  <2>3. down'[c] = <<>>
    BY <1>1, <2>2, ShortSequences
  <2>4. Behind(c)'
    BY <1>1, <2>2, <2>3, NothingAsked
  <2>5. AtEase(c)'
    BY <1>1, <1>3, <2>4, ClientGoesOn
  <2> QED
    BY <1>1, <1>4, <2>5
<1>5. CASE cplace[c] = "getData"
  <2>1. PICK file \in Files : file = disk[Server][sname]
    OBVIOUS
  <2>2. PICK target \in Files : target = disk[c][cname[c]]
    OBVIOUS
  <2>3. /\ IsRegular(target) /\ GetFollows(c, 0, target.size) /\ Copied(target.blocks, file.blocks)
        /\ 0 = file.size - target.size
    BY <1>1, <1>3, <1>5, <2>1, <2>2 DEF Getting, Listing
  <2>4. /\ IsRegular(file) /\ sname = cname[c] /\ up[c] = <<>> /\ splace \in {"getData", "request"}
    BY <2>1, <2>3 DEF GetFollows
  <2>5. PICK source \in Seq(Blocks) : source = file.blocks /\ file.size = Len(source) /\ file.size \in Nat
    BY <2>4, RegularFile
  <2>6. PICK before \in Seq(Blocks) : before = target.blocks /\ target.size = Len(before)
    BY <2>3, RegularFile
  <2>7. target = file
    <3>1. Len(before) = Len(source)
      BY <2>3, <2>5, <2>6
    <3>2. before = source
      BY <2>3, <2>5, <2>6, <3>1, AllCopied
    <3> QED
      BY <2>3, <2>4, <2>5, <2>6, <3>2 DEF IsRegular
  <2>8. PICK from, to \in Nat : /\ from = Len(source)
                                /\ to = IF splace = "getData" THEN sleft ELSE file.size
    BY <2>5
  <2>9. <<>> \in Seq(Units)
    OBVIOUS
  <2>10. PICK nothing \in Seq(Units) : nothing = <<>>
    BY <2>9
  <2>11. PICK stream \in Seq(Units) : stream = down[c]
    OBVIOUS
  <2>12. Carries(stream, 0, source, from, to, nothing)
    BY <2>1, <2>3, <2>5, <2>7, <2>8, <2>10, <2>11 DEF GetFollows
  <2>13. stream = nothing /\ to = from
    BY <2>8, <2>12, CarriesNoBlock
  <2>14. down'[c] = <<>> /\ (splace = "getData" => sleft = file.size)
    BY <1>1, <2>5, <2>8, <2>10, <2>11, <2>13
  <2>15. Behind(c)'
    BY <1>1, <2>1, <2>4, <2>14, NothingAsked
  <2>16. AtEase(c)'
    BY <1>1, <1>3, <2>15, ClientGoesOn
  <2> QED
    BY <1>1, <1>3, <2>1, <2>2, <2>4, <2>7, <2>16 DEF InSession, Served
<1> QED
  BY <1>1, <1>4, <1>5

\* More of Put's file is sent.
LEMMA MoreSent ==
    ASSUME IInv, NEW c \in Clients, NEW pos \in Nat, NEW end \in Nat, NEW blocks,
           PutFollows(c, pos, <<>>), PartRead(disk[c][sname], pos, end, blocks),
           up'[c] = up[c] \o AsUnits(blocks),
           UNCHANGED <<splace, sname, sleft, disk>>
    PROVE  PutFollows(c, end, <<>>)'
<1>1. PICK stream \in Seq(Units) : stream = up[c]
  BY Types
<1>2. PICK file \in Files, target \in Files : file = disk[c][sname] /\ target = disk[Server][sname]
  BY Types
<1>3. PICK units \in Seq(Units) : units = AsUnits(blocks)
  BY DEF PartRead
<1>4. PICK longer : longer = stream \o units
  OBVIOUS
<1>5. up'[c] = longer /\ disk'[c][sname'] = file /\ disk'[Server][sname'] = target
      /\ splace' = splace /\ sleft' = sleft
  BY <1>1, <1>2, <1>3, <1>4
<1>6. IsRegular(file)
  BY <1>2 DEF PutFollows
<1>7. PICK source \in Seq(Blocks) : source = file.blocks /\ file.size = Len(source) /\ file.size \in Nat
  BY <1>6, RegularFile
<1>8. <<>> \in Seq(Units)
  OBVIOUS
<1>9. PICK nothing \in Seq(Units) : nothing = <<>>
  BY <1>8
<1>10. Carries(units, 0, source, pos, end, nothing)
  BY <1>2, <1>3, <1>7, <1>9 DEF PartRead
<1>11. CASE splace = "putHeader"
  <2>1. PICK none, one \in Nat : none = 0 /\ one = 1
    OBVIOUS
  <2>2. Carries(stream, one, source, none, pos, <<>>) /\ stream[1] = DataHeader(file)
    BY <1>1, <1>2, <1>7, <1>11, <2>1 DEF PutFollows
  <2>3. Carries(longer, one, source, none, end, nothing)
    BY <1>4, <1>10, <2>2, CarriesMore
  <2>4. 1 \in 1..Len(stream)
    <3>1. one <= Len(stream)
      BY <1>8, <2>2 DEF Carries
    <3> QED
      BY <2>1, <3>1
  <2>5. longer[1] = stream[1]
    BY <1>4, <2>4, LongerSequence
  <2>6. Carries(longer, 1, file.blocks, 0, end, <<>>)
    BY <1>7, <1>9, <2>1, <2>3, Zenon
  <2>7. longer[1] = DataHeader(file)
    BY <2>2, <2>5
  <2>8. PICK header : header = DataHeader(file)
    OBVIOUS
  <2>9. DataHeader(disk[c][sname])' = header
    BY <1>5, <2>8 DEF DataHeader
  <2>10. up'[c][1] = DataHeader(disk[c][sname])'
    BY <1>5, <2>7, <2>8, <2>9
  <2>11. Carries(up[c], 1, disk[c][sname].blocks, 0, end, <<>>)'
    BY <1>5, <2>6
  <2>12. IsRegular(disk[c][sname])' /\ splace' = "putHeader"
    BY <1>5, <1>6, <1>11
  <2> QED
    BY <2>10, <2>11, <2>12 DEF PutFollows
<1>12. CASE splace = "putData"
  <2>1. /\ IsRegular(target) /\ Copied(target.blocks, file.blocks)
        /\ sleft = file.size - target.size
        /\ Carries(stream, 0, file.blocks, target.size, pos, <<>>)
    BY <1>1, <1>2, <1>12 DEF PutFollows
  <2>2. PICK from, none \in Nat : from = target.size /\ none = 0
    BY <2>1, RegularFile
  <2>3. Carries(stream, none, source, from, pos, <<>>)
    BY <1>7, <2>1, <2>2
  <2>4. Carries(longer, none, source, from, end, nothing)
    BY <1>4, <1>10, <2>3, CarriesMore
  <2> QED
    BY <1>5, <1>6, <1>7, <1>9, <1>12, <2>1, <2>2, <2>4 DEF PutFollows
<1> QED
  BY <1>11, <1>12 DEF PutFollows

\* One turn of Put's loop.
LEMMA FileSent ==
    ASSUME IInv, NEW c \in Clients, AtEase(c), splace # "killed", PutBlocksOf(c)
    PROVE  AtEase(c)' /\ reset' = reset
<1>1. /\ UNCHANGED <<splace, backlog, serving, sname, sleft, down, disk, reset, clientfd, cname>>
      /\ cplace[c] = "putData"
  BY DEF PutBlocksOf, othersVars
<1>2. Commands(c) = {}
  BY <1>1 DEF Commands
<1>3. InSession(c) /\ Putting(c)
  BY <1>1, <1>2 DEF AtEase, InSession, Queued, Outside, Alone, Behind, Taken, Answered, Listing, Getting, Asked
<1>4. c \in clientfd' /\ down[c] = <<>>
  BY <1>1, <1>3 DEF InSession, Putting
<1>5. PICK file \in Files : file = disk[c][cname[c]]
  BY Types, ClientTypes
<1>6. PICK pos \in Nat : pos = cleft[c]
  BY ClientTypes
<1>7. PICK blocks : blocks = NextBlocks(file, pos)
  OBVIOUS
<1>8. CASE blocks = <<>>
  <2>1. cplace'[c] = "prompt" /\ up' = up
    BY <1>5, <1>6, <1>7, <1>8, ClientTypes DEF PutBlocksOf, GoTo
  <2>2. \/ splace = "request" /\ up[c] = <<>>
        \/ PutFollows(c, disk[c][sname].size, <<>>)
    <3>1. CASE sname = cname[c] /\ PutFollows(c, cleft[c], <<>>)
      <4>1. IsRegular(file)
        BY <1>5, <3>1 DEF PutFollows
      <4>2. pos <= file.size
        <5>1. PICK source \in Seq(Blocks) : source = file.blocks /\ file.size = Len(source)
          BY <4>1, RegularFile
        <5>2. \E stream, front, from : Carries(stream, front, source, from, pos, <<>>)
          BY <1>5, <1>6, <3>1, <5>1 DEF PutFollows
        <5> QED
          BY <5>1, <5>2 DEF Carries
      <4>3. \E end \in Nat : PartRead(file, pos, end, blocks)
        BY <1>7, <4>1, <4>2, FileParts
      <4>4. pos = file.size
        BY <1>8, <4>3 DEF PartRead
      <4> QED
        BY <1>5, <1>6, <3>1, <4>4
    <3>2. CASE splace = "request" /\ up[c] = <<>>
      BY <3>2
    <3> QED
      BY <1>3, <3>1, <3>2 DEF Putting
  <2>3. Behind(c)'
    BY <1>1, <1>4, <2>1, <2>2, NothingAsked
  <2>4. AtEase(c)'
    BY <1>1, <1>3, <1>4, <2>3, ClientGoesOn
  <2> QED
    BY <1>1, <2>4
<1>9. CASE blocks # <<>>
  <2>1. ~(cleft[c] = Len(disk[c][cname[c]].blocks))
    <3> SUFFICES ASSUME pos = Len(file.blocks) PROVE FALSE
      BY <1>5, <1>6
    <3>1. PICK whole \in Seq(Blocks) : whole = file.blocks
      BY DEF Files
    <3>2. Chunk(Len(whole) - pos) = 0
      <4>1. Len(whole) - pos = 0
        BY <3>1
      <4> QED
        BY <4>1, FtpAssumption DEF Chunk
    <3>3. blocks = SubSeq(whole, pos + 1, pos + 0)
      BY <1>7, <3>1, <3>2 DEF NextBlocks
    <3>4. blocks = <<>>
      BY <3>3
    <3> QED
      BY <1>9, <3>4
  <2>2. sname = cname[c] /\ PutFollows(c, pos, <<>>)
    BY <1>3, <1>6, <2>1 DEF Putting
  <2>3. IsRegular(file)
    BY <1>5, <2>2 DEF PutFollows
  <2>4. pos <= file.size
    <3>1. PICK source \in Seq(Blocks) : source = file.blocks /\ file.size = Len(source)
      BY <2>3, RegularFile
    <3>2. \E stream, front, from : Carries(stream, front, source, from, pos, <<>>)
      BY <1>5, <2>2, <3>1 DEF PutFollows
    <3> QED
      BY <3>1, <3>2 DEF Carries
  <2>5. PICK end \in Nat : PartRead(file, pos, end, blocks)
    BY <1>7, <2>3, <2>4, FileParts
  <2>6. PICK units : units = AsUnits(blocks)
    OBVIOUS
  <2>7. /\ ClientSends(c, units)
        /\ cleft' = [cleft EXCEPT ![c] = cleft[c] + Len(blocks)]
        /\ cplace' = cplace
    BY <1>5, <1>6, <1>7, <1>9, <2>6 DEF PutBlocksOf
  <2>8. up'[c] = up[c] \o units
    BY <2>7, Types DEF ClientSends
  <2>9. cleft'[c] = end
    <3>1. PICK more \in Nat : more = Len(blocks) /\ more = end - pos
      BY <2>5 DEF PartRead
    <3>2. end = pos + more
      BY <3>1
    <3>3. cleft'[c] = cleft[c] + Len(blocks)
      BY <2>7, ClientTypes
    <3> QED
      BY <1>6, <3>1, <3>2, <3>3
  <2>10. PutFollows(c, end, <<>>)'
    BY <1>1, <1>5, <2>2, <2>5, <2>6, <2>8, MoreSent
  <2>11. Putting(c)'
    BY <1>1, <1>4, <2>2, <2>7, <2>9, <2>10 DEF Putting
  <2>12. AtEase(c)'
    BY <1>1, <1>3, <1>4, <2>11, ClientGoesOn
  <2> QED
    BY <1>1, <2>12
<1> QED
  BY <1>8, <1>9

\* getaddrinfo fails: a mishap.
LEMMA OpensInVain ==
    ASSUME IInv, NEW c \in Clients, OpenNowhere(c)
    PROVE  Mishap(c)' /\ reset' = reset
<1>1. <<"getaddrinfo", c>> \in mishaps' /\ reset' = reset
  BY DEF OpenNowhere, ioVars
<1> QED
  BY <1>1 DEF Mishap, MishapKinds

\* A client in step has its FILE pointer.
LEMMA NoNull ==
    ASSUME IInv, NEW c \in Clients, AtEase(c), splace # "killed"
    PROVE  ~GetNull(c)
<1> SUFFICES ASSUME GetNull(c) PROVE FALSE
  OBVIOUS
<1>1. cplace[c] = "getNull"
  BY DEF GetNull
<1>2. Commands(c) = {}
  BY <1>1 DEF Commands
<1> QED
  BY <1>1, <1>2 DEF AtEase, InSession, Queued, Outside, Alone, Behind, Taken, Answered, Listing, Getting,
     Asked, Putting

\* What becomes of the client that makes the step.
LEMMA ClientStepInDialogue ==
    ASSUME IInv, NEW c \in Clients, AtEase(c), ClientStep(c)
    PROVE  (AtEase(c)' \/ Mishap(c)') /\ reset' = reset
<1>1. CASE splace = "killed"
  BY <1>1, LeftAlone
<1>2. CASE splace # "killed"
  <2>1. CASE Open(c)
    BY <2>1, Connects
  <2>2. CASE \/ \E login \in {0, 1} : Auth(c, login)
             \/ List(c)
             \/ \E name \in Names : Get(c, name) \/ Put(c, name)
             \/ Quit(c)
    BY <1>2, <2>2, Asks
  <2>3. ASSUME NEW reply \in Replies(c), OpenReply(c, reply) \/ AuthReply(c, reply) \/ QuitReply(c, reply)
        PROVE  AtEase(c)' /\ reset' = reset
    BY <1>2, <2>3, CommandEnds
  <2>4. ASSUME NEW reply \in Replies(c), ListReply(c, reply)
        PROVE  AtEase(c)' /\ reset' = reset
    BY <1>2, <2>4, ListComes
  <2>5. ASSUME NEW reply \in Replies(c), GetReplied(c, reply)
        PROVE  AtEase(c)' /\ reset' = reset
    BY <1>2, <2>5, FileIsAnnounced
  <2>6. ASSUME NEW reply \in Replies(c), GetHeader(c, reply)
        PROVE  (AtEase(c)' \/ Mishap(c)') /\ reset' = reset
    BY <1>2, <2>6, OwnFileOpened
  <2>7. ASSUME NEW reply \in Replies(c), PutReplied(c, reply)
        PROVE  AtEase(c)' /\ reset' = reset
    BY <1>2, <2>7, FileAnnouncedToServer
  <2>8. CASE ListBlocks(c)
    BY <1>2, <2>8, ListRead
  <2>9. CASE GetBlocksOf(c)
    BY <1>2, <2>9, FileRead
  <2>10. CASE TransferDone(c)
    BY <1>2, <2>10, Returns
  <2>11. CASE PutBlocksOf(c)
    BY <1>2, <2>11, FileSent
  <2>12. CASE LeaveAtPrompt(c)
    BY <1>2, <2>12, Leaves
  <2>13. ~ClientFails(c)
    BY <1>2 DEF ClientFails
  <2>14. CASE \E reply \in Replies(c) :
         \/ OpenReply(c, reply)
         \/ AuthReply(c, reply)
         \/ ListReply(c, reply)
         \/ GetReplied(c, reply)
         \/ GetHeader(c, reply)
         \/ PutReplied(c, reply)
         \/ QuitReply(c, reply)
    BY <2>3, <2>4, <2>5, <2>6, <2>7, <2>14
  <2>15. CASE OpenNowhere(c)
    BY <2>15, OpensInVain
  <2>16. ~GetNull(c)
    BY <1>2, NoNull
  <2> QED
    BY <2>1, <2>2, <2>8, <2>9, <2>10, <2>11, <2>12, <2>13, <2>14, <2>15, <2>16 DEF ClientStep
<1> QED
  BY <1>1, <1>2

\* A client makes a step or dies.
LEMMA ClientInDialogue ==
    ASSUME IInv, Dialogue, ResetsHaveCauses, NEW c \in Clients,
           ClientStep(c) \/ (ClientDies(c) /\ Trouble)
    PROVE  Dialogue' /\ ResetsHaveCauses'
<1>1. mishaps \subseteq mishaps'
  BY ClientTouches
<1>2. \A d \in Clients : Mishap(d) => Mishap(d)'
  BY <1>1, MishapsStay
<1>3. ~Mishap(c) => (AtEase(c)' \/ Mishap(c)') /\ (reset' = reset \/ Mishap(c)')
  <2>1. CASE ClientStep(c)
    <3>1. ~Mishap(c) => AtEase(c)
      BY DEF Dialogue, AtEase
    <3> QED
      BY <2>1, <3>1, ClientStepInDialogue
  <2>2. CASE ClientDies(c)
    <3>1. <<"died", c>> \in mishaps'
      BY <2>2 DEF ClientDies
    <3> QED
      BY <3>1 DEF Mishap, MishapKinds
  <2> QED
    BY <2>1, <2>2
<1>4. ASSUME NEW d \in Clients, ~Mishap(d)' PROVE AtEase(d)'
  <2>1. AtEase(d)
    BY <1>2, <1>4 DEF Dialogue, AtEase
  <2>2. CASE d = c
    BY <1>2, <1>3, <1>4, <2>2
  <2>3. CASE d # c
    <3>1. Untouched(c, d) /\ disk'[d] = disk[d] /\ disk'[Server] = disk[Server]
      BY <2>3, ClientTouches
    <3> QED
      BY <2>1, <2>3, <3>1, OthersGoOn
  <2> QED
    BY <2>2, <2>3
<1>5. Dialogue'
  BY <1>4 DEF Dialogue, AtEase
<1>6. ASSUME NEW d \in reset' PROVE Mishap(d)'
  <2>1. reset' = reset \/ reset' = reset \cup {c}
    BY ClientTouches
  <2>2. reset \subseteq Clients
    BY Types
  <2>3. CASE d \in reset
    BY <1>2, <2>2, <2>3 DEF ResetsHaveCauses
  <2>4. CASE d \notin reset
    <3>1. d = c /\ reset' # reset
      BY <1>6, <2>1, <2>4
    <3> QED
      BY <1>2, <1>3, <3>1
  <2> QED
    BY <2>3, <2>4
<1>7. ResetsHaveCauses'
  BY <1>6 DEF ResetsHaveCauses
<1> QED
  BY <1>5, <1>7

\* A file changes, which a client in step does not use, or which is a mishap.
LEMMA EditInDialogue ==
    ASSUME IInv, Dialogue, ResetsHaveCauses, NEW host \in Hosts, NEW name \in Names, Edit(host, name)
    PROVE  Dialogue' /\ ResetsHaveCauses'
<1>1. /\ UNCHANGED <<up, down, left, reset, serverVars, clientVars>>
      /\ mishaps' = mishaps \cup
                    {<<"edited", c>> : c \in {d \in Clients : host \in {Server, d} /\ Busy(d)}}
  BY DEF Edit
<1>2. UNCHANGED <<splace, backlog, serving, sname, sleft, cplace, clientfd, cname, cleft, announced>>
  BY <1>1 DEF serverVars, clientVars
<1>3. \A d \in Clients : Mishap(d) => Mishap(d)'
  BY <1>1, MishapsStay
<1>4. \A h \in Hosts : h # host => disk'[h] = disk[h]
  <2>1. PICK files \in [Hosts -> [Names -> Files]] : files = disk
    BY Types
  <2>2. \E file : disk' = [files EXCEPT ![host][name] = file]
    BY <2>1 DEF Edit
  <2> QED
    BY <2>1, <2>2
<1>5. ASSUME NEW d \in Clients, ~Mishap(d)' PROVE AtEase(d)'
  <2>1. AtEase(d)
    BY <1>3, <1>5 DEF Dialogue, AtEase
  <2>2. CASE host \notin {Server, d}
    <3>1. host \in Clients /\ d # host
      BY <2>2 DEF Hosts
    <3>2. disk'[Server] = disk[Server] /\ disk'[d] = disk[d]
      BY <1>4, <2>2, Types
    <3>3. Untouched(host, d)
      BY <1>1, <1>2 DEF Untouched
    <3> QED
      BY <2>1, <3>1, <3>2, <3>3, OthersGoOn
  <2>3. CASE host \in {Server, d}
    <3>1. ~Busy(d)
      <4> SUFFICES ASSUME Busy(d) PROVE FALSE
        OBVIOUS
      <4>1. <<"edited", d>> \in mishaps'
        BY <1>1, <2>3
      <4> QED
        BY <1>5, <4>1 DEF Mishap, MishapKinds
    <3>2. /\ cplace[d] \in {"prompt", "exited"}
          /\ serving = d => splace \in {"accept", "request"}
      BY <3>1 DEF Busy
    <3>3. CASE InSession(d)
      <4>1. splace = "request"
        BY <3>2, <3>3 DEF InSession, Served
      <4>2. Behind(d)
        BY <3>2, <3>3, <4>1 DEF InSession, Taken, Answered, Listing, Getting, Asked, Putting
      <4>3. Commands(d) = {<<>>} /\ Commands(d)' = {<<>>}
        BY <1>2, <3>2 DEF Commands
      <4>4. up[d] = <<>> /\ down[d] = <<>>
        BY <4>1, <4>2, <4>3 DEF Behind, PutFollows
      <4>5. Announced(d)'
        BY <1>2, <3>2 DEF Announced
      <4>6. Behind(d)'
        BY <1>1, <1>2, <4>1, <4>3, <4>4, <4>5 DEF Behind
      <4>7. cplace'[d] \in {"open", "exited"} \/ d \in clientfd'
        BY <1>2, <3>3 DEF InSession
      <4> QED
        BY <1>2, <3>3, <4>6, <4>7, ClientGoesOn
    <3>4. ~Queued(d)
      BY <3>2 DEF Queued
    <3>5. CASE Outside(d)
      <4>1. Outside(d)'
        BY <1>1, <1>2, <3>5 DEF Outside, Served, Waits
      <4> QED
        BY <4>1 DEF AtEase
    <3>6. CASE Alone(d)
      <4>1. Alone(d)'
        BY <1>1, <1>2, <3>6 DEF Alone, Served
      <4> QED
        BY <4>1 DEF AtEase
    <3> QED
      BY <2>1, <3>3, <3>4, <3>5, <3>6 DEF AtEase
  <2> QED
    BY <2>2, <2>3
<1>6. Dialogue'
  BY <1>5 DEF Dialogue, AtEase
<1>7. ResetsHaveCauses'
  BY <1>1, <1>3, Types DEF ResetsHaveCauses
<1> QED
  BY <1>6, <1>7

\* What holds of the dialogue, always.
DInv == IInv /\ Dialogue /\ ResetsHaveCauses

\* Nobody has connected yet.
LEMMA DialogueBegins == Init => Dialogue /\ ResetsHaveCauses
<1> SUFFICES ASSUME Init PROVE Dialogue /\ ResetsHaveCauses
  OBVIOUS
<1>1. /\ backlog = <<>> /\ splace = "accept" /\ reset = {} /\ clientfd = {}
      /\ \A c \in Clients : cplace[c] = "prompt" /\ up[c] = <<>> /\ down[c] = <<>>
  BY DEF Init, IoInit, ServerInit, ClientInit
<1>2. ASSUME NEW c \in Clients PROVE Outside(c)
  <2>1. Len(backlog) = 0
    BY <1>1
  <2>2. ~Waits(c)
    BY <2>1 DEF Waits
  <2> QED
    BY <1>1, <2>2 DEF Outside, Served
<1>3. Dialogue
  BY <1>2 DEF Dialogue, AtEase
<1>4. ResetsHaveCauses
  BY <1>1 DEF ResetsHaveCauses
<1> QED
  BY <1>3, <1>4

\* The dialogue is inductive.
LEMMA DialogueStays == IInv /\ Dialogue /\ ResetsHaveCauses /\ [Next]_vars => Dialogue' /\ ResetsHaveCauses'
<1> SUFFICES ASSUME IInv, Dialogue, ResetsHaveCauses, [Next]_vars PROVE Dialogue' /\ ResetsHaveCauses'
  OBVIOUS
<1>1. CASE ServerStep /\ UNCHANGED clientVars
  BY <1>1, ServerInDialogue
<1>2. ASSUME NEW c \in Clients, ClientStep(c) \/ (ClientDies(c) /\ Trouble)
      PROVE  Dialogue' /\ ResetsHaveCauses'
  BY <1>2, ClientInDialogue
<1>3. ASSUME NEW host \in Hosts, NEW name \in Names, Edit(host, name)
      PROVE  Dialogue' /\ ResetsHaveCauses'
  BY <1>3, EditInDialogue
<1>4. CASE UNCHANGED vars
  <2>1. UNCHANGED <<up, down, left, reset, disk, splace, backlog, serving, sname, sleft, mishaps,
                    cplace, clientfd, cname, cleft, announced>>
    BY <1>4 DEF vars, ioVars, serverVars, clientVars
  <2>2. \A c \in Clients : Mishap(c)' <=> Mishap(c)
    BY <2>1 DEF Mishap
  <2>3. ASSUME NEW c \in Clients, AtEase(c) PROVE AtEase(c)'
    <3>1. Untouched(c, c)
      BY <2>1 DEF Untouched
    <3> QED
      BY <2>1, <2>3, <3>1, OthersGoOn
  <2>4. Dialogue'
    BY <2>2, <2>3 DEF Dialogue, AtEase
  <2>5. ResetsHaveCauses'
    BY <2>1, <2>2, Types DEF ResetsHaveCauses
  <2> QED
    BY <2>4, <2>5
<1> QED
  BY <1>1, <1>2, <1>3, <1>4 DEF Next

\* The server and every client that no mishap happened to are where Dialogue says, and
\* an error is on its way only from a client with a mishap, for every value of the
\* constants: any number of clients and files of any length.
THEOREM DialogueInvariance == Spec => []DInv
<1>1. Init => DInv
  BY StartsWell, DialogueBegins DEF DInv
<1>2. DInv /\ [Next]_vars => DInv'
  BY Step, DialogueStays DEF DInv
<1> QED
  BY <1>1, <1>2, PTL DEF Spec

-----------------------------------------------------------------------------
\* What follows from the dialogue.

\* The blocks come first.
LEMMA FirstIsBlock ==
    ASSUME NEW stream \in Seq(Units), NEW source \in Seq(Blocks), NEW command \in Seq(Units),
           NEW from \in Nat, NEW to \in Nat, from # to,
           Carries(stream, 0, source, from, to, command)
    PROVE  Head(stream).type = "block"
<1>1. from <= to
  BY DEF Carries
<1>2. 1 \in 1..(to - from) /\ from + 1 \in Nat
  BY <1>1
<1>3. stream[0 + 1] = Body("block", source[from + 1])
  BY <1>2 DEF Carries
<1>4. Len(stream) = 0 + (to - from) + Len(command) /\ Len(command) \in Nat
  BY DEF Carries
<1>5. Len(stream) >= 1
  BY <1>1, <1>4
<1>6. Head(stream) = stream[1]
  BY <1>5
<1>7. stream[1] = Body("block", source[from + 1])
  BY <1>3
<1> QED
  BY <1>6, <1>7 DEF Body

\* What the server finds while the file of a Put comes.
LEMMA FileFound ==
    ASSUME IInv, NEW c \in Clients, NEW sent \in Nat, NEW command \in Seq(Units),
           PutFollows(c, sent, command), command = <<>> \/ sent = disk[c][sname].size,
           up[c] # <<>>
    PROVE  \/ splace = "putHeader" /\ Head(up[c]).type = "FILE_DATA"
           \/ splace = "putData" /\ (Head(up[c]).type = "block" \/ sleft = 0)
<1>1. PICK stream \in Seq(Units) : stream = up[c]
  BY Types
<1>2. PICK file \in Files, target \in Files : file = disk[c][sname] /\ target = disk[Server][sname]
  BY Types
<1>3. CASE splace = "putHeader"
  <2>1. stream[1] = DataHeader(file) /\ Head(stream) = stream[1]
    BY <1>1, <1>2, <1>3 DEF PutFollows
  <2> QED
    BY <1>1, <1>3, <2>1 DEF DataHeader, get_header
<1>4. CASE splace = "putData"
  <2>1. /\ IsRegular(file) /\ IsRegular(target) /\ sleft = file.size - target.size
        /\ Carries(stream, 0, file.blocks, target.size, sent, command)
    BY <1>1, <1>2, <1>4 DEF PutFollows
  <2>2. PICK source \in Seq(Blocks) : source = file.blocks /\ file.size = Len(source) /\ file.size \in Nat
    BY <2>1, RegularFile
  <2>3. PICK from \in Nat : from = target.size
    BY <2>1, RegularFile
  <2>4. Carries(stream, 0, source, from, sent, command)
    BY <2>1, <2>2, <2>3
  <2>5. CASE from # sent
    <3>1. Head(stream).type = "block"
      BY <2>4, <2>5, FirstIsBlock
    <3> QED
      BY <1>1, <1>4, <3>1
  <2>6. CASE from = sent
    <3>1. command # <<>>
      <4> SUFFICES ASSUME command = <<>> PROVE FALSE
        OBVIOUS
      <4>1. Len(stream) = 0 + (sent - from) + Len(command)
        BY <2>4 DEF Carries
      <4>2. Len(stream) = 0
        BY <2>6, <4>1
      <4> QED
        BY <1>1, <4>2, ShortSequences
    <3>2. sleft = 0
      BY <1>2, <2>1, <2>2, <2>3, <2>6, <3>1
    <3> QED
      BY <1>4, <3>2
  <2> QED
    BY <2>5, <2>6
<1> QED
  BY <1>3, <1>4 DEF PutFollows

\* Both halves of InStep.
LEMMA ServerInStep ==
    ASSUME IInv, NEW c \in Clients, AtEase(c),
           c = serving, splace \in DOMAIN ServerExpects, up[c] # <<>>
    PROVE  \/ Head(up[c]).type \in ServerExpects[splace]
           \/ splace = "putData" /\ sleft = 0
<1>1. splace \in {"request", "auth", "getName", "putName", "putHeader", "putData"}
  BY DEF ServerExpects
<1>2. InSession(c)
  BY <1>1 DEF AtEase, Queued, Outside, Alone, Served
<1>3. CASE \E sent \in Nat, command \in Seq(Units) :
             PutFollows(c, sent, command) /\ (command = <<>> \/ sent = disk[c][sname].size)
  BY <1>3, FileFound DEF ServerExpects
<1>4. CASE splace = "request" /\ \E command \in Commands(c) : up[c] = command
  <2>1. PICK command \in Commands(c) : up[c] = command
    BY <1>4
  <2>2. \/ \E header \in Units :
             /\ command = <<header>>
             /\ header.type \in {"OPEN_CONN_REQUEST", "LIST_REQUEST", "QUIT_REQUEST"}
        \/ \E header, body \in Units :
             /\ command = <<header, body>>
             /\ header.type \in {"AUTH_REQUEST", "GET_REQUEST", "PUT_REQUEST"}
    BY <2>1, CommandKinds
  <2>3. Head(command).type \in {"OPEN_CONN_REQUEST", "LIST_REQUEST", "QUIT_REQUEST",
                                "AUTH_REQUEST", "GET_REQUEST", "PUT_REQUEST"}
    BY <2>2
  <2> QED
    BY <1>4, <2>1, <2>3 DEF ServerExpects
<1>5. CASE Taken(c)
  <2>1. \/ splace = "auth" /\ \E login \in {0, 1} : up[c] = <<Body("login", login)>>
        \/ splace = "getName" /\ up[c] = <<Body("name", cname[c])>>
        \/ splace = "putName" /\ up[c] = <<Body("name", cname[c])>>
    BY <1>5 DEF Taken
  <2> QED
    BY <2>1 DEF ServerExpects, Body
<1>6. CASE Behind(c)
  <2>1. PICK command \in Commands(c) :
          \/ splace = "request" /\ up[c] = command
          \/ splace = "getData"
          \/ PutFollows(c, disk[c][sname].size, command)
    BY <1>6 DEF Behind
  <2>2. command \in Seq(Units)
    BY CommandKinds
  <2>3. CASE PutFollows(c, disk[c][sname].size, command)
    <3>1. disk[c][sname] \in Files /\ IsRegular(disk[c][sname])
      BY <2>3, Types DEF PutFollows
    <3>2. disk[c][sname].size \in Nat
      BY <3>1, RegularFile
    <3> QED
      BY <1>3, <2>2, <2>3, <3>2
  <2> QED
    BY <1>1, <1>4, <2>1, <2>3
<1>7. CASE Putting(c)
  <2>1. PutFollows(c, cleft[c], <<>>)
    BY <1>7 DEF Putting
  <2>2. <<>> \in Seq(Units) /\ cleft[c] \in Nat
    BY ClientTypes
  <2> QED
    BY <1>3, <2>1, <2>2
<1> QED
  BY <1>2, <1>5, <1>6, <1>7 DEF InSession, Answered, Listing, Getting, GetFollows, Asked

\* The client's half of InStep.
LEMMA ClientInStep ==
    ASSUME IInv, NEW c \in Clients, AtEase(c), down[c] # <<>>
    PROVE  /\ Head(down[c]).type \in ClientExpects[cplace[c]]
           /\ cplace[c] \in {"listData", "getData"} => Len(down[c]) <= cleft[c]
<1>1. InSession(c) /\ (Answered(c) \/ Listing(c) \/ Getting(c) \/ Asked(c))
  BY DEF AtEase, InSession, Queued, Outside, Alone, Behind, Taken, Putting
<1>2. PICK stream \in Seq(Units) : stream = down[c]
  BY Types
<1>3. stream # <<>>
  BY <1>2
<1>4. Len(stream) \in Nat \ {0} /\ Head(stream) = stream[1]
  BY <1>3
<1>5. CASE Answered(c)
  <2>1. \/ cplace[c] = "open" /\ Head(stream).type = "OPEN_CONN_REPLY"
        \/ cplace[c] = "auth" /\ Head(stream).type = "AUTH_REPLY"
        \/ cplace[c] = "list" /\ Head(stream).type = "LIST_REPLY"
        \/ cplace[c] = "get" /\ Head(stream).type = "GET_REPLY"
        \/ cplace[c] = "quit" /\ Head(stream).type = "QUIT_REPLY"
    BY <1>2, <1>5 DEF Answered, get_header, GetReply
  <2> QED
    BY <1>2, <2>1 DEF ClientExpects
<1>6. CASE Listing(c)
  <2>1. cplace[c] = "listData" /\ Len(stream) = cleft[c] /\ \A i \in 1..Len(stream) : stream[i] = Body("listing", 0)
    BY <1>2, <1>6 DEF Listing
  <2>2. stream[1] = Body("listing", 0)
    BY <1>4, <2>1
  <2>3. Len(stream) <= cleft[c]
    BY <1>4, <2>1
  <2> QED
    BY <1>2, <1>4, <2>1, <2>2, <2>3 DEF ClientExpects, Body
<1>7. CASE Getting(c)
  <2>1. CASE cplace[c] = "get"
    <3>1. stream[1] = GetReply(1)
      BY <1>2, <1>7, <2>1 DEF Getting
    <3> QED
      BY <1>2, <1>4, <2>1, <3>1 DEF ClientExpects, GetReply, get_header
  <2>2. CASE cplace[c] = "getHeader"
    <3>1. stream[1] = DataHeader(disk[Server][sname])
      BY <1>2, <1>7, <2>2 DEF Getting
    <3> QED
      BY <1>2, <1>4, <2>2, <3>1 DEF ClientExpects, DataHeader, get_header
  <2>3. CASE cplace[c] = "getData"
    <3>1. PICK file \in Files, target \in Files : file = disk[Server][sname] /\ target = disk[c][cname[c]]
      BY Types, ClientTypes
    <3>2. /\ IsRegular(target) /\ GetFollows(c, 0, target.size)
          /\ cleft[c] = file.size - target.size
      BY <1>7, <2>3, <3>1 DEF Getting
    <3>3. IsRegular(file)
      BY <3>1, <3>2 DEF GetFollows
    <3>4. PICK source \in Seq(Blocks) : source = file.blocks /\ file.size = Len(source) /\ file.size \in Nat
      BY <3>3, RegularFile
    <3>5. PICK from, to \in Nat : /\ from = target.size
                                  /\ to = IF splace = "getData" THEN sleft ELSE file.size
      BY <3>2, <3>4, RegularFile, Types
    <3>6. <<>> \in Seq(Units) /\ Len(<<>>) = 0
      OBVIOUS
    <3>7. PICK nothing \in Seq(Units) : nothing = <<>> /\ Len(nothing) = 0
      BY <3>6
    <3>8. Carries(stream, 0, source, from, to, nothing)
      BY <1>2, <3>1, <3>2, <3>4, <3>5, <3>7 DEF GetFollows
    <3>9. to <= Len(source) /\ Len(stream) = 0 + (to - from) + Len(nothing)
      BY <3>8 DEF Carries
    <3>10. Len(stream) = to - from
      BY <3>7, <3>9
    <3>11. from # to
      BY <1>4, <3>10
    <3>12. Head(stream).type = "block"
      BY <3>8, <3>11, FirstIsBlock
    <3>13. Len(stream) <= cleft[c]
      <4>1. cleft[c] = Len(source) - from
        BY <3>2, <3>4, <3>5
      <4> QED
        BY <3>9, <3>10, <4>1
    <3> QED
      BY <1>2, <2>3, <3>12, <3>13 DEF ClientExpects
  <2> QED
    BY <1>7, <2>1, <2>2, <2>3 DEF Getting
<1>8. CASE Asked(c)
  <2>1. cplace[c] = "put" /\ Head(stream).type = "PUT_REPLY"
    BY <1>2, <1>8 DEF Asked, PutReply, get_header
  <2> QED
    BY <1>2, <2>1 DEF ClientExpects
<1> QED
  BY <1>1, <1>5, <1>6, <1>7, <1>8

\* What the dialogue says of a client that waits, and of the server, is InStep.
LEMMA DialogueIsInStep == DInv => InStep
<1> SUFFICES ASSUME DInv, NEW c \in Clients, ~Mishap(c)
    PROVE  /\ c = serving /\ splace \in DOMAIN ServerExpects /\ up[c] # <<>> =>
                \/ Head(up[c]).type \in ServerExpects[splace]
                \/ splace = "putData" /\ sleft = 0
           /\ cplace[c] # "hung" /\ down[c] # <<>> =>
                /\ Head(down[c]).type \in ClientExpects[cplace[c]]
                /\ cplace[c] \in {"listData", "getData"} => Len(down[c]) <= cleft[c]
  BY DEF InStep
<1>1. IInv /\ AtEase(c)
  BY DEF DInv, Dialogue, AtEase
<1> QED
  BY <1>1, ServerInStep, ClientInStep

\* Nor can a program stop in it without a mishap.
LEMMA DialogueHasCauses == DInv => StopsHaveCauses
<1> SUFFICES ASSUME DInv PROVE StopsHaveCauses
  OBVIOUS
<1>1. ASSUME NEW c \in Clients, ~Mishap(c) PROVE AtEase(c)
  BY <1>1 DEF DInv, Dialogue, AtEase
<1>2. ASSUME ServerStopped PROVE Mishap(serving)
  <2> SUFFICES ASSUME ~Mishap(serving) PROVE FALSE
    OBVIOUS
  <2>1. IInv /\ serving \in Clients
    BY Types DEF DInv
  <2>2. AtEase(serving)
    BY <1>1, <2>1
  <2>3. splace \in {"hung", "killed"}
    BY <1>2 DEF ServerStopped
  <2>4. InSession(serving)
    BY <2>2, <2>3 DEF AtEase, Queued, Outside, Alone, Served
  <2> QED
    BY <2>3, <2>4 DEF InSession, Behind, Taken, Answered, Listing, Getting, GetFollows, Asked, Putting, PutFollows
<1>3. ASSUME NEW c \in Clients, cplace[c] = "hung" PROVE Mishap(c) \/ splace = "killed"
  <2>1. Commands(c) = {}
    BY <1>3 DEF Commands
  <2> QED
    BY <1>1, <1>3, <2>1 DEF AtEase, InSession, Queued, Outside, Alone, Behind, Taken, Answered, Listing, Getting,
       Asked, Putting
<1> QED
  BY <1>2, <1>3 DEF StopsHaveCauses

\* Client and server agree where every message starts, as long as no mishap happened to
\* that client (ftp_client.c and ftp_server.c read whatever comes next as what they wait for).
THEOREM StaysInStep == Spec => []InStep
<1>1. DInv => InStep
  BY DialogueIsInStep
<1> QED
  BY <1>1, DialogueInvariance, PTL

\* The server is never in panic, in an endless loop or killed by a signal without a mishap
\* of the client it serves, a client never in panic or in an endless loop without one of
\* its own or the server's end.
THEOREM StopsAreCaused == Spec => []StopsHaveCauses
<1>1. DInv => StopsHaveCauses
  BY DialogueHasCauses
<1> QED
  BY <1>1, DialogueInvariance, PTL

-----------------------------------------------------------------------------
\* The files.

\* What FileStore sees of the disks during some transfers, and of the transfers.
View(ts, there) ==
    [host \in Hosts |-> [name \in Names |->
        IF \E t \in ts : t.to = host /\ t.name = name THEN Partial ELSE there[host][name]]]
Current(ts) == IF ts = {} THEN None ELSE CHOOSE t \in ts : TRUE

\* The abstract state in these terms.
LEMMA StoreView ==
    /\ Store!storeVars = <<View(Transferring, disk), Current(Transferring)>>
    /\ (Store!storeVars)' = <<View(Transferring', disk'), Current(Transferring')>>
BY DEF Store!storeVars, View, Current

\* The disks are the same but for one file.
Differs(there, then, host, name) ==
    \A h \in Hosts, n \in Names : h # host \/ n # name => then[h][n] = there[h][n]

\* Current, by the file under way.
LEMMA CurrentIs ==
    /\ Current({}) = None
    /\ \A t : Current({t}) = t
BY DEF Current

\* A transfer from or to a client is none that FileStore calls None.
LEMMA NoSelfTransfer ==
    ASSUME NEW from \in Hosts, NEW to \in Hosts, from # to, NEW name \in Names,
           NEW t, t = [from |-> from, to |-> to, name |-> name]
    PROVE  t # None
<1>1. PICK none : none = None
  OBVIOUS
<1>2. none.from = none.to
  BY <1>1 DEF None
<1>3. t.from # t.to
  OBVIOUS
<1> QED
  BY <1>1, <1>2, <1>3

\* Every file as FileStore sees it.
LEMMA ViewOf ==
    ASSUME NEW ts, NEW there
    PROVE  /\ View(ts, there) \in [Hosts -> [Names -> {View(ts, there)[p[1]][p[2]] : p \in Hosts \X Names}]]
           /\ \A h \in Hosts, n \in Names :
                View(ts, there)[h][n] =
                    IF \E t \in ts : t.to = h /\ t.name = n THEN Partial ELSE there[h][n]
<1>1. \A h \in Hosts, n \in Names :
                View(ts, there)[h][n] =
                    IF \E t \in ts : t.to = h /\ t.name = n THEN Partial ELSE there[h][n]
  BY DEF View
<1>2. View(ts, there) \in [Hosts -> [Names -> {View(ts, there)[p[1]][p[2]] : p \in Hosts \X Names}]]
  <2>1. ASSUME NEW h \in Hosts, NEW n \in Names
        PROVE  View(ts, there)[h][n] \in {View(ts, there)[p[1]][p[2]] : p \in Hosts \X Names}
    <3>1. <<h, n>> \in Hosts \X Names /\ <<h, n>>[1] = h /\ <<h, n>>[2] = n
      OBVIOUS
    <3> QED
      BY <3>1
  <2> QED
    BY <2>1 DEF View
<1> QED
  BY <1>1, <1>2

\* A file that is being written may change unseen.
LEMMA SameView ==
    ASSUME NEW ts, NEW there, NEW then,
           \A h \in Hosts, n \in Names :
             then[h][n] = there[h][n] \/ \E t \in ts : t.to = h /\ t.name = n
    PROVE  View(ts, then) = View(ts, there)
BY DEF View

\* A table that differs in one entry.
LEMMA OneChanged ==
    ASSUME NEW S, NEW table \in [Hosts -> [Names -> S]], NEW T, NEW after \in [Hosts -> [Names -> T]],
           NEW host \in Hosts, NEW name \in Names, NEW entry, after[host][name] = entry,
           Differs(table, after, host, name)
    PROVE  after = [table EXCEPT ![host][name] = entry]
<1>1. PICK changed : changed = [table EXCEPT ![host][name] = entry]
  OBVIOUS
<1>2. changed \in [Hosts -> [Names -> S \cup {entry}]]
  BY <1>1
<1>3. changed[host][name] = entry /\ Differs(table, changed, host, name)
  BY <1>1 DEF Differs
<1>4. \A h \in Hosts, n \in Names : changed[h][n] = after[h][n]
  BY <1>3 DEF Differs
<1>5. ASSUME NEW h \in Hosts PROVE changed[h] = after[h]
  <2>1. changed[h] \in [Names -> S \cup {entry}] /\ after[h] \in [Names -> T]
    BY <1>2
  <2> QED
    BY <1>4, <2>1
<1> QED
  BY <1>1, <1>2, <1>5

\* One file as FileStore sees it.
LEMMA ViewAt ==
    ASSUME NEW ts, NEW there, NEW host \in Hosts, NEW name \in Names
    PROVE  /\ (\E t \in ts : t.to = host /\ t.name = name) => View(ts, there)[host][name] = Partial
           /\ (\A t \in ts : t.to # host \/ t.name # name) =>
                View(ts, there)[host][name] = there[host][name]
BY DEF View

\* One file changes in that view when it changes on the disk.
LEMMA ViewChanges ==
    ASSUME NEW ts, NEW there, NEW later, NEW then,
           NEW host \in Hosts, NEW name \in Names, NEW entry,
           View(later, then)[host][name] = entry,
           Differs(View(ts, there), View(later, then), host, name)
    PROVE  View(later, then) = [View(ts, there) EXCEPT ![host][name] = entry]
<1>1. PICK table : table = View(ts, there)
  OBVIOUS
<1>2. PICK after : after = View(later, then)
  OBVIOUS
<1>3. PICK S : table \in [Hosts -> [Names -> S]]
  BY <1>1, ViewOf
<1>4. PICK T : after \in [Hosts -> [Names -> T]]
  BY <1>2, ViewOf
<1>5. after[host][name] = entry /\ Differs(table, after, host, name)
  BY <1>1, <1>2
<1>6. after = [table EXCEPT ![host][name] = entry]
  BY <1>5, <1>3, <1>4, OneChanged, ZenonT(60)
<1> QED
  BY <1>1, <1>2, <1>6

\* FileStore's actions, by what happens to Transferring and the disks.
LEMMA BeginsInStore ==
    ASSUME NEW from \in Hosts, NEW to \in Hosts, from # to, Server \in {from, to},
           NEW name \in Names, NEW t, t = [from |-> from, to |-> to, name |-> name],
           Transferring = {}, Transferring' = {t}, Differs(disk, disk', to, name)
    PROVE  Store!StoreNext
<1>1. PICK before, after, there, then : /\ before = {} /\ after = {t}
                                        /\ there = disk /\ then = disk'
  OBVIOUS
<1>2. View(after, then)[to][name] = Partial
  <2>1. \E u \in after : u.to = to /\ u.name = name
    BY <1>1
  <2> QED
    BY <2>1, ViewAt
<1>3. ASSUME NEW h \in Hosts, NEW n \in Names, h # to \/ n # name
      PROVE  View(after, then)[h][n] = View(before, there)[h][n]
  <2>1. /\ \A u \in after : u.to # h \/ u.name # n
        /\ \A u \in before : u.to # h \/ u.name # n
        /\ then[h][n] = there[h][n]
    BY <1>1, <1>3 DEF Differs
  <2> QED
    BY <2>1, ViewAt
<1>4. Differs(View(before, there), View(after, then), to, name)
  BY <1>3 DEF Differs
<1>5. View(after, then) = [View(before, there) EXCEPT ![to][name] = Partial]
  BY <1>2, <1>4, ViewChanges
<1>6. Current(before) = None /\ Current(after) = t
  BY <1>1, CurrentIs
<1>7. Store!Begin(from, to, name)
  <2>1. View(Transferring', disk') = [View(Transferring, disk) EXCEPT ![to][name] = Partial]
    BY <1>1, <1>5
  <2>2. Current(Transferring) = None /\ Current(Transferring') = [from |-> from, to |-> to, name |-> name]
    BY <1>1, <1>6
  <2> QED
    BY <2>1, <2>2 DEF Store!Begin, View, Current
<1> QED
  BY <1>7 DEF Store!StoreNext

\* The transfer under way ends.
LEMMA FinishesInStore ==
    ASSUME NEW from \in Hosts, NEW to \in Hosts, from # to,
           NEW name \in Names, NEW t, t = [from |-> from, to |-> to, name |-> name],
           Transferring = {t}, Transferring' = {}, disk' = disk,
           disk[to][name] = disk[from][name]
    PROVE  Store!StoreNext
<1>1. PICK before, after, there : before = {t} /\ after = {} /\ there = disk
  OBVIOUS
<1>2. View(before, there)[from][name] = there[from][name]
  <2>1. \A u \in before : u.to # from \/ u.name # name
    BY <1>1
  <2> QED
    BY <2>1, ViewAt
<1>3. View(after, there)[to][name] = View(before, there)[from][name]
  <2>1. \A u \in after : u.to # to \/ u.name # name
    BY <1>1
  <2>2. View(after, there)[to][name] = there[to][name]
    BY <2>1, ViewAt
  <2> QED
    BY <1>1, <1>2, <2>2
<1>4. Differs(View(before, there), View(after, there), to, name)
  <2>1. ASSUME NEW h \in Hosts, NEW n \in Names, h # to \/ n # name
        PROVE  View(after, there)[h][n] = View(before, there)[h][n]
    <3>1. /\ \A u \in after : u.to # h \/ u.name # n
          /\ \A u \in before : u.to # h \/ u.name # n
      BY <1>1, <2>1
    <3> QED
      BY <3>1, ViewAt
  <2> QED
    BY <2>1 DEF Differs
<1>5. PICK copy : copy = View(before, there)[from][name]
  OBVIOUS
<1>6. View(after, there) = [View(before, there) EXCEPT ![to][name] = copy]
  BY <1>3, <1>4, <1>5, ViewChanges
<1>7. Current(before) = t /\ Current(after) = None /\ t # None
  BY <1>1, CurrentIs, NoSelfTransfer
<1>8. Store!Finish
  <2>1. PICK current, files : current = Current(Transferring) /\ files = View(Transferring, disk)
    OBVIOUS
  <2>2. current = t /\ files = View(before, there)
    BY <1>1, <1>7, <2>1
  <2>3. View(Transferring', disk') = [files EXCEPT ![current.to][current.name] =
                                         files[current.from][current.name]]
    BY <1>1, <1>5, <1>6, <2>2
  <2>4. current # None /\ Current(Transferring') = None
    BY <1>1, <1>7, <2>2
  <2> QED
    BY <2>1, <2>3, <2>4 DEF Store!Finish, View, Current
<1> QED
  BY <1>8 DEF Store!StoreNext

\* A file changes that is in no transfer under way.
LEMMA ChangesInStore ==
    ASSUME NEW host \in Hosts, NEW name \in Names,
           Transferring' = Transferring, Differs(disk, disk', host, name),
           disk'[host][name] \in Files,
           \/ Transferring = {}
           \/ \E t : Transferring = {t} /\ host \notin {t.from, t.to}
    PROVE  Store!StoreNext
<1>1. PICK ts, there, then : ts = Transferring /\ there = disk /\ then = disk'
  OBVIOUS
<1>2. \A t \in ts : t.to # host \/ t.name # name
  BY <1>1
<1>3. View(ts, then)[host][name] = then[host][name]
  BY <1>2, ViewAt
<1>4. Differs(View(ts, there), View(ts, then), host, name)
  <2>1. ASSUME NEW h \in Hosts, NEW n \in Names, h # host \/ n # name
        PROVE  View(ts, then)[h][n] = View(ts, there)[h][n]
    <3>1. then[h][n] = there[h][n]
      BY <1>1, <2>1 DEF Differs
    <3>2. CASE \E t \in ts : t.to = h /\ t.name = n
      BY <3>2, ViewAt
    <3>3. CASE \A t \in ts : t.to # h \/ t.name # n
      BY <3>1, <3>3, ViewAt
    <3> QED
      BY <3>2, <3>3
  <2> QED
    BY <2>1 DEF Differs
<1>5. PICK entry : entry = View(ts, then)[host][name]
  OBVIOUS
<1>6. View(ts, then) = [View(ts, there) EXCEPT ![host][name] = entry]
  <2>1. PICK later : later = ts
    OBVIOUS
  <2>2. View(later, then)[host][name] = entry /\ Differs(View(ts, there), View(later, then), host, name)
    BY <1>4, <1>5, <2>1
  <2>3. View(later, then) = [View(ts, there) EXCEPT ![host][name] = entry]
    BY ONLY <2>2, ViewChanges
  <2> QED
    BY <2>1, <2>3
<1>7. Current(ts) = None \/ host \notin {Current(ts).from, Current(ts).to}
  <2>1. CASE ts = {}
    BY <2>1, CurrentIs
  <2>2. CASE \E t : ts = {t} /\ host \notin {t.from, t.to}
    BY <2>2, CurrentIs
  <2> QED
    BY <1>1, <2>1, <2>2
<1>8. Store!Change(host, name)
  <2>1. View(Transferring', disk')[host][name] \in Files
    BY <1>1, <1>3
  <2>2. View(Transferring', disk') =
          [View(Transferring, disk) EXCEPT ![host][name] = View(Transferring', disk')[host][name]]
    BY <1>1, <1>5, <1>6
  <2>3. \/ Current(Transferring) = None
        \/ host \notin {Current(Transferring).from, Current(Transferring).to}
    BY <1>1, <1>7
  <2>4. Current(Transferring') = Current(Transferring)
    OBVIOUS
  <2> QED
    BY <2>1, <2>2, <2>3, <2>4 DEF Store!Change, View, Current
<1> QED
  BY <1>8 DEF Store!StoreNext

\* At most the file changes that is being written.
LEMMA NothingInStore ==
    ASSUME Transferring' = Transferring,
           \A h \in Hosts, n \in Names :
             disk'[h][n] = disk[h][n] \/ \E t \in Transferring : t.to = h /\ t.name = n
    PROVE  UNCHANGED Store!storeVars
<1>1. PICK ts, there, then : ts = Transferring /\ there = disk /\ then = disk'
  OBVIOUS
<1>2. View(ts, then) = View(ts, there)
  BY <1>1, SameView
<1>3. /\ View(Transferring', disk') = View(Transferring, disk)
      /\ Current(Transferring') = Current(Transferring)
  BY <1>1, <1>2
<1> QED
  BY <1>3, StoreView

\* All is well: every client and the server know where they stand.
InOrder == IInv /\ (\A c \in Clients : AtEase(c)) /\ ~ServerStopped

ToServer == [from |-> serving, to |-> Server, name |-> sname]
FromServer == [from |-> Server, to |-> serving, name |-> cname[serving]]

\* One transfer at a time, and with the client that is served.
LEMMA OneTransfer ==
    ASSUME InOrder
    PROVE  /\ \A c \in Clients : cplace[c] \in {"getHeader", "getData"} =>
                c = serving /\ Getting(c) /\ splace \in {"getData", "request"} /\ sname = cname[c]
           /\ splace = "putData" => Transferring = {ToServer} /\ InSession(serving)
           /\ splace # "putData" /\ cplace[serving] = "getData" => Transferring = {FromServer}
           /\ splace # "putData" /\ cplace[serving] # "getData" => Transferring = {}
<1>1. IInv /\ serving \in Clients
  BY Types DEF InOrder
<1>2. splace # "killed" /\ splace # "hung"
  BY DEF InOrder, ServerStopped
<1>3. ASSUME NEW c \in Clients, cplace[c] \in {"getHeader", "getData"}
      PROVE  c = serving /\ Getting(c) /\ splace \in {"getData", "request"} /\ sname = cname[c]
  <2>1. Commands(c) = {}
    BY <1>3 DEF Commands
  <2>2. AtEase(c)
    BY DEF InOrder
  <2>3. InSession(c) /\ Getting(c)
    BY <1>2, <1>3, <2>1, <2>2 DEF AtEase, InSession, Queued, Outside, Alone, Behind, Taken, Answered, Listing,
       Asked, Putting
  <2> QED
    BY <2>3 DEF InSession, Served, Getting, GetFollows
<1>4. ASSUME splace = "putData" PROVE Transferring = {ToServer} /\ InSession(serving)
  <2>1. AtEase(serving)
    BY <1>1 DEF InOrder
  <2>2. InSession(serving)
    BY <1>4, <2>1 DEF AtEase, Queued, Outside, Alone, Served
  <2> QED
    BY <1>4, <2>2 DEF Transferring, ToServer
<1>5. ASSUME splace # "putData", cplace[serving] = "getData" PROVE Transferring = {FromServer}
  <2>1. {d \in Clients : cplace[d] = "getData"} = {serving}
    BY <1>1, <1>3, <1>5
  <2> QED
    BY <1>5, <2>1 DEF Transferring, FromServer
<1>6. ASSUME splace # "putData", cplace[serving] # "getData" PROVE Transferring = {}
  <2>1. {d \in Clients : cplace[d] = "getData"} = {}
    BY <1>3, <1>6
  <2> QED
    BY <1>6, <2>1 DEF Transferring
<1> QED
  BY <1>3, <1>4, <1>5, <1>6

\* What the server does to the files.
LEMMA ServerKinds ==
    ASSUME IInv, ServerStep, ~ServerStopped', mishaps' = {}
    PROVE  \/ PutHeader
           \/ PutBlocks
           \/ PutDone
           \/ disk' = disk /\ splace # "putData" /\ splace' # "putData"
<1>1. CASE Accept
  BY <1>1 DEF Accept, ioVars
<1>2. CASE ClientGone
  BY <1>2 DEF ClientGone
<1>3. CASE ServeOpen \/ ServeQuit \/ ServeList
  BY <1>3 DEF ServeOpen, ServeQuit, ServeList, Request
<1>4. CASE \/ ServeBody("AUTH_REQUEST", "auth")
           \/ ServeBody("GET_REQUEST", "getName")
           \/ ServeBody("PUT_REQUEST", "putName")
           \/ WrongHeader
  BY <1>4 DEF ServeBody, WrongHeader, Request
<1>5. CASE ServeAuth \/ GetRefused \/ PutName \/ PutNoName
  BY <1>5 DEF ServeAuth, GetRefused, PutName, PutNoName
<1>6. CASE GetFile
  <2>1. disk' = disk /\ splace = "getName" /\ splace' = "getData"
    BY <1>6 DEF GetFile
  <2> QED
    BY <2>1
<1>7. CASE GetBlocks
  <2>1. disk' = disk /\ splace = "getData" /\ (splace' = "request" \/ splace' = splace)
    BY <1>7 DEF GetBlocks
  <2> QED
    BY <2>1
<1>8. CASE PutNull \/ LoopAtEnd \/ ServerFails \/ ServerKilledSending
  <2>1. splace' \in {"hung", "killed"}
    BY <1>8 DEF PutNull, LoopAtEnd, ServerFails, ServerKilledSending
  <2> QED
    BY <2>1 DEF ServerStopped
<1> QED
  BY <1>1, <1>2, <1>3, <1>4, <1>5, <1>6, <1>7, <1>8 DEF ServerStep

\* Every step of the server is one of FileStore's, or none.
LEMMA ServerInStore ==
    ASSUME InOrder, ServerStep, UNCHANGED clientVars, ~ServerStopped', mishaps' = {}
    PROVE  Store!StoreNext \/ UNCHANGED Store!storeVars
<1>1. IInv /\ serving \in Clients /\ Server \in Hosts /\ serving \in Hosts /\ serving # Server /\ sname \in Names
  BY Types, FtpAssumption DEF InOrder
<1>2. UNCHANGED <<cplace, cname>>
  BY DEF clientVars
<1>3. PICK t : t = ToServer
  OBVIOUS
<1>4. CASE PutHeader
  <2>1. splace = "putHeader" /\ UNCHANGED <<serving, sname>>
    BY <1>4 DEF PutHeader
  <2>2. Transferring = {}
    BY <2>1, OneTransfer, <1>1
  <2>3. PICK header : OpenForPut(header)
    BY <1>4 DEF PutHeader
  <2>4. splace' # "putNull"
    <3> SUFFICES ASSUME splace' = "putNull" PROVE FALSE
      OBVIOUS
    <3>1. \E kind : <<kind, serving>> \in mishaps'
      BY <2>3 DEF OpenForPut, MishapOf
    <3> QED
      BY <3>1
  <2>5. splace' = "putData" /\ \E file : disk' = [disk EXCEPT ![Server][sname] = file]
    BY <2>3, <2>4 DEF OpenForPut, Create
  <2>6. Transferring' = {t}
    BY <1>3, <2>1, <2>5 DEF Transferring, ToServer
  <2>7. Differs(disk, disk', Server, sname)
    BY <2>5, Types, <1>1 DEF Differs
  <2> QED
    BY <1>1, <1>3, <2>2, <2>6, <2>7, BeginsInStore DEF ToServer
<1>5. CASE PutBlocks
  <2>1. splace = "putData" /\ UNCHANGED <<serving, sname, splace>>
    BY <1>5 DEF PutBlocks, sessionVars
  <2>2. Transferring = {t} /\ Transferring' = {t}
    BY <1>3, <2>1 DEF Transferring, ToServer
  <2>3. \E file : disk' = [disk EXCEPT ![Server][sname] = file]
    BY <1>5 DEF PutBlocks, Write
  <2>4. \A h \in Hosts, n \in Names : disk'[h][n] = disk[h][n] \/ (Server = h /\ sname = n)
    BY <2>3, Types, <1>1
  <2>5. t.to = Server /\ t.name = sname
    BY <1>3 DEF ToServer
  <2> QED
    BY <2>2, <2>4, <2>5, NothingInStore
<1>6. CASE PutDone
  <2>1. splace = "putData" /\ sleft = 0 /\ disk' = disk /\ splace' = "request" /\ serving' = serving
    BY <1>6 DEF PutDone, ioVars
  <2>2. Transferring = {t} /\ InSession(serving)
    BY <1>3, <2>1, OneTransfer
  <2>3. \A c \in Clients : cplace[c] # "getData"
    BY <2>1, OneTransfer
  <2>4. Transferring' = {}
    BY <1>2, <2>1, <2>3 DEF Transferring
  <2>5. PICK sent \in Nat, command \in Seq(Units) : PutFollows(serving, sent, command)
    <3>1. ~Asked(serving)
      BY <2>1 DEF Asked
    <3> QED
      BY <1>1, <2>1, <2>2, <3>1, FileComes
  <2>6. disk[Server][sname] = disk[serving][sname]
    BY <1>1, <2>1, <2>5, TargetWhole
  <2> QED
    BY <1>1, <1>3, <2>1, <2>2, <2>4, <2>6, FinishesInStore DEF ToServer
<1>7. CASE disk' = disk /\ splace # "putData" /\ splace' # "putData"
  <2>1. Transferring' = Transferring
    BY <1>2, <1>7 DEF Transferring
  <2> QED
    BY <1>7, <2>1, NothingInStore
<1> QED
  BY <1>1, <1>4, <1>5, <1>6, <1>7, ServerKinds

\* What a client does to the files.
LEMMA ClientKinds ==
    ASSUME IInv, NEW c \in Clients, ClientStep(c), splace # "killed"
    PROVE  /\ UNCHANGED <<splace, serving, sname>>
           /\ \/ \E reply \in Replies(c) : GetHeader(c, reply)
              \/ GetBlocksOf(c)
              \/ TransferDone(c) /\ cplace[c] = "getData"
              \/ disk' = disk /\ cplace[c] # "getData" /\ cplace'[c] # "getData"
<1> USE ClientTypes
<1>1. CASE Open(c)
  BY <1>1 DEF Open, GoTo
<1>2. CASE (\E login \in {0, 1} : Auth(c, login)) \/ List(c) \/ Quit(c)
  BY <1>2 DEF Auth, List, Quit, GoTo, LoggedIn, Connected, othersVars
<1>3. CASE \E name \in Names : Get(c, name) \/ Put(c, name)
  <2>1. /\ UNCHANGED othersVars /\ disk' = disk /\ cplace[c] = "prompt"
        /\ cplace' = [cplace EXCEPT ![c] = "get"] \/ cplace' = [cplace EXCEPT ![c] = "put"]
    BY <1>3 DEF Get, Put, GoTo, Command, LoggedIn, Connected
  <2> QED
    BY <2>1 DEF othersVars
<1>4. ASSUME NEW reply \in Replies(c), \/ OpenReply(c, reply) \/ AuthReply(c, reply) \/ ListReply(c, reply)
             \/ GetReplied(c, reply) \/ PutReplied(c, reply) \/ QuitReply(c, reply)
      PROVE  /\ UNCHANGED <<splace, serving, sname>>
             /\ disk' = disk /\ cplace[c] # "getData" /\ cplace'[c] # "getData"
  BY <1>4 DEF OpenReply, AuthReply, ListReply, GetReplied, PutReplied, QuitReply, GoTo, Hangup, Reply, replyVars,
     othersVars
<1>5. ASSUME NEW reply \in Replies(c), GetHeader(c, reply) PROVE UNCHANGED <<splace, serving, sname>>
  BY <1>5 DEF GetHeader, othersVars
<1>6. CASE ListBlocks(c)
  BY <1>6 DEF ListBlocks, ReceiveChunk, othersVars
<1>7. CASE GetBlocksOf(c)
  BY <1>7 DEF GetBlocksOf, ReceiveChunk, othersVars
<1>8. CASE TransferDone(c)
  BY <1>8 DEF TransferDone, GoTo, ioVars, serverVars
<1>9. CASE PutBlocksOf(c)
  <2>1. /\ UNCHANGED <<splace, serving, sname, disk>> /\ cplace[c] = "putData"
        /\ cplace' = cplace \/ GoTo(c, "prompt")
    BY <1>9 DEF PutBlocksOf, othersVars
  <2> QED
    BY <2>1 DEF GoTo
<1>10. CASE LeaveAtPrompt(c)
  BY <1>10 DEF LeaveAtPrompt, Hangup, GoTo, othersVars
<1>11. ~ClientFails(c)
  BY DEF ClientFails
<1>12. CASE OpenNowhere(c)
  BY <1>12 DEF OpenNowhere, GoTo, ioVars, serverVars
<1>13. CASE GetNull(c)
  BY <1>13 DEF GetNull, Hangup, GoTo, othersVars
<1> QED
  BY <1>1, <1>2, <1>3, <1>4, <1>5, <1>6, <1>7, <1>8, <1>9, <1>10, <1>11, <1>12, <1>13 DEF ClientStep

\* So is every step of a client.
LEMMA ClientInStore ==
    ASSUME InOrder, NEW c \in Clients, ClientStep(c), mishaps' = {}
    PROVE  Store!StoreNext \/ UNCHANGED Store!storeVars
<1>1. /\ IInv /\ Server \in Hosts /\ c \in Hosts /\ c # Server /\ cname[c] \in Names
      /\ splace # "killed" /\ AtEase(c)
  BY Types, ClientTypes, FtpAssumption DEF InOrder, ServerStopped
<1>2. UNCHANGED <<splace, serving, sname>>
  BY <1>1, ClientKinds
<1>3. \A d \in Clients : d # c => cplace'[d] = cplace[d] /\ cname'[d] = cname[d]
  BY <1>1, ClientTouches DEF Untouched
<1>4. PICK t : t = [from |-> Server, to |-> c, name |-> cname[c]]
  OBVIOUS
<1>5. ASSUME NEW reply \in Replies(c), GetHeader(c, reply)
      PROVE  Store!StoreNext
  <2>1. cplace[c] = "getHeader"
    BY <1>5 DEF GetHeader, Reply
  <2>2. c = serving /\ splace \in {"getData", "request"}
    BY <2>1, OneTransfer
  <2>3. Transferring = {}
    BY <2>1, <2>2, OneTransfer
  <2>4. UNCHANGED mishaps
    <3> SUFFICES ASSUME ~UNCHANGED mishaps PROVE FALSE
      OBVIOUS
    <3>1. \E kind : <<kind, c>> \in mishaps'
      BY <1>5 DEF GetHeader
    <3> QED
      BY <3>1
  <2>5. /\ cplace' = [cplace EXCEPT ![c] = "getData"] /\ cname' = cname
        /\ \E file : disk' = [disk EXCEPT ![c][cname[c]] = file]
    BY <1>5, <2>4 DEF GetHeader, Create, GoTo
  <2>6. {d \in Clients : cplace'[d] = "getData"} = {c}
    <3>1. \A d \in Clients : cplace[d] # "getData"
      BY <2>1, <2>2, OneTransfer
    <3> QED
      BY <1>1, <2>5, <3>1, ClientTypes
  <2>7. Transferring' = {t}
    BY <1>2, <1>4, <2>2, <2>5, <2>6 DEF Transferring
  <2>8. Differs(disk, disk', c, cname[c])
    BY <1>1, <2>5, Types DEF Differs
  <2> QED
    BY <1>1, <1>4, <2>3, <2>7, <2>8, BeginsInStore
<1>6. CASE GetBlocksOf(c)
  <2>1. cplace[c] = "getData" /\ UNCHANGED <<cplace, cname>>
    BY <1>6 DEF GetBlocksOf, ReceiveChunk
  <2>2. c = serving /\ splace \in {"getData", "request"}
    BY <2>1, OneTransfer
  <2>3. Transferring = {t}
    BY <1>4, <2>1, <2>2, OneTransfer DEF FromServer
  <2>4. Transferring' = Transferring
    BY <1>2, <2>1 DEF Transferring
  <2>5. \E file : disk' = [disk EXCEPT ![c][cname[c]] = file]
    BY <1>6 DEF GetBlocksOf, Write
  <2>6. \A h \in Hosts, n \in Names : disk'[h][n] = disk[h][n] \/ (c = h /\ cname[c] = n)
    BY <1>1, <2>5, Types
  <2>7. t.to = c /\ t.name = cname[c]
    BY <1>4
  <2> QED
    BY <2>3, <2>4, <2>6, <2>7, NothingInStore
<1>7. CASE TransferDone(c) /\ cplace[c] = "getData"
  <2>1. c = serving /\ splace \in {"getData", "request"} /\ sname = cname[c]
    BY <1>7, OneTransfer
  <2>2. Transferring = {t}
    BY <1>4, <1>7, <2>1, OneTransfer DEF FromServer
  <2>3. cplace' = [cplace EXCEPT ![c] = "prompt"] /\ disk' = disk
    BY <1>7 DEF TransferDone, GoTo, ioVars
  <2>4. {d \in Clients : cplace'[d] = "getData"} = {}
    <3>1. \A d \in Clients : cplace[d] = "getData" => d = c
      BY <2>1, OneTransfer
    <3> QED
      BY <1>1, <2>3, <3>1, ClientTypes
  <2>5. Transferring' = {}
    BY <1>2, <2>1, <2>4 DEF Transferring
  <2>6. disk[c][cname[c]] = disk[Server][cname[c]]
    BY <1>1, <1>7, <2>1, Returns
  <2> QED
    BY <1>1, <1>4, <2>2, <2>3, <2>5, <2>6, FinishesInStore
<1>8. CASE disk' = disk /\ cplace[c] # "getData" /\ cplace'[c] # "getData"
  <2>1. {d \in Clients : cplace'[d] = "getData"} = {d \in Clients : cplace[d] = "getData"}
    BY <1>3, <1>8
  <2>2. \A d \in Clients : cplace[d] = "getData" => cname'[d] = cname[d]
    BY <1>3, <1>8
  <2>3. Transferring' = Transferring
    BY <1>2, <2>1, <2>2 DEF Transferring
  <2> QED
    BY <1>8, <2>3, NothingInStore
<1> QED
  BY <1>1, <1>5, <1>6, <1>7, <1>8, ClientKinds

\* A file changes, but not on a host with a transfer under way.
LEMMA EditInStore ==
    ASSUME InOrder, NEW host \in Hosts, NEW name \in Names, Edit(host, name), mishaps' = {}
    PROVE  Store!StoreNext
<1>1. IInv /\ serving \in Clients /\ host \in Hosts
  BY Types DEF InOrder
<1>2. /\ UNCHANGED <<splace, serving, sname, cplace, cname>>
      /\ \A d \in Clients : ~(host \in {Server, d} /\ Busy(d))
  <2>1. UNCHANGED <<serverVars, clientVars>>
    BY DEF Edit
  <2>2. mishaps' = mishaps \cup
                    {<<"edited", c>> : c \in {d \in Clients : host \in {Server, d} /\ Busy(d)}}
    BY DEF Edit
  <2>3. \A d \in Clients : ~(host \in {Server, d} /\ Busy(d))
    BY <2>2
  <2> QED
    BY <2>1, <2>3 DEF serverVars, clientVars
<1>3. Transferring' = Transferring
  BY <1>2 DEF Transferring
<1>4. \E file : disk' = [disk EXCEPT ![host][name] = file]
  BY DEF Edit
<1>5. Differs(disk, disk', host, name)
  BY <1>1, <1>4, Types DEF Differs
<1>6. disk'[host][name] \in Files
  <2>1. PICK blocks \in Seq(Blocks) : blocks = disk[host][name].blocks
    BY <1>1, Types DEF Files
  <2>2. CASE \E block \in Blocks : disk' = [disk EXCEPT ![host][name] = Regular(Append(blocks, block))]
    <3>1. PICK longer \in Seq(Blocks) : disk' = [disk EXCEPT ![host][name] = Regular(longer)]
      <4>1. \A block \in Blocks : Append(blocks, block) \in Seq(Blocks)
        OBVIOUS
      <4> QED
        BY <2>2, <4>1
    <3>2. disk'[host][name] = Regular(longer)
      BY <1>1, <3>1, Types
    <3> QED
      BY <3>2, RegularFiles
  <2>3. CASE blocks # <<>> /\ disk' = [disk EXCEPT ![host][name] =
                            Regular(SubSeq(blocks, 1, Len(blocks) - 1))]
    <3>1. SubSeq(blocks, 1, Len(blocks) - 1) \in Seq(Blocks)
      BY <2>3
    <3>2. PICK shorter \in Seq(Blocks) : disk' = [disk EXCEPT ![host][name] = Regular(shorter)]
      BY <2>3, <3>1
    <3>3. disk'[host][name] = Regular(shorter)
      BY <1>1, <3>2, Types
    <3> QED
      BY <3>3, RegularFiles
  <2> QED
    BY <2>1, <2>2, <2>3 DEF Edit
<1>7. \/ Transferring = {}
      \/ \E t : Transferring = {t} /\ host \notin {t.from, t.to}
  <2>1. CASE splace = "putData"
    <3>1. Busy(serving)
      BY <2>1 DEF Busy
    <3>2. host \notin {Server, serving}
      BY <1>1, <1>2, <3>1
    <3>3. Transferring = {ToServer}
      BY <2>1, OneTransfer
    <3> QED
      BY <3>2, <3>3 DEF ToServer
  <2>2. CASE splace # "putData" /\ cplace[serving] = "getData"
    <3>1. Busy(serving)
      BY <2>2 DEF Busy
    <3>2. host \notin {Server, serving}
      BY <1>1, <1>2, <3>1
    <3>3. Transferring = {FromServer}
      BY <2>2, OneTransfer
    <3> QED
      BY <3>2, <3>3 DEF FromServer
  <2>3. CASE splace # "putData" /\ cplace[serving] # "getData"
    BY <2>3, OneTransfer
  <2> QED
    BY <2>1, <2>2, <2>3
<1> QED
  BY <1>3, <1>5, <1>6, <1>7, ChangesInStore

\* The initial states map to FileStore's.
LEMMA BeginsAsStore == Init => Store!StoreInit
<1> SUFFICES ASSUME Init PROVE Store!StoreInit
  OBVIOUS
<1>1. disk \in [Hosts -> [Names -> Files]] /\ splace = "accept" /\ \A c \in Clients : cplace[c] = "prompt"
  BY FtpAssumption DEF Init, IoInit, ServerInit, ClientInit
<1>2. Transferring = {}
  BY <1>1 DEF Transferring
<1> QED
  BY <1>1, <1>2 DEF Store!StoreInit

\* The step of the refinement.
LEMMA StoreSteps ==
    ASSUME DInv, ~ServerStopped \/ Mishap(serving), ~ServerStopped' \/ Mishap(serving)', [Next]_vars
    PROVE  [NoMishap' => Store!StoreNext]_(Store!storeVars)
<1> SUFFICES ASSUME NoMishap' PROVE Store!StoreNext \/ UNCHANGED Store!storeVars
  OBVIOUS
<1>1. mishaps' = {} /\ ~ServerStopped'
  BY DEF NoMishap, Mishap
<1>2. mishaps \subseteq mishaps'
  <2>1. CASE ServerStep
    <3>1. CASE splace = "accept"
      <4>1. CASE Accept
        BY <4>1 DEF Accept
      <4>2. CASE ~Accept
        <5>1. UNCHANGED mishaps
          BY <2>1, <3>1, <4>2 DEF ServerStep, ClientGone, ServeOpen, ServeQuit, ServeList, ServeBody, WrongHeader,
             Request, ServeAuth, GetRefused, GetFile, GetBlocks, PutName, PutNoName, PutHeader, PutBlocks,
             PutDone, PutNull, LoopAtEnd, ServerFails, ServerKilledSending
        <5> QED
          BY <5>1
      <4> QED
        BY <4>1, <4>2
    <3>2. CASE splace # "accept"
      <4>1. IInv /\ \E c \in Clients : TRUE
        BY FtpAssumption DEF DInv
      <4> QED
        BY <2>1, <3>2, <4>1, ServerLeaves
    <3> QED
      BY <3>1, <3>2
  <2>2. ASSUME NEW c \in Clients, ClientStep(c) \/ ClientDies(c) PROVE mishaps \subseteq mishaps'
    BY <2>2, ClientTouches DEF DInv
  <2>3. ASSUME NEW host \in Hosts, NEW name \in Names, Edit(host, name) PROVE mishaps \subseteq mishaps'
    BY <2>3 DEF Edit
  <2>4. CASE UNCHANGED vars
    BY <2>4 DEF vars
  <2> QED
    BY <2>1, <2>2, <2>3, <2>4 DEF Next
<1>3. InOrder
  <2>1. \A c \in Clients : ~Mishap(c)
    BY <1>1, <1>2 DEF Mishap
  <2>2. \A c \in Clients : AtEase(c)
    BY <2>1 DEF DInv, Dialogue, AtEase
  <2>3. ~ServerStopped
    BY <1>1, <1>2 DEF Mishap
  <2> QED
    BY <2>2, <2>3 DEF InOrder, DInv
<1>4. CASE ServerStep /\ UNCHANGED clientVars
  BY <1>1, <1>3, <1>4, ServerInStore
<1>5. ASSUME NEW c \in Clients, ClientStep(c) PROVE Store!StoreNext \/ UNCHANGED Store!storeVars
  BY <1>1, <1>3, <1>5, ClientInStore
<1>6. ASSUME NEW c \in Clients, ClientDies(c) PROVE FALSE
  <2>1. <<"died", c>> \in mishaps'
    BY <1>6 DEF ClientDies
  <2> QED
    BY <1>1, <2>1
<1>7. ASSUME NEW host \in Hosts, NEW name \in Names, Edit(host, name) PROVE Store!StoreNext
  BY <1>1, <1>3, <1>7, EditInStore
<1>8. CASE UNCHANGED vars
  <2>1. UNCHANGED <<splace, serving, sname, cplace, cname, disk>>
    BY <1>8 DEF vars, ioVars, serverVars, clientVars
  <2>2. Transferring' = Transferring
    BY <2>1 DEF Transferring
  <2> QED
    BY <2>1, <2>2, NothingInStore
<1> QED
  BY <1>4, <1>5, <1>6, <1>7, <1>8 DEF Next

\* Until a mishap happens, the disks and the transfers do what FileStore says: Get and
\* Put make the target a copy of the source, one transfer at a time.
THEOREM FilesAreCopied == Spec => ImplementsFileStore
<1>1. Init => Store!StoreInit
  BY BeginsAsStore
<1>2. /\ DInv /\ StopsHaveCauses /\ StopsHaveCauses' /\ [Next]_vars
      => [NoMishap' => Store!StoreNext]_(Store!storeVars)
  BY StoreSteps DEF StopsHaveCauses
<1> QED
  BY <1>1, <1>2, DialogueInvariance, StopsAreCaused, PTL DEF Spec, ImplementsFileStore
=============================================================================
