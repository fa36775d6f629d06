----------------------------- MODULE FtpProofs -----------------------------
(***************************************************************************)
(* Proofs about Ftp, for all clients, names, disks, buffer sizes and       *)
(* bounds, whatever mishaps happen.                                        *)
(***************************************************************************)
EXTENDS Ftp, SequenceTheorems, TLAPS

NameUnits == Bodies("name", Names)
LoginUnits == Bodies("login", {0, 1})

\* next may stand behind unit: requests about files are followed by a name, a login
\* request by a login.
Follows(unit, next) ==
    /\ unit.type \in {"GET_REQUEST", "PUT_REQUEST"} => next \in NameUnits
    /\ unit.type = "AUTH_REQUEST" => next \in LoginUnits

NeedsBody(unit) == unit.type \in {"GET_REQUEST", "PUT_REQUEST", "AUTH_REQUEST"}

\* Every request in the stream has its body behind it, unless its client is gone and
\* it is the last one.
Whole(stream, gone) ==
    \A i \in 1..Len(stream) :
        IF i < Len(stream) THEN Follows(stream[i], stream[i + 1])
        ELSE NeedsBody(stream[i]) => gone

StreamsWhole == \A c \in Clients : Whole(up[c], c \in left)

\* What the server finds where it waits for a body.
BodyAwaited(stream, place, gone) ==
    /\ place \in {"getName", "putName"} =>
         IF stream = <<>> THEN gone ELSE stream[1] \in NameUnits
    /\ place = "auth" =>
         IF stream = <<>> THEN gone ELSE stream[1] \in LoginUnits

BodyComes == BodyAwaited(up[serving], splace, serving \in left)

\* A client that has closed its connection has ended, and one that waits for the
\* reply to its login has a connection.
ClientsKnown ==
    /\ \A c \in left : cplace[c] = "exited"
    /\ \A c \in Clients : cplace[c] = "auth" => c \in clientfd

IInv == TypeOK /\ StreamsWhole /\ BodyComes /\ ClientsKnown

-----------------------------------------------------------------------------
\* Streams.

LEMMA UnitKinds ==
    /\ \A type \in HeaderTypes, status \in {0, 1, UNUSED}, length \in Nat :
         get_header(status, type, length) \in Units
    /\ NameUnits \subseteq Units /\ LoginUnits \subseteq Units
    /\ \A block \in Blocks : Body("block", block) \in Units
    /\ \A name \in Names : Body("name", name) \in NameUnits
    /\ \A login \in {0, 1} : Body("login", login) \in LoginUnits
    /\ Body("listing", 0) \in Units
BY DEF get_header, Units, Headers, BodyUnits, NameUnits, LoginUnits, Bodies, Body

LEMMA HeadAndTail ==
    ASSUME NEW stream \in Seq(Units), stream # <<>>
    PROVE  Head(stream) \in Units /\ Tail(stream) \in Seq(Units)
BY HeadTailProperties

LEMMA RestOfStream ==
    ASSUME NEW stream \in Seq(Units), NEW gone, NEW n \in Nat, Len(stream) >= n,
           Whole(stream, gone),
           NEW rest, rest = SubSeq(stream, n + 1, Len(stream))
    PROVE  /\ rest \in Seq(Units)
           /\ Whole(rest, gone)
           /\ rest # <<>> => rest[1] = stream[n + 1] /\ n < Len(stream)
           /\ rest = <<>> => n = Len(stream)
<1>1. Len(stream) \in Nat
  OBVIOUS
<1>2. /\ rest \in Seq(Units)
      /\ Len(rest) = Len(stream) - n
      /\ \A i \in 1..(Len(stream) - n) : rest[i] = stream[n + i]
  <2>1. /\ rest \in Seq(Units)
        /\ Len(rest) = IF n + 1 <= Len(stream) THEN Len(stream) - (n + 1) + 1 ELSE 0
        /\ \A i \in 1..Len(stream) - (n + 1) + 1 : rest[i] = stream[(n + 1) + i - 1]
    BY <1>1, SubSeqProperties
  <2> QED
    BY <1>1, <2>1
<1>3. Whole(rest, gone)
  <2> SUFFICES ASSUME NEW i \in 1..Len(rest)
               PROVE  IF i < Len(rest) THEN Follows(rest[i], rest[i + 1])
                      ELSE NeedsBody(rest[i]) => gone
    BY DEF Whole
  <2>1. PICK k \in 1..Len(stream) : k = n + i
    BY <1>1, <1>2
  <2>2. rest[i] = stream[k]
    BY <1>2, <2>1
  <2>3. CASE i < Len(rest)
    <3>1. k < Len(stream) /\ i + 1 \in 1..(Len(stream) - n) /\ n + (i + 1) = k + 1
      BY <1>1, <1>2, <2>1, <2>3
    <3>2. rest[i + 1] = stream[k + 1]
      BY <1>2, <3>1
    <3> QED
      BY <2>2, <2>3, <3>1, <3>2 DEF Whole
  <2>4. CASE ~(i < Len(rest))
    <3>1. ~(k < Len(stream))
      BY <1>1, <1>2, <2>1, <2>4
    <3> QED
      BY <2>2, <2>4, <3>1 DEF Whole
  <2> QED
    BY <2>3, <2>4
<1>4. rest # <<>> => Len(rest) # 0
  BY <1>2
<1>5. rest = <<>> => Len(rest) = 0
  OBVIOUS
<1> QED
  BY <1>1, <1>2, <1>3, <1>4, <1>5

\* A client that is still there adds what is whole by itself, or one header last.
LEMMA LongerStream ==
    ASSUME NEW stream \in Seq(Units), Whole(stream, FALSE),
           NEW units \in Seq(Units), NEW gone, Whole(units, gone),
           NEW longer, longer = stream \o units
    PROVE  /\ longer \in Seq(Units)
           /\ Whole(longer, gone)
           /\ stream # <<>> => longer # <<>> /\ longer[1] = stream[1]
<1>1. Len(stream) \in Nat /\ Len(units) \in Nat
  OBVIOUS
<1>2. /\ longer \in Seq(Units)
      /\ Len(longer) = Len(stream) + Len(units)
      /\ \A i \in 1..Len(stream) : longer[i] = stream[i]
      /\ \A i \in 1..Len(units) : longer[Len(stream) + i] = units[i]
  BY <1>1
<1>3. Whole(longer, gone)
  <2> SUFFICES ASSUME NEW i \in 1..Len(longer)
               PROVE  IF i < Len(longer) THEN Follows(longer[i], longer[i + 1])
                      ELSE NeedsBody(longer[i]) => gone
    BY DEF Whole
  <2>1. CASE i < Len(stream)
    <3>1. i \in 1..Len(stream) /\ i + 1 \in 1..Len(stream) /\ i < Len(longer)
      BY <1>1, <1>2, <2>1
    <3> QED
      BY <1>2, <2>1, <3>1 DEF Whole
  <2>2. CASE i = Len(stream)
    <3>1. i \in 1..Len(stream)
      BY <1>1, <1>2, <2>2
    <3>2. ~NeedsBody(longer[i])
      BY <1>2, <2>2, <3>1 DEF Whole
    <3> QED
      BY <3>2 DEF NeedsBody, Follows
  <2>3. CASE i > Len(stream)
    <3>1. PICK k \in 1..Len(units) : i = Len(stream) + k
      <4>1. i - Len(stream) \in 1..Len(units) /\ i = Len(stream) + (i - Len(stream))
        BY <1>1, <1>2, <2>3
      <4> QED
        BY <4>1
    <3>2. longer[i] = units[k]
      BY <1>2, <3>1
    <3>3. CASE k < Len(units)
      <4>1. i < Len(longer) /\ k + 1 \in 1..Len(units) /\ i + 1 = Len(stream) + (k + 1)
        BY <1>1, <1>2, <3>1, <3>3
      <4>2. longer[i + 1] = units[k + 1]
        BY <1>2, <4>1
      <4> QED
        BY <3>2, <3>3, <4>1, <4>2 DEF Whole
    <3>4. CASE ~(k < Len(units))
      <4>1. ~(i < Len(longer))
        BY <1>1, <1>2, <3>1, <3>4
      <4> QED
        BY <3>2, <3>4, <4>1 DEF Whole
    <3> QED
      BY <3>3, <3>4
  <2> QED
    BY <1>1, <1>2, <2>1, <2>2, <2>3
<1>4. ASSUME stream # <<>> PROVE longer # <<>> /\ longer[1] = stream[1]
  <2>1. 1 \in 1..Len(stream) /\ Len(longer) # 0
    BY <1>1, <1>2, <1>4
  <2> QED
    BY <1>2, <2>1
<1> QED
  BY <1>2, <1>3, <1>4

-----------------------------------------------------------------------------
\* Files.

LEMMA FileKinds ==
    /\ Files \subseteq [size : Int, blocks : Seq(Blocks)]
    /\ \A blocks \in Seq(Blocks) : Regular(blocks) \in Files
    /\ \A file \in Files : file # Absent => file.size \in Nat
BY DEF Files, Regular, Directory, Absent

LEMMA NextBlocksOf ==
    ASSUME NEW file \in Files, NEW pos \in Nat
    PROVE  NextBlocks(file, pos) \in Seq(Blocks)
<1>1. PICK blocks \in Seq(Blocks) : blocks = file.blocks
  BY FileKinds
<1>2. PICK last : last = pos + Chunk(Len(blocks) - pos)
  OBVIOUS
<1>3. last \in Int /\ last <= Len(blocks) /\ Len(blocks) \in Nat
  BY <1>2, FtpAssumption DEF Chunk
<1>4. \A i \in pos + 1..last : blocks[i] \in Blocks
  BY <1>3
<1>5. SubSeq(blocks, pos + 1, last) \in Seq(Blocks)
  BY <1>3, <1>4, SubSeqProperties
<1> QED
  BY <1>1, <1>2, <1>5 DEF NextBlocks

\* Blocks in a stream are whole by themselves.
LEMMA BlockStream ==
    ASSUME NEW blocks \in Seq(Blocks)
    PROVE  AsUnits(blocks) \in Seq(Units) /\ Whole(AsUnits(blocks), FALSE)
<1>1. PICK units : units = AsUnits(blocks)
  OBVIOUS
<1>2. Len(blocks) \in Nat /\ DOMAIN blocks = 1..Len(blocks)
  OBVIOUS
<1>3. units = [i \in 1..Len(blocks) |-> Body("block", blocks[i])]
  BY <1>1, <1>2 DEF AsUnits
<1>4. \A i \in 1..Len(blocks) : units[i] \in Units /\ units[i].type = "block"
  BY <1>3, UnitKinds DEF Body
<1>5. units \in [1..Len(blocks) -> Units]
  BY <1>3, <1>4
<1>6. units \in Seq(Units) /\ Len(units) = Len(blocks)
  BY <1>2, <1>5
<1>7. Whole(units, FALSE)
  BY <1>4, <1>6 DEF Whole, NeedsBody, Follows
<1> QED
  BY <1>1, <1>6, <1>7

\* What is written to a file is made of blocks, whatever was received.
LEMMA WrittenBlocks ==
    ASSUME NEW stream \in Seq(Units), NEW n \in Nat, Len(stream) >= n,
           NEW blocks \in AsBlocks(SubSeq(stream, 1, n)),
           NEW file \in Files
    PROVE  Regular(file.blocks \o blocks) \in Files
<1>1. PICK units : units = SubSeq(stream, 1, n)
  OBVIOUS
<1>2. Len(stream) \in Nat /\ \A i \in 1..n : stream[i] \in Units
  OBVIOUS
<1>3. units \in Seq(Units)
  BY <1>1, <1>2, SubSeqProperties
<1>4. blocks \in [DOMAIN units -> Blocks]
  BY <1>1 DEF AsBlocks
<1>5. Len(units) \in Nat /\ DOMAIN units = 1..Len(units)
  BY <1>3
<1>6. blocks \in Seq(Blocks)
  BY <1>4, <1>5
<1>7. PICK before \in Seq(Blocks) : before = file.blocks
  BY FileKinds
<1>8. before \o blocks \in Seq(Blocks)
  BY <1>6
<1> QED
  BY <1>7, <1>8, FileKinds

LEMMA ChunkBounds ==
    ASSUME NEW length \in Nat
    PROVE  Chunk(length) \in Nat /\ Chunk(length) <= length
BY FtpAssumption DEF Chunk

LEMMA LengthsChange ==
    ASSUME NEW lengths \in [Clients -> Nat], NEW c \in Clients, NEW n \in Nat
    PROVE  /\ [lengths EXCEPT ![c] = lengths[c] + n] \in [Clients -> Nat]
           /\ n <= lengths[c] => [lengths EXCEPT ![c] = lengths[c] - n] \in [Clients -> Nat]
<1>1. PICK length \in Nat : length = lengths[c]
  OBVIOUS
<1>2. length + n \in Nat /\ (n <= length => length - n \in Nat)
  OBVIOUS
<1> QED
  BY <1>1, <1>2

LEMMA MishapAdded ==
    ASSUME NEW before \in SUBSET (MishapKinds \X Clients),
           NEW kind \in MishapKinds, NEW c \in Clients
    PROVE  before \cup {<<kind, c>>} \in SUBSET (MishapKinds \X Clients)
OBVIOUS

-----------------------------------------------------------------------------
\* The server's steps.

LEMMA ServerPart ==
    ASSUME IInv, UNCHANGED <<left, clientVars>>, troubles' \in 0..MaxTroubles,
           up' \in [Clients -> Seq(Units)], down' \in [Clients -> Seq(Units)],
           reset' \subseteq left, disk' \in [Hosts -> [Names -> Files]],
           ServerTypeOK', StreamsWhole', BodyComes'
    PROVE  IInv'
<1>1. IoTypeOK'
  BY DEF IInv, TypeOK, IoTypeOK
<1>2. ClientTypeOK'
  BY DEF IInv, TypeOK, ClientTypeOK, clientVars
<1>3. ClientsKnown'
  BY DEF IInv, ClientsKnown, clientVars
<1> QED
  BY <1>1, <1>2, <1>3 DEF IInv, TypeOK

LEMMA Types ==
    ASSUME IInv
    PROVE  /\ serving \in Clients
           /\ up \in [Clients -> Seq(Units)] /\ down \in [Clients -> Seq(Units)]
           /\ left \subseteq Clients /\ reset \subseteq left
           /\ disk \in [Hosts -> [Names -> Files]]
           /\ sname \in Names /\ sleft \in Nat
           /\ Server \in Hosts /\ Clients \subseteq Hosts
BY DEF IInv, TypeOK, IoTypeOK, ServerTypeOK, Hosts

LEMMA MishapNoted ==
    ASSUME IInv, NEW c \in Clients, NEW kind \in MishapKinds, mishaps' = mishaps \cup {<<kind, c>>}
    PROVE  mishaps' \subseteq MishapKinds \X Clients
<1>1. mishaps \in SUBSET (MishapKinds \X Clients)
  BY DEF IInv, TypeOK, ServerTypeOK
<1>2. mishaps \cup {<<kind, c>>} \in SUBSET (MishapKinds \X Clients)
  BY <1>1, MishapAdded
<1> QED
  BY <1>2

LEMMA CallMishap ==
    ASSUME IInv, NEW call \in MishapKinds, NEW n, MishapOf(call, n)
    PROVE  mishaps' \subseteq MishapKinds \X Clients
<1>1. PICK kind \in MishapKinds : mishaps' = mishaps \cup {<<kind, serving>>}
  BY DEF MishapOf, MishapKinds
<1> QED
  BY <1>1, Types, MishapNoted

LEMMA AfterReceive ==
    ASSUME IInv, NEW n \in Nat, ServerReceives(n), UNCHANGED left
    PROVE  /\ up' \in [Clients -> Seq(Units)]
           /\ StreamsWhole'
           /\ up'[serving] # <<>> => up'[serving][1] = up[serving][n + 1] /\ n < Len(up[serving])
           /\ up'[serving] = <<>> => n = Len(up[serving])
           /\ Len(up[serving]) >= n
<1>1. PICK stream \in Seq(Units) : stream = up[serving]
  BY Types
<1>2. PICK rest : rest = SubSeq(stream, n + 1, Len(stream))
  OBVIOUS
<1>3. Len(stream) >= n /\ up' = [up EXCEPT ![serving] = rest]
  BY <1>1, <1>2 DEF ServerReceives
<1>4. Whole(stream, serving \in left)
  BY <1>1, Types DEF IInv, StreamsWhole
<1>5. /\ rest \in Seq(Units)
      /\ Whole(rest, serving \in left)
      /\ rest # <<>> => rest[1] = stream[n + 1] /\ n < Len(stream)
      /\ rest = <<>> => n = Len(stream)
  BY <1>2, <1>3, <1>4, RestOfStream
<1>6. up' \in [Clients -> Seq(Units)] /\ up'[serving] = rest
  BY <1>3, <1>5, Types
<1>7. StreamsWhole'
  <2> SUFFICES ASSUME NEW c \in Clients PROVE Whole(up'[c], c \in left)
    BY DEF StreamsWhole, Whole
  <2>1. CASE c = serving
    BY <1>5, <1>6, <2>1
  <2>2. CASE c # serving
    BY <1>3, <2>2, Types DEF IInv, StreamsWhole
  <2> QED
    BY <2>1, <2>2
<1> QED
  BY <1>1, <1>3, <1>5, <1>6, <1>7

LEMMA AfterEnd ==
    ASSUME IInv, NEW n, AtEnd(n), UNCHANGED left
    PROVE  up' \in [Clients -> Seq(Units)] /\ StreamsWhole' /\ serving \in left
<1>1. up' = [up EXCEPT ![serving] = <<>>] /\ serving \in left
  BY DEF AtEnd
<1>2. up' \in [Clients -> Seq(Units)]
  BY <1>1, Types
<1>3. Whole(<<>>, TRUE)
  BY DEF Whole
<1>4. StreamsWhole'
  <2> SUFFICES ASSUME NEW c \in Clients PROVE Whole(up'[c], c \in left)
    BY DEF StreamsWhole, Whole
  <2>1. CASE c = serving
    BY <1>1, <1>3, <2>1, Types DEF Whole
  <2>2. CASE c # serving
    BY <1>1, <2>2, Types DEF IInv, StreamsWhole
  <2> QED
    BY <2>1, <2>2
<1> QED
  BY <1>1, <1>2, <1>4

LEMMA AfterSend ==
    ASSUME IInv, NEW units \in Seq(Units), ServerSends(units)
    PROVE  down' \in [Clients -> Seq(Units)] /\ reset' \subseteq left
<1>1. CASE serving \in left
  BY <1>1, Types DEF ServerSends
<1>2. CASE serving \notin left
  <2>1. PICK stream \in Seq(Units) : stream = down[serving]
    BY Types
  <2>2. stream \o units \in Seq(Units)
    OBVIOUS
  <2>3. down' = [down EXCEPT ![serving] = stream \o units] /\ reset' = reset
    BY <1>2, <2>1 DEF ServerSends
  <2> QED
    BY <2>2, <2>3, Types
<1> QED
  BY <1>1, <1>2

\* The steps that receive nothing.
LEMMA ServerMoves ==
    ASSUME IInv, UNCHANGED clientVars, troubles' \in 0..MaxTroubles,
           Accept \/ PutDone \/ ServerFails \/ ServerKilledSending
    PROVE  IInv'
<1> USE Types
<1>1. /\ UNCHANGED <<up, down, left, disk>> /\ reset' \subseteq left
      /\ splace' \in {"request", "hung", "killed"}
  BY DEF Accept, PutDone, ServerFails, ServerKilledSending, ioVars
<1>2. ServerTypeOK'
  <2>1. CASE Accept
    <3>1. backlog \in Seq(Clients) /\ MaxDescriptors \in Nat
      BY DescriptorAssumption DEF IInv, TypeOK, ServerTypeOK
    <3>2. CASE accepted < MaxDescriptors /\ backlog # <<>> /\ serving' = Head(backlog)
               /\ backlog' = Tail(backlog) /\ accepted' = accepted + 1 /\ UNCHANGED mishaps
      <4>1. serving' \in Clients /\ backlog' \in Seq(Clients)
        BY <3>1, <3>2, HeadTailProperties
      <4> QED
        BY <1>1, <2>1, <3>1, <3>2, <4>1
        DEF Accept, ioVars, IInv, TypeOK, ServerTypeOK, ServerPlaces
    <3>3. CASE mishaps' = mishaps \cup {<<"descriptors", serving>>}
               /\ UNCHANGED <<serving, backlog, accepted>>
      BY <1>1, <2>1, <3>3
      DEF Accept, ioVars, IInv, TypeOK, ServerTypeOK, ServerPlaces, MishapKinds
    <3> QED
      BY <2>1, <3>2, <3>3 DEF Accept
  <2>2. CASE PutDone \/ ServerFails \/ ServerKilledSending
    <3>1. UNCHANGED <<backlog, accepted, serving, sname, sleft, mishaps>>
      BY <2>2 DEF PutDone, ServerFails, ServerKilledSending
    <3> QED
      BY <1>1, <3>1 DEF IInv, TypeOK, ServerTypeOK, ServerPlaces
  <2> QED
    BY <2>1, <2>2
<1>3. StreamsWhole'
  BY <1>1 DEF IInv, StreamsWhole, Whole
<1>4. BodyComes'
  BY <1>1 DEF BodyComes, BodyAwaited
<1> QED
  BY <1>1, <1>2, <1>3, <1>4, ServerPart

\* A request is taken from the stream: if it needs a body, that comes.
LEMMA AfterRequest ==
    ASSUME IInv, NEW type, Request(type), UNCHANGED <<left, serving>>,
           \/ /\ type \in {"GET_REQUEST", "PUT_REQUEST"}
              /\ splace' \in {"getName", "putName"}
           \/ /\ type = "AUTH_REQUEST"
              /\ splace' = "auth"
           \/ splace' \in {"request", "hung"}
    PROVE  up' \in [Clients -> Seq(Units)] /\ StreamsWhole' /\ BodyComes'
<1>1. ServerReceives(1) /\ Head(up[serving]).type = type
  BY DEF Request
<1>2. /\ up' \in [Clients -> Seq(Units)]
      /\ StreamsWhole'
      /\ up'[serving] # <<>> => up'[serving][1] = up[serving][2] /\ 1 < Len(up[serving])
      /\ up'[serving] = <<>> => 1 = Len(up[serving])
      /\ Len(up[serving]) >= 1
  <2>1. UNCHANGED left /\ 1 \in Nat
    OBVIOUS
  <2>2. /\ up' \in [Clients -> Seq(Units)]
        /\ StreamsWhole'
        /\ up'[serving] # <<>> => up'[serving][1] = up[serving][1 + 1] /\ 1 < Len(up[serving])
        /\ up'[serving] = <<>> => 1 = Len(up[serving])
        /\ Len(up[serving]) >= 1
    BY <1>1, <2>1, AfterReceive
  <2> QED
    BY <2>2
<1>3. PICK stream \in Seq(Units) : stream = up[serving]
  BY Types
<1>4. 1 \in 1..Len(stream) /\ stream[1].type = type
  BY <1>1, <1>2, <1>3
<1>5. Whole(stream, serving \in left)
  BY <1>3, Types DEF IInv, StreamsWhole
<1>6. CASE splace' \in {"request", "hung"}
  BY <1>2, <1>6 DEF BodyComes, BodyAwaited
<1>7. CASE splace' \notin {"request", "hung"}
  <2>1. NeedsBody(stream[1])
    BY <1>4, <1>7 DEF NeedsBody
  <2>2. CASE up'[serving] = <<>>
    <3>1. serving \in left
      BY <1>2, <1>3, <1>4, <1>5, <2>1, <2>2 DEF Whole
    <3> QED
      BY <1>2, <2>2, <3>1 DEF BodyComes, BodyAwaited
  <2>3. CASE up'[serving] # <<>>
    <3>1. Follows(stream[1], stream[2])
      BY <1>2, <1>3, <1>4, <1>5, <2>3 DEF Whole
    <3>2. up'[serving][1] = stream[2]
      BY <1>2, <1>3, <2>3
    <3>3. CASE type \in {"GET_REQUEST", "PUT_REQUEST"} /\ splace' \in {"getName", "putName"}
      BY <1>2, <1>4, <2>3, <3>1, <3>2, <3>3 DEF Follows, BodyComes, BodyAwaited
    <3>4. CASE type = "AUTH_REQUEST" /\ splace' = "auth"
      BY <1>2, <1>4, <2>3, <3>1, <3>2, <3>4 DEF Follows, BodyComes, BodyAwaited
    <3> QED
      BY <1>7, <3>3, <3>4
  <2> QED
    BY <2>2, <2>3
<1> QED
  BY <1>2, <1>6, <1>7

\* The requests, and what is taken for one.
LEMMA ServerServes ==
    ASSUME IInv, UNCHANGED clientVars, troubles' \in 0..MaxTroubles,
           \/ ServeOpen \/ ServeQuit \/ ServeList
           \/ ServeBody("AUTH_REQUEST", "auth")
           \/ ServeBody("GET_REQUEST", "getName")
           \/ ServeBody("PUT_REQUEST", "putName")
           \/ WrongHeader
    PROVE  IInv'
<1> USE Types
<1>1. /\ UNCHANGED <<left, backlog, accepted, serving, disk, sname, sleft>>
      /\ splace' \in ServerPlaces
  BY DEF ServeOpen, ServeQuit, ServeList, ServeBody, WrongHeader, Request, sessionVars, ServerPlaces
<1>2. ServerTypeOK'
  <2>1. mishaps' \subseteq MishapKinds \X Clients
    <3>1. CASE UNCHANGED mishaps
      BY <3>1 DEF IInv, TypeOK, ServerTypeOK
    <3>2. CASE MishapOf("popen", 2)
      BY <3>2, CallMishap DEF MishapKinds
    <3> QED
      BY <3>1, <3>2 DEF ServeOpen, ServeQuit, ServeList, ServeBody, WrongHeader, sessionVars
  <2> QED
    BY <1>1, <2>1 DEF IInv, TypeOK, ServerTypeOK
<1>3. up' \in [Clients -> Seq(Units)] /\ StreamsWhole' /\ BodyComes'
  <2>1. CASE ServeOpen
    <3>1. Request("OPEN_CONN_REQUEST") /\ splace' = "request"
      BY <2>1 DEF ServeOpen, Request
    <3> QED
      BY <1>1, <3>1, AfterRequest
  <2>2. CASE ServeQuit
    <3>1. Request("QUIT_REQUEST") /\ splace' = "request"
      BY <2>2 DEF ServeQuit, Request
    <3> QED
      BY <1>1, <3>1, AfterRequest
  <2>3. CASE ServeList
    <3>1. Request("LIST_REQUEST") /\ splace' \in {"request", "hung"}
      BY <2>3 DEF ServeList, Request
    <3> QED
      BY <1>1, <3>1, AfterRequest
  <2>4. CASE ServeBody("AUTH_REQUEST", "auth")
    <3>1. Request("AUTH_REQUEST") /\ splace' = "auth"
      BY <2>4 DEF ServeBody
    <3> QED
      BY <1>1, <3>1, AfterRequest
  <2>5. CASE ServeBody("GET_REQUEST", "getName")
    <3>1. Request("GET_REQUEST") /\ splace' = "getName"
      BY <2>5 DEF ServeBody
    <3> QED
      BY <1>1, <3>1, AfterRequest
  <2>6. CASE ServeBody("PUT_REQUEST", "putName")
    <3>1. Request("PUT_REQUEST") /\ splace' = "putName"
      BY <2>6 DEF ServeBody
    <3> QED
      BY <1>1, <3>1, AfterRequest
  <2>7. CASE WrongHeader
    <3>1. ServerReceives(1) /\ splace' = "request"
      BY <2>7 DEF WrongHeader
    <3> QED
      BY <1>1, <3>1, AfterReceive DEF BodyComes, BodyAwaited
  <2> QED
    BY <2>1, <2>2, <2>3, <2>4, <2>5, <2>6, <2>7
<1>4. down' \in [Clients -> Seq(Units)] /\ reset' \subseteq left
  <2>1. PICK opened, ended, listing :
          /\ opened = get_header(1, "OPEN_CONN_REPLY", 0)
          /\ ended = get_header(UNUSED, "QUIT_REPLY", 0)
          /\ listing = get_header(UNUSED, "LIST_REPLY", 2)
    OBVIOUS
  <2>2. opened \in Units /\ ended \in Units /\ listing \in Units
    BY <2>1, UnitKinds DEF HeaderTypes
  <2>3. /\ <<opened>> \in Seq(Units) /\ <<ended>> \in Seq(Units)
        /\ <<listing, Body("listing", 0), Body("listing", 0)>> \in Seq(Units)
    BY <2>2, UnitKinds
  <2>4. CASE ServeOpen
    <3>1. ServerSends(<<opened>>)
      BY <2>1, <2>4 DEF ServeOpen
    <3> QED
      BY <2>3, <3>1, AfterSend
  <2>5. CASE ServeQuit
    <3>1. ServerSends(<<ended>>)
      BY <2>1, <2>5 DEF ServeQuit
    <3> QED
      BY <2>3, <3>1, AfterSend
  <2>6. CASE ServerSends(<<listing, Body("listing", 0), Body("listing", 0)>>)
    BY <2>3, <2>6, AfterSend
  <2>7. CASE UNCHANGED <<down, reset>>
    BY <2>7
  <2>8. ServeList => \/ ServerSends(<<listing, Body("listing", 0), Body("listing", 0)>>)
                     \/ UNCHANGED <<down, reset>>
    BY <2>1 DEF ServeList, ServerSendsNothing
  <2> QED
    BY <2>4, <2>5, <2>6, <2>7, <2>8 DEF ServeBody, WrongHeader, ServerSendsNothing
<1> QED
  BY <1>1, <1>2, <1>3, <1>4, ServerPart

LEMMA BodyTaken ==
    ASSUME IInv, ServerReceives(1)
    PROVE  /\ Head(up[serving]) \in Units
           /\ splace \in {"getName", "putName"} => Head(up[serving]).value \in Names
           /\ splace = "auth" => Head(up[serving]).value \in {0, 1}
<1>1. PICK stream \in Seq(Units) : stream = up[serving]
  BY Types
<1>2. Len(stream) >= 1 /\ stream # <<>> /\ Head(stream) = stream[1]
  BY <1>1 DEF ServerReceives
<1>3. stream[1] \in Units
  BY <1>2
<1>4. splace \in {"getName", "putName"} => stream[1] \in NameUnits
  BY <1>1, <1>2 DEF IInv, BodyComes, BodyAwaited
<1>5. splace = "auth" => stream[1] \in LoginUnits
  BY <1>1, <1>2 DEF IInv, BodyComes, BodyAwaited
<1>6. \A unit \in NameUnits : unit.value \in Names
  BY DEF NameUnits, Bodies
<1>7. \A unit \in LoginUnits : unit.value \in {0, 1}
  BY DEF LoginUnits, Bodies
<1> QED
  BY <1>1, <1>2, <1>3, <1>4, <1>5, <1>6, <1>7

LEMMA HeaderRead ==
    ASSUME NEW unit \in Units, NEW header \in AsHeader(unit) \cup NoHeader
    PROVE  header.length \in Nat
<1>1. \A h \in NoHeader : h.length \in Nat
  BY DEF NoHeader
<1>2. \A h \in Headers : h.length \in Nat
  BY DEF Headers
<1>3. unit \notin BodyUnits => unit \in Headers
  BY DEF Units
<1> QED
  BY <1>1, <1>2, <1>3 DEF AsHeader

LEMMA DiskChanged ==
    ASSUME IInv, NEW host \in Hosts, NEW name \in Names, NEW file \in Files,
           NEW there, there = [disk EXCEPT ![host][name] = file]
    PROVE  there \in [Hosts -> [Names -> Files]]
<1>1. disk \in [Hosts -> [Names -> Files]]
  BY Types
<1>2. PICK names \in [Names -> Files] : names = [disk[host] EXCEPT ![name] = file]
  BY <1>1
<1>3. there = [disk EXCEPT ![host] = names]
  BY <1>1, <1>2
<1> QED
  BY <1>1, <1>3

\* The bodies, and the end of the stream in place of one.
LEMMA ServerTakesBody ==
    ASSUME IInv, UNCHANGED clientVars, troubles' \in 0..MaxTroubles,
           ServeAuth \/ GetRefused \/ GetFile \/ PutName
    PROVE  IInv'
<1> USE Types
<1>1. /\ UNCHANGED <<left, backlog, accepted, serving, disk>>
      /\ splace' \in {"request", "getData", "putHeader"}
  BY DEF ServeAuth, GetRefused, GetFile, PutName, sessionVars
<1>2. ServerReceives(1) \/ AtEnd(1)
  BY DEF ServeAuth, GetRefused, GetFile, PutName
<1>3. up' \in [Clients -> Seq(Units)] /\ StreamsWhole'
  <2>1. UNCHANGED left /\ 1 \in Nat
    BY <1>1
  <2> QED
    BY <1>2, <2>1, AfterReceive, AfterEnd
<1>4. BodyComes'
  BY <1>1 DEF BodyComes, BodyAwaited
<1>5. CASE ServeAuth
  <2>1. ServerReceives(1) /\ splace = "auth"
    BY <1>5 DEF ServeAuth
  <2>2. PICK login \in {0, 1} : login = Head(up[serving]).value
    BY <2>1, BodyTaken
  <2>3. PICK answer : answer = get_header(login, "AUTH_REPLY", 0)
    OBVIOUS
  <2>4. <<answer>> \in Seq(Units)
    BY <2>3, UnitKinds DEF HeaderTypes
  <2>5. ServerSends(<<answer>>)
    BY <1>5, <2>2, <2>3 DEF ServeAuth
  <2>6. down' \in [Clients -> Seq(Units)] /\ reset' \subseteq left
    BY <2>4, <2>5, AfterSend
  <2>7. UNCHANGED <<mishaps, sname, sleft>>
    BY <1>5 DEF ServeAuth, sessionVars
  <2>8. ServerTypeOK'
    BY <1>1, <2>7 DEF IInv, TypeOK, ServerTypeOK, ServerPlaces
  <2> QED
    BY <1>1, <1>3, <1>4, <2>6, <2>8, ServerPart
<1>6. CASE GetRefused
  <2>1. PICK answer : answer = GetReply(0)
    OBVIOUS
  <2>2. answer \in Units
    BY <2>1, UnitKinds DEF GetReply, HeaderTypes
  <2>3. <<answer>> \in Seq(Units)
    BY <2>2
  <2>4. ServerSends(<<answer>>)
    BY <1>6, <2>1 DEF GetRefused
  <2>5. down' \in [Clients -> Seq(Units)] /\ reset' \subseteq left
    BY <2>3, <2>4, AfterSend
  <2>6. UNCHANGED <<mishaps, sname, sleft>>
    BY <1>6 DEF GetRefused, sessionVars
  <2>7. ServerTypeOK'
    BY <1>1, <2>6 DEF IInv, TypeOK, ServerTypeOK, ServerPlaces
  <2> QED
    BY <1>1, <1>3, <1>4, <2>5, <2>7, ServerPart
<1>7. CASE GetFile
  <2>1. ServerReceives(1) /\ splace = "getName" /\ sleft' = 0
    BY <1>7 DEF GetFile
  <2>2. PICK name \in Names : name = Head(up[serving]).value
    BY <2>1, BodyTaken
  <2>3. sname' = name
    BY <1>7, <2>2 DEF GetFile
  <2>4. PICK file \in Files : file = disk[Server][name]
    OBVIOUS
  <2>5. /\ file # Absent
        /\ ServerSends(<<GetReply(1), get_header(UNUSED, "FILE_DATA", file.size)>>)
        /\ mishaps' = IF file = Directory THEN mishaps \cup {<<"directory", serving>>} ELSE mishaps
    BY <1>7, <2>3, <2>4 DEF GetFile
  <2>6. PICK answer, header : answer = GetReply(1) /\ header = get_header(UNUSED, "FILE_DATA", file.size)
    OBVIOUS
  <2>7. answer \in Units
    BY <2>6, UnitKinds DEF GetReply, HeaderTypes
  <2>8. header \in Units
    BY <2>5, <2>6, UnitKinds, FileKinds DEF HeaderTypes
  <2>9. <<answer, header>> \in Seq(Units)
    BY <2>7, <2>8
  <2>10. down' \in [Clients -> Seq(Units)] /\ reset' \subseteq left
    BY <2>5, <2>6, <2>9, AfterSend
  <2>11. mishaps' \subseteq MishapKinds \X Clients
    BY <2>5 DEF IInv, TypeOK, ServerTypeOK, MishapKinds
  <2>12. ServerTypeOK'
    BY <1>1, <2>1, <2>3, <2>11 DEF IInv, TypeOK, ServerTypeOK, ServerPlaces
  <2> QED
    BY <1>1, <1>3, <1>4, <2>10, <2>12, ServerPart
<1>8. CASE PutName
  <2>1. ServerReceives(1) /\ splace = "putName" /\ UNCHANGED <<mishaps, sleft>>
    BY <1>8 DEF PutName, sessionVars
  <2>2. sname' \in Names
    BY <1>8, <2>1, BodyTaken DEF PutName
  <2>3. PICK answer : answer = PutReply
    OBVIOUS
  <2>4. <<answer>> \in Seq(Units)
    BY <2>3, UnitKinds DEF HeaderTypes, PutReply
  <2>5. ServerSends(<<answer>>)
    BY <1>8, <2>3 DEF PutName
  <2>6. down' \in [Clients -> Seq(Units)] /\ reset' \subseteq left
    BY <2>4, <2>5, AfterSend
  <2>7. ServerTypeOK'
    BY <1>1, <2>1, <2>2 DEF IInv, TypeOK, ServerTypeOK, ServerPlaces
  <2> QED
    BY <1>1, <1>3, <1>4, <2>6, <2>7, ServerPart
<1> QED
  BY <1>5, <1>6, <1>7, <1>8

\* The end of the stream where the server does not go on as if it had received.
LEMMA ServerEnds ==
    ASSUME IInv, UNCHANGED clientVars, troubles' \in 0..MaxTroubles,
           ClientGone \/ PutNoName \/ LoopAtEnd
    PROVE  IInv'
<1> USE Types
<1>1. /\ UNCHANGED <<left, down, reset, backlog, accepted, serving, mishaps, disk, sname, sleft>>
      /\ splace' \in {"accept", "hung", "killed"}
  BY DEF ClientGone, PutNoName, LoopAtEnd, sessionVars, ServerSendsNothing
<1>2. \E n : AtEnd(n)
  BY DEF ClientGone, PutNoName, LoopAtEnd
<1>3. up' \in [Clients -> Seq(Units)] /\ StreamsWhole'
  BY <1>1, <1>2, AfterEnd
<1>4. BodyComes'
  BY <1>1 DEF BodyComes, BodyAwaited
<1>5. ServerTypeOK'
  BY <1>1 DEF IInv, TypeOK, ServerTypeOK, ServerPlaces
<1> QED
  BY <1>1, <1>3, <1>4, <1>5, ServerPart

LEMMA ServerGets ==
    ASSUME IInv, UNCHANGED clientVars, troubles' \in 0..MaxTroubles, GetBlocks
    PROVE  IInv'
<1> USE Types
<1>1. /\ UNCHANGED <<left, up, backlog, accepted, serving, mishaps, disk, sname>>
      /\ splace = "getData"
  BY DEF GetBlocks, sessionVars
<1>2. PICK file \in Files : file = disk[Server][sname]
  OBVIOUS
<1>3. PICK blocks \in Seq(Blocks) : blocks = NextBlocks(file, sleft)
  BY <1>2, NextBlocksOf
<1>4. PICK units \in Seq(Units) : units = AsUnits(blocks)
  BY BlockStream
<1>5. \/ splace' = "request" /\ sleft' = 0 /\ UNCHANGED <<down, reset>>
      \/ ServerSends(units) /\ sleft' = sleft + Len(blocks) /\ splace' = "getData"
  BY <1>1, <1>2, <1>3, <1>4 DEF GetBlocks, ServerSendsNothing
<1>6. down' \in [Clients -> Seq(Units)] /\ reset' \subseteq left
  BY <1>5, AfterSend
<1>7. sleft' \in Nat /\ splace' \in {"request", "getData"}
  <2>1. Len(blocks) \in Nat
    OBVIOUS
  <2> QED
    BY <1>5, <2>1
<1>8. ServerTypeOK'
  BY <1>1, <1>7 DEF IInv, TypeOK, ServerTypeOK, ServerPlaces
<1>9. StreamsWhole'
  BY <1>1 DEF IInv, StreamsWhole, Whole
<1>10. BodyComes'
  BY <1>7 DEF BodyComes, BodyAwaited
<1> QED
  BY <1>1, <1>6, <1>8, <1>9, <1>10, ServerPart

LEMMA ServerOpensFile ==
    ASSUME IInv, UNCHANGED clientVars, troubles' \in 0..MaxTroubles, PutHeader
    PROVE  IInv'
<1> USE Types
<1>1. UNCHANGED <<left, backlog, accepted, serving, sname, down, reset>>
  BY DEF PutHeader, ServerSendsNothing
<1>2. ServerReceives(1) \/ AtEnd(1)
  BY DEF PutHeader
<1>3. up' \in [Clients -> Seq(Units)] /\ StreamsWhole'
  <2>1. UNCHANGED left /\ 1 \in Nat
    BY <1>1
  <2> QED
    BY <1>2, <2>1, AfterReceive, AfterEnd
<1>4. PICK header : header.length \in Nat /\ OpenForPut(header)
  <2>1. CASE ServerReceives(1) /\ \E header \in AsHeader(Head(up[serving])) : OpenForPut(header)
    <3>1. PICK unit \in Units : unit = Head(up[serving])
      BY <2>1, BodyTaken
    <3>2. PICK header \in AsHeader(unit) : OpenForPut(header)
      BY <2>1, <3>1
    <3> QED
      BY <3>2, HeaderRead
  <2>2. CASE \E header \in NoHeader : OpenForPut(header)
    <3>1. \A header \in NoHeader : header.length \in Nat
      BY DEF NoHeader
    <3> QED
      BY <2>2, <3>1
  <2> QED
    BY <2>1, <2>2 DEF PutHeader
<1>5. PICK empty \in Files : empty = Regular(<<>>)
  <2>1. <<>> \in Seq(Blocks)
    OBVIOUS
  <2> QED
    BY <2>1, FileKinds
<1>6. /\ sleft' = header.length
      /\ \/ splace' = "putNull" /\ UNCHANGED disk
         \/ splace' = "putData" /\ disk' = [disk EXCEPT ![Server][sname] = empty]
  BY <1>4, <1>5 DEF OpenForPut, Create
<1>7. disk' \in [Hosts -> [Names -> Files]]
  BY <1>6, DiskChanged
<1>8. splace' \in {"putNull", "putData"} /\ sleft' \in Nat
  BY <1>4, <1>6
<1>9. mishaps' \subseteq MishapKinds \X Clients
  <2>1. CASE UNCHANGED mishaps
    BY <2>1 DEF IInv, TypeOK, ServerTypeOK
  <2>2. CASE mishaps' = mishaps \cup {<<"directory", serving>>}
    BY <2>2, MishapNoted DEF MishapKinds
  <2>3. CASE MishapOf("fopen", 1)
    BY <2>3, CallMishap DEF MishapKinds
  <2> QED
    BY <1>4, <2>1, <2>2, <2>3 DEF OpenForPut
<1>10. ServerTypeOK'
  BY <1>1, <1>8, <1>9 DEF IInv, TypeOK, ServerTypeOK, ServerPlaces
<1>11. BodyComes'
  BY <1>8 DEF BodyComes, BodyAwaited
<1> QED
  BY <1>1, <1>3, <1>7, <1>10, <1>11, ServerPart

LEMMA ServerPuts ==
    ASSUME IInv, UNCHANGED clientVars, troubles' \in 0..MaxTroubles, PutBlocks
    PROVE  IInv'
<1> USE Types
<1>1. /\ UNCHANGED <<left, backlog, accepted, serving, mishaps, sname, down, reset, splace>>
      /\ splace = "putData" /\ sleft > 0
  BY DEF PutBlocks, sessionVars, ServerSendsNothing
<1>2. PICK n \in Nat : n = Chunk(sleft) /\ n <= sleft
  <2>1. Chunk(sleft) \in Nat /\ Chunk(sleft) <= sleft
    BY ChunkBounds
  <2> QED
    BY <2>1
<1>3. PICK blocks \in AsBlocks(SubSeq(up[serving], 1, n)) :
        /\ ServerReceives(n)
        /\ Write(Server, sname, blocks)
        /\ sleft' = sleft - n
  BY <1>2 DEF PutBlocks
<1>4. /\ up' \in [Clients -> Seq(Units)]
      /\ StreamsWhole'
      /\ Len(up[serving]) >= n
  BY <1>1, <1>3, AfterReceive
<1>5. PICK stream \in Seq(Units) : stream = up[serving]
  OBVIOUS
<1>6. PICK file \in Files : file = disk[Server][sname]
  OBVIOUS
<1>7. PICK longer \in Files : longer = Regular(file.blocks \o blocks)
  BY <1>3, <1>4, <1>5, WrittenBlocks
<1>8. disk' = [disk EXCEPT ![Server][sname] = longer]
  BY <1>3, <1>6, <1>7 DEF Write
<1>9. disk' \in [Hosts -> [Names -> Files]]
  BY <1>8, DiskChanged
<1>10. ServerTypeOK'
  BY <1>1, <1>2, <1>3 DEF IInv, TypeOK, ServerTypeOK
<1>11. BodyComes'
  BY <1>1 DEF BodyComes, BodyAwaited
<1> QED
  BY <1>1, <1>4, <1>9, <1>10, <1>11, ServerPart

\* The data for a null FILE pointer are received, and the process ends.
LEMMA ServerPutsNowhere ==
    ASSUME IInv, UNCHANGED clientVars, troubles' \in 0..MaxTroubles, PutNull
    PROVE  IInv'
<1> USE Types
<1>1. /\ UNCHANGED <<left, down, reset, backlog, accepted, serving, mishaps, disk, sname, sleft>>
      /\ splace' = "killed"
  BY DEF PutNull, sessionVars, ServerSendsNothing
<1>2. Chunk(sleft) \in Nat /\ ServerReceives(Chunk(sleft))
  BY ChunkBounds DEF PutNull
<1>3. up' \in [Clients -> Seq(Units)] /\ StreamsWhole'
  BY <1>1, <1>2, AfterReceive
<1>4. BodyComes'
  BY <1>1 DEF BodyComes, BodyAwaited
<1>5. ServerTypeOK'
  BY <1>1 DEF IInv, TypeOK, ServerTypeOK, ServerPlaces
<1> QED
  BY <1>1, <1>3, <1>4, <1>5, ServerPart

LEMMA ServerKeeps ==
    ASSUME IInv, ServerStep, UNCHANGED clientVars, troubles' \in 0..MaxTroubles
    PROVE  IInv'
BY ServerMoves, ServerServes, ServerTakesBody, ServerEnds, ServerGets, ServerOpensFile, ServerPuts,
   ServerPutsNowhere
DEF ServerStep
-----------------------------------------------------------------------------
\* The clients' steps.

\* What clients send is whole by itself.
LEMMA OneHeader ==
    ASSUME NEW type \in HeaderTypes, NEW length \in Nat, NEW gone,
           gone \/ type \notin {"GET_REQUEST", "PUT_REQUEST", "AUTH_REQUEST"},
           NEW units, units = <<get_header(UNUSED, type, length)>>
    PROVE  units \in Seq(Units) /\ Whole(units, gone)
<1>1. PICK header \in Units : header = get_header(UNUSED, type, length)
  BY UnitKinds
<1>2. header.type = type
  BY <1>1 DEF get_header
<1>3. units = <<header>>
  BY <1>1
<1> QED
  BY <1>2, <1>3 DEF Whole, NeedsBody

LEMMA HeaderAndBody ==
    ASSUME NEW type \in {"GET_REQUEST", "PUT_REQUEST", "AUTH_REQUEST"},
           NEW body \in IF type = "AUTH_REQUEST" THEN LoginUnits ELSE NameUnits,
           NEW units, units = <<get_header(UNUSED, type, 1), body>>
    PROVE  units \in Seq(Units) /\ Whole(units, FALSE)
<1>1. PICK header \in Units : header = get_header(UNUSED, type, 1)
  BY UnitKinds DEF HeaderTypes
<1>2. header.type = type
  BY <1>1 DEF get_header
<1>3. units = <<header, body>>
  BY <1>1
<1>4. body \in Units /\ body.type \in {"name", "login"}
  BY UnitKinds DEF NameUnits, LoginUnits, Bodies
<1>5. Follows(header, body) /\ ~NeedsBody(body)
  BY <1>2, <1>4 DEF Follows, NeedsBody
<1>6. units \in Seq(Units) /\ Len(units) = 2 /\ units[1] = header /\ units[2] = body
  BY <1>3, <1>4
<1> QED
  BY <1>5, <1>6 DEF Whole

\* A client that is there sends something, or nothing, and perhaps leaves.
LEMMA ClientStreams ==
    ASSUME IInv, NEW c \in Clients, c \notin left,
           NEW units \in Seq(Units), Whole(units, c \in left'),
           ClientSends(c, units) \/ UNCHANGED up,
           left' = left \/ left' = left \cup {c},
           UNCHANGED <<splace, serving>>
    PROVE  up' \in [Clients -> Seq(Units)] /\ StreamsWhole' /\ BodyComes'
<1> USE Types
<1>1. PICK stream \in Seq(Units) : stream = up[c]
  OBVIOUS
<1>2. Whole(stream, FALSE)
  BY <1>1 DEF IInv, StreamsWhole, Whole
<1>3. PICK longer : longer = stream \o units
  OBVIOUS
<1>4. /\ longer \in Seq(Units)
      /\ Whole(longer, c \in left')
      /\ stream # <<>> => longer # <<>> /\ longer[1] = stream[1]
  BY <1>2, <1>3, LongerStream
<1>5. up' = [up EXCEPT ![c] = longer] \/ up' = up
  BY <1>1, <1>3 DEF ClientSends
<1>6. PICK now \in Seq(Units) : now = up'[c]
  BY <1>4, <1>5
<1>7. Whole(now, c \in left')
  <2>1. CASE now = longer
    BY <1>4, <2>1
  <2>2. CASE now = stream
    BY <1>2, <2>2 DEF Whole
  <2> QED
    BY <1>1, <1>4, <1>5, <1>6, <2>1, <2>2
<1>8. up' \in [Clients -> Seq(Units)] /\ \A d \in Clients : d # c => up'[d] = up[d]
  BY <1>4, <1>5
<1>9. StreamsWhole'
  <2> SUFFICES ASSUME NEW d \in Clients PROVE Whole(up'[d], d \in left')
    BY DEF StreamsWhole, Whole
  <2>1. CASE d = c
    BY <1>6, <1>7, <2>1
  <2>2. CASE d # c
    <3>1. Whole(up[d], d \in left) /\ up'[d] = up[d]
      BY <1>8, <2>2 DEF IInv, StreamsWhole
    <3>2. d \in left <=> d \in left'
      BY <2>2
    <3> QED
      BY <3>1, <3>2 DEF Whole
  <2> QED
    BY <2>1, <2>2
<1>10. BodyComes'
  <2>1. CASE serving = c
    <3>1. BodyAwaited(stream, splace, FALSE)
      BY <1>1, <2>1 DEF IInv, BodyComes, BodyAwaited
    <3>2. stream # <<>> => now # <<>> /\ now[1] = stream[1]
      BY <1>1, <1>4, <1>5, <1>6
    <3>3. BodyAwaited(now, splace, c \in left')
      BY <3>1, <3>2 DEF BodyAwaited
    <3> QED
      BY <1>6, <2>1, <3>3 DEF BodyComes, BodyAwaited
  <2>2. CASE serving # c
    <3>1. up'[serving] = up[serving] /\ (serving \in left <=> serving \in left')
      BY <1>8, <2>2
    <3> QED
      BY <3>1 DEF IInv, BodyComes, BodyAwaited
  <2> QED
    BY <2>1, <2>2
<1> QED
  BY <1>8, <1>9, <1>10

LEMMA FileThere ==
    ASSUME IInv, NEW host \in Hosts, NEW name \in Names
    PROVE  disk[host][name] \in Files
BY Types

LEMMA TroubleTaken ==
    ASSUME IInv, Trouble
    PROVE  troubles' \in 0..MaxTroubles
<1>1. troubles \in 0..MaxTroubles /\ troubles > 0 /\ troubles' = troubles - 1
  BY DEF IInv, TypeOK, Trouble
<1> QED
  BY <1>1, TroublesAssumption

LEMMA TroublesCounted ==
    ASSUME IInv, Counted
    PROVE  troubles' \in 0..MaxTroubles
BY TroubleTaken DEF Counted, IInv, TypeOK

LEMMA ClientPart ==
    ASSUME IInv, NEW c \in Clients, NEW place \in ClientPlaces, GoTo(c, place),
           UNCHANGED <<splace, accepted, serving, sname, sleft>>,
           troubles' \in 0..MaxTroubles,
           backlog' = backlog \/ backlog' = Append(backlog, c),
           mishaps' = mishaps \/ \E kind \in MishapKinds : mishaps' = mishaps \cup {<<kind, c>>},
           up' \in [Clients -> Seq(Units)], StreamsWhole', BodyComes',
           down' \in [Clients -> Seq(Units)], disk' \in [Hosts -> [Names -> Files]],
           UNCHANGED <<left, reset>> \/ \E unread : Hangup(c, unread),
           c \notin left, place = "auth" => c \in clientfd,
           clientfd' = clientfd \/ clientfd' = clientfd \cup {c}, auth' \subseteq clientfd',
           cname' \in [Clients -> Names], cleft' \in [Clients -> Nat],
           announced' \in [Clients -> Nat], commands' \in 0..MaxCommands
    PROVE  IInv'
<1> USE Types
<1>1. cplace \in [Clients -> ClientPlaces] /\ clientfd \subseteq Clients
  BY DEF IInv, TypeOK, ClientTypeOK
<1>2. cplace' = [cplace EXCEPT ![c] = place]
  BY DEF GoTo
<1>3. ClientTypeOK'
  BY <1>1, <1>2 DEF ClientTypeOK
<1>4. ServerTypeOK'
  <2>1. backlog' \in Seq(Clients)
    <3>1. PICK queue \in Seq(Clients) : queue = backlog
      BY DEF IInv, TypeOK, ServerTypeOK
    <3>2. Append(queue, c) \in Seq(Clients)
      OBVIOUS
    <3> QED
      BY <3>1, <3>2
  <2>2. mishaps' \subseteq MishapKinds \X Clients
    <3>1. mishaps \subseteq MishapKinds \X Clients
      BY DEF IInv, TypeOK, ServerTypeOK
    <3>2. CASE \E kind \in MishapKinds : mishaps' = mishaps \cup {<<kind, c>>}
      BY <3>2, MishapNoted
    <3> QED
      BY <3>1, <3>2
  <2> QED
    BY <2>1, <2>2 DEF IInv, TypeOK, ServerTypeOK
<1>5. left' \subseteq Clients /\ reset' \subseteq left' /\ ClientsKnown'
  <2>1. CASE UNCHANGED <<left, reset>>
    <3>1. \A d \in left : d # c
      OBVIOUS
    <3>2. \A d \in Clients : d # c => cplace'[d] = cplace[d]
      BY <1>1, <1>2
    <3>3. cplace'[c] = place /\ clientfd \subseteq clientfd'
      BY <1>1, <1>2
    <3> QED
      BY <2>1, <3>1, <3>2, <3>3 DEF ClientsKnown, IInv
  <2>2. CASE \E unread : Hangup(c, unread)
    <3>1. left' = left \cup {c} /\ reset' \subseteq reset \cup {c} /\ cplace'[c] = "exited"
      BY <1>1, <2>2 DEF Hangup, GoTo
    <3>2. \A d \in Clients : d # c => cplace'[d] = cplace[d]
      BY <1>1, <1>2
    <3>3. clientfd \subseteq clientfd'
      OBVIOUS
    <3> QED
      BY <3>1, <3>2, <3>3 DEF ClientsKnown, IInv
  <2> QED
    BY <2>1, <2>2
<1> QED
  BY <1>3, <1>4, <1>5 DEF IInv, TypeOK, IoTypeOK

LEMMA ClientTypes ==
    ASSUME IInv
    PROVE  /\ cplace \in [Clients -> ClientPlaces]
           /\ clientfd \subseteq Clients /\ auth \subseteq clientfd
           /\ cname \in [Clients -> Names]
           /\ cleft \in [Clients -> Nat] /\ announced \in [Clients -> Nat]
           /\ commands \in 0..MaxCommands /\ troubles \in 0..MaxTroubles
           /\ \A c \in Clients : cplace[c] # "exited" => c \notin left
BY DEF IInv, TypeOK, ClientTypeOK, ClientsKnown

\* The steps of a client that send nothing.
LEMMA SilentClient ==
    ASSUME IInv, NEW c \in Clients, c \notin left,
           UNCHANGED <<left, reset>> \/ \E unread : Hangup(c, unread),
           UNCHANGED <<up, splace, serving>>
    PROVE  up' \in [Clients -> Seq(Units)] /\ StreamsWhole' /\ BodyComes'
<1>1. PICK none \in Seq(Units) : none = <<>>
  <2>1. <<>> \in Seq(Units)
    OBVIOUS
  <2> QED
    BY <2>1
<1>2. Whole(none, c \in left')
  BY <1>1 DEF Whole
<1>3. left' = left \/ left' = left \cup {c}
  BY DEF Hangup
<1> QED
  BY <1>2, <1>3, ClientStreams

\* The commands that send one header.
LEMMA ClientAsks ==
    ASSUME IInv, NEW c \in Clients, troubles' \in 0..MaxTroubles,
           Open(c) \/ List(c) \/ Quit(c)
    PROVE  IInv'
<1> USE Types, ClientTypes
<1>1. /\ cplace[c] = "prompt"
      /\ UNCHANGED <<down, left, reset, disk, splace, accepted, serving, sname, sleft, mishaps,
                     clientfd, auth, cname, cleft, announced, commands>>
      /\ backlog' = backlog \/ backlog' = Append(backlog, c)
  BY DEF Open, List, Quit, LoggedIn, Connected, othersVars
<1>2. PICK type \in {"OPEN_CONN_REQUEST", "LIST_REQUEST", "QUIT_REQUEST"},
           place \in {"open", "list", "quit"} :
        ClientSends(c, <<get_header(UNUSED, type, 0)>>) /\ GoTo(c, place)
  BY DEF Open, List, Quit
<1>3. PICK units : units = <<get_header(UNUSED, type, 0)>>
  OBVIOUS
<1>4. units \in Seq(Units) /\ Whole(units, c \in left')
  <2>1. type \in HeaderTypes /\ type \notin {"GET_REQUEST", "PUT_REQUEST", "AUTH_REQUEST"}
    BY DEF HeaderTypes
  <2> QED
    BY <1>3, <2>1, OneHeader
<1>5. ClientSends(c, units) /\ c \notin left /\ left' = left
  BY <1>1, <1>2, <1>3
<1>6. up' \in [Clients -> Seq(Units)] /\ StreamsWhole' /\ BodyComes'
  BY <1>1, <1>4, <1>5, ClientStreams
<1>7. place \in ClientPlaces /\ place # "auth"
  BY DEF ClientPlaces
<1> QED
  BY <1>1, <1>2, <1>5, <1>6, <1>7, ClientPart

\* getaddrinfo fails.
LEMMA ClientOpensNowhere ==
    ASSUME IInv, NEW c \in Clients, troubles' \in 0..MaxTroubles, OpenNowhere(c)
    PROVE  IInv'
<1> USE Types, ClientTypes
<1>1. /\ UNCHANGED <<up, down, left, reset, disk, splace, backlog, accepted, serving, sname, sleft,
                     clientfd, auth, cname, cleft, announced, commands>>
      /\ cplace[c] = "prompt" /\ GoTo(c, "hung")
      /\ mishaps' = mishaps \cup {<<"getaddrinfo", c>>}
  BY DEF OpenNowhere, ioVars, serverVars
<1>2. c \notin left
  BY <1>1
<1>3. up' \in [Clients -> Seq(Units)] /\ StreamsWhole' /\ BodyComes'
  BY <1>1, <1>2, SilentClient
<1>4. "hung" \in ClientPlaces /\ "getaddrinfo" \in MishapKinds
  BY DEF ClientPlaces, MishapKinds
<1> QED
  BY <1>1, <1>2, <1>3, <1>4, ClientPart

\* The commands that send a header and its body.
LEMMA ClientAsksMore ==
    ASSUME IInv, NEW c \in Clients, troubles' \in 0..MaxTroubles,
           \/ \E login \in {0, 1} : Auth(c, login)
           \/ \E name \in Names : Get(c, name) \/ Put(c, name)
    PROVE  IInv'
<1> USE Types, ClientTypes
<1>1. /\ cplace[c] = "prompt" /\ c \in clientfd
      /\ UNCHANGED <<down, left, reset, disk, splace, accepted, serving, sname, sleft, backlog,
                     clientfd, auth, cleft>>
  BY DEF Auth, Get, Put, Command, LoggedIn, Connected, othersVars
<1>2. PICK type \in {"GET_REQUEST", "PUT_REQUEST", "AUTH_REQUEST"},
           body \in LoginUnits \cup NameUnits,
           place \in {"auth", "get", "put"} :
        /\ body \in IF type = "AUTH_REQUEST" THEN LoginUnits ELSE NameUnits
        /\ ClientSends(c, <<get_header(UNUSED, type, 1), body>>)
        /\ GoTo(c, place)
  <2>1. CASE \E login \in {0, 1} : Auth(c, login)
    <3>1. PICK body \in LoginUnits :
            /\ ClientSends(c, <<get_header(UNUSED, "AUTH_REQUEST", 1), body>>)
            /\ GoTo(c, "auth")
      BY <2>1, UnitKinds DEF Auth
    <3> QED
      BY <3>1
  <2>2. CASE \E name \in Names : Get(c, name)
    <3>1. PICK body \in NameUnits :
            /\ ClientSends(c, <<get_header(UNUSED, "GET_REQUEST", 1), body>>)
            /\ GoTo(c, "get")
      BY <2>2, UnitKinds DEF Get
    <3> QED
      BY <3>1
  <2>3. CASE \E name \in Names : Put(c, name)
    <3>1. PICK body \in NameUnits :
            /\ ClientSends(c, <<get_header(UNUSED, "PUT_REQUEST", 1), body>>)
            /\ GoTo(c, "put")
      BY <2>3, UnitKinds DEF Put
    <3> QED
      BY <3>1
  <2> QED
    BY <2>1, <2>2, <2>3
<1>3. PICK units : units = <<get_header(UNUSED, type, 1), body>>
  OBVIOUS
<1>4. units \in Seq(Units) /\ Whole(units, FALSE)
  BY <1>2, <1>3, HeaderAndBody
<1>5. ClientSends(c, units) /\ c \notin left /\ left' = left /\ Whole(units, c \in left')
  BY <1>1, <1>2, <1>3, <1>4 DEF Whole
<1>6. up' \in [Clients -> Seq(Units)] /\ StreamsWhole' /\ BodyComes'
  BY <1>1, <1>4, <1>5, ClientStreams
<1>7. commands' \in 0..MaxCommands
  <2>1. commands' = commands \/ (commands > 0 /\ commands' = commands - 1)
    BY DEF Auth, Get, Put, Command
  <2> QED
    BY <2>1, CommandsAssumption
<1>8. place \in ClientPlaces
  BY DEF ClientPlaces
<1>9. cname' \in [Clients -> Names] /\ announced' \in [Clients -> Nat]
  <2>1. CASE \E name \in Names : Put(c, name)
    <3>1. PICK name \in Names : Put(c, name)
      BY <2>1
    <3>2. PICK file \in Files : file = disk[c][name]
      OBVIOUS
    <3>3. announced' = [announced EXCEPT ![c] = file.size] /\ cname' = [cname EXCEPT ![c] = name]
      BY <3>1, <3>2 DEF Put
    <3>4. file.size \in Nat
      BY <3>1, <3>2, FileKinds DEF Put
    <3> QED
      BY <3>3, <3>4
  <2>2. CASE \E name \in Names : Get(c, name)
    BY <2>2 DEF Get
  <2>3. CASE \E login \in {0, 1} : Auth(c, login)
    BY <2>3 DEF Auth
  <2> QED
    BY <2>1, <2>2, <2>3
<1>10. mishaps' = mishaps \/ \E kind \in MishapKinds : mishaps' = mishaps \cup {<<kind, c>>}
  BY DEF Auth, Get, Put, MishapKinds
<1> QED
  BY <1>1, <1>2, <1>5, <1>6, <1>7, <1>8, <1>9, <1>10, ClientPart

LEMMA ReplyTaken ==
    ASSUME IInv, NEW c \in Clients, NEW reply \in Replies(c),
           NEW place, place # "exited", Reply(c, place, reply)
    PROVE  /\ reply.header.length \in Nat
           /\ down' \in [Clients -> Seq(Units)]
           /\ cplace[c] = place /\ c \notin left
<1> USE Types, ClientTypes
<1>1. PICK stream \in Seq(Units) : stream = down[c]
  OBVIOUS
<1>2. reply.header.length \in Nat /\ reply.rest \in Seq(Units)
  <2>1. CASE stream # <<>>
    <3>1. PICK unit \in Units, rest \in Seq(Units) : unit = Head(stream) /\ rest = Tail(stream)
      BY <2>1, HeadAndTail
    <3>2. reply \in [header : AsHeader(unit), rest : {rest}]
      BY <1>1, <2>1, <3>1 DEF Replies
    <3>3. reply.header \in AsHeader(unit) /\ reply.rest = rest
      BY <3>2
    <3>4. PICK header \in AsHeader(unit) : header = reply.header
      BY <3>3
    <3>5. header.length \in Nat
      BY HeaderRead
    <3> QED
      BY <3>1, <3>3, <3>4, <3>5
  <2>2. CASE stream = <<>>
    <3>1. reply \in [header : NoHeader, rest : {<<>>}]
      BY <1>1, <2>2 DEF Replies
    <3>2. \A header \in NoHeader : header.length \in Nat
      BY DEF NoHeader
    <3>3. reply.header \in NoHeader /\ reply.rest = <<>>
      BY <3>1
    <3>4. <<>> \in Seq(Units)
      OBVIOUS
    <3> QED
      BY <3>2, <3>3, <3>4
  <2> QED
    BY <2>1, <2>2
<1>3. down' = [down EXCEPT ![c] = reply.rest] /\ cplace[c] = place
  BY DEF Reply
<1> QED
  BY <1>2, <1>3

LEMMA ClientIsAnswered ==
    ASSUME IInv, NEW c \in Clients, NEW reply \in Replies(c), troubles' \in 0..MaxTroubles,
           \/ OpenReply(c, reply) \/ AuthReply(c, reply) \/ ListReply(c, reply)
           \/ GetReplied(c, reply) \/ QuitReply(c, reply)
    PROVE  IInv'
<1> USE Types, ClientTypes
<1>1. PICK place \in {"open", "auth", "list", "get", "quit"} : Reply(c, place, reply)
  BY DEF OpenReply, AuthReply, ListReply, GetReplied, QuitReply
<1>2. /\ UNCHANGED <<splace, backlog, accepted, serving, sname, sleft, disk, mishaps,
                     cname, announced, commands, up>>
      /\ UNCHANGED <<left, reset>> \/ \E unread : Hangup(c, unread)
      /\ clientfd' = clientfd \/ clientfd' = clientfd \cup {c}
  BY DEF OpenReply, AuthReply, ListReply, GetReplied, QuitReply, replyVars, othersVars
<1>3. /\ reply.header.length \in Nat
      /\ down' \in [Clients -> Seq(Units)]
      /\ cplace[c] = place /\ c \notin left
  BY <1>1, ReplyTaken
<1>4. up' \in [Clients -> Seq(Units)] /\ StreamsWhole' /\ BodyComes'
  BY <1>2, <1>3, SilentClient
<1>5. PICK next \in {"prompt", "listData", "getHeader", "exited"} : GoTo(c, next)
  BY DEF OpenReply, AuthReply, ListReply, GetReplied, QuitReply, Hangup
<1>6. cleft' \in [Clients -> Nat]
  <2>1. cleft' = cleft \/ cleft' = [cleft EXCEPT ![c] = reply.header.length]
    BY DEF OpenReply, AuthReply, ListReply, GetReplied, QuitReply
  <2> QED
    BY <1>3, <2>1
<1>7. auth' \subseteq clientfd'
  <2>1. CASE AuthReply(c, reply)
    <3>1. cplace[c] = "auth" /\ clientfd' = clientfd /\ (auth' = auth \/ auth' = auth \cup {c})
      BY <2>1 DEF AuthReply, Reply
    <3>2. c \in clientfd
      BY <3>1 DEF IInv, ClientsKnown
    <3> QED
      BY <3>1, <3>2
  <2>2. CASE auth' = auth
    BY <1>2, <2>2
  <2> QED
    BY <2>1, <2>2 DEF OpenReply, ListReply, GetReplied, QuitReply
<1>8. next \in ClientPlaces /\ next # "auth"
  BY DEF ClientPlaces
<1> QED
  BY <1>2, <1>3, <1>4, <1>5, <1>6, <1>7, <1>8, ClientPart

LEMMA ClientOpensFile ==
    ASSUME IInv, NEW c \in Clients, NEW reply \in Replies(c), troubles' \in 0..MaxTroubles,
           GetHeader(c, reply)
    PROVE  IInv'
<1> USE Types, ClientTypes
<1>1. /\ Reply(c, "getHeader", reply)
      /\ UNCHANGED <<splace, backlog, accepted, serving, sname, sleft, up,
                     clientfd, auth, cname, announced, commands>>
      /\ UNCHANGED <<left, reset>>
  BY DEF GetHeader, othersVars
<1>2. /\ reply.header.length \in Nat
      /\ down' \in [Clients -> Seq(Units)]
      /\ c \notin left
  BY <1>1, ReplyTaken
<1>3. up' \in [Clients -> Seq(Units)] /\ StreamsWhole' /\ BodyComes'
  BY <1>1, <1>2, SilentClient
<1>4. PICK next \in {"getData", "getNull"} : GoTo(c, next)
  BY DEF GetHeader
<1>5. PICK empty \in Files : empty = Regular(<<>>)
  <2>1. <<>> \in Seq(Blocks)
    OBVIOUS
  <2> QED
    BY <2>1, FileKinds
<1>6. disk' \in [Hosts -> [Names -> Files]]
  <2>1. disk' = disk \/ disk' = [disk EXCEPT ![c][cname[c]] = empty]
    BY <1>5 DEF GetHeader, Create
  <2>2. c \in Hosts /\ cname[c] \in Names
    OBVIOUS
  <2> QED
    BY <2>1, <2>2, DiskChanged
<1>7. cleft' \in [Clients -> Nat]
  <2>1. cleft' = [cleft EXCEPT ![c] = reply.header.length]
    BY DEF GetHeader
  <2> QED
    BY <1>2, <2>1
<1>8. mishaps' = mishaps \/ \E kind \in MishapKinds : mishaps' = mishaps \cup {<<kind, c>>}
  BY DEF GetHeader, MishapKinds
<1>9. next \in ClientPlaces /\ next # "auth"
  BY DEF ClientPlaces
<1> QED
  BY <1>1, <1>2, <1>3, <1>4, <1>6, <1>7, <1>8, <1>9, ClientPart

\* The reply to Put, and the turns of its loop.
LEMMA ClientPuts ==
    ASSUME IInv, NEW c \in Clients, troubles' \in 0..MaxTroubles,
           (\E reply \in Replies(c) : PutReplied(c, reply)) \/ PutBlocksOf(c)
    PROVE  IInv'
<1> USE Types, ClientTypes
<1>1. UNCHANGED <<splace, backlog, accepted, serving, sname, sleft, left, reset, disk, mishaps,
                  clientfd, auth, cname, announced, commands>>
  BY DEF PutReplied, PutBlocksOf, replyVars, othersVars
<1>2. /\ down' \in [Clients -> Seq(Units)]
      /\ c \notin left
  <2>1. ASSUME NEW reply \in Replies(c), PutReplied(c, reply)
        PROVE  down' \in [Clients -> Seq(Units)] /\ c \notin left
    <3>1. Reply(c, "put", reply)
      BY <2>1 DEF PutReplied
    <3> QED
      BY <3>1, ReplyTaken
  <2>2. CASE PutBlocksOf(c)
    BY <2>2 DEF PutBlocksOf
  <2> QED
    BY <2>1, <2>2
<1>3. PICK file \in Files : file = disk[c][cname[c]]
  BY DEF Hosts
<1>4. PICK blocks \in Seq(Blocks) : blocks = NextBlocks(file, cleft[c])
  BY <1>3, NextBlocksOf
<1>5. PICK data \in Seq(Units) : data = AsUnits(blocks) /\ Whole(data, FALSE)
  BY BlockStream
<1>6. PICK header \in Seq(Units) :
        /\ header = <<get_header(UNUSED, "FILE_DATA", announced[c])>>
        /\ Whole(header, FALSE)
  <2>1. "FILE_DATA" \in HeaderTypes \ {"GET_REQUEST", "PUT_REQUEST", "AUTH_REQUEST"}
    BY DEF HeaderTypes
  <2> QED
    BY <2>1, OneHeader
<1>7. \/ ClientSends(c, header) \/ ClientSends(c, data) \/ UNCHANGED up
  BY <1>3, <1>4, <1>5, <1>6 DEF PutReplied, PutBlocksOf
<1>8. up' \in [Clients -> Seq(Units)] /\ StreamsWhole' /\ BodyComes'
  <2>1. PICK units \in {header, data} : ClientSends(c, units) \/ UNCHANGED up
    BY <1>7
  <2>2. units \in Seq(Units) /\ Whole(units, c \in left')
    BY <1>1, <1>2, <1>5, <1>6, <2>1 DEF Whole
  <2> QED
    BY <1>1, <1>2, <2>1, <2>2, ClientStreams
<1>9. cleft' \in [Clients -> Nat]
  <2>1. PICK n \in Nat : n = Len(blocks)
    <3>1. Len(blocks) \in Nat
      OBVIOUS
    <3> QED
      BY <3>1
  <2>2. CASE \E reply \in Replies(c) : PutReplied(c, reply)
    BY <2>2 DEF PutReplied
  <2>3. CASE PutBlocksOf(c)
    <3>1. \/ cleft' = [cleft EXCEPT ![c] = 0]
          \/ cleft' = [cleft EXCEPT ![c] = cleft[c] + n]
      BY <1>3, <1>4, <2>1, <2>3 DEF PutBlocksOf
    <3>2. [cleft EXCEPT ![c] = 0] \in [Clients -> Nat]
      OBVIOUS
    <3>3. [cleft EXCEPT ![c] = cleft[c] + n] \in [Clients -> Nat]
      BY LengthsChange
    <3> QED
      BY <3>1, <3>2, <3>3
  <2> QED
    BY <2>2, <2>3
<1>10. PICK next \in {"putData", "prompt"} : GoTo(c, next)
  <2>1. CASE \E reply \in Replies(c) : PutReplied(c, reply)
    BY <2>1 DEF PutReplied
  <2>2. CASE PutBlocksOf(c)
    <3>1. cplace[c] = "putData" /\ (cplace' = cplace \/ GoTo(c, "prompt"))
      BY <2>2 DEF PutBlocksOf
    <3>2. cplace = [cplace EXCEPT ![c] = "putData"]
      BY <3>1
    <3> QED
      BY <3>1, <3>2 DEF GoTo
  <2> QED
    BY <2>1, <2>2
<1>11. next \in ClientPlaces /\ next # "auth"
  BY DEF ClientPlaces
<1> QED
  BY <1>1, <1>2, <1>8, <1>9, <1>10, <1>11, ClientPart

\* One turn of the loops of List and Get.
LEMMA ClientReceives ==
    ASSUME IInv, NEW c \in Clients, troubles' \in 0..MaxTroubles,
           ListBlocks(c) \/ GetBlocksOf(c)
    PROVE  IInv'
<1> USE Types, ClientTypes
<1>1. PICK place \in {"listData", "getData"} : ReceiveChunk(c, place)
  BY DEF ListBlocks, GetBlocksOf
<1>2. /\ UNCHANGED <<splace, backlog, accepted, serving, sname, sleft, mishaps, up, left, reset,
                     cplace, clientfd, auth, cname, announced, commands>>
      /\ cplace[c] = place /\ cleft[c] > 0 /\ c \notin left
  BY <1>1 DEF ReceiveChunk, othersVars
<1>3. PICK n \in Nat : n = Chunk(cleft[c]) /\ n <= cleft[c]
  <2>1. cleft[c] \in Nat
    OBVIOUS
  <2>2. Chunk(cleft[c]) \in Nat /\ Chunk(cleft[c]) <= cleft[c]
    BY <2>1, ChunkBounds
  <2> QED
    BY <2>2
<1>4. PICK stream \in Seq(Units) : stream = down[c]
  OBVIOUS
<1>5. /\ Len(stream) >= n
      /\ down' = [down EXCEPT ![c] = SubSeq(stream, n + 1, Len(stream))]
      /\ cleft' = [cleft EXCEPT ![c] = cleft[c] - n]
  BY <1>1, <1>3, <1>4 DEF ReceiveChunk
<1>6. PICK rest \in Seq(Units) : rest = SubSeq(stream, n + 1, Len(stream))
  <2>1. Len(stream) \in Nat /\ \A i \in n + 1..Len(stream) : stream[i] \in Units
    OBVIOUS
  <2>2. SubSeq(stream, n + 1, Len(stream)) \in Seq(Units)
    BY <2>1, SubSeqProperties
  <2> QED
    BY <2>2
<1>7. down' \in [Clients -> Seq(Units)]
  BY <1>5, <1>6
<1>8. cleft' \in [Clients -> Nat]
  <2>1. [cleft EXCEPT ![c] = cleft[c] - n] \in [Clients -> Nat]
    BY <1>3, LengthsChange
  <2> QED
    BY <1>5, <2>1
<1>9. disk' \in [Hosts -> [Names -> Files]]
  <2>1. CASE ListBlocks(c)
    BY <2>1 DEF ListBlocks
  <2>2. CASE GetBlocksOf(c)
    <3>1. PICK blocks \in AsBlocks(SubSeq(stream, 1, n)) : Write(c, cname[c], blocks)
      BY <1>3, <1>4, <2>2 DEF GetBlocksOf
    <3>2. PICK name \in Names : name = cname[c]
      OBVIOUS
    <3>3. PICK file \in Files : file = disk[c][name]
      BY FileThere
    <3>4. PICK longer \in Files : longer = Regular(file.blocks \o blocks)
      BY <1>5, WrittenBlocks
    <3>5. disk' = [disk EXCEPT ![c][name] = longer]
      BY <3>1, <3>2, <3>3, <3>4 DEF Write
    <3>6. c \in Hosts
      OBVIOUS
    <3> QED
      BY <3>5, <3>6, DiskChanged
  <2> QED
    BY <2>1, <2>2
<1>10. up' \in [Clients -> Seq(Units)] /\ StreamsWhole' /\ BodyComes'
  BY <1>2, SilentClient
<1>11. GoTo(c, place)
  BY <1>2 DEF GoTo
<1>12. place \in ClientPlaces /\ place # "auth"
  BY DEF ClientPlaces
<1> QED
  BY <1>2, <1>7, <1>8, <1>9, <1>10, <1>11, <1>12, ClientPart

\* The first data for a null FILE pointer.
LEMMA ClientGetsNowhere ==
    ASSUME IInv, NEW c \in Clients, troubles' \in 0..MaxTroubles, GetNull(c)
    PROVE  IInv'
<1> USE Types, ClientTypes
<1>1. /\ UNCHANGED <<splace, backlog, accepted, serving, sname, sleft, mishaps, up, disk,
                     clientfd, auth, cname, cleft, announced, commands>>
      /\ cplace[c] = "getNull"
  BY DEF GetNull, othersVars
<1>2. c \notin left
  BY <1>1
<1>3. PICK n \in Nat : n = Chunk(cleft[c])
  <2>1. cleft[c] \in Nat
    OBVIOUS
  <2> QED
    BY <2>1, ChunkBounds
<1>4. PICK stream \in Seq(Units) : stream = down[c]
  OBVIOUS
<1>5. PICK rest \in Seq(Units) : rest = SubSeq(stream, n + 1, Len(stream))
  <2>1. Len(stream) \in Nat /\ \A i \in n + 1..Len(stream) : stream[i] \in Units
    OBVIOUS
  <2>2. SubSeq(stream, n + 1, Len(stream)) \in Seq(Units)
    BY <2>1, SubSeqProperties
  <2> QED
    BY <2>2
<1>6. down' = [down EXCEPT ![c] = rest] /\ Hangup(c, rest)
  BY <1>3, <1>4, <1>5 DEF GetNull
<1>7. down' \in [Clients -> Seq(Units)]
  BY <1>6
<1>8. up' \in [Clients -> Seq(Units)] /\ StreamsWhole' /\ BodyComes'
  BY <1>1, <1>2, <1>6, SilentClient
<1>9. GoTo(c, "exited") /\ "exited" \in ClientPlaces
  BY <1>6 DEF Hangup, ClientPlaces
<1> QED
  BY <1>1, <1>2, <1>6, <1>7, <1>8, <1>9, ClientPart

\* A command ends, or the client does.
LEMMA ClientReturns ==
    ASSUME IInv, NEW c \in Clients, troubles' \in 0..MaxTroubles,
           TransferDone(c) \/ LeaveAtPrompt(c) \/ ClientFails(c)
    PROVE  IInv'
<1> USE Types, ClientTypes
<1>1. /\ UNCHANGED <<splace, backlog, accepted, serving, sname, sleft, mishaps, up, down, disk,
                     clientfd, auth, cname, cleft, announced, commands>>
      /\ UNCHANGED <<left, reset>> \/ \E unread : Hangup(c, unread)
  BY DEF TransferDone, LeaveAtPrompt, ClientFails, othersVars, serverVars, ioVars
<1>2. c \notin left
  BY DEF TransferDone, LeaveAtPrompt, ClientFails
<1>3. PICK next \in {"prompt", "exited", "hung"} : GoTo(c, next)
  BY DEF TransferDone, LeaveAtPrompt, ClientFails, Hangup
<1>4. up' \in [Clients -> Seq(Units)] /\ StreamsWhole' /\ BodyComes'
  BY <1>1, <1>2, SilentClient
<1>5. next \in ClientPlaces /\ next # "auth"
  BY DEF ClientPlaces
<1> QED
  BY <1>1, <1>2, <1>3, <1>4, <1>5, ClientPart

LEMMA ClientKeeps ==
    ASSUME IInv, NEW c \in Clients, ClientStep(c), troubles' \in 0..MaxTroubles
    PROVE  IInv'
<1>1. CASE Open(c) \/ List(c) \/ Quit(c)
  BY <1>1, ClientAsks
<1>2. CASE \/ \E login \in {0, 1} : Auth(c, login)
           \/ \E name \in Names : Get(c, name) \/ Put(c, name)
  BY <1>2, ClientAsksMore
<1>3. ASSUME NEW reply \in Replies(c),
             \/ OpenReply(c, reply) \/ AuthReply(c, reply) \/ ListReply(c, reply)
             \/ GetReplied(c, reply) \/ QuitReply(c, reply)
      PROVE  IInv'
  BY <1>3, ClientIsAnswered
<1>4. ASSUME NEW reply \in Replies(c), GetHeader(c, reply)
      PROVE  IInv'
  BY <1>4, ClientOpensFile
<1>5. ASSUME NEW reply \in Replies(c), PutReplied(c, reply)
      PROVE  IInv'
  BY <1>5, ClientPuts
<1>6. CASE PutBlocksOf(c)
  BY <1>6, ClientPuts
<1>7. CASE ListBlocks(c) \/ GetBlocksOf(c)
  BY <1>7, ClientReceives
<1>8. CASE TransferDone(c) \/ LeaveAtPrompt(c) \/ ClientFails(c)
  BY <1>8, ClientReturns
<1>9. CASE OpenNowhere(c)
  BY <1>9, ClientOpensNowhere
<1>10. CASE GetNull(c)
  BY <1>10, ClientGetsNowhere
<1> QED
  BY <1>1, <1>2, <1>3, <1>4, <1>5, <1>6, <1>7, <1>8, <1>9, <1>10 DEF ClientStep

\* A client that dies may leave a request without its body, which is then the last.
LEMMA DeathKeeps ==
    ASSUME IInv, NEW c \in Clients, ClientDies(c), Trouble
    PROVE  IInv'
<1> USE Types, ClientTypes
<1>1. /\ UNCHANGED <<splace, backlog, accepted, serving, sname, sleft, down, disk,
                     clientfd, auth, cname, cleft, announced, commands>>
      /\ \E unread : Hangup(c, unread)
      /\ left' = left \cup {c} /\ GoTo(c, "exited")
  BY DEF ClientDies, othersVars, Hangup
<1>2. c \notin left
  BY DEF ClientDies, Connected, LoggedIn
<1>3. up' \in [Clients -> Seq(Units)] /\ StreamsWhole' /\ BodyComes'
  <2>1. CASE UNCHANGED up
    BY <1>1, <1>2, <2>1, SilentClient
  <2>2. CASE \E type \in {"AUTH_REQUEST", "GET_REQUEST", "PUT_REQUEST"} :
               ClientSends(c, <<get_header(UNUSED, type, 1)>>)
    <3>1. PICK type \in {"AUTH_REQUEST", "GET_REQUEST", "PUT_REQUEST"} :
            ClientSends(c, <<get_header(UNUSED, type, 1)>>)
      BY <2>2
    <3>2. PICK units : units = <<get_header(UNUSED, type, 1)>>
      OBVIOUS
    <3>3. units \in Seq(Units) /\ Whole(units, TRUE)
      BY <3>2, OneHeader DEF HeaderTypes
    <3>4. Whole(units, c \in left') /\ ClientSends(c, units)
      BY <1>1, <3>1, <3>2, <3>3
    <3> QED
      BY <1>1, <1>2, <3>3, <3>4, ClientStreams
  <2> QED
    BY <2>1, <2>2 DEF ClientDies
<1>4. \E kind \in MishapKinds : mishaps' = mishaps \cup {<<kind, c>>}
  <2>1. mishaps' = mishaps \cup {<<"died", c>>}
    BY DEF ClientDies
  <2>2. "died" \in MishapKinds
    BY DEF MishapKinds
  <2> QED
    BY <2>1, <2>2
<1>5. troubles' \in 0..MaxTroubles
  BY TroubleTaken
<1>6. "exited" \in ClientPlaces
  BY DEF ClientPlaces
<1> QED
  BY <1>1, <1>2, <1>3, <1>4, <1>5, <1>6, ClientPart

LEMMA EditKeeps ==
    ASSUME IInv, NEW host \in Hosts, NEW name \in Names, Edit(host, name)
    PROVE  IInv'
<1> USE Types
<1>1. UNCHANGED <<up, down, left, reset, serverVars, clientVars>>
  BY DEF Edit
<1>2. PICK file \in Files : file = disk[host][name]
  OBVIOUS
<1>3. PICK blocks \in Seq(Blocks) : blocks = file.blocks
  BY FileKinds
<1>4. PICK edited \in Seq(Blocks) : disk' = [disk EXCEPT ![host][name] = Regular(edited)]
  <2>1. CASE \E block \in Blocks :
               disk' = [disk EXCEPT ![host][name] = Regular(Append(blocks, block))]
    <3>1. \A block \in Blocks : Append(blocks, block) \in Seq(Blocks)
      BY AppendProperties
    <3> QED
      BY <2>1, <3>1
  <2>2. CASE disk' = [disk EXCEPT ![host][name] = Regular(SubSeq(blocks, 1, Len(blocks) - 1))]
    <3>1. Len(blocks) \in Nat /\ \A i \in 1..Len(blocks) - 1 : blocks[i] \in Blocks
      OBVIOUS
    <3>2. SubSeq(blocks, 1, Len(blocks) - 1) \in Seq(Blocks)
      BY <3>1, SubSeqProperties
    <3> QED
      BY <2>2, <3>2
  <2> QED
    BY <1>2, <1>3, <2>1, <2>2 DEF Edit
<1>5. PICK longer \in Files : disk' = [disk EXCEPT ![host][name] = longer]
  BY <1>4, FileKinds
<1>6. disk' \in [Hosts -> [Names -> Files]]
  BY <1>5, DiskChanged
<1>7. IoTypeOK'
  BY <1>1, <1>6 DEF IInv, TypeOK, IoTypeOK
<1>8. ServerTypeOK'
  <2>1. mishaps' \subseteq MishapKinds \X Clients
    BY DEF Edit, IInv, TypeOK, ServerTypeOK, MishapKinds
  <2> QED
    BY <1>1, <2>1 DEF serverVars, IInv, TypeOK, ServerTypeOK
<1>9. ClientTypeOK'
  BY <1>1 DEF clientVars, IInv, TypeOK, ClientTypeOK
<1>10. troubles' \in 0..MaxTroubles
  BY TroublesAssumption DEF Edit, Trouble, IInv, TypeOK
<1>11. StreamsWhole' /\ BodyComes'
  BY <1>1 DEF serverVars, IInv, StreamsWhole, BodyComes, BodyAwaited, Whole
<1>12. ClientsKnown'
  BY <1>1 DEF clientVars, IInv, ClientsKnown
<1> QED
  BY <1>7, <1>8, <1>9, <1>10, <1>11, <1>12 DEF IInv, TypeOK

-----------------------------------------------------------------------------
\* The invariant.

LEMMA StartsWell == Init => IInv
<1> SUFFICES ASSUME Init PROVE IInv
  OBVIOUS
<1>1. IoTypeOK
  BY FtpAssumption DEF Init, IoInit, IoTypeOK
<1>2. ServerTypeOK
  <2>1. serving \in Clients /\ sname \in Names
    BY FtpAssumption DEF Init, ServerInit
  <2>2. backlog \in Seq(Clients) /\ accepted \in 0..MaxDescriptors
    BY DescriptorAssumption DEF Init, ServerInit
  <2> QED
    BY <2>1, <2>2 DEF Init, ServerInit, ServerTypeOK, ServerPlaces
<1>3. ClientTypeOK
  <2>1. (CHOOSE name \in Names : TRUE) \in Names
    BY FtpAssumption
  <2> QED
    BY <2>1, CommandsAssumption DEF Init, ClientInit, ClientTypeOK, ClientPlaces
<1>4. troubles \in 0..MaxTroubles
  BY TroublesAssumption DEF Init
<1>5. StreamsWhole /\ BodyComes
  BY DEF Init, IoInit, ServerInit, StreamsWhole, Whole, BodyComes, BodyAwaited
<1>6. ClientsKnown
  BY DEF Init, IoInit, ClientInit, ClientsKnown
<1> QED
  BY <1>1, <1>2, <1>3, <1>4, <1>5, <1>6 DEF IInv, TypeOK

LEMMA Step == IInv /\ [Next]_vars => IInv'
<1> SUFFICES ASSUME IInv, [Next]_vars PROVE IInv'
  OBVIOUS
<1>1. CASE ServerStep /\ UNCHANGED clientVars /\ Counted
  BY <1>1, ServerKeeps, TroublesCounted
<1>2. ASSUME NEW c \in Clients, ClientStep(c) /\ Counted
      PROVE  IInv'
  BY <1>2, ClientKeeps, TroublesCounted
<1>3. ASSUME NEW c \in Clients, ClientDies(c) /\ Trouble
      PROVE  IInv'
  BY <1>3, DeathKeeps
<1>4. ASSUME NEW host \in Hosts, NEW name \in Names, Edit(host, name)
      PROVE  IInv'
  BY <1>4, EditKeeps
<1>5. CASE UNCHANGED vars
  BY <1>5 DEF vars, ioVars, serverVars, clientVars, IInv, TypeOK, IoTypeOK, ServerTypeOK,
     ClientTypeOK, StreamsWhole, Whole, BodyComes, BodyAwaited, ClientsKnown
<1> QED
  BY <1>1, <1>2, <1>3, <1>4, <1>5 DEF Next

\* The streams stay whole through every step of the server, the clients, those
\* that die and those that change files.
THEOREM Invariance == Spec => []IInv
BY StartsWell, Step, PTL DEF Spec

\* Streams, places, files and lengths are what they are taken for, for all
\* clients, names and bounds: a length read from any unit, meant as a header or
\* not, never makes a loop count below zero.
THEOREM Typing == Spec => []TypeOK
<1>1. IInv => TypeOK
  BY DEF IInv
<1> QED
  BY <1>1, Invariance, PTL

\* Where the server waits for a name or a login it gets just that, or the stream
\* is at its end because the client has gone: whatever mishaps came before, with
\* this client or with others, Get and Put never open a file named by something
\* else, and Auth never takes something else for a login.
THEOREM NamesAreNames == Spec => []BodyComes
<1>1. IInv => BodyComes
  BY DEF IInv
<1> QED
  BY <1>1, Invariance, PTL
=============================================================================
