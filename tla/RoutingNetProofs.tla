-------------------------- MODULE RoutingNetProofs --------------------------
(***************************************************************************)
(* Proofs about RoutingNet, for every network of routers, every sequence   *)
(* of costs its links are told and every order of vectors and changes.     *)
(***************************************************************************)
EXTENDS RoutingNet, SequenceTheorems, WellFoundedInduction, TLAPS

Tables == [{Self} \cup LinkPorts -> Vectors]

Structure ==
    /\ told \in [Ends -> Nat]
    /\ DOMAIN portToRouter = Routers

\* A port's value is one that its end of the link has been told.
ValuesAreCosts ==
    \A r \in Routers, port \in LinkPorts :
        portValueTable[r][port] # Unknown =>
            /\ <<r, port>> \in Ends
            /\ \E i \in DOMAIN Costs[<<r, port>>] :
                 portValueTable[r][port] = Costs[<<r, port>>][i]

TypeInv == TypeOK /\ Structure /\ ValuesAreCosts

\* The distances of router r that a vector knows are not below the bound.
AtLeast(vector, bound, r) ==
    \A d \in Routers : vector[d] # Unknown => vector[d] >= bound[r, d]

\* The bound holds in the routers' own vectors, ...
OwnAtLeast(bound) ==
    \A r \in Routers : AtLeast(DistanceVectorTable[r][Self], bound, r)

\* ... in what they keep of their neighbours, ...
KeptAtLeast(bound) ==
    \A end \in Ends :
        AtLeast(DistanceVectorTable[end[1]][end[2]], bound, Link[end][1])

\* ... and in the vectors under way.
SentAtLeast(bound) ==
    \A end \in Ends : \A i \in 1..Len(wire[end]) :
        AtLeast(wire[end][i], bound, Link[end][1])

BoundInv(bound) == OwnAtLeast(bound) /\ KeptAtLeast(bound) /\ SentAtLeast(bound)

-----------------------------------------------------------------------------
\* Both ends of a link are ports of routers.
LEMMA LinkEnds ==
    ASSUME NEW end \in Ends
    PROVE  /\ end[1] \in Routers /\ end[2] \in LinkPorts /\ end = <<end[1], end[2]>>
           /\ Link[end] \in Ends /\ Link[end][1] \in Routers
           /\ Link[end][1] # end[1]
BY RoutingNetAssumption

LEMMA CostsTold ==
    ASSUME NEW end \in Ends
    PROVE  /\ Len(Costs[end]) \in Nat \ {0}
           /\ DOMAIN Costs[end] = 1..Len(Costs[end])
           /\ \A i \in 1..Len(Costs[end]) : Costs[end][i] \in Nat \cup {Unknown}
<1>1. Costs[end] \in Seq(Nat \cup {Unknown}) /\ Costs[end] # <<>>
  BY RoutingNetAssumption
<1> QED
  BY <1>1

-----------------------------------------------------------------------------
\* One router.

\* A set of numbers that is not empty has a least element.
LEMMA MinOf ==
    ASSUME NEW S \in SUBSET Nat, S # {}
    PROVE  Min(S) \in S /\ \A y \in S : Min(S) <= y
<1>1. PICK R : R = OpToRel(<, Nat)
  OBVIOUS
<1>2. IsWellFoundedOn(R, Nat)
  BY <1>1, NatLessThanWellFounded
<1>3. S \subseteq Nat
  OBVIOUS
<1>4. PICK x \in S : \A y \in S : ~(<<y, x>> \in R)
  BY <1>2, <1>3, WFMin
<1>5. R = {ss \in Nat \X Nat : ss[1] < ss[2]}
  BY <1>1 DEF OpToRel
<1>6. \A y \in S : x <= y
  <2> SUFFICES ASSUME NEW y \in S PROVE x <= y
    OBVIOUS
  <2>1. x \in Nat /\ y \in Nat
    BY <1>3
  <2>2. ~(y < x)
    BY <1>4, <1>5, <2>1
  <2> QED
    BY <2>1, <2>2
<1> QED
  BY <1>6 DEF Min

LEMMA DistanceOfferedOrInfinite ==
    ASSUME NEW table \in Tables, NEW values \in [LinkPorts -> Nat \cup {Unknown}],
           NEW r \in Routers
    PROVE  /\ minDist(table, values, r) \in Nat
           /\ minDist(table, values, r) # Infinity =>
                \E port \in LinkPorts :
                    /\ values[port] >= 0 /\ table[port][r] >= 0
                    /\ minDist(table, values, r) = values[port] + table[port][r]
<1> DEFINE S == {Infinity} \cup Offers(table, values, r)
<1>1. \A port \in LinkPorts : table[port][r] \in Nat \cup {Unknown}
  BY DEF Tables, Vectors
<1>2. S \in SUBSET Nat
  BY <1>1, RouterAssumption DEF Offers, Unknown
<1>3. Min(S) \in S
  BY <1>2, MinOf
<1> QED
  BY <1>2, <1>3 DEF minDist, Offers

\* A router's own distance is the old one or one that a neighbour offers; the
\* neighbours' vectors stay.
LEMMA UpdatedTable ==
    ASSUME NEW table \in Tables, NEW values \in [LinkPorts -> Nat \cup {Unknown}],
           NEW dests
    PROVE  /\ Updated(table, values, dests) \in Tables
           /\ \A port \in LinkPorts : Updated(table, values, dests)[port] = table[port]
           /\ \A d \in Routers \ dests :
                Updated(table, values, dests)[Self][d] = table[Self][d]
           /\ \A d \in Routers :
                \/ Updated(table, values, dests)[Self][d] = table[Self][d]
                \/ \E port \in LinkPorts :
                     /\ values[port] >= 0 /\ table[port][d] >= 0
                     /\ Updated(table, values, dests)[Self][d] = values[port] + table[port][d]
<1>1. PICK own : own = [d \in Routers |->
                          IF d \in dests /\ minDist(table, values, d) # Infinity
                          THEN minDist(table, values, d) ELSE table[Self][d]]
  OBVIOUS
<1>2. Updated(table, values, dests) = [table EXCEPT ![Self] = own]
  BY <1>1 DEF Updated, Tables
<1>3. table[Self] \in Vectors
  BY DEF Tables
<1>4. own \in Vectors
  BY <1>1, <1>3, DistanceOfferedOrInfinite DEF Vectors
<1>5. Self \notin LinkPorts
  BY RouterAssumption DEF Self
<1>6. /\ Updated(table, values, dests) \in Tables
      /\ Updated(table, values, dests)[Self] = own
      /\ \A port \in LinkPorts : Updated(table, values, dests)[port] = table[port]
  BY <1>2, <1>4, <1>5 DEF Tables
<1>7. \A d \in Routers \ dests : own[d] = table[Self][d]
  BY <1>1
<1>8. ASSUME NEW d \in Routers, own[d] # table[Self][d]
      PROVE  \E port \in LinkPorts :
                /\ values[port] >= 0 /\ table[port][d] >= 0
                /\ own[d] = values[port] + table[port][d]
  <2>1. own[d] = minDist(table, values, d) /\ minDist(table, values, d) # Infinity
    BY <1>1, <1>8
  <2> QED
    BY <2>1, DistanceOfferedOrInfinite
<1> QED
  BY <1>6, <1>7, <1>8

\* What the neighbours offer is not below a bound that obeys the costs.
LEMMA UpdatedAtLeast ==
    ASSUME NEW bound, BelowEveryWay(bound), NEW r \in Routers,
           NEW table \in Tables, NEW values \in [LinkPorts -> Nat \cup {Unknown}],
           NEW dests,
           AtLeast(table[Self], bound, r),
           \A port \in LinkPorts : <<r, port>> \in Ends =>
                AtLeast(table[port], bound, Link[<<r, port>>][1]),
           \A port \in LinkPorts : values[port] # Unknown =>
                /\ <<r, port>> \in Ends
                /\ \E i \in DOMAIN Costs[<<r, port>>] : values[port] = Costs[<<r, port>>][i]
    PROVE  AtLeast(Updated(table, values, dests)[Self], bound, r)
<1> SUFFICES ASSUME NEW d \in Routers,
                    Updated(table, values, dests)[Self][d] # table[Self][d]
             PROVE  Updated(table, values, dests)[Self][d] >= bound[r, d]
  BY DEF AtLeast
<1>1. PICK port \in LinkPorts :
        /\ values[port] >= 0 /\ table[port][d] >= 0
        /\ Updated(table, values, dests)[Self][d] = values[port] + table[port][d]
  BY UpdatedTable
<1>2. values[port] # Unknown /\ table[port][d] # Unknown
  BY <1>1 DEF Unknown
<1>3. /\ <<r, port>> \in Ends
      /\ table[port][d] >= bound[Link[<<r, port>>][1], d]
  BY <1>2 DEF AtLeast
<1>4. bound[r, d] <= values[port] + bound[Link[<<r, port>>][1], d]
  BY <1>2, <1>3 DEF BelowEveryWay
<1>5. Link[<<r, port>>][1] \in Routers
  BY <1>3, LinkEnds
<1>6. bound[r, d] \in Nat /\ bound[Link[<<r, port>>][1], d] \in Nat
  BY <1>5 DEF BelowEveryWay
<1>7. values[port] \in Nat /\ table[port][d] \in Nat
  BY <1>2 DEF Tables, Vectors
<1>8. PICK cost, offered, above, below :
        /\ cost = values[port] /\ offered = table[port][d]
        /\ above = bound[Link[<<r, port>>][1], d] /\ below = bound[r, d]
  OBVIOUS
<1>9. cost + offered >= below
  <2>1. cost \in Nat /\ offered \in Nat
    BY <1>7, <1>8
  <2>2. above \in Nat /\ below \in Nat
    BY <1>6, <1>8
  <2>3. offered >= above
    BY <1>3, <1>8
  <2>4. below <= cost + above
    BY <1>4, <1>8
  <2> QED
    BY <2>1, <2>2, <2>3, <2>4
<1> QED
  BY <1>1, <1>8, <1>9

-----------------------------------------------------------------------------
\* Types, and the values of ports.

LEMMA InitType == Init => TypeInv
<1> SUFFICES ASSUME Init PROVE TypeInv
  OBVIOUS
<1> USE DEF Init
<1>1. \A r \in Routers : InitialTable(r) \in Tables /\ InitialTable(r)[Self][r] = 0
  BY DEF InitialTable, Tables, Vectors, Self
<1>2. \A end \in Ends : Costs[end][1] \in Nat \cup {Unknown} /\ 1 \in DOMAIN Costs[end]
  BY CostsTold
<1>3. portValueTable \in [Routers -> [LinkPorts -> Nat \cup {Unknown}]]
  BY <1>2
<1>4. ValuesAreCosts
  <2> SUFFICES ASSUME NEW r \in Routers, NEW port \in LinkPorts,
                      portValueTable[r][port] # Unknown
               PROVE  /\ <<r, port>> \in Ends
                      /\ \E i \in DOMAIN Costs[<<r, port>>] :
                           portValueTable[r][port] = Costs[<<r, port>>][i]
    BY DEF ValuesAreCosts
  <2>1. portValueTable[r][port] =
          IF <<r, port>> \in Ends THEN Costs[<<r, port>>][1] ELSE Unknown
    OBVIOUS
  <2> QED
    BY <1>2, <2>1
<1>5. TypeOK
  <2>1. DistanceVectorTable \in [Routers -> Tables]
    BY <1>1
  <2>2. \A r \in Routers : DistanceVectorTable[r][Self][r] = 0
    BY <1>1
  <2>3. \A r \in Routers : DOMAIN portToRouter[r] = {}
    OBVIOUS
  <2>4. \A end \in Ends : told[end] \in 1..Len(Costs[end])
    BY CostsTold
  <2>5. wire \in [Ends -> Seq(Vectors)]
    OBVIOUS
  <2> QED
    BY <1>3, <2>1, <2>2, <2>3, <2>4, <2>5 DEF TypeOK, Tables
<1>6. Structure
  BY DEF Structure
<1> QED
  BY <1>4, <1>5, <1>6 DEF TypeInv

-----------------------------------------------------------------------------
\* Wires: what is on one after a step was there before, or was just sent.

OnWires(after, before, sender, vector) ==
    \A end \in Ends : \A i \in 1..Len(after[end]) :
        \/ \E j \in 1..Len(before[end]) : after[end][i] = before[end][j]
        \/ Link[end][1] = sender /\ after[end][i] = vector

LEMMA BroadcastOnWires ==
    ASSUME NEW wires \in [Ends -> Seq(Vectors)], NEW id, NEW vector \in Vectors
    PROVE  /\ Broadcast(wires, id, vector) \in [Ends -> Seq(Vectors)]
           /\ OnWires(Broadcast(wires, id, vector), wires, id, vector)
<1>1. PICK after : after = Broadcast(wires, id, vector)
  OBVIOUS
<1>2. \A end \in Ends : after[end] =
        IF Link[end][1] = id THEN Append(wires[end], vector) ELSE wires[end]
  BY <1>1 DEF Broadcast
<1>3. after \in [Ends -> Seq(Vectors)]
  BY <1>1 DEF Broadcast
<1>4. ASSUME NEW end \in Ends, NEW i \in 1..Len(after[end])
      PROVE  \/ \E j \in 1..Len(wires[end]) : after[end][i] = wires[end][j]
             \/ Link[end][1] = id /\ after[end][i] = vector
  <2>1. CASE Link[end][1] # id
    BY <1>2, <1>4, <2>1
  <2>2. CASE Link[end][1] = id
    <3>1. PICK seq \in Seq(Vectors) : seq = wires[end]
      OBVIOUS
    <3>2. after[end] = Append(seq, vector)
      BY <1>2, <2>2, <3>1
    <3>3. /\ Len(Append(seq, vector)) = Len(seq) + 1
          /\ \A k \in 1..Len(seq) : Append(seq, vector)[k] = seq[k]
          /\ Append(seq, vector)[Len(seq) + 1] = vector
      BY AppendProperties
    <3>4. Len(seq) \in Nat
      OBVIOUS
    <3>5. i \in 1..Len(seq) \/ i = Len(seq) + 1
      BY <1>4, <3>2, <3>3, <3>4
    <3> QED
      BY <2>2, <3>1, <3>2, <3>3, <3>5
  <2> QED
    BY <2>1, <2>2
<1> QED
  BY <1>1, <1>3, <1>4 DEF OnWires

LEMMA TakenFromWire ==
    ASSUME NEW wires \in [Ends -> Seq(Vectors)], NEW end \in Ends, wires[end] # <<>>,
           NEW rest, rest = [wires EXCEPT ![end] = Tail(@)]
    PROVE  /\ rest \in [Ends -> Seq(Vectors)]
           /\ \A e \in Ends : \A i \in 1..Len(rest[e]) :
                \E j \in 1..Len(wires[e]) : rest[e][i] = wires[e][j]
<1>1. PICK seq \in Seq(Vectors) : seq = wires[end]
  OBVIOUS
<1>2. PICK tail : tail = Tail(seq)
  OBVIOUS
<1>3. rest = [wires EXCEPT ![end] = tail]
  BY <1>1, <1>2
<1>4. /\ tail \in Seq(Vectors)
      /\ Len(tail) = Len(seq) - 1
      /\ \A i \in 1..Len(tail) : tail[i] = seq[i + 1]
  BY <1>1, <1>2, HeadTailProperties
<1>5. rest \in [Ends -> Seq(Vectors)]
  BY <1>3, <1>4
<1>6. ASSUME NEW e \in Ends, NEW i \in 1..Len(rest[e])
      PROVE  \E j \in 1..Len(wires[e]) : rest[e][i] = wires[e][j]
  <2>1. CASE e = end
    <3>1. rest[e] = tail /\ wires[e] = seq
      BY <1>1, <1>3, <2>1
    <3>2. Len(seq) \in Nat
      OBVIOUS
    <3>3. i + 1 \in 1..Len(seq)
      BY <1>4, <1>6, <3>1, <3>2
    <3> QED
      BY <1>4, <1>6, <3>1, <3>3
  <2>2. CASE e # end
    BY <1>3, <1>6, <2>2
  <2> QED
    BY <2>1, <2>2
<1> QED
  BY <1>5, <1>6

\* What a step leaves of TypeInv when it changes no port's value.
LEMMA TriggerType ==
    ASSUME TypeInv, NEW r \in Routers, TriggerDvSend(r)
    PROVE  TypeInv'
<1> USE DEF TypeInv
<1>1. /\ wire' = Broadcast(wire, r, DistanceVectorTable[r][Self])
      /\ UNCHANGED <<DistanceVectorTable, portValueTable, portToRouter, told>>
  BY DEF TriggerDvSend
<1>2. DistanceVectorTable[r][Self] \in Vectors
  BY DEF TypeOK
<1>3. wire' \in [Ends -> Seq(Vectors)]
  BY <1>1, <1>2, BroadcastOnWires DEF TypeOK
<1>4. TypeOK'
  BY <1>1, <1>3 DEF TypeOK
<1>5. Structure'
  BY <1>1 DEF Structure
<1>6. ValuesAreCosts'
  BY <1>1 DEF ValuesAreCosts
<1> QED
  BY <1>4, <1>5, <1>6

LEMMA ChangeType ==
    ASSUME TypeInv, NEW end \in Ends, PortValueChange(end[1], end[2])
    PROVE  TypeInv'
<1> USE DEF TypeInv
<1>1. PICK r \in Routers, port \in LinkPorts : r = end[1] /\ port = end[2] /\ end = <<r, port>>
  BY LinkEnds
<1>2. PICK i : i = told[end] + 1
  OBVIOUS
<1>3. PICK values : values = [portValueTable[r] EXCEPT ![port] = Costs[end][i]]
  OBVIOUS
<1>4. /\ told[end] < Len(Costs[end])
      /\ told' = [told EXCEPT ![end] = @ + 1]
      /\ portValueTable' = [portValueTable EXCEPT ![r] = values]
      /\ DistanceVectorTable' =
           IF port \in DOMAIN portToRouter[r]
           THEN [DistanceVectorTable EXCEPT ![r] =
                   Updated(DistanceVectorTable[r], values, {portToRouter[r][port]})]
           ELSE DistanceVectorTable
      /\ UNCHANGED <<portToRouter, wire>>
  BY <1>1, <1>2, <1>3 DEF PortValueChange, TypeOK
<1>5. i \in 1..Len(Costs[end]) /\ i \in DOMAIN Costs[end]
  BY <1>2, <1>4, CostsTold DEF TypeOK
<1>6. values \in [LinkPorts -> Nat \cup {Unknown}]
  BY <1>3, <1>5, CostsTold DEF TypeOK
<1>7. /\ DistanceVectorTable' \in [Routers -> Tables]
      /\ \A q \in Routers : DistanceVectorTable'[q][Self][q] = 0
  <2>1. CASE port \notin DOMAIN portToRouter[r]
    BY <1>4, <2>1 DEF TypeOK, Tables
  <2>2. CASE port \in DOMAIN portToRouter[r]
    <3>1. PICK table : table = Updated(DistanceVectorTable[r], values, {portToRouter[r][port]})
      OBVIOUS
    <3>2. r \notin {portToRouter[r][port]}
      BY <1>1, <2>2, LinkEnds DEF TypeOK
    <3>3. DistanceVectorTable[r] \in Tables
      BY DEF TypeOK, Tables
    <3>4. table \in Tables /\ table[Self][r] = DistanceVectorTable[r][Self][r]
      BY <1>6, <3>1, <3>2, <3>3, UpdatedTable
    <3> QED
      BY <1>4, <2>2, <3>1, <3>4 DEF TypeOK, Tables
  <2> QED
    BY <2>1, <2>2
<1>8. \A e \in Ends : told'[e] \in 1..Len(Costs[e])
  BY <1>2, <1>4, <1>5 DEF TypeOK, Structure
<1>9. TypeOK'
  BY <1>4, <1>6, <1>7, <1>8 DEF TypeOK, Tables
<1>10. Structure'
  <2>1. \A e \in Ends : told[e] \in Nat
    BY DEF Structure
  <2> QED
    BY <1>4, <2>1 DEF Structure
<1>11. ValuesAreCosts'
  <2> SUFFICES ASSUME NEW q \in Routers, NEW p \in LinkPorts,
                      portValueTable'[q][p] # Unknown
               PROVE  /\ <<q, p>> \in Ends
                      /\ \E j \in DOMAIN Costs[<<q, p>>] :
                           portValueTable'[q][p] = Costs[<<q, p>>][j]
    BY DEF ValuesAreCosts
  <2>1. CASE q = r /\ p = port
    <3>1. portValueTable'[q][p] = Costs[end][i]
      BY <1>3, <1>4, <2>1 DEF TypeOK
    <3> QED
      BY <1>1, <1>5, <2>1, <3>1
  <2>2. CASE ~(q = r /\ p = port)
    <3>1. portValueTable'[q][p] = portValueTable[q][p]
      BY <1>3, <1>4, <2>2 DEF TypeOK
    <3> QED
      BY <3>1 DEF ValuesAreCosts
  <2> QED
    BY <2>1, <2>2
<1> QED
  BY <1>9, <1>10, <1>11

\* The vector at the head of a wire, and the table it makes.
LEMMA HeardTable ==
    ASSUME TypeInv, NEW end \in Ends, wire[end] # <<>>
    PROVE  /\ Head(wire[end]) \in Vectors
           /\ Head(wire[end]) = wire[end][1] /\ 1 \in 1..Len(wire[end])
           /\ [DistanceVectorTable[end[1]] EXCEPT ![end[2]] = Head(wire[end])] \in Tables
           /\ Heard(DistanceVectorTable[end[1]], portValueTable[end[1]],
                    end[1], end[2], Head(wire[end])) \in Tables
<1>1. wire[end] \in Seq(Vectors)
  BY DEF TypeInv, TypeOK
<1>2. Head(wire[end]) \in Vectors /\ Head(wire[end]) = wire[end][1] /\ 1 \in 1..Len(wire[end])
  BY <1>1
<1>3. PICK vector \in Vectors : vector = Head(wire[end])
  BY <1>2
<1>4. end[1] \in Routers /\ end[2] \in LinkPorts
  BY LinkEnds
<1>5. /\ DistanceVectorTable[end[1]] \in Tables
      /\ portValueTable[end[1]] \in [LinkPorts -> Nat \cup {Unknown}]
  BY <1>4 DEF TypeInv, TypeOK, Tables
<1>6. PICK table : table = [DistanceVectorTable[end[1]] EXCEPT ![end[2]] = vector]
  OBVIOUS
<1>7. table \in Tables
  BY <1>4, <1>5, <1>6 DEF Tables
<1>8. Updated(table, portValueTable[end[1]], Routers \ {end[1]}) \in Tables
  BY <1>5, <1>7, UpdatedTable
<1> QED
  BY <1>2, <1>3, <1>6, <1>7, <1>8 DEF Heard

\* The wires after a vector was taken from one, and the router's own one sent or not.
LEMMA WireAfterReceive ==
    ASSUME NEW wires \in [Ends -> Seq(Vectors)], NEW end \in Ends, wires[end] # <<>>,
           NEW vector \in Vectors, NEW id,
           NEW rest, rest = [wires EXCEPT ![end] = Tail(@)],
           NEW after, after \in {rest, Broadcast(rest, id, vector)}
    PROVE  OnWires(after, wires, id, vector)
<1>1. /\ rest \in [Ends -> Seq(Vectors)]
      /\ \A e \in Ends : \A i \in 1..Len(rest[e]) :
           \E j \in 1..Len(wires[e]) : rest[e][i] = wires[e][j]
  BY TakenFromWire
<1>2. CASE after = rest
  BY <1>1, <1>2 DEF OnWires
<1>3. CASE after = Broadcast(rest, id, vector)
  <2>1. /\ Broadcast(rest, id, vector) \in [Ends -> Seq(Vectors)]
        /\ OnWires(Broadcast(rest, id, vector), rest, id, vector)
    BY <1>1, BroadcastOnWires
  <2>2. after \in [Ends -> Seq(Vectors)] /\ OnWires(after, rest, id, vector)
    BY <1>3, <2>1
  <2>3. ASSUME NEW e \in Ends, NEW i \in 1..Len(after[e]), ~(Link[e][1] = id /\ after[e][i] = vector)
        PROVE  \E j \in 1..Len(wires[e]) : after[e][i] = wires[e][j]
    <3>1. PICK k \in 1..Len(rest[e]) : after[e][i] = rest[e][k]
      BY <2>2, <2>3 DEF OnWires
    <3>2. PICK j \in 1..Len(wires[e]) : rest[e][k] = wires[e][j]
      BY <1>1
    <3> QED
      BY <3>1, <3>2
  <2> QED
    BY <2>2, <2>3 DEF OnWires
<1> QED
  BY <1>2, <1>3

LEMMA ReceiveType ==
    ASSUME TypeInv, NEW end \in Ends, ReceiveDv(end[1], end[2])
    PROVE  TypeInv'
<1> USE DEF TypeInv
<1>1. PICK r \in Routers, port \in LinkPorts : r = end[1] /\ port = end[2] /\ end = <<r, port>>
  BY LinkEnds
<1>2. PICK heard : heard = Heard(DistanceVectorTable[r], portValueTable[r], r, port,
                                 Head(wire[end]))
  OBVIOUS
<1>3. PICK rest : rest = [wire EXCEPT ![end] = Tail(@)]
  OBVIOUS
<1>4. /\ wire[end] # <<>>
      /\ DistanceVectorTable' = [DistanceVectorTable EXCEPT ![r] = heard]
      /\ portToRouter' = [portToRouter EXCEPT ![r] = Met(portToRouter[r], port, Link[end][1])]
      /\ wire' \in {rest, Broadcast(rest, r, heard[Self])}
      /\ UNCHANGED <<portValueTable, told>>
  BY <1>1, <1>2, <1>3 DEF ReceiveDv, Structure
<1>5. heard \in Tables
  BY <1>1, <1>2, <1>4, HeardTable
<1>6. heard[Self][r] = DistanceVectorTable[r][Self][r]
  <2>1. PICK vector \in Vectors : vector = Head(wire[end])
    BY <1>4, HeardTable
  <2>2. PICK table : table = [DistanceVectorTable[r] EXCEPT ![port] = vector]
    OBVIOUS
  <2>3. DistanceVectorTable[r] \in Tables /\ table \in Tables
    BY <2>2 DEF TypeOK, Tables
  <2>4. heard = Updated(table, portValueTable[r], Routers \ {r})
    BY <1>2, <2>1, <2>2 DEF Heard
  <2>5. portValueTable[r] \in [LinkPorts -> Nat \cup {Unknown}]
    BY DEF TypeOK
  <2>6. heard[Self][r] = table[Self][r]
    BY <2>3, <2>4, <2>5, UpdatedTable
  <2>7. port # Self
    BY RouterAssumption DEF Self
  <2> QED
    BY <2>2, <2>3, <2>6, <2>7 DEF Tables
<1>7. wire' \in [Ends -> Seq(Vectors)]
  <2>1. PICK own \in Vectors : own = heard[Self]
    BY <1>5 DEF Tables
  <2>2. wire \in [Ends -> Seq(Vectors)]
    BY DEF TypeOK
  <2>3. wire[end] # <<>> /\ wire' \in {rest, Broadcast(rest, r, own)}
    BY <1>4, <2>1
  <2>4. rest \in [Ends -> Seq(Vectors)]
    BY <1>3, <2>2, <2>3, TakenFromWire
  <2>5. Broadcast(rest, r, own) \in [Ends -> Seq(Vectors)]
    BY <2>4, BroadcastOnWires
  <2> QED
    BY <2>3, <2>4, <2>5
<1>8. DOMAIN portToRouter' = Routers
  BY <1>4 DEF Structure
<1>9. \A q \in Routers : \A p \in DOMAIN portToRouter'[q] :
        portToRouter'[q][p] = Link[<<q, p>>][1]
  <2> SUFFICES ASSUME NEW q \in Routers, NEW p \in DOMAIN portToRouter'[q]
               PROVE  portToRouter'[q][p] = Link[<<q, p>>][1]
    OBVIOUS
  <2>1. CASE q # r
    BY <1>4, <2>1 DEF TypeOK, Structure
  <2>2. CASE q = r
    <3>1. portToRouter'[q] = Met(portToRouter[r], port, Link[end][1])
      BY <1>4, <2>2 DEF Structure
    <3>2. p \in DOMAIN portToRouter[r] \cup {port}
      BY <3>1 DEF Met
    <3>3. portToRouter'[q][p] = IF p = port THEN Link[end][1] ELSE portToRouter[r][p]
      BY <3>1, <3>2 DEF Met
    <3>4. CASE p = port
      BY <1>1, <2>2, <3>3, <3>4
    <3>5. CASE p # port
      BY <2>2, <3>2, <3>3, <3>5 DEF TypeOK
    <3> QED
      BY <3>4, <3>5
  <2> QED
    BY <2>1, <2>2
<1>10. /\ DistanceVectorTable' \in [Routers -> Tables]
       /\ \A q \in Routers : DistanceVectorTable'[q][Self][q] = 0
  BY <1>4, <1>5, <1>6 DEF TypeOK, Tables
<1>11. TypeOK'
  BY <1>4, <1>7, <1>9, <1>10 DEF TypeOK, Tables
<1>12. Structure'
  BY <1>4, <1>8 DEF Structure
<1>13. ValuesAreCosts'
  BY <1>4 DEF ValuesAreCosts
<1> QED
  BY <1>11, <1>12, <1>13

LEMMA NextType == TypeInv /\ [Next]_vars => TypeInv'
<1> SUFFICES ASSUME TypeInv, [Next]_vars PROVE TypeInv'
  OBVIOUS
<1>1. ASSUME NEW r \in Routers, TriggerDvSend(r) PROVE TypeInv'
  BY <1>1, TriggerType
<1>2. ASSUME NEW end \in Ends, PortValueChange(end[1], end[2]) PROVE TypeInv'
  BY <1>2, ChangeType
<1>3. ASSUME NEW end \in Ends, ReceiveDv(end[1], end[2]) PROVE TypeInv'
  BY <1>3, ReceiveType
<1>4. CASE UNCHANGED vars
  <2>1. UNCHANGED <<DistanceVectorTable, portValueTable, portToRouter, told, wire>>
    BY <1>4 DEF vars
  <2>2. TypeOK'
    BY <2>1 DEF TypeInv, TypeOK
  <2>3. Structure' /\ ValuesAreCosts'
    BY <2>1 DEF TypeInv, Structure, ValuesAreCosts
  <2> QED
    BY <2>2, <2>3 DEF TypeInv
<1> QED
  BY <1>1, <1>2, <1>3, <1>4 DEF Next

-----------------------------------------------------------------------------
\* The bound.

LEMMA InitBound ==
    ASSUME NEW bound, BelowEveryWay(bound), Init
    PROVE  BoundInv(bound)
<1> USE DEF Init
<1>1. ASSUME NEW r \in Routers, NEW d \in Routers, NEW port \in {Self} \cup LinkPorts,
             DistanceVectorTable[r][port][d] # Unknown
      PROVE  port = Self /\ d = r /\ DistanceVectorTable[r][port][d] = 0
  BY <1>1 DEF InitialTable
<1>2. OwnAtLeast(bound)
  <2> SUFFICES ASSUME NEW r \in Routers, NEW d \in Routers,
                      DistanceVectorTable[r][Self][d] # Unknown
               PROVE  DistanceVectorTable[r][Self][d] >= bound[r, d]
    BY DEF OwnAtLeast, AtLeast
  <2>1. d = r /\ DistanceVectorTable[r][Self][d] = 0
    BY <1>1
  <2>2. PICK least : least = bound[r, d]
    OBVIOUS
  <2>3. least = 0
    BY <2>1, <2>2 DEF BelowEveryWay
  <2>4. DistanceVectorTable[r][Self][d] >= least
    BY <2>1, <2>3
  <2> QED
    BY <2>2, <2>4
<1>3. KeptAtLeast(bound)
  <2>1. \A end \in Ends : end[1] \in Routers /\ end[2] \in LinkPorts
    BY LinkEnds
  <2>2. Self \notin LinkPorts
    BY RouterAssumption DEF Self
  <2>3. ASSUME NEW end \in Ends, NEW d \in Routers
        PROVE  DistanceVectorTable[end[1]][end[2]][d] = Unknown
    BY <1>1, <2>1, <2>2
  <2> QED
    BY <2>3 DEF KeptAtLeast, AtLeast
<1>4. \A end \in Ends : Len(wire[end]) = 0
  OBVIOUS
<1>5. SentAtLeast(bound)
  BY <1>4 DEF SentAtLeast
<1> QED
  BY <1>2, <1>3, <1>5 DEF BoundInv

LEMMA SentStays ==
    ASSUME NEW bound, BoundInv(bound), NEW r, NEW vector, AtLeast(vector, bound, r),
           OnWires(wire', wire, r, vector)
    PROVE  SentAtLeast(bound)'
<1> SUFFICES ASSUME NEW end \in Ends, NEW i \in 1..Len(wire'[end])
             PROVE  AtLeast(wire'[end][i], bound, Link[end][1])
  BY DEF SentAtLeast, AtLeast
<1>1. CASE \E j \in 1..Len(wire[end]) : wire'[end][i] = wire[end][j]
  BY <1>1 DEF BoundInv, SentAtLeast
<1>2. CASE Link[end][1] = r /\ wire'[end][i] = vector
  BY <1>2
<1> QED
  BY <1>1, <1>2 DEF OnWires

LEMMA TriggerBound ==
    ASSUME TypeInv, NEW bound, BoundInv(bound), NEW r \in Routers, TriggerDvSend(r)
    PROVE  BoundInv(bound)'
<1>1. /\ wire' = Broadcast(wire, r, DistanceVectorTable[r][Self])
      /\ UNCHANGED DistanceVectorTable
  BY DEF TriggerDvSend
<1>2. OwnAtLeast(bound)' /\ KeptAtLeast(bound)'
  BY <1>1 DEF BoundInv, OwnAtLeast, KeptAtLeast, AtLeast
<1>3. PICK vector \in Vectors : vector = DistanceVectorTable[r][Self]
  BY DEF TypeInv, TypeOK
<1>4. AtLeast(vector, bound, r)
  BY <1>3 DEF BoundInv, OwnAtLeast
<1>5. OnWires(wire', wire, r, vector)
  <2>1. wire \in [Ends -> Seq(Vectors)]
    BY DEF TypeInv, TypeOK
  <2> QED
    BY <1>1, <1>3, <2>1, BroadcastOnWires
<1>6. SentAtLeast(bound)'
  BY <1>4, <1>5, SentStays
<1> QED
  BY <1>2, <1>6 DEF BoundInv

LEMMA ChangeBound ==
    ASSUME TypeInv, TypeInv', NEW bound, BelowEveryWay(bound), BoundInv(bound),
           NEW end \in Ends, PortValueChange(end[1], end[2])
    PROVE  BoundInv(bound)'
<1>1. PICK r \in Routers, port \in LinkPorts : r = end[1] /\ port = end[2] /\ end = <<r, port>>
  BY LinkEnds
<1>2. PICK values : values = portValueTable'[r]
  OBVIOUS
<1>3. /\ DistanceVectorTable' =
           IF port \in DOMAIN portToRouter[r]
           THEN [DistanceVectorTable EXCEPT ![r] =
                   Updated(DistanceVectorTable[r], values, {portToRouter[r][port]})]
           ELSE DistanceVectorTable
      /\ UNCHANGED wire
  BY <1>1, <1>2 DEF PortValueChange, TypeInv, TypeOK
<1>4. SentAtLeast(bound)'
  BY <1>3 DEF BoundInv, SentAtLeast, AtLeast
<1>5. CASE port \notin DOMAIN portToRouter[r]
  <2>1. DistanceVectorTable' = DistanceVectorTable
    BY <1>3, <1>5
  <2> QED
    BY <1>4, <2>1 DEF BoundInv, OwnAtLeast, KeptAtLeast, AtLeast
<1>6. CASE port \in DOMAIN portToRouter[r]
  <2>1. PICK table : table = Updated(DistanceVectorTable[r], values, {portToRouter[r][port]})
    OBVIOUS
  <2>2. DistanceVectorTable' = [DistanceVectorTable EXCEPT ![r] = table]
    BY <1>3, <1>6, <2>1
  <2>3. DistanceVectorTable \in [Routers -> Tables]
    BY DEF TypeInv, TypeOK, Tables
  <2>4. values \in [LinkPorts -> Nat \cup {Unknown}]
    BY <1>2 DEF TypeInv, TypeOK
  <2>5. \A p \in LinkPorts : table[p] = DistanceVectorTable[r][p]
    BY <2>1, <2>3, <2>4, UpdatedTable
  <2>6. AtLeast(table[Self], bound, r)
    <3>1. AtLeast(DistanceVectorTable[r][Self], bound, r)
      BY DEF BoundInv, OwnAtLeast
    <3>2. ASSUME NEW p \in LinkPorts, <<r, p>> \in Ends
          PROVE  AtLeast(DistanceVectorTable[r][p], bound, Link[<<r, p>>][1])
      BY <3>2 DEF BoundInv, KeptAtLeast
    <3>3. \A p \in LinkPorts : values[p] # Unknown =>
            /\ <<r, p>> \in Ends
            /\ \E i \in DOMAIN Costs[<<r, p>>] : values[p] = Costs[<<r, p>>][i]
      BY <1>2 DEF TypeInv, ValuesAreCosts
    <3> QED
      BY <2>1, <2>3, <2>4, <3>1, <3>2, <3>3, UpdatedAtLeast
  <2>7. OwnAtLeast(bound)'
    <3> SUFFICES ASSUME NEW q \in Routers
                 PROVE  AtLeast(DistanceVectorTable'[q][Self], bound, q)
      BY DEF OwnAtLeast, AtLeast
    <3>1. DistanceVectorTable'[q] = IF q = r THEN table ELSE DistanceVectorTable[q]
      BY <2>2, <2>3
    <3> QED
      BY <2>6, <3>1 DEF BoundInv, OwnAtLeast
  <2>8. KeptAtLeast(bound)'
    <3> SUFFICES ASSUME NEW e \in Ends
                 PROVE  AtLeast(DistanceVectorTable'[e[1]][e[2]], bound, Link[e][1])
      BY DEF KeptAtLeast, AtLeast
    <3>1. e[1] \in Routers /\ e[2] \in LinkPorts
      BY LinkEnds
    <3>2. DistanceVectorTable'[e[1]] = IF e[1] = r THEN table ELSE DistanceVectorTable[e[1]]
      BY <2>2, <2>3, <3>1
    <3>3. DistanceVectorTable'[e[1]][e[2]] = DistanceVectorTable[e[1]][e[2]]
      BY <2>5, <3>1, <3>2
    <3> QED
      BY <3>3 DEF BoundInv, KeptAtLeast
  <2> QED
    BY <1>4, <2>7, <2>8 DEF BoundInv
<1> QED
  BY <1>5, <1>6

LEMMA ReceiveBound ==
    ASSUME TypeInv, NEW bound, BelowEveryWay(bound), BoundInv(bound),
           NEW end \in Ends, ReceiveDv(end[1], end[2])
    PROVE  BoundInv(bound)'
<1>1. PICK r \in Routers, port \in LinkPorts : r = end[1] /\ port = end[2] /\ end = <<r, port>>
  BY LinkEnds
<1>2. wire[end] # <<>>
  BY <1>1 DEF ReceiveDv
<1>3. PICK vector \in Vectors : vector = Head(wire[end])
  BY <1>2, HeardTable
<1>4. AtLeast(vector, bound, Link[end][1])
  BY <1>2, <1>3, HeardTable DEF BoundInv, SentAtLeast
<1>5. PICK table : table = [DistanceVectorTable[r] EXCEPT ![port] = vector]
  OBVIOUS
<1>6. PICK heard : heard = Updated(table, portValueTable[r], Routers \ {r})
  OBVIOUS
<1>7. DistanceVectorTable \in [Routers -> Tables] /\ table \in Tables
  BY <1>5 DEF TypeInv, TypeOK, Tables
<1>8. portValueTable[r] \in [LinkPorts -> Nat \cup {Unknown}]
  BY DEF TypeInv, TypeOK
<1>9. /\ heard \in Tables
      /\ \A p \in LinkPorts : heard[p] = table[p]
  BY <1>6, <1>7, <1>8, UpdatedTable
<1>10. /\ port # Self
       /\ table[port] = vector
       /\ \A p \in ({Self} \cup LinkPorts) \ {port} : table[p] = DistanceVectorTable[r][p]
  <2>1. port # Self
    BY RouterAssumption DEF Self
  <2> QED
    BY <1>5, <1>7, <2>1 DEF Tables
<1>11. \A p \in LinkPorts : <<r, p>> \in Ends =>
         AtLeast(table[p], bound, Link[<<r, p>>][1])
  BY <1>1, <1>4, <1>10 DEF BoundInv, KeptAtLeast
<1>12. AtLeast(heard[Self], bound, r)
  <2>1. AtLeast(table[Self], bound, r)
    BY <1>10 DEF BoundInv, OwnAtLeast
  <2>2. \A p \in LinkPorts : portValueTable[r][p] # Unknown =>
          /\ <<r, p>> \in Ends
          /\ \E i \in DOMAIN Costs[<<r, p>>] : portValueTable[r][p] = Costs[<<r, p>>][i]
    BY DEF TypeInv, ValuesAreCosts
  <2> QED
    BY <1>6, <1>7, <1>8, <1>11, <2>1, <2>2, UpdatedAtLeast
<1>13. heard = Heard(DistanceVectorTable[r], portValueTable[r], r, port, Head(wire[end]))
  BY <1>3, <1>5, <1>6 DEF Heard
<1>14. PICK rest : rest = [wire EXCEPT ![end] = Tail(@)]
  OBVIOUS
<1>15. /\ DistanceVectorTable' = [DistanceVectorTable EXCEPT ![r] = heard]
       /\ wire' \in {rest, Broadcast(rest, r, heard[Self])}
  BY <1>1, <1>13, <1>14 DEF ReceiveDv
<1>16. OwnAtLeast(bound)'
  <2> SUFFICES ASSUME NEW q \in Routers
               PROVE  AtLeast(DistanceVectorTable'[q][Self], bound, q)
    BY DEF OwnAtLeast, AtLeast
  <2>1. DistanceVectorTable'[q] = IF q = r THEN heard ELSE DistanceVectorTable[q]
    BY <1>7, <1>15
  <2> QED
    BY <1>12, <2>1 DEF BoundInv, OwnAtLeast
<1>17. KeptAtLeast(bound)'
  <2> SUFFICES ASSUME NEW e \in Ends
               PROVE  AtLeast(DistanceVectorTable'[e[1]][e[2]], bound, Link[e][1])
    BY DEF KeptAtLeast, AtLeast
  <2>1. e[1] \in Routers /\ e[2] \in LinkPorts /\ e = <<e[1], e[2]>>
    BY LinkEnds
  <2>2. DistanceVectorTable'[e[1]] = IF e[1] = r THEN heard ELSE DistanceVectorTable[e[1]]
    BY <1>7, <1>15, <2>1
  <2>3. CASE e[1] = r
    BY <1>9, <1>11, <2>1, <2>2, <2>3
  <2>4. CASE e[1] # r
    BY <2>2, <2>4 DEF BoundInv, KeptAtLeast
  <2> QED
    BY <2>3, <2>4
<1>18. SentAtLeast(bound)'
  <2>1. PICK own \in Vectors : own = heard[Self]
    BY <1>9 DEF Tables
  <2>2. wire \in [Ends -> Seq(Vectors)]
    BY DEF TypeInv, TypeOK
  <2>3. OnWires(wire', wire, r, own)
    BY <1>2, <1>14, <1>15, <2>1, <2>2, WireAfterReceive
  <2> QED
    BY <1>12, <2>1, <2>3, SentStays
<1> QED
  BY <1>16, <1>17, <1>18 DEF BoundInv

LEMMA NextBound ==
    ASSUME TypeInv, TypeInv', NEW bound, BelowEveryWay(bound), BoundInv(bound), [Next]_vars
    PROVE  BoundInv(bound)'
<1>1. ASSUME NEW r \in Routers, TriggerDvSend(r) PROVE BoundInv(bound)'
  BY <1>1, TriggerBound
<1>2. ASSUME NEW end \in Ends, PortValueChange(end[1], end[2]) PROVE BoundInv(bound)'
  BY <1>2, ChangeBound
<1>3. ASSUME NEW end \in Ends, ReceiveDv(end[1], end[2]) PROVE BoundInv(bound)'
  BY <1>3, ReceiveBound
<1>4. CASE UNCHANGED vars
  BY <1>4 DEF BoundInv, OwnAtLeast, KeptAtLeast, SentAtLeast, AtLeast, vars
<1> QED
  BY <1>1, <1>2, <1>3, <1>4 DEF Next

-----------------------------------------------------------------------------
\* Theorems.

\* The tables, the vectors under way and the costs told keep their types; a
\* router never changes its distance 0 to itself, and knows each neighbour by
\* its port.
THEOREM Typing == Spec => []TypeOK
<1>1. TypeInv => TypeOK
  BY DEF TypeInv
<1> QED
  BY <1>1, InitType, NextType, PTL DEF Spec

\* Whatever numbers obey the triangle inequality along all links, at all costs
\* their ends are ever told, stay below everything routers believe, keep of
\* their neighbours and send: bad news that travels slowly never looks better
\* than the best the network ever was.
THEOREM NeverBelow ==
    ASSUME NEW bound, BelowEveryWay(bound)
    PROVE  Spec => []BoundInv(bound)
<1>1. Init => TypeInv /\ BoundInv(bound)
  BY InitType, InitBound
<1>2. TypeInv /\ BoundInv(bound) /\ [Next]_vars => (TypeInv /\ BoundInv(bound))'
  BY NextType, NextBound
<1> QED
  BY <1>1, <1>2, PTL DEF Spec

\* No router ever believes a distance shorter than a way that existed at some
\* time, as long as the lowest distances are what their name says: that takes
\* an induction over the number of links, and is evaluated for the network of
\* the run (LowestIsBelow of MCRoutingNet).
THEOREM NoBeliefTooShort ==
    ASSUME BelowEveryWay(LowestDistance)
    PROVE  Spec => []NeverTooShort
<1>1. Init => TypeInv /\ BoundInv(LowestDistance)
  BY InitType, InitBound
<1>2. TypeInv /\ BoundInv(LowestDistance) /\ [Next]_vars =>
        (TypeInv /\ BoundInv(LowestDistance))'
  BY NextType, NextBound
<1>3. BoundInv(LowestDistance) => NeverTooShort
  BY DEF BoundInv, OwnAtLeast, AtLeast, NeverTooShort
<1> QED
  BY <1>1, <1>2, <1>3, PTL DEF Spec
=============================================================================
