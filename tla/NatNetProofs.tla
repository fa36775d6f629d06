---------------------------- MODULE NatNetProofs ----------------------------
(***************************************************************************)
(* Proofs about NatNet, for all routers, hosts, pools of addresses, routes *)
(* and budgets.                                                            *)
(***************************************************************************)
EXTENDS NatNet, SequenceTheorems, TLAPS

\* The tables are functions from hosts to external addresses.
PoolAddresses == UNION {Pool(r) : r \in Routers}
NatTables == UNION {[known -> PoolAddresses] : known \in SUBSET Hosts}
TablesOK == NATTable \in [Routers -> NatTables]

Conserved(nat, stack, pool) ==
    /\ IsInjective(nat) /\ IsInjective(stack)
    /\ {nat[h] : h \in DOMAIN nat} \cap ToSet(stack) = {}
    /\ {nat[h] : h \in DOMAIN nat} \cup ToSet(stack) = pool

HasItem(h, r, external_ip) ==
    h \in DOMAIN NATTable[r] /\ NATTable[r][h] = external_ip

\* Inside, a packet is addressed to its host, or on its way out and from its host.
RightPacket(pkt) ==
    \/ pkt.dst \in Hosts /\ (pkt.dst = pkt.host \/ pkt.host \in released)
    \/ pkt.dst \in Servers /\ pkt.src = pkt.host

\* A copy is justified: an answer from outside is addressed to what its host holds.
Justified(copy) ==
    IF copy.external
    THEN copy.pkt.host \in released \/ HasItem(copy.pkt.host, copy.at, copy.pkt.dst)
    ELSE RightPacket(copy.pkt)

CopiesJustified == \A copy \in inFlight : Justified(copy)

IInv ==
    /\ TypeOK /\ TablesOK
    /\ AddressesConserved
    /\ CopiesJustified
    /\ RepliesComeHome
    /\ RightHost

-----------------------------------------------------------------------------
\* Sequences without repetition.

LEMMA Popped ==
    ASSUME NEW S, NEW s \in Seq(S), s # <<>>, IsInjective(s)
    PROVE  /\ Front(s) \in Seq(S)
           /\ IsInjective(Front(s))
           /\ Last(s) \in ToSet(s)
           /\ ToSet(Front(s)) = ToSet(s) \ {Last(s)}
<1>1. Len(s) \in Nat \ {0} /\ DOMAIN s = 1..Len(s)
  OBVIOUS
<1>2. /\ Front(s) \in Seq(S)
      /\ Len(Front(s)) = Len(s) - 1
      /\ \A i \in 1..(Len(s) - 1) : Front(s)[i] = s[i]
  BY <1>1 DEF Front
<1>3. DOMAIN Front(s) = 1..(Len(s) - 1)
  BY <1>1, <1>2
<1>4. DOMAIN s = DOMAIN Front(s) \cup {Len(s)} /\ Len(s) \notin DOMAIN Front(s)
  BY <1>1, <1>3
<1>5. IsInjective(Front(s))
  BY <1>2, <1>3, <1>4 DEF IsInjective
<1>6. Last(s) \in ToSet(s)
  BY <1>1 DEF Last, ToSet
<1>7. ToSet(Front(s)) = ToSet(s) \ {Last(s)}
  BY <1>2, <1>3, <1>4 DEF IsInjective, ToSet, Last
<1> QED
  BY <1>2, <1>5, <1>6, <1>7

LEMMA Pushed ==
    ASSUME NEW S, NEW s \in Seq(S), NEW x \in S, IsInjective(s), x \notin ToSet(s)
    PROVE  /\ Append(s, x) \in Seq(S)
           /\ IsInjective(Append(s, x))
           /\ ToSet(Append(s, x)) = ToSet(s) \cup {x}
<1>1. Len(s) \in Nat /\ DOMAIN s = 1..Len(s)
  OBVIOUS
<1>2. /\ Append(s, x) \in Seq(S)
      /\ Len(Append(s, x)) = Len(s) + 1
      /\ \A i \in 1..Len(s) : Append(s, x)[i] = s[i]
      /\ Append(s, x)[Len(s) + 1] = x
  BY <1>1
<1>3. DOMAIN Append(s, x) = 1..(Len(s) + 1)
  BY <1>1, <1>2
<1>4. DOMAIN Append(s, x) = DOMAIN s \cup {Len(s) + 1} /\ Len(s) + 1 \notin DOMAIN s
  BY <1>1, <1>3
<1>5. IsInjective(Append(s, x))
  BY <1>1, <1>2, <1>4 DEF IsInjective, ToSet
<1>6. ToSet(Append(s, x)) = ToSet(s) \cup {x}
  BY <1>1, <1>2, <1>4 DEF ToSet
<1> QED
  BY <1>2, <1>5, <1>6

-----------------------------------------------------------------------------
LEMMA ConservedAt ==
    AddressesConserved <=> \A r \in Routers : Conserved(NATTable[r], availableAddrStack[r], Pool(r))
BY DEF AddressesConserved, Conserved

LEMMA InitIInv == Init => IInv
<1> SUFFICES ASSUME Init PROVE IInv
  OBVIOUS
<1>1. \A r \in Routers : NATTable[r] = <<>> /\ DOMAIN NATTable[r] = {}
  BY DEF Init
<1>2. TablesOK
  <2>1. <<>> \in [{} -> PoolAddresses]
    OBVIOUS
  <2> QED
    BY <2>1 DEF Init, TablesOK, NatTables
<1>3. TypeOK
  BY <1>1, NatNetAssumption DEF Init, TypeOK
<1>4. AddressesConserved
  <2> SUFFICES ASSUME NEW r \in Routers
               PROVE  Conserved(NATTable[r], availableAddrStack[r], Pool(r))
    BY ConservedAt
  <2>1. availableAddrStack[r] = Available[r] /\ IsInjective(Available[r])
    BY NatNetAssumption DEF Init
  <2> QED
    BY <1>1, <2>1 DEF Conserved, Pool, IsInjective
<1> QED
  BY <1>2, <1>3, <1>4 DEF Init, IInv, CopiesJustified, RepliesComeHome, RightHost

\* Nobody loses an item but by a release, and a release is not taken back.
ItemsKept ==
    /\ released \subseteq released'
    /\ \A r \in Routers, h \in Hosts \ released' :
         h \in DOMAIN NATTable[r] => h \in DOMAIN NATTable'[r] /\ NATTable'[r][h] = NATTable[r][h]

\* What was justified stays so, in flight, outside and delivered.
LEMMA KeptJustified ==
    ASSUME IInv, ItemsKept
    PROVE  /\ \A copy \in inFlight : Justified(copy)'
           /\ \A p \in outside : p.host \notin released' =>
                \E r \in Routers : p.dst \in Outside[r] /\ HasItem(p.host, r, p.src)'
           /\ \A d \in delivered : d.to = d.host \/ d.host \in released'
<1>1. ASSUME NEW copy \in inFlight PROVE Justified(copy)'
  <2>1. copy.at \in Routers /\ copy.pkt.host \in Hosts /\ Justified(copy)
    BY DEF IInv, TypeOK, Packets, CopiesJustified
  <2> QED
    BY <2>1 DEF ItemsKept, Justified, RightPacket, HasItem
<1>2. ASSUME NEW p \in outside, p.host \notin released'
      PROVE  \E r \in Routers : p.dst \in Outside[r] /\ HasItem(p.host, r, p.src)'
  <2>1. p.host \in Hosts /\ p.host \notin released
    BY <1>2 DEF IInv, TypeOK, Packets, ItemsKept
  <2>2. PICK r \in Routers : p.dst \in Outside[r] /\ HasItem(p.host, r, p.src)
    BY <2>1 DEF IInv, RepliesComeHome, HasItem
  <2>3. HasItem(p.host, r, p.src)'
    BY <1>2, <2>1, <2>2 DEF ItemsKept, HasItem
  <2> QED
    BY <2>2, <2>3
<1>3. ASSUME NEW d \in delivered PROVE d.to = d.host \/ d.host \in released'
  BY DEF IInv, RightHost, ItemsKept
<1> QED
  BY <1>1, <1>2, <1>3

LEMMA SpendTypes ==
    ASSUME IInv, NEW event \in Events, Spend(event)
    PROVE  budget' \in [Events -> Nat]
BY DEF IInv, TypeOK, Spend

LEMMA SendDataStep ==
    ASSUME IInv, NEW h \in Hosts, NEW dst \in Hosts \cup Servers, SendData(h, dst)
    PROVE  IInv'
<1>0. PICK copy : copy = [pkt |-> [src |-> h, dst |-> dst, host |-> IF dst \in Hosts THEN dst ELSE h],
                          at |-> hostTable[h], external |-> FALSE]
  OBVIOUS
<1>1. /\ inFlight' = inFlight \cup {copy}
      /\ UNCHANGED <<tables, outside, delivered, released>>
  BY <1>0 DEF SendData
<1>2. budget' \in [Events -> Nat]
  BY SpendTypes DEF SendData, Events
<1>3. copy \in [pkt : Packets, at : Routers, external : BOOLEAN]
  BY <1>0 DEF IInv, TypeOK, Packets, Addresses
<1>4. TypeOK'
  BY <1>1, <1>2, <1>3 DEF IInv, TypeOK, tables
<1>5. TablesOK' /\ AddressesConserved'
  BY <1>1 DEF IInv, TablesOK, AddressesConserved, tables
<1>6. ItemsKept
  BY <1>1 DEF ItemsKept, tables
<1>7. Justified(copy)'
  BY <1>0 DEF Justified, RightPacket
<1>8. CopiesJustified'
  BY <1>1, <1>6, <1>7, KeptJustified DEF CopiesJustified
<1> QED
  BY <1>1, <1>4, <1>5, <1>6, <1>8, KeptJustified DEF IInv, RepliesComeHome, RightHost, HasItem

LEMMA ReplyStep ==
    ASSUME IInv, NEW p \in outside, Reply(p)
    PROVE  IInv'
<1>1. PICK r \in Routers :
        /\ p.dst \in Outside[r]
        /\ inFlight' = inFlight \cup
             {[pkt |-> [src |-> p.dst, dst |-> p.src, host |-> p.host], at |-> r, external |-> TRUE]}
        /\ UNCHANGED <<tables, outside, delivered, released>>
  BY DEF Reply
<1> DEFINE copy == [pkt |-> [src |-> p.dst, dst |-> p.src, host |-> p.host], at |-> r, external |-> TRUE]
<1>2. budget' \in [Events -> Nat]
  BY SpendTypes DEF Reply, Events
<1>3. copy \in [pkt : Packets, at : Routers, external : BOOLEAN]
  BY DEF IInv, TypeOK, Packets
<1>4. TypeOK'
  BY <1>1, <1>2, <1>3 DEF IInv, TypeOK, tables
<1>5. TablesOK' /\ AddressesConserved'
  BY <1>1 DEF IInv, TablesOK, AddressesConserved, tables
<1>6. ItemsKept
  BY <1>1 DEF ItemsKept, tables
<1>7. Justified(copy)'
  <2>1. CASE p.host \in released
    BY <1>1, <2>1 DEF Justified
  <2>2. CASE p.host \notin released
    <3>1. PICK s \in Routers : p.dst \in Outside[s] /\ HasItem(p.host, s, p.src)
      BY <2>2 DEF IInv, RepliesComeHome, HasItem
    <3>2. s = r
      BY <1>1, <3>1, NatNetAssumption
    <3>3. HasItem(p.host, r, p.src)'
      BY <1>1, <3>1, <3>2 DEF HasItem, tables
    <3> QED
      BY <3>3 DEF Justified
  <2> QED
    BY <2>1, <2>2
<1>8. CopiesJustified'
  <2>1. inFlight' = inFlight \cup {copy}
    BY <1>1
  <2> HIDE DEF copy
  <2> QED
    BY <1>6, <1>7, <2>1, KeptJustified DEF CopiesJustified
<1> QED
  BY <1>1, <1>4, <1>5, <1>6, <1>8, KeptJustified DEF IInv, RepliesComeHome, RightHost, HasItem

LEMMA ReleaseStep ==
    ASSUME IInv, NEW r \in Routers, NEW h \in Hosts, ReleaseCommand(r, h)
    PROVE  IInv'
<1>1. /\ released' = released \cup {h}
      /\ UNCHANGED <<hostTable, inFlight, outside, delivered>>
      /\ budget' \in [Events -> Nat]
  BY SpendTypes DEF ReleaseCommand, Events
<1>2. /\ NATTable \in [Routers -> NatTables] /\ availableAddrStack \in [Routers -> Seq(Addresses)]
      /\ \A s \in Routers : Conserved(NATTable[s], availableAddrStack[s], Pool(s))
  BY ConservedAt DEF IInv, TablesOK, TypeOK
<1>3. CASE UNCHANGED <<NATTable, availableAddrStack>>
  <2>1. ItemsKept /\ TypeOK' /\ TablesOK' /\ AddressesConserved'
    BY <1>1, <1>3 DEF IInv, ItemsKept, TypeOK, TablesOK, AddressesConserved
  <2> QED
    BY <1>1, <2>1, KeptJustified DEF IInv, CopiesJustified, RepliesComeHome, RightHost, HasItem
<1>4. CASE ReleaseNat(r, h)
  <2> DEFINE nat == NATTable[r]
             stack == availableAddrStack[r]
             external_ip == nat[h]
  <2>1. /\ h \in DOMAIN nat
        /\ NATTable' = [NATTable EXCEPT ![r] = Erased(nat, h)]
        /\ availableAddrStack' = [availableAddrStack EXCEPT ![r] = Append(stack, external_ip)]
    BY <1>4 DEF ReleaseNat
  <2>2. PICK known \in SUBSET Hosts : nat \in [known -> PoolAddresses]
    BY <1>2 DEF NatTables
  <2>3. /\ Erased(nat, h) \in [known \ {h} -> PoolAddresses]
        /\ \A k \in known \ {h} : Erased(nat, h)[k] = nat[k]
    BY <2>2 DEF Erased
  <2>4. Erased(nat, h) \in NatTables
    BY <2>3 DEF NatTables
  <2>5. TablesOK'
    BY <1>2, <2>1, <2>4 DEF TablesOK
  <2>6. external_ip \in Pool(r) /\ external_ip \in Addresses /\ external_ip \notin ToSet(stack)
    BY <1>2, <2>1 DEF Conserved, Addresses
  <2>7. /\ Append(stack, external_ip) \in Seq(Addresses)
        /\ IsInjective(Append(stack, external_ip))
        /\ ToSet(Append(stack, external_ip)) = ToSet(stack) \cup {external_ip}
    BY <1>2, <2>6, Pushed DEF Conserved
  <2>8. Conserved(Erased(nat, h), Append(stack, external_ip), Pool(r))
    <3>1. IsInjective(nat) /\ DOMAIN nat = known /\ DOMAIN Erased(nat, h) = known \ {h}
      BY <1>2, <2>2, <2>3 DEF Conserved
    <3>2. IsInjective(Erased(nat, h))
      BY <2>3, <3>1 DEF IsInjective
    <3>3. {Erased(nat, h)[k] : k \in DOMAIN Erased(nat, h)} = {nat[k] : k \in DOMAIN nat} \ {external_ip}
      BY <2>1, <2>3, <3>1 DEF IsInjective
    <3>4. PICK given, pooled : /\ given = {nat[k] : k \in DOMAIN nat}
                               /\ pooled = ToSet(stack)
      OBVIOUS
    <3>5. given \cap pooled = {} /\ given \cup pooled = Pool(r) /\ external_ip \in given
      BY <1>2, <2>1, <3>1, <3>4 DEF Conserved
    <3>6. /\ (given \ {external_ip}) \cap (pooled \cup {external_ip}) = {}
          /\ (given \ {external_ip}) \cup (pooled \cup {external_ip}) = Pool(r)
      BY <3>5
    <3> QED
      BY <2>7, <3>2, <3>3, <3>4, <3>6 DEF Conserved
  <2>9. \A s \in Routers : Conserved(NATTable'[s], availableAddrStack'[s], Pool(s))
    BY <1>2, <2>1, <2>8
  <2>10. AddressesConserved'
    BY <2>9 DEF AddressesConserved, Conserved
  <2>11. \A s \in Routers, k \in Hosts \ {h} :
           k \in DOMAIN NATTable[s] => k \in DOMAIN NATTable'[s] /\ NATTable'[s][k] = NATTable[s][k]
    BY <1>2, <2>1, <2>2, <2>3
  <2>12. ItemsKept
    BY <1>1, <2>11 DEF ItemsKept
  <2>13. TypeOK'
    <3>1. availableAddrStack' \in [Routers -> Seq(Addresses)]
      BY <1>2, <2>1, <2>7
    <3>2. \A s \in Routers : /\ DOMAIN NATTable'[s] \subseteq Hosts
                             /\ \A k \in DOMAIN NATTable'[s] : NATTable'[s][k] \in Pool(s)
      BY <2>5, <2>9 DEF TablesOK, NatTables, Conserved
    <3> QED
      BY <1>1, <3>1, <3>2 DEF IInv, TypeOK
  <2> QED
    BY <1>1, <2>5, <2>10, <2>12, <2>13, KeptJustified
    DEF IInv, CopiesJustified, RepliesComeHome, RightHost, HasItem
<1> QED
  BY <1>3, <1>4 DEF ReleaseCommand

LEMMA AddHostStep ==
    ASSUME IInv, NEW h \in Hosts, NEW r \in Routers, AddHost(h, r)
    PROVE  IInv'
<1>1. /\ hostTable' = [hostTable EXCEPT ![h] = r]
      /\ UNCHANGED <<NATTable, availableAddrStack, inFlight, outside, delivered, released>>
      /\ budget' \in [Events -> Nat]
  BY SpendTypes DEF AddHost, Events
<1>2. TypeOK' /\ TablesOK' /\ AddressesConserved'
  BY <1>1 DEF IInv, TypeOK, TablesOK, AddressesConserved
<1>3. ItemsKept
  BY <1>1 DEF ItemsKept
<1> QED
  BY <1>1, <1>2, <1>3, KeptJustified DEF IInv, CopiesJustified, RepliesComeHome, RightHost, HasItem

-----------------------------------------------------------------------------
\* RouteData.

LEMMA TranslatedRight ==
    ASSUME IInv, NEW copy \in inFlight, NEW pkt \in Translated(copy)
    PROVE  pkt \in Packets /\ RightPacket(pkt)
<1>1. /\ copy.at \in Routers /\ copy.pkt \in Packets /\ copy.external \in BOOLEAN
      /\ Justified(copy)
  BY DEF IInv, TypeOK, CopiesJustified
<1>2. CASE ~copy.external
  BY <1>1, <1>2 DEF Translated, Justified
<1>3. CASE copy.external
  <2>1. PICK h \in DOMAIN NATTable[copy.at] :
          NATTable[copy.at][h] = copy.pkt.dst /\ pkt = [copy.pkt EXCEPT !.dst = h]
    BY <1>3 DEF Translated, Incoming
  <2>2. h \in Hosts
    BY <1>1, <2>1 DEF IInv, TypeOK
  <2>3. pkt \in Packets /\ pkt.dst = h /\ pkt.host = copy.pkt.host
    BY <1>1, <2>1, <2>2 DEF Packets, Addresses
  <2>4. CASE copy.pkt.host \in released
    BY <2>2, <2>3, <2>4 DEF RightPacket
  <2>5. CASE HasItem(copy.pkt.host, copy.at, copy.pkt.dst)
    <3>1. IsInjective(NATTable[copy.at])
      BY <1>1 DEF IInv, AddressesConserved
    <3>2. h = copy.pkt.host
      BY <2>1, <2>5, <3>1 DEF HasItem, IsInjective
    <3> QED
      BY <2>2, <2>3, <3>2 DEF RightPacket
  <2> QED
    BY <1>1, <1>3, <2>4, <2>5 DEF Justified
<1> QED
  BY <1>1, <1>2, <1>3

\* What a packet that leaves does to the tables, and to the packets outside.
LEMMA OutgoingTables ==
    ASSUME IInv, NEW r \in Routers, NEW pkt \in Packets, pkt.dst \in Outside[r],
           pkt.src = pkt.host, Outgoing(r, pkt), UNCHANGED released
    PROVE  /\ ItemsKept
           /\ TablesOK' /\ AddressesConserved'
           /\ availableAddrStack' \in [Routers -> Seq(Addresses)]
           /\ \/ outside' = outside
              \/ \E external_ip \in Pool(r) :
                   /\ outside' = outside \cup {[pkt EXCEPT !.src = external_ip]}
                   /\ HasItem(pkt.host, r, external_ip)'
<1> DEFINE nat == NATTable[r]
           stack == availableAddrStack[r]
<1>1. /\ NATTable \in [Routers -> NatTables] /\ availableAddrStack \in [Routers -> Seq(Addresses)]
      /\ \A s \in Routers : Conserved(NATTable[s], availableAddrStack[s], Pool(s))
      /\ pkt.src \in Hosts
  BY ConservedAt DEF IInv, TablesOK, TypeOK, Packets
<1>2. CASE UNCHANGED <<NATTable, availableAddrStack>> /\ (outside' = outside \/
             (pkt.src \in DOMAIN nat /\ Leave(pkt, nat[pkt.src])))
  <2>1. ItemsKept /\ TablesOK' /\ AddressesConserved'
    BY <1>2 DEF IInv, ItemsKept, TablesOK, AddressesConserved
  <2>2. pkt.src \in DOMAIN nat => nat[pkt.src] \in Pool(r)
    BY <1>1 DEF Conserved
  <2> QED
    BY <1>1, <1>2, <2>1, <2>2 DEF Leave, HasItem
<1>3. CASE /\ pkt.src \notin DOMAIN nat
           /\ stack # <<>>
           /\ NATTable' = [NATTable EXCEPT ![r] = Added(nat, pkt.src, Last(stack))]
           /\ availableAddrStack' = [availableAddrStack EXCEPT ![r] = Front(stack)]
           /\ Leave(pkt, Last(stack))
  <2>0. PICK ip : ip = Last(stack)
    OBVIOUS
  <2> DEFINE more == Added(nat, pkt.src, ip)
  <2>1. PICK known \in SUBSET Hosts : nat \in [known -> PoolAddresses]
    BY <1>1 DEF NatTables
  <2>2. /\ Front(stack) \in Seq(Addresses) /\ IsInjective(Front(stack))
        /\ ip \in ToSet(stack) /\ ToSet(Front(stack)) = ToSet(stack) \ {ip}
    BY <1>1, <1>3, <2>0, Popped DEF Conserved
  <2>3. ip \in Pool(r) /\ ip \in PoolAddresses /\ \A h \in DOMAIN nat : nat[h] # ip
    BY <1>1, <2>2 DEF Conserved, PoolAddresses
  <2>4. /\ more \in [known \cup {pkt.src} -> PoolAddresses]
        /\ DOMAIN more = DOMAIN nat \cup {pkt.src}
        /\ more[pkt.src] = ip
        /\ \A h \in DOMAIN nat : more[h] = nat[h]
    BY <1>3, <2>1, <2>3 DEF Added
  <2>5. more \in NatTables
    BY <1>1, <2>4 DEF NatTables
  <2>6. Conserved(more, Front(stack), Pool(r))
    <3>1. IsInjective(more)
      <4>1. IsInjective(nat)
        BY <1>1 DEF Conserved
      <4> HIDE DEF more, nat
      <4> QED
        BY <2>3, <2>4, <4>1 DEF IsInjective
    <3>2. {more[h] : h \in DOMAIN more} = {nat[h] : h \in DOMAIN nat} \cup {ip}
      <4> HIDE DEF more, nat
      <4> QED
        BY <2>4
    <3> HIDE DEF more
    <3> QED
      BY <1>1, <2>2, <2>3, <3>1, <3>2 DEF Conserved
  <2>7. NATTable' = [NATTable EXCEPT ![r] = more]
    BY <1>3, <2>0
  <2> HIDE DEF more
  <2>8. TablesOK'
    BY <1>1, <2>5, <2>7 DEF TablesOK
  <2>9. \A s \in Routers : Conserved(NATTable'[s], availableAddrStack'[s], Pool(s))
    BY <1>1, <1>3, <2>6, <2>7
  <2>10. AddressesConserved'
    BY <2>9 DEF AddressesConserved, Conserved
  <2>11. \A s \in Routers : \A h \in DOMAIN NATTable[s] :
           h \in DOMAIN NATTable'[s] /\ NATTable'[s][h] = NATTable[s][h]
    BY <1>1, <2>4, <2>7
  <2>12. ItemsKept
    BY <2>11 DEF ItemsKept
  <2>13. HasItem(pkt.host, r, ip)'
    BY <1>1, <2>4, <2>7 DEF HasItem
  <2> QED
    BY <1>1, <1>3, <2>0, <2>2, <2>3, <2>8, <2>10, <2>12, <2>13 DEF Leave
<1> QED
  BY <1>2, <1>3 DEF Outgoing

LEMMA RouteDataStep ==
    ASSUME IInv, NEW copy \in inFlight, RouteData(copy)
    PROVE  IInv'
<1> DEFINE r == copy.at
           rest == inFlight \ {copy}
<1>1. /\ copy.at \in Routers
      /\ inFlight \subseteq [pkt : Packets, at : Routers, external : BOOLEAN]
      /\ UNCHANGED <<hostTable, released, budget>>
  BY DEF RouteData, IInv, TypeOK
<1>2. \A s \in Routers : Outside[s] \subseteq Servers
  BY DEF Servers
<1>3. ASSUME UNCHANGED <<NATTable, availableAddrStack, outside>>
      PROVE  TablesOK' /\ AddressesConserved' /\ ItemsKept /\ RepliesComeHome'
  <2>1. ItemsKept
    BY <1>1, <1>3 DEF ItemsKept
  <2>2. TablesOK' /\ AddressesConserved'
    BY <1>3 DEF IInv, TablesOK, AddressesConserved
  <2>3. RepliesComeHome'
    BY <1>1, <1>3, <2>1, KeptJustified DEF RepliesComeHome, HasItem
  <2> QED
    BY <2>1, <2>2, <2>3
<1>4. CASE /\ inFlight' = rest
           /\ UNCHANGED <<NATTable, availableAddrStack, outside, delivered>>
  <2>1. TypeOK'
    BY <1>1, <1>4 DEF IInv, TypeOK
  <2> QED
    BY <1>1, <1>3, <1>4, <2>1, KeptJustified DEF IInv, CopiesJustified, RightHost
<1>5. ASSUME NEW pkt \in Translated(copy), pkt.dst \in Outside[r], Outgoing(r, pkt),
             inFlight' = rest, UNCHANGED delivered
      PROVE  IInv'
  <2>1. pkt \in Packets /\ pkt.src = pkt.host /\ pkt.dst \in Servers
    BY <1>1, <1>2, <1>5, TranslatedRight, NatNetAssumption DEF RightPacket
  <2>2. /\ ItemsKept /\ TablesOK' /\ AddressesConserved'
        /\ availableAddrStack' \in [Routers -> Seq(Addresses)]
        /\ \/ outside' = outside
           \/ \E external_ip \in Pool(r) :
                /\ outside' = outside \cup {[pkt EXCEPT !.src = external_ip]}
                /\ HasItem(pkt.host, r, external_ip)'
    BY <1>1, <1>5, <2>1, OutgoingTables
  <2>3. \A s \in Routers : /\ DOMAIN NATTable'[s] \subseteq Hosts
                           /\ \A h \in DOMAIN NATTable'[s] : NATTable'[s][h] \in Pool(s)
    BY <2>2 DEF TablesOK, NatTables, AddressesConserved
  <2>4. /\ \A p \in outside' : p \in Packets /\ p.src \notin Hosts /\ p.dst \in Servers
        /\ RepliesComeHome'
    <3>1. CASE outside' = outside
      BY <2>2, <3>1, KeptJustified DEF IInv, TypeOK, RepliesComeHome, HasItem
    <3>2. CASE outside' # outside
      <4>1. PICK external_ip \in Pool(r) :
              /\ outside' = outside \cup {[pkt EXCEPT !.src = external_ip]}
              /\ HasItem(pkt.host, r, external_ip)'
        BY <2>2, <3>2
      <4>2. external_ip \in Addresses /\ external_ip \notin Hosts
        BY <1>1, <4>1, NatNetAssumption DEF Addresses
      <4>3. PICK q : q = [pkt EXCEPT !.src = external_ip]
        OBVIOUS
      <4>4. q \in Packets /\ q.src = external_ip /\ q.dst = pkt.dst /\ q.host = pkt.host
        BY <2>1, <4>2, <4>3 DEF Packets
      <4>5. \A p \in outside' : p \in outside \/ p = q
        BY <4>1, <4>3
      <4>6. \A p \in outside' : p \in Packets /\ p.src \notin Hosts /\ p.dst \in Servers
        BY <2>1, <4>2, <4>4, <4>5 DEF IInv, TypeOK
      <4>7. RepliesComeHome'
        BY <1>1, <1>5, <2>2, <4>1, <4>4, <4>5, KeptJustified DEF RepliesComeHome, HasItem
      <4> QED
        BY <4>6, <4>7
    <3> QED
      BY <3>1, <3>2
  <2>5. TypeOK'
    BY <1>1, <1>5, <2>2, <2>3, <2>4 DEF IInv, TypeOK
  <2> QED
    BY <1>1, <1>5, <2>2, <2>4, <2>5, KeptJustified DEF IInv, CopiesJustified, RightHost
<1>6. ASSUME NEW pkt \in Translated(copy), pkt.dst \notin Outside[r], r \in DestRouters(pkt),
             delivered' = delivered \cup {[to |-> pkt.dst, host |-> pkt.host]},
             inFlight' = rest, UNCHANGED <<NATTable, availableAddrStack, outside>>
      PROVE  IInv'
  <2>1. pkt \in Packets /\ RightPacket(pkt)
    BY TranslatedRight
  <2>2. pkt.dst \in Hosts /\ pkt.host \in Hosts
    BY <1>1, <1>6, <2>1 DEF DestRouters, Packets
  <2>3. pkt.dst = pkt.host \/ pkt.host \in released
    BY <2>1, <2>2, NatNetAssumption DEF RightPacket
  <2>4. TypeOK'
    BY <1>1, <1>6, <2>2 DEF IInv, TypeOK
  <2>5. RightHost'
    BY <1>1, <1>6, <2>3 DEF IInv, RightHost
  <2> QED
    BY <1>1, <1>3, <1>6, <2>4, <2>5, KeptJustified DEF IInv, CopiesJustified
<1>7. ASSUME NEW pkt \in Translated(copy), pkt.dst \notin Outside[r], r \notin DestRouters(pkt),
             inFlight' = rest \cup
               {[pkt |-> pkt, at |-> Route[r][d], external |-> FALSE] : d \in DestRouters(pkt)},
             UNCHANGED <<NATTable, availableAddrStack, outside, delivered>>
      PROVE  IInv'
  <2>1. pkt \in Packets /\ RightPacket(pkt)
    BY TranslatedRight
  <2>2. DestRouters(pkt) \subseteq Routers
    BY DEF DestRouters, IInv, TypeOK
  <2>3. \A d \in DestRouters(pkt) : Route[r][d] \in Routers
    BY <1>1, <2>2, NatNetAssumption
  <2>4. \A c \in inFlight' : c \in inFlight \/
          (c \in [pkt : Packets, at : Routers, external : BOOLEAN] /\ ~c.external /\ c.pkt = pkt)
    <3> SUFFICES ASSUME NEW d \in DestRouters(pkt), NEW c,
                        c = [pkt |-> pkt, at |-> Route[r][d], external |-> FALSE]
                 PROVE  /\ c \in [pkt : Packets, at : Routers, external : BOOLEAN]
                        /\ ~c.external /\ c.pkt = pkt
      BY <1>7
    <3> QED
      BY <2>1, <2>3
  <2>5. TypeOK'
    BY <1>1, <1>7, <2>4 DEF IInv, TypeOK
  <2>6. RightPacket(pkt)'
    BY <1>1, <2>1 DEF RightPacket
  <2>7. CopiesJustified'
    BY <1>3, <1>7, <2>4, <2>6, KeptJustified DEF CopiesJustified, Justified
  <2> QED
    BY <1>1, <1>3, <1>7, <2>5, <2>7, KeptJustified DEF IInv, RightHost
<1> QED
  BY <1>4, <1>5, <1>6, <1>7 DEF RouteData

LEMMA Inductive == IInv /\ [Next]_vars => IInv'
<1> SUFFICES ASSUME IInv, [Next]_vars PROVE IInv'
  OBVIOUS
<1>1. CASE UNCHANGED vars
  BY <1>1 DEF vars, tables, IInv, TypeOK, TablesOK, AddressesConserved, CopiesJustified,
              Justified, RightPacket, HasItem, RepliesComeHome, RightHost
<1>2. CASE Next
  BY <1>2, SendDataStep, ReplyStep, ReleaseStep, AddHostStep, RouteDataStep DEF Next
<1> QED
  BY <1>1, <1>2

-----------------------------------------------------------------------------
\* Theorems.

\* The inductive invariant holds in every reachable state.
THEOREM Invariance == Spec => []IInv
<1> QED
  BY InitIInv, Inductive, PTL DEF Spec

\* Every variable keeps its type.
THEOREM Typing == Spec => []TypeOK
<1>1. IInv => TypeOK
  BY DEF IInv
<1> QED
  BY <1>1, Invariance, PTL

\* No external address of a pool is lost or held twice, in whatever order packets
\* leave and items are released.
THEOREM Conservation == Spec => []AddressesConserved
<1>1. IInv => AddressesConserved
  BY DEF IInv
<1> QED
  BY <1>1, Invariance, PTL

\* A packet outside can be answered until the item of its host is released.
THEOREM Answerable == Spec => []RepliesComeHome
<1>1. IInv => RepliesComeHome
  BY DEF IInv
<1> QED
  BY <1>1, Invariance, PTL

\* Translation and forwarding bring no host a packet of another's conversation,
\* unless the other's item was released.
THEOREM Addressing == Spec => []RightHost
<1>1. IInv => RightHost
  BY DEF IInv
<1> QED
  BY <1>1, Invariance, PTL
=============================================================================
