------------------------------- MODULE NatNet -------------------------------
(***************************************************************************)
(* The way of data packets through the routers of lab3-router: the         *)
(* TYPE_DATA branch of Router::router with address translation at the      *)
(* routers that have an external port, RELEASE NAT ITEM and ADD HOST.      *)
(* The distance tables have settled (RoutingNet): Route is where they      *)
(* lead.                                                                   *)
(*                                                                         *)
(* The hosts, the servers outside and the links are not in src/: a server  *)
(* may answer a packet it has got at any later time, and more than once.   *)
(* A packet carries the host whose conversation it belongs to, which no    *)
(* router looks at.                                                        *)
(***************************************************************************)
EXTENDS Integers, Sequences, SequencesExt

CONSTANTS
    Routers,
    Hosts,      \* internal addresses
    Outside,    \* Outside[r]: the servers in externalAddr of router r, {} without external port
    Available,  \* Available[r]: availableAddr of router r, in the order it is pushed
    Route,      \* Route[r][d]: the next router from r to router d
    HomeRouter, \* where each host is added first
    Budget      \* bound: how many data packets, replies, releases and moves there are

Servers == UNION {Outside[r] : r \in Routers}
Pool(r) == ToSet(Available[r])
Addresses == Hosts \cup Servers \cup UNION {Pool(r) : r \in Routers}
Events == {"data", "reply", "release", "move"}

ASSUME NatNetAssumption ==
    /\ Available \in [Routers -> Seq(Addresses)]
    /\ \A r \in Routers :
         /\ IsInjective(Available[r])
         /\ Pool(r) \cap (Hosts \cup Servers) = {}
    /\ \A r, s \in Routers : r # s => Outside[r] \cap Outside[s] = {} /\ Pool(r) \cap Pool(s) = {}
    /\ Hosts \cap Servers = {}
    /\ Route \in [Routers -> [Routers -> Routers]]
    /\ HomeRouter \in [Hosts -> Routers]
    /\ Budget \in [Events -> Nat]

VARIABLES
    NATTable,            \* each router's: internal address -> external address
    availableAddrStack,  \* each router's, the top last
    hostTable,           \* shared by all routers: host -> router
    inFlight,            \* packets on their way: the packet, the next router, and
                         \* whether it comes in by the external port
    outside,             \* packets that have left by an external port
    delivered,           \* who got a packet of whose conversation
    released,            \* hosts whose NAT item has been released
    budget               \* what is left of Budget

tables == <<NATTable, availableAddrStack, hostTable>>
vars == <<tables, inFlight, outside, delivered, released, budget>>

Packets == [src : Addresses, dst : Addresses, host : Hosts]

TypeOK ==
    /\ \A r \in Routers :
         /\ DOMAIN NATTable[r] \subseteq Hosts
         /\ \A h \in DOMAIN NATTable[r] : NATTable[r][h] \in Pool(r)
    /\ availableAddrStack \in [Routers -> Seq(Addresses)]
    /\ hostTable \in [Hosts -> Routers]
    /\ inFlight \subseteq [pkt : Packets, at : Routers, external : BOOLEAN]
    /\ \A p \in outside : p \in Packets /\ p.src \notin Hosts /\ p.dst \in Servers
    /\ delivered \subseteq [to : Hosts, host : Hosts]
    /\ released \subseteq Hosts
    /\ budget \in [Events -> Nat]

Init ==
    /\ NATTable = [r \in Routers |-> <<>>]
    /\ availableAddrStack = Available
    /\ hostTable = HomeRouter
    /\ inFlight = {}
    /\ outside = {}
    /\ delivered = {}
    /\ released = {}
    /\ budget = Budget

Spend(event) ==
    /\ budget[event] > 0
    /\ budget' = [budget EXCEPT ![event] = @ - 1]

-----------------------------------------------------------------------------
\* The hosts and the servers.

SendData(h, dst) ==
    /\ Spend("data")
    /\ h # dst
    /\ inFlight' = inFlight \cup
         {[pkt |-> [src |-> h, dst |-> dst, host |-> IF dst \in Hosts THEN dst ELSE h],
           at |-> hostTable[h], external |-> FALSE]}
    /\ UNCHANGED <<tables, outside, delivered, released>>

Reply(p) ==
    /\ Spend("reply")
    /\ \E r \in Routers :
         /\ p.dst \in Outside[r]
         /\ inFlight' = inFlight \cup
              {[pkt |-> [src |-> p.dst, dst |-> p.src, host |-> p.host],
                at |-> r, external |-> TRUE]}
    /\ UNCHANGED <<tables, outside, delivered, released>>

-----------------------------------------------------------------------------
\* Router::router.

Erased(nat, h) == [k \in DOMAIN nat \ {h} |-> nat[k]]
Added(nat, h, ip) == [k \in DOMAIN nat \cup {h} |-> IF k = h THEN ip ELSE nat[k]]

ReleaseNat_AlwaysPushes(r, h) ==   \* mutant: the entry stays
    /\ h \in DOMAIN NATTable[r]
    /\ availableAddrStack' = [availableAddrStack EXCEPT ![r] = Append(@, NATTable[r][h])]
    /\ UNCHANGED NATTable

\* RELEASE NAT ITEM; nothing happens without an item.
ReleaseNat(r, h) ==
    /\ h \in DOMAIN NATTable[r]
    /\ availableAddrStack' = [availableAddrStack EXCEPT ![r] = Append(@, NATTable[r][h])]
    /\ NATTable' = [NATTable EXCEPT ![r] = Erased(@, h)]

ReleaseCommand(r, h) ==
    /\ Spend("release")
    /\ \/ ReleaseNat(r, h)
       \/ h \notin DOMAIN NATTable[r] /\ UNCHANGED <<NATTable, availableAddrStack>>
    /\ released' = released \cup {h}
    /\ UNCHANGED <<hostTable, inFlight, outside, delivered>>

\* ADD HOST, for a host that moves.
AddHost(h, r) ==
    /\ Spend("move")
    /\ hostTable' = [hostTable EXCEPT ![h] = r]
    /\ UNCHANGED <<NATTable, availableAddrStack, inFlight, outside, delivered, released>>

Incoming_AnyItem(r, pkt) ==   \* mutant: whichever item comes first
    {[pkt EXCEPT !.dst = h] : h \in DOMAIN NATTable[r]}

Incoming_BySource(r, pkt) ==   \* mutant: looks for the wrong address
    {[pkt EXCEPT !.dst = h] : h \in {k \in DOMAIN NATTable[r] : NATTable[r][k] = pkt.src}}

\* A packet from outside with the internal address put in: none without an item.
Incoming(r, pkt) ==
    {[pkt EXCEPT !.dst = h] : h \in {k \in DOMAIN NATTable[r] : NATTable[r][k] = pkt.dst}}

\* The packet as the rest of the branch sees it.
Translated(copy) == IF copy.external THEN Incoming(copy.at, copy.pkt) ELSE {copy.pkt}

Leave_Untranslated(pkt, external_ip) == outside' = outside \cup {pkt}   \* mutant

Leave(pkt, external_ip) == outside' = outside \cup {[pkt EXCEPT !.src = external_ip]}

Outgoing_Anew(r, pkt) ==   \* mutant: a new address for every packet
    \/ /\ availableAddrStack[r] # <<>>
       /\ NATTable' = [NATTable EXCEPT ![r] = Added(@, pkt.src, Last(availableAddrStack[r]))]
       /\ availableAddrStack' = [availableAddrStack EXCEPT ![r] = Front(@)]
       /\ Leave(pkt, Last(availableAddrStack[r]))
    \/ /\ availableAddrStack[r] = <<>>
       /\ UNCHANGED <<NATTable, availableAddrStack, outside>>

\* A packet to the outside leaves under the address of its source, a new one if
\* it has none; it is dropped when none is left.
Outgoing(r, pkt) ==
    \/ /\ pkt.src \in DOMAIN NATTable[r]
       /\ Leave(pkt, NATTable[r][pkt.src])
       /\ UNCHANGED <<NATTable, availableAddrStack>>
    \/ /\ pkt.src \notin DOMAIN NATTable[r]
       /\ availableAddrStack[r] # <<>>
       /\ NATTable' = [NATTable EXCEPT ![r] = Added(@, pkt.src, Last(availableAddrStack[r]))]
       /\ availableAddrStack' = [availableAddrStack EXCEPT ![r] = Front(@)]
       /\ Leave(pkt, Last(availableAddrStack[r]))
    \/ /\ pkt.src \notin DOMAIN NATTable[r]
       /\ availableAddrStack[r] = <<>>
       /\ UNCHANGED <<NATTable, availableAddrStack, outside>>

\* destRouter, if there is any: where the host is, or whose external network it is.
DestRouters(pkt) ==
    IF pkt.dst \in Hosts THEN {hostTable[pkt.dst]}
    ELSE {r \in Routers : pkt.dst \in Outside[r]}

RouteData(copy) ==
    LET r == copy.at
        rest == inFlight \ {copy}
    IN  /\ \/ /\ Translated(copy) = {}
              /\ inFlight' = rest
              /\ UNCHANGED <<NATTable, availableAddrStack, outside, delivered>>
           \/ \E pkt \in Translated(copy) :
                \/ /\ pkt.dst \in Outside[r]
                   /\ Outgoing(r, pkt)
                   /\ inFlight' = rest
                   /\ UNCHANGED delivered
                \/ /\ pkt.dst \notin Outside[r]
                   /\ r \in DestRouters(pkt)
                   /\ delivered' = delivered \cup {[to |-> pkt.dst, host |-> pkt.host]}
                   /\ inFlight' = rest
                   /\ UNCHANGED <<NATTable, availableAddrStack, outside>>
                \/ /\ pkt.dst \notin Outside[r]
                   /\ r \notin DestRouters(pkt)
                   /\ inFlight' = rest \cup
                        {[pkt |-> pkt, at |-> Route[r][d], external |-> FALSE] : d \in DestRouters(pkt)}
                   /\ UNCHANGED <<NATTable, availableAddrStack, outside, delivered>>
        /\ UNCHANGED <<hostTable, released, budget>>

Next ==
    \/ \E h \in Hosts, dst \in Hosts \cup Servers : SendData(h, dst)
    \/ \E p \in outside : Reply(p)
    \/ \E r \in Routers, h \in Hosts : ReleaseCommand(r, h) \/ AddHost(h, r)
    \/ \E copy \in inFlight : RouteData(copy)

Spec == Init /\ [][Next]_vars

\* The network takes every packet on.
FairSpec == Spec /\ WF_vars(\E copy \in inFlight : RouteData(copy))

-----------------------------------------------------------------------------
\* Properties.

\* No external address is ever lost, or held by two hosts, or both held and
\* available, in whatever order packets and releases come.
AddressesConserved ==
    \A r \in Routers :
        LET nat == NATTable[r]
            stack == availableAddrStack[r]
            held == {nat[h] : h \in DOMAIN nat}
        IN  /\ IsInjective(nat) /\ IsInjective(stack)
            /\ held \cap ToSet(stack) = {}
            /\ held \cup ToSet(stack) = Pool(r)

\* A packet outside can be answered: as long as the item of its host was not
\* released, the address it left under leads back to the host.
RepliesComeHome ==
    \A p \in outside : p.host \notin released =>
        \E r \in Routers :
            p.dst \in Outside[r] /\ p.host \in DOMAIN NATTable[r] /\ NATTable[r][p.host] = p.src

\* Nobody gets a packet of another's conversation, unless the item of that other
\* host was released: a late answer may then find its address held by somebody else.
RightHost == \A d \in delivered : d.to = d.host \/ d.host \in released

\* An answer reaches its host wherever that has moved, through translation and
\* forwarding, unless the item was released.
AnswersArrive ==
    \A h \in Hosts :
        (\E copy \in inFlight : copy.external /\ copy.pkt.host = h)
            ~> [to |-> h, host |-> h] \in delivered \/ h \in released
=============================================================================
