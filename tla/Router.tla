------------------------------- MODULE Router -------------------------------
(***************************************************************************)
(* The router of lab3-router: what Router::router (router.cpp) computes    *)
(* from the tables of one router, as operators.                            *)
(*                                                                         *)
(* DistanceVectorTable is a function from 0 (the router itself) and its    *)
(* ports to vectors of distances, portValueTable one from ports to link    *)
(* costs; -1 is unknown, or a link that is down.  Ports 0 and 1 are no     *)
(* links: returning 0 asks the caller to broadcast, 1 is the default       *)
(* route, -1 drops the packet.                                             *)
(***************************************************************************)
EXTENDS Integers, FiniteSetsExt

CONSTANTS
    Routers,    \* the ids, those below routerNum
    LinkPorts,  \* 2..portNum, the ports that are looked at for routes
    Infinity    \* 0x3a3a3a3a

ASSUME RouterAssumption ==
    /\ Routers \subseteq Nat
    /\ LinkPorts \subseteq Nat \ {0, 1}
    /\ Infinity \in Nat

Self == 0
Default == 1
Unknown == -1

Vectors == [Routers -> Nat \cup {Unknown}]

\* router_init: nothing is known but the distance 0 to itself.
InitialTable(id) ==
    [port \in {Self} \cup LinkPorts |->
        [r \in Routers |-> IF port = Self /\ r = id THEN 0 ELSE Unknown]]

Offers_CountsDown(table, values, r) ==   \* mutant: a link that is down still counts
    {values[port] + table[port][r] : port \in {p \in LinkPorts : table[p][r] >= 0}}

\* The distances to r by way of the neighbours.
Offers(table, values, r) ==
    {values[port] + table[port][r] :
        port \in {p \in LinkPorts : values[p] >= 0 /\ table[p][r] >= 0}}

minDist(table, values, r) == Min({Infinity} \cup Offers(table, values, r))

Updated_OnlyLower(table, values, dests) ==   \* mutant: no bad news is believed
    [table EXCEPT ![Self] =
        [r \in Routers |->
            IF /\ r \in dests
               /\ minDist(table, values, r) # Infinity
               /\ @[r] = Unknown \/ minDist(table, values, r) < @[r]
            THEN minDist(table, values, r) ELSE @[r]]]

\* The router's own distances to dests computed anew.  Where no neighbour
\* offers any, the old one stays.
Updated(table, values, dests) ==
    [table EXCEPT ![Self] =
        [r \in Routers |->
            IF r \in dests /\ minDist(table, values, r) # Infinity
            THEN minDist(table, values, r) ELSE @[r]]]

Heard_SelfToo(table, values, id, inPort, vector) ==   \* mutant: its own distance as well
    Updated([table EXCEPT ![inPort] = vector], values, Routers)

\* The table after a neighbour's vector came in by inPort.
Heard(table, values, id, inPort, vector) ==
    Updated([table EXCEPT ![inPort] = vector], values, Routers \ {id})

NextHop_AnyWay(table, values, dest) ==   \* mutant: any neighbour that knows a way will do
    LET ports == {p \in LinkPorts : values[p] # Unknown /\ table[p][dest] # Unknown}
    IN  IF table[Self][dest] = Unknown \/ ports = {} THEN Default ELSE Min(ports)

\* The port for a packet to another router: the first one whose offer is the
\* known distance, the default port if there is none.
NextHop(table, values, dest) ==
    LET ports == {p \in LinkPorts :
                    /\ values[p] # Unknown
                    /\ table[p][dest] # Unknown
                    /\ values[p] + table[p][dest] = table[Self][dest]}
    IN  IF table[Self][dest] = Unknown \/ ports = {} THEN Default ELSE Min(ports)
=============================================================================
