----------------------------- MODULE RoutingNet -----------------------------
(***************************************************************************)
(* Routers of lab3-router that exchange distance vectors: the branches     *)
(* TRIGGER DV SEND, PORT VALUE CHANGE and TYPE_DV of Router::router.       *)
(*                                                                         *)
(* The network is outside src/ (a simulator drives router()): a broadcast  *)
(* puts the vector on every link of the router, a link is a FIFO queue in  *)
(* each direction, and the two ends of a link are told of its cost one by  *)
(* one, in any order relative to everything else.                          *)
(***************************************************************************)
EXTENDS Router, Sequences, Functions

CONSTANTS
    Link,     \* the other end of each link: <<router, port>> -> <<router, port>>
    Costs,    \* the costs each end is told in turn: <<router, port>> -> sequence
    MaxUnderWay   \* bound: with more vectors under way, no router is triggered

Ends == DOMAIN Link

ASSUME RoutingNetAssumption ==
    /\ Link \in [Ends -> Ends] /\ Ends \subseteq Routers \X LinkPorts
    /\ \A end \in Ends : Link[Link[end]] = end /\ Link[end][1] # end[1]
    /\ \A end \in Ends :
         /\ Costs[end] \in Seq(Nat \cup {Unknown}) /\ Costs[end] # <<>>
         /\ Costs[Link[end]] = Costs[end]

VARIABLES
    DistanceVectorTable,  \* each router's
    portValueTable,
    portToRouter,         \* neighbours heard of, port -> router
    told,                 \* costs each end has been told
    wire                  \* vectors under way to each end

vars == <<DistanceVectorTable, portValueTable, portToRouter, told, wire>>

TypeOK ==
    /\ DistanceVectorTable \in [Routers -> [{Self} \cup LinkPorts -> Vectors]]
    /\ \A r \in Routers : DistanceVectorTable[r][Self][r] = 0
    /\ portValueTable \in [Routers -> [LinkPorts -> Nat \cup {Unknown}]]
    /\ \A r \in Routers : \A port \in DOMAIN portToRouter[r] :
         portToRouter[r][port] = Link[<<r, port>>][1]
    /\ \A end \in Ends : told[end] \in 1..Len(Costs[end])
    /\ wire \in [Ends -> Seq(Vectors)]

\* After router_init and the first PORT VALUE CHANGE of every port, which only
\* sets the port's value.  (A first cost of Unknown stands for one to come later.)
Init ==
    /\ DistanceVectorTable = [r \in Routers |-> InitialTable(r)]
    /\ portValueTable =
         [r \in Routers |-> [port \in LinkPorts |->
            IF <<r, port>> \in Ends THEN Costs[<<r, port>>][1] ELSE Unknown]]
    /\ portToRouter = [r \in Routers |-> <<>>]
    /\ told = [end \in Ends |-> 1]
    /\ wire = [end \in Ends |-> <<>>]

\* The wires once router id has broadcast its own vector.
Broadcast(wires, id, vector) ==
    [end \in Ends |->
        IF Link[end][1] = id THEN Append(wires[end], vector) ELSE wires[end]]

\* TRIGGER DV SEND.
TriggerDvSend(r) ==
    /\ SumFunction([end \in Ends |-> Len(wire[end])]) <= MaxUnderWay
    /\ wire' = Broadcast(wire, r, DistanceVectorTable[r][Self])
    /\ UNCHANGED <<DistanceVectorTable, portValueTable, portToRouter, told>>

\* PORT VALUE CHANGE: the distance to the neighbour behind the port is computed
\* anew if the neighbour is known.  No other distance is, and nothing is sent.
PortValueChange(r, port) ==
    LET end == <<r, port>>
        values == [portValueTable[r] EXCEPT ![port] = Costs[end][told[end] + 1]]
    IN  /\ told[end] < Len(Costs[end])
        /\ told' = [told EXCEPT ![end] = @ + 1]
        /\ portValueTable' = [portValueTable EXCEPT ![r] = values]
        /\ DistanceVectorTable' =
             IF port \in DOMAIN portToRouter[r]
             THEN [DistanceVectorTable EXCEPT ![r] =
                     Updated(@, values, {portToRouter[r][port]})]
             ELSE DistanceVectorTable
        /\ UNCHANGED <<portToRouter, wire>>

\* The neighbours known once the one behind port has sent a vector.
Met(neighbours, port, neighbour) ==
    [p \in DOMAIN neighbours \cup {port} |-> IF p = port THEN neighbour ELSE neighbours[p]]

\* TYPE_DV.
ReceiveDv(r, port) ==
    LET end == <<r, port>>
        rest == [wire EXCEPT ![end] = Tail(@)]
        vector == DistanceVectorTable'[r][Self]
    IN  /\ wire[end] # <<>>
        /\ DistanceVectorTable' =
             [DistanceVectorTable EXCEPT ![r] =
                Heard(@, portValueTable[r], r, port, Head(wire[end]))]
        /\ portToRouter' = [portToRouter EXCEPT ![r] = Met(@, port, Link[end][1])]
        /\ wire' = IF vector # DistanceVectorTable[r][Self] THEN Broadcast(rest, r, vector) ELSE rest
        /\ UNCHANGED <<portValueTable, told>>

Next ==
    \/ \E r \in Routers : TriggerDvSend(r)
    \/ \E end \in Ends : PortValueChange(end[1], end[2])
    \/ \E end \in Ends : ReceiveDv(end[1], end[2])

Spec == Init /\ [][Next]_vars

\* Every end is told in the end, vectors arrive, and triggers keep coming.
Fairness ==
    /\ \A end \in Ends :
         /\ WF_vars(PortValueChange(end[1], end[2]))
         /\ WF_vars(ReceiveDv(end[1], end[2]))
    /\ \A r \in Routers : SF_vars(TriggerDvSend(r))

FairSpec == Spec /\ Fairness

-----------------------------------------------------------------------------
\* Properties.

\* The cheapest way from router r to router d along at most n links, where
\* cost[end] is the cost of a link, Unknown if it cannot be used.
Shortest(cost, hops) ==
    LET within[n \in Nat] ==
          [r, d \in Routers |->
            IF n = 0 THEN IF r = d THEN 0 ELSE Infinity
            ELSE Min({within[n - 1][r, d]} \cup
                     {cost[end] + within[n - 1][Link[end][1], d] :
                        end \in {e \in Ends : e[1] = r /\ cost[e] # Unknown}})]
    IN  within[hops]

FinalCost == [end \in Ends |-> Costs[end][Len(Costs[end])]]

LowestCost ==
    [end \in Ends |->
        LET usable == {Costs[end][i] : i \in DOMAIN Costs[end]} \ {Unknown}
        IN  IF usable = {} THEN Unknown ELSE Min(usable)]

Distance == Shortest(FinalCost, Cardinality(Routers))
LowestDistance == Shortest(LowestCost, Cardinality(Routers))

\* bound is below every way along links at costs their ends are ever told.
BelowEveryWay(bound) ==
    /\ bound \in [Routers \X Routers -> Nat]
    /\ \A r \in Routers : bound[r, r] = 0
    /\ \A end \in Ends, d \in Routers : \A i \in DOMAIN Costs[end] :
         Costs[end][i] # Unknown => bound[end[1], d] <= Costs[end][i] + bound[Link[end][1], d]

\* Whatever vectors and cost changes cross on the way, no router ever believes
\* a distance shorter than a way that existed at some time.
NeverTooShort ==
    \A r, d \in Routers :
        DistanceVectorTable[r][Self][d] # Unknown =>
            DistanceVectorTable[r][Self][d] >= LowestDistance[r, d]

\* Once the costs rest, every router comes to know the true distances, after
\* costs that went up and links that went down too, as long as the network
\* stays connected.
DistancesSettle ==
    <>[](\A r, d \in Routers : DistanceVectorTable[r][Self][d] = Distance[r, d])

\* The routers a packet from r to d visits, n links on; Routers' tables send it to
\* the default port if they know no way.
After(r, d) ==
    LET next(x) ==
          LET port == NextHop(DistanceVectorTable[x], portValueTable[x], d)
          IN  IF port = Default THEN Unknown ELSE Link[<<x, port>>][1]
        hop[n \in Nat] ==
          IF n = 0 THEN r
          ELSE LET x == hop[n - 1] IN IF x \in {d, Unknown} THEN x ELSE next(x)
    IN  hop[Cardinality(Routers) - 1]

\* In the end, packets follow the tables from every router to every other one,
\* without a loop and without falling back on the default port.
RoutesArrive == <>[](\A r, d \in Routers : After(r, d) = d)
=============================================================================
