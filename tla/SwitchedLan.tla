----------------------------- MODULE SwitchedLan -----------------------------
(***************************************************************************)
(* A LAN of the switches of lab4-switch.  Each keeps a macTable of its own *)
(* and ages it at its own pace; all they learn is in the frames that pass. *)
(*                                                                         *)
(* The LAN is outside src/ (a simulator drives ProcessFrame): its wires    *)
(* and hosts are modelled from what ProcessFrame takes and returns.  The   *)
(* wires form a tree, frames are not lost, and a flooded frame leaves by   *)
(* every port but the one it came in by.  Hosts may be replugged.          *)
(***************************************************************************)
EXTENDS EthernetSwitch, FiniteSets, Sequences

CONSTANTS
    Switches,
    Hosts,
    Ports,       \* the ports of every switch, in 1..portNum
    Wire,        \* the other end of each trunk: <<switch, port>> -> <<switch, port>>
    Toward,      \* Toward[s][t]: the trunk port of s on the path to switch t
    Home,        \* where each host is plugged in first
    MaxFrames,   \* bound: data frames sent
    MaxMoves     \* bound: hosts replugged

Trunks == DOMAIN Wire
Plugs == (Switches \X Ports) \ Trunks   \* where hosts may be

\* The port of switch s behind which plug lies.
PortTo(s, plug) == IF plug[1] = s THEN plug[2] ELSE Toward[s][plug[1]]

\* Every plug is on exactly one side of every wire: the wires form a tree.
ASSUME LanAssumption ==
    /\ Ports \subseteq Nat \ {0}
    /\ Wire \in [Trunks -> Trunks] /\ Trunks \subseteq Switches \X Ports
    /\ Toward \in [Switches -> [Switches -> Ports]]
    /\ \A s, t \in Switches : s # t => <<s, Toward[s][t]>> \in Trunks
    /\ \A end \in Trunks : \A plug \in Plugs :
        LET other == Wire[end]
        IN  PortTo(end[1], plug) = end[2] <=> PortTo(other[1], plug) # other[2]
    /\ Home \in [Hosts -> Plugs]
    /\ \A h, k \in Hosts : h # k => Home[h] # Home[k]
    /\ MaxFrames \in Nat /\ MaxMoves \in Nat

VARIABLES
    plugged,    \* where each host is
    moved,      \* hosts replugged so far
    macTable,   \* each switch's table
    sent,       \* the data frames sent, in order
    inFlight,   \* copies about to be processed: frame's index, switch, in port
    received    \* how often each frame has reached its destination

vars == <<plugged, moved, macTable, sent, inFlight, received>>

Entries == [port : Ports, counter : 1..ETHER_MAC_AGING_THRESHOLD]
Tables == UNION {[known -> Entries] : known \in SUBSET Hosts}

Copies == [id : 1..Len(sent), sw : Switches, in : Ports]

TypeOK ==
    /\ plugged \in [Hosts -> Plugs]
    /\ moved \subseteq Hosts
    /\ macTable \in [Switches -> Tables]
    /\ sent \in Seq([src : Hosts, dest : Hosts]) /\ Len(sent) <= MaxFrames
    /\ inFlight \subseteq Copies
    /\ received \in [1..MaxFrames -> Nat]

Init ==
    /\ plugged = Home
    /\ moved = {}
    /\ macTable = [s \in Switches |-> EmptyTable]
    /\ sent = <<>>
    /\ inFlight = {}
    /\ received = [id \in 1..MaxFrames |-> 0]

\* Host src puts a data frame on its wire.
Send(src, dest) ==
    /\ Len(sent) < MaxFrames
    /\ src # dest
    /\ sent' = Append(sent, [src |-> src, dest |-> dest])
    /\ inFlight' = inFlight \cup
         {[id |-> Len(sent'), sw |-> plugged[src][1], in |-> plugged[src][2]]}
    /\ UNCHANGED <<plugged, moved, macTable, received>>

\* The ports by which a switch with this table passes the frame on.
Exits(table, dest, inPort) ==
    CASE OutPort(table, dest, inPort) = Flood -> Ports \ {inPort}
      [] OutPort(table, dest, inPort) = Drop -> {}
      [] OTHER -> {OutPort(table, dest, inPort)}

\* A switch processes a data frame; the wires take the copies on.
ProcessFrame(copy) ==
    LET frame == sent[copy.id]
        table == Learned(macTable[copy.sw], frame.src, copy.in)
        exits == {copy.sw} \X Exits(table, frame.dest, copy.in)
    IN  /\ macTable' = [macTable EXCEPT ![copy.sw] = table]
        /\ inFlight' = (inFlight \ {copy}) \cup
             {[id |-> copy.id, sw |-> Wire[exit][1], in |-> Wire[exit][2]] :
                exit \in exits \cap Trunks}
        /\ received' = IF plugged[frame.dest] \in exits
                       THEN [received EXCEPT ![copy.id] = @ + 1] ELSE received
        /\ UNCHANGED <<plugged, moved, sent>>

\* A switch processes a control frame.
AgeTable(s) ==
    /\ macTable' = [macTable EXCEPT ![s] = Aged(@)]
    /\ UNCHANGED <<plugged, moved, sent, inFlight, received>>

\* A host is unplugged and plugged in elsewhere.
Move(h, plug) ==
    /\ Cardinality(moved) < MaxMoves
    /\ h \notin moved
    /\ \A k \in Hosts : plugged[k] # plug
    /\ plugged' = [plugged EXCEPT ![h] = plug]
    /\ moved' = moved \cup {h}
    /\ UNCHANGED <<macTable, sent, inFlight, received>>

Next ==
    \/ \E src, dest \in Hosts : Send(src, dest)
    \/ \E copy \in inFlight : ProcessFrame(copy)
    \/ \E s \in Switches : AgeTable(s)
    \/ \E h \in Hosts, plug \in Plugs : Move(h, plug)

Spec == Init /\ [][Next]_vars

\* Every frame is processed in the end, and control frames keep coming.
Fairness ==
    /\ WF_vars(\E copy \in inFlight : ProcessFrame(copy))
    /\ \A s \in Switches : WF_vars(AgeTable(s))

FairSpec == Spec /\ Fairness

-----------------------------------------------------------------------------
\* Properties.

PointsHome(s, h) ==
    h \in DOMAIN macTable[s] => macTable[s][h].port = PortTo(s, plugged[h])

\* A switch's entry for a host that stays in place names the port behind which
\* the host is, whatever the other switches flood, drop or forget meanwhile:
\* ProcessFrame never passes a frame back, so a frame never seems to come from
\* where it is going.
StationaryEntries == \A s \in Switches, h \in Hosts \ moved : PointsHome(s, h)

\* The copy has not passed its destination yet.
Approaching(copy) ==
    copy.in # PortTo(copy.sw, plugged[sent[copy.id].dest])

\* A frame to a host that stays in place reaches it once: until then exactly
\* one of its copies is on the way there, however tables age along the path,
\* and afterwards none is.
ExactlyOnce ==
    \A id \in 1..Len(sent) : sent[id].dest \notin moved =>
        received[id] + Cardinality({c \in inFlight : c.id = id /\ Approaching(c)}) = 1

\* Entries that a move made wrong are aged out or learned anew, and once hosts
\* and frames have come to rest every table is right for good.
TablesSettle == <>[](\A s \in Switches, h \in Hosts : PointsHome(s, h))
=============================================================================
