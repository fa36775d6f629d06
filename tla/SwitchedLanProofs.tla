-------------------------- MODULE SwitchedLanProofs --------------------------
(***************************************************************************)
(* Proofs about SwitchedLan, for every tree of switches and every number   *)
(* of hosts, frames and moves.                                             *)
(***************************************************************************)
EXTENDS SwitchedLan, FiniteSetTheorems, SequenceTheorems, TLAPS

\* A copy comes in by the port behind which its source is.
FramesComeFromHome ==
    \A copy \in inFlight :
        sent[copy.id].src \notin moved =>
            copy.in = PortTo(copy.sw, plugged[sent[copy.id].src])

IInv == TypeOK /\ FramesComeFromHome /\ StationaryEntries

-----------------------------------------------------------------------------
\* Tables.

LEMMA AgedTable ==
    ASSUME NEW table \in Tables
    PROVE  /\ Aged(table) \in Tables
           /\ \A h \in DOMAIN Aged(table) :
                h \in DOMAIN table /\ Aged(table)[h].port = table[h].port
<1>1. PICK known \in SUBSET Hosts : table \in [known -> Entries]
  BY DEF Tables
<1> DEFINE kept == {m \in DOMAIN table : table[m].counter - 1 # 0}
<1>2. \A h \in kept : [table[h] EXCEPT !.counter = @ - 1] \in Entries
  <2> SUFFICES ASSUME NEW h \in kept PROVE [table[h] EXCEPT !.counter = @ - 1] \in Entries
    OBVIOUS
  <2>1. table[h] \in Entries /\ table[h].counter - 1 # 0
    BY <1>1
  <2> QED
    BY <2>1, AgingAssumption DEF Entries
<1>3. Aged(table) = [h \in kept |-> [table[h] EXCEPT !.counter = @ - 1]]
  BY DEF Aged
<1>4. Aged(table) \in [kept -> Entries] /\ kept \subseteq Hosts
  BY <1>1, <1>2, <1>3
<1>5. \A h \in kept : Aged(table)[h].port = table[h].port
  BY <1>1, <1>3 DEF Entries
<1> QED
  BY <1>3, <1>4, <1>5 DEF Tables

LEMMA LearnedTable ==
    ASSUME NEW table \in Tables, NEW src \in Hosts, NEW inPort \in Ports
    PROVE  /\ Learned(table, src, inPort) \in Tables
           /\ Learned(table, src, inPort)[src].port = inPort
           /\ \A h \in DOMAIN Learned(table, src, inPort) : h # src =>
                /\ h \in DOMAIN table
                /\ Learned(table, src, inPort)[h] = table[h]
<1>1. PICK known \in SUBSET Hosts : table \in [known -> Entries]
  BY DEF Tables
<1>2. [port |-> inPort, counter |-> ETHER_MAC_AGING_THRESHOLD] \in Entries
  BY AgingAssumption DEF Entries
<1>3. Learned(table, src, inPort) \in [known \cup {src} -> Entries]
  BY <1>1, <1>2 DEF Learned
<1>4. Learned(table, src, inPort) \in Tables
  BY <1>3 DEF Tables
<1> QED
  BY <1>1, <1>4 DEF Learned

\* No exit is the port the frame came in by.
LEMMA ExitsLeadOn ==
    ASSUME NEW table \in Tables, NEW dest \in Hosts, NEW inPort \in Ports
    PROVE  Exits(table, dest, inPort) \subseteq Ports \ {inPort}
<1>1. PICK known \in SUBSET Hosts : table \in [known -> Entries]
  BY DEF Tables
<1>2. dest \in DOMAIN table => table[dest].port \in Ports
  BY <1>1 DEF Entries
<1>3. 0 \notin Ports /\ -1 \notin Ports /\ 0 # -1
  BY LanAssumption
<1>4. CASE dest \notin DOMAIN table
  BY <1>3, <1>4 DEF Exits, OutPort, Flood, Drop
<1>5. CASE dest \in DOMAIN table /\ table[dest].port = inPort
  BY <1>3, <1>5 DEF Exits, OutPort, Flood, Drop
<1>6. CASE dest \in DOMAIN table /\ table[dest].port # inPort
  BY <1>2, <1>3, <1>6 DEF Exits, OutPort, Flood, Drop
<1> QED
  BY <1>4, <1>5, <1>6

-----------------------------------------------------------------------------
LEMMA InitIInv == Init => IInv
<1> SUFFICES ASSUME Init PROVE IInv
  OBVIOUS
<1>1. EmptyTable \in Tables /\ DOMAIN EmptyTable = {}
  BY DEF EmptyTable, Tables
<1>2. TypeOK
  BY <1>1, LanAssumption DEF Init, TypeOK
<1>3. FramesComeFromHome /\ StationaryEntries
  BY <1>1 DEF Init, FramesComeFromHome, StationaryEntries, PointsHome
<1> QED
  BY <1>2, <1>3 DEF IInv

LEMMA SendStep ==
    ASSUME IInv, NEW src \in Hosts, NEW dest \in Hosts, Send(src, dest)
    PROVE  IInv'
<1> DEFINE copy == [id |-> Len(sent'), sw |-> plugged[src][1], in |-> plugged[src][2]]
<1>1. /\ sent \in Seq([src : Hosts, dest : Hosts]) /\ Len(sent) < MaxFrames
      /\ inFlight \subseteq Copies
      /\ plugged \in [Hosts -> Plugs]
      /\ MaxFrames \in Nat
  BY LanAssumption DEF IInv, TypeOK, Send
<1>2. /\ sent' = Append(sent, [src |-> src, dest |-> dest])
      /\ inFlight' = inFlight \cup {copy}
      /\ UNCHANGED <<plugged, moved, macTable, received>>
  BY DEF Send
<1>3. /\ sent' \in Seq([src : Hosts, dest : Hosts])
      /\ Len(sent') = Len(sent) + 1 /\ Len(sent) \in Nat
      /\ sent'[Len(sent')] = [src |-> src, dest |-> dest]
      /\ \A id \in 1..Len(sent) : sent'[id] = sent[id]
  BY <1>1, <1>2
<1>4. plugged[src] \in Switches \X Ports
  BY <1>1 DEF Plugs
<1>5. copy \in [id : 1..Len(sent'), sw : Switches, in : Ports]
  BY <1>3, <1>4
<1>6. TypeOK'
  <2>1. inFlight' \subseteq Copies'
    BY <1>1, <1>2, <1>3, <1>5 DEF Copies
  <2> QED
    BY <1>1, <1>2, <1>3, <2>1 DEF IInv, TypeOK
<1>7. FramesComeFromHome'
  <2> SUFFICES ASSUME NEW c \in inFlight', sent'[c.id].src \notin moved
               PROVE  c.in = PortTo(c.sw, plugged[sent'[c.id].src])
    BY <1>2 DEF FramesComeFromHome, PortTo
  <2>1. CASE c = copy
    BY <1>3, <2>1 DEF PortTo
  <2>2. CASE c \in inFlight
    BY <1>1, <1>3, <2>2 DEF IInv, FramesComeFromHome, Copies
  <2> QED
    BY <1>2, <2>1, <2>2
<1>8. StationaryEntries'
  BY <1>2 DEF IInv, StationaryEntries, PointsHome, PortTo
<1> QED
  BY <1>6, <1>7, <1>8 DEF IInv

\* The wire carries a copy away from its source: it comes in at the other end by
\* the port behind which the source is.
LEMMA ProcessFrameStep ==
    ASSUME IInv, NEW copy \in inFlight, ProcessFrame(copy)
    PROVE  IInv'
<1> DEFINE frame == sent[copy.id]
           table == Learned(macTable[copy.sw], frame.src, copy.in)
           exits == {copy.sw} \X Exits(table, frame.dest, copy.in)
           onward == {[id |-> copy.id, sw |-> Wire[exit][1], in |-> Wire[exit][2]] :
                        exit \in exits \cap Trunks}
<1>1. /\ sent \in Seq([src : Hosts, dest : Hosts]) /\ Len(sent) <= MaxFrames
      /\ inFlight \subseteq Copies /\ copy \in Copies
      /\ plugged \in [Hosts -> Plugs]
      /\ macTable \in [Switches -> Tables]
      /\ received \in [1..MaxFrames -> Nat]
      /\ MaxFrames \in Nat
  BY LanAssumption DEF IInv, TypeOK
<1>2. /\ macTable' = [macTable EXCEPT ![copy.sw] = table]
      /\ inFlight' = (inFlight \ {copy}) \cup onward
      /\ received' = IF plugged[frame.dest] \in exits
                     THEN [received EXCEPT ![copy.id] = @ + 1] ELSE received
      /\ UNCHANGED <<plugged, moved, sent>>
  BY Zenon DEF ProcessFrame
<1>3. /\ copy.id \in 1..Len(sent) /\ copy.id \in 1..MaxFrames
      /\ copy.sw \in Switches /\ copy.in \in Ports
      /\ frame.src \in Hosts /\ frame.dest \in Hosts
  <2>1. copy.id \in 1..Len(sent) /\ copy.sw \in Switches /\ copy.in \in Ports
    BY <1>1 DEF Copies
  <2>2. frame \in [src : Hosts, dest : Hosts]
    BY <1>1, <2>1, ElementOfSeq
  <2> QED
    BY <1>1, <2>1, <2>2
<1>4. /\ table \in Tables
      /\ table[frame.src].port = copy.in
      /\ \A h \in DOMAIN table : h # frame.src =>
            h \in DOMAIN macTable[copy.sw] /\ table[h] = macTable[copy.sw][h]
  BY <1>1, <1>3, LearnedTable
<1>5. Exits(table, frame.dest, copy.in) \subseteq Ports \ {copy.in}
  BY <1>3, <1>4, ExitsLeadOn
<1>6. frame.src \notin moved => copy.in = PortTo(copy.sw, plugged[frame.src])
  BY DEF IInv, FramesComeFromHome
<1> HIDE DEF table
<1>7. ASSUME NEW c \in onward
      PROVE  /\ c \in Copies /\ c.id = copy.id
             /\ frame.src \notin moved => c.in = PortTo(c.sw, plugged[frame.src])
  <2>1. PICK exit \in exits \cap Trunks :
          c = [id |-> copy.id, sw |-> Wire[exit][1], in |-> Wire[exit][2]]
    OBVIOUS
  <2>2. Wire[exit] \in Switches \X Ports
    BY <2>1, LanAssumption
  <2>3. exit[1] = copy.sw /\ exit[2] # copy.in /\ exit \in Trunks
    BY <1>5, <2>1
  <2>4. ASSUME frame.src \notin moved
        PROVE  PortTo(Wire[exit][1], plugged[frame.src]) = Wire[exit][2]
    <3>1. plugged[frame.src] \in Plugs
      BY <1>1, <1>3
    <3>2. PortTo(exit[1], plugged[frame.src]) # exit[2]
      BY <1>6, <2>3, <2>4
    <3> QED
      BY <2>3, <3>1, <3>2, LanAssumption
  <2> QED
    BY <1>3, <2>1, <2>2, <2>4 DEF Copies
<1> HIDE DEF onward, frame, exits
<1>8. TypeOK'
  <2>1. inFlight' \subseteq Copies'
    BY <1>1, <1>2, <1>7 DEF Copies
  <2>2. macTable' \in [Switches -> Tables]
    BY <1>1, <1>2, <1>4
  <2>3. received' \in [1..MaxFrames -> Nat]
    BY <1>1, <1>2, <1>3
  <2> QED
    BY <1>2, <2>1, <2>2, <2>3 DEF IInv, TypeOK
<1>9. FramesComeFromHome'
  <2> SUFFICES ASSUME NEW c \in inFlight', sent[c.id].src \notin moved
               PROVE  c.in = PortTo(c.sw, plugged[sent[c.id].src])
    BY <1>2 DEF FramesComeFromHome, PortTo
  <2>1. CASE c \in onward
    BY <1>7, <2>1 DEF frame
  <2>2. CASE c \in inFlight
    BY <2>2 DEF IInv, FramesComeFromHome
  <2> QED
    BY <1>2, <2>1, <2>2
<1>10. StationaryEntries'
  <2> SUFFICES ASSUME NEW s \in Switches, NEW h \in Hosts \ moved, h \in DOMAIN macTable'[s]
               PROVE  macTable'[s][h].port = PortTo(s, plugged[h])
    BY <1>2 DEF StationaryEntries, PointsHome, PortTo
  <2>1. CASE s # copy.sw
    BY <1>1, <1>2, <1>3, <2>1 DEF IInv, StationaryEntries, PointsHome
  <2>2. CASE s = copy.sw
    <3>1. macTable'[s] = table
      BY <1>1, <1>2, <1>3, <2>2
    <3>2. CASE h = frame.src
      BY <1>4, <1>6, <2>2, <3>1, <3>2
    <3>3. CASE h # frame.src
      BY <1>4, <2>2, <3>1, <3>3 DEF IInv, StationaryEntries, PointsHome
    <3> QED
      BY <3>2, <3>3
  <2> QED
    BY <2>1, <2>2
<1> QED
  BY <1>8, <1>9, <1>10 DEF IInv

LEMMA AgeTableStep ==
    ASSUME IInv, NEW s \in Switches, AgeTable(s)
    PROVE  IInv'
<1>1. /\ macTable \in [Switches -> Tables]
      /\ macTable' = [macTable EXCEPT ![s] = Aged(macTable[s])]
      /\ UNCHANGED <<plugged, moved, sent, inFlight, received>>
  BY DEF IInv, TypeOK, AgeTable
<1>2. /\ Aged(macTable[s]) \in Tables
      /\ \A h \in DOMAIN Aged(macTable[s]) :
            h \in DOMAIN macTable[s] /\ Aged(macTable[s])[h].port = macTable[s][h].port
  BY <1>1, AgedTable
<1>3. TypeOK' /\ FramesComeFromHome'
  BY <1>1, <1>2 DEF IInv, TypeOK, FramesComeFromHome, Copies, PortTo
<1>4. StationaryEntries'
  <2> SUFFICES ASSUME NEW t \in Switches, NEW h \in Hosts \ moved, h \in DOMAIN macTable'[t]
               PROVE  macTable'[t][h].port = PortTo(t, plugged[h])
    BY <1>1 DEF StationaryEntries, PointsHome, PortTo
  <2>1. h \in DOMAIN macTable[t] /\ macTable'[t][h].port = macTable[t][h].port
    BY <1>1, <1>2
  <2> QED
    BY <2>1 DEF IInv, StationaryEntries, PointsHome
<1> QED
  BY <1>3, <1>4 DEF IInv

LEMMA MoveStep ==
    ASSUME IInv, NEW h \in Hosts, NEW plug \in Plugs, Move(h, plug)
    PROVE  IInv'
<1>1. /\ plugged \in [Hosts -> Plugs] /\ moved \subseteq Hosts
      /\ plugged' = [plugged EXCEPT ![h] = plug]
      /\ moved' = moved \cup {h}
      /\ UNCHANGED <<macTable, sent, inFlight, received>>
  BY DEF IInv, TypeOK, Move
<1>2. \A k \in Hosts \ moved' : k \notin moved /\ plugged'[k] = plugged[k]
  BY <1>1
<1>3. TypeOK'
  BY <1>1 DEF IInv, TypeOK, Copies
<1>4. FramesComeFromHome'
  <2> SUFFICES ASSUME NEW c \in inFlight, sent[c.id].src \notin moved'
               PROVE  c.in = PortTo(c.sw, plugged'[sent[c.id].src])
    BY <1>1 DEF FramesComeFromHome, PortTo
  <2>1. sent[c.id].src \in Hosts
    <3>1. c.id \in 1..Len(sent) /\ sent \in Seq([src : Hosts, dest : Hosts])
      BY DEF IInv, TypeOK, Copies
    <3>2. sent[c.id] \in [src : Hosts, dest : Hosts]
      BY <3>1, ElementOfSeq
    <3> QED
      BY <3>2
  <2> QED
    BY <1>2, <2>1 DEF IInv, FramesComeFromHome
<1>5. StationaryEntries'
  BY <1>1, <1>2 DEF IInv, StationaryEntries, PointsHome, PortTo
<1> QED
  BY <1>3, <1>4, <1>5 DEF IInv

LEMMA NextIInv == IInv /\ [Next]_vars => IInv'
<1> SUFFICES ASSUME IInv, [Next]_vars PROVE IInv'
  OBVIOUS
<1>1. CASE UNCHANGED vars
  <2>1. TypeOK'
    BY <1>1 DEF vars, IInv, TypeOK, Copies
  <2>2. FramesComeFromHome'
    BY <1>1 DEF vars, IInv, FramesComeFromHome, PortTo
  <2>3. StationaryEntries'
    BY <1>1 DEF vars, IInv, StationaryEntries, PointsHome, PortTo
  <2> QED
    BY <2>1, <2>2, <2>3 DEF IInv
<1> QED
  BY <1>1, SendStep, ProcessFrameStep, AgeTableStep, MoveStep DEF Next

\* Tables, counters, hosts and frames under way keep their types: an entry's counter
\* stays between 1 and the aging threshold, which is what the switch relies on when it
\* erases an entry at zero.
THEOREM Typing == Spec => []TypeOK
<1>1. IInv => TypeOK
  BY DEF IInv
<1> QED
  BY <1>1, InitIInv, NextIInv, PTL DEF Spec

\* Whatever hosts move, tables age and frames cross, an entry for a host that has
\* stayed in place leads to it.
THEOREM EntriesLeadHome == Spec => []StationaryEntries
<1>1. IInv => StationaryEntries
  BY DEF IInv
<1> QED
  BY <1>1, InitIInv, NextIInv, PTL DEF Spec

-----------------------------------------------------------------------------
\* The way of a frame.

OnTheWay(id) == {c \in inFlight : c.id = id /\ Approaching(c)}

PlugsDiffer == \A h, k \in Hosts : h # k => plugged[h] # plugged[k]

SentFrames ==
    /\ \A id \in 1..Len(sent) : sent[id].src # sent[id].dest
    /\ \A id \in 1..MaxFrames : id > Len(sent) => received[id] = 0

\* Exactly one copy on the way, or the frame arrived and none.
OneWay(id) ==
    \/ received[id] = 1 /\ OnTheWay(id) = {}
    \/ received[id] = 0 /\ \E c : OnTheWay(id) = {c}

WayInv ==
    /\ PlugsDiffer
    /\ SentFrames
    /\ \A id \in 1..Len(sent) : sent[id].dest \notin moved => OneWay(id)

\* A copy that leaves by the port to the destination approaches it, and one that
\* leaves by another trunk moves away from it.
LEMMA TrunkSides ==
    ASSUME NEW end \in Trunks, NEW plug \in Plugs
    PROVE  PortTo(Wire[end][1], plug) # Wire[end][2] <=> PortTo(end[1], plug) = end[2]
BY LanAssumption

\* The port to a plug is the plug's own or a trunk.
LEMMA PortToPlug ==
    ASSUME NEW s \in Switches, NEW plug \in Plugs
    PROVE  /\ PortTo(s, plug) \in Ports
           /\ plug[1] = s => <<s, PortTo(s, plug)>> = plug
           /\ plug[1] # s => <<s, PortTo(s, plug)>> \in Trunks
<1>1. plug \in Switches \X Ports
  BY DEF Plugs
<1> QED
  BY <1>1, LanAssumption DEF PortTo

LEMMA ExitByPort ==
    ASSUME NEW table, NEW dest, NEW inPort, NEW port \in Ports,
           OutPort(table, dest, inPort) = port
    PROVE  Exits(table, dest, inPort) = {port}
<1>1. port # 0 /\ port # -1
  BY LanAssumption
<1> QED
  BY <1>1 DEF Exits, Flood, Drop

LEMMA WayInit == Init => WayInv
<1> SUFFICES ASSUME Init PROVE WayInv
  OBVIOUS
<1> QED
  BY LanAssumption DEF Init, WayInv, PlugsDiffer, SentFrames

LEMMA WaySend ==
    ASSUME IInv, WayInv, NEW src \in Hosts, NEW dest \in Hosts, Send(src, dest)
    PROVE  WayInv'
<1>0. PICK copy : copy = [id |-> Len(sent'), sw |-> plugged[src][1], in |-> plugged[src][2]]
  OBVIOUS
<1>1. /\ sent \in Seq([src : Hosts, dest : Hosts]) /\ Len(sent) < MaxFrames
      /\ inFlight \subseteq Copies /\ plugged \in [Hosts -> Plugs]
      /\ MaxFrames \in Nat
  BY LanAssumption DEF IInv, TypeOK, Send
<1>2. /\ sent' = Append(sent, [src |-> src, dest |-> dest])
      /\ inFlight' = inFlight \cup {copy}
      /\ UNCHANGED <<plugged, moved, macTable, received>>
      /\ src # dest
  BY <1>0 DEF Send
<1>3. /\ Len(sent') = Len(sent) + 1 /\ Len(sent) \in Nat
      /\ sent'[Len(sent')] = [src |-> src, dest |-> dest]
      /\ \A id \in 1..Len(sent) : sent'[id] = sent[id]
  BY <1>1, <1>2
<1>4. PlugsDiffer' /\ SentFrames'
  BY <1>1, <1>2, <1>3 DEF WayInv, PlugsDiffer, SentFrames
<1>5. \A c \in inFlight : c.id \in 1..Len(sent) /\ c.id # copy.id
  BY <1>0, <1>1, <1>3 DEF Copies
<1>6. ASSUME NEW id \in 1..Len(sent), sent'[id].dest \notin moved
      PROVE  OneWay(id)'
  <2>1. \A c \in inFlight : Approaching(c)' <=> Approaching(c)
    BY <1>2, <1>3, <1>5 DEF Approaching, PortTo
  <2>2. id # copy.id
    BY <1>0, <1>3
  <2>3. OnTheWay(id)' = OnTheWay(id)
    BY <1>2, <2>1, <2>2 DEF OnTheWay
  <2> QED
    BY <1>2, <1>3, <1>6, <2>3 DEF WayInv, OneWay
<1>7. OneWay(copy.id)'
  <2>1. received'[copy.id] = 0
    BY <1>0, <1>1, <1>2, <1>3 DEF WayInv, SentFrames
  <2>2. Approaching(copy)'
    <3>1. plugged[src] \in Plugs /\ plugged[dest] \in Plugs /\ plugged[src] # plugged[dest]
      BY <1>1, <1>2 DEF WayInv, PlugsDiffer
    <3>2. /\ plugged[src][1] \in Switches
          /\ plugged[src] = <<plugged[src][1], plugged[src][2]>>
          /\ plugged[src] \notin Trunks
      BY <3>1 DEF Plugs
    <3>3. PortTo(plugged[src][1], plugged[dest]) # plugged[src][2]
      BY <3>1, <3>2, PortToPlug
    <3>4. copy.in = plugged[src][2] /\ copy.sw = plugged[src][1]
      BY <1>0, <1>2, <1>3
    <3>5. sent'[copy.id].dest = dest /\ plugged' = plugged
      BY <1>0, <1>2, <1>3
    <3>6. copy.in # PortTo(copy.sw, plugged'[sent'[copy.id].dest])
      BY <3>3, <3>4, <3>5
    <3> QED
      BY <3>6 DEF Approaching, PortTo
  <2>3. OnTheWay(copy.id)' = {copy}
    <3>1. \A c \in inFlight' : c.id = copy.id <=> c = copy
      BY <1>2, <1>5
    <3> QED
      BY <1>2, <2>2, <3>1 DEF OnTheWay
  <2> QED
    BY <2>1, <2>3 DEF OneWay
<1>8. ASSUME NEW id \in 1..Len(sent'), sent'[id].dest \notin moved
      PROVE  OneWay(id)'
  <2>1. id \in 1..Len(sent) \/ id = copy.id
    BY <1>0, <1>3
  <2> QED
    BY <1>6, <1>7, <1>8, <2>1
<1> QED
  BY <1>2, <1>4, <1>8 DEF WayInv

\* The step of a copy: one that approaches is replaced by one that does, or
\* arrives; one that does not leaves nothing that does.
LEMMA WayProcessFrame ==
    ASSUME IInv, WayInv, NEW copy \in inFlight, ProcessFrame(copy)
    PROVE  WayInv'
<1> DEFINE frame == sent[copy.id]
           table == Learned(macTable[copy.sw], frame.src, copy.in)
           ports == Exits(table, frame.dest, copy.in)
           exits == {copy.sw} \X ports
           next(exit) == [id |-> copy.id, sw |-> Wire[exit][1], in |-> Wire[exit][2]]
           onward == {next(exit) : exit \in exits \cap Trunks}
           home == plugged[frame.dest]
           way == PortTo(copy.sw, home)
<1>1. /\ sent \in Seq([src : Hosts, dest : Hosts]) /\ Len(sent) <= MaxFrames
      /\ inFlight \subseteq Copies /\ copy \in Copies
      /\ plugged \in [Hosts -> Plugs]
      /\ macTable \in [Switches -> Tables]
      /\ received \in [1..MaxFrames -> Nat]
      /\ MaxFrames \in Nat
  BY LanAssumption DEF IInv, TypeOK
<1>2. /\ inFlight' = (inFlight \ {copy}) \cup onward
      /\ received' = IF home \in exits
                     THEN [received EXCEPT ![copy.id] = @ + 1] ELSE received
      /\ UNCHANGED <<plugged, moved, sent>>
  BY Zenon DEF ProcessFrame
<1>3. /\ copy.id \in 1..Len(sent) /\ copy.id \in 1..MaxFrames
      /\ copy.sw \in Switches /\ copy.in \in Ports
      /\ frame.src \in Hosts /\ frame.dest \in Hosts
      /\ frame.src # frame.dest
  <2>1. copy.id \in 1..Len(sent) /\ copy.sw \in Switches /\ copy.in \in Ports
    BY <1>1 DEF Copies
  <2>2. frame \in [src : Hosts, dest : Hosts]
    BY <1>1, <2>1, ElementOfSeq
  <2> QED
    BY <1>1, <2>1, <2>2 DEF WayInv, SentFrames
<1>4. /\ table \in Tables
      /\ \A h \in DOMAIN table : h # frame.src =>
            h \in DOMAIN macTable[copy.sw] /\ table[h] = macTable[copy.sw][h]
  BY <1>1, <1>3, LearnedTable
<1> HIDE DEF table
<1>5. ports \subseteq Ports \ {copy.in}
  BY <1>3, <1>4, ExitsLeadOn
<1>6. home \in Plugs /\ way \in Ports
  BY <1>1, <1>3, PortToPlug
\* The way on is among the exits of a copy that approaches.
<1>7. ASSUME frame.dest \notin moved, copy.in # way
      PROVE  way \in ports
  <2>1. CASE frame.dest \in DOMAIN table
    <3>1. table[frame.dest].port = way
      BY <1>3, <1>4, <1>7, <2>1 DEF IInv, StationaryEntries, PointsHome
    <3>2. OutPort(table, frame.dest, copy.in) = way
      BY <1>7, <2>1, <3>1 DEF OutPort
    <3> QED
      BY <1>6, <3>2, ExitByPort
  <2>2. CASE frame.dest \notin DOMAIN table
    <3>1. OutPort(table, frame.dest, copy.in) = Flood
      BY <2>2 DEF OutPort
    <3>2. ports = Ports \ {copy.in}
      BY <3>1 DEF Exits, Flood, Drop
    <3> QED
      BY <1>6, <1>7, <3>2
  <2> QED
    BY <2>1, <2>2
<1> HIDE DEF ports
<1>8. ASSUME NEW exit \in exits \cap Trunks
      PROVE  /\ next(exit).id = copy.id
             /\ Approaching(next(exit))' <=> exit = <<copy.sw, way>>
  <2>1. exit = <<exit[1], exit[2]>> /\ exit[1] = copy.sw
    OBVIOUS
  <2>2. PortTo(Wire[exit][1], home) # Wire[exit][2] <=> PortTo(exit[1], home) = exit[2]
    BY <1>6, TrunkSides
  <2>3. Approaching(next(exit))' <=> Wire[exit][2] # PortTo(Wire[exit][1], home)
    BY <1>2 DEF Approaching, PortTo
  <2> QED
    BY <2>1, <2>2, <2>3
<1>9. home \in exits <=> home[1] = copy.sw /\ way \in ports
  <2>1. home = <<home[1], home[2]>>
    BY <1>6 DEF Plugs
  <2>2. home[1] = copy.sw => way = home[2]
    BY DEF PortTo
  <2>3. home \in exits <=> home[1] = copy.sw /\ home[2] \in ports
    BY <2>1
  <2> QED
    BY <2>2, <2>3
<1> HIDE DEF next, home
<1>10. \A c \in inFlight : Approaching(c)' <=> Approaching(c)
  BY <1>2 DEF Approaching, PortTo
<1>11. Approaching(copy) <=> copy.in # way
  BY DEF Approaching, home
<1>12. ASSUME NEW id \in 1..Len(sent), sent[id].dest \notin moved, id # copy.id
       PROVE  OneWay(id)'
  <2>1. OnTheWay(id)' = OnTheWay(id)
    BY <1>2, <1>8, <1>10, <1>12 DEF OnTheWay
  <2>2. received'[id] = received[id]
    BY <1>1, <1>2, <1>12
  <2> QED
    BY <1>12, <2>1, <2>2 DEF WayInv, OneWay
<1>13. ASSUME frame.dest \notin moved
       PROVE  OneWay(copy.id)'
  <2>1. OneWay(copy.id)
    BY <1>3, <1>13 DEF WayInv
  <2>2. OnTheWay(copy.id)' =
          (OnTheWay(copy.id) \ {copy}) \cup {c \in onward : Approaching(c)'}
    BY <1>2, <1>8, <1>10 DEF OnTheWay
  <2>3. CASE copy.in = way
    <3>1. way \notin ports
      BY <1>5, <2>3
    <3>2. received' = received
      BY <1>2, <1>9, <3>1
    <3>3. {c \in onward : Approaching(c)'} = {}
      BY <1>8, <3>1
    <3>4. copy \notin OnTheWay(copy.id)
      BY <1>11, <2>3 DEF OnTheWay
    <3>5. OnTheWay(copy.id)' = OnTheWay(copy.id)
      BY <2>2, <3>3, <3>4
    <3> QED
      BY <2>1, <3>2, <3>5 DEF OneWay
  <2>4. CASE copy.in # way
    <3>1. way \in ports
      BY <1>7, <1>13, <2>4 DEF home
    <3>2. copy \in OnTheWay(copy.id)
      BY <1>11, <2>4 DEF OnTheWay
    <3>3. received[copy.id] = 0 /\ OnTheWay(copy.id) = {copy}
      BY <2>1, <3>2 DEF OneWay
    <3>4. OnTheWay(copy.id)' = {c \in onward : Approaching(c)'}
      BY <2>2, <3>3
    <3>5. CASE home[1] = copy.sw
      <4>1. received'[copy.id] = 1
        BY <1>1, <1>2, <1>3, <1>9, <3>1, <3>3, <3>5
      <4>2. <<copy.sw, way>> \notin Trunks
        BY <1>3, <1>6, <3>5, PortToPlug DEF Plugs
      <4>3. OnTheWay(copy.id)' = {}
        BY <1>8, <3>4, <4>2
      <4> QED
        BY <4>1, <4>3 DEF OneWay
    <3>6. CASE home[1] # copy.sw
      <4>1. received'[copy.id] = 0
        BY <1>2, <1>9, <3>3, <3>6
      <4>2. <<copy.sw, way>> \in exits \cap Trunks
        BY <1>3, <1>6, <3>1, <3>6, PortToPlug
      <4>3. {c \in onward : Approaching(c)'} = {next(<<copy.sw, way>>)}
        BY <1>8, <4>2
      <4> QED
        BY <3>4, <4>1, <4>3 DEF OneWay
    <3> QED
      BY <3>5, <3>6
  <2> QED
    BY <2>3, <2>4
<1>14. PlugsDiffer' /\ SentFrames'
  <2>1. \A id \in 1..MaxFrames : id > Len(sent) => received'[id] = received[id]
    BY <1>1, <1>2, <1>3
  <2> QED
    BY <1>2, <2>1 DEF WayInv, PlugsDiffer, SentFrames
<1> QED
  BY <1>2, <1>12, <1>13, <1>14 DEF WayInv

LEMMA WayRest ==
    ASSUME IInv, WayInv,
           \/ \E s \in Switches : AgeTable(s)
           \/ \E h \in Hosts, plug \in Plugs : Move(h, plug)
           \/ UNCHANGED vars
    PROVE  WayInv'
<1>1. ASSUME UNCHANGED <<plugged, moved, sent, inFlight, received>>
      PROVE  WayInv'
  <2>1. \A c : Approaching(c)' <=> Approaching(c)
    BY <1>1 DEF Approaching, PortTo
  <2>2. \A id : OnTheWay(id)' = OnTheWay(id)
    BY <1>1, <2>1 DEF OnTheWay
  <2>3. \A id : OneWay(id)' <=> OneWay(id)
    BY <1>1, <2>2 DEF OneWay
  <2> QED
    BY <1>1, <2>3 DEF WayInv, PlugsDiffer, SentFrames
<1>2. ASSUME NEW h \in Hosts, NEW plug \in Plugs, Move(h, plug)
      PROVE  WayInv'
  <2>1. /\ plugged \in [Hosts -> Plugs]
        /\ plugged' = [plugged EXCEPT ![h] = plug]
        /\ moved' = moved \cup {h}
        /\ \A k \in Hosts : plugged[k] # plug
        /\ UNCHANGED <<sent, inFlight, received>>
    BY <1>2 DEF IInv, TypeOK, Move
  <2>2. PlugsDiffer' /\ SentFrames'
    BY <2>1 DEF WayInv, PlugsDiffer, SentFrames
  <2>3. ASSUME NEW id \in 1..Len(sent), sent[id].dest \notin moved'
        PROVE  OneWay(id)'
    <3>1. sent[id].dest \notin moved /\ plugged'[sent[id].dest] = plugged[sent[id].dest]
      <4>1. sent[id] \in [src : Hosts, dest : Hosts]
        BY ElementOfSeq DEF IInv, TypeOK
      <4> QED
        BY <2>1, <2>3, <4>1
    <3>2. \A c : c.id = id => (Approaching(c)' <=> Approaching(c))
      BY <2>1, <3>1 DEF Approaching, PortTo
    <3>3. OnTheWay(id)' = OnTheWay(id)
      BY <2>1, <3>2 DEF OnTheWay
    <3> QED
      BY <2>1, <3>1, <3>3 DEF WayInv, OneWay
  <2> QED
    BY <2>1, <2>2, <2>3 DEF WayInv
<1> QED
  BY <1>1, <1>2 DEF AgeTable, vars

\* A frame for a host that stays in place arrives exactly once: a copy of it is on
\* the way until it does, and only one, whatever the tables forget on its path.
THEOREM DeliveredOnce == Spec => []ExactlyOnce
<1>1. IInv /\ WayInv /\ [Next]_vars => WayInv'
  BY WaySend, WayProcessFrame, WayRest DEF Next
<1>2. IInv /\ WayInv => ExactlyOnce
  <2> SUFFICES ASSUME IInv, WayInv, NEW id \in 1..Len(sent), sent[id].dest \notin moved
               PROVE  received[id] + Cardinality(OnTheWay(id)) = 1
    BY DEF ExactlyOnce, OnTheWay
  <2>1. OneWay(id)
    BY DEF WayInv
  <2>2. CASE received[id] = 1 /\ OnTheWay(id) = {}
    BY <2>2, FS_EmptySet
  <2>3. CASE received[id] = 0 /\ \E c : OnTheWay(id) = {c}
    <3>1. PICK c : OnTheWay(id) = {c}
      BY <2>3
    <3>2. Cardinality(OnTheWay(id)) = 1
      BY <3>1, FS_Singleton
    <3> QED
      BY <2>3, <3>2
  <2> QED
    BY <2>1, <2>2, <2>3 DEF OneWay
<1> QED
  BY <1>1, <1>2, InitIInv, NextIInv, WayInit, PTL DEF Spec
=============================================================================
