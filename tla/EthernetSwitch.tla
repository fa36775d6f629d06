--------------------------- MODULE EthernetSwitch ---------------------------
(***************************************************************************)
(* The learning switch of lab4-switch: ProcessFrame (switch.cc) as         *)
(* operators on one macTable.  Ports are numbered from 1; a return value   *)
(* of 0 asks the caller to flood the frame, -1 to drop it.                 *)
(***************************************************************************)
EXTENDS Integers

CONSTANT ETHER_MAC_AGING_THRESHOLD   \* 10 in types.h

ASSUME AgingAssumption == ETHER_MAC_AGING_THRESHOLD \in Nat \ {0}

Flood == 0
Drop == -1

EmptyTable == [mac \in {} |-> [port |-> 0, counter |-> 0]]

Aged_KeepsZero(table) ==   \* mutant: erases one aging too late
    [mac \in {m \in DOMAIN table : table[m].counter > 0} |->
        [table[mac] EXCEPT !.counter = @ - 1]]

Aged_KeepsLast(table) ==   \* mutant: the counter stops above 0
    [mac \in DOMAIN table |->
        [table[mac] EXCEPT !.counter = IF @ > 1 THEN @ - 1 ELSE @]]

\* A control frame: every counter goes down, an entry that reaches 0 is erased.
Aged(table) ==
    [mac \in {m \in DOMAIN table : table[m].counter - 1 # 0} |->
        [table[mac] EXCEPT !.counter = @ - 1]]

\* A data frame first binds its source to the port it came in by.
Learned(table, src, inPort) ==
    [mac \in DOMAIN table \cup {src} |->
        IF mac = src THEN [port |-> inPort, counter |-> ETHER_MAC_AGING_THRESHOLD]
        ELSE table[mac]]

OutPort_NoFilter(table, dest, inPort) ==   \* mutant: may go back where it came from
    IF dest \in DOMAIN table THEN table[dest].port ELSE Flood

OutPort_DropsUnknown(table, dest, inPort) ==   \* mutant: no flooding
    IF dest \in DOMAIN table /\ table[dest].port # inPort
    THEN table[dest].port ELSE Drop

\* The return value for a data frame, from the table that has learned its source.
OutPort(table, dest, inPort) ==
    IF dest \notin DOMAIN table THEN Flood
    ELSE IF table[dest].port = inPort THEN Drop
    ELSE table[dest].port
=============================================================================
