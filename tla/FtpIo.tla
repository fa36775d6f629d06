------------------------------- MODULE FtpIo -------------------------------
(***************************************************************************)
(* What client and server of lab1-myftp share: the TCP connections, as     *)
(* Send and Recv of io.h use them, the headers of header.h, and the files. *)
(*                                                                         *)
(* Sockets and disks are outside src/.  A connection keeps no message      *)
(* boundaries: each direction is a queue of units, one unit being the      *)
(* size of a header.  A header is one unit; a name, a login or a block of  *)
(* a file are units too, and nothing but its place in the queue tells what *)
(* a unit is.  Files are whole numbers of units long.                      *)
(***************************************************************************)
EXTENDS Integers, Sequences

CONSTANTS
    Clients,      \* client processes; each opens one connection
    Server,       \* the host of the server
    Names,        \* file names
    Blocks,       \* the contents a unit of a file may have
    BUFSIZE,      \* in units
    InitialDisk   \* the files on every host

Hosts == Clients \cup {Server}

HeaderTypes ==
    {"OPEN_CONN_REQUEST", "OPEN_CONN_REPLY", "AUTH_REQUEST", "AUTH_REPLY",
     "LIST_REQUEST", "LIST_REPLY", "GET_REQUEST", "GET_REPLY",
     "PUT_REQUEST", "PUT_REPLY", "QUIT_REQUEST", "QUIT_REPLY", "FILE_DATA"}

get_header(status, type, length) == [type |-> type, status |-> status, length |-> length]

UNUSED == 3
Headers == [type : HeaderTypes, status : {0, 1, UNUSED}, length : Nat]

\* Units that are no headers.
Body(type, value) == [type |-> type, value |-> value]
Bodies(type, values) == [type : {type}, value : values]
BodyUnits ==
    Bodies("name", Names) \cup Bodies("login", {0, 1}) \cup Bodies("listing", {0})
        \cup Bodies("block", Blocks)
Units == Headers \cup BodyUnits

\* What an uninitialised struct Header may hold, or one filled with bytes that
\* were not sent as a header.  "other" stands for every type that nobody compares
\* such a header with.
NoHeader ==
    [type : {"LIST_REPLY", "GET_REPLY", "PUT_REPLY", "other"}, status : {0, 1}, length : {0, 1}]

\* A unit as Recv into a struct Header stores it.  File contents are taken not to
\* look like a header, in any field that is looked at together with the type.
AsHeader(unit) ==
    IF unit \in BodyUnits THEN {h \in NoHeader : h.type = "other"} ELSE {unit}

\* fstat gives size, fread the blocks.  A directory opens for reading, but has no
\* blocks, and does not open for writing.
Regular(blocks) == [size |-> Len(blocks), blocks |-> blocks]
Directory == [size |-> 1, blocks |-> <<>>]
Absent == [size |-> -1, blocks |-> <<>>]
Files ==
    {file \in [size : Int, blocks : Seq(Blocks)] :
        file = Regular(file.blocks) \/ file \in {Directory, Absent}}

ASSUME FtpAssumption ==
    /\ Clients # {} /\ Server \notin Clients /\ Names # {}
    /\ BUFSIZE \in Nat \ {0}
    /\ InitialDisk \in [Hosts -> [Names -> Files]]

VARIABLES
    up,      \* up[c]: units sent to the server and not received yet
    down,    \* down[c]: units sent to client c
    left,    \* clients that have closed their connection, by close or by ending
    reset,   \* connections with an error on its way to the server, or there
    disk     \* the files on every host

ioVars == <<up, down, left, reset, disk>>

IoTypeOK ==
    /\ up \in [Clients -> Seq(Units)]
    /\ down \in [Clients -> Seq(Units)]
    /\ left \subseteq Clients
    /\ reset \subseteq left
    /\ disk \in [Hosts -> [Names -> Files]]

IoInit ==
    /\ up = [c \in Clients |-> <<>>]
    /\ down = [c \in Clients |-> <<>>]
    /\ left = {}
    /\ reset = {}
    /\ disk = InitialDisk

\* The part of length that one turn of a loop asks for.
Chunk(length) == IF length < BUFSIZE THEN length ELSE BUFSIZE

\* What the next fread returns, pos units having been read.
NextBlocks(file, pos) ==
    SubSeq(file.blocks, pos + 1, pos + Chunk(Len(file.blocks) - pos))

AsUnits(blocks) == [i \in DOMAIN blocks |-> Body("block", blocks[i])]

\* What is written to a file for received units.  Anything may come out of a unit
\* that was not sent as part of a file.
AsBlocks(units) ==
    {blocks \in [DOMAIN units -> Blocks] :
        \A i \in DOMAIN units : units[i].type = "block" => blocks[i] = units[i].value}

\* fopen(name, "w") and fwrite, of a file that is no directory.
Create(host, name) == disk' = [disk EXCEPT ![host][name] = Regular(<<>>)]
Write(host, name, blocks) ==
    disk' = [disk EXCEPT ![host][name] = Regular(disk[host][name].blocks \o blocks)]
=============================================================================
