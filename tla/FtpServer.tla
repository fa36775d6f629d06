----------------------------- MODULE FtpServer -----------------------------
(***************************************************************************)
(* The server of lab1-myftp, ftp_server.c: one process that accepts a      *)
(* client and serves it until the client has closed the connection.        *)
(*                                                                         *)
(* splace is where the server waits.  A step goes from one Recv, one turn  *)
(* of a transfer loop or one accept to the next: what it sends in between  *)
(* does not wait for anybody.                                              *)
(*   accept      in accept                  request   Recv of a request    *)
(*   auth        Recv of the login                                         *)
(*   getName     Recv of Get's file name    getData   Get's transfer loop  *)
(*   putName     Recv of Put's file name    putHeader Recv of FILE_DATA    *)
(*   putData     Put's loop                                                *)
(*   putNull     Put's loop, when fopen gave a null FILE pointer           *)
(*   hung        in panic's endless loop, or in a loop that asks a closed  *)
(*               connection for more                                       *)
(*   killed      ended by SIGPIPE or by a null FILE pointer                *)
(***************************************************************************)
EXTENDS FtpIo

CONSTANTS
    MaxDescriptors,   \* for connections, none of which is closed, files and pipes
    EarlierSessions   \* how many sessions the server may have behind it at first

ASSUME DescriptorAssumption ==
    MaxDescriptors \in Nat /\ EarlierSessions \subseteq 0..MaxDescriptors

VARIABLES
    splace,
    backlog,    \* connections made and not accepted
    accepted,   \* how many were accepted, each with a descriptor
    serving,    \* the client of connfd
    sname,      \* the file of Get or Put
    sleft,      \* Put: units still to come; Get: units read from the file
    mishaps     \* history: what happened in whose session that the code makes no provision for

serverVars == <<splace, backlog, accepted, serving, sname, sleft>>

ServerPlaces ==
    {"accept", "request", "auth", "getName", "getData",
     "putName", "putHeader", "putData", "putNull", "hung", "killed"}

\* "died": the client ended in the middle of a command; "edited": a file was changed
\* on one of the two hosts during a command; "directory": a directory was named in
\* Get or Put; "descriptors": none was left for List's pipe, for Put's file, or for
\* accept after this client; "popen", "fopen", "getaddrinfo": that call failed for a
\* reason outside the model: no process or memory, a path or a file that may not be
\* written, a host that is not known.
MishapKinds ==
    {"died", "edited", "directory", "descriptors", "popen", "fopen", "getaddrinfo"}

ServerTypeOK ==
    /\ splace \in ServerPlaces
    /\ backlog \in Seq(Clients)
    /\ accepted \in 0..MaxDescriptors
    /\ serving \in Clients
    /\ sname \in Names
    /\ sleft \in Nat
    /\ mishaps \subseteq MishapKinds \X Clients

ServerInit ==
    /\ splace = "accept"
    /\ backlog = <<>>
    /\ accepted \in EarlierSessions
    /\ serving = CHOOSE c \in Clients : TRUE
    /\ sname = CHOOSE name \in Names : TRUE
    /\ sleft = 0
    /\ mishaps = {}

ServerStopped == splace \in {"hung", "killed"}

\* n descriptors can be had.
Available(n) == accepted + n <= MaxDescriptors

\* A call that needs n descriptors fails under the served client.
MishapOf(call, n) ==
    mishaps' = mishaps \cup {<<IF Available(n) THEN call ELSE "descriptors", serving>>}

-----------------------------------------------------------------------------
\* Send and Recv on connfd.

\* Send of some units.  When the client has left, they are lost and answered by an
\* error, which may or may not be there by the server's next call.
ServerSends(units) ==
    IF serving \in left
    THEN reset' \in {reset, reset \cup {serving}} /\ UNCHANGED down
    ELSE down' = [down EXCEPT ![serving] = @ \o units] /\ UNCHANGED reset

ServerSendsNothing == UNCHANGED <<down, reset>>

\* Recv of n units.
ServerReceives(n) ==
    /\ Len(up[serving]) >= n
    /\ up' = [up EXCEPT ![serving] = SubSeq(@, n + 1, Len(@))]

\* The end of the stream: Recv returns 0, having thrown away what was left.
AtEnd(n) ==
    /\ serving \in left \ reset
    /\ Len(up[serving]) < n
    /\ up' = [up EXCEPT ![serving] = <<>>]

\* Requests whose handler sends before it receives, List once it has its pipe.
AnsweredAtOnce ==
    {"OPEN_CONN_REQUEST", "QUIT_REQUEST"} \cup (IF Available(2) THEN {"LIST_REQUEST"} ELSE {})

\* An error that has arrived at the socket: Recv returns -1, which every caller takes
\* to panic; a Send is killed by SIGPIPE, or panics too.  While the error is still on
\* its way the server goes on.
ServerFails ==
    /\ ~ServerStopped /\ splace # "accept"
    /\ serving \in reset
    /\ \/ splace' = "hung"
       \/ /\ splace' = "killed"
          /\ \/ splace = "getData"
             \/ splace \in {"auth", "getName", "putName"} /\ up[serving] # <<>>
             \/ splace = "request" /\ up[serving] # <<>> /\ Head(up[serving]).type \in AnsweredAtOnce
    /\ UNCHANGED <<up, down, left, reset, disk, backlog, accepted, serving, sname, sleft, mishaps>>

\* A second Send right after one that met a closed connection.
ServerKilledSending ==
    /\ serving \in left \ reset
    /\ up[serving] # <<>>
    /\ \/ splace = "getName" /\ disk[Server][Head(up[serving]).value] # Absent /\ Available(1)
       \/ splace = "request" /\ Head(up[serving]).type = "LIST_REQUEST" /\ Available(2)
    /\ splace' = "killed"
    /\ reset' = reset \cup {serving}
    /\ UNCHANGED <<up, down, left, disk, backlog, accepted, serving, sname, sleft, mishaps>>

-----------------------------------------------------------------------------
\* main.

\* Without a descriptor left accept returns -1, and Recv on -1 ends in panic.
Accept ==
    /\ splace = "accept"
    /\ \/ /\ accepted < MaxDescriptors
          /\ backlog # <<>>
          /\ serving' = Head(backlog)
          /\ backlog' = Tail(backlog)
          /\ accepted' = accepted + 1
          /\ splace' = "request"
          /\ UNCHANGED mishaps
       \/ /\ accepted = MaxDescriptors
          /\ splace' = "hung"
          /\ mishaps' = mishaps \cup {<<"descriptors", serving>>}
          /\ UNCHANGED <<serving, backlog, accepted>>
    /\ UNCHANGED <<ioVars, sname, sleft>>

ClientGone_NoAccept ==   \* mutant: on with the same connection
    /\ splace = "request"
    /\ AtEnd(1)
    /\ UNCHANGED <<down, left, reset, disk, splace, backlog, accepted, serving, sname, sleft, mishaps>>

\* Recv returned 0: on to the next client.  connfd is not closed.
ClientGone ==
    /\ splace = "request"
    /\ AtEnd(1)
    /\ splace' = "accept"
    /\ UNCHANGED <<down, left, reset, disk, backlog, accepted, serving, sname, sleft, mishaps>>

Request(type) ==
    /\ splace = "request"
    /\ ServerReceives(1)
    /\ Head(up[serving]).type = type

sessionVars == <<left, backlog, accepted, serving, mishaps>>

ServeOpen ==
    /\ Request("OPEN_CONN_REQUEST")
    /\ ServerSends(<<get_header(1, "OPEN_CONN_REPLY", 0)>>)
    /\ UNCHANGED <<sessionVars, disk, splace, sname, sleft>>

ServeQuit ==
    /\ Request("QUIT_REQUEST")
    /\ ServerSends(<<get_header(UNUSED, "QUIT_REPLY", 0)>>)
    /\ UNCHANGED <<sessionVars, disk, splace, sname, sleft>>

\* The output of ls, of one unit here, and one more for the NUL.  Both ends of the pipe
\* take a descriptor; when popen fails, for want of them or of something else, panic.
ServeList ==
    /\ Request("LIST_REQUEST")
    /\ \/ /\ Available(2)
          /\ ServerSends(<<get_header(UNUSED, "LIST_REPLY", 2),
                           Body("listing", 0), Body("listing", 0)>>)
          /\ UNCHANGED <<splace, mishaps>>
       \/ /\ splace' = "hung"
          /\ MishapOf("popen", 2)
          /\ ServerSendsNothing
    /\ UNCHANGED <<left, backlog, accepted, serving, disk, sname, sleft>>

\* Auth, Get and Put begin with what follows the header.
ServeBody(type, place) ==
    /\ Request(type)
    /\ splace' = place
    /\ ServerSendsNothing
    /\ UNCHANGED <<sessionVars, disk, sname, sleft>>

\* default: "Wrong header type!".
WrongHeader ==
    /\ splace = "request"
    /\ ServerReceives(1)
    /\ Head(up[serving]).type \notin
         {"OPEN_CONN_REQUEST", "AUTH_REQUEST", "LIST_REQUEST",
          "GET_REQUEST", "PUT_REQUEST", "QUIT_REQUEST"}
    /\ ServerSendsNothing
    /\ UNCHANGED <<sessionVars, disk, splace, sname, sleft>>

-----------------------------------------------------------------------------
\* Auth.  The login is one unit, so the loop over its length turns once.

ServeAuth ==
    /\ splace = "auth"
    /\ ServerReceives(1)
    /\ ServerSends(<<get_header(Head(up[serving]).value, "AUTH_REPLY", 0)>>)
    /\ splace' = "request"
    /\ UNCHANGED <<sessionVars, disk, sname, sleft>>

-----------------------------------------------------------------------------
\* Get.

GetReply(status) == get_header(status, "GET_REPLY", 0)

\* fopen fails: the name is unknown, the stream ended before it and it is empty, or
\* the file is there but may not be read or gets no descriptor.
GetRefused ==
    /\ splace = "getName"
    /\ ServerReceives(1) \/ AtEnd(1)
    /\ ServerSends(<<GetReply(0)>>)
    /\ splace' = "request"
    /\ UNCHANGED <<sessionVars, disk, sname, sleft>>

\* The length announced is what fstat says now.
GetFile ==
    /\ splace = "getName"
    /\ Available(1)
    /\ ServerReceives(1)
    /\ sname' = Head(up[serving]).value
    /\ LET file == disk[Server][sname']
       IN  /\ file # Absent
           /\ ServerSends(<<GetReply(1), get_header(UNUSED, "FILE_DATA", file.size)>>)
           /\ mishaps' = IF file = Directory THEN mishaps \cup {<<"directory", serving>>} ELSE mishaps
    /\ sleft' = 0
    /\ splace' = "getData"
    /\ UNCHANGED <<left, backlog, accepted, serving, disk>>

\* One turn: fread of what the file holds now, until there is no more.
GetBlocks ==
    /\ splace = "getData"
    /\ LET blocks == NextBlocks(disk[Server][sname], sleft)
       IN  IF blocks = <<>>
           THEN /\ splace' = "request"
                /\ sleft' = 0
                /\ ServerSendsNothing
           ELSE /\ ServerSends(AsUnits(blocks))
                /\ sleft' = sleft + Len(blocks)
                /\ UNCHANGED splace
    /\ UNCHANGED <<sessionVars, up, disk, sname>>

-----------------------------------------------------------------------------
\* Put.

PutReply == get_header(UNUSED, "PUT_REPLY", 0)

PutName ==
    /\ splace = "putName"
    /\ ServerReceives(1)
    /\ sname' = Head(up[serving]).value
    /\ ServerSends(<<PutReply>>)
    /\ splace' = "putHeader"
    /\ UNCHANGED <<sessionVars, disk, sleft>>

\* The stream ended before the name: fopen("", "w") fails, and fwrite or fclose gets
\* a null pointer, or the loop over a length that was never read does not end.
PutNoName ==
    /\ splace = "putName"
    /\ AtEnd(1)
    /\ splace' \in {"hung", "killed"}
    /\ ServerSendsNothing
    /\ UNCHANGED <<sessionVars, disk, sname, sleft>>

\* The file is opened when its length is known; the type of that header is not
\* looked at.  Whatever fopen returns, the loop is entered: a null pointer is what it
\* gives for a directory, without a descriptor, or for a path it may not write.
OpenForPut(header) ==
    /\ sleft' = header.length
    /\ \/ /\ disk[Server][sname] # Directory /\ Available(1)
          /\ splace' = "putData"
          /\ Create(Server, sname)
          /\ UNCHANGED mishaps
       \/ /\ splace' = "putNull"
          /\ IF disk[Server][sname] = Directory
             THEN mishaps' = mishaps \cup {<<"directory", serving>>}
             ELSE MishapOf("fopen", 1)
          /\ UNCHANGED disk

PutHeader ==
    /\ splace = "putHeader"
    /\ \/ ServerReceives(1) /\ \E header \in AsHeader(Head(up[serving])) : OpenForPut(header)
       \/ AtEnd(1) /\ \E header \in NoHeader : OpenForPut(header)
    /\ ServerSendsNothing
    /\ UNCHANGED <<left, backlog, accepted, serving, sname>>

PutBlocks_OneShort ==   \* mutant: the last unit of a file is left in the stream
    /\ splace = "putData"
    /\ sleft > 0
    /\ LET n == Chunk(sleft)
       IN  /\ ServerReceives(n)
           /\ \E blocks \in AsBlocks(SubSeq(up[serving], 1, n)) : Write(Server, sname, blocks)
           /\ sleft' = IF sleft - n = 1 THEN 0 ELSE sleft - n
    /\ ServerSendsNothing
    /\ UNCHANGED <<sessionVars, splace, sname>>

PutBlocks_FullBuffer ==   \* mutant: a whole buffer is taken off on the last turn too
    /\ splace = "putData"
    /\ sleft > 0
    /\ LET n == Chunk(sleft)
       IN  /\ ServerReceives(n)
           /\ \E blocks \in AsBlocks(SubSeq(up[serving], 1, n)) : Write(Server, sname, blocks)
           /\ sleft' = sleft - BUFSIZE
    /\ ServerSendsNothing
    /\ UNCHANGED <<sessionVars, splace, sname>>

PutBlocks ==
    /\ splace = "putData"
    /\ sleft > 0
    /\ LET n == Chunk(sleft)
       IN  /\ ServerReceives(n)
           /\ \E blocks \in AsBlocks(SubSeq(up[serving], 1, n)) : Write(Server, sname, blocks)
           /\ sleft' = sleft - n
    /\ ServerSendsNothing
    /\ UNCHANGED <<sessionVars, splace, sname>>

PutDone ==
    /\ splace = "putData"
    /\ sleft = 0
    /\ splace' = "request"
    /\ UNCHANGED <<ioVars, backlog, accepted, serving, sname, sleft, mishaps>>

\* The null pointer ends the process: the first data are received and written to it,
\* or there are none and it is closed.
PutNull ==
    /\ splace = "putNull"
    /\ ServerReceives(Chunk(sleft))
    /\ splace' = "killed"
    /\ ServerSendsNothing
    /\ UNCHANGED <<sessionVars, disk, sname, sleft>>

\* The stream ends while a length is still to come: Recv returns 0, the length
\* stays what it is, and the loop asks again for ever.  (fwrite of nothing does not
\* look at its FILE pointer.)
LoopAtEnd ==
    /\ \/ splace = "auth" /\ AtEnd(1)
       \/ splace \in {"putData", "putNull"} /\ sleft > 0 /\ AtEnd(Chunk(sleft))
    /\ splace' = "hung"
    /\ ServerSendsNothing
    /\ UNCHANGED <<sessionVars, disk, sname, sleft>>

ServerStep ==
    \/ Accept
    \/ ClientGone
    \/ ServeOpen
    \/ ServeQuit
    \/ ServeList
    \/ ServeBody("AUTH_REQUEST", "auth")
    \/ ServeBody("GET_REQUEST", "getName")
    \/ ServeBody("PUT_REQUEST", "putName")
    \/ WrongHeader
    \/ ServeAuth
    \/ GetRefused
    \/ GetFile
    \/ GetBlocks
    \/ PutName
    \/ PutNoName
    \/ PutHeader
    \/ PutBlocks
    \/ PutDone
    \/ PutNull
    \/ LoopAtEnd
    \/ ServerFails
    \/ ServerKilledSending
=============================================================================
