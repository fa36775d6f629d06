----------------------------- MODULE FtpClient -----------------------------
(***************************************************************************)
(* The client of lab1-myftp, ftp_client.c, once for every element of       *)
(* Clients: the commands open, auth, ls, get, put and quit.  Commands that *)
(* the client refuses without sending anything change nothing and are      *)
(* left out.                                                               *)
(*                                                                         *)
(* cplace[c] is where client c waits:                                      *)
(*   prompt      in read_command                                           *)
(*   open, auth, list, get, put, quit    Recv of that command's reply      *)
(*   listData    List's loop                                               *)
(*   getHeader   Recv of FILE_DATA       getData   Get's loop              *)
(*   getNull     Get's loop, when fopen gave a null FILE pointer           *)
(*   putData     Put's loop                                                *)
(*   hung        in panic, or in a loop at the end of the stream           *)
(*   exited      the process has ended                                     *)
(***************************************************************************)
EXTENDS FtpServer

CONSTANTS
    MaxCommands,   \* bound: Get, Put and repeated Auth commands of all clients
    MaxUnread      \* bound: units of earlier replies that List leaves unread

ASSUME CommandsAssumption == MaxCommands \in Nat /\ MaxUnread \in Nat

VARIABLES
    cplace,
    clientfd,   \* clients whose clientfd is not -1
    auth,       \* clients whose auth is 1
    cname,      \* the file of Get or Put
    cleft,      \* Get, List: units still to come; Put: units read from the file
    announced,  \* Put: the length fstat gave
    commands   \* left of MaxCommands

clientVars == <<cplace, clientfd, auth, cname, cleft, announced, commands>>

ClientPlaces ==
    {"prompt", "open", "auth", "list", "get", "put", "quit",
     "listData", "getHeader", "getData", "getNull", "putData", "hung", "exited"}

ClientTypeOK ==
    /\ cplace \in [Clients -> ClientPlaces]
    /\ clientfd \subseteq Clients
    /\ auth \subseteq clientfd
    /\ cname \in [Clients -> Names]
    /\ cleft \in [Clients -> Nat]
    /\ announced \in [Clients -> Nat]
    /\ commands \in 0..MaxCommands

ClientInit ==
    /\ cplace = [c \in Clients |-> "prompt"]
    /\ clientfd = {}
    /\ auth = {}
    /\ cname = [c \in Clients |-> CHOOSE name \in Names : TRUE]
    /\ cleft = [c \in Clients |-> 0]
    /\ announced = [c \in Clients |-> 0]
    /\ commands = MaxCommands

GoTo(c, place) == cplace' = [cplace EXCEPT ![c] = place]

\* What a client step leaves alone that only the server or an open changes.
othersVars == <<splace, backlog, accepted, serving, sname, sleft>>

\* Send.  To a server that was killed it may still succeed once.
ClientSends(c, units) ==
    IF splace = "killed" THEN UNCHANGED up ELSE up' = [up EXCEPT ![c] = @ \o units]

\* The headers Recv may store, with the units behind: at the end of the stream
\* it returns 0, which the callers do not tell from success.
Replies(c) ==
    IF down[c] # <<>>
    THEN [header : AsHeader(Head(down[c])), rest : {Tail(down[c])}]
    ELSE IF splace = "killed" THEN [header : NoHeader, rest : {<<>>}] ELSE {}

\* The process closes its connection and ends.  If units were left unread, its host
\* answers with an error.
Hangup(c, unread) ==
    /\ left' = left \cup {c}
    /\ reset' = IF unread # <<>> THEN reset \cup {c} ELSE reset
    /\ GoTo(c, "exited")

-----------------------------------------------------------------------------
\* Commands, as typed.  At the prompt no reply is awaited.

Connected(c) == cplace[c] = "prompt" /\ c \in clientfd
LoggedIn(c) == Connected(c) /\ c \in auth

\* getaddrinfo does not know the host or the port: panic.
OpenNowhere(c) ==
    /\ cplace[c] = "prompt" /\ c \notin clientfd
    /\ GoTo(c, "hung")
    /\ mishaps' = mishaps \cup {<<"getaddrinfo", c>>}
    /\ UNCHANGED <<ioVars, serverVars, clientfd, auth, cname, cleft, announced, commands>>

\* The connection is made by the kernel of the server's host, before the server
\* accepts it; it is refused when there is no server.
Open(c) ==
    /\ cplace[c] = "prompt" /\ c \notin clientfd
    /\ splace # "killed"
    /\ backlog' = Append(backlog, c)
    /\ ClientSends(c, <<get_header(UNUSED, "OPEN_CONN_REQUEST", 0)>>)
    /\ GoTo(c, "open")
    /\ UNCHANGED <<down, left, reset, disk, splace, accepted, serving, sname, sleft, mishaps,
                   clientfd, auth, cname, cleft, announced, commands>>

\* A login, right (1) or wrong (0).
Auth(c, login) ==
    /\ Connected(c)
    /\ c \notin auth \/ commands > 0
    /\ commands' = IF c \in auth THEN commands - 1 ELSE commands
    /\ ClientSends(c, <<get_header(UNUSED, "AUTH_REQUEST", 1), Body("login", login)>>)
    /\ GoTo(c, "auth")
    /\ UNCHANGED <<othersVars, down, left, reset, disk, mishaps,
                   clientfd, auth, cname, cleft, announced>>

Command(c) ==
    /\ LoggedIn(c)
    /\ commands > 0
    /\ commands' = commands - 1

\* Nothing is unread at the prompt as long as client and server are in step, and List
\* may be typed for ever.
List(c) ==
    /\ LoggedIn(c)
    /\ Len(down[c]) <= MaxUnread
    /\ ClientSends(c, <<get_header(UNUSED, "LIST_REQUEST", 0)>>)
    /\ GoTo(c, "list")
    /\ UNCHANGED <<othersVars, down, left, reset, disk, mishaps,
                   clientfd, auth, cname, cleft, announced, commands>>

Get(c, name) ==
    /\ Command(c)
    /\ ClientSends(c, <<get_header(UNUSED, "GET_REQUEST", 1), Body("name", name)>>)
    /\ cname' = [cname EXCEPT ![c] = name]
    /\ GoTo(c, "get")
    /\ UNCHANGED <<othersVars, down, left, reset, disk, mishaps,
                   clientfd, auth, cleft, announced>>

\* A file that does not open is reported without a word to the server.  The length
\* to announce is what fstat says now.
Put(c, name) ==
    /\ Command(c)
    /\ disk[c][name] # Absent
    /\ ClientSends(c, <<get_header(UNUSED, "PUT_REQUEST", 1), Body("name", name)>>)
    /\ announced' = [announced EXCEPT ![c] = disk[c][name].size]
    /\ cname' = [cname EXCEPT ![c] = name]
    /\ mishaps' = IF disk[c][name] = Directory THEN mishaps \cup {<<"directory", c>>} ELSE mishaps
    /\ GoTo(c, "put")
    /\ UNCHANGED <<othersVars, down, left, reset, disk, clientfd, auth, cleft>>

Quit_NoReply(c) ==   \* mutant: the client does not wait for the reply
    /\ LoggedIn(c)
    /\ ClientSends(c, <<get_header(UNUSED, "QUIT_REQUEST", 0)>>)
    /\ Hangup(c, <<>>)
    /\ UNCHANGED <<othersVars, down, disk, mishaps,
                   clientfd, auth, cname, cleft, announced, commands>>

Quit(c) ==
    /\ LoggedIn(c)
    /\ ClientSends(c, <<get_header(UNUSED, "QUIT_REQUEST", 0)>>)
    /\ GoTo(c, "quit")
    /\ UNCHANGED <<othersVars, down, left, reset, disk, mishaps,
                   clientfd, auth, cname, cleft, announced, commands>>

-----------------------------------------------------------------------------
\* Replies.

Reply(c, place, reply) ==
    /\ cplace[c] = place
    /\ reply \in Replies(c)
    /\ down' = [down EXCEPT ![c] = reply.rest]

replyVars == <<othersVars, disk, mishaps, cname, announced, commands>>

\* Denied, the client keeps the connection but not clientfd.
OpenReply(c, reply) ==
    /\ Reply(c, "open", reply)
    /\ clientfd' = IF reply.header.status = 1 THEN clientfd \cup {c} ELSE clientfd
    /\ GoTo(c, "prompt")
    /\ UNCHANGED <<replyVars, up, left, reset, auth, cleft>>

\* Refused, the client closes the connection and ends.
AuthReply(c, reply) ==
    /\ Reply(c, "auth", reply)
    /\ IF reply.header.status = 1
       THEN /\ auth' = auth \cup {c}
            /\ GoTo(c, "prompt")
            /\ UNCHANGED <<left, reset>>
       ELSE /\ Hangup(c, reply.rest)
            /\ UNCHANGED auth
    /\ UNCHANGED <<replyVars, up, clientfd, cleft>>

ListReply(c, reply) ==
    /\ Reply(c, "list", reply)
    /\ IF reply.header.type = "LIST_REPLY"
       THEN GoTo(c, "listData") /\ cleft' = [cleft EXCEPT ![c] = reply.header.length]
       ELSE GoTo(c, "prompt") /\ UNCHANGED cleft
    /\ UNCHANGED <<replyVars, up, left, reset, clientfd, auth>>

GetReplied(c, reply) ==
    /\ Reply(c, "get", reply)
    /\ GoTo(c, IF reply.header.type = "GET_REPLY" /\ reply.header.status = 1
               THEN "getHeader" ELSE "prompt")
    /\ UNCHANGED <<replyVars, up, left, reset, clientfd, auth, cleft>>

\* The file is opened now; the type of the header is not looked at.  As in the
\* server's Put, the loop is entered with a null pointer too.
GetHeader(c, reply) ==
    /\ Reply(c, "getHeader", reply)
    /\ cleft' = [cleft EXCEPT ![c] = reply.header.length]
    /\ \/ /\ disk[c][cname[c]] # Directory
          /\ Create(c, cname[c])
          /\ GoTo(c, "getData")
          /\ UNCHANGED mishaps
       \/ /\ GoTo(c, "getNull")
          /\ mishaps' = mishaps \cup
               {<<IF disk[c][cname[c]] = Directory THEN "directory" ELSE "fopen", c>>}
          /\ UNCHANGED disk
    /\ UNCHANGED <<othersVars, up, left, reset, clientfd, auth, cname, announced, commands>>

PutReply_NoHeader(c, reply) ==   \* mutant: the data follow at once
    /\ Reply(c, "put", reply)
    /\ GoTo(c, "putData")
    /\ cleft' = [cleft EXCEPT ![c] = 0]
    /\ UNCHANGED <<replyVars, up, left, reset, clientfd, auth>>

\* Without the right reply the data follow all the same, but no header.
PutReplied(c, reply) ==
    /\ Reply(c, "put", reply)
    /\ IF reply.header.type = "PUT_REPLY"
       THEN ClientSends(c, <<get_header(UNUSED, "FILE_DATA", announced[c])>>)
       ELSE UNCHANGED up
    /\ GoTo(c, "putData")
    /\ cleft' = [cleft EXCEPT ![c] = 0]
    /\ UNCHANGED <<replyVars, left, reset, clientfd, auth>>

\* Whatever the reply is, main closes the connection and ends.
QuitReply(c, reply) ==
    /\ Reply(c, "quit", reply)
    /\ Hangup(c, reply.rest)
    /\ UNCHANGED <<replyVars, up, clientfd, auth, cleft>>

-----------------------------------------------------------------------------
\* The loops of List, Get and Put.

ReceiveChunk(c, place) ==
    /\ cplace[c] = place
    /\ cleft[c] > 0
    /\ LET n == Chunk(cleft[c])
       IN  /\ Len(down[c]) >= n
           /\ down' = [down EXCEPT ![c] = SubSeq(@, n + 1, Len(@))]
           /\ cleft' = [cleft EXCEPT ![c] = @ - n]
    /\ UNCHANGED <<othersVars, mishaps, up, left, reset, cplace, clientfd, auth, cname, announced, commands>>

ListBlocks(c) ==
    /\ ReceiveChunk(c, "listData")
    /\ UNCHANGED disk

GetBlocksOf(c) ==
    /\ ReceiveChunk(c, "getData")
    /\ \E blocks \in AsBlocks(SubSeq(down[c], 1, Chunk(cleft[c]))) : Write(c, cname[c], blocks)

\* fwrite of the first data, or fclose if there are none, ends the process.
GetNull(c) ==
    /\ cplace[c] = "getNull"
    /\ LET n == Chunk(cleft[c])
           rest == SubSeq(down[c], n + 1, Len(down[c]))
       IN  /\ Len(down[c]) >= n
           /\ down' = [down EXCEPT ![c] = rest]
           /\ Hangup(c, rest)
    /\ UNCHANGED <<othersVars, mishaps, up, disk, clientfd, auth, cname, cleft, announced, commands>>

\* List and Get return.
TransferDone(c) ==
    /\ cplace[c] \in {"listData", "getData"}
    /\ cleft[c] = 0
    /\ GoTo(c, "prompt")
    /\ UNCHANGED <<ioVars, serverVars, mishaps, clientfd, auth, cname, cleft, announced, commands>>

\* One turn of Put's loop, until fread returns nothing.
PutBlocksOf(c) ==
    /\ cplace[c] = "putData"
    /\ LET blocks == NextBlocks(disk[c][cname[c]], cleft[c])
       IN  IF blocks = <<>>
           THEN /\ GoTo(c, "prompt")
                /\ cleft' = [cleft EXCEPT ![c] = 0]
                /\ UNCHANGED up
           ELSE /\ ClientSends(c, AsUnits(blocks))
                /\ cleft' = [cleft EXCEPT ![c] = @ + Len(blocks)]
                /\ UNCHANGED cplace
    /\ UNCHANGED <<othersVars, mishaps, down, left, reset, disk, clientfd, auth, cname, announced, commands>>

-----------------------------------------------------------------------------
\* The end of a client.

\* At the prompt: an empty line, or the end of the input, ends the process (strcmp
\* of a null pointer), as an interrupt does.
LeaveAtPrompt(c) ==
    /\ cplace[c] = "prompt"
    /\ IF c \in clientfd
       THEN Hangup(c, down[c])
       ELSE GoTo(c, "exited") /\ UNCHANGED <<left, reset>>
    /\ UNCHANGED <<othersVars, mishaps, up, down, disk, clientfd, auth, cname, cleft, announced, commands>>

\* In the middle of a command: an interrupt, while it waits or between the Send of
\* a request and that of the name or login behind it.
ClientDies(c) ==
    /\ \/ /\ cplace[c] \notin {"prompt", "exited"}
          /\ UNCHANGED up
       \/ \E type \in {"AUTH_REQUEST", "GET_REQUEST", "PUT_REQUEST"} :
            /\ IF type = "AUTH_REQUEST" THEN Connected(c) ELSE LoggedIn(c)
            /\ ClientSends(c, <<get_header(UNUSED, type, 1)>>)
    /\ Hangup(c, down[c])
    /\ mishaps' = mishaps \cup {<<"died", c>>}
    /\ UNCHANGED <<othersVars, down, disk, clientfd, auth, cname, cleft, announced, commands>>

\* The server was killed: Recv returns -1 and panic follows, a loop is at the end of
\* the stream, or a Send ends the process by SIGPIPE.
ClientFails(c) ==
    /\ splace = "killed"
    /\ \/ /\ cplace[c] \notin {"prompt", "putData", "exited", "hung"}
          /\ cplace[c] \in {"listData", "getData", "getNull"} => cleft[c] > 0
          /\ GoTo(c, "hung")
       \/ cplace[c] = "putData" /\ GoTo(c, "exited")
    /\ UNCHANGED <<ioVars, serverVars, mishaps, clientfd, auth, cname, cleft, announced, commands>>

ClientStep(c) ==
    \/ Open(c)
    \/ OpenNowhere(c)
    \/ \E login \in {0, 1} : Auth(c, login)
    \/ List(c)
    \/ \E name \in Names : Get(c, name) \/ Put(c, name)
    \/ Quit(c)
    \/ \E reply \in Replies(c) :
         \/ OpenReply(c, reply)
         \/ AuthReply(c, reply)
         \/ ListReply(c, reply)
         \/ GetReplied(c, reply)
         \/ GetHeader(c, reply)
         \/ PutReplied(c, reply)
         \/ QuitReply(c, reply)
    \/ ListBlocks(c)
    \/ GetBlocksOf(c)
    \/ GetNull(c)
    \/ TransferDone(c)
    \/ PutBlocksOf(c)
    \/ LeaveAtPrompt(c)
    \/ ClientFails(c)
=============================================================================
