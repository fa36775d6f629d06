----------------------------- MODULE FtpDialogue -----------------------------
(***************************************************************************)
(* Where a client that no mishap happened to and the server stand towards  *)
(* each other: every state their dialogue may be in, with what is in the   *)
(* two streams and how far the file is copied.  Ftp's properties of the    *)
(* streams and of the files follow from it, and it is inductive.           *)
(***************************************************************************)
EXTENDS Ftp

IsRegular(file) == file = Regular(file.blocks)

\* What is written of a file so far.
Copied(target, source) ==
    /\ Len(target) <= Len(source)
    /\ \A i \in 1..Len(target) : target[i] = source[i]

\* After front units come the blocks of source behind the first from, up to the
\* first to, and then the units of command.
Carries(stream, front, source, from, to, command) ==
    /\ from <= to /\ to <= Len(source)
    /\ Len(stream) = front + (to - from) + Len(command)
    /\ \A i \in 1..(to - from) : stream[front + i] = Body("block", source[from + i])
    /\ \A i \in 1..Len(command) : stream[front + (to - from) + i] = command[i]

\* What client c has sent for the command whose reply it waits for.
Commands(c) ==
    CASE cplace[c] \in {"prompt", "exited"} -> {<<>>}
      [] cplace[c] = "open" -> {<<get_header(UNUSED, "OPEN_CONN_REQUEST", 0)>>}
      [] cplace[c] = "auth" -> {<<get_header(UNUSED, "AUTH_REQUEST", 1), Body("login", login)>> : login \in {0, 1}}
      [] cplace[c] = "list" -> {<<get_header(UNUSED, "LIST_REQUEST", 0)>>}
      [] cplace[c] = "get" -> {<<get_header(UNUSED, "GET_REQUEST", 1), Body("name", cname[c])>>}
      [] cplace[c] = "put" -> {<<get_header(UNUSED, "PUT_REQUEST", 1), Body("name", cname[c])>>}
      [] cplace[c] = "quit" -> {<<get_header(UNUSED, "QUIT_REQUEST", 0)>>}
      [] OTHER -> {}

\* The file that Put is about is what was announced.
Announced(c) ==
    cplace[c] = "put" => IsRegular(disk[c][cname[c]]) /\ announced[c] = disk[c][cname[c]].size

DataHeader(file) == get_header(UNUSED, "FILE_DATA", file.size)

\* Put's file is on its way, c having sent so many of its blocks and then command.
PutFollows(c, sent, command) ==
    /\ IsRegular(disk[c][sname])
    /\ \/ /\ splace = "putHeader"
          /\ Carries(up[c], 1, disk[c][sname].blocks, 0, sent, command)
          /\ up[c][1] = DataHeader(disk[c][sname])
       \/ /\ splace = "putData"
          /\ IsRegular(disk[Server][sname])
          /\ Copied(disk[Server][sname].blocks, disk[c][sname].blocks)
          /\ sleft = disk[c][sname].size - disk[Server][sname].size
          /\ Carries(up[c], 0, disk[c][sname].blocks, disk[Server][sname].size, sent, command)

\* The server has not come to the command yet: it waits for it, or is still busy
\* with a file that is sent already.
Behind(c) ==
    /\ down[c] = <<>>
    /\ Announced(c)
    /\ \E command \in Commands(c) :
         \/ splace = "request" /\ up[c] = command
         \/ /\ splace = "getData" /\ up[c] = command
            /\ IsRegular(disk[Server][sname]) /\ sleft = disk[Server][sname].size
         \/ PutFollows(c, disk[c][sname].size, command)

\* It has taken the header.
Taken(c) ==
    /\ down[c] = <<>>
    /\ Announced(c)
    /\ \/ /\ cplace[c] = "auth" /\ splace = "auth"
          /\ \E login \in {0, 1} : up[c] = <<Body("login", login)>>
       \/ cplace[c] = "get" /\ splace = "getName" /\ up[c] = <<Body("name", cname[c])>>
       \/ cplace[c] = "put" /\ splace = "putName" /\ up[c] = <<Body("name", cname[c])>>

\* It has replied, and has nothing more to send.
Answered(c) ==
    /\ up[c] = <<>>
    /\ splace = "request"
    /\ \/ cplace[c] = "open" /\ down[c] = <<get_header(1, "OPEN_CONN_REPLY", 0)>>
       \/ /\ cplace[c] = "auth"
          /\ \E status \in {0, 1} : down[c] = <<get_header(status, "AUTH_REPLY", 0)>>
       \/ /\ cplace[c] = "list"
          /\ down[c] = <<get_header(UNUSED, "LIST_REPLY", 2), Body("listing", 0), Body("listing", 0)>>
       \/ cplace[c] = "get" /\ down[c] = <<GetReply(0)>>
       \/ cplace[c] = "quit" /\ down[c] = <<get_header(UNUSED, "QUIT_REPLY", 0)>>

Listing(c) ==
    /\ up[c] = <<>>
    /\ splace = "request" /\ cplace[c] = "listData"
    /\ Len(down[c]) = cleft[c]
    /\ \A i \in 1..Len(down[c]) : down[c][i] = Body("listing", 0)

\* Get's file is on its way, behind front headers, c having written so many blocks.
GetFollows(c, front, written) ==
    /\ up[c] = <<>>
    /\ splace \in {"getData", "request"} /\ sname = cname[c]
    /\ IsRegular(disk[Server][sname])
    /\ Carries(down[c], front, disk[Server][sname].blocks, written,
               IF splace = "getData" THEN sleft ELSE disk[Server][sname].size, <<>>)

Getting(c) ==
    \/ /\ cplace[c] = "get"
       /\ GetFollows(c, 2, 0)
       /\ down[c][1] = GetReply(1) /\ down[c][2] = DataHeader(disk[Server][sname])
    \/ /\ cplace[c] = "getHeader"
       /\ GetFollows(c, 1, 0)
       /\ down[c][1] = DataHeader(disk[Server][sname])
    \/ /\ cplace[c] = "getData"
       /\ IsRegular(disk[c][cname[c]])
       /\ GetFollows(c, 0, disk[c][cname[c]].size)
       /\ Copied(disk[c][cname[c]].blocks, disk[Server][sname].blocks)
       /\ cleft[c] = disk[Server][sname].size - disk[c][cname[c]].size

\* Put may send its file.
Asked(c) ==
    /\ cplace[c] = "put" /\ splace = "putHeader" /\ sname = cname[c]
    /\ up[c] = <<>> /\ down[c] = <<PutReply>>
    /\ Announced(c)

\* Its loop runs; the server may have all of the file when it does not know yet.
Putting(c) ==
    /\ cplace[c] = "putData" /\ down[c] = <<>>
    /\ \/ sname = cname[c] /\ PutFollows(c, cleft[c], <<>>)
       \/ /\ splace = "request" /\ up[c] = <<>>
          /\ cleft[c] = Len(disk[c][cname[c]].blocks)

Waits(c) == \E i \in 1..Len(backlog) : backlog[i] = c

\* The session of c is open at the server.
Served(c) == serving = c /\ splace # "accept"

InSession(c) ==
    /\ Served(c) /\ ~Waits(c)
    /\ cplace[c] \in {"open", "exited"} \/ c \in clientfd
    /\ Behind(c) \/ Taken(c) \/ Answered(c) \/ Listing(c) \/ Getting(c) \/ Asked(c) \/ Putting(c)

\* c waits to be accepted.
Queued(c) ==
    /\ ~Served(c) /\ Waits(c)
    /\ \A i, j \in 1..Len(backlog) : backlog[i] = c /\ backlog[j] = c => i = j
    /\ cplace[c] = "open"
    /\ up[c] \in Commands(c) /\ down[c] = <<>>

\* It has not connected yet, or its session is over.
Outside(c) ==
    /\ ~Served(c) /\ ~Waits(c)
    /\ cplace[c] = "exited" \/ (cplace[c] = "prompt" /\ c \notin clientfd)
    /\ up[c] = <<>> /\ down[c] = <<>>

\* There is no server any more.
Alone(c) == splace = "killed" /\ ~Served(c) /\ down[c] = <<>>

AtEase(c) == InSession(c) \/ Queued(c) \/ Outside(c) \/ Alone(c)

\* Every client that no mishap happened to is in step with the server.
Dialogue == \A c \in Clients : ~Mishap(c) => AtEase(c)

\* No error is on its way to the server but from a client with a mishap: whoever else
\* closes the connection has read all that was sent, and is sent nothing more.
ResetsHaveCauses == \A c \in reset : Mishap(c)
=============================================================================
