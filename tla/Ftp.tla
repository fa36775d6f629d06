-------------------------------- MODULE Ftp --------------------------------
(***************************************************************************)
(* lab1-myftp as a whole: clients that come, work and go, or die, and one  *)
(* server, over disks whose files may change under a transfer.             *)
(***************************************************************************)
EXTENDS FtpClient

CONSTANTS
    Edited,       \* bound: the files that others than the two programs may change
    MaxTroubles   \* bound: such changes, clients that die, and failing calls

ASSUME TroublesAssumption == Edited \subseteq Hosts \X Names /\ MaxTroubles \in Nat

VARIABLE troubles   \* left of MaxTroubles

vars == <<ioVars, serverVars, mishaps, clientVars, troubles>>

TypeOK ==
    /\ IoTypeOK
    /\ ServerTypeOK
    /\ ClientTypeOK
    /\ troubles \in 0..MaxTroubles

Init ==
    /\ IoInit
    /\ ServerInit
    /\ ClientInit
    /\ troubles = MaxTroubles

\* A command of c is being carried out, by the client or still by the server.
Busy(c) ==
    \/ cplace[c] \notin {"prompt", "exited"}
    \/ serving = c /\ splace \notin {"accept", "request"}
    \/ c \notin left /\ up[c] # <<>>

Trouble == troubles > 0 /\ troubles' = troubles - 1

\* Somebody writes to a file, or shortens it.
Edit(host, name) ==
    /\ Trouble
    /\ <<host, name>> \in Edited
    /\ disk[host][name] \notin {Absent, Directory}
    /\ LET blocks == disk[host][name].blocks
       IN  \/ \E block \in Blocks :
                disk' = [disk EXCEPT ![host][name] = Regular(Append(blocks, block))]
           \/ /\ blocks # <<>>
              /\ disk' = [disk EXCEPT ![host][name] =
                            Regular(SubSeq(blocks, 1, Len(blocks) - 1))]
    /\ mishaps' = mishaps \cup
                    {<<"edited", c>> : c \in {d \in Clients : host \in {Server, d} /\ Busy(d)}}
    /\ UNCHANGED <<up, down, left, reset, serverVars, clientVars>>

\* popen, fopen or getaddrinfo fails in this step.
CallFails ==
    \E call \in {"popen", "fopen", "getaddrinfo"}, c \in Clients :
        <<call, c>> \in mishaps' \ mishaps

Counted == IF CallFails THEN Trouble ELSE UNCHANGED troubles

Next ==
    \/ ServerStep /\ UNCHANGED clientVars /\ Counted
    \/ \E c \in Clients :
         \/ ClientStep(c) /\ Counted
         \/ ClientDies(c) /\ Trouble
    \/ \E host \in Hosts, name \in Names : Edit(host, name)

Spec == Init /\ [][Next]_vars

NoMishap == mishaps = {}
Mishap(c) == \E kind \in MishapKinds : <<kind, c>> \in mishaps

\* The programs go on where they can, which is assumed only until the first mishap: no
\* property asks for more.  Users need not type another line.
Fairness ==
    /\ WF_vars(NoMishap /\ ServerStep /\ UNCHANGED clientVars /\ Counted)
    /\ \A c \in Clients :
         WF_vars(NoMishap /\ cplace[c] # "prompt" /\ ClientStep(c) /\ Counted)

FairSpec == Spec /\ Fairness

-----------------------------------------------------------------------------
\* Properties.

\* What each side may find next in its stream where it is.
ServerExpects ==
    [request |-> {"OPEN_CONN_REQUEST", "AUTH_REQUEST", "LIST_REQUEST",
                  "GET_REQUEST", "PUT_REQUEST", "QUIT_REQUEST"},
     auth |-> {"login"}, getName |-> {"name"}, putName |-> {"name"},
     putHeader |-> {"FILE_DATA"}, putData |-> {"block"}]

ClientExpects ==
    [prompt |-> {}, open |-> {"OPEN_CONN_REPLY"}, auth |-> {"AUTH_REPLY"},
     list |-> {"LIST_REPLY"}, get |-> {"GET_REPLY"}, put |-> {"PUT_REPLY"},
     quit |-> {"QUIT_REPLY"}, listData |-> {"listing"}, getHeader |-> {"FILE_DATA"},
     getData |-> {"block"}, getNull |-> {"block"}, putData |-> {}, exited |-> {}]

\* As long as no mishap happened to a client, it and the server agree where every
\* message starts, whatever happened to other clients before: what a Recv finds first
\* is what its caller waits for, a client at the prompt has no reply before it, and
\* no more of a file comes than was announced.
InStep ==
    \A c \in Clients : ~Mishap(c) =>
        /\ c = serving /\ splace \in DOMAIN ServerExpects /\ up[c] # <<>> =>
             \/ Head(up[c]).type \in ServerExpects[splace]
             \/ splace = "putData" /\ sleft = 0
        /\ cplace[c] # "hung" /\ down[c] # <<>> =>
             /\ Head(down[c]).type \in ClientExpects[cplace[c]]
             /\ cplace[c] \in {"listData", "getData"} => Len(down[c]) <= cleft[c]

\* The server is never in panic, in an endless loop or killed by a signal without a
\* mishap of the client it serves, whatever happened to those it has done with; a client
\* is never in panic or in an endless loop without a mishap of its own or the server's end.
StopsHaveCauses ==
    /\ ServerStopped => Mishap(serving)
    /\ \A c \in Clients : cplace[c] = "hung" => Mishap(c) \/ splace = "killed"

Transferring ==
    IF splace = "putData" THEN {[from |-> serving, to |-> Server, name |-> sname]}
    ELSE {[from |-> Server, to |-> c, name |-> cname[c]] : c \in {d \in Clients : cplace[d] = "getData"}}

Partial == [size |-> -2, blocks |-> <<>>]
None == [from |-> Server, to |-> Server]

Store == INSTANCE FileStore WITH
    Contents <- Files,
    files <- [host \in Hosts |-> [name \in Names |->
                IF \E t \in Transferring : t.to = host /\ t.name = name
                THEN Partial ELSE disk[host][name]]],
    transfer <- IF Transferring = {} THEN None ELSE CHOOSE t \in Transferring : TRUE

\* Until a mishap happens, Get and Put are copies: the disks and the transfers
\* under way do what FileStore says.
ImplementsFileStore ==
    /\ Store!StoreInit
    /\ [][NoMishap' => Store!StoreNext]_(Store!storeVars)

\* Unless a mishap happens, every command that is sent to a server that serves the
\* client comes to an end: no client stays in Auth, List, Get, Put or Quit for ever.
CommandsReturn ==
    \A c \in Clients : []<>(cplace[c] \in {"prompt", "open", "exited"} \/ ~NoMishap)

\* Every user with a connection leaves at some time.
NobodyStays == \A c \in Clients : <>[]~Connected(c)

\* Open may wait for ever, behind a client that keeps its connection: the server has
\* one thread.  When nobody stays for ever and no mishap happens, who opens is served.
OpensReturn ==
    NobodyStays => \A c \in Clients : []<>(cplace[c] # "open" \/ ~NoMishap)
=============================================================================
