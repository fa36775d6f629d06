----------------------------- MODULE FileStore -----------------------------
(***************************************************************************)
(* What lab1-myftp promises of files: a transfer makes the target a copy   *)
(* of the source, there is one transfer at a time between the server and a *)
(* client, and a file that is being written is never the source of         *)
(* another.  Files may change where no transfer is under way.              *)
(***************************************************************************)
CONSTANTS Hosts, Server, Names, Contents, Partial, None

VARIABLES
    files,     \* files[host][name]: its content, or Partial while it is written
    transfer   \* the one under way, or None

storeVars == <<files, transfer>>

Transfers == [from : Hosts, to : Hosts, name : Names]

StoreInit ==
    /\ files \in [Hosts -> [Names -> Contents]]
    /\ transfer = None

Begin(from, to, name) ==
    /\ transfer = None
    /\ Server \in {from, to} /\ from # to
    /\ transfer' = [from |-> from, to |-> to, name |-> name]
    /\ files' = [files EXCEPT ![to][name] = Partial]

Finish ==
    /\ transfer # None
    /\ files' = [files EXCEPT ![transfer.to][transfer.name] =
                    files[transfer.from][transfer.name]]
    /\ transfer' = None

Change(host, name) ==
    /\ transfer = None \/ host \notin {transfer.from, transfer.to}
    /\ files'[host][name] \in Contents
    /\ files' = [files EXCEPT ![host][name] = files'[host][name]]
    /\ UNCHANGED transfer

StoreNext ==
    \/ \E from, to \in Hosts, name \in Names : Begin(from, to, name)
    \/ Finish
    \/ \E host \in Hosts, name \in Names : Change(host, name)
=============================================================================
