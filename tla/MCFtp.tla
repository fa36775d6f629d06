------------------------------- MODULE MCFtp -------------------------------
(***************************************************************************)
(* Two clients and three descriptors: enough for everything that the first *)
(* client asks for and for all but List with the second, but for one       *)
(* connection only when two sessions came before.                          *)
(* BUFSIZE is 2, the server's file of 3 units takes two turns of a loop.   *)
(***************************************************************************)
EXTENDS Ftp

CONSTANTS c1, c2, srv

TwoClients == {c1, c2}
TwoNames == {"f", "d"}
TwoBlocks == {0, 1}
NoneOrTwo == {0, 2}
SharedFiles == {<<srv, "f">>, <<c1, "f">>}

\* The server has a file of three units, the second client a directory of that
\* name on its disk; the server has a directory d, the first client a file d.
SomeFiles ==
    [host \in {c1, c2, srv} |->
        IF host = srv THEN [f |-> Regular(<<0, 1, 1>>), d |-> Directory]
        ELSE IF host = c1 THEN [f |-> Regular(<<1>>), d |-> Regular(<<0>>)]
        ELSE [f |-> Directory, d |-> Absent]]
=============================================================================
