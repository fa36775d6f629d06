------------------------------ MODULE MCNatNet ------------------------------
(***************************************************************************)
(* Two routers: 0 inside, 1 with the external port and two addresses for   *)
(* three hosts.                                                            *)
(***************************************************************************)
EXTENDS NatNet

CONSTANTS h1, h2, h3, server, x1, x2

TwoRouters == 0..1
ThreeHosts == {h1, h2, h3}
BorderIsOne == [r \in TwoRouters |-> IF r = 1 THEN {server} ELSE {}]
TwoAddresses == [r \in TwoRouters |-> IF r = 1 THEN <<x1, x2>> ELSE <<>>]
Direct == [r \in TwoRouters |-> [d \in TwoRouters |-> d]]
Homes == [h \in ThreeHosts |-> IF h = h3 THEN 1 ELSE 0]
SmallBudget == [data |-> 3, reply |-> 2, release |-> 1, move |-> 1]
=============================================================================
