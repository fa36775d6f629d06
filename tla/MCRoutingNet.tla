---------------------------- MODULE MCRoutingNet ----------------------------
(***************************************************************************)
(* Three routers in a line, 0 -- 1 -- 2, whose link 1 -- 2 becomes dearer: *)
(* routers 0 and 1 count up to the new distance of router 2 in turns, each *)
(* believing for a while that the other one has a cheaper way.             *)
(***************************************************************************)
EXTENDS RoutingNet, TLC

ThreeRouters == 0..2
TwoPorts == 2..3

\* Port 2 of router r leads to router r + 1, port 3 to router r - 1.
Line == (<<0, 2>> :> <<1, 3>>) @@ (<<1, 3>> :> <<0, 2>>) @@
        (<<1, 2>> :> <<2, 3>>) @@ (<<2, 3>> :> <<1, 2>>)

LinkGetsDear ==
    [end \in DOMAIN Line |->
        IF end \in {<<1, 2>>, <<2, 3>>} THEN <<1, 5>> ELSE <<-1, 1>>]

\* What RoutingNetProofs assumes of the lowest distances holds of this network.
ASSUME LowestIsBelow == BelowEveryWay(LowestDistance)
=============================================================================
