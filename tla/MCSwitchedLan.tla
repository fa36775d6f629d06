--------------------------- MODULE MCSwitchedLan ---------------------------
(***************************************************************************)
(* Three switches in a line, a -- b -- c, with plugs for the hosts on      *)
(* ports 2 and 3 of a and c and on port 3 of b.                            *)
(***************************************************************************)
EXTENDS SwitchedLan, TLC

CONSTANTS a, b, c, h1, h2, h3

ThreeSwitches == {a, b, c}
ThreeHosts == {h1, h2, h3}
ThreePorts == 1..3

Line ==
    (<<a, 1>> :> <<b, 1>>) @@ (<<b, 1>> :> <<a, 1>>) @@
    (<<b, 2>> :> <<c, 1>>) @@ (<<c, 1>> :> <<b, 2>>)

AlongLine ==
    [s \in ThreeSwitches |-> [t \in ThreeSwitches |-> IF s = b /\ t = c THEN 2 ELSE 1]]

Plugged == (h1 :> <<a, 2>>) @@ (h2 :> <<b, 3>>) @@ (h3 :> <<c, 2>>)
=============================================================================
