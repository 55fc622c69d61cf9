--------------------------- MODULE MCDesktopClient ---------------------------
(* Instances of DesktopClient for TLC. *)
EXTENDS DesktopClient, TLC

CONSTANTS k1, k2

TwoKeys == {k1, k2}

ThreeParams == {
    [lamport_amount |-> 10, priority_fee |-> 6, slippage |-> 50, bribe |-> 1],
    [lamport_amount |-> 0, priority_fee |-> 0, slippage |-> 3, bribe |-> 2],
    [lamport_amount |-> 97, priority_fee |-> 3, slippage |-> 20, bribe |-> 0]}

\* One that is on sale, one that is complete.
TwoCurves == {
    [virtual_token |-> 107, virtual_sol |-> 30, real_token |-> 79, complete |-> FALSE],
    [virtual_token |-> 28, virtual_sol |-> 115, real_token |-> 0, complete |-> TRUE]}
=============================================================================
