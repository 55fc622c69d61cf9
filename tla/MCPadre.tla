------------------------------- MODULE MCPadre -------------------------------
(* Instances of Padre for TLC. *)
EXTENDS Padre

CONSTANTS d1, d2

TwoDevs == {d1, d2}
OneDev == {d1}
=============================================================================
