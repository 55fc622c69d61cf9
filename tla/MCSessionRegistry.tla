-------------------------- MODULE MCSessionRegistry --------------------------
(* Instances of SessionRegistry for TLC. *)
EXTENDS SessionRegistry, TLC

CONSTANTS root, k1, c1, c2, c3, a1

OneKey == {root}
TwoKeys == {root, k1}
OneConn == {c1}
TwoConns == {c1, c2}
ThreeConns == {c1, c2, c3}
NoRemover == {}
OneRemover == {a1}

NoFaults == {}
\* A client that vanishes does nothing that one that closes its link does not.
AllButVanish == FaultKinds \ {"vanish"}

\* Connection attempts and removers are interchangeable; the keys are not,
\* since root has the administrator's row.
Interchangeable == Permutations(Conns) \cup Permutations(Removers)
=============================================================================
