---------------------------- MODULE MCAdminPanel ----------------------------
(* AdminPanel with one session. *)
EXTENDS AdminPanel

CONSTANTS root, k1, k2, k3, c1, a1

FourKeys == {root, k1, k2, k3}
OldAndNewKey == {k1, k3}

=============================================================================
