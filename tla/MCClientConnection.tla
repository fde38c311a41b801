------------------------- MODULE MCClientConnection -------------------------
(* Small instances of class ClientConnection, for TLC. *)
EXTENDS ClientConnection, TLC

CONSTANTS c1, c2, o1, o2, invalid

TwoConn == {c1, c2}
TwoObjects == {o1, o2}
Symmetry == Permutations(Conn) \cup Permutations(Object)
=============================================================================
