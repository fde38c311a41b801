--------------------------- MODULE MCExampleServer ---------------------------
(* Small instances of the example server for TLC. *)
EXTENDS ExampleServer, TLC

CONSTANTS c1, c2, c3, none

TwoConn == {c1, c2}
ThreeConn == {c1, c2, c3}
Symmetry == Permutations(ThreeConn)
Lines == {"/quit", "hello"}
NoLines == {}
=============================================================================
