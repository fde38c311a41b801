-------------------------- MODULE MCAnyApplication --------------------------
(* Small instances of the server library under any application, for TLC. *)
EXTENDS AnyApplication

CONSTANT c1

OneConn == {c1}
Lines == {"/quit"}
=============================================================================
