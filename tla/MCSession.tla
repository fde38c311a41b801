----------------------------- MODULE MCSession -----------------------------
(* One session, for TLC. *)
EXTENDS Session

CONSTANTS c1, none

OneConn == {c1}
Lines == {"/quit"}
=============================================================================
