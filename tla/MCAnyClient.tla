----------------------------- MODULE MCAnyClient -----------------------------
(* A small instance of the client library under any application, for TLC. *)
EXTENDS AnyClient

CONSTANTS s1, s2, none

TwoConn == {s1, s2}
=============================================================================
