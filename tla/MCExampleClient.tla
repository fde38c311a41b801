--------------------------- MODULE MCExampleClient ---------------------------
(* A small instance of the example client for TLC. *)
EXTENDS ExampleClient

CONSTANTS server, none

Servers == {server}
=============================================================================
