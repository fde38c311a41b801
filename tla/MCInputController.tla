-------------------------- MODULE MCInputController --------------------------
(* A small instance of the input controller for TLC. *)
EXTENDS InputController

Lines == {"/quit", "hello"}
=============================================================================
