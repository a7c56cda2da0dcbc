---------------------------- MODULE MCTestDatabase ----------------------------
(* TestDatabase for TLC. *)
EXTENDS TestDatabase
=============================================================================
