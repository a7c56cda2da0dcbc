---------------------------- MODULE MCStartupConfig ----------------------------
(* StartupConfig for TLC: the ports at both ends of the range, and beyond. *)
EXTENDS StartupConfig

EdgePorts == {-1, 0, 1, 65535, 65536, 74544}
=============================================================================
