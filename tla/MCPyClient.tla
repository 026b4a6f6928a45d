----------------------------- MODULE MCPyClient -----------------------------
(* Instances of PyClient for TLC.                                          *)
EXTENDS PyClient, TLC
=============================================================================
