----------------------------- MODULE MCTsClient -----------------------------
(* Instances of TsClient for TLC.                                          *)
EXTENDS TsClient
=============================================================================
