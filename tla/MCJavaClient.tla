---------------------------- MODULE MCJavaClient ----------------------------
(* Instances of JavaClient for TLC.                                        *)
EXTENDS JavaClient, TLC
=============================================================================
