------------------------------ MODULE MCPyRpc ------------------------------
(* Instances of PyRpc for TLC.                                             *)
EXTENDS PyRpc, TLC

CONSTANTS topic, call

MCTopics == {topic, call}
MCCalls  == {call}
=============================================================================
