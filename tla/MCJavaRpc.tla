----------------------------- MODULE MCJavaRpc ------------------------------
(* Instances of JavaRpc for TLC: a caller that serves a function too, and a *)
(* server of it and of the function without argument.                      *)
EXTENDS JavaRpc, TLC

CONSTANTS x1, x2, c1

Get    == [takes |-> TRUE,  gives |-> TRUE]
GetAll == [takes |-> FALSE, gives |-> TRUE]

MCCaller == c1 :> x1
MCAsks   == c1 :> Get
MCOffers == (x1 :> {Get}) @@ (x2 :> {Get, GetAll})
=============================================================================
