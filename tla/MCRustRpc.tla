----------------------------- MODULE MCRustRpc -----------------------------
(* Instances of RustRpc for TLC.                                           *)
EXTENDS RustRpc, TLC

CONSTANTS s1, s2

MCWords      == {"None", "String", "u", "8", "proto", "RpcEmpty", "get", "App", "User",
                 "List", "Page", "app"}
MCPrimitives == {<<"String">>, <<"u", "8">>}

Message(module, name) == [refs |-> 0, path |-> <<<<module>>, name>>]
Get(arg, ret) == [name |-> <<"get">>, args |-> <<arg>>, ret |-> <<ret>>]

User    == Message("app", <<"User">>)
AppUser == Message("app", <<"App", "User">>)
List    == Message("app", <<"List">>)
Page    == Message("app", <<"Page">>)

GetApp(arg, ret) == [name |-> <<"get", "App">>, args |-> <<arg>>, ret |-> <<ret>>]

\* The function called, with one that differs in what it returns; elsewhere, one
\* whose name runs together to the same.
MCCalled == [c \in Calls |-> Get(AppUser, List)]
MCOffers == (s1 :> {Get(AppUser, List), Get(AppUser, Page)}) @@ (s2 :> {GetApp(User, List)})
=============================================================================
