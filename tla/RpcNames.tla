------------------------------ MODULE RpcNames ------------------------------
(***************************************************************************)
(* The functions that #[server_function] and #[client_function] make       *)
(* remote (src/main/rust/macros/src/lib.rs), the names under which they    *)
(* are called, and the names the Python decorators give the same functions *)
(* (src/main/python/autobahn_client/rpc.py).                               *)
(*                                                                         *)
(* An identifier is a sequence of words, because a name is identifiers run *)
(* together; a type is the path of a message type behind some references.  *)
(* A function has a name and a sequence of argument types, and ret is <<>> *)
(* or holds its return type.                                               *)
(* The prefix RPC/FUNCTIONAL_SERVICE/ of every topic is left out.          *)
(***************************************************************************)
EXTENDS Naturals, Sequences

CONSTANTS
  Words,      \* what identifiers are made of
  Primitives  \* the identifiers the macros know as primitive types

ASSUME WordsAssumption == "None" \in Words

Paths     == Seq(Seq(Words)) \ {<<>>}
Types     == [refs : Nat, path : Paths]
Functions == [name : Seq(Words), args : Seq(Types), ret : Seq(Types)]

RpcEmpty == [refs |-> 0, path |-> << <<"proto">>, <<"RpcEmpty">> >>]

LastSegment(ty) == ty.path[Len(ty.path)]

\* References are looked through.
IsPrimitive(ty) == LastSegment(ty) \in Primitives

\* A message by value, as the bounds Message + Default + 'static ask for.
ByValue(f) == \A tys \in {f.args, f.ret} : \A i \in DOMAIN tys : tys[i].refs = 0

\* The programs that compile; the wrapper passes at most one argument.
ServerAccepts(f) ==
  /\ \A i \in DOMAIN f.args : ~IsPrimitive(f.args[i])
  /\ ByValue(f) /\ Len(f.args) <= 1

\* The stub too, which panics at a second argument.
ClientAccepts(f) == ServerAccepts(f)

\* The messages of a request and of its response.
InputType(f)  == IF f.args = <<>> THEN RpcEmpty ELSE f.args[1]
OutputType(f) == IF f.ret  = <<>> THEN RpcEmpty ELSE f.ret[1]

\* Mutant: the name ends before the return type.
ArgumentsOnly(f) ==
  f.name \o (IF f.args = <<>> THEN <<"None">> ELSE LastSegment(f.args[1]))

\* What a name has in the place of an argument or of a return type.
TypeText(tys) == IF tys = <<>> THEN <<"None">> ELSE LastSegment(tys[1])

\* from_function_to_rpc_name, of a function with at most one argument.
RpcName(f) == f.name \o TypeText(f.args) \o TypeText(f.ret)

\* from_function_to_rpc_name in rpc.py, of the same function fully annotated (a
\* return type None where Rust has none): nothing in the place of no argument.
PythonName(f) ==
  f.name \o (IF f.args = <<>> THEN <<>> ELSE TypeText(f.args)) \o TypeText(f.ret)

\* What a name is meant to tell: the function, and its types up to their modules.
Signature(f) ==
  [name |-> f.name, takes |-> TypeText(f.args), gives |-> TypeText(f.ret)]

Differ(f, g) ==
  {part \in {"name", "takes", "gives"} : Signature(f)[part] # Signature(g)[part]}
=============================================================================
