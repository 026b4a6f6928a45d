---------------------------- MODULE RemoteCall -----------------------------
(***************************************************************************)
(* What a remote call promises its caller, whatever carries it: no server  *)
(* runs it before it has started, its answer is the first that comes while *)
(* it waits, comes when some server has run it and is not replaced, and    *)
(* the call ends once, with that answer or with a failure.  It may fail    *)
(* although it has its answer, and servers may run it when it is over.     *)
(***************************************************************************)
CONSTANTS
  Calls,
  Servers,   \* who may run a call
  Outcomes,  \* answers
  Failures,  \* other ends of a call
  None       \* no answer, no result

VARIABLES
  stage,   \* where each call is
  ran,     \* the servers that have run it
  answer,  \* the answer it has taken
  result   \* how it ended

vars == <<stage, ran, answer, result>>

Init ==
  /\ stage = [c \in Calls |-> "idle"]
  /\ ran = [c \in Calls |-> {}]
  /\ answer = [c \in Calls |-> None]
  /\ result = [c \in Calls |-> None]

Start(c) ==
  /\ stage[c] = "idle"
  /\ stage' = [stage EXCEPT ![c] = "waiting"]
  /\ UNCHANGED <<ran, answer, result>>

Run(s, c) ==
  /\ stage[c] # "idle"
  /\ s \notin ran[c]
  /\ ran' = [ran EXCEPT ![c] = @ \cup {s}]
  /\ UNCHANGED <<stage, answer, result>>

Take(c, o) ==
  /\ stage[c] = "waiting"
  /\ answer[c] = None
  /\ ran[c] # {}
  /\ answer' = [answer EXCEPT ![c] = o]
  /\ UNCHANGED <<stage, ran, result>>

\* The call stops waiting, with something left to do.
Leave(c) ==
  /\ stage[c] = "waiting"
  /\ stage' = [stage EXCEPT ![c] = "leaving"]
  /\ UNCHANGED <<ran, answer, result>>

End(c, r) ==
  /\ stage[c] # "over"
  /\ stage' = [stage EXCEPT ![c] = "over"]
  /\ result' = [result EXCEPT ![c] = r]
  /\ UNCHANGED <<ran, answer>>

Return(c)  == answer[c] # None /\ End(c, answer[c])
Fail(c, f) == End(c, f)

Next ==
  \E c \in Calls :
    \/ Start(c) \/ Leave(c) \/ Return(c)
    \/ \E s \in Servers : Run(s, c)
    \/ \E o \in Outcomes : Take(c, o)
    \/ \E f \in Failures : Fail(c, f)

Spec == Init /\ [][Next]_vars
=============================================================================
