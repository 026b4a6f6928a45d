------------------------------ MODULE Session ------------------------------
(***************************************************************************)
(* What a client promises the application, whatever its language: the      *)
(* topics it has subscribed, and a connection that comes and goes under    *)
(* them.  While the connection is there the hub holds those topics, and    *)
(* an application sees a subscription or a cancellation take effect in one *)
(* step; nothing else ever changes what the hub holds.                     *)
(*                                                                         *)
(* TsClient and PyClient define what these variables are in their state,   *)
(* and are checked and proved to implement this specification.             *)
(***************************************************************************)
CONSTANT Topics  \* topic names

VARIABLES
  wanted,  \* the topics the application has subscribed
  held,    \* the topics the hub holds for the connection in use
  up       \* there is a connection in use

vars == <<wanted, held, up>>

Init == wanted = {} /\ held = {} /\ up = FALSE

Want(t) ==
  /\ wanted' = wanted \cup {t}
  /\ held' = IF up THEN held \cup {t} ELSE held
  /\ UNCHANGED up

Drop(t) ==
  /\ wanted' = wanted \ {t}
  /\ held' = IF up THEN held \ {t} ELSE held
  /\ UNCHANGED up

\* A connection comes into use with all that was subscribed without one.
Open ==
  /\ ~up
  /\ up' = TRUE
  /\ held' = wanted
  /\ UNCHANGED wanted

\* The hub forgets a connection that goes.
Close ==
  /\ up
  /\ up' = FALSE
  /\ held' = {}
  /\ UNCHANGED wanted

Next == Open \/ Close \/ \E t \in Topics : Want(t) \/ Drop(t)

Spec == Init /\ [][Next]_vars
=============================================================================
