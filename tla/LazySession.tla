---------------------------- MODULE LazySession ----------------------------
(***************************************************************************)
(* What the Rust client promises the application.  It is Session for a     *)
(* client with tasks: a call changes what is wanted in one step, and the   *)
(* hub hears of it in a later one, or, of a topic subscribed without a     *)
(* connection, in two ways: with the topics of the next connection and by  *)
(* a SUBSCRIBE of its own, which comes late and is not taken back.         *)
(*                                                                         *)
(* Nothing else changes what the hub holds.  A connection comes into use   *)
(* only when no wanted topic has been forgotten.                           *)
(***************************************************************************)
EXTENDS Naturals

CONSTANT Topics  \* topic names

VARIABLES
  wanted,   \* the topics the application has subscribed
  telling,  \* the topics of calls that have not told the hub yet
  late,     \* SUBSCRIBEs left until there is a connection, per topic
  coming,   \* the topics the hub holds for the connection being set up
  held,     \* the topics the hub holds for the connection in use
  up        \* there is a connection in use

vars == <<wanted, telling, late, coming, held, up>>

Init ==
  /\ wanted = {} /\ telling = {}
  /\ late = [t \in Topics |-> 0]
  /\ coming = {} /\ held = {} /\ up = FALSE

Want(t) == wanted' = wanted \cup {t}
Drop(t) == wanted' = wanted \ {t}

\* A call subscribes or unsubscribes a topic.
Ask(t) ==
  /\ t \notin telling
  /\ Want(t) \/ Drop(t)
  /\ telling' = telling \cup {t}
  /\ UNCHANGED <<late, coming, held, up>>

\* It tells the hub, if there is a connection in use.
Tell(t) ==
  /\ t \in telling /\ up
  /\ telling' = telling \ {t}
  /\ held' = IF t \in wanted THEN held \cup {t} ELSE held \ {t}
  /\ UNCHANGED <<wanted, late, coming, up>>

TellNobody(t) ==
  /\ t \in telling /\ ~up
  /\ telling' = telling \ {t}
  /\ \/ UNCHANGED late
     \/ t \in wanted /\ late' = [late EXCEPT ![t] = @ + 1]
  /\ UNCHANGED <<wanted, coming, held, up>>

\* A SUBSCRIBE that was left is sent, wanted or not.
TellLate(t) ==
  /\ late[t] > 0
  /\ late' = [late EXCEPT ![t] = @ - 1]
  /\ held' = IF up THEN held \cup {t} ELSE held
  /\ UNCHANGED <<wanted, telling, coming, up>>

\* A heartbeat is answered with the topics of a moment ago.
Repeat(S) ==
  /\ up
  /\ S \subseteq wanted \cup telling
  /\ held' = held \cup S
  /\ UNCHANGED <<wanted, telling, late, coming, up>>

\* A connection is set up with what is wanted, and comes into use.
Prepare(t) ==
  /\ ~up
  /\ t \in wanted
  /\ coming' = coming \cup {t}
  /\ UNCHANGED <<wanted, telling, late, held, up>>

Open ==
  /\ ~up
  /\ \A t \in wanted : t \in coming \/ t \in telling \/ late[t] > 0
  /\ up' = TRUE
  /\ held' = coming
  /\ coming' = {}
  /\ UNCHANGED <<wanted, telling, late>>

\* The hub forgets a connection that goes.
Close ==
  /\ up' = FALSE
  /\ held' = {} /\ coming' = {}
  /\ UNCHANGED <<wanted, telling, late>>

Next ==
  \/ \E t \in Topics :
       Ask(t) \/ Tell(t) \/ TellNobody(t) \/ TellLate(t) \/ Prepare(t)
  \/ \E S \in SUBSET Topics : Repeat(S)
  \/ Open \/ Close

Spec == Init /\ [][Next]_vars
=============================================================================
