---------------------------- MODULE MCRustClient ----------------------------
(* Instances of RustClient for TLC.                                        *)
EXTENDS RustClient, TLC

CONSTANTS p1, p2, a, b

\* Each topic is used by one caller, as an application with a task per topic.
SplitOwns == p1 :> {a} @@ p2 :> {b}

\* One caller does everything.
SoleOwns == p1 :> {a}

ConnSymmetry == Permutations(Conns)
=============================================================================
