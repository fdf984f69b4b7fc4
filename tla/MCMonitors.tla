------------------------------- MODULE MCMonitors -------------------------------
(* Entries of one profile for TLC: where they are is given by their name. *)
EXTENDS Monitors

CONSTANTS InRoot, e1, e2, n1

AtPlaces == [e \in Entry |-> IF e \in InRoot THEN Root ELSE n1]
=================================================================================
