---------------------------- MODULE MCConfigClients ----------------------------
(* Two entries of one interface, in root and in a namespace, and one of another *)
EXTENDS ConfigClients

CONSTANTS r1, n1, r2, w1, w2

InterfaceOf == [s \in Slot |-> IF s = r2 THEN w2 ELSE w1]
=================================================================================
