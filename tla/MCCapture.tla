------------------------------ MODULE MCCapture ------------------------------
(* Instances of Capture for TLC. *)
EXTENDS Capture, TLC

(* Sockets, interfaces and capture ids are interchangeable in the           *)
(* safety runs; the liveness runs do not use symmetry.                      *)
Symmetry == Permutations(Socket) \cup Permutations(Interface) \cup Permutations(Captures)
===============================================================================
