---------------------------- MODULE MCCaptureFeed ----------------------------
(* Instances of CaptureFeed for TLC. *)
EXTENDS CaptureFeed, TLC

Symmetry == Permutations(Socket) \cup Permutations(Session)
===============================================================================
