------------------------------- MODULE MCTokens -------------------------------
(* An instance of Tokens for TLC *)
EXTENDS Tokens, TLC

Symmetry == Permutations(Request) \cup Permutations(Key) \cup Permutations(Token)

S(requests, keys, tokens, clocks) ==
  [requests |-> requests, keys |-> keys, tokens |-> tokens, clocks |-> clocks]

(* Concurrent requests while Core restarts, or one at a time with clocks that *)
(* go wrong                                                                   *)
BusyOrClocks == {S(3, 2, 2, FALSE), S(2, 3, 2, FALSE), S(1, 1, 1, TRUE)}
===============================================================================
