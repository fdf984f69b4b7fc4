------------------------------ MODULE MCLifecycle ------------------------------
(* An instance of Lifecycle for TLC: radio 0 has no netdev in root, radio 1   *)
(* has two.                                                                   *)
EXTENDS Lifecycle

BothOnOne == [i \in Iface |-> 1]

Only(M) == [k \in Disturbance |-> IF k \in M THEN 1 ELSE 0]

(* Alternative mixes of up to three disturbances, or more of one *)
AllMixes ==
  {Only({"crash", "reload", "getjwt"}), Only({"fault", "reload", "getjwt"}),
   Only({"loss", "fault", "restart"}), Only({"loss", "crash", "reload"}),
   Only({"net", "reload", "crash"}), [Only({"net", "reload"}) EXCEPT !["net"] = 2],
   [Only({"loss"}) EXCEPT !["fault"] = 3]}
===============================================================================
