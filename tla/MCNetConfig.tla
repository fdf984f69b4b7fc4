------------------------------ MODULE MCNetConfig ------------------------------
(* Instances of NetConfig for TLC: two radios, one namespace, two profiles. *)
EXTENDS NetConfig, TLC

E(radio, netns, name, secure) ==
  [radio |-> radio, netns |-> netns, name |-> name, secure |-> secure]

(* "a" uses a namespace and a renamed root radio, "b" one of them plainly;   *)
(* "bad" fails validate_config.  An edit puts any of them into a profile.    *)
MCLayout ==
  [v \in {"d", "a", "b", "bad"} |->
     CASE v = "d"  -> <<E("wlan0", "root", "wlan0", FALSE), E("wlan1", "root", "wlan1", FALSE)>>
       [] v = "a"  -> <<E("wlan0", "ns_a", "sta0", TRUE), E("wlan1", "root", "lab1", TRUE)>>
       [] v = "b"  -> <<E("wlan0", "root", "wlan0", TRUE)>>
       [] OTHER    -> <<E("wlan1", "root", "lab1", FALSE)>>]

MCFactory == [p \in {"default", "A", "B"} |->
                CASE p = "default" -> "d" [] p = "A" -> "a" [] p = "B" -> "b"]

(* The same with one profile beside default, for liveness *)
OneProfile  == [p \in {"default", "A"} |-> MCFactory[p]]
OneLayout   == [v \in {"d", "a", "bad"} |-> MCLayout[v]]

(* The disturbances of each run *)
Once(M) == [k \in Disturbance |-> IF k \in M THEN 1 ELSE 0]

Mixes == {Once({"fault", "plug"}), Once({"tool", "plug"}), Once({"fault", "tool", "stray"}),
          [Once({"crash"}) EXCEPT !["crash"] = 2],
          Once({"crash", "stray"}), Once({"crash", "edit"}), Once({"lapse", "tool"})}
Files == {Once(Disturbance \ {"tool", "plug", "lapse"}), Once({"lapse", "edit", "crash"})}

OneLapse == {Once({"lapse"})}
OneFault == {Once({"fault"})}
OneCrash == {Once({"crash"})}
OneEdit  == {Once({"edit"})}
OneBreak == {Once({"break"})}
===============================================================================
