-------------------------------- MODULE MCTools --------------------------------
(* The tools for TLC: Core's own profiler, the profiler's unit, the blinker,  *)
(* and Wi-Fi scans on one radio.  They share nothing, so a behaviour is of    *)
(* one of them.                                                               *)
EXTENDS Tools, Scans, TLC

MCPlace == [p \in Radio |-> Root]
MCOn    == [i \in Iface |-> "phy0"]

OwnProfiler == {"start", "stop", "purge", "unit_start"}
ProfilerUnit == {"purge", "unit_start", "unit_restart", "unit_stop"}
Blinker == {"blink", "unblink"}
WifiScans == {}

AllMixes == {OwnProfiler, ProfilerUnit, Blinker, WifiScans}
OnlyScans == {WifiScans}

MCInit ==
  /\ Init /\ ScanInit
  /\ "wlan1" \in found => "wlan0" \in found     \* the others are alike
  /\ "wlanpi1" \in found => "wlanpi0" \in found
  /\ IF ops = WifiScans THEN \A p \in Radio : drivers[p] # "other"  \* mt7921, less its filter
     ELSE found = {} /\ drivers = [p \in Radio |-> "other"]

MCNext ==
  \/ ops # WifiScans /\ Next /\ UNCHANGED scanVars
  \/ ops = WifiScans /\ ScanNext /\ UNCHANGED vars

MCSpec == MCInit /\ [][MCNext]_<<vars, scanVars>>

Symmetry == Permutations(Request) \cup Permutations(Run)
================================================================================
