--------------------------------- MODULE Scans ---------------------------------
(***************************************************************************)
(* Wi-Fi scans (wlan/scan.py, wpa/scan.py).  A scan runs in a thread of    *)
(* its own, one command after another: on an Intel radio (iwlwifi) it      *)
(* takes the radio's monitors down, whose firmware would crash, and up     *)
(* again; it raises an interface that is down and lowers it again; on an   *)
(* mt7921 radio it makes the monitors hear other stations' unicast frames  *)
(* again, which a scan stops (streaming/mt76_rxfilter.py).  Scans exclude  *)
(* one another by what they claim in _active_scans.  The radio sweeps its  *)
(* channels on its own: a scan by wpa_cli asks for a sweep and answers when *)
(* results are cached, or after 4 s, and one by iw waits unless it times    *)
(* out, so that either may clean up while the radio still sweeps.           *)
(*                                                                         *)
(* What a scan finds and how it is parsed is left out.  Interface names    *)
(* are unique, and nobody but a scan changes a link while scans run.       *)
(***************************************************************************)
EXTENDS Requests    \* a request is a scan

CONSTANTS
  Radio,      \* phys
  Place,      \* the namespace of each
  Root,       \* the root namespace
  Managed, Monitor,  \* the interfaces, by mode
  On          \* the radio of each interface

Iface == Managed \cup Monitor

ASSUME ScansAssumption ==
  /\ Managed \cap Monitor = {} /\ None \notin Iface
  /\ On \in [Iface -> Radio] /\ DOMAIN Place = Radio
  /\ MaxFaults \in Nat

VARIABLES
  drivers,   \* of each radio: "iwlwifi", "mt7921" or another
  found,     \* history: the interfaces that were up before any scan
  up,        \* the interfaces that are up
  captured,  \* monitors a program captures on
  late,      \* history: of a captured monitor, the scans that had looked before it was
  deaf,      \* mt7921 radios with DROP_OTHER_UC set
  sweeping,  \* the interfaces whose radio scans for them
  outlived,  \* history: radios whose sweep goes on after its scan was over, or left them deaf
  active,    \* _active_scans
  scan,      \* what each scan is at
  spoiled,   \* history: interfaces and radios whose command or reading failed
  broken     \* disturbances so far: failing commands, a dying worker

radios == <<drivers, found, deaf, sweeping, outlived>>
scanVars == <<drivers, found, up, captured, late, deaf, sweeping, outlived, active, scan,
              spoiled, broken>>

Drivers == {"iwlwifi", "mt7921", "other"}
Steps == {"idle", "look", "check", "claim", "state", "pause", "wpa", "poll", "iw", "await",
          "lower", "restore", "release"}

(* `driver`: as it was read, or "unknown"; `was`: originally_up; `todo`: monitors still to be
   taken down, or up                                                          *)
NoScan == [pc |-> "idle", target |-> None, driver |-> "unknown",
         paused |-> {}, todo |-> {}, was |-> TRUE]

ScanStates ==
  [pc : Steps, target : Iface \cup {None}, driver : Drivers \cup {"unknown"},
   paused : SUBSET Monitor, todo : SUBSET Monitor, was : BOOLEAN]

ScanTypeOK ==
  /\ drivers \in [Radio -> Drivers]
  /\ up \subseteq Iface /\ found \subseteq Iface /\ captured \subseteq Monitor
  /\ late \in [Monitor -> SUBSET Request]
  /\ deaf \subseteq Radio /\ sweeping \subseteq Iface /\ outlived \subseteq Radio
  /\ active \subseteq Iface \cup {Place[p] : p \in Radio}
  /\ scan \in [Request -> ScanStates]
  /\ \A r \in Request : scan[r].pc # "idle" => scan[r].target \in Iface
  /\ spoiled \subseteq Iface \cup Radio
  /\ broken \in 0..MaxFaults

ScanInit ==
  /\ drivers \in [Radio -> Drivers]
  /\ found \in SUBSET Iface /\ up = found
  /\ captured = {} /\ late = [m \in Monitor |-> {}]
  /\ deaf = {} /\ sweeping = {} /\ outlived = {} /\ active = {}
  /\ scan = [r \in Request |-> NoScan]
  /\ spoiled = {} /\ broken = 0

At(r, pc) == scan[r].pc = pc
ScanGoto(r, pc) == scan' = [scan EXCEPT ![r].pc = pc]
ScanDone(r) == /\ scan' = [scan EXCEPT ![r] = NoScan]
           /\ late' = [m \in Monitor |-> late[m] \ {r}]
MyRadio(r) == On[scan[r].target]
Intel(r) == scan[r].driver = "iwlwifi"

(* A command fails, or what it printed cannot be read *)
Fails(things) ==
  /\ broken < MaxFaults /\ broken' = broken + 1
  /\ spoiled' = spoiled \cup things
Works == UNCHANGED <<spoiled, broken>>

-------------------------------------------------------------------------------
(* The interface to scan on.                                               *)

(* network_config.status lists the root namespace, and each other one or not *)
Listings == SUBSET ({Place[p] : p \in Radio} \ {Root})

(* a listing, flattened *)
Adapters(listed) == {i \in Iface : Place[On[i]] \in listed \cup {Root}}

ManagedSiblings(i, adapters) == {j \in adapters \cap Managed : On[j] = On[i]}

(* a monitor's scan is that of a managed interface of its radio *)
ScanTargets(i, adapters) ==
  IF i \in Monitor /\ ManagedSiblings(i, adapters) # {}
  THEN ManagedSiblings(i, adapters) ELSE {i}

(* What is scanned when no interface is named: the only monitor, or else a    *)
(* managed interface in root; nothing when the client has to choose           *)
Selected(adapters) ==
  LET monitors == adapters \cap Monitor IN
  IF monitors # {} THEN IF Cardinality(monitors) = 1 THEN monitors ELSE {}
  ELSE {i \in adapters \cap Managed : Place[On[i]] = Root}

(* interface_driver: None when it cannot be read *)
DriverRead(i) == {drivers[On[i]], "unknown"}

(* wlan_scan up to run_interface_scan, and there the reading of the driver *)
Begin(r) ==
  /\ At(r, "idle")
  /\ \E listed \in Listings :
     \E i \in Adapters(listed) \cup Selected(Adapters(listed)) :
     \E t \in ScanTargets(i, Adapters(listed)) :
     \E driver \in DriverRead(t) :
       /\ IF driver = "unknown" THEN Fails({On[t]}) ELSE Works
       /\ scan' = [scan EXCEPT ![r] =
            [NoScan EXCEPT !.pc = IF driver = "iwlwifi" THEN "look" ELSE "claim", !.target = t,
                         !.driver = driver]]
  /\ UNCHANGED <<radios, up, captured, late, active>>

-------------------------------------------------------------------------------
(* run_interface_scan                                                      *)

(* the other monitors of the radio that are up *)
UpSiblings(i) == {m \in Monitor \cap up : On[m] = On[i] /\ m # i}

(* _monitors_to_pause: none when they cannot be listed *)
Look(r) ==
  /\ At(r, "look")
  /\ \E paused \in {UpSiblings(scan[r].target), {}} :
       /\ IF paused = UpSiblings(scan[r].target) THEN Works ELSE Fails({MyRadio(r)})
       /\ scan' = [scan EXCEPT ![r].paused = paused,
                               ![r].pc = IF paused = {} THEN "claim" ELSE "check"]
  /\ UNCHANGED <<radios, up, captured, late, active>>

NotCaptured(r) == TRUE                                              \* mutant

(* ... unless a program captures on one of them (_captured_interfaces), or    *)
(* captures cannot be listed                                                  *)
Free(r) == scan[r].paused \cap captured = {}

CheckCaptures(r) ==
  /\ At(r, "check")
  /\ \/ Free(r) /\ ScanGoto(r, "claim") /\ UNCHANGED late /\ Works
     \/ ~Free(r) /\ ScanDone(r) /\ Works
     \/ ScanDone(r) /\ Fails({})
  /\ UNCHANGED <<radios, up, captured, active>>

KeysOfTarget(r) == {scan[r].target} \cup scan[r].paused             \* mutant

(* The target, the monitors it pauses, and one claim for all Intel scans of a *)
(* namespace, which stands here for the key (namespace, "iwlwifi")            *)
Keys(r) ==
  {scan[r].target} \cup scan[r].paused
    \cup (IF Intel(r) THEN {Place[MyRadio(r)]} ELSE {})

(* _claim_scan: all or nothing, and at once *)
Claim(r) ==
  /\ At(r, "claim")
  /\ IF Keys(r) \cap active = {}
     THEN active' = active \cup Keys(r) /\ ScanGoto(r, "state") /\ UNCHANGED late
     ELSE UNCHANGED active /\ ScanDone(r)
  /\ UNCHANGED <<radios, up, captured, spoiled, broken>>

(* _interface_is_up; when that fails nothing has to be undone *)
ReadState(r) ==
  /\ At(r, "state")
  /\ \/ /\ scan' = [scan EXCEPT ![r].pc = "pause", ![r].todo = scan[r].paused,
                                ![r].was = scan[r].target \in up]
        /\ Works
     \/ ScanGoto(r, "release") /\ Fails({})
  /\ UNCHANGED <<radios, up, captured, late, active>>

(* the finally block, whether or not the radio is still at it *)
Cleanup(r) ==
  /\ scan' = [scan EXCEPT ![r].pc = IF scan[r].was THEN "restore" ELSE "lower",
                          ![r].todo = scan[r].paused]
  /\ outlived' = IF scan[r].target \in sweeping THEN outlived \cup {MyRadio(r)} ELSE outlived

Sweeps(p) == \E i \in sweeping : On[i] = p
Deafened(p) == IF drivers[p] = "mt7921" THEN deaf \cup {p} ELSE deaf

(* The sweep for `i`, if any, is over, and leaves the filters `d` set *)
SweepOver(i, d) ==
  /\ sweeping' = sweeping \ {i}
  /\ outlived' = IF i \in sweeping THEN outlived \ ({On[i]} \ d) ELSE outlived

CaptureGone(i) ==
  /\ captured' = captured \ {i}
  /\ late' = [m \in Monitor |-> IF m = i THEN {} ELSE late[m]]

(* an interface that goes down ends the capture on it, and the sweep for it *)
SetDown(i) == up' = up \ {i} /\ CaptureGone(i) /\ SweepOver(i, deaf)
SetUp(i) == up' = up \cup {i} /\ UNCHANGED <<captured, late, sweeping, outlived>>

(* iw scans on monitors and for a client that wants details, wpa_cli where a *)
(* supplicant answers (wpa_cli_available)                                    *)
Scanners(i) == IF i \in Monitor THEN {"iw"} ELSE {"wpa", "iw"}

(* A monitor is taken down, or the target is raised; a failure goes straight *)
(* to the cleanup                                                            *)
Pause(r) ==
  /\ At(r, "pause") /\ scan[r].todo # {}
  /\ \E m \in scan[r].todo :
       \/ SetDown(m) /\ scan' = [scan EXCEPT ![r].todo = @ \ {m}] /\ Works
       \/ Fails({}) /\ Cleanup(r) /\ UNCHANGED <<up, captured, late, sweeping>>
  /\ UNCHANGED <<drivers, found, deaf, active>>

Raise(r) ==
  /\ At(r, "pause") /\ scan[r].todo = {}
  /\ \/ /\ IF scan[r].was THEN UNCHANGED <<up, captured, late, sweeping, outlived>>
           ELSE SetUp(scan[r].target)
        /\ \E tool \in Scanners(scan[r].target) : ScanGoto(r, tool)
        /\ Works
     \/ ~scan[r].was /\ Fails({}) /\ Cleanup(r) /\ UNCHANGED <<up, captured, late, sweeping>>
  /\ UNCHANGED <<drivers, found, deaf, active>>

(* A radio that sweeps is asked: the supplicant answers FAIL-BUSY, which      *)
(* run_wpa_cli_scan does not look at; iw fails.  A command fails or times out *)
Trigger(r) ==
  /\ scan[r].pc \in {"wpa", "iw"}
  /\ \/ /\ ~Sweeps(MyRadio(r))
        /\ sweeping' = sweeping \cup {scan[r].target} /\ deaf' = Deafened(MyRadio(r))
        /\ ScanGoto(r, IF At(r, "wpa") THEN "poll" ELSE "await")
        /\ UNCHANGED outlived /\ Works
     \/ /\ Sweeps(MyRadio(r))
        /\ IF At(r, "wpa") THEN ScanGoto(r, "poll") /\ UNCHANGED outlived ELSE Cleanup(r)
        /\ UNCHANGED <<sweeping, deaf>> /\ Works
     \/ Fails({}) /\ Cleanup(r) /\ UNCHANGED <<sweeping, deaf>>
  /\ UNCHANGED <<drivers, found, up, captured, late, active>>

(* run_wpa_cli_scan fails: on to iw *)
FallBack(r) ==
  /\ scan[r].pc \in {"wpa", "poll"}
  /\ ScanGoto(r, "iw")
  /\ UNCHANGED <<radios, up, captured, late, active, spoiled, broken>>

(* wpa_cli's is over with the first cached results, or after 4 s; that of iw *)
(* with the radio's sweep, or when it times out                              *)
ScanEnds(r) ==
  /\ \/ At(r, "poll") /\ Works
     \/ At(r, "await") /\ scan[r].target \notin sweeping /\ Works
     \/ At(r, "await") /\ Fails({})
  /\ Cleanup(r)
  /\ UNCHANGED <<drivers, found, up, captured, late, deaf, sweeping, active>>

(* The cleanup.  A target that cannot be lowered does not keep the monitors   *)
(* down                                                                       *)
Lower(r) ==
  /\ At(r, "lower")
  /\ \/ SetDown(scan[r].target) /\ Works
     \/ Fails({scan[r].target}) /\ UNCHANGED <<up, captured, late, sweeping, outlived>>
  /\ ScanGoto(r, "restore")
  /\ UNCHANGED <<drivers, found, deaf, active>>

GivesUp(r, m) == scan' = [scan EXCEPT ![r].todo = {}]               \* mutant

(* one paused monitor whose restore fails does not keep the others down *)
KeepsGoing(r, m) == scan' = [scan EXCEPT ![r].todo = @ \ {m}]

Restore(r) ==
  /\ At(r, "restore") /\ scan[r].todo # {}
  /\ \E m \in scan[r].todo :
       \/ SetUp(m) /\ scan' = [scan EXCEPT ![r].todo = @ \ {m}] /\ Works
       \/ /\ Fails({m}) /\ KeepsGoing(r, m)
          /\ UNCHANGED <<up, captured, late, sweeping, outlived>>
  /\ UNCHANGED <<drivers, found, deaf, active>>

(* the filter of a radio that still sweeps is set again *)
Cleared(p) == /\ deaf' = deaf \ {p}
              /\ outlived' = IF Sweeps(p) THEN outlived ELSE outlived \ {p}

(* clear_drop_other_uc; never raises *)
Clear(p) == \/ Cleared(p) /\ Works
            \/ p \in deaf /\ Fails({p}) /\ UNCHANGED <<deaf, outlived>>

(* allow_other_unicast, for an mt7921 radio *)
Hear(r) ==
  /\ At(r, "restore") /\ scan[r].todo = {}
  /\ scan[r].driver = "mt7921"
  /\ Clear(MyRadio(r))
  /\ ScanGoto(r, "release")
  /\ UNCHANGED <<drivers, found, up, captured, late, sweeping, active>>

Release(r) ==
  /\ At(r, "release") \/ (At(r, "restore") /\ scan[r].todo = {} /\ scan[r].driver # "mt7921")
  /\ active' = active \ Keys(r)
  /\ ScanDone(r)
  /\ UNCHANGED <<radios, up, captured, spoiled, broken>>

-------------------------------------------------------------------------------
(* The radios, captures, and the worker.                                   *)

(* An mt7921 radio sets its filter anew on each channel of a sweep *)
SweepEnds(i) ==
  /\ i \in sweeping
  /\ deaf' = Deafened(On[i]) /\ SweepOver(i, deaf')
  /\ UNCHANGED <<drivers, found, up, captured, late, active, scan, spoiled, broken>>

Looked(r) == ~(scan[r].pc \in {"idle", "look", "check"})

(* dumpcap opens a monitor that is up; Core's captures clear the filter first *)
CaptureBegins(m) ==
  /\ m \in up \ captured
  /\ captured' = captured \cup {m}
  /\ late' = [late EXCEPT ![m] = {r \in Request : Looked(r)}]
  /\ Cleared(On[m])
  /\ UNCHANGED <<drivers, found, up, sweeping, active, scan, spoiled, broken>>

CaptureEnds(m) ==
  /\ m \in captured
  /\ CaptureGone(m)
  /\ UNCHANGED <<radios, up, active, scan, spoiled, broken>>

(* What a dead worker's scans had changed stays as it was then *)
Crash ==
  /\ Fails(UNION {{scan[r].target, MyRadio(r)} \cup scan[r].paused :
                    r \in {q \in Request : Looked(q)}})
  /\ active' = {} /\ scan' = [r \in Request |-> NoScan] /\ late' = [m \in Monitor |-> {}]
  /\ UNCHANGED <<radios, up, captured>>

ScanStep(r) ==
  \/ Begin(r) \/ Look(r) \/ CheckCaptures(r) \/ Claim(r) \/ ReadState(r) \/ Pause(r) \/ Raise(r)
  \/ Trigger(r) \/ FallBack(r) \/ ScanEnds(r) \/ Lower(r) \/ Restore(r) \/ Hear(r) \/ Release(r)

ScanNext ==
  \/ \E r \in Request : ScanStep(r)
  \/ \E i \in Iface : SweepEnds(i)
  \/ \E m \in Monitor : CaptureBegins(m) \/ CaptureEnds(m)
  \/ Crash

ScanSpec == ScanInit /\ [][ScanNext]_scanVars

-------------------------------------------------------------------------------
(* Properties.                                                             *)

(* `r` is past its claim *)
Claims(r) == Looked(r) /\ ~At(r, "claim")

(* Monitors of an Intel radio without a managed interface: there a scan by    *)
(* the name of one can find up another that a scan has raised, and raise it   *)
(* again when that scan has lowered it                                        *)
Stranded ==
  {m \in Monitor : /\ drivers[On[m]] = "iwlwifi" /\ ManagedSiblings(m, Iface) = {}
                   /\ \E n \in Monitor \ {m} : On[n] = On[m]}

(* Only a scan in progress keeps an interface other than it was, and an       *)
(* mt7921 radio deaf: whatever fails on its way, and whatever other scans do, *)
(* each link is put back, but for one whose own restore failed or that is     *)
(* Stranded, and each filter, but for a sweep that went on after its scan had *)
(* answered (run_interface_scan's two finally blocks)                         *)
LeftAsFound ==
  /\ \A i \in Iface \ (spoiled \cup Stranded) : (i \in up) # (i \in found) =>
       \E r \in Request : Claims(r) /\ i \in scan[r].paused \cup {scan[r].target}
  /\ \A p \in deaf \ (spoiled \cup outlived) : \E r \in Request : Claims(r) /\ MyRadio(r) = p

(* LeftAsFound for Stranded monitors also.  Does not hold: a scan looks       *)
(* before it claims.                                                          *)
EachLeftAsFound ==
  \A i \in Iface \ spoiled : (i \in up) # (i \in found) =>
    \E r \in Request : Claims(r) /\ i \in scan[r].paused \cup {scan[r].target}

(* While an Intel radio sweeps for a scan, no monitor of it comes up, until  *)
(* that scan has answered; and no scan ends a capture that had begun when it *)
(* looked for captures (the claims of run_interface_scan)                    *)
ScansStayApart ==
  [][/\ \A m \in (Monitor \cap up') \ up :
          Sweeps(On[m]) /\ drivers[On[m]] = "iwlwifi" => On[m] \in outlived \cup spoiled
     /\ \A m \in captured : m \notin up' =>
          \E r \in late[m] : m \in scan[r].paused \cup {scan[r].target}]_scanVars

(* "captures and scans clear it" (mt76_rxfilter.py).  Does not hold: a radio  *)
(* may sweep on when its scan has answered.                                   *)
LeftHearing ==
  \A p \in deaf \ spoiled : \E r \in Request : Claims(r) /\ MyRadio(r) = p

(* "no scan can restore a monitor while another scans on its radio" (the      *)
(* comment in run_interface_scan).  Does not hold, for the same reason.       *)
NoRestoreInSweep ==
  [][\A m \in (Monitor \cap up') \ up :
       Sweeps(On[m]) /\ drivers[On[m]] = "iwlwifi" => On[m] \in spoiled]_scanVars

(* _monitors_to_pause: the "up monitors on iface's radio that must go down    *)
(* for a scan" are down.  Does not hold: a scan looks before it claims.       *)
NoScanBesideMonitor ==
  \A r \in Request : scan[r].pc \in {"poll", "await"} /\ Intel(r) =>
    UpSiblings(scan[r].target) = {} \/ MyRadio(r) \in spoiled
================================================================================
