-------------------------------- MODULE Monitors --------------------------------
(***************************************************************************)
(* What Core leaves running for a configuration entry after it has set the *)
(* entry up: the connection monitor, a thread (connection/monitor.py) that *)
(* runs DHCP, sets a route and starts an app once the supplicant has       *)
(* connected, the dhcpcd (utils/network_management.py) and the app         *)
(* (namespaces/apps.py), which are processes known by their pidfiles.      *)
(*                                                                         *)
(* The handler that changes the profile under network_change_lock is one   *)
(* thread, each monitor another; an action is what a thread does between   *)
(* two points at which others can be seen.  Pids are few and reused.       *)
(* Supplicants and netdevs are those of module Radios.                     *)
(***************************************************************************)
EXTENDS Naturals, FiniteSets

CONSTANTS
  Entry,      \* entries, each the (namespace, interface) key of its monitor
  Place,      \* network namespaces, root among them
  Root,       \* the root namespace
  At,         \* [Entry -> Place]: where an entry puts its interface
  Secure,     \* entries with `security`: supplicant, monitor and DHCP
  WithRoute,  \* entries with default_route
  WithApp,    \* entries with autostart_app, all the same command
  Monitor,    \* monitor threads
  Handler,    \* the thread that changes the profile
  Pid,        \* process ids
  MaxFaults,  \* crashes, foreign processes and late joins in a behaviour
  None

ASSUME MonitorsAssumption ==
  /\ Root \in Place /\ At \in [Entry -> Place]
  /\ Secure \cup WithRoute \cup WithApp \subseteq Entry
  /\ Handler \notin Monitor /\ None \notin Monitor \cup Pid \cup {Handler}
  /\ None \notin Entry \cup Place /\ Entry \cap Place = {}
  /\ MaxFaults \in Nat

Thread == Monitor \cup {Handler}

VARIABLES
  thread,     \* where each thread is, for which entry, with which new process
  told,       \* monitors whose stop_event is set
  registry,   \* _connection_monitors and _monitor_stop_flags, by key
  joining,    \* the monitor the handler joins
  up,         \* entries that are set up
  proc,       \* the processes of the device, by pid
  dhcpfile,   \* pidfile in the entry's private dhcpcd directory
  appfile,    \* <namespace>.pid in PID_DIR
  owned,      \* _owned_app_processes: children, reaped by poll()
  late,       \* history: effects each monitor began after it was told to stop
  excused,    \* history: entries of which a stop could not see a process, or did not look
  faults      \* disturbances so far

vars == <<thread, told, registry, joining, up, proc, dhcpfile, appfile, owned,
          late, excused, faults>>
files == <<dhcpfile, appfile>>
histories == <<late, excused, faults>>
bookkeeping == <<told, registry, joining, up>>

MonitorPcs == {"poll", "release", "releaseShort", "spawn", "spawnShort", "lease",
               "leaseShort", "leased", "route", "finish"}
AppPcs     == {"admit", "launch", "record", "verify"}
HandlerPcs == {"idle", "joinUp", "joinDown", "stopApp", "killApp", "signal", "remove"}

(* A process: a dhcpcd Core started for an entry (`fresh` until it has written
   its pidfile, `lost` when the directory it writes to was removed), a process
   running the app's command, by Core or not, its zombie, or another one.     *)
Free == [what |-> "free", for |-> None, core |-> FALSE]
Dhcpcd(e, what) == [what |-> what, for |-> e, core |-> TRUE]
App(pl, core) == [what |-> "app", for |-> pl, core |-> core]
Other == [what |-> "other", for |-> None, core |-> FALSE]
Process ==
  {x \in [what : {"free", "fresh", "dhcpcd", "lost", "app", "zombie", "other"},
          for : Entry \cup Place \cup {None}, core : BOOLEAN] :
     /\ x.what \in {"free", "other"} => x.for = None /\ ~x.core
     /\ x.what \in {"fresh", "dhcpcd", "lost"} => x.for \in Entry /\ x.core
     /\ x.what \in {"app", "zombie"} => x.for \in Place
     /\ x.what = "zombie" => x.core}

(* The kernel gives out pids in a cycle: not one a thread has just been given *)
Held == {thread[t].pid : t \in {t \in Thread : thread[t].pc # "killApp"}}
FreePids == {p \in Pid \ Held : proc[p] = Free}

(* What a process leaves: a child of Core stays a zombie until Core polls it *)
Dead(p) == IF p \in owned THEN [proc[p] EXCEPT !.what = "zombie"] ELSE Free

Idle == [pc |-> "idle", entry |-> None, pid |-> None]

Init ==
  /\ thread = [t \in Thread |-> Idle]
  /\ told = {} /\ registry = [e \in Entry |-> None] /\ joining = None /\ up = {}
  /\ proc = [p \in Pid |-> Free]
  /\ dhcpfile = [e \in Entry |-> None] /\ appfile = [pl \in Place |-> None]
  /\ owned = {} /\ late = [m \in Monitor |-> 0] /\ excused = {} /\ faults = 0

Goto(t, pc) == thread' = [thread EXCEPT ![t].pc = pc]
At_(t, pc) == thread[t].pc = pc
HandlerGoes(pc) ==
  thread' = [thread EXCEPT ![Handler] = IF pc = "idle" THEN Idle
                                        ELSE [@ EXCEPT !.pc = pc, !.pid = None]]

-------------------------------------------------------------------------------
(* The handler: activate_config and deactivate_config of one entry.        *)

StopUnasked(e) == told                                             \* mutant

(* stop_connection_monitor up to its join *)
TellToStop(e) == told \cup ({registry[e]} \ {None})

(* start_monitor stops the entry's former monitor first *)
BeginUp(e) ==
  /\ At_(Handler, "idle")
  /\ IF e \in Secure
     THEN /\ thread' = [thread EXCEPT ![Handler] = [Idle EXCEPT !.pc = "joinUp", !.entry = e]]
          /\ told' = TellToStop(e) /\ joining' = registry[e]
          /\ UNCHANGED up
     ELSE /\ thread' = [thread EXCEPT ![Handler] = IF e \in WithApp
                          THEN [Idle EXCEPT !.pc = "admit", !.entry = e] ELSE Idle]
          /\ up' = up \cup {e}
          /\ UNCHANGED <<told, joining>>
  /\ UNCHANGED <<registry, proc, files, owned, histories>>

BeginDown(e) ==
  /\ At_(Handler, "idle") /\ e \in up
  /\ thread' = [thread EXCEPT ![Handler] = [Idle EXCEPT !.pc = "joinDown", !.entry = e]]
  /\ told' = TellToStop(e) /\ joining' = registry[e]
  /\ UNCHANGED <<registry, up, proc, files, owned, histories>>

(* A netdev that is there but not Core's makes deactivate_config return at   *)
(* once: the radio was replugged, or Core was killed before it had marked    *)
(* the namespace (a disturbance).  Whatever runs for the entry goes on.      *)
LeaveAlone(e) ==
  /\ At_(Handler, "idle") /\ e \in up
  /\ faults < MaxFaults /\ faults' = faults + 1
  /\ up' = up \ {e} /\ excused' = excused \cup {e}
  /\ UNCHANGED <<thread, told, registry, joining, proc, files, owned, late>>

(* The join ends with the thread, or after 2 s, which any of a monitor's     *)
(* commands may take longer than; either way the registration is dropped    *)
Joined ==
  LET e == thread[Handler].entry
      inTime == joining \in Monitor => At_(joining, "idle")
      forgotten == [registry EXCEPT ![e] = None]
  IN
  /\ At_(Handler, "joinUp") \/ At_(Handler, "joinDown")
  /\ \/ inTime /\ UNCHANGED <<excused, faults>>
     \/ /\ ~inTime /\ faults < MaxFaults
        /\ excused' = excused \cup {e} /\ faults' = faults + 1
  /\ joining' = None
  /\ \/ /\ At_(Handler, "joinDown")
        /\ registry' = forgotten
        /\ HandlerGoes(IF e \in WithApp THEN "stopApp"
                       ELSE IF e \in Secure THEN "signal" ELSE "idle")
        /\ up' = IF e \in WithApp \cup Secure THEN up ELSE up \ {e}
        /\ UNCHANGED <<told, late>>
     \/ /\ At_(Handler, "joinUp")
        /\ \E m \in {m \in Monitor : At_(m, "idle")} :
             /\ registry' = [registry EXCEPT ![e] = m]
             /\ thread' = [thread EXCEPT ![Handler] = Idle,
                             ![m] = [Idle EXCEPT !.pc = "poll", !.entry = e]]
             /\ told' = told \ {m} /\ late' = [late EXCEPT ![m] = 0]
        /\ up' = up \cup {e}
  /\ UNCHANGED <<proc, files, owned>>

(* stop_app_in_namespace: the pid in the pidfile, then what becomes of it    *)
ReadAppFile ==
  LET t == thread[Handler] IN
  /\ At_(Handler, "stopApp")
  /\ thread' = [thread EXCEPT ![Handler].pid = appfile[At[t.entry]],
                              ![Handler].pc = "killApp"]
  /\ UNCHANGED <<bookkeeping, proc, files, owned, histories>>

AnyPid(p, pl) == {q \in {p} : proc[q] # Free}                                   \* mutant

KnownOnly(p, pl) == {q \in {p} \cap owned : proc[q] = App(pl, TRUE)}             \* mutant

(* The processes to signal once pidfile `p` of `pl` is read: a child of this *)
(* worker, or the recorded app, in a namespace whatever runs its command     *)
Victims(p, pl) ==
  IF p \in owned THEN {q \in {p} : proc[q] = App(pl, TRUE)}
  ELSE IF pl = Root THEN {q \in {p} : proc[q].what = "app"}
  ELSE {q \in Pid : proc[q].what = "app" /\ proc[q].for = pl}

(* of the worker's own children *)
Reaped(p, pl) == {q \in owned \cap {p} : proc[q].for = pl}

(* A child is killed and reaped; of others it is only known that the signal  *)
(* was sent, and it may not go.  A child found dead, or another namespace's, *)
(* keeps its pidfile.                                                        *)
KillApp ==
  LET t == thread[Handler]
      pl == At[t.entry]
      victims == IF t.pid = None THEN {} ELSE Victims(t.pid, pl)
      child == t.pid \in owned
      reaped == Reaped(t.pid, pl)
  IN
  /\ At_(Handler, "killApp")
  /\ \E gone \in IF child THEN {victims} ELSE SUBSET victims :
       /\ proc' = [p \in Pid |-> IF p \in reaped THEN Free
                                 ELSE IF p \in gone THEN Dead(p) ELSE proc[p]]
       /\ excused' = IF gone = victims THEN excused ELSE excused \cup {t.entry}
       /\ faults' = faults + (IF gone = victims THEN 0 ELSE 1) /\ faults' <= MaxFaults
  /\ owned' = owned \ reaped
  /\ appfile' = IF t.pid = None \/ (child /\ victims = {}) THEN appfile
                ELSE [appfile EXCEPT ![pl] = None]
  /\ HandlerGoes(IF t.entry \in Secure THEN "signal" ELSE "idle")
  /\ up' = IF t.entry \in Secure THEN up ELSE up \ {t.entry}
  /\ UNCHANGED <<told, registry, joining, dhcpfile, late>>

(* _stop_dhcpcd_dir signals the pidfile's process if it is a dhcpcd for this *)
(* interface in this namespace                                              *)
Leasing(e) == {p \in Pid : p = dhcpfile[e] /\ proc[p] = Dhcpcd(e, "dhcpcd")}

(* stop_dhcp: SIGALRM and up to 3 s; its directory is removed if it has gone *)
SignalDhcp ==
  LET t == thread[Handler]
      e == t.entry
  IN
  /\ At_(Handler, "signal")
  /\ \/ /\ proc' = [p \in Pid |-> IF p \in Leasing(e) THEN Free ELSE proc[p]]
        /\ Goto(Handler, "remove")
        /\ UNCHANGED <<up, histories>>
     \/ /\ Leasing(e) # {} /\ faults < MaxFaults
        /\ excused' = excused \cup {e} /\ faults' = faults + 1
        /\ thread' = [thread EXCEPT ![Handler] = Idle]
        /\ up' = up \ {e}
        /\ UNCHANGED <<proc, late>>
  /\ UNCHANGED <<told, registry, joining, files, owned>>

(* A dhcpcd that a monitor has just started writes its pidfile nowhere       *)
RemoveDhcp ==
  LET e == thread[Handler].entry IN
  /\ At_(Handler, "remove")
  /\ dhcpfile' = [dhcpfile EXCEPT ![e] = None]
  /\ proc' = [p \in Pid |-> IF proc[p].for = e /\ proc[p].what \in {"fresh", "dhcpcd"}
                            THEN Dhcpcd(e, "lost") ELSE proc[p]]
  /\ thread' = [thread EXCEPT ![Handler] = Idle]
  /\ up' = up \ {e}
  /\ UNCHANGED <<told, registry, joining, appfile, owned, histories>>

-------------------------------------------------------------------------------
(* A monitor: _monitor_body and restart_dhcp_with_timeout.                 *)

MonitorStep(m, pc) == At_(m, pc) /\ UNCHANGED <<bookkeeping, appfile, owned>>

(* One effect of monitor m begins *)
Begins(m) ==
  /\ late' = [late EXCEPT ![m] = @ + (IF m \in told THEN 1 ELSE 0)]
  /\ UNCHANGED <<excused, faults>>

(* The loop ends with the stop flag, the connection or its time limit; the   *)
(* flag is checked again before DHCP.  After the limit dhcpcd is left running *)
(* for a late association.                                                   *)
Poll(m) ==
  /\ MonitorStep(m, "poll")
  /\ IF m \in told THEN Goto(m, "finish") ELSE Goto(m, "release") \/ Goto(m, "releaseShort")
  /\ UNCHANGED <<proc, dhcpfile, histories>>

ReleaseDhcp(m) ==
  LET e == thread[m].entry IN
  /\ At_(m, "release") \/ At_(m, "releaseShort")
  /\ UNCHANGED <<bookkeeping, files, owned, histories>>
  /\ Goto(m, IF At_(m, "release") THEN "spawn" ELSE "spawnShort")
  /\ \/ proc' = [p \in Pid |-> IF p \in Leasing(e) THEN Free ELSE proc[p]]
     \/ UNCHANGED proc

(* dhcpcd is started; it exits at once where one with this pidfile runs, or  *)
(* when the interface has gone                                              *)
SpawnDhcp(m) ==
  LET e == thread[m].entry IN
  /\ At_(m, "spawn") \/ At_(m, "spawnShort")
  /\ UNCHANGED <<bookkeeping, files, owned>>
  /\ Begins(m)
  /\ \/ /\ Leasing(e) = {}
        /\ \E p \in FreePids :
             /\ proc' = [proc EXCEPT ![p] = Dhcpcd(e, "fresh")]
             /\ thread' = [thread EXCEPT ![m].pid = p,
                             ![m].pc = IF At_(m, "spawn") THEN "lease" ELSE "leaseShort"]
     \/ /\ Goto(m, IF At_(m, "spawn") THEN "leased" ELSE "finish")
        /\ UNCHANGED proc

(* dhcpcd writes its pidfile into the directory it was given *)
DhcpWrites(p) ==
  /\ proc[p].what = "fresh"
  /\ proc' = [proc EXCEPT ![p].what = "dhcpcd"]
  /\ dhcpfile' = [dhcpfile EXCEPT ![proc[p].for] = p]
  /\ UNCHANGED <<thread, bookkeeping, appfile, owned, histories>>

(* The command returns with the lease or its timeout; or exceeds the limit   *)
(* of run_command, which kills its process group and raises                 *)
LeaseEnds(m) ==
  LET p == thread[m].pid IN
  /\ At_(m, "lease") \/ At_(m, "leaseShort")
  /\ UNCHANGED <<bookkeeping, files, owned, histories>>
  /\ \/ /\ proc[p].what # "fresh"
        /\ thread' = [thread EXCEPT ![m].pid = None,
                        ![m].pc = IF At_(m, "lease") THEN "leased" ELSE "finish"]
        /\ UNCHANGED proc
     \/ /\ thread' = [thread EXCEPT ![m].pid = None, ![m].pc = "finish"]
        /\ proc' = [proc EXCEPT ![p] = IF @.for = thread[m].entry THEN Free ELSE @]

AppNextStep(m) == IF thread[m].entry \in WithApp THEN "admit" ELSE "finish"
AfterDhcp(m) == IF thread[m].entry \in WithRoute THEN "route" ELSE AppNextStep(m)

LeasedUnasked(m) ==                                                \* mutant
  /\ MonitorStep(m, "leased")
  /\ Goto(m, AfterDhcp(m))
  /\ UNCHANGED <<proc, dhcpfile, histories>>

(* Stopped after DHCP; skipping route and app *)
Leased(m) ==
  /\ MonitorStep(m, "leased")
  /\ Goto(m, IF m \in told THEN "finish" ELSE AfterDhcp(m))
  /\ UNCHANGED <<proc, dhcpfile, histories>>

(* set_default_route logs its failures; then the app, unless stopped *)
SetRoute(m) ==
  /\ MonitorStep(m, "route")
  /\ Begins(m)
  /\ Goto(m, IF m \in told THEN "finish" ELSE AppNextStep(m))
  /\ UNCHANGED <<proc, dhcpfile>>

(* The `finally` of monitor_loop: a newer monitor's registration is left     *)
Deregister(m) == [e \in Entry |-> IF registry[e] = m THEN None ELSE registry[e]]

Finish(m) ==
  /\ At_(m, "finish")
  /\ registry' = Deregister(m)
  /\ thread' = [thread EXCEPT ![m] = Idle]
  /\ told' = told \ {m} /\ late' = [late EXCEPT ![m] = 0]
  /\ UNCHANGED <<joining, up, proc, files, owned, excused, faults>>

-------------------------------------------------------------------------------
(* start_app_in_namespace, by a monitor or by the handler.                 *)

AppDone(t) ==
  thread' = [thread EXCEPT ![t] = IF t = Handler THEN Idle
                                  ELSE [@ EXCEPT !.pc = "finish", !.pid = None]]

(* _prune_owned_app_processes reaps the children that have exited *)
Alive == {p \in owned : proc[p].what = "app"}

RunsRecorded(p, pl) == p # None /\ proc[p].what = "app" /\ proc[p].for = pl

(* _owned_app_running and _recorded_app_running; a stale pidfile is removed  *)
AdmitApp(t) ==
  LET pl == At[thread[t].entry]
      running == \E p \in Alive : proc[p].for = pl
      recorded == RunsRecorded(appfile[pl], pl)
  IN
  /\ At_(t, "admit")
  /\ owned' = Alive
  /\ proc' = [p \in Pid |-> IF p \in owned \ Alive THEN Free ELSE proc[p]]
  /\ IF running \/ recorded THEN AppDone(t) ELSE Goto(t, "launch")
  /\ appfile' = IF running \/ recorded THEN appfile ELSE [appfile EXCEPT ![pl] = None]
  /\ UNCHANGED <<bookkeeping, dhcpfile, histories>>

(* Popen, which raises when the command cannot be run *)
LaunchApp(t) ==
  /\ At_(t, "launch")
  /\ \/ \E p \in FreePids :
          /\ proc' = [proc EXCEPT ![p] = App(At[thread[t].entry], TRUE)]
          /\ owned' = owned \cup {p}
          /\ thread' = [thread EXCEPT ![t].pid = p, ![t].pc = "record"]
          /\ UNCHANGED up
     \/ /\ AppDone(t)
        /\ up' = IF t = Handler THEN up \ {thread[t].entry} ELSE up
        /\ UNCHANGED <<proc, owned>>
  /\ IF t = Handler THEN UNCHANGED histories ELSE Begins(t)
  /\ UNCHANGED <<told, registry, joining, files>>

(* The pidfile; an app that cannot be recorded is terminated, which the      *)
(* handler answers by reverting the entry                                   *)
RecordApp(t) ==
  LET p == thread[t].pid
      e == thread[t].entry
  IN
  /\ At_(t, "record")
  /\ \/ /\ appfile' = [appfile EXCEPT ![At[e]] = p]
        /\ Goto(t, "verify")
        /\ UNCHANGED <<owned, proc, up>>
     \/ /\ owned' = owned \ {p}
        /\ proc' = [proc EXCEPT ![p] = IF p \in owned THEN Free ELSE @]
        /\ AppDone(t)
        /\ up' = IF t = Handler THEN up \ {e} ELSE up
        /\ UNCHANGED appfile
  /\ UNCHANGED <<told, registry, joining, dhcpfile, histories>>

(* Half a second later: an app that has exited is forgotten, not its pidfile *)
VerifyApp(t) ==
  LET p == thread[t].pid
      dead == p \in owned /\ proc[p].what = "zombie"
  IN
  /\ At_(t, "verify")
  /\ owned' = IF dead THEN owned \ {p} ELSE owned
  /\ proc' = [proc EXCEPT ![p] = IF dead THEN Free ELSE @]
  /\ AppDone(t)
  /\ UNCHANGED <<bookkeeping, files, histories>>

-------------------------------------------------------------------------------
(* The rest of the device.                                                 *)

Exits(p) ==
  /\ proc[p].what \notin {"free", "zombie"}
  /\ proc' = [proc EXCEPT ![p] = Dead(p)]
  /\ UNCHANGED <<thread, bookkeeping, files, owned, histories>>

(* Another program starts, perhaps with the app's command, perhaps in a Core *)
(* namespace                                                                *)
Starts(p) ==
  /\ p \in FreePids /\ faults < MaxFaults
  /\ \E new \in {Other} \cup {App(pl, FALSE) : pl \in Place} : proc' = [proc EXCEPT ![p] = new]
  /\ faults' = faults + 1
  /\ UNCHANGED <<thread, bookkeeping, files, owned, late, excused>>

(* What no pidfile names when Core is killed *)
Unrecorded ==
  {e \in Entry :
     \/ \E p \in Pid : proc[p] = Dhcpcd(e, "fresh")
     \/ \E t \in Thread : thread[t].entry = e /\ At_(t, "record")}

(* The worker is replaced: its threads and tables are gone, its processes    *)
(* are not, unless the service is restarted, and its zombies are reaped.     *)
(* The profile stays in force.                                               *)
Crash ==
  /\ faults < MaxFaults /\ faults' = faults + 1
  /\ thread' = [t \in Thread |-> Idle] /\ told' = {} /\ joining' = None
  /\ registry' = [e \in Entry |-> None] /\ owned' = {}
  /\ late' = [m \in Monitor |-> 0]
  /\ excused' = excused \cup Unrecorded
  /\ \E service \in BOOLEAN :
       proc' = [p \in Pid |-> IF proc[p].what = "zombie" \/ (service /\ proc[p].core)
                              THEN Free ELSE proc[p]]
  /\ up' = up \cup ({thread[Handler].entry} \ {None})
  /\ UNCHANGED files

MonitorNext(m) ==
  \/ Poll(m) \/ ReleaseDhcp(m) \/ SpawnDhcp(m) \/ LeaseEnds(m) \/ Leased(m) \/ SetRoute(m)
  \/ Finish(m)

AppNext(t) == AdmitApp(t) \/ LaunchApp(t) \/ RecordApp(t) \/ VerifyApp(t)

HandlerNext == Joined \/ ReadAppFile \/ KillApp \/ SignalDhcp \/ RemoveDhcp

Next ==
  \/ \E e \in Entry : BeginUp(e) \/ BeginDown(e) \/ LeaveAlone(e)
  \/ HandlerNext
  \/ \E m \in Monitor : MonitorNext(m)
  \/ \E t \in Thread : AppNext(t)
  \/ \E p \in Pid : DhcpWrites(p) \/ Exits(p) \/ Starts(p)
  \/ Crash

Spec == Init /\ [][Next]_vars

-------------------------------------------------------------------------------
(* Properties.                                                             *)

ThreadState == [pc : MonitorPcs \cup AppPcs \cup HandlerPcs,
                entry : Entry \cup {None}, pid : Pid \cup {None}]

(* Every variable has its type. *)
TypeOK ==
  /\ thread \in [Thread -> ThreadState]
  /\ told \subseteq Monitor /\ registry \in [Entry -> Monitor \cup {None}]
  /\ joining \in Monitor \cup {None} /\ up \subseteq Entry
  /\ proc \in [Pid -> Process]
  /\ dhcpfile \in [Entry -> Pid \cup {None}] /\ appfile \in [Place -> Pid \cup {None}]
  /\ owned \subseteq Pid /\ late \in [Monitor -> Nat] /\ excused \subseteq Entry
  /\ faults \in 0..MaxFaults

(* A monitor that runs is the registered one of its entry, which a change can
   stop, or has been told to stop: joins that time out and the deregistration
   of an old monitor leave no newer one uncontrolled (monitor.py:36-51, 202-214). *)
NoUncontrolledMonitor ==
  \A m \in Monitor : At_(m, "idle") \/ m \in told \/ registry[thread[m].entry] = m

(* A monitor that was told to stop begins at most one more effect, the one its
   last check was for (monitor.py:107-137). *)
OneLateEffect == \A m \in Monitor : late[m] <= 1

(* No other entry starts an app in the namespace of this one *)
SoleApp(e) == e \in WithApp /\ \A f \in WithApp : At[f] = At[e] => f = e

(* Once an entry is down neither its monitor nor its dhcpcd nor its app runs,
   whatever Core was restarted in between, unless a join timed out, a process did
   not obey its signal, Core died before it was recorded, or the netdev found was
   not Core's and so the entry was not touched (network_namespace_service.py:375).  Of apps started
   twice in one namespace a pidfile knows one (OneAppPerPlace). *)
DownMeansQuiet ==
  \A e \in Entry \ (up \cup excused) :
    /\ \A m \in Monitor : At_(m, "idle") \/ thread[m].entry # e
    /\ \A p \in Pid :
         /\ ~(proc[p].core /\ proc[p].for = e)
         /\ SoleApp(e) => proc[p] # App(At[e], TRUE)

Killed(p) ==
  /\ proc[p].what \notin {"free", "zombie"} /\ proc'[p].what \in {"free", "zombie"}
  /\ ~Exits(p) /\ ~Crash

(* The app stopped in root is identified by its command alone *)
Concerns(t, p) ==
  \/ proc[p].for = thread[t].entry
  \/ proc[p].what = "app" /\ At[thread[t].entry] \in {Root, proc[p].for}

(* Core never signals a process because of its pid alone: pidfiles outlive their
   processes, and the pid may be another program's, another namespace's app or
   another interface's dhcpcd by then (apps.py:336-357, network_management.py:40-75). *)
KillsOnlyItsOwn ==
  [][\A p \in Pid : Killed(p) => \E t \in Thread : thread'[t] # thread[t] /\ Concerns(t, p)]_vars

(* "An application is already running in namespace" (apps.py:156-161): a
   namespace has one app that Core started. *)
OneAppPerPlace ==
  \A p, q \in owned : proc[p].what = "app" /\ proc[p] = proc[q] => p = q
=================================================================================
