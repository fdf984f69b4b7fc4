--------------------------------- MODULE Tools ---------------------------------
(***************************************************************************)
(* The programs Core runs for its users: the profiler, as Core's child     *)
(* (profiler/cli.py) or as the systemd unit wlanpi-profiler, which Core    *)
(* starts and stops over D-Bus (services/system_service.py); the purge of  *)
(* the profiler's output (profiler/service.py); and the port blinker       *)
(* script (services/utils_service.py).                                     *)
(*                                                                         *)
(* Requests interleave at every await and between threads; profiler_lock   *)
(* is an asyncio lock, _blinker_lock and _systemd_lock are thread locks.   *)
(* Core's worker may die and be replaced, its children living on, and the  *)
(* service may be restarted, which kills them (KillMode=mixed).            *)
(***************************************************************************)
EXTENDS Requests

CONSTANTS
  Run,        \* runs of the profiler, with their pids
  Script,     \* runs of the port blinker script
  Mixes       \* sets of operations, one of which a behaviour requests

UnitOps == {"unit_start", "unit_restart", "unit_stop"}
AllOps == {"start", "stop", "purge", "blink", "unblink"} \cup UnitOps

ASSUME ToolsAssumption ==
  /\ None \notin Request \cup Run \cup Script /\ MaxFaults \in Nat
  /\ Mixes \subseteq SUBSET AllOps

VARIABLES
  ops,      \* the operations of this behaviour
  core,     \* profiler_process, _blinker_process, profiler_lock, _blinker_lock
  client,   \* _systemd_client: none, working, or of a connection that is gone
  run,      \* each run of the profiler
  unit,     \* the unit's run, and who asked for one more after it
  pending,  \* calls to systemd that Core gave up on and systemd did not
  status,   \* STATUS_FILE
  session,  \* the run that wrote LAST_SESSION_FILE
  script,   \* each run of the blinker script
  req,      \* what each request is at
  faults    \* disturbances so far

vars == <<ops, core, client, run, unit, pending, status, session, script, req, faults>>
profiler == <<run, unit, pending, status, session>>
systemd == <<client, unit, pending>>

(* Who a run was started by: Core, as its child; a former worker; systemd,    *)
(* carrying out a call of Core at once or later; somebody else, as the unit   *)
(* or from a shell.                                                           *)
Starter == {"spawn", "orphan", "call", "late", "tool", "shell"}
LiveState == {"silent", "starting", "running", "stopping"}

NoRun == [st |-> "none", by |-> "shell", ran |-> FALSE]
Fresh(by) == [st |-> "silent", by |-> by, ran |-> FALSE]
Live == {p \in Run : run[p].st \in LiveState}
Unused == {p \in Run : run[p].st = "none"}
Children == {p \in Live : run[p].by = "spawn"}

(* `before` is a start's stamp of LAST_SESSION_FILE.  History: `of`, the run an
   answer rests on; `known`, the runs that had begun (purge) or ended (start)
   at the check; `blind`, those of which the check could see no trace.        *)
Idle == [op |-> "stop", pc |-> "idle", run |-> None, before |-> None,
         of |-> None, known |-> {}, blind |-> {}]
NewCore == [handle |-> None, blinker |-> None, lock |-> None, blink |-> None]

CoreState == [handle : Run \cup {None}, blinker : Script \cup {None},
              lock : Request \cup {None}, blink : Request \cup {None}]
RunState == [st : LiveState \cup {"none", "dead"}, by : Starter, ran : BOOLEAN]
UnitState == [main : Run \cup {None}, again : {"none", "late", "tool"}]
StatusState == [state : {"none", "starting", "running", "failed"}, run : Run \cup {None}]
RequestState ==
  [op : AllOps,
   pc : {"idle", "lock", "spawn", "await", "term", "check", "unit", "delete", "call",
         "saidRunning", "saidReason", "own", "rest", "kill", "dark"},
   run : Run \cup {None}, before : Run \cup {None}, of : Run \cup {None},
   known : SUBSET Run, blind : SUBSET Run]

TypeOK ==
  /\ ops \in Mixes /\ ops \subseteq AllOps
  /\ core \in CoreState /\ client \in {"none", "works", "gone"}
  /\ run \in [Run -> RunState] /\ unit \in UnitState /\ pending \subseteq UnitOps
  /\ status \in StatusState /\ session \in Run \cup {None}
  /\ script \in [Script -> {"none", "core", "other"}]
  /\ req \in [Request -> RequestState]
  /\ \A r \in Request :
       core.lock = r => req[r].pc \in {"spawn", "term", "check", "unit", "delete", "call"}
  /\ faults \in 0..MaxFaults

Init ==
  /\ ops \in Mixes
  /\ core = NewCore /\ client = "none"
  /\ run = [p \in Run |-> NoRun] /\ unit = [main |-> None, again |-> "none"] /\ pending = {}
  /\ status = [state |-> "none", run |-> None] /\ session = None
  /\ script = [s \in Script |-> "none"]
  /\ req = [r \in Request |-> Idle]
  /\ faults = 0

Pc(r, pc) == req[r].pc = pc
Goto(r, pc) == req' = [req EXCEPT ![r].pc = pc]
Done(r) == req' = [req EXCEPT ![r] = Idle]
Fault == faults < MaxFaults /\ faults' = faults + 1

Request_(r) ==
  /\ Pc(r, "idle")
  /\ \E op \in ops :
       req' = [req EXCEPT ![r] = [Idle EXCEPT !.op = op, !.pc =
                 IF op \in {"blink", "unblink"} THEN "own"
                 ELSE IF op = "unit_stop" THEN "call" ELSE "lock"]]
  /\ UNCHANGED <<core, client, profiler, script, faults>>

TakeLock(r) == core.lock = None /\ core' = [core EXCEPT !.lock = r]
Unlock == core' = [core EXCEPT !.lock = None]

NoLock(r) == UNCHANGED core                                            \* mutant

(* _start_lock: a start or restart of the profiler's unit *)
StartLock(r) == TakeLock(r)

-------------------------------------------------------------------------------
(* start_profiler *)

(* The check, and the stamp of LAST_SESSION_FILE *)
BeginStart(r) ==
  /\ Pc(r, "lock") /\ req[r].op = "start" /\ core.lock = None
  /\ \/ /\ core.handle \in Live                          \* already_running
        /\ Done(r) /\ UNCHANGED core
     \/ /\ core.handle \notin Live
        /\ core' = [core EXCEPT !.lock = r, !.handle = None]
        /\ req' = [req EXCEPT ![r].pc = "spawn", ![r].before = session,
                              ![r].known = {p \in Run : run[p].st = "dead"}]
  /\ UNCHANGED <<client, profiler, script, faults>>

SpawnFails(r) == Done(r) /\ Unlock /\ UNCHANGED run

Spawn(r) ==
  /\ Pc(r, "spawn")
  /\ \/ \E p \in Unused :
          /\ run' = [run EXCEPT ![p] = Fresh("spawn")]
          /\ core' = [core EXCEPT !.handle = p, !.lock = None]
          /\ req' = [req EXCEPT ![r].pc = "await", ![r].run = p]
     \/ SpawnFails(r)
  /\ UNCHANGED <<client, unit, pending, status, session, script, faults>>

AnyRunning(r) == status.state = "running"                              \* mutant
ReportedRunning(r) == status.state = "running" /\ status.run = req[r].run

NewSession(r) == session \notin {None, req[r].before}

(* _await_start: an answer once the run has ended, or reports that it is      *)
(* running, or after 25 s                                                     *)
AwaitStart(r) ==
  LET ended == req[r].run \notin Live
      say(pc, of) == req' = [req EXCEPT ![r].pc = pc, ![r].of = of]
  IN
  /\ Pc(r, "await")
  /\ IF ended THEN \/ NewSession(r) /\ say("saidReason", session)
                   \/ ~NewSession(r) /\ Done(r)          \* "exited"
              ELSE \/ ReportedRunning(r) /\ say("saidRunning", req[r].run)
                   \/ ~ReportedRunning(r) /\ Done(r)     \* "starting"
  /\ UNCHANGED <<core, client, profiler, script, faults>>

Said(r) ==
  /\ Pc(r, "saidRunning") \/ Pc(r, "saidReason")
  /\ Done(r)
  /\ UNCHANGED <<core, client, profiler, script, faults>>

-------------------------------------------------------------------------------
(* stop_profiler *)

Stopping(p) == run' = [run EXCEPT ![p].st = "stopping"]

BeginStop(r) ==
  /\ Pc(r, "lock") /\ req[r].op = "stop" /\ core.lock = None
  /\ \/ /\ core.handle \notin Live
        /\ core' = [core EXCEPT !.handle = None]
        /\ Done(r) /\ UNCHANGED run
     \/ /\ core.handle \in Live
        /\ Stopping(core.handle)
        /\ core' = [core EXCEPT !.lock = r]
        /\ Goto(r, "term")
  /\ UNCHANGED <<client, unit, pending, status, session, script, faults>>

ForgetFirst(r) ==                                                      \* mutant
  /\ Pc(r, "term")
  /\ core' = [core EXCEPT !.handle = None, !.lock = None]
  /\ Done(r) /\ UNCHANGED run
  /\ UNCHANGED <<client, unit, pending, status, session, script, faults>>

(* terminate_process_async: the run has ended, or is killed after 10 s *)
Terminated(r) ==
  /\ Pc(r, "term")
  /\ run' = [run EXCEPT ![core.handle].st = "dead"]
  /\ core' = [core EXCEPT !.handle = None, !.lock = None]
  /\ Done(r)
  /\ UNCHANGED <<client, unit, pending, status, session, script, faults>>

-------------------------------------------------------------------------------
(* purge_data, with the reads of profiler_active in their order *)

BeginPurge(r) ==
  /\ Pc(r, "lock") /\ req[r].op = "purge"
  /\ TakeLock(r)
  /\ Goto(r, "check")
  /\ UNCHANGED <<client, profiler, script, faults>>

OwnActive == core.handle \in Live
StatusActive == status.state \in {"starting", "running"} /\ status.run \in Live

ActiveByFile(r) == OwnActive \/ StatusActive

Check(r) ==
  /\ Pc(r, "check")
  /\ \/ /\ ActiveByFile(r)
        /\ Done(r) /\ Unlock                             \* 409
     \/ /\ ~ActiveByFile(r)
        /\ req' = [req EXCEPT ![r].pc = "unit",
             ![r].known = Run \ Unused,
             ![r].blind = {p \in Live : p # core.handle /\ p # unit.main
                                        /\ ~(StatusActive /\ status.run = p)}]
        /\ UNCHANGED core
  /\ UNCHANGED <<client, profiler, script, faults>>

(* ActiveState: neither inactive nor failed *)
UnitActive == unit.main \in Live

(* The state of the unit over D-Bus, which may fail with 503 *)
CheckUnit(r) ==
  /\ Pc(r, "unit")
  /\ \/ UnitActive /\ client' = "works" /\ Done(r) /\ Unlock
     \/ ~UnitActive /\ client' = "works" /\ Goto(r, "delete") /\ UNCHANGED core
     \/ client' = "none" /\ Done(r) /\ Unlock
  /\ (client = "gone" => client' = "none")
  /\ UNCHANGED <<profiler, script, faults>>

(* _delete_contents has emptied both directories *)
Deleted(r) ==
  /\ Pc(r, "delete")
  /\ Done(r) /\ Unlock
  /\ UNCHANGED <<client, profiler, script, faults>>

-------------------------------------------------------------------------------
(* The unit: what systemd does with a call, and how Core calls it. *)

(* StartUnit, RestartUnit and StopUnit, once systemd carries them out.  They  *)
(* return when their job is queued; a restart's start follows the stop.       *)
Carry(op, by) ==
  \/ /\ op \in {"unit_start", "unit_restart"} /\ ~UnitActive
     /\ \E p \in Unused :
          /\ run' = [run EXCEPT ![p] = Fresh(by)]
          /\ unit' = [main |-> p, again |-> "none"]
  \/ /\ op = "unit_start" /\ UnitActive
     /\ unit' = IF run[unit.main].st = "stopping"
                THEN [unit EXCEPT !.again = IF by = "tool" THEN "tool" ELSE "late"] ELSE unit
     /\ UNCHANGED run
  \/ /\ op = "unit_restart" /\ UnitActive
     /\ Stopping(unit.main)
     /\ unit' = [unit EXCEPT !.again = IF by = "tool" THEN "tool" ELSE "late"]
  \/ /\ op = "unit_stop"
     /\ IF UnitActive THEN Stopping(unit.main) ELSE UNCHANGED run
     /\ unit' = [unit EXCEPT !.again = "none"]

BeginUnit(r) ==
  /\ Pc(r, "lock") /\ req[r].op \in {"unit_start", "unit_restart"}
  /\ StartLock(r)
  /\ Goto(r, "call")
  /\ UNCHANGED <<client, profiler, script, faults>>

(* A call is carried out, or refused; or it fails on a connection that is     *)
(* gone; or nothing answers in 10 s, and systemd may get to it later.  A      *)
(* failed connection is dropped, and the next call makes a new one.           *)
UnitCall(r) ==
  /\ Pc(r, "call")
  /\ \/ /\ client # "gone"
        /\ Carry(req[r].op, "call")
        /\ client' = "works"
        /\ UNCHANGED <<pending, faults>>
     \/ /\ client # "gone"                                \* systemd refuses
        /\ client' = "works"
        /\ UNCHANGED <<run, unit, pending, faults>>
     \/ /\ client = "gone"
        /\ client' = "none"
        /\ UNCHANGED <<run, unit, pending, faults>>
     \/ /\ client # "gone" /\ Fault
        /\ pending' = pending \cup {req[r].op}
        /\ client' = "none"
        /\ UNCHANGED <<run, unit>>
  /\ IF core.lock = r THEN Unlock ELSE UNCHANGED core
  /\ Done(r)
  /\ UNCHANGED <<status, session, script>>

CarryLate ==
  /\ \E op \in pending : Carry(op, "late") /\ pending' = pending \ {op}
  /\ UNCHANGED <<core, client, status, session, script, req, faults>>

UnitAgain ==
  /\ unit.again # "none" /\ ~UnitActive
  /\ \E p \in Unused :
       /\ run' = [run EXCEPT ![p] = Fresh(unit.again)]
       /\ unit' = [main |-> p, again |-> "none"]
  /\ UNCHANGED <<core, client, pending, status, session, script, req, faults>>

(* Somebody else starts the unit, or a profiler from a shell *)
ToolStarts ==
  /\ Fault /\ "purge" \in ops
  /\ \/ Carry("unit_start", "tool")
     \/ \E p \in Unused : run' = [run EXCEPT ![p] = Fresh("shell")] /\ UNCHANGED unit
  /\ UNCHANGED <<core, client, pending, status, session, script, req>>

-------------------------------------------------------------------------------
(* The profiler itself *)

Reports(p) ==
  /\ \E st \in {"starting", "running"} :
       /\ run[p].st = IF st = "starting" THEN "silent" ELSE "starting"
       /\ run' = [run EXCEPT ![p].st = st, ![p].ran = (st = "running")]
       /\ status' = [state |-> st, run |-> p]
  /\ UNCHANGED <<core, client, unit, pending, session, script, req, faults>>

(* It ends, writing why; or crashes, leaving its files behind *)
Ends(p) ==
  /\ p \in Live
  /\ run' = [run EXCEPT ![p].st = "dead"]
  /\ \/ session' = p /\ status' = [state |-> "failed", run |-> p]
     \/ UNCHANGED <<session, status>>
  /\ UNCHANGED <<core, client, unit, pending, script, req, faults>>

-------------------------------------------------------------------------------
(* The port blinker *)

Blinking == {s \in Script : script[s] \in {"core", "other"}}
FreeScripts == {s \in Script \ {core.blinker} : script[s] = "none"}
Darken(gone) == script' = [s \in Script |-> IF s \in gone THEN "none" ELSE script[s]]

OwnBlinking == core.blinker \in Blinking                               \* mutant
AlreadyBlinking == core.blinker \in Blinking \/ Blinking # {}

StartBlinker(r) ==
  /\ Pc(r, "own") /\ req[r].op = "blink" /\ core.blink = None
  /\ \/ AlreadyBlinking /\ UNCHANGED <<core, script>>
     \/ /\ ~AlreadyBlinking
        /\ \E s \in FreeScripts : script' = [script EXCEPT ![s] = "core"]
                                  /\ core' = [core EXCEPT !.blinker = s]
  /\ Done(r)
  /\ UNCHANGED <<client, profiler, faults>>

(* stop_port_blinker ends its own child, then looks for others and ends them: *)
(* SIGTERM, after a second SIGKILL                                            *)
StopOwn(r) ==
  /\ Pc(r, "own") /\ req[r].op = "unblink" /\ core.blink = None
  /\ Darken({core.blinker} \cap Blinking)
  /\ core' = [core EXCEPT !.blinker = None, !.blink = r]
  /\ Goto(r, "rest")
  /\ UNCHANGED <<client, profiler, faults>>

NoRest == {}                                                           \* mutant
Rest == Blinking

StopRest(r) ==
  /\ Pc(r, "rest")
  /\ \/ Rest = {} /\ Goto(r, "dark") /\ UNCHANGED script
     \/ /\ Rest # {}
        /\ \E gone \in SUBSET Rest : Darken(gone)
        /\ Goto(r, "kill")
  /\ UNCHANGED <<core, client, profiler, faults>>

KillRest(r) ==
  /\ Pc(r, "kill")
  /\ Darken(Blinking)
  /\ Goto(r, "dark")
  /\ UNCHANGED <<core, client, profiler, faults>>

Dark(r) ==
  /\ Pc(r, "dark")
  /\ core' = [core EXCEPT !.blink = None]
  /\ Done(r)
  /\ UNCHANGED <<client, profiler, script, faults>>

ScriptEnds ==
  /\ \E s \in Blinking : Darken({s})
  /\ UNCHANGED <<core, client, profiler, req, faults>>

OtherScript ==
  /\ Fault /\ "blink" \in ops
  /\ \E s \in FreeScripts : script' = [script EXCEPT ![s] = "other"]
  /\ UNCHANGED <<core, client, profiler, req>>

-------------------------------------------------------------------------------
(* The D-Bus connection breaks *)
BusBreaks ==
  /\ Fault /\ client = "works"
  /\ client' = "gone"
  /\ UNCHANGED <<core, profiler, script, req>>

Restarted ==
  /\ core' = NewCore /\ client' = "none"
  /\ req' = [r \in Request |-> Idle]
  /\ UNCHANGED <<unit, pending, status, session>>

(* The worker dies; gunicorn starts another *)
WorkerDies ==
  /\ Fault /\ Restarted
  /\ run' = [p \in Run |-> IF run[p].by = "spawn" THEN [run[p] EXCEPT !.by = "orphan"]
                           ELSE run[p]]
  /\ UNCHANGED script

(* The service is restarted: what Core started is killed with it *)
ServiceRestarts ==
  /\ Fault /\ Restarted
  /\ run' = [p \in Run |-> IF p \in Live /\ run[p].by \in {"spawn", "orphan"}
                           THEN [run[p] EXCEPT !.st = "dead"] ELSE run[p]]
  /\ Darken({s \in Script : script[s] = "core"})

-------------------------------------------------------------------------------
Handle(r) ==
  \/ Request_(r)
  \/ BeginStart(r) \/ Spawn(r) \/ AwaitStart(r) \/ Said(r)
  \/ BeginStop(r) \/ Terminated(r)
  \/ BeginPurge(r) \/ Check(r) \/ CheckUnit(r) \/ Deleted(r)
  \/ BeginUnit(r) \/ UnitCall(r)
  \/ StartBlinker(r) \/ StopOwn(r) \/ StopRest(r) \/ KillRest(r) \/ Dark(r)

Step ==
  \/ \E r \in Request : Handle(r)
  \/ \E p \in Run : Reports(p) \/ Ends(p)
  \/ CarryLate \/ UnitAgain \/ ToolStarts
  \/ ScriptEnds \/ OtherScript
  \/ BusBreaks \/ WorkerDies \/ ServiceRestarts

Next == Step /\ UNCHANGED ops

Spec == Init /\ [][Next]_vars

-------------------------------------------------------------------------------
(* The one profiler Core has as a child is the one profiler_process names, so *)
(* a stop finds it, however starts, stops and exits interleave                *)
ChildIsNamed == \A p \in Children : core.handle = p

(* "running" is said of a start whose own run reported it, and a reason for a *)
(* failed start is of a run that ended after that start was checked, whatever *)
(* files earlier runs and runs of the unit leave behind                       *)
StartTellsTruth ==
  \A r \in Request :
    /\ Pc(r, "saidRunning") => run[req[r].run].ran
    /\ Pc(r, "saidReason") => req[r].of \notin req[r].known

(* While purge_data deletes no profiler runs, except one that could not be    *)
(* seen, and one systemd started after the check for somebody else, or for a  *)
(* call of Core that had returned before                                      *)
PurgeAlone ==
  \A r \in Request : Pc(r, "delete") =>
    \A p \in Live : \/ p \in req[r].blind
                    \/ p \notin req[r].known /\ run[p].by \in {"late", "tool", "shell"}

(* _start_lock: "the purge's is-it-running check cannot race a start through  *)
(* Core" (system_service.py)                                                  *)
PurgeExcludesCoreStarts ==
  \A r \in Request : Pc(r, "delete") =>
    \A p \in Live \ req[r].known : run[p].by \in {"tool", "shell"}

(* Core never has two port blinkers running, across crashes of its worker *)
OneBlinker == Cardinality({s \in Script : script[s] = "core"}) <= 1

(* When stop_port_blinker returns none of Core's blinkers is left, a former   *)
(* worker's included                                                          *)
StopMeansDark ==
  \A r \in Request : Pc(r, "dark") => \A s \in Script : script[s] # "core"
================================================================================
