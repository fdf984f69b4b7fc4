------------------------------- MODULE Lifecycle -------------------------------
(***************************************************************************)
(* The life of a Core worker: app.py with core/security.py, core/database.py *)
(* and core/system.py, under gunicorn and systemd.  A worker starts in a     *)
(* fixed order (readiness, Wi-Fi, secret, database, tokens), serves while a  *)
(* task checks its health, and closes what it opened.  It may be killed      *)
(* between any two steps; at a reload two workers run at a time.  What       *)
(* outlives a worker: the secret file, the tables and the monitor netdevs.   *)
(***************************************************************************)
EXTENDS Naturals, FiniteSets

CONSTANTS
  Worker,       \* worker processes
  Secret,       \* what secrets.token_bytes(32) returns
  Engine,       \* SQLAlchemy engines of one worker
  Phy,          \* radios, by index: a number; monitor netdev wlanpi<n> is n
  Iface,        \* managed netdevs in root
  On,           \* the radio of each
  NoMonitor,    \* radios that have no monitor mode
  Disturbance,  \* what may disturb a life
  Mixes,        \* how often, in each alternative
  Burst,        \* StartLimitBurst: failed starts before systemd gives up
  Attempts,     \* max_retries of the security manager
  Empty,        \* a secret file that was opened for writing and not written
  None

ASSUME PhyAssumption  == Phy \subseteq Nat /\ On \in [Iface -> Phy]
ASSUME MixAssumption  == Mixes \subseteq [Disturbance -> Nat]
ASSUME NoneAssumption ==
  /\ None # Empty /\ {None, Empty} \cap Secret = {} /\ None \notin Engine \cup Phy
ASSUME SizeAssumption == Attempts \in Nat /\ Engine # {} /\ Secret # {}

VARIABLES
  unit,     \* systemd: starting, on, stopping, given_up; failed starts, as if within 60 s
  worker,   \* the processes
  file,     \* shared_secret.bin: None, Empty or a secret
  tables,   \* the tables of the database exist
  net,      \* monitor netdevs Core named, managed netdevs, radios in a namespace,
            \* and radios whose monitor, not named after them, a failing read hid
  signed,   \* what a getjwt that is running has read from the file
  raced,    \* a worker was started beside one that had no secret yet
  left      \* how often each disturbance may still happen

vars == <<unit, worker, file, tables, net, signed, raced, left>>
world == <<unit, file, tables, net, signed, raced>>

(* at: the step of initialize_components or of the lifespan the worker is in  *)
(* engine: app.state.db_manager's, ready its _initialized; open: the engines  *)
(* not disposed, stuck: those whose dispose raised                            *)
(* health: what _health_check_loop is at; seen, todo: locals of the sync      *)
Gone == [at |-> "none", told |-> FALSE, secret |-> None, tries |-> 0, engine |-> None,
         ready |-> FALSE, open |-> {}, stuck |-> {}, health |-> "off",
         seen |-> {}, todo |-> {}]

Phase  == {"readiness", "wifi", "delete", "pair", "secret", "write", "mode", "database",
           "tokens", "serving", "closing", "closed", "ended"}
Live   == {w \in Worker : worker[w].at # "none"}
Happens(k) == left[k] > 0 /\ left' = [left EXCEPT ![k] = @ - 1]
Calm   == UNCHANGED left
Goes(w, r) == worker' = [worker EXCEPT ![w] = r]
At(w, p)   == worker[w].at = p
Becomes(w, p) == Goes(w, [worker[w] EXCEPT !.at = p])

(* Radios whose monitor Core named, however it is numbered: an older Core     *)
(* numbered it otherwise, so wlanpi0 may be on radio 1                        *)
Init ==
  /\ unit = [at |-> "starting", failed |-> 0]
  /\ worker = [w \in Worker |-> Gone]
  /\ file \in {None, Empty} \cup {CHOOSE s \in Secret : TRUE}
  /\ tables \in BOOLEAN
  /\ \E mon \in [Phy -> Phy \cup {None}] :
       /\ \A p, q \in Phy : p # q /\ mon[p] = mon[q] => mon[p] = None
       /\ net = [mon |-> mon, managed |-> Iface, away |-> {}, missed |-> {}]
  /\ signed = None /\ raced = FALSE
  /\ left \in Mixes
-------------------------------------------------------------------------------
(* gunicorn and systemd, as debian/wlanpi-core.service sets them up.          *)

Born == [Gone EXCEPT !.at = "readiness"]
Fresh(S) == CHOOSE x \in S : TRUE

(* ExecStartPre, then gunicorn with one worker *)
UnitStarts ==
  /\ unit.at = "starting" /\ unit' = [unit EXCEPT !.at = "on"]
  /\ UNCHANGED <<worker, file, tables, net, signed, raced>> /\ Calm

(* wlanpi-core-preflight fails *)
PreflightFails ==
  /\ unit.at = "starting" /\ Happens("fault")
  /\ unit' = [at |-> IF unit.failed + 1 < Burst THEN "starting" ELSE "given_up",
              failed |-> unit.failed + 1]
  /\ UNCHANGED <<worker, file, tables, net, signed, raced>>

(* manage_workers: no process is left of the one worker *)
Spawn ==
  /\ unit.at = "on" /\ Live = {} /\ Goes(Fresh(Worker), Born)
  /\ UNCHANGED world /\ Calm

(* ExecReload, HUP: a new worker, then the old one is told to stop *)
Reload ==
  /\ unit.at = "on" /\ Happens("reload") /\ Live \notin {{}, Worker}
  /\ worker' = [v \in Worker |-> IF v = Fresh(Worker \ Live) THEN Born
                                 ELSE [worker[v] EXCEPT !.told = worker[v].at # "none"]]
  /\ raced' = (raced \/ \E v \in Live : worker[v].secret = None)
  /\ UNCHANGED <<unit, file, tables, net, signed>>

(* A worker is killed: out of memory, the 30 s worker timeout, TimeoutStopSec *)
Killed(w) ==
  /\ w \in Live /\ Goes(w, Gone)
  /\ IF unit.at = "stopping" THEN Calm ELSE Happens("crash")
  /\ UNCHANGED world

(* The worker could not boot: gunicorn halts, Restart=on-failure *)
BootError(w) ==
  /\ Goes(w, Gone)
  /\ unit' = [at |-> IF unit.at = "stopping" THEN "stopping"
                     ELSE IF unit.failed + 1 < Burst THEN "starting" ELSE "given_up",
              failed |-> unit.failed + 1]

UnitStops ==
  /\ unit.at = "on" /\ Happens("restart") /\ unit' = [unit EXCEPT !.at = "stopping"]
  /\ worker' = [w \in Worker |-> [worker[w] EXCEPT !.told = w \in Live]]
  /\ UNCHANGED <<file, tables, net, signed, raced>>

UnitStopped ==
  /\ unit.at = "stopping" /\ Live = {} /\ unit' = [at |-> "starting", failed |-> 0]
  /\ UNCHANGED <<worker, file, tables, net, signed, raced>> /\ Calm
-------------------------------------------------------------------------------
(* initialize_components.  A CriticalInitializationError ends the worker.     *)

ReadinessFails(w) ==
  /\ At(w, "readiness") /\ Happens("fault") /\ BootError(w)
  /\ UNCHANGED <<file, tables, net, signed, raced>>

Ready(w) ==
  /\ At(w, "readiness") /\ Becomes(w, "wifi") /\ UNCHANGED world /\ Calm

(* Managed by hand, not in classic mode, or the profile could not be read *)
WifiSkipped(w) ==
  /\ At(w, "wifi") /\ Becomes(w, "secret") /\ UNCHANGED world /\ Calm

Present(i) == i \in net.managed /\ On[i] \notin net.away

(* sync_monitor_interfaces after the profile's activation: `iw dev` in root,  *)
(* then the radio of each netdev by `iw dev X info`; those whose read fails or *)
(* times out are left out                                                     *)
WifiLook(w) ==
  \E unread \in SUBSET Iface, hidden \in SUBSET Phy :
    /\ At(w, "wifi")
    /\ Goes(w, [worker[w] EXCEPT
          !.at = "delete", !.todo = {i \in Iface \ unread : Present(i)},
          !.seen = {<<n, net.mon[n]>> :
                      n \in {m \in Phy \ hidden : net.mon[m] \notin net.away \cup {None}}}])
    /\ IF unread = {} /\ hidden = {} THEN Calm ELSE Happens("fault")
    /\ net' = [net EXCEPT !.missed =
                 @ \cup {net.mon[m] : m \in {n \in hidden : net.mon[n] \notin {n, None}}}]
    /\ UNCHANGED <<unit, file, tables, signed, raced>>

(* Core's monitors on radios without a managed netdev are deleted *)
DeleteUnused(w) ==
  LET local  == worker[w]
      unused == {m \in local.seen : \A i \in local.todo : On[i] # m[2]}
      gone   == {m[1] : m \in {u \in unused : net.mon[u[1]] \notin net.away}}
  IN
  /\ At(w, "delete") /\ Becomes(w, "pair")
  /\ net' = [net EXCEPT !.mon = [n \in Phy |-> IF n \in gone THEN None ELSE @[n]]]
  /\ UNCHANGED <<unit, file, tables, signed, raced>> /\ Calm

ByName(seen, p) == \E m \in seen : m[1] = p                            \* mutant

(* core_monitor_phys *)
HasCoreMonitor(seen, p) == \E m \in seen : m[2] = p

(* `iw add` fails, without effect, when the name is taken *)
Created(p) == [net EXCEPT !.mon[p] = IF @ = None THEN p ELSE @]

(* One managed netdev: a monitor named after its radio, unless Core has one *)
Pair(w, i) ==
  LET local == worker[w]
      p     == On[i]
      makes == p \notin NoMonitor /\ ~HasCoreMonitor(local.seen, p)
  IN
  /\ At(w, "pair") /\ i \in local.todo
  /\ Goes(w, [local EXCEPT !.todo = @ \ {i},
                           !.seen = IF makes THEN @ \cup {<<p, p>>} ELSE @])
  /\ \/ /\ net' = IF makes /\ Present(i) THEN Created(p) ELSE net
        /\ Calm
     \/ makes /\ Present(i) /\ Happens("fault") /\ UNCHANGED net
  /\ UNCHANGED <<unit, file, tables, signed, raced>>

WifiDone(w) ==
  /\ At(w, "pair") /\ worker[w].todo = {}
  /\ Goes(w, [worker[w] EXCEPT !.at = "secret", !.seen = {}])
  /\ UNCHANGED world /\ Calm

(* SecurityManager(): an error is tried again, at most Attempts times *)
SecretFails(w) ==
  /\ worker[w].at \in {"secret", "write", "mode"} /\ Happens("fault")
  /\ IF worker[w].tries + 1 < Attempts
     THEN /\ Goes(w, [worker[w] EXCEPT !.at = "secret", !.secret = None, !.tries = @ + 1])
          /\ UNCHANGED unit
     ELSE BootError(w)
  /\ UNCHANGED <<file, tables, net, signed, raced>>

AlwaysMakes == TRUE                                                    \* mutant

(* not exists(), or the file is empty *)
MakesSecret == file \in {None, Empty}

SecretLoaded(w) ==
  /\ At(w, "secret") /\ ~MakesSecret
  /\ Goes(w, [worker[w] EXCEPT !.at = "mode", !.secret = file])
  /\ UNCHANGED world /\ Calm

(* write_bytes opens the file, which empties it, and writes it; a worker that *)
(* decided to write does so whatever the file holds by then                   *)
SecretOpened(w) ==
  /\ At(w, "secret") /\ MakesSecret /\ Becomes(w, "write") /\ file' = Empty
  /\ UNCHANGED <<unit, tables, net, signed, raced>> /\ Calm

SecretWritten(w) ==
  /\ At(w, "write")
  /\ \E s \in Secret : file' = s /\ Goes(w, [worker[w] EXCEPT !.at = "mode", !.secret = s])
  /\ UNCHANGED <<unit, tables, net, signed, raced>> /\ Calm

(* chown, chmod and the encryption key *)
SecretKept(w) ==
  /\ At(w, "mode") /\ Becomes(w, "database") /\ UNCHANGED world /\ Calm

(* DatabaseManager() *)
NewManager(local, e) ==
  [local EXCEPT !.engine = e, !.ready = FALSE, !.open = @ \cup {e}]

(* initialize_models: once per manager *)
Initialize(local) ==
  /\ tables' = (tables \/ ~local.ready)
  /\ UNCHANGED <<unit, file, net, signed, raced>>

DatabaseMade(w) ==
  /\ At(w, "database") /\ worker[w].engine = None
  /\ Goes(w, NewManager(worker[w], Fresh(Engine)))
  /\ UNCHANGED world /\ Calm

DatabaseReady(w) ==
  /\ At(w, "database") /\ worker[w].engine # None /\ Initialize(worker[w])
  /\ Goes(w, [worker[w] EXCEPT !.at = "tokens", !.ready = TRUE]) /\ Calm

(* initialize_with_retry returns False *)
DatabaseFails(w) ==
  /\ At(w, "database") /\ worker[w].engine # None /\ Happens("fault") /\ BootError(w)
  /\ UNCHANGED <<file, tables, net, signed, raced>>

(* The token manager, the revocation of the WebUI's tokens, whose failure is  *)
(* tolerated, and start_health_checks                                         *)
Serves(w) ==
  /\ At(w, "tokens")
  /\ Goes(w, [worker[w] EXCEPT !.at = "serving", !.health = "asleep", !.tries = 0])
  /\ UNCHANGED world /\ Calm
-------------------------------------------------------------------------------
(* _check_application_health, a task of a worker whose lifespan is not over.  *)

Health(w, from, r) == worker[w].health = from /\ Goes(w, r)

Wakes(w) ==
  /\ Health(w, "asleep", [worker[w] EXCEPT !.health = "query"])
  /\ UNCHANGED world /\ Calm

(* The critical tables are there; a query that fails counts as tables lost *)
Queried(w) ==
  /\ worker[w].health = "query"
  /\ \/ /\ Goes(w, [worker[w] EXCEPT !.health = IF tables THEN "asleep" ELSE "reset"])
        /\ Calm
     \/ /\ Goes(w, [worker[w] EXCEPT !.health = "reset"]) /\ Happens("fault")
  /\ UNCHANGED world

Disposed(local) == [local EXCEPT !.open = @ \ {local.engine}]

(* Creating tables again with the manager at hand *)
SameManager(w) ==                                                      \* mutant
  /\ Health(w, "reset", [worker[w] EXCEPT !.health = "init"])
  /\ UNCHANGED world /\ Calm

(* The old manager's cleanup, whose failure is tolerated, and a new manager *)
ResetManager(w) ==
  LET local == worker[w]
      e     == Fresh(Engine \ local.open)
  IN
  /\ local.health = "reset" /\ local.open # Engine
  /\ \/ /\ Goes(w, [NewManager(Disposed(local), e) EXCEPT !.health = "init"])
        /\ Calm
     \/ /\ Goes(w, [NewManager(local, e) EXCEPT !.health = "init",
                                                !.stuck = @ \cup {local.engine}])
        /\ Happens("fault")
  /\ UNCHANGED world

(* DatabaseManager() raises: the manager at hand is initialized again, which  *)
(* does nothing once it has been; its engine connects again when it is used   *)
ResetFails(w) ==
  /\ Health(w, "reset", [worker[w] EXCEPT !.health = "init"])
  /\ Happens("fault") /\ UNCHANGED world

Recovered(w) ==
  /\ Health(w, "init", [worker[w] EXCEPT !.health = "asleep", !.ready = TRUE])
  /\ Initialize(worker[w]) /\ Calm

(* "Database reset failed": the next check finds it *)
NotRecovered(w) ==
  /\ Health(w, "init", [worker[w] EXCEPT !.health = "asleep"])
  /\ Happens("fault") /\ UNCHANGED world
-------------------------------------------------------------------------------
(* The end of the lifespan, once the open connections are closed.             *)

Drains(w) ==
  /\ At(w, "serving") /\ worker[w].told /\ Becomes(w, "closing")
  /\ UNCHANGED world /\ Calm

NotAwaited(w) ==                                                       \* mutant
  /\ At(w, "closing") /\ Becomes(w, "closed") /\ UNCHANGED world /\ Calm

(* stop_health_checks: cancelled at whatever it awaits, and awaited *)
StopsHealthChecks(w) ==
  /\ At(w, "closing") /\ Goes(w, [worker[w] EXCEPT !.at = "closed", !.health = "off"])
  /\ UNCHANGED world /\ Calm

(* shutdown_all, then db_manager.cleanup(), whose failure is logged *)
Closes(w) ==
  /\ At(w, "closed")
  /\ \/ Goes(w, [Disposed(worker[w]) EXCEPT !.at = "ended"]) /\ Calm
     \/ /\ Goes(w, [worker[w] EXCEPT !.at = "ended", !.stuck = @ \cup {worker[w].engine}])
        /\ Happens("fault")
  /\ UNCHANGED world

Exits(w) ==
  /\ At(w, "ended") /\ Goes(w, Gone) /\ UNCHANGED world /\ Calm
-------------------------------------------------------------------------------
(* Others: clients, tools, the network.                                       *)

Serving == {w \in Worker : worker[w].at = "serving"}

(* What getjwt sends: through nginx, which names the caller in X-Real-IP, to   *)
(* the unix socket, which has no peer; signed, and with no bearer              *)
Request(s) == [peer |-> None, realIp |-> "device", bearer |-> FALSE, signature |-> s]

IsLocalhost(r) ==
  /\ r.peer \in {None, "device"}
  /\ (IF r.realIp # None THEN r.realIp ELSE r.peer) = "device"

VerifyHmac(w, r) ==
  IsLocalhost(r) /\ r.signature # None /\ r.signature = worker[w].secret

(* verify_auth_wrapper: a bearer, even a bad one, is judged alone (see Tokens) *)
AcceptsSigned(w, r) == ~r.bearer /\ VerifyHmac(w, r)

(* validate_setup and generate_signature of getjwt read the file, which may be *)
(* empty; it sends what it signed to whichever worker serves                   *)
GetjwtReads ==
  /\ signed = None /\ file # None /\ Happens("getjwt") /\ signed' = file
  /\ UNCHANGED <<unit, worker, file, tables, net, raced>>

GetjwtAnswered ==
  /\ signed # None /\ Serving # {} /\ signed' = None
  /\ UNCHANGED <<unit, worker, file, tables, net, raced>> /\ Calm

(* The tables are dropped or damaged under a running Core *)
TablesLost ==
  /\ tables /\ Happens("loss") /\ tables' = FALSE
  /\ UNCHANGED <<unit, worker, file, net, signed, raced>>

(* A radio enters or leaves a namespace; a managed netdev is deleted or made *)
NetChanges ==
  /\ Happens("net")
  /\ \/ \E p \in Phy : net' = [net EXCEPT !.away = IF p \in @ THEN @ \ {p} ELSE @ \cup {p}]
     \/ \E i \in Iface : /\ On[i] \notin net.away
                         /\ net' = [net EXCEPT !.managed = IF i \in @ THEN @ \ {i} ELSE @ \cup {i}]
  /\ UNCHANGED <<unit, worker, file, tables, signed, raced>>
-------------------------------------------------------------------------------
StartStep(w) ==
  \/ ReadinessFails(w) \/ Ready(w)
  \/ WifiSkipped(w) \/ WifiLook(w) \/ DeleteUnused(w) \/ (\E i \in Iface : Pair(w, i)) \/ WifiDone(w)
  \/ SecretFails(w) \/ SecretLoaded(w) \/ SecretOpened(w) \/ SecretWritten(w) \/ SecretKept(w)
  \/ DatabaseMade(w) \/ DatabaseReady(w) \/ DatabaseFails(w) \/ Serves(w)

HealthStep(w) ==
  \/ Wakes(w) \/ Queried(w) \/ ResetManager(w) \/ ResetFails(w)
  \/ Recovered(w) \/ NotRecovered(w)

CloseStep(w) == Drains(w) \/ StopsHealthChecks(w) \/ Closes(w) \/ Exits(w)

UnitStep == UnitStarts \/ PreflightFails \/ UnitStopped \/ Spawn

Disturbed ==
  \/ UnitStops \/ TablesLost \/ NetChanges \/ GetjwtReads \/ GetjwtAnswered \/ Reload
  \/ \E w \in Worker : Killed(w)

Next ==
  \/ UnitStep
  \/ \E w \in Worker : StartStep(w) \/ HealthStep(w) \/ CloseStep(w)
  \/ Disturbed

Spec == Init /\ [][Next]_vars

(* The event loop runs every task that is ready, every wait has a timeout, and *)
(* gunicorn and systemd replace what has ended.                                *)
Fairness ==
  /\ WF_vars(UnitStep)
  /\ \A w \in Worker :
       WF_vars(StartStep(w)) /\ WF_vars(HealthStep(w)) /\ WF_vars(CloseStep(w))

FairSpec == Spec /\ Fairness
-------------------------------------------------------------------------------
(* Properties.                                                               *)

WorkerState ==
  [at : Phase \cup {"none"}, told : BOOLEAN, secret : Secret \cup {None}, tries : 0..Attempts,
   engine : Engine \cup {None}, ready : BOOLEAN, open : SUBSET Engine, stuck : SUBSET Engine,
   health : {"off", "asleep", "query", "reset", "init"},
   seen : SUBSET (Phy \X Phy), todo : SUBSET Iface]
NetState ==
  [mon : [Phy -> Phy \cup {None}], managed : SUBSET Iface, away : SUBSET Phy, missed : SUBSET Phy]

(* Types: the state of systemd, of each worker and of what outlives them. *)
TypeOK ==
  /\ unit \in [at : {"starting", "on", "stopping", "given_up"}, failed : Nat]
  /\ worker \in [Worker -> WorkerState] /\ net \in NetState
  /\ file \in Secret \cup {None, Empty} /\ signed \in Secret \cup {None, Empty}
  /\ tables \in BOOLEAN /\ raced \in BOOLEAN
  /\ left \in [Disturbance -> Nat]

(* A radio never has two monitors of Core's, through restarts, reloads and     *)
(* monitors that an older Core numbered otherwise: sync_monitor_interfaces     *)
(* matches by radio because a second monitor and a scan crash the firmware.    *)
(* Excepted are radios whose monitor was numbered otherwise when the read of   *)
(* it failed: the sync then makes one more (RadiosHaveOneMonitor is violated). *)
OneCoreMonitor ==
  \A m, n \in Phy : m # n /\ net.mon[m] = net.mon[n] => net.mon[m] \in net.missed \cup {None}

(* The comment at the match by radio, which does not hold: one failing read of *)
(* a monitor that is not named after its radio gives that radio a second one.  *)
RadiosHaveOneMonitor ==
  \A m, n \in Phy : m # n /\ net.mon[m] = net.mon[n] => net.mon[m] = None

(* What getjwt signed with a secret is accepted by the worker that serves it,  *)
(* even when Core was killed while it wrote the file, or restarted or reloaded *)
(* between the reading and the answer; workers that made the file side by side *)
(* are excepted.                                                               *)
SignedIsAccepted ==
  signed \notin {None, Empty} /\ ~raced => \A w \in Serving : AcceptsSigned(w, Request(signed))

(* When the lifespan has ended, every engine was disposed, those that a health *)
(* check replaced included: a check running at the shutdown opens none after.  *)
EnginesDisposed ==
  \A w \in Worker : At(w, "ended") => worker[w].open \subseteq worker[w].stuck

(* Lost tables are created again, by a health check that makes a new manager   *)
(* or by the next start, unless systemd has given up.                          *)
TablesComeBack == ~tables ~> (tables \/ unit.at = "given_up")
===============================================================================
