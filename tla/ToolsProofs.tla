------------------------------ MODULE ToolsProofs ------------------------------
(***************************************************************************)
(* Proofs about the profiler, its unit, the purge and the port blinker, for *)
(* any number of requests, runs and scripts, and about Wi-Fi scans, for any *)
(* number of scans, radios and interfaces.  The inductive invariants are   *)
(* ToolInvariant and ScanInvariant.                                        *)
(***************************************************************************)
EXTENDS Tools, Scans, FiniteSetTheorems, TLAPS

(* A request is past the lock that it needs where it is                      *)
LocksHeld ==
  \A r \in Request :
    /\ req[r].pc \in {"spawn", "term", "check", "unit", "delete"} => core.lock = r
    /\ req[r].pc = "call" => req[r].op \in UnitOps /\ (req[r].op = "unit_stop" \/ core.lock = r)
    /\ req[r].pc \in {"rest", "kill", "dark"} => core.blink = r

(* Core starts a profiler when it has no handle on another                   *)
SpawnsAlone == \A r \in Request : req[r].pc = "spawn" => core.handle = None

(* A run that reported that it is running has got past its start, and the    *)
(* status file says so of no other                                           *)
ReportsAreTrue ==
  /\ \A p \in Run : run[p].ran => run[p].st \in {"running", "stopping", "dead"}
  /\ status.state = "running" => status.run \in Run /\ run[status.run].ran

(* What a start saw at its check had ended for good, and a session file it   *)
(* has not seen is of none of these                                          *)
StartsKnow ==
  \A r \in Request :
    /\ req[r].pc \in {"spawn", "await"} =>
         /\ \A p \in req[r].known : run[p].st = "dead"
         /\ session = req[r].before \/ session \notin req[r].known
    /\ req[r].pc = "saidRunning" => req[r].run \in Run

(* Between a purge's two checks only the run of the unit may be seen late    *)
PurgesKnow ==
  \A r \in Request :
    /\ req[r].pc \in {"unit", "delete"} => \A p \in req[r].known : run[p].st # "none"
    /\ req[r].pc = "unit" =>
         \A p \in Live : \/ p \in req[r].blind \/ p = unit.main
                         \/ p \notin req[r].known /\ run[p].by \in {"late", "tool", "shell"}

OneScript == \A s, t \in Script : script[s] = "core" /\ script[t] = "core" => s = t

ToolInvariant ==
  /\ TypeOK /\ LocksHeld /\ SpawnsAlone /\ ChildIsNamed
  /\ ReportsAreTrue /\ StartsKnow /\ StartTellsTruth
  /\ PurgesKnow /\ PurgeAlone /\ OneScript /\ StopMeansDark

-------------------------------------------------------------------------------
(* Requests and locks.                                                     *)

(* Request r goes on, and no other                                           *)
Moves(r) ==
  /\ req' \in [Request -> RequestState]
  /\ \A q \in Request \ {r} : req'[q] = req[q]

LEMMA MovesTo ==
  ASSUME TypeOK, NEW r \in Request, NEW s \in RequestState, req' = [req EXCEPT ![r] = s]
  PROVE  Moves(r) /\ req'[r] = s
BY DEF TypeOK, Moves

LEMMA IdleRequest == Idle \in RequestState /\ Idle.pc = "idle"
BY DEF Idle, RequestState, AllOps

LEMMA DoneMoves ==
  ASSUME TypeOK, NEW r \in Request, Done(r)
  PROVE  Moves(r) /\ req'[r].pc = "idle"
BY IdleRequest, MovesTo DEF Done

LEMMA GotoMoves ==
  ASSUME TypeOK, NEW r \in Request, NEW pc, Goto(r, pc),
         pc \in {"check", "term", "delete", "call", "rest", "kill", "dark"}
  PROVE  /\ Moves(r) /\ req'[r].pc = pc
         /\ req'[r].op = req[r].op /\ req'[r].run = req[r].run
         /\ req'[r].known = req[r].known /\ req'[r].blind = req[r].blind
<1> DEFINE s == [req[r] EXCEPT !.pc = pc]
<1>1. /\ s \in RequestState /\ s.pc = pc /\ s.op = req[r].op /\ s.run = req[r].run
      /\ s.known = req[r].known /\ s.blind = req[r].blind
  BY DEF TypeOK, RequestState
<1>2. req' = [req EXCEPT ![r] = s]
  BY DEF Goto, TypeOK
<1> HIDE DEF s
<1> QED BY <1>1, <1>2, MovesTo

(* Locks are taken when they are free, and given up by their holders         *)
KeepsLocks(r) ==
  /\ core' \in CoreState
  /\ core'.lock = core.lock \/ core.lock \in {None, r}
  /\ core'.lock \in {core.lock, r, None}
  /\ core'.blink = core.blink \/ core.blink \in {None, r}
  /\ core'.lock = r =>
       req'[r].pc \in {"spawn", "term", "check", "unit", "delete", "call"}
  /\ req'[r].pc \in {"spawn", "term", "check", "unit", "delete"} => core'.lock = r
  /\ req'[r].pc = "call" => req'[r].op \in UnitOps /\ (req'[r].op = "unit_stop" \/ core'.lock = r)
  /\ req'[r].pc \in {"rest", "kill", "dark"} => core'.blink = r

LEMMA StartMoves ==
  ASSUME TypeOK, LocksHeld, NEW r \in Request,
         BeginStart(r) \/ Spawn(r) \/ AwaitStart(r) \/ Said(r)
  PROVE  Moves(r) /\ KeepsLocks(r)
<1>1. /\ core \in CoreState /\ req[r] \in RequestState /\ req \in [Request -> RequestState]
      /\ core.lock = r => req[r].pc \in {"spawn", "term", "check", "unit", "delete", "call"}
  BY DEF TypeOK
<1>2. CASE Done(r) /\ core' = core /\ core.lock # r
  BY <1>1, <1>2, DoneMoves DEF KeepsLocks
<1>3. CASE BeginStart(r) /\ ~Done(r)
  <2> DEFINE s == [req[r] EXCEPT !.pc = "spawn", !.before = session,
                                 !.known = {p \in Run : run[p].st = "dead"}]
  <2>1. s \in RequestState /\ s.pc = "spawn"
    BY <1>1 DEF TypeOK, RequestState
  <2>2. req' = [req EXCEPT ![r] = s]
    BY <1>1, <1>3 DEF BeginStart
  <2> HIDE DEF s
  <2>3. Moves(r) /\ req'[r].pc = "spawn"
    BY <2>1, <2>2, MovesTo
  <2>4. core.lock = None /\ core' = [core EXCEPT !.lock = r, !.handle = None]
    BY <1>3 DEF BeginStart
  <2>5. core' \in CoreState /\ core'.lock = r /\ core'.blink = core.blink
    BY <1>1, <2>4 DEF CoreState
  <2> QED BY <2>3, <2>4, <2>5 DEF KeepsLocks
<1>4. CASE Spawn(r)
  <2>1. core.lock = r
    BY <1>4 DEF Spawn, Pc, LocksHeld
  <2>2. CASE SpawnFails(r)
    <3>1. core' \in CoreState /\ core'.lock = None /\ core'.blink = core.blink
      BY <1>1, <2>2 DEF SpawnFails, Unlock, CoreState
    <3> QED BY <2>1, <2>2, <3>1, DoneMoves, ToolsAssumption DEF SpawnFails, KeepsLocks
  <2>3. CASE ~SpawnFails(r)
    <3>1. PICK p \in Unused :
            /\ core' = [core EXCEPT !.handle = p, !.lock = None]
            /\ req' = [req EXCEPT ![r].pc = "await", ![r].run = p]
      BY <1>4, <2>3 DEF Spawn
    <3> DEFINE s == [req[r] EXCEPT !.pc = "await", !.run = p]
    <3>2. s \in RequestState /\ s.pc = "await"
      BY <1>1 DEF Unused, RequestState
    <3>3. req' = [req EXCEPT ![r] = s]
      BY <1>1, <3>1
    <3> HIDE DEF s
    <3>4. Moves(r) /\ req'[r].pc = "await"
      BY <3>2, <3>3, MovesTo
    <3>5. core' \in CoreState /\ core'.lock = None /\ core'.blink = core.blink
      BY <1>1, <3>1 DEF Unused, CoreState
    <3> QED BY <2>1, <3>4, <3>5, ToolsAssumption DEF KeepsLocks
  <2> QED BY <2>2, <2>3
<1>5. CASE AwaitStart(r) /\ ~Done(r)
  <2>1. PICK pc \in {"saidReason", "saidRunning"}, of \in Run \cup {None} :
          req' = [req EXCEPT ![r].pc = pc, ![r].of = of]
    BY <1>1, <1>5 DEF AwaitStart, TypeOK, RequestState
  <2> DEFINE s == [req[r] EXCEPT !.pc = pc, !.of = of]
  <2>2. s \in RequestState /\ s.pc = pc
    BY <1>1 DEF RequestState
  <2>3. req' = [req EXCEPT ![r] = s]
    BY <1>1, <2>1
  <2> HIDE DEF s
  <2>4. Moves(r) /\ req'[r].pc = pc
    BY <2>2, <2>3, MovesTo
  <2>5. core' = core /\ core.lock # r
    BY <1>1, <1>5 DEF AwaitStart, Pc
  <2> QED BY <1>1, <2>4, <2>5 DEF KeepsLocks
<1>6. CASE BeginStart(r) /\ Done(r)
  <2>1. core.lock = None /\ core.lock # r
    BY <1>6, ToolsAssumption DEF BeginStart
  <2>2. CASE core' = core
    BY <1>2, <1>6, <2>1, <2>2
  <2>3. CASE core' # core
    <3>1. core' = [core EXCEPT !.lock = r, !.handle = None]
          /\ req' = [req EXCEPT ![r].pc = "spawn", ![r].before = session,
                                ![r].known = {p \in Run : run[p].st = "dead"}]
      BY <1>6, <2>3 DEF BeginStart
    <3>2. req'[r].pc = "spawn"
      BY <1>1, <3>1 DEF RequestState
    <3> QED BY <1>6, <3>2, DoneMoves
  <2> QED BY <2>2, <2>3
<1>7. CASE (AwaitStart(r) \/ Said(r)) /\ Done(r)
  BY <1>1, <1>2, <1>7 DEF AwaitStart, Said, Pc
<1> QED BY <1>3, <1>4, <1>5, <1>6, <1>7 DEF Said

LEMMA RequestMoves ==
  ASSUME TypeOK, LocksHeld, NEW r \in Request, Request_(r)
  PROVE  Moves(r) /\ KeepsLocks(r)
<1>1. /\ core \in CoreState /\ req[r] \in RequestState
      /\ core.lock = r => req[r].pc \in {"spawn", "term", "check", "unit", "delete", "call"}
  BY DEF TypeOK
<1>2. PICK op \in ops :
        req' = [req EXCEPT ![r] = [Idle EXCEPT !.op = op, !.pc =
                  IF op \in {"blink", "unblink"} THEN "own"
                  ELSE IF op = "unit_stop" THEN "call" ELSE "lock"]]
  BY DEF Request_
<1> DEFINE pc == IF op \in {"blink", "unblink"} THEN "own"
                 ELSE IF op = "unit_stop" THEN "call" ELSE "lock"
           s == [Idle EXCEPT !.op = op, !.pc = pc]
<1>3. /\ op \in AllOps /\ pc \in {"own", "call", "lock"}
      /\ pc = "call" => op = "unit_stop"
      /\ req' = [req EXCEPT ![r] = s]
  BY <1>2 DEF TypeOK
<1> HIDE DEF pc
<1>4. s \in RequestState /\ s.pc = pc /\ s.op = op
  BY <1>3 DEF Idle, RequestState
<1> HIDE DEF s
<1>5. Moves(r) /\ req'[r] = s
  BY <1>3, <1>4, MovesTo
<1>6. core' = core /\ core.lock # r
  BY <1>1 DEF Request_, Pc
<1> QED BY <1>1, <1>3, <1>4, <1>5, <1>6 DEF KeepsLocks, UnitOps

LEMMA CoreChanges ==
  ASSUME TypeOK
  PROVE  /\ core \in CoreState
         /\ Unlock => core' \in CoreState /\ core'.lock = None /\ core'.blink = core.blink
         /\ \A r \in Request :
              TakeLock(r) => /\ core' \in CoreState /\ core'.lock = r /\ core.lock = None
                             /\ core'.blink = core.blink
BY DEF TypeOK, CoreState, Unlock, TakeLock

LEMMA OtherMoves ==
  ASSUME TypeOK, LocksHeld, NEW r \in Request,
         \/ BeginStop(r) \/ Terminated(r)
         \/ BeginPurge(r) \/ Check(r) \/ CheckUnit(r) \/ Deleted(r)
         \/ BeginUnit(r) \/ UnitCall(r)
  PROVE  Moves(r) /\ KeepsLocks(r)
<1>1. /\ core \in CoreState /\ req[r] \in RequestState /\ req \in [Request -> RequestState]
      /\ core.lock = r => req[r].pc \in {"spawn", "term", "check", "unit", "delete", "call"}
      /\ r # None
  BY ToolsAssumption DEF TypeOK
<1>2. ASSUME Done(r), core' \in CoreState, core'.lock # r, core'.lock \in {core.lock, None},
             core'.lock = core.lock \/ core.lock \in {None, r}, core'.blink = core.blink
      PROVE  Moves(r) /\ KeepsLocks(r)
  BY <1>2, DoneMoves DEF KeepsLocks
<1>3. ASSUME NEW pc \in {"check", "term", "delete", "call"}, Goto(r, pc), core' \in CoreState,
             core'.lock = r, core.lock \in {None, r}, core'.blink = core.blink,
             pc = "call" => req[r].op \in UnitOps
      PROVE  Moves(r) /\ KeepsLocks(r)
  BY <1>3, GotoMoves DEF KeepsLocks
<1>4. CASE BeginStop(r)
  <2>1. core.lock = None
    BY <1>4 DEF BeginStop
  <2>2. CASE core' = [core EXCEPT !.handle = None] /\ Done(r)
    <3>1. core' \in CoreState /\ core'.lock = None /\ core'.blink = core.blink
      BY <1>1, <2>1, <2>2 DEF CoreState
    <3> QED BY <1>1, <1>2, <2>1, <2>2, <3>1
  <2>3. CASE core' = [core EXCEPT !.lock = r] /\ Goto(r, "term")
    <3>1. core' \in CoreState /\ core'.lock = r /\ core'.blink = core.blink
      BY <1>1, <2>1, <2>3 DEF CoreState
    <3> QED BY <1>3, <2>1, <2>3, <3>1
  <2> QED BY <1>4, <2>2, <2>3 DEF BeginStop
<1>5. CASE Terminated(r)
  <2>1. core.lock = r /\ Done(r)
    BY <1>5 DEF Terminated, LocksHeld, Pc
  <2>2. core' \in CoreState /\ core'.lock = None /\ core'.blink = core.blink
    BY <1>1, <1>5 DEF Terminated, CoreState
  <2> QED BY <1>1, <1>2, <2>1, <2>2
<1>6. CASE BeginPurge(r) \/ BeginUnit(r)
  <2>1. TakeLock(r) /\ (Goto(r, "check") \/ (Goto(r, "call") /\ req[r].op \in UnitOps))
    BY <1>6 DEF BeginPurge, BeginUnit, StartLock, UnitOps
  <2> QED BY <1>3, <2>1, CoreChanges
<1>7. CASE Check(r)
  <2>1. core.lock = r
    BY <1>7 DEF Check, LocksHeld, Pc
  <2>2. CASE Done(r) /\ Unlock
    BY <1>1, <1>2, <2>1, <2>2, CoreChanges
  <2>3. CASE ~(Done(r) /\ Unlock)
    <3> DEFINE known == Run \ Unused
               blind == {p \in Live : p # core.handle /\ p # unit.main
                                        /\ ~(StatusActive /\ status.run = p)}
               s == [req[r] EXCEPT !.pc = "unit", !.known = known, !.blind = blind]
    <3>1. known \in SUBSET Run /\ blind \in SUBSET Run
      BY DEF Live
    <3>2. core' = core /\ req' = [req EXCEPT ![r].pc = "unit", ![r].known = known,
                                             ![r].blind = blind]
      BY <1>7, <2>3 DEF Check
    <3> HIDE DEF known, blind
    <3>3. s \in RequestState /\ s.pc = "unit"
      BY <1>1, <3>1 DEF RequestState
    <3>4. req' = [req EXCEPT ![r] = s]
      BY <1>1, <3>2
    <3> HIDE DEF s
    <3>5. Moves(r) /\ req'[r].pc = "unit"
      BY <3>3, <3>4, MovesTo
    <3> QED BY <1>1, <2>1, <3>2, <3>5 DEF KeepsLocks
  <2> QED BY <2>2, <2>3
<1>8. CASE CheckUnit(r)
  <2>1. core.lock = r
    BY <1>8 DEF CheckUnit, LocksHeld, Pc
  <2>2. (Done(r) /\ Unlock) \/ (Goto(r, "delete") /\ core' = core)
    BY <1>8 DEF CheckUnit
  <2> QED BY <1>1, <1>2, <1>3, <2>1, <2>2, CoreChanges
<1>9. CASE Deleted(r)
  <2>1. core.lock = r /\ Done(r) /\ Unlock
    BY <1>9 DEF Deleted, LocksHeld, Pc
  <2> QED BY <1>1, <1>2, <2>1, CoreChanges
<1>10. CASE UnitCall(r)
  <2>1. Done(r) /\ IF core.lock = r THEN Unlock ELSE core' = core
    BY <1>10 DEF UnitCall
  <2> QED BY <1>1, <1>2, <2>1, CoreChanges
<1> QED BY <1>4, <1>5, <1>6, <1>7, <1>8, <1>9, <1>10

LEMMA BlinkerMoves ==
  ASSUME TypeOK, LocksHeld, NEW r \in Request,
         StartBlinker(r) \/ StopOwn(r) \/ StopRest(r) \/ KillRest(r) \/ Dark(r)
  PROVE  Moves(r) /\ KeepsLocks(r)
<1>1. /\ core \in CoreState /\ core.lock # r /\ r # None
  BY ToolsAssumption DEF TypeOK, StartBlinker, StopOwn, StopRest, KillRest, Dark, Pc
<1>2. CASE StartBlinker(r)
  <2>1. core' \in CoreState /\ core'.lock = core.lock /\ core'.blink = core.blink
    BY <1>1, <1>2 DEF StartBlinker, FreeScripts, CoreState
  <2> QED BY <1>1, <1>2, <2>1, DoneMoves DEF StartBlinker, KeepsLocks
<1>3. CASE StopOwn(r)
  <2>1. core' \in CoreState /\ core'.lock = core.lock /\ core'.blink = r /\ core.blink = None
    BY <1>1, <1>3 DEF StopOwn, CoreState
  <2> QED BY <1>1, <1>3, <2>1, GotoMoves DEF StopOwn, KeepsLocks
<1>4. CASE StopRest(r) \/ KillRest(r)
  <2>1. core.blink = r /\ core' = core /\ (Goto(r, "kill") \/ Goto(r, "dark"))
    BY <1>4 DEF StopRest, KillRest, LocksHeld, Pc
  <2> QED BY <1>1, <2>1, GotoMoves DEF KeepsLocks
<1>5. CASE Dark(r)
  <2>1. core.blink = r
    BY <1>5 DEF Dark, LocksHeld, Pc
  <2>2. core' \in CoreState /\ core'.lock = core.lock /\ core'.blink = None
    BY <1>1, <1>5 DEF Dark, CoreState
  <2> QED BY <1>1, <1>5, <2>1, <2>2, DoneMoves DEF Dark, KeepsLocks
<1> QED BY <1>2, <1>3, <1>4, <1>5

LEMMA HandleMoves ==
  ASSUME TypeOK, LocksHeld, NEW r \in Request, Handle(r)
  PROVE  Moves(r) /\ KeepsLocks(r)
BY RequestMoves, StartMoves, OtherMoves, BlinkerMoves DEF Handle

(* Where no request goes on, none does, or all are gone                      *)
LEMMA OthersKeepRequests ==
  ASSUME TypeOK, [Next]_vars, ~\E r \in Request : Handle(r)
  PROVE  \/ UNCHANGED <<core, req>>
         \/ (WorkerDies \/ ServiceRestarts) /\ Restarted
BY DEF Next, Step, Reports, Ends, CarryLate, UnitAgain, ToolStarts, ScriptEnds, OtherScript,
   BusBreaks, WorkerDies, ServiceRestarts, vars

LEMMA LocksStep ==
  ASSUME TypeOK, LocksHeld, [Next]_vars
  PROVE  /\ LocksHeld' /\ core' \in CoreState /\ req' \in [Request -> RequestState]
         /\ \A r \in Request : core'.lock = r =>
              req'[r].pc \in {"spawn", "term", "check", "unit", "delete", "call"}
<1>1. ASSUME NEW r \in Request, Handle(r)
      PROVE  /\ LocksHeld' /\ core' \in CoreState /\ req' \in [Request -> RequestState]
             /\ \A q \in Request : core'.lock = q =>
                  req'[q].pc \in {"spawn", "term", "check", "unit", "delete", "call"}
  <2>1. Moves(r) /\ KeepsLocks(r) /\ \A q \in Request : q # None
    BY <1>1, HandleMoves, ToolsAssumption
  <2>2. LocksHeld'
    BY <2>1 DEF Moves, KeepsLocks, LocksHeld
  <2> QED BY <2>1, <2>2 DEF Moves, KeepsLocks, TypeOK
<1>2. CASE UNCHANGED <<core, req>>
  BY <1>2 DEF TypeOK, LocksHeld
<1>3. CASE Restarted
  BY <1>3, IdleRequest, ToolsAssumption DEF Restarted, NewCore, CoreState, LocksHeld
<1> QED BY <1>1, <1>2, <1>3, OthersKeepRequests

-------------------------------------------------------------------------------
(* Runs of the profiler.                                                   *)

(* systemd starts its unit when it is not active, stops it, or does neither  *)
LEMMA CarriedOut ==
  ASSUME TypeOK, NEW op, NEW by \in {"call", "late", "tool"}, Carry(op, by)
  PROVE  /\ unit' \in UnitState
         /\ unit'.main = unit.main \/ ~UnitActive
         /\ \/ run' = run
            \/ /\ op \in {"unit_start", "unit_restart"}
               /\ \E q \in Unused : run' = [run EXCEPT ![q] = Fresh(by)]
            \/ \E q \in Live : run' = [run EXCEPT ![q].st = "stopping"]
<1>1. unit \in UnitState
  BY DEF TypeOK
<1>2. unit.main \in Live /\ Stopping(unit.main) =>
        \E q \in Live : run' = [run EXCEPT ![q].st = "stopping"]
  BY DEF Stopping
<1> QED BY <1>1, <1>2 DEF Carry, UnitActive, Unused, UnitState

(* How runs begin, and who begins them                                       *)
Begun(q, by) ==
  /\ run' = [run EXCEPT ![q] = Fresh(by)]
  /\ \/ by \in {"late", "tool", "shell"}
     \/ by = "spawn" /\ core'.handle = q /\ \E r \in Request : Spawn(r)
     \/ by = "call" /\ \E r \in Request :
          UnitCall(r) /\ req[r].op \in {"unit_start", "unit_restart"}

Ended(q, st) ==
  /\ run' = [run EXCEPT ![q].st = st]
  /\ st = "dead" \/ (st = "stopping" /\ q \in Live)

LEMMA RunChanges ==
  ASSUME TypeOK, [Next]_vars
  PROVE  \/ run' = run
         \/ \E q \in Unused, by \in Starter : Begun(q, by)
         \/ \E q \in Run \cup {None}, st \in {"stopping", "dead"} : Ended(q, st)
         \/ \E q \in Run : Reports(q)
         \/ WorkerDies \/ ServiceRestarts
<1>1. Starter = {"spawn", "orphan", "call", "late", "tool", "shell"} /\ Live \subseteq Run
      /\ core.handle \in Run \cup {None} /\ unit \in UnitState
  BY DEF Starter, Live, TypeOK, CoreState
<1>2. ASSUME NEW r \in Request, Handle(r)
      PROVE  \/ run' = run
             \/ \E q \in Unused, by \in Starter : Begun(q, by)
             \/ \E q \in Run \cup {None}, st \in {"stopping", "dead"} : Ended(q, st)
  <2>1. CASE Spawn(r) /\ ~SpawnFails(r)
    <3>1. PICK p \in Unused : /\ run' = [run EXCEPT ![p] = Fresh("spawn")]
                              /\ core' = [core EXCEPT !.handle = p, !.lock = None]
      BY <2>1 DEF Spawn
    <3>2. core'.handle = p
      BY <3>1 DEF TypeOK, CoreState
    <3> QED BY <1>1, <2>1, <3>1, <3>2 DEF Begun
  <2>2. CASE BeginStop(r)
    <3>1. run' = run \/ (core.handle \in Live /\ run' = [run EXCEPT ![core.handle].st = "stopping"])
      BY <2>2 DEF BeginStop, Stopping
    <3> QED BY <1>1, <3>1 DEF Ended
  <2>3. CASE Terminated(r)
    BY <1>1, <2>3 DEF Terminated, Ended
  <2>4. CASE UnitCall(r)
    <3>1. run' = run \/ Carry(req[r].op, "call")
      BY <2>4 DEF UnitCall
    <3>2. CASE Carry(req[r].op, "call")
      <4>1. \/ run' = run
            \/ /\ req[r].op \in {"unit_start", "unit_restart"}
               /\ \E q \in Unused : run' = [run EXCEPT ![q] = Fresh("call")]
            \/ \E q \in Live : run' = [run EXCEPT ![q].st = "stopping"]
        BY <3>2, CarriedOut
      <4> QED BY <1>1, <2>4, <4>1 DEF Begun, Ended
    <3> QED BY <3>1, <3>2
  <2>5. CASE run' = run
    BY <2>5
  <2> QED BY <1>2, <2>1, <2>2, <2>3, <2>4, <2>5 DEF Handle, Request_, BeginStart, Spawn, SpawnFails,
             AwaitStart, Said, BeginPurge, Check, CheckUnit, Deleted, BeginUnit, StartBlinker,
             StopOwn, StopRest, KillRest, Dark, profiler
<1>3. ASSUME NEW p \in Run, Ends(p)
      PROVE  Ended(p, "dead")
  BY <1>3 DEF Ends, Ended
<1>4. ASSUME NEW by \in {"late", "tool"}, \E op \in UnitOps : Carry(op, by)
      PROVE  \/ run' = run
             \/ \E q \in Unused, b \in Starter : Begun(q, b)
             \/ \E q \in Run \cup {None}, st \in {"stopping", "dead"} : Ended(q, st)
  <2>1. \/ run' = run
        \/ \E q \in Unused : run' = [run EXCEPT ![q] = Fresh(by)]
        \/ \E q \in Live : run' = [run EXCEPT ![q].st = "stopping"]
    BY <1>4, CarriedOut
  <2> QED BY <1>1, <2>1 DEF Begun, Ended
<1>5. CASE CarryLate
  BY <1>4, <1>5 DEF CarryLate, TypeOK
<1>6. CASE UnitAgain
  <2>1. unit.again \in {"late", "tool"}
    BY <1>1, <1>6 DEF UnitAgain, UnitState
  <2> QED BY <1>1, <1>6, <2>1 DEF UnitAgain, Begun
<1>7. CASE ToolStarts
  <2>1. Carry("unit_start", "tool")
          \/ \E p \in Unused : run' = [run EXCEPT ![p] = Fresh("shell")]
    BY <1>7 DEF ToolStarts
  <2> QED BY <1>1, <1>4, <2>1 DEF Begun, UnitOps
<1>8. CASE ScriptEnds \/ OtherScript \/ BusBreaks \/ UNCHANGED vars
  BY <1>8 DEF ScriptEnds, OtherScript, BusBreaks, profiler, vars
<1> QED BY <1>2, <1>3, <1>5, <1>6, <1>7, <1>8 DEF Next, Step

(* What becomes of a run in a step                                           *)
Ages(p) ==
  /\ run'[p] \in RunState
  /\ run[p].st = "dead" => run'[p].st = "dead"
  /\ run[p].st # "none" => run'[p].st # "none"
  /\ run[p].ran => run'[p].ran
  /\ run'[p].ran => run'[p].st \in {"running", "stopping", "dead"}
  /\ run[p].st # "none" => \/ run'[p].by = run[p].by
                           \/ run[p].by = "spawn" /\ run'[p].by = "orphan"

LEMMA RunsAge ==
  ASSUME TypeOK, ReportsAreTrue, [Next]_vars
  PROVE  run' \in [Run -> RunState] /\ \A p \in Run : Ages(p)
<1>1. /\ run \in [Run -> RunState]
      /\ \A p \in Run : run[p].ran => run[p].st \in {"running", "stopping", "dead"}
  BY DEF TypeOK, ReportsAreTrue
<1>2. CASE run' = run
  BY <1>1, <1>2 DEF Ages
<1>3. ASSUME NEW q \in Run \cup {None}, NEW s, run' = [run EXCEPT ![q] = s],
             q \in Run =>
               /\ s \in RunState
               /\ run[q].st = "dead" => s.st = "dead"
               /\ run[q].st # "none" => s.st # "none" /\ s.by = run[q].by
               /\ run[q].ran => s.ran
               /\ s.ran => s.st \in {"running", "stopping", "dead"}
      PROVE  run' \in [Run -> RunState] /\ \A p \in Run : Ages(p)
  BY <1>1, <1>3 DEF Ages
<1>4. CASE \E q \in Unused, by \in Starter : Begun(q, by)
  <2>1. PICK q \in Unused, by \in Starter : Begun(q, by)
    BY <1>4
  <2>2. /\ Fresh(by) \in RunState /\ ~Fresh(by).ran
        /\ q \in Run /\ run[q].st = "none"
    BY DEF Fresh, RunState, LiveState, Unused
  <2>3. run' = [run EXCEPT ![q] = Fresh(by)] /\ ~run[q].ran
    BY <1>1, <2>1, <2>2 DEF Begun
  <2> QED BY <1>3, <2>2, <2>3
<1>5. CASE \E q \in Run \cup {None}, st \in {"stopping", "dead"} : Ended(q, st)
  <2>1. PICK q \in Run \cup {None}, st \in {"stopping", "dead"} : Ended(q, st)
    BY <1>5
  <2> DEFINE s == [run[q] EXCEPT !.st = st]
  <2>2. run' = [run EXCEPT ![q] = s]
    BY <1>1, <2>1 DEF Ended
  <2>3. q \in Run => /\ s \in RunState /\ s.st = st /\ s.by = run[q].by /\ s.ran = run[q].ran
    BY <1>1 DEF RunState, LiveState
  <2>4. st = "stopping" => run[q].st # "dead"
    BY <2>1 DEF Ended, Live, LiveState
  <2> HIDE DEF s
  <2> QED BY <1>3, <2>2, <2>3, <2>4
<1>6. CASE \E q \in Run : Reports(q)
  <2>1. PICK q \in Run : Reports(q)
    BY <1>6
  <2>2. PICK st \in {"starting", "running"} :
          /\ run[q].st = IF st = "starting" THEN "silent" ELSE "starting"
          /\ run' = [run EXCEPT ![q].st = st, ![q].ran = (st = "running")]
    BY <2>1 DEF Reports
  <2> DEFINE s == [run[q] EXCEPT !.st = st, !.ran = (st = "running")]
  <2>3. run' = [run EXCEPT ![q] = s]
    BY <1>1, <2>2
  <2>4. s \in RunState /\ s.st = st /\ s.by = run[q].by /\ (s.ran <=> st = "running")
    BY <1>1 DEF RunState, LiveState
  <2>5. ~run[q].ran /\ run[q].st # "dead"
    BY <1>1, <2>2
  <2> HIDE DEF s
  <2> QED BY <1>3, <2>3, <2>4, <2>5
<1>7. CASE WorkerDies
  <2>1. run' = [p \in Run |-> IF run[p].by = "spawn" THEN [run[p] EXCEPT !.by = "orphan"]
                              ELSE run[p]]
    BY <1>7 DEF WorkerDies
  <2>2. ASSUME NEW p \in Run
        PROVE  LET s == [run[p] EXCEPT !.by = "orphan"] IN
               s \in RunState /\ s.st = run[p].st /\ s.by = "orphan" /\ s.ran = run[p].ran
    BY <1>1 DEF RunState, Starter
  <2>3. ASSUME NEW p \in Run PROVE Ages(p)
    <3>1. CASE run[p].by = "spawn"
      BY <1>1, <2>1, <2>2, <3>1 DEF Ages
    <3>2. CASE run[p].by # "spawn"
      BY <1>1, <2>1, <3>2 DEF Ages
    <3> QED BY <3>1, <3>2
  <2> QED BY <2>1, <2>3 DEF Ages
<1>8. CASE ServiceRestarts
  <2>1. run' = [p \in Run |-> IF p \in Live /\ run[p].by \in {"spawn", "orphan"}
                              THEN [run[p] EXCEPT !.st = "dead"] ELSE run[p]]
    BY <1>8 DEF ServiceRestarts
  <2>2. ASSUME NEW p \in Run
        PROVE  LET s == [run[p] EXCEPT !.st = "dead"] IN
               s \in RunState /\ s.st = "dead" /\ s.by = run[p].by /\ s.ran = run[p].ran
    BY <1>1 DEF RunState
  <2>3. ASSUME NEW p \in Run PROVE Ages(p)
    <3>1. CASE p \in Live /\ run[p].by \in {"spawn", "orphan"}
      BY <1>1, <2>1, <2>2, <3>1 DEF Ages
    <3>2. CASE ~(p \in Live /\ run[p].by \in {"spawn", "orphan"})
      BY <1>1, <2>1, <3>2 DEF Ages
    <3> QED BY <3>1, <3>2
  <2> QED BY <2>1, <2>3 DEF Ages
<1> QED BY <1>2, <1>4, <1>5, <1>6, <1>7, <1>8, RunChanges

(* A run is begun by a request that has the lock, or for somebody else       *)
LEMMA NewRuns ==
  ASSUME TypeOK, LocksHeld, [Next]_vars, NEW p \in Run, p \in Live'
  PROVE  \/ p \in Live
         \/ p \in Unused /\ run'[p].by \in {"late", "tool", "shell"}
         \/ p \in Unused /\ run'[p].by = "call" /\ core.lock \in Request /\ req[core.lock].pc = "call"
         \/ p \in Unused /\ run'[p].by = "spawn" /\ core'.handle = p /\ core.lock \in Request
              /\ req[core.lock].pc = "spawn"
<1>1. run \in [Run -> RunState] /\ \A q \in Run : q \notin Live => run[q].st \in {"none", "dead"}
  BY DEF TypeOK, Live, RunState
<1>2. p \in Live' <=> run'[p].st \in LiveState
  BY DEF Live
<1>3. CASE \E q \in Unused, by \in Starter : Begun(q, by)
  <2>1. PICK q \in Unused, by \in Starter : Begun(q, by)
    BY <1>3
  <2>2. CASE p # q
    BY <1>1, <1>2, <2>1, <2>2 DEF Begun, Live
  <2>3. CASE p = q
    <3>1. run'[p].by = by
      BY <1>1, <2>1, <2>3 DEF Begun, Fresh
    <3>2. \A r \in Request : Spawn(r) => core.lock = r /\ req[r].pc = "spawn"
      BY DEF Spawn, Pc, LocksHeld
    <3>3. \A r \in Request : UnitCall(r) /\ req[r].op \in {"unit_start", "unit_restart"} =>
             core.lock = r /\ req[r].pc = "call"
      BY DEF UnitCall, Pc, LocksHeld
    <3> QED BY <2>1, <2>3, <3>1, <3>2, <3>3 DEF Begun
  <2> QED BY <2>2, <2>3
<1>4. CASE \E q \in Run \cup {None}, st \in {"stopping", "dead"} : Ended(q, st)
  <2>1. PICK q \in Run \cup {None}, st \in {"stopping", "dead"} : Ended(q, st)
    BY <1>4
  <2>2. CASE p # q
    BY <1>1, <1>2, <2>1, <2>2 DEF Ended, Live
  <2>3. CASE p = q
    <3>1. run'[p].st = st
      BY <1>1, <2>1, <2>3 DEF Ended, RunState
    <3> QED BY <1>2, <2>1, <2>3, <3>1 DEF Ended, LiveState
  <2> QED BY <2>2, <2>3
<1>5. CASE \E q \in Run : Reports(q)
  <2>1. PICK q \in Run, st \in {"starting", "running"} :
          /\ run[q].st = IF st = "starting" THEN "silent" ELSE "starting"
          /\ run' = [run EXCEPT ![q].st = st, ![q].ran = (st = "running")]
    BY <1>5 DEF Reports
  <2> QED BY <1>1, <1>2, <2>1 DEF Live, LiveState
<1>6. CASE WorkerDies \/ ServiceRestarts
  <2>1. run'[p].st = run[p].st \/ run'[p].st = "dead"
    BY <1>1, <1>6 DEF WorkerDies, ServiceRestarts, RunState
  <2> QED BY <1>2, <2>1 DEF Live, LiveState
<1>7. CASE run' = run
  BY <1>7 DEF Live
<1> QED BY <1>3, <1>4, <1>5, <1>6, <1>7, RunChanges

-------------------------------------------------------------------------------
(* The profiler Core starts.                                               *)

(* The handle is given up when its run has ended, or with the worker         *)
LEMMA HandleChanges ==
  ASSUME TypeOK, LocksHeld, SpawnsAlone, [Next]_vars
  PROVE  \/ core'.handle = core.handle
         \/ core.handle \notin Live /\ core'.handle = None
         \/ core.lock \in Request /\ req[core.lock].pc = "spawn" /\ core.handle = None
         \/ core'.handle = None /\ core.handle \notin Live'
         \/ WorkerDies \/ ServiceRestarts
<1>1. core \in CoreState /\ run \in [Run -> RunState]
  BY DEF TypeOK
<1>2. ASSUME NEW r \in Request, Handle(r)
      PROVE  \/ core'.handle = core.handle
             \/ core.handle \notin Live /\ core'.handle = None
             \/ core.lock \in Request /\ req[core.lock].pc = "spawn" /\ core.handle = None
             \/ core'.handle = None /\ core.handle \notin Live'
  <2>1. CASE BeginStart(r) \/ BeginStop(r)
    BY <1>1, <2>1 DEF BeginStart, BeginStop, CoreState
  <2>2. CASE Spawn(r)
    BY <2>2 DEF Spawn, Pc, LocksHeld, SpawnsAlone
  <2>3. CASE Terminated(r)
    <3>1. core'.handle = None /\ (core.handle \in Run => run'[core.handle].st = "dead")
      BY <1>1, <2>3 DEF Terminated, CoreState, RunState
    <3> QED BY <3>1 DEF Live, LiveState
  <2>4. CASE core' = core
    BY <2>4
  <2>5. CASE BeginPurge(r) \/ Check(r) \/ CheckUnit(r) \/ Deleted(r) \/ BeginUnit(r) \/ UnitCall(r)
    <3>1. core' = core \/ Unlock \/ TakeLock(r)
      BY <2>5 DEF BeginPurge, Check, CheckUnit, Deleted, BeginUnit, StartLock, UnitCall
    <3> QED BY <1>1, <3>1 DEF Unlock, TakeLock, CoreState
  <2>6. CASE StartBlinker(r) \/ StopOwn(r) \/ Dark(r)
    BY <1>1, <2>6 DEF StartBlinker, StopOwn, Dark, CoreState
  <2> QED BY <1>2, <2>1, <2>2, <2>3, <2>4, <2>5, <2>6 DEF Handle, Request_, AwaitStart, Said, StopRest,
         KillRest
<1> QED BY <1>2, OthersKeepRequests

(* Where the steps that record what they saw lead to                         *)
LEMMA RecordsLead ==
  ASSUME TypeOK, NEW r \in Request, req'[r].pc # "idle"
  PROVE  /\ Check(r) => req'[r].pc = "unit"
         /\ BeginStart(r) => req'[r].pc = "spawn"
         /\ Spawn(r) => req'[r].pc = "await"
         /\ AwaitStart(r) => req'[r].pc \in {"saidReason", "saidRunning"}
         /\ Request_(r) => req'[r].pc \in {"own", "call", "lock"}
<1>1. /\ req \in [Request -> RequestState] /\ req[r] \in RequestState
      /\ ~Done(r)
  BY DoneMoves DEF TypeOK
<1>2. Check(r) => req'[r].pc = "unit"
  BY <1>1 DEF Check, RequestState
<1>3. BeginStart(r) => req'[r].pc = "spawn"
  BY <1>1 DEF BeginStart, RequestState
<1>4. ASSUME Spawn(r) PROVE req'[r].pc = "await"
  <2>1. PICK p \in Run : req' = [req EXCEPT ![r].pc = "await", ![r].run = p]
    BY <1>1, <1>4 DEF Spawn, SpawnFails, Unused
  <2> QED BY <1>1, <2>1 DEF RequestState
<1>5. AwaitStart(r) => req'[r].pc \in {"saidReason", "saidRunning"}
  BY <1>1 DEF AwaitStart, RequestState
<1>6. Request_(r) => req'[r].pc \in {"own", "call", "lock"}
  BY <1>1 DEF Request_, Idle
<1> QED BY <1>2, <1>3, <1>4, <1>5, <1>6

(* How a start comes to each of its points                                   *)
LEMMA StartsGoOn ==
  ASSUME TypeOK, NEW r \in Request, Handle(r),
         req'[r].pc \in {"spawn", "await", "saidReason", "saidRunning"}
  PROVE  \/ /\ BeginStart(r) /\ core' = [core EXCEPT !.lock = r, !.handle = None]
            /\ req'[r].pc = "spawn" /\ req'[r].before = session
            /\ req'[r].known = {p \in Run : run[p].st = "dead"}
         \/ /\ req[r].pc = "spawn" /\ req'[r].pc = "await"
            /\ req'[r].before = req[r].before /\ req'[r].known = req[r].known
         \/ /\ req[r].pc = "await" /\ req'[r].pc = "saidReason" /\ NewSession(r)
            /\ req'[r].of = session /\ req'[r].known = req[r].known
         \/ /\ req[r].pc = "await" /\ req'[r].pc = "saidRunning" /\ ReportedRunning(r)
            /\ req'[r].run = req[r].run
<1>1. /\ req \in [Request -> RequestState] /\ req[r] \in RequestState
      /\ ~Done(r)
  BY DoneMoves DEF TypeOK
<1>2. \A pc \in {"check", "term", "delete", "call", "rest", "kill", "dark"} : ~Goto(r, pc)
  BY GotoMoves
<1>3. ~Check(r) /\ ~Request_(r)
  BY RecordsLead
<1>4. BeginStart(r) \/ Spawn(r) \/ AwaitStart(r)
  BY <1>1, <1>2, <1>3 DEF Handle, BeginStart, Said, BeginStop, Terminated, BeginPurge, CheckUnit,
     Deleted, BeginUnit, UnitCall, StartBlinker, StopOwn, StopRest, KillRest, Dark
<1>5. CASE BeginStart(r)
  <2>1. /\ core' = [core EXCEPT !.lock = r, !.handle = None]
        /\ req' = [req EXCEPT ![r].pc = "spawn", ![r].before = session,
                              ![r].known = {p \in Run : run[p].st = "dead"}]
    BY <1>1, <1>5 DEF BeginStart
  <2> QED BY <1>1, <1>5, <2>1 DEF RequestState
<1>6. CASE Spawn(r)
  <2>1. PICK p \in Run : req' = [req EXCEPT ![r].pc = "await", ![r].run = p]
    BY <1>1, <1>6 DEF Spawn, SpawnFails, Unused
  <2> QED BY <1>1, <1>6, <2>1 DEF Spawn, Pc, RequestState
<1>7. CASE AwaitStart(r)
  <2>1. req[r].pc = "await"
    BY <1>7 DEF AwaitStart, Pc
  <2>2. \/ NewSession(r) /\ req' = [req EXCEPT ![r].pc = "saidReason", ![r].of = session]
        \/ ReportedRunning(r) /\ req' = [req EXCEPT ![r].pc = "saidRunning", ![r].of = req[r].run]
    BY <1>1, <1>7 DEF AwaitStart
  <2> QED BY <1>1, <2>1, <2>2 DEF RequestState
<1> QED BY <1>4, <1>5, <1>6, <1>7

LEMMA ChildStep ==
  ASSUME TypeOK, LocksHeld, SpawnsAlone, ChildIsNamed, ReportsAreTrue, [Next]_vars
  PROVE  ChildIsNamed' /\ SpawnsAlone'
<1>0. core.handle \in Run \cup {None} /\ None \notin Run
  BY ToolsAssumption DEF TypeOK, CoreState
<1>1. ASSUME NEW p \in Run, p \in Children'
      PROVE  core'.handle = p
  <2>1. p \in Live' /\ run'[p].by = "spawn" /\ Ages(p)
    BY <1>1, RunsAge DEF Children
  <2>2. ~WorkerDies
    BY <2>1 DEF WorkerDies, TypeOK, RunState
  <2>3. ~ServiceRestarts
    <3>1. ServiceRestarts => run'[p].by # "spawn" \/ run'[p].st \in {"none", "dead"}
      BY DEF ServiceRestarts, TypeOK, RunState, Live
    <3> QED BY <2>1, <3>1 DEF Live, LiveState
  <2>4. CASE p \in Live
    <3>1. run[p].by = "spawn" /\ p \in Children
      BY <2>1, <2>4 DEF Ages, Live, LiveState, Children
    <3>2. core.handle = p /\ p # None
      BY <1>0, <3>1 DEF ChildIsNamed
    <3> QED BY <2>1, <2>2, <2>3, <2>4, <3>2, HandleChanges
  <2>5. CASE p \notin Live
    BY <2>1, <2>5, NewRuns
  <2> QED BY <2>4, <2>5
<1>2. ASSUME NEW r \in Request, req'[r].pc = "spawn"
      PROVE  core'.handle = None
  <2>1. CASE req'[r] = req[r] /\ core' = core
    BY <1>2, <2>1 DEF SpawnsAlone
  <2>2. CASE Handle(r)
    <3>1. core' = [core EXCEPT !.lock = r, !.handle = None]
      BY <1>2, <2>2, StartsGoOn
    <3> QED BY <3>1 DEF TypeOK, CoreState
  <2>3. ASSUME NEW q \in Request, q # r, Handle(q)
        PROVE  core'.handle = None
    <3>1. req'[r] = req[r] /\ core.lock = r /\ core.handle = None
      BY <1>2, <2>3, HandleMoves DEF Moves, LocksHeld, SpawnsAlone
    <3>2. req[r].pc = "spawn"
      BY <1>2, <3>1
    <3>3. ~Spawn(q) /\ ~BeginStart(q) /\ ~BeginStop(q) /\ ~Terminated(q)
      BY <2>3, <3>1, ToolsAssumption DEF Spawn, BeginStart, BeginStop, Terminated, Pc, LocksHeld
    <3>4. core'.handle = core.handle
      <4>1. CASE core' = core \/ Unlock \/ TakeLock(q)
        BY <4>1 DEF Unlock, TakeLock, TypeOK, CoreState
      <4>2. CASE StartBlinker(q) \/ StopOwn(q) \/ Dark(q)
        BY <4>2 DEF StartBlinker, StopOwn, Dark, TypeOK, CoreState
      <4> QED BY <2>3, <3>3, <4>1, <4>2 DEF Handle, Request_, AwaitStart, Said, BeginPurge, Check,
                 CheckUnit, Deleted, BeginUnit, StartLock, UnitCall, StopRest, KillRest
    <3> QED BY <3>1, <3>4
  <2>4. CASE Restarted
    BY <1>2, <2>4, IdleRequest DEF Restarted
  <2> QED BY <2>1, <2>2, <2>3, <2>4, OthersKeepRequests
<1> QED BY <1>1, <1>2 DEF ChildIsNamed, SpawnsAlone, Children, Live

(* The profiler writes the files; Core does not                              *)
LEMMA FilesChange ==
  ASSUME [Next]_vars
  PROVE  \/ UNCHANGED <<status, session>>
         \/ \E p \in Run : Reports(p) /\ session' = session
         \/ \E p \in Live : session' = p /\ status' = [state |-> "failed", run |-> p]
<1>1. ASSUME NEW r \in Request, Handle(r)
      PROVE  UNCHANGED <<status, session>>
  <2>1. CASE Request_(r) \/ BeginStart(r) \/ Spawn(r) \/ AwaitStart(r) \/ Said(r)
    BY <2>1 DEF Request_, BeginStart, Spawn, AwaitStart, Said, profiler
  <2>2. CASE BeginStop(r) \/ Terminated(r) \/ BeginPurge(r) \/ Check(r) \/ CheckUnit(r) \/ Deleted(r)
    BY <2>2 DEF BeginStop, Terminated, BeginPurge, Check, CheckUnit, Deleted, profiler
  <2>3. CASE BeginUnit(r) \/ UnitCall(r)
    BY <2>3 DEF BeginUnit, UnitCall, profiler
  <2>4. CASE StartBlinker(r) \/ StopOwn(r) \/ StopRest(r) \/ KillRest(r) \/ Dark(r)
    BY <2>4 DEF StartBlinker, StopOwn, StopRest, KillRest, Dark, profiler
  <2> QED BY <1>1, <2>1, <2>2, <2>3, <2>4 DEF Handle
<1>2. ASSUME NEW p \in Run, Reports(p) \/ Ends(p)
      PROVE  \/ UNCHANGED <<status, session>>
             \/ Reports(p) /\ session' = session
             \/ p \in Live /\ session' = p /\ status' = [state |-> "failed", run |-> p]
  BY <1>2 DEF Reports, Ends
<1>3. CASE CarryLate \/ UnitAgain \/ ToolStarts \/ ScriptEnds \/ OtherScript
             \/ BusBreaks \/ WorkerDies \/ ServiceRestarts
  BY <1>3 DEF CarryLate, UnitAgain, ToolStarts, ScriptEnds, OtherScript, BusBreaks, WorkerDies,
     ServiceRestarts, Restarted, profiler
<1>4. CASE UNCHANGED vars
  BY <1>4 DEF vars
<1> QED BY <1>1, <1>2, <1>3, <1>4 DEF Next, Step

LEMMA ReportsStep ==
  ASSUME TypeOK, ReportsAreTrue, [Next]_vars
  PROVE  ReportsAreTrue'
<1>1. \A p \in Run : Ages(p)
  BY RunsAge
<1>2. CASE status' = status \/ status'.state = "failed"
  BY <1>1, <1>2 DEF ReportsAreTrue, Ages
<1>3. ASSUME NEW p \in Run, Reports(p)
      PROVE  status'.state = "running" => status'.run \in Run /\ run'[status'.run].ran
  <2>1. PICK st \in {"starting", "running"} :
          /\ run' = [run EXCEPT ![p].st = st, ![p].ran = (st = "running")]
          /\ status' = [state |-> st, run |-> p]
    BY <1>3 DEF Reports
  <2> QED BY <2>1 DEF TypeOK, RunState
<1>4. ASSUME ~\E p \in Run : Reports(p)
      PROVE  status' = status \/ status'.state = "failed"
  BY <1>4, FilesChange
<1> QED BY <1>1, <1>2, <1>3, <1>4 DEF ReportsAreTrue, Ages

LEMMA StartsStep ==
  ASSUME TypeOK, LocksHeld, ReportsAreTrue, StartsKnow, StartTellsTruth, [Next]_vars
  PROVE  StartsKnow' /\ StartTellsTruth'
<1>1. \A p \in Run : Ages(p)
  BY RunsAge
<1>2. session' = session \/ (session' \in Live /\ session' # None)
  BY FilesChange, ToolsAssumption DEF Live
<1>3. \A r \in Request : req[r].known \subseteq Run
  BY DEF TypeOK, RequestState
<1> DEFINE Knows(r) ==
      /\ req[r].pc \in {"spawn", "await"} =>
           /\ \A p \in req[r].known : run[p].st = "dead"
           /\ session = req[r].before \/ session \notin req[r].known
      /\ req[r].pc = "saidRunning" => req[r].run \in Run /\ run[req[r].run].ran
      /\ req[r].pc = "saidReason" => req[r].of \notin req[r].known
<1>4. \A r \in Request : Knows(r)
  BY DEF StartsKnow, StartTellsTruth, Pc
<1>5. ASSUME NEW r \in Request, req'[r] = req[r]
      PROVE  Knows(r)'
  <2>1. Knows(r)
    BY <1>4
  <2>2. req[r].pc \in {"spawn", "await"} => session' = session \/ session' \notin req[r].known
    BY <1>2, <2>1 DEF Live, LiveState
  <2> QED BY <1>1, <1>3, <1>5, <2>1, <2>2 DEF Ages
<1>6. ASSUME NEW r \in Request, Handle(r)
      PROVE  Knows(r)'
  <2>1. Knows(r) /\ status.state = "running" => status.run \in Run /\ run[status.run].ran
    BY DEF ReportsAreTrue
  <2>2. UNCHANGED session
    BY <1>6 DEF Handle, Request_, BeginStart, Spawn, AwaitStart, Said, BeginStop, Terminated,
       BeginPurge, Check, CheckUnit, Deleted, BeginUnit, UnitCall, StartBlinker, StopOwn, StopRest,
       KillRest, Dark, profiler
  <2>3. CASE req'[r].pc \in {"spawn", "await", "saidReason", "saidRunning"}
    <3>1. CASE /\ req'[r].pc = "spawn" /\ req'[r].before = session
               /\ req'[r].known = {p \in Run : run[p].st = "dead"}
      BY <1>1, <2>2, <3>1 DEF Ages
    <3>2. CASE /\ req[r].pc = "spawn" /\ req'[r].pc = "await"
               /\ req'[r].before = req[r].before /\ req'[r].known = req[r].known
      BY <1>1, <1>3, <1>4, <2>2, <3>2 DEF Ages
    <3>3. CASE /\ req[r].pc = "await" /\ req'[r].pc = "saidReason" /\ NewSession(r)
               /\ req'[r].of = session /\ req'[r].known = req[r].known
      BY <1>4, <3>3 DEF NewSession
    <3>4. CASE /\ req[r].pc = "await" /\ req'[r].pc = "saidRunning" /\ ReportedRunning(r)
               /\ req'[r].run = req[r].run
      BY <1>1, <3>4 DEF ReportedRunning, ReportsAreTrue, Ages
    <3> QED BY <1>6, <2>3, <3>1, <3>2, <3>3, <3>4, StartsGoOn
  <2>4. CASE req'[r].pc \notin {"spawn", "await", "saidReason", "saidRunning"}
    BY <2>4
  <2> QED BY <2>3, <2>4
<1>7. CASE Restarted
  BY <1>7, IdleRequest DEF Restarted, StartsKnow, StartTellsTruth, Pc
<1>8. CASE ~Restarted
  <2>1. ASSUME NEW r \in Request PROVE Knows(r)'
    <3>1. CASE Handle(r)
      BY <1>6, <3>1
    <3>2. CASE ~Handle(r)
      <4>1. req'[r] = req[r]
        BY <1>8, <3>2, HandleMoves, OthersKeepRequests DEF Moves
      <4> QED BY <1>5, <4>1
    <3> QED BY <3>1, <3>2
  <2> QED BY <2>1 DEF StartsKnow, StartTellsTruth, Pc
<1> QED BY <1>7, <1>8

-------------------------------------------------------------------------------
(* The purge.                                                              *)

LEMMA PurgesGoOn ==
  ASSUME TypeOK, NEW r \in Request, Handle(r), req'[r].pc \in {"unit", "delete"}
  PROVE  /\ run' = run /\ unit' = unit
         /\ \/ /\ req'[r].pc = "unit" /\ ~ActiveByFile(r)
               /\ req'[r].known = Run \ Unused
               /\ req'[r].blind = {p \in Live : p # core.handle /\ p # unit.main
                                                /\ ~(StatusActive /\ status.run = p)}
            \/ /\ req[r].pc = "unit" /\ req'[r].pc = "delete" /\ ~UnitActive
               /\ req'[r].known = req[r].known /\ req'[r].blind = req[r].blind
<1>1. /\ req \in [Request -> RequestState] /\ req[r] \in RequestState
      /\ ~Done(r)
  BY DoneMoves DEF TypeOK
<1>2. \A pc \in {"check", "term", "call", "rest", "kill", "dark"} : ~Goto(r, pc)
  BY GotoMoves
<1>3. ~Request_(r) /\ ~BeginStart(r) /\ ~AwaitStart(r) /\ ~Spawn(r)
  BY RecordsLead
<1>4. Check(r) \/ CheckUnit(r)
  BY <1>1, <1>2, <1>3 DEF Handle, Said, BeginStop, Terminated, BeginPurge,
     Deleted, BeginUnit, UnitCall, StartBlinker, StopOwn, StopRest, KillRest, Dark
<1>5. CASE Check(r)
  <2> DEFINE known == Run \ Unused
             blind == {p \in Live : p # core.handle /\ p # unit.main
                                      /\ ~(StatusActive /\ status.run = p)}
  <2>1. /\ ~ActiveByFile(r)
        /\ req' = [req EXCEPT ![r].pc = "unit", ![r].known = known, ![r].blind = blind]
    BY <1>1, <1>5 DEF Check
  <2> HIDE DEF known, blind
  <2>2. req'[r].pc = "unit" /\ req'[r].known = known /\ req'[r].blind = blind
    BY <1>1, <2>1 DEF RequestState
  <2> QED BY <1>5, <2>1, <2>2 DEF Check, profiler, known, blind
<1>6. CASE CheckUnit(r)
  <2>1. Goto(r, "delete") /\ ~UnitActive /\ req[r].pc = "unit"
    BY <1>1, <1>6 DEF CheckUnit, Pc
  <2> QED BY <1>6, <2>1, GotoMoves DEF CheckUnit, profiler
<1> QED BY <1>4, <1>5, <1>6

(* The unit gets another run only when its former one has ended              *)
LEMMA UnitChanges ==
  ASSUME TypeOK, [Next]_vars
  PROVE  unit' \in UnitState /\ (unit'.main = unit.main \/ ~UnitActive)
<1>1. ASSUME NEW op, NEW by \in {"call", "late", "tool"}, Carry(op, by)
      PROVE  unit' \in UnitState /\ (unit'.main = unit.main \/ ~UnitActive)
  BY <1>1, CarriedOut
<1>2. CASE UnitAgain
  <2>1. ~UnitActive /\ \E p \in Run : unit' = [main |-> p, again |-> "none"]
    BY <1>2 DEF UnitAgain, Unused
  <2> QED BY <2>1 DEF UnitState
<1>3. CASE unit' = unit
  BY <1>3 DEF TypeOK
<1>4. ASSUME NEW r \in Request, Handle(r)
      PROVE  unit' = unit \/ Carry(req[r].op, "call")
  <2>1. CASE Request_(r) \/ BeginStart(r) \/ Spawn(r) \/ AwaitStart(r) \/ Said(r)
    BY <2>1 DEF Request_, BeginStart, Spawn, AwaitStart, Said, profiler
  <2>2. CASE BeginStop(r) \/ Terminated(r) \/ BeginPurge(r) \/ Check(r) \/ CheckUnit(r) \/ Deleted(r)
    BY <2>2 DEF BeginStop, Terminated, BeginPurge, Check, CheckUnit, Deleted, profiler
  <2>3. CASE BeginUnit(r) \/ UnitCall(r)
    BY <2>3 DEF BeginUnit, UnitCall, profiler
  <2>4. CASE StartBlinker(r) \/ StopOwn(r) \/ StopRest(r) \/ KillRest(r) \/ Dark(r)
    BY <2>4 DEF StartBlinker, StopOwn, StopRest, KillRest, Dark, profiler
  <2> QED BY <1>4, <2>1, <2>2, <2>3, <2>4 DEF Handle
<1>5. CASE \E r \in Request : Handle(r)
  BY <1>1, <1>3, <1>4, <1>5
<1>6. CASE CarryLate
  <2>1. \E op \in pending : Carry(op, "late")
    BY <1>6 DEF CarryLate
  <2> QED BY <1>1, <2>1
<1>7. CASE ToolStarts
  <2>1. Carry("unit_start", "tool") \/ unit' = unit
    BY <1>7 DEF ToolStarts
  <2> QED BY <1>1, <1>3, <2>1
<1>8. CASE (\E p \in Run : Reports(p) \/ Ends(p)) \/ ScriptEnds \/ OtherScript \/ BusBreaks
             \/ WorkerDies \/ ServiceRestarts \/ UNCHANGED vars
  BY <1>3, <1>8 DEF Reports, Ends, ScriptEnds, OtherScript, BusBreaks, WorkerDies, ServiceRestarts,
     Restarted, profiler, vars
<1> QED BY <1>2, <1>5, <1>6, <1>7, <1>8 DEF Next, Step

LEMMA PurgesStep ==
  ASSUME TypeOK, LocksHeld, ReportsAreTrue, PurgesKnow, PurgeAlone, [Next]_vars
  PROVE  PurgesKnow' /\ PurgeAlone'
<1>1. \A p \in Run : Ages(p)
  BY RunsAge
<1>2. /\ \A r \in Request : req[r].known \subseteq Run
      /\ Live \subseteq Run /\ Live' \subseteq Run
  BY DEF TypeOK, RequestState, Live
<1> DEFINE Known(r) ==
      req[r].pc \in {"unit", "delete"} => \A p \in req[r].known : run[p].st # "none"
    Told(r, p) == \/ p \in req[r].blind
                  \/ p \notin req[r].known /\ run[p].by \in {"late", "tool", "shell"}
    Alone(r) ==
      /\ req[r].pc = "unit" => \A p \in Live : Told(r, p) \/ p = unit.main
      /\ req[r].pc = "delete" => \A p \in Live : Told(r, p)
<1>3. \A r \in Request : Known(r) /\ Alone(r)
  BY DEF PurgesKnow, PurgeAlone, Pc
<1>4. ASSUME NEW r \in Request, req'[r] = req[r]
      PROVE  Known(r)' /\ Alone(r)'
  <2>1. Known(r)'
    BY <1>1, <1>2, <1>3, <1>4 DEF Ages
  <2>2. ASSUME req[r].pc \in {"unit", "delete"}, NEW p \in Live'
        PROVE  Told(r, p)' \/ (req[r].pc = "unit" /\ p = unit'.main)
    <3>1. core.lock = r /\ p \in Run
      BY <1>2, <2>2 DEF LocksHeld
    <3>2. p \in Live \/ (p \in Unused /\ run'[p].by \in {"late", "tool", "shell"})
      BY <2>2, <3>1, NewRuns
    <3>3. CASE p \in Live
      <4>1. Told(r, p) \/ (req[r].pc = "unit" /\ p = unit.main)
        BY <1>3, <2>2, <3>3
      <4>2. Told(r, p) => Told(r, p)'
        BY <1>1, <1>4, <3>1, <3>3 DEF Ages, Live, LiveState
      <4>3. p = unit.main => p = unit'.main
        BY <3>3, UnitChanges DEF UnitActive
      <4> QED BY <4>1, <4>2, <4>3
    <3>4. CASE p \in Unused /\ run'[p].by \in {"late", "tool", "shell"}
      <4>1. p \notin req[r].known
        BY <1>3, <2>2, <3>4 DEF Unused
      <4> QED BY <1>4, <3>4, <4>1
    <3> QED BY <3>2, <3>3, <3>4
  <2> HIDE DEF Told
  <2>3. Alone(r)'
    BY <1>4, <2>2
  <2> QED BY <2>1, <2>3
<1>5. ASSUME NEW r \in Request, Handle(r)
      PROVE  Known(r)' /\ Alone(r)'
  <2>1. CASE req'[r].pc \notin {"unit", "delete"}
    BY <2>1
  <2>2. CASE /\ run' = run /\ unit' = unit
             /\ req'[r].pc = "unit" /\ ~ActiveByFile(r)
             /\ req'[r].known = Run \ Unused
             /\ req'[r].blind = {p \in Live : p # core.handle /\ p # unit.main
                                              /\ ~(StatusActive /\ status.run = p)}
    <3>1. core.handle \notin Live /\ ~StatusActive
      BY <2>2 DEF ActiveByFile, OwnActive
    <3>2. Live' = Live
      BY <2>2 DEF Live
    <3> QED BY <2>2, <3>1, <3>2 DEF Unused
  <2>3. CASE /\ run' = run /\ unit' = unit
             /\ req[r].pc = "unit" /\ req'[r].pc = "delete" /\ ~UnitActive
             /\ req'[r].known = req[r].known /\ req'[r].blind = req[r].blind
    <3>1. Live' = Live
      BY <2>3 DEF Live
    <3> QED BY <1>3, <2>3, <3>1 DEF UnitActive
  <2> QED BY <1>5, <2>1, <2>2, <2>3, PurgesGoOn
<1>6. CASE Restarted
  BY <1>6, IdleRequest DEF Restarted, PurgesKnow, PurgeAlone, Pc
<1>7. CASE ~Restarted
  <2>1. ASSUME NEW r \in Request PROVE Known(r)' /\ Alone(r)'
    <3>1. CASE Handle(r)
      BY <1>5, <3>1
    <3>2. CASE ~Handle(r)
      <4>1. req'[r] = req[r]
        BY <1>7, <3>2, HandleMoves, OthersKeepRequests DEF Moves
      <4> QED BY <1>4, <4>1
    <3> QED BY <3>1, <3>2
  <2> QED BY <2>1 DEF PurgesKnow, PurgeAlone, Pc
<1> QED BY <1>6, <1>7

-------------------------------------------------------------------------------
(* The port blinker.                                                       *)

LEMMA ScriptChanges ==
  ASSUME TypeOK, [Next]_vars
  PROVE  /\ script' \in [Script -> {"none", "core", "other"}]
         /\ \/ \A s \in Script : script'[s] = "core" => script[s] = "core"
            \/ /\ core.blink = None /\ Blinking = {}
               /\ \E s \in Script : script' = [script EXCEPT ![s] = "core"]
<1>1. script \in [Script -> {"none", "core", "other"}]
  BY DEF TypeOK
<1>2. CASE script' = script
  BY <1>1, <1>2
<1>3. ASSUME NEW gone, Darken(gone)
      PROVE  /\ script' \in [Script -> {"none", "core", "other"}]
             /\ \A s \in Script : script'[s] = "core" => script[s] = "core"
  BY <1>1, <1>3 DEF Darken
<1>4. ASSUME NEW r \in Request, StartBlinker(r), script' # script
      PROVE  /\ script' \in [Script -> {"none", "core", "other"}]
             /\ core.blink = None /\ Blinking = {}
             /\ \E s \in Script : script' = [script EXCEPT ![s] = "core"]
  <2>1. core.blink = None /\ Blinking = {}
    BY <1>4 DEF StartBlinker, AlreadyBlinking
  <2>2. PICK s \in Script : script' = [script EXCEPT ![s] = "core"]
    BY <1>4 DEF StartBlinker, FreeScripts
  <2> QED BY <1>1, <2>1, <2>2
<1>5. ASSUME NEW r \in Request, Handle(r)
      PROVE  script' = script \/ StartBlinker(r) \/ \E gone \in SUBSET Blinking : Darken(gone)
  <2>1. CASE Request_(r) \/ BeginStart(r) \/ Spawn(r) \/ AwaitStart(r) \/ Said(r)
    BY <2>1 DEF Request_, BeginStart, Spawn, AwaitStart, Said
  <2>2. CASE BeginStop(r) \/ Terminated(r) \/ BeginPurge(r) \/ Check(r) \/ CheckUnit(r) \/ Deleted(r)
    BY <2>2 DEF BeginStop, Terminated, BeginPurge, Check, CheckUnit, Deleted
  <2>3. CASE BeginUnit(r) \/ UnitCall(r)
    BY <2>3 DEF BeginUnit, UnitCall
  <2>4. CASE StartBlinker(r) \/ Dark(r)
    BY <2>4 DEF Dark
  <2>5. CASE StopOwn(r) \/ KillRest(r) \/ StopRest(r)
    BY <2>5 DEF StopOwn, KillRest, StopRest, Rest
  <2> QED BY <1>5, <2>1, <2>2, <2>3, <2>4, <2>5 DEF Handle
<1>6. CASE \E r \in Request : Handle(r)
  BY <1>2, <1>3, <1>4, <1>5, <1>6
<1>7. CASE ScriptEnds \/ ServiceRestarts
  <2>1. \E gone \in SUBSET Script : Darken(gone)
    BY <1>7 DEF ScriptEnds, ServiceRestarts, Blinking
  <2> QED BY <1>3, <2>1
<1>8. CASE OtherScript
  <2>1. PICK s \in Script : script' = [script EXCEPT ![s] = "other"]
    BY <1>8 DEF OtherScript, FreeScripts
  <2> QED BY <1>1, <2>1
<1>9. CASE script' = script \/ (\E p \in Run : Reports(p) \/ Ends(p)) \/ CarryLate \/ UnitAgain
             \/ ToolStarts \/ BusBreaks \/ WorkerDies
  BY <1>2, <1>9 DEF Reports, Ends, CarryLate, UnitAgain, ToolStarts, BusBreaks, WorkerDies
<1> QED BY <1>6, <1>7, <1>8, <1>9 DEF Next, Step, vars

LEMMA BlinkerStep ==
  ASSUME TypeOK, LocksHeld, OneScript, StopMeansDark, [Next]_vars
  PROVE  OneScript' /\ StopMeansDark'
<1>1. script \in [Script -> {"none", "core", "other"}]
  BY DEF TypeOK
<1>2. \/ \A s \in Script : script'[s] = "core" => script[s] = "core"
      \/ /\ core.blink = None /\ Blinking = {}
         /\ \E s \in Script : script' = [script EXCEPT ![s] = "core"]
  BY ScriptChanges
<1>3. OneScript'
  BY <1>1, <1>2 DEF OneScript, Blinking
<1>4. ASSUME NEW r \in Request, req'[r].pc = "dark"
      PROVE  \A s \in Script : script'[s] # "core"
  <2>1. CASE req'[r] = req[r]
    <3>1. core.blink = r /\ r # None /\ \A s \in Script : script[s] # "core"
      BY <1>4, <2>1, ToolsAssumption DEF LocksHeld, StopMeansDark, Pc
    <3> QED BY <1>2, <3>1
  <2>2. CASE Handle(r)
    <3>1. ~Done(r)
      BY <1>4, DoneMoves
    <3>2. \A pc \in {"check", "term", "delete", "call", "rest", "kill"} : ~Goto(r, pc)
      BY <1>4, GotoMoves
    <3>3. ~Request_(r) /\ ~BeginStart(r) /\ ~Spawn(r) /\ ~AwaitStart(r) /\ ~Check(r)
      BY <1>4, RecordsLead
    <3>4. StopRest(r) \/ KillRest(r)
      BY <2>2, <3>1, <3>2, <3>3 DEF Handle, Said, BeginStop, Terminated, BeginPurge, CheckUnit,
         Deleted, BeginUnit, UnitCall, StartBlinker, StopOwn, Dark
    <3>5. CASE StopRest(r)
      <4>1. Blinking = {} /\ script' = script
        BY <3>2, <3>5 DEF StopRest, Rest
      <4> QED BY <4>1 DEF Blinking
    <3>6. CASE KillRest(r)
      BY <3>6 DEF KillRest, Darken, Blinking
    <3> QED BY <3>4, <3>5, <3>6
  <2>3. CASE Restarted
    BY <1>4, <2>3, IdleRequest DEF Restarted
  <2>4. CASE ~Handle(r) /\ ~Restarted
    BY <2>1, <2>4, HandleMoves, OthersKeepRequests DEF Moves
  <2> QED BY <2>1, <2>2, <2>3, <2>4
<1> QED BY <1>3, <1>4 DEF StopMeansDark, Pc

-------------------------------------------------------------------------------
(* The results.                                                            *)

LEMMA TypesStep ==
  ASSUME ToolInvariant, [Next]_vars
  PROVE  TypeOK'
<1> USE DEF ToolInvariant
<1>1. /\ core' \in CoreState /\ req' \in [Request -> RequestState]
      /\ \A r \in Request : core'.lock = r =>
           req'[r].pc \in {"spawn", "term", "check", "unit", "delete", "call"}
  BY LocksStep
<1>2. run' \in [Run -> RunState] /\ unit' \in UnitState
  BY RunsAge, UnitChanges
<1>3. script' \in [Script -> {"none", "core", "other"}]
  BY ScriptChanges
<1>4. status' \in StatusState /\ session' \in Run \cup {None}
  <2>1. ASSUME NEW p \in Run, Reports(p)
        PROVE  status' \in StatusState
    BY <2>1 DEF Reports, StatusState
  <2>2. \A p \in Live : p \in Run /\ [state |-> "failed", run |-> p] \in StatusState
    BY DEF Live, StatusState
  <2> QED BY <2>1, <2>2, FilesChange DEF TypeOK
<1>5. ops' \in Mixes /\ ops' \subseteq AllOps
  BY DEF Next, vars, TypeOK
<1>6. pending' \subseteq UnitOps /\ client' \in {"none", "works", "gone"} /\ faults' \in 0..MaxFaults
  <2>1. /\ pending \subseteq UnitOps /\ client \in {"none", "works", "gone"}
        /\ faults \in 0..MaxFaults /\ MaxFaults \in Nat
    BY ToolsAssumption DEF TypeOK
  <2>2. ASSUME NEW r \in Request, Handle(r)
        PROVE  /\ pending' \subseteq UnitOps /\ client' \in {"none", "works", "gone"}
               /\ faults' = faults \/ Fault
    <3>1. CASE Request_(r) \/ BeginStart(r) \/ Spawn(r) \/ AwaitStart(r) \/ Said(r)
      BY <2>1, <3>1 DEF Request_, BeginStart, Spawn, AwaitStart, Said, profiler
    <3>2. CASE BeginStop(r) \/ Terminated(r) \/ BeginPurge(r) \/ Check(r) \/ CheckUnit(r) \/ Deleted(r)
      BY <2>1, <3>2 DEF BeginStop, Terminated, BeginPurge, Check, CheckUnit, Deleted, profiler
    <3>3. CASE BeginUnit(r)
      BY <2>1, <3>3 DEF BeginUnit, profiler
    <3>4. CASE UnitCall(r)
      <4>1. client' \in {"none", "works", "gone"} /\ (faults' = faults \/ Fault)
        BY <2>1, <3>4 DEF UnitCall
      <4>2. pending' = pending \/ (pending' = pending \cup {req[r].op} /\ req[r].op \in UnitOps)
        BY <3>4 DEF UnitCall, Pc, LocksHeld
      <4> QED BY <2>1, <4>1, <4>2
    <3>5. CASE StartBlinker(r) \/ StopOwn(r) \/ StopRest(r) \/ KillRest(r) \/ Dark(r)
      BY <2>1, <3>5 DEF StartBlinker, StopOwn, StopRest, KillRest, Dark, profiler
    <3> QED BY <2>2, <3>1, <3>2, <3>3, <3>4, <3>5 DEF Handle
  <2>3. ASSUME ~\E r \in Request : Handle(r)
        PROVE  /\ pending' \subseteq UnitOps /\ client' \in {"none", "works", "gone"}
               /\ faults' = faults \/ Fault
    <3>1. CASE \E p \in Run : Reports(p) \/ Ends(p)
      BY <2>1, <3>1 DEF Reports, Ends
    <3>2. CASE CarryLate \/ UnitAgain \/ ToolStarts
      BY <2>1, <3>2 DEF CarryLate, UnitAgain, ToolStarts
    <3>3. CASE ScriptEnds \/ OtherScript \/ BusBreaks \/ WorkerDies \/ ServiceRestarts
      BY <2>1, <3>3 DEF ScriptEnds, OtherScript, BusBreaks, WorkerDies, ServiceRestarts, Restarted,
         profiler
    <3>4. CASE UNCHANGED vars
      BY <2>1, <3>4 DEF vars
    <3> QED BY <2>3, <3>1, <3>2, <3>3, <3>4 DEF Next, Step
  <2>4. Fault => faults' \in 0..MaxFaults
    BY <2>1 DEF Fault
  <2> QED BY <2>1, <2>2, <2>3, <2>4
<1> QED BY <1>1, <1>2, <1>3, <1>4, <1>5, <1>6 DEF TypeOK

(* The tools keep what ToolInvariant says of their requests, locks, runs and
   scripts (profiler/cli.py, services/system_service.py, utils_service.py). *)
THEOREM ToolsAreKnown == Spec => []ToolInvariant
<1>1. Init => ToolInvariant
  <2> SUFFICES ASSUME Init PROVE ToolInvariant
    OBVIOUS
  <2>1. /\ NewCore \in CoreState /\ NoRun \in RunState /\ ~NoRun.ran /\ NoRun.st = "none"
        /\ [main |-> None, again |-> "none"] \in UnitState
        /\ [state |-> "none", run |-> None] \in StatusState
        /\ NewCore.lock = None
    BY DEF NewCore, NoRun, CoreState, RunState, UnitState, StatusState, Starter
  <2>2. TypeOK
    BY <2>1, IdleRequest, ToolsAssumption DEF Init, TypeOK
  <2>3. Live = {} /\ \A r \in Request : req[r].pc = "idle"
    BY <2>1, IdleRequest DEF Init, Live, LiveState
  <2>4. LocksHeld /\ SpawnsAlone /\ StartsKnow /\ PurgesKnow
    BY <2>3 DEF LocksHeld, SpawnsAlone, StartsKnow, PurgesKnow
  <2>5. StartTellsTruth /\ PurgeAlone /\ StopMeansDark /\ ChildIsNamed
    BY <2>3 DEF StartTellsTruth, PurgeAlone, StopMeansDark, ChildIsNamed, Children, Pc
  <2>6. ReportsAreTrue /\ OneScript
    BY <2>1 DEF Init, ReportsAreTrue, OneScript
  <2> QED BY <2>2, <2>4, <2>5, <2>6 DEF ToolInvariant
<1>2. ToolInvariant /\ [Next]_vars => ToolInvariant'
  <2> SUFFICES ASSUME ToolInvariant, [Next]_vars PROVE ToolInvariant'
    OBVIOUS
  <2> USE DEF ToolInvariant
  <2>1. TypeOK' /\ LocksHeld'
    BY TypesStep, LocksStep
  <2>2. ChildIsNamed' /\ SpawnsAlone' /\ ReportsAreTrue'
    BY ChildStep, ReportsStep
  <2>3. StartsKnow' /\ StartTellsTruth' /\ PurgesKnow' /\ PurgeAlone'
    BY StartsStep, PurgesStep
  <2>4. OneScript' /\ StopMeansDark'
    BY BlinkerStep
  <2> QED BY <2>1, <2>2, <2>3, <2>4
<1> QED BY <1>1, <1>2, PTL DEF Spec

(* The profiler that Core has as a child is the one its handle names, however
   starts, stops and exits interleave (profiler/cli.py). *)
THEOREM ChildrenAreNamed == Spec => []ChildIsNamed
BY ToolsAreKnown, PTL DEF ToolInvariant

(* What a start answers is of that start's own run, or of a run that ended
   after it (profiler/cli.py, _await_start). *)
THEOREM StartsTellTheTruth == Spec => []StartTellsTruth
BY ToolsAreKnown, PTL DEF ToolInvariant

(* A purge deletes beside no profiler that it could see, and that no call of
   somebody else or of an earlier request started (profiler/service.py). *)
THEOREM PurgesAreAlone == Spec => []PurgeAlone
BY ToolsAreKnown, PTL DEF ToolInvariant

(* Core has one port blinker at most (utils_service.py). *)
THEOREM BlinkersAreOne == Spec => []OneBlinker
<1>1. OneScript => OneBlinker
  <2> SUFFICES ASSUME OneScript PROVE OneBlinker
    OBVIOUS
  <2> DEFINE S == {s \in Script : script[s] = "core"}
  <2>1. CASE S = {}
    BY <2>1, FS_EmptySet DEF OneBlinker
  <2>2. CASE S # {}
    <3>1. PICK s \in S : TRUE
      BY <2>2
    <3>2. S = {s}
      BY <3>1 DEF OneScript
    <3> QED BY <3>2, FS_Singleton DEF OneBlinker
  <2> QED BY <2>1, <2>2
<1> QED BY <1>1, ToolsAreKnown, PTL DEF ToolInvariant

(* When a stop of the port blinker is through, none of Core's is left
   (utils_service.py, stop_port_blinker). *)
THEOREM StopsEndBlinkers == Spec => []StopMeansDark
BY ToolsAreKnown, PTL DEF ToolInvariant

-------------------------------------------------------------------------------
(* Scans.  ScanInvariant relates what a scan remembers to the links, the     *)
(* claims and the captures.                                                  *)
(* What a scan has read, and what it chose by it.  Only an Intel radio's      *)
(* monitors are paused; the target is a monitor only where no managed         *)
(* interface could be scanned instead.                                        *)
Remembers(r) ==
  LET s == scan[r] IN
  /\ s.pc # "idle" =>
       /\ s.target \in Monitor => ManagedSiblings(s.target, Iface) = {}
       /\ IF s.driver = "unknown" THEN MyRadio(r) \in spoiled
                                  ELSE s.driver = drivers[MyRadio(r)]
       /\ s.paused # {} => Intel(r)
       /\ \A m \in s.paused : m # s.target /\ On[m] = MyRadio(r)
  /\ s.todo \subseteq s.paused
  /\ s.pc \in {"look", "check"} => Intel(r)
  /\ s.pc \in {"idle", "look"} => s.paused = {}
  /\ s.pc \in {"idle", "look", "check", "claim", "state"} => s.was
  /\ s.pc = "lower" => ~s.was

(* What a scan past its claim has claimed is in _active_scans, and no other's *)
KeysHeld ==
  \A r \in Request : Claims(r) =>
    /\ Keys(r) \subseteq active
    /\ \A q \in Request \ {r} : Claims(q) => Keys(q) \cap Keys(r) = {}

(* A capture is on a monitor that is up; a scan that may take the monitor     *)
(* down had looked before the capture began                                   *)
CapturesKnown ==
  /\ captured \subseteq up
  /\ \A r \in Request : Looked(r) =>
       \A m \in captured :
         m \in scan[r].paused \/ (m = scan[r].target /\ ~scan[r].was) => r \in late[m]

(* `i` need not be, or is, as it was found                                    *)
Exempt == spoiled \cup Stranded
AsFound(i) == i \in Exempt \/ (i \in up <=> i \in found)

(* The monitors a scan may find and pause: others of the radio's interfaces   *)
(* exist                                                                      *)
Pausable(m) == \E i \in Iface \ {m} : On[i] = On[m]

(* A scan knows what its target was, and puts back its target and the         *)
(* monitors it paused one after the other                                     *)
PutsBack(r) ==
  LET s == scan[r] IN
  /\ \A m \in s.paused : m \in found \cup Exempt
  /\ s.pc \in {"state", "release"} => \A m \in s.paused : AsFound(m)
  /\ s.pc = "lower" => s.todo = s.paused
  /\ s.pc = "restore" => \A m \in s.paused \ s.todo : AsFound(m)
  /\ s.pc \in {"pause", "wpa", "poll", "iw", "await", "lower", "restore"} =>
       s.target \in Exempt \/ (s.was <=> s.target \in found)
  /\ Claims(r) /\ (s.was \/ s.pc \in {"state", "restore", "release"}) => AsFound(s.target)

(* What a scan past its claim may have changed                                *)
Held(r) == scan[r].paused \cup {scan[r].target}

LinksKnown ==
  /\ \A m \in Monitor \cap up :
       drivers[On[m]] = "iwlwifi" /\ Pausable(m) => m \in found \cup Exempt
  /\ \A r \in Request : PutsBack(r)
  /\ \A i \in Iface : AsFound(i) \/ \E r \in Request : Claims(r) /\ i \in Held(r)

(* A radio sweeps for one interface at a time, whose scan is yet to clean up  *)
(* unless the sweep outlived it                                               *)
Asking == {"poll", "iw", "await"}
AsksFor(r, i) == scan[r].pc \in Asking /\ scan[r].target = i

SweepsKnown ==
  \A i \in sweeping :
    /\ \A j \in sweeping : On[i] = On[j] => i = j
    /\ On[i] \in outlived \cup spoiled \/ \E r \in Request : AsksFor(r, i)

(* A deaf radio has a scan that is yet to clear its filter                    *)
IsToClear(r, p) == scan[r].pc \in Asking \cup {"lower", "restore"} /\ MyRadio(r) = p

DeafKnown ==
  \A p \in deaf \ (spoiled \cup outlived) :
    drivers[p] = "mt7921" /\ \E r \in Request : IsToClear(r, p)

ScanInvariant ==
  /\ ScanTypeOK
  /\ \A r \in Request : Remembers(r)
  /\ KeysHeld /\ CapturesKnown /\ LinksKnown /\ SweepsKnown /\ DeafKnown
-------------------------------------------------------------------------------
(* Types, and what a scan remembers.                                       *)

LEMMA TypesInit == ASSUME ScanInit PROVE ScanTypeOK
<1>1. NoScan \in ScanStates /\ NoScan.pc = "idle"
  BY DEF NoScan, ScanStates, Steps
<1> QED BY <1>1, ScansAssumption DEF ScanInit, ScanTypeOK

(* Only Begin chooses a target: an interface, and a monitor only where no     *)
(* managed interface of its radio can be scanned                              *)
LEMMA TargetsAreInterfaces ==
  ASSUME NEW listed \in Listings,
         NEW i \in Adapters(listed) \cup Selected(Adapters(listed)),
         NEW t \in ScanTargets(i, Adapters(listed))
  PROVE  /\ t \in Iface
         /\ t \in Monitor => ManagedSiblings(t, Iface) = {}
<1>1. i \in Adapters(listed)
  BY DEF Selected
<1>2. CASE i \in Monitor /\ ManagedSiblings(i, Adapters(listed)) # {}
  BY <1>1, <1>2, ScansAssumption DEF ScanTargets, ManagedSiblings, Adapters
<1>3. CASE ~(i \in Monitor /\ ManagedSiblings(i, Adapters(listed)) # {})
  <2>1. t = i
    BY <1>3 DEF ScanTargets
  <2>2. ManagedSiblings(i, Iface) \subseteq ManagedSiblings(i, Adapters(listed))
    BY <1>1 DEF ManagedSiblings, Adapters
  <2> QED BY <1>1, <1>3, <2>1, <2>2 DEF Adapters
<1> QED BY <1>2, <1>3

(* What Begin does, once the listing and the adapter are chosen               *)
LEMMA BeginChooses ==
  ASSUME ScanTypeOK, NEW r \in Request, Begin(r)
  PROVE  /\ scan[r].pc = "idle"
         /\ UNCHANGED <<radios, up, captured, late, active>>
         /\ \E t \in Iface, driver \in Drivers \cup {"unknown"}, s \in ScanStates :
              /\ t \in Monitor => ManagedSiblings(t, Iface) = {}
              /\ driver \in DriverRead(t)
              /\ IF driver = "unknown" THEN Fails({On[t]}) ELSE Works
              /\ scan' = [scan EXCEPT ![r] = s]
              /\ s.pc = (IF driver = "iwlwifi" THEN "look" ELSE "claim")
              /\ s.target = t /\ s.driver = driver
              /\ s.paused = {} /\ s.todo = {} /\ s.was
<1> DEFINE Effect(t, driver) ==
             /\ IF driver = "unknown" THEN Fails({On[t]}) ELSE Works
             /\ scan' = [scan EXCEPT ![r] =
                  [NoScan EXCEPT !.pc = IF driver = "iwlwifi" THEN "look" ELSE "claim",
                               !.target = t, !.driver = driver]]
<1>1. /\ scan[r].pc = "idle"
      /\ UNCHANGED <<radios, up, captured, late, active>>
  BY DEF Begin, At
<1>2. PICK listed \in Listings :
        \E i \in Adapters(listed) \cup Selected(Adapters(listed)) :
        \E t \in ScanTargets(i, Adapters(listed)) :
        \E driver \in DriverRead(t) : Effect(t, driver)
  BY DEF Begin
<1>3. PICK i \in Adapters(listed) \cup Selected(Adapters(listed)) :
        \E t \in ScanTargets(i, Adapters(listed)) :
        \E driver \in DriverRead(t) : Effect(t, driver)
  BY <1>2
<1>4. PICK t \in ScanTargets(i, Adapters(listed)) :
        \E driver \in DriverRead(t) : Effect(t, driver)
  BY <1>3
<1>5. PICK driver \in DriverRead(t) : Effect(t, driver)
  BY <1>4
<1>6. t \in Iface /\ (t \in Monitor => ManagedSiblings(t, Iface) = {})
  BY TargetsAreInterfaces
<1>7. driver \in Drivers \cup {"unknown"}
  BY <1>6, ScansAssumption DEF DriverRead, ScanTypeOK
<1> DEFINE s == [NoScan EXCEPT !.pc = IF driver = "iwlwifi" THEN "look" ELSE "claim",
                             !.target = t, !.driver = driver]
<1>8. /\ s \in ScanStates
      /\ s.pc = (IF driver = "iwlwifi" THEN "look" ELSE "claim")
      /\ s.target = t /\ s.driver = driver /\ s.paused = {} /\ s.todo = {} /\ s.was
  BY <1>6, <1>7 DEF NoScan, ScanStates, Steps
<1>9. scan' = [scan EXCEPT ![r] = s]
  BY <1>5
<1> HIDE DEF s
<1> QED BY <1>1, <1>5, <1>6, <1>7, <1>8, <1>9

(* A scan's record after each kind of step                                    *)
LEMMA ScanStatesKept ==
  ASSUME NEW s \in ScanStates, NEW pc \in Steps, NEW b \in BOOLEAN,
         NEW P \in SUBSET Monitor
  PROVE  /\ NoScan \in ScanStates
         /\ [s EXCEPT !.pc = pc] \in ScanStates
         /\ [s EXCEPT !.todo = P] \in ScanStates
         /\ [s EXCEPT !.pc = pc, !.todo = P] \in ScanStates
         /\ [s EXCEPT !.pc = pc, !.paused = P] \in ScanStates
         /\ [s EXCEPT !.pc = pc, !.todo = P, !.was = b] \in ScanStates
BY DEF ScanStates, NoScan, Steps

(* What each step does to the record of its scan                              *)
LEMMA ScanStepEffect ==
  ASSUME ScanTypeOK, NEW r \in Request, ScanStep(r)
  PROVE  /\ scan' \in [Request -> ScanStates]
         /\ \A q \in Request \ {r} : scan'[q] = scan[q]
<1>1. scan \in [Request -> ScanStates] /\ scan[r] \in ScanStates
  BY DEF ScanTypeOK
<1>2. ASSUME NEW s \in ScanStates, scan' = [scan EXCEPT ![r] = s]
      PROVE  scan' \in [Request -> ScanStates] /\ \A q \in Request \ {r} : scan'[q] = scan[q]
  BY <1>1, <1>2
<1>3. ASSUME NEW pc \in Steps, ScanGoto(r, pc)
      PROVE  \E s \in ScanStates : scan' = [scan EXCEPT ![r] = s]
  BY <1>1, <1>3, ScanStatesKept DEF ScanGoto
<1>4. ASSUME ScanDone(r)
      PROVE  \E s \in ScanStates : scan' = [scan EXCEPT ![r] = s]
  <2>1. NoScan \in ScanStates
    BY DEF NoScan, ScanStates, Steps
  <2> QED BY <1>4, <2>1 DEF ScanDone
<1>5. ASSUME Cleanup(r)
      PROVE  \E s \in ScanStates : scan' = [scan EXCEPT ![r] = s]
  <2> DEFINE pc == IF scan[r].was THEN "restore" ELSE "lower"
  <2>1. pc \in Steps /\ scan[r].paused \in SUBSET Monitor
    BY <1>1 DEF Steps, ScanStates
  <2>2. [scan[r] EXCEPT !.pc = pc, !.todo = scan[r].paused] \in ScanStates
    BY <2>1, <1>1, ScanStatesKept
  <2> QED BY <1>1, <1>5, <2>2 DEF Cleanup, ScanStates
<1>6. CASE Begin(r)
  <2>1. PICK s \in ScanStates : scan' = [scan EXCEPT ![r] = s]
    BY <1>6, BeginChooses
  <2> QED BY <2>1, <1>2
<1>7. CASE Look(r)
  <2>1. PICK P \in {UpSiblings(scan[r].target), {}} :
           scan' = [scan EXCEPT ![r].paused = P, ![r].pc = IF P = {} THEN "claim" ELSE "check"]
    BY <1>7 DEF Look
  <2>2. P \in SUBSET Monitor
    BY DEF UpSiblings
  <2>3. [scan[r] EXCEPT !.pc = IF P = {} THEN "claim" ELSE "check", !.paused = P] \in ScanStates
    BY <1>1, <2>2, ScanStatesKept DEF Steps
  <2>4. scan' = [scan EXCEPT ![r] =
                  [scan[r] EXCEPT !.pc = IF P = {} THEN "claim" ELSE "check", !.paused = P]]
    BY <1>1, <2>1 DEF ScanStates
  <2> QED BY <2>3, <2>4, <1>2
<1>8. CASE CheckCaptures(r) \/ Claim(r) \/ FallBack(r) \/ Lower(r) \/ Hear(r) \/ Release(r)
  <2>1. \/ ScanDone(r) \/ ScanGoto(r, "claim") \/ ScanGoto(r, "state") \/ ScanGoto(r, "iw")
        \/ ScanGoto(r, "restore") \/ ScanGoto(r, "release")
    BY <1>8 DEF CheckCaptures, Claim, FallBack, Lower, Hear, Release
  <2> QED BY <2>1, <1>2, <1>3, <1>4 DEF Steps
<1>9. CASE ReadState(r)
  <2>1. CASE ScanGoto(r, "release")
    BY <2>1, <1>2, <1>3 DEF Steps
  <2>2. CASE ~ScanGoto(r, "release")
    <3>1. scan[r].paused \in SUBSET Monitor /\ (scan[r].target \in up) \in BOOLEAN
      BY <1>1 DEF ScanStates
    <3>2. [scan[r] EXCEPT !.pc = "pause", !.todo = scan[r].paused,
                          !.was = scan[r].target \in up] \in ScanStates
      BY <1>1, <3>1, ScanStatesKept DEF Steps
    <3> QED BY <1>9, <2>2, <3>2, <1>1, <1>2 DEF ReadState, ScanStates
  <2> QED BY <2>1, <2>2
<1>10. CASE Pause(r)
  <2>1. CASE Cleanup(r)
    BY <2>1, <1>2, <1>5
  <2>2. CASE ~Cleanup(r)
    <3>1. PICK m \in scan[r].todo : scan' = [scan EXCEPT ![r].todo = @ \ {m}]
      BY <1>10, <2>2 DEF Pause
    <3>2. [scan[r] EXCEPT !.todo = @ \ {m}] \in ScanStates
      BY <1>1 DEF ScanStates
    <3> QED BY <3>1, <3>2, <1>1, <1>2 DEF ScanStates
  <2> QED BY <2>1, <2>2
<1>11. CASE Raise(r) \/ Trigger(r) \/ ScanEnds(r)
  <2>1. Cleanup(r) \/ \E pc \in {"wpa", "iw", "poll", "await"} : ScanGoto(r, pc)
    BY <1>11 DEF Raise, Trigger, ScanEnds, Scanners
  <2> QED BY <2>1, <1>2, <1>3, <1>5 DEF Steps
<1>12. CASE Restore(r)
  <2>1. PICK m \in scan[r].todo : scan' = [scan EXCEPT ![r].todo = @ \ {m}]
    BY <1>12 DEF Restore, KeepsGoing
  <2>2. [scan[r] EXCEPT !.todo = @ \ {m}] \in ScanStates
    BY <1>1 DEF ScanStates
  <2> QED BY <2>1, <2>2, <1>1, <1>2 DEF ScanStates
<1> QED BY <1>6, <1>7, <1>8, <1>9, <1>10, <1>11, <1>12 DEF ScanStep

(* What a scan does to sweeps and filters                                     *)
LEMMA SweepsOfSteps ==
  ASSUME ScanTypeOK, NEW r \in Request, ScanStep(r)
  PROVE  \/ /\ UNCHANGED <<deaf, sweeping, outlived>>
            /\ scan[r].pc \in Asking => scan'[r].pc \in Asking
         \/ /\ UNCHANGED <<deaf, sweeping>> /\ Cleanup(r) /\ scan[r].target \in Iface
         \/ /\ ~Sweeps(MyRadio(r)) /\ scan[r].target \in Iface
            /\ sweeping' = sweeping \cup {scan[r].target} /\ deaf' = Deafened(MyRadio(r))
            /\ scan'[r].pc \in Asking /\ scan'[r].target = scan[r].target
            /\ UNCHANGED outlived
         \/ /\ scan[r].pc \notin Asking /\ UNCHANGED deaf
            /\ \E i \in Iface : SweepOver(i, deaf)
         \/ /\ scan[r].pc = "restore" /\ Cleared(MyRadio(r)) /\ UNCHANGED sweeping
            /\ scan[r].target \in Iface
<1> USE DEF Asking, At
<1>1. /\ scan \in [Request -> ScanStates] /\ scan[r] \in ScanStates
      /\ scan[r].pc # "idle" => scan[r].target \in Iface
      /\ Monitor \subseteq Iface
  BY DEF ScanTypeOK, Iface
<1>2. CASE Begin(r)
  BY <1>1, <1>2, BeginChooses DEF Begin, radios
<1>3. CASE Look(r) \/ CheckCaptures(r) \/ Claim(r) \/ ReadState(r) \/ Release(r)
  BY <1>1, <1>3 DEF Look, CheckCaptures, Claim, ReadState, Release, radios
<1>4. CASE Pause(r)
  BY <1>1, <1>4 DEF Pause, SetDown, ScanStates
<1>5. CASE Raise(r)
  BY <1>1, <1>5 DEF Raise, SetUp
<1>6. CASE Trigger(r)
  <2>1. CASE Cleanup(r)
    <3>1. scan'[r].pc \in {"lower", "restore"}
      BY <1>1, <2>1 DEF Cleanup, ScanStates
    <3>2. ~ScanGoto(r, "poll") /\ ~ScanGoto(r, "await")
      BY <1>1, <3>1 DEF ScanGoto, ScanStates
    <3>3. UNCHANGED <<deaf, sweeping>>
      BY <1>6, <3>2 DEF Trigger
    <3>4. scan[r].target \in Iface
      BY <1>1, <1>6 DEF Trigger
    <3> QED BY <2>1, <3>3, <3>4
  <2>2. CASE ~Cleanup(r)
    <3>1. \/ scan[r].pc = "wpa" /\ ScanGoto(r, "poll")
          \/ scan[r].pc = "iw" /\ ScanGoto(r, "await")
      BY <1>6, <2>2 DEF Trigger
    <3>2. scan'[r].pc \in Asking /\ scan'[r].target = scan[r].target
      BY <1>1, <3>1 DEF ScanGoto, ScanStates
    <3> QED BY <1>1, <1>6, <2>2, <3>2 DEF Trigger
  <2> QED BY <2>1, <2>2
<1>7. CASE FallBack(r)
  <2>1. scan'[r].pc = "iw"
    BY <1>1, <1>7 DEF FallBack, ScanGoto, ScanStates
  <2> QED BY <1>7, <2>1 DEF FallBack, radios
<1>8. CASE ScanEnds(r)
  BY <1>1, <1>8 DEF ScanEnds
<1>9. CASE Lower(r)
  BY <1>1, <1>9 DEF Lower, SetDown
<1>10. CASE Restore(r)
  BY <1>1, <1>10 DEF Restore, SetUp
<1>11. CASE Hear(r)
  BY <1>1, <1>11 DEF Hear, Clear
<1> QED BY <1>2, <1>3, <1>4, <1>5, <1>6, <1>7, <1>8, <1>9, <1>10, <1>11 DEF ScanStep

LEMMA RadioTypes ==
  ASSUME ScanTypeOK, [ScanNext]_scanVars
  PROVE  deaf' \subseteq Radio /\ sweeping' \subseteq Iface /\ outlived' \subseteq Radio
<1>0. /\ \A i \in Iface : On[i] \in Radio
      /\ deaf \subseteq Radio /\ sweeping \subseteq Iface /\ outlived \subseteq Radio
  BY ScansAssumption DEF ScanTypeOK
<1>1. ASSUME NEW r \in Request, ScanStep(r)
      PROVE  deaf' \subseteq Radio /\ sweeping' \subseteq Iface /\ outlived' \subseteq Radio
  BY <1>0, <1>1, SweepsOfSteps DEF Cleanup, MyRadio, Deafened, SweepOver, Cleared
<1>2. CASE \E i \in Iface : SweepEnds(i)
  BY <1>0, <1>2 DEF SweepEnds, Deafened, SweepOver
<1>3. CASE \E m \in Monitor : CaptureBegins(m)
  BY <1>0, <1>3 DEF CaptureBegins, Cleared
<1>4. CASE UNCHANGED <<deaf, sweeping, outlived>>
  BY <1>0, <1>4
<1> QED BY <1>1, <1>2, <1>3, <1>4 DEF ScanNext, CaptureEnds, Crash, scanVars, radios

LEMMA ScanTypesStep ==
  ASSUME ScanTypeOK, [ScanNext]_scanVars
  PROVE  ScanTypeOK'
<1> USE ScansAssumption, RadioTypes DEF ScanTypeOK
<1>1. ASSUME NEW r \in Request, ScanStep(r)
      PROVE  ScanTypeOK'
  <2>1. /\ scan' \in [Request -> ScanStates]
        /\ \A q \in Request \ {r} : scan'[q] = scan[q]
    BY <1>1, ScanStepEffect
  <2>2. ASSUME scan'[r].target = scan[r].target, scan[r].pc # "idle"
        PROVE  \A q \in Request : scan'[q].pc # "idle" => scan'[q].target \in Iface
    BY <2>1, <2>2
  <2>3. CASE Begin(r)
    BY <2>1, <2>3, BeginChooses DEF Fails, Works, ScanStates, radios
  <2>4. CASE Look(r)
    <3>1. scan[r].pc = "look" /\ scan'[r].target = scan[r].target
      BY <2>4 DEF Look, At, ScanStates
    <3> QED BY <3>1, <2>1, <2>2, <2>4 DEF Look, Fails, Works, MyRadio, radios
  <2>5. CASE CheckCaptures(r)
    <3>1. scan[r].pc = "check" /\ (scan'[r] = NoScan \/ scan'[r].target = scan[r].target)
      BY <2>5 DEF CheckCaptures, ScanDone, ScanGoto, At, ScanStates
    <3>2. late' \in [Monitor -> SUBSET Request]
      BY <2>5 DEF CheckCaptures, ScanDone
    <3> QED BY <3>1, <3>2, <2>1, <2>2, <2>5 DEF CheckCaptures, Fails, Works, NoScan, radios
  <2>6. CASE Claim(r)
    <3>1. scan[r].pc = "claim" /\ (scan'[r] = NoScan \/ scan'[r].target = scan[r].target)
      BY <2>6 DEF Claim, ScanDone, ScanGoto, At, ScanStates
    <3>2. late' \in [Monitor -> SUBSET Request]
      BY <2>6 DEF Claim, ScanDone
    <3>3. Keys(r) \subseteq Iface \cup {Place[p] : p \in Radio}
      BY <3>1 DEF Keys, MyRadio, ScanStates, Iface
    <3> QED BY <3>1, <3>2, <3>3, <2>1, <2>2, <2>6 DEF Claim, NoScan, radios
  <2>7. CASE ReadState(r)
    <3>1. scan[r].pc = "state" /\ scan'[r].target = scan[r].target
      BY <2>7 DEF ReadState, ScanGoto, At, ScanStates
    <3> QED BY <3>1, <2>1, <2>2, <2>7 DEF ReadState, Fails, Works, radios
  <2>8. CASE Pause(r)
    <3>1. scan[r].pc = "pause" /\ scan'[r].target = scan[r].target
      BY <2>8 DEF Pause, Cleanup, At, ScanStates
    <3>2. /\ up' \subseteq Iface /\ captured' \subseteq Monitor
          /\ late' \in [Monitor -> SUBSET Request]
      BY <2>8 DEF Pause, SetDown, CaptureGone
    <3> QED BY <3>1, <3>2, <2>1, <2>2, <2>8 DEF Pause, Fails, Works
  <2>9. CASE Raise(r)
    <3>1. scan[r].pc = "pause" /\ scan'[r].target = scan[r].target
      BY <2>9 DEF Raise, ScanGoto, Cleanup, At, ScanStates
    <3>2. up' \subseteq Iface /\ UNCHANGED <<captured, late>>
      BY <3>1, <2>9 DEF Raise, SetUp
    <3> QED BY <3>1, <3>2, <2>1, <2>2, <2>9 DEF Raise, Fails, Works
  <2>10. CASE FallBack(r)
    <3>1. scan[r].pc # "idle" /\ scan'[r].target = scan[r].target
      BY <2>10 DEF FallBack, ScanGoto, ScanStates
    <3> QED BY <3>1, <2>1, <2>2, <2>10 DEF FallBack, radios
  <2>11. CASE Trigger(r) \/ ScanEnds(r)
    <3>1. scan[r].pc # "idle" /\ scan'[r].target = scan[r].target
      BY <2>11 DEF Trigger, ScanEnds, ScanGoto, Cleanup, At, ScanStates
    <3> QED BY <3>1, <2>1, <2>2, <2>11 DEF Trigger, ScanEnds, Fails, Works
  <2>12. CASE Lower(r)
    <3>1. scan[r].pc = "lower" /\ scan'[r].target = scan[r].target
      BY <2>12 DEF Lower, ScanGoto, At, ScanStates
    <3>2. /\ up' \subseteq Iface /\ captured' \subseteq Monitor
          /\ late' \in [Monitor -> SUBSET Request]
      BY <2>12 DEF Lower, SetDown, CaptureGone
    <3> QED BY <3>1, <3>2, <2>1, <2>2, <2>12 DEF Lower, Fails, Works
  <2>13. CASE Restore(r)
    <3>1. scan[r].pc = "restore" /\ scan'[r].target = scan[r].target
      BY <2>13 DEF Restore, KeepsGoing, At, ScanStates
    <3>2. scan[r].todo \subseteq Iface
      BY DEF ScanStates, Iface
    <3>3. up' \subseteq Iface /\ UNCHANGED <<captured, late>>
      BY <3>2, <2>13 DEF Restore, SetUp
    <3> QED BY <3>1, <3>2, <3>3, <2>1, <2>2, <2>13 DEF Restore, Fails, Works
  <2>14. CASE Hear(r)
    <3>1. scan[r].pc = "restore" /\ scan'[r].target = scan[r].target
      BY <2>14 DEF Hear, ScanGoto, At, ScanStates
    <3> QED BY <3>1, <2>1, <2>2, <2>14 DEF Hear, Clear, Fails, Works, MyRadio
  <2>15. CASE Release(r)
    <3>1. scan'[r] = NoScan /\ late' \in [Monitor -> SUBSET Request]
      BY <2>15 DEF Release, ScanDone
    <3> QED BY <3>1, <2>1, <2>15 DEF Release, NoScan, radios
  <2> QED BY <1>1, <2>3, <2>4, <2>5, <2>6, <2>7, <2>8, <2>9, <2>10, <2>11, <2>12, <2>13,
             <2>14, <2>15 DEF ScanStep
<1>2. ASSUME NEW m \in Monitor, CaptureBegins(m) \/ CaptureEnds(m)
      PROVE  ScanTypeOK'
  BY <1>2 DEF CaptureBegins, CaptureEnds, CaptureGone, radios
<1>3. CASE Crash
  <2>1. NoScan \in ScanStates /\ NoScan.pc = "idle"
    BY DEF NoScan, ScanStates, Steps
  <2>2. ASSUME NEW r \in Request, Looked(r)
        PROVE  {scan[r].target, MyRadio(r)} \cup scan[r].paused \subseteq Iface \cup Radio
    BY <2>2 DEF Looked, MyRadio, ScanStates, Iface
  <2> QED BY <2>1, <2>2, <1>3 DEF Crash, Fails, radios
<1>4. CASE UNCHANGED scanVars \/ \E i \in Iface : SweepEnds(i)
  BY <1>4 DEF scanVars, SweepEnds
<1> QED BY <1>1, <1>2, <1>3, <1>4 DEF ScanNext

(* Failures and exemptions only accumulate, and drivers stay                  *)
LEMMA SpoiledGrows ==
  ASSUME [ScanNext]_scanVars
  PROVE  /\ spoiled \subseteq spoiled'
         /\ UNCHANGED <<drivers, found>>
<1>1. ASSUME NEW r \in Request, ScanStep(r)
      PROVE  spoiled \subseteq spoiled' /\ UNCHANGED <<drivers, found>>
  BY <1>1 DEF ScanStep, Begin, Look, CheckCaptures, Claim, ReadState, Pause, Raise, Trigger,
     FallBack, ScanEnds, Lower, Restore, Hear, Clear, Release, Fails, Works, radios
<1>2. ASSUME NEW m \in Monitor, CaptureBegins(m) \/ CaptureEnds(m)
      PROVE  spoiled \subseteq spoiled' /\ UNCHANGED <<drivers, found>>
  BY <1>2 DEF CaptureBegins, CaptureEnds, radios
<1>3. CASE Crash
  BY <1>3 DEF Crash, Fails, radios
<1>4. CASE UNCHANGED scanVars \/ \E i \in Iface : SweepEnds(i)
  BY <1>4 DEF scanVars, SweepEnds
<1> QED BY <1>1, <1>2, <1>3, <1>4 DEF ScanNext

LEMMA RemembersStep ==
  ASSUME ScanTypeOK, \A q \in Request : Remembers(q), [ScanNext]_scanVars
  PROVE  \A q \in Request : Remembers(q)'
<1>0. /\ spoiled \subseteq spoiled'
      /\ UNCHANGED <<drivers, found>>
  BY SpoiledGrows
<1>1. ASSUME NEW q \in Request, scan'[q] = scan[q]
      PROVE  Remembers(q)'
  BY <1>0, <1>1 DEF Remembers, MyRadio, Intel
<1>2. ASSUME NEW q \in Request, scan'[q] = NoScan
      PROVE  Remembers(q)'
  BY <1>2 DEF Remembers, NoScan
<1>3. ASSUME NEW r \in Request, ScanStep(r)
      PROVE  Remembers(r)'
  <2> USE DEF Remembers, ScanTypeOK, MyRadio, Intel
  <2>1. CASE Begin(r)
    <3>1. PICK t \in Iface, driver \in Drivers \cup {"unknown"}, s \in ScanStates :
              /\ t \in Monitor => ManagedSiblings(t, Iface) = {}
              /\ driver \in DriverRead(t)
              /\ IF driver = "unknown" THEN Fails({On[t]}) ELSE Works
              /\ scan' = [scan EXCEPT ![r] = s]
              /\ s.pc = (IF driver = "iwlwifi" THEN "look" ELSE "claim")
              /\ s.target = t /\ s.driver = driver
              /\ s.paused = {} /\ s.todo = {} /\ s.was
      BY <2>1, BeginChooses
    <3>2. scan'[r] = s
      BY <3>1
    <3>3. driver = "unknown" => On[t] \in spoiled'
      BY <3>1 DEF Fails
    <3> QED BY <1>0, <3>1, <3>2, <3>3 DEF DriverRead
  <2>2. CASE Look(r)
    <3>1. PICK P \in {UpSiblings(scan[r].target), {}} :
            scan' = [scan EXCEPT ![r].paused = P,
                                 ![r].pc = IF P = {} THEN "claim" ELSE "check"]
      BY <2>2 DEF Look
    <3>2. \A m \in P : m # scan[r].target /\ On[m] = MyRadio(r)
      BY DEF UpSiblings
    <3>3. scan[r].pc = "look"
      BY <2>2 DEF Look, At
    <3> QED BY <1>0, <3>1, <3>2, <3>3 DEF ScanStates
  <2>3. ASSUME scan'[r].target = scan[r].target, scan'[r].driver = scan[r].driver,
               scan'[r].paused = scan[r].paused, scan'[r].todo \subseteq scan[r].paused,
               scan[r].pc # "idle", scan'[r].pc \notin {"idle", "look", "check"},
               scan'[r].pc \in {"claim", "state"} => scan'[r].was,
               scan'[r].pc = "lower" => ~scan'[r].was
        PROVE  Remembers(r)'
    BY <1>0, <2>3
  <2>4. /\ scan[r] \in ScanStates /\ scan[r].todo \subseteq scan[r].paused
        /\ scan[r].pc \in {"check", "claim"} => scan[r].was
    OBVIOUS
  <2> HIDE DEF Remembers
  <2>5. CASE CheckCaptures(r) \/ Claim(r)
    <3>1. CASE ScanDone(r)
      BY <1>2, <3>1 DEF ScanDone
    <3>2. CASE ScanGoto(r, "claim") \/ ScanGoto(r, "state")
      BY <2>5, <3>2, <2>3, <2>4 DEF CheckCaptures, Claim, ScanGoto, At, ScanStates
    <3> QED BY <2>5, <3>1, <3>2 DEF CheckCaptures, Claim
  <2>6. CASE ReadState(r)
    BY <2>6, <2>3, <2>4 DEF ReadState, ScanGoto, At, ScanStates
  <2>7. CASE Pause(r)
    BY <2>7, <2>3, <2>4 DEF Pause, Cleanup, At, ScanStates
  <2>8. CASE Raise(r)
    BY <2>8, <2>3, <2>4 DEF Raise, Scanners, ScanGoto, Cleanup, At, ScanStates
  <2>9. CASE FallBack(r) \/ Lower(r) \/ Hear(r)
    BY <2>9, <2>3, <2>4 DEF FallBack, Lower, Hear, ScanGoto, At, ScanStates
  <2>10. CASE Trigger(r) \/ ScanEnds(r)
    BY <2>10, <2>3, <2>4 DEF Trigger, ScanEnds, ScanGoto, Cleanup, At, ScanStates
  <2>11. CASE Restore(r)
    BY <2>11, <2>3, <2>4 DEF Restore, KeepsGoing, At, ScanStates
  <2>12. CASE Release(r)
    BY <1>2, <2>12 DEF Release, ScanDone
  <2> QED BY <1>3, <2>1, <2>2, <2>5, <2>6, <2>7, <2>8, <2>9, <2>10, <2>11, <2>12
          DEF ScanStep
<1>4. ASSUME NEW r \in Request, ScanStep(r)
      PROVE  \A q \in Request : Remembers(q)'
  BY <1>1, <1>3, <1>4, ScanStepEffect
<1>5. ASSUME NEW m \in Monitor, CaptureBegins(m) \/ CaptureEnds(m)
      PROVE  \A q \in Request : Remembers(q)'
  BY <1>1, <1>5 DEF CaptureBegins, CaptureEnds
<1>6. CASE Crash
  BY <1>2, <1>6 DEF Crash
<1>7. CASE UNCHANGED scanVars \/ \E i \in Iface : SweepEnds(i)
  BY <1>1, <1>7 DEF scanVars, SweepEnds
<1> QED BY <1>4, <1>5, <1>6, <1>7 DEF ScanNext

-------------------------------------------------------------------------------
(* The claims.                                                             *)

(* The steps of a scan between its claim and its release                      *)
Inside(r) ==
  ReadState(r) \/ Pause(r) \/ Raise(r) \/ Trigger(r) \/ FallBack(r) \/ ScanEnds(r) \/ Lower(r)
    \/ Restore(r) \/ Hear(r)

LEMMA InsideKeepsPlan ==
  ASSUME ScanTypeOK, NEW r \in Request, Inside(r)
  PROVE  /\ scan'[r].target = scan[r].target
         /\ scan'[r].driver = scan[r].driver
         /\ scan'[r].paused = scan[r].paused
         /\ Claims(r) /\ Claims(r)'
         /\ UNCHANGED <<active, drivers, found>>
<1> USE DEF Claims, Looked, At
<1>1. scan \in [Request -> ScanStates] /\ scan[r] \in ScanStates
  BY DEF ScanTypeOK
<1>2. CASE ReadState(r)
  BY <1>1, <1>2 DEF ReadState, ScanGoto, ScanStates, radios
<1>3. CASE Pause(r)
  BY <1>1, <1>3 DEF Pause, Cleanup, ScanStates
<1>4. CASE Raise(r)
  BY <1>1, <1>4 DEF Raise, Scanners, ScanGoto, Cleanup, ScanStates
<1>5. CASE FallBack(r) \/ Lower(r) \/ Hear(r)
  BY <1>1, <1>5 DEF FallBack, Lower, Hear, ScanGoto, ScanStates, radios
<1>6. CASE Trigger(r) \/ ScanEnds(r)
  BY <1>1, <1>6 DEF Trigger, ScanEnds, ScanGoto, Cleanup, ScanStates
<1>7. CASE Restore(r)
  BY <1>1, <1>7 DEF Restore, KeepsGoing, ScanStates
<1> QED BY <1>2, <1>3, <1>4, <1>5, <1>6, <1>7 DEF Inside

(* Before its claim a scan has changed nothing                                *)
LEMMA OutsideClaimsNothing ==
  ASSUME ScanTypeOK, NEW r \in Request, Begin(r) \/ Look(r) \/ CheckCaptures(r)
  PROVE  /\ ~Claims(r)'
         /\ UNCHANGED <<active, up, captured>>
<1> USE DEF Claims, Looked, At
<1>1. CASE Begin(r)
  BY <1>1, BeginChooses DEF ScanTypeOK
<1>2. CASE Look(r)
  BY <1>2 DEF Look, ScanTypeOK, ScanStates
<1>3. CASE CheckCaptures(r)
  BY <1>3 DEF CheckCaptures, ScanDone, ScanGoto, NoScan, ScanTypeOK, ScanStates
<1> QED BY <1>1, <1>2, <1>3

LEMMA KeysHeldStep ==
  ASSUME ScanTypeOK, KeysHeld, [ScanNext]_scanVars
  PROVE  KeysHeld'
<1> USE DEF KeysHeld
<1>1. ASSUME NEW q \in Request, scan'[q] = scan[q]
      PROVE  Keys(q)' = Keys(q) /\ Claims(q)' = Claims(q)
  BY <1>1 DEF Keys, Intel, MyRadio, Claims, Looked, At
<1>2. ASSUME NEW r \in Request, ScanStep(r)
      PROVE  KeysHeld'
  <2>1. \A q \in Request \ {r} : Keys(q)' = Keys(q) /\ Claims(q)' = Claims(q)
    BY <1>1, <1>2, ScanStepEffect
  <2>2. CASE Begin(r) \/ Look(r) \/ CheckCaptures(r)
    BY <2>1, <2>2, OutsideClaimsNothing
  <2>3. CASE Claim(r)
    <3>1. CASE Keys(r) \cap active = {}
      <4>1. Keys(r)' = Keys(r) /\ active' = active \cup Keys(r)
        BY <2>3, <3>1 DEF Claim, ScanGoto, Keys, Intel, MyRadio, ScanTypeOK, ScanStates
      <4> QED BY <2>1, <3>1, <4>1
    <3>2. CASE Keys(r) \cap active # {}
      <4>1. ~Claims(r)' /\ UNCHANGED active
        BY <2>3, <3>2 DEF Claim, ScanDone, NoScan, Claims, Looked, At, ScanTypeOK
      <4> QED BY <2>1, <4>1
    <3> QED BY <3>1, <3>2
  <2>4. CASE Inside(r)
    <3>1. Keys(r)' = Keys(r)
      BY <2>4, InsideKeepsPlan DEF Keys, Intel, MyRadio
    <3> QED BY <2>1, <2>4, <3>1, InsideKeepsPlan
  <2>5. CASE Release(r)
    <3>1. ~Claims(r)' /\ active' = active \ Keys(r)
      BY <2>5 DEF Release, ScanDone, NoScan, Claims, Looked, At, ScanTypeOK
    <3>2. Claims(r)
      BY <2>5 DEF Release, Claims, Looked, At
    <3> QED BY <2>1, <3>1, <3>2
  <2> QED BY <1>2, <2>2, <2>3, <2>4, <2>5 DEF ScanStep, Inside
<1>3. ASSUME NEW m \in Monitor, CaptureBegins(m) \/ CaptureEnds(m)
      PROVE  KeysHeld'
  BY <1>1, <1>3 DEF CaptureBegins, CaptureEnds
<1>4. CASE Crash
  BY <1>4 DEF Crash, NoScan, Claims, Looked, At
<1>5. CASE UNCHANGED scanVars \/ \E i \in Iface : SweepEnds(i)
  BY <1>1, <1>5 DEF scanVars, SweepEnds
<1> QED BY <1>2, <1>3, <1>4, <1>5 DEF ScanNext

-------------------------------------------------------------------------------
(* The captures.                                                           *)

(* An interface goes down with the capture on it and its history              *)
LEMMA CapturesEndWithLinks ==
  ASSUME ScanTypeOK, CapturesKnown, NEW i \in Iface, SetDown(i),
         \A r \in Request : Looked(r)' =>
           /\ Looked(r) /\ scan'[r].paused = scan[r].paused
           /\ scan'[r].target = scan[r].target /\ scan'[r].was = scan[r].was
  PROVE  CapturesKnown'
BY DEF CapturesKnown, SetDown, CaptureGone, ScanTypeOK

LEMMA CapturesKnownStep ==
  ASSUME ScanTypeOK, \A q \in Request : Remembers(q), CapturesKnown, [ScanNext]_scanVars
  PROVE  CapturesKnown'
<1> USE DEF Looked
<1>1. ASSUME NEW r \in Request, ScanStep(r)
      PROVE  CapturesKnown'
  <2>1. /\ \A q \in Request \ {r} : scan'[q] = scan[q]
        /\ scan \in [Request -> ScanStates] /\ scan[r] \in ScanStates
    BY <1>1, ScanStepEffect DEF ScanTypeOK
  <2>2. ASSUME up \subseteq up', captured' = captured,
               \A m \in Monitor, q \in Request \ {r} : q \in late[m] => q \in late'[m],
               Looked(r)' => UNCHANGED late,
               Looked(r)' => \A m \in captured :
                 m \in scan'[r].paused \/ (m = scan'[r].target /\ ~scan'[r].was)
                   => r \in late[m]
        PROVE  CapturesKnown'
    BY <2>1, <2>2 DEF CapturesKnown, ScanTypeOK
  <2>3. CASE Begin(r)
    <3>1. scan'[r].pc # "look" => scan'[r].paused = {} /\ scan'[r].was
      BY <2>1, <2>3, BeginChooses
    <3> QED BY <2>2, <2>3, <3>1, BeginChooses
  <2>4. CASE Look(r)
    <3>1. Looked(r)' => scan'[r].paused = {} /\ scan'[r].was
      BY <2>1, <2>4 DEF Look, At, Remembers, ScanStates
    <3> QED BY <2>2, <2>4, <3>1 DEF Look
  <2>5. CASE CheckCaptures(r)
    <3>1. CASE ScanDone(r)
      BY <2>1, <2>2, <2>5, <3>1 DEF CheckCaptures, ScanDone, NoScan
    <3>2. CASE ~ScanDone(r)
      <4>1. scan[r].paused \cap captured = {} /\ scan'[r].paused = scan[r].paused /\ scan'[r].was
        BY <2>1, <2>5, <3>2 DEF CheckCaptures, Free, ScanGoto, At, Remembers, ScanStates
      <4> QED BY <2>2, <2>5, <3>2, <4>1 DEF CheckCaptures
    <3> QED BY <3>1, <3>2
  <2>6. CASE Claim(r)
    <3>1. CASE ScanDone(r)
      BY <2>1, <2>2, <2>6, <3>1 DEF Claim, ScanDone, NoScan
    <3>2. CASE ~ScanDone(r)
      <4>1. /\ scan[r].pc = "claim" /\ UNCHANGED <<late, up, captured>>
            /\ scan'[r].paused = scan[r].paused /\ scan'[r].was = scan[r].was
            /\ scan'[r].target = scan[r].target
        BY <2>1, <2>6, <3>2 DEF Claim, ScanGoto, At, ScanStates
      <4> QED BY <2>2, <4>1 DEF CapturesKnown
    <3> QED BY <3>1, <3>2
  <2>7. CASE ReadState(r)
    <3>1. /\ scan[r].pc = "state" /\ UNCHANGED <<late, up, captured>>
          /\ scan'[r].paused = scan[r].paused
          /\ scan'[r].was \/ ~(scan'[r].target \in up)
      BY <2>1, <2>7 DEF ReadState, ScanGoto, At, Remembers, ScanStates
    <3> QED BY <2>2, <3>1 DEF CapturesKnown
  <2>8. CASE Inside(r) /\ ~ReadState(r)
    <3>1. scan'[r].was = scan[r].was
      <4>1. CASE Pause(r) \/ Raise(r)
        BY <2>1, <4>1 DEF Pause, Raise, ScanGoto, Cleanup, ScanStates
      <4>2. CASE Trigger(r) \/ FallBack(r) \/ ScanEnds(r)
        BY <2>1, <4>2 DEF Trigger, FallBack, ScanEnds, ScanGoto, Cleanup, ScanStates
      <4>3. CASE Lower(r) \/ Restore(r) \/ Hear(r)
        BY <2>1, <4>3 DEF Lower, Restore, KeepsGoing, Hear, ScanGoto, ScanStates
      <4> QED BY <2>8, <4>1, <4>2, <4>3 DEF Inside
    <3>2. /\ Looked(r) /\ scan'[r].target = scan[r].target /\ scan'[r].paused = scan[r].paused
          /\ scan[r].target \in Iface
      BY <2>8, InsideKeepsPlan DEF Claims, ScanTypeOK
    <3>3. ASSUME NEW i \in Iface, SetDown(i)
          PROVE  CapturesKnown'
      BY <2>1, <3>1, <3>2, <3>3, CapturesEndWithLinks
    <3>4. ASSUME up \subseteq up', UNCHANGED <<captured, late>>
          PROVE  CapturesKnown'
      BY <2>2, <3>1, <3>2, <3>4 DEF CapturesKnown
    <3>5. scan[r].todo \subseteq Iface
      BY <2>1 DEF ScanStates, Iface
    <3> QED BY <2>8, <3>2, <3>3, <3>4, <3>5 DEF Inside, Pause, Raise, SetUp, Trigger, FallBack,
            ScanEnds, Lower, Restore, Hear
  <2>9. CASE Release(r)
    BY <2>1, <2>2, <2>9 DEF Release, ScanDone, NoScan
  <2> QED BY <1>1, <2>3, <2>4, <2>5, <2>6, <2>7, <2>8, <2>9 DEF ScanStep, Inside
<1>2. ASSUME NEW m \in Monitor, CaptureBegins(m)
      PROVE  CapturesKnown'
  BY <1>2 DEF CaptureBegins, CapturesKnown, ScanTypeOK
<1>3. ASSUME NEW m \in Monitor, CaptureEnds(m)
      PROVE  CapturesKnown'
  BY <1>3 DEF CaptureEnds, CaptureGone, CapturesKnown, ScanTypeOK
<1>4. CASE Crash
  BY <1>4 DEF Crash, NoScan, CapturesKnown
<1>5. CASE UNCHANGED scanVars \/ \E i \in Iface : SweepEnds(i)
  BY <1>5 DEF scanVars, SweepEnds, CapturesKnown
<1> QED BY <1>1, <1>2, <1>3, <1>4, <1>5 DEF ScanNext

-------------------------------------------------------------------------------
(* The links.                                                              *)

LEMMA ExemptGrows ==
  ASSUME [ScanNext]_scanVars
  PROVE  Exempt \subseteq Exempt'
<1>1. spoiled \subseteq spoiled' /\ drivers' = drivers
  BY SpoiledGrows
<1>2. Stranded' = Stranded
  BY <1>1 DEF Stranded, ManagedSiblings
<1> QED BY <1>1, <1>2 DEF Exempt

(* A step of scan `r` changes no link but of what it holds                    *)
LEMMA OnlyHeldChange ==
  ASSUME ScanTypeOK, \A q \in Request : Remembers(q), NEW r \in Request, ScanStep(r)
  PROVE  /\ ~Claims(r) => up' = up
         /\ \A i \in Iface \ Held(r) : i \in up' <=> i \in up
<1>1. scan \in [Request -> ScanStates] /\ scan[r] \in ScanStates
  BY DEF ScanTypeOK
<1>2. CASE Begin(r) \/ Look(r) \/ CheckCaptures(r)
  BY <1>2, OutsideClaimsNothing
<1>3. CASE Claim(r) \/ Release(r)
  BY <1>3 DEF Claim, Release
<1>4. CASE Inside(r)
  <2>1. Claims(r)
    BY <1>4, InsideKeepsPlan
  <2>2. scan[r].todo \subseteq Held(r)
    BY DEF Held, Remembers
  <2>3. CASE Pause(r)
    BY <1>1, <2>1, <2>2, <2>3 DEF Pause, SetDown, Held
  <2>4. CASE Raise(r) \/ Lower(r)
    BY <1>1, <2>1, <2>4 DEF Raise, Lower, SetUp, SetDown, Held
  <2>5. CASE Restore(r)
    BY <1>1, <2>1, <2>2, <2>5 DEF Restore, SetUp, Held
  <2>6. CASE ReadState(r) \/ Trigger(r) \/ FallBack(r) \/ ScanEnds(r) \/ Hear(r)
    BY <2>1, <2>6 DEF ReadState, Trigger, FallBack, ScanEnds, Hear
  <2> QED BY <1>4, <2>3, <2>4, <2>5, <2>6 DEF Inside
<1> QED BY <1>2, <1>3, <1>4 DEF ScanStep, Inside

(* ... and so leaves alone what the other scans know of theirs                *)
LEMMA OthersUndisturbed ==
  ASSUME ScanInvariant, NEW r \in Request, ScanStep(r), NEW q \in Request \ {r}
  PROVE  PutsBack(q)'
<1> USE DEF ScanInvariant
<1>1. Exempt \subseteq Exempt' /\ found' = found /\ scan'[q] = scan[q] /\ PutsBack(q)
  BY ExemptGrows, SpoiledGrows, ScanStepEffect DEF LinksKnown, ScanNext
<1>2. CASE Claims(q)
  <2>1. ASSUME NEW i \in Held(q)
        PROVE  i \in up' <=> i \in up
    <3>1. CASE Claims(r)
      <4>1. i \in Iface /\ i \notin Held(r)
        BY <1>2, <2>1, <3>1 DEF KeysHeld, Keys, Held, ScanTypeOK, ScanStates, Iface, Claims, Looked
      <4> QED BY <4>1, OnlyHeldChange
    <3>2. CASE ~Claims(r)
      BY <3>2, OnlyHeldChange
    <3> QED BY <3>1, <3>2
  <2> QED BY <1>1, <2>1 DEF PutsBack, AsFound, Held, Claims, Looked, At
<1>3. CASE ~Claims(q)
  <2>1. scan[q].pc \in {"idle", "look", "check", "claim"}
    BY <1>3 DEF Claims, Looked, At
  <2>2. ~Claims(q)'
    BY <1>1, <1>3 DEF Claims, Looked, At
  <2> QED BY <1>1, <2>1, <2>2 DEF PutsBack
<1> QED BY <1>2, <1>3

(* A scan that has its claim finds its links as they were before any scan     *)
LEMMA ClaimFindsLinks ==
  ASSUME ScanInvariant, NEW r \in Request, ~Claims(r), scan[r].pc # "idle",
         Keys(r) \cap active = {}, NEW i \in Held(r)
  PROVE  AsFound(i)
<1>1. i \in Iface
  BY DEF Held, ScanInvariant, ScanTypeOK, ScanStates, Iface
<1>2. ASSUME NEW q \in Request, Claims(q)
      PROVE  i \notin Held(q)
  BY <1>2 DEF Held, Keys, KeysHeld, ScanInvariant
<1> QED BY <1>1, <1>2 DEF LinksKnown, ScanInvariant

LEMMA OwnLinksKnown ==
  ASSUME ScanInvariant, NEW r \in Request, ScanStep(r)
  PROVE  PutsBack(r)'
<1>1. /\ scan \in [Request -> ScanStates] /\ scan[r] \in ScanStates
      /\ Exempt \subseteq Exempt' /\ found' = found
      /\ Remembers(r) /\ PutsBack(r)
  BY ExemptGrows, SpoiledGrows DEF ScanInvariant, ScanTypeOK, LinksKnown, ScanNext
<1>2. CASE Begin(r)
  <2>1. scan'[r].paused = {} /\ scan'[r].pc \in {"look", "claim"}
    BY <1>1, <1>2, BeginChooses DEF ScanInvariant
  <2> QED BY <2>1 DEF PutsBack, Claims, Looked, At
<1>3. CASE Look(r)
  <2>1. /\ scan[r].pc = "look" /\ scan'[r].pc \in {"check", "claim"}
        /\ scan'[r].paused \subseteq UpSiblings(scan[r].target)
    BY <1>1, <1>3 DEF Look, At, ScanStates
  <2>2. ASSUME NEW m \in UpSiblings(scan[r].target)
        PROVE  m \in found \cup Exempt
    <3>1. drivers[On[m]] = "iwlwifi"
      BY <1>1, <2>1 DEF UpSiblings, Remembers, Intel, MyRadio
    <3>2. Pausable(m)
      BY <1>1, <2>1 DEF UpSiblings, Pausable, ScanInvariant, ScanTypeOK
    <3> QED BY <3>1, <3>2 DEF UpSiblings, ScanInvariant, LinksKnown
  <2> QED BY <1>1, <2>1, <2>2 DEF PutsBack, Claims, Looked, At
<1>4. ASSUME ScanDone(r)
      PROVE  PutsBack(r)'
  BY <1>1, <1>4 DEF ScanDone, NoScan, PutsBack, Claims, Looked, At
<1>5. CASE CheckCaptures(r)
  <2>1. CASE ScanGoto(r, "claim")
    BY <1>1, <2>1 DEF ScanGoto, PutsBack, Claims, Looked, At, ScanStates
  <2> QED BY <1>4, <1>5, <2>1 DEF CheckCaptures
<1>6. CASE Claim(r)
  <2>1. CASE Keys(r) \cap active = {}
    <3>1. scan[r].pc = "claim" /\ ScanGoto(r, "state") /\ UNCHANGED <<up, spoiled, drivers, found>>
      BY <1>6, <2>1 DEF Claim, At, radios
    <3>2. \A i \in Held(r) : AsFound(i)
      BY <2>1, <3>1, ClaimFindsLinks DEF Claims, Looked, At
    <3>3. /\ scan'[r].paused = scan[r].paused /\ scan'[r].target = scan[r].target
          /\ scan'[r].pc = "state"
      BY <1>1, <3>1 DEF ScanGoto, ScanStates
    <3> QED BY <1>1, <3>1, <3>2, <3>3 DEF PutsBack, AsFound, Held
  <2> QED BY <1>4, <1>6, <2>1 DEF Claim
<1>7. CASE ReadState(r)
  <2>1. /\ scan[r].pc = "state" /\ UNCHANGED <<up, found>>
        /\ scan'[r].paused = scan[r].paused /\ scan'[r].target = scan[r].target
        /\ \/ scan'[r].pc = "pause" /\ (scan'[r].was <=> scan[r].target \in up)
           \/ scan'[r].pc = "release"
    BY <1>1, <1>7 DEF ReadState, ScanGoto, At, ScanStates
  <2>2. \A i \in Held(r) : AsFound(i)
    BY <1>1, <2>1 DEF PutsBack, Held, Claims, Looked, At
  <2>3. \A i \in Held(r) : AsFound(i)'
    BY <1>1, <2>1, <2>2 DEF AsFound
  <2> QED BY <1>1, <2>1, <2>2, <2>3 DEF PutsBack, Held, AsFound
<1>8. ASSUME Cleanup(r), UNCHANGED up,
             scan[r].pc \in {"pause", "wpa", "poll", "iw", "await"}
      PROVE  PutsBack(r)'
  <2>1. /\ scan'[r].paused = scan[r].paused /\ scan'[r].target = scan[r].target
        /\ scan'[r].was = scan[r].was /\ scan'[r].todo = scan[r].paused
        /\ scan'[r].pc = IF scan[r].was THEN "restore" ELSE "lower"
    BY <1>1, <1>8 DEF Cleanup, ScanStates
  <2> QED BY <1>1, <1>8, <2>1 DEF PutsBack, AsFound, Claims, Looked, At
<1>9. CASE Pause(r)
  <2>1. CASE Cleanup(r) /\ UNCHANGED up
    BY <1>8, <1>9, <2>1 DEF Pause, At
  <2>2. CASE ~(Cleanup(r) /\ UNCHANGED up)
    <3>1. PICK m \in scan[r].todo : SetDown(m) /\ scan' = [scan EXCEPT ![r].todo = @ \ {m}]
      BY <1>9, <2>2 DEF Pause
    <3>2. /\ scan'[r].paused = scan[r].paused /\ scan'[r].target = scan[r].target
          /\ scan'[r].was = scan[r].was /\ scan'[r].pc = "pause" /\ scan[r].pc = "pause"
      BY <1>1, <1>9, <3>1 DEF Pause, At, ScanStates
    <3>3. scan[r].target \in up' <=> scan[r].target \in up
      BY <1>1, <3>1, <3>2 DEF SetDown, Remembers
    <3> QED BY <1>1, <3>2, <3>3 DEF PutsBack, AsFound, Claims, Looked, At
  <2> QED BY <2>1, <2>2
<1>10. CASE Raise(r)
  <2>1. CASE Cleanup(r) /\ UNCHANGED up
    BY <1>8, <1>10, <2>1 DEF Raise, At
  <2>2. CASE ~(Cleanup(r) /\ UNCHANGED up)
    <3>1. /\ scan'[r].paused = scan[r].paused /\ scan'[r].target = scan[r].target
          /\ scan'[r].was = scan[r].was /\ scan'[r].pc \in {"wpa", "iw"} /\ scan[r].pc = "pause"
          /\ scan[r].was => up' = up
      BY <1>1, <1>10, <2>2 DEF Raise, Scanners, ScanGoto, At, ScanStates
    <3> QED BY <1>1, <3>1 DEF PutsBack, AsFound, Claims, Looked, At
  <2> QED BY <2>1, <2>2
<1>11. CASE FallBack(r)
  <2>1. /\ scan'[r].paused = scan[r].paused /\ scan'[r].target = scan[r].target
        /\ scan'[r].was = scan[r].was /\ scan'[r].pc = "iw" /\ scan[r].pc \in {"wpa", "poll"}
        /\ up' = up
    BY <1>1, <1>11 DEF FallBack, ScanGoto, At, ScanStates
  <2> QED BY <1>1, <2>1 DEF PutsBack, AsFound, Claims, Looked, At
<1>12. CASE Trigger(r) \/ ScanEnds(r)
  <2>1. CASE Cleanup(r)
    BY <1>8, <1>12, <2>1 DEF Trigger, ScanEnds, At
  <2>2. CASE ~Cleanup(r)
    <3>1. /\ scan'[r].paused = scan[r].paused /\ scan'[r].target = scan[r].target
          /\ scan'[r].was = scan[r].was /\ scan'[r].pc \in {"poll", "await"}
          /\ scan[r].pc \in {"wpa", "iw"} /\ up' = up
      BY <1>1, <1>12, <2>2 DEF Trigger, ScanEnds, ScanGoto, At, ScanStates
    <3> QED BY <1>1, <3>1 DEF PutsBack, AsFound, Claims, Looked, At
  <2> QED BY <2>1, <2>2
<1>13. CASE Lower(r)
  <2>1. /\ scan'[r].paused = scan[r].paused /\ scan'[r].target = scan[r].target
        /\ scan'[r].was = scan[r].was /\ scan'[r].pc = "restore" /\ scan[r].pc = "lower"
        /\ scan'[r].todo = scan[r].paused /\ ~scan[r].was
    BY <1>1, <1>13 DEF Lower, ScanGoto, At, ScanStates, Remembers, PutsBack
  <2>2. AsFound(scan[r].target)'
    BY <1>1, <1>13, <2>1 DEF Lower, SetDown, Fails, AsFound, Exempt, PutsBack
  <2> QED BY <1>1, <2>1, <2>2 DEF PutsBack, AsFound
<1>14. CASE Restore(r)
  <2>1. PICK m \in scan[r].todo :
          /\ SetUp(m) \/ (Fails({m}) /\ UNCHANGED up)
          /\ scan' = [scan EXCEPT ![r].todo = @ \ {m}]
    BY <1>14 DEF Restore, KeepsGoing
  <2>2. /\ scan'[r].paused = scan[r].paused /\ scan'[r].target = scan[r].target
        /\ scan'[r].was = scan[r].was /\ scan'[r].pc = "restore" /\ scan[r].pc = "restore"
        /\ scan'[r].todo = scan[r].todo \ {m}
    BY <1>1, <1>14, <2>1 DEF Restore, At, ScanStates
  <2>3. AsFound(m)'
    BY <1>1, <2>1 DEF SetUp, Fails, AsFound, Exempt, PutsBack, Remembers
  <2>4. \A i \in Held(r) \ {m} : AsFound(i) => AsFound(i)'
    BY <1>1, <2>1 DEF SetUp, AsFound
  <2> QED BY <1>1, <2>2, <2>3, <2>4 DEF PutsBack, Held, Claims, Looked, At
<1>15. CASE Hear(r)
  <2>1. /\ scan'[r].paused = scan[r].paused /\ scan'[r].target = scan[r].target
        /\ scan'[r].was = scan[r].was /\ scan'[r].pc = "release" /\ scan[r].pc = "restore"
        /\ scan[r].todo = {} /\ up' = up
    BY <1>1, <1>15 DEF Hear, ScanGoto, At, ScanStates
  <2> QED BY <1>1, <2>1 DEF PutsBack, AsFound, Claims, Looked, At
<1>16. CASE Release(r)
  BY <1>4, <1>16 DEF Release
<1> QED BY <1>2, <1>3, <1>5, <1>6, <1>7, <1>9, <1>10, <1>11, <1>12, <1>13, <1>14, <1>15, <1>16
        DEF ScanStep

(* A monitor that comes up was up before any scan                             *)
LEMMA MonitorsComeUp ==
  ASSUME ScanInvariant, NEW r \in Request, ScanStep(r),
         NEW m \in Monitor, m \in up' \ up, drivers[On[m]] = "iwlwifi", Pausable(m)
  PROVE  m \in found \cup Exempt
<1>1. /\ scan[r] \in ScanStates /\ Remembers(r) /\ PutsBack(r)
  BY DEF ScanInvariant, ScanTypeOK, LinksKnown
<1>2. CASE Raise(r)
  <2>1. m = scan[r].target /\ scan[r].pc # "idle"
    BY <1>2 DEF Raise, SetUp, At
  <2>2. ManagedSiblings(m, Iface) = {}
    BY <1>1, <2>1 DEF Remembers
  <2>3. \E n \in Monitor \ {m} : On[n] = On[m]
    BY <2>2 DEF Pausable, ManagedSiblings, Iface
  <2> QED BY <2>2, <2>3 DEF Stranded, Exempt
<1>3. CASE Restore(r)
  <2>1. m \in scan[r].paused
    BY <1>1, <1>3 DEF Restore, SetUp, Remembers
  <2> QED BY <1>1, <2>1 DEF PutsBack
<1>4. CASE ~Raise(r) /\ ~Restore(r)
  <2>1. CASE Begin(r) \/ Look(r) \/ CheckCaptures(r)
    BY <2>1, OutsideClaimsNothing DEF ScanInvariant
  <2>2. CASE Pause(r) \/ Lower(r)
    BY <2>2 DEF Pause, Lower, SetDown
  <2> QED BY <1>4, <2>1, <2>2 DEF ScanStep, Claim, ReadState, Trigger, FallBack, ScanEnds,
          Hear, Release
<1> QED BY <1>2, <1>3, <1>4

LEMMA LinksKnownStep ==
  ASSUME ScanInvariant, [ScanNext]_scanVars
  PROVE  LinksKnown'
<1>1. /\ Exempt \subseteq Exempt' /\ drivers' = drivers /\ found' = found
      /\ scan \in [Request -> ScanStates]
  BY ExemptGrows, SpoiledGrows DEF ScanInvariant, ScanTypeOK
<1>2. ASSUME NEW r \in Request, ScanStep(r)
      PROVE  LinksKnown'
  <2>1. ASSUME NEW m \in Monitor \cap up', drivers[On[m]] = "iwlwifi", Pausable(m)
        PROVE  m \in found \cup Exempt
    BY <1>2, <2>1, MonitorsComeUp DEF ScanInvariant, LinksKnown
  <2>2. \A q \in Request : PutsBack(q)'
    BY <1>2, OthersUndisturbed, OwnLinksKnown
  <2>3. ASSUME NEW i \in Iface, ~AsFound(i)'
        PROVE  \E q \in Request : Claims(q)' /\ i \in Held(q)'
    <3>1. CASE i \notin Held(r) \/ ~Claims(r)
      <4>1. i \in up' <=> i \in up
        BY <1>2, <3>1, OnlyHeldChange DEF ScanInvariant
      <4>2. ~AsFound(i)
        BY <1>1, <2>3, <4>1 DEF AsFound
      <4>3. PICK q \in Request : Claims(q) /\ i \in Held(q)
        BY <4>2 DEF ScanInvariant, LinksKnown
      <4>4. scan'[q] = scan[q]
        BY <1>2, <3>1, <4>3, ScanStepEffect DEF ScanInvariant
      <4> QED BY <4>3, <4>4 DEF Claims, Looked, At, Held
    <3>2. CASE i \in Held(r) /\ Claims(r)
      <4>1. CASE Inside(r)
        BY <3>2, <4>1, InsideKeepsPlan DEF ScanInvariant, Held
      <4>2. CASE Release(r)
        <5>1. PutsBack(r) /\ scan[r].pc \in {"restore", "release"} /\ up' = up
          BY <4>2 DEF Release, At, ScanInvariant, LinksKnown
        <5>2. AsFound(i)
          BY <3>2, <4>2, <5>1 DEF PutsBack, Release, At, Held
        <5> QED BY <1>1, <2>3, <5>1, <5>2 DEF AsFound
      <4>3. CASE Begin(r) \/ Look(r) \/ CheckCaptures(r) \/ Claim(r)
        BY <3>2, <4>3 DEF Begin, Look, CheckCaptures, Claim, Claims, Looked, At
      <4> QED BY <1>2, <4>1, <4>2, <4>3 DEF ScanStep, Inside
    <3> QED BY <3>1, <3>2
  <2> QED BY <1>1, <2>1, <2>2, <2>3 DEF LinksKnown, Pausable
<1>3. ASSUME UNCHANGED <<up, scan>>
      PROVE  LinksKnown'
  <2>1. \A i : AsFound(i) => AsFound(i)'
    BY <1>1, <1>3 DEF AsFound
  <2>2. \A q \in Request : PutsBack(q)'
    BY <1>1, <1>3, <2>1 DEF PutsBack, ScanInvariant, LinksKnown, Claims, Looked, At
  <2>3. \A q \in Request : Claims(q)' = Claims(q) /\ Held(q)' = Held(q)
    BY <1>3 DEF Claims, Looked, At, Held
  <2> QED BY <1>1, <1>3, <2>1, <2>2, <2>3 DEF ScanInvariant, LinksKnown, Pausable
<1>4. CASE Crash
  <2>1. /\ up' = up /\ \A q \in Request : scan'[q] = NoScan
        /\ \A q \in Request : Looked(q) => Held(q) \subseteq spoiled'
    BY <1>4 DEF Crash, Fails, Held
  <2>2. \A q \in Request : PutsBack(q)'
    BY <2>1 DEF PutsBack, NoScan, Claims, Looked, At
  <2>3. ASSUME NEW i \in Iface
        PROVE  AsFound(i)'
    <3>1. CASE AsFound(i)
      BY <1>1, <2>1, <3>1 DEF AsFound
    <3>2. CASE ~AsFound(i)
      <4>1. PICK q \in Request : Claims(q) /\ i \in Held(q)
        BY <3>2 DEF ScanInvariant, LinksKnown
      <4> QED BY <2>1, <4>1 DEF Claims, AsFound, Exempt
    <3> QED BY <3>1, <3>2
  <2> QED BY <1>1, <2>1, <2>2, <2>3 DEF ScanInvariant, LinksKnown, Pausable
<1> QED BY <1>2, <1>3, <1>4 DEF ScanNext, SweepEnds, CaptureBegins, CaptureEnds, scanVars

-------------------------------------------------------------------------------
(* The sweeps, and the mt7921 filter.                                      *)

LEMMA SweepsKnownStep ==
  ASSUME ScanInvariant, [ScanNext]_scanVars
  PROVE  SweepsKnown'
<1>1. /\ spoiled \subseteq spoiled'
      /\ scan \in [Request -> ScanStates] /\ SweepsKnown /\ sweeping \subseteq Iface
  BY SpoiledGrows DEF ScanInvariant, ScanTypeOK
<1>2. ASSUME sweeping' \subseteq sweeping,
             \A i \in sweeping' : On[i] \in outlived => On[i] \in outlived',
             \A r \in Request, i \in sweeping' :
               AsksFor(r, i) => AsksFor(r, i)' \/ On[i] \in outlived' \cup spoiled'
      PROVE  SweepsKnown'
  BY <1>1, <1>2 DEF SweepsKnown
<1>3. ASSUME NEW i \in Iface, NEW d, SweepOver(i, d)
      PROVE  /\ sweeping' \subseteq sweeping
             /\ \A j \in sweeping' : On[j] \in outlived => On[j] \in outlived'
  BY <1>1, <1>3 DEF SweepOver, SweepsKnown
<1>4. ASSUME NEW p, Cleared(p), UNCHANGED sweeping
      PROVE  \A j \in sweeping' : On[j] \in outlived => On[j] \in outlived'
  BY <1>4 DEF Cleared, Sweeps
<1>5. ASSUME NEW r \in Request, ScanStep(r)
      PROVE  SweepsKnown'
  <2>1. \A q \in Request \ {r} : \A i : AsksFor(q, i) => AsksFor(q, i)'
    BY <1>5, ScanStepEffect DEF ScanInvariant, AsksFor
  <2>2. CASE UNCHANGED <<sweeping, outlived>> /\ (scan[r].pc \in Asking => scan'[r].pc \in Asking)
    <3>1. scan[r].pc \in Asking => scan'[r].target = scan[r].target
      <4>1. CASE Inside(r)
        BY <4>1, InsideKeepsPlan DEF ScanInvariant
      <4>2. CASE ~Inside(r)
        BY <1>5, <4>2 DEF ScanStep, Inside, Begin, Look, CheckCaptures, Claim, Release, At, Asking
      <4> QED BY <4>1, <4>2
    <3> QED BY <1>2, <2>1, <2>2, <3>1 DEF AsksFor
  <2>3. CASE UNCHANGED sweeping /\ Cleanup(r)
    <3>1. outlived \subseteq outlived'
      BY <2>3 DEF Cleanup
    <3>2. \A i \in sweeping : AsksFor(r, i) => On[i] \in outlived'
      BY <2>3 DEF Cleanup, AsksFor, MyRadio
    <3> QED BY <1>2, <2>1, <2>3, <3>1, <3>2
  <2>4. CASE /\ ~Sweeps(MyRadio(r)) /\ UNCHANGED outlived
             /\ sweeping' = sweeping \cup {scan[r].target}
             /\ scan'[r].pc \in Asking /\ scan'[r].target = scan[r].target
    <3>1. \A i : AsksFor(r, i) => AsksFor(r, i)'
      BY <2>4 DEF AsksFor
    <3>2. AsksFor(r, scan[r].target)'
      BY <2>4 DEF AsksFor
    <3> QED BY <1>1, <2>1, <2>4, <3>1, <3>2 DEF SweepsKnown, Sweeps, MyRadio
  <2>5. CASE scan[r].pc \notin Asking /\ \E i \in Iface : SweepOver(i, deaf)
    BY <1>2, <1>3, <2>1, <2>5 DEF AsksFor
  <2>6. CASE scan[r].pc = "restore" /\ Cleared(MyRadio(r)) /\ UNCHANGED sweeping
    BY <1>2, <1>4, <2>1, <2>6 DEF AsksFor, Asking
  <2> QED BY <1>5, <2>2, <2>3, <2>4, <2>5, <2>6, SweepsOfSteps DEF ScanInvariant
<1>6. ASSUME NEW i \in Iface, SweepEnds(i)
      PROVE  SweepsKnown'
  <2>1. SweepOver(i, deaf') /\ scan' = scan
    BY <1>6 DEF SweepEnds
  <2> QED BY <1>2, <1>3, <2>1 DEF AsksFor
<1>7. ASSUME NEW m \in Monitor, CaptureBegins(m)
      PROVE  SweepsKnown'
  BY <1>2, <1>4, <1>7 DEF CaptureBegins, AsksFor
<1>8. CASE Crash
  <2>1. \A q \in Request : Looked(q) => MyRadio(q) \in spoiled'
    BY <1>8 DEF Crash, Fails
  <2>2. \A q \in Request : \A i : AsksFor(q, i) => On[i] \in spoiled'
    BY <2>1 DEF AsksFor, Asking, Looked, MyRadio
  <2> QED BY <1>2, <1>8, <2>2 DEF Crash, radios
<1>9. CASE UNCHANGED <<sweeping, outlived, scan>>
  BY <1>2, <1>9 DEF AsksFor
<1> QED BY <1>5, <1>6, <1>7, <1>8, <1>9 DEF ScanNext, CaptureEnds, scanVars, radios

LEMMA DeafKnownStep ==
  ASSUME ScanInvariant, [ScanNext]_scanVars
  PROVE  DeafKnown'
<1>1. /\ spoiled \subseteq spoiled' /\ drivers' = drivers
      /\ scan \in [Request -> ScanStates] /\ DeafKnown /\ SweepsKnown
      /\ \A q \in Request : Remembers(q)
  BY SpoiledGrows DEF ScanInvariant, ScanTypeOK
<1>2. ASSUME deaf' \subseteq deaf,
             \A p \in deaf' : p \in outlived => p \in outlived',
             \A q \in Request, p \in deaf' : IsToClear(q, p) =>
               IsToClear(q, p)' \/ p \in spoiled' \cup outlived' \/ drivers[p] # "mt7921"
      PROVE  DeafKnown'
  BY <1>1, <1>2 DEF DeafKnown
<1>3. ASSUME NEW i \in Iface, SweepOver(i, deaf), UNCHANGED deaf
      PROVE  \A p \in deaf' : p \in outlived => p \in outlived'
  BY <1>3 DEF SweepOver
<1>4. ASSUME NEW p, Cleared(p)
      PROVE  deaf' \subseteq deaf /\ \A q \in deaf' : q \in outlived => q \in outlived'
  BY <1>4 DEF Cleared
<1>5. ASSUME NEW r \in Request, ScanStep(r)
      PROVE  DeafKnown'
  <2>1. \A q \in Request \ {r} : \A p : IsToClear(q, p) => IsToClear(q, p)'
    BY <1>5, ScanStepEffect DEF ScanInvariant, IsToClear, MyRadio
  <2>2. CASE Begin(r) \/ Look(r) \/ CheckCaptures(r) \/ Claim(r) \/ ReadState(r)
    <3>1. /\ scan[r].pc \in {"idle", "look", "check", "claim", "state"}
          /\ UNCHANGED <<deaf, outlived>>
      BY <2>2 DEF Begin, Look, CheckCaptures, Claim, ReadState, At, radios
    <3> QED BY <1>2, <2>1, <3>1 DEF IsToClear, Asking
  <2>3. CASE Release(r)
    <3>1. UNCHANGED <<deaf, outlived>>
      BY <2>3 DEF Release, radios
    <3>2. \A p : IsToClear(r, p) => drivers[p] # "mt7921" \/ p \in spoiled
      BY <1>1, <2>3 DEF Release, Remembers, IsToClear, Asking, At
    <3> QED BY <1>1, <1>2, <2>1, <3>1, <3>2
  <2>4. CASE Inside(r) /\ ~ReadState(r)
    <3>1. scan'[r].target = scan[r].target
      BY <2>4, InsideKeepsPlan DEF ScanInvariant
    <3>2. scan[r] \in ScanStates
      BY <1>1
    <3>3. ASSUME Cleanup(r), UNCHANGED deaf
          PROVE  DeafKnown'
      <4>1. scan'[r].pc \in {"lower", "restore"} /\ outlived \subseteq outlived'
        BY <1>1, <3>2, <3>3 DEF Cleanup, ScanStates
      <4> QED BY <1>2, <2>1, <3>1, <3>3, <4>1 DEF IsToClear, MyRadio
    <3>4. CASE Pause(r) \/ Raise(r)
      <4>1. CASE ~Cleanup(r)
        <5>1. scan[r].pc = "pause" /\ UNCHANGED deaf
          BY <3>4 DEF Pause, Raise, At
        <5>2. \A p \in deaf' : p \in outlived => p \in outlived'
          <6>1. Monitor \subseteq Iface /\ scan[r].todo \subseteq Monitor
            BY <3>2 DEF Iface, ScanStates
          <6> QED BY <1>3, <3>4, <4>1, <5>1, <6>1 DEF Pause, Raise, SetUp, SetDown
        <5> QED BY <1>2, <2>1, <5>1, <5>2 DEF IsToClear, Asking
      <4> QED BY <3>3, <3>4, <4>1 DEF Pause, Raise
    <3>5. CASE Trigger(r)
      <4>1. CASE ~Cleanup(r)
        <5>1. scan'[r].pc \in Asking /\ UNCHANGED outlived
          BY <1>1, <3>2, <3>5, <4>1 DEF Trigger, ScanGoto, ScanStates, Asking, At
        <5>2. \A p : p = MyRadio(r) => IsToClear(r, p)'
          BY <3>1, <5>1 DEF IsToClear, MyRadio
        <5>3. deaf' \in {deaf, Deafened(MyRadio(r))}
          BY <3>5, <4>1 DEF Trigger
        <5>4. \A p : IsToClear(r, p) => IsToClear(r, p)'
          BY <3>1, <5>1 DEF IsToClear, MyRadio
        <5>5. \A q \in Request : \A p : IsToClear(q, p) => IsToClear(q, p)'
          BY <2>1, <5>4
        <5>6. ASSUME NEW p \in deaf' \ (spoiled' \cup outlived')
              PROVE  drivers[p] = "mt7921" /\ \E q \in Request : IsToClear(q, p)'
          <6>1. CASE p \in deaf
            BY <1>1, <5>1, <5>5, <5>6, <6>1 DEF DeafKnown
          <6>2. CASE p \notin deaf
            <7>1. p = MyRadio(r) /\ drivers[p] = "mt7921"
              BY <5>3, <5>6, <6>2 DEF Deafened
            <7> QED BY <1>5, <5>2, <7>1
          <6> QED BY <6>1, <6>2
        <5> QED BY <1>1, <5>6 DEF DeafKnown
      <4>2. CASE Cleanup(r)
        <5>1. scan'[r].pc \in {"lower", "restore"}
          BY <1>1, <3>2, <4>2 DEF Cleanup, ScanStates
        <5>2. ~ScanGoto(r, "poll") /\ ~ScanGoto(r, "await")
          BY <1>1, <3>2, <5>1 DEF ScanGoto, ScanStates
        <5> QED BY <3>3, <3>5, <4>2, <5>2 DEF Trigger
      <4> QED BY <4>1, <4>2
    <3>6. CASE FallBack(r)
      <4>1. scan'[r].pc = "iw" /\ UNCHANGED <<deaf, outlived>>
        BY <1>1, <3>2, <3>6 DEF FallBack, ScanGoto, ScanStates, radios
      <4> QED BY <1>2, <2>1, <3>1, <4>1 DEF IsToClear, Asking, MyRadio
    <3>7. CASE ScanEnds(r)
      BY <3>3, <3>7 DEF ScanEnds
    <3>8. CASE Lower(r)
      <4>1. /\ scan'[r].pc = "restore" /\ UNCHANGED deaf
            /\ scan[r].target \in Iface
        BY <1>1, <3>2, <3>8 DEF Lower, ScanGoto, ScanStates, At, ScanInvariant, ScanTypeOK
      <4>2. \A p \in deaf' : p \in outlived => p \in outlived'
        BY <1>3, <3>8, <4>1 DEF Lower, SetDown
      <4> QED BY <1>2, <2>1, <3>1, <4>1, <4>2 DEF IsToClear, MyRadio
    <3>9. CASE Restore(r)
      <4>1. scan'[r].pc = "restore" /\ UNCHANGED <<deaf, outlived>>
        BY <1>1, <3>2, <3>9 DEF Restore, SetUp, KeepsGoing, At, ScanStates
      <4> QED BY <1>2, <2>1, <3>1, <4>1 DEF IsToClear, MyRadio
    <3>10. CASE Hear(r)
      <4>1. CASE Cleared(MyRadio(r))
        BY <1>2, <1>4, <2>1, <4>1 DEF IsToClear, Cleared
      <4>2. CASE ~Cleared(MyRadio(r))
        <5>1. MyRadio(r) \in spoiled' /\ UNCHANGED <<deaf, outlived>>
          BY <3>10, <4>2 DEF Hear, Clear, Fails
        <5> QED BY <1>2, <2>1, <5>1 DEF IsToClear
      <4> QED BY <4>1, <4>2
    <3> QED BY <2>4, <3>4, <3>5, <3>6, <3>7, <3>8, <3>9, <3>10 DEF Inside
  <2> QED BY <1>5, <2>2, <2>3, <2>4 DEF ScanStep, Inside
<1>6. ASSUME NEW i \in Iface, SweepEnds(i)
      PROVE  DeafKnown'
  <2>1. /\ i \in sweeping /\ deaf' = Deafened(On[i]) /\ UNCHANGED <<scan, spoiled>>
        /\ outlived' = outlived \ ({On[i]} \ deaf')
    BY <1>6 DEF SweepEnds, SweepOver
  <2>2. \A q \in Request : \A p : IsToClear(q, p) => IsToClear(q, p)'
    BY <2>1 DEF IsToClear, MyRadio
  <2>3. \A q \in Request : AsksFor(q, i) => IsToClear(q, On[i])
    BY DEF AsksFor, IsToClear, Asking, MyRadio
  <2> QED BY <1>1, <2>1, <2>2, <2>3 DEF DeafKnown, SweepsKnown, Deafened
<1>7. ASSUME NEW m \in Monitor, CaptureBegins(m)
      PROVE  DeafKnown'
  <2>1. Cleared(On[m]) /\ scan' = scan
    BY <1>7 DEF CaptureBegins
  <2> QED BY <1>2, <1>4, <2>1 DEF IsToClear, MyRadio
<1>8. CASE Crash
  <2>1. /\ UNCHANGED <<deaf, outlived>>
        /\ \A q \in Request : Looked(q) => MyRadio(q) \in spoiled'
    BY <1>8 DEF Crash, Fails, radios
  <2>2. \A q \in Request : \A p : IsToClear(q, p) => p \in spoiled'
    BY <2>1 DEF IsToClear, Asking, Looked
  <2> QED BY <1>2, <2>1, <2>2
<1>9. CASE UNCHANGED <<deaf, outlived, scan>>
  BY <1>2, <1>9 DEF IsToClear, MyRadio
<1> QED BY <1>5, <1>6, <1>7, <1>8, <1>9 DEF ScanNext, CaptureEnds, scanVars, radios

-------------------------------------------------------------------------------
(* The theorems.                                                           *)

(* Whatever the radios, the interfaces and the scans, what a scan remembers   *)
(* (run_interface_scan's locals) agrees with the links, with _active_scans    *)
(* and with the captures                                                      *)
THEOREM ScansAreKnown == ScanSpec => []ScanInvariant
<1>1. ScanInit => ScanInvariant
  <2> SUFFICES ASSUME ScanInit PROVE ScanInvariant
    OBVIOUS
  <2>1. ScanTypeOK
    BY TypesInit
  <2>2. \A r \in Request : scan[r] = NoScan
    BY DEF ScanInit
  <2>3. \A r \in Request : Remembers(r) /\ PutsBack(r) /\ ~Looked(r)
    BY <2>2 DEF NoScan, Remembers, PutsBack, Claims, Looked, At
  <2> QED BY <2>1, <2>3 DEF ScanInit, ScanInvariant, KeysHeld, CapturesKnown, LinksKnown,
          SweepsKnown, DeafKnown, AsFound, Claims
<1>2. ScanInvariant /\ [ScanNext]_scanVars => ScanInvariant'
  BY ScanTypesStep, RemembersStep, KeysHeldStep, CapturesKnownStep, LinksKnownStep,
     SweepsKnownStep, DeafKnownStep DEF ScanInvariant
<1> QED BY <1>1, <1>2, PTL DEF ScanSpec

(* Links and filters are put back, whatever fails and whatever other scans do *)
(* (run_interface_scan's finally blocks)                                      *)
THEOREM LinksAreLeftAsFound == ScanSpec => []LeftAsFound
<1>1. ScanInvariant => LeftAsFound
  <2> SUFFICES ASSUME ScanInvariant PROVE LeftAsFound
    OBVIOUS
  <2>1. ASSUME NEW p \in deaf \ (spoiled \cup outlived)
        PROVE  \E r \in Request : Claims(r) /\ MyRadio(r) = p
    BY <2>1 DEF ScanInvariant, DeafKnown, IsToClear, Asking, Claims, Looked, At
  <2> QED BY <2>1 DEF ScanInvariant, LinksKnown, AsFound, Exempt, Held, LeftAsFound
<1> QED BY <1>1, ScansAreKnown, PTL

(* A scan brings no monitor up while another scans on its Intel radio, and    *)
(* ends no capture that had begun when it looked (_claim_scan,                *)
(* _monitors_to_pause)                                                        *)
THEOREM ScansAreApart == ScanSpec => ScansStayApart
<1> DEFINE Apart ==
      /\ \A m \in (Monitor \cap up') \ up :
           Sweeps(On[m]) /\ drivers[On[m]] = "iwlwifi" => On[m] \in outlived \cup spoiled
      /\ \A m \in captured : m \notin up' =>
           \E r \in late[m] : m \in scan[r].paused \cup {scan[r].target}
<1>1. ASSUME ScanInvariant, [ScanNext]_scanVars
      PROVE  Apart
  <2> USE <1>1 DEF ScanInvariant
  <2>1. ASSUME NEW q \in Request, ScanStep(q)
        PROVE  Apart
    <3>1. scan[q] \in ScanStates /\ Remembers(q)
      BY DEF ScanTypeOK
    <3>2. ASSUME NEW m \in (Monitor \cap up') \ up, NEW i \in sweeping, On[i] = On[m],
                 drivers[On[m]] = "iwlwifi", On[m] \notin outlived \cup spoiled
          PROVE  FALSE
      <4>0. PICK r \in Request : AsksFor(r, i)
        BY <3>2 DEF SweepsKnown
      <4>6. scan[r].pc \in Asking /\ MyRadio(r) = On[m] /\ Intel(r)
        BY <3>2, <4>0 DEF AsksFor, MyRadio, Intel, Remembers, Asking
      <4>1. m \in Held(q) /\ Claims(q) /\ scan[q].pc \in {"pause", "restore"}
        <5>1. m \in Held(q) /\ Claims(q)
          BY <2>1, <3>2, OnlyHeldChange DEF Iface
        <5>2. CASE Pause(q) \/ Lower(q)
          BY <3>2, <5>2 DEF Pause, Lower, SetDown
        <5>3. CASE Begin(q) \/ Look(q) \/ CheckCaptures(q)
          BY <3>2, <5>3, OutsideClaimsNothing
        <5> QED BY <2>1, <3>2, <5>1, <5>2, <5>3 DEF ScanStep, Claim, ReadState, Raise,
                Trigger, FallBack, ScanEnds, Restore, Hear, Release, At
      <4>2. MyRadio(q) = On[m]
        BY <3>1, <4>1 DEF Held, Remembers, MyRadio
      <4>3. Intel(q)
        BY <3>1, <3>2, <4>1, <4>2 DEF Remembers, Intel
      <4>4. Claims(r) /\ r # q
        BY <4>1, <4>6 DEF Claims, Looked, At, Asking
      <4>5. Place[On[m]] \in Keys(r) \cap Keys(q)
        BY <4>2, <4>3, <4>6 DEF Keys
      <4> QED BY <4>1, <4>4, <4>5 DEF KeysHeld
    <3>3. ASSUME NEW m \in captured, m \notin up'
          PROVE  \E r \in late[m] : m \in scan[r].paused \cup {scan[r].target}
      <4>1. m \in Held(q) /\ Claims(q) /\ m \in up
        BY <2>1, <3>3, OnlyHeldChange DEF ScanTypeOK, Iface, CapturesKnown
      <4>2. m \in scan[q].paused \/ ~scan[q].was
        <5>1. CASE Pause(q)
          BY <3>1, <3>3, <4>1, <5>1 DEF Pause, SetDown, Remembers
        <5>2. CASE Lower(q)
          BY <3>1, <5>2 DEF Lower, Remembers, At
        <5>3. CASE Begin(q) \/ Look(q) \/ CheckCaptures(q)
          BY <3>3, <4>1, <5>3, OutsideClaimsNothing
        <5> QED BY <2>1, <3>3, <4>1, <5>1, <5>2, <5>3 DEF ScanStep, Claim, ReadState, Raise,
                Trigger, FallBack, ScanEnds, Restore, SetUp, Hear, Release
      <4> QED BY <3>3, <4>1, <4>2 DEF CapturesKnown, Held, Claims
    <3> QED BY <3>2, <3>3 DEF Sweeps
  <2>2. ASSUME up' = up
        PROVE  Apart
    BY <2>2 DEF CapturesKnown
  <2> QED BY <1>1, <2>1, <2>2 DEF ScanNext, SweepEnds, CaptureBegins, CaptureEnds, Crash,
          scanVars
<1> HIDE DEF Apart
<1>2. ScanInvariant /\ [ScanNext]_scanVars => [Apart]_scanVars
  BY <1>1
<1>3. ScanSpec => [][Apart]_scanVars
  BY <1>2, ScansAreKnown, PTL DEF ScanSpec
<1> QED BY <1>3 DEF ScansStayApart, Apart
================================================================================
