---------------------------- MODULE LifecycleProofs ----------------------------
(***************************************************************************)
(* Proofs about the life of Core's workers, for any number of workers,     *)
(* radios, secrets and engines.  The inductive invariant is LifeInvariant. *)
(***************************************************************************)
EXTENDS Lifecycle, TLAPS

(* A worker's own state: engines but the one at hand are disposed or stuck,  *)
(* health checks run while it serves, and what it has made it keeps          *)
WorkerOK(local) ==
  /\ local \in WorkerState
  /\ local.open \subseteq local.stuck \cup {local.engine}
  /\ local.at = "ended" => local.open \subseteq local.stuck
  /\ local.health # "off" => local.at \in {"serving", "closing"}
  /\ local.at = "none" => local.secret = None
  /\ local.at \in {"mode", "database", "tokens", "serving", "closing", "closed", "ended"} =>
       local.secret # None
  /\ local.at \in {"tokens", "serving", "closing", "closed"} => local.engine # None

WorkersOK == \A w \in Worker : WorkerOK(worker[w])

(* Unless workers raced to make it, workers and clients have the secret of    *)
(* the file, and only a worker that is alone writes it                        *)
OneSecret ==
  ~raced =>
    /\ \A w \in Worker : worker[w].secret \in {None, file}
    /\ \A v, w \in Live : v # w => file \in Secret
    /\ \A w \in Worker : At(w, "write") => file = Empty
    /\ signed \in Secret => signed = file

(* A monitor of a radio that is still to be paired was seen, unless it has    *)
(* the name that it would get or the read of it failed                        *)
MonitorsSeen ==
  \A w \in Worker : worker[w].at \in {"delete", "pair"} =>
    \A i \in worker[w].todo, n \in Phy :
      net.mon[n] = On[i] =>
        n = On[i] \/ On[i] \in net.missed \/ <<n, On[i]>> \in worker[w].seen

LifeInvariant ==
  TypeOK /\ WorkersOK /\ OneSecret /\ MonitorsSeen /\ OneCoreMonitor

-------------------------------------------------------------------------------
(* The steps of one worker.                                                *)

(* Worker w goes on, and no other                                            *)
Moves(w) ==
  /\ worker' \in [Worker -> WorkerState] /\ WorkerOK(worker'[w])
  /\ \A v \in Worker \ {w} : worker'[v] = worker[v]

(* What others may see of a step of worker w                                 *)
Seen(w) ==
  /\ worker[w].at # "none"
  /\ worker'[w].secret = None \/ worker'[w].secret = worker[w].secret
       \/ (SecretLoaded(w) /\ worker'[w].secret = file)
       \/ (SecretWritten(w) /\ worker'[w].secret = file')
  /\ worker'[w].at = "write" => SecretOpened(w)
  /\ worker'[w].at \in {"delete", "pair"} =>
       \/ WifiLook(w)
       \/ /\ worker[w].at \in {"delete", "pair"}
          /\ worker'[w].todo \subseteq worker[w].todo /\ worker[w].seen \subseteq worker'[w].seen

LEMMA MovesTo ==
  ASSUME TypeOK, NEW w \in Worker, NEW r, WorkerOK(r), Goes(w, r)
  PROVE  Moves(w) /\ worker'[w] = r
BY DEF TypeOK, Moves, Goes, WorkerOK

LEMMA GoneIsOK ==
  WorkerOK(Gone) /\ Gone.at = "none" /\ Gone.secret = None
BY SizeAssumption DEF WorkerOK, Gone, WorkerState, Phase

LEMMA GoneMoves ==
  ASSUME TypeOK, NEW w \in Worker, Goes(w, Gone), worker[w].at # "none"
  PROVE  Moves(w) /\ Seen(w)
BY GoneIsOK, MovesTo DEF Seen

(* A step to another point, which leaves the rest as it is                   *)
LEMMA BecomesMoves ==
  ASSUME TypeOK, WorkersOK, NEW w \in Worker, NEW p \in Phase, Becomes(w, p),
         worker[w].at # "none", worker[w].health = "off" \/ p \in {"serving", "closing"},
         p \in {"mode", "database", "tokens", "serving", "closing", "closed", "ended"} =>
           worker[w].secret # None,
         p \in {"tokens", "serving", "closing", "closed"} => worker[w].engine # None,
         p # "ended", p = "write" => SecretOpened(w),
         p \in {"delete", "pair"} => worker[w].at \in {"delete", "pair"}
  PROVE  Moves(w) /\ Seen(w)
<1> DEFINE r == [worker[w] EXCEPT !.at = p]
<1>1. WorkerOK(worker[w]) /\ p # "none"
  BY DEF WorkersOK, Phase
<1>2. WorkerOK(r) /\ r.at = p /\ r.secret = worker[w].secret
      /\ r.todo = worker[w].todo /\ r.seen = worker[w].seen
  BY <1>1 DEF WorkerOK, WorkerState
<1>3. Goes(w, r)
  BY DEF Becomes
<1> HIDE DEF r
<1>4. Moves(w) /\ worker'[w] = r
  BY <1>2, <1>3, MovesTo
<1> QED BY <1>2, <1>4 DEF Seen

LEMMA WifiMoves ==
  ASSUME TypeOK, WorkersOK, NEW w \in Worker,
         \/ ReadinessFails(w) \/ Ready(w) \/ WifiSkipped(w) \/ WifiLook(w) \/ DeleteUnused(w)
         \/ (\E i \in Iface : Pair(w, i)) \/ WifiDone(w)
  PROVE  Moves(w) /\ Seen(w)
<1>1. /\ WorkerOK(worker[w]) /\ worker[w] \in WorkerState /\ net \in NetState
      /\ worker[w].at \in {"readiness", "wifi", "delete", "pair"}
      /\ worker[w].health = "off"
      /\ {"wifi", "delete", "pair", "secret"} \subseteq Phase
  BY DEF WorkersOK, WorkerOK, TypeOK, ReadinessFails, Ready, WifiSkipped, WifiLook, DeleteUnused,
     Pair, WifiDone, At, Phase
<1>2. CASE ReadinessFails(w)
  BY <1>1, <1>2, GoneMoves DEF ReadinessFails, BootError
<1>3. CASE Ready(w) \/ WifiSkipped(w) \/ DeleteUnused(w)
  <2>1. \E p \in {"wifi", "secret", "pair"} :
           Becomes(w, p) /\ (p = "pair" => worker[w].at = "delete")
    BY <1>3 DEF Ready, WifiSkipped, DeleteUnused, At
  <2> QED BY <1>1, <2>1, BecomesMoves
<1>4. CASE WifiLook(w)
  <2>0. PICK unread \in SUBSET Iface, hidden \in SUBSET Phy :
          Goes(w, [worker[w] EXCEPT
            !.at = "delete", !.todo = {i \in Iface \ unread : Present(i)},
            !.seen = {<<n, net.mon[n]>> :
                        n \in {m \in Phy \ hidden : net.mon[m] \notin net.away \cup {None}}}])
    BY <1>4 DEF WifiLook
  <2> DEFINE todo == {i \in Iface \ unread : Present(i)}
             seen == {<<n, net.mon[n]>> :
                        n \in {m \in Phy \ hidden : net.mon[m] \notin net.away \cup {None}}}
             r == [worker[w] EXCEPT !.at = "delete", !.todo = todo, !.seen = seen]
  <2>1. todo \subseteq Iface /\ seen \subseteq Phy \X Phy
    BY <1>1 DEF NetState
  <2>2. Goes(w, r)
    BY <2>0
  <2> HIDE DEF todo, seen
  <2>3. WorkerOK(r) /\ r.at = "delete" /\ r.secret = worker[w].secret
    BY <1>1, <2>1 DEF WorkerOK, WorkerState
  <2> HIDE DEF r
  <2>4. Moves(w) /\ worker'[w] = r
    BY <2>2, <2>3, MovesTo
  <2> QED BY <1>1, <1>4, <2>3, <2>4 DEF Seen
<1>5. ASSUME NEW i \in Iface, Pair(w, i)
      PROVE  Moves(w) /\ Seen(w)
  <2> DEFINE makes == On[i] \notin NoMonitor /\ ~HasCoreMonitor(worker[w].seen, On[i])
             seen == IF makes THEN worker[w].seen \cup {<<On[i], On[i]>>} ELSE worker[w].seen
             r == [worker[w] EXCEPT !.todo = worker[w].todo \ {i}, !.seen = seen]
  <2>1. seen \subseteq Phy \X Phy /\ worker[w].seen \subseteq seen
    BY <1>1, PhyAssumption DEF WorkerState
  <2>2. Goes(w, r) /\ worker[w].at = "pair"
    BY <1>1, <1>5 DEF Pair, WorkerState, At
  <2> HIDE DEF seen
  <2>3. /\ WorkerOK(r) /\ r.at = "pair" /\ r.secret = worker[w].secret
        /\ r.todo \subseteq worker[w].todo /\ r.seen = seen
    BY <1>1, <2>1, <2>2 DEF WorkerOK, WorkerState
  <2> HIDE DEF r
  <2>4. Moves(w) /\ worker'[w] = r
    BY <2>2, <2>3, MovesTo
  <2> QED BY <1>1, <2>1, <2>2, <2>3, <2>4 DEF Seen
<1>6. CASE WifiDone(w)
  <2> DEFINE r == [worker[w] EXCEPT !.at = "secret", !.seen = {}]
  <2>1. Goes(w, r)
    BY <1>6 DEF WifiDone
  <2>2. WorkerOK(r) /\ r.at = "secret" /\ r.secret = worker[w].secret
    BY <1>1 DEF WorkerOK, WorkerState
  <2> HIDE DEF r
  <2>3. Moves(w) /\ worker'[w] = r
    BY <2>1, <2>2, MovesTo
  <2> QED BY <1>1, <2>2, <2>3 DEF Seen
<1> QED BY <1>2, <1>3, <1>4, <1>5, <1>6

LEMMA SecretMoves ==
  ASSUME TypeOK, WorkersOK, NEW w \in Worker,
         SecretFails(w) \/ SecretLoaded(w) \/ SecretOpened(w) \/ SecretWritten(w) \/ SecretKept(w)
  PROVE  Moves(w) /\ Seen(w)
<1>1. /\ WorkerOK(worker[w]) /\ worker[w] \in WorkerState
      /\ worker[w].at \in {"secret", "write", "mode"} /\ worker[w].health = "off"
      /\ {"secret", "write", "mode", "database"} \subseteq Phase
  BY DEF WorkersOK, WorkerOK, SecretFails, SecretLoaded, SecretOpened, SecretWritten, SecretKept,
     At, Phase
<1>2. ASSUME SecretFails(w), worker[w].tries + 1 < Attempts
      PROVE  Moves(w) /\ Seen(w)
  <2> DEFINE tries == worker[w].tries + 1
             r == [worker[w] EXCEPT !.at = "secret", !.secret = None, !.tries = tries]
  <2>1. Goes(w, r)
    BY <1>2 DEF SecretFails
  <2>2. tries \in 0..Attempts
    BY <1>1, <1>2, SizeAssumption DEF WorkerState
  <2> HIDE DEF tries
  <2>3. WorkerOK(r) /\ r.at = "secret" /\ r.secret = None
    BY <1>1, <2>2 DEF WorkerOK, WorkerState
  <2> HIDE DEF r
  <2>4. Moves(w) /\ worker'[w] = r
    BY <2>1, <2>3, MovesTo
  <2> QED BY <1>1, <2>3, <2>4 DEF Seen
<1>3. ASSUME SecretFails(w), ~(worker[w].tries + 1 < Attempts)
      PROVE  Moves(w) /\ Seen(w)
  BY <1>1, <1>3, GoneMoves DEF SecretFails, BootError
<1>4. CASE SecretOpened(w) \/ SecretKept(w)
  <2>1. \E p \in {"write", "database"} :
           /\ Becomes(w, p) /\ (p = "write" => SecretOpened(w))
           /\ (p = "database" => worker[w].secret # None)
    BY <1>1, <1>4 DEF SecretOpened, SecretKept, At, WorkerOK
  <2> QED BY <1>1, <2>1, BecomesMoves
<1>5. ASSUME NEW s \in Secret, Goes(w, [worker[w] EXCEPT !.at = "mode", !.secret = s]),
             (SecretLoaded(w) /\ s = file) \/ (SecretWritten(w) /\ s = file')
      PROVE  Moves(w) /\ Seen(w)
  <2> DEFINE r == [worker[w] EXCEPT !.at = "mode", !.secret = s]
  <2>1. WorkerOK(r) /\ r.at = "mode" /\ r.secret = s
    BY <1>1, NoneAssumption DEF WorkerOK, WorkerState
  <2>2. Goes(w, r)
    BY <1>5
  <2> HIDE DEF r
  <2>3. Moves(w) /\ worker'[w] = r
    BY <2>1, <2>2, MovesTo
  <2> QED BY <1>1, <1>5, <2>1, <2>3 DEF Seen
<1>6. CASE SecretLoaded(w)
  <2>1. file \in Secret
    BY <1>6 DEF SecretLoaded, MakesSecret, TypeOK
  <2> QED BY <1>5, <1>6, <2>1 DEF SecretLoaded
<1>7. CASE SecretWritten(w)
  BY <1>5, <1>7 DEF SecretWritten
<1> QED BY <1>2, <1>3, <1>4, <1>6, <1>7

LEMMA DatabaseMoves ==
  ASSUME TypeOK, WorkersOK, NEW w \in Worker,
         DatabaseMade(w) \/ DatabaseReady(w) \/ DatabaseFails(w) \/ Serves(w)
  PROVE  Moves(w) /\ Seen(w)
<1>1. /\ WorkerOK(worker[w]) /\ worker[w] \in WorkerState
      /\ worker[w].at \in {"database", "tokens"} /\ worker[w].health = "off"
      /\ {"database", "tokens", "serving"} \subseteq Phase
  BY DEF WorkersOK, WorkerOK, DatabaseMade, DatabaseReady, DatabaseFails, Serves, At, Phase
<1>2. CASE DatabaseMade(w)
  <2> DEFINE e == Fresh(Engine)
             r == NewManager(worker[w], e)
  <2>1. e \in Engine
    BY SizeAssumption DEF Fresh
  <2>2. Goes(w, r) /\ worker[w].engine = None /\ worker[w].at = "database"
    BY <1>2 DEF DatabaseMade, At
  <2> HIDE DEF e
  <2>3. WorkerOK(r) /\ r.at = "database" /\ r.secret = worker[w].secret
    BY <1>1, <2>1, <2>2, NoneAssumption, ZenonT(60) DEF WorkerOK, WorkerState, NewManager
  <2> HIDE DEF r
  <2>4. Moves(w) /\ worker'[w] = r
    BY <2>2, <2>3, MovesTo
  <2> QED BY <1>1, <2>3, <2>4 DEF Seen
<1>3. CASE DatabaseReady(w)
  <2> DEFINE r == [worker[w] EXCEPT !.at = "tokens", !.ready = TRUE]
  <2>1. Goes(w, r) /\ worker[w].engine # None /\ worker[w].at = "database"
    BY <1>3 DEF DatabaseReady, At
  <2>2. WorkerOK(r) /\ r.at = "tokens" /\ r.secret = worker[w].secret
    BY <1>1, <2>1 DEF WorkerOK, WorkerState
  <2> HIDE DEF r
  <2>3. Moves(w) /\ worker'[w] = r
    BY <2>1, <2>2, MovesTo
  <2> QED BY <1>1, <2>2, <2>3 DEF Seen
<1>4. CASE DatabaseFails(w)
  BY <1>1, <1>4, GoneMoves DEF DatabaseFails, BootError
<1>5. CASE Serves(w)
  <2> DEFINE r == [worker[w] EXCEPT !.at = "serving", !.health = "asleep", !.tries = 0]
  <2>1. Goes(w, r) /\ worker[w].at = "tokens"
    BY <1>5 DEF Serves, At
  <2>2. WorkerOK(r) /\ r.at = "serving" /\ r.secret = worker[w].secret
    <3>1. 0 \in 0..Attempts
      BY SizeAssumption
    <3> QED BY <1>1, <2>1, <3>1 DEF WorkerOK, WorkerState
  <2> HIDE DEF r
  <2>3. Moves(w) /\ worker'[w] = r
    BY <2>1, <2>2, MovesTo
  <2> QED BY <1>1, <2>2, <2>3 DEF Seen
<1> QED BY <1>2, <1>3, <1>4, <1>5

LEMMA HealthMoves ==
  ASSUME TypeOK, WorkersOK, NEW w \in Worker, HealthStep(w)
  PROVE  Moves(w) /\ Seen(w)
<1>1. /\ WorkerOK(worker[w]) /\ worker[w] \in WorkerState
      /\ worker[w].health # "off" /\ worker[w].at \in {"serving", "closing"}
      /\ worker[w].engine \in Engine /\ worker[w].secret # None
  <2>1. WorkerOK(worker[w])
    BY DEF WorkersOK
  <2>2. worker[w].health # "off"
    BY DEF HealthStep, Wakes, Queried, ResetManager, ResetFails, Recovered, NotRecovered, Health
  <2> QED BY <2>1, <2>2 DEF WorkerOK, WorkerState
<1>2. ASSUME NEW h \in {"asleep", "query", "reset", "init"}, NEW b \in BOOLEAN,
             Goes(w, [worker[w] EXCEPT !.health = h, !.ready = b])
      PROVE  Moves(w) /\ Seen(w)
  <2> DEFINE r == [worker[w] EXCEPT !.health = h, !.ready = b]
  <2>1. WorkerOK(r) /\ r.at = worker[w].at /\ r.secret = worker[w].secret
    BY <1>1 DEF WorkerOK, WorkerState
  <2>2. Goes(w, r)
    BY <1>2
  <2> HIDE DEF r
  <2>3. Moves(w) /\ worker'[w] = r
    BY <2>1, <2>2, MovesTo
  <2> QED BY <1>1, <2>1, <2>3 DEF Seen
<1>3. ASSUME NEW h \in {"asleep", "query", "reset", "init"},
             Goes(w, [worker[w] EXCEPT !.health = h])
      PROVE  Moves(w) /\ Seen(w)
  <2>1. [worker[w] EXCEPT !.health = h]
          = [worker[w] EXCEPT !.health = h, !.ready = worker[w].ready]
    BY <1>1 DEF WorkerState
  <2> QED BY <1>1, <1>2, <1>3, <2>1 DEF WorkerState
<1>4. CASE Wakes(w) \/ ResetFails(w) \/ NotRecovered(w)
  BY <1>3, <1>4 DEF Wakes, ResetFails, NotRecovered, Health
<1>5. CASE Queried(w)
  <2> DEFINE h == IF tables THEN "asleep" ELSE "reset"
  <2>1. Goes(w, [worker[w] EXCEPT !.health = h]) \/ Goes(w, [worker[w] EXCEPT !.health = "reset"])
    BY <1>5 DEF Queried
  <2>2. h \in {"asleep", "reset"}
    OBVIOUS
  <2> HIDE DEF h
  <2> QED BY <1>3, <2>1, <2>2
<1>6. CASE Recovered(w)
  BY <1>2, <1>6 DEF Recovered, Health
<1>7. CASE ResetManager(w)
  <2> DEFINE e == Fresh(Engine \ worker[w].open)
             r == [NewManager(Disposed(worker[w]), e) EXCEPT !.health = "init"]
             q == [NewManager(worker[w], e) EXCEPT
                     !.health = "init", !.stuck = @ \cup {worker[w].engine}]
  <2>1. e \in Engine
    BY <1>1, <1>7 DEF ResetManager, Fresh, WorkerState
  <2>2. Goes(w, r) \/ Goes(w, q)
    BY <1>7 DEF ResetManager
  <2>3. e # None
    BY <2>1, NoneAssumption
  <2> HIDE DEF e
  <2>4. WorkerOK(r) /\ r.at = worker[w].at /\ r.secret = worker[w].secret
    BY <1>1, <2>1, <2>3 DEF WorkerOK, WorkerState, NewManager, Disposed
  <2>5. WorkerOK(q) /\ q.at = worker[w].at /\ q.secret = worker[w].secret
    BY <1>1, <2>1, <2>3 DEF WorkerOK, WorkerState, NewManager
  <2> HIDE DEF r, q
  <2>6. \E s \in {r, q} : Moves(w) /\ worker'[w] = s
    BY <2>2, <2>4, <2>5, MovesTo
  <2> QED BY <1>1, <2>4, <2>5, <2>6 DEF Seen
<1> QED BY <1>4, <1>5, <1>6, <1>7 DEF HealthStep

LEMMA CloseMoves ==
  ASSUME TypeOK, WorkersOK, NEW w \in Worker, CloseStep(w)
  PROVE  Moves(w) /\ Seen(w)
<1>1. /\ WorkerOK(worker[w]) /\ worker[w] \in WorkerState
      /\ worker[w].at \in {"serving", "closing", "closed", "ended"}
      /\ {"closing", "closed", "ended"} \subseteq Phase
  BY DEF WorkersOK, WorkerOK, CloseStep, Drains, StopsHealthChecks, Closes, Exits, At, Phase
<1>2. CASE Drains(w)
  <2>1. Becomes(w, "closing") /\ worker[w].at = "serving"
    BY <1>2 DEF Drains, At
  <2>2. worker[w].engine # None /\ worker[w].secret # None
    BY <1>1, <2>1 DEF WorkerOK
  <2> QED BY <1>1, <2>1, <2>2, BecomesMoves
<1>3. CASE StopsHealthChecks(w)
  <2> DEFINE r == [worker[w] EXCEPT !.at = "closed", !.health = "off"]
  <2>1. Goes(w, r) /\ worker[w].at = "closing"
    BY <1>3 DEF StopsHealthChecks, At
  <2>2. WorkerOK(r) /\ r.at = "closed" /\ r.secret = worker[w].secret
    BY <1>1, <2>1 DEF WorkerOK, WorkerState
  <2> HIDE DEF r
  <2>3. Moves(w) /\ worker'[w] = r
    BY <2>1, <2>2, MovesTo
  <2> QED BY <1>1, <2>2, <2>3 DEF Seen
<1>4. CASE Closes(w)
  <2> DEFINE r == [Disposed(worker[w]) EXCEPT !.at = "ended"]
             q == [worker[w] EXCEPT !.at = "ended", !.stuck = @ \cup {worker[w].engine}]
  <2>1. (Goes(w, r) \/ Goes(w, q)) /\ worker[w].at = "closed"
    BY <1>4 DEF Closes, At
  <2>2. worker[w].engine \in Engine /\ worker[w].health = "off" /\ worker[w].secret # None
    BY <1>1, <2>1 DEF WorkerOK, WorkerState
  <2>3. WorkerOK(r) /\ r.at = "ended" /\ r.secret = worker[w].secret
    BY <1>1, <2>2 DEF WorkerOK, WorkerState, Disposed
  <2>4. WorkerOK(q) /\ q.at = "ended" /\ q.secret = worker[w].secret
    BY <1>1, <2>2 DEF WorkerOK, WorkerState
  <2> HIDE DEF r, q
  <2>5. \E s \in {r, q} : Moves(w) /\ worker'[w] = s
    BY <2>1, <2>3, <2>4, MovesTo
  <2> QED BY <1>1, <2>3, <2>4, <2>5 DEF Seen
<1>5. CASE Exits(w)
  BY <1>1, <1>5, GoneMoves DEF Exits
<1> QED BY <1>2, <1>3, <1>4, <1>5 DEF CloseStep

WorkerStep(w) == StartStep(w) \/ HealthStep(w) \/ CloseStep(w) \/ Killed(w)

LEMMA WorkerMoves ==
  ASSUME TypeOK, WorkersOK, NEW w \in Worker, WorkerStep(w)
  PROVE  Moves(w) /\ Seen(w)
<1>1. CASE StartStep(w)
  BY <1>1, WifiMoves, SecretMoves, DatabaseMoves DEF StartStep
<1>2. CASE HealthStep(w) \/ CloseStep(w)
  BY <1>2, HealthMoves, CloseMoves
<1>3. CASE Killed(w)
  BY <1>3, GoneMoves DEF Killed, Live
<1> QED BY <1>1, <1>2, <1>3 DEF WorkerStep

-------------------------------------------------------------------------------
(* The steps of gunicorn, which may start a worker and tell all to stop.   *)

(* Nothing of a worker changes but told, except that some may start          *)
Others ==
  /\ worker' \in [Worker -> WorkerState]
  /\ \A v \in Worker :
       \/ /\ worker'[v].at = worker[v].at /\ worker'[v].secret = worker[v].secret
          /\ worker'[v].todo = worker[v].todo /\ worker'[v].seen = worker[v].seen
       \/ worker'[v].at = "readiness" /\ worker'[v].secret = None

LEMMA BornIsOK ==
  WorkerOK(Born) /\ Born.at = "readiness" /\ Born.secret = None
<1>1. /\ Gone \in WorkerState /\ Gone.open = {} /\ Gone.health = "off"
      /\ "readiness" \in Phase
  BY GoneIsOK DEF WorkerOK, Gone, Phase
<1>2. /\ Born \in WorkerState /\ Born.at = "readiness" /\ Born.secret = Gone.secret
      /\ Born.open = {} /\ Born.health = "off"
  BY <1>1 DEF Born, WorkerState
<1> QED BY <1>1, <1>2, GoneIsOK DEF WorkerOK

LEMMA ToldIsOK ==
  ASSUME NEW local, WorkerOK(local), NEW b \in BOOLEAN, NEW r, r = [local EXCEPT !.told = b]
  PROVE  /\ WorkerOK(r) /\ r.at = local.at /\ r.secret = local.secret
         /\ r.todo = local.todo /\ r.seen = local.seen
BY DEF WorkerOK, WorkerState

LEMMA SpawnMoves ==
  ASSUME TypeOK, WorkersOK, Spawn
  PROVE  WorkersOK' /\ Others /\ \A v, w \in Live' : v = w
<1> DEFINE f == Fresh(Worker)
<1>1. Live = {} /\ Goes(f, Born)
  BY DEF Spawn
<1> HIDE DEF f
<1>2. /\ worker \in [Worker -> WorkerState]
      /\ \A v \in Worker : WorkerOK(worker[v]) /\ worker[v].at = "none"
  BY <1>1 DEF TypeOK, WorkersOK, Live
<1>3. \A v \in Worker : worker'[v] = IF v = f THEN Born ELSE worker[v]
  BY <1>1, <1>2 DEF Goes
<1>4. worker' \in [Worker -> WorkerState]
  BY <1>1, <1>2, BornIsOK DEF Goes, WorkerOK
<1>5. Others /\ WorkersOK'
  BY <1>2, <1>3, <1>4, BornIsOK DEF WorkersOK, Others
<1>6. \A v \in Live' : v = f
  BY <1>2, <1>3 DEF Live
<1> QED BY <1>5, <1>6

LEMMA ReloadMoves ==
  ASSUME TypeOK, WorkersOK, Reload
  PROVE  WorkersOK' /\ Others /\ Live # {}
<1> DEFINE f == Fresh(Worker \ Live)
           told(v) == [worker[v] EXCEPT !.told = worker[v].at # "none"]
<1>1. worker' = [v \in Worker |-> IF v = f THEN Born ELSE told(v)] /\ Live # {}
  BY DEF Reload
<1>2. ASSUME NEW v \in Worker
      PROVE  /\ WorkerOK(told(v)) /\ told(v).at = worker[v].at
             /\ told(v).secret = worker[v].secret
             /\ told(v).todo = worker[v].todo /\ told(v).seen = worker[v].seen
  BY ToldIsOK DEF WorkersOK
<1> HIDE DEF f, told
<1>3. worker' \in [Worker -> WorkerState]
  BY <1>1, <1>2, BornIsOK DEF WorkerOK
<1> QED BY <1>1, <1>2, <1>3, BornIsOK DEF WorkersOK, Others

LEMMA StopMoves ==
  ASSUME TypeOK, WorkersOK, UnitStops
  PROVE  WorkersOK' /\ Others /\ Live' = Live /\ \A v \in Worker : worker'[v].at = worker[v].at
<1> DEFINE told(v) == [worker[v] EXCEPT !.told = v \in Live]
<1>1. worker' = [v \in Worker |-> told(v)]
  BY DEF UnitStops
<1>2. ASSUME NEW v \in Worker
      PROVE  /\ WorkerOK(told(v)) /\ told(v).at = worker[v].at
             /\ told(v).secret = worker[v].secret
             /\ told(v).todo = worker[v].todo /\ told(v).seen = worker[v].seen
  <2>1. (v \in Live) \in BOOLEAN /\ WorkerOK(worker[v])
    BY DEF WorkersOK
  <2> QED BY <2>1, ToldIsOK
<1> HIDE DEF told
<1>3. worker' \in [Worker -> WorkerState]
  BY <1>1, <1>2 DEF WorkerOK
<1>4. \A v \in Worker : worker'[v] = told(v)
  BY <1>1
<1>5. Others /\ WorkersOK'
  BY <1>2, <1>3, <1>4 DEF WorkersOK, Others
<1>6. Live' = Live
  BY <1>2, <1>4 DEF Live
<1> QED BY <1>2, <1>4, <1>5, <1>6

-------------------------------------------------------------------------------
(* The types of what outlives a worker.                                    *)

WorldOK ==
  /\ unit \in [at : {"starting", "on", "stopping", "given_up"}, failed : Nat]
  /\ net \in NetState
  /\ file \in Secret \cup {None, Empty} /\ signed \in Secret \cup {None, Empty}
  /\ tables \in BOOLEAN /\ raced \in BOOLEAN
  /\ left \in [Disturbance -> Nat]

LEMMA HappensOK ==
  ASSUME left \in [Disturbance -> Nat], NEW k, Happens(k)
  PROVE  left' \in [Disturbance -> Nat]
<1>1. CASE k \in Disturbance
  <2>1. left[k] - 1 \in Nat
    BY <1>1 DEF Happens
  <2> QED BY <1>1, <2>1 DEF Happens
<1>2. CASE k \notin Disturbance
  BY <1>2 DEF Happens
<1> QED BY <1>1, <1>2

LEMMA BootErrorOK ==
  ASSUME unit \in [at : {"starting", "on", "stopping", "given_up"}, failed : Nat],
         NEW w, BootError(w)
  PROVE  unit' \in [at : {"starting", "on", "stopping", "given_up"}, failed : Nat]
BY DEF BootError

LEMMA WorkerStepWorld ==
  ASSUME TypeOK, WorkersOK, NEW w \in Worker, WorkerStep(w)
  PROVE  WorldOK'
<1>1. WorldOK
  BY DEF TypeOK, WorldOK
<1>2. Calm \/ (\E k \in {"fault", "crash"} : Happens(k))
  <2>1. CASE StartStep(w)
    BY <2>1 DEF StartStep, ReadinessFails, Ready, WifiSkipped, WifiLook, DeleteUnused, Pair, WifiDone,
       SecretFails, SecretLoaded, SecretOpened, SecretWritten, SecretKept,
       DatabaseMade, DatabaseReady, DatabaseFails, Serves
  <2>2. CASE HealthStep(w)
    BY <2>2 DEF HealthStep, Wakes, Queried, ResetManager, ResetFails, Recovered, NotRecovered
  <2>3. CASE CloseStep(w) \/ Killed(w)
    BY <2>3 DEF CloseStep, Drains, StopsHealthChecks, Closes, Exits, Killed
  <2> QED BY <2>1, <2>2, <2>3 DEF WorkerStep
<1>3. left' \in [Disturbance -> Nat]
  BY <1>1, <1>2, HappensOK DEF WorldOK, Calm
<1>4. unit' \in [at : {"starting", "on", "stopping", "given_up"}, failed : Nat]
  <2>1. UNCHANGED unit \/ BootError(w)
    <3>1. CASE StartStep(w)
      BY <3>1 DEF StartStep, ReadinessFails, Ready, WifiSkipped, WifiLook, DeleteUnused, Pair,
         WifiDone, SecretFails, SecretLoaded, SecretOpened, SecretWritten, SecretKept,
         DatabaseMade, DatabaseReady, DatabaseFails, Serves, Initialize, world
    <3>2. CASE HealthStep(w)
      BY <3>2 DEF HealthStep, Wakes, Queried, ResetManager, ResetFails, Recovered, NotRecovered,
         Initialize, world
    <3>3. CASE CloseStep(w) \/ Killed(w)
      BY <3>3 DEF CloseStep, Drains, StopsHealthChecks, Closes, Exits, Killed, world
    <3> QED BY <3>1, <3>2, <3>3 DEF WorkerStep
  <2> QED BY <1>1, <2>1, BootErrorOK DEF WorldOK
<1>5. CASE UNCHANGED <<file, tables, net, signed, raced>>
  BY <1>1, <1>3, <1>4, <1>5 DEF WorldOK
<1>6. CASE DeleteUnused(w)
  <2> DEFINE gone == {m[1] : m \in {u \in {m \in worker[w].seen :
                        \A i \in worker[w].todo : On[i] # m[2]} : net.mon[u[1]] \notin net.away}}
             mon == [n \in Phy |-> IF n \in gone THEN None ELSE net.mon[n]]
  <2>1. net' = [net EXCEPT !.mon = mon] /\ UNCHANGED <<unit, file, tables, signed, raced>>
    BY <1>6 DEF DeleteUnused
  <2>2. mon \in [Phy -> Phy \cup {None}]
    BY <1>1 DEF WorldOK, NetState
  <2> HIDE DEF mon
  <2>3. net' \in NetState
    BY <1>1, <2>1, <2>2 DEF WorldOK, NetState
  <2> QED BY <1>1, <1>3, <1>4, <2>1, <2>3 DEF WorldOK
<1>7. ASSUME NEW i \in Iface, Pair(w, i)
      PROVE  WorldOK'
  <2>1. (net' = Created(On[i]) \/ net' = net) /\ UNCHANGED <<unit, file, tables, signed, raced>>
    BY <1>7 DEF Pair
  <2>2. Created(On[i]) \in NetState
    BY <1>1, PhyAssumption DEF Created, WorldOK, NetState
  <2>3. net' \in NetState
    BY <1>1, <2>1, <2>2 DEF WorldOK
  <2> QED BY <1>1, <1>3, <1>4, <2>1, <2>3 DEF WorldOK
<1>8. CASE SecretOpened(w) \/ SecretWritten(w)
  <2>1. file' \in Secret \cup {Empty} /\ UNCHANGED <<unit, tables, net, signed, raced>>
    BY <1>8 DEF SecretOpened, SecretWritten
  <2> QED BY <1>1, <1>3, <1>4, <2>1 DEF WorldOK
<1>9. CASE DatabaseReady(w) \/ Recovered(w)
  <2>1. Initialize(worker[w])
    BY <1>9 DEF DatabaseReady, Recovered
  <2>2. tables' \in BOOLEAN
    BY <1>1, <2>1 DEF Initialize, WorldOK
  <2> QED BY <1>1, <1>3, <1>4, <2>1, <2>2 DEF Initialize, WorldOK
<1>11. CASE WifiLook(w)
  <2>1. PICK missed \in SUBSET Phy : net' = [net EXCEPT !.missed = missed]
    <3>1. PICK hidden \in SUBSET Phy : net' = [net EXCEPT !.missed =
                 @ \cup {net.mon[m] : m \in {n \in hidden : net.mon[n] \notin {n, None}}}]
      BY <1>11 DEF WifiLook
    <3>2. net.missed \cup {net.mon[m] : m \in {n \in hidden : net.mon[n] \notin {n, None}}}
            \in SUBSET Phy
      BY <1>1 DEF WorldOK, NetState
    <3> QED BY <3>1, <3>2
  <2>2. net' \in NetState /\ UNCHANGED <<unit, file, tables, signed, raced>>
    BY <1>1, <1>11, <2>1 DEF WorldOK, NetState, WifiLook
  <2> QED BY <1>1, <1>3, <1>4, <2>2 DEF WorldOK
<1>10. \/ UNCHANGED <<file, tables, net, signed, raced>>
       \/ WifiLook(w) \/ DeleteUnused(w) \/ (\E i \in Iface : Pair(w, i))
       \/ SecretOpened(w) \/ SecretWritten(w)
       \/ DatabaseReady(w) \/ Recovered(w)
  <2>1. CASE StartStep(w)
    BY <2>1 DEF StartStep, ReadinessFails, Ready, WifiSkipped, WifiDone,
       SecretFails, SecretLoaded, SecretKept, DatabaseMade, DatabaseFails, Serves, world
  <2>2. CASE HealthStep(w)
    BY <2>2 DEF HealthStep, Wakes, Queried, ResetManager, ResetFails, NotRecovered, world
  <2>3. CASE CloseStep(w) \/ Killed(w)
    BY <2>3 DEF CloseStep, Drains, StopsHealthChecks, Closes, Exits, Killed, world
  <2> QED BY <2>1, <2>2, <2>3 DEF WorkerStep
<1> QED BY <1>5, <1>6, <1>7, <1>8, <1>9, <1>10, <1>11

(* The steps of gunicorn, systemd and others, which are no worker's own      *)
OtherStep ==
  \/ UnitStarts \/ PreflightFails \/ UnitStopped \/ Spawn \/ Reload \/ UnitStops
  \/ TablesLost \/ NetChanges \/ GetjwtReads \/ GetjwtAnswered

LEMMA OtherStepWorld ==
  ASSUME TypeOK, OtherStep
  PROVE  WorldOK'
<1>1. WorldOK
  BY DEF TypeOK, WorldOK
<1>2. left' \in [Disturbance -> Nat]
  <2>1. Calm \/ (\E k \in {"fault", "reload", "restart", "getjwt", "loss", "net"} : Happens(k))
    BY DEF OtherStep, UnitStarts, PreflightFails, UnitStopped, Spawn, Reload, UnitStops,
       TablesLost, NetChanges, GetjwtReads, GetjwtAnswered
  <2> QED BY <1>1, <2>1, HappensOK DEF WorldOK, Calm
<1>3. CASE UnitStarts \/ PreflightFails \/ UnitStopped \/ Spawn \/ UnitStops
  <2>1. UNCHANGED <<file, tables, net, signed, raced>>
    BY <1>3 DEF UnitStarts, PreflightFails, UnitStopped, Spawn, UnitStops, world
  <2>2. unit' \in [at : {"starting", "on", "stopping", "given_up"}, failed : Nat]
    BY <1>1, <1>3 DEF WorldOK, UnitStarts, PreflightFails, UnitStopped, Spawn, UnitStops, world
  <2> QED BY <1>1, <1>2, <2>1, <2>2 DEF WorldOK
<1>4. CASE Reload
  <2>1. raced' \in BOOLEAN /\ UNCHANGED <<unit, file, tables, net, signed>>
    BY <1>1, <1>4 DEF Reload, WorldOK
  <2> QED BY <1>1, <1>2, <2>1 DEF WorldOK
<1>5. CASE NetChanges
  <2>1. UNCHANGED <<unit, file, tables, signed, raced>>
    BY <1>5 DEF NetChanges
  <2>2. net' \in NetState
    BY <1>1, <1>5 DEF WorldOK, NetChanges, NetState
  <2> QED BY <1>1, <1>2, <2>1, <2>2 DEF WorldOK
<1>6. CASE TablesLost \/ GetjwtReads \/ GetjwtAnswered
  BY <1>1, <1>2, <1>6 DEF WorldOK, TablesLost, GetjwtReads, GetjwtAnswered
<1> QED BY <1>3, <1>4, <1>5, <1>6 DEF OtherStep

-------------------------------------------------------------------------------
(* One secret, through kills, restarts and reloads.                        *)

(* With a file that is not written yet, a worker that is live is alone       *)
LEMMA AloneWithoutFile ==
  ASSUME TypeOK, WorkersOK, OneSecret, ~raced, file \notin Secret, NEW w \in Live
  PROVE  /\ \A v \in Worker : worker[v].secret = None
         /\ \A v \in Worker \ {w} : worker[v].at = "none"
         /\ signed \notin Secret
<1>1. \A v \in Worker : worker[v].secret \in {None, file} /\ worker[v].secret \in Secret \cup {None}
  BY DEF OneSecret, WorkersOK, WorkerOK, WorkerState
<1> QED BY <1>1 DEF OneSecret, Live

LEMMA WorkerStepSecret ==
  ASSUME LifeInvariant, NEW w \in Worker, WorkerStep(w)
  PROVE  OneSecret'
<1> SUFFICES ASSUME ~raced' PROVE OneSecret'
  BY DEF OneSecret
<1>1. /\ TypeOK /\ WorkersOK /\ OneSecret
      /\ Moves(w) /\ Seen(w) /\ w \in Live /\ Live' \subseteq Live
  <2>1. TypeOK /\ WorkersOK /\ OneSecret
    BY DEF LifeInvariant
  <2>2. Moves(w) /\ Seen(w)
    BY <2>1, WorkerMoves
  <2> QED BY <2>1, <2>2 DEF Moves, Seen, Live
<1>2. UNCHANGED <<signed, raced>>
  <2>1. CASE StartStep(w)
    BY <2>1 DEF StartStep, ReadinessFails, Ready, WifiSkipped, WifiLook, DeleteUnused, Pair,
       WifiDone, SecretFails, SecretLoaded, SecretOpened, SecretWritten, SecretKept,
       DatabaseMade, DatabaseReady, DatabaseFails, Serves, Initialize, world
  <2>2. CASE HealthStep(w)
    BY <2>2 DEF HealthStep, Wakes, Queried, ResetManager, ResetFails, Recovered, NotRecovered,
       Initialize, world
  <2>3. CASE CloseStep(w) \/ Killed(w)
    BY <2>3 DEF CloseStep, Drains, StopsHealthChecks, Closes, Exits, Killed, world
  <2> QED BY <2>1, <2>2, <2>3 DEF WorkerStep
<1>3. CASE SecretOpened(w)
  <2>1. file' = Empty /\ file \notin Secret /\ worker'[w].secret = worker[w].secret
    <3>1. worker'[w].secret = worker[w].secret
      BY <1>1, <1>3 DEF SecretOpened, Becomes, Goes, TypeOK, WorkerState
    <3> QED BY <1>3, <3>1, NoneAssumption DEF SecretOpened, MakesSecret
  <2>2. /\ \A v \in Worker : worker'[v].secret = None
        /\ \A v \in Live' : v = w
        /\ signed' \notin Secret
    BY <1>1, <1>2, <2>1, AloneWithoutFile DEF Moves, Live
  <2> QED BY <2>1, <2>2 DEF OneSecret
<1>4. CASE SecretWritten(w)
  <2>1. file = Empty /\ file \notin Secret
    BY <1>1, <1>2, <1>4, NoneAssumption DEF SecretWritten, OneSecret
  <2>2. worker'[w].secret = file' /\ worker'[w].at = "mode"
    BY <1>1, <1>4 DEF SecretWritten, Goes, TypeOK, WorkerState
  <2>3. /\ \A v \in Worker \ {w} : worker'[v].secret = None /\ worker'[v].at = "none"
        /\ signed' \notin Secret
    BY <1>1, <1>2, <2>1, AloneWithoutFile DEF Moves
  <2> QED BY <2>2, <2>3 DEF OneSecret, At, Live
<1>5. CASE ~SecretOpened(w) /\ ~SecretWritten(w)
  <2>1. file' = file
    <3>1. CASE StartStep(w)
      BY <1>5, <3>1 DEF StartStep, ReadinessFails, Ready, WifiSkipped, WifiLook, DeleteUnused, Pair,
         WifiDone, SecretFails, SecretLoaded, SecretKept,
         DatabaseMade, DatabaseReady, DatabaseFails, Serves, Initialize, world
    <3>2. CASE HealthStep(w)
      BY <3>2 DEF HealthStep, Wakes, Queried, ResetManager, ResetFails, Recovered, NotRecovered,
         Initialize, world
    <3>3. CASE CloseStep(w) \/ Killed(w)
      BY <3>3 DEF CloseStep, Drains, StopsHealthChecks, Closes, Exits, Killed, world
    <3> QED BY <3>1, <3>2, <3>3 DEF WorkerStep
  <2>2. \A v \in Worker : worker'[v].secret \in {None, file}
    BY <1>1, <1>2, <1>5 DEF Moves, Seen, OneSecret
  <2>3. \A v \in Worker : At(v, "write")' => At(v, "write")
    BY <1>1, <1>5 DEF Moves, Seen, At
  <2> QED BY <1>1, <1>2, <2>1, <2>2, <2>3 DEF OneSecret
<1> QED BY <1>3, <1>4, <1>5

LEMMA OtherStepSecret ==
  ASSUME LifeInvariant, OtherStep
  PROVE  OneSecret'
<1> SUFFICES ASSUME ~raced' PROVE OneSecret'
  BY DEF OneSecret
<1>1. TypeOK /\ WorkersOK /\ OneSecret
  BY DEF LifeInvariant
<1>2. CASE Spawn
  <2>1. Others /\ (\A v, w \in Live' : v = w) /\ UNCHANGED <<file, signed, raced>>
    BY <1>1, <1>2, SpawnMoves DEF Spawn, world
  <2> QED BY <1>1, <2>1 DEF OneSecret, Others, At
<1>3. CASE Reload
  <2>1. Others /\ Live # {} /\ UNCHANGED <<file, signed>>
    BY <1>1, <1>3, ReloadMoves DEF Reload
  <2>2. ~raced /\ \A v \in Live : worker[v].secret # None
    BY <1>1, <1>3 DEF Reload, TypeOK
  <2>3. file \in Secret
    BY <1>1, <2>1, <2>2 DEF OneSecret, Live, WorkersOK, WorkerOK, WorkerState
  <2>4. \A v \in Worker : ~At(v, "write")'
    BY <1>1, <2>1, <2>2, <2>3, NoneAssumption DEF OneSecret, Others, At
  <2> QED BY <1>1, <2>1, <2>2, <2>3, <2>4 DEF OneSecret, Others
<1>4. CASE UnitStops
  <2>1. /\ Others /\ Live' = Live /\ UNCHANGED <<file, signed, raced>>
        /\ \A v \in Worker : worker'[v].at = worker[v].at
    BY <1>1, <1>4, StopMoves DEF UnitStops
  <2> QED BY <1>1, <2>1 DEF OneSecret, Others, At
<1>5. CASE UnitStarts \/ PreflightFails \/ UnitStopped \/ TablesLost \/ NetChanges
           \/ GetjwtReads \/ GetjwtAnswered
  <2>1. UNCHANGED <<worker, file, raced>> /\ signed' \in {signed, file, None}
    BY <1>5 DEF UnitStarts, PreflightFails, UnitStopped, TablesLost, NetChanges,
       GetjwtReads, GetjwtAnswered
  <2>2. Live' = Live /\ \A v \in Worker : At(v, "write")' <=> At(v, "write")
    BY <2>1 DEF Live, At
  <2> QED BY <1>1, <2>1, <2>2, NoneAssumption DEF OneSecret
<1> QED BY <1>2, <1>3, <1>4, <1>5 DEF OtherStep

-------------------------------------------------------------------------------
(* One monitor of Core's on a radio.                                       *)

(* What a netdev's name stands for is kept, or it is deleted                 *)
LEMMA MonitorsSeenKept ==
  ASSUME TypeOK, MonitorsSeen, OneCoreMonitor,
         \A n \in Phy : net'.mon[n] \in {net.mon[n], None}, net.missed \subseteq net'.missed,
         \A v \in Worker : worker'[v].at \in {"delete", "pair"} =>
           /\ worker[v].at \in {"delete", "pair"}
           /\ worker'[v].todo \subseteq worker[v].todo /\ worker[v].seen \subseteq worker'[v].seen,
         \A v \in Worker : worker'[v].todo \subseteq Iface
  PROVE  MonitorsSeen' /\ OneCoreMonitor'
<1>1. \A i \in Iface : On[i] # None
  BY PhyAssumption, NoneAssumption
<1>2. MonitorsSeen'
  BY <1>1 DEF MonitorsSeen
<1>3. OneCoreMonitor'
  BY DEF OneCoreMonitor
<1> QED BY <1>2, <1>3

LEMMA WorkerStepNet ==
  ASSUME LifeInvariant, NEW w \in Worker, WorkerStep(w)
  PROVE  MonitorsSeen' /\ OneCoreMonitor'
<1>1. /\ TypeOK /\ WorkersOK /\ MonitorsSeen /\ OneCoreMonitor /\ Moves(w) /\ Seen(w)
      /\ net \in NetState /\ worker[w] \in WorkerState
  <2>1. TypeOK /\ WorkersOK /\ MonitorsSeen /\ OneCoreMonitor
    BY DEF LifeInvariant
  <2> QED BY <2>1, WorkerMoves DEF TypeOK
<1>2. \A v \in Worker : worker'[v].todo \subseteq Iface
  BY <1>1 DEF Moves, WorkerState
<1>3. CASE WifiLook(w)
  <2>1. PICK unread \in SUBSET Iface, hidden \in SUBSET Phy :
          /\ Goes(w, [worker[w] EXCEPT
                !.at = "delete", !.todo = {i \in Iface \ unread : Present(i)},
                !.seen = {<<n, net.mon[n]>> :
                            n \in {m \in Phy \ hidden : net.mon[m] \notin net.away \cup {None}}}])
          /\ net' = [net EXCEPT !.missed =
               @ \cup {net.mon[m] : m \in {n \in hidden : net.mon[n] \notin {n, None}}}]
    BY <1>3 DEF WifiLook
  <2>2. /\ worker'[w].todo = {i \in Iface \ unread : Present(i)}
        /\ worker'[w].seen = {<<n, net.mon[n]>> :
                                n \in {m \in Phy \ hidden : net.mon[m] \notin net.away \cup {None}}}
    BY <1>1, <2>1 DEF Goes, TypeOK, WorkerState
  <2>3. \A i \in Iface : On[i] # None
    BY PhyAssumption, NoneAssumption
  <2>4. /\ net'.mon = net.mon /\ net.missed \subseteq net'.missed
        /\ \A n \in hidden : net.mon[n] \in {n, None} \/ net.mon[n] \in net'.missed
    BY <1>1, <2>1 DEF NetState
  <2>5. \A i \in worker'[w].todo, n \in Phy : net'.mon[n] = On[i] =>
           n = On[i] \/ On[i] \in net'.missed \/ <<n, On[i]>> \in worker'[w].seen
    BY <2>2, <2>3, <2>4 DEF Present
  <2>6. \A v \in Worker \ {w} : worker'[v].at \in {"delete", "pair"} =>
           \A i \in worker'[v].todo, n \in Phy : net'.mon[n] = On[i] =>
             n = On[i] \/ On[i] \in net'.missed \/ <<n, On[i]>> \in worker'[v].seen
    BY <1>1, <2>4 DEF Moves, MonitorsSeen
  <2>7. MonitorsSeen'
    BY <2>5, <2>6 DEF MonitorsSeen
  <2> QED BY <1>1, <2>4, <2>7 DEF OneCoreMonitor
<1>4. ~WifiLook(w) => \A v \in Worker : worker'[v].at \in {"delete", "pair"} =>
           /\ worker[v].at \in {"delete", "pair"}
           /\ worker'[v].todo \subseteq worker[v].todo /\ worker[v].seen \subseteq worker'[v].seen
  BY <1>1 DEF Moves, Seen
<1>5. ASSUME NEW i \in Iface, Pair(w, i), net' # net
      PROVE  MonitorsSeen' /\ OneCoreMonitor'
  <2> DEFINE p == On[i]
  <2>1. /\ net' = Created(p) /\ ~HasCoreMonitor(worker[w].seen, p)
        /\ i \in worker[w].todo /\ worker[w].at = "pair" /\ ~WifiLook(w)
    BY <1>5 DEF Pair, At, WifiLook
  <2>2. p \in Phy /\ p # None
    BY PhyAssumption, NoneAssumption
  <2>3. /\ \A n \in Phy \ {p} :
             net'.mon[n] = net.mon[n] /\ (net.mon[n] # p \/ p \in net.missed)
        /\ net'.missed = net.missed
        /\ net'.mon[p] = IF net.mon[p] = None THEN p ELSE net.mon[p]
    <3>1. \A n \in Phy : net.mon[n] = p =>
             n = p \/ p \in net.missed \/ <<n, p>> \in worker[w].seen
      BY <1>1, <2>1 DEF MonitorsSeen
    <3>2. \A n \in Phy : <<n, p>> \notin worker[w].seen
      BY <2>1 DEF HasCoreMonitor
    <3>3. net' = [net EXCEPT !.mon[p] = IF @ = None THEN p ELSE @]
      BY <2>1 DEF Created
    <3> QED BY <1>1, <2>2, <3>1, <3>2, <3>3 DEF NetState
  <2>4. OneCoreMonitor'
    BY <1>1, <2>2, <2>3 DEF OneCoreMonitor
  <2>5. MonitorsSeen'
    <3> SUFFICES ASSUME NEW v \in Worker, worker'[v].at \in {"delete", "pair"},
                        NEW j \in worker'[v].todo, NEW n \in Phy, net'.mon[n] = On[j], n # On[j],
                        On[j] \notin net'.missed
                 PROVE  <<n, On[j]>> \in worker'[v].seen
      BY DEF MonitorsSeen
    <3>1. /\ worker[v].at \in {"delete", "pair"} /\ j \in worker[v].todo
          /\ worker[v].seen \subseteq worker'[v].seen
      BY <1>4, <2>1
    <3>2. net.mon[n] = On[j]
      BY <2>2, <2>3
    <3> QED BY <1>1, <2>3, <3>1, <3>2 DEF MonitorsSeen
  <2> QED BY <2>4, <2>5
<1>6. ASSUME ~WifiLook(w), \A i \in Iface : ~(Pair(w, i) /\ net' # net)
      PROVE  MonitorsSeen' /\ OneCoreMonitor'
  <2>1. net' = net \/ DeleteUnused(w)
    <3>1. CASE StartStep(w)
      BY <1>6, <3>1 DEF StartStep, ReadinessFails, Ready, WifiSkipped,
         WifiDone, SecretFails, SecretLoaded, SecretOpened, SecretWritten, SecretKept,
         DatabaseMade, DatabaseReady, DatabaseFails, Serves, Initialize, world
    <3>2. CASE HealthStep(w)
      BY <3>2 DEF HealthStep, Wakes, Queried, ResetManager, ResetFails, Recovered, NotRecovered,
         Initialize, world
    <3>3. CASE CloseStep(w) \/ Killed(w)
      BY <3>3 DEF CloseStep, Drains, StopsHealthChecks, Closes, Exits, Killed, world
    <3> QED BY <3>1, <3>2, <3>3 DEF WorkerStep
  <2>2. net'.missed = net.missed /\ \A n \in Phy : net'.mon[n] \in {net.mon[n], None}
    <3>1. CASE DeleteUnused(w)
      <4> DEFINE gone == {m[1] : m \in {u \in {m \in worker[w].seen :
                            \A i \in worker[w].todo : On[i] # m[2]} : net.mon[u[1]] \notin net.away}}
      <4>1. net' = [net EXCEPT !.mon = [n \in Phy |-> IF n \in gone THEN None ELSE net.mon[n]]]
        BY <3>1 DEF DeleteUnused
      <4> HIDE DEF gone
      <4> QED BY <1>1, <4>1 DEF NetState
    <3> QED BY <2>1, <3>1
  <2> QED BY <1>1, <1>2, <1>4, <1>6, <2>2, MonitorsSeenKept
<1> QED BY <1>3, <1>5, <1>6

LEMMA OtherStepNet ==
  ASSUME LifeInvariant, OtherStep, worker' \in [Worker -> WorkerState]
  PROVE  MonitorsSeen' /\ OneCoreMonitor'
<1>1. TypeOK /\ WorkersOK /\ MonitorsSeen /\ OneCoreMonitor /\ net \in NetState
  BY DEF LifeInvariant, TypeOK
<1>2. net'.mon = net.mon /\ net'.missed = net.missed
  <2>1. CASE NetChanges
    BY <1>1, <2>1 DEF NetChanges, NetState
  <2>2. CASE ~NetChanges
    BY <2>2 DEF OtherStep, UnitStarts, PreflightFails, UnitStopped, Spawn, Reload, UnitStops,
       TablesLost, GetjwtReads, GetjwtAnswered, world
  <2> QED BY <2>1, <2>2
<1>3. \A v \in Worker : worker'[v].at \in {"delete", "pair"} =>
           /\ worker[v].at \in {"delete", "pair"}
           /\ worker'[v].todo \subseteq worker[v].todo /\ worker[v].seen \subseteq worker'[v].seen
  <2>1. CASE Spawn \/ Reload \/ UnitStops
    BY <1>1, <2>1, SpawnMoves, ReloadMoves, StopMoves DEF Others
  <2>2. CASE ~(Spawn \/ Reload \/ UnitStops)
    BY <2>2 DEF OtherStep, UnitStarts, PreflightFails, UnitStopped,
       TablesLost, NetChanges, GetjwtReads, GetjwtAnswered
  <2> QED BY <2>1, <2>2
<1>4. \A v \in Worker : worker'[v].todo \subseteq Iface
  BY DEF WorkerState
<1> QED BY <1>1, <1>2, <1>3, <1>4, MonitorsSeenKept

-------------------------------------------------------------------------------
(* The invariant and what follows.                                         *)

LEMMA NextCases ==
  Next => (\E w \in Worker : WorkerStep(w)) \/ OtherStep
BY DEF Next, UnitStep, Disturbed, WorkerStep, OtherStep

LEMMA LifeInvariantInit ==
  Init => LifeInvariant
<1> SUFFICES ASSUME Init PROVE LifeInvariant
  OBVIOUS
<1>1. worker = [w \in Worker |-> Gone] /\ \A w \in Worker : worker[w] = Gone
  BY DEF Init
<1>2. worker \in [Worker -> WorkerState] /\ WorkersOK
  BY <1>1, GoneIsOK DEF WorkersOK, WorkerOK
<1>3. net \in NetState /\ OneCoreMonitor
  <2>1. PICK mon \in [Phy -> Phy \cup {None}] :
           /\ \A p, q \in Phy : p # q /\ mon[p] = mon[q] => mon[p] = None
           /\ net = [mon |-> mon, managed |-> Iface, away |-> {}, missed |-> {}]
    BY DEF Init
  <2> QED BY <2>1 DEF NetState, OneCoreMonitor
<1>4. file \in {None, Empty} \cup Secret
  BY SizeAssumption DEF Init
<1>5. TypeOK
  BY <1>2, <1>3, <1>4, MixAssumption DEF Init, TypeOK
<1>6. OneSecret
  BY <1>1, GoneIsOK, NoneAssumption DEF Init, OneSecret, Live, At
<1>7. MonitorsSeen
  BY <1>1, GoneIsOK DEF MonitorsSeen
<1> QED BY <1>2, <1>3, <1>5, <1>6, <1>7 DEF LifeInvariant

LEMMA LifeInvariantNext ==
  LifeInvariant /\ [Next]_vars => LifeInvariant'
<1> SUFFICES ASSUME LifeInvariant, [Next]_vars PROVE LifeInvariant'
  OBVIOUS
<1>1. TypeOK /\ WorkersOK
  BY DEF LifeInvariant
<1>2. ASSUME NEW w \in Worker, WorkerStep(w)
      PROVE  LifeInvariant'
  <2>1. Moves(w)
    BY <1>1, <1>2, WorkerMoves
  <2>2. worker' \in [Worker -> WorkerState] /\ WorkersOK'
    BY <1>1, <2>1 DEF Moves, WorkersOK
  <2>3. TypeOK'
    BY <1>1, <1>2, <2>2, WorkerStepWorld DEF TypeOK, WorldOK
  <2> QED BY <1>2, <2>2, <2>3, WorkerStepSecret, WorkerStepNet DEF LifeInvariant
<1>3. CASE OtherStep
  <2>1. worker' \in [Worker -> WorkerState] /\ WorkersOK'
    <3>1. CASE Spawn \/ Reload \/ UnitStops
      BY <1>1, <3>1, SpawnMoves, ReloadMoves, StopMoves DEF Others
    <3>2. CASE ~(Spawn \/ Reload \/ UnitStops)
      <4>1. worker' = worker
        BY <1>3, <3>2 DEF OtherStep, UnitStarts, PreflightFails, UnitStopped, TablesLost,
           NetChanges, GetjwtReads, GetjwtAnswered
      <4> QED BY <1>1, <4>1 DEF TypeOK, WorkersOK
    <3> QED BY <3>1, <3>2
  <2>2. TypeOK'
    BY <1>1, <1>3, <2>1, OtherStepWorld DEF TypeOK, WorldOK
  <2> QED BY <1>3, <2>1, <2>2, OtherStepSecret, OtherStepNet DEF LifeInvariant
<1>4. CASE UNCHANGED vars
  BY <1>4 DEF vars, LifeInvariant, TypeOK, WorkersOK, OneSecret, MonitorsSeen, OneCoreMonitor,
     Live, At
<1> QED BY <1>2, <1>3, <1>4, NextCases

(* Every state of the life of Core satisfies LifeInvariant: what each worker *)
(* has at each of its steps, who may write the secret, what the sync of the  *)
(* monitors has seen.                                                        *)
THEOREM WorkersAreKnown ==
  Spec => []LifeInvariant
<1>1. Init => LifeInvariant
  BY LifeInvariantInit
<1>2. LifeInvariant /\ [Next]_vars => LifeInvariant'
  BY LifeInvariantNext
<1> QED BY <1>1, <1>2, PTL DEF Spec

(* sync_monitor_interfaces never leaves two monitors of Core's on one radio, *)
(* whatever an older Core named, and whichever workers run it side by side,  *)
(* but where the read of a monitor that was numbered otherwise has failed.   *)
THEOREM MonitorsAreOnePerRadio ==
  Spec => []OneCoreMonitor
<1>1. LifeInvariant => OneCoreMonitor
  BY DEF LifeInvariant
<1> QED BY <1>1, WorkersAreKnown, PTL

(* A signature that getjwt made with the file's secret is accepted by every  *)
(* worker that serves, across kills, restarts and reloads, unless two        *)
(* workers raced to make the file.                                           *)
THEOREM SignaturesAreAccepted ==
  Spec => []SignedIsAccepted
<1>1. LifeInvariant => SignedIsAccepted
  <2> SUFFICES ASSUME LifeInvariant, signed \notin {None, Empty}, ~raced, NEW w \in Serving
               PROVE  AcceptsSigned(w, Request(signed))
    BY DEF SignedIsAccepted
  <2>1. signed \in Secret /\ signed = file
    BY DEF LifeInvariant, TypeOK, OneSecret
  <2>2. worker[w].secret = file
    BY DEF LifeInvariant, WorkersOK, WorkerOK, OneSecret, Serving
  <2> QED BY <2>1, <2>2, NoneAssumption DEF AcceptsSigned, VerifyHmac, IsLocalhost, Request
<1> QED BY <1>1, WorkersAreKnown, PTL

(* When a lifespan has ended every engine was disposed, or its dispose       *)
(* failed: the health check was awaited before the last manager is closed.   *)
THEOREM EnginesAreDisposed ==
  Spec => []EnginesDisposed
<1>1. LifeInvariant => EnginesDisposed
  BY DEF LifeInvariant, WorkersOK, WorkerOK, EnginesDisposed, At
<1> QED BY <1>1, WorkersAreKnown, PTL
================================================================================
