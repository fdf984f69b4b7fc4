----------------------------- MODULE MonitorsProofs -----------------------------
(***************************************************************************)
(* Proofs about connection monitors and the processes they leave, for any  *)
(* number of entries, monitors and pids.  The inductive invariant is       *)
(* MonitorInvariant.                                                       *)
(***************************************************************************)
EXTENDS Monitors, TLAPS

(* A thread at work is so for an entry, and one that waits for its process    *)
(* has its pid                                                                *)
ThreadsOK ==
  \A t \in Thread :
    /\ thread[t].pc # "idle" => thread[t].entry \in Entry
    /\ t \in Monitor => thread[t].pc \in MonitorPcs \cup AppPcs \cup {"idle"}
    /\ t = Handler => thread[t].pc \in HandlerPcs \cup AppPcs
    /\ thread[t].pc \in {"lease", "leaseShort", "record", "verify"} => thread[t].pid \in Pid

(* A change that waits for a monitor has told it to stop                      *)
JoinsTheTold ==
  thread[Handler].pc \in {"joinUp", "joinDown"} =>
    registry[thread[Handler].entry] \in told \cup {None}

(* A monitor whose effect began late does not get to another one              *)
LateIsLast ==
  \A m \in Monitor :
    \/ late[m] = 0
    \/ /\ late[m] = 1 /\ m \in told
       /\ thread[m].pc \in {"lease", "leaseShort", "leased", "record", "verify", "finish"}

(* Core's children are apps or their zombies                                  *)
ChildrenAreApps ==
  \A p \in owned : proc[p].what \in {"app", "zombie"} /\ proc[p].core

(* The pid that a thread has just been given is still what it started, or free *)
PidsAreFresh ==
  \A t \in Thread :
    LET p == thread[t].pid IN
    /\ thread[t].pc \in {"lease", "leaseShort"} =>
         proc[p].what \in {"fresh", "dhcpcd", "lost", "free"}
    /\ thread[t].pc \in {"record", "verify"} /\ p \in owned =>
         proc[p].for = At[thread[t].entry]

MonitorInvariant ==
  /\ TypeOK /\ ThreadsOK
  /\ NoUncontrolledMonitor /\ JoinsTheTold /\ LateIsLast
  /\ ChildrenAreApps /\ PidsAreFresh

-------------------------------------------------------------------------------
(* Types.                                                                  *)

LEMMA ProcessKinds ==
  /\ Free \in Process /\ Other \in Process
  /\ \A e \in Entry, w \in {"fresh", "dhcpcd", "lost"} : Dhcpcd(e, w) \in Process
  /\ \A pl \in Place, c \in BOOLEAN : App(pl, c) \in Process
BY DEF Process, Free, Other, Dhcpcd, App

(* A process that dies is gone or a zombie, one that writes its pidfile is a  *)
(* dhcpcd of an entry                                                         *)
LEMMA ProcessChanges ==
  ASSUME NEW x \in Process
  PROVE  /\ x.what \in {"app", "zombie"} /\ x.core => [x EXCEPT !.what = "zombie"] \in Process
         /\ x.what = "fresh" => /\ [x EXCEPT !.what = "dhcpcd"] \in Process
                                /\ x.for \in Entry
BY DEF Process

LEMMA DeadIsProcess ==
  ASSUME TypeOK, ChildrenAreApps, NEW p \in Pid
  PROVE  Dead(p) \in Process
BY ProcessKinds, ProcessChanges DEF Dead, ChildrenAreApps, TypeOK

(* Where one thread may go; Works is what ThreadsOK says of it               *)
Works(t, s) ==
  /\ s \in ThreadState
  /\ s.pc # "idle" => s.entry \in Entry
  /\ t \in Monitor => s.pc \in MonitorPcs \cup AppPcs \cup {"idle"}
  /\ t = Handler => s.pc \in HandlerPcs \cup AppPcs
  /\ s.pc \in {"lease", "leaseShort", "record", "verify"} => s.pid \in Pid

LEMMA AllWork ==
  ASSUME TypeOK, ThreadsOK
  PROVE  /\ \A t \in Thread : Works(t, thread[t])
         /\ Handler \in Thread /\ Handler \notin Monitor /\ Monitor \subseteq Thread
BY MonitorsAssumption DEF TypeOK, ThreadsOK, Works, Thread

(* Thread t moves, and no other                                              *)
Moves(t) ==
  /\ thread' \in [Thread -> ThreadState]
  /\ Works(t, thread'[t])
  /\ \A u \in Thread \ {t} : thread'[u] = thread[u]

LEMMA MovesKeepThreads ==
  ASSUME TypeOK, ThreadsOK, NEW t \in Thread, Moves(t)
  PROVE  ThreadsOK'
BY DEF TypeOK, ThreadsOK, Works, Moves

LEMMA MovesTo ==
  ASSUME TypeOK, NEW t \in Thread, NEW s, Works(t, s), thread' = [thread EXCEPT ![t] = s]
  PROVE  Moves(t) /\ thread'[t] = s
BY DEF TypeOK, Works, Moves

LEMMA GotoMoves ==
  ASSUME TypeOK, ThreadsOK, NEW t \in Thread, NEW pc, Goto(t, pc), ~At_(t, "idle"),
         \/ pc \in MonitorPcs \cup AppPcs /\ t \in Monitor
         \/ pc \in HandlerPcs \cup AppPcs /\ t = Handler,
         \/ pc \notin {"lease", "leaseShort", "record", "verify"}
         \/ thread[t].pid \in Pid
  PROVE  /\ Moves(t)
         /\ thread'[t].pc = pc /\ thread'[t].entry = thread[t].entry
         /\ thread'[t].pid = thread[t].pid
<1> DEFINE s == [thread[t] EXCEPT !.pc = pc]
<1>1. thread[t] \in ThreadState /\ thread[t].entry \in Entry
  BY DEF TypeOK, ThreadsOK, At_
<1>2. s \in ThreadState /\ s.pc = pc /\ s.entry = thread[t].entry /\ s.pid = thread[t].pid
  BY <1>1 DEF ThreadState
<1>3. Works(t, s)
  BY <1>1, <1>2, MonitorsAssumption DEF Works
<1>4. thread' = [thread EXCEPT ![t] = s]
  BY <1>1 DEF Goto, ThreadState
<1> HIDE DEF s
<1> QED BY <1>2, <1>3, <1>4, MovesTo

LEMMA IdleWorks == \A t \in Thread : Works(t, Idle) /\ Idle.pc = "idle"
BY MonitorsAssumption DEF Works, Idle, ThreadState, HandlerPcs

(* The steps of the handler, but for the one that starts a monitor           *)
LEMMA HandlerMoves ==
  ASSUME TypeOK, ThreadsOK,
         \/ \E e \in Entry : BeginUp(e) \/ BeginDown(e)
         \/ Joined /\ At_(Handler, "joinDown")
         \/ ReadAppFile \/ KillApp \/ SignalDhcp \/ RemoveDhcp
  PROVE  /\ Moves(Handler)
         /\ thread'[Handler].pc \notin {"lease", "leaseShort", "record", "verify"}
         /\ thread'[Handler].pc \in {"joinUp", "joinDown"} =>
              \E e \in Entry : thread'[Handler].entry = e /\ told' = TellToStop(e)
<1>1. /\ thread[Handler] \in ThreadState /\ Handler \in Thread /\ Handler \notin Monitor
      /\ Works(Handler, Idle) /\ Idle.pc = "idle"
  BY AllWork, IdleWorks DEF Works
<1>2. ASSUME NEW e \in Entry, NEW pc \in HandlerPcs \cup {"admit"},
             thread' = [thread EXCEPT ![Handler] = [Idle EXCEPT !.pc = pc, !.entry = e]]
      PROVE  Moves(Handler) /\ thread'[Handler].pc = pc /\ thread'[Handler].entry = e
  <2>1. /\ Works(Handler, [Idle EXCEPT !.pc = pc, !.entry = e])
        /\ [Idle EXCEPT !.pc = pc, !.entry = e].pc = pc
        /\ [Idle EXCEPT !.pc = pc, !.entry = e].entry = e
    BY <1>1 DEF Works, Idle, ThreadState, HandlerPcs, AppPcs
  <2> QED BY <1>1, <1>2, <2>1, MovesTo
<1>3. ASSUME NEW pc \in HandlerPcs, NEW p \in Pid \cup {None}, ~At_(Handler, "idle"),
             thread' = [thread EXCEPT ![Handler] = [@ EXCEPT !.pc = pc, !.pid = p]]
      PROVE  Moves(Handler) /\ thread'[Handler].pc = pc
  <2>1. /\ Works(Handler, [thread[Handler] EXCEPT !.pc = pc, !.pid = p])
        /\ [thread[Handler] EXCEPT !.pc = pc, !.pid = p].pc = pc
    BY <1>1, <1>3 DEF Works, At_, ThreadState, HandlerPcs, AppPcs, ThreadsOK
  <2> QED BY <1>1, <1>3, <2>1, MovesTo
<1>4. ASSUME thread' = [thread EXCEPT ![Handler] = Idle]
      PROVE  Moves(Handler) /\ thread'[Handler].pc = "idle"
  BY <1>1, <1>4, MovesTo
<1>5. ASSUME NEW pc \in HandlerPcs, HandlerGoes(pc), ~At_(Handler, "idle")
      PROVE  Moves(Handler) /\ thread'[Handler].pc = pc
  <2>1. CASE pc = "idle"
    BY <1>4, <1>5, <2>1 DEF HandlerGoes
  <2>2. CASE pc # "idle"
    BY <1>3, <1>5, <2>2 DEF HandlerGoes
  <2> QED BY <2>1, <2>2
<1>6. HandlerPcs = {"idle", "joinUp", "joinDown", "stopApp", "killApp", "signal", "remove"}
  BY DEF HandlerPcs
<1>7. CASE \E e \in Entry : BeginUp(e) \/ BeginDown(e)
  <2>1. PICK e \in Entry : BeginUp(e) \/ BeginDown(e)
    BY <1>7
  <2>2. \/ \E pc \in {"joinUp", "joinDown", "admit"} :
             /\ thread' = [thread EXCEPT ![Handler] = [Idle EXCEPT !.pc = pc, !.entry = e]]
             /\ pc # "admit" => told' = TellToStop(e)
        \/ thread' = [thread EXCEPT ![Handler] = Idle]
    BY <2>1 DEF BeginUp, BeginDown
  <2> QED BY <1>2, <1>4, <1>6, <2>2
<1>8. CASE Joined /\ At_(Handler, "joinDown")
  BY <1>5, <1>6, <1>8 DEF Joined, At_
<1>9. CASE ReadAppFile
  <2>1. appfile[At[thread[Handler].entry]] \in Pid \cup {None} /\ ~At_(Handler, "idle")
    BY <1>1, <1>9, MonitorsAssumption DEF ReadAppFile, At_, TypeOK, ThreadsOK
  <2>2. thread' = [thread EXCEPT ![Handler] =
                    [@ EXCEPT !.pc = "killApp", !.pid = appfile[At[thread[Handler].entry]]]]
    BY <1>1, <1>9 DEF ReadAppFile, ThreadState
  <2> QED BY <1>3, <1>6, <2>1, <2>2
<1>10. CASE KillApp
  BY <1>5, <1>6, <1>10 DEF KillApp, At_
<1>11. CASE SignalDhcp
  <2>1. CASE Goto(Handler, "remove")
    <3>1. ~At_(Handler, "idle") /\ "remove" \in HandlerPcs
      BY <1>6, <1>11 DEF SignalDhcp, At_
    <3> QED BY <1>1, <2>1, <3>1, GotoMoves
  <2> QED BY <1>4, <1>11, <2>1 DEF SignalDhcp
<1>12. CASE RemoveDhcp
  BY <1>4, <1>12 DEF RemoveDhcp
<1> QED BY <1>7, <1>8, <1>9, <1>10, <1>11, <1>12

(* A monitor keeps its entry until it is done                                *)
LEMMA MonitorMoves ==
  ASSUME TypeOK, ThreadsOK, NEW m \in Monitor, MonitorNext(m)
  PROVE  /\ Moves(m)
         /\ thread[m].pc # "idle"
         /\ thread'[m].pc # "idle" => thread'[m].entry = thread[m].entry
         /\ thread'[m].pc \in {"lease", "leaseShort"} =>
              /\ SpawnDhcp(m) /\ thread'[m].pid \in FreePids
              /\ proc' = [proc EXCEPT ![thread'[m].pid] = Dhcpcd(thread[m].entry, "fresh")]
         /\ thread'[m].pc \notin {"record", "verify"}
<1>1. /\ m \in Thread /\ m # Handler /\ thread[m] \in ThreadState
      /\ Works(m, Idle) /\ Idle.pc = "idle"
      /\ thread \in [Thread -> ThreadState]
  BY AllWork, IdleWorks DEF Works, TypeOK
<1>2. MonitorPcs = {"poll", "release", "releaseShort", "spawn", "spawnShort", "lease",
                    "leaseShort", "leased", "route", "finish"}
      /\ AppPcs = {"admit", "launch", "record", "verify"}
  BY DEF MonitorPcs, AppPcs
<1>3. ASSUME NEW pc \in (MonitorPcs \ {"lease", "leaseShort"}) \cup {"admit"}, Goto(m, pc),
             ~At_(m, "idle")
      PROVE  /\ Moves(m) /\ thread'[m].pc = pc /\ thread[m].pc # "idle"
             /\ thread'[m].entry = thread[m].entry
  BY <1>1, <1>2, <1>3, GotoMoves DEF At_
<1>4. ASSUME NEW pc \in MonitorPcs, NEW p \in Pid \cup {None},
             p \in Pid \/ pc \notin {"lease", "leaseShort"}, ~At_(m, "idle"),
             thread' = [thread EXCEPT ![m].pid = p, ![m].pc = pc]
      PROVE  /\ Moves(m) /\ thread'[m].pc = pc /\ thread'[m].pid = p
             /\ thread'[m].entry = thread[m].entry
  <2> DEFINE s == [thread[m] EXCEPT !.pid = p, !.pc = pc]
  <2>1. Works(m, s) /\ s.pc = pc /\ s.pid = p /\ s.entry = thread[m].entry
    BY <1>1, <1>2, <1>4 DEF Works, ThreadState, At_, ThreadsOK
  <2>2. thread' = [thread EXCEPT ![m] = s]
    BY <1>1, <1>4 DEF ThreadState
  <2> HIDE DEF s
  <2> QED BY <1>1, <2>1, <2>2, MovesTo
<1>5. CASE Poll(m)
  BY <1>2, <1>3, <1>5 DEF Poll, MonitorStep, At_
<1>6. CASE ReleaseDhcp(m)
  BY <1>2, <1>3, <1>6 DEF ReleaseDhcp, At_
<1>7. CASE SpawnDhcp(m)
  <2>0. ~At_(m, "idle") /\ thread[m].pc # "idle"
    BY <1>7 DEF SpawnDhcp, At_
  <2>1. CASE \E pc \in {"leased", "finish"} : Goto(m, pc)
    BY <1>2, <1>3, <2>0, <2>1
  <2>2. CASE ~ \E pc \in {"leased", "finish"} : Goto(m, pc)
    <3>1. PICK p \in FreePids :
            /\ proc' = [proc EXCEPT ![p] = Dhcpcd(thread[m].entry, "fresh")]
            /\ thread' = [thread EXCEPT ![m].pid = p,
                            ![m].pc = IF At_(m, "spawn") THEN "lease" ELSE "leaseShort"]
      BY <1>7, <2>2 DEF SpawnDhcp
    <3>2. p \in Pid
      BY DEF FreePids
    <3> QED BY <1>2, <1>4, <1>7, <2>0, <3>1, <3>2
  <2> QED BY <2>1, <2>2
<1>8. CASE LeaseEnds(m)
  <2>1. ~At_(m, "idle") /\ thread[m].pc # "idle"
    BY <1>8 DEF LeaseEnds, At_
  <2>2. \E pc \in {"leased", "finish"} : thread' = [thread EXCEPT ![m].pid = None, ![m].pc = pc]
    BY <1>8 DEF LeaseEnds
  <2> QED BY <1>2, <1>4, <2>1, <2>2
<1>9. CASE Leased(m)
  BY <1>2, <1>3, <1>9 DEF Leased, MonitorStep, At_, AfterDhcp, AppNextStep
<1>10. CASE SetRoute(m)
  BY <1>2, <1>3, <1>10 DEF SetRoute, MonitorStep, At_, AppNextStep
<1>11. CASE Finish(m)
  BY <1>1, <1>11, MovesTo DEF Finish, At_
<1> QED BY <1>5, <1>6, <1>7, <1>8, <1>9, <1>10, <1>11 DEF MonitorNext

(* A thread that starts an app keeps its entry until it is done               *)
LEMMA AppMoves ==
  ASSUME TypeOK, ThreadsOK, NEW t \in Thread, AppNext(t)
  PROVE  /\ Moves(t)
         /\ thread[t].pc # "idle"
         /\ thread'[t].pc # "idle" => thread'[t].entry = thread[t].entry
         /\ thread'[t].pc \in {"launch", "record", "verify", "finish"}
              \/ (t = Handler /\ thread'[t].pc = "idle")
         /\ thread'[t].pc = "launch" => AdmitApp(t)
         /\ thread'[t].pc = "record" =>
              /\ LaunchApp(t) /\ thread'[t].pid \in FreePids
              /\ proc' = [proc EXCEPT ![thread'[t].pid] = App(At[thread[t].entry], TRUE)]
         /\ thread'[t].pc = "verify" => RecordApp(t) /\ thread'[t].pid = thread[t].pid
<1>1. /\ thread[t] \in ThreadState /\ thread \in [Thread -> ThreadState]
      /\ Works(t, Idle) /\ Idle.pc = "idle"
      /\ t \in Monitor \/ t = Handler
  BY AllWork, IdleWorks DEF Works, TypeOK, Thread
<1>2. /\ AppPcs = {"admit", "launch", "record", "verify"} /\ "finish" \in MonitorPcs
  BY DEF MonitorPcs, AppPcs
<1>3. thread[t].pc \in AppPcs /\ ~At_(t, "idle") /\ thread[t].entry \in Entry
  BY <1>2 DEF AppNext, AdmitApp, LaunchApp, RecordApp, VerifyApp, At_, ThreadsOK
<1>4. ASSUME AppDone(t)
      PROVE  /\ Moves(t)
             /\ thread'[t].pc # "idle" => thread'[t].entry = thread[t].entry
             /\ thread'[t].pc = "finish" \/ (t = Handler /\ thread'[t].pc = "idle")
  <2>1. CASE t = Handler
    BY <1>1, <1>4, <2>1, MovesTo DEF AppDone
  <2>2. CASE t # Handler
    <3> DEFINE s == [thread[t] EXCEPT !.pc = "finish", !.pid = None]
    <3>1. Works(t, s) /\ s.pc = "finish" /\ s.entry = thread[t].entry
      BY <1>1, <1>2, <1>3, <2>2 DEF Works, ThreadState
    <3>2. thread' = [thread EXCEPT ![t] = s]
      BY <1>4, <2>2 DEF AppDone
    <3> HIDE DEF s
    <3> QED BY <3>1, <3>2, MovesTo
  <2> QED BY <2>1, <2>2
<1>5. CASE AdmitApp(t)
  <2>1. AppDone(t) \/ Goto(t, "launch")
    BY <1>5 DEF AdmitApp
  <2>2. CASE Goto(t, "launch")
    <3>1. Moves(t) /\ thread'[t].pc = "launch" /\ thread'[t].entry = thread[t].entry
      BY <1>1, <1>2, <1>3, <2>2, GotoMoves
    <3> QED BY <1>3, <1>5, <3>1 DEF At_
  <2> QED BY <1>3, <1>4, <2>1, <2>2 DEF At_
<1>6. CASE LaunchApp(t)
  <2>1. CASE AppDone(t)
    BY <1>3, <1>4, <2>1 DEF At_
  <2>2. CASE ~AppDone(t)
    <3>1. PICK p \in FreePids :
            /\ proc' = [proc EXCEPT ![p] = App(At[thread[t].entry], TRUE)]
            /\ thread' = [thread EXCEPT ![t].pid = p, ![t].pc = "record"]
      BY <1>6, <2>2 DEF LaunchApp
    <3> DEFINE s == [thread[t] EXCEPT !.pid = p, !.pc = "record"]
    <3>2. Works(t, s) /\ s.pc = "record" /\ s.pid = p /\ s.entry = thread[t].entry
      BY <1>1, <1>2, <1>3 DEF Works, ThreadState, FreePids
    <3>3. thread' = [thread EXCEPT ![t] = s]
      BY <1>1, <3>1 DEF ThreadState
    <3> HIDE DEF s
    <3>4. Moves(t) /\ thread'[t] = s
      BY <3>2, <3>3, MovesTo
    <3> QED BY <1>3, <1>6, <3>1, <3>2, <3>4 DEF At_
  <2> QED BY <2>1, <2>2
<1>7. CASE RecordApp(t)
  <2>1. AppDone(t) \/ Goto(t, "verify")
    BY <1>7 DEF RecordApp
  <2>2. thread[t].pid \in Pid
    BY <1>7 DEF RecordApp, At_, ThreadsOK
  <2>3. CASE Goto(t, "verify")
    <3>1. /\ Moves(t) /\ thread'[t].pc = "verify" /\ thread'[t].entry = thread[t].entry
          /\ thread'[t].pid = thread[t].pid
      BY <1>1, <1>2, <1>3, <2>2, <2>3, GotoMoves
    <3> QED BY <1>3, <1>7, <3>1 DEF At_
  <2> QED BY <1>3, <1>4, <2>1, <2>3 DEF At_
<1>8. CASE VerifyApp(t)
  BY <1>3, <1>4, <1>8 DEF VerifyApp, At_
<1> QED BY <1>5, <1>6, <1>7, <1>8 DEF AppNext

(* A change that sets an entry up hands it to an idle monitor                 *)
LEMMA JoinUpMoves ==
  ASSUME TypeOK, ThreadsOK, Joined, ~At_(Handler, "joinDown")
  PROVE  \E m \in Monitor :
           /\ At_(m, "idle") /\ m # Handler
           /\ thread' \in [Thread -> ThreadState]
           /\ thread'[m].pc = "poll" /\ thread'[m].entry = thread[Handler].entry
           /\ thread'[Handler].pc = "idle"
           /\ \A u \in Thread \ {m, Handler} : thread'[u] = thread[u]
           /\ registry' = [registry EXCEPT ![thread[Handler].entry] = m]
           /\ told' = told \ {m} /\ late' = [late EXCEPT ![m] = 0]
           /\ thread[Handler].entry \in Entry /\ thread[Handler].pc = "joinUp"
<1>1. At_(Handler, "joinUp") /\ thread[Handler].entry \in Entry
  BY AllWork DEF Joined, At_, Works
<1>2. PICK m \in {m \in Monitor : At_(m, "idle")} :
         /\ registry' = [registry EXCEPT ![thread[Handler].entry] = m]
         /\ thread' = [thread EXCEPT ![Handler] = Idle,
                         ![m] = [Idle EXCEPT !.pc = "poll", !.entry = thread[Handler].entry]]
         /\ told' = told \ {m} /\ late' = [late EXCEPT ![m] = 0]
  BY DEF Joined
<1> DEFINE s == [Idle EXCEPT !.pc = "poll", !.entry = thread[Handler].entry]
<1>3. /\ Idle \in ThreadState /\ Idle.pc = "idle"
      /\ s \in ThreadState /\ s.pc = "poll" /\ s.entry = thread[Handler].entry
  BY <1>1 DEF Idle, ThreadState, HandlerPcs, MonitorPcs
<1>4. thread' = [thread EXCEPT ![Handler] = Idle, ![m] = s]
  BY <1>2
<1> HIDE DEF s
<1>5. m # Handler
  BY MonitorsAssumption
<1>6. thread \in [Thread -> ThreadState] /\ m \in Thread /\ Handler \in Thread
  BY DEF TypeOK, Thread
<1> QED BY <1>1, <1>2, <1>3, <1>4, <1>5, <1>6 DEF At_

LEMMA ThreadsStep ==
  ASSUME TypeOK, ThreadsOK, [Next]_vars
  PROVE  thread' \in [Thread -> ThreadState] /\ ThreadsOK'
<1>1. ASSUME NEW t \in Thread, Moves(t)
      PROVE  thread' \in [Thread -> ThreadState] /\ ThreadsOK'
  BY <1>1, MovesKeepThreads DEF Moves
<1>2. Handler \in Thread /\ Monitor \subseteq Thread
  BY DEF Thread
<1>3. CASE (\E e \in Entry : BeginUp(e) \/ BeginDown(e)) \/ (Joined /\ At_(Handler, "joinDown"))
             \/ ReadAppFile \/ KillApp \/ SignalDhcp \/ RemoveDhcp
  BY <1>1, <1>2, <1>3, HandlerMoves
<1>4. CASE Joined /\ ~At_(Handler, "joinDown")
  <2>1. PICK m \in Monitor :
           /\ At_(m, "idle") /\ m # Handler
           /\ thread' \in [Thread -> ThreadState]
           /\ thread'[m].pc = "poll" /\ thread'[m].entry = thread[Handler].entry
           /\ thread'[Handler].pc = "idle"
           /\ \A u \in Thread \ {m, Handler} : thread'[u] = thread[u]
           /\ thread[Handler].entry \in Entry
    BY <1>4, JoinUpMoves
  <2> QED BY <2>1, <1>2, MonitorsAssumption DEF ThreadsOK, MonitorPcs, HandlerPcs
<1>5. ASSUME NEW m \in Monitor, MonitorNext(m)
      PROVE  thread' \in [Thread -> ThreadState] /\ ThreadsOK'
  BY <1>1, <1>2, <1>5, MonitorMoves
<1>6. ASSUME NEW t \in Thread, AppNext(t)
      PROVE  thread' \in [Thread -> ThreadState] /\ ThreadsOK'
  BY <1>1, <1>6, AppMoves
<1>7. CASE Crash
  <2>1. Idle \in ThreadState /\ \A t \in Thread : Works(t, Idle)
    BY <1>2, IdleWorks DEF Works
  <2> QED BY <2>1, <1>7 DEF Crash, ThreadsOK, Works
<1>8. CASE UNCHANGED thread
  BY <1>8 DEF TypeOK, ThreadsOK
<1> QED BY <1>3, <1>4, <1>5, <1>6, <1>7, <1>8 DEF Next, LeaveAlone, HandlerNext, DhcpWrites,
        Exits, Starts,
        vars

-------------------------------------------------------------------------------
(* Control: who is registered, who is told, what is late.                  *)

LEMMA ControlTypes ==
  ASSUME TypeOK, ThreadsOK, [Next]_vars
  PROVE  /\ told' \subseteq Monitor /\ registry' \in [Entry -> Monitor \cup {None}]
         /\ joining' \in Monitor \cup {None} /\ up' \subseteq Entry
<1> USE DEF TypeOK
<1>1. CASE \E e \in Entry : BeginUp(e) \/ BeginDown(e) \/ LeaveAlone(e)
  BY <1>1 DEF BeginUp, BeginDown, TellToStop, LeaveAlone
<1>2. CASE Joined
  <2>1. thread[Handler].entry \in Entry
    BY <1>2, AllWork DEF Joined, At_, Works
  <2>2. told' \subseteq Monitor /\ registry' \in [Entry -> Monitor \cup {None}] /\ up' \subseteq Entry
    BY <1>2, <2>1 DEF Joined
  <2> QED BY <1>2, <2>2 DEF Joined
<1>3. CASE ReadAppFile \/ KillApp \/ SignalDhcp \/ RemoveDhcp
  BY <1>3 DEF ReadAppFile, KillApp, SignalDhcp, RemoveDhcp, bookkeeping
<1>4. ASSUME NEW m \in Monitor, MonitorNext(m)
      PROVE  /\ told' \subseteq Monitor /\ registry' \in [Entry -> Monitor \cup {None}]
             /\ joining' \in Monitor \cup {None} /\ up' \subseteq Entry
  BY <1>4 DEF MonitorNext, Poll, ReleaseDhcp, SpawnDhcp, LeaseEnds, Leased, SetRoute, Finish,
     Deregister, MonitorStep, bookkeeping
<1>5. ASSUME NEW t \in Thread, AppNext(t)
      PROVE  /\ told' \subseteq Monitor /\ registry' \in [Entry -> Monitor \cup {None}]
             /\ joining' \in Monitor \cup {None} /\ up' \subseteq Entry
  BY <1>5 DEF AppNext, AdmitApp, LaunchApp, RecordApp, VerifyApp, bookkeeping
<1>6. CASE Crash
  BY <1>6, AllWork DEF Crash, ThreadState
<1>7. CASE UNCHANGED bookkeeping
  BY <1>7 DEF bookkeeping
<1> QED BY <1>1, <1>2, <1>3, <1>4, <1>5, <1>6, <1>7 DEF Next, LeaveAlone, HandlerNext,
        DhcpWrites, Exits,
        Starts, vars, bookkeeping

LEMMA RegistrationStep ==
  ASSUME TypeOK, ThreadsOK, NoUncontrolledMonitor, JoinsTheTold, [Next]_vars
  PROVE  NoUncontrolledMonitor' /\ JoinsTheTold'
<1> USE DEF NoUncontrolledMonitor, JoinsTheTold
<1>0. Handler \in Thread /\ Handler \notin Monitor /\ Monitor \subseteq Thread
  BY AllWork
<1>1. CASE \E e \in Entry : BeginUp(e) \/ BeginDown(e)
  <2>2. \A m \in Monitor : thread'[m] = thread[m]
    BY <1>0, <1>1, HandlerMoves DEF Moves
  <2>3. told \subseteq told' /\ registry' = registry
    BY <1>1 DEF BeginUp, BeginDown, TellToStop
  <2>4. thread'[Handler].pc \in {"joinUp", "joinDown"} =>
          \E e \in Entry : thread'[Handler].entry = e /\ told' = TellToStop(e)
    BY <1>1, HandlerMoves
  <2> QED BY <2>2, <2>3, <2>4 DEF At_, TellToStop, TypeOK
<1>2. CASE Joined /\ At_(Handler, "joinDown")
  <2>1. \A m \in Monitor : thread'[m] = thread[m]
    BY <1>0, <1>2, HandlerMoves DEF Moves
  <2>2. /\ told' = told /\ thread[Handler].entry \in Entry
        /\ registry' = [registry EXCEPT ![thread[Handler].entry] = None]
        /\ registry[thread[Handler].entry] \in told \cup {None}
    BY <1>0, <1>2, AllWork DEF Joined, At_, Works
  <2>3. thread'[Handler].pc \notin {"joinUp", "joinDown"}
    <3>1. \E pc \in {"stopApp", "signal", "idle"} : HandlerGoes(pc)
      BY <1>2 DEF Joined, At_
    <3> QED BY <1>0, <3>1 DEF HandlerGoes, Idle, TypeOK, ThreadState
  <2> QED BY <2>1, <2>2, <2>3, MonitorsAssumption DEF At_, TypeOK
<1>3. CASE Joined /\ ~At_(Handler, "joinDown")
  <2>1. PICK m \in Monitor :
           /\ At_(m, "idle") /\ m # Handler
           /\ thread'[m].pc = "poll" /\ thread'[m].entry = thread[Handler].entry
           /\ thread'[Handler].pc = "idle"
           /\ \A u \in Thread \ {m, Handler} : thread'[u] = thread[u]
           /\ registry' = [registry EXCEPT ![thread[Handler].entry] = m]
           /\ told' = told \ {m}
           /\ thread[Handler].entry \in Entry /\ thread[Handler].pc = "joinUp"
    BY <1>3, JoinUpMoves
  <2>2. registry[thread[Handler].entry] \in told \cup {None}
    BY <2>1
  <2> QED BY <1>0, <2>1, <2>2, MonitorsAssumption DEF At_, TypeOK
<1>4. CASE ReadAppFile \/ KillApp \/ SignalDhcp \/ RemoveDhcp
  <2>1. \A m \in Monitor : thread'[m] = thread[m]
    BY <1>0, <1>4, HandlerMoves DEF Moves
  <2>2. UNCHANGED <<told, registry>>
    BY <1>4 DEF ReadAppFile, KillApp, SignalDhcp, RemoveDhcp, bookkeeping
  <2>3. thread'[Handler].pc \notin {"joinUp", "joinDown"}
    <3>1. CASE ReadAppFile
      BY <1>0, <3>1 DEF ReadAppFile, TypeOK, ThreadState
    <3>2. CASE KillApp
      BY <1>0, <3>2 DEF KillApp, HandlerGoes, Idle, TypeOK, ThreadState
    <3>3. CASE SignalDhcp
      BY <1>0, <3>3 DEF SignalDhcp, Goto, Idle, TypeOK, ThreadState
    <3>4. CASE RemoveDhcp
      BY <1>0, <3>4 DEF RemoveDhcp, Idle, TypeOK, ThreadState
    <3> QED BY <1>4, <3>1, <3>2, <3>3, <3>4
  <2> QED BY <2>1, <2>2, <2>3 DEF At_
<1>5. ASSUME NEW m \in Monitor, MonitorNext(m)
      PROVE  NoUncontrolledMonitor' /\ JoinsTheTold'
  <2>1. /\ \A u \in Thread \ {m} : thread'[u] = thread[u]
        /\ thread[m].pc # "idle"
        /\ thread'[m].pc # "idle" => thread'[m].entry = thread[m].entry
    BY <1>5, MonitorMoves DEF Moves
  <2>2. CASE Finish(m)
    <3>1. thread'[m].pc = "idle"
      BY <1>0, <2>2 DEF Finish, Idle, TypeOK
    <3>2. /\ told' = told \ {m}
          /\ \A e \in Entry : registry'[e] = IF registry[e] = m THEN None ELSE registry[e]
      BY <2>2 DEF Finish, Deregister, TypeOK
    <3>3. \A u \in Thread : thread[u].pc # "idle" => thread[u].entry \in Entry
      BY DEF ThreadsOK
    <3> QED BY <1>0, <2>1, <3>1, <3>2, <3>3 DEF At_
  <2>3. CASE ~Finish(m)
    <3>1. UNCHANGED <<told, registry>>
      BY <1>5, <2>3 DEF MonitorNext, Poll, ReleaseDhcp, SpawnDhcp, LeaseEnds, Leased, SetRoute,
         MonitorStep, bookkeeping
    <3> QED BY <1>0, <2>1, <3>1 DEF At_
  <2> QED BY <2>2, <2>3
<1>6. ASSUME NEW t \in Thread, AppNext(t)
      PROVE  NoUncontrolledMonitor' /\ JoinsTheTold'
  <2>1. /\ \A u \in Thread \ {t} : thread'[u] = thread[u]
        /\ thread[t].pc # "idle"
        /\ thread'[t].pc # "idle" => thread'[t].entry = thread[t].entry
        /\ thread'[t].pc \notin {"joinUp", "joinDown"}
    BY <1>6, AppMoves DEF Moves
  <2>2. UNCHANGED <<told, registry>>
    BY <1>6 DEF AppNext, AdmitApp, LaunchApp, RecordApp, VerifyApp, bookkeeping
  <2> QED BY <1>0, <2>1, <2>2 DEF At_
<1>7. CASE Crash
  BY <1>0, <1>7 DEF Crash, Idle, At_
<1>8. CASE UNCHANGED <<thread, told, registry>>
  BY <1>8 DEF At_
<1> QED BY <1>1, <1>2, <1>3, <1>4, <1>5, <1>6, <1>7, <1>8 DEF Next, LeaveAlone, HandlerNext,
        DhcpWrites,
        Exits, Starts, vars, bookkeeping

LEMMA LateStep ==
  ASSUME TypeOK, ThreadsOK, LateIsLast, [Next]_vars
  PROVE  LateIsLast' /\ late' \in [Monitor -> Nat]
<1> USE DEF LateIsLast
<1>0. /\ Handler \in Thread /\ Handler \notin Monitor /\ Monitor \subseteq Thread
      /\ late \in [Monitor -> Nat]
  BY AllWork DEF TypeOK
<1>1. ASSUME UNCHANGED late, told \subseteq told', \A m \in Monitor : thread'[m] = thread[m]
      PROVE  LateIsLast' /\ late' \in [Monitor -> Nat]
  BY <1>0, <1>1
<1>2. CASE \E e \in Entry : BeginUp(e) \/ BeginDown(e)
  <2>1. UNCHANGED late /\ told \subseteq told'
    BY <1>2 DEF BeginUp, BeginDown, TellToStop, histories
  <2> QED BY <1>0, <1>1, <1>2, <2>1, HandlerMoves DEF Moves
<1>3. CASE (Joined /\ At_(Handler, "joinDown")) \/ ReadAppFile \/ KillApp \/ SignalDhcp \/ RemoveDhcp
  <2>1. UNCHANGED late /\ told \subseteq told'
    BY <1>3 DEF Joined, At_, ReadAppFile, KillApp, SignalDhcp, RemoveDhcp, histories, bookkeeping
  <2> QED BY <1>0, <1>1, <1>3, <2>1, HandlerMoves DEF Moves
<1>4. CASE Joined /\ ~At_(Handler, "joinDown")
  BY <1>0, <1>4, JoinUpMoves
<1>5. ASSUME NEW m \in Monitor, UNCHANGED told, \A u \in Thread \ {m} : thread'[u] = thread[u],
             \/ UNCHANGED late
                  /\ (thread'[m].pc \in {"lease", "leaseShort", "leased", "record", "verify", "finish"}
                      \/ late[m] = 0)
             \/ Begins(m) /\ late[m] = 0
                  /\ (thread'[m].pc \in {"lease", "leaseShort", "leased", "record", "verify", "finish"}
                      \/ m \notin told)
      PROVE  LateIsLast' /\ late' \in [Monitor -> Nat]
  BY <1>0, <1>5 DEF Begins
<1>6. ASSUME NEW m \in Monitor, MonitorNext(m)
      PROVE  LateIsLast' /\ late' \in [Monitor -> Nat]
  <2>1. \A u \in Thread \ {m} : thread'[u] = thread[u]
    BY <1>6, MonitorMoves DEF Moves
  <2>2. thread[m] \in ThreadState /\ m \in Thread /\ thread \in [Thread -> ThreadState]
    BY <1>0 DEF TypeOK
  <2>3. CASE Poll(m) \/ ReleaseDhcp(m)
    <3>1. UNCHANGED <<late, told>> /\ late[m] = 0
      BY <2>3 DEF Poll, ReleaseDhcp, MonitorStep, At_, histories, bookkeeping
    <3> QED BY <1>5, <2>1, <3>1
  <2>4. CASE SpawnDhcp(m)
    <3>1. Begins(m) /\ UNCHANGED told /\ late[m] = 0
      BY <2>4 DEF SpawnDhcp, At_, bookkeeping
    <3>2. thread'[m].pc \in {"lease", "leaseShort", "leased", "finish"}
      BY <2>2, <2>4, ZenonT(60) DEF SpawnDhcp, Goto, ThreadState
    <3> QED BY <1>5, <2>1, <3>1, <3>2
  <2>5. CASE LeaseEnds(m)
    <3>1. UNCHANGED <<late, told>>
      BY <2>5 DEF LeaseEnds, histories, bookkeeping
    <3>2. thread'[m].pc \in {"leased", "finish"}
      BY <2>2, <2>5 DEF LeaseEnds, ThreadState
    <3> QED BY <1>5, <2>1, <3>1, <3>2
  <2>6. CASE Leased(m)
    <3>1. UNCHANGED <<late, told>>
      BY <2>6 DEF Leased, MonitorStep, histories, bookkeeping
    <3>2. thread'[m].pc = "finish" \/ m \notin told
      BY <2>2, <2>6 DEF Leased, MonitorStep, Goto, ThreadState
    <3> QED BY <1>5, <2>1, <3>1, <3>2
  <2>7. CASE SetRoute(m)
    <3>1. Begins(m) /\ UNCHANGED told /\ late[m] = 0
      BY <2>7 DEF SetRoute, MonitorStep, At_, bookkeeping
    <3>2. thread'[m].pc = "finish" \/ m \notin told
      BY <2>2, <2>7 DEF SetRoute, MonitorStep, Goto, ThreadState
    <3> QED BY <1>5, <2>1, <3>1, <3>2
  <2>8. CASE Finish(m)
    <3>1. told' = told \ {m} /\ late' = [late EXCEPT ![m] = 0]
      BY <2>8 DEF Finish
    <3> QED BY <1>0, <2>1, <3>1
  <2> QED BY <1>6, <2>3, <2>4, <2>5, <2>6, <2>7, <2>8 DEF MonitorNext
<1>7. ASSUME NEW t \in Thread, AppNext(t)
      PROVE  LateIsLast' /\ late' \in [Monitor -> Nat]
  <2>1. /\ \A u \in Thread \ {t} : thread'[u] = thread[u]
        /\ thread'[t].pc \in {"launch", "record", "verify", "finish"}
             \/ (t = Handler /\ thread'[t].pc = "idle")
        /\ thread'[t].pc = "launch" => AdmitApp(t)
    BY <1>7, AppMoves DEF Moves
  <2>2. UNCHANGED told
    BY <1>7 DEF AppNext, AdmitApp, LaunchApp, RecordApp, VerifyApp, bookkeeping
  <2>3. CASE t = Handler
    <3>1. UNCHANGED late
      BY <1>7, <2>3 DEF AppNext, AdmitApp, LaunchApp, RecordApp, VerifyApp, histories
    <3> QED BY <1>0, <1>1, <2>1, <2>2, <2>3, <3>1
  <2>4. CASE t \in Monitor /\ LaunchApp(t)
    <3>1. Begins(t) /\ late[t] = 0
      BY <1>0, <2>4 DEF LaunchApp, At_
    <3>2. thread'[t].pc \in {"record", "finish", "verify"}
      <4>1. ~AdmitApp(t)
        BY <2>4 DEF LaunchApp, AdmitApp, At_
      <4> QED BY <1>0, <2>1, <2>4, <4>1
    <3> QED BY <1>5, <2>1, <2>2, <2>4, <3>1, <3>2
  <2>5. CASE t \in Monitor /\ ~LaunchApp(t)
    <3>1. UNCHANGED late
      BY <1>7, <2>5 DEF AppNext, AdmitApp, RecordApp, VerifyApp, histories
    <3>2. thread'[t].pc = "launch" => late[t] = 0
      BY <2>1, <2>5 DEF AdmitApp, At_
    <3> QED BY <1>0, <1>5, <2>1, <2>2, <2>5, <3>1, <3>2
  <2> QED BY <2>3, <2>4, <2>5 DEF Thread
<1>8. CASE Crash
  BY <1>0, <1>8 DEF Crash
<1>9. CASE UNCHANGED <<thread, told, late>>
  BY <1>0, <1>9
<1> QED BY <1>2, <1>3, <1>4, <1>6, <1>7, <1>8, <1>9 DEF Next, LeaveAlone, HandlerNext, DhcpWrites,
        Exits, Starts, vars, bookkeeping, histories

-------------------------------------------------------------------------------
(* Processes.                                                              *)

(* What a step may make of a process that it does not start                  *)
Ages(p) ==
  /\ p \in owned' => p \in owned /\ proc'[p].for = proc[p].for
  /\ proc[p].what \in {"fresh", "dhcpcd", "lost", "free"} =>
       proc'[p].what \in {"fresh", "dhcpcd", "lost", "free"}

Evolves(p) ==
  /\ proc'[p] \in Process
  /\ p \in owned' => proc'[p].what \in {"app", "zombie"} /\ proc'[p].core
  /\ p \notin FreePids => Ages(p)

LEMMA Ageing ==
  ASSUME TypeOK, ChildrenAreApps, NEW p \in Pid,
         p \in owned' => p \in owned /\ proc'[p] \in {proc[p], Dead(p)},
         \/ proc'[p] \in {proc[p], Free, Dead(p)}
         \/ /\ proc[p].what \in {"fresh", "dhcpcd"}
            /\ proc'[p] \in {[proc[p] EXCEPT !.what = "dhcpcd"], Dhcpcd(proc[p].for, "lost")}
  PROVE  Evolves(p)
<1>1. proc[p] \in Process /\ Free \in Process /\ Free.what = "free"
  BY ProcessKinds DEF TypeOK, Free
<1>2. p \in owned => /\ proc[p].what \in {"app", "zombie"} /\ proc[p].core
                     /\ Dead(p).what = "zombie" /\ Dead(p).for = proc[p].for /\ Dead(p).core
  BY <1>1 DEF ChildrenAreApps, Dead, Process
<1>3. p \notin owned => Dead(p) = Free
  BY DEF Dead
<1>4. Dead(p) \in Process
  BY DeadIsProcess
<1>5. proc[p].what \in {"fresh", "dhcpcd"} =>
        /\ proc[p].for \in Entry /\ p \notin owned
        /\ [proc[p] EXCEPT !.what = "dhcpcd"] \in Process
        /\ Dhcpcd(proc[p].for, "lost") \in Process
        /\ [proc[p] EXCEPT !.what = "dhcpcd"].what = "dhcpcd"
        /\ Dhcpcd(proc[p].for, "lost").what = "lost"
  BY <1>1, <1>2 DEF Process, Dhcpcd
<1> QED BY <1>1, <1>2, <1>3, <1>4, <1>5 DEF Evolves, Ages

LEMMA HandlerEvolves ==
  ASSUME TypeOK, ChildrenAreApps, KillApp \/ SignalDhcp \/ RemoveDhcp
  PROVE  /\ \A p \in Pid : Evolves(p)
         /\ DOMAIN proc' = Pid /\ proc' = [p \in Pid |-> proc'[p]] /\ owned' \subseteq Pid
<1>1. proc \in [Pid -> Process] /\ owned \subseteq Pid
  BY DEF TypeOK
<1>2. \A p \in owned : proc[p].what \in {"app", "zombie"}
  BY DEF ChildrenAreApps
<1>3. CASE KillApp
  <2> DEFINE pid == thread[Handler].pid
             pl == At[thread[Handler].entry]
             victims == IF pid = None THEN {} ELSE Victims(pid, pl)
             reaped == Reaped(pid, pl)
  <2>1. PICK gone \in IF pid \in owned THEN {victims} ELSE SUBSET victims :
           proc' = [p \in Pid |-> IF p \in reaped THEN Free
                                  ELSE IF p \in gone THEN Dead(p) ELSE proc[p]]
    BY <1>3 DEF KillApp
  <2>2. owned' = owned \ reaped
    BY <1>3 DEF KillApp
  <2> HIDE DEF victims, reaped
  <2>3. ASSUME NEW p \in Pid PROVE Evolves(p)
    BY <2>1, <2>2, Ageing
  <2> QED BY <1>1, <2>1, <2>2, <2>3
<1>4. CASE SignalDhcp
  <2> DEFINE e == thread[Handler].entry
  <2>1. owned' = owned
    BY <1>4 DEF SignalDhcp
  <2>2. \/ proc' = [p \in Pid |-> IF p \in Leasing(e) THEN Free ELSE proc[p]]
        \/ proc' = proc
    BY <1>4 DEF SignalDhcp
  <2>3. \A p \in Leasing(e) : p \notin owned
    BY <1>2 DEF Leasing, Dhcpcd
  <2> HIDE DEF e
  <2>4. ASSUME NEW p \in Pid PROVE Evolves(p)
    BY <2>1, <2>2, <2>3, Ageing
  <2> QED BY <1>1, <2>1, <2>2, <2>4
<1>5. CASE RemoveDhcp
  <2>1. /\ owned' = owned
        /\ proc' = [p \in Pid |-> IF /\ proc[p].for = thread[Handler].entry
                                     /\ proc[p].what \in {"fresh", "dhcpcd"}
                                  THEN Dhcpcd(thread[Handler].entry, "lost") ELSE proc[p]]
    BY <1>5 DEF RemoveDhcp
  <2>2. ASSUME NEW p \in Pid PROVE Evolves(p)
    BY <1>2, <2>1, Ageing
  <2> QED BY <1>1, <2>1, <2>2
<1> QED BY <1>3, <1>4, <1>5

(* What a monitor does to processes; the one it kills is a dhcpcd            *)
LEMMA MonitorEvolves ==
  ASSUME TypeOK, ThreadsOK, ChildrenAreApps, PidsAreFresh, NEW m \in Monitor, MonitorNext(m)
  PROVE  /\ \A p \in Pid : Evolves(p)
         /\ proc' = [p \in Pid |-> proc'[p]] /\ owned' \subseteq Pid
<1>1. /\ proc \in [Pid -> Process] /\ owned \subseteq Pid
      /\ m \in Thread /\ Works(m, thread[m])
  BY AllWork DEF TypeOK
<1>2. \A p \in owned : proc[p].what \in {"app", "zombie"}
  BY DEF ChildrenAreApps
<1>3. owned' = owned
  BY DEF MonitorNext, Poll, ReleaseDhcp, SpawnDhcp, LeaseEnds, Leased, SetRoute, Finish,
     MonitorStep
<1>4. CASE proc' = proc
  <2>1. ASSUME NEW p \in Pid PROVE Evolves(p)
    BY <1>3, <1>4, Ageing
  <2> QED BY <1>1, <1>3, <1>4, <2>1
<1>5. CASE ReleaseDhcp(m)
  <2> DEFINE e == thread[m].entry
  <2>1. \/ proc' = [p \in Pid |-> IF p \in Leasing(e) THEN Free ELSE proc[p]]
        \/ proc' = proc
    BY <1>5 DEF ReleaseDhcp
  <2>2. \A p \in Leasing(e) : p \notin owned
    BY <1>2 DEF Leasing, Dhcpcd
  <2> HIDE DEF e
  <2>3. ASSUME NEW p \in Pid PROVE Evolves(p)
    BY <1>3, <2>1, <2>2, Ageing
  <2> QED BY <1>1, <1>3, <2>1, <2>3
<1>6. CASE SpawnDhcp(m) /\ proc' # proc
  <2>1. PICK q \in FreePids : proc' = [proc EXCEPT ![q] = Dhcpcd(thread[m].entry, "fresh")]
    BY <1>6 DEF SpawnDhcp
  <2>2. /\ q \in Pid /\ proc[q] = Free /\ q \notin owned
        /\ Dhcpcd(thread[m].entry, "fresh") \in Process
    <3>1. thread[m].entry \in Entry
      BY <1>1, <1>6 DEF SpawnDhcp, At_, Works
    <3> QED BY <1>2, <3>1, ProcessKinds DEF FreePids, Free
  <2>3. ASSUME NEW p \in Pid, p # q PROVE Evolves(p)
    BY <1>1, <1>3, <2>1, <2>3, Ageing
  <2>4. Evolves(q)
    BY <1>1, <1>3, <2>1, <2>2 DEF Evolves
  <2> QED BY <1>1, <1>3, <2>1, <2>2, <2>3, <2>4
<1>7. CASE LeaseEnds(m) /\ proc' # proc
  <2> DEFINE q == thread[m].pid
  <2>1. proc' = [proc EXCEPT ![q] = IF @.for = thread[m].entry THEN Free ELSE @]
    BY <1>7 DEF LeaseEnds
  <2>2. q \in Pid /\ proc[q].what \in {"fresh", "dhcpcd", "lost", "free"}
    BY <1>1, <1>7 DEF LeaseEnds, At_, Works, PidsAreFresh
  <2> HIDE DEF q
  <2>3. q \notin owned
    BY <1>2, <2>2
  <2>4. ASSUME NEW p \in Pid PROVE Evolves(p)
    BY <1>1, <1>3, <2>1, <2>2, <2>3, Ageing
  <2> QED BY <1>1, <1>3, <2>1, <2>2, <2>4
<1> QED BY <1>4, <1>5, <1>6, <1>7 DEF MonitorNext, Poll, Leased, SetRoute, Finish

LEMMA AppEvolves ==
  ASSUME TypeOK, ThreadsOK, ChildrenAreApps, NEW t \in Thread, AppNext(t)
  PROVE  /\ \A p \in Pid : Evolves(p)
         /\ proc' = [p \in Pid |-> proc'[p]] /\ owned' \subseteq Pid
<1>1. /\ proc \in [Pid -> Process] /\ owned \subseteq Pid /\ Works(t, thread[t])
  BY AllWork DEF TypeOK
<1>2. \A p \in owned : proc[p].what \in {"app", "zombie"}
  BY DEF ChildrenAreApps
<1>3. CASE AdmitApp(t)
  <2>1. /\ owned' = Alive
        /\ proc' = [p \in Pid |-> IF p \in owned \ Alive THEN Free ELSE proc[p]]
    BY <1>3 DEF AdmitApp
  <2>2. Alive \subseteq owned
    BY DEF Alive
  <2>3. ASSUME NEW p \in Pid PROVE Evolves(p)
    BY <2>1, <2>2, Ageing
  <2> QED BY <1>1, <2>1, <2>2, <2>3
<1>4. CASE LaunchApp(t)
  <2>1. CASE UNCHANGED <<proc, owned>>
    <3>1. ASSUME NEW p \in Pid PROVE Evolves(p)
      BY <2>1, Ageing
    <3> QED BY <1>1, <2>1, <3>1
  <2>2. CASE \E q \in FreePids : /\ proc' = [proc EXCEPT ![q] = App(At[thread[t].entry], TRUE)]
                                 /\ owned' = owned \cup {q}
    <3>1. PICK q \in FreePids : /\ proc' = [proc EXCEPT ![q] = App(At[thread[t].entry], TRUE)]
                                /\ owned' = owned \cup {q}
      BY <2>2
    <3>2. /\ q \in Pid
          /\ App(At[thread[t].entry], TRUE) \in Process
          /\ App(At[thread[t].entry], TRUE).what = "app" /\ App(At[thread[t].entry], TRUE).core
      <4>1. thread[t].entry \in Entry
        BY <1>1, <1>4 DEF LaunchApp, At_, Works
      <4> QED BY <4>1, ProcessKinds, MonitorsAssumption DEF FreePids, App
    <3>3. ASSUME NEW p \in Pid, p # q PROVE Evolves(p)
      BY <1>1, <3>1, <3>3, Ageing
    <3>4. Evolves(q)
      BY <1>1, <3>1, <3>2 DEF Evolves
    <3> QED BY <1>1, <3>1, <3>2, <3>3, <3>4
  <2> QED BY <1>4, <2>1, <2>2 DEF LaunchApp
<1>5. CASE RecordApp(t) \/ VerifyApp(t)
  <2> DEFINE q == thread[t].pid
  <2>1. /\ q \in Pid
        /\ \/ UNCHANGED <<owned, proc>>
           \/ /\ owned' = owned \ {q}
              /\ \/ proc' = proc \/ proc' = [proc EXCEPT ![q] = Free]
    <3>1. q \in Pid
      BY <1>1, <1>5 DEF RecordApp, VerifyApp, At_, Works
    <3> QED BY <1>1, <1>5, <3>1 DEF RecordApp, VerifyApp
  <2> HIDE DEF q
  <2>2. ASSUME NEW p \in Pid PROVE Evolves(p)
    BY <1>1, <2>1, Ageing
  <2> QED BY <1>1, <2>1, <2>2
<1> QED BY <1>3, <1>4, <1>5 DEF AppNext

(* The rest of the device, and the crash that leaves Core no child           *)
LEMMA DeviceEvolves ==
  ASSUME TypeOK, ChildrenAreApps,
         (\E p \in Pid : DhcpWrites(p) \/ Exits(p) \/ Starts(p)) \/ Crash
  PROVE  /\ \A p \in Pid : Evolves(p)
         /\ proc' = [p \in Pid |-> proc'[p]] /\ owned' \subseteq Pid
<1>1. proc \in [Pid -> Process] /\ owned \subseteq Pid
  BY DEF TypeOK
<1>2. \A p \in owned : proc[p].what \in {"app", "zombie"}
  BY DEF ChildrenAreApps
<1>3. ASSUME NEW q \in Pid, DhcpWrites(q) \/ Exits(q)
      PROVE  \A p \in Pid : Evolves(p)
  <2>1. /\ owned' = owned
        /\ \/ proc' = [proc EXCEPT ![q] = Dead(q)]
           \/ /\ proc[q].what = "fresh"
              /\ proc' = [proc EXCEPT ![q] = [proc[q] EXCEPT !.what = "dhcpcd"]]
    BY <1>1, <1>3 DEF DhcpWrites, Exits
  <2>2. ASSUME NEW p \in Pid PROVE Evolves(p)
    BY <1>1, <1>2, <2>1, Ageing
  <2> QED BY <2>2
<1>4. ASSUME NEW q \in Pid, Starts(q)
      PROVE  \A p \in Pid : Evolves(p)
  <2>1. PICK new \in Process : proc' = [proc EXCEPT ![q] = new]
    BY <1>4, ProcessKinds DEF Starts
  <2>2. owned' = owned /\ q \in FreePids /\ q \notin owned
    BY <1>2, <1>4 DEF Starts, FreePids, Free
  <2>3. ASSUME NEW p \in Pid, p # q PROVE Evolves(p)
    BY <1>1, <2>1, <2>2, <2>3, Ageing
  <2>4. Evolves(q)
    BY <1>1, <2>1, <2>2 DEF Evolves
  <2> QED BY <2>3, <2>4
<1>5. CASE Crash
  <2>1. owned' = {} /\ \A p \in Pid : proc'[p] \in {proc[p], Free}
    BY <1>5 DEF Crash
  <2>2. ASSUME NEW p \in Pid PROVE Evolves(p)
    BY <2>1, Ageing
  <2> QED BY <1>1, <1>5, <2>2 DEF Crash
<1> QED BY <1>1, <1>3, <1>4, <1>5 DEF DhcpWrites, Exits, Starts

LEMMA ProcessesStep ==
  ASSUME TypeOK, ThreadsOK, ChildrenAreApps, PidsAreFresh, [Next]_vars
  PROVE  /\ \A p \in Pid : Evolves(p)
         /\ proc' \in [Pid -> Process] /\ owned' \subseteq Pid /\ ChildrenAreApps'
<1>1. CASE UNCHANGED <<proc, owned>>
  BY <1>1, Ageing DEF TypeOK, ChildrenAreApps
<1>2. ASSUME \A p \in Pid : Evolves(p), proc' = [p \in Pid |-> proc'[p]], owned' \subseteq Pid
      PROVE  /\ proc' \in [Pid -> Process] /\ owned' \subseteq Pid /\ ChildrenAreApps'
  BY <1>2 DEF Evolves, ChildrenAreApps
<1>3. CASE (\E e \in Entry : BeginUp(e) \/ BeginDown(e)) \/ Joined \/ ReadAppFile
  BY <1>1, <1>3 DEF BeginUp, BeginDown, Joined, ReadAppFile
<1>4. CASE KillApp \/ SignalDhcp \/ RemoveDhcp
  BY <1>2, <1>4, HandlerEvolves
<1>5. CASE \E m \in Monitor : MonitorNext(m)
  BY <1>2, <1>5, MonitorEvolves
<1>6. CASE \E t \in Thread : AppNext(t)
  BY <1>2, <1>6, AppEvolves
<1>7. CASE (\E p \in Pid : DhcpWrites(p) \/ Exits(p) \/ Starts(p)) \/ Crash
  BY <1>2, <1>7, DeviceEvolves
<1> QED BY <1>1, <1>3, <1>4, <1>5, <1>6, <1>7 DEF Next, LeaveAlone, HandlerNext, vars

(* A pid that a thread holds is not given to another                         *)
LEMMA PidsStep ==
  ASSUME TypeOK, ThreadsOK, ChildrenAreApps, PidsAreFresh, [Next]_vars
  PROVE  PidsAreFresh'
<1>1. \A p \in Pid : Evolves(p)
  BY ProcessesStep
<1>2. Handler \in Thread /\ Handler \notin Monitor /\ Monitor \subseteq Thread
  BY AllWork
<1> DEFINE Fresh(t) ==
      /\ thread[t].pc \in {"lease", "leaseShort"} =>
           proc[thread[t].pid].what \in {"fresh", "dhcpcd", "lost", "free"}
      /\ thread[t].pc \in {"record", "verify"} /\ thread[t].pid \in owned =>
           proc[thread[t].pid].for = At[thread[t].entry]
<1>3. ASSUME NEW t \in Thread,
             thread[t].pc \in {"lease", "leaseShort", "record", "verify"}
      PROVE  thread[t].pid \in Pid /\ Ages(thread[t].pid)
  <2>1. thread[t].pid \in Pid /\ thread[t].pid \in Held
    BY <1>3 DEF ThreadsOK, Held
  <2> QED BY <1>1, <2>1 DEF FreePids, Evolves
<1>4. ASSUME NEW t \in Thread, thread'[t] = thread[t]
      PROVE  Fresh(t)'
  BY <1>3, <1>4 DEF PidsAreFresh, Ages
<1>5. ASSUME NEW t \in Thread,
             thread'[t].pc \notin {"lease", "leaseShort", "record", "verify"}
      PROVE  Fresh(t)'
  BY <1>5
<1>6. ASSUME NEW t \in Thread, Fresh(t)', \A u \in Thread \ {t} : thread'[u] = thread[u]
      PROVE  PidsAreFresh'
  BY <1>4, <1>6 DEF PidsAreFresh
<1>7. CASE (\E e \in Entry : BeginUp(e) \/ BeginDown(e)) \/ (Joined /\ At_(Handler, "joinDown"))
             \/ ReadAppFile \/ KillApp \/ SignalDhcp \/ RemoveDhcp
  BY <1>2, <1>5, <1>6, <1>7, HandlerMoves DEF Moves
<1>8. CASE Joined /\ ~At_(Handler, "joinDown")
  <2>1. PICK m \in Monitor :
           /\ thread'[m].pc = "poll" /\ thread'[Handler].pc = "idle"
           /\ \A u \in Thread \ {m, Handler} : thread'[u] = thread[u]
    BY <1>8, JoinUpMoves
  <2>2. Fresh(m)' /\ Fresh(Handler)'
    BY <1>2, <1>5, <2>1
  <2> QED BY <1>4, <2>1, <2>2 DEF PidsAreFresh
<1>9. ASSUME NEW m \in Monitor, MonitorNext(m)
      PROVE  PidsAreFresh'
  <2>1. /\ \A u \in Thread \ {m} : thread'[u] = thread[u]
        /\ thread'[m].pc \in {"lease", "leaseShort"} =>
              /\ thread'[m].pid \in FreePids
              /\ proc' = [proc EXCEPT ![thread'[m].pid] = Dhcpcd(thread[m].entry, "fresh")]
        /\ thread'[m].pc \notin {"record", "verify"}
    BY <1>9, MonitorMoves DEF Moves
  <2>2. Fresh(m)'
    BY <2>1 DEF FreePids, Dhcpcd, TypeOK
  <2> QED BY <1>2, <1>6, <2>1, <2>2
<1>10. ASSUME NEW t \in Thread, AppNext(t)
       PROVE  PidsAreFresh'
  <2>1. /\ \A u \in Thread \ {t} : thread'[u] = thread[u]
        /\ thread'[t].pc # "idle" => thread'[t].entry = thread[t].entry
        /\ thread'[t].pc \notin {"lease", "leaseShort"}
        /\ thread'[t].pc = "record" =>
              /\ thread'[t].pid \in FreePids
              /\ proc' = [proc EXCEPT ![thread'[t].pid] = App(At[thread[t].entry], TRUE)]
        /\ thread'[t].pc = "verify" => RecordApp(t) /\ thread'[t].pid = thread[t].pid
    BY <1>10, AppMoves DEF Moves
  <2>2. thread'[t].pc = "record" => Fresh(t)'
    BY <2>1 DEF FreePids, App, TypeOK
  <2>3. ASSUME thread'[t].pc = "verify" PROVE Fresh(t)'
    <3>1. thread[t].pc = "record"
      BY <2>1, <2>3 DEF RecordApp, At_
    <3>2. Ages(thread[t].pid)
      BY <1>3, <3>1
    <3> QED BY <2>1, <2>3, <3>1, <3>2 DEF Ages, PidsAreFresh
  <2> QED BY <1>5, <1>6, <2>1, <2>2, <2>3
<1>11. CASE Crash
  BY <1>5, <1>11, IdleWorks DEF Crash, PidsAreFresh
<1>12. CASE UNCHANGED thread
  BY <1>4, <1>12 DEF PidsAreFresh
<1> HIDE DEF Fresh
<1> QED BY <1>7, <1>8, <1>9, <1>10, <1>11, <1>12 DEF Next, LeaveAlone, HandlerNext, DhcpWrites,
        Exits,
        Starts, vars

LEMMA FilesStep ==
  ASSUME TypeOK, ThreadsOK, [Next]_vars
  PROVE  /\ dhcpfile' \in [Entry -> Pid \cup {None}] /\ appfile' \in [Place -> Pid \cup {None}]
         /\ excused' \subseteq Entry /\ faults' \in 0..MaxFaults
<1> USE DEF TypeOK
<1>0. \A t \in Thread : Works(t, thread[t])
  BY AllWork
<1>1. CASE \E e \in Entry : BeginUp(e) \/ BeginDown(e)
  BY <1>1 DEF BeginUp, BeginDown, files, histories
<1>2. CASE Joined
  <2>1. thread[Handler].entry \in Entry
    BY <1>0, <1>2, AllWork DEF Joined, At_, Works
  <2> QED BY <1>2, <2>1, MonitorsAssumption DEF Joined, files
<1>3. CASE ReadAppFile
  BY <1>3 DEF ReadAppFile, files, histories
<1>4. CASE KillApp
  <2>1. thread[Handler].entry \in Entry
    BY <1>0, <1>4, AllWork DEF KillApp, At_, Works
  <2>2. appfile' \in [Place -> Pid \cup {None}] /\ dhcpfile' = dhcpfile
    BY <1>4 DEF KillApp
  <2>3. excused' \subseteq Entry /\ faults' \in 0..MaxFaults
    BY <1>4, <2>1, MonitorsAssumption DEF KillApp
  <2> QED BY <2>2, <2>3
<1>5. CASE SignalDhcp
  <2>1. thread[Handler].entry \in Entry
    BY <1>0, <1>5, AllWork DEF SignalDhcp, At_, Works
  <2> QED BY <1>5, <2>1, MonitorsAssumption DEF SignalDhcp, files, histories
<1>6. CASE RemoveDhcp
  BY <1>6 DEF RemoveDhcp, histories
<1>7. CASE \E m \in Monitor : MonitorNext(m)
  BY <1>7 DEF MonitorNext, Poll, ReleaseDhcp, SpawnDhcp, LeaseEnds, Leased, SetRoute, Finish,
     MonitorStep, Begins, files, histories
<1>8. ASSUME NEW t \in Thread, AppNext(t)
      PROVE  /\ dhcpfile' = dhcpfile /\ UNCHANGED <<excused, faults>>
             /\ appfile' \in [Place -> Pid \cup {None}]
  <2>1. dhcpfile' = dhcpfile /\ UNCHANGED <<excused, faults>>
    BY <1>8 DEF AppNext, AdmitApp, LaunchApp, RecordApp, VerifyApp, Begins, files, histories
  <2>2. thread[t].pc = "record" => thread[t].pid \in Pid
    BY DEF ThreadsOK
  <2>3. appfile' \in [Place -> Pid \cup {None}]
    BY <1>8, <2>2 DEF AppNext, AdmitApp, LaunchApp, RecordApp, VerifyApp, At_, files
  <2> QED BY <2>1, <2>3
<1>9. CASE \E p \in Pid : DhcpWrites(p)
  <2>1. PICK p \in Pid : DhcpWrites(p)
    BY <1>9
  <2>2. UNCHANGED <<appfile, excused, faults>>
    BY <2>1 DEF DhcpWrites, histories
  <2>3. dhcpfile' = [dhcpfile EXCEPT ![proc[p].for] = p]
    BY <2>1 DEF DhcpWrites
  <2>4. dhcpfile \in [Entry -> Pid \cup {None}] /\ proc[p].for \in Entry
    BY <2>1, ProcessChanges DEF DhcpWrites
  <2>5. dhcpfile' \in [Entry -> Pid \cup {None}]
    BY <2>3, <2>4
  <2> QED BY <2>2, <2>5
<1>10. CASE \E p \in Pid : Exits(p) \/ Starts(p)
  <2>1. UNCHANGED <<dhcpfile, appfile, excused>>
    BY <1>10 DEF Exits, Starts, files, histories
  <2>2. faults' = faults \/ (faults < MaxFaults /\ faults' = faults + 1)
    BY <1>10 DEF Exits, Starts, histories
  <2> QED BY <2>1, <2>2, MonitorsAssumption
<1>11. CASE Crash
  BY <1>11, MonitorsAssumption DEF Crash, Unrecorded, files
<1>12. CASE \E e \in Entry : LeaveAlone(e)
  BY <1>12, MonitorsAssumption DEF LeaveAlone, files
<1> QED BY <1>1, <1>2, <1>3, <1>4, <1>5, <1>6, <1>7, <1>8, <1>9, <1>10, <1>11, <1>12 DEF Next,
        HandlerNext, vars, files, histories

-------------------------------------------------------------------------------
(* The results.                                                            *)

LEMMA MonitorInvariantStep ==
  ASSUME MonitorInvariant, [Next]_vars
  PROVE  MonitorInvariant'
<1> USE DEF MonitorInvariant
<1>1. TypeOK'
  BY ThreadsStep, ControlTypes, LateStep, ProcessesStep, FilesStep DEF TypeOK
<1>2. ThreadsOK'
  BY ThreadsStep
<1>3. NoUncontrolledMonitor' /\ JoinsTheTold'
  BY RegistrationStep
<1>4. LateIsLast' /\ ChildrenAreApps' /\ PidsAreFresh'
  BY LateStep, ProcessesStep, PidsStep
<1> QED BY <1>1, <1>2, <1>3, <1>4

LEMMA MonitorsInit ==
  ASSUME Init
  PROVE  MonitorInvariant
<1>1. Idle.pc = "idle" /\ Idle.entry = None /\ Idle.pid = None /\ Idle \in ThreadState
  BY DEF Idle, ThreadState, HandlerPcs
<1>2. TypeOK
  BY <1>1, ProcessKinds, MonitorsAssumption DEF Init, TypeOK
<1>3. ThreadsOK
  BY <1>1, MonitorsAssumption DEF Init, ThreadsOK, HandlerPcs
<1> QED BY <1>1, <1>2, <1>3, MonitorsAssumption DEF Init, MonitorInvariant, NoUncontrolledMonitor,
           JoinsTheTold, LateIsLast, ChildrenAreApps, PidsAreFresh, Thread, At_

(* Connection monitors keep their tables: the types, and what each thread is
   sure of at each of its points (monitor.py, namespaces/apps.py). *)
THEOREM MonitorsAreKnown == Spec => []MonitorInvariant
BY MonitorsInit, MonitorInvariantStep, PTL DEF Spec

(* No monitor runs that a later change could not stop: it is registered or has
   been told to stop, even after joins that timed out (monitor.py:36-51). *)
THEOREM MonitorsAreControlled == Spec => []NoUncontrolledMonitor
BY MonitorsAreKnown, PTL DEF MonitorInvariant

(* A monitor that was told to stop begins at most one more effect
   (monitor.py:107-137). *)
THEOREM EffectsEnd == Spec => []OneLateEffect
<1>1. MonitorInvariant => OneLateEffect
  BY DEF MonitorInvariant, LateIsLast, OneLateEffect, TypeOK
<1> QED BY <1>1, MonitorsAreKnown, PTL

(* Whoever ends a process other than by its own exit is a thread that moves   *)
LEMMA KillerIsConcerned ==
  ASSUME MonitorInvariant, [Next]_vars, NEW p \in Pid, Killed(p)
  PROVE  \E t \in Thread : thread'[t] # thread[t] /\ Concerns(t, p)
<1>1. /\ TypeOK /\ ThreadsOK /\ ChildrenAreApps /\ PidsAreFresh
      /\ proc \in [Pid -> Process] /\ thread \in [Thread -> ThreadState]
      /\ Handler \in Thread /\ Monitor \subseteq Thread
  BY AllWork DEF MonitorInvariant, TypeOK
<1>2. /\ proc[p].what \notin {"free", "zombie"} /\ proc'[p].what \in {"free", "zombie"}
      /\ ~Exits(p) /\ ~Crash
  BY DEF Killed
<1>3. proc'[p] # proc[p] /\ proc[p] # Free
  BY <1>2 DEF Free
<1>4. p \in owned => proc[p].what = "app"
  BY <1>1, <1>2 DEF ChildrenAreApps
<1>5. CASE KillApp
  <2> DEFINE pid == thread[Handler].pid
             pl == At[thread[Handler].entry]
  <2>1. p \in Reaped(pid, pl) \/ (pid # None /\ p \in Victims(pid, pl))
    BY <1>3, <1>5 DEF KillApp
  <2>2. Concerns(Handler, p)
    BY <1>1, <1>4, <2>1 DEF Reaped, Victims, App, Concerns
  <2>3. thread[Handler].pc = "killApp" /\ \E pc \in {"signal", "idle"} : HandlerGoes(pc)
    BY <1>5 DEF KillApp, At_
  <2>4. thread'[Handler].pc # "killApp"
    BY <1>1, <2>3 DEF HandlerGoes, Idle, ThreadState
  <2> QED BY <1>1, <2>2, <2>3, <2>4
<1>6. CASE SignalDhcp
  <2>1. p \in Leasing(thread[Handler].entry) /\ Goto(Handler, "remove")
    BY <1>3, <1>6 DEF SignalDhcp
  <2>2. Concerns(Handler, p)
    BY <2>1 DEF Leasing, Dhcpcd, Concerns
  <2>3. thread[Handler].pc = "signal" /\ thread'[Handler].pc = "remove"
    BY <1>1, <1>6, <2>1 DEF SignalDhcp, At_, Goto, ThreadState
  <2> QED BY <1>1, <2>2, <2>3
<1>7. CASE RemoveDhcp
  <2>1. proc'[p] = Dhcpcd(thread[Handler].entry, "lost")
    BY <1>3, <1>7 DEF RemoveDhcp
  <2> QED BY <1>2, <2>1 DEF Dhcpcd
<1>8. ASSUME NEW m \in Monitor, MonitorNext(m)
      PROVE  \E t \in Thread : thread'[t] # thread[t] /\ Concerns(t, p)
  <2>1. CASE ReleaseDhcp(m)
    <3>1. p \in Leasing(thread[m].entry)
      BY <1>3, <2>1 DEF ReleaseDhcp
    <3>2. Concerns(m, p)
      BY <3>1 DEF Leasing, Dhcpcd, Concerns
    <3>3. /\ thread[m].pc \in {"release", "releaseShort"}
          /\ \E pc \in {"spawn", "spawnShort"} : Goto(m, pc)
      BY <2>1 DEF ReleaseDhcp, At_
    <3>4. thread'[m].pc \in {"spawn", "spawnShort"}
      BY <1>1, <3>3 DEF Goto, ThreadState
    <3> QED BY <1>1, <3>2, <3>3, <3>4
  <2>2. CASE LeaseEnds(m)
    <3>1. /\ proc' = [proc EXCEPT ![thread[m].pid] =
                       IF @.for = thread[m].entry THEN Free ELSE @]
          /\ thread' = [thread EXCEPT ![m].pid = None, ![m].pc = "finish"]
      BY <1>3, <2>2 DEF LeaseEnds
    <3>2. proc[p].for = thread[m].entry
      BY <1>1, <1>3, <3>1
    <3>3. thread[m].pc \in {"lease", "leaseShort"} /\ thread'[m].pc = "finish"
      BY <1>1, <2>2, <3>1 DEF LeaseEnds, At_, ThreadState
    <3> QED BY <1>1, <3>2, <3>3 DEF Concerns
  <2>3. CASE SpawnDhcp(m)
    <3>1. PICK q \in FreePids : proc' = [proc EXCEPT ![q] = Dhcpcd(thread[m].entry, "fresh")]
      BY <1>3, <2>3 DEF SpawnDhcp
    <3> QED BY <1>1, <1>3, <3>1 DEF FreePids
  <2>4. CASE proc' = proc
    BY <1>3, <2>4
  <2> QED BY <1>8, <2>1, <2>2, <2>3, <2>4 DEF MonitorNext, Poll, Leased, SetRoute, Finish
<1>9. ASSUME NEW t \in Thread, AppNext(t)
      PROVE  \E u \in Thread : thread'[u] # thread[u] /\ Concerns(u, p)
  <2>1. CASE AdmitApp(t)
    <3>1. p \in owned \ Alive
      BY <1>3, <2>1 DEF AdmitApp
    <3> QED BY <1>4, <3>1 DEF Alive
  <2>2. CASE LaunchApp(t)
    <3>1. PICK q \in FreePids : proc' = [proc EXCEPT ![q] = App(At[thread[t].entry], TRUE)]
      BY <1>3, <2>2 DEF LaunchApp
    <3> QED BY <1>1, <1>3, <3>1 DEF FreePids
  <2>3. CASE RecordApp(t)
    <3>1. /\ proc' = [proc EXCEPT ![thread[t].pid] =
                       IF thread[t].pid \in owned THEN Free ELSE @]
          /\ AppDone(t) /\ thread[t].pc = "record"
      BY <1>3, <2>3 DEF RecordApp, At_
    <3>2. p = thread[t].pid /\ p \in owned
      BY <1>1, <1>3, <3>1
    <3>3. Concerns(t, p)
      BY <1>1, <1>4, <3>1, <3>2 DEF PidsAreFresh, Concerns
    <3>4. thread'[t].pc \in {"idle", "finish"}
      BY <1>1, <3>1 DEF AppDone, Idle, ThreadState
    <3> QED BY <3>1, <3>3, <3>4
  <2>4. CASE VerifyApp(t)
    <3>1. p \in owned /\ proc[p].what = "zombie"
      BY <1>1, <1>3, <2>4 DEF VerifyApp
    <3> QED BY <1>2, <3>1
  <2> QED BY <1>9, <2>1, <2>2, <2>3, <2>4 DEF AppNext
<1>10. ASSUME NEW q \in Pid, DhcpWrites(q) \/ Exits(q) \/ Starts(q)
       PROVE  FALSE
  <2>1. CASE DhcpWrites(q)
    <3>1. p = q /\ proc' = [proc EXCEPT ![q] = [proc[q] EXCEPT !.what = "dhcpcd"]]
      BY <1>1, <1>3, <2>1 DEF DhcpWrites
    <3>2. proc'[p].what = "dhcpcd"
      BY <1>1, <3>1 DEF Process
    <3> QED BY <1>2, <3>2
  <2>2. CASE Exits(q)
    BY <1>1, <1>2, <1>3, <2>2 DEF Exits
  <2>3. CASE Starts(q)
    BY <1>1, <1>3, <2>3 DEF Starts, FreePids
  <2> QED BY <1>10, <2>1, <2>2, <2>3
<1> QED BY <1>2, <1>3, <1>5, <1>6, <1>7, <1>8, <1>9, <1>10 DEF Next, LeaveAlone, HandlerNext,
        vars, BeginUp,
        BeginDown, Joined, ReadAppFile

(* Core ends no process because of its pid alone: the thread that does works
   for the entry whose dhcpcd it is, or in the namespace of the app
   (apps.py:336-357, network_management.py:40-75). *)
THEOREM SignalsHitTheirOwn == Spec => KillsOnlyItsOwn
<1>1. MonitorInvariant /\ [Next]_vars =>
        [\A p \in Pid : Killed(p) => \E t \in Thread : thread'[t] # thread[t] /\ Concerns(t, p)]_vars
  BY KillerIsConcerned
<1> QED BY <1>1, MonitorsAreKnown, PTL DEF Spec, KillsOnlyItsOwn

-------------------------------------------------------------------------------
(* What is left of an entry that is down: QuietInvariant says where each    *)
(* process Core started for an entry can be, as long as no disturbance       *)
(* excuses the entry.                                                        *)

Doing(e, pcs) == thread[Handler].entry = e /\ thread[Handler].pc \in pcs
Stopping == {"stopApp", "killApp", "signal", "remove"}

(* The handler asks for what an entry has, and starts its app itself only
   where no monitor does, after it has recorded the entry as set up *)
HandlerKnows ==
  LET h == thread[Handler] IN
  /\ h.pc \in {"joinUp", "signal", "remove"} => h.entry \in Secure
  /\ h.pc \in {"stopApp", "killApp"} => h.entry \in WithApp
  /\ h.pc \in AppPcs => h.entry \in (WithApp \ Secure) \cap up
  /\ h.pc \in {"joinUp", "joinDown"} => registry[h.entry] \in {joining, None}

(* Monitors are of entries with security, and start the apps of those that
   have one.  One whose entry's joins were all in time is the registered one,
   its entry is set up, and nothing of that is being stopped. *)
MonitorsKnow ==
  \A m \in Monitor : thread[m].pc # "idle" =>
    /\ thread[m].entry \in Secure
    /\ thread[m].pc \in AppPcs => thread[m].entry \in WithApp
    /\ \/ thread[m].entry \in excused
       \/ /\ registry[thread[m].entry] = m /\ thread[m].entry \in up
          /\ ~Doing(thread[m].entry, Stopping)

(* Where the handler's steps take it *)
LEMMA HandlerPoints ==
  ASSUME TypeOK, ThreadsOK
  PROVE  /\ \A e \in Entry : BeginUp(e) =>
              \/ /\ thread'[Handler].pc = "joinUp" /\ thread'[Handler].entry = e
                 /\ e \in Secure /\ joining' = registry[e] /\ up' = up
              \/ /\ thread'[Handler].pc = "admit" /\ thread'[Handler].entry = e
                 /\ e \in WithApp \ Secure /\ up' = up \cup {e}
              \/ thread'[Handler].pc = "idle" /\ up' = up \cup {e}
         /\ \A e \in Entry : BeginDown(e) =>
              /\ thread'[Handler].pc = "joinDown" /\ thread'[Handler].entry = e
              /\ joining' = registry[e]
         /\ Joined /\ At_(Handler, "joinDown") =>
              /\ \/ thread'[Handler].pc = "stopApp" /\ thread[Handler].entry \in WithApp /\ up' = up
                 \/ /\ thread'[Handler].pc = "signal"
                    /\ thread[Handler].entry \in Secure \ WithApp /\ up' = up
                 \/ /\ thread'[Handler].pc = "idle" /\ up' = up \ {thread[Handler].entry}
                    /\ thread[Handler].entry \notin WithApp \cup Secure
              /\ thread'[Handler].pc # "idle" => thread'[Handler].entry = thread[Handler].entry
         /\ ReadAppFile =>
              /\ thread'[Handler].pc = "killApp" /\ thread'[Handler].entry = thread[Handler].entry
              /\ thread'[Handler].pid = appfile[At[thread[Handler].entry]]
         /\ KillApp =>
              \/ /\ thread'[Handler].pc = "signal" /\ thread[Handler].entry \in Secure /\ up' = up
                 /\ thread'[Handler].entry = thread[Handler].entry
              \/ /\ thread'[Handler].pc = "idle" /\ thread[Handler].entry \notin Secure
                 /\ up' = up \ {thread[Handler].entry}
         /\ SignalDhcp =>
              \/ /\ thread'[Handler].pc = "remove" /\ up' = up
                 /\ thread'[Handler].entry = thread[Handler].entry
              \/ /\ thread'[Handler].pc = "idle" /\ up' = up \ {thread[Handler].entry}
                 /\ excused' = excused \cup {thread[Handler].entry}
         /\ RemoveDhcp => thread'[Handler].pc = "idle" /\ up' = up \ {thread[Handler].entry}
<1> DEFINE h == thread[Handler]
<1>1. /\ Handler \in Thread /\ thread \in [Thread -> ThreadState] /\ h \in ThreadState
      /\ Idle.pc = "idle" /\ Idle \in ThreadState
  BY AllWork, IdleWorks DEF Works, TypeOK
<1>2. \A pc \in HandlerPcs, e \in Entry : /\ [Idle EXCEPT !.pc = pc, !.entry = e].pc = pc
                                          /\ [Idle EXCEPT !.pc = pc, !.entry = e].entry = e
  BY <1>1 DEF ThreadState, HandlerPcs
<1>3. ASSUME NEW pc, HandlerGoes(pc)
      PROVE  /\ thread'[Handler].pc = pc
             /\ pc # "idle" => thread'[Handler].entry = h.entry
  BY <1>1, <1>3 DEF HandlerGoes, ThreadState
<1>4. ASSUME NEW e \in Entry, BeginUp(e)
      PROVE  \/ /\ thread'[Handler].pc = "joinUp" /\ thread'[Handler].entry = e
                /\ e \in Secure /\ joining' = registry[e] /\ up' = up
             \/ /\ thread'[Handler].pc = "admit" /\ thread'[Handler].entry = e
                /\ e \in WithApp \ Secure /\ up' = up \cup {e}
             \/ thread'[Handler].pc = "idle" /\ up' = up \cup {e}
  <2>1. CASE e \in Secure
    <3>1. /\ thread' = [thread EXCEPT ![Handler] = [Idle EXCEPT !.pc = "joinUp", !.entry = e]]
          /\ joining' = registry[e] /\ up' = up
      BY <1>4, <2>1 DEF BeginUp
    <3> QED BY <1>1, <2>1, <3>1 DEF ThreadState
  <2>2. CASE e \in WithApp \ Secure
    <3>1. /\ thread' = [thread EXCEPT ![Handler] = [Idle EXCEPT !.pc = "admit", !.entry = e]]
          /\ up' = up \cup {e}
      BY <1>4, <2>2 DEF BeginUp
    <3> QED BY <1>1, <2>2, <3>1 DEF ThreadState
  <2>3. CASE e \notin WithApp \cup Secure
    <3>1. thread' = [thread EXCEPT ![Handler] = Idle] /\ up' = up \cup {e}
      BY <1>4, <2>3 DEF BeginUp
    <3> QED BY <1>1, <3>1
  <2> QED BY <2>1, <2>2, <2>3
<1>5. ASSUME NEW e \in Entry, BeginDown(e)
      PROVE  /\ thread'[Handler].pc = "joinDown" /\ thread'[Handler].entry = e
             /\ joining' = registry[e]
  BY <1>1, <1>5 DEF BeginDown, ThreadState
<1>6. ASSUME Joined, At_(Handler, "joinDown")
      PROVE  /\ \/ thread'[Handler].pc = "stopApp" /\ h.entry \in WithApp /\ up' = up
                \/ thread'[Handler].pc = "signal" /\ h.entry \in Secure \ WithApp /\ up' = up
                \/ /\ thread'[Handler].pc = "idle" /\ up' = up \ {h.entry}
                   /\ h.entry \notin WithApp \cup Secure
             /\ thread'[Handler].pc # "idle" => thread'[Handler].entry = h.entry
  <2>1. /\ HandlerGoes(IF h.entry \in WithApp THEN "stopApp"
                       ELSE IF h.entry \in Secure THEN "signal" ELSE "idle")
        /\ up' = IF h.entry \in WithApp \cup Secure THEN up ELSE up \ {h.entry}
    BY <1>6 DEF Joined, At_
  <2> QED BY <1>3, <2>1
<1>7. ASSUME ReadAppFile
      PROVE  /\ thread'[Handler].pc = "killApp" /\ thread'[Handler].entry = h.entry
             /\ thread'[Handler].pid = appfile[At[h.entry]]
  BY <1>1, <1>7 DEF ReadAppFile, ThreadState
<1>8. ASSUME KillApp
      PROVE  \/ /\ thread'[Handler].pc = "signal" /\ h.entry \in Secure /\ up' = up
                /\ thread'[Handler].entry = h.entry
             \/ /\ thread'[Handler].pc = "idle" /\ h.entry \notin Secure
                /\ up' = up \ {h.entry}
  <2>1. /\ HandlerGoes(IF h.entry \in Secure THEN "signal" ELSE "idle")
        /\ up' = IF h.entry \in Secure THEN up ELSE up \ {h.entry}
    BY <1>8 DEF KillApp
  <2> QED BY <1>3, <2>1
<1>9. ASSUME SignalDhcp
      PROVE  \/ /\ thread'[Handler].pc = "remove" /\ up' = up /\ thread'[Handler].entry = h.entry
             \/ /\ thread'[Handler].pc = "idle" /\ up' = up \ {h.entry}
                /\ excused' = excused \cup {h.entry}
  <2>1. \/ Goto(Handler, "remove") /\ up' = up
        \/ /\ thread' = [thread EXCEPT ![Handler] = Idle] /\ up' = up \ {h.entry}
           /\ excused' = excused \cup {h.entry}
    BY <1>9 DEF SignalDhcp
  <2> QED BY <1>1, <2>1 DEF Goto, ThreadState
<1>10. ASSUME RemoveDhcp
       PROVE  thread'[Handler].pc = "idle" /\ up' = up \ {h.entry}
  BY <1>1, <1>10 DEF RemoveDhcp
<1> QED BY <1>4, <1>5, <1>6, <1>7, <1>8, <1>9, <1>10

(* A monitor leaves for an app only where its entry has one *)
LEMMA MonitorPoints ==
  ASSUME TypeOK, ThreadsOK, NEW m \in Monitor, MonitorNext(m), thread'[m].pc \in AppPcs
  PROVE  thread'[m].pc = "admit" /\ thread[m].entry \in WithApp
<1>1. m \in Thread /\ thread[m] \in ThreadState /\ thread \in [Thread -> ThreadState]
  BY AllWork DEF TypeOK
<1>2. \A pc : Goto(m, pc) => thread'[m].pc = pc
  BY <1>1 DEF Goto, ThreadState
<1>3. Idle.pc \notin AppPcs
  BY DEF Idle, AppPcs
<1>4. CASE Poll(m) \/ ReleaseDhcp(m)
  BY <1>2, <1>4 DEF Poll, ReleaseDhcp, AppPcs
<1>5. CASE SpawnDhcp(m) \/ LeaseEnds(m)
  <2>1. thread'[m].pc \in {"lease", "leaseShort", "leased", "finish"}
    <3>1. CASE SpawnDhcp(m)
      <4>1. \/ \E pc \in {"leased", "finish"} : Goto(m, pc)
            \/ \E p \in FreePids, pc \in {"lease", "leaseShort"} :
                 thread' = [thread EXCEPT ![m].pid = p, ![m].pc = pc]
        BY <3>1, Zenon DEF SpawnDhcp
      <4> QED BY <1>1, <1>2, <4>1 DEF ThreadState
    <3>2. CASE LeaseEnds(m)
      BY <1>1, <3>2 DEF LeaseEnds, ThreadState
    <3> QED BY <1>5, <3>1, <3>2
  <2> QED BY <2>1 DEF AppPcs
<1>6. CASE Leased(m) \/ SetRoute(m)
  BY <1>2, <1>6 DEF Leased, SetRoute, AfterDhcp, AppNextStep, AppPcs
<1>7. CASE Finish(m)
  BY <1>1, <1>3, <1>7 DEF Finish
<1> QED BY <1>4, <1>5, <1>6, <1>7 DEF MonitorNext

(* Starting an app changes what is set up only when the handler fails to     *)
LEMMA AppPoints ==
  ASSUME TypeOK, ThreadsOK, NEW t \in Thread, AppNext(t)
  PROVE  /\ thread[t].pc \in AppPcs /\ UNCHANGED <<registry, joining, excused>>
         /\ \/ up' = up
            \/ /\ t = Handler /\ thread'[t].pc = "idle" /\ up' = up \ {thread[t].entry}
               /\ LaunchApp(t) \/ RecordApp(t)
         /\ t = Handler => thread'[t].pc \in AppPcs \cup {"idle"}
<1>1. /\ thread[t].pc \in AppPcs /\ UNCHANGED <<registry, joining, excused>>
  BY DEF AppNext, AdmitApp, LaunchApp, RecordApp, VerifyApp, bookkeeping, histories, Begins,
         At_, AppPcs
<1>2. CASE up' # up
  <2>1. (LaunchApp(t) \/ RecordApp(t)) /\ t = Handler /\ AppDone(t) /\ up' = up \ {thread[t].entry}
    BY <1>2 DEF AppNext, AdmitApp, LaunchApp, RecordApp, VerifyApp, bookkeeping
  <2>2. thread'[t] = Idle
    BY <2>1 DEF AppDone, TypeOK
  <2> QED BY <1>1, <2>1, <2>2 DEF Idle
<1>3. t = Handler => thread'[t].pc \in AppPcs \cup {"idle"}
  <2>1. t = Handler /\ AppDone(t) => thread'[t] = Idle
    BY DEF AppDone, TypeOK
  <2>2. AppDone(t) \/ thread'[t].pc \in AppPcs
    <3>1. thread[t] \in ThreadState /\ thread \in [Thread -> ThreadState]
      BY DEF TypeOK
    <3>2. \A pc : Goto(t, pc) => thread'[t].pc = pc
      BY <3>1 DEF Goto, ThreadState
    <3>3. \A q : thread' = [thread EXCEPT ![t].pid = q, ![t].pc = "record"] =>
                   thread'[t].pc = "record"
      BY <3>1 DEF ThreadState
    <3> QED BY <3>2, <3>3 DEF AppNext, AdmitApp, LaunchApp, RecordApp, VerifyApp, AppPcs
  <2> QED BY <2>1, <2>2 DEF Idle
<1> QED BY <1>1, <1>2, <1>3

LEMMA MonitorKeeps ==
  ASSUME TypeOK, NEW m \in Monitor, MonitorNext(m)
  PROVE  /\ UNCHANGED <<joining, up, appfile, dhcpfile, owned, excused>>
         /\ \A e \in Entry : \/ registry'[e] = registry[e]
                             \/ registry[e] = m /\ registry'[e] = None /\ thread'[m].pc = "idle"
<1>1. CASE Finish(m)
  <2>1. m \in Thread
    BY DEF Thread
  <2> QED BY <1>1, <2>1 DEF Finish, Deregister, Idle, TypeOK, files
<1>2. CASE ~Finish(m)
  BY <1>2 DEF MonitorNext, Poll, ReleaseDhcp, SpawnDhcp, LeaseEnds, Leased, SetRoute,
     MonitorStep, Begins, bookkeeping, files, histories
<1> QED BY <1>1, <1>2

LEMMA HandlerKnowsStep ==
  ASSUME TypeOK, ThreadsOK, HandlerKnows, [Next]_vars
  PROVE  HandlerKnows'
<1> USE DEF HandlerKnows
<1>0. /\ Handler \in Thread /\ Handler \notin Monitor
      /\ thread[Handler].pc # "idle" => thread[Handler].entry \in Entry
      /\ AppPcs = {"admit", "launch", "record", "verify"}
  BY AllWork DEF Works, AppPcs
<1>1. CASE \E e \in Entry : BeginUp(e) \/ BeginDown(e)
  <2>1. registry' = registry
    BY <1>1 DEF BeginUp, BeginDown
  <2> QED BY <1>0, <1>1, <2>1, HandlerPoints
<1>2. CASE Joined /\ At_(Handler, "joinDown")
  BY <1>0, <1>2, HandlerPoints
<1>3. CASE Joined /\ ~At_(Handler, "joinDown")
  BY <1>0, <1>3, JoinUpMoves
<1>4. CASE ReadAppFile
  BY <1>0, <1>4, HandlerPoints DEF ReadAppFile, At_
<1>5. CASE KillApp
  BY <1>0, <1>5, HandlerPoints
<1>6. CASE SignalDhcp
  BY <1>0, <1>6, HandlerPoints DEF SignalDhcp, At_
<1>7. CASE RemoveDhcp
  BY <1>0, <1>7, HandlerPoints
<1>8. ASSUME NEW m \in Monitor, MonitorNext(m)
      PROVE  HandlerKnows'
  <2>1. thread'[Handler] = thread[Handler] /\ UNCHANGED <<joining, up>>
    BY <1>0, <1>8, MonitorMoves, MonitorKeeps DEF Moves
  <2>2. thread[Handler].pc \in {"joinUp", "joinDown"} =>
          registry'[thread[Handler].entry] \in {registry[thread[Handler].entry], None}
    BY <1>0, <1>8, MonitorKeeps
  <2> QED BY <2>1, <2>2
<1>9. ASSUME NEW t \in Thread, AppNext(t)
      PROVE  HandlerKnows'
  <2>1. CASE t = Handler
    BY <1>0, <1>9, <2>1, AppMoves, AppPoints
  <2>2. CASE t # Handler
    <3>1. thread'[Handler] = thread[Handler] /\ UNCHANGED <<registry, joining, up>>
      BY <1>0, <1>9, <2>2, AppMoves, AppPoints DEF Moves
    <3> QED BY <3>1
  <2> QED BY <2>1, <2>2
<1>10. CASE Crash
  BY <1>0, <1>10 DEF Crash, Idle
<1>11. CASE UNCHANGED <<thread, registry, joining, up>>
  BY <1>11
<1>12. CASE \E e \in Entry : LeaveAlone(e)
  BY <1>0, <1>12 DEF LeaveAlone, At_
<1> QED BY <1>1, <1>2, <1>3, <1>4, <1>5, <1>6, <1>7, <1>8, <1>9, <1>10, <1>11, <1>12
        DEF Next, HandlerNext, DhcpWrites, Exits, Starts, vars, bookkeeping

(* While the handler stops what an unexcused entry left, no monitor is at it *)
LEMMA NoMonitorBeside ==
  ASSUME MonitorsKnow, NEW m \in Monitor, thread[m].pc # "idle",
         thread[m].entry \notin excused, thread[Handler].pc \in Stopping
  PROVE  thread[m].entry # thread[Handler].entry
BY DEF MonitorsKnow, Doing

(* ... nor after a join of it that was in time *)
LEMMA JoinedInTime ==
  ASSUME TypeOK, ThreadsOK, HandlerKnows, MonitorsKnow, Joined,
         NEW m \in Monitor, thread[m].pc # "idle", thread[m].entry \notin excused'
  PROVE  thread[m].entry # thread[Handler].entry
<1> SUFFICES ASSUME thread[m].entry = thread[Handler].entry PROVE FALSE
  OBVIOUS
<1>1. /\ joining \in Monitor => At_(joining, "idle")
      /\ excused' = excused
  BY DEF Joined
<1>2. registry[thread[Handler].entry] \in {joining, None}
  BY DEF Joined, At_, HandlerKnows
<1>3. registry[thread[Handler].entry] = m
  BY <1>1 DEF MonitorsKnow
<1> QED BY <1>1, <1>2, <1>3, MonitorsAssumption DEF At_

LEMMA ExcusesStay ==
  ASSUME [Next]_vars
  PROVE  excused \subseteq excused'
BY DEF Next, BeginUp, BeginDown, LeaveAlone, HandlerNext, Joined, ReadAppFile, KillApp,
   SignalDhcp, RemoveDhcp, MonitorNext, Poll, ReleaseDhcp, SpawnDhcp, LeaseEnds, Leased,
   SetRoute, Finish, MonitorStep,
   AppNext, AdmitApp, LaunchApp, RecordApp, VerifyApp, DhcpWrites, Exits, Starts, Crash, Begins,
   histories, vars

LEMMA MonitorsKnowStep ==
  ASSUME TypeOK, ThreadsOK, HandlerKnows, MonitorsKnow, [Next]_vars
  PROVE  MonitorsKnow'
<1>0. /\ Handler \in Thread /\ Handler \notin Monitor /\ Monitor \subseteq Thread
      /\ Stopping = {"stopApp", "killApp", "signal", "remove"}
      /\ AppPcs \cap Stopping = {} /\ excused \subseteq excused'
      /\ \A m \in Monitor : thread[m].pc # "idle" => thread[m].entry \in Entry
  BY AllWork, ExcusesStay DEF Stopping, AppPcs, ThreadsOK
<1>1. CASE \E e \in Entry : BeginUp(e) \/ BeginDown(e)
  <2>1. \A m \in Monitor : thread'[m] = thread[m]
    BY <1>0, <1>1, HandlerMoves DEF Moves
  <2>2. /\ UNCHANGED <<registry, excused>> /\ up \subseteq up'
    BY <1>1 DEF BeginUp, BeginDown, histories
  <2>3. thread'[Handler].pc \notin Stopping
    BY <1>0, <1>1, HandlerPoints
  <2> QED BY <2>1, <2>2, <2>3 DEF MonitorsKnow, Doing
<1>2. ASSUME \A m \in Monitor : thread'[m] = thread[m],
             \A m \in Monitor : thread[m].pc # "idle" /\ thread[m].entry \notin excused' =>
               thread[m].entry # thread[Handler].entry,
             \A e \in Entry : e # thread[Handler].entry => registry'[e] = registry[e],
             up \ {thread[Handler].entry} \subseteq up',
             thread'[Handler].pc \in Stopping => thread'[Handler].entry = thread[Handler].entry
      PROVE  MonitorsKnow'
  BY <1>0, <1>2 DEF MonitorsKnow, Doing
<1>3. CASE Joined /\ At_(Handler, "joinDown")
  <2>1. \A m \in Monitor : thread'[m] = thread[m]
    BY <1>0, <1>3, HandlerMoves DEF Moves
  <2>2. \A e \in Entry : e # thread[Handler].entry => registry'[e] = registry[e]
    BY <1>3 DEF Joined, At_, TypeOK
  <2>3. /\ up \ {thread[Handler].entry} \subseteq up'
        /\ thread'[Handler].pc \in Stopping => thread'[Handler].entry = thread[Handler].entry
    BY <1>0, <1>3, HandlerPoints
  <2> QED BY <1>2, <1>3, <2>1, <2>2, <2>3, JoinedInTime
<1>4. CASE ReadAppFile \/ KillApp \/ SignalDhcp \/ RemoveDhcp
  <2>1. \A m \in Monitor : thread'[m] = thread[m]
    BY <1>0, <1>4, HandlerMoves DEF Moves
  <2>2. registry' = registry
    BY <1>4 DEF ReadAppFile, KillApp, SignalDhcp, RemoveDhcp, bookkeeping
  <2>3. thread[Handler].pc \in Stopping
    BY <1>0, <1>4 DEF ReadAppFile, KillApp, SignalDhcp, RemoveDhcp, At_
  <2>4. /\ up \ {thread[Handler].entry} \subseteq up'
        /\ thread'[Handler].pc \in Stopping => thread'[Handler].entry = thread[Handler].entry
    <3>1. ReadAppFile => up' = up
      BY DEF ReadAppFile, bookkeeping
    <3> QED BY <1>0, <1>4, <3>1, HandlerPoints
  <2>5. \A m \in Monitor : thread[m].pc # "idle" /\ thread[m].entry \notin excused' =>
               thread[m].entry # thread[Handler].entry
    BY <1>0, <2>3, NoMonitorBeside
  <2> QED BY <1>2, <2>1, <2>2, <2>4, <2>5
<1>5. CASE Joined /\ ~At_(Handler, "joinDown")
  <2>1. PICK m \in Monitor :
           /\ At_(m, "idle") /\ m # Handler
           /\ thread'[m].pc = "poll" /\ thread'[m].entry = thread[Handler].entry
           /\ thread'[Handler].pc = "idle"
           /\ \A u \in Thread \ {m, Handler} : thread'[u] = thread[u]
           /\ registry' = [registry EXCEPT ![thread[Handler].entry] = m]
           /\ thread[Handler].entry \in Entry /\ thread[Handler].pc = "joinUp"
    BY <1>5, JoinUpMoves
  <2>2. up' = up \cup {thread[Handler].entry}
    BY <1>5 DEF Joined
  <2>3. thread[Handler].entry \in Secure
    BY <2>1 DEF HandlerKnows
  <2>4. ASSUME NEW n \in Monitor, thread'[n].pc # "idle"
        PROVE  /\ thread'[n].entry \in Secure
               /\ thread'[n].pc \in AppPcs => thread'[n].entry \in WithApp
               /\ \/ thread'[n].entry \in excused'
                  \/ /\ registry'[thread'[n].entry] = n /\ thread'[n].entry \in up'
                     /\ thread'[Handler].pc \notin Stopping
    <3>1. CASE n = m
      <4>1. registry'[thread[Handler].entry] = m
        BY <2>1 DEF TypeOK
      <4> QED BY <2>1, <2>2, <2>3, <3>1, <4>1, <1>0 DEF AppPcs
    <3>2. CASE n # m
      <4>1. thread'[n] = thread[n]
        BY <1>0, <2>1, <3>2
      <4>2. CASE thread[n].entry \in excused'
        BY <2>4, <4>1, <4>2 DEF MonitorsKnow
      <4>3. CASE thread[n].entry \notin excused'
        <5>1. thread[n].entry # thread[Handler].entry
          BY <1>5, <2>4, <4>1, <4>3, JoinedInTime
        <5>2. registry'[thread[n].entry] = registry[thread[n].entry]
          BY <1>0, <2>1, <2>4, <4>1, <5>1 DEF TypeOK
        <5> QED BY <1>0, <2>1, <2>2, <2>4, <4>1, <4>3, <5>2 DEF MonitorsKnow
      <4> QED BY <4>2, <4>3
    <3> QED BY <3>1, <3>2
  <2> QED BY <2>4 DEF MonitorsKnow, Doing
<1>6. ASSUME NEW m \in Monitor, MonitorNext(m)
      PROVE  MonitorsKnow'
  <2>1. /\ \A u \in Thread \ {m} : thread'[u] = thread[u]
        /\ thread[m].pc # "idle"
        /\ thread'[m].pc # "idle" => thread'[m].entry = thread[m].entry
        /\ thread'[m].pc \in AppPcs => thread[m].entry \in WithApp
    BY <1>6, MonitorMoves, MonitorPoints DEF Moves
  <2>2. UNCHANGED <<up, excused>>
    BY <1>6, MonitorKeeps
  <2>3. \A n \in Monitor : thread'[n].pc # "idle" /\ registry[thread[n].entry] = n =>
          registry'[thread[n].entry] = n
    BY <1>0, <1>6, <2>1, MonitorKeeps
  <2> QED BY <1>0, <2>1, <2>2, <2>3 DEF MonitorsKnow, Doing
<1>7. ASSUME NEW t \in Thread, AppNext(t)
      PROVE  MonitorsKnow'
  <2>1. /\ \A u \in Thread \ {t} : thread'[u] = thread[u]
        /\ thread[t].pc # "idle" /\ thread[t].pc \in AppPcs
        /\ thread'[t].pc # "idle" => thread'[t].entry = thread[t].entry
        /\ t = Handler => thread'[t].pc \in AppPcs \cup {"idle"}
        /\ UNCHANGED <<registry, excused>>
    BY <1>7, AppMoves, AppPoints DEF Moves
  <2>2. thread'[Handler].pc \in Stopping => thread'[Handler] = thread[Handler]
    BY <1>0, <2>1
  <2>3. ASSUME NEW m \in Monitor, thread[m].pc # "idle", thread[m].entry \in up
        PROVE  thread[m].entry \in up'
    <3>1. t = Handler => thread[t].entry \notin Secure
      BY <2>1 DEF HandlerKnows
    <3>2. thread[m].entry \in Secure
      BY <2>3 DEF MonitorsKnow
    <3> QED BY <1>7, <2>3, <3>1, <3>2, AppPoints
  <2>4. \A m \in Monitor : thread'[m].pc # "idle" =>
          /\ thread[m].pc # "idle" /\ thread'[m].entry = thread[m].entry
          /\ thread'[m].pc \in AppPcs => thread[m].pc \in AppPcs
    BY <1>0, <2>1
  <2> QED BY <2>1, <2>2, <2>3, <2>4 DEF MonitorsKnow, Doing
<1>8. CASE Crash
  BY <1>0, <1>8 DEF Crash, Idle, MonitorsKnow
<1>9. CASE UNCHANGED <<thread, registry, up, excused>>
  BY <1>9 DEF MonitorsKnow, Doing
<1>10. ASSUME NEW e \in Entry, LeaveAlone(e)
       PROVE  MonitorsKnow'
  BY <1>0, <1>10 DEF LeaveAlone, MonitorsKnow, Doing
<1> QED BY <1>1, <1>3, <1>4, <1>5, <1>6, <1>7, <1>8, <1>9, <1>10
        DEF Next, HandlerNext, DhcpWrites, Exits, Starts, vars, bookkeeping, histories

(* Where a process that a step leaves behind comes from                      *)
DhcpOf(p, e) == proc[p].for = e /\ proc[p].what \in {"fresh", "dhcpcd", "lost"}

SpawnedBy(m, p) ==
  /\ SpawnDhcp(m) /\ Leasing(thread[m].entry) = {}
  /\ proc'[p] = Dhcpcd(thread[m].entry, "fresh")
  /\ thread'[m].pid = p /\ thread'[m].entry = thread[m].entry
  /\ thread'[m].pc \in {"lease", "leaseShort"}

LaunchedBy(t, p) ==
  /\ LaunchApp(t) /\ UNCHANGED up
  /\ proc'[p] = App(At[thread[t].entry], TRUE)
  /\ thread'[t].pid = p /\ thread'[t].entry = thread[t].entry /\ thread'[t].pc = "record"

Origin(p) ==
  \/ proc'[p] = proc[p]
  \/ proc'[p].what \in {"free", "zombie"}
  \/ DhcpWrites(p) /\ proc'[p] = [proc[p] EXCEPT !.what = "dhcpcd"]
  \/ /\ RemoveDhcp /\ DhcpOf(p, thread[Handler].entry)
     /\ proc'[p] = Dhcpcd(thread[Handler].entry, "lost")
  \/ \E m \in Monitor : SpawnedBy(m, p)
  \/ \E t \in Thread : LaunchedBy(t, p)
  \/ ~proc'[p].core /\ proc'[p].what \in {"other", "app"}

LEMMA EndedIsEnded ==
  ASSUME TypeOK, NEW p \in Pid
  PROVE  Free.what = "free" /\ Dead(p).what \in {"free", "zombie"}
BY DEF Free, Dead, TypeOK, Process

LEMMA ProcessOrigin ==
  ASSUME MonitorInvariant, [Next]_vars, NEW p \in Pid
  PROVE  Origin(p)
<1>0. /\ TypeOK /\ ThreadsOK /\ proc \in [Pid -> Process] /\ thread \in [Thread -> ThreadState]
      /\ Monitor \subseteq Thread /\ Free.what = "free" /\ Dead(p).what \in {"free", "zombie"}
  BY AllWork, EndedIsEnded DEF MonitorInvariant, TypeOK
<1>1. CASE KillApp
  <2>1. proc'[p] \in {proc[p], Free, Dead(p)}
    BY <1>1 DEF KillApp
  <2> QED BY <1>0, <2>1 DEF Origin
<1>2. CASE SignalDhcp
  <2>1. proc'[p] \in {proc[p], Free}
    BY <1>2 DEF SignalDhcp
  <2> QED BY <1>0, <2>1 DEF Origin
<1>3. CASE RemoveDhcp
  <2>1. proc'[p] = IF DhcpOf(p, thread[Handler].entry) /\ proc[p].what # "lost"
                   THEN Dhcpcd(thread[Handler].entry, "lost") ELSE proc[p]
    BY <1>3 DEF RemoveDhcp, DhcpOf
  <2> QED BY <1>3, <2>1 DEF Origin
<1>4. ASSUME NEW m \in Monitor, MonitorNext(m)
      PROVE  Origin(p)
  <2>1. CASE ReleaseDhcp(m)
    <3>1. proc'[p] \in {proc[p], Free}
      BY <2>1 DEF ReleaseDhcp
    <3> QED BY <1>0, <3>1 DEF Origin
  <2>2. CASE LeaseEnds(m)
    <3>1. proc'[p] \in {proc[p], Free}
      BY <1>0, <2>2 DEF LeaseEnds
    <3> QED BY <1>0, <3>1 DEF Origin
  <2>3. CASE SpawnDhcp(m) /\ proc' # proc
    <3>1. PICK q \in FreePids :
            /\ proc' = [proc EXCEPT ![q] = Dhcpcd(thread[m].entry, "fresh")]
            /\ thread' = [thread EXCEPT ![m].pid = q,
                            ![m].pc = IF At_(m, "spawn") THEN "lease" ELSE "leaseShort"]
            /\ Leasing(thread[m].entry) = {}
      BY <2>3 DEF SpawnDhcp
    <3>2. /\ thread'[m].pid = q /\ thread'[m].entry = thread[m].entry
          /\ thread'[m].pc \in {"lease", "leaseShort"}
      BY <1>0, <3>1 DEF ThreadState
    <3>3. CASE p = q
      BY <1>0, <2>3, <3>1, <3>2, <3>3 DEF Origin, SpawnedBy
    <3>4. CASE p # q
      BY <1>0, <3>1, <3>4 DEF Origin
    <3> QED BY <3>3, <3>4
  <2>4. CASE proc' = proc
    BY <2>4 DEF Origin
  <2> QED BY <1>4, <2>1, <2>2, <2>3, <2>4 DEF MonitorNext, Poll, Leased, SetRoute, Finish
<1>5. ASSUME NEW t \in Thread, AppNext(t)
      PROVE  Origin(p)
  <2>1. CASE LaunchApp(t) /\ proc' # proc
    <3>1. PICK q \in FreePids :
            /\ proc' = [proc EXCEPT ![q] = App(At[thread[t].entry], TRUE)]
            /\ thread' = [thread EXCEPT ![t].pid = q, ![t].pc = "record"] /\ UNCHANGED up
      BY <2>1 DEF LaunchApp
    <3>2. /\ thread'[t].pid = q /\ thread'[t].entry = thread[t].entry
          /\ thread'[t].pc = "record"
      BY <1>0, <3>1 DEF ThreadState
    <3>3. CASE p = q
      BY <1>0, <2>1, <3>1, <3>2, <3>3 DEF Origin, LaunchedBy
    <3>4. CASE p # q
      BY <1>0, <3>1, <3>4 DEF Origin
    <3> QED BY <3>3, <3>4
  <2>2. CASE proc' = proc
    BY <2>2 DEF Origin
  <2>3. CASE AdmitApp(t) \/ RecordApp(t) \/ VerifyApp(t)
    <3>1. proc'[p] \in {proc[p], Free}
      BY <1>0, <2>3 DEF AdmitApp, RecordApp, VerifyApp
    <3> QED BY <1>0, <3>1 DEF Origin
  <2> QED BY <1>5, <2>1, <2>2, <2>3 DEF AppNext
<1>6. CASE \E q \in Pid : DhcpWrites(q) \/ Exits(q)
  <2>1. PICK q \in Pid : DhcpWrites(q) \/ Exits(q)
    BY <1>6
  <2>2. CASE q = p
    BY <1>0, <2>1, <2>2 DEF DhcpWrites, Exits, Origin
  <2>3. CASE q # p
    BY <1>0, <2>1, <2>3 DEF DhcpWrites, Exits, Origin
  <2> QED BY <2>2, <2>3
<1>7. CASE \E q \in Pid : Starts(q)
  <2>1. PICK q \in Pid, new \in {Other} \cup {App(pl, FALSE) : pl \in Place} :
          proc' = [proc EXCEPT ![q] = new]
    BY <1>7 DEF Starts
  <2>2. ~new.core /\ new.what \in {"other", "app"}
    BY DEF Other, App
  <2> QED BY <1>0, <2>1, <2>2 DEF Origin
<1>8. CASE Crash
  <2>1. proc'[p] \in {proc[p], Free}
    BY <1>8 DEF Crash
  <2> QED BY <1>0, <2>1 DEF Origin
<1>9. CASE proc' = proc
  BY <1>9 DEF Origin
<1> QED BY <1>1, <1>2, <1>3, <1>4, <1>5, <1>6, <1>7, <1>8, <1>9
        DEF Next, LeaveAlone, HandlerNext, BeginUp, BeginDown, Joined, ReadAppFile, vars

(* How an entry ceases to be set up *)
LEMMA GoingDown ==
  ASSUME TypeOK, ThreadsOK, HandlerKnows, [Next]_vars, NEW e \in up, e \notin up'
  PROVE  \/ e \in excused'
         \/ /\ thread[Handler].entry = e
            /\ \/ Joined /\ e \notin WithApp \cup Secure
               \/ KillApp /\ e \notin Secure
               \/ RemoveDhcp
               \/ /\ LaunchApp(Handler) \/ RecordApp(Handler)
                  /\ thread'[Handler].pc = "idle" /\ e \notin Secure
<1>0. Handler \in Thread /\ Monitor \subseteq Thread
  BY AllWork
<1>1. CASE \E d \in Entry : BeginUp(d) \/ BeginDown(d)
  BY <1>1 DEF BeginUp, BeginDown
<1>2. CASE Joined /\ At_(Handler, "joinDown")
  BY <1>2, HandlerPoints
<1>3. CASE Joined /\ ~At_(Handler, "joinDown")
  BY <1>3 DEF Joined
<1>4. CASE ReadAppFile \/ KillApp \/ SignalDhcp \/ RemoveDhcp
  BY <1>4, HandlerPoints DEF ReadAppFile, bookkeeping
<1>5. CASE \E m \in Monitor : MonitorNext(m)
  BY <1>5, MonitorKeeps
<1>6. ASSUME NEW t \in Thread, AppNext(t)
      PROVE  /\ thread[Handler].entry = e
             /\ LaunchApp(Handler) \/ RecordApp(Handler)
             /\ thread'[Handler].pc = "idle" /\ e \notin Secure
  BY <1>6, AppPoints DEF HandlerKnows
<1>7. CASE Crash
  BY <1>7 DEF Crash
<1>8. CASE UNCHANGED up
  BY <1>8
<1>9. CASE \E d \in Entry : LeaveAlone(d)
  BY <1>9 DEF LeaveAlone
<1> QED BY <1>1, <1>2, <1>3, <1>4, <1>5, <1>6, <1>7, <1>8, <1>9
        DEF Next, HandlerNext, DhcpWrites, Exits, Starts, vars, bookkeeping

(* How the handler gets to where it stops things *)
LEMMA Stops ==
  ASSUME TypeOK, ThreadsOK, [Next]_vars, thread'[Handler] # thread[Handler]
  PROVE  /\ thread'[Handler].pc = "remove" =>
              SignalDhcp /\ UNCHANGED excused /\ thread'[Handler].entry = thread[Handler].entry
              /\ proc' = [p \in Pid |-> IF p \in Leasing(thread[Handler].entry) THEN Free ELSE proc[p]]
         /\ thread'[Handler].pc = "signal" =>
              /\ thread'[Handler].entry = thread[Handler].entry
              /\ KillApp \/ thread[Handler].entry \notin WithApp
         /\ thread'[Handler].pc = "killApp" => ReadAppFile
<1>0. /\ Handler \in Thread /\ Handler \notin Monitor /\ Monitor \subseteq Thread
      /\ "remove" \notin AppPcs /\ "signal" \notin AppPcs /\ "killApp" \notin AppPcs
  BY AllWork DEF AppPcs
<1>1. CASE \E d \in Entry : BeginUp(d) \/ BeginDown(d)
  BY <1>1, HandlerPoints
<1>2. CASE Joined /\ At_(Handler, "joinDown")
  BY <1>2, HandlerPoints
<1>3. CASE Joined /\ ~At_(Handler, "joinDown")
  BY <1>3, JoinUpMoves
<1>4. CASE ReadAppFile \/ KillApp \/ RemoveDhcp
  BY <1>4, HandlerPoints
<1>5. CASE SignalDhcp
  <2>1. CASE thread' = [thread EXCEPT ![Handler] = Idle]
    BY <1>0, <2>1 DEF Idle, TypeOK
  <2>2. CASE thread' # [thread EXCEPT ![Handler] = Idle]
    <3>1. /\ proc' = [p \in Pid |-> IF p \in Leasing(thread[Handler].entry) THEN Free ELSE proc[p]]
          /\ Goto(Handler, "remove") /\ UNCHANGED excused
      BY <1>5, <2>2 DEF SignalDhcp, histories
    <3>2. thread'[Handler].pc = "remove" /\ thread'[Handler].entry = thread[Handler].entry
      BY <1>0, <3>1 DEF Goto, TypeOK, ThreadState
    <3> QED BY <1>5, <3>1, <3>2
  <2> QED BY <2>1, <2>2
<1>6. CASE \E m \in Monitor : MonitorNext(m)
  BY <1>0, <1>6, MonitorMoves DEF Moves
<1>7. ASSUME NEW t \in Thread, AppNext(t)
      PROVE  thread'[Handler].pc \in AppPcs \cup {"idle"}
  BY <1>0, <1>7, AppMoves, AppPoints DEF Moves
<1>8. CASE Crash
  BY <1>0, <1>8 DEF Crash, Idle
<1> QED BY <1>0, <1>1, <1>2, <1>3, <1>4, <1>5, <1>6, <1>7, <1>8
        DEF Next, LeaveAlone, HandlerNext, DhcpWrites, Exits, Starts, vars

(* Where a thread waits for a process or for its pidfile, only its own steps,
   and a crash, take it away *)
LEMMA WaitsAlone ==
  ASSUME TypeOK, ThreadsOK, [Next]_vars, NEW t \in Thread,
         thread[t].pc \in {"lease", "leaseShort", "launch", "record"}, thread'[t] # thread[t]
  PROVE  \/ t \in Monitor /\ LeaseEnds(t)
         \/ LaunchApp(t) \/ RecordApp(t)
         \/ Crash
<1>0. /\ Handler \in Thread /\ Handler \notin Monitor /\ Monitor \subseteq Thread
      /\ t = Handler => thread[t].pc \in {"launch", "record"}
  BY AllWork DEF Works, HandlerPcs, AppPcs
<1>1. CASE \E d \in Entry : BeginUp(d) \/ BeginDown(d)
  <2>1. At_(Handler, "idle")
    BY <1>1 DEF BeginUp, BeginDown
  <2> QED BY <1>0, <1>1, <2>1, HandlerMoves DEF Moves, At_
<1>2. CASE Joined /\ At_(Handler, "joinDown")
  BY <1>0, <1>2, HandlerMoves DEF Moves, At_
<1>3. CASE Joined /\ ~At_(Handler, "joinDown")
  BY <1>0, <1>3, JoinUpMoves DEF At_
<1>4. CASE ReadAppFile \/ KillApp \/ SignalDhcp \/ RemoveDhcp
  <2>1. thread[Handler].pc \in {"stopApp", "killApp", "signal", "remove"}
    BY <1>4 DEF ReadAppFile, KillApp, SignalDhcp, RemoveDhcp, At_
  <2> QED BY <1>0, <1>4, <2>1, HandlerMoves DEF Moves
<1>5. ASSUME NEW m \in Monitor, MonitorNext(m)
      PROVE  t \in Monitor /\ LeaseEnds(t)
  <2>1. m = t
    BY <1>0, <1>5, MonitorMoves DEF Moves
  <2>2. /\ SpawnDhcp(t) => thread[t].pc \in {"spawn", "spawnShort"}
        /\ ReleaseDhcp(t) => thread[t].pc \in {"release", "releaseShort"}
        /\ Poll(t) => thread[t].pc = "poll"
        /\ Leased(t) => thread[t].pc = "leased"
        /\ SetRoute(t) => thread[t].pc = "route"
        /\ Finish(t) => thread[t].pc = "finish"
    BY DEF Poll, ReleaseDhcp, SpawnDhcp, Leased, SetRoute, Finish, MonitorStep, At_
  <2> QED BY <1>5, <2>1, <2>2 DEF MonitorNext
<1>6. ASSUME NEW u \in Thread, AppNext(u)
      PROVE  LaunchApp(t) \/ RecordApp(t)
  <2>1. u = t
    BY <1>0, <1>6, AppMoves DEF Moves
  <2> QED BY <1>6, <2>1 DEF AppNext, AdmitApp, VerifyApp, At_
<1> QED BY <1>1, <1>2, <1>3, <1>4, <1>5, <1>6
        DEF Next, LeaveAlone, HandlerNext, DhcpWrites, Exits, Starts, vars

(* The dhcpcds.  An entry that nothing excuses has one at most, of which its
   pidfile tells or for which its monitor still waits, and none once the
   handler has signalled it. *)
Awaited(p, e) ==
  \E m \in Monitor :
    thread[m].pc \in {"lease", "leaseShort"} /\ thread[m].entry = e /\ thread[m].pid = p

Tended(p, e) ==
  /\ e \in up
  /\ \/ proc[p].what = "dhcpcd" /\ dhcpfile[e] = p
     \/ proc[p].what = "fresh" /\ Awaited(p, e)

DhcpsKnown ==
  \A e \in Entry, p \in Pid : DhcpOf(p, e) =>
    /\ e \in Secure
    /\ \/ e \in excused
       \/ /\ Tended(p, e) /\ ~Doing(e, {"remove"})
          /\ \A q \in Pid : DhcpOf(q, e) => q = p

DhcpInvariant == MonitorInvariant /\ HandlerKnows /\ MonitorsKnow /\ DhcpsKnown

LEMMA DhcpOrigin ==
  ASSUME MonitorInvariant, [Next]_vars, NEW p \in Pid, NEW e \in Entry, DhcpOf(p, e)'
  PROVE  \/ \E m \in Monitor : SpawnedBy(m, p) /\ thread[m].entry = e
         \/ /\ DhcpOf(p, e)
            /\ \/ proc'[p] = proc[p]
               \/ DhcpWrites(p)
               \/ RemoveDhcp /\ thread[Handler].entry = e /\ proc'[p].what = "lost"
<1>1. /\ proc[p] \in Process
      /\ \A d : Dhcpcd(d, "fresh").for = d /\ Dhcpcd(d, "lost").for = d /\ Dhcpcd(d, "lost").what = "lost"
      /\ \A pl : App(pl, TRUE).what = "app"
  BY DEF MonitorInvariant, TypeOK, Dhcpcd, App
<1>2. proc'[p].for = e /\ proc'[p].what \in {"fresh", "dhcpcd", "lost"}
  BY DEF DhcpOf
<1>3. CASE DhcpWrites(p) /\ proc'[p] = [proc[p] EXCEPT !.what = "dhcpcd"]
  BY <1>1, <1>2, <1>3 DEF DhcpWrites, Process, DhcpOf
<1>4. CASE proc'[p] = proc[p]
  BY <1>2, <1>4 DEF DhcpOf
<1>5. ASSUME NEW m \in Monitor, SpawnedBy(m, p)
      PROVE  thread[m].entry = e
  BY <1>1, <1>2, <1>5 DEF SpawnedBy
<1>6. ASSUME NEW t \in Thread
      PROVE  ~LaunchedBy(t, p)
  BY <1>1, <1>2 DEF LaunchedBy
<1>7. CASE RemoveDhcp /\ proc'[p] = Dhcpcd(thread[Handler].entry, "lost")
             /\ DhcpOf(p, thread[Handler].entry)
  BY <1>1, <1>2, <1>7
<1>8. Origin(p)
  BY ProcessOrigin
<1> QED BY <1>2, <1>3, <1>4, <1>5, <1>6, <1>7, <1>8 DEF Origin

(* The pidfile of a dhcpcd is written by another of its entry or removed by the
   handler, and by nobody else *)
LEMMA DhcpFileStays ==
  ASSUME TypeOK, [Next]_vars, NEW e \in Entry, dhcpfile'[e] # dhcpfile[e]
  PROVE  \/ \E q \in Pid : DhcpWrites(q) /\ DhcpOf(q, e)
         \/ RemoveDhcp /\ thread[Handler].entry = e
<1>1. CASE RemoveDhcp
  BY <1>1 DEF RemoveDhcp, TypeOK
<1>2. ASSUME NEW q \in Pid, DhcpWrites(q)
      PROVE  DhcpOf(q, e)
  BY <1>2 DEF DhcpWrites, DhcpOf, TypeOK
<1>3. CASE \E t \in Thread : AppNext(t)
  BY <1>3 DEF AppNext, AdmitApp, LaunchApp, RecordApp, VerifyApp, files
<1>4. CASE \E m \in Monitor : MonitorNext(m)
  BY <1>4, MonitorKeeps
<1>5. CASE UNCHANGED dhcpfile
  BY <1>5
<1> QED BY <1>1, <1>2, <1>3, <1>4, <1>5
        DEF Next, LeaveAlone, HandlerNext, BeginUp, BeginDown, Joined, ReadAppFile, KillApp,
        SignalDhcp, Exits,
            Starts, Crash, vars, files

(* At most one monitor works on an entry that nothing excuses *)
LEMMA OneMonitor ==
  ASSUME MonitorsKnow, NEW m \in Monitor, NEW n \in Monitor,
         thread[m].pc # "idle", thread[n].pc # "idle",
         thread[m].entry = thread[n].entry, thread[m].entry \notin excused
  PROVE  m = n
BY DEF MonitorsKnow

LEMMA SpawnFindsNone ==
  ASSUME DhcpInvariant, NEW m \in Monitor, SpawnDhcp(m), NEW p \in Pid,
         DhcpOf(p, thread[m].entry), thread[m].entry \in Entry \ excused
  PROVE  Leasing(thread[m].entry) # {}
<1>1. Tended(p, thread[m].entry)
  BY DEF DhcpInvariant, DhcpsKnown
<1>2. CASE proc[p].what = "fresh"
  <2>1. thread[m].pc \in {"spawn", "spawnShort"}
    BY DEF SpawnDhcp, At_
  <2> QED BY <1>1, <1>2, <2>1, OneMonitor DEF Tended, Awaited, DhcpInvariant
<1>3. CASE proc[p].what = "dhcpcd"
  <2>1. proc[p] = Dhcpcd(thread[m].entry, "dhcpcd")
    BY <1>3 DEF DhcpInvariant, MonitorInvariant, TypeOK, Process, DhcpOf, Dhcpcd
  <2> QED BY <1>1, <1>3, <2>1 DEF Tended, Leasing
<1> QED BY <1>1, <1>2, <1>3 DEF Tended

LEMMA DhcpsKnownStep ==
  ASSUME DhcpInvariant, [Next]_vars
  PROVE  DhcpsKnown'
<1>0. /\ MonitorInvariant /\ TypeOK /\ ThreadsOK /\ HandlerKnows /\ MonitorsKnow /\ DhcpsKnown
      /\ Handler \in Thread /\ Handler \notin Monitor /\ Monitor \subseteq Thread
      /\ excused \subseteq excused'
      /\ proc \in [Pid -> Process] /\ thread \in [Thread -> ThreadState]
  BY AllWork, ExcusesStay DEF DhcpInvariant, MonitorInvariant, TypeOK
<1>1. SUFFICES ASSUME NEW e \in Entry, NEW p \in Pid, DhcpOf(p, e)'
               PROVE  /\ e \in Secure
                      /\ e \notin excused' =>
                           /\ Tended(p, e)' /\ ~Doing(e, {"remove"})'
                           /\ \A q \in Pid : DhcpOf(q, e)' => q = p
  BY DEF DhcpsKnown
<1>2. e \in Secure
  <2>1. \A m \in Monitor : SpawnDhcp(m) => thread[m].pc # "idle"
    BY DEF SpawnDhcp, At_
  <2> QED BY <1>0, <1>1, <2>1, DhcpOrigin DEF DhcpsKnown, MonitorsKnow, SpawnedBy
<1>3. SUFFICES ASSUME e \notin excused'
               PROVE  /\ Tended(p, e)' /\ ~Doing(e, {"remove"})'
                      /\ \A q \in Pid : DhcpOf(q, e)' => q = p
  BY <1>2
<1>4. e \notin excused
  BY <1>0, <1>3
(* the one that is there, if any *)
<1>5. ASSUME NEW q \in Pid, DhcpOf(q, e)
      PROVE  /\ Tended(q, e) /\ ~Doing(e, {"remove"})
             /\ \A x \in Pid : DhcpOf(x, e) => x = q
             /\ ~(RemoveDhcp /\ thread[Handler].entry = e)
  <2>1. Tended(q, e) /\ ~Doing(e, {"remove"}) /\ \A x \in Pid : DhcpOf(x, e) => x = q
    BY <1>0, <1>4, <1>5 DEF DhcpsKnown
  <2> QED BY <2>1 DEF RemoveDhcp, Doing, At_
<1>6. ASSUME NEW m \in Monitor, NEW q \in Pid, SpawnedBy(m, q), thread[m].entry = e
      PROVE  /\ Tended(q, e)' /\ ~Doing(e, {"remove"})'
             /\ \A x \in Pid : ~DhcpOf(x, e)
             /\ \A x \in Pid, n \in Monitor : SpawnedBy(n, x) => x = q
  <2>1. /\ SpawnDhcp(m) /\ MonitorNext(m) /\ thread[m].pc # "idle"
        /\ thread[m].pc \in {"spawn", "spawnShort"}
    BY <1>6 DEF SpawnedBy, SpawnDhcp, At_, MonitorNext
  <2>2. \A u \in Thread \ {m} : thread'[u] = thread[u]
    BY <1>0, <2>1, MonitorMoves DEF Moves
  <2>3. e \in up /\ ~Doing(e, Stopping) /\ up' = up
    BY <1>0, <1>4, <1>6, <2>1, MonitorKeeps DEF MonitorsKnow
  <2>4. Tended(q, e)'
    <3>1. Dhcpcd(e, "fresh").what = "fresh"
      BY DEF Dhcpcd
    <3> QED BY <1>6, <2>3, <3>1 DEF Tended, Awaited, SpawnedBy
  <2>5. ~Doing(e, {"remove"})'
    BY <1>0, <2>2, <2>3 DEF Doing, Stopping
  <2>6. \A x \in Pid : ~DhcpOf(x, e)
    BY <1>4, <1>6, <2>1, SpawnFindsNone DEF SpawnedBy
  <2>7. ASSUME NEW x \in Pid, NEW n \in Monitor, SpawnedBy(n, x)
        PROVE  x = q
    <3>1. thread[n].pc \in {"spawn", "spawnShort"} /\ thread'[n].pc \in {"lease", "leaseShort"}
      BY <2>7 DEF SpawnedBy, SpawnDhcp, At_
    <3>2. n = m
      BY <1>0, <2>2, <3>1
    <3> QED BY <1>6, <2>7, <3>2 DEF SpawnedBy
  <2> QED BY <2>4, <2>5, <2>6, <2>7
<1>7. CASE \E m \in Monitor : SpawnedBy(m, p) /\ thread[m].entry = e
  BY <1>0, <1>6, <1>7, DhcpOrigin
<1>8. CASE ~ \E m \in Monitor : SpawnedBy(m, p) /\ thread[m].entry = e
  <2>1. DhcpOf(p, e) /\ (proc'[p] = proc[p] \/ DhcpWrites(p))
    BY <1>0, <1>1, <1>5, <1>8, DhcpOrigin
  <2>2. \A q \in Pid : DhcpOf(q, e)' => q = p
    BY <1>0, <1>5, <1>6, <2>1, DhcpOrigin
  <2>3. Tended(p, e) /\ ~Doing(e, {"remove"})
    BY <1>5, <2>1
  <2>4. e \in up'
    <3>1. ~(LaunchApp(Handler) \/ RecordApp(Handler)) \/ thread[Handler].entry \notin Secure
      BY <1>0 DEF HandlerKnows, LaunchApp, RecordApp, At_, AppPcs
    <3> QED BY <1>0, <1>2, <1>3, <1>5, <2>1, <2>3, <3>1, GoingDown DEF Tended
  <2>5. ~Doing(e, {"remove"})'
    <3>1. SUFFICES ASSUME Doing(e, {"remove"})' PROVE FALSE
      OBVIOUS
    <3>2. /\ SignalDhcp /\ thread[Handler].entry = e
          /\ proc' = [x \in Pid |-> IF x \in Leasing(e) THEN Free ELSE proc[x]]
      BY <1>0, <2>3, <3>1, Stops DEF Doing
    <3>3. CASE proc[p].what = "fresh"
      <4>1. PICK m \in Monitor : thread[m].pc # "idle" /\ thread[m].entry = e
        BY <2>3, <3>3 DEF Tended, Awaited
      <4> QED BY <1>0, <1>4, <3>2, <4>1, NoMonitorBeside DEF SignalDhcp, At_, Stopping
    <3>4. CASE proc[p].what = "dhcpcd"
      <4>1. proc[p] = Dhcpcd(e, "dhcpcd")
        BY <1>0, <2>1, <3>4 DEF Process, DhcpOf, Dhcpcd
      <4>2. p \in Leasing(e)
        BY <2>3, <3>4, <4>1 DEF Tended, Leasing
      <4> QED BY <1>1, <3>2, <4>2 DEF DhcpOf, Free
    <3> QED BY <2>3, <3>3, <3>4 DEF Tended
  <2>6. CASE DhcpWrites(p)
    <3>1. proc'[p].what = "dhcpcd" /\ dhcpfile'[e] = p
      BY <1>0, <2>1, <2>6 DEF DhcpWrites, DhcpOf, TypeOK, Process
    <3> QED BY <2>2, <2>4, <2>5, <3>1 DEF Tended
  <2>7. CASE proc'[p] = proc[p] /\ ~DhcpWrites(p) /\ proc[p].what = "dhcpcd"
    <3>1. dhcpfile'[e] = dhcpfile[e]
      BY <1>0, <1>5, <2>1, <2>7, DhcpFileStays
    <3> QED BY <2>2, <2>3, <2>4, <2>5, <2>7, <3>1 DEF Tended
  <2>8. CASE proc'[p] = proc[p] /\ proc[p].what = "fresh"
    <3>1. PICK m \in Monitor :
            thread[m].pc \in {"lease", "leaseShort"} /\ thread[m].entry = e /\ thread[m].pid = p
      BY <2>3, <2>8 DEF Tended, Awaited
    <3>2. ~LeaseEnds(m)
      <4>1. LeaseEnds(m) => proc'[p] = Free
        BY <1>0, <2>1, <2>8, <3>1 DEF LeaseEnds, DhcpOf
      <4> QED BY <2>8, <4>1 DEF Free
    <3>3. ~Crash
      <4>1. proc[p] = Dhcpcd(e, "fresh")
        BY <1>0, <2>1, <2>8 DEF Process, DhcpOf, Dhcpcd
      <4> QED BY <1>3, <4>1 DEF Crash, Unrecorded
    <3>4. thread'[m] = thread[m]
      BY <1>0, <3>1, <3>2, <3>3, WaitsAlone DEF LaunchApp, RecordApp, At_
    <3> QED BY <2>2, <2>4, <2>5, <2>8, <3>1, <3>4 DEF Tended, Awaited
  <2> QED BY <2>1, <2>3, <2>6, <2>7, <2>8 DEF Tended
<1> QED BY <1>7, <1>8

(* The apps.  An app that is being recorded is a child of this worker, or has
   been reaped already. *)
OwnedRecords ==
  \A t \in Thread : At_(t, "record") =>
    thread[t].pid \in owned \/ proc[thread[t].pid].what = "free"

(* A child that is one no longer has been reaped *)
LEMMA ChildrenAreReaped ==
  ASSUME TypeOK, [Next]_vars, ~Crash, NEW p \in owned, p \notin owned'
  PROVE  proc'[p].what = "free"
<1>0. p \in Pid /\ Free.what = "free" /\ proc \in [Pid -> Process]
  BY DEF TypeOK, Free
<1>1. CASE KillApp
  <2>1. proc'[p] = Free
    BY <1>0, <1>1 DEF KillApp
  <2> QED BY <1>0, <2>1
<1>2. ASSUME NEW t \in Thread, AppNext(t)
      PROVE  proc'[p] = Free
  BY <1>0, <1>2 DEF AppNext, AdmitApp, LaunchApp, RecordApp, VerifyApp
<1>3. CASE \E m \in Monitor : MonitorNext(m)
  BY <1>3, MonitorKeeps
<1>4. CASE UNCHANGED owned
  BY <1>4
<1> QED BY <1>0, <1>1, <1>2, <1>3, <1>4
        DEF Next, LeaveAlone, HandlerNext, BeginUp, BeginDown, Joined, ReadAppFile, SignalDhcp,
        RemoveDhcp,
            DhcpWrites, Exits, Starts, vars

(* A pid that a thread holds is not given away once its process is reaped *)
LEMMA HeldStaysFree ==
  ASSUME MonitorInvariant, [Next]_vars, NEW p \in Pid \cap Held, proc[p].what = "free"
  PROVE  proc'[p].what = "free"
<1>0. /\ TypeOK /\ ThreadsOK /\ proc \in [Pid -> Process] /\ Free.what = "free"
      /\ p \notin FreePids /\ p \notin owned /\ proc[p] = Free
  BY DEF MonitorInvariant, ChildrenAreApps, FreePids, TypeOK, Free, Process
<1>1. CASE KillApp
  <2>1. proc'[p] \in {proc[p], Free, Dead(p)}
    BY <1>1 DEF KillApp
  <2> QED BY <1>0, <2>1 DEF Dead
<1>2. CASE SignalDhcp \/ RemoveDhcp
  BY <1>0, <1>2 DEF SignalDhcp, RemoveDhcp
<1>3. ASSUME NEW m \in Monitor, MonitorNext(m)
      PROVE  proc'[p].what = "free"
  BY <1>0, <1>3 DEF MonitorNext, Poll, ReleaseDhcp, SpawnDhcp, LeaseEnds, Leased, SetRoute, Finish
<1>4. ASSUME NEW t \in Thread, AppNext(t)
      PROVE  proc'[p].what = "free"
  BY <1>0, <1>4 DEF AppNext, AdmitApp, LaunchApp, RecordApp, VerifyApp
<1>5. ASSUME NEW q \in Pid, DhcpWrites(q) \/ Exits(q) \/ Starts(q)
      PROVE  proc'[p].what = "free"
  BY <1>0, <1>5 DEF DhcpWrites, Exits, Starts
<1>6. CASE Crash
  BY <1>0, <1>6 DEF Crash
<1>7. CASE UNCHANGED proc
  BY <1>0, <1>7
<1> QED BY <1>1, <1>2, <1>3, <1>4, <1>5, <1>6, <1>7
        DEF Next, LeaveAlone, HandlerNext, BeginUp, BeginDown, Joined, ReadAppFile, vars

(* A thread gets to launch or record an app by its own steps only *)
LEMMA AppEnters ==
  ASSUME TypeOK, ThreadsOK, [Next]_vars, NEW t \in Thread, thread'[t] # thread[t],
         thread'[t].pc \in {"launch", "record"}
  PROVE  AppNext(t)
<1>0. Handler \in Thread /\ Monitor \subseteq Thread /\ AppPcs = {"admit", "launch", "record", "verify"}
  BY AllWork DEF AppPcs
<1>1. CASE \E d \in Entry : BeginUp(d) \/ BeginDown(d)
  BY <1>0, <1>1, HandlerMoves, HandlerPoints DEF Moves
<1>2. CASE Joined /\ At_(Handler, "joinDown")
  BY <1>0, <1>2, HandlerMoves, HandlerPoints DEF Moves
<1>3. CASE Joined /\ ~At_(Handler, "joinDown")
  BY <1>0, <1>3, JoinUpMoves
<1>4. CASE ReadAppFile \/ KillApp \/ SignalDhcp \/ RemoveDhcp
  BY <1>0, <1>4, HandlerMoves, HandlerPoints DEF Moves
<1>5. CASE \E m \in Monitor : MonitorNext(m)
  BY <1>0, <1>5, MonitorMoves, MonitorPoints DEF Moves
<1>6. CASE \E u \in Thread : AppNext(u)
  BY <1>0, <1>6, AppMoves DEF Moves
<1>7. CASE Crash
  BY <1>7 DEF Crash, Idle
<1> QED BY <1>1, <1>2, <1>3, <1>4, <1>5, <1>6, <1>7
        DEF Next, LeaveAlone, HandlerNext, DhcpWrites, Exits, Starts, vars

LEMMA OwnedRecordsStep ==
  ASSUME MonitorInvariant, OwnedRecords, [Next]_vars
  PROVE  OwnedRecords'
<1>0. TypeOK /\ ThreadsOK /\ Handler \in Thread /\ Monitor \subseteq Thread
  BY AllWork DEF MonitorInvariant
<1> SUFFICES ASSUME NEW t \in Thread, thread'[t].pc = "record"
             PROVE  thread'[t].pid \in owned' \/ proc'[thread'[t].pid].what = "free"
  BY DEF OwnedRecords, At_
<1>1. CASE thread'[t] = thread[t]
  <2>1. thread[t].pc = "record" /\ thread[t].pid \in Pid \cap Held
    BY <1>0, <1>1 DEF ThreadsOK, Held
  <2>2. ~Crash
    BY <2>1, <1>1 DEF Crash, Idle
  <2> QED BY <1>0, <1>1, <2>1, <2>2, ChildrenAreReaped, HeldStaysFree DEF OwnedRecords, At_
<1>2. CASE thread'[t] # thread[t]
  <2>1. LaunchApp(t) /\ thread'[t].pid \in FreePids /\ thread' # thread
        /\ proc' = [proc EXCEPT ![thread'[t].pid] = App(At[thread[t].entry], TRUE)]
    <3>1. AppNext(t)
      BY <1>0, <1>2, AppEnters
    <3> QED BY <1>0, <1>2, <3>1, AppMoves
  <2>2. thread[t].pc = "launch"
    BY <2>1 DEF LaunchApp, At_
  <2>3. CASE AppDone(t)
    BY <1>0, <2>3 DEF AppDone, TypeOK, ThreadState, Idle
  <2>4. CASE \E q \in FreePids : /\ owned' = owned \cup {q}
                                 /\ thread' = [thread EXCEPT ![t].pid = q, ![t].pc = "record"]
    BY <1>0, <2>4 DEF TypeOK, ThreadState
  <2> QED BY <2>1, <2>3, <2>4 DEF LaunchApp
<1> QED BY <1>1, <1>2

(* An entry that nothing excuses has one app at most, of which its pidfile tells
   or which a thread of the entry is about to record; none is launched beside
   it, the handler kills what the pidfile tells of, and then there is none. *)
AppOf(p, e) == proc[p] = App(At[e], TRUE)

AppTended(p, e) ==
  /\ e \in up /\ ~Doing(e, {"signal", "remove"})
  /\ \/ appfile[At[e]] = p
     \/ \E t \in Thread : thread[t].entry = e /\ At_(t, "record") /\ thread[t].pid = p
  /\ \A t \in Thread : thread[t].entry = e =>
       ~At_(t, "launch") /\ (At_(t, "record") => thread[t].pid = p)

AppsKnown ==
  \A e \in Entry \ excused : SoleApp(e) =>
    /\ Doing(e, {"killApp"}) => thread[Handler].pid = appfile[At[e]]
    /\ \A p \in Pid : AppOf(p, e) => AppTended(p, e)

QuietInvariant == DhcpInvariant /\ OwnedRecords /\ AppsKnown

LEMMA QuietParts ==
  ASSUME QuietInvariant
  PROVE  /\ MonitorInvariant /\ TypeOK /\ ThreadsOK /\ HandlerKnows /\ MonitorsKnow
         /\ OwnedRecords /\ AppsKnown /\ ChildrenAreApps
         /\ Handler \in Thread /\ Handler \notin Monitor /\ Monitor \subseteq Thread
         /\ Thread = Monitor \cup {Handler}
         /\ proc \in [Pid -> Process] /\ thread \in [Thread -> ThreadState]
         /\ AppPcs = {"admit", "launch", "record", "verify"}
BY AllWork DEF QuietInvariant, DhcpInvariant, MonitorInvariant, TypeOK, AppPcs, Thread

(* At most one thread starts the app of an entry that nothing excuses *)
LEMMA OneAtWork ==
  ASSUME QuietInvariant, NEW t \in Thread, NEW u \in Thread, thread[t].pc \in AppPcs,
         thread[u].pc \in AppPcs, thread[t].entry = thread[u].entry, thread[t].entry \notin excused
  PROVE  t = u
<1>1. CASE t \in Monitor /\ u \in Monitor
  BY <1>1, QuietParts, OneMonitor
<1>2. CASE ~(t \in Monitor /\ u \in Monitor)
  BY <1>2, QuietParts DEF HandlerKnows, MonitorsKnow
<1> QED BY <1>1, <1>2

(* A thread that starts an app does so for an entry with one that is set up,
   or excused, and that the handler is not stopping *)
LEMMA AppWork ==
  ASSUME QuietInvariant, NEW t \in Thread, thread[t].pc \in AppPcs
  PROVE  /\ thread[t].entry \in WithApp \cap Entry
         /\ \/ thread[t].entry \in excused
            \/ thread[t].entry \in up /\ ~Doing(thread[t].entry, Stopping)
<1>1. thread[t].entry \in Entry /\ thread[t].pc # "idle" /\ AppPcs \cap Stopping = {}
  BY QuietParts DEF ThreadsOK, Stopping
<1>2. CASE t = Handler
  BY <1>1, <1>2, QuietParts DEF HandlerKnows, Doing
<1>3. CASE t \in Monitor
  BY <1>1, <1>3, QuietParts DEF MonitorsKnow
<1> QED BY <1>2, <1>3, QuietParts

(* Who starts an app of the only entry with one in its namespace *)
LEMMA AppOrigin ==
  ASSUME QuietInvariant, [Next]_vars, NEW p \in Pid, NEW e \in Entry, SoleApp(e), AppOf(p, e)'
  PROVE  \/ \E t \in Thread : LaunchedBy(t, p) /\ thread[t].entry = e
         \/ AppOf(p, e) /\ proc'[p] = proc[p]
<1>1. /\ proc[p] \in Process
      /\ \A d : Dhcpcd(d, "fresh").what = "fresh" /\ Dhcpcd(d, "lost").what = "lost"
      /\ \A d : App(d, TRUE).what = "app" /\ App(d, TRUE).core /\ App(d, TRUE).for = d
  BY QuietParts DEF Dhcpcd, App
<1>2. proc'[p] = App(At[e], TRUE) /\ proc'[p].what = "app" /\ proc'[p].core
  BY <1>1 DEF AppOf
<1>3. ASSUME NEW t \in Thread, LaunchedBy(t, p)
      PROVE  thread[t].entry = e
  <2>1. thread[t].entry \in WithApp
    BY <1>3, QuietParts, AppWork DEF LaunchedBy, LaunchApp, At_
  <2>2. At[thread[t].entry] = At[e]
    BY <1>1, <1>2, <1>3 DEF LaunchedBy
  <2> QED BY <2>1, <2>2 DEF SoleApp
<1>4. CASE proc'[p] = proc[p]
  BY <1>2, <1>4 DEF AppOf
<1>5. ~(DhcpWrites(p) /\ proc'[p] = [proc[p] EXCEPT !.what = "dhcpcd"])
  BY <1>1, <1>2 DEF Process
<1>6. ~(RemoveDhcp /\ proc'[p] = Dhcpcd(thread[Handler].entry, "lost"))
  BY <1>1, <1>2
<1>7. ASSUME NEW m \in Monitor PROVE ~SpawnedBy(m, p)
  BY <1>1, <1>2 DEF SpawnedBy
<1>8. Origin(p)
  BY QuietParts, ProcessOrigin
<1>9. (\E t \in Thread : LaunchedBy(t, p)) \/ proc'[p] = proc[p]
  BY <1>2, <1>5, <1>6, <1>7, <1>8 DEF Origin
<1> QED BY <1>3, <1>4, <1>9

(* The pidfile of an app changes with a thread of its entry *)
LEMMA AppFileStays ==
  ASSUME QuietInvariant, [Next]_vars, NEW e \in Entry, SoleApp(e), appfile'[At[e]] # appfile[At[e]]
  PROVE  \/ KillApp /\ thread[Handler].entry = e
         \/ \E t \in Thread :
              /\ thread[t].entry = e /\ thread[t].pc \in AppPcs
              /\ \/ AdmitApp(t) /\ ~RunsRecorded(appfile[At[e]], At[e])
                 \/ RecordApp(t) /\ appfile'[At[e]] = thread[t].pid
<1>0. appfile \in [Place -> Pid \cup {None}] /\ At \in [Entry -> Place]
  BY QuietParts, MonitorsAssumption DEF TypeOK
<1>1. ASSUME NEW d \in WithApp \cap Entry, NEW x, appfile' = [appfile EXCEPT ![At[d]] = x]
      PROVE  d = e /\ appfile'[At[e]] = x
  BY <1>0, <1>1 DEF SoleApp
<1>2. CASE KillApp
  <2>1. thread[Handler].entry \in WithApp \cap Entry
    BY <1>2, QuietParts DEF KillApp, At_, HandlerKnows, ThreadsOK
  <2>2. appfile' = [appfile EXCEPT ![At[thread[Handler].entry]] = None]
    BY <1>2 DEF KillApp
  <2> QED BY <1>1, <1>2, <2>1, <2>2
<1>3. ASSUME NEW t \in Thread, AppNext(t)
      PROVE  /\ thread[t].entry = e /\ thread[t].pc \in AppPcs
             /\ \/ AdmitApp(t) /\ ~RunsRecorded(appfile[At[e]], At[e])
                \/ RecordApp(t) /\ appfile'[At[e]] = thread[t].pid
  <2>1. thread[t].pc \in AppPcs /\ thread[t].entry \in WithApp \cap Entry
    BY <1>3, QuietParts, AppPoints, AppWork
  <2>2. CASE AdmitApp(t)
    <3>1. /\ appfile' = [appfile EXCEPT ![At[thread[t].entry]] = None]
          /\ ~RunsRecorded(appfile[At[thread[t].entry]], At[thread[t].entry])
      BY <2>2 DEF AdmitApp
    <3> QED BY <1>1, <2>1, <2>2, <3>1
  <2>3. CASE RecordApp(t)
    <3>1. appfile' = [appfile EXCEPT ![At[thread[t].entry]] = thread[t].pid]
      BY <2>3 DEF RecordApp
    <3> QED BY <1>1, <2>1, <2>3, <3>1
  <2> QED BY <1>3, <2>2, <2>3 DEF AppNext, LaunchApp, VerifyApp, files
<1>4. CASE \E m \in Monitor : MonitorNext(m)
  BY <1>4, QuietParts, MonitorKeeps
<1>5. CASE UNCHANGED appfile
  BY <1>5
<1> QED BY <1>2, <1>3, <1>4, <1>5
        DEF Next, LeaveAlone, HandlerNext, BeginUp, BeginDown, Joined, ReadAppFile, SignalDhcp,
        RemoveDhcp,
            DhcpWrites, Exits, Starts, Crash, vars, files

(* The app that the pidfile tells of is killed, or the stop is excused *)
LEMMA RecordedIsKilled ==
  ASSUME QuietInvariant, KillApp, thread[Handler].entry \notin excused',
         thread[Handler].entry \in Entry, thread[Handler].pid \in Pid,
         AppOf(thread[Handler].pid, thread[Handler].entry)
  PROVE  proc'[thread[Handler].pid].what \in {"free", "zombie"}
<1> DEFINE p == thread[Handler].pid
           pl == At[thread[Handler].entry]
           victims == IF p = None THEN {} ELSE Victims(p, pl)
<1>1. PICK gone \in SUBSET victims :
        /\ proc' = [q \in Pid |-> IF q \in Reaped(p, pl) THEN Free
                                  ELSE IF q \in gone THEN Dead(q) ELSE proc[q]]
        /\ excused' = IF gone = victims THEN excused ELSE excused \cup {thread[Handler].entry}
  BY DEF KillApp
<1>2. gone = victims
  BY <1>1
<1>3. p # None /\ proc[p].what = "app" /\ proc[p].for = pl /\ proc[p] = App(pl, TRUE)
  BY MonitorsAssumption DEF AppOf, App
<1>4. p \in victims
  BY <1>3 DEF Victims
<1>5. proc'[p] \in {Free, Dead(p)}
  BY <1>1, <1>2, <1>4
<1> QED BY <1>5, QuietParts, EndedIsEnded

(* An app is launched where none runs that the entry's pidfile tells of *)
LEMMA LaunchIsAlone ==
  ASSUME QuietInvariant, NEW p \in Pid, NEW e \in Entry \ excused, SoleApp(e), AppOf(p, e),
         NEW t \in Thread, AdmitApp(t), thread[t].entry = e
  PROVE  appfile' = appfile /\ thread'[t].pc # "launch"
<1>1. AppTended(p, e) /\ thread[t].pc = "admit"
  BY QuietParts DEF AppsKnown, AdmitApp, At_
<1>2. appfile[At[e]] = p
  BY <1>1, QuietParts, OneAtWork DEF AppTended, At_
<1>3. RunsRecorded(appfile[At[e]], At[e])
  BY <1>2, MonitorsAssumption DEF RunsRecorded, AppOf, App
<1>4. AppDone(t) /\ appfile' = appfile
  BY <1>3 DEF AdmitApp
<1> QED BY <1>4, QuietParts DEF AppDone, Idle, ThreadState

(* What the step that launched it leaves of an app *)
LEMMA LaunchedIsTended ==
  ASSUME QuietInvariant, [Next]_vars, NEW p \in Pid, NEW e \in Entry \ excused, SoleApp(e),
         NEW t \in Thread, LaunchedBy(t, p), thread[t].entry = e
  PROVE  AppTended(p, e)'
<1>1. /\ thread[t].pc = "launch" /\ thread[t].pc \in AppPcs /\ AppNext(t) /\ up' = up
      /\ thread'[t].pc = "record" /\ thread'[t].pid = p /\ thread'[t].entry = e
  BY QuietParts DEF LaunchedBy, LaunchApp, At_, AppNext
<1>2. \A u \in Thread \ {t} : thread'[u] = thread[u]
  BY <1>1, QuietParts, AppMoves DEF Moves
<1>3. e \in up' /\ ~Doing(e, Stopping)
  BY <1>1, AppWork
<1>4. ~Doing(e, {"signal", "remove"})'
  BY <1>1, <1>2, <1>3, QuietParts DEF Doing, Stopping
<1>5. ASSUME NEW u \in Thread, thread'[u].entry = e
      PROVE  thread'[u].pc # "launch" /\ (thread'[u].pc = "record" => thread'[u].pid = p)
  BY <1>1, <1>2, <1>5, QuietParts, OneAtWork
<1> QED BY <1>1, <1>3, <1>4, <1>5 DEF AppTended, At_

(* What any other step leaves of an app that runs on *)
LEMMA RunningStaysTended ==
  ASSUME QuietInvariant, [Next]_vars, NEW p \in Pid, NEW e \in Entry \ excused', SoleApp(e),
         AppOf(p, e), proc'[p] = proc[p]
  PROVE  AppTended(p, e)'
<1>0. /\ e \in WithApp /\ e \notin excused /\ proc[p].what = "app"
      /\ appfile \in [Place -> Pid \cup {None}] /\ At \in [Entry -> Place]
  BY ExcusesStay, QuietParts, MonitorsAssumption DEF SoleApp, AppOf, App, TypeOK
<1>1. AppTended(p, e)
  BY <1>0, QuietParts DEF AppsKnown
<1>2. ~(KillApp /\ thread[Handler].entry = e)
  <2>1. SUFFICES ASSUME KillApp, thread[Handler].entry = e PROVE FALSE
    OBVIOUS
  <2>2. Doing(e, {"killApp"}) /\ thread[Handler].pid = appfile[At[e]]
    BY <1>0, <2>1, QuietParts DEF KillApp, At_, Doing, AppsKnown
  <2>3. ~ \E t \in Thread : thread[t].entry = e /\ At_(t, "record")
    <3>1. SUFFICES ASSUME NEW t \in Thread, thread[t].entry = e, At_(t, "record") PROVE FALSE
      OBVIOUS
    <3> QED BY <1>0, <2>2, <3>1, QuietParts, AppWork DEF Doing, Stopping, At_
  <2>4. thread[Handler].pid = p
    BY <1>1, <2>2, <2>3 DEF AppTended
  <2> QED BY <1>0, <2>1, <2>4, RecordedIsKilled
<1>3. ASSUME NEW t \in Thread, RecordApp(t), thread[t].entry = e
      PROVE  appfile'[At[e]] = p
  <2>1. thread[t].pid = p
    BY <1>1, <1>3 DEF AppTended, RecordApp
  <2>2. CASE appfile' = [appfile EXCEPT ![At[e]] = p]
    BY <1>0, <2>2
  <2>3. CASE appfile' # [appfile EXCEPT ![At[e]] = p]
    <3>1. proc' = [proc EXCEPT ![p] = IF p \in owned THEN Free ELSE @]
      BY <1>3, <2>1, <2>3 DEF RecordApp
    <3>2. p \in owned
      BY <1>0, <1>3, <2>1, QuietParts DEF OwnedRecords, RecordApp
    <3> QED BY <1>0, <3>1, <3>2, QuietParts DEF Free
  <2> QED BY <2>2, <2>3
<1>4. e \in up'
  <2>1. ~(LaunchApp(Handler) /\ thread[Handler].entry = e)
    BY <1>1, QuietParts DEF AppTended, LaunchApp
  <2>2. ~(RecordApp(Handler) /\ thread[Handler].entry = e /\ thread'[Handler].pc = "idle")
    <3>1. SUFFICES ASSUME RecordApp(Handler), thread[Handler].entry = e,
                          thread'[Handler].pc = "idle"
                   PROVE  FALSE
      OBVIOUS
    <3>2. thread[Handler].pid = p
      BY <1>1, <3>1, QuietParts DEF AppTended, RecordApp
    <3>3. p \in owned
      BY <1>0, <3>1, <3>2, QuietParts DEF OwnedRecords, RecordApp
    <3>4. ~Goto(Handler, "verify")
      BY <3>1, QuietParts DEF Goto, ThreadState
    <3>5. proc'[p] = Free
      BY <3>1, <3>2, <3>3, <3>4, QuietParts DEF RecordApp
    <3> QED BY <1>0, <3>5 DEF Free
  <2>3. ~((SignalDhcp \/ RemoveDhcp) /\ thread[Handler].entry = e)
    BY <1>1 DEF AppTended, Doing, SignalDhcp, RemoveDhcp, At_
  <2> QED BY <1>0, <1>1, <1>2, <2>1, <2>2, <2>3, QuietParts, GoingDown DEF AppTended
<1>5. ~Doing(e, {"signal", "remove"})'
  <2>1. CASE thread'[Handler] = thread[Handler]
    BY <1>1, <2>1 DEF AppTended, Doing
  <2>2. CASE thread'[Handler] # thread[Handler]
    <3>1. ~(SignalDhcp /\ thread[Handler].entry = e)
      BY <1>1 DEF AppTended, Doing, SignalDhcp, At_
    <3> QED BY <1>0, <1>2, <2>2, <3>1, QuietParts, Stops DEF Doing
  <2> QED BY <2>1, <2>2
<1>6. \/ appfile'[At[e]] = p
      \/ \E t \in Thread : thread'[t].entry = e /\ thread'[t].pc = "record" /\ thread'[t].pid = p
  <2>1. CASE appfile[At[e]] = p
    <3>1. RunsRecorded(p, At[e])
      BY MonitorsAssumption DEF RunsRecorded, AppOf, App
    <3> QED BY <1>2, <1>3, <2>1, <3>1, AppFileStays
  <2>2. ASSUME NEW t \in Thread, thread[t].entry = e, At_(t, "record"), thread[t].pid = p
        PROVE  \/ appfile'[At[e]] = p
               \/ thread'[t].entry = e /\ thread'[t].pc = "record" /\ thread'[t].pid = p
    <3>1. ~Crash
      BY <1>0, <2>2 DEF Crash, Unrecorded
    <3>2. thread'[t] = thread[t] \/ RecordApp(t)
      BY <2>2, <3>1, QuietParts, WaitsAlone DEF At_, LeaseEnds, LaunchApp
    <3> QED BY <1>3, <2>2, <3>2 DEF At_
  <2> QED BY <1>1, <2>1, <2>2 DEF AppTended
<1>7. ASSUME NEW t \in Thread, thread'[t].entry = e
      PROVE  thread'[t].pc # "launch" /\ (thread'[t].pc = "record" => thread'[t].pid = p)
  <2>1. CASE thread'[t] = thread[t]
    BY <1>1, <1>7, <2>1 DEF AppTended, At_
  <2>2. CASE thread'[t] # thread[t] /\ thread'[t].pc \in {"launch", "record"}
    <3>1. AppNext(t) /\ thread'[t].pc \in AppPcs
      BY <2>2, QuietParts, AppEnters
    <3>2. thread[t].entry = e
      BY <1>7, <2>2, <3>1, QuietParts, AppMoves
    <3>3. ~LaunchApp(t)
      BY <1>1, <3>2 DEF AppTended, LaunchApp
    <3>4. ~(AdmitApp(t) /\ thread'[t].pc = "launch")
      BY <1>0, <3>2, LaunchIsAlone
    <3> QED BY <2>2, <3>1, <3>3, <3>4, QuietParts, AppMoves
  <2> QED BY <2>1, <2>2
<1> QED BY <1>4, <1>5, <1>6, <1>7 DEF AppTended, At_

(* The handler reads the pidfile, and nothing writes it before it kills *)
LEMMA ReadStaysTrue ==
  ASSUME QuietInvariant, [Next]_vars, NEW e \in Entry \ excused, SoleApp(e), Doing(e, {"killApp"})'
  PROVE  thread'[Handler].pid = appfile'[At[e]]
<1>1. CASE thread'[Handler] # thread[Handler]
  <2>1. ReadAppFile
    BY <1>1, QuietParts, Stops DEF Doing
  <2> QED BY <2>1, QuietParts, HandlerPoints DEF ReadAppFile, files, Doing
<1>2. CASE thread'[Handler] = thread[Handler]
  <2>1. Doing(e, {"killApp"}) /\ thread[Handler].pid = appfile[At[e]]
    BY <1>2, QuietParts DEF Doing, AppsKnown
  <2>2. ~KillApp
    BY <1>2, <2>1, QuietParts, HandlerPoints DEF Doing
  <2>3. ~ \E t \in Thread : thread[t].entry = e /\ thread[t].pc \in AppPcs
    BY <2>1, AppWork DEF Doing, Stopping
  <2>4. appfile'[At[e]] = appfile[At[e]]
    BY <2>2, <2>3, AppFileStays
  <2> QED BY <1>2, <2>1, <2>4
<1> QED BY <1>1, <1>2

LEMMA AppsKnownStep ==
  ASSUME QuietInvariant, [Next]_vars
  PROVE  AppsKnown'
<1> SUFFICES ASSUME NEW e \in Entry \ excused', SoleApp(e)
             PROVE  /\ Doing(e, {"killApp"})' => thread'[Handler].pid = appfile'[At[e]]
                    /\ \A p \in Pid : AppOf(p, e)' => AppTended(p, e)'
  BY DEF AppsKnown, SoleApp
<1>1. e \notin excused
  BY ExcusesStay
<1>2. Doing(e, {"killApp"})' => thread'[Handler].pid = appfile'[At[e]]
  BY <1>1, ReadStaysTrue
<1>3. ASSUME NEW p \in Pid, AppOf(p, e)'
      PROVE  AppTended(p, e)'
  BY <1>1, <1>3, AppOrigin, LaunchedIsTended, RunningStaysTended
<1> QED BY <1>2, <1>3

(* Where each process that Core started for an entry is known: with its pidfile
   or with the thread that waits for it (monitor.py, namespaces/apps.py,
   network_management.py). *)
THEOREM ProcessesAreKnown == Spec => []QuietInvariant
<1>1. Init => QuietInvariant
  <2> SUFFICES ASSUME Init PROVE QuietInvariant
    OBVIOUS
  <2>1. MonitorInvariant
    BY MonitorsInit
  <2>2. /\ \A t \in Thread : thread[t].pc = "idle"
        /\ \A p \in Pid : proc[p].what = "free"
        /\ Handler \in Thread /\ Monitor \subseteq Thread
    BY DEF Init, Idle, Free, Thread
  <2>3. HandlerKnows /\ MonitorsKnow /\ OwnedRecords
    BY <2>2 DEF HandlerKnows, MonitorsKnow, OwnedRecords, AppPcs, At_
  <2>4. DhcpsKnown
    BY <2>2 DEF DhcpsKnown, DhcpOf
  <2>5. AppsKnown
    BY <2>2 DEF AppsKnown, AppOf, App, Doing
  <2> QED BY <2>1, <2>3, <2>4, <2>5 DEF QuietInvariant, DhcpInvariant
<1>2. QuietInvariant /\ [Next]_vars => QuietInvariant'
  BY MonitorInvariantStep, HandlerKnowsStep, MonitorsKnowStep, DhcpsKnownStep, OwnedRecordsStep,
     AppsKnownStep DEF QuietInvariant, DhcpInvariant, MonitorInvariant
<1> QED BY <1>1, <1>2, PTL DEF Spec

(* What is left of an entry that is down: neither its monitor nor its dhcpcd nor
   its app runs, whatever Core was restarted in between (monitor.py:36-51,
   network_management.py:78-95, apps.py:336-357). *)
THEOREM DownIsQuiet == Spec => []DownMeansQuiet
<1>1. QuietInvariant => DownMeansQuiet
  <2> SUFFICES ASSUME QuietInvariant, NEW e \in Entry \ (up \cup excused)
               PROVE  /\ \A m \in Monitor : At_(m, "idle") \/ thread[m].entry # e
                      /\ \A p \in Pid : /\ ~(proc[p].core /\ proc[p].for = e)
                                        /\ SoleApp(e) => proc[p] # App(At[e], TRUE)
    BY DEF DownMeansQuiet
  <2>1. \A m \in Monitor : At_(m, "idle") \/ thread[m].entry # e
    BY QuietParts DEF MonitorsKnow, At_
  <2>2. ASSUME NEW p \in Pid
        PROVE  ~DhcpOf(p, e)
    BY DEF QuietInvariant, DhcpInvariant, DhcpsKnown, Tended
  <2>3. ASSUME NEW p \in Pid, proc[p].core, proc[p].for = e
        PROVE  DhcpOf(p, e)
    BY <2>3, QuietParts, MonitorsAssumption DEF Process, DhcpOf
  <2>4. ASSUME NEW p \in Pid, SoleApp(e)
        PROVE  proc[p] # App(At[e], TRUE)
    BY <2>4, QuietParts DEF AppsKnown, AppTended, AppOf
  <2> QED BY <2>1, <2>2, <2>3, <2>4
<1> QED BY <1>1, ProcessesAreKnown, PTL

(* An entry that nothing excuses has one dhcpcd at most, and one app where no
   other entry starts one in its namespace: of two threads that check the pidfile
   before either launches (apps.py:156) there is then only one. *)
OneOfEach ==
  \A e \in Entry \ excused : \A p, q \in Pid :
    /\ DhcpOf(p, e) /\ DhcpOf(q, e) => p = q
    /\ SoleApp(e) /\ AppOf(p, e) /\ AppOf(q, e) => p = q

(* Monitors, restarts and changes start one dhcpcd and one app for an entry
   (network_management.py:104-155, apps.py:156-161). *)
THEOREM OneProcessEach == Spec => []OneOfEach
<1>1. QuietInvariant => OneOfEach
  <2> SUFFICES ASSUME QuietInvariant, NEW e \in Entry \ excused, NEW p \in Pid, NEW q \in Pid,
                      \/ DhcpOf(p, e) /\ DhcpOf(q, e)
                      \/ SoleApp(e) /\ AppOf(p, e) /\ AppOf(q, e)
               PROVE  p = q
    BY DEF OneOfEach
  <2>1. CASE DhcpOf(p, e) /\ DhcpOf(q, e)
    BY <2>1 DEF QuietInvariant, DhcpInvariant, DhcpsKnown
  <2>2. CASE SoleApp(e) /\ AppOf(p, e) /\ AppOf(q, e)
    <3>1. AppTended(p, e) /\ AppTended(q, e)
      BY <2>2, QuietParts DEF AppsKnown
    <3> QED BY <3>1 DEF AppTended
  <2> QED BY <2>1, <2>2
<1> QED BY <1>1, ProcessesAreKnown, PTL
================================================================================
