----------------------------- MODULE CaptureProofs -----------------------------
(***************************************************************************)
(* Proofs about the owner side of capture streaming, for any number of     *)
(* sockets, interfaces and captures.  There are two inductive invariants.  *)
(* LeaseInvariant: at every await, the client record of a socket accounts  *)
(* for the one dumpcap and stream() task the socket may have.              *)
(* CleanInvariant: what it holds beyond that (a session, claims, hop       *)
(* tasks) has a reason, so that it ends with the capture.                  *)
(***************************************************************************)
EXTENDS Capture, TLAPS

(* _release_interfaces by a connected socket gives up its own interfaces    *)
(* and no one else's.                                                       *)
LEMMA ReleaseKeepsOthers ==
  ASSUME NEW w \in Socket, TypeOK, ClaimsRegistered, Release(w)
  PROVE  /\ interface_owners' \in [Interface -> Socket \cup {None}]
         /\ interfaces' \in [Socket -> SUBSET Interface]
         /\ \A v \in Socket : interfaces'[v] \subseteq interfaces[v]
         /\ \A v \in Socket : v # w => interfaces'[v] = interfaces[v]
         /\ ClaimsRegistered'
<1> USE DEF TypeOK
<1>1. CASE handler[w] = "gone"
  BY <1>1 DEF Release, ClaimsRegistered
<1>2. CASE handler[w] # "gone"
  <2>1. /\ interface_owners' = [i \in Interface |->
             IF i \in interfaces[w] /\ interface_owners[i] = w THEN None
                                                               ELSE interface_owners[i]]
        /\ interfaces' = [interfaces EXCEPT ![w] = {}]
    BY <1>2 DEF Release
  <2>2. ASSUME NEW v \in Socket, NEW i \in interfaces'[v]
        PROVE  interface_owners'[i] = v
    <3>1. v # w /\ i \in interfaces[v] /\ i \in Interface
      BY <2>1
    <3>2. interface_owners[i] = v
      BY <3>1 DEF ClaimsRegistered
    <3> QED BY <2>1, <3>1, <3>2
  <2> QED BY <2>1, <2>2 DEF ClaimsRegistered
<1> QED BY <1>1, <1>2

(* A start that fails gives back what it claimed; it had started nothing.    *)
LEMMA StartFailsKeeps ==
  ASSUME LeaseInvariant, NEW w \in Socket, StartFails(w)
  PROVE  LeaseInvariant'
<1> USE DEF LeaseInvariant, StartFails
<1>1. /\ interface_owners' \in [Interface -> Socket \cup {None}]
      /\ interfaces' \in [Socket -> SUBSET Interface]
      /\ \A v \in Socket : v # w => interfaces'[v] = interfaces[v]
      /\ ClaimsRegistered'
  BY ReleaseKeepsOthers
<1>2. TypeOK'
  BY <1>1 DEF TypeOK, HandlerPc, captureVars
<1>3. proc[w] = None
  BY DEF NoneWhileStarting
<1>4. RunningIsProc'
  BY <1>1, <1>3, NoneAssumption DEF RunningIsProc, captureVars
<1>5. StreamIsTask' /\ StopDealsWithAll'
  BY DEF StreamIsTask, StopDealsWithAll, AliveStream, StopPc, TypeOK, captureVars
<1>6. NoneWhileStarting'
  BY <1>1 DEF NoneWhileStarting, StartPc, TypeOK
<1> QED BY <1>1, <1>2, <1>4, <1>5, <1>6

(* The end of stop_streaming clears the client of the capture it found when  *)
(* it began, which is by then finished in every respect.                     *)
LEMMA StopFinishKeeps ==
  ASSUME LeaseInvariant, NEW w \in Socket, StopFinish(w)
  PROVE  LeaseInvariant'
<1> USE DEF LeaseInvariant, StopFinish
<1>1. /\ interface_owners' \in [Interface -> Socket \cup {None}]
      /\ interfaces' \in [Socket -> SUBSET Interface]
      /\ \A v \in Socket : v # w => interfaces'[v] = interfaces[v]
      /\ ClaimsRegistered'
  BY ReleaseKeepsOthers
<1>2. TypeOK'
  BY <1>1, RootAssumption DEF TypeOK, HandlerPc, EndSession, Idle
<1>3. ASSUME NEW c \in Captures, by[c] = w
      PROVE  dumpcap[c] # "running" /\ ~AliveStream(c)
  <2>1. handler[w] \in StopPc \ {"stopTask", "byeTask"}
    BY DEF StopPc
  <2>2. dumpcap[c] # "running"
    BY <1>3, <2>1, NoneAssumption DEF RunningIsProc, StopDealsWithAll
  <2>3. ~AliveStream(c)
    BY <1>3, <2>1, NoneAssumption DEF StreamIsTask, StopDealsWithAll, AliveStream
  <2> QED BY <2>2, <2>3
<1>4. RunningIsProc'
  BY <1>1, <1>3, NoneAssumption DEF RunningIsProc, TypeOK
<1>5. StreamIsTask'
  BY <1>3 DEF StreamIsTask, AliveStream, TypeOK
<1>6. NoneWhileStarting'
  BY <1>1 DEF NoneWhileStarting, StartPc, TypeOK
<1>7. StopDealsWithAll'
  BY DEF StopDealsWithAll, StopPc, TypeOK
<1> QED BY <1>1, <1>2, <1>4, <1>5, <1>6, <1>7

(* The end of stream() clears the client only of its own capture, whose      *)
(* dumpcap it has waited for.                                                *)
LEMMA StreamFinishesKeeps ==
  ASSUME LeaseInvariant, NEW c \in Captures, StreamFinishes(c)
  PROVE  LeaseInvariant'
<1> DEFINE w == by[c]
<1> USE DEF LeaseInvariant, StreamFinishes
<1>1. w \in Socket /\ task[w] = c /\ proc[w] = c /\ dumpcap[c] = "exited"
  BY DEF StreamIsTask, AliveStream
<1>2. /\ interface_owners' \in [Interface -> Socket \cup {None}]
      /\ interfaces' \in [Socket -> SUBSET Interface]
      /\ \A v \in Socket : /\ interfaces'[v] \subseteq interfaces[v]
                           /\ v # w => interfaces'[v] = interfaces[v]
      /\ ClaimsRegistered'
  BY <1>1, ReleaseKeepsOthers
<1>3. TypeOK'
  BY <1>1, <1>2, RootAssumption DEF TypeOK, EndSession
<1>4. ASSUME NEW d \in Captures, d # c, by[d] = w
      PROVE  dumpcap[d] # "running" /\ ~AliveStream(d)
  BY <1>1, <1>4 DEF RunningIsProc, StreamIsTask
<1>5. RunningIsProc'
  BY <1>1, <1>2, <1>4, NoneAssumption DEF RunningIsProc, TypeOK
<1>6. StreamIsTask'
  BY <1>1, <1>4 DEF StreamIsTask, AliveStream, TypeOK
<1>7. NoneWhileStarting'
  <2>1. handler[w] \notin {"gone", "auth"} \cup StartPc
    BY <1>1, NoneAssumption DEF NoneWhileStarting
  <2> QED BY <1>1, <1>2, <2>1 DEF NoneWhileStarting, StartPc, TypeOK
<1>8. StopDealsWithAll'
  BY <1>1 DEF StopDealsWithAll, TypeOK
<1> QED BY <1>2, <1>3, <1>5, <1>6, <1>7, <1>8

LEMMA LeaseInit == Init => LeaseInvariant
BY RootAssumption, NoneAssumption
   DEF Init, LeaseInvariant, TypeOK, ClaimsRegistered, RunningIsProc, StreamIsTask,
       AliveStream, NoneWhileStarting, StopDealsWithAll, HandlerPc, StartPc, StopPc, Idle

(* Every step of a handler, a stream() task, the hop tasks or dumpcap keeps  *)
(* the inductive invariant.                                                  *)
LEMMA LeaseStep == LeaseInvariant /\ [Next]_vars => LeaseInvariant'
<1> SUFFICES ASSUME LeaseInvariant, [Next]_vars PROVE LeaseInvariant'
  OBVIOUS
<1> USE RootAssumption, NoneAssumption
        DEF LeaseInvariant, TypeOK, ClaimsRegistered, RunningIsProc, StreamIsTask,
            AliveStream, NoneWhileStarting, StopDealsWithAll, HandlerPc, StartPc, StopPc,
            clientVars, captureVars
<1>1. ASSUME NEW w \in Socket, Connect(w) PROVE LeaseInvariant'
  BY <1>1 DEF Connect
<1>2. ASSUME NEW w \in Socket, Authenticate(w) PROVE LeaseInvariant'
  BY <1>2 DEF Authenticate
<1>3. ASSUME NEW w \in Socket, NEW ifaces \in SUBSET Interface, StartClaim(w, ifaces)
      PROVE LeaseInvariant'
  BY <1>3 DEF StartClaim, Claim, Conflicts
<1>4. ASSUME NEW w \in Socket, NEW n \in Namespace, Resolve(w, n) PROVE LeaseInvariant'
  BY <1>4 DEF Resolve
<1>5. ASSUME NEW w \in Socket, NEW c \in Captures, NEW hopping \in BOOLEAN,
             Spawn(w, c, hopping)
      PROVE LeaseInvariant'
  BY <1>5 DEF Spawn
<1>6. ASSUME NEW w \in Socket, Stop(w) PROVE LeaseInvariant'
  BY <1>6 DEF Stop, BeginStop, EndRecorded
<1>7. ASSUME NEW w \in Socket, Disconnect(w) PROVE LeaseInvariant'
  BY <1>7 DEF Disconnect, BeginStop, EndRecorded
<1>8. ASSUME NEW w \in Socket, StopJoined(w) PROVE LeaseInvariant'
  BY <1>8 DEF StopJoined
<1>9. ASSUME NEW w \in Socket, StopTerminated(w) PROVE LeaseInvariant'
  BY <1>9 DEF StopTerminated, TakeChannelTasks
<1>10. ASSUME NEW c \in Captures, StreamStarts(c) PROVE LeaseInvariant'
  BY <1>10 DEF StreamStarts
<1>11. ASSUME NEW c \in Captures, StreamFinally(c) PROVE LeaseInvariant'
  BY <1>11 DEF StreamFinally
<1>12. ASSUME NEW c \in Captures, StreamTerminated(c) PROVE LeaseInvariant'
  BY <1>12 DEF StreamTerminated, TakeChannelTasks
<1>13. ASSUME NEW c \in Captures, StreamCut(c) PROVE LeaseInvariant'
  BY <1>13 DEF StreamCut
<1>14. ASSUME NEW c \in Captures, HopEnds(c) PROVE LeaseInvariant'
  BY <1>14 DEF HopEnds
<1>15. ASSUME NEW c \in Captures, DumpcapExits(c) PROVE LeaseInvariant'
  BY <1>15 DEF DumpcapExits
<1>16. CASE UNCHANGED vars
  BY <1>16 DEF vars
<1> HIDE DEF LeaseInvariant, TypeOK, ClaimsRegistered, RunningIsProc, StreamIsTask,
             NoneWhileStarting, StopDealsWithAll
<1>17. CASE Next
  BY <1>1, <1>2, <1>3, <1>4, <1>5, <1>6, <1>7, <1>8, <1>9, <1>10, <1>11, <1>12,
     <1>13, <1>14, <1>15, <1>17, StartFailsKeeps, StopFinishKeeps, StreamFinishesKeeps
     DEF Next, StopStep, StreamStep
<1> QED BY <1>16, <1>17

(* Every reachable state satisfies the accounting of sockets, processes and  *)
(* tasks that LeaseInvariant states, type correctness included.              *)
THEOREM LeaseInvariance == Spec => []LeaseInvariant
BY LeaseInit, LeaseStep, PTL DEF Spec

(* While a dumpcap runs, its interfaces are registered to its socket.        *)
THEOREM LeaseCovers == Spec => []LeaseCoversCapture
<1>1. LeaseInvariant => LeaseCoversCapture
  BY DEF LeaseInvariant, RunningIsProc, ClaimsRegistered, LeaseCoversCapture
<1> QED BY <1>1, LeaseInvariance, PTL

(* No two running dumpcaps share an interface.                               *)
THEOREM NoSharing == Spec => []NoSharedInterface
<1>1. LeaseInvariant => NoSharedInterface
  <2> SUFFICES ASSUME LeaseInvariant, NEW c \in Captures, NEW d \in Captures,
                      dumpcap[c] = "running", dumpcap[d] = "running", c # d,
                      NEW i \in on[c] \cap on[d]
               PROVE  FALSE
    BY DEF NoSharedInterface
  <2>1. interface_owners[i] = by[c] /\ interface_owners[i] = by[d]
    BY DEF LeaseInvariant, RunningIsProc, ClaimsRegistered
  <2>2. proc[by[c]] = c /\ proc[by[d]] = d
    BY DEF LeaseInvariant, RunningIsProc
  <2> QED BY <2>1, <2>2
<1> QED BY <1>1, LeaseInvariance, PTL

(* The interfaces a capture reads, as ExclusiveCapture sees them.            *)
LEMMA ReadingStep ==
  ASSUME NEW c \in Captures, TypeOK,
         on' = on, dumpcap' = [dumpcap EXCEPT ![c] = "exited"]
  PROVE  Exclusive!End(c)
BY DEF Exclusive!End, TypeOK

LEMMA ReadingUnchanged ==
  ASSUME UNCHANGED <<on, dumpcap>>
  PROVE  UNCHANGED [c \in Captures |-> IF dumpcap[c] = "running" THEN on[c] ELSE {}]
OBVIOUS

(* dumpcap starts on interfaces that no running dumpcap reads.               *)
LEMMA SpawnBegins ==
  ASSUME NEW w \in Socket, NEW c \in Captures, NEW hopping \in BOOLEAN,
         LeaseInvariant, Spawn(w, c, hopping)
  PROVE  Exclusive!Begin(c, request[w])
<1> DEFINE reads(d) == IF dumpcap[d] = "running" THEN on[d] ELSE {}
<1>1. reads(c) = {}
  BY DEF LeaseInvariant, RunningIsProc, Spawn
<1>2. ASSUME NEW d \in Captures PROVE reads(d) \cap request[w] = {}
  <2> SUFFICES ASSUME dumpcap[d] = "running", NEW i \in on[d] \cap request[w] PROVE FALSE
    OBVIOUS
  <2>1. request[w] = interfaces[w] /\ proc[w] = None
    BY DEF Spawn, LeaseInvariant, NoneWhileStarting, StartPc
  <2>2. by[d] \in Socket /\ proc[by[d]] = d /\ i \in interfaces[by[d]]
    BY DEF LeaseInvariant, RunningIsProc
  <2>3. by[d] = w
    BY <2>1, <2>2 DEF LeaseInvariant, ClaimsRegistered
  <2> QED BY <2>1, <2>2, <2>3, NoneAssumption
<1>3. [d \in Captures |-> reads(d)]' = [[d \in Captures |-> reads(d)] EXCEPT ![c] = request[w]]
  BY <1>1 DEF Spawn, LeaseInvariant, TypeOK
<1> QED BY <1>1, <1>2, <1>3 DEF Exclusive!Begin

(* Every step either starts one capture on free interfaces, ends one, or     *)
(* leaves what is read unchanged.                                            *)
LEMMA ExclusiveStep ==
  LeaseInvariant /\ [Next]_vars =>
    [Exclusive!Next]_[c \in Captures |-> IF dumpcap[c] = "running" THEN on[c] ELSE {}]
<1> DEFINE reading == [c \in Captures |-> IF dumpcap[c] = "running" THEN on[c] ELSE {}]
<1> SUFFICES ASSUME LeaseInvariant, [Next]_vars PROVE [Exclusive!Next]_reading
  OBVIOUS
<1>1. TypeOK
  BY DEF LeaseInvariant
<1>2. ASSUME NEW c \in Captures, DumpcapExits(c) \/ StreamTerminated(c)
      PROVE  Exclusive!Next
  <2>1. on' = on /\ dumpcap' = [dumpcap EXCEPT ![c] = "exited"]
    BY <1>2 DEF DumpcapExits, StreamTerminated
  <2> QED BY <1>1, <2>1, ReadingStep DEF Exclusive!Next
<1>3. ASSUME NEW w \in Socket, StopTerminated(w)
      PROVE  [Exclusive!Next]_reading
  <2>1. on' = on /\ dumpcap' = [c \in Captures |-> IF c = stopping[w].proc THEN "exited"
                                                                          ELSE dumpcap[c]]
    BY <1>3 DEF StopTerminated
  <2>2. CASE stopping[w].proc \in Captures
    <3>1. dumpcap' = [dumpcap EXCEPT ![stopping[w].proc] = "exited"]
      BY <1>1, <2>1, <2>2 DEF TypeOK
    <3> QED BY <1>1, <2>1, <2>2, <3>1, ReadingStep DEF Exclusive!Next
  <2>3. CASE stopping[w].proc \notin Captures
    <3>1. UNCHANGED <<on, dumpcap>>
      BY <1>1, <2>1, <2>3 DEF TypeOK
    <3> QED BY <3>1, ReadingUnchanged
  <2> QED BY <2>2, <2>3
<1>4. ASSUME NEW w \in Socket, NEW c \in Captures, NEW hopping \in BOOLEAN,
             Spawn(w, c, hopping)
      PROVE  Exclusive!Next
  <2>1. request[w] \in SUBSET Interface
    BY <1>1 DEF TypeOK
  <2>2. Exclusive!Begin(c, request[w])
    BY <1>4, SpawnBegins
  <2> QED BY <2>1, <2>2 DEF Exclusive!Next, Exclusive!Begin
<1>5. ASSUME NEW w \in Socket,
             \/ Connect(w) \/ Authenticate(w) \/ StartFails(w) \/ Stop(w)
             \/ Disconnect(w) \/ StopJoined(w) \/ StopFinish(w)
             \/ \E ifaces \in SUBSET Interface : StartClaim(w, ifaces)
             \/ \E n \in Namespace : Resolve(w, n)
      PROVE  UNCHANGED <<on, dumpcap>>
  BY <1>5 DEF Connect, Authenticate, StartFails, Stop, Disconnect, BeginStop, StopJoined,
              StopFinish, StartClaim, Resolve, captureVars
<1>6. ASSUME NEW c \in Captures,
             StreamStarts(c) \/ StreamFinally(c) \/ StreamCut(c) \/ StreamFinishes(c)
             \/ HopEnds(c)
      PROVE  UNCHANGED <<on, dumpcap>>
  BY <1>6 DEF StreamStarts, StreamFinally, StreamCut, StreamFinishes, HopEnds
<1>7. CASE UNCHANGED vars
  <2>1. UNCHANGED <<on, dumpcap>>
    BY <1>7 DEF vars, captureVars
  <2> QED BY <2>1, ReadingUnchanged
<1>8. CASE Next
  BY <1>2, <1>3, <1>4, <1>5, <1>6, <1>8, ReadingUnchanged DEF Next, StopStep, StreamStep
<1> QED BY <1>7, <1>8

(* The claims in interface_owners, made and released by handlers and tasks   *)
(* that interleave at every await, implement exclusive use of the radios.    *)
THEOREM CaptureImplementsExclusive == Spec => ImplementsExclusive
<1>1. Init => Exclusive!Init
  BY DEF Init, Exclusive!Init
<1> QED BY <1>1, ExclusiveStep, LeaseInvariance, PTL
        DEF Spec, ImplementsExclusive, Exclusive!Spec

-------------------------------------------------------------------------------
(* What a capture leaves behind.  CleanInvariant adds to LeaseInvariant the  *)
(* session, the leases, the cancellations and the hop tasks.                 *)

(* The records of a client are of one capture, its own, which has a session  *)
(* until it is over, and is over only while the client stops it              *)
OneRecord ==
  \A w \in Socket :
    /\ proc[w] = task[w] /\ session_id[w] = task[w] /\ channel_tasks[w] \in {None, task[w]}
    /\ task[w] # None =>
         /\ by[task[w]] = w /\ sessions[task[w]] = w /\ ended[task[w]] = "no"
         /\ AliveStream(task[w]) \/ (stream[task[w]] = "done" /\ handler[w] \in StopPc)
         /\ session_end[w] <=> handler[w] \in StopPc
    /\ handler[w] = "tune" => ~session_end[w]

(* The directory lists current sessions, and a capture id is used once       *)
DirectoryIsCurrent ==
  \A c \in Captures :
    /\ sessions[c] # None => session_id[sessions[c]] = c
    /\ stream[c] = "none" => sessions[c] = None /\ ended[c] = "no" /\ hop[c] = "none"
    /\ stream[c] # "none" => by[c] \in Socket

(* Interfaces are claimed by a start, a capture or a stop, and registered    *)
(* to claimants only                                                         *)
ClaimsHaveReason ==
  /\ \A w \in Socket : interfaces[w] # {} => handler[w] \in StartPc \cup StopPc \/ task[w] # None
  /\ \A i \in Interface : interface_owners[i] # None => i \in interfaces[interface_owners[i]]

(* Only a stop cancels a stream() task, and it waits for it                  *)
CancelIsAwaited ==
  \A c \in Captures : cancelled[c] =>
    /\ AliveStream(c)
    /\ handler[by[c]] \in {"stopTask", "byeTask"} /\ stopping[by[c]].task = c

(* Hop tasks run while the client has them; once they are cancelled the      *)
(* stream() or the stop that took them awaits them                           *)
HopsAreHeld ==
  /\ \A c \in Captures :
       /\ hop[c] = "run" => stream[c] # "none" /\ channel_tasks[by[c]] = c
       /\ hop[c] = "cancelled" =>
            /\ stream[c] # "none"
            /\ \/ stream[c] = "hops" /\ joins[c] = c
               \/ handler[by[c]] \in {"stopHops", "byeHops"} /\ joins[by[c]] = c
       /\ stream[c] = "hops" => channel_tasks[by[c]] = None
  /\ \A w \in Socket : handler[w] \in {"stopHops", "byeHops"} => channel_tasks[w] = None

CleanInvariant ==
  /\ LeaseInvariant
  /\ OneRecord
  /\ DirectoryIsCurrent
  /\ ClaimsHaveReason
  /\ CancelIsAwaited
  /\ HopsAreHeld
  /\ HopsInOwnNamespace

LEMMA CleanInit == Init => CleanInvariant
<1> SUFFICES ASSUME Init PROVE CleanInvariant
  OBVIOUS
<1>1. LeaseInvariant
  BY LeaseInit
<1> QED BY <1>1, NoneAssumption
        DEF Init, CleanInvariant, OneRecord, DirectoryIsCurrent, ClaimsHaveReason,
            CancelIsAwaited, HopsAreHeld, HopsInOwnNamespace, AliveStream, StartPc, StopPc


CleanParts ==
  OneRecord /\ DirectoryIsCurrent /\ ClaimsHaveReason /\ CancelIsAwaited /\ HopsAreHeld
  /\ HopsInOwnNamespace

(* A connected socket that releases its interfaces is registered for none    *)
LEMMA ReleaseGivesUpAll ==
  ASSUME NEW w \in Socket, TypeOK, ClaimsHaveReason, Release(w), handler[w] # "gone"
  PROVE  /\ interfaces' = [interfaces EXCEPT ![w] = {}]
         /\ \A i \in Interface : interface_owners'[i] # None =>
              i \in interfaces'[interface_owners'[i]]
<1> DEFINE kept(i) == IF i \in interfaces[w] /\ interface_owners[i] = w THEN None
                      ELSE interface_owners[i]
<1>1. /\ interfaces' = [interfaces EXCEPT ![w] = {}]
      /\ interface_owners' = [i \in Interface |-> kept(i)]
  BY DEF Release
<1>2. ASSUME NEW i \in Interface, kept(i) # None
      PROVE  kept(i) \in Socket \ {w} /\ i \in interfaces[kept(i)]
  BY <1>2 DEF TypeOK, ClaimsHaveReason
<1> HIDE DEF kept
<1> QED BY <1>1, <1>2 DEF TypeOK

LEMMA ConnectClean ==
  ASSUME CleanInvariant, NEW w \in Socket, Connect(w)
  PROVE  CleanParts'
<1> USE RootAssumption, NoneAssumption, ActorAssumption
        DEF CleanInvariant, LeaseInvariant, TypeOK, ClaimsRegistered, RunningIsProc, StreamIsTask,
            NoneWhileStarting, StopDealsWithAll, StartPc, StopPc, OneRecord, DirectoryIsCurrent,
            ClaimsHaveReason, CancelIsAwaited, HopsAreHeld, HopsInOwnNamespace, AliveStream,
            clientVars, captureVars
<1>1. OneRecord'
  BY DEF Connect
<1>2. DirectoryIsCurrent'
  BY DEF Connect
<1>3. ClaimsHaveReason'
  <2>1. handler[w] = "gone" /\ task[w] = None /\ interfaces[w] = {}
    BY ZenonT(60) DEF Connect
  <2>2. /\ interfaces' = interfaces /\ interface_owners' = interface_owners
        /\ task' = task /\ handler' = [handler EXCEPT ![w] = "auth"]
    BY <2>1 DEF Connect
  <2> QED BY <2>1, <2>2
<1>4. CancelIsAwaited'
  BY DEF Connect
<1>5. HopsAreHeld'
  BY DEF Connect
<1>6. HopsInOwnNamespace'
  <2>1. handler[w] = "gone" /\ task[w] = None /\ channel_tasks[w] = None
    BY DEF Connect
  <2>2. \A c \in Captures : hop[c] \in {"run", "cancelled"} => by[c] # w
    BY <2>1, SMTT(30)
  <2> QED BY <2>2 DEF Connect
<1> QED BY <1>1, <1>2, <1>3, <1>4, <1>5, <1>6 DEF CleanParts

LEMMA StopClean ==
  ASSUME CleanInvariant, NEW w \in Socket, NEW pc \in {"stopTask", "byeTask"}, BeginStop(w, pc),
         handler[w] \notin StopPc \cup {"gone"}
  PROVE  CleanParts'
<1> USE RootAssumption, NoneAssumption, ActorAssumption
        DEF CleanInvariant, LeaseInvariant, TypeOK, ClaimsRegistered, RunningIsProc, StreamIsTask,
            NoneWhileStarting, StopDealsWithAll, StartPc, StopPc, OneRecord, DirectoryIsCurrent,
            ClaimsHaveReason, CancelIsAwaited, HopsAreHeld, HopsInOwnNamespace, AliveStream,
            clientVars, captureVars
<1>1. OneRecord'
  <2>1. /\ handler' = [handler EXCEPT ![w] = pc]
        /\ session_end' = [session_end EXCEPT ![w] = EndRecorded(w)]
        /\ UNCHANGED <<task, proc, session_id, channel_tasks, by, sessions, ended, stream>>
    BY DEF BeginStop
  <2>2. session_end'[w] \/ task[w] = None
    <3>1. session_end'[w] = EndRecorded(w)
      BY <2>1
    <3>2. task[w] # None => EndRecorded(w)
      BY DEF EndRecorded
    <3> QED BY <3>1, <3>2
  <2>3. handler'[w] = pc /\ pc \in StopPc /\ pc # "tune"
    BY <2>1
  <2>4. \A v \in Socket \ {w} : handler'[v] = handler[v] /\ session_end'[v] = session_end[v]
    BY <2>1
  <2> QED BY <2>1, <2>2, <2>3, <2>4
<1>2. DirectoryIsCurrent'
  BY DEF BeginStop, EndRecorded
<1>3. ClaimsHaveReason'
  BY DEF BeginStop, EndRecorded
<1>4. CancelIsAwaited'
  BY DEF BeginStop, EndRecorded
<1>5. HopsAreHeld'
  BY DEF BeginStop, EndRecorded
<1>6. HopsInOwnNamespace'
  BY DEF BeginStop, EndRecorded
<1> QED BY <1>1, <1>2, <1>3, <1>4, <1>5, <1>6 DEF CleanParts

(* A start claims interfaces for a socket that had none                      *)
LEMMA StartClaimClean ==
  ASSUME CleanInvariant, NEW w \in Socket, NEW ifaces \in SUBSET Interface, StartClaim(w, ifaces)
  PROVE  CleanParts'
<1> USE RootAssumption, NoneAssumption, ActorAssumption
        DEF CleanInvariant, LeaseInvariant, TypeOK, ClaimsRegistered, RunningIsProc, StreamIsTask,
            NoneWhileStarting, StopDealsWithAll, StartPc, StopPc, OneRecord, DirectoryIsCurrent,
            ClaimsHaveReason, CancelIsAwaited, HopsAreHeld, HopsInOwnNamespace, AliveStream,
            clientVars, captureVars
<1>1. OneRecord'
  BY DEF StartClaim, Claim, Conflicts
<1>2. DirectoryIsCurrent'
  BY DEF StartClaim, Claim, Conflicts
<1>3. ClaimsHaveReason'
  <2>1. handler[w] = "idle" /\ task[w] = None
    BY DEF StartClaim
  <2>2. interfaces[w] = {}
    BY <2>1
  <2>3. \A i \in Interface : interface_owners[i] # w
    <3> HIDE DEF TypeOK
    <3> QED BY <2>2
  <2>4. /\ interface_owners' = [i \in Interface |-> IF i \in ifaces THEN w ELSE interface_owners[i]]
        /\ interfaces' = [interfaces EXCEPT ![w] = ifaces]
        /\ handler' = [handler EXCEPT ![w] = "resolve"] /\ task' = task
    BY DEF StartClaim, Claim
  <2> QED BY <2>1, <2>2, <2>3, <2>4
<1>4. CancelIsAwaited'
  BY DEF StartClaim, Claim, Conflicts
<1>5. HopsAreHeld'
  BY DEF StartClaim, Claim, Conflicts
<1>6. HopsInOwnNamespace'
  BY DEF StartClaim, Claim, Conflicts
<1> QED BY <1>1, <1>2, <1>3, <1>4, <1>5, <1>6 DEF CleanParts

LEMMA SpawnClean ==
  ASSUME CleanInvariant, NEW w \in Socket, NEW c \in Captures, NEW hopping \in BOOLEAN,
         Spawn(w, c, hopping)
  PROVE  CleanParts'
<1> USE RootAssumption, NoneAssumption, ActorAssumption
        DEF CleanInvariant, LeaseInvariant, TypeOK, ClaimsRegistered, RunningIsProc, StreamIsTask,
            NoneWhileStarting, StopDealsWithAll, StartPc, StopPc, OneRecord, DirectoryIsCurrent,
            ClaimsHaveReason, CancelIsAwaited, HopsAreHeld, HopsInOwnNamespace, AliveStream,
            clientVars, captureVars
<1>1. OneRecord'
  BY DEF Spawn
<1>2. DirectoryIsCurrent'
  BY DEF Spawn
<1>3. ClaimsHaveReason'
  BY DEF Spawn
<1>4. CancelIsAwaited'
  BY DEF Spawn
<1>5. HopsAreHeld'
  BY DEF Spawn
<1>6. HopsInOwnNamespace'
  BY DEF Spawn
<1> QED BY <1>1, <1>2, <1>3, <1>4, <1>5, <1>6 DEF CleanParts

LEMMA StopJoinedClean ==
  ASSUME CleanInvariant, NEW w \in Socket, StopJoined(w)
  PROVE  CleanParts'
<1> USE RootAssumption, NoneAssumption, ActorAssumption
        DEF CleanInvariant, LeaseInvariant, TypeOK, ClaimsRegistered, RunningIsProc, StreamIsTask,
            NoneWhileStarting, StopDealsWithAll, StartPc, StopPc, OneRecord, DirectoryIsCurrent,
            ClaimsHaveReason, CancelIsAwaited, HopsAreHeld, HopsInOwnNamespace, AliveStream,
            clientVars, captureVars
<1>1. OneRecord'
  BY DEF StopJoined
<1>2. DirectoryIsCurrent'
  BY DEF StopJoined
<1>3. ClaimsHaveReason'
  BY DEF StopJoined
<1>4. CancelIsAwaited'
  BY DEF StopJoined
<1>5. HopsAreHeld'
  BY DEF StopJoined
<1>6. HopsInOwnNamespace'
  BY DEF StopJoined
<1> QED BY <1>1, <1>2, <1>3, <1>4, <1>5, <1>6 DEF CleanParts

LEMMA StopTerminatedClean ==
  ASSUME CleanInvariant, NEW w \in Socket, StopTerminated(w)
  PROVE  CleanParts'
<1> USE RootAssumption, NoneAssumption, ActorAssumption
        DEF CleanInvariant, LeaseInvariant, TypeOK, ClaimsRegistered, RunningIsProc, StreamIsTask,
            NoneWhileStarting, StopDealsWithAll, StartPc, StopPc, OneRecord, DirectoryIsCurrent,
            ClaimsHaveReason, CancelIsAwaited, HopsAreHeld, HopsInOwnNamespace, AliveStream,
            clientVars, captureVars
<1>1. OneRecord'
  BY DEF StopTerminated, TakeChannelTasks
<1>2. DirectoryIsCurrent'
  BY DEF StopTerminated, TakeChannelTasks
<1>3. ClaimsHaveReason'
  BY DEF StopTerminated, TakeChannelTasks
<1>4. CancelIsAwaited'
  BY DEF StopTerminated, TakeChannelTasks
<1>5. HopsAreHeld'
  BY DEF StopTerminated, TakeChannelTasks
<1>6. HopsInOwnNamespace'
  BY DEF StopTerminated, TakeChannelTasks
<1> QED BY <1>1, <1>2, <1>3, <1>4, <1>5, <1>6 DEF CleanParts

LEMMA StartFailsClean ==
  ASSUME CleanInvariant, NEW w \in Socket, StartFails(w)
  PROVE  CleanParts'
<1> USE RootAssumption, NoneAssumption, ActorAssumption
        DEF CleanInvariant, LeaseInvariant, TypeOK, ClaimsRegistered, RunningIsProc, StreamIsTask,
            NoneWhileStarting, StopDealsWithAll, StartPc, StopPc, OneRecord, DirectoryIsCurrent,
            ClaimsHaveReason, CancelIsAwaited, HopsAreHeld, HopsInOwnNamespace, AliveStream,
            clientVars, captureVars
<1>1. OneRecord'
  BY DEF StartFails, Release
<1>2. DirectoryIsCurrent'
  BY DEF StartFails, Release
<1>3. ClaimsHaveReason'
  <2>1. handler[w] # "gone" /\ Release(w)
    BY DEF StartFails
  <2>2. /\ interfaces' = [interfaces EXCEPT ![w] = {}]
        /\ \A i \in Interface : interface_owners'[i] # None =>
             i \in interfaces'[interface_owners'[i]]
    BY <2>1, ReleaseGivesUpAll
  <2> QED BY <2>2 DEF StartFails
<1>4. CancelIsAwaited'
  BY DEF StartFails, Release
<1>5. HopsAreHeld'
  BY DEF StartFails, Release
<1>6. HopsInOwnNamespace'
  BY DEF StartFails, Release
<1> QED BY <1>1, <1>2, <1>3, <1>4, <1>5, <1>6 DEF CleanParts

LEMMA StopFinishClean ==
  ASSUME CleanInvariant, NEW w \in Socket, StopFinish(w)
  PROVE  CleanParts'
<1> USE RootAssumption, NoneAssumption, ActorAssumption
        DEF CleanInvariant, LeaseInvariant, TypeOK, ClaimsRegistered, RunningIsProc, StreamIsTask,
            NoneWhileStarting, StopDealsWithAll, StartPc, StopPc, OneRecord, DirectoryIsCurrent,
            ClaimsHaveReason, CancelIsAwaited, HopsAreHeld, HopsInOwnNamespace, AliveStream,
            clientVars, captureVars
<1>1. OneRecord'
  BY DEF StopFinish, Release, EndSession, ChannelTasksDone, Idle
<1>2. DirectoryIsCurrent'
  BY DEF StopFinish, Release, EndSession, ChannelTasksDone, Idle
<1>3. ClaimsHaveReason'
  <2>1. handler[w] # "gone" /\ Release(w)
    BY DEF StopFinish
  <2>2. /\ interfaces' = [interfaces EXCEPT ![w] = {}]
        /\ \A i \in Interface : interface_owners'[i] # None =>
             i \in interfaces'[interface_owners'[i]]
    BY <2>1, ReleaseGivesUpAll
  <2> QED BY <2>2 DEF StopFinish
<1>4. CancelIsAwaited'
  BY DEF StopFinish, Release, EndSession, ChannelTasksDone, Idle
<1>5. HopsAreHeld'
  BY DEF StopFinish, Release, EndSession, ChannelTasksDone, Idle
<1>6. HopsInOwnNamespace'
  BY SMTT(30) DEF StopFinish, Release, EndSession, ChannelTasksDone, Idle
<1> QED BY <1>1, <1>2, <1>3, <1>4, <1>5, <1>6 DEF CleanParts

LEMMA StreamFinishesClean ==
  ASSUME CleanInvariant, NEW c \in Captures, StreamFinishes(c)
  PROVE  CleanParts'
<1> USE RootAssumption, NoneAssumption, ActorAssumption
        DEF CleanInvariant, LeaseInvariant, TypeOK, ClaimsRegistered, RunningIsProc, StreamIsTask,
            NoneWhileStarting, StopDealsWithAll, StartPc, StopPc, OneRecord, DirectoryIsCurrent,
            ClaimsHaveReason, CancelIsAwaited, HopsAreHeld, HopsInOwnNamespace, AliveStream,
            clientVars, captureVars
<1>1. OneRecord'
  BY DEF StreamFinishes, Release, EndSession, ChannelTasksDone
<1>2. DirectoryIsCurrent'
  BY DEF StreamFinishes, Release, EndSession, ChannelTasksDone
<1>3. ClaimsHaveReason'
  BY DEF StreamFinishes, Release, EndSession, ChannelTasksDone
<1>4. CancelIsAwaited'
  BY DEF StreamFinishes, Release, EndSession, ChannelTasksDone
<1>5. HopsAreHeld'
  BY DEF StreamFinishes, Release, EndSession, ChannelTasksDone
<1>6. HopsInOwnNamespace'
  BY DEF StreamFinishes, Release, EndSession, ChannelTasksDone
<1> QED BY <1>1, <1>2, <1>3, <1>4, <1>5, <1>6 DEF CleanParts

(* Every step keeps the sessions, leases, cancellations and hop tasks in     *)
(* order                                                                     *)
LEMMA CleanStep == CleanInvariant /\ [Next]_vars => CleanInvariant'
<1> SUFFICES ASSUME CleanInvariant, [Next]_vars PROVE CleanParts'
  BY LeaseStep DEF CleanInvariant, CleanParts
<1> USE RootAssumption, NoneAssumption, ActorAssumption
        DEF CleanInvariant, LeaseInvariant, TypeOK, ClaimsRegistered, RunningIsProc, StreamIsTask,
            NoneWhileStarting, StopDealsWithAll, StartPc, StopPc, OneRecord, DirectoryIsCurrent,
            ClaimsHaveReason, CancelIsAwaited, HopsAreHeld, HopsInOwnNamespace, AliveStream,
            clientVars, captureVars, CleanParts
<1>1. ASSUME NEW w \in Socket, Authenticate(w) PROVE CleanParts'
  BY <1>1 DEF Authenticate
<1>2. ASSUME NEW w \in Socket, NEW n \in Namespace, Resolve(w, n) PROVE CleanParts'
  BY <1>2 DEF Resolve
<1>3. ASSUME NEW c \in Captures, StreamStarts(c) PROVE CleanParts'
  BY <1>3 DEF StreamStarts
<1>4. ASSUME NEW c \in Captures, StreamFinally(c) PROVE CleanParts'
  BY <1>4 DEF StreamFinally
<1>5. ASSUME NEW c \in Captures, StreamTerminated(c) PROVE CleanParts'
  BY <1>5 DEF StreamTerminated, TakeChannelTasks
<1>6. ASSUME NEW c \in Captures, StreamCut(c) PROVE CleanParts'
  BY <1>6 DEF StreamCut
<1>7. ASSUME NEW c \in Captures, HopEnds(c) PROVE CleanParts'
  BY <1>7 DEF HopEnds
<1>8. ASSUME NEW c \in Captures, DumpcapExits(c) PROVE CleanParts'
  BY <1>8 DEF DumpcapExits
<1>9. ASSUME NEW w \in Socket, Stop(w) \/ Disconnect(w) PROVE CleanParts'
  <2>1. /\ \E pc \in {"stopTask", "byeTask"} : BeginStop(w, pc)
        /\ handler[w] \notin StopPc \cup {"gone"}
    BY <1>9 DEF Stop, Disconnect
  <2> HIDE DEF CleanInvariant, CleanParts
  <2> QED BY <2>1, StopClean
<1>10. CASE UNCHANGED vars
  BY <1>10 DEF vars
<1> HIDE DEF CleanInvariant, LeaseInvariant, TypeOK, ClaimsRegistered, RunningIsProc,
             StreamIsTask, NoneWhileStarting, StopDealsWithAll, OneRecord, DirectoryIsCurrent,
             ClaimsHaveReason, CancelIsAwaited, HopsAreHeld, HopsInOwnNamespace, CleanParts
<1>11. CASE Next
  BY <1>1, <1>2, <1>3, <1>4, <1>5, <1>6, <1>7, <1>8, <1>9, <1>11,
     ConnectClean, StartClaimClean, SpawnClean, StopJoinedClean, StopTerminatedClean,
     StartFailsClean, StopFinishClean, StreamFinishesClean
     DEF Next, StopStep, StreamStep
<1> QED BY <1>10, <1>11

(* What a client and its capture hold of one another, at every await: one    *)
(* record, one session, leases with a reason, awaited cancellations, held    *)
(* hop tasks.                                                                *)
THEOREM RecordsAreOne == Spec => []CleanInvariant
BY CleanInit, CleanStep, PTL DEF Spec

(* A capture leaves nothing behind, neither in the record of a client that   *)
(* goes on nor, for one that disconnected in the middle of a start or stop,  *)
(* on the device or in the directory.                                        *)
THEOREM CapturesCleanUp == Spec => []NothingLeftOver
<1>1. CleanInvariant => NothingLeftOver
  <2> SUFFICES ASSUME CleanInvariant PROVE NothingLeftOver
    OBVIOUS
  <2>1. /\ TypeOK /\ OneRecord /\ DirectoryIsCurrent /\ ClaimsHaveReason /\ HopsAreHeld
        /\ NoneWhileStarting /\ RunningIsProc /\ StreamIsTask
    BY DEF CleanInvariant, LeaseInvariant
  <2>2. ASSUME NEW w \in Socket, handler[w] \notin StartPc \cup StopPc, task[w] = None
        PROVE  /\ proc[w] = None /\ channel_tasks[w] = None /\ session_id[w] = None
               /\ interfaces[w] = {} /\ \A i \in Interface : interface_owners[i] # w
    <3>1. interfaces[w] = {}
      BY <2>1, <2>2 DEF ClaimsHaveReason
    <3>2. \A i \in Interface : interface_owners[i] # w
      BY <2>1, <3>1, NoneAssumption DEF ClaimsHaveReason
    <3> QED BY <2>1, <2>2, <3>1, <3>2 DEF OneRecord
  <2>3. IdleHoldsNothing
    <3> SUFFICES ASSUME NEW w \in Socket, handler[w] = "idle",
                        task[w] # None => stream[task[w]] = "done"
                 PROVE  task[w] = None
      BY <2>2 DEF IdleHoldsNothing, StartPc, StopPc
    <3> QED BY <2>1 DEF OneRecord, AliveStream, StopPc
  <2>4. GoneOwnsNothing
    <3> SUFFICES ASSUME NEW w \in Socket, handler[w] = "gone"
                 PROVE  /\ task[w] = None
                        /\ \A c \in Captures : by[c] = w =>
                             /\ dumpcap[c] # "running" /\ sessions[c] = None
                             /\ stream[c] \in {"none", "done"} /\ hop[c] \in {"none", "done"}
      BY <2>2 DEF GoneOwnsNothing, StartPc, StopPc
    <3>1. task[w] = None /\ proc[w] = None /\ session_id[w] = None /\ channel_tasks[w] = None
      BY <2>1 DEF NoneWhileStarting, OneRecord
    <3> SUFFICES ASSUME NEW c \in Captures, by[c] = w
                 PROVE  /\ dumpcap[c] # "running" /\ sessions[c] = None
                        /\ stream[c] \in {"none", "done"} /\ hop[c] \in {"none", "done"}
      BY <3>1
    <3>2. c # None
      BY NoneAssumption
    <3>3. dumpcap[c] # "running" /\ ~AliveStream(c)
      BY <2>1, <3>1, <3>2 DEF RunningIsProc, StreamIsTask
    <3>4. stream[c] \in {"none", "done"}
      BY <2>1, <3>3 DEF TypeOK, AliveStream
    <3>5. sessions[c] = None
      BY <2>1, <3>1, <3>2 DEF TypeOK, OneRecord, DirectoryIsCurrent
    <3>6. hop[c] \in {"none", "done"}
      BY <2>1, <3>1, <3>2, <3>4 DEF TypeOK, HopsAreHeld
    <3> QED BY <3>3, <3>4, <3>5, <3>6
  <2>5. DirectoryAccurate
    <3> SUFFICES ASSUME NEW c \in Captures, sessions[c] # None
                 PROVE  /\ session_id[sessions[c]] = c /\ handler[sessions[c]] # "gone"
                        /\ stream[c] = "done" => handler[sessions[c]] \in StopPc
      BY DEF DirectoryAccurate
    <3>1. sessions[c] \in Socket /\ session_id[sessions[c]] = c /\ task[sessions[c]] = c /\ c # None
      BY <2>1, NoneAssumption DEF TypeOK, DirectoryIsCurrent, OneRecord
    <3> QED BY <2>1, <3>1 DEF OneRecord, NoneWhileStarting, AliveStream
  <2> QED BY <2>3, <2>4, <2>5 DEF NothingLeftOver
<1> QED BY <1>1, RecordsAreOne, PTL

(* A hop task that is not done retunes in the namespace of its capture: no   *)
(* reset of the client's namespace overtakes it.                             *)
THEOREM HopsStayHome == Spec => []HopsInOwnNamespace
<1>1. CleanInvariant => HopsInOwnNamespace
  BY DEF CleanInvariant
<1> QED BY <1>1, RecordsAreOne, PTL

(* _end_session, which stream() and stop_streaming both reach, tells the end *)
(* of a session once, and whether its owner asked for it.                    *)
THEOREM EndIsToldOnce == Spec => EndCodeTellsWhoEnded
<1> DEFINE Told == \A c \in Captures : ended'[c] # ended[c] =>
                     /\ ended[c] = "no"
                     /\ ended'[c] = "CAPTURE_STOPPED" <=> handler[by[c]] \in StopPc
<1>1. ASSUME CleanInvariant, [Next]_vars PROVE [Told]_vars
  <2> USE <1>1, NoneAssumption
          DEF CleanInvariant, LeaseInvariant, TypeOK, OneRecord, StreamIsTask, AliveStream
  <2>1. ASSUME NEW w \in Socket, StopFinish(w) PROVE Told
    BY <2>1 DEF StopFinish, EndSession, StopPc
  <2>2. ASSUME NEW c \in Captures, StreamFinishes(c) PROVE Told
    BY <2>2 DEF StreamFinishes, EndSession
  <2>3. CASE ended' = ended
    BY <2>3
  <2>4. \/ ended' = ended
        \/ (\E w \in Socket : StopFinish(w)) \/ (\E c \in Captures : StreamFinishes(c))
    BY DEF Next, StopStep, StreamStep, Connect, Authenticate, StartFails, Stop, Disconnect,
       BeginStop, StopJoined, StopTerminated, StartClaim, Resolve, Spawn, StreamStarts,
       StreamFinally, StreamTerminated, StreamCut, HopEnds, DumpcapExits, captureVars, vars
  <2> QED BY <2>1, <2>2, <2>3, <2>4
<1>2. CleanInvariant /\ [Next]_vars => [Told]_vars
  BY <1>1
<1> QED BY <1>2, RecordsAreOne, PTL DEF Spec, EndCodeTellsWhoEnded
===============================================================================
