-------------------------------- MODULE Capture --------------------------------
(***************************************************************************)
(* The owner side of capture streaming, ConnectionManager in               *)
(* streaming/connection_manager.py, driven by the per-socket command loop  *)
(* of endpoints/streaming_api.py.                                          *)
(*                                                                         *)
(* Everything runs on one asyncio loop, so an action is the code between   *)
(* two awaits.  The actors are the handler of each socket (its commands    *)
(* are serial), the stream() task of each capture, its channel-hopping     *)
(* tasks, and dumpcap itself, which may exit at any time.                  *)
(*                                                                         *)
(* A capture stands at once for a dumpcap process, the stream() task that  *)
(* reads it, its hop tasks and its session id: start_streaming creates     *)
(* them together.  Rejected commands (an error event and no state change)  *)
(* are stuttering steps.  Subscribers are in module CaptureFeed.           *)
(***************************************************************************)
CONSTANTS
  Socket,      \* WebSocket connections
  Interface,   \* capture interfaces
  Captures,    \* capture ids; their number bounds the captures of a behaviour
  Namespace,   \* network namespaces an interface may be resolved to
  Root,        \* the root namespace (None in the code)
  None         \* no socket, no capture

ASSUME RootAssumption == Root \in Namespace
ASSUME NoneAssumption == None \notin Socket \cup Captures
ASSUME ActorAssumption == Socket \cap Captures = {}

VARIABLES
  handler,          \* where the socket's handler coroutine is suspended
  request,          \* the interfaces of the start command being served
  stopping,         \* locals `task` and `proc` of the stop_streaming being run
  interface_owners, \* interface -> socket
  interfaces,       \* client["interfaces"]
  namespace,        \* client["namespace"]
  task,             \* client["task"]
  proc,             \* client["proc"]
  channel_tasks,    \* client["channel_tasks"]: the capture whose hop tasks it holds
  session_id,       \* client["session_id"]
  session_end,      \* client["session_end"] is set (to CAPTURE_STOPPED)
  sessions,         \* the directory: capture -> owner socket
  by, on, ns,       \* socket, interfaces and namespace a capture was started with
  dumpcap,          \* the process
  stream,           \* where the stream() task is suspended
  cancelled,        \* task.cancel() was called and not yet delivered
  hop,              \* the hop tasks of the capture, as a group
  joins,            \* hop group that _stop_channel_tasks, run by a socket's
                    \* handler or a capture's stream(), is awaiting
  ended             \* the code the subscribers of a session were told

clientVars  == <<interfaces, namespace, task, proc, channel_tasks, session_id,
                 session_end>>
captureVars == <<by, on, ns, dumpcap, stream, cancelled, hop, ended>>
vars == <<handler, request, stopping, interface_owners, clientVars, sessions,
          captureVars, joins>>

StartPc == {"resolve", "tune"}
StopPc  == {"stopTask", "stopProc", "stopHops", "byeTask", "byeProc", "byeHops"}
HandlerPc == {"gone", "auth", "idle"} \cup StartPc \cup StopPc

TypeOK ==
  /\ handler \in [Socket -> HandlerPc]
  /\ request \in [Socket -> SUBSET Interface]
  /\ stopping \in [Socket -> [task : Captures \cup {None}, proc : Captures \cup {None}]]
  /\ interface_owners \in [Interface -> Socket \cup {None}]
  /\ interfaces \in [Socket -> SUBSET Interface]
  /\ namespace \in [Socket -> Namespace]
  /\ task \in [Socket -> Captures \cup {None}]
  /\ proc \in [Socket -> Captures \cup {None}]
  /\ channel_tasks \in [Socket -> Captures \cup {None}]
  /\ session_id \in [Socket -> Captures \cup {None}]
  /\ session_end \in [Socket -> BOOLEAN]
  /\ sessions \in [Captures -> Socket \cup {None}]
  /\ by \in [Captures -> Socket \cup {None}]
  /\ on \in [Captures -> SUBSET Interface]
  /\ ns \in [Captures -> Namespace]
  /\ dumpcap \in [Captures -> {"none", "running", "exited"}]
  /\ stream \in [Captures -> {"none", "new", "read", "term", "hops", "done"}]
  /\ cancelled \in [Captures -> BOOLEAN]
  /\ hop \in [Captures -> {"none", "run", "cancelled", "done"}]
  /\ joins \in [Socket \cup Captures -> Captures \cup {None}]
  /\ ended \in [Captures -> {"no", "CAPTURE_ENDED", "CAPTURE_STOPPED"}]

Idle == [task |-> None, proc |-> None]

Init ==
  /\ handler = [w \in Socket |-> "gone"]
  /\ request = [w \in Socket |-> {}]
  /\ stopping = [w \in Socket |-> Idle]
  /\ interface_owners = [i \in Interface |-> None]
  /\ interfaces = [w \in Socket |-> {}]
  /\ namespace = [w \in Socket |-> Root]
  /\ task = [w \in Socket |-> None]
  /\ proc = [w \in Socket |-> None]
  /\ channel_tasks = [w \in Socket |-> None]
  /\ session_id = [w \in Socket |-> None]
  /\ session_end = [w \in Socket |-> FALSE]
  /\ sessions = [c \in Captures |-> None]
  /\ by = [c \in Captures |-> None]
  /\ on = [c \in Captures |-> {}]
  /\ ns = [c \in Captures |-> Root]
  /\ dumpcap = [c \in Captures |-> "none"]
  /\ stream = [c \in Captures |-> "none"]
  /\ cancelled = [c \in Captures |-> FALSE]
  /\ hop = [c \in Captures |-> "none"]
  /\ joins = [a \in Socket \cup Captures |-> None]
  /\ ended = [c \in Captures |-> "no"]

-------------------------------------------------------------------------------
(* Helpers shared by several handlers.                                     *)

(* _claim_interfaces, all or nothing *)
NoConflicts(w, ifaces) == {}                                       \* mutant

Conflicts(w, ifaces) == {i \in ifaces : interface_owners[i] \notin {None, w}}

Claim(w, ifaces) ==
  /\ Conflicts(w, ifaces) = {}
  /\ interface_owners' = [i \in Interface |-> IF i \in ifaces THEN w
                                                          ELSE interface_owners[i]]
  /\ interfaces' = [interfaces EXCEPT ![w] = ifaces]

ReleaseForgotten(w) == UNCHANGED <<interface_owners, interfaces>>  \* mutant

(* _release_interfaces: nothing for a socket that is no longer a client *)
Release(w) ==
  IF handler[w] = "gone"
  THEN UNCHANGED <<interface_owners, interfaces>>
  ELSE /\ interface_owners' =
            [i \in Interface |-> IF i \in interfaces[w] /\ interface_owners[i] = w
                                 THEN None ELSE interface_owners[i]]
       /\ interfaces' = [interfaces EXCEPT ![w] = {}]

(* _end_session: unregister and tell the subscribers `code`; idempotent *)
EndSession(w, code) ==
  /\ session_id' = [session_id EXCEPT ![w] = None]
  /\ session_end' = [session_end EXCEPT ![w] = FALSE]
  /\ namespace' = [namespace EXCEPT ![w] = Root]
  /\ IF session_id[w] = None
     THEN UNCHANGED <<sessions, ended>>
     ELSE /\ sessions' = [sessions EXCEPT ![session_id[w]] = None]
          /\ ended' = [ended EXCEPT ![session_id[w]] = code]

(* First half of _stop_channel_tasks, run by actor a (the handler of w or a  *)
(* stream of w): take the hop tasks from the client, cancel them, await them *)
TakeChannelTasks(w, a) ==
  /\ joins' = [joins EXCEPT ![a] = channel_tasks[w]]
  /\ channel_tasks' = [channel_tasks EXCEPT ![w] = None]
  /\ hop' = [c \in Captures |-> IF c = channel_tasks[w] /\ hop[c] = "run"
                                THEN "cancelled" ELSE hop[c]]

ChannelTasksNotAwaited(a) == TRUE                                  \* mutant

(* ... second half: all of them are done *)
ChannelTasksDone(a) == joins[a] # None => hop[joins[a]] \in {"none", "done"}

-------------------------------------------------------------------------------
(* The socket's handler.                                                   *)

(* connect: a fresh client record *)
Connect(w) ==
  /\ handler[w] = "gone"
  /\ handler' = [handler EXCEPT ![w] = "auth"]
  /\ interfaces' = [interfaces EXCEPT ![w] = {}]
  /\ namespace' = [namespace EXCEPT ![w] = Root]
  /\ task' = [task EXCEPT ![w] = None]
  /\ proc' = [proc EXCEPT ![w] = None]
  /\ channel_tasks' = [channel_tasks EXCEPT ![w] = None]
  /\ session_id' = [session_id EXCEPT ![w] = None]
  /\ session_end' = [session_end EXCEPT ![w] = FALSE]
  /\ UNCHANGED <<request, stopping, interface_owners, sessions, captureVars, joins>>

(* authenticate: commands are dispatched from here on *)
Authenticate(w) ==
  /\ handler[w] = "auth"
  /\ handler' = [handler EXCEPT ![w] = "idle"]
  /\ UNCHANGED <<request, stopping, interface_owners, clientVars, sessions,
                 captureVars, joins>>

(* start_streaming up to its first await.  The configs of the interfaces    *)
(* are data: a start that lacks one is rejected.  The branch that clears a  *)
(* finished capture's leftovers is never taken (NothingLeftOver).           *)
StartClaim(w, ifaces) ==
  /\ handler[w] = "idle"
  /\ ifaces # {}
  /\ task[w] = None /\ proc[w] = None /\ channel_tasks[w] = None
  /\ Claim(w, ifaces)
  /\ request' = [request EXCEPT ![w] = ifaces]
  /\ handler' = [handler EXCEPT ![w] = "resolve"]
  /\ UNCHANGED <<stopping, namespace, task, proc, channel_tasks, session_id,
                 session_end, sessions, captureVars, joins>>

(* The namespace lookup found every interface, in one namespace *)
Resolve(w, n) ==
  /\ handler[w] = "resolve"
  /\ namespace' = [namespace EXCEPT ![w] = n]
  /\ session_end' = [session_end EXCEPT ![w] = FALSE]
  /\ handler' = [handler EXCEPT ![w] = "tune"]
  /\ UNCHANGED <<request, stopping, interface_owners, interfaces, task, proc,
                 channel_tasks, session_id, sessions, captureVars, joins>>

(* Interfaces missing or split across namespaces, or dumpcap not executable *)
StartFails(w) ==
  /\ handler[w] \in StartPc
  /\ Release(w)
  /\ request' = [request EXCEPT ![w] = {}]
  /\ handler' = [handler EXCEPT ![w] = "idle"]
  /\ UNCHANGED <<stopping, namespace, task, proc, channel_tasks, session_id,
                 session_end, sessions, captureVars, joins>>

(* dumpcap spawned: process, stream(), hop tasks and session in one step, up *)
(* to the await that sends CAPTURE_STARTED                                   *)
Spawn(w, c, hopping) ==
  /\ handler[w] = "tune"
  /\ stream[c] = "none"
  /\ by' = [by EXCEPT ![c] = w]
  /\ on' = [on EXCEPT ![c] = request[w]]
  /\ ns' = [ns EXCEPT ![c] = namespace[w]]
  /\ dumpcap' = [dumpcap EXCEPT ![c] = "running"]
  /\ stream' = [stream EXCEPT ![c] = "new"]
  /\ proc' = [proc EXCEPT ![w] = c]
  /\ task' = [task EXCEPT ![w] = c]
  /\ channel_tasks' = [channel_tasks EXCEPT ![w] = IF hopping THEN c ELSE None]
  /\ hop' = [hop EXCEPT ![c] = IF hopping THEN "run" ELSE "none"]
  /\ session_id' = [session_id EXCEPT ![w] = c]
  /\ sessions' = [sessions EXCEPT ![c] = w]
  /\ request' = [request EXCEPT ![w] = {}]
  /\ handler' = [handler EXCEPT ![w] = "idle"]
  /\ UNCHANGED <<stopping, interface_owners, interfaces, namespace, session_end,
                 cancelled, joins, ended>>

EndNotRecorded(w) == session_end[w]                                \* mutant

(* session_end after stop_streaming noted why the session ends *)
EndRecorded(w) == session_end[w] \/ session_id[w] # None

(* stop_streaming up to `await task`; pc is where it goes on *)
BeginStop(w, pc) ==
  /\ session_end' = [session_end EXCEPT ![w] = EndRecorded(w)]
  /\ stopping' = [stopping EXCEPT ![w] = [task |-> task[w], proc |-> proc[w]]]
  /\ cancelled' = [c \in Captures |-> cancelled[c] \/ (c = task[w] /\ stream[c] # "done")]
  /\ request' = [request EXCEPT ![w] = {}]
  /\ handler' = [handler EXCEPT ![w] = pc]
  /\ UNCHANGED <<interface_owners, interfaces, namespace, task, proc, channel_tasks,
                 session_id, sessions, by, on, ns, dumpcap, stream, hop, joins, ended>>

(* the stop command *)
Stop(w) == handler[w] = "idle" /\ BeginStop(w, "stopTask")

(* disconnect, from the endpoint's finally: the peer closed, authentication *)
(* failed, or a start raised                                                *)
Disconnect(w) ==
  handler[w] \in {"auth", "idle"} \cup StartPc /\ BeginStop(w, "byeTask")

(* `await task` returned: the stream task is done *)
StopJoined(w) ==
  /\ handler[w] \in {"stopTask", "byeTask"}
  /\ stopping[w].task # None => stream[stopping[w].task] = "done"
  /\ handler' = [handler EXCEPT ![w] = IF @ = "stopTask" THEN "stopProc" ELSE "byeProc"]
  /\ UNCHANGED <<request, stopping, interface_owners, clientVars, sessions,
                 captureVars, joins>>

StopDoesNotTerminate(w) ==                                         \* mutant
  /\ handler[w] \in {"stopProc", "byeProc"}
  /\ TakeChannelTasks(w, w)
  /\ handler' = [handler EXCEPT ![w] = IF @ = "stopProc" THEN "stopHops" ELSE "byeHops"]
  /\ UNCHANGED <<request, stopping, interface_owners, interfaces, namespace, task,
                 proc, session_id, session_end, sessions, by, on, ns, dumpcap, stream,
                 cancelled, ended>>

(* terminate_process_async(proc) returned; the hop tasks are cancelled *)
StopTerminated(w) ==
  /\ handler[w] \in {"stopProc", "byeProc"}
  /\ dumpcap' = [c \in Captures |-> IF c = stopping[w].proc THEN "exited" ELSE dumpcap[c]]
  /\ TakeChannelTasks(w, w)
  /\ handler' = [handler EXCEPT ![w] = IF @ = "stopProc" THEN "stopHops" ELSE "byeHops"]
  /\ UNCHANGED <<request, stopping, interface_owners, interfaces, namespace, task,
                 proc, session_id, session_end, sessions, by, on, ns, stream,
                 cancelled, ended>>

(* the rest of stop_streaming and, for a disconnect, clients.pop *)
StopFinish(w) ==
  /\ handler[w] \in {"stopHops", "byeHops"}
  /\ ChannelTasksDone(w)
  /\ Release(w)
  /\ EndSession(w, "CAPTURE_STOPPED")
  /\ task' = [task EXCEPT ![w] = None]
  /\ proc' = [proc EXCEPT ![w] = None]
  /\ joins' = [joins EXCEPT ![w] = None]
  /\ stopping' = [stopping EXCEPT ![w] = Idle]
  /\ handler' = [handler EXCEPT ![w] = IF @ = "stopHops" THEN "idle" ELSE "gone"]
  /\ UNCHANGED <<request, channel_tasks, by, on, ns, dumpcap, stream, cancelled, hop>>

-------------------------------------------------------------------------------
(* The stream() task of capture c.  A task cancelled before its first step  *)
(* never runs, so not even its finally block does.                          *)

StreamSwallowsCancel(c) ==                                         \* mutant
  /\ stream[c] = "new"
  /\ stream' = [stream EXCEPT ![c] = "read"]
  /\ cancelled' = [cancelled EXCEPT ![c] = FALSE]
  /\ UNCHANGED <<handler, request, stopping, interface_owners, clientVars, sessions,
                 by, on, ns, dumpcap, hop, ended, joins>>

StreamStarts(c) ==
  /\ stream[c] = "new"
  /\ stream' = [stream EXCEPT ![c] = IF cancelled[c] THEN "done" ELSE "read"]
  /\ cancelled' = [cancelled EXCEPT ![c] = FALSE]
  /\ UNCHANGED <<handler, request, stopping, interface_owners, clientVars, sessions,
                 by, on, ns, dumpcap, hop, ended, joins>>

(* The read loop ends - end of file, a failed send, or cancellation - and   *)
(* the finally block begins to terminate dumpcap                            *)
StreamFinally(c) ==
  /\ stream[c] = "read"
  /\ stream' = [stream EXCEPT ![c] = "term"]
  /\ cancelled' = [cancelled EXCEPT ![c] = FALSE]
  /\ UNCHANGED <<handler, request, stopping, interface_owners, clientVars, sessions,
                 by, on, ns, dumpcap, hop, ended, joins>>

(* terminate_process_async returned *)
StreamTerminated(c) ==
  /\ stream[c] = "term" /\ ~cancelled[c]
  /\ dumpcap' = [dumpcap EXCEPT ![c] = "exited"]
  /\ TakeChannelTasks(by[c], c)
  /\ stream' = [stream EXCEPT ![c] = "hops"]
  /\ UNCHANGED <<handler, request, stopping, interface_owners, interfaces, namespace,
                 task, proc, session_id, session_end, sessions, by, on, ns,
                 cancelled, ended>>

(* cancelled while terminating dumpcap: the rest of the finally is skipped *)
StreamCut(c) ==
  /\ stream[c] = "term" /\ cancelled[c]
  /\ stream' = [stream EXCEPT ![c] = "done"]
  /\ cancelled' = [cancelled EXCEPT ![c] = FALSE]
  /\ UNCHANGED <<handler, request, stopping, interface_owners, clientVars, sessions,
                 by, on, ns, dumpcap, hop, ended, joins>>

(* hop tasks joined; a cancellation that arrives there is swallowed *)
StreamFinishes(c) ==
  LET w == by[c] IN
  /\ stream[c] = "hops"
  /\ ChannelTasksDone(c)
  /\ Release(w)
  /\ EndSession(w, IF session_end[w] THEN "CAPTURE_STOPPED" ELSE "CAPTURE_ENDED")
  /\ proc' = [proc EXCEPT ![w] = IF @ = c THEN None ELSE @]
  /\ task' = [task EXCEPT ![w] = IF @ = c THEN None ELSE @]
  /\ joins' = [joins EXCEPT ![c] = None]
  /\ stream' = [stream EXCEPT ![c] = "done"]
  /\ cancelled' = [cancelled EXCEPT ![c] = FALSE]
  /\ UNCHANGED <<handler, request, stopping, channel_tasks, by, on, ns, dumpcap, hop>>

(* A hop group ends: one channel each, an error, or cancellation *)
HopEnds(c) ==
  /\ hop[c] \in {"run", "cancelled"}
  /\ hop' = [hop EXCEPT ![c] = "done"]
  /\ UNCHANGED <<handler, request, stopping, interface_owners, clientVars, sessions,
                 by, on, ns, dumpcap, stream, cancelled, ended, joins>>

(* dumpcap stops by itself: the interface went away, or it was killed *)
DumpcapExits(c) ==
  /\ dumpcap[c] = "running"
  /\ dumpcap' = [dumpcap EXCEPT ![c] = "exited"]
  /\ UNCHANGED <<handler, request, stopping, interface_owners, clientVars, sessions,
                 by, on, ns, stream, cancelled, hop, ended, joins>>

-------------------------------------------------------------------------------
StopStep(w)   == StopJoined(w) \/ StopTerminated(w) \/ StopFinish(w)
StreamStep(c) == \/ StreamStarts(c) \/ StreamFinally(c) \/ StreamTerminated(c)
                 \/ StreamCut(c) \/ StreamFinishes(c)

Next ==
  \/ \E w \in Socket :
       \/ Connect(w) \/ Authenticate(w) \/ StartFails(w) \/ Stop(w) \/ Disconnect(w)
       \/ StopStep(w)
       \/ \E ifaces \in SUBSET Interface : StartClaim(w, ifaces)
       \/ \E n \in Namespace : Resolve(w, n)
       \/ \E c \in Captures, hopping \in BOOLEAN : Spawn(w, c, hopping)
  \/ \E c \in Captures : StreamStep(c) \/ HopEnds(c) \/ DumpcapExits(c)

Spec == Init /\ [][Next]_vars

(* The event loop runs every ready coroutine.  The reader notices the end of *)
(* file of an exited dumpcap, and a cancelled hop task ends; nothing obliges *)
(* a healthy capture to end, nor a peer to send anything.                    *)
Fairness ==
  /\ \A w \in Socket : WF_vars(StopStep(w))
  /\ \A c \in Captures :
       /\ WF_vars(StreamStarts(c) \/ StreamTerminated(c) \/ StreamCut(c)
                                  \/ StreamFinishes(c))
       /\ WF_vars((dumpcap[c] = "exited" \/ cancelled[c]) /\ StreamFinally(c))
       /\ WF_vars(hop[c] = "cancelled" /\ HopEnds(c))

FairSpec == Spec /\ Fairness

-------------------------------------------------------------------------------
(* Properties.                                                             *)

(* The exclusivity start_streaming promises (INTERFACE_IN_USE): two running *)
(* dumpcaps never read one interface, however starts, stops, process exits  *)
(* and disconnects interleave.                                              *)
NoSharedInterface ==
  \A c, d \in Captures :
    dumpcap[c] = "running" /\ dumpcap[d] = "running" /\ c # d => on[c] \cap on[d] = {}

(* _release_interfaces only runs once dumpcap is gone: while a dumpcap runs *)
(* its socket is still the registered owner of every interface it reads.    *)
LeaseCoversCapture ==
  \A c \in Captures : dumpcap[c] = "running" =>
    \A i \in on[c] : interface_owners[i] = by[c]

(* what list_sessions and subscribe read: an entry names a                  *)
(* connected owner whose current session it is, and outlives its stream()   *)
(* task only while that owner is stopping it.                               *)
DirectoryAccurate ==
  \A c \in Captures : sessions[c] # None =>
    /\ session_id[sessions[c]] = c
    /\ handler[sessions[c]] # "gone"
    /\ stream[c] = "done" => handler[sessions[c]] \in StopPc

(* no process, no lease, no session, no hop task: start_streaming's leftover *)
(* branch has nothing to clean up                                           *)
IdleHoldsNothing ==
  \A w \in Socket :
    handler[w] = "idle" /\ (task[w] # None => stream[task[w]] = "done") =>
      /\ task[w] = None /\ proc[w] = None /\ channel_tasks[w] = None
      /\ interfaces[w] = {} /\ session_id[w] = None
      /\ \A i \in Interface : interface_owners[i] # w

(* nothing running or reserved on the device                                *)
GoneOwnsNothing ==
  \A w \in Socket : handler[w] = "gone" =>
    /\ \A i \in Interface : interface_owners[i] # w
    /\ \A c \in Captures : by[c] = w =>
         /\ dumpcap[c] # "running" /\ sessions[c] = None
         /\ stream[c] \in {"none", "done"} /\ hop[c] \in {"none", "done"}

(* Whatever way a capture ended, a socket back at its command loop without  *)
(* a stream() task has no trace of it, and a client that disconnected at    *)
(* any await of a start or a stop has left none; nor does the directory     *)
(* offer a session that is over to subscribers.                             *)
NothingLeftOver == IdleHoldsNothing /\ GoneOwnsNothing /\ DirectoryAccurate

(* _hop_channels reads client["namespace"] at every retune, which           *)
(* _end_session resets: a live hop task always sees the namespace its       *)
(* capture was started in.                                                  *)
HopsInOwnNamespace ==
  \A c \in Captures : hop[c] \in {"run", "cancelled"} => namespace[by[c]] = ns[c]

(* Subscribers are told how a session ended once, and CAPTURE_STOPPED       *)
(* exactly when its owner asked (session_end), although stream() may do the *)
(* telling.                                                                 *)
EndCodeTellsWhoEnded ==
  [][\A c \in Captures : ended'[c] # ended[c] =>
       /\ ended[c] = "no"
       /\ ended'[c] = "CAPTURE_STOPPED" <=> handler[by[c]] \in StopPc]_vars

(* A stop or a disconnect gets through its awaits, whatever stream() was    *)
(* doing when it was cancelled.                                             *)
StopCompletes ==
  \A w \in Socket : handler[w] \in StopPc ~> handler[w] \in {"idle", "gone"}

(* i is registered to w for a capture other than c, or for one it is starting *)
HeldForAnother(w, i, c) ==
  i \in interfaces[w] /\ (handler[w] \in StartPc \/ proc[w] \notin {None, c})

(* When dumpcap dies by itself its session becomes unlisted and its          *)
(* interfaces claimable by other sockets (_release_interfaces), without any  *)
(* command from its owner, unless that owner has claimed them anew.          *)
ExitFreesInterfaces ==
  \A c \in Captures :
    dumpcap[c] = "exited" ~>
      /\ sessions[c] = None
      /\ \A w \in Socket : proc[w] # c
      /\ \A i \in on[c] :
           interface_owners[i] = by[c] => HeldForAnother(by[c], i, c)

(* The lease protocol implements exclusive use of the interfaces.           *)
Exclusive == INSTANCE ExclusiveCapture WITH
  Capture <- Captures,
  reading <- [c \in Captures |-> IF dumpcap[c] = "running" THEN on[c] ELSE {}]

ImplementsExclusive == Exclusive!Spec

-------------------------------------------------------------------------------
(* The inductive strengthening of NoSharedInterface and LeaseCoversCapture  *)
(* proved in CaptureProofs: which record of the client accounts for each    *)
(* process and task, at every suspension point.                             *)

AliveStream(c) == stream[c] \in {"new", "read", "term", "hops"}

(* a claimed interface is registered to its claimant *)
ClaimsRegistered ==
  \A w \in Socket : \A i \in interfaces[w] : interface_owners[i] = w

(* a running dumpcap is the proc of its socket, which claims its interfaces *)
RunningIsProc ==
  \A c \in Captures : dumpcap[c] = "running" =>
    /\ stream[c] # "none"
    /\ by[c] \in Socket /\ proc[by[c]] = c /\ on[c] \subseteq interfaces[by[c]]

(* a live stream() task is the task of its socket, and past terminate its   *)
(* dumpcap has exited                                                       *)
StreamIsTask ==
  \A c \in Captures : AliveStream(c) =>
    /\ by[c] \in Socket /\ task[by[c]] = c /\ proc[by[c]] = c
    /\ stream[c] = "hops" => dumpcap[c] = "exited"

(* no capture while a socket is not yet, or no longer, a running client, or *)
(* while it is starting one                                                 *)
NoneWhileStarting ==
  \A w \in Socket :
    /\ handler[w] \in {"gone", "auth"} \cup StartPc => task[w] = None /\ proc[w] = None
    /\ handler[w] \in StartPc => request[w] = interfaces[w]

(* a stop deals with the capture the client had when it began *)
StopDealsWithAll ==
  \A w \in Socket :
    /\ proc[w] # None => stream[proc[w]] # "none"
    /\ handler[w] \in StopPc =>
         /\ task[w] \in {None, stopping[w].task}
         /\ proc[w] \in {None, stopping[w].proc}
         /\ stopping[w].proc # None => stream[stopping[w].proc] # "none"
    /\ handler[w] \in StopPc \ {"stopTask", "byeTask"} /\ stopping[w].task # None =>
         stream[stopping[w].task] = "done"
    /\ handler[w] \in {"stopHops", "byeHops"} /\ stopping[w].proc # None =>
         dumpcap[stopping[w].proc] # "running"

(* Every process and task is accounted for by its socket's client record at *)
(* every await of start_streaming, stop_streaming and stream().             *)
LeaseInvariant ==
  /\ TypeOK
  /\ ClaimsRegistered
  /\ RunningIsProc
  /\ StreamIsTask
  /\ NoneWhileStarting
  /\ StopDealsWithAll
===============================================================================
