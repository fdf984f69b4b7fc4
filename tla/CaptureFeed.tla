------------------------------ MODULE CaptureFeed ------------------------------
(***************************************************************************)
(* The read-only subscribers of a capture: the session directory and the   *)
(* per-subscriber queues of ConnectionManager                              *)
(* (streaming/connection_manager.py).                                      *)
(*                                                                         *)
(* The actors on the asyncio loop are the handler of each socket, the      *)
(* stream() task of each owner (Broadcast, EndSession) and the task that   *)
(* drains each subscriber's queue (_send_subscription).  How an owner's    *)
(* capture starts and stops is in module Capture: here a session starts    *)
(* when start_streaming registers it and may end at any time.              *)
(*                                                                         *)
(* A pcapng block is its position in its session: the first HeaderLen      *)
(* blocks are the section header and interface descriptions, the others    *)
(* packets.  The owner's own copy of the stream is not queued.             *)
(***************************************************************************)
EXTENDS Naturals, Sequences, FiniteSets

CONSTANTS
  Socket,          \* WebSocket connections, owners and subscribers alike
  Session,         \* session ids; their number bounds the sessions started
  None,            \* no socket, no session
  HeaderLen,       \* blocks before the first packet
  MaxBlocks,       \* bound: blocks per session
  MaxChunk,        \* bound: complete blocks framed from one chunk
  QueueBlocks,     \* _SUBSCRIBER_QUEUE_BLOCKS
  MaxSubscribers   \* _MAX_SUBSCRIBERS_PER_SESSION

ASSUME FeedAssumption ==
  /\ None \notin Socket \cup Session
  /\ HeaderLen \in Nat \ {0} /\ MaxBlocks \in Nat /\ MaxChunk \in Nat
  /\ QueueBlocks \in Nat /\ QueueBlocks >= 2    \* room for what subscribe() queues
  /\ MaxSubscribers \in Nat \ {0}

VARIABLES
  handler,       \* where the socket's handler is suspended
  wanted,        \* the session a suspended subscribe command asks for
  session_id,    \* client["session_id"]
  sessions,      \* the directory: session -> owner
  used,          \* session ids already drawn
  framed,        \* blocks framed so far in the owner's current session
  subscribers,   \* client["subscribers"] of an owner
  subscribed_to, \* client["subscribed_to"]
  feed,          \* client["subscription_queue"] and ["subscription_closing"]
  sender,        \* where the socket's _send_subscription task is suspended
  serving,       \* the session that task was created for
  cancelled,     \* the task was cancelled
  open,          \* no close frame was sent to the socket
  got,           \* history: what the current subscription was sent
  since          \* history: blocks framed before the current subscription

vars == <<handler, wanted, session_id, sessions, used, framed, subscribers,
          subscribed_to, feed, sender, serving, cancelled, open, got, since>>

ownerVars  == <<session_id, sessions, used, framed>>
senderVars == <<sender, serving, open, got, since>>

Item(kind, s, n) == [kind |-> kind, session |-> s, n |-> n]
Subscribed(s) == Item("subscribed", s, 0)
Header(s, n)  == Item("header", s, n)      \* the first n blocks, replayed
Block(s, n)   == Item("block", s, n)
Ended(s)      == Item("ended", s, 0)       \* CAPTURE_ENDED or CAPTURE_STOPPED
Done          == Item("done", None, 0)
Close         == Item("close", None, 0)

Items == [kind : {"subscribed", "header", "block", "ended", "done", "close"},
          session : Session \cup {None}, n : 0..MaxBlocks]

NoFeed == [queue |-> <<>>, closing |-> FALSE]
FeedState == [queue : Seq(Items), closing : BOOLEAN]

TypeOK ==
  /\ handler \in [Socket -> {"gone", "idle", "starting", "subscribing", "unsubscribing",
                             "leaving"}]
  /\ wanted \in [Socket -> Session \cup {None}]
  /\ session_id \in [Socket -> Session \cup {None}]
  /\ sessions \in [Session -> Socket \cup {None}]
  /\ used \subseteq Session
  /\ framed \in [Socket -> 0..MaxBlocks]
  /\ subscribers \in [Socket -> SUBSET Socket]
  /\ subscribed_to \in [Socket -> Session \cup {None}]
  /\ feed \in [Socket -> FeedState]
  /\ \A w \in Socket : Len(feed[w].queue) <= QueueBlocks
  /\ got \in [Socket -> Seq(Items)]
  /\ sender \in [Socket -> {"none", "get", "sending", "closing"}]
  /\ serving \in [Socket -> Session \cup {None}]
  /\ cancelled \in [Socket -> BOOLEAN]
  /\ open \in [Socket -> BOOLEAN]
  /\ since \in [Socket -> 0..MaxBlocks]

Init ==
  /\ handler = [w \in Socket |-> "gone"]
  /\ wanted = [w \in Socket |-> None]
  /\ session_id = [w \in Socket |-> None]
  /\ sessions = [s \in Session |-> None]
  /\ used = {}
  /\ framed = [w \in Socket |-> 0]
  /\ subscribers = [w \in Socket |-> {}]
  /\ subscribed_to = [w \in Socket |-> None]
  /\ feed = [w \in Socket |-> NoFeed]
  /\ sender = [w \in Socket |-> "none"]
  /\ serving = [w \in Socket |-> None]
  /\ cancelled = [w \in Socket |-> FALSE]
  /\ open = [w \in Socket |-> FALSE]
  /\ got = [w \in Socket |-> <<>>]
  /\ since = [w \in Socket |-> 0]

-------------------------------------------------------------------------------
(* Helpers.                                                                *)

OfferDropsWhenFull(f, items) ==                                     \* mutant
  IF Len(f.queue) + Len(items) <= QueueBlocks THEN [f EXCEPT !.queue = @ \o items] ELSE f

(* put_nowait of several items: when one does not fit, the subscriber is too *)
(* slow and _close_subscription_queue replaces its backlog by a close        *)
Offer(f, items) ==
  IF Len(f.queue) + Len(items) <= QueueBlocks
  THEN [f EXCEPT !.queue = @ \o items]
  ELSE [queue |-> <<Close>>, closing |-> TRUE]

ClearKeepsSubscriber(w) ==                                          \* mutant
  /\ subscribed_to' = [subscribed_to EXCEPT ![w] = None]
  /\ feed' = [feed EXCEPT ![w] = NoFeed]
  /\ UNCHANGED subscribers

(* _clear_subscription without an expected session.  A queue given up this   *)
(* way is never read again: the task that holds it is cancelled or finished. *)
ClearSubscription(w) ==
  /\ subscribed_to' = [subscribed_to EXCEPT ![w] = None]
  /\ feed' = [feed EXCEPT ![w] = NoFeed]
  /\ subscribers' = [o \in Socket |->
       IF subscribed_to[w] # None /\ sessions[subscribed_to[w]] = o
       THEN subscribers[o] \ {w} ELSE subscribers[o]]

(* _detach_subscriber up to the await of the old task *)
Detach(w) ==
  /\ ClearSubscription(w)
  /\ cancelled' = [cancelled EXCEPT ![w] = sender[w] # "none"]

(* The finally block of _send_subscription: only its own subscription *)
SenderFinishes(w) ==
  /\ IF subscribed_to[w] = serving[w] THEN ClearSubscription(w)
     ELSE UNCHANGED <<subscribed_to, feed, subscribers>>
  /\ sender' = [sender EXCEPT ![w] = "none"]
  /\ serving' = [serving EXCEPT ![w] = None]
  /\ cancelled' = [cancelled EXCEPT ![w] = FALSE]
  /\ got' = [got EXCEPT ![w] = <<>>]
  /\ since' = [since EXCEPT ![w] = 0]

-------------------------------------------------------------------------------
(* The socket's handler.                                                   *)

Connect(w) ==
  /\ handler[w] = "gone"
  /\ handler' = [handler EXCEPT ![w] = "idle"]
  /\ open' = [open EXCEPT ![w] = TRUE]
  /\ UNCHANGED <<wanted, ownerVars, subscribers, subscribed_to, feed, sender, serving,
                 cancelled, got, since>>

(* start_streaming passed its checks and awaits *)
BeginStart(w) ==
  /\ handler[w] = "idle"
  /\ subscribed_to[w] = None       \* else SUBSCRIBER_READ_ONLY
  /\ session_id[w] = None          \* else CAPTURE_ALREADY_RUNNING
  /\ handler' = [handler EXCEPT ![w] = "starting"]
  /\ UNCHANGED <<wanted, ownerVars, subscribers, subscribed_to, feed, cancelled, senderVars>>

(* the session is registered *)
StartSession(w, s) ==
  /\ handler[w] = "starting"
  /\ s \notin used
  /\ used' = used \cup {s}
  /\ session_id' = [session_id EXCEPT ![w] = s]
  /\ sessions' = [sessions EXCEPT ![s] = w]
  /\ framed' = [framed EXCEPT ![w] = 0]
  /\ handler' = [handler EXCEPT ![w] = "idle"]
  /\ UNCHANGED <<wanted, subscribers, subscribed_to, feed, cancelled, senderVars>>

StartFails(w) ==
  /\ handler[w] = "starting"
  /\ handler' = [handler EXCEPT ![w] = "idle"]
  /\ UNCHANGED <<wanted, ownerVars, subscribers, subscribed_to, feed, cancelled, senderVars>>

(* subscribe, up to the await of the previous subscription's task *)
Subscribe(w, s) ==
  /\ handler[w] = "idle"
  /\ sessions[s] # None            \* else SESSION_NOT_FOUND
  /\ session_id[w] = None          \* else SESSION_IS_OWN
  /\ Detach(w)
  /\ wanted' = [wanted EXCEPT ![w] = s]
  /\ handler' = [handler EXCEPT ![w] = "subscribing"]
  /\ UNCHANGED <<ownerVars, senderVars>>

NoHeader(o) == 0                                                    \* mutant

(* the pcapng_header accumulated so far, in blocks *)
HeaderBlocks(o) == IF framed[o] < HeaderLen THEN framed[o] ELSE HeaderLen

HasRoom(o) == Cardinality(subscribers[o]) < MaxSubscribers

(* the rest of subscribe: the session may be gone or full by now *)
Attach(w) ==
  LET s == wanted[w]
      o == sessions[s]
      header == HeaderBlocks(o)
  IN
  /\ handler[w] = "subscribing"
  /\ sender[w] = "none"
  /\ handler' = [handler EXCEPT ![w] = "idle"]
  /\ wanted' = [wanted EXCEPT ![w] = None]
  /\ UNCHANGED <<ownerVars, cancelled, open, got>>
  /\ IF o # None /\ HasRoom(o)
     THEN /\ subscribed_to' = [subscribed_to EXCEPT ![w] = s]
          /\ feed' = [feed EXCEPT ![w] =
               [queue |-> IF header = 0 THEN <<Subscribed(s)>>
                          ELSE <<Subscribed(s), Header(s, header)>>,
                closing |-> FALSE]]
          /\ subscribers' = [subscribers EXCEPT ![o] = @ \cup {w}]
          /\ sender' = [sender EXCEPT ![w] = "get"]
          /\ serving' = [serving EXCEPT ![w] = s]
          /\ since' = [since EXCEPT ![w] = framed[o]]
     ELSE UNCHANGED <<subscribed_to, feed, subscribers, sender, serving, since>>

Unsubscribe(w) ==
  /\ handler[w] = "idle"
  /\ subscribed_to[w] # None
  /\ Detach(w)
  /\ handler' = [handler EXCEPT ![w] = "unsubscribing"]
  /\ UNCHANGED <<wanted, ownerVars, senderVars>>

Unsubscribed(w) ==
  /\ handler[w] = "unsubscribing"
  /\ sender[w] = "none"
  /\ handler' = [handler EXCEPT ![w] = "idle"]
  /\ UNCHANGED <<wanted, ownerVars, subscribers, subscribed_to, feed, cancelled, senderVars>>

(* disconnect, up to the await of the subscription's task *)
Disconnect(w) ==
  /\ handler[w] \in {"idle", "starting"}
  /\ Detach(w)
  /\ handler' = [handler EXCEPT ![w] = "leaving"]
  /\ UNCHANGED <<wanted, ownerVars, senderVars>>

(* the rest of disconnect: stop_streaming ended the session, the client is popped *)
Gone(w) ==
  /\ handler[w] = "leaving"
  /\ sender[w] = "none"
  /\ session_id[w] = None
  /\ handler' = [handler EXCEPT ![w] = "gone"]
  /\ open' = [open EXCEPT ![w] = FALSE]
  /\ UNCHANGED <<wanted, ownerVars, subscribers, subscribed_to, feed, cancelled, sender,
                 serving, got, since>>

-------------------------------------------------------------------------------
(* The owner's stream() task and its stop.                                 *)

(* _broadcast_chunk after the owner's copy was sent: every complete block    *)
(* goes to every subscriber of this session that is keeping up               *)
Broadcast(o, k) ==
  LET s == session_id[o]
      blocks == [j \in 1..k |-> Block(s, framed[o] + j)]
      live == {w \in subscribers[o] : subscribed_to[w] = s /\ ~feed[w].closing}
      fed == [w \in Socket |-> IF w \in live THEN Offer(feed[w], blocks) ELSE feed[w]]
  IN
  /\ s # None
  /\ framed[o] + k <= MaxBlocks
  /\ framed' = [framed EXCEPT ![o] = @ + k]
  /\ feed' = fed
  /\ subscribers' = [subscribers EXCEPT ![o] = {w \in live : ~fed[w].closing}]
  /\ UNCHANGED <<handler, wanted, session_id, sessions, used, subscribed_to, cancelled,
                 senderVars>>

NoDone(s) == <<Ended(s)>>                                           \* mutant

(* what _end_session queues for each subscriber *)
EndItems(s) == <<Ended(s), Done>>

(* _end_session, run by stream() or by stop_streaming *)
EndSession(o) ==
  LET s == session_id[o]
      told == {w \in subscribers[o] : subscribed_to[w] = s /\ ~feed[w].closing}
  IN
  /\ s # None
  /\ session_id' = [session_id EXCEPT ![o] = None]
  /\ sessions' = [sessions EXCEPT ![s] = None]
  /\ framed' = [framed EXCEPT ![o] = 0]
  /\ feed' = [w \in Socket |-> IF w \in told THEN Offer(feed[w], EndItems(s))
                                             ELSE feed[w]]
  /\ subscribers' = [subscribers EXCEPT ![o] = {}]
  /\ UNCHANGED <<handler, wanted, used, subscribed_to, cancelled, senderVars>>

-------------------------------------------------------------------------------
(* _send_subscription of a subscriber.                                     *)

(* queue.get returned: send the item, or finish on "done" *)
SenderTakes(w) ==
  LET item == Head(feed[w].queue) IN
  /\ sender[w] = "get" /\ ~cancelled[w]
  /\ feed[w].queue # <<>>
  /\ IF item.kind = "done"
     THEN /\ SenderFinishes(w)
          /\ UNCHANGED open
     ELSE /\ feed' = [feed EXCEPT ![w].queue = Tail(@)]
          /\ sender' = [sender EXCEPT ![w] = IF item.kind = "close" THEN "closing"
                                                                    ELSE "sending"]
          /\ got' = [got EXCEPT ![w] = IF open[w] THEN Append(@, item) ELSE @]
          /\ open' = [open EXCEPT ![w] = @ /\ item.kind # "close"]
          /\ UNCHANGED <<subscribed_to, subscribers, serving, cancelled, since>>
  /\ UNCHANGED <<handler, wanted, ownerVars>>

SenderSent(w) ==
  /\ sender[w] = "sending" /\ open[w] /\ ~cancelled[w]
  /\ sender' = [sender EXCEPT ![w] = "get"]
  /\ UNCHANGED <<handler, wanted, ownerVars, subscribers, subscribed_to, feed, serving,
                 cancelled, open, got, since>>

(* the send took longer than _SUBSCRIBER_SEND_TIMEOUT_SEC *)
SenderTimesOut(w) ==
  /\ sender[w] = "sending" /\ open[w] /\ ~cancelled[w]
  /\ sender' = [sender EXCEPT ![w] = "closing"]
  /\ open' = [open EXCEPT ![w] = FALSE]
  /\ got' = [got EXCEPT ![w] = Append(@, Close)]
  /\ UNCHANGED <<handler, wanted, ownerVars, subscribers, subscribed_to, feed, serving,
                 cancelled, since>>

(* the close was sent or timed out, the send failed, or the task was cancelled *)
SenderEnds(w) ==
  /\ \/ sender[w] = "closing"
     \/ sender[w] = "sending"
     \/ sender[w] = "get" /\ cancelled[w]
  /\ SenderFinishes(w)
  /\ UNCHANGED <<handler, wanted, ownerVars, open>>

-------------------------------------------------------------------------------
HandlerStep(w) == Attach(w) \/ Unsubscribed(w) \/ Gone(w)
SenderStep(w)  == SenderTakes(w) \/ SenderSent(w) \/ SenderTimesOut(w) \/ SenderEnds(w)

Next ==
  \E w \in Socket :
    \/ Connect(w) \/ BeginStart(w) \/ StartFails(w) \/ Unsubscribe(w) \/ Disconnect(w)
    \/ HandlerStep(w) \/ SenderStep(w) \/ EndSession(w)
    \/ \E s \in Session : StartSession(w, s) \/ Subscribe(w, s)
    \/ \E k \in 1..MaxChunk : Broadcast(w, k)

Spec == Init /\ [][Next]_vars

(* The event loop runs ready coroutines; a send ends within its timeout.     *)
(* The session of a leaving owner is ended by its stop_streaming.            *)
Fairness == \A w \in Socket : /\ WF_vars(HandlerStep(w)) /\ WF_vars(SenderStep(w))
                              /\ WF_vars(handler[w] = "leaving" /\ EndSession(w))

FairSpec == Spec /\ Fairness

-------------------------------------------------------------------------------
(* Properties.                                                             *)

(* The header blocks a subscription starts with, and the j-th item it is sent *)
(* after SUBSCRIBED                                                          *)
Replayed(w) == IF since[w] < HeaderLen THEN since[w] ELSE HeaderLen
Expected(w, s, j) ==
  IF Replayed(w) = 0 THEN Block(s, since[w] + j)
  ELSE IF j = 1 THEN Header(s, Replayed(w)) ELSE Block(s, since[w] + j - 1)

(* a subscription starts with SUBSCRIBED, unless evicted before; what         *)
(* follows ENDED is a close at most, and nothing follows a close              *)
EndIsFinal(w) ==
  \A j \in 1..Len(got[w]) :
    /\ got[w][j].kind = "subscribed" => j = 1
    /\ j = 1 => got[w][j].kind \in {"subscribed", "close"}
    /\ got[w][j].kind = "close" => j = Len(got[w])
    /\ got[w][j].kind = "ended" => \A k \in j+1..Len(got[w]) : got[w][k].kind = "close"

(* A subscriber can decode what it gets (_pcapng_blocks, subscribe): the     *)
(* header so far, then every later block of that one session, in order, with *)
(* nothing lost, repeated or mixed in, up to the point where it is cut off,  *)
(* and no data after it was told that the session ended.                     *)
FeedIsExact ==
  \A w \in Socket :
    /\ EndIsFinal(w)
    /\ \A j \in 1..Len(got[w]) : got[w][j].kind \in {"header", "block"} =>
         got[w][j] = Expected(w, got[w][1].session, j - 1)

(* A subscriber that was not evicted misses nothing: what was sent and what  *)
(* is queued reach up to the last block framed (no silent drop).             *)
NoSilentDrop ==
  \A w \in Socket, s \in Session :
    subscribed_to[w] = s /\ sessions[s] # None /\ ~feed[w].closing /\ open[w] =>
      LET told == got[w] \o feed[w].queue IN
        /\ Len(told) = 1 + (framed[sessions[s]] - since[w]) + (IF Replayed(w) = 0 THEN 0 ELSE 1)
        /\ \A j \in 2..Len(told) : told[j] = Expected(w, s, j - 1)

(* client["subscribers"] and client["subscribed_to"] name each other         *)
BothSidesAgree ==
  \A s \in Session : sessions[s] # None =>
    subscribers[sessions[s]] =
      {w \in Socket : subscribed_to[w] = s /\ ~feed[w].closing}

(* The limit that bounds the memory of stalled subscribers counts every      *)
(* queue that can still grow, resubscriptions and evictions included.        *)
SubscriberLimit ==
  \A s \in Session :
    Cardinality({w \in Socket : /\ subscribed_to[w] = s /\ sessions[s] # None
                                /\ ~feed[w].closing}) <= MaxSubscribers

(* A socket is never owner and subscriber at once, although the two guards   *)
(* (SUBSCRIBER_READ_ONLY, SESSION_IS_OWN) are tested before an await.        *)
NeverOwnerAndSubscriber ==
  \A w \in Socket : session_id[w] # None => subscribed_to[w] = None /\ sender[w] = "none"

(* A popped client is in nobody's subscriber set and runs no sender task.    *)
GoneIsForgotten ==
  \A w \in Socket : handler[w] = "gone" =>
    /\ sender[w] = "none" /\ subscribed_to[w] = None /\ session_id[w] = None
    /\ \A o \in Socket : w \notin subscribers[o]

(* client["subscribers"] of a session's owner and client["subscribed_to"] of *)
(* its listeners are kept by different tasks and always agree, within the    *)
(* limit, for sockets that change roles, and after a socket has gone.        *)
SubscribersAgree ==
  BothSidesAgree /\ SubscriberLimit /\ NeverOwnerAndSubscriber /\ GoneIsForgotten

(* A subscriber of a session that ended, and one that was evicted, is        *)
(* detached: it can subscribe elsewhere or start a capture of its own.       *)
EndedSessionDetaches ==
  \A w \in Socket, s \in Session :
    subscribed_to[w] = s /\ (sessions[s] = None \/ feed[w].closing)
      ~> subscribed_to[w] # s \/ (sessions[s] # None /\ ~feed[w].closing)
===============================================================================
