--------------------------- MODULE CaptureFeedProofs ---------------------------
(***************************************************************************)
(* Proofs about the subscribers of a capture, for any number of sockets,   *)
(* sessions, blocks and any queue size.  The inductive invariant is        *)
(* FeedInvariant: which client is in which role, and, for every            *)
(* subscription, what was sent and what is queued, as one sequence.        *)
(***************************************************************************)
EXTENDS CaptureFeed, FiniteSetTheorems, SequenceTheorems, TLAPS

(* The directory and the clients' own records are of the same sessions       *)
DirectoryIsCurrent ==
  /\ \A s \in Session : sessions[s] # None => session_id[sessions[s]] = s /\ s \in used
  /\ \A o \in Socket : session_id[o] # None => sessions[session_id[o]] = o
  /\ \A o \in Socket : session_id[o] = None => subscribers[o] = {}

Detaching == {"subscribing", "unsubscribing", "leaving"}

(* A client is the owner of a session, a subscriber, or neither              *)
Roles ==
  \A w \in Socket :
    /\ handler[w] = "subscribing" => wanted[w] \in Session
    /\ handler[w] \in {"gone", "starting"} \cup Detaching => subscribed_to[w] = None
    /\ handler[w] \in {"gone", "starting", "subscribing"} => session_id[w] = None
    /\ session_id[w] # None => subscribed_to[w] = None /\ sender[w] = "none"
    /\ cancelled[w] => handler[w] \in Detaching /\ sender[w] # "none"

(* A sender task is that of the subscription, or is cancelled                *)
Senders ==
  \A w \in Socket :
    /\ subscribed_to[w] # None =>
         sender[w] # "none" /\ serving[w] = subscribed_to[w] /\ subscribed_to[w] \in used
    /\ subscribed_to[w] = None => feed[w] = NoFeed
    /\ IF sender[w] = "none" THEN serving[w] = None /\ got[w] = <<>>
       ELSE serving[w] # None /\ (cancelled[w] \/ subscribed_to[w] # None)
    /\ sender[w] = "closing" => ~open[w]

WithinLimit ==
  \A o \in Socket : IsFiniteSet(subscribers[o]) /\ Cardinality(subscribers[o]) <= MaxSubscribers

(* What a subscription was sent and what it will be, so far                  *)
Story(w) == got[w] \o feed[w].queue

(* The j-th item after SUBSCRIBED that a subscription of session s is due,   *)
(* when n blocks were framed before it                                       *)
Start(n) == IF n < HeaderLen THEN n ELSE HeaderLen
Due(n, s, j) ==
  IF Start(n) = 0 THEN Block(s, n + j)
  ELSE IF j = 1 THEN Header(s, Start(n)) ELSE Block(s, n + j - 1)

(* q tells session s from there exactly, up to an end or a close             *)
Exact(n, s, q) ==
  /\ Len(q) > 0 => q[1] \in {Subscribed(s), Close}
  /\ \A j \in 2..Len(q) : q[j] \in {Due(n, s, j - 1), Ended(s), Done, Close}
  /\ \A j \in 1..Len(q) : q[j].kind = "close" => j = Len(q)
  /\ \A j, k \in 1..Len(q) : j < k /\ q[j].kind = "ended" => q[k].kind \in {"done", "close"}

(* ... and misses nothing of the f blocks that were framed                   *)
Complete(n, f, s, q) ==
  /\ n <= f
  /\ Len(q) = 1 + (f - n) + (IF Start(n) = 0 THEN 0 ELSE 1)
  /\ Len(q) > 0 /\ q[1] = Subscribed(s)
  /\ \A j \in 2..Len(q) : q[j] = Due(n, s, j - 1)

(* The subscription of w is told its session's story                         *)
Telling(w) ==
  /\ \A j \in 1..Len(got[w]) : got[w][j].kind # "done" /\ (open[w] => got[w][j].kind # "close")
  /\ sender[w] # "none" => Exact(since[w], serving[w], got[w])
  /\ sender[w] \in {"get", "sending"} =>
       IF open[w] THEN Exact(since[w], serving[w], Story(w)) ELSE got[w] = <<>>
  /\ \A s \in Session :
       subscribed_to[w] = s /\ sessions[s] # None /\ ~feed[w].closing /\ open[w] =>
         Complete(since[w], framed[sessions[s]], s, Story(w))

Stories == \A w \in Socket : Telling(w)

RoleInvariant ==
  TypeOK /\ DirectoryIsCurrent /\ Roles /\ Senders /\ BothSidesAgree /\ WithinLimit

FeedInvariant == RoleInvariant /\ Stories

RoleParts == DirectoryIsCurrent /\ Roles /\ Senders /\ BothSidesAgree

-------------------------------------------------------------------------------
(* Roles.                                                                  *)

LEMMA RolesInit == Init => RoleInvariant
<1> SUFFICES ASSUME Init PROVE RoleInvariant
  OBVIOUS
<1>1. TypeOK
  <2>1. NoFeed \in FeedState /\ Len(NoFeed.queue) = 0 /\ <<>> \in Seq(Items)
    BY DEF NoFeed, FeedState
  <2> QED BY <2>1, FeedAssumption DEF Init, TypeOK
<1>2. DirectoryIsCurrent /\ Roles /\ Senders /\ BothSidesAgree
  BY FeedAssumption DEF Init, DirectoryIsCurrent, Roles, Senders, BothSidesAgree, Detaching
<1>3. WithinLimit
  BY FS_EmptySet, FeedAssumption DEF Init, WithinLimit
<1> QED BY <1>1, <1>2, <1>3 DEF RoleInvariant

(* A client whose handler does not wait for its sender task has one only as  *)
(* a subscriber                                                              *)
LEMMA SenderMeansSubscriber ==
  ASSUME Roles, Senders, NEW w \in Socket, handler[w] \notin Detaching, sender[w] # "none"
  PROVE  subscribed_to[w] # None /\ serving[w] = subscribed_to[w] /\ ~cancelled[w]
BY DEF Roles, Senders

(* The first half of a command that gives up a subscription                  *)
LEMMA DetachRoles ==
  ASSUME RoleInvariant, NEW w \in Socket, Detach(w), handler[w] \in {"idle", "starting"},
         NEW h \in Detaching, handler' = [handler EXCEPT ![w] = h],
         h = "subscribing" => session_id[w] = None /\ wanted'[w] \in Session,
         \A v \in Socket \ {w} : wanted'[v] = wanted[v],
         UNCHANGED <<ownerVars, senderVars>>
  PROVE  RoleParts'
<1> USE FeedAssumption DEF RoleInvariant, RoleParts, TypeOK, DirectoryIsCurrent, Roles, Senders,
        BothSidesAgree, Detaching, ownerVars, senderVars
<1>1. /\ subscribed_to' = [subscribed_to EXCEPT ![w] = None]
      /\ feed' = [feed EXCEPT ![w] = NoFeed]
      /\ cancelled' = [cancelled EXCEPT ![w] = sender[w] # "none"]
      /\ subscribers' = [o \in Socket |->
           IF subscribed_to[w] # None /\ sessions[subscribed_to[w]] = o
           THEN subscribers[o] \ {w} ELSE subscribers[o]]
  BY DEF Detach, ClearSubscription
<1>2. DirectoryIsCurrent'
  BY <1>1
<1>3. Roles'
  BY <1>1
<1>4. Senders'
  BY <1>1
<1>5. BothSidesAgree'
  BY <1>1
<1> QED BY <1>2, <1>3, <1>4, <1>5

LEMMA HandlerStepRoles ==
  ASSUME RoleInvariant, NEW w \in Socket,
         \/ Connect(w) \/ BeginStart(w) \/ StartFails(w) \/ Unsubscribe(w) \/ Disconnect(w)
         \/ Unsubscribed(w) \/ Gone(w) \/ \E s \in Session : StartSession(w, s) \/ Subscribe(w, s)
  PROVE  RoleParts'
<1> USE FeedAssumption DEF RoleInvariant, RoleParts, TypeOK, DirectoryIsCurrent, Roles, Senders,
        BothSidesAgree, Detaching, ownerVars, senderVars
<1>1. CASE Connect(w)
  <2>1. handler[w] = "gone" /\ sender[w] = "none"
    BY <1>1, SenderMeansSubscriber DEF Connect
  <2>2. Senders'
    BY <1>1, <2>1 DEF Connect
  <2> QED BY <1>1, <2>2 DEF Connect
<1>2. CASE BeginStart(w) \/ StartFails(w) \/ Unsubscribed(w)
  BY <1>2 DEF BeginStart, StartFails, Unsubscribed
<1>3. CASE Gone(w)
  BY <1>3 DEF Gone
<1>4. CASE Unsubscribe(w)
  BY <1>4, DetachRoles DEF Unsubscribe
<1>5. CASE Disconnect(w)
  BY <1>5, DetachRoles DEF Disconnect
<1>6. ASSUME NEW s \in Session, StartSession(w, s)
      PROVE  RoleParts'
  BY <1>6 DEF StartSession
<1>7. ASSUME NEW s \in Session, Subscribe(w, s)
      PROVE  RoleParts'
  <2>1. /\ Detach(w) /\ handler[w] = "idle" /\ session_id[w] = None
        /\ handler' = [handler EXCEPT ![w] = "subscribing"] /\ wanted' = [wanted EXCEPT ![w] = s]
        /\ UNCHANGED <<ownerVars, senderVars>>
    BY <1>7 DEF Subscribe
  <2>2. wanted'[w] = s /\ \A v \in Socket \ {w} : wanted'[v] = wanted[v]
    BY <2>1
  <2> HIDE DEF RoleInvariant, RoleParts
  <2> QED BY <2>1, <2>2, DetachRoles
<1> HIDE DEF RoleInvariant, RoleParts
<1> QED BY <1>1, <1>2, <1>3, <1>4, <1>5, <1>6, <1>7

(* What Attach does when the session is there and has room                   *)
Attached(w, s, o) ==
  /\ o \in Socket /\ sessions[s] = o /\ HasRoom(o)
  /\ subscribed_to' = [subscribed_to EXCEPT ![w] = s]
  /\ feed' = [feed EXCEPT ![w] =
       [queue |-> IF HeaderBlocks(o) = 0 THEN <<Subscribed(s)>>
                  ELSE <<Subscribed(s), Header(s, HeaderBlocks(o))>>,
        closing |-> FALSE]]
  /\ subscribers' = [subscribers EXCEPT ![o] = @ \cup {w}]
  /\ sender' = [sender EXCEPT ![w] = "get"]
  /\ serving' = [serving EXCEPT ![w] = s]
  /\ since' = [since EXCEPT ![w] = framed[o]]

LEMMA AttachCases ==
  ASSUME TypeOK, Roles, NEW w \in Socket, Attach(w)
  PROVE  /\ wanted[w] \in Session /\ handler[w] = "subscribing" /\ sender[w] = "none"
         /\ \/ Attached(w, wanted[w], sessions[wanted[w]])
            \/ UNCHANGED <<subscribed_to, feed, subscribers, sender, serving, since>>
         /\ handler' = [handler EXCEPT ![w] = "idle"] /\ wanted' = [wanted EXCEPT ![w] = None]
         /\ UNCHANGED <<session_id, sessions, used, framed, cancelled, open, got>>
BY DEF Attach, Attached, Roles, TypeOK, ownerVars

LEMMA AttachRoles ==
  ASSUME RoleInvariant, NEW w \in Socket, Attach(w)
  PROVE  RoleParts'
<1> USE FeedAssumption DEF RoleInvariant, RoleParts, TypeOK, DirectoryIsCurrent, Roles, Senders,
        BothSidesAgree, Detaching
<1> DEFINE s == wanted[w]
           o == sessions[s]
<1>1. /\ s \in Session /\ handler[w] = "subscribing" /\ sender[w] = "none"
      /\ Attached(w, s, o)
           \/ UNCHANGED <<subscribed_to, feed, subscribers, sender, serving, since>>
      /\ handler' = [handler EXCEPT ![w] = "idle"] /\ wanted' = [wanted EXCEPT ![w] = None]
      /\ UNCHANGED <<session_id, sessions, used, framed, cancelled, open, got>>
  BY AttachCases
<1>2. CASE UNCHANGED <<subscribed_to, feed, subscribers, sender, serving, since>>
  BY <1>1, <1>2
<1>3. CASE Attached(w, s, o)
  <2>1. session_id[o] = s /\ s \in used /\ o # w /\ ~cancelled[w] /\ s # None
    BY <1>1, <1>3 DEF Attached
  <2>2. /\ subscribed_to' = [subscribed_to EXCEPT ![w] = s]
        /\ subscribers' = [subscribers EXCEPT ![o] = @ \cup {w}]
        /\ sender' = [sender EXCEPT ![w] = "get"] /\ serving' = [serving EXCEPT ![w] = s]
        /\ feed'[w].closing = FALSE /\ \A v \in Socket \ {w} : feed'[v] = feed[v]
        /\ o \in Socket
    BY <1>3 DEF Attached
  <2> HIDE DEF s, o
  <2>3. DirectoryIsCurrent'
    BY <1>1, <2>1, <2>2
  <2>4. Roles' /\ Senders'
    BY <1>1, <2>1, <2>2
  <2>5. BothSidesAgree'
    BY <1>1, <2>1, <2>2
  <2> QED BY <2>3, <2>4, <2>5
<1> QED BY <1>1, <1>2, <1>3

LEMMA FinishRoles ==
  ASSUME RoleInvariant, NEW w \in Socket, SenderFinishes(w), sender[w] # "none",
         UNCHANGED <<handler, wanted, ownerVars, open>>
  PROVE  RoleParts'
<1> USE FeedAssumption DEF RoleInvariant, RoleParts, TypeOK, DirectoryIsCurrent, Roles, Senders,
        BothSidesAgree, Detaching, ownerVars
<1>1. /\ sender' = [sender EXCEPT ![w] = "none"] /\ serving' = [serving EXCEPT ![w] = None]
      /\ cancelled' = [cancelled EXCEPT ![w] = FALSE] /\ got' = [got EXCEPT ![w] = <<>>]
  BY DEF SenderFinishes
<1>2. CASE subscribed_to[w] = None
  <2>1. UNCHANGED <<subscribed_to, feed, subscribers>>
    BY <1>2 DEF SenderFinishes
  <2> QED BY <1>1, <1>2, <2>1
<1>3. CASE subscribed_to[w] # None
  <2>1. ClearSubscription(w)
    BY <1>3 DEF SenderFinishes
  <2>2. /\ subscribed_to' = [subscribed_to EXCEPT ![w] = None]
        /\ feed' = [feed EXCEPT ![w] = NoFeed]
        /\ subscribers' = [o \in Socket |-> IF sessions[subscribed_to[w]] = o
                                            THEN subscribers[o] \ {w} ELSE subscribers[o]]
    BY <1>3, <2>1 DEF ClearSubscription
  <2>3. DirectoryIsCurrent'
    BY <1>1, <2>2
  <2>4. Roles' /\ Senders'
    BY <1>1, <2>2
  <2>5. BothSidesAgree'
    BY <1>1, <1>3, <2>2
  <2> QED BY <2>3, <2>4, <2>5
<1> QED BY <1>2, <1>3

LEMMA SenderStepRoles ==
  ASSUME RoleInvariant, NEW w \in Socket, SenderStep(w)
  PROVE  RoleParts'
<1> USE FeedAssumption DEF RoleInvariant, RoleParts, TypeOK, DirectoryIsCurrent, Roles, Senders,
        BothSidesAgree, Detaching, ownerVars
<1>1. CASE SenderSent(w) \/ SenderTimesOut(w)
  BY <1>1 DEF SenderSent, SenderTimesOut
<1>2. CASE SenderEnds(w)
  BY <1>2, FinishRoles DEF SenderEnds
<1>3. CASE SenderTakes(w)
  <2> DEFINE item == Head(feed[w].queue)
  <2>1. CASE item.kind = "done"
    BY <1>3, <2>1, FinishRoles DEF SenderTakes
  <2>2. CASE item.kind # "done"
    <3>1. /\ sender[w] = "get" /\ ~cancelled[w]
          /\ sender' = [sender EXCEPT ![w] = IF item.kind = "close" THEN "closing" ELSE "sending"]
          /\ open' = [open EXCEPT ![w] = @ /\ item.kind # "close"]
          /\ got' = [got EXCEPT ![w] = IF open[w] THEN Append(@, item) ELSE @]
          /\ UNCHANGED <<subscribed_to, subscribers, serving, cancelled, handler, wanted,
                         session_id, sessions, used>>
      BY <1>3, <2>2 DEF SenderTakes
    <3>2. feed' = [feed EXCEPT ![w].queue = Tail(@)]
      BY <1>3, <2>2 DEF SenderTakes
    <3>3. \A v \in Socket : feed'[v].closing = feed[v].closing /\ (v # w => feed'[v] = feed[v])
      BY <3>2 DEF FeedState
    <3>4. sender'[w] # "none" /\ (sender'[w] = "closing" => ~open'[w])
      BY <3>1
    <3> HIDE DEF item
    <3>5. DirectoryIsCurrent' /\ BothSidesAgree'
      BY <3>1, <3>3, ZenonT(60)
    <3>6. Roles'
      BY <3>1, <3>4
    <3>7. Senders'
      BY <3>1, <3>3, <3>4
    <3> QED BY <3>5, <3>6, <3>7
  <2> QED BY <2>1, <2>2
<1> QED BY <1>1, <1>2, <1>3 DEF SenderStep

LEMMA OwnerStepRoles ==
  ASSUME RoleInvariant, NEW o \in Socket, EndSession(o) \/ \E k \in 1..MaxChunk : Broadcast(o, k)
  PROVE  RoleParts'
<1> USE FeedAssumption DEF RoleInvariant, RoleParts, TypeOK, DirectoryIsCurrent, Roles, Senders,
        BothSidesAgree, Detaching, senderVars
<1>1. CASE EndSession(o)
  BY <1>1 DEF EndSession
<1>2. ASSUME NEW k \in 1..MaxChunk, Broadcast(o, k)
      PROVE  RoleParts'
  <2> DEFINE live == {w \in subscribers[o] :
                        subscribed_to[w] = session_id[o] /\ ~feed[w].closing}
  <2>1. /\ session_id[o] # None
        /\ \A w \in Socket \ live : feed'[w] = feed[w]
        /\ subscribers' = [subscribers EXCEPT ![o] = {w \in live : ~feed'[w].closing}]
    BY <1>2 DEF Broadcast
  <2>2. UNCHANGED <<handler, wanted, session_id, sessions, used, subscribed_to, cancelled, senderVars>>
    BY <1>2 DEF Broadcast
  <2>3. DirectoryIsCurrent'
    BY <2>1, <2>2
  <2>4. Roles'
    BY <2>2
  <2>5. Senders'
    BY <2>1, <2>2
  <2>6. BothSidesAgree'
    BY <2>1, <2>2
  <2> QED BY <2>3, <2>4, <2>5, <2>6
<1> QED BY <1>1, <1>2

-------------------------------------------------------------------------------
(* Types, and the limit on subscribers.                                    *)

LEMMA ItemsOK ==
  /\ Close \in Items /\ Done \in Items
  /\ \A s \in Session : Subscribed(s) \in Items /\ Ended(s) \in Items
  /\ \A s \in Session, n \in 0..MaxBlocks : Header(s, n) \in Items /\ Block(s, n) \in Items
<1>1. 0 \in 0..MaxBlocks
  BY FeedAssumption
<1> QED BY <1>1 DEF Items, Close, Done, Subscribed, Ended, Header, Block, Item

(* What fits is queued at the end; otherwise a close replaces the backlog    *)
LEMMA OfferOK ==
  ASSUME NEW f \in FeedState, Len(f.queue) <= QueueBlocks, NEW items \in Seq(Items),
         NEW g, g = Offer(f, items)
  PROVE  /\ g \in FeedState /\ Len(g.queue) <= QueueBlocks
         /\ \/ g.queue = f.queue \o items /\ g.closing = f.closing
            \/ g.queue = <<Close>> /\ g.closing
<1>1. f.queue \in Seq(Items) /\ f.closing \in BOOLEAN
  BY DEF FeedState
<1>2. CASE Len(f.queue) + Len(items) <= QueueBlocks
  <2>1. g = [f EXCEPT !.queue = f.queue \o items]
    BY <1>2 DEF Offer
  <2>2. f.queue \o items \in Seq(Items) /\ Len(f.queue \o items) = Len(f.queue) + Len(items)
    BY <1>1, ConcatProperties
  <2> DEFINE q == f.queue \o items
  <2> HIDE DEF q
  <2>3. g \in FeedState /\ g.queue = q /\ g.closing = f.closing
    BY <2>1, <2>2 DEF FeedState, q
  <2> QED BY <1>2, <2>2, <2>3 DEF q
<1>3. CASE ~(Len(f.queue) + Len(items) <= QueueBlocks)
  <2>1. g = [queue |-> <<Close>>, closing |-> TRUE]
    BY <1>3 DEF Offer
  <2>2. <<Close>> \in Seq(Items) /\ Len(<<Close>>) = 1
    BY ItemsOK
  <2>3. Len(<<Close>>) <= QueueBlocks
    BY <2>2, FeedAssumption
  <2> DEFINE q == <<Close>>
  <2> HIDE DEF q
  <2>4. g \in FeedState /\ g.queue = q /\ g.closing = TRUE
    BY <2>1, <2>2 DEF FeedState, q
  <2> QED BY <2>3, <2>4 DEF q
<1> QED BY <1>2, <1>3

LEMMA TakeOK ==
  ASSUME NEW q \in Seq(Items), q # <<>>, NEW g \in Seq(Items)
  PROVE  /\ Head(q) \in Items /\ Tail(q) \in Seq(Items) /\ Len(Tail(q)) = Len(q) - 1
         /\ Append(g, Head(q)) \in Seq(Items)
         /\ Append(g, Head(q)) \o Tail(q) = g \o q
<1>1. /\ Head(q) \in Items /\ Tail(q) \in Seq(Items) /\ Len(Tail(q)) = Len(q) - 1
      /\ Len(q) \in Nat \ {0} /\ Head(q) = q[1]
      /\ \A i \in 1..Len(Tail(q)) : Tail(q)[i] = q[i + 1]
  BY HeadTailProperties, EmptySeq
<1>2. /\ Append(g, Head(q)) \in Seq(Items) /\ Len(Append(g, Head(q))) = Len(g) + 1
      /\ \A i \in 1..Len(g) : Append(g, Head(q))[i] = g[i]
      /\ Append(g, Head(q))[Len(g) + 1] = Head(q)
  BY <1>1, AppendProperties
<1> DEFINE a == Append(g, Head(q))
           t == Tail(q)
<1> HIDE DEF a, t
<1>3. /\ a \o t \in Seq(Items) /\ Len(a \o t) = Len(a) + Len(t)
      /\ \A i \in 1..Len(a) + Len(t) : (a \o t)[i] = IF i <= Len(a) THEN a[i] ELSE t[i - Len(a)]
  BY <1>1, <1>2, ConcatProperties DEF a, t
<1>4. /\ g \o q \in Seq(Items) /\ Len(g \o q) = Len(g) + Len(q)
      /\ \A i \in 1..Len(g) + Len(q) : (g \o q)[i] = IF i <= Len(g) THEN g[i] ELSE q[i - Len(g)]
  BY ConcatProperties
<1>5. Len(g) \in Nat
  BY LenProperties
<1>6. /\ Len(a) = Len(g) + 1 /\ Len(t) = Len(q) - 1 /\ Len(q) \in Nat
      /\ \A i \in 1..Len(g) : a[i] = g[i]
      /\ a[Len(g) + 1] = q[1]
      /\ \A i \in 1..Len(t) : t[i] = q[i + 1]
  BY <1>1, <1>2 DEF a, t
<1>7. Len(a \o t) = Len(g \o q)
  BY <1>3, <1>4, <1>5, <1>6
<1>8. ASSUME NEW i \in 1..Len(a \o t)
      PROVE  (a \o t)[i] = (g \o q)[i]
  <2>1. i \in 1..Len(a) + Len(t) /\ i \in 1..Len(g) + Len(q)
    BY <1>3, <1>4, <1>7, <1>8
  <2>2. (a \o t)[i] = (IF i <= Len(a) THEN a[i] ELSE t[i - Len(a)])
        /\ (g \o q)[i] = (IF i <= Len(g) THEN g[i] ELSE q[i - Len(g)])
    BY <1>3, <1>4, <2>1
  <2>3. CASE i <= Len(g)
    BY <1>5, <1>6, <2>1, <2>2, <2>3
  <2>4. CASE i = Len(g) + 1
    BY <1>5, <1>6, <2>1, <2>2, <2>4
  <2>5. CASE i > Len(g) + 1
    <3>1. i - Len(a) \in 1..Len(t) /\ (i - Len(a)) + 1 = i - Len(g)
      BY <1>5, <1>6, <2>1, <2>5
    <3> QED BY <1>5, <1>6, <2>1, <2>2, <2>5, <3>1, SMTT(30)
  <2> QED BY <1>5, <2>1, <2>3, <2>4, <2>5
<1>9. a \o t = g \o q
  BY <1>3, <1>4, <1>7, <1>8, SeqEqual
<1> QED BY <1>1, <1>2, <1>9 DEF a, t

(* What the owner's tasks make of the feeds                                  *)
Fed(o, told, items) ==
  /\ feed' = [w \in Socket |-> IF w \in told THEN Offer(feed[w], items) ELSE feed[w]]
  /\ told = {w \in subscribers[o] : subscribed_to[w] = session_id[o] /\ ~feed[w].closing}
  /\ items \in Seq(Items)

LEMMA FedFeeds ==
  ASSUME TypeOK, NEW o \in Socket, NEW told, NEW items, Fed(o, told, items)
  PROVE  /\ feed' \in [Socket -> FeedState]
         /\ \A w \in Socket : Len(feed'[w].queue) <= QueueBlocks
<1>1. /\ feed \in [Socket -> FeedState] /\ items \in Seq(Items)
      /\ \A w \in Socket : feed[w] \in FeedState /\ Len(feed[w].queue) <= QueueBlocks
  BY DEF TypeOK, Fed
<1>2. \A w \in Socket :
         Offer(feed[w], items) \in FeedState /\ Len(Offer(feed[w], items).queue) <= QueueBlocks
  BY <1>1, OfferOK
<1>3. \A w \in Socket : feed'[w] = IF w \in told THEN Offer(feed[w], items) ELSE feed[w]
  BY DEF Fed
<1>4. \A w \in Socket : feed'[w] \in FeedState /\ Len(feed'[w].queue) <= QueueBlocks
  BY <1>1, <1>2, <1>3
<1>5. feed' = [w \in Socket |-> feed'[w]]
  BY DEF Fed
<1> QED BY <1>4, <1>5

LEMMA BroadcastFeeds ==
  ASSUME TypeOK, NEW o \in Socket, NEW k \in 1..MaxChunk, Broadcast(o, k)
  PROVE  \E told, blocks :
           /\ Fed(o, told, blocks) /\ Len(blocks) = k
           /\ blocks = [j \in 1..k |-> Block(session_id[o], framed[o] + j)]
           /\ session_id[o] \in Session
           /\ framed' = [framed EXCEPT ![o] = @ + k] /\ framed'[o] \in 0..MaxBlocks
<1> DEFINE s == session_id[o]
           blocks == [j \in 1..k |-> Block(s, framed[o] + j)]
           told == {w \in subscribers[o] : subscribed_to[w] = s /\ ~feed[w].closing}
<1>1. s \in Session /\ framed[o] \in Nat /\ k \in Nat /\ framed[o] + k <= MaxBlocks
  BY FeedAssumption DEF Broadcast, TypeOK
<1>2. blocks \in Seq(Items) /\ Len(blocks) = k
  <2>1. \A j \in 1..k : framed[o] + j \in 0..MaxBlocks
    BY <1>1, FeedAssumption
  <2> HIDE DEF s
  <2>2. \A j \in 1..k : Block(s, framed[o] + j) \in Items
    BY <1>1, <2>1, ItemsOK
  <2> QED BY <1>1, <2>2
<1>3. /\ feed' = [w \in Socket |-> IF w \in told THEN Offer(feed[w], blocks) ELSE feed[w]]
      /\ framed' = [framed EXCEPT ![o] = @ + k]
  BY DEF Broadcast
<1>4. framed'[o] \in 0..MaxBlocks
  BY <1>1, <1>3, FeedAssumption DEF TypeOK
<1>5. Fed(o, told, blocks)
  BY <1>2, <1>3 DEF Fed
<1> HIDE DEF told, s
<1> QED BY <1>1, <1>2, <1>3, <1>4, <1>5 DEF s

LEMMA EndFeeds ==
  ASSUME TypeOK, NEW o \in Socket, EndSession(o)
  PROVE  /\ session_id[o] \in Session
         /\ \E told : Fed(o, told, EndItems(session_id[o]))
<1>1. session_id[o] \in Session
  BY DEF EndSession, TypeOK
<1>2. EndItems(session_id[o]) \in Seq(Items)
  BY <1>1, ItemsOK DEF EndItems
<1> QED BY <1>1, <1>2 DEF EndSession, Fed

(* One feed is replaced                                                      *)
LEMMA OneFeed ==
  ASSUME TypeOK, NEW w \in Socket, NEW f \in FeedState, Len(f.queue) <= QueueBlocks,
         feed' = [feed EXCEPT ![w] = f]
  PROVE  /\ feed' \in [Socket -> FeedState]
         /\ \A v \in Socket : Len(feed'[v].queue) <= QueueBlocks
<1>1. feed \in [Socket -> FeedState] /\ \A v \in Socket : Len(feed[v].queue) <= QueueBlocks
  BY DEF TypeOK
<1>2. feed' \in [Socket -> FeedState]
  BY <1>1
<1>3. \A v \in Socket : feed'[v] = IF v = w THEN f ELSE feed[v]
  BY <1>1
<1>4. ASSUME NEW v \in Socket
      PROVE  Len(feed'[v].queue) <= QueueBlocks
  <2>1. CASE v = w
    BY <1>3, <2>1
  <2>2. CASE v # w
    BY <1>1, <1>3, <2>2
  <2> QED BY <2>1, <2>2
<1> QED BY <1>2, <1>4

LEMMA TypesKept ==
  ASSUME RoleInvariant, [Next]_vars
  PROVE  TypeOK'
<1> USE FeedAssumption DEF ownerVars, senderVars
<1>1. /\ TypeOK /\ Roles
      /\ NoFeed \in FeedState /\ Len(NoFeed.queue) = 0 /\ <<>> \in Seq(Items) /\ 0 \in 0..MaxBlocks
  BY DEF RoleInvariant, NoFeed, FeedState
<1>2. ASSUME NEW w \in Socket, ClearSubscription(w) \/ UNCHANGED <<subscribed_to, feed, subscribers>>
      PROVE  /\ subscribed_to' \in [Socket -> Session \cup {None}]
             /\ feed' \in [Socket -> FeedState]
             /\ \A v \in Socket : Len(feed'[v].queue) <= QueueBlocks
             /\ subscribers' \in [Socket -> SUBSET Socket]
  <2>1. CASE UNCHANGED <<subscribed_to, feed, subscribers>>
    BY <1>1, <2>1 DEF TypeOK
  <2>2. CASE ClearSubscription(w)
    <3>1. /\ subscribed_to' = [subscribed_to EXCEPT ![w] = None]
          /\ feed' = [feed EXCEPT ![w] = NoFeed]
          /\ subscribers' \in [Socket -> SUBSET Socket]
      BY <1>1, <2>2 DEF ClearSubscription, TypeOK
    <3>2. Len(NoFeed.queue) <= QueueBlocks
      BY <1>1
    <3>3. feed' \in [Socket -> FeedState] /\ \A v \in Socket : Len(feed'[v].queue) <= QueueBlocks
      BY <1>1, <3>1, <3>2, OneFeed
    <3> QED BY <1>1, <3>1, <3>3 DEF TypeOK
  <2> QED BY <1>2, <2>1, <2>2
<1>3. ASSUME NEW w \in Socket, Connect(w) \/ BeginStart(w) \/ StartFails(w) \/ Unsubscribed(w) \/ Gone(w)
      PROVE  TypeOK'
  <2>1. /\ UNCHANGED <<wanted, ownerVars, subscribers, subscribed_to, feed, sender, serving,
                       cancelled, got, since>>
        /\ \E h \in {"gone", "idle", "starting"} : handler' = [handler EXCEPT ![w] = h]
        /\ \E b \in BOOLEAN : open' = open \/ open' = [open EXCEPT ![w] = b]
    BY <1>3 DEF Connect, BeginStart, StartFails, Unsubscribed, Gone
  <2>2. open' \in [Socket -> BOOLEAN]
    BY <1>1, <2>1 DEF TypeOK
  <2> QED BY <1>1, <2>1, <2>2, ZenonT(60) DEF TypeOK
<1>4. ASSUME NEW w \in Socket, NEW s \in Session, StartSession(w, s)
      PROVE  TypeOK'
  BY <1>1, <1>4 DEF TypeOK, StartSession
<1>5. ASSUME NEW w \in Socket,
             Unsubscribe(w) \/ Disconnect(w) \/ \E s \in Session : Subscribe(w, s)
      PROVE  TypeOK'
  <2>1. /\ ClearSubscription(w)
        /\ cancelled' = [cancelled EXCEPT ![w] = sender[w] # "none"]
        /\ wanted' \in [Socket -> Session \cup {None}]
        /\ \E h \in Detaching : handler' = [handler EXCEPT ![w] = h]
        /\ UNCHANGED <<ownerVars, senderVars>>
    <3>1. CASE Unsubscribe(w) \/ Disconnect(w)
      BY <1>1, <3>1 DEF Unsubscribe, Disconnect, Detach, Detaching, TypeOK
    <3>2. ASSUME NEW s \in Session, Subscribe(w, s)
          PROVE  /\ Detach(w) /\ wanted' = [wanted EXCEPT ![w] = s]
                 /\ handler' = [handler EXCEPT ![w] = "subscribing"]
                 /\ UNCHANGED <<ownerVars, senderVars>>
      BY <3>2 DEF Subscribe
    <3>3. ASSUME NEW s \in Session, Subscribe(w, s)
          PROVE  wanted' \in [Socket -> Session \cup {None}]
      <4>1. wanted' = [wanted EXCEPT ![w] = s]
        BY <3>3 DEF Subscribe
      <4> QED BY <1>1, <4>1 DEF TypeOK
    <3> QED BY <1>5, <3>1, <3>2, <3>3 DEF Detach, Detaching
  <2>2. cancelled' \in [Socket -> BOOLEAN]
    BY <1>1, <2>1 DEF TypeOK
  <2> QED BY <1>1, <1>2, <2>1, <2>2 DEF TypeOK, Detaching
<1>6. ASSUME NEW w \in Socket, Attach(w)
      PROVE  TypeOK'
  <2> DEFINE s == wanted[w]
             o == sessions[s]
  <2>1. /\ s \in Session
        /\ Attached(w, s, o)
             \/ UNCHANGED <<subscribed_to, feed, subscribers, sender, serving, since>>
        /\ handler' = [handler EXCEPT ![w] = "idle"] /\ wanted' = [wanted EXCEPT ![w] = None]
        /\ UNCHANGED <<session_id, sessions, used, framed, cancelled, open, got>>
    BY <1>1, <1>6, AttachCases
  <2>2. CASE Attached(w, s, o)
    <3> DEFINE queue == IF HeaderBlocks(o) = 0 THEN <<Subscribed(s)>>
                        ELSE <<Subscribed(s), Header(s, HeaderBlocks(o))>>
               f == [queue |-> queue, closing |-> FALSE]
    <3>1. o \in Socket /\ framed[o] \in 0..MaxBlocks
      BY <1>1, <2>2 DEF Attached, TypeOK
    <3>2. HeaderBlocks(o) \in 0..MaxBlocks
      BY <3>1 DEF HeaderBlocks
    <3>3. Subscribed(s) \in Items /\ Header(s, HeaderBlocks(o)) \in Items
      BY <2>1, <3>2, ItemsOK
    <3> HIDE DEF s, o
    <3>4. queue \in Seq(Items) /\ Len(queue) <= QueueBlocks
      BY <3>3
    <3>5. feed' = [feed EXCEPT ![w] = f]
      BY <2>2 DEF Attached
    <3> HIDE DEF queue
    <3>6. f \in FeedState /\ f.queue = queue
      BY <3>4 DEF FeedState
    <3> HIDE DEF f
    <3>7. feed' \in [Socket -> FeedState] /\ \A v \in Socket : Len(feed'[v].queue) <= QueueBlocks
      BY <1>1, <3>4, <3>5, <3>6, OneFeed
    <3> QED BY <1>1, <2>1, <2>2, <3>1, <3>7 DEF TypeOK, Attached
  <2>3. CASE UNCHANGED <<subscribed_to, feed, subscribers, sender, serving, since>>
    BY <1>1, <2>1, <2>3 DEF TypeOK
  <2> QED BY <2>1, <2>2, <2>3
<1>7. ASSUME NEW w \in Socket, SenderFinishes(w), UNCHANGED <<handler, wanted, ownerVars>>,
             open' \in [Socket -> BOOLEAN]
      PROVE  TypeOK'
  <2>1. /\ ClearSubscription(w) \/ UNCHANGED <<subscribed_to, feed, subscribers>>
        /\ sender' = [sender EXCEPT ![w] = "none"] /\ serving' = [serving EXCEPT ![w] = None]
        /\ cancelled' = [cancelled EXCEPT ![w] = FALSE] /\ got' = [got EXCEPT ![w] = <<>>]
        /\ since' = [since EXCEPT ![w] = 0]
    BY <1>7 DEF SenderFinishes
  <2> QED BY <1>1, <1>2, <1>7, <2>1 DEF TypeOK
<1>8. ASSUME NEW w \in Socket, SenderTakes(w), Head(feed[w].queue).kind # "done"
      PROVE  TypeOK'
  <2> DEFINE q == feed[w].queue
             item == Head(q)
             sent == IF open[w] THEN Append(got[w], item) ELSE got[w]
  <2>1. feed[w] \in FeedState /\ q \in Seq(Items) /\ q # <<>> /\ got[w] \in Seq(Items)
    BY <1>1, <1>8 DEF TypeOK, FeedState, SenderTakes
  <2>2. Tail(q) \in Seq(Items) /\ Len(Tail(q)) <= QueueBlocks /\ sent \in Seq(Items)
    <3>1. Len(q) \in Nat /\ Len(q) <= QueueBlocks
      BY <1>1, <2>1, LenProperties DEF TypeOK
    <3> QED BY <2>1, <3>1, TakeOK
  <2>3. /\ feed' = [feed EXCEPT ![w].queue = Tail(q)]
        /\ sender' = [sender EXCEPT ![w] = IF item.kind = "close" THEN "closing" ELSE "sending"]
        /\ got' = [got EXCEPT ![w] = sent]
        /\ open' = [open EXCEPT ![w] = open[w] /\ item.kind # "close"]
        /\ UNCHANGED <<subscribed_to, subscribers, serving, cancelled, since, handler, wanted,
                       ownerVars>>
    BY <1>1, <1>8 DEF SenderTakes, TypeOK
  <2> HIDE DEF sent
  <2>4. \E t \in Seq(Items) :
          /\ t = Tail(q) /\ Len(t) <= QueueBlocks /\ feed' = [feed EXCEPT ![w].queue = t]
    BY <2>2, <2>3
  <2> HIDE DEF q
  <2>5. feed' \in [Socket -> FeedState] /\ \A v \in Socket : Len(feed'[v].queue) <= QueueBlocks
    <3>1. PICK t \in Seq(Items) :
            /\ t = Tail(q) /\ Len(t) <= QueueBlocks /\ feed' = [feed EXCEPT ![w].queue = t]
      BY <2>4
    <3> DEFINE f == [feed[w] EXCEPT !.queue = t]
    <3>2. f \in FeedState /\ f.queue = t
      BY <2>1, <3>1 DEF FeedState
    <3>3. feed' = [feed EXCEPT ![w] = f]
      BY <3>1
    <3> HIDE DEF f
    <3> QED BY <1>1, <3>1, <3>2, <3>3, OneFeed
  <2>6. open' \in [Socket -> BOOLEAN]
    BY <1>1, <2>3 DEF TypeOK
  <2> HIDE DEF item
  <2> QED BY <1>1, <2>2, <2>3, <2>5, <2>6 DEF TypeOK
<1>9. ASSUME NEW w \in Socket, SenderSent(w) \/ SenderTimesOut(w)
      PROVE  TypeOK'
  <2>1. got[w] \in Seq(Items) /\ Append(got[w], Close) \in Seq(Items)
    BY <1>1, ItemsOK, AppendProperties DEF TypeOK
  <2>2. CASE SenderSent(w)
    BY <1>1, <2>2 DEF TypeOK, SenderSent
  <2>3. CASE SenderTimesOut(w)
    <3>1. got' = [got EXCEPT ![w] = Append(got[w], Close)]
      BY <1>1, <2>3 DEF SenderTimesOut, TypeOK
    <3>2. got' \in [Socket -> Seq(Items)]
      BY <1>1, <2>1, <3>1 DEF TypeOK
    <3>3. open' \in [Socket -> BOOLEAN] /\ sender' = [sender EXCEPT ![w] = "closing"]
      BY <1>1, <2>3 DEF SenderTimesOut, TypeOK
    <3> QED BY <1>1, <2>3, <3>2, <3>3 DEF TypeOK, SenderTimesOut
  <2> QED BY <1>9, <2>2, <2>3
<1>10. ASSUME NEW w \in Socket, SenderStep(w)
       PROVE  TypeOK'
  <2>1. CASE SenderEnds(w) \/ (SenderTakes(w) /\ Head(feed[w].queue).kind = "done")
    BY <1>1, <1>7, <2>1 DEF SenderEnds, SenderTakes, TypeOK
  <2> QED BY <1>8, <1>9, <1>10, <2>1 DEF SenderStep
<1>11. ASSUME NEW o \in Socket, NEW k \in 1..MaxChunk, Broadcast(o, k)
       PROVE  TypeOK'
  <2>1. /\ feed' \in [Socket -> FeedState]
        /\ \A w \in Socket : Len(feed'[w].queue) <= QueueBlocks
        /\ framed' \in [Socket -> 0..MaxBlocks]
    BY <1>1, <1>11, BroadcastFeeds, FedFeeds, ZenonT(60) DEF TypeOK
  <2>2. subscribers' \in [Socket -> SUBSET Socket]
    BY <1>1, <1>11 DEF TypeOK, Broadcast
  <2> QED BY <1>1, <1>11, <2>1, <2>2 DEF TypeOK, Broadcast
<1>12. ASSUME NEW o \in Socket, EndSession(o)
       PROVE  TypeOK'
  <2>1. /\ feed' \in [Socket -> FeedState]
        /\ \A w \in Socket : Len(feed'[w].queue) <= QueueBlocks
    BY <1>1, <1>12, EndFeeds, FedFeeds
  <2> QED BY <1>1, <1>12, <2>1 DEF TypeOK, EndSession
<1>13. CASE UNCHANGED vars
  BY <1>1, <1>13 DEF TypeOK, vars
<1> QED BY <1>3, <1>4, <1>5, <1>6, <1>10, <1>11, <1>12, <1>13 DEF Next, HandlerStep

(* A set that lost members is within the limit                               *)
LEMMA FewerSubscribers ==
  ASSUME WithinLimit, MaxSubscribers \in Nat, \A o \in Socket : subscribers'[o] \subseteq subscribers[o]
  PROVE  WithinLimit'
<1> SUFFICES ASSUME NEW o \in Socket
             PROVE  IsFiniteSet(subscribers'[o]) /\ Cardinality(subscribers'[o]) <= MaxSubscribers
  BY DEF WithinLimit
<1> DEFINE S == subscribers[o]
           T == subscribers'[o]
<1>1. IsFiniteSet(S) /\ Cardinality(S) <= MaxSubscribers /\ T \subseteq S
  BY DEF WithinLimit
<1> HIDE DEF S, T
<1>2. IsFiniteSet(T) /\ Cardinality(T) <= Cardinality(S)
  BY <1>1, FS_Subset
<1>3. Cardinality(S) \in Nat /\ Cardinality(T) \in Nat
  BY <1>1, <1>2, FS_CardinalityType
<1> QED BY <1>1, <1>2, <1>3 DEF T

LEMMA LimitKept ==
  ASSUME RoleInvariant, Next
  PROVE  WithinLimit'
<1>1. TypeOK /\ Roles /\ WithinLimit /\ MaxSubscribers \in Nat
  BY FeedAssumption DEF RoleInvariant
<1>2. ASSUME NEW w \in Socket, ClearSubscription(w) \/ UNCHANGED subscribers
      PROVE  WithinLimit'
  BY <1>1, <1>2, FewerSubscribers DEF ClearSubscription
<1>3. ASSUME NEW w \in Socket, Attach(w)
      PROVE  WithinLimit'
  <2> DEFINE o == sessions[wanted[w]]
  <2>1. Attached(w, wanted[w], o) \/ UNCHANGED subscribers
    BY <1>1, <1>3, AttachCases
  <2>2. CASE Attached(w, wanted[w], o)
    <3>1. /\ o \in Socket /\ subscribers' = [subscribers EXCEPT ![o] = @ \cup {w}]
          /\ Cardinality(subscribers[o]) < MaxSubscribers
      BY <2>2 DEF Attached, HasRoom
    <3> HIDE DEF o
    <3>2. IsFiniteSet(subscribers[o])
      BY <1>1, <3>1 DEF WithinLimit
    <3> DEFINE S == subscribers[o]
    <3>3. /\ IsFiniteSet(S \cup {w})
          /\ Cardinality(S \cup {w}) = IF w \in S THEN Cardinality(S) ELSE Cardinality(S) + 1
      BY <3>2, FS_AddElement
    <3>4. Cardinality(S) \in Nat
      BY <3>2, FS_CardinalityType
    <3>5. Cardinality(S \cup {w}) <= MaxSubscribers
      BY <1>1, <3>1, <3>3, <3>4
    <3>6. \A v \in Socket : subscribers'[v] = IF v = o THEN S \cup {w} ELSE subscribers[v]
      BY <1>1, <3>1 DEF TypeOK
    <3> HIDE DEF S
    <3> QED BY <1>1, <3>3, <3>5, <3>6 DEF WithinLimit
  <2> QED BY <1>2, <2>1, <2>2
<1>4. ASSUME NEW w \in Socket, SenderStep(w)
      PROVE  WithinLimit'
  BY <1>2, <1>4 DEF SenderStep, SenderTakes, SenderSent, SenderTimesOut, SenderEnds, SenderFinishes
<1>5. ASSUME NEW w \in Socket, EndSession(w) \/ \E k \in 1..MaxChunk : Broadcast(w, k)
      PROVE  WithinLimit'
  <2>1. \E T \in SUBSET subscribers[w] : subscribers' = [subscribers EXCEPT ![w] = T]
    <3>1. CASE EndSession(w)
      BY <3>1 DEF EndSession
    <3>2. ASSUME NEW k \in 1..MaxChunk, Broadcast(w, k)
          PROVE  \E T \in SUBSET subscribers[w] : subscribers' = [subscribers EXCEPT ![w] = T]
      BY <3>2 DEF Broadcast
    <3> QED BY <1>5, <3>1, <3>2
  <2>2. \A o \in Socket : subscribers'[o] \subseteq subscribers[o]
    BY <1>1, <2>1 DEF TypeOK
  <2> QED BY <1>1, <2>2, FewerSubscribers
<1>6. ASSUME NEW w \in Socket,
             \/ Connect(w) \/ BeginStart(w) \/ StartFails(w) \/ Unsubscribe(w) \/ Disconnect(w)
             \/ Unsubscribed(w) \/ Gone(w) \/ \E s \in Session : StartSession(w, s) \/ Subscribe(w, s)
      PROVE  WithinLimit'
  <2>1. ClearSubscription(w) \/ UNCHANGED subscribers
    BY <1>6 DEF Connect, BeginStart, StartFails, Unsubscribe, Disconnect, Unsubscribed, Gone,
                StartSession, Subscribe, Detach
  <2> QED BY <1>2, <2>1
<1> QED BY <1>3, <1>4, <1>5, <1>6 DEF Next, HandlerStep

LEMMA RolesStep ==
  ASSUME RoleInvariant, [Next]_vars
  PROVE  RoleInvariant'
<1>1. TypeOK'
  BY TypesKept
<1>2. CASE Next
  <2>1. WithinLimit'
    BY <1>2, LimitKept
  <2>2. RoleParts'
    <3>1. PICK w \in Socket :
            \/ Connect(w) \/ BeginStart(w) \/ StartFails(w) \/ Unsubscribe(w) \/ Disconnect(w)
            \/ HandlerStep(w) \/ SenderStep(w) \/ EndSession(w)
            \/ \E s \in Session : StartSession(w, s) \/ Subscribe(w, s)
            \/ \E k \in 1..MaxChunk : Broadcast(w, k)
      BY <1>2 DEF Next
    <3> QED BY <3>1, HandlerStepRoles, AttachRoles, SenderStepRoles, OwnerStepRoles DEF HandlerStep
  <2> QED BY <1>1, <2>1, <2>2 DEF RoleInvariant, RoleParts
<1>3. CASE UNCHANGED vars
  BY <1>1, <1>3 DEF RoleInvariant, DirectoryIsCurrent, Roles, Senders, BothSidesAgree, WithinLimit,
                    vars
<1> QED BY <1>2, <1>3

LEMMA RolesMeanAgreement == RoleInvariant => SubscribersAgree
<1> SUFFICES ASSUME RoleInvariant PROVE SubscribersAgree
  OBVIOUS
<1> USE FeedAssumption DEF RoleInvariant
<1>1. SubscriberLimit
  <2> SUFFICES ASSUME NEW s \in Session
               PROVE  Cardinality({w \in Socket : /\ subscribed_to[w] = s /\ sessions[s] # None
                                                  /\ ~feed[w].closing}) <= MaxSubscribers
    BY DEF SubscriberLimit
  <2> DEFINE S == {w \in Socket : /\ subscribed_to[w] = s /\ sessions[s] # None
                                  /\ ~feed[w].closing}
  <2>1. CASE sessions[s] = None
    <3>1. S = {}
      BY <2>1
    <3>2. Cardinality(S) = 0
      BY <3>1, FS_EmptySet
    <3> HIDE DEF S
    <3>3. Cardinality(S) <= MaxSubscribers
      BY <3>2
    <3> QED BY <3>3 DEF S
  <2>2. CASE sessions[s] # None
    <3>1. sessions[s] \in Socket
      BY <2>2 DEF TypeOK
    <3>2. S = subscribers[sessions[s]]
      BY <2>2 DEF BothSidesAgree
    <3> HIDE DEF S
    <3>3. Cardinality(S) <= MaxSubscribers
      BY <3>1, <3>2 DEF WithinLimit
    <3> QED BY <3>3 DEF S
  <2> QED BY <2>1, <2>2
<1>2. NeverOwnerAndSubscriber
  BY DEF NeverOwnerAndSubscriber, Roles
<1>3. GoneIsForgotten
  <2> SUFFICES ASSUME NEW w \in Socket, handler[w] = "gone"
               PROVE  /\ sender[w] = "none" /\ subscribed_to[w] = None /\ session_id[w] = None
                      /\ \A o \in Socket : w \notin subscribers[o]
    BY DEF GoneIsForgotten
  <2>1. subscribed_to[w] = None /\ session_id[w] = None
    BY DEF Roles
  <2>2. sender[w] = "none"
    BY <2>1, SenderMeansSubscriber DEF Detaching
  <2>3. ASSUME NEW o \in Socket, w \in subscribers[o]
        PROVE  FALSE
    <3>1. session_id[o] \in Session
      BY <2>3 DEF DirectoryIsCurrent, TypeOK
    <3>2. sessions[session_id[o]] = o
      BY <3>1 DEF DirectoryIsCurrent
    <3>3. subscribed_to[w] = session_id[o]
      BY <2>3, <3>1, <3>2 DEF BothSidesAgree
    <3> QED BY <2>1, <3>1, <3>3
  <2> QED BY <2>1, <2>2, <2>3
<1> QED BY <1>1, <1>2, <1>3 DEF SubscribersAgree, RoleInvariant

(* The directory, the clients' roles and the sender tasks are consistent:    *)
(* every record that the tasks of start_streaming, subscribe, stream() and   *)
(* disconnect keep of each other is current.                                 *)
THEOREM RolesAreKept == Spec => []RoleInvariant
<1>1. Init => RoleInvariant
  BY RolesInit
<1>2. RoleInvariant /\ [Next]_vars => RoleInvariant'
  BY RolesStep
<1> QED BY <1>1, <1>2, PTL DEF Spec

(* An owner's subscriber set is exactly the clients subscribed to its        *)
(* session and keeping up, within the limit, whatever roles the sockets      *)
(* change to between two awaits (subscribe, unsubscribe, disconnect).        *)
THEOREM SubscribersAreKnown == Spec => []SubscribersAgree
<1>1. RoleInvariant => SubscribersAgree
  BY RolesMeanAgreement
<1> QED BY <1>1, RolesAreKept, PTL

-------------------------------------------------------------------------------
(* What a subscription is told.                                            *)

LEMMA KindsOK ==
  /\ Close.kind = "close" /\ Done.kind = "done"
  /\ \A s : Subscribed(s).kind = "subscribed" /\ Subscribed(s).session = s /\ Ended(s).kind = "ended"
  /\ \A n, s, j : Due(n, s, j).kind \in {"header", "block"}
BY DEF Close, Done, Subscribed, Ended, Due, Header, Block, Item

(* Sequences that are joined                                                 *)
LEMMA JoinOK ==
  ASSUME NEW p \in Seq(Items), NEW q \in Seq(Items)
  PROVE  /\ p \o q \in Seq(Items) /\ Len(p) \in Nat /\ Len(q) \in Nat
         /\ Len(p \o q) = Len(p) + Len(q)
         /\ \A j \in 1..Len(p) : (p \o q)[j] = p[j]
         /\ \A j \in 1..Len(q) : (p \o q)[Len(p) + j] = q[j]
<1>1. Len(p) \in Nat /\ Len(q) \in Nat
  BY LenProperties
<1>2. /\ p \o q \in Seq(Items) /\ Len(p \o q) = Len(p) + Len(q)
      /\ \A j \in 1..Len(p) + Len(q) : (p \o q)[j] = IF j <= Len(p) THEN p[j] ELSE q[j - Len(p)]
  BY ConcatProperties
<1> QED BY <1>1, <1>2

LEMMA AddOK ==
  ASSUME NEW p \in Seq(Items), NEW x \in Items
  PROVE  /\ Append(p, x) \in Seq(Items) /\ Len(p) \in Nat /\ Len(Append(p, x)) = Len(p) + 1
         /\ \A j \in 1..Len(p) : Append(p, x)[j] = p[j]
         /\ Append(p, x)[Len(p) + 1] = x
         /\ p \o <<x>> = Append(p, x)
<1>1. p \o <<x>> = Append(p, x)
  BY AppendIsConcat
<1> QED BY <1>1, AppendProperties, LenProperties

(* The end of a complete story                                               *)
LEMMA CompleteIsExact ==
  ASSUME NEW n, NEW f, NEW s, NEW q \in Seq(Items), Complete(n, f, s, q)
  PROVE  Exact(n, s, q) /\ \A j \in 1..Len(q) : q[j].kind \notin {"ended", "close"}
<1>1. Len(q) \in Nat
  BY LenProperties
<1>2. /\ Len(q) > 0 /\ q[1] = Subscribed(s)
      /\ \A j \in 2..Len(q) : q[j] = Due(n, s, j - 1)
  BY DEF Complete
<1>3. ASSUME NEW j \in 1..Len(q)
      PROVE  q[j].kind \in {"subscribed", "header", "block"}
  BY <1>1, <1>2, KindsOK
<1>4. \A j \in 1..Len(q) : q[j].kind \notin {"ended", "close"}
  BY <1>3
<1> QED BY <1>2, <1>4 DEF Exact

LEMMA EndedIsExact ==
  ASSUME NEW n, NEW f, NEW s \in Session, NEW q \in Seq(Items), Complete(n, f, s, q)
  PROVE  Exact(n, s, q \o EndItems(s))
<1> DEFINE e == EndItems(s)
           r == q \o e
<1>1. e \in Seq(Items) /\ Len(e) = 2 /\ e[1] = Ended(s) /\ e[2] = Done
  BY ItemsOK DEF EndItems
<1>2. /\ Len(q) \in Nat /\ Len(q) > 0 /\ q[1] = Subscribed(s)
      /\ \A j \in 2..Len(q) : q[j] = Due(n, s, j - 1)
      /\ \A j \in 1..Len(q) : q[j].kind \notin {"ended", "close"}
  BY CompleteIsExact, LenProperties DEF Complete
<1> HIDE DEF e
<1>3. /\ Len(r) = Len(q) + 2
      /\ \A j \in 1..Len(q) : r[j] = q[j]
      /\ r[Len(q) + 1] = Ended(s) /\ r[Len(q) + 2] = Done
  <2>1. /\ Len(r) = Len(q) + Len(e)
        /\ \A j \in 1..Len(q) : r[j] = q[j]
        /\ \A j \in 1..Len(e) : r[Len(q) + j] = e[j]
    BY <1>1, JoinOK
  <2> HIDE DEF r
  <2> QED BY <1>1, <1>2, <2>1
<1> HIDE DEF r
<1>4. \A j \in 1..Len(r) : j \in 1..Len(q) \/ j = Len(q) + 1 \/ j = Len(q) + 2
  BY <1>2, <1>3
<1>5. r[1] = Subscribed(s)
  BY <1>2, <1>3
<1>6. \A j \in 2..Len(r) : r[j] \in {Due(n, s, j - 1), Ended(s), Done, Close}
  BY <1>2, <1>3, <1>4
<1>7. \A j \in 1..Len(r) : r[j].kind # "close"
  BY <1>2, <1>3, <1>4, KindsOK
<1>8. ASSUME NEW j \in 1..Len(r), NEW k \in 1..Len(r), j < k, r[j].kind = "ended"
      PROVE  r[k].kind = "done"
  <2>1. j = Len(q) + 1
    BY <1>2, <1>3, <1>4, <1>8, KindsOK
  <2>2. k = Len(q) + 2
    BY <1>2, <1>3, <1>8, <2>1
  <2> QED BY <1>3, <2>2, KindsOK
<1>9. Exact(n, s, r)
  BY <1>5, <1>6, <1>7, <1>8 DEF Exact
<1> QED BY <1>9 DEF r, e

(* A story that is cut off by a close                                        *)
LEMMA ClosedIsExact ==
  ASSUME NEW n, NEW s, NEW q \in Seq(Items), Exact(n, s, q),
         \A j \in 1..Len(q) : q[j].kind # "close"
  PROVE  Exact(n, s, Append(q, Close))
<1> DEFINE r == Append(q, Close)
<1>1. /\ Len(q) \in Nat /\ Len(r) = Len(q) + 1 /\ r[Len(q) + 1] = Close
      /\ \A j \in 1..Len(q) : r[j] = q[j]
  BY ItemsOK, AddOK
<1>2. /\ Len(q) > 0 => q[1] \in {Subscribed(s), Close}
      /\ \A j \in 2..Len(q) : q[j] \in {Due(n, s, j - 1), Ended(s), Done, Close}
      /\ \A j, k \in 1..Len(q) : j < k /\ q[j].kind = "ended" => q[k].kind \in {"done", "close"}
  BY DEF Exact
<1> HIDE DEF r
<1>3. \A j \in 1..Len(r) : j \in 1..Len(q) \/ j = Len(q) + 1
  BY <1>1
<1>4. r[1] \in {Subscribed(s), Close}
  BY <1>1, <1>2
<1>5. \A j \in 2..Len(r) : r[j] \in {Due(n, s, j - 1), Ended(s), Done, Close}
  BY <1>1, <1>2, <1>3
<1>6. \A j \in 1..Len(r) : r[j].kind = "close" => j = Len(r)
  BY <1>1, <1>3
<1>7. ASSUME NEW j \in 1..Len(r), NEW k \in 1..Len(r), j < k, r[j].kind = "ended"
      PROVE  r[k].kind \in {"done", "close"}
  <2>1. j \in 1..Len(q)
    BY <1>1, <1>3, <1>7
  <2>2. CASE k \in 1..Len(q)
    BY <1>1, <1>2, <1>7, <2>1, <2>2
  <2>3. CASE k = Len(q) + 1
    BY <1>1, <2>3, KindsOK
  <2> QED BY <1>3, <2>2, <2>3
<1>8. Exact(n, s, r)
  BY <1>4, <1>5, <1>6, <1>7 DEF Exact
<1> QED BY <1>8 DEF r

(* What was sent of an exact story is exact                                  *)
LEMMA SentIsExact ==
  ASSUME NEW n, NEW s, NEW p \in Seq(Items), NEW q \in Seq(Items), Exact(n, s, p \o q)
  PROVE  Exact(n, s, p)
<1> DEFINE r == p \o q
<1>1. /\ Len(p) \in Nat /\ Len(q) \in Nat /\ Len(r) = Len(p) + Len(q)
      /\ \A j \in 1..Len(p) : r[j] = p[j]
  BY JoinOK
<1>2. /\ Len(r) > 0 => r[1] \in {Subscribed(s), Close}
      /\ \A j \in 2..Len(r) : r[j] \in {Due(n, s, j - 1), Ended(s), Done, Close}
      /\ \A j \in 1..Len(r) : r[j].kind = "close" => j = Len(r)
      /\ \A j, k \in 1..Len(r) : j < k /\ r[j].kind = "ended" => r[k].kind \in {"done", "close"}
  BY DEF Exact
<1> HIDE DEF r
<1>3. \A j \in 1..Len(p) : j \in 1..Len(r)
  BY <1>1
<1>4. Len(p) > 0 => p[1] \in {Subscribed(s), Close}
  BY <1>1, <1>2
<1>5. \A j \in 2..Len(p) : p[j] \in {Due(n, s, j - 1), Ended(s), Done, Close}
  BY <1>1, <1>2
<1>6. \A j \in 1..Len(p) : p[j].kind = "close" => j = Len(p)
  BY <1>1, <1>2, <1>3
<1>7. \A j, k \in 1..Len(p) : j < k /\ p[j].kind = "ended" => p[k].kind \in {"done", "close"}
  BY <1>1, <1>2, <1>3
<1> QED BY <1>4, <1>5, <1>6, <1>7 DEF Exact

(* A complete story stays complete with the blocks framed since              *)
LEMMA LongerIsComplete ==
  ASSUME NEW n \in Nat, NEW f \in Nat, NEW s \in Session, NEW q \in Seq(Items),
         Complete(n, f, s, q),
         NEW k \in Nat, NEW b \in Seq(Items), Len(b) = k,
         \A j \in 1..k : b[j] = Block(s, f + j)
  PROVE  Complete(n, f + k, s, q \o b)
<1> DEFINE r == q \o b
           h == IF Start(n) = 0 THEN 0 ELSE 1
<1>1. /\ n <= f /\ Len(q) = 1 + (f - n) + h /\ q[1] = Subscribed(s)
      /\ \A j \in 2..Len(q) : q[j] = Due(n, s, j - 1)
  BY DEF Complete
<1>2. /\ Len(q) \in Nat /\ Len(r) = Len(q) + k
      /\ \A j \in 1..Len(q) : r[j] = q[j]
      /\ \A j \in 1..k : r[Len(q) + j] = Block(s, f + j)
  BY JoinOK
<1> HIDE DEF r
<1>3. ASSUME NEW j \in 1..k
      PROVE  r[Len(q) + j] = Due(n, s, Len(q) + j - 1)
  <2>1. CASE Start(n) = 0
    <3>1. n + (Len(q) + j - 1) = f + j
      BY <1>1, <2>1
    <3> QED BY <1>2, <2>1, <3>1 DEF Due
  <2>2. CASE Start(n) # 0
    <3>1. n + (Len(q) + j - 1) - 1 = f + j /\ Len(q) + j - 1 # 1
      BY <1>1, <2>2
    <3> QED BY <1>2, <2>2, <3>1 DEF Due
  <2> QED BY <2>1, <2>2
<1>4. ASSUME NEW i \in 2..Len(r)
      PROVE  r[i] = Due(n, s, i - 1)
  <2>1. CASE i <= Len(q)
    BY <1>1, <1>2, <1>4, <2>1
  <2>2. CASE i > Len(q)
    <3> DEFINE j == i - Len(q)
    <3>1. j \in 1..k /\ i = Len(q) + j
      BY <1>2, <1>4, <2>2
    <3> HIDE DEF j
    <3>2. r[Len(q) + j] = Due(n, s, Len(q) + j - 1)
      BY <1>3, <3>1
    <3>3. Len(q) + j - 1 = i - 1
      BY <1>2, <3>1
    <3> QED BY <3>1, <3>2, <3>3
  <2> QED BY <1>2, <2>1, <2>2
<1>5. /\ Len(r) = 1 + ((f + k) - n) + h /\ n <= f + k
      /\ Len(r) > 0 /\ r[1] = Subscribed(s)
  BY <1>1, <1>2
<1>6. Complete(n, f + k, s, r)
  BY <1>4, <1>5 DEF Complete
<1> QED BY <1>6 DEF r

(* A subscription that a step does not touch                                 *)
Same(w) ==
  /\ feed'[w] = feed[w] /\ got'[w] = got[w] /\ since'[w] = since[w] /\ open'[w] = open[w]
  /\ serving'[w] = serving[w] /\ subscribed_to'[w] = subscribed_to[w]
  /\ sender'[w] = sender[w] \/ (sender[w] = "sending" /\ sender'[w] = "get")
  /\ \A s \in Session :
       subscribed_to[w] = s /\ sessions'[s] # None /\ ~feed[w].closing =>
         sessions'[s] = sessions[s] /\ framed'[sessions[s]] = framed[sessions[s]]

LEMMA SameTelling ==
  ASSUME NEW w \in Socket, Telling(w), Same(w)
  PROVE  Telling(w)'
BY DEF Telling, Same, Story

(* No task, no subscription                                                  *)
LEMMA SilentTelling ==
  ASSUME NEW w \in Socket, sender'[w] = "none", got'[w] = <<>>, subscribed_to'[w] = None
  PROVE  Telling(w)'
<1>1. Len(got'[w]) = 0
  OBVIOUS
<1>2. \A j \in 1..Len(got'[w]) : FALSE
  BY <1>1
<1> QED BY <1>2, FeedAssumption DEF Telling

(* The first half of a command that gives up a subscription                  *)
LEMMA DetachTelling ==
  ASSUME TypeOK, Senders, NEW w \in Socket, Telling(w), Detach(w), UNCHANGED <<ownerVars, senderVars>>
  PROVE  \A v \in Socket : Telling(v) => Telling(v)'
<1>1. /\ subscribed_to' = [subscribed_to EXCEPT ![w] = None]
      /\ feed' = [feed EXCEPT ![w] = NoFeed]
      /\ UNCHANGED <<session_id, sessions, used, framed, sender, serving, open, got, since>>
  BY DEF Detach, ClearSubscription, ownerVars, senderVars
<1>2. ASSUME NEW v \in Socket \ {w}, Telling(v)
      PROVE  Telling(v)'
  <2>1. Same(v)
    BY <1>1 DEF Same, TypeOK
  <2> QED BY <1>2, <2>1, SameTelling
<1>3. Telling(w)'
  <2>1. got[w] \in Seq(Items) /\ feed'[w].queue = <<>> /\ subscribed_to'[w] = None
    BY <1>1 DEF TypeOK, NoFeed
  <2>2. got[w] \o <<>> = got[w]
    BY <2>1, ConcatEmptySeq
  <2>3. Story(w)' = got[w]
    BY <1>1, <2>1, <2>2 DEF Story
  <2> QED BY <1>1, <2>1, <2>3, FeedAssumption DEF Telling
<1> QED BY <1>2, <1>3

LEMMA HandlerStories ==
  ASSUME FeedInvariant, NEW w \in Socket,
         \/ Connect(w) \/ BeginStart(w) \/ StartFails(w) \/ Unsubscribe(w) \/ Disconnect(w)
         \/ Unsubscribed(w) \/ Gone(w) \/ \E s \in Session : StartSession(w, s) \/ Subscribe(w, s)
  PROVE  Stories'
<1>1. /\ TypeOK /\ DirectoryIsCurrent /\ Roles /\ Senders
      /\ \A v \in Socket : Telling(v)
  BY DEF FeedInvariant, RoleInvariant, Stories
<1>2. CASE BeginStart(w) \/ StartFails(w) \/ Unsubscribed(w)
  <2>1. \A v \in Socket : Same(v)
    BY <1>2 DEF BeginStart, StartFails, Unsubscribed, ownerVars, senderVars, Same
  <2> QED BY <1>1, <2>1, SameTelling DEF Stories
<1>3. CASE Connect(w) \/ Gone(w)
  <2>1. /\ \E b \in BOOLEAN : open' = [open EXCEPT ![w] = b]
        /\ UNCHANGED <<sessions, framed, subscribed_to, feed, sender, serving, got, since>>
    BY <1>3 DEF Connect, Gone, ownerVars
  <2>2. subscribed_to[w] = None /\ sender[w] = "none" /\ got[w] = <<>>
    <3>1. subscribed_to[w] = None
      BY <1>1, <1>3 DEF Connect, Gone, Roles, Detaching
    <3>2. CASE Connect(w)
      BY <1>1, <3>1, <3>2, SenderMeansSubscriber DEF Connect, Detaching, Senders
    <3>3. CASE Gone(w)
      BY <1>1, <3>1, <3>3 DEF Gone, Senders
    <3> QED BY <1>3, <3>2, <3>3, <3>1
  <2>3. ASSUME NEW v \in Socket \ {w}
        PROVE  Same(v)
    BY <1>1, <2>1 DEF Same, TypeOK
  <2>4. Telling(w)'
    BY <2>1, <2>2, SilentTelling
  <2> QED BY <1>1, <2>3, <2>4, SameTelling DEF Stories
<1>4. CASE Unsubscribe(w) \/ Disconnect(w) \/ \E s \in Session : Subscribe(w, s)
  <2>1. Detach(w) /\ UNCHANGED <<ownerVars, senderVars>>
    BY <1>4 DEF Unsubscribe, Disconnect, Subscribe
  <2> QED BY <1>1, <2>1, DetachTelling DEF Stories
<1>5. ASSUME NEW s \in Session, StartSession(w, s)
      PROVE  Stories'
  <2>1. /\ s \notin used /\ session_id[w] = None
        /\ sessions' = [sessions EXCEPT ![s] = w]
        /\ framed' = [framed EXCEPT ![w] = 0]
        /\ UNCHANGED <<subscribed_to, feed, sender, serving, open, got, since>>
    BY <1>1, <1>5 DEF StartSession, Roles, senderVars
  <2>2. \A r \in Session \ {s} : sessions'[r] = sessions[r] /\ sessions[r] # w
    <3>1. ASSUME NEW r \in Session, sessions[r] = w
          PROVE  FALSE
      BY <1>1, <2>1, <3>1, FeedAssumption DEF DirectoryIsCurrent
    <3> QED BY <1>1, <2>1, <3>1 DEF TypeOK
  <2>3. \A o \in Socket \ {w} : framed'[o] = framed[o]
    BY <1>1, <2>1 DEF TypeOK
  <2>4. ASSUME NEW v \in Socket
        PROVE  Same(v)
    <3>1. subscribed_to[v] # s
      BY <1>1, <2>1, FeedAssumption DEF Senders
    <3>2. \A r \in Session \ {s} : sessions'[r] # None => sessions[r] \in Socket \ {w}
      BY <1>1, <2>2 DEF TypeOK
    <3> QED BY <2>1, <2>2, <2>3, <3>1, <3>2 DEF Same
  <2> QED BY <1>1, <2>4, SameTelling DEF Stories
<1> QED BY <1>2, <1>3, <1>4, <1>5

LEMMA EmptyIsExact ==
  ASSUME NEW n, NEW s
  PROVE  Exact(n, s, <<>>)
BY DEF Exact

(* What subscribe() queues is complete                                       *)
LEMMA AttachStories ==
  ASSUME FeedInvariant, NEW w \in Socket, Attach(w)
  PROVE  Stories'
<1> DEFINE s == wanted[w]
           o == sessions[s]
<1>1. /\ TypeOK /\ Senders /\ Roles
      /\ \A v \in Socket : Telling(v)
  BY DEF FeedInvariant, RoleInvariant, Stories
<1>2. /\ s \in Session /\ sender[w] = "none" /\ got[w] = <<>>
      /\ Attached(w, s, o)
           \/ UNCHANGED <<subscribed_to, feed, subscribers, sender, serving, since>>
      /\ UNCHANGED <<session_id, sessions, used, framed, cancelled, open, got>>
  BY <1>1, AttachCases DEF Senders
<1>3. CASE UNCHANGED <<subscribed_to, feed, subscribers, sender, serving, since>>
  <2>1. \A v \in Socket : Same(v)
    BY <1>2, <1>3 DEF Same
  <2> QED BY <1>1, <2>1, SameTelling DEF Stories
<1>4. CASE Attached(w, s, o)
  <2> DEFINE h == HeaderBlocks(o)
             queue == IF h = 0 THEN <<Subscribed(s)>> ELSE <<Subscribed(s), Header(s, h)>>
             n == framed[o]
  <2>1. /\ o \in Socket /\ sessions[s] = o
        /\ subscribed_to' = [subscribed_to EXCEPT ![w] = s]
        /\ feed' = [feed EXCEPT ![w] = [queue |-> queue, closing |-> FALSE]]
        /\ sender' = [sender EXCEPT ![w] = "get"]
        /\ serving' = [serving EXCEPT ![w] = s]
        /\ since' = [since EXCEPT ![w] = n]
    BY <1>4 DEF Attached
  <2>2. n \in 0..MaxBlocks /\ n \in Nat
    BY <1>1, <2>1, FeedAssumption DEF TypeOK
  <2>3. h = Start(n) /\ h \in 0..MaxBlocks
    BY <2>2, FeedAssumption DEF HeaderBlocks, Start
  <2>4. Subscribed(s) \in Items /\ Header(s, h) \in Items
    BY <1>2, <2>3, ItemsOK
  <2> HIDE DEF s, o, n, h
  <2>5. /\ queue \in Seq(Items) /\ Len(queue) = 1 + (IF h = 0 THEN 0 ELSE 1)
        /\ queue[1] = Subscribed(s) /\ (h # 0 => queue[2] = Header(s, h))
    BY <2>4
  <2> HIDE DEF queue
  <2>6. Complete(n, n, s, queue)
    <3>1. ASSUME NEW j \in 2..Len(queue)
          PROVE  queue[j] = Due(n, s, j - 1)
      <4>1. j = 2 /\ h # 0
        BY <2>5, <3>1
      <4> QED BY <2>3, <2>5, <4>1 DEF Due
    <3>2. Len(queue) > 0 /\ Len(queue) = 1 + (n - n) + (IF Start(n) = 0 THEN 0 ELSE 1)
      BY <2>2, <2>3, <2>5
    <3> QED BY <2>2, <2>5, <3>1, <3>2 DEF Complete
  <2>7. Exact(n, s, queue) /\ Exact(n, s, <<>>)
    BY <2>5, <2>6, CompleteIsExact, EmptyIsExact
  <2>8. ASSUME NEW v \in Socket \ {w}
        PROVE  Same(v)
    BY <1>1, <1>2, <2>1 DEF Same, TypeOK
  <2>9. Telling(w)'
    <3>1. /\ subscribed_to'[w] = s /\ sender'[w] = "get" /\ serving'[w] = s /\ since'[w] = n
          /\ feed'[w] = [queue |-> queue, closing |-> FALSE]
          /\ got'[w] = <<>> /\ open'[w] = open[w] /\ sessions' = sessions /\ framed' = framed
      BY <1>1, <1>2, <2>1 DEF TypeOK
    <3>2. <<>> \o queue = queue
      BY <2>5, ConcatEmptySeq
    <3>3. Story(w)' = queue
      BY <3>1, <3>2 DEF Story
    <3>4. \A j \in 1..Len(got'[w]) : FALSE
      BY <3>1
    <3>5. framed'[sessions'[s]] = n
      BY <2>1, <3>1 DEF n
    <3> QED BY <2>6, <2>7, <3>1, <3>3, <3>4, <3>5 DEF Telling
  <2> QED BY <1>1, <2>8, <2>9, SameTelling DEF Stories
<1> QED BY <1>2, <1>3, <1>4

(* A finished task leaves nothing behind                                     *)
LEMMA FinishStories ==
  ASSUME FeedInvariant, NEW w \in Socket, SenderFinishes(w), sender[w] # "none",
         UNCHANGED <<ownerVars, open>>
  PROVE  Stories'
<1>1. TypeOK /\ Senders /\ \A v \in Socket : Telling(v)
  BY DEF FeedInvariant, RoleInvariant, Stories
<1>2. /\ sender' = [sender EXCEPT ![w] = "none"] /\ serving' = [serving EXCEPT ![w] = None]
      /\ got' = [got EXCEPT ![w] = <<>>] /\ since' = [since EXCEPT ![w] = 0]
      /\ UNCHANGED <<session_id, sessions, used, framed, open>>
  BY DEF SenderFinishes, ownerVars
<1>3. /\ subscribed_to'[w] = None
      /\ \A v \in Socket \ {w} : subscribed_to'[v] = subscribed_to[v] /\ feed'[v] = feed[v]
  <2>1. CASE subscribed_to[w] = None
    BY <1>1, <2>1 DEF SenderFinishes, ClearSubscription, TypeOK
  <2>2. CASE subscribed_to[w] # None
    <3>1. ClearSubscription(w)
      BY <1>1, <2>2 DEF SenderFinishes, Senders
    <3> QED BY <1>1, <3>1 DEF ClearSubscription, TypeOK
  <2> QED BY <2>1, <2>2
<1>4. ASSUME NEW v \in Socket \ {w}
      PROVE  Same(v)
  BY <1>1, <1>2, <1>3 DEF Same, TypeOK
<1>5. Telling(w)'
  <2>1. sender'[w] = "none" /\ got'[w] = <<>>
    BY <1>1, <1>2 DEF TypeOK
  <2> QED BY <1>3, <2>1, SilentTelling
<1> QED BY <1>1, <1>4, <1>5, SameTelling DEF Stories

(* The item that is sent next stays in its place in the story                *)
LEMMA TakeStories ==
  ASSUME FeedInvariant, NEW w \in Socket, SenderTakes(w), Head(feed[w].queue).kind # "done"
  PROVE  Stories'
<1> DEFINE q == feed[w].queue
           item == Head(q)
           g == got[w]
<1>1. TypeOK /\ Senders /\ Roles /\ \A v \in Socket : Telling(v)
  BY DEF FeedInvariant, RoleInvariant, Stories
<1>2. /\ feed[w] \in FeedState /\ q \in Seq(Items) /\ q # <<>> /\ g \in Seq(Items)
      /\ sender[w] = "get" /\ ~cancelled[w]
  BY <1>1 DEF TypeOK, FeedState, SenderTakes
<1>3. /\ feed' = [feed EXCEPT ![w].queue = Tail(q)]
      /\ sender' = [sender EXCEPT ![w] = IF item.kind = "close" THEN "closing" ELSE "sending"]
      /\ got' = [got EXCEPT ![w] = IF open[w] THEN Append(g, item) ELSE g]
      /\ open' = [open EXCEPT ![w] = open[w] /\ item.kind # "close"]
      /\ UNCHANGED <<subscribed_to, serving, since, sessions, framed>>
  BY <1>1 DEF SenderTakes, TypeOK, ownerVars
<1>4. /\ item \in Items /\ Tail(q) \in Seq(Items)
      /\ Append(g, item) \in Seq(Items) /\ Append(g, item) \o Tail(q) = g \o q
  BY <1>2, TakeOK
<1>5. ASSUME NEW v \in Socket \ {w}
      PROVE  Same(v)
  BY <1>1, <1>3 DEF Same, TypeOK
<1>6. Telling(w)'
  <2>1. /\ feed'[w].queue = Tail(q) /\ feed'[w].closing = feed[w].closing
        /\ got'[w] = IF open[w] THEN Append(g, item) ELSE g
        /\ sender'[w] = IF item.kind = "close" THEN "closing" ELSE "sending"
        /\ open'[w] = (open[w] /\ item.kind # "close")
        /\ serving'[w] = serving[w] /\ since'[w] = since[w]
        /\ subscribed_to'[w] = subscribed_to[w] /\ sessions' = sessions /\ framed' = framed
    BY <1>1, <1>2, <1>3 DEF TypeOK, FeedState
  <2>2. /\ \A j \in 1..Len(g) : g[j].kind # "done" /\ (open[w] => g[j].kind # "close")
        /\ Exact(since[w], serving[w], g)
        /\ IF open[w] THEN Exact(since[w], serving[w], g \o q) ELSE g = <<>>
        /\ \A s \in Session :
             subscribed_to[w] = s /\ sessions[s] # None /\ ~feed[w].closing /\ open[w] =>
               Complete(since[w], framed[sessions[s]], s, g \o q)
    BY <1>1, <1>2 DEF Telling, Story
  <2>3. item.kind # "done"
    OBVIOUS
  <2>4. open[w] \in BOOLEAN
    BY <1>1 DEF TypeOK
  <2> HIDE DEF q, item, g
  <2>5. CASE open[w]
    <3> DEFINE a == Append(g, item)
    <3>1. /\ \A j \in 1..Len(g) : a[j] = g[j]
          /\ Len(g) \in Nat /\ Len(a) = Len(g) + 1 /\ a[Len(g) + 1] = item
      BY <1>2, <1>4, AddOK DEF g
    <3>2. Story(w)' = g \o q /\ got'[w] = a
      BY <1>4, <2>1, <2>5 DEF Story
    <3>3. Exact(since[w], serving[w], a)
      BY <1>4, <2>2, <2>5, SentIsExact
    <3> HIDE DEF a
    <3>4. \A j \in 1..Len(a) : a[j].kind # "done" /\ (open'[w] => a[j].kind # "close")
      <4>1. \A j \in 1..Len(a) : j \in 1..Len(g) \/ j = Len(g) + 1
        BY <3>1
      <4> QED BY <2>1, <2>2, <2>3, <2>5, <3>1, <4>1
    <3>5. Exact(since[w], serving[w], g \o q)
      BY <2>2, <2>5
    <3>6. sender'[w] # "closing" => open'[w]
      BY <2>1, <2>5
    <3>7. (sender[w] \in {"get", "sending"})' =>
            IF open'[w] THEN Exact(since'[w], serving'[w], Story(w)') ELSE got'[w] = <<>>
      BY <2>1, <3>2, <3>5, <3>6
    <3>8. \A s \in Session :
            subscribed_to'[w] = s /\ sessions'[s] # None /\ ~feed'[w].closing /\ open'[w] =>
              Complete(since'[w], framed'[sessions'[s]], s, Story(w)')
      BY <2>1, <2>2, <2>5, <3>2
    <3> QED BY <2>1, <3>2, <3>3, <3>4, <3>7, <3>8 DEF Telling
  <2>6. CASE ~open[w]
    <3>1. ~open'[w]
      BY <2>1, <2>6
    <3>2. got'[w] = <<>>
      BY <2>1, <2>2, <2>6
    <3>3. \A j \in 1..Len(got'[w]) : FALSE
      BY <3>2
    <3> QED BY <2>1, <3>1, <3>2, <3>3, EmptyIsExact DEF Telling
  <2> QED BY <2>4, <2>5, <2>6
<1> QED BY <1>1, <1>5, <1>6, SameTelling DEF Stories

LEMMA SenderStories ==
  ASSUME FeedInvariant, NEW w \in Socket, SenderStep(w)
  PROVE  Stories'
<1>1. TypeOK /\ Senders /\ \A v \in Socket : Telling(v)
  BY DEF FeedInvariant, RoleInvariant, Stories
<1>2. CASE SenderEnds(w) \/ (SenderTakes(w) /\ Head(feed[w].queue).kind = "done")
  <2>1. SenderFinishes(w) /\ sender[w] # "none" /\ UNCHANGED <<ownerVars, open>>
    BY <1>2 DEF SenderEnds, SenderTakes
  <2> QED BY <2>1, FinishStories
<1>3. CASE SenderTakes(w) /\ Head(feed[w].queue).kind # "done"
  BY <1>3, TakeStories
<1>4. CASE SenderSent(w)
  <2>1. \A v \in Socket : Same(v)
    BY <1>1, <1>4 DEF SenderSent, Same, TypeOK, ownerVars
  <2> QED BY <1>1, <2>1, SameTelling DEF Stories
<1>5. CASE SenderTimesOut(w)
  <2>1. /\ sender[w] = "sending" /\ open[w]
        /\ sender' = [sender EXCEPT ![w] = "closing"]
        /\ open' = [open EXCEPT ![w] = FALSE]
        /\ got' = [got EXCEPT ![w] = Append(got[w], Close)]
        /\ UNCHANGED <<sessions, framed, subscribed_to, feed, serving, since>>
    BY <1>1, <1>5 DEF SenderTimesOut, ownerVars, TypeOK
  <2>2. ASSUME NEW v \in Socket \ {w}
        PROVE  Same(v)
    BY <1>1, <2>1 DEF Same, TypeOK
  <2>3. Telling(w)'
    <3> DEFINE g == got[w]
               a == Append(g, Close)
    <3>1. /\ g \in Seq(Items) /\ Exact(since[w], serving[w], g)
          /\ \A j \in 1..Len(g) : g[j].kind \notin {"done", "close"}
      BY <1>1, <2>1 DEF Telling, TypeOK
    <3>2. /\ got'[w] = a /\ ~open'[w] /\ sender'[w] = "closing"
          /\ serving'[w] = serving[w] /\ since'[w] = since[w]
      BY <1>1, <2>1 DEF TypeOK
    <3>3. /\ Len(g) \in Nat /\ Len(a) = Len(g) + 1 /\ a[Len(g) + 1] = Close
          /\ \A j \in 1..Len(g) : a[j] = g[j]
      BY <3>1, ItemsOK, AddOK
    <3>4. Exact(since[w], serving[w], a)
      BY <3>1, ClosedIsExact
    <3> HIDE DEF g, a
    <3>5. \A j \in 1..Len(a) : a[j].kind # "done"
      <4>1. \A j \in 1..Len(a) : j \in 1..Len(g) \/ j = Len(g) + 1
        BY <3>3
      <4> QED BY <3>1, <3>3, <4>1, KindsOK
    <3> QED BY <3>2, <3>4, <3>5 DEF Telling
  <2> QED BY <1>1, <2>2, <2>3, SameTelling DEF Stories
<1> QED BY <1>2, <1>3, <1>4, <1>5 DEF SenderStep

(* A subscriber that is offered more, and what follows is f blocks long      *)
LEMMA OfferTelling ==
  ASSUME TypeOK, NEW w \in Socket, Telling(w), sender[w] # "none",
         NEW items \in Seq(Items), feed'[w] = Offer(feed[w], items),
         UNCHANGED <<got, since, open, serving, sender, subscribed_to>>,
         open[w] => Exact(since[w], serving[w], Story(w) \o items),
         \A s \in Session : subscribed_to[w] = s /\ sessions'[s] # None /\ open[w] =>
           Complete(since[w], framed'[sessions'[s]], s, Story(w) \o items)
  PROVE  Telling(w)'
<1> DEFINE g == got[w]
           q == feed[w].queue
           r == feed'[w].queue
<1>1. /\ feed[w] \in FeedState /\ g \in Seq(Items) /\ q \in Seq(Items)
      /\ Len(q) <= QueueBlocks
  BY DEF TypeOK, FeedState
<1>2. \/ r = q \o items /\ feed'[w].closing = feed[w].closing
      \/ r = <<Close>> /\ feed'[w].closing
  BY <1>1, OfferOK
<1>3. /\ \A j \in 1..Len(g) : g[j].kind # "done" /\ (open[w] => g[j].kind # "close")
      /\ Exact(since[w], serving[w], g)
      /\ sender[w] \in {"get", "sending"} /\ ~open[w] => g = <<>>
  BY DEF Telling
<1>4. Story(w)' = g \o r /\ Story(w) = g \o q
  BY DEF Story
<1> HIDE DEF g, q, r
<1>5. CASE r = q \o items /\ feed'[w].closing = feed[w].closing
  <2>1. g \o (q \o items) = (g \o q) \o items
    BY <1>1, ConcatAssociative, SMTT(30)
  <2>2. Story(w)' = Story(w) \o items
    BY <1>4, <1>5, <2>1
  <2> DEFINE t == Story(w) \o items
  <2> HIDE DEF t
  <2>3. /\ open[w] => Exact(since[w], serving[w], t)
        /\ \A s \in Session : subscribed_to[w] = s /\ sessions'[s] # None /\ open[w] =>
             Complete(since[w], framed'[sessions'[s]], s, t)
    BY DEF t
  <2>4. Story(w)' = t
    BY <2>2 DEF t
  <2> QED BY <1>3, <2>3, <2>4 DEF Telling, g
<1>6. CASE r = <<Close>> /\ feed'[w].closing
  <2>1. Story(w)' = Append(g, Close)
    BY <1>1, <1>4, <1>6, ItemsOK, AddOK
  <2>2. open[w] => Exact(since[w], serving[w], Append(g, Close))
    BY <1>1, <1>3, ClosedIsExact
  <2> DEFINE a == Append(g, Close)
  <2> HIDE DEF a
  <2>3. Story(w)' = a /\ (open[w] => Exact(since[w], serving[w], a))
    BY <2>1, <2>2 DEF a
  <2> QED BY <1>3, <1>6, <2>3 DEF Telling, g
<1> QED BY <1>2, <1>5, <1>6

LEMMA BroadcastStories ==
  ASSUME FeedInvariant, NEW o \in Socket, NEW k \in 1..MaxChunk, Broadcast(o, k)
  PROVE  Stories'
<1> DEFINE s == session_id[o]
           f == framed[o]
<1>1. /\ TypeOK /\ DirectoryIsCurrent /\ Senders /\ BothSidesAgree
      /\ \A v \in Socket : Telling(v)
  BY DEF FeedInvariant, RoleInvariant, Stories
<1>2. PICK told, b :
        /\ Fed(o, told, b) /\ Len(b) = k
        /\ b = [j \in 1..k |-> Block(s, f + j)]
        /\ s \in Session
        /\ framed' = [framed EXCEPT ![o] = @ + k]
  BY <1>1, BroadcastFeeds
<1>3. /\ b \in Seq(Items) /\ k \in Nat /\ f \in Nat
      /\ \A j \in 1..k : b[j] = Block(s, f + j)
      /\ told = {w \in subscribers[o] : subscribed_to[w] = s /\ ~feed[w].closing}
      /\ \A w \in Socket : feed'[w] = IF w \in told THEN Offer(feed[w], b) ELSE feed[w]
      /\ UNCHANGED <<got, since, open, serving, sender, subscribed_to, sessions>>
      /\ framed'[o] = f + k /\ \A v \in Socket \ {o} : framed'[v] = framed[v]
  <2>1. k \in Nat /\ f \in Nat
    BY <1>1, FeedAssumption DEF TypeOK
  <2>2. /\ b \in Seq(Items)
        /\ told = {w \in subscribers[o] : subscribed_to[w] = s /\ ~feed[w].closing}
        /\ \A w \in Socket : feed'[w] = IF w \in told THEN Offer(feed[w], b) ELSE feed[w]
    BY <1>2 DEF Fed
  <2>3. UNCHANGED <<got, since, open, serving, sender, subscribed_to, sessions>>
    BY DEF Broadcast, senderVars
  <2>4. framed'[o] = f + k /\ \A v \in Socket \ {o} : framed'[v] = framed[v]
    BY <1>1, <1>2 DEF TypeOK
  <2>5. \A j \in 1..k : b[j] = Block(s, f + j)
    BY <1>2
  <2> QED BY <2>1, <2>2, <2>3, <2>4, <2>5
<1>4. s # None /\ sessions[s] = o
  BY <1>1, <1>2, FeedAssumption DEF DirectoryIsCurrent
<1>5. s \in Session /\ Len(b) = k
  BY <1>2
<1>6. f = framed[o] /\ s = session_id[o]
  OBVIOUS
<1> HIDE DEF s, f
<1>7. ASSUME NEW w \in Socket, w \in told
      PROVE  Telling(w)'
  <2>1. subscribed_to[w] = s /\ ~feed[w].closing /\ sender[w] # "none" /\ serving[w] = s
    BY <1>1, <1>3, <1>4, <1>7 DEF Senders
  <2> DEFINE q == Story(w)
             n == since[w]
  <2>2. q \in Seq(Items) /\ n \in Nat
    <3>1. got[w] \in Seq(Items) /\ feed[w].queue \in Seq(Items) /\ n \in Nat
      BY <1>1, FeedAssumption DEF TypeOK, FeedState
    <3> QED BY <3>1, JoinOK DEF Story
  <2>3. ASSUME open[w]
        PROVE  Complete(n, f, s, q)
    BY <1>1, <1>4, <1>5, <1>6, <2>1, <2>3, FeedAssumption DEF Telling
  <2> HIDE DEF q, n
  <2>4. open[w] => Complete(n, f + k, s, q \o b)
    BY <1>3, <1>5, <2>2, <2>3, LongerIsComplete
  <2>5. open[w] => Exact(n, s, q \o b)
    BY <1>3, <2>2, <2>4, CompleteIsExact, JoinOK
  <2>6. feed'[w] = Offer(feed[w], b) /\ framed'[sessions'[s]] = f + k
    BY <1>3, <1>4, <1>7
  <2> QED BY <1>1, <1>3, <2>1, <2>4, <2>5, <2>6, OfferTelling DEF q, n
<1>8. ASSUME NEW w \in Socket, w \notin told
      PROVE  Telling(w)'
  <2>1. ASSUME NEW r \in Session, subscribed_to[w] = r, sessions[r] # None, ~feed[w].closing
        PROVE  sessions[r] \in Socket \ {o}
    <3>1. sessions[r] \in Socket /\ w \in subscribers[sessions[r]]
      BY <1>1, <2>1 DEF BothSidesAgree, TypeOK
    <3>2. session_id[sessions[r]] = r
      BY <1>1, <2>1 DEF DirectoryIsCurrent
    <3> QED BY <1>3, <1>6, <1>8, <2>1, <3>1, <3>2
  <2>2. Same(w)
    BY <1>3, <1>8, <2>1 DEF Same
  <2> QED BY <1>1, <2>2, SameTelling
<1> QED BY <1>7, <1>8 DEF Stories

LEMMA EndStories ==
  ASSUME FeedInvariant, NEW o \in Socket, EndSession(o)
  PROVE  Stories'
<1> DEFINE s == session_id[o]
           e == EndItems(s)
<1>1. /\ TypeOK /\ DirectoryIsCurrent /\ Senders /\ BothSidesAgree
      /\ \A v \in Socket : Telling(v)
  BY DEF FeedInvariant, RoleInvariant, Stories
<1>2. s \in Session /\ \E told : Fed(o, told, e)
  BY <1>1, EndFeeds
<1>3. PICK told :
        /\ told = {w \in subscribers[o] : subscribed_to[w] = s /\ ~feed[w].closing}
        /\ e \in Seq(Items)
        /\ \A w \in Socket : feed'[w] = IF w \in told THEN Offer(feed[w], e) ELSE feed[w]
  BY <1>2 DEF Fed
<1>4. /\ UNCHANGED <<got, since, open, serving, sender, subscribed_to>>
      /\ sessions'[s] = None /\ \A r \in Session \ {s} : sessions'[r] = sessions[r]
      /\ \A v \in Socket \ {o} : framed'[v] = framed[v]
  BY <1>1, <1>2 DEF EndSession, senderVars, TypeOK
<1>5. s # None /\ sessions[s] = o /\ \A r \in Session \ {s} : sessions[r] # o
  BY <1>1, <1>2, FeedAssumption DEF DirectoryIsCurrent
<1>6. s = session_id[o] /\ e = EndItems(s)
  OBVIOUS
<1> HIDE DEF s, e
<1>7. ASSUME NEW w \in Socket, w \in told
      PROVE  Telling(w)'
  <2>1. subscribed_to[w] = s /\ ~feed[w].closing /\ sender[w] # "none" /\ serving[w] = s
    BY <1>1, <1>3, <1>5, <1>7 DEF Senders
  <2> DEFINE q == Story(w)
             n == since[w]
             f == framed[o]
  <2>2. q \in Seq(Items)
    <3>1. got[w] \in Seq(Items) /\ feed[w].queue \in Seq(Items)
      BY <1>1 DEF TypeOK, FeedState
    <3> QED BY <3>1, JoinOK DEF Story
  <2>3. ASSUME open[w]
        PROVE  Complete(n, f, s, q)
    BY <1>1, <1>2, <1>5, <2>1, <2>3, FeedAssumption DEF Telling
  <2> HIDE DEF q, n, f
  <2>4. open[w] => Exact(n, s, q \o e)
    BY <1>2, <1>6, <2>2, <2>3, EndedIsExact
  <2>5. feed'[w] = Offer(feed[w], e)
    BY <1>3, <1>7
  <2>6. \A r \in Session : ~(subscribed_to[w] = r /\ sessions'[r] # None)
    BY <1>4, <2>1
  <2> QED BY <1>1, <1>3, <1>4, <2>1, <2>4, <2>5, <2>6, OfferTelling DEF q, n
<1>8. ASSUME NEW w \in Socket, w \notin told
      PROVE  Telling(w)'
  <2>1. \A r \in Session : sessions'[r] # None => r # s /\ sessions'[r] = sessions[r]
    BY <1>4
  <2>2. \A r \in Session : sessions'[r] # None => sessions[r] \in Socket \ {o}
    BY <1>1, <1>5, <2>1 DEF TypeOK
  <2>3. Same(w)
    BY <1>3, <1>4, <1>8, <2>1, <2>2 DEF Same
  <2> QED BY <1>1, <2>3, SameTelling
<1> QED BY <1>7, <1>8 DEF Stories

LEMMA StoriesInit == Init => Stories
<1> SUFFICES ASSUME Init, NEW w \in Socket PROVE Telling(w)
  BY DEF Stories
<1>1. sender[w] = "none" /\ got[w] = <<>> /\ subscribed_to[w] = None
  BY DEF Init
<1>2. \A j \in 1..Len(got[w]) : FALSE
  BY <1>1
<1> QED BY <1>1, <1>2, FeedAssumption DEF Telling

LEMMA StoriesStep ==
  ASSUME FeedInvariant, [Next]_vars
  PROVE  Stories'
<1>1. CASE Next
  <2>1. PICK w \in Socket :
          \/ Connect(w) \/ BeginStart(w) \/ StartFails(w) \/ Unsubscribe(w) \/ Disconnect(w)
          \/ HandlerStep(w) \/ SenderStep(w) \/ EndSession(w)
          \/ \E s \in Session : StartSession(w, s) \/ Subscribe(w, s)
          \/ \E k \in 1..MaxChunk : Broadcast(w, k)
    BY <1>1 DEF Next
  <2> QED BY <2>1, HandlerStories, AttachStories, SenderStories, BroadcastStories, EndStories
          DEF HandlerStep
<1>2. CASE UNCHANGED vars
  <2>1. \A w \in Socket : Telling(w) /\ Same(w)
    BY <1>2 DEF FeedInvariant, Stories, Same, vars
  <2> QED BY <2>1, SameTelling DEF Stories
<1> QED BY <1>1, <1>2

LEMMA ExpectedIsDue ==
  \A w \in Socket : \A s, j : Expected(w, s, j) = Due(since[w], s, j)
BY DEF Expected, Replayed, Due, Start

LEMMA FeedMeansExact == FeedInvariant => FeedIsExact /\ NoSilentDrop
<1> SUFFICES ASSUME FeedInvariant PROVE FeedIsExact /\ NoSilentDrop
  OBVIOUS
<1>1. TypeOK /\ Senders /\ \A w \in Socket : Telling(w)
  BY DEF FeedInvariant, RoleInvariant, Stories
<1>2. ASSUME NEW w \in Socket
      PROVE  /\ EndIsFinal(w)
             /\ \A j \in 1..Len(got[w]) : got[w][j].kind \in {"header", "block"} =>
                  got[w][j] = Expected(w, got[w][1].session, j - 1)
  <2> DEFINE g == got[w]
             n == since[w]
             s == serving[w]
  <2>1. g \in Seq(Items) /\ Len(g) \in Nat
    BY <1>1, LenProperties DEF TypeOK
  <2>2. \A j \in 1..Len(g) : g[j].kind # "done"
    BY <1>1 DEF Telling
  <2>3. CASE sender[w] = "none"
    <3>1. g = <<>>
      BY <1>1, <2>3 DEF Senders
    <3>2. \A j \in 1..Len(g) : FALSE
      BY <3>1
    <3> QED BY <3>2 DEF EndIsFinal
  <2>4. CASE sender[w] # "none"
    <3>1. Exact(n, s, g)
      BY <1>1, <2>4 DEF Telling
    <3>2. \A r, j : Expected(w, r, j) = Due(n, r, j)
      BY ExpectedIsDue
    <3> HIDE DEF g, n, s
    <3>3. /\ Len(g) > 0 => g[1] \in {Subscribed(s), Close}
          /\ \A j \in 2..Len(g) : g[j] \in {Due(n, s, j - 1), Ended(s), Done, Close}
          /\ \A j \in 1..Len(g) : g[j].kind = "close" => j = Len(g)
          /\ \A j, k \in 1..Len(g) : j < k /\ g[j].kind = "ended" => g[k].kind \in {"done", "close"}
      BY <3>1 DEF Exact
    <3>4. ASSUME NEW j \in 1..Len(g)
          PROVE  /\ g[j].kind = "subscribed" => j = 1
                 /\ j = 1 => g[j].kind \in {"subscribed", "close"}
                 /\ g[j].kind = "close" => j = Len(g)
                 /\ g[j].kind = "ended" => \A k \in j+1..Len(g) : g[k].kind = "close"
      <4>1. j = 1 => g[j].kind \in {"subscribed", "close"}
        BY <2>1, <3>3, KindsOK
      <4>2. j \in 2..Len(g) => g[j].kind # "subscribed"
        BY <3>3, KindsOK
      <4>3. ASSUME g[j].kind = "ended", NEW k \in j+1..Len(g)
            PROVE  g[k].kind = "close"
        <5>1. k \in 1..Len(g) /\ j < k
          BY <2>1, <4>3
        <5> QED BY <2>2, <3>3, <4>3, <5>1
      <4>4. j = 1 \/ j \in 2..Len(g)
        BY <2>1
      <4> QED BY <3>3, <4>1, <4>2, <4>3, <4>4
    <3>5. ASSUME NEW j \in 1..Len(g), g[j].kind \in {"header", "block"}
          PROVE  g[j] = Expected(w, g[1].session, j - 1)
      <4>1. j \in 2..Len(g) /\ 1 \in 1..Len(g)
        BY <2>1, <3>4, <3>5
      <4>2. g[j] = Due(n, s, j - 1)
        BY <3>3, <3>5, <4>1, KindsOK
      <4>3. g[1].kind # "close"
        BY <2>1, <3>4, <4>1
      <4>4. g[1] = Subscribed(s) /\ g[1].session = s
        BY <2>1, <3>3, <4>1, <4>3, KindsOK
      <4> QED BY <3>2, <4>2, <4>4
    <3> QED BY <3>4, <3>5 DEF EndIsFinal, g
  <2> QED BY <2>3, <2>4
<1>3. ASSUME NEW w \in Socket, NEW s \in Session,
             subscribed_to[w] = s, sessions[s] # None, ~feed[w].closing, open[w]
      PROVE  LET told == got[w] \o feed[w].queue IN
               /\ Len(told) = 1 + (framed[sessions[s]] - since[w])
                                + (IF Replayed(w) = 0 THEN 0 ELSE 1)
               /\ \A j \in 2..Len(told) : told[j] = Expected(w, s, j - 1)
  <2>1. Complete(since[w], framed[sessions[s]], s, Story(w))
    BY <1>1, <1>3 DEF Telling
  <2>2. Replayed(w) = Start(since[w])
    BY DEF Replayed, Start
  <2>3. \A j : Expected(w, s, j) = Due(since[w], s, j)
    BY ExpectedIsDue
  <2> QED BY <2>1, <2>2, <2>3 DEF Complete, Story
<1> QED BY <1>2, <1>3 DEF FeedIsExact, NoSilentDrop

(* What every subscription was sent, followed by what is queued for it, is   *)
(* its session's story, at every await of stream(), subscribe() and          *)
(* _send_subscription.                                                       *)
THEOREM StoriesAreKept == Spec => []FeedInvariant
<1>1. Init => FeedInvariant
  BY RolesInit, StoriesInit DEF FeedInvariant
<1>2. FeedInvariant /\ [Next]_vars => FeedInvariant'
  BY RolesStep, StoriesStep DEF FeedInvariant
<1> QED BY <1>1, <1>2, PTL DEF Spec

(* A subscriber is sent SUBSCRIBED, the header so far and every later block  *)
(* of that one session in order, up to a close or an end, and no data after  *)
(* the end, whatever the queues, the chunks and the slow sockets.            *)
THEOREM FeedsAreExact == Spec => []FeedIsExact
<1>1. FeedInvariant => FeedIsExact
  BY FeedMeansExact
<1> QED BY <1>1, StoriesAreKept, PTL

(* A subscriber that is keeping up misses no block that _broadcast_chunk     *)
(* framed since it subscribed: it has it, or has it queued.                  *)
THEOREM NothingIsDropped == Spec => []NoSilentDrop
<1>1. FeedInvariant => NoSilentDrop
  BY FeedMeansExact
<1> QED BY <1>1, StoriesAreKept, PTL
================================================================================
