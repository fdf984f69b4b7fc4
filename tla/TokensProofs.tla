----------------------------- MODULE TokensProofs -----------------------------
(***************************************************************************)
(* Proofs about tokens and signing keys, for any number of requests, keys  *)
(* and tokens.  The inductive invariant is DatabaseInvariant: what the     *)
(* writer has not yet committed is as sound as what is committed, and      *)
(* makes no token valid that was not.                                      *)
(***************************************************************************)
EXTENDS Tokens, TLAPS

(* One active key, live tokens signed with it, and every token signed with a *)
(* key that has a row.                                                       *)
Sound(d) ==
  /\ OneActive(d)
  /\ LiveUseActive(d)
  /\ d.active \subseteq d.keys
  /\ \A t \in Issued(d) : d.signed[t] \in d.keys

(* e may be committed where d was: it has all the tokens of d, and makes none *)
(* of them valid again.                                                       *)
Follows(d, e) ==
  \A t \in Issued(d) : /\ e.signed[t] = d.signed[t]
                       /\ Valid(e, t) => Valid(d, t)

(* Who has selected the key to sign with holds the write lock, and the key is *)
(* active in what it will commit.                                             *)
HoldsLock ==
  \A r \in Request :
    /\ req[r].pc \in {"select", "insert", "commit"} => writer = r
    /\ req[r].pc = "insert" => req[r].key \in dirty.active

(* A request whose token was not valid when it came in carries a token that is *)
(* invalid for good.                                                           *)
BadStaysBad ==
  \A r \in Request :
    req[r].pc # "idle" /\ req[r].token # None =>
      req[r].token \in Issued(db) /\ (req[r].good \/ ~Valid(db, req[r].token))

(* A request that is past verify_token had a good token                       *)
PastVerify ==
  \A r \in Request :
    /\ req[r].pc \in {"serve", "read", "mark", "key"} => req[r].good /\ req[r].token # None
    /\ req[r].op = "renew" /\ req[r].pc \in {"begin", "select", "insert", "commit"} => req[r].good
    /\ req[r].op = "renew" => req[r].pc # "rotate"

DatabaseInvariant ==
  /\ TypeOK
  /\ Sound(db)
  /\ writer = None => dirty = db
  /\ Sound(dirty)
  /\ Follows(db, dirty)
  /\ LockHolderWillCommit
  /\ HoldsLock
  /\ BadStaysBad
  /\ PastVerify

USE TokensAssumption DEF Claims

-------------------------------------------------------------------------------
(* The two writes that touch keys and tokens keep a database sound.          *)

(* Replacing the key by a new one revokes every token and leaves one key.    *)
LEMMA ReplaceKeyKeeps ==
  ASSUME NEW d \in Database, NEW k \in Key \ d.keys, Sound(d)
  PROVE  LET e == ReplaceKey(d, k) IN
           /\ e \in Database /\ Sound(e) /\ Follows(d, e) /\ k \in e.active
           /\ e.signed = d.signed
<1> DEFINE e == ReplaceKey(d, k)
<1>1. /\ e.keys = d.keys \cup {k} /\ e.active = {k} /\ e.signed = d.signed
      /\ e.claims = d.claims
      /\ e.revoked = d.revoked \cup {t \in Issued(d) : d.signed[t] # k}
  BY DEF ReplaceKey, Database
<1>2. Issued(e) = Issued(d)
  BY <1>1 DEF Issued
<1>3. \A t \in Issued(d) : t \in e.revoked
  BY <1>1 DEF Sound
<1>4. e \in Database
  BY <1>1 DEF Database, Issued, ReplaceKey
<1>5. Sound(e)
  BY <1>1, <1>2, <1>3 DEF Sound, OneActive, LiveUseActive
<1>6. Follows(d, e)
  BY <1>1, <1>3 DEF Follows, Valid
<1> QED BY <1>1, <1>4, <1>5, <1>6

(* Inserting a token signed with the active key.                             *)
LEMMA InsertKeeps ==
  ASSUME NEW d \in Database, NEW t \in Token \ Issued(d), NEW k \in d.active, NEW c \in Claims,
         Sound(d)
  PROVE  LET e == [d EXCEPT !.signed[t] = k, !.claims[t] = c] IN
           e \in Database /\ Sound(e) /\ Follows(d, e)
<1> DEFINE e == [d EXCEPT !.signed[t] = k, !.claims[t] = c]
<1>1. /\ e.keys = d.keys /\ e.active = d.active /\ e.revoked = d.revoked
      /\ e.signed = [d.signed EXCEPT ![t] = k] /\ e.claims = [d.claims EXCEPT ![t] = c]
  BY DEF Database
<1>2. k \in Key /\ k # None
  BY DEF Database
<1>3. e \in Database
  BY <1>1, <1>2 DEF Database
<1>4. \A u \in Token : u # t => e.signed[u] = d.signed[u]
  BY <1>1 DEF Database
<1>5. e.signed[t] = k
  BY <1>1 DEF Database
<1>6. Issued(e) = Issued(d) \cup {t}
  BY <1>2, <1>4, <1>5 DEF Issued
<1>7. Follows(d, e)
  BY <1>1, <1>4, <1>6 DEF Follows, Valid, Issued
<1>8. Sound(e)
  BY <1>1, <1>4, <1>5, <1>6 DEF Sound, OneActive, LiveUseActive
<1> QED BY <1>3, <1>7, <1>8

(* Revoking tokens.                                                          *)
LEMMA RevokeKeeps ==
  ASSUME NEW d \in Database, NEW T \in SUBSET Token, Sound(d)
  PROVE  LET e == [d EXCEPT !.revoked = @ \cup T] IN
           e \in Database /\ Sound(e) /\ Follows(d, e) /\ e.active = d.active
<1> DEFINE e == [d EXCEPT !.revoked = @ \cup T]
<1>1. /\ e.keys = d.keys /\ e.active = d.active /\ e.signed = d.signed
      /\ e.claims = d.claims /\ e.revoked = d.revoked \cup T
  BY DEF Database
<1>2. Issued(e) = Issued(d)
  BY <1>1 DEF Issued
<1>3. e \in Database
  BY <1>1 DEF Database
<1>4. Sound(e)
  BY <1>1, <1>2 DEF Sound, OneActive, LiveUseActive
<1>5. Follows(d, e)
  BY <1>1, <1>2 DEF Follows, Valid
<1> QED BY <1>1, <1>3, <1>4, <1>5

(* What follows a database in two steps follows it.                          *)
LEMMA FollowsTransitive ==
  ASSUME NEW d \in Database, NEW e \in Database, NEW f \in Database, Follows(d, e), Follows(e, f)
  PROVE  Follows(d, f)
<1>1. Issued(d) \subseteq Issued(e)
  BY DEF Follows, Issued
<1> QED BY <1>1 DEF Follows

-------------------------------------------------------------------------------
(* Steps *)

LEMMA ViewSound ==
  ASSUME DatabaseInvariant, NEW r \in Request
  PROVE  View(r) \in Database /\ Sound(View(r)) /\ Follows(db, View(r))
BY DEF DatabaseInvariant, TypeOK, View, Follows

(* Whoever writes has the lock then, and what it will commit is sound if what *)
(* it writes is.                                                              *)
LEMMA WriteKeeps ==
  ASSUME DatabaseInvariant, NEW r \in Request, NEW d \in Database,
         Sound(d), Follows(View(r), d), Write(r, d), UNCHANGED db
  PROVE  /\ dirty' \in Database /\ Sound(dirty') /\ Follows(db', dirty')
         /\ writer' = r
         /\ \A q \in Request \ {r} : req[q].pc \notin {"select", "insert", "commit"}
<1>1. Follows(db, d)
  BY ViewSound, FollowsTransitive DEF DatabaseInvariant, TypeOK
<1>2. dirty' = d /\ writer' = r /\ writer \in {None, r}
  BY DEF Write
<1>3. \A q \in Request \ {r} : writer # q
  BY <1>2, TokensAssumption
<1>4. \A q \in Request \ {r} : req[q].pc \notin {"select", "insert", "commit"}
  BY <1>3 DEF DatabaseInvariant, HoldsLock
<1>5. Follows(db', dirty')
  BY <1>1, <1>2 DEF Follows, Issued, Valid
<1> QED BY <1>2, <1>4, <1>5

(* A step of request r keeps the invariant if what it leaves in the database *)
(* is sound, it has the lock when it must, and it is where it may be.        *)
LEMMA RequestStep ==
  ASSUME DatabaseInvariant, NEW r \in Request, NEW x \in RequestState,
         req' = [req EXCEPT ![r] = x], UNCHANGED <<clock, setting>>,
         db' \in Database, Sound(db'), Follows(db, db'),
         dirty' \in Database, Sound(dirty'), Follows(db', dirty'),
         writer' = None => dirty' = db',
         \/ /\ writer \in {None, r} /\ writer' = r
            /\ x.pc \in {"select", "insert", "commit"}
            /\ x.pc = "insert" => x.key \in dirty'.active
         \/ /\ writer' = IF writer = r THEN None ELSE writer
            /\ writer # r => dirty' = dirty
            /\ x.pc \notin {"select", "insert", "commit"},
         x.pc # "idle" /\ x.token # None =>
           x.token \in Issued(db') /\ (x.good \/ ~Valid(db', x.token)),
         x.pc \in {"serve", "read", "mark", "key"} => x.good /\ x.token # None,
         x.op = "renew" /\ x.pc \in {"begin", "select", "insert", "commit"} => x.good,
         x.op = "renew" => x.pc # "rotate"
  PROVE  DatabaseInvariant'
<1> USE DEF DatabaseInvariant
<1>1. /\ req'[r] = x
      /\ \A q \in Request : q # r => req'[q] = req[q]
  BY DEF TypeOK
<1>2. writer' \in Request \cup {None}
  BY DEF TypeOK
<1>3. TypeOK'
  BY <1>2 DEF TypeOK
<1>4. LockHolderWillCommit'
  BY <1>1, <1>2, TokensAssumption DEF LockHolderWillCommit, TypeOK
<1>5. HoldsLock'
  <2>1. CASE writer \in {None, r} /\ writer' = r
    BY <1>1, <2>1, TokensAssumption DEF HoldsLock
  <2>2. CASE writer' = IF writer = r THEN None ELSE writer
    BY <1>1, <2>2, TokensAssumption DEF HoldsLock
  <2> QED BY <2>1, <2>2
<1>6. BadStaysBad'
  <2>1. ASSUME NEW q \in Request, q # r, req'[q].pc # "idle", req'[q].token # None
        PROVE  req'[q].token \in Issued(db') /\ (req'[q].good \/ ~Valid(db', req'[q].token))
    <3>1. req[q].token \in Issued(db) /\ (req[q].good \/ ~Valid(db, req[q].token))
      BY <1>1, <2>1 DEF BadStaysBad
    <3>2. req[q].token \in Issued(db')
      BY <3>1 DEF Follows, Issued
    <3> QED BY <1>1, <2>1, <3>1, <3>2 DEF Follows
  <2> QED BY <1>1, <2>1 DEF BadStaysBad
<1>7. PastVerify'
  BY <1>1 DEF PastVerify
<1> QED BY <1>3, <1>4, <1>5, <1>6, <1>7

(* The same for a step that leaves the database and the lock alone.          *)
LEMMA ReadStep ==
  ASSUME DatabaseInvariant, NEW r \in Request, NEW x \in RequestState,
         req' = [req EXCEPT ![r] = x], ReadOnly, UNCHANGED <<clock, setting>>,
         req[r].pc \notin {"select", "insert", "commit"},
         x.pc \notin {"select", "insert", "commit"},
         x.pc # "idle" /\ x.token # None =>
           x.token \in Issued(db) /\ (x.good \/ ~Valid(db, x.token)),
         x.pc \in {"serve", "read", "mark", "key"} => x.good /\ x.token # None,
         x.op = "renew" /\ x.pc = "begin" => x.good,
         x.op = "renew" => x.pc # "rotate"
  PROVE  DatabaseInvariant'
<1>1. db' = db /\ dirty' = dirty /\ writer' = writer
  BY DEF ReadOnly
<1>2. writer # r
  BY DEF DatabaseInvariant, HoldsLock, LockHolderWillCommit, TypeOK
<1>3. /\ db' \in Database /\ Sound(db') /\ Follows(db, db')
      /\ dirty' \in Database /\ Sound(dirty') /\ Follows(db', dirty')
      /\ writer' = None => dirty' = db'
  BY <1>1 DEF DatabaseInvariant, TypeOK, Follows
<1>4. Issued(db') = Issued(db) /\ (Valid(db', x.token) <=> Valid(db, x.token))
  BY <1>1
<1> QED BY <1>1, <1>2, <1>3, <1>4, RequestStep

LEMMA IdleState == Idle \in RequestState /\ Idle.pc = "idle" /\ Idle.op = "use"
BY DEF Idle, Handler, RequestState, NoClaims, Op, PC

(* Goto and Done as updates of the record of r.                              *)
LEMMA GotoState ==
  ASSUME TypeOK, NEW r \in Request, NEW p \in PC, Goto(r, p)
  PROVE  LET x == [req[r] EXCEPT !.pc = p] IN
           /\ x \in RequestState /\ req' = [req EXCEPT ![r] = x]
           /\ x.pc = p /\ x.op = req[r].op /\ x.token = req[r].token /\ x.good = req[r].good
           /\ x.key = req[r].key /\ x.claims = req[r].claims
BY DEF TypeOK, RequestState, Goto

LEMMA GotoReadStep ==
  ASSUME DatabaseInvariant, NEW r \in Request, NEW p \in PC, Goto(r, p),
         ReadOnly, UNCHANGED <<clock, setting>>,
         req[r].pc \notin {"idle", "select", "insert", "commit"},
         p \in {"key", "serve", "read", "mark"},
         req[r].good, req[r].token # None
  PROVE  DatabaseInvariant'
<1> DEFINE x == [req[r] EXCEPT !.pc = p]
<1>1. /\ x \in RequestState /\ req' = [req EXCEPT ![r] = x]
      /\ x.pc = p /\ x.op = req[r].op /\ x.token = req[r].token /\ x.good = req[r].good
  BY GotoState DEF DatabaseInvariant
<1>2. x.token \in Issued(db)
  BY <1>1 DEF DatabaseInvariant, BadStaysBad
<1> HIDE DEF x
<1> QED BY <1>1, <1>2, ReadStep

-------------------------------------------------------------------------------
(* Actions *)

LEMMA ReadsKeep ==
  ASSUME DatabaseInvariant, NEW r \in Request,
         VerifyToken(r) \/ VerifyKey(r) \/ Serve(r) \/ RevokeReads(r)
  PROVE  DatabaseInvariant'
<1> USE DEF DatabaseInvariant
<1>0. /\ ReadOnly /\ UNCHANGED <<clock, setting>>
      /\ req[r].pc \in {"token", "key", "serve", "read"}
  BY DEF VerifyToken, VerifyKey, Serve, RevokeReads
<1>1. CASE Done(r)
  BY <1>0, <1>1, IdleState, ReadStep DEF Done
<1>2. CASE VerifyToken(r) /\ ~Done(r)
  <2>1. req[r].token # None /\ req[r].token \notin db.revoked /\ Goto(r, "key")
    BY <1>2 DEF VerifyToken
  <2>2. req[r].token \in Issued(db) /\ (req[r].good \/ ~Valid(db, req[r].token))
    BY <1>0, <2>1 DEF BadStaysBad
  <2>3. req[r].good
    BY <2>1, <2>2 DEF Sound, LiveUseActive, Valid
  <2> QED BY <1>0, <2>1, <2>3, GotoReadStep DEF PC
<1>3. CASE VerifyKey(r) /\ ~Done(r)
  <2>1. req[r].good /\ req[r].token # None /\ req[r].token \in Issued(db)
    BY <1>3 DEF VerifyKey, PastVerify, BadStaysBad
  <2>2. CASE Goto(r, "serve") \/ Goto(r, "read")
    BY <1>0, <2>1, <2>2, GotoReadStep DEF PC
  <2>3. CASE req' = [req EXCEPT ![r].claims = Stamp(db.claims[req[r].token].device),
                                ![r].pc = "begin"]
    <3> DEFINE c == Stamp(db.claims[req[r].token].device)
               x == [req[r] EXCEPT !.claims = c, !.pc = "begin"]
    <3>1. c \in Claims
      <4>1. req[r].token \in Token
        BY <2>1 DEF Issued
      <4>2. db.claims[req[r].token].device \in Device
        BY <4>1 DEF TypeOK, Database
      <4> QED BY <4>2 DEF TypeOK, Stamp
    <3>2. req' = [req EXCEPT ![r] = x]
      BY <2>3 DEF TypeOK
    <3> HIDE DEF c
    <3>3. req[r] \in RequestState
      BY DEF TypeOK
    <3>4. /\ x \in RequestState /\ x.pc = "begin"
          /\ x.op = req[r].op /\ x.token = req[r].token /\ x.good = req[r].good
      BY <3>1, <3>3 DEF RequestState, PC
    <3> HIDE DEF x
    <3> QED BY <1>0, <2>1, <3>2, <3>4, ReadStep
  <2> QED BY <1>3, <2>2, <2>3 DEF VerifyKey
<1>4. CASE RevokeReads(r) /\ ~Done(r)
  <2>1. req[r].pc = "read" /\ Goto(r, "mark")
    BY <1>4 DEF RevokeReads
  <2>2. req[r].good /\ req[r].token # None
    BY <2>1 DEF PastVerify
  <2> QED BY <1>0, <2>1, <2>2, GotoReadStep DEF PC
<1> QED BY <1>1, <1>2, <1>3, <1>4 DEF Serve

LEMMA ArrivesKeeps ==
  ASSUME DatabaseInvariant, NEW r \in Request, Arrives(r)
  PROVE  DatabaseInvariant'
<1> USE DEF DatabaseInvariant
<1>0. ReadOnly /\ UNCHANGED <<clock, setting>> /\ req[r].pc = "idle"
  BY DEF Arrives
<1>1. CASE \E op \in {"use", "renew", "delete"} : Present(r, op)
  <2>1. PICK op \in {"use", "renew", "delete"}, t \in Issued(db) \cup {None} :
          req' = [req EXCEPT ![r] = Handler(op, "token", t, NoClaims, t # None /\ Valid(db, t))]
    BY <1>1 DEF Present
  <2> DEFINE good == t # None /\ Valid(db, t)
             x == Handler(op, "token", t, NoClaims, good)
  <2>2. good \in BOOLEAN /\ (t # None => t \in Issued(db) /\ (good \/ ~Valid(db, t)))
    BY DEF Valid
  <2>3. req' = [req EXCEPT ![r] = x]
    BY <2>1
  <2> HIDE DEF good
  <2>4. x \in RequestState /\ x.op = op /\ x.pc = "token" /\ x.token = t /\ x.good = good
    BY <2>2 DEF Handler, RequestState, Op, PC, Issued, NoClaims
  <2> HIDE DEF x
  <2> QED BY <1>0, <2>2, <2>3, <2>4, ReadStep
<1>2. CASE \E d \in Device :
          req' = [req EXCEPT ![r] = Handler("mint", "begin", None, Stamp(d), FALSE)]
  <2>1. PICK d \in Device :
          req' = [req EXCEPT ![r] = Handler("mint", "begin", None, Stamp(d), FALSE)]
    BY <1>2
  <2> DEFINE x == Handler("mint", "begin", None, Stamp(d), FALSE)
  <2>2. Stamp(d) \in Claims
    BY DEF TypeOK, Stamp
  <2>3. x \in RequestState /\ x.op = "mint" /\ x.pc = "begin" /\ x.token = None
    BY <2>2 DEF RequestState, Op, PC, Handler
  <2>4. req' = [req EXCEPT ![r] = x]
    BY <2>1
  <2> HIDE DEF x
  <2> QED BY <1>0, <2>3, <2>4, ReadStep
<1>3. CASE req' = [req EXCEPT ![r] = Handler("rotate", "rotate", None, NoClaims, FALSE)]
  <2> DEFINE x == Handler("rotate", "rotate", None, NoClaims, FALSE)
  <2>1. x \in RequestState /\ x.op = "rotate" /\ x.pc = "rotate" /\ x.token = None
    BY DEF RequestState, Op, PC, Handler, NoClaims
  <2>2. req' = [req EXCEPT ![r] = x]
    BY <1>3
  <2> HIDE DEF x
  <2> QED BY <1>0, <2>1, <2>2, ReadStep
<1> QED BY <1>1, <1>2, <1>3 DEF Arrives

(* A request that writes d and goes on to p, holding the lock.               *)
LEMMA WriteStep ==
  ASSUME DatabaseInvariant, NEW r \in Request, NEW x \in RequestState, NEW d \in Database,
         req' = [req EXCEPT ![r] = x], UNCHANGED <<db, clock, setting>>,
         Write(r, d), Sound(d), Follows(View(r), d), req[r].pc # "idle",
         x.op = req[r].op, x.token = req[r].token, x.good = req[r].good,
         x.pc \in {"insert", "commit"},
         x.pc = "insert" => x.key \in d.active,
         x.op = "renew" => x.good
  PROVE  DatabaseInvariant'
<1>1. /\ dirty' \in Database /\ Sound(dirty') /\ Follows(db', dirty') /\ writer' = r
      /\ dirty' = d /\ writer \in {None, r}
  BY WriteKeeps DEF Write
<1>2. db' \in Database /\ Sound(db') /\ Follows(db, db')
  BY DEF DatabaseInvariant, TypeOK, Follows
<1>3. writer' # None
  BY <1>1, TokensAssumption
<1>4. x.token # None => x.token \in Issued(db') /\ (x.good \/ ~Valid(db', x.token))
  BY DEF DatabaseInvariant, BadStaysBad
<1> QED BY <1>1, <1>2, <1>3, <1>4, RequestStep

LEMMA SelectKeyKeeps ==
  ASSUME DatabaseInvariant, NEW r \in Request, SelectKey(r)
  PROVE  DatabaseInvariant'
<1> USE DEF DatabaseInvariant
<1>1. PICK k \in Key :
        /\ req' = [req EXCEPT ![r].key = k, ![r].pc = "insert"]
        /\ \/ View(r).active = {k} /\ UNCHANGED <<dirty, writer>>
           \/ k \in NewKeys(r) /\ Write(r, ReplaceKey(View(r), k))
  BY DEF SelectKey
<1>2. req[r].pc = "select" /\ writer = r /\ View(r) = dirty /\ UNCHANGED <<db, clock, setting>>
  BY DEF SelectKey, HoldsLock, View
<1> DEFINE x == [req[r] EXCEPT !.key = k, !.pc = "insert"]
<1>3. req' = [req EXCEPT ![r] = x]
  BY <1>1 DEF TypeOK
<1>4. req[r] \in RequestState
  BY DEF TypeOK
<1>5. /\ x \in RequestState /\ x.pc = "insert" /\ x.key = k
      /\ x.op = req[r].op /\ x.token = req[r].token /\ x.good = req[r].good
  BY <1>4 DEF RequestState, PC
<1>6. x.op = "renew" => x.good
  BY <1>2, <1>5 DEF PastVerify
<1> HIDE DEF x
<1>7. CASE View(r).active = {k} /\ UNCHANGED <<dirty, writer>>
  <2>1. Write(r, dirty)
    BY <1>2, <1>7 DEF Write
  <2>2. k \in dirty.active /\ dirty \in Database /\ Sound(dirty) /\ Follows(View(r), dirty)
    BY <1>2, <1>7 DEF TypeOK, Follows
  <2> QED BY <1>2, <1>3, <1>5, <1>6, <2>1, <2>2, WriteStep
<1>8. CASE k \in NewKeys(r) /\ Write(r, ReplaceKey(View(r), k))
  <2>1. k \in Key \ View(r).keys
    BY <1>8 DEF NewKeys
  <2>2. LET e == ReplaceKey(View(r), k) IN
          e \in Database /\ Sound(e) /\ Follows(View(r), e) /\ k \in e.active
    BY <2>1, ViewSound, ReplaceKeyKeeps
  <2> QED BY <1>2, <1>3, <1>5, <1>6, <1>8, <2>2, WriteStep
<1> QED BY <1>1, <1>7, <1>8

LEMMA InsertTokenKeeps ==
  ASSUME DatabaseInvariant, NEW r \in Request, InsertToken(r)
  PROVE  DatabaseInvariant'
<1> USE DEF DatabaseInvariant
<1>1. /\ req[r].pc = "insert" /\ writer = r /\ View(r) = dirty
      /\ req[r].key \in dirty.active /\ req[r].claims \in Claims
      /\ UNCHANGED <<db, clock, setting>> /\ Goto(r, "commit")
  BY DEF InsertToken, HoldsLock, View, TypeOK, RequestState
<1>2. PICK t \in Token \ Issued(dirty) :
        Write(r, [dirty EXCEPT !.signed[t] = req[r].key, !.claims[t] = req[r].claims])
  BY <1>1 DEF InsertToken, NewTokens
<1> DEFINE d == [dirty EXCEPT !.signed[t] = req[r].key, !.claims[t] = req[r].claims]
           x == [req[r] EXCEPT !.pc = "commit"]
<1>3. d \in Database /\ Sound(d) /\ Follows(View(r), d)
  BY <1>1, InsertKeeps DEF TypeOK
<1>4. /\ x \in RequestState /\ req' = [req EXCEPT ![r] = x] /\ x.pc = "commit"
      /\ x.op = req[r].op /\ x.token = req[r].token /\ x.good = req[r].good
  BY <1>1, GotoState DEF PC
<1>5. x.op = "renew" => x.good
  BY <1>1, <1>4 DEF PastVerify
<1>6. Write(r, d)
  BY <1>2
<1> HIDE DEF x, d
<1> QED BY <1>1, <1>3, <1>4, <1>5, <1>6, WriteStep

LEMMA RotateKeyKeeps ==
  ASSUME DatabaseInvariant, NEW r \in Request, RotateKey(r)
  PROVE  DatabaseInvariant'
<1> USE DEF DatabaseInvariant
<1>1. req[r].pc = "rotate" /\ UNCHANGED <<db, clock, setting>> /\ Goto(r, "commit")
  BY DEF RotateKey
<1>2. PICK k \in Key \ View(r).keys : Write(r, ReplaceKey(View(r), k))
  BY DEF RotateKey, NewKeys
<1> DEFINE d == ReplaceKey(View(r), k)
           x == [req[r] EXCEPT !.pc = "commit"]
<1>3. d \in Database /\ Sound(d) /\ Follows(View(r), d)
  BY ViewSound, ReplaceKeyKeeps
<1>4. /\ x \in RequestState /\ req' = [req EXCEPT ![r] = x] /\ x.pc = "commit"
      /\ x.op = req[r].op /\ x.token = req[r].token /\ x.good = req[r].good
  BY <1>1, GotoState DEF PC
<1>5. x.op # "renew"
  BY <1>1, <1>4 DEF PastVerify
<1>6. Write(r, d)
  BY <1>2
<1> HIDE DEF x, d
<1> QED BY <1>1, <1>3, <1>4, <1>5, <1>6, WriteStep

LEMMA RevokeMarksKeeps ==
  ASSUME DatabaseInvariant, NEW r \in Request, RevokeMarks(r)
  PROVE  DatabaseInvariant'
<1> USE DEF DatabaseInvariant
<1>1. req[r].pc = "mark" /\ UNCHANGED <<db, clock, setting>> /\ Goto(r, "commit")
  BY DEF RevokeMarks
<1>2. req[r].good /\ req[r].token \in Token
  BY <1>1 DEF PastVerify, TypeOK, RequestState
<1> DEFINE d == [View(r) EXCEPT !.revoked = @ \cup {req[r].token}]
           x == [req[r] EXCEPT !.pc = "commit"]
<1>3. d \in Database /\ Sound(d) /\ Follows(View(r), d)
  BY <1>2, ViewSound, RevokeKeeps
<1>4. /\ x \in RequestState /\ req' = [req EXCEPT ![r] = x] /\ x.pc = "commit"
      /\ x.op = req[r].op /\ x.token = req[r].token /\ x.good = req[r].good
  BY <1>1, GotoState DEF PC
<1>5. Write(r, d)
  BY DEF RevokeMarks
<1> HIDE DEF x, d
<1> QED BY <1>1, <1>2, <1>3, <1>4, <1>5, WriteStep

LEMMA CreateBeginsKeeps ==
  ASSUME DatabaseInvariant, NEW r \in Request, CreateBegins(r)
  PROVE  DatabaseInvariant'
<1> USE DEF DatabaseInvariant
<1>1. /\ req[r].pc = "begin" /\ UNCHANGED <<db, clock, setting>> /\ Goto(r, "select")
      /\ writer = None /\ writer' = r /\ dirty' = db
  BY DEF CreateBegins, BeginImmediate
<1> DEFINE x == [req[r] EXCEPT !.pc = "select"]
<1>2. /\ x \in RequestState /\ req' = [req EXCEPT ![r] = x] /\ x.pc = "select"
      /\ x.op = req[r].op /\ x.token = req[r].token /\ x.good = req[r].good
  BY <1>1, GotoState DEF PC
<1> HIDE DEF x
<1>3. x.token # None => x.token \in Issued(db') /\ (x.good \/ ~Valid(db', x.token))
  BY <1>1, <1>2 DEF BadStaysBad
<1>4. x.op = "renew" => x.good
  BY <1>1, <1>2 DEF PastVerify
<1>5. /\ db' \in Database /\ Sound(db') /\ Follows(db, db')
      /\ dirty' \in Database /\ Sound(dirty') /\ Follows(db', dirty')
      /\ writer' = None => dirty' = db'
  BY <1>1 DEF TypeOK, Follows
<1> QED BY <1>1, <1>2, <1>3, <1>4, <1>5, RequestStep

LEMMA CommitKeeps ==
  ASSUME DatabaseInvariant, NEW r \in Request, Commit(r)
  PROVE  DatabaseInvariant'
<1> USE DEF DatabaseInvariant
<1>1. /\ db' = dirty /\ dirty' = dirty /\ writer = r /\ writer' = None
      /\ req' = [req EXCEPT ![r] = Idle] /\ UNCHANGED <<clock, setting>>
  BY DEF Commit, HoldsLock, Done
<1>2. /\ db' \in Database /\ Sound(db') /\ Follows(db, db')
      /\ dirty' \in Database /\ Sound(dirty') /\ Follows(db', dirty')
  BY <1>1 DEF TypeOK, Follows
<1> QED BY <1>1, <1>2, IdleState, RequestStep

LEMMA FailsKeeps ==
  ASSUME DatabaseInvariant, NEW r \in Request, Fails(r)
  PROVE  DatabaseInvariant'
<1> USE DEF DatabaseInvariant
<1>1. /\ writer' = IF writer = r THEN None ELSE writer
      /\ dirty' = IF writer = r THEN db ELSE dirty
      /\ req' = [req EXCEPT ![r] = Idle] /\ UNCHANGED <<db, clock, setting>>
  BY DEF Fails, Done
<1>2. /\ db' \in Database /\ Sound(db') /\ Follows(db, db')
      /\ dirty' \in Database /\ Sound(dirty') /\ Follows(db', dirty')
      /\ writer' = None => dirty' = db'
  BY <1>1 DEF TypeOK, Follows
<1> QED BY <1>1, <1>2, IdleState, RequestStep

LEMMA CoreStartsKeeps ==
  ASSUME DatabaseInvariant, CoreStarts, clock' \in [real : Nat, wall : Nat, up : Nat, boot : Nat]
  PROVE  DatabaseInvariant' /\ Follows(db, db')
<1> USE DEF DatabaseInvariant
<1>1. /\ dirty' = db' /\ writer' = None /\ req' = [r \in Request |-> Idle] /\ setting' = setting
  BY DEF CoreStarts
<1>2. db' \in Database /\ Sound(db') /\ Follows(db, db')
  <2>1. CASE db' = db
    BY <2>1 DEF TypeOK, Follows
  <2>2. CASE db' = [db EXCEPT !.revoked = @ \cup RevokedFor(db, PamClient)]
    <3>1. RevokedFor(db, PamClient) \in SUBSET Token
      BY DEF RevokedFor, Issued
    <3> QED BY <2>2, <3>1, RevokeKeeps DEF TypeOK
  <2> QED BY <2>1, <2>2 DEF CoreStarts
<1>3. TypeOK'
  BY <1>1, <1>2, IdleState DEF TypeOK
<1>4. LockHolderWillCommit' /\ HoldsLock' /\ BadStaysBad' /\ PastVerify'
  BY <1>1, IdleState DEF LockHolderWillCommit, HoldsLock, BadStaysBad, PastVerify
<1>5. Sound(dirty') /\ Follows(db', dirty')
  BY <1>1, <1>2 DEF Follows
<1> QED BY <1>1, <1>2, <1>3, <1>4, <1>5

(* Time and clocks do not touch the database.                                *)
LEMMA ClockKeeps ==
  ASSUME DatabaseInvariant, Tick \/ SetClock
  PROVE  DatabaseInvariant' /\ db' = db
<1>1. /\ UNCHANGED <<db, dirty, writer, req, setting>>
      /\ clock' \in [real : Nat, wall : Nat, up : Nat, boot : Nat]
  <2>1. CASE Tick
    BY <2>1 DEF Tick, DatabaseInvariant, TypeOK
  <2>2. CASE SetClock
    <3>1. PICK w \in 0..MaxTime : clock' = [clock EXCEPT !.wall = w]
      BY <2>2 DEF SetClock
    <3>2. w \in Nat
      BY <3>1, TokensAssumption
    <3> QED BY <2>2, <3>1, <3>2 DEF SetClock, DatabaseInvariant, TypeOK
  <2> QED BY <2>1, <2>2
<1>2. TypeOK'
  BY <1>1 DEF DatabaseInvariant, TypeOK
<1>3. /\ Sound(db') /\ Sound(dirty') /\ Follows(db', dirty') /\ (writer' = None => dirty' = db')
      /\ LockHolderWillCommit' /\ HoldsLock' /\ BadStaysBad' /\ PastVerify'
  BY <1>1 DEF DatabaseInvariant, LockHolderWillCommit, HoldsLock, BadStaysBad, PastVerify
<1> QED BY <1>1, <1>2, <1>3 DEF DatabaseInvariant

LEMMA RestartKeeps ==
  ASSUME DatabaseInvariant, Restart \/ Reboot
  PROVE  DatabaseInvariant' /\ Follows(db, db')
<1>1. CoreStarts /\ clock' \in [real : Nat, wall : Nat, up : Nat, boot : Nat]
  <2>1. CASE Restart
    BY <2>1 DEF Restart, DatabaseInvariant, TypeOK
  <2>2. CASE Reboot
    <3>1. PICK w \in 0..MaxTime :
            clock' = [real |-> clock.real, wall |-> w, up |-> 0, boot |-> clock.boot + 1]
      BY <2>2 DEF Reboot
    <3>2. w \in Nat
      BY <3>1, TokensAssumption
    <3> QED BY <2>2, <3>1, <3>2 DEF Reboot, DatabaseInvariant, TypeOK
  <2> QED BY <2>1, <2>2
<1> QED BY <1>1, CoreStartsKeeps

(* What is committed follows what was committed: no commit brings a token back *)
LEMMA DatabaseFollows ==
  ASSUME DatabaseInvariant, [Next]_vars
  PROVE  Follows(db, db')
<1>1. CASE db' = db
  BY <1>1 DEF Follows
<1>2. CASE \E r \in Request : Commit(r)
  <2>1. db' = dirty
    BY <1>2 DEF Commit
  <2> QED BY <2>1 DEF DatabaseInvariant
<1>3. CASE Restart \/ Reboot
  BY <1>3, RestartKeeps
<1>4. CASE ~(Restart \/ Reboot) /\ ~(\E r \in Request : Commit(r))
  <2>1. db' = db
    BY <1>4 DEF Next, vars, Step, Fails, CreateBegins, SelectKey, InsertToken, RotateKey,
       VerifyToken, VerifyKey, Serve, RevokeReads, RevokeMarks, Arrives, Tick, SetClock, ReadOnly
  <2> QED BY <2>1, <1>1
<1> QED BY <1>2, <1>3, <1>4

LEMMA DatabaseStep ==
  ASSUME DatabaseInvariant, [Next]_vars
  PROVE  DatabaseInvariant'
<1>1. CASE UNCHANGED vars
  BY <1>1 DEF vars, DatabaseInvariant, TypeOK, LockHolderWillCommit, HoldsLock, BadStaysBad,
     PastVerify
<1>2. ASSUME NEW r \in Request, Step(r) PROVE DatabaseInvariant'
  BY <1>2, CommitKeeps, FailsKeeps, CreateBeginsKeeps, SelectKeyKeeps, InsertTokenKeeps,
     RotateKeyKeeps, ReadsKeep, RevokeMarksKeeps DEF Step
<1>3. ASSUME NEW r \in Request, Arrives(r) PROVE DatabaseInvariant'
  BY <1>3, ArrivesKeeps
<1> QED BY <1>1, <1>2, <1>3, ClockKeeps, RestartKeeps DEF Next

LEMMA DatabaseInit == Init => DatabaseInvariant
<1> SUFFICES ASSUME Init PROVE DatabaseInvariant
  OBVIOUS
<1>1. NoClaims \in Claims
  BY TokensAssumption DEF NoClaims
<1>2. db \in Database /\ Sound(db)
  <2>1. CASE db = EmptyDatabase
    BY <1>1, <2>1 DEF EmptyDatabase, Database, Sound, OneActive, LiveUseActive, Issued
  <2>2. CASE \E k \in Key, t \in Token, d \in Device :
               db = [EmptyDatabase EXCEPT !.keys = {k}, !.active = {k}, !.signed[t] = k,
                                          !.claims[t].device = d]
    <3>1. PICK k \in Key, t \in Token, d \in Device :
            db = [EmptyDatabase EXCEPT !.keys = {k}, !.active = {k}, !.signed[t] = k,
                                       !.claims[t].device = d]
      BY <2>2
    <3>2. /\ db.keys = {k} /\ db.active = {k} /\ db.revoked = {}
          /\ db.signed = [[u \in Token |-> None] EXCEPT ![t] = k]
          /\ db.claims = [[u \in Token |-> NoClaims] EXCEPT ![t].device = d]
          /\ db = [keys |-> db.keys, active |-> db.active, signed |-> db.signed,
                   claims |-> db.claims, revoked |-> db.revoked]
      BY <3>1 DEF EmptyDatabase
    <3>3. [NoClaims EXCEPT !.device = d] \in Claims
      BY <1>1
    <3>4. db.claims \in [Token -> Claims]
      BY <1>1, <3>2, <3>3
    <3>5. /\ db.signed \in [Token -> Key \cup {None}]
          /\ \A u \in Token : db.signed[u] # None => db.signed[u] = k
      BY <3>2
    <3>6. db \in Database
      BY <3>2, <3>4, <3>5 DEF Database
    <3> QED BY <3>2, <3>5, <3>6 DEF Sound, OneActive, LiveUseActive, Issued
  <2> QED BY <2>1, <2>2 DEF Init
<1>3. dirty = db /\ writer = None /\ req = [r \in Request |-> Idle]
  BY DEF Init
<1>4. TypeOK
  BY <1>2, <1>3, IdleState DEF TypeOK, Init
<1>5. Follows(db, dirty)
  BY <1>3 DEF Follows
<1>6. LockHolderWillCommit /\ HoldsLock /\ BadStaysBad /\ PastVerify
  BY <1>3, IdleState DEF LockHolderWillCommit, HoldsLock, BadStaysBad, PastVerify
<1> QED BY <1>2, <1>3, <1>4, <1>5, <1>6 DEF DatabaseInvariant

-------------------------------------------------------------------------------
(* Theorems *)

(* The inductive invariant, the type invariant included.                     *)
THEOREM DatabaseInvariance == Spec => []DatabaseInvariant
<1>1. Init => DatabaseInvariant
  BY DatabaseInit
<1>2. DatabaseInvariant /\ [Next]_vars => DatabaseInvariant'
  BY DatabaseStep
<1> QED BY <1>1, <1>2, PTL DEF Spec

(* create_token and rotate_key never commit two active signing keys.         *)
THEOREM OneKeyIsActive == Spec => []OneActiveKey
<1>1. DatabaseInvariant => OneActiveKey
  BY DEF DatabaseInvariant, Sound, OneActiveKey
<1> QED BY <1>1, DatabaseInvariance, PTL

(* BEGIN IMMEDIATE and the revocations of rotate_key leave no live token of a *)
(* replaced key.                                                              *)
THEOREM LiveTokensAreSound == Spec => []LiveTokensUseActiveKey
<1>1. DatabaseInvariant => LiveTokensUseActiveKey
  BY DEF DatabaseInvariant, Sound, LiveTokensUseActiveKey
<1> QED BY <1>1, DatabaseInvariance, PTL

(* verify_token's two reads accept only what was valid when the request came. *)
THEOREM OnlyValidAccepted == Spec => []AcceptedWasValid
<1>1. DatabaseInvariant => AcceptedWasValid
  BY DEF DatabaseInvariant, PastVerify, AcceptedWasValid, Accepted
<1> QED BY <1>1, DatabaseInvariance, PTL

(* No commit, rollback or restart makes a token valid again.                 *)
THEOREM RevocationIsFinal == Spec => NeverValidAgain
<1>1. DatabaseInvariant /\ [Next]_vars =>
        [\A t \in Issued(db) : ~Valid(db, t) => ~Valid(db', t)]_vars
  BY DatabaseFollows DEF Follows
<1> QED BY <1>1, DatabaseInvariance, PTL DEF Spec, NeverValidAgain

-------------------------------------------------------------------------------
(* Lifetimes *)

(* Claims made in this boot are as old by CLOCK_BOOTTIME as they truly are.  *)
Fits(c) ==
  /\ c.boot <= clock.boot
  /\ c.boot = clock.boot => clock.up - c.up = clock.real - c.made

AgesAgree ==
  /\ clock.boot >= 1
  /\ \A t \in Token : Fits(db.claims[t]) /\ Fits(dirty.claims[t])
  /\ \A r \in Request : Fits(req[r].claims)

(* Claims are stamped when a request comes in or renews, inserted, committed  *)
(* or dropped, and never changed.                                             *)
ClaimsMove ==
  /\ \A q \in Request :
       req'[q].claims \in {req[q].claims, NoClaims} \cup {Stamp(d) : d \in Device}
  /\ \A t \in Token : db'.claims[t] \in {db.claims[t], dirty.claims[t]}
  /\ \A t \in Token :
       dirty'.claims[t] \in {db.claims[t], dirty.claims[t]} \cup {req[q].claims : q \in Request}

LEMMA MovedClaimsFit ==
  ASSUME DatabaseInvariant, AgesAgree, ClaimsMove, UNCHANGED clock
  PROVE  AgesAgree'
<1>1. Fits(NoClaims) /\ \A d \in Device : Fits(Stamp(d))
  BY DEF AgesAgree, Fits, NoClaims, Stamp, DatabaseInvariant, TypeOK
<1>2. /\ \A q \in Request : Fits(req'[q].claims)
      /\ \A t \in Token : Fits(db'.claims[t]) /\ Fits(dirty'.claims[t])
  BY <1>1 DEF AgesAgree, ClaimsMove
<1> QED BY <1>2 DEF AgesAgree, Fits

LEMMA ClaimsStep ==
  ASSUME DatabaseInvariant, NEW r \in Request, Step(r) \/ Arrives(r)
  PROVE  ClaimsMove
<1> USE DEF DatabaseInvariant
<1>1. \A q \in Request : req'[q].claims \in {req[q].claims, NoClaims} \cup {Stamp(d) : d \in Device}
  <2>1. CASE Done(r)
    BY <2>1 DEF Done, Idle, Handler, TypeOK
  <2>2. CASE \E p \in PC : Goto(r, p)
    BY <2>2 DEF Goto, TypeOK, RequestState
  <2>3. CASE SelectKey(r)
    <3>1. PICK k \in Key : req' = [req EXCEPT ![r].key = k, ![r].pc = "insert"]
      BY <2>3 DEF SelectKey
    <3> QED BY <3>1 DEF TypeOK, RequestState
  <2>4. CASE VerifyKey(r) /\ ~Done(r) /\ ~\E p \in PC : Goto(r, p)
    <3>1. /\ req' = [req EXCEPT ![r].claims = Stamp(db.claims[req[r].token].device),
                               ![r].pc = "begin"]
          /\ req[r].pc = "key"
      BY <2>4 DEF VerifyKey, PC
    <3>2. req[r].token \in Token
      BY <3>1 DEF PastVerify, TypeOK, RequestState
    <3>3. db.claims[req[r].token].device \in Device
      BY <3>2 DEF TypeOK, Database
    <3> QED BY <3>1, <3>3 DEF TypeOK, RequestState
  <2>5. CASE Arrives(r)
    BY <2>5 DEF Arrives, Present, Handler, TypeOK
  <2> QED BY <2>1, <2>2, <2>3, <2>4, <2>5 DEF Step, Commit, Fails, CreateBegins, InsertToken,
          RotateKey, VerifyToken, Serve, RevokeReads, RevokeMarks, PC
<1>2. \A t \in Token : db'.claims[t] \in {db.claims[t], dirty.claims[t]}
  <2>1. db' \in {db, dirty}
    BY DEF Step, Commit, Fails, CreateBegins, SelectKey, InsertToken, RotateKey, VerifyToken,
       VerifyKey, Serve, RevokeReads, RevokeMarks, Arrives, ReadOnly
  <2> QED BY <2>1
<1>3. \A t \in Token :
        dirty'.claims[t] \in {db.claims[t], dirty.claims[t]} \cup {req[q].claims : q \in Request}
  <2>1. CASE dirty' \in {db, dirty}
    BY <2>1
  <2>2. View(r) \in {db, dirty} /\ View(r) \in Database
    BY ViewSound DEF View
  <2>3. ASSUME NEW k \in Key, dirty' = ReplaceKey(View(r), k)
        PROVE  dirty'.claims = View(r).claims
    BY <2>2, <2>3 DEF ReplaceKey, Database
  <2>4. CASE InsertToken(r)
    <3>1. PICK t \in Token :
            dirty' = [View(r) EXCEPT !.signed[t] = req[r].key, !.claims[t] = req[r].claims]
      BY <2>4 DEF InsertToken, NewTokens, Write
    <3>2. dirty'.claims = [View(r).claims EXCEPT ![t] = req[r].claims]
      BY <2>2, <3>1 DEF Database
    <3> QED BY <2>2, <3>2 DEF Database
  <2>5. CASE RevokeMarks(r)
    <3>1. dirty' = [View(r) EXCEPT !.revoked = @ \cup {req[r].token}]
      BY <2>5 DEF RevokeMarks, Write
    <3>2. dirty'.claims = View(r).claims
      BY <2>2, <3>1 DEF Database
    <3> QED BY <2>2, <3>2
  <2>6. CASE SelectKey(r) \/ RotateKey(r)
    <3>1. dirty' = dirty \/ \E k \in Key : dirty' = ReplaceKey(View(r), k)
      BY <2>6 DEF SelectKey, RotateKey, NewKeys, Write
    <3> QED BY <2>1, <2>2, <2>3, <3>1
  <2>7. CASE ~(InsertToken(r) \/ RevokeMarks(r) \/ SelectKey(r) \/ RotateKey(r))
    <3>1. dirty' \in {db, dirty}
      BY <2>7 DEF Step, Commit, Fails, CreateBegins, BeginImmediate, VerifyToken, VerifyKey, Serve,
         RevokeReads, Arrives, ReadOnly
    <3> QED BY <2>1, <3>1
  <2> QED BY <2>4, <2>5, <2>6, <2>7
<1> QED BY <1>1, <1>2, <1>3 DEF ClaimsMove

LEMMA AgesStep ==
  ASSUME DatabaseInvariant, AgesAgree, [Next]_vars
  PROVE  AgesAgree'
<1> USE DEF DatabaseInvariant
<1>0. /\ \A t \in Token : db.claims[t] \in Claims /\ dirty.claims[t] \in Claims
      /\ \A q \in Request : req[q].claims \in Claims
      /\ clock \in [real : Nat, wall : Nat, up : Nat, boot : Nat]
  BY DEF TypeOK, Database, RequestState
<1>1. CASE UNCHANGED vars
  BY <1>1 DEF vars, AgesAgree, Fits
<1>2. ASSUME NEW r \in Request, Step(r) \/ Arrives(r) PROVE AgesAgree'
  <2>1. UNCHANGED clock
    BY <1>2 DEF Step, Commit, Fails, CreateBegins, SelectKey, InsertToken, RotateKey, VerifyToken,
       VerifyKey, Serve, RevokeReads, RevokeMarks, Arrives
  <2> QED BY <1>2, <2>1, ClaimsStep, MovedClaimsFit
<1>3. CASE Tick
  <2>1. /\ clock'.boot = clock.boot /\ clock'.up = clock.up + 1 /\ clock'.real = clock.real + 1
        /\ UNCHANGED <<db, dirty, req>>
    BY <1>3 DEF Tick
  <2>2. ASSUME NEW c \in Claims, Fits(c)
        PROVE  /\ c.boot <= clock'.boot
               /\ c.boot = clock'.boot => clock'.up - c.up = clock'.real - c.made
    BY <1>0, <2>1, <2>2 DEF Fits
  <2> QED BY <1>0, <2>1, <2>2 DEF AgesAgree, Fits
<1>4. CASE SetClock
  <2>1. /\ clock'.boot = clock.boot /\ clock'.up = clock.up /\ clock'.real = clock.real
        /\ UNCHANGED <<db, dirty, req>>
    BY <1>4, <1>0 DEF SetClock
  <2> QED BY <2>1 DEF AgesAgree, Fits
<1>5. ASSUME CoreStarts
      PROVE  /\ \A t \in Token : /\ db'.claims[t] = db.claims[t]
                                /\ dirty'.claims[t] = db.claims[t]
             /\ \A q \in Request : req'[q].claims = NoClaims
  <2>1. db'.claims = db.claims
    BY <1>5 DEF CoreStarts, TypeOK, Database
  <2> QED BY <1>5, <2>1 DEF CoreStarts, Idle, Handler
<1>6. CASE Restart
  <2>1. CoreStarts /\ clock' = clock
    BY <1>6 DEF Restart
  <2>2. Fits(NoClaims)
    BY <1>0 DEF Fits, NoClaims, AgesAgree
  <2> QED BY <1>5, <2>1, <2>2 DEF AgesAgree, Fits
<1>7. CASE Reboot
  <2>1. CoreStarts /\ clock'.boot = clock.boot + 1
    BY <1>7 DEF Reboot
  <2>2. \A c \in Claims : Fits(c) => c.boot < clock'.boot
    BY <1>0, <2>1 DEF Fits
  <2>3. NoClaims.boot < clock'.boot
    BY <1>0, <2>1 DEF NoClaims
  <2>4. /\ \A t \in Token : db'.claims[t].boot < clock'.boot /\ dirty'.claims[t].boot < clock'.boot
        /\ \A q \in Request : req'[q].claims.boot < clock'.boot
        /\ clock'.boot >= 1
    BY <1>0, <1>5, <2>1, <2>2, <2>3 DEF AgesAgree
  <2>5. /\ \A t \in Token : db'.claims[t].boot \in Nat /\ dirty'.claims[t].boot \in Nat
        /\ \A q \in Request : req'[q].claims.boot \in Nat
        /\ clock'.boot \in Nat
    BY <1>0, <1>5, <2>1 DEF NoClaims
  <2> QED BY <2>4, <2>5 DEF AgesAgree, Fits
<1> QED BY <1>1, <1>2, <1>3, <1>4, <1>6, <1>7 DEF Next

(* In the boot that made it a token is good for exactly its lifetime, however *)
(* the wall clock is set and whatever restarts.                              *)
THEOREM LifetimeIsMonotonic == Spec => []SameBootMonotonic
<1>1. Init => AgesAgree
  <2> SUFFICES ASSUME Init PROVE AgesAgree
    OBVIOUS
  <2>1. \A t \in Token : db.claims[t].boot = 0
    <3>1. CASE db = EmptyDatabase
      BY <3>1 DEF EmptyDatabase, NoClaims
    <3>2. CASE \E k \in Key, t \in Token, d \in Device :
                 db = [EmptyDatabase EXCEPT !.keys = {k}, !.active = {k}, !.signed[t] = k,
                                            !.claims[t].device = d]
      <4>0. PICK k \in Key, t \in Token, d \in Device :
              db = [EmptyDatabase EXCEPT !.keys = {k}, !.active = {k}, !.signed[t] = k,
                                         !.claims[t].device = d]
        BY <3>2
      <4>1. db.claims = [[u \in Token |-> NoClaims] EXCEPT ![t].device = d]
        BY <4>0 DEF EmptyDatabase
      <4>2. \A u \in Token : db.claims[u] \in {NoClaims, [NoClaims EXCEPT !.device = d]}
        BY <4>1
      <4>3. [NoClaims EXCEPT !.device = d].boot = 0 /\ NoClaims.boot = 0
        BY DEF NoClaims
      <4> QED BY <4>2, <4>3
    <3> QED BY <3>1, <3>2 DEF Init
  <2>2. /\ dirty = db /\ clock.boot = 1
        /\ \A r \in Request : req[r].claims.boot = 0
    BY DEF Init, Idle, Handler, NoClaims
  <2> QED BY <2>1, <2>2 DEF AgesAgree, Fits
<1>2. DatabaseInvariant /\ AgesAgree /\ [Next]_vars => AgesAgree'
  BY AgesStep
<1>3. DatabaseInvariant /\ AgesAgree => SameBootMonotonic
  <2> SUFFICES ASSUME DatabaseInvariant, AgesAgree, NEW t \in Issued(db),
                      db.claims[t].boot = clock.boot
               PROVE  Lifetime(db.claims[t]) = "ok" <=> clock.real - db.claims[t].made < Life
    BY DEF SameBootMonotonic
  <2> DEFINE c == db.claims[t]
  <2>1. t \in Token /\ c \in Claims /\ clock \in [real : Nat, wall : Nat, up : Nat, boot : Nat]
    BY DEF DatabaseInvariant, TypeOK, Database, Issued
  <2>2. clock.up - c.up = clock.real - c.made
    BY <2>1 DEF AgesAgree, Fits
  <2>3. Lifetime(c) = IF clock.up >= c.up + Life THEN "expired" ELSE "ok"
    BY <2>1, TokensAssumption DEF Lifetime
  <2> QED BY <2>1, <2>2, <2>3, TokensAssumption
<1> QED BY <1>1, <1>2, <1>3, DatabaseInvariance, PTL DEF Spec
===============================================================================
