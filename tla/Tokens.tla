-------------------------------- MODULE Tokens --------------------------------
(***************************************************************************)
(* Bearer tokens and their signing keys (core/token.py) as the endpoints   *)
(* of api_v1/endpoints/auth_api.py use them: requests that read and write  *)
(* one SQLite database, each in a session of its own, while the wall clock *)
(* is corrected and Core or the device restarts.                           *)
(*                                                                         *)
(* SQLite lets one connection write at a time (`writer`), from its first   *)
(* write, or its BEGIN IMMEDIATE, to its commit; the others keep reading   *)
(* what is committed.  A read outside a transaction sees one moment, so a  *)
(* handler that reads twice may see two.                                   *)
(***************************************************************************)
EXTENDS Integers, FiniteSets

CONSTANTS
  Request,      \* REST requests in progress at a time
  Key,          \* signing keys that may be generated
  Token,        \* tokens that may be generated; their random ids differ
  Device,       \* device ids
  PamClient,    \* PAM_CLIENT_DEVICE_ID, minted over HMAC only and revoked at start up
  None,
  Life,         \* ACCESS_TOKEN_EXPIRE_DAYS, in ticks
  Skew,         \* CLOCK_SKEW_TOLERANCE_SEC, in ticks
  MaxTime,      \* bound on the time that passes and on the wall clock
  MaxBoot,      \* bound on the number of boots
  Settings      \* bounds on a behaviour, one of several: requests at a time, keys,
                \* tokens, and whether time passes

ASSUME TokensAssumption ==
  /\ PamClient \in Device
  /\ None \notin Request \cup Key \cup Token
  /\ Life \in Nat \ {0} /\ Skew \in Nat /\ MaxTime \in Nat /\ MaxBoot \in Nat
  /\ Settings \subseteq [requests : Nat, keys : Nat, tokens : Nat, clocks : BOOLEAN]

VARIABLES
  db,       \* the committed database
  dirty,    \* what the writer sees and will commit; db when nobody writes
  writer,   \* the request whose transaction holds the write lock
  req,      \* what each request is at
  clock,    \* true time, wall clock, CLOCK_BOOTTIME and boot id
  setting

vars == <<db, dirty, writer, req, clock, setting>>

(* When and for whom a token is made: its did, iat, bid and bexp - lifetime  *)
(* claims, with the true time for the properties.  Boot 0 stands for the      *)
(* tokens of older versions, which have no bid.                               *)
Claims == [device : Device, iat : Nat, boot : Nat, up : Nat, made : Nat]
NoClaims == [device |-> PamClient, iat |-> 0, boot |-> 0, up |-> 0, made |-> 0]

(* signing_keys (keys, active) and tokens (signed: their key, claims, revoked) *)
Database ==
  [keys : SUBSET Key, active : SUBSET Key,
   signed : [Token -> Key \cup {None}], claims : [Token -> Claims], revoked : SUBSET Token]

(* "token" and "key" are the two reads of verify_token, "begin" to "insert"   *)
(* create_token, "read" and "mark" revoke_token.  `good` is history: whether  *)
(* the token the request carries was valid when the request came in.          *)
PC == {"idle", "token", "key", "serve", "begin", "select", "insert", "rotate", "read", "mark",
       "commit"}
Op == {"use", "renew", "delete", "mint", "rotate"}

RequestState ==
  [op : Op, pc : PC, token : Token \cup {None}, key : Key \cup {None}, claims : Claims,
   good : BOOLEAN]

TypeOK ==
  /\ db \in Database
  /\ dirty \in Database
  /\ writer \in Request \cup {None}
  /\ req \in [Request -> RequestState]
  /\ clock \in [real : Nat, wall : Nat, up : Nat, boot : Nat]
  /\ setting \in Settings

Issued(d) == {t \in Token : d.signed[t] # None}
Valid(d, t) == t \in Issued(d) /\ t \notin d.revoked /\ d.signed[t] \in d.active

Handler(op, pc, token, claims, good) ==
  [op |-> op, pc |-> pc, token |-> token, key |-> None, claims |-> claims, good |-> good]
Idle == Handler("use", "idle", None, NoClaims, FALSE)
EmptyDatabase ==
  [keys |-> {}, active |-> {}, signed |-> [t \in Token |-> None],
   claims |-> [t \in Token |-> NoClaims], revoked |-> {}]

(* The database is new, or has a key and a token of an older version         *)
Init ==
  /\ \/ db = EmptyDatabase
     \/ \E k \in Key, t \in Token, d \in Device :
          db = [EmptyDatabase EXCEPT !.keys = {k}, !.active = {k}, !.signed[t] = k,
                                     !.claims[t].device = d]
  /\ dirty = db
  /\ writer = None
  /\ req = [r \in Request |-> Idle]
  /\ clock = [real |-> 0, wall |-> 0, up |-> 0, boot |-> 1]
  /\ setting \in Settings

-------------------------------------------------------------------------------
(* Transactions *)

(* What a statement of r sees: its own uncommitted writes, or what is committed *)
View(r) == IF writer = r THEN dirty ELSE db

(* Keys and tokens r may generate, within the bounds *)
NewKeys(r) == {k \in Key \ View(r).keys : Cardinality(View(r).keys) < setting.keys}
NewTokens(r) ==
  {t \in Token \ Issued(View(r)) : Cardinality(Issued(View(r))) < setting.tokens}

BeginDeferred(r) == UNCHANGED <<writer, dirty>>                        \* mutant

(* BEGIN IMMEDIATE waits for the write lock *)
BeginImmediate(r) ==
  /\ writer = None
  /\ writer' = r
  /\ dirty' = db

(* The first write of a transaction takes the write lock, if it has not got it *)
Write(r, d) ==
  /\ writer \in {None, r}
  /\ writer' = r
  /\ dirty' = d

Goto(r, pc) == req' = [req EXCEPT ![r].pc = pc]
Done(r) == req' = [req EXCEPT ![r] = Idle]

ReadOnly == UNCHANGED <<db, dirty, writer>>

Commit(r) ==
  /\ req[r].pc = "commit"
  /\ db' = dirty
  /\ writer' = None
  /\ Done(r)
  /\ UNCHANGED <<dirty, clock, setting>>

(* A statement or a commit fails, a wait for the lock times out: rolled back *)
Fails(r) ==
  /\ req[r].pc \notin {"idle", "serve"}
  /\ writer' = IF writer = r THEN None ELSE writer
  /\ dirty' = IF writer = r THEN db ELSE dirty
  /\ Done(r)
  /\ UNCHANGED <<db, clock, setting>>

-------------------------------------------------------------------------------
(* create_token and rotate_key *)

(* The lifetime starts when create_token is called, before it waits for the lock *)
Stamp(d) ==
  [device |-> d, iat |-> clock.wall, boot |-> clock.boot, up |-> clock.up, made |-> clock.real]

AddKey(d, k) ==                                                        \* mutant
  [d EXCEPT !.keys = @ \cup {k}, !.active = @ \cup {k}]

(* Deactivate the keys, add k, revoke the tokens of every other key *)
ReplaceKey(d, k) ==
  [d EXCEPT !.keys = @ \cup {k},
            !.active = {k},
            !.revoked = @ \cup {t \in Issued(d) : d.signed[t] # k}]

CreateBegins(r) ==
  /\ req[r].pc = "begin"
  /\ BeginImmediate(r)
  /\ Goto(r, "select")
  /\ UNCHANGED <<db, clock, setting>>

(* _get_or_create_signing_key; more than one active key is an error (Fails)  *)
SelectKey(r) ==
  /\ req[r].pc = "select"
  /\ \E k \in Key :
       /\ req' = [req EXCEPT ![r].key = k, ![r].pc = "insert"]
       /\ \/ /\ View(r).active = {k}
             /\ UNCHANGED <<dirty, writer>>
          \/ /\ View(r).active = {}
             /\ k \in NewKeys(r)
             /\ Write(r, ReplaceKey(View(r), k))
  /\ UNCHANGED <<db, clock, setting>>

InsertToken(r) ==
  /\ req[r].pc = "insert"
  /\ \E t \in NewTokens(r) :
       Write(r, [View(r) EXCEPT !.signed[t] = req[r].key, !.claims[t] = req[r].claims])
  /\ Goto(r, "commit")
  /\ UNCHANGED <<db, clock, setting>>

RotateKey(r) ==
  /\ req[r].pc = "rotate"
  /\ \E k \in NewKeys(r) : Write(r, ReplaceKey(View(r), k))
  /\ Goto(r, "commit")
  /\ UNCHANGED <<db, clock, setting>>

-------------------------------------------------------------------------------
(* verify_token and revoke_token *)

ByWallClock(c) ==                                                      \* mutant
  CASE clock.wall + Skew < c.iat   -> "AUTH_CLOCK_NOT_SET"
    [] clock.wall >= c.iat + Life  -> "expired"
    [] OTHER                       -> "ok"

(* _validate_lifetime: by CLOCK_BOOTTIME in the boot that made the token, by  *)
(* the wall clock in later ones                                               *)
Lifetime(c) ==
  CASE c.boot = clock.boot /\ clock.up >= c.up + Life            -> "expired"
    [] c.boot = clock.boot /\ clock.up < c.up + Life             -> "ok"
    [] c.boot # clock.boot /\ clock.wall + Skew < c.iat          -> "AUTH_CLOCK_NOT_SET"
    [] c.boot # clock.boot /\ clock.wall >= c.iat + Life         -> "expired"
    [] OTHER                                                     -> "ok"

RevokedNotChecked(r) ==                                                \* mutant
  /\ req[r].pc = "token"
  /\ IF req[r].token # None THEN Goto(r, "key") ELSE Done(r)
  /\ ReadOnly /\ UNCHANGED <<clock, setting>>

(* get_token_by_value: the token row ...                                      *)
VerifyToken(r) ==
  /\ req[r].pc = "token"
  /\ IF req[r].token # None /\ req[r].token \notin db.revoked
       THEN Goto(r, "key")
       ELSE Done(r)
  /\ ReadOnly /\ UNCHANGED <<clock, setting>>

(* ... and then, by a select of its own, the row of its signing key           *)
KeyAccepts(r) ==
  /\ db.signed[req[r].token] \in db.active
  /\ Lifetime(db.claims[req[r].token]) = "ok"

(* What the endpoint goes on to do; it does not renew the token of PamClient  *)
VerifyKey(r) ==
  /\ req[r].pc = "key"
  /\ LET c == db.claims[req[r].token] IN
       \/ ~KeyAccepts(r) /\ Done(r)
       \/ KeyAccepts(r) /\ req[r].op = "use" /\ Goto(r, "serve")
       \/ KeyAccepts(r) /\ req[r].op = "delete" /\ Goto(r, "read")
       \/ KeyAccepts(r) /\ req[r].op = "renew" /\ c.device = PamClient /\ Done(r)
       \/ /\ KeyAccepts(r) /\ req[r].op = "renew" /\ c.device # PamClient
          /\ req' = [req EXCEPT ![r].claims = Stamp(c.device), ![r].pc = "begin"]
  /\ ReadOnly /\ UNCHANGED <<clock, setting>>

Serve(r) ==
  /\ req[r].pc = "serve"
  /\ Done(r)
  /\ ReadOnly /\ UNCHANGED <<clock, setting>>

RevokeReads(r) ==
  /\ req[r].pc = "read"
  /\ IF req[r].token \in db.revoked THEN Done(r) ELSE Goto(r, "mark")
  /\ ReadOnly /\ UNCHANGED <<clock, setting>>

RevokeToggles(r) ==                                                    \* mutant
  /\ req[r].pc = "mark"
  /\ Write(r, [View(r) EXCEPT !.revoked = IF req[r].token \in @ THEN @ \ {req[r].token}
                                                               ELSE @ \cup {req[r].token}])
  /\ Goto(r, "commit")
  /\ UNCHANGED <<db, clock, setting>>

(* The flush updates the one column of the one row that was read              *)
RevokeMarks(r) ==
  /\ req[r].pc = "mark"
  /\ Write(r, [View(r) EXCEPT !.revoked = @ \cup {req[r].token}])
  /\ Goto(r, "commit")
  /\ UNCHANGED <<db, clock, setting>>

-------------------------------------------------------------------------------
(* Requests, clocks and restarts *)

(* A client sends a token it was given, or (None) one that has no row         *)
Present(r, op) ==
  \E t \in Issued(db) \cup {None} :
    req' = [req EXCEPT ![r] = Handler(op, "token", t, NoClaims, t # None /\ Valid(db, t))]

Arrives(r) ==
  /\ req[r].pc = "idle"
  /\ Cardinality({q \in Request : req[q].pc # "idle"}) < setting.requests
  /\ \/ \E op \in {"use", "renew", "delete"} : Present(r, op)
     \/ \E d \in Device :
          req' = [req EXCEPT ![r] = Handler("mint", "begin", None, Stamp(d), FALSE)]
     \/ req' = [req EXCEPT ![r] = Handler("rotate", "rotate", None, NoClaims, FALSE)]
  /\ ReadOnly /\ UNCHANGED <<clock, setting>>

Tick ==
  /\ setting.clocks
  /\ clock.real < MaxTime /\ clock.wall < MaxTime
  /\ clock' = [real |-> clock.real + 1, wall |-> clock.wall + 1, up |-> clock.up + 1,
               boot |-> clock.boot]
  /\ UNCHANGED <<db, dirty, writer, req, setting>>

(* The wall clock is set, by NTP or by hand                                   *)
SetClock ==
  /\ setting.clocks
  /\ \E w \in 0..MaxTime : clock' = [clock EXCEPT !.wall = w]
  /\ UNCHANGED <<db, dirty, writer, req, setting>>

RevokedFor(d, device) == {t \in Issued(d) : d.claims[t].device = device}

(* Core stops in whatever it was doing; at start up it revokes the tokens of  *)
(* PamClient, or logs that it could not                                       *)
CoreStarts ==
  /\ \/ db' = db
     \/ db' = [db EXCEPT !.revoked = @ \cup RevokedFor(db, PamClient)]
  /\ dirty' = db'
  /\ writer' = None
  /\ req' = [r \in Request |-> Idle]
  /\ UNCHANGED setting

Restart == CoreStarts /\ UNCHANGED clock

(* The wall clock is restored from storage, so it may be anything             *)
Reboot ==
  /\ setting.clocks
  /\ clock.boot < MaxBoot
  /\ \E w \in 0..MaxTime :
       clock' = [real |-> clock.real, wall |-> w, up |-> 0, boot |-> clock.boot + 1]
  /\ CoreStarts

Step(r) ==
  \/ Commit(r) \/ Fails(r)
  \/ CreateBegins(r) \/ SelectKey(r) \/ InsertToken(r) \/ RotateKey(r)
  \/ VerifyToken(r) \/ VerifyKey(r) \/ Serve(r)
  \/ RevokeReads(r) \/ RevokeMarks(r)

Next ==
  \/ \E r \in Request : Step(r) \/ Arrives(r)
  \/ Tick \/ SetClock \/ Restart \/ Reboot

Spec == Init /\ [][Next]_vars

-------------------------------------------------------------------------------
(* Properties *)

(* scalar_one_or_none in _get_or_create_signing_key raises when two keys are  *)
(* active: no token could be made again.                                      *)
OneActive(d) == \A j, k \in d.active : j = k
OneActiveKey == OneActive(db)

(* A token that is not revoked was signed with the active key, although the   *)
(* key is chosen in one statement and the token inserted in another, while    *)
(* other requests rotate keys.                                                *)
LiveUseActive(d) == \A t \in Issued(d) : t \notin d.revoked => d.signed[t] \in d.active
LiveTokensUseActiveKey == LiveUseActive(db)

(* A request whose token was revoked, or its key replaced, before the request *)
(* came in is not served, although token and key are read one after the other *)
(* while transactions commit in between.                                      *)
Accepted(r) ==
  \/ req[r].pc \in {"serve", "read", "mark"}
  \/ req[r].op = "renew" /\ req[r].pc \in {"begin", "select", "insert", "commit"}
AcceptedWasValid == \A r \in Request : Accepted(r) => req[r].good

(* Whatever is committed in whatever order, crashes included, a token that    *)
(* has been revoked or whose key was replaced is not valid again.             *)
NeverValidAgain ==
  [][\A t \in Issued(db) : ~Valid(db, t) => ~Valid(db', t)]_vars

(* In the boot that made it, a token is good for its lifetime, from the call  *)
(* that made it on and however often the wall clock is set (the first row of  *)
(* the table in docs/API-INTEGRATION-GUIDE.md).                               *)
SameBootMonotonic ==
  \A t \in Issued(db) :
    db.claims[t].boot = clock.boot =>
      (Lifetime(db.claims[t]) = "ok" <=> clock.real - db.claims[t].made < Life)

(* No ended request keeps the write lock: whoever has it is on its way to a   *)
(* commit, and a failure rolls it back, so nobody waits for it in vain.       *)
LockHolderWillCommit ==
  writer # None => req[writer].pc \in {"select", "insert", "commit"}
===============================================================================
