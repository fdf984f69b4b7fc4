----------------------------- MODULE ConfigClients -----------------------------
(***************************************************************************)
(* Those who change the network profiles, and what the profiles hold: the  *)
(* interactive command-line client (cli/network_config.py), which acts on  *)
(* a listing and a copy it fetched earlier, other clients of the API, and  *)
(* the endpoints (network_config_api.py) with the schemas and the store    *)
(* behind them.  A handler that does not leave the event loop is one       *)
(* action.  Activation, deactivation and deletion run in a thread, under   *)
(* network_change_lock: they begin and end, and other requests are handled *)
(* meanwhile; what they do to the device is module NetConfig's.            *)
(*                                                                         *)
(* A profile is a function from slots, the (namespace, interface) keys of  *)
(* its entries, to the security of each entry.                             *)
(***************************************************************************)
EXTENDS Naturals, FiniteSets

CONSTANTS
  Cli,        \* sessions of the command-line client
  Api,        \* other clients of the API
  Id,         \* the ids of user profiles
  Default,    \* the built-in profile
  Slot,       \* (namespace, interface) pairs
  Interface,  \* interface names
  Of,         \* [Slot -> Interface]
  Rooted,     \* slots in root
  MaxSent,    \* requests in a behaviour
  None

ASSUME ClientsAssumption ==
  /\ Of \in [Slot -> Interface] /\ Rooted \subseteq Slot
  /\ Default \notin Id /\ None \notin Id \cup Slot \cup Cli \cup Api /\ MaxSent \in Nat

Client == Cli \cup Api

(* Security types of the API, and what else the command-line client offers   *)
SecurityTypes == {"WPA2-PSK", "WPA3-PSK", "OPEN"}
Offered == SecurityTypes \cup {"802.1X"}

(* A passphrase, 64 hex digits, or the empty answer *)
Psk == {"passphrase", "hex"}
Typed == Psk \cup {"blank"}

Open == [type |-> None, psk |-> None]        \* an entry without `security`
Security(types, psks) == [type : types, psk : psks \cup {None}] \cup {Open}
Contents(securities) == UNION {[S -> securities] : S \in SUBSET Slot}
Empty == [s \in {} |-> Open]
NoFile == [s \in {None} |-> Open]

VARIABLES
  store,    \* the profile files
  current,  \* current.txt
  listing,  \* what each client was last shown: the active flag of each label
  held,     \* the copy a client is editing
  client,   \* what each client is doing, and to which profile
  request,  \* the request of each client that the server has yet to answer
  lock,     \* whose request holds network_change_lock, or None
  edited,   \* history: profiles edited since an activation last read them
  sent      \* requests so far

vars == <<store, current, listing, held, client, request, lock, edited, sent>>

Exists(id) == store[id] # NoFile

PskOK(e) ==
  \/ e.psk = None \/ e.type \notin {"WPA2-PSK", "WPA3-PSK"}
  \/ e.psk = "passphrase" \/ (e.psk = "hex" /\ e.type = "WPA2-PSK")

UniqueInterfaces(content) ==
  \A s, t \in DOMAIN content : Of[s] = Of[t] => s = t

(* The validators of NetConfig and NetSecurity *)
Valid(content) ==
  /\ UniqueInterfaces(content)
  /\ \A s \in DOMAIN content :
       content[s].type \in SecurityTypes \cup {None} /\ PskOK(content[s])

Readable(id) == Exists(id) /\ Valid(store[id])

IsActive(id) == current = id /\ Readable(id)

(* list_configs: a damaged file is listed under a label that is no id        *)
Listing == [id \in {id \in Id : Exists(id)} |-> current = id]

(* The public view: secrets are left out *)
Public(content) == [s \in DOMAIN content |-> [content[s] EXCEPT !.psk = None]]

Idle == [pc |-> "menu", id |-> None]

Init ==
  /\ \E id \in Id, s \in Slot, psk \in Psk :
       store = [i \in Id |-> IF i = id THEN [x \in {s} |-> [type |-> "WPA2-PSK", psk |-> psk]]
                             ELSE NoFile]
  /\ current = Default
  /\ listing = [c \in Cli |-> Empty] /\ held = [c \in Client |-> Empty]
  /\ client = [c \in Client |-> [pc |-> "out", id |-> None]]
  /\ request = [c \in Client |-> None]
  /\ lock = None /\ edited = {}
  /\ sent = 0

-------------------------------------------------------------------------------
(* Clients.                                                                *)

(* getjwt signs a request with the shared secret; the token lasts the session *)
Login(c) ==
  /\ client[c].pc = "out"
  /\ client' = [client EXCEPT ![c] = Idle]
  /\ UNCHANGED <<store, current, lock, edited, listing, held, request, sent>>

(* The token is revoked, or the session left: every further request gets 401 *)
LoggedOut(c) ==
  /\ client[c].pc \in {"menu", "prompt"}
  /\ client' = [client EXCEPT ![c] = [pc |-> "out", id |-> None]]
  /\ held' = [held EXCEPT ![c] = Empty]
  /\ UNCHANGED <<store, current, lock, edited, listing, request, sent>>

(* view_configs; when the request fails the former listing stays            *)
View(c) ==
  /\ c \in Cli /\ client[c].pc = "menu"
  /\ listing' = [listing EXCEPT ![c] = Listing]
  /\ UNCHANGED <<store, current, lock, edited, held, client, request, sent>>

(* One request at a time, also when the last one timed out *)
Sends(c, verb, id, body, flag) ==
  /\ request[c] = None /\ sent < MaxSent
  /\ request' = [request EXCEPT ![c] =
                   [verb |-> verb, id |-> id, body |-> body, flag |-> flag]]
  /\ sent' = sent + 1
  /\ client' = [client EXCEPT ![c] = [pc |-> "waiting", id |-> id]]
  /\ UNCHANGED <<store, current, lock, edited, listing, held>>

Choices(c) == IF c \in Cli THEN DOMAIN listing[c] ELSE Id
ShownActive(c, id) == c \in Cli /\ listing[c][id]

(* GET of the profile to edit *)
BeginEdit(c) ==
  /\ client[c].pc = "menu" /\ request[c] = None
  /\ \E id \in Choices(c) :
       /\ Readable(id)
       /\ client' = [client EXCEPT ![c] = [pc |-> "prompt", id |-> id]]
       /\ held' = [held EXCEPT ![c] = Public(store[id])]
  /\ UNCHANGED <<store, current, lock, edited, listing, request, sent>>

(* What the prompts make of one entry.  A PSK is asked for whenever the type *)
(* has one: the copy holds none to keep, and after three errors it is blank. *)
Prompted ==
  {Open} \cup [type : Offered \ {"WPA2-PSK", "WPA3-PSK"}, psk : {None}]
  \cup [type : {"WPA2-PSK", "WPA3-PSK"}, psk : Typed]

(* Any other client may also send a type alone, to keep the stored secret    *)
Answers(c) == IF c \in Cli THEN Prompted ELSE Security(SecurityTypes, Psk)

With(content, s, e) == [x \in DOMAIN content \cup {s} |-> IF x = s THEN e ELSE content[x]]

(* One entry is edited or added; those the user leaves go back as they came. *)
(* Only other clients can remove entries, with lists that leave them out.    *)
SendEdit(c) ==
  /\ client[c].pc = "prompt"
  /\ \E s \in Slot, e \in Answers(c), removes \in (IF c \in Cli THEN {FALSE} ELSE BOOLEAN) :
       Sends(c, "patch", client[c].id, With(IF removes THEN Empty ELSE held[c], s, e), removes)

(* A new profile; an id that was listed is edited instead                    *)
SendNew(c) ==
  /\ client[c].pc = "menu"
  /\ \E id \in Id \ (IF c \in Cli THEN DOMAIN listing[c] ELSE {}), s \in Slot,
        e \in Answers(c) :
       Sends(c, "post", id, With(Empty, s, e), FALSE)

(* override_active for a profile listed active, if the user says so          *)
SendActivate(c) ==
  /\ client[c].pc = "menu"
  /\ \E id \in Choices(c), override \in BOOLEAN :
       /\ c \in Cli => override = ShownActive(c, id)
       /\ Sends(c, "activate", id, Empty, override)

(* ... and for one listed inactive *)
SendDeactivate(c) ==
  /\ client[c].pc = "menu"
  /\ \E id \in Choices(c), override \in BOOLEAN :
       /\ c \in Cli => override = ~ShownActive(c, id)
       /\ Sends(c, "deactivate", id, Empty, override)

(* force=true only if the user was warned that the profile is active         *)
ForceIfShown(c, id) == ShownActive(c, id)

SendDelete(c) ==
  /\ client[c].pc = "menu"
  /\ \E id \in Choices(c) : Sends(c, "delete", id, Empty, ForceIfShown(c, id))

(* 60 s: "The server may be busy"; it may still handle the request           *)
TimesOut(c) ==
  /\ client[c].pc = "waiting"
  /\ client' = [client EXCEPT ![c] = Idle]
  /\ held' = [held EXCEPT ![c] = Empty]
  /\ UNCHANGED <<store, current, lock, edited, listing, request, sent>>

-------------------------------------------------------------------------------
(* Endpoints.                                                              *)

(* The handler of a request ends; its client, if it still waits, returns to
   the menu *)
Answered(c) ==
  /\ request' = [request EXCEPT ![c] = None]
  /\ client' = [client EXCEPT ![c] = IF @.pc = "waiting" THEN Idle ELSE @]
  /\ held' = [held EXCEPT ![c] = IF client[c].pc = "waiting" THEN Empty ELSE @]
  /\ UNCHANGED <<listing, sent>>

Asks(c, verb) == request[c] # None /\ request[c].verb = verb

(* Where the client has no roots or no namespaces it sends None, and the     *)
(* stored list stays, unless it removes them                                *)
Part(content, S) == [s \in DOMAIN content \cap S |-> content[s]]
Union(a, b) == [s \in DOMAIN a \cup DOMAIN b |-> IF s \in DOMAIN a THEN a[s] ELSE b[s]]
Replaced(stored, body, S) == IF DOMAIN Part(body, S) = {} THEN Part(stored, S) ELSE Part(body, S)
Updated(stored, body, removes) ==
  IF removes THEN body
  ELSE Union(Replaced(stored, body, Rooted), Replaced(stored, body, Slot \ Rooted))

ByInterface(stored, updated) ==                                    \* mutant
  [s \in DOMAIN updated |->
     LET same == {t \in DOMAIN stored : Of[t] = Of[s]} IN
     IF same # {} /\ updated[s].type # None /\ updated[s].psk = None
     THEN [updated[s] EXCEPT !.psk = stored[CHOOSE t \in same : TRUE].psk] ELSE updated[s]]

(* _keep_stored_secrets: an entry sent without a secret keeps its slot's     *)
KeepStoredSecrets(stored, updated) ==
  [s \in DOMAIN updated |->
     IF /\ s \in DOMAIN stored /\ stored[s].type # None
        /\ updated[s].type # None /\ updated[s].psk = None
     THEN [updated[s] EXCEPT !.psk = stored[s].psk] ELSE updated[s]]

CreateConfig(c) ==
  /\ Asks(c, "post")
  /\ LET r == request[c] IN
     /\ Valid(r.body) /\ ~Exists(r.id)
     /\ store' = [store EXCEPT ![r.id] = r.body]
  /\ UNCHANGED <<current, lock, edited>>
  /\ Answered(c)

(* edit_config refuses the active profile *)
MayEdit(id) == Readable(id) /\ ~IsActive(id)

(* The update is validated before the secrets are put back.  It does not take *)
(* the lock: the profile may be the one that is being activated.  (Its check  *)
(* and its write are two steps in module NetConfig.)                          *)
UpdateConfig(c) ==
  /\ Asks(c, "patch")
  /\ LET r == request[c]
         updated == Updated(store[r.id], r.body, r.flag) IN
     /\ Valid(r.body) /\ MayEdit(r.id) /\ Valid(updated)
     /\ store' = [store EXCEPT ![r.id] = KeepStoredSecrets(store[r.id], updated)]
     /\ edited' = edited \cup {r.id}
  /\ UNCHANGED <<current, lock>>
  /\ Answered(c)

NotLocked == TRUE                                                  \* mutant

(* network_change_lock does not wait: 409 while another change is running     *)
Free == lock = None

Takes(c) == lock' = c /\ UNCHANGED <<request, client, held, listing, sent>>
Gives(c) == lock = c /\ lock' = None /\ Answered(c)

(* get_current_config, and the repair of a current.txt whose profile cannot be *)
(* read                                                                        *)
Active == IF current # Default /\ Readable(current) THEN current ELSE Default

BeginActivate(c) ==
  /\ Asks(c, "activate") /\ Free
  /\ LET r == request[c] IN
     /\ Readable(r.id) /\ (r.flag \/ Active = Default)
     /\ edited' = edited \ {r.id}
  /\ current' = Active
  /\ UNCHANGED store
  /\ Takes(c)

(* One that fails leaves `default` in force, or what there was when its        *)
(* teardown raises                                                             *)
EndActivate(c) ==
  /\ Asks(c, "activate")
  /\ current' \in {request[c].id, Default, current}
  /\ UNCHANGED <<store, edited>>
  /\ Gives(c)

(* With override_active whatever profile is in force ends *)
BeginDeactivate(c) ==
  /\ Asks(c, "deactivate") /\ Free
  /\ LET r == request[c] IN Readable(r.id) /\ (r.flag \/ IsActive(r.id))
  /\ UNCHANGED <<store, current, edited>>
  /\ Takes(c)

EndDeactivate(c) ==
  /\ Asks(c, "deactivate")
  /\ current' = Default
  /\ UNCHANGED <<store, edited>>
  /\ Gives(c)

Unlink(id) == store' = [store EXCEPT ![id] = NoFile]

(* delete_config: the active profile is refused unless forced, and then is     *)
(* deactivated first                                                           *)
DeleteConfig(c) ==
  /\ Asks(c, "delete") /\ Free
  /\ Exists(request[c].id) /\ ~IsActive(request[c].id)
  /\ Unlink(request[c].id)
  /\ UNCHANGED <<current, lock, edited>>
  /\ Answered(c)

BeginForcedDelete(c) ==
  /\ Asks(c, "delete") /\ Free
  /\ IsActive(request[c].id) /\ request[c].flag
  /\ UNCHANGED <<store, current, edited>>
  /\ Takes(c)

EndForcedDelete(c) ==
  /\ Asks(c, "delete")
  /\ current' = Default
  /\ Unlink(request[c].id)
  /\ UNCHANGED edited
  /\ Gives(c)

(* 401, 404, 409, 422 and 500: the error is reported and nothing is changed  *)
Refused(c) ==
  /\ request[c] # None /\ lock # c
  /\ UNCHANGED <<store, current, lock, edited>>
  /\ Answered(c)

ClientStep(c) ==
  \/ Login(c) \/ LoggedOut(c) \/ View(c) \/ BeginEdit(c) \/ SendEdit(c) \/ SendNew(c)
  \/ SendActivate(c) \/ SendDeactivate(c) \/ SendDelete(c) \/ TimesOut(c)

ServerStep(c) ==
  \/ CreateConfig(c) \/ UpdateConfig(c) \/ BeginActivate(c) \/ EndActivate(c)
  \/ BeginDeactivate(c) \/ EndDeactivate(c)
  \/ DeleteConfig(c) \/ BeginForcedDelete(c) \/ EndForcedDelete(c) \/ Refused(c)

Next == \E c \in Client : ClientStep(c) \/ ServerStep(c)

Spec == Init /\ [][Next]_vars

-------------------------------------------------------------------------------
(* Properties.                                                             *)

(* Entries as they are sent: any client's, and those of the prompts *)
Sent == Security(SecurityTypes, Psk) \cup Prompted

Requested ==
  [verb : {"post", "patch", "delete", "activate", "deactivate"}, id : Id,
   body : Contents(Sent), flag : BOOLEAN]

(* Every variable has its type: no file holds what only the command-line client
   offers, no copy a secret, and what is edited or asked for is a profile. *)
TypeOK ==
  /\ store \in [Id -> Contents(Security(SecurityTypes, Psk)) \cup {NoFile}]
  /\ current \in Id \cup {Default}
  /\ listing \in [Cli -> UNION {[S -> BOOLEAN] : S \in SUBSET Id}]
  /\ held \in [Client -> Contents(Security(SecurityTypes, {}))]
  /\ client \in [Client -> [pc : {"out", "menu", "prompt", "waiting"}, id : Id \cup {None}]]
  /\ \A c \in Client : client[c].pc = "prompt" => client[c].id \in Id
  /\ request \in [Client -> Requested \cup {None}]
  /\ lock \in Client \cup {None} /\ edited \subseteq Id
  /\ sent \in 0..MaxSent

(* current.txt names `default` or a profile that can be read, whatever clients
   do on stale listings while others activate, edit and delete
   (network_config.py:421, 537); but for one that was edited while it was being
   activated, which the edit may have made unreadable (ReadsBack). *)
CurrentCanBeRead == current = Default \/ Readable(current) \/ current \in edited

(* What a step makes of a slot's secret: kept, or replaced by one typed in the
   request that was handled for this very slot. *)
SecretFollowsSlot(id, s) ==
  \/ ~Exists(id) \/ s \notin DOMAIN store[id] \/ store'[id][s].psk = store[id][s].psk
  \/ \E c \in Client :
       /\ request[c] # None /\ request'[c] = None /\ request[c].id = id
       /\ s \in DOMAIN request[c].body
       /\ \/ store'[id][s].psk = request[c].body[s].psk /\ request[c].body[s].psk # None
          \/ request[c].body[s].type = None \/ store[id][s].type = None

Fresh(id, s) ==
  \E c \in Client :
    /\ request[c] # None /\ request'[c] = None /\ request[c].id = id
    /\ s \in DOMAIN request[c].body /\ store'[id][s].psk = request[c].body[s].psk

(* Editing a copy that holds no secrets neither loses a stored PSK nor gives it
   to another entry, also when the profile was changed since the copy was
   fetched (network_config.py:486-509). *)
SecretsKept ==
  [][\A id \in Id : Exists(id)' => \A s \in DOMAIN store'[id] :
       IF Exists(id) /\ s \in DOMAIN store[id] THEN SecretFollowsSlot(id, s) ELSE Fresh(id, s)]_vars

(* "a configuration read with GET can be edited and sent back"
   (network_config_api.py:201-202): what the API wrote it can read. *)
ReadsBack == \A id \in Id : Exists(id) => Readable(id)
=================================================================================
