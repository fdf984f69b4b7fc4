-------------------------- MODULE ConfigClientsProofs --------------------------
(***************************************************************************)
(* Proofs about those who change the network profiles, for any number of   *)
(* clients, profiles and requests.  The type invariant, what is known of   *)
(* the change that holds the lock, and the readability of the profile in   *)
(* force are inductive together.                                           *)
(***************************************************************************)
EXTENDS ConfigClients, TLAPS

(* Whose request holds the lock, and that a profile being activated was not  *)
(* taken away: nobody deletes it while the lock is held                      *)
LockKnown ==
  lock # None =>
    /\ request[lock] # None
    /\ request[lock].verb \in {"activate", "deactivate", "delete"}
    /\ request[lock].verb = "activate" =>
         Readable(request[lock].id) \/ request[lock].id \in edited

ClientsInvariant == TypeOK /\ LockKnown /\ CurrentCanBeRead

-------------------------------------------------------------------------------
(* Profiles as functions.                                                  *)

LEMMA ContentsAre ==
  ASSUME NEW T
  PROVE  /\ Empty \in Contents(T)
         /\ \A f \in Contents(T) : /\ DOMAIN f \subseteq Slot
                                   /\ f = [s \in DOMAIN f |-> f[s]]
                                   /\ \A s \in DOMAIN f : f[s] \in T
BY DEF Contents, Empty

LEMMA ContentsBuilt ==
  ASSUME NEW T, NEW S \in SUBSET Slot, NEW f, f \in [S -> T]
  PROVE  f \in Contents(T)
BY DEF Contents

(* Narrowing or widening what an entry may hold *)
LEMMA ContentsFit ==
  ASSUME NEW T, NEW U, NEW f \in Contents(T), \A s \in DOMAIN f : f[s] \in U
  PROVE  f \in Contents(U)
<1>1. f \in [DOMAIN f -> U] /\ DOMAIN f \in SUBSET Slot
  BY ContentsAre
<1> QED BY <1>1, ContentsBuilt

(* `None` is no slot, so a file that is not there is no profile *)
LEMMA NoFileIsNoContent ==
  ASSUME NEW T
  PROVE  NoFile \notin Contents(T)
BY ContentsAre, ClientsAssumption DEF NoFile

LEMMA WithIsContent ==
  ASSUME NEW T, NEW f \in Contents(T), NEW s \in Slot, NEW e \in T
  PROVE  With(f, s, e) \in Contents(T)
<1>1. DOMAIN f \cup {s} \in SUBSET Slot
  BY ContentsAre
<1>2. With(f, s, e) \in [DOMAIN f \cup {s} -> T]
  BY ContentsAre DEF With
<1> QED BY <1>1, <1>2, ContentsBuilt

(* What GET answers holds no secret *)
LEMMA PublicIsContent ==
  ASSUME NEW f \in Contents(Security(SecurityTypes, Psk))
  PROVE  Public(f) \in Contents(Security(SecurityTypes, {}))
<1>1. \A s \in DOMAIN f : [f[s] EXCEPT !.psk = None] \in Security(SecurityTypes, {})
  BY ContentsAre DEF Security, Open
<1>2. Public(f) \in [DOMAIN f -> Security(SecurityTypes, {})] /\ DOMAIN f \in SUBSET Slot
  BY <1>1, ContentsAre DEF Public
<1> QED BY <1>2, ContentsBuilt

(* Each entry of an updated profile is the one that was sent for its slot or,
   where the request left the list of its namespaces out, the stored one. *)
LEMMA UpdatedEntries ==
  ASSUME NEW stored, NEW body, NEW removes \in BOOLEAN
  PROVE  \A s \in DOMAIN Updated(stored, body, removes) :
           \/ s \in DOMAIN body /\ Updated(stored, body, removes)[s] = body[s]
           \/ s \in DOMAIN stored /\ Updated(stored, body, removes)[s] = stored[s]
<1>1. CASE removes
  BY <1>1 DEF Updated
<1>2. CASE ~removes
  <2> DEFINE R == Replaced(stored, body, Rooted)
             N == Replaced(stored, body, Slot \ Rooted)
             From(f) == \A s \in DOMAIN f : \/ s \in DOMAIN body /\ f[s] = body[s]
                                            \/ s \in DOMAIN stored /\ f[s] = stored[s]
  <2>1. \A S : From(Replaced(stored, body, S))
    BY DEF Replaced, Part
  <2>2. From(R) /\ From(N)
    BY <2>1
  <2> HIDE DEF R, N
  <2>3. From(Union(R, N))
    BY <2>2 DEF Union
  <2>4. Updated(stored, body, removes) = Union(R, N)
    BY <1>2 DEF Updated, R, N
  <2> QED BY <2>3, <2>4
<1> QED BY <1>1, <1>2

LEMMA UpdatedIsContent ==
  ASSUME NEW T, NEW stored \in Contents(T), NEW body \in Contents(T), NEW removes \in BOOLEAN
  PROVE  Updated(stored, body, removes) \in Contents(T)
<1> DEFINE u == Updated(stored, body, removes)
<1>1. u = [s \in DOMAIN u |-> u[s]]
  <2>1. CASE removes
    BY <2>1, ContentsAre DEF Updated
  <2>2. CASE ~removes
    BY <2>2 DEF Updated, Union
  <2> QED BY <2>1, <2>2
<1>2. \A s \in DOMAIN u : s \in Slot /\ u[s] \in T
  BY UpdatedEntries, ContentsAre
<1> HIDE DEF u
<1>3. DOMAIN u \in SUBSET Slot /\ u \in [DOMAIN u -> T]
  BY <1>1, <1>2
<1> QED BY <1>3, ContentsBuilt DEF u

(* The stored secrets are put back into the entries of their own slots *)
LEMMA KeptEntries ==
  ASSUME NEW stored, NEW updated
  PROVE  /\ KeepStoredSecrets(stored, updated)
              = [s \in DOMAIN updated |-> KeepStoredSecrets(stored, updated)[s]]
         /\ \A s \in DOMAIN updated :
              IF /\ s \in DOMAIN stored /\ stored[s].type # None
                 /\ updated[s].type # None /\ updated[s].psk = None
              THEN KeepStoredSecrets(stored, updated)[s] = [updated[s] EXCEPT !.psk = stored[s].psk]
              ELSE KeepStoredSecrets(stored, updated)[s] = updated[s]
BY DEF KeepStoredSecrets

(* What the validators accept of what clients send is what files hold *)
LEMMA ValidSecurity ==
  ASSUME NEW e \in Sent, e.type \in SecurityTypes \cup {None}, PskOK(e)
  PROVE  e \in Security(SecurityTypes, Psk)
<1>1. CASE e \in Security(SecurityTypes, Psk)
  BY <1>1
<1>2. CASE e \in [type : Offered \ {"WPA2-PSK", "WPA3-PSK"}, psk : {None}]
  <2>1. e = [type |-> e.type, psk |-> None]
    BY <1>2
  <2>2. CASE e.type \in SecurityTypes
    BY <1>2, <2>2 DEF Security
  <2>3. CASE e.type = None
    BY <2>1, <2>3 DEF Security, Open
  <2> QED BY <2>2, <2>3
<1>3. CASE e \in [type : {"WPA2-PSK", "WPA3-PSK"}, psk : Typed]
  BY <1>3 DEF PskOK, Security, SecurityTypes, Psk, Typed
<1> QED BY <1>1, <1>2, <1>3 DEF Sent, Prompted, Security

(* A profile that was sent and found valid can be a file *)
LEMMA ValidContents ==
  ASSUME NEW f \in Contents(Sent), Valid(f)
  PROVE  f \in Contents(Security(SecurityTypes, Psk))
<1>1. \A s \in DOMAIN f : f[s] \in Security(SecurityTypes, Psk)
  BY ContentsAre, ValidSecurity DEF Valid
<1> QED BY <1>1, ContentsFit

(* ... and so can an update of a file, its secrets put back *)
LEMMA KeptContents ==
  ASSUME NEW T, T = Security(SecurityTypes, Psk),
         NEW stored \in Contents(T), NEW updated \in Contents(T)
  PROVE  KeepStoredSecrets(stored, updated) \in Contents(T)
<1> DEFINE kept == KeepStoredSecrets(stored, updated)
<1>1. /\ kept = [s \in DOMAIN updated |-> kept[s]]
      /\ \A s \in DOMAIN updated :
           \/ kept[s] = updated[s]
           \/ /\ s \in DOMAIN stored /\ stored[s].type # None
              /\ updated[s].type # None /\ kept[s] = [updated[s] EXCEPT !.psk = stored[s].psk]
  <2>1. \A s \in DOMAIN updated :
          \/ kept[s] = updated[s]
          \/ /\ s \in DOMAIN stored /\ stored[s].type # None
             /\ updated[s].type # None /\ kept[s] = [updated[s] EXCEPT !.psk = stored[s].psk]
    BY DEF KeepStoredSecrets
  <2> QED BY <2>1, KeptEntries
<1>2. \A s \in DOMAIN updated : updated[s] \in T
  BY ContentsAre
<1>3. \A s \in DOMAIN stored : stored[s] \in T
  BY ContentsAre
<1> HIDE DEF kept
<1>4. ASSUME NEW d \in T, NEW e \in T, d.type # None, e.type # None
      PROVE  [e EXCEPT !.psk = d.psk] \in T
  BY <1>4 DEF Security, Open
<1>5. \A s \in DOMAIN updated : kept[s] \in T
  BY <1>1, <1>2, <1>3, <1>4
<1>6. DOMAIN updated \in SUBSET Slot /\ kept \in [DOMAIN updated -> T]
  BY <1>1, <1>5, ContentsAre
<1> QED BY <1>6, ContentsBuilt DEF kept

-------------------------------------------------------------------------------
(* The invariant.                                                          *)

LEMMA ClientsInit == Init => ClientsInvariant
<1> SUFFICES ASSUME Init PROVE ClientsInvariant
  OBVIOUS
<1> DEFINE T == Security(SecurityTypes, Psk)
<1>1. \A s \in Slot, psk \in Psk :
        [x \in {s} |-> [type |-> "WPA2-PSK", psk |-> psk]] \in Contents(T)
  <2>1. \A psk \in Psk : [type |-> "WPA2-PSK", psk |-> psk] \in T
    BY DEF Security, SecurityTypes
  <2> HIDE DEF T
  <2>2. \A s \in Slot : {s} \in SUBSET Slot
    OBVIOUS
  <2> QED BY <2>1, <2>2, ContentsBuilt
<1>2. store \in [Id -> Contents(T) \cup {NoFile}]
  BY <1>1 DEF Init
<1>3. held \in [Client -> Contents(Security(SecurityTypes, {}))]
  BY ContentsAre DEF Init
<1>4. listing \in [Cli -> UNION {[S -> BOOLEAN] : S \in SUBSET Id}]
  <2>1. Empty \in [{} -> BOOLEAN] /\ {} \in SUBSET Id
    BY DEF Empty
  <2>2. Empty \in UNION {[S -> BOOLEAN] : S \in SUBSET Id}
    BY <2>1
  <2> QED BY <2>2 DEF Init
<1>5. sent \in 0..MaxSent
  BY ClientsAssumption DEF Init
<1> QED BY <1>2, <1>3, <1>4, <1>5 DEF Init, ClientsInvariant, TypeOK, LockKnown, CurrentCanBeRead

(* The requests that clients make *)
LEMMA SendsTyped ==
  ASSUME ClientsInvariant, NEW c \in Client,
         NEW verb \in {"post", "patch", "delete", "activate", "deactivate"}, NEW id \in Id,
         NEW body \in Contents(Sent), NEW flag \in BOOLEAN, Sends(c, verb, id, body, flag)
  PROVE  ClientsInvariant'
<1>1. request' \in [Client -> Requested \cup {None}]
  BY DEF Sends, ClientsInvariant, TypeOK, Requested
<1>2. sent' \in 0..MaxSent
  BY ClientsAssumption DEF Sends, ClientsInvariant, TypeOK
<1>3. client' \in [Client -> [pc : {"out", "menu", "prompt", "waiting"}, id : Id \cup {None}]]
  BY DEF Sends, ClientsInvariant, TypeOK
<1>4. \A d \in Client : client'[d].pc = "prompt" => client'[d].id \in Id
  BY DEF Sends, ClientsInvariant, TypeOK
<1>5. CurrentCanBeRead'
  BY DEF Sends, ClientsInvariant, CurrentCanBeRead, Readable, Exists
<1>6. LockKnown'
  BY DEF Sends, ClientsInvariant, TypeOK, LockKnown, Readable, Exists
<1> QED BY <1>1, <1>2, <1>3, <1>4, <1>5, <1>6 DEF Sends, ClientsInvariant, TypeOK

LEMMA ChoicesAreIds ==
  ASSUME TypeOK, NEW c \in Client
  PROVE  Choices(c) \subseteq Id
<1>1. CASE c \in Cli
  <2>1. listing[c] \in UNION {[S -> BOOLEAN] : S \in SUBSET Id}
    BY <1>1 DEF TypeOK
  <2> QED BY <1>1, <2>1 DEF Choices
<1>2. CASE c \notin Cli
  BY <1>2 DEF Choices
<1> QED BY <1>1, <1>2

(* `ShownActive` of a profile that a session can choose is a flag *)
LEMMA ShownIsFlag ==
  ASSUME TypeOK, NEW c \in Client, NEW id \in Choices(c)
  PROVE  ShownActive(c, id) \in BOOLEAN
BY DEF ShownActive

(* A copy, an entry of it edited, added or sent alone *)
LEMMA BodiesAreSent ==
  ASSUME NEW c \in Client, NEW e \in Answers(c), NEW s \in Slot
  PROVE  /\ Empty \in Contents(Sent)
         /\ With(Empty, s, e) \in Contents(Sent)
         /\ \A f \in Contents(Security(SecurityTypes, {})) : With(f, s, e) \in Contents(Sent)
<1>1. e \in Sent
  BY DEF Answers, Sent
<1>2. Security(SecurityTypes, {}) \subseteq Sent
  BY DEF Sent, Security
<1>3. \A f \in Contents(Security(SecurityTypes, {})) : f \in Contents(Sent)
  BY <1>2, ContentsAre, ContentsFit
<1> QED BY <1>1, <1>3, ContentsAre, WithIsContent

LEMMA ClientSteps ==
  ASSUME ClientsInvariant, NEW c \in Client, ClientStep(c)
  PROVE  ClientsInvariant'
<1>1. CASE Login(c) \/ LoggedOut(c) \/ TimesOut(c)
  <2>1. held' \in [Client -> Contents(Security(SecurityTypes, {}))]
    BY <1>1, ContentsAre DEF Login, LoggedOut, TimesOut, ClientsInvariant, TypeOK
  <2>2. /\ client' \in [Client -> [pc : {"out", "menu", "prompt", "waiting"}, id : Id \cup {None}]]
        /\ \A d \in Client : client'[d].pc = "prompt" => client'[d].id \in Id
    <3>1. PICK pc \in {"out", "menu"} : client' = [client EXCEPT ![c] = [pc |-> pc, id |-> None]]
      BY <1>1, Zenon DEF Login, LoggedOut, TimesOut, Idle
    <3>2. [pc |-> pc, id |-> None] \in [pc : {"out", "menu", "prompt", "waiting"}, id : Id \cup {None}]
      BY <3>1
    <3> QED BY <3>1, <3>2 DEF ClientsInvariant, TypeOK
  <2>3. UNCHANGED <<store, current, lock, edited, listing, request, sent>>
    BY <1>1 DEF Login, LoggedOut, TimesOut
  <2> QED BY <2>1, <2>2, <2>3 DEF ClientsInvariant, TypeOK, LockKnown, CurrentCanBeRead, Readable, Exists
<1>2. CASE View(c)
  <2>1. Listing \in UNION {[S -> BOOLEAN] : S \in SUBSET Id}
    <3> DEFINE S == {id \in Id : Exists(id)}
    <3>1. S \in SUBSET Id /\ Listing \in [S -> BOOLEAN]
      BY DEF Listing
    <3> QED BY <3>1
  <2>2. listing' \in [Cli -> UNION {[S -> BOOLEAN] : S \in SUBSET Id}]
    BY <1>2, <2>1 DEF View, ClientsInvariant, TypeOK
  <2> QED BY <1>2, <2>2
          DEF View, ClientsInvariant, TypeOK, LockKnown, CurrentCanBeRead, Readable, Exists
<1>3. CASE BeginEdit(c)
  <2>1. PICK id \in Choices(c) :
          /\ Readable(id)
          /\ client' = [client EXCEPT ![c] = [pc |-> "prompt", id |-> id]]
          /\ held' = [held EXCEPT ![c] = Public(store[id])]
    BY <1>3 DEF BeginEdit
  <2>2. id \in Id
    BY ChoicesAreIds DEF ClientsInvariant
  <2>3. store[id] \in Contents(Security(SecurityTypes, Psk))
    BY <2>1, <2>2 DEF ClientsInvariant, TypeOK, Readable, Exists
  <2>4. held' \in [Client -> Contents(Security(SecurityTypes, {}))]
    BY <2>1, <2>3, PublicIsContent DEF ClientsInvariant, TypeOK
  <2>5. /\ client' \in [Client -> [pc : {"out", "menu", "prompt", "waiting"}, id : Id \cup {None}]]
        /\ \A d \in Client : client'[d].pc = "prompt" => client'[d].id \in Id
    BY <2>1, <2>2 DEF ClientsInvariant, TypeOK
  <2> QED BY <1>3, <2>4, <2>5
          DEF BeginEdit, ClientsInvariant, TypeOK, LockKnown, CurrentCanBeRead, Readable, Exists
<1>4. CASE SendEdit(c)
  <2>1. PICK s \in Slot, e \in Answers(c), removes \in BOOLEAN :
          Sends(c, "patch", client[c].id, With(IF removes THEN Empty ELSE held[c], s, e), removes)
    BY <1>4 DEF SendEdit
  <2>2. client[c].id \in Id /\ held[c] \in Contents(Security(SecurityTypes, {}))
    BY <1>4 DEF SendEdit, ClientsInvariant, TypeOK
  <2>3. With(IF removes THEN Empty ELSE held[c], s, e) \in Contents(Sent)
    BY <2>2, BodiesAreSent
  <2> QED BY <2>1, <2>2, <2>3, SendsTyped
<1>5. CASE SendNew(c)
  <2>1. PICK id \in Id, s \in Slot, e \in Answers(c) :
          Sends(c, "post", id, With(Empty, s, e), FALSE)
    BY <1>5 DEF SendNew
  <2>2. With(Empty, s, e) \in Contents(Sent)
    BY BodiesAreSent
  <2> QED BY <2>1, <2>2, SendsTyped
<1>6. CASE SendActivate(c) \/ SendDeactivate(c) \/ SendDelete(c)
  <2>1. PICK id \in Choices(c), verb \in {"delete", "activate", "deactivate"}, flag \in BOOLEAN :
          Sends(c, verb, id, Empty, flag)
    <3>1. CASE SendActivate(c)
      BY <3>1 DEF SendActivate
    <3>2. CASE SendDeactivate(c)
      BY <3>2 DEF SendDeactivate
    <3>3. CASE SendDelete(c)
      <4>1. PICK id \in Choices(c) : Sends(c, "delete", id, Empty, ForceIfShown(c, id))
        BY <3>3 DEF SendDelete
      <4>2. ForceIfShown(c, id) \in BOOLEAN
        BY ShownIsFlag DEF ForceIfShown, ClientsInvariant
      <4> QED BY <4>1, <4>2
    <3> QED BY <1>6, <3>1, <3>2, <3>3
  <2>2. id \in Id /\ Empty \in Contents(Sent)
    BY ChoicesAreIds, ContentsAre DEF ClientsInvariant
  <2> QED BY <2>1, <2>2, SendsTyped
<1> QED BY <1>1, <1>2, <1>3, <1>4, <1>5, <1>6 DEF ClientStep

(* A handler that ends leaves its request and its client's state in their types *)
LEMMA AnsweredTyped ==
  ASSUME TypeOK, NEW c \in Client, Answered(c),
         store' \in [Id -> Contents(Security(SecurityTypes, Psk)) \cup {NoFile}],
         current' \in Id \cup {Default}, lock' \in Client \cup {None}, edited' \subseteq Id
  PROVE  TypeOK'
<1>1. request' \in [Client -> Requested \cup {None}]
  BY DEF Answered, TypeOK
<1>2. held' \in [Client -> Contents(Security(SecurityTypes, {}))]
  BY ContentsAre DEF Answered, TypeOK
<1>3. /\ client' \in [Client -> [pc : {"out", "menu", "prompt", "waiting"}, id : Id \cup {None}]]
      /\ \A d \in Client : client'[d].pc = "prompt" => client'[d].id \in Id
  <2>1. Idle \in [pc : {"out", "menu", "prompt", "waiting"}, id : Id \cup {None}]
    BY DEF Idle
  <2>2. client' = [client EXCEPT ![c] = Idle] \/ client' = client
    BY DEF Answered, TypeOK
  <2>3. Idle.pc # "prompt"
    BY DEF Idle
  <2> QED BY <2>1, <2>2, <2>3 DEF TypeOK
<1> QED BY <1>1, <1>2, <1>3 DEF Answered, TypeOK

LEMMA RequestsTyped ==
  ASSUME TypeOK, NEW c \in Client, request[c] # None
  PROVE  /\ request[c] \in Requested /\ request[c].id \in Id
         /\ request[c].body \in Contents(Sent) /\ request[c].flag \in BOOLEAN
BY DEF TypeOK, Requested

(* What an update writes is the file of a profile.  The stored one could hold
   entries that were never validated together with these, so what is checked is
   the whole of the new one. *)
LEMMA UpdateTyped ==
  ASSUME TypeOK, NEW id \in Id, Exists(id), NEW body \in Contents(Sent), NEW removes \in BOOLEAN,
         Valid(Updated(store[id], body, removes))
  PROVE  KeepStoredSecrets(store[id], Updated(store[id], body, removes))
           \in Contents(Security(SecurityTypes, Psk))
<1>1. store[id] \in Contents(Security(SecurityTypes, Psk))
  BY DEF TypeOK, Exists
<1>2. store[id] \in Contents(Sent)
  BY <1>1, ContentsAre, ContentsFit DEF Sent
<1>3. Updated(store[id], body, removes) \in Contents(Sent)
  BY <1>2, UpdatedIsContent
<1>4. Updated(store[id], body, removes) \in Contents(Security(SecurityTypes, Psk))
  BY <1>3, ValidContents
<1> QED BY <1>1, <1>4, KeptContents

(* What is known of the holder of the lock outlasts a handler that neither takes
   nor gives it, nor unlinks the profile that is being activated. *)
LEMMA LockIsKept ==
  ASSUME ClientsInvariant, NEW c \in Client, request[c] # None, Answered(c),
         lock' = lock, lock # c, edited \subseteq edited',
         \A id \in Id : Readable(id) => Readable(id)' \/ id \in edited' \/ Free
  PROVE  LockKnown'
<1> SUFFICES ASSUME lock # None PROVE LockKnown'
  BY DEF LockKnown
<1>1. lock \in Client /\ request'[lock] = request[lock] /\ request[lock].id \in Id
  <2>1. lock \in Client /\ request[lock] # None
    BY DEF ClientsInvariant, TypeOK, LockKnown
  <2> QED BY <2>1, RequestsTyped DEF Answered, ClientsInvariant, TypeOK
<1> QED BY <1>1 DEF ClientsInvariant, LockKnown, Free

(* A change begins: its request stays, with the lock *)
LEMMA TakenTyped ==
  ASSUME TypeOK, NEW c \in Client, Takes(c), UNCHANGED store,
         current' \in Id \cup {Default}, edited' \subseteq Id
  PROVE  TypeOK'
BY DEF Takes, TypeOK

LEMMA ServerSteps ==
  ASSUME ClientsInvariant, NEW c \in Client, ServerStep(c)
  PROVE  ClientsInvariant'
<1> DEFINE T == Security(SecurityTypes, Psk)
           r == request[c]
<1>0. /\ TypeOK /\ LockKnown /\ CurrentCanBeRead /\ Default \notin Id /\ r # None
      /\ None \notin Client
      /\ r \in Requested /\ r.id \in Id /\ r.body \in Contents(Sent) /\ r.flag \in BOOLEAN
  <2>1. r # None
    BY DEF ServerStep, CreateConfig, UpdateConfig, DeleteConfig, BeginActivate, EndActivate,
           BeginDeactivate, EndDeactivate, BeginForcedDelete, EndForcedDelete, Refused, Asks
  <2> QED BY <2>1, RequestsTyped, ClientsAssumption DEF ClientsInvariant, Client
<1> HIDE DEF T
<1>1. CASE CreateConfig(c)
  <2>1. r.body \in Contents(T)
    BY <1>0, <1>1, ValidContents DEF CreateConfig, T
  <2>2. TypeOK'
    BY <1>0, <1>1, <2>1, AnsweredTyped DEF CreateConfig, TypeOK, T
  <2>3. \A id \in Id : Readable(id) => Readable(id)'
    BY <1>0, <1>1 DEF CreateConfig, TypeOK, Readable, Exists
  <2>4. CurrentCanBeRead'
    BY <1>0, <1>1, <2>3 DEF CreateConfig, CurrentCanBeRead, TypeOK
  <2>5. lock # c
    BY <1>0, <1>1 DEF CreateConfig, Asks, LockKnown
  <2>6. LockKnown'
    BY <1>0, <1>1, <2>3, <2>5, LockIsKept DEF CreateConfig
  <2> QED BY <2>2, <2>4, <2>6 DEF ClientsInvariant
<1>2. CASE UpdateConfig(c)
  <2> DEFINE kept == KeepStoredSecrets(store[r.id], Updated(store[r.id], r.body, r.flag))
  <2>1. kept \in Contents(T) /\ store' = [store EXCEPT ![r.id] = kept]
    BY <1>0, <1>2, UpdateTyped DEF UpdateConfig, MayEdit, Readable, T
  <2> HIDE DEF kept
  <2>2. TypeOK'
    BY <1>0, <1>2, <2>1, AnsweredTyped DEF UpdateConfig, TypeOK, T
  <2>3. current # r.id /\ current' = current /\ edited' = edited \cup {r.id} /\ lock' = lock
    BY <1>2 DEF UpdateConfig, MayEdit, IsActive
  <2>4. \A id \in Id : Readable(id) => Readable(id)' \/ id \in edited'
    BY <1>0, <2>1, <2>3 DEF Readable, Exists, TypeOK
  <2>5. CurrentCanBeRead'
    BY <1>0, <2>3, <2>4 DEF CurrentCanBeRead, TypeOK
  <2>6. lock # c
    BY <1>0, <1>2 DEF UpdateConfig, Asks, LockKnown
  <2>7. LockKnown'
    BY <1>0, <1>2, <2>3, <2>4, <2>6, LockIsKept DEF UpdateConfig
  <2> QED BY <2>2, <2>5, <2>7 DEF ClientsInvariant
<1>3. CASE DeleteConfig(c)
  <2>1. TypeOK'
    BY <1>0, <1>3, AnsweredTyped DEF DeleteConfig, Unlink, TypeOK
  <2>2. \A id \in Id : id # r.id => (Readable(id)' <=> Readable(id))
    BY <1>0, <1>3 DEF DeleteConfig, Unlink, Readable, Exists, TypeOK
  <2>3. current = r.id => r.id \in edited
    BY <1>0, <1>3 DEF DeleteConfig, IsActive, CurrentCanBeRead
  <2>4. CurrentCanBeRead'
    BY <1>0, <1>3, <2>2, <2>3 DEF DeleteConfig, CurrentCanBeRead, TypeOK
  <2>5. LockKnown'
    BY <1>0, <1>3 DEF DeleteConfig, Free, LockKnown
  <2> QED BY <2>1, <2>4, <2>5 DEF ClientsInvariant
<1>4. CASE BeginActivate(c)
  <2>1. current' \in Id \cup {Default} /\ (current' # Default => current' = current /\ Readable(current))
    BY <1>0, <1>4 DEF BeginActivate, Active, TypeOK
  <2>2. TypeOK'
    BY <1>0, <1>4, <2>1, TakenTyped DEF BeginActivate, TypeOK
  <2>3. \A id : Readable(id)' <=> Readable(id)
    BY <1>4 DEF BeginActivate, Readable, Exists
  <2>4. CurrentCanBeRead'
    BY <2>1, <2>3 DEF CurrentCanBeRead
  <2>5. LockKnown'
    BY <1>0, <1>4, <2>3 DEF BeginActivate, Takes, Asks, LockKnown
  <2> QED BY <2>2, <2>4, <2>5 DEF ClientsInvariant
<1>5. CASE EndActivate(c)
  <2>1. TypeOK'
    BY <1>0, <1>5, AnsweredTyped DEF EndActivate, Gives, TypeOK
  <2>2. \A id : Readable(id)' <=> Readable(id)
    BY <1>5 DEF EndActivate, Readable, Exists
  <2>3. Readable(r.id) \/ r.id \in edited
    BY <1>0, <1>5 DEF EndActivate, Gives, Asks, LockKnown
  <2>4. CurrentCanBeRead'
    BY <1>0, <1>5, <2>2, <2>3 DEF EndActivate, CurrentCanBeRead
  <2>5. LockKnown'
    BY <1>5 DEF EndActivate, Gives, LockKnown
  <2> QED BY <2>1, <2>4, <2>5 DEF ClientsInvariant
<1>6. CASE BeginDeactivate(c) \/ BeginForcedDelete(c)
  <2>1. TypeOK'
    BY <1>0, <1>6, TakenTyped DEF BeginDeactivate, BeginForcedDelete, TypeOK
  <2>2. CurrentCanBeRead'
    BY <1>0, <1>6 DEF BeginDeactivate, BeginForcedDelete, CurrentCanBeRead, Readable, Exists
  <2>3. LockKnown'
    BY <1>0, <1>6 DEF BeginDeactivate, BeginForcedDelete, Takes, Asks, LockKnown
  <2> QED BY <2>1, <2>2, <2>3 DEF ClientsInvariant
<1>7. CASE EndDeactivate(c)
  <2>1. TypeOK'
    BY <1>0, <1>7, AnsweredTyped DEF EndDeactivate, Gives, TypeOK
  <2> QED BY <1>7, <2>1
          DEF EndDeactivate, Gives, ClientsInvariant, LockKnown, CurrentCanBeRead
<1>8. CASE EndForcedDelete(c)
  <2>1. TypeOK'
    BY <1>0, <1>8, AnsweredTyped DEF EndForcedDelete, Unlink, Gives, TypeOK
  <2> QED BY <1>8, <2>1
          DEF EndForcedDelete, Gives, ClientsInvariant, LockKnown, CurrentCanBeRead
<1>9. CASE Refused(c)
  <2>1. TypeOK'
    BY <1>0, <1>9, AnsweredTyped DEF Refused, TypeOK
  <2>2. \A id : Readable(id)' <=> Readable(id)
    BY <1>9 DEF Refused, Readable, Exists
  <2>3. LockKnown'
    BY <1>0, <1>9, <2>2, LockIsKept DEF Refused
  <2> QED BY <1>0, <1>9, <2>1, <2>2, <2>3 DEF Refused, ClientsInvariant, CurrentCanBeRead
<1> QED BY <1>1, <1>2, <1>3, <1>4, <1>5, <1>6, <1>7, <1>8, <1>9 DEF ServerStep

(* What the clients and the endpoints preserve, for any number of either *)
THEOREM ClientsAreKnown == Spec => []ClientsInvariant
<1>1. ClientsInvariant /\ [Next]_vars => ClientsInvariant'
  <2> SUFFICES ASSUME ClientsInvariant, [Next]_vars PROVE ClientsInvariant'
    OBVIOUS
  <2>1. CASE UNCHANGED vars
    BY <2>1 DEF vars, ClientsInvariant, TypeOK, LockKnown, CurrentCanBeRead, Readable, Exists
  <2> QED BY <2>1, ClientSteps, ServerSteps DEF Next
<1> QED BY <1>1, ClientsInit, PTL DEF Spec

(* Whatever clients send, no file gets a type that the API does not offer, no
   copy a secret, and what a request asks for is a profile (network.py, the
   models of NetConfig; network_config_api.py, _public). *)
THEOREM ClientsTyped == Spec => []TypeOK
BY ClientsAreKnown, PTL DEF ClientsInvariant

(* current.txt names `default` or a profile that can be read, whatever clients
   do on stale listings and however their edits and deletions interleave with
   changes, but for one that was edited while it was being activated
   (network_config.py, edit_config and delete_config). *)
THEOREM CurrentIsReadable == Spec => []CurrentCanBeRead
BY ClientsAreKnown, PTL DEF ClientsInvariant

-------------------------------------------------------------------------------
(* Secrets.                                                                *)

(* Where a slot's secret may come from in a step, as SecretsKept has it *)
SecretsOf(id) ==
  \A s \in DOMAIN store'[id] :
    IF Exists(id) /\ s \in DOMAIN store[id] THEN SecretFollowsSlot(id, s) ELSE Fresh(id, s)

LEMMA UntouchedSecrets ==
  ASSUME NEW id, store'[id] = store[id], Exists(id)
  PROVE  SecretsOf(id)
BY DEF SecretsOf, SecretFollowsSlot

LEMMA CreatedSecrets ==
  ASSUME TypeOK, NEW c \in Client, CreateConfig(c)
  PROVE  SecretsOf(request[c].id)
<1> DEFINE id == request[c].id
<1>1. request[c] # None /\ request'[c] = None /\ ~Exists(id) /\ id \in Id
  BY RequestsTyped DEF CreateConfig, Asks, Answered, TypeOK
<1>2. store'[id] = request[c].body
  BY <1>1 DEF CreateConfig, TypeOK
<1>3. ASSUME NEW s \in DOMAIN store'[id] PROVE Fresh(id, s)
  BY <1>1, <1>2, <1>3 DEF Fresh
<1> QED BY <1>1, <1>3 DEF SecretsOf

LEMMA UpdatedSecrets ==
  ASSUME TypeOK, NEW c \in Client, UpdateConfig(c)
  PROVE  SecretsOf(request[c].id)
<1> DEFINE id == request[c].id
           body == request[c].body
           updated == Updated(store[id], body, request[c].flag)
           kept == KeepStoredSecrets(store[id], updated)
<1>1. /\ request[c] # None /\ request'[c] = None /\ Exists(id) /\ id \in Id
      /\ body \in Contents(Sent) /\ request[c].flag \in BOOLEAN
  BY RequestsTyped DEF UpdateConfig, Asks, MayEdit, Readable, Answered, TypeOK
<1>2. store'[id] = kept
  BY <1>1 DEF UpdateConfig, TypeOK
<1>3. store[id] \in Contents(Security(SecurityTypes, Psk)) /\ store[id] \in Contents(Sent)
  <2>1. store[id] \in Contents(Security(SecurityTypes, Psk))
    BY <1>1 DEF TypeOK, Exists
  <2> QED BY <2>1, ContentsAre, ContentsFit DEF Sent
<1>4. /\ DOMAIN kept = DOMAIN updated
      /\ \A s \in DOMAIN updated : \/ s \in DOMAIN body /\ updated[s] = body[s]
                                   \/ s \in DOMAIN store[id] /\ updated[s] = store[id][s]
  <2>1. DOMAIN kept = DOMAIN updated
    <3> HIDE DEF updated
    <3> QED BY DEF KeepStoredSecrets
  <2>2. \A s \in DOMAIN updated : \/ s \in DOMAIN body /\ updated[s] = body[s]
                                  \/ s \in DOMAIN store[id] /\ updated[s] = store[id][s]
    BY <1>1, UpdatedEntries
  <2> QED BY <2>1, <2>2
<1>5. ASSUME NEW s \in DOMAIN kept, s \in DOMAIN store[id]
      PROVE  SecretFollowsSlot(id, s)
  <2>1. CASE kept[s].psk = store[id][s].psk
    BY <1>2, <2>1 DEF SecretFollowsSlot
  <2>2. CASE kept[s].psk # store[id][s].psk
    <3>1. /\ kept[s] = updated[s]
          /\ \/ store[id][s].type = None
             \/ updated[s].type = None \/ updated[s].psk # None
      <4>1. ASSUME store[id][s].type # None, updated[s].type # None, updated[s].psk = None
            PROVE  kept[s].psk = store[id][s].psk
        <5>1. kept[s] = [updated[s] EXCEPT !.psk = store[id][s].psk]
          BY <1>4, <1>5, <4>1 DEF KeepStoredSecrets
        <5>2. updated[s] \in Sent
          BY <1>1, <1>3, <1>4, <1>5, ContentsAre
        <5>3. "psk" \in DOMAIN updated[s]
          BY <5>2 DEF Sent, Prompted, Security, Open
        <5> QED BY <5>1, <5>3
      <4> QED BY <1>4, <1>5, <2>2, <4>1 DEF KeepStoredSecrets
    <3>2. s \in DOMAIN body /\ updated[s] = body[s]
      BY <1>4, <1>5, <2>2, <3>1
    <3> HIDE DEF id, body, updated, kept
    <3> QED BY <1>1, <1>2, <3>1, <3>2 DEF SecretFollowsSlot, id, body
  <2> QED BY <2>1, <2>2
<1>6. ASSUME NEW s \in DOMAIN kept, s \notin DOMAIN store[id]
      PROVE  Fresh(id, s)
  <2>1. s \in DOMAIN body /\ updated[s] = body[s]
    BY <1>4, <1>6
  <2>2. kept[s] = updated[s]
    BY <1>4, <1>6 DEF KeepStoredSecrets
  <2> HIDE DEF id, body, updated, kept
  <2> QED BY <1>1, <1>2, <2>1, <2>2 DEF Fresh, id, body
<1> HIDE DEF kept, id
<1>7. SecretsOf(id)
  BY <1>1, <1>2, <1>5, <1>6 DEF SecretsOf
<1> QED BY <1>7 DEF id

(* A step keeps the secret of a slot or puts the one of the request it handles
   in its place; no file that appears has another secret. *)
LEMMA SecretsOfStep ==
  ASSUME TypeOK, [Next]_vars, NEW id \in Id, Exists(id)'
  PROVE  SecretsOf(id)
<1> DEFINE Writes(c) == \/ CreateConfig(c) \/ UpdateConfig(c)
                        \/ DeleteConfig(c) \/ EndForcedDelete(c)
<1>1. CASE UNCHANGED store
  BY <1>1, UntouchedSecrets DEF Exists
<1>2. ASSUME NEW c \in Client, Writes(c)
      PROVE  SecretsOf(id)
  <2>1. request[c].id \in Id
    BY <1>2, RequestsTyped DEF CreateConfig, UpdateConfig, DeleteConfig, EndForcedDelete, Asks
  <2>2. CASE id # request[c].id
    <3>1. store'[id] = store[id]
      BY <1>2, <2>1, <2>2
         DEF CreateConfig, UpdateConfig, DeleteConfig, EndForcedDelete, Unlink, TypeOK
    <3> QED BY <3>1, UntouchedSecrets DEF Exists
  <2>3. CASE id = request[c].id
    <3>1. ~DeleteConfig(c) /\ ~EndForcedDelete(c)
      BY <2>1, <2>3 DEF DeleteConfig, EndForcedDelete, Unlink, Exists, TypeOK
    <3> QED BY <1>2, <2>3, <3>1, CreatedSecrets, UpdatedSecrets
  <2> QED BY <2>2, <2>3
<1>3. UNCHANGED store \/ \E c \in Client : Writes(c)
  BY DEF Next, ClientStep, ServerStep, Login, LoggedOut, View, BeginEdit, SendEdit, SendNew,
         SendActivate, SendDeactivate, SendDelete, Sends, TimesOut, BeginActivate, EndActivate,
         BeginDeactivate, EndDeactivate, BeginForcedDelete, Refused, vars
<1> QED BY <1>1, <1>2, <1>3

(* Editing a copy that holds no secrets neither loses a stored PSK nor gives it
   to another entry, also when the profile was changed since the copy was
   fetched (network_config.py, _keep_stored_secrets). *)
THEOREM SecretsStay == Spec => SecretsKept
<1> DEFINE Stays == \A id \in Id : Exists(id)' => \A s \in DOMAIN store'[id] :
             IF Exists(id) /\ s \in DOMAIN store[id] THEN SecretFollowsSlot(id, s) ELSE Fresh(id, s)
<1>1. ClientsInvariant /\ [Next]_vars => Stays
  BY SecretsOfStep DEF SecretsOf, ClientsInvariant
<1> HIDE DEF Stays
<1>2. Spec => [][Stays]_vars
  BY <1>1, ClientsAreKnown, PTL DEF Spec
<1> QED BY <1>2 DEF SecretsKept, Stays
================================================================================
