---------------------------- MODULE NetConfigProofs ----------------------------
(***************************************************************************)
(* Proofs about network profiles, for any number of radios, namespaces and *)
(* profiles, any layouts and any disturbances.                             *)
(***************************************************************************)
EXTENDS NetConfig, FiniteSetTheorems, TLAPS

-------------------------------------------------------------------------------
(* What the operators of Radios make of a device.                          *)

LEMMA DeviceParts ==
  ASSUME NEW d \in Device
  PROVE  /\ d = [netdev |-> d.netdev, owned |-> d.owned, core |-> d.core, plain |-> d.plain,
                 supplicants |-> d.supplicants, busy |-> d.busy]
         /\ d.netdev \in [Radio -> Netdev \cup {Unplugged}]
         /\ d.owned \subseteq Radio /\ d.core \subseteq Netns /\ d.plain \subseteq Netns
         /\ d.busy \subseteq Radio /\ d.supplicants \subseteq Place \X Name
BY DEF Device

(* Every radio in a named namespace is in one that Core still returns radios *)
(* from, or that a restart has kept from being marked as Core's              *)
Housed(d) ==
  \A r \in Radio : d.netdev[r].netns \in Netns => d.netdev[r].netns \in d.core \cup d.plain

(* A device of which only radio r is other than in d, and which has no new   *)
(* namespaces and supplicants                                                *)
Less(d, c, r) ==
  /\ c \in Device /\ c.busy = d.busy /\ (Housed(d) => Housed(c))
  /\ \A q \in Radio \ {r} : c.netdev[q] = d.netdev[q]
  /\ d.owned \ {r} \subseteq c.owned /\ c.owned \subseteq d.owned
  /\ c.core \subseteq d.core /\ c.plain = d.plain /\ c.supplicants \subseteq d.supplicants

LEMMA MoveOK ==
  ASSUME NEW d \in Device, NEW r \in Radio, d.netdev[r] \in Netdev,
         NEW n \in Place, NEW name \in Name \cup {None}
  PROVE  /\ Move(d, r, n, name) \in Device
         /\ Move(d, r, n, name).netdev = [d.netdev EXCEPT ![r] = [netns |-> n, name |-> name]]
         /\ Move(d, r, n, name).owned = d.owned \ {r}
         /\ Move(d, r, n, name).core = d.core
         /\ Move(d, r, n, name).plain = d.plain
         /\ Move(d, r, n, name).supplicants = d.supplicants
         /\ Move(d, r, n, name).busy = d.busy
<1> DEFINE x == [netns |-> n, name |-> name]
           m == [netdev |-> [d.netdev EXCEPT ![r] = x], owned |-> d.owned \ {r},
                 core |-> d.core, plain |-> d.plain, supplicants |-> d.supplicants, busy |-> d.busy]
<1>1. d.netdev \in [Radio -> Netdev \cup {Unplugged}]
  BY DeviceParts
<1>2. x \in Netdev
  BY DEF Netdev
<1>3. m \in Device
  BY <1>1, <1>2, DeviceParts DEF Device
<1>4. Move(d, r, n, name) = m
  <2> DEFINE live == d.netdev[r]
             a == [live EXCEPT !.name = None]
             b == [a EXCEPT !.netns = n]
  <2>1. DeleteNetdev(d, r) = [d EXCEPT !.netdev = [d.netdev EXCEPT ![r] = a], !.owned = d.owned \ {r}]
    BY DEF DeleteNetdev
  <2>2. [b EXCEPT !.name = name] = x
    <3>1. live = [netns |-> live.netns, name |-> live.name]
      BY DEF Netdev
    <3> HIDE DEF live
    <3>2. a = [netns |-> live.netns, name |-> None]
      BY <3>1
    <3> HIDE DEF a
    <3>3. b = [netns |-> n, name |-> None]
      BY <3>2
    <3> HIDE DEF b
    <3> QED BY <3>3
  <2>3. MovePhy(DeleteNetdev(d, r), r, n) =
          [d EXCEPT !.netdev = [d.netdev EXCEPT ![r] = b], !.owned = d.owned \ {r}]
    BY <1>1, <2>1, ZenonT(60) DEF MovePhy, Device
  <2>4. Move(d, r, n, name) =
          [d EXCEPT !.netdev = [d.netdev EXCEPT ![r] = [b EXCEPT !.name = name]],
                    !.owned = d.owned \ {r}]
    BY <1>1, <2>3, ZenonT(60) DEF Move, CreateNetdev, Device
  <2> HIDE DEF b, x
  <2> QED BY <2>2, <2>4, DeviceParts DEF Device
<1> QED BY <1>3, <1>4

LEMMA FoundIsLive ==
  ASSUME NEW d \in Device, NEW e \in Entry, Found(d, e)
  PROVE  /\ d.netdev[e.radio] \in Netdev
         /\ d.netdev[e.radio].netns \in Place /\ d.netdev[e.radio].name \in Name
         /\ d.netdev[e.radio] = [netns |-> d.netdev[e.radio].netns, name |-> d.netdev[e.radio].name]
<1>1. e.radio \in Radio /\ e.name \in Name /\ None \notin Name /\ Unplugged.name = None
  BY NamesAssumption DEF Entry, Unplugged, Name
<1>2. d.netdev[e.radio] \in Netdev \cup {Unplugged}
  BY <1>1, DeviceParts
<1>3. d.netdev[e.radio].name \in Name
  BY <1>1 DEF Found, Name
<1> HIDE DEF Unplugged
<1>4. d.netdev[e.radio] \in Netdev
  BY <1>1, <1>2, <1>3
<1> QED BY <1>3, <1>4 DEF Netdev

LEMMA StopOK ==
  ASSUME NEW d \in Device, NEW n, NEW name
  PROVE  LET c == StopSupplicant(d, n, name) IN
         /\ c \in Device /\ c.netdev = d.netdev /\ c.owned = d.owned
         /\ c.core = d.core /\ c.plain = d.plain
         /\ c.busy = d.busy /\ c.supplicants = d.supplicants \ {<<n, name>>}
<1> DEFINE S == d.supplicants \ {<<n, name>>}
<1>1. S \subseteq Place \X Name
  BY DeviceParts
<1>2. StopSupplicant(d, n, name) = [d EXCEPT !.supplicants = S]
  BY DEF StopSupplicant
<1> HIDE DEF S
<1>3. StopSupplicant(d, n, name) =
        [netdev |-> d.netdev, owned |-> d.owned, core |-> d.core, plain |-> d.plain,
         supplicants |-> S, busy |-> d.busy]
  BY <1>2, DeviceParts
<1> QED BY <1>1, <1>3, DeviceParts DEF S, Device

LEMMA DeleteIfEmptyOK ==
  ASSUME NEW d \in Device, NEW n
  PROVE  LET c == DeleteIfEmpty(d, n) IN
         /\ c \in Device /\ c.netdev = d.netdev /\ c.owned = d.owned /\ c.core \subseteq d.core
         /\ c.plain = d.plain
         /\ c.busy = d.busy /\ c.supplicants = d.supplicants
         /\ Housed(d) => Housed(c)
<1> DEFINE C == d.core \ {n}
<1>1. C \subseteq Netns
  BY DeviceParts
<1>2. DeleteIfEmpty(d, n) = d \/ DeleteIfEmpty(d, n) = [d EXCEPT !.core = C]
  BY DEF DeleteIfEmpty, DeleteNamespace
<1> HIDE DEF C
<1>3. [d EXCEPT !.core = C] =
        [netdev |-> d.netdev, owned |-> d.owned, core |-> C, plain |-> d.plain,
         supplicants |-> d.supplicants, busy |-> d.busy]
  BY DeviceParts
<1>4. DeleteIfEmpty(d, n) # d => \A r \in Radio : d.netdev[r].netns # n
  BY DEF DeleteIfEmpty, In
<1> QED BY <1>1, <1>2, <1>3, <1>4, DeviceParts DEF C, Device, Housed

(* What an outcome of giving up entry e is like: the netdev is left without a *)
(* name only at the cost of two failing commands, and only then or at the cost *)
(* of one is it not home                                                       *)
Undone(d, e, o) ==
  LET r == e.radio IN
  /\ Less(d, o.dev, r) /\ o.cost \in Nat /\ (o.status = "raised" => o.cost >= 1)
  /\ \/ o.dev.netdev[r] = d.netdev[r]
     \/ Found(d, e) /\ o.dev.netdev[r] \in Netdev /\ (o.dev.netdev[r].name # None \/ o.cost >= 2)
  /\ o.cost = 0 => o.dev.netdev[r] \in {d.netdev[r], Home(r)}

LEMMA RevertOK ==
  ASSUME NEW d \in Device, NEW e \in Entry, NEW o \in Revert(d, e)
  PROVE  /\ Undone(d, e, o)
         /\ Found(d, e) => e.radio \notin o.dev.owned
         /\ Found(d, e) =>
              <<d.netdev[e.radio].netns, d.netdev[e.radio].name>> \notin o.dev.supplicants
         /\ Found(d, e) /\ o.cost = 0 => o.dev.netdev[e.radio] = Home(e.radio)
         /\ ~Found(d, e) => o.dev = d
<1> DEFINE r == e.radio
           live == d.netdev[r]
           stopped == StopSupplicant(d, live.netns, live.name)
           home == Move(stopped, r, Root, r)
           same == Move(stopped, r, live.netns, live.name)
<1>1. r \in Radio /\ Root \in Place /\ r \in Name /\ None \notin Name
  BY NamesAssumption DEF Entry, Name, Place
<1>2. CASE ~Found(d, e)
  <2>1. o = Outcome(d, "done", 0)
    BY <1>2 DEF Revert
  <2> QED BY <1>2, <2>1 DEF Outcome, Undone, Less
<1>3. CASE Found(d, e)
  <2>1. live \in Netdev /\ live.netns \in Place /\ live.name \in Name
        /\ live = [netns |-> live.netns, name |-> live.name]
    BY <1>3, FoundIsLive
  <2>2. /\ stopped \in Device /\ stopped.netdev = d.netdev /\ stopped.owned = d.owned
        /\ stopped.core = d.core /\ stopped.plain = d.plain /\ stopped.busy = d.busy
        /\ stopped.supplicants \subseteq d.supplicants
        /\ <<live.netns, live.name>> \notin stopped.supplicants
    BY StopOK
  <2>3. \/ o = Outcome(DeleteIfEmpty(home, live.netns), "done", 0)
        \/ o = Outcome(same, "raised", 1)
        \/ \E n \in {live.netns, Root} : o = Outcome(Move(stopped, r, n, None), "raised", 2)
    BY <1>3 DEF Revert, RestoreFails, Way
  <2>4. \A n \in Place, name \in Name \cup {None} :
          LET c == Move(stopped, r, n, name) IN
          /\ c \in Device /\ c.netdev = [d.netdev EXCEPT ![r] = [netns |-> n, name |-> name]]
          /\ c.owned = d.owned \ {r} /\ c.core = d.core /\ c.plain = d.plain /\ c.busy = d.busy
          /\ c.supplicants = stopped.supplicants
    <3> HIDE DEF stopped, r
    <3> QED BY <1>1, <2>1, <2>2, MoveOK DEF r
  <2>5. d.netdev \in [Radio -> Netdev \cup {Unplugged}]
    BY DeviceParts
  <2> HIDE DEF stopped
  <2>6. ASSUME NEW n \in {live.netns, Root}, NEW name \in Name \cup {None}, NEW c,
               c = Move(stopped, r, n, name) \/ c = DeleteIfEmpty(Move(stopped, r, n, name), live.netns)
        PROVE  /\ Less(d, c, r) /\ c.netdev[r] = [netns |-> n, name |-> name]
               /\ c.owned = d.owned \ {r} /\ c.supplicants = stopped.supplicants
    <3> DEFINE m == Move(stopped, r, n, name)
    <3>1. /\ m \in Device /\ m.netdev = [d.netdev EXCEPT ![r] = [netns |-> n, name |-> name]]
          /\ m.owned = d.owned \ {r} /\ m.core = d.core /\ m.plain = d.plain /\ m.busy = d.busy
          /\ m.supplicants = stopped.supplicants
      BY <1>1, <2>1, <2>4
    <3> HIDE DEF m
    <3>2. /\ c \in Device /\ c.netdev = m.netdev /\ c.owned = m.owned
          /\ c.core \subseteq m.core /\ c.plain = m.plain
          /\ c.busy = m.busy /\ c.supplicants = m.supplicants
      BY <2>6, <3>1, DeleteIfEmptyOK DEF m
    <3>3. Housed(d) => Housed(m)
      BY <1>1, <2>2, <2>5, <3>1, NamesAssumption DEF Housed
    <3>4. Housed(m) => Housed(c)
      BY <2>6, <3>1, DeleteIfEmptyOK DEF m
    <3> QED BY <1>1, <2>2, <2>5, <3>1, <3>2, <3>3, <3>4 DEF Less
  <2>7. CASE o = Outcome(DeleteIfEmpty(home, live.netns), "done", 0)
    <3>1. /\ Less(d, o.dev, r) /\ o.dev.netdev[r] = Home(r) /\ o.dev.owned = d.owned \ {r}
          /\ o.cost = 0 /\ o.status = "done" /\ o.dev.supplicants = stopped.supplicants
      BY <1>1, <2>6, <2>7 DEF Outcome, Home
    <3>2. Home(r) \in Netdev /\ Home(r).name # None
      BY <1>1 DEF Home, Netdev
    <3>3. <<live.netns, live.name>> \notin o.dev.supplicants
      BY <2>2, <3>1
    <3> HIDE DEF home
    <3> QED BY <1>3, <3>1, <3>2, <3>3 DEF Undone
  <2>8. CASE o = Outcome(same, "raised", 1)
    <3>1. /\ Less(d, o.dev, r) /\ o.dev.netdev[r] = live /\ o.dev.owned = d.owned \ {r}
          /\ o.cost = 1 /\ o.status = "raised" /\ o.dev.supplicants = stopped.supplicants
      BY <2>1, <2>6, <2>8 DEF Outcome
    <3> QED BY <1>3, <2>2, <3>1 DEF Undone
  <2>9. ASSUME NEW n \in {live.netns, Root}, o = Outcome(Move(stopped, r, n, None), "raised", 2)
        PROVE  /\ Undone(d, e, o) /\ o.cost = 2 /\ r \notin o.dev.owned
               /\ o.dev.supplicants = stopped.supplicants
    <3>1. n \in Place
      BY <1>1, <2>1
    <3>2. /\ Less(d, o.dev, r) /\ o.dev.netdev[r] = [netns |-> n, name |-> None]
          /\ o.dev.owned = d.owned \ {r} /\ o.cost = 2
          /\ o.dev.supplicants = stopped.supplicants
      BY <2>6, <2>9, <3>1 DEF Outcome
    <3>3. [netns |-> n, name |-> None] \in Netdev
      BY <3>1 DEF Netdev
    <3> QED BY <1>3, <3>2, <3>3 DEF Undone
  <2> QED BY <1>3, <2>2, <2>3, <2>7, <2>8, <2>9
<1> QED BY <1>2, <1>3

LEMMA RemoveNetworkOK ==
  ASSUME NEW d \in Device, NEW e
  PROVE  LET c == RemoveNetwork(d, e) IN
         /\ c \in Device /\ c.netdev = d.netdev /\ c.owned = d.owned
         /\ c.core = d.core /\ c.plain = d.plain
         /\ c.busy = d.busy /\ c.supplicants \subseteq d.supplicants
         /\ e.secure => <<e.netns, e.name>> \notin c.supplicants
BY StopOK DEF RemoveNetwork

LEMMA DeactivateOK ==
  ASSUME NEW d \in Device, NEW e \in Entry, NEW o \in Deactivate(d, e)
  PROVE  /\ Undone(d, e, o)
         /\ o.dev.netdev[e.radio] # d.netdev[e.radio] => CoreManaged(d, e) /\ ~HandsOver(d, e)
         /\ Found(d, e) /\ CoreManaged(d, e) => e.radio \notin o.dev.owned
         /\ Found(d, e) /\ CoreManaged(d, e) /\ ~HandsOver(d, e) /\ o.cost = 0 =>
              o.dev.netdev[e.radio] = Home(e.radio)
         /\ e.secure /\ CoreManaged(d, e) => <<e.netns, e.name>> \notin o.dev.supplicants
<1> DEFINE r == e.radio
           c == RemoveNetwork(d, e)
<1>1. /\ c \in Device /\ c.netdev = d.netdev /\ c.owned = d.owned
      /\ c.core = d.core /\ c.plain = d.plain
      /\ c.busy = d.busy /\ c.supplicants \subseteq d.supplicants
      /\ e.secure => <<e.netns, e.name>> \notin c.supplicants
  BY RemoveNetworkOK
<1>2. \/ ~CoreManaged(d, e) /\ o = Outcome(d, "done", 0)
      \/ CoreManaged(d, e) /\ ~Found(d, e) /\ o = Outcome(c, "done", 0)
      \/ /\ CoreManaged(d, e) /\ Found(d, e) /\ HandsOver(d, e)
         /\ o = Outcome([c EXCEPT !.owned = @ \ {r}], "done", 0)
      \/ CoreManaged(d, e) /\ Found(d, e) /\ ~HandsOver(d, e) /\ o \in Revert(c, e)
  BY DEF Deactivate
<1> HIDE DEF c
<1>3. Found(c, e) = Found(d, e) /\ (Housed(d) => Housed(c))
  BY <1>1 DEF Found, CoreNamespaces, Housed
<1>4. e.secure => <<e.netns, e.name>> \notin c.supplicants
  BY <1>1
<1>5. CASE ~CoreManaged(d, e) /\ o = Outcome(d, "done", 0)
  <2>1. o.dev = d /\ o.cost = 0 /\ o.status = "done"
    BY <1>5 DEF Outcome
  <2>2. Less(d, d, r)
    BY DEF Less
  <2> QED BY <1>5, <2>1, <2>2 DEF Undone
<1>6. CASE CoreManaged(d, e) /\ ~Found(d, e) /\ o = Outcome(c, "done", 0)
  <2>1. o.dev = c /\ o.cost = 0 /\ o.status = "done"
    BY <1>6 DEF Outcome
  <2>2. Less(d, c, r)
    BY <1>1, <1>3 DEF Less
  <2> QED BY <1>1, <1>4, <1>6, <2>1, <2>2 DEF Undone
<1>7. CASE /\ CoreManaged(d, e) /\ Found(d, e) /\ HandsOver(d, e)
           /\ o = Outcome([c EXCEPT !.owned = @ \ {r}], "done", 0)
  <2> DEFINE W == c.owned \ {r}
  <2>1. W \subseteq Radio /\ W \subseteq c.owned /\ c.owned \ {r} \subseteq W /\ r \notin W
    BY <1>1, DeviceParts
  <2>2. o.dev = [c EXCEPT !.owned = W] /\ o.cost = 0 /\ o.status = "done"
    BY <1>7 DEF Outcome
  <2> HIDE DEF W
  <2>3. o.dev = [netdev |-> c.netdev, owned |-> W, core |-> c.core, plain |-> c.plain,
                 supplicants |-> c.supplicants, busy |-> c.busy]
    BY <1>1, <2>2, DeviceParts
  <2>4. o.dev \in Device
    BY <1>1, <2>1, <2>3, DeviceParts DEF Device
  <2>5. /\ o.dev.netdev = d.netdev /\ o.dev.owned = W /\ o.dev.core = d.core /\ o.dev.plain = d.plain
        /\ o.dev.supplicants = c.supplicants /\ o.dev.busy = d.busy
    BY <1>1, <2>3
  <2>6. Less(d, o.dev, r)
    BY <1>1, <2>1, <2>4, <2>5 DEF Less, Housed
  <2> QED BY <1>4, <1>7, <2>1, <2>2, <2>5, <2>6, SMTT(30) DEF Undone
<1>8. CASE CoreManaged(d, e) /\ Found(d, e) /\ ~HandsOver(d, e) /\ o \in Revert(c, e)
  <2>1. /\ Undone(c, e, o) /\ r \notin o.dev.owned
        /\ o.cost = 0 => o.dev.netdev[r] = Home(r)
    BY <1>1, <1>3, <1>8, RevertOK
  <2>2. Less(d, o.dev, r)
    BY <1>1, <1>3, <2>1 DEF Undone, Less
  <2>3. o.dev.supplicants \subseteq c.supplicants
    BY <2>1 DEF Undone, Less
  <2>4. Undone(d, e, o)
    BY <1>1, <1>3, <2>1, <2>2 DEF Undone
  <2> QED BY <1>4, <1>8, <2>1, <2>3, <2>4
<1> QED BY <1>2, <1>5, <1>6, <1>7, <1>8

(* The radios of some namespaces are sent back to root, some of those are     *)
(* handed back and some of the namespaces left empty are deleted              *)
LEMMA SentOK ==
  ASSUME NEW d \in Device, NEW S \in SUBSET Netns, NEW sent \in SUBSET Inside(d, S),
         NEW released \in SUBSET sent, NEW deleted \in SUBSET Netns,
         \A n \in deleted : In(d, n) \subseteq sent
  PROVE  LET c == Sent(d, S, sent, released, deleted) IN
         /\ c \in Device /\ c.busy = d.busy /\ c.owned = d.owned \ released
         /\ c.core = d.core \ deleted /\ c.plain = d.plain \ deleted
         /\ c.supplicants = {s \in d.supplicants : s[1] \notin S}
         /\ \A r \in Radio :
              \/ c.netdev[r] = d.netdev[r] /\ r \notin sent
              \/ /\ d.netdev[r] \in Netdev /\ d.netdev[r].netns \in S /\ r \in sent
                 /\ c.netdev[r] = [netns |-> Root, name |-> d.netdev[r].name]
                 /\ c.netdev[r] \in Netdev
         /\ Housed(d) => Housed(c)
<1> DEFINE c == Sent(d, S, sent, released, deleted)
           N == [r \in Radio |-> IF r \in sent THEN [d.netdev[r] EXCEPT !.netns = Root]
                                 ELSE d.netdev[r]]
           O == d.owned \ released
           C == d.core \ deleted
           Q == d.plain \ deleted
           P == {s \in d.supplicants : s[1] \notin S}
<1>1. d.netdev \in [Radio -> Netdev \cup {Unplugged}] /\ d.owned \subseteq Radio
      /\ d.core \subseteq Netns /\ d.plain \subseteq Netns /\ d.busy \subseteq Radio
      /\ d.supplicants \subseteq Place \X Name
  BY DeviceParts
<1>2. ASSUME NEW r \in sent
      PROVE  /\ r \in Radio /\ d.netdev[r] \in Netdev /\ d.netdev[r].netns \in S
             /\ [d.netdev[r] EXCEPT !.netns = Root] = [netns |-> Root, name |-> d.netdev[r].name]
             /\ [netns |-> Root, name |-> d.netdev[r].name] \in Netdev
  <2>1. r \in Radio /\ d.netdev[r].netns \in S
    BY DEF Inside
  <2>2. d.netdev[r] # Unplugged
    BY <2>1, NamesAssumption DEF Unplugged
  <2>3. d.netdev[r] \in Netdev
    BY <1>1, <2>1, <2>2
  <2> QED BY <2>1, <2>3 DEF Netdev, Place
<1>3. N \in [Radio -> Netdev \cup {Unplugged}]
  BY <1>1, <1>2
<1>4. c = [netdev |-> N, owned |-> O, core |-> C, plain |-> Q, supplicants |-> P, busy |-> d.busy]
  <2> DEFINE b == [netdev |-> d.netdev, owned |-> d.owned, core |-> d.core, plain |-> d.plain,
                   supplicants |-> P, busy |-> d.busy]
  <2>1. StopNamespaceSupplicants(d, S) = b
    <3> HIDE DEF P
    <3>1. StopNamespaceSupplicants(d, S) = [d EXCEPT !.supplicants = P]
      BY DEF StopNamespaceSupplicants, P
    <3> QED BY <3>1, DeviceParts
  <2>2. c = [b EXCEPT !.netdev = N, !.owned = O, !.core = C, !.plain = Q]
    BY <2>1 DEF Sent
  <2> HIDE DEF N, O, C, Q, P
  <2> QED BY <2>2
<1>5. \A r \in Radio :
        \/ N[r] = d.netdev[r] /\ r \notin sent
        \/ /\ d.netdev[r] \in Netdev /\ d.netdev[r].netns \in S /\ r \in sent
           /\ N[r] = [netns |-> Root, name |-> d.netdev[r].name] /\ N[r] \in Netdev
  BY <1>2
<1>6. ASSUME Housed(d), NEW r \in Radio, N[r].netns \in Netns
      PROVE  N[r].netns \in C \cup Q
  <2>1. N[r] = d.netdev[r] /\ r \notin sent
    BY <1>5, <1>6, NamesAssumption
  <2>2. d.netdev[r].netns \in d.core \cup d.plain
    BY <1>6, <2>1 DEF Housed
  <2>3. d.netdev[r].netns \notin deleted
    BY <2>1 DEF In
  <2> QED BY <2>1, <2>2, <2>3
<1>7. O \subseteq Radio /\ C \subseteq Netns /\ Q \subseteq Netns /\ P \subseteq Place \X Name
  BY <1>1
<1> HIDE DEF N, O, C, Q, P, c
<1>8. c \in Device
  BY <1>1, <1>3, <1>4, <1>7 DEF Device
<1>9. Housed(d) => Housed(c)
  BY <1>4, <1>6 DEF Housed
<1> QED BY <1>4, <1>5, <1>8, <1>9 DEF c, O, C, Q, P

LEMMA ReturnOK ==
  ASSUME NEW d \in Device, NEW S \in SUBSET Netns, NEW o \in Return(d, S)
  PROVE  /\ o.dev \in Device /\ o.cost \in Nat /\ o.dev.busy = d.busy
         /\ o.dev.owned \subseteq d.owned /\ o.dev.core \subseteq d.core
         /\ o.dev.plain \subseteq d.plain /\ d.plain \ S \subseteq o.dev.plain
         /\ o.dev.supplicants = {s \in d.supplicants : s[1] \notin S}
         /\ \A r \in Radio :
              \/ o.dev.netdev[r] = d.netdev[r]
              \/ /\ d.netdev[r] \in Netdev /\ d.netdev[r].netns \in S
                 /\ o.dev.netdev[r] = [netns |-> Root, name |-> d.netdev[r].name]
                 /\ o.dev.netdev[r] \in Netdev /\ r \notin o.dev.owned
         /\ \A r \in d.owned : d.netdev[r].netns \notin S => r \in o.dev.owned
         /\ o.cost = 0 => o.dev.core \cap S = {}
         /\ Housed(d) => Housed(o.dev)
<1> DEFINE inside == Inside(d, S)
<1>1. PICK unlisted \in SUBSET S, stuck \in SUBSET inside, kept \in SUBSET S :
        o = Returned(d, S, unlisted, stuck, kept)
  BY DEF Return
<1> DEFINE sent == Inside(d, S \ unlisted) \ stuck
           deleted == {n \in S \ kept : In(d, n) \subseteq sent}
           c == Sent(d, S, sent, sent, deleted)
<1>2. IsFiniteSet(unlisted) /\ IsFiniteSet(stuck) /\ IsFiniteSet(kept)
  <2>1. unlisted \subseteq Netns /\ kept \subseteq Netns /\ stuck \subseteq Radio
    BY DEF Inside
  <2> QED BY <2>1, NamesAssumption, FS_Subset
<1>3. /\ Cardinality(unlisted) \in Nat /\ (Cardinality(unlisted) = 0 => unlisted = {})
      /\ Cardinality(stuck) \in Nat /\ (Cardinality(stuck) = 0 => stuck = {})
      /\ Cardinality(kept) \in Nat /\ (Cardinality(kept) = 0 => kept = {})
  BY <1>2, FS_CardinalityType, FS_EmptySet
<1>4. /\ o.dev = c /\ o.cost \in Nat
      /\ o.cost = 0 => unlisted = {} /\ stuck = {} /\ kept = {}
  <2>1. o.dev = c /\ o.cost = Cardinality(unlisted) + Cardinality(stuck) + Cardinality(kept)
    BY <1>1 DEF Returned, Outcome
  <2> HIDE DEF c
  <2> QED BY <1>3, <2>1
<1>5. /\ \A n \in deleted : In(d, n) \subseteq sent
      /\ \A r \in sent : d.netdev[r].netns \in S
      /\ deleted \subseteq S
      /\ unlisted = {} /\ stuck = {} /\ kept = {} => deleted = S
  <2>1. \A n \in S : In(d, n) \subseteq Inside(d, S)
    BY DEF In, Inside
  <2>2. \A r \in sent : d.netdev[r].netns \in S
    BY DEF Inside
  <2>3. unlisted = {} /\ stuck = {} => sent = Inside(d, S)
    OBVIOUS
  <2>4. deleted \subseteq S /\ \A n \in deleted : In(d, n) \subseteq sent
    OBVIOUS
  <2>5. ASSUME unlisted = {} /\ stuck = {} /\ kept = {}
        PROVE  deleted = S
    <3> HIDE DEF sent
    <3>1. \A n \in S : In(d, n) \subseteq sent /\ n \notin kept
      BY <2>1, <2>3, <2>5
    <3> QED BY <3>1
  <2> HIDE DEF sent, deleted
  <2> QED BY <2>2, <2>4, <2>5
<1>6. sent \in SUBSET Inside(d, S) /\ deleted \in SUBSET Netns
  <2>1. sent \subseteq Inside(d, S)
    BY DEF Inside
  <2> HIDE DEF sent
  <2> QED BY <1>5, <2>1
<1> HIDE DEF c, sent, deleted
<1>7. /\ c \in Device /\ c.busy = d.busy /\ c.owned = d.owned \ sent
      /\ c.core = d.core \ deleted /\ c.plain = d.plain \ deleted
      /\ c.supplicants = {s \in d.supplicants : s[1] \notin S}
      /\ \A r \in Radio :
           \/ c.netdev[r] = d.netdev[r] /\ r \notin sent
           \/ /\ d.netdev[r] \in Netdev /\ d.netdev[r].netns \in S /\ r \in sent
              /\ c.netdev[r] = [netns |-> Root, name |-> d.netdev[r].name]
              /\ c.netdev[r] \in Netdev
      /\ Housed(d) => Housed(c)
  BY <1>5, <1>6, SentOK DEF c
<1> QED BY <1>4, <1>5, <1>7

LEMMA CreateNamespaceOK ==
  ASSUME NEW d \in Device, NEW n \in Netns
  PROVE  LET c == CreateNamespace(d, n) IN
         /\ c \in Device /\ c.netdev = d.netdev /\ c.owned = d.owned
         /\ d.core \subseteq c.core /\ c.core \subseteq d.core \cup {n}
         /\ c.plain = d.plain /\ n \in c.core \cup c.plain
         /\ c.busy = d.busy /\ c.supplicants = d.supplicants
<1> DEFINE C == d.core \cup {n}
<1>1. C \subseteq Netns
  BY DeviceParts
<1>2. IF n \in d.plain THEN CreateNamespace(d, n) = d
      ELSE CreateNamespace(d, n) = [d EXCEPT !.core = C]
  BY DEF CreateNamespace
<1> HIDE DEF C
<1>3. [d EXCEPT !.core = C] =
        [netdev |-> d.netdev, owned |-> d.owned, core |-> C, plain |-> d.plain,
         supplicants |-> d.supplicants, busy |-> d.busy]
  BY DeviceParts
<1> QED BY <1>1, <1>2, <1>3, DeviceParts DEF C, Device

(* What an outcome of preparing the radio of entry e is like: it is placed,   *)
(* or a command has failed                                                    *)
Prepared(d, e, o) ==
  LET r == e.radio IN
  /\ o.dev \in Device /\ o.dev.busy = d.busy /\ o.dev.supplicants = d.supplicants
  /\ \A q \in Radio \ {r} : o.dev.netdev[q] = d.netdev[q]
  /\ o.dev.owned \subseteq d.owned /\ d.owned \ {r} \subseteq o.dev.owned
  /\ r \in o.dev.owned => o.dev.netdev[r] = d.netdev[r] /\ o.status # "prepared"
  /\ o.dev.core \subseteq d.core \cup ({e.netns} \cap Netns) /\ o.dev.plain = d.plain
  /\ (Housed(d) => Housed(o.dev))
  /\ o.cost \in Nat
  /\ o.dev.netdev[r] \in Netdev /\ (o.dev.netdev[r].name # None \/ o.cost >= 2)
  /\ \/ o.status = "prepared" /\ o.cost = 0 /\ Placed(o.dev, e)
     \/ o.status \in {"raised", "error"} /\ o.cost >= 1

LEMMA PrepareOK ==
  ASSUME NEW d \in Device, NEW e \in Entry, Found(d, e), NEW o \in Prepare(d, e)
  PROVE  Prepared(d, e, o)
<1> DEFINE r == e.radio
           live == d.netdev[r]
           made == IF e.netns = Root THEN d ELSE CreateNamespace(d, e.netns)
           restored == Move(d, r, live.netns, live.name)
           Cleaned(dev) == IF e.netns \in d.core THEN dev ELSE DeleteIfEmpty(dev, e.netns)
           failures == IF live.netns = e.netns THEN {"raised"} ELSE {"raised", "error"}
<1>1. /\ r \in Radio /\ Root \in Place /\ Root \notin Netns /\ None \notin Name
      /\ e.netns \in Place /\ e.name \in Name /\ (e.netns # Root => e.netns \in Netns)
  BY NamesAssumption DEF Entry, Name, Place
<1>2. live \in Netdev /\ live.netns \in Place /\ live.name \in Name
      /\ live = [netns |-> live.netns, name |-> live.name]
  BY FoundIsLive
<1>3. /\ made \in Device /\ made.netdev = d.netdev /\ made.owned = d.owned
      /\ d.core \subseteq made.core /\ made.core \subseteq d.core \cup ({e.netns} \cap Netns)
      /\ made.plain = d.plain /\ (e.netns \in Netns => e.netns \in made.core \cup made.plain)
      /\ made.busy = d.busy /\ made.supplicants = d.supplicants
  <2>1. CASE e.netns = Root
    BY <1>1, <2>1
  <2>2. CASE e.netns # Root
    BY <1>1, <2>2, CreateNamespaceOK
  <2> QED BY <2>1, <2>2
<1>4. \/ o = Outcome(Move(made, r, e.netns, e.name), "prepared", 0)
      \/ o = Outcome(made, "raised", 1) \/ o = Outcome(d, "raised", 1)
      \/ \E f \in failures : o = Outcome(restored, f, 1)
      \/ \E n \in {live.netns, Root, e.netns}, f \in failures :
           o = Outcome(Cleaned(Move(made, r, n, None)), f, 2)
  <2> HIDE DEF made
  <2> QED BY DEF Prepare, RestoreFails, Outcome, made, Way
<1>5. failures \subseteq {"raised", "error"}
  OBVIOUS
<1>6. d.netdev \in [Radio -> Netdev \cup {Unplugged}]
  BY DeviceParts
<1> HIDE DEF made, failures, r
<1>7. ASSUME NEW b \in {d, made}, NEW n \in Place, NEW name \in Name \cup {None}
      PROVE  LET c == Move(b, r, n, name) IN
             /\ c \in Device /\ c.netdev = [d.netdev EXCEPT ![r] = [netns |-> n, name |-> name]]
             /\ c.owned = d.owned \ {r} /\ c.core = b.core /\ c.plain = b.plain /\ c.busy = d.busy
             /\ c.supplicants = d.supplicants
             /\ n \in {live.netns, Root} \/ (b = made /\ n = e.netns) => (Housed(d) => Housed(c))
  <2>1. /\ b \in Device /\ b.netdev = d.netdev /\ b.owned = d.owned /\ b.busy = d.busy
        /\ b.supplicants = d.supplicants /\ d.core \subseteq b.core /\ b.plain = d.plain
    BY <1>3
  <2>2. b.netdev[r] \in Netdev
    BY <1>2, <2>1
  <2> DEFINE c == Move(b, r, n, name)
  <2>3. /\ c \in Device /\ c.netdev = [d.netdev EXCEPT ![r] = [netns |-> n, name |-> name]]
        /\ c.owned = d.owned \ {r} /\ c.core = b.core /\ c.plain = b.plain /\ c.busy = d.busy
        /\ c.supplicants = d.supplicants
    BY <1>1, <2>1, <2>2, MoveOK
  <2> HIDE DEF c
  <2>4. ASSUME n \in {live.netns, Root} \/ (b = made /\ n = e.netns), Housed(d), NEW q \in Radio,
               c.netdev[q].netns \in Netns
        PROVE  c.netdev[q].netns \in c.core \cup c.plain
    <3>1. CASE q = r
      <4>1. c.netdev[q].netns = n
        BY <1>1, <1>6, <2>3, <3>1
      <4>2. live.netns \in Netns => live.netns \in d.core \cup d.plain
        BY <1>1, <2>4 DEF Housed
      <4> QED BY <1>1, <1>3, <2>1, <2>3, <2>4, <4>1, <4>2
    <3>2. CASE q # r
      BY <1>1, <1>6, <2>1, <2>3, <2>4, <3>2 DEF Housed
    <3> QED BY <3>1, <3>2
  <2>5. n \in {live.netns, Root} \/ (b = made /\ n = e.netns) => (Housed(d) => Housed(c))
    BY <2>4 DEF Housed
  <2> QED BY <2>3, <2>5 DEF c
<1>8. CASE o = Outcome(Move(made, r, e.netns, e.name), "prepared", 0)
  <2> DEFINE c == Move(made, r, e.netns, e.name)
  <2>1. /\ c \in Device /\ c.netdev = [d.netdev EXCEPT ![r] = [netns |-> e.netns, name |-> e.name]]
        /\ c.owned = d.owned \ {r} /\ c.core = made.core /\ c.plain = made.plain /\ c.busy = d.busy
        /\ c.supplicants = d.supplicants /\ (Housed(d) => Housed(c))
    BY <1>1, <1>7
  <2>2. o.dev = c /\ o.status = "prepared" /\ o.cost = 0
    BY <1>8 DEF Outcome
  <2> HIDE DEF c
  <2>3. c.netdev[r] = [netns |-> e.netns, name |-> e.name] /\ c.netdev[r] \in Netdev
    BY <1>1, <1>6, <2>1 DEF Netdev
  <2> QED BY <1>1, <1>3, <1>6, <2>1, <2>2, <2>3 DEF Prepared, Placed, r
<1>9. CASE o = Outcome(made, "raised", 1) \/ o = Outcome(d, "raised", 1)
  <2>1. o.dev \in {d, made} /\ o.status = "raised" /\ o.cost = 1
    BY <1>9 DEF Outcome
  <2>2. Housed(d) => Housed(made)
    BY <1>3 DEF Housed
  <2> QED BY <1>1, <1>2, <1>3, <2>1, <2>2 DEF Prepared, r
<1>10. ASSUME NEW f \in failures, o = Outcome(restored, f, 1)
       PROVE  Prepared(d, e, o)
  <2> DEFINE c == Move(d, r, live.netns, live.name)
  <2>1. /\ c \in Device /\ c.netdev = [d.netdev EXCEPT ![r] = [netns |-> live.netns, name |-> live.name]]
        /\ c.owned = d.owned \ {r} /\ c.core = d.core /\ c.plain = d.plain /\ c.busy = d.busy
        /\ c.supplicants = d.supplicants /\ (Housed(d) => Housed(c))
    BY <1>2, <1>7, ZenonT(60)
  <2>2. o.dev = c /\ o.status = f /\ o.cost = 1
    BY <1>10 DEF Outcome
  <2> HIDE DEF c
  <2>3. c.netdev[r] = live
    BY <1>1, <1>2, <1>6, <2>1
  <2> QED BY <1>1, <1>2, <1>5, <1>6, <2>1, <2>2, <2>3 DEF Prepared, r
<1>11. ASSUME NEW n \in {live.netns, Root, e.netns}, NEW f \in failures,
              o = Outcome(Cleaned(Move(made, r, n, None)), f, 2)
       PROVE  Prepared(d, e, o)
  <2> DEFINE m == Move(made, r, n, None)
             c == Cleaned(m)
  <2>1. n \in Place
    BY <1>1, <1>2
  <2>2. /\ m \in Device /\ m.netdev = [d.netdev EXCEPT ![r] = [netns |-> n, name |-> None]]
        /\ m.owned = d.owned \ {r} /\ m.core = made.core /\ m.plain = made.plain /\ m.busy = d.busy
        /\ m.supplicants = d.supplicants /\ (Housed(d) => Housed(m))
    BY <1>7, <2>1
  <2>3. o.dev = c /\ o.status = f /\ o.cost = 2
    BY <1>11 DEF Outcome
  <2> HIDE DEF m
  <2>4. /\ c \in Device /\ c.netdev = m.netdev /\ c.owned = m.owned
        /\ c.core \subseteq m.core /\ c.plain = m.plain /\ c.busy = m.busy
        /\ c.supplicants = m.supplicants /\ (Housed(d) => Housed(c))
    BY <2>2, DeleteIfEmptyOK
  <2> HIDE DEF c
  <2>5. c.netdev[r] = [netns |-> n, name |-> None] /\ c.netdev[r] \in Netdev
    BY <1>1, <1>6, <2>1, <2>2, <2>4 DEF Netdev
  <2> QED BY <1>1, <1>3, <1>5, <1>6, <2>2, <2>3, <2>4, <2>5 DEF Prepared, r
<1> QED BY <1>4, <1>8, <1>9, <1>10, <1>11

(* The rest of an activation, of a radio that has been prepared *)
LEMMA SetupOK ==
  ASSUME NEW d \in Device, NEW e \in Entry, NEW o \in Setup(d, e)
  PROVE  /\ o.dev \in Device /\ o.dev.busy = d.busy /\ o.cost \in Nat
         /\ o.dev.owned \subseteq d.owned /\ d.owned \ {e.radio} \subseteq o.dev.owned
         /\ o.dev.core \subseteq d.core /\ o.dev.plain = d.plain /\ (Housed(d) => Housed(o.dev))
         /\ \A q \in Radio \ {e.radio} : o.dev.netdev[q] = d.netdev[q]
         /\ \/ o.dev.netdev[e.radio] = d.netdev[e.radio]
            \/ /\ o.dev.netdev[e.radio] \in Netdev
               /\ o.dev.netdev[e.radio].name # None \/ o.cost >= 2
         /\ \/ /\ o.status = "provisioned" /\ o.cost = 0
               /\ o.dev.netdev = d.netdev /\ o.dev.owned = d.owned /\ o.dev.core = d.core
               /\ o.dev.supplicants =
                    d.supplicants \cup (IF e.secure THEN {<<e.netns, e.name>>} ELSE {})
            \/ /\ o.status = "raised" /\ (o.cost >= 1 \/ ~Placed(d, e))
               /\ o.dev.supplicants \subseteq d.supplicants
               /\ IF Found(d, e) THEN e.radio \notin o.dev.owned ELSE o.dev = d
               /\ Placed(d, e) => <<e.netns, e.name>> \notin o.dev.supplicants
<1> DEFINE started == StartSupplicant(d, e.netns, e.name)
           gone == e.secure /\ ~Placed(d, e)
<1>1. \/ ~gone /\ o = Outcome(IF e.secure THEN started ELSE d, "provisioned", 0)
      \/ \E u \in Revert(d, e) : o = Outcome(u.dev, "raised", u.cost + (IF gone THEN 0 ELSE 1))
  BY DEF Setup
<1>2. ASSUME o = Outcome(IF e.secure THEN started ELSE d, "provisioned", 0)
      PROVE  /\ o.dev \in Device /\ o.dev.busy = d.busy /\ o.cost = 0 /\ o.status = "provisioned"
             /\ o.dev.netdev = d.netdev /\ o.dev.owned = d.owned /\ o.dev.core = d.core
             /\ o.dev.plain = d.plain
             /\ (Housed(d) => Housed(o.dev))
             /\ o.dev.supplicants =
                  d.supplicants \cup (IF e.secure THEN {<<e.netns, e.name>>} ELSE {})
  <2>1. CASE e.secure
    <3> DEFINE c == StopSupplicant(d, e.netns, e.name)
               P == c.supplicants \cup {<<e.netns, e.name>>}
    <3>1. /\ c \in Device /\ c.netdev = d.netdev /\ c.owned = d.owned
          /\ c.core = d.core /\ c.plain = d.plain
          /\ c.busy = d.busy /\ c.supplicants = d.supplicants \ {<<e.netns, e.name>>}
      BY StopOK
    <3>2. started = [c EXCEPT !.supplicants = P]
      BY DEF StartSupplicant
    <3> HIDE DEF c
    <3>3. P \subseteq Place \X Name /\ P = d.supplicants \cup {<<e.netns, e.name>>}
      BY <3>1, DeviceParts DEF Entry
    <3> HIDE DEF P
    <3>4. started = [netdev |-> c.netdev, owned |-> c.owned, core |-> c.core, plain |-> c.plain,
                     supplicants |-> P, busy |-> c.busy]
      BY <3>1, <3>2, DeviceParts
    <3>5. started \in Device
      BY <3>1, <3>3, <3>4, DeviceParts DEF Device
    <3> HIDE DEF started
    <3>6. o.dev = started /\ o.cost = 0 /\ o.status = "provisioned"
      BY <1>2, <2>1 DEF Outcome
    <3>7. Housed(d) => Housed(started)
      BY <3>1, <3>4 DEF Housed
    <3> QED BY <2>1, <3>1, <3>3, <3>4, <3>5, <3>6, <3>7
  <2>2. CASE ~e.secure
    BY <1>2, <2>2 DEF Outcome
  <2> QED BY <2>1, <2>2
<1>3. ASSUME NEW u \in Revert(d, e),
             o = Outcome(u.dev, "raised", u.cost + (IF gone THEN 0 ELSE 1))
      PROVE  /\ Undone(d, e, u) /\ o.dev = u.dev /\ o.status = "raised"
             /\ o.cost \in Nat /\ o.cost >= u.cost /\ (o.cost >= 1 \/ ~Placed(d, e))
             /\ IF Found(d, e) THEN e.radio \notin u.dev.owned ELSE u.dev = d
             /\ Placed(d, e) => <<e.netns, e.name>> \notin u.dev.supplicants
  <2>0. Placed(d, e) =>
          /\ Found(d, e)
          /\ d.netdev[e.radio].netns = e.netns /\ d.netdev[e.radio].name = e.name
    BY DEF Placed, Found
  <2>1. /\ Undone(d, e, u) /\ (IF Found(d, e) THEN e.radio \notin u.dev.owned ELSE u.dev = d)
        /\ Placed(d, e) => <<e.netns, e.name>> \notin u.dev.supplicants
    BY <2>0, RevertOK
  <2>2. u.cost \in Nat
    BY <2>1 DEF Undone
  <2> QED BY <1>3, <2>1, <2>2 DEF Outcome
<1> HIDE DEF started, gone
<1>4. CASE o = Outcome(IF e.secure THEN started ELSE d, "provisioned", 0)
  BY <1>2, <1>4
<1>5. ASSUME NEW u \in Revert(d, e),
             o = Outcome(u.dev, "raised", u.cost + (IF gone THEN 0 ELSE 1))
      PROVE  /\ o.dev \in Device /\ o.dev.busy = d.busy /\ o.cost \in Nat
             /\ o.dev.owned \subseteq d.owned /\ d.owned \ {e.radio} \subseteq o.dev.owned
             /\ o.dev.core \subseteq d.core /\ o.dev.plain = d.plain /\ (Housed(d) => Housed(o.dev))
             /\ \A q \in Radio \ {e.radio} : o.dev.netdev[q] = d.netdev[q]
             /\ \/ o.dev.netdev[e.radio] = d.netdev[e.radio]
                \/ /\ o.dev.netdev[e.radio] \in Netdev
                   /\ o.dev.netdev[e.radio].name # None \/ o.cost >= 2
             /\ o.status = "raised" /\ (o.cost >= 1 \/ ~Placed(d, e))
             /\ o.dev.supplicants \subseteq d.supplicants
             /\ IF Found(d, e) THEN e.radio \notin o.dev.owned ELSE o.dev = d
             /\ Placed(d, e) => <<e.netns, e.name>> \notin o.dev.supplicants
  <2>1. /\ Undone(d, e, u) /\ o.dev = u.dev /\ o.status = "raised"
        /\ o.cost \in Nat /\ o.cost >= u.cost /\ (o.cost >= 1 \/ ~Placed(d, e))
        /\ IF Found(d, e) THEN e.radio \notin u.dev.owned ELSE u.dev = d
        /\ Placed(d, e) => <<e.netns, e.name>> \notin u.dev.supplicants
    BY <1>3, <1>5
  <2>2. u.cost \in Nat
    BY <2>1 DEF Undone
  <2> QED BY <2>1, <2>2 DEF Undone, Less
<1> QED BY <1>1, <1>2, <1>4, <1>5

LEMMA SetupKeeps ==
  ASSUME NEW d \in Device, NEW e \in Entry, NEW o \in Setup(d, e)
  PROVE  o.dev.busy = d.busy /\ o.dev.plain = d.plain /\ (Housed(d) => Housed(o.dev))
BY SetupOK, ZenonT(60)

LEMMA SetupEndsEitherWay ==
  ASSUME NEW d \in Device, NEW e \in Entry, NEW o \in Setup(d, e)
  PROVE  \/ o.status = "provisioned" /\ o.dev.core = d.core
         \/ o.status = "raised" /\ (o.cost >= 1 \/ ~Placed(d, e))
<1> DEFINE started == StartSupplicant(d, e.netns, e.name)
           gone == e.secure /\ ~Placed(d, e)
<1>1. \/ ~gone /\ o = Outcome(IF e.secure THEN started ELSE d, "provisioned", 0)
      \/ \E u \in Revert(d, e) : o = Outcome(u.dev, "raised", u.cost + (IF gone THEN 0 ELSE 1))
  BY DEF Setup
<1>2. started.core = d.core
  BY DEF StartSupplicant, StopSupplicant
<1>3. ASSUME NEW u \in Revert(d, e),
             o = Outcome(u.dev, "raised", u.cost + (IF gone THEN 0 ELSE 1))
      PROVE  o.status = "raised" /\ (o.cost >= 1 \/ ~Placed(d, e))
  <2>1. u.cost \in Nat
    BY RevertOK DEF Undone
  <2> HIDE DEF started
  <2> QED BY <1>3, <2>1 DEF Outcome
<1> HIDE DEF started, gone
<1>4. CASE o = Outcome(IF e.secure THEN started ELSE d, "provisioned", 0)
  BY <1>2, <1>4 DEF Outcome
<1> QED BY <1>1, <1>3, <1>4

LEMMA KillOK ==
  ASSUME NEW d \in Device
  PROVE  LET c == KillAllSupplicants(d) IN
         /\ c \in Device /\ c.netdev = d.netdev /\ c.owned = d.owned
         /\ c.core = d.core /\ c.plain = d.plain
         /\ c.busy = d.busy /\ c.supplicants = {}
<1> DEFINE P == {}
<1>1. P \subseteq Place \X Name
  OBVIOUS
<1>2. KillAllSupplicants(d) = [d EXCEPT !.supplicants = P]
  BY DEF KillAllSupplicants
<1> HIDE DEF P
<1>3. KillAllSupplicants(d) = [netdev |-> d.netdev, owned |-> d.owned, core |-> d.core,
                               plain |-> d.plain, supplicants |-> P, busy |-> d.busy]
  BY <1>2, DeviceParts
<1> QED BY <1>1, <1>3, DeviceParts DEF Device, P

LEMMA ClaimOK ==
  ASSUME NEW d \in Device, NEW e \in Entry
  PROVE  LET c == Claim(d, e) IN
         /\ c \in Device /\ c.netdev = d.netdev /\ c.core = d.core /\ c.plain = d.plain
         /\ c.busy = d.busy /\ c.supplicants = d.supplicants
         /\ c.owned = IF Placed(d, e) THEN d.owned \cup {e.radio} ELSE d.owned
<1> DEFINE O == d.owned \cup {e.radio}
<1>1. O \subseteq Radio
  BY DeviceParts DEF Entry
<1>2. Claim(d, e) = IF Placed(d, e) THEN [d EXCEPT !.owned = O] ELSE d
  BY DEF Claim
<1> HIDE DEF O
<1>3. [d EXCEPT !.owned = O] = [netdev |-> d.netdev, owned |-> O, core |-> d.core, plain |-> d.plain,
                                supplicants |-> d.supplicants, busy |-> d.busy]
  BY DeviceParts
<1> QED BY <1>1, <1>2, <1>3, DeviceParts DEF Device, O

LEMMA AtBootOK ==
  /\ AtBoot \in Device /\ AtBoot.owned = {} /\ AtBoot.core = {} /\ AtBoot.plain = {}
  /\ AtBoot.supplicants = {}
  /\ AtBoot.busy = {} /\ \A r \in Radio : AtBoot.netdev[r] = Home(r)
  /\ \A r \in Radio : Home(r) \in Netdev /\ Home(r).name # None
BY NamesAssumption DEF AtBoot, Device, Home, Netdev, Place, Name

(* The hot plug of a radio, and the tools that use one *)
LEMMA OutsideOK ==
  ASSUME NEW d \in Device, NEW r \in Radio, NEW x \in Netdev \cup {Unplugged},
         NEW O \in SUBSET Radio, NEW B \in SUBSET Radio
  PROVE  /\ LET c == [d EXCEPT !.netdev[r] = x, !.owned = O, !.busy = B] IN
            /\ c \in Device /\ c.netdev = [d.netdev EXCEPT ![r] = x] /\ c.owned = O
            /\ c.core = d.core /\ c.plain = d.plain /\ c.busy = B /\ c.supplicants = d.supplicants
         /\ LET c == [d EXCEPT !.netdev[r] = x] IN
            /\ c \in Device /\ c.netdev = [d.netdev EXCEPT ![r] = x] /\ c.owned = d.owned
            /\ c.core = d.core /\ c.plain = d.plain /\ c.busy = d.busy /\ c.supplicants = d.supplicants
         /\ LET c == [d EXCEPT !.busy = B] IN
            /\ c \in Device /\ c.netdev = d.netdev /\ c.owned = d.owned
            /\ c.core = d.core /\ c.plain = d.plain /\ c.busy = B /\ c.supplicants = d.supplicants
<1> DEFINE N == [d.netdev EXCEPT ![r] = x]
<1>1. N \in [Radio -> Netdev \cup {Unplugged}]
  BY DeviceParts
<1>2. [d EXCEPT !.netdev[r] = x, !.owned = O, !.busy = B] =
        [netdev |-> N, owned |-> O, core |-> d.core, plain |-> d.plain,
         supplicants |-> d.supplicants, busy |-> B]
  <2> DEFINE c == [netdev |-> N, owned |-> d.owned, core |-> d.core, plain |-> d.plain,
                   supplicants |-> d.supplicants, busy |-> d.busy]
  <2>1. [d EXCEPT !.netdev[r] = x] = c
    BY DeviceParts
  <2> HIDE DEF N
  <2> DEFINE b == [netdev |-> N, owned |-> O, core |-> d.core, plain |-> d.plain,
                   supplicants |-> d.supplicants, busy |-> d.busy]
  <2>2. [c EXCEPT !.owned = O] = b
    OBVIOUS
  <2>3. [b EXCEPT !.busy = B] =
          [netdev |-> N, owned |-> O, core |-> d.core, plain |-> d.plain,
           supplicants |-> d.supplicants, busy |-> B]
    OBVIOUS
  <2> HIDE DEF b, c
  <2>4. [d EXCEPT !.netdev[r] = x, !.owned = O, !.busy = B] = [[c EXCEPT !.owned = O] EXCEPT !.busy = B]
    BY <2>1
  <2> QED BY <2>2, <2>3, <2>4
<1>3. [d EXCEPT !.netdev[r] = x] =
        [netdev |-> N, owned |-> d.owned, core |-> d.core, plain |-> d.plain,
         supplicants |-> d.supplicants, busy |-> d.busy]
  BY DeviceParts
<1>4. [d EXCEPT !.busy = B] =
        [netdev |-> d.netdev, owned |-> d.owned, core |-> d.core, plain |-> d.plain,
         supplicants |-> d.supplicants, busy |-> B]
  BY DeviceParts
<1> HIDE DEF N
<1> QED BY <1>1, <1>2, <1>3, <1>4, DeviceParts DEF Device, N

-------------------------------------------------------------------------------
(* What a device is like whose change has been cut short.                  *)

(* Only the radio of entry e is other than in d *)
CutShort(d, e, c) ==
  /\ c \in Device /\ c.busy = d.busy /\ (Housed(d) => Housed(c))
  /\ \A q \in Radio \ {e.radio} : c.netdev[q] = d.netdev[q]

LEMMA MoveHouses ==
  ASSUME NEW d \in Device, NEW e \in Entry, d.netdev[e.radio] \in Netdev,
         NEW n \in Place, n \in {d.netdev[e.radio].netns, Root} \cup d.core \cup d.plain,
         NEW name \in Name \cup {None}
  PROVE  CutShort(d, e, Move(d, e.radio, n, name))
<1> DEFINE r == e.radio
           c == Move(d, r, n, name)
<1>1. r \in Radio /\ Root \notin Netns /\ d.netdev \in [Radio -> Netdev \cup {Unplugged}]
  BY NamesAssumption, DeviceParts DEF Entry
<1>2. /\ c \in Device /\ c.netdev = [d.netdev EXCEPT ![r] = [netns |-> n, name |-> name]]
      /\ c.core = d.core /\ c.plain = d.plain /\ c.busy = d.busy
  BY <1>1, MoveOK
<1>3. \A q \in Radio \ {r} : c.netdev[q] = d.netdev[q]
  BY <1>1, <1>2
<1>4. c.netdev[r] = [netns |-> n, name |-> name]
  BY <1>1, <1>2
<1> HIDE DEF c
<1>5. ASSUME Housed(d), NEW q \in Radio, c.netdev[q].netns \in Netns
      PROVE  c.netdev[q].netns \in c.core \cup c.plain
  <2>1. CASE q = r
    BY <1>1, <1>2, <1>4, <1>5, <2>1 DEF Housed
  <2>2. CASE q # r
    BY <1>2, <1>3, <1>5, <2>2 DEF Housed
  <2> QED BY <2>1, <2>2
<1> QED BY <1>2, <1>3, <1>5 DEF CutShort, Housed, c

LEMMA DisownOK ==
  ASSUME NEW d \in Device, NEW r
  PROVE  LET c == [d EXCEPT !.owned = @ \ {r}] IN
         /\ c \in Device /\ c.netdev = d.netdev /\ c.owned = d.owned \ {r}
         /\ c.core = d.core /\ c.plain = d.plain
         /\ c.busy = d.busy /\ c.supplicants = d.supplicants
<1> DEFINE W == d.owned \ {r}
<1>1. W \subseteq Radio
  BY DeviceParts
<1> HIDE DEF W
<1>2. [d EXCEPT !.owned = W] = [netdev |-> d.netdev, owned |-> W, core |-> d.core, plain |-> d.plain,
                                supplicants |-> d.supplicants, busy |-> d.busy]
  BY DeviceParts
<1> QED BY <1>1, <1>2, DeviceParts DEF Device, W

LEMMA RevertingOK ==
  ASSUME NEW d \in Device, NEW e \in Entry, NEW c \in Reverting(d, e)
  PROVE  CutShort(d, e, c)
<1> DEFINE r == e.radio
           live == d.netdev[r]
           stopped == StopSupplicant(d, live.netns, live.name)
<1>0. CutShort(d, e, d)
  BY DEF CutShort
<1>1. CASE ~Found(d, e)
  BY <1>0, <1>1 DEF Reverting
<1>2. CASE Found(d, e)
  <2>1. r \in Radio /\ Root \in Place /\ r \in Name /\ live \in Netdev /\ live.netns \in Place
    BY <1>2, FoundIsLive DEF Entry, Name, Place
  <2>2. /\ stopped \in Device /\ stopped.netdev = d.netdev /\ stopped.core = d.core
        /\ stopped.plain = d.plain /\ stopped.busy = d.busy
    BY StopOK
  <2>3. CutShort(d, e, stopped)
    BY <2>2 DEF CutShort, Housed
  <2>4. \/ c \in {d, stopped} \/ c = [stopped EXCEPT !.owned = @ \ {r}]
        \/ c = Move(stopped, r, Root, r)
        \/ \E n \in {live.netns, Root} : c = Move(stopped, r, n, None)
        \/ \E o \in Revert(d, e) : c = o.dev
    BY <1>2 DEF Reverting, Way
  <2> HIDE DEF stopped
  <2>5. CASE c = [stopped EXCEPT !.owned = @ \ {r}]
    BY <2>2, <2>5, DisownOK DEF CutShort, Housed
  <2>6. ASSUME NEW n \in {live.netns, Root}, NEW name \in Name \cup {None},
               c = Move(stopped, r, n, name)
        PROVE  CutShort(d, e, c)
    <3>1. CutShort(stopped, e, c)
      BY <2>1, <2>2, <2>6, MoveHouses
    <3> QED BY <2>2, <2>3, <3>1 DEF CutShort
  <2>7. ASSUME NEW o \in Revert(d, e), c = o.dev
        PROVE  CutShort(d, e, c)
    <3>1. Less(d, o.dev, r)
      BY RevertOK DEF Undone
    <3> QED BY <2>7, <3>1 DEF Less, CutShort
  <2> QED BY <1>0, <2>1, <2>3, <2>4, <2>5, <2>6, <2>7
<1> QED BY <1>1, <1>2

LEMMA DeactivatingOK ==
  ASSUME NEW d \in Device, NEW e \in Entry, NEW c \in Deactivating(d, e)
  PROVE  /\ CutShort(d, e, c)
         /\ HandsOver(d, e) => c.netdev[e.radio] = d.netdev[e.radio]
<1> DEFINE b == RemoveNetwork(d, e)
<1>1. /\ b \in Device /\ b.netdev = d.netdev /\ b.core = d.core /\ b.plain = d.plain /\ b.busy = d.busy
  BY RemoveNetworkOK
<1>2. CutShort(d, e, d) /\ CutShort(d, e, b)
  BY <1>1 DEF CutShort, Housed
<1>3. \/ c \in {d, b} \/ \E o \in Deactivate(d, e) : c = o.dev
      \/ ~HandsOver(d, e) /\ c \in Reverting(b, e)
  BY DEF Deactivating
<1> HIDE DEF b
<1>4. ASSUME NEW o \in Deactivate(d, e), c = o.dev
      PROVE  CutShort(d, e, c) /\ (HandsOver(d, e) => c.netdev[e.radio] = d.netdev[e.radio])
  <2>1. /\ Less(d, o.dev, e.radio)
        /\ o.dev.netdev[e.radio] # d.netdev[e.radio] => ~HandsOver(d, e)
    BY DeactivateOK DEF Undone
  <2> QED BY <1>4, <2>1 DEF Less, CutShort
<1>5. c \in Reverting(b, e) => CutShort(d, e, c)
  <2>1. c \in Reverting(b, e) => CutShort(b, e, c)
    BY <1>1, RevertingOK
  <2> QED BY <1>1, <1>2, <2>1 DEF CutShort
<1> QED BY <1>1, <1>2, <1>3, <1>4, <1>5

LEMMA PreparingOK ==
  ASSUME NEW d \in Device, NEW e \in Entry, Found(d, e), NEW c \in Preparing(d, e)
  PROVE  CutShort(d, e, c)
<1> DEFINE r == e.radio
           live == d.netdev[r]
           made == IF e.netns = Root THEN d ELSE CreateNamespace(d, e.netns)
           half == HalfMadeNamespace(d, e.netns)
<1>1. /\ r \in Radio /\ Root \in Place /\ e.netns \in Place
      /\ e.netns # Root => e.netns \in Netns
  BY DEF Entry, Place
<1>2. live \in Netdev /\ live.netns \in Place /\ live.name \in Name
  BY FoundIsLive
<1>3. /\ made \in Device /\ made.netdev = d.netdev /\ made.busy = d.busy
      /\ d.core \subseteq made.core /\ made.plain = d.plain
      /\ e.netns # Root => e.netns \in made.core \cup made.plain
  BY <1>1, CreateNamespaceOK
<1>4. CutShort(d, e, d) /\ CutShort(d, e, made)
  BY <1>3 DEF CutShort, Housed
<1>5. e.netns # Root => CutShort(d, e, half)
  <2> SUFFICES ASSUME e.netns \in Netns PROVE CutShort(d, e, half)
    BY <1>1
  <2> DEFINE Q == d.plain \cup {e.netns}
  <2>1. half = d \/ half = [d EXCEPT !.plain = Q]
    BY DEF HalfMadeNamespace
  <2>2. Q \subseteq Netns /\ d.plain \subseteq Q
    BY DeviceParts
  <2> HIDE DEF Q
  <2>3. [d EXCEPT !.plain = Q] = [netdev |-> d.netdev, owned |-> d.owned, core |-> d.core, plain |-> Q,
                                  supplicants |-> d.supplicants, busy |-> d.busy]
    BY DeviceParts
  <2> HIDE DEF half
  <2>4. half \in Device
    BY <2>1, <2>2, <2>3, DeviceParts DEF Device
  <2>5. /\ half.netdev = d.netdev /\ half.core = d.core /\ d.plain \subseteq half.plain
        /\ half.busy = d.busy
    BY <2>1, <2>2, <2>3
  <2> QED BY <2>4, <2>5 DEF CutShort, Housed
<1>6. \/ c = d \/ (e.netns # Root /\ c = half)
      \/ \E n \in {live.netns, Root, e.netns}, name \in {None, live.name} : c = Move(made, r, n, name)
      \/ \E o \in Prepare(d, e) : c = o.dev
  <2> HIDE DEF made, half
  <2> QED BY DEF Preparing, Way, made, half
<1> HIDE DEF made, half
<1>7. ASSUME NEW n \in {live.netns, Root, e.netns}, NEW name \in {None, live.name},
             c = Move(made, r, n, name)
      PROVE  CutShort(d, e, c)
  <2>1. /\ made.netdev[r] = live /\ n \in Place /\ name \in Name \cup {None}
        /\ n \in {live.netns, Root} \cup made.core \cup made.plain
    BY <1>1, <1>2, <1>3
  <2>2. CutShort(made, e, c)
    BY <1>2, <1>3, <1>7, <2>1, MoveHouses
  <2> QED BY <1>3, <1>4, <2>2 DEF CutShort
<1>8. ASSUME NEW o \in Prepare(d, e), c = o.dev
      PROVE  CutShort(d, e, c)
  BY <1>8, PrepareOK DEF Prepared, CutShort
<1> QED BY <1>4, <1>5, <1>6, <1>7, <1>8

LEMMA SettingUpOK ==
  ASSUME NEW d \in Device, NEW e \in Entry, NEW c \in SettingUp(d, e)
  PROVE  CutShort(d, e, c)
<1>1. CASE c \in Reverting(d, e)
  BY <1>1, RevertingOK
<1>2. CASE c \notin Reverting(d, e)
  <2>1. c = StartSupplicant(d, e.netns, e.name) /\ e.secure /\ Placed(d, e)
    BY <1>2 DEF SettingUp
  <2> DEFINE o == Outcome(c, "provisioned", 0)
  <2>2. o \in Setup(d, e) /\ o.dev = c
    BY <2>1 DEF Setup, Outcome
  <2>3. o.status # "raised"
    BY DEF Outcome
  <2> HIDE DEF o
  <2> QED BY <2>2, <2>3, SetupOK DEF CutShort
<1> QED BY <1>1, <1>2

LEMMA ReturningOK ==
  ASSUME NEW d \in Device, NEW S \in SUBSET Netns, NEW c \in Returning(d, S)
  PROVE  /\ c \in Device /\ c.busy = d.busy /\ (Housed(d) => Housed(c))
         /\ \A r \in Radio : c.netdev[r] = d.netdev[r] \/ d.netdev[r].netns \in S
<1>1. ASSUME NEW stopped \in SUBSET Netns, stopped \subseteq S, NEW sent \in SUBSET Inside(d, stopped),
             NEW released \in SUBSET sent, NEW deleted \in SUBSET Netns,
             \A n \in deleted : In(d, n) \subseteq sent, c = Sent(d, stopped, sent, released, deleted)
      PROVE  /\ c \in Device /\ c.busy = d.busy /\ (Housed(d) => Housed(c))
             /\ \A r \in Radio : c.netdev[r] = d.netdev[r] \/ d.netdev[r].netns \in S
  <2> DEFINE x == Sent(d, stopped, sent, released, deleted)
  <2>1. /\ x \in Device /\ x.busy = d.busy /\ x.owned = d.owned \ released
        /\ x.core = d.core \ deleted /\ x.plain = d.plain \ deleted
        /\ x.supplicants = {s \in d.supplicants : s[1] \notin stopped}
        /\ \A r \in Radio :
             \/ x.netdev[r] = d.netdev[r] /\ r \notin sent
             \/ /\ d.netdev[r] \in Netdev /\ d.netdev[r].netns \in stopped /\ r \in sent
                /\ x.netdev[r] = [netns |-> Root, name |-> d.netdev[r].name]
                /\ x.netdev[r] \in Netdev
        /\ Housed(d) => Housed(x)
    BY <1>1, SentOK, Zenon
  <2> QED BY <1>1, <2>1
<1>2. PICK stopped \in SUBSET S :
        \E sent \in SUBSET Inside(d, stopped) :
          \E released \in SUBSET sent, deleted \in SUBSET {n \in stopped : In(d, n) \subseteq sent} :
            c = Sent(d, stopped, sent, released, deleted)
  BY DEF Returning
<1>3. PICK sent \in SUBSET Inside(d, stopped) :
        \E released \in SUBSET sent, deleted \in SUBSET {n \in stopped : In(d, n) \subseteq sent} :
          c = Sent(d, stopped, sent, released, deleted)
  BY <1>2
<1>4. PICK released \in SUBSET sent, deleted \in SUBSET {n \in stopped : In(d, n) \subseteq sent} :
        c = Sent(d, stopped, sent, released, deleted)
  BY <1>3
<1>5. deleted \in SUBSET Netns /\ \A n \in deleted : In(d, n) \subseteq sent
  <2>1. \A n \in deleted : n \in stopped /\ In(d, n) \subseteq sent
    OBVIOUS
  <2> QED BY <2>1
<1> QED BY <1>1, <1>4, <1>5

-------------------------------------------------------------------------------
(* The invariant of every behaviour: the types, and what the guards and the  *)
(* file system keep.                                                         *)

LEMMA EntriesHaveParts ==
  ASSUME NEW s \in Seq(Entry)
  PROVE  /\ s # <<>> => Head(s) \in Entry /\ Tail(s) \in Seq(Entry)
         /\ \A e \in Entry : Append(s, e) \in Seq(Entry)
OBVIOUS

LEMMA LayoutsAreEntries == \A v \in Version : Layout[v] \in Seq(Entry)
BY ProfileAssumption

LEMMA EntriesOfOK ==
  ASSUME NEW p PROVE EntriesOf(p) \in Seq(Entry)
BY LayoutsAreEntries DEF EntriesOf, Readable

(* Disturbances are counted and never forgotten *)
Counted(kind, n) ==
  /\ happened' \in [Disturbance -> Nat]
  /\ happened'[kind] = happened[kind] + n
  /\ \A k \in Disturbance \ {kind} : happened'[k] = happened[k]

LEMMA SpendOK ==
  ASSUME happened \in [Disturbance -> Nat], NEW kind \in Disturbance, NEW n \in Nat,
         Spend(kind, n)
  PROVE  Counted(kind, n)
BY DEF Spend, Counted

KeepsGuards ==
  /\ files[Default] \in Version
  /\ editing # NoEdit => editing.profile # Default
  /\ job.op = "delete" => job.profile # Default
  /\ job.phase \in {"claim", "setup"} => job.todo # <<>>
  /\ job.phase = "unlink" => job.op = "delete"

SystemInvariant == TypeOK /\ KeepsGuards

LEMMA JobParts ==
  ASSUME NEW j \in Job
  PROVE  /\ j = [op |-> j.op, phase |-> j.phase, profile |-> j.profile, cfg |-> j.cfg,
                 was |-> j.was, override |-> j.override, ok |-> j.ok, todo |-> j.todo,
                 done |-> j.done]
         /\ j.op \in {"activate", "deactivate", "delete", "revert"}
         /\ j.profile \in Profile /\ j.cfg \in Version /\ j.was \in Profile
         /\ j.override \in BOOLEAN /\ j.ok \in BOOLEAN
         /\ j.todo \in Seq(Entry) /\ j.done \in Seq(Entry)
         /\ j # NoJob /\ j.phase # "none"
BY DEF Job, NoJob

LEMMA NoJobParts == NoJob.op = "none" /\ NoJob.phase = "none"
BY DEF NoJob

LEMMA JobIsRunning ==
  ASSUME TypeOK, job.phase # "none"
  PROVE  job \in Job
BY NoJobParts DEF TypeOK

(* k is the job j with its phase, status and lists as given *)
Stepped(j, k, phase, ok, todo, done) ==
  /\ k \in Job /\ k.op = j.op /\ k.profile = j.profile /\ k.cfg = j.cfg /\ k.was = j.was
  /\ k.override = j.override /\ k.phase = phase /\ k.ok = ok /\ k.todo = todo /\ k.done = done

Phase == {"teardown", "return", "apply", "claim", "setup", "commit", "rollback", "fallback",
          "entries", "record", "returned", "unlink"}

(* every update of a job in the model is such a step *)
LEMMA StepsOfJobs ==
  ASSUME NEW j \in Job, NEW p \in Phase, NEW o \in BOOLEAN,
         NEW t \in Seq(Entry), NEW d \in Seq(Entry)
  PROVE  /\ Stepped(j, [j EXCEPT !.phase = p], p, j.ok, j.todo, j.done)
         /\ Stepped(j, [j EXCEPT !.todo = t], j.phase, j.ok, t, j.done)
         /\ Stepped(j, [j EXCEPT !.ok = o], j.phase, o, j.todo, j.done)
         /\ Stepped(j, [j EXCEPT !.phase = p, !.todo = t], p, j.ok, t, j.done)
         /\ Stepped(j, [j EXCEPT !.ok = o, !.phase = p, !.todo = t], p, o, t, j.done)
         /\ Stepped(j, [[j EXCEPT !.todo = t] EXCEPT !.ok = o], j.phase, o, t, j.done)
         /\ Stepped(j, [[j EXCEPT !.todo = t] EXCEPT !.done = d], j.phase, j.ok, t, d)
         /\ Stepped(j, [[j EXCEPT !.todo = t] EXCEPT !.phase = p, !.done = d], p, j.ok, t, d)
BY DEF Stepped, Job, Phase

LEMMA ActiveOK ==
  ASSUME SystemInvariant
  PROVE  Active \in Profile /\ files[Active] \in Version
BY ProfileAssumption DEF SystemInvariant, TypeOK, KeepsGuards, Active, Readable

LEMMA BeginsAJob ==
  ASSUME SystemInvariant
  PROVE  /\ \A p \in Profile, override \in BOOLEAN : BeginActivate(p, override) =>
              /\ job' \in Job /\ job'.op = "activate" /\ job'.phase = "teardown"
              /\ job'.profile = p /\ job'.cfg = files[p] /\ job'.todo = EntriesOf(Active)
         /\ \A p \in Profile : BeginDeactivate(p) =>
              /\ job' \in Job /\ job'.op = "deactivate" /\ job'.phase = "entries"
              /\ job'.profile = p /\ job'.cfg = files[p] /\ job'.todo = EntriesOf(p)
         /\ \A p \in Profile : BeginForcedDelete(p) =>
              /\ job' \in Job /\ job'.op = "delete" /\ job'.phase = "entries"
              /\ job'.profile = p /\ job'.cfg = files[p] /\ job'.todo = EntriesOf(p)
         /\ BeginRevertAll =>
              /\ job' \in Job /\ job'.op = "revert" /\ job'.phase = "teardown"
              /\ job'.profile = Active /\ job'.cfg = files[Active] /\ job'.todo = EntriesOf(Active)
<1> DEFINE A == Active
           E(p) == EntriesOf(p)
<1>1. A \in Profile /\ files[A] \in Version /\ \A p : E(p) \in Seq(Entry)
  BY ActiveOK, EntriesOfOK
<1> HIDE DEF A, E
<1>2. ASSUME NEW p \in Profile, NEW override \in BOOLEAN, BeginActivate(p, override)
      PROVE  /\ job' \in Job /\ job'.op = "activate" /\ job'.phase = "teardown"
             /\ job'.profile = p /\ job'.cfg = files[p] /\ job'.todo = E(A)
  <2> DEFINE i == ~InvalidEntries(files[p], p)
  <2>1. i \in BOOLEAN /\ files[p] \in Version
    BY <1>2 DEF BeginActivate, Readable, InvalidEntries
  <2>2. job' = [op |-> "activate", phase |-> "teardown", profile |-> p, cfg |-> files[p],
                was |-> A, override |-> override, ok |-> i, todo |-> E(A), done |-> <<>>]
    BY <1>2 DEF BeginActivate, Start, A, E
  <2> HIDE DEF i
  <2> QED BY <1>1, <2>1, <2>2 DEF Job
<1>3. ASSUME NEW p \in Profile, BeginDeactivate(p)
      PROVE  /\ job' \in Job /\ job'.op = "deactivate" /\ job'.phase = "entries"
             /\ job'.profile = p /\ job'.cfg = files[p] /\ job'.todo = E(p)
  <2> DEFINE o == current # p
  <2>1. files[p] \in Version /\ o \in BOOLEAN
    BY <1>3 DEF BeginDeactivate, Readable
  <2>2. job' = [op |-> "deactivate", phase |-> "entries", profile |-> p, cfg |-> files[p],
                was |-> A, override |-> o, ok |-> TRUE, todo |-> E(p), done |-> <<>>]
    BY <1>3 DEF BeginDeactivate, Start, A, E
  <2> HIDE DEF o
  <2> QED BY <1>1, <2>1, <2>2 DEF Job
<1>4. ASSUME NEW p \in Profile, BeginForcedDelete(p)
      PROVE  /\ job' \in Job /\ job'.op = "delete" /\ job'.phase = "entries"
             /\ job'.profile = p /\ job'.cfg = files[p] /\ job'.todo = E(p)
  <2>1. files[p] \in Version
    BY <1>4 DEF BeginForcedDelete, Readable
  <2>2. job' = [op |-> "delete", phase |-> "entries", profile |-> p, cfg |-> files[p],
                was |-> A, override |-> FALSE, ok |-> TRUE, todo |-> E(p), done |-> <<>>]
    BY <1>4 DEF BeginForcedDelete, Start, A, E
  <2> QED BY <1>1, <2>1, <2>2 DEF Job
<1>5. ASSUME BeginRevertAll
      PROVE  /\ job' \in Job /\ job'.op = "revert" /\ job'.phase = "teardown"
             /\ job'.profile = A /\ job'.cfg = files[A] /\ job'.todo = E(A)
  <2>1. job' = [op |-> "revert", phase |-> "teardown", profile |-> A, cfg |-> files[A],
                was |-> A, override |-> FALSE, ok |-> TRUE, todo |-> E(A), done |-> <<>>]
    BY <1>5 DEF BeginRevertAll, Start, A, E
  <2> QED BY <1>1, <2>1 DEF Job
<1> QED BY <1>2, <1>3, <1>4, <1>5 DEF A, E

-------------------------------------------------------------------------------
(* Each step of the system keeps it.                                       *)

LEMMA StartsKeep ==
  ASSUME SystemInvariant
  PROVE  /\ \A p \in Profile, override \in BOOLEAN :
              BeginActivate(p, override) /\ up' \in BOOLEAN => SystemInvariant'
         /\ \A p \in Profile : ActivateRefused(p) \/ BeginDeactivate(p) \/ BeginForcedDelete(p)
                               \/ Delete(p) \/ Break(p) => SystemInvariant'
         /\ \A p \in Profile, v \in Version : Add(p, v) \/ BeginEdit(p, v) => SystemInvariant'
         /\ BeginRevertAll \/ WriteEdit => SystemInvariant'
<1> USE ProfileAssumption, EntriesOfOK, ActiveOK DEF SystemInvariant, KeepsGuards, Phase
<1>1. ASSUME NEW p \in Profile, NEW override \in BOOLEAN, BeginActivate(p, override), up' \in BOOLEAN
      PROVE  SystemInvariant'
  <2>1. /\ job' \in Job /\ job'.op = "activate" /\ job'.phase = "teardown"
    BY <1>1, BeginsAJob
  <2>2. current' \in Profile /\ applied' \in Version
    BY <1>1 DEF BeginActivate, RepairCurrent, RecordDefault, Record, TypeOK
  <2> QED BY <1>1, <2>1, <2>2 DEF BeginActivate, TypeOK
<1>2. ASSUME NEW p \in Profile, ActivateRefused(p) PROVE SystemInvariant'
  BY <1>2 DEF ActivateRefused, RecordDefault, Record, TypeOK
<1>3. ASSUME NEW p \in Profile, BeginDeactivate(p) PROVE SystemInvariant'
  <2>1. job' \in Job /\ job'.op = "deactivate" /\ job'.phase = "entries"
    BY <1>3, BeginsAJob
  <2>2. happened' \in [Disturbance -> Nat]
    BY <1>3, SpendOK DEF BeginDeactivate, TypeOK, Counted, Disturbance
  <2> QED BY <1>3, <2>1, <2>2 DEF BeginDeactivate, TypeOK
<1>4. ASSUME NEW p \in Profile, BeginForcedDelete(p) PROVE SystemInvariant'
  <2>1. job' \in Job /\ job'.op = "delete" /\ job'.phase = "entries" /\ job'.profile = p
    BY <1>4, BeginsAJob
  <2> QED BY <1>4, <2>1 DEF BeginForcedDelete, TypeOK
<1>5. ASSUME NEW p \in Profile, Delete(p) PROVE SystemInvariant'
  BY <1>5 DEF Delete, TypeOK
<1>6. ASSUME NEW p \in Profile, Break(p) PROVE SystemInvariant'
  <2>1. happened' \in [Disturbance -> Nat]
    BY <1>6, SpendOK DEF Break, TypeOK, Counted, Disturbance
  <2> QED BY <1>6, <2>1 DEF Break, TypeOK
<1>7. ASSUME NEW p \in Profile, NEW v \in Version, Add(p, v) PROVE SystemInvariant'
  BY <1>7 DEF Add, TypeOK
<1>8. ASSUME NEW p \in Profile, NEW v \in Version, BeginEdit(p, v) PROVE SystemInvariant'
  <2>1. happened' \in [Disturbance -> Nat]
    BY <1>8, SpendOK DEF BeginEdit, TypeOK, Counted, Disturbance
  <2> QED BY <1>8, <2>1 DEF BeginEdit, TypeOK
<1>9. ASSUME BeginRevertAll PROVE SystemInvariant'
  <2>1. job' \in Job /\ job'.op = "revert" /\ job'.phase = "teardown"
    BY <1>9, BeginsAJob
  <2> QED BY <1>9, <2>1 DEF BeginRevertAll, TypeOK
<1>10. ASSUME WriteEdit PROVE SystemInvariant'
  <2>1. happened' \in [Disturbance -> Nat]
    BY <1>10, SpendOK DEF WriteEdit, TypeOK, Counted, Disturbance
  <2> QED BY <1>10, <2>1 DEF WriteEdit, TypeOK
<1> QED BY <1>1, <1>2, <1>3, <1>4, <1>5, <1>6, <1>7, <1>8, <1>9, <1>10

(* What the steps of a job make of it *)
Head0 == Head(job.todo)
Rest  == Tail(job.todo)

LEMMA UndoEntryIs ==
  ASSUME SystemInvariant, UndoEntry
  PROVE  /\ job \in Job /\ Head0 \in Entry
         /\ Stepped(job, job', job.phase, job.ok, Rest, job.done)
<1>1. job \in Job
  BY JobIsRunning DEF SystemInvariant, UndoEntry
<1>2. job.todo \in Seq(Entry) /\ job.done \in Seq(Entry) /\ job.ok \in BOOLEAN /\ job.phase \in Phase
  BY <1>1 DEF Job, Phase
<1>3. Head0 \in Entry /\ Rest \in Seq(Entry)
  BY <1>2, EntriesHaveParts DEF UndoEntry, Head0, Rest
<1>4. job' = [job EXCEPT !.todo = Rest]
  BY DEF UndoEntry, Popped, Rest
<1> QED BY <1>1, <1>2, <1>3, <1>4, StepsOfJobs

LEMMA TornDownIs ==
  ASSUME SystemInvariant, TornDown
  PROVE  /\ job \in Job
         /\ \/ /\ job.op = "activate" /\ job.ok
               /\ Stepped(job, job', "apply", job.ok, Layout[job.cfg], job.done)
            \/ /\ ~(job.op = "activate" /\ job.ok)
               /\ Stepped(job, job', "fallback", job.ok, job.todo, job.done)
<1>1. job \in Job
  BY JobIsRunning DEF SystemInvariant, TornDown
<1>2. job.todo \in Seq(Entry) /\ job.done \in Seq(Entry) /\ job.ok \in BOOLEAN /\ job.cfg \in Version
  BY <1>1 DEF Job
<1>3. Layout[job.cfg] \in Seq(Entry) /\ "apply" \in Phase /\ "fallback" \in Phase
  BY <1>2, LayoutsAreEntries DEF Phase
<1>4. CASE job.op = "activate" /\ job.ok
  <2>1. job' = [job EXCEPT !.phase = "apply", !.todo = Layout[job.cfg]]
    BY <1>4 DEF TornDown
  <2> QED BY <1>1, <1>2, <1>3, <1>4, <2>1, StepsOfJobs
<1>5. CASE ~(job.op = "activate" /\ job.ok)
  <2>1. job' = [job EXCEPT !.phase = "fallback"]
    BY <1>5 DEF TornDown
  <2> QED BY <1>1, <1>2, <1>3, <1>5, <2>1, StepsOfJobs
<1> QED BY <1>4, <1>5

LEMMA ApplyEntryIs ==
  ASSUME SystemInvariant, ApplyEntry
  PROVE  /\ job \in Job /\ Head0 \in Entry
         /\ \/ /\ UNCHANGED <<device, happened>>
               /\ job.profile = Default \/ ~Found(device, Head0) \/ InUse(device, Head0.radio)
               /\ \/ Stepped(job, job', "apply", job.ok, Rest, job.done)
                  \/ Stepped(job, job', "apply", job.ok, Rest, Append(job.done, Head0))
            \/ /\ Found(device, Head0) /\ ~InUse(device, Head0.radio)
               /\ \E o \in Prepare(device, Head0) :
                    /\ Becomes(o)
                    /\ \/ o.status = "prepared" /\ Stepped(job, job', "claim", job.ok, job.todo, job.done)
                       \/ o.status = "error" /\ Stepped(job, job', "apply", FALSE, Rest, job.done)
                       \/ o.status = "raised" /\ Stepped(job, job', "rollback", FALSE, job.done, job.done)
<1>1. job \in Job /\ job.phase = "apply"
  BY JobIsRunning DEF SystemInvariant, ApplyEntry
<1>2. job.todo \in Seq(Entry) /\ job.done \in Seq(Entry) /\ job.ok \in BOOLEAN
  BY <1>1 DEF Job
<1>3. Head0 \in Entry /\ Rest \in Seq(Entry) /\ Append(job.done, Head0) \in Seq(Entry)
  BY <1>2, EntriesHaveParts DEF ApplyEntry, Head0, Rest
<1>4. {"apply", "claim", "rollback"} \subseteq Phase
  BY DEF Phase
<1>5. /\ Stepped(job, [job EXCEPT !.todo = Rest], "apply", job.ok, Rest, job.done)
      /\ Stepped(job, [[job EXCEPT !.todo = Rest] EXCEPT !.done = Append(job.done, Head0)], "apply",
                 job.ok, Rest, Append(job.done, Head0))
      /\ Stepped(job, [job EXCEPT !.phase = "claim"], "claim", job.ok, job.todo, job.done)
      /\ Stepped(job, [[job EXCEPT !.todo = Rest] EXCEPT !.ok = FALSE], "apply", FALSE, Rest, job.done)
      /\ Stepped(job, [job EXCEPT !.ok = FALSE, !.phase = "rollback", !.todo = job.done], "rollback",
                 FALSE, job.done, job.done)
  BY <1>1, <1>2, <1>3, <1>4, StepsOfJobs
<1>6. /\ Popped = [job EXCEPT !.todo = Rest]
      /\ [Popped EXCEPT !.done = Append(@, Head0)]
           = [[job EXCEPT !.todo = Rest] EXCEPT !.done = Append(job.done, Head0)]
  BY <1>1 DEF Popped, Rest, Job
<1>7. Admission(device, Head0) = "in_use" =>
        /\ UNCHANGED <<device, happened>> /\ InUse(device, Head0.radio)
        /\ Stepped(job, job', "apply", job.ok, Rest, job.done)
  BY <1>5, <1>6 DEF ApplyEntry, Head0, Admission, Skipped
<1>8. Admission(device, Head0) = "provisioned" =>
        /\ UNCHANGED <<device, happened>> /\ ~Found(device, Head0)
        /\ \/ Stepped(job, job', "apply", job.ok, Rest, job.done)
           \/ Stepped(job, job', "apply", job.ok, Rest, Append(job.done, Head0))
  BY <1>5, <1>6 DEF ApplyEntry, Head0, Admission, Skipped
<1>9. CASE Admission(device, Head0) \notin {"in_use", "provisioned"}
  <2>1. Found(device, Head0) /\ ~InUse(device, Head0.radio)
    BY <1>9 DEF Admission
  <2>2. CASE job.profile = Default /\ ~CoreManaged(device, Head0)
    <3>1. job' = Popped /\ UNCHANGED <<device, happened>>
      BY <2>2, Zenon DEF ApplyEntry, Head0, Skipped
    <3> QED BY <1>1, <1>3, <1>5, <1>6, <2>2, <3>1
  <2>3. CASE ~(job.profile = Default /\ ~CoreManaged(device, Head0))
    <3>1. PICK o \in Prepare(device, Head0) :
            /\ Becomes(o)
            /\ job' = CASE o.status = "prepared" -> [job EXCEPT !.phase = "claim"]
                        [] o.status = "error"    -> [Popped EXCEPT !.ok = FALSE]
                        [] o.status = "raised"   ->
                             [job EXCEPT !.ok = FALSE, !.phase = "rollback", !.todo = job.done]
      BY <1>9, <2>3 DEF ApplyEntry, Head0, Skipped, Raised
    <3>2. o.status \in {"prepared", "error", "raised"}
      BY <2>1, <1>3, PrepareOK DEF Prepared, SystemInvariant, TypeOK
    <3>3. \/ o.status = "prepared" /\ Stepped(job, job', "claim", job.ok, job.todo, job.done)
          \/ o.status = "error" /\ Stepped(job, job', "apply", FALSE, Rest, job.done)
          \/ o.status = "raised" /\ Stepped(job, job', "rollback", FALSE, job.done, job.done)
      BY <1>5, <1>6, <3>1, <3>2
    <3> QED BY <1>1, <1>3, <2>1, <3>1, <3>3
  <2> QED BY <1>1, <1>3, <2>2, <2>3
<1> QED BY <1>1, <1>3, <1>7, <1>8, <1>9

LEMMA ClaimEntryIs ==
  ASSUME SystemInvariant, ClaimEntry
  PROVE  /\ job \in Job /\ Head0 \in Entry
         /\ \/ /\ device' = Claim(device, Head0) /\ UNCHANGED happened
               /\ Stepped(job, job', "setup", job.ok, job.todo, job.done)
            \/ /\ Spend("fault", 1) /\ UNCHANGED device
               /\ Stepped(job, job', "rollback", FALSE, job.done, job.done)
<1>1. job \in Job /\ job.phase = "claim"
  BY JobIsRunning DEF SystemInvariant, ClaimEntry
<1>2. job.todo \in Seq(Entry) /\ job.done \in Seq(Entry) /\ job.ok \in BOOLEAN
  BY <1>1 DEF Job
<1>3. Head0 \in Entry
  BY <1>1, <1>2, EntriesHaveParts DEF SystemInvariant, KeepsGuards, Head0
<1>4. /\ Stepped(job, [job EXCEPT !.phase = "setup"], "setup", job.ok, job.todo, job.done)
      /\ Stepped(job, [job EXCEPT !.ok = FALSE, !.phase = "rollback", !.todo = job.done], "rollback",
                 FALSE, job.done, job.done)
  BY <1>1, <1>2, StepsOfJobs DEF Phase
<1> QED BY <1>1, <1>3, <1>4 DEF ClaimEntry, Goto, Raised, Head0

LEMMA SetupEntryIs ==
  ASSUME SystemInvariant, SetupEntry
  PROVE  /\ job \in Job /\ Head0 \in Entry
         /\ \E o \in Setup(device, Head0) :
              /\ Becomes(o)
              /\ IF o.status = "raised"
                 THEN Stepped(job, job', "rollback", FALSE, job.done, job.done)
                 ELSE Stepped(job, job', "apply", job.ok, Rest, Append(job.done, Head0))
<1>1. job \in Job
  BY JobIsRunning DEF SystemInvariant, SetupEntry
<1>2. job.todo \in Seq(Entry) /\ job.done \in Seq(Entry) /\ job.ok \in BOOLEAN
  BY <1>1 DEF Job
<1>3. Head0 \in Entry /\ Rest \in Seq(Entry) /\ Append(job.done, Head0) \in Seq(Entry)
  BY <1>2, EntriesHaveParts DEF SystemInvariant, KeepsGuards, SetupEntry, Head0, Rest
<1>4. /\ Stepped(job, [job EXCEPT !.ok = FALSE, !.phase = "rollback", !.todo = job.done], "rollback",
                 FALSE, job.done, job.done)
      /\ Stepped(job, [[job EXCEPT !.todo = Rest] EXCEPT !.phase = "apply",
                                                         !.done = Append(job.done, Head0)],
                 "apply", job.ok, Rest, Append(job.done, Head0))
  BY <1>1, <1>2, <1>3, StepsOfJobs DEF Phase
<1>5. [Popped EXCEPT !.phase = "apply", !.done = Append(@, Head0)]
        = [[job EXCEPT !.todo = Rest] EXCEPT !.phase = "apply", !.done = Append(job.done, Head0)]
  BY <1>1 DEF Popped, Rest, Job
<1> QED BY <1>1, <1>3, <1>4, <1>5 DEF SetupEntry, Head0, Raised

LEMMA DeactivateEntryIs ==
  ASSUME SystemInvariant, DeactivateEntry
  PROVE  /\ job \in Job /\ Head0 \in Entry
         /\ \E o \in Deactivate(device, Head0) :
              /\ Becomes(o)
              /\ IF o.status = "raised" THEN Stepped(job, job', "record", FALSE, <<>>, job.done)
                 ELSE Stepped(job, job', "entries", job.ok, Rest, job.done)
<1>1. job \in Job /\ job.phase = "entries"
  BY JobIsRunning DEF SystemInvariant, DeactivateEntry
<1>2. job.todo \in Seq(Entry) /\ job.done \in Seq(Entry) /\ job.ok \in BOOLEAN /\ <<>> \in Seq(Entry)
  BY <1>1 DEF Job
<1>3. Head0 \in Entry /\ Rest \in Seq(Entry)
  BY <1>2, EntriesHaveParts DEF DeactivateEntry, Head0, Rest
<1>4. /\ Stepped(job, [job EXCEPT !.todo = Rest], "entries", job.ok, Rest, job.done)
      /\ Stepped(job, [job EXCEPT !.ok = FALSE, !.phase = "record", !.todo = <<>>], "record", FALSE,
                 <<>>, job.done)
  BY <1>1, <1>2, <1>3, StepsOfJobs DEF Phase
<1> QED BY <1>1, <1>3, <1>4 DEF DeactivateEntry, Popped, Aborted, Rest, Head0

LEMMA GotoIs ==
  ASSUME SystemInvariant, NEW phase \in Phase, job.phase # "none", Goto(phase)
  PROVE  job \in Job /\ Stepped(job, job', phase, job.ok, job.todo, job.done)
<1>1. job \in Job
  BY JobIsRunning DEF SystemInvariant
<1>2. job.todo \in Seq(Entry) /\ job.done \in Seq(Entry) /\ job.ok \in BOOLEAN
  BY <1>1 DEF Job
<1> QED BY <1>1, <1>2, StepsOfJobs DEF Goto

LEMMA AppliedIs ==
  ASSUME SystemInvariant, Applied
  PROVE  /\ job \in Job
         /\ IF job.ok THEN Stepped(job, job', "commit", job.ok, job.todo, job.done)
            ELSE Stepped(job, job', "rollback", job.ok, job.done, job.done)
<1>1. job \in Job
  BY JobIsRunning DEF SystemInvariant, Applied
<1>2. job.todo \in Seq(Entry) /\ job.done \in Seq(Entry) /\ job.ok \in BOOLEAN
  BY <1>1 DEF Job
<1>3. /\ Stepped(job, [job EXCEPT !.phase = "commit"], "commit", job.ok, job.todo, job.done)
      /\ Stepped(job, [job EXCEPT !.phase = "rollback", !.todo = job.done], "rollback", job.ok,
                 job.done, job.done)
  BY <1>1, <1>2, StepsOfJobs DEF Phase
<1> QED BY <1>1, <1>3 DEF Applied

LEMMA FaultsAreCounted ==
  ASSUME SystemInvariant, NEW n \in Nat, Spend("fault", n)
  PROVE  Counted("fault", n)
BY SpendOK DEF SystemInvariant, TypeOK, Disturbance

LEMMA JobStepsKeep ==
  ASSUME SystemInvariant, JobStep
  PROVE  SystemInvariant'
<1> USE FaultsAreCounted DEF SystemInvariant, KeepsGuards, Phase
<1>0. device \in Device
  BY DEF TypeOK
<1>1. CASE UndoEntry
  <2>1. /\ job \in Job /\ Head0 \in Entry /\ job.phase \in {"teardown", "rollback"}
        /\ Stepped(job, job', job.phase, job.ok, Rest, job.done)
    BY <1>1, UndoEntryIs DEF UndoEntry
  <2>2. PICK o \in Deactivate(device, Head0) : Becomes(o)
    BY <1>1 DEF UndoEntry, Head0
  <2>3. o.dev \in Device /\ o.cost \in Nat
    BY <1>0, <2>1, <2>2, DeactivateOK DEF Undone, Less
  <2> QED BY <1>1, <2>1, <2>2, <2>3 DEF UndoEntry, Becomes, Counted, KeepFiles, TypeOK, Stepped
<1>2. CASE TornDown
  <2>1. PICK o \in Return(device, device.core) :
             /\ device' = KillAllSupplicants(o.dev) \/ device' = o.dev
             /\ Spend("fault", o.cost)
    BY <1>2 DEF TornDown, ReturnNamespaces, CoreNamespaces
  <2>2. o.dev \in Device /\ o.cost \in Nat
    BY <1>0, DeviceParts, ReturnOK
  <2>3. device' \in Device
    BY <2>1, <2>2, KillOK
  <2>4. job \in Job /\ job' \in Job /\ job'.op = job.op /\ job'.profile = job.profile
        /\ job'.phase \in {"apply", "fallback"}
    BY <1>2, TornDownIs DEF Stepped
  <2> QED BY <1>2, <2>1, <2>2, <2>3, <2>4 DEF TornDown, Counted, KeepFiles, TypeOK
<1>3. CASE ApplyEntry
  <2>1. /\ job \in Job /\ Head0 \in Entry /\ job' \in Job /\ job'.op = job.op
        /\ job'.profile = job.profile /\ job'.phase \in {"apply", "claim", "rollback"}
        /\ job'.phase = "claim" => job'.todo = job.todo
    BY <1>3, ApplyEntryIs DEF Stepped
  <2>2. device' \in Device /\ happened' \in [Disturbance -> Nat]
    <3>1. CASE UNCHANGED <<device, happened>>
      BY <3>1 DEF TypeOK
    <3>2. CASE ~UNCHANGED <<device, happened>>
      <4>1. PICK o \in Prepare(device, Head0) : Becomes(o) /\ Found(device, Head0)
        BY <1>3, <3>2, ApplyEntryIs
      <4>2. o.dev \in Device /\ o.cost \in Nat
        BY <1>0, <2>1, <4>1, PrepareOK DEF Prepared
      <4> QED BY <4>1, <4>2 DEF Becomes, Counted
    <3> QED BY <3>1, <3>2
  <2> QED BY <1>3, <2>1, <2>2 DEF ApplyEntry, KeepFiles, TypeOK
<1>4. CASE ClaimEntry
  <2>1. Head0 \in Entry /\ job' \in Job /\ job'.op = job.op /\ job'.profile = job.profile
        /\ (job'.phase = "rollback" \/ (job'.phase = "setup" /\ job'.todo = job.todo))
    BY <1>4, ClaimEntryIs DEF Stepped
  <2>2. device' \in Device
    BY <1>0, <1>4, <2>1, ClaimEntryIs, ClaimOK
  <2>3. happened' \in [Disturbance -> Nat]
    BY <1>4, ClaimEntryIs DEF Counted, TypeOK
  <2> QED BY <1>4, <2>1, <2>2, <2>3 DEF ClaimEntry, KeepFiles, TypeOK
<1>5. CASE SetupEntry
  <2>1. PICK o \in Setup(device, Head0) : Becomes(o)
    BY <1>5, SetupEntryIs
  <2>2. Head0 \in Entry /\ job' \in Job /\ job'.op = job.op /\ job'.profile = job.profile
        /\ job'.phase \in {"apply", "rollback"}
    BY <1>5, SetupEntryIs DEF Stepped
  <2>3. o.dev \in Device /\ o.cost \in Nat
    BY <1>0, <2>1, <2>2, SetupOK
  <2> QED BY <1>5, <2>1, <2>2, <2>3 DEF SetupEntry, Becomes, Counted, KeepFiles, TypeOK
<1>6. CASE Applied
  <2>1. job' \in Job /\ job'.op = job.op /\ job'.profile = job.profile
        /\ job'.phase \in {"commit", "rollback"}
    BY <1>6, AppliedIs DEF Stepped
  <2> QED BY <1>6, <2>1 DEF Applied, KeepFiles, TypeOK
<1>7. CASE Commit
  <2>1. job \in Job
    BY <1>7, JobIsRunning DEF Commit
  <2> QED BY <1>7, <2>1, JobParts, NoJobParts DEF Commit, Record, Finish, KeepFiles, TypeOK
<1>8. CASE RolledBack
  <2>1. job.phase = "rollback"
    BY <1>8 DEF RolledBack
  <2>2. Stepped(job, job', "fallback", job.ok, job.todo, job.done)
    BY <1>8, <2>1, GotoIs DEF RolledBack
  <2> QED BY <1>8, <2>2 DEF RolledBack, KeepFiles, TypeOK, Stepped
<1>9. CASE FallBack
  BY <1>9, ProfileAssumption, NoJobParts
     DEF FallBack, RecordDefault, Record, Finish, KeepFiles, TypeOK
<1>10. CASE DeactivateEntry
  <2>1. /\ Head0 \in Entry /\ job' \in Job /\ job'.op = job.op /\ job'.profile = job.profile
        /\ job'.phase \in {"entries", "record"}
    BY <1>10, DeactivateEntryIs DEF Stepped
  <2>2. PICK o \in Deactivate(device, Head0) : Becomes(o)
    BY <1>10 DEF DeactivateEntry, Head0
  <2>3. o.dev \in Device /\ o.cost \in Nat
    BY <1>0, <2>1, <2>2, DeactivateOK DEF Undone, Less
  <2> QED BY <1>10, <2>1, <2>2, <2>3 DEF DeactivateEntry, Becomes, Counted, KeepFiles, TypeOK
<1>11. CASE DeactivatedDefault
  <2>1. job.phase \in {"record", "entries"}
    BY <1>11 DEF DeactivatedDefault
  <2>2. Stepped(job, job', "returned", job.ok, job.todo, job.done)
    BY <1>11, <2>1, GotoIs DEF DeactivatedDefault
  <2> QED BY <1>11, <2>2, ProfileAssumption
          DEF DeactivatedDefault, RecordDefault, Record, KeepFiles, TypeOK, Stepped
<1>12. CASE Deactivated
  <2>1. PICK o \in Return(device, device.core) : Becomes(o)
    BY <1>12 DEF Deactivated, ReturnNamespaces, CoreNamespaces
  <2>2. o.dev \in Device /\ o.cost \in Nat
    BY <1>0, DeviceParts, ReturnOK
  <2>3. job.phase = "returned"
    BY <1>12 DEF Deactivated
  <2>4. CASE job.op = "delete" /\ Goto("unlink") /\ UNCHANGED up
    <3>1. Stepped(job, job', "unlink", job.ok, job.todo, job.done)
      BY <2>3, <2>4, GotoIs
    <3> QED BY <1>12, <2>1, <2>2, <2>4, <3>1
            DEF Deactivated, Becomes, Counted, KeepFiles, TypeOK, Stepped
  <2>5. CASE Finish
    BY <1>12, <2>1, <2>2, <2>5, NoJobParts
       DEF Deactivated, Becomes, Counted, KeepFiles, TypeOK, Finish
  <2> QED BY <1>12, <2>4, <2>5 DEF Deactivated
<1>13. CASE Unlink
  <2>1. job.profile # Default
    BY <1>13 DEF Unlink
  <2>2. files'[Default] = files[Default] /\ files' \in [Profile -> Version \cup {Malformed, None}]
    BY <1>13, <2>1, ProfileAssumption DEF Unlink, TypeOK
  <2> QED BY <1>13, <2>2, NoJobParts DEF Unlink, Finish, TypeOK
<1> QED BY <1>1, <1>2, <1>3, <1>4, <1>5, <1>6, <1>7, <1>8, <1>9, <1>10, <1>11, <1>12, <1>13
        DEF JobStep

-------------------------------------------------------------------------------
(* Steps that are cut short.                                               *)

(* Another tool uses radio r in root, and r is not being set up *)
ForTool(r) ==
  /\ r \in device.busy /\ device.netdev[r].netns = Root
  /\ ~(job.phase \in {"claim", "setup"} /\ Head(job.todo).radio = r)

SparesTools(c) ==
  /\ c \in Device /\ c.busy = device.busy /\ (Housed(device) => Housed(c))
  /\ \A r \in Radio : ForTool(r) => c.netdev[r] = device.netdev[r]

LEMMA MidwayOK ==
  ASSUME SystemInvariant, NEW c \in Midway
  PROVE  SparesTools(c)
<1>0. device \in Device /\ Root \notin Netns
  BY NamesAssumption DEF SystemInvariant, TypeOK
<1>1. CASE job.phase \in {"teardown", "rollback", "entries"} /\ job.todo # <<>>
  <2>1. Head0 \in Entry
    BY <1>1, JobIsRunning, JobParts, EntriesHaveParts DEF SystemInvariant, Head0
  <2>2. c \in Deactivating(device, Head0)
    BY <1>1 DEF Midway, Head0
  <2>3. /\ CutShort(device, Head0, c)
        /\ HandsOver(device, Head0) => c.netdev[Head0.radio] = device.netdev[Head0.radio]
    BY <1>0, <2>1, <2>2, DeactivatingOK
  <2> QED BY <2>3 DEF CutShort, SparesTools, ForTool, HandsOver, InUse
<1>2. CASE ~(job.phase \in {"teardown", "rollback", "entries"} /\ job.todo # <<>>)
           /\ job.phase \in {"teardown", "returned"}
  <2>1. c \in Returning(device, device.core)
    BY <1>2 DEF Midway, CoreNamespaces
  <2>2. /\ c \in Device /\ c.busy = device.busy /\ (Housed(device) => Housed(c))
        /\ \A r \in Radio : c.netdev[r] = device.netdev[r] \/ device.netdev[r].netns \in device.core
    BY <1>0, <2>1, DeviceParts, ReturningOK
  <2> QED BY <1>0, <2>2, DeviceParts DEF SparesTools, ForTool
<1>3. CASE job.phase = "apply" /\ job.todo # <<>> /\ Admission(device, Head0) = "prepare"
           /\ c \in Preparing(device, Head0)
  <2>1. Head0 \in Entry
    BY <1>3, JobIsRunning, JobParts, EntriesHaveParts DEF SystemInvariant, Head0
  <2>2. Found(device, Head0) /\ ~InUse(device, Head0.radio)
    BY <1>3 DEF Admission
  <2>3. CutShort(device, Head0, c)
    BY <1>0, <1>3, <2>1, <2>2, PreparingOK
  <2> QED BY <2>2, <2>3 DEF CutShort, SparesTools, ForTool, InUse
<1>4. CASE job.phase = "setup" /\ c \in SettingUp(device, Head0)
  <2>1. Head0 \in Entry
    BY <1>4, JobIsRunning, JobParts, EntriesHaveParts DEF SystemInvariant, KeepsGuards, Head0
  <2>2. CutShort(device, Head0, c)
    BY <1>0, <1>4, <2>1, SettingUpOK
  <2> QED BY <1>4, <2>2 DEF CutShort, SparesTools, ForTool, Head0
<1>5. CASE c = device
  BY <1>0, <1>5 DEF SparesTools
<1> QED BY <1>1, <1>2, <1>3, <1>4, <1>5 DEF Midway, Head0

LEMMA LapseIs ==
  ASSUME SystemInvariant, Lapse
  PROVE  /\ SparesTools(device') /\ Counted("lapse", 1)
         /\ UNCHANGED <<files, current, applied, editing, touched>>
         /\ \/ job = NoJob /\ UNCHANGED <<job, up>>
            \/ /\ job \in Job
               /\ \/ /\ job.phase \in {"teardown", "rollback", "entries"} /\ job.todo # <<>>
                     /\ Stepped(job, job', job.phase, job.ok, Rest, job.done) /\ UNCHANGED up
                  \/ /\ job.phase = "entries" /\ job.todo # <<>>
                     /\ Stepped(job, job', "record", FALSE, <<>>, job.done) /\ UNCHANGED up
                  \/ /\ job.phase \in {"apply", "setup"} /\ job.todo # <<>>
                     /\ Stepped(job, job', "rollback", FALSE, job.done, job.done) /\ UNCHANGED up
                  \/ /\ job.phase = "apply" /\ job.todo # <<>> /\ Head0 \in Entry
                     /\ Stepped(job, job', "apply", job.ok, Rest, Append(job.done, Head0))
                     /\ UNCHANGED up
                  \/ /\ job.phase = "teardown" /\ job.op = "activate" /\ ~job.ok
                     /\ Stepped(job, job', "fallback", job.ok, job.todo, job.done) /\ UNCHANGED up
                  \/ /\ job.phase = "returned" /\ job.ok
                     /\ Stepped(job, job', "returned", FALSE, job.todo, job.done) /\ UNCHANGED up
                  \/ job.phase \in {"teardown", "returned"} /\ job' = NoJob /\ up' = TRUE
<1>0. device \in Device /\ happened \in [Disturbance -> Nat] /\ "lapse" \in Disturbance /\ 1 \in Nat
  BY DEF SystemInvariant, TypeOK, Disturbance
<1>1. Spend("lapse", 1) => Counted("lapse", 1)
  BY <1>0, SpendOK
<1>2. ASSUME job \in Job
      PROVE  /\ job.todo \in Seq(Entry) /\ job.done \in Seq(Entry) /\ job.ok \in BOOLEAN
             /\ job.todo # <<>> => Head0 \in Entry /\ Rest \in Seq(Entry)
                                   /\ Append(job.done, Head0) \in Seq(Entry)
             /\ job.phase \in Phase /\ <<>> \in Seq(Entry)
  BY <1>2, JobParts, EntriesHaveParts DEF Head0, Rest, Job, Phase
<1>3. CASE TimesOutAtEntry
  <2>1. job \in Job /\ job.phase \in Phase
    BY <1>3, JobIsRunning DEF TimesOutAtEntry, SystemInvariant, Phase
  <2>2. /\ job.todo # <<>> => Stepped(job, Popped, job.phase, job.ok, Rest, job.done)
        /\ Stepped(job, Aborted, "record", FALSE, <<>>, job.done)
        /\ Stepped(job, Raised, "rollback", FALSE, job.done, job.done)
    <3>1. /\ Popped = [job EXCEPT !.todo = Rest]
          /\ Aborted = [job EXCEPT !.ok = FALSE, !.phase = "record", !.todo = <<>>]
          /\ Raised = [job EXCEPT !.ok = FALSE, !.phase = "rollback", !.todo = job.done]
      BY DEF Popped, Aborted, Raised, Rest
    <3> QED BY <1>2, <2>1, <3>1, StepsOfJobs DEF Phase
  <2>3. SparesTools(device')
    BY <1>3, MidwayOK DEF TimesOutAtEntry
  <2>4. job.phase = "setup" => job.todo # <<>>
    BY DEF SystemInvariant, KeepsGuards
  <2>5. Spend("lapse", 1) /\ UNCHANGED <<files, current, applied, editing, touched, up>>
    BY <1>3 DEF TimesOutAtEntry, KeepFiles
  <2>6. \/ job.phase \in {"teardown", "rollback"} /\ job.todo # <<>> /\ job' = Popped
        \/ job.phase = "entries" /\ job.todo # <<>> /\ job' = Aborted
        \/ job.phase \in {"apply", "setup"} /\ job.todo # <<>> /\ job' = Raised
    BY <1>3, <2>4 DEF TimesOutAtEntry
  <2> QED BY <1>1, <2>1, <2>2, <2>3, <2>5, <2>6
<1>4. CASE TimesOutReturning
  <2>1. job \in Job
    BY <1>4, JobIsRunning DEF TimesOutReturning, SystemInvariant
  <2>2. SparesTools(device')
    BY <1>4, MidwayOK DEF TimesOutReturning
  <2>3. Spend("lapse", 1) /\ UNCHANGED <<files, current, applied, editing, touched>>
    BY <1>4 DEF TimesOutReturning, KeepFiles
  <2>4. /\ Stepped(job, [job EXCEPT !.phase = "fallback"], "fallback", job.ok, job.todo, job.done)
        /\ Stepped(job, [job EXCEPT !.ok = FALSE], job.phase, FALSE, job.todo, job.done)
    BY <1>2, <2>1, StepsOfJobs DEF Phase
  <2>5. \/ /\ job.phase = "teardown" /\ job.op = "activate" /\ ~job.ok /\ UNCHANGED up
           /\ job' = [job EXCEPT !.phase = "fallback"]
        \/ job.phase = "returned" /\ job.ok /\ job' = [job EXCEPT !.ok = FALSE] /\ UNCHANGED up
        \/ job.phase \in {"teardown", "returned"} /\ job' = NoJob /\ up' = TRUE
    BY <1>4 DEF TimesOutReturning, Goto, Finish
  <2> QED BY <1>1, <2>1, <2>2, <2>3, <2>4, <2>5
<1>5. CASE Overlooked
  <2>1. job \in Job /\ job.phase \in {"teardown", "rollback", "entries", "apply"} /\ job.todo # <<>>
    BY <1>5, JobIsRunning DEF Overlooked, SystemInvariant
  <2>2. Spend("lapse", 1) /\ UNCHANGED <<files, current, applied, editing, touched, up>>
    BY <1>5 DEF Overlooked, KeepFiles
  <2>3. device' = device \/ device' = RemoveNetwork(device, Head0)
    BY <1>5 DEF Overlooked, Head0
  <2>4. SparesTools(device')
    <3> DEFINE b == RemoveNetwork(device, Head0)
    <3>1. /\ b \in Device /\ b.netdev = device.netdev /\ b.core = device.core
          /\ b.plain = device.plain /\ b.busy = device.busy
      BY <1>0, RemoveNetworkOK
    <3> HIDE DEF b
    <3>2. SparesTools(device) /\ SparesTools(b)
      BY <1>0, <3>1 DEF SparesTools, Housed
    <3> QED BY <2>3, <3>2 DEF b
  <2>5. /\ Popped = [job EXCEPT !.todo = Rest]
        /\ [Popped EXCEPT !.done = Append(@, Head0)]
             = [[job EXCEPT !.todo = Rest] EXCEPT !.done = Append(job.done, Head0)]
    BY <2>1 DEF Popped, Rest, Job
  <2>6. /\ Stepped(job, [job EXCEPT !.todo = Rest], job.phase, job.ok, Rest, job.done)
        /\ Stepped(job, [[job EXCEPT !.todo = Rest] EXCEPT !.done = Append(job.done, Head0)],
                   job.phase, job.ok, Rest, Append(job.done, Head0))
    BY <1>2, <2>1, StepsOfJobs DEF Phase
  <2>7. IF job.phase = "apply" THEN job' = [Popped EXCEPT !.done = Append(@, Head0)]
        ELSE job' = Popped
    BY <1>5 DEF Overlooked, Head0
  <2> QED BY <1>1, <1>2, <2>1, <2>2, <2>4, <2>5, <2>6, <2>7
<1>6. ASSUME NEW n \in Netns, ResetTimesOut(n)
      PROVE  /\ SparesTools(device') /\ Counted("lapse", 1) /\ job = NoJob
             /\ UNCHANGED <<files, current, applied, editing, touched, job, up>>
  <2>1. /\ device' \in Device /\ device'.busy = device.busy /\ (Housed(device) => Housed(device'))
        /\ \A r \in Radio : device'.netdev[r] = device.netdev[r] \/ device.netdev[r].netns \in {n}
    BY <1>0, <1>6, ReturningOK DEF ResetTimesOut
  <2>2. SparesTools(device')
    BY <2>1, NamesAssumption DEF SparesTools, ForTool
  <2> QED BY <1>1, <1>6, <2>2 DEF ResetTimesOut, Resettable
<1> QED BY <1>3, <1>4, <1>5, <1>6 DEF Lapse

LEMMA LapsesKeep == SystemInvariant /\ Lapse => SystemInvariant'
<1> SUFFICES ASSUME SystemInvariant, Lapse PROVE SystemInvariant'
  OBVIOUS
<1>1. device' \in Device /\ happened' \in [Disturbance -> Nat]
  BY LapseIs DEF SparesTools, Counted
<1>2. UNCHANGED <<files, current, applied, editing, touched>> /\ up' \in BOOLEAN
  BY LapseIs DEF SystemInvariant, TypeOK
<1>3. \/ job' \in {job, NoJob}
      \/ /\ job' \in Job /\ job'.op = job.op /\ job'.profile = job.profile
         /\ job'.phase \in {"teardown", "rollback", "entries", "record", "apply", "fallback",
                            "returned"}
  BY LapseIs DEF Stepped
<1> QED BY <1>1, <1>2, <1>3, NoJobParts DEF SystemInvariant, TypeOK, KeepsGuards

(* Where a restart leaves the radios *)
LEMMA CrashIs ==
  ASSUME SystemInvariant, Crash
  PROVE  SparesTools(device') /\ Counted("crash", 1)
<1>0. device \in Device /\ happened \in [Disturbance -> Nat] /\ "crash" \in Disturbance /\ 1 \in Nat
  BY DEF SystemInvariant, TypeOK, Disturbance
<1>1. PICK c : /\ device' \in {c, KillAllSupplicants(c)}
               /\ c \in Midway \/ \E n \in Netns : c \in Returning(device, {n})
  BY DEF Crash
<1>2. SparesTools(c)
  <2>1. CASE c \in Midway
    BY <2>1, MidwayOK
  <2>2. ASSUME NEW n \in Netns, c \in Returning(device, {n})
        PROVE  SparesTools(c)
    <3>1. /\ c \in Device /\ c.busy = device.busy /\ (Housed(device) => Housed(c))
          /\ \A r \in Radio : c.netdev[r] = device.netdev[r] \/ device.netdev[r].netns \in {n}
      BY <1>0, <2>2, ReturningOK
    <3> QED BY <3>1, NamesAssumption DEF SparesTools, ForTool
  <2> QED BY <1>1, <2>1, <2>2
<1>3. SparesTools(device')
  <2>1. /\ device' \in Device /\ device'.netdev = c.netdev /\ device'.core = c.core
        /\ device'.plain = c.plain /\ device'.busy = c.busy
    BY <1>1, <1>2, KillOK DEF SparesTools
  <2> QED BY <1>2, <2>1 DEF SparesTools, Housed
<1> QED BY <1>0, <1>3, SpendOK DEF Crash

LEMMA OutsideKeeps ==
  ASSUME SystemInvariant
  PROVE  /\ \A n \in Netns : Reset(n) => SystemInvariant'
         /\ Crash \/ Reboot => SystemInvariant'
         /\ \A r \in Radio : Unplug(r) \/ Plug(r) \/ ToolTakes(r) \/ ToolLeaves(r) => SystemInvariant'
<1> USE DEF SystemInvariant, KeepsGuards
<1>0. /\ device \in Device /\ device.owned \subseteq Radio /\ device.busy \subseteq Radio
      /\ happened \in [Disturbance -> Nat]
      /\ {"fault", "crash", "plug", "tool"} \subseteq Disturbance /\ 1 \in Nat
  BY DeviceParts DEF TypeOK, Disturbance
<1>1. ASSUME NEW n \in Netns, Reset(n) PROVE SystemInvariant'
  <2>1. PICK o \in Return(device, {n}) : device' = o.dev /\ Spend("fault", o.cost)
    BY <1>1 DEF Reset, ResetNamespace
  <2>2. o.dev \in Device /\ o.cost \in Nat
    BY <1>0, ReturnOK
  <2>3. Counted("fault", o.cost)
    BY <1>0, <2>1, <2>2, SpendOK
  <2> QED BY <1>1, <2>1, <2>2, <2>3 DEF Reset, Resettable, Counted, TypeOK
<1>2. ASSUME Crash PROVE SystemInvariant'
  <2>1. Counted("crash", 1)
    BY <1>2, CrashIs
  <2>2. device' \in Device
    BY <1>2, CrashIs DEF SparesTools
  <2> QED BY <1>2, <2>1, <2>2, NoJobParts DEF Crash, Counted, TypeOK
<1>3. ASSUME Reboot PROVE SystemInvariant'
  <2>1. Counted("crash", 1)
    BY <1>0, <1>3, SpendOK DEF Reboot
  <2> QED BY <1>3, <2>1, AtBootOK, NoJobParts DEF Reboot, Counted, TypeOK
<1>4. ASSUME NEW r \in Radio, Unplug(r) PROVE SystemInvariant'
  <2>1. Counted("plug", 1)
    BY <1>0, <1>4, SpendOK DEF Unplug
  <2>2. device' \in Device
    <3> DEFINE O == device.owned \ {r}
               B == device.busy \ {r}
    <3>1. O \in SUBSET Radio /\ B \in SUBSET Radio
      BY <1>0
    <3>2. device' = [device EXCEPT !.netdev[r] = Unplugged, !.owned = O, !.busy = B]
      BY <1>4 DEF Unplug
    <3> HIDE DEF O, B
    <3> QED BY <1>0, <3>1, <3>2, OutsideOK
  <2> QED BY <1>4, <2>1, <2>2 DEF Unplug, Counted, TypeOK
<1>5. ASSUME NEW r \in Radio, Plug(r) PROVE SystemInvariant'
  <2>1. device' \in Device
    BY <1>0, <1>5, AtBootOK, OutsideOK DEF Plug
  <2> QED BY <1>5, <2>1 DEF Plug, TypeOK
<1>6. ASSUME NEW r \in Radio, ToolTakes(r) PROVE SystemInvariant'
  <2>1. Counted("tool", 1)
    BY <1>0, <1>6, SpendOK DEF ToolTakes
  <2>2. device' \in Device
    <3> DEFINE B == device.busy \cup {r}
    <3>1. B \in SUBSET Radio /\ device' = [device EXCEPT !.busy = B]
      BY <1>0, <1>6 DEF ToolTakes
    <3> HIDE DEF B
    <3> QED BY <1>0, <3>1, OutsideOK
  <2> QED BY <1>6, <2>1, <2>2 DEF ToolTakes, Counted, TypeOK
<1>7. ASSUME NEW r \in Radio, ToolLeaves(r) PROVE SystemInvariant'
  <2>1. device' \in Device
    <3> DEFINE B == device.busy \ {r}
    <3>1. B \in SUBSET Radio /\ device' = [device EXCEPT !.busy = B]
      BY <1>0, <1>7 DEF ToolLeaves
    <3> HIDE DEF B
    <3> QED BY <1>0, <3>1, OutsideOK
  <2> QED BY <1>7, <2>1 DEF ToolLeaves, TypeOK
<1> QED BY <1>1, <1>2, <1>3, <1>4, <1>5, <1>6, <1>7

LEMMA BootKeeps ==
  ASSUME SystemInvariant, Boot
  PROVE  Active \in Profile /\ BeginActivate(Active, TRUE) /\ up' \in BOOLEAN
BY ActiveOK DEF Boot, SystemInvariant, TypeOK

LEMMA SystemStarts == Init => SystemInvariant
<1> SUFFICES ASSUME Init PROVE SystemInvariant
  OBVIOUS
<1>1. device \in Device /\ touched \subseteq Radio
  BY AtBootOK DEF Init
<1>2. /\ files \in [Profile -> Version \cup {Malformed, None}] /\ files[Default] \in Version
      /\ current \in Profile /\ applied \in Version
  BY ProfileAssumption DEF Init
<1>3. happened \in [Disturbance -> Nat] /\ up \in BOOLEAN
  BY DEF Init
<1>4. job = NoJob /\ editing = NoEdit
  BY DEF Init
<1> QED BY <1>1, <1>2, <1>3, <1>4, NoJobParts DEF SystemInvariant, TypeOK, KeepsGuards

LEMMA SystemKeeps == SystemInvariant /\ [Next]_vars => SystemInvariant'
<1> SUFFICES ASSUME SystemInvariant, [Next]_vars PROVE SystemInvariant'
  OBVIOUS
<1>1. ASSUME NEW p \in Profile, NEW override \in BOOLEAN, Activate(p, override)
      PROVE  SystemInvariant'
  <2>1. up' \in BOOLEAN
    BY <1>1 DEF Activate, SystemInvariant, TypeOK
  <2> QED BY <1>1, <2>1, StartsKeep DEF Activate
<1>2. CASE Boot
  BY <1>2, BootKeeps, StartsKeep
<1>3. CASE UNCHANGED vars
  BY <1>3 DEF vars, SystemInvariant, TypeOK, KeepsGuards
<1> QED BY <1>1, <1>2, <1>3, StartsKeep, JobStepsKeep, LapsesKeep, OutsideKeeps DEF Next

(* The device, the files, the job and the histories of a network              *)
(* configuration are always what their types say, default.json can always be  *)
(* read, no edit, deletion or unlinking ever concerns it, and a job that      *)
(* claims or sets up a radio has an entry to do it for.                        *)
THEOREM ProfilesAreKnown == Spec => []SystemInvariant
<1>1. Init => SystemInvariant
  BY SystemStarts
<1>2. SystemInvariant /\ [Next]_vars => SystemInvariant'
  BY SystemKeeps
<1> QED BY <1>1, <1>2, PTL DEF Spec

-------------------------------------------------------------------------------
(* What a step of a job may do to the netdev of a radio.                    *)

NetdevStep(r) ==
  \/ device'.netdev[r] = device.netdev[r]
  \/ /\ ~ForTool(r)
     /\ \/ happened'["fault"] >= 2
        \/ device'.netdev[r].name # None
        \/ device.netdev[r] # Unplugged /\ device'.netdev[r].name = device.netdev[r].name

LEMMA FaultsGrow ==
  ASSUME SystemInvariant, NEW n \in Nat, Spend("fault", n)
  PROVE  /\ happened'["fault"] = happened["fault"] + n
         /\ happened["fault"] \in Nat /\ happened'["fault"] >= n
BY FaultsAreCounted DEF Counted, SystemInvariant, TypeOK, Disturbance

LEMMA NetdevsWhenReturning ==
  ASSUME SystemInvariant, NEW S \in SUBSET Netns, NEW o \in Return(device, S),
         device' = o.dev \/ device' = KillAllSupplicants(o.dev), NEW r \in Radio
  PROVE  NetdevStep(r)
<1>1. device \in Device
  BY DEF SystemInvariant, TypeOK
<1>2. /\ o.dev \in Device
      /\ \/ o.dev.netdev[r] = device.netdev[r]
         \/ /\ device.netdev[r] \in Netdev /\ device.netdev[r].netns \in S
            /\ o.dev.netdev[r] = [netns |-> Root, name |-> device.netdev[r].name]
  BY <1>1, ReturnOK
<1>3. device'.netdev = o.dev.netdev
  BY <1>2, KillOK
<1>4. device.netdev[r] \in Netdev => device.netdev[r] # Unplugged
  BY NamesAssumption DEF Netdev, Unplugged, Place
<1>5. Root \notin S
  BY NamesAssumption
<1> QED BY <1>2, <1>3, <1>4, <1>5 DEF NetdevStep, ForTool

LEMMA NetdevsWhenUndoing ==
  ASSUME SystemInvariant, NEW e \in Entry, NEW o \in Deactivate(device, e), Becomes(o),
         NEW r \in Radio
  PROVE  NetdevStep(r)
<1>1. device \in Device
  BY DEF SystemInvariant, TypeOK
<1>2. Undone(device, e, o)
      /\ (o.dev.netdev[e.radio] # device.netdev[e.radio] => ~HandsOver(device, e))
  BY <1>1, DeactivateOK
<1>3. device'.netdev = o.dev.netdev /\ o.cost \in Nat
  BY <1>2 DEF Becomes, Undone
<1>4. happened'["fault"] >= o.cost /\ happened'["fault"] \in Nat
  BY <1>3, FaultsGrow DEF Becomes
<1>5. CASE r # e.radio
  BY <1>2, <1>3, <1>5 DEF Undone, Less, NetdevStep
<1>6. CASE r = e.radio /\ o.dev.netdev[r] # device.netdev[r]
  <2>1. ~ForTool(r)
    BY <1>2, <1>6 DEF ForTool, HandsOver, InUse
  <2> QED BY <1>2, <1>3, <1>4, <1>6, <2>1 DEF Undone, NetdevStep
<1>7. CASE o.dev.netdev[r] = device.netdev[r]
  BY <1>3, <1>7 DEF NetdevStep
<1> QED BY <1>5, <1>6, <1>7

LEMMA NetdevsInJobs ==
  ASSUME SystemInvariant, JobStep, NEW r \in Radio
  PROVE  NetdevStep(r)
<1>0. device \in Device /\ device.core \in SUBSET Netns
  BY DeviceParts DEF SystemInvariant, TypeOK
<1>1. CASE UndoEntry \/ DeactivateEntry
  <2>1. Head0 \in Entry
    BY <1>1, UndoEntryIs, DeactivateEntryIs
  <2>2. \E o \in Deactivate(device, Head0) : Becomes(o)
    BY <1>1 DEF UndoEntry, DeactivateEntry, Head0
  <2> QED BY <2>1, <2>2, NetdevsWhenUndoing
<1>2. CASE TornDown \/ Deactivated
  <2>1. \E o \in Return(device, device.core) : device' = o.dev \/ device' = KillAllSupplicants(o.dev)
    BY <1>2 DEF TornDown, Deactivated, Becomes, ReturnNamespaces, CoreNamespaces
  <2> QED BY <1>0, <2>1, NetdevsWhenReturning
<1>3. CASE ApplyEntry
  <2>1. CASE UNCHANGED <<device, happened>>
    BY <2>1 DEF NetdevStep
  <2>2. CASE ~UNCHANGED <<device, happened>>
    <3>1. /\ Head0 \in Entry /\ Found(device, Head0) /\ ~InUse(device, Head0.radio)
          /\ \E o \in Prepare(device, Head0) : Becomes(o)
      BY <1>3, <2>2, ApplyEntryIs
    <3>2. PICK o \in Prepare(device, Head0) : Becomes(o)
      BY <3>1
    <3>3. Prepared(device, Head0, o)
      BY <1>0, <3>1, PrepareOK
    <3>4. device'.netdev = o.dev.netdev /\ o.cost \in Nat
      BY <3>2, <3>3 DEF Becomes, Prepared
    <3>5. happened'["fault"] >= o.cost /\ happened'["fault"] \in Nat
      BY <3>2, <3>4, FaultsGrow DEF Becomes
    <3> QED BY <3>1, <3>3, <3>4, <3>5 DEF Prepared, NetdevStep, ForTool, InUse
  <2> QED BY <2>1, <2>2
<1>4. CASE ClaimEntry
  <2>1. Head0 \in Entry /\ (device' = device \/ device' = Claim(device, Head0))
    BY <1>4, ClaimEntryIs
  <2> DEFINE c == Claim(device, Head0)
  <2>2. c.netdev = device.netdev
    BY <1>0, <2>1, ClaimOK
  <2>3. device' = device \/ device' = c
    BY <2>1
  <2> HIDE DEF c
  <2>4. device'.netdev = device.netdev
    BY <2>2, <2>3
  <2> QED BY <2>4 DEF NetdevStep
<1>5. CASE SetupEntry
  <2>1. PICK o \in Setup(device, Head0) : Becomes(o)
    BY <1>5, SetupEntryIs
  <2>2. Head0 \in Entry /\ job.phase = "setup"
    BY <1>5, SetupEntryIs DEF SetupEntry
  <2>3. /\ device'.netdev = o.dev.netdev /\ o.cost \in Nat
        /\ \A q \in Radio \ {Head0.radio} : o.dev.netdev[q] = device.netdev[q]
        /\ \/ o.dev.netdev[Head0.radio] = device.netdev[Head0.radio]
           \/ o.dev.netdev[Head0.radio].name # None \/ o.cost >= 2
    BY <1>0, <2>1, <2>2, SetupOK, ZenonT(60) DEF Becomes
  <2>4. happened'["fault"] >= o.cost /\ happened'["fault"] \in Nat
    BY <2>1, <2>3, FaultsGrow DEF Becomes
  <2> QED BY <2>2, <2>3, <2>4 DEF NetdevStep, ForTool, Head0
<1>6. CASE UNCHANGED device
  BY <1>6 DEF NetdevStep
<1> QED BY <1>1, <1>2, <1>3, <1>4, <1>5, <1>6
        DEF JobStep, Applied, Commit, RolledBack, FallBack, DeactivatedDefault, Unlink

(* A request or an edit does nothing to the device *)
LEMMA RequestsTouchNothing ==
  ASSUME NEW p \in Profile,
         \/ \E override \in BOOLEAN : BeginActivate(p, override)
         \/ ActivateRefused(p) \/ BeginDeactivate(p) \/ BeginForcedDelete(p) \/ Delete(p) \/ Break(p)
         \/ \E v \in Version : Add(p, v) \/ BeginEdit(p, v)
         \/ BeginRevertAll \/ WriteEdit
  PROVE  UNCHANGED device
BY DEF BeginActivate, ActivateRefused, BeginDeactivate, BeginForcedDelete, Delete, Break, Add, BeginEdit,
       BeginRevertAll, WriteEdit

-------------------------------------------------------------------------------
(* No step forgets a disturbance.                                          *)

LEMMA CostsAreNumbers ==
  ASSUME SystemInvariant
  PROVE  /\ \A e \in Entry : \A o \in Deactivate(device, e) : o.cost \in Nat
         /\ \A S \in SUBSET Netns : \A o \in Return(device, S) : o.cost \in Nat
         /\ \A e \in Entry : \A o \in Setup(device, e) : o.cost \in Nat
         /\ \A e \in Entry : Found(device, e) => \A o \in Prepare(device, e) : o.cost \in Nat
<1>0. device \in Device
  BY DEF SystemInvariant, TypeOK
<1>1. \A e \in Entry : \A o \in Deactivate(device, e) : o.cost \in Nat
  BY <1>0, DeactivateOK DEF Undone
<1>2. \A S \in SUBSET Netns : \A o \in Return(device, S) : o.cost \in Nat
  BY <1>0, ReturnOK
<1>3. \A e \in Entry : \A o \in Setup(device, e) : o.cost \in Nat
  BY <1>0, SetupOK
<1>4. \A e \in Entry : Found(device, e) => \A o \in Prepare(device, e) : o.cost \in Nat
  BY <1>0, PrepareOK DEF Prepared
<1> QED BY <1>1, <1>2, <1>3, <1>4

JobSpends ==
  UNCHANGED happened \/ \E n \in Nat : Spend("fault", n)

LEMMA JobsSpend ==
  ASSUME SystemInvariant, JobStep
  PROVE  JobSpends
<1> USE DEF JobSpends, Becomes
<1>0. device.core \in SUBSET Netns
  BY DeviceParts DEF SystemInvariant, TypeOK
<1>1. CASE UndoEntry \/ DeactivateEntry
  <2>1. Head0 \in Entry
    BY <1>1, UndoEntryIs, DeactivateEntryIs
  <2>2. \E o \in Deactivate(device, Head0) : Spend("fault", o.cost)
    BY <1>1 DEF UndoEntry, DeactivateEntry, Head0
  <2> QED BY <2>1, <2>2, CostsAreNumbers
<1>2. CASE TornDown \/ Deactivated
  <2>1. \E o \in Return(device, device.core) : Spend("fault", o.cost)
    BY <1>2 DEF TornDown, Deactivated, ReturnNamespaces, CoreNamespaces
  <2> QED BY <1>0, <2>1, CostsAreNumbers
<1>3. CASE ApplyEntry
  <2>1. \/ UNCHANGED happened
        \/ Head0 \in Entry /\ Found(device, Head0) /\ \E o \in Prepare(device, Head0) : Spend("fault", o.cost)
    BY <1>3, ApplyEntryIs
  <2> QED BY <2>1, CostsAreNumbers
<1>4. CASE SetupEntry
  <2>1. Head0 \in Entry /\ \E o \in Setup(device, Head0) : Spend("fault", o.cost)
    BY <1>4, SetupEntryIs
  <2> QED BY <2>1, CostsAreNumbers
<1>5. CASE ClaimEntry
  BY <1>5, ClaimEntryIs
<1>6. CASE UNCHANGED happened
  BY <1>6
<1> QED BY <1>1, <1>2, <1>3, <1>4, <1>5, <1>6
        DEF JobStep, Applied, Commit, RolledBack, FallBack, DeactivatedDefault, Unlink

SomethingSpends == UNCHANGED happened \/ \E kind \in Disturbance, n \in Nat : Spend(kind, n)

LEMMA EveryStepSpends ==
  ASSUME SystemInvariant, [Next]_vars
  PROVE  SomethingSpends
<1>1. \A kind \in Disturbance : Spend(kind, 1) => SomethingSpends
  BY DEF SomethingSpends
<1>2. \A n \in Nat : Spend("fault", n) => SomethingSpends
  BY DEF SomethingSpends, Disturbance
<1>3. {"lapse", "crash", "plug", "tool", "edit", "break", "stray"} \subseteq Disturbance
  BY DEF Disturbance
<1>4. UNCHANGED happened => SomethingSpends
  BY DEF SomethingSpends
<1>5. ASSUME JobStep PROVE SomethingSpends
  <2>1. UNCHANGED happened \/ \E n \in Nat : Spend("fault", n)
    BY <1>5, JobsSpend DEF JobSpends
  <2> QED BY <1>2, <1>4, <2>1
<1>6. ASSUME NEW n \in Netns, Reset(n) PROVE SomethingSpends
  <2>1. \E o \in Return(device, {n}) : Spend("fault", o.cost)
    BY <1>6 DEF Reset, ResetNamespace
  <2> QED BY <1>2, <2>1, CostsAreNumbers
<1>7. ASSUME Lapse \/ Crash \/ Reboot PROVE SomethingSpends
  <2>1. Spend("crash", 1) \/ Spend("lapse", 1)
    BY <1>7 DEF Crash, Reboot, Lapse, TimesOutAtEntry, TimesOutReturning, Overlooked, ResetTimesOut
  <2> QED BY <1>1, <1>3, <2>1
<1>8. ASSUME NEW r \in Radio, Unplug(r) \/ Plug(r) \/ ToolTakes(r) \/ ToolLeaves(r)
      PROVE  SomethingSpends
  <2>1. UNCHANGED happened \/ Spend("plug", 1) \/ Spend("tool", 1)
    BY <1>8 DEF Unplug, Plug, ToolTakes, ToolLeaves
  <2> QED BY <1>1, <1>3, <1>4, <2>1
<1>9. ASSUME NEW p \in Profile,
             \/ \E override \in BOOLEAN : Activate(p, override)
             \/ ActivateRefused(p) \/ BeginDeactivate(p) \/ BeginForcedDelete(p) \/ Delete(p) \/ Break(p)
             \/ \E v \in Version : Add(p, v) \/ BeginEdit(p, v)
      PROVE  SomethingSpends
  <2>1. UNCHANGED happened \/ Spend("stray", 1) \/ Spend("break", 1) \/ Spend("edit", 1)
    BY <1>9 DEF Activate, BeginActivate, ActivateRefused, BeginDeactivate, BeginForcedDelete,
                Delete, Break, Add, BeginEdit
  <2> QED BY <1>1, <1>3, <1>4, <2>1
<1>10. ASSUME BeginRevertAll \/ WriteEdit \/ Boot PROVE SomethingSpends
  BY <1>1, <1>3, <1>4, <1>10 DEF BeginRevertAll, WriteEdit, Boot, BeginActivate
<1>11. ASSUME UNCHANGED vars PROVE SomethingSpends
  BY <1>4, <1>11 DEF vars
<1> QED BY <1>5, <1>6, <1>7, <1>8, <1>9, <1>10, <1>11 DEF Next

LEMMA HistoryGrows ==
  ASSUME SystemInvariant, [Next]_vars, NEW k \in Disturbance
  PROVE  happened[k] \in Nat /\ happened'[k] \in Nat /\ happened'[k] >= happened[k]
<1>0. happened \in [Disturbance -> Nat] /\ happened' \in [Disturbance -> Nat]
  <2>1. SystemInvariant'
    BY SystemKeeps
  <2> QED BY <2>1 DEF SystemInvariant, TypeOK
<1>1. UNCHANGED happened \/ \E kind \in Disturbance, n \in Nat : Spend(kind, n)
  BY EveryStepSpends DEF SomethingSpends
<1>2. ASSUME NEW kind \in Disturbance, NEW n \in Nat, Spend(kind, n)
      PROVE  happened'[k] >= happened[k]
  BY <1>0, <1>2, SpendOK DEF Counted
<1> QED BY <1>0, <1>1, <1>2

(* Without a timeout or a restart no step has been cut short *)
LEMMA NothingIsCut ==
  ASSUME SystemInvariant, [Next]_vars
  PROVE  /\ happened'["lapse"] = 0 => happened["lapse"] = 0 /\ ~Lapse
         /\ happened'["crash"] = 0 => happened["crash"] = 0 /\ ~Crash /\ ~Reboot
<1>1. \A k \in Disturbance :
        happened[k] \in Nat /\ happened'[k] \in Nat /\ happened'[k] >= happened[k]
  BY HistoryGrows
<1>2. "lapse" \in Disturbance /\ "crash" \in Disturbance
  BY DEF Disturbance
<1>3. Lapse => Counted("lapse", 1)
  BY LapseIs
<1>4. Crash \/ Reboot => Counted("crash", 1)
  BY <1>2, SpendOK DEF Crash, Reboot, SystemInvariant, TypeOK
<1> QED BY <1>1, <1>2, <1>3, <1>4 DEF Counted

(* The hot plug of a radio is of that radio alone *)
LEMMA OutsideTouches ==
  ASSUME SystemInvariant, NEW q \in Radio, Unplug(q) \/ Plug(q) \/ ToolTakes(q) \/ ToolLeaves(q),
         NEW r \in Radio
  PROVE  /\ device'.core = device.core /\ device'.plain = device.plain
         /\ device'.supplicants = device.supplicants
         /\ device'.owned = IF Unplug(q) THEN device.owned \ {q} ELSE device.owned
         /\ \/ device'.netdev[r] = device.netdev[r]
            \/ Unplug(q) /\ r = q /\ device'.netdev[r] = Unplugged
            \/ Plug(q) /\ r = q /\ device.netdev[r] = Unplugged /\ device'.netdev[r] = Home(r)
<1>1. device \in Device /\ device.netdev \in [Radio -> Netdev \cup {Unplugged}]
      /\ device.owned \in SUBSET Radio /\ device.busy \in SUBSET Radio
  BY DeviceParts DEF SystemInvariant, TypeOK
<1>2. ASSUME Unplug(q)
      PROVE  /\ device'.netdev = [device.netdev EXCEPT ![q] = Unplugged]
             /\ device'.core = device.core /\ device'.plain = device.plain
             /\ device'.supplicants = device.supplicants /\ device'.owned = device.owned \ {q}
             /\ device.netdev[q] # Unplugged
  <2> DEFINE O == device.owned \ {q}
             B == device.busy \ {q}
  <2>1. O \in SUBSET Radio /\ B \in SUBSET Radio
    BY <1>1
  <2>2. device' = [device EXCEPT !.netdev[q] = Unplugged, !.owned = O, !.busy = B]
    BY <1>2 DEF Unplug
  <2> HIDE DEF O, B
  <2>3. device'.netdev = [device.netdev EXCEPT ![q] = Unplugged]
        /\ device'.core = device.core /\ device'.plain = device.plain
        /\ device'.supplicants = device.supplicants /\ device'.owned = O
    BY <1>1, <2>2 DEF Device
  <2> QED BY <1>2, <2>3 DEF O, Unplug
<1>3. CASE Plug(q)
  <2>1. device'.netdev = [device.netdev EXCEPT ![q] = Home(q)]
        /\ device'.core = device.core /\ device'.plain = device.plain
        /\ device'.supplicants = device.supplicants /\ device'.owned = device.owned
    BY <1>1, <1>3 DEF Plug, Device
  <2>2. device.netdev[q] = Unplugged /\ ~Unplug(q)
    BY <1>3 DEF Plug, Unplug
  <2> QED BY <1>1, <1>3, <2>1, <2>2
<1>4. CASE ToolTakes(q) \/ ToolLeaves(q)
  <2>1. PICK B \in SUBSET Radio : device' = [device EXCEPT !.busy = B]
    BY <1>1, <1>4 DEF ToolTakes, ToolLeaves
  <2>2. device'.netdev = device.netdev
        /\ device'.core = device.core /\ device'.plain = device.plain
        /\ device'.supplicants = device.supplicants /\ device'.owned = device.owned
    BY <1>1, <2>1 DEF Device
  <2>3. ~Unplug(q)
    BY <1>1, <1>2, <2>2
  <2> QED BY <2>2, <2>3
<1> QED BY <1>1, <1>2, <1>3, <1>4

-------------------------------------------------------------------------------
(* No radio is lost.                                                       *)

LEMMA RadiosAreKept ==
  ASSUME SystemInvariant, NoRadioLost, [Next]_vars
  PROVE  NoRadioLost'
<1> SUFFICES ASSUME happened'["fault"] <= 1, happened'["lapse"] = 0, happened'["crash"] = 0,
                    NEW r \in Radio, device'.netdev[r] # Unplugged
             PROVE  device'.netdev[r].name # None
  BY DEF NoRadioLost, RadiosHaveNetdevs, Only, Disturbance
<1>0. happened["lapse"] = 0 /\ happened["crash"] = 0 /\ ~Lapse /\ ~Crash /\ ~Reboot
  BY NothingIsCut
<1>1. device.netdev[r] # Unplugged => device.netdev[r].name # None
  <2>1. happened["fault"] <= 1
    BY HistoryGrows DEF Disturbance
  <2> QED BY <1>0, <2>1 DEF NoRadioLost, RadiosHaveNetdevs, Only
<1>2. ASSUME NetdevStep(r) PROVE device'.netdev[r].name # None
  <2>1. happened'["fault"] \in Nat /\ ~(happened'["fault"] >= 2)
    BY HistoryGrows DEF Disturbance
  <2> QED BY <1>1, <1>2, <2>1 DEF NetdevStep
<1>3. device \in Device
  BY DEF SystemInvariant, TypeOK
<1>4. CASE JobStep
  BY <1>2, <1>4, NetdevsInJobs
<1>5. ASSUME NEW n \in Netns, Reset(n) PROVE device'.netdev[r].name # None
  <2>1. \E o \in Return(device, {n}) : device' = o.dev
    BY <1>5 DEF Reset, ResetNamespace
  <2> QED BY <1>2, <2>1, NetdevsWhenReturning
<1>8. ASSUME NEW q \in Radio, Unplug(q) \/ Plug(q) \/ ToolTakes(q) \/ ToolLeaves(q)
      PROVE  device'.netdev[r].name # None
  <2>1. device'.netdev[r] = device.netdev[r] \/ device'.netdev[r] = Unplugged
        \/ device'.netdev[r] = Home(r)
    BY <1>8, OutsideTouches
  <2> QED BY <1>1, <2>1, AtBootOK
<1>9. CASE UNCHANGED device
  BY <1>1, <1>9
<1>10. ASSUME NEW p \in Profile,
               \/ \E override \in BOOLEAN : Activate(p, override)
               \/ ActivateRefused(p) \/ BeginDeactivate(p) \/ BeginForcedDelete(p) \/ Delete(p) \/ Break(p)
               \/ \E v \in Version : Add(p, v) \/ BeginEdit(p, v)
       PROVE   UNCHANGED device
  BY <1>10, RequestsTouchNothing DEF Activate
<1> QED BY <1>0, <1>4, <1>5, <1>8, <1>9, <1>10
        DEF Next, vars, BeginRevertAll, WriteEdit, Boot, BeginActivate

(* However many radios, profiles and changes there are, a single command that *)
(* fails never leaves a radio that is plugged in without its netdev: every     *)
(* path that deletes one recreates it or restores it, and only the failure of  *)
(* the restoration itself, the second one, can lose it; as long as no command  *)
(* times out and Core is not restarted in between, which nothing restores.     *)
THEOREM NoRadiosAreLost == Spec => []NoRadioLost
<1>1. Init => NoRadioLost
  BY AtBootOK DEF Init, NoRadioLost, RadiosHaveNetdevs
<1>2. SystemInvariant /\ NoRadioLost /\ [Next]_vars => NoRadioLost'
  BY RadiosAreKept
<1> QED BY <1>1, <1>2, ProfilesAreKnown, PTL DEF Spec

-------------------------------------------------------------------------------
(* Tools are left alone.                                                   *)

(* Neither a job nor a request, wherever a command of it times out or the      *)
(* service is restarted, touches the netdev of a radio another tool uses in    *)
(* root, but for the entry that was past its check of that radio when the tool *)
(* took it.                                                                    *)
THEOREM ToolsAreLeftAlone == Spec => LeavesToolsAlone
<1>1. ASSUME SystemInvariant, [Next]_vars, device' # AtBoot, NEW r \in device.busy,
             device.netdev[r].netns = Root, ~(job.phase \in {"claim", "setup"} /\ Head(job.todo).radio = r)
      PROVE  device'.netdev[r] \in {device.netdev[r], Unplugged}
  <2>0. device \in Device /\ r \in Radio /\ ForTool(r)
    BY <1>1, DeviceParts DEF SystemInvariant, TypeOK, ForTool
  <2>1. NetdevStep(r) => device'.netdev[r] = device.netdev[r]
    BY <2>0 DEF NetdevStep
  <2>2. CASE JobStep
    BY <1>1, <2>0, <2>1, <2>2, NetdevsInJobs
  <2>3. ASSUME NEW n \in Netns, Reset(n) PROVE device'.netdev[r] = device.netdev[r]
    <3>1. \E o \in Return(device, {n}) : device' = o.dev
      BY <2>3 DEF Reset, ResetNamespace
    <3> QED BY <1>1, <2>0, <2>1, <3>1, NetdevsWhenReturning
  <2>4. ASSUME Lapse \/ Crash \/ Reboot PROVE device'.netdev[r] = device.netdev[r]
    <3>1. ~Reboot
      BY <1>1 DEF Reboot
    <3>2. SparesTools(device')
      BY <1>1, <2>4, <3>1, LapseIs, CrashIs
    <3> QED BY <2>0, <3>2 DEF SparesTools
  <2>5. ASSUME NEW q \in Radio, Unplug(q) \/ Plug(q) \/ ToolTakes(q) \/ ToolLeaves(q)
        PROVE  device'.netdev[r] \in {device.netdev[r], Unplugged}
    <3>1. device.netdev[r] # Unplugged
      BY <1>1, NamesAssumption DEF Unplugged
    <3> QED BY <1>1, <2>0, <2>5, <3>1, OutsideTouches
  <2>6. CASE UNCHANGED device
    BY <2>6
  <2>7. ASSUME NEW p \in Profile,
               \/ \E override \in BOOLEAN : Activate(p, override)
               \/ ActivateRefused(p) \/ BeginDeactivate(p) \/ BeginForcedDelete(p) \/ Delete(p) \/ Break(p)
               \/ \E v \in Version : Add(p, v) \/ BeginEdit(p, v)
        PROVE  UNCHANGED device
    BY <2>7, RequestsTouchNothing DEF Activate
  <2> QED BY <1>1, <2>2, <2>3, <2>4, <2>5, <2>6, <2>7
          DEF Next, vars, BeginRevertAll, WriteEdit, Boot, BeginActivate
<1> DEFINE Leaves ==
      device' # AtBoot =>
        \A r \in device.busy :
          /\ device.netdev[r].netns = Root
          /\ ~(job.phase \in {"claim", "setup"} /\ Head(job.todo).radio = r)
          => device'.netdev[r] \in {device.netdev[r], Unplugged}
<1>2. SystemInvariant /\ [Next]_vars => [Leaves]_vars
  BY <1>1
<1>3. Spec => [][Leaves]_vars
  BY <1>2, ProfilesAreKnown, PTL DEF Spec
<1> QED BY <1>3 DEF LeavesToolsAlone

-------------------------------------------------------------------------------
(* The profile in force exists.                                            *)

(* Without damaged files every file can be read; the profile a job works on   *)
(* is there until the job itself unlinks it, and by then current.txt has been  *)
(* set to default                                                              *)
FilesInvariant ==
  /\ \A p \in Profile : files[p] \in Version \cup {None}
  /\ files[current] \in Version
  /\ job # NoJob => files[job.profile] \in Version
  /\ job.phase \in {"returned", "unlink"} => current = Default

LEMMA FilesAreKept ==
  ASSUME SystemInvariant, FilesInvariant, [Next]_vars, happened'["break"] = 0
  PROVE  FilesInvariant'
<1> USE DEF FilesInvariant
<1>0. /\ Default \in Profile /\ files[Default] \in Version
      /\ current \in Profile /\ files \in [Profile -> Version \cup {Malformed, None}]
      /\ NoJob.phase = "none" /\ Version \cap {Malformed, None} = {} /\ Active = current
  BY ProfileAssumption, NoJobParts DEF SystemInvariant, TypeOK, KeepsGuards, Active, Readable
<1>1. ASSUME NEW p \in Profile, NEW override \in BOOLEAN, BeginActivate(p, override)
      PROVE  FilesInvariant'
  <2>1. job' \in Job /\ job'.phase = "teardown" /\ job'.profile = p
    BY <1>1, BeginsAJob
  <2> QED BY <1>0, <1>1, <2>1 DEF BeginActivate, RepairCurrent, Readable
<1>2. ASSUME NEW p \in Profile, ActivateRefused(p) PROVE FilesInvariant'
  BY <1>0, <1>2 DEF ActivateRefused, Readable
<1>3. ASSUME NEW p \in Profile, BeginDeactivate(p) \/ BeginForcedDelete(p) PROVE FilesInvariant'
  <2>1. job' \in Job /\ job'.phase = "entries" /\ job'.profile = p
    BY <1>3, BeginsAJob
  <2> QED BY <1>0, <1>3, <2>1 DEF BeginDeactivate, BeginForcedDelete, Readable
<1>4. ASSUME NEW p \in Profile, Delete(p) PROVE FilesInvariant'
  BY <1>0, <1>4 DEF Delete, Readable
<1>5. ASSUME NEW p \in Profile, Break(p) PROVE FilesInvariant'
  <2>1. Counted("break", 1)
    BY <1>5, SpendOK DEF Break, SystemInvariant, TypeOK, Disturbance
  <2>2. happened["break"] \in Nat
    BY DEF SystemInvariant, TypeOK, Disturbance
  <2> QED BY <2>1, <2>2 DEF Counted
<1>6. ASSUME NEW p \in Profile, NEW v \in Version, Add(p, v) PROVE FilesInvariant'
  BY <1>0, <1>6 DEF Add
<1>7. ASSUME NEW p \in Profile, NEW v \in Version, BeginEdit(p, v) PROVE FilesInvariant'
  BY <1>7 DEF BeginEdit
<1>8. CASE BeginRevertAll
  <2>1. job' \in Job /\ job'.phase = "teardown" /\ job'.profile = Active
    BY <1>8, BeginsAJob
  <2> QED BY <1>0, <1>8, <2>1 DEF BeginRevertAll
<1>9. CASE WriteEdit
  <2>1. editing.profile \in Profile /\ editing.version \in Version
    BY <1>9 DEF WriteEdit, SystemInvariant, TypeOK
  <2>2. ~Spend("break", 1)
    <3>1. Spend("break", 1) => Counted("break", 1)
      BY SpendOK DEF SystemInvariant, TypeOK, Disturbance
    <3>2. happened["break"] \in Nat
      BY DEF SystemInvariant, TypeOK, Disturbance
    <3> QED BY <3>1, <3>2 DEF Counted
  <2>4. files' = [files EXCEPT ![editing.profile] = editing.version]
    BY <1>9, <2>2 DEF WriteEdit
  <2>5. \A p \in Profile : files'[p] = files[p] \/ files'[p] \in Version
    BY <1>0, <2>1, <2>4
  <2>3. job # NoJob => job.profile \in Profile
    BY JobParts DEF SystemInvariant, TypeOK
  <2> QED BY <1>0, <1>9, <2>3, <2>5 DEF WriteEdit
<1>10. CASE JobStep
  <2>1. CASE UndoEntry
    BY <1>0, <2>1, UndoEntryIs, JobParts DEF UndoEntry, KeepFiles, Stepped
  <2>2. CASE TornDown
    BY <1>0, <2>2, TornDownIs, JobParts DEF TornDown, KeepFiles, Stepped
  <2>3. CASE ApplyEntry
    <3>1. job \in Job /\ job' \in Job /\ job'.profile = job.profile
          /\ job'.phase \in {"apply", "claim", "rollback"}
      BY <2>3, ApplyEntryIs DEF Stepped
    <3> QED BY <1>0, <2>3, <3>1, JobParts DEF ApplyEntry, KeepFiles
  <2>4. CASE ClaimEntry
    <3>1. job \in Job /\ job' \in Job /\ job'.profile = job.profile
          /\ job'.phase \in {"setup", "rollback"}
      BY <2>4, ClaimEntryIs DEF Stepped
    <3> QED BY <1>0, <2>4, <3>1, JobParts DEF ClaimEntry, KeepFiles
  <2>5. CASE SetupEntry
    <3>1. job \in Job /\ job' \in Job /\ job'.profile = job.profile
          /\ job'.phase \in {"apply", "rollback"}
      BY <2>5, SetupEntryIs DEF Stepped
    <3> QED BY <1>0, <2>5, <3>1, JobParts DEF SetupEntry, KeepFiles
  <2>6. CASE Applied
    BY <1>0, <2>6, AppliedIs, JobParts DEF Applied, KeepFiles, Stepped
  <2>7. CASE Commit
    <3>1. job # NoJob
      BY <1>0, <2>7 DEF Commit
    <3> QED BY <1>0, <2>7, <3>1 DEF Commit, Record, Finish, KeepFiles
  <2>8. CASE RolledBack
    <3>1. job \in Job /\ Stepped(job, job', "fallback", job.ok, job.todo, job.done)
      BY <2>8, GotoIs DEF RolledBack, Phase
    <3> QED BY <1>0, <2>8, <3>1, JobParts DEF RolledBack, KeepFiles, Stepped
  <2>9. CASE FallBack
    BY <1>0, <2>9 DEF FallBack, RecordDefault, Record, Finish, KeepFiles
  <2>10. CASE DeactivateEntry
    <3>1. job \in Job /\ job' \in Job /\ job'.profile = job.profile
          /\ job'.phase \in {"entries", "record"}
      BY <2>10, DeactivateEntryIs DEF Stepped
    <3> QED BY <1>0, <2>10, <3>1, JobParts DEF DeactivateEntry, KeepFiles
  <2>11. CASE DeactivatedDefault
    <3>1. job \in Job /\ Stepped(job, job', "returned", job.ok, job.todo, job.done)
      BY <2>11, GotoIs DEF DeactivatedDefault, Phase
    <3> QED BY <1>0, <2>11, <3>1, JobParts
            DEF DeactivatedDefault, RecordDefault, Record, KeepFiles, Stepped
  <2>12. CASE Deactivated
    <3>1. job.phase = "returned" /\ job \in Job
      BY <2>12, JobIsRunning DEF Deactivated, SystemInvariant
    <3>2. CASE Goto("unlink")
      <4>1. Stepped(job, job', "unlink", job.ok, job.todo, job.done)
        BY <3>1, <3>2, GotoIs DEF Phase
      <4> QED BY <1>0, <2>12, <3>1, <4>1, JobParts DEF Deactivated, KeepFiles, Stepped
    <3>3. CASE Finish
      BY <1>0, <2>12, <3>3 DEF Deactivated, KeepFiles, Finish
    <3> QED BY <2>12, <3>2, <3>3 DEF Deactivated
  <2>13. CASE Unlink
    <3>1. job \in Job /\ job.profile # Default /\ current = Default
      BY <2>13, JobIsRunning DEF Unlink, SystemInvariant, KeepsGuards
    <3> QED BY <1>0, <2>13, <3>1 DEF Unlink, Finish
  <2> QED BY <1>10, <2>1, <2>2, <2>3, <2>4, <2>5, <2>6, <2>7, <2>8, <2>9, <2>10, <2>11, <2>12, <2>13
          DEF JobStep
<1>11. CASE Boot
  BY <1>1, <1>11, BootKeeps
<1>12. CASE Crash \/ Reboot
  BY <1>0, <1>12 DEF Crash, Reboot
<1>13. CASE UNCHANGED <<files, current, job>>
  BY <1>13
<1>14. ASSUME NEW n \in Netns, Reset(n) PROVE UNCHANGED <<files, current, job>>
  BY <1>14 DEF Reset, Resettable
<1>15. ASSUME NEW r \in Radio, Unplug(r) \/ Plug(r) \/ ToolTakes(r) \/ ToolLeaves(r)
       PROVE  UNCHANGED <<files, current, job>>
  BY <1>15 DEF Unplug, Plug, ToolTakes, ToolLeaves
<1>16. CASE Lapse
  <2>1. UNCHANGED <<files, current>>
    BY <1>16, LapseIs
  <2>2. \/ job' \in {job, NoJob}
        \/ /\ job \in Job /\ job' \in Job /\ job'.profile = job.profile
           /\ job'.phase \in {"teardown", "rollback", "entries", "record", "apply", "fallback",
                              "returned"}
           /\ job'.phase = "returned" => job.phase = "returned"
    BY <1>16, LapseIs DEF Stepped
  <2> QED BY <1>0, <2>1, <2>2, JobParts
<1> QED BY <1>1, <1>2, <1>3, <1>4, <1>5, <1>6, <1>7, <1>8, <1>9, <1>10, <1>11, <1>12, <1>13, <1>14,
           <1>15, <1>16 DEF Next, Activate, vars

(* With any number of profiles, edits, deletions and activations, and however *)
(* they interleave with each other, with commands that fail or time out and    *)
(* with restarts, current.txt names a profile that has a file, as long as no   *)
(* file is made unreadable, by hand or by an edit (#277).                      *)
THEOREM CurrentIsAProfile == Spec => []CurrentNamesAProfile
<1> DEFINE Inv == happened["break"] = 0 => FilesInvariant
<1>1. Init => Inv
  BY ProfileAssumption, NoJobParts DEF Init, FilesInvariant
<1>2. SystemInvariant /\ Inv /\ [Next]_vars => Inv'
  <2>1. SystemInvariant /\ [Next]_vars /\ happened'["break"] = 0 => happened["break"] = 0
    BY HistoryGrows DEF Disturbance
  <2> QED BY <2>1, FilesAreKept
<1>3. Inv => CurrentNamesAProfile
  BY ProfileAssumption DEF CurrentNamesAProfile, Only, Disturbance, FilesInvariant
<1> QED BY <1>1, <1>2, <1>3, ProfilesAreKnown, PTL DEF Spec

-------------------------------------------------------------------------------
(* Core's namespaces are those of the profile in force.                     *)

NamesOf(v) == {e.netns : e \in EntrySet(v)}

(* What a job has made of the namespaces at each of its phases, when no       *)
(* command fails: after the teardown only those of the new profile exist       *)
NamespaceInvariant ==
  /\ job = NoJob /\ up => device.core \subseteq NamesOf(applied)
  /\ job.phase \in {"apply", "claim", "setup", "commit"} =>
       /\ job.ok /\ device.core \subseteq NamesOf(job.cfg)
       /\ \A i \in DOMAIN job.todo : job.todo[i] \in EntrySet(job.cfg)
  /\ job.phase \in {"claim", "setup"} => Placed(device, Head(job.todo))
  /\ job.phase \in {"fallback", "unlink"} => device.core = {}
  /\ job.phase # "rollback"

Clean ==
  /\ happened["fault"] = 0 /\ happened["lapse"] = 0
  /\ happened["plug"] = 0 /\ happened["break"] = 0

LEMMA NothingFails ==
  ASSUME SystemInvariant, NEW n \in Nat, Spend("fault", n), Clean'
  PROVE  n = 0
BY FaultsGrow DEF Clean

LEMMA TailsAreOfTheWhole ==
  ASSUME NEW s \in Seq(Entry), s # <<>>, NEW S, \A i \in DOMAIN s : s[i] \in S
  PROVE  Head(s) \in S /\ \A i \in DOMAIN Tail(s) : Tail(s)[i] \in S
<1>1. Head(s) = s[1] /\ 1 \in DOMAIN s
  OBVIOUS
<1>2. \A i \in DOMAIN Tail(s) : i + 1 \in DOMAIN s /\ Tail(s)[i] = s[i + 1]
  OBVIOUS
<1> QED BY <1>1, <1>2

LEMMA NamespacesInJobs ==
  ASSUME SystemInvariant, FilesInvariant, NamespaceInvariant, JobStep, Clean'
  PROVE  NamespaceInvariant'
<1> USE DEF NamespaceInvariant
<1>0. /\ device \in Device /\ device.core \in SUBSET Netns /\ NoJob.phase = "none"
  BY DeviceParts, NoJobParts DEF SystemInvariant, TypeOK
<1>1. CASE UndoEntry
  <2>1. job' \in Job /\ job'.phase = "teardown"
    BY <1>1, UndoEntryIs DEF UndoEntry, Stepped
  <2> QED BY <2>1, JobParts
<1>2. CASE TornDown
  <2>1. PICK o \in Return(device, device.core) :
             /\ device' = KillAllSupplicants(o.dev) \/ device' = o.dev
             /\ Spend("fault", o.cost)
    BY <1>2 DEF TornDown, ReturnNamespaces, CoreNamespaces
  <2>2. o.dev \in Device /\ o.cost \in Nat /\ (o.cost = 0 => o.dev.core = {})
    BY <1>0, ReturnOK
  <2>3. o.cost = 0
    BY <2>1, <2>2, NothingFails
  <2>4. device'.core = {}
    BY <2>1, <2>2, <2>3, KillOK
  <2>5. CASE job.ok /\ Stepped(job, job', "apply", job.ok, Layout[job.cfg], job.done)
    BY <2>4, <2>5, JobParts DEF Stepped, EntrySet
  <2>6. CASE Stepped(job, job', "fallback", job.ok, job.todo, job.done)
    BY <2>4, <2>6, JobParts DEF Stepped
  <2> QED BY <1>2, <2>5, <2>6, TornDownIs
<1>3. CASE ApplyEntry
  <2>0. /\ job \in Job /\ job.phase = "apply" /\ job.todo # <<>> /\ job.todo \in Seq(Entry)
        /\ Head0 \in Entry
    BY <1>3, ApplyEntryIs, JobParts DEF ApplyEntry
  <2>1. Head0 \in EntrySet(job.cfg) /\ \A i \in DOMAIN Rest : Rest[i] \in EntrySet(job.cfg)
    BY <2>0, TailsAreOfTheWhole DEF Head0, Rest
  <2>2. CASE /\ UNCHANGED device
             /\ \/ Stepped(job, job', "apply", job.ok, Rest, job.done)
                \/ Stepped(job, job', "apply", job.ok, Rest, Append(job.done, Head0))
    BY <2>0, <2>1, <2>2, JobParts DEF Stepped
  <2>3. ASSUME NEW o \in Prepare(device, Head0), Found(device, Head0), Becomes(o),
               \/ o.status = "prepared" /\ Stepped(job, job', "claim", job.ok, job.todo, job.done)
               \/ o.status \in {"error", "raised"}
        PROVE  NamespaceInvariant'
    <3>1. Prepared(device, Head0, o)
      BY <1>0, <2>0, <2>3, PrepareOK
    <3>2. o.cost \in Nat /\ o.cost = 0 /\ device' = o.dev
      BY <2>3, <3>1, NothingFails DEF Prepared, Becomes
    <3>3. o.status = "prepared" /\ Placed(o.dev, Head0)
          /\ o.dev.core \subseteq device.core \cup {Head0.netns}
      BY <3>1, <3>2 DEF Prepared
    <3>4. device'.core \subseteq NamesOf(job.cfg)
      BY <2>0, <2>1, <3>2, <3>3 DEF NamesOf
    <3>5. Stepped(job, job', "claim", job.ok, job.todo, job.done)
      BY <2>3, <3>3
    <3>6. Placed(device', Head(job'.todo))
      BY <3>2, <3>3, <3>5 DEF Stepped, Head0
    <3> QED BY <2>0, <3>4, <3>5, <3>6, JobParts DEF Stepped
  <2> QED BY <1>3, <2>2, <2>3, ApplyEntryIs
<1>4. CASE ClaimEntry
  <2>1. job.phase = "claim" /\ ~Spend("fault", 1)
    BY <1>4, NothingFails DEF ClaimEntry
  <2>2. /\ job \in Job /\ Head0 \in Entry /\ Stepped(job, job', "setup", job.ok, job.todo, job.done)
        /\ device' = Claim(device, Head0)
    BY <1>4, <2>1, ClaimEntryIs
  <2>3. device'.core = device.core /\ device'.netdev = device.netdev
    BY <1>0, <2>2, ClaimOK
  <2>4. Placed(device', Head(job'.todo))
    BY <2>1, <2>2, <2>3 DEF Placed, Stepped
  <2> QED BY <2>1, <2>2, <2>3, <2>4, JobParts DEF Stepped
<1>5. CASE SetupEntry
  <2>0. /\ job \in Job /\ job.phase = "setup" /\ job.todo # <<>> /\ job.todo \in Seq(Entry)
        /\ Head0 \in Entry /\ Placed(device, Head0)
    BY <1>5, SetupEntryIs, JobParts DEF SetupEntry, SystemInvariant, KeepsGuards, Head0
  <2>1. \A i \in DOMAIN Rest : Rest[i] \in EntrySet(job.cfg)
    BY <2>0, TailsAreOfTheWhole DEF Rest
  <2>2. PICK o \in Setup(device, Head0) :
          /\ Becomes(o)
          /\ o.status # "raised" => Stepped(job, job', "apply", job.ok, Rest, Append(job.done, Head0))
    BY <1>5, SetupEntryIs
  <2>3. o.cost \in Nat /\ o.cost = 0
    BY <1>0, <2>0, <2>2, SetupOK, NothingFails DEF Becomes
  <2>4. o.status = "provisioned" /\ o.dev.core = device.core
    <3>0. o \in Setup(device, Head0)
      BY <2>2
    <3>1. \/ o.status = "provisioned" /\ o.dev.core = device.core
          \/ o.status = "raised" /\ (o.cost >= 1 \/ ~Placed(device, Head0))
      BY <1>0, <2>0, <3>0, SetupEndsEitherWay
    <3> QED BY <2>0, <2>3, <3>1
  <2> QED BY <2>0, <2>1, <2>2, <2>4, JobParts DEF Stepped, Becomes
<1>6. CASE Applied
  <2>1. job.phase = "apply" /\ job \in Job /\ job.ok
    BY <1>6, AppliedIs DEF Applied
  <2>2. Stepped(job, job', "commit", job.ok, job.todo, job.done) /\ UNCHANGED device
    BY <1>6, <2>1, AppliedIs DEF Applied
  <2> QED BY <2>1, <2>2, JobParts DEF Stepped
<1>7. CASE Commit
  BY <1>0, <1>7 DEF Commit, Record, Finish
<1>8. CASE RolledBack
  BY <1>8 DEF RolledBack
<1>9. CASE FallBack
  BY <1>0, <1>9 DEF FallBack, RecordDefault, Record, Finish
<1>10. CASE DeactivateEntry
  <2>1. job' \in Job /\ job'.phase \in {"entries", "record"}
    BY <1>10, DeactivateEntryIs DEF Stepped
  <2> QED BY <2>1, JobParts
<1>11. CASE DeactivatedDefault
  <2>1. job.phase \in {"record", "entries"}
    BY <1>11 DEF DeactivatedDefault
  <2>2. job' \in Job /\ job'.phase = "returned"
    BY <1>11, <2>1, GotoIs DEF DeactivatedDefault, Phase, Stepped
  <2> QED BY <2>2, JobParts
<1>12. CASE Deactivated
  <2>1. PICK o \in Return(device, device.core) : Becomes(o)
    BY <1>12 DEF Deactivated, ReturnNamespaces, CoreNamespaces
  <2>2. o.cost \in Nat /\ (o.cost = 0 => o.dev.core = {})
    BY <1>0, ReturnOK
  <2>3. device'.core = {}
    BY <2>1, <2>2, NothingFails DEF Becomes
  <2>4. CASE Goto("unlink")
    <3>1. Stepped(job, job', "unlink", job.ok, job.todo, job.done)
      BY <1>12, <2>4, GotoIs DEF Deactivated, Phase
    <3> QED BY <2>3, <3>1, JobParts DEF Stepped
  <2>5. CASE Finish
    BY <1>0, <2>3, <2>5 DEF Finish
  <2> QED BY <1>12, <2>4, <2>5 DEF Deactivated
<1>13. CASE Unlink
  BY <1>0, <1>13 DEF Unlink, Finish
<1> QED BY <1>1, <1>2, <1>3, <1>4, <1>5, <1>6, <1>7, <1>8, <1>9, <1>10, <1>11, <1>12, <1>13
        DEF JobStep

LEMMA NamespacesAreKept ==
  ASSUME SystemInvariant, FilesInvariant, NamespaceInvariant, [Next]_vars, Clean'
  PROVE  NamespaceInvariant'
<1> USE DEF NamespaceInvariant
<1>0. /\ device \in Device /\ device.core \in SUBSET Netns /\ NoJob.phase = "none" /\ Readable(current)
      /\ Clean /\ ~Lapse
  <2>1. Clean /\ ~Lapse
    BY HistoryGrows, NothingIsCut DEF Clean, Disturbance
  <2> QED BY <2>1, DeviceParts, NoJobParts DEF SystemInvariant, TypeOK, FilesInvariant, Readable
<1>1. ASSUME NEW p \in Profile, NEW override \in BOOLEAN, BeginActivate(p, override)
      PROVE  NamespaceInvariant'
  <2>1. job' \in Job /\ job'.phase = "teardown"
    BY <1>1, BeginsAJob
  <2> QED BY <2>1, JobParts
<1>2. ASSUME NEW p \in Profile, BeginDeactivate(p) \/ BeginForcedDelete(p) PROVE NamespaceInvariant'
  <2>1. job' \in Job /\ job'.phase = "entries"
    BY <1>2, BeginsAJob
  <2> QED BY <2>1, JobParts
<1>3. ASSUME BeginRevertAll PROVE NamespaceInvariant'
  <2>1. job' \in Job /\ job'.phase = "teardown"
    BY <1>3, BeginsAJob
  <2> QED BY <2>1, JobParts
<1>4. ASSUME NEW p \in Profile, NEW v \in Version, Add(p, v) \/ BeginEdit(p, v)
      PROVE  UNCHANGED <<device, applied, job, up>>
  BY <1>4 DEF Add, BeginEdit
<1>5. ASSUME NEW n \in Netns, Reset(n) PROVE NamespaceInvariant'
  <2>1. PICK o \in Return(device, {n}) : device' = o.dev
    BY <1>5 DEF Reset, ResetNamespace
  <2>2. device'.core \subseteq device.core
    BY <1>0, <2>1, ReturnOK
  <2> QED BY <1>0, <1>5, <2>2 DEF Reset, Resettable
<1>6. ASSUME Crash \/ Reboot PROVE NamespaceInvariant'
  BY <1>0, <1>6 DEF Crash, Reboot
<1>7. ASSUME NEW r \in Radio, Unplug(r) \/ Plug(r) \/ ToolTakes(r) \/ ToolLeaves(r)
      PROVE  NamespaceInvariant'
  <2>1. ~Unplug(r)
    <3>1. Unplug(r) => Counted("plug", 1)
      BY SpendOK DEF Unplug, SystemInvariant, TypeOK, Disturbance
    <3> QED BY <1>0, <3>1 DEF Counted, Clean
  <2>2. device'.core = device.core /\ UNCHANGED <<job, up, applied>>
    BY <1>7, OutsideTouches DEF Unplug, Plug, ToolTakes, ToolLeaves
  <2>3. ASSUME job.phase \in {"claim", "setup"} PROVE Placed(device', Head(job'.todo))
    <3>1. job \in Job /\ Head(job.todo) \in Entry
      BY <2>3, JobIsRunning, EntriesHaveParts, JobParts DEF SystemInvariant, KeepsGuards
    <3>2. Head(job.todo).radio \in Radio /\ Head(job.todo).netns \in Place
      BY <3>1 DEF Entry
    <3>3. device.netdev[Head(job.todo).radio] # Unplugged
      BY <2>3, <3>2, NamesAssumption DEF Placed, Unplugged, Place
    <3>4. device'.netdev[Head(job.todo).radio] = device.netdev[Head(job.todo).radio]
      BY <1>7, <2>1, <3>2, <3>3, OutsideTouches
    <3> QED BY <2>2, <2>3, <3>4 DEF Placed
  <2> QED BY <2>2, <2>3
<1>8. CASE JobStep
  BY <1>8, NamespacesInJobs
<1>9. CASE Boot
  BY <1>1, <1>9, BootKeeps
<1>10. CASE UNCHANGED <<device, applied, job, up>>
  BY <1>10
<1>11. ASSUME WriteEdit PROVE UNCHANGED <<device, applied, job, up>>
  BY <1>11 DEF WriteEdit
<1>12. ASSUME NEW p \in Profile, ActivateRefused(p) \/ Delete(p) \/ Break(p)
       PROVE  UNCHANGED <<device, applied, job, up>>
  BY <1>0, <1>12 DEF ActivateRefused, Delete, Break
<1> QED BY <1>0, <1>1, <1>2, <1>3, <1>4, <1>5, <1>6, <1>7, <1>8, <1>9, <1>10, <1>11, <1>12
        DEF Next, Activate, vars

(* As long as no command fails or times out, no radio is unplugged and no file *)
(* is damaged, each namespace Core created is one of the profile it last        *)
(* recorded, however many profiles were activated, deactivated, deleted, edited *)
(* or reset before, whatever other tools did, and wherever Core or the device   *)
(* was restarted.                                                               *)
THEOREM NamespacesAreTheProfiles == Spec => []NamespacesFollowProfile
<1> DEFINE Inv == Clean => FilesInvariant /\ NamespaceInvariant
<1>1. Init => Inv
  <2>1. Init => FilesInvariant
    BY ProfileAssumption, NoJobParts DEF Init, FilesInvariant
  <2>2. Init => NamespaceInvariant
    BY AtBootOK, NoJobParts DEF Init, NamespaceInvariant
  <2> QED BY <2>1, <2>2
<1>2. SystemInvariant /\ Inv /\ [Next]_vars => Inv'
  <2>1. SystemInvariant /\ [Next]_vars /\ Clean' => Clean
    BY HistoryGrows DEF Clean, Disturbance
  <2>2. Clean' => happened'["break"] = 0
    BY DEF Clean
  <2> QED BY <2>1, <2>2, FilesAreKept, NamespacesAreKept
<1>3. Inv => NamespacesFollowProfile
  BY DEF NamespacesFollowProfile, Only, Disturbance, Clean, Quiet, NamespaceInvariant, NamesOf
<1> QED BY <1>1, <1>2, <1>3, ProfilesAreKnown, PTL DEF Spec

-------------------------------------------------------------------------------
(* Lists of entries, of which no two have the same radio.                  *)

Members(s) == {s[i] : i \in DOMAIN s}

OncePerRadio(s) == \A i, j \in DOMAIN s : s[i].radio = s[j].radio => i = j

Apart(s, t) == \A e \in Members(s), f \in Members(t) : e.radio # f.radio

LEMMA NoMembers == Members(<<>>) = {} /\ OncePerRadio(<<>>)
BY DEF Members, OncePerRadio

LEMMA HeadAndTail ==
  ASSUME NEW s \in Seq(Entry), s # <<>>, OncePerRadio(s)
  PROVE  /\ Head(s) \in Members(s) /\ Members(s) = {Head(s)} \cup Members(Tail(s))
         /\ OncePerRadio(Tail(s))
         /\ \A e \in Members(Tail(s)) : e.radio # Head(s).radio
<1>1. Head(s) = s[1] /\ 1 \in DOMAIN s
  OBVIOUS
<1>2. \A i \in DOMAIN Tail(s) : i + 1 \in DOMAIN s /\ Tail(s)[i] = s[i + 1] /\ i + 1 # 1
  OBVIOUS
<1>3. \A i \in DOMAIN s : i # 1 => i - 1 \in DOMAIN Tail(s) /\ s[i] = Tail(s)[i - 1]
  OBVIOUS
<1>4. \A i, j \in DOMAIN Tail(s) : i + 1 = j + 1 => i = j
  OBVIOUS
<1>5. OncePerRadio(Tail(s))
  BY <1>2, <1>4 DEF OncePerRadio
<1>6. \A e \in Members(Tail(s)) : e.radio # Head(s).radio
  BY <1>1, <1>2 DEF OncePerRadio, Members
<1>7. Members(s) = {Head(s)} \cup Members(Tail(s))
  BY <1>1, <1>2, <1>3, SMTT(30) DEF Members
<1> QED BY <1>5, <1>6, <1>7

LEMMA Appended ==
  ASSUME NEW s \in Seq(Entry), OncePerRadio(s), NEW e \in Entry, \A f \in Members(s) : f.radio # e.radio
  PROVE  Members(Append(s, e)) = Members(s) \cup {e} /\ OncePerRadio(Append(s, e))
<1> DEFINE t == Append(s, e)
           n == Len(s) + 1
<1>1. n \in DOMAIN t /\ t[n] = e /\ DOMAIN t = DOMAIN s \cup {n} /\ n \notin DOMAIN s
  OBVIOUS
<1>2. \A i \in DOMAIN s : t[i] = s[i]
  OBVIOUS
<1> HIDE DEF t, n
<1>3. Members(t) = Members(s) \cup {e}
  BY <1>1, <1>2 DEF Members
<1>4. ASSUME NEW i \in DOMAIN t, NEW j \in DOMAIN t, t[i].radio = t[j].radio
      PROVE  i = j
  <2>1. \A k \in DOMAIN s : s[k].radio # e.radio
    BY DEF Members
  <2> QED BY <1>1, <1>2, <1>4, <2>1 DEF OncePerRadio
<1> QED BY <1>3, <1>4 DEF OncePerRadio, t

(* A list from whose front entries move to another stays apart from it *)
LEMMA Moved ==
  ASSUME NEW s \in Seq(Entry), NEW t \in Seq(Entry), s # <<>>,
         OncePerRadio(s), OncePerRadio(t), Apart(s, t)
  PROVE  /\ OncePerRadio(Tail(s)) /\ Apart(Tail(s), t)
         /\ OncePerRadio(Append(t, Head(s))) /\ Apart(Tail(s), Append(t, Head(s)))
         /\ Members(s) = {Head(s)} \cup Members(Tail(s))
         /\ Members(Append(t, Head(s))) = Members(t) \cup {Head(s)}
         /\ \A f \in Members(t) : f.radio # Head(s).radio
<1>1. /\ Head(s) \in Members(s) /\ Members(s) = {Head(s)} \cup Members(Tail(s))
      /\ OncePerRadio(Tail(s)) /\ \A e \in Members(Tail(s)) : e.radio # Head(s).radio
  BY HeadAndTail
<1>2. Head(s) \in Entry /\ \A f \in Members(t) : f.radio # Head(s).radio
  BY <1>1, EntriesHaveParts DEF Apart
<1>3. /\ Members(Append(t, Head(s))) = Members(t) \cup {Head(s)}
      /\ OncePerRadio(Append(t, Head(s)))
  BY <1>2, Appended
<1> QED BY <1>1, <1>2, <1>3 DEF Apart

(* The entries of a profile file are such a list *)
LEMMA LayoutsAreUnique ==
  ASSUME NEW v \in Version
  PROVE  /\ Members(Layout[v]) = EntrySet(v) /\ OncePerRadio(Layout[v])
         /\ \A e, f \in EntrySet(v) : e.radio = f.radio => e = f
         /\ EntrySet(v) \subseteq Entry
<1>1. Layout[v] \in Seq(Entry) /\ UniqueInterfaces(Layout[v])
  BY ProfileAssumption
<1>2. OncePerRadio(Layout[v])
  BY <1>1 DEF UniqueInterfaces, OncePerRadio
<1>3. \A i \in DOMAIN Layout[v] : Layout[v][i] \in Entry
  BY <1>1
<1> QED BY <1>2, <1>3 DEF Members, EntrySet, OncePerRadio

-------------------------------------------------------------------------------
(* The shape of a job: which operations pass through which phases, and which *)
(* entries its lists hold.  What is still to do and what has been done never *)
(* concern the same radio, until what has been done is to be rolled back.    *)

Applying == {"apply", "claim", "setup", "commit"}

JobShape(j) ==
  /\ OncePerRadio(j.todo) /\ OncePerRadio(j.done)
  /\ j.phase \notin {"rollback", "fallback"} => Apart(j.todo, j.done)
  /\ j.phase = "teardown" => j.done = <<>> /\ j.op \in {"activate", "revert"}
  /\ j.phase \in {"entries", "record", "returned", "unlink"} => j.op \in {"deactivate", "delete"}
  /\ j.phase \in Applying \cup {"rollback"} => j.op = "activate"
  /\ j.phase \in Applying => Members(j.todo) \cup Members(j.done) \subseteq EntrySet(j.cfg)
  /\ j.phase = "commit" => j.todo = <<>>

(* With a radio that is being claimed or set up in its place, unless radios   *)
(* are unplugged; and a job before start up is over is the activation of it.   *)
(* No namespace lacks Core's marker unless a change was cut short.             *)
ShapeInvariant ==
  /\ Housed(device) /\ device.busy \subseteq touched
  /\ happened["lapse"] = 0 /\ happened["crash"] = 0 => device.plain = {}
  /\ job # NoJob => JobShape(job) /\ (up \/ (job.op = "activate" /\ job.override))
  /\ job.phase \in {"claim", "setup"} /\ happened["plug"] = 0 =>
       /\ Placed(device, Head(job.todo))
       /\ job.phase = "setup" => Head(job.todo).radio \in device.owned

LEMMA FreshLists ==
  ASSUME NEW s, OncePerRadio(s)
  PROVE  OncePerRadio(<<>>) /\ Apart(s, <<>>)
BY NoMembers DEF Apart

LEMMA ActiveIsUnique ==
  ASSUME NEW p PROVE OncePerRadio(EntriesOf(p))
BY NoMembers, LayoutsAreUnique DEF EntriesOf, Readable

LEMMA JobsKeepShape ==
  ASSUME SystemInvariant, job # NoJob, JobShape(job), JobStep
  PROVE  \/ job' = NoJob
         \/ /\ job' \in Job /\ JobShape(job')
            /\ job'.op = job.op /\ job'.override = job.override
<1> USE DEF JobShape, Applying
<1>0. /\ job \in Job /\ job.todo \in Seq(Entry) /\ job.done \in Seq(Entry) /\ job.cfg \in Version
  BY JobParts DEF SystemInvariant, TypeOK
<1>1. CASE UndoEntry
  <2>1. /\ job.phase \in {"teardown", "rollback"} /\ job.todo # <<>>
        /\ Stepped(job, job', job.phase, job.ok, Rest, job.done)
    BY <1>1, UndoEntryIs DEF UndoEntry
  <2>2. OncePerRadio(Rest)
    BY <1>0, <2>1, HeadAndTail DEF Rest
  <2>3. job.done = <<>> => Apart(Rest, job.done)
    BY <2>2, FreshLists
  <2> QED BY <2>1, <2>2, <2>3 DEF Stepped
<1>2. CASE TornDown
  <2>1. job.phase = "teardown"
    BY <1>2 DEF TornDown
  <2>2. CASE job.op = "activate" /\ Stepped(job, job', "apply", job.ok, Layout[job.cfg], job.done)
    <3>1. /\ OncePerRadio(Layout[job.cfg]) /\ Members(Layout[job.cfg]) = EntrySet(job.cfg)
          /\ Apart(Layout[job.cfg], <<>>)
      BY <1>0, LayoutsAreUnique, FreshLists
    <3> QED BY <2>1, <2>2, <3>1, NoMembers DEF Stepped
  <2>3. CASE Stepped(job, job', "fallback", job.ok, job.todo, job.done)
    BY <2>3 DEF Stepped
  <2> QED BY <1>2, <2>2, <2>3, TornDownIs
<1>3. ASSUME job.phase \in {"apply", "setup"}, job.todo # <<>>,
             \/ Stepped(job, job', "apply", job.ok, Rest, job.done)
             \/ Stepped(job, job', "apply", FALSE, Rest, job.done)
             \/ Stepped(job, job', "apply", job.ok, Rest, Append(job.done, Head0))
      PROVE  /\ job' \in Job /\ JobShape(job')
             /\ job'.op = job.op /\ job'.override = job.override
  <2>1. /\ OncePerRadio(Rest) /\ Apart(Rest, job.done)
        /\ OncePerRadio(Append(job.done, Head0)) /\ Apart(Rest, Append(job.done, Head0))
        /\ Members(job.todo) = {Head0} \cup Members(Rest)
        /\ Members(Append(job.done, Head0)) = Members(job.done) \cup {Head0}
    BY <1>0, <1>3, Moved DEF Rest, Head0
  <2> QED BY <1>3, <2>1 DEF Stepped
<1>4. ASSUME job.phase \in Applying,
             \E ok \in BOOLEAN : Stepped(job, job', "rollback", ok, job.done, job.done)
      PROVE  /\ job' \in Job /\ JobShape(job')
             /\ job'.op = job.op /\ job'.override = job.override
  BY <1>4 DEF Stepped
<1>5. CASE ApplyEntry
  <2>1. /\ job.phase = "apply" /\ job.todo # <<>>
        /\ \/ Stepped(job, job', "apply", job.ok, Rest, job.done)
           \/ Stepped(job, job', "apply", job.ok, Rest, Append(job.done, Head0))
           \/ Stepped(job, job', "claim", job.ok, job.todo, job.done)
           \/ Stepped(job, job', "apply", FALSE, Rest, job.done)
           \/ Stepped(job, job', "rollback", FALSE, job.done, job.done)
    BY <1>5, ApplyEntryIs DEF ApplyEntry
  <2>2. CASE Stepped(job, job', "claim", job.ok, job.todo, job.done)
    BY <2>1, <2>2 DEF Stepped
  <2> QED BY <1>3, <1>4, <2>1, <2>2
<1>6. CASE ClaimEntry
  <2>1. /\ job.phase = "claim"
        /\ \/ Stepped(job, job', "setup", job.ok, job.todo, job.done)
           \/ Stepped(job, job', "rollback", FALSE, job.done, job.done)
    BY <1>6, ClaimEntryIs DEF ClaimEntry
  <2>2. CASE Stepped(job, job', "setup", job.ok, job.todo, job.done)
    BY <2>1, <2>2 DEF Stepped
  <2> QED BY <1>4, <2>1, <2>2
<1>7. CASE SetupEntry
  <2>1. /\ job.phase = "setup" /\ job.todo # <<>>
        /\ \/ Stepped(job, job', "rollback", FALSE, job.done, job.done)
           \/ Stepped(job, job', "apply", job.ok, Rest, Append(job.done, Head0))
    BY <1>7, SetupEntryIs DEF SetupEntry, SystemInvariant, KeepsGuards
  <2> QED BY <1>3, <1>4, <2>1
<1>8. CASE Applied
  <2>1. /\ job.phase = "apply" /\ job.todo = <<>> /\ job.ok \in BOOLEAN
        /\ \/ Stepped(job, job', "commit", job.ok, job.todo, job.done)
           \/ Stepped(job, job', "rollback", job.ok, job.done, job.done)
    BY <1>0, <1>8, AppliedIs, JobParts DEF Applied
  <2>2. CASE Stepped(job, job', "commit", job.ok, job.todo, job.done)
    BY <2>1, <2>2 DEF Stepped
  <2> QED BY <1>4, <2>1, <2>2
<1>9. CASE RolledBack
  <2>1. job.phase = "rollback"
    BY <1>9 DEF RolledBack
  <2>2. Stepped(job, job', "fallback", job.ok, job.todo, job.done)
    BY <1>9, <2>1, GotoIs DEF RolledBack, Phase
  <2> QED BY <2>1, <2>2 DEF Stepped
<1>10. CASE DeactivateEntry
  <2>1. /\ job.phase = "entries" /\ job.todo # <<>>
        /\ \/ Stepped(job, job', "record", FALSE, <<>>, job.done)
           \/ Stepped(job, job', "entries", job.ok, Rest, job.done)
    BY <1>10, DeactivateEntryIs DEF DeactivateEntry
  <2>2. OncePerRadio(Rest) /\ Apart(Rest, job.done) /\ Apart(<<>>, job.done) /\ OncePerRadio(<<>>)
    BY <1>0, <2>1, Moved, NoMembers DEF Rest, Apart
  <2> QED BY <2>1, <2>2 DEF Stepped
<1>11. CASE DeactivatedDefault
  <2>1. job.phase \in {"record", "entries"}
    BY <1>11 DEF DeactivatedDefault
  <2>2. Stepped(job, job', "returned", job.ok, job.todo, job.done)
    BY <1>11, <2>1, GotoIs DEF DeactivatedDefault, Phase
  <2> QED BY <2>1, <2>2 DEF Stepped
<1>12. CASE Deactivated
  <2>1. job.phase = "returned"
    BY <1>12 DEF Deactivated
  <2>2. Goto("unlink") => Stepped(job, job', "unlink", job.ok, job.todo, job.done)
    BY <2>1, GotoIs DEF Phase
  <2> QED BY <1>12, <2>1, <2>2 DEF Deactivated, Stepped, Finish
<1> QED BY <1>1, <1>2, <1>5, <1>6, <1>7, <1>8, <1>9, <1>10, <1>11, <1>12
        DEF JobStep, Commit, FallBack, Unlink, Finish

LEMMA JobsKeepHouses ==
  ASSUME SystemInvariant, JobStep
  PROVE  /\ Housed(device) => Housed(device')
         /\ device'.busy = device.busy /\ device'.plain \subseteq device.plain /\ touched' = touched
<1>0. device \in Device /\ device.core \in SUBSET Netns
  BY DeviceParts DEF SystemInvariant, TypeOK
<1>1. CASE UndoEntry \/ DeactivateEntry
  <2>1. Head0 \in Entry
    BY <1>1, UndoEntryIs, DeactivateEntryIs
  <2>2. PICK o \in Deactivate(device, Head0) : Becomes(o)
    BY <1>1 DEF UndoEntry, DeactivateEntry, Head0
  <2>3. Less(device, o.dev, Head0.radio)
    BY <1>0, <2>1, <2>2, DeactivateOK DEF Undone
  <2> QED BY <1>1, <2>2, <2>3 DEF Less, Becomes, UndoEntry, DeactivateEntry, KeepFiles
<1>2. CASE TornDown \/ Deactivated
  <2>1. PICK o \in Return(device, device.core) :
             device' = o.dev \/ device' = KillAllSupplicants(o.dev)
    BY <1>2 DEF TornDown, Deactivated, Becomes, ReturnNamespaces, CoreNamespaces
  <2>2. /\ o.dev \in Device /\ o.dev.busy = device.busy /\ (Housed(device) => Housed(o.dev))
        /\ o.dev.plain \subseteq device.plain
    BY <1>0, <2>1, ReturnOK
  <2>3. /\ device'.netdev = o.dev.netdev /\ device'.core = o.dev.core
        /\ device'.plain = o.dev.plain /\ device'.busy = o.dev.busy
    BY <2>1, <2>2, KillOK
  <2> QED BY <1>2, <2>2, <2>3 DEF Housed, TornDown, Deactivated, KeepFiles
<1>3. CASE ApplyEntry
  <2>1. CASE UNCHANGED <<device, happened>>
    BY <1>3, <2>1 DEF ApplyEntry, KeepFiles
  <2>2. CASE ~UNCHANGED <<device, happened>>
    <3>1. PICK o \in Prepare(device, Head0) : Becomes(o) /\ Found(device, Head0) /\ Head0 \in Entry
      BY <1>3, <2>2, ApplyEntryIs
    <3>2. Prepared(device, Head0, o)
      BY <1>0, <3>1, PrepareOK
    <3> QED BY <1>3, <3>1, <3>2 DEF Prepared, Becomes, ApplyEntry, KeepFiles
  <2> QED BY <2>1, <2>2
<1>4. CASE ClaimEntry
  <2>1. Head0 \in Entry /\ device' \in {Claim(device, Head0), device}
    BY <1>4, ClaimEntryIs
  <2>2. /\ device'.netdev = device.netdev /\ device'.core = device.core
        /\ device'.plain = device.plain /\ device'.busy = device.busy
    <3> DEFINE c == Claim(device, Head0)
    <3>1. /\ c.netdev = device.netdev /\ c.core = device.core
          /\ c.plain = device.plain /\ c.busy = device.busy
      BY <1>0, <2>1, ClaimOK
    <3> HIDE DEF c
    <3>2. device' = c \/ device' = device
      BY <2>1 DEF c
    <3> QED BY <3>1, <3>2
  <2> QED BY <1>4, <2>2 DEF Housed, ClaimEntry, KeepFiles
<1>5. CASE SetupEntry
  <2>1. PICK o \in Setup(device, Head0) : Becomes(o) /\ Head0 \in Entry
    BY <1>5, SetupEntryIs
  <2>2. o \in Setup(device, Head0) /\ Head0 \in Entry
    BY <2>1
  <2>3. o.dev.busy = device.busy /\ o.dev.plain = device.plain /\ (Housed(device) => Housed(o.dev))
    BY <1>0, <2>2, SetupKeeps
  <2> QED BY <1>5, <2>1, <2>3 DEF Becomes, SetupEntry, KeepFiles
<1>6. CASE UNCHANGED <<device, touched>>
  BY <1>6
<1> QED BY <1>1, <1>2, <1>3, <1>4, <1>5, <1>6
        DEF JobStep, Applied, Commit, RolledBack, FallBack, DeactivatedDefault, Unlink, KeepFiles

LEMMA OutsideKeepsHouses ==
  ASSUME SystemInvariant, Housed(device), device.busy \subseteq touched
  PROVE  /\ \A n \in Netns : Reset(n) =>
              /\ Housed(device') /\ device'.busy \subseteq touched'
              /\ device'.plain \subseteq device.plain
         /\ Crash \/ Reboot => Housed(device') /\ device'.busy \subseteq touched'
         /\ \A r \in Radio : Unplug(r) \/ Plug(r) \/ ToolTakes(r) \/ ToolLeaves(r) =>
              Housed(device') /\ device'.busy \subseteq touched'
<1>0. /\ device \in Device /\ device.netdev \in [Radio -> Netdev \cup {Unplugged}]
      /\ Root \notin Netns /\ None \notin Netns
  BY DeviceParts, NamesAssumption DEF SystemInvariant, TypeOK
<1>1. ASSUME NEW n \in Netns, Reset(n)
      PROVE  /\ Housed(device') /\ device'.busy \subseteq touched'
             /\ device'.plain \subseteq device.plain
  <2>1. PICK o \in Return(device, {n}) : device' = o.dev
    BY <1>1 DEF Reset, ResetNamespace
  <2>2. o.dev.busy = device.busy /\ Housed(o.dev) /\ o.dev.plain \subseteq device.plain
    BY <1>0, ReturnOK
  <2> QED BY <1>1, <2>1, <2>2 DEF Reset
<1>2. ASSUME Crash PROVE Housed(device') /\ device'.busy \subseteq touched'
  BY <1>2, CrashIs DEF Crash, SparesTools
<1>3. ASSUME Reboot PROVE Housed(device') /\ device'.busy \subseteq touched'
  <2>1. device' = AtBoot /\ touched' = touched
    BY <1>3 DEF Reboot
  <2>2. device'.busy = {} /\ \A r \in Radio : device'.netdev[r] = Home(r)
    BY <2>1, AtBootOK
  <2>3. \A r \in Radio : Home(r).netns = Root
    BY DEF Home
  <2> QED BY <1>0, <2>2, <2>3 DEF Housed
<1>4. ASSUME NEW r \in Radio, Unplug(r) \/ Plug(r) \/ ToolTakes(r) \/ ToolLeaves(r)
      PROVE  Housed(device') /\ device'.busy \subseteq touched'
  <2>1. device'.core = device.core /\ device'.plain = device.plain
    BY <1>4, OutsideTouches
  <2>2. \A q \in Radio : device'.netdev[q] \in {device.netdev[q], Unplugged, Home(q)}
    BY <1>4, OutsideTouches
  <2>3. Housed(device')
    BY <1>0, <2>1, <2>2 DEF Housed, Unplugged, Home
  <2>4. device'.busy \subseteq touched'
    <3>1. CASE Unplug(r)
      BY <1>0, <3>1 DEF Unplug, Device
    <3>2. CASE Plug(r)
      BY <1>0, <3>2 DEF Plug, Device
    <3>3. CASE ToolTakes(r)
      BY <1>0, <3>3 DEF ToolTakes, Device
    <3>4. CASE ToolLeaves(r)
      BY <1>0, <3>4 DEF ToolLeaves, Device
    <3> QED BY <1>4, <3>1, <3>2, <3>3, <3>4
  <2> QED BY <2>3, <2>4
<1> QED BY <1>1, <1>2, <1>3, <1>4

LEMMA JobsKeepHeads ==
  ASSUME SystemInvariant, ShapeInvariant, JobStep, job'.phase \in {"claim", "setup"},
         happened'["plug"] = 0
  PROVE  /\ Placed(device', Head(job'.todo))
         /\ job'.phase = "setup" => Head(job'.todo).radio \in device'.owned
<1>0. device \in Device /\ NoJob.phase = "none" /\ (job.phase \in {"claim", "setup"} => job \in Job)
  BY NoJobParts, JobIsRunning DEF SystemInvariant, TypeOK
<1>1. CASE ApplyEntry
  <2>1. /\ job' \in Job /\ Head0 \in Entry
        /\ \/ job'.phase \in {"apply", "rollback"}
           \/ /\ Found(device, Head0) /\ job'.phase = "claim" /\ job'.todo = job.todo
              /\ \E o \in Prepare(device, Head0) : Becomes(o) /\ o.status = "prepared"
    BY <1>1, ApplyEntryIs DEF Stepped
  <2>2. PICK o \in Prepare(device, Head0) : Becomes(o) /\ o.status = "prepared"
    BY <2>1
  <2>3. Placed(o.dev, Head0)
    BY <1>0, <2>1, <2>2, PrepareOK DEF Prepared
  <2> QED BY <2>1, <2>2, <2>3 DEF Becomes, Head0
<1>2. CASE ClaimEntry
  <2>1. /\ Head0 \in Entry /\ device' = Claim(device, Head0) /\ UNCHANGED happened
        /\ Stepped(job, job', "setup", job.ok, job.todo, job.done)
    BY <1>2, ClaimEntryIs DEF Stepped
  <2>2. Placed(device, Head0)
    BY <1>2, <2>1 DEF ShapeInvariant, ClaimEntry, Head0
  <2>3. device'.netdev = device.netdev /\ Head0.radio \in device'.owned
    BY <1>0, <2>1, <2>2, ClaimOK
  <2> QED BY <2>1, <2>2, <2>3 DEF Stepped, Placed, Head0
<1>3. CASE SetupEntry
  BY <1>3, SetupEntryIs DEF Stepped
<1>4. CASE UndoEntry
  BY <1>4, UndoEntryIs DEF UndoEntry, Stepped
<1>5. CASE TornDown
  BY <1>5, TornDownIs DEF Stepped
<1>6. CASE Applied
  BY <1>6, AppliedIs DEF Stepped
<1>7. CASE RolledBack
  BY <1>7, GotoIs DEF RolledBack, Stepped, Phase
<1>8. CASE DeactivateEntry
  BY <1>8, DeactivateEntryIs DEF Stepped
<1>9. CASE DeactivatedDefault
  BY <1>9, GotoIs DEF DeactivatedDefault, Stepped, Phase
<1>10. CASE Deactivated
  <2>1. Goto("unlink") => job'.phase = "unlink"
    BY <1>10, GotoIs DEF Deactivated, Stepped, Phase
  <2> QED BY <1>0, <1>10, <2>1 DEF Deactivated, Finish
<1> QED BY <1>0, <1>1, <1>2, <1>3, <1>4, <1>5, <1>6, <1>7, <1>8, <1>9, <1>10
        DEF JobStep, Commit, FallBack, Unlink, Finish

(* What goes on outside leaves the radio a job is at in its place *)
LEMMA OutsideKeepsHeads ==
  ASSUME SystemInvariant, ShapeInvariant, job.phase \in {"claim", "setup"}, happened'["plug"] = 0,
         NEW q \in Radio, Unplug(q) \/ Plug(q) \/ ToolTakes(q) \/ ToolLeaves(q)
  PROVE  /\ Placed(device', Head(job.todo))
         /\ job.phase = "setup" => Head(job.todo).radio \in device'.owned
<1>1. job \in Job /\ Head(job.todo) \in Entry
  BY JobIsRunning, EntriesHaveParts, JobParts DEF SystemInvariant, KeepsGuards
<1>2. Head(job.todo).radio \in Radio /\ Head(job.todo).netns \in Place
  BY <1>1 DEF Entry
<1>3. ~Unplug(q) /\ happened["plug"] = 0
  <2>1. Unplug(q) => Counted("plug", 1)
    BY SpendOK DEF Unplug, SystemInvariant, TypeOK, Disturbance
  <2>2. happened["plug"] \in Nat
    BY DEF SystemInvariant, TypeOK, Disturbance
  <2>3. ~Unplug(q)
    BY <2>1, <2>2 DEF Counted
  <2>4. ToolTakes(q) => Counted("tool", 1)
    BY SpendOK DEF ToolTakes, SystemInvariant, TypeOK, Disturbance
  <2> QED BY <2>3, <2>4 DEF Counted, Plug, ToolLeaves, Disturbance
<1>4. Placed(device, Head(job.todo)) /\ (job.phase = "setup" => Head(job.todo).radio \in device.owned)
  BY <1>3 DEF ShapeInvariant
<1>5. device.netdev[Head(job.todo).radio] # Unplugged
  BY <1>2, <1>4, NamesAssumption DEF Placed, Unplugged, Place
<1>6. device'.netdev[Head(job.todo).radio] = device.netdev[Head(job.todo).radio]
      /\ device'.owned = device.owned
  BY <1>2, <1>3, <1>5, OutsideTouches
<1> QED BY <1>4, <1>6 DEF Placed

LEMMA LapsesKeepShape ==
  ASSUME SystemInvariant, ShapeInvariant, Lapse
  PROVE  /\ Housed(device') /\ device'.busy \subseteq touched'
         /\ job'.phase \notin {"claim", "setup"}
         /\ job' # NoJob => JobShape(job') /\ (up' \/ (job'.op = "activate" /\ job'.override))
<1> USE DEF JobShape, Applying
<1>1. Housed(device') /\ device'.busy \subseteq touched'
  BY LapseIs DEF SparesTools, ShapeInvariant
<1>2. CASE job' = NoJob
  BY <1>1, <1>2, NoJobParts
<1>3. CASE job' # NoJob
  <2>1. /\ job \in Job /\ UNCHANGED up /\ job.todo \in Seq(Entry) /\ job.done \in Seq(Entry)
        /\ JobShape(job) /\ (up \/ (job.op = "activate" /\ job.override))
        /\ \/ /\ job.phase \in {"teardown", "rollback", "entries"} /\ job.todo # <<>>
              /\ Stepped(job, job', job.phase, job.ok, Rest, job.done)
           \/ job.phase = "entries" /\ Stepped(job, job', "record", FALSE, <<>>, job.done)
           \/ /\ job.phase \in {"apply", "setup"}
              /\ Stepped(job, job', "rollback", FALSE, job.done, job.done)
           \/ /\ job.phase = "apply" /\ job.todo # <<>>
              /\ Stepped(job, job', "apply", job.ok, Rest, Append(job.done, Head0))
           \/ job.phase = "teardown" /\ Stepped(job, job', "fallback", job.ok, job.todo, job.done)
           \/ job.phase = "returned" /\ Stepped(job, job', "returned", FALSE, job.todo, job.done)
    <3>1. job \in Job
      BY <1>3, LapseIs
    <3>2. job # NoJob
      BY <3>1, NoJobParts, JobParts
    <3> QED BY <1>3, <3>1, <3>2, LapseIs, JobParts DEF ShapeInvariant
  <2>2. CASE /\ job.phase \in {"teardown", "rollback", "entries"} /\ job.todo # <<>>
             /\ Stepped(job, job', job.phase, job.ok, Rest, job.done)
    <3>1. OncePerRadio(Rest) /\ (Apart(job.todo, job.done) => Apart(Rest, job.done))
      BY <2>1, <2>2, HeadAndTail DEF Rest, Apart
    <3> QED BY <1>1, <2>1, <2>2, <3>1 DEF Stepped
  <2>3. CASE /\ job.phase = "apply" /\ job.todo # <<>>
             /\ Stepped(job, job', "apply", job.ok, Rest, Append(job.done, Head0))
    <3>1. /\ OncePerRadio(Rest) /\ Apart(Rest, Append(job.done, Head0))
          /\ OncePerRadio(Append(job.done, Head0))
          /\ Members(job.todo) = {Head0} \cup Members(Rest)
          /\ Members(Append(job.done, Head0)) = Members(job.done) \cup {Head0}
      BY <2>1, <2>3, Moved DEF Rest, Head0
    <3> QED BY <1>1, <2>1, <2>3, <3>1 DEF Stepped
  <2>4. CASE job.phase = "entries" /\ Stepped(job, job', "record", FALSE, <<>>, job.done)
    <3>1. OncePerRadio(<<>>) /\ Apart(<<>>, job.done)
      BY NoMembers DEF Apart
    <3> QED BY <1>1, <2>1, <2>4, <3>1 DEF Stepped
  <2>5. CASE \/ /\ job.phase \in {"apply", "setup"}
                /\ Stepped(job, job', "rollback", FALSE, job.done, job.done)
             \/ job.phase = "teardown" /\ Stepped(job, job', "fallback", job.ok, job.todo, job.done)
             \/ job.phase = "returned" /\ Stepped(job, job', "returned", FALSE, job.todo, job.done)
    BY <1>1, <2>1, <2>5 DEF Stepped
  <2> QED BY <2>1, <2>2, <2>3, <2>4, <2>5
<1> QED BY <1>2, <1>3

LEMMA ShapesAreKept ==
  ASSUME SystemInvariant, ShapeInvariant, [Next]_vars
  PROVE  ShapeInvariant'
<1>0. /\ NoJob.phase = "none" /\ Housed(device) /\ device.busy \subseteq touched
      /\ (job # NoJob => job \in Job) /\ ~("none" \in {"claim", "setup"})
  BY NoJobParts DEF ShapeInvariant, SystemInvariant, TypeOK
<1>1. /\ happened'["lapse"] = 0 => happened["lapse"] = 0 /\ ~Lapse
      /\ happened'["crash"] = 0 => happened["crash"] = 0 /\ ~Crash /\ ~Reboot
  BY NothingIsCut
<1>2. ASSUME device'.plain \subseteq device.plain
      PROVE  happened'["lapse"] = 0 /\ happened'["crash"] = 0 => device'.plain = {}
  BY <1>1, <1>2 DEF ShapeInvariant
<1>3. ASSUME NEW p \in Profile, NEW override \in BOOLEAN, BeginActivate(p, override), UNCHANGED up,
             up \/ override
      PROVE  ShapeInvariant'
  <2>1. job' \in Job /\ job'.op = "activate" /\ job'.phase = "teardown" /\ job'.todo = EntriesOf(Active)
        /\ job'.done = <<>> /\ job'.override = override /\ UNCHANGED <<device, touched>>
    BY <1>3, BeginsAJob DEF BeginActivate, Start
  <2>2. JobShape(job')
    BY <2>1, ActiveIsUnique, FreshLists DEF JobShape, Applying
  <2> QED BY <1>0, <1>3, <1>2, <2>1, <2>2 DEF ShapeInvariant
<1>4. ASSUME NEW p \in Profile, BeginDeactivate(p) \/ BeginForcedDelete(p) PROVE ShapeInvariant'
  <2>1. job' \in Job /\ job'.op \in {"deactivate", "delete"} /\ job'.phase = "entries"
        /\ job'.todo = EntriesOf(p) /\ job'.done = <<>> /\ UNCHANGED <<device, touched>> /\ up'
    BY <1>4, BeginsAJob DEF BeginDeactivate, BeginForcedDelete, Start
  <2>2. JobShape(job')
    BY <2>1, ActiveIsUnique, FreshLists DEF JobShape, Applying
  <2> QED BY <1>0, <1>2, <2>1, <2>2 DEF ShapeInvariant
<1>5. ASSUME BeginRevertAll PROVE ShapeInvariant'
  <2>1. job' \in Job /\ job'.op = "revert" /\ job'.phase = "teardown"
        /\ job'.todo = EntriesOf(Active) /\ job'.done = <<>> /\ UNCHANGED <<device, touched>> /\ up'
    BY <1>5, BeginsAJob DEF BeginRevertAll, Start
  <2>2. JobShape(job')
    BY <2>1, ActiveIsUnique, FreshLists DEF JobShape, Applying
  <2> QED BY <1>0, <1>2, <2>1, <2>2 DEF ShapeInvariant
<1>6. CASE JobStep
  <2>1. /\ Housed(device') /\ device'.busy \subseteq touched'
        /\ device'.plain \subseteq device.plain
    BY <1>0, <1>6, JobsKeepHouses
  <2>2. job # NoJob
    BY <1>0, <1>6 DEF JobStep, UndoEntry, TornDown, ApplyEntry, ClaimEntry, SetupEntry, Applied, Commit,
                      RolledBack, FallBack, DeactivateEntry, DeactivatedDefault, Deactivated, Unlink
  <2>3. JobShape(job) /\ (up \/ (job.op = "activate" /\ job.override))
    BY <2>2 DEF ShapeInvariant
  <2>4. up' = up \/ job' = NoJob
    BY <1>6 DEF JobStep, UndoEntry, TornDown, ApplyEntry, ClaimEntry, SetupEntry, Applied, Commit, Finish,
                RolledBack, FallBack, DeactivateEntry, DeactivatedDefault, Deactivated, Unlink
  <2>5. job' # NoJob => JobShape(job') /\ (up' \/ (job'.op = "activate" /\ job'.override))
    BY <1>6, <2>2, <2>3, <2>4, JobsKeepShape
  <2>6. job'.phase \in {"claim", "setup"} /\ happened'["plug"] = 0 =>
          /\ Placed(device', Head(job'.todo))
          /\ job'.phase = "setup" => Head(job'.todo).radio \in device'.owned
    BY <1>6, JobsKeepHeads
  <2> QED BY <1>2, <2>1, <2>5, <2>6 DEF ShapeInvariant
<1>7. ASSUME Housed(device') /\ device'.busy \subseteq touched', job' = NoJob,
             Crash \/ Reboot \/ device'.plain \subseteq device.plain
      PROVE  ShapeInvariant'
  BY <1>0, <1>7, <1>1, <1>2 DEF ShapeInvariant
<1>8. ASSUME NEW r \in Radio, Unplug(r) \/ Plug(r) \/ ToolTakes(r) \/ ToolLeaves(r)
      PROVE  ShapeInvariant'
  <2>1. Housed(device') /\ device'.busy \subseteq touched' /\ UNCHANGED <<job, up>>
    BY <1>0, <1>8, OutsideKeepsHouses DEF Unplug, Plug, ToolTakes, ToolLeaves
  <2>2. job.phase \in {"claim", "setup"} /\ happened'["plug"] = 0 =>
          /\ Placed(device', Head(job.todo))
          /\ job.phase = "setup" => Head(job.todo).radio \in device'.owned
    BY <1>8, OutsideKeepsHeads
  <2>3. device'.plain = device.plain
    BY <1>8, OutsideTouches
  <2> QED BY <1>2, <2>1, <2>2, <2>3 DEF ShapeInvariant
<1>9. ASSUME NEW n \in Netns, Reset(n) PROVE ShapeInvariant'
  <2>1. /\ Housed(device') /\ device'.busy \subseteq touched' /\ job' = NoJob
        /\ device'.plain \subseteq device.plain
    BY <1>0, <1>9, OutsideKeepsHouses DEF Reset, Resettable
  <2> QED BY <1>7, <2>1
<1>10. ASSUME Crash \/ Reboot PROVE ShapeInvariant'
  <2>1. Housed(device') /\ device'.busy \subseteq touched' /\ job' = NoJob
    BY <1>0, <1>10, OutsideKeepsHouses DEF Crash, Reboot
  <2> QED BY <1>7, <1>10, <2>1
<1>11. ASSUME UNCHANGED <<device, job, up, touched>>, happened'["plug"] = happened["plug"]
      PROVE  ShapeInvariant'
  BY <1>11, <1>2 DEF ShapeInvariant, JobShape
<1>12. ASSUME NEW p \in Profile, NEW v \in Version,
              ActivateRefused(p) \/ Delete(p) \/ Add(p, v) \/ BeginEdit(p, v) \/ WriteEdit \/ Break(p)
       PROVE  UNCHANGED <<device, job, up, touched>> /\ happened'["plug"] = happened["plug"]
  <2>1. UNCHANGED happened \/ Counted("edit", 1) \/ Counted("break", 1)
    BY <1>12, SpendOK DEF ActivateRefused, Delete, Add, BeginEdit, WriteEdit, Break,
                          SystemInvariant, TypeOK, Disturbance
  <2>2. UNCHANGED <<device, job, up, touched>>
    BY <1>12 DEF ActivateRefused, Delete, Add, BeginEdit, WriteEdit, Break
  <2> QED BY <2>1, <2>2 DEF Counted, Disturbance
<1>13. CASE Boot
  BY <1>3, <1>13, BootKeeps DEF Boot
<1>14. ASSUME NEW p \in Profile, NEW override \in BOOLEAN, Activate(p, override) PROVE ShapeInvariant'
  BY <1>3, <1>14 DEF Activate
<1>15. CASE Lapse
  BY <1>1, <1>15, LapsesKeepShape DEF ShapeInvariant
<1> QED BY <1>4, <1>5, <1>6, <1>8, <1>9, <1>10, <1>11, <1>12, <1>13, <1>14, <1>15, ProfileAssumption
        DEF Next, vars

-------------------------------------------------------------------------------
(* Without edits, damaged files and deactivations of other profiles the file  *)
(* of the current profile is what was applied, and so is that of a job; only  *)
(* an activation that has failed is rolled back.                              *)

Undisturbed == happened["edit"] = 0 /\ happened["break"] = 0 /\ happened["stray"] = 0

RecordInvariant ==
  /\ editing = NoEdit
  /\ files[current] = applied /\ ~InvalidEntries(applied, current)
  /\ job # NoJob => files[job.profile] = job.cfg
  /\ job.op = "activate" => ~InvalidEntries(job.cfg, job.profile)
  /\ job.op = "activate" /\ job.phase = "teardown" => job.ok
  /\ job.op = "activate" /\ job.phase \in {"rollback", "fallback"} => ~job.ok

LEMMA NothingDisturbs ==
  ASSUME SystemInvariant, [Next]_vars, Undisturbed'
  PROVE  /\ Undisturbed
         /\ \A k \in {"edit", "break", "stray"} : ~Spend(k, 1)
<1>1. Undisturbed
  BY HistoryGrows DEF Undisturbed, Disturbance
<1>2. ASSUME NEW k \in {"edit", "break", "stray"}, Spend(k, 1) PROVE FALSE
  <2>1. Counted(k, 1)
    BY <1>2, SpendOK DEF SystemInvariant, TypeOK, Disturbance
  <2> QED BY <1>1, <2>1 DEF Counted, Undisturbed
<1> QED BY <1>1, <1>2

LEMMA DefaultIsValid == \A v : ~InvalidEntries(v, Default)
BY DEF InvalidEntries

LEMMA JobsKeepRecord ==
  ASSUME SystemInvariant, ShapeInvariant, FilesInvariant, RecordInvariant, JobStep
  PROVE  RecordInvariant'
<1> USE DEF RecordInvariant
<1>0. NoJob.op = "none" /\ NoJob.phase = "none" /\ Default \in Profile
  BY NoJobParts, ProfileAssumption
<1>1. CASE UndoEntry
  BY <1>1, UndoEntryIs, JobParts DEF UndoEntry, KeepFiles, Stepped
<1>2. CASE TornDown
  BY <1>2, TornDownIs, JobParts DEF TornDown, KeepFiles, Stepped
<1>3. CASE ApplyEntry
  <2>1. /\ job \in Job /\ job' \in Job /\ job'.profile = job.profile /\ job'.cfg = job.cfg
        /\ job'.op = job.op
        /\ job'.phase \in {"apply", "claim"} \/ (job'.phase = "rollback" /\ ~job'.ok)
    BY <1>3, ApplyEntryIs DEF Stepped
  <2> QED BY <1>0, <1>3, <2>1, JobParts DEF ApplyEntry, KeepFiles
<1>4. CASE ClaimEntry
  <2>1. /\ job \in Job /\ job' \in Job /\ job'.profile = job.profile /\ job'.cfg = job.cfg
        /\ job'.op = job.op
        /\ job'.phase = "setup" \/ (job'.phase = "rollback" /\ ~job'.ok)
    BY <1>4, ClaimEntryIs DEF Stepped
  <2> QED BY <1>0, <1>4, <2>1, JobParts DEF ClaimEntry, KeepFiles
<1>5. CASE SetupEntry
  <2>1. /\ job \in Job /\ job' \in Job /\ job'.profile = job.profile /\ job'.cfg = job.cfg
        /\ job'.op = job.op
        /\ job'.phase = "apply" \/ (job'.phase = "rollback" /\ ~job'.ok)
    BY <1>5, SetupEntryIs DEF Stepped
  <2> QED BY <1>0, <1>5, <2>1, JobParts DEF SetupEntry, KeepFiles
<1>6. CASE Applied
  BY <1>6, AppliedIs, JobParts DEF Applied, KeepFiles, Stepped
<1>7. CASE Commit
  <2>1. job # NoJob /\ job.phase = "commit"
    BY <1>0, <1>7 DEF Commit
  <2>2. job.op = "activate"
    BY <2>1 DEF ShapeInvariant, JobShape, Applying
  <2> QED BY <1>0, <1>7, <2>1, <2>2 DEF Commit, Record, Finish, KeepFiles
<1>8. CASE RolledBack
  <2>1. job \in Job /\ Stepped(job, job', "fallback", job.ok, job.todo, job.done)
    BY <1>8, GotoIs DEF RolledBack, Phase
  <2> QED BY <1>0, <1>8, <2>1, JobParts DEF RolledBack, KeepFiles, Stepped
<1>9. CASE FallBack
  BY <1>0, <1>9, DefaultIsValid DEF FallBack, RecordDefault, Record, Finish, KeepFiles
<1>10. CASE DeactivateEntry
  <2>1. job \in Job /\ job' \in Job /\ job'.profile = job.profile /\ job'.cfg = job.cfg
        /\ job'.op = job.op /\ job'.phase \in {"entries", "record"}
    BY <1>10, DeactivateEntryIs DEF Stepped
  <2> QED BY <1>0, <1>10, <2>1, JobParts DEF DeactivateEntry, KeepFiles
<1>11. CASE DeactivatedDefault
  <2>1. job \in Job /\ Stepped(job, job', "returned", job.ok, job.todo, job.done)
    BY <1>11, GotoIs DEF DeactivatedDefault, Phase
  <2> QED BY <1>0, <1>11, <2>1, JobParts, DefaultIsValid
          DEF DeactivatedDefault, RecordDefault, Record, KeepFiles, Stepped
<1>12. CASE Deactivated
  <2>1. job.phase = "returned" /\ job \in Job
    BY <1>12, JobIsRunning DEF Deactivated, SystemInvariant
  <2>2. CASE Goto("unlink")
    <3>1. Stepped(job, job', "unlink", job.ok, job.todo, job.done)
      BY <2>1, <2>2, GotoIs DEF Phase
    <3> QED BY <1>0, <1>12, <2>1, <3>1, JobParts DEF Deactivated, KeepFiles, Stepped
  <2>3. CASE Finish
    BY <1>0, <1>12, <2>3 DEF Deactivated, KeepFiles, Finish
  <2> QED BY <1>12, <2>2, <2>3 DEF Deactivated
<1>13. CASE Unlink
  <2>1. job \in Job /\ job.profile # Default /\ current = Default
    BY <1>13, JobIsRunning DEF Unlink, SystemInvariant, KeepsGuards, FilesInvariant
  <2>2. files'[Default] = files[Default]
    BY <1>0, <1>13, <2>1 DEF Unlink, SystemInvariant, TypeOK
  <2> QED BY <1>0, <1>13, <2>1, <2>2 DEF Unlink, Finish
<1> QED BY <1>1, <1>2, <1>3, <1>4, <1>5, <1>6, <1>7, <1>8, <1>9, <1>10, <1>11, <1>12, <1>13
        DEF JobStep

LEMMA LapsesKeepRecord ==
  ASSUME SystemInvariant, RecordInvariant, Lapse
  PROVE  RecordInvariant'
<1>1. NoJob.op = "none" /\ NoJob.phase = "none" /\ UNCHANGED <<files, current, applied, editing>>
  BY NoJobParts, LapseIs
<1>2. CASE job' = NoJob
  BY <1>1, <1>2 DEF RecordInvariant
<1>3. CASE job' # NoJob
  <2>1. /\ job \in Job /\ job' \in Job /\ job'.profile = job.profile /\ job'.cfg = job.cfg
        /\ job'.op = job.op
        /\ \/ job'.phase = job.phase /\ job'.ok = job.ok
           \/ job'.phase \in {"record", "returned"}
           \/ job'.phase \in {"rollback", "fallback"} /\ ~job'.ok
    BY <1>3, LapseIs DEF Stepped
  <2> QED BY <1>1, <1>3, <2>1, JobParts DEF RecordInvariant
<1> QED BY <1>2, <1>3

LEMMA RecordsAreKept ==
  ASSUME SystemInvariant, ShapeInvariant, FilesInvariant, RecordInvariant, [Next]_vars, Undisturbed'
  PROVE  RecordInvariant'
<1> USE DEF RecordInvariant
<1>0. /\ NoJob.op = "none" /\ NoJob.phase = "none" /\ Default \in Profile /\ Active = current
      /\ Readable(current) /\ current \in Profile
      /\ files \in [Profile -> Version \cup {Malformed, None}]
      /\ Version \cap {Malformed, None} = {} /\ \A p \in Profile : files[p] \in Version \cup {None}
  BY NoJobParts, ProfileAssumption DEF SystemInvariant, TypeOK, FilesInvariant, Active, Readable
<1>1. ASSUME NEW p \in Profile, NEW override \in BOOLEAN, BeginActivate(p, override)
      PROVE  RecordInvariant'
  <2>1. /\ job' \in Job /\ job'.op = "activate" /\ job'.phase = "teardown" /\ job'.profile = p
        /\ job'.cfg = files[p] /\ job'.ok = ~InvalidEntries(files[p], p)
    BY <1>1, BeginsAJob DEF BeginActivate, Start
  <2>2. UNCHANGED <<current, applied, files, editing>>
    BY <1>0, <1>1 DEF BeginActivate, RepairCurrent
  <2>3. ~InvalidEntries(files[p], p)
    BY <1>0, <1>1 DEF BeginActivate
  <2> QED BY <2>1, <2>2, <2>3
<1>2. ASSUME NEW p \in Profile, BeginDeactivate(p) \/ BeginForcedDelete(p) PROVE RecordInvariant'
  <2>1. /\ job' \in Job /\ job'.op \in {"deactivate", "delete"} /\ job'.profile = p
        /\ job'.cfg = files[p] /\ UNCHANGED <<current, applied, files, editing>>
    BY <1>2, BeginsAJob DEF BeginDeactivate, BeginForcedDelete
  <2> QED BY <2>1
<1>3. ASSUME BeginRevertAll PROVE RecordInvariant'
  <2>1. /\ job' \in Job /\ job'.op = "revert" /\ job'.profile = Active
        /\ job'.cfg = files[Active] /\ UNCHANGED <<current, applied, files, editing>>
    BY <1>3, BeginsAJob DEF BeginRevertAll
  <2> QED BY <2>1
<1>4. CASE JobStep
  BY <1>4, JobsKeepRecord
<1>5. ASSUME NEW p \in Profile, ActivateRefused(p) PROVE FALSE
  BY <1>0, <1>5 DEF ActivateRefused
<1>6. ASSUME NEW p \in Profile, Delete(p) PROVE RecordInvariant'
  BY <1>0, <1>6 DEF Delete, Readable
<1>7. ASSUME NEW p \in Profile, NEW v \in Version, Add(p, v) PROVE RecordInvariant'
  <2>1. p # current /\ (job # NoJob => job \in Job /\ p # job.profile /\ job.cfg \in Version)
    BY <1>0, <1>7, JobParts DEF Add, Readable, SystemInvariant, TypeOK
  <2> QED BY <1>0, <1>7, <2>1 DEF Add
<1>8. ASSUME NEW p \in Profile, NEW v \in Version, BeginEdit(p, v) PROVE FALSE
  BY <1>8, NothingDisturbs DEF BeginEdit
<1>9. ASSUME WriteEdit PROVE FALSE
  BY <1>9 DEF WriteEdit
<1>10. ASSUME Crash \/ Reboot PROVE RecordInvariant'
  BY <1>0, <1>10 DEF Crash, Reboot
<1>11. ASSUME UNCHANGED <<files, current, applied, job, editing>> PROVE RecordInvariant'
  BY <1>11 DEF InvalidEntries
<1>12. ASSUME NEW n \in Netns, Reset(n) PROVE UNCHANGED <<files, current, applied, job, editing>>
  BY <1>12 DEF Reset, Resettable
<1>13. ASSUME NEW r \in Radio, Unplug(r) \/ Plug(r) \/ ToolTakes(r) \/ ToolLeaves(r)
       PROVE  UNCHANGED <<files, current, applied, job, editing>>
  BY <1>13 DEF Unplug, Plug, ToolTakes, ToolLeaves
<1>14. CASE Boot
  BY <1>1, <1>14, BootKeeps
<1>15. ASSUME NEW p \in Profile, Break(p) PROVE FALSE
  BY <1>15, NothingDisturbs DEF Break
<1> QED BY <1>1, <1>2, <1>3, <1>4, <1>5, <1>6, <1>7, <1>8, <1>9, <1>10, <1>11, <1>12, <1>13, <1>14,
           <1>15, LapsesKeepRecord DEF Next, Activate, vars

-------------------------------------------------------------------------------
(* What entries keep of the device.                                        *)

(* Every netdev Core owns is where one of the entries F wants it *)
Owners(d, F) == \A r \in d.owned : \E e \in F : e.radio = r /\ Placed(d, e)

(* Every supplicant is that of one of the entries F, in its place, or in a   *)
(* namespace that lacks Core's marker                                        *)
Supplicants(d, F) ==
  \A s \in d.supplicants : s[1] \notin d.plain =>
    \E e \in F : /\ e.secure /\ s = <<e.netns, e.name>> /\ Placed(d, e)
                 /\ e.netns = Root => e.radio \in d.owned

(* Radio r is at home, or where one of the entries F wants it, and owned *)
Settled(d, F, r) ==
  d.netdev[r] = Home(r) \/ (r \in d.owned /\ \E e \in F : e.radio = r /\ Placed(d, e))

(* Entry e is in force in full *)
IsSetUp(d, e) ==
  /\ Placed(d, e) /\ e.radio \in d.owned
  /\ e.secure => <<e.netns, e.name>> \in d.supplicants

Without(F, e) == \A f \in F : f \in Entry /\ f.radio # e.radio

LEMMA EmptyHands ==
  ASSUME NEW d, NEW c, NEW G
  PROVE  /\ c.owned \subseteq d.owned /\ Owners(d, {}) => Owners(c, G)
         /\ c.supplicants \subseteq {s \in d.supplicants : s[1] \in d.plain => s[1] \in c.plain}
            /\ Supplicants(d, {}) => Supplicants(c, G)
         /\ Owners(d, {}) => d.owned = {}
         /\ d.plain = {} /\ Supplicants(d, {}) => d.supplicants = {}
BY DEF Owners, Supplicants

LEMMA PlacedIsManaged ==
  ASSUME NEW d \in Device, NEW e \in Entry, Placed(d, e), Housed(d), e.netns \notin d.plain,
         e.netns = Root => e.radio \in d.owned
  PROVE  Found(d, e) /\ CoreManaged(d, e)
<1>1. d.netdev[e.radio].netns = e.netns /\ d.netdev[e.radio].name = e.name
  BY DEF Placed
<1>2. e.radio \in Radio /\ e.netns \in Netns \cup {Root}
  BY DEF Entry, Place
<1>3. Found(d, e)
  BY <1>1 DEF Found
<1> QED BY <1>1, <1>2, <1>3 DEF CoreManaged, CoreNamespaces, Housed

LEMMA UndoingKeeps ==
  ASSUME NEW d \in Device, NEW e \in Entry, NEW F, Without(F, e), Housed(d), NEW o \in Deactivate(d, e)
  PROVE  /\ d.plain = {} /\ Owners(d, F \cup {e}) => Owners(o.dev, F)
         /\ Supplicants(d, F \cup {e}) => Supplicants(o.dev, F)
         /\ d.plain = {} /\ o.cost = 0 =>
              \A r \in Radio : (r = e.radio => r \notin d.busy) /\ Settled(d, F \cup {e}, r) =>
              Settled(o.dev, F, r)
<1> DEFINE c == o.dev
<1>1. /\ Less(d, c, e.radio)
      /\ o.cost = 0 => c.netdev[e.radio] \in {d.netdev[e.radio], Home(e.radio)}
      /\ Found(d, e) /\ CoreManaged(d, e) => e.radio \notin c.owned
      /\ Found(d, e) /\ CoreManaged(d, e) /\ ~HandsOver(d, e) /\ o.cost = 0 =>
           c.netdev[e.radio] = Home(e.radio)
      /\ e.secure /\ CoreManaged(d, e) => <<e.netns, e.name>> \notin c.supplicants
  BY DeactivateOK DEF Undone
<1> HIDE DEF c
<1>2. \A f \in F : f.radio \in Radio /\ f.radio # e.radio
  BY DEF Without, Entry
<1>3. \A f \in F : Placed(d, f) => Placed(c, f)
  BY <1>1, <1>2 DEF Less, Placed
<1>4. Placed(d, e) /\ e.netns \notin d.plain /\ (e.netns = Root => e.radio \in d.owned) =>
        Found(d, e) /\ CoreManaged(d, e)
  BY PlacedIsManaged
<1>5. ASSUME d.plain = {}, Owners(d, F \cup {e}), NEW r \in c.owned
      PROVE  \E f \in F : f.radio = r /\ Placed(c, f)
  <2>1. r \in d.owned
    BY <1>1 DEF Less
  <2>2. PICK f \in F \cup {e} : f.radio = r /\ Placed(d, f)
    BY <1>5, <2>1 DEF Owners
  <2>3. f # e
    BY <1>1, <1>4, <1>5, <2>1, <2>2
  <2> QED BY <1>3, <2>2, <2>3
<1>6. ASSUME Supplicants(d, F \cup {e}), NEW s \in c.supplicants, s[1] \notin c.plain
      PROVE  \E f \in F : /\ f.secure /\ s = <<f.netns, f.name>> /\ Placed(c, f)
                          /\ f.netns = Root => f.radio \in c.owned
  <2>1. s \in d.supplicants /\ s[1] \notin d.plain
    BY <1>1, <1>6 DEF Less
  <2>2. PICK f \in F \cup {e} : /\ f.secure /\ s = <<f.netns, f.name>> /\ Placed(d, f)
                                /\ f.netns = Root => f.radio \in d.owned
    BY <1>6, <2>1 DEF Supplicants
  <2>3. f # e
    <3>1. s[1] = f.netns
      BY <2>2
    <3> QED BY <1>1, <1>4, <1>6, <2>1, <2>2, <3>1
  <2>4. f \in F /\ f.radio # e.radio
    BY <1>2, <2>2, <2>3
  <2> QED BY <1>1, <1>3, <2>2, <2>4 DEF Less
<1>7. ASSUME d.plain = {}, o.cost = 0, NEW r \in Radio, r = e.radio => r \notin d.busy,
             Settled(d, F \cup {e}, r)
      PROVE  Settled(c, F, r)
  <2>1. CASE r # e.radio
    <3>1. c.netdev[r] = d.netdev[r] /\ (r \in d.owned => r \in c.owned)
      BY <1>1, <2>1 DEF Less
    <3> QED BY <1>3, <1>7, <2>1, <3>1 DEF Settled
  <2>2. CASE r = e.radio /\ d.netdev[r] = Home(r)
    BY <1>1, <1>7, <2>2 DEF Settled
  <2>3. CASE r = e.radio /\ d.netdev[r] # Home(r)
    <3>1. Placed(d, e) /\ r \in d.owned
      BY <1>2, <1>7, <2>3 DEF Settled
    <3>2. Found(d, e) /\ CoreManaged(d, e) /\ ~HandsOver(d, e)
      BY <1>4, <1>7, <2>3, <3>1 DEF HandsOver, InUse
    <3> QED BY <1>1, <1>7, <2>3, <3>2 DEF Settled
  <2> QED BY <2>1, <2>2, <2>3
<1> QED BY <1>5, <1>6, <1>7 DEF Owners, Supplicants, c

LEMMA PreparingKeeps ==
  ASSUME NEW d \in Device, NEW e \in Entry, NEW F, Without(F, e), Found(d, e), NEW o \in Prepare(d, e)
  PROVE  /\ Owners(d, F) => Owners(o.dev, F)
         /\ Supplicants(d, F) => Supplicants(o.dev, F)
         /\ \A r \in Radio : r # e.radio /\ Settled(d, F, r) => Settled(o.dev, F, r)
         /\ \A f \in Entry : f.radio # e.radio /\ IsSetUp(d, f) => IsSetUp(o.dev, f)
<1> DEFINE c == o.dev
<1>1. /\ c.plain = d.plain /\ c.supplicants = d.supplicants
      /\ c.owned \subseteq d.owned /\ d.owned \ {e.radio} \subseteq c.owned
      /\ \A q \in Radio \ {e.radio} : c.netdev[q] = d.netdev[q]
      /\ e.radio \in c.owned => c.netdev[e.radio] = d.netdev[e.radio]
  BY PrepareOK DEF Prepared
<1> HIDE DEF c
<1>2. \A f \in F : f.radio \in Radio /\ f.radio # e.radio
  BY DEF Without, Entry
<1>3. \A f \in F : Placed(d, f) => Placed(c, f)
  BY <1>1, <1>2 DEF Placed
<1>4. \A f \in Entry : f.radio # e.radio /\ IsSetUp(d, f) => IsSetUp(c, f)
  BY <1>1 DEF IsSetUp, Placed, Entry
<1>5. \A r \in Radio : r # e.radio /\ Settled(d, F, r) => Settled(c, F, r)
  BY <1>1, <1>3 DEF Settled
<1>6. Owners(d, F) => Owners(c, F)
  BY <1>1, <1>3 DEF Owners
<1>7. Supplicants(d, F) => Supplicants(c, F)
  BY <1>1, <1>2, <1>3 DEF Supplicants
<1> QED BY <1>4, <1>5, <1>6, <1>7 DEF c

LEMMA ClaimingKeeps ==
  ASSUME NEW d \in Device, NEW e \in Entry, NEW F
  PROVE  LET c == Claim(d, e) IN
         /\ Owners(d, F) => Owners(c, F \cup {e})
         /\ Supplicants(d, F) => Supplicants(c, F \cup {e})
         /\ \A r \in Radio : Settled(d, F, r) => Settled(c, F \cup {e}, r)
         /\ Placed(d, e) => Settled(c, F \cup {e}, e.radio)
         /\ \A f \in Entry : IsSetUp(d, f) => IsSetUp(c, f)
<1> DEFINE c == Claim(d, e)
<1>1. /\ c.netdev = d.netdev /\ c.supplicants = d.supplicants /\ c.plain = d.plain
      /\ c.owned = IF Placed(d, e) THEN d.owned \cup {e.radio} ELSE d.owned
  BY ClaimOK
<1> HIDE DEF c
<1>2. \A f : Placed(d, f) <=> Placed(c, f)
  BY <1>1 DEF Placed
<1>3. Owners(d, F) => Owners(c, F \cup {e})
  BY <1>1, <1>2 DEF Owners
<1>4. Supplicants(d, F) => Supplicants(c, F \cup {e})
  BY <1>1, <1>2 DEF Supplicants
<1>5. \A r \in Radio : Settled(d, F, r) => Settled(c, F \cup {e}, r)
  BY <1>1, <1>2 DEF Settled
<1>6. Placed(d, e) => Settled(c, F \cup {e}, e.radio)
  BY <1>1, <1>2 DEF Settled
<1>7. \A f \in Entry : IsSetUp(d, f) => IsSetUp(c, f)
  BY <1>1, <1>2 DEF IsSetUp
<1> QED BY <1>3, <1>4, <1>5, <1>6, <1>7 DEF c

(* The entry that is set up is one of those in force until it fails *)
LEMMA SettingUpKeeps ==
  ASSUME NEW d \in Device, NEW e \in Entry, NEW F, Without(F, e), NEW o \in Setup(d, e)
  PROVE  /\ o.status # "raised" =>
              /\ Owners(d, F \cup {e}) => Owners(o.dev, F \cup {e})
              /\ Placed(d, e) /\ e.radio \in d.owned /\ Supplicants(d, F \cup {e}) =>
                   Supplicants(o.dev, F \cup {e})
              /\ \A r \in Radio : Settled(d, F \cup {e}, r) => Settled(o.dev, F \cup {e}, r)
              /\ Placed(d, e) /\ e.radio \in d.owned => IsSetUp(o.dev, e)
              /\ \A f \in Entry : IsSetUp(d, f) => IsSetUp(o.dev, f)
         /\ o.status = "raised" =>
              /\ Owners(d, F \cup {e}) => Owners(o.dev, F)
              /\ Placed(d, e) /\ Supplicants(d, F \cup {e}) => Supplicants(o.dev, F)
              /\ \A r \in Radio : r # e.radio /\ Settled(d, F \cup {e}, r) => Settled(o.dev, F, r)
<1> DEFINE c == o.dev
<1>1. /\ c.plain = d.plain /\ c.owned \subseteq d.owned /\ d.owned \ {e.radio} \subseteq c.owned
      /\ \A q \in Radio \ {e.radio} : c.netdev[q] = d.netdev[q]
      /\ \/ /\ o.status = "provisioned" /\ c.netdev = d.netdev /\ c.owned = d.owned
            /\ c.supplicants = d.supplicants \cup (IF e.secure THEN {<<e.netns, e.name>>} ELSE {})
         \/ /\ o.status = "raised" /\ c.supplicants \subseteq d.supplicants
            /\ IF Found(d, e) THEN e.radio \notin c.owned ELSE c = d
            /\ Placed(d, e) => <<e.netns, e.name>> \notin c.supplicants
  BY SetupOK
<1> HIDE DEF c
<1>2. \A f \in F : f.radio \in Radio /\ f.radio # e.radio
  BY DEF Without, Entry
<1>3. \A f \in F : Placed(d, f) => Placed(c, f)
  BY <1>1, <1>2 DEF Placed
<1>4. Placed(d, e) => Found(d, e)
  BY DEF Placed, Found
<1>5. CASE o.status # "raised"
  <2>1. /\ c.netdev = d.netdev /\ c.owned = d.owned /\ c.plain = d.plain
        /\ c.supplicants = d.supplicants \cup (IF e.secure THEN {<<e.netns, e.name>>} ELSE {})
    BY <1>1, <1>5
  <2>2. \A f : Placed(d, f) <=> Placed(c, f)
    BY <2>1 DEF Placed
  <2>3. Owners(d, F \cup {e}) => Owners(c, F \cup {e})
    BY <2>1, <2>2 DEF Owners
  <2>4. Placed(d, e) /\ e.radio \in d.owned /\ Supplicants(d, F \cup {e}) => Supplicants(c, F \cup {e})
    BY <2>1, <2>2 DEF Supplicants
  <2>5. \A r \in Radio : Settled(d, F \cup {e}, r) => Settled(c, F \cup {e}, r)
    BY <2>1, <2>2 DEF Settled
  <2>6. Placed(d, e) /\ e.radio \in d.owned => IsSetUp(c, e)
    BY <2>1, <2>2 DEF IsSetUp
  <2>7. \A f \in Entry : IsSetUp(d, f) => IsSetUp(c, f)
    BY <2>1, <2>2 DEF IsSetUp
  <2> QED BY <1>5, <2>3, <2>4, <2>5, <2>6, <2>7 DEF c
<1>6. CASE o.status = "raised"
  <2>1. /\ c.supplicants \subseteq d.supplicants
        /\ IF Found(d, e) THEN e.radio \notin c.owned ELSE c = d
        /\ Placed(d, e) => <<e.netns, e.name>> \notin c.supplicants
    BY <1>1, <1>6
  <2>2. ASSUME Owners(d, F \cup {e}), NEW r \in c.owned
        PROVE  \E f \in F : f.radio = r /\ Placed(c, f)
    <3>1. r \in d.owned
      BY <1>1
    <3>2. PICK f \in F \cup {e} : f.radio = r /\ Placed(d, f)
      BY <2>2, <3>1 DEF Owners
    <3>3. f # e
      BY <1>4, <2>1, <2>2, <3>2
    <3> QED BY <1>3, <3>2, <3>3
  <2>3. ASSUME Placed(d, e), Supplicants(d, F \cup {e}), NEW s \in c.supplicants, s[1] \notin c.plain
        PROVE  \E f \in F : /\ f.secure /\ s = <<f.netns, f.name>> /\ Placed(c, f)
                            /\ f.netns = Root => f.radio \in c.owned
    <3>1. s \in d.supplicants /\ s[1] \notin d.plain /\ s # <<e.netns, e.name>>
      BY <1>1, <2>1, <2>3
    <3>2. PICK f \in F \cup {e} : /\ f.secure /\ s = <<f.netns, f.name>> /\ Placed(d, f)
                                  /\ f.netns = Root => f.radio \in d.owned
      BY <2>3, <3>1 DEF Supplicants
    <3>3. f \in F /\ f.radio # e.radio
      BY <1>2, <3>1, <3>2
    <3> QED BY <1>1, <1>3, <3>2, <3>3
  <2>4. ASSUME NEW r \in Radio, r # e.radio, Settled(d, F \cup {e}, r)
        PROVE  Settled(c, F, r)
    <3>1. c.netdev[r] = d.netdev[r] /\ (r \in d.owned => r \in c.owned)
      BY <1>1, <2>4
    <3> QED BY <1>3, <2>4, <3>1 DEF Settled
  <2> QED BY <1>6, <2>2, <2>3, <2>4 DEF Owners, Supplicants, c
<1> QED BY <1>5, <1>6

(* Namespaces that none of the entries is in are returned *)
LEMMA ReturningKeeps ==
  ASSUME NEW d \in Device, NEW S \in SUBSET Netns, NEW F \in SUBSET Entry, \A f \in F : f.netns \notin S,
         NEW o \in Return(d, S)
  PROVE  /\ Owners(d, F) => Owners(o.dev, F)
         /\ Supplicants(d, F) => Supplicants(o.dev, F)
         /\ \A r \in Radio : Settled(d, F, r) => Settled(o.dev, F, r)
         /\ \A f \in F : IsSetUp(d, f) => IsSetUp(o.dev, f)
<1> DEFINE c == o.dev
<1>1. /\ d.plain \ S \subseteq c.plain
      /\ c.owned \subseteq d.owned /\ c.supplicants = {s \in d.supplicants : s[1] \notin S}
      /\ \A r \in Radio : c.netdev[r] = d.netdev[r] \/ d.netdev[r].netns \in S
      /\ \A r \in d.owned : d.netdev[r].netns \notin S => r \in c.owned
  <2>1. /\ d.plain \ S \subseteq c.plain
        /\ c.owned \subseteq d.owned /\ c.supplicants = {s \in d.supplicants : s[1] \notin S}
    BY ReturnOK
  <2>2. ASSUME NEW r \in Radio PROVE c.netdev[r] = d.netdev[r] \/ d.netdev[r].netns \in S
    BY ReturnOK, ZenonT(60)
  <2>3. \A r \in d.owned : d.netdev[r].netns \notin S => r \in c.owned
    BY ReturnOK
  <2> QED BY <2>1, <2>2, <2>3
<1> HIDE DEF c
<1>2. \A f \in F : Placed(d, f) => d.netdev[f.radio].netns \notin S /\ f.radio \in Radio
  BY DEF Placed, Entry
<1>3. \A f \in F : Placed(d, f) => Placed(c, f) /\ (f.radio \in d.owned => f.radio \in c.owned)
  BY <1>1, <1>2 DEF Placed
<1>4. \A r \in Radio : Home(r).netns \notin S
  BY NamesAssumption DEF Home
<1>5. \A r \in Radio : d.netdev[r] = Home(r) => c.netdev[r] = Home(r)
  BY <1>1, <1>4
<1>6. Owners(d, F) => Owners(c, F)
  BY <1>1, <1>3 DEF Owners
<1>7. Supplicants(d, F) => Supplicants(c, F)
  BY <1>1, <1>3 DEF Supplicants
<1>8. \A r \in Radio : Settled(d, F, r) => Settled(c, F, r)
  BY <1>3, <1>5 DEF Settled
<1>9. \A f \in F : IsSetUp(d, f) => IsSetUp(c, f)
  BY <1>1, <1>3 DEF IsSetUp
<1> QED BY <1>6, <1>7, <1>8, <1>9 DEF c

(* More entries keep what fewer kept *)
LEMMA MoreKeep ==
  ASSUME NEW d, NEW F, NEW G, F \subseteq G
  PROVE  /\ Owners(d, F) => Owners(d, G)
         /\ Supplicants(d, F) => Supplicants(d, G)
         /\ \A r \in Radio : Settled(d, F, r) => Settled(d, G, r)
BY DEF Owners, Supplicants, Settled

-------------------------------------------------------------------------------
(* The entries in force: those of the profile last applied, and while a job   *)
(* is running those it has not yet undone, or has already applied.           *)

InForce ==
  IF job = NoJob THEN EntrySet(applied)
  ELSE IF job.phase \in {"teardown", "entries", "rollback"} THEN Members(job.todo)
  ELSE IF job.phase \in {"apply", "claim", "commit"} THEN Members(job.done)
  ELSE IF job.phase = "setup" THEN Members(job.done) \cup {Head(job.todo)}
  ELSE {}

LEMMA MembersAreEntries ==
  ASSUME NEW s \in Seq(Entry) PROVE Members(s) \subseteq Entry
BY DEF Members

LEMMA InForceAreEntries ==
  ASSUME SystemInvariant
  PROVE  InForce \subseteq Entry
<1>1. CASE job = NoJob
  BY <1>1, LayoutsAreUnique DEF InForce, SystemInvariant, TypeOK
<1>2. CASE job # NoJob
  <2>1. job \in Job /\ job.todo \in Seq(Entry) /\ job.done \in Seq(Entry)
    BY <1>2, JobParts DEF SystemInvariant, TypeOK
  <2>2. Members(job.todo) \subseteq Entry /\ Members(job.done) \subseteq Entry
    BY <2>1, MembersAreEntries
  <2>3. job.phase = "setup" => Head(job.todo) \in Entry
    BY <2>1, EntriesHaveParts DEF SystemInvariant, KeepsGuards
  <2> QED BY <1>2, <2>2, <2>3 DEF InForce
<1> QED BY <1>1, <1>2

(* What each step of a job does to them *)
LEMMA ListsOfJobs ==
  ASSUME SystemInvariant, job # NoJob, JobShape(job)
  PROVE  /\ job \in Job /\ NoJob.phase = "none" /\ \A j \in Job : j # NoJob
         /\ Members(job.todo) \subseteq Entry /\ Members(job.done) \subseteq Entry
         /\ job.todo # <<>> =>
              Members(job.todo) = Members(Rest) \cup {Head0} /\ Without(Members(Rest), Head0)
         /\ job.todo # <<>> /\ job.phase \in Applying =>
              /\ Without(Members(job.done), Head0)
              /\ Members(Append(job.done, Head0)) = Members(job.done) \cup {Head0}
<1> USE DEF JobShape, Applying
<1>1. job \in Job /\ job.todo \in Seq(Entry) /\ job.done \in Seq(Entry)
  BY JobParts DEF SystemInvariant, TypeOK
<1>2. Members(job.todo) \subseteq Entry /\ Members(job.done) \subseteq Entry
  BY <1>1, MembersAreEntries
<1>3. ASSUME job.todo # <<>>
      PROVE  Members(job.todo) = Members(Rest) \cup {Head0} /\ Without(Members(Rest), Head0)
  <2>1. /\ Members(job.todo) = {Head0} \cup Members(Rest) /\ Rest \in Seq(Entry)
        /\ \A e \in Members(Rest) : e.radio # Head0.radio
    BY <1>1, <1>3, HeadAndTail, EntriesHaveParts DEF Head0, Rest
  <2>2. Members(Rest) \subseteq Entry
    BY <2>1, MembersAreEntries
  <2> QED BY <2>1, <2>2 DEF Without
<1>4. ASSUME job.todo # <<>>, job.phase \in Applying
      PROVE  /\ Without(Members(job.done), Head0)
             /\ Members(Append(job.done, Head0)) = Members(job.done) \cup {Head0}
  <2>1. /\ \A f \in Members(job.done) : f.radio # Head0.radio
        /\ Members(Append(job.done, Head0)) = Members(job.done) \cup {Head0}
    BY <1>1, <1>4, Moved DEF Head0
  <2> QED BY <1>2, <2>1 DEF Without
<1> QED BY <1>1, <1>2, <1>3, <1>4, NoJobParts, JobParts

LEMMA UndoInForce ==
  ASSUME SystemInvariant, job # NoJob, JobShape(job), UndoEntry
  PROVE  /\ InForce = InForce' \cup {Head0} /\ Without(InForce', Head0) /\ Head0 \in Entry
         /\ \E o \in Deactivate(device, Head0) : Becomes(o)
<1>1. /\ job.todo # <<>> /\ job.phase \in {"teardown", "rollback"} /\ Head0 \in Entry
      /\ Stepped(job, job', job.phase, job.ok, Rest, job.done)
  BY UndoEntryIs DEF UndoEntry
<1>2. InForce = Members(job.todo) /\ InForce' = Members(Rest)
  BY <1>1, ListsOfJobs DEF Stepped, InForce
<1> QED BY <1>1, <1>2, ListsOfJobs DEF UndoEntry, Head0

LEMMA ApplyInForce ==
  ASSUME SystemInvariant, job # NoJob, JobShape(job), ApplyEntry
  PROVE  /\ Head0 \in Entry /\ Without(InForce, Head0) /\ job' \in Job /\ job.phase = "apply"
         /\ job'.op = job.op /\ job'.profile = job.profile /\ job'.cfg = job.cfg
         /\ \/ /\ UNCHANGED <<device, happened>> /\ InForce \subseteq InForce'
               /\ job.profile = Default \/ ~Found(device, Head0) \/ InUse(device, Head0.radio)
               /\ job'.ok = job.ok /\ job'.phase = "apply" /\ job'.todo = Rest
            \/ /\ Found(device, Head0) /\ InForce' = InForce
               /\ \E o \in Prepare(device, Head0) :
                    /\ Becomes(o)
                    /\ \/ /\ o.status = "prepared" /\ job'.ok = job.ok
                          /\ job'.phase = "claim" /\ job'.todo = job.todo
                       \/ o.status # "prepared" /\ job'.phase \in {"apply", "rollback"}
<1>0. /\ job.phase = "apply" /\ job.todo # <<>> /\ job \in Job /\ NoJob.phase = "none"
      /\ Without(Members(job.done), Head0) /\ \A j \in Job : j # NoJob
      /\ Members(Append(job.done, Head0)) = Members(job.done) \cup {Head0}
  BY ListsOfJobs DEF ApplyEntry, Applying
<1>1. InForce = Members(job.done)
  BY <1>0 DEF InForce
<1>2. CASE /\ UNCHANGED <<device, happened>>
           /\ job.profile = Default \/ ~Found(device, Head0) \/ InUse(device, Head0.radio)
           /\ \/ Stepped(job, job', "apply", job.ok, Rest, job.done)
              \/ Stepped(job, job', "apply", job.ok, Rest, Append(job.done, Head0))
  <2>1. /\ job' \in Job /\ job'.phase = "apply" /\ job'.done \in {job.done, Append(job.done, Head0)}
        /\ job'.ok = job.ok /\ job'.todo = Rest
        /\ job'.op = job.op /\ job'.profile = job.profile /\ job'.cfg = job.cfg
    BY <1>2 DEF Stepped
  <2>2. InForce \subseteq InForce'
    BY <1>0, <1>1, <2>1 DEF InForce
  <2> QED BY <1>0, <1>1, <1>2, <2>1, <2>2, ApplyEntryIs
<1>3. ASSUME NEW o \in Prepare(device, Head0), Becomes(o), Found(device, Head0),
             \/ o.status = "prepared" /\ Stepped(job, job', "claim", job.ok, job.todo, job.done)
             \/ o.status = "error" /\ Stepped(job, job', "apply", FALSE, Rest, job.done)
             \/ o.status = "raised" /\ Stepped(job, job', "rollback", FALSE, job.done, job.done)
      PROVE  /\ InForce' = InForce /\ job' \in Job
             /\ job'.op = job.op /\ job'.profile = job.profile /\ job'.cfg = job.cfg
             /\ \/ /\ o.status = "prepared" /\ job'.ok = job.ok
                   /\ job'.phase = "claim" /\ job'.todo = job.todo
                \/ o.status # "prepared" /\ job'.phase \in {"apply", "rollback"}
  BY <1>0, <1>1, <1>3 DEF Stepped, InForce
<1> QED BY <1>0, <1>1, <1>2, <1>3, ApplyEntryIs

LEMMA ClaimInForce ==
  ASSUME SystemInvariant, job # NoJob, JobShape(job), ClaimEntry
  PROVE  /\ Head0 \in Entry /\ job.phase = "claim" /\ Without(InForce, Head0)
         /\ \/ /\ InForce' = InForce \cup {Head0} /\ device' = Claim(device, Head0)
               /\ UNCHANGED happened
               /\ Stepped(job, job', "setup", job.ok, job.todo, job.done)
            \/ /\ InForce' = InForce /\ UNCHANGED device /\ Spend("fault", 1)
               /\ job'.phase = "rollback"
<1>1. job.phase = "claim" /\ job.todo # <<>> /\ job \in Job /\ NoJob.phase = "none"
  BY ListsOfJobs DEF ClaimEntry, SystemInvariant, KeepsGuards
<1>2. Head0 \in Entry /\ Without(Members(job.done), Head0) /\ InForce = Members(job.done)
  BY <1>1, ListsOfJobs, ClaimEntryIs DEF InForce, Applying
<1>3. CASE Stepped(job, job', "setup", job.ok, job.todo, job.done)
  <2>1. InForce' = Members(job.done) \cup {Head0}
    BY <1>1, <1>3, ListsOfJobs DEF InForce, Stepped, Head0
  <2>2. device' = Claim(device, Head0) /\ UNCHANGED happened
    BY <1>3, ClaimEntryIs DEF Stepped
  <2> QED BY <1>1, <1>2, <1>3, <2>1, <2>2
<1>4. CASE Stepped(job, job', "rollback", FALSE, job.done, job.done)
  <2>1. InForce' = Members(job.done) /\ job'.phase = "rollback"
    BY <1>1, <1>4, ListsOfJobs DEF InForce, Stepped
  <2>2. UNCHANGED device /\ Spend("fault", 1)
    BY <1>4, ClaimEntryIs DEF Stepped
  <2> QED BY <1>1, <1>2, <2>1, <2>2
<1> QED BY <1>3, <1>4, ClaimEntryIs

LEMMA SetupInForce ==
  ASSUME SystemInvariant, job # NoJob, JobShape(job), SetupEntry
  PROVE  LET F == Members(job.done) IN
         /\ Head0 \in Entry /\ Without(F, Head0) /\ InForce = F \cup {Head0} /\ job.phase = "setup"
         /\ job' \in Job /\ job'.op = job.op /\ job'.profile = job.profile /\ job'.cfg = job.cfg
         /\ \E o \in Setup(device, Head0) :
              /\ Becomes(o)
              /\ IF o.status = "raised" THEN InForce' = F /\ job'.phase = "rollback"
                 ELSE /\ InForce' = InForce /\ job'.ok = job.ok
                      /\ job'.phase = "apply" /\ job'.todo = Rest
<1>0. /\ job.phase = "setup" /\ job.todo # <<>> /\ job \in Job /\ NoJob.phase = "none"
      /\ Without(Members(job.done), Head0) /\ \A j \in Job : j # NoJob
      /\ Members(Append(job.done, Head0)) = Members(job.done) \cup {Head0}
  BY ListsOfJobs DEF SetupEntry, SystemInvariant, KeepsGuards, Applying
<1>1. InForce = Members(job.done) \cup {Head0}
  BY <1>0 DEF InForce, Head0
<1>2. PICK o \in Setup(device, Head0) :
        /\ Becomes(o)
        /\ IF o.status = "raised"
           THEN Stepped(job, job', "rollback", FALSE, job.done, job.done)
           ELSE Stepped(job, job', "apply", job.ok, Rest, Append(job.done, Head0))
  BY SetupEntryIs
<1>3. /\ job' \in Job /\ job'.op = job.op /\ job'.profile = job.profile /\ job'.cfg = job.cfg
      /\ IF o.status = "raised" THEN InForce' = Members(job.done) /\ job'.phase = "rollback"
         ELSE /\ InForce' = InForce /\ job'.ok = job.ok
              /\ job'.phase = "apply" /\ job'.todo = Rest
  BY <1>0, <1>1, <1>2 DEF Stepped, InForce
<1> QED BY <1>0, <1>1, <1>2, <1>3, SetupEntryIs

LEMMA DeactivateInForce ==
  ASSUME SystemInvariant, job # NoJob, JobShape(job), DeactivateEntry
  PROVE  /\ Head0 \in Entry /\ job.op # "activate" /\ job' \in Job /\ job'.op = job.op
         /\ \E o \in Deactivate(device, Head0) :
              /\ Becomes(o)
              /\ o.status # "raised" =>
                   InForce = InForce' \cup {Head0} /\ Without(InForce', Head0)
<1>1. /\ job.phase = "entries" /\ job.todo # <<>> /\ Head0 \in Entry /\ job.op # "activate"
  BY DeactivateEntryIs DEF DeactivateEntry, JobShape
<1>2. PICK o \in Deactivate(device, Head0) :
        /\ Becomes(o)
        /\ IF o.status = "raised" THEN Stepped(job, job', "record", FALSE, <<>>, job.done)
           ELSE Stepped(job, job', "entries", job.ok, Rest, job.done)
  BY DeactivateEntryIs
<1>3. o.status # "raised" => InForce = Members(job.todo) /\ InForce' = Members(Rest)
  BY <1>1, <1>2, ListsOfJobs DEF Stepped, InForce
<1>4. job' \in Job /\ job'.op = job.op
  BY <1>2 DEF Stepped
<1> QED BY <1>1, <1>2, <1>3, <1>4, ListsOfJobs

LEMMA OthersInForce ==
  ASSUME SystemInvariant, job # NoJob, JobShape(job)
  PROVE  /\ TornDown => InForce = {} /\ InForce' = {}
         /\ Applied => InForce' = InForce
         /\ Commit => InForce \subseteq InForce'
         /\ RolledBack \/ FallBack \/ DeactivatedDefault \/ Deactivated \/ Unlink => InForce = {}
<1>1. ASSUME TornDown PROVE InForce = {} /\ InForce' = {}
  <2>1. /\ job.phase = "teardown" /\ job.todo = <<>> /\ job.done = <<>> /\ job' \in Job
        /\ job'.done = job.done /\ job'.phase \in {"apply", "fallback"}
    BY <1>1, TornDownIs DEF TornDown, Stepped, JobShape
  <2> QED BY <2>1, NoMembers, ListsOfJobs DEF InForce
<1>2. ASSUME Applied PROVE InForce' = InForce
  <2>1. /\ job.phase = "apply" /\ job' \in Job
        /\ \/ job'.phase = "commit" /\ job'.done = job.done
           \/ job'.phase = "rollback" /\ job'.todo = job.done
    BY <1>2, AppliedIs DEF Applied, Stepped
  <2> QED BY <2>1, ListsOfJobs DEF InForce
<1>3. ASSUME Commit PROVE InForce \subseteq InForce'
  <2>1. job.phase = "commit" /\ Members(job.done) \subseteq EntrySet(job.cfg)
    BY <1>3 DEF Commit, JobShape, Applying
  <2>2. job' = NoJob /\ applied' = job.cfg
    BY <1>3 DEF Commit, Record, Finish
  <2>3. InForce = Members(job.done) /\ InForce' = EntrySet(applied')
    BY <2>1, <2>2 DEF InForce, EntrySet
  <2> QED BY <2>1, <2>2, <2>3
<1>4. ASSUME RolledBack \/ FallBack \/ DeactivatedDefault \/ Deactivated \/ Unlink PROVE InForce = {}
  <2>1. \/ job.phase \in {"fallback", "record", "returned", "unlink"}
        \/ job.phase \in {"rollback", "entries"} /\ job.todo = <<>>
    BY <1>4 DEF RolledBack, FallBack, DeactivatedDefault, Deactivated, Unlink
  <2> QED BY <2>1, NoMembers DEF InForce
<1> QED BY <1>1, <1>2, <1>3, <1>4

-------------------------------------------------------------------------------
(* What Core owns and runs is of the entries in force: as long as no command  *)
(* fails, and while an activation of which the first command to fail has       *)
(* failed gives up what it had done.                                           *)

Failing == job.op = "activate" /\ ~job.ok

Tolerable ==
  /\ Undisturbed /\ happened["lapse"] = 0
  /\ \/ happened["fault"] = 0
     \/ /\ Failing /\ happened["fault"] <= 1
        /\ happened["plug"] = 0 /\ happened["crash"] = 0

(* No process of Core's is left over from before a restart *)
Serving == up \/ job.phase \in {"apply", "claim", "setup", "commit", "rollback", "fallback"}

OwnersInvariant == Tolerable /\ happened["crash"] = 0 => Owners(device, InForce)

SupplicantsInvariant ==
  Tolerable /\ happened["plug"] = 0 /\ Serving => Supplicants(device, InForce)

LEMMA FailingCosts ==
  ASSUME SystemInvariant, ShapeInvariant, JobStep, happened["plug"] = 0,
         job'.op = "activate", ~job'.ok
  PROVE  Failing \/ happened'["fault"] >= happened["fault"] + 1
<1> USE DEF Failing
<1>0. NoJob.op = "none" /\ device \in Device
  BY NoJobParts DEF SystemInvariant, TypeOK
<1>1. ASSUME NEW n \in Nat, n >= 1, Spend("fault", n)
      PROVE  happened'["fault"] >= happened["fault"] + 1
  BY <1>1, FaultsGrow
<1>2. CASE ApplyEntry
  <2>1. \/ job'.ok = job.ok /\ job'.op = job.op
        \/ /\ Found(device, Head0) /\ Head0 \in Entry
           /\ \E o \in Prepare(device, Head0) : Becomes(o) /\ o.status # "prepared"
    BY <1>2, ApplyEntryIs DEF Stepped
  <2>2. ASSUME Found(device, Head0), Head0 \in Entry, NEW o \in Prepare(device, Head0),
               Becomes(o), o.status # "prepared"
        PROVE  happened'["fault"] >= happened["fault"] + 1
    <3>1. o.cost \in Nat /\ o.cost >= 1
      BY <1>0, <2>2, PrepareOK DEF Prepared
    <3> QED BY <1>1, <2>2, <3>1 DEF Becomes
  <2> QED BY <2>1, <2>2
<1>3. CASE SetupEntry
  <2>1. PICK o \in Setup(device, Head0) :
          /\ Becomes(o)
          /\ o.status # "raised" => job'.ok = job.ok /\ job'.op = job.op
    BY <1>3, SetupEntryIs DEF Stepped
  <2>2. Head0 \in Entry /\ job.phase = "setup" /\ Placed(device, Head0)
    BY <1>3, SetupEntryIs DEF SetupEntry, ShapeInvariant, Head0
  <2>3. o.cost \in Nat /\ (o.status = "raised" => o.cost >= 1 \/ ~Placed(device, Head0))
    BY <1>0, <2>2, SetupOK
  <2> QED BY <1>1, <2>1, <2>2, <2>3 DEF Becomes
<1>4. CASE DeactivateEntry
  <2>1. job'.op = job.op /\ job.phase = "entries" /\ job \in Job
    BY <1>4, DeactivateEntryIs DEF Stepped, DeactivateEntry
  <2>2. job.op \in {"deactivate", "delete"}
    BY <2>1, JobParts DEF ShapeInvariant, JobShape
  <2> QED BY <2>1, <2>2
<1>5. CASE UndoEntry
  BY <1>5, UndoEntryIs DEF Stepped
<1>6. CASE TornDown
  BY <1>6, TornDownIs DEF Stepped
<1>7. CASE ClaimEntry
  <2>1. job'.op = job.op /\ (job'.ok = job.ok \/ Spend("fault", 1))
    BY <1>7, ClaimEntryIs DEF Stepped
  <2> QED BY <1>1, <2>1
<1>8. CASE Applied
  BY <1>8, AppliedIs DEF Stepped
<1>9. CASE RolledBack
  BY <1>9, GotoIs DEF RolledBack, Stepped, Phase
<1>10. CASE DeactivatedDefault
  BY <1>10, GotoIs DEF DeactivatedDefault, Stepped, Phase
<1>11. CASE Deactivated
  <2>1. Goto("unlink") => job'.op = job.op /\ job'.ok = job.ok
    BY <1>11, GotoIs DEF Deactivated, Stepped, Phase
  <2> QED BY <1>0, <1>11, <2>1 DEF Deactivated, Finish
<1> QED BY <1>0, <1>2, <1>3, <1>4, <1>5, <1>6, <1>7, <1>8, <1>9, <1>10, <1>11
        DEF JobStep, Commit, FallBack, Unlink, Finish

LEMMA FaultsComeLate ==
  ASSUME SystemInvariant, ShapeInvariant, RecordInvariant', [Next]_vars, Tolerable'
  PROVE  Tolerable
<1>0. /\ Undisturbed /\ NoJob.op = "none"
      /\ \A k \in Disturbance : happened[k] \in Nat /\ happened'[k] \in Nat /\ happened'[k] >= happened[k]
      /\ happened["lapse"] = 0 /\ ~Lapse
  BY NothingDisturbs, NothingIsCut, HistoryGrows, NoJobParts DEF Tolerable
<1>1. {"fault", "plug", "crash"} \subseteq Disturbance
  BY DEF Disturbance
<1>2. CASE happened'["fault"] = 0
  <2>1. happened["fault"] = 0
    BY <1>0, <1>1, <1>2
  <2> QED BY <1>0, <2>1 DEF Tolerable
<1>3. CASE /\ job'.op = "activate" /\ ~job'.ok /\ happened'["fault"] <= 1
           /\ happened'["plug"] = 0 /\ happened'["crash"] = 0
  <2>1. happened["plug"] = 0 /\ happened["crash"] = 0 /\ happened["fault"] <= 1
    BY <1>0, <1>1, <1>3
  <2>2. CASE JobStep
    <3>1. Failing \/ happened'["fault"] >= happened["fault"] + 1
      BY <1>3, <2>1, <2>2, FailingCosts
    <3> QED BY <1>0, <1>1, <1>3, <2>1, <3>1 DEF Tolerable
  <2>3. ASSUME NEW p \in Profile, NEW override \in BOOLEAN, BeginActivate(p, override) PROVE FALSE
    <3>1. job'.phase = "teardown"
      BY <2>3, BeginsAJob
    <3> QED BY <1>3, <3>1 DEF RecordInvariant
  <2>4. ASSUME NEW p \in Profile, BeginDeactivate(p) \/ BeginForcedDelete(p) \/ BeginRevertAll PROVE FALSE
    BY <1>3, <2>4, BeginsAJob
  <2>5. ASSUME Crash \/ Reboot PROVE FALSE
    BY <1>0, <1>3, <2>5 DEF Crash, Reboot
  <2>6. CASE Boot
    BY <2>3, <2>6, BootKeeps
  <2>7. CASE UNCHANGED job
    BY <1>0, <1>3, <2>1, <2>7 DEF Tolerable, Failing
  <2>8. ASSUME NEW r \in Radio, Unplug(r) \/ Plug(r) \/ ToolTakes(r) \/ ToolLeaves(r)
        PROVE  UNCHANGED job
    BY <2>8 DEF Unplug, Plug, ToolTakes, ToolLeaves
  <2>9. ASSUME NEW n \in Netns, Reset(n) PROVE UNCHANGED job
    BY <2>9 DEF Reset, Resettable
  <2>10. ASSUME NEW p \in Profile, NEW v \in Version,
                ActivateRefused(p) \/ Delete(p) \/ Add(p, v) \/ BeginEdit(p, v) \/ WriteEdit \/ Break(p)
         PROVE  UNCHANGED job
    BY <2>10 DEF ActivateRefused, Delete, Add, BeginEdit, WriteEdit, Break
  <2> QED BY <1>0, <2>2, <2>3, <2>4, <2>5, <2>6, <2>7, <2>8, <2>9, <2>10, ProfileAssumption
          DEF Next, Activate, vars
<1> QED BY <1>2, <1>3 DEF Tolerable, Failing

LEMMA JobsKeepHands ==
  ASSUME SystemInvariant, ShapeInvariant, RecordInvariant, JobStep, Tolerable'
  PROVE  /\ device.plain = {} /\ Owners(device, InForce) => Owners(device', InForce')
         /\ (happened["plug"] = 0 /\ Serving => Supplicants(device, InForce)) =>
            (happened'["plug"] = 0 /\ Serving' => Supplicants(device', InForce'))
<1> DEFINE Keeps ==
      /\ device.plain = {} /\ Owners(device, InForce) => Owners(device', InForce')
      /\ happened["plug"] = 0 /\ Supplicants(device, InForce) => Supplicants(device', InForce')
<1>0. /\ device \in Device /\ device.core \in SUBSET Netns /\ Housed(device) /\ NoJob.phase = "none"
      /\ job # NoJob => JobShape(job) /\ (up \/ (job.op = "activate" /\ job.override))
  BY DeviceParts, NoJobParts DEF SystemInvariant, TypeOK, ShapeInvariant
<1>1. job # NoJob /\ JobShape(job) /\ job \in Job
  <2>1. job # NoJob
    BY <1>0 DEF JobStep, UndoEntry, TornDown, ApplyEntry, ClaimEntry, SetupEntry, Applied, Commit,
                RolledBack, FallBack, DeactivateEntry, DeactivatedDefault, Deactivated, Unlink
  <2> QED BY <1>0, <2>1 DEF SystemInvariant, TypeOK
<1>2. happened'["plug"] = happened["plug"]
  <2>1. UNCHANGED happened \/ \E n \in Nat : Spend("fault", n)
    BY JobsSpend DEF JobSpends
  <2> QED BY <2>1, FaultsAreCounted DEF Counted, Disturbance
<1>3. ASSUME Keeps, Serving' => Serving
      PROVE  /\ device.plain = {} /\ Owners(device, InForce) => Owners(device', InForce')
             /\ (happened["plug"] = 0 /\ Serving => Supplicants(device, InForce)) =>
                (happened'["plug"] = 0 /\ Serving' => Supplicants(device', InForce'))
  BY <1>2, <1>3
<1>4. CASE UndoEntry
  <2>1. PICK o \in Deactivate(device, Head0) : Becomes(o)
    BY <1>1, <1>4, UndoInForce
  <2>2. InForce = InForce' \cup {Head0} /\ Without(InForce', Head0) /\ Head0 \in Entry
    BY <1>1, <1>4, UndoInForce
  <2>3. Keeps
    <3> DEFINE F == InForce
               G == InForce'
    <3>1. F = G \cup {Head0} /\ Without(G, Head0)
      BY <2>2
    <3> HIDE DEF F, G
    <3>2. /\ device.plain = {} /\ Owners(device, F) => Owners(o.dev, G)
          /\ Supplicants(device, F) => Supplicants(o.dev, G)
      BY <1>0, <2>1, <2>2, <3>1, UndoingKeeps
    <3> QED BY <2>1, <3>2 DEF F, G, Becomes
  <2>4. Serving' => Serving
    BY <1>4, UndoEntryIs DEF Serving, UndoEntry, Stepped
  <2> QED BY <1>3, <2>3, <2>4
<1>5. CASE TornDown
  <2>1. PICK o \in Return(device, device.core) :
             device' = IF job.op = "activate" /\ job.ok /\ job.override
                       THEN KillAllSupplicants(o.dev) ELSE o.dev
    BY <1>5 DEF TornDown, ReturnNamespaces, CoreNamespaces
  <2> DEFINE S == {s \in device.supplicants : s[1] \in device.plain => s[1] \in device'.plain}
  <2>2. /\ o.dev \in Device /\ o.dev.owned \subseteq device.owned
        /\ o.dev.supplicants = {s \in device.supplicants : s[1] \notin device.core}
        /\ device.plain \ device.core \subseteq o.dev.plain
    BY <1>0, <2>1, ReturnOK
  <2>3. /\ device'.owned \subseteq device.owned /\ device'.supplicants \subseteq S
        /\ job.op = "activate" /\ job.ok /\ job.override => device'.supplicants = {}
    BY <2>1, <2>2, KillOK
  <2>4. InForce = {} /\ job.phase = "teardown" /\ up' = up
    BY <1>1, <1>5, OthersInForce DEF TornDown
  <2>5. Keeps
    BY <2>3, <2>4, EmptyHands
  <2>6. CASE up
    BY <1>3, <2>5, <2>6 DEF Serving
  <2>7. CASE ~up
    <3>1. job.op = "activate" /\ job.override /\ job.ok
      BY <1>0, <1>1, <2>4, <2>7 DEF RecordInvariant
    <3>2. device'.supplicants = {}
      BY <2>3, <3>1
    <3> QED BY <2>5, <3>2 DEF Supplicants
  <2> QED BY <2>6, <2>7
<1>6. CASE ApplyEntry
  <2>1. /\ Head0 \in Entry /\ Without(InForce, Head0) /\ job.phase = "apply"
        /\ \/ UNCHANGED device /\ InForce \subseteq InForce'
           \/ Found(device, Head0) /\ InForce' = InForce /\ \E o \in Prepare(device, Head0) : Becomes(o)
    BY <1>1, <1>6, ApplyInForce
  <2>2. CASE UNCHANGED device /\ InForce \subseteq InForce'
    BY <1>3, <2>1, <2>2, MoreKeep DEF Serving
  <2>3. ASSUME NEW o \in Prepare(device, Head0), Becomes(o), Found(device, Head0), InForce' = InForce
        PROVE  Keeps
    <3> DEFINE F == InForce
    <3>1. Without(F, Head0)
      BY <2>1
    <3> HIDE DEF F
    <3>2. (Owners(device, F) => Owners(o.dev, F)) /\ (Supplicants(device, F) => Supplicants(o.dev, F))
      BY <1>0, <2>1, <2>3, <3>1, PreparingKeeps
    <3> QED BY <2>3, <3>2 DEF F, Becomes
  <2> QED BY <1>3, <2>1, <2>2, <2>3 DEF Serving
<1>7. CASE ClaimEntry
  <2>1. /\ Head0 \in Entry /\ job.phase = "claim"
        /\ \/ InForce' = InForce \cup {Head0} /\ device' = Claim(device, Head0)
           \/ InForce' = InForce /\ UNCHANGED device
    BY <1>1, <1>7, ClaimInForce
  <2>2. Keeps
    BY <1>0, <2>1, ClaimingKeeps
  <2> QED BY <1>3, <2>1, <2>2 DEF Serving
<1>8. CASE SetupEntry
  <2> DEFINE F == Members(job.done)
  <2>1. /\ Head0 \in Entry /\ Without(F, Head0) /\ InForce = F \cup {Head0} /\ job.phase = "setup"
    BY <1>1, <1>8, SetupInForce
  <2>2. PICK o \in Setup(device, Head0) :
          Becomes(o) /\ (IF o.status = "raised" THEN InForce' = F ELSE InForce' = InForce)
    BY <1>1, <1>8, SetupInForce
  <2>3. happened["plug"] = 0 => Placed(device, Head0) /\ Head0.radio \in device.owned
    BY <2>1 DEF ShapeInvariant, Head0
  <2> HIDE DEF F
  <2>4. Keeps
    <3>1. /\ o.status # "raised" =>
               /\ Owners(device, F \cup {Head0}) => Owners(o.dev, F \cup {Head0})
               /\ Placed(device, Head0) /\ Head0.radio \in device.owned
                  /\ Supplicants(device, F \cup {Head0}) => Supplicants(o.dev, F \cup {Head0})
          /\ o.status = "raised" =>
               /\ Owners(device, F \cup {Head0}) => Owners(o.dev, F)
               /\ Placed(device, Head0) /\ Supplicants(device, F \cup {Head0}) => Supplicants(o.dev, F)
      BY <1>0, <2>1, <2>2, SettingUpKeeps
    <3> QED BY <2>1, <2>2, <2>3, <3>1 DEF Becomes
  <2> QED BY <1>3, <2>1, <2>4 DEF Serving
<1>9. CASE Applied
  <2>1. InForce' = InForce /\ UNCHANGED device /\ job.phase = "apply"
    BY <1>1, <1>9, OthersInForce DEF Applied
  <2> QED BY <1>3, <2>1 DEF Serving
<1>10. CASE Commit
  <2>1. InForce \subseteq InForce' /\ UNCHANGED device /\ job.phase = "commit"
    BY <1>1, <1>10, OthersInForce DEF Commit
  <2> QED BY <1>3, <2>1, MoreKeep DEF Serving
<1>11. CASE RolledBack \/ FallBack
  <2>1. InForce = {} /\ UNCHANGED device /\ job.phase \in {"rollback", "fallback"}
    BY <1>1, <1>11, OthersInForce DEF RolledBack, FallBack
  <2>2. Keeps
    BY <2>1, EmptyHands
  <2> QED BY <1>3, <2>1, <2>2 DEF Serving
<1>12. CASE DeactivateEntry
  <2>1. PICK o \in Deactivate(device, Head0) :
          /\ Becomes(o)
          /\ o.status # "raised" => InForce = InForce' \cup {Head0} /\ Without(InForce', Head0)
    BY <1>1, <1>12, DeactivateInForce
  <2>2. Head0 \in Entry /\ job.op # "activate" /\ job'.op = job.op
    BY <1>1, <1>12, DeactivateInForce
  <2>3. o.cost \in Nat /\ (o.status = "raised" => o.cost >= 1)
    BY <1>0, <2>2, DeactivateOK DEF Undone
  <2>4. o.cost = 0
    <3>1. happened'["fault"] = 0
      BY <2>2 DEF Tolerable, Failing
    <3> QED BY <2>1, <2>3, <3>1, FaultsGrow DEF Becomes
  <2>5. InForce = InForce' \cup {Head0} /\ Without(InForce', Head0)
    BY <2>1, <2>3, <2>4
  <2>6. Keeps
    <3> DEFINE F == InForce
               G == InForce'
    <3>1. F = G \cup {Head0} /\ Without(G, Head0)
      BY <2>5
    <3> HIDE DEF F, G
    <3>2. /\ device.plain = {} /\ Owners(device, F) => Owners(o.dev, G)
          /\ Supplicants(device, F) => Supplicants(o.dev, G)
      BY <1>0, <2>1, <2>2, <3>1, UndoingKeeps
    <3> QED BY <2>1, <3>2 DEF F, G, Becomes
  <2> QED BY <1>0, <1>1, <1>3, <2>2, <2>6 DEF Serving
<1>13. CASE DeactivatedDefault \/ Unlink
  <2>1. InForce = {} /\ UNCHANGED device /\ job.phase \in {"record", "entries", "unlink"}
    BY <1>1, <1>13, OthersInForce DEF DeactivatedDefault, Unlink
  <2>2. Keeps
    BY <2>1, EmptyHands
  <2>3. up
    BY <1>0, <1>1, <2>1 DEF JobShape, SystemInvariant, KeepsGuards
  <2> QED BY <1>3, <2>2, <2>3 DEF Serving
<1>14. CASE Deactivated
  <2>1. PICK o \in Return(device, device.core) : device' = o.dev
    BY <1>14 DEF Deactivated, Becomes, ReturnNamespaces, CoreNamespaces
  <2>2. /\ device'.owned \subseteq device.owned
        /\ device'.supplicants
             \subseteq {s \in device.supplicants : s[1] \in device.plain => s[1] \in device'.plain}
    BY <1>0, <2>1, ReturnOK
  <2>3. InForce = {} /\ job.phase = "returned"
    BY <1>1, <1>14, OthersInForce DEF Deactivated
  <2>4. Keeps
    BY <2>2, <2>3, EmptyHands
  <2>5. up
    BY <1>0, <1>1, <2>3 DEF JobShape
  <2> QED BY <1>3, <2>4, <2>5 DEF Serving
<1> HIDE DEF Keeps
<1> QED BY <1>4, <1>5, <1>6, <1>7, <1>8, <1>9, <1>10, <1>11, <1>12, <1>13, <1>14 DEF JobStep

LEMMA OutsideKeepsHands ==
  ASSUME SystemInvariant, NEW q \in Radio, Unplug(q) \/ Plug(q) \/ ToolTakes(q) \/ ToolLeaves(q),
         NEW F \in SUBSET Entry
  PROVE  /\ Owners(device, F) => Owners(device', F)
         /\ Supplicants(device, F) => Unplug(q) \/ Supplicants(device', F)
<1>1. ASSUME NEW e \in F, Placed(device, e)
      PROVE  Placed(device', e) \/ (Unplug(q) /\ e.radio = q)
  <2>1. e.radio \in Radio /\ e.netns # None
    BY NamesAssumption DEF Entry, Place
  <2>2. device.netdev[e.radio] # Unplugged
    BY <1>1, <2>1 DEF Placed, Unplugged
  <2> QED BY <1>1, <2>1, <2>2, OutsideTouches DEF Placed
<1>2. /\ device'.supplicants = device.supplicants /\ device'.plain = device.plain
      /\ device'.owned = IF Unplug(q) THEN device.owned \ {q} ELSE device.owned
  BY OutsideTouches
<1>3. Owners(device, F) => Owners(device', F)
  BY <1>1, <1>2 DEF Owners
<1>4. Supplicants(device, F) => Unplug(q) \/ Supplicants(device', F)
  BY <1>1, <1>2 DEF Supplicants
<1> QED BY <1>3, <1>4

(* Requests are for the profile in force, and start with its entries *)
LEMMA CurrentInForce ==
  ASSUME SystemInvariant, RecordInvariant, job = NoJob
  PROVE  /\ Active = current /\ Readable(current)
         /\ InForce = Members(EntriesOf(current)) /\ InForce = EntrySet(applied)
<1>1. applied \in Version /\ files[current] = applied
  BY DEF SystemInvariant, TypeOK, RecordInvariant
<1>2. Members(Layout[applied]) = EntrySet(applied)
  BY <1>1, LayoutsAreUnique
<1> QED BY <1>1, <1>2 DEF Active, Readable, EntriesOf, InForce

LEMMA RequestsInForce ==
  ASSUME SystemInvariant, RecordInvariant, [Next]_vars, Undisturbed',
         NEW p \in Profile, NEW override \in BOOLEAN,
         \/ BeginActivate(p, override) \/ BeginDeactivate(p) \/ BeginForcedDelete(p) \/ BeginRevertAll
  PROVE  /\ InForce' = InForce /\ InForce = EntrySet(applied) /\ UNCHANGED <<device, touched>>
         /\ job = NoJob /\ job' # NoJob /\ job'.phase \in {"teardown", "entries"}
         /\ job'.todo = EntriesOf(current)
<1>1. /\ job = NoJob /\ UNCHANGED <<device, touched>>
  BY DEF BeginActivate, BeginDeactivate, BeginForcedDelete, BeginRevertAll
<1>2. Active = current /\ InForce = Members(EntriesOf(current)) /\ InForce = EntrySet(applied)
  BY <1>1, CurrentInForce
<1>3. BeginDeactivate(p) \/ BeginForcedDelete(p) => current = p
  BY NothingDisturbs DEF BeginDeactivate, BeginForcedDelete
<1>4. /\ job' \in Job /\ job'.phase \in {"teardown", "entries"}
      /\ job'.todo = EntriesOf(current)
  BY <1>2, <1>3, BeginsAJob
<1>5. job' # NoJob
  BY <1>4, JobParts, NoJobParts
<1>6. InForce' = Members(job'.todo)
  BY <1>4, <1>5 DEF InForce
<1> QED BY <1>1, <1>2, <1>4, <1>5, <1>6

LEMMA ResetsInForce ==
  ASSUME SystemInvariant, RecordInvariant, NEW n \in Netns, Reset(n)
  PROVE  /\ job = NoJob /\ job' = NoJob /\ up' = up /\ InForce' = InForce /\ InForce \in SUBSET Entry
         /\ \A f \in InForce : f.netns # n
         /\ \E o \in Return(device, {n}) : Becomes(o)
<1>1. job = NoJob /\ UNCHANGED <<applied, job, up>>
  BY DEF Reset, Resettable
<1>2. InForce = Members(EntriesOf(current))
  BY <1>1, CurrentInForce
<1>3. \A f \in InForce : f.netns # n
  BY <1>2 DEF Reset, Resettable, Members
<1>4. InForce' = InForce
  BY <1>1 DEF InForce, EntrySet
<1> QED BY <1>1, <1>3, <1>4, InForceAreEntries DEF Reset, ResetNamespace, Becomes

LEMMA HandsAreKept ==
  ASSUME SystemInvariant, ShapeInvariant, RecordInvariant, RecordInvariant', Undisturbed',
         OwnersInvariant, SupplicantsInvariant, [Next]_vars
  PROVE  OwnersInvariant' /\ SupplicantsInvariant'
<1> SUFFICES ASSUME Tolerable'
             PROVE  /\ happened'["crash"] = 0 => Owners(device', InForce')
                    /\ happened'["plug"] = 0 /\ Serving' => Supplicants(device', InForce')
  BY DEF OwnersInvariant, SupplicantsInvariant
<1> DEFINE Hands == /\ happened["crash"] = 0 => Owners(device, InForce)
                    /\ happened["plug"] = 0 /\ Serving => Supplicants(device, InForce)
           Kept  == /\ happened'["crash"] = 0 => Owners(device', InForce')
                    /\ happened'["plug"] = 0 /\ Serving' => Supplicants(device', InForce')
<1>0. Hands
  BY FaultsComeLate DEF OwnersInvariant, SupplicantsInvariant
<1>1. /\ happened'["crash"] = 0 => happened["crash"] = 0 /\ device.plain = {}
      /\ happened'["plug"] = 0 => happened["plug"] = 0
      /\ ~Lapse
  BY HistoryGrows, NothingIsCut DEF Disturbance, Tolerable, ShapeInvariant
<1>2. /\ device \in Device /\ NoJob.phase = "none" /\ InForce \in SUBSET Entry
      /\ editing = NoEdit
  BY NoJobParts, InForceAreEntries DEF SystemInvariant, TypeOK, RecordInvariant
<1>3. CASE JobStep
  BY <1>0, <1>1, <1>3, JobsKeepHands
<1>4. ASSUME UNCHANGED device, InForce' = InForce, Serving' => Serving PROVE Kept
  BY <1>0, <1>1, <1>4
<1>5. ASSUME NEW p \in Profile, NEW override \in BOOLEAN,
             \/ Activate(p, override) \/ BeginDeactivate(p) \/ BeginForcedDelete(p)
             \/ BeginRevertAll \/ (Boot /\ BeginActivate(p, override))
      PROVE  Kept
  <2>1. /\ InForce' = InForce /\ UNCHANGED device /\ job = NoJob
        /\ job'.phase \in {"teardown", "entries"}
    BY <1>5, RequestsInForce DEF Activate
  <2>2. up' = up
    BY <1>5 DEF Activate, Boot, BeginDeactivate, BeginForcedDelete, BeginRevertAll
  <2> QED BY <1>4, <2>1, <2>2 DEF Serving
<1>6. ASSUME NEW n \in Netns, Reset(n) PROVE Kept
  <2>1. /\ job = NoJob /\ job' = NoJob /\ up' = up /\ InForce' = InForce
        /\ \A f \in InForce : f.netns # n
    BY <1>6, ResetsInForce
  <2>2. PICK o \in Return(device, {n}) : Becomes(o)
    BY <1>6, ResetsInForce
  <2> DEFINE F == InForce
  <2>3. F \in SUBSET Entry /\ \A f \in F : f.netns \notin {n}
    BY <1>2, <2>1
  <2> HIDE DEF F
  <2>5. (Owners(device, F) => Owners(o.dev, F)) /\ (Supplicants(device, F) => Supplicants(o.dev, F))
    BY <1>2, <2>3, ReturningKeeps
  <2> QED BY <1>0, <1>1, <2>1, <2>2, <2>5 DEF F, Becomes, Serving
<1>7. ASSUME NEW q \in Radio, Unplug(q) \/ Plug(q) \/ ToolTakes(q) \/ ToolLeaves(q) PROVE Kept
  <2>1. UNCHANGED <<applied, job, up>>
    BY <1>7 DEF Unplug, Plug, ToolTakes, ToolLeaves
  <2>2. InForce' = InForce /\ (Serving' => Serving)
    BY <2>1 DEF InForce, EntrySet, Serving
  <2>3. Unplug(q) => happened'["plug"] # 0
    BY SpendOK DEF Unplug, Counted, SystemInvariant, TypeOK, Disturbance
  <2> DEFINE F == InForce
  <2>4. F \in SUBSET Entry
    BY <1>2
  <2> HIDE DEF F
  <2>5. /\ Owners(device, F) => Owners(device', F)
        /\ Supplicants(device, F) => Unplug(q) \/ Supplicants(device', F)
    BY <1>7, <2>4, OutsideKeepsHands
  <2> QED BY <1>0, <1>1, <2>2, <2>3, <2>5 DEF F
<1>8. ASSUME Crash \/ Reboot PROVE Kept
  <2>1. happened'["crash"] # 0
    BY <1>8, SpendOK DEF Crash, Reboot, Counted, SystemInvariant, TypeOK, Disturbance
  <2>2. ~Serving'
    BY <1>2, <1>8 DEF Crash, Reboot, Serving
  <2> QED BY <2>1, <2>2
<1>9. ASSUME NEW p \in Profile, ActivateRefused(p) PROVE FALSE
  BY <1>9, CurrentInForce DEF ActivateRefused
<1>10. ASSUME UNCHANGED <<device, applied, job, up>> PROVE Kept
  BY <1>4, <1>10 DEF InForce, EntrySet, Serving
<1>11. ASSUME NEW p \in Profile, NEW v \in Version,
              Delete(p) \/ Add(p, v) \/ BeginEdit(p, v) \/ WriteEdit \/ Break(p)
       PROVE  UNCHANGED <<device, applied, job, up>>
  BY <1>11 DEF Delete, Add, BeginEdit, WriteEdit, Break
<1>12. CASE Boot
  BY <1>5, <1>12, BootKeeps
<1> HIDE DEF Kept
<1>13. Kept
  BY <1>1, <1>3, <1>5, <1>6, <1>7, <1>8, <1>9, <1>10, <1>11, <1>12, ProfileAssumption DEF Next, vars, Kept
<1> QED BY <1>13 DEF Kept

HandsInvariant ==
  /\ ShapeInvariant
  /\ happened["break"] = 0 => FilesInvariant
  /\ Undisturbed => RecordInvariant
  /\ OwnersInvariant /\ SupplicantsInvariant

LEMMA SystemStartsClean == Init => HandsInvariant
<1>1. ASSUME Init
      PROVE  /\ job = NoJob /\ NoJob.phase = "none" /\ NoJob.op = "none"
             /\ device.owned = {} /\ device.supplicants = {} /\ device.busy = {}
             /\ device.plain = {} /\ \A r \in Radio : device.netdev[r] = Home(r)
             /\ current = Default /\ files = Factory /\ applied = files[current] /\ editing = NoEdit
             /\ Factory[Default] \in Version \ Invalid
  BY <1>1, AtBootOK, NoJobParts, ProfileAssumption DEF Init
<1>2. ASSUME Init PROVE ShapeInvariant
  <2>1. ASSUME NEW r \in Radio PROVE device.netdev[r].netns \notin Netns
    <3>1. device.netdev[r] = Home(r) /\ Home(r).netns = Root
      BY <1>1, <1>2 DEF Home
    <3> QED BY <3>1, NamesAssumption
  <2>2. /\ ~(job.phase \in {"claim", "setup"}) /\ job = NoJob
        /\ device.busy \subseteq touched /\ device.plain = {}
    BY <1>1, <1>2
  <2> QED BY <2>1, <2>2 DEF ShapeInvariant, Housed
<1>3. ASSUME Init PROVE FilesInvariant
  BY <1>3, ProfileAssumption, NoJobParts DEF Init, FilesInvariant
<1>4. ASSUME Init PROVE RecordInvariant
  BY <1>1, <1>4 DEF RecordInvariant, InvalidEntries
<1>5. ASSUME Init PROVE OwnersInvariant /\ SupplicantsInvariant
  BY <1>1, <1>5 DEF OwnersInvariant, SupplicantsInvariant, Owners, Supplicants
<1> QED BY <1>2, <1>3, <1>4, <1>5 DEF HandsInvariant

LEMMA SystemKeepsHands == SystemInvariant /\ HandsInvariant /\ [Next]_vars => HandsInvariant'
<1> SUFFICES ASSUME SystemInvariant, HandsInvariant, [Next]_vars PROVE HandsInvariant'
  OBVIOUS
<1>1. ShapeInvariant'
  BY ShapesAreKept DEF HandsInvariant
<1>2. happened'["break"] = 0 => happened["break"] = 0 /\ FilesInvariant'
  BY HistoryGrows, FilesAreKept DEF HandsInvariant, Disturbance
<1>3. Undisturbed' => Undisturbed /\ RecordInvariant'
  BY NothingDisturbs, RecordsAreKept DEF HandsInvariant, Undisturbed
<1>4. CASE Undisturbed'
  <2>1. OwnersInvariant' /\ SupplicantsInvariant'
    BY <1>3, <1>4, HandsAreKept DEF HandsInvariant
  <2> QED BY <1>1, <1>2, <1>3, <2>1 DEF HandsInvariant
<1>5. CASE ~Undisturbed'
  BY <1>1, <1>2, <1>5 DEF HandsInvariant, OwnersInvariant, SupplicantsInvariant, Tolerable
<1> QED BY <1>4, <1>5

(* The old profile does not linger beside the new one: between changes what   *)
(* Core keeps in current.txt, in its namespaces, in its ownership records and *)
(* in the processes it started is of one profile, whichever profiles were      *)
(* activated, deactivated, deleted and reset before, for any number of them.   *)
THEOREM SystemIsTheProfiles == Spec => []SystemFollowsProfile
<1>1. HandsInvariant => SupplicantsFollowProfile
  BY DEF HandsInvariant, SupplicantsFollowProfile, Quiet, Only, Disturbance, SupplicantsInvariant,
         Tolerable, Undisturbed, Serving, InForce, Supplicants, Wanted
<1>2. HandsInvariant => NetdevsFollowProfile
  BY DEF HandsInvariant, NetdevsFollowProfile, OwnedAreWanted, Quiet, Only, Disturbance,
         OwnersInvariant, Tolerable, Undisturbed, InForce, Owners
<1>3. CurrentNamesAProfile /\ NamespacesFollowProfile /\ HandsInvariant => SystemFollowsProfile
  BY <1>1, <1>2 DEF SystemFollowsProfile
<1> QED BY <1>3, SystemStartsClean, SystemKeepsHands, ProfilesAreKnown, CurrentIsAProfile,
           NamespacesAreTheProfiles, PTL DEF Spec

(* _fall_back_to_default records default only once the rollback has given up  *)
(* every netdev and supplicant the failed activation and its predecessor had,  *)
(* whichever of its commands was the first to fail.                            *)
THEOREM FailedActivationsHandBack == Spec => FailedActivationHandsBack
<1> DEFINE HandsBack ==
      job.op = "activate" /\ job.phase = "fallback" /\ job' = NoJob
      /\ Only({"tool", "fault"}) /\ happened["fault"] <= 1 =>
        /\ device.owned = {} /\ device.supplicants = {}
        /\ \A r \in Radio : device.netdev[r].netns \in Netns =>
             device.netdev[r].netns \in device.core
<1>1. ASSUME HandsInvariant, job.op = "activate", job.phase = "fallback",
             Only({"tool", "fault"}), happened["fault"] <= 1
      PROVE  /\ device.owned = {} /\ device.supplicants = {} /\ device.plain = {} /\ Housed(device)
  <2>1. /\ Undisturbed /\ happened["lapse"] = 0 /\ happened["plug"] = 0 /\ happened["crash"] = 0
        /\ device.plain = {}
    BY <1>1 DEF Only, Disturbance, Undisturbed, HandsInvariant, ShapeInvariant
  <2>2. Tolerable
    BY <1>1, <2>1 DEF HandsInvariant, RecordInvariant, Tolerable, Failing
  <2>3. InForce = {} /\ Serving
    BY <1>1, NoJobParts DEF InForce, Serving
  <2>4. Owners(device, {}) /\ Supplicants(device, {})
    BY <1>1, <2>1, <2>2, <2>3 DEF HandsInvariant, OwnersInvariant, SupplicantsInvariant
  <2> QED BY <1>1, <2>1, <2>4, EmptyHands DEF HandsInvariant, ShapeInvariant
<1>2. HandsInvariant => HandsBack
  BY <1>1 DEF Housed
<1>3. Spec => [][HandsBack]_vars
  BY <1>2, SystemStartsClean, SystemKeepsHands, ProfilesAreKnown, PTL DEF Spec
<1> QED BY <1>3 DEF FailedActivationHandsBack

-------------------------------------------------------------------------------
(* The profile in force is set up in full: as long as no command fails, every *)
(* radio that nobody disturbed is at home, or as the entry in force for it     *)
(* wants it, and the entries a job has passed by are set up.                   *)

Calm ==
  Undisturbed /\ happened["fault"] = 0 /\ happened["lapse"] = 0 /\ happened["crash"] = 0

AtWork(r) == job.phase \in {"claim", "setup"} /\ r = Head(job.todo).radio

RadioSettled(r) ==
  IF AtWork(r) THEN Placed(device, Head(job.todo)) /\ (job.phase = "setup" => r \in device.owned)
  ELSE Settled(device, InForce, r)

RadiosSettled == \A r \in Radio \ touched : RadioSettled(r)

ProfileSetUp ==
  IF job = NoJob
  THEN current # Default =>
         \A e \in EntrySet(applied) : e.radio \notin touched => IsSetUp(device, e)
  ELSE job.phase \in Applying /\ job.profile # Default =>
         \A e \in EntrySet(job.cfg) :
           e.radio \notin touched => e \in Members(job.todo) \/ IsSetUp(device, e)

RadiosInvariant == Calm => RadiosSettled /\ ProfileSetUp

LEMMA NothingCosts ==
  ASSUME SystemInvariant, happened'["fault"] = 0, NEW o, o.cost \in Nat, Becomes(o)
  PROVE  o.cost = 0 /\ device' = o.dev
BY FaultsGrow DEF Becomes

LEMMA NoClaimFails ==
  ASSUME SystemInvariant, happened'["fault"] = 0
  PROVE  ~Spend("fault", 1)
BY FaultsGrow

LEMMA JobsKeepSettled ==
  ASSUME SystemInvariant, ShapeInvariant, JobStep, RadiosSettled, happened'["fault"] = 0,
         device.plain = {}, NEW r \in Radio \ touched
  PROVE  RadioSettled(r)'
<1>0. /\ device \in Device /\ device.core \in SUBSET Netns /\ Housed(device) /\ NoJob.phase = "none"
      /\ job # NoJob => JobShape(job)
      /\ r \notin device.busy
  BY DeviceParts, NoJobParts DEF SystemInvariant, TypeOK, ShapeInvariant
<1>1. job # NoJob /\ JobShape(job) /\ job \in Job
  <2>1. job # NoJob
    BY <1>0 DEF JobStep, UndoEntry, TornDown, ApplyEntry, ClaimEntry, SetupEntry, Applied, Commit,
                RolledBack, FallBack, DeactivateEntry, DeactivatedDefault, Deactivated, Unlink
  <2> QED BY <1>0, <2>1 DEF SystemInvariant, TypeOK
<1>2. RadioSettled(r)
  BY DEF RadiosSettled
<1>3. /\ ~(job.phase \in {"claim", "setup"}) => Settled(device, InForce, r)
      /\ ~(job'.phase \in {"claim", "setup"}) /\ Settled(device', InForce', r) => RadioSettled(r)'
  BY <1>2 DEF RadioSettled, AtWork
<1>4. CASE UndoEntry
  <2>1. PICK o \in Deactivate(device, Head0) : Becomes(o)
    BY <1>1, <1>4, UndoInForce
  <2>2. InForce = InForce' \cup {Head0} /\ Without(InForce', Head0) /\ Head0 \in Entry
    BY <1>1, <1>4, UndoInForce
  <2>3. o.cost = 0 /\ device' = o.dev
    BY <1>0, <2>1, <2>2, DeactivateOK, NothingCosts DEF Undone
  <2> DEFINE F == InForce
             G == InForce'
  <2>4. F = G \cup {Head0} /\ Without(G, Head0)
    BY <2>2
  <2>5. job.phase \in {"teardown", "rollback"} /\ job'.phase = job.phase
    BY <1>4, UndoEntryIs DEF UndoEntry, Stepped
  <2>6. Settled(device, F, r)
    BY <1>3, <2>5
  <2> HIDE DEF F, G
  <2>7. Settled(o.dev, G, r)
    BY <1>0, <2>1, <2>2, <2>3, <2>4, <2>6, UndoingKeeps
  <2> QED BY <1>3, <2>3, <2>5, <2>7 DEF G
<1>5. CASE TornDown
  <2>1. PICK o \in Return(device, device.core) :
             device' = IF job.op = "activate" /\ job.ok /\ job.override
                       THEN KillAllSupplicants(o.dev) ELSE o.dev
    BY <1>5 DEF TornDown, ReturnNamespaces, CoreNamespaces
  <2>2. InForce = {} /\ InForce' = {} /\ job.phase = "teardown" /\ job'.phase \in {"apply", "fallback"}
    BY <1>1, <1>5, OthersInForce, TornDownIs DEF TornDown, Stepped
  <2>3. Settled(device, {}, r)
    BY <1>3, <2>2
  <2>4. Settled(o.dev, {}, r) /\ o.dev \in Device
    BY <1>0, <2>1, <2>3, ReturningKeeps, ReturnOK
  <2>5. device'.netdev = o.dev.netdev /\ device'.owned = o.dev.owned
    BY <2>1, <2>4, KillOK
  <2>6. Settled(device', {}, r)
    BY <2>4, <2>5 DEF Settled
  <2> QED BY <1>3, <2>2, <2>6
<1>6. CASE ApplyEntry
  <2>1. /\ Head0 \in Entry /\ Without(InForce, Head0) /\ job.phase = "apply"
        /\ \/ UNCHANGED device /\ InForce \subseteq InForce' /\ job'.phase = "apply"
           \/ /\ Found(device, Head0) /\ InForce' = InForce
              /\ \E o \in Prepare(device, Head0) :
                   /\ Becomes(o)
                   /\ \/ o.status = "prepared" /\ job'.phase = "claim" /\ job'.todo = job.todo
                      \/ o.status # "prepared"
    BY <1>1, <1>6, ApplyInForce
  <2>2. CASE UNCHANGED device /\ InForce \subseteq InForce' /\ job'.phase = "apply"
    BY <1>3, <2>1, <2>2, MoreKeep
  <2>3. ASSUME NEW o \in Prepare(device, Head0), Becomes(o), Found(device, Head0), InForce' = InForce,
               \/ o.status = "prepared" /\ job'.phase = "claim" /\ job'.todo = job.todo
               \/ o.status # "prepared"
        PROVE  RadioSettled(r)'
    <3> DEFINE F == InForce
    <3>1. Without(F, Head0) /\ Settled(device, F, r)
      BY <1>3, <2>1
    <3> HIDE DEF F
    <3>2. Prepared(device, Head0, o)
      BY <1>0, <2>1, <2>3, PrepareOK
    <3>3. o.cost = 0 /\ device' = o.dev
      BY <2>3, <3>2, NothingCosts DEF Prepared
    <3>4. job'.phase = "claim" /\ job'.todo = job.todo /\ Placed(device', Head0)
      BY <2>3, <3>2, <3>3 DEF Prepared
    <3>5. r # Head0.radio => Settled(device', F, r)
      BY <1>0, <2>1, <2>3, <3>1, <3>3, PreparingKeeps
    <3> QED BY <2>3, <3>4, <3>5 DEF RadioSettled, AtWork, Head0, F
  <2> QED BY <2>1, <2>2, <2>3
<1>7. CASE ClaimEntry
  <2>1. /\ Head0 \in Entry /\ InForce' = InForce \cup {Head0} /\ device' = Claim(device, Head0)
        /\ job.phase = "claim" /\ job'.phase = "setup" /\ job'.todo = job.todo
    BY <1>1, <1>7, ClaimInForce, NoClaimFails DEF Stepped
  <2>2. /\ device'.netdev = device.netdev
        /\ device'.owned = IF Placed(device, Head0) THEN device.owned \cup {Head0.radio} ELSE device.owned
    BY <1>0, <2>1, ClaimOK
  <2>3. CASE r = Head0.radio
    BY <1>2, <2>1, <2>2, <2>3 DEF RadioSettled, AtWork, Head0, Placed
  <2>4. CASE r # Head0.radio
    <3> DEFINE F == InForce
    <3>1. Settled(device, F, r)
      BY <1>2, <2>1, <2>4 DEF RadioSettled, AtWork, Head0
    <3> HIDE DEF F
    <3>2. Settled(device', F \cup {Head0}, r)
      BY <1>0, <2>1, <3>1, ClaimingKeeps
    <3> QED BY <2>1, <2>4, <3>2 DEF RadioSettled, AtWork, Head0, F
  <2> QED BY <2>3, <2>4
<1>8. CASE SetupEntry
  <2> DEFINE F == Members(job.done)
  <2>1. /\ Head0 \in Entry /\ Without(F, Head0) /\ InForce = F \cup {Head0} /\ job.phase = "setup"
        /\ job'.phase \in {"apply", "rollback"}
    BY <1>1, <1>8, SetupInForce, SetupEntryIs DEF Stepped
  <2>2. PICK o \in Setup(device, Head0) :
          Becomes(o) /\ (IF o.status = "raised" THEN InForce' = F ELSE InForce' = InForce)
    BY <1>1, <1>8, SetupInForce
  <2> HIDE DEF F
  <2>3. o.cost \in Nat /\ (o.status = "raised" => o.cost >= 1 \/ ~Placed(device, Head0))
    BY <1>0, <2>1, SetupOK
  <2>4. o.cost = 0 /\ device' = o.dev
    BY <2>2, <2>3, NothingCosts
  <2>5. r = Head0.radio => Placed(device, Head0) /\ r \in device.owned
    BY <1>2, <2>1 DEF RadioSettled, AtWork, Head0
  <2>6. Settled(device, F \cup {Head0}, r)
    <3>1. r # Head0.radio => Settled(device, InForce, r)
      BY <1>2, <2>1 DEF RadioSettled, AtWork, Head0
    <3> QED BY <2>1, <2>5, <3>1 DEF Settled
  <2>7. Settled(device', InForce', r)
    <3>1. CASE o.status = "raised"
      BY <1>0, <2>1, <2>2, <2>3, <2>4, <2>5, <2>6, <3>1, SettingUpKeeps
    <3>2. CASE o.status # "raised"
      <4>1. Settled(o.dev, F \cup {Head0}, r)
        BY <1>0, <2>1, <2>2, <2>6, <3>2, SettingUpKeeps
      <4>2. InForce' = F \cup {Head0}
        BY <2>1, <2>2, <3>2
      <4> QED BY <2>4, <4>1, <4>2
    <3> QED BY <3>1, <3>2
  <2> QED BY <1>3, <2>1, <2>7
<1>9. CASE Applied
  <2>1. /\ InForce' = InForce /\ UNCHANGED device /\ job.phase = "apply"
        /\ job'.phase \in {"commit", "rollback"}
    BY <1>1, <1>9, OthersInForce, AppliedIs DEF Applied, Stepped
  <2> QED BY <1>3, <2>1
<1>10. CASE Commit
  <2>1. InForce \subseteq InForce' /\ UNCHANGED device /\ job.phase = "commit" /\ job'.phase = "none"
    BY <1>0, <1>1, <1>10, OthersInForce DEF Commit, Finish
  <2> QED BY <1>3, <2>1, MoreKeep
<1>11. CASE RolledBack \/ FallBack \/ DeactivatedDefault \/ Unlink
  <2>1. /\ InForce = {} /\ UNCHANGED device
        /\ job.phase \in {"rollback", "fallback", "entries", "record", "unlink"}
    BY <1>1, <1>11, OthersInForce DEF RolledBack, FallBack, DeactivatedDefault, Unlink
  <2>2. job'.phase \in {"fallback", "returned", "none"}
    BY <1>0, <1>11, GotoIs DEF RolledBack, FallBack, DeactivatedDefault, Unlink, Finish, Stepped, Phase
  <2> QED BY <1>3, <2>1, <2>2, MoreKeep
<1>12. CASE DeactivateEntry
  <2>1. PICK o \in Deactivate(device, Head0) :
          /\ Becomes(o)
          /\ o.status # "raised" => InForce = InForce' \cup {Head0} /\ Without(InForce', Head0)
    BY <1>1, <1>12, DeactivateInForce
  <2>2. Head0 \in Entry /\ job.phase = "entries" /\ job'.phase \in {"entries", "record"}
    BY <1>1, <1>12, DeactivateInForce, DeactivateEntryIs DEF DeactivateEntry, Stepped
  <2>3. o.cost \in Nat /\ (o.status = "raised" => o.cost >= 1)
    BY <1>0, <2>1, <2>2, DeactivateOK DEF Undone
  <2>4. o.cost = 0 /\ device' = o.dev
    BY <2>1, <2>3, NothingCosts
  <2> DEFINE F == InForce
             G == InForce'
  <2>5. F = G \cup {Head0} /\ Without(G, Head0) /\ Settled(device, F, r)
    BY <1>3, <2>1, <2>2, <2>3, <2>4
  <2> HIDE DEF F, G
  <2>6. Settled(o.dev, G, r)
    BY <1>0, <2>1, <2>2, <2>4, <2>5, UndoingKeeps
  <2> QED BY <1>3, <2>2, <2>4, <2>6 DEF G
<1>13. CASE Deactivated
  <2>1. PICK o \in Return(device, device.core) : device' = o.dev
    BY <1>13 DEF Deactivated, Becomes, ReturnNamespaces, CoreNamespaces
  <2>2. InForce = {} /\ job.phase = "returned" /\ job'.phase \in {"unlink", "none"}
    BY <1>0, <1>1, <1>13, OthersInForce, GotoIs DEF Deactivated, Finish, Stepped, Phase
  <2>3. Settled(device', {}, r)
    BY <1>0, <1>3, <2>1, <2>2, ReturningKeeps
  <2> QED BY <1>3, <2>2, <2>3, MoreKeep
<1> QED BY <1>4, <1>5, <1>6, <1>7, <1>8, <1>9, <1>10, <1>11, <1>12, <1>13 DEF JobStep

(* Of the entries of a profile only the one that is being applied can change *)
LEMMA JobsKeepSetUp ==
  ASSUME SystemInvariant, ShapeInvariant, FilesInvariant, JobStep, RadiosSettled, ProfileSetUp,
         happened'["fault"] = 0
  PROVE  ProfileSetUp'
<1>0. /\ device \in Device /\ NoJob.phase = "none" /\ device.busy \subseteq touched
      /\ job # NoJob => JobShape(job)
      /\ Applying = {"apply", "claim", "setup", "commit"} /\ \A j \in Job : j # NoJob
  BY NoJobParts, JobParts DEF SystemInvariant, TypeOK, ShapeInvariant, Applying
<1>1. job # NoJob /\ JobShape(job) /\ job \in Job /\ job.cfg \in Version
  <2>1. job # NoJob
    BY <1>0 DEF JobStep, UndoEntry, TornDown, ApplyEntry, ClaimEntry, SetupEntry, Applied, Commit,
                RolledBack, FallBack, DeactivateEntry, DeactivatedDefault, Deactivated, Unlink
  <2> QED BY <1>0, <2>1, JobParts DEF SystemInvariant, TypeOK
<1>2. ASSUME job' \in Job, ~(job'.phase \in Applying) PROVE ProfileSetUp'
  <2>1. job' # NoJob
    BY <1>0, <1>2
  <2> QED BY <1>2, <2>1 DEF ProfileSetUp
<1>3. ASSUME job' = NoJob, current' = Default PROVE ProfileSetUp'
  BY <1>3 DEF ProfileSetUp
<1>4. /\ \A e \in EntrySet(job.cfg) : e \in Entry
      /\ Members(job.todo) \subseteq Entry
      /\ job.phase \in Applying => Members(job.todo) \subseteq EntrySet(job.cfg)
      /\ \A e, f \in EntrySet(job.cfg) : e.radio = f.radio => e = f
      /\ job.todo # <<>> => Members(job.todo) = Members(Rest) \cup {Head0}
  BY <1>0, <1>1, LayoutsAreUnique, ListsOfJobs DEF JobShape
<1>5. job.phase \in Applying /\ job.profile # Default =>
        \A e \in EntrySet(job.cfg) :
          e.radio \notin touched => e \in Members(job.todo) \/ IsSetUp(device, e)
  BY <1>1 DEF ProfileSetUp
<1>6. ASSUME job' \in Job, job'.cfg = job.cfg, job'.profile = job.profile, UNCHANGED touched,
             job.profile # Default =>
               \A e \in EntrySet(job.cfg) :
                 e.radio \notin touched => e \in Members(job'.todo) \/ IsSetUp(device', e)
      PROVE  ProfileSetUp'
  <2>1. job' # NoJob
    BY <1>0, <1>6
  <2> QED BY <1>6, <2>1 DEF ProfileSetUp, EntrySet
<1>7. CASE UndoEntry \/ RolledBack \/ DeactivateEntry \/ DeactivatedDefault
  <2>1. job' \in Job /\ job'.phase \in {"teardown", "rollback", "fallback", "entries", "record", "returned"}
    BY <1>0, <1>7, UndoEntryIs, DeactivateEntryIs, GotoIs
       DEF UndoEntry, RolledBack, DeactivatedDefault, Stepped, Phase
  <2> QED BY <1>0, <1>2, <2>1
<1>8. CASE TornDown
  <2>1. /\ job' \in Job /\ job'.cfg = job.cfg /\ job'.profile = job.profile /\ UNCHANGED touched
        /\ (job'.phase = "fallback" \/ job'.todo = Layout[job.cfg])
    BY <1>8, TornDownIs DEF TornDown, KeepFiles, Stepped
  <2>2. job'.todo = Layout[job.cfg] => Members(job'.todo) = EntrySet(job.cfg)
    BY <1>1, LayoutsAreUnique
  <2>3. CASE job'.phase = "fallback"
    BY <1>0, <1>2, <2>1, <2>3
  <2> QED BY <1>6, <2>1, <2>2, <2>3
<1>9. CASE ApplyEntry
  <2>1. /\ Head0 \in Entry /\ Without(InForce, Head0) /\ job.phase = "apply" /\ job' \in Job
        /\ job'.cfg = job.cfg /\ job'.profile = job.profile /\ UNCHANGED touched
        /\ \/ /\ UNCHANGED device /\ job'.todo = Rest
              /\ job.profile = Default \/ ~Found(device, Head0) \/ InUse(device, Head0.radio)
           \/ /\ Found(device, Head0)
              /\ \E o \in Prepare(device, Head0) :
                   Becomes(o) /\ (o.status = "prepared" => job'.todo = job.todo)
    BY <1>1, <1>9, ApplyInForce DEF ApplyEntry, KeepFiles
  <2>2. job.phase \in Applying /\ Members(job.todo) = Members(Rest) \cup {Head0}
        /\ Head0 \in EntrySet(job.cfg)
    BY <1>0, <1>4, <1>9, <2>1 DEF ApplyEntry
  <2>3. ASSUME UNCHANGED device, job'.todo = Rest,
               job.profile = Default \/ ~Found(device, Head0) \/ InUse(device, Head0.radio)
        PROVE  ProfileSetUp'
    <3>1. ASSUME job.profile # Default, Head0.radio \notin touched PROVE FALSE
      <4>1. Head0.radio \in Radio /\ ~InUse(device, Head0.radio)
        BY <1>0, <2>1, <3>1 DEF Entry, InUse
      <4>2. Settled(device, InForce, Head0.radio)
        BY <2>1, <3>1, <4>1 DEF RadiosSettled, RadioSettled, AtWork
      <4>3. device.netdev[Head0.radio] = Home(Head0.radio)
        BY <2>1, <4>2 DEF Settled, Without
      <4>4. Found(device, Head0)
        BY <4>3 DEF Found, Home
      <4> QED BY <2>3, <3>1, <4>1, <4>4
    <3> QED BY <1>5, <1>6, <2>1, <2>2, <2>3, <3>1
  <2>4. ASSUME NEW o \in Prepare(device, Head0), Becomes(o), Found(device, Head0),
               o.status = "prepared" => job'.todo = job.todo
        PROVE  ProfileSetUp'
    <3>1. Prepared(device, Head0, o)
      BY <1>0, <2>1, <2>4, PrepareOK
    <3>2. device' = o.dev /\ job'.todo = job.todo
      BY <2>4, <3>1, NothingCosts DEF Prepared
    <3>3. \A f \in Entry : f.radio # Head0.radio /\ IsSetUp(device, f) => IsSetUp(device', f)
      <4>1. Without({}, Head0)
        BY DEF Without
      <4> QED BY <1>0, <2>1, <2>4, <3>2, <4>1, PreparingKeeps
    <3>4. \A e \in EntrySet(job.cfg) : e \in Members(job.todo) \/ e.radio # Head0.radio
      BY <1>4, <2>2
    <3> QED BY <1>4, <1>5, <1>6, <2>1, <2>2, <3>2, <3>3, <3>4
  <2> QED BY <2>1, <2>3, <2>4
<1>10. CASE ClaimEntry
  <2>1. /\ Head0 \in Entry /\ device' = Claim(device, Head0) /\ job.phase = "claim" /\ job' \in Job
        /\ job'.cfg = job.cfg /\ job'.profile = job.profile /\ job'.todo = job.todo /\ UNCHANGED touched
    BY <1>1, <1>10, ClaimInForce, NoClaimFails DEF ClaimEntry, KeepFiles, Stepped
  <2>2. \A f \in Entry : IsSetUp(device, f) => IsSetUp(device', f)
    BY <1>0, <2>1, ClaimingKeeps
  <2> QED BY <1>0, <1>4, <1>5, <1>6, <2>1, <2>2
<1>11. CASE SetupEntry
  <2>1. /\ Head0 \in Entry /\ Without(Members(job.done), Head0) /\ job.phase = "setup"
        /\ Members(job.todo) = Members(Rest) \cup {Head0}
    BY <1>1, <1>4, <1>11, SetupInForce DEF SetupEntry, SystemInvariant, KeepsGuards
  <2>2. PICK o \in Setup(device, Head0) :
          /\ Becomes(o)
          /\ IF o.status = "raised" THEN Stepped(job, job', "rollback", FALSE, job.done, job.done)
             ELSE Stepped(job, job', "apply", job.ok, Rest, Append(job.done, Head0))
    BY <1>11, SetupEntryIs
  <2>3. CASE o.status = "raised"
    BY <1>0, <1>2, <2>2, <2>3 DEF Stepped
  <2>4. CASE o.status # "raised"
    <3>1. /\ job' \in Job /\ job'.cfg = job.cfg /\ job'.profile = job.profile /\ job'.todo = Rest
          /\ UNCHANGED touched
      BY <1>11, <2>2, <2>4 DEF SetupEntry, KeepFiles, Stepped
    <3>2. device' = o.dev
      BY <2>2 DEF Becomes
    <3>3. /\ Placed(device, Head0) /\ Head0.radio \in device.owned => IsSetUp(device', Head0)
          /\ \A f \in Entry : IsSetUp(device, f) => IsSetUp(device', f)
      BY <1>0, <2>1, <2>2, <2>4, <3>2, SettingUpKeeps
    <3>4. Head0.radio \notin touched => Placed(device, Head0) /\ Head0.radio \in device.owned
      BY <2>1 DEF RadiosSettled, RadioSettled, AtWork, Head0, Entry
    <3> QED BY <1>0, <1>4, <1>5, <1>6, <2>1, <3>1, <3>3, <3>4
  <2> QED BY <2>3, <2>4
<1>12. CASE Applied
  <2>1. job.phase = "apply" /\ UNCHANGED <<device, touched>>
    BY <1>12 DEF Applied, KeepFiles
  <2>2. \/ job'.phase = "rollback" /\ job' \in Job
        \/ /\ job' \in Job /\ job'.cfg = job.cfg /\ job'.profile = job.profile
           /\ job'.todo = job.todo
    BY <1>12, AppliedIs DEF Stepped
  <2> QED BY <1>0, <1>2, <1>5, <1>6, <2>1, <2>2
<1>13. CASE Commit
  <2>1. /\ job.phase = "commit" /\ UNCHANGED <<device, touched>>
        /\ job' = NoJob /\ current' = job.profile /\ applied' = job.cfg
    BY <1>13 DEF Commit, Record, Finish, KeepFiles
  <2>2. Members(job.todo) = {}
    BY <1>1, <2>1, NoMembers DEF JobShape
  <2>3. current' # Default =>
          \A e \in EntrySet(job.cfg) : e.radio \notin touched => IsSetUp(device, e)
    BY <1>0, <1>5, <2>1, <2>2
  <2> QED BY <2>1, <2>3 DEF ProfileSetUp, EntrySet
<1>14. CASE FallBack
  BY <1>3, <1>14 DEF FallBack, RecordDefault, Record, Finish
<1>15. CASE Deactivated
  <2>1. job.phase = "returned" /\ current' = Default
    BY <1>15 DEF Deactivated, FilesInvariant
  <2>2. Goto("unlink") => job' \in Job /\ job'.phase = "unlink"
    BY <2>1, GotoIs DEF Stepped, Phase
  <2> QED BY <1>0, <1>2, <1>3, <1>15, <2>1, <2>2 DEF Deactivated, Finish
<1>16. CASE Unlink
  BY <1>3, <1>16 DEF Unlink, Finish, FilesInvariant
<1> QED BY <1>7, <1>8, <1>9, <1>10, <1>11, <1>12, <1>13, <1>14, <1>15, <1>16 DEF JobStep

(* A radio that is plugged in was touched when it was unplugged *)
LEMMA OutsideKeepsRadios ==
  ASSUME SystemInvariant, RadiosSettled, ProfileSetUp, NEW q \in Radio,
         Unplug(q) \/ Plug(q) \/ ToolTakes(q) \/ ToolLeaves(q)
  PROVE  RadiosSettled' /\ ProfileSetUp'
<1>0. /\ UNCHANGED <<job, applied, current>> /\ touched \subseteq touched'
      /\ (Unplug(q) => q \in touched') /\ InForce' = InForce /\ InForce \in SUBSET Entry
  <2>1. UNCHANGED <<job, applied, current>>
    BY DEF Unplug, Plug, ToolTakes, ToolLeaves
  <2>2. InForce' = InForce
    BY <2>1 DEF InForce, EntrySet
  <2>3. touched \subseteq touched' /\ (Unplug(q) => q \in touched')
    BY DEF Unplug, Plug, ToolTakes, ToolLeaves
  <2> QED BY <2>1, <2>2, <2>3, InForceAreEntries
<1>1. \A e \in Entry : e.radio \in Radio /\ ~(Placed(device, e) /\ device.netdev[e.radio] = Unplugged)
  BY NamesAssumption DEF Entry, Placed, Unplugged, Place
<1>2. ASSUME NEW r \in Radio, r \notin touched', device.netdev[r] # Unplugged
      PROVE  device'.netdev[r] = device.netdev[r] /\ (r \in device'.owned <=> r \in device.owned)
  BY <1>0, <1>2, OutsideTouches
<1>3. device'.supplicants = device.supplicants
  BY OutsideTouches
<1>4. ASSUME NEW r \in Radio, r \notin touched' PROVE RadioSettled(r)'
  <2>1. RadioSettled(r)
    BY <1>0, <1>4 DEF RadiosSettled
  <2>2. CASE AtWork(r)
    <3>1. /\ Placed(device, Head(job.todo)) /\ r = Head(job.todo).radio
          /\ job.phase = "setup" => r \in device.owned
      BY <2>1, <2>2 DEF RadioSettled, AtWork
    <3>2. Head(job.todo) \in Entry
      <4>1. job \in Job /\ job.todo # <<>>
        BY <2>2, JobIsRunning DEF AtWork, SystemInvariant, KeepsGuards
      <4> QED BY <4>1, JobParts, EntriesHaveParts
    <3>3. device.netdev[r] # Unplugged
      BY <1>1, <3>1, <3>2
    <3>4. /\ Placed(device', Head(job.todo)) /\ (job.phase = "setup" => r \in device'.owned)
      BY <1>2, <1>4, <3>1, <3>3 DEF Placed
    <3> QED BY <1>0, <2>2, <3>4 DEF RadioSettled, AtWork
  <2>3. CASE ~AtWork(r)
    <3> DEFINE F == InForce
    <3>1. Settled(device, F, r) /\ F \in SUBSET Entry
      BY <1>0, <2>1, <2>3 DEF RadioSettled
    <3> HIDE DEF F
    <3>2. device.netdev[r] # Unplugged
      BY <1>1, <3>1, NamesAssumption DEF Settled, Home, Unplugged
    <3>3. \A e \in F : e.radio = r /\ Placed(device, e) => Placed(device', e)
      BY <1>2, <1>4, <3>2 DEF Placed
    <3>4. Settled(device', F, r)
      BY <1>2, <1>4, <3>1, <3>2, <3>3 DEF Settled
    <3>5. ~AtWork(r)'
      BY <1>0, <2>3 DEF AtWork
    <3> QED BY <1>0, <3>4, <3>5 DEF RadioSettled, F
  <2> QED BY <2>2, <2>3
<1>5. ASSUME NEW e \in Entry, e.radio \notin touched', IsSetUp(device, e) PROVE IsSetUp(device', e)
  <2>1. e.radio \in Radio /\ device.netdev[e.radio] # Unplugged
    BY <1>1, <1>5 DEF IsSetUp
  <2> QED BY <1>2, <1>3, <1>5, <2>1 DEF IsSetUp, Placed
<1>6. /\ \A e \in EntrySet(applied) : e \in Entry
      /\ job # NoJob => \A e \in EntrySet(job.cfg) : e \in Entry
  BY LayoutsAreUnique, JobParts DEF SystemInvariant, TypeOK
<1>7. ProfileSetUp'
  <2>1. CASE job = NoJob
    <3>1. /\ current # Default =>
               \A e \in EntrySet(applied) : e.radio \notin touched => IsSetUp(device, e)
      BY <2>1 DEF ProfileSetUp
    <3>2. current # Default =>
               \A e \in EntrySet(applied) : e.radio \notin touched' => IsSetUp(device', e)
      BY <1>0, <1>5, <1>6, <3>1
    <3> QED BY <1>0, <2>1, <3>2 DEF ProfileSetUp, EntrySet
  <2>2. CASE job # NoJob
    <3>1. job.phase \in Applying /\ job.profile # Default =>
            \A e \in EntrySet(job.cfg) :
              e.radio \notin touched => e \in Members(job.todo) \/ IsSetUp(device, e)
      BY <2>2 DEF ProfileSetUp
    <3>2. job.phase \in Applying /\ job.profile # Default =>
            \A e \in EntrySet(job.cfg) :
              e.radio \notin touched' => e \in Members(job.todo) \/ IsSetUp(device', e)
      BY <1>0, <1>5, <1>6, <2>2, <3>1
    <3> QED BY <1>0, <2>2, <3>2 DEF ProfileSetUp, EntrySet
  <2> QED BY <2>1, <2>2
<1> QED BY <1>4, <1>7 DEF RadiosSettled

LEMMA RadiosStaySettled ==
  ASSUME SystemInvariant, ShapeInvariant, FilesInvariant, RecordInvariant, Calm', Undisturbed,
         RadiosInvariant, [Next]_vars
  PROVE  RadiosSettled' /\ ProfileSetUp'
<1>0. /\ happened'["fault"] = 0 /\ happened'["crash"] = 0
      /\ RadiosSettled /\ ProfileSetUp /\ device.plain = {} /\ ~Lapse
  BY HistoryGrows, NothingIsCut DEF RadiosInvariant, Calm, Disturbance, ShapeInvariant
<1>1. device \in Device /\ NoJob.phase = "none" /\ NoJob.op = "none"
  BY NoJobParts DEF SystemInvariant, TypeOK
<1>2. CASE JobStep
  <2>1. UNCHANGED touched
    BY <1>2 DEF JobStep, UndoEntry, TornDown, ApplyEntry, ClaimEntry, SetupEntry, Applied, Commit,
                RolledBack, FallBack, DeactivateEntry, DeactivatedDefault, Deactivated, Unlink, KeepFiles
  <2>2. ASSUME NEW r \in Radio \ touched PROVE RadioSettled(r)'
    BY <1>0, <1>2, JobsKeepSettled
  <2> QED BY <1>0, <1>2, <2>1, <2>2, JobsKeepSetUp DEF RadiosSettled
<1>3. ASSUME UNCHANGED <<device, job, touched, applied, current>> PROVE RadiosSettled' /\ ProfileSetUp'
  <2>1. RadiosSettled'
    BY <1>0, <1>3 DEF RadiosSettled, RadioSettled, AtWork, InForce, EntrySet
  <2> QED BY <1>0, <1>3, <2>1 DEF ProfileSetUp, EntrySet
<1>4. ASSUME NEW p \in Profile, NEW override \in BOOLEAN,
             BeginActivate(p, override) \/ BeginDeactivate(p) \/ BeginForcedDelete(p) \/ BeginRevertAll
      PROVE  RadiosSettled' /\ ProfileSetUp'
  <2>1. /\ InForce' = InForce /\ UNCHANGED <<device, touched>>
        /\ job = NoJob /\ job' # NoJob /\ job'.phase \in {"teardown", "entries"}
    BY <1>4, RequestsInForce DEF Calm
  <2>2. ProfileSetUp'
    BY <2>1 DEF ProfileSetUp, Applying
  <2>3. RadiosSettled'
    BY <1>0, <1>1, <2>1 DEF RadiosSettled, RadioSettled, AtWork
  <2> QED BY <2>2, <2>3
<1>5. ASSUME NEW n \in Netns, Reset(n) PROVE RadiosSettled' /\ ProfileSetUp'
  <2>1. /\ job = NoJob /\ job' = NoJob /\ InForce' = InForce /\ UNCHANGED <<applied, current, touched>>
        /\ InForce \in SUBSET Entry /\ \A f \in InForce : f.netns # n
    BY <1>5, ResetsInForce DEF Reset, Resettable
  <2>2. PICK o \in Return(device, {n}) : Becomes(o)
    BY <1>5, ResetsInForce
  <2>3. InForce = EntrySet(applied)
    BY <2>1, CurrentInForce
  <2> DEFINE F == InForce
  <2>4. F \in SUBSET Entry /\ \A f \in F : f.netns \notin {n}
    BY <2>1
  <2>5. \A r \in Radio \ touched : Settled(device, F, r)
    BY <1>0, <1>1, <2>1 DEF RadiosSettled, RadioSettled, AtWork
  <2> HIDE DEF F
  <2>6. /\ \A r \in Radio : Settled(device, F, r) => Settled(o.dev, F, r)
        /\ \A f \in F : IsSetUp(device, f) => IsSetUp(o.dev, f)
    BY <1>1, <2>2, <2>4, ReturningKeeps
  <2>7. RadiosSettled'
    BY <1>1, <2>1, <2>2, <2>5, <2>6 DEF RadiosSettled, RadioSettled, AtWork, Becomes, F
  <2>8. ProfileSetUp'
    BY <1>0, <2>1, <2>2, <2>3, <2>6 DEF ProfileSetUp, Becomes, F, EntrySet
  <2> QED BY <2>7, <2>8
<1>6. ASSUME NEW q \in Radio, Unplug(q) \/ Plug(q) \/ ToolTakes(q) \/ ToolLeaves(q)
      PROVE  RadiosSettled' /\ ProfileSetUp'
  BY <1>0, <1>6, OutsideKeepsRadios
<1>7. ASSUME Crash \/ Reboot PROVE FALSE
  BY <1>0, <1>7, SpendOK DEF Crash, Reboot, Counted, SystemInvariant, TypeOK, Disturbance
<1>8. ASSUME NEW p \in Profile, ActivateRefused(p) PROVE FALSE
  BY <1>8, CurrentInForce DEF ActivateRefused
<1>9. ASSUME NEW p \in Profile, NEW v \in Version,
             Delete(p) \/ Add(p, v) \/ BeginEdit(p, v) \/ WriteEdit \/ Break(p)
      PROVE  UNCHANGED <<device, job, touched, applied, current>>
  BY <1>9 DEF Delete, Add, BeginEdit, WriteEdit, Break
<1>10. CASE Boot
  BY <1>4, <1>10, BootKeeps
<1> QED BY <1>0, <1>2, <1>3, <1>4, <1>5, <1>6, <1>7, <1>8, <1>9, <1>10, ProfileAssumption
        DEF Next, Activate, vars

(* An activation that is recorded as done was done: whatever its predecessor  *)
(* had made of the radios, each that nobody disturbed since is where the       *)
(* profile wants it, under its name, owned and associating, for any number of  *)
(* radios, entries and earlier changes.                                        *)
THEOREM CurrentProfileIsSetUp == Spec => []CurrentIsSetUp
<1> DEFINE Inv == HandsInvariant /\ RadiosInvariant
<1>1. Init => Inv
  <2>1. ASSUME Init PROVE RadiosSettled /\ ProfileSetUp
    <3>1. /\ job = NoJob /\ NoJob.phase = "none" /\ current = Default
          /\ \A r \in Radio : device.netdev[r] = Home(r)
      BY <2>1, AtBootOK, NoJobParts DEF Init
    <3> QED BY <3>1 DEF RadiosSettled, RadioSettled, AtWork, Settled, ProfileSetUp
  <2> QED BY <2>1, SystemStartsClean DEF RadiosInvariant
<1>2. SystemInvariant /\ Inv /\ [Next]_vars => Inv'
  <2> SUFFICES ASSUME SystemInvariant, Inv, [Next]_vars PROVE Inv'
    OBVIOUS
  <2>1. HandsInvariant'
    BY SystemKeepsHands
  <2>2. ASSUME Calm' PROVE RadiosSettled' /\ ProfileSetUp'
    <3>1. Undisturbed
      BY <2>2, NothingDisturbs DEF Calm
    <3>2. ShapeInvariant /\ FilesInvariant /\ RecordInvariant
      BY <3>1 DEF HandsInvariant, Undisturbed
    <3> QED BY <2>2, <3>1, <3>2, RadiosStaySettled
  <2> QED BY <2>1, <2>2 DEF RadiosInvariant
<1>3. Inv => CurrentIsSetUp
  BY DEF CurrentIsSetUp, Quiet, Only, Disturbance, RadiosInvariant, Calm, Undisturbed, ProfileSetUp,
         IsSetUp
<1> QED BY <1>1, <1>2, <1>3, ProfilesAreKnown, PTL DEF Spec

-------------------------------------------------------------------------------
(* The part of ChangesEnd that is no liveness: a change never takes more      *)
(* steps than a number that is known when it starts, and each step takes it   *)
(* nearer to its end.  The steps a job has left at most, from its phase and   *)
(* the entries it has yet to do and to undo, and from whether all has gone    *)
(* well so far:                                                               *)

StepsFrom(phase, ok, l, n, d) ==
  CASE phase = "teardown" -> 4 + 4 * l + n + d
    [] phase = "apply"    -> 3 + 4 * n + d
    [] phase = "claim"    -> 2 + 4 * n + d
    [] phase = "setup"    -> 1 + 4 * n + d
    [] phase = "entries"  -> 5 + n
    [] phase = "rollback" -> 2 + n
    [] phase = "record"   -> 4
    [] phase = "returned" -> IF ok THEN 3 ELSE 2
    [] OTHER              -> 1

StepsLeft(j) == StepsFrom(j.phase, j.ok, Len(Layout[j.cfg]), Len(j.todo), Len(j.done))

(* A job is left as it is, ends, or is nearer to its end; its own steps never *)
(* leave it as it is.                                                         *)
ChangesShrink ==
  [][job # NoJob =>
       /\ StepsLeft(job) \in Nat
       /\ job' = job \/ job' = NoJob \/ StepsLeft(job') < StepsLeft(job)
       /\ JobStep => job' # job]_vars

LEMMA Lengths ==
  ASSUME NEW s \in Seq(Entry)
  PROVE  /\ Len(s) \in Nat
         /\ s # <<>> => Len(s) >= 1 /\ Len(Tail(s)) = Len(s) - 1
         /\ s = <<>> => Len(s) = 0
         /\ \A e \in Entry : Len(Append(s, e)) = Len(s) + 1
OBVIOUS

LEMMA StepsOfPhases ==
  ASSUME NEW phase, NEW ok, NEW l \in Nat, NEW n \in Nat, NEW d \in Nat
  PROVE  /\ phase = "teardown" => StepsFrom(phase, ok, l, n, d) = 4 + 4 * l + n + d
         /\ phase = "apply" => StepsFrom(phase, ok, l, n, d) = 3 + 4 * n + d
         /\ phase = "claim" => StepsFrom(phase, ok, l, n, d) = 2 + 4 * n + d
         /\ phase = "setup" => StepsFrom(phase, ok, l, n, d) = 1 + 4 * n + d
         /\ phase = "entries" => StepsFrom(phase, ok, l, n, d) = 5 + n
         /\ phase = "rollback" => StepsFrom(phase, ok, l, n, d) = 2 + n
         /\ phase = "record" => StepsFrom(phase, ok, l, n, d) = 4
         /\ phase = "returned" => StepsFrom(phase, ok, l, n, d) = IF ok THEN 3 ELSE 2
         /\ phase \in {"return", "commit", "fallback", "unlink"} => StepsFrom(phase, ok, l, n, d) = 1
<1>1. /\ phase = "teardown" => StepsFrom(phase, ok, l, n, d) = 4 + 4 * l + n + d
      /\ phase = "apply" => StepsFrom(phase, ok, l, n, d) = 3 + 4 * n + d
      /\ phase = "claim" => StepsFrom(phase, ok, l, n, d) = 2 + 4 * n + d
      /\ phase = "setup" => StepsFrom(phase, ok, l, n, d) = 1 + 4 * n + d
  BY DEF StepsFrom
<1>2. /\ phase = "entries" => StepsFrom(phase, ok, l, n, d) = 5 + n
      /\ phase = "rollback" => StepsFrom(phase, ok, l, n, d) = 2 + n
      /\ phase = "record" => StepsFrom(phase, ok, l, n, d) = 4
      /\ phase = "returned" => StepsFrom(phase, ok, l, n, d) = IF ok THEN 3 ELSE 2
  BY DEF StepsFrom
<1>3. phase \in {"return", "commit", "fallback", "unlink"} => StepsFrom(phase, ok, l, n, d) = 1
  BY DEF StepsFrom
<1> QED BY <1>1, <1>2, <1>3

(* The steps that are left of a job, by its phase, for lengths l, n and d *)
Ahead(j, l, n, d) ==
  /\ j.phase = "teardown" => StepsLeft(j) = 4 + 4 * l + n + d
  /\ j.phase = "apply" => StepsLeft(j) = 3 + 4 * n + d
  /\ j.phase = "claim" => StepsLeft(j) = 2 + 4 * n + d
  /\ j.phase = "setup" => StepsLeft(j) = 1 + 4 * n + d
  /\ j.phase = "entries" => StepsLeft(j) = 5 + n
  /\ j.phase = "rollback" => StepsLeft(j) = 2 + n
  /\ j.phase = "record" => StepsLeft(j) = 4
  /\ j.phase = "returned" => StepsLeft(j) = IF j.ok THEN 3 ELSE 2
  /\ j.phase \in {"return", "commit", "fallback", "unlink"} => StepsLeft(j) = 1

LEMMA StepsAhead ==
  ASSUME NEW j \in Job
  PROVE  /\ Len(Layout[j.cfg]) \in Nat /\ Len(j.todo) \in Nat /\ Len(j.done) \in Nat
         /\ Ahead(j, Len(Layout[j.cfg]), Len(j.todo), Len(j.done))
<1> DEFINE l == Len(Layout[j.cfg])
           n == Len(j.todo)
           d == Len(j.done)
<1>1. l \in Nat /\ n \in Nat /\ d \in Nat
  BY JobParts, LayoutsAreEntries, Lengths
<1>2. StepsLeft(j) = StepsFrom(j.phase, j.ok, l, n, d)
  BY DEF StepsLeft
<1> HIDE DEF l, n, d
<1>3. Ahead(j, l, n, d)
  BY <1>1, <1>2, StepsOfPhases DEF Ahead
<1> QED BY <1>1, <1>3 DEF l, n, d

LEMMA StepsAreCounted ==
  ASSUME NEW j \in Job
  PROVE  StepsLeft(j) \in Nat
<1> DEFINE l == Len(Layout[j.cfg])
           n == Len(j.todo)
           d == Len(j.done)
<1>1. l \in Nat /\ n \in Nat /\ d \in Nat /\ Ahead(j, l, n, d)
  BY StepsAhead
<1>2. j.phase \in Phase
  BY DEF Job, Phase
<1> HIDE DEF l, n, d
<1> QED BY <1>1, <1>2 DEF Phase, Ahead

Nearer == StepsLeft(job') < StepsLeft(job) /\ job' # job

LEMMA NearerIsOther ==
  ASSUME job \in Job, StepsLeft(job') < StepsLeft(job)
  PROVE  Nearer
BY StepsAreCounted DEF Nearer

(* Each step of a job, also one that is cut short, is one of those that were  *)
(* left, or its last                                                          *)
LEMMA JobStepsAreFew ==
  ASSUME SystemInvariant, job # NoJob, JobStep \/ Lapse
  PROVE  job' = NoJob \/ Nearer
<1> DEFINE l == Len(Layout[job.cfg])
           n == Len(job.todo)
           d == Len(job.done)
           l1 == Len(Layout[job'.cfg])
           n1 == Len(job'.todo)
           d1 == Len(job'.done)
<1>1. job \in Job
  BY DEF SystemInvariant, TypeOK
<1>2. job.todo \in Seq(Entry) /\ job.done \in Seq(Entry) /\ Layout[job.cfg] \in Seq(Entry)
  BY <1>1, JobParts, LayoutsAreEntries
<1>3. /\ l \in Nat /\ n \in Nat /\ d \in Nat
      /\ job.todo # <<>> => n >= 1 /\ Len(Rest) = n - 1
      /\ job.todo = <<>> => n = 0
      /\ \A e \in Entry : Len(Append(job.done, e)) = d + 1
  BY <1>2, Lengths DEF Rest
<1>4. SUFFICES ASSUME job' # NoJob PROVE StepsLeft(job') < StepsLeft(job)
  BY <1>1, NearerIsOther
<1>5. job' \in Job
  BY <1>4, JobStepsKeep, LapsesKeep DEF SystemInvariant, TypeOK
<1>0. /\ Ahead(job, l, n, d) /\ Ahead(job', l1, n1, d1)
      /\ l1 \in Nat /\ n1 \in Nat /\ d1 \in Nat
  BY <1>1, <1>5, StepsAhead
<1> HIDE DEF l, n, d, l1, n1, d1
<1>6. CASE UndoEntry
  <2>1. job.phase \in {"teardown", "rollback"} /\ job.todo # <<>>
    BY <1>6 DEF UndoEntry
  <2>2. job'.phase = job.phase /\ l1 = l /\ n1 = n - 1 /\ d1 = d
    BY <1>3, <1>6, <2>1, UndoEntryIs DEF Stepped, l, d, l1, n1, d1
  <2> QED BY <1>0, <1>3, <2>1, <2>2 DEF Ahead
<1>7. CASE TornDown
  <2>1. job.phase = "teardown"
    BY <1>7 DEF TornDown
  <2>2. \/ job'.phase = "apply" /\ n1 = l /\ d1 = d
        \/ job'.phase = "fallback"
    BY <1>7, TornDownIs DEF Stepped, l, d, n1, d1
  <2>3. n = 0
    BY <1>3, <1>7 DEF TornDown
  <2> QED BY <1>0, <1>3, <2>1, <2>2, <2>3 DEF Ahead
<1>8. CASE ApplyEntry
  <2>1. job.phase = "apply" /\ job.todo # <<>>
    BY <1>8 DEF ApplyEntry
  <2>2. \/ job'.phase = "apply" /\ n1 = n - 1 /\ d1 \in {d, d + 1}
        \/ job'.phase = "claim" /\ n1 = n /\ d1 = d
        \/ job'.phase = "rollback" /\ n1 = d
    BY <1>3, <1>8, <2>1, ApplyEntryIs DEF Stepped, n, d, n1, d1
  <2> QED BY <1>0, <1>3, <2>1, <2>2 DEF Ahead
<1>9. CASE ClaimEntry
  <2>1. job.phase = "claim" /\ job.todo # <<>>
    BY <1>9 DEF ClaimEntry, SystemInvariant, KeepsGuards
  <2>2. \/ job'.phase = "setup" /\ n1 = n /\ d1 = d
        \/ job'.phase = "rollback" /\ n1 = d
    BY <1>9, ClaimEntryIs DEF Stepped, n, d, n1, d1
  <2> QED BY <1>0, <1>3, <2>1, <2>2 DEF Ahead
<1>10. CASE SetupEntry
  <2>1. job.phase = "setup" /\ job.todo # <<>>
    BY <1>10 DEF SetupEntry, SystemInvariant, KeepsGuards
  <2>2. \/ job'.phase = "apply" /\ n1 = n - 1 /\ d1 = d + 1
        \/ job'.phase = "rollback" /\ n1 = d
    BY <1>3, <1>10, <2>1, SetupEntryIs DEF Stepped, d, n1, d1
  <2> QED BY <1>0, <1>3, <2>1, <2>2 DEF Ahead
<1>11. CASE Applied
  <2>1. job.phase = "apply" /\ n = 0
    BY <1>3, <1>11 DEF Applied
  <2>2. job'.phase = "commit" \/ (job'.phase = "rollback" /\ n1 = d)
    BY <1>11, AppliedIs DEF Stepped, d, n1
  <2> QED BY <1>0, <1>3, <2>1, <2>2 DEF Ahead
<1>12. CASE RolledBack
  <2>1. job.phase = "rollback" /\ Goto("fallback")
    BY <1>12 DEF RolledBack
  <2>2. job'.phase = "fallback"
    BY <2>1, GotoIs DEF Stepped, Phase
  <2> QED BY <1>0, <1>3, <2>1, <2>2 DEF Ahead
<1>13. CASE DeactivateEntry
  <2>1. job.phase = "entries" /\ job.todo # <<>>
    BY <1>13 DEF DeactivateEntry
  <2>2. \/ job'.phase = "record"
        \/ job'.phase = "entries" /\ n1 = n - 1
    BY <1>3, <1>13, <2>1, DeactivateEntryIs DEF Stepped, n1
  <2> QED BY <1>0, <1>3, <2>1, <2>2 DEF Ahead
<1>14. CASE DeactivatedDefault
  <2>1. job.phase \in {"record", "entries"} /\ Goto("returned")
    BY <1>14 DEF DeactivatedDefault
  <2>2. job'.phase = "returned"
    BY <2>1, GotoIs DEF Stepped, Phase
  <2> QED BY <1>0, <1>3, <2>1, <2>2 DEF Ahead
<1>15. CASE Deactivated
  <2>1. job.phase = "returned" /\ Goto("unlink")
    BY <1>4, <1>15 DEF Deactivated, Finish
  <2>2. job'.phase = "unlink"
    BY <2>1, GotoIs DEF Stepped, Phase
  <2> QED BY <1>0, <1>3, <2>1, <2>2 DEF Ahead
<1>16. CASE Commit \/ FallBack \/ Unlink
  BY <1>4, <1>16 DEF Commit, FallBack, Unlink, Finish
<1>17. CASE Lapse
  <2>1. \/ /\ job'.phase = job.phase /\ l1 = l /\ n1 = n - 1 /\ d1 = d /\ n >= 1
           /\ job.phase \in {"teardown", "rollback", "entries"}
        \/ job.phase = "entries" /\ job'.phase = "record"
        \/ job.phase \in {"apply", "setup"} /\ job'.phase = "rollback" /\ n >= 1 /\ n1 = d
        \/ /\ job.phase = "apply" /\ job'.phase = "apply" /\ n >= 1
           /\ n1 = n - 1 /\ d1 = d + 1
        \/ job.phase = "teardown" /\ job'.phase = "fallback"
        \/ job.phase = "returned" /\ job.ok /\ job'.phase = "returned" /\ job'.ok = FALSE
    BY <1>3, <1>4, <1>17, LapseIs DEF Stepped, l, d, l1, n1, d1
  <2> QED BY <1>0, <1>3, <2>1 DEF Ahead
<1> QED BY <1>6, <1>7, <1>8, <1>9, <1>10, <1>11, <1>12, <1>13, <1>14, <1>15, <1>16, <1>17
        DEF JobStep

(* What is no step of the job leaves it alone, ends it or found none *)
LEMMA OthersLeaveJobs ==
  ASSUME [Next]_vars, ~JobStep, ~Lapse, job # NoJob
  PROVE  job' = job \/ job' = NoJob
<1>1. ASSUME NEW p \in Profile, NEW override \in BOOLEAN,
             \/ Activate(p, override) \/ Boot \/ ActivateRefused(p) \/ BeginDeactivate(p)
             \/ BeginForcedDelete(p) \/ Delete(p) \/ BeginRevertAll
      PROVE  FALSE
  BY <1>1 DEF Activate, Boot, BeginActivate, ActivateRefused, BeginDeactivate, BeginForcedDelete, Delete,
     BeginRevertAll
<1>2. ASSUME NEW p \in Profile, NEW v \in Version, Add(p, v) \/ BeginEdit(p, v) \/ Break(p) \/ WriteEdit
      PROVE  job' = job
  BY <1>2 DEF Add, BeginEdit, Break, WriteEdit
<1>3. ASSUME NEW n \in Netns, Reset(n) PROVE job' = job
  BY <1>3 DEF Reset, Resettable
<1>4. CASE Crash \/ Reboot
  BY <1>4 DEF Crash, Reboot
<1>5. ASSUME NEW r \in Radio, Unplug(r) \/ Plug(r) \/ ToolTakes(r) \/ ToolLeaves(r)
      PROVE  job' = job
  BY <1>5 DEF Unplug, Plug, ToolTakes, ToolLeaves
<1>6. CASE UNCHANGED vars
  BY <1>6 DEF vars
<1>7. CASE Boot
  BY <1>7 DEF Boot, BeginActivate
<1>8. CASE BeginRevertAll \/ WriteEdit
  BY <1>8 DEF BeginRevertAll, WriteEdit
<1>9. ASSUME NEW p \in Profile, Break(p) PROVE job' = job
  BY <1>9 DEF Break
<1> QED BY <1>1, <1>2, <1>3, <1>4, <1>5, <1>6, <1>7, <1>8, <1>9 DEF Next

(* Activations, deactivations, deletions and reverts end after boundedly many *)
(* of their own steps, whichever commands fail or time out, whatever is       *)
(* edited or plugged meanwhile: the loops of _teardown_profile,               *)
(* _apply_entries and _rollback_activated_configs never start over and no     *)
(* entry is tried twice.                                                      *)
THEOREM ChangesAreFinite == Spec => ChangesShrink
<1>1. ASSUME SystemInvariant, [Next]_vars, job # NoJob
      PROVE  /\ StepsLeft(job) \in Nat
             /\ job' = job \/ job' = NoJob \/ StepsLeft(job') < StepsLeft(job)
             /\ JobStep => job' # job
  <2>1. StepsLeft(job) \in Nat
    BY <1>1, StepsAreCounted DEF SystemInvariant, TypeOK
  <2>2. JobStep \/ Lapse => (job' = NoJob \/ Nearer)
    BY <1>1, JobStepsAreFew
  <2>3. ~JobStep /\ ~Lapse => (job' = job \/ job' = NoJob)
    BY <1>1, OthersLeaveJobs
  <2> QED BY <1>1, <2>1, <2>2, <2>3 DEF Nearer
<1> QED BY <1>1, ProfilesAreKnown, PTL DEF Spec, ChangesShrink
================================================================================
