--------------------------------- MODULE Radios ---------------------------------
(***************************************************************************)
(* What one configuration entry does to the device: NetworkNamespaceService *)
(* in services/network_namespace_service.py, as operators on the state of  *)
(* the radios.  Each operation is given by the set of its outcomes, one    *)
(* without and several with failing commands (`cost` counts those), and by *)
(* the set of states in which it can be cut short: by the end of the       *)
(* process, or by a command that times out (run_command then raises what   *)
(* the handlers of failing commands do not catch).  Module NetConfig       *)
(* chooses among them.                                                     *)
(*                                                                         *)
(* A radio is a phy with the one netdev Core manages on it, and stands for *)
(* the name udev gives that netdev.  Its type (managed, monitor), address  *)
(* and wpa configuration are data.  A Core supplicant stands for the       *)
(* wpa_supplicant, dhcpcd and connection monitor of one (netns, name) key. *)
(***************************************************************************)
EXTENDS Naturals, FiniteSets, Sequences

CONSTANTS
  Radio,     \* wireless radios, and the home names of their netdevs
  Display,   \* iface_display_names profiles give to netdevs
  Netns,     \* named network namespaces
  Root,      \* the root namespace
  None       \* no netdev, no value

ASSUME NamesAssumption ==
  /\ Root \notin Netns /\ Radio \cap Display = {} /\ None \notin Radio \cup Display
  /\ None \notin Netns \cup {Root}
  /\ IsFiniteSet(Radio) /\ IsFiniteSet(Netns)

Place == Netns \cup {Root}
Name  == Radio \cup Display

(* A profile entry: NamespaceConfig, or RootConfig when netns = Root *)
Entry == [radio : Radio, netns : Place, name : Name, secure : BOOLEAN]

(* NetConfig.validate_unique_interfaces: no two entries have the same radio or *)
(* the same name in one namespace, nor names an entry the radio of another     *)
UniqueInterfaces(entries) ==
  \A i, j \in DOMAIN entries : i # j =>
    /\ entries[j].radio \notin {entries[i].radio, entries[i].name}
    /\ <<entries[i].netns, entries[i].name>> # <<entries[j].netns, entries[j].name>>

Unplugged == [netns |-> None, name |-> None]
Home(r)   == [netns |-> Root, name |-> r]

(* netdev: where each radio is and the name of its netdev (None: it has none) *)
(* owned: Core's ownership record names the netdev and its current wdev      *)
(* core: existing namespaces with a valid Core marker; plain: those without  *)
(* supplicants: Core's, by (netns, name); busy: radios another tool uses     *)
Netdev == [netns : Place, name : Name \cup {None}]

Device ==
  [netdev : [Radio -> Netdev \cup {Unplugged}],
   owned : SUBSET Radio,
   core : SUBSET Netns,
   plain : SUBSET Netns,
   supplicants : SUBSET (Place \X Name),
   busy : SUBSET Radio]

AtBoot ==
  [netdev |-> [r \in Radio |-> Home(r)], owned |-> {}, core |-> {},
   plain |-> {}, supplicants |-> {}, busy |-> {}]

Outcome(d, status, cost) == [dev |-> d, status |-> status, cost |-> cost]

-------------------------------------------------------------------------------
(* Helpers.                                                                *)

In(d, n) == {r \in Radio : d.netdev[r].netns = n}

(* core_namespaces: those whose marker names the namespace of today *)
CoreNamespaces(d) == d.core

(* in_use_reason: another tool has the netdev in a mode, with a supplicant   *)
(* or with a capture that is not Core's                                      *)
InUse(d, r) == r \in d.busy

(* _find_live: by interface name in root, a Core namespace or the entry's   *)
(* own; else by display name in the entry's namespace                       *)
Found(d, e) ==
  LET live == d.netdev[e.radio] IN
  \/ live.name = e.radio /\ live.netns \in {Root, e.netns} \cup CoreNamespaces(d)
  \/ live.name = e.name /\ live.netns = e.netns

InCoreNamespace(d, e) ==                                           \* mutant
  ~Found(d, e) \/ d.netdev[e.radio].netns \in d.core

(* is_core_managed *)
CoreManaged(d, e) ==
  LET n == d.netdev[e.radio].netns IN
  ~Found(d, e) \/ (IF n = Root THEN e.radio \in d.owned ELSE n \in CoreNamespaces(d))

(* stop_supplicant: the one Core started for this netdev, if it is that still *)
StopSupplicant(d, n, name) == [d EXCEPT !.supplicants = @ \ {<<n, name>>}]

(* start_or_restart_supplicant *)
StartSupplicant(d, n, name) ==
  [StopSupplicant(d, n, name) EXCEPT !.supplicants = @ \cup {<<n, name>>}]

(* create_namespace, for one that is not there yet, and Core's marker; cut   *)
(* short in between it stays without                                         *)
CreateNamespace(d, n) == IF n \in d.plain THEN d ELSE [d EXCEPT !.core = @ \cup {n}]
HalfMadeNamespace(d, n) == IF n \in d.core THEN d ELSE [d EXCEPT !.plain = @ \cup {n}]

(* delete_namespace and the marker *)
DeleteNamespace(d, n) == [d EXCEPT !.core = @ \ {n}]

(* _delete_namespace_if_empty, for a namespace Core created *)
DeleteIfEmpty(d, n) == IF In(d, n) = {} THEN DeleteNamespace(d, n) ELSE d

(* a record of ownership names a wdev, so it does not outlive the netdev *)
DeleteNetdev(d, r) == [d EXCEPT !.netdev[r].name = None, !.owned = @ \ {r}]

MovePhy(d, r, n) == [d EXCEPT !.netdev[r].netns = n]

CreateNetdev(d, r, name) == [d EXCEPT !.netdev[r].name = name]

(* _recreate_in_root, and what _prepare_root and _prepare_namespace do       *)
Move(d, r, n, name) == CreateNetdev(MovePhy(DeleteNetdev(d, r), r, n), r, name)

(* where the phy is on its way from one namespace to another *)
Way(n, m) == IF n = m THEN {n} ELSE {n, Root, m}

NotRestored(d, r, places) ==                                       \* mutant
  {Outcome(Move(d, r, n, None), "error", 1) : n \in places}

(* _restore_live itself fails: the phy is left without netdev on the way *)
RestoreFails(d, r, places) ==
  {Outcome(Move(d, r, n, None), "raised", 2) : n \in places}

-------------------------------------------------------------------------------
(* Undoing an entry.                                                       *)

(* revert_to_root(cfg): ownership is released first, so a failing command   *)
(* leaves the netdev where it was, no longer Core's                         *)
Revert(d, e) ==
  LET r == e.radio
      live == d.netdev[r]
      stopped == StopSupplicant(d, live.netns, live.name)
      home == Move(stopped, r, Root, r)
      same == Move(stopped, r, live.netns, live.name)
  IN
  IF ~Found(d, e) THEN {Outcome(d, "done", 0)}
  ELSE {Outcome(DeleteIfEmpty(home, live.netns), "done", 0), Outcome(same, "raised", 1)}
       \cup RestoreFails(stopped, r, Way(live.netns, Root))

(* ... cut short: before or after the release, with the netdev deleted, the  *)
(* phy moved, or the netdev back but the namespace not yet deleted.  Here    *)
(* nothing restores the netdev.                                              *)
Reverting(d, e) ==
  LET r == e.radio
      live == d.netdev[r]
      stopped == StopSupplicant(d, live.netns, live.name)
  IN
  IF ~Found(d, e) THEN {d}
  ELSE {d, stopped, [stopped EXCEPT !.owned = @ \ {r}], Move(stopped, r, Root, r)}
       \cup {Move(stopped, r, n, None) : n \in Way(live.netns, Root)}
       \cup {o.dev : o \in Revert(d, e)}

NeverHandsOver(d, e) == FALSE                                      \* mutant

(* may_undo of a Core-managed radio refuses: it is in root and another tool  *)
(* has since started using it                                                *)
HandsOver(d, e) == d.netdev[e.radio].netns = Root /\ InUse(d, e.radio)

(* remove_network, for an entry with security *)
RemoveNetwork(d, e) == IF e.secure THEN StopSupplicant(d, e.netns, e.name) ELSE d

(* deactivate_config *)
Deactivate(d, e) ==
  LET stopped == RemoveNetwork(d, e) IN
  IF ~CoreManaged(d, e) THEN {Outcome(d, "done", 0)}
  ELSE IF ~Found(d, e) THEN {Outcome(stopped, "done", 0)}
  ELSE IF HandsOver(d, e)
       THEN {Outcome([stopped EXCEPT !.owned = @ \ {e.radio}], "done", 0)}
  ELSE Revert(stopped, e)

(* ... cut short *)
Deactivating(d, e) ==
  IF ~CoreManaged(d, e) THEN {d}
  ELSE {d, RemoveNetwork(d, e)} \cup {o.dev : o \in Deactivate(d, e)}
       \cup (IF Found(d, e) /\ ~HandsOver(d, e)
             THEN Reverting(RemoveNetwork(d, e), e) ELSE {})

(* stop_namespace_supplicants, of each of `namespaces` *)
StopNamespaceSupplicants(d, namespaces) ==
  [d EXCEPT !.supplicants = {s \in @ : s[1] \notin namespaces}]

(* _return_namespace_phys and _delete_namespace_if_empty, so far: Core's      *)
(* supplicants in the namespaces `stopped` have been stopped, the phys `sent` *)
(* moved to root, where their netdevs keep the name they have, those of       *)
(* `released` handed back, and the namespaces `deleted` deleted               *)
Sent(d, stopped, sent, released, deleted) ==
  [StopNamespaceSupplicants(d, stopped) EXCEPT
     !.netdev = [r \in Radio |-> IF r \in sent THEN [@[r] EXCEPT !.netns = Root] ELSE @[r]],
     !.owned = @ \ released,
     !.core = @ \ deleted,
     !.plain = @ \ deleted]

Inside(d, namespaces) == {r \in Radio : d.netdev[r].netns \in namespaces}

(* ... of each of a set of namespaces.  Commands fail that list the phys in   *)
(* `unlisted`, move the phys `stuck`, or inspect or delete the namespaces      *)
(* `kept`                                                                      *)
Returned(d, namespaces, unlisted, stuck, kept) ==
  LET sent == Inside(d, namespaces \ unlisted) \ stuck
  IN Outcome(Sent(d, namespaces, sent, sent, {n \in namespaces \ kept : In(d, n) \subseteq sent}),
             "done", Cardinality(unlisted) + Cardinality(stuck) + Cardinality(kept))

Return(d, namespaces) ==
  {Returned(d, namespaces, unlisted, stuck, kept) :
     unlisted \in SUBSET namespaces, stuck \in SUBSET Inside(d, namespaces),
     kept \in SUBSET namespaces}

(* ... cut short *)
Returning(d, namespaces) ==
  UNION {UNION {{Sent(d, stopped, sent, released, deleted) :
                   released \in SUBSET sent,
                   deleted \in SUBSET {n \in stopped : In(d, n) \subseteq sent}} :
                sent \in SUBSET Inside(d, stopped)} :
         stopped \in SUBSET namespaces}

(* revert_to_root(None) *)
ReturnNamespaces(d) == Return(d, CoreNamespaces(d))

(* reset_namespace *)
ResetNamespace(d, n) == Return(d, {n})

KillAllSupplicants(d) == [d EXCEPT !.supplicants = {}]

-------------------------------------------------------------------------------
(* Applying an entry.                                                      *)

(* activate_config before it touches the radio *)
Admission(d, e) ==
  IF ~Found(d, e) THEN "provisioned"
  ELSE IF InUse(d, e.radio) THEN "in_use"
  ELSE "prepare"

(* _prepare_root and _prepare_namespace up to their _claim: delete the      *)
(* netdev, move the phy, create the netdev under the entry's name and bring *)
(* it up.  A failed move is an error status, any other failure raises; the  *)
(* original netdev is restored, unless creating the namespace or deleting    *)
(* the netdev was what failed: that raises past the cleanup of a namespace   *)
(* just created.                                                             *)
Prepare(d, e) ==
  LET r == e.radio
      live == d.netdev[r]
      made == IF e.netns = Root THEN d ELSE CreateNamespace(d, e.netns)
      restored == Move(d, r, live.netns, live.name)
      Cleaned(dev) == IF e.netns \in d.core THEN dev ELSE DeleteIfEmpty(dev, e.netns)
      failures == IF live.netns = e.netns THEN {"raised"} ELSE {"raised", "error"}
  IN
  {Outcome(Move(made, r, e.netns, e.name), "prepared", 0),
   Outcome(d, "raised", 1), Outcome(made, "raised", 1)}
  \cup {Outcome(restored, f, 1) : f \in failures}
  \cup {Outcome(Cleaned(o.dev), f, o.cost) :
          o \in RestoreFails(made, r, Way(live.netns, e.netns)), f \in failures}

(* ... cut short: the new namespace without its marker, or the radio without  *)
(* netdev on its way.  Here nothing restores it or cleans up.                 *)
Preparing(d, e) ==
  LET r == e.radio
      live == d.netdev[r]
      made == IF e.netns = Root THEN d ELSE CreateNamespace(d, e.netns)
  IN
  {d, Move(made, r, live.netns, live.name)}
  \cup (IF e.netns = Root THEN {} ELSE {HalfMadeNamespace(d, e.netns)})
  \cup {Move(made, r, n, None) : n \in Way(live.netns, e.netns)}
  \cup {o.dev : o \in Prepare(d, e)}

ClaimForgotten(d, e) == d                                          \* mutant

Placed(d, e) == d.netdev[e.radio] = [netns |-> e.netns, name |-> e.name]

(* _claim, the end of both: for a netdev that is still there *)
Claim(d, e) == IF Placed(d, e) THEN [d EXCEPT !.owned = @ \cup {e.radio}] ELSE d

(* the rest of activate_config: start the supplicant and its monitor; a      *)
(* failure there (certain when the netdev has gone) reverts the radio, best  *)
(* effort                                                                    *)
Setup(d, e) ==
  LET started == StartSupplicant(d, e.netns, e.name)
      gone == e.secure /\ ~Placed(d, e)
      reverted == {Outcome(o.dev, "raised", o.cost + (IF gone THEN 0 ELSE 1)) :
                     o \in Revert(d, e)}
  IN
  IF gone THEN reverted
  ELSE {Outcome(IF e.secure THEN started ELSE d, "provisioned", 0)} \cup reverted

(* ... cut short *)
SettingUp(d, e) ==
  (IF e.secure /\ Placed(d, e) THEN {StartSupplicant(d, e.netns, e.name)} ELSE {})
  \cup Reverting(d, e)
===============================================================================
