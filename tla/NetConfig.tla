-------------------------------- MODULE NetConfig --------------------------------
(***************************************************************************)
(* Network configuration profiles: utils/network_config.py, with what each *)
(* entry does to the device in module Radios, and the activation at start  *)
(* up (_initialize_network_namespaces in app.py).                          *)
(*                                                                         *)
(* Activate, deactivate, delete, reset and revert_all run in worker        *)
(* threads under network_change_lock, so there is one job at a time; it    *)
(* advances entry by entry and a request that finds the lock taken changes *)
(* nothing.  Edits are not under the lock: they interleave with the job.   *)
(* So do USB radios and other tools, and the process or the device may     *)
(* restart at any point, also in the middle of an entry.                   *)
(*                                                                         *)
(* A profile file is a version, whose entries are given by Layout.         *)
(* current.txt always holds a name (the package installs "default").       *)
(* default.json always exists: every reader regenerates it when it cannot  *)
(* be read.                                                                *)
(***************************************************************************)
EXTENDS Radios

CONSTANTS
  Profile,   \* profile ids, with Default
  Default,   \* "default"
  Version,   \* contents of profile files
  Layout,    \* Layout[v]: the entries of v, namespaces first
  Invalid,   \* versions some entry of which fails validate_config
  Factory,   \* Factory[p]: the version of p that exists at first, or None
  Budgets    \* bound: how often each kind of disturbance may happen, alternatives

Malformed == "malformed"

(* fault: a command fails; lapse: one times out, or one that only reads fails *)
Disturbance == {"fault", "lapse", "crash", "plug", "tool", "edit", "break", "stray"}

ASSUME ProfileAssumption ==
  /\ Default \in Profile
  /\ Version \cap {Malformed, None} = {}
  /\ Layout \in [Version -> Seq(Entry)]
  /\ \A v \in Version : UniqueInterfaces(Layout[v])
  /\ Invalid \subseteq Version
  /\ Factory \in [Profile -> Version \cup {None}]
  /\ Factory[Default] \in Version \ Invalid
  /\ Budgets \subseteq [Disturbance -> Nat]

VARIABLES
  device,   \* the radios (module Radios)
  files,    \* files[p]: a version, Malformed, or None when there is no file
  current,  \* current.txt
  applied,  \* history: the version current was recorded for
  job,      \* the locked change in progress, or NoJob
  editing,  \* an edit_config between its check and its write, or NoEdit
  up,       \* start up is over, requests are served
  happened, \* history: how often each kind of disturbance has happened
  touched   \* history: radios a user or another tool has disturbed

vars == <<device, files, current, applied, job, editing, up, happened, touched>>

NoJob  == [op |-> "none", phase |-> "none"]
NoEdit == [profile |-> None, version |-> None]

(* get_config and its validation *)
Readable(p) == files[p] \in Version
EntriesOf(p) == IF Readable(p) THEN Layout[files[p]] ELSE <<>>
EntrySet(v) == {Layout[v][i] : i \in DOMAIN Layout[v]}

Job ==
  [op : {"activate", "deactivate", "delete", "revert"},
   phase : {"teardown", "return", "apply", "claim", "setup", "commit", "rollback", "fallback",
            "entries", "record", "returned", "unlink"},
   profile : Profile, cfg : Version, was : Profile,
   override : BOOLEAN, ok : BOOLEAN, todo : Seq(Entry), done : Seq(Entry)]

TypeOK ==
  /\ device \in Device
  /\ files \in [Profile -> Version \cup {Malformed, None}]
  /\ current \in Profile
  /\ applied \in Version
  /\ job \in Job \cup {NoJob}
  /\ editing \in [profile : Profile, version : Version] \cup {NoEdit}
  /\ up \in BOOLEAN
  /\ happened \in [Disturbance -> Nat]
  /\ touched \subseteq Radio

Init ==
  /\ device = AtBoot
  /\ files = Factory
  /\ current = Default
  /\ applied = Factory[Default]
  /\ job = NoJob
  /\ editing = NoEdit
  /\ up = FALSE
  /\ happened = [k \in Disturbance |-> 0]
  /\ touched = {}

Spend(kind, n) ==
  /\ happened' = [happened EXCEPT ![kind] = @ + n]
  /\ \E b \in Budgets : \A k \in Disturbance : happened'[k] <= b[k]

(* current.txt as activate reads it: repaired to default when it names a    *)
(* profile that cannot be read                                              *)
Active == IF Readable(current) THEN current ELSE Default

Record(p, v) == current' = p /\ applied' = v
RecordDefault == Record(Default, files[Default])

(* Every entry is checked, for default only those of radios Core manages *)
InvalidEntries(v, p) == v \in Invalid /\ p # Default

-------------------------------------------------------------------------------
(* Requests.  A request that is rejected changes nothing.                  *)

Start(p, op, phase, override, ok, todo) ==
  job' = [op |-> op, phase |-> phase, profile |-> p, cfg |-> files[p], was |-> Active,
          override |-> override, ok |-> ok, todo |-> todo, done |-> <<>>]

(* recover_current_config, and its like in _activate_config_locked *)
RepairCurrent ==
  IF Readable(current) THEN UNCHANGED <<current, applied>> ELSE RecordDefault

(* _activate_config_locked up to the teardown of the active profile *)
BeginActivate(p, override) ==
  LET invalid == InvalidEntries(files[p], p) IN
  /\ job = NoJob
  /\ Readable(p)
  /\ override \/ (Active = Default /\ p # Default)
  /\ invalid => Active = p              \* otherwise nothing has changed
  /\ RepairCurrent
  /\ Start(p, "activate", "teardown", override, ~invalid, EntriesOf(Active))
  /\ UNCHANGED <<device, files, editing, happened, touched>>

Activate(p, override) == up /\ BeginActivate(p, override) /\ UNCHANGED up

(* an activation that is refused after it repaired current.txt *)
ActivateRefused(p) ==
  /\ up /\ job = NoJob
  /\ Readable(p) /\ ~Readable(current)
  /\ p = Default \/ InvalidEntries(files[p], p)
  /\ RecordDefault
  /\ UNCHANGED <<device, files, job, editing, up, happened, touched>>

(* deactivate_config; with override_active also of a profile that is not the *)
(* active one (bounded by "stray")                                           *)
BeginDeactivate(p) ==
  /\ up /\ job = NoJob
  /\ Readable(p)
  /\ IF current = p THEN UNCHANGED happened ELSE Spend("stray", 1)
  /\ Start(p, "deactivate", "entries", current # p, TRUE, EntriesOf(p))
  /\ UNCHANGED <<device, files, current, applied, editing, up, touched>>

(* delete_config of the active profile with force: deactivated first *)
BeginForcedDelete(p) ==
  /\ up /\ job = NoJob
  /\ p # Default
  /\ Readable(p) /\ current = p
  /\ Start(p, "delete", "entries", FALSE, TRUE, EntriesOf(p))
  /\ UNCHANGED <<device, files, current, applied, editing, up, happened, touched>>

(* delete_config of a profile that is not active, so far as is_active can    *)
(* tell: an unreadable profile never is                                      *)
Delete(p) ==
  /\ up /\ job = NoJob
  /\ p # Default
  /\ files[p] # None
  /\ ~(Readable(p) /\ current = p)
  /\ files' = [files EXCEPT ![p] = None]
  /\ UNCHANGED <<device, current, applied, job, editing, up, happened, touched>>

(* revert_all, behind /wlan/revert *)
BeginRevertAll ==
  /\ up /\ job = NoJob
  /\ Start(Active, "revert", "teardown", FALSE, TRUE, EntriesOf(Active))
  /\ UNCHANGED <<device, files, current, applied, editing, up, happened, touched>>

(* reset_namespaces of one namespace, Core's or one that holds radios; refused *)
(* for those of the active profile                                             *)
Resettable(n) ==
  /\ up /\ job = NoJob
  /\ n \in device.core \/ (n \in device.plain /\ In(device, n) # {})
  /\ \A i \in DOMAIN EntriesOf(current) : EntriesOf(current)[i].netns # n

Reset(n) ==
  /\ Resettable(n)
  /\ \E o \in ResetNamespace(device, n) : device' = o.dev /\ Spend("fault", o.cost)
  /\ UNCHANGED <<files, current, applied, job, editing, up, touched>>

(* add_config, whose check and write no other writer of new files follows *)
Add(p, v) ==
  /\ up
  /\ p # Default /\ files[p] = None
  /\ files' = [files EXCEPT ![p] = v]
  /\ UNCHANGED <<device, current, applied, job, editing, up, happened, touched>>

(* edit_config up to its write, and the write; not under the lock *)
BeginEdit(p, v) ==
  /\ up
  /\ editing = NoEdit
  /\ p # Default /\ Readable(p)
  /\ current # p                       \* else ConfigActiveError
  /\ editing' = [profile |-> p, version |-> v]
  /\ Spend("edit", 1)
  /\ UNCHANGED <<device, files, current, applied, job, up, touched>>

(* ... which cannot be read again (counted as "break") when a secret that is  *)
(* kept, after validation, does not suit the entry's new security             *)
WriteEdit ==
  /\ editing # NoEdit
  /\ \/ files' = [files EXCEPT ![editing.profile] = editing.version] /\ UNCHANGED happened
     \/ files' = [files EXCEPT ![editing.profile] = Malformed] /\ Spend("break", 1)
  /\ editing' = NoEdit
  /\ UNCHANGED <<device, current, applied, job, up, touched>>

-------------------------------------------------------------------------------
(* The job, from entry to entry.  `Goto` also drops the first entry.       *)

Goto(phase) == job' = [job EXCEPT !.phase = phase]
Popped == [job EXCEPT !.todo = Tail(@)]
Becomes(o) == device' = o.dev /\ Spend("fault", o.cost)

(* the except branch of an activation, and of a deactivation *)
Raised  == [job EXCEPT !.ok = FALSE, !.phase = "rollback", !.todo = job.done]
Aborted == [job EXCEPT !.ok = FALSE, !.phase = "record", !.todo = <<>>]

Finish == job' = NoJob /\ up' = TRUE

KeepFiles == UNCHANGED <<files, editing, touched>>

(* _teardown_profile and _rollback_activated_configs: best effort *)
UndoEntry ==
  /\ job.phase \in {"teardown", "rollback"} /\ job.todo # <<>>
  /\ \E o \in Deactivate(device, Head(job.todo)) : Becomes(o)
  /\ job' = Popped
  /\ KeepFiles /\ UNCHANGED <<current, applied, up>>

(* ... _teardown_profile ends with revert_to_root(None); then an override    *)
(* stops every supplicant, and an activation that may go on applies          *)
TornDown ==
  /\ job.phase = "teardown" /\ job.todo = <<>>
  /\ \E o \in ReturnNamespaces(device) :
       /\ device' = IF job.op = "activate" /\ job.ok /\ job.override
                    THEN KillAllSupplicants(o.dev) ELSE o.dev
       /\ Spend("fault", o.cost)
  /\ job' = IF job.op = "activate" /\ job.ok
            THEN [job EXCEPT !.phase = "apply", !.todo = Layout[job.cfg]]
            ELSE [job EXCEPT !.phase = "fallback"]
  /\ KeepFiles /\ UNCHANGED <<current, applied, up>>

Skipped(e) == job.profile = Default /\ ~CoreManaged(device, e)

(* _apply_entries: one entry, up to the preparation of its radio.  An error  *)
(* is noted and the other entries are still applied; an exception is not.    *)
ApplyEntry ==
  LET e == Head(job.todo) IN
  /\ job.phase = "apply" /\ job.todo # <<>>
  /\ IF Skipped(e) \/ Admission(device, e) = "in_use"
     THEN job' = Popped /\ UNCHANGED <<device, happened>>
     ELSE IF Admission(device, e) = "provisioned"
     THEN job' = [Popped EXCEPT !.done = Append(@, e)] /\ UNCHANGED <<device, happened>>
     ELSE \E o \in Prepare(device, e) :
            /\ Becomes(o)
            /\ job' = CASE o.status = "prepared" -> [job EXCEPT !.phase = "claim"]
                        [] o.status = "error"    -> [Popped EXCEPT !.ok = FALSE]
                        [] o.status = "raised"   -> Raised
  /\ KeepFiles /\ UNCHANGED <<current, applied, up>>

(* ... its claim; when the `iw dev` of _claim fails, nothing undoes the entry *)
ClaimEntry ==
  /\ job.phase = "claim"
  /\ \/ device' = Claim(device, Head(job.todo)) /\ Goto("setup") /\ UNCHANGED happened
     \/ job' = Raised /\ Spend("fault", 1) /\ UNCHANGED device
  /\ KeepFiles /\ UNCHANGED <<current, applied, up>>

(* ... and the rest of it *)
SetupEntry ==
  LET e == Head(job.todo) IN
  /\ job.phase = "setup"
  /\ \E o \in Setup(device, e) :
       /\ Becomes(o)
       /\ job' = IF o.status = "raised"
                 THEN Raised
                 ELSE [Popped EXCEPT !.phase = "apply", !.done = Append(@, e)]
  /\ KeepFiles /\ UNCHANGED <<current, applied, up>>

NoRollback ==                                                      \* mutant
  /\ job.phase = "apply" /\ job.todo = <<>>
  /\ Goto(IF job.ok THEN "commit" ELSE "fallback")
  /\ KeepFiles /\ UNCHANGED <<device, current, applied, up, happened>>

RetryUntilApplied ==                                               \* mutant
  /\ job.phase = "apply" /\ job.todo = <<>>
  /\ job' = IF job.ok THEN [job EXCEPT !.phase = "commit"]
            ELSE [job EXCEPT !.todo = Layout[job.cfg], !.done = <<>>]
  /\ KeepFiles /\ UNCHANGED <<device, current, applied, up, happened>>

(* every entry was tried *)
Applied ==
  /\ job.phase = "apply" /\ job.todo = <<>>
  /\ job' = IF job.ok THEN [job EXCEPT !.phase = "commit"]
            ELSE [job EXCEPT !.phase = "rollback", !.todo = job.done]
  /\ KeepFiles /\ UNCHANGED <<device, current, applied, up, happened>>

Commit ==
  /\ job.phase = "commit"
  /\ Record(job.profile, job.cfg)
  /\ Finish
  /\ KeepFiles /\ UNCHANGED <<device, happened>>

RolledBack ==
  /\ job.phase = "rollback" /\ job.todo = <<>>
  /\ Goto("fallback")
  /\ KeepFiles /\ UNCHANGED <<device, current, applied, up, happened>>

(* _fall_back_to_default, and the last step of revert_all *)
FallBack ==
  /\ job.phase = "fallback"
  /\ RecordDefault
  /\ Finish
  /\ KeepFiles /\ UNCHANGED <<device, happened>>

(* _deactivate_config_locked: an entry that raises ends the loop *)
DeactivateEntry ==
  /\ job.phase = "entries" /\ job.todo # <<>>
  /\ \E o \in Deactivate(device, Head(job.todo)) :
       /\ Becomes(o)
       /\ job' = IF o.status = "raised"
                 THEN Aborted
                 ELSE Popped
  /\ KeepFiles /\ UNCHANGED <<current, applied, up>>

DeactivatedDefault ==
  /\ job.phase = "record" \/ (job.phase = "entries" /\ job.todo = <<>>)
  /\ RecordDefault
  /\ Goto("returned")
  /\ KeepFiles /\ UNCHANGED <<device, up, happened>>

Deactivated ==
  /\ job.phase = "returned"
  /\ \E o \in ReturnNamespaces(device) : Becomes(o)
  /\ IF job.op = "delete" /\ job.ok THEN Goto("unlink") /\ UNCHANGED up ELSE Finish
  /\ KeepFiles /\ UNCHANGED <<current, applied>>

Unlink ==
  /\ job.phase = "unlink"
  /\ files' = [files EXCEPT ![job.profile] = None]
  /\ Finish
  /\ UNCHANGED <<device, current, applied, editing, happened, touched>>

JobStep ==
  \/ UndoEntry \/ TornDown \/ ApplyEntry \/ ClaimEntry \/ SetupEntry \/ Applied
  \/ Commit \/ RolledBack \/ FallBack \/ DeactivateEntry \/ DeactivatedDefault \/ Deactivated \/ Unlink

-------------------------------------------------------------------------------
(* Steps that are cut short.                                               *)

(* what the step in progress can have made of the device *)
Midway ==
  IF job.phase \in {"teardown", "rollback", "entries"} /\ job.todo # <<>>
  THEN Deactivating(device, Head(job.todo))
  ELSE IF job.phase \in {"teardown", "returned"}
  THEN Returning(device, CoreNamespaces(device))
  ELSE IF job.phase = "apply" /\ job.todo # <<>> /\ ~Skipped(Head(job.todo))
          /\ Admission(device, Head(job.todo)) = "prepare"
  THEN Preparing(device, Head(job.todo))
  ELSE IF job.phase = "setup" THEN SettingUp(device, Head(job.todo))
  ELSE {device}

(* _rollback_activated_configs and _teardown_profile go on with the next      *)
(* entry; what raises elsewhere ends in an except branch ...                  *)
TimesOutAtEntry ==
  /\ \/ job.phase \in {"teardown", "rollback"} /\ job.todo # <<>> /\ job' = Popped
     \/ job.phase = "entries" /\ job.todo # <<>> /\ job' = Aborted
     \/ job.phase = "apply" /\ job.todo # <<>> /\ job' = Raised
     \/ job.phase = "setup" /\ job' = Raised
  /\ device' \in Midway
  /\ Spend("lapse", 1)
  /\ KeepFiles /\ UNCHANGED <<current, applied, up>>

(* ... but the revert_to_root(None) of _teardown_profile is in none: an       *)
(* activation, or revert_all, ends there, and nothing is recorded unless it   *)
(* was for an active profile gone invalid.  A deactivation repeats its own.   *)
TimesOutReturning ==
  /\ \/ /\ job.phase = "teardown" /\ job.todo = <<>>
        /\ IF job.op = "activate" /\ ~job.ok THEN Goto("fallback") /\ UNCHANGED up ELSE Finish
     \/ /\ job.phase = "returned"
        /\ IF job.ok THEN job' = [job EXCEPT !.ok = FALSE] /\ UNCHANGED up ELSE Finish
  /\ device' \in Midway
  /\ Spend("lapse", 1)
  /\ KeepFiles /\ UNCHANGED <<current, applied>>

(* A failing `iw dev` in a namespace: its radios are not found *)
Overlooked ==
  LET e == Head(job.todo) IN
  /\ job.phase \in {"teardown", "rollback", "entries", "apply"} /\ job.todo # <<>>
  /\ device.netdev[e.radio].netns \in Netns
  /\ Spend("lapse", 1)
  /\ IF job.phase = "apply"
     THEN job' = [Popped EXCEPT !.done = Append(@, e)] /\ UNCHANGED device
     ELSE job' = Popped /\ device' = RemoveNetwork(device, e)
  /\ KeepFiles /\ UNCHANGED <<current, applied, up>>

ResetTimesOut(n) ==
  /\ Resettable(n)
  /\ device' \in Returning(device, {n})
  /\ Spend("lapse", 1)
  /\ UNCHANGED <<files, current, applied, job, editing, up, touched>>

Lapse ==
  TimesOutAtEntry \/ TimesOutReturning \/ Overlooked \/ \E n \in Netns : ResetTimesOut(n)

-------------------------------------------------------------------------------
(* Restarts.                                                               *)

(* Core stops anywhere.  Its supplicants die with the service, but survive   *)
(* a worker that is replaced; the radios stay as they are at that moment.    *)
Crash ==
  /\ Spend("crash", 1)
  /\ \E d \in Midway \cup UNION {Returning(device, {n}) : n \in {m \in Netns : Resettable(m)}} :
       device' \in {d, KillAllSupplicants(d)}
  /\ job' = NoJob /\ editing' = NoEdit /\ up' = FALSE
  /\ UNCHANGED <<files, current, applied, touched>>

(* The device reboots: only files remain, /run is a tmpfs *)
Reboot ==
  /\ Spend("crash", 1)
  /\ device' = AtBoot
  /\ job' = NoJob /\ editing' = NoEdit /\ up' = FALSE
  /\ UNCHANGED <<files, current, applied, touched>>

(* _initialize_network_namespaces in classic mode: repair current.txt and    *)
(* activate what it names, overriding                                        *)
Boot == ~up /\ BeginActivate(Active, TRUE) /\ UNCHANGED up

-------------------------------------------------------------------------------
(* Users and other tools.                                                  *)

Unplug(r) ==
  /\ device.netdev[r] # Unplugged
  /\ Spend("plug", 1)
  /\ device' = [device EXCEPT !.netdev[r] = Unplugged, !.owned = @ \ {r}, !.busy = @ \ {r}]
  /\ touched' = touched \cup {r}
  /\ UNCHANGED <<files, current, applied, job, editing, up>>

Plug(r) ==
  /\ device.netdev[r] = Unplugged
  /\ device' = [device EXCEPT !.netdev[r] = Home(r)]
  /\ UNCHANGED <<files, current, applied, job, editing, up, happened, touched>>

ToolTakes(r) ==
  /\ device.netdev[r].name # None /\ r \notin device.busy
  /\ Spend("tool", 1)
  /\ device' = [device EXCEPT !.busy = @ \cup {r}]
  /\ touched' = touched \cup {r}
  /\ UNCHANGED <<files, current, applied, job, editing, up>>

ToolLeaves(r) ==
  /\ r \in device.busy
  /\ device' = [device EXCEPT !.busy = @ \ {r}]
  /\ UNCHANGED <<files, current, applied, job, editing, up, happened, touched>>

(* a profile file is damaged by hand, or is of a schema Core no longer reads *)
Break(p) ==
  /\ p # Default /\ Readable(p)
  /\ Spend("break", 1)
  /\ files' = [files EXCEPT ![p] = Malformed]
  /\ UNCHANGED <<device, current, applied, job, editing, up, touched>>

Next ==
  \/ \E p \in Profile :
       \/ \E override \in BOOLEAN : Activate(p, override)
       \/ ActivateRefused(p) \/ BeginDeactivate(p) \/ BeginForcedDelete(p) \/ Delete(p)
       \/ Break(p)
       \/ \E v \in Version : Add(p, v) \/ BeginEdit(p, v)
  \/ BeginRevertAll \/ WriteEdit
  \/ \E n \in Netns : Reset(n)
  \/ JobStep \/ Lapse
  \/ Crash \/ Reboot \/ Boot
  \/ \E r \in Radio : Unplug(r) \/ Plug(r) \/ ToolTakes(r) \/ ToolLeaves(r)

Spec == Init /\ [][Next]_vars

(* A job runs in a thread of its own, commands have timeouts, and the        *)
(* service manager restarts the service.                                     *)
Fairness == WF_vars(JobStep) /\ WF_vars(Boot)

FairSpec == Spec /\ Fairness
-------------------------------------------------------------------------------
(* Properties.  "Quiet": between changes, as a client finds the device.     *)
(* `Only(K)`: of the disturbances, only those in K have happened so far; what *)
(* the others do to a property is in the README.                             *)

Quiet == up /\ job = NoJob

Only(K) == \A k \in Disturbance \ K : happened[k] = 0

(* current.txt never names a profile without a file (#277), although files   *)
(* are edited and deleted while activations run, commands time out and Core   *)
(* restarts, but for files that a hand or an edit has made unreadable        *)
CurrentNamesAProfile ==
  Only(Disturbance \ {"break"}) => files[current] # None

(* each namespace Core created belongs to the profile in force, also after   *)
(* restarts and after a deactivation of another profile                      *)
NamespacesFollowProfile ==
  Quiet /\ Only({"tool", "crash", "stray", "edit"}) =>
    \A n \in device.core : \E e \in EntrySet(applied) : e.netns = n

Wanted(s) == \E e \in EntrySet(applied) : e.secure /\ s = <<e.netns, e.name>>

(* so do the supplicants it started, also after restarts, but for one in a    *)
(* namespace that a restart left without Core's marker                       *)
SupplicantsFollowProfile ==
  Quiet /\ Only({"tool", "crash"}) =>
    \A s \in device.supplicants : s[1] \notin device.plain => Wanted(s)

(* and the netdevs it created                                                *)
OwnedAreWanted ==
  Quiet => \A r \in device.owned :
    \E e \in EntrySet(applied) : e.radio = r /\ Placed(device, e)

NetdevsFollowProfile == Only({"tool", "plug"}) => OwnedAreWanted

(* The profile in force exists and the old one does not linger beside it     *)
(* (#271, #277): what Core keeps on the device, in current.txt, in the       *)
(* ownership records and in the processes it started, is of one profile.     *)
SystemFollowsProfile ==
  /\ CurrentNamesAProfile
  /\ NamespacesFollowProfile /\ SupplicantsFollowProfile /\ NetdevsFollowProfile

(* A profile recorded as current was applied in full: whatever its           *)
(* predecessor had made of the radios, each one that nobody disturbed is     *)
(* where the profile wants it, under its name, claimed and associating.      *)
CurrentIsSetUp ==
  Quiet /\ current # Default /\ Only({"tool", "plug"}) =>
    \A e \in EntrySet(applied) : e.radio \notin touched =>
      /\ Placed(device, e) /\ e.radio \in device.owned
      /\ e.secure => <<e.netns, e.name>> \in device.supplicants

(* Whatever command is the first to fail, in an activation, once that has     *)
(* rolled back nothing is left in Core's hands: no netdev, no supplicant, and *)
(* every radio is out of its namespaces or in one it still retries.           *)
FailedActivationHandsBack ==
  [][job.op = "activate" /\ job.phase = "fallback" /\ job' = NoJob
     /\ Only({"tool", "fault"}) /\ happened["fault"] <= 1 =>
       /\ device.owned = {} /\ device.supplicants = {}
       /\ \A r \in Radio : device.netdev[r].netns \in Netns =>
            device.netdev[r].netns \in device.core]_vars

(* A single failing command never costs a radio its netdev (#236): it is     *)
(* restored where it was.  A command that times out, or a restart, between   *)
(* the deletion of the netdev and the creation of the new one does.          *)
RadiosHaveNetdevs ==
  \A r \in Radio : device.netdev[r] # Unplugged => device.netdev[r].name # None

NoRadioLost ==
  happened["fault"] <= 1 /\ Only(Disturbance \ {"lapse", "crash"}) => RadiosHaveNetdevs

(* The radio another tool uses in root is never renamed, recreated or moved, *)
(* even when Core created its netdev and tears that profile down (#304); but *)
(* for a tool that takes it while its own entry is being set up, and for a   *)
(* reboot of the device.  Timeouts and restarts do not change that.          *)
LeavesToolsAlone ==
  [][device' # AtBoot =>
     \A r \in device.busy :
       /\ device.netdev[r].netns = Root
       /\ ~(job.phase \in {"claim", "setup"} /\ Head(job.todo).radio = r)
       => device'.netdev[r] \in {device.netdev[r], Unplugged}]_vars

(* The command loop of a change always ends, and so does start up.           *)
ChangesEnd == (job # NoJob \/ ~up) ~> Quiet

-------------------------------------------------------------------------------
(* What comments and messages of the code say and the code does not do: these *)
(* do not hold, and the MCNetConfig<Case>.cfg show it.                         *)

(* _activate_config_locked: the old profile must not linger beside the new   *)
(* one (#271), whatever became of its deactivation                           *)
OldProfileIsGone == current # Default => OwnedAreWanted

(* delete_config: the active profile is deleted only by force                *)
ActiveIsNotDeleted == files[current] # None

(* edit_config: "Cannot edit active configuration"                           *)
ActiveIsNotEdited ==
  Quiet /\ Readable(current) => files[current] = applied

(* revert_to_root: the profile's name must not outlive it (#288)             *)
NamesDoNotOutliveProfile ==
  Quiet /\ current = Default =>
    \A r \in Radio \ touched : device.netdev[r] = Home(r)

(* _recreate_in_root: "On a failed step the original netdev is restored"; not *)
(* on a step that times out: RadiosHaveNetdevs does not hold with one lapse    *)

(* deactivate_config: Core's processes for an entry are stopped; not in a     *)
(* namespace whose marker a restart kept from being written                   *)
SupplicantsAreStopped == Quiet => \A s \in device.supplicants : Wanted(s)
===============================================================================
