# WLAN Pi Core in TLA+

Models of the parts of `wlanpi_core` whose difficulty is in the order in which
things happen: packet capture streamed to several WebSocket clients, the
network profiles that Core applies to the radios of a WLAN Pi with the monitors, DHCP
clients and apps that stay behind, the clients that edit them, the bearer tokens
of its REST interface, the profiler and the port blinker, Wi-Fi scans, and the life of a worker
from start-up to shutdown. Every definition
is translated from the source under `src/` (the package is `src/wlanpi_core/`,
and paths below are relative to it). `PROJECT.json` maps each definition to the lines it
stands for.

    tlc -workers 2 -config MCCapture.cfg MCCapture.tla       # a run
    for M in *Proofs.tla; do tlapm $M; done                  # the proofs

## 1. The system and its parts

Core is a FastAPI application, one gunicorn worker with one asyncio loop
(`debian/wlanpi-core.service`), which runs as root, drives the radios with
`iw`, `ip`, `wpa_supplicant` and `dhcpcd`, and is used over REST and one
WebSocket. Blocking work runs in threads of the default pool.

| Part | State it keeps | Operations | Interacts with |
|---|---|---|---|
| Capture, owners (`streaming/connection_manager.py`, `api/api_v1/endpoints/streaming_api.py`) | `interface_owners`, one client record per socket, `sessions` directory, a dumpcap and its tasks per capture | connect, authenticate, start, stop, disconnect, channel hopping, exit of dumpcap | dumpcap, `iw`, subscribers |
| Capture, subscribers (same files) | `subscribers`, `subscribed_to`, a bounded queue and a sender task per subscriber | subscribe, switch, unsubscribe, broadcast of a chunk, send, time out, end of session | owners' `stream()` |
| Network profiles (`utils/network_config.py`, start up in `app.py`) | profile files, `current.txt`, `network_change_lock` | activate, deactivate, delete, reset, revert, add, edit, boot | radios; REST; CLI |
| Radios (`services/network_namespace_service.py`, `wpa/supplicant.py`, `namespaces/namespace.py`, `adapters/`) | netdevs and namespaces of the kernel, ownership records under `/run`, supplicants | prepare, claim, set up, revert, return a namespace, restore after failure | profiles, tools that use radios |
| Connection monitors, DHCP, namespace apps (`connection/monitor.py`, `network/dhcp.py`, `utils/network_management.py`, `namespaces/apps.py`) | one thread per supplicant, `_connection_monitors`, pidfiles, child processes, routes | start, connect, lose, stop with a joined timeout, start and stop DHCP and apps | radios |
| Clients of the profiles (`cli/network_config.py`, `api/api_v1/endpoints/network_config_api.py`, `schemas/network/network.py`) | listings and copies fetched before, requests under way | list, edit, create, activate, deactivate, delete, log in and out | profiles |
| Tokens and signing keys (`core/token.py`, `core/auth.py`, `core/repositories.py`, `core/database.py`, `api/api_v1/endpoints/auth_api.py`) | SQLite tables of tokens, keys and devices | issue, verify, revoke, rotate key, revoke at start up | REST, the streaming socket |
| Application life cycle (`app.py`, `core/system.py`, `core/security.py`, `core/database.py`, `debian/wlanpi-core.service`) | secret file, engine, health task, monitor netdevs | start up, health checks, reload, restart, shutdown | all; `cli/getjwt.py` |
| Profiler control, port blinker (`profiler/`, `services/utils_service.py`, `services/system_service.py`) | a child process or a unit each, a lock, status files | start, stop, purge, restart | systemd, the profiler |
| Wi-Fi scans (`wlan/scan.py`, `wpa/scan.py`, `streaming/mt76_rxfilter.py`) | `_active_scans`, links taken down or raised for the time of a scan | choose an interface, claim, pause monitors, scan, put back | radios, captures |
| Hotspot, Bluetooth, VLANs, information | files of tools | a command and the parse of its output | tools |

The hard behaviours, and the properties that make each part correct:

* **Owners.** `stop_streaming`, `disconnect` and the `finally` of `stream()` all
  dismantle the same capture, each across several awaits, and dumpcap can die
  at any of them; a second start can be under way by the time the first is over.
  Correct: no two dumpcaps on an interface, interfaces registered for as long
  as dumpcap runs, nothing left of an ended capture, ends reported once and
  truthfully, stops that get through.
* **Subscribers.** Three kinds of task edit the two directions of a
  subscription; queues fill, sends time out, sockets switch sessions. Correct:
  a subscriber gets a decodable stream without gaps or is cut off, the limits
  hold, the directions agree, the detached are free again.
* **Profiles and radios.** A change is a long loop of commands, each of which
  may fail, under a lock which edits do not take and other tools do not know,
  and which Core may not survive. Correct: what Core created is what the
  profile in force asks for, a failed change hands everything back, no radio is
  lost, or taken from who uses it, `current.txt` names a file, changes end.
* **Monitors and apps.** A monitor that was told to stop does not
  configure an interface that another profile now owns; its join times out at
  2 s (`connection/monitor.py:210`) while DHCP may take longer; pidfiles outlive their
  processes. Correct: no thread out of control, one late effect at most, nothing left
  of an entry that is down, no stranger's process signalled.
* **Clients.** They act on what they saw earlier, on copies without secrets. Correct: no secret
  lost or given to another entry, `current.txt` names what can be read.
* **Tools and scans.** Several requests, Core's earlier workers and users drive the same processes and
  links. Correct: answers true of the processes, purges alone, links put back.
* **Life cycle.** Killed between any two steps, or beside a second worker at a reload.
  Correct: one monitor per radio, one secret agreed on, engines disposed of, tables back.
* **Tokens and keys.** Requests read and write one database in several statements
  each, any of which may fail, beside others that revoke tokens and rotate keys;
  the wall clock is wrong after boot and jumps. Correct: one active key, live
  tokens signed with it, revocation for good, lifetimes true to the documented table.

## 2. Modules

### `ExclusiveCapture`, `Capture`, `MCCapture`, `CaptureProofs`: owners

`ExclusiveCapture` says what streaming promises about the interfaces: a capture
reads a set of them from start to exit, and no two captures share one.

`Capture` is the code. All of it runs on one event loop, so an action is the
code between two awaits; which await a coroutine is at is its program counter:

* `handler[w]`, a socket's command loop (`streaming_api.py:97-222`): `auth`,
  `idle`, in `start_streaming` at namespace resolution or tuning (`resolve`,
  `tune`), in `stop_streaming` at the joined task, the terminated process or the
  hop tasks (`stopTask`, `stopProc`, `stopHops`), the same within `disconnect`
  (`bye...`), and `gone`.
* `stream[c]`, the task that reads dumpcap: created (`new`), reading, awaiting
  `terminate_process_async` in its `finally` (`term`), the hop tasks (`hops`),
  `done`. `cancelled[c]` is a `CancelledError` that will be raised at its await,
  which is why `StreamCut` skips the rest of a `finally`.
* `hop[c]`, the hop tasks as a group, and `joins`, who awaits which group.
* `interface_owners`, `sessions` and the fields of a client record have the
  names of the source. `stopping[w]` are the locals `task` and `proc` of
  `stop_streaming`, which are read before its awaits and used after.
* `by`, `on`, `ns` remember with what a capture was started; `ended` the end
  code its subscribers were told.

A capture id stands for a dumpcap, its `stream()` task, its hop tasks and its
session id. Rejected commands are stuttering steps. Channel validation, tuning
commands and wire formats are abstracted away; a start may fail wherever they can.

### `CaptureFeed`, `MCCaptureFeed`, `CaptureFeedProofs`: subscribers

A socket's handler, the `stream()` of each owner (`Broadcast`, `EndSession`) and
each subscriber's `_send_subscription` interleave. A queue is a sequence of items: the
`SUBSCRIBED` event, header replay, blocks, the end code, the `done` and `close`
marks. A block is its position in its session. `Offer` is the `put_nowait` that
evicts a subscriber whose queue is full (`_close_subscription_queue` replaces
what is queued), `SenderTimesOut` the send timeout. The histories `got` and
`since` record what was sent, and from which block on. How a capture starts and
stops is `Capture`'s: here a session may end whenever its socket owns one.

### `Radios`, `NetConfig`, `MCNetConfig`, `NetConfigProofs`: profiles

`Radios` has no variables. Its operators take a device (netdev of each radio
with its namespace and name, the namespaces Core created and marked, those a
restart left without marker, the radios whose netdev Core owns, those another
tool uses, the running supplicants) and return the set of outcomes of an
operation: what is done, what each failing command leaves behind, the status
the caller sees, and how many commands failed. A second set
(`Reverting`, `Deactivating`, `Preparing`, `SettingUp`, `Returning`) has the devices at
which the operation can be cut short. A restart does that, and so does a
command that times out: `run_command` then raises `TimeoutExpired`
(`utils/general.py:126-132`), which the handlers of failing commands do not
catch (`network_namespace_service.py:493, 669, 684, 889, 904, 916, 967, 982`), so
nothing is restored.
`Deactivate` and `Revert` undo an entry, `Prepare`, `Claim` and `Setup` apply
one, `Return` gives up namespaces. `UniqueInterfaces` is what `validate_unique_interfaces` demands
of a profile that is stored; the proofs need it, since two entries of one radio would undo one another.

`NetConfig` has the files, `current.txt` and the one change under
`network_change_lock` as a job that goes from phase to phase and entry to entry:

    activate:   teardown -> apply (claim -> setup)* -> commit
                                                    -> rollback -> fallback
    deactivate: entries -> record -> returned        delete: ... -> unlink
    revert_all: teardown -> fallback

`BeginEdit` and `WriteEdit` are the check and the write of `edit_config`, which
is not under the lock. `Boot` is `_initialize_network_namespaces`. `Crash`
(worker or service restarted; a replaced worker's supplicants survive) and
`Reboot` (only files survive) happen at any point, also in the middle of an entry (`Midway`), and so does
`Lapse`, a command that times out: an entry that is being undone is passed over, one that is being applied ends in
the rollback (`TimesOutAtEntry`), but what raises in the `revert_to_root(None)` of `_teardown_profile` ends the change without rollback or
record, since the call at `network_config.py:615` is in no `try` (`TimesOutReturning`). `Overlooked` is the `iw dev` of a namespace that
fails: its radios then count as unplugged (`adapters/discovery.py:184`). Between any two steps there are unplugged and plugged
radios, tools that take a radio, and files damaged by hand. `applied` and
`touched` are histories: the version `current.txt` was written for, and the
radios that were disturbed. `happened` counts disturbances of each kind.

### `Tokens`, `MCTokens`, `TokensProofs`: tokens and keys

A request is at a point of its handler (`req[r].pc`): the two selects of
`verify_token`, then what its endpoint does: `serve`, `create_token` (`begin`,
`select`, `insert`), `revoke_token` (`read`, `mark`), or `rotate_key`; then `commit`.
SQLite is modelled as `create_token` and its test
(`src/tests/test_token_revocation.py:130`) rely on it: `db` is committed, `writer` has
the write lock from its first write or its `BEGIN IMMEDIATE`, `dirty` is what it
sees; selects outside a transaction see what is committed at that moment. The
statements of `rotate_key` are one step since nobody sees between them. `Fails`
is an error or a lock wait that times out. `clock` has the true time, the wall clock,
`CLOCK_BOOTTIME` and the boot id; `_validate_lifetime` is `Lifetime`. Tokens of older
versions, without `bid`, are those of boot 0. `good` and `made` are histories.

### `Monitors`, `MCMonitors`, `MonitorsProofs`: what an entry leaves running

`thread[t]` is where the handler that changes the profile (`stopApp`, `killApp`, `signal`, ...) or a
connection monitor is: `poll`, then within `restart_dhcp_with_timeout` at `release`, `spawn`, `lease`,
then `route`, the app (`admit`, `launch`, `record`, `verify`) and `finish`. The action of a monitor is what it does between
two checks of its `stop_event` (`told`). `registry` is `_connection_monitors`; `joining` the monitor the
handler waits for. `proc` is the process of each pid, few and reused; `dhcpfile` and `appfile` are the
pidfiles, `owned` the children this worker can reap. `Crash` takes the threads and leaves the processes.
`late` counts the effects a monitor began after it was told; `excused` notes entries with a process that a
stop could not have known or that did not obey, and those that `deactivate_config` left alone because the
netdev it found was not Core's (`LeaveAlone`).

### `ConfigClients`, `MCConfigClients`, `ConfigClientsProofs`: what profiles hold, and who edits them

A profile is a function from slots, the (namespace, interface) pairs of its entries, to their security; a PSK is a passphrase,
64 hex digits, or what a user left blank. `client`, `listing`, `held` are a command-line session's
prompt, the labels it was shown and its copy; `request` is what has been sent and not yet answered. A handler of the endpoints
that stays on the event loop is one action, with the schema's validation (`Valid`, `PskOK`), `KeepStoredSecrets` and the write.
Activation, deactivation and a forced deletion run in a thread (`asyncio.to_thread`) and hold `lock`, which is
`network_change_lock`, from a `Begin` action to an `End`; edits, additions and requests that are refused come in between. What they
do to the device is `NetConfig`'s, here only their outcome. `edited` is a history: the profiles that were edited since an activation
last read them.

### `Requests`, `Tools`, `MCTools`, `ToolsProofs`: profiler, unit, port blinker

`run` are the runs of the profiler with who started them (Core's child, a former worker's, systemd for a call of Core, others);
`unit`, `pending` and `client` the unit, the calls to systemd that Core has given up on and the D-Bus connection;
`status` and `session` the files the profiler writes; `core` the module globals and locks; `req` what each
request is at. A behaviour requests one set of operations (`Mixes`). `saidRunning`, `saidReason`, `delete` and
`dark` are points at which a property looks at what a request is about to answer or do.

### `Scans`: Wi-Fi scans

`scan[r]` is where a scan is: `look` and `check` (`_monitors_to_pause`), `claim`, `state`, `pause`, `wpa` and `poll`
(`run_wpa_cli_scan`) or `iw` and `await` (`run_iw_scan`), and the two `finally`
blocks `lower`, `restore`, `release`. `up` are the interfaces that are up, `captured` those a packet socket is on,
`sweeping` those whose radio goes through its channels for them. That is the radio's doing: `Trigger` asks for a sweep, `SweepEnds` ends it,
and `ScanEnds` is the end of polling, on the first cached results or after 4 s, or of `iw`'s wait; `deaf` are the mt7921 radios that a sweep has set DROP_OTHER_UC on.
`found` (links before any scan), `late` (scans that had looked for captures before one began), `spoiled` (things whose own command failed) and
`outlived` (radios whose sweep went on when its scan had answered) are histories.

`Requests` declares what `Tools` and `Scans` have in common; `MCTools` extends both and checks them in one run. They
share no state, and a behaviour is of one of them. `ToolsProofs` proves about both.

### `Lifecycle`, `MCLifecycle`, `LifecycleProofs`: a worker's life

`unit` is systemd's view, `worker[w].at` the step of `initialize_components` or of the lifespan a worker is
at, with its secret, its engines (`engine`, `open`, `stuck`), what the health task is at and the locals of
`sync_monitor_interfaces`. What outlives it: `file` (the secret), `tables`, and `net` (monitor and managed netdevs; `missed` there is a history).
The look of the sync may miss any netdev: one whose `iw dev <name> info` fails is left out (`core/system.py:71-77`).
`signed` is what a running `getjwt` has read of the secret. `Mixes` gives each behaviour alternative disturbances:
a kill, a reload, a restart, a failing component, lost tables, a radio that changes.

## 3. What the runs check

Passing runs:

| Run | Instance | Shows |
|---|---|---|
| `capture` | 2 sockets, 2 interfaces, 2 namespaces, 2 captures; symmetric; 998 k states | `NoSharedInterface`, `LeaseCoversCapture`, `NothingLeftOver` (idle and gone sockets hold nothing, the directory is accurate), `HopsInOwnNamespace`, `EndCodeTellsWhoEnded`; `ImplementsExclusive` |
| `capture_live` | the same with 1 interface, 1 namespace, no symmetry | `StopCompletes`, `ExitFreesInterfaces` |
| `feed` | 3 sockets, 2 sessions, 1 subscriber per session; symmetric | `SubscribersAgree` (both directions, the limit, never owner and subscriber, the gone forgotten) |
| `feed_stream` | 2 sockets, 2 sessions, 2 header blocks of up to 4, chunks of up to 2, queue of 4; 73 k states | `FeedIsExact`, `NoSilentDrop`, `EndedSessionDetaches` |
| `netconfig` | 2 radios, 1 namespace, profiles default, A and B; 1.0 M states | `SystemFollowsProfile` (its parts: `CurrentNamesAProfile`, `NamespacesFollowProfile`, `SupplicantsFollowProfile`, `NetdevsFollowProfile`), `CurrentIsSetUp`, `NoRadioLost`, `FailedActivationHandsBack`, `LeavesToolsAlone` |
| `netconfig_live` | 2 radios, profiles default and A; 184 k states | `ChangesEnd` |
| `tokens` | up to 3 requests, 3 keys, 2 tokens, 2 boots; symmetric; 739 k states | `OneActiveKey`, `LiveTokensUseActiveKey`, `AcceptedWasValid`, `NeverValidAgain`, `SameBootMonotonic` |
| `monitors` | 2 entries (root with an app; a namespace with DHCP, route and app), 2 monitors, 2 pids, 1 disturbance; 2.62 M states | `NoUncontrolledMonitor`, `OneLateEffect`, `DownMeansQuiet`, `KillsOnlyItsOwn` |
| `clients` | a command-line session and another client, 1 profile of up to 3 entries, 2 of one interface; 2 requests; 769 k states | `CurrentCanBeRead`, `SecretsKept` |
| `tools` | 2 requests, 3 runs of the profiler or 2 of the blinker, or scans on a radio with 2 managed interfaces and 2 monitors; 1 disturbance; 4.18 M states | `ChildIsNamed`, `StartTellsTruth`, `PurgeAlone`, `OneBlinker`, `StopMeansDark`; `LeftAsFound`, `ScansStayApart` |
| `lifecycle` | 2 workers, 2 radios, 2 managed netdevs; alternative mixes of disturbances; 940 k states | `OneCoreMonitor`, `SignedIsAccepted`, `EnginesDisposed`, `TablesComeBack` |

The modules' `TypeOK` document the types of the variables; all are proved (section 5).

**Bounds.** Streaming: two captures suffice for one to be dismantled while its
socket, or the other, starts the next; the number of capture or session ids is
the only bound on behaviours, and because they run out deadlock is not checked
there. Mutual exclusion is proved for every size (section 5). In `feed` a third socket makes
the limit bite and lets a listener switch sessions; `feed_stream` has streams longer than
the header and than the queue, so the replay meets a header that is still
arriving and the queue overflows within a chunk.
Profiles: A uses a namespace and a renamed root radio, B plainly one of them,
so every pair of profiles in force and to come is there; an edit makes any profile
of either, `bad` is a version that fails validation. `Budgets` (from `Mixes` and `Files`)
bounds the disturbances of a behaviour, as alternatives: a tool takes a radio or one
command fails, with a radio unplugged and plugged; a tool, a failing command and
a deactivation of a profile not in force; two restarts of Core or the device;
one restart, with an edit or with such a deactivation; a command that times out, with a tool; in `netconfig_live` one of each
except tools, unplugged radios and timeouts, or a timeout with an edit and a restart. The deadlock check is on.
Tokens: `Settings` are three alternatives. Three requests with two keys and two tokens: one
verifies or creates while others rotate and revoke. Two requests with three keys: two rotations after a
first key. One request at a time with clocks: a lifetime of 2 ticks, a skew of 1 and 3
ticks of time, so every boundary of `_validate_lifetime` is met, in the same boot and in the next.
Monitors: two threads let an old one meet its successor; two pids make the kernel reuse one while a pidfile still names it; `MaxFaults` counts
crashes, strangers' processes, signals that are ignored, joins that time out and netdevs that are no longer Core's.
Clients: two requests of either client, which is an edit on a copy that another request has made old;
requests run out, so deadlock is not checked.
Tools: two requests are any pair of racing calls; the runs are one more than can be wanted at a time. Scans: two of each mode, so that there is a
choice of target, and several links to put back; the radio is Intel or mt7921 (others are a mt7921 without its filter).
Life cycle: `Burst` and `Attempts` are 2 for systemd's 5 and the code's 3 retries; two workers are a reload. systemd may give up, after which nothing happens,
so deadlock is not checked.

**Which disturbances a property withstands.** `Only(K)` in a property of
`NetConfig` names the disturbances it holds under. What breaks it otherwise:

* `NamespacesFollowProfile` fails when deleting the interface fails while its entry
  is prepared (the namespace just created stays, see below), when a radio is unplugged
  during its set-up (the revert finds nothing to do), and when the active file is
  damaged: a refused activation has then already put `default` into `current.txt`.
* `SupplicantsFollowProfile` and `NetdevsFollowProfile` fail when a deactivation
  stops at a failed entry (section 4), and, with
  `CurrentIsSetUp`, when the file of an active profile is edited or damaged, or a profile
  that is not in force is deactivated and shares a radio with the one that is.
* `NetdevsFollowProfile` and `CurrentIsSetUp` fail after a restart in the middle
  of an activation (section 4, `MCNetConfigRename.cfg`).
* A replugged radio is no longer Core's, nor is one in a namespace without marker, so `deactivate_config` returns at once
  (`network_namespace_service.py:375`) and the supplicant and monitor started
  for it stay, although its docstring says they are stopped "even when the netdev is
  gone". `SupplicantsFollowProfile` leaves these cases out (`device.plain` are the namespaces without marker, section 4,
  `MCNetConfigCut.cfg`), and `excused` in `Monitors` has them for monitors, dhcpcd and apps.
* After a command that timed out only `CurrentNamesAProfile` and `LeavesToolsAlone` still hold: what was in progress is left as it
  is, and `NoRadioLost` fails at once (section 4, `MCNetConfigTimeout.cfg`). A restart that falls between the deletion of a netdev
  and the creation of the new one has the same effect on that radio.
* `CurrentNamesAProfile` fails when the active file is damaged, by hand or by an edit that was begun before the activation and kept an
  unsuitable secret: `is_active` is then false, and the file can be deleted
  (section 4, `MCNetConfigDelete.cfg`).
* `FailedActivationHandsBack` is about the first command that fails: an earlier one may have left something lingering
  that the activation knows nothing of.

Elsewhere the histories name what is excepted: `excused` in `Monitors` (a stop that timed out, a process that ignored its signal,
one that Core died before recording, a netdev that was not Core's), `edited` in `ConfigClients` (a profile edited while it is being activated, which may make it
unreadable: `edit_config` does not take the lock), `blind` and `known` in `Tools` (runs whose status file did not exist yet when a purge looked; runs of others that began later),
`spoiled` in `Scans` (the link whose own restore failed, and what a dead worker had changed) and `outlived` there (what a radio does after its scan has answered, section 4), and, in `Lifecycle`, `raced` (at a reload
during the first start two workers may both make the secret, and the one that serves may hold the other one) and `missed` (a monitor that is
not named after its radio and whose radio a failing read hid, section 4).

Differences between text and code that the models make visible, beside section 4:

* A failed activation that
  overrode profile A leaves `default` in `current.txt`
  (`network_config.py:636-647`), where `src/tests/scenarios/ACTIVATION_OUTCOMES.md:10-11,28`
  say it is unchanged.
* `_prepare_namespace` leaves the namespace it has just
  created when deleting the interface is what fails
  (`network_namespace_service.py:959`; `Prepare` in `Radios` has this outcome),
  where line 929 says it is removed.
* `stop_app_in_namespace` answers "True once it is gone" (`apps.py:280`), but for a process that is no
  child of this worker it has only sent SIGTERM (`apps.py:369, 435`); in root such an app is identified by its command alone.
* A stop of the profiler waits for its 10 s of grace because "an earlier SIGKILL leaves it staged" (`profiler/cli.py:172-173`); a
  restart of the service kills it without (`KillMode=mixed`). A profiler left by a dead worker can no longer be stopped through Core.
* The command-line client offers nine security types, the API accepts four; an edit made with it asks for the PSK again, so it never
  uses what `update_config` keeps. Of two editors of one profile the later one wins.

**Fairness.** `Capture` and `CaptureFeed`: the event loop runs each ready
coroutine, the end of file of an exited dumpcap is noticed, terminated
processes and cancelled hop tasks end, a send ends within its timeout. Nothing
makes a client send a command or a healthy dumpcap stop, so a stop may take for
ever to be asked for, never to be carried out. `NetConfig`: a job's thread goes
on (every command has a timeout) and the service manager restarts Core; both are
weak fairness. `Lifecycle`: systemd and gunicorn start what is to run, and a worker's start-up, its health task and its shutdown go on.
Disturbances have no fairness.
The other modules state no liveness: a request may fail whenever it waits.

## 4. Disagreements found

`edit_keeps_hex` is a run that checks one property, `ReadsBack`, stating what the text quoted in
`PROJECT.json` says, and that is violated: `_keep_stored_secrets` runs after the update was validated,
so an edit that keeps a PSK of 64 hex digits and sets WPA3 writes a file that no one can read again.

More of the kind, each with a configuration of its own to see the behaviour
(`tlc -config MCNetConfigEdit.cfg MCNetConfig.tla` and so on):

* `MCNetConfigEdit.cfg`, `ActiveIsNotEdited`: `edit_config` tests `is_active` and writes
  without the lock (`network_config.py:517`); an activation in between makes the edited profile active. The file may even be one that cannot be read
  (the disagreement above), and is then in force (`CurrentCanBeRead` excepts it).
* `MCNetConfigRename.cfg`, `NamesDoNotOutliveProfile`: after a restart in the middle of
  an activation the namespace is returned by `_return_namespace_phys`
  (`network_namespace_service.py:684`), which
  moves the phy home under the profile's display name, where line 452 says the name must not outlive the profile (#288). No interface then has
  the radio's own name, so the next activation reports its entry `provisioned`
  without setting anything up.
* `MCNetConfigDelete.cfg`, `ActiveIsNotDeleted`: `is_active` is false for a
  malformed profile, so the active one can be deleted without `force`
  (`network_config.py:547`, against 540-541).
* `MCNetConfigLinger.cfg`, `OldProfileIsGone`: `_deactivate_config_locked` stops
  at the first entry that raises and records `default` (`network_config.py:841`); the later root entries
  stay Core's beside the next profile, against line 614 (#271).
* `MCNetConfigTimeout.cfg`, `RadiosHaveNetdevs`: a command that times out after the netdev was deleted leaves the radio without
  one, where `network_namespace_service.py:479` and 929 say that the original is restored on a failed step
  (#236): the restore is in a handler of `RunCommandError`.
* `MCNetConfigCut.cfg`, `SupplicantsAreStopped`: a restart between `ip netns add` and the write of the marker
  (`network_namespace_service.py:940, 945`) leaves a namespace that Core finds on the next activation and uses, but does not
  count as its own; the radio in it and its supplicant are then left alone when the profile is deactivated (375-377, against 367-369).
* `MCMonitorsApps.cfg`, `OneAppPerPlace`: two threads that see no running app both launch one
  (`namespaces/apps.py:156-161`: "An application is already running in namespace"). It takes two entries with an app in one
  namespace, or a stop that timed out: otherwise `OneProcessEach` (section 5) excludes it.
* `MCToolsPurge.cfg`, `PurgeExcludesCoreStarts`: a start of the profiler's unit holds `profiler_lock` while Core waits for
  systemd. When Core gives up waiting the lock is released, and systemd carries the start out
  while a purge deletes, where `services/system_service.py:431-432` says the purge "cannot race a start through Core".
* `MCToolsMonitors.cfg`, `EachLeftAsFound`: on an Intel radio with monitors only, a scan by the name of one raises it when it is
  down, and another scan that looks meanwhile finds it up. By the time that one has its claim the first has lowered it again; it is "paused" nevertheless, raised at the
  end (`wpa/scan.py:613-615`) and stays up, although each of the two scans put back what it had found.
* `MCToolsScans.cfg`, `NoScanBesideMonitor`: a scan looks for monitors that are up before it claims
  (`wpa/scan.py:567, 572`). One that looks while another scan has the monitor down, and claims after that
  scan has put it back, scans beside it, against lines 568-569.
* `MCToolsSweep.cfg`, `NoRestoreInSweep`, and `MCToolsHearing.cfg`, `LeftHearing`: `run_wpa_cli_scan` answers on the first results, which may be cached
  ones, or after 4 s (`wpa/scan.py:461-476`), and the cleanup runs while the radio still sweeps: a monitor comes up on an Intel radio that scans, against
  lines 568-569, and the mt7921 filter is set again after it was cleared, where `streaming/mt76_rxfilter.py:6` says "captures and scans clear it".
* `MCLifecycleRead.cfg`, `RadiosHaveOneMonitor`: the sync leaves out a monitor whose `iw dev <name> info` fails or times out
  (`core/system.py:71-77, 157-161`). With a monitor that is numbered otherwise its radio then gets a second one, which line 168
  ("a second monitor plus a scan crashes BE200 firmware") is there to prevent.

## 5. What is proved

The proofs have no bound but what the constants' assumptions say; TLC evaluates the assumptions in the
runs. Each module of proofs builds one inductive invariant, shows
that the initial states satisfy it and every step keeps it (one lemma per part of the invariant, one step per action), and
draws the properties from it. What is listed here are safety and action properties, most of which only
follow with what the invariant adds.

**`CaptureProofs`**, for any number of sockets, interfaces, namespaces and captures, from
`RootAssumption` (`Root` is a namespace), `NoneAssumption` and `ActorAssumption` (sockets, captures and
`None` are different things).

* `LeaseInvariance`: `Spec => []LeaseInvariant`. It contains the type invariant.
* `LeaseCovers`: a running dumpcap's interfaces are registered to its socket.
* `NoSharing`: two running dumpcaps share no interface.
* `CaptureImplementsExclusive`: `Capture` refines `ExclusiveCapture`, reading
  `on[c]` while `dumpcap[c]` runs.
* `CapturesCleanUp` (`NothingLeftOver`), `HopsStayHome`, `EndIsToldOnce`, from `RecordsAreOne`:
  `Spec => []CleanInvariant`.

Why an invariant beyond the safety property is needed: that an interface has
one owner says nothing of who else still reads it. `LeaseInvariant` ties every
process and task to the client record at every await. `RunningIsProc`: a running
dumpcap is `client["proc"]` and its interfaces are among those claimed.
`StreamIsTask`: a live `stream()` is `client["task"]`, and past `terminate` its
dumpcap has exited, so the release that follows is safe. `NoneWhileStarting`: a client that is
starting has neither, so `Spawn` overwrites nothing. `StopDealsWithAll`: the
locals of a `stop_streaming` are still what the client has, and from its second
await on its task is done, from its third on its process has exited; so its
release is safe too. `ClaimsRegistered` closes the circle. The induction is one
step per action (`LeaseStep`), with lemmas for the three actions that release
(`StartFailsKeeps`, `StopFinishKeeps`, `StreamFinishesKeeps`).

That nothing is left over is about the other direction, and `CleanInvariant` adds it: a client's task, process, session and hop
tasks are of one capture (`OneRecord`), a session in the directory is a client's (`DirectoryIsCurrent`), claims have a start, a
stop or a capture that will release them (`ClaimsHaveReason`), a task is cancelled only by a stop that awaits it
(`CancelIsAwaited`: otherwise nobody would do what `StreamCut` skips), and cancelled hop tasks are awaited (`HopsAreHeld`).

**`CaptureFeedProofs`**, for any number of sockets and sessions, any header, chunks and limits, from
`FeedAssumption` (a queue holds at least the two items that `subscribe()` puts into it).

* `SubscribersAreKnown`: `SubscribersAgree`, from `RolesAreKept` (`RoleInvariant`). The directory is
  current, a client at an await of `subscribe`, `unsubscribe` or `disconnect` is detached already (`Roles`), and a sender
  task is that of the subscription or is cancelled (`Senders`).
* `FeedsAreExact`, `NothingIsDropped`, from `StoriesAreKept` (`FeedInvariant`). What was sent and what is queued,
  put together, are the story of the session from the subscription on: exact up to an end or a close, and, while the subscriber is
  not evicted, complete up to the last block framed. Neither half is inductive alone: a send moves an item from one to the other, and an
  eviction replaces the queue after part of it was sent.

**`TokensProofs`**, for any number of requests, keys, tokens, boots and any
lifetime, from `TokensAssumption` (the types of the bounds; `None` is no request, key or token):

* `DatabaseInvariance`: the inductive invariant, with the type invariant.
* `OneKeyIsActive`, `LiveTokensAreSound`: what is committed has at most one active
  key, and no live token of another one.
* `RevocationIsFinal` and `OnlyValidAccepted`: a token that stopped being valid is not
  valid again, so a request accepted after two reads had a valid token when it came in.
* `LifetimeIsMonotonic`: in its own boot a token is good for its lifetime exactly.

What is committed says nothing of what is about to be: `DatabaseInvariant` has the same
soundness of `dirty`, says that `dirty` makes valid no token that is not (`Follows`),
and that a request which has selected its key has the lock and the key is still active
(`HoldsLock`). That is what `BEGIN IMMEDIATE` is for: without it `InsertKeeps` would not apply.
`BadStaysBad` and `PastVerify` follow requests past `verify_token`. The proof has a lemma
for each write to the database (`ReplaceKeyKeeps`, `InsertKeeps`, `RevokeKeeps`), one for a
request's step (`RequestStep`), and then one per action. For lifetimes, `AgesAgree` says that
claims of this boot are as old by `CLOCK_BOOTTIME` as they truly are.

**`NetConfigProofs`**, for any number of profiles and versions, any finite number of radios, any namespaces, layouts and
numbers of disturbances, from `NamesAssumption` (radios, display names, namespaces and `None` are told apart; radios and namespaces are finite) and
`ProfileAssumption` (entries of a version have interfaces of their own; `default` can be read and validates at first).
All safety properties that the run `netconfig` checks are proved:

* `ProfilesAreKnown`: types, and what a job's guards guarantee in its later phases (`SystemInvariant`).
* `NoRadiosAreLost`: `NoRadioLost`. Of each operator of `Radios` it is shown that a radio without a netdev costs a failed command
  beyond the first one, which is why the failures are counted in an outcome. It says nothing of timeouts and restarts, which do cost one.
* `ToolsAreLeftAlone`: `LeavesToolsAlone`, operator by operator.
* `CurrentIsAProfile`, `NamespacesAreTheProfiles`: two parts of `SystemFollowsProfile`, under wider
  disturbances than the others. `FilesInvariant`: unless files are made unreadable, the file of the profile in force and that of a job's
  profile exist, since both an edit and a deletion ask `is_active`, and a job that goes on to unlink has recorded
  `default`. `NamespaceInvariant`: once a job applies, the namespaces Core has are the new profile's, whatever was in force and whatever
  a restart left, because `revert_to_root(None)` returns all of them first and no command fails.
* `SystemIsTheProfiles`: `SystemFollowsProfile`. `InForce` are the entries of the profile in force and, during a job, those that it has
  not undone yet, or has done already; `OwnersInvariant` and `SupplicantsInvariant` say that what Core owns and runs is of
  these, at every point of a job. What Core owns is preserved only while nothing fails; supplicants also across restarts
  of the worker, after which the next start-up finds them (`Serving`).
* `FailedActivationsHandBack`: the same two with the other alternative of `Tolerable`, an activation that is failing at its first
  failed command. `FaultsComeLate`: a state that is `Tolerable` came from one that is, so the entries before the one that failed are
  still accounted for in `InForce`, and rolling back undoes them.
* `CurrentProfileIsSetUp`: `CurrentIsSetUp`. As long as nothing fails (`Calm`), each radio that nobody disturbed is at home, or as the
  one entry in force for it wants it (`RadiosSettled`), whichever profile had it before; so preparing an entry finds its radio,
  and the entries that a job has passed by stay set up while it works on others (`ProfileSetUp`). That they do is what
  `UniqueInterfaces` is for.

The lemmas about `Radios` come first (`DeactivateOK`, `PrepareOK` and the like: types, and which radios an operation leaves as they
were), then what each operation keeps of these invariants (`UndoingKeeps`, `PreparingKeeps`, `ClaimingKeeps`, `SettingUpKeeps`,
`ReturningKeeps`), then the steps of `NetConfig`.

* `ChangesAreFinite`: every step of a change brings it nearer to its end, whatever fails and whatever is edited or plugged meanwhile
  (`StepsLeft`, a bound that is known when it starts). It is the part of `ChangesEnd` that is no liveness; what remains is that a job
  that is not over can go on, and does.

**`ConfigClientsProofs`**, for any number of clients, profiles, entries and edits, from `ClientsAssumption` (each slot has an
interface; `None` is no slot and no client, and neither `None` nor `Default` an id of another profile).

* `CurrentIsReadable` (`CurrentCanBeRead`), from `ClientsAreKnown`, whose invariant also has the types (`ClientsTyped`): copies
  hold no secrets, and what a file stores is of the types that the API accepts.
  What it adds is `LockKnown`: a profile that a running activation has read can be read until the activation ends, or was edited
  meanwhile, because a deletion needs the lock that the activation holds. The property's exception is needed for the same reason: an edit
  does not need it, and may write what `ReadsBack` is about.
* `SecretsStay` (`SecretsKept`): what a step makes of the secret in a slot is what was there or what a request that was handled typed for this
  very slot. It holds of each step in each typed state, whatever the copy's age, since `KeepStoredSecrets` reads the file and not the copy.

**`MonitorsProofs`**, for any number of entries, monitors and pids, from `MonitorsAssumption` (types; the handler is no monitor;
entries, namespaces and `None` are told apart).

* `MonitorsAreControlled` (`NoUncontrolledMonitor`), `EffectsEnd` (`OneLateEffect`), `SignalsHitTheirOwn` (`KillsOnlyItsOwn`), from
  `MonitorsAreKnown`. A join that times out waits for a monitor that was told (`JoinsTheTold`), so removing it from the
  registry is safe; a monitor with a late effect is past its last test of `stop_event` (`LateIsLast`); the pid that a thread has just
  been given is what it started, or free (`PidsAreFresh`), and what this worker can reap is an app (`ChildrenAreApps`). The last two
  make signals by a remembered pid safe although pids are reused.
* `DownIsQuiet` (`DownMeansQuiet`), from `ProcessesAreKnown`: `Spec => []QuietInvariant`. That an entry is quiet once it is down
  follows from what is known of every process before, for entries that nothing excuses (not those left alone, either). The handler asks for what the entry has
  (`HandlerKnows`); the entry's monitor, if any, is the registered one, and none of the entry is being stopped then (`MonitorsKnow`);
  its dhcpcd is the one of the pidfile, or has just been started and a monitor waits for its lease (`DhcpsKnown`), so that stopping by
  the pidfile stops it; and so is its app, where no other entry starts one in its namespace (`AppsKnown`, `SoleApp`): it is in the pidfile or
  about to be recorded, nothing else of the entry is launching one, and what the handler is about to kill is what the file names.
  `OwnedRecords` is for the gap between launch and record: the process is a child that can be reaped, or has been.
* `OneProcessEach`: such an entry has one dhcpcd and one app at most, of the same invariant. No run checks it; it says how far the race of
  `MCMonitorsApps.cfg` reaches.

**`ToolsProofs`**, for any number of requests, runs and scripts, from `ToolsAssumption` (types), and for any number of scans, radios and
interfaces, from `ScansAssumption` (types; an interface has one mode).

* `ChildrenAreNamed`, `StartsTellTheTruth`, `PurgesAreAlone`, `BlinkersAreOne`, `StopsEndBlinkers`: the five properties of `Tools`, from
  `ToolsAreKnown`. Who is past a lock holds it (`LocksHeld`), a start spawns when there is no handle (`SpawnsAlone`), status
  files speak of runs that got past their start (`ReportsAreTrue`), and what a start or a purge saw at its check is still so
  when it answers or deletes (`StartsKnow`, `PurgesKnow`).
* `LinksAreLeftAsFound` (`LeftAsFound`) and `ScansAreApart` (`ScansStayApart`), from `ScansAreKnown`. Claims of scans past
  `_claim_scan` are disjoint (`KeysHeld`); a capture lives on a monitor only if the scans that could take it down had looked before it
  began (`CapturesKnown`); and a link that is other than it was found is held by a scan that remembers how it was
  (`LinksKnown`). A radio sweeps for one interface at a time, and for a scan that is yet to clean up unless it outlived that (`SweepsKnown`), from
  which the same follows for the filters (`DeafKnown`). `LinksKnown` is not true of the monitors of an Intel radio without a managed interface, which `LeftAsFound`
  therefore leaves out as `Stranded`; section 4 has the behaviour, which the first attempt at this proof showed.

**`LifecycleProofs`**, for any number of workers, radios, secrets and engines, from the four assumptions of `Lifecycle` (types; radios
are numbered; `None` and `Empty` are no secrets).

* `MonitorsAreOnePerRadio` (`OneCoreMonitor`), `SignaturesAreAccepted` (`SignedIsAccepted`), `EnginesAreDisposed` (`EnginesDisposed`), from
  `WorkersAreKnown`: engines but the one at hand are disposed of or stuck and a worker that serves has a secret
  (`WorkersOK`); unless two workers raced to make it, what workers and clients hold is the file's (`OneSecret`); monitors of a radio that is
  still to be paired were seen, but for one with the name that the next would get and those whose read failed (`MonitorsSeen`): of two workers that sync side by side
  the second then sees the first one's monitor or cannot make its own.

**Only model-checked.** Of the properties that hold, liveness alone: `StopCompletes`, `ExitFreesInterfaces`, `EndedSessionDetaches`,
`ChangesEnd` (but for `ChangesAreFinite`) and `TablesComeBack`. With `ENABLED`, on which fairness rests, it is beyond what TLAPS proves
here; so would be induction over recursive definitions, of which the models have none. `ReadsBack` and the properties of section 4 are
violated, so there TLC's counterexample is the result.

## 6. What is not modelled

* `shutdown_all`: uvicorn lets handlers finish first, so it normally finds no
  client. Configuration of channels while capturing, the frequency table and
  the framing of pcapng blocks (blocks are taken as framed).
* Profiles: the regeneration of an unreadable `default.json` (every reader does
  it; the model takes `default` as readable), namespaces of other tools, netdev
  types, `wpa_supplicant` files, status reports;
  a namespace that cannot be deleted once its last entry was undone (`Return` has the case, `Revert` has not); a failing `iw dev` under
  `default`, whose entries are then skipped, or inside `_return_namespace_phys`, which then moves a phy without handing it back; a
  `/proc/net/packet` that cannot be read and then counts as nobody capturing (`adapters/usage.py:37-39`);
  an old worker that still holds the lock while the new one boots; boot on an unsupported
  model. Two concurrent `add_config` of one name, of which the second wins.
* Monitors: lease files, the routes of other interfaces, `stop_all_connection_monitors` (nothing calls it). Clients: prompts' wording,
  `apps.json` (read, changed and written without a lock), the client's 60 s timeout is `TimesOut` with the server going on.
* Tools and scans: what the profiler and a scan find; a supplicant's scans of its own; a profile activated during a scan, after which the
  scan's stale `originally_up` lowers the interface again (`wpa/scan.py:573, 611`); the lock that two radios of one
  namespace share is by namespace, as in the code.
* Life cycle: the encryption key (the secret's steps again), statistics, failed starts more than 60 s apart,
  requests that block the loop, a database file that is deleted under open connections. Start-up takes an interface down to make its
  monitor (`core/system.py:189-211`), also one that a profile has just brought up.
* Tokens: their encoding, signature and claims' form, seconds (`iat` and `exp` are cut to whole
  ones), device rows and statistics, listings, the retry for a colliding random
  id (`token.py:256`).
* Another tool that takes a radio between `in_use_reason` and its preparation:
  Core cannot exclude it, and `LeavesToolsAlone` says so.
* VLANs and wired interfaces, Bluetooth, the hotspot, reports: commands run one at a time and
  the parse of what they print. `_center_frequency`: a table.

## 7. Plan

Done: all modules above, and the proofs of section 5. Next, in order of importance:

1. `NetConfig`: the lock that an old worker still holds while the new one boots, and the failing reads listed in section 6.
2. An abstract specification of the profiles (one profile in force, changed in one step) that `NetConfig` implements.
