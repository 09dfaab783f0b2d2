# NetLanvas: a TLA+ verification project

NetLanvas watches a local network.  A poller process runs a tick loop that
scans the network, keeps what it finds in `network.db`, tracks which devices
are there, and raises and dispatches alerts.  An API process serves the
dashboard, changes settings in `config.db` and sends the poller commands.  The
two processes share only the databases and a small IPC store (Redis, or an
object in the process in native mode), so most of what can go wrong lies
between two statements of one of them.  This directory models the components of both
in TLA+, checks them with TLC and proves every safety property that a run checks
with TLAPS.

Paths below are relative to the repository's `src/` directory; `PROJECT.json`
names the exact lines each definition translates.

## 1. Inventory

| Component (code) | State | Operations | Hard behaviour | What makes it correct |
|---|---|---|---|---|
| **Polling engine** (`main.py` `background_polling_engine`, `rotate_database`, `main`; `api/server.py` polling endpoints) | tick counter; `FORCE_TOPOLOGY_REBUILD`, `SETUP_COMPLETE`, `POLLING_MODE`, `_POLLING_ACTIVE/_STARTED_AT/_PAUSED_AT`, `_INITIAL_DISCOVERY_COMPLETE`; `ENGINE_COMMAND` | one pass: restart, rebuild, setup gate, schedule, fast stages, deep stages, tick | two processes write the same settings one transaction at a time; a raising stage retries the same tick; the tick starts over in the same process | the dashboard is unlocked only over scanned data; a limited run ends; deep scans recur |
| **Device state tracker** (`pollers/device_state_tracker.py`, `engine/alerting.py`) | `device_state`, `device_state_history`, `alerts`, module globals for the population window and the binding watermark | baseline, walk over the present devices, walk over the stale ones, flapping | `create_alert()` commits the caller's transaction; locked database; retried ticks; tick counter that restarts; process restart | legal moves with their alerts; no early and no late "offline" |
| **Alert dispatch** (`engine/alert_dispatcher.py`, `main.py` stage 12) | `alerts.*_dispatched_at`, the background task | batch, send, mark, commit; inline on ticks 0 and 1, in the background later | sends happen before the commit and under the write lock; two jobs may overlap; lost answers; crashes | nothing lost silently; repetitions only after faults; what can be delivered is, unless a dead channel fills the batch |
| **Alert inbox** (`engine/alerting.py`, `api/server.py` alert endpoints) | `alerts`, `ALERTS_HAS_NEW` | create, mark read, acknowledge, delete, prune | badge and table are written in different transactions | badge agrees with the table |
| **Application settings** (`engine/config_loader.py`) | `config.db` | get, set (swallows failures), bootstrap | each setting is a transaction of its own | every reader sees a committed value |
| **SNMP credentials** (`engine/snmp_adapter.py`, `polling_targets.py`) | `CREDENTIAL_CACHE`, unresponsive marks, streaks, deferred upgrades, locks | probe, verify, mark, retry, upgrade to v3 | check before an `await`, write after it; ticks that go backwards | a verified credential is not replaced by a worse one; every mark is retried |
| **ARP, MAC-table and wireless ingest** (`main.py` stages 2-4, `pollers/mac_table_scraper.py`, `wifi_scraper.py`, `ping_sweeper.py`) | `l3_bindings`, `endpoint_locations`, `infrastructure_links` | upsert, edge resolution, age-outs, repointing of links, noise purge | routers that disagree; links left behind by earlier crawls; a stage that raises half way | what is confirmed stays; nothing outlives its age-out; a link follows its device; a plugged-in host is located |
| **Unification** (`engine/unification.py`, `hostname_registry.py`) | `unified_devices`, overlay of user-given data, host-name priorities | weld, classify, promote, overlay, snapshot, fold; edit, override, delete | every pass reads one database and writes another; the operator edits both in between | user-given data wins; one row per device; folding loses nothing |
| **Inference** (`engine/inference_engine.py`) | dark-matter nodes, access-point links | infer, hold with hysteresis, sweep orphans; verify, promote, remove | six writers of links and nodes in any order | no link to a node that is gone; what the operator verified is left alone |
| **Finding detectors** (`pollers/snmp_*_detector.py`) | `device_findings` | open, confirm, resolve, prune | three detectors over a cache that changes under them | no alert without news |
| **Accounts, sessions, recovery** (`security/auth.py`, `recovery.py`, `rate_limit.py`, `api_tokens.py`, `middleware.py`) | users, sessions, setup and recovery tokens, failure windows | set up, log in, log out, recover, revoke | each helper commits on its own; requests and boots can be cut short | the token shown works; no access survives a reset that counts as complete |
| **Registration and entitlement** (`security/registration.py`, `api/server.py`) | state token, registration, entitlement cache | initiate, callback, refresh, deregister | three records written one after the other; the account changes elsewhere | a state token is consumed once; the records agree |
| **Inventory sync** (`security/sync_client.py`, `api/server.py`) | pending-push flag, debounce task, pull cursor, `verified_devices` | activate, push, pull, merge field by field | two sites at once; cancelled and overlapping pushes; cursors written late | one key per account; nothing is skipped; every change is pushed in the end |
| **Credential vault** (`security/credential_vault.py`) | `secret.key`, the key each process has in memory, encrypted passwords | find or create the key, encrypt, self-heal | two processes create the key at once | every password at rest is readable by the key in the file |
| **Boot, restart, certificates, identity** (`main.py` `main`, `security/cert_manager.py`, `device_identity.py`, `api/server.py` remote access) | TLS pair, identity key, bind address, `RESTART` | boot in either install, reissue, publish, toggle, restart | crashes between files; a container address that changes; commands taken once | what others trust survives; the server listens where the toggle says |
| **SNMP pipeline, smart switches, topology scrapers, fingerprinting** | rows written by idempotent upserts | scrape | protocol I/O | idempotence |
| **Telemetry, schema, query API, MCP server, UI, packaging** | files, local flags | - | - | no state that outlives a step and is shared |

How they interact: the loop calls the stages one after the other in one
coroutine; blocking stages run in a worker thread which the loop awaits, except
for the background dispatch.  The API process talks to the loop through
settings and `ENGINE_COMMAND` only.  The tracker, the dispatcher, the detectors
and the API share `network.db`, whose single write lock makes each of them fail
with "database is locked" when another holds it for too long.

`PROJECT.json` lists, under `hazards`, each place where this bites, with the
properties that cover it.  Three have none, with the reason.

## 2. Plan

Written, most important first:

1. `PollingEngine` - the loop, its settings and its API.
2. `DeviceLifecycle` (abstract) and `DeviceTracker` (detailed, implements it).
3. `AlertDispatch` - the inbox as the dispatcher sees it, and its two jobs.
4. `SnmpCredentials` - cache, unresponsive marks and their retry, probe locks,
   deferred v3 upgrades cut at each `await`.
5. `Bindings`, `Topology`, `Wireless` - addresses, locations and access points:
   what the network is taken to look like.  `MCNetwork` checks the three.
6. `AlertInbox`, `Findings` - the badge; the detectors and their alerts.
7. `InventorySync` - two sites of an account and the server between them.
8. `Accounts`, `Registration` - credentials and recovery; the link to an account.
9. `Inventory` - unification, overlay and snapshot against the operator's edits.
10. `Vault`, `Appliance` - the key of the vault; boot and what must survive it.
    `MCDashboard` checks 6, 8, 9 and 10.

Proof modules: one each for 1 to 4 and for 7, `NetworkProofs` for 5,
`DashboardProofs` for 6, 8, 9 and 10, and `FoldLemmas` beneath the two.  Every
invariant and action property of a passing run is a theorem.  Left:

- `Topology` composed with `DeviceTracker`, whose input `located` it produces;
- an abstract specification of the two databases behind `Inventory` (one table of
  devices, edited by one operator) that it implements but for `late`;
- the liveness properties, for which TLC remains the only check.

## 3. What models what

### PollingEngine

One pass of the loop is cut at every access to a setting that the API process
also writes, so `stage` names the next thing the loop will do:

| `stage` | Code | Actions |
|---|---|---|
| `top` | `ENGINE_COMMAND`, then `FORCE_TOPOLOGY_REBUILD` | `ServeRestart`, `ServeRebuild` |
| `gate` | `SETUP_COMPLETE`, `POLLING_MODE` | `AwaitSetup`, `ReadMode` |
| `active`, `timer` | `_POLLING_ACTIVE`, `_POLLING_STARTED_AT` | `ReadActive`, `StampStart`, `CheckTimer` |
| `expire`, `expired` | the two writes that pause polling | `Expire`, `StampPause` |
| `fast`, `deep` | the scanning stages | `RunFastStages`, `RunDeepStages`, `StageRaises` |
| `finish` | `tick_counter += 1`, `ENGINE_TICK`, the discovery flag | `FinishTick` |

`StartActivate`, `StartClearStamp` and `StartReply` are the three transactions
of `POST /api/polling/start`.  `RotateDatabase` is the archiving at process
start with its failure half way (`ArchiveInPart`).  A stage group either
completes or raises; what the stages write is left to the other modules.  Time
is the step `DurationElapses`.  `scans` and `damaged` are history variables.

In native mode (`Native = TRUE`) the API shares the event loop with the poller
and `start_polling_now` has no `await`, so its three steps are atomic there;
the model still interleaves them, which can only add behaviours.  The runs use
the container mode, in which the interleavings are real; the proofs cover both.
Writing the discovery flag is assumed to succeed (`_set_setting()` logs a failed
write and goes on).

### DeviceLifecycle and DeviceTracker

`DeviceLifecycle` says what a reader of `device_state` and of the inbox may see:
devices move between unknown, new, online and offline along legal edges, and an
edge worth an alert becomes visible in the same step as its alert unless alerts
of that kind are being held back.

`DeviceTracker` is one call of `stage_device_state_tracker()` per tick.  `db` is
what is committed, `work` what the connection of the pass sees.  `BeginPass` reads
presence, the two suppression windows and writes the baseline; `Seen(d)` and
`Stale(d)` visit one device each, with the commit inside `create_alert()`;
`QueryStale` runs the stale query; `Commit` ends the pass; `Abort` is the `except`
branch, which rolls back and lets the loop go on.  Around it: `RaiseBefore` and
`RaiseAfter` (another stage raises, the tick is retried), `FailAtStart` (the
baseline update finds the database locked), `PurgeNoise`, `FinishTick`,
`ResetTick` (rebuild, resumed run, native restart: the module globals live on)
and `Crash`.

Presence is an input: the rows of `endpoint_locations` (`located`) are any set,
the refreshed rows of `l3_bindings` (`heard`) are remembered in `heardSince` until
the next call has read them, as the watermark `_previous_tick_started_at` does.
Flapping counts outages up to its threshold; since only those of the last half
hour count, reaching the threshold may or may not set the flag.  Wall-clock
time enters through the grace period at start-up only: the loop's sleeps count
towards it, and `TimePasses` ends it at any time.

`sighted`, `missed` and `baselined` are history variables.  `missed` holds the
devices whose evidence went down with an abandoned pass and was not renewed.
`baselined` becomes true with the first commit of a pass of tick 0 or 1: the
baseline is only tried then, and if both passes find the database locked, rows
keep `last_seen_tick` values of the previous count, which may lie in the future;
`OfflineWithinGrace` is therefore conditioned on it.

### AlertDispatch

`dispatch_pending_alerts()` at the grain of sends, marks and the commit, run by
two jobs: `inline`, which the loop waits for on ticks 0 and 1, and `task`, the
background task of later ticks.  A job takes the oldest `BatchLimit` alerts with
an open channel (`Batch`), and walks over their deliveries: `Send`, `SendFails`,
`SendTimesOut` (the message arrives, its answer does not), or `Waive` (the channel
is off, not permitted, or the severity is below its threshold; what the job read
at its start may be anything, so this is a free choice).  `Mark` takes the write
lock and keeps it until `Commit`; `Abort` is "database is locked" for the job
that waits.  `CreateAlert` and `DeleteAlerts` are the inbox.  The tick is folded
to 0, 1 and "later", which is all that the dispatch looks at.

There are two channels, and one query serves both: it takes the oldest alerts with
*either* mark missing (`Unsettled`, `Batch`).  `Answering` names the channels whose
recipients answer if tried often enough; the others may be dead for good, as a
mistyped webhook address is.  Alerts stuck on a dead channel stay in the batch, and
`BatchLimit` of them shut out every later alert, also on a channel that works.  That
is the code's behaviour, so `EventuallySettled` has it as its one exception
(`ShutOut`).  `TypeOK` includes that a job under way never has before it what it has
sent or marked, and that one that is not has neither a batch nor the lock.

`delivered`, `excused` and `waived` are history variables: `excused` holds the
deliveries that a fault may cause to be repeated, and a repetition uses its
excuse up.

The repository contradicts itself on failed deliveries.  The head of the file says that
the mark "is set once delivery has been ATTEMPTED for that channel (success or
failure), never retried after that" (`alert_dispatcher.py:11-14`), and the comment at
the columns speaks of "success or a non-retryable failure" (`database.py:184-187`);
the comment inside the loop says that a failed delivery is left unmarked and tried again
(213-220), and the code does that (221-222, 235-237).  The model follows the code, so
`NoSilentLoss` states the behaviour the head denies.

### SnmpCredentials

The poller runs on one event loop, so a step goes from one `await` of
`engine/snmp_adapter.py` to the next.  A credential is its version, `v2c` or `v3`.

| State | Code |
|---|---|
| `cache[a]`, `marked[a]` | `CREDENTIAL_CACHE` and the tick of its `UNRESPONSIVE` marks |
| `streak[a]` | `CREDENTIAL_FAILURE_STREAK`, up to its threshold |
| `due[a]`, `attempted`, `upgrade[a]`, `key[a]` | `DEFERRED_V3_UPGRADE`, `V3_UPGRADE_ATTEMPTED`, the task behind `_V3_UPGRADE_IN_FLIGHT` and the node lock it wants |
| `spawned[a]`, `asking[a]` | tasks of `_probe_and_schedule_v3_upgrade()` before and at their `await` |
| `job[q]` | a call of `get_working_credential()` or `adaptive_snmp_query()` and its locals |
| `node[a]` | the logical node of an address in `network.db` |
| `tick` | `_current_tick` |

`Query` and `TrySibling` begin a call; `CachedAnswers`, `CachedFails`, `V2cAnswers`,
`V2cFails`, `V3Answers`, `V3Fails`, `SiblingAnswers`, `SiblingFails` are what a
request comes to.  The probe lock of an address is a predicate (`InSearch`): a
query that finds it held waits and searches no more (`Wake`), and one that finds it
open while others have yet to wake up queues (`Acquire`), as `asyncio.Lock` does.
`StartUpgrade`, `Reuse`, `Skip`, `BeginCascade`, `CascadeAnswers`, `CascadeFails` are
`_run_deferred_v3_upgrade()` under the lock of its node.  `Weld` is unification:
any address may join or leave a node at any time.  A call of `FetchCached` that
finds a credential ends at once.  `AdvanceTick` and `ResetTick` are
`set_current_tick()` at the top of the loop with `check_due_v3_upgrades()`; when a
rebuild sets the count to 0 in the middle of a pass, the tick follows at the next
one.  A tick waits for the queries that the event loop has to run at once and for
a single verifying request (`Settled`), because a pass takes many seconds; searches
and upgrades may last for any number of ticks.

`answered` and `overlapped` are history variables.  `overlapped` names the exception
in `KeptOnceFound`: the verification of a sibling's credential takes no lock, so a
first search that is under way and fails later overwrites what it has found.  The
exception costs one retry after `UNRESPONSIVE_RETRY_TICKS`; no document rules it
out, so it is recorded here and not as a finding.

### Inventory

The node of a device in `network.db` and its row in `inventory.db`
(`verified_devices`).  A device has one human name and one type; `nodes[i]` holds
the MACs welded together, the host name with its priority and the type; `inv[m]`
is the row of a MAC.

| `pc` | Code (`engine/unification.py`, `main.py`) | Actions |
|---|---|---|
| `idle` | scrapers, smart-switch discovery | `ArpSighting`, `FdbSighting`, `SweepName`, `CleanSlate`, `SmartSwitchDiscovery` |
| `weld` ... `classify` | the weld, singleton and classification passes | `HardwareWeld`, `ArpConfirmedWeld`, `Singleton`, `Classification` |
| `candread`, `candapply` | promotion of candidates: read one database, write the other | `CandidateRead`, `CandidateApply` |
| `overread`, `overapply`, and `re...` after it | the overlay, twice | `OverlayRead`, `OverlayApply` |
| `snapread`, `snapwrite` | the snapshot, its backfill and the folding of rows | `SnapshotRead`, `SnapshotWrite` |

`read` is what the pass holds from its first database while the second is written.
`InventoryUpdate`, `NodeUpdate` and `InventoryDelete` are the operator's requests,
`MirrorToNode` and `PersistOverride` their second commits.  A field is left out (`keep`), blank
(`None`, which stands for NULL and for the empty text) or a value, and the two routes
treat a blank differently: `api_inventory_update()` clears the column and leaves the live
node alone (`Coalesce`), `update_node_details()` blanks the live node (`Rewritten`), and
`_persist_inventory_override()` writes the blank through its COALESCE (`Given`) unless no
field has a value, in which case it returns early.  `late` and `said` are history
variables: the MACs whose correction arrived since the pass last read, and what
the operator last confirmed.  `Promoted` takes the candidates of a pass in one step,
although the code commits `inventory.db` after each: the rows are those of different
MACs, written in any order, and the pass goes on when one of them fails.  The two properties about human values except
`late`: a correction between a pass's read and its write is lost until it is made
again, and no document says otherwise.

### Accounts and Registration

A route of the API awaits nothing, so one is served at a time; but each helper it
calls commits on its own.  `serving` (in `Accounts`) and `todo` (in `Registration`) are
what is left of the request under way, `Interrupted`, `Restart` and `RequestCut` end it at
any commit.  In `Accounts` tokens and credentials are numbered as they are made, a
session or API token remembers the credentials in force when it was opened, and
`failed` counts the attempts of one client in the window of `rate_limit.py`
(`WindowPasses` empties it).  The setup card and the recovery file are opened, emptied and
filled in place, so a cut in the middle leaves an empty file (`Emptied`, `CutWrite`); a
boot reuses a card that exists, whatever it shows (`CardExists`).  In `Registration` the backend is `linked` and `plan`; `Revoked`
and `PlanChanges` are what happens there from another place, and every call of it
may stay unanswered after it took effect (`CallbackUnanswered`, `DeregisterUnanswered`,
`RefreshUnanswered`).  `spent` and `twice` are history: the tokens a callback was
admitted with, and whether one was admitted again.

### AlertInbox and Findings

`AlertInbox` is the table and `ALERTS_HAS_NEW`, which lie in two databases: the poller
inserts and then sets the badge (`InsertAlert`, then `SetBadge`, or `BadgeNotSet` when
`_set_setting()` swallows a failure), a route of the API changes rows and then perhaps
clears the badge (`MarkAllRead`, `DeleteAlerts`, `MarkRead`, `DeleteAlert`, then `ClearBadge`).
`announced`, `raced` and `swallowed` are history; `raced` names the case that the code
leaves open, an alert that falls between the two writes of a request.  `Matches` is the
filter of the bulk routes by status, severity and type; a deletion must set one of the
three.

`Findings` runs one detector at a time (`BeginDetector`, then `Inspect` per address) over
a credential cache that changes under it, with `DetectorRaises` where the iteration or
the database fails, and `PruneFindings`.  `news` is history: whether anything a finding
rests on has changed since its last alert.  A device with two addresses that
disagree can be reported again without news; the property says so by asking for
one address.

### Bindings, Topology and Wireless

`Bindings` is `stage_arp_scrape()` with everything it writes: the rows the ARP caches
confirm (`valid`), flag (`flagged`) and leave alone, the two retirements, and the links
that are moved to another address of the same MAC one UPDATE at a time
(`RepointAll`), where a collision with `UNIQUE(local_switch_ip, local_port)` raises and
undoes the deletes (`ArpScrapeRaises`).  `SelfReport`, `SaveLink`, `VlanRegistry` and
`NoisePurge` are the rest of the tick.  The world is `holder`; `stage` is where the tick
stands.

`Topology` is one switch and one router joined by a trunk, with hosts and an access
point that are plugged in anywhere (`plug`).  `FdbCycle` is one call of the MAC-table
scraper: what each device sights, which of its ports are backbone according to the
links of earlier crawls, where each host is located, and the promotions and
expiries that follow.  `LldpLink`, `WifiClients`, `WifiHeuristic`, `DarkMatter` and
`Consolidate` are the other writers of locations, links and inferred switches;
`PromoteNode`, `VerifyBridge`, `RemoveBridge` are the operator's.  A host may be promoted to
any of the three types the route accepts (`Targets`): what it becomes decides whether the
port it is behind counts as backbone (`LeafBehind`), and as an access point it gets
clients located at itself (a row at port `WLAN` names its access point).  A host that
goes away is one that stays silent from then on.  The links
`run_dark_matter_detection()` writes *from* an inferred switch to the infrastructure
behind it (`inference_engine.py:226-246`) are left out.  Ages are left out: any
row that a pass does not refresh may have reached its limit by then.

`Wireless` is the access point inferred per segment, with the same treatment of ages,
and the sweep of orphaned confirmed ones.

### InventorySync

Two appliances of one account and the blobs each has on the server.  A step goes
from one `await` of the API process to the next; pushes, downloads and merges run
in threads and interleave with everything.  `EnableAsks`, `EnableClaims`, `EnableCaches`,
`EnableRefused`, `EnableFails` are the activation with its key canary; `SnapshotSync`,
`PendingPush`, `PushBegins`, `PushArrives`, `PushFails` the two ways to a push, where `pushing` is
a set because a cancelled task leaves its thread running and snapshots may arrive
in any order; `PullAsks` to `PullEnds` a pull, of which two can be under way.  A device
is one field; encryption is whether a blob decrypts (`PullDamaged` if not).  Two branches
of the activation rest on the server's contract and are left out: a claim that is
answered without a canary makes the check a no-op (`sync_client.py:88-89`), and a salt
that differs from the cached one is refused (127-129); the server hands out one salt
and one canary per account.  `merged` is
history: the newest blob of the peer that went into the table.

### Vault and Appliance

`Vault`: two processes find or create the key file.  `GenerateKey`, `LookAgain` and `InstallKey`
are the three steps of `_get_or_create_key()`; a password at rest is the sequence of
keys it was encrypted under, so that the self-healing of rows that do not
decrypt (`SelfHeal`) can wrap one twice.  `overtaken` names the window between the
second look and `os.replace()`.

`Appliance`: one process that serves, native (`RESTART` rebuilds it in place) or
`netlanvas_api` (which waits for the address that `netlanvas_core` publishes).  `stage` is how far its boot
is: addresses, certificate (`KeepCertificate`, or `IssueKey` and `IssueCert`, two files), identity key
(`Identify`), bind address.  `Fall` is a crash at any stage, `WorldMoves` a change of
address or the approach of the expiry date.  `fellBack` names a boot that could not
read the toggle.

### MCDashboard and MCNetwork

The modules of a composite share no variable.  Its variable `part` selects one of
them at the start: that one runs from each of its own initial states while the
others keep one fixed initial state.  A run of the composite is therefore the same
as a run of each part, and its properties hold of the parts; it says nothing
about interactions between them.  `MCNetwork` declares the devices of `Bindings` and
the hosts of `Topology` symmetric.

## 4. Runs

| Run | Shows | Distinct states |
|---|---|---|
| `polling_engine` | `UnlockedAfterBothPhases`: the flag that unlocks the dashboard means two completed deep scans over this very `network.db`, over all interleavings of API requests, restarts, rebuilds, failing stages and archived databases.  `LimitedRunEnds`: an elapsed time-limited run is paused, restamped or made continuous.  `DeepScansRecur`: no sequence of resets starves the deep scans | 14,654 |
| `device_tracker` | `ImplementsLifecycle`: every commit, mid-pass or final, is a step of `DeviceLifecycle`.  `OfflineOnlyWhenAbsent`, `OfflineWithinGrace`: offline neither early nor late | 882,822 |
| `alert_dispatch` | `NoSilentLoss`: a settled channel was delivered or not due.  `DuplicatesNeedFault`: a repeated message has a fault to account for it.  `EventuallySettled`: on a channel that answers every alert that stays is settled in the end, unless a whole batch of older ones is stuck on the other channel | 176,621 |
| `snmp_credentials` | `CachedWasAnswered`: no credential is remembered on trust.  `KeptOnceFound`: no search that ends late writes off an address for which a credential was found, but in the case no lock covers | 167,390 |
| `dashboard` | Inventory: `HumanValueKept`, `SnapshotSeesOverlay`, `OneRowPerDevice`, `FoldKeepsValues`.  Accounts: `ResetLeavesNoOldAccess`, `DisplayedTokenWorks`, `FileIsCurrent`.  Registration: `StateTokenOnce`, `RecordsAgree`.  Inbox: `UnreadKeepsBadge`.  Findings: `AlertsNeedNews`.  Vault: `SecretsReadable`.  Boot: `TrustKept`, `BoundAsChosen` | 1,975,190 |
| `network` | Bindings: `ConfirmedStaysBound`, `AgedOutRetired`, `LinkFollowsDevice`.  Topology: `NoLinkToGhost`, `PluggedIsLocated`.  Wireless: its types and confidences | 367,199 |
| `inventory_sync` | `OneKeyPerAccount`: of two sites that activate at once with different passphrases one is refused.  `CursorNeverAhead`: no blob is skipped.  `UploadCatchesUp`: once edits stop, the server has what the site has | 470,872 |
| `start_now_lost` | **finding**: the loop can pause polling again between two of the writes of "Start Now" | violation |
| `scrape_stuck` | **finding**: moving the links of a retired address can violate a UNIQUE constraint; the ARP scrape then raises in every cycle, whatever it reads, and nothing ages out any more | violation |
| `pull_overwrites_edit` | **finding**: a pull overwrites a value stored between its read and its write | violation |
| `bridge_flaps` | **finding**: the link to an inferred switch hides its own port from the detection, so the switch expires and is made anew while the port is still shared | violation |
| `verified_guess_lost` | **finding**: an inferred access point that the operator verified is refreshed and retired as an unverified one | violation |

`PROJECT.json` quotes, for each finding, the comment or docstring that the code
contradicts.  Each property of a passing run comes with a mutant: a plausible
bug in the code under which the property fails.

### Notes without a run

Modelling met further places where code and comment differ, or where a window is
left open.  They are smaller, or the model names them as an exception of a
property that holds:

- A rotation that fails after it removed `network.db` leaves the discovery flag set
  (`main.py:1569-1589`, against the comment at 1585-1588); `damaged` in `UnlockedAfterBothPhases`.
- A delivery that failed is retried (`alert_dispatcher.py:213-222`, 235-237), which two
  comments deny (11-14 and `database.py:184-187`, see AlertDispatch above): a mistyped
  webhook address is retried at every tick, and its alerts hold places in the batch
  that those of the other channel need (`ShutOut` in `EventuallySettled`).
- A boot that dies while it writes the setup card leaves one that shows no token
  (`welcome.py:42`); every later boot finds the file, reuses it and shows nobody a
  token (`main.py:2034`, 1835, against the comment at 2035-2036).
- An alert that comes in while a request is clearing the badge stays unread without
  it (`server.py:2319-2323`, against 2315-2316); `raced` in `UnreadKeepsBadge`.
- Links *from* an inferred switch outlive it when it expires (`inference_engine.py:256`
  deletes those to it only), and the consolidation moves them to the address of the real
  switch, where they may collide with `UNIQUE(local_switch_ip, local_port)`
  (`unification.py:780`).
- Passes that are abandoned lose their sightings while their ticks count, so one
  missed read more can take a device offline (`device_state_tracker.py:414-416`,
  against 18-23); `missed` in `OfflineOnlyWhenAbsent`.
- The inline dispatch after a reset overlaps the background task (`main.py:1454`,
  against 1448-1451); an excuse in `DuplicatesNeedFault`.
- An upgrade that found v3 counts as one that found nothing once the address is
  back to v2c, and its siblings skip theirs (`snmp_adapter.py:391-392`).
- A rebuild sets the tick back under the marks of unresponsive addresses, which are
  then not retried until the count catches up (`snmp_adapter.py:128-131`, 148).
- Two processes that both looked again before either installed its key leave one
  with a key that no file holds (`credential_vault.py:57-60`, against 24-27);
  `overtaken` in `SecretsReadable`.
- A request that names a node leaves `hostname_source_priority` alone, so a name
  sweep writes over the name until the next overlay ("sticks for good",
  `server.py:3396`); and a backfilled row keeps a candidate from being promoted
  (`unification.py:371-385`).
- The TLS key and its certificate are replaced one after the other: a crash in
  between leaves a pair that does not match (`cert_manager.py:218-227`).
- A site may upload before its first pull has completed (`server.py:1211`), and
  `purge_expired_sessions()` (`auth.py:183`) is never called.

### Bounds

- `polling_engine`: a deep scan every 3rd tick instead of every 15th and ticks up
  to 5.  A later tick is folded back by the interval, which keeps every test the
  loop makes of it (`<= 1`, `= 2`, divisible by the interval), so the counter
  itself is not a bound.  Two API requests and one crash: two requests are
  enough to change the mode and start a run while the loop is anywhere; the
  completion of the setup and the elapsing of the duration are not bounded.
- `device_tracker`: two devices (symmetric), so that the pass can commit one
  while the other is pending; grace of 2 ticks and 5 ticks, so that a device
  can be seen, go offline and come back within one count; one reset, one crash
  and one fault, in any order.  The constants that only set lengths
  (`OFFLINE_GRACE_TICKS` 3, the windows, `FLAP_THRESHOLD` 4) are reduced so that
  the ends of the windows are reached.
  `CHECK_DEADLOCK FALSE`: a behaviour ends when the tick has reached its bound.
- `alert_dispatch`: both channels, of which only e-mail is known to answer; two alerts in
  batches of one, so that the first fills the batch and may be stuck on the webhook,
  which is the least that shows the exception; one crash, one deletion, one reset, one
  lost answer.  A behaviour has a second alert, or a reset and a lost answer, not both
  (`MCNext`; without this there are millions of states, too many for a check of
  liveness): the second alert is there for the batch, the reset and the lost answer are
  there for two jobs that overlap and messages that repeat, for which one alert on two
  channels is enough.  The theorems have no such bound.
- `snmp_credentials`: two addresses and one node, so that they are siblings or not;
  three calls, each made once: one that searches, one that waits for it, and one
  that comes when the search is over and the waiter has not woken up.  An
  attempt is retried after 1 tick instead of 5, an upgrade deferred by 2 ticks
  instead of 3, and one failure instead of three leads to a re-probe.  Beyond
  tick 2 the dates go down instead of the tick going up, which keeps every
  difference that is tested, so the tick itself is not a bound.  One reset; one
  engine-ID task of an address at a time.  `CHECK_DEADLOCK` stays on: the tick
  always goes on in the end.
- `dashboard`, inventory: two MACs, one the end of a link and one a switch that
  identifies itself and answers name sweeps, close enough to be welded; one edit, at every point of a scan.
  Accounts: 4 tokens minted (a boot, a crash, a second boot, a recovery), 2
  sessions or API tokens, an attempt that exhausts a bucket, 2 faults.
  Registration: 2 state tokens, 2 changes at the backend, 1 cut.  Inbox: 3 alerts of
  2 severities, so that a filter leaves one out; 1 swallowed write.  Findings: 2
  addresses of 2 devices, 3 changes.  Vault: 4 keys, 2 crashes.  Boot: 2 addresses
  of the host and 2 of the container, 2 crashes, 2 moves, and 8 pairs, more than
  such a behaviour can issue.
- `network`, bindings: two MACs, two addresses inside the LAN and one outside it, a
  retirement after 1 cycle instead of those of 3 hours.  Topology: a switch with an
  access port and an uplink, a router with one port, two hosts, one of which may
  have a type of its own, and an access point: two hosts are what an inferred
  switch needs.  Wireless: two segments, two phones, one of a known vendor.
- `inventory_sync`: two passphrases; site 1 edits and pushes, site 2 pulls (the sites
  differ in nothing else); one edit, one fault; stamps saturate at 1, which keeps
  whether the peer has uploaded.  `pull_overwrites_edit` lets both sites push, without faults.

### Fairness

Only `polling_engine`, `start_now_lost`, `alert_dispatch` and `inventory_sync` use
fairness; the other properties are about single states and steps.  That an upgrade that is due is made in the end needs no more than weak
fairness of its task, but the graph without symmetry is too large for a run.

- `WF(Loop)`, `WF(LoopStep)`: the loop is one coroutine whose awaited calls have
  timeouts; it always runs on.
- `SF(RunFastStages)`, `SF(RunDeepStages)`, `SF(Dispatch)`, `SF(FinishTick)`: a
  stage may raise, and then the tick is run again, but not at every attempt for
  ever.  The code does not guarantee this (a stage that always raises stops the
  loop at its tick); it is the assumption under which "in the end" means anything.
- `WF(StartClearStamp \/ StartReply)`: a begun request handler ends.
- `WF(JobStep(j))`: the threads of the dispatcher run on.
- `SF(Deliver(p))` for the channels in `Answering`: a recipient that works and is tried
  again and again answers at last.  Of the other channels nothing is assumed.
- Sync: `WF` of the activation and of `PushArrives`, since requests have time limits;
  `WF(SnapshotSync)`, since deep scans recur and mark a row that changed; `SF(PendingPush)`,
  `SF(PushBegins)`, since the API's loop and its debounce task come round again
  whenever nothing supersedes them.  Pulls need no fairness.

## 5. Proofs

All theorems are of the form `Spec => ...`, for all values of the constants under
the named assumptions of the modules.  Those only say that the constants are
numbers, Booleans, functions or sets of the right kind and that names which stand for
"nothing" are not used for something, with these exceptions:

| Assumption | Says beyond types | Because |
|---|---|---|
| `SyncAssumption` | the sites that edit and push, and those that pull, are among the two | constants that only restrict who acts |
| `TopologyAssumption` | the trunk joins the switch's uplink to a port of the router; ports and hosts are distinct | the world of the model |
| `WirelessAssumption`, `BindingsAssumption`, `FindingsAssumption` | phones, addresses are finitely many | the code counts, sorts and loops over them |
| `BindingsAssumption` | `PurgeAge` is positive | three hours, in cycles |
| `InventoryAssumption` | MACs are finitely many positive numbers | they are compared and subtracted; 0 stands for a request without a MAC |
| `EngineConstants`, `CredentialConstants`, `AccountsAssumption` | the tick counts past a deep scan, a retry and an upgrade; an interval, a threshold or a number of attempts is positive | a smaller bound would stop the model before what it is about |
| `DispatchConstants` | the channels are e-mail and webhook, and those that answer are among them; a batch is not empty | the columns of the table; `DISPATCH_BATCH_LIMIT` is 20 |
| `ApplianceBounds` | `MaxIssued > 2`; host and container addresses are disjoint, neither is empty | a new identity key must differ from the two there may be |

The sets of devices of the tracker, of addresses and queries of the SNMP adapter and
of alerts in the inbox need not be finite.  `DashboardParts` and `NetworkParts` say
that a behaviour of a composite is one of each component, so that what is proved of
a component holds of the specification the run checks.

**PollingEngineProofs.**  `TypeCorrect`, `DashboardUnlockedAfterBothPhases`.
`UnlockedAfterBothPhases` is not inductive, since the flag is raised by the tick
counter and the scans are counted elsewhere.  `ScansFollowTicks` ties them: one
scan is complete once the tick is 1, two once it is 2 or about to be.  It
survives retries, because a raising stage leaves the tick alone, and resets,
because they lower the tick and never the scans, except where the database goes
too.

**DeviceTrackerProofs.**  `TypeCorrect`, `OfflineMeansAbsent`, `AbsentMeansOffline`,
`TrackerImplementsLifecycle`.  The inductive invariant has four parts beyond the
types: the shape of a pass (`PassShape`); what a pass has written and not yet
committed is a silent move of each device and no move of a device still to be
visited (`PendingMoves`), which is what makes the early commits inside
`create_alert()` legal steps; `last_seen_tick` is not older than the evidence
unless a pass was abandoned (`RowsKeepUp`); and after the baseline not newer
either (`RowsNotAhead`).  The refinement is the map `status <- db[d].status`: a step
that commits shows pending silent moves and at most one announced one, any other
step stutters.

**AlertDispatchProofs.**  `TypeCorrect`, `NothingLostSilently`,
`RepetitionsHaveFaults`.  The first needs what a job has sent or marked to be
accounted for as well (`WorkAccounted`).  The second needs two facts about
deliveries that were made but are not settled: each is excused or in the hands
of the job that made it (`DeliveredIsKept`); and what a job is still going to
send has not been sent, nor is in the other job's hands, unless it is excused
(`NextIsFirst`).

**SnmpCredentialsProofs.**  `TypeCorrect`, `CredentialsKept`, `CredentialsWereAnswered`.
A failing search writes an address off on the strength of what it knew when it
began, so `KeptOnceFound` needs that knowledge to be true still when it ends.
`OneSearch` is the probe lock.  `Right` says of an address that every query and task
there is right about whether it has a credential: those that use or upgrade one
(`UsersRight`, `UpgradesRight`) and those that search (`SearchersRight`).  The delicate
part is the queue behind a search that is over (`QueueRight`): whoever is in it must
not find the address unknown again, which holds because the search has left a
credential or a mark of the present tick, `UNRESPONSIVE_RETRY_TICKS` is positive, and
the tick does not move before the queue has run.

**DashboardProofs**, by component.

- *Accounts.*  `ResetIsComplete`, `CardOpensSetup`, `RecoveryFileIsCurrent` rest on how
  far a request has come: what `serving` says is gone by then (`ResetOrder`), when
  the setup token may be cleared (`SetupOrder`), and that only the request that wrote
  the first record of a recovery token can be between the two (`FileFollows`).
- *Registration.*  `TokensAreSpentOnce`, `CommitsAgree`.  The writes a request has still to
  make are one of six sequences or a rest of one (`WritesLeft`), and each is paired
  with what its earlier writes have established, unless a request was cut.
- *Inbox.*  `BadgeStaysLit`: a request comes to clear the badge only over an inbox it left
  without an unread alert, or the poller came in between (`raced`).
- *Findings.*  `NoAlertWithoutNews`, a step property: once a finding of a device with one
  address was written, and until something it rests on changes, looking again
  leaves it as it is (`Settled`).
- *Vault.*  `SecretsStayReadable`: until `overtaken`, there is one key, and whoever means to
  install one is alone before an empty place with nothing encrypted (`OneVaultKey`).
- *Boot.*  `ListensAsChosen` (`Followed`); `TrustSurvives` needs that from the key of a new
  TLS pair to its certificate the reason for the pair stands (`Reason`).
- *Inventory.*  `SnapshotReadsOverlay`, `ConfirmedValuesStay`, `OneRowIsLeft`,
  `NothingIsFoldedAway`.  No MAC has two nodes and there are no more ids than MACs
  with a node (`NodesIInv`): every weld and merge keeps that, and it is why a row read for a MAC
  belongs to one node.  What a pass has read is still true of every MAC whose correction
  did not come late (`ReadIInv`): the confirmed MACs of the candidate pass, the rows of
  the overlay, and the nodes of the snapshot by their MACs.  When the snapshot is
  about to read, a node that only one row of the inventory describes shows its name
  and its type, unless a correction of one of its MACs came late (`SeesIInv`).  Folding is then a statement about one node
  and its rows (`FoldedValues`, `BackfilledValues`).

**NetworkProofs.**  *Topology*: `NoGhosts`, `HostsAreLocated`.  The invariant is that a chassis
is only ever seen from the other side of the trunk, so no other port ever has a
link to one (`LocationsIn`, `LinksIn`), and that inferred switches and the links to them
go together (`Bridges`).  *Bindings*: `ConfirmedIsBound`, `AgedOutGoes` from the freshness of what
the scrape confirmed; `LinksFollow` goes through the two rounds of a scrape: one
UPDATE takes the retired address out of every link (`StepForgets`), those of other MACs
do not bring it back (`StepStaysForgotten`), none loses a link (`MovedCount`), and so
neither does a round (`RoundForgets`, `RoundLosesNone`).  *Wireless*: types, with the range of a
confidence.

**InventorySyncProofs.**  `OneKey`: an activation has seen no canary or the one there is
(`Keys`).  `NoBlobIsSkipped`: a pull carries a cursor that was not ahead of what had been
merged when it was read, and `merged` only grows (`Pulls`).

**FoldLemmas.**  The passes that loop over a list are folds (`RepointAll`, `MergeAll`,
`PromoteAll`, `OverlayAll`).  `FoldLeft()` chooses a recursive function on sets of
positions; `FoldExists` shows that there is one and `FoldReaches` that what each step
preserves holds of the result, by the least set of positions for which it would not.
`Orders` and `Listing` say what `SetToSeqs()` and `SetToSeq()` return.

Only model-checked: the liveness properties (`LimitedRunEnds`, `DeepScansRecur`,
`EventuallySettled`, `UploadCatchesUp`), whose proof needs fairness and `ENABLED`; and, of
course, the violations, which are statements about an instance.

## 6. Not modelled

- Left out for good: protocol I/O (SNMP, LLDP, ping, DHCP, web probes) and the
  parsing of its answers; cryptography, where a key is a number and a blob decrypts or
  not; redaction and sampling of telemetry, whose guards are local flags; DDL and
  migrations; read-only queries and the MCP server; the user interface; build
  scripts and one-shot helper processes.  They have no control flow across steps
  that a state machine would show.
- Inside the modelled parts: wording of alerts, logging, `device_state_history` rows
  other than as a count of outages, the polling-interval arithmetic, and the
  contents of the settings that select channels and thresholds; which community
  or identity and which protocol pair a credential consists of
  (`LAST_WORKING_V3_PROTOCOLS`, an optimisation), and exceptions in the middle of a
  credential search; the address by which a node is polled; collisions of the
  pseudo addresses of inferred nodes; the firewall rule, the Caddyfile and the demo
  mode; password hashing, CSRF and origin checks; the expiry of sessions as a date
  (a session may end at any time).

## Running it

    tlc -config polling_engine.cfg MCPollingEngine.tla
    tlc -config device_tracker.cfg MCDeviceTracker.tla
    tlc -config alert_dispatch.cfg MCAlertDispatch.tla
    tlc -config snmp_credentials.cfg MCSnmpCredentials.tla
    tlc -config dashboard.cfg MCDashboard.tla
    tlc -config network.cfg MCNetwork.tla
    tlc -config inventory_sync.cfg MCInventorySync.tla
    tlapm PollingEngineProofs.tla
    tlapm DeviceTrackerProofs.tla
    tlapm AlertDispatchProofs.tla
    tlapm SnmpCredentialsProofs.tla
    tlapm FoldLemmas.tla
    tlapm NetworkProofs.tla
    tlapm DashboardProofs.tla
    tlapm InventorySyncProofs.tla

and the findings, which end with a counterexample:

    tlc -config start_now_lost.cfg MCPollingEngine.tla
    tlc -config scrape_stuck.cfg Bindings.tla
    tlc -config pull_overwrites_edit.cfg MCInventorySync.tla
    tlc -config bridge_flaps.cfg Topology.tla
    tlc -config verified_guess_lost.cfg Wireless.tla
