# A TLA+ model of autonomous-dev-homelab

The repository is a TypeScript plugin, `src/plugins/autonomous-dev-homelab/`
(below: `P`; its implementation is `P/src`), that discovers the
platforms of a home lab, watches them, and carries out changes on them behind a
safety gate. It runs as one Node daemon and as many short-lived commands; the
daemon and the commands are separate processes that share the files of one data
directory (`~/.autonomous-dev-homelab`).

Two things make the code hard to get right. Inside a process, async functions
interleave at every `await`: a file or a map is read, something else runs, and
what was read is used. Across processes there are no locks at all: each module's
mutex belongs to one process, and a crash or a restart may fall between any two
file operations. The modules here are written at that grain: **one action is the
code between two awaits**, each file operation that another process or a crash
can come between is a step of its own, and what dies with a process is kept in
other variables than what is on disk.

## 1. Inventory

Columns: the state a component keeps, its operations, what is hard about it, and
what makes it correct. "Module" is the TLA+ module, or `-` (section 7 says why).

| component (under `P/src`) | state | operations | what is hard | correct when | module |
|---|---|---|---|---|---|
| delayed actions `safety/delay.ts`, `cli/commands/cancel-action.ts` | one signed file per action; `liveTimers`, `pendingResolvers`, `pendingRejecters` in memory | schedule, cancel, fire, load at start | two processes, in-place writes, timers re-armed by a restart | never early, a timely cancel stands, nothing pending is orphaned | DelayContract, DelayedAction |
| safety ladder `safety/gate.ts`, `typed-confirm.ts`, `io-stdin.ts` | none of its own: a call in progress | gateApproval | five levels, one shared terminal, a 24 h wait inside a call | an approval has all its evidence; a call returns | ApprovalGate |
| backup check `backup/orchestrator.ts`, `types.ts`, `manifest-hmac.ts` | `backup-manifest.json` (read) | verifyBackup | old formats, tampered, undated and stale entries | as for the gate | ApprovalGate |
| migrations `migration/` | a state file per migration; each run's own copy | start, resume, run, cancel | a cancel and a run write the same file; crash between effect and save | execute only when approved, at most once per life | Migration |
| audit log `audit/writer.ts`, `key-store.ts`, `util/file-mutex.ts` | `audit.jsonl`, the cached tail, the key file | append, getLastHmac, verify | recovery of the tail, failed and partial writes | the chain verifies; call order | AuditLog |
| connection pool `connection/pool.ts` | entries, in-flight connects, last use | getConnection, release, reapIdle, closeAll | connects and evictions overlap | one connect per target, nothing open is forgotten | ConnectionPool |
| observation `observation/collector.ts`, `dedup.ts`, `persistence.ts`, `promoter.ts` | dedup cache, a file per observation | start, runProbe, promote, cleanup | scans overlap, the cache dies with the process | a fault is reported once per window and never lost silently | Observation |
| backups `backup/engine.ts`, `manifest-io.ts`, `restore.ts`, `cli/commands/backup.ts` | artifacts on the host, the manifest and its temporary file | backup run, backup restore | every command is a process; tools that name their own files; restore commands that fail half way | entries vouch for their own artifact; what is confirmed is what is written | Backup |
| inventory graph `discovery/graph-store.ts`, `deep-enumerator.ts`, `refresh.ts`, `cli/commands/refresh.ts` | the graph file | upsert, sweep, diff, classify | a sweep writes back what it read before many awaits | what is seen is live, drift is reported | Refresh |
| certificate authority `ca/`, `cli/commands/ca.ts` | key, certificate, serial counter, revocation list | init, issue, rotate, revoke, list | several files change together and no lock | serials are unique, the key fits its certificate, what is in use is not revoked | CertAuthority |
| consent `consent/`, `cli/commands/consent.ts` | the consents file | grant, check, revoke | the operator answers late; two processes write the file | no scan starts without consent in force | Discover |
| prober and platform inventory `discovery/prober.ts`, `fingerprints.ts`, `inventory.ts`, `cli/commands/discover.ts` | the inventory file, the semaphore of a scan | discover, inventory remove | probes that fail hand their place on; read, merge and write of a shared file | probes are capped, a run ends, findings are kept | Discover |
| deploy `deploy/` | the target, a signed record per deployment | build, deploy, roll back | refused and lost calls after the old container has gone; time limits | what is reported is what is there | Deploy |
| autofix `cli/commands/autofix.ts` | proposals | propose, apply | apply, then audit, then no mark | one forced update per approval | Deploy |
| probes `observation/probes/` | none | scan | thresholds; missing readings | worse is never milder | Probes, Policy |
| placement rules `rules/` | none | generate, evaluate | counting of replicas in two places | what the scan reports is repaired by what it proposes | Policy |
| enumerators and datastore probe `discovery/enumerators/`, `role-catalog.ts`, `datastore-probe.ts` | none | enumerate, classify, probe | any command may fail | a failure costs what the command would have found | Enumerators, Catalog |
| topology `discovery/topology/` | none (writes to the graph) | enrich | three passes over one graph, each of which may fail | a failing pass leaves the others' findings | Topology |
| observability `observability/` | none | logs, score, dashboards, onboarding | partial answers, limits and orders of several back ends | the newest entries; the score follows the inputs | Observability |
| secrets, configuration, transports `secrets/`, `config/`, `live/`, `connection/*` | a Vault token cache | load, resolve, assemble, connect | token renewal, fallback | fail-closed; a fault costs only the host it is about | Access |
| metrics `metrics/` | a file per running clock, signed counters | start, stop, purge, record | two starts of one clock | one duration per clock | part of Observation |
| classification `safety/destructiveness.ts`, `validator.ts`, `mutation-barrier.ts`, `observation/fault-catalog.ts` | tables | classify | floors per class | never below the floor | - |
| portal `portal/` | none | render | - | read-only | - |

How they interact: a command or the migration runner calls **gateApproval**,
which calls the backup check, **scheduleDelayedAction** for architectural
actions, the terminal prompt, and **AuditWriter.append** for its verdict. The
migration runner also schedules the delay itself, in its own delay phase. The
backup engine writes the manifest that the backup check reads; a restore goes
through the gate, and so does every `autofix apply`. The collector saves
observations and hands them to the promoter, which submits them to the
autonomous-dev intake, starts an MTTR clock and audits. `discover` asks the
consent manager before it lets the prober scan, and adds what it finds to the
platform inventory; the deep enumerator and the topology passes turn each
platform of it into entities of the graph, which the refresh sweep keeps up to
date and which probes, rules and the observability adapters read. `inventory
remove` revokes keys at the certificate authority. The bootstrap assembles the
configuration, the secret store and the pool, which hands out transports and
audits each connect. The approval gate and the migration use the delay **through
its contract** (DelayContract), which DelayedAction is proved to implement.

`PROJECT.json` lists the hazards at their lines, with the properties that cover
them; a hazard without a property says why. Smaller ones left out of that list:
an LRU or idle eviction may close a connection that a caller still uses
(`connection/pool.ts:143`; nothing is promised), a state file torn by a crash
blocks the listing of all migrations (`migration/state-store.ts:29`; fail-closed,
modelled), a consent grant may be in force although the call threw because the
audit failed (`consent/manager.ts:220`), failed upserts leave a platform reported
ok (`discovery/deep-enumerator.ts:206`), two first uses of the audit key race
(`audit/key-store.ts:53`), two starts of one metric clock both succeed
(`metrics/clock-store.ts:70`), a late MCP client stays open beside the
SSH one (`connection/shared-mcp-ssh.ts:114`), and the age of a backup is not
checked again after the 24 h delay (`safety/gate.ts:178`, on purpose).

## 2. The modules

| module | role |
|---|---|
| `DelayContract` | abstract specification: what a caller of the delay may rely on |
| `DelayedAction` | `safety/delay.ts` in full, refines `DelayContract` |
| `ApprovalGate` | `safety/gate.ts` with prompt and backup check, composed with `DelayContract` |
| `Migration` | `migration/`, composed with `DelayContract` |
| `AuditLog` | `audit/writer.ts` with the key store and the verify rule |
| `ConnectionPool` | `connection/pool.ts` |
| `Observation` | collector, dedup cache, store, promoter |
| `Backup` | backup and restore commands, manifest, artifacts |
| `Refresh` | the refresh sweep over the inventory graph, beside `inventory classify` |
| `CertAuthority` | `ca/manager.ts` and the commands that drive it, in several processes |
| `Discover` | `discover`, with consent, prober and platform inventory, beside `consent grant`, `consent revoke` or `inventory remove` |
| `Deploy` | the unraid, swarm and proxmox backends and `autofix` |
| `Probes` | what each probe reports for what it reads |
| `Policy` | the generated placement rules, their evaluation and the drift probe |
| `Catalog` | platform fingerprints and the role catalogue |
| `Enumerators` | the swarm and unraid enumerators, the datastore probe, the merge of their results |
| `Topology` | the NPM, Vault and dependency passes over the graph |
| `Observability` | logs, health score, dashboards, onboarding |
| `Access` | configuration, secret store, runtime and transports |
| `MCApprovalGate`, `MCConnectionPool`, `MCObservation`, `MCBackup`, `MCRefresh`, `MCDiscover` | constants and symmetry for TLC |
| `Algorithms` | what the modules without state (`Probes` to `Access`) owe to those who rely on them, for the inputs that its parameters contain |
| `MCAlgorithms` | bounded inputs of `Algorithms` for TLC |
| `DelayedAction_proofs`, `Migration_proofs`, `CertAuthority_proofs`, `Backup_proofs`, `Algorithms_proofs` | theorems about the module of that name |
| `Changes_proofs` | theorems about `ApprovalGate` and `Deploy` |
| `Daemon_proofs` | theorems about `Observation`, `AuditLog` and `ConnectionPool` |
| `Inventory_proofs` | theorems about `Discover` and `Refresh` |

A definition with "a bug" in its comment is a plausible mistake in the code (a
guard dropped, a step skipped, an order swapped). No specification uses it; for
every property of every passing run, `PROJECT.json` names one that TLC refutes
when it replaces the real definition. That is the evidence that the property is
about the code.

### Correspondence with the code

**DelayedAction.** `disk` is `pending-actions/<id>.json`: absent, a record,
`empty` (truncated) or `torn` (two writers in one file, the shorter last).
`persist` is `fs.writeFile` in place: `Truncate`, then `Write`, then the caller
goes on. `op[id][w]` is the activation of each writer: `schedule`, `cancel` in
the daemon, `cliCancel` in the command's process, and the timer callback of
either handle. `Schedule`/`ScheduleDone` are the two sides of the `await
persist` in `scheduleDelayedAction`: the timer and the promise are registered
only afterwards. `CancelRead`/`CancelDone` and `FireRead`/`FireDone` are the same
for `cancelDelayedAction` and `fireAction`. `LoadPendingActions` re-arms what a
crash left, `Refuse` is the daemon that will not start over an unreadable record.
`asked` and `revoked` are history.

**DelayContract** keeps only the promise, the time it was asked and whether it
was revoked in time. `Resolve` needs the full delay and no timely revocation;
`Lose` is the restart.

**ApprovalGate.** `pc` follows one `gateApproval` call: backup check or audited
admin bypass, delay, prompt, verdict, audit. `manifest` is what
`backup-manifest.json` holds for the platform: entries whose hmac verifies, does
not, or is empty, with a time or without one. All prompts read one stdin: a
`TypeLine` answers every prompt that is open.

**Migration.** `file` is the state file, written in two steps like the record
above; `mem` is the copy a `run()` works on and `copy` the one `cancel()` read.
One action per phase handler, which returns or throws. Every save may fail
(`SaveFails`), with the file as it was or with part of a text in it: one before or
after a phase throws into the catch of `run()`, which saves the failure; behind those
of `start()` and of the catch itself there is nothing (`RunSaveFails`, history
`unsaved`).

**AuditLog.** `log` is the complete lines, `torn` whether bytes without a newline
follow. `queue` and `stage` are the mutex and the append that holds it;
`cachedPrev` is the cached tail, `peek` a `getLastHmac()` under way outside the mutex.
`spliced` and `overtaken` record the two situations in which the chain is not
promised (see `ChainIntact`). A line longer than the 4 KiB window cannot be
recovered (`LongCalls`).

**ConnectionPool.** A connection is named after the caller whose call opened it.
`entries`, `lastUsedAt` and `inflight` are the three maps; `place` follows a
`getConnection` through stale eviction, LRU eviction, connect, audit; `toVisit`
follows a reaper or a `closeAll` over the keys it took at its start.

**Observation.** Scans of the daemon share its cache; a scan of the command has
an empty one. `todo` and `cur` follow a `runProbe` over its findings; `files` is
the store. `pc` continues through submission, clock and audit.

**Backup.** `disk` is the artifact directory, a content being the run that wrote
it and whether it is complete; a checksum is the content it was computed from.
Drivers differ in how they find their artifact: a name of their own (redis,
docker-volume, unraid-share, filesystem, vault), the same filled by a pipeline
into gzip (postgres, zfs), the newest file of the directory (`ls -t | head -1`,
vzdump), one name overwritten each time (neo4j), or none (OpenSearch, whose
`curl -s` reports success whatever is answered). A pipeline reports only what its
last command does: a dump that breaks off may count as done (`Dumps`), the checksum
of a file that cannot be read is empty (`Sum`), and a restore through gunzip may
succeed on part of the artifact (`Restorable`). Appending to the manifest is read, open and
truncate the fixed `.tmp`, write, rename, with the file descriptor following the
renamed file as it does in POSIX: two commands may write into one file or find
the temporary file gone. A restore verifies, asks and then runs its commands,
each of which may fail; the redis restore is stop, copy, start, and where it fails
it ends (`GiveUp`): `up` is the service, `half` whether its data file is part of a copy.

**Refresh.** `graph` is `inventory-graph.yaml`. `pc` follows one `sweep()`:
snapshot (`prior`), enumeration of one platform after the other, marking,
diff, saving. `writes` is what the sweep has still to upsert and `base` the
document that `upsertEntity` has read and not yet written; `cls` is the same for
`inventory classify`, another process. `at` and `stamp` are the two readings of
the clock, for ages and for `last_seen`. `List` takes what is there; when the
platform no longer answers it loses any part of it, as the enumerator does.
`dedup` is the cache of the engine, which outlives its sweeps: what `isDuplicate` takes
for a repetition is skipped (`SkipDuplicate`), what it does not is noted and then
saved or not (`SaveObservation`, `SaveFails`). An engine may also be a new one, as it is
for every command of the CLI (`cli/index.ts:872`); then its cache is empty (`Sweep`).
`seen`, `dark`, `owed`, `excused` and `clobbered` are history.

**CertAuthority.** A key pair and its fingerprint are a number, a certificate is
a key and a serial. Each call of `init`, `sign`, `rotate` and `remove` runs in
`calls[c]`, and takes one action per file it changes: the key of ssh-keygen, its
renaming, the list and the counter of `initializeCA`; the same of `signPlatformCert`
for the key and for the certificate (`bare` and `signed` are what ssh-keygen wrote and
nobody has renamed yet); the read and the write of `nextSerial`; the three
renames of `rotateKey` and the append to the revocation list after them. Any of
them may fail (`StepFails`, `RenameFails`, `DropFails`) or be the last of a
killed process (`Crash`). The audit entries change no file and are left out
where their failure does not end a call early. `issued`, `raced`, `dirty`,
`crossed`, `superseded` and `retired` are history.

**Discover.** `consents` and `inventory` are the two files, each read whole and
written whole; `consents` is the set of its entries, whose order in the file is that
of their ids. `run` is the `discover` command, `other` a second command in a
process of its own. `Check`, `Approve`, `Save` and `Recheck` follow
`runDiscoverBody` around the operator's answer, during which the clock
(`Tick`), the network (`Move`) and the other command go on. A consents file that
cannot be read costs the range (`Check`) or ends the command (`Recheck`). The network's
fingerprint, an await inside `checkConsent`, is read in the same step as the file. `probes` is the
semaphore: a waiter that was woken is in neither the queue nor in flight until it
resumes. `withdrawn`, `found` and `torn` are history.

**Deploy.** `svc` is the container, service or instance on the host, `artifact`
what `build` captured, `record` the signed record of a deploy. One action per
call to the host, each of which is done, refused, or done with its answer lost.
`RAdd` is the re-creation by unraid's rollback, `PollNew` the poll with its
attempts; docker's rollback toggles between two versions, as docker's does, also
after a `docker stack deploy` that was refused and changed nothing. `docker stack
deploy` does not wait for tasks: a version that never runs is up no more than it
was, and reported as deployed. The
`Fix...` actions are `autofix propose` and `apply`.

**Modules without state.** Each scan, enumeration, pass or query is an operator
from the answers of the hosts to what the code returns. A text is known by which
of the words that matter it contains, and numbers, dates and attributes come with
whether the code can read them. An enumerator that throws ends with its platform.
`Algorithms` has one action per family, which
takes an input (a pair of readings, a graph, platforms some of whose commands fail,
a log query, a configuration with its secret store) from a set that is a parameter;
its invariants compare what the operators make of it with an independent statement
of what it has to be. What an input may be is stated beside each invariant
(`IsReading`, `IsInventory`, `IsSweep`, `IsEnrichment`, `IsQuestion`, `IsSetup`,
`IsConnection`) and assumed of the parameters in `InputAssumption`; TLC evaluates it on
the inputs of `MCAlgorithms`.

A log entry has the time it was written (`at`), what its back end holds as its time
(`stamp`: that time, no text, or a text that is no date), its place in the answer
(`place`) and, for the sort over times that are none, any place it may land at
(`lands`).

What these inputs exclude: a graph with two entities of one id, or infinitely many;
two log entries at one place of the answers; times and limits that are
no integers; a token that the store forgets before nine tenths of its lease are over (the
resolver renews it only then, `vault-resolver.ts:233`). A sweep is compared with one
in which every command answers, an enrichment with one in which nothing fails: what
a command, folder or pass reads does not change between the two, and where an
enumerator has two sources for one thing they agree.

## 3. What the runs check

All numbers are of complete state spaces on two workers; the longest run takes
under three minutes.

| run | instance | states | shows |
|---|---|---|---|
| `DelayedAction_safety` | 1 action, delay 2, clock 4, 1 restart, 2 cancels from either process | 144 k | cancels stand, the contract is implemented, no record is orphaned and callers hear back when undisturbed |
| `ApprovalGate_ladder` | 1 action of each of 5 classes, 4 manifests, delay 2, clock 4 | 178 k | evidence, revocation, and that calls return |
| `Migration_safety` | 1 migration, delay 1, clock 2, 1 restart, 1 cancel, 2 failed saves | 79 k | execute only when approved; executions counted; settles |
| `AuditLog_safety` | 3 appends, one too long to recover, 1 restart, 1 getLastHmac | 11 k | chain, order, every append returns |
| `ConnectionPool_safety` | 3 callers, 3 targets, 5 of the 9 requests, cap 2, 1 sweep, clock 2 | 354 k | what is pooled is open and within the cap, one connect per target, nothing open is forgotten, calls return |
| `Observation_safety` | 2 faults of one key, 2 daemon scans, 1 manual promote, 1 restart, clock 3 | 193 k | spacing, no orphans, scans end |
| `Backup_safety` | 2 backups and 2 restores, symmetric, 1 damaged artifact | 5.8 M | what entries vouch for, what restores write, and that the service is never up on half a copy |
| `Refresh_safety` | 2 entities on 2 platforms, 2 images, thresholds 1 and 2, dedup window 2, clock 2, 1 change, 1 fault or classification | 1.5 M | gone means unseen and drift is saved unless it repeats; others untouched and the removed go |
| `CertAuthority_safety` | 2 platforms, 2 processes, 5 calls, 1 fault | 3.5 M | serials once, nothing in use is revoked, what rests is whole, revocations stay |
| `Discover_safety` | 2 ranges with one first host, 2 ports, semaphore of 2, 1 run, 2 other commands, 1 change of network or kill, clock 1 | 308 k | scans are approved, probes capped, findings kept, the run ends |
| `Deploy_safety` | 2 callers, one of a version that never runs, 4 calls, 1 fault, 2 runs of autofix, each backend | 429 k | reports are true, forced updates approved, calls return |
| `Algorithms_safety` | bounded inputs of the modules without state | 69 k | see below |

`Algorithms_safety` asks five questions. `WorseIsNotMilder`: when a reading gets worse
in some quantities and better in none, each thing a probe reported it still reports,
of the same resource or of its whole host, and as urgently; what no longer answers,
a pool without a state and a pool or disk that fails are worse than what does not.
Where the probes are silent because the very quantity or line they went by
is missing, `...Unread` says so probe by probe, so that a missing line silences nothing
but itself. The score takes off no less and onboarding finds no more. `DriftIsRepaired`: taking off a
node what the drift probe denies there yields a placement that the rules allow and
the probe has nothing against, and it reports nothing where the rules are kept.
`FailureIsContained`: a failing command, mount or pass costs what it would have
found and leaves nothing dangling among what the enumerators return.
`NewestLogs`: the query returns as many matching entries as it may, each once, and
where their times are dates, in the order of the times it reads, with no entry of a
time of its own left out for an older one.
`HostsAreReached`: each host is reached if and only if its key can be had and a
transport it is pinned to answers.

Each module has one type invariant. For DelayedAction, Migration, AuditLog and
Backup it is a theorem; for ApprovalGate it is part of the inductive invariant. In
ConnectionPool (`PooledIsOpen`), Observation (`NoOrphans`), Backup (`NothingLost`),
Refresh (`GraphIsTrue`) and CertAuthority (`SerialsOnce`) it is a conjunct of a
checked property, and proved with it. Discover and Deploy state none for TLC, as
the properties compare their records with concrete values; their proofs state what
they need of the types (`Shapes` in `ConsentInv`, `DeployTypeOK` in `ReportInv`).

### Where code and documents differ

Definitions in the modules state these sentences of the repository; TLC refutes
each of them, and no run lists them:

* `DelayedAction!CancelledIsNotReleased`: `safety/delay.ts:10-11` says that a
  cancel that flips the record rejects the promise. `fireAction` reads the record
  before it writes it, so a cancel between the two (`:84`) leaves a record that
  says cancelled and a caller that is released.
* `ApprovalGate!UnsignedNeverServes`: `backup/orchestrator.ts:69-71` and `:81-82`
  say that converted, unsigned entries do not serve the gate. They are candidates
  like any other (`:87`).
* `Migration!CancelledNeverExecutes`: a cancel written while the runner is in the
  delay phase is overwritten by the runner's own copy (`migration/orchestrator.ts:67`), and the
  migration executes (SPEC-002-2-04 and `tests/integration/test-migration-flow.test.ts:136`
  expect otherwise).
* `Refresh!UnreachableIsNoOp`: `discovery/refresh.ts:215-217` says that an
  unreachable platform is a no-op of the sweep. One that stops answering after the
  connection was made counts as enumerated with nothing found
  (`enumerators/docker-swarm.ts:185`), and its entities become stale and gone.
* `Observation!DedupSurvivesRestarts`: `observation/dedup.ts:5-6` says that
  duplicate detection survives restarts. `observe scan` has a cache of its own, so
  the store may hold a file of the same key that is older than the daemon's;
  a start hydrates the cache with the oldest recent one, and the daemon reports
  the fault again too early. It takes one run of `observe scan` (`CliScans`), which
  `Observation_safety` leaves out for its size. `Spaced` excludes keys that an
  `observe scan` found new; the theorem about it holds with any such runs.

Others are provisos of properties, or were met while reading:

* Two connects that overlap exceed the pool's cap (the `CapUnlessOverlap` part of
  `PooledIsOpen`; `src/docs/specs/SPEC-001-2-03-unifi-truenas-unraid-pool.md:94`
  promises the cap). Two backup commands that append at once lose an entry
  (`NothingLost`; `manifest-io.ts:8-9` relies on a mutex of one process).
  `observe scan` never hydrates its dedup cache, so two runs of the command
  report one fault twice (`Spaced` is about the daemon). An audit
  entry appended behind the bytes of one that failed half way is glued to them
  and lost (`ChainIntact` and `InCallOrder` exclude `spliced`;
  `audit/writer.ts:98-100`). `inventory classify` moves `last_seen`
  (`discovery/graph-types.ts:48`) without observing anything.
* Certificate authority: `nextSerial` says "atomically" (`ca/manager.ts:491`) over
  an unlocked read and write (`raced`); an initialisation cut short is never
  repeated, because the key exists.
* An initialisation or a signing killed between ssh-keygen and the rename leaves a
  private key under its bare name. Every later one then waits for ssh-keygen's question
  whether to overwrite it, so that the authority or the platform stays without a key; a
  certificate that was not renamed may outlive its key until the next signing
  (`ca/manager.ts:123`, `:182`, `:208`).
* Migration: where the save in `start()` or in the catch of `run()` fails
  (`migration/orchestrator.ts:91`), the failure is nowhere on file, and the migration stays in flight, or
  its file unreadable, which stops the listing of all.
* Backups: `pg_dump | gzip` and `zfs send | gzip` (`backup/engine.ts:223`, `:353`) record and sign a
  dump that broke off, `sha256sum | awk` (`:228`) records an empty checksum that nothing
  compares later, `gunzip -c | psql` (`backup/restore.ts:391`, `:420`) calls half a restore done. A redis
  restore whose copy fails leaves the service stopped (`restore.ts:399-401`).
* Drift: `observation/dedup.ts:22-24` says the cache is updated "either way"; a repetition does not
  move it (`:29-33`). It is updated before the observation is saved, so one that
  could not be saved (`discovery/refresh.ts:328-345`) is not tried again within the window, and a
  second drift of one entity and kind within it is swallowed, in an engine that is used
  again.
* Consent is looked up for the first host of a range only (`discover.ts:272`, `:314`),
  where PLAN-001-1 speaks of the range.
* Deploy: unraid stops the old container outside its `try` (`unraid.ts:295`) and throws
  when the record cannot be written although the new container runs (`:349`); its
  captured configuration may be stale (`:214`). Swarm rolls back a `docker stack deploy` that was refused
  although it changed nothing, which takes the service one update further back
  (`docker-swarm.ts:212-216`), and reports `rollback_success`; it reports as deployed what never
  runs. Swarm waits for `completed`
  where docker reports `rollback_completed` (`docker-swarm.ts:325`), and a second
  rollback toggles forward (`:338`). In proxmox `previous_vmid` is the same vmid
  (`proxmox.ts:150`, `:311`), and there is no backup gate. k3s changes a payload
  after signing it (`k3s.ts:105`).
* Probes: the documented priority of labels (`alert.ts:212`) is not the one of the
  code (`:206`); two alerts of one instance share a dedup key (`alert.ts:217`), as do
  connection and memory saturation of one datastore; the dedup key of policy drift
  leaves out the node (`policy-drift.ts:391`).
* Probes are silent about what they cannot read: a disk whose attributes do not
  parse (`smart.ts:60-62`), an array whose `mdState` is empty, items that a command no longer lists (also when
  it fails with nothing on stdout), replicas that are no numbers, certificates and
  backups without a date (`cert-expiry.ts:69-71`), quantities a datastore does not give (one whose replication
  role is lost counts as primary), an alert endpoint that does not answer. A
  capacity host that is lost is replaced by the inventory's attributes
  (`capacity.ts:533`), and growth needs an earlier sample. `zfs.ts` pairs pools and states by position.
  Unknown replicas take nothing off the score.
* Catalogue and topology: job keys are cut to 18 characters and may collide
  (`unraid.ts:881`); an image behind a registry with a port is cut at its first colon
  (`role-catalog.ts:497`); no image gets the role `arr-stack`, so the rule for it
  (`policy-generator.ts:172`) never fires; an entity that the graph refuses leaves
  dangling edges (`topology/index.ts:184`); a failing mount is not reported as
  degraded (`vault-adapter.ts:324`).
* Logs: an OpenSearch hit whose time field is missing, not a text or flattened into
  one dotted key is stamped with the time of the query (`logs.ts:659`) and so precedes newer
  lines; a time that is no date compares as equal to all (`:916`), which leaves the whole order undefined.
* Observability: the log adapters swallow failures, so a dead back end is `ok` with no
  entries, and onboarding calls that a gap (`onboarding.ts:35-36` says otherwise); a
  failed fetch of dashboards is cached as empty (`grafana.ts:529`); the score is
  written back with an old copy of the entity (`health.ts:474`).
* Access: a host with an MCP endpoint is pinned to MCP (`bootstrap.ts:121`) while the
  client there is a null one (`mcp-client.ts:31`), so it is never reached; a 403 does
  not drop the cached token (`vault-resolver.ts:113`).

### Bounds, and why they are enough

The faults in this code need two activities on one object (two writers of a
record, two connects of one target, two scans of one key, two appends, two
signings, two deploys), one restart or failure between them, and one tick on
either side of a deadline. Every instance has that much: two writers or
processes, a restart or a failed step, a clock that passes the deadline by at
least one tick, a cap smaller than the number of targets or probes. A second
action, migration or network is independent of the first in the code except
through the terminal; the theorems about the gate hold for any set of actions
that share it. Three callers in the pool are needed for a third party that evicts
between two others. Five calls of the certificate authority suffice for a
signing, a rotation and a removal of one platform beside those of another and
an initialisation. In `Discover` a range that contains the other, with the same
first host, lets one consent be found for both; two other commands
allow a grant and a revocation, or two removals, during one run. The bounds are
the constants `Max...` and the finite sets of calls (two failed saves let the save
of a failure fail as well; a `DedupWindow` of two ticks lets a sweep fall inside and another
outside it); each stands as a guard in the
action that consumes it. A property that speaks about the future excludes what
would happen after the last tick of the clock by name (`WaitsInTime`, `OutlivesClock`). Symmetry is
used only in `Backup_safety`, which checks invariants only.

Some cases are out of an instance's reach, and left to the theorem that holds for any
bounds: two architectural actions that wait at once (`ApprovalGate_ladder` has one;
`RevokedStaysUnapproved`), a second `apply` of one proposal (`Deploy_safety` shares two
runs of autofix between `propose` and `apply`; `ForcedNeedsApproval`), and a scan with
more than one finding (`Observation_safety`; `NothingIsOrphaned`).

The inputs of `MCAlgorithms` (the theorems hold for any) are at each threshold and on
both sides of it, with missing and failed readings, any set of failing commands, and graphs of two nodes
and three services: a rule of the code relates at most a node, a service and one
thing beside it.

Deadlock is checked for `Refresh`, whose sweeps go on for ever. The commands and
calls of the other instances are finite, so they end in states without a
successor; there deadlock checking is off and liveness takes its place
(`CallersHearUndisturbed`, `GateReturns`, `Settles`, `AppendReturns`,
`CallsReturn`, `ScansEnd`, `RunEnds`).

### Fairness

All safety properties and all theorems but those of Discover and Deploy are of a
`Spec` without fairness; in those two `Spec` carries the fairness and the proofs
do not use it. Otherwise `FairSpec` (`GateFairSpec`, `LogFairSpec`,
`PoolFairSpec`, `RefreshFairSpec`) adds weak fairness of the steps that Node runs by
itself once they are ready: continuations of settled promises, expired timers, the
clock, and the start-up code of a daemon that is started again (the properties
about callers exclude restarts, so none of them rests on that). Nothing is
claimed of what people or networks do: nobody has to submit, cancel, type, sweep
or crash. A handler, a connect, a file operation or an audit write is only
assumed to end, by success *or by failure*; the failing branch is always enabled
with the succeeding one. For the pool, the probes and the hosts this is the time
limit of the transports. In `Discover` it is `RunStep`: a probe settles, but the operator
need not answer, so a run ends or asks. In `Deploy` it is `CallStep`: a call to a
host is answered or times out. `Refresh` alone assumes a caller: the sweep of all
platforms is invoked again and again ("callers invoke `sweep()` repeatedly",
`refresh.ts:31-32`), which is strong fairness of `Sweep(Platforms)` because
filtered sweeps may come in between.

## 4. What is proved

TLAPS proves the following for every value of the constants that satisfies the
module's named assumption (delays are positive, bounds are naturals, sets are of
the declared kind, some of them finite); none uses fairness. Some assumptions keep
names apart that the code keeps apart: no caller in `Deploy` is called `"none"`, no
scan of the command `"daemon"`. `ConnectionPool` assumes that its cap is at least 1.

| theorem | statement | also checked by |
|---|---|---|
| `DelayedAction_proofs!TypeCorrect` | `[]TypeOK` | - |
| `DelayedAction_proofs!FullDelay` | `NoEarlyRelease` | - (follows from `ImplementsContract`) |
| `DelayedAction_proofs!CancelStands` | `[]RevokedStands` | DelayedAction_safety |
| `DelayedAction_proofs!Refinement` | `ImplementsContract` | same |
| `Changes_proofs!ApprovalNeedsEvidence` | `[]ApprovedWithEvidence` | ApprovalGate_ladder |
| `Changes_proofs!RevokedStaysUnapproved` | `[]RevokedNeverApproved` | same |
| `Migration_proofs!TypeCorrect` | `[]TypeOK` | - |
| `Migration_proofs!ApprovedBeforeExecute` | `[]ExecuteIsApproved` | Migration_safety |
| `Migration_proofs!ExecutionsAreCounted` | `[]ExecutionsCounted` | same |
| `Daemon_proofs!LogIsTyped` | `[]LogTypeOK` | - |
| `Daemon_proofs!ChainStaysIntact` | `[]ChainIntact` | AuditLog_safety |
| `Daemon_proofs!LinesInCallOrder` | `[]InCallOrder` | same |
| `Daemon_proofs!PooledConnectionsAreOpen` | `[]PooledIsOpen` | ConnectionPool_safety |
| `Daemon_proofs!ConnectionsAreKept` | `[]NoLeak` | same |
| `Daemon_proofs!NothingIsOrphaned` | `[]NoOrphans` | Observation_safety |
| `Daemon_proofs!FaultsAreSpaced` | `[]Spaced` | same |
| `Backup_proofs!TypeCorrect` | `[]TypeOK` | - |
| `Backup_proofs!DoneIsOnFile` | `[]NothingLost` | Backup_safety |
| `Backup_proofs!EntriesAreOwn` | `[]EntryIsOwn` | same |
| `Backup_proofs!RestoresAreAsConfirmed` | `[]RestoredAsConfirmed` | same |
| `Backup_proofs!NeverOnHalfACopy` | `[]NeverUpOnHalf` | same |
| `Inventory_proofs!TheGraphIsTrue` | `[]GraphIsTrue` | Refresh_safety |
| `Inventory_proofs!OthersStayUntouched` | `OthersUntouched` | same (in `OnlyTheGoneGo`) |
| `CertAuthority_proofs!SerialsAreUnique` | `[]SerialsOnce` | CertAuthority_safety |
| `CertAuthority_proofs!RevocationsStay` | `RevokedForGood` | same |
| `CertAuthority_proofs!QuietPlatformsAreWhole` | `[]RestIsWhole` | same |
| `CertAuthority_proofs!NeededIsActive` | `[]NeededStaysActive` | same |
| `Inventory_proofs!SemaphoreHolds` | `[]ProbesAreCapped` | Discover_safety |
| `Inventory_proofs!FindingsStay` | `[]FoundIsKept` | same |
| `Inventory_proofs!ScansAreApproved` | `ScanIsApproved` | same |
| `Changes_proofs!ForcedNeedsApproval` | `[]ForcedAsApproved` | Deploy_safety |
| `Changes_proofs!ReportsAreTrue` | `[]ReportIsTrue` | same |
| `Algorithms_proofs!WorseReadingsAreNotMilder` | `[]WorseIsNotMilder` | Algorithms_safety |
| `Algorithms_proofs!RepairRemovesDrift` | `[]DriftIsRepaired` | same |
| `Algorithms_proofs!HostsOfTheConfigAreReached` | `[]HostsAreReached` | same |
| `Algorithms_proofs!FailuresAreContained` | `[]FailureIsContained` | same |
| `Algorithms_proofs!NewestAreReturned` | `[]NewestLogs` | same |

Together: an architectural action is approved, and a migration executes, only
after the full delay, because both are proved against `DelayContract` and
`DelayedAction` is proved to implement it.

**DelayedAction.** `NoEarlyRelease` is not inductive: a timer or a record with an
early time would break it one step later. `Timely` says that every timer, every
record on disk and every activation carries a time no earlier than the first
request plus the delay, and that a firing activation exists only from then on.
`RevokedQuiet` says that after a timely revocation neither a request nor a firing
is under way and that the file can only be cancelled or in the middle of being
so written: this is what a second cancel, writing over the first, has to
preserve. The refinement maps variables of the same names; every step is a step
of the contract or leaves its variables alone (`StepRefines`).

**ApprovalGate.** `GoodAt` says, for each place in a call, what has been
established by then (a checked backup or a bypass allowed to admins and audited,
a delay that has elapsed, a confirmation), so that the verdict finds it all.

**Migration.** `ClearedAt` says that any copy of the state, in the file, in the
runner's memory or in the hands of a cancel, that is at or past the execute phase
belongs to an approved migration whose delay has passed. Cancels write back old
copies, so it has to hold of all three. For the count of executions, `CountInv`
says who may still reach the execute handler in this life of the daemon: a
migration the start-up has yet to resume, or a `run` whose loop goes on with a state
in flight; each has used up none of this life's executions, and a crash grants
one more. That `complete` is earned again has to hold of all three copies.

**AuditLog.** `StageInv` ties what an append has claimed (predecessor, number,
key) to the log as it is now, for each stage of the append; `KeyInv` ties the
cached key to the key file. With them, appending one line keeps `LogSound`, the
inductive form of the verify rule, in all behaviours that are neither spliced nor
overtaken. The order of the lines needs `OrderInv`: calls are told by their place in
the history of calls, the queue is in that order, and every line precedes every
call still queued, but for the active one once its own line is the last.

**ConnectionPool.** `KeptInv` says what is known of a call by where it stands: one
that connects holds the in-flight place of its id, what is pooled is an open
connection of the call that made it, and what is being disconnected is pooled no
more and will not be again. For `NoLeak` it adds that a call about to connect
finds no entry in its place, unless a stale entry was succeeded meanwhile. The
cap is not inductive: `RoomLeft` says that, unless two ids were connected at a time,
there is at most one call about to connect, and room for its entry.

**Observation.** `PipeInv` follows an observation through its scan (untouched, then
marked, saved, submitted, given a clock, in this order) and says that what a
process has at hand is its own. `Counted` bounds the submissions of an observation
by the finished manual promotions, and one more once its scan can no longer submit
it. `Spaced` across restarts needs `SpacedInv`: as long as the daemon is up its cache
covers what it keeps, and of a key there is at most one such observation younger
than a window, so that a start, which takes the oldest recent file, takes the
right one.

**CertAuthority.** That a serial is in one certificate is not inductive:
`SerialsInv` adds that, unless two calls counted at once, no serial from the
counter on has been used, and every call about to sign holds a serial behind the
counter that is in no certificate and that no other such call holds. The types need
`OnItsWay`, what a call has in hand at each place, and `Paired`, that a key or
certificate is never on disk without a public key: a certificate takes its key
from there. `WholeInv` says, for a platform where nothing overlapped, that at most
one call is under way and how far its three renames have brought the files.
`NeededStaysActive` rests on `KeysInv` (a key stays with one platform) and
`UncrossedInv`: a key still to be put in force is neither revoked nor about to be,
and what a rotation has replaced does not come back before it is revoked.

**Discover.** `Capped` counts places taken and places promised, and that both sets
are finite; a waiter that resumes turns one into the other, a probe that ends gives
its place to at most one. `FoundIsKept` is inductive because of its proviso: a write
over what the writer has not read is recorded in `torn`. `ScanIsApproved` compares
the consent a scan begins under with the file at that moment: `ConsentInv` says that
every entry, in the file, in a pending write or withdrawn, has an id of its own, so
that removing the withdrawn ones removes no other.

**Deploy.** `ForcedAsApproved` counts the forced update under way with those done; only
the gate of `apply` adds an approval and only its execution spends one. For
`ReportIsTrue`, `ReportInv` says what a caller whose target nobody else changed holds
at each place of its way: what it captured is what ran, the restoration starts
from it, and what it has reached so far is what the host has.

**Backup.** Five invariants, each over the effects of the actions on the records
(stated once as lemmas). `ServiceInv`: two restores that act on the service have met,
and one that stopped the service and has met no other finds it stopped until it starts
it, and its data whole by then.
`AppendInv`: a command that appends and has met no other is the only one, its
temporary file is its own, and what is done is in the manifest, in a temporary
file that is to become it, and in what every other writer has read.
`EntryInv`: while a command dumps, its artifact is its own unless dumps crossed, so
every copy of an entry, on file or in the hands of a command, vouches for what its
own run dumped. `RestoreInv`: between verification and copy the artifact is as its
checksum says, unless it was rewritten.

**Refresh.** `UnseenInv`: whatever document is about to be written back, of the
sweep or of `inventory classify`, says of an entity only what fits when it was
last stored (`GoneMeansUnseen` of the graph alone is not inductive, since writers
hold old copies). `DriftInv`: a sweep that nobody disturbed has changed an entity
at most once since its snapshot, so the comparison at its end finds all the drift
it caused, and whatever leaves its list is noted in the cache. Both need `Sound`, the shape of the pending writes; TLC checked the whole
invariant on the instance of `Refresh_safety` before it was proved.

**Algorithms.** The state holds one input, so the invariant (`Given`) only says that it is
one of those the parameters contain; the work is in what the operators compute for
every input. Where that is a recursive function (the listing of a secret tree, the
penalties of a list of observations, the powers of two in their decay, the token
cache from host to host) a set of numbers at which a statement fails has a least
element (`LeastNat`, from the well-foundedness of `<`), and there the statement follows from
its predecessor.

* `DriftIsRepaired`. `DeniedIsOffence` says what the scan denies without the rules: a
  service on a manager, a media service beside no GPU, and one of a role to be spread
  that has another of that role before it. Taking services off their nodes leaves
  each node's other neighbours, so its tags, as they were (`SameFacts`); then none of the
  three is left (`RelievedIsTolerated`).
* `FailureIsContained`. One lemma per source of each enumerator says what its failure
  costs. For the secret store the recursive listing is first related to a set
  (`ListingIs`, `ReachedIs`: it comes to a folder exactly if each folder on the way to it
  answers and leads on, within the depth), and then the sets of two stores to
  each other. Each pass adds to the graph that the one before it left, entities and edges
  of kinds of its own (`PassWrites`, `EnrichmentWrites`), so what one of them fails to
  find is missed in no other's share.
* `NewestLogs`. Of a back end's answer, `Later` orders what it cuts, and of all answers
  `Ahead` orders what the query cuts; each is a strict order, and
  the number of entries before one gives it its place (`RanksArePlaces`). An entry
  among the newest of all is among the newest of its back end (`CutLosesNothing`).
* `HostsAreReached`. `IsCache` says when the cached token was issued and until when it is
  used; it holds after the question for each host because it held before (the least
  host for which it does not has a predecessor), so every question meets a token that
  the store knows (`KeysAreFound`), whatever became of the hosts before. Of two entries of one name the later counts (`LastIsKept`).
* `WorseIsNotMilder`. One lemma per probe (`SmartTells`, `ZfsTells` and the like) takes an
  observation made of the milder reading to one made of the worse, to the host's being
  reported, or to what is `Unread`. The score needs that rounding (`DivisionIsMonotone`)
  and the decay with age (`PowersGrow`) keep the order, so that sums over the
  observations do (`PenaltiesAreMonotone`).

**Not proved.** Liveness under fairness (`CallersHearUndisturbed`, `GateReturns`,
`Settles`, `AppendReturns`, `CallsReturn`, `ScansEnd`, `RunEnds`, and
`RemovedEntityGoes` in `OnlyTheGoneGo`) stays with TLC: it needs `ENABLED`, which the
prover does not support. Every invariant and every other action property that a run
checks is stated by a theorem.

## 5. Abstractions

Hmacs are the fact whether they verify; a key is a number that changes when a
new one is generated. Names, messages and payloads are model values. Time is a
counter of ticks; a delay of 24 h, a prompt's time to live and the age of a
backup are small numbers of ticks, and an action happens at a time, not during
it. Reads of a small file are one step; writes in place are two, which is where a
crash or another writer can come between. Directory listings are one step.
`vzdump` and `neo4j-admin` are external: that they name files as the globs in
`engine.ts` expect is taken from there.
Docker, ssh-keygen, the Vault server, Loki, OpenSearch, Prometheus and Grafana are
external and known by the answers the code tells apart.

## 6. Plan

Done: the gate and everything it stands on (delay, backup check, migration,
audit), the pool, the observation pipeline, backups, the refresh sweep, the
certificate authority, consent and discovery, deploy and autofix, and the
algorithms of probes, rules, enumeration, topology, observability and access.

Every invariant that a run checks is a theorem. Worth proving next: that the approvals
`ApprovalGate` and `Migration` give rest on one another through `DelayContract` for
several clients at once.

Models worth adding: `AuditLog` with a second process on the same file and key
rotation; the metric clocks; a refresh sweep beside a second one; the
`command_executed` entries of the pool's decorated connections.

## 7. Not modelled

The classification of actions is tables and string checks without state; the
class of an action is an input of the gate. The portal renders files. Schema
validation of the configuration and redaction are string work. Of `metrics`, only
the clock that the promoter starts is modelled; stopping and purging clocks, and
the counters, are not. The audit log has one writing process in the model; the
daemon and each command write the same file in reality (hazard at
`audit/writer.ts:132`): with two, the chain forks at once and there is nothing left
to promise. The k3s backend and the k3s and proxmox enumerators are stubs in
the code. In `Deploy`, the checks of parameters, shares and the backup of a stateful
target are one step that passes or refuses. How a network fingerprint is computed,
what a probe's response is matched against beyond its kind, and the
parsing of command output are represented by their results. The commands that only
parse arguments and print what a component returns are not modelled.

## 8. Running

    tlc -workers 2 -config DelayedAction_safety.cfg DelayedAction.tla
    tlapm DelayedAction_proofs.tla

Each run's module and configuration are in `PROJECT.json`; a configuration is
named after its module, or after the module that its `MC` module extends.
