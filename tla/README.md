# rosshield in TLA+

rosshield scans fleets of robots over SSH against benchmark packs, records what
it finds in a database with a hash-chained audit log, and tells people and other
systems about it. This directory holds TLA+ models of the server and of the tools
around it, TLC configurations that check them on small instances, and theorems
about twenty-seven of them that TLAPS has checked for every instance. Paths below are
relative to the root of the repository; `PROJECT.json` maps each definition to the
lines it models.

To repeat the checks, with the community modules and the library of TLAPS on the
module path:

    tlc -workers 2 -config ScanRun_matrix.cfg MCScanRun     # any row of "Runs"
    tlapm ScanRun_proofs.tla                                # any module *_proofs

## The system

One Go process serves an HTTP API over SQLite, or several do over one PostgreSQL
with an advisory lock that elects a leader. Inside a process the parts talk through
method calls within a shared transaction, through an in-process event bus, and
through cron ticks. Most of what can go wrong is of one kind: something is read in one
transaction (or in one statement, on PostgreSQL at READ COMMITTED) and relied on in
another. SQLite is opened with one connection, so that transactions exclude one
another there; the same Go code on PostgreSQL has only the constraints of the tables.
Models of code that runs on both therefore have the backend as a variable that `Init`
picks (`tokenDb`, `inviteDb`, `ssoDb`, `evDb`, ...) and a guard in which it decides.

| Component | State | Operations | What makes it correct | Modules |
|---|---|---|---|---|
| Scan sessions (`internal/domain/scan`) | rows of sessions and results | StartScan, TransitionSession, CancelSession, RecordResult | a fixed life cycle, one live session per fleet, an audit trail that tells it | ScanSession, ScanRun |
| Scan orchestrator (`internal/app/scanrun`) | a goroutine per run, workers, cancel functions, health per robot | Run, Cancel, finalize | results complete and final, answers true, runs end | ScanRun |
| Event bus (`internal/platform/eventbus`) | topic lists, a channel and a worker per subscription | Subscribe, Publish, Cancel, Close | order, no loss for Block, silence after Close, nobody waits for ever | EventBus |
| Leader election (`internal/platform/ha`) | role and epoch in memory, a session's lock, a sequence and a table | tick, promote, demote, Stop | the lawful leader has the newest epoch | Leadership |
| Patroni role provider (`ha/patroni`) | two atomics | poll | primaries of different timelines can be told apart | RegionFailover |
| Audit chain (`internal/domain/audit`) | entries, heads, checkpoints | Append, WriteCheckpoint, Verify, the hash version marker | chain unbroken, only growing, checkpoints true, epochs name the writer | AuditChain, AuditLog |
| Keys of the chain, exports, external verification (`audit/keyrotation`, `platform/signer`, `rosshield-audit-verify`) | key epochs in a table, signer in memory | RotateNow, Abort, Swap, start, export, verify | an entry names the key that was in force | KeyRotation |
| Audit rotation (`audit/rotation`) | segment rows, archives, hot table | rotate, collect, verify | archive and table together are the chain | AuditRotation |
| Cross witnesses (enterprise) | last hash, goroutines | fold, Start, Stop, anchor | folds rest on one another, one loop | CrossWitness |
| Sessions and API keys (`domain/tenant`) | refresh tokens, API keys | Login, Refresh, Logout; Issue, Authenticate, Revoke | one live token per login, a key opens its own tenant's door | AuthTokens |
| Onboarding (`domain/intake`, `tenant`, `seed admin`) | intakes, tenants, invitations | Submit, Accept, Reject, seed; invite, accept, revoke | one decision, one tenant with an admin, one user per invitation | Onboarding |
| Single sign-on (`domain/tenant/sso`) | providers, attempts, bindings | StartLogin, CompleteLogin, group sync; the OIDC exchange | a state is used once, bindings follow the latest claims | SsoLogin |
| Access control | bindings, tokens | assign, sign, Decide | decisions follow the table, the fleet is that of the request | AccessControl |
| Replication (`platform/replication`) | replicas, heartbeats, failovers; publication, slots | heartbeat, failover; ensure, sweep | history explains roles; slots in use stay | RegionFailover, ReplicationSetup |
| Webhooks (`app/webhookrun`) | endpoints, delivery rows | enqueue, tick, post, mark | deliveries settle, rows tell what was posted | WebhookDelivery |
| Progress stream (`handlers/scan_ws.go`) | two subscriptions and a channel | subscribe, hand over, write | answered in order, everything released | ScanProgress |
| SSH pool (`platform/sshpool`) | semaphores, idle stacks | Acquire, release, sweep, Close | slots are held by commands, no connection leaks | SshPool |
| Server life cycle (`cmd/rosshield-server`) | what is open, what runs | Bootstrap, serve, Shutdown | the database is closed last, a stop ends | Lifecycle |
| Schedules (`fleet_scan_scheduler.go`, `cronsched`) | fleet rows, cron entries per instance | Reconcile, RegisterAll, tick | a job is that of the current row | FleetSchedule |
| Robots (`domain/robot`) | robots, credentials, host keys | create, rotate, delete, trust; CSV import | a live robot has a credential, one trusted key | RobotCredentials |
| Insights (`domain/insight`, `app/insightautorun`) | insight rows | RunForFleet, dismiss; three detectors | reported once, flags mean something | InsightRun |
| Advisor (`domain/advisor`, `app/advisorrun`, `llm`) | conversations, turns | Ask | turns numbered, audited, quota overrun bounded | AdvisorAsk |
| License (`domain/license`) | the payload in memory | gates, usage page | limits hold within a stated overshoot | LicenseQuota |
| Demonstration data | a whole tenant | `seed demo` | can be run again after a failure | DemoSeed |
| Compliance (`domain/compliance`) | snapshots, suggestions | snapshot, suggest, decide; effectiveness | scores follow results, one decision; a dashboard counts its own tenant's events | Compliance, Effectiveness |
| Reporting (`domain/reporting`) | reports, a signing key | generate, sign, bundle, verify | a readable report is signed and anchored | Reports |
| Packs and rules (`domain/benchmark`, `builtin/packs`) | packs and life cycles | load, seed, install, transition; evaluate | installed packs are whole; verdicts mean what the rules say | PackStore, EvalRules |
| Pack tools (`cmd/pack-tools`) | directories, archives, key files | convert, archive, keygen | nothing by hand is lost; a synthesized check never passes silence | Converter |
| Evidence (`domain/evidence`, `platform/blobstore`, backups) | rows, blobs | Store, read, quarantine, backup, restore; redact | a row has its bytes, backups are closed | EvidenceStore |

The hazards this leads to are listed in `PROJECT.json`, each at its line, with the
properties that would catch it going wrong.

How they interact where it matters:

- A handler or a cron tick creates a session and spawns `Run`. `Run` makes
  transactions of its own; each terminal transition also appends to the audit chain
  in the same transaction. `Cancel` (another request) shares with `Run` the map of
  cancel functions and the session's row, nothing else.
- `Run` publishes `scan.progress` and `scan.completed`; webhooks, insights, metrics
  and the WebSocket subscribe to them. A lost event is never repeated.
- `Append` runs inside the transaction of its caller. On PostgreSQL it asks the
  Manager of its own process whether it leads, then reads the epoch, then the head.
- The server seeds built-in packs, which appends, before it looks for the hash
  version marker, and sets the leader gate at the end of bootstrap.

## Modules

Operators whose name has a suffix after an underscore (`FleetFree_Running`,
`Load_Any`) are plausible bugs of the operator or action they are named after:
`PROJECT.json` lists which property each of them breaks, so that every property is
known to depend on code that could be wrong. A comment that begins with "Not so", "Not
true" or "Expected by" is about a statement of the repository that the code does not
keep, see "Further counterexamples".

`MCScanRun` and `MCAuditChain` instantiate one model each, and `EventBus_close.cfg`
checks `EventBus` itself. `MCTrust`, `MCService`, `MCFleet` and `MCContent` are sums:
each extends several modules, which share no variable, and `part` says which of them a
behaviour is about while the others stand still in one of their initial states. Parts
of a sum are models of code that shares no state either, so that a behaviour of
several at once would have nothing in it that a behaviour of one lacks. A sum's
properties are conjunctions of named properties of its parts. What couples parts is
modelled in one module instead: the orchestrator with its repository, the chain with
the election, bridge and dispatcher, pool and executor, evidence and its backups.

### ScanRun, ScanSession

`run[s]` is where the goroutine of `Run` stands, `work[s][i]` where a work item
(robot, check) does, `call[c]` a Cancel request. The rows of the database are
variables of their own (`status`, `reason`, `total`, `progress`, `severity`,
`results`, `audit`), and `audit` holds the transitions that the session's audit
entries tell.

A transaction is two steps: what it reads and decides, and what it writes when it
commits (`Begin...`, `Commit...`). `Serialized` chooses the storage: on SQLite at most
one transaction is open; on PostgreSQL they overlap, and only migration 0025's partial
unique index still guards the fleet (`IndexAllows`). A transaction that writes nothing
is one step. Any transaction may fail (`RunFault`, `RecordFault`, `CancelFault`), and
the process may crash between any two steps, which keeps rows and loses the rest.

`Dispatch` hands items to workers in the order of the loops of `Run`, as many as
the semaphore admits. `CheckHealth` reads the robot's failure count before the
exec and `Exec` updates it after, as the code does under two separate locks. An
exec ends in one of four ways, `Probes`. `ScanSession` is what the rest of the system
may rely on, and `ScanRun` on SQLite implements it.

### EventBus

An event is a pair of publisher and number. Each case of a Go `select` is a
disjunct or an action, because Go picks any that is ready; `DropOldest` is the three
steps it is in the code (`TrySend`, `EvictOldest`, `PushNew`) with other goroutines
in between. `topic` is the list that `Publish` snapshots and `Close` empties. One topic
is enough: topics share only the closed flag.

### Leadership, AuditChain, AuditLog

`mgr[n]` is where the Manager's goroutine stands inside a tick, so appends see each
intermediate state: lock taken, epoch drawn, row inserted, epoch stored, role stored.
`conn[n]` is the session as the instance knows it and `holder` the lock as the
server knows it; `LoseSession` and `EndSession` come in either order with the
instance's own heartbeat.

A transaction `tx[x]` goes through the steps of `Append`: `Gate` (IsLeader),
`ReadEpoch` (CurrentEpoch), `ReadHead`, `Insert`, and `Commit` or `Rollback`.
`Insert` waits while another open transaction has inserted the same key and fails when
a committed one has, which is what the primary key of `audit_entries` does. A hash is
the sequence of contents under it: equal exactly when the chains are. `StartProcess`,
`SeedPack`, `FindMarker`, `AppendMarker` and `StartHA` are the part of bootstrap that
touches the chain, in its order.

### Trust: KeyRotation to RegionFailover

- `KeyRotation`: `rot[i]` holds the mutex of RotateNow through its steps (enter,
  entry, row, swap), Abort raises a flag that the round reads; a start wraps the key
  as epoch 1 again. Bundles of three formats are exported from any range and verified
  by the tool with its checks in order.
- `AuditRotation`: a rotation writes the file before its transaction commits, so that
  a failure leaves an archive nobody recorded; the collector deletes aged segments.
- `AuthTokens`, `Onboarding`, `SsoLogin`: each request is "found" and "committed", with
  the backend deciding what may come in between; a unique index or a conditional
  UPDATE is a guard of the second step. The second half of `SsoLogin` is the protocol
  with the provider: keys that rotate, tabs that are mixed up.
- `AccessControl`: a permission is a cell of resource and action, `Decide` is checked
  against the table for every token and route the instance can make. A sign-on signs the
  names of the roles only, so that a role bound for a fleet counts for the whole tenant;
  tokens with bindings are modelled as well, though no handler signs one.
- `RegionFailover`: what the instance believes against what the cluster
  view of Patroni, the table of replicas and its history say. A view names a leader in its
  own field, or shows a member as master, or neither. External, and assumed: a view without
  the field shows no other member as master than the leader of the timeline it carries.

### Service: WebhookDelivery to Lifecycle

- `WebhookDelivery`: `tick[d]` holds the batch a dispatcher has read and the row it is
  about; posting and marking are two steps, a crash or a failing transaction may come
  between them, and several dispatchers hold the same row.
- `ScanProgress`: two subscriptions that lose their oldest event when they are full, also
  to the ends of other scans, the workers of the bus that block on `msgCh`, the handler's
  loop, clients that leave. The end of a scan may stay unpublished (`FinishSilently`, what
  `scan_announce` shows of `finalize`).
- `SshPool`: `exec[w]` goes through both semaphores, an idle connection or a dial, the
  session and the release; the sweep goes through the stacks one connection at a time and
  holds the mutex while a silent peer keeps it waiting; credentials rotate.
- `ReplicationSetup`: PostgreSQL's catalogs are external; starts, the operator and the
  sweep of slots act on them.
- `Lifecycle`: `BootSteps` lists what each step of Bootstrap opens, and what the branch
  in which it fails closes; `Shutdown` lists what a stop switches off and waits for.
  `Flags` sorts the flags of `main.go` by how they are decided, `Decided` says what flag and
  environment make of each, `Setups` and `Adapters` what is then built or refused, and
  `Health` is the answer of healthz.

### Fleet: FleetSchedule to LicenseQuota

- `FleetSchedule`: the handler's commit and the three steps of Reconcile are separate,
  jobs are per instance, cron's own table (`cronTab`) and the map of the scheduler
  (`jobId`) are two variables.
- `DemoSeed`, `RobotCredentials`: every transaction is a step, and the
  command or the request may end between two. The CSV parser is a loop over records
  that counts lines the way the code does.
- `InsightRun`: the detectors, whose `float64` comparisons are multiplied out to integers
  and checked over all windows of the instance, and the runs over them, as triggered
  by hand or by an event, with duplicates and dismissals. Where a ratio is exactly at the
  threshold in arithmetic, its rounding decides: `BelowPeers` takes either answer.
- `AdvisorAsk`: an Ask is one transaction with the model's calls inside it. A request may
  name its own number of tool calls (`MaxCalls`), for which the handler has no upper limit.
- `LicenseQuota`: a gate reads the usage and the creation happens in another
  transaction (`passed`); the page reads a usage of nothing when its query fails; schedules and demonstration data create without asking
  (`ungated`); the licence is read at start and expires under the process.
- `Effectiveness`: the table of SOC 2 sub-controls as it stands, the actions that some code
  writes, and the counts of the dashboard over the audit entries of several tenants.

### Content: Reports to CrossWitness

- `Reports`, `Compliance`: one transaction whose statements see, on PostgreSQL, what
  others have committed by then; keys are lost, made anew, and outlived by bundles.
- `EvalRules`, `Converter`: pure functions over every rule, output or text of a
  small grammar. A rule's verdict is checked against the meaning of its operators and
  the self-test against the scan; the shell condition made of a pass_logic against the
  logic's meaning; each kind of synthesized check, of both converters, against silence and
  against the expectation of its text.
- `PackStore`, and the tools in `Converter`: archives, seeding at each start, transitions;
  what the releases bring is a constant, of which the run has two, the second with new
  contents under an old key, a new pack, a stranger's and two damaged ones; conversion as
  a sequence of file operations that may stop between any two.
- `EvidenceStore`: files are staged, renamed and synced; a power loss takes away what
  was not synced, a disk rots; backups copy while the server works. Synced is the directory
  a file is in (a shard); one that was made for it is itself not synced in its parent
  (`unsynced`), so that a power loss may take the file with it. Redaction goes loop by
  loop: it collects marks, of each rule up to `maxMatchesPerRule`, sorts and merges them,
  and copies what no mark stands for.
- `CrossWitness`: folds, the scheduler's Start and Stop with their flag and two channels,
  called by several goroutines, the anchor's retries. `overlapped` is history: a call of
  Start or Stop began before another had returned.

## Runs

| Run | Instance | Shows |
|---|---|---|
| `scan_matrix` | 1 session, 2 robots x 2 checks, 2 workers, 1 cancel, 1 fault, 1 crash, SQLite | severity is final once terminal; a completed session covers its matrix but for what the storage failed; the end is announced once, last, and truly |
| `scan_fleet` | 2 sessions on 1 fleet, 2 cancels, 1 crash, SQLite | what Cancel answers stays true; terminal is final; `ScanSession` is implemented |
| `scan_live` | 1 robot x 3 checks, 2 workers, 1 cancel, 1 fault, with fairness | Run ends; the health window is overrun by at most `WorkerLimit - 1` |
| `scan_announce` | 1 session of one check, 1 cancel, SQLite | **violated**: a session with checks may end and `scan.completed` never be published |
| `bus_close` | 1 Block and 1 DropOldest subscription, 1 publisher of 2 events, buffer 1, Close, with fairness | Block loses nothing; the topic list is exact; Close silences; Publish, Close and workers end; queues move |
| `audit_chain` | 2 instances, 2 transactions, 1 tenant, 2 epochs, 1 fault, chains of 2 entries | chain intact; checkpoints hold; epochs name writers; leaders have epochs, the lawful one the newest; `AuditLog` is implemented |
| `audit_epochs` | the same with chains of 3 entries | **violated**: epochs decrease along a chain |
| `trust` | `MCTrust`, 12 parts: bus, keys, segments, tokens, API keys, invitations, onboarding, sign-on, OIDC, rights, Patroni, regions | see below |
| `service` | `MCService`, 5 parts: webhooks, progress, pool, replication, life cycle; with fairness | see below |
| `fleet` | `MCFleet`, 10 parts: sessions on PostgreSQL, demonstration data, schedules, robots, imports, detectors, insights, advisor, effectiveness, licence | see below |
| `content` | `MCContent`, 11 parts: reports, compliance, suggestions, rules, packs, pass logic, pack tools, CIS checks, evidence, redaction, witnesses | see below |
| `backup_walk` | the evidence part of `content` with 2 blobs, alone | **violated**: a backup succeeds without evidence that is on the disk |

What the properties of the sums say, in the words of the comment above each:

- **trust.** `OrderPreserved`: a handler gets the events of one publisher in their order
  and none twice. `KeyHistoryIsSound`: one key in force, registered before it signs, a
  round that fails or is aborted moves nothing, the server verifies every range of its
  chain and the tool each bundle up to the marker. `RightsAreSound`: decisions follow the
  table of roles, the route names the fleet, what a route names is of the fleet it is about,
  and a token allows what it did when it was signed: of roles only, everywhere what its
  user held anywhere. `TimelinesAreSound`: two leaders never share
  a timeline, and a timeline seen never falls. `FailoverIsSound`: roles, their history and
  its audit entries agree. `NobodyElseIsLetIn`: one live refresh token per login and none
  after signing out; one user per invitation, none once it is revoked; a state completes
  one login, group bindings follow the latest claims and those given by hand stay; the
  identity of a login is that of who authenticated for it; one final decision makes one
  tenant with an admin; only live keys authenticate, each its own tenant.
  `SegmentsAreSound`: archives and table together are the chain, what is on disk is what
  is recorded, and both verify.
- **service.** `DeliveriesSettle`: each delivery is settled for good in the end, though
  dispatchers write each other's counts back. `DeliveriesAreSound`: what succeeded was
  received, attempts were posted, success is not taken back. `StartsAndStopsAreClean`: a
  stop ends, and unless its time ran out nothing that uses the database is under way when
  it is closed; of the replication that a start sets up, only own idle slots are dropped,
  all tables stay published, a lost standby's slot goes. `ConnectionsAreSound`: the end of
  a scan is the last message and covers all results; streams end if the end was published
  and was not pushed out by the ends of as many other scans as a subscription has places;
  workers are released; slots match holders, no credential has more connections to a host
  than the host's limit, no connection leaks or serves a rotated login longer than one
  command, commands end.
- **fleet.** `OneLiveSessionPerFleet`, on PostgreSQL, by the index alone. `AdvisorIsSound`:
  turns are numbered, every ask is audited, the budget is overrun by the asks in flight
  at most, of as many tool calls each as the request allowed itself. `QuotasAreSound`: the same for robots and scans, also over the expiry, and
  the page explains the gate. `RobotsAreKept`: a live robot has a credential, none is
  forgotten, one trusted host key; an import's rows can be created and every record
  counts. `SessionsStartAsAsked`: a job nobody raced for is that of the current row and
  none outlives its key; demonstration data is whole after a run without trouble.
  `FindingsAreSound`: detectors mean what they flag (half of the robots at most fall behind
  their peers, less than half where rounding decides nothing, and never one above another
  that does not), insights have no twins, drift
  follows the order in which scans ended, the dashboard counts its own tenant's events.
- **content.** `ReportsAreSound`: a readable report is signed, shows its whole session,
  names its own anchor, and its bundle passes both tools exactly while document, signature
  and key are as handed out. `RedactionIsExact`.
  `ComplianceIsSound`: a perfect score means no failure, the anchor precedes the
  snapshot, a suggestion is decided once (on SQLite). `VerdictsAreSound`: the self-test
  predicts the scan, negation decides nothing that was undecided, the shell says what
  the pass_logic says, silence passes only where the text asks for nothing, audit rules
  compare by what they say on a robot that sorts by bytes, a check that is left to a person
  is judged by a machine only for the four kinds of text written for, a conversion keeps
  fixtures made by hand unless their directory could not be looked at.
  `PacksAreSound`: installed packs are whole and of a trusted key, their history is a walk
  through the states, new packs arrive at a start. `EvidenceSurvives`: a
  row of evidence has its bytes unless the disk failed or no sync made its directory
  durable; a backup whose walk met no file that was gone, and what is restored from it, are
  closed under reference, and a file is gone only because it was rotten.
  `WitnessesAreSound`: while no call of Start or Stop overlaps another, folds are one chain,
  one loop folds and Stop returns.

### Bounds, and why they are enough

- Two sessions, two callers and one fleet give every race of the session table: a
  constraint or a check relates two rows at a time. Two robots with two checks and
  two workers are the smallest matrix in which two robots' items are in flight
  together, one robot's items are too, and one item still waits.
- One crash and one fault (`MaxCrashes`, `MaxFaults` and their like, `MaxHookFaults`,
  `MaxEvFaults`, `MaxTokenFaults`, `MaxPeerFaults`, `MaxAborts`) place a failure at every
  point. Two requests (`Clients`, `Reviews`, `Callbacks`, `RobotCalls`, `Deciders`,
  `Askers`, `GateCalls`, ...) are enough where each reads once and writes once: a
  third meets a state that two have already produced.
- A buffer of one is full after one event; two publishers of two events can interleave
  evictions. `audit_chain` has room for the marker and one entry more, which two
  transactions fight over while the lock changes hands; `MaxEpoch = 2` is one change of
  leader. Longer chains and more transactions are covered by the proofs.
- Counters that only grow (`MaxTokens`, `MaxCredentials`, `MaxKeyEpoch`, `MaxSeq`,
  `MaxCustomers`, `MaxSnaps`, `MaxReports`, `MaxStarts`, `MaxPackTime`, `MaxCreated`, ...) are
  one more than the least value with which the properties have something to compare:
  a rotated key and its successor, a rotated token and the one after it. Every bound
  is in a guard and carries `bound` in its comment.
- `InsightRun`'s detectors, `EvalRules` and `Converter` enumerate their inputs: the
  durations of up to `MaxSamples` scans with values up to `MaxDuration`, which is more than the
  `MinAnomalySamples` an anomaly takes; in the runs over sessions `DriftWindow` and
  `MaxSessions` are 4 and 5, so that anomalies occur there too, of the `Readings` that are
  needed for one; all rules of two levels, all
  outputs of up to two lines. Redaction runs over every set of up to `MaxMarks` matches,
  of up to `MarkLength` bytes each, in a text of `TextLength`: three marks of which one may
  touch both others, or lie in them, are what merging can go wrong with.
- Evidence: one transaction of the server at a time (`EvCallers`), since SQLite admits one
  and only on PostgreSQL, where there is no backup, do stores race; those races are in the
  proofs and the further counterexamples (with two callers). One blob shows each
  interleaving of a backup with a store, a read and a power loss; `backup_walk` has two,
  because the second is what is lost.
- `CrossWitness`: two goroutines call Start and Stop, twice; once calls have overlapped the
  run follows them up to the first fold (`MaxRacedFolds`), after which nothing is claimed.
- `ForeignEvents = BusBuffer = 2`: the ends of two other scans fill the subscription of a slow
  client and push its own out. `MostToolCalls` is one more than `DefaultMaxToolCalls`.
- In a sum the inputs of a part (its backend, its provider's behaviour) are held to one
  value while another part moves. That only removes copies.
- Symmetry is used for instances and transactions in the audit runs, and in no run with
  fairness. `CHECK_DEADLOCK FALSE` is set for the bus and the sums, whose parts stop at
  their bounds. `ScanRun` has an explicit `Idle` step for the states in which it waits for
  its environment, and none other.

### Fairness

- `ScanRun!FairSpec`: each goroutine of `Run`, each worker and each Cancel that has
  begun is weakly fair: the Go scheduler runs what can run, an exec is bounded by its
  timeout, and a SQLite connection that is free goes to a waiter.
- `EventBus!FairSpec`: workers, publishes in progress, removals and Close; handlers return, as
  the bus itself assumes.
- `CrossWitness`: a call of Stop and a loop go on; the end of a loop is strongly fair
  because its `select` may be offered both a tick and the end again and again, and Go picks
  among ready cases with equal chances. The workers of `ScanProgress` are strongly fair in
  their exit for the same reason.
- `WebhookDelivery`: a dispatcher's steps and the passing of a retry's delay.
- `SshPool`: a command is strongly fair, since semaphores are channels with queues; the
  sweep ends and TCP gives up on a silent peer.
- `Lifecycle`: a stop's moves, both deadlines, and handlers of events, which write a few
  rows. Jobs, deliveries, insights and requests may hang.
- `ReplicationSetup`: the sweep is a cron job.

Faults, crashes, cancellations, operators and new work are never obliged to happen.
`Leadership` and `AuditChain` have no liveness property: with a session that may be lost
at any tick nothing obliges an election to succeed.

## Findings

1. `scan_announce`: `finalize` decides in one transaction and transitions in a
   second one. A Cancel between them makes the transition invalid, `Run` returns the
   error before publishing, and no subscriber hears that the scan ended. (Sessions
   without checks end on a path of their own, which the property leaves out.)
2. `audit_epochs`: the design note wants each append to compare its epoch with the
   database; `Append` asks its own process only. Until its next heartbeat an instance
   that has lost the lock appends behind its successor.
3. `backup_walk`: the walk over `evidence/` ends at the first listed file that is gone when
   it is looked at, and its caller takes that for a directory that is not there. Reading a
   corrupted blob puts it away; if that happens between the two, the backup succeeds
   without the blobs that come after it, whose rows are in its database.

### Further counterexamples

These are statements of the repository, or what its comments lead a reader to expect,
that TLC finds violated in the models; each is defined with its reference in
the module named, and can be checked by putting it into the `.cfg` of the run its module
belongs to, in place of that run's properties.

| Module | Definitions | In short |
|---|---|---|
| `ScanRun` | `CancelStopsDispatch`, `TerminalStatusIsFinal` | a Cancel before the cancel function is registered answers 200 and stops nothing; on PostgreSQL two terminal transitions both commit (`Serialized = FALSE`) |
| `AuditChain` | `VerifyClean` | a pack seeded before the marker is found is hashed with the old version |
| `KeyRotation` | `BundleVerifies` | a bundle of version 2, the default, is refused by the tool when it reaches behind the hash version marker or holds the placeholder of a key |
| `AuthTokens` | `ReuseRevokesAll`, `LiveKeyAuthenticates` | the revocation is rolled back with the request that was refused; a key is unknown while another tenant has one of its prefix |
| `AccessControl` | `FleetRolesStayInTheirFleet` | a role bound for a fleet (`tenant.go:137`, `jwt.go:35`, `rbac_fleet_integration_test.go:322`) counts in every fleet, since a sign-on signs its name only |
| `Onboarding` | `AnswerIsTrue`, `SeededOnce` | two reviews both decide on PostgreSQL; two seeds both find the directory empty |
| `SsoLogin` | `MappedScopeIsHeld`, `FailedLoginIsAudited` | a new user has the default role for the whole tenant; the entry about a failed login is rolled back with it |
| `SsoLogin` | `SlashIsIgnored`, `CompletedIsSomebody` | an issuer that ends in a slash is never believed; a callback without a code completes |
| `RegionFailover` | `FenceTellsThemApartAlways` | the role is stored before the epoch |
| `RegionFailover` | `OnePrimary`, `WritesFollowTheRole`, `HeartbeatsGrow` | a failover from a replica leaves two primaries, and no process is told |
| `CrossWitness` | `RefusedOnlyWhileActive` | a scheduler whose context ended cannot be started again |
| `CrossWitness` | `OneLoop`, `StopNeverPanics`, `FoldsAreChained` (the last with `MaxRacedFolds = 1`) | a Start between the two lines of a Stop replaces the channels (`scheduler.go:18`, `:107-110`): two loops fold on, and the fold chain forks |
| `WebhookDelivery` | `DeadLetterIsEarned` | a database that is briefly gone makes a delivery dead |
| `ScanProgress` | `EveryStreamEnds`, `LateClientIsTold`, `ProgressGrows` | the handler waits for an end that was never published or was pushed out; a client that comes late hears nothing; progress goes back |
| `SshPool` | `HostWithinItsLimit` | idle connections hold no slot, and each credential has a stack of its own (`pool.go:211`) |
| `ReplicationSetup` | `StartsAreIdempotent`, `YoungSlotsAreKept`, `StandbyCanReturn` | a second start empties the publication; the age of a slot is that of the primary, which has none |
| `Lifecycle` | `InsightsAreDrained`, `EnvironmentIsHeard`, `LagIsPolled`, `TpmIsAskedByName`, `FailedStartLeavesNothing`, `JobsOnlyOnTheLeader`, `WritesOnlyOnTheLeader` | the bus does not wait for a cancelled subscription; the flag's default hides its environment variable; the collector ends with Bootstrap's context; the report key is asked for by path; failing starts leave resources open; jobs run before the gate is set, and with Patroni writes have no gate |
| `FleetSchedule` | `AcceptedScheduleIsRegistered`, `ReconcileFollowsPolicy` (with `Servers = {i1}`) | a schedule with a space before it passes the validation and not cron; two requests reconcile in the other order |
| `DemoSeed` | `ExitZeroIsWhole` | five sessions of any status are taken for done |
| `RobotCredentials` | `LinesAreTheFiles`, `ImportEnds` | a key of two lines shifts the numbers; a reader's error is met again for ever |
| `InsightRun` | `OfTwoNoneFallsBehind` | of ratios 0.1 and 0.2 the first is below their mean less their deviation, as float64 rounds them (`peer.go:96-113`) |
| `InsightRun` | `FindingsAreRecorded` | a summary's prefix hides others; on PostgreSQL the duplicate check is a syntax error |
| `AdvisorAsk` | `DefaultGuardsTheCost` | the cost guardrail of `advisor.go:221` is a default: a request may name any number of tool calls (`handlers/advisor.go:133`) |
| `AdvisorAsk` | `PartialAnswersAreAudited` | the partial answer of an Ask that used up its tool calls is written nowhere |
| `LicenseQuota` | `QuotaHolds`, `DayIsCountedWhole` | gate and creation are two transactions; a session made in the first second of a day is compared as text and not counted |
| `Reports` | `PrintedAnchorIsTheSignedOne`, `OwnedSnapshotIsFound` | the document is printed before it is anchored; the list is cut |
| `Reports` | `OnlyWholeBundlesPass` | the signature covers the document only, and any anchor that parses passes (`bundle.go:40`, `handlers/report.go:105`) |
| `PackStore` | `UpgradesAreSeeded` | on PostgreSQL the first known pack ends the seeding |
| `Converter` | `PermIsMoreRestrictive`, `MoreRestrictivePasses` | modes are compared as numbers (`cis.go:941`): 0606 passes for 0640; 0004 does not, since too few digits of it are printed |
| `Converter` | `RobotsUidMinIsUsed`, `AnyLocaleComparesEqual` | UID_MIN is never set, so it is 1000; the robot sorts system calls by its locale, the converter by bytes (`cis_auditctl.go:152`) |
| `Converter` | `EveryCutCommandIsWhole`, `ManualIsJudgedByItsPattern` | the rest of a quoted pattern is lost where a line begins with a - or a # (`cis.go:607`); a general assertion comes before the pattern written for the kind, and CIS 4.3.3 is judged by silence (`cis.go:161`, `:195`) |
| `Converter` | `SuccessKeepsFixtures` | a directory that cannot be looked at counts as absent (`main.go:226`): convert succeeds, and the fixtures are gone |
| `Converter` | `FixturesAreKept`, `ArchivesLoad` | a step that fails after the directory is removed loses the fixtures; a conversion puts the generated check of a fixture's id beside it |
| `EvidenceStore` | `GoodIsNeverPutAway`, `ConcurrentStoresAgree`, `RestoreIsComplete` | a second reader quarantines the repaired blob; the loser of a race on PostgreSQL cannot read in its failed transaction; what a failed backup left behind is listed and restored like any other |

Smaller divergences that no property is about: `scope_resolver.go` says at lines 71 and 89
that the options come first and the URL last, while `extractFleetID` asks the URL first;
`RequireLicensedFeature` is mounted on no route; a flag for all tables that is given yields to
its environment variable, which the comment in `main.go` has for a default only, and the
variable of `--replication-slot-cleanup-prefix` is never heard, since the flag has a default
that is not empty; healthz names a role only with the lock of the election, not with
Patroni; and it says `shutting_down` only when `Shutdown` is over. Two of the actions that
`soc2_mapping.go` (lines 21 to 23) takes for written, `pack.lifecycle.deprecated` and
`pack.lifecycle.retired`, are states that packs do not have; `CoverIsMeasured` states it
the way it is.

Hazards of the code that no model reaches, and that `PROJECT.json` therefore does not
list: an enqueue that fails ends the fan-out of `Publish` (`bus.go:64`); the seq of the
system tenant's marker selects the hash version in every tenant's chain
(`repo_hash_version.go:86`); a session left by a process that died stays live
(`scan/sqliterepo/repo.go:692`); a preload that fails is swallowed
(`handlers/scan.go:150`); an event whose enqueue fails is lost (`eventbridge.go:150`).

## Proofs

Each theorem is about every value of the constants that satisfies the named assumptions
(`SizeAssumption`, `NullAssumption`, `BusAssumption`, `LeadershipAssumption`,
`AuditAssumption`, `KeyRotationAssumption`, `SegmentsAssumption`, `RegionAssumption`,
`PatroniAssumption`, `ReportsAssumption`, `SuggestionsAssumption`,
`ComplianceAssumption`, `ReleasesAssumption`, `WebhookAssumption`, `QuotaAssumption`,
`AccessAssumption`, `OnboardingAssumption`, `SsoAssumption`, `ScheduleAssumption`,
`SeedAssumption`, `RobotAssumption`, `ImportAssumption`, `AdvisorAssumption`,
`AuthTokensAssumption`, `InvitationsAssumption`, `OidcAssumption`, `PoolAssumption`,
`ProgressAssumption`, `WitnessAssumption`, `LifecycleAssumption`, `RedactionAssumption`,
`InsightAssumption`, `EffectivenessAssumption`): sizes
are natural numbers, positive where the code replaces a zero by a default or a run needs
one, sets that are counted are finite, the null values are not members of the
sets, and a release has at least one archive (`ReleasesAssumption`).
TLC evaluates them in every run. TLC has also checked each inductive invariant, as an
invariant of the instance its run uses or of one somewhat larger, before it was proved.

**ScanRun_proofs.** `TypeCorrect` is inductive as it stands. For the life cycle the
argument is about what a transaction has read. On SQLite the set `openTx` has at most
one element, every place in a transaction owns its element, and what it has read
still holds; that is `TxInv`, and it is inductive because every write to a session's
row happens in a transaction that excludes the others. `ReadsHoldCorrect` says so by
itself, and from it follow `TerminalFinal`, `AggregateFinal` (no result lands after
the recount), `CancelReplyCorrect`, and `Refinement`: each step of `ScanRun` is a step
or a stutter of `ScanSession`, whose guard is exactly what the read established.
`OneLiveCorrect` holds on either storage, since it needs only `FleetFree` at
creation and the index at the running transition.

The other three count and order work items.

- `HealthWindowCorrect`, on either storage: failures recorded for a robot and its execs
  still under way are together at most `HealthFailureThreshold + WorkerLimit - 1`
  (`HealthInv`), because an exec begins only below the threshold, and then at most
  `WorkerLimit - 1` others are in flight. The failure count alone is not inductive.
- `CompletedCovers`: `ItemInv` ties each place of an item to its result, `CountInv` the
  counters of the row to the results, `PlaceInv` the workers to the run, and `MatrixInv`
  says what may have become of an item once the workers are drained: one is dropped only
  under a session that has ended already, so that a session which goes on to complete has
  been through all of them.
- `EndAnnouncedLast`: until a run announces, only progress was published of its session
  (`AnnounceInv`), and by `PlaceInv` no worker is left to publish after it.

**Delivery_proofs.** The event bus, the webhooks, the pool of SSH connections and the
stream of a scan's progress. Of the bus, `IInv` adds to the types: `TopicIsLive`, a topic
lists the live subscriptions, each once; `PublisherInv`, where a publisher stands in the
list it took a snapshot of; `OrderInv`, what a channel holds, what its handler has been
given and what the publisher still has to hand over are in the order of publishing;
`BlockInv`, what entered the channel of a Block subscription was handled or waits there,
and a publisher that is past such a subscription has entered its event; `CloseInv`, a
worker that Close has waited for has ended. From them follow `OrderCorrect`,
`DeliveryCorrect` and `CloseWaitsCorrect`, whichever case of each `select` is taken and
wherever evictions and cancellations come between. `OrderPreserved` alone is not
inductive: an eviction between `TrySend` and `PushNew` is harmless only because what the
publisher holds is newer than the whole channel.

Of the webhooks, `DeliveriesCorrect`: `TickInv` says of every item a dispatcher
holds, in its batch or after its post, that the row exists, that it counted fewer than
`MaxRetryAttempts`, and that the posts it counts were made. A mark that overwrites a later
count of another dispatcher therefore writes a number that was posted, too, and a
success is written only by who had the answer. `DeliveryInv` keeps an enqueue away from
rows that exist.

Of the pool, `PoolIsSafe`: what the run checks is inductive but for three facts. A login
is no older than the key it is kept under and than what its command was begun with
(`LoginsAreFresh`), wherever it waits between a dial, a stack and a second attempt; nothing
is idle once the pool is closed; and what was opened has ended, is idle or is in use
(`Conserved`), of which a release, a sweep that closes some of a stack, and a Close in
between each move one at a time. The counts are cardinalities of sets of commands and of idle
connections, so that most of the proof is about what one move does to these.

Of the stream, `StreamsAreSafe`: an event anywhere on its way to a client, in a queue of the
bus, held by a worker, in the channel of messages or about to be written, may be told now
(`Told`): an own one counts no more than is recorded, and that of the end counts all of it.
What may be told stays so, because a scan that has ended records nothing more
(`ScanCounts`). `EndCoversAll` alone is not inductive: it says nothing of what is still on
its way.

**AuditChain_proofs.** `IInv` has four parts beside the types (`TypeCorrect`).

- `LeadInv`: a session that answers implies the lock on the server (`LockInv`), so
  at most one instance draws and records epochs; an epoch once recorded keeps its
  owner, and what an instance has in `token` or `epoch` is recorded as its own
  (`EpochInv`). `LeadershipCorrect` follows.
- `TxInv`: at most one open transaction has rows of a given tenant. This is what
  the primary key gives, and it needs `ChainInv`: two transactions that insert into
  one chain would both insert the number after the committed head.
- `ChainInv`: `Fresh`, a head that was read is the committed one or an older one of
  smaller number; `Pending`, the committed rows with those of an open transaction are
  an intact chain to that transaction's own head; `Signable`, the head a checkpoint
  is signed over is a committed entry. A commit then installs a chain known to be
  intact, and makes every other head that was read older. `ChainIntactCorrect`,
  `CheckpointsCorrect` and `AppendOnlyCorrect` (the refinement of `AuditLog`) follow.
- `WriterInv`: an epoch carried by a transaction or an entry was issued to the
  instance it runs on, and `LeadersStable` keeps it so. `EpochNamesWriterCorrect`
  follows.

`ChainIntact` alone is not inductive: a stale `tx.head` and an open transaction's
rows decide what the next commit does. `LawfulLeaderIsNewest` alone is not either: the
next leader's epoch is drawn several steps before it is stored.

**AuditHistory_proofs.** The histories that a chain is judged by, its witnesses, and the
dashboard that counts its entries.

- `KeyHistoryCorrect` (KeyRotation): the table of key epochs is `1..n`, each with one
  key, and only the newest is not revoked (`RowsInv`); what a round has read, and
  what its instance signs with, was issued (`RoundInv`); an abort that was taken in time
  finds its flag raised until the round has tested it, and none is on record for a round
  past that test (`StopInv`); the marker of the hash version is the second entry
  (`MarkerInv`), which decides what each verifier makes of a range.
- `SegmentsCorrect` (AuditRotation): segments follow one another (`SegmentInv`,
  `OrderInv`) and cover every entry up to the end of the latest (`CoverInv`); the hot
  table is what lies behind one of the segments that may be collected (`HotInv`);
  a rotation under way has taken exactly what comes after the latest segment, and
  the file it has put is that of its own attempt (`RotatingInv`), whatever an earlier
  attempt has left under the same number. `NothingLost` alone is not inductive: what
  the collector deletes is covered only because of what the rotation had taken.
- `FoldsAreOneChain` (CrossWitness), for any goroutines that call Start and Stop, until two
  calls overlap: until then one of them at most is inside a call (`OneCaller`), and a loop is
  started only when all others have ended (`OwnerInOrder`), so that
  what a tick has read of the last hash is still there when it writes the next
  (`TicksInOrder`), and the n-th fold is computed as whoever verifies it does and has n
  parts (`HashesInOrder`). That last is what makes the place of a fold one of the things
  its hash tells apart; the rest of `VerifierAgrees` is that sorting by tenant loses and
  adds nothing (`ByTenantIs`).
- `DashboardCorrect` (Effectiveness): a category counts an event once for each of its
  sub-controls that names the action, so that the events inject into what is counted
  (`EveryEventCounts`), a window into a wider one (`WiderCountsMore`), and its sub-controls
  are those covered and the gaps (`CoveredOrGap`). `CoverIsMeasured` has neither constants nor
  variables: TLC's evaluation of it is its proof.

**RegionFailover_proofs.** `TimelinesCorrect`: two instances that lead carry different
timelines because a timeline has one leader whoever says so (`OneLeaderInv`): Patroni,
an answer that an instance has not stored yet, or an instance between its polls. `SeenInv`
orders the timelines stored, answered and begun, and `HalfInv` covers the moment in which
the role is stored and the timeline is not. `FailoverCorrect`: what the run checks is
inductive together with the types of the rows.

`ReplicationIsSafe`: what a start does to a publication and a cleanup to the slots, for any
tables; beside the types only that nothing streams from the standby's slot without a
subscription (`SetupInv`).

`StopIsSafe`, the life of one server: what closes the database is the eighth of nine steps,
and `DrainedBeforeClose` is inductive only with what the steps before it have achieved while
there was time (`StepsAreDone`), with the database being open up to that step
(`StoreIsOpen`), and with a server that has no requests before it serves or when its start
failed (`NoRequests`). The settings of flags and adapters are decided case by case.

**Content_proofs.** Reports, compliance, evidence and packs. `ReportsCorrect`: a call
carries its entries, its anchor and its signature until it commits (`CallInv`), and is
alone with uncommitted entries (`AloneInv`), which is why the head it has read is still
where its entries land. A committed report has its document, signature and two entries
side by side (`RowInv`), no entry is without its report (`EntryInv`), and a bundle carries
the key it was signed with (`BundleInv`), so that the loss of the server's key changes
nothing about it.

Compliance. `ComplianceCorrect` puts two theorems together. `SnapshotsCorrect` needs, beside
where calls and entries stand, what a score is: by `ScoreIs` it is a fraction of two
cardinalities, the controls that have a pass counted once more where they have no failure,
over the controls that have either. `FailuresDoNotRaise` and `PassesDoNotLower` compare such
fractions of a set of results and of a larger one. `CallsAreAlone` is what makes the anchor
of a snapshot the entry right before its own on SQLite; on PostgreSQL only
`CallsHaveTheirIds` is left, and only what it gives is claimed. `SuggestionsCorrect`: each
control's suggestion has one entry that made it (`MadeOnce`) and shows its last decision
(`ShowsLastDecision`); a decision under way finds it pending on SQLite
(`DecisionsAreAlone`), and on PostgreSQL only finds it there.

Evidence. `EvidenceCorrect`: that a row has its bytes (`RowsHaveBlobs`) is not inductive,
since a name that is not synced would do for it and is gone after a power loss. What is:
where every name was synced when it had to be, the shard it is in included, each row's file is synced or was put away
as rotten (`RowsAreSynced`), a name not synced yet is that of a transaction which still has
to (`NewIsPlaced`), and what a transaction has found on disk is still there
(`WhatItFound`), because on SQLite it is alone (`StoresAreAlone`). A backup has the files of its
snapshot, or still has to look for them (`WalkCovers`); a restore follows one archive
(`RestoreFollows`), so that what is restored is closed as the archive was. Of a backup whose
walk was ended by a file that was gone, the theorem says only that this file was rotten.

Redaction. `RedactionCorrect`, for any matches in any text: the marks merged so far are
apart (`MarksApart`), cover every mark they were made from under a type at least as specific
(`Covers`), and nothing else but single bytes between two (`Fills`); the last of them begins no
later than the latest mark (`EndsWith`), because the marks are sorted, and that is why the
next one needs to be compared with it alone. Copied is what lies before the cursor and
under no mark (`CopiedTo`).

Packs. `PacksCorrect`: a seeding goes through the archives of its release in order and, on
SQLite, has installed those before that are signed by a trusted key (`SeedingIsInOrder`);
when it ends at a damaged one, those before it are all that could arrive. Each row is one
archive (`RowsAreOfArchives`), which `LoadIs` derives from the order in which keys are tried,
and has one entry (`InstalledOnce`). A move under way is from the latest state on SQLite
(`MovesAreAllowed`, `MovesAreAlone`), which makes every history a walk.

**Access_proofs.** Who is let in, and with what rights: `NobodyElseCorrect` is the
property of the run, put together from a theorem for each way in.

- `RightsCorrect`: the matrix is the table of the tests, a decision is what that table and
  the token's bindings give for the fleet of the request, that fleet is the one the route
  names or what the named resource is about, and a token allows what it did when it was
  signed; for any fleets and bindings. What an administrator may give away is not modelled.
- `LoginsCorrect`, `ApiKeysCorrect`, `InvitationsCorrect`, `OnboardingCorrect`: a row is
  changed only by the transaction that has read it in the state the guard asks for. On
  SQLite the invariants say that nobody else is under way; on PostgreSQL they keep only
  what the guarded UPDATE or the unique index itself gives.
- `SignOnCorrect` and `IdentitiesCorrect`: a flow is consumed by one callback, the
  identity that comes out is the one the provider vouched for in that flow, and it lands in
  the tenant that the flow was begun for, whatever keys rotate and tabs are mixed up.

**Fleet_proofs.** Six components of the run `fleet`.

Quotas. `QuotasCorrect` is the property of the run for any set of
tenants, requests, limits and days. Its inductive invariant `QuotaInv` adds to the two
bounds what makes them so: a request that has passed a gate has passed one
(`OneCreationEach`), so that a creation takes one away from those that may still exceed
the limit, and a server that is down has passed nobody (`DownIsQuiet`), so that a new
licence starts with nobody on the way. `OvershootCorrect`: usage never exceeds the limit
by more than what was there before, what was created without asking, and the requests
that had passed; `ExpiryCorrect`: after the expiry only those are still served;
`PageCorrect`: the page shows as used up exactly what the gate refuses. The counting is by
`FS_AddElement`, `FS_RemoveElement` and `FS_Subset` of `FiniteSetTheorems`.

Schedules. `SchedulesCorrect`: `CronInv` says that a cron job has a key that is registered
for its fleet, each once; `RequestInv` and `StartInv` say of a request between the steps of
its Reconcile, and of a tick, what it has read and whether another has come between
(`disturbed`); `BootInv` says the same of the rows that a start has listed. That the job of
an undisturbed fleet is the one of its row is not inductive without them: the row is written
a step before the job.

Demonstration data. `DemonstrationCorrect`: `RowsInv` counts the rows of a tenant against
where its runs stand, `AloneInv` adds what holds while a tenant's runs come one after
another (how many sessions there are, which of them is open, which drifts) and `SmoothInv`
what holds while none of them failed and nobody meddled.

Robots. `RobotsCorrect`: a credential is one robot's for ever (`CredentialInv`), so that a
rotation or a deletion that comes late revokes nobody else's; what a dial has read is
still on record, because a row is never removed (`KeyInv`); on SQLite a request is alone
and what it has read still holds (`AloneRows`). `LiveRobotHasCredential` alone is not
inductive: a late rotation revokes what it has read. `ImportsCorrect`: a result lies behind
the line the parser is at, and its record among those that were read (`ResultInv`).

The advisor. `AdvisorCorrect`: while an Ask is under way, what its transaction has
written is one question, a turn for each round of tools and audit counts that fit them
(`CallsAreCounted`), a new conversation is its own (`NewAreNew`), and on SQLite its turns
continue the numbers on record (`AsksAreAlone`). A commit adds such a block to the rows, so
that each sum over the rows grows by the sum over the block: a sum is the number of the
pairs (turn, unit), and `TotalConcat` and `TurnsInConcat` say what appending does to it.
`BudgetFits` leaves room for every request that is admitted or asking, of one Ask's most
tokens each, which is what makes the overshoot inductive; that an Ask has such a most is
`CallCounts`.

Insights. `InsightsCorrect`, for any robots, sessions, triggers and dismissals: no two
rows that are not dismissed are of one finding, and each row has its audit entry
(`InsightInv`), since a run reports only what is unreported and each of it once; and drift
is judged by the two sessions that completed last. For that `SortedIs` says what sorting
by a key with distinct values returns, `EachRankOccurs` that each rank is somebody's, and
`WindowIs` that the window a run reads is the end of the completed sessions in the order
of their completion (`SessionsAre`), whatever the order of their starts was.

Checked by TLC only:

- everything under fairness (`RunsEnd`, `NothingHangs`, `DeliveriesSettle`, and the
  liveness within `ConnectionsAreSound`, `StartsAndStopsAreClean` and
  `WitnessesAreSound`), which is out of the prover's reach;
- `VerdictsAreSound`, whose rules, conditions and outputs are evaluated by recursion, which
  would take an induction over data;
- of `ConnectionsAreSound` that a credential has at most `PerHostLimit` connections
  (`StacksWithinTheLimit`): the theorem counts slots and connections, not stacks;
- of `FindingsAreSound` what the detectors compute (`DetectorsAreSound`): means, deviations and
  percentiles are sums over windows, by folds, for the same reason.

`TypeOK` of `ScanRun` and `AuditChain` is proved and therefore in no run.

## Not modelled

- Components that are pure input and output: telemetry, mail, the file key store, the
  HTTP client; decoding, validation and encoding of the API beyond the handlers that make
  more than one decision; the command line client; the web interface.
- The enterprise add-ons other than cross witnesses: robot identity, cross-validation of
  fleets, the wasm runtime, second hashes and selective disclosure are libraries of pure
  functions or of external runtimes.
- Storage is no component of its own: its transactions are modelled where they are
  used. The operating system, PostgreSQL, Patroni, identity providers, language models and
  the SSH servers are environment.
- Of modelled components: spans, payloads, envelope filling and metrics; the text of
  reports, packs and CIS benchmarks, of which the models keep the shapes that decide
  a verdict; passwords, ciphers and signatures, of which they keep who can make them;
  queries that only read; the object store behind audit rotation; the dump of cross
  witnesses; streaming and costs of language models; the SSH pool with `IdleTimeout` 0,
  which the server does not use; what a flag's value does beyond choosing what is built. The
  rest is named in the notes of `PROJECT.json`.
- A sequence number never overflows: a bound caps it instead.

What would come next: what verdicts and detectors mean, as theorems, with a prover that can
do induction over rules and windows.
