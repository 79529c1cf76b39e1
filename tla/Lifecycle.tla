------------------------------- MODULE Lifecycle -------------------------------
(***************************************************************************)
(* The life of one server process, cmd/rosshield-server: its settings,     *)
(* Bootstrap, the work it does while it serves, and Shutdown.              *)
(*                                                                         *)
(* Bootstrap opens the resources one after the other; the branch of each   *)
(* step that fails closes some of them.  The scheduler, the dispatcher of  *)
(* webhooks and the subscribers work as soon as they are there, while      *)
(* Bootstrap goes on.  Shutdown stops them one by one and waits, under one *)
(* deadline that the stop of the HTTP server has already drawn on.         *)
(***************************************************************************)
EXTENDS Naturals, Sequences, FiniteSets

CONSTANTS
    MaxWork         \* bound: kinds of work under way at once, scans aside

ASSUME LifecycleAssumption == MaxWork \in Nat

VARIABLES
    settings,   \* flags and environment, as the operator set them
    phase,      \* "booting", "failing", "failed", "serving", "stopping", "exited"
    at,         \* the next step of Bootstrap or of the stop
    held,       \* what is open or running
    work,       \* kinds of work under way
    bootCtx,    \* the 30 seconds of bootCtx: "running", "over"
    deadline,   \* the 10 seconds of shutdownCtx: "running", "over"
    haRole,     \* what the RoleProvider answers
    strays      \* jobs and writes that began on a follower

lifeVars == <<settings, phase, at, held, work, bootCtx, deadline, haRole, strays>>

--------------------------------------------------------------------------------
(* Settings. *)

Unset == ""

\* resolveEnvFallback: a flag that is not empty wins.
FromEnv(flag, env) == IF flag # Unset THEN flag ELSE env

\* --ha-rp is "e25" unless the operator gives it.
HARP(s) == FromEnv(s.harpFlag, s.harpEnv)

\* keyHandle: a path for the file store, a bare name for the TPM, whose
\* validateHandle refuses a path.  The report key is always asked for by path.
Handle(s, key) ==
    IF s.keystore = "tpm" /\ key # "report" THEN "name" ELSE "path"

KeyLoads(s, key) == s.keystore = "tpm" => Handle(s, key) = "name"

\* Bootstrap refuses HA on SQLite before anything is opened.
Legal(s) ==
    /\ s.ha => s.driver = "postgres"
    /\ s.lag => s.driver = "postgres"
    /\ ~s.ha => s.harpFlag = "e25" /\ s.harpEnv = Unset   \* not looked at

Settings ==
    {s \in [driver : {"sqlite", "postgres"}, keystore : {"file", "tpm"},
            ha : BOOLEAN, lag : BOOLEAN,
            harpFlag : {"e25", "patroni"}, harpEnv : {Unset, "patroni"}] : Legal(s)}

(* Where a setting comes from.  The operator may have left a flag out, given  *)
(* its default, or another value; the variable of the environment may be      *)
(* unset, hold a good value, or one that does not parse.                      *)

\* How main decides each flag: from the flag alone; with a variable that an empty
\* flag, a false one or a zero leaves to; with one that gives the default; with one that
\* beats a flag at its default; with one that beats the flag.
Flags ==
    [alone |-> {"metrics-addr", "data-dir", "storage", "webhook-tick-interval", "email-provider", "email-smtp-host",
                "email-smtp-port", "email-smtp-user", "email-from", "public-base-url", "ha-enabled", "ha-lock-id",
                "ha-heartbeat-interval", "ha-leader-id", "ha-advertised-addr", "ha-patroni-poll-interval",
                "ha-patroni-request-timeout", "keystore", "backup-schedule", "backup-dir", "backup-skip-evidence",
                "replication-slot-cleanup-min-inactive-age", "replication-lag-metric-interval",
                "check-timeout-default-sec"},
     text |-> {"storage-dsn", "llm-provider", "llm-model", "llm-base-url", "llm-api-key", "license-token",
               "license-pubkey-hex", "email-smtp-password", "ha-rp", "ha-patroni-url", "ha-patroni-local-hostname",
               "replication-publication-name", "replication-subscription-name", "replication-primary-conn-string",
               "audit-rotation-schedule", "replication-slot-cleanup-schedule", "replication-slot-cleanup-prefix",
               "cosign-binary", "cosign-identity", "cosign-fulcio-url", "cosign-rekor-url", "audit-cold-backend",
               "audit-s3-bucket", "audit-s3-region", "audit-s3-prefix", "audit-s3-endpoint", "audit-s3-sse",
               "audit-s3-kms-key-id", "otel-endpoint"},
     parsed |-> {"llm-timeout", "llm-max-tokens", "llm-keep-alive", "llm-auto-pull", "replication-auto-setup",
                 "replication-slot-cleanup-dry-run", "replication-lag-metric-enabled", "cosign-enabled",
                 "audit-s3-force-path-style", "audit-s3-lifecycle-enabled", "audit-s3-lifecycle-transition-ia-days",
                 "audit-s3-lifecycle-transition-glacier-days", "audit-s3-lifecycle-transition-deep-archive-days",
                 "audit-s3-lifecycle-expire-days", "otel-enabled", "otel-insecure"},
     default |-> {"addr"},
     atDefault |-> {"otel-exporter", "otel-sampling"},
     first |-> {"replication-publication-all-tables"}]

\* Flags of resolveEnvFallback whose default is not empty.
Preset == {"ha-rp", "replication-slot-cleanup-prefix"}

Given(given) == IF given = "other" THEN "flag" ELSE "default"

\* What main hands to Bootstrap for a flag of one kind.
Decided(kind, preset, given, env) ==
    CASE kind = "alone"     -> Given(given)
      [] kind = "text"      -> IF given = "other" \/ preset \/ env = "unset" THEN Given(given) ELSE "env"
      [] kind = "parsed"    -> IF given = "other" \/ env # "good" THEN Given(given) ELSE "env"
      [] kind = "default"   -> IF given = "no" /\ env # "unset" THEN "env" ELSE Given(given)
      [] kind = "atDefault" -> IF given = "other" \/ env # "good" THEN Given(given) ELSE "env"
      [] kind = "first"     -> CASE env = "unset" -> Given(given) [] env = "good" -> "env" [] OTHER -> "refused"

--------------------------------------------------------------------------------
(* Adapters that the settings choose, and the choices Bootstrap refuses.     *)

Setups ==
    [storage : {"", "sqlite", "postgres", "unknown"}, dsn : BOOLEAN, ha : BOOLEAN,
     replication : {"off", "primary", "standby"}, autoSetup : BOOLEAN, conn : BOOLEAN, cleanup : BOOLEAN, lag : BOOLEAN]
Adapters ==
    [keystore : {"", "file", "tpm", "unknown"}, device : BOOLEAN, llm : {"", "local", "anthropic", "unknown"}, apiKey : BOOLEAN,
     email : {"", "noop", "smtp", "unknown"}, host : BOOLEAN, otel : BOOLEAN, endpoint : BOOLEAN]

\* openStorage; the lock of E25 and the set-up of replication ask for PostgreSQL too.
OpensStorage(c) == c.storage \in {"", "sqlite"} \/ (c.storage = "postgres" /\ c.dsn)
OnPostgres(c) == OpensStorage(c) /\ c.storage = "postgres"
BuildsHA(c) == c.ha => OnPostgres(c)
SetsUpReplication(c) ==
    c.replication # "off" /\ c.autoSetup => OnPostgres(c) /\ (c.replication = "standby" => c.conn)
\* Two services that only the primary has: without it the setting is passed over.
HasCleanup(c) == c.cleanup /\ c.replication = "primary" /\ OnPostgres(c)
HasLag(c) == c.lag /\ c.replication = "primary" /\ OnPostgres(c)
Boots(c) == OpensStorage(c) /\ BuildsHA(c) /\ SetsUpReplication(c)

Refused == "refused"
\* Bug: without its device, a TPM is replaced by the file store.
BuildKeystore_Fallback(a) == IF a.keystore = "tpm" /\ a.device THEN "tpm" ELSE "file"
\* buildKeystore: no file store takes the place of a TPM that is not there.
BuildKeystore(a) ==
    IF a.keystore \in {"", "file"} THEN "file" ELSE IF a.keystore = "tpm" /\ a.device THEN "tpm" ELSE Refused
BuildLLM(a) ==
    IF a.llm = "" THEN "noop" ELSE IF a.llm = "local" \/ (a.llm = "anthropic" /\ a.apiKey) THEN a.llm ELSE Refused
BuildEmail(a) ==
    IF a.email \in {"", "noop"} THEN "noop" ELSE IF a.email = "smtp" /\ a.host THEN "smtp" ELSE Refused
BuildOtel(a) == IF ~a.otel THEN "noop" ELSE IF a.endpoint THEN "otlp" ELSE Refused

--------------------------------------------------------------------------------
(* The steps of Bootstrap: what each opens, what its failure closes, and    *)
(* whether it can fail.  The settings leave some steps out.                 *)

Step(name, opens, closes, fails) ==
    [name |-> name, opens |-> opens, closes |-> closes, fails |-> fails]

StorageSteps ==
    <<Step("storage", {"store"}, {}, TRUE),
      Step("migrate", {}, {"store"}, TRUE),
      Step("otel", {"otel"}, {"store"}, TRUE)>>

KeySteps ==
    <<Step("keystore", {"keystore"}, {"store"}, TRUE),
      Step("platform", {}, {"keystore", "store"}, TRUE),
      Step("jwt", {}, {"keystore", "store"}, TRUE),
      Step("scheduler", {"scheduler"}, {}, FALSE)>>

\* Email, KEK, blob store and LLM adapter close the same two.
DomainSteps ==
    <<Step("domains", {}, {"scheduler", "store"}, TRUE),
      Step("report", {}, {"scheduler", "keystore", "store"}, TRUE),
      Step("knownHosts", {}, {}, TRUE),
      Step("scans", {"pool"}, {}, FALSE)>>

\* Insights, the advisor, and the packs that come with the server: a seed that
\* fails is logged, and the start goes on.
InsightSteps ==
    <<Step("insights", {"autorun"}, {}, FALSE)>>

\* Checkpoints, the hash version marker, key rotation, backups, rotation, and the
\* clean-up of replication slots.
JobSteps ==
    <<Step("jobs", {}, {"scheduler", "store"}, TRUE)>>

LagStep(s) ==
    IF s.lag THEN <<Step("lag", {"collector"}, {"scheduler", "store"}, TRUE)>> ELSE <<>>

WebhookSteps ==
    <<Step("webhook", {"dispatcher", "bridges"}, {}, FALSE)>>

LicenseStep ==
    <<Step("license", {}, {"scheduler", "store"}, TRUE)>>

\* The platform is built: replication set-up, and then the provider of the
\* role; their failure shuts the platform down.
RoleStep(s) ==
    IF ~s.ha THEN <<>>
    ELSE IF HARP(s) = "patroni" THEN <<Step("role", {"patroni"}, {"platform"}, TRUE)>>
    ELSE <<Step("role", {"manager"}, {"platform"}, TRUE)>>

BootSteps(s) ==
    StorageSteps \o KeySteps \o DomainSteps \o InsightSteps \o JobSteps \o LagStep(s) \o WebhookSteps
        \o LicenseStep \o <<Step("replication", {}, {"platform"}, TRUE)>> \o RoleStep(s)

--------------------------------------------------------------------------------
LifeInit ==
    /\ settings \in Settings
    /\ phase = "booting"
    /\ at = 1
    /\ held = {}
    /\ work = {}
    /\ bootCtx = "running" /\ deadline = "running"
    /\ haRole = "follower"
    /\ strays = {}

NextStep == BootSteps(settings)[at]

BootStep ==
    /\ phase = "booting" /\ at <= Len(BootSteps(settings))
    /\ NextStep.name \in {"platform", "jwt", "report"} => KeyLoads(settings, NextStep.name)
    /\ held' = held \cup NextStep.opens
    /\ at' = at + 1
    /\ UNCHANGED <<settings, phase, work, bootCtx, deadline, haRole, strays>>

BootFails ==
    /\ phase = "booting" /\ at <= Len(BootSteps(settings))
    /\ NextStep.fails
    /\ IF "platform" \in NextStep.closes
          THEN phase' = "failing" /\ at' = 1 /\ held' = held
          ELSE phase' = "failed" /\ at' = at /\ held' = held \ NextStep.closes
    /\ UNCHANGED <<settings, work, bootCtx, deadline, haRole, strays>>

BootDone ==
    /\ phase = "booting" /\ at > Len(BootSteps(settings))
    /\ phase' = "serving"
    /\ UNCHANGED <<settings, at, held, work, bootCtx, deadline, haRole, strays>>

BootCtxEnds ==
    /\ bootCtx = "running"
    /\ bootCtx' = "over"
    /\ UNCHANGED <<settings, phase, at, held, work, deadline, haRole, strays>>

\* Collector.loop returns when the context it was started with is done: the
\* one of Bootstrap.
CollectorEnds ==
    /\ "collector" \in held /\ bootCtx = "over"
    /\ held' = held \ {"collector"}
    /\ UNCHANGED <<settings, phase, at, work, bootCtx, deadline, haRole, strays>>

--------------------------------------------------------------------------------
(* Work. *)

Alive == phase \in {"booting", "failing", "serving", "stopping"}

Elected(r) ==
    /\ Alive /\ held \cap {"manager", "patroni"} # {}
    /\ haRole # r /\ haRole' = r
    /\ UNCHANGED <<settings, phase, at, held, work, bootCtx, deadline, strays>>

\* Each kind of work, and the engine it needs; a request may leave a scan
\* behind that nothing waits for.
Engine ==
    [job |-> "scheduler", delivery |-> "dispatcher", event |-> "bridges",
     insight |-> "autorun", read |-> "http", write |-> "http", scan |-> "store"]

RoleIsKnown == held \cap {"manager", "patroni"} # {}

\* runJob skips the tick of a follower, once the provider is set.
JobGate == RoleIsKnown => haRole = "leader"

\* RequireLeaderForWrites, which newMux mounts for the lock of E25 alone.
WriteGate == "manager" \in held => haRole = "leader"

Gate(kind) ==
    /\ kind = "job" => JobGate
    /\ kind = "write" => WriteGate
    /\ kind = "scan" => "write" \in work

Begins(kind) ==
    /\ Alive /\ Engine[kind] \in held /\ kind \notin work
    /\ kind # "scan" => Cardinality(work \ {"scan"}) < MaxWork
    /\ Gate(kind)
    /\ work' = work \cup {kind}
    /\ strays' = IF settings.ha /\ haRole = "follower" THEN strays \cup ({kind} \cap {"job", "write"}) ELSE strays
    /\ UNCHANGED <<settings, phase, at, held, bootCtx, deadline, haRole>>

Listen ==
    /\ phase = "serving" /\ "http" \notin held
    /\ held' = held \cup {"http"}
    /\ UNCHANGED <<settings, phase, at, work, bootCtx, deadline, haRole, strays>>

Ends(kind) ==
    /\ Alive /\ kind \in work
    /\ work' = work \ {kind}
    /\ UNCHANGED <<settings, phase, at, held, bootCtx, deadline, haRole, strays>>

--------------------------------------------------------------------------------
(* The stop: what each step switches off, and the work it waits for.  All   *)
(* waits but the one for the bridges end with the deadline.  EventBus.Close *)
(* waits for the subscriptions the bus still knows, and Cancel has taken    *)
(* that of the insight runs off its list.                                   *)

Stop(name, closes, awaits) == [name |-> name, closes |-> closes, awaits |-> awaits]

\* Bug: the database is closed before the scheduler.
Shutdown_StoreFirst ==
    <<Stop("bridges", {"bridges"}, {"event"}),
      Stop("dispatcher", {"dispatcher"}, {"delivery"}),
      Stop("autorun", {"autorun"}, {}),
      Stop("manager", {"manager"}, {}),
      Stop("store", {"store", "otel"}, {}),
      Stop("scheduler", {"scheduler"}, {"job"}),
      Stop("rest", {"pool", "keystore"}, {})>>

Shutdown ==
    <<Stop("bridges", {"bridges"}, {"event"}),
      Stop("dispatcher", {"dispatcher"}, {"delivery"}),
      Stop("autorun", {"autorun"}, {}),
      Stop("manager", {"manager"}, {}),
      Stop("scheduler", {"scheduler"}, {"job"}),
      Stop("rest", {"pool"}, {}),
      Stop("store", {"store", "otel"}, {}),
      Stop("keystore", {"keystore"}, {})>>

\* main stops the HTTP server first; Bootstrap has none yet.
StopSteps ==
    IF phase = "failing" THEN Shutdown
    ELSE <<Stop("http", {"http"}, {"read", "write"})>> \o Shutdown

\* Each call first stops the engine, and then waits.
Signal ==
    /\ phase = "serving"
    /\ phase' = "stopping" /\ at' = 1
    /\ UNCHANGED <<settings, held, work, bootCtx, deadline, haRole, strays>>

Expired == IF phase = "stopping" THEN deadline = "over" ELSE bootCtx = "over"

StopEngine ==
    /\ phase \in {"stopping", "failing"} /\ at <= Len(StopSteps)
    /\ StopSteps[at].closes \cap held # {}
    /\ held' = held \ StopSteps[at].closes
    /\ UNCHANGED <<settings, phase, at, work, bootCtx, deadline, haRole, strays>>

\* Bug: Scheduler.Close waits for its jobs alone.
Awaited_NoDeadline(s) == s.awaits \cap work = {}

Awaited(s) ==
    \/ s.awaits \cap work = {}
    \/ Expired /\ s.name # "bridges"

StopStep ==
    /\ phase \in {"stopping", "failing"} /\ at <= Len(StopSteps)
    /\ StopSteps[at].closes \cap held = {}
    /\ Awaited(StopSteps[at])
    /\ at' = at + 1
    /\ UNCHANGED <<settings, phase, held, work, bootCtx, deadline, haRole, strays>>

StopDone ==
    /\ phase \in {"stopping", "failing"} /\ at > Len(StopSteps)
    /\ phase' = IF phase = "failing" THEN "failed" ELSE "exited"
    /\ UNCHANGED <<settings, at, held, work, bootCtx, deadline, haRole, strays>>

DeadlineEnds ==
    /\ phase = "stopping" /\ deadline = "running"
    /\ deadline' = "over"
    /\ UNCHANGED <<settings, phase, at, held, work, bootCtx, haRole, strays>>

\* healthHandler: Shutdown says that it has run when it is over; before that the
\* database answers or does not, and only the lock of E25 gives a role.
Health ==
    [status |-> IF phase = "exited" THEN "shutting_down" ELSE IF "store" \in held THEN "ok" ELSE "degraded",
     role |-> IF "manager" \in held THEN haRole ELSE "none"]

--------------------------------------------------------------------------------
StopMoves == StopEngine \/ StopStep \/ StopDone

LifeNext ==
    \/ BootStep \/ BootFails \/ BootDone \/ BootCtxEnds \/ CollectorEnds
    \/ \E r \in {"leader", "follower"} : Elected(r)
    \/ Listen
    \/ \E kind \in DOMAIN Engine : Begins(kind) \/ Ends(kind)
    \/ Signal \/ StopMoves \/ DeadlineEnds

\* The stop runs on, both clocks run out, and an event is handled in the end: its
\* handler writes a few rows.  Jobs, deliveries, insights and requests may hang.
LifeFair ==
    /\ WF_lifeVars(StopMoves)
    /\ WF_lifeVars(DeadlineEnds)
    /\ WF_lifeVars(BootCtxEnds)
    /\ WF_lifeVars(Ends("event"))

--------------------------------------------------------------------------------
(* What Shutdown promises by its order: unless its time ran out, no job, no  *)
(* delivery, no event and no request is under way when the database is       *)
(* closed (bootstrap.go: WebhookDispatcher, Scheduler, EventBus, Storage).   *)
(* Nobody waits for scans, nor for insight runs: see InsightsAreDrained.     *)
DrainedBeforeClose ==
    phase \in {"stopping", "failing"} /\ ~Expired /\ "store" \notin held
        => work \subseteq {"scan", "insight"}

(* bootstrap.go says that the worker of the insight runs ends cleanly at     *)
(* EventBus.Close, because its subscription is cancelled first.              *)
InsightsAreDrained ==
    phase = "stopping" /\ ~Expired /\ "store" \notin held => "insight" \notin work

(* A stop ends, though any of the work it waits for may hang: the deadline   *)
(* ends each wait but the one for the bridges (main.go: 10 seconds).         *)
StopEnds == phase = "stopping" ~> phase = "exited"

(* bootstrap.go says that a Bootstrap that fails closes in reverse order     *)
(* what it has opened.                                                       *)
FailedStartLeavesNothing == phase = "failed" => held = {}

(* bootstrap.go says that a follower skips every cron tick.                  *)
JobsOnlyOnTheLeader == "job" \notin strays

(* RequireLeaderForWrites says that a follower refuses a write, and that only *)
(* a server without HA has no provider for it to ask.                        *)
WritesOnlyOnTheLeader == "write" \notin strays

(* The help of --ha-rp names ROSSHIELD_HA_RP as its environment variable.    *)
EnvironmentIsHeard == phase = "serving" /\ settings.ha /\ settings.harpEnv = "patroni" => "patroni" \in held

(* lagmetric polls every 30 seconds, not only within the first.              *)
LagIsPolled == phase = "serving" /\ settings.lag => "collector" \in held

(* bootstrap.go asks a TPM for its keys by bare names, the only ones that    *)
(* validateHandle accepts.                                                   *)
TpmIsAskedByName ==
    phase = "booting" /\ at <= Len(BootSteps(settings)) /\ NextStep.name \in {"platform", "jwt", "report"}
        => KeyLoads(settings, NextStep.name)

(* A request that the server still answers hears "ok" from healthz: while      *)
(* Bootstrap and Shutdown run, only a server that is out of time answers one    *)
(* without its database.                                                       *)
HealthIsHonest == "read" \in work => Health.status = "ok" \/ deadline = "over"

(* Whatever the operator and the environment say of a flag: a value other than *)
(* the default stands but for the one flag whose variable comes first, a       *)
(* variable is heard wherever one is named and no flag is given but for the    *)
(* two flags with a default of their own, and what does not parse is never     *)
(* taken for a number or a switch.                                             *)
EveryFlagIsDecided ==
    \A kind \in DOMAIN Flags : \A f \in Flags[kind], given \in {"no", "default", "other"}, env \in {"unset", "good", "garbage"} :
        LET r == Decided(kind, f \in Preset, given, env)
        IN /\ given = "other" /\ r # "flag" => kind = "first" /\ env # "unset"
           /\ given = "no" /\ env = "good" /\ r # "env" => kind = "alone" \/ f \in Preset
           /\ env = "unset" => r # "env"
           /\ env = "garbage" /\ r = "env" => kind \in {"text", "default"}

(* A server that starts has what it was asked for: the adapter that was named, *)
(* and of the services of a primary none without PostgreSQL.  What it passes   *)
(* over, it passes over because it is no primary on PostgreSQL.                *)
ServerIsAsConfigured ==
    /\ \A a \in Adapters :
         /\ a.keystore = "tpm" => BuildKeystore(a) # "file"
         /\ a.llm # "" => BuildLLM(a) # "noop"
         /\ a.email = "smtp" => BuildEmail(a) # "noop"
         /\ a.otel => BuildOtel(a) # "noop"
    /\ \A c \in Setups : Boots(c) =>
         /\ c.ha \/ (c.autoSetup /\ c.replication # "off") => OnPostgres(c)
         /\ (c.cleanup /\ ~HasCleanup(c)) \/ (c.lag /\ ~HasLag(c)) => ~(c.replication = "primary" /\ OnPostgres(c))

\* A stop ends, and the database is closed after everything that uses it; a
\* start follows its settings.
StopIsSound ==
    /\ [](DrainedBeforeClose /\ HealthIsHonest /\ EveryFlagIsDecided /\ ServerIsAsConfigured)
    /\ StopEnds
================================================================================
