---------------------------- MODULE RegionFailover -----------------------------
(***************************************************************************)
(* The regions of internal/platform/replication: the table of replicas     *)
(* with their roles and heartbeats, the manual failover of                 *)
(* internal/api/handlers/replication.go, its history and its entries in    *)
(* the audit chain, and the role a server process was started with, by     *)
(* which StandbyReadOnlyMiddleware lets writes through.                    *)
(*                                                                         *)
(* The rows are those of one database.  Instants are ticks of a clock.     *)
(***************************************************************************)
EXTENDS Naturals, Sequences, FiniteSets

CONSTANTS
    Regions,
    Senders,                          \* the regions whose standby sends heartbeats
    MaxFailovers, MaxOtherEntries,    \* bounds: failovers, other audit entries
    MaxBeatClock, MaxBeats            \* bounds: ticks of the clock, beats under way

ASSUME RegionAssumption ==
    Senders \subseteq Regions /\ {MaxFailovers, MaxOtherEntries, MaxBeatClock, MaxBeats} \subseteq Nat

VARIABLES
    regionDb,     \* "sqlite" or "pg"
    role,         \* replication_replicas.role by region
    heartbeat,    \* last_heartbeat_at by region
    failovers,    \* replication_failovers
    regionLog,    \* the audit chain: the to-region of a failover, "other" else
    beats,        \* heartbeats that took the time and have not committed
    beatClock,
    process       \* a server: its region and the Config.Role it started with

regionVars == <<regionDb, role, heartbeat, failovers, regionLog, beats, beatClock, process>>

Unregistered == "unregistered"
Down == [as |-> "down"]
Registered == {r \in Regions : role[r] # Unregistered}
Primaries == {r \in Regions : role[r] = "primary"}

RegionInit ==
    /\ regionDb \in {"sqlite", "pg"}
    /\ role = [r \in Regions |-> Unregistered]
    /\ heartbeat = [r \in Regions |-> 0]
    /\ failovers = <<>> /\ regionLog = <<>>
    /\ beats = {} /\ beatClock = 1
    /\ process = Down

--------------------------------------------------------------------------------
\* RegisterReplica: one row per region.  The operator registers one primary first.
RegisterReplica(r) ==
    /\ role[r] = Unregistered
    /\ role' = [role EXCEPT ![r] = IF Registered = {} THEN "primary" ELSE "standby"]
    /\ UNCHANGED <<regionDb, heartbeat, failovers, regionLog, beats, beatClock, process>>

\* SetRole: a region without a row is an error.
SetRole(roles, r, new) == [roles EXCEPT ![r] = new]
HasReplica_Any(r) == TRUE    \* Bug: RowsAffected is not looked at
HasReplica(r) == role[r] # Unregistered

\* TriggerFailover, steps 1 and 2 of its transaction: who leads afterwards.
\* Bug: the demotion forgets its WHERE.
Swapped_NoWhere(from, to) ==
    SetRole([r \in Regions |-> IF HasReplica(r) THEN "standby" ELSE role[r]], to, "primary")
Swapped(from, to) == SetRole(SetRole(role, from, "standby"), to, "primary")

\* RecordFailover: LastInsertId, which the driver of PostgreSQL does not support.
RecordedId == IF regionDb = "pg" THEN 0 ELSE Len(failovers) + 1

\* LinkFailoverAudit takes the position of the audit entry, and no id 0.
CanLink(id) == id > 0
LinkedEntry_RowId == Len(failovers) + 1    \* Bug: the id of the row
LinkedEntry == Len(regionLog) + 1

\* ValidateFailoverRequest and the transaction, which an error rolls back whole:
\* an unknown region, or an id to link that is 0.
TriggerFailover(from, to) ==
    /\ Len(failovers) < MaxFailovers
    /\ from # to
    /\ HasReplica(from) /\ HasReplica(to)
    /\ CanLink(RecordedId)
    /\ role' = Swapped(from, to)
    /\ failovers' = Append(failovers, [from |-> from, to |-> to, entry |-> LinkedEntry])
    /\ regionLog' = Append(regionLog, to)
    /\ UNCHANGED <<regionDb, heartbeat, beats, beatClock, process>>

\* Any other operation that is audited.
OtherEntry ==
    /\ Cardinality({n \in DOMAIN regionLog : regionLog[n] = "other"}) < MaxOtherEntries
    /\ regionLog' = Append(regionLog, "other")
    /\ UNCHANGED <<regionDb, role, heartbeat, failovers, beats, beatClock, process>>

--------------------------------------------------------------------------------
BeatTick ==
    /\ beatClock < MaxBeatClock /\ beatClock' = beatClock + 1
    /\ UNCHANGED <<regionDb, role, heartbeat, failovers, regionLog, beats, process>>

\* ReplicationHeartbeat reads the clock before it asks for its transaction.
BeginHeartbeat(r) ==
    /\ Cardinality(beats) < MaxBeats
    /\ beats' = beats \cup {<<r, beatClock>>}
    /\ UNCHANGED <<regionDb, role, heartbeat, failovers, regionLog, beatClock, process>>

\* UpdateHeartbeat: no row of that region is an error, and none is inserted.
UpdateHeartbeat_Upsert(r, n) == [heartbeat EXCEPT ![r] = n]    \* Bug: an upsert
UpdateHeartbeat(r, n) ==
    IF HasReplica(r) THEN [heartbeat EXCEPT ![r] = n] ELSE heartbeat

CommitHeartbeat(b) ==
    /\ b \in beats /\ beats' = beats \ {b}
    /\ heartbeat' = UpdateHeartbeat(b[1], b[2])
    /\ UNCHANGED <<regionDb, role, failovers, regionLog, beatClock, process>>

--------------------------------------------------------------------------------
\* LoadConfigFromEnv: the role is read once, at the start, as the table has it then.
StartRegion(r) ==
    /\ process = Down /\ HasReplica(r)
    /\ process' = [region |-> r, as |-> role[r]]
    /\ UNCHANGED <<regionDb, role, heartbeat, failovers, regionLog, beats, beatClock>>

\* StandbyReadOnlyMiddleware: what a process lets through.
TakesWrites == process.as = "primary"

RegionNext ==
    \/ \E r \in Regions :
          RegisterReplica(r) \/ StartRegion(r)
    \/ \E r \in Senders : BeginHeartbeat(r)
    \/ \E from, to \in Regions : TriggerFailover(from, to)
    \/ OtherEntry \/ BeatTick
    \/ \E b \in beats : CommitHeartbeat(b)
RegionSpec == RegionInit /\ [][RegionNext]_regionVars

--------------------------------------------------------------------------------
(* Properties. *)

RegionTypeOK ==
    /\ \A r \in Regions : role[r] \in {Unregistered, "primary", "standby"}
    /\ Len(failovers) <= MaxFailovers
    /\ \A r \in Regions : heartbeat[r] \in 0..beatClock

\* Once a region is registered some region is primary: a failover that cannot be
\* done whole, to a region nobody registered or on PostgreSQL, changes nothing.
SomeRegionIsPrimary == Registered # {} => Primaries # {}

\* Every failover in the history names the audit entry of just that failover.
FailoversAreAudited ==
    \A n \in DOMAIN failovers :
        /\ failovers[n].entry \in DOMAIN regionLog
        /\ regionLog[failovers[n].entry] = failovers[n].to
        /\ \A k \in DOMAIN failovers : k < n => failovers[k].entry < failovers[n].entry

\* The history explains the roles: the region of the last failover is primary, and
\* one that failed over from and never to is a standby.
HistoryExplainsRoles ==
    /\ failovers # <<>> => role[failovers[Len(failovers)].to] = "primary"
    /\ \A n \in DOMAIN failovers :
          (\A k \in DOMAIN failovers : k >= n => failovers[k].to # failovers[n].from)
              => role[failovers[n].from] = "standby"

\* A region that is not registered keeps no heartbeat, whatever calls itself so.
OnlyReplicasBeat == \A r \in Regions : heartbeat[r] # 0 => role[r] # Unregistered

\* A failover moves the one role from region to region: a third keeps the one it has.
FailoverMovesThePrimary ==
    [][failovers' # failovers =>
          LET last == failovers'[Len(failovers')] IN
          Primaries' = (Primaries \ {last.from}) \cup {last.to}]_regionVars

\* What PostgreSQL, the only database that replicates, makes of it: the id of a
\* failover reads as 0 there, so none ever commits (sqliterepo/repo.go:177 and :193).
NoFailoverOnPg == regionDb = "pg" => failovers = <<>>

\* Roles, their history and its audit entries agree.
FailoverIsSound ==
    /\ [](RegionTypeOK /\ SomeRegionIsPrimary /\ FailoversAreAudited
            /\ HistoryExplainsRoles /\ OnlyReplicasBeat /\ NoFailoverOnPg)
    /\ FailoverMovesThePrimary

\* Not so: a failover from a region that is not the primary leaves two
\* (repository.go:12 wants exactly one, kept by the handler).
OnePrimary == Cardinality(Primaries) <= 1

\* Not so: no step tells a running process, so the region failed over from still
\* takes writes and the new primary refuses them (middleware.go:21).
WritesFollowTheRole == TakesWrites => role[process.region] = "primary"

\* Not so: heartbeats that take the time before they commit can turn it back.
HeartbeatsGrow == [][\A r \in Regions : heartbeat'[r] >= heartbeat[r]]_regionVars

--------------------------------------------------------------------------------
(***************************************************************************)
(* The RoleProvider of internal/platform/ha/patroni: each instance polls   *)
(* the cluster view of Patroni and keeps whether it leads, and the         *)
(* timeline as its epoch, in two values that are stored one after the      *)
(* other and read one after the other.                                     *)
(*                                                                         *)
(* An instance that cannot reach Patroni keeps what it knew last.          *)
(***************************************************************************)

CONSTANTS
    Pods, NoPod,
    MaxTimeline     \* bound: promotions

ASSUME PatroniAssumption == NoPod \notin Pods /\ MaxTimeline \in Nat

VARIABLES
    cluster,    \* the view Patroni serves (external): who was promoted last, on which timeline,
                \* whether the leader field names it, and the member shown as master or primary
    leader,     \* RoleProvider.leader
    podEpoch,   \* RoleProvider.epoch
    poll        \* poll[n]: the view a poll holds and has not stored in full

patroniVars == <<cluster, leader, podEpoch, poll>>

NoPoll == [at |-> "idle"]

PatroniInit ==
    /\ cluster = [leader |-> NoPod, timeline |-> 1, named |-> FALSE, master |-> NoPod]
    /\ leader = [n \in Pods |-> FALSE]
    /\ podEpoch = [n \in Pods |-> 0]
    /\ poll = [n \in Pods |-> NoPoll]

\* External: a promotion, which starts a timeline.  Some versions name the leader in a
\* field, whatever member is still shown as master beside it; others by the role of a
\* member, or by one that means nothing to this program.
Promote(n) ==
    /\ cluster.timeline < MaxTimeline
    /\ \E named \in BOOLEAN, m \in Pods \cup {NoPod} :
          /\ named \/ m \in {n, NoPod}
          /\ cluster' = [leader |-> n, timeline |-> cluster.timeline + 1, named |-> named, master |-> m]
    /\ UNCHANGED <<leader, podEpoch, poll>>

\* External: a leader is lost.  It may be shown as master for a while.
LeaderLost ==
    /\ cluster.named \/ cluster.master # NoPod
    /\ \E m \in {cluster.leader, NoPod} : cluster' = [cluster EXCEPT !.named = FALSE, !.master = m]
    /\ UNCHANGED <<leader, podEpoch, poll>>

--------------------------------------------------------------------------------
\* Bug: the member shown as master goes first.
ResolveLeader_Member(view) ==
    IF view.master # NoPod THEN view.master ELSE IF view.named THEN view.leader ELSE NoPod
\* resolveLeader: the field first, the member with the role of a master or primary else,
\* nobody when there is none.
ResolveLeader(view) == IF view.named THEN view.leader ELSE view.master

\* pollOnce, up to the decoded answer.  One that fails leaves both values alone.
Ask(n) ==
    /\ poll[n] = NoPoll
    /\ poll' = [poll EXCEPT ![n] = [at |-> "answered", view |-> cluster]]
    /\ UNCHANGED <<cluster, leader, podEpoch>>

StoreLeader(n) ==
    /\ poll[n].at = "answered"
    /\ leader' = [leader EXCEPT ![n] = ResolveLeader(poll[n].view) = n]
    /\ poll' = [poll EXCEPT ![n].at = "half"]
    /\ UNCHANGED <<cluster, podEpoch>>

\* Bug: the timeline of the moment of the store, not that of the answer.
StoreTimeline_Reread(n) ==
    /\ poll[n].at = "half"
    /\ podEpoch' = [podEpoch EXCEPT ![n] = cluster.timeline]
    /\ poll' = [poll EXCEPT ![n] = NoPoll]
    /\ UNCHANGED <<cluster, leader>>

\* Bug: an instance that does not lead gives up its epoch.
StoreTimeline_Clear(n) ==
    /\ poll[n].at = "half"
    /\ podEpoch' = [podEpoch EXCEPT ![n] = IF leader[n] THEN poll[n].view.timeline ELSE 0]
    /\ poll' = [poll EXCEPT ![n] = NoPoll]
    /\ UNCHANGED <<cluster, leader>>

StoreTimeline(n) ==
    /\ poll[n].at = "half"
    /\ podEpoch' = [podEpoch EXCEPT ![n] = poll[n].view.timeline]
    /\ poll' = [poll EXCEPT ![n] = NoPoll]
    /\ UNCHANGED <<cluster, leader>>

PatroniNext ==
    \/ LeaderLost
    \/ \E n \in Pods : Promote(n) \/ Ask(n) \/ StoreLeader(n) \/ StoreTimeline(n)
PatroniSpec == PatroniInit /\ [][PatroniNext]_patroniVars

--------------------------------------------------------------------------------
Leads(n) == leader[n] /\ poll[n] = NoPoll

(* Between their polls, two instances that both believe to lead, the one     *)
(* cut off from Patroni and its successor, carry different epochs: what they *)
(* append can be told apart (role_provider.go: the timeline is the fence     *)
(* token of the audit log).                                                  *)
FenceTellsThemApart ==
    \A n, m \in Pods : n # m /\ Leads(n) /\ Leads(m) => podEpoch[n] # podEpoch[m]

(* The same while a poll stores its two values: the role comes first, and    *)
(* for a moment the new leader carries the epoch of the old one.             *)
FenceTellsThemApartAlways ==
    \A n, m \in Pods : n # m /\ leader[n] /\ leader[m] => podEpoch[n] # podEpoch[m]

(* The epoch an instance carries never goes back: its polls do not overlap.  *)
TimelineNeverFalls == [][\A n \in Pods : podEpoch'[n] >= podEpoch[n]]_podEpoch

\* An instance carries no epoch that Patroni has not begun.
EpochsHaveBegun == \A n \in Pods : podEpoch[n] <= cluster.timeline

\* The fence tells primaries of different timelines apart, and the timeline an
\* instance has seen is one that was begun and never falls.
TimelinesAreSound ==
    /\ [](FenceTellsThemApart /\ EpochsHaveBegun)
    /\ TimelineNeverFalls
================================================================================
