---------------------------- MODULE ReplicationSetup ----------------------------
(***************************************************************************)
(* Logical replication between two PostgreSQL databases as                 *)
(* internal/platform/replication/setup arranges it when a server starts:   *)
(* the publication of the primary, the subscription of the standby with    *)
(* the slot it holds at the primary, and the cleanup of idle slots that    *)
(* internal/platform/scheduler/replicationcleanupjob runs on a schedule.   *)
(*                                                                         *)
(* What PostgreSQL does with its catalogs is external.  A second slot, of  *)
(* another application, has a name that LIKE 'rosshield_%' matches, since  *)
(* _ stands for any character there, and the prefix does not.              *)
(***************************************************************************)
EXTENDS FiniteSets

CONSTANTS
    SchemaTables    \* bound: the tables migrations may add

VARIABLES
    tables,         \* the tables of the primary
    publication,    \* pg_publication and pg_publication_tables
    subscription,   \* pg_subscription of the standby has the name
    slots,          \* pg_replication_slots of the primary, by owner
    sweep,          \* the cleanup under way and the candidates it has left
    sweepDryRun     \* Deps.DryRun

setupVars == <<tables, publication, subscription, slots, sweep, sweepDryRun>>

Owners == {"standby", "lookalike"}
NoPublication == [kind |-> "none", listed |-> {}]
ForAllTables == [kind |-> "all", listed |-> {}]
Listed(ts) == [kind |-> "list", listed |-> ts]
NoSweep == [at |-> "idle", left |-> {}]

SetupInit ==
    /\ tables = {}
    /\ publication = NoPublication
    /\ subscription = FALSE
    /\ slots = [o \in Owners |-> "absent"]
    /\ sweep = NoSweep
    /\ sweepDryRun \in BOOLEAN

Published == IF publication.kind = "all" THEN tables ELSE publication.listed

Migrate(t) ==
    /\ t \notin tables /\ tables' = tables \cup {t}
    /\ UNCHANGED <<publication, subscription, slots, sweep, sweepDryRun>>

\* External: automatic setup is off by default and an operator may have published a list.
OperatorPublishes(ts) ==
    /\ publication = NoPublication /\ publication' = Listed(ts)
    /\ UNCHANGED <<tables, subscription, slots, sweep, sweepDryRun>>

--------------------------------------------------------------------------------
\* runReplicationSetup gives no list of tables: without FOR ALL TABLES it asks for {}.
DesiredTables == {}

\* syncPublicationTables: with FOR ALL TABLES the publication is left as it is.  It
\* cannot add or drop tables of one that is for all of them: PostgreSQL refuses.
\* Bug: the early return is lost, and the difference is always applied.
Synced_Always(allTables) ==
    IF publication.kind = "all" THEN publication ELSE Listed(DesiredTables)
Synced(allTables) ==
    IF allTables \/ publication.kind = "all" THEN publication ELSE Listed(DesiredTables)

\* ensurePublication, and an error ends the start: no list to create it with.  A list an
\* operator published stays a list when the flag says all tables (publication.go:12).
StartPrimary(allTables) ==
    /\ publication' = IF publication # NoPublication THEN Synced(allTables)
                      ELSE IF allTables THEN ForAllTables
                      ELSE publication
    /\ UNCHANGED <<tables, subscription, slots, sweep, sweepDryRun>>

\* ensureSubscription creates the slot with the subscription, which PostgreSQL
\* refuses while a slot of the name is there; one that exists is left alone.
StartStandby ==
    /\ ~subscription /\ slots["standby"] = "absent"
    /\ subscription' = TRUE
    /\ slots' = [slots EXCEPT !["standby"] = "active"]
    /\ UNCHANGED <<tables, publication, sweep, sweepDryRun>>

\* External: a connection is lost or comes back, if the slot is still there.
Disconnect(o) ==
    /\ slots[o] = "active" /\ slots' = [slots EXCEPT ![o] = "idle"]
    /\ UNCHANGED <<tables, publication, subscription, sweep, sweepDryRun>>

Reconnect(o) ==
    /\ slots[o] \in {"idle", "old"} /\ (o = "standby" => subscription)
    /\ slots' = [slots EXCEPT ![o] = "active"]
    /\ UNCHANGED <<tables, publication, subscription, sweep, sweepDryRun>>

\* MinInactiveAge passes.
Age(o) ==
    /\ slots[o] = "idle" /\ slots' = [slots EXCEPT ![o] = "old"]
    /\ UNCHANGED <<tables, publication, subscription, sweep, sweepDryRun>>

OtherApplication ==
    /\ slots["lookalike"] = "absent" /\ slots' = [slots EXCEPT !["lookalike"] = "active"]
    /\ UNCHANGED <<tables, publication, subscription, sweep, sweepDryRun>>

\* The standby is lost for good, or DropSubscription is called: its slot stays.
LoseStandby ==
    /\ subscription /\ subscription' = FALSE
    /\ slots' = [slots EXCEPT !["standby"] = IF @ = "active" THEN "idle" ELSE @]
    /\ UNCHANGED <<tables, publication, sweep, sweepDryRun>>

--------------------------------------------------------------------------------
\* The WHERE of CleanupInactiveSlots.  pg_last_xact_replay_timestamp() is NULL on a
\* primary, so the clause on the age holds for every slot there.
\* Bug: only slots that never connected.
Candidates_Absent == {o \in Owners : slots[o] = "absent"}
Candidates == {o \in Owners : slots[o] \in {"idle", "old"}}

\* RunOnce, from the query to the end of the list.
BeginSweep ==
    /\ sweep = NoSweep /\ Candidates # {}
    /\ sweep' = [at |-> "sweeping", left |-> Candidates]
    /\ UNCHANGED <<tables, publication, subscription, slots, sweepDryRun>>

\* The second look at the name.
HasSlotPrefix_Like(o) == TRUE    \* Bug: what LIKE matched is taken
HasSlotPrefix(o) == o = "standby"
Drops_DryToo(o) == HasSlotPrefix(o)    \* Bug: a dry run drops
Drops(o) == HasSlotPrefix(o) /\ ~sweepDryRun

\* dropReplicationSlot, or the slot is passed over.  PostgreSQL drops none that is in
\* use again or gone, and that error ends the round.
SweepSlot(o) ==
    /\ sweep.at = "sweeping" /\ o \in sweep.left
    /\ IF Drops(o) /\ slots[o] \in {"active", "absent"}
       THEN sweep' = NoSweep /\ UNCHANGED slots
       ELSE /\ slots' = IF Drops(o) THEN [slots EXCEPT ![o] = "absent"] ELSE slots
            /\ sweep' = [sweep EXCEPT !.left = @ \ {o}]
    /\ UNCHANGED <<tables, publication, subscription, sweepDryRun>>

EndSweep ==
    /\ sweep.at = "sweeping" /\ sweep.left = {}
    /\ sweep' = NoSweep
    /\ UNCHANGED <<tables, publication, subscription, slots, sweepDryRun>>

Sweeping == BeginSweep \/ (\E o \in Owners : SweepSlot(o)) \/ EndSweep

SetupNext ==
    \/ \E t \in SchemaTables : Migrate(t)
    \/ \E ts \in SUBSET tables : OperatorPublishes(ts)
    \/ \E allTables \in BOOLEAN : StartPrimary(allTables)
    \/ StartStandby \/ LoseStandby \/ OtherApplication
    \/ \E o \in Owners : Disconnect(o) \/ Reconnect(o) \/ Age(o)
    \/ Sweeping

\* The schedule goes on calling RunOnce, which does not stop in between.
SetupFairness ==
    /\ WF_setupVars(Sweeping)

--------------------------------------------------------------------------------
(* Properties. *)

SetupTypeOK ==
    /\ publication.listed \subseteq tables
    /\ \A o \in Owners : slots[o] \in {"absent", "active", "idle", "old"}
    /\ slots["standby"] = "active" => subscription

\* No cleanup drops the slot of another application, whatever LIKE matches, and none
\* drops a slot in a dry run or one that streams.
OnlyOwnIdleSlotsAreDropped ==
    [][\A o \in Owners : slots[o] # "absent" /\ slots'[o] = "absent" =>
          o = "standby" /\ ~sweepDryRun /\ slots[o] # "active"]_setupVars

\* A start with FOR ALL TABLES, the default, takes no table out of a publication;
\* and one that has all tables keeps having them as migrations add more.
AllTablesStay ==
    [][/\ publication.kind = "all" => publication' = publication
       /\ StartPrimary(TRUE) => Published \subseteq Published']_setupVars

\* The slot a lost standby leaves, which would hold back the log for ever and keeps
\* a new standby from subscribing, is dropped in the end unless a dry run was asked for.
OrphanSlotIsDropped ==
    (~subscription /\ slots["standby"] # "absent" /\ ~sweepDryRun) ~> (slots["standby"] = "absent")

\* Replication loses no table by a start, no slot in use, and no disk to a lost standby.
ReplicationIsSound ==
    /\ []SetupTypeOK
    /\ OnlyOwnIdleSlotsAreDropped /\ AllTablesStay
    /\ OrphanSlotIsDropped

\* Not so: without FOR ALL TABLES a start that finds the publication drops every
\* table from it (bootstrap.go:1965 gives no list; :1942 says a start is safe to repeat).
StartsAreIdempotent == [][publication.listed \subseteq publication'.listed]_setupVars

\* Not so: a slot that went idle a moment ago is dropped like an old one
\* (slot_cleanup.go:15), and its subscription, which is there, is never made anew.
YoungSlotsAreKept == [][slots["standby"] = "idle" => slots'["standby"] # "absent"]_setupVars

\* Not so: a standby whose subscription is there finds its slot dropped.
StandbyCanReturn == subscription => slots["standby"] # "absent"
================================================================================
