----------------------------- MODULE Effectiveness -----------------------------
(***************************************************************************)
(* The effectiveness dashboard: domain/compliance/soc2_mapping.go over the *)
(* counts of domain/audit/sqliterepo/effectiveness.go, and the audit       *)
(* actions that the server writes: auditEmitterAdapter in bootstrap.go for *)
(* the domains, and the handlers and jobs that append entries themselves.  *)
(***************************************************************************)
EXTENDS Integers, Sequences, FiniteSets

CONSTANTS
    AuditTenants,    \* tenants with an audit chain
    Windows,         \* days the counts go back (1, 7 and 30)
    Appended,        \* bound: actions that entries of the model have
    MaxDays,         \* bound: days that pass
    MaxEvents        \* bound: audit entries

ASSUME EffectivenessAssumption == Windows \subseteq Nat \ {0}

VARIABLES
    auditEvents,     \* audit entries: tenant, action, day
    eventDay         \* today

effectivenessVars == <<auditEvents, eventDay>>

--------------------------------------------------------------------------------
(* Actions that some code writes.  EmitPackLifecycleChanged, of packs,        *)
(* EmitSuggestionDecided and EmitProviderChanged end the name with a state.   *)

LifecycleStates == {"installed", "staged", "active", "inactive", "archived", "removed"}

RobotActions ==
    {"tenant.created", "pack.installed", "fleet.created", "fleet.updated", "fleet.deleted",
     "robot.created", "robot.deleted", "credential.rotated"}
        \cup {"pack.lifecycle." \o state : state \in LifecycleStates}

ScanActions ==
    {"scan.started", "scan.completed", "scan.failed", "scan.cancelled", "evidence.stored", "reporting.generate",
     "reporting.sign", "reporting.framework.generate", "reporting.framework.sign"}

FindingActions ==
    {"advisor.conversation.started", "advisor.tool_called", "advisor.responded", "insight.created", "insight.dismissed",
     "compliance.profile.created"}
        \cup {"compliance.suggestion." \o step : step \in {"created", "confirmed", "rejected"}}

InvitationActions == {"invitation.sent", "invitation.accepted"}
LoginActions ==
    {"sso.login.started", "sso.login.completed"}
        \cup {"sso.provider." \o change : change \in {"created", "updated", "deleted"}}
SnapshotActions == {"compliance.snapshot.generated"}

\* Rotator, HotGC, the group sync of single sign-on, the compliance export and the failover.
OwnActions ==
    {"audit.chain.key_rotated", "audit.chain.rotation_aborted", "audit.gc.complete", "user_role.synced",
     "audit.compliance.export", "audit.replication.failover"}

WrittenActions == RobotActions \cup ScanActions \cup FindingActions
               \cup InvitationActions \cup LoginActions \cup SnapshotActions \cup OwnActions

--------------------------------------------------------------------------------
(* The controls: the actions mapped to each sub-control, and whether it is    *)
(* said to be covered.                                                        *)

Control(id, actions) == [id |-> id, actions |-> actions, covered |-> TRUE]
Gap(id) == [id |-> id, actions |-> {}, covered |-> FALSE]

Export == {"audit.compliance.export"}
Failover == {"audit.replication.failover"}
KeyChanges == {"audit.chain.key_rotated", "audit.chain.rotation_aborted"}

GovernanceControls ==
    [CC1 |-> {Control("CC1.1", {}), Gap("CC1.2"),
              Control("CC1.3", {"user_role.synced", "invitation.sent", "invitation.accepted"}), Gap("CC1.4"),
              Control("CC1.5", Export)},
     CC2 |-> {Control("CC2.1", {"evidence.stored", "reporting.generate"}),
              Control("CC2.2", {"insight.created", "insight.dismissed"}),
              Control("CC2.3", {"reporting.framework.generate", "reporting.framework.sign"})},
     CC3 |-> {Gap("CC3.1"), Control("CC3.2", {"scan.started", "scan.completed", "scan.failed"}),
              Control("CC3.3", KeyChanges), Control("CC3.4", {"pack.installed", "pack.lifecycle.deprecated"})},
     CC4 |-> {Control("CC4.1", {"scan.completed", "scan.failed", "scan.cancelled"}),
              Control("CC4.2", Export \cup {"insight.created"})},
     CC5 |-> {Control("CC5.1", {"pack.installed"}),
              Control("CC5.2", {"compliance.profile.created", "compliance.snapshot.generated"}),
              Control("CC5.3", {"user_role.synced"})}]

OperationControls ==
    [CC6 |-> {Control("CC6.1", {"user_role.synced", "sso.login.started", "sso.login.completed"}),
              Control("CC6.2", {"invitation.sent", "invitation.accepted"}),
              Control("CC6.3", {"user_role.synced", "sso.provider.created", "sso.provider.updated", "sso.provider.deleted"}),
              Gap("CC6.4"), Gap("CC6.5"), Control("CC6.6", KeyChanges), Control("CC6.7", Export),
              Control("CC6.8", {"scan.completed"})},
     CC7 |-> {Control("CC7.1", Failover \cup {"scan.started", "scan.completed", "scan.failed"}),
              Control("CC7.2", {"audit.chain.rotation_aborted", "scan.failed"}),
              Control("CC7.3", {"insight.created", "insight.dismissed"}),
              Control("CC7.4", Failover \cup {"audit.chain.rotation_aborted"}), Control("CC7.5", Failover)},
     CC8 |-> {Control("CC8.1", {"pack.installed", "pack.lifecycle.active", "pack.lifecycle.deprecated",
                                "pack.lifecycle.retired"})},
     CC9 |-> {Control("CC9.1", Failover), Gap("CC9.2")},
     A1 |-> {Control("A1.1", Failover), Gap("A1.2"), Control("A1.3", Failover \cup {"scan.completed"})},
     A2 |-> {Control("A2.1", Export \cup {"evidence.stored"}), Control("A2.2", {"audit.gc.complete"})},
     A5 |-> {Control("A5.1", {"user_role.synced", "sso.login.completed"}), Control("A5.2", Export)}]

Categories == DOMAIN GovernanceControls \cup DOMAIN OperationControls
SOC2CategoryMappings ==
    [c \in Categories |-> IF c \in DOMAIN GovernanceControls THEN GovernanceControls[c] ELSE OperationControls[c]]
ActionsOf(category) == UNION {s.actions : s \in SOC2CategoryMappings[category]}
MappedActions == UNION {ActionsOf(c) : c \in Categories}

--------------------------------------------------------------------------------
EffectivenessInit == auditEvents = {} /\ eventDay = 0

AuditAppend ==
    /\ Cardinality(auditEvents) < MaxEvents
    /\ \E t \in AuditTenants, a \in Appended \cap WrittenActions :
         auditEvents' = auditEvents \cup {[n |-> Cardinality(auditEvents), tenant |-> t, action |-> a, day |-> eventDay]}
    /\ UNCHANGED eventDay
DayPasses == eventDay < MaxDays /\ eventDay' = eventDay + 1 /\ UNCHANGED auditEvents
EffectivenessNext == AuditAppend \/ DayPasses
EffectivenessSpec == EffectivenessInit /\ [][EffectivenessNext]_effectivenessVars

\* Bug: the tenant is not asked for.
CountActionsByWindows_Any(tenant, actions, window) ==
    [a \in actions |-> Cardinality({e \in auditEvents : e.action = a /\ e.day > eventDay - window})]
CountActionsByWindows(tenant, actions, window) ==
    [a \in actions |-> Cardinality({e \in auditEvents : e.tenant = tenant /\ e.action = a /\ e.day > eventDay - window})]

\* What a sub-control counts: each of its actions as often as it happened.  An action
\* mapped twice in a category is counted twice.
Counted(s, counts) == UNION {{<<s.id, a>>} \X (1..counts[a]) : a \in s.actions}
BuildEffectivenessDashboard(counts) ==
    [c \in Categories |->
        LET subs == SOC2CategoryMappings[c]
        IN [subControls |-> Cardinality(subs), covered |-> Cardinality({s \in subs : s.covered}),
            count |-> Cardinality(UNION {Counted(s, counts) : s \in subs}),
            gaps |-> {s.id : s \in {x \in subs : ~x.covered}}]]
GetComplianceEffectiveness(tenant, window) ==
    BuildEffectivenessDashboard(CountActionsByWindows(tenant, MappedActions, window))

--------------------------------------------------------------------------------
\* soc2_mapping.go maps actions that exactly match those written.  So it is but for two
\* states that packs do not have; and no control that is said to be covered by actions
\* stands on those alone.
CoverIsMeasured ==
    /\ MappedActions \ WrittenActions = {"pack.lifecycle.deprecated", "pack.lifecycle.retired"}
    /\ \A c \in Categories : \A s \in SOC2CategoryMappings[c] :
         s.actions # {} => s.covered /\ s.actions \cap WrittenActions # {}

\* The dashboard of a tenant tells of that tenant's events: a category counts something in a
\* window exactly if an event mapped to it happened there, at least once per event, never one
\* of another tenant, and a wider window never counts less.
DashboardIsOfTheTenant ==
    \A t \in AuditTenants : LET counted == [w \in Windows |-> GetComplianceEffectiveness(t, w)] IN
        \A w \in Windows, c \in Categories :
            LET happened == {e \in auditEvents : e.tenant = t /\ e.action \in ActionsOf(c) /\ e.day > eventDay - w}
                d == counted[w][c]
            IN /\ d.count >= Cardinality(happened)
               /\ d.count = 0 <=> happened = {}
               /\ \A v \in Windows : v >= w => counted[v][c].count >= d.count
               /\ d.covered + Cardinality(d.gaps) = d.subControls

\* What the dashboard shows was counted, of actions that are written.
EffectivenessIsOfTheTenant == CoverIsMeasured /\ DashboardIsOfTheTenant
================================================================================
