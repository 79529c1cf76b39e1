---------------------------- MODULE LicenseQuota -----------------------------
(***************************************************************************)
(* The quotas of a licence.  A request that creates a robot or a scan      *)
(* reads the usage of its tenant in one transaction and creates in         *)
(* another; the cron job and the seed of demonstration data create without *)
(* asking.  The licence is read at the start of the process, and expires   *)
(* under it.                                                               *)
(***************************************************************************)
EXTENDS Integers, FiniteSets

CONSTANTS
    Customers,      \* tenants
    GateCalls,      \* requests that may be under way
    RobotsMaxes,    \* what robots_max of a licence may be; 0 or less is no limit
    ScansPerDays,   \* the same for scans_per_day
    ExpiryDays,     \* the days at whose start a licence may expire
    MaxQuotaDays,   \* bound: days
    MaxCreated      \* bound: what is created

ASSUME QuotaAssumption ==
    /\ IsFiniteSet(GateCalls)
    /\ RobotsMaxes \subseteq Int /\ ScansPerDays \subseteq Int /\ ExpiryDays \subseteq Nat
    /\ MaxQuotaDays \in Nat /\ MaxCreated \in Nat

Quotas == {"robots_max", "scans_per_day"}
Licences == [robots_max : RobotsMaxes, scans_per_day : ScansPerDays, expires : ExpiryDays]

VARIABLES
    server,      \* "down", "community" (Deps.License is nil) or "licensed"
    licence,     \* Enforcer.payload, when licensed
    day, early,  \* the date of the clock, and whether it is in the first second of it
    used,        \* used[q][t]: what the UsageReader counts
    passed,      \* passed[q][t]: the requests that were let through and have not created yet
    before,      \* before[q][t]: what was there when the limit came into force
    ungated,     \* ungated[q][t]: what was created without asking since
    late,        \* what requests have created since the licence expired
    created

quotaVars == <<server, licence, day, early, used, passed, before, ungated, late, created>>
clockVars == <<day, early>>
countVars == <<used, before, ungated>>

NoneToday == [t \in Customers |-> 0]
Zero == [q \in Quotas |-> NoneToday]
NobodyPassed == [q \in Quotas |-> [t \in Customers |-> {}]]
Asking == {c \in GateCalls : \E q \in Quotas, t \in Customers : c \in passed[q][t]}

QuotaInit ==
    /\ server = "down" /\ licence \in Licences
    /\ day = 0 /\ early = TRUE
    /\ used = Zero /\ before = Zero /\ ungated = Zero
    /\ passed = NobodyPassed
    /\ late = 0 /\ created = 0

--------------------------------------------------------------------------------
(* The licence. *)

\* What the configuration may hold for a token and the key that verifies it.
Configurations ==
    [token : {"absent", "malformed", "payload"}, key : {"absent", "malformed", "vendor"},
     version : {1, 2}, signer : {"vendor", "other"}, licence : Licences]

\* Verify: format, payload, version, signature.
Verifies(conf) ==
    /\ conf.token = "payload" /\ conf.key = "vendor"
    /\ conf.version = 1
    /\ conf.signer = "vendor"

IsExpired(payload) == payload.expires <= day

Limit(q) == IF q = "robots_max" THEN licence.robots_max ELSE licence.scans_per_day
IsUnlimited(q) == Limit(q) <= 0

\* Bug: what is there already may be as much as the limit.
Allowed_Off(q, t) ==
    \/ server = "community"
    \/ server = "licensed" /\ ~IsExpired(licence) /\ (IsUnlimited(q) \/ used[q][t] <= Limit(q))
\* Bug: a licence holds for as long as the process lives.
Allowed_Forever(q, t) ==
    \/ server = "community"
    \/ server = "licensed" /\ (IsUnlimited(q) \/ used[q][t] + 1 <= Limit(q))
\* CheckRobotsAdd of one robot, and CheckScansToday.
Allowed(q, t) ==
    \/ server = "community"
    \/ server = "licensed" /\ ~IsExpired(licence) /\ (IsUnlimited(q) \/ used[q][t] + 1 <= Limit(q))

--------------------------------------------------------------------------------
(* The process and the clock. *)

\* The process ends, and its requests with it.
StopServer ==
    /\ server # "down"
    /\ server' = "down"
    /\ passed' = NobodyPassed
    /\ late' = 0
    /\ UNCHANGED <<licence, clockVars, countVars, created>>

\* buildLicenseEnforcer: without token and key this is the community edition, and whatever
\* else is not a licence in force ends the start.
StartServer ==
    /\ server = "down"
    /\ \E conf \in Configurations :
         \/ /\ conf.token = "absent" /\ conf.key = "absent"
            /\ server' = "community" /\ UNCHANGED licence
         \/ /\ Verifies(conf) /\ ~IsExpired(conf.licence)
            /\ server' = "licensed" /\ licence' = conf.licence
    /\ before' = used /\ ungated' = Zero
    /\ UNCHANGED <<clockVars, used, passed, late, created>>

\* A session made in the first second of a day is stored with the fraction of it, and as a
\* string "00:00:00.5Z" is less than the "00:00:00Z" that ScansToday compares it with.
FirstSecondEnds ==
    /\ early /\ early' = FALSE
    /\ UNCHANGED <<server, licence, day, countVars, passed, late, created>>

\* todayStartUTC moves on, and no scan is of today.
Midnight ==
    /\ ~early /\ day < MaxQuotaDays
    /\ day' = day + 1 /\ early' = TRUE
    /\ used' = [used EXCEPT !["scans_per_day"] = NoneToday]
    /\ before' = [before EXCEPT !["scans_per_day"] = NoneToday]
    /\ ungated' = [ungated EXCEPT !["scans_per_day"] = NoneToday]
    /\ UNCHANGED <<server, licence, passed, late, created>>

--------------------------------------------------------------------------------
(* Requests. *)

\* The gate of CreateRobot and CreateScan, before the body is read.  A request that is
\* refused, or whose usage cannot be read, is over.
PassGate(c, q, t) ==
    /\ c \notin Asking
    /\ Allowed(q, t)
    /\ passed' = [passed EXCEPT ![q][t] = @ \cup {c}]
    /\ UNCHANGED <<server, licence, clockVars, countVars, late, created>>

\* The body or the domain refuses.
Withdraw(c, q, t) ==
    /\ c \in passed[q][t]
    /\ passed' = [passed EXCEPT ![q][t] = @ \ {c}]
    /\ UNCHANGED <<server, licence, clockVars, countVars, late, created>>

\* What the UsageReader counts after a creation.
CountsToday(q) == IF q = "scans_per_day" /\ early THEN 0 ELSE 1

\* The transaction that creates.
CreateAsked(c, q, t) ==
    /\ c \in passed[q][t] /\ created < MaxCreated
    /\ passed' = [passed EXCEPT ![q][t] = @ \ {c}]
    /\ used' = [used EXCEPT ![q][t] = @ + CountsToday(q)]
    /\ late' = IF server = "licensed" /\ IsExpired(licence) THEN late + 1 ELSE late
    /\ created' = created + 1
    /\ UNCHANGED <<server, licence, clockVars, before, ungated>>

\* The tick of a schedule, and the seed of demonstration data, ask nobody.
CreateUngated(q, t) ==
    /\ server # "down" /\ created < MaxCreated
    /\ used' = [used EXCEPT ![q][t] = @ + CountsToday(q)]
    /\ ungated' = [ungated EXCEPT ![q][t] = @ + CountsToday(q)]
    /\ created' = created + 1
    /\ UNCHANGED <<server, licence, clockVars, passed, before, late>>

RemoveRobot(t) ==
    /\ server # "down" /\ used["robots_max"][t] > 0
    /\ used' = [used EXCEPT !["robots_max"][t] = @ - 1]
    /\ UNCHANGED <<server, licence, clockVars, passed, before, ungated, late, created>>

QuotaNext ==
    \/ StopServer \/ StartServer \/ FirstSecondEnds \/ Midnight
    \/ \E c \in GateCalls, q \in Quotas, t \in Customers :
         PassGate(c, q, t) \/ Withdraw(c, q, t) \/ CreateAsked(c, q, t)
    \/ \E q \in Quotas, t \in Customers : CreateUngated(q, t)
    \/ \E t \in Customers : RemoveRobot(t)

QuotaSpec == QuotaInit /\ [][QuotaNext]_quotaVars

\* What GET /license answers tenant t: zeros for the community edition, and a zero for a
\* usage that could not be read.
ShownExpired == server = "licensed" /\ IsExpired(licence)
ShownLimit(q) == IF server = "licensed" THEN Limit(q) ELSE 0
ShownUsage(q, t, read) == IF server = "licensed" /\ read THEN used[q][t] ELSE 0

--------------------------------------------------------------------------------
(* Properties. *)

\* Types, and a request waits for one creation.
QuotaTypeOK ==
    /\ server \in {"down", "community", "licensed"} /\ licence \in Licences
    /\ day \in Nat /\ early \in BOOLEAN
    /\ used \in [Quotas -> [Customers -> Nat]]
    /\ before \in [Quotas -> [Customers -> Nat]]
    /\ ungated \in [Quotas -> [Customers -> Nat]]
    /\ passed \in [Quotas -> [Customers -> SUBSET GateCalls]]
    /\ late \in Nat /\ created \in Nat

Larger(a, b) == IF a >= b THEN a ELSE b

\* The gate and the creation are two transactions, so a tenant may have more than its
\* licence says; but never by more than the requests that can be between the two, over
\* what was there before and what was created by schedules and the seed.
QuotaOvershootIsBounded ==
    server = "licensed" =>
        \A q \in Quotas, t \in Customers : ~IsUnlimited(q) =>
            used[q][t] + Cardinality(passed[q][t])
              <= Larger(before[q][t], Limit(q) - 1 + Cardinality(GateCalls)) + ungated[q][t]

\* Once a licence has expired under a running server, requests create no more than was
\* between the gate and the creation at that moment.
LateIsBounded ==
    server = "licensed" =>
        IF IsExpired(licence) THEN late + Cardinality(Asking) <= Cardinality(GateCalls) ELSE late = 0

\* What the licence page shows explains what the gate does: it refuses exactly the tenant
\* that reads there that the licence has expired or that its usage has reached a limit.  A
\* usage the page could not read is shown too low, never too high.
PageExplainsGate ==
    server # "down" =>
        \A q \in Quotas, t \in Customers :
            /\ Allowed(q, t) <=>
                 ~ShownExpired /\ (ShownLimit(q) <= 0 \/ ShownUsage(q, t, TRUE) < ShownLimit(q))
            /\ ShownUsage(q, t, FALSE) <= ShownUsage(q, t, TRUE)

\* The quotas of a licence hold within their stated overshoot, also over its expiry, and
\* the page of the licence says what they do.
QuotasAreSound ==
    /\ QuotaTypeOK
    /\ QuotaOvershootIsBounded
    /\ LateIsBounded
    /\ PageExplainsGate

\* The statement of CheckRobotsAdd and CheckScansToday: what would exceed the limit is
\* refused.
QuotaHolds ==
    server = "licensed" =>
        \A q \in Quotas, t \in Customers : ~IsUnlimited(q) /\ ungated[q][t] = 0 =>
            used[q][t] <= Larger(before[q][t], Limit(q))

\* The statement of ScansToday: it counts the sessions made since midnight.
DayIsCountedWhole == [][\A q \in Quotas, t \in Customers, c \in GateCalls :
    CreateAsked(c, q, t) => used'[q][t] = used[q][t] + 1]_quotaVars
================================================================================
