------------------------------- MODULE DemoSeed -------------------------------
(***************************************************************************)
(* `seed demo`, a command that fills a tenant with a fleet, five scan      *)
(* sessions of which the fifth drifts, a webhook, an SSO provider and an   *)
(* invitation, and that is meant to be run again after it failed.  It      *)
(* opens the SQLite file beside the server.  Every transaction is one      *)
(* step; the process may end between two of them, and several may run.     *)
(***************************************************************************)
EXTENDS Naturals, Sequences, FiniteSets

CONSTANTS
    Seeds,          \* processes that run the command
    DemoTenants,
    WantedSessions, \* targetSessionCount
    MaxSeedings,    \* bound: starts of the command
    MaxMeddling     \* bound: changes an operator makes meanwhile

ASSUME SeedAssumption ==
    /\ {WantedSessions, MaxSeedings, MaxMeddling} \subseteq Nat /\ WantedSessions > 0
    /\ "none" \notin DemoTenants

VARIABLES
    seeding,        \* seeding[p]: where process p is
    demoPack,       \* the owner of pk_DEMO_PACK, or "none"
    demoFleet,      \* tenants with the fleet
    demoRobots,     \* tenants with its robots
    sessions,       \* sessions[t]: the sessions of the fleet, oldest first
    hooks,          \* hooks[t]: endpoints with the demo URL
    idps,           \* idps[t]: providers with the demo name
    invites,        \* invites[t]: active invitations of the demo address
    starts, meddled,
    beside,         \* history: tenants with two runs at a time
    troubled,       \* history: tenants with a run that failed, or that were meddled with
    seeded          \* history: tenants with a run that ended with 0

seedVars == <<seeding, demoPack, demoFleet, demoRobots, sessions, hooks, idps, invites, starts,
              meddled, beside, troubled, seeded>>
tenantRows == <<demoFleet, demoRobots, sessions, hooks, idps, invites>>

NoSeeding == [pc |-> "idle"]
DemoInit ==
    /\ seeding = [p \in Seeds |-> NoSeeding]
    /\ demoPack = "none"
    /\ demoFleet = {} /\ demoRobots = {}
    /\ sessions = [t \in DemoTenants |-> <<>>]
    /\ hooks = [t \in DemoTenants |-> 0]
    /\ idps = [t \in DemoTenants |-> 0]
    /\ invites = [t \in DemoTenants |-> 0]
    /\ starts = 0 /\ meddled = 0
    /\ beside = {} /\ troubled = {} /\ seeded = {}

RunsOf(t) == {p \in Seeds : seeding[p] # NoSeeding /\ seeding[p].tenant = t}
Goto(p, pc) == seeding' = [seeding EXCEPT ![p].pc = pc]

\* runSeedDemo: the tenant is that of the address, which `seed admin` made.
StartSeed(p, t) ==
    /\ seeding[p] = NoSeeding /\ starts < MaxSeedings
    /\ starts' = starts + 1
    /\ seeding' = [seeding EXCEPT ![p] = [pc |-> "pack", tenant |-> t, next |-> 0, open |-> 0]]
    /\ beside' = IF RunsOf(t) = {} THEN beside ELSE beside \cup {t}
    /\ UNCHANGED <<demoPack, meddled, troubled, seeded>> /\ UNCHANGED tenantRows

\* Any error, the 30 seconds of the context and the end of the process: nothing more is
\* done, and the exit code is not 0.
Stop(p) ==
    /\ seeding' = [seeding EXCEPT ![p] = NoSeeding]
    /\ troubled' = troubled \cup {seeding[p].tenant}
    /\ UNCHANGED <<demoPack, starts, meddled, beside, seeded>> /\ UNCHANGED tenantRows

FailSeed(p) == seeding[p] # NoSeeding /\ Stop(p)

\* The identifier is one for all tenants, and whoever has it, it is there.
PackThere == demoPack # "none"

SeedPack(p) ==
    /\ seeding[p].pc = "pack" /\ Goto(p, "fleet")
    /\ IF PackThere
         THEN UNCHANGED demoPack
         ELSE demoPack' = seeding[p].tenant
    /\ UNCHANGED <<starts, meddled, beside, troubled, seeded>> /\ UNCHANGED tenantRows

SeedFleet(p) ==
    /\ seeding[p].pc = "fleet" /\ Goto(p, "robots")
    /\ demoFleet' = demoFleet \cup {seeding[p].tenant}
    /\ UNCHANGED <<demoPack, demoRobots, sessions, hooks, idps, invites, starts, meddled, beside, troubled, seeded>>

SeedRobots(p) ==
    /\ seeding[p].pc = "robots" /\ Goto(p, "count")
    /\ demoRobots' = demoRobots \cup {seeding[p].tenant}
    /\ UNCHANGED <<demoPack, demoFleet, sessions, hooks, idps, invites, starts, meddled, beside, troubled, seeded>>

--------------------------------------------------------------------------------
(* The sessions. *)

\* Bug: only completed sessions are counted.
Existing_Completed(t) ==
    Cardinality({i \in DOMAIN sessions[t] : sessions[t][i].status = "completed"})
\* Sessions of every status.
Existing(t) == Len(sessions[t])

CountSessions(p) ==
    LET n == Existing(seeding[p].tenant) IN
    /\ seeding[p].pc = "count"
    /\ seeding' = [seeding EXCEPT ![p].next = n,
                                  ![p].pc = IF n >= WantedSessions THEN "webhook" ELSE "open"]
    /\ UNCHANGED <<demoPack, starts, meddled, beside, troubled, seeded>> /\ UNCHANGED tenantRows

\* Bug: a pack of any tenant may be scanned with.
Startable_AnyPack(t) ==
    \A i \in DOMAIN sessions[t] : sessions[t][i].status # "running"
\* assertPackAccessible and assertNoActiveFleetSession
Startable(t) ==
    /\ demoPack = t
    /\ \A i \in DOMAIN sessions[t] : sessions[t][i].status # "running"

\* Bug: a session that could not be started is left out.
OpenSession_Skip(p) ==
    LET t == seeding[p].tenant IN
    /\ seeding[p].pc = "open"
    /\ IF Startable(t)
         THEN /\ sessions' = [sessions EXCEPT ![t] = Append(@, [status |-> "running", drift |-> FALSE])]
              /\ seeding' = [seeding EXCEPT ![p].pc = "record", ![p].open = Existing(t) + 1]
         ELSE Goto(p, "webhook") /\ UNCHANGED sessions
    /\ UNCHANGED <<demoPack, demoFleet, demoRobots, hooks, idps, invites, starts, meddled, beside, troubled, seeded>>
\* StartScan and the move to running, in one transaction.
OpenSession(p) ==
    LET t == seeding[p].tenant IN
    /\ seeding[p].pc = "open"
    /\ IF Startable(t)
         THEN /\ sessions' = [sessions EXCEPT ![t] = Append(@, [status |-> "running", drift |-> FALSE])]
              /\ seeding' = [seeding EXCEPT ![p].pc = "record", ![p].open = Len(sessions[t]) + 1]
              /\ UNCHANGED <<demoPack, demoFleet, demoRobots, hooks, idps, invites, starts, meddled, beside, troubled, seeded>>
         ELSE Stop(p)

\* Bug: the first session is the one that drifts.
Drifts_First(i) == i = 0
\* isDriftSession
Drifts(i) == i = WantedSessions - 1

\* Results are taken for a running session only.  The end of the loop runs the detectors,
\* whose failure is a warning.
RecordSession(p) ==
    LET t == seeding[p].tenant
        s == seeding[p].open
        n == seeding[p].next
    IN
    /\ seeding[p].pc = "record"
    /\ IF sessions[t][s].status = "running"
         THEN /\ sessions' = [sessions EXCEPT ![t][s] = [status |-> "completed", drift |-> Drifts(n)]]
              /\ seeding' = [seeding EXCEPT ![p].next = n + 1,
                                            ![p].pc = IF n + 1 < WantedSessions THEN "open" ELSE "webhook"]
              /\ UNCHANGED <<demoPack, demoFleet, demoRobots, hooks, idps, invites, starts, meddled, beside, troubled, seeded>>
         ELSE Stop(p)

--------------------------------------------------------------------------------
(* The rest. *)

OnceMore(n) == IF n = 0 THEN 1 ELSE n

SeedWebhook(p) ==
    /\ seeding[p].pc = "webhook" /\ Goto(p, "idp")
    /\ hooks' = [hooks EXCEPT ![seeding[p].tenant] = OnceMore(@)]
    /\ UNCHANGED <<demoPack, demoFleet, demoRobots, sessions, idps, invites, starts, meddled, beside, troubled, seeded>>

SeedProvider(p) ==
    /\ seeding[p].pc = "idp" /\ Goto(p, "invitations")
    /\ idps' = [idps EXCEPT ![seeding[p].tenant] = OnceMore(@)]
    /\ UNCHANGED <<demoPack, demoFleet, demoRobots, sessions, hooks, invites, starts, meddled, beside, troubled, seeded>>

\* The exit code is 0.
Finish(p) ==
    /\ seeding' = [seeding EXCEPT ![p] = NoSeeding]
    /\ seeded' = seeded \cup {seeding[p].tenant}

\* ListInvitations, in a transaction of its own.
LookForInvitation(p) ==
    /\ seeding[p].pc = "invitations"
    /\ IF invites[seeding[p].tenant] > 0 THEN Finish(p) ELSE Goto(p, "invite") /\ UNCHANGED seeded
    /\ UNCHANGED <<demoPack, starts, meddled, beside, troubled>> /\ UNCHANGED tenantRows

\* Bug: CreateInvitation trusts the look of another transaction.
Invitable_Trust(t) == TRUE
\* CreateInvitation counts the active ones of the address again.
Invitable(t) == invites[t] = 0

SeedInvitation(p) ==
    LET t == seeding[p].tenant IN
    /\ seeding[p].pc = "invite"
    /\ IF Invitable(t)
         THEN /\ invites' = [invites EXCEPT ![t] = @ + 1]
              /\ Finish(p)
              /\ UNCHANGED <<demoPack, demoFleet, demoRobots, sessions, hooks, idps, starts, meddled, beside, troubled>>
         ELSE Stop(p)

\* An operator cancels the running session, deletes the webhook, or the invitation is
\* accepted, revoked or expires.
Meddle(t) ==
    /\ meddled < MaxMeddling /\ meddled' = meddled + 1
    /\ \/ \E i \in DOMAIN sessions[t] :
            /\ sessions[t][i].status = "running"
            /\ sessions' = [sessions EXCEPT ![t][i].status = "cancelled"]
            /\ UNCHANGED <<hooks, invites>>
       \/ hooks[t] > 0 /\ hooks' = [hooks EXCEPT ![t] = @ - 1] /\ UNCHANGED <<sessions, invites>>
       \/ invites[t] > 0 /\ invites' = [invites EXCEPT ![t] = @ - 1] /\ UNCHANGED <<sessions, hooks>>
    /\ troubled' = troubled \cup {t}
    /\ UNCHANGED <<seeding, demoPack, demoFleet, demoRobots, idps, starts, beside, seeded>>

DemoNext ==
    \/ \E t \in DemoTenants : Meddle(t)
    \/ \E p \in Seeds :
          \/ \E t \in DemoTenants : StartSeed(p, t)
          \/ FailSeed(p) \/ SeedPack(p) \/ SeedFleet(p) \/ SeedRobots(p)
          \/ CountSessions(p) \/ OpenSession(p) \/ RecordSession(p)
          \/ SeedWebhook(p) \/ SeedProvider(p) \/ LookForInvitation(p) \/ SeedInvitation(p)

DemoSpec == DemoInit /\ [][DemoNext]_seedVars

--------------------------------------------------------------------------------

DemoTypeOK ==
    /\ demoPack \in DemoTenants \cup {"none"}
    /\ demoRobots \subseteq demoFleet
    /\ \A p \in Seeds : seeding[p] # NoSeeding => seeding[p].open <= Len(sessions[seeding[p].tenant])

\* However often the command is run, and whatever fails or runs beside it, there is one
\* webhook and provider, one invitation that can be used, and at most one open session.
OneOfEach ==
    \A t \in DemoTenants :
        /\ hooks[t] <= 1 /\ idps[t] <= 1 /\ invites[t] <= 1
        /\ Cardinality({i \in DOMAIN sessions[t] : sessions[t][i].status = "running"}) <= 1

\* One run after another, some of them failed, never leave more than the five sessions,
\* and it is the fifth that drifts; two runs side by side may.
OneDrift ==
    \A t \in DemoTenants :
        t \notin beside =>
            /\ Len(sessions[t]) <= WantedSessions
            /\ \A i \in DOMAIN sessions[t] :
                  sessions[t][i].status = "completed" => (sessions[t][i].drift <=> i = WantedSessions)

\* A run that ends with 0 was one of the tenant that owns the pack: the pack's identifier
\* is one for all tenants, and a session of another tenant cannot name it.
OnlyTheOwnerIsSeeded == seeded \subseteq {demoPack}

\* A tenant whose runs met no trouble has all of it when one has ended with 0.
SeededMeansWhole ==
    \A t \in seeded \ (troubled \cup beside) :
        /\ t \in demoRobots /\ hooks[t] = 1 /\ idps[t] = 1 /\ invites[t] = 1
        /\ Len(sessions[t]) = WantedSessions
        /\ \A i \in DOMAIN sessions[t] : sessions[t][i].status = "completed"
        /\ sessions[t][WantedSessions].drift

\* Demonstration data is there once, in its owner's tenant, and whole after a run without
\* trouble.
DemoSeedIsSound == DemoTypeOK /\ OneOfEach /\ OneDrift /\ OnlyTheOwnerIsSeeded /\ SeededMeansWhole

\* NOT true: the command ends with 0 also where a failed run left the drift unfinished
\* (five sessions of any status are enough).
ExitZeroIsWhole ==
    \A t \in seeded : \E i \in DOMAIN sessions[t] : sessions[t][i].drift /\ sessions[t][i].status = "completed"

================================================================================
