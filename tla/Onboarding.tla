------------------------------ MODULE Onboarding ------------------------------
(***************************************************************************)
(* How a customer becomes a tenant: an operator files an intake, a         *)
(* reviewer accepts or rejects it, and acceptance creates the tenant with  *)
(* its first admin in the same transaction (internal/domain/intake,        *)
(* cmd/rosshield-server/intake_provisioning.go).  `seed admin` creates the *)
(* first tenant of a data directory from the command line.                 *)
(*                                                                         *)
(* On SQLite transactions run one at a time.  On PostgreSQL, at READ       *)
(* COMMITTED, others commit between what a review has read and what it     *)
(* writes; the UPDATE itself waits for a writer of the same row and then   *)
(* looks at the status that writer left.                                   *)
(*                                                                         *)
(* The second half is how a person becomes a user: an admin invites an     *)
(* email with a role, the invitee accepts with the token.                  *)
(***************************************************************************)
EXTENDS Naturals, Sequences, FiniteSets

CONSTANTS
    Intakes,            \* identifiers of intakes
    Reviews,            \* accept and reject requests in flight
    Seeds,              \* `seed admin` processes
    PlanRequests,       \* plans asked for, "community", "pro", "enterprise" among them
    MaxCustomers        \* bound: rows of tenants

ASSUME OnboardingAssumption == MaxCustomers \in Nat /\ "seed" \notin Intakes

VARIABLES
    intakeDb,       \* the backend, "sqlite" or "postgres"
    intakes,        \* intakes[c]: the row
    customers,      \* tenants, in order of creation, each with its admin and roles
    reviewing,      \* reviewing[q]: the review q, past its checks
    answers,        \* what reviewers have been told
    seeding         \* seeding[s]: how far `seed admin` is

onboardingVars == <<intakeDb, intakes, customers, reviewing, answers, seeding>>

NoIntake == [status |-> "none", plan |-> "none", tenant |-> 0]
NoReview == [op |-> "none"]
Decided == {"accepted", "rejected"}

OnboardingInit ==
    /\ intakeDb \in {"sqlite", "postgres"}
    /\ intakes = [c \in Intakes |-> NoIntake]
    /\ customers = <<>>
    /\ reviewing = [q \in Reviews |-> NoReview]
    /\ answers = {}
    /\ seeding = [s \in Seeds |-> "idle"]

CanBeginReview == intakeDb = "sqlite" => \A q \in Reviews : reviewing[q] = NoReview
EndReview(q) == reviewing' = [reviewing EXCEPT ![q] = NoReview]
Tell(c, verdict, t) == answers' = answers \cup {[intake |-> c, verdict |-> verdict, tenant |-> t]}

\* ValidateCreateRequest has passed: the form names an organization, a contact and a
\* plan the server knows.
CreateIntake(c, plan) ==
    /\ CanBeginReview
    /\ intakes[c].status = "none" /\ plan \in {"community", "pro", "enterprise"}
    /\ intakes' = [intakes EXCEPT ![c] = [status |-> "pending", plan |-> plan, tenant |-> 0]]
    /\ UNCHANGED <<intakeDb, customers, reviewing, answers, seeding>>

\* Bug: a review goes ahead on a row that has been decided.
IsPending_Any(c) == intakes[c].status # "none"
IsPending(c) == intakes[c].status = "pending"

\* Bug: an unknown or larger plan is granted.
mapPlanRequest_Default(plan) == IF plan = "community" THEN "desktop_free" ELSE "enterprise"
mapPlanRequest(plan) ==
    CASE plan = "pro" -> "desktop_pro" [] plan = "enterprise" -> "enterprise" [] OTHER -> "desktop_free"

SystemRoles == {"admin", "auditor", "operator"}

\* Bug: the binding is looked up among the roles of any tenant.
FirstAdmin_Any(i) == [tenant |-> 1, role |-> "admin"]
\* assignRole with the admin role of the tenant itself.
FirstAdmin(i) == [tenant |-> i, role |-> "admin"]

\* tenant.Create: the tenant, its three roles, its admin, and the binding of the two.
\* Neither the name of a tenant nor the address of its admin is unique over tenants.
CreateTenant(by, plan) ==
    LET i == Len(customers) + 1 IN
    /\ i <= MaxCustomers
    /\ customers' = Append(customers,
          [by |-> by, plan |-> plan, roles |-> {<<i, r>> : r \in SystemRoles}, admin |-> FirstAdmin(i)])

\* The adapter looks at the row before it seeds the tenant.
CheckAcceptIntake(q, c) ==
    /\ CanBeginReview /\ reviewing[q] = NoReview
    /\ IsPending(c)
    /\ reviewing' = [reviewing EXCEPT ![q] = [op |-> "seed", intake |-> c]]
    /\ UNCHANGED <<intakeDb, intakes, customers, answers, seeding>>

\* The tenant is written, yet unseen by others; AcceptIntake looks at the row again.
RecheckAccept(q) ==
    /\ reviewing[q].op = "seed" /\ IsPending(reviewing[q].intake)
    /\ reviewing' = [reviewing EXCEPT ![q].op = "accept"]
    /\ UNCHANGED <<intakeDb, intakes, customers, answers, seeding>>

\* Bug: UPDATE ... WHERE id = ?
Updated_Always(c, row) == [intakes EXCEPT ![c] = row]
\* UPDATE ... WHERE id = ? AND status = 'pending', whose row count nobody reads.
Updated(c, row) == IF intakes[c].status = "pending" THEN [intakes EXCEPT ![c] = row] ELSE intakes

\* The reviewer is told of an acceptance whether or not the row took it.
CommitAcceptIntake(q) ==
    /\ reviewing[q].op = "accept"
    /\ LET c == reviewing[q].intake
           t == Len(customers) + 1 IN
       /\ CreateTenant(c, mapPlanRequest(intakes[c].plan))
       /\ intakes' = Updated(c, [intakes[c] EXCEPT !.status = "accepted", !.tenant = t])
       /\ Tell(c, "accepted", t)
    /\ EndReview(q)
    /\ UNCHANGED <<intakeDb, seeding>>

CheckReject(q, c) ==
    /\ CanBeginReview /\ reviewing[q] = NoReview
    /\ IsPending(c)
    /\ reviewing' = [reviewing EXCEPT ![q] = [op |-> "reject", intake |-> c]]
    /\ UNCHANGED <<intakeDb, intakes, customers, answers, seeding>>

CommitReject(q) ==
    /\ reviewing[q].op = "reject"
    /\ LET c == reviewing[q].intake IN
       /\ intakes' = Updated(c, [intakes[c] EXCEPT !.status = "rejected"])
       /\ Tell(c, "rejected", 0)
    /\ EndReview(q)
    /\ UNCHANGED <<intakeDb, customers, seeding>>

\* ErrIntakeNotPending at the second look, or a write that fails: all is rolled back.
AbortReview(q) ==
    /\ reviewing[q] # NoReview
    /\ EndReview(q)
    /\ UNCHANGED <<intakeDb, intakes, customers, answers, seeding>>

\* alreadySeeded, a transaction of its own.
CheckSeed(s) ==
    /\ CanBeginReview /\ seeding[s] = "idle"
    /\ seeding' = [seeding EXCEPT ![s] = IF customers = <<>> THEN "checked" ELSE "refused"]
    /\ UNCHANGED <<intakeDb, intakes, customers, reviewing, answers>>

\* executeSeedCreate, another one.
SeedAdmin(s) ==
    /\ CanBeginReview /\ seeding[s] = "checked"
    /\ CreateTenant("seed", "desktop_free")
    /\ seeding' = [seeding EXCEPT ![s] = "seeded"]
    /\ UNCHANGED <<intakeDb, intakes, reviewing, answers>>

OnboardingNext ==
    \/ \E c \in Intakes, plan \in PlanRequests : CreateIntake(c, plan)
    \/ \E q \in Reviews :
          \/ \E c \in Intakes : CheckAcceptIntake(q, c) \/ CheckReject(q, c)
          \/ RecheckAccept(q) \/ CommitAcceptIntake(q) \/ CommitReject(q) \/ AbortReview(q)
    \/ \E s \in Seeds : CheckSeed(s) \/ SeedAdmin(s)

OnboardingSpec == OnboardingInit /\ [][OnboardingNext]_onboardingVars

--------------------------------------------------------------------------------
(* Properties. *)

Tenants == DOMAIN customers

OnboardingTypeOK ==
    /\ Len(customers) <= MaxCustomers
    /\ \A c \in Intakes : intakes[c].status \in {"none", "pending"} \cup Decided
    /\ \A c \in Intakes : intakes[c].tenant \in {0} \cup Tenants

\* An accepted intake names a tenant made for it with the plan it asked for, and no
\* other intake names one, on either backend and whoever else reviews it.
IntakeNamesItsTenant ==
    \A c \in Intakes :
        LET t == intakes[c].tenant IN
        /\ (t # 0) = (intakes[c].status = "accepted")
        /\ t # 0 => /\ customers[t].by = c
                    /\ customers[t].plan =
                         CASE intakes[c].plan = "pro" -> "desktop_pro"
                           [] intakes[c].plan = "enterprise" -> "enterprise"
                           [] OTHER -> "desktop_free"

\* The first admin of a tenant holds the admin role of that tenant.
TenantHasItsAdmin ==
    \A t \in Tenants : <<customers[t].admin.tenant, customers[t].admin.role>> \in customers[t].roles
                         /\ customers[t].admin.tenant = t

\* On SQLite an intake makes one tenant, and none if it is rejected; and what a
\* reviewer was told is what the row says.
DecidedOnce ==
    intakeDb = "sqlite" =>
        /\ \A t \in Tenants : customers[t].by # "seed" => intakes[customers[t].by].tenant = t
        /\ \A a \in answers : intakes[a.intake].status = a.verdict /\ intakes[a.intake].tenant = a.tenant

\* A decision is final: two reviews that race never both change the row.
DecisionIsFinal ==
    [][\A c \in Intakes : intakes[c].status \in Decided => intakes'[c] = intakes[c]]_onboardingVars

\* A customer becomes one tenant with an admin of its own, by one final decision.
OnboardingIsSound ==
    /\ [](OnboardingTypeOK /\ IntakeNamesItsTenant /\ TenantHasItsAdmin /\ DecidedOnce)
    /\ DecisionIsFinal

\* Not so on PostgreSQL: the second of two reviews is told that it decided, and an
\* acceptance leaves a tenant behind that no intake names (intake.go:191).
AnswerIsTrue == \A a \in answers : intakes[a.intake].status = a.verdict /\ intakes[a.intake].tenant = a.tenant

\* Not so on either: two seeds both find the directory empty (admin_seed.go:235).
SeededOnce == Cardinality({s \in Seeds : seeding[s] = "seeded"}) <= 1

--------------------------------------------------------------------------------
(* Invitations.  Create, Accept and Revoke are transactions, on PostgreSQL with  *)
(* others between what Create or Accept has checked and what it writes.          *)

CONSTANTS
    Emails,             \* invited addresses, normalized to lower case
    InviteRoles,        \* roles of the tenant
    InviteRequests,     \* requests in flight
    MaxInvitations      \* bound: rows of invitations

ASSUME InvitationsAssumption == MaxInvitations \in Nat

VARIABLES
    inviteDb,       \* the backend, "sqlite" or "postgres"
    invitations,    \* rows; an invitation that is revoked is expired
    members,        \* users: email and role
    inviting        \* inviting[q]: the request q, past its checks

inviteVars == <<inviteDb, invitations, members, inviting>>

NoRequest == [op |-> "none"]
InvitationsInit ==
    /\ inviteDb \in {"sqlite", "postgres"}
    /\ invitations = <<>>
    /\ members = {}
    /\ inviting = [q \in InviteRequests |-> NoRequest]

CanBeginInvite == inviteDb = "sqlite" => \A q \in InviteRequests : inviting[q] = NoRequest
End(q) == inviting' = [inviting EXCEPT ![q] = NoRequest]
Rows == DOMAIN invitations
Pending(i) == ~invitations[i].accepted /\ ~invitations[i].expired
HasUser(e) == \E m \in members : m.email = e

\* Bug: only an invitation with the same role counts.
NoneActive_Role(e, role) == \A i \in Rows : Pending(i) => <<invitations[i].email, invitations[i].role>> # <<e, role>>
\* The COUNT of active invitations of the address.
NoneActive(e, role) == \A i \in Rows : Pending(i) => invitations[i].email # e

CheckCreate(q, e, role) ==
    /\ CanBeginInvite /\ inviting[q] = NoRequest
    /\ NoneActive(e, role)
    /\ inviting' = [inviting EXCEPT ![q] = [op |-> "create", email |-> e, role |-> role]]
    /\ UNCHANGED <<inviteDb, invitations, members>>

CommitCreate(q) ==
    /\ inviting[q].op = "create" /\ Len(invitations) < MaxInvitations
    /\ invitations' = Append(invitations,
          [email |-> inviting[q].email, role |-> inviting[q].role,
           accepted |-> FALSE, expired |-> FALSE, revoked |-> FALSE])
    /\ End(q)
    /\ UNCHANGED <<inviteDb, members>>

\* Bug: expires_at is not looked at.
Acceptable_Late(i) == ~invitations[i].accepted
\* IsAccepted, IsExpired
Acceptable(i) == ~invitations[i].accepted /\ ~invitations[i].expired

\* AcceptInvitation up to its writes, with the invited address.
CheckAccept(q, i) ==
    /\ CanBeginInvite /\ inviting[q] = NoRequest
    /\ Acceptable(i) /\ ~HasUser(invitations[i].email)
    /\ inviting' = [inviting EXCEPT ![q] = [op |-> "accept", row |-> i]]
    /\ UNCHANGED <<inviteDb, invitations, members>>

\* Bug: the address is not unique among the users of a tenant.
InsertUser_Any(e) == TRUE
\* insertUser: UNIQUE (tenant_id, email).
InsertUser(e) == ~HasUser(e)

\* Bug: every invitation of the address is marked.
MarkAccepted_ByEmail(i) ==
    invitations' = [j \in Rows |-> [invitations[j] EXCEPT
        !.accepted = @ \/ invitations[j].email = invitations[i].email]]
MarkAccepted(i) == invitations' = [invitations EXCEPT ![i].accepted = TRUE]

CommitAccept(q) ==
    /\ inviting[q].op = "accept"
    /\ LET i == inviting[q].row
           inv == invitations[i] IN
       /\ InsertUser(inv.email)
       /\ members' = members \cup {[email |-> inv.email, role |-> inv.role, by |-> i]}
       /\ MarkAccepted(i)
    /\ End(q)
    /\ UNCHANGED inviteDb

\* A write fails, ErrEmailAlreadyExists among the reasons: everything is rolled back.
Rollback(q) ==
    /\ inviting[q] # NoRequest
    /\ End(q)
    /\ UNCHANGED <<inviteDb, invitations, members>>

\* RevokeInvitation: expires_at becomes now, whatever the row is.
RevokeInvite(i) ==
    /\ CanBeginInvite
    /\ invitations' = [invitations EXCEPT ![i].expired = TRUE, ![i].revoked = TRUE]
    /\ UNCHANGED <<inviteDb, members, inviting>>

ExpireInvitation(i) ==
    /\ Pending(i)
    /\ invitations' = [invitations EXCEPT ![i].expired = TRUE]
    /\ UNCHANGED <<inviteDb, members, inviting>>

InvitationsNext ==
    \/ \E q \in InviteRequests :
          \/ \E e \in Emails, role \in InviteRoles : CheckCreate(q, e, role)
          \/ \E i \in Rows : CheckAccept(q, i)
          \/ CommitCreate(q) \/ CommitAccept(q) \/ Rollback(q)
    \/ \E i \in Rows : RevokeInvite(i) \/ ExpireInvitation(i)

InvitationsSpec == InvitationsInit /\ [][InvitationsNext]_inviteVars

--------------------------------------------------------------------------------
(* Properties. *)

\* Types, on either backend; and a row is accepted exactly when it made a user.
InvitationsTypeOK ==
    /\ Len(invitations) <= MaxInvitations
    /\ \A i \in Rows : invitations[i].email \in Emails /\ invitations[i].role \in InviteRoles
    /\ \A i \in Rows : invitations[i].accepted = \E m \in members : m.by = i

\* On either backend an address becomes one user at most, with the role of the one
\* invitation it used, though several invitations and requests race for it.
OneUserPerInvitee ==
    /\ \A m, n \in members : m.email = n.email => m = n
    /\ \A m \in members : m.role = invitations[m.by].role /\ m.email = invitations[m.by].email

\* On SQLite an address never has two invitations that could both be used.
OneActiveInvitation ==
    inviteDb = "sqlite" =>
        \A i, j \in Rows : Pending(i) /\ Pending(j) /\ invitations[i].email = invitations[j].email => i = j

\* On SQLite a revocation that has committed wins: the invitation makes nobody a user.
RevokedIsRefused ==
    [][inviteDb = "sqlite" =>
          \A i \in Rows : invitations[i].revoked /\ ~invitations[i].accepted
                              => ~invitations'[i].accepted]_inviteVars

\* An invitation makes one user of the invited address and role, and none once it
\* has been revoked.
InvitationsAreSound ==
    /\ [](InvitationsTypeOK /\ OneUserPerInvitee /\ OneActiveInvitation)
    /\ RevokedIsRefused
===============================================================================
