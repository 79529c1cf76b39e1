---------------------------- MODULE AccessControl ----------------------------
(***************************************************************************)
(* Who may do what: roles bound to a user for the tenant or one fleet,     *)
(* tokens that carry what was read when they were signed, and the gate of  *)
(* a route, which finds the fleet of a request and asks Decide.            *)
(*                                                                         *)
(* A permission is a cell <<resource, action>>.  issueTokens fills in      *)
(* roles only; tokens with bindings are those of callers that sign them    *)
(* with SignAccessToken.                                                   *)
(***************************************************************************)
EXTENDS Naturals, FiniteSets

CONSTANTS
    FleetIds,       \* fleets
    BindRoles,      \* the roles that are bound
    MaxBindings     \* bound: bindings of the user

ASSUME AccessAssumption ==
    /\ MaxBindings \in Nat
    /\ BindRoles \subseteq {"owner", "admin", "fleet-admin", "operator", "auditor", "read-only"}


VARIABLES
    held,           \* user_roles of one user: at most one binding per role
    token,          \* its access token
    reply           \* the answer to the last request with the token: its fleet and cells

accessVars == <<held, token, reply>>

NoFleet == "none"
NoToken == [kind |-> "none"]
NoReply == [kind |-> "none"]
Resources == {"robot", "scan", "report", "insight", "audit", "fleet", "compliance",
              "tenant_admin", "system"}
Actions == {"read", "write", "execute", "admin", "verify", "export"}
Cells == Resources \X Actions

Roles == {"owner", "admin", "fleet-admin", "operator", "auditor", "read-only"}
Each(resources, actions) == resources \X actions
Watched == {"robot", "scan", "report", "insight", "fleet", "compliance"}

\* Bug: operators are given the writes of the fleet they work on.
SystemRolePermissions_Wide == [role \in Roles |->
    CASE role = "operator" -> Each(Watched, {"read", "write"})
      [] role = "auditor" -> Each(Watched, {"read"})
      [] OTHER -> {}]
\* The permission matrix.
SystemRolePermissions == [role \in Roles |->
    CASE role = "owner" -> Cells
      [] role = "admin" ->
            Each({"robot"}, {"read", "write", "admin", "export"})
            \cup Each({"scan"}, {"read", "execute", "admin", "export"})
            \cup Each({"report"}, {"read", "admin", "verify", "export"})
            \cup Each({"insight"}, {"read", "write", "execute", "admin"})
            \cup Each({"audit"}, {"read", "verify", "export"})
            \cup Each({"fleet"}, {"read", "write", "admin"})
            \cup Each({"compliance"}, {"read", "write", "execute", "admin", "export"})
            \cup Each({"tenant_admin", "system"}, {"read", "admin"})
      [] role = "fleet-admin" ->
            Each({"robot"}, {"read", "write", "admin"})
            \cup Each({"scan"}, {"read", "execute", "admin"})
            \cup Each({"report"}, {"read", "admin"})
            \cup Each({"insight"}, {"read", "write", "execute"})
            \cup Each({"fleet"}, {"read", "write"})
            \cup Each({"compliance"}, {"read", "execute"})
      [] role = "operator" ->
            Each(Watched, {"read"}) \cup {<<"robot", "write">>, <<"scan", "execute">>}
      [] role = "auditor" ->
            Each(Watched \cup {"audit", "system"}, {"read"})
            \cup Each({"report", "audit"}, {"verify", "export"})
            \cup Each({"robot", "scan", "compliance"}, {"export"})
      [] role = "read-only" -> Each(Watched, {"read"})]

\* A binding is <<role, scope>>, the scope "tenant" or a fleet.
TenantScope == "tenant"
Scopes == {TenantScope} \cup FleetIds

AccessInit ==
    /\ held = {} /\ token = NoToken
    /\ reply = NoReply

--------------------------------------------------------------------------------
(* Bindings and tokens. *)

\* Bug: the key is the role and its scope.
AssignRoleScoped_Again(role, scope) ==
    /\ Cardinality(held) < MaxBindings
    /\ held' = held \cup {<<role, scope>>}
    /\ reply' = NoReply /\ UNCHANGED token
\* assignRoleScoped: a second binding of a role is dropped.
AssignRoleScoped(role, scope) ==
    /\ Cardinality(held) < MaxBindings
    /\ \A b \in held : b[1] # role
    /\ held' = held \cup {<<role, scope>>}
    /\ reply' = NoReply /\ UNCHANGED token

RevokeBinding(b) ==
    /\ held' = held \ {b}
    /\ reply' = NoReply /\ UNCHANGED token

\* Bug: only roles bound for the tenant get into the token.
RolesOf_Tenant(bindings) == {b[1] : b \in {c \in bindings : c[2] = TenantScope}}
\* GetUserRoles
RolesOf(bindings) == {b[1] : b \in bindings}

\* issueTokens: of the bindings, only the names of their roles are signed.
IssueTokens ==
    /\ token' = [kind |-> "roles", roles |-> RolesOf(held), bindings |-> {}]
    /\ reply' = NoReply /\ UNCHANGED held

\* SignAccessToken by a caller of its own: no handler of the server is one.
SignWithBindings ==
    /\ token' = [kind |-> "bindings", roles |-> RolesOf(held), bindings |-> held]
    /\ reply' = NoReply /\ UNCHANGED held

--------------------------------------------------------------------------------
(* A request. *)

\* bindingsForSubject: a token without bindings stands for its roles on the tenant.
BindingsForSubject(t) ==
    IF t.bindings # {} THEN t.bindings ELSE {<<role, TenantScope>> : role \in t.roles}

\* Bug: the scope of a binding is not looked at.
InScope_Any(b, fleet) == TRUE
InScope(b, fleet) == b[2] \in {TenantScope, fleet}

\* Decide, for every cell at once.
Decide(bindings, fleet) ==
    UNION {SystemRolePermissions[b[1]] : b \in {c \in bindings : InScope(c, fleet)}}

\* A resource that a route names: the fleet in its row and that of the row it refers to
\* (a report's session, an insight's robot).
NoResource == [kind |-> "none", own |-> NoFleet, of |-> NoFleet]
NamedResources ==
    {NoResource}
    \cup [kind : {"robot", "scan"}, own : FleetIds, of : {NoFleet}]
    \cup [kind : {"report"}, own : {NoFleet}, of : FleetIds \cup {NoFleet}]
    \cup {x \in [kind : {"insight"}, own : FleetIds \cup {NoFleet}, of : FleetIds \cup {NoFleet}] :
             x.own # NoFleet => x.of \in {NoFleet, x.own}}

\* Bug: only the resource's own row is asked.
ResolveFleet_Row(x) == x.own
\* A report and an insight without a fleet are followed to what they are about; a row
\* of another tenant, one that is gone and a kind that is not known count as no fleet.
ResolveFleet(x) == IF x.own # NoFleet THEN x.own ELSE x.of

\* Bug: what the body says comes before the route.
ExtractFleetID_Body(path, body, owner) ==
    IF body # NoFleet THEN body ELSE IF path # NoFleet THEN path ELSE owner
\* The route's own fleet, then the body's, then that of the resource it names; a body
\* that is too long or no JSON and a lookup that fails count as none.  (scope_resolver.go:71
\* puts the route last; its code asks it first.)
ExtractFleetID(path, body, owner) ==
    IF path # NoFleet THEN path ELSE IF body # NoFleet THEN body ELSE owner

RequirePermission(path, body, x) ==
    /\ token # NoToken /\ reply = NoReply
    /\ path # NoFleet => x = NoResource        \* bound: what such a route names is never asked
    /\ LET fleet == ExtractFleetID(path, body, ResolveFleet(x)) IN
       reply' = [kind |-> "answered", fleet |-> fleet, path |-> path, body |-> body, of |-> x,
                 cells |-> Decide(BindingsForSubject(token), fleet)]
    /\ UNCHANGED <<held, token>>

AccessNext ==
    \/ \E role \in BindRoles, scope \in Scopes : AssignRoleScoped(role, scope)
    \/ \E b \in held : RevokeBinding(b)
    \/ IssueTokens \/ SignWithBindings
    \/ \E path, body \in FleetIds \cup {NoFleet}, x \in NamedResources :
          RequirePermission(path, body, x)
AccessSpec == AccessInit /\ [][AccessNext]_accessVars

--------------------------------------------------------------------------------
(* Properties. *)

\* Types; one binding per role.
AccessTypeOK ==
    /\ held \subseteq BindRoles \X Scopes
    /\ \A b, c \in held : b[1] = c[1] => b = c
    /\ reply # NoReply => reply.cells \subseteq Cells /\ reply.fleet \in FleetIds \cup {NoFleet}

\* The table of decision_test.go, by cell: the roles that have it, owner apart.
RolesWith == [cell \in Cells |->
    LET everyone == {"read-only", "auditor", "operator", "fleet-admin", "admin"}
        working == {"operator", "fleet-admin", "admin"}
        fleets == {"fleet-admin", "admin"}
        outside == {"auditor", "admin"}
        resource == cell[1]
        action == cell[2] IN
    CASE action = "read" -> IF resource \in Watched THEN everyone
                            ELSE IF resource = "tenant_admin" THEN {"admin"} ELSE outside
      [] action = "write" -> IF resource = "robot" THEN working
                             ELSE IF resource \in {"insight", "fleet"} THEN fleets
                             ELSE IF resource = "compliance" THEN {"admin"} ELSE {}
      [] action = "execute" -> IF resource = "scan" THEN working
                               ELSE IF resource \in {"insight", "compliance"} THEN fleets ELSE {}
      [] action = "admin" -> IF resource \in {"robot", "scan", "report"} THEN fleets
                             ELSE IF resource = "audit" THEN {} ELSE {"admin"}
      [] action = "verify" -> IF resource \in {"report", "audit"} THEN outside ELSE {}
      [] action = "export" -> IF resource \in {"robot", "scan", "report", "audit", "compliance"}
                              THEN outside ELSE {}]

\* A request may use a cell exactly when one of the token's bindings, of a role the
\* table gives the cell, holds for the tenant or for the fleet of the request.
DecideFollowsTable ==
    reply # NoReply =>
        \A cell \in Cells :
            cell \in reply.cells <=>
                \E b \in BindingsForSubject(token) :
                    /\ b[1] \in RolesWith[cell] \cup {"owner"}
                    /\ b[2] = TenantScope \/ b[2] = reply.fleet

\* A route that names its fleet is judged by that fleet, whatever the body says.
RouteFleetWins ==
    reply # NoReply /\ reply.path # NoFleet => reply.fleet = reply.path

\* A request about something that belongs to a fleet by way of something else, a report
\* of its session or an insight about its robot, is decided for that fleet, and as one
\* without a fleet only if there is none.
ResourceIsOfItsFleet ==
    reply # NoReply /\ reply.path = NoFleet /\ reply.body = NoFleet =>
        /\ reply.fleet \in {reply.of.own, reply.of.of}
        /\ reply.fleet = NoFleet => reply.of.own = NoFleet /\ reply.of.of = NoFleet

\* What a token allows is fixed when it is signed.  One with bindings allows for each
\* fleet what its user then holds for it; one with names of roles only, and the server
\* signs no other, allows for every fleet what its user then holds for any.
TokenIsAsSigned ==
    [][token' # token =>
        \A fleet \in FleetIds \cup {NoFleet} :
            Decide(BindingsForSubject(token'), fleet) =
                IF token'.kind = "bindings" THEN Decide(held, fleet)
                ELSE UNION {SystemRolePermissions[b[1]] : b \in held}]_accessVars

\* Decisions follow the table of roles, the route names the fleet, what belongs to a fleet
\* is judged by it, and a token carries the rights of its signing, but for the scopes that
\* issueTokens leaves out.
RightsAreSound ==
    /\ [](AccessTypeOK /\ DecideFollowsTable /\ RouteFleetWins /\ ResourceIsOfItsFleet)
    /\ TokenIsAsSigned

\* Refuted.  tenant.go:137 says of a role bound for fleet_a "fleet_a 한정", and so does
\* jwt.go:35; rbac_fleet_integration_test.go:322 asks it of a token with bindings.
\* issueTokens signs the names of the roles, which bindingsForSubject takes to be bound
\* for the tenant: an operator of one fleet is one of every fleet.
FleetRolesStayInTheirFleet ==
    [][token' # token =>
        \A fleet \in FleetIds :
            Decide(BindingsForSubject(token'), fleet) \subseteq Decide(held, fleet)]_accessVars
================================================================================
