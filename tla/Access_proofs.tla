------------------------------ MODULE Access_proofs ------------------------------
(***************************************************************************)
(* Proofs about who is let in and with which rights: the permission matrix *)
(* and what it answers, refresh tokens and API keys, the onboarding of     *)
(* tenants and of users, and single sign-on with its conversation with an  *)
(* OpenID provider; for any number of people, requests, rows and           *)
(* providers' keys, on either backend.                                     *)
(***************************************************************************)
EXTENDS MCTrust, SequenceTheorems, TLAPS

--------------------------------------------------------------------------------
(* Sequences without duplicates. *)

\* What is in a sequence and in it once, by position.
LEMMA ByPosition ==
    ASSUME NEW S, NEW s \in Seq(S)
    PROVE  /\ IsInjective(s) <=> \A i, j \in 1..Len(s) : s[i] = s[j] => i = j
           /\ \A x : x \in Range(s) <=> \E i \in 1..Len(s) : s[i] = x
BY DEF IsInjective, Range

\* A new element may come last.
LEMMA AddLast ==
    ASSUME NEW S, NEW s \in Seq(S), NEW x \in S, IsInjective(s), x \notin Range(s)
    PROVE  /\ Append(s, x) \in Seq(S) /\ IsInjective(Append(s, x))
           /\ x \in Range(Append(s, x))
<1> DEFINE t == Append(s, x)
           n == Len(s)
<1>1. /\ t \in Seq(S) /\ Len(t) = n + 1 /\ n \in Nat
      /\ t[n + 1] = x /\ \A i \in 1..n : t[i] = s[i]
  OBVIOUS
<1>2. /\ \A i \in 1..n : s[i] # x
      /\ \A i, j \in 1..n : s[i] = s[j] => i = j
  BY ByPosition
<1> HIDE DEF t, n
<1>3. \A i \in 1..(n + 1) : i = n + 1 \/ i \in 1..n
  BY <1>1
<1>4. \A i, j \in 1..(n + 1) : t[i] = t[j] => i = j
  BY <1>1, <1>2, <1>3
<1>5. x \in Range(t) /\ IsInjective(t)
  <2>1. n + 1 \in 1..(n + 1)
    BY <1>1
  <2>2. QED
    BY <1>1, <1>4, <2>1, ByPosition
<1>6. QED
  BY <1>1, <1>5 DEF t

\* It may come first.
LEMMA AddFirst ==
    ASSUME NEW S, NEW s \in Seq(S), NEW x \in S, IsInjective(s), x \notin Range(s)
    PROVE  /\ <<x>> \o s \in Seq(S) /\ IsInjective(<<x>> \o s)
           /\ x \in Range(<<x>> \o s)
<1> DEFINE t == <<x>> \o s
           n == Len(s)
<1>0. <<x>> \in Seq(S) /\ Len(<<x>>) = 1 /\ <<x>>[1] = x
  OBVIOUS
<1>1. /\ t \in Seq(S) /\ Len(t) = 1 + n /\ n \in Nat
      /\ \A i \in 1..(1 + n) : t[i] = IF i <= 1 THEN <<x>>[i] ELSE s[i - 1]
  BY <1>0, ConcatProperties, LenProperties
<1>2. /\ \A i \in 1..n : s[i] # x
      /\ \A i, j \in 1..n : s[i] = s[j] => i = j
  BY ByPosition
<1> HIDE DEF t, n
<1>3. /\ 1 \in 1..(1 + n) /\ t[1] = x
      /\ \A i \in 1..(1 + n) : i # 1 => i - 1 \in 1..n /\ t[i] = s[i - 1]
  BY <1>0, <1>1
<1>4. ASSUME NEW i \in 1..(1 + n), NEW j \in 1..(1 + n), t[i] = t[j]
      PROVE  i = j
  <2>1. CASE i = 1 \/ j = 1
    BY <1>2, <1>3, <1>4, <2>1
  <2>2. CASE i # 1 /\ j # 1
    <3>1. i - 1 = j - 1
      BY <1>2, <1>3, <1>4, <2>2
    <3>2. QED
      BY <3>1
  <2>3. QED
    BY <2>1, <2>2
<1>5. x \in Range(t) /\ IsInjective(t)
  BY <1>1, <1>3, <1>4, ByPosition
<1>6. QED
  BY <1>1, <1>5 DEF t

\* Without one of its elements it has the others.
LEMMA LeaveOut ==
    ASSUME NEW S, NEW s \in Seq(S), NEW i \in DOMAIN s, IsInjective(s)
    PROVE  /\ RemoveAt(s, i) \in Seq(S) /\ IsInjective(RemoveAt(s, i))
           /\ \A x \in Range(s) : x # s[i] => x \in Range(RemoveAt(s, i))
<1> DEFINE n == Len(s)
           left == SubSeq(s, 1, i - 1)
           right == SubSeq(s, i + 1, n)
           t == left \o right
<1>0. /\ n \in Nat /\ i \in Nat /\ 1 <= i /\ i <= n /\ \A h \in 1..n : s[h] \in S
      /\ \A h, j \in 1..n : s[h] = s[j] => h = j
  BY ByPosition, LenProperties
<1>1. /\ left \in Seq(S) /\ Len(left) = i - 1
      /\ \A h \in 1..(i - 1) : left[h] = s[h]
  <2>1. \A h \in 1..(i - 1) : s[h] \in S
    BY <1>0
  <2>2. /\ left \in Seq(S) /\ Len(left) = IF 1 <= i - 1 THEN (i - 1) - 1 + 1 ELSE 0
        /\ \A h \in 1..((i - 1) - 1 + 1) : left[h] = s[1 + h - 1]
    BY <1>0, <2>1, SubSeqProperties
  <2> HIDE DEF left
  <2>3. (i - 1) - 1 + 1 = i - 1 /\ (~(1 <= i - 1) => i - 1 = 0) /\ \A h \in 1..(i - 1) : 1 + h - 1 = h
    BY <1>0
  <2>4. QED
    BY <2>2, <2>3
<1>2. /\ right \in Seq(S) /\ Len(right) = n - i
      /\ \A h \in 1..(n - i) : right[h] = s[i + h]
  <2>1. \A h \in (i + 1)..n : s[h] \in S
    BY <1>0
  <2>2. /\ right \in Seq(S) /\ Len(right) = IF i + 1 <= n THEN n - (i + 1) + 1 ELSE 0
        /\ \A h \in 1..(n - (i + 1) + 1) : right[h] = s[(i + 1) + h - 1]
    BY <1>0, <2>1, SubSeqProperties
  <2> HIDE DEF right
  <2>3. /\ n - (i + 1) + 1 = n - i /\ (~(i + 1 <= n) => n - i = 0)
        /\ \A h \in 1..(n - i) : (i + 1) + h - 1 = i + h
    BY <1>0
  <2>4. QED
    BY <2>2, <2>3
<1> HIDE DEF left, right
<1>3. /\ t \in Seq(S) /\ Len(t) = (i - 1) + (n - i)
      /\ \A h \in 1..((i - 1) + (n - i)) : t[h] = IF h <= i - 1 THEN left[h] ELSE right[h - (i - 1)]
  <2>1. /\ t \in Seq(S) /\ Len(t) = Len(left) + Len(right)
        /\ \A h \in 1..(Len(left) + Len(right)) :
               t[h] = IF h <= Len(left) THEN left[h] ELSE right[h - Len(left)]
    BY <1>1, <1>2, ConcatProperties
  <2> HIDE DEF t
  <2>2. QED
    BY <1>1, <1>2, <2>1
<1> HIDE DEF t, n
<1>4. (i - 1) + (n - i) = n - 1
  BY <1>0
<1>5. ASSUME NEW h \in 1..(n - 1), h < i
      PROVE  t[h] = s[h]
  <2>1. h \in 1..(i - 1) /\ h <= i - 1
    BY <1>0, <1>5
  <2>2. QED
    BY <1>1, <1>3, <1>4, <2>1
<1>6. ASSUME NEW h \in 1..(n - 1), ~(h < i)
      PROVE  t[h] = s[h + 1]
  <2>1. h - (i - 1) \in 1..(n - i) /\ i + (h - (i - 1)) = h + 1 /\ ~(h <= i - 1)
    BY <1>0, <1>6
  <2>2. QED
    BY <1>2, <1>3, <1>4, <2>1
<1>7. ASSUME NEW h \in 1..(n - 1), NEW j \in 1..(n - 1), t[h] = t[j]
      PROVE  h = j
  <2>1. h \in 1..n /\ j \in 1..n /\ h + 1 \in 1..n /\ j + 1 \in 1..n
    BY <1>0
  <2>2. CASE h < i /\ j < i
    BY <1>0, <1>5, <1>7, <2>1, <2>2
  <2>3. CASE h < i /\ ~(j < i)
    <3>1. h = j + 1
      BY <1>0, <1>5, <1>6, <1>7, <2>1, <2>3
    <3>2. QED
      BY <1>0, <2>3, <3>1
  <2>4. CASE ~(h < i) /\ j < i
    <3>1. h + 1 = j
      BY <1>0, <1>5, <1>6, <1>7, <2>1, <2>4
    <3>2. QED
      BY <1>0, <2>4, <3>1
  <2>5. CASE ~(h < i) /\ ~(j < i)
    <3>1. h + 1 = j + 1
      BY <1>0, <1>6, <1>7, <2>1, <2>5
    <3>2. QED
      BY <3>1
  <2>6. QED
    BY <2>2, <2>3, <2>4, <2>5
<1>8. ASSUME NEW x \in Range(s), x # s[i]
      PROVE  \E h \in 1..(n - 1) : t[h] = x
  <2>1. PICK h \in 1..n : s[h] = x
    BY ByPosition DEF n
  <2>2. h # i
    BY <1>8, <2>1
  <2>3. CASE h < i
    <3>1. h \in 1..(n - 1)
      BY <1>0, <2>3
    <3>2. QED
      BY <1>5, <2>1, <2>3, <3>1
  <2>4. CASE h > i
    <3>1. h - 1 \in 1..(n - 1) /\ ~(h - 1 < i) /\ (h - 1) + 1 = h
      BY <1>0, <2>4
    <3>2. t[h - 1] = s[(h - 1) + 1]
      BY <1>6, <3>1
    <3>3. QED
      BY <2>1, <3>1, <3>2
  <2>5. QED
    BY <1>0, <2>2, <2>3, <2>4
<1>9. IsInjective(t) /\ \A x \in Range(s) : x # s[i] => x \in Range(t)
  BY <1>3, <1>4, <1>7, <1>8, ByPosition
<1>10. t = RemoveAt(s, i)
  BY DEF RemoveAt, t, left, right, n
<1>11. QED
  BY <1>3, <1>9, <1>10


--------------------------------------------------------------------------------
(* Rights. *)

Has(duty, r, a) == <<r, a>> \in SystemRolePermissions[duty]
Listed(duty, r, a) == duty \in RolesWith[<<r, a>>] \cup {"owner"}

\* The permission matrix gives a role the cells that the table of the tests lists for it.
LEMMA MatrixIsTheTable ==
    \A duty \in Roles, r \in Resources, a \in Actions : Has(duty, r, a) <=> Listed(duty, r, a)
<1>0. \A r \in Resources, a \in Actions : <<r, a>> \in Cells
  BY DEF Cells
<1> USE DEF Has, Listed, SystemRolePermissions, Roles
<1>1. ASSUME NEW r \in Resources, NEW a \in Actions
      PROVE  Has("owner", r, a) <=> Listed("owner", r, a)
  BY <1>0
<1> USE DEF RolesWith, Each, Watched, Resources, Actions
<1>2. ASSUME NEW r \in Resources, NEW a \in Actions
      PROVE  Has("admin", r, a) <=> Listed("admin", r, a)
  BY <1>0
<1>3. ASSUME NEW r \in Resources, NEW a \in Actions
      PROVE  Has("fleet-admin", r, a) <=> Listed("fleet-admin", r, a)
  BY <1>0
<1>4. ASSUME NEW r \in Resources, NEW a \in Actions
      PROVE  Has("operator", r, a) <=> Listed("operator", r, a)
  BY <1>0
<1>5. ASSUME NEW r \in Resources, NEW a \in Actions
      PROVE  Has("auditor", r, a) <=> Listed("auditor", r, a)
  BY <1>0
<1>6. ASSUME NEW r \in Resources, NEW a \in Actions
      PROVE  Has("read-only", r, a) <=> Listed("read-only", r, a)
  BY <1>0
<1> HIDE DEF Has, Listed
<1>7. QED
  BY <1>1, <1>2, <1>3, <1>4, <1>5, <1>6

LEMMA CellsOfRoles ==
    ASSUME NEW duty \in BindRoles
    PROVE  /\ duty \in Roles /\ SystemRolePermissions[duty] \subseteq Cells
           /\ \A cell \in Cells :
                 cell \in SystemRolePermissions[duty] <=> duty \in RolesWith[cell] \cup {"owner"}
<1>1. duty \in Roles
  BY AccessAssumption DEF Roles
<1>2. SystemRolePermissions[duty] \subseteq Cells
  BY <1>1 DEF SystemRolePermissions, Roles, Each, Watched, Cells, Resources, Actions
<1>3. ASSUME NEW cell \in Cells
      PROVE  cell \in SystemRolePermissions[duty] <=> duty \in RolesWith[cell] \cup {"owner"}
  <2>1. PICK r \in Resources, a \in Actions : cell = <<r, a>>
    BY <1>3 DEF Cells
  <2>2. QED
    BY <1>1, <2>1, MatrixIsTheTable DEF Has, Listed
<1>4. QED
  BY <1>1, <1>2, <1>3

Bindings == BindRoles \X Scopes

\* Decide goes through the bindings in scope.
LEMMA DecideCells ==
    ASSUME NEW bindings, NEW fleet, NEW cell
    PROVE  cell \in Decide(bindings, fleet) <=>
              \E b \in bindings : InScope(b, fleet) /\ cell \in SystemRolePermissions[b[1]]
BY DEF Decide

LEMMA Decisions ==
    ASSUME NEW bindings \in SUBSET Bindings, NEW fleet
    PROVE  /\ Decide(bindings, fleet) \subseteq Cells
           /\ \A cell \in Cells : cell \in Decide(bindings, fleet) <=>
                 \E b \in bindings : /\ b[1] \in RolesWith[cell] \cup {"owner"}
                                     /\ b[2] = TenantScope \/ b[2] = fleet
<1>1. \A b \in bindings : b[1] \in BindRoles
  BY DEF Bindings
<1>2. \A cell : cell \in Decide(bindings, fleet) <=>
         \E b \in bindings : InScope(b, fleet) /\ cell \in SystemRolePermissions[b[1]]
  BY DecideCells
<1>3. QED
  BY <1>1, <1>2, CellsOfRoles DEF InScope

TokenType == [kind : {"roles", "bindings"}, roles : SUBSET BindRoles, bindings : SUBSET Bindings]
FleetNames == FleetIds \cup {NoFleet}
ResourceType == [kind : {"none", "robot", "scan", "report", "insight"}, own : FleetNames, of : FleetNames]
ReplyType == [kind : {"answered"}, fleet : FleetNames, path : FleetNames, body : FleetNames,
              of : ResourceType, cells : SUBSET Cells]

\* The last answer is that of Decide on the token, which has not changed since, for the
\* fleet that the request came to.
AnswerInv ==
    reply # NoReply =>
        /\ token # NoToken
        /\ reply.cells = Decide(BindingsForSubject(token), reply.fleet)
        /\ reply.fleet = ExtractFleetID(reply.path, reply.body, ResolveFleet(reply.of))

RightsInv ==
    /\ held \subseteq Bindings
    /\ \A b, c \in held : b[1] = c[1] => b = c
    /\ token \in {NoToken} \cup TokenType
    /\ reply \in {NoReply} \cup ReplyType
    /\ AnswerInv

LEMMA SubjectBindings ==
    ASSUME NEW t \in TokenType
    PROVE  BindingsForSubject(t) \subseteq Bindings
<1>1. t.roles \subseteq BindRoles /\ t.bindings \subseteq Bindings
  BY DEF TokenType
<1>2. TenantScope \in Scopes
  BY DEF Scopes
<1>3. QED
  BY <1>1, <1>2 DEF BindingsForSubject, Bindings

LEMMA RolesHeld ==
    ASSUME NEW bindings \in SUBSET Bindings
    PROVE  RolesOf(bindings) \subseteq BindRoles /\ \A b \in bindings : b[1] \in RolesOf(bindings)
BY DEF RolesOf, Bindings

\* What a route names.
LEMMA NamedTypes ==
    ASSUME NEW x \in NamedResources
    PROVE  x \in ResourceType /\ ResolveFleet(x) \in FleetNames /\ ResolveFleet(x) \in {x.own, x.of}
           /\ (ResolveFleet(x) = NoFleet => x.own = NoFleet /\ x.of = NoFleet)
<1>1. x \in ResourceType
  BY DEF NamedResources, NoResource, ResourceType, FleetNames
<1>2. x.own \in FleetNames /\ x.of \in FleetNames
  BY <1>1 DEF ResourceType
<1>3. QED
  BY <1>1, <1>2 DEF ResolveFleet

LEMMA RightsInit == AccessInit => RightsInv
BY DEF AccessInit, RightsInv, AnswerInv

\* An answer.
LEMMA Answers ==
    ASSUME RightsInv, NEW path \in FleetNames, NEW body \in FleetNames, NEW x \in NamedResources,
           RequirePermission(path, body, x)
    PROVE  RightsInv'
<1> DEFINE fleet == ExtractFleetID(path, body, ResolveFleet(x))
           answer == [kind |-> "answered", fleet |-> fleet, path |-> path, body |-> body, of |-> x,
                      cells |-> Decide(BindingsForSubject(token), fleet)]
<1>1. token \in TokenType /\ token # NoToken /\ token' = token /\ held' = held /\ reply' = answer
  BY DEF RequirePermission, RightsInv
<1>2. fleet \in FleetNames
  BY NamedTypes DEF ExtractFleetID
<1>3. Decide(BindingsForSubject(token), fleet) \subseteq Cells
  BY <1>1, SubjectBindings, Decisions
<1>4. answer \in ReplyType
  BY <1>2, <1>3, NamedTypes DEF ReplyType
<1>5. AnswerInv'
  BY <1>1 DEF AnswerInv
<1>6. QED
  BY <1>1, <1>4, <1>5 DEF RightsInv

LEMMA RightsNext == RightsInv /\ [AccessNext]_accessVars => RightsInv'
<1> SUFFICES ASSUME RightsInv, [AccessNext]_accessVars PROVE RightsInv'
  OBVIOUS
<1>1. ASSUME NEW duty \in BindRoles, NEW scope \in Scopes, AssignRoleScoped(duty, scope)
      PROVE  RightsInv'
  <2>1. held' = held \cup {<<duty, scope>>} /\ \A b \in held : b[1] # duty
    BY <1>1 DEF AssignRoleScoped
  <2>2. \A b, c \in held' : b[1] = c[1] => b = c
    BY <2>1 DEF RightsInv
  <2>3. QED
    BY <1>1, <2>1, <2>2 DEF AssignRoleScoped, RightsInv, AnswerInv, Bindings
<1>2. ASSUME NEW b \in held, RevokeBinding(b)
      PROVE  RightsInv'
  BY <1>2 DEF RevokeBinding, RightsInv, AnswerInv
<1>3. CASE IssueTokens
  <2>1. token' \in TokenType
    BY <1>3, RolesHeld DEF IssueTokens, TokenType, RightsInv
  <2>2. QED
    BY <1>3, <2>1 DEF IssueTokens, RightsInv, AnswerInv
<1>4. CASE SignWithBindings
  <2>1. token' \in TokenType
    BY <1>4, RolesHeld DEF SignWithBindings, TokenType, RightsInv
  <2>2. QED
    BY <1>4, <2>1 DEF SignWithBindings, RightsInv, AnswerInv
<1>5. ASSUME NEW path \in FleetNames, NEW body \in FleetNames, NEW x \in NamedResources,
             RequirePermission(path, body, x)
      PROVE  RightsInv'
  BY <1>5, Answers
<1>6. CASE UNCHANGED accessVars
  BY <1>6 DEF accessVars, RightsInv, AnswerInv
<1>7. QED
  BY <1>1, <1>2, <1>3, <1>4, <1>5, <1>6 DEF AccessNext, FleetNames

LEMMA RightsHold == RightsInv =>
    AccessTypeOK /\ DecideFollowsTable /\ RouteFleetWins /\ ResourceIsOfItsFleet
<1> SUFFICES ASSUME RightsInv
             PROVE  AccessTypeOK /\ DecideFollowsTable /\ RouteFleetWins /\ ResourceIsOfItsFleet
  OBVIOUS
<1>1. AccessTypeOK
  BY DEF RightsInv, AccessTypeOK, ReplyType, Bindings, FleetNames
<1>2. DecideFollowsTable
  BY SubjectBindings, Decisions DEF RightsInv, AnswerInv, DecideFollowsTable
<1>3. RouteFleetWins
  BY DEF RightsInv, AnswerInv, RouteFleetWins, ExtractFleetID
<1>4. ResourceIsOfItsFleet
  BY DEF RightsInv, AnswerInv, ResourceIsOfItsFleet, ExtractFleetID, ResolveFleet
<1>5. QED
  BY <1>1, <1>2, <1>3, <1>4

\* A token signed now allows what its kind carries of what is held.
LEMMA TokensAreAsSigned ==
    ASSUME RightsInv, [AccessNext]_accessVars, token' # token, NEW fleet
    PROVE  Decide(BindingsForSubject(token'), fleet) =
               IF token'.kind = "bindings" THEN Decide(held, fleet)
               ELSE UNION {SystemRolePermissions[b[1]] : b \in held}
<1>0. held \subseteq Bindings
  BY DEF RightsInv
<1>1. CASE IssueTokens
  <2>1. BindingsForSubject(token') = {<<duty, TenantScope>> : duty \in RolesOf(held)}
    BY <1>1 DEF IssueTokens, BindingsForSubject
  <2>2. token'.kind # "bindings"
    BY <1>1 DEF IssueTokens
  <2>3. ASSUME NEW b \in held
        PROVE  <<b[1], TenantScope>> \in BindingsForSubject(token')
    BY <1>0, <2>1, RolesHeld
  <2>4. ASSUME NEW b \in held
        PROVE  LET w == <<b[1], TenantScope>> IN InScope(w, fleet) /\ w[1] = b[1]
    BY DEF InScope
  <2>5. ASSUME NEW cell, NEW b \in held, cell \in SystemRolePermissions[b[1]]
        PROVE  cell \in Decide(BindingsForSubject(token'), fleet)
    <3> DEFINE w == <<b[1], TenantScope>>
    <3>1. w \in BindingsForSubject(token') /\ InScope(w, fleet) /\ w[1] = b[1]
      BY <2>3, <2>4
    <3> HIDE DEF w
    <3>2. QED
      BY <2>5, <3>1, DecideCells
  <2>6. ASSUME NEW cell \in Decide(BindingsForSubject(token'), fleet)
        PROVE  \E b \in held : cell \in SystemRolePermissions[b[1]]
    <3>1. PICK w \in BindingsForSubject(token') : cell \in SystemRolePermissions[w[1]]
      BY <2>6, DecideCells
    <3>2. PICK duty \in RolesOf(held) : w = <<duty, TenantScope>>
      BY <2>1
    <3>3. w[1] = duty
      BY <3>2
    <3>4. PICK b \in held : b[1] = duty
      BY DEF RolesOf
    <3>5. QED
      BY <3>1, <3>3, <3>4
  <2>7. QED
    BY <2>2, <2>5, <2>6
<1>2. CASE SignWithBindings
  <2>1. BindingsForSubject(token') = held
    BY <1>2 DEF SignWithBindings, BindingsForSubject, RolesOf
  <2>2. token'.kind = "bindings"
    BY <1>2 DEF SignWithBindings
  <2>3. QED
    BY <2>1, <2>2
<1>3. QED
  BY <1>1, <1>2 DEF AccessNext, accessVars, AssignRoleScoped, RevokeBinding, RequirePermission

\* Whatever is bound, revoked and signed in whatever order: a request is answered as the
\* table of roles says for the bindings of its token and the fleet it is about, and a token
\* carries what its user holds when it is signed, but for the scopes if it has roles only.
THEOREM RightsCorrect == AccessSpec => RightsAreSound
<1>1. AccessInit => RightsInv
  BY RightsInit
<1>2. RightsInv /\ [AccessNext]_accessVars => RightsInv'
  BY RightsNext
<1>3. RightsInv => AccessTypeOK /\ DecideFollowsTable /\ RouteFleetWins /\ ResourceIsOfItsFleet
  BY RightsHold
<1>4. RightsInv /\ [AccessNext]_accessVars =>
        [token' # token =>
            \A fleet \in FleetIds \cup {NoFleet} :
                Decide(BindingsForSubject(token'), fleet) =
                    IF token'.kind = "bindings" THEN Decide(held, fleet)
                    ELSE UNION {SystemRolePermissions[b[1]] : b \in held}]_accessVars
  BY TokensAreAsSigned
<1>5. QED
  BY <1>1, <1>2, <1>3, <1>4, PTL DEF AccessSpec, RightsAreSound, TokenIsAsSigned


--------------------------------------------------------------------------------
(* Logins. *)

RefreshType == [user : People, login : Nat \ {0}, parent : Nat, revoked : BOOLEAN, expired : BOOLEAN]

TokenRowsOK ==
    /\ tokenDb \in {"sqlite", "postgres"}
    /\ tokens \in Seq(RefreshType) /\ Len(tokens) <= MaxTokens
    /\ refreshing \in [Clients -> {0} \cup Issued]

\* A token comes of an earlier one of its user and login, and a login is numbered by its
\* first token; what a logout has revoked is revoked.
LineageInv ==
    /\ \A t \in Issued :
          /\ tokens[t].login <= t /\ tokens[t].parent < t
          /\ tokens[t].parent # 0 => /\ tokens[t].user = tokens[tokens[t].parent].user
                                     /\ tokens[t].login = tokens[tokens[t].parent].login
    /\ \A t \in signedOut : t \in Issued /\ tokens[t].revoked

\* On SQLite a request that has read a token is alone, and what it has read is still so.
ReadInv ==
    tokenDb = "sqlite" =>
        \A c \in Clients : refreshing[c] # 0 =>
            /\ Live(refreshing[c])
            /\ \A d \in Clients \ {c} : refreshing[d] = 0

TokensInv == TokenRowsOK /\ LineageInv /\ ReadInv /\ OneLiveTokenPerLogin

LEMMA TokenRowsTyped ==
    ASSUME TokenRowsOK
    PROVE  /\ Len(tokens) \in Nat /\ Issued = 1..Len(tokens)
           /\ \A t \in Issued : tokens[t] \in RefreshType
           /\ 0 \notin Issued
BY LenProperties DEF TokenRowsOK, Issued

\* One row is changed, and keeps whose it is.
SameToken(r, n) == n \in RefreshType /\ n.user = r.user /\ n.login = r.login /\ n.parent = r.parent
Changed(rows, new, t) ==
    /\ new \in Seq(RefreshType) /\ DOMAIN new = DOMAIN rows /\ Len(new) = Len(rows)
    /\ SameToken(rows[t], new[t])
    /\ \A s \in DOMAIN rows \ {t} : new[s] = rows[s]

LEMMA Replaced ==
    ASSUME TokenRowsOK, NEW t \in Issued, NEW n, SameToken(tokens[t], n)
    PROVE  Changed(tokens, [tokens EXCEPT ![t] = n], t) /\ [tokens EXCEPT ![t] = n][t] = n
<1>1. /\ [tokens EXCEPT ![t] = n] \in Seq(RefreshType)
      /\ Len([tokens EXCEPT ![t] = n]) = Len(tokens)
  BY ExceptSeq DEF TokenRowsOK, SameToken, Issued
<1>2. QED
  BY <1>1, TokenRowsTyped DEF Changed, SameToken, Issued

LEMMA RevokedRow ==
    ASSUME TokenRowsOK, NEW t \in Issued
    PROVE  LET new == RevokeRefresh(tokens, t) IN
           /\ Changed(tokens, new, t) /\ new[t].revoked
<1> DEFINE r == tokens[t]
           n == [r EXCEPT !.revoked = TRUE]
<1>1. r \in RefreshType
  BY TokenRowsTyped
<1>2. RevokeRefresh(tokens, t) = [tokens EXCEPT ![t] = n]
  BY DEF RevokeRefresh
<1> HIDE DEF r
<1>3. SameToken(r, n) /\ n.revoked = TRUE
  BY <1>1 DEF RefreshType, SameToken
<1> HIDE DEF n
<1>4. QED
  BY <1>2, <1>3, Replaced DEF r

LEMMA ExpiredRow ==
    ASSUME TokenRowsOK, NEW t \in Issued
    PROVE  LET new == [tokens EXCEPT ![t].expired = TRUE] IN
           /\ Changed(tokens, new, t) /\ new[t].revoked = tokens[t].revoked
<1> DEFINE r == tokens[t]
           n == [r EXCEPT !.expired = TRUE]
<1>1. r \in RefreshType
  BY TokenRowsTyped
<1>2. [tokens EXCEPT ![t].expired = TRUE] = [tokens EXCEPT ![t] = n]
  OBVIOUS
<1> HIDE DEF r
<1>3. SameToken(r, n) /\ n.revoked = r.revoked
  BY <1>1 DEF RefreshType, SameToken
<1> HIDE DEF n
<1>4. QED
  BY <1>2, <1>3, Replaced DEF r

NewToken(user, login, parent) ==
    [user |-> user, login |-> login, parent |-> parent, revoked |-> FALSE, expired |-> FALSE]

\* A row is appended.
Appended(rows, new, row) ==
    /\ new \in Seq(RefreshType) /\ Len(new) = Len(rows) + 1
    /\ Len(rows) \in Nat /\ DOMAIN rows = 1..Len(rows)
    /\ DOMAIN new = 1..(Len(rows) + 1)
    /\ \A s \in 1..Len(rows) : new[s] = rows[s]
    /\ new[Len(rows) + 1] = row

LEMMA IssuedRow ==
    ASSUME NEW rows \in Seq(RefreshType), NEW u \in People, NEW login \in Nat \ {0}, NEW parent \in Nat
    PROVE  Appended(rows, Issue(rows, u, login, parent), NewToken(u, login, parent))
<1>1. NewToken(u, login, parent) \in RefreshType
  BY DEF NewToken, RefreshType
<1>2. Issue(rows, u, login, parent) = Append(rows, NewToken(u, login, parent))
  BY DEF Issue, NewToken
<1>3. QED
  BY <1>1, <1>2, AppendProperties, LenProperties DEF Appended

\* What a login adds.
LEMMA LoginRow ==
    ASSUME TokenRowsOK, NEW u \in People, Login(u)
    PROVE  LET k == Len(tokens) + 1 IN
           /\ Len(tokens) \in Nat /\ Issued = 1..Len(tokens) /\ Issued' = Issued \cup {k}
           /\ \A s \in Issued : tokens'[s] = tokens[s] /\ tokens[s] \in RefreshType
           /\ tokens'[k] = NewToken(u, k, 0)
           /\ tokens' \in Seq(RefreshType) /\ Len(tokens') = k
<1> DEFINE k == Len(tokens) + 1
<1>1. /\ Len(tokens) \in Nat /\ Issued = 1..Len(tokens) /\ k \in Nat \ {0}
      /\ \A s \in Issued : tokens[s] \in RefreshType
      /\ tokens \in Seq(RefreshType)
  BY TokenRowsTyped DEF TokenRowsOK
<1>2. tokens' = Issue(tokens, u, k, 0)
  BY DEF Login
<1> HIDE DEF k
<1>3. Appended(tokens, tokens', NewToken(u, k, 0))
  BY <1>1, <1>2, IssuedRow
<1>4. QED
  BY <1>1, <1>3 DEF k, Issued, Appended

LEMMA TokensInitInv == TokensInit => TokensInv
<1> SUFFICES ASSUME TokensInit PROVE TokensInv
  OBVIOUS
<1>1. tokens \in Seq(RefreshType) /\ Len(tokens) = 0 /\ Issued = {}
  BY EmptySeq DEF TokensInit, Issued
<1>2. QED
  BY <1>1, AuthTokensAssumption
     DEF TokensInit, TokensInv, TokenRowsOK, LineageInv, ReadInv, OneLiveTokenPerLogin

\* A row is changed by who is alone on SQLite, or its revocation stays as it is.
LEMMA ChangeKeeps ==
    ASSUME TokensInv, NEW t \in Issued, Changed(tokens, tokens', t),
           tokens[t].revoked => tokens'[t].revoked,
           signedOut' \subseteq signedOut \cup {t}, t \in signedOut' => tokens'[t].revoked,
           tokenDb' = tokenDb, refreshing' = refreshing,
           CanBeginAuth \/ tokens'[t].revoked = tokens[t].revoked
    PROVE  TokensInv'
<1>0. /\ Len(tokens) \in Nat /\ Issued = 1..Len(tokens) /\ Issued' = Issued
      /\ \A s \in Issued : SameToken(tokens[s], tokens'[s]) /\ (tokens[s].revoked => tokens'[s].revoked)
      /\ \A s \in Issued : tokens[s] \in RefreshType
  BY TokenRowsTyped DEF Changed, TokensInv, Issued, SameToken
<1>1. TokenRowsOK'
  BY <1>0 DEF Changed, TokensInv, TokenRowsOK
<1>2. LineageInv'
  <2>1. \A s \in Issued : tokens[s].parent \in Nat /\ tokens[s].parent < s /\ s \in Nat
    BY <1>0 DEF TokensInv, LineageInv, RefreshType
  <2>2. \A s \in Issued : tokens[s].parent # 0 => tokens[s].parent \in Issued
    BY <1>0, <2>1
  <2>3. QED
    BY <1>0, <2>1, <2>2 DEF TokensInv, LineageInv, SameToken
<1>3. ReadInv'
  BY <1>0 DEF TokensInv, TokenRowsOK, ReadInv, Live, CanBeginAuth, Changed
<1>4. OneLiveTokenPerLogin'
  BY <1>0 DEF TokensInv, OneLiveTokenPerLogin, Live, SameToken
<1>5. QED
  BY <1>1, <1>2, <1>3, <1>4 DEF TokensInv

LEMMA LoginKeeps ==
    ASSUME TokensInv, NEW u \in People, Login(u)
    PROVE  TokensInv'
<1> DEFINE k == Len(tokens) + 1
<1>0. /\ Len(tokens) \in Nat /\ Issued = 1..Len(tokens) /\ Issued' = Issued \cup {k}
      /\ \A s \in Issued : tokens'[s] = tokens[s] /\ tokens[s] \in RefreshType
      /\ tokens'[k] = NewToken(u, k, 0)
      /\ tokens' \in Seq(RefreshType) /\ Len(tokens') = k
  BY LoginRow DEF TokensInv
<1>1. NewToken(u, k, 0).login = k /\ NewToken(u, k, 0).parent = 0
  BY DEF NewToken
<1>2. /\ tokenDb' = tokenDb /\ refreshing' = refreshing /\ signedOut' = signedOut
      /\ Len(tokens) < MaxTokens /\ (tokenDb = "sqlite" => \A c \in Clients : refreshing[c] = 0)
  BY DEF Login, CanBeginAuth
<1> HIDE DEF k
<1>3. k \notin Issued /\ k \in Nat /\ k <= MaxTokens /\ \A s \in Issued : s < k
  BY <1>0, <1>2, AuthTokensAssumption DEF k
<1>4. TokenRowsOK'
  BY <1>0, <1>2, <1>3 DEF TokensInv, TokenRowsOK
<1>5. LineageInv'
  <2>1. \A s \in Issued : tokens[s].parent # 0 => tokens[s].parent \in Issued
    BY <1>0 DEF TokensInv, LineageInv, RefreshType
  <2>2. QED
    <3>1. \A s \in Issued : /\ tokens'[s].login <= s /\ tokens'[s].parent < s
                            /\ tokens'[s].parent # 0 =>
                                  /\ tokens'[s].user = tokens'[tokens'[s].parent].user
                                  /\ tokens'[s].login = tokens'[tokens'[s].parent].login
      BY <1>0, <2>1 DEF TokensInv, LineageInv
    <3>2. /\ tokens'[k].login <= k /\ tokens'[k].parent = 0 /\ 0 < k
      BY <1>0, <1>1, <1>3 DEF k
    <3>3. \A s \in signedOut' : s \in Issued /\ tokens'[s].revoked
      BY <1>0, <1>2 DEF TokensInv, LineageInv
    <3>4. QED
      BY <1>0, <3>1, <3>2, <3>3 DEF LineageInv
<1>6. ReadInv'
  BY <1>2 DEF ReadInv
<1>7. OneLiveTokenPerLogin'
  <2>1. \A s \in Issued : tokens[s].login <= s /\ tokens[s].login \in Nat
    BY <1>0 DEF TokensInv, LineageInv, RefreshType
  <2>2. \A s \in Issued : tokens'[s].login # tokens'[k].login
    BY <1>0, <1>1, <1>3, <2>1
  <2>3. QED
    BY <1>0, <1>2, <2>2 DEF TokensInv, OneLiveTokenPerLogin, Live
<1>8. QED
  BY <1>4, <1>5, <1>6, <1>7 DEF TokensInv

LEMMA CommitKeeps ==
    ASSUME TokensInv, NEW c \in Clients, CommitRefresh(c)
    PROVE  TokensInv' /\ (tokenDb = "sqlite" =>
                             \A t \in Issued' \ Issued : tokens'[t].parent \notin signedOut)
<1> DEFINE k == Len(tokens) + 1
           t == refreshing[c]
           old == RevokeRefresh(tokens, t)
           row == NewToken(tokens[t].user, tokens[t].login, t)
<1>0. /\ Len(tokens) \in Nat /\ Issued = 1..Len(tokens)
      /\ \A s \in Issued : tokens[s] \in RefreshType
      /\ t \in Issued /\ t \in Nat \ {0}
  BY TokenRowsTyped DEF CommitRefresh, TokensInv, TokenRowsOK
<1>1. Changed(tokens, old, t) /\ old[t].revoked
  BY <1>0, RevokedRow DEF TokensInv
<1>2. tokens[t].user \in People /\ tokens[t].login \in Nat \ {0}
  BY <1>0 DEF RefreshType
<1>3. tokens' = Issue(old, tokens[t].user, tokens[t].login, t)
  BY DEF CommitRefresh
<1>4. /\ tokenDb' = tokenDb /\ refreshing' = [refreshing EXCEPT ![c] = 0] /\ signedOut' = signedOut
      /\ Len(tokens) < MaxTokens
  BY DEF CommitRefresh
<1> HIDE DEF old, row
<1>5. /\ Issued' = Issued \cup {k} /\ Len(tokens') = k /\ tokens' \in Seq(RefreshType)
      /\ \A s \in Issued : /\ SameToken(tokens[s], tokens'[s])
                           /\ s = t => tokens'[s].revoked
                           /\ s # t => tokens'[s] = tokens[s]
      /\ tokens'[k] = row
  <2>1. old \in Seq(RefreshType) /\ Len(old) = Len(tokens)
    BY <1>1 DEF Changed
  <2>2. /\ tokens' \in Seq(RefreshType) /\ Len(tokens') = k /\ DOMAIN tokens' = 1..k
        /\ \A s \in 1..Len(tokens) : tokens'[s] = old[s]
        /\ tokens'[k] = row
    <3> DEFINE u == tokens[t].user
               n == tokens[t].login
    <3>1. u \in People /\ n \in Nat \ {0} /\ t \in Nat /\ tokens' = Issue(old, u, n, t)
      BY <1>0, <1>2, <1>3
    <3>2. row = NewToken(u, n, t)
      BY DEF row
    <3> HIDE DEF u, n, t
    <3>3. Appended(old, tokens', row)
      BY <2>1, <3>1, <3>2, IssuedRow
    <3>4. QED
      BY <2>1, <3>3 DEF Appended
  <2>3. \A s \in Issued : /\ SameToken(tokens[s], old[s])
                          /\ s # t => old[s] = tokens[s]
    BY <1>0, <1>1 DEF Changed, Issued, SameToken
  <2>4. QED
    BY <1>0, <1>1, <2>2, <2>3 DEF Issued
<1>6. row.login = tokens[t].login /\ row.user = tokens[t].user /\ row.parent = t
  BY DEF row, NewToken
<1>7. k \notin Issued /\ k \in Nat /\ k <= MaxTokens /\ t < k /\ \A s \in Issued : s < k /\ s \in Nat
  BY <1>0, <1>4, AuthTokensAssumption
<1> HIDE DEF k
<1>8. TokenRowsOK'
  BY <1>4, <1>5, <1>7 DEF TokensInv, TokenRowsOK
<1>9. LineageInv'
  <2>1. \A s \in Issued : /\ tokens[s].parent \in Nat /\ tokens[s].parent < s
                          /\ tokens[s].parent # 0 => tokens[s].parent \in Issued
    BY <1>0 DEF TokensInv, LineageInv, RefreshType
  <2>2. /\ row.login <= k /\ row.parent < k /\ row.parent \in Issued
        /\ row.user = tokens'[t].user /\ row.login = tokens'[t].login
    BY <1>0, <1>2, <1>5, <1>6, <1>7 DEF TokensInv, LineageInv, SameToken
  <2>3. \A s \in Issued : /\ tokens'[s].login <= s /\ tokens'[s].parent < s
                          /\ tokens'[s].parent # 0 =>
                                /\ tokens'[s].user = tokens'[tokens'[s].parent].user
                                /\ tokens'[s].login = tokens'[tokens'[s].parent].login
    BY <1>5, <2>1 DEF TokensInv, LineageInv, SameToken
  <2>4. \A s \in signedOut' : s \in Issued /\ tokens'[s].revoked
    BY <1>4, <1>5 DEF TokensInv, LineageInv
  <2>5. QED
    BY <1>5, <1>6, <2>2, <2>3, <2>4 DEF LineageInv
<1>10. ReadInv'
  <2>1. tokenDb = "sqlite" => \A d \in Clients : refreshing'[d] = 0
    BY <1>0, <1>4 DEF TokensInv, TokenRowsOK, ReadInv
  <2>2. QED
    BY <1>4, <2>1 DEF ReadInv
<1>11. tokenDb = "sqlite" => Live(t)
  BY <1>0 DEF TokensInv, ReadInv
<1>12. OneLiveTokenPerLogin'
  BY <1>0, <1>4, <1>5, <1>6, <1>11 DEF TokensInv, OneLiveTokenPerLogin, Live, SameToken
<1>13. tokenDb = "sqlite" => t \notin signedOut
  BY <1>11 DEF TokensInv, LineageInv, Live
<1>14. QED
  BY <1>5, <1>6, <1>8, <1>9, <1>10, <1>12, <1>13 DEF TokensInv

\* A step keeps the invariant, and what it issues was not signed out.
LEMMA TokensStep ==
    ASSUME TokensInv, [TokensNext]_tokenVars
    PROVE  TokensInv' /\ (tokenDb = "sqlite" =>
                             \A t \in DOMAIN tokens' \ Issued : tokens'[t].parent \notin signedOut)
<1> DEFINE Goal == TokensInv' /\ (tokenDb = "sqlite" =>
                      \A t \in DOMAIN tokens' \ Issued : tokens'[t].parent \notin signedOut)
<1>0. TokenRowsOK /\ 0 \notin signedOut
  BY TokenRowsTyped DEF TokensInv, LineageInv
<1>1. ASSUME NEW u \in People, Login(u)
      PROVE  Goal
  <2> DEFINE k == Len(tokens) + 1
  <2>1. tokens'[k] = NewToken(u, k, 0) /\ DOMAIN tokens' = Issued \cup {k} /\ Issued = 1..Len(tokens)
        /\ Len(tokens) \in Nat
    BY <1>0, <1>1, LoginRow DEF Issued
  <2>2. tokens'[k].parent = 0
    BY <2>1 DEF NewToken
  <2>3. DOMAIN tokens' \ Issued = {k}
    BY <2>1
  <2> HIDE DEF k
  <2>4. QED
    BY <1>0, <1>1, <2>2, <2>3, LoginKeeps
<1>2. ASSUME NEW t \in Issued, Expire(t)
      PROVE  Goal
  <2>1. Changed(tokens, tokens', t) /\ tokens'[t].revoked = tokens[t].revoked
    BY <1>0, <1>2, ExpiredRow DEF Expire
  <2>2. TokensInv'
    BY <1>2, <2>1, ChangeKeeps DEF Expire, TokensInv, LineageInv
  <2>3. QED
    BY <2>1, <2>2 DEF Changed, Issued
<1>3. ASSUME NEW t \in Issued, Logout(t)
      PROVE  Goal
  <2>1. Changed(tokens, tokens', t) /\ tokens'[t].revoked
    BY <1>0, <1>3, RevokedRow DEF Logout
  <2>2. TokensInv'
    BY <1>3, <2>1, ChangeKeeps DEF Logout
  <2>3. QED
    BY <2>1, <2>2 DEF Changed, Issued
<1>4. ASSUME NEW c \in Clients, NEW t \in Issued, ReadRefresh(c, t)
      PROVE  Goal
  <2>1. tokens' = tokens /\ signedOut' = signedOut /\ tokenDb' = tokenDb
        /\ refreshing' = [refreshing EXCEPT ![c] = t] /\ Issued' = Issued
    BY <1>4 DEF ReadRefresh, Issued
  <2>2. ReadInv'
    BY <1>0, <1>4, <2>1 DEF ReadRefresh, ReadInv, TokenRowsOK, CanBeginAuth, Presentable, Live
  <2>3. QED
    BY <2>1, <2>2 DEF TokensInv, TokenRowsOK, LineageInv, OneLiveTokenPerLogin, Live, Issued
<1>5. ASSUME NEW c \in Clients, CommitRefresh(c)
      PROVE  Goal
  BY <1>5, CommitKeeps DEF Issued
<1>6. ASSUME NEW c \in Clients, AbortRefresh(c)
      PROVE  Goal
  <2>1. tokens' = tokens /\ signedOut' = signedOut /\ tokenDb' = tokenDb
        /\ refreshing' = [refreshing EXCEPT ![c] = 0] /\ Issued' = Issued
    BY <1>6 DEF AbortRefresh, Issued
  <2>2. ReadInv'
    BY <1>0, <1>6, <2>1 DEF TokensInv, ReadInv, TokenRowsOK, Live
  <2>3. QED
    BY <2>1, <2>2 DEF TokensInv, TokenRowsOK, LineageInv, OneLiveTokenPerLogin, Live, Issued
<1>7. CASE (\E t \in Issued : PresentRevoked(t)) \/ UNCHANGED tokenVars
  BY <1>7 DEF PresentRevoked, tokenVars, TokensInv, TokenRowsOK, LineageInv, ReadInv,
              OneLiveTokenPerLogin, Live, Issued
<1>8. QED
  BY <1>1, <1>2, <1>3, <1>4, <1>5, <1>6, <1>7 DEF TokensNext

LEMMA TokensTyped == TokensInv => TokensTypeOK
<1> SUFFICES ASSUME TokensInv PROVE TokensTypeOK
  OBVIOUS
<1>1. /\ Len(tokens) \in Nat /\ Issued = 1..Len(tokens)
      /\ \A t \in Issued : tokens[t].user \in People /\ tokens[t].parent \in Nat
  BY TokenRowsTyped DEF TokensInv, RefreshType
<1>2. QED
  BY <1>1 DEF TokensInv, TokenRowsOK, LineageInv, TokensTypeOK

\* Whoever signs in, refreshes, retries and signs out in whatever order: on SQLite a login
\* has at most one refresh token that is not revoked, and after a logout none comes of it.
THEOREM LoginsCorrect == TokensSpec => LoginsAreSound
<1>1. TokensInit => TokensInv
  BY TokensInitInv
<1>2. TokensInv /\ [TokensNext]_tokenVars => TokensInv'
  BY TokensStep
<1>3. TokensInv => TokensTypeOK /\ OneLiveTokenPerLogin
  BY TokensTyped DEF TokensInv
<1>4. TokensInv /\ [TokensNext]_tokenVars =>
        [tokenDb = "sqlite" =>
            \A t \in DOMAIN tokens' \ Issued : tokens'[t].parent \notin signedOut]_tokenVars
  BY TokensStep
<1>5. QED
  BY <1>1, <1>2, <1>3, <1>4, PTL DEF TokensSpec, LoginsAreSound, SignedOutStaysOut


--------------------------------------------------------------------------------
(* API keys. *)

KeyType == [tenant : KeyTenants, token : Tokens, revoked : BOOLEAN, expired : BOOLEAN]
KeysInv == apiKeys \subseteq KeyType

\* A key stays, of its tenant and with its token.
SameKey(k, n) == n \in KeyType /\ n.token = k.token /\ n.tenant = k.tenant

LEMMA KeyRows ==
    ASSUME NEW k \in KeyType
    PROVE  /\ SameKey(k, k) /\ k.revoked \in BOOLEAN
           /\ LET n == [k EXCEPT !.revoked = TRUE] IN SameKey(k, n) /\ n.revoked = TRUE
           /\ LET n == [k EXCEPT !.expired = TRUE] IN SameKey(k, n) /\ n.revoked = k.revoked
BY DEF KeyType, SameKey

KeysOnly ==
    keyReply' # keyReply /\ keyReply'.op = "auth" /\ keyReply'.said = "ok" =>
        \E k \in apiKeys : k.token = keyReply'.token /\ k.tenant = keyReply'.tenant /\ KeyUsable(k)
KeysApart ==
    /\ \A k \in apiKeys : \E n \in apiKeys' :
          /\ n.token = k.token /\ n.tenant = k.tenant
          /\ k.revoked => n.revoked
          /\ n.revoked # k.revoked => keyReply'.op = "revoke" /\ keyReply'.tenant = k.tenant
    /\ keyReply'.op = "list" => \A k \in keyReply'.rows : k.tenant = keyReply'.tenant
KeysGoal == KeysInv' /\ KeysOnly /\ KeysApart

\* Where the rows stay as they are, only the answer matters.
LEMMA KeysStay ==
    ASSUME KeysInv, \A k \in apiKeys : k \in apiKeys', keyReply'.op # "list"
    PROVE  KeysApart
BY DEF KeysApart

LEMMA IssueKeeps ==
    ASSUME KeysInv, NEW t \in KeyTenants, NEW tok \in Tokens, IssueApiKey(t, tok)
    PROVE  KeysGoal
<1>1. keyReply'.op = "issued" /\ \A k \in apiKeys : k \in apiKeys'
  BY DEF IssueApiKey
<1>2. [tenant |-> t, token |-> tok, revoked |-> FALSE, expired |-> FALSE] \in KeyType
  BY DEF KeyType
<1>3. KeysInv'
  BY <1>2 DEF KeysInv, IssueApiKey
<1>4. QED
  BY <1>1, <1>3, KeysStay DEF KeysGoal, KeysOnly

LEMMA AuthenticateKeeps ==
    ASSUME KeysInv, NEW tok \in Tokens, AuthenticateApiKey(tok)
    PROVE  KeysGoal
<1>1. apiKeys' = apiKeys /\ keyReply'.op = "auth"
  BY DEF AuthenticateApiKey
<1>2. KeysOnly
  <2>1. CASE keyReply' = [op |-> "auth", token |-> tok, tenant |-> "none", said |-> "unknown"]
    BY <2>1 DEF KeysOnly
  <2>2. CASE \E k \in apiKeys :
               keyReply' = [op |-> "auth", token |-> tok, tenant |-> k.tenant,
                            said |-> IF Verified(tok, k) THEN KeyError(k) ELSE "unknown"]
    BY <2>2 DEF KeysOnly, Verified, KeyError, KeyUsable
  <2>3. QED
    BY <2>1, <2>2 DEF AuthenticateApiKey
<1>3. QED
  BY <1>1, <1>2, KeysStay DEF KeysGoal, KeysInv

LEMMA RevokeKeeps ==
    ASSUME KeysInv, NEW t \in KeyTenants, NEW k \in apiKeys, RevokeApiKey(t, k)
    PROVE  KeysGoal
<1> DEFINE n == [k EXCEPT !.revoked = TRUE]
<1>1. k \in KeyType /\ SameKey(k, n) /\ n.revoked = TRUE
  BY KeyRows DEF KeysInv
<1>2. keyReply'.op = "revoke" /\ keyReply'.tenant = t
  BY DEF RevokeApiKey
<1>3. apiKeys' = IF Owned(t, k) THEN (apiKeys \ {k}) \cup {n} ELSE apiKeys
  BY DEF RevokeApiKey
<1> HIDE DEF n
<1>4. KeysInv'
  BY <1>1, <1>3 DEF KeysInv, SameKey
<1>5. KeysApart
  <2>1. CASE Owned(t, k)
    BY <1>1, <1>2, <1>3, <2>1 DEF KeysApart, Owned, SameKey
  <2>2. CASE ~Owned(t, k)
    BY <1>2, <1>3, <2>2, KeysStay
  <2>3. QED
    BY <2>1, <2>2
<1>6. QED
  BY <1>2, <1>4, <1>5 DEF KeysGoal, KeysOnly

LEMMA ExpireKeeps ==
    ASSUME KeysInv, NEW k \in apiKeys, ExpireApiKey(k)
    PROVE  KeysGoal
<1> DEFINE n == [k EXCEPT !.expired = TRUE]
<1>1. k \in KeyType /\ SameKey(k, n) /\ n.revoked = k.revoked
  BY KeyRows DEF KeysInv
<1>2. keyReply'.op = "none"
  BY DEF ExpireApiKey, NoKeyReply
<1>3. apiKeys' = (apiKeys \ {k}) \cup {n}
  BY DEF ExpireApiKey
<1> HIDE DEF n
<1>4. KeysInv'
  BY <1>1, <1>3 DEF KeysInv, SameKey
<1>5. KeysApart
  BY <1>1, <1>2, <1>3 DEF KeysApart, SameKey
<1>6. QED
  BY <1>2, <1>4, <1>5 DEF KeysGoal, KeysOnly

LEMMA ListKeeps ==
    ASSUME KeysInv, NEW t \in KeyTenants, ListApiKeys(t)
    PROVE  KeysGoal
<1>1. /\ apiKeys' = apiKeys /\ keyReply'.op = "list" /\ keyReply'.tenant = t
      /\ keyReply'.rows = {k \in apiKeys : Owned(t, k)}
  BY DEF ListApiKeys
<1>2. QED
  BY <1>1 DEF KeysGoal, KeysInv, KeysOnly, KeysApart, Owned

LEMMA KeysStep ==
    ASSUME KeysInv, ApiKeysNext
    PROVE  KeysGoal
BY IssueKeeps, AuthenticateKeeps, RevokeKeeps, ExpireKeeps, ListKeeps DEF ApiKeysNext

\* A caller is let in with the whole token of a live key only, and as the tenant it was
\* issued for, whoever else has a key with its first characters; and what a tenant does
\* leaves the keys of the others alone.
THEOREM ApiKeysCorrect == ApiKeysSpec => ApiKeysAreSound
<1>1. ApiKeysInit => KeysInv
  BY DEF ApiKeysInit, KeysInv
<1>2. KeysInv /\ [ApiKeysNext]_apiKeyVars => KeysInv'
  BY KeysStep DEF KeysGoal, apiKeyVars, KeysInv
<1>3. KeysInv /\ [ApiKeysNext]_apiKeyVars => [KeysOnly]_apiKeyVars
  BY KeysStep DEF KeysGoal
<1>4. KeysInv /\ [ApiKeysNext]_apiKeyVars => [KeysApart]_apiKeyVars
  BY KeysStep DEF KeysGoal
<1>5. QED
  BY <1>1, <1>2, <1>3, <1>4, PTL
     DEF ApiKeysSpec, ApiKeysAreSound, OnlyLiveKeysAuthenticate, KeysStayApart, KeysOnly, KeysApart

--------------------------------------------------------------------------------
(* Onboarding. *)

IntakeType == [status : {"none", "pending", "accepted", "rejected"},
               plan : {"none", "community", "pro", "enterprise"}, tenant : Nat]
CustomerType == [by : Intakes \cup {"seed"}, plan : {"desktop_free", "desktop_pro", "enterprise"},
                 roles : SUBSET (Nat \X SystemRoles), admin : [tenant : Nat, role : SystemRoles]]
ReviewType == [op : {"seed", "accept", "reject"}, intake : Intakes]
AnswerType == [intake : Intakes, verdict : Decided, tenant : Nat]

OnboardingRowsOK ==
    /\ intakes \in [Intakes -> IntakeType]
    /\ customers \in Seq(CustomerType) /\ Len(customers) <= MaxCustomers
    /\ reviewing \in [Reviews -> {NoReview} \cup ReviewType]
    /\ answers \subseteq AnswerType

\* What an intake names exists, and was made for it.
NamedExists ==
    \A c \in Intakes : intakes[c].tenant # 0 => intakes[c].tenant \in Tenants

\* On SQLite reviews run one at a time, so that an intake under review is undecided.
ReviewedIsPending ==
    intakeDb = "sqlite" =>
        \A q \in Reviews : reviewing[q] # NoReview =>
            /\ intakes[reviewing[q].intake].status = "pending"
            /\ \A r \in Reviews : reviewing[r] # NoReview => r = q

\* Reviewers are told of decisions that have been made, on SQLite of their own.
OnboardingInv ==
    /\ OnboardingRowsOK /\ NamedExists /\ ReviewedIsPending
    /\ IntakeNamesItsTenant /\ TenantHasItsAdmin /\ DecidedOnce

\* The invariant once more for the intakes and customers of a step.
Rest ==
    /\ intakes' \in [Intakes -> IntakeType] /\ customers' \in Seq(CustomerType)
    /\ Len(customers') <= MaxCustomers /\ answers' \subseteq AnswerType
    /\ NamedExists' /\ IntakeNamesItsTenant' /\ TenantHasItsAdmin' /\ DecidedOnce'

LEMMA CustomerRows ==
    ASSUME OnboardingRowsOK
    PROVE  \A t \in Tenants : customers[t].by \in Intakes \cup {"seed"} /\ t # 0
<1>1. Tenants = 1..Len(customers) /\ Len(customers) \in Nat
  BY DEF OnboardingRowsOK, Tenants
<1>2. \A t \in Tenants : customers[t] \in CustomerType
  BY <1>1 DEF OnboardingRowsOK
<1>3. QED
  BY <1>1, <1>2 DEF CustomerType

LEMMA RowsStay ==
    ASSUME OnboardingInv, UNCHANGED <<intakeDb, intakes, customers, answers>>
    PROVE  Rest
BY DEF OnboardingInv, OnboardingRowsOK, Rest, NamedExists, IntakeNamesItsTenant, TenantHasItsAdmin,
       DecidedOnce, Tenants

LEMMA ReviewsStay ==
    ASSUME OnboardingInv, NEW q \in Reviews, NEW r \in {NoReview} \cup ReviewType,
           UNCHANGED <<intakeDb, intakes>>,
           reviewing' = [reviewing EXCEPT ![q] = r],
           r # NoReview /\ intakeDb = "sqlite" =>
               /\ intakes[r.intake].status = "pending"
               /\ \A p \in Reviews : reviewing[p] # NoReview => p = q
    PROVE  reviewing' \in [Reviews -> {NoReview} \cup ReviewType] /\ ReviewedIsPending'
BY DEF OnboardingInv, OnboardingRowsOK, ReviewedIsPending

\* A tenant comes last, with its own admin, and the others stay.
LEMMA TenantMade ==
    ASSUME OnboardingRowsOK, NEW by \in Intakes \cup {"seed"},
           NEW plan \in {"desktop_free", "desktop_pro", "enterprise"}, CreateTenant(by, plan)
    PROVE  LET t == Len(customers) + 1 IN
           /\ customers' \in Seq(CustomerType) /\ Len(customers') <= MaxCustomers
           /\ t \in Nat \ {0} /\ t \notin Tenants /\ Tenants' = Tenants \cup {t}
           /\ \A s \in Tenants : customers'[s] = customers[s]
           /\ customers'[t].by = by /\ customers'[t].plan = plan
           /\ <<customers'[t].admin.tenant, customers'[t].admin.role>> \in customers'[t].roles
           /\ customers'[t].admin.tenant = t
<1> DEFINE t == Len(customers) + 1
           row == [by |-> by, plan |-> plan, roles |-> {<<t, r>> : r \in SystemRoles}, admin |-> FirstAdmin(t)]
<1>1. t \in Nat \ {0} /\ t <= MaxCustomers /\ customers' = Append(customers, row)
  BY DEF OnboardingRowsOK, CreateTenant
<1>2. FirstAdmin(t) = [tenant |-> t, role |-> "admin"]
  BY DEF FirstAdmin
<1>3. row \in CustomerType
  BY <1>1, <1>2 DEF CustomerType, SystemRoles
<1>4. /\ row.by = by /\ row.plan = plan /\ row.admin.tenant = t
      /\ <<row.admin.tenant, row.admin.role>> \in row.roles
  BY <1>2 DEF SystemRoles
<1> HIDE DEF row
<1>5. /\ customers' \in Seq(CustomerType) /\ Len(customers') = t /\ customers'[t] = row
      /\ \A s \in 1..Len(customers) : customers'[s] = customers[s]
  BY <1>1, <1>3 DEF OnboardingRowsOK
<1>6. Tenants = 1..Len(customers) /\ Tenants' = 1..t
  BY <1>5 DEF Tenants, OnboardingRowsOK
<1>7. QED
  BY <1>1, <1>4, <1>5, <1>6

LEMMA Granted ==
    ASSUME NEW c \in Intakes, OnboardingRowsOK
    PROVE  /\ mapPlanRequest(intakes[c].plan) \in {"desktop_free", "desktop_pro", "enterprise"}
           /\ mapPlanRequest(intakes[c].plan) =
                CASE intakes[c].plan = "pro" -> "desktop_pro"
                  [] intakes[c].plan = "enterprise" -> "enterprise"
                  [] OTHER -> "desktop_free"
BY DEF mapPlanRequest

LEMMA OnboardingInitInv == OnboardingInit => OnboardingInv
BY OnboardingAssumption
   DEF OnboardingInit, OnboardingInv, OnboardingRowsOK, IntakeType, NoIntake, NamedExists,
       ReviewedIsPending, IntakeNamesItsTenant, TenantHasItsAdmin, DecidedOnce, Tenants

Decisive == OnboardingInv' /\ \A c \in Intakes : intakes[c].status \in Decided => intakes'[c] = intakes[c]

LEMMA ReviewKeeps ==
    ASSUME OnboardingInv, NEW q \in Reviews, NEW r \in {NoReview} \cup ReviewType,
           UNCHANGED <<intakeDb, intakes, customers, answers>>,
           reviewing' = [reviewing EXCEPT ![q] = r],
           r # NoReview /\ intakeDb = "sqlite" =>
               /\ intakes[r.intake].status = "pending"
               /\ \A p \in Reviews : reviewing[p] # NoReview => p = q
    PROVE  Decisive
BY RowsStay, ReviewsStay DEF Decisive, OnboardingInv, OnboardingRowsOK, Rest

LEMMA CreateKeeps ==
    ASSUME OnboardingInv, NEW c \in Intakes, NEW plan \in PlanRequests, CreateIntake(c, plan)
    PROVE  Decisive
<1> DEFINE row == [status |-> "pending", plan |-> plan, tenant |-> 0]
<1>1. /\ row \in IntakeType /\ row.status = "pending" /\ row.tenant = 0
      /\ intakes[c].status = "none"
      /\ intakes' = [intakes EXCEPT ![c] = row]
      /\ customers' = customers /\ reviewing' = reviewing /\ answers' = answers /\ intakeDb' = intakeDb
  BY DEF CreateIntake, IntakeType
<1> HIDE DEF row
<1>2. intakes' \in [Intakes -> IntakeType] /\ intakes'[c] = row
      /\ \A d \in Intakes : d # c => intakes'[d] = intakes[d]
  BY <1>1 DEF OnboardingInv, OnboardingRowsOK
<1>3. NamedExists' /\ IntakeNamesItsTenant' /\ TenantHasItsAdmin'
  BY <1>1, <1>2 DEF OnboardingInv, NamedExists, IntakeNamesItsTenant, TenantHasItsAdmin, Tenants
<1>4. intakes[c].tenant = 0
  BY <1>1 DEF OnboardingInv, IntakeNamesItsTenant
<1>5. DecidedOnce'
  <2>1. \A t \in Tenants : customers[t].by \in Intakes \cup {"seed"} /\ t # 0
    BY CustomerRows DEF OnboardingInv
  <2>2. \A a \in answers : a.intake \in Intakes /\ a.verdict \in Decided
    BY DEF OnboardingInv, OnboardingRowsOK, AnswerType
  <2>3. QED
    BY <1>1, <1>2, <1>4, <2>1, <2>2 DEF OnboardingInv, DecidedOnce, Tenants, Decided
<1>6. ReviewedIsPending'
  BY <1>1, <1>2 DEF OnboardingInv, OnboardingRowsOK, ReviewedIsPending, ReviewType
<1>7. QED
  BY <1>1, <1>2, <1>3, <1>5, <1>6 DEF Decisive, OnboardingInv, OnboardingRowsOK, Decided

LEMMA SeedKeeps ==
    ASSUME OnboardingInv, NEW s \in Seeds, SeedAdmin(s)
    PROVE  Decisive
<1> DEFINE t == Len(customers) + 1
<1>1. /\ CreateTenant("seed", "desktop_free")
      /\ intakes' = intakes /\ reviewing' = reviewing /\ answers' = answers /\ intakeDb' = intakeDb
  BY DEF SeedAdmin
<1>2. /\ customers' \in Seq(CustomerType) /\ Len(customers') <= MaxCustomers
      /\ t \in Nat \ {0} /\ t \notin Tenants /\ Tenants' = Tenants \cup {t}
      /\ \A r \in Tenants : customers'[r] = customers[r]
      /\ customers'[t].by = "seed"
      /\ <<customers'[t].admin.tenant, customers'[t].admin.role>> \in customers'[t].roles
      /\ customers'[t].admin.tenant = t
  BY <1>1, TenantMade DEF OnboardingInv
<1> HIDE DEF t
<1>3. /\ NamedExists'
      /\ IntakeNamesItsTenant'
      /\ TenantHasItsAdmin'
      /\ DecidedOnce'
  <2>1. NamedExists'
    BY <1>1, <1>2 DEF OnboardingInv, NamedExists
  <2>2. IntakeNamesItsTenant'
    BY <1>1, <1>2 DEF OnboardingInv, NamedExists, IntakeNamesItsTenant
  <2>3. TenantHasItsAdmin'
    BY <1>1, <1>2 DEF OnboardingInv, TenantHasItsAdmin
  <2>4. DecidedOnce'
    BY <1>1, <1>2 DEF OnboardingInv, DecidedOnce
  <2>5. QED
    BY <2>1, <2>2, <2>3, <2>4
<1>4. QED
  BY <1>1, <1>2, <1>3 DEF Decisive, OnboardingInv, OnboardingRowsOK, ReviewedIsPending

LEMMA AcceptKeeps ==
    ASSUME OnboardingInv, NEW q \in Reviews, CommitAcceptIntake(q)
    PROVE  Decisive
<1> DEFINE c == reviewing[q].intake
           t == Len(customers) + 1
           plan == mapPlanRequest(intakes[c].plan)
           new == [intakes[c] EXCEPT !.status = "accepted", !.tenant = t]
           row == IF intakes[c].status = "pending" THEN new ELSE intakes[c]
           answer == [intake |-> c, verdict |-> "accepted", tenant |-> t]
<1>0. OnboardingRowsOK
  BY DEF OnboardingInv
<1>1. /\ reviewing[q] # NoReview /\ c \in Intakes
      /\ CreateTenant(c, plan)
      /\ intakes' = Updated(c, new)
      /\ answers' = answers \cup {answer}
      /\ reviewing' = [reviewing EXCEPT ![q] = NoReview] /\ intakeDb' = intakeDb
  BY <1>0 DEF CommitAcceptIntake, OnboardingRowsOK, NoReview, ReviewType, EndReview, Tell
<1>2. /\ plan \in {"desktop_free", "desktop_pro", "enterprise"}
      /\ plan = CASE intakes[c].plan = "pro" -> "desktop_pro"
                  [] intakes[c].plan = "enterprise" -> "enterprise"
                  [] OTHER -> "desktop_free"
  BY <1>0, <1>1, Granted
<1>3. /\ customers' \in Seq(CustomerType) /\ Len(customers') <= MaxCustomers
      /\ t \in Nat \ {0} /\ t \notin Tenants /\ Tenants' = Tenants \cup {t}
      /\ \A r \in Tenants : customers'[r] = customers[r]
      /\ customers'[t].by = c /\ customers'[t].plan = plan
      /\ <<customers'[t].admin.tenant, customers'[t].admin.role>> \in customers'[t].roles
      /\ customers'[t].admin.tenant = t
  BY <1>0, <1>1, <1>2, TenantMade
<1>4. intakes[c] \in IntakeType
  BY <1>0, <1>1 DEF OnboardingRowsOK
<1>5. /\ new \in IntakeType /\ new.status = "accepted" /\ new.tenant = t
      /\ new.plan = intakes[c].plan
  BY <1>3, <1>4 DEF IntakeType
<1>6. answer \in AnswerType /\ answer.intake = c /\ answer.verdict = "accepted" /\ answer.tenant = t
  BY <1>1, <1>3 DEF AnswerType, Decided
<1>7. intakeDb = "sqlite" =>
          intakes[c].status = "pending" /\ \A r \in Reviews : reviewing[r] # NoReview => r = q
  BY <1>1 DEF OnboardingInv, ReviewedIsPending
<1> HIDE DEF new, answer, t, plan, c
<1>8. /\ row \in IntakeType /\ intakes' \in [Intakes -> IntakeType] /\ intakes'[c] = row
      /\ \A d \in Intakes : d # c => intakes'[d] = intakes[d]
  BY <1>0, <1>1, <1>4, <1>5 DEF Updated, OnboardingRowsOK
<1>9. \/ intakes[c].status = "pending" /\ row = new
      \/ intakes[c].status # "pending" /\ row = intakes[c]
  OBVIOUS
<1> HIDE DEF row
<1>10. NamedExists'
  BY <1>0, <1>1, <1>3, <1>5, <1>8, <1>9 DEF OnboardingInv, NamedExists
<1>11. IntakeNamesItsTenant'
  BY <1>0, <1>1, <1>2, <1>3, <1>5, <1>8, <1>9 DEF OnboardingInv, NamedExists, IntakeNamesItsTenant
<1>12. TenantHasItsAdmin'
  BY <1>3 DEF OnboardingInv, TenantHasItsAdmin
<1>13. DecidedOnce'
  <2> SUFFICES ASSUME intakeDb = "sqlite"
               PROVE  /\ \A s \in Tenants' : customers'[s].by # "seed" => intakes'[customers'[s].by].tenant = s
                      /\ \A a \in answers' : intakes'[a.intake].status = a.verdict /\ intakes'[a.intake].tenant = a.tenant
    BY <1>1 DEF DecidedOnce
  <2>1. intakes[c].status = "pending" /\ intakes'[c] = new /\ intakes[c].tenant = 0
    BY <1>1, <1>7, <1>8, <1>9 DEF OnboardingInv, IntakeNamesItsTenant
  <2>2. \A s \in Tenants : customers[s].by \in Intakes \cup {"seed"} /\ s # 0
    BY <1>0, CustomerRows
  <2>3. \A a \in answers : a.intake \in Intakes /\ a.verdict \in Decided
    BY <1>0 DEF OnboardingRowsOK, AnswerType
  <2>4. QED
    BY <1>1, <1>3, <1>5, <1>6, <1>8, <2>1, <2>2, <2>3 DEF OnboardingInv, DecidedOnce, Decided
<1>14. ReviewedIsPending'
  BY <1>0, <1>1, <1>7 DEF OnboardingRowsOK, ReviewedIsPending
<1>15. \A d \in Intakes : intakes[d].status \in Decided => intakes'[d] = intakes[d]
  BY <1>8, <1>9 DEF Decided
<1>16. reviewing' \in [Reviews -> {NoReview} \cup ReviewType] /\ answers' \subseteq AnswerType
  BY <1>0, <1>1, <1>6 DEF OnboardingRowsOK
<1>17. QED
  BY <1>3, <1>8, <1>10, <1>11, <1>12, <1>13, <1>14, <1>15, <1>16 DEF Decisive, OnboardingInv, OnboardingRowsOK

LEMMA RejectKeeps ==
    ASSUME OnboardingInv, NEW q \in Reviews, CommitReject(q)
    PROVE  Decisive
<1> DEFINE c == reviewing[q].intake
           new == [intakes[c] EXCEPT !.status = "rejected"]
           row == IF intakes[c].status = "pending" THEN new ELSE intakes[c]
           answer == [intake |-> c, verdict |-> "rejected", tenant |-> 0]
<1>0. OnboardingRowsOK
  BY DEF OnboardingInv
<1>1. /\ reviewing[q] # NoReview /\ c \in Intakes
      /\ intakes' = Updated(c, new)
      /\ answers' = answers \cup {answer}
      /\ reviewing' = [reviewing EXCEPT ![q] = NoReview] /\ intakeDb' = intakeDb /\ customers' = customers
  BY <1>0 DEF CommitReject, OnboardingRowsOK, NoReview, ReviewType, EndReview, Tell
<1>4. intakes[c] \in IntakeType
  BY <1>0, <1>1 DEF OnboardingRowsOK
<1>5. new \in IntakeType /\ new.status = "rejected" /\ new.tenant = intakes[c].tenant
  BY <1>4 DEF IntakeType
<1>6. answer \in AnswerType /\ answer.intake = c /\ answer.verdict = "rejected" /\ answer.tenant = 0
  BY <1>1 DEF AnswerType, Decided
<1>7. intakeDb = "sqlite" =>
          intakes[c].status = "pending" /\ \A r \in Reviews : reviewing[r] # NoReview => r = q
  BY <1>1 DEF OnboardingInv, ReviewedIsPending
<1> HIDE DEF new, answer, c
<1>8. /\ row \in IntakeType /\ intakes' \in [Intakes -> IntakeType] /\ intakes'[c] = row
      /\ \A d \in Intakes : d # c => intakes'[d] = intakes[d]
  BY <1>0, <1>1, <1>4, <1>5 DEF Updated, OnboardingRowsOK
<1>9. \/ intakes[c].status = "pending" /\ row = new /\ intakes[c].tenant = 0
      \/ intakes[c].status # "pending" /\ row = intakes[c]
  BY <1>1 DEF OnboardingInv, IntakeNamesItsTenant
<1> HIDE DEF row
<1>10. NamedExists'
  BY <1>1, <1>5, <1>8, <1>9 DEF OnboardingInv, NamedExists, Tenants
<1>11. IntakeNamesItsTenant'
  BY <1>1, <1>5, <1>8, <1>9 DEF OnboardingInv, NamedExists, IntakeNamesItsTenant
<1>12. TenantHasItsAdmin'
  BY <1>1 DEF OnboardingInv, TenantHasItsAdmin, Tenants
<1>13. DecidedOnce'
  <2>2. \A s \in Tenants : customers[s].by \in Intakes \cup {"seed"} /\ s # 0
    BY <1>0, CustomerRows
  <2>3. \A a \in answers : a.intake \in Intakes /\ a.verdict \in Decided
    BY <1>0 DEF OnboardingRowsOK, AnswerType
  <2>4. QED
    BY <1>1, <1>5, <1>6, <1>7, <1>8, <1>9, <2>2, <2>3 DEF OnboardingInv, DecidedOnce, Decided, Tenants
<1>14. ReviewedIsPending'
  BY <1>0, <1>1, <1>7 DEF OnboardingRowsOK, ReviewedIsPending
<1>15. \A d \in Intakes : intakes[d].status \in Decided => intakes'[d] = intakes[d]
  BY <1>8, <1>9 DEF Decided
<1>16. reviewing' \in [Reviews -> {NoReview} \cup ReviewType] /\ answers' \subseteq AnswerType
  BY <1>0, <1>1, <1>6 DEF OnboardingRowsOK
<1>17. QED
  BY <1>0, <1>1, <1>8, <1>10, <1>11, <1>12, <1>13, <1>14, <1>15, <1>16
     DEF Decisive, OnboardingInv, OnboardingRowsOK

LEMMA OnboardingStep ==
    ASSUME OnboardingInv, [OnboardingNext]_onboardingVars
    PROVE  Decisive
<1>0. OnboardingRowsOK
  BY DEF OnboardingInv
<1>1. ASSUME NEW c \in Intakes, NEW plan \in PlanRequests, CreateIntake(c, plan)
      PROVE  Decisive
  BY <1>1, CreateKeeps
<1>2. ASSUME NEW q \in Reviews, NEW c \in Intakes, CheckAcceptIntake(q, c) \/ CheckReject(q, c)
      PROVE  Decisive
  <2>1. PICK op \in {"seed", "reject"} : reviewing' = [reviewing EXCEPT ![q] = [op |-> op, intake |-> c]]
    BY <1>2 DEF CheckAcceptIntake, CheckReject
  <2> DEFINE r == [op |-> op, intake |-> c]
  <2>2. r \in ReviewType /\ r.intake = c
    BY DEF ReviewType
  <2> HIDE DEF r
  <2>3. reviewing' = [reviewing EXCEPT ![q] = r]
    BY <2>1 DEF r
  <2>4. /\ UNCHANGED <<intakeDb, intakes, customers, answers>>
        /\ intakes[c].status = "pending"
        /\ intakeDb = "sqlite" => \A p \in Reviews : reviewing[p] = NoReview
    BY <1>2 DEF CheckAcceptIntake, CheckReject, IsPending, CanBeginReview
  <2>5. QED
    BY <2>2, <2>3, <2>4, ReviewKeeps
<1>3. ASSUME NEW q \in Reviews, RecheckAccept(q)
      PROVE  Decisive
  <2> DEFINE r == [reviewing[q] EXCEPT !.op = "accept"]
  <2>1. reviewing[q] \in ReviewType /\ reviewing[q] # NoReview
    BY <1>0, <1>3 DEF RecheckAccept, OnboardingRowsOK, NoReview, ReviewType
  <2>2. r \in ReviewType /\ r.intake = reviewing[q].intake
    BY <2>1 DEF ReviewType
  <2>3. reviewing' = [reviewing EXCEPT ![q] = r]
    BY <1>3 DEF RecheckAccept
  <2> HIDE DEF r
  <2>4. /\ UNCHANGED <<intakeDb, intakes, customers, answers>>
        /\ intakes[r.intake].status = "pending"
        /\ intakeDb = "sqlite" => \A p \in Reviews : reviewing[p] # NoReview => p = q
    BY <1>3, <2>1, <2>2 DEF RecheckAccept, IsPending, OnboardingInv, ReviewedIsPending
  <2>5. QED
    BY <2>2, <2>3, <2>4, ReviewKeeps
<1>4. ASSUME NEW q \in Reviews, AbortReview(q)
      PROVE  Decisive
  BY <1>4, ReviewKeeps DEF AbortReview, EndReview
<1>5. ASSUME NEW s \in Seeds, CheckSeed(s)
      PROVE  Decisive
  BY <1>0, <1>5, RowsStay DEF CheckSeed, Decisive, OnboardingInv, OnboardingRowsOK, Rest, ReviewedIsPending
<1>6. CASE UNCHANGED onboardingVars
  BY <1>0, <1>6, RowsStay DEF onboardingVars, Decisive, OnboardingInv, OnboardingRowsOK, Rest, ReviewedIsPending
<1>7. QED
  BY <1>1, <1>2, <1>3, <1>4, <1>5, <1>6, SeedKeeps, AcceptKeeps, RejectKeeps DEF OnboardingNext

\* Whoever files, reviews and seeds at once, on either backend: an accepted intake names a
\* tenant made for it with the plan it asked for and an admin of its own, a decision is
\* final, and on SQLite an intake makes one tenant and reviewers are told what the row says.
THEOREM OnboardingCorrect == OnboardingSpec => OnboardingIsSound
<1>1. OnboardingInv /\ [OnboardingNext]_onboardingVars => OnboardingInv'
  BY OnboardingStep DEF Decisive
<1>2. OnboardingInv => OnboardingTypeOK
  BY DEF OnboardingInv, OnboardingRowsOK, IntakeType, NamedExists, OnboardingTypeOK, Decided
<1>3. OnboardingInv => IntakeNamesItsTenant /\ TenantHasItsAdmin /\ DecidedOnce
  BY DEF OnboardingInv
<1>4. OnboardingInv /\ [OnboardingNext]_onboardingVars =>
        [\A c \in Intakes : intakes[c].status \in Decided => intakes'[c] = intakes[c]]_onboardingVars
  BY OnboardingStep DEF Decisive
<1>5. QED
  BY <1>1, <1>2, <1>3, <1>4, OnboardingInitInv, PTL DEF OnboardingSpec, OnboardingIsSound, DecisionIsFinal

--------------------------------------------------------------------------------
(* Invitations. *)

InvitationType == [email : Emails, role : InviteRoles, accepted : BOOLEAN,
                   expired : BOOLEAN, revoked : BOOLEAN]
MemberType == [email : Emails, role : InviteRoles, by : Nat]
RequestType == [op : {"create"}, email : Emails, role : InviteRoles]
                 \cup [op : {"accept"}, row : Nat \ {0}]

InviteRowsOK ==
    /\ invitations \in Seq(InvitationType) /\ Len(invitations) <= MaxInvitations
    /\ members \subseteq MemberType
    /\ inviting \in [InviteRequests -> {NoRequest} \cup RequestType]

\* A row that is accepted made a user of its address, and a user was made by one.
MembersOfRows ==
    /\ \A i \in Rows : invitations[i].accepted <=> \E m \in members : m.by = i
    /\ \A m \in members : m.by \in Rows /\ m.role = invitations[m.by].role
                                         /\ m.email = invitations[m.by].email

\* An acceptance under way has a row.
AcceptsRow == \A q \in InviteRequests : inviting[q].op = "accept" => inviting[q].row \in Rows

\* On SQLite requests run one at a time: what one has checked holds when it writes,
\* but for the time that passes.
CheckedHolds ==
    inviteDb = "sqlite" =>
        \A q \in InviteRequests : inviting[q] # NoRequest =>
            /\ \A r \in InviteRequests : inviting[r] # NoRequest => r = q
            /\ inviting[q].op = "create" => NoneActive(inviting[q].email, inviting[q].role)
            /\ inviting[q].op = "accept" =>
                   LET row == invitations[inviting[q].row] IN ~row.accepted /\ ~row.revoked

RevokedIsExpired == \A i \in Rows : invitations[i].revoked => invitations[i].expired

OneUserPerAddress == \A m, n \in members : m.email = n.email => m = n

InviteInv ==
    /\ InviteRowsOK /\ MembersOfRows /\ AcceptsRow /\ CheckedHolds /\ RevokedIsExpired
    /\ OneUserPerAddress /\ OneActiveInvitation

\* A revocation that has committed wins.
RevokedStays ==
    inviteDb = "sqlite" =>
        \A i \in Rows : invitations[i].revoked /\ ~invitations[i].accepted => ~invitations'[i].accepted
InviteGoal == InviteInv' /\ RevokedStays

LEMMA InviteRows ==
    ASSUME InviteRowsOK
    PROVE  /\ Len(invitations) \in Nat /\ Rows = 1..Len(invitations)
           /\ \A i \in Rows : invitations[i] \in InvitationType /\ i \in Nat \ {0}
BY DEF InviteRowsOK, Rows

LEMMA RequestOps ==
    ASSUME InviteRowsOK, NEW q \in InviteRequests, inviting[q] # NoRequest
    PROVE  \/ inviting[q].op = "create" /\ inviting[q].email \in Emails /\ inviting[q].role \in InviteRoles
           \/ inviting[q].op = "accept" /\ inviting[q].row \in Nat \ {0}
BY DEF InviteRowsOK, RequestType

LEMMA InvitationsInitInv == InvitationsInit => InviteInv
<1> SUFFICES ASSUME InvitationsInit PROVE InviteInv
  OBVIOUS
<1>1. invitations = <<>> /\ Rows = {} /\ members = {} /\ NoRequest.op = "none"
      /\ inviting = [q \in InviteRequests |-> NoRequest]
  BY DEF InvitationsInit, Rows, NoRequest
<1>2. QED
  BY <1>1, InvitationsAssumption
     DEF InviteInv, InviteRowsOK, MembersOfRows, AcceptsRow, CheckedHolds, RevokedIsExpired,
         OneUserPerAddress, OneActiveInvitation

\* A row of which only the marks change.
Marked(i, n) ==
    /\ i \in Rows /\ n \in InvitationType
    /\ n.email = invitations[i].email /\ n.role = invitations[i].role
    /\ invitations' = [invitations EXCEPT ![i] = n]

LEMMA MarkedRow ==
    ASSUME InviteRowsOK, NEW i, NEW n, Marked(i, n)
    PROVE  /\ invitations' \in Seq(InvitationType) /\ Len(invitations') = Len(invitations)
           /\ Rows' = Rows /\ invitations'[i] = n
           /\ \A j \in Rows : j # i => invitations'[j] = invitations[j]
           /\ \A j \in Rows : /\ invitations'[j].email = invitations[j].email
                              /\ invitations'[j].role = invitations[j].role
BY InviteRows DEF InviteRowsOK, Marked, Rows

\* A request begins or ends, and no row changes.
LEMMA RequestKeeps ==
    ASSUME InviteInv, NEW q \in InviteRequests, NEW r \in {NoRequest} \cup RequestType,
           UNCHANGED <<inviteDb, invitations, members>>,
           inviting' = [inviting EXCEPT ![q] = r],
           r # NoRequest /\ inviteDb = "sqlite" =>
               \A p \in InviteRequests : inviting[p] = NoRequest,
           r # NoRequest /\ r.op = "create" => NoneActive(r.email, r.role),
           r # NoRequest /\ r.op = "accept" =>
               r.row \in Rows /\ ~invitations[r.row].accepted /\ ~invitations[r.row].expired
    PROVE  InviteGoal
<1>0. InviteRowsOK /\ NoRequest.op = "none"
  BY DEF InviteInv, NoRequest
<1>1. Rows' = Rows
  BY DEF Rows
<1>2. AcceptsRow' /\ inviting' \in [InviteRequests -> {NoRequest} \cup RequestType]
  BY <1>0, <1>1 DEF InviteInv, InviteRowsOK, AcceptsRow
<1>3. CheckedHolds'
  BY <1>0, <1>1 DEF InviteInv, InviteRowsOK, CheckedHolds, RevokedIsExpired, NoneActive, Pending
<1>4. QED
  BY <1>1, <1>2, <1>3 DEF InviteGoal, InviteInv, InviteRowsOK, MembersOfRows, RevokedIsExpired,
     OneUserPerAddress, OneActiveInvitation, RevokedStays, Pending

\* Marks that expire a row; nobody is admitted.
LEMMA ExpiryKeeps ==
    ASSUME InviteInv, NEW i, NEW n, Marked(i, n),
           n.accepted = invitations[i].accepted, n.expired = TRUE,
           UNCHANGED <<inviteDb, members, inviting>>,
           \/ n.revoked = invitations[i].revoked
           \/ inviteDb = "sqlite" => \A q \in InviteRequests : inviting[q] = NoRequest
    PROVE  InviteGoal
<1>0. InviteRowsOK
  BY DEF InviteInv
<1>1. /\ invitations' \in Seq(InvitationType) /\ Len(invitations') = Len(invitations)
      /\ Rows' = Rows /\ invitations'[i] = n
      /\ \A j \in Rows : j # i => invitations'[j] = invitations[j]
      /\ \A j \in Rows : /\ invitations'[j].email = invitations[j].email
                         /\ invitations'[j].role = invitations[j].role
  BY <1>0, MarkedRow
<1>2. \A j \in Rows : /\ invitations'[j].accepted = invitations[j].accepted
                      /\ ~invitations'[j].expired => ~invitations[j].expired
  BY <1>1
<1>3. \A j \in Rows : Pending(j)' => Pending(j)
  BY <1>2 DEF Pending
<1>4. MembersOfRows' /\ AcceptsRow' /\ RevokedIsExpired' /\ OneActiveInvitation'
  BY <1>1, <1>2, <1>3 DEF InviteInv, MembersOfRows, AcceptsRow, RevokedIsExpired, OneActiveInvitation
<1>5. CheckedHolds'
  <2> SUFFICES ASSUME inviteDb = "sqlite", NEW q \in InviteRequests, inviting[q] # NoRequest
               PROVE  /\ \A r \in InviteRequests : inviting[r] # NoRequest => r = q
                      /\ inviting[q].op = "create" => NoneActive(inviting[q].email, inviting[q].role)'
                      /\ inviting[q].op = "accept" =>
                             ~invitations'[inviting[q].row].accepted /\ ~invitations'[inviting[q].row].revoked
    BY DEF CheckedHolds
  <2>1. n.revoked = invitations[i].revoked
    OBVIOUS
  <2>2. QED
    BY <1>1, <1>2, <1>3, <2>1 DEF InviteInv, CheckedHolds, NoneActive, AcceptsRow
<1>6. QED
  BY <1>0, <1>1, <1>2, <1>4, <1>5 DEF InviteGoal, InviteInv, InviteRowsOK, OneUserPerAddress, RevokedStays

LEMMA CommitCreateKeeps ==
    ASSUME InviteInv, NEW q \in InviteRequests, CommitCreate(q)
    PROVE  InviteGoal
<1> DEFINE row == [email |-> inviting[q].email, role |-> inviting[q].role,
                   accepted |-> FALSE, expired |-> FALSE, revoked |-> FALSE]
           k == Len(invitations) + 1
<1>0. InviteRowsOK /\ inviting[q] # NoRequest /\ inviting[q].op = "create"
  BY DEF InviteInv, CommitCreate, NoRequest
<1>1. /\ row \in InvitationType /\ row.email = inviting[q].email /\ row.role = inviting[q].role
      /\ row.accepted = FALSE /\ row.expired = FALSE /\ row.revoked = FALSE
  BY <1>0, RequestOps DEF InvitationType
<1>2. /\ invitations' = Append(invitations, row) /\ Len(invitations) < MaxInvitations
      /\ inviting' = [inviting EXCEPT ![q] = NoRequest]
      /\ inviteDb' = inviteDb /\ members' = members
  BY DEF CommitCreate, End
<1> HIDE DEF row
<1>3. /\ invitations' \in Seq(InvitationType) /\ Len(invitations') = k /\ k <= MaxInvitations
      /\ k \in Nat /\ Rows' = Rows \cup {k} /\ k \notin Rows /\ invitations'[k] = row
      /\ \A i \in Rows : invitations'[i] = invitations[i]
  BY <1>0, <1>1, <1>2, InvitationsAssumption DEF InviteRowsOK, Rows
<1> HIDE DEF k
<1>4. MembersOfRows'
  <2>1. \A i \in Rows : invitations'[i].accepted <=> \E m \in members : m.by = i
    BY <1>3 DEF InviteInv, MembersOfRows
  <2>2. ~invitations'[k].accepted /\ ~\E m \in members : m.by = k
    BY <1>1, <1>3 DEF InviteInv, MembersOfRows
  <2>3. \A m \in members : m.by \in Rows' /\ m.role = invitations'[m.by].role
                                            /\ m.email = invitations'[m.by].email
    BY <1>3 DEF InviteInv, MembersOfRows
  <2>4. QED
    BY <1>2, <1>3, <2>1, <2>2, <2>3 DEF MembersOfRows
<1>5. NoRequest.op = "none" /\ inviting' \in [InviteRequests -> {NoRequest} \cup RequestType]
  BY <1>0, <1>2 DEF NoRequest, InviteRowsOK
<1>6. AcceptsRow'
  BY <1>0, <1>2, <1>3, <1>5 DEF InviteInv, InviteRowsOK, AcceptsRow
<1>7. inviteDb = "sqlite" => /\ NoneActive(inviting[q].email, inviting[q].role)
                             /\ \A p \in InviteRequests : inviting'[p] = NoRequest
  BY <1>0, <1>2 DEF InviteInv, CheckedHolds, InviteRowsOK
<1>8. \A i \in Rows : Pending(i)' <=> Pending(i)
  BY <1>3 DEF Pending
<1>9. OneActiveInvitation'
  <2> SUFFICES ASSUME inviteDb = "sqlite", NEW i \in Rows', NEW j \in Rows', Pending(i)', Pending(j)',
                      invitations'[i].email = invitations'[j].email
               PROVE  i = j
    BY <1>2 DEF OneActiveInvitation
  <2>1. \A h \in Rows : Pending(h) => invitations[h].email # inviting[q].email
    BY <1>7 DEF NoneActive
  <2>2. CASE i = k \/ j = k
    BY <1>1, <1>3, <1>8, <2>1, <2>2
  <2>3. CASE i \in Rows /\ j \in Rows
    BY <1>3, <1>8, <2>3 DEF InviteInv, OneActiveInvitation
  <2>4. QED
    BY <1>3, <2>2, <2>3
<1>10. CheckedHolds' /\ RevokedIsExpired' /\ RevokedStays
  BY <1>1, <1>2, <1>3, <1>7 DEF InviteInv, CheckedHolds, RevokedIsExpired, RevokedStays
<1>11. QED
  BY <1>0, <1>2, <1>3, <1>4, <1>5, <1>6, <1>9, <1>10 DEF InviteGoal, InviteInv, InviteRowsOK, OneUserPerAddress

LEMMA CommitAcceptKeeps ==
    ASSUME InviteInv, NEW q \in InviteRequests, CommitAccept(q)
    PROVE  InviteGoal
<1> DEFINE i == inviting[q].row
           n == [invitations[i] EXCEPT !.accepted = TRUE]
           user == [email |-> invitations[i].email, role |-> invitations[i].role, by |-> i]
<1>0. InviteRowsOK /\ inviting[q] # NoRequest /\ inviting[q].op = "accept"
  BY DEF InviteInv, CommitAccept, NoRequest
<1>1. i \in Rows /\ i \in Nat /\ invitations[i] \in InvitationType
  BY <1>0, InviteRows DEF InviteInv, AcceptsRow
<1>2. /\ user \in MemberType /\ user.by = i
      /\ user.email = invitations[i].email /\ user.role = invitations[i].role
  BY <1>1 DEF InvitationType, MemberType
<1>3. /\ n \in InvitationType /\ n.email = invitations[i].email /\ n.role = invitations[i].role
      /\ n.accepted = TRUE /\ n.expired = invitations[i].expired /\ n.revoked = invitations[i].revoked
  BY <1>1 DEF InvitationType
<1>4. /\ members' = members \cup {user}
      /\ \A m \in members : m.email # invitations[i].email
      /\ invitations' = [invitations EXCEPT ![i] = n]
      /\ inviting' = [inviting EXCEPT ![q] = NoRequest] /\ inviteDb' = inviteDb
  BY DEF CommitAccept, InsertUser, HasUser, MarkAccepted, End
<1>5. inviteDb = "sqlite" => /\ ~invitations[i].accepted /\ ~invitations[i].revoked
                             /\ \A p \in InviteRequests : inviting'[p] = NoRequest
  BY <1>0, <1>4 DEF InviteInv, CheckedHolds, InviteRowsOK
<1> HIDE DEF n, user, i
<1>6. /\ invitations' \in Seq(InvitationType) /\ Len(invitations') = Len(invitations)
      /\ Rows' = Rows /\ invitations'[i] = n
      /\ \A j \in Rows : j # i => invitations'[j] = invitations[j]
      /\ \A j \in Rows : /\ invitations'[j].email = invitations[j].email
                         /\ invitations'[j].role = invitations[j].role
  BY <1>0, <1>1, <1>3, <1>4, MarkedRow DEF Marked
<1>7. MembersOfRows' /\ OneUserPerAddress' /\ members' \subseteq MemberType
  BY <1>0, <1>1, <1>2, <1>3, <1>4, <1>6 DEF InviteInv, InviteRowsOK, MembersOfRows, OneUserPerAddress
<1>8. NoRequest.op = "none" /\ inviting' \in [InviteRequests -> {NoRequest} \cup RequestType]
  BY <1>0, <1>4 DEF NoRequest, InviteRowsOK
<1>9. AcceptsRow'
  BY <1>0, <1>4, <1>6, <1>8 DEF InviteInv, InviteRowsOK, AcceptsRow
<1>10. CheckedHolds' /\ RevokedIsExpired'
  BY <1>3, <1>4, <1>5, <1>6 DEF InviteInv, CheckedHolds, RevokedIsExpired
<1>11. \A j \in Rows : Pending(j)' => Pending(j)
  BY <1>3, <1>6 DEF Pending
<1>12. OneActiveInvitation'
  BY <1>4, <1>6, <1>11 DEF InviteInv, OneActiveInvitation
<1>13. RevokedStays
  BY <1>5, <1>6 DEF RevokedStays
<1>14. QED
  BY <1>0, <1>6, <1>7, <1>8, <1>9, <1>10, <1>12, <1>13 DEF InviteGoal, InviteInv, InviteRowsOK

LEMMA InvitationsStep ==
    ASSUME InviteInv, [InvitationsNext]_inviteVars
    PROVE  InviteGoal
<1>0. InviteRowsOK
  BY DEF InviteInv
<1>1. ASSUME NEW q \in InviteRequests, NEW e \in Emails, NEW duty \in InviteRoles, CheckCreate(q, e, duty)
      PROVE  InviteGoal
  <2> DEFINE r == [op |-> "create", email |-> e, role |-> duty]
  <2>1. r \in RequestType /\ r.op = "create" /\ r.email = e /\ r.role = duty
    BY DEF RequestType
  <2>2. inviting' = [inviting EXCEPT ![q] = r]
    BY <1>1 DEF CheckCreate
  <2> HIDE DEF r
  <2>3. QED
    BY <1>1, <2>1, <2>2, RequestKeeps DEF CheckCreate, CanBeginInvite
<1>2. ASSUME NEW q \in InviteRequests, NEW i \in Rows, CheckAccept(q, i)
      PROVE  InviteGoal
  <2> DEFINE r == [op |-> "accept", row |-> i]
  <2>1. r \in RequestType /\ r.op = "accept" /\ r.row = i
    BY <1>0, InviteRows DEF RequestType
  <2>2. inviting' = [inviting EXCEPT ![q] = r]
    BY <1>2 DEF CheckAccept
  <2> HIDE DEF r
  <2>3. QED
    BY <1>2, <2>1, <2>2, RequestKeeps DEF CheckAccept, CanBeginInvite, Acceptable
<1>3. ASSUME NEW q \in InviteRequests, Rollback(q)
      PROVE  InviteGoal
  BY <1>3, RequestKeeps DEF Rollback, End
<1>4. ASSUME NEW i \in Rows, RevokeInvite(i)
      PROVE  InviteGoal
  <2> DEFINE n == [invitations[i] EXCEPT !.expired = TRUE, !.revoked = TRUE]
  <2>1. invitations[i] \in InvitationType
    BY <1>0, InviteRows
  <2>2. /\ n \in InvitationType /\ n.email = invitations[i].email /\ n.role = invitations[i].role
        /\ n.accepted = invitations[i].accepted /\ n.expired = TRUE
    BY <2>1 DEF InvitationType
  <2>3. invitations' = [invitations EXCEPT ![i] = n]
    BY <1>4 DEF RevokeInvite
  <2> HIDE DEF n
  <2>4. Marked(i, n)
    BY <2>2, <2>3 DEF Marked
  <2>5. QED
    BY <1>4, <2>2, <2>4, ExpiryKeeps DEF RevokeInvite, CanBeginInvite
<1>5. ASSUME NEW i \in Rows, ExpireInvitation(i)
      PROVE  InviteGoal
  <2> DEFINE n == [invitations[i] EXCEPT !.expired = TRUE]
  <2>1. invitations[i] \in InvitationType
    BY <1>0, InviteRows
  <2>2. /\ n \in InvitationType /\ n.email = invitations[i].email /\ n.role = invitations[i].role
        /\ n.accepted = invitations[i].accepted /\ n.expired = TRUE /\ n.revoked = invitations[i].revoked
    BY <2>1 DEF InvitationType
  <2>3. invitations' = [invitations EXCEPT ![i] = n]
    BY <1>5 DEF ExpireInvitation
  <2> HIDE DEF n
  <2>4. Marked(i, n)
    BY <2>2, <2>3 DEF Marked
  <2>5. QED
    BY <1>5, <2>2, <2>4, ExpiryKeeps DEF ExpireInvitation
<1>6. CASE UNCHANGED inviteVars
  <2>1. UNCHANGED <<inviteDb, invitations, members, inviting>> /\ Rows' = Rows
    BY <1>6 DEF inviteVars, Rows
  <2>2. MembersOfRows' /\ AcceptsRow' /\ RevokedIsExpired' /\ OneUserPerAddress' /\ RevokedStays
    BY <2>1 DEF InviteInv, MembersOfRows, AcceptsRow, RevokedIsExpired, OneUserPerAddress, RevokedStays
  <2>3. CheckedHolds' /\ OneActiveInvitation'
    BY <2>1 DEF InviteInv, CheckedHolds, NoneActive, Pending, OneActiveInvitation
  <2>4. QED
    BY <2>1, <2>2, <2>3 DEF InviteGoal, InviteInv, InviteRowsOK
<1>7. QED
  BY <1>1, <1>2, <1>3, <1>4, <1>5, <1>6, CommitCreateKeeps, CommitAcceptKeeps DEF InvitationsNext

\* Whoever invites, accepts, revokes and is late at once, on either backend: an address
\* becomes one user at most, of the role of the invitation that made it; on SQLite an
\* address has one active invitation, and one that was revoked makes nobody a user.
THEOREM InvitationsCorrect == InvitationsSpec => InvitationsAreSound
<1>1. InviteInv /\ [InvitationsNext]_inviteVars => InviteInv'
  BY InvitationsStep DEF InviteGoal
<1>2. InviteInv => InvitationsTypeOK
  <2> SUFFICES ASSUME InviteInv PROVE InvitationsTypeOK
    OBVIOUS
  <2>1. \A i \in Rows : invitations[i] \in InvitationType
    BY InviteRows DEF InviteInv
  <2>2. QED
    BY <2>1 DEF InviteInv, InviteRowsOK, MembersOfRows, InvitationsTypeOK, InvitationType
<1>3. InviteInv => OneUserPerInvitee /\ OneActiveInvitation
  BY DEF InviteInv, MembersOfRows, OneUserPerAddress, OneUserPerInvitee
<1>4. InviteInv /\ [InvitationsNext]_inviteVars => [RevokedStays]_inviteVars
  BY InvitationsStep DEF InviteGoal
<1>5. QED
  BY <1>1, <1>2, <1>3, <1>4, InvitationsInitInv, PTL
     DEF InvitationsSpec, InvitationsAreSound, RevokedIsRefused, RevokedStays

--------------------------------------------------------------------------------
(* The conversation with the provider. *)

LoginType == [status : {"none", "started", "refused", "completed"}, as : Persons \cup {Nobody}]
CodeType == [by : Persons \cup {Nobody}, spent : BOOLEAN]
IdTokenType == [of : {"idp"}, nonce : OidcLogins, sub : Persons, key : Nat]

JwksOK ==
    /\ nextKey \in Nat /\ nextKey >= 2
    /\ jwks \in Seq(1..(nextKey - 1))
    /\ Signer \in Range(jwks) /\ IsInjective(jwks)

ConversationOK ==
    /\ oidcLogin \in [OidcLogins -> LoginType]
    /\ code \in [OidcLogins -> CodeType]
    /\ idToken \in [OidcLogins -> {NoIdToken} \cup IdTokenType]

\* A token is of the login whose code was exchanged for it, and of who authenticated there.
TokenIsOfItsCode ==
    \A a \in OidcLogins : idToken[a] # NoIdToken => code[idToken[a].nonce].by = idToken[a].sub

OidcInv == JwksOK /\ ConversationOK /\ TokenIsOfItsCode /\ IdentityIsOfTheLogin

\* No token is refused without a cause.
Cause(a) ==
    \/ idToken[a].key \notin Range(jwks)
    \/ idToken[a].nonce # a
    \/ idp.late \/ idp.slash
    \/ ~idp.kids /\ Len(jwks) > 1
Caused ==
    \A a \in OidcLogins :
        oidcLogin[a].status = "started" /\ oidcLogin'[a].status = "refused" => Cause(a)
OidcGoal == OidcInv' /\ Caused

LEMMA OidcInitInv == OidcInit => OidcInv
<1> SUFFICES ASSUME OidcInit PROVE OidcInv
  OBVIOUS
<1>1. jwks = <<1>> /\ nextKey = 2 /\ DOMAIN jwks = {1} /\ jwks[1] = 1 /\ Len(jwks) = 1 /\ jwks \in Seq(1..1)
  BY DEF OidcInit
<1>2. JwksOK
  BY <1>1 DEF JwksOK, Signer, Range, IsInjective
<1>3. ConversationOK /\ TokenIsOfItsCode /\ IdentityIsOfTheLogin
  BY DEF OidcInit, ConversationOK, TokenIsOfItsCode, IdentityIsOfTheLogin, LoginType, CodeType, NoCode
<1>4. QED
  BY <1>2, <1>3 DEF OidcInv

\* A key that is published is a new one, first or last.
LEMMA RotateKeeps ==
    ASSUME OidcInv, RotateJwks
    PROVE  JwksOK'
<1>1. /\ jwks \in Seq(1..(nextKey - 1)) /\ nextKey \in Nat /\ nextKey >= 2 /\ IsInjective(jwks)
      /\ nextKey' = nextKey + 1
  BY DEF OidcInv, JwksOK, RotateJwks
<1>2. nextKey' - 1 = nextKey /\ nextKey \in 1..nextKey /\ jwks \in Seq(1..nextKey) /\ Signer' = nextKey
  BY <1>1 DEF Signer
<1>3. nextKey \notin Range(jwks)
  <2>1. \A i \in 1..Len(jwks) : jwks[i] # nextKey
    BY <1>1
  <2>2. QED
    BY <1>1, <2>1, ByPosition
<1>4. jwks' \in Seq(1..nextKey) /\ IsInjective(jwks') /\ nextKey \in Range(jwks')
  <2>1. CASE jwks' = <<nextKey>> \o jwks
    BY <1>1, <1>2, <1>3, <2>1, AddFirst
  <2>2. CASE jwks' = Append(jwks, nextKey)
    BY <1>1, <1>2, <1>3, <2>2, AddLast
  <2>3. QED
    BY <2>1, <2>2 DEF RotateJwks
<1>5. QED
  BY <1>1, <1>2, <1>4 DEF JwksOK

\* The other keys stay when one is withdrawn.
LEMMA RetireKeeps ==
    ASSUME OidcInv, NEW i \in DOMAIN jwks, RetireJwk(i)
    PROVE  JwksOK'
<1>1. /\ jwks \in Seq(1..(nextKey - 1)) /\ nextKey \in Nat /\ nextKey >= 2
      /\ IsInjective(jwks) /\ Signer \in Range(jwks)
      /\ nextKey' = nextKey /\ Signer' = Signer /\ jwks' = RemoveAt(jwks, i) /\ jwks[i] # Signer
  BY DEF OidcInv, JwksOK, RetireJwk, Signer
<1>2. jwks' \in Seq(1..(nextKey - 1)) /\ IsInjective(jwks') /\ Signer \in Range(jwks')
  BY <1>1, LeaveOut
<1>3. QED
  BY <1>1, <1>2 DEF JwksOK

\* A login and its token change, and the rest of the conversation stays.
LEMMA AnswerKeeps ==
    ASSUME OidcInv, NEW a \in OidcLogins, NEW r \in LoginType, NEW t \in {NoIdToken} \cup IdTokenType,
           oidcLogin' = [oidcLogin EXCEPT ![a] = r], idToken' = [idToken EXCEPT ![a] = t],
           UNCHANGED <<idp, jwks, nextKey, code>>,
           r.as \in {Nobody, code[a].by},
           t # NoIdToken => t = idToken[a],
           oidcLogin[a].status = "started" /\ r.status = "refused" => Cause(a)
    PROVE  OidcGoal
<1>1. JwksOK'
  BY DEF OidcInv, JwksOK, Signer
<1>2. ConversationOK' /\ TokenIsOfItsCode' /\ IdentityIsOfTheLogin'
  BY DEF OidcInv, ConversationOK, TokenIsOfItsCode, IdentityIsOfTheLogin
<1>3. Caused
  BY DEF OidcInv, ConversationOK, Caused, LoginType
<1>4. QED
  BY <1>1, <1>2, <1>3 DEF OidcGoal, OidcInv

\* A token that is not verified has a cause.
LEMMA RefusedHasCause ==
    ASSUME OidcInv, NEW a \in OidcLogins, idToken[a] # NoIdToken, ~Verifies(a)
    PROVE  Cause(a)
<1>1. DOMAIN jwks = 1..Len(jwks) /\ Len(jwks) \in Nat /\ Range(jwks) # {}
  BY DEF OidcInv, JwksOK
<1>2. Len(jwks) >= 1 /\ jwks[1] \in Range(jwks)
  BY <1>1 DEF Range
<1>3. ASSUME Len(jwks) = 1, idToken[a].key \in Range(jwks)
      PROVE  idToken[a].key = jwks[1]
  BY <1>1, <1>3 DEF Range
<1>4. QED
  BY <1>1, <1>2, <1>3 DEF Verifies, SelectKey, NonceFits, Cause

LEMMA LoginOf ==
    ASSUME ConversationOK, NEW a \in OidcLogins
    PROVE  /\ oidcLogin[a] \in LoginType /\ code[a] \in CodeType
           /\ idToken[a] # NoIdToken => idToken[a] \in IdTokenType
           /\ oidcLogin = [oidcLogin EXCEPT ![a] = oidcLogin[a]]
           /\ idToken = [idToken EXCEPT ![a] = idToken[a]]
BY DEF ConversationOK

LEMMA OidcStep ==
    ASSUME OidcInv, [OidcNext]_oidcVars
    PROVE  OidcGoal
<1>0. ConversationOK /\ JwksOK
  BY DEF OidcInv
<1>1. ASSUME RotateJwks \/ \E i \in DOMAIN jwks : RetireJwk(i)
      PROVE  OidcGoal
  <2>1. JwksOK'
    BY <1>1, RotateKeeps, RetireKeeps
  <2>2. oidcLogin' = oidcLogin /\ code' = code /\ idToken' = idToken
    BY <1>1 DEF RotateJwks, RetireJwk
  <2>3. QED
    BY <2>1, <2>2 DEF OidcGoal, OidcInv, ConversationOK, TokenIsOfItsCode, IdentityIsOfTheLogin, Caused
<1>2. ASSUME NEW a \in OidcLogins, BuildAuthURL(a) \/ CallBackAgain(a)
      PROVE  OidcGoal
  <2> DEFINE r == [oidcLogin[a] EXCEPT !.status = "started"]
  <2>1. r \in LoginType /\ r.as = oidcLogin[a].as /\ r.status = "started"
    BY <1>0, LoginOf DEF LoginType
  <2>2. oidcLogin' = [oidcLogin EXCEPT ![a] = r] /\ UNCHANGED <<idp, jwks, nextKey, code, idToken>>
    BY <1>2 DEF BuildAuthURL, CallBackAgain
  <2> HIDE DEF r
  <2>3. idToken' = [idToken EXCEPT ![a] = idToken[a]] /\ idToken[a] \in {NoIdToken} \cup IdTokenType
    BY <1>0, <2>2, LoginOf
  <2>4. QED
    BY <2>1, <2>2, <2>3, AnswerKeeps DEF OidcInv, IdentityIsOfTheLogin
<1>3. ASSUME NEW a \in OidcLogins, CompleteWithoutCode(a)
      PROVE  OidcGoal
  <2> DEFINE r == [oidcLogin[a] EXCEPT !.status = "completed"]
  <2>1. r \in LoginType /\ r.as = oidcLogin[a].as /\ r.status = "completed"
    BY <1>0, LoginOf DEF LoginType
  <2>2. oidcLogin' = [oidcLogin EXCEPT ![a] = r] /\ UNCHANGED <<idp, jwks, nextKey, code, idToken>>
    BY <1>3 DEF CompleteWithoutCode
  <2> HIDE DEF r
  <2>3. idToken' = [idToken EXCEPT ![a] = idToken[a]] /\ idToken[a] \in {NoIdToken} \cup IdTokenType
    BY <1>0, <2>2, LoginOf
  <2>4. QED
    BY <2>1, <2>2, <2>3, AnswerKeeps DEF OidcInv, IdentityIsOfTheLogin
<1>4. ASSUME NEW a \in OidcLogins, IdpFails(a)
      PROVE  OidcGoal
  <2>1. oidcLogin' = [oidcLogin EXCEPT ![a] = oidcLogin[a]] /\ oidcLogin[a] \in LoginType
    BY <1>0, <1>4, LoginOf DEF IdpFails
  <2>2. idToken' = [idToken EXCEPT ![a] = NoIdToken] /\ UNCHANGED <<idp, jwks, nextKey, code>>
    BY <1>4 DEF IdpFails
  <2>3. QED
    BY <2>1, <2>2, AnswerKeeps DEF OidcInv, IdentityIsOfTheLogin
<1>5. ASSUME NEW a \in OidcLogins, VerifyIDToken(a)
      PROVE  OidcGoal
  <2>1. /\ idToken[a] # NoIdToken /\ idToken[a] \in IdTokenType
        /\ idToken' = [idToken EXCEPT ![a] = NoIdToken] /\ UNCHANGED <<idp, jwks, nextKey, code>>
    BY <1>0, <1>5, LoginOf DEF VerifyIDToken
  <2>2. CASE Verifies(a)
    <3> DEFINE r == [status |-> "completed", as |-> idToken[a].sub]
    <3>1. r \in LoginType /\ r.as = idToken[a].sub /\ r.status = "completed"
      BY <2>1 DEF IdTokenType, LoginType
    <3>2. oidcLogin' = [oidcLogin EXCEPT ![a] = r]
      BY <1>5, <2>2 DEF VerifyIDToken
    <3> HIDE DEF r
    <3>3. idToken[a].nonce = a /\ r.as = code[a].by
      BY <2>1, <2>2, <3>1 DEF Verifies, NonceFits, OidcInv, TokenIsOfItsCode
    <3>4. QED
      BY <2>1, <3>1, <3>2, <3>3, AnswerKeeps
  <2>3. CASE ~Verifies(a)
    <3> DEFINE r == [oidcLogin[a] EXCEPT !.status = "refused"]
    <3>1. r \in LoginType /\ r.as = oidcLogin[a].as
      BY <1>0, LoginOf DEF LoginType
    <3>2. oidcLogin' = [oidcLogin EXCEPT ![a] = r]
      BY <1>5, <2>3 DEF VerifyIDToken
    <3> HIDE DEF r
    <3>3. Cause(a)
      BY <2>1, <2>3, RefusedHasCause
    <3>4. QED
      BY <2>1, <3>1, <3>2, <3>3, AnswerKeeps DEF OidcInv, IdentityIsOfTheLogin
  <2>4. QED
    BY <2>2, <2>3
<1>6. ASSUME NEW a \in OidcLogins, NEW p \in Persons, Authenticate(a, p)
      PROVE  OidcGoal
  <2> DEFINE n == [code[a] EXCEPT !.by = p]
  <2>0. code[a].by = Nobody /\ code[a] \in CodeType
    BY <1>0, <1>6, LoginOf DEF Authenticate, NoCode
  <2>1. n \in CodeType
    BY <2>0 DEF CodeType
  <2>2. /\ code' = [code EXCEPT ![a] = n] /\ UNCHANGED <<idp, jwks, nextKey, oidcLogin, idToken>>
    BY <1>6 DEF Authenticate
  <2> HIDE DEF n
  <2>3. \A b \in OidcLogins : idToken[b] # NoIdToken => idToken[b].nonce \in OidcLogins \ {a}
    <3>1. \A b \in OidcLogins : idToken[b] # NoIdToken =>
              idToken[b].nonce \in OidcLogins /\ idToken[b].sub \in Persons
      BY <1>0, LoginOf DEF IdTokenType
    <3>2. QED
      BY <2>0, <3>1, OidcAssumption DEF OidcInv, TokenIsOfItsCode
  <2>4. ConversationOK' /\ TokenIsOfItsCode'
    BY <1>0, <2>1, <2>2, <2>3 DEF ConversationOK, OidcInv, TokenIsOfItsCode
  <2>5. IdentityIsOfTheLogin'
    BY <1>0, <2>0, <2>1, <2>2 DEF ConversationOK, OidcInv, IdentityIsOfTheLogin
  <2>6. JwksOK' /\ Caused
    BY <1>0, <2>2 DEF JwksOK, Signer, Caused
  <2>7. QED
    BY <2>4, <2>5, <2>6 DEF OidcGoal, OidcInv
<1>7. ASSUME NEW a \in OidcLogins, NEW b \in OidcLogins, ExchangeCode(a, b)
      PROVE  OidcGoal
  <2> DEFINE n == [code[b] EXCEPT !.spent = TRUE]
             t == [of |-> "idp", nonce |-> b, sub |-> code[b].by, key |-> Signer]
  <2>1. code[b] \in CodeType /\ code[b].by # Nobody
    BY <1>0, <1>7, LoginOf DEF ExchangeCode, CanExchange
  <2>2. n \in CodeType /\ n.by = code[b].by
    BY <2>1 DEF CodeType
  <2>3. t \in IdTokenType /\ t.nonce = b /\ t.sub = code[b].by
    BY <1>0, <2>1 DEF CodeType, IdTokenType, JwksOK, Signer
  <2>4. /\ code' = [code EXCEPT ![b] = n] /\ idToken' = [idToken EXCEPT ![a] = t]
        /\ UNCHANGED <<idp, jwks, nextKey, oidcLogin>>
    BY <1>7 DEF ExchangeCode
  <2> HIDE DEF n, t
  <2>5. \A c \in OidcLogins : code'[c].by = code[c].by
    BY <1>0, <2>2, <2>4 DEF ConversationOK
  <2>6. ConversationOK'
    BY <1>0, <2>2, <2>3, <2>4 DEF ConversationOK
  <2>7. TokenIsOfItsCode'
    <3>1. \A c \in OidcLogins : idToken[c] # NoIdToken => idToken[c].nonce \in OidcLogins
      BY <1>0, LoginOf DEF IdTokenType
    <3>2. QED
      BY <1>0, <2>3, <2>4, <2>5, <3>1 DEF ConversationOK, OidcInv, TokenIsOfItsCode
  <2>8. IdentityIsOfTheLogin'
    BY <2>4, <2>5 DEF OidcInv, IdentityIsOfTheLogin
  <2>9. JwksOK' /\ Caused
    BY <1>0, <2>4 DEF JwksOK, Signer, Caused
  <2>10. QED
    BY <2>6, <2>7, <2>8, <2>9 DEF OidcGoal, OidcInv
<1>8. CASE UNCHANGED oidcVars
  BY <1>8 DEF oidcVars, OidcGoal, OidcInv, JwksOK, Signer, ConversationOK, TokenIsOfItsCode,
              IdentityIsOfTheLogin, Caused
<1>9. QED
  BY <1>1, <1>2, <1>3, <1>4, <1>5, <1>6, <1>7, <1>8 DEF OidcNext

\* Whatever tabs are mixed up, keys rotated and withdrawn and calls repeated, and whether
\* or not the provider checks the challenge: a login completes as who authenticated for it
\* or as nobody, and no token is refused without a cause.
THEOREM IdentitiesCorrect == OidcSpec => OidcIsSound
<1>1. OidcInv /\ [OidcNext]_oidcVars => OidcInv'
  BY OidcStep DEF OidcGoal
<1>2. OidcInv => OidcTypeOK /\ IdentityIsOfTheLogin
  BY DEF OidcInv, JwksOK, ConversationOK, LoginType, OidcTypeOK
<1>3. OidcInv /\ [OidcNext]_oidcVars => [Caused]_oidcVars
  BY OidcStep DEF OidcGoal
<1>4. QED
  BY <1>1, <1>2, <1>3, OidcInitInv, PTL DEF OidcSpec, OidcIsSound, RefusedForCause, Caused, Cause

--------------------------------------------------------------------------------
(* Logins and the bindings they leave. *)

HeldType == {NoBinding} \cup [scope : SsoScopes, source : {"manual", "sso"}]
Pairs == SsoRoles \X SsoScopes
CallbackType ==
    {NoCallback} \cup [pc : {"found"}, attempt : Attempts]
      \cup [pc : {"synced"}, attempt : Attempts, subject : Subjects,
            revoked : SUBSET SsoRoles, resolved : SUBSET Pairs]

SsoRowsOK ==
    /\ provider \in {"absent", "enabled", "disabled"}
    /\ mapping \subseteq Groups \X SsoRoles \X SsoScopes
    /\ attempt \in [Attempts -> {"none", "open", "completed", "expired"}]
    /\ users \subseteq Subjects
    /\ binding \in [Subjects -> [SsoRoles -> HeldType]]
    /\ callback \in [Callbacks -> CallbackType]
    /\ completed \in [Attempts -> Nat]
    /\ granted \in [Subjects -> SUBSET Pairs]

\* Only users have bindings; a provider with attempts exists.
OnlyUsersHold ==
    /\ \A s \in Subjects \ users : \A r \in SsoRoles : binding[s][r] = NoBinding
    /\ provider = "absent" => mapping = {} /\ \A a \in Attempts : attempt[a] = "none"

\* A callback works on an attempt that was started; on SQLite it is alone, and on one
\* that nobody has completed.
CallbacksOK ==
    \A k \in Callbacks : callback[k] # NoCallback =>
        /\ attempt[callback[k].attempt] # "none"
        /\ ssoDb = "sqlite" => /\ completed[callback[k].attempt] = 0
                               /\ \A j \in Callbacks : callback[j] # NoCallback => j = k

\* What a callback is about to revoke is what its subject still holds from groups: the
\* lock of the identity keeps everybody else away.
SyncedIsCurrent ==
    \A k \in Callbacks : callback[k].pc = "synced" =>
        /\ callback[k].revoked = {r \in SsoRoles : Revocable(binding[callback[k].subject][r])}
        /\ \A j \in Callbacks : callback[j].pc = "synced" /\ callback[j].subject = callback[k].subject => j = k

CountedOnce ==
    /\ \A a \in Attempts : completed[a] > 0 => attempt[a] = "completed"
    /\ StateUsedOnce

SsoInv ==
    SsoRowsOK /\ OnlyUsersHold /\ CallbacksOK /\ SyncedIsCurrent /\ CountedOnce /\ GroupBindingsAreCurrent

ManualStays ==
    \A s \in Subjects, r \in SsoRoles :
        binding[s][r].source = "manual" => binding'[s][r] = binding[s][r]
SsoGoal == SsoInv' /\ ManualStays

LEMMA NoCallbackHasNone == NoCallback.pc = "none" /\ NoCallback \in CallbackType
BY DEF NoCallback, CallbackType

LEMMA CallbackForms ==
    ASSUME SsoRowsOK, NEW k \in Callbacks
    PROVE  /\ callback[k] = NoCallback \/ callback[k].attempt \in Attempts
           /\ callback[k].pc \in {"none", "found", "synced"}
           /\ callback[k].pc = "none" <=> callback[k] = NoCallback
           /\ callback[k].pc = "synced" =>
                 /\ callback[k].subject \in Subjects
                 /\ callback[k].revoked \subseteq SsoRoles
                 /\ callback[k].resolved \subseteq Pairs
BY NoCallbackHasNone DEF SsoRowsOK, CallbackType

LEMMA BoundType ==
    /\ NoBinding.source = "none" /\ NoBinding \in HeldType
    /\ \A scope \in SsoScopes, source \in {"manual", "sso"} :
          /\ Bound(scope, source) \in HeldType /\ Bound(scope, source) # NoBinding
          /\ Bound(scope, source).scope = scope /\ Bound(scope, source).source = source
    /\ \A b \in HeldType : b # NoBinding => b.scope \in SsoScopes /\ b.source \in {"manual", "sso"}
    /\ \A b \in HeldType : b.source \in {"manual", "sso"} => b # NoBinding
BY DEF NoBinding, Bound, HeldType

LEMMA SsoInitInv == SsoInit => SsoInv
<1> SUFFICES ASSUME SsoInit PROVE SsoInv
  OBVIOUS
<1>1. /\ provider = "enabled" /\ mapping = {} /\ users = {}
      /\ attempt = [a \in Attempts |-> "none"] /\ completed = [a \in Attempts |-> 0]
      /\ granted = [s \in Subjects |-> {}]
      /\ binding = [s \in Subjects |-> [r \in SsoRoles |-> NoBinding]]
      /\ callback = [k \in Callbacks |-> NoCallback]
  BY DEF SsoInit
<1>2. SsoRowsOK
  BY <1>1, BoundType, NoCallbackHasNone DEF SsoRowsOK
<1>3. OnlyUsersHold /\ CallbacksOK /\ SyncedIsCurrent
  BY <1>1, NoCallbackHasNone DEF OnlyUsersHold, CallbacksOK, SyncedIsCurrent
<1>4. CountedOnce /\ GroupBindingsAreCurrent
  BY <1>1, BoundType DEF CountedOnce, StateUsedOnce, GroupBindingsAreCurrent
<1>5. QED
  BY <1>2, <1>3, <1>4 DEF SsoInv

\* The provider, its groups and the mappings change, and the rest stays.
LEMMA ConfigKeeps ==
    ASSUME SsoInv,
           UNCHANGED <<ssoDb, attempt, users, binding, callback, completed, granted>>,
           provider' \in {"absent", "enabled", "disabled"},
           mapping' \subseteq Groups \X SsoRoles \X SsoScopes,
           provider' = "absent" => mapping' = {} /\ \A a \in Attempts : attempt[a] = "none"
    PROVE  SsoGoal
<1>1. SsoRowsOK' /\ OnlyUsersHold'
  BY DEF SsoInv, SsoRowsOK, OnlyUsersHold
<1>2. CallbacksOK' /\ SyncedIsCurrent' /\ CountedOnce'
  BY DEF SsoInv, CallbacksOK, SyncedIsCurrent, CountedOnce, StateUsedOnce, Revocable
<1>3. GroupBindingsAreCurrent' /\ ManualStays
  BY DEF SsoInv, GroupBindingsAreCurrent, ManualStays
<1>4. QED
  BY <1>1, <1>2, <1>3 DEF SsoGoal, SsoInv

LEMMA AssignKeeps ==
    ASSUME SsoInv, NEW s \in Subjects, NEW r \in SsoRoles, NEW scope \in SsoScopes,
           AssignManually(s, r, scope)
    PROVE  SsoGoal
<1> DEFINE b == Bound(scope, "manual")
           new == Assign(binding[s], r, b)
<1>0. /\ SsoRowsOK /\ s \in users
      /\ \A k \in Callbacks : callback[k].pc = "synced" => callback[k].subject # s
      /\ binding' = [binding EXCEPT ![s] = new]
      /\ UNCHANGED <<ssoDb, provider, mapping, attempt, users, callback, completed, granted>>
  BY DEF SsoInv, AssignManually, ChangeSso
<1>1. b \in HeldType /\ b # NoBinding /\ b.source = "manual"
  BY BoundType
<1>2. binding[s] \in [SsoRoles -> HeldType]
  BY <1>0 DEF SsoRowsOK
<1>3. /\ new \in [SsoRoles -> HeldType]
      /\ \A q \in SsoRoles : new[q] = binding[s][q] \/ (q = r /\ binding[s][q] = NoBinding /\ new[q] = b)
  BY <1>1, <1>2 DEF Assign
<1> HIDE DEF b, new
<1>4. /\ binding' \in [Subjects -> [SsoRoles -> HeldType]] /\ binding'[s] = new
      /\ \A u \in Subjects : u # s => binding'[u] = binding[u]
  BY <1>0, <1>3 DEF SsoRowsOK
<1>5. SsoRowsOK'
  BY <1>0, <1>4 DEF SsoRowsOK
<1>6. OnlyUsersHold' /\ CallbacksOK' /\ CountedOnce'
  BY <1>0, <1>4 DEF SsoInv, OnlyUsersHold, CallbacksOK, CountedOnce, StateUsedOnce
<1>7. SyncedIsCurrent'
  <2>1. \A k \in Callbacks : callback[k].pc = "synced" =>
            callback[k].subject \in Subjects /\ callback[k].subject # s
    BY <1>0, CallbackForms
  <2>2. QED
    BY <1>0, <1>4, <2>1 DEF SsoInv, SyncedIsCurrent, Revocable
<1>8. GroupBindingsAreCurrent'
  BY <1>0, <1>1, <1>3, <1>4 DEF SsoInv, GroupBindingsAreCurrent
<1>9. ManualStays
  BY <1>3, <1>4, BoundType DEF ManualStays
<1>10. QED
  BY <1>5, <1>6, <1>7, <1>8, <1>9 DEF SsoGoal, SsoInv

LEMMA InvitedKeeps ==
    ASSUME SsoInv, NEW s \in Subjects, UserByInvitation(s)
    PROVE  SsoGoal
<1>1. /\ users' = users \cup {s}
      /\ UNCHANGED <<ssoDb, provider, mapping, attempt, binding, callback, completed, granted>>
  BY DEF UserByInvitation
<1>2. SsoRowsOK' /\ OnlyUsersHold'
  BY <1>1 DEF SsoInv, SsoRowsOK, OnlyUsersHold
<1>3. CallbacksOK' /\ SyncedIsCurrent' /\ CountedOnce'
  BY <1>1 DEF SsoInv, CallbacksOK, SyncedIsCurrent, CountedOnce, StateUsedOnce, Revocable
<1>4. GroupBindingsAreCurrent' /\ ManualStays
  BY <1>1 DEF SsoInv, GroupBindingsAreCurrent, ManualStays
<1>5. QED
  BY <1>2, <1>3, <1>4 DEF SsoGoal, SsoInv

\* An attempt is started, or becomes too old.
LEMMA AttemptKeeps ==
    ASSUME SsoInv, NEW a \in Attempts, NEW status \in {"open", "expired"},
           attempt' = [attempt EXCEPT ![a] = status], attempt[a] # "completed",
           provider # "absent",
           UNCHANGED <<ssoDb, provider, mapping, users, binding, callback, completed, granted>>
    PROVE  SsoGoal
<1>0. SsoRowsOK
  BY DEF SsoInv
<1>1. /\ attempt'[a] = status /\ \A e \in Attempts : e # a => attempt'[e] = attempt[e]
      /\ SsoRowsOK'
  BY <1>0 DEF SsoRowsOK
<1>2. OnlyUsersHold' /\ SyncedIsCurrent' /\ GroupBindingsAreCurrent' /\ ManualStays
  BY DEF SsoInv, OnlyUsersHold, SyncedIsCurrent, GroupBindingsAreCurrent, ManualStays, Revocable
<1>3. CallbacksOK'
  BY <1>0, <1>1, CallbackForms DEF SsoInv, CallbacksOK
<1>4. CountedOnce'
  BY <1>1 DEF SsoInv, CountedOnce, StateUsedOnce
<1>5. QED
  BY <1>1, <1>2, <1>3, <1>4 DEF SsoGoal, SsoInv

\* A callback goes on or ends without a trace.
LEMMA CallbackKeeps ==
    ASSUME SsoInv, NEW k \in Callbacks, NEW c \in CallbackType,
           callback' = [callback EXCEPT ![k] = c],
           UNCHANGED <<ssoDb, provider, mapping, attempt, users, binding, completed, granted>>,
           c # NoCallback =>
               /\ attempt[c.attempt] # "none"
               /\ ssoDb = "sqlite" => /\ completed[c.attempt] = 0
                                      /\ \A j \in Callbacks : callback[j] # NoCallback => j = k,
           c.pc = "synced" =>
               /\ c.revoked = {r \in SsoRoles : Revocable(binding[c.subject][r])}
               /\ \A j \in Callbacks : callback[j].pc = "synced" => callback[j].subject # c.subject
    PROVE  SsoGoal
<1>0. callback'[k] = c /\ \A j \in Callbacks : j # k => callback'[j] = callback[j]
  BY DEF SsoInv, SsoRowsOK
<1>1. SsoRowsOK' /\ OnlyUsersHold' /\ CountedOnce'
  BY DEF SsoInv, SsoRowsOK, OnlyUsersHold, CountedOnce, StateUsedOnce
<1>2. GroupBindingsAreCurrent' /\ ManualStays
  BY DEF SsoInv, GroupBindingsAreCurrent, ManualStays
<1>3. CallbacksOK'
  BY <1>0 DEF SsoInv, CallbacksOK
<1>4. SyncedIsCurrent'
  BY <1>0 DEF SsoInv, SyncedIsCurrent, Revocable
<1>5. QED
  BY <1>1, <1>2, <1>3, <1>4 DEF SsoGoal, SsoInv

LEMMA FindKeeps ==
    ASSUME SsoInv, NEW k \in Callbacks, NEW a \in Attempts, FindAttempt(k, a)
    PROVE  SsoGoal
<1> DEFINE c == [pc |-> "found", attempt |-> a]
<1>1. c \in CallbackType /\ c.pc = "found" /\ c.attempt = a
  BY DEF CallbackType
<1>2. /\ callback' = [callback EXCEPT ![k] = c]
      /\ attempt[a] = "open"
      /\ ssoDb = "sqlite" => \A j \in Callbacks : callback[j] = NoCallback
      /\ UNCHANGED <<ssoDb, provider, mapping, attempt, users, binding, completed, granted>>
  BY DEF FindAttempt, Usable, CanBeginSso, ssoConfig
<1>3. completed[a] = 0
  BY <1>2 DEF SsoInv, SsoRowsOK, CountedOnce
<1> HIDE DEF c
<1>4. QED
  BY <1>1, <1>2, <1>3, CallbackKeeps

LEMMA IdentifyKeeps ==
    ASSUME SsoInv, NEW k \in Callbacks, NEW s \in Subjects, Identify(k, s)
    PROVE  SsoGoal
<1> DEFINE revoked == {r \in SsoRoles : Revocable(binding[s][r])}
           resolved == Resolved(groupsOf[s])
           c == [pc |-> "synced", attempt |-> callback[k].attempt, subject |-> s,
                 revoked |-> revoked, resolved |-> resolved]
<1>0. /\ SsoRowsOK /\ callback[k] # NoCallback /\ callback[k].attempt \in Attempts
      /\ \A j \in Callbacks : callback[j].pc = "synced" => callback[j].subject # s
      /\ callback' = [callback EXCEPT ![k] = c]
      /\ UNCHANGED <<ssoDb, provider, mapping, attempt, users, binding, completed, granted>>
  BY CallbackForms, NoCallbackHasNone DEF SsoInv, Identify, ssoConfig
<1>1. revoked \subseteq SsoRoles /\ resolved \subseteq Pairs
  BY <1>0 DEF SsoRowsOK, Resolved, Pairs
<1> HIDE DEF resolved
<1>2. /\ c \in CallbackType /\ c.pc = "synced" /\ c.attempt = callback[k].attempt
      /\ c.subject = s /\ c.revoked = revoked
  BY <1>0, <1>1 DEF CallbackType
<1> HIDE DEF c
<1>3. /\ attempt[c.attempt] # "none"
      /\ ssoDb = "sqlite" => /\ completed[c.attempt] = 0
                             /\ \A j \in Callbacks : callback[j] # NoCallback => j = k
  BY <1>0, <1>2 DEF SsoInv, CallbacksOK
<1>4. QED
  BY <1>0, <1>2, <1>3, CallbackKeeps

\* What a sync leaves of bindings from groups was resolved, a role that was resolved is
\* bound, and what was given by hand stays.
Synced(had, resolved, new) ==
    /\ new \in [SsoRoles -> HeldType]
    /\ \A r \in SsoRoles : /\ had[r].source = "manual" => new[r] = had[r]
                           /\ new[r].source = "sso" => <<r, new[r].scope>> \in resolved
                           /\ (\E scope \in SsoScopes : <<r, scope>> \in resolved) => new[r] # NoBinding

LEMMA SyncLeaves ==
    ASSUME NEW had \in [SsoRoles -> HeldType], NEW revoked \in SUBSET SsoRoles,
           NEW resolved \in SUBSET Pairs,
           \A r \in SsoRoles : had[r].source = "sso" <=> r \in revoked
    PROVE  Synced(had, resolved, Sync(had, revoked, resolved))
<1> DEFINE new == Sync(had, revoked, resolved)
           scopes(r) == {p[2] : p \in {q \in resolved : q[1] = r}}
           left(r) == IF r \in revoked THEN NoBinding ELSE had[r]
<1>1. \A r \in SsoRoles :
          new[r] = IF left(r) # NoBinding \/ scopes(r) = {} THEN left(r)
                   ELSE Bound(CHOOSE scope \in scopes(r) : TRUE, "sso")
  BY DEF Sync
<1>2. ASSUME NEW r \in SsoRoles
      PROVE  /\ left(r) \in HeldType /\ left(r).source \in {"none", "manual"}
             /\ left(r) # NoBinding => left(r).source = "manual"
             /\ had[r].source = "manual" => left(r) = had[r] /\ left(r) # NoBinding
  <2>1. had[r] \in HeldType
    OBVIOUS
  <2>2. QED
    BY <2>1, BoundType
<1>3. \A r \in SsoRoles : \A scope : scope \in scopes(r) <=> scope \in SsoScopes /\ <<r, scope>> \in resolved
  BY DEF Pairs
<1> HIDE DEF left, scopes
<1>4. ASSUME NEW r \in SsoRoles
      PROVE  /\ new[r] \in HeldType
             /\ had[r].source = "manual" => new[r] = had[r]
             /\ new[r].source = "sso" => <<r, new[r].scope>> \in resolved
             /\ (\E scope \in SsoScopes : <<r, scope>> \in resolved) => new[r] # NoBinding
  <2>1. CASE left(r) # NoBinding \/ scopes(r) = {}
    <3>1. new[r] = left(r)
      BY <1>1, <2>1
    <3>2. left(r).source # "sso"
      BY <1>2
    <3>3. (\E scope \in SsoScopes : <<r, scope>> \in resolved) => left(r) # NoBinding
      BY <1>3, <2>1
    <3>4. QED
      BY <1>2, <3>1, <3>2, <3>3
  <2>2. CASE ~(left(r) # NoBinding \/ scopes(r) = {})
    <3>1. PICK scope \in scopes(r) : new[r] = Bound(scope, "sso")
      BY <1>1, <2>2
    <3>2. scope \in SsoScopes /\ <<r, scope>> \in resolved
      BY <1>3, <3>1
    <3>3. new[r] \in HeldType /\ new[r] # NoBinding /\ new[r].scope = scope
      BY <3>1, <3>2, BoundType
    <3>4. had[r].source # "manual"
      BY <1>2, <2>2
    <3>5. QED
      BY <3>2, <3>3, <3>4
  <2>3. QED
    BY <2>1, <2>2
<1>5. new \in [SsoRoles -> HeldType]
  BY <1>4 DEF Sync
<1>6. QED
  BY <1>4, <1>5 DEF Synced

LEMMA ProvisionKeeps ==
    ASSUME SsoInv, NEW s \in Subjects
    PROVE  /\ Provision(s) \in [SsoRoles -> HeldType]
           /\ \A r \in SsoRoles : /\ Provision(s)[r].source = "sso" <=> binding[s][r].source = "sso"
                                  /\ binding[s][r].source = "manual" => Provision(s)[r] = binding[s][r]
<1> DEFINE b == Bound("tenant", "manual")
<1>1. b \in HeldType /\ b.source = "manual"
  BY BoundType, SsoAssumption
<1>2. binding[s] \in [SsoRoles -> HeldType]
  BY DEF SsoInv, SsoRowsOK
<1> HIDE DEF b
<1>3. \/ Provision(s) = binding[s]
      \/ /\ binding[s][DefaultRole] = NoBinding
         /\ Provision(s) = [binding[s] EXCEPT ![DefaultRole] = b]
  BY DEF Provision, Assign, b
<1>4. QED
  BY <1>1, <1>2, <1>3, BoundType, SsoAssumption

LEMMA SignInKeeps ==
    ASSUME SsoInv, NEW k \in Callbacks, CommitLogin(k)
    PROVE  SsoGoal
<1> DEFINE a == callback[k].attempt
           s == callback[k].subject
           revoked == callback[k].revoked
           resolved == callback[k].resolved
           had == Provision(s)
           new == Sync(had, revoked, resolved)
<1>0. /\ SsoRowsOK /\ callback[k].pc = "synced" /\ callback[k] # NoCallback
      /\ a \in Attempts /\ s \in Subjects /\ revoked \subseteq SsoRoles /\ resolved \subseteq Pairs
  BY CallbackForms DEF SsoInv, CommitLogin
<1>1. /\ attempt' = [attempt EXCEPT ![a] = "completed"]
      /\ users' = users \cup {s}
      /\ binding' = [binding EXCEPT ![s] = new]
      /\ completed' = [completed EXCEPT ![a] = @ + 1]
      /\ granted' = [granted EXCEPT ![s] = resolved]
      /\ callback' = [callback EXCEPT ![k] = NoCallback]
      /\ UNCHANGED <<ssoDb, provider, mapping>>
  BY DEF CommitLogin, ssoConfig
<1>2. /\ had \in [SsoRoles -> HeldType]
      /\ \A r \in SsoRoles : /\ had[r].source = "sso" <=> binding[s][r].source = "sso"
                             /\ binding[s][r].source = "manual" => had[r] = binding[s][r]
  BY <1>0, ProvisionKeeps
<1>3. \A r \in SsoRoles : had[r].source = "sso" <=> r \in revoked
  BY <1>0, <1>2 DEF SsoInv, SyncedIsCurrent, Revocable
<1> HIDE DEF had
<1>4. /\ new \in [SsoRoles -> HeldType]
      /\ \A r \in SsoRoles : /\ had[r].source = "manual" => new[r] = had[r]
                             /\ new[r].source = "sso" => <<r, new[r].scope>> \in resolved
                             /\ (\E scope \in SsoScopes : <<r, scope>> \in resolved) => new[r] # NoBinding
  <2>1. Synced(had, resolved, new)
    BY <1>0, <1>2, <1>3, SyncLeaves
  <2>2. QED
    BY <2>1 DEF Synced
<1>5. /\ attempt[a] # "none"
      /\ ssoDb = "sqlite" => /\ completed[a] = 0
                             /\ \A j \in Callbacks : callback[j] # NoCallback => j = k
  BY <1>0 DEF SsoInv, CallbacksOK
<1> HIDE DEF new
<1>6. /\ binding' \in [Subjects -> [SsoRoles -> HeldType]] /\ binding'[s] = new
      /\ \A u \in Subjects : u # s => binding'[u] = binding[u] /\ granted'[u] = granted[u]
      /\ granted'[s] = resolved
  BY <1>0, <1>1, <1>4 DEF SsoRowsOK
<1>7. /\ completed[a] \in Nat /\ completed'[a] = completed[a] + 1 /\ attempt'[a] = "completed"
      /\ \A e \in Attempts : e # a => completed'[e] = completed[e] /\ attempt'[e] = attempt[e]
  BY <1>0, <1>1 DEF SsoRowsOK
<1>8. callback'[k] = NoCallback /\ \A j \in Callbacks : j # k => callback'[j] = callback[j]
  BY <1>0, <1>1 DEF SsoRowsOK
<1> HIDE DEF a, s, revoked, resolved
<1>9. SsoRowsOK'
  BY <1>0, <1>1, <1>6, NoCallbackHasNone DEF SsoRowsOK
<1>10. OnlyUsersHold'
  BY <1>0, <1>1, <1>5, <1>6 DEF SsoInv, OnlyUsersHold
<1>11. CallbacksOK'
  BY <1>0, <1>1, <1>5, <1>7, <1>8, CallbackForms DEF SsoInv, CallbacksOK
<1>12. SyncedIsCurrent'
  <2>1. \A j \in Callbacks : callback'[j].pc = "synced" =>
            j # k /\ callback'[j] = callback[j] /\ callback[j].subject \in Subjects
                  /\ callback[j].subject # s
    BY <1>0, <1>8, CallbackForms, NoCallbackHasNone DEF SsoInv, SyncedIsCurrent, s
  <2>2. QED
    BY <1>6, <2>1 DEF SsoInv, SyncedIsCurrent, Revocable
<1>13. CountedOnce'
  BY <1>0, <1>1, <1>5, <1>7 DEF SsoInv, CountedOnce, StateUsedOnce, SsoRowsOK
<1>14. GroupBindingsAreCurrent'
  BY <1>0, <1>4, <1>6 DEF SsoInv, GroupBindingsAreCurrent
<1>15. ManualStays
  <2>1. \A r \in SsoRoles : binding[s][r].source = "manual" => new[r] = binding[s][r]
    BY <1>2, <1>4
  <2>2. QED
    BY <1>0, <1>6, <2>1 DEF ManualStays
<1>16. QED
  BY <1>9, <1>10, <1>11, <1>12, <1>13, <1>14, <1>15 DEF SsoGoal, SsoInv

LEMMA SsoStep ==
    ASSUME SsoInv, [SsoNext]_ssoVars
    PROVE  SsoGoal
<1>0. SsoRowsOK /\ (provider = "absent" => mapping = {} /\ \A a \in Attempts : attempt[a] = "none")
  BY DEF SsoInv, OnlyUsersHold
<1>1. CASE CreateSSOProvider \/ UpdateSSOProvider \/ DeleteSSOProvider
  BY <1>0, <1>1, ConfigKeeps
     DEF CreateSSOProvider, UpdateSSOProvider, DeleteSSOProvider, CreateProvider, UpdateProvider,
         DeleteProvider, ChangeSso, SsoRowsOK
<1>2. ASSUME NEW g \in Groups, NEW r \in SsoRoles, NEW scope \in SsoScopes,
             CreateSSOGroupMapping(g, r, scope) \/ DeleteSSOGroupMapping(g, r, scope)
      PROVE  SsoGoal
  <2>1. /\ UNCHANGED <<ssoDb, attempt, users, binding, callback, completed, granted, provider>>
        /\ provider # "absent" \/ mapping' \subseteq mapping
        /\ mapping' \subseteq Groups \X SsoRoles \X SsoScopes
    BY <1>0, <1>2 DEF CreateSSOGroupMapping, DeleteSSOGroupMapping, CreateGroupMapping,
                      DeleteGroupMapping, ChangeSso, SsoRowsOK
  <2>2. QED
    BY <1>0, <2>1, ConfigKeeps DEF SsoRowsOK
<1>3. ASSUME NEW s \in Subjects, ChangeGroups(s)
      PROVE  SsoGoal
  BY <1>0, <1>3, ConfigKeeps DEF ChangeGroups, ChangeSso, SsoRowsOK
<1>4. ASSUME NEW a \in Attempts, StartSSOLogin(a) \/ ExpireAttempt(a)
      PROVE  SsoGoal
  <2>1. /\ attempt' = [attempt EXCEPT ![a] = "open"] \/ attempt' = [attempt EXCEPT ![a] = "expired"]
        /\ attempt[a] # "completed" /\ provider # "absent"
        /\ UNCHANGED <<ssoDb, provider, mapping, users, binding, callback, completed, granted>>
    BY <1>0, <1>4 DEF StartSSOLogin, StartLogin, ExpireAttempt, ssoConfig
  <2>2. QED
    BY <2>1, AttemptKeeps
<1>5. ASSUME NEW k \in Callbacks, FailLogin(k)
      PROVE  SsoGoal
  BY <1>5, CallbackKeeps, NoCallbackHasNone DEF FailLogin, ssoConfig
<1>6. CASE UNCHANGED ssoVars
  BY <1>0, <1>6, ConfigKeeps DEF ssoVars, SsoRowsOK
<1>7. QED
  BY <1>1, <1>2, <1>3, <1>4, <1>5, <1>6, AssignKeeps, InvitedKeeps, FindKeeps, IdentifyKeeps, SignInKeeps
     DEF SsoNext, CompleteSSOLogin

\* However logins, groups, mappings and bindings made by hand are interleaved, on either
\* backend: what a user holds through groups is what its last login found, what an admin
\* gave by hand stays, and on SQLite a state completes one login.
THEOREM SignOnCorrect == SsoSpec => SsoIsSound
<1>1. SsoInv /\ [SsoNext]_ssoVars => SsoInv'
  BY SsoStep DEF SsoGoal
<1>2. SsoInv => SsoTypeOK
  <2> SUFFICES ASSUME SsoInv PROVE SsoTypeOK
    OBVIOUS
  <2>1. \A s \in Subjects, r \in SsoRoles :
            binding[s][r] # NoBinding => s \in users /\ binding[s][r].scope \in SsoScopes
    BY BoundType DEF SsoInv, SsoRowsOK, OnlyUsersHold
  <2>2. QED
    BY <2>1 DEF SsoInv, SsoRowsOK, OnlyUsersHold, SsoTypeOK
<1>3. SsoInv => GroupBindingsAreCurrent /\ StateUsedOnce
  BY DEF SsoInv, CountedOnce
<1>4. SsoInv /\ [SsoNext]_ssoVars => [ManualStays]_ssoVars
  BY SsoStep DEF SsoGoal
<1>5. QED
  BY <1>1, <1>2, <1>3, <1>4, SsoInitInv, PTL DEF SsoSpec, SsoIsSound, ManualBindingsStay, ManualStays

--------------------------------------------------------------------------------
(* Who is let in. *)

\* Refresh tokens, API keys, invitations, intakes and single sign-on each open the door
\* for whom they were made and no longer than they should.
THEOREM NobodyElseCorrect ==
    TokensSpec /\ ApiKeysSpec /\ InvitationsSpec /\ OnboardingSpec /\ SsoSpec /\ OidcSpec
        => NobodyElseIsLetIn
BY LoginsCorrect, ApiKeysCorrect, InvitationsCorrect, OnboardingCorrect, SignOnCorrect, IdentitiesCorrect
   DEF NobodyElseIsLetIn
================================================================================
