----------------------------- MODULE Fleet_proofs -----------------------------
(***************************************************************************)
(* What holds for any number of tenants, servers, schedules, robots and    *)
(* requests: of the quotas, how far a tenant may overshoot its limit; of   *)
(* the schedules, that one fires as its row says; of the demonstration     *)
(* data, that it is whole however often it is started; of robots, that one *)
(* that is live can be logged in to and is known by a key on record; of    *)
(* the advisor, that rows, audit entries and the budget fit one another;   *)
(* of insights, that each is reported once and drift is of the last scans. *)
(***************************************************************************)
EXTENDS MCFleet, SequenceTheorems, FiniteSetTheorems, TLAPS

\* A set whose members are all the same has one at most.
LEMMA OneAtMost ==
    ASSUME NEW S, \A x \in S : \A y \in S : x = y
    PROVE  Cardinality(S) <= 1
  <1>1. CASE S = {}
    BY <1>1, FS_EmptySet
  <1>2. CASE S # {}
    <2>1. PICK x \in S : TRUE
      BY <1>2
    <2>2. S = {x}
      BY <2>1
    <2> QED  BY <2>2, FS_Singleton
  <1> QED  BY <1>1, <1>2

\* A request that was let through waits for one creation.
OneCreationEach ==
    \A c \in GateCalls, q \in Quotas, r \in Quotas, t \in Customers, u \in Customers :
        c \in passed[q][t] /\ c \in passed[r][u] => q = r /\ t = u

\* A server that is down has no requests, and counts nothing as late.
DownIsQuiet ==
    server = "down" => late = 0 /\ \A q \in Quotas, t \in Customers : passed[q][t] = {}

QuotaInv ==
    QuotaTypeOK /\ OneCreationEach /\ DownIsQuiet /\ QuotaOvershootIsBounded /\ LateIsBounded

--------------------------------------------------------------------------------
(* Counting requests. *)

\* The requests that are under way are no more than there are.
LEMMA CardOfSome ==
    ASSUME NEW S \in SUBSET GateCalls
    PROVE  IsFiniteSet(S) /\ Cardinality(S) \in Nat /\ Cardinality(GateCalls) \in Nat
             /\ Cardinality(S) <= Cardinality(GateCalls)
  BY QuotaAssumption, FS_Subset, FS_CardinalityType

\* One of them that is over leaves one less.
LEMMA CardOfOneLess ==
    ASSUME NEW S \in SUBSET GateCalls, NEW c \in S
    PROVE  Cardinality(S \ {c}) = Cardinality(S) - 1
  BY CardOfSome, FS_RemoveElement

LEMMA AskingIsSome == Asking \subseteq GateCalls
  BY DEF Asking

--------------------------------------------------------------------------------
(* Types. *)

LEMMA ZeroType == Zero \in [Quotas -> [Customers -> Nat]] /\ NobodyPassed \in [Quotas -> [Customers -> SUBSET GateCalls]]
  BY DEF Zero, NoneToday, NobodyPassed

LEMMA LimitType ==
    ASSUME QuotaTypeOK
    PROVE  /\ \A q \in Quotas : Limit(q) \in Int
           /\ licence.expires \in Nat
  BY QuotaAssumption DEF QuotaTypeOK, Licences, Limit

LEMMA CountedType == \A q \in Quotas : CountsToday(q) \in {0, 1}
  BY DEF CountsToday

LEMMA QuotaTypeInit == QuotaInit => QuotaTypeOK
  BY ZeroType DEF QuotaInit, QuotaTypeOK

LEMMA QuotaTypeStep == QuotaTypeOK /\ [QuotaNext]_quotaVars => QuotaTypeOK'
  <1> SUFFICES ASSUME QuotaTypeOK, [QuotaNext]_quotaVars
               PROVE  QuotaTypeOK'
    OBVIOUS
  <1> USE DEF QuotaTypeOK
  <1>1. CASE StopServer
    BY <1>1, ZeroType DEF StopServer, clockVars, countVars
  <1>2. CASE StartServer
    <2>1. licence' \in Licences /\ server' \in {"down", "community", "licensed"}
      BY <1>2 DEF StartServer, Configurations
    <2> QED BY <1>2, <2>1, ZeroType DEF StartServer, clockVars
  <1>3. CASE FirstSecondEnds
    BY <1>3 DEF FirstSecondEnds, countVars
  <1>4. CASE Midnight
    <2>1. NoneToday \in [Customers -> Nat]
      BY DEF NoneToday
    <2>2. used' \in [Quotas -> [Customers -> Nat]] /\ before' \in [Quotas -> [Customers -> Nat]]
            /\ ungated' \in [Quotas -> [Customers -> Nat]]
      BY <1>4, <2>1 DEF Midnight
    <2>3. day' \in Nat /\ UNCHANGED <<server, licence, passed, late, created>>
      BY <1>4 DEF Midnight
    <2>4. early' = TRUE
      BY <1>4 DEF Midnight
    <2> QED BY <2>2, <2>3, <2>4
  <1>5. ASSUME NEW c \in GateCalls, NEW q \in Quotas, NEW t \in Customers, PassGate(c, q, t)
        PROVE  QuotaTypeOK'
    <2>1. passed' \in [Quotas -> [Customers -> SUBSET GateCalls]]
      BY <1>5 DEF PassGate
    <2>2. UNCHANGED <<server, licence, day, early, used, before, ungated, late, created>>
      BY <1>5 DEF PassGate, clockVars, countVars
    <2> QED BY <2>1, <2>2
  <1>6. ASSUME NEW c \in GateCalls, NEW q \in Quotas, NEW t \in Customers, Withdraw(c, q, t)
        PROVE  QuotaTypeOK'
    <2>1. passed' \in [Quotas -> [Customers -> SUBSET GateCalls]]
      BY <1>6 DEF Withdraw
    <2>2. UNCHANGED <<server, licence, day, early, used, before, ungated, late, created>>
      BY <1>6 DEF Withdraw, clockVars, countVars
    <2> QED BY <2>1, <2>2
  <1>7. ASSUME NEW c \in GateCalls, NEW q \in Quotas, NEW t \in Customers, CreateAsked(c, q, t)
        PROVE  QuotaTypeOK'
    <2>1. passed' \in [Quotas -> [Customers -> SUBSET GateCalls]]
      BY <1>7 DEF CreateAsked
    <2>2. used' \in [Quotas -> [Customers -> Nat]]
      BY <1>7, CountedType DEF CreateAsked
    <2>3. late' \in Nat /\ created' \in Nat
      BY <1>7 DEF CreateAsked
    <2>4. UNCHANGED <<server, licence, day, early, before, ungated>>
      BY <1>7 DEF CreateAsked, clockVars
    <2> QED BY <2>1, <2>2, <2>3, <2>4
  <1>8. ASSUME NEW q \in Quotas, NEW t \in Customers, CreateUngated(q, t)
        PROVE  QuotaTypeOK'
    <2>0. CountsToday(q) \in Nat
      BY CountedType
    <2>1. used' \in [Quotas -> [Customers -> Nat]] /\ ungated' \in [Quotas -> [Customers -> Nat]]
      <3>1. used' = [used EXCEPT ![q][t] = @ + CountsToday(q)]
        BY <1>8 DEF CreateUngated
      <3>2. ungated' = [ungated EXCEPT ![q][t] = @ + CountsToday(q)]
        BY <1>8 DEF CreateUngated
      <3>3. used' \in [Quotas -> [Customers -> Nat]]
        BY <2>0, <3>1
      <3>4. ungated' \in [Quotas -> [Customers -> Nat]]
        BY <2>0, <3>2
      <3> QED BY <3>3, <3>4
    <2>2. created' \in Nat
      BY <1>8 DEF CreateUngated
    <2>3. UNCHANGED <<server, licence, day, early, passed, before, late>>
      BY <1>8 DEF CreateUngated, clockVars
    <2> QED BY <2>1, <2>2, <2>3
  <1>9. ASSUME NEW t \in Customers, RemoveRobot(t)
        PROVE  QuotaTypeOK'
    BY <1>9 DEF RemoveRobot, clockVars, Quotas
  <1>10. CASE UNCHANGED quotaVars
    BY <1>10 DEF quotaVars
  <1> QED BY <1>1, <1>2, <1>3, <1>4, <1>5, <1>6, <1>7, <1>8, <1>9, <1>10 DEF QuotaNext

--------------------------------------------------------------------------------
(* Requests and creations, one by one. *)

\* What a request that passes the gate, gives up or creates does to the sets of them.
LEMMA PassGateSets ==
    ASSUME QuotaTypeOK, NEW c \in GateCalls, NEW q \in Quotas, NEW t \in Customers,
           PassGate(c, q, t)
    PROVE  /\ passed'[q][t] = passed[q][t] \cup {c}
           /\ \A r \in Quotas, u \in Customers : ~(r = q /\ u = t) => passed'[r][u] = passed[r][u]
  BY DEF QuotaTypeOK, PassGate

LEMMA WithdrawSets ==
    ASSUME QuotaTypeOK, NEW c \in GateCalls, NEW q \in Quotas, NEW t \in Customers,
           Withdraw(c, q, t) \/ CreateAsked(c, q, t)
    PROVE  /\ passed'[q][t] = passed[q][t] \ {c}
           /\ \A r \in Quotas, u \in Customers : ~(r = q /\ u = t) => passed'[r][u] = passed[r][u]
  <1>1. passed' = [passed EXCEPT ![q][t] = @ \ {c}]
    BY DEF Withdraw, CreateAsked
  <1> QED BY <1>1 DEF QuotaTypeOK

LEMMA CreateCounts ==
    ASSUME QuotaTypeOK, NEW c \in GateCalls, NEW q \in Quotas, NEW t \in Customers,
           CreateAsked(c, q, t)
    PROVE  /\ used'[q][t] = used[q][t] + CountsToday(q)
           /\ \A r \in Quotas, u \in Customers : ~(r = q /\ u = t) => used'[r][u] = used[r][u]
  BY DEF QuotaTypeOK, CreateAsked

\* Each waits for one creation.
LEMMA OneEachStep == QuotaInv /\ [QuotaNext]_quotaVars => OneCreationEach'
  <1> SUFFICES ASSUME QuotaInv, [QuotaNext]_quotaVars,
                      NEW d \in GateCalls, NEW r \in Quotas, NEW s \in Quotas,
                      NEW u \in Customers, NEW v \in Customers,
                      d \in passed'[r][u], d \in passed'[s][v]
               PROVE  r = s /\ u = v
    BY DEF OneCreationEach
  <1>0. QuotaTypeOK /\ OneCreationEach
    BY DEF QuotaInv
  <1>1. CASE StopServer
    BY <1>1 DEF StopServer, NobodyPassed
  <1>2. CASE UNCHANGED passed
    BY <1>0, <1>2 DEF OneCreationEach
  <1>3. ASSUME NEW c \in GateCalls, NEW q \in Quotas, NEW t \in Customers, PassGate(c, q, t)
        PROVE  r = s /\ u = v
    <2>1. /\ passed'[q][t] = passed[q][t] \cup {c}
          /\ \A p \in Quotas, w \in Customers : ~(p = q /\ w = t) => passed'[p][w] = passed[p][w]
      BY <1>0, <1>3, PassGateSets
    <2>2. CASE d # c
      <3>1. d \in passed[r][u] /\ d \in passed[s][v]
        BY <2>1, <2>2
      <3> QED BY <1>0, <3>1 DEF OneCreationEach
    <2>3. CASE d = c
      <3>1. d \notin passed[r][u] /\ d \notin passed[s][v]
        BY <1>3, <2>3 DEF PassGate, Asking
      <3>2. (r = q /\ u = t) /\ (s = q /\ v = t)
        BY <2>1, <3>1
      <3> QED BY <3>2
    <2> QED BY <2>2, <2>3
  <1>4. ASSUME NEW c \in GateCalls, NEW q \in Quotas, NEW t \in Customers,
               Withdraw(c, q, t) \/ CreateAsked(c, q, t)
        PROVE  r = s /\ u = v
    <2>0. /\ passed'[q][t] = passed[q][t] \ {c}
          /\ \A p \in Quotas, w \in Customers : ~(p = q /\ w = t) => passed'[p][w] = passed[p][w]
      BY <1>0, <1>4, WithdrawSets
    <2>1. d \in passed[r][u] /\ d \in passed[s][v]
      BY <2>0
    <2> QED BY <1>0, <2>1 DEF OneCreationEach
  <1>5. StartServer \/ FirstSecondEnds \/ Midnight \/ UNCHANGED quotaVars => UNCHANGED passed
    BY DEF StartServer, FirstSecondEnds, Midnight, quotaVars
  <1>6. \A q \in Quotas, t \in Customers : CreateUngated(q, t) \/ RemoveRobot(t) => UNCHANGED passed
    BY DEF CreateUngated, RemoveRobot
  <1>7. (\E t \in Customers : RemoveRobot(t)) => UNCHANGED passed
    BY DEF RemoveRobot
  <1> QED BY <1>1, <1>2, <1>3, <1>4, <1>5, <1>6, <1>7 DEF QuotaNext

\* A server that is down stays quiet.
LEMMA QuietStep == QuotaInv /\ [QuotaNext]_quotaVars => DownIsQuiet'
  <1> SUFFICES ASSUME QuotaInv, [QuotaNext]_quotaVars, server' = "down"
               PROVE  late' = 0 /\ \A q \in Quotas, t \in Customers : passed'[q][t] = {}
    BY DEF DownIsQuiet
  <1>1. CASE StopServer
    BY <1>1 DEF StopServer, NobodyPassed
  <1>2. CASE server = "down" /\ UNCHANGED <<late, passed>>
    BY <1>2 DEF QuotaInv, DownIsQuiet
  <1>3. ~StartServer
    BY DEF StartServer
  <1>4. FirstSecondEnds \/ Midnight \/ UNCHANGED quotaVars => server = "down" /\ UNCHANGED <<late, passed>>
    BY DEF FirstSecondEnds, Midnight, quotaVars
  <1>5. \A c \in GateCalls, q \in Quotas, t \in Customers :
          ~PassGate(c, q, t) /\ ~Withdraw(c, q, t) /\ ~CreateAsked(c, q, t)
    <2> SUFFICES ASSUME NEW c \in GateCalls, NEW q \in Quotas, NEW t \in Customers,
                        PassGate(c, q, t) \/ Withdraw(c, q, t) \/ CreateAsked(c, q, t)
                 PROVE  FALSE
      OBVIOUS
    <2>1. server = "down"
      BY DEF PassGate, Withdraw, CreateAsked
    <2>2. passed[q][t] = {}
      BY <2>1 DEF QuotaInv, DownIsQuiet
    <2> QED BY <2>1, <2>2 DEF PassGate, Allowed, Withdraw, CreateAsked
  <1>6. \A q \in Quotas, t \in Customers : ~CreateUngated(q, t) /\ ~RemoveRobot(t)
    BY DEF CreateUngated, RemoveRobot
  <1>7. \A t \in Customers : ~RemoveRobot(t)
    BY DEF RemoveRobot
  <1> QED BY <1>1, <1>2, <1>3, <1>4, <1>5, <1>6, <1>7 DEF QuotaNext

--------------------------------------------------------------------------------
(* The overshoot. *)

\* Only a start changes the licence, and a licensed server has seen one.
LEMMA LicenceStays ==
    ASSUME [QuotaNext]_quotaVars, ~StartServer, server' = "licensed"
    PROVE  server = "licensed" /\ licence' = licence
  <1>1. StopServer => server' = "down"
    BY DEF StopServer
  <1>2. ~StopServer => UNCHANGED <<server, licence>>
    BY DEF QuotaNext, FirstSecondEnds, Midnight, PassGate, Withdraw, CreateAsked, CreateUngated,
           RemoveRobot, quotaVars
  <1> QED BY <1>1, <1>2

LEMMA OvershootStep == QuotaInv /\ [QuotaNext]_quotaVars => QuotaOvershootIsBounded'
  <1> SUFFICES ASSUME QuotaInv, [QuotaNext]_quotaVars, server' = "licensed",
                      NEW r \in Quotas, NEW u \in Customers, ~IsUnlimited(r)'
               PROVE  used'[r][u] + Cardinality(passed'[r][u])
                        <= Larger(before'[r][u], Limit(r)' - 1 + Cardinality(GateCalls)) + ungated'[r][u]
    BY DEF QuotaOvershootIsBounded
  <1> DEFINE N == Cardinality(GateCalls)
             P == Cardinality(passed[r][u])
             PN == Cardinality(passed'[r][u])
  <1>0. QuotaTypeOK /\ QuotaTypeOK'
    BY QuotaTypeStep DEF QuotaInv
  <1>t. /\ used[r][u] \in Nat /\ before[r][u] \in Nat /\ ungated[r][u] \in Nat
        /\ used'[r][u] \in Nat /\ before'[r][u] \in Nat /\ ungated'[r][u] \in Nat
        /\ passed[r][u] \in SUBSET GateCalls /\ passed'[r][u] \in SUBSET GateCalls
    BY <1>0 DEF QuotaTypeOK
  <1>n. N \in Nat /\ P \in Nat /\ PN \in Nat /\ P <= N /\ PN <= N
    BY <1>t, CardOfSome
  <1>l. Limit(r) \in Int /\ Limit(r)' \in Int /\ Limit(r)' >= 1
    <2>1. licence.robots_max \in Int /\ licence.scans_per_day \in Int
      BY <1>0, QuotaAssumption DEF QuotaTypeOK, Licences
    <2>2. licence'.robots_max \in Int /\ licence'.scans_per_day \in Int
      BY <1>0, QuotaAssumption DEF QuotaTypeOK, Licences
    <2> QED BY <2>1, <2>2 DEF Limit, IsUnlimited
  <1> HIDE DEF N, P, PN
  <1>1. CASE StartServer
    <2>1. passed'[r][u] = {}
      BY <1>1 DEF StartServer, QuotaInv, DownIsQuiet
    <2>2. PN = 0
      BY <2>1, FS_EmptySet DEF PN
    <2>3. used'[r][u] = before'[r][u]
      BY <1>1 DEF StartServer
    <2> QED BY <1>t, <1>n, <1>l, <2>2, <2>3 DEF Larger, PN, N
  <1> SUFFICES ASSUME ~StartServer
               PROVE  used'[r][u] + PN <= Larger(before'[r][u], Limit(r)' - 1 + N) + ungated'[r][u]
    BY <1>1 DEF N, PN
  <1>2. server = "licensed" /\ licence' = licence
    BY LicenceStays
  <1>3. Limit(r)' = Limit(r) /\ ~IsUnlimited(r)
    BY <1>2 DEF Limit, IsUnlimited
  <1>4. used[r][u] + P <= Larger(before[r][u], Limit(r) - 1 + N) + ungated[r][u]
    BY <1>2, <1>3 DEF QuotaInv, QuotaOvershootIsBounded, N, P
  <1>5. CASE /\ used'[r][u] + PN <= used[r][u] + P
             /\ before'[r][u] = before[r][u] /\ ungated'[r][u] = ungated[r][u]
    BY <1>3, <1>4, <1>5, <1>t, <1>n, <1>l DEF Larger
  <1>6. CASE Midnight
    <2>1. CASE r = "scans_per_day"
      <3>1. used'[r][u] = 0
        BY <1>0, <1>6, <2>1 DEF QuotaTypeOK, Midnight, NoneToday
      <3> QED BY <3>1, <1>t, <1>n, <1>l DEF Larger
    <2>2. CASE r # "scans_per_day"
      <3>1. used'[r][u] = used[r][u] /\ before'[r][u] = before[r][u] /\ ungated'[r][u] = ungated[r][u]
        BY <1>0, <1>6, <2>2 DEF QuotaTypeOK, Midnight
      <3>2. PN = P
        BY <1>6 DEF Midnight, PN, P
      <3> QED BY <1>5, <3>1, <3>2, <1>t, <1>n
    <2> QED BY <2>1, <2>2
  <1>7. ASSUME NEW c \in GateCalls, NEW q \in Quotas, NEW t \in Customers, PassGate(c, q, t)
        PROVE  used'[r][u] + PN <= Larger(before'[r][u], Limit(r)' - 1 + N) + ungated'[r][u]
    <2>1. UNCHANGED <<used, before, ungated>>
      BY <1>7 DEF PassGate, countVars
    <2>2. CASE r = q /\ u = t
      <3>1. used[r][u] + 1 <= Limit(r)
        BY <1>2, <1>3, <1>7, <2>2 DEF PassGate, Allowed
      <3> QED BY <2>1, <3>1, <1>3, <1>t, <1>n, <1>l DEF Larger
    <2>3. CASE ~(r = q /\ u = t)
      <3>1. passed'[r][u] = passed[r][u]
        BY <1>0, <1>7, <2>3, PassGateSets
      <3> QED BY <1>5, <2>1, <3>1, <1>t, <1>n DEF PN, P
    <2> QED BY <2>2, <2>3
  <1>8. ASSUME NEW c \in GateCalls, NEW q \in Quotas, NEW t \in Customers,
               Withdraw(c, q, t) \/ CreateAsked(c, q, t)
        PROVE  used'[r][u] + PN <= Larger(before'[r][u], Limit(r)' - 1 + N) + ungated'[r][u]
    <2>1. UNCHANGED <<before, ungated>> /\ c \in passed[q][t]
      BY <1>8 DEF Withdraw, CreateAsked, countVars
    <2>2. CASE r = q /\ u = t
      <3>1. passed'[r][u] = passed[r][u] \ {c}
        BY <1>0, <1>8, <2>2, WithdrawSets
      <3>2. PN = P - 1
        BY <1>t, <2>1, <2>2, <3>1, CardOfOneLess DEF P, PN
      <3>3. used'[r][u] <= used[r][u] + 1
        <4>1. CASE Withdraw(c, q, t)
          BY <4>1, <1>t DEF Withdraw, countVars
        <4>2. CASE CreateAsked(c, q, t)
          <5>1. used'[r][u] = used[r][u] + CountsToday(r)
            BY <1>0, <2>2, <4>2, CreateCounts
          <5> QED BY <5>1, <1>t, CountedType
        <4> QED BY <1>8, <4>1, <4>2
      <3> QED BY <1>5, <2>1, <3>2, <3>3, <1>t, <1>n
    <2>3. CASE ~(r = q /\ u = t)
      <3>1. passed'[r][u] = passed[r][u]
        BY <1>0, <1>8, <2>3, WithdrawSets
      <3>2. used'[r][u] = used[r][u]
        <4>1. CASE Withdraw(c, q, t)
          BY <4>1 DEF Withdraw, countVars
        <4>2. CASE CreateAsked(c, q, t)
          BY <1>0, <2>3, <4>2, CreateCounts
        <4> QED BY <1>8, <4>1, <4>2
      <3> QED BY <1>5, <2>1, <3>1, <3>2, <1>t, <1>n DEF PN, P
    <2> QED BY <2>2, <2>3
  <1>9. ASSUME NEW q \in Quotas, NEW t \in Customers, CreateUngated(q, t)
        PROVE  used'[r][u] + PN <= Larger(before'[r][u], Limit(r)' - 1 + N) + ungated'[r][u]
    <2>1. UNCHANGED <<before, passed>> /\ PN = P
      BY <1>9 DEF CreateUngated, PN, P
    <2>2. CASE r = q /\ u = t
      <3>1. used'[r][u] = used[r][u] + CountsToday(r)
        BY <1>0, <1>9, <2>2 DEF QuotaTypeOK, CreateUngated
      <3>2. ungated'[r][u] = ungated[r][u] + CountsToday(r)
        BY <1>0, <1>9, <2>2 DEF QuotaTypeOK, CreateUngated
      <3>3. CountsToday(r) \in Nat
        BY CountedType
      <3> QED BY <1>3, <1>4, <2>1, <3>1, <3>2, <3>3, <1>t, <1>n, <1>l DEF Larger
    <2>3. CASE ~(r = q /\ u = t)
      <3>1. used'[r][u] = used[r][u] /\ ungated'[r][u] = ungated[r][u]
        BY <1>0, <1>9, <2>3 DEF QuotaTypeOK, CreateUngated
      <3> QED BY <1>5, <2>1, <3>1, <1>t, <1>n
    <2> QED BY <2>2, <2>3
  <1>10. ASSUME NEW t \in Customers, RemoveRobot(t)
         PROVE  used'[r][u] + PN <= Larger(before'[r][u], Limit(r)' - 1 + N) + ungated'[r][u]
    <2>1. UNCHANGED <<before, ungated, passed>> /\ PN = P
      BY <1>10 DEF RemoveRobot, PN, P
    <2>2. used'[r][u] <= used[r][u]
      <3>1. used' = [used EXCEPT !["robots_max"][t] = used["robots_max"][t] - 1]
        BY <1>10 DEF RemoveRobot
      <3>2. CASE r = "robots_max" /\ u = t
        BY <1>0, <1>t, <3>1, <3>2 DEF QuotaTypeOK
      <3>3. CASE ~(r = "robots_max" /\ u = t)
        BY <1>0, <1>t, <3>1, <3>3 DEF QuotaTypeOK
      <3> QED BY <3>2, <3>3
    <2> QED BY <1>5, <2>1, <2>2, <1>t, <1>n
  <1>11. CASE FirstSecondEnds \/ UNCHANGED quotaVars
    <2>1. UNCHANGED <<used, before, ungated, passed>> /\ PN = P
      BY <1>11 DEF FirstSecondEnds, countVars, quotaVars, PN, P
    <2> QED BY <1>5, <2>1, <1>t, <1>n
  <1>12. ~StopServer
    BY DEF StopServer
  <1> QED BY <1>6, <1>7, <1>8, <1>9, <1>10, <1>11, <1>12 DEF QuotaNext

--------------------------------------------------------------------------------
(* The expiry. *)

\* A request that gives up or creates waits for nothing any more.
LEMMA AskingAfter ==
    ASSUME QuotaTypeOK, OneCreationEach, NEW c \in GateCalls, NEW q \in Quotas, NEW t \in Customers,
           Withdraw(c, q, t) \/ CreateAsked(c, q, t)
    PROVE  c \in Asking /\ Asking' = Asking \ {c}
  <1>1. c \in passed[q][t]
    BY DEF Withdraw, CreateAsked
  <1>2. /\ passed'[q][t] = passed[q][t] \ {c}
        /\ \A r \in Quotas, u \in Customers : ~(r = q /\ u = t) => passed'[r][u] = passed[r][u]
    BY WithdrawSets
  <1>3. ASSUME NEW r \in Quotas, NEW u \in Customers, c \in passed'[r][u]
        PROVE  FALSE
    BY <1>1, <1>2, <1>3 DEF OneCreationEach
  <1>4. ASSUME NEW d \in GateCalls, d # c, NEW r \in Quotas, NEW u \in Customers
        PROVE  d \in passed'[r][u] <=> d \in passed[r][u]
    BY <1>2, <1>4
  <1>5. c \in Asking
    BY <1>1 DEF Asking
  <1>6. \A d \in GateCalls : d \in Asking' <=> d \in Asking /\ d # c
    BY <1>3, <1>4 DEF Asking
  <1> QED BY <1>5, <1>6 DEF Asking

LEMMA LateStep == QuotaInv /\ [QuotaNext]_quotaVars => LateIsBounded'
  <1> SUFFICES ASSUME QuotaInv, [QuotaNext]_quotaVars, server' = "licensed"
               PROVE  IF IsExpired(licence)' THEN late' + Cardinality(Asking') <= Cardinality(GateCalls)
                                             ELSE late' = 0
    BY DEF LateIsBounded
  <1> DEFINE Goal == IF IsExpired(licence)' THEN late' + Cardinality(Asking') <= Cardinality(GateCalls)
                                            ELSE late' = 0
  <1>0. QuotaTypeOK /\ QuotaTypeOK' /\ OneCreationEach
    BY QuotaTypeStep DEF QuotaInv
  <1>t. late \in Nat /\ day \in Nat /\ licence.expires \in Nat
    BY <1>0, LimitType DEF QuotaTypeOK
  <1>n. /\ Cardinality(Asking) \in Nat /\ Cardinality(Asking') \in Nat /\ Cardinality(GateCalls) \in Nat
        /\ Cardinality(Asking) <= Cardinality(GateCalls) /\ Cardinality(Asking') <= Cardinality(GateCalls)
    <2>1. Asking \in SUBSET GateCalls /\ Asking' \in SUBSET GateCalls
      BY DEF Asking
    <2> QED BY <2>1, CardOfSome
  <1>1. CASE StartServer
    <2>1. server = "down" /\ UNCHANGED <<late, day>>
      BY <1>1 DEF StartServer, clockVars
    <2>2. late' = 0
      BY <2>1 DEF QuotaInv, DownIsQuiet
    <2>3. ~IsExpired(licence)'
      <3>1. PICK conf \in Configurations : ~IsExpired(conf.licence) /\ licence' = conf.licence
        BY <1>1 DEF StartServer
      <3> QED BY <2>1, <3>1 DEF IsExpired
    <2> QED BY <2>2, <2>3
  <1> SUFFICES ASSUME ~StartServer PROVE Goal
    BY <1>1
  <1>2. server = "licensed" /\ licence' = licence
    BY LicenceStays
  <1>3. IF IsExpired(licence) THEN late + Cardinality(Asking) <= Cardinality(GateCalls) ELSE late = 0
    BY <1>2 DEF QuotaInv, LateIsBounded
  <1>4. CASE UNCHANGED <<day, late, passed>>
    BY <1>2, <1>3, <1>4 DEF IsExpired, Asking
  <1>5. CASE Midnight
    <2>1. day' = day + 1 /\ UNCHANGED <<late, passed>>
      BY <1>5 DEF Midnight
    <2>2. Asking' = Asking
      BY <2>1 DEF Asking
    <2>3. IsExpired(licence) => IsExpired(licence)'
      BY <1>2, <1>t, <2>1 DEF IsExpired
    <2> QED BY <1>3, <1>t, <1>n, <2>1, <2>2, <2>3
  <1>6. ASSUME NEW c \in GateCalls, NEW q \in Quotas, NEW t \in Customers, PassGate(c, q, t)
        PROVE  Goal
    <2>1. ~IsExpired(licence) /\ UNCHANGED <<day, late>>
      BY <1>2, <1>6 DEF PassGate, Allowed, clockVars
    <2>2. ~IsExpired(licence)'
      BY <1>2, <2>1 DEF IsExpired
    <2> QED BY <1>3, <2>1, <2>2
  <1>7. ASSUME NEW c \in GateCalls, NEW q \in Quotas, NEW t \in Customers,
               Withdraw(c, q, t) \/ CreateAsked(c, q, t)
        PROVE  Goal
    <2>1. Cardinality(Asking') = Cardinality(Asking) - 1
      <3>1. Asking \in SUBSET GateCalls
        BY AskingIsSome
      <3>2. c \in Asking /\ Asking' = Asking \ {c}
        BY <1>0, <1>7, AskingAfter
      <3> QED BY <3>1, <3>2, CardOfOneLess
    <2>2. day' = day
      BY <1>7 DEF Withdraw, CreateAsked, clockVars
    <2>3. IsExpired(licence)' <=> IsExpired(licence)
      BY <1>2, <2>2 DEF IsExpired
    <2>4. late' = IF IsExpired(licence) /\ CreateAsked(c, q, t) THEN late + 1 ELSE late
      BY <1>2, <1>7 DEF Withdraw, CreateAsked, countVars
    <2> QED BY <1>3, <1>t, <1>n, <2>1, <2>3, <2>4
  <1>8. FirstSecondEnds \/ UNCHANGED quotaVars => UNCHANGED <<day, late, passed>>
    BY DEF FirstSecondEnds, quotaVars
  <1>9. \A q \in Quotas, t \in Customers : CreateUngated(q, t) => UNCHANGED <<day, late, passed>>
    BY DEF CreateUngated, clockVars
  <1>10. \A t \in Customers : RemoveRobot(t) => UNCHANGED <<day, late, passed>>
    BY DEF RemoveRobot, clockVars
  <1>11. ~StopServer
    BY DEF StopServer
  <1> QED BY <1>4, <1>5, <1>6, <1>7, <1>8, <1>9, <1>10, <1>11 DEF QuotaNext

--------------------------------------------------------------------------------
(* Theorems. *)

LEMMA QuotaInvInit == QuotaInit => QuotaInv
  <1> SUFFICES ASSUME QuotaInit PROVE QuotaInv
    OBVIOUS
  <1>1. \A q \in Quotas, t \in Customers : passed[q][t] = {}
    BY DEF QuotaInit, NobodyPassed
  <1> QED BY <1>1, QuotaTypeInit DEF QuotaInit, QuotaInv, OneCreationEach, DownIsQuiet,
               QuotaOvershootIsBounded, LateIsBounded

LEMMA QuotaInvStep == QuotaInv /\ [QuotaNext]_quotaVars => QuotaInv'
  BY QuotaTypeStep, OneEachStep, QuietStep, OvershootStep, LateStep DEF QuotaInv

LEMMA QuotaInvAlways == QuotaSpec => []QuotaInv
  BY QuotaInvInit, QuotaInvStep, PTL DEF QuotaSpec

\* Between the gate of CreateRobot or CreateScan and the transaction that creates, other
\* requests may pass the gate: a tenant ends up with more than its licence allows by no
\* more than the requests that can be there at once.
THEOREM OvershootCorrect == QuotaSpec => []QuotaOvershootIsBounded
  <1>1. QuotaInv => QuotaOvershootIsBounded
    BY DEF QuotaInv
  <1> QED BY <1>1, QuotaInvAlways, PTL

\* A licence that expires while the server runs lets through only the requests that had
\* passed the gate by then.
THEOREM ExpiryCorrect == QuotaSpec => []LateIsBounded
  <1>1. QuotaInv => LateIsBounded
    BY DEF QuotaInv
  <1> QED BY <1>1, QuotaInvAlways, PTL

\* Types, and what the page of the licence says of a quota is what the gate does with it,
\* whatever the limits are.
THEOREM PageCorrect == QuotaSpec => [](QuotaTypeOK /\ PageExplainsGate)
  <1>1. QuotaInv => QuotaTypeOK /\ PageExplainsGate
    <2> SUFFICES ASSUME QuotaInv PROVE QuotaTypeOK /\ PageExplainsGate
      OBVIOUS
    <2>1. QuotaTypeOK
      BY DEF QuotaInv
    <2>2. ASSUME server # "down", NEW q \in Quotas, NEW t \in Customers
          PROVE  Allowed(q, t) <=>
                   ~ShownExpired /\ (ShownLimit(q) <= 0 \/ ShownUsage(q, t, TRUE) < ShownLimit(q))
      <3>1. Limit(q) \in Int /\ used[q][t] \in Nat
        BY <2>1, LimitType DEF QuotaTypeOK
      <3>2. CASE server = "community"
        BY <3>2 DEF Allowed, ShownExpired, ShownLimit
      <3>3. CASE server = "licensed"
        <4>1. ShownLimit(q) = Limit(q) /\ ShownUsage(q, t, TRUE) = used[q][t]
          BY <3>3 DEF ShownLimit, ShownUsage
        <4>2. ShownExpired <=> IsExpired(licence)
          BY <3>3 DEF ShownExpired
        <4> DEFINE u == ShownUsage(q, t, TRUE)
                   l == ShownLimit(q)
        <4>3. u = used[q][t] /\ l = Limit(q)
          BY <4>1
        <4> HIDE DEF u, l
        <4>4. Allowed(q, t) <=> ~ShownExpired /\ (l <= 0 \/ u < l)
          BY <3>1, <3>3, <4>2, <4>3 DEF Allowed, IsUnlimited
        <4> QED BY <4>4 DEF u, l
      <3> QED BY <2>1, <2>2, <3>2, <3>3 DEF QuotaTypeOK
    <2>3. ASSUME server # "down", NEW q \in Quotas, NEW t \in Customers
          PROVE  ShownUsage(q, t, FALSE) <= ShownUsage(q, t, TRUE)
      BY <2>1 DEF ShownUsage, QuotaTypeOK
    <2> QED BY <2>1, <2>2, <2>3 DEF PageExplainsGate
  <1> QED BY <1>1, QuotaInvAlways, PTL

\* What a run checks for two tenants and two requests holds for any number of them, of
\* licences and of days: the limits hold within their stated overshoot, also over the
\* expiry, and the page of the licence says what the gate does.
THEOREM QuotasCorrect == QuotaSpec => []QuotasAreSound
  <1>1. QuotaTypeOK /\ PageExplainsGate /\ QuotaOvershootIsBounded /\ LateIsBounded <=> QuotasAreSound
    BY DEF QuotasAreSound
  <1> QED BY <1>1, OvershootCorrect, ExpiryCorrect, PageCorrect, PTL

--------------------------------------------------------------------------------
(* The cron jobs of the fleets. *)

RequestTypes ==
    {NoRequest}
    \cup [at : {"drop", "cancel", "read", "register"}, server : Servers, fleet : CronFleets,
          policy : Policies \cup {NoRow}]
BootTypes == {Serving} \cup [at : {"list"}] \cup [at : {"register"}, rows : SUBSET (CronFleets \X Policies)]

\* The types of the rows, the requests and the starts, beside those of the cron tables.
ScheduleRows ==
    /\ fleetRow \in [CronFleets -> Policies \cup {NoRow}]
    /\ admin \in [Admins -> RequestTypes]
    /\ boot \in [Servers -> BootTypes]
    /\ scanned \subseteq CronFleets /\ disturbed \subseteq Servers \X CronFleets

\* What cron holds and what the scheduler's map says it holds: every entry is the one its
\* fleet's key names, and no two fleets share one.
CronInv ==
    /\ jobId \in [Servers -> [CronFleets -> Nat]]
    /\ lastId \in [Servers -> Nat]
    /\ cronTab \in [Servers -> SUBSET (Nat \X CronFleets \X CronTakes)]
    /\ \A i \in Servers : \A f \in CronFleets :
         /\ jobId[i][f] \in 0..lastId[i]
         /\ \A g \in CronFleets : jobId[i][f] = jobId[i][g] /\ jobId[i][f] # NoId => f = g
    /\ \A i \in Servers : \A e \in cronTab[i] : e[1] \in 1..lastId[i] /\ jobId[i][e[2]] = e[1]

\* The job of f on i is the one its row calls for.
Follows(i, f) == {e[3] : e \in JobsOf(i, f)} = Wanted(f)

\* The one request about f on i knows what it has left to do.
RequestInv(i, f) ==
    \A a \in Busy(i, f) :
        /\ Busy(i, f) = {a}
        /\ admin[a].at = "drop" => fleetRow[f] = NoRow
        /\ admin[a].at \in {"read", "register"} => jobId[i][f] = NoId
        /\ admin[a].at = "register" => admin[a].policy = fleetRow[f]

\* What RegisterAll has listed and not registered is as the rows are.
StartInv(i, f) ==
    boot[i].at = "register" =>
        /\ \A row \in boot[i].rows : row[1] = f => row[2] = fleetRow[f] /\ jobId[i][f] = NoId
        /\ (\A row \in boot[i].rows : row[1] # f) => Follows(i, f)

PairInv(i, f) ==
    <<i, f>> \notin disturbed =>
        /\ boot[i] = Serving /\ Busy(i, f) = {} => Follows(i, f)
        /\ RequestInv(i, f)
        /\ StartInv(i, f)

\* An instance that starts serves nobody, and begins without a job.
BootInv ==
    \A i \in Servers : \A f \in CronFleets :
        /\ boot[i] # Serving => Busy(i, f) = {}
        /\ boot[i].at = "list" => jobId[i][f] = NoId

ScheduleInv ==
    /\ ScheduleRows
    /\ CronInv
    /\ BootInv
    /\ \A i \in Servers : \A f \in CronFleets : PairInv(i, f)

\* The cron job of every other pair stays.
OthersStay(i, f) ==
    \A j \in Servers : \A g \in CronFleets : <<j, g>> # <<i, f>> =>
        jobId'[j][g] = jobId[j][g] /\ JobsOf(j, g)' = JobsOf(j, g)

\* Cancel leaves no job of the fleet, and those of the others alone.
LEMMA CancelKeeps ==
    ASSUME CronInv, NEW i \in Servers, NEW f \in CronFleets, CronCancel(i, f)
    PROVE  CronInv' /\ OthersStay(i, f) /\ jobId'[i][f] = NoId /\ JobsOf(i, f)' = {}
  <1>1. /\ jobId'[i][f] = NoId
        /\ \A j \in Servers : \A g \in CronFleets : <<j, g>> # <<i, f>> => jobId'[j][g] = jobId[j][g]
        /\ jobId' \in [Servers -> [CronFleets -> Nat]]
    BY DEF CronInv, CronCancel, NoId
  <1>2. /\ cronTab'[i] = {e \in cronTab[i] : e[1] # jobId[i][f]}
        /\ \A j \in Servers : j # i => cronTab'[j] = cronTab[j]
        /\ cronTab' \in [Servers -> SUBSET (Nat \X CronFleets \X CronTakes)]
    BY DEF CronInv, CronCancel
  <1>3. lastId' = lastId
    BY DEF CronCancel
  <1>4. ASSUME NEW j \in Servers, NEW e \in cronTab'[j]
        PROVE  /\ e \in cronTab[j] /\ e[2] \in CronFleets
               /\ <<j, e[2]>> # <<i, f>>
    BY <1>2 DEF CronInv
  <1>5. CronInv'
    <2>1. ASSUME NEW j \in Servers, NEW g \in CronFleets
          PROVE  /\ jobId'[j][g] \in 0..lastId'[j]
                 /\ \A h \in CronFleets : jobId'[j][g] = jobId'[j][h] /\ jobId'[j][g] # NoId => g = h
      <3>1. \A h \in CronFleets : jobId'[j][h] = jobId[j][h] \/ (jobId'[j][h] = NoId /\ j = i /\ h = f)
        BY <1>1
      <3>2. jobId'[j][g] \in 0..lastId'[j]
        BY <3>1, <1>3 DEF CronInv, NoId
      <3>3. ASSUME NEW h \in CronFleets, jobId'[j][g] = jobId'[j][h], jobId'[j][g] # NoId
            PROVE  g = h
        <4>1. jobId'[j][g] = jobId[j][g] /\ jobId'[j][h] = jobId[j][h]
          BY <3>1, <3>3
        <4>2. jobId[j][g] = jobId[j][h] /\ jobId[j][g] # NoId
          BY <4>1, <3>3
        <4> QED  BY <4>2 DEF CronInv
      <3> QED  BY <3>2, <3>3
    <2>2. ASSUME NEW j \in Servers, NEW e \in cronTab'[j]
          PROVE  e[1] \in 1..lastId'[j] /\ jobId'[j][e[2]] = e[1]
      BY <1>1, <1>3, <1>4 DEF CronInv
    <2> QED  BY <1>1, <1>2, <1>3, <2>1, <2>2 DEF CronInv
  <1>6. JobsOf(i, f)' = {}
    BY <1>4 DEF JobsOf
  <1>7. ASSUME NEW j \in Servers, NEW g \in CronFleets, <<j, g>> # <<i, f>>
        PROVE  JobsOf(j, g)' = JobsOf(j, g)
    <2>1. CASE j # i
      BY <2>1, <1>2 DEF JobsOf
    <2>2. CASE j = i
      <3>1. \A e \in cronTab[i] : e[2] = g => e[1] # jobId[i][f]
        BY <1>7, <2>2 DEF CronInv, NoId
      <3> QED  BY <3>1, <2>2, <1>2 DEF JobsOf
    <2> QED  BY <2>1, <2>2
  <1> QED  BY <1>1, <1>5, <1>6, <1>7 DEF OthersStay

\* A fleet without a key has no job.
LEMMA NoKeyNoJob ==
    ASSUME CronInv, NEW i \in Servers, NEW f \in CronFleets, jobId[i][f] = NoId
    PROVE  JobsOf(i, f) = {}
  BY DEF CronInv, JobsOf, NoId

\* Schedule gives a fleet without a job the job that is asked for, when cron takes it.
LEMMA RegisterKeeps ==
    ASSUME CronInv, NEW i \in Servers, NEW f \in CronFleets, NEW policy,
           CronSchedule(i, f, policy)
    PROVE  /\ CronInv' /\ OthersStay(i, f)
           /\ jobId[i][f] = NoId =>
                {e[3] : e \in JobsOf(i, f)'} = IF policy \in CronTakes THEN {policy} ELSE {}
  <1>1. CASE policy \in CronTakes /\ jobId[i][f] = NoId
    <2> DEFINE new == <<lastId[i] + 1, f, policy>>
    <2>1. /\ jobId'[i][f] = lastId[i] + 1
          /\ \A j \in Servers : \A g \in CronFleets : <<j, g>> # <<i, f>> => jobId'[j][g] = jobId[j][g]
          /\ jobId' \in [Servers -> [CronFleets -> Nat]]
      BY <1>1 DEF CronInv, CronSchedule
    <2>2. /\ lastId'[i] = lastId[i] + 1 /\ \A j \in Servers : j # i => lastId'[j] = lastId[j]
          /\ lastId' \in [Servers -> Nat]
      BY <1>1 DEF CronInv, CronSchedule
    <2>3. /\ cronTab'[i] = cronTab[i] \cup {new}
          /\ \A j \in Servers : j # i => cronTab'[j] = cronTab[j]
      BY <1>1 DEF CronInv, CronSchedule
    <2>a. new \in Nat \X CronFleets \X CronTakes
      BY <1>1 DEF CronInv
    <2>b. cronTab' \in [Servers -> SUBSET (Nat \X CronFleets \X CronTakes)]
      <3>1. cronTab' = [cronTab EXCEPT ![i] = cronTab[i] \cup {new}]
        BY <1>1 DEF CronSchedule
      <3> HIDE DEF new
      <3> QED  BY <3>1, <2>a DEF CronInv
    <2>c. new[1] = lastId[i] + 1 /\ new[2] = f /\ new[3] = policy
      OBVIOUS
    <2> HIDE DEF new
    <2>4. JobsOf(i, f) = {}
      BY <1>1, NoKeyNoJob
    <2>5. ASSUME NEW j \in Servers, NEW e \in cronTab'[j]
          PROVE  e[1] \in 1..lastId'[j] /\ jobId'[j][e[2]] = e[1]
      <3>1. CASE j = i /\ e = new
        BY <3>1, <2>1, <2>2, <2>c DEF CronInv
      <3>2. CASE e \in cronTab[j]
        <4>1. e[1] \in 1..lastId[j] /\ jobId[j][e[2]] = e[1] /\ e[2] \in CronFleets
          BY <3>2 DEF CronInv
        <4>2. <<j, e[2]>> # <<i, f>>
          BY <4>1, <3>2, <2>4 DEF JobsOf
        <4> QED  BY <4>1, <4>2, <2>1, <2>2 DEF CronInv
      <3> QED  BY <3>1, <3>2, <2>3
    <2>6. \A j \in Servers : \A g \in CronFleets :
            /\ jobId'[j][g] \in 0..lastId'[j]
            /\ \A h \in CronFleets : jobId'[j][g] = jobId'[j][h] /\ jobId'[j][g] # NoId => g = h
      <3> TAKE j \in Servers
      <3> TAKE g \in CronFleets
      <3>1. \A h \in CronFleets :
              /\ jobId[j][h] \in 0..lastId[j] /\ lastId[j] \in Nat
              /\ jobId'[j][h] = jobId[j][h] \/ (jobId'[j][h] = lastId[i] + 1 /\ j = i /\ h = f)
        BY <2>1 DEF CronInv
      <3>2. lastId'[j] = lastId[j] \/ (j = i /\ lastId'[j] = lastId[j] + 1)
        BY <2>2
      <3>3. jobId'[j][g] \in 0..lastId'[j]
        <4>1. CASE j = i /\ g = f
          BY <4>1, <2>1, <2>2 DEF CronInv
        <4>2. CASE ~ (j = i /\ g = f)
          BY <4>2, <3>1, <3>2
        <4> QED  BY <4>1, <4>2
      <3>4. ASSUME NEW h \in CronFleets, jobId'[j][g] = jobId'[j][h], jobId'[j][g] # NoId
            PROVE  g = h
        <4>1. CASE jobId'[j][g] = jobId[j][g] /\ jobId'[j][h] = jobId[j][h]
          <5>1. jobId[j][g] = jobId[j][h] /\ jobId[j][g] # NoId
            BY <4>1, <3>4
          <5> QED  BY <5>1 DEF CronInv
        <4>2. CASE jobId'[j][g] = lastId[i] + 1 /\ j = i
          BY <4>2, <3>1, <3>4
        <4> QED  BY <4>1, <4>2, <3>1, <3>4
      <3> QED  BY <3>3, <3>4
    <2>7. CronInv'
      BY <2>1, <2>2, <2>b, <2>5, <2>6 DEF CronInv
    <2>8. OthersStay(i, f)
      BY <2>1, <2>3, <2>c DEF OthersStay, JobsOf
    <2>9. JobsOf(i, f)' = {new}
      BY <2>3, <2>4, <2>c DEF JobsOf
    <2> QED  BY <1>1, <2>7, <2>8, <2>9, <2>c
  <1>2. CASE ~ (policy \in CronTakes /\ jobId[i][f] = NoId)
    <2>1. UNCHANGED <<lastId, jobId, cronTab>>
      BY <1>2 DEF CronSchedule
    <2>2. CronInv' /\ OthersStay(i, f) /\ JobsOf(i, f)' = JobsOf(i, f)
      BY <2>1 DEF CronInv, OthersStay, JobsOf
    <2> QED  BY <1>2, <2>2, NoKeyNoJob
  <1> QED  BY <1>1, <1>2


--------------------------------------------------------------------------------
(* Requests and starts. *)

\* Who is busy with f on i, and in what place, is the same as before.
LEMMA BusyStays ==
    ASSUME NEW i \in Servers, NEW f \in CronFleets, NEW a \in Admins,
           admin \in [Admins -> RequestTypes],
           \A b \in Admins : b # a => admin'[b] = admin[b],
           admin[a] # NoRequest => ~ (admin[a].server = i /\ admin[a].fleet = f),
           admin'[a] # NoRequest => ~ (admin'[a].server = i /\ admin'[a].fleet = f)
    PROVE  Busy(i, f)' = Busy(i, f) /\ \A b \in Busy(i, f) : admin'[b] = admin[b]
  BY DEF Busy

\* What a pair keeps when its key, its jobs, its row, its requests and its start stay.
LEMMA PairStays ==
    ASSUME NEW i \in Servers, NEW f \in CronFleets, PairInv(i, f),
           Busy(i, f)' = Busy(i, f), \A a \in Busy(i, f) : admin'[a] = admin[a],
           jobId'[i][f] = jobId[i][f], JobsOf(i, f)' = JobsOf(i, f),
           fleetRow'[f] = fleetRow[f], boot'[i] = boot[i],
           <<i, f>> \in disturbed => <<i, f>> \in disturbed'
    PROVE  PairInv(i, f)'
  BY DEF PairInv, RequestInv, StartInv, Follows, Wanted

\* A request that ends, or that goes on to its next place.
LEMMA RequestTyped ==
    ASSUME ScheduleRows, NEW a \in Admins, admin[a] # NoRequest
    PROVE  /\ admin[a].at \in {"drop", "cancel", "read", "register"}
           /\ admin[a].server \in Servers /\ admin[a].fleet \in CronFleets
           /\ admin[a].policy \in Policies \cup {NoRow}
           /\ a \in Busy(admin[a].server, admin[a].fleet)
  BY DEF ScheduleRows, RequestTypes, Busy

LEMMA RequestNamed ==
    ASSUME ScheduleRows, NEW a \in Admins, admin[a].at \in {"drop", "cancel", "read", "register"}
    PROVE  admin[a] # NoRequest
  BY DEF ScheduleRows, NoRequest

LEMMA ScheduleInvInit == ScheduleInit => ScheduleInv
  <1> SUFFICES ASSUME ScheduleInit PROVE ScheduleInv
    OBVIOUS
  <1>1. ScheduleRows
    BY DEF ScheduleInit, ScheduleRows, RequestTypes, BootTypes
  <1>2. CronInv
    BY DEF ScheduleInit, CronInv, NoId
  <1>3. BootInv
    BY DEF ScheduleInit, BootInv, Serving
  <1>4. ASSUME NEW i \in Servers, NEW f \in CronFleets
        PROVE  PairInv(i, f)
    <2>1. Busy(i, f) = {} /\ JobsOf(i, f) = {} /\ Wanted(f) = {} /\ boot[i] = Serving
      BY <1>4 DEF ScheduleInit, Busy, JobsOf, Wanted, NoRow, CronTakes
    <2> QED  BY <2>1 DEF PairInv, RequestInv, StartInv, Follows, Serving
  <1> QED  BY <1>1, <1>2, <1>3, <1>4 DEF ScheduleInv

\* A commit through i: the pair of i is in a race or has one request, the pairs of the
\* other instances are disturbed.
LEMMA CommitKeeps ==
    ASSUME ScheduleInv, NEW a \in Admins, NEW i \in Servers, NEW f \in CronFleets,
           NEW row \in Policies \cup {NoRow}, NEW next \in {"drop", "cancel"},
           next = "drop" => row = NoRow,
           CommitRow(a, i, f, row, next)
    PROVE  ScheduleInv'
  <1> DEFINE new == [at |-> next, server |-> i, fleet |-> f, policy |-> NoRow]
  <1>1. /\ boot[i] = Serving /\ admin[a] = NoRequest
        /\ fleetRow' = [fleetRow EXCEPT ![f] = row]
        /\ admin' = [admin EXCEPT ![a] = new]
        /\ UNCHANGED <<jobId, cronTab, lastId, boot, scanned>>
    BY DEF CommitRow
  <1>2. new \in RequestTypes /\ new # NoRequest /\ new.at = next /\ new.server = i /\ new.fleet = f
    BY DEF RequestTypes, NoRequest
  <1> HIDE DEF new
  <1>3. disturbed' = disturbed \cup ((Servers \ {i}) \X {f})
                           \cup (IF Busy(i, f) = {} THEN {} ELSE {<<i, f>>})
    BY DEF CommitRow, Disturb
  <1>4. ScheduleRows'
    BY <1>1, <1>2, <1>3 DEF ScheduleInv, ScheduleRows
  <1>5. CronInv'
    BY <1>1 DEF ScheduleInv, CronInv
  <1>6. admin'[a] = new /\ \A b \in Admins : b # a => admin'[b] = admin[b]
    BY <1>1 DEF ScheduleInv, ScheduleRows
  <1>7. ASSUME NEW j \in Servers, NEW g \in CronFleets, <<j, g>> # <<i, f>>
        PROVE  Busy(j, g)' = Busy(j, g) /\ \A b \in Busy(j, g) : admin'[b] = admin[b]
    BY <1>1, <1>2, <1>6, <1>7, BusyStays DEF ScheduleInv, ScheduleRows
  <1>8. Busy(i, f)' = Busy(i, f) \cup {a}
    BY <1>1, <1>2, <1>6 DEF Busy
  <1>9. BootInv'
    BY <1>1, <1>7 DEF ScheduleInv, BootInv
  <1>10. ASSUME NEW j \in Servers, NEW g \in CronFleets
         PROVE  PairInv(j, g)'
    <2>1. PairInv(j, g)
      BY DEF ScheduleInv
    <2>2. CASE <<j, g>> = <<i, f>>
      <3>1. ASSUME <<i, f>> \notin disturbed'
            PROVE  Busy(i, f)' = {a} /\ fleetRow'[f] = row
        BY <3>1, <1>1, <1>3, <1>8 DEF ScheduleInv, ScheduleRows
      <3> QED  BY <2>2, <3>1, <1>1, <1>2, <1>6 DEF PairInv, RequestInv, StartInv, Serving
    <2>3. CASE g = f /\ j # i
      BY <2>3, <1>3 DEF PairInv
    <2>4. CASE g # f
      <3>1. JobsOf(j, g)' = JobsOf(j, g)
        BY <1>1 DEF JobsOf
      <3>2. fleetRow'[g] = fleetRow[g]
        BY <2>4, <1>1 DEF ScheduleInv, ScheduleRows
      <3> QED  BY <2>4, <2>1, <3>1, <3>2, <1>1, <1>3, <1>7, PairStays
    <2> QED  BY <2>2, <2>3, <2>4
  <1> QED  BY <1>4, <1>5, <1>9, <1>10 DEF ScheduleInv


\* The pair that a request is about.
PairOf(r) == <<r.server, r.fleet>>

\* A request about f on i that ends leaves its pair to the others.
LEMMA RequestEnds ==
    ASSUME ScheduleRows, NEW a \in Admins, NEW i \in Servers, NEW f \in CronFleets,
           admin' = [admin EXCEPT ![a] = NoRequest]
    PROVE  Busy(i, f)' = Busy(i, f) \ {a}
  BY DEF ScheduleRows, Busy

\* One that goes on is still busy with f on i.
LEMMA RequestGoesOn ==
    ASSUME ScheduleRows, NEW a \in Admins, NEW i \in Servers, NEW f \in CronFleets,
           admin[a] # NoRequest, PairOf(admin[a]) = <<i, f>>, NEW req \in RequestTypes,
           req # NoRequest, PairOf(req) = <<i, f>>,
           admin' = [admin EXCEPT ![a] = req]
    PROVE  Busy(i, f)' = Busy(i, f)
  BY DEF ScheduleRows, Busy, PairOf

\* The requests about another pair stay where they are.
LEMMA OthersAsBusy ==
    ASSUME ScheduleRows, NEW a \in Admins, NEW i \in Servers, NEW f \in CronFleets,
           admin[a] # NoRequest, PairOf(admin[a]) = <<i, f>>, NEW req \in RequestTypes,
           req # NoRequest => PairOf(req) = <<i, f>>,
           admin' = [admin EXCEPT ![a] = req]
    PROVE  \A j \in Servers : \A g \in CronFleets : <<j, g>> # <<i, f>> =>
               Busy(j, g)' = Busy(j, g) /\ \A b \in Busy(j, g) : admin'[b] = admin[b]
  <1> SUFFICES ASSUME NEW j \in Servers, NEW g \in CronFleets, <<j, g>> # <<i, f>>
               PROVE  Busy(j, g)' = Busy(j, g) /\ \A b \in Busy(j, g) : admin'[b] = admin[b]
    OBVIOUS
  <1>1. admin'[a] = req /\ (\A b \in Admins : b # a => admin'[b] = admin[b])
    BY DEF ScheduleRows
  <1>2. ~ (admin[a].server = j /\ admin[a].fleet = g)
    BY DEF PairOf
  <1>3. admin'[a] # NoRequest => ~ (admin'[a].server = j /\ admin'[a].fleet = g)
    BY <1>1 DEF PairOf
  <1> QED  BY <1>1, <1>2, <1>3, BusyStays DEF ScheduleRows

\* The steps of a request: cron's tables keep their shape, the jobs of other pairs stay,
\* and its own pair is as the step has left it.
LEMMA RequestStepKeeps ==
    ASSUME ScheduleInv, NEW a \in Admins, admin[a] # NoRequest, NEW i \in Servers,
           NEW f \in CronFleets,
           PairOf(admin[a]) = <<i, f>>, NEW req \in RequestTypes,
           req # NoRequest => PairOf(req) = <<i, f>>,
           admin' = [admin EXCEPT ![a] = req],
           CronInv', OthersStay(i, f),
           UNCHANGED <<fleetRow, boot, scanned>>,
           disturbed' = disturbed \/ disturbed' = disturbed \cup {<<i, f>>},
           PairInv(i, f)'
    PROVE  ScheduleInv'
  <1>1. i \in Servers /\ f \in CronFleets /\ a \in Busy(i, f)
    BY RequestTyped DEF ScheduleInv, PairOf
  <1>2. admin' \in [Admins -> RequestTypes]
    BY DEF ScheduleInv, ScheduleRows
  <1>3. \A j \in Servers : \A g \in CronFleets : <<j, g>> # <<i, f>> =>
          Busy(j, g)' = Busy(j, g) /\ \A b \in Busy(j, g) : admin'[b] = admin[b]
    <2>1. ScheduleRows
      BY DEF ScheduleInv
    <2> QED  BY <2>1, OthersAsBusy
  <1>4. ScheduleRows'
    BY <1>1, <1>2 DEF ScheduleInv, ScheduleRows
  <1>5. BootInv'
    <2>1. boot[i] = Serving
      BY <1>1 DEF ScheduleInv, BootInv
    <2>2. ASSUME NEW j \in Servers, NEW g \in CronFleets
          PROVE  /\ boot'[j] # Serving => Busy(j, g)' = {}
                 /\ boot'[j].at = "list" => jobId'[j][g] = NoId
      <3>1. CASE <<j, g>> = <<i, f>>
        BY <2>1, <3>1 DEF Serving
      <3>2. CASE <<j, g>> # <<i, f>>
        BY <3>2, <1>3 DEF ScheduleInv, BootInv, OthersStay
      <3> QED  BY <3>1, <3>2
    <2> QED  BY <2>2 DEF BootInv
  <1>6. ASSUME NEW j \in Servers, NEW g \in CronFleets
        PROVE  PairInv(j, g)'
    <2>1. CASE <<j, g>> = <<i, f>>
      BY <2>1
    <2>2. CASE <<j, g>> # <<i, f>>
      <3>1. PairInv(j, g) /\ fleetRow'[g] = fleetRow[g] /\ boot'[j] = boot[j]
        BY DEF ScheduleInv
      <3>2. jobId'[j][g] = jobId[j][g] /\ JobsOf(j, g)' = JobsOf(j, g)
        BY <2>2 DEF OthersStay
      <3> QED  BY <3>1, <3>2, <2>2, <1>3, PairStays
    <2> QED  BY <2>1, <2>2
  <1> QED  BY <1>4, <1>5, <1>6 DEF ScheduleInv

\* A request that has its instance is served.
LEMMA ServesRequests ==
    ASSUME ScheduleInv, NEW a \in Admins, admin[a] # NoRequest
    PROVE  /\ boot[admin[a].server] = Serving
           /\ PairInv(admin[a].server, admin[a].fleet)
  BY RequestTyped DEF ScheduleInv, BootInv

LEMMA RequestsKeep ==
    ASSUME ScheduleInv, NEW a \in Admins, Reconcile(a)
    PROVE  ScheduleInv'
  <1>1. admin[a].at \in {"drop", "cancel", "read", "register"}
    BY DEF Reconcile, DropJob, ReconcileCancel, ReconcileRead, ReconcileReadFails, ReconcileRegister
  <1>2. admin[a] # NoRequest
    BY <1>1, RequestNamed DEF ScheduleInv
  <1>0. PICK i \in Servers, f \in CronFleets :
           admin[a].server = i /\ admin[a].fleet = f /\ PairOf(admin[a]) = <<i, f>>
    BY <1>2, RequestTyped DEF ScheduleInv, PairOf
  <1> DEFINE r == admin[a]
  <1>3. /\ i \in Servers /\ f \in CronFleets /\ a \in Busy(i, f)
        /\ r.policy \in Policies \cup {NoRow}
    BY <1>0, <1>2, RequestTyped DEF ScheduleInv
  <1>4. boot[i] = Serving /\ PairInv(i, f) /\ CronInv
    BY <1>0, <1>2, ServesRequests DEF ScheduleInv
  <1>5. NoRequest \in RequestTypes
    BY DEF RequestTypes
  <1>6. admin' = [admin EXCEPT ![a] = NoRequest] => Busy(i, f)' = Busy(i, f) \ {a}
    BY RequestEnds DEF ScheduleInv
  <1>7. ASSUME NEW req \in RequestTypes, req # NoRequest, PairOf(req) = <<i, f>>,
               admin' = [admin EXCEPT ![a] = req]
        PROVE  Busy(i, f)' = Busy(i, f) /\ admin'[a] = req
    <2>1. ScheduleRows
      BY DEF ScheduleInv
    <2>2. Busy(i, f)' = Busy(i, f)
      BY <2>1, <1>0, <1>2, <1>7, RequestGoesOn
    <2> QED  BY <2>1, <2>2, <1>7 DEF ScheduleRows
  <1>8. CASE DropJob(a)
    <2>1. CronInv' /\ OthersStay(i, f) /\ jobId'[i][f] = NoId /\ JobsOf(i, f)' = {}
      BY <1>8, <1>3, <1>4, <1>0, CancelKeeps DEF DropJob
    <2>2. PairInv(i, f)'
      BY <1>0, <2>1, <1>3, <1>4, <1>6, <1>8
         DEF DropJob, PairInv, RequestInv, StartInv, Follows, Wanted, Serving, NoRow, CronTakes
    <2> QED  BY <1>0, <2>1, <2>2, <1>2, <1>5, <1>8, <1>0, RequestStepKeeps DEF DropJob
  <1>9. CASE ReconcileCancel(a)
    <2> DEFINE next == [r EXCEPT !.at = "read"]
    <2>1. next \in RequestTypes /\ next # NoRequest /\ PairOf(next) = <<i, f>> /\ next.at = "read"
      <3>1. r \in [at : {"drop", "cancel", "read", "register"}, server : Servers, fleet : CronFleets,
                   policy : Policies \cup {NoRow}]
        BY <1>2 DEF ScheduleInv, ScheduleRows, RequestTypes
      <3>2. r.server = i /\ r.fleet = f
        BY <1>0
      <3> HIDE DEF r
      <3> QED  BY <3>1, <3>2 DEF RequestTypes, NoRequest, PairOf
    <2>2. admin' = [admin EXCEPT ![a] = next]
      BY <1>9 DEF ReconcileCancel
    <2> HIDE DEF next
    <2>3. CronInv' /\ OthersStay(i, f) /\ jobId'[i][f] = NoId /\ JobsOf(i, f)' = {}
      BY <1>9, <1>3, <1>4, <1>0, CancelKeeps DEF ReconcileCancel
    <2>4. PairInv(i, f)'
      <3>1. Busy(i, f)' = Busy(i, f) /\ admin'[a] = next
        BY <2>1, <2>2, <1>7
      <3>2. <<i, f>> \notin disturbed => Busy(i, f) = {a}
        BY <1>3, <1>4 DEF PairInv, RequestInv
      <3>3. UNCHANGED <<fleetRow, boot, disturbed>>
        BY <1>9 DEF ReconcileCancel
      <3>4. admin'[a].at = "read"
        BY <3>1, <2>1
      <3> QED  BY <3>1, <3>2, <3>3, <3>4, <2>3, <1>3, <1>4 DEF PairInv, RequestInv, StartInv, Serving
    <2> QED  BY <1>0, <2>1, <2>2, <2>3, <2>4, <1>2, <1>9, <1>0, RequestStepKeeps DEF ReconcileCancel
  <1>10. CASE ReconcileRead(a)
    <2>0. CronInv' /\ OthersStay(i, f) /\ jobId'[i][f] = jobId[i][f] /\ JobsOf(i, f)' = JobsOf(i, f)
      BY <1>0, <1>10, <1>4 DEF ReconcileRead, CronInv, OthersStay, JobsOf
    <2>1. CASE fleetRow[f] = NoRow
      <3>1. admin' = [admin EXCEPT ![a] = NoRequest]
        BY <1>0, <2>1, <1>10 DEF ReconcileRead
      <3>2. <<i, f>> \notin disturbed => Follows(i, f)
        BY <1>3, <1>4, <1>10, <2>1, NoKeyNoJob
           DEF ReconcileRead, PairInv, RequestInv, Follows, Wanted, NoRow, CronTakes
      <3>3. PairInv(i, f)'
        BY <1>0, <2>0, <3>1, <3>2, <1>3, <1>4, <1>6, <1>10
           DEF ReconcileRead, PairInv, RequestInv, StartInv, Follows, Wanted, Serving
      <3> QED  BY <1>0, <2>0, <3>1, <3>3, <1>2, <1>5, <1>10, <1>0, RequestStepKeeps DEF ReconcileRead
    <2>2. CASE fleetRow[f] # NoRow
      <3> DEFINE next == [r EXCEPT !.at = "register", !.policy = fleetRow[f]]
      <3>1. /\ next \in RequestTypes /\ next # NoRequest /\ PairOf(next) = <<i, f>>
            /\ next.at = "register" /\ next.policy = fleetRow[f]
        <4>1. r \in [at : {"drop", "cancel", "read", "register"}, server : Servers, fleet : CronFleets,
                     policy : Policies \cup {NoRow}]
          BY <1>2 DEF ScheduleInv, ScheduleRows, RequestTypes
        <4>2. fleetRow[f] \in Policies \cup {NoRow}
          BY <1>3 DEF ScheduleInv, ScheduleRows
        <4>3. r.server = i /\ r.fleet = f
          BY <1>0
        <4> HIDE DEF r
        <4> QED  BY <4>1, <4>2, <4>3 DEF RequestTypes, NoRequest, PairOf
      <3>2. admin' = [admin EXCEPT ![a] = next]
        BY <1>0, <2>2, <1>10 DEF ReconcileRead
      <3> HIDE DEF next
      <3>3. PairInv(i, f)'
        <4>1. Busy(i, f)' = Busy(i, f) /\ admin'[a] = next
          BY <3>1, <3>2, <1>7
        <4>2. <<i, f>> \notin disturbed => Busy(i, f) = {a} /\ jobId[i][f] = NoId
          BY <1>3, <1>4, <1>10 DEF ReconcileRead, PairInv, RequestInv
        <4>3. UNCHANGED <<fleetRow, boot, disturbed>>
          BY <1>10 DEF ReconcileRead
        <4>4. admin'[a].at = "register" /\ admin'[a].policy = fleetRow[f]
          BY <4>1, <3>1
        <4> QED  BY <4>1, <4>2, <4>3, <4>4, <2>0, <1>3, <1>4 DEF PairInv, RequestInv, StartInv, Serving
      <3> QED  BY <1>0, <2>0, <3>1, <3>2, <3>3, <1>2, <1>10, <1>0, RequestStepKeeps DEF ReconcileRead
    <2> QED  BY <1>0, <2>1, <2>2
  <1>11. CASE ReconcileReadFails(a)
    <2>1. CronInv' /\ OthersStay(i, f)
      BY <1>0, <1>11, <1>4 DEF ReconcileReadFails, CronInv, OthersStay, JobsOf
    <2>2. PairInv(i, f)'
      BY <1>0, <1>11 DEF ReconcileReadFails, PairInv
    <2> QED  BY <1>0, <2>1, <2>2, <1>2, <1>5, <1>11, <1>0, RequestStepKeeps DEF ReconcileReadFails
  <1>12. CASE ReconcileRegister(a)
    <2>1. /\ CronInv' /\ OthersStay(i, f)
          /\ jobId[i][f] = NoId =>
               {e[3] : e \in JobsOf(i, f)'} = IF r.policy \in CronTakes THEN {r.policy} ELSE {}
      BY <1>0, <1>3, <1>4, <1>12, RegisterKeeps DEF ReconcileRegister
    <2>2. <<i, f>> \notin disturbed => Follows(i, f)'
      BY <1>0, <2>1, <1>3, <1>4, <1>12 DEF ReconcileRegister, PairInv, RequestInv, Follows, Wanted
    <2>3. PairInv(i, f)'
      BY <1>0, <2>2, <1>3, <1>4, <1>6, <1>12 DEF ReconcileRegister, PairInv, RequestInv, StartInv, Serving
    <2> QED  BY <1>0, <2>1, <2>3, <1>2, <1>5, <1>12, RequestStepKeeps DEF ReconcileRegister
  <1> QED  BY <1>8, <1>9, <1>10, <1>11, <1>12 DEF Reconcile


\* What keeps the rest of the invariant when only the job of f on i and the place of i in
\* its start may change.
LEMMA StartStepKeeps ==
    ASSUME ScheduleInv, NEW i \in Servers, boot[i] # Serving,
           boot' \in [Servers -> BootTypes], \A j \in Servers : j # i => boot'[j] = boot[j],
           boot'[i].at # "list",
           CronInv', \A j \in Servers : j # i => cronTab'[j] = cronTab[j] /\ jobId'[j] = jobId[j],
           UNCHANGED <<fleetRow, admin, scanned>>,
           disturbed' \subseteq Servers \X CronFleets,
           \A j \in Servers : \A g \in CronFleets :
               j # i /\ <<j, g>> \in disturbed => <<j, g>> \in disturbed',
           \A f \in CronFleets : PairInv(i, f)'
    PROVE  ScheduleInv'
  <1>1. ScheduleRows'
    BY DEF ScheduleInv, ScheduleRows
  <1>2. \A j \in Servers : \A g \in CronFleets : Busy(j, g)' = Busy(j, g)
    BY DEF Busy
  <1>3. BootInv'
    BY <1>2 DEF ScheduleInv, BootInv
  <1>4. ASSUME NEW j \in Servers, NEW g \in CronFleets, j # i
        PROVE  PairInv(j, g)'
    <2>1. PairInv(j, g) /\ Busy(j, g)' = Busy(j, g) /\ (\A a \in Busy(j, g) : admin'[a] = admin[a])
      BY <1>2 DEF ScheduleInv
    <2>2. jobId'[j][g] = jobId[j][g] /\ JobsOf(j, g)' = JobsOf(j, g)
      BY <1>4 DEF JobsOf
    <2> QED  BY <1>4, <2>1, <2>2, PairStays
  <1> QED  BY <1>1, <1>3, <1>4 DEF ScheduleInv

LEMMA RestartKeeps ==
    ASSUME ScheduleInv, NEW i \in Servers, Restart(i)
    PROVE  ScheduleInv'
  <1> DEFINE listing == [at |-> "list"]
  <1>1. /\ \A a \in Admins : admin'[a] = IF admin[a] # NoRequest /\ admin[a].server = i THEN NoRequest
                                         ELSE admin[a]
        /\ admin' \in [Admins -> RequestTypes]
    BY DEF Restart, ScheduleInv, ScheduleRows, RequestTypes
  <1>2. boot'[i] = listing /\ (\A j \in Servers : j # i => boot'[j] = boot[j])
        /\ boot' \in [Servers -> BootTypes]
    BY DEF Restart, ScheduleInv, ScheduleRows, BootTypes
  <1>a. listing.at = "list" /\ listing # Serving
    BY DEF Serving
  <1> HIDE DEF listing
  <1>3. UNCHANGED <<fleetRow, scanned, disturbed>>
    BY DEF Restart
  <1>4. /\ \A f \in CronFleets : jobId'[i][f] = NoId
        /\ cronTab'[i] = {} /\ lastId'[i] = 0
        /\ \A j \in Servers : j # i =>
             jobId'[j] = jobId[j] /\ cronTab'[j] = cronTab[j] /\ lastId'[j] = lastId[j]
        /\ jobId' \in [Servers -> [CronFleets -> Nat]] /\ lastId' \in [Servers -> Nat]
        /\ cronTab' \in [Servers -> SUBSET (Nat \X CronFleets \X CronTakes)]
    BY DEF Restart, ScheduleInv, CronInv, NoId
  <1>5. ScheduleRows'
    BY <1>1, <1>2, <1>3 DEF ScheduleInv, ScheduleRows
  <1>6. CronInv'
    <2>1. ASSUME NEW j \in Servers, NEW f \in CronFleets
          PROVE  /\ jobId'[j][f] \in 0..lastId'[j]
                 /\ \A g \in CronFleets : jobId'[j][f] = jobId'[j][g] /\ jobId'[j][f] # NoId => f = g
      <3>1. CASE j = i
        BY <3>1, <1>4 DEF NoId
      <3>2. CASE j # i
        BY <3>2, <1>4 DEF ScheduleInv, CronInv
      <3> QED  BY <3>1, <3>2
    <2>2. ASSUME NEW j \in Servers, NEW e \in cronTab'[j]
          PROVE  e[1] \in 1..lastId'[j] /\ jobId'[j][e[2]] = e[1]
      <3>1. j # i
        BY <1>4, <2>2
      <3> QED  BY <3>1, <1>4, <2>2 DEF ScheduleInv, CronInv
    <2> QED  BY <1>4, <2>1, <2>2 DEF CronInv
  <1>7. \A f \in CronFleets : Busy(i, f)' = {}
    BY <1>1 DEF Busy
  <1>8. ASSUME NEW j \in Servers, NEW g \in CronFleets, j # i
        PROVE  Busy(j, g)' = Busy(j, g) /\ \A a \in Busy(j, g) : admin'[a] = admin[a]
    BY <1>1, <1>8 DEF Busy
  <1>9. BootInv'
    <2>1. ASSUME NEW j \in Servers, NEW g \in CronFleets
          PROVE  /\ boot'[j] # Serving => Busy(j, g)' = {}
                 /\ boot'[j].at = "list" => jobId'[j][g] = NoId
      <3>1. CASE j = i
        BY <3>1, <1>7, <1>4
      <3>2. CASE j # i
        BY <3>2, <1>2, <1>4, <1>8 DEF ScheduleInv, BootInv
      <3> QED  BY <3>1, <3>2
    <2> QED  BY <2>1 DEF BootInv
  <1>10. ASSUME NEW j \in Servers, NEW g \in CronFleets
         PROVE  PairInv(j, g)'
    <2>1. CASE j = i
      BY <2>1, <1>2, <1>a, <1>7 DEF PairInv, RequestInv, StartInv
    <2>2. CASE j # i
      <3>1. JobsOf(j, g)' = JobsOf(j, g) /\ jobId'[j][g] = jobId[j][g] /\ PairInv(j, g)
        BY <2>2, <1>4 DEF JobsOf, ScheduleInv
      <3> QED  BY <2>2, <3>1, <1>2, <1>3, <1>8, PairStays
    <2> QED  BY <2>1, <2>2
  <1> QED  BY <1>5, <1>6, <1>9, <1>10 DEF ScheduleInv

LEMMA StartsKeep ==
    ASSUME ScheduleInv, NEW i \in Servers, RegisterAllList(i) \/ RegisterAllSkips(i) \/ RegisterAll(i)
    PROVE  ScheduleInv'
  <1>1. boot[i] # Serving
    BY DEF RegisterAllList, RegisterAllSkips, RegisterAll, Serving
  <1>2. \A f \in CronFleets : Busy(i, f) = {} /\ Busy(i, f)' = {}
    BY <1>1 DEF ScheduleInv, BootInv, RegisterAllList, RegisterAllSkips, RegisterAll, Busy
  <1>3. CASE RegisterAllList(i)
    <2> DEFINE served == {<<f, fleetRow[f]>> : f \in {g \in CronFleets : fleetRow[g] # NoRow}}
               listed == [at |-> "register", rows |-> served]
    <2>1. served \in SUBSET (CronFleets \X Policies)
      BY DEF ScheduleInv, ScheduleRows
    <2>2. /\ \A row \in served : row[2] = fleetRow[row[1]]
          /\ \A f \in CronFleets : (\A row \in served : row[1] # f) => fleetRow[f] = NoRow
      <3>1. ASSUME NEW f \in CronFleets, fleetRow[f] # NoRow
            PROVE  \E row \in served : row[1] = f
        <4>1. <<f, fleetRow[f]>> \in served
          BY <3>1
        <4> QED  BY <4>1
      <3> QED  BY <3>1
    <2>3. boot' = [boot EXCEPT ![i] = listed]
      BY <1>3 DEF RegisterAllList
    <2> HIDE DEF served
    <2>4. listed \in BootTypes /\ listed.at = "register" /\ listed.rows = served /\ listed # Serving
      BY <2>1 DEF BootTypes, Serving
    <2> HIDE DEF listed
    <2>5. /\ boot' \in [Servers -> BootTypes] /\ boot'[i] = listed
          /\ \A j \in Servers : j # i => boot'[j] = boot[j]
      BY <2>3, <2>4 DEF ScheduleInv, ScheduleRows
    <2>6. UNCHANGED <<fleetRow, jobId, cronTab, lastId, admin, scanned>>
          /\ disturbed' = {d \in disturbed : d[1] # i}
      BY <1>3 DEF RegisterAllList
    <2>7. CronInv'
      BY <2>6 DEF ScheduleInv, CronInv
    <2>8. ASSUME NEW f \in CronFleets
          PROVE  PairInv(i, f)'
      <3>1. jobId'[i][f] = NoId /\ JobsOf(i, f)' = {}
        BY <1>3, <2>6, NoKeyNoJob DEF ScheduleInv, BootInv, RegisterAllList, JobsOf
      <3>2. (\A row \in served : row[1] # f) => Follows(i, f)'
        BY <2>2, <2>6, <3>1 DEF Follows, Wanted, NoRow, CronTakes
      <3>3. StartInv(i, f)'
        BY <2>2, <2>4, <2>5, <2>6, <3>1, <3>2 DEF StartInv
      <3> QED  BY <3>3, <1>2, <2>4, <2>5 DEF PairInv, RequestInv
    <2>9. disturbed' \subseteq Servers \X CronFleets
          /\ \A j \in Servers : \A g \in CronFleets :
               j # i /\ <<j, g>> \in disturbed => <<j, g>> \in disturbed'
      BY <2>6 DEF ScheduleInv, ScheduleRows
    <2>10. boot'[i].at # "list"
      BY <2>4, <2>5
    <2> QED  BY <1>1, <2>5, <2>6, <2>7, <2>8, <2>9, <2>10, StartStepKeeps
  <1>4. CASE RegisterAllSkips(i)
    <2>1. /\ boot' \in [Servers -> BootTypes] /\ boot'[i] = Serving
          /\ \A j \in Servers : j # i => boot'[j] = boot[j]
      BY <1>4 DEF RegisterAllSkips, ScheduleInv, ScheduleRows, BootTypes
    <2>2. UNCHANGED <<fleetRow, jobId, cronTab, lastId, admin, scanned>>
          /\ disturbed' = disturbed \cup ({i} \X CronFleets)
      BY <1>4 DEF RegisterAllSkips
    <2>3. CronInv'
      BY <2>2 DEF ScheduleInv, CronInv
    <2>4. \A f \in CronFleets : PairInv(i, f)'
      BY <2>2 DEF PairInv
    <2>5. disturbed' \subseteq Servers \X CronFleets /\ boot'[i].at # "list"
      BY <2>1, <2>2 DEF ScheduleInv, ScheduleRows, Serving
    <2> QED  BY <1>1, <2>1, <2>2, <2>3, <2>4, <2>5, StartStepKeeps
  <1>5. CASE RegisterAll(i) /\ boot[i].rows = {}
    <2>1. /\ boot' \in [Servers -> BootTypes] /\ boot'[i] = Serving
          /\ \A j \in Servers : j # i => boot'[j] = boot[j]
      BY <1>5 DEF RegisterAll, ScheduleInv, ScheduleRows, BootTypes
    <2>2. UNCHANGED <<fleetRow, jobId, cronTab, lastId, admin, scanned, disturbed>>
      BY <1>5 DEF RegisterAll
    <2>3. CronInv'
      BY <2>2 DEF ScheduleInv, CronInv
    <2>4. ASSUME NEW f \in CronFleets
          PROVE  PairInv(i, f)'
      <3>1. <<i, f>> \notin disturbed => Follows(i, f)
        BY <1>5 DEF RegisterAll, ScheduleInv, PairInv, StartInv
      <3>2. Follows(i, f) => Follows(i, f)'
        BY <2>2 DEF Follows, JobsOf, Wanted
      <3> QED  BY <3>1, <3>2, <1>2, <2>1, <2>2 DEF PairInv, RequestInv, StartInv, Serving
    <2>5. disturbed' \subseteq Servers \X CronFleets /\ boot'[i].at # "list"
      BY <2>1, <2>2 DEF ScheduleInv, ScheduleRows, Serving
    <2> QED  BY <1>1, <2>1, <2>2, <2>3, <2>4, <2>5, StartStepKeeps
  <1>6. CASE RegisterAll(i) /\ boot[i].rows # {}
    <2>1. PICK row \in boot[i].rows :
            /\ CronSchedule(i, row[1], row[2])
            /\ boot' = [boot EXCEPT ![i].rows = @ \ {row}]
      BY <1>6 DEF RegisterAll
    <2> DEFINE place == boot[i]
               left == [place EXCEPT !.rows = @ \ {row}]
    <2>2. place \in [at : {"register"}, rows : SUBSET (CronFleets \X Policies)]
      BY <1>6 DEF RegisterAll, ScheduleInv, ScheduleRows, BootTypes, Serving
    <2>3. boot' = [boot EXCEPT ![i] = left]
      BY <2>1
    <2>4. row \in place.rows
      BY <2>1
    <2> HIDE DEF place
    <2>5. left \in BootTypes /\ left.at = "register" /\ left.rows = place.rows \ {row} /\ left # Serving
      BY <2>2 DEF BootTypes, Serving
    <2>6. row \in CronFleets \X Policies /\ place.rows \subseteq CronFleets \X Policies
          /\ place.at = "register"
      BY <2>2, <2>4
    <2> HIDE DEF left
    <2>7. /\ boot' \in [Servers -> BootTypes] /\ boot'[i] = left
          /\ \A j \in Servers : j # i => boot'[j] = boot[j]
      BY <2>3, <2>5 DEF ScheduleInv, ScheduleRows
    <2>8. UNCHANGED <<fleetRow, admin, scanned, disturbed>>
      BY <1>6 DEF RegisterAll
    <2>9. PICK f \in CronFleets, policy \in Policies : row = <<f, policy>>
      BY <2>6
    <2>10. /\ CronInv' /\ OthersStay(i, f)
           /\ jobId[i][f] = NoId =>
                {e[3] : e \in JobsOf(i, f)'} = IF policy \in CronTakes THEN {policy} ELSE {}
      <3>1. CronSchedule(i, f, policy) /\ CronInv
        BY <2>1, <2>9 DEF ScheduleInv
      <3> QED  BY <3>1, RegisterKeeps
    <2>11. \A j \in Servers : j # i => cronTab'[j] = cronTab[j] /\ jobId'[j] = jobId[j]
      BY <2>1 DEF CronSchedule, ScheduleInv, CronInv
    <2>12. ASSUME NEW g \in CronFleets, <<i, g>> \notin disturbed
           PROVE  StartInv(i, g)'
      <3>1. /\ \A x \in place.rows : x[1] = g => x[2] = fleetRow[g] /\ jobId[i][g] = NoId
            /\ (\A x \in place.rows : x[1] # g) => Follows(i, g)
        BY <2>6, <2>12 DEF ScheduleInv, PairInv, StartInv, place
      <3>2. CASE g = f
        <4>1. policy = fleetRow[f] /\ jobId[i][f] = NoId
          BY <3>1, <3>2, <2>4, <2>9
        <4>2. Follows(i, f)'
          BY <4>1, <2>8, <2>10 DEF Follows, Wanted
        <4>3. \A x \in place.rows \ {row} : x[1] # f
          BY <3>1, <3>2, <4>1, <2>6, <2>9
        <4> QED  BY <3>2, <4>2, <4>3, <2>5, <2>7 DEF StartInv
      <3>3. CASE g # f
        <4>1. jobId'[i][g] = jobId[i][g] /\ JobsOf(i, g)' = JobsOf(i, g)
          BY <3>3, <2>10 DEF OthersStay
        <4>2. (\A x \in place.rows \ {row} : x[1] # g) => Follows(i, g)'
          BY <3>1, <3>3, <4>1, <2>8, <2>9 DEF Follows, Wanted
        <4> QED  BY <3>1, <4>1, <4>2, <2>5, <2>7, <2>8 DEF StartInv
      <3> QED  BY <3>2, <3>3
    <2>13. \A g \in CronFleets : PairInv(i, g)'
      BY <2>12, <2>5, <2>7, <2>8, <1>2 DEF PairInv, RequestInv
    <2>14. disturbed' \subseteq Servers \X CronFleets /\ boot'[i].at # "list"
      BY <2>5, <2>7, <2>8 DEF ScheduleInv, ScheduleRows
    <2> QED  BY <1>1, <2>7, <2>8, <2>10, <2>11, <2>13, <2>14, StartStepKeeps
  <1> QED  BY <1>3, <1>4, <1>5, <1>6

--------------------------------------------------------------------------------

LEMMA ScheduleInvStep == ScheduleInv /\ [ScheduleNext]_fleetVars => ScheduleInv'
  <1> SUFFICES ASSUME ScheduleInv, [ScheduleNext]_fleetVars
               PROVE  ScheduleInv'
    OBVIOUS
  <1>1. ASSUME UNCHANGED <<fleetRow, jobId, cronTab, lastId, admin, boot, disturbed>>,
               scanned' \subseteq CronFleets
        PROVE  ScheduleInv'
    <2>1. ScheduleRows' /\ CronInv' /\ BootInv'
      BY <1>1 DEF ScheduleInv, ScheduleRows, CronInv, BootInv, Busy
    <2>2. ASSUME NEW i \in Servers, NEW f \in CronFleets
          PROVE  PairInv(i, f)'
      BY <1>1 DEF ScheduleInv, PairInv, RequestInv, StartInv, Follows, Wanted, JobsOf, Busy
    <2> QED  BY <2>1, <2>2 DEF ScheduleInv
  <1>2. ASSUME NEW a \in Admins, NEW i \in Servers, NEW f \in CronFleets, NEW policy \in Policies,
               CreateFleet(a, i, f, policy) \/ UpdateFleet(a, i, f, policy)
        PROVE  ScheduleInv'
    BY <1>2, CommitKeeps DEF CreateFleet, UpdateFleet
  <1>3. ASSUME NEW a \in Admins, NEW i \in Servers, NEW f \in CronFleets, DeleteFleet(a, i, f)
        PROVE  ScheduleInv'
    BY <1>3, CommitKeeps DEF DeleteFleet
  <1>4. ASSUME NEW a \in Admins, Reconcile(a)
        PROVE  ScheduleInv'
    BY <1>4, RequestsKeep
  <1>5. ASSUME NEW i \in Servers,
               Restart(i) \/ RegisterAllList(i) \/ RegisterAllSkips(i) \/ RegisterAll(i)
        PROVE  ScheduleInv'
    BY <1>5, RestartKeeps, StartsKeep
  <1>6. ASSUME NEW i \in Servers, Tick(i)
        PROVE  ScheduleInv'
    <2>1. scanned' \subseteq CronFleets
      BY <1>6 DEF Tick, ScheduleInv, ScheduleRows, CronInv
    <2> QED  BY <1>1, <1>6, <2>1 DEF Tick
  <1>7. ASSUME NEW f \in CronFleets, EndScan(f)
        PROVE  ScheduleInv'
    <2>1. scanned' \subseteq CronFleets
      BY <1>7 DEF EndScan, ScheduleInv, ScheduleRows
    <2> QED  BY <1>1, <1>7, <2>1 DEF EndScan
  <1>8. CASE UNCHANGED fleetVars
    BY <1>1, <1>8 DEF fleetVars, ScheduleInv, ScheduleRows
  <1> QED  BY <1>2, <1>3, <1>4, <1>5, <1>6, <1>7, <1>8 DEF ScheduleNext

LEMMA ScheduleInvSound == ScheduleInv => ScheduleIsSound
  <1> SUFFICES ASSUME ScheduleInv PROVE ScheduleIsSound
    OBVIOUS
  <1>1. ScheduleTypeOK
    BY DEF ScheduleInv, ScheduleRows, CronInv, ScheduleTypeOK
  <1>2. NoJobOutlivesItsKey
    BY DEF ScheduleInv, CronInv, NoJobOutlivesItsKey
  <1>3. UndisturbedJobIsCurrent
    BY DEF ScheduleInv, PairInv, Follows, UndisturbedJobIsCurrent
  <1> QED  BY <1>1, <1>2, <1>3 DEF ScheduleIsSound

\* Whatever requests, starts and ticks come between the three steps of a Reconcile, cron
\* holds no job that its key has lost; and where neither a race nor a failed read nor
\* another instance has disturbed a fleet's job, it is the one the fleet's row calls for.
THEOREM SchedulesCorrect == ScheduleSpec => []ScheduleIsSound
  <1>1. ScheduleSpec => []ScheduleInv
    BY ScheduleInvInit, ScheduleInvStep, PTL DEF ScheduleSpec
  <1> QED  BY <1>1, ScheduleInvSound, PTL

--------------------------------------------------------------------------------
(* Demonstration data. *)

SessionRows == [status : {"running", "completed", "cancelled"}, drift : BOOLEAN]
Late == {"webhook", "idp", "invitations", "invite"}
RunTypes ==
    [pc : {"pack", "fleet", "robots", "count", "open", "record"} \cup Late, tenant : DemoTenants,
     next : Nat, open : Nat]

DemoRows ==
    /\ demoPack \in DemoTenants \cup {"none"}
    /\ seeding \in [Seeds -> {NoSeeding} \cup RunTypes]
    /\ sessions \in [DemoTenants -> Seq(SessionRows)]
    /\ hooks \in [DemoTenants -> {0, 1}]
    /\ idps \in [DemoTenants -> {0, 1}]
    /\ invites \in [DemoTenants -> {0, 1}]
    /\ demoFleet \subseteq DemoTenants /\ demoRobots \subseteq demoFleet
    /\ seeded \subseteq DemoTenants

\* A run of t has what its place takes for granted.
RunInv(p, t) ==
    /\ seeding[p].open <= Len(sessions[t])
    /\ seeding[p].pc = "robots" => t \in demoFleet
    /\ seeding[p].pc \in {"count", "open", "record"} \cup Late => t \in demoRobots
    /\ seeding[p].pc = "record" => seeding[p].open >= 1
    /\ seeding[p].pc \in Late => Len(sessions[t]) > 0

\* One session runs at a time; only who owns the pack has any.
RowsInv(t) ==
    /\ \A i \in 1..Len(sessions[t]) : \A j \in 1..Len(sessions[t]) :
         sessions[t][i].status = "running" /\ sessions[t][j].status = "running" => i = j
    /\ Len(sessions[t]) > 0 => demoPack = t
    /\ t \in seeded => Len(sessions[t]) > 0
    /\ \A p \in RunsOf(t) : RunInv(p, t)

\* A run that is alone knows how many sessions there are and which it has opened.
AloneInv(t) ==
    t \notin beside =>
        /\ \A p \in RunsOf(t) : \A q \in RunsOf(t) : p = q
        /\ Len(sessions[t]) <= WantedSessions
        /\ \A i \in 1..Len(sessions[t]) :
             sessions[t][i].status = "completed" => (sessions[t][i].drift <=> i = WantedSessions)
        /\ \A p \in RunsOf(t) :
             /\ seeding[p].pc = "open" => seeding[p].next = Len(sessions[t]) /\ seeding[p].next < WantedSessions
             /\ seeding[p].pc = "record" =>
                  /\ seeding[p].open = Len(sessions[t]) /\ seeding[p].open = seeding[p].next + 1
                  /\ seeding[p].next < WantedSessions
             /\ seeding[p].pc \in Late => Len(sessions[t]) = WantedSessions

\* Where no run has met trouble, all that was begun was finished, but for the session that
\* the run has open.
SmoothInv(t) ==
    t \notin beside /\ t \notin troubled =>
        /\ \A i \in 1..Len(sessions[t]) :
             \/ sessions[t][i].status = "completed"
             \/ \E p \in RunsOf(t) : seeding[p].pc = "record" /\ seeding[p].open = i
        /\ \A p \in RunsOf(t) :
             /\ seeding[p].pc \in {"idp", "invitations", "invite"} => hooks[t] = 1
             /\ seeding[p].pc \in {"invitations", "invite"} => idps[t] = 1
        /\ t \in seeded =>
             /\ t \in demoRobots /\ hooks[t] = 1 /\ idps[t] = 1 /\ invites[t] = 1
             /\ Len(sessions[t]) = WantedSessions
             /\ \A i \in 1..Len(sessions[t]) : sessions[t][i].status = "completed"

DemoInv == DemoRows /\ \A t \in DemoTenants : RowsInv(t) /\ AloneInv(t) /\ SmoothInv(t)

\* What tells a tenant's rows and runs apart has not changed.
SameTenant(t) ==
    /\ RunsOf(t)' = RunsOf(t) /\ \A p \in RunsOf(t) : seeding'[p] = seeding[p]
    /\ sessions'[t] = sessions[t] /\ hooks'[t] = hooks[t] /\ idps'[t] = idps[t]
    /\ invites'[t] = invites[t]
    /\ t \in demoFleet => t \in demoFleet'
    /\ t \in demoRobots => t \in demoRobots'
    /\ t \in beside => t \in beside'
    /\ t \in troubled => t \in troubled'
    /\ t \in seeded' => t \in seeded

LEMMA TenantStays ==
    ASSUME DemoInv, NEW t \in DemoTenants, SameTenant(t), demoPack' = demoPack \/ demoPack = "none"
    PROVE  RowsInv(t)' /\ AloneInv(t)' /\ SmoothInv(t)'
  <1>1. /\ RowsInv(t) /\ AloneInv(t) /\ SmoothInv(t)
        /\ Len(sessions[t]) > 0 => demoPack' = t
    BY SeedAssumption DEF DemoInv, RowsInv
  <1>2. RowsInv(t)'
    BY <1>1 DEF RowsInv, SameTenant, RunInv
  <1>3. AloneInv(t)'
    BY <1>1 DEF AloneInv, SameTenant
  <1>4. SmoothInv(t)'
    BY <1>1 DEF SmoothInv, SameTenant
  <1> QED  BY <1>2, <1>3, <1>4

\* A step of one tenant: the others stay as they are.
LEMMA OneTenantMoves ==
    ASSUME DemoInv, DemoRows', NEW t \in DemoTenants,
           \A u \in DemoTenants : u # t => SameTenant(u), demoPack' = demoPack \/ demoPack = "none",
           RowsInv(t)', AloneInv(t)', SmoothInv(t)'
    PROVE  DemoInv'
  <1>1. ASSUME NEW u \in DemoTenants
        PROVE  RowsInv(u)' /\ AloneInv(u)' /\ SmoothInv(u)'
    BY TenantStays
  <1> QED  BY <1>1 DEF DemoInv

\* The run of p in the tenant t.
LEMMA RunTyped ==
    ASSUME DemoInv, NEW p \in Seeds, seeding[p] # NoSeeding
    PROVE  /\ seeding[p] \in RunTypes /\ seeding[p].tenant \in DemoTenants
           /\ p \in RunsOf(seeding[p].tenant)
           /\ RunInv(p, seeding[p].tenant)
  <1>1. seeding[p] \in RunTypes /\ seeding[p].tenant \in DemoTenants
    BY DEF DemoInv, DemoRows, RunTypes
  <1>2. p \in RunsOf(seeding[p].tenant)
    BY DEF RunsOf
  <1> QED  BY <1>1, <1>2 DEF DemoInv, RowsInv

\* A run that is somewhere has begun.
LEMMA RunNamed ==
    ASSUME DemoInv, NEW p \in Seeds, seeding[p].pc # "idle"
    PROVE  seeding[p] # NoSeeding
  BY DEF NoSeeding

\* A run goes on: whose it is stays, and so do the other runs.
LEMMA RunMoves ==
    ASSUME DemoInv, NEW p \in Seeds, NEW t \in DemoTenants, seeding[p] # NoSeeding,
           seeding[p].tenant = t, NEW r \in RunTypes, r.tenant = t,
           seeding' = [seeding EXCEPT ![p] = r]
    PROVE  /\ seeding'[p] = r /\ \A q \in Seeds : q # p => seeding'[q] = seeding[q]
           /\ seeding' \in [Seeds -> {NoSeeding} \cup RunTypes]
           /\ \A u \in DemoTenants : RunsOf(u)' = RunsOf(u)
           /\ \A u \in DemoTenants : u # t => \A q \in RunsOf(u) : seeding'[q] = seeding[q]
  <1>1. /\ seeding'[p] = r /\ \A q \in Seeds : q # p => seeding'[q] = seeding[q]
        /\ seeding' \in [Seeds -> {NoSeeding} \cup RunTypes]
    BY DEF DemoInv, DemoRows
  <1>2. r # NoSeeding
    BY DEF RunTypes, NoSeeding
  <1>3. \A u \in DemoTenants : RunsOf(u)' = RunsOf(u)
    BY <1>1, <1>2 DEF RunsOf
  <1>4. \A u \in DemoTenants : u # t => p \notin RunsOf(u) /\ RunsOf(u) \subseteq Seeds
    BY DEF RunsOf
  <1> QED  BY <1>1, <1>3, <1>4

\* A run ends.
LEMMA SeedRunEnds ==
    ASSUME DemoInv, NEW p \in Seeds, NEW t \in DemoTenants, seeding[p] # NoSeeding,
           seeding[p].tenant = t, seeding' = [seeding EXCEPT ![p] = NoSeeding]
    PROVE  /\ \A q \in Seeds : q # p => seeding'[q] = seeding[q]
           /\ seeding' \in [Seeds -> {NoSeeding} \cup RunTypes]
           /\ RunsOf(t)' = RunsOf(t) \ {p} /\ RunsOf(t) \subseteq Seeds
           /\ \A u \in DemoTenants : u # t =>
                RunsOf(u)' = RunsOf(u) /\ \A q \in RunsOf(u) : seeding'[q] = seeding[q]
  <1>1. /\ seeding'[p] = NoSeeding /\ \A q \in Seeds : q # p => seeding'[q] = seeding[q]
        /\ seeding' \in [Seeds -> {NoSeeding} \cup RunTypes]
    BY DEF DemoInv, DemoRows
  <1>2. RunsOf(t)' = RunsOf(t) \ {p} /\ RunsOf(t) \subseteq Seeds
    BY <1>1 DEF RunsOf
  <1>3. \A u \in DemoTenants : u # t =>
          RunsOf(u)' = RunsOf(u) /\ \A q \in RunsOf(u) : seeding'[q] = seeding[q]
    BY <1>1 DEF RunsOf
  <1> QED  BY <1>1, <1>2, <1>3

LEMMA DemoInvInit == DemoInit => DemoInv
  <1> SUFFICES ASSUME DemoInit PROVE DemoInv
    OBVIOUS
  <1>1. DemoRows
    BY DEF DemoInit, DemoRows
  <1>2. ASSUME NEW t \in DemoTenants
        PROVE  RowsInv(t) /\ AloneInv(t) /\ SmoothInv(t)
    <2>1. RunsOf(t) = {} /\ sessions[t] = <<>> /\ Len(sessions[t]) = 0 /\ seeded = {}
      BY DEF DemoInit, RunsOf
    <2> QED  BY <2>1, SeedAssumption DEF RowsInv, AloneInv, SmoothInv
  <1> QED  BY <1>1, <1>2 DEF DemoInv


\* Goto
LEMMA GotoMoves ==
    ASSUME DemoInv, NEW p \in Seeds, seeding[p] # NoSeeding, NEW c \in {"fleet", "robots", "count", "webhook"} \cup Late,
           Goto(p, c)
    PROVE  \E r \in RunTypes :
             /\ r.pc = c /\ r.tenant = seeding[p].tenant
             /\ r.next = seeding[p].next /\ r.open = seeding[p].open
             /\ seeding' = [seeding EXCEPT ![p] = r]
  <1> DEFINE was == seeding[p]
             r == [was EXCEPT !.pc = c]
  <1>1. was \in RunTypes
    BY RunTyped
  <1>2. seeding' = [seeding EXCEPT ![p] = r]
    BY DEF Goto
  <1>3. r \in RunTypes /\ r.pc = c /\ r.tenant = was.tenant /\ r.next = was.next /\ r.open = was.open
    <2> HIDE DEF was
    <2> QED  BY <1>1 DEF RunTypes, Late
  <1> QED  BY <1>2, <1>3

\* A run goes on to a place whose conditions are met, in a tenant whose sessions and
\* invitations stay as they are.
LEMMA PlainStep ==
    ASSUME DemoInv, NEW p \in Seeds, seeding[p] # NoSeeding, NEW t \in DemoTenants,
           seeding[p].tenant = t,
           NEW r \in RunTypes, r.tenant = t, r.open = seeding[p].open,
           seeding' = [seeding EXCEPT ![p] = r],
           seeding[p].pc # "record", r.pc # "record",
           UNCHANGED <<sessions, invites, beside, troubled, seeded>>,
           demoPack' = demoPack \/ (demoPack = "none" /\ demoPack' \in DemoTenants),
           \A u \in DemoTenants : u # t => hooks'[u] = hooks[u] /\ idps'[u] = idps[u],
           hooks' \in [DemoTenants -> {0, 1}], idps' \in [DemoTenants -> {0, 1}],
           hooks[t] = 1 => hooks'[t] = 1, idps[t] = 1 => idps'[t] = 1,
           demoFleet \subseteq demoFleet', demoFleet' \subseteq DemoTenants,
           demoRobots \subseteq demoRobots', demoRobots' \subseteq demoFleet',
           r.pc = "robots" => t \in demoFleet',
           r.pc \in {"count", "open", "record"} \cup Late => t \in demoRobots',
           r.pc \in Late => Len(sessions[t]) > 0 /\ (t \notin beside => Len(sessions[t]) = WantedSessions),
           r.pc = "open" => r.next = Len(sessions[t]) /\ r.next < WantedSessions,
           t \notin beside /\ t \notin troubled =>
             /\ r.pc \in {"idp", "invitations", "invite"} => hooks'[t] = 1
             /\ r.pc \in {"invitations", "invite"} => idps'[t] = 1
    PROVE  DemoInv'
  <1>1. /\ seeding'[p] = r /\ (\A q \in Seeds : q # p => seeding'[q] = seeding[q])
        /\ seeding' \in [Seeds -> {NoSeeding} \cup RunTypes]
        /\ \A u \in DemoTenants : RunsOf(u)' = RunsOf(u)
        /\ \A u \in DemoTenants : u # t => \A q \in RunsOf(u) : seeding'[q] = seeding[q]
    BY RunMoves, ZenonT(60)
  <1>2. RunsOf(t) \subseteq Seeds /\ p \in RunsOf(t) /\ RunInv(p, t)
    BY RunTyped DEF RunsOf
  <1>3. DemoRows'
    BY <1>1 DEF DemoInv, DemoRows
  <1>4. \A u \in DemoTenants : u # t => SameTenant(u)
    BY <1>1 DEF SameTenant
  <1>5. RowsInv(t) /\ AloneInv(t) /\ SmoothInv(t)
    BY DEF DemoInv
  <1>6. RowsInv(t)'
    <2>1. ASSUME NEW q \in RunsOf(t)
          PROVE  RunInv(q, t)'
      <3>1. CASE q = p
        BY <3>1, <1>1, <1>2 DEF RunInv
      <3>2. CASE q # p
        BY <3>2, <1>1, <1>2, <1>5 DEF RunInv, RowsInv
      <3> QED  BY <3>1, <3>2
    <2>2. Len(sessions[t]) > 0 => demoPack' = t
      BY <1>5, SeedAssumption DEF RowsInv
    <2> QED  BY <1>1, <1>5, <2>1, <2>2 DEF RowsInv
  <1>7. AloneInv(t)'
    <2>1. ASSUME t \notin beside, NEW q \in RunsOf(t)
          PROVE  q = p
      BY <2>1, <1>2, <1>5 DEF AloneInv
    <2> QED  BY <2>1, <1>1, <1>5 DEF AloneInv
  <1>8. SmoothInv(t)'
    <2>1. ASSUME t \notin beside, NEW q \in RunsOf(t)
          PROVE  q = p
      BY <2>1, <1>2, <1>5 DEF AloneInv
    <2>2. ASSUME t \notin beside, t \notin troubled
          PROVE  /\ \A i \in 1..Len(sessions[t]) : sessions[t][i].status = "completed"
                 /\ t \in seeded =>
                      /\ t \in demoRobots' /\ hooks'[t] = 1 /\ idps'[t] = 1 /\ invites[t] = 1
                      /\ Len(sessions[t]) = WantedSessions
      BY <2>1, <2>2, <1>5 DEF SmoothInv
    <2> QED  BY <2>1, <2>2, <1>1 DEF SmoothInv
  <1> QED  BY <1>3, <1>4, <1>6, <1>7, <1>8, OneTenantMoves

LEMMA PlainSteps ==
    ASSUME DemoInv, NEW p \in Seeds,
           \/ SeedPack(p) \/ SeedFleet(p) \/ SeedRobots(p) \/ CountSessions(p)
           \/ SeedWebhook(p) \/ SeedProvider(p)
    PROVE  DemoInv'
  <1>1. seeding[p] # NoSeeding
    BY RunNamed DEF SeedPack, SeedFleet, SeedRobots, CountSessions, SeedWebhook, SeedProvider
  <1>2. PICK t \in DemoTenants : seeding[p].tenant = t
    BY <1>1, RunTyped
  <1>3. seeding[p] \in RunTypes /\ p \in RunsOf(t) /\ RunInv(p, t)
    BY <1>1, <1>2, RunTyped
  <1>4. RowsInv(t) /\ AloneInv(t) /\ SmoothInv(t) /\ DemoRows
    BY DEF DemoInv
  <1>5. CASE SeedPack(p)
    <2>1. PICK r \in RunTypes : /\ r.pc = "fleet" /\ r.tenant = t /\ r.open = seeding[p].open
                                /\ seeding' = [seeding EXCEPT ![p] = r]
      BY <1>1, <1>2, <1>5, GotoMoves DEF SeedPack
    <2>2. demoPack' = demoPack \/ (demoPack = "none" /\ demoPack' \in DemoTenants)
      BY <1>2, <1>5 DEF SeedPack, PackThere
    <2>3. UNCHANGED <<sessions, invites, beside, troubled, seeded, hooks, idps, demoFleet, demoRobots>>
          /\ seeding[p].pc # "record"
      BY <1>5 DEF SeedPack, tenantRows
    <2> QED  BY <1>1, <1>2, <1>4, <2>1, <2>2, <2>3, PlainStep DEF DemoRows, Late
  <1>6. CASE SeedFleet(p)
    <2>1. PICK r \in RunTypes : /\ r.pc = "robots" /\ r.tenant = t /\ r.open = seeding[p].open
                                /\ seeding' = [seeding EXCEPT ![p] = r]
      BY <1>1, <1>2, <1>6, GotoMoves DEF SeedFleet
    <2>2. UNCHANGED <<sessions, invites, beside, troubled, seeded, hooks, idps, demoPack, demoRobots>>
          /\ seeding[p].pc # "record" /\ demoFleet' = demoFleet \cup {t}
      BY <1>2, <1>6 DEF SeedFleet
    <2> QED  BY <1>1, <1>2, <1>4, <2>1, <2>2, PlainStep DEF DemoRows, Late
  <1>7. CASE SeedRobots(p)
    <2>1. PICK r \in RunTypes : /\ r.pc = "count" /\ r.tenant = t /\ r.open = seeding[p].open
                                /\ seeding' = [seeding EXCEPT ![p] = r]
      BY <1>1, <1>2, <1>7, GotoMoves DEF SeedRobots
    <2>2. UNCHANGED <<sessions, invites, beside, troubled, seeded, hooks, idps, demoPack, demoFleet>>
          /\ seeding[p].pc # "record" /\ demoRobots' = demoRobots \cup {t} /\ t \in demoFleet
      BY <1>2, <1>3, <1>7 DEF SeedRobots, RunInv
    <2> QED  BY <1>1, <1>2, <1>4, <2>1, <2>2, PlainStep DEF DemoRows, Late
  <1>8. CASE CountSessions(p)
    <2> DEFINE was == seeding[p]
               n == Len(sessions[t])
               place == IF n >= WantedSessions THEN "webhook" ELSE "open"
               r == [was EXCEPT !.next = n, !.pc = place]
    <2>0. n \in Nat
      BY <1>4 DEF DemoRows
    <2>1. seeding' = [seeding EXCEPT ![p] = r]
      BY <1>2, <1>8 DEF CountSessions, Existing
    <2>2. /\ r \in RunTypes /\ r.pc = place /\ r.tenant = t /\ r.next = n /\ r.open = seeding[p].open
      <3>1. was \in RunTypes /\ was.tenant = t /\ seeding[p].open = was.open
        BY <1>2, <1>3
      <3>2. place \in {"webhook", "open"}
        OBVIOUS
      <3> HIDE DEF was, n, place
      <3> QED  BY <3>1, <3>2, <2>0 DEF RunTypes, Late
    <2> HIDE DEF r
    <2>3. UNCHANGED <<sessions, invites, beside, troubled, seeded, hooks, idps, demoPack, demoFleet, demoRobots>>
          /\ seeding[p].pc = "count"
      BY <1>8 DEF CountSessions, tenantRows
    <2>4. t \in demoRobots
      BY <1>3, <2>3 DEF RunInv
    <2>5. r.pc \in Late => n > 0 /\ (t \notin beside => n = WantedSessions)
      BY <2>0, <2>2, <1>4, SeedAssumption DEF AloneInv, Late
    <2>6. r.pc = "open" => r.next = n /\ r.next < WantedSessions
      BY <2>0, <2>2, SeedAssumption
    <2>7. r.pc \notin {"robots", "record", "idp", "invitations", "invite"}
      BY <2>2
    <2> HIDE DEF place
    <2> QED  BY <1>1, <1>2, <1>4, <2>1, <2>2, <2>3, <2>4, <2>5, <2>6, <2>7, PlainStep DEF DemoRows
  <1>9. CASE SeedWebhook(p)
    <2>1. PICK r \in RunTypes : /\ r.pc = "idp" /\ r.tenant = t /\ r.open = seeding[p].open
                                /\ seeding' = [seeding EXCEPT ![p] = r]
      BY <1>1, <1>2, <1>9, GotoMoves DEF SeedWebhook, Late
    <2>2. UNCHANGED <<sessions, invites, beside, troubled, seeded, idps, demoPack, demoFleet, demoRobots>>
          /\ seeding[p].pc = "webhook"
      BY <1>9 DEF SeedWebhook
    <2>3. /\ hooks' \in [DemoTenants -> {0, 1}] /\ hooks'[t] = 1
          /\ \A u \in DemoTenants : u # t => hooks'[u] = hooks[u]
      BY <1>2, <1>4, <1>9 DEF SeedWebhook, OnceMore, DemoRows
    <2>4. t \in demoRobots /\ Len(sessions[t]) > 0 /\ (t \notin beside => Len(sessions[t]) = WantedSessions)
      BY <1>3, <1>4, <2>2 DEF RunInv, AloneInv, Late
    <2>5. r.pc \notin {"robots", "record", "open"} /\ r.pc \notin {"invitations", "invite"}
      BY <2>1
    <2> QED  BY <1>1, <1>2, <1>4, <2>1, <2>2, <2>3, <2>4, <2>5, PlainStep DEF DemoRows
  <1>10. CASE SeedProvider(p)
    <2>1. PICK r \in RunTypes : /\ r.pc = "invitations" /\ r.tenant = t /\ r.open = seeding[p].open
                                /\ seeding' = [seeding EXCEPT ![p] = r]
      BY <1>1, <1>2, <1>10, GotoMoves DEF SeedProvider, Late
    <2>2. UNCHANGED <<sessions, invites, beside, troubled, seeded, hooks, demoPack, demoFleet, demoRobots>>
          /\ seeding[p].pc = "idp"
      BY <1>10 DEF SeedProvider
    <2>3. /\ idps' \in [DemoTenants -> {0, 1}] /\ idps'[t] = 1
          /\ \A u \in DemoTenants : u # t => idps'[u] = idps[u]
      BY <1>2, <1>4, <1>10 DEF SeedProvider, OnceMore, DemoRows
    <2>4. t \in demoRobots /\ Len(sessions[t]) > 0 /\ (t \notin beside => Len(sessions[t]) = WantedSessions)
      BY <1>3, <1>4, <2>2 DEF RunInv, AloneInv, Late
    <2>5. t \notin beside /\ t \notin troubled => hooks[t] = 1
      BY <1>3, <1>4, <2>2 DEF SmoothInv
    <2>6. r.pc \notin {"robots", "record", "open"}
      BY <2>1
    <2> QED  BY <1>1, <1>2, <1>4, <2>1, <2>2, <2>3, <2>4, <2>5, <2>6, PlainStep DEF DemoRows
  <1> QED  BY <1>5, <1>6, <1>7, <1>8, <1>9, <1>10


--------------------------------------------------------------------------------

\* A run that starts finds another of its tenant, or is alone.
LEMMA StartKeeps ==
    ASSUME DemoInv, NEW p \in Seeds, NEW t \in DemoTenants, StartSeed(p, t)
    PROVE  DemoInv'
  <1> DEFINE r == [pc |-> "pack", tenant |-> t, next |-> 0, open |-> 0]
  <1>1. r \in RunTypes /\ r.tenant = t /\ r.open = 0 /\ r.pc = "pack" /\ r # NoSeeding
    BY DEF RunTypes, NoSeeding
  <1>2. seeding' = [seeding EXCEPT ![p] = r] /\ seeding[p] = NoSeeding
    BY DEF StartSeed
  <1> HIDE DEF r
  <1>3. /\ seeding'[p] = r /\ (\A q \in Seeds : q # p => seeding'[q] = seeding[q])
        /\ seeding' \in [Seeds -> {NoSeeding} \cup RunTypes]
    BY <1>1, <1>2 DEF DemoInv, DemoRows
  <1>4. beside' = (IF RunsOf(t) = {} THEN beside ELSE beside \cup {t})
        /\ UNCHANGED <<demoPack, meddled, troubled, seeded, demoFleet, demoRobots, sessions, hooks, idps, invites>>
    BY DEF StartSeed, tenantRows
  <1>5. RunsOf(t)' = RunsOf(t) \cup {p} /\ p \notin RunsOf(t) /\ RunsOf(t) \subseteq Seeds
    BY <1>1, <1>2, <1>3 DEF RunsOf
  <1>6. \A u \in DemoTenants : u # t => SameTenant(u)
    <2>1. ASSUME NEW u \in DemoTenants, u # t
          PROVE  RunsOf(u)' = RunsOf(u) /\ \A q \in RunsOf(u) : seeding'[q] = seeding[q]
      BY <2>1, <1>1, <1>2, <1>3 DEF RunsOf
    <2> QED  BY <2>1, <1>4 DEF SameTenant
  <1>7. DemoRows'
    BY <1>3, <1>4 DEF DemoInv, DemoRows
  <1>8. RowsInv(t) /\ AloneInv(t) /\ SmoothInv(t) /\ Len(sessions[t]) \in Nat
    BY DEF DemoInv, DemoRows
  <1>9. RowsInv(t)'
    <2>1. ASSUME NEW q \in RunsOf(t)'
          PROVE  RunInv(q, t)'
      <3>1. CASE q = p
        BY <3>1, <1>1, <1>3, <1>4, <1>8 DEF RunInv, Late
      <3>2. CASE q # p
        BY <3>2, <2>1, <1>3, <1>4, <1>5, <1>8 DEF RunInv, RowsInv
      <3> QED  BY <3>1, <3>2
    <2> QED  BY <2>1, <1>4, <1>8 DEF RowsInv
  <1>10. ASSUME t \notin beside'
         PROVE  RunsOf(t)' = {p} /\ RunsOf(t) = {} /\ t \notin beside
    BY <1>4, <1>5, <1>10
  <1>11. AloneInv(t)'
    BY <1>1, <1>3, <1>4, <1>8, <1>10 DEF AloneInv, Late
  <1>12. SmoothInv(t)'
    <2> SUFFICES ASSUME t \notin beside', t \notin troubled'
                 PROVE  SmoothInv(t)'
      BY DEF SmoothInv
    <2>1. \A i \in 1..Len(sessions[t]) : sessions[t][i].status = "completed"
      BY <1>4, <1>8, <1>10 DEF SmoothInv
    <2> QED  BY <2>1, <1>1, <1>3, <1>4, <1>8, <1>10 DEF SmoothInv
  <1> QED  BY <1>4, <1>6, <1>7, <1>9, <1>11, <1>12, OneTenantMoves

\* A run that fails has done what it has done.
LEMMA StopKeeps ==
    ASSUME DemoInv, NEW p \in Seeds, seeding[p] # NoSeeding, Stop(p)
    PROVE  DemoInv'
  <1>1. PICK t \in DemoTenants : seeding[p].tenant = t
    BY RunTyped
  <1>2. /\ \A q \in Seeds : q # p => seeding'[q] = seeding[q]
        /\ seeding' \in [Seeds -> {NoSeeding} \cup RunTypes]
        /\ RunsOf(t)' = RunsOf(t) \ {p} /\ RunsOf(t) \subseteq Seeds
        /\ \A u \in DemoTenants : u # t =>
             RunsOf(u)' = RunsOf(u) /\ \A q \in RunsOf(u) : seeding'[q] = seeding[q]
    BY <1>1, SeedRunEnds DEF Stop
  <1>3. troubled' = troubled \cup {t}
        /\ UNCHANGED <<demoPack, beside, seeded, demoFleet, demoRobots, sessions, hooks, idps, invites>>
    BY <1>1 DEF Stop, tenantRows
  <1>4. DemoRows'
    BY <1>2, <1>3 DEF DemoInv, DemoRows
  <1>5. \A u \in DemoTenants : u # t => SameTenant(u)
    BY <1>2, <1>3 DEF SameTenant
  <1>6. RowsInv(t) /\ AloneInv(t)
    BY DEF DemoInv
  <1>7. RowsInv(t)'
    <2>1. ASSUME NEW q \in RunsOf(t)'
          PROVE  RunInv(q, t)'
      BY <2>1, <1>2, <1>3, <1>6 DEF RunInv, RowsInv
    <2> QED  BY <2>1, <1>3, <1>6 DEF RowsInv
  <1>8. AloneInv(t)'
    BY <1>2, <1>3, <1>6 DEF AloneInv
  <1>9. SmoothInv(t)'
    BY <1>3 DEF SmoothInv
  <1> QED  BY <1>3, <1>4, <1>5, <1>7, <1>8, <1>9, OneTenantMoves

\* A run that ends with 0 has found or made an invitation.
LEMMA FinishKeeps ==
    ASSUME DemoInv, NEW p \in Seeds, NEW t \in DemoTenants, seeding[p] # NoSeeding,
           seeding[p].tenant = t, seeding[p].pc \in {"invitations", "invite"}, Finish(p),
           UNCHANGED <<demoPack, beside, troubled, demoFleet, demoRobots, sessions, hooks, idps>>,
           invites' \in [DemoTenants -> {0, 1}], invites'[t] = 1,
           \A u \in DemoTenants : u # t => invites'[u] = invites[u]
    PROVE  DemoInv'
  <1>1. seeded' = seeded \cup {t}
    BY DEF Finish
  <1>2. /\ \A q \in Seeds : q # p => seeding'[q] = seeding[q]
        /\ seeding' \in [Seeds -> {NoSeeding} \cup RunTypes]
        /\ RunsOf(t)' = RunsOf(t) \ {p} /\ RunsOf(t) \subseteq Seeds
        /\ \A u \in DemoTenants : u # t =>
             RunsOf(u)' = RunsOf(u) /\ \A q \in RunsOf(u) : seeding'[q] = seeding[q]
    BY SeedRunEnds DEF Finish
  <1>3. DemoRows'
    BY <1>1, <1>2 DEF DemoInv, DemoRows
  <1>4. \A u \in DemoTenants : u # t => SameTenant(u)
    BY <1>1, <1>2 DEF SameTenant
  <1>5. RowsInv(t) /\ AloneInv(t) /\ SmoothInv(t) /\ p \in RunsOf(t) /\ RunInv(p, t)
    BY RunTyped DEF DemoInv
  <1>6. RowsInv(t)'
    <2>1. ASSUME NEW q \in RunsOf(t)'
          PROVE  RunInv(q, t)'
      BY <2>1, <1>2, <1>5 DEF RunInv, RowsInv
    <2>2. Len(sessions[t]) > 0
      BY <1>5 DEF RunInv, Late
    <2> QED  BY <2>1, <2>2, <1>5 DEF RowsInv
  <1>7. AloneInv(t)'
    BY <1>2, <1>5 DEF AloneInv
  <1>8. SmoothInv(t)'
    <2> SUFFICES ASSUME t \notin beside, t \notin troubled
                 PROVE  SmoothInv(t)'
      BY DEF SmoothInv
    <2>1. RunsOf(t) = {p} /\ RunsOf(t)' = {}
      BY <1>2, <1>5 DEF AloneInv
    <2>2. \A i \in 1..Len(sessions[t]) : sessions[t][i].status = "completed"
      BY <2>1, <1>5 DEF SmoothInv
    <2>3. hooks[t] = 1 /\ idps[t] = 1 /\ t \in demoRobots /\ Len(sessions[t]) = WantedSessions
      BY <1>5 DEF SmoothInv, AloneInv, RunInv, Late
    <2> QED  BY <2>1, <2>2, <2>3 DEF SmoothInv
  <1> QED  BY <1>3, <1>4, <1>6, <1>7, <1>8, OneTenantMoves

LEMMA InvitationSteps ==
    ASSUME DemoInv, NEW p \in Seeds, LookForInvitation(p) \/ SeedInvitation(p)
    PROVE  DemoInv'
  <1>1. seeding[p] # NoSeeding
    BY RunNamed DEF LookForInvitation, SeedInvitation
  <1>2. PICK t \in DemoTenants : seeding[p].tenant = t
    BY <1>1, RunTyped
  <1>3. RunInv(p, t) /\ p \in RunsOf(t) /\ AloneInv(t) /\ SmoothInv(t) /\ DemoRows
    BY <1>1, <1>2, RunTyped DEF DemoInv
  <1>4. CASE LookForInvitation(p)
    <2>1. UNCHANGED <<demoPack, beside, troubled, demoFleet, demoRobots, sessions, hooks, idps, invites>>
          /\ seeding[p].pc = "invitations"
      BY <1>4 DEF LookForInvitation, tenantRows
    <2>2. CASE invites[t] > 0
      <3>1. Finish(p)
        BY <2>2, <1>2, <1>4 DEF LookForInvitation
      <3>2. invites[t] = 1
        BY <2>2, <1>3 DEF DemoRows
      <3> QED  BY <3>1, <3>2, <2>1, <1>1, <1>2, <1>3, FinishKeeps DEF DemoRows
    <2>3. CASE ~ (invites[t] > 0)
      <3>1. Goto(p, "invite") /\ UNCHANGED seeded
        BY <2>3, <1>2, <1>4 DEF LookForInvitation
      <3>2. PICK r \in RunTypes : /\ r.pc = "invite" /\ r.tenant = t /\ r.open = seeding[p].open
                                  /\ seeding' = [seeding EXCEPT ![p] = r]
        BY <3>1, <1>1, <1>2, GotoMoves DEF Late
      <3>3. t \in demoRobots /\ Len(sessions[t]) > 0 /\ (t \notin beside => Len(sessions[t]) = WantedSessions)
        BY <1>3, <2>1 DEF RunInv, AloneInv, Late
      <3>4. t \notin beside /\ t \notin troubled => hooks[t] = 1 /\ idps[t] = 1
        BY <1>3, <2>1 DEF SmoothInv
      <3>5. r.pc \notin {"robots", "record", "open"}
        BY <3>2
      <3> QED  BY <1>1, <1>2, <1>3, <2>1, <3>1, <3>2, <3>3, <3>4, <3>5, PlainStep DEF DemoRows
    <2> QED  BY <2>2, <2>3
  <1>5. CASE SeedInvitation(p)
    <2>1. CASE invites[t] = 0
      <3>1. /\ seeding[p].pc = "invite" /\ Finish(p)
            /\ invites' = [invites EXCEPT ![t] = @ + 1]
            /\ UNCHANGED <<demoPack, beside, troubled, demoFleet, demoRobots, sessions, hooks, idps>>
        BY <2>1, <1>2, <1>5 DEF SeedInvitation, Invitable
      <3>2. invites' \in [DemoTenants -> {0, 1}] /\ invites'[t] = 1
            /\ \A u \in DemoTenants : u # t => invites'[u] = invites[u]
        BY <3>1, <2>1, <1>3 DEF DemoRows
      <3> QED  BY <3>1, <3>2, <1>1, <1>2, FinishKeeps
    <2>2. CASE invites[t] # 0
      <3>1. Stop(p)
        BY <2>2, <1>2, <1>5 DEF SeedInvitation, Invitable
      <3> QED  BY <3>1, <1>1, StopKeeps
    <2> QED  BY <2>1, <2>2
  <1> QED  BY <1>4, <1>5


--------------------------------------------------------------------------------
(* The sessions of the data. *)

\* One row of a sequence is replaced.
LEMMA RowReplaced ==
    ASSUME NEW s \in Seq(SessionRows), NEW i \in 1..Len(s), NEW row \in SessionRows,
           NEW new, new = [s EXCEPT ![i] = row]
    PROVE  /\ new \in Seq(SessionRows) /\ Len(new) = Len(s) /\ new[i] = row
           /\ \A j \in 1..Len(s) : j # i => new[j] = s[j]
  OBVIOUS

LEMMA RowAdded ==
    ASSUME NEW s \in Seq(SessionRows), NEW row \in SessionRows, NEW new, new = Append(s, row)
    PROVE  /\ new \in Seq(SessionRows) /\ Len(new) = Len(s) + 1 /\ new[Len(s) + 1] = row
           /\ \A j \in 1..Len(s) : new[j] = s[j]
           /\ Len(s) \in Nat
  OBVIOUS

\* A session is opened where none runs, and is the last.
LEMMA OpenKeeps ==
    ASSUME DemoInv, NEW p \in Seeds, OpenSession(p)
    PROVE  DemoInv'
  <1>1. seeding[p] # NoSeeding /\ seeding[p].pc = "open"
    BY RunNamed DEF OpenSession
  <1>2. PICK t \in DemoTenants : seeding[p].tenant = t
    BY <1>1, RunTyped
  <1>3. /\ RunInv(p, t) /\ p \in RunsOf(t) /\ RowsInv(t) /\ AloneInv(t) /\ SmoothInv(t) /\ DemoRows
        /\ seeding[p] \in RunTypes /\ RunsOf(t) \subseteq Seeds
    BY <1>1, <1>2, RunTyped DEF DemoInv, RunsOf
  <1>4. CASE ~ Startable(t)
    BY <1>1, <1>2, <1>4, StopKeeps DEF OpenSession
  <1>5. CASE Startable(t)
    <2> DEFINE row == [status |-> "running", drift |-> FALSE]
               was == seeding[p]
               n == Len(sessions[t]) + 1
               r == [was EXCEPT !.pc = "record", !.open = n]
               new == sessions'[t]
    <2>1. /\ sessions' = [sessions EXCEPT ![t] = Append(sessions[t], row)]
          /\ seeding' = [seeding EXCEPT ![p] = r]
          /\ UNCHANGED <<demoPack, demoFleet, demoRobots, hooks, idps, invites, beside, troubled, seeded>>
      BY <1>2, <1>5 DEF OpenSession
    <2>2. row \in SessionRows /\ row.status = "running"
      BY DEF SessionRows
    <2>3. sessions[t] \in Seq(SessionRows) /\ Len(sessions[t]) \in Nat
      BY <1>3 DEF DemoRows
    <2>4. /\ r \in RunTypes /\ r.pc = "record" /\ r.tenant = t /\ r.next = seeding[p].next /\ r.open = n
      <3>1. was \in RunTypes /\ was.tenant = t /\ was.next = seeding[p].next /\ n \in Nat
        BY <1>2, <1>3, <2>3
      <3> HIDE DEF was, n
      <3> QED  BY <3>1 DEF RunTypes, Late
    <2> HIDE DEF r, row
    <2>5. new = Append(sessions[t], row) /\ \A u \in DemoTenants : u # t => sessions'[u] = sessions[u]
      BY <2>1, <1>3 DEF DemoRows
    <2>6. /\ new \in Seq(SessionRows) /\ Len(new) = Len(sessions[t]) + 1 /\ new[Len(sessions[t]) + 1] = row
          /\ \A j \in 1..Len(sessions[t]) : new[j] = sessions[t][j]
      BY <2>2, <2>3, <2>5, RowAdded
    <2>7. /\ seeding'[p] = r /\ (\A q \in Seeds : q # p => seeding'[q] = seeding[q])
          /\ seeding' \in [Seeds -> {NoSeeding} \cup RunTypes]
          /\ \A u \in DemoTenants : RunsOf(u)' = RunsOf(u)
          /\ \A u \in DemoTenants : u # t => \A q \in RunsOf(u) : seeding'[q] = seeding[q]
      BY <1>1, <1>2, <2>1, <2>4, RunMoves
    <2>8. DemoRows'
      <3>1. sessions' \in [DemoTenants -> Seq(SessionRows)]
        BY <2>1, <2>5, <2>6, <1>3 DEF DemoRows
      <3> QED  BY <3>1, <2>1, <2>7, <1>3 DEF DemoRows
    <2>9. \A u \in DemoTenants : u # t => SameTenant(u)
      BY <2>1, <2>5, <2>7 DEF SameTenant
    <2>10. /\ demoPack = t
           /\ \A i \in 1..Len(sessions[t]) : sessions[t][i].status # "running"
      BY <1>5, <2>3 DEF Startable
    <2>11. RowsInv(t)'
      <3>1. ASSUME NEW q \in RunsOf(t)
            PROVE  RunInv(q, t)'
        <4>1. CASE q = p
          BY <4>1, <1>1, <1>3, <2>1, <2>3, <2>4, <2>6, <2>7 DEF RunInv, Late
        <4>2. CASE q # p
          <5>1. RunInv(q, t) /\ seeding'[q] = seeding[q] /\ seeding[q] \in RunTypes
            BY <4>2, <1>3, <2>7 DEF RowsInv, DemoRows, RunsOf
          <5>2. seeding[q].open \in Nat
            BY <5>1 DEF RunTypes
          <5> QED  BY <5>1, <5>2, <2>1, <2>3, <2>6 DEF RunInv
        <4> QED  BY <4>1, <4>2
      <3>2. ASSUME NEW i \in 1..Len(new), new[i].status = "running"
            PROVE  i = Len(sessions[t]) + 1
        <4>1. CASE i \in 1..Len(sessions[t])
          BY <4>1, <3>2, <2>6, <2>10
        <4>2. CASE i \notin 1..Len(sessions[t])
          BY <4>2, <2>3, <2>6
        <4> QED  BY <4>1, <4>2
      <3> QED  BY <3>1, <3>2, <1>3, <2>1, <2>3, <2>6, <2>7, <2>10 DEF RowsInv
    <2>12. ASSUME t \notin beside
           PROVE  /\ RunsOf(t) = {p}
                  /\ seeding[p].next = Len(sessions[t]) /\ seeding[p].next < WantedSessions
      BY <2>12, <1>1, <1>3 DEF AloneInv
    <2>13. AloneInv(t)'
      <3> SUFFICES ASSUME t \notin beside PROVE AloneInv(t)'
        BY <2>1 DEF AloneInv
      <3>1. Len(new) <= WantedSessions
        BY <2>3, <2>6, <2>12, SeedAssumption
      <3>2. ASSUME NEW i \in 1..Len(new), new[i].status = "completed"
            PROVE  new[i].drift <=> i = WantedSessions
        <4>1. i \in 1..Len(sessions[t]) /\ new[i] = sessions[t][i]
          BY <3>2, <2>2, <2>3, <2>6
        <4> QED  BY <4>1, <3>2, <1>3 DEF AloneInv
      <3>3. r.pc \notin Late /\ r.pc # "open"
        BY <2>4 DEF Late
      <3> QED  BY <3>1, <3>2, <3>3, <2>3, <2>4, <2>6, <2>7, <2>12 DEF AloneInv
    <2>14. SmoothInv(t)'
      <3> SUFFICES ASSUME t \notin beside, t \notin troubled PROVE SmoothInv(t)'
        BY <2>1 DEF SmoothInv
      <3>1. \A i \in 1..Len(sessions[t]) : sessions[t][i].status = "completed"
        BY <2>12, <1>1, <1>3 DEF SmoothInv
      <3>2. \A i \in 1..Len(new) : new[i].status = "completed" \/ i = n
        BY <3>1, <2>3, <2>6
      <3>3. t \notin seeded
        BY <2>12, <1>3, <2>3 DEF SmoothInv
      <3> QED  BY <3>2, <3>3, <2>1, <2>4, <2>7, <2>12 DEF SmoothInv
    <2> QED  BY <2>1, <2>8, <2>9, <2>11, <2>13, <2>14, OneTenantMoves
  <1> QED  BY <1>4, <1>5

\* A session that was recorded is completed, and drifts when it is the last that is wanted.
LEMMA RecordKeeps ==
    ASSUME DemoInv, NEW p \in Seeds, RecordSession(p)
    PROVE  DemoInv'
  <1>1. seeding[p] # NoSeeding /\ seeding[p].pc = "record"
    BY RunNamed DEF RecordSession
  <1>2. PICK t \in DemoTenants : seeding[p].tenant = t
    BY <1>1, RunTyped
  <1>3. /\ RunInv(p, t) /\ p \in RunsOf(t) /\ RowsInv(t) /\ AloneInv(t) /\ SmoothInv(t) /\ DemoRows
        /\ seeding[p] \in RunTypes /\ RunsOf(t) \subseteq Seeds
    BY <1>1, <1>2, RunTyped DEF DemoInv, RunsOf
  <1> DEFINE s == seeding[p].open
             n == seeding[p].next
  <1>4. CASE sessions[t][s].status # "running"
    BY <1>1, <1>2, <1>4, StopKeeps DEF RecordSession
  <1>5. CASE sessions[t][s].status = "running"
    <2> DEFINE row == [status |-> "completed", drift |-> Drifts(n)]
               was == seeding[p]
               place == IF n + 1 < WantedSessions THEN "open" ELSE "webhook"
               r == [was EXCEPT !.next = n + 1, !.pc = place]
               new == sessions'[t]
               old == sessions[t]
    <2>1. /\ sessions' = [sessions EXCEPT ![t] = [old EXCEPT ![s] = row]]
          /\ seeding' = [seeding EXCEPT ![p] = r]
          /\ UNCHANGED <<demoPack, demoFleet, demoRobots, hooks, idps, invites, beside, troubled, seeded>>
      BY <1>2, <1>5 DEF RecordSession
    <2>2. row \in SessionRows /\ row.status = "completed" /\ (row.drift <=> n = WantedSessions - 1)
      BY DEF SessionRows, Drifts
    <2>3. old \in Seq(SessionRows) /\ Len(old) \in Nat /\ n \in Nat /\ s \in 1..Len(old)
      <3>1. n \in Nat /\ s \in Nat
        BY <1>3 DEF RunTypes
      <3>2. old \in Seq(SessionRows)
        BY <1>3 DEF DemoRows
      <3> QED  BY <3>1, <3>2, <1>1, <1>3 DEF RunInv
    <2>4. /\ r \in RunTypes /\ r.pc = place /\ r.tenant = t /\ r.next = n + 1 /\ r.open = s
      <3>1. was \in RunTypes /\ was.tenant = t /\ was.open = s /\ n + 1 \in Nat
        BY <1>2, <1>3, <2>3
      <3>2. place \in {"open", "webhook"}
        OBVIOUS
      <3> DEFINE m == n + 1
      <3>3. r = [was EXCEPT !.next = m, !.pc = place] /\ m \in Nat
        BY <3>1
      <3> HIDE DEF was, n, s, place, m, r
      <3>4. r \in RunTypes /\ r.pc = place /\ r.tenant = t /\ r.next = m /\ r.open = s
        BY <3>1, <3>2, <3>3 DEF RunTypes, Late
      <3> QED  BY <3>4 DEF m
    <2> HIDE DEF r, row
    <2>5. new = [old EXCEPT ![s] = row] /\ \A u \in DemoTenants : u # t => sessions'[u] = sessions[u]
      BY <2>1, <1>3 DEF DemoRows
    <2>6. /\ new \in Seq(SessionRows) /\ Len(new) = Len(old) /\ new[s] = row
          /\ \A j \in 1..Len(old) : j # s => new[j] = old[j]
      BY <2>2, <2>3, <2>5, RowReplaced
    <2>7. /\ seeding'[p] = r /\ (\A q \in Seeds : q # p => seeding'[q] = seeding[q])
          /\ seeding' \in [Seeds -> {NoSeeding} \cup RunTypes]
          /\ \A u \in DemoTenants : RunsOf(u)' = RunsOf(u)
          /\ \A u \in DemoTenants : u # t => \A q \in RunsOf(u) : seeding'[q] = seeding[q]
      BY <1>1, <1>2, <2>1, <2>4, RunMoves
    <2>8. DemoRows'
      <3>1. sessions' \in [DemoTenants -> Seq(SessionRows)]
        BY <2>1, <2>5, <2>6, <1>3 DEF DemoRows
      <3> QED  BY <3>1, <2>1, <2>7, <1>3 DEF DemoRows
    <2>9. \A u \in DemoTenants : u # t => SameTenant(u)
      BY <2>1, <2>5, <2>7 DEF SameTenant
    <2>10. place \in {"open", "webhook"} /\ t \in demoRobots
      BY <1>1, <1>3 DEF RunInv
    <2>11. RowsInv(t)'
      <3>1. ASSUME NEW q \in RunsOf(t)
            PROVE  RunInv(q, t)'
        <4>1. CASE q = p
          BY <4>1, <2>1, <2>3, <2>4, <2>6, <2>7, <2>10 DEF RunInv
        <4>2. CASE q # p
          <5>1. RunInv(q, t) /\ seeding'[q] = seeding[q]
            BY <4>2, <1>3, <2>7 DEF RowsInv
          <5> QED  BY <5>1, <2>1, <2>6 DEF RunInv
        <4> QED  BY <4>1, <4>2
      <3>2. \A i \in 1..Len(old) : new[i].status = "running" => old[i].status = "running"
        BY <2>2, <2>6
      <3> QED  BY <3>1, <3>2, <1>3, <2>1, <2>3, <2>6, <2>7 DEF RowsInv
    <2>12. ASSUME t \notin beside
           PROVE  /\ RunsOf(t) = {p} /\ s = Len(old) /\ s = n + 1 /\ n < WantedSessions
      BY <2>12, <1>1, <1>3 DEF AloneInv
    <2>13. AloneInv(t)'
      <3> SUFFICES ASSUME t \notin beside PROVE AloneInv(t)'
        BY <2>1 DEF AloneInv
      <3>1. Len(new) <= WantedSessions
        BY <2>6, <1>3 DEF AloneInv
      <3>2. ASSUME NEW i \in 1..Len(new), new[i].status = "completed"
            PROVE  new[i].drift <=> i = WantedSessions
        <4>1. CASE i = s
          BY <4>1, <2>2, <2>3, <2>6, <2>12, SeedAssumption
        <4>2. CASE i # s
          BY <4>2, <3>2, <2>6, <1>3 DEF AloneInv
        <4> QED  BY <4>1, <4>2
      <3>3. r.pc = "open" => r.next = Len(new) /\ r.next < WantedSessions
        BY <2>3, <2>4, <2>6, <2>12
      <3>4. r.pc \in Late => Len(new) = WantedSessions
        BY <2>3, <2>4, <2>6, <2>12, SeedAssumption DEF Late
      <3>5. r.pc # "record"
        BY <2>4
      <3> QED  BY <3>1, <3>2, <3>3, <3>4, <3>5, <2>3, <2>6, <2>7, <2>12 DEF AloneInv
    <2>14. SmoothInv(t)'
      <3> SUFFICES ASSUME t \notin beside, t \notin troubled PROVE SmoothInv(t)'
        BY <2>1 DEF SmoothInv
      <3>1. \A i \in 1..Len(old) : old[i].status = "completed" \/ i = s
        BY <2>12, <1>1, <1>3 DEF SmoothInv
      <3>2. \A i \in 1..Len(new) : new[i].status = "completed"
        BY <3>1, <2>2, <2>6
      <3>3. r.pc \notin {"idp", "invitations", "invite"}
        BY <2>4
      <3>4. t \notin seeded
        BY <1>3, <1>5, <2>3 DEF SmoothInv
      <3> QED  BY <3>2, <3>3, <3>4, <2>1, <2>7, <2>12 DEF SmoothInv
    <2> QED  BY <2>1, <2>8, <2>9, <2>11, <2>13, <2>14, OneTenantMoves
  <1> QED  BY <1>4, <1>5

\* An operator meddles.
LEMMA MeddleKeeps ==
    ASSUME DemoInv, NEW t \in DemoTenants, Meddle(t)
    PROVE  DemoInv'
  <1>1. troubled' = troubled \cup {t}
        /\ UNCHANGED <<seeding, demoPack, demoFleet, demoRobots, idps, beside, seeded>>
    BY DEF Meddle
  <1>2. RowsInv(t) /\ AloneInv(t) /\ DemoRows
    BY DEF DemoInv
  <1>3. /\ hooks' \in [DemoTenants -> {0, 1}] /\ invites' \in [DemoTenants -> {0, 1}]
        /\ \A u \in DemoTenants : u # t => hooks'[u] = hooks[u] /\ invites'[u] = invites[u]
    <2>1. CASE UNCHANGED <<hooks, invites>>
      BY <2>1, <1>2 DEF DemoRows
    <2>2. CASE hooks[t] > 0 /\ hooks' = [hooks EXCEPT ![t] = @ - 1] /\ UNCHANGED invites
      BY <2>2, <1>2 DEF DemoRows
    <2>3. CASE invites[t] > 0 /\ invites' = [invites EXCEPT ![t] = @ - 1] /\ UNCHANGED hooks
      BY <2>3, <1>2 DEF DemoRows
    <2> QED  BY <2>1, <2>2, <2>3 DEF Meddle
  <1>4. /\ sessions' \in [DemoTenants -> Seq(SessionRows)] /\ Len(sessions'[t]) = Len(sessions[t])
        /\ \A u \in DemoTenants : u # t => sessions'[u] = sessions[u]
        /\ \A i \in 1..Len(sessions[t]) :
             sessions'[t][i] = sessions[t][i] \/ sessions'[t][i].status = "cancelled"
    <2>1. CASE UNCHANGED sessions
      BY <2>1, <1>2 DEF DemoRows
    <2>2. ASSUME NEW i \in DOMAIN sessions[t],
                 sessions' = [sessions EXCEPT ![t][i].status = "cancelled"]
          PROVE  /\ sessions' \in [DemoTenants -> Seq(SessionRows)] /\ Len(sessions'[t]) = Len(sessions[t])
                 /\ \A u \in DemoTenants : u # t => sessions'[u] = sessions[u]
                 /\ \A j \in 1..Len(sessions[t]) :
                      sessions'[t][j] = sessions[t][j] \/ sessions'[t][j].status = "cancelled"
      <3> DEFINE old == sessions[t]
                 was == old[i]
                 row == [was EXCEPT !.status = "cancelled"]
      <3>1. old \in Seq(SessionRows) /\ i \in 1..Len(old)
        BY <1>2 DEF DemoRows
      <3>2. row \in SessionRows /\ row.status = "cancelled"
        <4>1. was \in SessionRows
          BY <3>1
        <4> HIDE DEF was
        <4> QED  BY <4>1 DEF SessionRows
      <3>3. sessions' = [sessions EXCEPT ![t] = [old EXCEPT ![i] = row]]
        BY <2>2
      <3> HIDE DEF row
      <3>4. sessions'[t] = [old EXCEPT ![i] = row]
            /\ \A u \in DemoTenants : u # t => sessions'[u] = sessions[u]
        BY <3>3, <1>2 DEF DemoRows
      <3>5. /\ sessions'[t] \in Seq(SessionRows) /\ Len(sessions'[t]) = Len(old) /\ sessions'[t][i] = row
            /\ \A j \in 1..Len(old) : j # i => sessions'[t][j] = old[j]
        BY <3>1, <3>2, <3>4, RowReplaced
      <3>6. sessions' \in [DemoTenants -> Seq(SessionRows)]
        BY <3>3, <3>4, <3>5, <1>2 DEF DemoRows
      <3> QED  BY <3>2, <3>4, <3>5, <3>6
    <2> QED  BY <2>1, <2>2 DEF Meddle
  <1>5. DemoRows'
    BY <1>1, <1>2, <1>3, <1>4 DEF DemoRows
  <1>6. \A u \in DemoTenants : RunsOf(u)' = RunsOf(u)
    BY <1>1 DEF RunsOf
  <1>7. \A u \in DemoTenants : u # t => SameTenant(u)
    BY <1>1, <1>3, <1>4, <1>6 DEF SameTenant
  <1>8. RowsInv(t)'
    <2>1. \A i \in 1..Len(sessions[t]) :
            sessions'[t][i].status = "running" => sessions[t][i].status = "running"
      BY <1>4
    <2>2. \A q \in RunsOf(t) : RunInv(q, t)'
      BY <1>1, <1>2, <1>4 DEF RowsInv, RunInv
    <2> QED  BY <2>1, <2>2, <1>1, <1>2, <1>4, <1>6 DEF RowsInv
  <1>9. AloneInv(t)'
    <2>1. \A i \in 1..Len(sessions[t]) :
            sessions'[t][i].status = "completed" => sessions'[t][i] = sessions[t][i]
      BY <1>4
    <2> QED  BY <2>1, <1>1, <1>2, <1>4, <1>6 DEF AloneInv
  <1>10. SmoothInv(t)'
    BY <1>1 DEF SmoothInv
  <1> QED  BY <1>1, <1>5, <1>7, <1>8, <1>9, <1>10, OneTenantMoves

LEMMA DemoInvStep == DemoInv /\ [DemoNext]_seedVars => DemoInv'
  <1> SUFFICES ASSUME DemoInv, [DemoNext]_seedVars
               PROVE  DemoInv'
    OBVIOUS
  <1>1. ASSUME NEW t \in DemoTenants, Meddle(t)
        PROVE  DemoInv'
    BY <1>1, MeddleKeeps
  <1>2. ASSUME NEW p \in Seeds, NEW t \in DemoTenants, StartSeed(p, t)
        PROVE  DemoInv'
    BY <1>2, StartKeeps
  <1>3. ASSUME NEW p \in Seeds, FailSeed(p)
        PROVE  DemoInv'
    BY <1>3, StopKeeps DEF FailSeed
  <1>4. ASSUME NEW p \in Seeds,
               \/ SeedPack(p) \/ SeedFleet(p) \/ SeedRobots(p) \/ CountSessions(p)
               \/ SeedWebhook(p) \/ SeedProvider(p)
        PROVE  DemoInv'
    BY <1>4, PlainSteps
  <1>5. ASSUME NEW p \in Seeds, OpenSession(p) \/ RecordSession(p)
        PROVE  DemoInv'
    BY <1>5, OpenKeeps, RecordKeeps
  <1>6. ASSUME NEW p \in Seeds, LookForInvitation(p) \/ SeedInvitation(p)
        PROVE  DemoInv'
    BY <1>6, InvitationSteps
  <1>7. CASE UNCHANGED seedVars
    <2>1. UNCHANGED demoPack /\ DemoRows'
      BY <1>7 DEF seedVars, DemoInv, DemoRows
    <2>2. \A t \in DemoTenants : SameTenant(t)
      BY <1>7 DEF seedVars, SameTenant, RunsOf
    <2> QED  BY <2>1, <2>2, TenantStays DEF DemoInv
  <1> QED  BY <1>1, <1>2, <1>3, <1>4, <1>5, <1>6, <1>7 DEF DemoNext

LEMMA DemoInvSound == DemoInv => DemoSeedIsSound
  <1> SUFFICES ASSUME DemoInv PROVE DemoSeedIsSound
    OBVIOUS
  <1>1. DemoTypeOK
    BY RunTyped DEF DemoInv, DemoRows, RunInv, DemoTypeOK
  <1>2. OneOfEach
    <2>1. ASSUME NEW t \in DemoTenants
          PROVE  /\ hooks[t] <= 1 /\ idps[t] <= 1 /\ invites[t] <= 1
                 /\ Cardinality({i \in DOMAIN sessions[t] : sessions[t][i].status = "running"}) <= 1
      <3> DEFINE S == {i \in DOMAIN sessions[t] : sessions[t][i].status = "running"}
      <3>1. \A x \in S : \A y \in S : x = y
        BY DEF DemoInv, DemoRows, RowsInv
      <3>2. Cardinality(S) <= 1
        BY <3>1, OneAtMost
      <3> HIDE DEF S
      <3>3. hooks[t] \in {0, 1} /\ idps[t] \in {0, 1} /\ invites[t] \in {0, 1}
        BY DEF DemoInv, DemoRows
      <3> QED  BY <3>2, <3>3 DEF S
    <2> QED  BY <2>1 DEF OneOfEach
  <1>3. OneDrift
    BY DEF DemoInv, DemoRows, AloneInv, OneDrift
  <1>4. OnlyTheOwnerIsSeeded
    BY DEF DemoInv, DemoRows, RowsInv, OnlyTheOwnerIsSeeded
  <1>5. SeededMeansWhole
    <2>1. ASSUME NEW t \in seeded \ (troubled \cup beside)
          PROVE  /\ t \in demoRobots /\ hooks[t] = 1 /\ idps[t] = 1 /\ invites[t] = 1
                 /\ Len(sessions[t]) = WantedSessions
                 /\ \A i \in DOMAIN sessions[t] : sessions[t][i].status = "completed"
                 /\ sessions[t][WantedSessions].drift
      <3>1. t \in DemoTenants /\ SmoothInv(t) /\ AloneInv(t) /\ sessions[t] \in Seq(SessionRows)
        BY DEF DemoInv, DemoRows
      <3>2. WantedSessions \in 1..Len(sessions[t])
        BY <3>1, SeedAssumption DEF SmoothInv
      <3>3. sessions[t][WantedSessions].status = "completed"
        BY <3>1, <3>2 DEF SmoothInv
      <3> QED  BY <3>1, <3>2, <3>3 DEF SmoothInv, AloneInv
    <2> QED  BY <2>1 DEF SeededMeansWhole
  <1> QED  BY <1>1, <1>2, <1>3, <1>4, <1>5 DEF DemoSeedIsSound

\* However often the demonstration data is made, whatever fails, and whoever meddles or
\* runs it beside: it is there once and in its owner's tenant, one run after another leaves
\* the drift in the last session, and a run that met no trouble leaves all of it.
THEOREM DemonstrationCorrect == DemoSpec => []DemoSeedIsSound
  <1>1. DemoSpec => []DemoInv
    BY DemoInvInit, DemoInvStep, PTL DEF DemoSpec
  <1> QED  BY <1>1, DemoInvSound, PTL

--------------------------------------------------------------------------------
(* Robots, credentials and host keys. *)

Holding == {"delete", "rotate", "material", "unwrapped", "missing"}
CallTypes ==
    {NoCall}
    \cup [at : {"create"}, robot : RobotIds, cred : {NoCredential}]
    \cup [at : Holding, robot : RobotIds, cred : Credentials]
    \cup [at : {"connect"}, robot : RobotIds, key : HostKeys, trusted : SUBSET HostKeys]
    \cup [at : {"record"}, robot : RobotIds, key : HostKeys, seen : SUBSET HostKeys]
Connections == {NoConnection} \cup [at : {"accepted", "failed"}, robot : RobotIds, key : HostKeys]
TrustStates == {"trusted", "revoked"}

RobotRows ==
    /\ robotDb \in {"sqlite", "postgres"}
    /\ robot \in [RobotIds -> {"none", "live", "deleted"}]
    /\ credOf \in [RobotIds -> Credentials \cup {NoCredential}]
    /\ credential \in [Credentials -> {"none", "active", "revoked"}]
    /\ known \in [RobotIds -> SUBSET (HostKeys \X TrustStates)]
    /\ verified \in [RobotIds -> SUBSET (HostKeys \X HostKeys)]
    /\ robotCall \in [RobotCalls -> CallTypes]
    /\ connected \in Connections

\* A credential is of one robot for ever: whoever else is live does not log in with it.
CredentialInv ==
    /\ \A r \in RobotIds :
         /\ robot[r] = "live" => credOf[r] \in Credentials /\ credential[credOf[r]] = "active"
         /\ credOf[r] \in Credentials => credential[credOf[r]] # "none"
         /\ \A s \in RobotIds : credOf[r] = credOf[s] /\ credOf[r] # NoCredential => r = s
    /\ \A q \in RobotCalls : robotCall[q].at \in Holding =>
         /\ credential[robotCall[q].cred] # "none"
         /\ \A s \in RobotIds : credOf[s] = robotCall[q].cred => s = robotCall[q].robot

\* One row a fingerprint, in the order of their last verification, and what a dial has
\* read is still on record.
KeyInv ==
    /\ \A r \in RobotIds :
         /\ \A x \in known[r] : \A y \in known[r] : x[1] = y[1] => x = y
         /\ \A k \in Fingerprints(r) : \A m \in Fingerprints(r) :
              k # m => (<<k, m>> \in verified[r] <=> <<m, k>> \notin verified[r])
    /\ \A q \in RobotCalls : \A r \in RobotIds :
         robotCall[q].at = "connect" /\ robotCall[q].robot = r => robotCall[q].trusted \subseteq Fingerprints(r)
    /\ \A r \in RobotIds :
         connected.at = "accepted" /\ connected.robot = r => connected.key \in Fingerprints(r)

\* On SQLite a request is alone, and what it has read still holds.
AloneRows ==
    robotDb = "sqlite" =>
        /\ \A p \in RobotCalls : \A q \in RobotCalls :
             robotCall[p] # NoCall /\ robotCall[q] # NoCall => p = q
        /\ \A c \in Credentials : credential[c] = "active" =>
             \E r \in RobotIds : robot[r] = "live" /\ credOf[r] = c
        /\ \A r \in RobotIds : \A k \in TrustedRows(r) : \A m \in TrustedRows(r) : k = m
        /\ \A q \in RobotCalls : \A r \in RobotIds : robotCall[q].robot = r =>
             /\ robotCall[q].at \in {"delete", "rotate"} => robot[r] = "live" /\ credOf[r] = robotCall[q].cred
             /\ robotCall[q].at = "connect" /\ robotCall[q].trusted = {} => TrustedRows(r) = {}
             /\ robotCall[q].at = "record" => TrustedRows(r) = {}

RobotInv == RobotRows /\ CredentialInv /\ KeyInv /\ AloneRows

\* A request is somewhere.
LEMMA CallTyped ==
    ASSUME RobotRows, NEW q \in RobotCalls
    PROVE  /\ robotCall[q].at = "create" =>
                robotCall[q] \in [at : {"create"}, robot : RobotIds, cred : {NoCredential}]
           /\ robotCall[q].at \in Holding =>
                robotCall[q] \in [at : Holding, robot : RobotIds, cred : Credentials]
           /\ robotCall[q].at = "connect" =>
                robotCall[q] \in [at : {"connect"}, robot : RobotIds, key : HostKeys, trusted : SUBSET HostKeys]
           /\ robotCall[q].at = "record" =>
                robotCall[q] \in [at : {"record"}, robot : RobotIds, key : HostKeys, seen : SUBSET HostKeys]
           /\ robotCall[q].at # "idle" => robotCall[q] # NoCall
           /\ NoCall.at = "idle"
  BY DEF RobotRows, CallTypes, Holding, NoCall

LEMMA CallMoves ==
    ASSUME RobotRows, NEW q \in RobotCalls, NEW next \in CallTypes,
           robotCall' = [robotCall EXCEPT ![q] = next]
    PROVE  /\ robotCall' \in [RobotCalls -> CallTypes] /\ robotCall'[q] = next
           /\ \A p \in RobotCalls : p # q => robotCall'[p] = robotCall[p]
  BY DEF RobotRows

\* The trusted rows are on record.
LEMMA TrustedOnRecord ==
    ASSUME NEW r \in RobotIds
    PROVE  TrustedKey(r) \subseteq TrustedRows(r) /\ TrustedRows(r) \subseteq Fingerprints(r)
             /\ TrustedRows(r) \subseteq HostKeys
  <1>1. ASSUME NEW k \in TrustedRows(r)
        PROVE  k \in Fingerprints(r)
    <2>1. <<k, "trusted">> \in known[r] /\ <<k, "trusted">>[1] = k
      BY DEF TrustedRows
    <2> QED  BY <2>1 DEF Fingerprints
  <1> QED  BY <1>1 DEF TrustedKey, TrustedRows

LEMMA RobotInvInit == RobotInit => RobotInv
  <1> SUFFICES ASSUME RobotInit PROVE RobotInv
    OBVIOUS
  <1>1. RobotRows
    BY DEF RobotInit, RobotRows, CallTypes, Connections
  <1>2. \A q \in RobotCalls : robotCall[q] = NoCall /\ robotCall[q].at = "idle"
    BY DEF RobotInit, NoCall
  <1>3. CredentialInv
    BY <1>2 DEF RobotInit, CredentialInv, Holding, NoCredential, Credentials
  <1>4. KeyInv
    BY <1>2 DEF RobotInit, KeyInv, Fingerprints, NoConnection
  <1>5. AloneRows
    BY <1>2 DEF RobotInit, AloneRows, TrustedRows
  <1> QED  BY <1>1, <1>3, <1>4, <1>5 DEF RobotInv

--------------------------------------------------------------------------------
(* Requests that read. *)

\* A request opens, or goes on, and nothing but its place changes.
LEMMA CallStepKeeps ==
    ASSUME RobotInv, NEW q \in RobotCalls, NEW next \in CallTypes,
           robotCall' = [robotCall EXCEPT ![q] = next],
           UNCHANGED <<robotDb, robot, credOf, credential, known, verified, connected>>,
           robotDb = "sqlite" /\ next # NoCall =>
             \A p \in RobotCalls : p # q => robotCall[p] = NoCall,
           next.at \in Holding =>
             /\ credential[next.cred] # "none"
             /\ \A s \in RobotIds : credOf[s] = next.cred => s = next.robot,
           \A r \in RobotIds : next.robot = r =>
             /\ next.at = "connect" => next.trusted \subseteq Fingerprints(r)
             /\ robotDb = "sqlite" =>
                  /\ next.at \in {"delete", "rotate"} => robot[r] = "live" /\ credOf[r] = next.cred
                  /\ next.at = "connect" /\ next.trusted = {} => TrustedRows(r) = {}
                  /\ next.at = "record" => TrustedRows(r) = {}
    PROVE  RobotInv'
  <1>1. /\ robotCall' \in [RobotCalls -> CallTypes] /\ robotCall'[q] = next
        /\ \A p \in RobotCalls : p # q => robotCall'[p] = robotCall[p]
    BY CallMoves DEF RobotInv
  <1>2. RobotRows'
    BY <1>1 DEF RobotInv, RobotRows
  <1>3. \A r \in RobotIds : Fingerprints(r)' = Fingerprints(r) /\ TrustedRows(r)' = TrustedRows(r)
    BY DEF Fingerprints, TrustedRows
  <1>4. CredentialInv'
    BY <1>1 DEF RobotInv, CredentialInv
  <1>5. KeyInv'
    <2>2. ASSUME NEW p \in RobotCalls, NEW r \in RobotIds,
                 robotCall'[p].at = "connect", robotCall'[p].robot = r
          PROVE  robotCall'[p].trusted \subseteq Fingerprints(r)
      BY <2>2, <1>1 DEF RobotInv, KeyInv
    <2>3. \A r \in RobotIds :
            /\ \A x \in known'[r] : \A y \in known'[r] : x[1] = y[1] => x = y
            /\ \A k \in Fingerprints(r) : \A m \in Fingerprints(r) :
                 k # m => (<<k, m>> \in verified'[r] <=> <<m, k>> \notin verified'[r])
            /\ connected'.at = "accepted" /\ connected'.robot = r => connected'.key \in Fingerprints(r)
      BY DEF RobotInv, KeyInv
    <2> QED  BY <2>2, <2>3, <1>3 DEF KeyInv
  <1>6. AloneRows'
    <2> SUFFICES ASSUME robotDb = "sqlite" PROVE AloneRows'
      BY DEF AloneRows
    <2>1. \A p \in RobotCalls : \A p2 \in RobotCalls :
            robotCall'[p] # NoCall /\ robotCall'[p2] # NoCall => p = p2
      BY <1>1 DEF RobotInv, AloneRows
    <2>2. ASSUME NEW p \in RobotCalls, NEW r \in RobotIds, robotCall'[p].robot = r
          PROVE  /\ robotCall'[p].at \in {"delete", "rotate"} => robot[r] = "live" /\ credOf[r] = robotCall'[p].cred
                 /\ robotCall'[p].at = "connect" /\ robotCall'[p].trusted = {} => TrustedRows(r) = {}
                 /\ robotCall'[p].at = "record" => TrustedRows(r) = {}
      BY <2>2, <1>1 DEF RobotInv, AloneRows
    <2>3. /\ \A c \in Credentials : credential[c] = "active" =>
               \E r \in RobotIds : robot[r] = "live" /\ credOf[r] = c
          /\ \A r \in RobotIds : \A k \in TrustedRows(r) : \A m \in TrustedRows(r) : k = m
      BY DEF RobotInv, AloneRows
    <2> QED  BY <2>1, <2>2, <2>3, <1>3 DEF AloneRows
  <1> QED  BY <1>2, <1>4, <1>5, <1>6 DEF RobotInv


\* A request that opens is alone on SQLite, and one that is under way was.
LEMMA OpensAlone ==
    ASSUME RobotInv, NEW q \in RobotCalls, Open(q) \/ robotCall[q] # NoCall
    PROVE  robotDb = "sqlite" => \A p \in RobotCalls : p # q => robotCall[p] = NoCall
  BY DEF RobotInv, AloneRows, Open

LEMMA ReadsKeep ==
    ASSUME RobotInv, NEW q \in RobotCalls,
           \/ \E r \in RobotIds : BeginCreate(q, r)
           \/ \E r \in RobotIds, op \in {"delete", "rotate", "material"} : BeginChange(q, r, op)
           \/ \E r \in RobotIds, k \in HostKeys : BeginConnect(q, r, k)
    PROVE  RobotInv'
  <1>1. ASSUME NEW r \in RobotIds, BeginCreate(q, r)
        PROVE  RobotInv'
    <2> DEFINE next == [at |-> "create", robot |-> r, cred |-> NoCredential]
    <2>1. next \in CallTypes /\ next.at = "create" /\ next.at \notin Holding
      BY DEF CallTypes, Holding
    <2>2. /\ robotCall' = [robotCall EXCEPT ![q] = next] /\ Open(q)
          /\ UNCHANGED <<robotDb, robot, credOf, credential, known, verified, connected>>
      BY <1>1 DEF BeginCreate, Reads
    <2> HIDE DEF next
    <2> QED  BY <2>1, <2>2, OpensAlone, CallStepKeeps
  <1>2. ASSUME NEW r \in RobotIds, NEW op \in {"delete", "rotate", "material"}, BeginChange(q, r, op)
        PROVE  RobotInv'
    <2> DEFINE next == [at |-> op, robot |-> r, cred |-> credOf[r]]
    <2>1. robot[r] = "live" /\ credOf[r] \in Credentials /\ credential[credOf[r]] # "none"
      BY <1>2 DEF BeginChange, RobotInv, CredentialInv
    <2>2. next \in CallTypes /\ next.at = op /\ next.robot = r /\ next.cred = credOf[r]
      BY <2>1 DEF CallTypes, Holding
    <2>3. /\ robotCall' = [robotCall EXCEPT ![q] = next] /\ Open(q)
          /\ UNCHANGED <<robotDb, robot, credOf, credential, known, verified, connected>>
      BY <1>2 DEF BeginChange, Reads
    <2> HIDE DEF next
    <2>4. \A s \in RobotIds : credOf[s] = next.cred => s = next.robot
      BY <2>1, <2>2 DEF RobotInv, CredentialInv, Credentials, NoCredential
    <2>5. next.at # "connect" /\ next.at # "record"
      BY <2>2
    <2> QED  BY <2>1, <2>2, <2>3, <2>4, <2>5, OpensAlone, CallStepKeeps
  <1>3. ASSUME NEW r \in RobotIds, NEW k \in HostKeys, BeginConnect(q, r, k)
        PROVE  RobotInv'
    <2> DEFINE read == TrustedKey(r)
               next == [at |-> "connect", robot |-> r, key |-> k, trusted |-> read]
    <2>1. read \subseteq Fingerprints(r) /\ read \subseteq HostKeys
      BY TrustedOnRecord
    <2>2. robotDb = "sqlite" /\ read = {} => TrustedRows(r) = {}
      <3> SUFFICES ASSUME robotDb = "sqlite", NEW m \in TrustedRows(r)
                   PROVE  read # {}
        OBVIOUS
      <3>1. \A x \in TrustedRows(r) : x = m
        BY DEF RobotInv, AloneRows
      <3> QED  BY <3>1 DEF TrustedKey
    <2>3. /\ robotCall' = [robotCall EXCEPT ![q] = next] /\ Open(q)
          /\ UNCHANGED <<robotDb, robot, credOf, credential, known, verified, connected>>
      BY <1>3 DEF BeginConnect, Reads
    <2> HIDE DEF read
    <2>4. next \in CallTypes /\ next.at = "connect" /\ next.robot = r /\ next.trusted = read
      BY <2>1 DEF CallTypes
    <2>5. next.at \notin Holding /\ next.at \notin {"delete", "rotate", "record"}
      BY DEF Holding
    <2> HIDE DEF next
    <2> QED  BY <2>1, <2>2, <2>3, <2>4, <2>5, OpensAlone, CallStepKeeps
  <1> QED  BY <1>1, <1>2, <1>3

LEMMA PlacesKeep ==
    ASSUME RobotInv, NEW q \in RobotCalls, SelectByFingerprint(q) \/ ReadMaterial(q) \/ UseMaterial(q)
    PROVE  RobotInv'
  <1>1. RobotRows
    BY DEF RobotInv
  <1>2. CASE SelectByFingerprint(q)
    <2> DEFINE r == robotCall[q].robot
               k == robotCall[q].key
               found == Fingerprints(r)
               next == [at |-> "record", robot |-> r, key |-> k, seen |-> found]
    <2>1. robotCall[q].at = "connect" /\ robotCall[q].trusted = {} /\ robotCall[q] # NoCall
      BY <1>1, <1>2, CallTyped DEF SelectByFingerprint
    <2>2. r \in RobotIds /\ k \in HostKeys
      BY <1>1, <2>1, CallTyped
    <2>3. found \subseteq HostKeys
      BY <1>1, <2>2 DEF RobotRows, Fingerprints
    <2>4. robotCall' = [robotCall EXCEPT ![q] = next]
          /\ UNCHANGED <<robotDb, robot, credOf, credential, known, verified, connected>>
      BY <1>2 DEF SelectByFingerprint
    <2>5. robotDb = "sqlite" => TrustedRows(r) = {}
      BY <2>1, <2>2 DEF RobotInv, AloneRows
    <2> HIDE DEF r, k, found
    <2>6. next \in CallTypes /\ next.at = "record" /\ next.robot = r
      BY <2>2, <2>3 DEF CallTypes
    <2>7. next.at \notin Holding /\ next.at \notin {"delete", "rotate", "connect"}
      BY DEF Holding
    <2> HIDE DEF next
    <2> QED  BY <2>1, <2>4, <2>5, <2>6, <2>7, OpensAlone, CallStepKeeps
  <1>3. CASE ReadMaterial(q)
    <2> DEFINE r == robotCall[q].robot
               c == robotCall[q].cred
               place == IF credential[c] = "active" THEN "unwrapped" ELSE "missing"
               next == [at |-> place, robot |-> r, cred |-> c]
    <2>1. robotCall[q].at = "material" /\ robotCall[q].at \in Holding /\ robotCall[q] # NoCall
      BY <1>1, <1>3, CallTyped DEF ReadMaterial, Holding
    <2>2. r \in RobotIds /\ c \in Credentials /\ place \in {"unwrapped", "missing"}
      BY <1>1, <2>1, CallTyped
    <2>3. robotCall' = [robotCall EXCEPT ![q] = next]
          /\ UNCHANGED <<robotDb, robot, credOf, credential, known, verified, connected>>
      BY <1>3 DEF ReadMaterial
    <2>4. credential[c] # "none" /\ \A s \in RobotIds : credOf[s] = c => s = r
      BY <2>1 DEF RobotInv, CredentialInv
    <2> HIDE DEF r, c, place
    <2>5. next \in CallTypes /\ next.at = place /\ next.robot = r /\ next.cred = c
      BY <2>2 DEF CallTypes, Holding
    <2>6. next.at \notin {"delete", "rotate", "connect", "record"}
      BY <2>2, <2>5
    <2> HIDE DEF next
    <2> QED  BY <2>1, <2>3, <2>4, <2>5, <2>6, OpensAlone, CallStepKeeps
  <1>4. CASE UseMaterial(q)
    <2>1. NoCall \in CallTypes /\ NoCall.at = "idle" /\ NoCall.at \notin Holding
      BY DEF CallTypes, NoCall, Holding
    <2> QED  BY <1>4, <2>1, CallStepKeeps DEF UseMaterial, Close
  <1> QED  BY <1>2, <1>3, <1>4

--------------------------------------------------------------------------------
(* Requests that write rows of robots and credentials. *)

\* A request that is over: the others stay where they are.
LEMMA CallCloses ==
    ASSUME RobotRows, NEW q \in RobotCalls, Close(q)
    PROVE  /\ robotCall' \in [RobotCalls -> CallTypes] /\ robotCall'[q] = NoCall
           /\ robotCall'[q].at = "idle"
           /\ \A p \in RobotCalls : p # q => robotCall'[p] = robotCall[p]
  BY DEF RobotRows, Close, CallTypes, NoCall

\* A request that leaves the rows alone.
LEMMA DialFails ==
    ASSUME RobotInv, NEW q \in RobotCalls, Close(q), UNCHANGED <<known, verified>>,
           \A s \in RobotIds : connected'.at = "accepted" /\ connected'.robot = s => connected'.key \in Fingerprints(s)
    PROVE  KeyInv'
  <1>1. /\ robotCall'[q].at = "idle"
        /\ \A p \in RobotCalls : p # q => robotCall'[p] = robotCall[p]
    BY CallCloses DEF RobotInv
  <1>2. \A r \in RobotIds : Fingerprints(r)' = Fingerprints(r)
    BY DEF Fingerprints
  <1>3. \A p \in RobotCalls : \A r \in RobotIds :
          robotCall'[p].at = "connect" /\ robotCall'[p].robot = r => robotCall'[p].trusted \subseteq Fingerprints(r)
    BY <1>1 DEF RobotInv, KeyInv
  <1>4. \A r \in RobotIds :
          /\ \A x \in known'[r] : \A y \in known'[r] : x[1] = y[1] => x = y
          /\ \A k \in Fingerprints(r) : \A m \in Fingerprints(r) :
               k # m => (<<k, m>> \in verified'[r] <=> <<m, k>> \notin verified'[r])
    BY DEF RobotInv, KeyInv
  <1> QED  BY <1>2, <1>3, <1>4 DEF KeyInv

\* What a request about a credential leaves of the host keys.
LEMMA KeysStay ==
    ASSUME RobotInv, NEW q \in RobotCalls, Close(q), UNCHANGED <<known, verified, connected>>
    PROVE  KeyInv'
  BY DialFails DEF RobotInv, KeyInv

\* On SQLite nobody else was under way, so that the rows are all there is to look at.
LEMMA AloneAfter ==
    ASSUME RobotInv, NEW q \in RobotCalls, Close(q), robotCall[q] # NoCall, UNCHANGED robotDb,
           robotDb = "sqlite" =>
             /\ \A c \in Credentials : credential'[c] = "active" =>
                  \E r \in RobotIds : robot'[r] = "live" /\ credOf'[r] = c
             /\ \A r \in RobotIds : \A k \in TrustedRows(r)' : \A m \in TrustedRows(r)' : k = m
    PROVE  AloneRows'
  <1> SUFFICES ASSUME robotDb = "sqlite" PROVE AloneRows'
    BY DEF AloneRows
  <1>1. \A p \in RobotCalls : robotCall'[p] = NoCall /\ robotCall'[p].at = "idle"
    BY OpensAlone, CallCloses, CallTyped DEF RobotInv
  <1> QED  BY <1>1 DEF AloneRows

LEMMA FreshIsUnused ==
    ASSUME NEW c \in Fresh
    PROVE  c \in Credentials /\ credential[c] = "none"
  BY DEF Fresh

LEMMA TrustedStays ==
    ASSUME RobotInv, UNCHANGED known
    PROVE  robotDb = "sqlite" => \A s \in RobotIds : \A k \in TrustedRows(s)' : \A m \in TrustedRows(s)' : k = m
  <1>1. \A s : TrustedRows(s)' = TrustedRows(s)
    BY DEF TrustedRows
  <1> QED  BY <1>1 DEF RobotInv, AloneRows

LEMMA CreateKeeps ==
    ASSUME RobotInv, NEW q \in RobotCalls, CreateRobot(q)
    PROVE  RobotInv'
  <1>1. RobotRows /\ CredentialInv /\ robotCall[q].at = "create" /\ robotCall[q] # NoCall
    BY CallTyped DEF RobotInv, CreateRobot
  <1>2. PICK r \in RobotIds : robotCall[q].robot = r
    BY <1>1, CallTyped
  <1>3. /\ robotCall' \in [RobotCalls -> CallTypes] /\ robotCall'[q].at = "idle"
        /\ \A p \in RobotCalls : p # q => robotCall'[p] = robotCall[p]
        /\ Close(q) /\ UNCHANGED <<robotDb, known, verified, connected>>
    BY <1>1, CallCloses DEF CreateRobot
  <1>4. KeyInv'
    BY <1>3, KeysStay
  <1>5. robotDb = "sqlite" => \A s \in RobotIds : \A k \in TrustedRows(s)' : \A m \in TrustedRows(s)' : k = m
    BY <1>3, TrustedStays
  <1>6. CASE robot[r] = "none"
    <2>1. PICK c \in Fresh :
            /\ credential' = [credential EXCEPT ![c] = "active"]
            /\ credOf' = [credOf EXCEPT ![r] = c]
            /\ robot' = [robot EXCEPT ![r] = "live"]
      BY <1>2, <1>6 DEF CreateRobot
    <2>2. c \in Credentials /\ credential[c] = "none" /\ c # NoCredential
      BY FreshIsUnused DEF Credentials, NoCredential
    <2>3. /\ credential'[c] = "active" /\ \A d \in Credentials : d # c => credential'[d] = credential[d]
          /\ credOf'[r] = c /\ \A s \in RobotIds : s # r => credOf'[s] = credOf[s]
          /\ robot'[r] = "live" /\ \A s \in RobotIds : s # r => robot'[s] = robot[s]
      BY <1>1, <2>1, <2>2 DEF RobotRows
    <2>4. RobotRows'
      BY <1>1, <1>3, <2>1, <2>2 DEF RobotRows
    <2>5. CredentialInv'
      <3>1. \A s \in RobotIds : credOf[s] # c
        BY <1>1, <2>2 DEF CredentialInv
      <3>2. ASSUME NEW s \in RobotIds
            PROVE  /\ robot'[s] = "live" => credOf'[s] \in Credentials /\ credential'[credOf'[s]] = "active"
                   /\ credOf'[s] \in Credentials => credential'[credOf'[s]] # "none"
                   /\ \A u \in RobotIds : credOf'[s] = credOf'[u] /\ credOf'[s] # NoCredential => s = u
        <4>1. CASE s = r
          BY <4>1, <2>2, <2>3, <3>1
        <4>2. CASE s # r
          BY <4>2, <1>1, <2>2, <2>3, <3>1 DEF CredentialInv
        <4> QED  BY <4>1, <4>2
      <3>3. ASSUME NEW p \in RobotCalls, robotCall'[p].at \in Holding
            PROVE  /\ credential'[robotCall'[p].cred] # "none"
                   /\ \A s \in RobotIds : credOf'[s] = robotCall'[p].cred => s = robotCall'[p].robot
        <4>1. p # q /\ robotCall'[p] = robotCall[p] /\ robotCall[p].at \in Holding
          BY <3>3, <1>3 DEF Holding
        <4>2. /\ credential[robotCall[p].cred] # "none" /\ robotCall[p].cred \in Credentials
              /\ \A s \in RobotIds : credOf[s] = robotCall[p].cred => s = robotCall[p].robot
          BY <4>1, <1>1, CallTyped DEF CredentialInv
        <4>3. robotCall[p].cred # c
          BY <4>2, <2>2
        <4> QED  BY <4>1, <4>2, <4>3, <2>3
      <3> QED  BY <3>2, <3>3 DEF CredentialInv
    <2>6. ASSUME robotDb = "sqlite", NEW d \in Credentials, credential'[d] = "active"
          PROVE  \E s \in RobotIds : robot'[s] = "live" /\ credOf'[s] = d
      <3>1. CASE d = c
        BY <3>1, <2>3
      <3>2. CASE d # c
        <4>1. PICK s \in RobotIds : robot[s] = "live" /\ credOf[s] = d
          BY <3>2, <2>3, <2>6 DEF RobotInv, AloneRows
        <4> QED  BY <4>1, <1>6, <2>3
      <3> QED  BY <3>1, <3>2
    <2>7. AloneRows'
      BY <1>1, <1>3, <1>5, <2>6, AloneAfter
    <2> QED  BY <1>4, <2>4, <2>5, <2>7 DEF RobotInv
  <1>7. CASE robot[r] # "none"
    <2>1. UNCHANGED <<robot, credOf, credential>>
      BY <1>2, <1>7 DEF CreateRobot
    <2>2. RobotRows'
      BY <1>1, <1>3, <2>1 DEF RobotRows
    <2>3. CredentialInv'
      BY <1>1, <1>3, <2>1 DEF CredentialInv, Holding
    <2>4. AloneRows'
      <3>1. robotDb = "sqlite" => \A c \in Credentials : credential'[c] = "active" =>
              \E s \in RobotIds : robot'[s] = "live" /\ credOf'[s] = c
        BY <2>1 DEF RobotInv, AloneRows
      <3> QED  BY <3>1, <1>1, <1>3, <1>5, AloneAfter
    <2> QED  BY <1>4, <2>2, <2>3, <2>4 DEF RobotInv
  <1> QED  BY <1>6, <1>7


LEMMA DeleteKeeps ==
    ASSUME RobotInv, NEW q \in RobotCalls, DeleteRobot(q)
    PROVE  RobotInv'
  <1>1. RobotRows /\ CredentialInv /\ robotCall[q].at = "delete" /\ robotCall[q].at \in Holding
          /\ robotCall[q] # NoCall
    BY CallTyped DEF RobotInv, DeleteRobot, Holding
  <1>2. PICK r \in RobotIds : robotCall[q].robot = r
    BY <1>1, CallTyped
  <1>3. PICK d \in Credentials : robotCall[q].cred = d
    BY <1>1, CallTyped
  <1>4. /\ robotCall' \in [RobotCalls -> CallTypes] /\ robotCall'[q].at = "idle"
        /\ \A p \in RobotCalls : p # q => robotCall'[p] = robotCall[p]
        /\ Close(q) /\ UNCHANGED <<robotDb, credOf, known, verified, connected>>
    BY <1>1, CallCloses DEF DeleteRobot
  <1>5. KeyInv'
    BY <1>4, KeysStay
  <1>6. robotDb = "sqlite" => \A s \in RobotIds : \A k \in TrustedRows(s)' : \A m \in TrustedRows(s)' : k = m
    BY <1>4, TrustedStays
  <1>7. CASE robot[r] = "live"
    <2>1. robot' = [robot EXCEPT ![r] = "deleted"] /\ credential' = [credential EXCEPT ![d] = "revoked"]
      BY <1>2, <1>3, <1>7 DEF DeleteRobot
    <2>2. /\ credential'[d] = "revoked" /\ \A c \in Credentials : c # d => credential'[c] = credential[c]
          /\ robot'[r] = "deleted" /\ \A s \in RobotIds : s # r => robot'[s] = robot[s]
      BY <1>1, <2>1 DEF RobotRows
    <2>3. RobotRows'
      BY <1>1, <1>4, <2>1 DEF RobotRows
    <2>4. \A s \in RobotIds : credOf[s] = d => s = r
      BY <1>1, <1>2, <1>3 DEF CredentialInv
    <2>5. CredentialInv'
      <3>1. ASSUME NEW s \in RobotIds
            PROVE  /\ robot'[s] = "live" => credOf[s] \in Credentials /\ credential'[credOf[s]] = "active"
                   /\ credOf[s] \in Credentials => credential'[credOf[s]] # "none"
                   /\ \A u \in RobotIds : credOf[s] = credOf[u] /\ credOf[s] # NoCredential => s = u
        BY <1>1, <2>2, <2>4 DEF CredentialInv
      <3>2. ASSUME NEW p \in RobotCalls, robotCall'[p].at \in Holding
            PROVE  /\ credential'[robotCall'[p].cred] # "none"
                   /\ \A s \in RobotIds : credOf[s] = robotCall'[p].cred => s = robotCall'[p].robot
        <4>1. p # q /\ robotCall'[p] = robotCall[p] /\ robotCall[p].at \in Holding
          BY <3>2, <1>4 DEF Holding
        <4>2. /\ credential[robotCall[p].cred] # "none" /\ robotCall[p].cred \in Credentials
              /\ \A s \in RobotIds : credOf[s] = robotCall[p].cred => s = robotCall[p].robot
          BY <4>1, <1>1, CallTyped DEF CredentialInv
        <4> QED  BY <4>1, <4>2, <2>2
      <3> QED  BY <3>1, <3>2, <1>4 DEF CredentialInv
    <2>6. ASSUME robotDb = "sqlite", NEW c \in Credentials, credential'[c] = "active"
          PROVE  \E s \in RobotIds : robot'[s] = "live" /\ credOf'[s] = c
      <3>1. c # d /\ credential[c] = "active" /\ credOf[r] = d
        BY <2>2, <2>6, <1>1, <1>2, <1>3 DEF RobotInv, AloneRows
      <3>2. PICK s \in RobotIds : robot[s] = "live" /\ credOf[s] = c
        BY <3>1, <2>6 DEF RobotInv, AloneRows
      <3> QED  BY <3>1, <3>2, <2>2, <1>4
    <2>7. AloneRows'
      BY <1>1, <1>4, <1>6, <2>6, AloneAfter
    <2> QED  BY <1>5, <2>3, <2>5, <2>7 DEF RobotInv
  <1>8. CASE robot[r] # "live"
    <2>1. UNCHANGED <<robot, credential>>
      BY <1>2, <1>8 DEF DeleteRobot
    <2>2. RobotRows'
      BY <1>1, <1>4, <2>1 DEF RobotRows
    <2>3. CredentialInv'
      BY <1>1, <1>4, <2>1 DEF CredentialInv, Holding
    <2>4. AloneRows'
      <3>1. robotDb = "sqlite" => \A c \in Credentials : credential'[c] = "active" =>
              \E s \in RobotIds : robot'[s] = "live" /\ credOf'[s] = c
        BY <1>4, <2>1 DEF RobotInv, AloneRows
      <3> QED  BY <3>1, <1>1, <1>4, <1>6, AloneAfter
    <2> QED  BY <1>5, <2>2, <2>3, <2>4 DEF RobotInv
  <1> QED  BY <1>7, <1>8

LEMMA RotateKeeps ==
    ASSUME RobotInv, NEW q \in RobotCalls, RotateCredential(q)
    PROVE  RobotInv'
  <1>1. RobotRows /\ CredentialInv /\ robotCall[q].at = "rotate" /\ robotCall[q].at \in Holding
          /\ robotCall[q] # NoCall
    BY CallTyped DEF RobotInv, RotateCredential, Holding
  <1>2. PICK r \in RobotIds : robotCall[q].robot = r
    BY <1>1, CallTyped
  <1>3. PICK d \in Credentials : robotCall[q].cred = d
    BY <1>1, CallTyped
  <1>4. /\ robotCall' \in [RobotCalls -> CallTypes] /\ robotCall'[q].at = "idle"
        /\ \A p \in RobotCalls : p # q => robotCall'[p] = robotCall[p]
        /\ Close(q) /\ UNCHANGED <<robotDb, robot, known, verified, connected>>
    BY <1>1, CallCloses DEF RotateCredential
  <1>5. PICK c \in Fresh :
          /\ credential' = [credential EXCEPT ![c] = "active", ![d] = "revoked"]
          /\ credOf' = [credOf EXCEPT ![r] = c]
    BY <1>2, <1>3 DEF RotateCredential
  <1>6. c \in Credentials /\ credential[c] = "none" /\ c # NoCredential
    BY FreshIsUnused DEF Credentials, NoCredential
  <1>7. /\ credential[d] # "none" /\ d # c
        /\ \A s \in RobotIds : credOf[s] = d => s = r
        /\ \A s \in RobotIds : credOf[s] # c
    BY <1>1, <1>2, <1>3, <1>6 DEF CredentialInv
  <1>8. /\ credential'[c] = "active" /\ credential'[d] = "revoked"
        /\ \A e \in Credentials : e # c /\ e # d => credential'[e] = credential[e]
        /\ credOf'[r] = c /\ \A s \in RobotIds : s # r => credOf'[s] = credOf[s]
    BY <1>1, <1>5, <1>6, <1>7 DEF RobotRows
  <1>9. RobotRows'
    BY <1>1, <1>4, <1>5, <1>6 DEF RobotRows
  <1>10. CredentialInv'
    <2>1. ASSUME NEW s \in RobotIds
          PROVE  /\ robot[s] = "live" => credOf'[s] \in Credentials /\ credential'[credOf'[s]] = "active"
                 /\ credOf'[s] \in Credentials => credential'[credOf'[s]] # "none"
                 /\ \A u \in RobotIds : credOf'[s] = credOf'[u] /\ credOf'[s] # NoCredential => s = u
      <3>1. CASE s = r
        BY <3>1, <1>6, <1>7, <1>8
      <3>2. CASE s # r
        BY <3>2, <1>1, <1>6, <1>7, <1>8 DEF CredentialInv
      <3> QED  BY <3>1, <3>2
    <2>2. ASSUME NEW p \in RobotCalls, robotCall'[p].at \in Holding
          PROVE  /\ credential'[robotCall'[p].cred] # "none"
                 /\ \A s \in RobotIds : credOf'[s] = robotCall'[p].cred => s = robotCall'[p].robot
      <3>1. p # q /\ robotCall'[p] = robotCall[p] /\ robotCall[p].at \in Holding
        BY <2>2, <1>4 DEF Holding
      <3>2. /\ credential[robotCall[p].cred] # "none" /\ robotCall[p].cred \in Credentials
            /\ \A s \in RobotIds : credOf[s] = robotCall[p].cred => s = robotCall[p].robot
        BY <3>1, <1>1, CallTyped DEF CredentialInv
      <3>3. robotCall[p].cred # c
        BY <3>2, <1>6
      <3> QED  BY <3>1, <3>2, <3>3, <1>8
    <2> QED  BY <2>1, <2>2, <1>4 DEF CredentialInv
  <1>11. KeyInv'
    BY <1>4, KeysStay
  <1>12. robotDb = "sqlite" => \A s \in RobotIds : \A k \in TrustedRows(s)' : \A m \in TrustedRows(s)' : k = m
    BY <1>4, TrustedStays
  <1>13. ASSUME robotDb = "sqlite", NEW e \in Credentials, credential'[e] = "active"
         PROVE  \E s \in RobotIds : robot'[s] = "live" /\ credOf'[s] = e
    <2>1. robot[r] = "live" /\ credOf[r] = d
      BY <1>1, <1>2, <1>3, <1>13 DEF RobotInv, AloneRows
    <2>2. CASE e = c
      BY <2>1, <2>2, <1>4, <1>8
    <2>3. CASE e # c
      <3>1. e # d /\ credential[e] = "active"
        BY <2>3, <1>8, <1>13
      <3>2. PICK s \in RobotIds : robot[s] = "live" /\ credOf[s] = e
        BY <3>1, <1>13 DEF RobotInv, AloneRows
      <3> QED  BY <2>1, <3>1, <3>2, <1>4, <1>8
    <2> QED  BY <2>2, <2>3
  <1>14. AloneRows'
    BY <1>1, <1>4, <1>12, <1>13, AloneAfter
  <1> QED  BY <1>9, <1>10, <1>11, <1>14 DEF RobotInv


--------------------------------------------------------------------------------
(* Host keys. *)

\* What a key that is taken on does to the rows of its robot.
LEMMA KeyIsMarked ==
    ASSUME RobotRows, KeyInv, NEW r \in RobotIds, NEW k \in HostKeys,
           known' = MarkKey(r, k, "trusted"), Touch(r, k)
    PROVE  /\ known' \in [RobotIds -> SUBSET (HostKeys \X TrustStates)]
           /\ verified' \in [RobotIds -> SUBSET (HostKeys \X HostKeys)]
           /\ known'[r] = {row \in known[r] : row[1] # k} \cup {<<k, "trusted">>}
           /\ \A s \in RobotIds : s # r => known'[s] = known[s] /\ verified'[s] = verified[s]
           /\ \A a \in HostKeys : \A b \in HostKeys : <<a, b>> \in verified'[r] <=>
                \/ <<a, b>> \in verified[r] /\ a # k /\ b # k
                \/ a = k /\ b \in Fingerprints(r) /\ b # k
  <1>1. known' \in [RobotIds -> SUBSET (HostKeys \X TrustStates)]
        /\ known'[r] = {row \in known[r] : row[1] # k} \cup {<<k, "trusted">>}
    BY DEF RobotRows, MarkKey, TrustStates
  <1>2. Fingerprints(r) \subseteq HostKeys
    BY DEF RobotRows, Fingerprints
  <1> DEFINE later == {pair \in verified[r] : k \notin {pair[1], pair[2]}}
             above == {k} \X (Fingerprints(r) \ {k})
  <1>3. verified' = [verified EXCEPT ![r] = later \cup above]
    BY DEF Touch, RobotRows
  <1>4. later \subseteq HostKeys \X HostKeys
    BY DEF RobotRows
  <1>5. above \subseteq HostKeys \X HostKeys
    BY <1>2
  <1>6. \A a \in HostKeys : \A b \in HostKeys :
          <<a, b>> \in later <=> (<<a, b>> \in verified[r] /\ a # k /\ b # k)
    OBVIOUS
  <1>7. \A a \in HostKeys : \A b \in HostKeys :
          <<a, b>> \in above <=> (a = k /\ b \in Fingerprints(r) /\ b # k)
    OBVIOUS
  <1> HIDE DEF later, above
  <1>8. verified' \in [RobotIds -> SUBSET (HostKeys \X HostKeys)] /\ verified'[r] = later \cup above
    BY <1>3, <1>4, <1>5 DEF RobotRows
  <1>9. \A s \in RobotIds : s # r => known'[s] = known[s] /\ verified'[s] = verified[s]
    BY <1>3 DEF RobotRows, MarkKey
  <1> QED  BY <1>1, <1>6, <1>7, <1>8, <1>9

LEMMA MarkedFingerprints ==
    ASSUME RobotRows, NEW r \in RobotIds, NEW k \in HostKeys,
           known'[r] = {row \in known[r] : row[1] # k} \cup {<<k, "trusted">>}
    PROVE  /\ Fingerprints(r)' = Fingerprints(r) \cup {k}
           /\ TrustedRows(r)' = TrustedRows(r) \cup {k}
  <1>1. <<k, "trusted">>[1] = k
    OBVIOUS
  <1>2. \A f : f \in Fingerprints(r)' <=> \E row \in known'[r] : row[1] = f
    BY DEF Fingerprints
  <1>3. \A f : f \in Fingerprints(r) <=> \E row \in known[r] : row[1] = f
    BY DEF Fingerprints
  <1>4. \A row : row \in known'[r] <=> (row \in known[r] /\ row[1] # k) \/ row = <<k, "trusted">>
    OBVIOUS
  <1>5. \A f : f \in Fingerprints(r)' <=> f \in Fingerprints(r) \/ f = k
    BY <1>1, <1>2, <1>3, <1>4
  <1>6. Fingerprints(r)' = Fingerprints(r) \cup {k}
    BY <1>5
  <1>7. \A f \in HostKeys : <<f, "trusted">> \in known'[r] <=> <<f, "trusted">> \in known[r] \/ f = k
    BY <1>4
  <1>8. TrustedRows(r)' = TrustedRows(r) \cup {k}
    BY <1>7 DEF TrustedRows
  <1> QED  BY <1>6, <1>8

LEMMA FirstTouchKeeps ==
    ASSUME RobotInv, NEW q \in RobotCalls, FirstTouch(q)
    PROVE  RobotInv'
  <1>1. RobotRows /\ KeyInv /\ CredentialInv /\ robotCall[q].at = "record" /\ robotCall[q] # NoCall
    BY CallTyped DEF RobotInv, FirstTouch
  <1>2. PICK r \in RobotIds : robotCall[q].robot = r
    BY <1>1, CallTyped
  <1>3. PICK k \in HostKeys : robotCall[q].key = k
    BY <1>1, CallTyped
  <1>4. /\ robotCall' \in [RobotCalls -> CallTypes] /\ robotCall'[q].at = "idle"
        /\ \A p \in RobotCalls : p # q => robotCall'[p] = robotCall[p]
        /\ Close(q) /\ UNCHANGED <<robotDb, robot, credOf, credential>>
        /\ RecordFirstTouch(r, k, robotCall[q].seen)
    BY <1>1, <1>2, <1>3, CallCloses DEF FirstTouch
  <1>5. CredentialInv'
    BY <1>1, <1>4 DEF CredentialInv, Holding
  <1>6. robotDb = "sqlite" => \A c \in Credentials : credential'[c] = "active" =>
          \E s \in RobotIds : robot'[s] = "live" /\ credOf'[s] = c
    BY <1>4 DEF RobotInv, AloneRows
  <1>7. CASE /\ known' = MarkKey(r, k, "trusted") /\ Touch(r, k)
             /\ connected' = [at |-> "accepted", robot |-> r, key |-> k]
    <2>1. /\ known' \in [RobotIds -> SUBSET (HostKeys \X TrustStates)]
          /\ verified' \in [RobotIds -> SUBSET (HostKeys \X HostKeys)]
          /\ known'[r] = {row \in known[r] : row[1] # k} \cup {<<k, "trusted">>}
          /\ \A s \in RobotIds : s # r => known'[s] = known[s] /\ verified'[s] = verified[s]
      BY <1>1, <1>7, KeyIsMarked
    <2>2. \A a \in HostKeys : \A b \in HostKeys : <<a, b>> \in verified'[r] <=>
            \/ <<a, b>> \in verified[r] /\ a # k /\ b # k
            \/ a = k /\ b \in Fingerprints(r) /\ b # k
      BY <1>1, <1>7, KeyIsMarked
    <2>3. Fingerprints(r)' = Fingerprints(r) \cup {k} /\ TrustedRows(r)' = TrustedRows(r) \cup {k}
      BY <1>1, <2>1, MarkedFingerprints
    <2>4. \A s \in RobotIds : s # r => Fingerprints(s)' = Fingerprints(s) /\ TrustedRows(s)' = TrustedRows(s)
      BY <2>1 DEF Fingerprints, TrustedRows
    <2>5. connected' \in Connections
      BY <1>7 DEF Connections
    <2>6. RobotRows'
      BY <1>1, <1>4, <2>1, <2>5 DEF RobotRows
    <2>7. KeyInv'
      <3>1. ASSUME NEW s \in RobotIds
            PROVE  /\ \A x \in known'[s] : \A y \in known'[s] : x[1] = y[1] => x = y
                   /\ \A a \in Fingerprints(s)' : \A b \in Fingerprints(s)' :
                        a # b => (<<a, b>> \in verified'[s] <=> <<b, a>> \notin verified'[s])
        <4>1. CASE s = r
          <5>1. <<k, "trusted">>[1] = k
            OBVIOUS
          <5>2. \A x \in known'[r] : \A y \in known'[r] : x[1] = y[1] => x = y
            BY <1>1, <2>1, <5>1 DEF KeyInv
          <5>3. Fingerprints(r) \subseteq HostKeys
            BY <1>1 DEF RobotRows, Fingerprints
          <5>4. ASSUME NEW a \in Fingerprints(r) \cup {k}, NEW b \in Fingerprints(r) \cup {k}, a # b
                PROVE  <<a, b>> \in verified'[r] <=> <<b, a>> \notin verified'[r]
            <6>1. a \in HostKeys /\ b \in HostKeys
              BY <5>3
            <6>2. CASE a = k \/ b = k
              BY <6>1, <6>2, <5>4, <2>2
            <6>3. CASE a # k /\ b # k
              BY <6>1, <6>3, <5>4, <2>2, <1>1 DEF KeyInv
            <6> QED  BY <6>2, <6>3
          <5> QED  BY <4>1, <5>2, <5>4, <2>3
        <4>2. CASE s # r
          BY <4>2, <1>1, <2>1, <2>4 DEF KeyInv
        <4> QED  BY <4>1, <4>2
      <3>2. ASSUME NEW p \in RobotCalls, NEW s \in RobotIds,
                   robotCall'[p].at = "connect", robotCall'[p].robot = s
            PROVE  robotCall'[p].trusted \subseteq Fingerprints(s)'
        <4>1. robotCall[p].trusted \subseteq Fingerprints(s) /\ robotCall'[p] = robotCall[p]
          BY <3>2, <1>1, <1>4 DEF KeyInv
        <4> QED  BY <4>1, <2>3, <2>4
      <3>3. ASSUME NEW s \in RobotIds, connected'.robot = s
            PROVE  connected'.key \in Fingerprints(s)'
        BY <1>7, <3>3, <2>3
      <3> QED  BY <3>1, <3>2, <3>3 DEF KeyInv
    <2>8. ASSUME robotDb = "sqlite", NEW s \in RobotIds
          PROVE  \A x \in TrustedRows(s)' : \A y \in TrustedRows(s)' : x = y
      <3>1. TrustedRows(r) = {}
        BY <2>8, <1>1, <1>2 DEF RobotInv, AloneRows
      <3> QED  BY <2>8, <2>3, <2>4, <3>1 DEF RobotInv, AloneRows
    <2>9. AloneRows'
      BY <1>1, <1>4, <1>6, <2>8, AloneAfter
    <2> QED  BY <1>5, <2>6, <2>7, <2>9 DEF RobotInv
  <1>8. CASE UNCHANGED <<known, verified>> /\ connected' = [at |-> "failed", robot |-> r, key |-> k]
    <2>1. RobotRows' /\ connected'.at # "accepted"
      BY <1>1, <1>4, <1>8 DEF RobotRows, Connections
    <2>2. KeyInv'
      BY <1>4, <1>8, <2>1, DialFails
    <2>3. AloneRows'
      BY <1>1, <1>4, <1>6, <1>8, TrustedStays, AloneAfter
    <2> QED  BY <1>5, <2>1, <2>2, <2>3 DEF RobotInv
  <1> QED  BY <1>4, <1>7, <1>8 DEF RecordFirstTouch

LEMMA VerifyKeeps ==
    ASSUME RobotInv, NEW q \in RobotCalls, VerifyHostKey(q)
    PROVE  RobotInv'
  <1>1. RobotRows /\ KeyInv /\ CredentialInv /\ robotCall[q].at = "connect" /\ robotCall[q] # NoCall
    BY CallTyped DEF RobotInv, VerifyHostKey
  <1>2. PICK r \in RobotIds : robotCall[q].robot = r
    BY <1>1, CallTyped
  <1>3. PICK k \in HostKeys : robotCall[q].key = k
    BY <1>1, CallTyped
  <1>4. /\ robotCall' \in [RobotCalls -> CallTypes] /\ robotCall'[q].at = "idle"
        /\ \A p \in RobotCalls : p # q => robotCall'[p] = robotCall[p]
        /\ Close(q) /\ UNCHANGED <<robotDb, robot, credOf, credential, known, verified>>
        /\ connected' = [at |-> IF k \in robotCall[q].trusted THEN "accepted" ELSE "failed",
                         robot |-> r, key |-> k]
    BY <1>1, <1>2, <1>3, CallCloses DEF VerifyHostKey
  <1>5. CredentialInv'
    BY <1>1, <1>4 DEF CredentialInv, Holding
  <1>6. robotDb = "sqlite" => \A c \in Credentials : credential'[c] = "active" =>
          \E s \in RobotIds : robot'[s] = "live" /\ credOf'[s] = c
    BY <1>4 DEF RobotInv, AloneRows
  <1>7. RobotRows'
    BY <1>1, <1>4 DEF RobotRows, Connections
  <1>8. \A s \in RobotIds : connected'.at = "accepted" /\ connected'.robot = s => connected'.key \in Fingerprints(s)
    BY <1>1, <1>2, <1>4 DEF KeyInv
  <1>9. KeyInv'
    BY <1>4, <1>8, DialFails
  <1>10. AloneRows'
    BY <1>1, <1>4, <1>6, TrustedStays, AloneAfter
  <1> QED  BY <1>5, <1>7, <1>9, <1>10 DEF RobotInv


LEMMA ResetKeeps ==
    ASSUME RobotInv, NEW q \in RobotCalls, NEW r \in RobotIds, ResetTrust(q, r)
    PROVE  RobotInv'
  <1>1. RobotRows /\ KeyInv /\ CredentialInv /\ Open(q)
        /\ UNCHANGED <<robotDb, robot, credOf, credential, verified, robotCall, connected>>
    BY DEF RobotInv, ResetTrust
  <1> DEFINE fallen == {<<row[1], "revoked">> : row \in known[r]}
  <1>2. known' = [known EXCEPT ![r] = fallen]
    BY <1>1 DEF ResetTrust, RobotRows
  <1>3. /\ fallen \subseteq HostKeys \X TrustStates
        /\ \A x \in fallen : x[2] = "revoked" /\ \E row \in known[r] : row[1] = x[1]
        /\ \A row \in known[r] : \E x \in fallen : row[1] = x[1]
    <2>1. \A row \in known[r] : row[1] \in HostKeys
      BY <1>1 DEF RobotRows
    <2>2. \A k : <<k, "revoked">>[1] = k /\ <<k, "revoked">>[2] = "revoked"
      OBVIOUS
    <2>3. \A row \in known[r] : <<row[1], "revoked">> \in fallen
      OBVIOUS
    <2>4. \A x \in fallen : \E row \in known[r] : x = <<row[1], "revoked">>
      OBVIOUS
    <2>5. \A x \in fallen : x[2] = "revoked" /\ \E row \in known[r] : row[1] = x[1]
      BY <2>4
    <2>6. \A row \in known[r] : \E x \in fallen : row[1] = x[1]
      BY <2>2, <2>3
    <2>7. fallen \subseteq HostKeys \X TrustStates
      BY <2>1, <2>4 DEF TrustStates
    <2> QED  BY <2>5, <2>6, <2>7
  <1>4. \A x \in fallen : \A y \in fallen : x[1] = y[1] => x = y
    OBVIOUS
  <1> HIDE DEF fallen
  <1>5. /\ known' \in [RobotIds -> SUBSET (HostKeys \X TrustStates)] /\ known'[r] = fallen
        /\ \A s \in RobotIds : s # r => known'[s] = known[s]
    BY <1>1, <1>2, <1>3 DEF RobotRows
  <1>6. Fingerprints(r)' = Fingerprints(r) /\ TrustedRows(r)' = {}
    <2>1. \A f : f \in Fingerprints(r)' <=> \E row \in known'[r] : row[1] = f
      BY DEF Fingerprints
    <2>2. \A f : f \in Fingerprints(r) <=> \E row \in known[r] : row[1] = f
      BY DEF Fingerprints
    <2>3. Fingerprints(r)' = Fingerprints(r)
      BY <1>3, <1>5, <2>1, <2>2
    <2>4. \A k \in HostKeys : <<k, "trusted">> \notin known'[r]
      <3>1. \A k \in HostKeys : <<k, "trusted">>[2] = "trusted"
        OBVIOUS
      <3> QED  BY <3>1, <1>3, <1>5
    <2>5. TrustedRows(r)' = {}
      BY <2>4 DEF TrustedRows
    <2> QED  BY <2>3, <2>5
  <1>7. \A s \in RobotIds : Fingerprints(s)' = Fingerprints(s)
                            /\ (s # r => TrustedRows(s)' = TrustedRows(s))
    BY <1>5, <1>6 DEF Fingerprints, TrustedRows
  <1>8. RobotRows'
    BY <1>1, <1>5 DEF RobotRows
  <1>9. CredentialInv'
    BY <1>1 DEF CredentialInv
  <1>10. KeyInv'
    <2>1. ASSUME NEW s \in RobotIds
          PROVE  \A x \in known'[s] : \A y \in known'[s] : x[1] = y[1] => x = y
      BY <1>1, <1>4, <1>5 DEF KeyInv
    <2>2. ASSUME NEW s \in RobotIds
          PROVE  \A k \in Fingerprints(s)' : \A m \in Fingerprints(s)' :
                   k # m => (<<k, m>> \in verified'[s] <=> <<m, k>> \notin verified'[s])
      BY <1>1, <1>7 DEF KeyInv
    <2>3. \A p \in RobotCalls : \A s \in RobotIds :
            robotCall'[p].at = "connect" /\ robotCall'[p].robot = s => robotCall'[p].trusted \subseteq Fingerprints(s)'
      BY <1>1, <1>7 DEF KeyInv
    <2>4. \A s \in RobotIds :
            connected'.at = "accepted" /\ connected'.robot = s => connected'.key \in Fingerprints(s)'
      BY <1>1, <1>7 DEF KeyInv
    <2> QED  BY <2>1, <2>2, <2>3, <2>4 DEF KeyInv
  <1>11. AloneRows'
    <2> SUFFICES ASSUME robotDb = "sqlite" PROVE AloneRows'
      BY <1>1 DEF AloneRows
    <2>1. \A p \in RobotCalls : robotCall'[p] = NoCall /\ robotCall'[p].at = "idle"
      BY <1>1, CallTyped DEF Open
    <2>2. \A c \in Credentials : credential'[c] = "active" =>
            \E s \in RobotIds : robot'[s] = "live" /\ credOf'[s] = c
      BY <1>1 DEF RobotInv, AloneRows
    <2>3. \A s \in RobotIds : \A k \in TrustedRows(s)' : \A m \in TrustedRows(s)' : k = m
      BY <1>6, <1>7 DEF RobotInv, AloneRows
    <2> QED  BY <2>1, <2>2, <2>3 DEF AloneRows
  <1> QED  BY <1>8, <1>9, <1>10, <1>11 DEF RobotInv

LEMMA RobotStutters ==
    ASSUME RobotInv, UNCHANGED robotVars
    PROVE  RobotInv'
  <1>1. \A s \in RobotIds : Fingerprints(s)' = Fingerprints(s) /\ TrustedRows(s)' = TrustedRows(s)
    BY DEF robotVars, Fingerprints, TrustedRows
  <1>2. RobotRows' /\ CredentialInv'
    BY DEF RobotInv, RobotRows, CredentialInv, robotVars
  <1>3. KeyInv'
    BY <1>1 DEF RobotInv, KeyInv, robotVars
  <1>4. AloneRows'
    BY <1>1 DEF RobotInv, AloneRows, robotVars
  <1> QED  BY <1>2, <1>3, <1>4 DEF RobotInv

LEMMA RobotInvStep == RobotInv /\ [RobotNext]_robotVars => RobotInv'
  <1> SUFFICES ASSUME RobotInv, RobotNext PROVE RobotInv'
    BY RobotStutters
  <1>1. PICK q \in RobotCalls :
          \/ \E r \in RobotIds : BeginCreate(q, r) \/ ResetTrust(q, r)
          \/ \E r \in RobotIds, op \in {"delete", "rotate", "material"} : BeginChange(q, r, op)
          \/ \E r \in RobotIds, k \in HostKeys : BeginConnect(q, r, k)
          \/ CreateRobot(q) \/ DeleteRobot(q) \/ RotateCredential(q)
          \/ SelectByFingerprint(q) \/ FirstTouch(q) \/ VerifyHostKey(q)
          \/ ReadMaterial(q) \/ UseMaterial(q)
    BY DEF RobotNext
  <1> QED  BY <1>1, ReadsKeep, ResetKeeps, CreateKeeps, DeleteKeeps, RotateKeeps, PlacesKeep,
              FirstTouchKeeps, VerifyKeeps

--------------------------------------------------------------------------------
(* What follows from the invariant. *)

LEMMA RobotInvIsSound == RobotInv => RobotsAreSound
  <1> SUFFICES ASSUME RobotInv PROVE RobotsAreSound
    OBVIOUS
  <1>1. RobotTypeOK
    <2>1. \A r \in RobotIds :
            /\ credOf[r] \in Credentials \cup {NoCredential}
            /\ \A row \in known[r] : row[1] \in HostKeys /\ row[2] \in {"trusted", "revoked"}
      BY DEF RobotInv, RobotRows, TrustStates
    <2>2. \A r \in RobotIds :
            /\ \A x, y \in known[r] : x[1] = y[1] => x = y
            /\ \A k, m \in Fingerprints(r) : k # m => (<<k, m>> \in verified[r] <=> <<m, k>> \notin verified[r])
      BY DEF RobotInv, KeyInv
    <2>3. robot \in [RobotIds -> {"none", "live", "deleted"}]
          /\ credential \in [Credentials -> {"none", "active", "revoked"}]
      BY DEF RobotInv, RobotRows
    <2> QED  BY <2>1, <2>2, <2>3 DEF RobotTypeOK
  <1>2. LiveRobotHasCredential
    BY DEF RobotInv, CredentialInv, LiveRobotHasCredential
  <1>3. NoForgottenCredential
    BY DEF RobotInv, AloneRows, NoForgottenCredential, Current
  <1>4. OneTrustedKey
    BY OneAtMost DEF RobotInv, AloneRows, OneTrustedKey
  <1>5. AcceptedKeyIsOnRecord
    <2> SUFFICES ASSUME connected.at = "accepted"
                 PROVE  \E row \in known[connected.robot] : row[1] = connected.key
      BY DEF AcceptedKeyIsOnRecord
    <2>1. PICK r \in RobotIds : connected.robot = r
      BY DEF RobotInv, RobotRows, Connections, NoConnection
    <2>2. connected.key \in Fingerprints(r)
      BY <2>1 DEF RobotInv, KeyInv
    <2> QED  BY <2>1, <2>2 DEF Fingerprints
  <1> QED  BY <1>1, <1>2, <1>3, <1>4, <1>5 DEF RobotsAreSound

(***************************************************************************)
(* Whatever requests overlap on PostgreSQL, a live robot's credential is   *)
(* in force and a connection is accepted with a key on record; on SQLite   *)
(* no credential is forgotten and one key at most is trusted.              *)
(***************************************************************************)
THEOREM RobotsCorrect == RobotSpec => []RobotsAreSound
  <1>1. RobotInit => RobotInv
    BY RobotInvInit
  <1>2. RobotInv /\ [RobotNext]_robotVars => RobotInv'
    BY RobotInvStep
  <1>3. RobotInv => RobotsAreSound
    BY RobotInvIsSound
  <1> QED  BY <1>1, <1>2, <1>3, PTL DEF RobotSpec

--------------------------------------------------------------------------------
(* The import of robots. *)

Requests == {Request(r) : r \in Records}
ImportRows ==
    /\ csvFile \in Seq(Records) /\ Len(csvFile) <= MaxRecords
    /\ recordNo \in 0..Len(csvFile) /\ line \in 1..(MaxRecords + 3)
    /\ reader \in {"fine", "failing"} /\ parsed \in {"no", "yes", "refused"}
    /\ rows \in Seq([line : Nat, record : Nat, req : Requests])
    /\ rowErrors \subseteq [line : Nat, record : Nat]

Results == {[line |-> rows[i].line, record |-> rows[i].record] : i \in DOMAIN rows} \cup rowErrors
Said(n) == csvFile[n].kind \notin {"blank", "spaces"} /\ \A m \in 1..(n - 1) : csvFile[m].kind # "open"

\* A result is of a record that was read and of a line that is behind, each of one.
ResultInv ==
    /\ reader = "fine" => line <= recordNo + 2
    /\ \A x \in Results : x.line < line /\ x.record <= recordNo
    /\ \A x \in Results : \A y \in Results :
         /\ x.line = y.line => x.record = y.record
         /\ x.record = y.record /\ x.record # NoRecord => x.line = y.line
    /\ \A n \in 1..recordNo : Said(n) => \E x \in Results : x.record = n
    /\ \A i \in 2..Len(rows) : rows[i - 1].line < rows[i].line

RequestFits(req) == (req.name = "long" \/ ValidateRobotRequest(req)) /\ req.secret

ImportInv == ImportRows /\ ResultInv /\ \A i \in DOMAIN rows : RequestFits(rows[i].req)

\* A row that is right makes a request that CreateRobot takes and a robot logs in with.
LEMMA RightRowsFit ==
    ASSUME NEW r \in CsvRows, RowIsRight(r)
    PROVE  RequestFits(Request(r))
  <1>1. r.name \in {"given", "long"} /\ r.auth \in {"password", "privateKey"}
    BY DEF RowIsRight, CsvRows
  <1>2. (r.auth = "password" => r.password) /\ (r.auth = "privateKey" => r.pem)
    BY DEF RowIsRight, CredentialFits
  <1> DEFINE secret == IF r.auth = "password" THEN r.password ELSE r.pem
             req == [name |-> r.name, auth |-> r.auth, material |-> r.auth, secret |-> secret]
  <1>3. secret
    BY <1>1, <1>2
  <1>4. Request(r) = req
    BY DEF Request
  <1> HIDE DEF secret
  <1>5. req.name = r.name /\ req.auth = r.auth /\ req.material = r.auth /\ req.secret = secret
    OBVIOUS
  <1> HIDE DEF req
  <1>6. RequestFits(req)
    <2>1. req.secret
      BY <1>3, <1>5
    <2>2. req.name = "long" \/ ValidateRobotRequest(req)
      BY <1>1, <1>5 DEF ValidateRobotRequest
    <2> QED  BY <2>1, <2>2 DEF RequestFits
  <1> QED  BY <1>4, <1>6

LEMMA ImportInvInit == ImportInit => ImportInv
  <1> SUFFICES ASSUME ImportInit PROVE ImportInv
    OBVIOUS
  <1>1. PICK n \in 0..MaxRecords : csvFile \in [1..n -> Records]
    BY DEF ImportInit
  <1>2. csvFile \in Seq(Records) /\ Len(csvFile) = n
    BY <1>1, ImportAssumption
  <1>3. ImportRows
    BY <1>2, ImportAssumption DEF ImportInit, ImportRows
  <1>4. rows = <<>> /\ rowErrors = {} /\ recordNo = 0 /\ line = 1
    BY DEF ImportInit
  <1>5. Results = {} /\ DOMAIN rows = {} /\ Len(rows) = 0
    BY <1>4 DEF Results
  <1>6. ResultInv
    BY <1>4, <1>5 DEF ResultInv
  <1> QED  BY <1>3, <1>5, <1>6 DEF ImportInv

--------------------------------------------------------------------------------
(* Steps. *)

\* What the results are made of.
LEMMA ResultsTyped ==
    ASSUME ImportRows
    PROVE  \A x \in Results : x \in [line : Nat, record : Nat] /\ x.line \in Nat /\ x.record \in Nat
  <1>1. ASSUME NEW i \in DOMAIN rows
        PROVE  [line |-> rows[i].line, record |-> rows[i].record] \in [line : Nat, record : Nat]
    <2>1. rows[i] \in [line : Nat, record : Nat, req : Requests]
      <3>1. rows \in Seq([line : Nat, record : Nat, req : Requests])
        BY DEF ImportRows
      <3>2. i \in 1..Len(rows)
        BY <3>1
      <3> QED  BY <3>1, <3>2, ElementOfSeq
    <2> QED  BY <2>1
  <1>2. \A x \in Results : x \in [line : Nat, record : Nat]
    BY <1>1 DEF Results, ImportRows
  <1> QED  BY <1>2

\* A step that leaves the results and the records that are read alone.
LEMMA ResultsStay ==
    ASSUME ImportInv, UNCHANGED <<csvFile, recordNo, line, rows, rowErrors>>,
           reader' \in {"fine", "failing"}, reader' = "fine" => reader = "fine",
           parsed' \in {"no", "yes", "refused"}
    PROVE  ImportInv'
  <1>1. Results' = Results
    BY DEF Results
  <1>2. \A n : Said(n)' <=> Said(n)
    BY DEF Said
  <1>3. ImportRows'
    BY DEF ImportInv, ImportRows
  <1>4. ResultInv'
    BY <1>1, <1>2 DEF ImportInv, ResultInv
  <1> QED  BY <1>3, <1>4 DEF ImportInv

\* A step that goes on to the next line without a result.
LEMMA LineMoves ==
    ASSUME ImportInv, UNCHANGED <<csvFile, rows, rowErrors, reader, parsed>>,
           NEW after \in 0..Len(csvFile), recordNo' = after, after >= recordNo,
           line' \in {line, line + 1}, line' \in 1..(MaxRecords + 3), reader = "fine" => line' <= after + 2,
           \A n \in (recordNo + 1)..after : ~ Said(n)
    PROVE  ImportInv'
  <1>1. Results' = Results
    BY DEF Results
  <1>2. \A n : Said(n)' <=> Said(n)
    BY DEF Said
  <1>3. ImportRows'
    BY DEF ImportInv, ImportRows
  <1>4. recordNo \in Nat /\ line \in Nat /\ after \in Nat /\ line' \in Nat
    BY DEF ImportInv, ImportRows
  <1>5. \A x \in Results : x.line \in Nat /\ x.record \in Nat
    BY ResultsTyped DEF ImportInv
  <1>6. \A x \in Results : x.line < line' /\ x.record <= recordNo'
    BY <1>4, <1>5 DEF ImportInv, ResultInv
  <1>7. \A n \in 1..after : Said(n) => n \in 1..recordNo
    BY <1>4
  <1>8. \A n \in 1..recordNo' : Said(n) => \E x \in Results : x.record = n
    BY <1>7 DEF ImportInv, ResultInv
  <1>9. ResultInv'
    BY <1>1, <1>2, <1>6, <1>8 DEF ImportInv, ResultInv
  <1> QED  BY <1>3, <1>9 DEF ImportInv


\* A step with a result: its line was not behind yet, and its record not read.
LEMMA ResultJoins ==
    ASSUME ImportInv, NEW after \in 0..Len(csvFile), recordNo' = after, after >= recordNo,
           NEW no \in 0..after, no = NoRecord \/ no > recordNo,
           UNCHANGED <<csvFile, reader>>, line' = line + 1, reader = "fine" => line' <= after + 2,
           Results' = Results \cup {[line |-> line, record |-> no]},
           \A n \in (recordNo + 1)..after : Said(n) => n = no,
           \A i \in 2..Len(rows') : rows'[i - 1].line < rows'[i].line
    PROVE  ResultInv'
  <1> DEFINE new == [line |-> line, record |-> no]
  <1>1. /\ recordNo \in Nat /\ line \in Nat /\ after \in Nat /\ no \in Nat /\ NoRecord = 0
        /\ new.line = line /\ new.record = no
    BY DEF ImportInv, ImportRows, NoRecord
  <1>2. Results' = Results \cup {new}
    OBVIOUS
  <1> HIDE DEF new
  <1>3. \A x \in Results : x.line \in Nat /\ x.record \in Nat /\ x.line < line /\ x.record <= recordNo
    BY ResultsTyped DEF ImportInv, ResultInv
  <1>4. \A x \in Results' : x.line < line' /\ x.record <= recordNo'
    BY <1>1, <1>2, <1>3
  <1>5. ASSUME NEW x \in Results', NEW y \in Results'
        PROVE  /\ x.line = y.line => x.record = y.record
               /\ x.record = y.record /\ x.record # NoRecord => x.line = y.line
    <2>1. CASE x = new /\ y = new
      BY <2>1
    <2>2. CASE x \in Results /\ y \in Results
      BY <2>2 DEF ImportInv, ResultInv
    <2>3. CASE x = new /\ y \in Results
      BY <2>3, <1>1, <1>3
    <2>4. CASE x \in Results /\ y = new
      BY <2>4, <1>1, <1>3
    <2> QED  BY <1>2, <2>1, <2>2, <2>3, <2>4
  <1>6. \A n : Said(n)' <=> Said(n)
    BY DEF Said
  <1>7. ASSUME NEW n \in 1..recordNo', Said(n)
        PROVE  \E x \in Results' : x.record = n
    <2>1. CASE n \in 1..recordNo
      BY <2>1, <1>2, <1>7 DEF ImportInv, ResultInv
    <2>2. CASE n \notin 1..recordNo
      <3>1. n = no
        BY <2>2, <1>1, <1>7
      <3> QED  BY <3>1, <1>1, <1>2
    <2> QED  BY <2>1, <2>2
  <1>8. reader' = "fine" => line' <= recordNo' + 2
    OBVIOUS
  <1> QED  BY <1>4, <1>5, <1>6, <1>7, <1>8 DEF ResultInv

LEMMA ReadRecordKeeps ==
    ASSUME ImportInv, ReadRecord
    PROVE  ImportInv'
  <1> DEFINE here == recordNo + 1
             r == csvFile[here]
             after == IF r.kind = "open" THEN Len(csvFile) ELSE here
  <1>1. /\ recordNo \in Nat /\ line \in Nat /\ Len(csvFile) \in Nat /\ recordNo < Len(csvFile)
        /\ Len(csvFile) <= MaxRecords /\ csvFile \in Seq(Records) /\ rows \in Seq([line : Nat, record : Nat, req : Requests])
        /\ rowErrors \subseteq [line : Nat, record : Nat] /\ MaxRecords \in Nat
    BY ImportAssumption DEF ImportInv, ImportRows, ReadRecord
  <1>2. here \in 1..Len(csvFile) /\ r \in Records /\ after \in here..Len(csvFile)
        /\ recordNo' = after /\ after \in 0..Len(csvFile) /\ after >= recordNo
    BY <1>1 DEF ReadRecord
  <1>3. reader = "fine" /\ UNCHANGED <<csvFile, header, reader, parsed>>
    BY DEF ReadRecord
  <1>4. line <= recordNo + 2 /\ line' \in {line, line + 1} /\ (r.kind # "blank" => line' = line + 1)
    BY <1>3 DEF ImportInv, ResultInv, ReadRecord, NextLine
  <1>5. line' \in 1..(MaxRecords + 3) /\ line' <= after + 2
    BY <1>1, <1>2, <1>4 DEF ImportInv, ImportRows
  <1>6. \A n \in (recordNo + 1)..after : Said(n) => n = here
    <2> SUFFICES ASSUME NEW n \in (recordNo + 1)..after, n # here PROVE ~ Said(n)
      OBVIOUS
    <2>1. r.kind = "open" /\ here \in 1..(n - 1)
      BY <1>1, <1>2
    <2> QED  BY <2>1 DEF Said
  <1>7. CASE r.kind = "row" /\ RowIsRight(r)
    <2> DEFINE req == Request(r)
               row == [line |-> line, record |-> here, req |-> req]
    <2>1. rows' = Append(rows, row) /\ UNCHANGED rowErrors
      BY <1>7 DEF ReadRecord
    <2>2. req \in Requests /\ RequestFits(req)
      <3>1. r \in CsvRows
        BY <1>2, <1>7 DEF Records, Blank
      <3> QED  BY <3>1, <1>2, <1>7, RightRowsFit DEF Requests
    <2> HIDE DEF req
    <2>3. row \in [line : Nat, record : Nat, req : Requests] /\ row.line = line /\ row.record = here /\ row.req = req
      BY <1>1, <2>2
    <2> HIDE DEF row
    <2>4. /\ rows' \in Seq([line : Nat, record : Nat, req : Requests]) /\ Len(rows') = Len(rows) + 1
          /\ DOMAIN rows' = DOMAIN rows \cup {Len(rows) + 1} /\ rows'[Len(rows) + 1] = row
          /\ \A i \in DOMAIN rows : rows'[i] = rows[i]
      BY <1>1, <2>1, <2>3
    <2>5. Results' = Results \cup {[line |-> line, record |-> here]}
      BY <2>1, <2>3, <2>4 DEF Results
    <2>6. ASSUME NEW i \in 2..Len(rows')
          PROVE  rows'[i - 1].line < rows'[i].line
      <3>1. CASE i \in 2..Len(rows)
        <4>1. i \in DOMAIN rows /\ i - 1 \in DOMAIN rows
          BY <3>1, <1>1
        <4>2. rows'[i] = rows[i] /\ rows'[i - 1] = rows[i - 1]
          BY <4>1, <2>4
        <4> QED  BY <3>1, <4>2 DEF ImportInv, ResultInv
      <3>2. CASE i \notin 2..Len(rows)
        <4>1. i = Len(rows) + 1 /\ i - 1 \in DOMAIN rows
          BY <3>2, <1>1, <2>4
        <4>2. [line |-> rows[i - 1].line, record |-> rows[i - 1].record] \in Results
          BY <4>1 DEF Results
        <4>3. rows[i - 1].line < line
          BY <4>2 DEF ImportInv, ResultInv
        <4> QED  BY <4>1, <4>3, <2>3, <2>4
      <3> QED  BY <3>1, <3>2
    <2>7. ResultInv'
      <3>1. here \in 0..after /\ here > recordNo /\ line' = line + 1
        BY <1>1, <1>2, <1>4, <1>7
      <3> QED  BY <3>1, <1>2, <1>3, <1>5, <1>6, <2>5, <2>6, ResultJoins
    <2>8. ImportRows'
      BY <1>1, <1>2, <1>3, <1>5, <2>1, <2>4 DEF ImportInv, ImportRows
    <2>9. \A i \in DOMAIN rows' : RequestFits(rows'[i].req)
      BY <2>2, <2>3, <2>4 DEF ImportInv
    <2> QED  BY <2>7, <2>8, <2>9 DEF ImportInv
  <1>8. CASE ~ (r.kind = "row" /\ RowIsRight(r)) /\ r.kind \in {"blank", "spaces"}
    <2>1. UNCHANGED <<rows, rowErrors>>
      BY <1>8 DEF ReadRecord
    <2>2. ~ Said(here) /\ after = here
      BY <1>8 DEF Said
    <2> HIDE DEF here, r, after
    <2>3. \A n \in (recordNo + 1)..after : ~ Said(n)
      BY <1>6, <2>2
    <2> QED  BY <2>1, <2>3, <1>2, <1>3, <1>4, <1>5, LineMoves
  <1>9. CASE ~ (r.kind = "row" /\ RowIsRight(r)) /\ r.kind \notin {"blank", "spaces"}
    <2> DEFINE new == [line |-> line, record |-> here]
    <2>1. rowErrors' = rowErrors \cup {new} /\ UNCHANGED rows
      BY <1>9 DEF ReadRecord
    <2>2. new \in [line : Nat, record : Nat]
      BY <1>1
    <2>3. Results' = Results \cup {new}
      BY <2>1 DEF Results
    <2>4. ResultInv'
      <3>1. here \in 0..after /\ here > recordNo /\ line' = line + 1
        BY <1>1, <1>2, <1>4, <1>9
      <3>2. \A i \in 2..Len(rows') : rows'[i - 1].line < rows'[i].line
        BY <2>1 DEF ImportInv, ResultInv
      <3> QED  BY <3>1, <3>2, <1>2, <1>3, <1>5, <1>6, <2>3, ResultJoins
    <2>5. ImportRows'
      BY <1>1, <1>2, <1>3, <1>5, <2>1, <2>2 DEF ImportInv, ImportRows
    <2> QED  BY <2>1, <2>4, <2>5 DEF ImportInv
  <1> QED  BY <1>7, <1>8, <1>9

LEMMA ReadFailsKeeps ==
    ASSUME ImportInv, ReadFails
    PROVE  ImportInv'
  <1> DEFINE new == [line |-> line, record |-> NoRecord]
  <1>1. /\ recordNo \in 0..Len(csvFile) /\ Len(csvFile) \in Nat /\ line \in Nat /\ MaxRecords \in Nat
        /\ line' = line + 1 /\ line' \in 1..(MaxRecords + 3) /\ reader = "failing"
        /\ rowErrors' = rowErrors \cup {new} /\ UNCHANGED <<csvFile, recordNo, rows, reader, parsed>>
    BY ImportAssumption DEF ImportInv, ImportRows, ReadFails
  <1>2. new \in [line : Nat, record : Nat]
    BY <1>1 DEF NoRecord
  <1>3. Results' = Results \cup {new}
    BY <1>1 DEF Results
  <1>4. ImportRows'
    BY <1>1, <1>2 DEF ImportInv, ImportRows
  <1>5. ResultInv'
    <2>1. NoRecord \in 0..recordNo /\ \A n \in (recordNo + 1)..recordNo : Said(n) => n = NoRecord
      BY <1>1 DEF NoRecord
    <2>2. \A i \in 2..Len(rows') : rows'[i - 1].line < rows'[i].line
      BY <1>1 DEF ImportInv, ResultInv
    <2>3. recordNo' = recordNo /\ recordNo >= recordNo
      BY <1>1
    <2> QED  BY <1>1, <1>3, <2>1, <2>2, <2>3, ResultJoins
  <1> QED  BY <1>1, <1>4, <1>5 DEF ImportInv

LEMMA ImportInvStep == ImportInv /\ [ImportNext]_importVars => ImportInv'
  <1> SUFFICES ASSUME ImportInv, [ImportNext]_importVars PROVE ImportInv'
    OBVIOUS
  <1>1. CASE UNCHANGED importVars
    BY <1>1, ResultsStay DEF importVars, ImportInv, ImportRows
  <1>2. CASE ReadHeader
    <2>1. CASE UNCHANGED line
      BY <1>2, <2>1, ResultsStay DEF ReadHeader, ImportInv, ImportRows
    <2>2. CASE line' = 2 /\ UNCHANGED parsed
      <3>1. line = 1 /\ recordNo \in 0..Len(csvFile) /\ Len(csvFile) \in Nat /\ MaxRecords \in Nat
            /\ UNCHANGED <<csvFile, recordNo, rows, rowErrors, reader>>
        BY <1>2, ImportAssumption DEF ReadHeader, ImportInv, ImportRows
      <3>2. recordNo' = recordNo /\ recordNo >= recordNo /\ line' \in {line, line + 1}
            /\ line' \in 1..(MaxRecords + 3) /\ line' <= recordNo + 2
            /\ \A n \in (recordNo + 1)..recordNo : ~ Said(n)
        BY <3>1, <2>2
      <3> QED  BY <2>2, <3>1, <3>2, LineMoves
    <2> QED  BY <1>2, <2>1, <2>2 DEF ReadHeader
  <1>3. CASE EndOfFile
    BY <1>3, ResultsStay DEF EndOfFile, ImportInv, ImportRows
  <1>4. CASE ReaderFails
    BY <1>4, ResultsStay DEF ReaderFails, ImportInv, ImportRows
  <1> QED  BY <1>1, <1>2, <1>3, <1>4, ReadRecordKeeps, ReadFailsKeeps DEF ImportNext

LEMMA ImportInvIsSound == ImportInv => ImportsAreSound
  <1> SUFFICES ASSUME ImportInv PROVE ImportsAreSound
    OBVIOUS
  <1>1. ImportTypeOK
    BY DEF ImportInv, ImportRows, ImportTypeOK
  <1>2. RowsAreCreatable /\ RowsHaveTheirSecret
    BY DEF ImportInv, RequestFits, RowsAreCreatable, RowsHaveTheirSecret
  <1>3. EveryRecordCounts
    BY DEF ImportInv, ResultInv, Results, Said, EveryRecordCounts
  <1> QED  BY <1>1, <1>2, <1>3 DEF ImportsAreSound

(***************************************************************************)
(* Whatever the file holds and wherever its reader fails, every record     *)
(* that says anything is a row or an error under a line of its own, and    *)
(* a row is a robot that can be created and logged in to.                  *)
(***************************************************************************)
THEOREM ImportsCorrect == ImportSpec => []ImportsAreSound
  <1>1. ImportInit => ImportInv
    BY ImportInvInit
  <1>2. ImportInv /\ [ImportNext]_importVars => ImportInv'
    BY ImportInvStep
  <1>3. ImportInv => ImportsAreSound
    BY ImportInvIsSound
  <1> QED  BY <1>1, <1>2, <1>3, PTL DEF ImportSpec

--------------------------------------------------------------------------------
(* The properties of the runs. *)

(***************************************************************************)
(* A schedule fires as its row says, and the demonstration data is there   *)
(* once, and whole after a run without trouble.                            *)
(***************************************************************************)
THEOREM SessionsCorrect == ScheduleSpec /\ DemoSpec => []SessionsStartAsAsked
  <1>1. ScheduleIsSound /\ DemoSeedIsSound => SessionsStartAsAsked
    BY DEF SessionsStartAsAsked
  <1> QED  BY <1>1, SchedulesCorrect, DemonstrationCorrect, PTL

(***************************************************************************)
(* Robots and what an import makes of its file.                            *)
(***************************************************************************)
THEOREM RobotsKeptCorrect == RobotSpec /\ ImportSpec => []RobotsAreKept
  <1>1. RobotsAreSound /\ ImportsAreSound => RobotsAreKept
    BY DEF RobotsAreKept
  <1> QED  BY <1>1, RobotsCorrect, ImportsCorrect, PTL
--------------------------------------------------------------------------------
(* Counting the turns of a sequence that are of a kind. *)

TurnsIn(s, T) == {i \in 1..Len(s) : s[i] \in T}

LEMMA TurnsInFinite ==
    ASSUME NEW U, NEW s \in Seq(U), NEW T
    PROVE  IsFiniteSet(TurnsIn(s, T)) /\ Cardinality(TurnsIn(s, T)) \in Nat
  <1>1. Len(s) \in Nat
    OBVIOUS
  <1>2. IsFiniteSet(1..Len(s))
    BY <1>1, FS_Interval
  <1>3. IsFiniteSet(TurnsIn(s, T))
    BY <1>2, FS_Subset DEF TurnsIn
  <1> QED  BY <1>3, FS_CardinalityType

LEMMA TurnsInAppend ==
    ASSUME NEW U, NEW s \in Seq(U), NEW e \in U, NEW T
    PROVE  Cardinality(TurnsIn(Append(s, e), T)) = Cardinality(TurnsIn(s, T)) + (IF e \in T THEN 1 ELSE 0)
  <1> DEFINE n == Len(s)
             s2 == Append(s, e)
  <1>1. /\ n \in Nat /\ Len(s2) = n + 1 /\ s2[n + 1] = e
        /\ \A i \in 1..n : s2[i] = s[i]
    BY AppendProperties
  <1> HIDE DEF s2
  <1>2. CASE e \in T
    <2>1. TurnsIn(s2, T) = TurnsIn(s, T) \cup {n + 1}
      BY <1>1, <1>2 DEF TurnsIn
    <2>2. n + 1 \notin TurnsIn(s, T)
      BY <1>1 DEF TurnsIn
    <2> QED  BY <1>2, <2>1, <2>2, TurnsInFinite, FS_AddElement DEF s2
  <1>3. CASE e \notin T
    <2>1. TurnsIn(s2, T) = TurnsIn(s, T)
      BY <1>1, <1>3 DEF TurnsIn
    <2>2. Cardinality(TurnsIn(s, T)) \in Nat
      BY TurnsInFinite
    <2> QED  BY <1>3, <2>1, <2>2 DEF s2
  <1> QED  BY <1>2, <1>3

\* Moving a finite set of positions along.
LEMMA Shifted ==
    ASSUME NEW S \in SUBSET Nat, IsFiniteSet(S), NEW n \in Nat
    PROVE  IsFiniteSet({n + i : i \in S}) /\ Cardinality({n + i : i \in S}) = Cardinality(S)
  <1> DEFINE f == [i \in S |-> n + i]
             T == {n + i : i \in S}
  <1>1. f \in Surjection(S, T)
    BY DEF Surjection
  <1>2. f \in Injection(S, T)
    BY <1>1 DEF Surjection, Injection, IsInjective
  <1> QED  BY <1>1, <1>2, FS_Surjection

\* Counting two finite sets apart.
LEMMA Apart ==
    ASSUME NEW S, NEW T, IsFiniteSet(S), IsFiniteSet(T), S \cap T = {}
    PROVE  IsFiniteSet(S \cup T) /\ Cardinality(S \cup T) = Cardinality(S) + Cardinality(T)
  <1>1. IsFiniteSet(S \cup T) /\ Cardinality(S \cup T) = Cardinality(S) + Cardinality(T) - Cardinality(S \cap T)
    BY FS_Union
  <1>2. Cardinality(S \cap T) = 0 /\ Cardinality(S) \in Nat /\ Cardinality(T) \in Nat
    BY FS_EmptySet, FS_CardinalityType
  <1> QED  BY <1>1, <1>2

LEMMA TurnsInConcat ==
    ASSUME NEW U, NEW s \in Seq(U), NEW r \in Seq(U), NEW T
    PROVE  Cardinality(TurnsIn(s \o r, T)) = Cardinality(TurnsIn(s, T)) + Cardinality(TurnsIn(r, T))
  <1> DEFINE n == Len(s)
             k == Len(r)
             c == s \o r
             R == {n + i : i \in TurnsIn(r, T)}
  <1>1. /\ n \in Nat /\ k \in Nat /\ Len(c) = n + k
        /\ \A i \in 1..n + k : c[i] = IF i <= n THEN s[i] ELSE r[i - n]
    BY ConcatProperties
  <1> HIDE DEF c
  <1>2. \A i \in 1..n : i \in 1..n + k /\ c[i] = s[i]
    BY <1>1
  <1>3. \A i \in 1..k : n + i \in 1..n + k /\ c[n + i] = r[i]
    <2> SUFFICES ASSUME NEW i \in 1..k PROVE n + i \in 1..n + k /\ c[n + i] = r[i]
      OBVIOUS
    <2>1. n + i \in 1..n + k /\ ~(n + i <= n) /\ (n + i) - n = i
      BY <1>1
    <2> QED  BY <1>1, <2>1
  <1>4. \A i \in 1..n + k : i \in 1..n \/ \E j \in 1..k : i = n + j
    <2> SUFFICES ASSUME NEW i \in 1..n + k, i \notin 1..n PROVE \E j \in 1..k : i = n + j
      OBVIOUS
    <2>1. i - n \in 1..k /\ i = n + (i - n)
      BY <1>1
    <2> QED  BY <2>1
  <1>5. TurnsIn(c, T) = TurnsIn(s, T) \cup R
    <2>1. ASSUME NEW i \in TurnsIn(c, T) PROVE i \in TurnsIn(s, T) \cup R
      <3>1. i \in 1..n + k /\ c[i] \in T
        BY <1>1 DEF TurnsIn
      <3>2. CASE i \in 1..n
        BY <1>2, <3>1, <3>2 DEF TurnsIn
      <3>3. CASE i \notin 1..n
        <4>1. PICK j \in 1..k : i = n + j
          BY <1>4, <3>1, <3>3
        <4>2. j \in TurnsIn(r, T)
          BY <1>3, <3>1, <4>1 DEF TurnsIn
        <4> QED  BY <4>1, <4>2
      <3> QED  BY <3>2, <3>3
    <2>2. TurnsIn(s, T) \subseteq TurnsIn(c, T)
      BY <1>1, <1>2 DEF TurnsIn
    <2>3. R \subseteq TurnsIn(c, T)
      <3> SUFFICES ASSUME NEW j \in TurnsIn(r, T) PROVE n + j \in TurnsIn(c, T)
        OBVIOUS
      <3> QED  BY <1>1, <1>3 DEF TurnsIn
    <2> QED  BY <2>1, <2>2, <2>3
  <1>6. TurnsIn(r, T) \subseteq Nat /\ IsFiniteSet(TurnsIn(r, T)) /\ IsFiniteSet(TurnsIn(s, T))
    <2>1. TurnsIn(r, T) \subseteq Nat
      BY <1>1 DEF TurnsIn
    <2>2. IsFiniteSet(TurnsIn(r, T)) /\ IsFiniteSet(TurnsIn(s, T))
      BY TurnsInFinite
    <2> QED  BY <2>1, <2>2
  <1>7. IsFiniteSet(R) /\ Cardinality(R) = Cardinality(TurnsIn(r, T))
    BY <1>1, <1>6, Shifted
  <1>8. TurnsIn(s, T) \cap R = {}
    <2> SUFFICES ASSUME NEW i \in TurnsIn(s, T), NEW j \in TurnsIn(r, T), i = n + j PROVE FALSE
      OBVIOUS
    <2> QED  BY <1>1 DEF TurnsIn
  <1> QED  BY <1>5, <1>6, <1>7, <1>8, Apart DEF c

--------------------------------------------------------------------------------
(* Sums: the units that the numbers of a sequence make together. *)

Units(f) == UNION {{i} \X (1..f[i]) : i \in DOMAIN f}
Total(f) == Cardinality(Units(f))

LEMMA UnitsAre ==
    ASSUME NEW f \in Seq(Nat)
    PROVE  Units(f) = {p \in (1..Len(f)) \X Nat : p[2] \in 1..f[p[1]]}
  <1>1. DOMAIN f = 1..Len(f) /\ \A i \in 1..Len(f) : f[i] \in Nat
    OBVIOUS
  <1> QED  BY <1>1 DEF Units

LEMMA UnitsFinite ==
    ASSUME NEW f \in Seq(Nat)
    PROVE  IsFiniteSet(Units(f)) /\ Total(f) \in Nat
  <1> DEFINE n == Len(f)
             P == {{i} \X (1..f[i]) : i \in 1..n}
             g == [i \in 1..n |-> {i} \X (1..f[i])]
  <1>1. n \in Nat /\ DOMAIN f = 1..n /\ \A i \in 1..n : f[i] \in Nat
    OBVIOUS
  <1>2. g \in Surjection(1..n, P)
    BY DEF Surjection
  <1>3. IsFiniteSet(P)
    BY <1>1, <1>2, FS_Interval, FS_Surjection
  <1>4. \A T \in P : IsFiniteSet(T)
    <2> SUFFICES ASSUME NEW i \in 1..n PROVE IsFiniteSet({i} \X (1..f[i]))
      OBVIOUS
    <2>1. IsFiniteSet({i}) /\ IsFiniteSet(1..f[i])
      <3>1. 1 \in Int /\ f[i] \in Int
        BY <1>1
      <3>2. IsFiniteSet(1..f[i])
        BY <3>1, FS_Interval
      <3> QED  BY <3>2, FS_Singleton
    <2> QED  BY <2>1, FS_Product
  <1>5. IsFiniteSet(UNION P)
    BY <1>3, <1>4, FS_UNION
  <1> QED  BY <1>1, <1>5, FS_CardinalityType DEF Units, Total

LEMMA TotalOfNothing == Total(<<>>) = 0
  <1>1. Units(<<>>) = {}
    BY DEF Units
  <1> QED  BY <1>1, FS_EmptySet DEF Total

LEMMA TotalConcat ==
    ASSUME NEW f \in Seq(Nat), NEW g \in Seq(Nat)
    PROVE  Total(f \o g) = Total(f) + Total(g)
  <1> DEFINE n == Len(f)
             k == Len(g)
             c == f \o g
             h == [p \in Units(g) |-> <<n + p[1], p[2]>>]
             R == {<<n + p[1], p[2]>> : p \in Units(g)}
  <1>1. /\ n \in Nat /\ k \in Nat /\ Len(c) = n + k /\ c \in Seq(Nat)
        /\ \A i \in 1..n + k : c[i] = IF i <= n THEN f[i] ELSE g[i - n]
    BY ConcatProperties
  <1>2. /\ Units(f) = {p \in (1..n) \X Nat : p[2] \in 1..f[p[1]]}
        /\ Units(g) = {p \in (1..k) \X Nat : p[2] \in 1..g[p[1]]}
        /\ Units(c) = {p \in (1..n + k) \X Nat : p[2] \in 1..c[p[1]]}
    BY <1>1, UnitsAre
  <1> HIDE DEF c
  <1>3. \A i \in 1..n : i \in 1..n + k /\ c[i] = f[i]
    BY <1>1
  <1>4. \A i \in 1..k : n + i \in 1..n + k /\ c[n + i] = g[i]
    <2> SUFFICES ASSUME NEW i \in 1..k PROVE n + i \in 1..n + k /\ c[n + i] = g[i]
      OBVIOUS
    <2>1. n + i \in 1..n + k /\ ~(n + i <= n) /\ (n + i) - n = i
      BY <1>1
    <2> QED  BY <1>1, <2>1
  <1>5. \A i \in 1..n + k : i \in 1..n \/ \E j \in 1..k : i = n + j
    <2> SUFFICES ASSUME NEW i \in 1..n + k, i \notin 1..n PROVE \E j \in 1..k : i = n + j
      OBVIOUS
    <2>1. i - n \in 1..k /\ i = n + (i - n)
      BY <1>1
    <2> QED  BY <2>1
  <1>6. Units(c) = Units(f) \cup R
    <2>1. ASSUME NEW p \in Units(c) PROVE p \in Units(f) \cup R
      <3>1. p \in (1..n + k) \X Nat /\ p[2] \in 1..c[p[1]]
        BY <1>2
      <3>2. CASE p[1] \in 1..n
        BY <1>2, <1>3, <3>1, <3>2
      <3>3. CASE p[1] \notin 1..n
        <4>1. PICK j \in 1..k : p[1] = n + j
          BY <1>5, <3>1, <3>3
        <4>2. <<j, p[2]>> \in Units(g)
          BY <1>2, <1>4, <3>1, <4>1
        <4>3. p = <<n + j, p[2]>>
          BY <3>1, <4>1
        <4> QED  BY <4>2, <4>3
      <3> QED  BY <3>2, <3>3
    <2>2. ASSUME NEW p \in Units(f) PROVE p \in Units(c)
      <3>1. p \in (1..n) \X Nat /\ p[2] \in 1..f[p[1]]
        BY <1>2
      <3>2. p[1] \in 1..n + k /\ c[p[1]] = f[p[1]]
        BY <1>3, <3>1
      <3> QED  BY <1>2, <3>1, <3>2
    <2>3. ASSUME NEW p \in Units(g) PROVE <<n + p[1], p[2]>> \in Units(c)
      <3>1. p \in (1..k) \X Nat /\ p[2] \in 1..g[p[1]]
        BY <1>2
      <3>2. n + p[1] \in 1..n + k /\ c[n + p[1]] = g[p[1]]
        BY <1>4, <3>1
      <3> DEFINE u == <<n + p[1], p[2]>>
      <3>3. u \in (1..n + k) \X Nat /\ u[1] = n + p[1] /\ u[2] = p[2]
        BY <3>1, <3>2
      <3> HIDE DEF u
      <3>4. u \in Units(c)
        BY <1>2, <3>1, <3>2, <3>3
      <3> QED  BY <3>4 DEF u
    <2> QED  BY <2>1, <2>2, <2>3
  <1>7. IsFiniteSet(Units(f)) /\ IsFiniteSet(Units(g))
    BY UnitsFinite
  <1>8. IsFiniteSet(R) /\ Cardinality(R) = Cardinality(Units(g))
    <2>1. h \in Surjection(Units(g), R)
      BY DEF Surjection
    <2>2. ASSUME NEW p \in Units(g), NEW q \in Units(g), <<n + p[1], p[2]>> = <<n + q[1], q[2]>>
          PROVE  p = q
      <3>1. p \in (1..k) \X Nat /\ q \in (1..k) \X Nat
        BY <1>2
      <3>2. n + p[1] = n + q[1] /\ p[2] = q[2]
        BY <2>2
      <3>3. p[1] = q[1]
        BY <1>1, <3>1, <3>2
      <3>4. p = <<p[1], p[2]>> /\ q = <<q[1], q[2]>>
        BY <3>1
      <3> QED  BY <3>2, <3>3, <3>4
    <2>3. h \in Injection(Units(g), R)
      BY <2>1, <2>2 DEF Surjection, Injection, IsInjective
    <2> QED  BY <1>7, <2>1, <2>3, FS_Surjection
  <1>9. Units(f) \cap R = {}
    <2> SUFFICES ASSUME NEW p \in Units(f), NEW q \in Units(g), p = <<n + q[1], q[2]>> PROVE FALSE
      OBVIOUS
    <2>1. p[1] \in 1..n /\ q[1] \in 1..k /\ p[1] = n + q[1]
      BY <1>2
    <2> QED  BY <1>1, <2>1
  <1> QED  BY <1>6, <1>7, <1>8, <1>9, Apart DEF Total, c

LEMMA TotalOfOne ==
    ASSUME NEW x \in Nat
    PROVE  Total(<<x>>) = x
  <1> DEFINE R == {<<1, i>> : i \in 1..x}
             h == [i \in 1..x |-> <<1, i>>]
  <1>1. Units(<<x>>) = R
    <2>1. <<x>> \in Seq(Nat) /\ Len(<<x>>) = 1 /\ <<x>>[1] = x
      OBVIOUS
    <2>2. Units(<<x>>) = {p \in (1..1) \X Nat : p[2] \in 1..<<x>>[p[1]]}
      BY <2>1, UnitsAre
    <2> QED  BY <2>2
  <1>2. h \in Surjection(1..x, R) /\ h \in Injection(1..x, R)
    BY DEF Surjection, Injection, IsInjective
  <1>3. IsFiniteSet(1..x) /\ Cardinality(1..x) = x
    <2>1. 1 \in Int /\ x \in Int
      OBVIOUS
    <2>2. IsFiniteSet(1..x) /\ Cardinality(1..x) = IF 1 > x THEN 0 ELSE x - 1 + 1
      BY <2>1, FS_Interval
    <2> QED  BY <2>2
  <1> HIDE DEF h, R
  <1>4. Cardinality(R) = Cardinality(1..x)
    BY <1>2, <1>3, FS_Surjection
  <1> QED  BY <1>1, <1>3, <1>4 DEF Total

LEMMA TotalAppend ==
    ASSUME NEW f \in Seq(Nat), NEW x \in Nat
    PROVE  Total(Append(f, x)) = Total(f) + x
  <1>1. Append(f, x) = f \o <<x>> /\ <<x>> \in Seq(Nat)
    BY AppendIsConcat
  <1> QED  BY <1>1, TotalConcat, TotalOfOne

--------------------------------------------------------------------------------
(* The greatest of finitely many numbers. *)

LEMMA FiniteIsBounded ==
    ASSUME NEW S \in SUBSET Nat, IsFiniteSet(S)
    PROVE  \E b \in Nat : \A x \in S : x <= b
  <1>1. PICK n \in Nat : ExistsBijection(1..n, S)
    BY FS_NatBijection
  <1>2. PICK f : f \in Bijection(1..n, S)
    BY <1>1 DEF ExistsBijection
  <1>3. f \in [1..n -> S] /\ \A x \in S : \E i \in 1..n : f[i] = x
    BY <1>2 DEF Bijection, Injection, Surjection
  <1> DEFINE Bounds(m) == \E b \in Nat : \A i \in 1..m : f[i] <= b
             T == {m \in Nat : m <= n /\ ~ Bounds(m)}
  <1>4. T = {}
    <2> SUFFICES ASSUME T # {} PROVE FALSE
      OBVIOUS
    <2>1. PICK m \in T : \A k \in T : ~ (<<k, m>> \in OpToRel(<, Nat))
      <3>1. T \subseteq Nat
        OBVIOUS
      <3> HIDE DEF T
      <3> QED  BY <3>1, WFMin, NatLessThanWellFounded
    <2>2. \A k \in T : ~ (k < m)
      <3> SUFFICES ASSUME NEW k \in T, k < m PROVE FALSE
        OBVIOUS
      <3>1. k \in Nat /\ m \in Nat
        OBVIOUS
      <3> HIDE DEF T
      <3> QED  BY <2>1, <3>1 DEF OpToRel
    <2>3. m # 0
      <3> SUFFICES ASSUME m = 0 PROVE FALSE
        OBVIOUS
      <3>1. \A i \in 1..m : f[i] <= 0
        OBVIOUS
      <3> QED  BY <3>1
    <2>4. m - 1 \in Nat /\ m - 1 < m /\ m - 1 <= n /\ m \in 1..n
      BY <2>3
    <2>5. PICK b \in Nat : \A i \in 1..(m - 1) : f[i] <= b
      BY <2>2, <2>4
    <2>6. f[m] \in Nat
      BY <1>3, <2>4
    <2>7. PICK b2 \in Nat : b <= b2 /\ f[m] <= b2
      <3>1. CASE b <= f[m]
        BY <2>6, <3>1
      <3>2. CASE f[m] <= b
        BY <2>6, <3>2
      <3> QED  BY <2>6, <3>1, <3>2
    <2>8. \A i \in 1..m : f[i] <= b2
      <3> SUFFICES ASSUME NEW i \in 1..m PROVE f[i] <= b2
        OBVIOUS
      <3>1. i \in 1..n /\ f[i] \in Nat
        <4>1. m \in Nat /\ m <= n
          OBVIOUS
        <4>2. i \in 1..n
          BY <4>1
        <4> QED  BY <1>3, <4>2
      <3>2. i = m \/ i \in 1..(m - 1)
        BY <2>4
      <3> QED  BY <2>5, <2>7, <3>1, <3>2
    <2>9. Bounds(m)
      BY <2>7, <2>8
    <2> QED  BY <2>9
  <1>5. Bounds(n)
    BY <1>4
  <1> QED  BY <1>3, <1>5

LEMMA MaxIsGreatest ==
    ASSUME NEW S \in SUBSET Nat, IsFiniteSet(S), S # {}
    PROVE  Max(S) \in S /\ \A x \in S : x <= Max(S)
  <1> DEFINE B == {b \in Nat : \A x \in S : x <= b}
  <1>1. B \subseteq Nat /\ B # {}
    BY FiniteIsBounded
  <1>2. PICK m \in B : \A k \in B : ~ (<<k, m>> \in OpToRel(<, Nat))
    <2> HIDE DEF B
    <2> QED  BY <1>1, WFMin, NatLessThanWellFounded
  <1>3. \A k \in B : ~ (k < m)
    <2> SUFFICES ASSUME NEW k \in B, k < m PROVE FALSE
      OBVIOUS
    <2>1. k \in Nat /\ m \in Nat
      OBVIOUS
    <2> HIDE DEF B
    <2> QED  BY <1>2, <2>1 DEF OpToRel
  <1>4. m \in S
    <2> SUFFICES ASSUME m \notin S PROVE FALSE
      OBVIOUS
    <2>1. \A x \in S : x <= m - 1 /\ x \in Nat
      OBVIOUS
    <2>2. m - 1 \in Nat /\ m - 1 < m
      <3>1. PICK x \in S : TRUE
        OBVIOUS
      <3>2. x \in Nat /\ x <= m - 1 /\ m \in Nat
        BY <2>1
      <3> HIDE DEF B
      <3> QED  BY <3>2
    <2>3. m - 1 \in B
      BY <2>1, <2>2
    <2> QED  BY <1>3, <2>2, <2>3
  <1>5. \E x \in S : \A y \in S : x >= y
    BY <1>4
  <1>6. Max(S) \in S /\ \A y \in S : Max(S) >= y
    BY <1>5 DEF Max
  <1> QED  BY <1>6

LEMMA MaxOfInterval ==
    ASSUME NEW n \in Nat
    PROVE  Max(0..n) = n
  <1>1. \A x \in 0..n : (\A y \in 0..n : x >= y) <=> x = n
    OBVIOUS
  <1> QED  BY <1>1 DEF Max

--------------------------------------------------------------------------------
(* The inductive invariant of the advisor. *)

TurnType == [conv : Nat, seq : Nat, role : {"user", "assistant"}, content : BOOLEAN, calls : Nat, tokens : Nat]
AuditCount == [started : Nat, toolCalled : Nat, responded : Nat]
AskType == [at : {"model"}, conv : Nat, new : BOOLEAN, rounds : Nat, limit : 1..MostToolCalls, rows : Seq(TurnType), trail : AuditCount]
Admitted == [at |-> "admitted"]

ConvTurns(c) == {t \in TurnType : t.conv = c}
UserTurns == {t \in TurnType : t.role = "user"}
FinalTurns == {t \in TurnType : t.role = "assistant" /\ t.calls = 0}
RoundTurns == {t \in TurnType : t.calls > 0}
AnswerTurns == {t \in TurnType : t.role = "assistant" /\ t.content}
TokensOf(s) == [i \in 1..Len(s) |-> s[i].tokens]
CallsOf(s) == [i \in 1..Len(s) |-> s[i].calls]
Count(s, T) == Cardinality(TurnsIn(s, T))

AdvisorTypeOK ==
    /\ turns \in Seq(TurnType)
    /\ conversations \in SUBSET (Nat \ {0}) /\ IsFiniteSet(conversations)
    /\ audited \in AuditCount
    /\ ask \in [Askers -> {NotAsking, Admitted} \cup AskType]

\* What a transaction has written: one question, a turn for each round of tools, an answer if
\* it has one, and audit counts that fit them.
CallCounts(txn, final) ==
    /\ txn.conv # 0 /\ txn.rounds <= txn.limit
    /\ \A i \in 1..Len(txn.rows) : txn.rows[i].conv = txn.conv
    /\ Count(txn.rows, UserTurns) = 1
    /\ Count(txn.rows, FinalTurns) = final
    /\ Count(txn.rows, RoundTurns) = txn.rounds
    /\ Total(TokensOf(txn.rows)) <= (txn.rounds + final) * CallTokens
    /\ txn.trail.toolCalled = Total(CallsOf(txn.rows))
    /\ txn.trail.responded = Count(txn.rows, AnswerTurns)
    /\ txn.trail.started = IF txn.new THEN 1 ELSE 0
CallsAreCounted == \A q \in Askers : ask[q].at = "model" => CallCounts(ask[q], 0)

\* A conversation is new to one transaction only.
NewAreNew ==
    \A q \in Askers : ask[q].at = "model" =>
        /\ ask[q].new =>
             /\ ask[q].conv \notin conversations
             /\ \A p \in Askers \ {q} : ask[p].at = "model" /\ ask[p].new => ask[p].conv # ask[q].conv
        /\ ~ask[q].new => ask[q].conv \in conversations
TurnsHaveConversations == \A i \in 1..Len(turns) : turns[i].conv \in conversations

\* On SQLite a transaction is alone, and numbers its turns from where the others ended.
Numbered(txn) == \A i \in 1..Len(txn.rows) : txn.rows[i].seq = Count(turns, ConvTurns(txn.conv)) + i - 1
AsksAreAlone ==
    advisorDb = "sqlite" =>
        \A q \in Askers : ask[q].at = "model" =>
            /\ \A p \in Askers \ {q} : ask[p].at # "model"
            /\ Numbered(ask[q])
SeqsOf(c) == {turns[i].seq : i \in TurnsIn(turns, ConvTurns(c))}
ConversationsAreNumbered ==
    advisorDb = "sqlite" => \A c \in Nat : SeqsOf(c) = 0..(Count(turns, ConvTurns(c)) - 1)

AuditFits ==
    /\ audited.started = Cardinality(conversations)
    /\ audited.toolCalled = Total(CallsOf(turns))
    /\ audited.responded = Count(turns, AnswerTurns)

\* Who is admitted or asking may still be charged; the others have been.
Charging == {q \in Askers : ask[q] # NotAsking}
PerAsk == (MostToolCalls + 1) * CallTokens
BudgetFits ==
    Total(TokensOf(turns)) <= (TokenLimit - 1) + (Cardinality(Askers) - Cardinality(Charging)) * PerAsk

AnswersFit ==
    \A c \in Nat :
        LET asked == Count(turns, ConvTurns(c) \cap UserTurns)
            final == Count(turns, ConvTurns(c) \cap FinalTurns)
        IN final <= asked /\ asked - final <= Count(turns, ConvTurns(c) \cap RoundTurns)

AdvisorInv ==
    /\ AdvisorTypeOK
    /\ CallsAreCounted
    /\ NewAreNew
    /\ TurnsHaveConversations
    /\ AsksAreAlone
    /\ ConversationsAreNumbered
    /\ AuditFits
    /\ BudgetFits
    /\ AnswersFit

\* The numbers of the turns of a sequence.
LEMMA NumbersOf ==
    ASSUME NEW s \in Seq(TurnType)
    PROVE  TokensOf(s) \in Seq(Nat) /\ CallsOf(s) \in Seq(Nat)
  <1>1. Len(s) \in Nat
    OBVIOUS
  <1>2. \A i \in 1..Len(s) : s[i] \in TurnType
    BY ElementOfSeq
  <1>3. \A i \in 1..Len(s) : s[i].tokens \in Nat /\ s[i].calls \in Nat
    BY <1>2 DEF TurnType
  <1>4. TokensOf(s) \in [1..Len(s) -> Nat]
    BY <1>3, Zenon DEF TokensOf
  <1>5. CallsOf(s) \in [1..Len(s) -> Nat]
    BY <1>3, Zenon DEF CallsOf
  <1>6. Seq(Nat) = UNION {[1..n -> Nat] : n \in Nat}
    BY SeqDef
  <1>7. \A n \in Nat : \A f \in [1..n -> Nat] : f \in Seq(Nat)
    BY <1>6, Zenon
  <1> QED  BY <1>1, <1>4, <1>5, <1>7

LEMMA NumbersAppend ==
    ASSUME NEW s \in Seq(TurnType), NEW e \in TurnType
    PROVE  /\ Total(TokensOf(Append(s, e))) = Total(TokensOf(s)) + e.tokens
           /\ Total(CallsOf(Append(s, e))) = Total(CallsOf(s)) + e.calls
  <1> DEFINE n == Len(s)
             s2 == Append(s, e)
  <1>1. /\ s2 \in Seq(TurnType) /\ n \in Nat /\ Len(s2) = n + 1 /\ s2[n + 1] = e
        /\ \A i \in 1..n : s2[i] = s[i]
    BY AppendProperties
  <1>2. e.tokens \in Nat /\ e.calls \in Nat
    BY DEF TurnType
  <1>3. TokensOf(s) \in Seq(Nat) /\ CallsOf(s) \in Seq(Nat)
    BY NumbersOf
  <1> HIDE DEF s2
  <1>4. TokensOf(s2) = Append(TokensOf(s), e.tokens)
    <2>1. Len(TokensOf(s)) = n /\ \A i \in 1..n : TokensOf(s)[i] = s[i].tokens
      BY <1>1, <1>3 DEF TokensOf
    <2>2. Append(TokensOf(s), e.tokens) = [i \in 1..n + 1 |-> IF i <= n THEN TokensOf(s)[i] ELSE e.tokens]
      BY <1>1, <1>3, <2>1
    <2> QED  BY <1>1, <2>1, <2>2 DEF TokensOf
  <1>5. CallsOf(s2) = Append(CallsOf(s), e.calls)
    <2>1. Len(CallsOf(s)) = n /\ \A i \in 1..n : CallsOf(s)[i] = s[i].calls
      BY <1>1, <1>3 DEF CallsOf
    <2>2. Append(CallsOf(s), e.calls) = [i \in 1..n + 1 |-> IF i <= n THEN CallsOf(s)[i] ELSE e.calls]
      BY <1>1, <1>3, <2>1
    <2> QED  BY <1>1, <2>1, <2>2 DEF CallsOf
  <1> QED  BY <1>2, <1>3, <1>4, <1>5, TotalAppend DEF s2

LEMMA NumbersConcat ==
    ASSUME NEW s \in Seq(TurnType), NEW r \in Seq(TurnType)
    PROVE  /\ Total(TokensOf(s \o r)) = Total(TokensOf(s)) + Total(TokensOf(r))
           /\ Total(CallsOf(s \o r)) = Total(CallsOf(s)) + Total(CallsOf(r))
  <1> DEFINE n == Len(s)
             k == Len(r)
             c == s \o r
  <1>1. /\ c \in Seq(TurnType) /\ n \in Nat /\ k \in Nat /\ Len(c) = n + k
        /\ \A i \in 1..n + k : c[i] = IF i <= n THEN s[i] ELSE r[i - n]
    BY ConcatProperties
  <1>2. /\ TokensOf(s) \in Seq(Nat) /\ CallsOf(s) \in Seq(Nat)
        /\ TokensOf(r) \in Seq(Nat) /\ CallsOf(r) \in Seq(Nat)
    BY NumbersOf
  <1> HIDE DEF c
  <1>3. \A i \in 1..n + k : i \in 1..n \/ (~(i <= n) /\ i - n \in 1..k)
    BY <1>1
  <1>4. TokensOf(c) = TokensOf(s) \o TokensOf(r)
    <2>1. /\ Len(TokensOf(s)) = n /\ \A i \in 1..n : TokensOf(s)[i] = s[i].tokens
          /\ Len(TokensOf(r)) = k /\ \A i \in 1..k : TokensOf(r)[i] = r[i].tokens
      BY <1>1, <1>2 DEF TokensOf
    <2>2. /\ TokensOf(s) \o TokensOf(r) \in Seq(Nat) /\ Len(TokensOf(s) \o TokensOf(r)) = n + k
          /\ \A i \in 1..n + k : (TokensOf(s) \o TokensOf(r))[i] = IF i <= n THEN TokensOf(s)[i] ELSE TokensOf(r)[i - n]
      <3> DEFINE f == TokensOf(s)
                 g == TokensOf(r)
      <3>1. f \in Seq(Nat) /\ g \in Seq(Nat) /\ Len(f) = n /\ Len(g) = k
        BY <1>2, <2>1
      <3> HIDE DEF f, g, n, k
      <3>2. f \o g \in Seq(Nat) /\ Len(f \o g) = Len(f) + Len(g)
        BY <3>1, ConcatProperties
      <3>3. \A i \in 1..(Len(f) + Len(g)) : (f \o g)[i] = IF i <= Len(f) THEN f[i] ELSE g[i - Len(f)]
        BY <3>1, ConcatProperties
      <3>4. Len(f \o g) = n + k /\ \A i \in 1..n + k : (f \o g)[i] = IF i <= n THEN f[i] ELSE g[i - n]
        BY <3>1, <3>2, <3>3
      <3> QED  BY <3>2, <3>4 DEF f, g
    <2>3. \A i \in 1..n + k : c[i].tokens = IF i <= n THEN TokensOf(s)[i] ELSE TokensOf(r)[i - n]
      BY <1>1, <1>3, <2>1
    <2>4. /\ TokensOf(c) \in Seq(Nat) /\ Len(TokensOf(c)) = n + k
          /\ \A i \in 1..n + k : TokensOf(c)[i] = c[i].tokens
      <3>1. TokensOf(c) \in Seq(Nat)
        BY <1>1, NumbersOf
      <3>2. TokensOf(c) = [i \in 1..(n + k) |-> c[i].tokens]
        BY <1>1 DEF TokensOf
      <3> QED  BY <1>1, <3>1, <3>2
    <2> HIDE DEF n, k
    <2> QED  BY <2>2, <2>3, <2>4, SeqEqual
  <1>5. CallsOf(c) = CallsOf(s) \o CallsOf(r)
    <2>1. /\ Len(CallsOf(s)) = n /\ \A i \in 1..n : CallsOf(s)[i] = s[i].calls
          /\ Len(CallsOf(r)) = k /\ \A i \in 1..k : CallsOf(r)[i] = r[i].calls
      BY <1>1, <1>2 DEF CallsOf
    <2>2. /\ CallsOf(s) \o CallsOf(r) \in Seq(Nat) /\ Len(CallsOf(s) \o CallsOf(r)) = n + k
          /\ \A i \in 1..n + k : (CallsOf(s) \o CallsOf(r))[i] = IF i <= n THEN CallsOf(s)[i] ELSE CallsOf(r)[i - n]
      <3> DEFINE f == CallsOf(s)
                 g == CallsOf(r)
      <3>1. f \in Seq(Nat) /\ g \in Seq(Nat) /\ Len(f) = n /\ Len(g) = k
        BY <1>2, <2>1
      <3> HIDE DEF f, g, n, k
      <3>2. f \o g \in Seq(Nat) /\ Len(f \o g) = Len(f) + Len(g)
        BY <3>1, ConcatProperties
      <3>3. \A i \in 1..(Len(f) + Len(g)) : (f \o g)[i] = IF i <= Len(f) THEN f[i] ELSE g[i - Len(f)]
        BY <3>1, ConcatProperties
      <3>4. Len(f \o g) = n + k /\ \A i \in 1..n + k : (f \o g)[i] = IF i <= n THEN f[i] ELSE g[i - n]
        BY <3>1, <3>2, <3>3
      <3> QED  BY <3>2, <3>4 DEF f, g
    <2>3. \A i \in 1..n + k : c[i].calls = IF i <= n THEN CallsOf(s)[i] ELSE CallsOf(r)[i - n]
      BY <1>1, <1>3, <2>1
    <2>4. /\ CallsOf(c) \in Seq(Nat) /\ Len(CallsOf(c)) = n + k
          /\ \A i \in 1..n + k : CallsOf(c)[i] = c[i].calls
      <3>1. CallsOf(c) \in Seq(Nat)
        BY <1>1, NumbersOf
      <3>2. CallsOf(c) = [i \in 1..(n + k) |-> c[i].calls]
        BY <1>1 DEF CallsOf
      <3> QED  BY <1>1, <3>1, <3>2
    <2> HIDE DEF n, k
    <2> QED  BY <2>2, <2>3, <2>4, SeqEqual
  <1> QED  BY <1>2, <1>4, <1>5, TotalConcat DEF c

LEMMA NothingCounted ==
    /\ \A T : Count(<<>>, T) = 0
    /\ Total(TokensOf(<<>>)) = 0 /\ Total(CallsOf(<<>>)) = 0
  <1>1. \A T : TurnsIn(<<>>, T) = {}
    BY DEF TurnsIn
  <1>2. TokensOf(<<>>) = <<>> /\ CallsOf(<<>>) = <<>>
    BY DEF TokensOf, CallsOf
  <1> QED  BY <1>1, <1>2, FS_EmptySet, TotalOfNothing DEF Count

\* The turn that Written adds, and its number.
LEMMA TurnIs ==
    ASSUME AdvisorTypeOK, NEW c \in Nat, NEW own \in Seq(TurnType), NEW role \in {"user", "assistant"},
           NEW content \in BOOLEAN, NEW calls \in Nat, NEW tokens \in Nat
    PROVE  /\ Turn(c, own, role, content, calls, tokens) \in TurnType
           /\ Turn(c, own, role, content, calls, tokens) =
                [conv |-> c, seq |-> NextSequence(c, own), role |-> role, content |-> content,
                 calls |-> calls, tokens |-> tokens]
  <1> DEFINE seen == {turns[i].seq : i \in {j \in DOMAIN turns : turns[j].conv = c}}
                     \cup {own[i].seq : i \in DOMAIN own}
             g == [i \in 1..Len(turns) |-> turns[i].seq]
             h == [i \in 1..Len(own) |-> own[i].seq]
             G == {g[i] : i \in 1..Len(turns)}
             H == {h[i] : i \in 1..Len(own)}
  <1>0. (\A i \in 1..Len(turns) : turns[i] \in TurnType) /\ (\A i \in 1..Len(own) : own[i] \in TurnType)
    BY ElementOfSeq DEF AdvisorTypeOK
  <1>1. /\ DOMAIN turns = 1..Len(turns) /\ Len(turns) \in Nat
        /\ DOMAIN own = 1..Len(own) /\ Len(own) \in Nat
        /\ \A i \in 1..Len(turns) : turns[i].seq \in Nat
        /\ \A i \in 1..Len(own) : own[i].seq \in Nat
    BY <1>0 DEF AdvisorTypeOK, TurnType
  <1>2. seen \subseteq G \cup H /\ G \cup H \subseteq Nat
    BY <1>1
  <1>3. g \in Surjection(1..Len(turns), G) /\ h \in Surjection(1..Len(own), H)
    BY DEF Surjection
  <1>4. IsFiniteSet(1..Len(turns)) /\ IsFiniteSet(1..Len(own))
    BY <1>1, FS_Interval
  <1>5. IsFiniteSet(G) /\ IsFiniteSet(H)
    BY <1>3, <1>4, FS_Surjection
  <1>6. IsFiniteSet(seen) /\ seen \subseteq Nat
    <2> HIDE DEF seen, G, H
    <2> QED  BY <1>2, <1>5, FS_Union, FS_Subset
  <1>7. NextSequence(c, own) = IF seen = {} THEN 0 ELSE Max(seen) + 1
    BY DEF NextSequence
  <1> HIDE DEF seen
  <1>8. NextSequence(c, own) \in Nat
    <2>1. CASE seen = {}
      BY <1>7, <2>1
    <2>2. CASE seen # {}
      <3>1. Max(seen) \in Nat
        BY <1>6, <2>2, MaxIsGreatest
      <3> QED  BY <1>7, <2>2, <3>1
    <2> QED  BY <2>1, <2>2
  <1> QED  BY <1>8 DEF Turn, TurnType

LEMMA SeqIsNext ==
    ASSUME AdvisorTypeOK, NEW c \in Nat, NEW own \in Seq(TurnType),
           SeqsOf(c) = 0..(Count(turns, ConvTurns(c)) - 1),
           \A i \in 1..Len(own) : own[i].seq = Count(turns, ConvTurns(c)) + i - 1
    PROVE  NextSequence(c, own) = Count(turns, ConvTurns(c)) + Len(own)
  <1> DEFINE m == Count(turns, ConvTurns(c))
             k == Len(own)
             seen == {turns[i].seq : i \in {j \in DOMAIN turns : turns[j].conv = c}}
                     \cup {own[i].seq : i \in DOMAIN own}
  <1>1. m \in Nat /\ k \in Nat
    BY TurnsInFinite DEF AdvisorTypeOK, Count
  <1>2. {j \in DOMAIN turns : turns[j].conv = c} = TurnsIn(turns, ConvTurns(c))
    BY DEF AdvisorTypeOK, TurnsIn, ConvTurns
  <1>3. DOMAIN own = 1..k
    OBVIOUS
  <1>4. seen = SeqsOf(c) \cup {own[i].seq : i \in 1..k}
    BY <1>2, <1>3 DEF SeqsOf
  <1>5. NextSequence(c, own) = IF seen = {} THEN 0 ELSE Max(seen) + 1
    BY DEF NextSequence
  <1> HIDE DEF m, k, seen
  <1>6. seen = 0..(m + k - 1)
    <2>1. \A x \in 0..(m + k - 1) : x \in 0..(m - 1) \/ \E i \in 1..k : own[i].seq = x
      <3> SUFFICES ASSUME NEW x \in 0..(m + k - 1), x \notin 0..(m - 1) PROVE \E i \in 1..k : own[i].seq = x
        OBVIOUS
      <3>1. x - m + 1 \in 1..k /\ m + (x - m + 1) - 1 = x
        BY <1>1
      <3>2. own[x - m + 1].seq = m + (x - m + 1) - 1
        BY <3>1 DEF m, k
      <3> QED  BY <3>1, <3>2
    <2>2. \A i \in 1..k : own[i].seq \in 0..(m + k - 1)
      <3> SUFFICES ASSUME NEW i \in 1..k PROVE own[i].seq \in 0..(m + k - 1)
        OBVIOUS
      <3>1. own[i].seq = m + i - 1
        BY DEF m, k
      <3> QED  BY <1>1, <3>1
    <2>3. SeqsOf(c) = 0..(m - 1)
      BY DEF m
    <2>4. 0..(m - 1) \subseteq 0..(m + k - 1)
      BY <1>1
    <2> QED  BY <1>4, <2>1, <2>2, <2>3, <2>4
  <1>7. CASE m + k = 0
    <2>1. seen = {}
      BY <1>1, <1>6, <1>7
    <2> QED  BY <1>5, <1>7, <2>1 DEF m, k
  <1>8. CASE m + k # 0
    <2>1. m + k - 1 \in Nat
      BY <1>1, <1>8
    <2>2. seen # {} /\ Max(seen) = m + k - 1
      BY <1>6, <2>1, MaxOfInterval
    <2>3. NextSequence(c, own) = (m + k - 1) + 1
      BY <1>5, <2>2
    <2>4. (m + k - 1) + 1 = m + k
      BY <1>1
    <2> QED  BY <2>3, <2>4 DEF m, k
  <1> QED  BY <1>7, <1>8

--------------------------------------------------------------------------------
(* What Written does to a transaction. *)

\* e is written to call, which becomes w.
Grown(txn, w, e) ==
    /\ w \in AskType /\ e \in TurnType
    /\ w.rows = Append(txn.rows, e) /\ w.conv = txn.conv /\ w.new = txn.new /\ w.limit = txn.limit
    /\ e.conv = txn.conv /\ e.seq = NextSequence(txn.conv, txn.rows)
    /\ w.trail.started = txn.trail.started
    /\ w.trail.toolCalled = txn.trail.toolCalled + e.calls
    /\ w.trail.responded = txn.trail.responded + (IF e \in AnswerTurns THEN 1 ELSE 0)

WrittenFits(txn, role, content, calls, tokens) ==
    LET w == Written(txn, role, content, calls, tokens)
        e == Turn(txn.conv, txn.rows, role, content, calls, tokens)
    IN /\ e.role = role /\ e.calls = calls /\ e.tokens = tokens
       /\ Grown(txn, w, e) /\ w.rounds = txn.rounds

LEMMA WrittenIs ==
    ASSUME AdvisorTypeOK, NEW txn \in AskType, NEW role \in {"user", "assistant"},
           NEW content \in BOOLEAN, NEW calls \in Nat, NEW tokens \in Nat
    PROVE  WrittenFits(txn, role, content, calls, tokens)
  <1> DEFINE w == Written(txn, role, content, calls, tokens)
             e == Turn(txn.conv, txn.rows, role, content, calls, tokens)
             tr == [txn.trail EXCEPT !.toolCalled = txn.trail.toolCalled + calls,
                            !.responded = txn.trail.responded + (IF role = "assistant" /\ content THEN 1 ELSE 0)]
  <1>1. /\ txn.conv \in Nat /\ txn.rows \in Seq(TurnType) /\ txn.trail \in AuditCount
        /\ txn.rounds \in Nat /\ txn.new \in BOOLEAN /\ txn.limit \in 1..MostToolCalls /\ txn.at = "model"
    BY DEF AskType
  <1>2. /\ e \in TurnType
        /\ e = [conv |-> txn.conv, seq |-> NextSequence(txn.conv, txn.rows), role |-> role, content |-> content,
                calls |-> calls, tokens |-> tokens]
    <2>1. Turn(txn.conv, txn.rows, role, content, calls, tokens) \in TurnType
      BY <1>1, TurnIs
    <2> QED  BY <2>1 DEF Turn
  <1>3. /\ e.conv = txn.conv /\ e.seq = NextSequence(txn.conv, txn.rows) /\ e.role = role
        /\ e.content = content /\ e.calls = calls /\ e.tokens = tokens
    BY <1>2
  <1>4. (e \in AnswerTurns) <=> (role = "assistant" /\ content)
    BY <1>2, <1>3 DEF AnswerTurns
  <1>5. /\ tr \in AuditCount /\ tr.started = txn.trail.started
        /\ tr.toolCalled = txn.trail.toolCalled + calls
        /\ tr.responded = txn.trail.responded + (IF role = "assistant" /\ content THEN 1 ELSE 0)
    <2> DEFINE t == txn.trail
               n1 == t.toolCalled + calls
               n2 == t.responded + (IF role = "assistant" /\ content THEN 1 ELSE 0)
    <2>1. t \in AuditCount /\ t.toolCalled \in Nat /\ t.responded \in Nat
      BY <1>1 DEF AuditCount
    <2>2. n1 \in Nat /\ n2 \in Nat
      BY <2>1
    <2>3. tr = [t EXCEPT !.toolCalled = n1, !.responded = n2]
      OBVIOUS
    <2> HIDE DEF t, n1, n2, tr
    <2>4. tr \in AuditCount /\ tr.started = t.started /\ tr.toolCalled = n1 /\ tr.responded = n2
      BY <2>1, <2>2, <2>3 DEF AuditCount
    <2> QED  BY <2>4 DEF t, n1, n2
  <1>6. w = [txn EXCEPT !.rows = Append(txn.rows, e), !.trail = tr]
    BY DEF Written
  <1> HIDE DEF e, tr
  <1>7. Append(txn.rows, e) \in Seq(TurnType)
    BY <1>1, <1>2
  <1>8. /\ w \in AskType /\ w.rows = Append(txn.rows, e) /\ w.conv = txn.conv /\ w.new = txn.new
        /\ w.trail = tr /\ w.rounds = txn.rounds /\ w.limit = txn.limit
    BY <1>1, <1>5, <1>6, <1>7 DEF AskType
  <1> HIDE DEF w
  <1>10. Grown(txn, w, e)
    BY <1>2, <1>3, <1>4, <1>5, <1>8 DEF Grown
  <1> QED  BY <1>3, <1>8, <1>10 DEF WrittenFits, w, e

LEMMA RoundIs ==
    ASSUME NEW txn, NEW w, NEW e, Grown(txn, w, e), NEW more \in Nat
    PROVE  Grown(txn, [w EXCEPT !.rounds = more], e) /\ [w EXCEPT !.rounds = more].rounds = more
  <1> DEFINE w2 == [w EXCEPT !.rounds = more]
  <1>1. w \in AskType
    BY DEF Grown
  <1>2. /\ w2 \in AskType /\ w2.rows = w.rows /\ w2.conv = w.conv /\ w2.new = w.new
        /\ w2.trail = w.trail /\ w2.rounds = more /\ w2.limit = w.limit
    BY <1>1 DEF AskType
  <1> HIDE DEF w2
  <1>3. Grown(txn, w2, e) /\ w2.rounds = more
    BY <1>2 DEF Grown
  <1> QED  BY <1>3 DEF w2

LEMMA CountsAre ==
    ASSUME NEW s \in Seq(TurnType), NEW T
    PROVE  Count(s, T) \in Nat
  BY TurnsInFinite DEF Count

LEMMA CountAppend ==
    ASSUME NEW s \in Seq(TurnType), NEW e \in TurnType, NEW T
    PROVE  Count(Append(s, e), T) = Count(s, T) + (IF e \in T THEN 1 ELSE 0)
  BY TurnsInAppend DEF Count

LEMMA TotalsAre ==
    ASSUME NEW s \in Seq(TurnType)
    PROVE  Total(TokensOf(s)) \in Nat /\ Total(CallsOf(s)) \in Nat
  BY NumbersOf, UnitsFinite

\* One more round of c tokens at most.
LEMMA OneMore ==
    ASSUME NEW r \in Nat, NEW c \in Nat, NEW x \in Nat, NEW t \in 0..c, x <= r * c
    PROVE  x + t <= (r + 1) * c
  <1>1. (r + 1) * c = r * c + c /\ r * c \in Nat
    OBVIOUS
  <1> QED  BY <1>1

\* The question, a round of tools or the answer is written.
LEMMA GrowthCounts ==
    ASSUME NEW txn \in AskType, NEW w, NEW e, Grown(txn, w, e)
    PROVE  /\ (\A i \in 1..Len(txn.rows) : txn.rows[i].conv = txn.conv)
              => \A i \in 1..Len(w.rows) : w.rows[i].conv = w.conv
           /\ \A T : Count(w.rows, T) = Count(txn.rows, T) + (IF e \in T THEN 1 ELSE 0)
           /\ Total(TokensOf(w.rows)) = Total(TokensOf(txn.rows)) + e.tokens
           /\ Total(CallsOf(w.rows)) = Total(CallsOf(txn.rows)) + e.calls
  <1>1. txn.rows \in Seq(TurnType) /\ e \in TurnType /\ w.rows = Append(txn.rows, e) /\ w.conv = txn.conv
        /\ e.conv = txn.conv
    BY DEF AskType, Grown
  <1>2. \A T : Count(w.rows, T) = Count(txn.rows, T) + (IF e \in T THEN 1 ELSE 0)
    BY <1>1, CountAppend
  <1>3. /\ Total(TokensOf(w.rows)) = Total(TokensOf(txn.rows)) + e.tokens
        /\ Total(CallsOf(w.rows)) = Total(CallsOf(txn.rows)) + e.calls
    BY <1>1, NumbersAppend
  <1>4. /\ Len(txn.rows) \in Nat /\ Len(w.rows) = Len(txn.rows) + 1 /\ w.rows[Len(txn.rows) + 1] = e
        /\ \A i \in 1..Len(txn.rows) : w.rows[i] = txn.rows[i]
    BY <1>1, AppendProperties
  <1>5. \A i \in 1..Len(w.rows) : i \in 1..Len(txn.rows) \/ i = Len(txn.rows) + 1
    BY <1>4
  <1>6. ASSUME \A i \in 1..Len(txn.rows) : txn.rows[i].conv = txn.conv
        PROVE  \A i \in 1..Len(w.rows) : w.rows[i].conv = w.conv
    BY <1>1, <1>4, <1>5, <1>6
  <1> QED  BY <1>2, <1>3, <1>6

LEMMA AnswerCounts ==
    ASSUME AdvisorAssumption, NEW txn \in AskType, CallCounts(txn, 0), NEW w, NEW e, Grown(txn, w, e),
           e.role = "assistant", e.tokens \in 0..CallTokens, NEW final \in {0, 1},
           final = 1 => e.calls = 0 /\ w.rounds = txn.rounds,
           final = 0 => e.calls > 0 /\ w.rounds = txn.rounds + 1 /\ txn.rounds < txn.limit
    PROVE  CallCounts(w, final)
  <1>1. /\ txn.rows \in Seq(TurnType) /\ txn.trail \in AuditCount /\ txn.rounds \in Nat
        /\ w \in AskType /\ e \in TurnType /\ txn.limit \in Nat /\ w.limit = txn.limit /\ CallTokens \in Nat
    BY DEF AskType, Grown, AdvisorAssumption
  <1>2. /\ e \notin UserTurns
        /\ (e \in FinalTurns) <=> final = 1
        /\ (e \in RoundTurns) <=> final = 0
    BY <1>1 DEF UserTurns, FinalTurns, RoundTurns
  <1>3. /\ \A i \in 1..Len(w.rows) : w.rows[i].conv = w.conv
        /\ Count(w.rows, UserTurns) = Count(txn.rows, UserTurns)
        /\ Count(w.rows, FinalTurns) = Count(txn.rows, FinalTurns) + final
        /\ Count(w.rows, RoundTurns) = Count(txn.rows, RoundTurns) + (1 - final)
        /\ Count(w.rows, AnswerTurns) = Count(txn.rows, AnswerTurns) + (IF e \in AnswerTurns THEN 1 ELSE 0)
        /\ Total(TokensOf(w.rows)) = Total(TokensOf(txn.rows)) + e.tokens
        /\ Total(CallsOf(w.rows)) = Total(CallsOf(txn.rows)) + e.calls
    <2>1. /\ \A T : Count(w.rows, T) = Count(txn.rows, T) + (IF e \in T THEN 1 ELSE 0)
          /\ \A T : Count(txn.rows, T) \in Nat
      BY <1>1, GrowthCounts, CountsAre
    <2>2. \A i \in 1..Len(w.rows) : w.rows[i].conv = w.conv
      BY GrowthCounts DEF CallCounts
    <2>3. /\ Total(TokensOf(w.rows)) = Total(TokensOf(txn.rows)) + e.tokens
          /\ Total(CallsOf(w.rows)) = Total(CallsOf(txn.rows)) + e.calls
      BY GrowthCounts
    <2>4. CASE final = 1
      BY <1>2, <2>1, <2>2, <2>3, <2>4
    <2>5. CASE final = 0
      BY <1>2, <2>1, <2>2, <2>3, <2>5
    <2> QED  BY <2>4, <2>5
  <1>4. w.conv = txn.conv /\ w.new = txn.new /\ w.trail.started = txn.trail.started
        /\ w.trail.toolCalled = txn.trail.toolCalled + e.calls
        /\ w.trail.responded = txn.trail.responded + (IF e \in AnswerTurns THEN 1 ELSE 0)
    BY DEF Grown
  <1>5. /\ w.rounds = txn.rounds + (1 - final) /\ w.rounds <= w.limit
        /\ w.rounds + final = txn.rounds + 1
    BY <1>1 DEF CallCounts
  <1>6. Total(TokensOf(w.rows)) <= (w.rounds + final) * CallTokens
    <2>1. Total(TokensOf(txn.rows)) \in Nat
      BY <1>1, TotalsAre
    <2>2. Total(TokensOf(txn.rows)) <= txn.rounds * CallTokens
      BY <1>1 DEF CallCounts
    <2>3. Total(TokensOf(txn.rows)) + e.tokens <= (txn.rounds + 1) * CallTokens
      BY <1>1, <2>1, <2>2, OneMore
    <2> QED  BY <1>3, <1>5, <2>3
  <1>7. /\ txn.conv # 0 /\ Count(txn.rows, UserTurns) = 1 /\ Count(txn.rows, FinalTurns) = 0
        /\ Count(txn.rows, RoundTurns) = txn.rounds /\ txn.trail.toolCalled = Total(CallsOf(txn.rows))
        /\ txn.trail.responded = Count(txn.rows, AnswerTurns)
        /\ txn.trail.started = IF txn.new THEN 1 ELSE 0
    BY DEF CallCounts
  <1>8. Count(w.rows, FinalTurns) = final
    BY <1>3, <1>7
  <1> QED  BY <1>3, <1>4, <1>5, <1>6, <1>7, <1>8 DEF CallCounts

LEMMA QuestionCounts ==
    ASSUME AdvisorAssumption, NEW txn \in AskType, txn.rows = <<>>, txn.conv # 0, txn.rounds = 0,
           txn.trail.toolCalled = 0, txn.trail.responded = 0, txn.trail.started = IF txn.new THEN 1 ELSE 0,
           NEW w, NEW e, Grown(txn, w, e), w.rounds = 0, e.role = "user", e.calls = 0, e.tokens = 0
    PROVE  CallCounts(w, 0)
  <1>1. w \in AskType /\ e \in TurnType /\ w.limit \in 1..MostToolCalls /\ CallTokens \in Nat
    BY DEF Grown, AskType, AdvisorAssumption
  <1>2. e \in UserTurns /\ e \notin FinalTurns /\ e \notin RoundTurns /\ e \notin AnswerTurns
    BY <1>1 DEF UserTurns, FinalTurns, RoundTurns, AnswerTurns
  <1>3. /\ \A T : Count(w.rows, T) = (IF e \in T THEN 1 ELSE 0)
        /\ Total(TokensOf(w.rows)) = 0 /\ Total(CallsOf(w.rows)) = 0
        /\ \A i \in 1..Len(w.rows) : w.rows[i].conv = w.conv
    <2>1. /\ \A T : Count(w.rows, T) = Count(txn.rows, T) + (IF e \in T THEN 1 ELSE 0)
          /\ Total(TokensOf(w.rows)) = Total(TokensOf(txn.rows)) + e.tokens
          /\ Total(CallsOf(w.rows)) = Total(CallsOf(txn.rows)) + e.calls
      BY GrowthCounts
    <2>2. \A i \in 1..Len(w.rows) : w.rows[i].conv = w.conv
      <3>1. \A i \in 1..Len(txn.rows) : txn.rows[i].conv = txn.conv
        OBVIOUS
      <3> QED  BY <3>1, GrowthCounts
    <2> QED  BY <2>1, <2>2, NothingCounted
  <1>4. /\ Count(w.rows, UserTurns) = 1 /\ Count(w.rows, FinalTurns) = 0 /\ Count(w.rows, RoundTurns) = 0
        /\ Count(w.rows, AnswerTurns) = 0
    BY <1>2, <1>3
  <1>5. w.conv = txn.conv /\ w.new = txn.new /\ w.trail.started = txn.trail.started
        /\ w.trail.toolCalled = 0 /\ w.trail.responded = 0
    BY <1>2 DEF Grown
  <1>6. Total(TokensOf(w.rows)) <= (w.rounds + 0) * CallTokens
    BY <1>1, <1>3
  <1> QED  BY <1>1, <1>3, <1>4, <1>5, <1>6 DEF CallCounts

LEMMA GrowthIsNumbered ==
    ASSUME AdvisorTypeOK, NEW txn \in AskType, NEW w, NEW e, Grown(txn, w, e), Numbered(txn),
           SeqsOf(txn.conv) = 0..(Count(turns, ConvTurns(txn.conv)) - 1)
    PROVE  Numbered(w)
  <1>1. /\ txn.rows \in Seq(TurnType) /\ txn.conv \in Nat /\ e \in TurnType /\ w.rows = Append(txn.rows, e)
        /\ w.conv = txn.conv /\ e.seq = NextSequence(txn.conv, txn.rows)
    BY DEF AskType, Grown
  <1>2. /\ Len(txn.rows) \in Nat /\ Len(w.rows) = Len(txn.rows) + 1 /\ w.rows[Len(txn.rows) + 1] = e
        /\ \A i \in 1..Len(txn.rows) : w.rows[i] = txn.rows[i]
    BY <1>1, AppendProperties
  <1>3. e.seq = Count(turns, ConvTurns(txn.conv)) + Len(txn.rows)
    BY <1>1, SeqIsNext DEF Numbered
  <1>4. Count(turns, ConvTurns(txn.conv)) \in Nat
    BY CountsAre DEF AdvisorTypeOK
  <1>5. \A i \in 1..Len(w.rows) : i \in 1..Len(txn.rows) \/ i = Len(txn.rows) + 1
    BY <1>2
  <1> SUFFICES ASSUME NEW i \in 1..Len(w.rows)
               PROVE  w.rows[i].seq = Count(turns, ConvTurns(w.conv)) + i - 1
    BY DEF Numbered
  <1>6. CASE i \in 1..Len(txn.rows)
    BY <1>1, <1>2, <1>6 DEF Numbered
  <1>7. CASE i = Len(txn.rows) + 1
    BY <1>1, <1>2, <1>3, <1>4, <1>7
  <1> QED  BY <1>5, <1>6, <1>7

--------------------------------------------------------------------------------
(* The budget. *)

LEMMA ChargedAreCounted ==
    ASSUME AdvisorAssumption
    PROVE  /\ IsFiniteSet(Charging) /\ Cardinality(Charging) \in Nat
           /\ Cardinality(Askers) \in Nat /\ Cardinality(Charging) <= Cardinality(Askers)
  <1>1. Charging \subseteq Askers /\ IsFiniteSet(Askers)
    BY DEF Charging, AdvisorAssumption
  <1> QED  BY <1>1, FS_Subset, FS_CardinalityType

LEMMA PerAskIs ==
    ASSUME AdvisorAssumption
    PROVE  PerAsk \in Nat
  <1>1. MostToolCalls \in Nat /\ CallTokens \in Nat
    BY DEF AdvisorAssumption
  <1>2. (MostToolCalls + 1) * CallTokens \in Nat
    BY <1>1
  <1> QED  BY <1>2 DEF PerAsk

\* Room for the asks that are not charged yet.
LEMMA RoomIs ==
    ASSUME NEW a \in Nat, NEW b \in Nat, b <= a, NEW p \in Nat
    PROVE  /\ (a - b) * p \in Nat
           /\ b > 0 => (a - (b - 1)) * p = (a - b) * p + p
  <1>1. a - b \in Nat
    OBVIOUS
  <1>2. (a - b) * p \in Nat
    BY <1>1
  <1>3. a - (b - 1) = (a - b) + 1
    OBVIOUS
  <1>4. ((a - b) + 1) * p = (a - b) * p + p
    BY <1>1
  <1> QED  BY <1>2, <1>3, <1>4

LEMMA TokensAreTotal ==
    ASSUME AdvisorTypeOK
    PROVE  /\ UsedToday = Total(TokensOf(turns))
           /\ Cardinality(UNION {{i} \X (1..turns[i].calls) : i \in DOMAIN turns}) = Total(CallsOf(turns))
  <1>1. DOMAIN turns = 1..Len(turns)
    BY DEF AdvisorTypeOK
  <1>2. DOMAIN TokensOf(turns) = 1..Len(turns) /\ \A i \in 1..Len(turns) : TokensOf(turns)[i] = turns[i].tokens
    BY DEF TokensOf
  <1>3. DOMAIN CallsOf(turns) = 1..Len(turns) /\ \A i \in 1..Len(turns) : CallsOf(turns)[i] = turns[i].calls
    BY DEF CallsOf
  <1>4. UNION {{i} \X (1..turns[i].tokens) : i \in DOMAIN turns} = Units(TokensOf(turns))
    BY <1>1, <1>2 DEF Units
  <1>5. UNION {{i} \X (1..turns[i].calls) : i \in DOMAIN turns} = Units(CallsOf(turns))
    BY <1>1, <1>3 DEF Units
  <1> QED  BY <1>4, <1>5 DEF UsedToday, Total

\* A request leaves, and was charged for what one Ask can use at most.
LEMMA LeavingFits ==
    ASSUME AdvisorAssumption, BudgetFits, AdvisorTypeOK, NEW q \in Askers, ask[q] # NotAsking,
           ask' = [ask EXCEPT ![q] = NotAsking], NEW charge \in 0..PerAsk,
           Total(TokensOf(turns')) = Total(TokensOf(turns)) + charge
    PROVE  BudgetFits'
  <1> DEFINE a == Cardinality(Askers)
             b == Cardinality(Charging)
  <1>1. /\ IsFiniteSet(Charging) /\ b \in Nat /\ a \in Nat /\ b <= a
    BY ChargedAreCounted
  <1>2. Charging' = Charging \ {q} /\ q \in Charging
    BY DEF Charging, AdvisorTypeOK
  <1>3. Cardinality(Charging') = b - 1 /\ b > 0
    <2>1. Cardinality(Charging \ {q}) = Cardinality(Charging) - 1
      BY <1>1, <1>2, FS_RemoveElement
    <2>2. Cardinality(Charging) # 0
      BY <1>1, <1>2, FS_EmptySet
    <2> QED  BY <1>1, <1>2, <2>1, <2>2
  <1>4. Total(TokensOf(turns)) \in Nat /\ PerAsk \in Nat /\ TokenLimit \in Nat
    BY TotalsAre, PerAskIs DEF AdvisorTypeOK, AdvisorAssumption
  <1> DEFINE p == PerAsk
             t == Total(TokensOf(turns))
  <1>5. t <= (TokenLimit - 1) + (a - b) * p
    BY DEF BudgetFits
  <1> HIDE DEF a, b, p, t
  <1>6. (a - b) * p \in Nat /\ (a - (b - 1)) * p = (a - b) * p + p
    BY <1>1, <1>3, <1>4, RoomIs DEF p
  <1>7. t + charge <= (TokenLimit - 1) + (a - (b - 1)) * p
    BY <1>4, <1>5, <1>6 DEF p, t
  <1> QED  BY <1>3, <1>7 DEF BudgetFits, a, p, t

LEMMA AdmittingFits ==
    ASSUME AdvisorAssumption, AdvisorTypeOK, UsedToday + 1 <= TokenLimit, turns' = turns
    PROVE  BudgetFits'
  <1>1. /\ Cardinality(Charging)' \in Nat /\ Cardinality(Askers) \in Nat
        /\ Cardinality(Charging)' <= Cardinality(Askers)
    <2>1. Charging' \subseteq Askers /\ IsFiniteSet(Askers)
      BY DEF Charging, AdvisorAssumption
    <2> QED  BY <2>1, FS_Subset, FS_CardinalityType
  <1>2. Total(TokensOf(turns)) \in Nat /\ PerAsk \in Nat /\ TokenLimit \in Nat
    BY TotalsAre, PerAskIs DEF AdvisorTypeOK, AdvisorAssumption
  <1>3. (Cardinality(Askers) - Cardinality(Charging)') * PerAsk \in Nat
    BY <1>1, <1>2, RoomIs
  <1>4. Total(TokensOf(turns)) + 1 <= TokenLimit
    BY TokensAreTotal
  <1>5. Total(TokensOf(turns)) <= (TokenLimit - 1) + (Cardinality(Askers) - Cardinality(Charging)') * PerAsk
    BY <1>2, <1>3, <1>4
  <1> QED  BY <1>5 DEF BudgetFits

--------------------------------------------------------------------------------
(* The steps that write no row. *)

LEMMA AdvisorInvInit == AdvisorAssumption /\ AdvisorInit => AdvisorInv
  <1> SUFFICES ASSUME AdvisorAssumption, AdvisorInit PROVE AdvisorInv
    OBVIOUS
  <1>1. /\ turns = <<>> /\ conversations = {} /\ audited = NoAudit /\ \A q \in Askers : ask[q] = NotAsking
        /\ ask = [q \in Askers |-> NotAsking]
    BY DEF AdvisorInit
  <1>2. AdvisorTypeOK
    <2>1. <<>> \in Seq(TurnType) /\ NoAudit \in AuditCount
      BY DEF NoAudit, AuditCount
    <2> QED  BY <1>1, <2>1, FS_EmptySet DEF AdvisorTypeOK
  <1>3. CallsAreCounted /\ NewAreNew /\ TurnsHaveConversations /\ AsksAreAlone
    BY <1>1 DEF CallsAreCounted, NewAreNew, TurnsHaveConversations, AsksAreAlone, NotAsking
  <1>4. \A c : SeqsOf(c) = {} /\ \A T : Count(turns, T) = 0
    BY <1>1, NothingCounted DEF SeqsOf, TurnsIn
  <1>5. ConversationsAreNumbered
    <2>1. 0..(0 - 1) = {}
      OBVIOUS
    <2> QED  BY <1>4, <2>1 DEF ConversationsAreNumbered
  <1>6. AuditFits
    BY <1>1, <1>4, NothingCounted, FS_EmptySet DEF AuditFits, NoAudit
  <1>7. BudgetFits
    <2>1. Charging = {} /\ Cardinality(Charging) = 0
      BY <1>1, FS_EmptySet DEF Charging
    <2>2. PerAsk \in Nat /\ Cardinality(Askers) \in Nat /\ TokenLimit \in Nat \ {0}
      BY PerAskIs, ChargedAreCounted DEF AdvisorAssumption
    <2>3. (Cardinality(Askers) - 0) * PerAsk \in Nat
      BY <2>2, RoomIs
    <2>4. Total(TokensOf(turns)) = 0
      BY <1>1, NothingCounted
    <2> QED  BY <2>1, <2>2, <2>3, <2>4 DEF BudgetFits
  <1>8. AnswersFit
    <2> QED  BY <1>4 DEF AnswersFit
  <1> QED  BY <1>2, <1>3, <1>5, <1>6, <1>7, <1>8 DEF AdvisorInv

\* What a request that has begun may count on.
NewFor(q, v) ==
    /\ v.new =>
         /\ v.conv \notin conversations
         /\ \A p \in Askers \ {q} : ask[p].at = "model" /\ ask[p].new => ask[p].conv # v.conv
    /\ ~v.new => v.conv \in conversations

LEMMA AskChanges ==
    ASSUME AdvisorInv, NEW q \in Askers, NEW v \in {NotAsking, Admitted} \cup AskType,
           ask' = [ask EXCEPT ![q] = v],
           UNCHANGED <<advisorDb, conversations, turns, audited>>, BudgetFits',
           v.at = "model" =>
              /\ CallCounts(v, 0) /\ NewFor(q, v)
              /\ advisorDb = "sqlite" => Numbered(v) /\ \A p \in Askers \ {q} : ask[p].at # "model"
    PROVE  AdvisorInv'
  <1>1. /\ ask'[q] = v /\ \A p \in Askers : p # q => ask'[p] = ask[p]
        /\ ask' \in [Askers -> {NotAsking, Admitted} \cup AskType]
    BY DEF AdvisorInv, AdvisorTypeOK
  <1>2. AdvisorTypeOK'
    BY <1>1 DEF AdvisorInv, AdvisorTypeOK
  <1>3. CallsAreCounted'
    <2> SUFFICES ASSUME NEW p \in Askers, ask'[p].at = "model" PROVE CallCounts(ask'[p], 0)
      BY DEF CallsAreCounted, CallCounts
    <2>1. CASE p = q
      BY <1>1, <2>1
    <2>2. CASE p # q
      BY <1>1, <2>2 DEF AdvisorInv, CallsAreCounted
    <2> QED  BY <2>1, <2>2
  <1>4. NewAreNew'
    <2> SUFFICES ASSUME NEW p \in Askers, ask'[p].at = "model"
                 PROVE  /\ ask'[p].new =>
                             /\ ask'[p].conv \notin conversations
                             /\ \A r \in Askers \ {p} : ask'[r].at = "model" /\ ask'[r].new => ask'[r].conv # ask'[p].conv
                        /\ ~ask'[p].new => ask'[p].conv \in conversations
      BY DEF NewAreNew
    <2>1. CASE p = q
      BY <1>1, <2>1 DEF NewFor
    <2>2. CASE p # q
      BY <1>1, <2>2 DEF AdvisorInv, NewAreNew, NewFor
    <2> QED  BY <2>1, <2>2
  <1>5. TurnsHaveConversations' /\ AuditFits' /\ AnswersFit'
    BY DEF AdvisorInv, TurnsHaveConversations, AuditFits, AnswersFit
  <1>6. ConversationsAreNumbered'
    BY DEF AdvisorInv, ConversationsAreNumbered, SeqsOf
  <1>7. AsksAreAlone'
    <2> SUFFICES ASSUME advisorDb = "sqlite", NEW p \in Askers, ask'[p].at = "model"
                 PROVE  /\ \A r \in Askers \ {p} : ask'[r].at # "model"
                        /\ Numbered(ask'[p])
      BY DEF AsksAreAlone, Numbered
    <2>1. CASE p = q
      BY <1>1, <2>1
    <2>2. CASE p # q
      BY <1>1, <2>2 DEF AdvisorInv, AsksAreAlone
    <2> QED  BY <2>1, <2>2
  <1> QED  BY <1>2, <1>3, <1>4, <1>5, <1>6, <1>7 DEF AdvisorInv

--------------------------------------------------------------------------------
(* A transaction commits. *)

\* The turns of one conversation are all a transaction writes.
LEMMA OneConversation ==
    ASSUME NEW w \in AskType, \A i \in 1..Len(w.rows) : w.rows[i].conv = w.conv, NEW c \in Nat
    PROVE  /\ c = w.conv => \A T : TurnsIn(w.rows, ConvTurns(c) \cap T) = TurnsIn(w.rows, T)
           /\ c = w.conv => TurnsIn(w.rows, ConvTurns(c)) = 1..Len(w.rows)
           /\ c # w.conv => \A T : TurnsIn(w.rows, ConvTurns(c) \cap T) = {}
           /\ c # w.conv => TurnsIn(w.rows, ConvTurns(c)) = {}
  <1>1. w.rows \in Seq(TurnType)
    BY DEF AskType
  <1>2. \A i \in 1..Len(w.rows) : w.rows[i] \in TurnType
    BY <1>1, ElementOfSeq
  <1>3. \A i \in 1..Len(w.rows) : w.rows[i] \in ConvTurns(c) <=> c = w.conv
    BY <1>2 DEF ConvTurns
  <1> QED  BY <1>3 DEF TurnsIn

LEMMA CountConcat ==
    ASSUME NEW s \in Seq(TurnType), NEW r \in Seq(TurnType), NEW T
    PROVE  Count(s \o r, T) = Count(s, T) + Count(r, T)
  BY TurnsInConcat DEF Count

SeqsIn(s, c) == {s[i].seq : i \in TurnsIn(s, ConvTurns(c))}
LEMMA SeqsConcat ==
    ASSUME NEW s \in Seq(TurnType), NEW r \in Seq(TurnType), NEW c
    PROVE  SeqsIn(s \o r, c) = SeqsIn(s, c) \cup SeqsIn(r, c)
  <1> DEFINE n == Len(s)
             k == Len(r)
             d == s \o r
             C == ConvTurns(c)
  <1>1. /\ n \in Nat /\ k \in Nat /\ Len(d) = n + k
        /\ \A i \in 1..n + k : d[i] = IF i <= n THEN s[i] ELSE r[i - n]
    BY ConcatProperties
  <1> HIDE DEF d, C
  <1>2. \A i \in 1..n + k : (i \in 1..n /\ d[i] = s[i]) \/ (i - n \in 1..k /\ d[i] = r[i - n])
    BY <1>1
  <1>3. \A i \in 1..n : i \in 1..n + k /\ d[i] = s[i]
    BY <1>1
  <1>4. \A i \in 1..k : n + i \in 1..n + k /\ d[n + i] = r[i]
    <2> SUFFICES ASSUME NEW i \in 1..k PROVE n + i \in 1..n + k /\ d[n + i] = r[i]
      OBVIOUS
    <2>1. n + i \in 1..n + k /\ ~(n + i <= n) /\ (n + i) - n = i
      BY <1>1
    <2> QED  BY <1>1, <2>1
  <1>5. SeqsIn(d, c) \subseteq SeqsIn(s, c) \cup SeqsIn(r, c)
    <2> SUFFICES ASSUME NEW i \in 1..n + k, d[i] \in C
                 PROVE  d[i].seq \in SeqsIn(s, c) \cup SeqsIn(r, c)
      BY <1>1 DEF SeqsIn, TurnsIn, C
    <2> QED  BY <1>2 DEF SeqsIn, TurnsIn, C
  <1>6. SeqsIn(s, c) \subseteq SeqsIn(d, c)
    <2> SUFFICES ASSUME NEW i \in 1..n, s[i] \in C PROVE s[i].seq \in SeqsIn(d, c)
      BY DEF SeqsIn, TurnsIn, C
    <2> QED  BY <1>1, <1>3 DEF SeqsIn, TurnsIn, C
  <1>7. SeqsIn(r, c) \subseteq SeqsIn(d, c)
    <2> SUFFICES ASSUME NEW i \in 1..k, r[i] \in C PROVE r[i].seq \in SeqsIn(d, c)
      BY DEF SeqsIn, TurnsIn, C
    <2> QED  BY <1>1, <1>4 DEF SeqsIn, TurnsIn, C
  <1> QED  BY <1>5, <1>6, <1>7 DEF d

LEMMA NumbersFollow ==
    ASSUME NEW s \in Seq(TurnType), NEW w \in AskType, NEW c \in Nat,
           \A i \in 1..Len(w.rows) : w.rows[i].conv = w.conv,
           SeqsIn(s, c) = 0..(Count(s, ConvTurns(c)) - 1),
           \A i \in 1..Len(w.rows) : w.rows[i].seq = Count(s, ConvTurns(w.conv)) + i - 1
    PROVE  SeqsIn(s \o w.rows, c) = 0..(Count(s \o w.rows, ConvTurns(c)) - 1)
  <1> DEFINE r == w.rows
             m == Count(s, ConvTurns(c))
             k == Len(r)
  <1>1. r \in Seq(TurnType) /\ k \in Nat /\ m \in Nat
    BY CountsAre DEF AskType
  <1>2. /\ SeqsIn(s \o r, c) = SeqsIn(s, c) \cup SeqsIn(r, c)
        /\ Count(s \o r, ConvTurns(c)) = m + Count(r, ConvTurns(c))
    BY <1>1, SeqsConcat, CountConcat
  <1>3. CASE c # w.conv
    <2>1. TurnsIn(r, ConvTurns(c)) = {}
      BY <1>3, OneConversation
    <2>2. SeqsIn(r, c) = {} /\ Count(r, ConvTurns(c)) = 0
      BY <2>1, FS_EmptySet DEF SeqsIn, Count
    <2> QED  BY <1>1, <1>2, <2>2
  <1>4. CASE c = w.conv
    <2>1. TurnsIn(r, ConvTurns(c)) = 1..k
      BY <1>4, OneConversation
    <2>2. Count(r, ConvTurns(c)) = k
      <3>1. 1 \in Int /\ k \in Int
        BY <1>1
      <3>2. Cardinality(1..k) = IF 1 > k THEN 0 ELSE k - 1 + 1
        BY <3>1, FS_Interval
      <3>3. Cardinality(1..k) = k
        BY <1>1, <3>2
      <3> QED  BY <2>1, <3>3 DEF Count
    <2>3. \A i \in 1..k : r[i].seq = m + i - 1
      BY <1>4
    <2>4. SeqsIn(r, c) = {r[i].seq : i \in 1..k}
      BY <2>1 DEF SeqsIn
    <2> HIDE DEF r, m, k
    <2>5. \A x \in 0..(m + k - 1) : x \in 0..(m - 1) \/ \E i \in 1..k : r[i].seq = x
      <3> SUFFICES ASSUME NEW x \in 0..(m + k - 1), x \notin 0..(m - 1) PROVE \E i \in 1..k : r[i].seq = x
        OBVIOUS
      <3>1. x - m + 1 \in 1..k /\ m + (x - m + 1) - 1 = x
        BY <1>1
      <3>2. r[x - m + 1].seq = m + (x - m + 1) - 1
        BY <2>3, <3>1
      <3> QED  BY <3>1, <3>2
    <2>6. \A i \in 1..k : r[i].seq \in 0..(m + k - 1)
      <3> SUFFICES ASSUME NEW i \in 1..k PROVE r[i].seq \in 0..(m + k - 1)
        OBVIOUS
      <3>1. r[i].seq = m + i - 1
        BY <2>3
      <3> QED  BY <1>1, <3>1
    <2>7. SeqsIn(s, c) = 0..(m - 1) /\ 0..(m - 1) \subseteq 0..(m + k - 1)
      BY <1>1 DEF m
    <2>8. SeqsIn(s, c) \cup SeqsIn(r, c) = 0..(m + k - 1)
      BY <2>4, <2>5, <2>6, <2>7
    <2>9. Count(s \o r, ConvTurns(c)) = m + k
      BY <1>2, <2>2
    <2>10. SeqsIn(s \o r, c) = 0..(Count(s \o r, ConvTurns(c)) - 1)
      <3>1. SeqsIn(s \o r, c) = SeqsIn(s, c) \cup SeqsIn(r, c)
        BY <1>2
      <3>2. SeqsIn(s \o r, c) = 0..(m + k - 1)
        BY <3>1, <2>8
      <3> DEFINE x == Count(s \o r, ConvTurns(c))
      <3>3. x = m + k
        BY <2>9
      <3> HIDE DEF x
      <3>4. SeqsIn(s \o r, c) = 0..(x - 1)
        BY <1>1, <3>2, <3>3
      <3> QED  BY <3>4 DEF x
    <2> QED  BY <2>10 DEF r
  <1> QED  BY <1>3, <1>4

\* A question with its answer, or one that used up its rounds of tools.
LEMMA AnswersFollow ==
    ASSUME AdvisorAssumption, NEW s \in Seq(TurnType), NEW w \in AskType, NEW c \in Nat, NEW final \in {0, 1},
           CallCounts(w, final), final = 0 => w.rounds >= 1,
           Count(s, ConvTurns(c) \cap FinalTurns) <= Count(s, ConvTurns(c) \cap UserTurns),
           (Count(s, ConvTurns(c) \cap UserTurns) - Count(s, ConvTurns(c) \cap FinalTurns))
             <= Count(s, ConvTurns(c) \cap RoundTurns)
    PROVE  LET t == s \o w.rows
               asked == Count(t, ConvTurns(c) \cap UserTurns)
               answered == Count(t, ConvTurns(c) \cap FinalTurns)
           IN answered <= asked /\ asked - answered <= Count(t, ConvTurns(c) \cap RoundTurns)
  <1> DEFINE u == Count(s, ConvTurns(c) \cap UserTurns)
             f == Count(s, ConvTurns(c) \cap FinalTurns)
             d == Count(s, ConvTurns(c) \cap RoundTurns)
             u2 == Count(w.rows, ConvTurns(c) \cap UserTurns)
             f2 == Count(w.rows, ConvTurns(c) \cap FinalTurns)
             d2 == Count(w.rows, ConvTurns(c) \cap RoundTurns)
  <1>1. /\ w.rows \in Seq(TurnType) /\ w.rounds \in Nat
        /\ \A i \in 1..Len(w.rows) : w.rows[i].conv = w.conv
    BY DEF AskType, CallCounts, AdvisorAssumption
  <1>2. /\ Count(s \o w.rows, ConvTurns(c) \cap UserTurns) = u + u2
        /\ Count(s \o w.rows, ConvTurns(c) \cap FinalTurns) = f + f2
        /\ Count(s \o w.rows, ConvTurns(c) \cap RoundTurns) = d + d2
    BY <1>1, CountConcat
  <1>3. u \in Nat /\ f \in Nat /\ d \in Nat
    BY CountsAre
  <1>4. f <= u /\ u - f <= d
    OBVIOUS
  <1>5. CASE c # w.conv
    <2>1. u2 = 0 /\ f2 = 0 /\ d2 = 0
      BY <1>1, <1>5, OneConversation, FS_EmptySet DEF Count
    <2> HIDE DEF u, f, d, u2, f2, d2
    <2>2. u + u2 = u /\ f + f2 = f /\ d + d2 = d
      BY <1>3, <2>1
    <2> QED  BY <1>2, <1>4, <2>2
  <1>6. CASE c = w.conv
    <2>1. u2 = 1 /\ f2 = final /\ d2 = w.rounds
      <3>1. \A T : TurnsIn(w.rows, ConvTurns(c) \cap T) = TurnsIn(w.rows, T)
        BY <1>1, <1>6, OneConversation
      <3>2. \A T : Count(w.rows, ConvTurns(c) \cap T) = Count(w.rows, T)
        BY <3>1 DEF Count
      <3> QED  BY <3>2 DEF CallCounts
    <2> HIDE DEF u, f, d, u2, f2, d2
    <2>2. CASE final = 1
      <3>1. (u + u2) - (f + f2) = u - f /\ f + f2 <= u + u2 /\ d <= d + d2
        BY <1>1, <1>3, <1>4, <2>1, <2>2
      <3>2. u - f <= d + d2
        BY <1>1, <1>3, <1>4, <2>1, <3>1
      <3> QED  BY <1>2, <3>1, <3>2
    <2>3. CASE final = 0
      <3>1. (u + u2) - (f + f2) = (u - f) + 1 /\ f + f2 <= u + u2 /\ 1 <= d2
        BY <1>1, <1>3, <1>4, <2>1, <2>3
      <3>2. (u - f) + 1 <= d + d2
        BY <1>1, <1>3, <1>4, <2>1, <3>1
      <3> QED  BY <1>2, <3>1, <3>2
    <2> QED  BY <2>2, <2>3
  <1> QED  BY <1>5, <1>6

\* audited' when call ends: entry by entry.
LEMMA AuditGrows ==
    ASSUME NEW a \in AuditCount, NEW b \in AuditCount
    PROVE  LET s == [x \in DOMAIN a |-> a[x] + b[x]]
           IN /\ s \in AuditCount
              /\ s.started = a.started + b.started
              /\ s.toolCalled = a.toolCalled + b.toolCalled
              /\ s.responded = a.responded + b.responded
  <1> DEFINE s == [x \in DOMAIN a |-> a[x] + b[x]]
  <1>1. DOMAIN a = {"started", "toolCalled", "responded"}
    BY DEF AuditCount
  <1>2. /\ a.started \in Nat /\ a.toolCalled \in Nat /\ a.responded \in Nat
        /\ b.started \in Nat /\ b.toolCalled \in Nat /\ b.responded \in Nat
    BY DEF AuditCount
  <1>3. /\ s.started = a.started + b.started
        /\ s.toolCalled = a.toolCalled + b.toolCalled
        /\ s.responded = a.responded + b.responded
    BY <1>1
  <1>4. s = [started |-> a.started + b.started, toolCalled |-> a.toolCalled + b.toolCalled,
             responded |-> a.responded + b.responded]
    BY <1>1
  <1>5. s \in AuditCount
    BY <1>2, <1>4 DEF AuditCount
  <1> QED  BY <1>3, <1>5

LEMMA AskCommitKeeps ==
    ASSUME AdvisorAssumption, AdvisorInv, NEW q \in Askers, ask[q].at = "model", NEW w \in AskType,
           NEW final \in {0, 1}, CallCounts(w, final), final = 0 => w.rounds >= 1,
           w.conv = ask[q].conv, w.new = ask[q].new, advisorDb = "sqlite" => Numbered(w),
           Commit(q, w), advisorDb' = advisorDb
    PROVE  AdvisorInv'
  <1>1. /\ turns' = turns \o w.rows /\ conversations' = conversations \cup {w.conv}
        /\ audited' = [a \in DOMAIN audited |-> audited[a] + w.trail[a]]
        /\ ask' = [ask EXCEPT ![q] = NotAsking]
    BY DEF Commit
  <1>2. /\ turns \in Seq(TurnType) /\ w.rows \in Seq(TurnType) /\ w.conv \in Nat \ {0} /\ w.trail \in AuditCount
        /\ w.rounds \in Nat /\ w.new \in BOOLEAN /\ audited \in AuditCount
        /\ conversations \in SUBSET (Nat \ {0}) /\ IsFiniteSet(conversations)
    BY DEF AskType, CallCounts, AdvisorInv, AdvisorTypeOK
  <1>3. /\ ask'[q] = NotAsking /\ \A p \in Askers : p # q => ask'[p] = ask[p]
        /\ ask' \in [Askers -> {NotAsking, Admitted} \cup AskType] /\ NotAsking.at # "model"
    BY <1>1 DEF AdvisorInv, AdvisorTypeOK, NotAsking
  <1>4. /\ audited' \in AuditCount
        /\ audited'.started = audited.started + w.trail.started
        /\ audited'.toolCalled = audited.toolCalled + w.trail.toolCalled
        /\ audited'.responded = audited.responded + w.trail.responded
    BY <1>1, <1>2, AuditGrows
  <1>5. AdvisorTypeOK'
    <2>1. turns' \in Seq(TurnType)
      BY <1>1, <1>2, ConcatProperties
    <2>2. conversations' \in SUBSET (Nat \ {0}) /\ IsFiniteSet(conversations')
      BY <1>1, <1>2, FS_AddElement
    <2> QED  BY <1>3, <1>4, <2>1, <2>2 DEF AdvisorTypeOK
  <1>6. CallsAreCounted'
    <2> SUFFICES ASSUME NEW p \in Askers, ask'[p].at = "model" PROVE CallCounts(ask'[p], 0)
      BY DEF CallsAreCounted, CallCounts
    <2> QED  BY <1>3 DEF AdvisorInv, CallsAreCounted
  <1>7. NewAreNew'
    <2> SUFFICES ASSUME NEW p \in Askers, ask'[p].at = "model"
                 PROVE  /\ ask'[p].new =>
                             /\ ask'[p].conv \notin conversations'
                             /\ \A r \in Askers \ {p} : ask'[r].at = "model" /\ ask'[r].new => ask'[r].conv # ask'[p].conv
                        /\ ~ask'[p].new => ask'[p].conv \in conversations'
      BY DEF NewAreNew
    <2>1. p # q /\ ask'[p] = ask[p] /\ ask[p].at = "model"
      BY <1>3
    <2>2. ask[p].new => ask[p].conv \notin conversations /\ ask[p].conv # w.conv
      BY <2>1 DEF AdvisorInv, NewAreNew
    <2>3. ~ask[p].new => ask[p].conv \in conversations
      BY <2>1 DEF AdvisorInv, NewAreNew
    <2>4. ASSUME ask[p].new, NEW r \in Askers \ {p}, ask'[r].at = "model", ask'[r].new
          PROVE  ask'[r].conv # ask[p].conv
      <3>1. r # q /\ ask'[r] = ask[r]
        BY <1>3, <2>4
      <3> QED  BY <2>1, <2>4, <3>1 DEF AdvisorInv, NewAreNew
    <2> QED  BY <1>1, <2>1, <2>2, <2>3, <2>4
  <1>8. TurnsHaveConversations'
    <2> SUFFICES ASSUME NEW i \in 1..Len(turns \o w.rows) PROVE (turns \o w.rows)[i].conv \in conversations \cup {w.conv}
      BY <1>1 DEF TurnsHaveConversations
    <2>1. /\ Len(turns) \in Nat /\ Len(w.rows) \in Nat /\ Len(turns \o w.rows) = Len(turns) + Len(w.rows)
          /\ (turns \o w.rows)[i] = IF i <= Len(turns) THEN turns[i] ELSE w.rows[i - Len(turns)]
      BY <1>2, ConcatProperties
    <2>2. CASE i <= Len(turns)
      <3>1. i \in 1..Len(turns)
        BY <2>1, <2>2
      <3> QED  BY <2>1, <2>2, <3>1 DEF AdvisorInv, TurnsHaveConversations
    <2>3. CASE ~(i <= Len(turns))
      <3>1. i - Len(turns) \in 1..Len(w.rows)
        BY <2>1, <2>3
      <3> QED  BY <2>1, <2>3, <3>1 DEF CallCounts
    <2> QED  BY <2>2, <2>3
  <1>9. AsksAreAlone'
    <2> SUFFICES ASSUME advisorDb = "sqlite", NEW p \in Askers, ask'[p].at = "model" PROVE FALSE
      BY DEF AsksAreAlone
    <2> QED  BY <1>3 DEF AdvisorInv, AsksAreAlone
  <1>10. ConversationsAreNumbered'
    <2> SUFFICES ASSUME advisorDb = "sqlite", NEW c \in Nat
                 PROVE  SeqsIn(turns', c) = 0..(Count(turns', ConvTurns(c)) - 1)
      BY DEF ConversationsAreNumbered, SeqsOf, SeqsIn
    <2>1. SeqsIn(turns, c) = 0..(Count(turns, ConvTurns(c)) - 1)
      BY DEF AdvisorInv, ConversationsAreNumbered, SeqsOf, SeqsIn
    <2>2. \A i \in 1..Len(w.rows) : w.rows[i].conv = w.conv
      BY DEF CallCounts
    <2>3. \A i \in 1..Len(w.rows) : w.rows[i].seq = Count(turns, ConvTurns(w.conv)) + i - 1
      BY DEF Numbered
    <2> QED  BY <1>1, <1>2, <2>1, <2>2, <2>3, NumbersFollow
  <1>11. AuditFits'
    <2>1. /\ Cardinality(conversations) \in Nat
          /\ Cardinality(conversations \cup {w.conv}) =
               IF w.conv \in conversations THEN Cardinality(conversations) ELSE Cardinality(conversations) + 1
      BY <1>2, FS_AddElement, FS_CardinalityType
    <2>2. w.new <=> w.conv \notin conversations
      BY <1>2 DEF AdvisorInv, NewAreNew
    <2>3. /\ audited.started = Cardinality(conversations) /\ audited.toolCalled = Total(CallsOf(turns))
          /\ audited.responded = Count(turns, AnswerTurns)
      BY DEF AdvisorInv, AuditFits
    <2>4. /\ w.trail.started = (IF w.new THEN 1 ELSE 0) /\ w.trail.toolCalled = Total(CallsOf(w.rows))
          /\ w.trail.responded = Count(w.rows, AnswerTurns)
      BY DEF CallCounts
    <2>5. audited'.started = Cardinality(conversations')
      BY <1>1, <1>4, <2>1, <2>2, <2>3, <2>4
    <2>6. audited'.toolCalled = Total(CallsOf(turns'))
      BY <1>1, <1>2, <1>4, <2>3, <2>4, NumbersConcat
    <2>7. audited'.responded = Count(turns', AnswerTurns)
      BY <1>1, <1>2, <1>4, <2>3, <2>4, CountConcat
    <2> QED  BY <2>5, <2>6, <2>7 DEF AuditFits
  <1>12. BudgetFits'
    <2> DEFINE charge == Total(TokensOf(w.rows))
    <2>1. charge \in Nat /\ charge <= (w.rounds + final) * CallTokens
      BY <1>2, TotalsAre DEF CallCounts
    <2>2. /\ MostToolCalls \in Nat /\ CallTokens \in Nat
          /\ w.rounds \in Nat /\ w.rounds <= w.limit /\ w.limit \in 1..MostToolCalls
      BY DEF AdvisorAssumption, CallCounts, AskType
    <2>3. w.rounds + final \in Nat /\ MostToolCalls + 1 \in Nat /\ w.rounds + final <= MostToolCalls + 1
      BY <1>2, <2>2
    <2>4. (w.rounds + final) * CallTokens <= (MostToolCalls + 1) * CallTokens
      <3> DEFINE x == w.rounds + final
                 y == MostToolCalls + 1
      <3>1. x \in Nat /\ y \in Nat /\ x <= y /\ CallTokens \in Nat
        BY <2>2, <2>3
      <3> HIDE DEF x, y
      <3>2. PICK d \in Nat : y = x + d
        <4>1. y - x \in Nat /\ y = x + (y - x)
          BY <3>1
        <4> QED  BY <4>1
      <3>3. y * CallTokens = x * CallTokens + d * CallTokens /\ d * CallTokens \in Nat /\ x * CallTokens \in Nat
        BY <3>1, <3>2
      <3>4. x * CallTokens <= y * CallTokens
        BY <3>3
      <3> QED  BY <3>4 DEF x, y
    <2>5. charge \in 0..PerAsk
      <3> HIDE DEF charge
      <3>1. (w.rounds + final) * CallTokens \in Int /\ (MostToolCalls + 1) * CallTokens \in Int
        BY <2>2, <2>3
      <3>2. charge <= PerAsk
        BY <2>1, <2>4, <3>1 DEF PerAsk
      <3> QED  BY <2>1, <3>2, PerAskIs
    <2>6. Total(TokensOf(turns')) = Total(TokensOf(turns)) + charge
      BY <1>1, <1>2, NumbersConcat
    <2>7. BudgetFits /\ AdvisorTypeOK /\ ask[q] # NotAsking
      BY DEF AdvisorInv, NotAsking
    <2> QED  BY <1>1, <2>5, <2>6, <2>7, LeavingFits
  <1>13. AnswersFit'
    <2> SUFFICES ASSUME NEW c \in Nat
                 PROVE  LET asked == Count(turns', ConvTurns(c) \cap UserTurns)
                            answered == Count(turns', ConvTurns(c) \cap FinalTurns)
                        IN answered <= asked /\ asked - answered <= Count(turns', ConvTurns(c) \cap RoundTurns)
      BY DEF AnswersFit
    <2>1. /\ Count(turns, ConvTurns(c) \cap FinalTurns) <= Count(turns, ConvTurns(c) \cap UserTurns)
          /\ (Count(turns, ConvTurns(c) \cap UserTurns) - Count(turns, ConvTurns(c) \cap FinalTurns))
               <= Count(turns, ConvTurns(c) \cap RoundTurns)
      BY DEF AdvisorInv, AnswersFit
    <2> QED  BY <1>1, <1>2, <2>1, AnswersFollow
  <1> QED  BY <1>5, <1>6, <1>7, <1>8, <1>9, <1>10, <1>11, <1>12, <1>13 DEF AdvisorInv

--------------------------------------------------------------------------------
(* The steps of a request. *)

LEMMA NewIsNew ==
    ASSUME AdvisorAssumption, AdvisorTypeOK
    PROVE  /\ NewConversation \in Nat \ {0} /\ NewConversation \notin conversations
           /\ \A p \in Askers : ask[p].at = "model" /\ ask[p].new => ask[p].conv # NewConversation
  <1> DEFINE P == {p \in Askers : ask[p].at = "model" /\ ask[p].new}
             g == [p \in P |-> ask[p].conv]
             S == conversations \cup Started \cup {0}
  <1>1. \A p \in Askers : ask[p].at = "model" => ask[p] \in AskType
    BY DEF AdvisorTypeOK, NotAsking, Admitted
  <1>2. \A p \in P : ask[p].conv \in Nat
    BY <1>1 DEF AskType
  <1>3. Started = {ask[p].conv : p \in P}
    BY DEF Started
  <1>4. g \in Surjection(P, Started)
    BY <1>3 DEF Surjection
  <1>5. IsFiniteSet(P)
    BY FS_Subset DEF AdvisorAssumption
  <1>6. IsFiniteSet(Started) /\ Started \subseteq Nat
    BY <1>2, <1>3, <1>4, <1>5, FS_Surjection
  <1>7. S \in SUBSET Nat /\ IsFiniteSet(S) /\ S # {}
    <2>1. IsFiniteSet(conversations) /\ conversations \subseteq Nat
      BY DEF AdvisorTypeOK
    <2>2. IsFiniteSet(conversations \cup Started)
      BY <1>6, <2>1, FS_Union
    <2>3. IsFiniteSet(S)
      BY <2>2, FS_AddElement
    <2> QED  BY <1>6, <2>1, <2>3
  <1> HIDE DEF P, g, S
  <1>8. Max(S) \in S /\ \A x \in S : x <= Max(S)
    BY <1>7, MaxIsGreatest
  <1>9. Max(S) \in Nat /\ NewConversation = Max(S) + 1
    BY <1>7, <1>8 DEF NewConversation, S
  <1>10. \A x \in S : x # NewConversation
    <2> SUFFICES ASSUME NEW x \in S PROVE x # Max(S) + 1
      BY <1>9
    <2>1. x \in Nat /\ x <= Max(S)
      BY <1>7, <1>8
    <2> QED  BY <1>9, <2>1
  <1>11. conversations \subseteq S /\ \A p \in Askers : ask[p].at = "model" /\ ask[p].new => ask[p].conv \in S
    BY <1>3 DEF S, P
  <1> QED  BY <1>9, <1>10, <1>11

LEMMA AskingIs ==
    ASSUME AdvisorInv, NEW q \in Askers, ask[q].at = "model"
    PROVE  ask[q] \in AskType /\ CallCounts(ask[q], 0)
  BY DEF AdvisorInv, AdvisorTypeOK, CallsAreCounted, NotAsking, Admitted

LEMMA ChargingStays ==
    ASSUME AdvisorInv, NEW q \in Askers, NEW v, v # NotAsking, ask[q] # NotAsking,
           ask' = [ask EXCEPT ![q] = v], turns' = turns
    PROVE  BudgetFits'
  <1>1. Charging' = Charging
    BY DEF Charging, AdvisorInv, AdvisorTypeOK
  <1> QED  BY <1>1 DEF AdvisorInv, BudgetFits

LEMMA ReplyIs ==
    ASSUME AdvisorAssumption, NEW reply \in Replies
    PROVE  Complete(reply).content \in BOOLEAN /\ Complete(reply).tokens \in 0..CallTokens
  <1>1. CallTokens \in Nat
    BY DEF AdvisorAssumption
  <1>2. Failed.content \in BOOLEAN /\ Failed.tokens \in 0..CallTokens
    BY <1>1 DEF Failed
  <1>3. \A c \in BOOLEAN : \A t \in 0..CallTokens : Answered(c, t).content \in BOOLEAN /\ Answered(c, t).tokens \in 0..CallTokens
    BY DEF Answered
  <1>4. CallTokens \in 0..CallTokens /\ 0 \in 0..CallTokens
    BY <1>1
  <1>5. \A x \in {AnthropicComplete(reply), VllmComplete(reply), OllamaComplete(reply), NoopComplete(reply)} :
           x.content \in BOOLEAN /\ x.tokens \in 0..CallTokens
    BY <1>2, <1>3, <1>4 DEF AnthropicComplete, VllmComplete, OllamaComplete, NoopComplete
  <1>6. Complete(reply) \in {AnthropicComplete(reply), VllmComplete(reply), OllamaComplete(reply), NoopComplete(reply)}
    BY DEF Complete
  <1> QED  BY <1>5, <1>6

LEMMA BeginKeeps ==
    ASSUME AdvisorAssumption, AdvisorInv, NEW q \in Askers, ask[q].at = "admitted", advisorDb = "sqlite" => NoAsk,
           UNCHANGED <<advisorDb, conversations, turns, audited>>,
           NEW txn \in AskType, txn.rows = <<>>, txn.conv # 0, txn.rounds = 0,
           txn.trail.toolCalled = 0, txn.trail.responded = 0, txn.trail.started = IF txn.new THEN 1 ELSE 0,
           NewFor(q, txn), ask' = [ask EXCEPT ![q] = Written(txn, "user", TRUE, 0, 0)]
    PROVE  AdvisorInv'
  <1> DEFINE w == Written(txn, "user", TRUE, 0, 0)
             e == Turn(txn.conv, txn.rows, "user", TRUE, 0, 0)
  <1>1. e.role = "user" /\ e.calls = 0 /\ e.tokens = 0 /\ Grown(txn, w, e) /\ w.rounds = 0
    <2>1. AdvisorTypeOK /\ 0 \in Nat
      BY DEF AdvisorInv
    <2>2. WrittenFits(txn, "user", TRUE, 0, 0)
      BY <2>1, WrittenIs
    <2> QED  BY <2>2 DEF WrittenFits
  <1> HIDE DEF w, e
  <1>2. CallCounts(w, 0)
    BY <1>1, QuestionCounts
  <1>3. w \in AskType /\ w.conv = txn.conv /\ w.new = txn.new /\ w.at = "model"
    BY <1>1 DEF Grown, AskType
  <1>4. NewFor(q, w)
    BY <1>3 DEF NewFor
  <1>5. ASSUME advisorDb = "sqlite"
        PROVE  Numbered(w) /\ \A p \in Askers \ {q} : ask[p].at # "model"
    <2>1. txn.conv \in Nat /\ AdvisorTypeOK
      BY DEF AskType, AdvisorInv
    <2>2. SeqsOf(txn.conv) = 0..(Count(turns, ConvTurns(txn.conv)) - 1)
      BY <1>5, <2>1 DEF AdvisorInv, ConversationsAreNumbered
    <2>3. Numbered(txn)
      BY DEF Numbered
    <2>4. Numbered(w)
      BY <1>1, <2>1, <2>2, <2>3, GrowthIsNumbered
    <2> QED  BY <1>5, <2>4 DEF NoAsk
  <1>6. BudgetFits'
    <2>1. w # NotAsking /\ ask[q] # NotAsking
      BY <1>3 DEF NotAsking
    <2> QED  BY <2>1, ChargingStays DEF w
  <1>7. w \in {NotAsking, Admitted} \cup AskType /\ ask' = [ask EXCEPT ![q] = w]
    BY <1>3 DEF w
  <1> QED  BY <1>2, <1>4, <1>5, <1>6, <1>7, AskChanges

LEMMA AdvisorInvNext ==
    ASSUME AdvisorAssumption, AdvisorInv, AdvisorNext
    PROVE  AdvisorInv'
  <1> PICK q \in Askers : AskStep(q)
    BY DEF AdvisorNext
  <1>0. AdvisorTypeOK /\ BudgetFits
    BY DEF AdvisorInv
  <1>1. CASE CheckQuota(q)
    <2>1. /\ UNCHANGED <<advisorDb, conversations, turns, audited>> /\ ask' = [ask EXCEPT ![q] = Admitted]
          /\ UsedToday + 1 <= TokenLimit
      BY <1>1 DEF CheckQuota, CheckLLMTokens, Admitted
    <2>2. BudgetFits'
      BY <1>0, <2>1, AdmittingFits
    <2>3. Admitted \in {NotAsking, Admitted} \cup AskType /\ Admitted.at # "model"
      BY DEF Admitted
    <2> QED  BY <2>1, <2>2, <2>3, AskChanges
  <1>2. CASE BeginAsk(q)
    <2>1. /\ UNCHANGED <<advisorDb, conversations, turns, audited>> /\ ask[q].at = "admitted"
          /\ advisorDb = "sqlite" => NoAsk
      BY <1>2 DEF BeginAsk
    <2>0. \A asked \in 0..MostToolCalls : MaxCalls(asked) \in 1..MostToolCalls
      BY AdvisorAssumption DEF AdvisorAssumption, MaxCalls
    <2>2. ASSUME NEW l \in 1..MostToolCalls, NEW c \in conversations,
                 ask' = [ask EXCEPT ![q] = Written([at |-> "model", conv |-> c, new |-> FALSE, rounds |-> 0, limit |-> l,
                                                    rows |-> <<>>, trail |-> NoAudit], "user", TRUE, 0, 0)]
          PROVE  AdvisorInv'
      <3> DEFINE txn == [at |-> "model", conv |-> c, new |-> FALSE, rounds |-> 0, limit |-> l, rows |-> <<>>, trail |-> NoAudit]
      <3>1. c \in Nat \ {0} /\ <<>> \in Seq(TurnType) /\ NoAudit \in AuditCount
        BY <1>0 DEF AdvisorTypeOK, NoAudit, AuditCount
      <3>2. txn \in AskType
        BY <3>1 DEF AskType
      <3>3. /\ txn.rows = <<>> /\ txn.conv = c /\ txn.rounds = 0 /\ txn.new = FALSE
            /\ txn.trail.toolCalled = 0 /\ txn.trail.responded = 0 /\ txn.trail.started = 0
        BY DEF NoAudit
      <3>4. ask' = [ask EXCEPT ![q] = Written(txn, "user", TRUE, 0, 0)]
        BY <2>2
      <3> HIDE DEF txn
      <3>5. NewFor(q, txn) /\ txn.conv # 0 /\ txn.trail.started = IF txn.new THEN 1 ELSE 0
        BY <3>1, <3>3 DEF NewFor
      <3> QED  BY <2>1, <3>2, <3>3, <3>4, <3>5, BeginKeeps
    <2>3. ASSUME NEW l \in 1..MostToolCalls,
                 ask' = [ask EXCEPT ![q] = Written([at |-> "model", conv |-> NewConversation, new |-> TRUE, rounds |-> 0, limit |-> l,
                                                rows |-> <<>>, trail |-> [NoAudit EXCEPT !.started = 1]], "user", TRUE, 0, 0)]
          PROVE  AdvisorInv'
      <3> DEFINE t == [NoAudit EXCEPT !.started = 1]
                 txn == [at |-> "model", conv |-> NewConversation, new |-> TRUE, rounds |-> 0, limit |-> l, rows |-> <<>>, trail |-> t]
      <3>1. NewConversation \in Nat \ {0} /\ <<>> \in Seq(TurnType) /\ t \in AuditCount
        <4>1. t = [started |-> 1, toolCalled |-> 0, responded |-> 0]
          BY DEF NoAudit
        <4>2. t \in AuditCount
          BY <4>1 DEF AuditCount
        <4> QED  BY <1>0, <4>2, NewIsNew
      <3>2. t.toolCalled = 0 /\ t.responded = 0 /\ t.started = 1
        BY DEF NoAudit
      <3>3. ask' = [ask EXCEPT ![q] = Written(txn, "user", TRUE, 0, 0)]
        BY <2>3
      <3> HIDE DEF t
      <3>4. txn \in AskType
        BY <3>1 DEF AskType
      <3>5. txn.rows = <<>> /\ txn.conv = NewConversation /\ txn.rounds = 0 /\ txn.new = TRUE /\ txn.trail = t
        OBVIOUS
      <3> HIDE DEF txn
      <3>6. NewFor(q, txn) /\ txn.conv # 0 /\ txn.trail.started = IF txn.new THEN 1 ELSE 0
        BY <1>0, <3>1, <3>2, <3>5, NewIsNew DEF NewFor
      <3> QED  BY <2>1, <3>2, <3>3, <3>4, <3>5, <3>6, BeginKeeps
    <2> QED  BY <1>2, <2>0, <2>2, <2>3 DEF BeginAsk
  <1>3. CASE ModelFails(q)
    <2>1. /\ ask[q].at = "model" /\ UNCHANGED <<advisorDb, conversations, turns, audited>>
          /\ ask' = [ask EXCEPT ![q] = NotAsking]
      BY <1>3 DEF ModelFails, Rollback
    <2>2. ask[q] # NotAsking /\ NotAsking.at # "model"
      BY <2>1 DEF NotAsking
    <2>3. 0 \in 0..PerAsk /\ Total(TokensOf(turns')) = Total(TokensOf(turns)) + 0
      BY <1>0, <2>1, TotalsAre, PerAskIs DEF AdvisorTypeOK
    <2>4. BudgetFits'
      BY <1>0, <2>1, <2>2, <2>3, LeavingFits
    <2> QED  BY <2>1, <2>2, <2>4, AskChanges
  <1>4. CASE ModelAnswers(q)
    <2>1. ask[q].at = "model" /\ advisorDb' = advisorDb
      BY <1>4 DEF ModelAnswers
    <2>2. PICK reply \in Replies : Commit(q, Written(ask[q], "assistant", Complete(reply).content, 0, Complete(reply).tokens))
      BY <1>4 DEF ModelAnswers
    <2>3. ask[q] \in AskType /\ CallCounts(ask[q], 0)
      BY <2>1, AskingIs
    <2> DEFINE txn == ask[q]
               content == Complete(reply).content
               tokens == Complete(reply).tokens
               w == Written(txn, "assistant", content, 0, tokens)
               e == Turn(txn.conv, txn.rows, "assistant", content, 0, tokens)
    <2>4. content \in BOOLEAN /\ tokens \in 0..CallTokens /\ CallTokens \in Nat
      BY ReplyIs DEF AdvisorAssumption
    <2>5. e.role = "assistant" /\ e.calls = 0 /\ e.tokens = tokens /\ Grown(txn, w, e) /\ w.rounds = txn.rounds
      <3> HIDE DEF txn, content, tokens
      <3>1. txn \in AskType /\ tokens \in Nat /\ content \in BOOLEAN /\ 0 \in Nat
        BY <2>3, <2>4 DEF txn
      <3>2. WrittenFits(txn, "assistant", content, 0, tokens)
        BY <1>0, <3>1, WrittenIs
      <3> QED  BY <3>2 DEF WrittenFits
    <2>6. Commit(q, w)
      BY <2>2
    <2> HIDE DEF w, e, content, tokens
    <2>7. CallCounts(w, 1)
      BY <2>3, <2>4, <2>5, AnswerCounts
    <2>8. w \in AskType /\ w.conv = ask[q].conv /\ w.new = ask[q].new
      BY <2>5 DEF Grown
    <2>9. advisorDb = "sqlite" => Numbered(w)
      <3> SUFFICES ASSUME advisorDb = "sqlite" PROVE Numbered(w)
        OBVIOUS
      <3>1. txn.conv \in Nat /\ Numbered(txn)
        BY <2>1, <2>3 DEF AskType, AdvisorInv, AsksAreAlone
      <3>2. SeqsOf(txn.conv) = 0..(Count(turns, ConvTurns(txn.conv)) - 1)
        BY <3>1 DEF AdvisorInv, ConversationsAreNumbered
      <3> QED  BY <1>0, <2>3, <2>5, <3>1, <3>2, GrowthIsNumbered
    <2> QED  BY <2>1, <2>6, <2>7, <2>8, <2>9, AskCommitKeeps
  <1>5. CASE ModelCallsTools(q)
    <2>1. /\ ask[q].at = "model" /\ ask[q].rounds < ask[q].limit
          /\ UNCHANGED <<advisorDb, conversations, turns, audited>>
      BY <1>5 DEF ModelCallsTools
    <2>2. PICK calls \in 1..2, content \in BOOLEAN :
             ask' = [ask EXCEPT ![q] = [Written(ask[q], "assistant", content, calls, CallTokens)
                                          EXCEPT !.rounds = ask[q].rounds + 1]]
      BY <1>5 DEF ModelCallsTools
    <2>3. ask[q] \in AskType /\ CallCounts(ask[q], 0)
      BY <2>1, AskingIs
    <2> DEFINE txn == ask[q]
               more == ask[q].rounds + 1
               w == [Written(txn, "assistant", content, calls, CallTokens) EXCEPT !.rounds = more]
               e == Turn(txn.conv, txn.rows, "assistant", content, calls, CallTokens)
    <2>4. CallTokens \in Nat /\ calls \in Nat /\ more \in Nat
      BY <2>3 DEF AdvisorAssumption, AskType
    <2>5. e.role = "assistant" /\ e.calls = calls /\ e.tokens = CallTokens /\ Grown(txn, w, e) /\ w.rounds = more
      <3> HIDE DEF txn, more
      <3> DEFINE w1 == Written(txn, "assistant", content, calls, CallTokens)
      <3>1. txn \in AskType
        BY <2>3 DEF txn
      <3>2. e.role = "assistant" /\ e.calls = calls /\ e.tokens = CallTokens /\ Grown(txn, w1, e)
        <4>1. WrittenFits(txn, "assistant", content, calls, CallTokens)
          BY <1>0, <2>4, <3>1, WrittenIs
        <4> QED  BY <4>1 DEF WrittenFits
      <3>3. w = [w1 EXCEPT !.rounds = more]
        OBVIOUS
      <3> HIDE DEF w1, w, e
      <3> QED  BY <2>4, <3>2, <3>3, RoundIs
    <2>6. ask' = [ask EXCEPT ![q] = w]
      BY <2>2
    <2> HIDE DEF w, e
    <2>7. CallCounts(w, 0)
      BY <2>1, <2>3, <2>4, <2>5, AnswerCounts
    <2>8. w \in AskType /\ w.conv = ask[q].conv /\ w.new = ask[q].new /\ w.at = "model"
      BY <2>5 DEF Grown, AskType
    <2>9. NewFor(q, w)
      BY <2>1, <2>8 DEF NewFor, AdvisorInv, NewAreNew
    <2>10. ASSUME advisorDb = "sqlite"
           PROVE  Numbered(w) /\ \A p \in Askers \ {q} : ask[p].at # "model"
      <3>1. /\ txn.conv \in Nat /\ Numbered(txn) /\ \A p \in Askers \ {q} : ask[p].at # "model"
        BY <2>1, <2>3, <2>10 DEF AskType, AdvisorInv, AsksAreAlone
      <3>2. SeqsOf(txn.conv) = 0..(Count(turns, ConvTurns(txn.conv)) - 1)
        BY <2>10, <3>1 DEF AdvisorInv, ConversationsAreNumbered
      <3>3. Numbered(w)
        BY <1>0, <2>3, <2>5, <3>1, <3>2, GrowthIsNumbered
      <3> QED  BY <3>1, <3>3
    <2>11. BudgetFits'
      <3>1. w # NotAsking /\ ask[q] # NotAsking
        BY <2>1, <2>8 DEF NotAsking
      <3> QED  BY <2>1, <2>6, <3>1, ChargingStays
    <2> QED  BY <2>1, <2>6, <2>7, <2>8, <2>9, <2>10, <2>11, AskChanges
  <1>6. CASE ToolLimit(q)
    <2>1. ask[q].at = "model" /\ ask[q].rounds >= ask[q].limit /\ Commit(q, ask[q]) /\ advisorDb' = advisorDb
      BY <1>6 DEF ToolLimit
    <2>2. ask[q] \in AskType /\ CallCounts(ask[q], 0)
      BY <2>1, AskingIs
    <2>3. advisorDb = "sqlite" => Numbered(ask[q])
      BY <2>1 DEF AdvisorInv, AsksAreAlone
    <2>4. ask[q].rounds >= 1
      BY <2>1, <2>2, AdvisorAssumption DEF AskType, AdvisorAssumption
    <2> QED  BY <2>1, <2>2, <2>3, <2>4, AskCommitKeeps
  <1> QED  BY <1>1, <1>2, <1>3, <1>4, <1>5, <1>6 DEF AskStep

LEMMA AdvisorInvStutter ==
    ASSUME AdvisorInv, UNCHANGED advisorVars
    PROVE  AdvisorInv'
  <1>1. UNCHANGED <<advisorDb, conversations, turns, audited, ask>>
    BY DEF advisorVars
  <1>2. AdvisorTypeOK' /\ TurnsHaveConversations'
    BY <1>1 DEF AdvisorInv, AdvisorTypeOK, TurnsHaveConversations
  <1>3. CallsAreCounted'
    BY <1>1 DEF AdvisorInv, CallsAreCounted, CallCounts
  <1>4. NewAreNew'
    BY <1>1 DEF AdvisorInv, NewAreNew
  <1>5. AsksAreAlone'
    BY <1>1 DEF AdvisorInv, AsksAreAlone, Numbered
  <1>6. ConversationsAreNumbered'
    BY <1>1 DEF AdvisorInv, ConversationsAreNumbered, SeqsOf
  <1>7. AuditFits' /\ AnswersFit'
    BY <1>1 DEF AdvisorInv, AuditFits, AnswersFit
  <1>8. BudgetFits'
    <2>1. Charging' = Charging
      BY <1>1 DEF Charging
    <2> QED  BY <1>1, <2>1 DEF AdvisorInv, BudgetFits
  <1> QED  BY <1>2, <1>3, <1>4, <1>5, <1>6, <1>7, <1>8 DEF AdvisorInv

LEMMA AdvisorIsSoundFollows ==
    ASSUME AdvisorAssumption, AdvisorInv
    PROVE  AdvisorIsSound
  <1>1. /\ turns \in Seq(TurnType) /\ DOMAIN turns = 1..Len(turns) /\ conversations \subseteq Nat
        /\ \A i \in 1..Len(turns) : turns[i] \in TurnType
    BY ElementOfSeq DEF AdvisorInv, AdvisorTypeOK
  <1>2. \A c : Of(c) = TurnsIn(turns, ConvTurns(c))
    BY <1>1 DEF Of, TurnsIn, ConvTurns
  <1>3. TurnsAreNumbered
    BY <1>1, <1>2 DEF TurnsAreNumbered, AdvisorInv, ConversationsAreNumbered, SeqsOf, Count
  <1>4. AuditTellsAsks
    <2>1. {i \in DOMAIN turns : turns[i].role = "assistant" /\ turns[i].content} = TurnsIn(turns, AnswerTurns)
      BY <1>1 DEF TurnsIn, AnswerTurns
    <2> QED  BY <2>1, TokensAreTotal DEF AuditTellsAsks, AdvisorInv, AuditFits, Count
  <1>5. OvershootIsBounded
    <2> DEFINE a == Cardinality(Askers)
               b == Cardinality(Charging)
    <2>1. a \in Nat /\ b \in Nat /\ b <= a /\ PerAsk \in Nat
      BY ChargedAreCounted, PerAskIs
    <2>2. UsedToday <= (TokenLimit - 1) + (a - b) * PerAsk
      BY TokensAreTotal DEF AdvisorInv, BudgetFits
    <2>3. UsedToday \in Nat /\ TokenLimit \in Nat
      BY TokensAreTotal, TotalsAre DEF AdvisorInv, AdvisorTypeOK, AdvisorAssumption
    <2>4. a * PerAsk = a * (MostToolCalls + 1) * CallTokens
      <3>1. MostToolCalls \in Nat /\ CallTokens \in Nat
        BY DEF AdvisorAssumption
      <3> HIDE DEF a
      <3> QED  BY <2>1, <3>1 DEF PerAsk
    <2> DEFINE p == PerAsk
    <2> HIDE DEF a, b, p
    <2>5. a * p = (a - b) * p + b * p /\ b * p \in Nat /\ (a - b) * p \in Nat
      <3>1. (a - b) + b = a /\ a - b \in Nat /\ p \in Nat
        BY <2>1 DEF p
      <3>2. ((a - b) + b) * p = (a - b) * p + b * p
        BY <2>1, <3>1
      <3> QED  BY <2>1, <3>1, <3>2
    <2>6. UsedToday <= TokenLimit - 1 + a * p
      BY <2>2, <2>3, <2>5 DEF p
    <2> QED  BY <2>4, <2>6 DEF OvershootIsBounded, a, p
  <1>6. QuestionsHaveAnswers
    <2> SUFFICES ASSUME NEW c \in conversations
                 PROVE  LET asked == Cardinality({i \in Of(c) : turns[i].role = "user"})
                            final == Cardinality({i \in Of(c) : turns[i].role = "assistant" /\ turns[i].calls = 0})
                            rounds == Cardinality({i \in Of(c) : turns[i].calls > 0})
                        IN final <= asked /\ asked - final <= rounds
      BY DEF QuestionsHaveAnswers
    <2>1. {i \in Of(c) : turns[i].role = "user"} = TurnsIn(turns, ConvTurns(c) \cap UserTurns)
      BY <1>1, <1>2 DEF TurnsIn, ConvTurns, UserTurns
    <2>2. {i \in Of(c) : turns[i].role = "assistant" /\ turns[i].calls = 0} = TurnsIn(turns, ConvTurns(c) \cap FinalTurns)
      BY <1>1, <1>2 DEF TurnsIn, ConvTurns, FinalTurns
    <2>3. {i \in Of(c) : turns[i].calls > 0} = TurnsIn(turns, ConvTurns(c) \cap RoundTurns)
      BY <1>1, <1>2 DEF TurnsIn, ConvTurns, RoundTurns
    <2>4. c \in Nat
      BY <1>1
    <2> QED  BY <2>1, <2>2, <2>3, <2>4 DEF AdvisorInv, AnswersFit, Count
  <1> QED  BY <1>3, <1>4, <1>5, <1>6 DEF AdvisorIsSound

\* Whatever the providers answer, and however requests overlap: turns of a conversation are
\* numbered from 0 without a gap when a transaction is alone, the audit counts are those of
\* the rows, the day's budget is passed by the asks in flight at most, and a question on
\* record has its answer or used up its rounds of tools.
THEOREM AdvisorCorrect == AdvisorSpec => []AdvisorIsSound
  <1>1. AdvisorInit => AdvisorInv
    BY AdvisorInvInit, AdvisorAssumption
  <1>2. AdvisorInv /\ [AdvisorNext]_advisorVars => AdvisorInv'
    BY AdvisorInvNext, AdvisorInvStutter, AdvisorAssumption
  <1>3. AdvisorInv => AdvisorIsSound
    BY AdvisorIsSoundFollows, AdvisorAssumption
  <1> QED  BY <1>1, <1>2, <1>3, PTL DEF AdvisorSpec

--------------------------------------------------------------------------------
(* Insights.  What Sorted returns: every element once, the smaller key first. *)

Keyed(S, key) == IsFiniteSet(S) /\ key \in [S -> Nat] /\ \A s, t \in S : key[s] = key[t] => s = t
Below(S, key, s) == {t \in S : key[t] < key[s]}

\* Elements have different numbers of elements below them, so that each number occurs.
LEMMA EachRankOccurs ==
    ASSUME NEW S, NEW key, Keyed(S, key)
    PROVE  /\ Cardinality(S) \in Nat
           /\ \A s \in S : Cardinality(Below(S, key, s)) \in 0..(Cardinality(S) - 1)
           /\ \A s, t \in S : key[s] < key[t] => Cardinality(Below(S, key, s)) < Cardinality(Below(S, key, t))
           /\ \A k \in 1..Cardinality(S) : \E s \in S : Cardinality(Below(S, key, s)) = k - 1
  <1>0. IsFiniteSet(S) /\ key \in [S -> Nat] /\ (\A s, t \in S : key[s] = key[t] => s = t) /\ Cardinality(S) \in Nat
    BY FS_CardinalityType DEF Keyed
  <1>1. \A s, t \in S : key[s] < key[t] => Cardinality(Below(S, key, s)) < Cardinality(Below(S, key, t))
    <2> SUFFICES ASSUME NEW s \in S, NEW t \in S, key[s] < key[t]
                 PROVE  Cardinality(Below(S, key, s)) < Cardinality(Below(S, key, t))
      OBVIOUS
    <2>1. Below(S, key, s) \subseteq Below(S, key, t) /\ s \in Below(S, key, t) /\ s \notin Below(S, key, s)
      BY <1>0 DEF Below
    <2>2. IsFiniteSet(Below(S, key, t))
      BY <1>0, FS_Subset DEF Below
    <2>3. /\ Cardinality(Below(S, key, s)) <= Cardinality(Below(S, key, t))
          /\ Cardinality(Below(S, key, s)) # Cardinality(Below(S, key, t))
          /\ IsFiniteSet(Below(S, key, s))
      BY <2>1, <2>2, FS_Subset
    <2>4. Cardinality(Below(S, key, s)) \in Nat /\ Cardinality(Below(S, key, t)) \in Nat
      BY <2>2, <2>3, FS_CardinalityType
    <2> QED  BY <2>3, <2>4
  <1>2. \A s \in S : Cardinality(Below(S, key, s)) \in 0..(Cardinality(S) - 1)
    <2> SUFFICES ASSUME NEW s \in S PROVE Cardinality(Below(S, key, s)) \in 0..(Cardinality(S) - 1)
      OBVIOUS
    <2>1. Below(S, key, s) \subseteq S \ {s}
      BY <1>0 DEF Below
    <2>2. IsFiniteSet(S \ {s}) /\ Cardinality(S \ {s}) = Cardinality(S) - 1
      BY <1>0, FS_RemoveElement
    <2>3. IsFiniteSet(Below(S, key, s)) /\ Cardinality(Below(S, key, s)) <= Cardinality(S) - 1
      BY <2>1, <2>2, FS_Subset
    <2>4. Cardinality(Below(S, key, s)) \in Nat
      BY <2>3, FS_CardinalityType
    <2> QED  BY <1>0, <2>3, <2>4
  <1>3. \A k \in 1..Cardinality(S) : \E s \in S : Cardinality(Below(S, key, s)) = k - 1
    <2> DEFINE T == 0..(Cardinality(S) - 1)
               f == [s \in S |-> Cardinality(Below(S, key, s))]
    <2>1. f \in [S -> T]
      BY <1>2
    <2>2. \A s, t \in S : f[s] = f[t] => s = t
      <3> SUFFICES ASSUME NEW s \in S, NEW t \in S, Cardinality(Below(S, key, s)) = Cardinality(Below(S, key, t))
                   PROVE  s = t
        OBVIOUS
      <3>1. ~ (key[s] < key[t]) /\ ~ (key[t] < key[s])
        BY <1>1, <1>2
      <3>2. key[s] \in Nat /\ key[t] \in Nat
        BY <1>0
      <3>3. key[s] = key[t]
        BY <3>1, <3>2
      <3> QED  BY <1>0, <3>3
    <2>3. IsFiniteSet(T) /\ Cardinality(T) = Cardinality(S)
      <3>1. 0 \in Int /\ Cardinality(S) - 1 \in Int
        BY <1>0
      <3>2. IsFiniteSet(T) /\ Cardinality(T) = IF 0 > Cardinality(S) - 1 THEN 0 ELSE Cardinality(S) - 1 - 0 + 1
        BY <3>1, FS_Interval
      <3> HIDE DEF T
      <3> QED  BY <1>0, <3>2
    <2> HIDE DEF T, f
    <2>4. f \in Injection(S, T)
      BY <2>1, <2>2 DEF Injection, IsInjective
    <2>5. f \in Surjection(S, T)
      BY <2>3, <2>4, FS_Injection
    <2>6. \A k \in T : \E s \in S : f[s] = k
      BY <2>5 DEF Surjection
    <2>7. \A k \in 1..Cardinality(S) : k - 1 \in T
      BY <1>0 DEF T
    <2> QED  BY <2>6, <2>7 DEF f
  <1> QED  BY <1>0, <1>1, <1>2, <1>3

LEMMA SortedIs ==
    ASSUME NEW S, NEW key, Keyed(S, key)
    PROVE  /\ Cardinality(S) \in Nat
           /\ Sorted(S, key) \in [1..Cardinality(S) -> S]
           /\ \A s \in S : \E k \in 1..Cardinality(S) : Sorted(S, key)[k] = s
           /\ \A k, l \in 1..Cardinality(S) : k < l => key[Sorted(S, key)[k]] < key[Sorted(S, key)[l]]
  <1> DEFINE n == Cardinality(S)
             f == Sorted(S, key)
  <1>0. key \in [S -> Nat] /\ (\A s, t \in S : key[s] = key[t] => s = t) /\ n \in Nat
    BY EachRankOccurs DEF Keyed
  <1>1. \A k \in 1..n : f[k] \in S /\ Cardinality(Below(S, key, f[k])) = k - 1
    <2> SUFFICES ASSUME NEW k \in 1..n PROVE f[k] \in S /\ Cardinality(Below(S, key, f[k])) = k - 1
      OBVIOUS
    <2>1. f[k] = CHOOSE s \in S : Cardinality(Below(S, key, s)) = k - 1
      BY DEF Sorted, Below
    <2>2. \E s \in S : Cardinality(Below(S, key, s)) = k - 1
      BY EachRankOccurs
    <2> HIDE DEF f
    <2> QED  BY <2>1, <2>2
  <1>2. f \in [1..n -> S]
    <2>1. f = [k \in 1..n |-> f[k]]
      BY DEF Sorted
    <2> HIDE DEF f, n
    <2> QED  BY <1>1, <2>1
  <1>3. \A s, t \in S : key[s] < key[t] => Cardinality(Below(S, key, s)) < Cardinality(Below(S, key, t))
    BY EachRankOccurs
  <1>4. \A s \in S : Cardinality(Below(S, key, s)) \in 0..(n - 1)
    BY EachRankOccurs
  <1> HIDE DEF f, n
  <1>5. \A s, t \in S : Cardinality(Below(S, key, s)) = Cardinality(Below(S, key, t)) => s = t
    <2> SUFFICES ASSUME NEW s \in S, NEW t \in S, Cardinality(Below(S, key, s)) = Cardinality(Below(S, key, t))
                 PROVE  s = t
      OBVIOUS
    <2>1. ~ (key[s] < key[t]) /\ ~ (key[t] < key[s])
      BY <1>3, <1>4
    <2>2. key[s] \in Nat /\ key[t] \in Nat
      BY <1>0
    <2>3. key[s] = key[t]
      BY <2>1, <2>2
    <2> QED  BY <1>0, <2>3
  <1>6. \A s \in S : \E k \in 1..n : f[k] = s
    <2> SUFFICES ASSUME NEW s \in S PROVE \E k \in 1..n : f[k] = s
      OBVIOUS
    <2>1. Cardinality(Below(S, key, s)) + 1 \in 1..n /\ (Cardinality(Below(S, key, s)) + 1) - 1 = Cardinality(Below(S, key, s))
      BY <1>0, <1>4
    <2>2. f[Cardinality(Below(S, key, s)) + 1] = s
      BY <1>1, <1>5, <2>1
    <2> QED  BY <2>1, <2>2
  <1>7. \A k, l \in 1..n : k < l => key[f[k]] < key[f[l]]
    <2> SUFFICES ASSUME NEW k \in 1..n, NEW l \in 1..n, k < l PROVE key[f[k]] < key[f[l]]
      OBVIOUS
    <2>1. f[k] \in S /\ f[l] \in S /\ key[f[k]] \in Nat /\ key[f[l]] \in Nat
      BY <1>0, <1>1
    <2>2. Cardinality(Below(S, key, f[k])) = k - 1 /\ Cardinality(Below(S, key, f[l])) = l - 1
      BY <1>1
    <2>3. CASE key[f[k]] < key[f[l]]
      BY <2>3
    <2>4. CASE key[f[l]] < key[f[k]]
      <3>1. Cardinality(Below(S, key, f[l])) < Cardinality(Below(S, key, f[k]))
        BY <1>3, <2>1, <2>4
      <3>2. k \in Int /\ l \in Int
        BY <1>0
      <3>3. l - 1 < k - 1
        BY <2>2, <3>1
      <3> QED  BY <3>2, <3>3
    <2>5. CASE key[f[l]] = key[f[k]]
      <3>1. f[k] = f[l]
        BY <1>0, <2>1, <2>5
      <3>2. k \in Int /\ l \in Int /\ k - 1 = l - 1
        BY <1>0, <2>2, <3>1
      <3> QED  BY <3>2
    <2> QED  BY <2>1, <2>3, <2>4, <2>5
  <1> QED  BY <1>0, <1>2, <1>6, <1>7 DEF f, n

\* The elements of a finite set as a sequence: each once.
LEMMA SetToSeqIs ==
    ASSUME NEW S, IsFiniteSet(S)
    PROVE  /\ Cardinality(S) \in Nat
           /\ SetToSeq(S) \in [1..Cardinality(S) -> S]
           /\ \A i, j \in 1..Cardinality(S) : SetToSeq(S)[i] = SetToSeq(S)[j] => i = j
  <1>1. Cardinality(S) \in Nat /\ ExistsBijection(1..Cardinality(S), S)
    BY FS_CardinalityType
  <1>2. PICK f : f \in Bijection(1..Cardinality(S), S)
    BY <1>1 DEF ExistsBijection
  <1>3. f \in [1..Cardinality(S) -> S] /\ \A a, b \in DOMAIN f : f[a] = f[b] => a = b
    BY <1>2 DEF Bijection, Injection, IsInjective
  <1> DEFINE g == SetToSeq(S)
  <1>4. g \in [1..Cardinality(S) -> S] /\ \A a, b \in DOMAIN g : g[a] = g[b] => a = b
    BY <1>3 DEF SetToSeq, IsInjective
  <1> HIDE DEF g
  <1>5. \A i, j \in 1..Cardinality(S) : g[i] = g[j] => i = j
    BY <1>4
  <1> QED  BY <1>1, <1>4, <1>5 DEF g

--------------------------------------------------------------------------------
(* Insights of a fleet. *)

SessionRecords == [status : {"running", "failed"}] \cup [status : {"completed"}, done : Nat, scan : Scans]
\* The clock of completions is ahead of every session, and has ticked once for each.
SessionsAre ==
    /\ completions \in Nat
    /\ session \in Seq(SessionRecords)
    /\ \A s \in Completed : session[s].done <= completions
    /\ \A s, t \in Completed : session[s].done = session[t].done => s = t
InsightRows == [found : {insights[row].found : row \in Rows}, dismissed : BOOLEAN, at : Nat]
InsightInv ==
    /\ SessionsAre
    /\ insights \in Seq(InsightRows)
    /\ NoTwinInsights
    /\ AuditTellsInsights

LEMMA ScansAre ==
    ASSUME NEW scan \in Scans
    PROVE  /\ DOMAIN scan = Steady \/ DOMAIN scan = Steady \cup {Varying}
           /\ IsFiniteSet(DOMAIN scan)
           /\ \A r \in Steady : r \in DOMAIN scan /\ scan[r].outcome = "pass"
  <1>1. Result("pass").outcome = "pass"
    BY DEF Result
  <1>2. CASE scan = [r \in Steady |-> Result("pass")]
    <2>1. DOMAIN scan = Steady /\ \A r \in Steady : scan[r] = Result("pass")
      BY <1>2
    <2> QED  BY <1>1, <2>1, InsightAssumption
  <1>3. ASSUME NEW x \in Readings, scan = [r \in Steady \cup {Varying} |-> IF r = Varying THEN Result(x) ELSE Result("pass")]
        PROVE  /\ DOMAIN scan = Steady \cup {Varying}
               /\ IsFiniteSet(DOMAIN scan)
               /\ \A r \in Steady : r \in DOMAIN scan /\ scan[r].outcome = "pass"
    <2>1. DOMAIN scan = Steady \cup {Varying} /\ \A r \in Steady : scan[r] = Result("pass")
      BY <1>3, InsightAssumption
    <2>2. IsFiniteSet(Steady \cup {Varying})
      BY InsightAssumption, FS_AddElement
    <2> QED  BY <1>1, <2>1, <2>2
  <1> QED  BY <1>2, <1>3 DEF Scans

\* The window shows the sessions looked at, in the order in which they completed.
LEMMA WindowIs ==
    ASSUME SessionsAre
    PROVE  /\ Keyed(Recent, [s \in Recent |-> session[s].done])
           /\ Cardinality(Recent) \in Nat
           /\ Order \in [1..Cardinality(Recent) -> Recent]
           /\ \A s \in Recent : \E k \in 1..Cardinality(Recent) : Order[k] = s
           /\ \A k, l \in 1..Cardinality(Recent) : k < l => session[Order[k]].done < session[Order[l]].done
           /\ Window \in [1..Cardinality(Recent) -> Scans]
           /\ \A k \in 1..Cardinality(Recent) : Window[k] = session[Order[k]].scan
           /\ \A s \in Recent : session[s].done \in Nat /\ session[s].scan \in Scans
  <1> DEFINE key == [s \in Recent |-> session[s].done]
             n == Cardinality(Recent)
  <1>1. Recent \subseteq Completed /\ Completed \subseteq DOMAIN session
    BY DEF Recent, Completed
  <1>2. \A s \in Completed : session[s] \in SessionRecords /\ session[s].status = "completed"
    BY DEF SessionsAre, Completed
  <1>3. \A s \in Completed : session[s].done \in Nat /\ session[s].scan \in Scans
    BY <1>2 DEF SessionRecords
  <1>4. IsFiniteSet(Recent)
    <2>1. DOMAIN session = 1..Len(session) /\ Len(session) \in Nat
      BY DEF SessionsAre
    <2>2. IsFiniteSet(1..Len(session))
      BY <2>1, FS_Interval
    <2> QED  BY <1>1, <2>1, <2>2, FS_Subset
  <1>5. Keyed(Recent, key)
    <2>1. key \in [Recent -> Nat]
      BY <1>1, <1>3
    <2>2. \A s, t \in Recent : key[s] = key[t] => s = t
      BY <1>1 DEF SessionsAre
    <2> HIDE DEF key
    <2> QED  BY <1>4, <2>1, <2>2 DEF Keyed
  <1>6. Order = Sorted(Recent, key)
    BY DEF Order
  <1>7. \A s \in Recent : key[s] = session[s].done
    OBVIOUS
  <1> HIDE DEF key
  <1>8. /\ n \in Nat /\ Order \in [1..n -> Recent]
        /\ \A s \in Recent : \E k \in 1..n : Order[k] = s
        /\ \A k, l \in 1..n : k < l => key[Order[k]] < key[Order[l]]
    BY <1>5, <1>6, SortedIs
  <1> HIDE DEF n
  <1>9. \A k, l \in 1..n : k < l => session[Order[k]].done < session[Order[l]].done
    BY <1>7, <1>8
  <1>10. Window = [k \in 1..n |-> session[Order[k]].scan]
    <2>1. DOMAIN Order = 1..n
      BY <1>8
    <2> QED  BY <2>1 DEF Window
  <1>11. \A k \in 1..n : session[Order[k]].scan \in Scans
    BY <1>1, <1>3, <1>8
  <1>12. Window \in [1..n -> Scans] /\ \A k \in 1..n : Window[k] = session[Order[k]].scan
    BY <1>10, <1>11
  <1> QED  BY <1>1, <1>3, <1>5, <1>8, <1>9, <1>12 DEF n, key

LEMMA ImageIsFinite ==
    ASSUME NEW S, NEW f, IsFiniteSet(S), DOMAIN f = S
    PROVE  IsFiniteSet({f[x] : x \in S})
  <1> DEFINE T == {f[x] : x \in S}
             g == [x \in S |-> f[x]]
  <1>1. g \in Surjection(S, T)
    BY DEF Surjection
  <1> HIDE DEF T, g
  <1>2. IsFiniteSet(T)
    BY <1>1, FS_Surjection
  <1> QED  BY <1>2 DEF T

\* A finding is known by its kind and its robot.
LEMMA DetectedIs ==
    ASSUME NEW n \in Nat, NEW window \in [1..n -> Scans]
    PROVE  /\ IsFiniteSet(Detected(window))
           /\ \A f, g \in Detected(window) : SummaryPrefix(f) = SummaryPrefix(g) => f = g
  <1>1. IsFiniteSet(Scanned(window))
    <2>1. \A i \in 1..n : DOMAIN window[i] \subseteq Steady \cup {Varying}
      BY ScansAre
    <2>2. Scanned(window) \subseteq Steady \cup {Varying}
      BY <2>1 DEF Scanned
    <2>3. IsFiniteSet(Steady \cup {Varying})
      BY InsightAssumption, FS_AddElement
    <2> QED  BY <2>2, <2>3, FS_Subset
  <1> DEFINE R == Scanned(window)
             drift == [r \in R |-> LET seq == History(window, r) IN DriftOf(r, seq[Len(seq) - 1].outcome, seq[Len(seq)].outcome)]
             anomaly == [r \in R |-> [kind |-> "anomaly", robot |-> r, direction |-> Outlier(Durations(window, r))]]
             peer == [r \in R |-> [kind |-> "peer", robot |-> r, ratio |-> PassRatios(window)[r]]]
             D == {drift[r] : r \in R}
             A == {anomaly[r] : r \in R}
             P == {peer[r] : r \in R}
  <1>2. IsFiniteSet(D) /\ IsFiniteSet(A) /\ IsFiniteSet(P)
    <2>1. DOMAIN drift = R /\ DOMAIN anomaly = R /\ DOMAIN peer = R
      OBVIOUS
    <2> HIDE DEF drift, anomaly, peer, R
    <2> QED  BY <1>1, <2>1, ImageIsFinite DEF R
  <1>3. DetectDrift(window) \subseteq D
    BY DEF DetectDrift
  <1>4. DetectAnomaly(window) \subseteq A
    BY DEF DetectAnomaly
  <1>5. DetectPeer(window) \subseteq P
    BY DEF DetectPeer
  <1>6. \A r \in R : drift[r].kind = "drift" /\ drift[r].robot = r
    BY DEF DriftOf
  <1>7. \A r \in R : anomaly[r].kind = "anomaly" /\ anomaly[r].robot = r
    OBVIOUS
  <1>8. \A r \in R : peer[r].kind = "peer" /\ peer[r].robot = r
    OBVIOUS
  <1> HIDE DEF R, drift, anomaly, peer, D, A, P
  <1>9. Detected(window) \subseteq D \cup A \cup P
    BY <1>3, <1>4, <1>5 DEF Detected
  <1>10. IsFiniteSet(Detected(window))
    <2>1. IsFiniteSet(D \cup A \cup P)
      BY <1>2, FS_Union
    <2> QED  BY <1>9, <2>1, FS_Subset
  <1>11. \A f, g \in D \cup A \cup P : f.kind = g.kind /\ f.robot = g.robot => f = g
    <2> SUFFICES ASSUME NEW f \in D \cup A \cup P, NEW g \in D \cup A \cup P, f.kind = g.kind, f.robot = g.robot
                 PROVE  f = g
      OBVIOUS
    <2>1. CASE f \in D
      BY <1>6, <1>7, <1>8, <2>1 DEF D, A, P
    <2>2. CASE f \in A
      BY <1>6, <1>7, <1>8, <2>2 DEF D, A, P
    <2>3. CASE f \in P
      BY <1>6, <1>7, <1>8, <2>3 DEF D, A, P
    <2> QED  BY <2>1, <2>2, <2>3
  <1>12. \A f, g : SummaryPrefix(f) = SummaryPrefix(g) => f.kind = g.kind /\ f.robot = g.robot
    <2> SUFFICES ASSUME NEW f, NEW g, SummaryPrefix(f) = SummaryPrefix(g) PROVE f.kind = g.kind /\ f.robot = g.robot
      OBVIOUS
    <2>1. SummaryPrefix(f)[1] = f.kind /\ SummaryPrefix(f)[2] = f.robot
      BY DEF SummaryPrefix
    <2>2. SummaryPrefix(g)[1] = g.kind /\ SummaryPrefix(g)[2] = g.robot
      BY DEF SummaryPrefix
    <2> QED  BY <2>1, <2>2
  <1> QED  BY <1>9, <1>10, <1>11, <1>12

\* What a run inserts: findings without an active twin, each once.
LEMMA UnreportedIs ==
    ASSUME InsightInv
    PROVE  /\ SetToSeq(Unreported) \in Seq(Unreported)
           /\ DOMAIN SetToSeq(Unreported) = 1..Len(SetToSeq(Unreported))
           /\ \A i, j \in DOMAIN SetToSeq(Unreported) :
                 i # j => SummaryPrefix(SetToSeq(Unreported)[i]) # SummaryPrefix(SetToSeq(Unreported)[j])
           /\ \A i \in DOMAIN SetToSeq(Unreported) :
                 /\ SetToSeq(Unreported)[i] \in Detected(Window)
                 /\ ~ HasActiveDuplicate(SetToSeq(Unreported)[i])
  <1>1. /\ IsFiniteSet(Detected(Window))
        /\ \A f, g \in Detected(Window) : SummaryPrefix(f) = SummaryPrefix(g) => f = g
    <2>1. Cardinality(Recent) \in Nat /\ Window \in [1..Cardinality(Recent) -> Scans]
      BY WindowIs DEF InsightInv
    <2> QED  BY <2>1, DetectedIs
  <1>2. Unreported \subseteq Detected(Window) /\ \A f \in Unreported : ~ HasActiveDuplicate(f)
    BY DEF Unreported
  <1>3. IsFiniteSet(Unreported)
    BY <1>1, <1>2, FS_Subset
  <1> DEFINE new == SetToSeq(Unreported)
             n == Cardinality(Unreported)
  <1>4. n \in Nat /\ new \in [1..n -> Unreported] /\ \A i, j \in 1..n : new[i] = new[j] => i = j
    BY <1>3, SetToSeqIs
  <1> HIDE DEF new, n
  <1>5. new \in Seq(Unreported) /\ Len(new) = n /\ DOMAIN new = 1..n
    BY <1>4
  <1>6. \A i \in 1..n : new[i] \in Unreported
    BY <1>4
  <1>7. \A i, j \in 1..n : i # j => SummaryPrefix(new[i]) # SummaryPrefix(new[j])
    BY <1>1, <1>2, <1>4, <1>6
  <1>8. \A i \in 1..n : new[i] \in Detected(Window) /\ ~ HasActiveDuplicate(new[i])
    BY <1>2, <1>6
  <1> QED  BY <1>5, <1>7, <1>8 DEF new

LEMMA RunKeepsRows ==
    ASSUME InsightInv, RunForFleet, UNCHANGED dismissedLog
    PROVE  (insights \in Seq(InsightRows) /\ NoTwinInsights /\ AuditTellsInsights)'
  <1> DEFINE new == SetToSeq(Unreported)
             n == Len(insights)
             m == Len(new)
             added == [i \in DOMAIN new |-> Row(new[i])]
             T == [found : {insights[row].found : row \in Rows} \cup Unreported, dismissed : BOOLEAN, at : Nat]
  <1>0. insights \in Seq(InsightRows) /\ n \in Nat /\ Rows = 1..n /\ NoTwinInsights /\ AuditTellsInsights
    BY DEF InsightInv, Rows
  <1>1. /\ new \in Seq(Unreported) /\ DOMAIN new = 1..m /\ m \in Nat
        /\ \A i, j \in 1..m : i # j => SummaryPrefix(new[i]) # SummaryPrefix(new[j])
        /\ \A i \in 1..m : new[i] \in Unreported /\ ~ HasActiveDuplicate(new[i])
    BY UnreportedIs
  <1>2. CASE UNCHANGED <<insights, createdLog>>
    BY <1>0, <1>2 DEF InsightRows, Rows, NoTwinInsights, AuditTellsInsights, Active
  <1>3. CASE /\ insights' = insights \o added
             /\ createdLog' = createdLog \cup (n + 1)..(n + m)
    <2>1. completions \in Nat
      BY DEF InsightInv, SessionsAre
    <2>2. added \in Seq(T) /\ Len(added) = m /\ DOMAIN added = 1..m
      <3>1. \A i \in 1..m : Row(new[i]) \in T
        BY <1>1, <2>1 DEF Row
      <3>2. added \in [1..m -> T]
        BY <1>1, <3>1
      <3> HIDE DEF added, T, new, m
      <3> QED  BY <1>1, <3>2
    <2>3. insights \in Seq(T)
      <3>1. InsightRows \subseteq T
        BY DEF InsightRows
      <3>2. \A row \in 1..n : insights[row] \in T
        BY <1>0, <3>1
      <3>3. insights \in [1..n -> T]
        BY <1>0, <3>2
      <3> HIDE DEF T
      <3> QED  BY <1>0, <3>3
    <2>4. \A i \in 1..m : added[i].found = new[i] /\ added[i].dismissed = FALSE
      BY <1>1 DEF Row
    <2> HIDE DEF T, new, m, n, added
    <2>5. /\ insights' \in Seq(T) /\ Len(insights') = n + m
          /\ \A i \in 1..(n + m) : insights'[i] = IF i <= n THEN insights[i] ELSE added[i - n]
      BY <1>0, <1>3, <2>2, <2>3, ConcatProperties DEF n
    <2>6. Rows' = 1..(n + m)
      BY <2>5 DEF Rows
    <2>7. \A i \in 1..n : i \in Rows' /\ insights'[i] = insights[i]
      BY <1>0, <1>1, <2>5, <2>6
    <2>8. \A i \in Rows' \ Rows : i - n \in 1..m /\ insights'[i] = added[i - n] /\ i \notin 1..n
      BY <1>0, <1>1, <2>5, <2>6
    <2>9. (insights \in Seq(InsightRows))'
      <3>1. \A i \in Rows' : insights'[i] \in T
        BY <2>5, <2>6, ElementOfSeq
      <3>2. \A i \in Rows' : insights'[i] \in InsightRows'
        BY <3>1 DEF T, InsightRows
      <3>3. insights' \in [1..(n + m) -> InsightRows']
        <4>1. insights' = [i \in 1..(n + m) |-> insights'[i]]
          BY <2>5
        <4> QED  BY <2>6, <3>2, <4>1
      <3>4. n + m \in Nat
        BY <1>0, <1>1
      <3>5. insights' \in Seq(InsightRows')
        BY <3>3, <3>4
      <3> QED  BY <3>5
    <2>10. NoTwinInsights'
      <3> SUFFICES ASSUME NEW a \in Rows', NEW b \in Rows', a < b, Active(a)', Active(b)'
                   PROVE  SummaryPrefix(insights'[a].found) # SummaryPrefix(insights'[b].found)
        <4>1. \A a, b \in Rows' : a # b => a < b \/ b < a
          BY <1>0, <1>1, <2>6
        <4> QED  BY <4>1 DEF NoTwinInsights
      <3>1. CASE b \in Rows
        <4>1. a \in Rows
          BY <1>0, <1>1, <2>6, <3>1
        <4>2. Active(a) /\ Active(b) /\ insights'[a] = insights[a] /\ insights'[b] = insights[b]
          BY <1>0, <2>7, <3>1, <4>1 DEF Active
        <4>3. a # b
          BY <1>0, <3>1, <4>1
        <4> QED  BY <1>0, <3>1, <4>1, <4>2, <4>3 DEF NoTwinInsights
      <3>2. CASE a \in Rows /\ b \notin Rows
        <4>1. b - n \in 1..m /\ insights'[b].found = new[b - n]
          BY <2>4, <2>8, <3>2
        <4>2. Active(a) /\ insights'[a] = insights[a]
          BY <1>0, <2>7, <3>2 DEF Active
        <4> QED  BY <1>1, <3>2, <4>1, <4>2 DEF HasActiveDuplicate
      <3>3. CASE a \notin Rows /\ b \notin Rows
        <4>1. b - n \in 1..m /\ insights'[b].found = new[b - n] /\ a - n \in 1..m /\ insights'[a].found = new[a - n]
          BY <2>4, <2>8, <3>3
        <4>2. a - n # b - n
          BY <1>0, <1>1, <2>6
        <4> QED  BY <1>1, <4>1, <4>2
      <3>4. b \notin Rows => a \in Rows \/ a \notin Rows
        OBVIOUS
      <3> QED  BY <3>1, <3>2, <3>3
    <2>11. AuditTellsInsights'
      <3>1. createdLog' = 1..(n + m)
        BY <1>0, <1>1, <1>3 DEF AuditTellsInsights
      <3>2. \A i \in Rows' \ Rows : Active(i)'
        BY <2>4, <2>8 DEF Active
      <3>3. \A i \in Rows : i \in Rows' /\ (Active(i)' <=> Active(i))
        BY <1>0, <2>7 DEF Active
      <3>4. {row \in Rows : ~Active(row)} = {row \in Rows' : ~Active(row)'}
        BY <3>2, <3>3
      <3>5. dismissedLog' = {row \in Rows' : ~Active(row)'}
        BY <1>0, <3>4 DEF AuditTellsInsights
      <3> QED  BY <2>6, <3>1, <3>5 DEF AuditTellsInsights
    <2> QED  BY <2>9, <2>10, <2>11
  <1> QED  BY <1>2, <1>3 DEF RunForFleet

LEMMA InsightInvStep == InsightInv /\ [InsightNext]_insightVars => InsightInv'
  <1> SUFFICES ASSUME InsightInv, [InsightNext]_insightVars PROVE InsightInv'
    OBVIOUS
  <1>0. /\ completions \in Nat /\ session \in Seq(SessionRecords)
        /\ \A s \in Completed : session[s].done <= completions
        /\ \A s, t \in Completed : session[s].done = session[t].done => s = t
        /\ DOMAIN session = 1..Len(session) /\ Len(session) \in Nat
    BY DEF InsightInv, SessionsAre
  <1>00. /\ insights \in Seq(InsightRows) /\ DOMAIN insights = 1..Len(insights) /\ Len(insights) \in Nat
         /\ NoTwinInsights /\ AuditTellsInsights
    BY DEF InsightInv
  <1>01. \A s \in Completed : session[s].done \in Nat
    <2>1. \A s \in Completed : session[s] \in SessionRecords /\ session[s].status = "completed"
      BY <1>0 DEF Completed
    <2> QED  BY <2>1 DEF SessionRecords
  <1>1. UNCHANGED <<session, completions>> => SessionsAre'
    BY DEF InsightInv, SessionsAre, Completed
  <1>2. UNCHANGED <<insights, createdLog, dismissedLog>> =>
            (insights \in Seq(InsightRows) /\ NoTwinInsights /\ AuditTellsInsights)'
    BY <1>00 DEF InsightRows, Rows, NoTwinInsights, AuditTellsInsights, Active
  <1>3. CASE StartSession
    <2> DEFINE row == [status |-> "running"]
    <2>1. session' = Append(session, row) /\ completions' = completions /\ row \in SessionRecords /\ row.status = "running"
      BY <1>3 DEF StartSession, SessionRecords
    <2> HIDE DEF row
    <2>2. session' \in Seq(SessionRecords) /\ Len(session') = Len(session) + 1
          /\ \A i \in 1..Len(session) : session'[i] = session[i]
          /\ session'[Len(session) + 1] = row
      BY <1>0, <2>1, AppendProperties
    <2>3. Completed' = Completed
      <3>1. DOMAIN session' = 1..(Len(session) + 1)
        BY <2>2
      <3>2. session'[Len(session) + 1].status = "running"
        BY <2>1, <2>2
      <3>3. \A i \in 1..(Len(session) + 1) : i = Len(session) + 1 \/ i \in 1..Len(session)
        BY <1>0
      <3>4. \A i \in 1..Len(session) : i \in 1..(Len(session) + 1)
        BY <1>0
      <3>5. \A i \in DOMAIN session' : session'[i].status = "completed" <=> i \in DOMAIN session /\ session[i].status = "completed"
        <4> SUFFICES ASSUME NEW i \in 1..(Len(session) + 1)
                     PROVE  session'[i].status = "completed" <=> i \in 1..Len(session) /\ session[i].status = "completed"
          BY <1>0, <3>1
        <4>1. CASE i \in 1..Len(session)
          BY <2>2, <4>1
        <4>2. CASE i = Len(session) + 1
          <5>1. i \notin 1..Len(session)
            BY <1>0, <4>2
          <5>2. session'[i].status = "running"
            BY <3>2, <4>2
          <5> QED  BY <5>1, <5>2
        <4> QED  BY <3>3, <4>1, <4>2
      <3> QED  BY <1>0, <3>1, <3>4, <3>5 DEF Completed
    <2>4. \A s \in Completed : session'[s] = session[s]
      BY <1>0, <2>2 DEF Completed
    <2>5. SessionsAre'
      <3>1. \A s \in Completed' : session'[s].done <= completions'
        BY <1>0, <2>1, <2>3, <2>4
      <3>2. \A s, t \in Completed' : session'[s].done = session'[t].done => s = t
        BY <1>0, <2>3, <2>4
      <3> QED  BY <1>0, <2>1, <2>2, <3>1, <3>2 DEF SessionsAre
    <2> QED  BY <1>2, <1>3, <2>5 DEF InsightInv, StartSession
  <1>4. ASSUME NEW s \in DOMAIN session, NEW scan \in Scans, CompleteSession(s, scan)
        PROVE  InsightInv'
    <2> DEFINE row == [status |-> "completed", done |-> completions + 1, scan |-> scan]
    <2>1. session' = [session EXCEPT ![s] = row] /\ completions' = completions + 1 /\ row \in SessionRecords
      BY <1>0, <1>4 DEF CompleteSession, SessionRecords
    <2>2. session[s].status = "running" /\ s \notin Completed
      BY <1>4 DEF CompleteSession, Completed
    <2>3. row.status = "completed" /\ row.done = completions + 1
      OBVIOUS
    <2> HIDE DEF row
    <2>4. session' \in Seq(SessionRecords) /\ DOMAIN session' = DOMAIN session /\ session'[s] = row
          /\ \A i \in DOMAIN session : i # s => session'[i] = session[i]
      BY <1>0, <2>1, ExceptSeq
    <2>5. Completed' = Completed \cup {s}
      BY <2>3, <2>4 DEF Completed
    <2>6. \A t \in Completed : session'[t] = session[t] /\ session'[t].done <= completions /\ session'[t].done \in Nat
      BY <1>0, <1>01, <2>2, <2>4 DEF Completed
    <2>7. session'[s].done = completions + 1
      BY <2>3, <2>4
    <2>8. \A t \in Completed' : session'[t].done <= completions'
      BY <1>0, <2>1, <2>5, <2>6, <2>7
    <2>9. \A t, u \in Completed' : session'[t].done = session'[u].done => t = u
      <3>1. \A t \in Completed : session'[t].done # session'[s].done
        BY <1>0, <2>6, <2>7
      <3> QED  BY <1>0, <2>5, <2>6, <3>1
    <2>10. SessionsAre'
      BY <1>0, <2>1, <2>4, <2>8, <2>9 DEF SessionsAre
    <2> QED  BY <1>2, <1>4, <2>10 DEF InsightInv, CompleteSession
  <1>5. ASSUME NEW s \in DOMAIN session, FailSession(s)
        PROVE  InsightInv'
    <2> DEFINE row == [status |-> "failed"]
    <2>1. session' = [session EXCEPT ![s] = row] /\ completions' = completions /\ row \in SessionRecords
      BY <1>0, <1>5 DEF FailSession, SessionRecords
    <2>2. session[s].status = "running" /\ s \notin Completed /\ row.status = "failed"
      BY <1>5 DEF FailSession, Completed
    <2> HIDE DEF row
    <2>3. session' \in Seq(SessionRecords) /\ DOMAIN session' = DOMAIN session /\ session'[s] = row
          /\ \A i \in DOMAIN session : i # s => session'[i] = session[i]
      BY <1>0, <2>1, ExceptSeq
    <2>4. Completed' = Completed /\ \A t \in Completed : session'[t] = session[t]
      BY <2>2, <2>3 DEF Completed
    <2>5. SessionsAre'
      BY <1>0, <2>1, <2>3, <2>4 DEF SessionsAre
    <2> QED  BY <1>2, <1>5, <2>5 DEF InsightInv, FailSession
  <1>6. CASE RunByHand
    <2>1. SessionsAre' /\ (insights \in Seq(InsightRows) /\ NoTwinInsights /\ AuditTellsInsights)'
      BY <1>1, <1>6, RunKeepsRows DEF RunByHand
    <2> QED  BY <2>1 DEF InsightInv
  <1>7. CASE HandleCompleted
    <2>1. SessionsAre' /\ dismissedLog' = dismissedLog
      BY <1>1, <1>7 DEF HandleCompleted
    <2>2. RunForFleet \/ UNCHANGED <<insights, createdLog>>
      BY <1>7 DEF HandleCompleted
    <2>3. (insights \in Seq(InsightRows) /\ NoTwinInsights /\ AuditTellsInsights)'
      BY <1>2, <2>1, <2>2, RunKeepsRows
    <2> QED  BY <2>1, <2>3 DEF InsightInv
  <1>8. ASSUME NEW row \in Rows, Dismiss(row)
        PROVE  InsightInv'
    <2>1. SessionsAre'
      BY <1>1, <1>8 DEF Dismiss
    <2>2. insights' = [insights EXCEPT ![row].dismissed = TRUE] /\ dismissedLog' = dismissedLog \cup {row} /\ createdLog' = createdLog
      BY <1>8 DEF Dismiss
    <2>3. \A i \in Rows : /\ insights[i] \in InsightRows
                          /\ insights[i].found \in {insights[r].found : r \in Rows}
                          /\ insights[i].dismissed \in BOOLEAN /\ insights[i].at \in Nat
      <3>1. \A i \in Rows : insights[i] \in InsightRows
        BY <1>00, ElementOfSeq DEF Rows
      <3> QED  BY <3>1 DEF InsightRows
    <2>4. /\ DOMAIN insights' = DOMAIN insights
          /\ \A i \in Rows : i # row => insights'[i] = insights[i]
          /\ insights'[row] = [insights[row] EXCEPT !.dismissed = TRUE]
      BY <1>00, <2>2 DEF Rows
    <2>5. /\ insights'[row].found = insights[row].found
          /\ insights'[row].dismissed = TRUE
          /\ insights'[row].at = insights[row].at
          /\ insights'[row] \in InsightRows
      BY <2>3, <2>4 DEF InsightRows
    <2>6. \A i \in Rows : insights'[i].found = insights[i].found /\ insights'[i] \in InsightRows
      BY <2>3, <2>4, <2>5
    <2>7. Rows' = Rows
      BY <2>4 DEF Rows
    <2>8. (insights \in Seq(InsightRows))'
      <3>1. InsightRows' = InsightRows
        BY <2>6, <2>7 DEF InsightRows
      <3>2. insights' = [i \in 1..Len(insights) |-> insights'[i]]
        BY <1>00, <2>2
      <3>3. insights' \in [1..Len(insights) -> InsightRows]
        BY <1>00, <2>6, <3>2 DEF Rows
      <3>4. insights' \in Seq(InsightRows)
        BY <1>00, <3>3
      <3> QED  BY <3>1, <3>4
    <2>9. \A i \in Rows : Active(i)' <=> Active(i) /\ i # row
      BY <2>3, <2>4, <2>5 DEF Active
    <2>10. NoTwinInsights'
      BY <1>00, <2>6, <2>7, <2>9 DEF NoTwinInsights
    <2>11. AuditTellsInsights'
      BY <1>00, <2>2, <2>7, <2>9 DEF AuditTellsInsights
    <2> QED  BY <2>1, <2>8, <2>10, <2>11 DEF InsightInv
  <1>9. CASE UNCHANGED insightVars
    BY <1>1, <1>2, <1>9 DEF insightVars, InsightInv
  <1> QED  BY <1>3, <1>4, <1>5, <1>6, <1>7, <1>8, <1>9 DEF InsightNext

LEMMA InsightInvInit == InsightInit => InsightInv
  <1> SUFFICES ASSUME InsightInit PROVE InsightInv
    OBVIOUS
  <1>1. session = <<>> /\ completions = 0 /\ insights = <<>> /\ createdLog = {} /\ dismissedLog = {}
    BY DEF InsightInit
  <1>2. DOMAIN session = {} /\ DOMAIN insights = {}
    BY <1>1
  <1>3. session \in Seq(SessionRecords) /\ insights \in Seq(InsightRows)
    BY <1>1, EmptySeq
  <1>4. Completed = {} /\ Rows = {}
    BY <1>2 DEF Completed, Rows
  <1> QED  BY <1>1, <1>3, <1>4 DEF InsightInv, SessionsAre, NoTwinInsights, AuditTellsInsights

\* A drift is one of Varying, between the two sessions of the window in which it was last.
LEMMA DriftIsOfTheLastTwo ==
    ASSUME SessionsAre, NEW found \in Detected(Window), found.kind = "drift"
    PROVE  LET seen == {s \in Recent : Varying \in DOMAIN session[s].scan} IN
           \E s, t \in seen :
              /\ \A u \in seen : session[u].done <= session[t].done
              /\ \A u \in seen \ {t} : session[u].done <= session[s].done
              /\ s # t
              /\ session[s].scan[Varying].outcome = found.prev
              /\ session[t].scan[Varying].outcome = found.last
  <1> DEFINE n == Cardinality(Recent)
             at(r) == {i \in DOMAIN Window : r \in DOMAIN Window[i]}
             key(r) == [i \in at(r) |-> i]
             place(r) == Sorted(at(r), key(r))
             h(r) == History(Window, r)
             seen == {s \in Recent : Varying \in DOMAIN session[s].scan}
  <1>0. /\ n \in Nat /\ Order \in [1..n -> Recent]
        /\ \A s \in Recent : \E k \in 1..n : Order[k] = s
        /\ \A k, l \in 1..n : k < l => session[Order[k]].done < session[Order[l]].done
        /\ Window \in [1..n -> Scans]
        /\ \A k \in 1..n : Window[k] = session[Order[k]].scan
        /\ \A s \in Recent : session[s].done \in Nat /\ session[s].scan \in Scans
    BY WindowIs
  <1> HIDE DEF n
  <1>1. ASSUME NEW r
        PROVE  /\ at(r) \subseteq 1..n
               /\ Cardinality(at(r)) \in Nat
               /\ place(r) \in [1..Cardinality(at(r)) -> at(r)]
               /\ \A i \in at(r) : \E k \in 1..Cardinality(at(r)) : place(r)[k] = i
               /\ \A k, l \in 1..Cardinality(at(r)) : k < l => place(r)[k] < place(r)[l]
               /\ h(r) = [k \in 1..Cardinality(at(r)) |-> Window[place(r)[k]][r]]
               /\ Len(h(r)) = Cardinality(at(r))
    <2>1. at(r) \subseteq 1..n
      BY <1>0
    <2>2. IsFiniteSet(at(r))
      <3>1. IsFiniteSet(1..n)
        BY <1>0, FS_Interval
      <3> HIDE DEF at
      <3> QED  BY <2>1, <3>1, FS_Subset
    <2>3. \A i \in at(r) : key(r)[i] = i
      OBVIOUS
    <2>4. h(r) = [k \in DOMAIN place(r) |-> Window[place(r)[k]][r]]
      BY DEF History
    <2>5. DOMAIN key(r) = at(r) /\ key(r) = [i \in at(r) |-> key(r)[i]]
      OBVIOUS
    <2> HIDE DEF at, h
    <2>6. Keyed(at(r), key(r))
      <3>1. \A i \in at(r) : i \in Nat
        BY <1>0, <2>1
      <3>2. key(r) \in [at(r) -> Nat]
        BY <3>1
      <3> HIDE DEF key
      <3> QED  BY <2>2, <2>3, <3>2 DEF Keyed
    <2>7. /\ Cardinality(at(r)) \in Nat
          /\ place(r) \in [1..Cardinality(at(r)) -> at(r)]
          /\ \A i \in at(r) : \E k \in 1..Cardinality(at(r)) : place(r)[k] = i
          /\ \A k, l \in 1..Cardinality(at(r)) : k < l => key(r)[place(r)[k]] < key(r)[place(r)[l]]
      <3> HIDE DEF key
      <3> QED  BY <2>6, SortedIs
    <2> HIDE DEF place, key
    <2>8. \A k, l \in 1..Cardinality(at(r)) : k < l => place(r)[k] < place(r)[l]
      BY <2>3, <2>7
    <2>9. h(r) = [k \in 1..Cardinality(at(r)) |-> Window[place(r)[k]][r]]
      BY <2>4, <2>7
    <2>10. Len(h(r)) = Cardinality(at(r))
      BY <2>7, <2>9
    <2> QED  BY <2>1, <2>7, <2>8, <2>9, <2>10
  <1>2. PICK r \in Scanned(Window) : /\ Drifted(h(r))
                                     /\ found = DriftOf(r, h(r)[Len(h(r)) - 1].outcome, h(r)[Len(h(r))].outcome)
    <2>1. found \notin DetectAnomaly(Window) /\ found \notin DetectPeer(Window)
      <3> DEFINE behind == {q \in Scanned(Window) : BelowPeers(PassRatios(Window), q, FALSE)}
      <3>1. DetectPeer(Window) = {[kind |-> "peer", robot |-> q, ratio |-> PassRatios(Window)[q]] : q \in behind}
        BY Zenon DEF DetectPeer
      <3> HIDE DEF behind
      <3> QED  BY <3>1 DEF DetectAnomaly
    <2>2. found \in DetectDrift(Window)
      BY <2>1 DEF Detected
    <2> QED  BY <2>2 DEF DetectDrift
  <1>3. found.prev = h(r)[Len(h(r)) - 1].outcome /\ found.last = h(r)[Len(h(r))].outcome
    BY <1>2 DEF DriftOf
  <1>4. Len(h(r)) >= 2 /\ h(r)[Len(h(r))].outcome # h(r)[Len(h(r)) - 1].outcome
    BY <1>2 DEF Drifted
  <1> DEFINE m == Cardinality(at(r))
             p == place(r)
  <1>5. /\ m \in Nat /\ m >= 2 /\ p \in [1..m -> at(r)] /\ at(r) \subseteq 1..n
        /\ \A i \in at(r) : \E k \in 1..m : p[k] = i
        /\ \A k, l \in 1..m : k < l => p[k] < p[l]
        /\ found.prev = Window[p[m - 1]][r].outcome
        /\ found.last = Window[p[m]][r].outcome
        /\ found.prev # found.last
    <2>1. m \in Nat /\ p \in [1..m -> at(r)] /\ at(r) \subseteq 1..n
          /\ (\A i \in at(r) : \E k \in 1..m : p[k] = i)
          /\ (\A k, l \in 1..m : k < l => p[k] < p[l])
          /\ h(r) = [k \in 1..m |-> Window[p[k]][r]] /\ Len(h(r)) = m
      BY <1>1
    <2> HIDE DEF m, p, at, h
    <2>2. m >= 2 /\ m \in 1..m /\ m - 1 \in 1..m
      BY <1>4, <2>1
    <2>3. h(r)[m] = Window[p[m]][r] /\ h(r)[m - 1] = Window[p[m - 1]][r]
      BY <2>1, <2>2
    <2> QED  BY <1>3, <1>4, <2>1, <2>2, <2>3
  <1>6. \A i \in at(r) : i \in 1..n /\ r \in DOMAIN Window[i]
    BY <1>5
  <1>7. r = Varying
    <2> SUFFICES ASSUME r # Varying PROVE FALSE
      OBVIOUS
    <2>1. m \in 1..m /\ m - 1 \in 1..m
      <3> HIDE DEF m, p, at
      <3> QED  BY <1>5
    <2>2. p[m] \in at(r) /\ p[m - 1] \in at(r)
      BY <1>5, <2>1
    <2>3. Window[p[m]] \in Scans /\ r \in DOMAIN Window[p[m]] /\ Window[p[m - 1]] \in Scans
      BY <1>0, <1>6, <2>2
    <2>4. r \in Steady
      BY <2>3, ScansAre
    <2>5. Window[p[m]][r].outcome = "pass" /\ Window[p[m - 1]][r].outcome = "pass"
      BY <2>3, <2>4, ScansAre
    <2> QED  BY <1>5, <2>5
  <1>8. \A i \in at(r) : Order[i] \in seen
    BY <1>0, <1>6, <1>7
  <1>9. \A u \in seen : \E i \in at(r) : Order[i] = u
    <2> SUFFICES ASSUME NEW u \in seen PROVE \E i \in at(r) : Order[i] = u
      OBVIOUS
    <2>1. PICK i \in 1..n : Order[i] = u
      BY <1>0
    <2>2. i \in DOMAIN Window /\ Varying \in DOMAIN Window[i]
      BY <1>0, <2>1
    <2> QED  BY <1>7, <2>1, <2>2
  <1> HIDE DEF at, place, key, h, m, p, seen
  <1>10. m \in 1..m /\ m - 1 \in 1..m /\ m - 1 < m
    BY <1>5
  <1> DEFINE s == Order[p[m - 1]]
             t == Order[p[m]]
  <1>11. p[m - 1] \in at(r) /\ p[m] \in at(r) /\ p[m - 1] \in 1..n /\ p[m] \in 1..n /\ p[m - 1] < p[m]
    BY <1>5, <1>6, <1>10
  <1>12. s \in seen /\ t \in seen
    BY <1>8, <1>11
  <1>13. \A i \in 1..n : session[Order[i]].done \in Nat
    BY <1>0
  <1>14. session[s].done < session[t].done /\ s # t
    <2>1. session[s].done < session[t].done
      BY <1>0, <1>11
    <2>2. session[s].done \in Nat
      BY <1>11, <1>13
    <2> QED  BY <2>1, <2>2
  <1>15. /\ session[s].scan[Varying].outcome = found.prev
         /\ session[t].scan[Varying].outcome = found.last
    BY <1>0, <1>5, <1>7, <1>11
  <1>16. \A i \in at(r) : i = p[m] \/ i = p[m - 1] \/ i < p[m - 1]
    <2> SUFFICES ASSUME NEW i \in at(r) PROVE i = p[m] \/ i = p[m - 1] \/ i < p[m - 1]
      OBVIOUS
    <2>1. PICK k \in 1..m : p[k] = i
      BY <1>5
    <2>2. k = m \/ k = m - 1 \/ k < m - 1
      BY <1>5
    <2> QED  BY <1>5, <1>10, <2>1, <2>2
  <1> HIDE DEF s, t
  <1>17. \A u \in seen : u = t \/ u = s \/ session[u].done < session[s].done
    <2> SUFFICES ASSUME NEW u \in seen PROVE u = t \/ u = s \/ session[u].done < session[s].done
      OBVIOUS
    <2>1. PICK i \in at(r) : Order[i] = u
      BY <1>9
    <2>2. i \in 1..n
      BY <1>5
    <2> QED  BY <1>0, <1>11, <1>16, <2>1, <2>2 DEF s, t
  <1>18. session[s].done \in Nat /\ session[t].done \in Nat
    BY <1>11, <1>13 DEF s, t
  <1>19. \A u \in seen : session[u].done \in Nat
    BY <1>0 DEF seen
  <1>20. \A u \in seen : session[u].done <= session[t].done
    BY <1>14, <1>17, <1>18, <1>19
  <1>21. \A u \in seen \ {t} : session[u].done <= session[s].done
    BY <1>17, <1>18, <1>19
  <1>22. \E ss, tt \in seen :
              /\ \A u \in seen : session[u].done <= session[tt].done
              /\ \A u \in seen \ {tt} : session[u].done <= session[ss].done
              /\ ss # tt
              /\ session[ss].scan[Varying].outcome = found.prev
              /\ session[tt].scan[Varying].outcome = found.last
    BY <1>12, <1>14, <1>15, <1>20, <1>21
  <1> QED  BY <1>22 DEF seen

LEMMA RunReportsDrift ==
    ASSUME InsightInv, RunForFleet, NEW row \in Rows' \ Rows, insights'[row].found.kind = "drift"
    PROVE  LET found == insights'[row].found
               seen == {s \in Recent : Varying \in DOMAIN session[s].scan}
           IN \E s, t \in seen :
              /\ \A u \in seen : session[u].done <= session[t].done
              /\ \A u \in seen \ {t} : session[u].done <= session[s].done
              /\ s # t
              /\ session[s].scan[Varying].outcome = found.prev
              /\ session[t].scan[Varying].outcome = found.last
  <1> DEFINE new == SetToSeq(Unreported)
             n == Len(insights)
             m == Len(new)
             added == [i \in DOMAIN new |-> Row(new[i])]
  <1>1. /\ DOMAIN new = 1..m
        /\ \A i \in 1..m : new[i] \in Detected(Window)
        /\ new \in Seq(Unreported)
    BY UnreportedIs
  <1>2. insights \in Seq(InsightRows) /\ SessionsAre /\ n \in Nat /\ Rows = 1..n
    BY DEF InsightInv, Rows
  <1>3. insights' = insights \o added
    BY DEF RunForFleet, Rows
  <1>4. added = [i \in 1..m |-> Row(new[i])] /\ \A i \in 1..m : added[i].found = new[i]
    BY <1>1 DEF Row
  <1>5. m \in Nat
    BY <1>1
  <1> HIDE DEF new, n, m, added
  <1>6. row - n \in 1..m /\ insights'[row] = added[row - n]
    <2> DEFINE T == InsightRows \cup {Row(new[i]) : i \in 1..m}
    <2>1. \A i \in 1..m : Row(new[i]) \in T
      OBVIOUS
    <2>2. added \in [1..m -> T]
      BY <1>4, <2>1
    <2>3. \A i \in 1..n : insights[i] \in InsightRows
      BY <1>2, ElementOfSeq DEF n
    <2>4. DOMAIN insights = 1..n /\ insights = [i \in 1..n |-> insights[i]]
      BY <1>2 DEF Rows
    <2>5. \A i \in 1..n : insights[i] \in T
      BY <2>3
    <2>6. insights \in [1..n -> T]
      BY <2>4, <2>5
    <2> HIDE DEF T
    <2>7. added \in Seq(T) /\ Len(added) = m /\ insights \in Seq(T)
      BY <1>2, <1>5, <2>2, <2>6
    <2>8. insights \o added \in Seq(T) /\ Len(insights \o added) = n + m
          /\ \A i \in 1..(n + m) : (insights \o added)[i] = IF i <= n THEN insights[i] ELSE added[i - n]
      BY <2>7, ConcatProperties DEF n
    <2>9. Rows' = 1..(n + m)
      BY <1>3, <2>8 DEF Rows
    <2>10. row \in 1..(n + m) /\ row \notin 1..n
      BY <1>2, <2>9
    <2>11. row - n \in 1..m /\ ~ (row <= n)
      BY <1>2, <1>5, <2>10
    <2> QED  BY <1>3, <2>8, <2>10, <2>11
  <1>7. insights'[row].found \in Detected(Window)
    BY <1>1, <1>4, <1>6
  <1> QED  BY <1>2, <1>7, DriftIsOfTheLastTwo

\* RunForFleet, handle, Dismiss (internal/domain/insight, internal/app/insightautorun): for
\* any fleet, number of sessions under way and order in which they complete, a finding is
\* reported once while it is active, the audit entries are those of the rows, and a drift
\* is between the two sessions that completed last of those looked at.
THEOREM InsightsCorrect == InsightSpec => InsightsAreSound
  <1>1. InsightSpec => []InsightInv
    BY InsightInvInit, InsightInvStep, PTL DEF InsightSpec
  <1>2. InsightInv => NoTwinInsights /\ AuditTellsInsights
    BY DEF InsightInv
  <1>3. InsightInv /\ [InsightNext]_insightVars =>
          [\A row \in Rows' \ Rows :
             LET found == insights'[row].found
                 seen == {s \in Recent : Varying \in DOMAIN session[s].scan}
             IN found.kind = "drift" =>
                  \E s, t \in seen :
                     /\ \A u \in seen : session[u].done <= session[t].done
                     /\ \A u \in seen \ {t} : session[u].done <= session[s].done
                     /\ s # t
                     /\ session[s].scan[Varying].outcome = found.prev
                     /\ session[t].scan[Varying].outcome = found.last]_insightVars
    <2> SUFFICES ASSUME InsightInv, InsightNext, NEW row \in Rows' \ Rows, insights'[row].found.kind = "drift"
                 PROVE  LET found == insights'[row].found
                            seen == {s \in Recent : Varying \in DOMAIN session[s].scan}
                        IN \E s, t \in seen :
                             /\ \A u \in seen : session[u].done <= session[t].done
                             /\ \A u \in seen \ {t} : session[u].done <= session[s].done
                             /\ s # t
                             /\ session[s].scan[Varying].outcome = found.prev
                             /\ session[t].scan[Varying].outcome = found.last
      OBVIOUS
    <2>1. ~ UNCHANGED insights
      BY DEF Rows
    <2>2. StartSession \/ (\E s \in DOMAIN session : FailSession(s) \/ \E scan \in Scans : CompleteSession(s, scan))
              => UNCHANGED insights
      BY DEF StartSession, FailSession, CompleteSession
    <2>3. (\E r \in Rows : Dismiss(r)) => Rows' = Rows
      <3> SUFFICES ASSUME NEW r \in Rows, Dismiss(r) PROVE Rows' = Rows
        OBVIOUS
      <3>1. insights' = [insights EXCEPT ![r].dismissed = TRUE] /\ insights \in Seq(InsightRows)
        BY DEF Dismiss, InsightInv
      <3> QED  BY <3>1 DEF Rows
    <2>4. RunByHand \/ HandleCompleted => RunForFleet \/ UNCHANGED insights
      BY DEF RunByHand, HandleCompleted
    <2>5. RunForFleet
      BY <2>1, <2>2, <2>3, <2>4 DEF InsightNext
    <2> QED  BY <2>5, RunReportsDrift
  <1> QED  BY <1>1, <1>2, <1>3, PTL DEF InsightSpec, InsightsAreSound, DriftIsInCompletionOrder
================================================================================
