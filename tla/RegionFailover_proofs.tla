------------------------- MODULE RegionFailover_proofs -------------------------
(***************************************************************************)
(* Proofs about the regions and about the fence of their leaders, for any  *)
(* regions, instances, failovers, heartbeats and promotions                *)
(* (RegionFailover); about the set-up of replication between two databases,*)
(* for any tables (ReplicationSetup); and about the start and the stop of  *)
(* one server, for any settings and any work under way (Lifecycle).        *)
(***************************************************************************)
EXTENDS RegionFailover, ReplicationSetup, Lifecycle, SequenceTheorems, TLAPS

--------------------------------------------------------------------------------
(* The leader of a timeline. *)

\* An answer that names nobody shows no other master than the leader of its timeline.
ViewType == {view \in [leader : Pods \cup {NoPod}, timeline : Nat, named : BOOLEAN, master : Pods \cup {NoPod}] :
                view.named \/ view.master \in {view.leader, NoPod}}
PollType == [at : {"answered", "half"}, view : ViewType]

PatroniTypeOK ==
    /\ cluster \in ViewType
    /\ leader \in [Pods -> BOOLEAN]
    /\ podEpoch \in [Pods -> Nat]
    /\ poll \in [Pods -> {NoPoll} \cup PollType]

\* An instance knows of no timeline that Patroni has not begun, and holds none that is
\* older than the one it stored last.
SeenInv ==
    \A n \in Pods :
        /\ podEpoch[n] <= cluster.timeline
        /\ poll[n] # NoPoll => /\ podEpoch[n] <= poll[n].view.timeline
                               /\ poll[n].view.timeline <= cluster.timeline

\* Who says that m leads timeline t: Patroni, an answer that is not stored in full, or an
\* instance that believes to lead, unless it has stored its role and not yet its timeline.
Says(m, t) ==
    \/ cluster.leader = m /\ cluster.timeline = t
    \/ \E n \in Pods : poll[n] # NoPoll /\ poll[n].view.leader = m /\ poll[n].view.timeline = t
    \/ leader[m] /\ poll[m].at # "half" /\ podEpoch[m] = t

\* A timeline has one leader, whoever says so.
OneLeaderInv == \A m, n \in Pods, t \in Nat : Says(m, t) /\ Says(n, t) => m = n

\* The role that is stored before its timeline is that of the answer.
HalfInv == \A n \in Pods : poll[n].at = "half" /\ leader[n] => poll[n].view.leader = n

PatroniInv == PatroniTypeOK /\ SeenInv /\ OneLeaderInv /\ HalfInv

--------------------------------------------------------------------------------
(* The rows of the regions. *)

FailoverType == [from : Regions, to : Regions, entry : Nat]

RegionRowsOK ==
    /\ role \in [Regions -> {Unregistered, "primary", "standby"}]
    /\ beatClock \in Nat
    /\ heartbeat \in [Regions -> 0..beatClock]
    /\ beats \subseteq Regions \X (0..beatClock)
    /\ failovers \in Seq(FailoverType) /\ Len(failovers) <= MaxFailovers
    /\ regionLog \in Seq(Regions \cup {"other"})

RegionInv ==
    /\ RegionRowsOK /\ SomeRegionIsPrimary /\ FailoversAreAudited
    /\ HistoryExplainsRoles /\ OnlyReplicasBeat /\ NoFailoverOnPg

--------------------------------------------------------------------------------
(* What the steps of an instance do. *)

LEMMA PatroniInitInv == PatroniInit => PatroniInv
<1> SUFFICES ASSUME PatroniInit PROVE PatroniInv
  OBVIOUS
<1>1. cluster.leader = NoPod /\ cluster.timeline = 1 /\ cluster \in ViewType
  BY DEF PatroniInit, ViewType
<1>2. \A n \in Pods : leader[n] = FALSE /\ podEpoch[n] = 0 /\ poll[n] = NoPoll
  BY DEF PatroniInit
<1>3. PatroniTypeOK
  BY <1>1 DEF PatroniInit, PatroniTypeOK
<1>4. SeenInv
  BY <1>1, <1>2 DEF SeenInv
<1>5. OneLeaderInv
  BY <1>1, <1>2, PatroniAssumption DEF OneLeaderInv, Says
<1>6. HalfInv
  BY <1>2 DEF HalfInv, NoPoll
<1>7. QED
  BY <1>3, <1>4, <1>5, <1>6 DEF PatroniInv

\* A poll that is under way has an answer.
LEMMA PollHasView ==
    ASSUME PatroniTypeOK, NEW n \in Pods, poll[n].at # "idle"
    PROVE  poll[n] # NoPoll /\ poll[n] \in PollType
BY DEF PatroniTypeOK, NoPoll

\* Whichever way the leader is named, it is that of the timeline, or nobody is found.
LEMMA Resolved == \A view \in ViewType : ResolveLeader(view) \in {view.leader, NoPod}
BY DEF ResolveLeader, ViewType

\* The steps of an instance, with the answer it holds.
Promotes(n) == /\ cluster' \in ViewType /\ cluster'.leader = n
               /\ cluster'.timeline = cluster.timeline + 1
               /\ UNCHANGED <<leader, podEpoch, poll>>
Loses == /\ cluster' \in ViewType /\ cluster'.leader = cluster.leader
         /\ cluster'.timeline = cluster.timeline
         /\ UNCHANGED <<leader, podEpoch, poll>>
Asks(n) == /\ poll[n] = NoPoll
           /\ \E answer \in PollType : /\ answer.at = "answered" /\ answer.view = cluster
                                       /\ poll' = [poll EXCEPT ![n] = answer]
           /\ UNCHANGED <<cluster, leader, podEpoch>>
StoresLeader(n) ==
    /\ poll[n] # NoPoll
    /\ \E leads \in BOOLEAN : /\ leader' = [leader EXCEPT ![n] = leads]
                              /\ leads => poll[n].view.leader = n
    /\ \E rest \in PollType : /\ rest.at = "half" /\ rest.view = poll[n].view
                              /\ poll' = [poll EXCEPT ![n] = rest]
    /\ UNCHANGED <<cluster, podEpoch>>
StoresTimeline(n) ==
    /\ poll[n] # NoPoll /\ poll[n].at = "half"
    /\ podEpoch' = [podEpoch EXCEPT ![n] = poll[n].view.timeline]
    /\ poll' = [poll EXCEPT ![n] = NoPoll]
    /\ UNCHANGED <<cluster, leader>>

LEMMA PatroniSteps ==
    ASSUME PatroniTypeOK, [PatroniNext]_patroniVars
    PROVE  \/ Loses \/ UNCHANGED patroniVars
           \/ \E n \in Pods : Promotes(n) \/ Asks(n) \/ StoresLeader(n) \/ StoresTimeline(n)
<1>0. cluster \in ViewType /\ poll \in [Pods -> {NoPoll} \cup PollType]
  BY DEF PatroniTypeOK
<1>1. ASSUME LeaderLost PROVE Loses
  BY <1>0, <1>1 DEF LeaderLost, Loses, ViewType
<1>2. ASSUME NEW n \in Pods, Promote(n) PROVE Promotes(n)
  BY <1>0, <1>2 DEF Promote, Promotes, ViewType
<1>3. ASSUME NEW n \in Pods, Ask(n) PROVE Asks(n)
  <2> DEFINE answer == [at |-> "answered", view |-> cluster]
  <2>1. answer \in PollType /\ answer.at = "answered" /\ answer.view = cluster
    BY <1>0 DEF PollType
  <2>2. poll' = [poll EXCEPT ![n] = answer]
    BY <1>3 DEF Ask
  <2> HIDE DEF answer
  <2>3. QED
    BY <1>3, <2>1, <2>2 DEF Ask, Asks
<1>4. ASSUME NEW n \in Pods, StoreLeader(n) PROVE StoresLeader(n)
  <2> DEFINE r == poll[n]
             rest == [r EXCEPT !.at = "half"]
  <2>1. r \in PollType /\ poll[n] # NoPoll
    BY <1>4, PollHasView DEF StoreLeader
  <2>2. poll' = [poll EXCEPT ![n] = rest]
    BY <1>0, <1>4 DEF StoreLeader
  <2>3. rest \in PollType /\ rest.at = "half" /\ rest.view = r.view
    <3> HIDE DEF r
    <3> QED BY <2>1 DEF PollType
  <2> HIDE DEF rest
  <2>4. QED
    <3>1. ResolveLeader(r.view) = n => r.view.leader = n
      BY <2>1, Resolved, PatroniAssumption DEF PollType
    <3> QED BY <1>4, <2>1, <2>2, <2>3, <3>1 DEF StoreLeader, StoresLeader
<1>5. ASSUME NEW n \in Pods, StoreTimeline(n) PROVE StoresTimeline(n)
  BY <1>5, PollHasView DEF StoreTimeline, StoresTimeline
<1>6. QED
  BY <1>1, <1>2, <1>3, <1>4, <1>5 DEF PatroniNext

--------------------------------------------------------------------------------
(* Every step keeps the fence. *)

LEMMA PatroniTypeNext == PatroniTypeOK /\ [PatroniNext]_patroniVars => PatroniTypeOK'
<1> SUFFICES ASSUME PatroniTypeOK, [PatroniNext]_patroniVars PROVE PatroniTypeOK'
  OBVIOUS
<1>1. CASE Loses
  BY <1>1 DEF PatroniTypeOK, Loses
<1>2. ASSUME NEW n \in Pods, Promotes(n) \/ Asks(n)
      PROVE  PatroniTypeOK'
  BY <1>2 DEF PatroniTypeOK, Promotes, Asks
<1>3. ASSUME NEW n \in Pods, StoresLeader(n)
      PROVE  PatroniTypeOK'
  BY <1>3 DEF PatroniTypeOK, StoresLeader
<1>4. ASSUME NEW n \in Pods, StoresTimeline(n)
      PROVE  PatroniTypeOK'
  <2>1. poll[n] \in PollType
    BY <1>4 DEF PatroniTypeOK, StoresTimeline
  <2>2. poll[n].view.timeline \in Nat
    BY <2>1 DEF PollType, ViewType
  <2>3. QED
    BY <1>4, <2>2 DEF PatroniTypeOK, StoresTimeline
<1>5. CASE UNCHANGED patroniVars
  BY <1>5 DEF PatroniTypeOK, patroniVars
<1>6. QED
  BY <1>1, <1>2, <1>3, <1>4, <1>5, PatroniSteps

\* The numbers an invariant compares.
LEMMA Timelines ==
    ASSUME PatroniTypeOK, NEW n \in Pods
    PROVE  /\ cluster.timeline \in Nat /\ podEpoch[n] \in Nat
           /\ poll[n] # NoPoll => poll[n] \in PollType /\ poll[n].view \in ViewType
                                  /\ poll[n].view.timeline \in Nat
<1>1. cluster.timeline \in Nat /\ podEpoch[n] \in Nat /\ poll[n] \in {NoPoll} \cup PollType
  BY DEF PatroniTypeOK, ViewType
<1>2. QED
  BY <1>1 DEF PollType, ViewType

LEMMA SeenNext == PatroniTypeOK /\ SeenInv /\ [PatroniNext]_patroniVars => SeenInv'
<1> SUFFICES ASSUME PatroniTypeOK, SeenInv, [PatroniNext]_patroniVars, NEW m \in Pods
             PROVE  /\ podEpoch'[m] <= cluster'.timeline
                    /\ poll'[m] # NoPoll => /\ podEpoch'[m] <= poll'[m].view.timeline
                                            /\ poll'[m].view.timeline <= cluster'.timeline
  BY DEF SeenInv
<1>0. /\ cluster.timeline \in Nat /\ podEpoch[m] \in Nat /\ podEpoch[m] <= cluster.timeline
      /\ poll[m] # NoPoll => /\ poll[m].view.timeline \in Nat
                             /\ podEpoch[m] <= poll[m].view.timeline
                             /\ poll[m].view.timeline <= cluster.timeline
  BY Timelines DEF SeenInv
<1>1. CASE Loses \/ UNCHANGED patroniVars
  BY <1>0, <1>1 DEF Loses, patroniVars
<1>2. ASSUME NEW n \in Pods, Promotes(n)
      PROVE  /\ podEpoch'[m] <= cluster'.timeline
             /\ poll'[m] # NoPoll => /\ podEpoch'[m] <= poll'[m].view.timeline
                                     /\ poll'[m].view.timeline <= cluster'.timeline
  BY <1>0, <1>2 DEF Promotes
<1>3. ASSUME NEW n \in Pods, Asks(n) \/ StoresLeader(n) \/ StoresTimeline(n)
      PROVE  /\ podEpoch'[m] <= cluster'.timeline
             /\ poll'[m] # NoPoll => /\ podEpoch'[m] <= poll'[m].view.timeline
                                     /\ poll'[m].view.timeline <= cluster'.timeline
  <2>1. CASE m = n
    BY <1>0, <1>3, <2>1 DEF PatroniTypeOK, Asks, StoresLeader, StoresTimeline
  <2>2. CASE m # n
    BY <1>0, <1>3, <2>2 DEF PatroniTypeOK, Asks, StoresLeader, StoresTimeline
  <2>3. QED
    BY <2>1, <2>2
<1>4. QED
  BY <1>1, <1>2, <1>3, PatroniSteps

LEMMA HalfNext == PatroniTypeOK /\ HalfInv /\ [PatroniNext]_patroniVars => HalfInv'
<1> SUFFICES ASSUME PatroniTypeOK, HalfInv, [PatroniNext]_patroniVars,
                    NEW m \in Pods, poll'[m].at = "half", leader'[m]
             PROVE  poll'[m].view.leader = m
  BY DEF HalfInv
<1>1. CASE Loses \/ UNCHANGED patroniVars
  BY <1>1 DEF HalfInv, Loses, patroniVars
<1>2. ASSUME NEW n \in Pods, Promotes(n) \/ (n # m /\ (Asks(n) \/ StoresLeader(n) \/ StoresTimeline(n)))
      PROVE  poll'[m].view.leader = m
  BY <1>2 DEF HalfInv, Promotes, Asks, StoresLeader, StoresTimeline, PatroniTypeOK
<1>3. CASE Asks(m)
  BY <1>3 DEF Asks, PatroniTypeOK
<1>4. CASE StoresTimeline(m)
  BY <1>4 DEF StoresTimeline, PatroniTypeOK, NoPoll
<1>5. CASE StoresLeader(m)
  BY <1>5 DEF StoresLeader, PatroniTypeOK
<1>6. QED
  BY <1>1, <1>2, <1>3, <1>4, <1>5, PatroniSteps

\* Nobody says of a timeline that Patroni has not begun who leads it.
LEMMA SaidIsSeen ==
    ASSUME PatroniTypeOK, SeenInv, NEW m \in Pods, NEW t \in Nat, Says(m, t)
    PROVE  t <= cluster.timeline
BY Timelines DEF Says, SeenInv

\* But for a promotion, what is said after a step was said before it.
LEMMA SaidBefore ==
    ASSUME PatroniTypeOK, HalfInv, NEW m \in Pods, NEW t \in Nat, Says(m, t)',
           [PatroniNext]_patroniVars
    PROVE  \/ Says(m, t)
           \/ \E n \in Pods : Promotes(n) /\ m = n /\ t = cluster.timeline + 1
<1>1. CASE Loses \/ UNCHANGED patroniVars
  BY <1>1, PatroniAssumption DEF Says, Loses, patroniVars
<1>2. ASSUME NEW n \in Pods, Promotes(n)
      PROVE  Says(m, t) \/ (m = n /\ t = cluster.timeline + 1)
  BY <1>2 DEF Says, Promotes
<1>3. ASSUME NEW n \in Pods, Asks(n)
      PROVE  Says(m, t)
  BY <1>3 DEF Says, Asks, PatroniTypeOK, NoPoll
<1>4. ASSUME NEW n \in Pods, StoresLeader(n)
      PROVE  Says(m, t)
  BY <1>4 DEF Says, StoresLeader, PatroniTypeOK
<1>5. ASSUME NEW n \in Pods, StoresTimeline(n)
      PROVE  Says(m, t)
  BY <1>5 DEF Says, StoresTimeline, PatroniTypeOK, HalfInv
<1>6. QED
  BY <1>1, <1>2, <1>3, <1>4, <1>5, PatroniSteps

LEMMA OneLeaderNext == PatroniInv /\ [PatroniNext]_patroniVars => OneLeaderInv'
<1> SUFFICES ASSUME PatroniInv, [PatroniNext]_patroniVars,
                    NEW m \in Pods, NEW n \in Pods, NEW t \in Nat, Says(m, t)', Says(n, t)'
             PROVE  m = n
  BY DEF OneLeaderInv
<1>0. PatroniTypeOK /\ SeenInv /\ HalfInv /\ OneLeaderInv
  BY DEF PatroniInv
<1>1. CASE Says(m, t) /\ Says(n, t)
  BY <1>0, <1>1 DEF OneLeaderInv
<1>2. CASE ~(Says(m, t) /\ Says(n, t))
  <2>1. t = cluster.timeline + 1
    BY <1>0, <1>2, SaidBefore
  <2>2. ~Says(m, t) /\ ~Says(n, t)
    BY <1>0, <2>1, SaidIsSeen, Timelines
  <2>3. \E k \in Pods : Promotes(k) /\ m = k
    BY <1>0, <2>2, SaidBefore
  <2>4. \E k \in Pods : Promotes(k) /\ n = k
    BY <1>0, <2>2, SaidBefore
  <2>5. QED
    BY <2>3, <2>4 DEF Promotes
<1>3. QED
  BY <1>1, <1>2

\* The epoch that an instance stores is not older than the one it carries.
LEMMA EpochStep ==
    ASSUME PatroniTypeOK, SeenInv, [PatroniNext]_patroniVars, NEW m \in Pods
    PROVE  podEpoch'[m] >= podEpoch[m]
<1>0. podEpoch[m] \in Nat /\ (poll[m] # NoPoll => podEpoch[m] <= poll[m].view.timeline
                                                  /\ poll[m].view.timeline \in Nat)
  BY Timelines DEF SeenInv
<1>1. ASSUME podEpoch'[m] # podEpoch[m]
      PROVE  StoresTimeline(m)
  BY <1>1, PatroniSteps
     DEF Loses, patroniVars, Promotes, Asks, StoresLeader, StoresTimeline, PatroniTypeOK
<1>2. QED
  BY <1>0, <1>1 DEF StoresTimeline, PatroniTypeOK

\* Two instances that both believe to lead between their polls carry different epochs,
\* and the epoch of an instance never falls, for any instances, promotions and losses of
\* the leader (role_provider.go: the timeline is the fence token of the audit log).
THEOREM TimelinesCorrect == PatroniSpec => TimelinesAreSound
<1>1. PatroniInit => PatroniInv
  BY PatroniInitInv
<1>2. PatroniInv /\ [PatroniNext]_patroniVars => PatroniInv'
  BY PatroniTypeNext, SeenNext, HalfNext, OneLeaderNext DEF PatroniInv
<1>3. PatroniInv => FenceTellsThemApart
  <2> SUFFICES ASSUME PatroniInv, NEW n \in Pods, NEW m \in Pods, n # m, Leads(n), Leads(m)
               PROVE  podEpoch[n] # podEpoch[m]
    BY DEF FenceTellsThemApart
  <2>1. \A k \in {n, m} : Says(k, podEpoch[k]) /\ podEpoch[k] \in Nat
    BY DEF PatroniInv, PatroniTypeOK, Leads, Says, NoPoll
  <2>2. QED
    BY <2>1 DEF PatroniInv, OneLeaderInv
<1>4. PatroniInv /\ [PatroniNext]_patroniVars => [\A n \in Pods : podEpoch'[n] >= podEpoch[n]]_podEpoch
  BY EpochStep DEF PatroniInv
<1>5. PatroniInv => EpochsHaveBegun
  BY DEF PatroniInv, SeenInv, EpochsHaveBegun
<1>6. QED
  BY <1>1, <1>2, <1>3, <1>4, <1>5, PTL DEF PatroniSpec, TimelinesAreSound, TimelineNeverFalls

--------------------------------------------------------------------------------
(* Every step keeps the rows of the regions. *)

LEMMA RegionInitInv == RegionInit => RegionInv
<1> SUFFICES ASSUME RegionInit PROVE RegionInv
  OBVIOUS
<1>1. /\ \A r \in Regions : role[r] = Unregistered /\ heartbeat[r] = 0
      /\ failovers = <<>> /\ regionLog = <<>> /\ beats = {} /\ beatClock = 1
  BY DEF RegionInit
<1>2. RegionRowsOK
  BY <1>1, EmptySeq, RegionAssumption DEF RegionInit, RegionRowsOK
<1>3. QED
  BY <1>1, <1>2
     DEF RegionInv, SomeRegionIsPrimary, Registered, FailoversAreAudited, HistoryExplainsRoles,
         OnlyReplicasBeat, NoFailoverOnPg

\* A failover: its row and its audit entry are the last of their kind, between two regions
\* that are registered, and it does not happen on PostgreSQL.
FailsOver(from, to) ==
    /\ from \in Regions /\ to \in Regions /\ from # to /\ regionDb # "pg"
    /\ role[from] # Unregistered /\ role[to] # Unregistered
    /\ role'[from] = "standby" /\ role'[to] = "primary"
    /\ \A r \in Regions \ {from, to} : role'[r] = role[r]
    /\ role' \in [Regions -> {Unregistered, "primary", "standby"}]
    /\ Len(failovers) < MaxFailovers
    /\ \E row \in FailoverType : /\ row.from = from /\ row.to = to /\ row.entry = Len(regionLog) + 1
                                 /\ failovers' = Append(failovers, row)
    /\ regionLog' = Append(regionLog, to)
    /\ UNCHANGED <<regionDb, heartbeat, beats, beatClock>>

LEMMA FailoverSteps ==
    ASSUME RegionRowsOK, NEW from \in Regions, NEW to \in Regions, TriggerFailover(from, to)
    PROVE  FailsOver(from, to)
<1>1. role \in [Regions -> {Unregistered, "primary", "standby"}]
  BY DEF RegionRowsOK
<1>2. role' = [[role EXCEPT ![from] = "standby"] EXCEPT ![to] = "primary"] /\ from # to
  BY DEF TriggerFailover, Swapped, SetRole
<1>3. /\ role'[from] = "standby" /\ role'[to] = "primary"
      /\ \A r \in Regions \ {from, to} : role'[r] = role[r]
      /\ role' \in [Regions -> {Unregistered, "primary", "standby"}]
  BY <1>1, <1>2
<1> DEFINE row == [from |-> from, to |-> to, entry |-> Len(regionLog) + 1]
<1>4. Len(regionLog) \in Nat
  BY LenProperties DEF RegionRowsOK
<1>5. row \in FailoverType /\ row.from = from /\ row.to = to /\ row.entry = Len(regionLog) + 1
  BY <1>4 DEF FailoverType
<1>6. failovers' = Append(failovers, row)
  BY DEF TriggerFailover, LinkedEntry
<1> HIDE DEF row
<1>7. regionDb # "pg"
  BY DEF TriggerFailover, CanLink, RecordedId
<1>8. QED
  BY <1>2, <1>3, <1>5, <1>6, <1>7 DEF TriggerFailover, FailsOver, HasReplica

\* A step that leaves the history and its entries alone.
Quiet == /\ failovers' = failovers /\ regionDb' = regionDb
         /\ \/ regionLog' = regionLog
            \/ regionLog' = Append(regionLog, "other")

LEMMA RegionSteps ==
    ASSUME RegionRowsOK, [RegionNext]_regionVars
    PROVE  \/ \E r \in Regions : RegisterReplica(r) /\ Quiet
           \/ \E from, to \in Regions : FailsOver(from, to)
           \/ \E b \in beats : CommitHeartbeat(b) /\ Quiet
           \/ /\ Quiet /\ role' = role /\ heartbeat' = heartbeat
              /\ beatClock' \in {beatClock, beatClock + 1}
              /\ \/ beats' = beats
                 \/ \E r \in Regions : beats' = beats \cup {<<r, beatClock>>}
<1>1. ASSUME NEW r \in Senders, BeginHeartbeat(r)
      PROVE  r \in Regions
  BY RegionAssumption
<1>2. QED
  BY <1>1, FailoverSteps
     DEF RegionNext, RegisterReplica, StartRegion, BeginHeartbeat, OtherEntry, BeatTick,
         CommitHeartbeat, regionVars, Quiet

LEMMA RowsNext == RegionRowsOK /\ [RegionNext]_regionVars => RegionRowsOK'
<1> SUFFICES ASSUME RegionRowsOK, [RegionNext]_regionVars PROVE RegionRowsOK'
  OBVIOUS
<1>0. /\ role \in [Regions -> {Unregistered, "primary", "standby"}] /\ beatClock \in Nat
      /\ heartbeat \in [Regions -> 0..beatClock] /\ beats \subseteq Regions \X (0..beatClock)
      /\ failovers \in Seq(FailoverType) /\ Len(failovers) <= MaxFailovers
      /\ regionLog \in Seq(Regions \cup {"other"})
  BY DEF RegionRowsOK
<1>1. ASSUME Quiet
      PROVE  /\ failovers' \in Seq(FailoverType) /\ Len(failovers') <= MaxFailovers
             /\ regionLog' \in Seq(Regions \cup {"other"})
  <2> DEFINE T == Regions \cup {"other"}
  <2>1. "other" \in T /\ regionLog \in Seq(T)
    BY <1>0
  <2> HIDE DEF T
  <2>2. Append(regionLog, "other") \in Seq(T)
    BY <2>1, AppendProperties
  <2>3. regionLog' \in Seq(T)
    BY <1>1, <2>1, <2>2 DEF Quiet
  <2>4. QED
    BY <1>0, <1>1, <2>3 DEF Quiet, T
<1>2. ASSUME NEW r \in Regions, RegisterReplica(r), Quiet
      PROVE  RegionRowsOK'
  BY <1>0, <1>1, <1>2 DEF RegionRowsOK, RegisterReplica
<1>3. ASSUME NEW from \in Regions, NEW to \in Regions, FailsOver(from, to)
      PROVE  RegionRowsOK'
  <2>1. PICK row \in FailoverType : failovers' = Append(failovers, row)
    BY <1>3 DEF FailsOver
  <2>2. Len(failovers) \in Nat /\ Len(failovers) < MaxFailovers /\ MaxFailovers \in Nat
    BY <1>0, <1>3, LenProperties, RegionAssumption DEF FailsOver
  <2>3. failovers' \in Seq(FailoverType) /\ Len(failovers') = Len(failovers) + 1
    BY <1>0, <2>1, AppendProperties
  <2>4. regionLog' \in Seq(Regions \cup {"other"})
    BY <1>0, <1>3, AppendProperties DEF FailsOver
  <2>5. QED
    BY <1>0, <1>3, <2>2, <2>3, <2>4 DEF RegionRowsOK, FailsOver
<1>4. ASSUME NEW b \in beats, CommitHeartbeat(b), Quiet
      PROVE  RegionRowsOK'
  <2>1. b[1] \in Regions /\ b[2] \in 0..beatClock
    BY <1>0
  <2>2. heartbeat' \in [Regions -> 0..beatClock]
    BY <1>0, <1>4, <2>1 DEF CommitHeartbeat, UpdateHeartbeat
  <2>3. QED
    BY <1>0, <1>1, <1>4, <2>2 DEF RegionRowsOK, CommitHeartbeat
<1>5. CASE /\ Quiet /\ role' = role /\ heartbeat' = heartbeat
           /\ beatClock' \in {beatClock, beatClock + 1}
           /\ \/ beats' = beats
              \/ \E r \in Regions : beats' = beats \cup {<<r, beatClock>>}
  <2>1. beatClock' \in Nat /\ 0..beatClock \subseteq 0..beatClock' /\ beatClock \in 0..beatClock'
    BY <1>0, <1>5
  <2>2. heartbeat' \in [Regions -> 0..beatClock']
    BY <1>0, <1>5, <2>1
  <2>3. beats' \subseteq Regions \X (0..beatClock')
    BY <1>0, <1>5, <2>1
  <2>4. QED
    BY <1>0, <1>1, <1>5, <2>1, <2>2, <2>3 DEF RegionRowsOK
<1>6. QED
  BY <1>2, <1>3, <1>4, <1>5, RegionSteps

LEMMA PrimaryNext == RegionRowsOK /\ SomeRegionIsPrimary /\ [RegionNext]_regionVars => SomeRegionIsPrimary'
<1> SUFFICES ASSUME RegionRowsOK, SomeRegionIsPrimary, [RegionNext]_regionVars
             PROVE  SomeRegionIsPrimary'
  OBVIOUS
<1>1. CASE role' = role
  BY <1>1 DEF SomeRegionIsPrimary, Registered, Primaries
<1>2. ASSUME NEW r \in Regions, RegisterReplica(r)
      PROVE  SomeRegionIsPrimary'
  <2>1. role'[r] = (IF Registered = {} THEN "primary" ELSE "standby")
        /\ \A q \in Regions \ {r} : role'[q] = role[q]
    BY <1>2 DEF RegisterReplica, RegionRowsOK
  <2>2. CASE Registered = {}
    BY <2>1, <2>2 DEF SomeRegionIsPrimary, Primaries
  <2>3. CASE Registered # {}
    <3>1. PICK p \in Regions : role[p] = "primary"
      BY <2>3 DEF SomeRegionIsPrimary, Primaries
    <3>2. p # r
      BY <1>2, <3>1 DEF RegisterReplica, Unregistered
    <3>3. QED
      BY <2>1, <3>1, <3>2 DEF SomeRegionIsPrimary, Primaries
  <2>4. QED
    BY <2>2, <2>3
<1>3. ASSUME NEW from \in Regions, NEW to \in Regions, FailsOver(from, to)
      PROVE  SomeRegionIsPrimary'
  BY <1>3 DEF FailsOver, SomeRegionIsPrimary, Primaries
<1>4. QED
  BY <1>1, <1>2, <1>3, RegionSteps DEF CommitHeartbeat

\* What a failover appends: the last row, which names the last entry.
LEMMA LastRow ==
    ASSUME RegionRowsOK, NEW from \in Regions, NEW to \in Regions, FailsOver(from, to)
    PROVE  /\ Len(failovers) \in Nat /\ DOMAIN failovers = 1..Len(failovers)
           /\ Len(failovers') = Len(failovers) + 1 /\ DOMAIN failovers' = 1..(Len(failovers) + 1)
           /\ \A k \in 1..Len(failovers) : failovers'[k] = failovers[k]
           /\ failovers'[Len(failovers) + 1] \in FailoverType
           /\ failovers'[Len(failovers) + 1].from = from /\ failovers'[Len(failovers) + 1].to = to
           /\ failovers'[Len(failovers) + 1].entry = Len(regionLog) + 1
<1>1. failovers \in Seq(FailoverType)
  BY DEF RegionRowsOK
<1>2. PICK row \in FailoverType : /\ row.from = from /\ row.to = to /\ row.entry = Len(regionLog) + 1
                                  /\ failovers' = Append(failovers, row)
  BY DEF FailsOver
<1>3. /\ failovers' \in Seq(FailoverType) /\ Len(failovers') = Len(failovers) + 1
      /\ \A k \in 1..Len(failovers) : failovers'[k] = failovers[k]
      /\ failovers'[Len(failovers) + 1] = row
  BY <1>1, <1>2, AppendProperties
<1>4. QED
  BY <1>1, <1>2, <1>3, LenProperties

\* The log only grows, and a failover puts its region at its end.
LEMMA LogGrows ==
    ASSUME RegionRowsOK, [RegionNext]_regionVars
    PROVE  /\ Len(regionLog) \in Nat /\ DOMAIN regionLog = 1..Len(regionLog)
           /\ \A k \in DOMAIN regionLog : k \in DOMAIN regionLog' /\ regionLog'[k] = regionLog[k]
           /\ \A from, to \in Regions : FailsOver(from, to) =>
                 Len(regionLog) + 1 \in DOMAIN regionLog' /\ regionLog'[Len(regionLog) + 1] = to
<1> DEFINE T == Regions \cup {"other"}
<1>1. regionLog \in Seq(T) /\ "other" \in T /\ Regions \subseteq T
  BY DEF RegionRowsOK
<1> HIDE DEF T
<1>2. Len(regionLog) \in Nat /\ DOMAIN regionLog = 1..Len(regionLog)
  BY <1>1, LenProperties
<1>3. ASSUME NEW e \in T, regionLog' = Append(regionLog, e)
      PROVE  /\ DOMAIN regionLog' = 1..(Len(regionLog) + 1) /\ regionLog'[Len(regionLog) + 1] = e
             /\ \A k \in 1..Len(regionLog) : regionLog'[k] = regionLog[k]
  <2>1. /\ regionLog' \in Seq(T) /\ Len(regionLog') = Len(regionLog) + 1
        /\ regionLog'[Len(regionLog) + 1] = e
        /\ \A k \in 1..Len(regionLog) : regionLog'[k] = regionLog[k]
    BY <1>1, <1>3, AppendProperties
  <2>2. QED
    BY <2>1, LenProperties
<1>4. ASSUME NEW from \in Regions, NEW to \in Regions, FailsOver(from, to)
      PROVE  /\ Len(regionLog) + 1 \in DOMAIN regionLog' /\ regionLog'[Len(regionLog) + 1] = to
             /\ \A k \in DOMAIN regionLog : k \in DOMAIN regionLog' /\ regionLog'[k] = regionLog[k]
  BY <1>1, <1>2, <1>3, <1>4 DEF FailsOver
<1>5. ASSUME Quiet
      PROVE  \A k \in DOMAIN regionLog : k \in DOMAIN regionLog' /\ regionLog'[k] = regionLog[k]
  BY <1>1, <1>2, <1>3, <1>5 DEF Quiet
<1>6. QED
  BY <1>2, <1>4, <1>5, RegionSteps

LEMMA AuditedNext ==
    RegionRowsOK /\ FailoversAreAudited /\ [RegionNext]_regionVars => FailoversAreAudited'
<1> SUFFICES ASSUME RegionRowsOK, FailoversAreAudited, [RegionNext]_regionVars
             PROVE  FailoversAreAudited'
  OBVIOUS
<1>1. CASE failovers' = failovers
  BY <1>1, LogGrows DEF FailoversAreAudited
<1>2. ASSUME NEW from \in Regions, NEW to \in Regions, FailsOver(from, to)
      PROVE  FailoversAreAudited'
  <2> DEFINE N == Len(failovers) + 1
  <2>1. SUFFICES ASSUME NEW n \in DOMAIN failovers'
                 PROVE  /\ failovers'[n].entry \in DOMAIN regionLog'
                        /\ regionLog'[failovers'[n].entry] = failovers'[n].to
                        /\ \A k \in DOMAIN failovers' : k < n => failovers'[k].entry < failovers'[n].entry
    BY DEF FailoversAreAudited
  <2>2. CASE n = N
    <3>1. /\ failovers'[n].entry = Len(regionLog) + 1 /\ failovers'[n].to = to
      BY <1>2, <2>2, LastRow
    <3>2. ASSUME NEW k \in DOMAIN failovers', k < n
          PROVE  failovers'[k].entry < failovers'[n].entry
      <4>1. k \in DOMAIN failovers /\ failovers'[k] = failovers[k]
        BY <1>2, <2>2, <3>2, LastRow
      <4>2. failovers[k].entry \in DOMAIN regionLog
        BY <4>1 DEF FailoversAreAudited
      <4>3. QED
        BY <3>1, <4>1, <4>2, LogGrows
    <3>3. QED
      BY <1>2, <3>1, <3>2, LogGrows
  <2>3. CASE n # N
    <3>1. n \in DOMAIN failovers /\ failovers'[n] = failovers[n]
      BY <1>2, <2>1, <2>3, LastRow
    <3>2. \A k \in DOMAIN failovers' : k < n => k \in DOMAIN failovers /\ failovers'[k] = failovers[k]
      BY <1>2, <3>1, LastRow
    <3>3. QED
      BY <3>1, <3>2, LogGrows DEF FailoversAreAudited
  <2>4. QED
    BY <2>2, <2>3
<1>3. QED
  BY <1>1, <1>2, RegionSteps DEF Quiet

\* A region keeps the role a failover gave it: no other step changes a role that is there.
LEMMA HistoryNext ==
    RegionRowsOK /\ HistoryExplainsRoles /\ [RegionNext]_regionVars => HistoryExplainsRoles'
<1> SUFFICES ASSUME RegionRowsOK, HistoryExplainsRoles, [RegionNext]_regionVars
             PROVE  HistoryExplainsRoles'
  OBVIOUS
<1>0. /\ failovers \in Seq(FailoverType) /\ DOMAIN failovers = 1..Len(failovers) /\ Len(failovers) \in Nat
      /\ \A n \in DOMAIN failovers : failovers[n].from \in Regions /\ failovers[n].to \in Regions
  <2>1. /\ failovers \in Seq(FailoverType) /\ DOMAIN failovers = 1..Len(failovers) /\ Len(failovers) \in Nat
    BY LenProperties DEF RegionRowsOK
  <2>2. \A n \in DOMAIN failovers : failovers[n] \in FailoverType
    BY <2>1, ElementOfSeq
  <2>3. QED
    BY <2>1, <2>2 DEF FailoverType
<1>1. ASSUME failovers' = failovers, \A r \in Regions : role[r] # Unregistered => role'[r] = role[r]
      PROVE  HistoryExplainsRoles'
  <2>1. failovers # <<>> => /\ Len(failovers) \in DOMAIN failovers
                            /\ role[failovers[Len(failovers)].to] = "primary"
    BY <1>0, EmptySeq DEF HistoryExplainsRoles
  <2>2. failovers' # <<>> => role'[failovers'[Len(failovers')].to] = "primary"
    BY <1>0, <1>1, <2>1 DEF Unregistered
  <2>3. ASSUME NEW n \in DOMAIN failovers,
               \A k \in DOMAIN failovers : k >= n => failovers[k].to # failovers[n].from
        PROVE  role'[failovers[n].from] = "standby"
    BY <1>0, <1>1, <2>3 DEF HistoryExplainsRoles, Unregistered
  <2>4. QED
    BY <1>1, <2>2, <2>3 DEF HistoryExplainsRoles
<1>2. ASSUME NEW from \in Regions, NEW to \in Regions, FailsOver(from, to)
      PROVE  HistoryExplainsRoles'
  <2> DEFINE N == Len(failovers) + 1
  <2>1. /\ Len(failovers') = N /\ DOMAIN failovers' = 1..N
        /\ failovers'[N].from = from /\ failovers'[N].to = to
        /\ \A k \in 1..Len(failovers) : failovers'[k] = failovers[k]
    BY <1>2, LastRow
  <2>2. role'[failovers'[Len(failovers')].to] = "primary"
    BY <1>2, <2>1 DEF FailsOver
  <2>3. ASSUME NEW n \in DOMAIN failovers',
               \A k \in DOMAIN failovers' : k >= n => failovers'[k].to # failovers'[n].from
        PROVE  role'[failovers'[n].from] = "standby"
    <3>1. CASE n = N
      BY <1>2, <2>1, <3>1 DEF FailsOver
    <3>2. CASE n # N
      <4>1. n \in DOMAIN failovers /\ failovers'[n] = failovers[n]
        BY <1>0, <2>1, <2>3, <3>2
      <4>2. failovers[n].from # to
        BY <1>0, <2>1, <2>3, <4>1
      <4>3. \A k \in DOMAIN failovers : k >= n => failovers[k].to # failovers[n].from
        BY <1>0, <2>1, <2>3, <4>1
      <4>4. role[failovers[n].from] = "standby"
        BY <4>1, <4>3 DEF HistoryExplainsRoles
      <4>5. QED
        BY <1>0, <1>2, <4>1, <4>2, <4>4 DEF FailsOver
    <3>3. QED
      BY <3>1, <3>2
  <2>4. QED
    BY <2>2, <2>3 DEF HistoryExplainsRoles
<1>3. ASSUME NEW r \in Regions, RegisterReplica(r)
      PROVE  \A q \in Regions : role[q] # Unregistered => role'[q] = role[q]
  BY <1>3 DEF RegisterReplica, RegionRowsOK
<1>4. QED
  BY <1>1, <1>2, <1>3, RegionSteps DEF Quiet, CommitHeartbeat

\* Only the row of a region takes a heartbeat, and on PostgreSQL nothing fails over.
LEMMA BeatNext ==
    RegionRowsOK /\ OnlyReplicasBeat /\ NoFailoverOnPg /\ [RegionNext]_regionVars
        => OnlyReplicasBeat' /\ NoFailoverOnPg'
<1> SUFFICES ASSUME RegionRowsOK, OnlyReplicasBeat, NoFailoverOnPg, [RegionNext]_regionVars
             PROVE  OnlyReplicasBeat' /\ NoFailoverOnPg'
  OBVIOUS
<1>1. NoFailoverOnPg'
  BY RegionSteps DEF NoFailoverOnPg, Quiet, FailsOver
<1>2. ASSUME NEW r \in Regions, RegisterReplica(r)
      PROVE  OnlyReplicasBeat'
  BY <1>2 DEF OnlyReplicasBeat, RegisterReplica, RegionRowsOK, Unregistered
<1>3. ASSUME NEW from \in Regions, NEW to \in Regions, FailsOver(from, to)
      PROVE  OnlyReplicasBeat'
  BY <1>3 DEF OnlyReplicasBeat, FailsOver, Unregistered
<1>4. ASSUME NEW b \in beats, CommitHeartbeat(b)
      PROVE  OnlyReplicasBeat'
  <2>1. b[1] \in Regions /\ role' = role
    BY <1>4 DEF RegionRowsOK, CommitHeartbeat
  <2>2. heartbeat' = IF role[b[1]] # Unregistered THEN [heartbeat EXCEPT ![b[1]] = b[2]] ELSE heartbeat
    BY <1>4 DEF CommitHeartbeat, UpdateHeartbeat, HasReplica
  <2>3. QED
    BY <2>1, <2>2 DEF OnlyReplicasBeat, RegionRowsOK
<1>5. CASE role' = role /\ heartbeat' = heartbeat
  BY <1>1, <1>5 DEF OnlyReplicasBeat
<1>6. QED
  BY <1>1, <1>2, <1>3, <1>4, <1>5, RegionSteps

\* A failover moves the role of the primary and no other.
LEMMA MoveStep ==
    ASSUME RegionRowsOK, [RegionNext]_regionVars, failovers' # failovers
    PROVE  LET last == failovers'[Len(failovers')] IN
           Primaries' = (Primaries \ {last.from}) \cup {last.to}
<1>1. PICK from \in Regions, to \in Regions : FailsOver(from, to)
  BY RegionSteps DEF Quiet
<1>2. failovers'[Len(failovers')].from = from /\ failovers'[Len(failovers')].to = to
  BY <1>1, LastRow
<1>3. Primaries' = (Primaries \ {from}) \cup {to}
  BY <1>1 DEF FailsOver, Primaries
<1>4. QED
  BY <1>2, <1>3

\* Once a region is registered one is primary, the history of the failovers explains the
\* roles and names its own audit entries in order, a region nobody registered has no
\* heartbeat, and a failover moves the role from region to region, for any regions and any
\* failovers (internal/platform/replication, internal/api/handlers/replication.go).
THEOREM FailoverCorrect == RegionSpec => FailoverIsSound
<1>1. RegionInit => RegionInv
  BY RegionInitInv
<1>2. RegionInv /\ [RegionNext]_regionVars => RegionInv'
  BY RowsNext, PrimaryNext, AuditedNext, HistoryNext, BeatNext DEF RegionInv
<1>3. RegionInv => RegionTypeOK
  BY DEF RegionInv, RegionRowsOK, RegionTypeOK
<1>4. RegionInv => /\ SomeRegionIsPrimary /\ FailoversAreAudited
                   /\ HistoryExplainsRoles /\ OnlyReplicasBeat /\ NoFailoverOnPg
  BY DEF RegionInv
<1>5. RegionInv /\ [RegionNext]_regionVars =>
         [failovers' # failovers =>
             LET last == failovers'[Len(failovers')] IN
             Primaries' = (Primaries \ {last.from}) \cup {last.to}]_regionVars
  BY MoveStep DEF RegionInv
<1>6. QED
  BY <1>1, <1>2, <1>3, <1>4, <1>5, PTL DEF RegionSpec, FailoverIsSound, FailoverMovesThePrimary

--------------------------------------------------------------------------------
(* The set-up of replication: no start takes a table out of a publication of   *)
(* all tables, and no cleanup drops what streams or is of others.              *)

SlotStates == {"absent", "active", "idle", "old"}
SetupTypes ==
    /\ publication \in [kind : {"none", "all", "list"}, listed : SUBSET tables]
    /\ subscription \in BOOLEAN
    /\ slots \in [Owners -> SlotStates]
    /\ sweep \in [at : {"idle", "sweeping"}, left : SUBSET Owners]

\* Without a subscription nothing streams from the standby's slot.
SetupInv == SetupTypes /\ (slots["standby"] = "active" => subscription)

\* What a step does to the publication and to the slots.
PublicationKept ==
    /\ publication.kind = "all" => publication' = publication
    /\ StartPrimary(TRUE) => Published \subseteq Published'
SlotsKept ==
    \A o \in Owners : slots[o] # "absent" /\ slots'[o] = "absent" =>
        o = "standby" /\ ~sweepDryRun /\ slots[o] # "active"

\* A slot that changes is in one of its states again.
LEMMA SlotSet ==
  ASSUME SetupTypes, NEW o \in Owners, NEW s \in SlotStates, slots' = [slots EXCEPT ![o] = s]
  PROVE  /\ slots' \in [Owners -> SlotStates] /\ slots'[o] = s
         /\ \A q \in Owners \ {o} : slots'[q] = slots[q]
  BY DEF SetupTypes

\* A start leaves an all-tables publication alone.
LEMMA StartKeeps ==
  ASSUME SetupInv, NEW allTables \in BOOLEAN, StartPrimary(allTables)
  PROVE  SetupInv' /\ (publication.kind = "all" => publication' = publication) /\ SlotsKept
<1>1. NoPublication \in [kind : {"none", "all", "list"}, listed : SUBSET tables]
  BY DEF NoPublication
<1>2. ForAllTables \in [kind : {"none", "all", "list"}, listed : SUBSET tables]
  BY DEF ForAllTables
<1>3. Listed(DesiredTables) \in [kind : {"none", "all", "list"}, listed : SUBSET tables]
  BY DEF Listed, DesiredTables
<1>4. publication' \in [kind : {"none", "all", "list"}, listed : SUBSET tables]
  BY <1>1, <1>2, <1>3 DEF StartPrimary, Synced, SetupInv, SetupTypes
<1>5. SetupInv'
  BY <1>4 DEF StartPrimary, SetupInv, SetupTypes
<1>6. publication.kind = "all" => publication' = publication
  <2>1. publication.kind = "all" => publication # NoPublication
    BY DEF NoPublication
  <2> QED BY <2>1 DEF StartPrimary, Synced
<1>7. SlotsKept
  BY DEF SlotsKept, StartPrimary
<1> QED BY <1>5, <1>6, <1>7

\* A start with FOR ALL TABLES publishes at least what was published.
LEMMA StartPublishes ==
  ASSUME SetupInv, StartPrimary(TRUE)
  PROVE  Published \subseteq Published'
<1>0. tables' = tables
  BY DEF StartPrimary
<1>1. CASE publication = NoPublication
  BY <1>1 DEF NoPublication, Published
<1>2. CASE publication # NoPublication
  <2>1. publication' = publication
    BY <1>2 DEF StartPrimary, Synced
  <2> QED BY <2>1, <1>0 DEF Published
<1> QED BY <1>1, <1>2

\* Every step keeps the invariant, the all-tables publication and the slots of others.
LEMMA SetupStep ==
  ASSUME SetupInv, [SetupNext]_setupVars
  PROVE  /\ SetupInv' /\ SlotsKept
         /\ publication.kind = "all" => publication' = publication
<1> USE DEF SetupInv
<1>0. Owners = {"standby", "lookalike"} /\ SlotStates = {"absent", "active", "idle", "old"}
  BY DEF Owners, SlotStates
<1>1. ASSUME NEW t \in SchemaTables, Migrate(t)
      PROVE  SetupInv' /\ SlotsKept /\ publication' = publication
  BY <1>1 DEF Migrate, SetupTypes, SlotsKept
<1>2. ASSUME NEW ts \in SUBSET tables, OperatorPublishes(ts)
      PROVE  SetupInv' /\ SlotsKept /\ (publication.kind = "all" => publication' = publication)
  <2>1. Listed(ts) \in [kind : {"none", "all", "list"}, listed : SUBSET tables]
    BY DEF Listed
  <2>2. publication.kind # "all"
    BY <1>2 DEF OperatorPublishes, NoPublication
  <2> QED BY <1>2, <2>1, <2>2 DEF OperatorPublishes, SetupTypes, SlotsKept
<1>3. ASSUME NEW b \in BOOLEAN, StartPrimary(b)
      PROVE  SetupInv' /\ SlotsKept /\ (publication.kind = "all" => publication' = publication)
  BY <1>3, StartKeeps
<1>4. ASSUME StartStandby PROVE SetupInv' /\ SlotsKept /\ publication' = publication
  <2>1. slots' \in [Owners -> SlotStates] /\ \A q \in Owners \ {"standby"} : slots'[q] = slots[q]
    BY <1>4, <1>0, SlotSet DEF StartStandby
  <2>2. slots'["standby"] = "active"
    BY <1>4, <1>0, SlotSet DEF StartStandby
  <2> QED BY <1>4, <1>0, <2>1, <2>2 DEF StartStandby, SetupTypes, SlotsKept
<1>5. ASSUME LoseStandby PROVE SetupInv' /\ SlotsKept /\ publication' = publication
  <2> DEFINE s == IF slots["standby"] = "active" THEN "idle" ELSE slots["standby"]
  <2>1. slots' = [slots EXCEPT !["standby"] = s] /\ s \in SlotStates /\ s # "active"
    BY <1>5, <1>0 DEF LoseStandby, SetupTypes
  <2>2. slots["standby"] # "absent" => s # "absent"
    OBVIOUS
  <2> HIDE DEF s
  <2>3. /\ slots' \in [Owners -> SlotStates] /\ slots'["standby"] = s
        /\ \A q \in Owners \ {"standby"} : slots'[q] = slots[q]
    BY <2>1, <1>0, SlotSet
  <2> QED BY <1>5, <1>0, <2>1, <2>2, <2>3 DEF LoseStandby, SetupTypes, SlotsKept
<1>6. ASSUME OtherApplication PROVE SetupInv' /\ SlotsKept /\ publication' = publication
  <2>1. /\ slots' \in [Owners -> SlotStates] /\ slots'["lookalike"] = "active"
        /\ \A q \in Owners \ {"lookalike"} : slots'[q] = slots[q]
    BY <1>6, <1>0, SlotSet DEF OtherApplication
  <2> QED BY <1>6, <1>0, <2>1 DEF OtherApplication, SetupTypes, SlotsKept
<1>7. ASSUME NEW o \in Owners, Disconnect(o) \/ Reconnect(o) \/ Age(o)
      PROVE  SetupInv' /\ SlotsKept /\ publication' = publication
  <2>1. PICK s \in {"idle", "active", "old"} :
           /\ slots' = [slots EXCEPT ![o] = s]
           /\ s = "active" => (o = "standby" => subscription)
    BY <1>7 DEF Disconnect, Reconnect, Age
  <2>2. /\ slots' \in [Owners -> SlotStates] /\ slots'[o] = s
        /\ \A q \in Owners \ {o} : slots'[q] = slots[q]
    BY <2>1, <1>0, SlotSet
  <2>3. UNCHANGED <<tables, publication, subscription, sweep, sweepDryRun>>
    BY <1>7 DEF Disconnect, Reconnect, Age
  <2> QED BY <1>0, <2>1, <2>2, <2>3 DEF SetupTypes, SlotsKept
<1>8. ASSUME BeginSweep \/ EndSweep PROVE SetupInv' /\ SlotsKept /\ publication' = publication
  <2>1. sweep' \in [at : {"idle", "sweeping"}, left : SUBSET Owners]
    BY <1>8 DEF BeginSweep, EndSweep, NoSweep, Candidates
  <2>2. UNCHANGED <<tables, publication, subscription, slots, sweepDryRun>>
    BY <1>8 DEF BeginSweep, EndSweep
  <2> QED BY <2>1, <2>2 DEF SetupTypes, SlotsKept
<1>9. ASSUME NEW o \in Owners, SweepSlot(o) PROVE SetupInv' /\ SlotsKept /\ publication' = publication
  <2>1. UNCHANGED <<tables, publication, subscription, sweepDryRun>>
    BY <1>9 DEF SweepSlot
  <2>2. sweep' \in [at : {"idle", "sweeping"}, left : SUBSET Owners]
    <3>1. NoSweep \in [at : {"idle", "sweeping"}, left : SUBSET Owners]
      BY DEF NoSweep
    <3>2. [sweep EXCEPT !.left = sweep.left \ {o}] \in [at : {"idle", "sweeping"}, left : SUBSET Owners]
      BY DEF SetupTypes
    <3> QED BY <1>9, <3>1, <3>2 DEF SweepSlot
  <2>3. CASE slots' = slots
    BY <2>1, <2>2, <2>3 DEF SetupTypes, SlotsKept
  <2>4. CASE slots' # slots
    <3>1. Drops(o) /\ slots[o] \notin {"active", "absent"} /\ slots' = [slots EXCEPT ![o] = "absent"]
      BY <1>9, <2>4 DEF SweepSlot
    <3>2. o = "standby" /\ ~sweepDryRun
      BY <3>1 DEF Drops, HasSlotPrefix
    <3>3. /\ slots' \in [Owners -> SlotStates] /\ slots'[o] = "absent"
          /\ \A q \in Owners \ {o} : slots'[q] = slots[q]
      BY <3>1, <1>0, SlotSet
    <3> QED BY <2>1, <2>2, <3>1, <3>2, <3>3, <1>0 DEF SetupTypes, SlotsKept
  <2> QED BY <2>3, <2>4
<1>10. ASSUME UNCHANGED setupVars PROVE SetupInv' /\ SlotsKept /\ publication' = publication
  BY <1>10 DEF setupVars, SetupTypes, SlotsKept
<1> QED
  BY <1>1, <1>2, <1>3, <1>4, <1>5, <1>6, <1>7, <1>8, <1>9, <1>10 DEF SetupNext, Sweeping

LEMMA SetupBegins == SetupInit => SetupInv
<1> SUFFICES ASSUME SetupInit PROVE SetupInv
  OBVIOUS
<1>1. NoPublication \in [kind : {"none", "all", "list"}, listed : SUBSET tables]
  BY DEF NoPublication
<1>2. slots \in [Owners -> SlotStates] /\ slots["standby"] = "absent"
  BY DEF SetupInit, Owners, SlotStates
<1>3. sweep \in [at : {"idle", "sweeping"}, left : SUBSET Owners]
  BY DEF SetupInit, NoSweep
<1> QED BY <1>1, <1>2, <1>3 DEF SetupInit, SetupInv, SetupTypes

\* Whatever starts, restarts, migrations and cleanups follow one another: a published
\* list names tables there are and nothing streams without a subscription; a start with
\* FOR ALL TABLES publishes no table less and an all-tables publication stays one
\* (publication.go, syncPublicationTables); and a cleanup drops no slot in a dry run,
\* none that streams and none of another application (slot_cleanup.go).
THEOREM ReplicationIsSafe ==
  SetupInit /\ [][SetupNext]_setupVars => []SetupTypeOK /\ OnlyOwnIdleSlotsAreDropped /\ AllTablesStay
<1>1. SetupInit => SetupInv
  BY SetupBegins
<1>2. SetupInv /\ [SetupNext]_setupVars => SetupInv'
  BY SetupStep
<1>3. SetupInv => SetupTypeOK
  <2> SUFFICES ASSUME SetupInv PROVE SetupTypeOK
    OBVIOUS
  <2>1. publication.listed \subseteq tables
    BY DEF SetupInv, SetupTypes
  <2>2. \A o \in Owners : slots[o] \in {"absent", "active", "idle", "old"}
    BY DEF SetupInv, SetupTypes, SlotStates
  <2> QED BY <2>1, <2>2 DEF SetupInv, SetupTypeOK
<1>4. SetupInv /\ [SetupNext]_setupVars =>
        [\A o \in Owners : slots[o] # "absent" /\ slots'[o] = "absent" =>
            o = "standby" /\ ~sweepDryRun /\ slots[o] # "active"]_setupVars
  BY SetupStep DEF SlotsKept
<1>5. SetupInv /\ [SetupNext]_setupVars =>
        [/\ publication.kind = "all" => publication' = publication
         /\ StartPrimary(TRUE) => Published \subseteq Published']_setupVars
  BY SetupStep, StartPublishes
<1> QED
  BY <1>1, <1>2, <1>3, <1>4, <1>5, PTL DEF OnlyOwnIdleSlotsAreDropped, AllTablesStay

--------------------------------------------------------------------------------
(* The life of a server: while there is time, the stop closes the database     *)
(* after everything that works on it, whatever hangs or fails before.          *)

\* The stop is past its n-th step, those of Shutdown counted from 1 and that of the
\* HTTP server 0, which a start that fails does not have.
StopAt(n) == IF phase = "failing" THEN n ELSE n + 1
Past(n) == at > StopAt(n)

Ending == phase \in {"stopping", "failing"}
InTime == Ending /\ ~Expired

\* Before it serves a server has no HTTP server, nor when its start has failed.
NoRequests == "http" \notin held /\ "read" \notin work /\ "write" \notin work

\* The database is open from the first step of Bootstrap on; the stop closes it in its
\* seventh step.
StoreIsOpen ==
    /\ phase = "booting" /\ at > 1 => "store" \in held
    /\ phase = "serving" => "store" \in held
    /\ Ending /\ ~Past(6) => "store" \in held

\* In time, what a step has stopped is closed and none of its work is left.
StepsAreDone ==
    InTime => /\ Past(0) => NoRequests \/ phase = "failing"
              /\ Past(1) => "bridges" \notin held /\ "event" \notin work
              /\ Past(2) => "dispatcher" \notin held /\ "delivery" \notin work
              /\ Past(5) => "scheduler" \notin held /\ "job" \notin work

\* The kinds of work, which need the engines of Engine.
Kinds == {"job", "delivery", "event", "insight", "read", "write", "scan"}

LifeTypes ==
    /\ phase \in {"booting", "failing", "failed", "serving", "stopping", "exited"}
    /\ at \in Nat \ {0}
    /\ work \subseteq Kinds
    /\ bootCtx \in {"running", "over"} /\ deadline \in {"running", "over"}

LifeInv ==
    /\ LifeTypes
    /\ phase \in {"booting", "failing", "failed"} => NoRequests
    /\ StoreIsOpen /\ StepsAreDone
    /\ phase = "exited" /\ deadline = "running" => "read" \notin work

--------------------------------------------------------------------------------
(* The steps of Bootstrap and of the stop. *)

Resources == {"store", "otel", "keystore", "scheduler", "pool", "autorun", "collector", "dispatcher",
              "bridges", "patroni", "manager", "platform", "http"}
StepNames == {"storage", "migrate", "otel", "keystore", "platform", "jwt", "scheduler", "domains", "report",
              "knownHosts", "scans", "insights", "jobs", "lag", "webhook", "license", "replication", "role"}
StopNames == {"http", "bridges", "dispatcher", "autorun", "manager", "scheduler", "rest", "store", "keystore"}

Steps == [name : StepNames, opens : SUBSET (Resources \ {"http"}), closes : SUBSET Resources, fails : BOOLEAN]
Stops == [name : StopNames, closes : SUBSET Resources, awaits : SUBSET Kinds]

\* Short lists are lists.
LEMMA ShortLists ==
  ASSUME NEW S
  PROVE  /\ << >> \in Seq(S)
         /\ \A x \in S : <<x>> \in Seq(S)
         /\ \A x, y, z \in S : <<x, y, z>> \in Seq(S) /\ Len(<<x, y, z>>) >= 1 /\ <<x, y, z>>[1] = x
         /\ \A x, y, z, u \in S : <<x, y, z, u>> \in Seq(S)
  OBVIOUS

\* A list that begins another begins their concatenation.
LEMMA BeginsTheSame ==
  ASSUME NEW s \in Seq(Steps), NEW t \in Seq(Steps), NEW x, Len(s) >= 1, s[1] = x
  PROVE  s \o t \in Seq(Steps) /\ Len(s \o t) >= 1 /\ (s \o t)[1] = x
<1>1. Len(s) \in Nat /\ Len(t) \in Nat
  BY LenProperties
<1>2. s \o t \in Seq(Steps) /\ Len(s \o t) = Len(s) + Len(t)
  BY ConcatProperties
<1>3. 1 \in 1..(Len(s) + Len(t)) /\ 1 <= Len(s)
  BY <1>1
<1>4. (s \o t)[1] = s[1]
  BY <1>3, ConcatProperties
<1> QED BY <1>1, <1>2, <1>4

\* Bootstrap opens the database first, and its failure there closes nothing.  No step
\* of Bootstrap listens.
LEMMA FirstStep ==
  /\ BootSteps(settings) \in Seq(Steps)
  /\ Len(BootSteps(settings)) \in Nat /\ Len(BootSteps(settings)) >= 1
  /\ BootSteps(settings)[1] = Step("storage", {"store"}, {}, TRUE)
<1> DEFINE x == Step("storage", {"store"}, {}, TRUE)
<1>1. StorageSteps \in Seq(Steps) /\ Len(StorageSteps) >= 1 /\ StorageSteps[1] = x
  <2>1. x \in Steps /\ Step("migrate", {}, {"store"}, TRUE) \in Steps /\ Step("otel", {"otel"}, {"store"}, TRUE) \in Steps
    BY DEF Step, Steps, StepNames, Resources
  <2> HIDE DEF x
  <2>2. StorageSteps = <<x, Step("migrate", {}, {"store"}, TRUE), Step("otel", {"otel"}, {"store"}, TRUE)>>
    BY DEF StorageSteps, x
  <2> QED BY <2>1, <2>2, ShortLists, Zenon
<1>2. KeySteps \in Seq(Steps)
  <2>1. /\ Step("keystore", {"keystore"}, {"store"}, TRUE) \in Steps
        /\ Step("platform", {}, {"keystore", "store"}, TRUE) \in Steps
        /\ Step("jwt", {}, {"keystore", "store"}, TRUE) \in Steps
        /\ Step("scheduler", {"scheduler"}, {}, FALSE) \in Steps
    BY DEF Step, Steps, StepNames, Resources
  <2> QED BY <2>1, ShortLists, Zenon DEF KeySteps
<1>3. DomainSteps \in Seq(Steps)
  <2>1. /\ Step("domains", {}, {"scheduler", "store"}, TRUE) \in Steps
        /\ Step("report", {}, {"scheduler", "keystore", "store"}, TRUE) \in Steps
        /\ Step("knownHosts", {}, {}, TRUE) \in Steps
        /\ Step("scans", {"pool"}, {}, FALSE) \in Steps
    BY DEF Step, Steps, StepNames, Resources
  <2> QED BY <2>1, ShortLists, Zenon DEF DomainSteps
<1>4. InsightSteps \in Seq(Steps)
  <2>1. Step("insights", {"autorun"}, {}, FALSE) \in Steps
    BY DEF Step, Steps, StepNames, Resources
  <2> QED BY <2>1, ShortLists, Zenon DEF InsightSteps
<1>5. JobSteps \in Seq(Steps)
  <2>1. Step("jobs", {}, {"scheduler", "store"}, TRUE) \in Steps
    BY DEF Step, Steps, StepNames, Resources
  <2> QED BY <2>1, ShortLists, Zenon DEF JobSteps
<1>6. LagStep(settings) \in Seq(Steps)
  <2>1. Step("lag", {"collector"}, {"scheduler", "store"}, TRUE) \in Steps
    BY DEF Step, Steps, StepNames, Resources
  <2> QED BY <2>1, ShortLists, Zenon DEF LagStep
<1>7. WebhookSteps \in Seq(Steps)
  <2>1. Step("webhook", {"dispatcher", "bridges"}, {}, FALSE) \in Steps
    BY DEF Step, Steps, StepNames, Resources
  <2> QED BY <2>1, ShortLists, Zenon DEF WebhookSteps
<1>8. LicenseStep \in Seq(Steps)
  <2>1. Step("license", {}, {"scheduler", "store"}, TRUE) \in Steps
    BY DEF Step, Steps, StepNames, Resources
  <2> QED BY <2>1, ShortLists, Zenon DEF LicenseStep
<1>9. <<Step("replication", {}, {"platform"}, TRUE)>> \in Seq(Steps)
  <2>1. Step("replication", {}, {"platform"}, TRUE) \in Steps
    BY DEF Step, Steps, StepNames, Resources
  <2> QED BY <2>1, ShortLists, Zenon
<1>10. RoleStep(settings) \in Seq(Steps)
  <2>1. Step("role", {"patroni"}, {"platform"}, TRUE) \in Steps /\ Step("role", {"manager"}, {"platform"}, TRUE) \in Steps
    BY DEF Step, Steps, StepNames, Resources
  <2> QED BY <2>1, ShortLists, Zenon DEF RoleStep
<1> HIDE DEF x
<1> DEFINE a == StorageSteps \o KeySteps
           b == a \o DomainSteps
           c == b \o InsightSteps
           d == c \o JobSteps
           e == d \o LagStep(settings)
           f == e \o WebhookSteps
           g == f \o LicenseStep
           h == g \o <<Step("replication", {}, {"platform"}, TRUE)>>
           i == h \o RoleStep(settings)
<1>a. a \in Seq(Steps) /\ Len(a) >= 1 /\ a[1] = x
  BY <1>1, <1>2, BeginsTheSame
<1> HIDE DEF a
<1>b. b \in Seq(Steps) /\ Len(b) >= 1 /\ b[1] = x
  BY <1>a, <1>3, BeginsTheSame
<1> HIDE DEF b
<1>c. c \in Seq(Steps) /\ Len(c) >= 1 /\ c[1] = x
  BY <1>b, <1>4, BeginsTheSame
<1> HIDE DEF c
<1>d. d \in Seq(Steps) /\ Len(d) >= 1 /\ d[1] = x
  BY <1>c, <1>5, BeginsTheSame
<1> HIDE DEF d
<1>e. e \in Seq(Steps) /\ Len(e) >= 1 /\ e[1] = x
  BY <1>d, <1>6, BeginsTheSame
<1> HIDE DEF e
<1>f. f \in Seq(Steps) /\ Len(f) >= 1 /\ f[1] = x
  BY <1>e, <1>7, BeginsTheSame
<1> HIDE DEF f
<1>g. g \in Seq(Steps) /\ Len(g) >= 1 /\ g[1] = x
  BY <1>f, <1>8, BeginsTheSame
<1> HIDE DEF g
<1>h. h \in Seq(Steps) /\ Len(h) >= 1 /\ h[1] = x
  BY <1>g, <1>9, BeginsTheSame
<1> HIDE DEF h
<1>i. i \in Seq(Steps) /\ Len(i) >= 1 /\ i[1] = x
  BY <1>h, <1>10, BeginsTheSame
<1>11. BootSteps(settings) = i
  BY DEF BootSteps, a, b, c, d, e, f, g, h
<1>12. Len(i) \in Nat
  BY <1>i, LenProperties
<1> QED BY <1>i, <1>11, <1>12 DEF x

LEMMA ShutdownIs ==
  /\ Shutdown \in Seq(Stops) /\ Len(Shutdown) = 8
  /\ Shutdown[1] = Stop("bridges", {"bridges"}, {"event"})
  /\ Shutdown[2] = Stop("dispatcher", {"dispatcher"}, {"delivery"})
  /\ Shutdown[3] = Stop("autorun", {"autorun"}, {})
  /\ Shutdown[4] = Stop("manager", {"manager"}, {})
  /\ Shutdown[5] = Stop("scheduler", {"scheduler"}, {"job"})
  /\ Shutdown[6] = Stop("rest", {"pool"}, {})
  /\ Shutdown[7] = Stop("store", {"store", "otel"}, {})
  /\ Shutdown[8] = Stop("keystore", {"keystore"}, {})
<1>2. /\ Stop("bridges", {"bridges"}, {"event"}) \in Stops
      /\ Stop("dispatcher", {"dispatcher"}, {"delivery"}) \in Stops
      /\ Stop("autorun", {"autorun"}, {}) \in Stops
      /\ Stop("manager", {"manager"}, {}) \in Stops
  BY DEF Stop, Stops, StopNames, Resources, Kinds
<1>3. /\ Stop("scheduler", {"scheduler"}, {"job"}) \in Stops
      /\ Stop("rest", {"pool"}, {}) \in Stops
      /\ Stop("store", {"store", "otel"}, {}) \in Stops
      /\ Stop("keystore", {"keystore"}, {}) \in Stops
  BY DEF Stop, Stops, StopNames, Resources, Kinds
<1> QED BY <1>2, <1>3 DEF Shutdown

\* The n-th step of Shutdown is the n-th of a start that fails, and the next of the stop.
LEMMA StopStepsAre ==
  /\ phase = "failing" => Len(StopSteps) = 8 /\ \A n \in 1..8 : StopSteps[n] = Shutdown[n]
  /\ phase # "failing" => /\ Len(StopSteps) = 9
                          /\ StopSteps[1] = Stop("http", {"http"}, {"read", "write"})
                          /\ \A n \in 2..9 : StopSteps[n] = Shutdown[n - 1]
<1> DEFINE s == <<Stop("http", {"http"}, {"read", "write"})>>
<1>1. Stop("http", {"http"}, {"read", "write"}) \in Stops
  BY DEF Stop, Stops, StopNames, Resources, Kinds
<1>2. s \in Seq(Stops) /\ Len(s) = 1 /\ s[1] = Stop("http", {"http"}, {"read", "write"})
  BY <1>1
<1> HIDE DEF s
<1>s. Shutdown \in Seq(Stops) /\ Len(Shutdown) = 8
  BY ShutdownIs
<1>3. /\ Len(s \o Shutdown) = 1 + 8
      /\ \A n \in 1..(1 + 8) : (s \o Shutdown)[n] = IF n <= 1 THEN s[n] ELSE Shutdown[n - 1]
  <2>1. /\ Len(s \o Shutdown) = Len(s) + Len(Shutdown)
        /\ \A n \in 1..(Len(s) + Len(Shutdown)) :
             (s \o Shutdown)[n] = IF n <= Len(s) THEN s[n] ELSE Shutdown[n - Len(s)]
    BY <1>2, <1>s, ConcatProperties, Zenon
  <2> QED BY <2>1, <1>2, <1>s
<1>4. CASE phase = "failing"
  BY <1>4, ShutdownIs DEF StopSteps
<1>5. CASE phase # "failing"
  <2>1. StopSteps = s \o Shutdown
    BY <1>5 DEF StopSteps, s
  <2>2. Len(StopSteps) = 9 /\ StopSteps[1] = Stop("http", {"http"}, {"read", "write"})
    BY <2>1, <1>3, <1>2
  <2>3. \A n \in 2..9 : StopSteps[n] = Shutdown[n - 1]
    <3> SUFFICES ASSUME NEW n \in 2..9 PROVE StopSteps[n] = Shutdown[n - 1]
      OBVIOUS
    <3>1. n \in 1..(1 + 8) /\ ~(n <= 1)
      OBVIOUS
    <3>2. (s \o Shutdown)[n] = Shutdown[n - 1]
      BY <3>1, <1>3
    <3> QED BY <3>2, <2>1
  <2> QED BY <1>5, <2>2, <2>3
<1> QED BY <1>4, <1>5

\* What the steps of the stop close and wait for.
LEMMA StopsAt ==
  ASSUME at \in 1..Len(StopSteps)
  PROVE  LET s == StopSteps[at] IN
         /\ phase # "failing" /\ at = 1 => s.closes = {"http"} /\ s.awaits = {"read", "write"}
         /\ at = StopAt(1) => s.closes = {"bridges"} /\ s.awaits = {"event"}
         /\ at = StopAt(2) => s.closes = {"dispatcher"} /\ s.awaits = {"delivery"}
         /\ at = StopAt(5) => s.closes = {"scheduler"} /\ s.awaits = {"job"}
         /\ "store" \in s.closes => at = StopAt(7)
         /\ at <= StopAt(8)
<1> DEFINE n == IF phase = "failing" THEN at ELSE at - 1
<1>0. /\ phase = "failing" => Len(StopSteps) = 8
      /\ phase # "failing" => Len(StopSteps) = 9
  BY StopStepsAre
<1>1. CASE phase # "failing" /\ at = 1
  <2>1. StopSteps[at].closes = {"http"} /\ StopSteps[at].awaits = {"read", "write"}
    BY <1>1, StopStepsAre DEF Stop
  <2>2. StopAt(1) = 2 /\ StopAt(2) = 3 /\ StopAt(5) = 6 /\ StopAt(8) = 9
    BY <1>1 DEF StopAt
  <2> QED BY <1>1, <2>1, <2>2
<1>2. CASE ~(phase # "failing" /\ at = 1)
  <2>1. n \in 1..8 /\ StopSteps[at] = Shutdown[n]
    <3>1. CASE phase = "failing"
      BY <3>1, StopStepsAre
    <3>2. CASE phase # "failing"
      <4>1. at \in 2..9
        <5>1. at \in 1..9 /\ at # 1
          BY <3>2, <1>2, <1>0
        <5> HIDE DEF n
        <5> QED BY <5>1
      <4> QED BY <4>1, <3>2, StopStepsAre
    <3> QED BY <3>1, <3>2
  <2>2. \A k \in 1..8 : at = StopAt(k) <=> n = k
    BY DEF StopAt
  <2> HIDE DEF n
  <2>3. /\ Shutdown[1].closes = {"bridges"} /\ Shutdown[1].awaits = {"event"}
        /\ Shutdown[2].closes = {"dispatcher"} /\ Shutdown[2].awaits = {"delivery"}
        /\ Shutdown[5].closes = {"scheduler"} /\ Shutdown[5].awaits = {"job"}
    BY ShutdownIs DEF Stop
  <2>4. /\ "store" \notin Shutdown[1].closes /\ "store" \notin Shutdown[2].closes
        /\ "store" \notin Shutdown[3].closes /\ "store" \notin Shutdown[4].closes
        /\ "store" \notin Shutdown[5].closes /\ "store" \notin Shutdown[6].closes
        /\ "store" \notin Shutdown[8].closes
    BY ShutdownIs DEF Stop
  <2>5. "store" \in Shutdown[n].closes => n = 7
    BY <2>1, <2>4
  <2>6. at <= StopAt(8)
    <3>1. CASE phase = "failing"
      <4>1. at \in 1..8 /\ StopAt(8) = 8
        BY <3>1, <1>0 DEF StopAt
      <4> QED BY <4>1
    <3>2. CASE phase # "failing"
      <4>1. at \in 1..9
        BY <3>2, <1>0
      <4>2. StopAt(8) = 9
        BY <3>2 DEF StopAt
      <4> QED BY <4>1, <4>2
    <3> QED BY <3>1, <3>2
  <2> QED BY <1>2, <2>1, <2>2, <2>3, <2>5, <2>6
<1> QED BY <1>1, <1>2

--------------------------------------------------------------------------------
(* The steps. *)

LEMMA LifeBegins == LifeInit => LifeInv
  BY DEF LifeInit, LifeInv, LifeTypes, NoRequests, StoreIsOpen, StepsAreDone, Ending, InTime, Kinds

\* Bootstrap opens and fails.
LEMMA BootMoves ==
  ASSUME LifeInv, BootStep \/ BootFails \/ BootDone
  PROVE  LifeInv'
<1>1. LifeTypes /\ phase = "booting" /\ NoRequests /\ (at > 1 => "store" \in held)
  BY DEF LifeInv, StoreIsOpen, BootStep, BootFails, BootDone
<1>2. UNCHANGED <<work, bootCtx, deadline>>
  BY DEF BootStep, BootFails, BootDone
<1>3. ASSUME BootStep PROVE LifeInv'
  <2>1. at \in 1..Len(BootSteps(settings)) /\ phase' = phase /\ at' = at + 1 /\ held' = held \cup NextStep.opens
    BY <1>3, <1>1, FirstStep DEF BootStep, LifeTypes
  <2>2. NextStep \in Steps
    BY <2>1, FirstStep, ElementOfSeq DEF NextStep
  <2>3. "http" \notin held'
    BY <2>1, <2>2, <1>1 DEF Steps, NoRequests
  <2>4. "store" \in held'
    <3>1. at = 1 => NextStep.opens = {"store"}
      BY FirstStep DEF NextStep, Step
    <3> QED BY <3>1, <2>1, <1>1
  <2>5. LifeTypes'
    BY <1>1, <1>2, <2>1 DEF LifeTypes
  <2> QED BY <1>1, <1>2, <2>1, <2>3, <2>4, <2>5 DEF LifeInv, NoRequests, StoreIsOpen, StepsAreDone, Ending, InTime
<1>4. ASSUME BootFails PROVE LifeInv'
  <2>1. at \in 1..Len(BootSteps(settings))
    BY <1>4, <1>1, FirstStep DEF BootFails, LifeTypes
  <2>2. CASE "platform" \in NextStep.closes
    <3>1. phase' = "failing" /\ at' = 1 /\ held' = held
      BY <1>4, <2>2 DEF BootFails
    <3>2. at # 1
      BY <2>2, FirstStep DEF NextStep, Step
    <3>3. "store" \in held'
      BY <3>1, <3>2, <2>1, <1>1
    <3>4. LifeTypes'
      BY <1>1, <1>2, <3>1 DEF LifeTypes
    <3>5. ~Past(1)' /\ ~Past(2)' /\ ~Past(5)'
      BY <3>1 DEF Past, StopAt
    <3> QED BY <1>1, <1>2, <3>1, <3>3, <3>4, <3>5 DEF LifeInv, NoRequests, StoreIsOpen, StepsAreDone, Ending
  <2>3. CASE "platform" \notin NextStep.closes
    <3>1. phase' = "failed" /\ at' = at /\ held' \subseteq held
      BY <1>4, <2>3 DEF BootFails
    <3> QED BY <1>1, <1>2, <3>1 DEF LifeInv, LifeTypes, NoRequests, StoreIsOpen, StepsAreDone, Ending, InTime
  <2> QED BY <2>2, <2>3
<1>5. ASSUME BootDone PROVE LifeInv'
  <2>1. phase' = "serving" /\ at' = at /\ held' = held /\ at > 1
    BY <1>5, <1>1, FirstStep DEF BootDone, LifeTypes
  <2> QED BY <1>1, <1>2, <2>1 DEF LifeInv, LifeTypes, StoreIsOpen, StepsAreDone, Ending, InTime
<1> QED BY <1>3, <1>4, <1>5

\* The clocks, the role, the listener and the lag metric.
LEMMA OtherMoves ==
  ASSUME LifeInv, \/ BootCtxEnds \/ CollectorEnds \/ Listen \/ Signal \/ DeadlineEnds
                  \/ \E r \in {"leader", "follower"} : Elected(r)
  PROVE  LifeInv'
<1> USE DEF LifeInv
<1>1. CASE BootCtxEnds
  BY <1>1 DEF BootCtxEnds, LifeTypes, NoRequests, StoreIsOpen, StepsAreDone, Ending, InTime, Expired, Past, StopAt
<1>2. CASE CollectorEnds
  BY <1>2 DEF CollectorEnds, LifeTypes, NoRequests, StoreIsOpen, StepsAreDone, Ending, InTime, Expired, Past, StopAt
<1>3. CASE Listen
  BY <1>3 DEF Listen, LifeTypes, NoRequests, StoreIsOpen, StepsAreDone, Ending, InTime
<1>4. CASE Signal
  <2>1. ~Past(0)' /\ ~Past(1)' /\ ~Past(2)' /\ ~Past(5)'
    BY <1>4 DEF Signal, Past, StopAt
  <2> QED BY <1>4, <2>1 DEF Signal, LifeTypes, StoreIsOpen, StepsAreDone, Ending
<1>5. CASE DeadlineEnds
  BY <1>5 DEF DeadlineEnds, LifeTypes, NoRequests, StoreIsOpen, StepsAreDone, Ending, InTime, Expired, Past, StopAt
<1>6. ASSUME NEW r \in {"leader", "follower"}, Elected(r) PROVE LifeInv'
  BY <1>6 DEF Elected, LifeTypes, NoRequests, StoreIsOpen, StepsAreDone, Ending, InTime, Expired, Past, StopAt
<1> QED BY <1>1, <1>2, <1>3, <1>4, <1>5, <1>6

\* Work begins where its engine runs, which no step of the stop has closed yet.
LEMMA WorkBegins ==
  ASSUME LifeInv, NEW kind \in DOMAIN Engine, Begins(kind)
  PROVE  LifeInv'
<1>1. /\ Alive /\ Engine[kind] \in held /\ work' = work \cup {kind}
      /\ UNCHANGED <<settings, phase, at, held, bootCtx, deadline, haRole>>
  BY DEF Begins
<1>2. kind \in Kinds
  BY DEF Engine, Kinds
<1>3. /\ kind \in {"read", "write"} => "http" \in held
      /\ kind = "event" => "bridges" \in held
      /\ kind = "delivery" => "dispatcher" \in held
      /\ kind = "job" => "scheduler" \in held
  BY <1>1 DEF Engine
<1>4. LifeTypes' /\ StoreIsOpen'
  BY <1>1, <1>2 DEF LifeInv, LifeTypes, StoreIsOpen, Ending, Past, StopAt
<1>5. NoRequests => NoRequests'
  BY <1>1, <1>3 DEF NoRequests
<1>6. StepsAreDone'
  BY <1>1, <1>3, <1>5 DEF LifeInv, StepsAreDone, InTime, Ending, Expired, Past, StopAt
<1>7. phase # "exited"
  BY <1>1 DEF Alive
<1> QED BY <1>1, <1>4, <1>5, <1>6, <1>7 DEF LifeInv

LEMMA WorkEnds ==
  ASSUME LifeInv, NEW kind \in DOMAIN Engine, Ends(kind)
  PROVE  LifeInv'
<1>1. /\ work' \subseteq work
      /\ UNCHANGED <<settings, phase, at, held, bootCtx, deadline, haRole, strays>>
  BY DEF Ends
<1> QED
  BY <1>1 DEF LifeInv, LifeTypes, NoRequests, StoreIsOpen, StepsAreDone, Ending, InTime, Expired, Past, StopAt

\* The stop: an engine is stopped, its work is waited for, and then the next.
LEMMA StopMovesOn ==
  ASSUME LifeInv, StopMoves
  PROVE  LifeInv'
<1>0. LifeTypes /\ Ending /\ StoreIsOpen /\ StepsAreDone
  BY DEF LifeInv, StopMoves, StopEngine, StopStep, StopDone, Ending
<1>l. Len(StopSteps) \in Nat /\ (phase = "stopping" => Len(StopSteps) = 9)
  BY StopStepsAre
<1>1. CASE StopEngine
  <2>1. /\ at \in 1..Len(StopSteps) /\ held' = held \ StopSteps[at].closes
        /\ UNCHANGED <<settings, phase, at, work, bootCtx, deadline, haRole, strays>>
    BY <1>1, <1>0, <1>l DEF StopEngine, LifeTypes
  <2>2. ~Past(6) => "store" \in held'
    <3>1. at = StopAt(7) \/ "store" \notin StopSteps[at].closes
      BY <2>1, StopsAt
    <3>2. ~Past(6) => "store" \in held
      BY <1>0 DEF StoreIsOpen
    <3>3. ~Past(6) => at # StopAt(7)
      BY <1>0 DEF Past, StopAt, LifeTypes
    <3> QED BY <2>1, <3>1, <3>2, <3>3
  <2> QED
    BY <2>1, <2>2, <1>0 DEF LifeInv, LifeTypes, NoRequests, StoreIsOpen, StepsAreDone, Ending, InTime, Expired, Past, StopAt
<1>2. CASE StopStep
  <2>1. /\ at \in 1..Len(StopSteps) /\ at' = at + 1
        /\ StopSteps[at].closes \cap held = {} /\ Awaited(StopSteps[at])
        /\ UNCHANGED <<settings, phase, held, work, bootCtx, deadline, haRole, strays>>
    BY <1>2, <1>0, <1>l DEF StopStep, LifeTypes
  <2>2. InTime' => InTime /\ StopSteps[at].awaits \cap work = {}
    BY <2>1 DEF InTime, Ending, Expired, Awaited
  <2>3. \A n \in 0..8 : Past(n)' => Past(n) \/ at = StopAt(n)
    BY <2>1, <1>0 DEF Past, StopAt, LifeTypes
  <2>4. \A n \in 0..8 : Past(n) => Past(n)'
    BY <2>1, <1>0 DEF Past, StopAt, LifeTypes
  <2>5. StoreIsOpen'
    <3>1. Ending /\ ~Past(6)' => ~Past(6)
      BY <2>4
    <3> QED BY <3>1, <2>1, <1>0 DEF StoreIsOpen, Ending
  <2>6. StepsAreDone'
    <3> SUFFICES ASSUME InTime'
                 PROVE /\ Past(0)' => NoRequests' \/ phase' = "failing"
                       /\ Past(1)' => "bridges" \notin held' /\ "event" \notin work'
                       /\ Past(2)' => "dispatcher" \notin held' /\ "delivery" \notin work'
                       /\ Past(5)' => "scheduler" \notin held' /\ "job" \notin work'
      BY DEF StepsAreDone
    <3>1. InTime /\ StopSteps[at].awaits \cap work = {} /\ StopSteps[at].closes \cap held = {}
      BY <2>1, <2>2
    <3>2. Past(0)' => NoRequests \/ phase = "failing"
      <4>1. CASE Past(0)
        BY <4>1, <3>1, <1>0 DEF StepsAreDone
      <4>2. CASE at = StopAt(0) /\ phase # "failing"
        <5>1. at = 1
          BY <4>2 DEF StopAt
        <5>2. StopSteps[at].closes = {"http"} /\ StopSteps[at].awaits = {"read", "write"}
          BY <5>1, <4>2, <2>1, StopsAt
        <5> QED BY <5>2, <3>1 DEF NoRequests
      <4> QED BY <4>1, <4>2, <2>3
    <3>3. Past(1)' => "bridges" \notin held /\ "event" \notin work
      <4>1. CASE Past(1)
        BY <4>1, <3>1, <1>0 DEF StepsAreDone
      <4>2. CASE at = StopAt(1)
        BY <4>2, <3>1, <2>1, StopsAt
      <4> QED BY <4>1, <4>2, <2>3
    <3>4. Past(2)' => "dispatcher" \notin held /\ "delivery" \notin work
      <4>1. CASE Past(2)
        BY <4>1, <3>1, <1>0 DEF StepsAreDone
      <4>2. CASE at = StopAt(2)
        BY <4>2, <3>1, <2>1, StopsAt
      <4> QED BY <4>1, <4>2, <2>3
    <3>5. Past(5)' => "scheduler" \notin held /\ "job" \notin work
      <4>1. CASE Past(5)
        BY <4>1, <3>1, <1>0 DEF StepsAreDone
      <4>2. CASE at = StopAt(5)
        BY <4>2, <3>1, <2>1, StopsAt
      <4> QED BY <4>1, <4>2, <2>3
    <3> QED BY <3>2, <3>3, <3>4, <3>5, <2>1 DEF NoRequests
  <2>7. LifeTypes'
    BY <2>1, <1>0 DEF LifeTypes
  <2> QED BY <2>1, <2>5, <2>6, <2>7, <1>0 DEF LifeInv, NoRequests, Ending
<1>3. CASE StopDone
  <2>1. /\ at > Len(StopSteps) /\ phase' = IF phase = "failing" THEN "failed" ELSE "exited"
        /\ UNCHANGED <<settings, at, held, work, bootCtx, deadline, haRole, strays>>
    BY <1>3 DEF StopDone
  <2>2. phase = "stopping" /\ deadline = "running" => "read" \notin work
    <3> SUFFICES ASSUME phase = "stopping", deadline = "running" PROVE "read" \notin work
      OBVIOUS
    <3>1. Past(0) /\ InTime
      BY <2>1, <1>l, <1>0 DEF Past, StopAt, InTime, Expired, LifeTypes
    <3> QED BY <3>1, <1>0 DEF StepsAreDone, NoRequests
  <2>3. phase = "failing" => NoRequests'
    BY <2>1 DEF LifeInv, NoRequests
  <2> QED BY <2>1, <2>2, <2>3, <1>0 DEF LifeInv, LifeTypes, StoreIsOpen, StepsAreDone, Ending, InTime
<1> QED BY <1>1, <1>2, <1>3 DEF StopMoves

LEMMA LifeStep ==
  ASSUME LifeInv, [LifeNext]_lifeVars
  PROVE  LifeInv'
<1>1. CASE UNCHANGED lifeVars
  BY <1>1 DEF lifeVars, LifeInv, LifeTypes, NoRequests, StoreIsOpen, StepsAreDone, Ending, InTime, Expired, Past, StopAt
<1> QED BY <1>1, BootMoves, OtherMoves, WorkBegins, WorkEnds, StopMovesOn DEF LifeNext

--------------------------------------------------------------------------------
(* What follows from it. *)

LEMMA InvDrains == LifeInv => DrainedBeforeClose
<1> SUFFICES ASSUME LifeInv, InTime, "store" \notin held PROVE work \subseteq {"scan", "insight"}
  BY DEF DrainedBeforeClose, InTime, Ending
<1>1. Past(6) /\ at \in Nat
  BY DEF LifeInv, StoreIsOpen, InTime, LifeTypes
<1>2. Past(0) /\ Past(1) /\ Past(2) /\ Past(5)
  BY <1>1 DEF Past, StopAt
<1>3. NoRequests
  BY <1>2 DEF LifeInv, StepsAreDone
<1>4. "event" \notin work /\ "delivery" \notin work /\ "job" \notin work
  BY <1>2 DEF LifeInv, StepsAreDone
<1> QED BY <1>3, <1>4 DEF LifeInv, LifeTypes, NoRequests, Kinds

LEMMA InvAnswers == LifeInv => HealthIsHonest
<1> SUFFICES ASSUME LifeInv, "read" \in work, deadline # "over" PROVE Health.status = "ok"
  BY DEF HealthIsHonest
<1>0. deadline = "running" /\ at \in Nat
  BY DEF LifeInv, LifeTypes
<1>1. phase \in {"serving", "stopping"}
  BY <1>0 DEF LifeInv, LifeTypes, NoRequests
<1>2. phase = "stopping" => ~Past(0)
  BY <1>0 DEF LifeInv, StepsAreDone, InTime, Ending, Expired, NoRequests
<1>3. ~Past(0) => ~Past(6)
  BY <1>0 DEF Past, StopAt
<1>4. "store" \in held
  BY <1>1, <1>2, <1>3 DEF LifeInv, StoreIsOpen, Ending
<1> QED BY <1>1, <1>4 DEF Health

\* However a flag is decided, for any flag with or without a default of its own.
LEMMA DecidedAs ==
  ASSUME NEW kind \in {"alone", "text", "parsed", "default", "atDefault", "first"}, NEW preset \in BOOLEAN,
         NEW given \in {"no", "default", "other"}, NEW env \in {"unset", "good", "garbage"}
  PROVE  LET r == Decided(kind, preset, given, env)
         IN /\ given = "other" /\ r # "flag" => kind = "first" /\ env # "unset"
            /\ given = "no" /\ env = "good" /\ r # "env" => kind = "alone" \/ preset
            /\ env = "unset" => r # "env"
            /\ env = "garbage" /\ r = "env" => kind \in {"text", "default"}
<1>1. CASE kind = "alone"
  BY <1>1 DEF Decided, Given
<1>2. CASE kind = "text"
  BY <1>2 DEF Decided, Given
<1>3. CASE kind = "parsed"
  BY <1>3 DEF Decided, Given
<1>4. CASE kind = "default"
  BY <1>4 DEF Decided, Given
<1>5. CASE kind = "atDefault"
  BY <1>5 DEF Decided, Given
<1>6. CASE kind = "first"
  BY <1>6 DEF Decided, Given
<1> QED BY <1>1, <1>2, <1>3, <1>4, <1>5, <1>6

LEMMA FlagsAreDecided == EveryFlagIsDecided
<1>1. DOMAIN Flags = {"alone", "text", "parsed", "default", "atDefault", "first"}
  BY DEF Flags
<1>2. \A f : (f \in Preset) \in BOOLEAN
  OBVIOUS
<1> SUFFICES ASSUME NEW kind \in DOMAIN Flags, NEW f \in Flags[kind], NEW given \in {"no", "default", "other"},
                    NEW env \in {"unset", "good", "garbage"}
             PROVE  LET r == Decided(kind, f \in Preset, given, env)
                    IN /\ given = "other" /\ r # "flag" => kind = "first" /\ env # "unset"
                       /\ given = "no" /\ env = "good" /\ r # "env" => kind = "alone" \/ f \in Preset
                       /\ env = "unset" => r # "env"
                       /\ env = "garbage" /\ r = "env" => kind \in {"text", "default"}
  BY DEF EveryFlagIsDecided
<1> DEFINE p == f \in Preset
<1>3. p \in BOOLEAN /\ kind \in {"alone", "text", "parsed", "default", "atDefault", "first"}
  BY <1>1
<1> HIDE DEF p
<1>4. LET r == Decided(kind, p, given, env)
      IN /\ given = "other" /\ r # "flag" => kind = "first" /\ env # "unset"
         /\ given = "no" /\ env = "good" /\ r # "env" => kind = "alone" \/ p
         /\ env = "unset" => r # "env"
         /\ env = "garbage" /\ r = "env" => kind \in {"text", "default"}
  BY <1>3, DecidedAs
<1> QED BY <1>4 DEF p

LEMMA StartsAsAsked == ServerIsAsConfigured
<1>1. \A a \in Adapters :
         /\ a.keystore = "tpm" => BuildKeystore(a) # "file"
         /\ a.llm # "" => BuildLLM(a) # "noop"
         /\ a.email = "smtp" => BuildEmail(a) # "noop"
         /\ a.otel => BuildOtel(a) # "noop"
  BY Zenon DEF Adapters, BuildKeystore, BuildLLM, BuildEmail, BuildOtel, Refused
<1>2. \A c \in Setups : Boots(c) =>
         /\ c.ha \/ (c.autoSetup /\ c.replication # "off") => OnPostgres(c)
         /\ (c.cleanup /\ ~HasCleanup(c)) \/ (c.lag /\ ~HasLag(c)) => ~(c.replication = "primary" /\ OnPostgres(c))
  BY Zenon DEF Boots, OnPostgres, BuildsHA, SetsUpReplication, HasCleanup, HasLag
<1> QED BY <1>1, <1>2, Zenon DEF ServerIsAsConfigured

\* Whatever work is under way, hangs or begins in between, whichever step of the start
\* fails: as long as the deadline is not over the database is closed after the last job,
\* delivery, event and request (bootstrap.go, Platform.Shutdown), a request that is
\* still answered hears of a database that answers (healthHandler), and flags,
\* environment and adapters are decided as documented.
THEOREM StopIsSafe ==
  LifeInit /\ [][LifeNext]_lifeVars =>
     [](DrainedBeforeClose /\ HealthIsHonest /\ EveryFlagIsDecided /\ ServerIsAsConfigured)
<1>1. LifeInit => LifeInv
  BY LifeBegins
<1>2. LifeInv /\ [LifeNext]_lifeVars => LifeInv'
  BY LifeStep
<1>3. LifeInv => DrainedBeforeClose /\ HealthIsHonest /\ EveryFlagIsDecided /\ ServerIsAsConfigured
  BY InvDrains, InvAnswers, FlagsAreDecided, StartsAsAsked
<1> QED BY <1>1, <1>2, <1>3, PTL
================================================================================
