------------------------------ MODULE Leadership ------------------------------
(***************************************************************************)
(* Leader election of internal/platform/ha: the Manager of each instance   *)
(* polls a PostgreSQL advisory lock that lives as long as the session that *)
(* took it, is issued an epoch, and turns leader or follower.              *)
(*                                                                         *)
(* An instance learns that its session is gone at its next heartbeat, and  *)
(* the server learns that a session is gone in its own time, so either may *)
(* come first.  A tick of the Manager is several steps: appends read role  *)
(* and epoch between any two of them.                                      *)
(***************************************************************************)
EXTENDS Naturals

CONSTANTS
    Nodes, NoNode,
    MaxEpoch,       \* bound: elections
    MaxFaults       \* bound: sessions lost, statements that fail

ASSUME LeadershipAssumption ==
    /\ NoNode \notin Nodes
    /\ MaxEpoch \in Nat
    /\ MaxFaults \in Nat

VARIABLES
    role,       \* Manager.role
    epoch,      \* Manager.epoch
    mgr,        \* mgr[n]: where the goroutine of the Manager stands
    token,      \* token[n]: the epoch TryAcquire is about to return
    conn,       \* conn[n]: PGLock.conn, and whether its session still answers
    \* the database
    holder,     \* the instance whose session holds the advisory lock
    lastEpoch,  \* sequence leader_epoch_seq
    leaders,    \* table leader_epoch: whom each epoch was issued to (its mark
                \* current is written and never read, and left out)
    \* counter that bounds the model
    faults

nodeVars == <<role, epoch, mgr, token, conn>>
lockVars == <<holder, lastEpoch, leaders>>
leadVars == <<nodeVars, lockVars, faults>>

LeadInit ==
    /\ role = [n \in Nodes |-> "follower"]
    /\ epoch = [n \in Nodes |-> 0]
    /\ mgr = [n \in Nodes |-> "down"]
    /\ token = [n \in Nodes |-> 0]
    /\ conn = [n \in Nodes |-> "none"]
    /\ holder = NoNode
    /\ lastEpoch = 0
    /\ leaders = [e \in 1..MaxEpoch |-> NoNode]
    /\ faults = 0

Goto(n, at) == mgr' = [mgr EXCEPT ![n] = at]

--------------------------------------------------------------------------------
(* tick of a follower: TryAcquire, then promote. *)

StartManager(n) ==
    /\ mgr[n] = "down"
    /\ Goto(n, "idle")
    /\ UNCHANGED <<role, epoch, token, conn, lockVars, faults>>

LockFree_Always == TRUE
LockFree == holder = NoNode

\* pg_try_advisory_lock; a follower that does not get it changes nothing.
TryLock(n) ==
    /\ mgr[n] = "idle" /\ role[n] = "follower"
    /\ LockFree
    /\ lastEpoch < MaxEpoch
    /\ holder' = n
    /\ conn' = [conn EXCEPT ![n] = "ok"]
    /\ Goto(n, "locked")
    /\ UNCHANGED <<role, epoch, token, lastEpoch, leaders, faults>>

NextEpoch_Currval == IF lastEpoch = 0 THEN 1 ELSE lastEpoch

NextEpoch == lastEpoch + 1

\* nextval('leader_epoch_seq').
IssueEpoch(n) ==
    /\ mgr[n] = "locked" /\ conn[n] = "ok"
    /\ token' = [token EXCEPT ![n] = NextEpoch]
    /\ lastEpoch' = NextEpoch
    /\ Goto(n, "mark")
    /\ UNCHANGED <<role, epoch, conn, holder, leaders, faults>>

\* markCurrentEpoch: the row of the new epoch is inserted.
MarkEpoch(n) ==
    /\ mgr[n] = "mark" /\ conn[n] = "ok"
    /\ leaders' = [leaders EXCEPT ![token[n]] = n]
    /\ Goto(n, "promote")
    /\ UNCHANGED <<role, epoch, token, conn, holder, lastEpoch, faults>>

\* Either statement fails: unlock, which a session that is gone cannot do.
GiveUp(n) ==
    /\ mgr[n] \in {"locked", "mark"}
    /\ \/ conn[n] = "broken" /\ UNCHANGED <<holder, faults>>
       \/ conn[n] = "ok" /\ holder' = NoNode /\ faults < MaxFaults /\ faults' = faults + 1
    /\ conn' = [conn EXCEPT ![n] = "none"]
    /\ token' = [token EXCEPT ![n] = 0]
    /\ Goto(n, "idle")
    /\ UNCHANGED <<role, epoch, lastEpoch, leaders>>

StoreEpoch_RoleFirst(n) ==
    /\ mgr[n] = "promote"
    /\ role' = [role EXCEPT ![n] = "leader"]
    /\ Goto(n, "lead")
    /\ UNCHANGED <<epoch, token, conn, lockVars, faults>>

StoreEpoch(n) ==
    /\ mgr[n] = "promote"
    /\ epoch' = [epoch EXCEPT ![n] = token[n]]
    /\ token' = [token EXCEPT ![n] = 0]
    /\ Goto(n, "lead")
    /\ UNCHANGED <<role, conn, lockVars, faults>>

StoreRole(n) ==
    /\ mgr[n] = "lead"
    /\ role' = [role EXCEPT ![n] = "leader"]
    /\ Goto(n, "idle")
    /\ UNCHANGED <<epoch, token, conn, lockVars, faults>>

--------------------------------------------------------------------------------
(* tick of a leader: Heartbeat, and demote when it fails. *)

HeartbeatFails(n) == conn[n] = "broken"

Demote(n) ==
    /\ mgr[n] = "idle" /\ role[n] = "leader"
    /\ HeartbeatFails(n)
    /\ role' = [role EXCEPT ![n] = "follower"]
    /\ Goto(n, "demote")
    /\ UNCHANGED <<epoch, token, conn, lockVars, faults>>

\* Release of a session that does not answer only drops the connection.
ClearEpoch(n) ==
    /\ mgr[n] = "demote"
    /\ epoch' = [epoch EXCEPT ![n] = 0]
    /\ conn' = [conn EXCEPT ![n] = "none"]
    /\ Goto(n, "idle")
    /\ UNCHANGED <<role, token, lockVars, faults>>

--------------------------------------------------------------------------------
(* Stop: the goroutine ends, the lock is released, role and epoch stay. *)

Stop(n) ==
    /\ mgr[n] = "idle"
    /\ Goto(n, "stopping")
    /\ UNCHANGED <<role, epoch, token, conn, lockVars, faults>>

Unlock(n) ==
    /\ mgr[n] = "stopping"
    /\ conn' = [conn EXCEPT ![n] = "none"]
    /\ holder' = IF conn[n] = "ok" THEN NoNode ELSE holder
    /\ Goto(n, "stopped")
    /\ UNCHANGED <<role, epoch, token, lastEpoch, leaders, faults>>

--------------------------------------------------------------------------------
(* The environment. *)

LoseSession(n) ==
    /\ conn[n] = "ok"
    /\ faults < MaxFaults
    /\ faults' = faults + 1
    /\ conn' = [conn EXCEPT ![n] = "broken"]
    /\ UNCHANGED <<role, epoch, mgr, token, lockVars>>

\* The server ends a session nobody is at the other end of, and its lock with it.
EndSession(n) ==
    /\ holder = n /\ conn[n] # "ok"
    /\ holder' = NoNode
    /\ UNCHANGED <<nodeVars, lastEpoch, leaders, faults>>

\* The process is gone, its memory with it; the server has yet to notice.
LoseManager(n) ==
    /\ mgr' = [mgr EXCEPT ![n] = "down"]
    /\ role' = [role EXCEPT ![n] = "follower"]
    /\ epoch' = [epoch EXCEPT ![n] = 0]
    /\ token' = [token EXCEPT ![n] = 0]
    /\ conn' = [conn EXCEPT ![n] = "none"]
    /\ UNCHANGED lockVars

--------------------------------------------------------------------------------
Tick(n) == \/ TryLock(n) \/ IssueEpoch(n) \/ MarkEpoch(n) \/ GiveUp(n)
           \/ StoreEpoch(n) \/ StoreRole(n) \/ Demote(n) \/ ClearEpoch(n)

LeadStep(n) == Tick(n) \/ Stop(n) \/ Unlock(n) \/ LoseSession(n) \/ EndSession(n)

--------------------------------------------------------------------------------
(* Properties. *)

MgrPCs == {"down", "idle", "locked", "mark", "promote", "lead", "demote", "stopping", "stopped"}

LeadTypeOK ==
    /\ role \in [Nodes -> {"leader", "follower"}]
    /\ epoch \in [Nodes -> 0..MaxEpoch]
    /\ mgr \in [Nodes -> MgrPCs]
    /\ token \in [Nodes -> 0..MaxEpoch]
    /\ conn \in [Nodes -> {"none", "ok", "broken"}]
    /\ holder \in Nodes \cup {NoNode}
    /\ lastEpoch \in 0..MaxEpoch
    /\ leaders \in [1..MaxEpoch -> Nodes \cup {NoNode}]
    /\ faults \in 0..MaxFaults

\* An instance that says it is leader holds an epoch that table leader_epoch has
\* issued to it, whatever it lost since: promote stores the epoch before the role
\* and demote drops the role before the epoch.
LeaderHasEpoch ==
    \A n \in Nodes : role[n] = "leader" => epoch[n] > 0 /\ leaders[epoch[n]] = n

\* Several instances may believe they lead, but an instance whose session is
\* alive and holds the lock has an epoch above all others: the older beliefs are
\* recognisably stale, which is what a fence token is for.
LawfulLeaderIsNewest ==
    \A n, m \in Nodes :
        n # m /\ role[n] = "leader" /\ conn[n] = "ok" => epoch[m] < epoch[n]

\* Beliefs about leadership are ordered: a leader holds an epoch issued to it, and
\* the one that holds the lock is the newest.
LeadershipIsSound ==
    /\ LeaderHasEpoch
    /\ LawfulLeaderIsNewest
================================================================================
