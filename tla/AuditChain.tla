------------------------------- MODULE AuditChain -------------------------------
(***************************************************************************)
(* The audit chain of internal/domain/audit on PostgreSQL with leader      *)
(* election on: transactions of several instances append to one hash chain *)
(* per tenant at READ COMMITTED, nothing but the primary key of            *)
(* audit_entries between them, while the instances start, crash, win and   *)
(* lose the lock.                                                          *)
(*                                                                         *)
(* A hash is the sequence of the contents it stands for, so that two are   *)
(* equal exactly when the chains under them are.                           *)
(***************************************************************************)
EXTENDS Leadership, Sequences, FiniteSets

CONSTANTS
    Tenants, SystemTenant,  \* SystemTenant: whose chain the server itself writes to
    Txs,                    \* transactions that may be open at a time
    NoTenant,
    MaxSeq                  \* bound: entries of a chain

ASSUME AuditAssumption ==
    /\ SystemTenant \in Tenants
    /\ NoTenant \notin Tenants
    /\ MaxSeq \in Nat

VARIABLES
    boot,           \* boot[n]: how far bootstrap has come
    transition,     \* transition[n]: Repo.transitionSeq of the process
    tx,
    \* the database
    rows,           \* rows[t]: table audit_entries
    head,           \* head[t]: table audit_chain_heads
    checkpoints     \* checkpoints[t]: table audit_checkpoints

procVars == <<boot, transition>>
tables == <<rows, head, checkpoints>>
vars == <<leadVars, procVars, tx, tables>>

Zero == <<>>
Genesis == [seq |-> 0, hash |-> Zero]

NoTx == [at |-> "none", kind |-> "none", node |-> NoNode, tenant |-> NoTenant,
         epoch |-> 0, head |-> Genesis, rows |-> {}, own |-> Genesis]

Init ==
    /\ LeadInit
    /\ boot = [n \in Nodes |-> "down"]
    /\ transition = [n \in Nodes |-> 0]
    /\ tx = [x \in Txs |-> NoTx]
    /\ rows = [t \in Tenants |-> {}]
    /\ head = [t \in Tenants |-> Genesis]
    /\ checkpoints = [t \in Tenants |-> {}]

Seqs(R) == {e.seq : e \in R}

--------------------------------------------------------------------------------
(* Append. *)

\* The role provider is set at the end of bootstrap; until then nothing is gated.
Gate(x, n, t, kind) ==
    /\ tx[x].at = "none"
    /\ boot[n] = "up" /\ role[n] = "leader"
    /\ tx' = [tx EXCEPT ![x] = [NoTx EXCEPT !.at = IF kind = "entry" THEN "epoch" ELSE "head",
                                            !.kind = kind, !.node = n, !.tenant = t]]
    /\ UNCHANGED <<leadVars, procVars, tables>>

\* Another entry in the same transaction passes the gate again.
GateAgain(x) ==
    /\ tx[x].at = "open" /\ tx[x].kind = "entry"
    /\ role[tx[x].node] = "leader"
    /\ tx' = [tx EXCEPT ![x].at = "epoch"]
    /\ UNCHANGED <<leadVars, procVars, tables>>

\* CurrentEpoch is read after IsLeader: the role may be gone by then.
ReadEpoch(x) ==
    /\ tx[x].at = "epoch"
    /\ tx' = [tx EXCEPT ![x].epoch = epoch[tx[x].node], ![x].at = "head"]
    /\ UNCHANGED <<leadVars, procVars, tables>>

\* What the transaction sees as the head: what it wrote itself, or the committed one.
HeadOf(x) == IF tx[x].rows = {} THEN head[tx[x].tenant] ELSE tx[x].own

ReadHead(x) ==
    /\ tx[x].at = "head"
    /\ tx' = [tx EXCEPT ![x].head = HeadOf(x),
                        ![x].at = IF tx[x].kind = "checkpoint" THEN "sign" ELSE "insert"]
    /\ UNCHANGED <<leadVars, procVars, tables>>

\* The versions differ in the epochs they cover; a server always has a key epoch.
HashVersion(n, s) == IF transition[n] > 0 /\ s > transition[n] THEN 3 ELSE 1

Hash(prev, content) == Append(prev, content)

NewEntry(x) ==
    LET t == tx[x]
        s == t.head.seq + 1
        content == [by |-> t.node, kind |-> t.kind, version |-> HashVersion(t.node, s)]
    IN  [seq |-> s, prev |-> t.head.hash, hash |-> Hash(t.head.hash, content),
         content |-> content, epoch |-> t.epoch]

\* An insert waits for the transaction that has inserted the same key.
Waits(x) == \E y \in Txs \ {x} : /\ tx[y].tenant = tx[x].tenant
                                 /\ NewEntry(x).seq \in Seqs(tx[y].rows)

KeyTaken_Never(x) == FALSE
KeyTaken(x) == NewEntry(x).seq \in Seqs(rows[tx[x].tenant])

\* insertEntry and upsertHead: whoever has inserted the entry is alone with the head.
Insert(x) ==
    /\ tx[x].at = "insert"
    /\ NewEntry(x).seq <= MaxSeq
    /\ ~Waits(x) /\ ~KeyTaken(x)
    /\ tx' = [tx EXCEPT ![x].rows = @ \cup {NewEntry(x)},
                        ![x].own = [seq |-> NewEntry(x).seq, hash |-> NewEntry(x).hash],
                        ![x].at = "open", ![x].head = Genesis, ![x].epoch = 0]
    /\ transition' = IF tx[x].kind = "marker"
                     THEN [transition EXCEPT ![tx[x].node] = NewEntry(x).seq] ELSE transition
    /\ UNCHANGED <<leadVars, boot, tables>>

Commit(x) ==
    LET t == tx[x].tenant IN
    /\ tx[x].at = "open"
    /\ rows' = [rows EXCEPT ![t] = @ \cup tx[x].rows]
    /\ head' = [head EXCEPT ![t] = tx[x].own]
    /\ tx' = [tx EXCEPT ![x] = NoTx]
    /\ UNCHANGED <<leadVars, procVars, checkpoints>>

\* An error anywhere in the transaction, ErrNotLeader and a taken key among them.
\* Only a process that cannot append its marker does not survive it.
Rollback(x) ==
    LET n == tx[x].node IN
    /\ tx[x].at # "none"
    /\ tx' = [tx EXCEPT ![x] = NoTx]
    /\ \/ tx[x].kind # "marker" /\ UNCHANGED procVars
       \/ /\ tx[x].kind = "marker"
          /\ boot' = [boot EXCEPT ![n] = "down"]
          /\ transition' = [transition EXCEPT ![n] = 0]
    /\ UNCHANGED <<leadVars, tables>>

--------------------------------------------------------------------------------
(* WriteCheckpoint. *)

SignedHead_Reread(x) == [seq |-> tx[x].head.seq, hash |-> head[tx[x].tenant].hash]
SignedHead(x) == tx[x].head

\* Nothing else is in the transaction: the insert is its commit.
WriteCheckpoint(x) ==
    LET t == tx[x].tenant IN
    /\ tx[x].at = "sign"
    /\ tx[x].head.seq > 0
    /\ tx[x].head.seq \notin Seqs(checkpoints[t])
    /\ checkpoints' = [checkpoints EXCEPT ![t] = @ \cup {SignedHead(x)}]
    /\ tx' = [tx EXCEPT ![x] = NoTx]
    /\ UNCHANGED <<leadVars, procVars, rows, head>>

--------------------------------------------------------------------------------
(* Bootstrap: built-in packs are seeded, then the marker of the new hash version *)
(* is found or appended, then the gate is closed and the Manager started.        *)

Booting(n) == boot[n] = "booting" /\ transition[n] = 0 /\ \A x \in Txs : tx[x].node # n

BootTx(x, n, kind) ==
    /\ tx[x].at = "none"
    /\ Booting(n)
    /\ tx' = [tx EXCEPT ![x] = [NoTx EXCEPT !.at = "head", !.kind = kind, !.node = n,
                                            !.tenant = SystemTenant]]
    /\ UNCHANGED <<leadVars, procVars, tables>>

StartProcess(n) ==
    /\ boot[n] = "down"
    /\ boot' = [boot EXCEPT ![n] = "booting"]
    /\ UNCHANGED <<leadVars, transition, tx, tables>>

\* A built-in pack is not installed: the release brings it, or seeding failed before.
SeedPack(x, n) == BootTx(x, n, "seed")

Markers == Seqs({e \in rows[SystemTenant] : e.content.kind = "marker"})

FindMarker(n) ==
    /\ Booting(n)
    /\ \E s \in Markers : /\ \A r \in Markers : s <= r
                          /\ transition' = [transition EXCEPT ![n] = s]
    /\ UNCHANGED <<leadVars, boot, tx, tables>>

AppendMarker(x, n) == Markers = {} /\ BootTx(x, n, "marker")

\* SetRoleProvider and Start.
StartHA(n) ==
    /\ boot[n] = "booting" /\ transition[n] > 0
    /\ \A x \in Txs : tx[x].node # n
    /\ boot' = [boot EXCEPT ![n] = "up"]
    /\ StartManager(n)
    /\ UNCHANGED <<transition, tx, tables>>

\* A crash, or the end of a shutdown that has stopped the Manager.
EndProcess(n) ==
    /\ boot[n] # "down"
    /\ IF mgr[n] = "stopped" THEN UNCHANGED faults
       ELSE faults < MaxFaults /\ faults' = faults + 1
    /\ LoseManager(n)
    /\ boot' = [boot EXCEPT ![n] = "down"]
    /\ transition' = [transition EXCEPT ![n] = 0]
    /\ tx' = [x \in Txs |-> IF tx[x].node = n THEN NoTx ELSE tx[x]]
    /\ UNCHANGED tables

Elect(n) == LeadStep(n) /\ UNCHANGED <<procVars, tx, tables>>

--------------------------------------------------------------------------------
TxStep(x) ==
    \/ \E n \in Nodes, t \in Tenants, kind \in {"entry", "checkpoint"} : Gate(x, n, t, kind)
    \/ GateAgain(x) \/ ReadEpoch(x) \/ ReadHead(x) \/ Insert(x)
    \/ Commit(x) \/ Rollback(x) \/ WriteCheckpoint(x)
    \/ \E n \in Nodes : SeedPack(x, n) \/ AppendMarker(x, n)

ProcessStep(n) == StartProcess(n) \/ FindMarker(n) \/ StartHA(n)
                  \/ EndProcess(n) \/ Elect(n)

Next == (\E x \in Txs : TxStep(x)) \/ (\E n \in Nodes : ProcessStep(n))

Spec == Init /\ [][Next]_vars

--------------------------------------------------------------------------------
(* Properties. *)

TxAts == {"none", "epoch", "head", "insert", "open", "sign"}
TxKinds == {"none", "entry", "checkpoint", "seed", "marker"}
Contents == [by : Nodes, kind : {"entry", "seed", "marker"}, version : {1, 3}]
Heads == [seq : 0..MaxSeq, hash : Seq(Contents)]
Rows == [seq : 1..MaxSeq, prev : Seq(Contents), hash : Seq(Contents),
         content : Contents, epoch : 0..MaxEpoch]

Transactions ==
    [at : TxAts, kind : TxKinds, node : Nodes \cup {NoNode}, tenant : Tenants \cup {NoTenant},
     epoch : 0..MaxEpoch, head : Heads, rows : SUBSET Rows, own : Heads]

TypeOK ==
    /\ LeadTypeOK
    /\ boot \in [Nodes -> {"down", "booting", "up"}]
    /\ transition \in [Nodes -> 0..MaxSeq]
    /\ tx \in [Txs -> Transactions]
    /\ rows \in [Tenants -> SUBSET Rows]
    /\ head \in [Tenants -> Heads]
    /\ checkpoints \in [Tenants -> SUBSET Heads]

\* R is a chain from the genesis to h: no entry is missing, none is there twice,
\* each carries the hash of the one before.
Intact(R, h) ==
    /\ Seqs(R) = 1..h.seq
    /\ h.seq = 0 => h.hash = Zero
    /\ \A e \in R : e.hash = Hash(e.prev, e.content)
    /\ \A e \in R : e.seq = 1 => e.prev = Zero
    /\ \A e \in R : e.seq = h.seq => e.hash = h.hash
    /\ \A e, f \in R : e.seq = f.seq => e = f
    /\ \A e, f \in R : f.seq = e.seq + 1 => f.prev = e.hash

\* Verify finds every committed chain unbroken whatever appends raced, died or
\* ran on an instance that had lost its lock: readHead takes no lock, and what
\* it read may be old when the entry is inserted.
ChainIntact == \A t \in Tenants : Intact(rows[t], head[t])

\* A checkpoint is signed over a head read earlier: that head stays a committed
\* entry, with the hash that was signed.
CheckpointsHold ==
    \A t \in Tenants : \A c \in checkpoints[t] :
        \E e \in rows[t] : e.seq = c.seq /\ e.hash = c.hash

\* An entry's leader_epoch is absent or one that was issued to the instance that
\* wrote it, although role and epoch are read in two steps and may change between.
EpochNamesWriter ==
    \A t \in Tenants : \A e \in rows[t] :
        e.epoch > 0 => leaders[e.epoch] = e.content.by

Log == INSTANCE AuditLog WITH log <- [t \in Tenants |-> head[t].hash]

\* The chain of each tenant implements a log that only grows at its end.
AppendOnly == Log!LogSpec

\* Epochs do not decrease along a chain (e25-ha-design.md): an instance that has
\* lost its lock and does not know it yet appends nothing after its successor.
EpochsGrow ==
    \A t \in Tenants : \A e, f \in rows[t] :
        e.seq < f.seq /\ e.epoch > 0 /\ f.epoch > 0 => e.epoch <= f.epoch

\* Verify recomputes the hash with the version that the seq of the entry and the
\* cached seq of the marker select: every server that is up finds the chain of its
\* own tenant as it was written.
VerifyClean ==
    \A n \in Nodes : boot[n] = "up" =>
        \A e \in rows[SystemTenant] : e.content.version = HashVersion(n, e.seq)
================================================================================
