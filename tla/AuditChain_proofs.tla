---------------------------- MODULE AuditChain_proofs ----------------------------
(***************************************************************************)
(* What holds of AuditChain for any number of instances, transactions and  *)
(* tenants: the leadership invariant, and with it the one of the chain.    *)
(***************************************************************************)
EXTENDS AuditChain, SequenceTheorems, TLAPS

--------------------------------------------------------------------------------
(* Leadership. *)

Waiting == {"locked", "mark", "promote", "lead"}

\* At most one session that answers holds the lock, and only it draws and records
\* epochs: none is issued twice, none recorded twice.
LockInv ==
    /\ \A n \in Nodes : conn[n] = "ok" => holder = n
    /\ \A n \in Nodes : conn[n] = "ok" /\ mgr[n] = "locked" => lastEpoch < MaxEpoch
    /\ \A n \in Nodes : mgr[n] = "down" => role[n] = "follower"
    /\ \A n \in Nodes : mgr[n] \in {"down", "idle"} /\ role[n] = "follower" => conn[n] = "none"
    /\ \A n \in Nodes : role[n] = "leader" => mgr[n] \in {"idle", "stopping", "stopped"}

EpochInv ==
    /\ \A e \in 1..MaxEpoch : leaders[e] # NoNode => e <= lastEpoch
    /\ \A n \in Nodes : mgr[n] = "mark" => token[n] > 0
    /\ \A n \in Nodes : mgr[n] = "mark" /\ conn[n] = "ok" =>
           token[n] = lastEpoch /\ leaders[token[n]] = NoNode
    /\ \A n \in Nodes : mgr[n] = "promote" => token[n] > 0 /\ leaders[token[n]] = n
    /\ \A n \in Nodes : epoch[n] > 0 => leaders[epoch[n]] = n
    /\ \A n \in Nodes : role[n] = "leader" \/ mgr[n] = "lead" => epoch[n] > 0
    /\ \A n \in Nodes : conn[n] = "ok" /\ mgr[n] = "promote" => token[n] = lastEpoch
    /\ \A n \in Nodes : conn[n] = "ok" /\ (mgr[n] = "lead" \/ role[n] = "leader") =>
           epoch[n] = lastEpoch

LeadInv == LeadTypeOK /\ LockInv /\ EpochInv

--------------------------------------------------------------------------------
(* The chain. *)

\* What an open transaction has inserted continues the committed chain, and is
\* the only thing that does.
TxInv ==
    /\ \A x \in Txs : tx[x].at # "none" => tx[x].node \in Nodes /\ tx[x].tenant \in Tenants
    /\ \A x \in Txs : tx[x].kind \in {"none", "checkpoint"} => tx[x].rows = {}
    /\ \A x \in Txs : tx[x].at \in {"none", "sign"} => tx[x].rows = {}
    /\ \A x \in Txs : tx[x].at = "open" => tx[x].rows # {}
    /\ \A x \in Txs : tx[x].at # "none" => tx[x].kind # "none"
    /\ \A x \in Txs : tx[x].at \in {"epoch", "insert", "open"} => tx[x].kind # "checkpoint"
    /\ \A x, y \in Txs : tx[x].tenant = tx[y].tenant /\ tx[x].rows # {} /\ tx[y].rows # {} => x = y

Fresh(x) ==
    LET c == head[tx[x].tenant] IN
    IF tx[x].rows = {} THEN /\ tx[x].head.seq <= c.seq
                            /\ tx[x].head.seq = c.seq => tx[x].head = c
                       ELSE tx[x].head = tx[x].own

Pending(x) ==
    LET t == tx[x].tenant IN
    /\ Intact(rows[t] \cup tx[x].rows, tx[x].own)
    /\ \A e \in tx[x].rows : e.seq > head[t].seq
    /\ Log!IsStrictPrefix(head[t].hash, tx[x].own.hash)

\* The head a checkpoint is signed over is a committed entry.
Signable(x) ==
    tx[x].head.seq > 0 =>
        \E e \in rows[tx[x].tenant] : e.seq = tx[x].head.seq /\ e.hash = tx[x].head.hash

ChainInv ==
    /\ ChainIntact
    /\ \A x \in Txs : tx[x].at = "insert" => Fresh(x)
    /\ \A x \in Txs : tx[x].rows # {} => Pending(x)
    /\ \A x \in Txs : tx[x].at = "sign" => Signable(x)
    /\ CheckpointsHold

\* Epochs on their way into the chain and in it.
WriterInv ==
    /\ \A x \in Txs : tx[x].epoch > 0 => tx[x].node \in Nodes /\ leaders[tx[x].epoch] = tx[x].node
    /\ \A x \in Txs : \A e \in tx[x].rows : e.epoch > 0 => leaders[e.epoch] = e.content.by
    /\ EpochNamesWriter

IInv == TypeOK /\ LeadInv /\ TxInv /\ ChainInv /\ WriterInv

--------------------------------------------------------------------------------
(* The leadership invariant is inductive. *)

LEMMA LeadInitInv == LeadInit => LeadInv
  BY LeadershipAssumption DEF LeadInit, LeadInv, LeadTypeOK, LockInv, EpochInv, MgrPCs

LEMMA TryLockInv ==
    ASSUME LeadInv, NEW n \in Nodes, TryLock(n)
    PROVE  LeadInv'
<1> USE LeadershipAssumption DEF LeadInv, TryLock, LockFree, Goto, nodeVars, lockVars
<1>1. LeadTypeOK'  BY DEF LeadTypeOK, MgrPCs, LockInv, EpochInv
<1>2. LockInv'     BY DEF LeadTypeOK, LockInv
<1>3. EpochInv'    BY <1>1 DEF LeadTypeOK, LockInv, EpochInv
<1> QED  BY <1>1, <1>2, <1>3

LEMMA IssueEpochInv ==
    ASSUME LeadInv, NEW n \in Nodes, IssueEpoch(n)
    PROVE  LeadInv'
<1> USE LeadershipAssumption DEF LeadInv, IssueEpoch, NextEpoch, Goto, nodeVars, lockVars
<1>0. /\ lastEpoch < MaxEpoch /\ lastEpoch \in Nat
      /\ \A m \in Nodes \ {n} : conn[m] # "ok"
  BY DEF LeadTypeOK, LockInv
<1>1. LeadTypeOK'  BY DEF LeadTypeOK, MgrPCs, LockInv, EpochInv
<1>2. LockInv'     BY DEF LeadTypeOK, LockInv
<1>3. EpochInv'
  <2>1. (\A e \in 1..MaxEpoch : leaders[e] # NoNode => e <= lastEpoch)'
    BY <1>0, <1>1 DEF LeadTypeOK, LockInv, EpochInv
  <2>2. (\A m \in Nodes : mgr[m] = "mark" => token[m] > 0)'
    BY <1>0, <1>1 DEF LeadTypeOK, LockInv, EpochInv
  <2>3. (\A m \in Nodes : mgr[m] = "mark" /\ conn[m] = "ok" =>
         token[m] = lastEpoch /\ leaders[token[m]] = NoNode)'
    BY <1>0, <1>1 DEF LeadTypeOK, LockInv, EpochInv
  <2>4. (\A m \in Nodes : mgr[m] = "promote" => token[m] > 0 /\ leaders[token[m]] = m)'
    BY <1>0, <1>1 DEF LeadTypeOK, LockInv, EpochInv
  <2>5. (\A m \in Nodes : epoch[m] > 0 => leaders[epoch[m]] = m)'
    BY <1>0, <1>1 DEF LeadTypeOK, LockInv, EpochInv
  <2>6. (\A m \in Nodes : role[m] = "leader" \/ mgr[m] = "lead" => epoch[m] > 0)'
    BY <1>0, <1>1 DEF LeadTypeOK, LockInv, EpochInv
  <2>7. (\A m \in Nodes : conn[m] = "ok" /\ mgr[m] = "promote" => token[m] = lastEpoch)'
    BY <1>0, <1>1 DEF LeadTypeOK, LockInv, EpochInv
  <2>8. (\A m \in Nodes : conn[m] = "ok" /\ (mgr[m] = "lead" \/ role[m] = "leader") =>
         epoch[m] = lastEpoch)'
    BY <1>0, <1>1 DEF LeadTypeOK, LockInv, EpochInv
  <2> QED  BY <2>1, <2>2, <2>3, <2>4, <2>5, <2>6, <2>7, <2>8 DEF EpochInv
<1> QED  BY <1>1, <1>2, <1>3

LEMMA MarkEpochInv ==
    ASSUME LeadInv, NEW n \in Nodes, MarkEpoch(n)
    PROVE  LeadInv'
<1> USE LeadershipAssumption DEF LeadInv, MarkEpoch, Goto, nodeVars, lockVars
<1>1. LeadTypeOK'  BY DEF LeadTypeOK, MgrPCs, LockInv, EpochInv
<1>2. LockInv'     BY DEF LeadTypeOK, LockInv
<1>3. EpochInv'    BY <1>1 DEF LeadTypeOK, LockInv, EpochInv
<1> QED  BY <1>1, <1>2, <1>3

LEMMA GiveUpInv ==
    ASSUME LeadInv, NEW n \in Nodes, GiveUp(n)
    PROVE  LeadInv'
<1> USE LeadershipAssumption DEF LeadInv, GiveUp, Goto, nodeVars, lockVars
<1>1. LeadTypeOK'  BY DEF LeadTypeOK, MgrPCs, LockInv, EpochInv
<1>2. LockInv'     BY DEF LeadTypeOK, LockInv
<1>3. EpochInv'    BY <1>1 DEF LeadTypeOK, LockInv, EpochInv
<1> QED  BY <1>1, <1>2, <1>3

LEMMA StoreEpochInv ==
    ASSUME LeadInv, NEW n \in Nodes, StoreEpoch(n)
    PROVE  LeadInv'
<1> USE LeadershipAssumption DEF LeadInv, StoreEpoch, Goto, nodeVars, lockVars
<1>1. LeadTypeOK'  BY DEF LeadTypeOK, MgrPCs, LockInv, EpochInv
<1>2. LockInv'     BY DEF LeadTypeOK, LockInv
<1>3. EpochInv'    BY <1>1 DEF LeadTypeOK, LockInv, EpochInv
<1> QED  BY <1>1, <1>2, <1>3

LEMMA StoreRoleInv ==
    ASSUME LeadInv, NEW n \in Nodes, StoreRole(n)
    PROVE  LeadInv'
<1> USE LeadershipAssumption DEF LeadInv, StoreRole, Goto, nodeVars, lockVars
<1>1. LeadTypeOK'  BY DEF LeadTypeOK, MgrPCs, LockInv, EpochInv
<1>2. LockInv'     BY DEF LeadTypeOK, LockInv
<1>3. EpochInv'    BY <1>1 DEF LeadTypeOK, LockInv, EpochInv
<1> QED  BY <1>1, <1>2, <1>3

LEMMA DemoteInv ==
    ASSUME LeadInv, NEW n \in Nodes, Demote(n)
    PROVE  LeadInv'
<1> USE LeadershipAssumption DEF LeadInv, Demote, HeartbeatFails, Goto, nodeVars, lockVars
<1>1. LeadTypeOK'  BY DEF LeadTypeOK, MgrPCs, LockInv, EpochInv
<1>2. LockInv'     BY DEF LeadTypeOK, LockInv
<1>3. EpochInv'    BY <1>1 DEF LeadTypeOK, LockInv, EpochInv
<1> QED  BY <1>1, <1>2, <1>3

LEMMA ClearEpochInv ==
    ASSUME LeadInv, NEW n \in Nodes, ClearEpoch(n)
    PROVE  LeadInv'
<1> USE LeadershipAssumption DEF LeadInv, ClearEpoch, Goto, nodeVars, lockVars
<1>0. role[n] # "leader"  BY DEF LeadTypeOK, LockInv
<1>1. LeadTypeOK'  BY DEF LeadTypeOK, MgrPCs, LockInv, EpochInv
<1>2. LockInv'     BY DEF LeadTypeOK, LockInv
<1>3. EpochInv'
  <2>1. (\A e \in 1..MaxEpoch : leaders[e] # NoNode => e <= lastEpoch)'
    BY <1>1 DEF LeadTypeOK, LockInv, EpochInv
  <2>2. (\A m \in Nodes : mgr[m] = "mark" => token[m] > 0)'
    BY <1>1 DEF LeadTypeOK, LockInv, EpochInv
  <2>3. (\A m \in Nodes : mgr[m] = "mark" /\ conn[m] = "ok" =>
         token[m] = lastEpoch /\ leaders[token[m]] = NoNode)'
    BY <1>1 DEF LeadTypeOK, LockInv, EpochInv
  <2>4. (\A m \in Nodes : mgr[m] = "promote" => token[m] > 0 /\ leaders[token[m]] = m)'
    BY <1>1 DEF LeadTypeOK, LockInv, EpochInv
  <2>5. (\A m \in Nodes : epoch[m] > 0 => leaders[epoch[m]] = m)'
    BY <1>1 DEF LeadTypeOK, LockInv, EpochInv
  <2>6. (\A m \in Nodes : role[m] = "leader" \/ mgr[m] = "lead" => epoch[m] > 0)'
    <3> SUFFICES ASSUME NEW m \in Nodes, (role[m] = "leader" \/ mgr[m] = "lead")'
                 PROVE  (epoch[m] > 0)'
      OBVIOUS
    <3>1. m # n  BY <1>0 DEF LeadTypeOK
    <3> QED  BY <3>1 DEF LeadTypeOK, EpochInv
  <2>7. (\A m \in Nodes : conn[m] = "ok" /\ mgr[m] = "promote" => token[m] = lastEpoch)'
    BY <1>1 DEF LeadTypeOK, LockInv, EpochInv
  <2>8. (\A m \in Nodes : conn[m] = "ok" /\ (mgr[m] = "lead" \/ role[m] = "leader") =>
         epoch[m] = lastEpoch)'
    BY <1>1 DEF LeadTypeOK, LockInv, EpochInv
  <2> QED  BY <2>1, <2>2, <2>3, <2>4, <2>5, <2>6, <2>7, <2>8 DEF EpochInv
<1> QED  BY <1>1, <1>2, <1>3

LEMMA StopInv ==
    ASSUME LeadInv, NEW n \in Nodes, Stop(n)
    PROVE  LeadInv'
<1> USE LeadershipAssumption DEF LeadInv, Stop, Goto, nodeVars, lockVars
<1>1. LeadTypeOK'  BY DEF LeadTypeOK, MgrPCs, LockInv, EpochInv
<1>2. LockInv'     BY DEF LeadTypeOK, LockInv
<1>3. EpochInv'    BY <1>1 DEF LeadTypeOK, LockInv, EpochInv
<1> QED  BY <1>1, <1>2, <1>3

LEMMA UnlockInv ==
    ASSUME LeadInv, NEW n \in Nodes, Unlock(n)
    PROVE  LeadInv'
<1> USE LeadershipAssumption DEF LeadInv, Unlock, Goto, nodeVars, lockVars
<1>1. LeadTypeOK'  BY DEF LeadTypeOK, MgrPCs, LockInv, EpochInv
<1>2. LockInv'     BY DEF LeadTypeOK, LockInv
<1>3. EpochInv'    BY <1>1 DEF LeadTypeOK, LockInv, EpochInv
<1> QED  BY <1>1, <1>2, <1>3

LEMMA LoseSessionInv ==
    ASSUME LeadInv, NEW n \in Nodes, LoseSession(n)
    PROVE  LeadInv'
<1> USE LeadershipAssumption DEF LeadInv, LoseSession, nodeVars, lockVars
<1>1. LeadTypeOK'  BY DEF LeadTypeOK, MgrPCs, LockInv, EpochInv
<1>2. LockInv'     BY DEF LeadTypeOK, LockInv
<1>3. EpochInv'    BY <1>1 DEF LeadTypeOK, LockInv, EpochInv
<1> QED  BY <1>1, <1>2, <1>3

LEMMA EndSessionInv ==
    ASSUME LeadInv, NEW n \in Nodes, EndSession(n)
    PROVE  LeadInv'
<1> USE LeadershipAssumption DEF LeadInv, EndSession, nodeVars, lockVars
<1>1. LeadTypeOK'  BY DEF LeadTypeOK, MgrPCs, LockInv, EpochInv
<1>2. LockInv'     BY DEF LeadTypeOK, LockInv
<1>3. EpochInv'    BY <1>1 DEF LeadTypeOK, LockInv, EpochInv
<1> QED  BY <1>1, <1>2, <1>3

LEMMA StartManagerInv ==
    ASSUME LeadInv, NEW n \in Nodes, StartManager(n)
    PROVE  LeadInv'
<1> USE LeadershipAssumption DEF LeadInv, StartManager, Goto, nodeVars, lockVars
<1>1. LeadTypeOK'  BY DEF LeadTypeOK, MgrPCs, LockInv, EpochInv
<1>2. LockInv'     BY DEF LeadTypeOK, LockInv
<1>3. EpochInv'    BY <1>1 DEF LeadTypeOK, LockInv, EpochInv
<1> QED  BY <1>1, <1>2, <1>3

LEMMA LoseManagerInv ==
    ASSUME LeadInv, NEW n \in Nodes, LoseManager(n), faults' \in 0..MaxFaults
    PROVE  LeadInv'
<1> USE LeadershipAssumption DEF LeadInv, LoseManager, lockVars
<1>1. LeadTypeOK'  BY DEF LeadTypeOK, MgrPCs
<1>2. LockInv'     BY DEF LeadTypeOK, LockInv
<1>3. EpochInv'    BY <1>1 DEF LeadTypeOK, LockInv, EpochInv
<1> QED  BY <1>1, <1>2, <1>3

LEMMA LeadStutterInv ==
    ASSUME LeadInv, UNCHANGED leadVars
    PROVE  LeadInv'
  BY DEF LeadInv, LeadTypeOK, LockInv, EpochInv, leadVars, nodeVars, lockVars

LEMMA LeadNextInv ==
    ASSUME LeadInv, [Next]_vars
    PROVE  LeadInv'
<1>1. CASE UNCHANGED vars  BY <1>1, LeadStutterInv DEF vars
<1>2. CASE \E x \in Txs : TxStep(x)
  <2> PICK x \in Txs : TxStep(x)  BY <1>2
  <2>1. UNCHANGED leadVars
    BY DEF TxStep, Gate, GateAgain, ReadEpoch, ReadHead, Insert, Commit, Rollback,
           WriteCheckpoint, SeedPack, AppendMarker, BootTx
  <2> QED  BY <2>1, LeadStutterInv
<1>3. CASE \E n \in Nodes : ProcessStep(n)
  <2> PICK n \in Nodes : ProcessStep(n)  BY <1>3
  <2>1. CASE StartProcess(n) \/ FindMarker(n)
    BY <2>1, LeadStutterInv DEF StartProcess, FindMarker
  <2>2. CASE StartHA(n)  BY <2>2, StartManagerInv DEF StartHA
  <2>3. CASE EndProcess(n)
    <3>1. faults' \in 0..MaxFaults
      BY <2>3, LeadershipAssumption DEF EndProcess, LeadInv, LeadTypeOK
    <3> QED  BY <2>3, <3>1, LoseManagerInv DEF EndProcess
  <2>4. CASE Elect(n)
    <3>1. Tick(n) \/ Stop(n) \/ Unlock(n) \/ LoseSession(n) \/ EndSession(n)
      BY <2>4 DEF Elect, LeadStep
    <3> QED
      BY <3>1, TryLockInv, IssueEpochInv, MarkEpochInv, GiveUpInv, StoreEpochInv, StoreRoleInv,
         DemoteInv, ClearEpochInv, StopInv, UnlockInv, LoseSessionInv, EndSessionInv DEF Tick
  <2> QED  BY <2>1, <2>2, <2>3, <2>4 DEF ProcessStep
<1> QED  BY <1>1, <1>2, <1>3 DEF Next

--------------------------------------------------------------------------------
(* Types and the shape of transactions. *)

LEMMA NoTxOK == NoTx \in Transactions /\ Genesis \in Heads
<1>1. <<>> \in Seq(Contents)  BY EmptySeq
<1> QED  BY <1>1, LeadershipAssumption, AuditAssumption
         DEF NoTx, Genesis, Zero, Transactions, Heads, TxAts, TxKinds

LEMMA InitOK == Init => TypeOK /\ TxInv
<1> SUFFICES ASSUME Init PROVE TypeOK /\ TxInv  OBVIOUS
<1>1. LeadTypeOK  BY LeadInitInv DEF Init, LeadInv
<1>2. tx \in [Txs -> Transactions]  BY NoTxOK DEF Init
<1>3. head \in [Tenants -> Heads]  BY NoTxOK DEF Init
<1>4. TypeOK  BY <1>1, <1>2, <1>3, AuditAssumption DEF Init, TypeOK
<1>5. TxInv  BY DEF Init, TxInv, NoTx
<1> QED  BY <1>4, <1>5

\* A new entry is a row, one past the head the transaction has read.
LEMMA NewEntryOK ==
    ASSUME TypeOK, TxInv, NEW x \in Txs, tx[x].at = "insert", NewEntry(x).seq <= MaxSeq
    PROVE  /\ NewEntry(x) \in Rows
           /\ NewEntry(x).seq = tx[x].head.seq + 1
           /\ NewEntry(x).prev = tx[x].head.hash
           /\ NewEntry(x).hash = Hash(tx[x].head.hash, NewEntry(x).content)
           /\ NewEntry(x).epoch = tx[x].epoch
           /\ NewEntry(x).content.by = tx[x].node
           /\ [seq |-> NewEntry(x).seq, hash |-> NewEntry(x).hash] \in Heads
<1> DEFINE e == NewEntry(x)
<1>1. tx[x] \in Transactions /\ tx[x].head \in Heads /\ tx[x].epoch \in 0..MaxEpoch
  BY DEF TypeOK, Transactions
<1>2. tx[x].node \in Nodes /\ tx[x].kind \in {"entry", "seed", "marker"}
  BY <1>1 DEF TxInv, Transactions, TxKinds
<1>3. /\ e.seq = tx[x].head.seq + 1
      /\ e.prev = tx[x].head.hash
      /\ e.hash = Hash(tx[x].head.hash, e.content)
      /\ e.epoch = tx[x].epoch
      /\ e.content = [by |-> tx[x].node, kind |-> tx[x].kind,
                      version |-> HashVersion(tx[x].node, tx[x].head.seq + 1)]
      /\ e = [seq |-> e.seq, prev |-> e.prev, hash |-> e.hash, content |-> e.content, epoch |-> e.epoch]
  BY DEF NewEntry
<1>4. e.content \in Contents  BY <1>2, <1>3 DEF Contents, HashVersion
<1>5. e.prev \in Seq(Contents) /\ e.seq \in 1..MaxSeq
  BY <1>1, <1>3, AuditAssumption DEF Heads
<1>6. e.hash \in Seq(Contents)  BY <1>3, <1>4, <1>5, AppendProperties DEF Hash
<1>7. e \in Rows  BY <1>1, <1>3, <1>4, <1>5, <1>6 DEF Rows
<1>8. [seq |-> e.seq, hash |-> e.hash] \in Heads  BY <1>5, <1>6 DEF Heads
<1> HIDE DEF e
<1>9. e.content.by = tx[x].node  BY <1>3
<1> QED  BY <1>3, <1>7, <1>8, <1>9 DEF e

LEMMA GateOK ==
    ASSUME TypeOK, TxInv, LeadTypeOK', NEW x \in Txs, NEW n \in Nodes, NEW t \in Tenants,
           NEW kind \in {"entry", "checkpoint"}, Gate(x, n, t, kind)
    PROVE  TypeOK' /\ TxInv'
<1> USE DEF Gate
<1>1. tx' \in [Txs -> Transactions]
  BY NoTxOK DEF TypeOK, NoTx, Transactions, TxAts, TxKinds
<1>2. TypeOK'
  BY <1>1 DEF TypeOK, procVars, tables
<1>3. TxInv'
  BY DEF TypeOK, TxInv, NoTx
<1> QED  BY <1>2, <1>3

LEMMA GateAgainOK ==
    ASSUME TypeOK, TxInv, LeadTypeOK', NEW x \in Txs, GateAgain(x)
    PROVE  TypeOK' /\ TxInv'
<1> USE DEF GateAgain
<1>1. tx' \in [Txs -> Transactions]
  BY DEF TypeOK, Transactions, TxAts
<1>2. TypeOK'
  BY <1>1 DEF TypeOK, procVars, tables
<1>3. TxInv'
  BY DEF TypeOK, TxInv
<1> QED  BY <1>2, <1>3

LEMMA ReadEpochOK ==
    ASSUME TypeOK, TxInv, LeadTypeOK', NEW x \in Txs, ReadEpoch(x)
    PROVE  TypeOK' /\ TxInv'
<1> USE DEF ReadEpoch
<1>1. tx' \in [Txs -> Transactions]
  <2>1. epoch[tx[x].node] \in 0..MaxEpoch  BY DEF TypeOK, LeadTypeOK, TxInv
  <2> QED  BY <2>1 DEF TypeOK, Transactions, TxAts
<1>2. TypeOK'
  BY <1>1 DEF TypeOK, procVars, tables
<1>3. TxInv'
  <2>1. \A y \in Txs : /\ tx'[y].at = IF y = x THEN "head" ELSE tx[y].at
                      /\ tx'[y].kind = tx[y].kind /\ tx'[y].node = tx[y].node
                      /\ tx'[y].tenant = tx[y].tenant /\ tx'[y].rows = tx[y].rows
    BY DEF TypeOK, Transactions
  <2> HIDE DEF ReadEpoch
  <2>2. tx[x].at = "epoch"  BY DEF ReadEpoch
  <2> QED  BY <2>1, <2>2 DEF TxInv
<1> QED  BY <1>2, <1>3

LEMMA ReadHeadOK ==
    ASSUME TypeOK, TxInv, LeadTypeOK', NEW x \in Txs, ReadHead(x)
    PROVE  TypeOK' /\ TxInv'
<1> USE DEF ReadHead
<1>1. tx' \in [Txs -> Transactions]
  <2>1. HeadOf(x) \in Heads  BY DEF HeadOf, TypeOK, TxInv, Transactions
  <2> QED  BY <2>1 DEF TypeOK, Transactions, TxAts
<1>2. TypeOK'
  BY <1>1 DEF TypeOK, procVars, tables
<1>3. TxInv'
  BY DEF TypeOK, TxInv, Transactions
<1> QED  BY <1>2, <1>3

LEMMA WriteCheckpointOK ==
    ASSUME TypeOK, TxInv, LeadTypeOK', NEW x \in Txs, WriteCheckpoint(x)
    PROVE  TypeOK' /\ TxInv'
<1> USE DEF WriteCheckpoint, SignedHead
<1>1. tx' \in [Txs -> Transactions]
  BY NoTxOK DEF TypeOK
<1>2. TypeOK'
  <2>1. tx[x].tenant \in Tenants /\ tx[x].head \in Heads  BY DEF TypeOK, TxInv, Transactions
  <2>2. checkpoints' \in [Tenants -> SUBSET Heads]  BY <2>1 DEF TypeOK
  <2> QED  BY <1>1, <2>2 DEF TypeOK, procVars
<1>3. TxInv'
  BY DEF TypeOK, TxInv, NoTx
<1> QED  BY <1>2, <1>3

LEMMA CommitOK ==
    ASSUME TypeOK, TxInv, LeadTypeOK', NEW x \in Txs, Commit(x)
    PROVE  TypeOK' /\ TxInv'
<1> USE DEF Commit
<1>1. tx' \in [Txs -> Transactions]
  BY NoTxOK DEF TypeOK
<1>2. TypeOK'
  <2>1. tx[x].tenant \in Tenants /\ tx[x].own \in Heads /\ tx[x].rows \subseteq Rows
    BY DEF TypeOK, TxInv, Transactions
  <2>2. rows' \in [Tenants -> SUBSET Rows]  BY <2>1 DEF TypeOK
  <2>3. head' \in [Tenants -> Heads]  BY <2>1 DEF TypeOK
  <2> QED  BY <1>1, <2>2, <2>3 DEF TypeOK, procVars
<1>3. TxInv'
  BY DEF TypeOK, TxInv, NoTx
<1> QED  BY <1>2, <1>3

LEMMA RollbackOK ==
    ASSUME TypeOK, TxInv, LeadTypeOK', NEW x \in Txs, Rollback(x)
    PROVE  TypeOK' /\ TxInv'
<1> USE DEF Rollback
<1>1. tx' \in [Txs -> Transactions]
  BY NoTxOK DEF TypeOK
<1>2. TypeOK'
  <2>1. boot' \in [Nodes -> {"down", "booting", "up"}]  BY DEF TypeOK, procVars
  <2>2. transition' \in [Nodes -> 0..MaxSeq]  BY AuditAssumption DEF TypeOK, procVars
  <2> QED  BY <1>1, <2>1, <2>2 DEF TypeOK, tables
<1>3. TxInv'
  BY DEF TypeOK, TxInv, NoTx
<1> QED  BY <1>2, <1>3

LEMMA BootTxOK ==
    ASSUME TypeOK, TxInv, LeadTypeOK', NEW x \in Txs, NEW n \in Nodes, NEW kind \in {"seed", "marker"}, BootTx(x, n, kind)
    PROVE  TypeOK' /\ TxInv'
<1> USE DEF BootTx
<1>1. tx' \in [Txs -> Transactions]
  BY NoTxOK, AuditAssumption DEF TypeOK, NoTx, Transactions, TxAts, TxKinds
<1>2. TypeOK'
  BY <1>1 DEF TypeOK, procVars, tables
<1>3. TxInv'
  BY AuditAssumption DEF TypeOK, TxInv, NoTx
<1> QED  BY <1>2, <1>3

--------------------------------------------------------------------------------
(* Chains. *)

\* The next entry of a chain extends it.
LEMMA IntactExtend ==
    ASSUME NEW R \in SUBSET Rows, NEW h \in Heads, Intact(R, h), NEW e \in Rows,
           e.seq = h.seq + 1, e.prev = h.hash, e.hash = Hash(h.hash, e.content)
    PROVE  Intact(R \cup {e}, [seq |-> e.seq, hash |-> e.hash])
<1> DEFINE S == R \cup {e}
           g == [seq |-> e.seq, hash |-> e.hash]
<1>1. h.seq \in Nat /\ \A f \in S : f.seq \in Nat \ {0}
  BY AuditAssumption DEF Heads, Rows
<1>2. \A f \in R : f.seq \in 1..h.seq  BY DEF Intact, Seqs
<1>3. Seqs(S) = 1..g.seq
  <2>1. Seqs(S) = Seqs(R) \cup {e.seq}  BY DEF Seqs
  <2>2. Seqs(R) = 1..h.seq  BY DEF Intact
  <2>3. 1..h.seq \cup {h.seq + 1} = 1..(h.seq + 1)  BY <1>1
  <2> QED  BY <2>1, <2>2, <2>3
<1>4. h.seq = 0 => e.prev = Zero  BY DEF Intact
<1>5. \A f \in S : f.hash = Hash(f.prev, f.content)  BY <1>4 DEF Intact
<1>6. \A f \in S : f.seq = 1 => f.prev = Zero  BY <1>1, <1>2, <1>4 DEF Intact
<1>7. \A f \in S : f.seq = g.seq => f.hash = g.hash  BY <1>1, <1>2 DEF Intact
<1>8. \A f, k \in S : f.seq = k.seq => f = k  BY <1>1, <1>2 DEF Intact
<1>9. \A f, k \in S : k.seq = f.seq + 1 => k.prev = f.hash  BY <1>1, <1>2 DEF Intact
<1>10. g.seq = 0 => g.hash = Zero  BY <1>1
<1> HIDE DEF S, g
<1>11. Intact(S, g)  BY <1>3, <1>5, <1>6, <1>7, <1>8, <1>9, <1>10 DEF Intact
<1> QED  BY <1>11 DEF S, g

LEMMA AppendExtends ==
    ASSUME NEW h \in Seq(Contents), NEW c \in Contents
    PROVE  Log!IsStrictPrefix(h, Hash(h, c))
<1>1. /\ Append(h, c) \in Seq(Contents) /\ Len(Append(h, c)) = Len(h) + 1
      /\ \A i \in 1..Len(h) : Append(h, c)[i] = h[i]
  BY AppendProperties
<1>2. Len(h) \in Nat  BY LenProperties
<1>3. SubSeq(h, 1, Len(h)) = SubSeq(Append(h, c), 1, Len(h))
  BY <1>1, <1>2, SubSeqProperties
<1>4. h # Append(h, c)  BY <1>1, <1>2
<1> QED  BY <1>1, <1>2, <1>3, <1>4 DEF Log!IsStrictPrefix, Log!IsPrefix, Hash

LEMMA PrefixTrans ==
    ASSUME NEW g \in Seq(Contents), NEW h \in Seq(Contents), NEW c \in Contents,
           Log!IsStrictPrefix(g, h)
    PROVE  Log!IsStrictPrefix(g, Hash(h, c))
<1>1. /\ Append(h, c) \in Seq(Contents) /\ Len(Append(h, c)) = Len(h) + 1
      /\ \A i \in 1..Len(h) : Append(h, c)[i] = h[i]
  BY AppendProperties
<1>2. Len(g) \in Nat /\ Len(h) \in Nat  BY LenProperties
<1>3. Len(g) <= Len(h) /\ SubSeq(g, 1, Len(g)) = SubSeq(h, 1, Len(g))
  BY DEF Log!IsStrictPrefix, Log!IsPrefix, Hash
<1>4. SubSeq(h, 1, Len(g)) = SubSeq(Append(h, c), 1, Len(g))
  BY <1>1, <1>2, <1>3, SubSeqProperties
<1>5. g # Append(h, c)  BY <1>1, <1>2, <1>3
<1> QED  BY <1>1, <1>2, <1>3, <1>4, <1>5 DEF Log!IsStrictPrefix, Log!IsPrefix, Hash

LEMMA InsertOK ==
    ASSUME TypeOK, TxInv, ChainInv, LeadTypeOK', NEW x \in Txs, Insert(x)
    PROVE  TypeOK' /\ TxInv'
<1> DEFINE e == NewEntry(x)
           g == [seq |-> e.seq, hash |-> e.hash]
<1>1. /\ tx[x].at = "insert" /\ e \in Rows /\ g \in Heads
      /\ tx[x].node \in Nodes /\ tx[x].tenant \in Tenants
      /\ e.seq = tx[x].head.seq + 1 /\ e.seq \in 1..MaxSeq
  BY NewEntryOK DEF Insert, TxInv, Rows
<1>2. tx' = [tx EXCEPT ![x] = [tx[x] EXCEPT !.rows = @ \cup {e}, !.own = g, !.at = "open",
                                            !.head = Genesis, !.epoch = 0]]
  BY DEF Insert, TypeOK
<1> HIDE DEF e, g
<1>3. tx' \in [Txs -> Transactions]
  <2> DEFINE r == [tx[x] EXCEPT !.rows = @ \cup {e}, !.own = g, !.at = "open",
                                !.head = Genesis, !.epoch = 0]
  <2>1. tx[x] \in Transactions /\ tx[x].rows \cup {e} \in SUBSET Rows
    BY <1>1 DEF TypeOK, Transactions
  <2>2. r \in Transactions
    <3>1. Genesis \in Heads /\ 0 \in 0..MaxEpoch /\ "open" \in TxAts
      BY NoTxOK, LeadershipAssumption DEF TxAts
    <3> QED  BY <1>1, <2>1, <3>1 DEF Transactions
  <2> HIDE DEF r
  <2>3. tx' = [tx EXCEPT ![x] = r]  BY <1>2 DEF r
  <2> QED  BY <2>2, <2>3 DEF TypeOK
<1>4. transition' \in [Nodes -> 0..MaxSeq]
  BY <1>1, AuditAssumption DEF Insert, TypeOK, e
<1>5. TypeOK'
  BY <1>3, <1>4 DEF TypeOK, Insert, tables
<1>6. \A y \in Txs \ {x} : tx[y].tenant = tx[x].tenant => tx[y].rows = {}
  <2> SUFFICES ASSUME NEW y \in Txs \ {x}, tx[y].tenant = tx[x].tenant, tx[y].rows # {}
               PROVE  FALSE
    OBVIOUS
  <2> DEFINE t == tx[x].tenant
             s == head[t].seq
  <2>1. tx[x].rows = {}  BY DEF TxInv
  <2>2. s \in Nat /\ tx[x].head.seq \in Nat /\ tx[y].own.seq \in Nat
    BY <1>1, AuditAssumption DEF TypeOK, Transactions, Heads
  <2>3. tx[x].head.seq <= s  BY <1>1, <2>1 DEF ChainInv, Fresh
  <2>4. Seqs(rows[t]) = 1..s /\ e.seq \notin Seqs(rows[t])
    BY <1>1 DEF ChainInv, ChainIntact, Intact, Insert, KeyTaken, e
  <2>5. e.seq = s + 1  BY <1>1, <2>2, <2>3, <2>4
  <2>6. Pending(y)  BY DEF ChainInv
  <2>7. PICK f \in tx[y].rows : f.seq > s  BY <2>6 DEF Pending
  <2>8. Seqs(rows[t] \cup tx[y].rows) = 1..tx[y].own.seq  BY <2>6 DEF Pending, Intact
  <2>9. f.seq \in 1..tx[y].own.seq  BY <2>8 DEF Seqs
  <2>10. s + 1 \in Seqs(rows[t] \cup tx[y].rows)  BY <2>2, <2>7, <2>8, <2>9
  <2>11. e.seq \in Seqs(tx[y].rows)  BY <2>4, <2>5, <2>10 DEF Seqs
  <2> QED  BY <2>11 DEF Insert, Waits, e
<1>7. TxInv'
  <2>1. \A y \in Txs : /\ tx'[y].at = IF y = x THEN "open" ELSE tx[y].at
                      /\ tx'[y].kind = tx[y].kind /\ tx'[y].node = tx[y].node
                      /\ tx'[y].tenant = tx[y].tenant
                      /\ tx'[y].rows = IF y = x THEN tx[x].rows \cup {e} ELSE tx[y].rows
    BY <1>2 DEF TypeOK, Transactions
  <2> QED  BY <1>1, <1>6, <2>1 DEF TxInv
<1> QED  BY <1>5, <1>7

LEMMA ProcessOK ==
    ASSUME TypeOK, TxInv, LeadTypeOK', NEW n \in Nodes, ProcessStep(n)
    PROVE  TypeOK' /\ TxInv'
<1>1. CASE StartProcess(n)
  BY <1>1 DEF StartProcess, TypeOK, TxInv, tables
<1>2. CASE FindMarker(n)
  <2>1. \A s \in Markers : s \in 0..MaxSeq
    <3>1. \A e \in rows[SystemTenant] : e.seq \in 1..MaxSeq
      BY AuditAssumption DEF TypeOK, Rows
    <3> QED  BY <3>1, AuditAssumption DEF Markers, Seqs
  <2> QED  BY <1>2, <2>1 DEF FindMarker, TypeOK, TxInv, tables
<1>3. CASE StartHA(n)
  BY <1>3 DEF StartHA, TypeOK, TxInv, tables
<1>4. CASE EndProcess(n)
  <2>1. tx' \in [Txs -> Transactions]  BY <1>4, NoTxOK DEF EndProcess, TypeOK
  <2>2. transition' \in [Nodes -> 0..MaxSeq]
    BY <1>4, AuditAssumption DEF EndProcess, TypeOK
  <2>3. TypeOK'  BY <1>4, <2>1, <2>2 DEF EndProcess, TypeOK, tables
  <2>4. TxInv'  BY <1>4 DEF EndProcess, TxInv, NoTx
  <2> QED  BY <2>3, <2>4
<1>5. CASE Elect(n)
  BY <1>5 DEF Elect, TypeOK, TxInv, tables, procVars
<1> QED  BY <1>1, <1>2, <1>3, <1>4, <1>5 DEF ProcessStep

LEMMA NextOK ==
    ASSUME TypeOK, TxInv, ChainInv, LeadInv, [Next]_vars
    PROVE  TypeOK' /\ TxInv'
<1>1. LeadTypeOK'  BY LeadNextInv DEF LeadInv
<1>2. CASE UNCHANGED vars  BY <1>1, <1>2 DEF vars, procVars, tables, TypeOK, TxInv
<1>3. ASSUME NEW x \in Txs, TxStep(x) PROVE TypeOK' /\ TxInv'
  BY <1>1, <1>3, GateOK, GateAgainOK, ReadEpochOK, ReadHeadOK, InsertOK, CommitOK, RollbackOK,
     WriteCheckpointOK, BootTxOK DEF TxStep, SeedPack, AppendMarker
<1>4. ASSUME NEW n \in Nodes, ProcessStep(n) PROVE TypeOK' /\ TxInv'
  BY <1>1, <1>4, ProcessOK
<1> QED  BY <1>2, <1>3, <1>4 DEF Next

--------------------------------------------------------------------------------
(* The chain invariant is inductive. *)

\* Nothing is lost by a step that leaves the tables alone and in which each
\* transaction keeps what it has inserted or drops all of it.
LEMMA ChainFrame ==
    ASSUME TypeOK, ChainInv, UNCHANGED tables,
           \A y \in Txs : tx'[y] = tx[y] \/ tx'[y].at \notin {"insert", "sign"},
           \A y \in Txs : \/ tx'[y].rows = {}
                         \/ /\ tx'[y].rows = tx[y].rows /\ tx'[y].own = tx[y].own
                            /\ tx'[y].tenant = tx[y].tenant
    PROVE  ChainInv'
<1> USE DEF tables
<1>1. ChainIntact' /\ CheckpointsHold'
  BY DEF ChainInv, ChainIntact, CheckpointsHold
<1>2. ASSUME NEW y \in Txs, tx'[y].at = "insert" PROVE Fresh(y)'
  <2>1. tx'[y] = tx[y]  BY <1>2
  <2> QED  BY <1>2, <2>1 DEF ChainInv, Fresh
<1>3. ASSUME NEW y \in Txs, tx'[y].rows # {} PROVE Pending(y)'
  <2>1. /\ tx'[y].rows = tx[y].rows /\ tx'[y].own = tx[y].own
        /\ tx'[y].tenant = tx[y].tenant
    BY <1>3
  <2>2. Pending(y)  BY <1>3, <2>1 DEF ChainInv
  <2> QED  BY <2>1, <2>2 DEF Pending
<1>4. ASSUME NEW y \in Txs, tx'[y].at = "sign" PROVE Signable(y)'
  <2>1. tx'[y] = tx[y]  BY <1>4
  <2> QED  BY <1>4, <2>1 DEF ChainInv, Signable
<1> QED  BY <1>1, <1>2, <1>3, <1>4 DEF ChainInv

LEMMA InitChain == Init => ChainInv
<1> SUFFICES ASSUME Init PROVE ChainInv  OBVIOUS
<1>1. ChainIntact  BY DEF Init, ChainIntact, Intact, Seqs, Genesis
<1> QED  BY <1>1 DEF Init, ChainInv, CheckpointsHold, NoTx

\* Every entry up to the head is in a chain, the head's among them.
LEMMA IntactHead ==
    ASSUME NEW R, NEW h \in Heads, Intact(R, h), h.seq > 0
    PROVE  \E e \in R : e.seq = h.seq /\ e.hash = h.hash
<1>1. h.seq \in Nat  BY AuditAssumption DEF Heads
<1>2. h.seq \in Seqs(R)  BY <1>1 DEF Intact
<1> QED  BY <1>2 DEF Intact, Seqs

LEMMA ReadHeadChain ==
    ASSUME TypeOK, TxInv, ChainInv, NEW x \in Txs, ReadHead(x)
    PROVE  ChainInv'
<1>1. /\ \A y \in Txs \ {x} : tx'[y] = tx[y]
      /\ tx'[x].head = HeadOf(x) /\ tx'[x].rows = tx[x].rows /\ tx'[x].own = tx[x].own
      /\ tx'[x].tenant = tx[x].tenant
      /\ tx'[x].at = IF tx[x].kind = "checkpoint" THEN "sign" ELSE "insert"
      /\ rows' = rows /\ head' = head /\ checkpoints' = checkpoints
  BY DEF ReadHead, TypeOK, Transactions, tables
<1>2. tx[x].tenant \in Tenants  BY DEF ReadHead, TxInv
<1>3. head[tx[x].tenant] \in Heads /\ head[tx[x].tenant].seq \in Nat
  BY <1>2, AuditAssumption DEF TypeOK, Heads
<1>4. ChainIntact' /\ CheckpointsHold'
  BY <1>1 DEF ChainInv, ChainIntact, CheckpointsHold
<1>5. ASSUME NEW y \in Txs, tx'[y].at = "insert" PROVE Fresh(y)'
  <2>1. CASE y = x  BY <1>1, <1>3, <2>1 DEF Fresh, HeadOf
  <2>2. CASE y # x
    <3>1. tx'[y] = tx[y]  BY <1>1, <2>2
    <3> QED  BY <1>1, <1>5, <3>1 DEF ChainInv, Fresh
  <2> QED  BY <2>1, <2>2
<1>6. ASSUME NEW y \in Txs, tx'[y].rows # {} PROVE Pending(y)'
  <2>1. tx'[y].rows = tx[y].rows /\ tx'[y].own = tx[y].own /\ tx'[y].tenant = tx[y].tenant
    BY <1>1
  <2>2. Pending(y)  BY <1>6, <2>1 DEF ChainInv
  <2> QED  BY <1>1, <2>1, <2>2 DEF Pending
<1>7. ASSUME NEW y \in Txs, tx'[y].at = "sign" PROVE Signable(y)'
  <2>1. CASE y = x
    <3>1. tx[x].rows = {}  BY <1>1, <1>7, <2>1 DEF TxInv
    <3>2. tx'[x].head = head[tx[x].tenant]  BY <1>1, <3>1 DEF HeadOf
    <3>3. Intact(rows[tx[x].tenant], head[tx[x].tenant])
      BY <1>2 DEF ChainInv, ChainIntact
    <3> QED  BY <1>1, <1>3, <1>7, <2>1, <3>2, <3>3, IntactHead DEF Signable
  <2>2. CASE y # x
    <3>1. tx'[y] = tx[y]  BY <1>1, <2>2
    <3> QED  BY <1>1, <1>7, <3>1 DEF ChainInv, Signable
  <2> QED  BY <2>1, <2>2
<1> QED  BY <1>4, <1>5, <1>6, <1>7 DEF ChainInv

LEMMA InsertChain ==
    ASSUME TypeOK, TxInv, ChainInv, NEW x \in Txs, Insert(x)
    PROVE  ChainInv'
<1> DEFINE e == NewEntry(x)
           g == [seq |-> e.seq, hash |-> e.hash]
           t == tx[x].tenant
           c == head[t]
<1>1. /\ tx[x].at = "insert" /\ e \in Rows /\ g \in Heads /\ t \in Tenants
      /\ e.seq = tx[x].head.seq + 1 /\ e.prev = tx[x].head.hash
      /\ e.hash = Hash(tx[x].head.hash, e.content)
  BY NewEntryOK DEF Insert, TxInv
<1>2. /\ \A y \in Txs \ {x} : tx'[y] = tx[y]
      /\ tx'[x].rows = tx[x].rows \cup {e} /\ tx'[x].own = g /\ tx'[x].at = "open"
      /\ tx'[x].tenant = t
      /\ rows' = rows /\ head' = head /\ checkpoints' = checkpoints
  BY DEF Insert, TypeOK, Transactions, tables
<1>3. e.seq \notin Seqs(rows[t])  BY DEF Insert, KeyTaken
<1> HIDE DEF e
<1>4. /\ c \in Heads /\ c.seq \in Nat /\ c.hash \in Seq(Contents)
      /\ tx[x].head \in Heads /\ tx[x].head.seq \in Nat /\ tx[x].head.hash \in Seq(Contents)
      /\ tx[x].own \in Heads /\ rows[t] \in SUBSET Rows /\ tx[x].rows \in SUBSET Rows
      /\ e.content \in Contents
  BY <1>1, AuditAssumption DEF TypeOK, Transactions, Heads, Rows
<1>5. Intact(rows[t], c)  BY <1>1 DEF ChainInv, ChainIntact
<1>6. Fresh(x)  BY <1>1 DEF ChainInv
<1>7. Pending(x)'
  <2>1. CASE tx[x].rows = {}
    <3>1. Seqs(rows[t]) = 1..c.seq  BY <1>5 DEF Intact
    <3>2. tx[x].head.seq <= c.seq /\ (tx[x].head.seq = c.seq => tx[x].head = c)
      BY <1>6, <2>1 DEF Fresh
    <3>3. tx[x].head = c  BY <1>1, <1>3, <1>4, <3>1, <3>2
    <3>4. Intact(rows[t] \cup {e}, g)  BY <1>1, <1>4, <1>5, <3>3, IntactExtend
    <3>5. Log!IsStrictPrefix(c.hash, g.hash)  BY <1>1, <1>4, <3>3, AppendExtends
    <3>6. e.seq > c.seq  BY <1>1, <1>4, <3>3
    <3>7. tx'[x].rows = {e}  BY <1>2, <2>1
    <3> QED  BY <1>2, <3>4, <3>5, <3>6, <3>7 DEF Pending
  <2>2. CASE tx[x].rows # {}
    <3> DEFINE R == rows[t] \cup tx[x].rows
    <3>1. tx[x].head = tx[x].own  BY <1>6, <2>2 DEF Fresh
    <3>2. /\ Intact(R, tx[x].head) /\ \A f \in tx[x].rows : f.seq > c.seq
          /\ Log!IsStrictPrefix(c.hash, tx[x].head.hash)
      BY <2>2, <3>1 DEF ChainInv, Pending
    <3>3. R \in SUBSET Rows  BY <1>4
    <3>4. Intact(R \cup {e}, g)  BY <1>1, <1>4, <3>2, <3>3, IntactExtend
    <3>5. R \cup {e} = rows[t] \cup tx'[x].rows  BY <1>2
    <3>6. Log!IsStrictPrefix(c.hash, g.hash)  BY <1>1, <1>4, <3>2, PrefixTrans
    <3>7. PICK f \in tx[x].rows : f.seq \in Seqs(R) /\ f.seq > c.seq
      BY <2>2, <3>2 DEF Seqs
    <3>8. f.seq \in 1..tx[x].head.seq  BY <3>2, <3>7 DEF Intact
    <3>9. e.seq > c.seq  BY <1>1, <1>4, <3>7, <3>8
    <3> HIDE DEF R
    <3> QED  BY <1>2, <3>2, <3>4, <3>5, <3>6, <3>9 DEF Pending
  <2> QED  BY <2>1, <2>2
<1>8. ChainIntact' /\ CheckpointsHold'
  BY <1>2 DEF ChainInv, ChainIntact, CheckpointsHold
<1>9. ASSUME NEW y \in Txs, tx'[y].at = "insert" PROVE Fresh(y)'
  <2>1. tx'[y] = tx[y]  BY <1>2, <1>9
  <2> QED  BY <1>2, <1>9, <2>1 DEF ChainInv, Fresh
<1>10. ASSUME NEW y \in Txs, tx'[y].rows # {} PROVE Pending(y)'
  <2>1. CASE y = x  BY <1>7, <2>1
  <2>2. CASE y # x
    <3>1. tx'[y] = tx[y]  BY <1>2, <2>2
    <3>2. Pending(y)  BY <1>10, <3>1 DEF ChainInv
    <3> QED  BY <1>2, <3>1, <3>2 DEF Pending
  <2> QED  BY <2>1, <2>2
<1>11. ASSUME NEW y \in Txs, tx'[y].at = "sign" PROVE Signable(y)'
  <2>1. tx'[y] = tx[y]  BY <1>2, <1>11
  <2> QED  BY <1>2, <1>11, <2>1 DEF ChainInv, Signable
<1> QED  BY <1>8, <1>9, <1>10, <1>11 DEF ChainInv

LEMMA CommitChain ==
    ASSUME TypeOK, TxInv, ChainInv, NEW x \in Txs, Commit(x)
    PROVE  /\ ChainInv'
           /\ tx[x].tenant \in Tenants
           /\ head' = [head EXCEPT ![tx[x].tenant] = tx[x].own]
           /\ Log!IsStrictPrefix(head[tx[x].tenant].hash, tx[x].own.hash)
<1> DEFINE t == tx[x].tenant
           R == rows[t] \cup tx[x].rows
<1>1. /\ tx[x].at = "open" /\ tx[x].rows # {} /\ t \in Tenants
  BY DEF Commit, TxInv
<1>2. /\ \A y \in Txs \ {x} : tx'[y] = tx[y]
      /\ tx'[x] = NoTx
      /\ checkpoints' = checkpoints
      /\ head' = [head EXCEPT ![t] = tx[x].own]
      /\ rows' = [rows EXCEPT ![t] = R]
      /\ head'[t] = tx[x].own /\ rows'[t] = R
      /\ \A u \in Tenants \ {t} : head'[u] = head[u] /\ rows'[u] = rows[u]
  BY <1>1 DEF Commit, TypeOK
<1>3. /\ Intact(R, tx[x].own) /\ \A e \in tx[x].rows : e.seq > head[t].seq
      /\ Log!IsStrictPrefix(head[t].hash, tx[x].own.hash)
  BY <1>1 DEF ChainInv, Pending
<1>4. \A u \in Tenants : rows[u] \subseteq rows'[u]  BY <1>2
<1>5. head[t].seq \in Nat /\ tx[x].own.seq \in Nat
  BY <1>1, AuditAssumption DEF TypeOK, Transactions, Heads
<1>6. head[t].seq < tx[x].own.seq
  <2>1. PICK e \in tx[x].rows : e.seq > head[t].seq  BY <1>1, <1>3
  <2>2. e.seq \in 1..tx[x].own.seq  BY <1>3 DEF Intact, Seqs
  <2> QED  BY <1>5, <2>1, <2>2
<1> HIDE DEF R
<1>7. ChainIntact'
  <2> SUFFICES ASSUME NEW u \in Tenants PROVE Intact(rows[u], head[u])'
    BY DEF ChainIntact
  <2>1. CASE u = t  BY <1>2, <1>3, <2>1 DEF Intact
  <2>2. CASE u # t
    <3>1. Intact(rows[u], head[u])  BY DEF ChainInv, ChainIntact
    <3> QED  BY <1>2, <2>2, <3>1 DEF Intact
  <2> QED  BY <2>1, <2>2
<1>8. CheckpointsHold'
  BY <1>2, <1>4 DEF ChainInv, CheckpointsHold
<1>9. ASSUME NEW y \in Txs, tx'[y].at = "insert" PROVE Fresh(y)'
  <2>1. y # x /\ tx'[y] = tx[y]  BY <1>2, <1>9 DEF NoTx
  <2>2. tx[y].tenant \in Tenants  BY <1>9, <2>1 DEF TxInv
  <2>3. Fresh(y)  BY <1>9, <2>1 DEF ChainInv
  <2>4. CASE tx[y].tenant # t  BY <1>2, <2>1, <2>2, <2>3, <2>4 DEF Fresh
  <2>5. CASE tx[y].tenant = t
    <3>1. tx[y].rows = {}  BY <1>1, <2>1, <2>5 DEF TxInv
    <3>2. tx[y].head.seq \in Nat  BY AuditAssumption DEF TypeOK, Transactions, Heads
    <3>3. tx[y].head.seq < tx[x].own.seq  BY <1>5, <1>6, <2>3, <2>5, <3>1, <3>2 DEF Fresh
    <3> QED  BY <1>2, <1>5, <2>1, <2>5, <3>1, <3>2, <3>3 DEF Fresh
  <2> QED  BY <2>4, <2>5
<1>10. ASSUME NEW y \in Txs, tx'[y].rows # {} PROVE Pending(y)'
  <2>1. y # x /\ tx'[y] = tx[y]  BY <1>2, <1>10 DEF NoTx
  <2>2. tx[y].tenant # t  BY <1>1, <1>10, <2>1 DEF TxInv
  <2>3. tx[y].tenant \in Tenants  BY <1>10, <2>1 DEF TxInv
  <2>4. Pending(y)  BY <1>10, <2>1 DEF ChainInv
  <2>5. rows'[tx[y].tenant] = rows[tx[y].tenant] /\ head'[tx[y].tenant] = head[tx[y].tenant]
    BY <1>2, <2>2, <2>3
  <2> QED  BY <2>1, <2>4, <2>5 DEF Pending
<1>11. ASSUME NEW y \in Txs, tx'[y].at = "sign" PROVE Signable(y)'
  <2>1. tx'[y] = tx[y]  BY <1>2, <1>11 DEF NoTx
  <2>2. tx[y].tenant \in Tenants /\ Signable(y)  BY <1>11, <2>1 DEF TxInv, ChainInv
  <2> QED  BY <1>4, <2>1, <2>2 DEF Signable
<1>12. ChainInv'  BY <1>7, <1>8, <1>9, <1>10, <1>11 DEF ChainInv
<1> QED  BY <1>1, <1>2, <1>3, <1>12

LEMMA WriteCheckpointChain ==
    ASSUME TypeOK, TxInv, ChainInv, NEW x \in Txs, WriteCheckpoint(x)
    PROVE  ChainInv'
<1> DEFINE t == tx[x].tenant
           c == tx[x].head
<1>1. /\ tx[x].at = "sign" /\ c.seq > 0 /\ t \in Tenants /\ rows' = rows /\ head' = head
      /\ \A y \in Txs \ {x} : tx'[y] = tx[y]
      /\ tx'[x] = NoTx
      /\ \A u \in Tenants : \A d \in checkpoints'[u] : d \in checkpoints[u] \/ (u = t /\ d = c)
  BY DEF WriteCheckpoint, SignedHead, TypeOK, TxInv
<1>2. \E e \in rows[t] : e.seq = c.seq /\ e.hash = c.hash
  BY <1>1 DEF ChainInv, Signable
<1>3. CheckpointsHold'  BY <1>1, <1>2 DEF ChainInv, CheckpointsHold
<1>4. ChainIntact'  BY <1>1 DEF ChainInv, ChainIntact
<1>5. ASSUME NEW y \in Txs, tx'[y].at = "insert" PROVE Fresh(y)'
  <2>1. tx'[y] = tx[y]  BY <1>1, <1>5 DEF NoTx
  <2> QED  BY <1>1, <1>5, <2>1 DEF ChainInv, Fresh
<1>6. ASSUME NEW y \in Txs, tx'[y].rows # {} PROVE Pending(y)'
  <2>1. tx'[y] = tx[y]  BY <1>1, <1>6 DEF NoTx
  <2>2. Pending(y)  BY <1>6, <2>1 DEF ChainInv
  <2> QED  BY <1>1, <2>1, <2>2 DEF Pending
<1>7. ASSUME NEW y \in Txs, tx'[y].at = "sign" PROVE Signable(y)'
  <2>1. tx'[y] = tx[y]  BY <1>1, <1>7 DEF NoTx
  <2> QED  BY <1>1, <1>7, <2>1 DEF ChainInv, Signable
<1> QED  BY <1>3, <1>4, <1>5, <1>6, <1>7 DEF ChainInv

LEMMA ChainNext ==
    ASSUME TypeOK, TxInv, ChainInv, [Next]_vars
    PROVE  ChainInv'
<1>1. CASE UNCHANGED vars
  BY <1>1, ChainFrame DEF vars
<1>2. ASSUME NEW x \in Txs, TxStep(x) PROVE ChainInv'
  <2>1. CASE ReadHead(x)         BY <2>1, ReadHeadChain
  <2>2. CASE Insert(x)           BY <2>2, InsertChain
  <2>3. CASE Commit(x)           BY <2>3, CommitChain
  <2>4. CASE WriteCheckpoint(x)  BY <2>4, WriteCheckpointChain
  <2>5. ASSUME NEW n \in Nodes, NEW t \in Tenants, NEW kind \in {"entry", "checkpoint"},
               Gate(x, n, t, kind)
        PROVE  ChainInv'
    <3>1. /\ \A y \in Txs \ {x} : tx'[y] = tx[y]
          /\ tx'[x].at \in {"epoch", "head"} /\ tx'[x].rows = {}
      BY <2>5 DEF Gate, TypeOK, NoTx
    <3> QED  BY <2>5, <3>1, ChainFrame DEF Gate
  <2>6. CASE GateAgain(x)
    <3>1. /\ \A y \in Txs \ {x} : tx'[y] = tx[y]
          /\ tx'[x].at = "epoch" /\ tx'[x].rows = tx[x].rows /\ tx'[x].own = tx[x].own
          /\ tx'[x].tenant = tx[x].tenant
      BY <2>6 DEF GateAgain, TypeOK, Transactions
    <3> QED  BY <2>6, <3>1, ChainFrame DEF GateAgain
  <2>7. CASE ReadEpoch(x)
    <3>1. /\ \A y \in Txs \ {x} : tx'[y] = tx[y]
          /\ tx'[x].at = "head" /\ tx'[x].rows = tx[x].rows /\ tx'[x].own = tx[x].own
          /\ tx'[x].tenant = tx[x].tenant
      BY <2>7 DEF ReadEpoch, TypeOK, Transactions
    <3> QED  BY <2>7, <3>1, ChainFrame DEF ReadEpoch
  <2>8. CASE Rollback(x)
    <3>1. /\ \A y \in Txs \ {x} : tx'[y] = tx[y]
          /\ tx'[x].at = "none" /\ tx'[x].rows = {}
      BY <2>8 DEF Rollback, TypeOK, NoTx
    <3> QED  BY <2>8, <3>1, ChainFrame DEF Rollback
  <2>9. ASSUME NEW n \in Nodes, NEW kind \in TxKinds, BootTx(x, n, kind) PROVE ChainInv'
    <3>1. /\ \A y \in Txs \ {x} : tx'[y] = tx[y]
          /\ tx'[x].at = "head" /\ tx'[x].rows = {}
      BY <2>9 DEF BootTx, TypeOK, NoTx
    <3> QED  BY <2>9, <3>1, ChainFrame DEF BootTx
  <2> QED
    BY <1>2, <2>1, <2>2, <2>3, <2>4, <2>5, <2>6, <2>7, <2>8, <2>9
    DEF TxStep, SeedPack, AppendMarker, TxKinds
<1>3. ASSUME NEW n \in Nodes, ProcessStep(n) PROVE ChainInv'
  <2>1. CASE EndProcess(n)
    <3>1. \A y \in Txs : tx'[y] = tx[y] \/ (tx'[y].at = "none" /\ tx'[y].rows = {})
      BY <2>1 DEF EndProcess, NoTx
    <3> QED  BY <2>1, <3>1, ChainFrame DEF EndProcess
  <2>2. CASE StartProcess(n) \/ FindMarker(n) \/ StartHA(n) \/ Elect(n)
    <3>1. UNCHANGED <<tx, tables>>
      BY <2>2 DEF StartProcess, FindMarker, StartHA, Elect
    <3> QED  BY <3>1, ChainFrame
  <2> QED  BY <1>3, <2>1, <2>2 DEF ProcessStep
<1> QED  BY <1>1, <1>2, <1>3 DEF Next

--------------------------------------------------------------------------------
(* Epochs name their writers. *)

\* An epoch that was issued to an instance is never issued to another.
LEMMA LeadersStable ==
    ASSUME LeadInv, [Next]_vars,
           NEW e \in 1..MaxEpoch, leaders[e] # NoNode
    PROVE  leaders'[e] = leaders[e]
<1>1. CASE UNCHANGED vars
  BY <1>1 DEF vars, leadVars, lockVars
<1>2. CASE \E x \in Txs : TxStep(x)
  BY <1>2 DEF TxStep, Gate, GateAgain, ReadEpoch, ReadHead, Insert, Commit, Rollback,
              WriteCheckpoint, SeedPack, AppendMarker, BootTx, leadVars, lockVars
<1>3. ASSUME NEW n \in Nodes, ProcessStep(n) PROVE leaders'[e] = leaders[e]
  <2>1. CASE StartProcess(n) \/ FindMarker(n) \/ StartHA(n) \/ EndProcess(n)
    BY <2>1 DEF StartProcess, FindMarker, StartHA, StartManager, EndProcess, LoseManager,
                leadVars, lockVars
  <2>2. CASE Elect(n) /\ MarkEpoch(n)
    <3>1. /\ leaders' = [leaders EXCEPT ![token[n]] = n]
          /\ leaders[token[n]] = NoNode
      BY <2>2 DEF MarkEpoch, LeadInv, EpochInv
    <3> QED  BY <3>1 DEF LeadInv, LeadTypeOK
  <2>3. CASE Elect(n) /\ ~MarkEpoch(n)
    BY <2>3 DEF Elect, LeadStep, Tick, TryLock, IssueEpoch, GiveUp, StoreEpoch, StoreRole,
                Demote, ClearEpoch, Stop, Unlock, LoseSession, EndSession, lockVars, nodeVars
  <2> QED  BY <1>3, <2>1, <2>2, <2>3 DEF ProcessStep
<1> QED  BY <1>1, <1>2, <1>3 DEF Next

LEMMA NameStable ==
    ASSUME LeadInv, [Next]_vars, NEW e \in Rows, e.epoch > 0 => leaders[e.epoch] = e.content.by
    PROVE  e.epoch > 0 => leaders'[e.epoch] = e.content.by
<1>1. e.epoch \in 0..MaxEpoch /\ e.content.by \in Nodes  BY DEF Rows, Contents
<1>2. e.epoch > 0 => e.epoch \in 1..MaxEpoch  BY <1>1, LeadershipAssumption
<1> QED  BY <1>1, <1>2, LeadersStable, LeadershipAssumption

\* Committed entries and those of open transactions keep their names.
LEMMA NamesKept ==
    ASSUME TypeOK, LeadInv, WriterInv, [Next]_vars
    PROVE  /\ \A x \in Txs : \A e \in tx[x].rows : e.epoch > 0 => leaders'[e.epoch] = e.content.by
           /\ \A t \in Tenants : \A e \in rows[t] : e.epoch > 0 => leaders'[e.epoch] = e.content.by
           /\ \A x \in Txs : tx[x].epoch > 0 => leaders'[tx[x].epoch] = tx[x].node
<1>1. /\ \A x \in Txs : tx[x].rows \subseteq Rows /\ tx[x].epoch \in 0..MaxEpoch
      /\ \A t \in Tenants : rows[t] \subseteq Rows
  BY DEF TypeOK, Transactions
<1>2. ASSUME NEW x \in Txs, tx[x].epoch > 0 PROVE leaders'[tx[x].epoch] = tx[x].node
  <2>1. tx[x].node \in Nodes /\ leaders[tx[x].epoch] = tx[x].node  BY <1>2 DEF WriterInv
  <2>2. tx[x].epoch \in 1..MaxEpoch  BY <1>1, <1>2, LeadershipAssumption
  <2> QED  BY <2>1, <2>2, LeadersStable, LeadershipAssumption
<1> QED  BY <1>1, <1>2, NameStable DEF WriterInv, EpochNamesWriter

\* A transaction that does not take an epoch or insert an entry names nobody new.
LEMMA WriterFrame ==
    ASSUME TypeOK, LeadInv, WriterInv, [Next]_vars,
           \A y \in Txs : tx'[y].epoch > 0 => tx'[y].epoch = tx[y].epoch /\ tx'[y].node = tx[y].node,
           \A y \in Txs : tx'[y].rows = {} \/ tx'[y].rows = tx[y].rows,
           \A t \in Tenants : \A e \in rows'[t] : e \in rows[t] \/ \E y \in Txs : e \in tx[y].rows
    PROVE  WriterInv'
<1>1. \A x \in Txs : tx'[x].epoch > 0 => tx'[x].node \in Nodes /\ leaders'[tx'[x].epoch] = tx'[x].node
  BY NamesKept DEF WriterInv
<1>2. \A x \in Txs : \A e \in tx'[x].rows : e.epoch > 0 => leaders'[e.epoch] = e.content.by
  BY NamesKept
<1>3. EpochNamesWriter'
  BY NamesKept DEF EpochNamesWriter
<1> QED  BY <1>1, <1>2, <1>3 DEF WriterInv

LEMMA ReadEpochWriter ==
    ASSUME TypeOK, TxInv, LeadInv, WriterInv, NEW x \in Txs, ReadEpoch(x)
    PROVE  WriterInv'
<1>1. tx[x].node \in Nodes  BY DEF TxInv, ReadEpoch
<1>2. epoch[tx[x].node] > 0 => leaders[epoch[tx[x].node]] = tx[x].node
  BY <1>1 DEF LeadInv, EpochInv
<1>3. /\ \A y \in Txs \ {x} : tx'[y] = tx[y]
      /\ tx'[x].epoch = epoch[tx[x].node] /\ tx'[x].node = tx[x].node /\ tx'[x].rows = tx[x].rows
      /\ leaders' = leaders /\ rows' = rows
  BY DEF ReadEpoch, TypeOK, Transactions, leadVars, lockVars, tables
<1>4. \A y \in Txs : tx'[y].epoch > 0 => tx'[y].node \in Nodes /\ leaders'[tx'[y].epoch] = tx'[y].node
  BY <1>1, <1>2, <1>3 DEF WriterInv
<1>5. \A y \in Txs : \A e \in tx'[y].rows : e.epoch > 0 => leaders'[e.epoch] = e.content.by
  BY <1>3 DEF WriterInv
<1>6. EpochNamesWriter'  BY <1>3 DEF WriterInv, EpochNamesWriter
<1> QED  BY <1>4, <1>5, <1>6 DEF WriterInv

LEMMA InsertWriter ==
    ASSUME TypeOK, TxInv, LeadInv, WriterInv, NEW x \in Txs, Insert(x)
    PROVE  WriterInv'
<1> DEFINE e == NewEntry(x)
<1>1. e.epoch = tx[x].epoch /\ e.content.by = tx[x].node
  BY NewEntryOK DEF Insert
<1>2. /\ \A y \in Txs \ {x} : tx'[y] = tx[y]
      /\ tx'[x].epoch = 0 /\ tx'[x].rows = tx[x].rows \cup {e}
      /\ leaders' = leaders /\ rows' = rows
  BY DEF Insert, TypeOK, Transactions, leadVars, lockVars, tables
<1> HIDE DEF e
<1>3. \A y \in Txs : tx'[y].epoch > 0 => tx'[y].node \in Nodes /\ leaders'[tx'[y].epoch] = tx'[y].node
  BY <1>2 DEF WriterInv
<1>4. \A y \in Txs : \A f \in tx'[y].rows : f.epoch > 0 => leaders'[f.epoch] = f.content.by
  BY <1>1, <1>2 DEF WriterInv
<1>5. EpochNamesWriter'  BY <1>2 DEF WriterInv, EpochNamesWriter
<1> QED  BY <1>3, <1>4, <1>5 DEF WriterInv

LEMMA WriterNext ==
    ASSUME TypeOK, TxInv, LeadInv, WriterInv, [Next]_vars
    PROVE  WriterInv'
<1>1. CASE UNCHANGED vars
  BY <1>1, WriterFrame DEF vars, tables
<1>2. ASSUME NEW x \in Txs, TxStep(x) PROVE WriterInv'
  <2>1. CASE ReadEpoch(x)  BY <2>1, ReadEpochWriter
  <2>2. CASE Insert(x)     BY <2>2, InsertWriter
  <2>3. CASE Commit(x)
    <3>1. /\ \A y \in Txs \ {x} : tx'[y] = tx[y]
          /\ tx'[x].epoch = 0 /\ tx'[x].rows = {}
          /\ \A t \in Tenants : \A e \in rows'[t] : e \in rows[t] \/ e \in tx[x].rows
      BY <2>3 DEF Commit, TypeOK, NoTx
    <3> QED  BY <3>1, WriterFrame
  <2>4. CASE Rollback(x) \/ WriteCheckpoint(x)
    <3>1. /\ \A y \in Txs \ {x} : tx'[y] = tx[y]
          /\ tx'[x].epoch = 0 /\ tx'[x].rows = {} /\ rows' = rows
      BY <2>4 DEF Rollback, WriteCheckpoint, TypeOK, NoTx, tables
    <3> QED  BY <3>1, WriterFrame
  <2>5. CASE ReadHead(x) \/ GateAgain(x)
    <3>1. /\ \A y \in Txs \ {x} : tx'[y] = tx[y]
          /\ tx'[x].epoch = tx[x].epoch /\ tx'[x].node = tx[x].node
          /\ tx'[x].rows = tx[x].rows /\ rows' = rows
      BY <2>5 DEF ReadHead, GateAgain, TypeOK, Transactions, tables
    <3> QED  BY <3>1, WriterFrame
  <2>6. ASSUME NEW n \in Nodes, NEW t \in Tenants, NEW kind \in {"entry", "checkpoint"},
               Gate(x, n, t, kind)
        PROVE  WriterInv'
    <3>1. /\ \A y \in Txs \ {x} : tx'[y] = tx[y]
          /\ tx'[x].epoch = 0 /\ tx'[x].rows = {} /\ rows' = rows
      BY <2>6 DEF Gate, TypeOK, NoTx, tables
    <3> QED  BY <3>1, WriterFrame
  <2>7. ASSUME NEW n \in Nodes, NEW kind \in TxKinds, BootTx(x, n, kind) PROVE WriterInv'
    <3>1. /\ \A y \in Txs \ {x} : tx'[y] = tx[y]
          /\ tx'[x].epoch = 0 /\ tx'[x].rows = {} /\ rows' = rows
      BY <2>7 DEF BootTx, TypeOK, NoTx, tables
    <3> QED  BY <3>1, WriterFrame
  <2> QED
    BY <1>2, <2>1, <2>2, <2>3, <2>4, <2>5, <2>6, <2>7 DEF TxStep, SeedPack, AppendMarker, TxKinds
<1>3. ASSUME NEW n \in Nodes, ProcessStep(n) PROVE WriterInv'
  <2>1. CASE EndProcess(n)
    <3>1. /\ \A y \in Txs : tx'[y] = tx[y] \/ (tx'[y].epoch = 0 /\ tx'[y].rows = {})
          /\ rows' = rows
      BY <2>1 DEF EndProcess, NoTx, tables
    <3> QED  BY <3>1, WriterFrame
  <2>2. CASE StartProcess(n) \/ FindMarker(n) \/ StartHA(n) \/ Elect(n)
    <3>1. tx' = tx /\ rows' = rows
      BY <2>2 DEF StartProcess, FindMarker, StartHA, Elect, tables
    <3> QED  BY <3>1, WriterFrame
  <2> QED  BY <1>3, <2>1, <2>2 DEF ProcessStep
<1> QED  BY <1>1, <1>2, <1>3 DEF Next

--------------------------------------------------------------------------------
(* The theorems. *)

LEMMA InitIInv == Init => IInv
<1> SUFFICES ASSUME Init PROVE IInv  OBVIOUS
<1>1. WriterInv  BY DEF Init, NoTx, WriterInv, EpochNamesWriter
<1>2. LeadInv  BY LeadInitInv DEF Init
<1> QED  BY <1>1, <1>2, InitOK, InitChain DEF IInv

LEMMA NextIInv == IInv /\ [Next]_vars => IInv'
  BY LeadNextInv, NextOK, ChainNext, WriterNext DEF IInv

\* Every variable keeps its type: no sequence number leaves its bound, no entry
\* lacks a field, no transaction is of no tenant once it is open.
THEOREM TypeCorrect == Spec => []TypeOK
<1>1. IInv => TypeOK  BY DEF IInv
<1> QED  BY <1>1, InitIInv, NextIInv, PTL DEF Spec

\* The invariant, for the theorems that follow.
THEOREM InvariantCorrect == Spec => []IInv
  BY InitIInv, NextIInv, PTL DEF Spec

\* Verify finds every committed chain unbroken: appends of any number of
\* instances race with nothing but the primary key between them, and one that
\* read an old head fails on it.
THEOREM ChainIntactCorrect == Spec => []ChainIntact
<1>1. IInv => ChainIntact  BY DEF IInv, ChainInv
<1> QED  BY <1>1, InitIInv, NextIInv, PTL DEF Spec

\* The head a checkpoint was signed over is, and stays, a committed entry.
THEOREM CheckpointsCorrect == Spec => []CheckpointsHold
<1>1. IInv => CheckpointsHold  BY DEF IInv, ChainInv
<1> QED  BY <1>1, InitIInv, NextIInv, PTL DEF Spec

\* An entry with an epoch was written by the instance the epoch was issued to.
THEOREM EpochNamesWriterCorrect == Spec => []EpochNamesWriter
<1>1. IInv => EpochNamesWriter  BY DEF IInv, WriterInv
<1> QED  BY <1>1, InitIInv, NextIInv, PTL DEF Spec

\* An instance that says it is leader holds an epoch that was issued to it.
THEOREM LeaderHasEpochCorrect == Spec => []LeaderHasEpoch
<1>1. IInv => LeaderHasEpoch  BY DEF IInv, LeadInv, EpochInv, LeaderHasEpoch
<1> QED  BY <1>1, InitIInv, NextIInv, PTL DEF Spec

\* The instance whose session is alive has an epoch above all others.
THEOREM LawfulLeaderCorrect == Spec => []LawfulLeaderIsNewest
<1>1. IInv => LawfulLeaderIsNewest
  <2> SUFFICES ASSUME IInv, NEW n \in Nodes, NEW m \in Nodes, n # m,
                      role[n] = "leader", conn[n] = "ok"
               PROVE  epoch[m] < epoch[n]
    BY DEF LawfulLeaderIsNewest
  <2>1. epoch[n] \in 0..MaxEpoch /\ epoch[m] \in 0..MaxEpoch /\ lastEpoch \in 0..MaxEpoch
    BY DEF IInv, TypeOK, LeadTypeOK
  <2>2. epoch[n] = lastEpoch /\ epoch[n] > 0 /\ leaders[epoch[n]] = n
    BY DEF IInv, LeadInv, EpochInv
  <2>3. CASE epoch[m] = 0  BY <2>2, <2>3
  <2>4. CASE epoch[m] # 0
    <3>1. epoch[m] > 0 /\ epoch[m] \in 1..MaxEpoch  BY <2>1, <2>4, LeadershipAssumption
    <3>2. leaders[epoch[m]] = m  BY <3>1 DEF IInv, LeadInv, EpochInv
    <3>3. epoch[m] <= lastEpoch
      BY <3>1, <3>2, LeadershipAssumption DEF IInv, LeadInv, EpochInv
    <3>4. epoch[m] # epoch[n]  BY <2>2, <3>2
    <3> QED  BY <2>1, <2>2, <3>1, <3>3, <3>4, LeadershipAssumption
  <2> QED  BY <2>3, <2>4
<1> QED  BY <1>1, InitIInv, NextIInv, PTL DEF Spec

\* A step either leaves all heads alone or extends one of them.
LEMMA HeadStep ==
    ASSUME IInv, [Next]_vars
    PROVE  [Log!LogNext]_[t \in Tenants |-> head[t].hash]
<1> USE DEF IInv
<1>1. ASSUME NEW x \in Txs, Commit(x) PROVE Log!LogNext
  <2> DEFINE l == [t \in Tenants |-> head[t].hash]
  <2>0. PICK u \in Tenants : u = tx[x].tenant  BY <1>1 DEF Commit, TxInv
  <2>1. /\ head' = [head EXCEPT ![u] = tx[x].own]
        /\ Log!IsStrictPrefix(head[u].hash, tx[x].own.hash)
    BY <1>1, <2>0, CommitChain
  <2>2. DOMAIN head = Tenants  BY DEF TypeOK
  <2>3. \A t \in Tenants : head'[t].hash = IF t = u THEN tx[x].own.hash ELSE head[t].hash
    BY <2>1, <2>2
  <2>4. l' = [l EXCEPT ![u] = l'[u]]  BY <2>1, <2>3
  <2>5. Log!IsStrictPrefix(l[u], l'[u])  BY <2>1, <2>3
  <2>6. Log!Extend(u)  BY <2>4, <2>5 DEF Log!Extend
  <2> QED  BY <2>6 DEF Log!LogNext
<1>2. ASSUME NEW x \in Txs, TxStep(x), ~Commit(x) PROVE head' = head
  BY <1>2 DEF TxStep, Gate, GateAgain, ReadEpoch, ReadHead, Insert, Rollback, WriteCheckpoint,
              SeedPack, AppendMarker, BootTx, tables
<1>3. ASSUME NEW n \in Nodes, ProcessStep(n) PROVE head' = head
  BY <1>3 DEF ProcessStep, StartProcess, FindMarker, StartHA, EndProcess, Elect, tables
<1>4. CASE UNCHANGED vars  BY <1>4 DEF vars, tables
<1> QED  BY <1>1, <1>2, <1>3, <1>4 DEF Next

\* A leader holds an epoch that was issued to it, and of several that believe they
\* lead the one with the session is the newest (promote, demote, tryAcquireLocked).
THEOREM LeadershipCorrect == Spec => []LeadershipIsSound
  BY LeaderHasEpochCorrect, LawfulLeaderCorrect, PTL DEF LeadershipIsSound

\* What the chain of a tenant has recorded stays where it is: every commit of
\* Append puts its entries after all those committed before, for any number of
\* racing transactions and of entries in each.
THEOREM AppendOnlyCorrect == Spec => AppendOnly
<1>1. Init => Log!LogInit
  BY DEF Init, Genesis, Zero, Log!LogInit
<1> QED  BY <1>1, HeadStep, InitIInv, NextIInv, PTL DEF Spec, AppendOnly, Log!LogSpec

================================================================================
