----------------------------- MODULE ScanRun_proofs -----------------------------
(***************************************************************************)
(* Proofs about ScanRun for every number of sessions, robots, checks,      *)
(* callers and workers, and for any number of faults and crashes.          *)
(***************************************************************************)
EXTENDS ScanRun, FiniteSetTheorems, SequenceTheorems, TLAPS

--------------------------------------------------------------------------------
(* Counting. *)

\* The matrix of a session is finite, and so is every part of it: the counters
\* computed from it are natural numbers.
LEMMA ItemsFinite ==
    /\ IsFiniteSet(Items)
    /\ Cardinality(Items) \in Nat
    /\ \A s, O : Cardinality(Recorded(s, O)) \in Nat
<1>1. IsFiniteSet(1..NumRobots) /\ IsFiniteSet(1..NumChecks)
  BY FS_Interval, SizeAssumption
<1>2. IsFiniteSet(Items)
  BY <1>1, FS_Product DEF Items, Robots
<1>3. ASSUME NEW s, NEW O
      PROVE  Cardinality(Recorded(s, O)) \in Nat
  <2>1. Recorded(s, O) \subseteq Items
    BY DEF Recorded
  <2>2. QED
    BY <1>2, <2>1, FS_Subset, FS_CardinalityType
<1>4. QED
  BY <1>2, <1>3, FS_CardinalityType

\* The outcome a probe leads to is one that scan.go knows, and the health window
\* stays a number.
LEMMA ProbeTypes ==
    \A probe \in Probes, h \in Nat :
        OutcomeOf(probe) \in Outcomes /\ NextHealth(h, probe) \in Nat
  BY DEF Probes, OutcomeOf, Outcomes, NextHealth

--------------------------------------------------------------------------------
(* Type correctness. *)

\* The initial state is well typed.
LEMMA TypeInit == Init => TypeOK
<1> SUFFICES ASSUME Init
             PROVE  TypeOK
  OBVIOUS
<1>0. <<>> \in Seq(Statuses) /\ <<>> \in Seq({"progress"} \cup Terminal)
  BY EmptySeq
<1>1. RowsTypeOK
  BY <1>0 DEF Init, RowsTypeOK, Statuses
<1>2. RunTypeOK
  BY DEF Init, RunTypeOK, RunPCs, Terminal
<1>3. WorkTypeOK
  BY DEF Init, WorkTypeOK, WorkPCs
<1>4. CallTypeOK
  BY DEF Init, CallTypeOK, CallPCs
<1>5. OtherTypeOK
  <2>1. faults = 0 /\ crashes = 0
    BY DEF Init
  <2>2. MaxFaults \in Nat /\ MaxCrashes \in Nat
    BY SizeAssumption
  <2>3. faults \in 0..MaxFaults /\ crashes \in 0..MaxCrashes
    BY <2>1, <2>2
  <2>4. QED
    BY <1>0, <2>3 DEF Init, OtherTypeOK
<1>6. QED
  BY <1>1, <1>2, <1>3, <1>4, <1>5 DEF TypeOK

\* A transition leaves the rows well typed.
LEMMA WriteTransitionType ==
    ASSUME RowsTypeOK, NEW s \in Sessions, NEW to \in Statuses,
           NEW why \in {"", "operator", "context"},
           WriteTransition(s, to, why)
    PROVE  RowsTypeOK'
<1>1. Append(audit[s], to) \in Seq(Statuses)
  BY AppendProperties DEF RowsTypeOK
<1>2. QED
  BY <1>1, ItemsFinite DEF RowsTypeOK, WriteTransition

\* So does the creation of a session.
LEMMA StartScanType ==
    ASSUME RowsTypeOK, NEW s \in Sessions, NEW f \in Fleets, NEW n \in Nat,
           StartScan(s, f, n)
    PROVE  RowsTypeOK'
  BY DEF RowsTypeOK, StartScan, Statuses, Live

\* And every event that is published.
LEMMA EventType ==
    ASSUME OtherTypeOK, NEW s \in Sessions, NEW e \in {"progress"} \cup Terminal
    PROVE  [events EXCEPT ![s] = Append(@, e)] \in [Sessions -> Seq({"progress"} \cup Terminal)]
<1>1. Append(events[s], e) \in Seq({"progress"} \cup Terminal)
  BY AppendProperties DEF OtherTypeOK
<1>2. QED
  BY <1>1 DEF OtherTypeOK

\* What a step leaves alone keeps its type.
LEMMA TypeFrame ==
    ASSUME TypeOK
    PROVE  /\ UNCHANGED dbVars => RowsTypeOK'
           /\ UNCHANGED <<run, verdict, ctxVars>> => RunTypeOK'
           /\ UNCHANGED workVars => WorkTypeOK'
           /\ UNCHANGED call => CallTypeOK'
           /\ UNCHANGED <<openTx, events, bounds>> => OtherTypeOK'
<1>1. UNCHANGED dbVars => RowsTypeOK'
  BY DEF TypeOK, RowsTypeOK, dbVars
<1>2. UNCHANGED <<run, verdict, ctxVars>> => RunTypeOK'
  BY DEF TypeOK, RunTypeOK, ctxVars
<1>3. UNCHANGED workVars => WorkTypeOK'
  BY DEF TypeOK, WorkTypeOK, workVars
<1>4. UNCHANGED call => CallTypeOK'
  BY DEF TypeOK, CallTypeOK
<1>5. UNCHANGED <<openTx, events, bounds>> => OtherTypeOK'
  BY DEF TypeOK, OtherTypeOK, bounds
<1>6. QED
  BY <1>1, <1>2, <1>3, <1>4, <1>5

\* A worker that looks at the health window moves its item to a known place.
LEMMA CheckHealthType ==
    ASSUME WorkTypeOK, NEW s \in Sessions, NEW i \in Items, CheckHealth(s, i)
    PROVE  WorkTypeOK'
<1>1. /\ [work EXCEPT ![s][i] = "record"] \in [Sessions -> [Items -> WorkPCs]]
      /\ [work EXCEPT ![s][i] = "exec"] \in [Sessions -> [Items -> WorkPCs]]
  BY DEF WorkTypeOK, WorkPCs
<1>2. [outcome EXCEPT ![s][i] = "skipped"] \in [Sessions -> [Items -> Outcomes \cup {"none"}]]
  BY DEF WorkTypeOK, Outcomes
<1>3. /\ work' = [work EXCEPT ![s][i] = "record"] \/ work' = [work EXCEPT ![s][i] = "exec"]
      /\ outcome' = [outcome EXCEPT ![s][i] = "skipped"] \/ outcome' = outcome
      /\ health' = health
  BY DEF CheckHealth
<1>4. QED
  BY <1>1, <1>2, <1>3 DEF WorkTypeOK

\* So does one that asks whether its result may be recorded.
LEMMA BeginRecordType ==
    ASSUME WorkTypeOK, NEW s \in Sessions, NEW i \in Items, BeginRecord(s, i)
    PROVE  WorkTypeOK'
<1>1. /\ [work EXCEPT ![s][i] = "txRecord"] \in [Sessions -> [Items -> WorkPCs]]
      /\ [work EXCEPT ![s][i] = "dropped"] \in [Sessions -> [Items -> WorkPCs]]
  BY DEF WorkTypeOK, WorkPCs
<1>2. work' = [work EXCEPT ![s][i] = "txRecord"] \/ work' = [work EXCEPT ![s][i] = "dropped"]
  BY DEF BeginRecord
<1>3. outcome' = outcome /\ health' = health
  BY DEF BeginRecord
<1>4. (work \in [Sessions -> [Items -> WorkPCs]])'
  BY <1>1, <1>2
<1>5. QED
  BY <1>3, <1>4 DEF WorkTypeOK

\* And one that commits it: the counters stay numbers.
LEMMA CommitRecordType ==
    ASSUME RowsTypeOK, WorkTypeOK, NEW s \in Sessions, NEW i \in Items, CommitRecord(s, i)
    PROVE  RowsTypeOK'
<1> DEFINE d == IF outcome[s][i] \in {"fail", "error"} THEN 1 ELSE 0
           p == [completed |-> progress[s].completed + 1,
                 failed |-> progress[s].failed + d]
<1>1. p \in [completed : Nat, failed : Nat]
  <2>1. progress[s] \in [completed : Nat, failed : Nat]
    BY DEF RowsTypeOK
  <2>2. QED
    BY <2>1
<1>2. progress' = [progress EXCEPT ![s] = p]
  BY DEF CommitRecord
<1> HIDE DEF p
<1>3. (progress \in [Sessions -> [completed : Nat, failed : Nat]])'
  BY <1>1, <1>2 DEF RowsTypeOK
<1>4. outcome[s][i] \in Outcomes \cup {"none"}
  BY DEF WorkTypeOK
<1>5. [results EXCEPT ![s][i] = outcome[s][i]] \in [Sessions -> [Items -> Outcomes \cup {"none"}]]
  BY <1>4 DEF RowsTypeOK
<1>6. results' = [results EXCEPT ![s][i] = outcome[s][i]]
  BY DEF CommitRecord
<1>7. QED
  BY <1>3, <1>5, <1>6 DEF CommitRecord, RowsTypeOK

\* And every step keeps the types.
LEMMA TypeNext == TypeOK /\ [Next]_vars => TypeOK'
<1> SUFFICES ASSUME TypeOK, [Next]_vars
             PROVE  TypeOK'
  OBVIOUS
<1> USE DEF TypeOK
<1>1. ASSUME NEW s \in Sessions, NEW f \in Fleets, StartFromAPI(s, f)
      PROVE  TypeOK'
  <2>1. WorkTypeOK' /\ CallTypeOK' /\ OtherTypeOK'
    BY <1>1, TypeFrame DEF StartFromAPI
  <2>2. RowsTypeOK'
    BY <1>1, StartScanType, ItemsFinite DEF StartFromAPI, RowsTypeOK
  <2>3. RunTypeOK'
    BY <1>1 DEF StartFromAPI, RunTypeOK, RunPCs, ctxVars
  <2>4. QED
    BY <2>1, <2>2, <2>3
<1>2. ASSUME NEW s \in Sessions, NEW f \in Fleets, StartFromSchedule(s, f)
      PROVE  TypeOK'
  <2>1. WorkTypeOK' /\ CallTypeOK' /\ OtherTypeOK'
    BY <1>2, TypeFrame DEF StartFromSchedule
  <2>2. RowsTypeOK'
    BY <1>2, StartScanType, ItemsFinite DEF StartFromSchedule, RowsTypeOK
  <2>3. RunTypeOK'
    BY <1>2 DEF StartFromSchedule, RunTypeOK, RunPCs, ctxVars
  <2>4. QED
    BY <2>1, <2>2, <2>3
<1>3. ASSUME NEW s \in Sessions, BeginRunning(s)
      PROVE  TypeOK'
  <2>1. RowsTypeOK' /\ WorkTypeOK' /\ CallTypeOK'
    BY <1>3, TypeFrame DEF BeginRunning
  <2>2. RunTypeOK'
    BY <1>3 DEF BeginRunning, RunTypeOK, Return, RunPCs, ctxVars
  <2>3. OtherTypeOK'
    BY <1>3 DEF BeginRunning, OtherTypeOK, BeginTx, RunTx, TxIds, bounds
  <2>4. QED
    BY <2>1, <2>2, <2>3
<1>4. ASSUME NEW s \in Sessions, CommitRunning(s)
      PROVE  TypeOK'
  <2>1. WorkTypeOK' /\ CallTypeOK'
    BY <1>4, TypeFrame DEF CommitRunning
  <2>2. RowsTypeOK'
    BY <1>4, WriteTransitionType, TypeFrame DEF CommitRunning, RowsTypeOK, Statuses, Live
  <2>3. RunTypeOK'
    BY <1>4 DEF CommitRunning, RunTypeOK, Return, RunPCs, ctxVars
  <2>4. OtherTypeOK'
    BY <1>4 DEF CommitRunning, OtherTypeOK, EndTx, bounds
  <2>5. QED
    BY <2>1, <2>2, <2>3, <2>4
<1>5. ASSUME NEW s \in Sessions, RegisterCancel(s)
      PROVE  TypeOK'
  <2>1. RowsTypeOK' /\ WorkTypeOK' /\ CallTypeOK' /\ OtherTypeOK'
    BY <1>5, TypeFrame DEF RegisterCancel
  <2>2. RunTypeOK'
    BY <1>5 DEF RegisterCancel, RunTypeOK, RunPCs, ctxVars
  <2>3. QED
    BY <2>1, <2>2
<1>6. ASSUME NEW s \in Sessions, NEW i \in Items, Dispatch(s, i)
      PROVE  TypeOK'
  <2>1. RowsTypeOK' /\ RunTypeOK' /\ CallTypeOK' /\ OtherTypeOK'
    BY <1>6, TypeFrame DEF Dispatch
  <2>2. WorkTypeOK'
    BY <1>6 DEF Dispatch, WorkTypeOK, WorkPCs
  <2>3. QED
    BY <2>1, <2>2
<1>7. ASSUME NEW s \in Sessions, Drain(s)
      PROVE  TypeOK'
  <2>1. RowsTypeOK' /\ WorkTypeOK' /\ CallTypeOK' /\ OtherTypeOK'
    BY <1>7, TypeFrame DEF Drain
  <2>2. RunTypeOK'
    BY <1>7 DEF Drain, RunTypeOK, RunPCs, RunVerdict, Terminal, ctxVars
  <2>3. QED
    BY <2>1, <2>2
<1>8. ASSUME NEW s \in Sessions, Finalize(s)
      PROVE  TypeOK'
  <2>1. RowsTypeOK' /\ WorkTypeOK' /\ CallTypeOK' /\ OtherTypeOK'
    BY <1>8, TypeFrame DEF Finalize
  <2>2. RunTypeOK'
    BY <1>8 DEF Finalize, RunTypeOK, RunPCs, ctxVars
  <2>3. QED
    BY <2>1, <2>2
<1>9. ASSUME NEW s \in Sessions, BeginTerminate(s)
      PROVE  TypeOK'
  <2>1. RowsTypeOK' /\ WorkTypeOK' /\ CallTypeOK'
    BY <1>9, TypeFrame DEF BeginTerminate
  <2>2. RunTypeOK'
    BY <1>9 DEF BeginTerminate, RunTypeOK, Return, RunPCs, ctxVars
  <2>3. OtherTypeOK'
    BY <1>9 DEF BeginTerminate, OtherTypeOK, BeginTx, RunTx, TxIds, bounds
  <2>4. QED
    BY <2>1, <2>2, <2>3
<1>10. ASSUME NEW s \in Sessions, CommitTerminate(s)
      PROVE  TypeOK'
  <2>1. WorkTypeOK' /\ CallTypeOK'
    BY <1>10, TypeFrame DEF CommitTerminate
  <2>2. RowsTypeOK'
    BY <1>10, WriteTransitionType DEF CommitTerminate, RowsTypeOK, Statuses, RunTypeOK
  <2>3. RunTypeOK'
    BY <1>10 DEF CommitTerminate, RunTypeOK, RunPCs, ctxVars
  <2>4. OtherTypeOK'
    BY <1>10 DEF CommitTerminate, OtherTypeOK, EndTx, bounds
  <2>5. QED
    BY <2>1, <2>2, <2>3, <2>4
<1>11. ASSUME NEW s \in Sessions, Announce(s)
      PROVE  TypeOK'
  <2>1. RowsTypeOK' /\ WorkTypeOK' /\ CallTypeOK'
    BY <1>11, TypeFrame DEF Announce
  <2>2. RunTypeOK'
    BY <1>11 DEF Announce, RunTypeOK, Return, RunPCs, ctxVars
  <2>3. OtherTypeOK'
    BY <1>11, EventType DEF Announce, OtherTypeOK, RunTypeOK, bounds
  <2>4. QED
    BY <2>1, <2>2, <2>3
<1>12. ASSUME NEW s \in Sessions, NEW i \in Items, CheckHealth(s, i)
      PROVE  TypeOK'
  <2>1. RowsTypeOK' /\ RunTypeOK' /\ CallTypeOK' /\ OtherTypeOK'
    BY <1>12, TypeFrame DEF CheckHealth
  <2>2. WorkTypeOK'
    BY <1>12, CheckHealthType
  <2>3. QED
    BY <2>1, <2>2
<1>13. ASSUME NEW s \in Sessions, NEW i \in Items, Exec(s, i)
      PROVE  TypeOK'
  <2>1. RowsTypeOK' /\ RunTypeOK' /\ CallTypeOK' /\ OtherTypeOK'
    BY <1>13, TypeFrame DEF Exec
  <2>2. WorkTypeOK'
    <3>1. Robot(i) \in Robots
      BY DEF Robot, Items
    <3>2. PICK probe \in Probes :
             /\ outcome' = [outcome EXCEPT ![s][i] = OutcomeOf(probe)]
             /\ health' = [health EXCEPT ![s][Robot(i)] = NextHealth(@, probe)]
      BY <1>13 DEF Exec
    <3>3. /\ NextHealth(health[s][Robot(i)], probe) \in Nat
          /\ OutcomeOf(probe) \in Outcomes
      BY <3>1, ProbeTypes DEF WorkTypeOK
    <3>4. QED
      BY <1>13, <3>1, <3>2, <3>3 DEF Exec, WorkTypeOK, WorkPCs
  <2>3. QED
    BY <2>1, <2>2
<1>14. ASSUME NEW s \in Sessions, NEW i \in Items, BeginRecord(s, i)
      PROVE  TypeOK'
  <2>1. RowsTypeOK' /\ RunTypeOK' /\ CallTypeOK'
    BY <1>14, TypeFrame DEF BeginRecord
  <2>2. WorkTypeOK'
    BY <1>14, BeginRecordType
  <2>3. OtherTypeOK'
    <3>1. ItemTx(s, i) \in TxIds
      BY DEF TxIds
    <3>2. QED
      BY <1>14, <3>1 DEF BeginRecord, Recordable, BeginTx, OtherTypeOK, bounds
  <2>4. QED
    BY <2>1, <2>2, <2>3
<1>15. ASSUME NEW s \in Sessions, NEW i \in Items, CommitRecord(s, i)
      PROVE  TypeOK'
  <2>1. RunTypeOK' /\ CallTypeOK'
    BY <1>15, TypeFrame DEF CommitRecord
  <2>2. RowsTypeOK'
    BY <1>15, CommitRecordType
  <2>3. WorkTypeOK'
    BY <1>15 DEF CommitRecord, WorkTypeOK, WorkPCs
  <2>4. OtherTypeOK'
    BY <1>15 DEF CommitRecord, OtherTypeOK, EndTx, bounds
  <2>5. QED
    BY <2>1, <2>2, <2>3, <2>4
<1>16. ASSUME NEW s \in Sessions, NEW i \in Items, PublishProgress(s, i)
      PROVE  TypeOK'
  <2>1. RowsTypeOK' /\ RunTypeOK' /\ CallTypeOK'
    BY <1>16, TypeFrame DEF PublishProgress
  <2>2. WorkTypeOK'
    BY <1>16 DEF PublishProgress, WorkTypeOK, WorkPCs
  <2>3. OtherTypeOK'
    BY <1>16, EventType DEF PublishProgress, OtherTypeOK, bounds
  <2>4. QED
    BY <2>1, <2>2, <2>3
<1>17. ASSUME NEW c \in Callers, NEW s \in Sessions, CancelContext(c, s)
      PROVE  TypeOK'
  <2>1. RowsTypeOK' /\ WorkTypeOK' /\ OtherTypeOK'
    BY <1>17, TypeFrame DEF CancelContext
  <2>2. RunTypeOK'
    BY <1>17 DEF CancelContext, RunTypeOK, ctxVars
  <2>3. CallTypeOK'
    BY <1>17 DEF CancelContext, CallTypeOK, CallPCs
  <2>4. QED
    BY <2>1, <2>2, <2>3
<1>18. ASSUME NEW c \in Callers, BeginCancel(c)
      PROVE  TypeOK'
  <2>1. RowsTypeOK' /\ RunTypeOK' /\ WorkTypeOK'
    BY <1>18, TypeFrame DEF BeginCancel
  <2>2. CallTypeOK'
    BY <1>18 DEF BeginCancel, CallTypeOK, Reply, CallPCs
  <2>3. OtherTypeOK'
    BY <1>18 DEF BeginCancel, OtherTypeOK, BeginTx, CallTx, TxIds, bounds
  <2>4. QED
    BY <2>1, <2>2, <2>3
<1>19. ASSUME NEW c \in Callers, CommitCancel(c)
      PROVE  TypeOK'
  <2>1. RunTypeOK' /\ WorkTypeOK'
    BY <1>19, TypeFrame DEF CommitCancel
  <2>2. RowsTypeOK'
    BY <1>19, WriteTransitionType DEF CommitCancel, RowsTypeOK, Statuses, Terminal,
       CallTypeOK
  <2>3. CallTypeOK'
    BY <1>19 DEF CommitCancel, CallTypeOK, Reply, CallPCs
  <2>4. OtherTypeOK'
    BY <1>19 DEF CommitCancel, OtherTypeOK, EndTx, bounds
  <2>5. QED
    BY <2>1, <2>2, <2>3, <2>4
<1>20. ASSUME NEW s \in Sessions, RunFault(s)
      PROVE  TypeOK'
  <2>1. RowsTypeOK' /\ WorkTypeOK' /\ CallTypeOK'
    BY <1>20, TypeFrame DEF RunFault
  <2>2. RunTypeOK'
    BY <1>20 DEF RunFault, RunTypeOK, Return, RunPCs, ctxVars
  <2>3. OtherTypeOK'
    BY <1>20, SizeAssumption DEF RunFault, OtherTypeOK, EndTx, Fault
  <2>4. QED
    BY <2>1, <2>2, <2>3
<1>21. ASSUME NEW s \in Sessions, NEW i \in Items, RecordFault(s, i)
      PROVE  TypeOK'
  <2>1. RowsTypeOK' /\ RunTypeOK' /\ CallTypeOK'
    BY <1>21, TypeFrame DEF RecordFault
  <2>2. WorkTypeOK'
    BY <1>21 DEF RecordFault, WorkTypeOK, WorkPCs
  <2>3. OtherTypeOK'
    BY <1>21, SizeAssumption DEF RecordFault, OtherTypeOK, EndTx, Fault
  <2>4. QED
    BY <2>1, <2>2, <2>3
<1>22. ASSUME NEW c \in Callers, CancelFault(c)
      PROVE  TypeOK'
  <2>1. RowsTypeOK' /\ RunTypeOK' /\ WorkTypeOK'
    BY <1>22, TypeFrame DEF CancelFault
  <2>2. CallTypeOK'
    BY <1>22 DEF CancelFault, CallTypeOK, Reply, CallPCs
  <2>3. OtherTypeOK'
    BY <1>22, SizeAssumption DEF CancelFault, OtherTypeOK, EndTx, Fault
  <2>4. QED
    BY <2>1, <2>2, <2>3
<1>23. ASSUME Crash
      PROVE  TypeOK'
  <2>1. RowsTypeOK'
    BY <1>23, TypeFrame DEF Crash
  <2>2. RunTypeOK'
    BY <1>23 DEF Crash, RunTypeOK, RunPCs, ctxVars
  <2>3. WorkTypeOK'
    BY <1>23 DEF Crash, WorkTypeOK, WorkPCs, workVars
  <2>4. CallTypeOK'
    BY <1>23 DEF Crash, CallTypeOK, CallPCs
  <2>5. OtherTypeOK'
    BY <1>23, SizeAssumption DEF Crash, OtherTypeOK, bounds
  <2>6. QED
    BY <2>1, <2>2, <2>3, <2>4, <2>5
<1>24. CASE UNCHANGED vars
  BY <1>24, TypeFrame DEF vars
<1>25. QED
  BY <1>1, <1>2, <1>3, <1>4, <1>5, <1>6, <1>7, <1>8, <1>9, <1>10, <1>11, <1>12, <1>13,
     <1>14, <1>15, <1>16, <1>17, <1>18, <1>19, <1>20, <1>21, <1>22, <1>23, <1>24
     DEF Next, RunStep, WorkStep, CallStep, Idle

\* TypeOK for every value of the constants: whatever a probe returns and whichever
\* steps race, only the statuses, outcomes and verdicts of scan.go are ever stored.
THEOREM TypeCorrect == Spec => []TypeOK
  BY TypeInit, TypeNext, PTL DEF Spec

--------------------------------------------------------------------------------
(* One transaction at a time. *)

RunPCInTx == {"txRunning", "txTerminate"}

\* Whoever is between its reads and its commit has its transaction open.
TxHeld ==
    /\ \A s \in Sessions : run[s] \in RunPCInTx => RunTx(s) \in openTx
    /\ \A s \in Sessions, i \in Items : work[s][i] = "txRecord" => ItemTx(s, i) \in openTx
    /\ \A c \in Callers : call[c].at = "txCancel" => CallTx(c) \in openTx

\* The single connection of SQLite carries one transaction at a time.
OneTx == Serialized => \A t, u \in openTx : t = u

\* The inductive invariant: ReadsHold alone is not inductive, because it is the
\* exclusion of the transactions that keeps what one has read from changing.
TxInv == TxHeld /\ OneTx /\ (Serialized => ReadsHold)

\* Transactions of different owners are different.
LEMMA TxDistinct ==
    /\ \A s, o : RunTx(s) = RunTx(o) => s = o
    /\ \A s, i, o, j : ItemTx(s, i) = ItemTx(o, j) => s = o /\ i = j
    /\ \A c, d : CallTx(c) = CallTx(d) => c = d
    /\ \A s, o, i : RunTx(s) # ItemTx(o, i)
    /\ \A s, c : RunTx(s) # CallTx(c)
    /\ \A s, i, c : ItemTx(s, i) # CallTx(c)
  BY DEF RunTx, ItemTx, CallTx

\* Nobody is between its reads and its commit.
NobodyInTx ==
    /\ \A s \in Sessions : run[s] \notin RunPCInTx
    /\ \A s \in Sessions, i \in Items : work[s][i] # "txRecord"
    /\ \A c \in Callers : call[c].at # "txCancel"

\* Nobody but those who are there already is so after the step.
NobodyEnters ==
    /\ \A s \in Sessions :
          run'[s] \in RunPCInTx => run'[s] = run[s] /\ verdict'[s] = verdict[s]
    /\ \A s \in Sessions, i \in Items : work'[s][i] = "txRecord" => work[s][i] = "txRecord"
    /\ \A c \in Callers : call'[c].at = "txCancel" => call'[c] = call[c]

\* On SQLite nobody is inside a transaction when another may begin.
LEMMA NoneInTx ==
    ASSUME TxHeld, Serialized, CanBegin
    PROVE  NobodyInTx
  BY DEF TxHeld, CanBegin, NobodyInTx

\* On SQLite a run that is inside its transaction is there alone.
LEMMA RunAlone ==
    ASSUME TxHeld, OneTx, Serialized, NEW s \in Sessions, run[s] \in RunPCInTx
    PROVE  /\ \A o \in Sessions : run[o] \in RunPCInTx => o = s
           /\ \A o \in Sessions, i \in Items : work[o][i] # "txRecord"
           /\ \A c \in Callers : call[c].at # "txCancel"
  BY TxDistinct DEF TxHeld, OneTx

\* And so is a Cancel.
LEMMA CallAlone ==
    ASSUME TxHeld, OneTx, Serialized, NEW c \in Callers, call[c].at = "txCancel"
    PROVE  /\ \A s \in Sessions : run[s] \notin RunPCInTx
           /\ \A s \in Sessions, i \in Items : work[s][i] # "txRecord"
           /\ \A d \in Callers : call[d].at = "txCancel" => d = c
  BY TxDistinct DEF TxHeld, OneTx

\* What was read is not at stake when nobody is inside a transaction.
LEMMA NobodyReads == NobodyInTx => ReadsHold
  BY DEF NobodyInTx, ReadsHold, RunPCInTx

\* Nor when the statuses stay put and nobody enters a transaction.
LEMMA ReadsFrame ==
    ASSUME ReadsHold, NobodyEnters, UNCHANGED status
    PROVE  ReadsHold'
<1>1. ASSUME NEW s \in Sessions
      PROVE  /\ run'[s] = "txRunning" => status'[s] = "pending"
             /\ run'[s] = "txTerminate" => CanTransition(status'[s], verdict'[s])
             /\ \A i \in Items : work'[s][i] = "txRecord" => status'[s] = "running"
  BY <1>1 DEF ReadsHold, NobodyEnters, RunPCInTx
<1>2. ASSUME NEW c \in Callers
      PROVE  call'[c].at = "txCancel" => CanTransition(status'[call'[c].session], "cancelled")
  BY <1>2 DEF ReadsHold, NobodyEnters
<1>3. QED
  BY <1>1, <1>2 DEF ReadsHold

\* A step that nobody enters by, and that opens no transaction, keeps TxInv.
LEMMA StayInv ==
    ASSUME TxInv, NobodyEnters, TxHeld', openTx' \subseteq openTx, UNCHANGED status
    PROVE  TxInv'
  BY ReadsFrame DEF TxInv, OneTx

\* So does the commit after which nobody is inside a transaction.
LEMMA AloneInv ==
    ASSUME TxInv, TxHeld', openTx' \subseteq openTx, Serialized => NobodyInTx'
    PROVE  TxInv'
<1>1. NobodyInTx' => ReadsHold'
  BY NobodyReads, PTL
<1>2. QED
  BY <1>1 DEF TxInv, OneTx

\* The invariant holds at the start.
LEMMA TxInit == Init => TxInv
<1> SUFFICES ASSUME Init
             PROVE  TxInv
  OBVIOUS
<1>1. NobodyInTx
  BY DEF Init, NobodyInTx, RunPCInTx
<1>2. openTx = {}
  BY DEF Init
<1>3. QED
  BY <1>1, <1>2, NobodyReads DEF TxInv, TxHeld, OneTx, NobodyInTx

\* And every step keeps it.
LEMMA TxNext == TypeOK /\ TxInv /\ [Next]_vars => TxInv'
<1> SUFFICES ASSUME TypeOK, TxInv, [Next]_vars
             PROVE  TxInv'
  OBVIOUS
<1>a. RunTypeOK /\ WorkTypeOK /\ CallTypeOK
  BY DEF TypeOK
<1>b. TxHeld /\ OneTx /\ (Serialized => ReadsHold)
  BY DEF TxInv
<1>1. ASSUME NEW s \in Sessions, NEW f \in Fleets, StartFromAPI(s, f)
      PROVE  TxInv'
  <2>1. TxHeld'
    BY <1>a, <1>b, <1>1, TxDistinct DEF StartFromAPI, StartScan, TxHeld, RunPCInTx,
       RunTypeOK, dbVars, ctxVars, workVars
  <2>2. Serialized => NobodyInTx'
    BY <1>b, <1>1, NoneInTx DEF StartFromAPI, StartScan, NobodyInTx, RunPCInTx,
       RunTypeOK, dbVars, ctxVars, workVars
  <2>3. openTx' \subseteq openTx
    BY <1>1 DEF StartFromAPI, StartScan
  <2>4. QED
    BY <2>1, <2>2, <2>3, AloneInv
<1>2. ASSUME NEW s \in Sessions, NEW f \in Fleets, StartFromSchedule(s, f)
      PROVE  TxInv'
  <2>1. TxHeld'
    BY <1>a, <1>b, <1>2, TxDistinct DEF StartFromSchedule, StartScan, TxHeld, RunPCInTx,
       RunTypeOK, dbVars, ctxVars, workVars
  <2>2. Serialized => NobodyInTx'
    BY <1>b, <1>2, NoneInTx DEF StartFromSchedule, StartScan, NobodyInTx, RunPCInTx,
       RunTypeOK, dbVars, ctxVars, workVars
  <2>3. openTx' \subseteq openTx
    BY <1>2 DEF StartFromSchedule, StartScan
  <2>4. QED
    BY <2>1, <2>2, <2>3, AloneInv
<1>3. ASSUME NEW s \in Sessions, BeginRunning(s)
      PROVE  TxInv'
  <2>1. TxHeld'
    BY <1>a, <1>b, <1>3, TxDistinct DEF BeginRunning, BeginTx, Return, TxHeld,
       RunPCInTx, RunTypeOK, dbVars, ctxVars, workVars
  <2>2. OneTx'
    BY <1>b, <1>3 DEF BeginRunning, BeginTx, Return, OneTx, CanBegin
  <2>3. Serialized => ReadsHold'
    BY <1>a, <1>b, <1>3 DEF BeginRunning, BeginTx, Return, ReadsHold, CanTransition,
       RunTypeOK, dbVars, ctxVars, workVars
  <2>4. QED
    BY <2>1, <2>2, <2>3 DEF TxInv
<1>4. ASSUME NEW s \in Sessions, CommitRunning(s)
      PROVE  TxInv'
  <2>1. TxHeld'
    BY <1>a, <1>b, <1>4, TxDistinct DEF CommitRunning, EndTx, Return, WriteTransition,
       TxHeld, RunPCInTx, RunTypeOK, dbVars, ctxVars, workVars
  <2>2. Serialized => NobodyInTx'
    BY <1>a, <1>b, <1>4, RunAlone DEF CommitRunning, EndTx, Return, WriteTransition,
       NobodyInTx, RunPCInTx, RunTypeOK, dbVars, ctxVars, workVars
  <2>3. openTx' \subseteq openTx
    BY <1>4 DEF CommitRunning, EndTx, Return, WriteTransition
  <2>4. QED
    BY <2>1, <2>2, <2>3, AloneInv
<1>5. ASSUME NEW s \in Sessions, RegisterCancel(s)
      PROVE  TxInv'
  <2>1. TxHeld'
    BY <1>a, <1>b, <1>5, TxDistinct DEF RegisterCancel, TxHeld, RunPCInTx, RunTypeOK,
       dbVars, ctxVars, workVars
  <2>2. NobodyEnters
    BY <1>a, <1>5 DEF RegisterCancel, NobodyEnters, RunPCInTx, RunTypeOK, dbVars,
       ctxVars, workVars
  <2>3. openTx' \subseteq openTx /\ UNCHANGED status
    BY <1>5 DEF RegisterCancel, dbVars
  <2>4. QED
    BY <2>1, <2>2, <2>3, StayInv
<1>6. ASSUME NEW s \in Sessions, NEW i \in Items, Dispatch(s, i)
      PROVE  TxInv'
  <2>1. TxHeld'
    BY <1>a, <1>b, <1>6, TxDistinct DEF Dispatch, TxHeld, RunPCInTx, WorkTypeOK, dbVars,
       ctxVars, workVars
  <2>2. NobodyEnters
    BY <1>a, <1>6 DEF Dispatch, NobodyEnters, RunPCInTx, WorkTypeOK, dbVars, ctxVars,
       workVars
  <2>3. openTx' \subseteq openTx /\ UNCHANGED status
    BY <1>6 DEF Dispatch, dbVars
  <2>4. QED
    BY <2>1, <2>2, <2>3, StayInv
<1>7. ASSUME NEW s \in Sessions, Drain(s)
      PROVE  TxInv'
  <2>1. TxHeld'
    BY <1>a, <1>b, <1>7, TxDistinct DEF Drain, TxHeld, RunPCInTx, RunTypeOK, dbVars,
       ctxVars, workVars
  <2>2. NobodyEnters
    BY <1>a, <1>7 DEF Drain, NobodyEnters, RunPCInTx, RunTypeOK, dbVars, ctxVars, workVars
  <2>3. openTx' \subseteq openTx /\ UNCHANGED status
    BY <1>7 DEF Drain, dbVars
  <2>4. QED
    BY <2>1, <2>2, <2>3, StayInv
<1>8. ASSUME NEW s \in Sessions, Finalize(s)
      PROVE  TxInv'
  <2>1. TxHeld'
    BY <1>a, <1>b, <1>8, TxDistinct DEF Finalize, TxHeld, RunPCInTx, RunTypeOK, dbVars,
       ctxVars, workVars
  <2>2. NobodyEnters
    BY <1>a, <1>8 DEF Finalize, NobodyEnters, RunPCInTx, RunTypeOK, dbVars, ctxVars,
       workVars
  <2>3. openTx' \subseteq openTx /\ UNCHANGED status
    BY <1>8 DEF Finalize, dbVars
  <2>4. QED
    BY <2>1, <2>2, <2>3, StayInv
<1>9. ASSUME NEW s \in Sessions, BeginTerminate(s)
      PROVE  TxInv'
  <2>1. TxHeld'
    BY <1>a, <1>b, <1>9, TxDistinct DEF BeginTerminate, BeginTx, Return, TxHeld,
       RunPCInTx, RunTypeOK, dbVars, ctxVars, workVars
  <2>2. OneTx'
    BY <1>b, <1>9 DEF BeginTerminate, BeginTx, Return, OneTx, CanBegin
  <2>3. Serialized => ReadsHold'
    BY <1>a, <1>b, <1>9 DEF BeginTerminate, BeginTx, Return, ReadsHold, CanTransition,
       RunTypeOK, dbVars, ctxVars, workVars
  <2>4. QED
    BY <2>1, <2>2, <2>3 DEF TxInv
<1>10. ASSUME NEW s \in Sessions, CommitTerminate(s)
      PROVE  TxInv'
  <2>1. TxHeld'
    BY <1>a, <1>b, <1>10, TxDistinct DEF CommitTerminate, EndTx, WriteTransition,
       TxHeld, RunPCInTx, RunTypeOK, dbVars, ctxVars, workVars
  <2>2. Serialized => NobodyInTx'
    BY <1>a, <1>b, <1>10, RunAlone DEF CommitTerminate, EndTx, WriteTransition,
       NobodyInTx, RunPCInTx, RunTypeOK, dbVars, ctxVars, workVars
  <2>3. openTx' \subseteq openTx
    BY <1>10 DEF CommitTerminate, EndTx, WriteTransition
  <2>4. QED
    BY <2>1, <2>2, <2>3, AloneInv
<1>11. ASSUME NEW s \in Sessions, Announce(s)
      PROVE  TxInv'
  <2>1. TxHeld'
    BY <1>a, <1>b, <1>11, TxDistinct DEF Announce, Return, TxHeld, RunPCInTx, RunTypeOK,
       dbVars, ctxVars, workVars
  <2>2. NobodyEnters
    BY <1>a, <1>11 DEF Announce, Return, NobodyEnters, RunPCInTx, RunTypeOK, dbVars,
       ctxVars, workVars
  <2>3. openTx' \subseteq openTx /\ UNCHANGED status
    BY <1>11 DEF Announce, Return, dbVars
  <2>4. QED
    BY <2>1, <2>2, <2>3, StayInv
<1>12. ASSUME NEW s \in Sessions, NEW i \in Items, CheckHealth(s, i)
      PROVE  TxInv'
  <2>1. TxHeld'
    BY <1>a, <1>b, <1>12, TxDistinct DEF CheckHealth, TxHeld, RunPCInTx, WorkTypeOK,
       dbVars, ctxVars, workVars
  <2>2. NobodyEnters
    BY <1>a, <1>12 DEF CheckHealth, NobodyEnters, RunPCInTx, WorkTypeOK, dbVars,
       ctxVars, workVars
  <2>3. openTx' \subseteq openTx /\ UNCHANGED status
    BY <1>12 DEF CheckHealth, dbVars
  <2>4. QED
    BY <2>1, <2>2, <2>3, StayInv
<1>13. ASSUME NEW s \in Sessions, NEW i \in Items, Exec(s, i)
      PROVE  TxInv'
  <2>1. TxHeld'
    BY <1>a, <1>b, <1>13, TxDistinct DEF Exec, TxHeld, RunPCInTx, WorkTypeOK, dbVars,
       ctxVars, workVars
  <2>2. NobodyEnters
    BY <1>a, <1>13 DEF Exec, NobodyEnters, RunPCInTx, WorkTypeOK, dbVars, ctxVars,
       workVars
  <2>3. openTx' \subseteq openTx /\ UNCHANGED status
    BY <1>13 DEF Exec, dbVars
  <2>4. QED
    BY <2>1, <2>2, <2>3, StayInv
<1>14. ASSUME NEW s \in Sessions, NEW i \in Items, BeginRecord(s, i)
      PROVE  TxInv'
  <2>1. TxHeld'
    <3>1. ASSUME NEW o \in Sessions, NEW j \in Items, work'[o][j] = "txRecord"
          PROVE  ItemTx(o, j) \in openTx'
      <4>1. CASE o = s /\ j = i
        BY <1>a, <1>14, <3>1, <4>1 DEF BeginRecord, BeginTx, WorkTypeOK
      <4>2. CASE ~(o = s /\ j = i)
        <5>1. work'[o][j] = work[o][j]
          BY <1>a, <1>14, <4>2 DEF BeginRecord, WorkTypeOK
        <5>2. openTx \subseteq openTx'
          BY <1>14 DEF BeginRecord, BeginTx
        <5>3. QED
          BY <1>b, <3>1, <5>1, <5>2 DEF TxHeld
      <4>3. QED
        BY <4>1, <4>2
    <3>2. openTx \subseteq openTx' /\ run' = run /\ call' = call
      BY <1>14 DEF BeginRecord, BeginTx
    <3>3. QED
      BY <1>b, <3>1, <3>2 DEF TxHeld
  <2>2. OneTx'
    BY <1>b, <1>14 DEF BeginRecord, BeginTx, Recordable, OneTx, CanBegin
  <2>3. Serialized => ReadsHold'
    BY <1>a, <1>b, <1>14 DEF BeginRecord, BeginTx, Recordable, ReadsHold, CanTransition,
       WorkTypeOK, dbVars, ctxVars, workVars
  <2>4. QED
    BY <2>1, <2>2, <2>3 DEF TxInv
<1>15. ASSUME NEW s \in Sessions, NEW i \in Items, CommitRecord(s, i)
      PROVE  TxInv'
  <2>1. TxHeld'
    BY <1>a, <1>b, <1>15, TxDistinct DEF CommitRecord, EndTx, TxHeld, RunPCInTx,
       WorkTypeOK, dbVars, ctxVars, workVars
  <2>2. NobodyEnters
    BY <1>a, <1>15 DEF CommitRecord, EndTx, NobodyEnters, RunPCInTx, WorkTypeOK, dbVars,
       ctxVars, workVars
  <2>3. openTx' \subseteq openTx /\ UNCHANGED status
    BY <1>15 DEF CommitRecord, EndTx, dbVars
  <2>4. QED
    BY <2>1, <2>2, <2>3, StayInv
<1>16. ASSUME NEW s \in Sessions, NEW i \in Items, PublishProgress(s, i)
      PROVE  TxInv'
  <2>1. TxHeld'
    BY <1>a, <1>b, <1>16, TxDistinct DEF PublishProgress, TxHeld, RunPCInTx, WorkTypeOK,
       dbVars, ctxVars, workVars
  <2>2. NobodyEnters
    BY <1>a, <1>16 DEF PublishProgress, NobodyEnters, RunPCInTx, WorkTypeOK, dbVars,
       ctxVars, workVars
  <2>3. openTx' \subseteq openTx /\ UNCHANGED status
    BY <1>16 DEF PublishProgress, dbVars
  <2>4. QED
    BY <2>1, <2>2, <2>3, StayInv
<1>17. ASSUME NEW c \in Callers, NEW s \in Sessions, CancelContext(c, s)
      PROVE  TxInv'
  <2>1. TxHeld'
    BY <1>a, <1>b, <1>17, TxDistinct DEF CancelContext, TxHeld, RunPCInTx, CallTypeOK,
       dbVars, ctxVars, workVars
  <2>2. NobodyEnters
    BY <1>a, <1>17 DEF CancelContext, NobodyEnters, RunPCInTx, CallTypeOK, dbVars,
       ctxVars, workVars
  <2>3. openTx' \subseteq openTx /\ UNCHANGED status
    BY <1>17 DEF CancelContext, dbVars
  <2>4. QED
    BY <2>1, <2>2, <2>3, StayInv
<1>18. ASSUME NEW c \in Callers, BeginCancel(c)
      PROVE  TxInv'
  <2>1. TxHeld'
    BY <1>a, <1>b, <1>18, TxDistinct DEF BeginCancel, BeginTx, Reply, TxHeld, RunPCInTx,
       CallTypeOK, dbVars, ctxVars, workVars
  <2>2. OneTx'
    BY <1>b, <1>18 DEF BeginCancel, BeginTx, Reply, OneTx, CanBegin
  <2>3. Serialized => ReadsHold'
    BY <1>a, <1>b, <1>18 DEF BeginCancel, BeginTx, Reply, ReadsHold, CanTransition,
       CallTypeOK, dbVars, ctxVars, workVars
  <2>4. QED
    BY <2>1, <2>2, <2>3 DEF TxInv
<1>19. ASSUME NEW c \in Callers, CommitCancel(c)
      PROVE  TxInv'
  <2>1. TxHeld'
    BY <1>a, <1>b, <1>19, TxDistinct DEF CommitCancel, EndTx, Reply, WriteTransition,
       TxHeld, RunPCInTx, CallTypeOK, dbVars, ctxVars, workVars
  <2>2. Serialized => NobodyInTx'
    BY <1>a, <1>b, <1>19, CallAlone DEF CommitCancel, EndTx, Reply, WriteTransition,
       NobodyInTx, RunPCInTx, CallTypeOK, dbVars, ctxVars, workVars
  <2>3. openTx' \subseteq openTx
    BY <1>19 DEF CommitCancel, EndTx, Reply, WriteTransition
  <2>4. QED
    BY <2>1, <2>2, <2>3, AloneInv
<1>20. ASSUME NEW s \in Sessions, RunFault(s)
      PROVE  TxInv'
  <2>1. TxHeld'
    BY <1>a, <1>b, <1>20, TxDistinct DEF RunFault, EndTx, Return, TxHeld, RunPCInTx,
       RunTypeOK, dbVars, ctxVars, workVars
  <2>2. NobodyEnters
    BY <1>a, <1>20 DEF RunFault, EndTx, Return, NobodyEnters, RunPCInTx, RunTypeOK,
       dbVars, ctxVars, workVars
  <2>3. openTx' \subseteq openTx /\ UNCHANGED status
    BY <1>20 DEF RunFault, EndTx, Return, dbVars
  <2>4. QED
    BY <2>1, <2>2, <2>3, StayInv
<1>21. ASSUME NEW s \in Sessions, NEW i \in Items, RecordFault(s, i)
      PROVE  TxInv'
  <2>1. TxHeld'
    BY <1>a, <1>b, <1>21, TxDistinct DEF RecordFault, EndTx, TxHeld, RunPCInTx,
       WorkTypeOK, dbVars, ctxVars, workVars
  <2>2. NobodyEnters
    BY <1>a, <1>21 DEF RecordFault, EndTx, NobodyEnters, RunPCInTx, WorkTypeOK, dbVars,
       ctxVars, workVars
  <2>3. openTx' \subseteq openTx /\ UNCHANGED status
    BY <1>21 DEF RecordFault, EndTx, dbVars
  <2>4. QED
    BY <2>1, <2>2, <2>3, StayInv
<1>22. ASSUME NEW c \in Callers, CancelFault(c)
      PROVE  TxInv'
  <2>1. TxHeld'
    BY <1>a, <1>b, <1>22, TxDistinct DEF CancelFault, EndTx, Reply, TxHeld, RunPCInTx,
       CallTypeOK, dbVars, ctxVars, workVars
  <2>2. NobodyEnters
    BY <1>a, <1>22 DEF CancelFault, EndTx, Reply, NobodyEnters, RunPCInTx, CallTypeOK,
       dbVars, ctxVars, workVars
  <2>3. openTx' \subseteq openTx /\ UNCHANGED status
    BY <1>22 DEF CancelFault, EndTx, Reply, dbVars
  <2>4. QED
    BY <2>1, <2>2, <2>3, StayInv
<1>23. ASSUME Crash
      PROVE  TxInv'
  <2>1. TxHeld'
    <3>1. \A s \in Sessions : run'[s] \notin RunPCInTx
      BY <1>a, <1>23 DEF Crash, Goroutine, RunPCInTx, RunTypeOK
    <3>2. \A s \in Sessions, i \in Items : work'[s][i] # "txRecord"
      BY <1>a, <1>23 DEF Crash, InFlight, WorkTypeOK
    <3>3. \A c \in Callers : call'[c].at # "txCancel"
      BY <1>a, <1>23 DEF Crash, CallTypeOK
    <3>4. QED
      BY <3>1, <3>2, <3>3 DEF TxHeld
  <2>2. NobodyEnters
    BY <1>a, <1>23 DEF Crash, Goroutine, NobodyEnters, RunPCInTx, RunTypeOK, WorkTypeOK,
       CallTypeOK, dbVars, ctxVars, workVars
  <2>3. openTx' \subseteq openTx /\ UNCHANGED status
    BY <1>23 DEF Crash, Goroutine, dbVars
  <2>4. QED
    BY <2>1, <2>2, <2>3, StayInv
<1>24. CASE UNCHANGED vars
  <2>1. TxHeld' /\ NobodyEnters
    BY <1>b, <1>24 DEF vars, ctxVars, workVars, TxHeld, NobodyEnters
  <2>2. QED
    BY <1>24, <2>1, StayInv DEF vars, dbVars
<1>25. QED
  BY <1>1, <1>2, <1>3, <1>4, <1>5, <1>6, <1>7, <1>8, <1>9, <1>10, <1>11, <1>12, <1>13,
     <1>14, <1>15, <1>16, <1>17, <1>18, <1>19, <1>20, <1>21, <1>22, <1>23, <1>24 DEF
     Next, RunStep, WorkStep, CallStep, Idle

\* On SQLite what a transaction has read of a session still holds when it commits.
THEOREM ReadsHoldCorrect ==
    ASSUME Serialized
    PROVE  Spec => []ReadsHold
<1>1. TypeOK /\ TxInv /\ [Next]_vars => (TypeOK /\ TxInv)'
  BY TypeNext, TxNext
<1>2. TxInv => ReadsHold
  BY DEF TxInv
<1>3. QED
  BY <1>1, <1>2, TypeInit, TxInit, PTL DEF Spec

--------------------------------------------------------------------------------
(* What a step does to the rows. *)

\* A session is created.
Opens == \E s \in Sessions, f \in Fleets, n \in Nat : StartScan(s, f, n)

\* A session makes a transition: on SQLite one of the FSM, on either storage none
\* that the unique index refuses.
Moves ==
    \E s \in Sessions, to \in Statuses, why \in {"", "operator", "context"} :
        /\ WriteTransition(s, to, why)
        /\ to \in Terminal \/ (to = "running" /\ IndexAllows(s))
        /\ Serialized => CanTransition(status[s], to)

\* A result is recorded: on SQLite for a session that runs.
Records ==
    \E s \in Sessions, i \in Items :
        CommitRecord(s, i) /\ (Serialized => status[s] = "running")

\* Every step does one of these or leaves the rows alone.
LEMMA RowStep == TypeOK /\ TxInv /\ [Next]_vars => Opens \/ Moves \/ Records \/ UNCHANGED dbVars
<1> SUFFICES ASSUME TypeOK, TxInv, [Next]_vars
             PROVE  Opens \/ Moves \/ Records \/ UNCHANGED dbVars
  OBVIOUS
<1>a. RunTypeOK /\ CallTypeOK /\ (Serialized => ReadsHold)
  BY DEF TypeOK, TxInv
<1>1. ASSUME NEW s \in Sessions, NEW f \in Fleets, StartFromAPI(s, f) \/ StartFromSchedule(s, f)
      PROVE  Opens
  BY <1>1, ItemsFinite DEF StartFromAPI, StartFromSchedule, Opens
<1>2. ASSUME NEW s \in Sessions, CommitRunning(s)
      PROVE  Moves \/ UNCHANGED dbVars
  <2>1. CASE IndexAllows(s)
    <3>1. WriteTransition(s, "running", "")
      BY <1>2, <2>1 DEF CommitRunning
    <3>2. Serialized => CanTransition(status[s], "running")
      BY <1>a, <1>2 DEF CommitRunning, ReadsHold, CanTransition
    <3>3. QED
      BY <2>1, <3>1, <3>2 DEF Moves, Statuses, Live
  <2>2. CASE ~IndexAllows(s)
    BY <1>2, <2>2 DEF CommitRunning
  <2>3. QED
    BY <2>1, <2>2
<1>3. ASSUME NEW s \in Sessions, CommitTerminate(s)
      PROVE  Moves
  <2>1. WriteTransition(s, verdict[s], "context")
    BY <1>3 DEF CommitTerminate
  <2>2. Serialized => CanTransition(status[s], verdict[s])
    BY <1>a, <1>3 DEF CommitTerminate, ReadsHold
  <2>3. verdict[s] \in Terminal
    BY <1>a DEF RunTypeOK
  <2>4. QED
    BY <2>1, <2>2, <2>3 DEF Moves, Statuses
<1>4. ASSUME NEW c \in Callers, CommitCancel(c)
      PROVE  Moves
  <2>1. WriteTransition(call[c].session, "cancelled", "operator")
    BY <1>4 DEF CommitCancel
  <2>2. Serialized => CanTransition(status[call[c].session], "cancelled")
    BY <1>a, <1>4 DEF CommitCancel, ReadsHold
  <2>3. call[c].session \in Sessions
    BY <1>a, <1>4 DEF CommitCancel, CallTypeOK
  <2>4. QED
    BY <2>1, <2>2, <2>3 DEF Moves, Statuses, Terminal
<1>5. ASSUME NEW s \in Sessions, NEW i \in Items, CommitRecord(s, i)
      PROVE  Records
  BY <1>a, <1>5 DEF CommitRecord, Records, ReadsHold
<1>6. ASSUME NEW s \in Sessions, RunStep(s), ~CommitRunning(s), ~CommitTerminate(s)
      PROVE  UNCHANGED dbVars
  BY <1>6 DEF RunStep, BeginRunning, RegisterCancel, Dispatch, Drain, Finalize,
              BeginTerminate, Announce
<1>7. ASSUME NEW s \in Sessions, NEW i \in Items, WorkStep(s, i), ~CommitRecord(s, i)
      PROVE  UNCHANGED dbVars
  BY <1>7 DEF WorkStep, CheckHealth, Exec, BeginRecord, PublishProgress
<1>8. ASSUME NEW c \in Callers, CallStep(c), ~CommitCancel(c)
      PROVE  UNCHANGED dbVars
  BY <1>8 DEF CallStep, BeginCancel
<1>9. ASSUME NEW s \in Sessions, RunFault(s)
       PROVE  UNCHANGED dbVars
  BY <1>9 DEF RunFault
<1>10. ASSUME NEW s \in Sessions, NEW i \in Items, RecordFault(s, i)
       PROVE  UNCHANGED dbVars
  BY <1>10 DEF RecordFault
<1>11. ASSUME NEW c \in Callers, CancelFault(c)
       PROVE  UNCHANGED dbVars
  BY <1>11 DEF CancelFault
<1>12. ASSUME NEW s \in Sessions, NEW c \in Callers, CancelContext(c, s)
       PROVE  UNCHANGED dbVars
  BY <1>12 DEF CancelContext
<1>13. CASE Crash \/ Idle \/ UNCHANGED vars
  BY <1>13 DEF Crash, Idle, vars
<1>14. QED
  BY <1>1, <1>2, <1>3, <1>4, <1>5, <1>6, <1>7, <1>8, <1>9, <1>10, <1>11, <1>12, <1>13
     DEF Next

--------------------------------------------------------------------------------
(* The theorems. *)

\* On either storage no fleet ever has two live sessions: the check of StartScan
\* and the partial unique index are enough, whatever the transactions read.
THEOREM OneLiveCorrect == Spec => []OneLiveSessionPerFleet
<1>1. Init => OneLiveSessionPerFleet
  BY DEF Init, OneLiveSessionPerFleet, Live
<1>2. TypeOK /\ TxInv /\ OneLiveSessionPerFleet /\ [Next]_vars => OneLiveSessionPerFleet'
  <2> SUFFICES ASSUME TypeOK, TxInv, OneLiveSessionPerFleet, [Next]_vars
               PROVE  OneLiveSessionPerFleet'
    OBVIOUS
  <2>a. RowsTypeOK
    BY DEF TypeOK
  <2>1. CASE Opens
    <3>1. PICK s \in Sessions, f \in Fleets :
             /\ FleetFree(f)
             /\ status' = [status EXCEPT ![s] = "pending"]
             /\ fleet' = [fleet EXCEPT ![s] = f]
      BY <2>1 DEF Opens, StartScan
    <3>2. \A o \in Sessions : fleet[o] = f => status[o] \notin Live
      BY <3>1 DEF FleetFree
    <3>3. QED
      BY <2>a, <3>1, <3>2 DEF OneLiveSessionPerFleet, RowsTypeOK
  <2>2. CASE Moves
    <3>1. PICK s \in Sessions, to \in Statuses, why \in {"", "operator", "context"} :
             /\ WriteTransition(s, to, why)
             /\ to \in Terminal \/ IndexAllows(s)
      BY <2>2 DEF Moves
    <3>2. fleet' = fleet /\ status' = [status EXCEPT ![s] = to]
      BY <3>1 DEF WriteTransition
    <3>3. to \in Terminal => to \notin Live
      BY DEF Terminal, Live
    <3>4. IndexAllows(s) =>
              \A o \in Sessions : o # s /\ status[o] \in Live => fleet[o] # fleet[s]
      BY DEF IndexAllows
    <3>5. QED
      BY <2>a, <3>1, <3>2, <3>3, <3>4 DEF OneLiveSessionPerFleet, RowsTypeOK
  <2>3. CASE Records
    BY <2>3 DEF Records, CommitRecord, OneLiveSessionPerFleet
  <2>4. CASE UNCHANGED dbVars
    BY <2>4 DEF dbVars, OneLiveSessionPerFleet
  <2>5. QED
    BY <2>1, <2>2, <2>3, <2>4, RowStep
<1>3. TypeOK /\ TxInv /\ [Next]_vars => (TypeOK /\ TxInv)'
  BY TypeNext, TxNext
<1>4. QED
  BY <1>1, <1>2, <1>3, TypeInit, TxInit, PTL DEF Spec

\* On SQLite every session follows the life cycle of internal/domain/scan, one
\* live session per fleet, and its audit trail tells exactly its transitions:
\* ScanRun implements ScanSession.
THEOREM Refinement ==
    ASSUME Serialized
    PROVE  Spec => SessionSpec
<1>1. Init => Session!Init
  BY DEF Init, Session!Init
<1>2. TypeOK /\ TxInv /\ [Next]_vars => [Session!Next]_(Session!vars)
  <2> SUFFICES ASSUME TypeOK, TxInv, [Next]_vars
               PROVE  [Session!Next]_(Session!vars)
    OBVIOUS
  <2>1. CASE Opens
    BY <2>1 DEF Opens, StartScan, FleetFree, Live,
                Session!Next, Session!Open, Session!FleetFree, Session!Live
  <2>2. CASE Moves
    BY <2>2 DEF Moves, WriteTransition, CanTransition, Statuses, Live, Terminal,
                Session!Next, Session!Move, Session!CanTransition, Session!Statuses,
                Session!Live, Session!Terminal
  <2>3. CASE Records
    BY <2>3 DEF Records, CommitRecord, Session!vars
  <2>4. CASE UNCHANGED dbVars
    BY <2>4 DEF dbVars, Session!vars
  <2>5. QED
    BY <2>1, <2>2, <2>3, <2>4, RowStep
<1>3. TypeOK /\ TxInv /\ [Next]_vars => (TypeOK /\ TxInv)'
  BY TypeNext, TxNext
<1>4. QED
  BY <1>1, <1>2, <1>3, TypeInit, TxInit, PTL DEF Spec, SessionSpec, Session!Spec

\* On SQLite a step leaves a terminal session as it is.
LEMMA TerminalStep ==
    ASSUME TypeOK, TxInv, [Next]_vars, Serialized,
           NEW s \in Sessions, status[s] \in Terminal
    PROVE  /\ status'[s] = status[s]
           /\ reason'[s] = reason[s]
           /\ results'[s] = results[s]
<1>a. RowsTypeOK
  BY DEF TypeOK
<1>1. CASE Opens
  BY <1>a, <1>1 DEF Opens, StartScan, RowsTypeOK, Terminal
<1>2. CASE Moves
  <2>1. PICK o \in Sessions, to \in Statuses, why \in {"", "operator", "context"} :
           WriteTransition(o, to, why) /\ CanTransition(status[o], to)
    BY <1>2 DEF Moves
  <2>2. o # s
    BY <2>1 DEF CanTransition, Terminal
  <2>3. QED
    BY <1>a, <2>1, <2>2 DEF WriteTransition, RowsTypeOK
<1>3. CASE Records
  <2>1. PICK o \in Sessions, i \in Items : CommitRecord(o, i) /\ status[o] = "running"
    BY <1>3 DEF Records
  <2>2. o # s
    BY <2>1 DEF Terminal
  <2>3. QED
    BY <1>a, <2>1, <2>2 DEF CommitRecord, RowsTypeOK
<1>4. CASE UNCHANGED dbVars
  BY <1>4 DEF dbVars
<1>5. QED
  BY <1>1, <1>2, <1>3, <1>4, RowStep

\* On SQLite a terminal session keeps its status, its reason and its results.
THEOREM TerminalFinal ==
    ASSUME Serialized
    PROVE  Spec => TerminalIsFinal
<1>1. TypeOK /\ TxInv /\ [Next]_vars =>
         \A s \in Sessions : status[s] \in Terminal =>
             /\ status'[s] = status[s]
             /\ reason'[s] = reason[s]
             /\ results'[s] = results[s]
  BY TerminalStep
<1>2. TypeOK /\ TxInv /\ [Next]_vars => (TypeOK /\ TxInv)'
  BY TypeNext, TxNext
<1>3. QED
  BY <1>1, <1>2, TypeInit, TxInit, PTL DEF Spec, TerminalIsFinal

\* On SQLite the severity column of a terminal session counts its failed checks.
THEOREM AggregateFinal ==
    ASSUME Serialized
    PROVE  Spec => []AggregateIsFinal
<1>1. Init => AggregateIsFinal
  BY DEF Init, AggregateIsFinal, Terminal
<1>2. TypeOK /\ TxInv /\ AggregateIsFinal /\ [Next]_vars => AggregateIsFinal'
  <2> SUFFICES ASSUME TypeOK, TxInv, AggregateIsFinal, [Next]_vars,
                      NEW s \in Sessions, status'[s] \in Terminal
               PROVE  severity'[s] = Cardinality(Recorded(s, {"fail"}))'
    BY DEF AggregateIsFinal
  <2>a. RowsTypeOK
    BY DEF TypeOK
  <2>b. results'[s] = results[s] => Recorded(s, {"fail"})' = Recorded(s, {"fail"})
    BY DEF Recorded
  <2>1. CASE Opens
    BY <2>a, <2>b, <2>1 DEF Opens, StartScan, RowsTypeOK, Terminal, AggregateIsFinal
  <2>2. CASE Moves
    <3>1. PICK o \in Sessions, to \in Statuses, why \in {"", "operator", "context"} :
             WriteTransition(o, to, why)
      BY <2>2 DEF Moves
    <3>2. results' = results
      BY <3>1 DEF WriteTransition
    <3>3. CASE o = s
      BY <2>a, <2>b, <3>1, <3>2, <3>3 DEF WriteTransition, RowsTypeOK
    <3>4. CASE o # s
      BY <2>a, <2>b, <3>1, <3>2, <3>4 DEF WriteTransition, RowsTypeOK, AggregateIsFinal
    <3>5. QED
      BY <3>3, <3>4
  <2>3. CASE Records
    <3>1. PICK o \in Sessions, i \in Items : CommitRecord(o, i) /\ status[o] = "running"
      BY <2>3 DEF Records
    <3>2. status' = status /\ severity' = severity
      BY <3>1 DEF CommitRecord
    <3>3. o # s
      BY <3>1, <3>2 DEF Terminal
    <3>4. results'[s] = results[s]
      BY <2>a, <3>1, <3>3 DEF CommitRecord, RowsTypeOK
    <3>5. QED
      BY <2>b, <3>2, <3>4 DEF AggregateIsFinal
  <2>4. CASE UNCHANGED dbVars
    BY <2>b, <2>4 DEF dbVars, AggregateIsFinal
  <2>5. QED
    BY <2>1, <2>2, <2>3, <2>4, RowStep
<1>3. TypeOK /\ TxInv /\ [Next]_vars => (TypeOK /\ TxInv)'
  BY TypeNext, TxNext
<1>4. QED
  BY <1>1, <1>2, <1>3, TypeInit, TxInit, PTL DEF Spec

\* A session that exists goes on existing.
LEMMA ExistsStep ==
    ASSUME TypeOK, TxInv, [Next]_vars, NEW s \in Sessions, status[s] # "none"
    PROVE  status'[s] # "none"
<1>a. RowsTypeOK
  BY DEF TypeOK
<1>1. CASE Opens
  BY <1>a, <1>1 DEF Opens, StartScan, RowsTypeOK
<1>2. CASE Moves
  <2>1. PICK o \in Sessions, to \in Statuses, why \in {"", "operator", "context"} :
           WriteTransition(o, to, why) /\ (to \in Terminal \/ to = "running")
    BY <1>2 DEF Moves
  <2>2. to # "none"
    BY <2>1 DEF Terminal
  <2>3. QED
    BY <1>a, <2>1, <2>2 DEF WriteTransition, RowsTypeOK
<1>3. CASE Records
  BY <1>3 DEF Records, CommitRecord
<1>4. CASE UNCHANGED dbVars
  BY <1>4 DEF dbVars
<1>5. QED
  BY <1>1, <1>2, <1>3, <1>4, RowStep

\* What a request may be told in a step: the truth of the moment.
ToldTruth(c) ==
    LET s == call'[c].session
    IN \/ call'[c] = call[c]
       \/ call'[c].at \in {"looked", "txCancel", "error"} /\ status'[s] # "none"
       \/ call'[c].at = "conflict" /\ status'[s] \in Terminal
       \/ call'[c].at = "ok" /\ status'[s] = "cancelled" /\ reason'[s] = "operator"

\* A request names a session that exists, and what it was told is so.
CancelInv ==
    /\ \A c \in Callers : call[c].at # "idle" => status[call[c].session] # "none"
    /\ CancelReplyIsTrue

\* No step tells a request anything else.
LEMMA ToldStep ==
    ASSUME TypeOK, TxInv, CancelInv, [Next]_vars, NEW c \in Callers
    PROVE  ToldTruth(c)
<1>a. RowsTypeOK /\ CallTypeOK
  BY DEF TypeOK
<1>b. \A d \in Callers : call[d].at # "idle" => status[call[d].session] # "none"
  BY DEF CancelInv
<1>1. ASSUME NEW d \in Callers, NEW s \in Sessions, CancelContext(d, s)
      PROVE  ToldTruth(c)
  BY <1>a, <1>1 DEF CancelContext, dbVars, CallTypeOK, ToldTruth
<1>2. ASSUME NEW d \in Callers, BeginCancel(d)
      PROVE  ToldTruth(c)
  <2>1. CASE d # c
    BY <1>a, <1>2, <2>1 DEF BeginCancel, Reply, CallTypeOK, ToldTruth
  <2>2. CASE d = c
    <3>1. call[c].session \in Sessions /\ status[call[c].session] # "none"
      BY <1>a, <1>b, <1>2, <2>2 DEF BeginCancel, CallTypeOK
    <3>2. status' = status
      BY <1>2 DEF BeginCancel, dbVars
    <3>3. call'[c].session = call[c].session
      BY <1>a, <1>2, <2>2 DEF BeginCancel, Reply, CallTypeOK
    <3>4. \/ call'[c].at = "txCancel"
          \/ call'[c].at = "conflict" /\ ~CanTransition(status[call[c].session], "cancelled")
      BY <1>a, <1>2, <2>2 DEF BeginCancel, Reply, CallTypeOK
    <3>5. ~CanTransition(status[call[c].session], "cancelled") =>
              status[call[c].session] \in Terminal
      BY <1>a, <3>1 DEF CanTransition, RowsTypeOK, Statuses, Live
    <3>6. QED
      BY <3>1, <3>2, <3>3, <3>4, <3>5 DEF ToldTruth
  <2>3. QED
    BY <2>1, <2>2
<1>3. ASSUME NEW d \in Callers, CommitCancel(d)
      PROVE  ToldTruth(c)
  <2>1. CASE d # c
    BY <1>a, <1>3, <2>1 DEF CommitCancel, Reply, CallTypeOK, ToldTruth
  <2>2. CASE d = c
    <3>1. call[c].session \in Sessions
      BY <1>a, <1>3, <2>2 DEF CommitCancel, CallTypeOK
    <3>2. call'[c].session = call[c].session /\ call'[c].at = "ok"
      BY <1>a, <1>3, <2>2 DEF CommitCancel, Reply, CallTypeOK
    <3>3. /\ status' = [status EXCEPT ![call[c].session] = "cancelled"]
          /\ reason' = [reason EXCEPT ![call[c].session] = "operator"]
      BY <1>3, <2>2 DEF CommitCancel, WriteTransition
    <3>4. QED
      BY <1>a, <3>1, <3>2, <3>3 DEF ToldTruth, RowsTypeOK
  <2>3. QED
    BY <2>1, <2>2
<1>4. ASSUME NEW d \in Callers, CancelFault(d)
      PROVE  ToldTruth(c)
  BY <1>a, <1>b, <1>4 DEF CancelFault, Reply, dbVars, CallTypeOK, ToldTruth
<1>5. CASE Crash
  <2>1. CASE call[c].at \in {"looked", "txCancel"}
    <3>1. call'[c].at = "error" /\ call'[c].session = call[c].session /\ status' = status
      BY <1>a, <1>5, <2>1 DEF Crash, dbVars, CallTypeOK
    <3>2. QED
      BY <1>b, <2>1, <3>1 DEF ToldTruth
  <2>2. CASE call[c].at \notin {"looked", "txCancel"}
    BY <1>5, <2>2 DEF Crash, ToldTruth
  <2>3. QED
    BY <2>1, <2>2
<1>6. ASSUME NEW s \in Sessions, NEW f \in Fleets, StartFromAPI(s, f) \/ StartFromSchedule(s, f)
      PROVE  ToldTruth(c)
  BY <1>6 DEF StartFromAPI, StartFromSchedule, ToldTruth
<1>7. ASSUME NEW s \in Sessions, RunStep(s) \/ RunFault(s)
      PROVE  ToldTruth(c)
  BY <1>7 DEF RunStep, BeginRunning, CommitRunning, RegisterCancel, Dispatch, Drain,
              Finalize, BeginTerminate, CommitTerminate, Announce, RunFault, ToldTruth
<1>8. ASSUME NEW s \in Sessions, NEW i \in Items, WorkStep(s, i) \/ RecordFault(s, i)
      PROVE  ToldTruth(c)
  BY <1>8 DEF WorkStep, CheckHealth, Exec, BeginRecord, CommitRecord, PublishProgress,
              RecordFault, ToldTruth
<1>9. CASE Idle \/ UNCHANGED vars
  BY <1>9 DEF Idle, vars, ToldTruth
<1>10. QED
  BY <1>1, <1>2, <1>3, <1>4, <1>5, <1>6, <1>7, <1>8, <1>9 DEF Next, CallStep

\* On SQLite what Cancel answers is true for good: a cancelled session stays
\* cancelled for the operator's reason, a conflict means the session is terminal.
THEOREM CancelReplyCorrect ==
    ASSUME Serialized
    PROVE  Spec => []CancelReplyIsTrue
<1>1. Init => CancelInv
  <2>1. ASSUME Init, NEW c \in Callers
        PROVE  call[c].at = "idle"
    <3>1. call = [d \in Callers |-> [at |-> "idle", session |-> NoSession]]
      BY <2>1 DEF Init
    <3>2. QED
      BY <3>1
  <2>2. QED
    BY <2>1 DEF CancelInv, CancelReplyIsTrue
<1>2. TypeOK /\ TxInv /\ CancelInv /\ [Next]_vars => CancelInv'
  <2> SUFFICES ASSUME TypeOK, TxInv, CancelInv, [Next]_vars, NEW c \in Callers
               PROVE  /\ call'[c].at # "idle" => status'[call'[c].session] # "none"
                      /\ call'[c].at = "ok" => /\ status'[call'[c].session] = "cancelled"
                                               /\ reason'[call'[c].session] = "operator"
                      /\ call'[c].at = "conflict" => status'[call'[c].session] \in Terminal
    BY DEF CancelInv, CancelReplyIsTrue
  <2>1. CASE call'[c] = call[c]
    <3> DEFINE s == call[c].session
    <3>1. call[c].at # "idle" => s \in Sessions
      BY DEF TypeOK, CallTypeOK
    <3>2. call[c].at # "idle" => status'[s] # "none"
      BY <3>1, ExistsStep DEF CancelInv
    <3>3. call[c].at \in {"ok", "conflict"} =>
              /\ status[s] \in Terminal
              /\ status'[s] = status[s] /\ reason'[s] = reason[s]
      BY <3>1, TerminalStep DEF CancelInv, CancelReplyIsTrue, Terminal
    <3>4. QED
      BY <2>1, <3>2, <3>3 DEF CancelInv, CancelReplyIsTrue
  <2>2. CASE call'[c] # call[c]
    BY <2>2, ToldStep DEF ToldTruth, Terminal
  <2>3. QED
    BY <2>1, <2>2
<1>3. CancelInv => CancelReplyIsTrue
  BY DEF CancelInv
<1>4. TypeOK /\ TxInv /\ [Next]_vars => (TypeOK /\ TxInv)'
  BY TypeNext, TxNext
<1>5. QED
  BY <1>1, <1>2, <1>3, <1>4, TypeInit, TxInit, PTL DEF Spec

--------------------------------------------------------------------------------
(* What the items of a matrix have behind them. *)

\* Where the goroutine of Run stands before the loops, and after them.
BeforeFanout == {"none", "start", "txRunning", "register"}
AfterDrain == {"finalize", "terminate", "txTerminate"}

\* Workers exist while their run waits for them and no longer; until the loops begin
\* every item is queued.
PlaceInv ==
    \A s \in Sessions :
        /\ status[s] = "none" => run[s] = "none"
        /\ run[s] \in BeforeFanout => \A i \in Items : work[s][i] = "queued"
        /\ InFlight(s) # {} => run[s] = "fanout"

\* The checks of robot r that have passed its health window and have not ended.
Probing(s, r) == {i \in Items : work[s][i] = "exec" /\ Robot(i) = r}

\* The semaphore bounds the workers, and each of those that passed the window before
\* it closed may add one failure.
HealthInv ==
    \A s \in Sessions :
        /\ Cardinality(InFlight(s)) <= WorkerLimit
        /\ \A r \in Robots :
              health[s][r] + Cardinality(Probing(s, r)) <= HealthFailureThreshold + WorkerLimit - 1

\* An item has a result from the commit of its record on, and not before.
ItemInv ==
    \A s \in Sessions, i \in Items :
        /\ work[s][i] \in {"record", "txRecord"} => outcome[s][i] \in Outcomes
        /\ work[s][i] \in {"queued", "ready", "exec", "record", "txRecord", "dropped"} =>
              results[s][i] = "none"
        /\ work[s][i] \in {"publish", "done"} => results[s][i] \in Outcomes

\* The counters of a session count its results.
CountInv ==
    \A s \in Sessions :
        /\ total[s] \in {0, Cardinality(Items)}
        /\ progress[s].completed = Cardinality(Recorded(s, Outcomes))
        /\ progress[s].failed = Cardinality(Recorded(s, {"fail", "error"}))

\* A run that has not been cut off loses an item only before its result is there, and
\* drops one only when the session has ended; one that has drained its workers without
\* being cancelled has been through every item; and a session that ended as completed is
\* done with every item, except those whose record was lost.
MatrixInv ==
    \A s \in Sessions, i \in Items :
        /\ run[s] \in AfterDrain \cup {"fanout"} =>
              /\ work[s][i] = "lost" => results[s][i] = "none"
              /\ status[s] = "running" => work[s][i] # "dropped"
        /\ run[s] \in AfterDrain /\ verdict[s] = "completed" /\ total[s] # 0 =>
              work[s][i] # "queued"
        /\ status[s] = "completed" /\ total[s] # 0 =>
              \/ work[s][i] = "done"
              \/ work[s][i] = "lost" /\ results[s][i] = "none"

\* Until a run announces, nothing but progress was published of its session; what it is
\* about to announce is the status, and what it has announced is.
AnnounceInv ==
    \A s \in Sessions :
        /\ run[s] \notin {"returned", "crashed"} =>
              \A k \in DOMAIN events[s] : events[s][k] = "progress"
        /\ run[s] = "announce" => status[s] = verdict[s]
        /\ \A k \in DOMAIN events[s] :
              events[s][k] # "progress" => k = Len(events[s]) /\ events[s][k] = status[s]

\* What the proofs below use of the types, of the start and of the step that makes a
\* session run, leaving the texts of reasons aside.
LEMMA Shapes ==
    /\ TypeOK => /\ status \in [Sessions -> Statuses]
                 /\ total \in [Sessions -> Nat]
                 /\ progress \in [Sessions -> [completed : Nat, failed : Nat]]
                 /\ results \in [Sessions -> [Items -> Outcomes \cup {"none"}]]
                 /\ RunTypeOK /\ WorkTypeOK /\ CallTypeOK
    /\ Init => /\ status = [s \in Sessions |-> "none"]
               /\ total = [s \in Sessions |-> 0]
               /\ progress = [s \in Sessions |-> [completed |-> 0, failed |-> 0]]
               /\ results = [s \in Sessions |-> [i \in Items |-> "none"]]
               /\ run = [s \in Sessions |-> "none"]
               /\ work = [s \in Sessions |-> [i \in Items |-> "queued"]]
               /\ health = [s \in Sessions |-> [r \in Robots |-> 0]]
               /\ events = [s \in Sessions |-> <<>>]
    /\ \A s \in Sessions : CommitRunning(s) =>
          /\ run[s] = "txRunning"
          /\ \/ /\ status' = [status EXCEPT ![s] = "running"]
                /\ run' = [run EXCEPT ![s] = IF total[s] = 0 THEN "terminate" ELSE "register"]
             \/ /\ status' = status
                /\ run' = [run EXCEPT ![s] = "returned"]
          /\ UNCHANGED <<total, progress, results, verdict, workVars, events>>
    /\ \A s, to, why : WriteTransition(s, to, why) =>
          /\ status' = [status EXCEPT ![s] = to]
          /\ UNCHANGED <<total, progress, results>>
    /\ \A s, f, n : StartScan(s, f, n) =>
          /\ status[s] = "none"
          /\ status' = [status EXCEPT ![s] = "pending"]
          /\ total' = [total EXCEPT ![s] = n]
          /\ UNCHANGED <<progress, results>>
<1>1. TypeOK => /\ status \in [Sessions -> Statuses]
                /\ total \in [Sessions -> Nat]
                /\ progress \in [Sessions -> [completed : Nat, failed : Nat]]
                /\ results \in [Sessions -> [Items -> Outcomes \cup {"none"}]]
                /\ RunTypeOK /\ WorkTypeOK /\ CallTypeOK
  BY Zenon DEF TypeOK, RowsTypeOK
<1>2. Init => /\ status = [s \in Sessions |-> "none"]
              /\ total = [s \in Sessions |-> 0]
              /\ progress = [s \in Sessions |-> [completed |-> 0, failed |-> 0]]
              /\ results = [s \in Sessions |-> [i \in Items |-> "none"]]
              /\ run = [s \in Sessions |-> "none"]
              /\ work = [s \in Sessions |-> [i \in Items |-> "queued"]]
              /\ health = [s \in Sessions |-> [r \in Robots |-> 0]]
              /\ events = [s \in Sessions |-> <<>>]
  BY Zenon DEF Init
<1>3. ASSUME NEW s \in Sessions, CommitRunning(s)
      PROVE  /\ run[s] = "txRunning"
             /\ \/ /\ status' = [status EXCEPT ![s] = "running"]
                   /\ run' = [run EXCEPT ![s] = IF total[s] = 0 THEN "terminate" ELSE "register"]
                \/ /\ status' = status
                   /\ run' = [run EXCEPT ![s] = "returned"]
             /\ UNCHANGED <<total, progress, results, verdict, workVars, events>>
  <2>1. CASE IndexAllows(s)
    BY <1>3, <2>1, Zenon DEF CommitRunning, WriteTransition
  <2>2. CASE ~IndexAllows(s)
    BY <1>3, <2>2, Zenon DEF CommitRunning, Return, dbVars
  <2>3. QED
    BY <2>1, <2>2, Zenon
<1>4. \A s, to, why : WriteTransition(s, to, why) =>
         /\ status' = [status EXCEPT ![s] = to]
         /\ UNCHANGED <<total, progress, results>>
  BY Zenon DEF WriteTransition
<1>5. \A s, f, n : StartScan(s, f, n) =>
         /\ status[s] = "none"
         /\ status' = [status EXCEPT ![s] = "pending"]
         /\ total' = [total EXCEPT ![s] = n]
         /\ UNCHANGED <<progress, results>>
  BY Zenon DEF StartScan
<1>6. QED
  BY <1>1, <1>2, <1>3, <1>4, <1>5, Zenon

\* The places are right at the start.
LEMMA PlaceInit == Init => PlaceInv
  BY Shapes DEF PlaceInv, InFlight

\* And after every step.
LEMMA PlaceNext == TypeOK /\ PlaceInv /\ [Next]_vars => PlaceInv'
<1> DEFINE Placed(o) == /\ status[o] = "none" => run[o] = "none"
                        /\ run[o] \in BeforeFanout => \A j \in Items : work[o][j] = "queued"
                        /\ InFlight(o) # {} => run[o] = "fanout"
<1> SUFFICES ASSUME TypeOK, PlaceInv, [Next]_vars, NEW o \in Sessions
             PROVE  Placed(o)'
  BY DEF PlaceInv
<1>a. /\ status \in [Sessions -> Statuses]
      /\ RunTypeOK /\ WorkTypeOK /\ CallTypeOK
  BY Shapes
<1>b. Placed(o)
  BY DEF PlaceInv
<1>1. ASSUME NEW s \in Sessions, NEW f \in Fleets, StartFromAPI(s, f)
      PROVE  Placed(o)'
  BY <1>a, <1>b, <1>1, Shapes DEF StartFromAPI, InFlight, BeforeFanout, RunTypeOK,
     WorkTypeOK, CallTypeOK, dbVars, ctxVars, workVars
<1>2. ASSUME NEW s \in Sessions, NEW f \in Fleets, StartFromSchedule(s, f)
      PROVE  Placed(o)'
  BY <1>a, <1>b, <1>2, Shapes DEF StartFromSchedule, InFlight, BeforeFanout,
     RunTypeOK, WorkTypeOK, CallTypeOK, dbVars, ctxVars, workVars
<1>3. ASSUME NEW s \in Sessions, BeginRunning(s)
      PROVE  Placed(o)'
  BY <1>a, <1>b, <1>3 DEF BeginRunning, Return, InFlight, BeforeFanout, RunTypeOK,
     WorkTypeOK, CallTypeOK, dbVars, ctxVars, workVars
<1>4. ASSUME NEW s \in Sessions, CommitRunning(s)
      PROVE  Placed(o)'
  <2>1. /\ run[s] = "txRunning" /\ work' = work
        /\ \/ /\ status' = [status EXCEPT ![s] = "running"]
              /\ \E p \in {"terminate", "register"} : run' = [run EXCEPT ![s] = p]
           \/ status' = status /\ run' = [run EXCEPT ![s] = "returned"]
    BY <1>4, Shapes DEF workVars
  <2>2. QED
    BY <1>a, <1>b, <2>1 DEF InFlight, BeforeFanout, RunTypeOK, WorkTypeOK
<1>5. ASSUME NEW s \in Sessions, RegisterCancel(s)
      PROVE  Placed(o)'
  BY <1>a, <1>b, <1>5 DEF RegisterCancel, InFlight, BeforeFanout, RunTypeOK,
     WorkTypeOK, CallTypeOK, dbVars, ctxVars, workVars
<1>6. ASSUME NEW s \in Sessions, NEW i \in Items, Dispatch(s, i)
      PROVE  Placed(o)'
  BY <1>a, <1>b, <1>6 DEF Dispatch, InFlight, BeforeFanout, RunTypeOK, WorkTypeOK,
     CallTypeOK, dbVars, ctxVars, workVars
<1>7. ASSUME NEW s \in Sessions, Drain(s)
      PROVE  Placed(o)'
  BY <1>a, <1>b, <1>7 DEF Drain, WorkersDone, InFlight, BeforeFanout, RunTypeOK,
     WorkTypeOK, CallTypeOK, dbVars, ctxVars, workVars
<1>8. ASSUME NEW s \in Sessions, Finalize(s)
      PROVE  Placed(o)'
  BY <1>a, <1>b, <1>8 DEF Finalize, InFlight, BeforeFanout, RunTypeOK, WorkTypeOK,
     CallTypeOK, dbVars, ctxVars, workVars
<1>9. ASSUME NEW s \in Sessions, BeginTerminate(s)
      PROVE  Placed(o)'
  BY <1>a, <1>b, <1>9 DEF BeginTerminate, Return, InFlight, BeforeFanout, RunTypeOK,
     WorkTypeOK, CallTypeOK, dbVars, ctxVars, workVars
<1>10. ASSUME NEW s \in Sessions, CommitTerminate(s)
      PROVE  Placed(o)'
  <2>1. status' = [status EXCEPT ![s] = verdict[s]] /\ verdict[s] # "none"
    BY <1>a, <1>10, Shapes DEF CommitTerminate, RunTypeOK, Terminal
  <2>2. QED
    BY <1>a, <1>b, <1>10, <2>1 DEF CommitTerminate, InFlight, BeforeFanout, RunTypeOK, WorkTypeOK,
       workVars
<1>11. ASSUME NEW s \in Sessions, Announce(s)
      PROVE  Placed(o)'
  BY <1>a, <1>b, <1>11 DEF Announce, Return, InFlight, BeforeFanout, RunTypeOK,
     WorkTypeOK, CallTypeOK, dbVars, ctxVars, workVars
<1>12. ASSUME NEW s \in Sessions, NEW i \in Items, CheckHealth(s, i)
      PROVE  Placed(o)'
  BY <1>a, <1>b, <1>12 DEF CheckHealth, InFlight, BeforeFanout, RunTypeOK,
     WorkTypeOK, CallTypeOK, dbVars, ctxVars, workVars
<1>13. ASSUME NEW s \in Sessions, NEW i \in Items, Exec(s, i)
      PROVE  Placed(o)'
  BY <1>a, <1>b, <1>13 DEF Exec, InFlight, BeforeFanout, RunTypeOK, WorkTypeOK,
     CallTypeOK, dbVars, ctxVars, workVars
<1>14. ASSUME NEW s \in Sessions, NEW i \in Items, BeginRecord(s, i)
      PROVE  Placed(o)'
  BY <1>a, <1>b, <1>14 DEF BeginRecord, InFlight, BeforeFanout, RunTypeOK,
     WorkTypeOK, CallTypeOK, dbVars, ctxVars, workVars
<1>15. ASSUME NEW s \in Sessions, NEW i \in Items, CommitRecord(s, i)
      PROVE  Placed(o)'
  BY <1>a, <1>b, <1>15 DEF CommitRecord, InFlight, BeforeFanout, RunTypeOK,
     WorkTypeOK, CallTypeOK, dbVars, ctxVars, workVars
<1>16. ASSUME NEW s \in Sessions, NEW i \in Items, PublishProgress(s, i)
      PROVE  Placed(o)'
  BY <1>a, <1>b, <1>16 DEF PublishProgress, InFlight, BeforeFanout, RunTypeOK,
     WorkTypeOK, CallTypeOK, dbVars, ctxVars, workVars
<1>17. ASSUME NEW c \in Callers, NEW s \in Sessions, CancelContext(c, s)
      PROVE  Placed(o)'
  BY <1>a, <1>b, <1>17 DEF CancelContext, InFlight, BeforeFanout, RunTypeOK,
     WorkTypeOK, CallTypeOK, dbVars, ctxVars, workVars
<1>18. ASSUME NEW c \in Callers, BeginCancel(c)
      PROVE  Placed(o)'
  BY <1>a, <1>b, <1>18 DEF BeginCancel, InFlight, BeforeFanout, RunTypeOK,
     WorkTypeOK, CallTypeOK, dbVars, ctxVars, workVars
<1>19. ASSUME NEW c \in Callers, CommitCancel(c)
      PROVE  Placed(o)'
  BY <1>a, <1>b, <1>19, Shapes DEF CommitCancel, InFlight, BeforeFanout, RunTypeOK,
     WorkTypeOK, CallTypeOK, dbVars, ctxVars, workVars
<1>20. ASSUME NEW s \in Sessions, RunFault(s)
      PROVE  Placed(o)'
  BY <1>a, <1>b, <1>20 DEF RunFault, Return, InFlight, BeforeFanout, RunTypeOK,
     WorkTypeOK, CallTypeOK, dbVars, ctxVars, workVars
<1>21. ASSUME NEW s \in Sessions, NEW i \in Items, RecordFault(s, i)
      PROVE  Placed(o)'
  BY <1>a, <1>b, <1>21 DEF RecordFault, InFlight, BeforeFanout, RunTypeOK,
     WorkTypeOK, CallTypeOK, dbVars, ctxVars, workVars
<1>22. ASSUME NEW c \in Callers, CancelFault(c)
      PROVE  Placed(o)'
  BY <1>a, <1>b, <1>22 DEF CancelFault, InFlight, BeforeFanout, RunTypeOK,
     WorkTypeOK, CallTypeOK, dbVars, ctxVars, workVars
<1>23. ASSUME Crash
      PROVE  Placed(o)'
  BY <1>a, <1>b, <1>23 DEF Crash, Goroutine, InFlight, BeforeFanout, RunTypeOK,
     WorkTypeOK, CallTypeOK, dbVars, ctxVars, workVars
<1>24. CASE UNCHANGED vars
  BY <1>b, <1>24 DEF vars, dbVars, ctxVars, workVars, InFlight
<1>25. QED
  BY <1>1, <1>2, <1>3, <1>4, <1>5, <1>6, <1>7, <1>8, <1>9, <1>10, <1>11, <1>12, <1>13,
     <1>14, <1>15, <1>16, <1>17, <1>18, <1>19, <1>20, <1>21, <1>22, <1>23, <1>24 DEF
     Next, RunStep, WorkStep, CallStep, Idle

\* Only the loop, the workers and a crash touch the workers' memory.
LEMMA WorkSteps ==
    ASSUME [Next]_vars
    PROVE  \/ UNCHANGED workVars
           \/ \E s \in Sessions, i \in Items : Dispatch(s, i) \/ WorkStep(s, i) \/ RecordFault(s, i)
           \/ Crash
<1>1. ASSUME NEW s \in Sessions, NEW f \in Fleets, StartFromAPI(s, f) \/ StartFromSchedule(s, f)
      PROVE  UNCHANGED workVars
  BY <1>1 DEF StartFromAPI, StartFromSchedule
<1>2. ASSUME NEW s \in Sessions, RunStep(s), ~\E i \in Items : Dispatch(s, i)
      PROVE  UNCHANGED workVars
  <2>1. CommitRunning(s) => UNCHANGED workVars
    BY Shapes
  <2>2. QED
    BY <1>2, <2>1 DEF RunStep, BeginRunning, RegisterCancel, Drain, Finalize, BeginTerminate,
       CommitTerminate, Announce
<1>3. ASSUME NEW s \in Sessions, RunFault(s)
      PROVE  UNCHANGED workVars
  BY <1>3 DEF RunFault
<1>4. ASSUME NEW c \in Callers, NEW s \in Sessions, CancelContext(c, s)
      PROVE  UNCHANGED workVars
  BY <1>4 DEF CancelContext
<1>5. ASSUME NEW c \in Callers, CallStep(c) \/ CancelFault(c)
      PROVE  UNCHANGED workVars
  BY <1>5 DEF CallStep, BeginCancel, CommitCancel, CancelFault
<1>6. ASSUME Idle \/ UNCHANGED vars
      PROVE  UNCHANGED workVars
  BY <1>6 DEF Idle, vars
<1>7. QED
  BY <1>1, <1>2, <1>3, <1>4, <1>5, <1>6 DEF Next

\* The sets that are counted are finite.
LEMMA WorkersFinite ==
    ASSUME NEW s, NEW r
    PROVE  /\ IsFiniteSet(InFlight(s)) /\ Cardinality(InFlight(s)) \in Nat
           /\ IsFiniteSet(Probing(s, r)) /\ Cardinality(Probing(s, r)) \in Nat
           /\ Probing(s, r) \subseteq InFlight(s)
           /\ Cardinality(Probing(s, r)) <= Cardinality(InFlight(s))
<1>1. InFlight(s) \subseteq Items /\ Probing(s, r) \subseteq InFlight(s)
  BY DEF InFlight, Probing
<1>2. IsFiniteSet(InFlight(s))
  BY <1>1, ItemsFinite, FS_Subset
<1>3. QED
  BY <1>1, <1>2, FS_Subset, FS_CardinalityType

\* Workers that leave do not break the bounds.
LEMMA FewerWorkers ==
    ASSUME HealthInv, NEW s \in Sessions, NEW r \in Robots,
           InFlight(s)' \subseteq InFlight(s), Probing(s, r)' \subseteq Probing(s, r),
           WorkTypeOK, health'[s][r] = health[s][r]
    PROVE  /\ Cardinality(InFlight(s)') <= WorkerLimit
           /\ health'[s][r] + Cardinality(Probing(s, r)')
                <= HealthFailureThreshold + WorkerLimit - 1
<1>1. /\ Cardinality(InFlight(s)') \in Nat
      /\ Cardinality(InFlight(s)') <= Cardinality(InFlight(s))
      /\ Cardinality(Probing(s, r)') \in Nat
      /\ Cardinality(Probing(s, r)') <= Cardinality(Probing(s, r))
  BY WorkersFinite, FS_Subset, FS_CardinalityType
<1>2. /\ Cardinality(InFlight(s)) <= WorkerLimit
      /\ health[s][r] + Cardinality(Probing(s, r)) <= HealthFailureThreshold + WorkerLimit - 1
  BY DEF HealthInv
<1>3. health[s][r] \in Nat
  BY DEF WorkTypeOK
<1>4. QED
  BY <1>1, <1>2, <1>3, WorkersFinite, SizeAssumption

\* The bounds hold at the start.
LEMMA HealthInit == Init => HealthInv
<1> SUFFICES ASSUME Init, NEW s \in Sessions, NEW r \in Robots
             PROVE  /\ Cardinality(InFlight(s)) <= WorkerLimit
                    /\ health[s][r] + Cardinality(Probing(s, r))
                         <= HealthFailureThreshold + WorkerLimit - 1
  BY SizeAssumption DEF HealthInv, Robots
<1>1. InFlight(s) = {} /\ Probing(s, r) = {}
  BY Shapes DEF InFlight, Probing
<1>2. health[s][r] = 0
  BY Shapes
<1>3. QED
  BY <1>1, <1>2, FS_EmptySet, SizeAssumption

\* And after every step.
LEMMA HealthNext == TypeOK /\ HealthInv /\ [Next]_vars => HealthInv'
<1> DEFINE Bounded(o, r) == /\ Cardinality(InFlight(o)) <= WorkerLimit
                            /\ health[o][r] + Cardinality(Probing(o, r))
                                 <= HealthFailureThreshold + WorkerLimit - 1
<1> SUFFICES ASSUME TypeOK, HealthInv, [Next]_vars, NEW o \in Sessions, NEW r \in Robots
             PROVE  Bounded(o, r)'
  BY SizeAssumption DEF HealthInv, Robots
<1>a. WorkTypeOK
  BY Shapes
<1>b. Bounded(o, r)
  BY DEF HealthInv
<1>c. health[o][r] \in Nat
  BY <1>a DEF WorkTypeOK
<1>1. CASE UNCHANGED workVars
  BY <1>b, <1>1 DEF workVars, InFlight, Probing
<1>2. ASSUME NEW s \in Sessions, NEW i \in Items, Dispatch(s, i)
      PROVE  Bounded(o, r)'
  <2>1. Probing(o, r)' = Probing(o, r) /\ health' = health
    BY <1>a, <1>2 DEF Dispatch, Probing, WorkTypeOK
  <2>2. CASE o = s
    <3>1. InFlight(o)' = InFlight(o) \cup {i}
      BY <1>a, <1>2, <2>2 DEF Dispatch, InFlight, WorkTypeOK
    <3>2. Cardinality(InFlight(o)) < WorkerLimit
      BY <1>2, <2>2 DEF Dispatch
    <3>3. Cardinality(InFlight(o)') <= WorkerLimit
      <4>1. IsFiniteSet(InFlight(o)) /\ Cardinality(InFlight(o)) \in Nat
        BY WorkersFinite
      <4>2. Cardinality(InFlight(o) \cup {i})
              \in {Cardinality(InFlight(o)), Cardinality(InFlight(o)) + 1}
        BY <4>1, FS_AddElement
      <4>3. QED
        BY <3>1, <3>2, <4>1, <4>2, SizeAssumption
    <3>4. QED
      BY <1>b, <2>1, <3>3
  <2>3. CASE o # s
    <3>1. InFlight(o)' = InFlight(o)
      BY <1>a, <1>2, <2>3 DEF Dispatch, InFlight, WorkTypeOK
    <3>2. QED
      BY <1>b, <2>1, <3>1
  <2>4. QED
    BY <2>2, <2>3
<1>3. ASSUME NEW s \in Sessions, NEW i \in Items, CheckHealth(s, i)
      PROVE  Bounded(o, r)'
  <2>1. InFlight(o)' = InFlight(o) /\ health' = health
    BY <1>a, <1>3 DEF CheckHealth, InFlight, WorkTypeOK
  <2>2. CASE o = s /\ r = Robot(i) /\ ~ShouldSkip(health[s][Robot(i)])
    <3>1. health[o][r] < HealthFailureThreshold
      BY <1>c, <2>2, SizeAssumption DEF ShouldSkip
    <3>2. /\ Cardinality(InFlight(o)') \in Nat /\ Cardinality(Probing(o, r)') \in Nat
          /\ Cardinality(Probing(o, r)') <= Cardinality(InFlight(o)')
      <4>1. Probing(o, r)' \subseteq InFlight(o)'
        BY DEF Probing, InFlight
      <4>2. QED
        BY <2>1, <4>1, WorkersFinite, FS_Subset, FS_CardinalityType
    <3>3. QED
      BY <1>b, <1>c, <2>1, <3>1, <3>2, SizeAssumption
  <2>3. CASE ~(o = s /\ r = Robot(i) /\ ~ShouldSkip(health[s][Robot(i)]))
    <3>1. Probing(o, r)' \subseteq Probing(o, r)
      BY <1>a, <1>3, <2>3 DEF CheckHealth, Probing, WorkTypeOK
    <3>2. QED
      BY <1>a, <2>1, <3>1, FewerWorkers
  <2>4. QED
    BY <2>2, <2>3
<1>4. ASSUME NEW s \in Sessions, NEW i \in Items, Exec(s, i)
      PROVE  Bounded(o, r)'
  <2>0. Robot(i) \in Robots
    BY DEF Robot, Items
  <2>1. InFlight(o)' = InFlight(o)
    BY <1>a, <1>4 DEF Exec, InFlight, WorkTypeOK
  <2>2. PICK probe \in Probes : health' = [health EXCEPT ![s][Robot(i)] = NextHealth(@, probe)]
    BY <1>4 DEF Exec
  <2>3. CASE o = s /\ r = Robot(i)
    <3>1. Probing(o, r)' = Probing(o, r) \ {i} /\ i \in Probing(o, r)
      BY <1>a, <1>4, <2>3 DEF Exec, Probing, WorkTypeOK
    <3>2. Cardinality(Probing(o, r)') = Cardinality(Probing(o, r)) - 1
      BY <3>1, WorkersFinite, FS_RemoveElement
    <3>3. health'[o][r] \in Nat /\ health'[o][r] <= health[o][r] + 1
      <4>1. health'[o][r] = NextHealth(health[o][r], probe)
        BY <1>a, <2>2, <2>3, <2>0 DEF WorkTypeOK
      <4>2. CASE probe = "sshError"
        BY <1>c, <4>1, <4>2 DEF NextHealth
      <4>3. CASE probe = "evalError"
        BY <1>c, <4>1, <4>3 DEF NextHealth
      <4>4. CASE probe \in {"pass", "fail", "indeterminate"}
        BY <1>c, <4>1, <4>4 DEF NextHealth
      <4>5. QED
        BY <4>2, <4>3, <4>4 DEF Probes
    <3>4. QED
      BY <1>b, <1>c, <2>1, <3>2, <3>3, WorkersFinite, SizeAssumption
  <2>4. CASE ~(o = s /\ r = Robot(i))
    <3>1. Probing(o, r)' = Probing(o, r)
      BY <1>a, <1>4, <2>4 DEF Exec, Probing, WorkTypeOK
    <3>2. health'[o][r] = health[o][r]
      BY <1>a, <2>0, <2>2, <2>4 DEF WorkTypeOK
    <3>3. QED
      BY <1>b, <2>1, <3>1, <3>2
  <2>5. QED
    BY <2>3, <2>4
<1>5. ASSUME NEW s \in Sessions, NEW i \in Items,
             BeginRecord(s, i) \/ CommitRecord(s, i) \/ PublishProgress(s, i) \/ RecordFault(s, i)
      PROVE  Bounded(o, r)'
  <2>1. health' = health /\ work[s][i] \in {"record", "txRecord", "publish"}
    BY <1>5 DEF BeginRecord, CommitRecord, PublishProgress, RecordFault
  <2>2. \E p \in {"txRecord", "dropped", "publish", "done", "lost"} :
           work' = [work EXCEPT ![s][i] = p]
    BY <1>5 DEF BeginRecord, CommitRecord, PublishProgress, RecordFault
  <2>3. InFlight(o)' \subseteq InFlight(o) /\ Probing(o, r)' \subseteq Probing(o, r)
    BY <1>a, <2>1, <2>2 DEF InFlight, Probing, WorkTypeOK
  <2>4. QED
    BY <1>a, <2>1, <2>3, FewerWorkers
<1>6. CASE Crash
  <2>1. InFlight(o)' = {}
    BY <1>a, <1>6 DEF Crash, InFlight, WorkTypeOK
  <2>2. Probing(o, r)' = {} /\ health'[o][r] = 0
    BY <1>a, <1>6 DEF Crash, InFlight, Probing, WorkTypeOK
  <2>3. QED
    BY <2>1, <2>2, FS_EmptySet, SizeAssumption
<1>7. QED
  BY <1>1, <1>2, <1>3, <1>4, <1>5, <1>6, WorkSteps DEF WorkStep

\* On either storage an unreachable robot is tried at most WorkerLimit - 1 times more
\* after its health window has closed, for any matrix and any number of workers.
THEOREM HealthWindowCorrect == Spec => []HealthWindowBound
<1>1. TypeOK /\ HealthInv => HealthWindowBound
  <2> SUFFICES ASSUME TypeOK, HealthInv, NEW s \in Sessions, NEW r \in Robots
               PROVE  health[s][r] <= HealthFailureThreshold + WorkerLimit - 1
    BY DEF HealthWindowBound
  <2>1. health[s][r] \in Nat
    BY Shapes DEF WorkTypeOK
  <2>2. QED
    BY <2>1, WorkersFinite, SizeAssumption DEF HealthInv
<1>2. TypeOK /\ HealthInv /\ [Next]_vars => (TypeOK /\ HealthInv)'
  BY TypeNext, HealthNext
<1>3. QED
  BY <1>1, <1>2, TypeInit, HealthInit, PTL DEF Spec

\* Only the commit of a record touches results and counters.
LEMMA RecordSteps ==
    ASSUME TypeOK, TxInv, [Next]_vars
    PROVE  \/ \E s \in Sessions, i \in Items : CommitRecord(s, i)
           \/ UNCHANGED <<results, progress>>
<1>1. Opens => UNCHANGED <<results, progress>>
  BY Shapes, Zenon DEF Opens
<1>2. Moves => UNCHANGED <<results, progress>>
  BY Shapes, Zenon DEF Moves
<1>3. Records => \E s \in Sessions, i \in Items : CommitRecord(s, i)
  BY DEF Records
<1>4. QED
  BY <1>1, <1>2, <1>3, RowStep DEF dbVars

\* No item has a result at the start.
LEMMA ItemInit == Init => ItemInv
  BY Shapes DEF ItemInv

\* An item goes on having what its place says.
LEMMA ItemNext == TypeOK /\ TxInv /\ ItemInv /\ [Next]_vars => ItemInv'
<1> DEFINE Kept(o, j) ==
        /\ work[o][j] \in {"record", "txRecord"} => outcome[o][j] \in Outcomes
        /\ work[o][j] \in {"queued", "ready", "exec", "record", "txRecord", "dropped"} =>
              results[o][j] = "none"
        /\ work[o][j] \in {"publish", "done"} => results[o][j] \in Outcomes
<1> SUFFICES ASSUME TypeOK, TxInv, ItemInv, [Next]_vars, NEW o \in Sessions, NEW j \in Items
             PROVE  Kept(o, j)'
  BY DEF ItemInv
<1>a. WorkTypeOK /\ results \in [Sessions -> [Items -> Outcomes \cup {"none"}]]
  BY Shapes
<1>b. Kept(o, j)
  BY DEF ItemInv
<1>1. ASSUME NEW s \in Sessions, NEW i \in Items, CommitRecord(s, i)
      PROVE  Kept(o, j)'
  <2>1. outcome[s][i] \in Outcomes
    BY <1>1 DEF CommitRecord, ItemInv
  <2>2. QED
    BY <1>a, <1>b, <1>1, <2>1 DEF CommitRecord, WorkTypeOK
<1>2. CASE UNCHANGED <<results, progress>>
  <2>1. CASE UNCHANGED workVars
    BY <1>b, <1>2, <2>1 DEF workVars
  <2>2. ASSUME NEW s \in Sessions, NEW i \in Items,
               \/ Dispatch(s, i) \/ BeginRecord(s, i)
               \/ PublishProgress(s, i) \/ RecordFault(s, i)
        PROVE  Kept(o, j)'
    <3>1. /\ outcome' = outcome
          /\ \E p \in WorkPCs :
                /\ work' = [work EXCEPT ![s][i] = p]
                /\ \/ work[s][i] = "queued" /\ p = "ready"
                   \/ work[s][i] = "record" /\ p \in {"txRecord", "dropped"}
                   \/ work[s][i] = "publish" /\ p = "done"
                   \/ work[s][i] = "txRecord" /\ p = "lost"
      BY <2>2 DEF Dispatch, BeginRecord, PublishProgress, RecordFault, WorkPCs
    <3>2. CASE o = s /\ j = i
      BY <1>a, <1>b, <1>2, <3>1, <3>2 DEF WorkTypeOK
    <3>3. CASE ~(o = s /\ j = i)
      <4>1. work'[o][j] = work[o][j]
        BY <1>a, <3>1, <3>3 DEF WorkTypeOK
      <4>2. QED
        BY <1>b, <1>2, <3>1, <4>1
    <3>4. QED
      BY <3>2, <3>3
  <2>3. ASSUME NEW s \in Sessions, NEW i \in Items, CheckHealth(s, i)
        PROVE  Kept(o, j)'
    <3>1. "skipped" \in Outcomes
      BY DEF Outcomes
    <3>2. CASE o = s /\ j = i
      BY <1>a, <1>b, <1>2, <2>3, <3>1, <3>2 DEF CheckHealth, WorkTypeOK
    <3>3. CASE ~(o = s /\ j = i)
      <4>1. work'[o][j] = work[o][j] /\ outcome'[o][j] = outcome[o][j]
        BY <1>a, <2>3, <3>3 DEF CheckHealth, WorkTypeOK
      <4>2. QED
        BY <1>b, <1>2, <4>1
    <3>4. QED
      BY <3>2, <3>3
  <2>4. ASSUME NEW s \in Sessions, NEW i \in Items, Exec(s, i)
        PROVE  Kept(o, j)'
    BY <1>a, <1>b, <1>2, <2>4, ProbeTypes DEF Exec, WorkTypeOK
  <2>5. CASE Crash
    BY <1>a, <1>b, <1>2, <2>5 DEF Crash, InFlight
  <2>6. QED
    BY <1>1, <2>1, <2>2, <2>3, <2>4, <2>5, WorkSteps DEF WorkStep
<1>3. QED
  BY <1>1, <1>2, RecordSteps

--------------------------------------------------------------------------------
(* The counters of a session. *)

\* What is counted is finite.
LEMMA RecordedFinite ==
    ASSUME NEW s, NEW O
    PROVE  IsFiniteSet(Recorded(s, O)) /\ Cardinality(Recorded(s, O)) \in Nat
<1>1. Recorded(s, O) \subseteq Items
  BY DEF Recorded
<1>2. QED
  BY <1>1, ItemsFinite, FS_Subset, FS_CardinalityType

\* A result that is recorded where there was none counts once among the outcomes that it
\* is one of.
LEMMA RecordedOnce ==
    ASSUME NEW s \in Sessions, NEW i \in Items, NEW O, "none" \notin O,
           NEW x, results[s][i] = "none",
           results \in [Sessions -> [Items -> Outcomes \cup {"none"}]],
           results' = [results EXCEPT ![s][i] = x]
    PROVE  Cardinality(Recorded(s, O)') = Cardinality(Recorded(s, O)) + (IF x \in O THEN 1 ELSE 0)
<1>1. i \notin Recorded(s, O)
  BY DEF Recorded
<1>2. CASE x \in O
  <2>1. Recorded(s, O)' = Recorded(s, O) \cup {i}
    BY <1>2 DEF Recorded
  <2>2. QED
    BY <1>1, <1>2, <2>1, RecordedFinite, FS_AddElement
<1>3. CASE x \notin O
  <2>1. Recorded(s, O)' = Recorded(s, O)
    BY <1>3 DEF Recorded
  <2>2. QED
    BY <1>3, <2>1, RecordedFinite
<1>4. QED
  BY <1>2, <1>3

\* The counters are right at the start.
LEMMA CountInit == Init => CountInv
<1> SUFFICES ASSUME Init, NEW s \in Sessions
             PROVE  /\ total[s] \in {0, Cardinality(Items)}
                    /\ progress[s].completed = Cardinality(Recorded(s, Outcomes))
                    /\ progress[s].failed = Cardinality(Recorded(s, {"fail", "error"}))
  BY DEF CountInv
<1>1. Recorded(s, Outcomes) = {} /\ Recorded(s, {"fail", "error"}) = {}
  BY Shapes DEF Recorded, Outcomes
<1>2. total[s] = 0 /\ progress[s] = [completed |-> 0, failed |-> 0]
  BY Shapes
<1>3. QED
  BY <1>1, <1>2, FS_EmptySet

\* A session is created with the size of its matrix, or with none; and keeps it.
LEMMA TotalStep ==
    ASSUME TypeOK, [Next]_vars, NEW s \in Sessions
    PROVE  total'[s] \in {total[s], 0, Cardinality(Items)}
<1>a. total \in [Sessions -> Nat]
  BY Shapes
<1>1. ASSUME NEW o \in Sessions, NEW f \in Fleets, StartFromAPI(o, f) \/ StartFromSchedule(o, f)
      PROVE  \E n \in {0, Cardinality(Items)} : total' = [total EXCEPT ![o] = n]
  BY <1>1, Shapes DEF StartFromAPI, StartFromSchedule
<1>2. ASSUME NEW o \in Sessions, RunStep(o)
      PROVE  total' = total
  <2>1. CommitTerminate(o) => total' = total
    BY Shapes DEF CommitTerminate
  <2>2. QED
    BY <1>2, <2>1, Shapes DEF RunStep, BeginRunning, RegisterCancel, Dispatch, Drain, Finalize,
       BeginTerminate, Announce, dbVars
<1>3. ASSUME NEW o \in Sessions, NEW i \in Items, WorkStep(o, i) \/ RecordFault(o, i)
      PROVE  total' = total
  BY <1>3 DEF WorkStep, CheckHealth, Exec, BeginRecord, CommitRecord, PublishProgress, RecordFault,
     dbVars
<1>4. ASSUME NEW c \in Callers,
             CallStep(c) \/ CancelFault(c) \/ \E o \in Sessions : CancelContext(c, o)
      PROVE  total' = total
  BY <1>4, Shapes DEF CallStep, BeginCancel, CommitCancel, CancelFault, CancelContext, dbVars
<1>5. ASSUME NEW o \in Sessions, RunFault(o)
      PROVE  total' = total
  BY <1>5 DEF RunFault, dbVars
<1>6. CASE Crash \/ Idle \/ UNCHANGED vars
  BY <1>6 DEF Crash, Idle, vars, dbVars
<1>7. QED
  BY <1>a, <1>1, <1>2, <1>3, <1>4, <1>5, <1>6 DEF Next

\* And after every step.
LEMMA CountNext == TypeOK /\ TxInv /\ ItemInv /\ CountInv /\ [Next]_vars => CountInv'
<1> DEFINE Counted(o) ==
        /\ progress[o].completed = Cardinality(Recorded(o, Outcomes))
        /\ progress[o].failed = Cardinality(Recorded(o, {"fail", "error"}))
<1> SUFFICES ASSUME TypeOK, TxInv, ItemInv, CountInv, [Next]_vars, NEW o \in Sessions
             PROVE  total'[o] \in {0, Cardinality(Items)} /\ Counted(o)'
  BY DEF CountInv
<1>a. /\ progress \in [Sessions -> [completed : Nat, failed : Nat]]
      /\ results \in [Sessions -> [Items -> Outcomes \cup {"none"}]]
  BY Shapes
<1>b. Counted(o)
  BY DEF CountInv
<1>1. total'[o] \in {0, Cardinality(Items)}
  BY TotalStep DEF CountInv
<1>2. ASSUME NEW s \in Sessions, NEW i \in Items, CommitRecord(s, i)
      PROVE  Counted(o)'
  <2>1. results[s][i] = "none" /\ outcome[s][i] \in Outcomes
    BY <1>2 DEF CommitRecord, ItemInv
  <2>2. results' = [results EXCEPT ![s][i] = outcome[s][i]]
    BY <1>2 DEF CommitRecord
  <2>3. CASE o = s
    <3>0. "none" \notin Outcomes
      BY DEF Outcomes
    <3>1. Cardinality(Recorded(o, Outcomes)') = Cardinality(Recorded(o, Outcomes)) + 1
      BY <1>a, <2>1, <2>2, <2>3, <3>0, RecordedOnce
    <3>2. Cardinality(Recorded(o, {"fail", "error"})')
            = Cardinality(Recorded(o, {"fail", "error"}))
              + (IF outcome[s][i] \in {"fail", "error"} THEN 1 ELSE 0)
      BY <1>a, <2>1, <2>2, <2>3, RecordedOnce
    <3>3. progress'[o] = [completed |-> progress[o].completed + 1,
                          failed |-> progress[o].failed
                                     + IF outcome[s][i] \in {"fail", "error"} THEN 1 ELSE 0]
      BY <1>a, <1>2, <2>3 DEF CommitRecord
    <3>4. QED
      BY <1>b, <3>1, <3>2, <3>3
  <2>4. CASE o # s
    <3>1. progress'[o] = progress[o] /\ results'[o] = results[o]
      BY <1>a, <1>2, <2>2, <2>4 DEF CommitRecord
    <3>2. QED
      BY <1>b, <3>1 DEF Recorded
  <2>5. QED
    BY <2>3, <2>4
<1>3. CASE UNCHANGED <<results, progress>>
  <2>1. Cardinality(Recorded(o, Outcomes)') = Cardinality(Recorded(o, Outcomes))
    BY <1>3 DEF Recorded
  <2>2. Cardinality(Recorded(o, {"fail", "error"})') = Cardinality(Recorded(o, {"fail", "error"}))
    BY <1>3 DEF Recorded
  <2>3. progress' = progress
    BY <1>3
  <2>4. QED
    BY <1>1, <1>b, <2>1, <2>2, <2>3
<1>4. QED
  BY <1>1, <1>2, <1>3, RecordSteps

--------------------------------------------------------------------------------
(* The matrix of a session that ended as completed. *)

\* Nothing has been run at the start.
LEMMA MatrixInit == Init => MatrixInv
  BY Shapes DEF MatrixInv, AfterDrain

\* On SQLite the matrix stays covered.
LEMMA MatrixNext ==
    ASSUME Serialized
    PROVE  TypeOK /\ TxInv /\ PlaceInv /\ ItemInv /\ MatrixInv /\ [Next]_vars => MatrixInv'
<1> DEFINE Covered(o, j) ==
        /\ run[o] \in AfterDrain \cup {"fanout"} =>
              /\ work[o][j] = "lost" => results[o][j] = "none"
              /\ status[o] = "running" => work[o][j] # "dropped"
        /\ run[o] \in AfterDrain /\ verdict[o] = "completed" /\ total[o] # 0 =>
              work[o][j] # "queued"
        /\ status[o] = "completed" /\ total[o] # 0 =>
              \/ work[o][j] = "done"
              \/ work[o][j] = "lost" /\ results[o][j] = "none"
<1> SUFFICES ASSUME TypeOK, TxInv, PlaceInv, ItemInv, MatrixInv, [Next]_vars,
                    NEW o \in Sessions, NEW j \in Items
             PROVE  Covered(o, j)'
  BY DEF MatrixInv
<1>a. /\ status \in [Sessions -> Statuses] /\ total \in [Sessions -> Nat]
      /\ results \in [Sessions -> [Items -> Outcomes \cup {"none"}]]
      /\ RunTypeOK /\ WorkTypeOK /\ CallTypeOK
  BY Shapes
<1>b. Covered(o, j)
  BY DEF MatrixInv
<1>c. /\ status[o] = "none" => run[o] = "none"
      /\ run[o] \in BeforeFanout => work[o][j] = "queued"
      /\ work[o][j] \in {"ready", "exec", "record", "txRecord", "publish"} => run[o] = "fanout"
      /\ work[o][j] = "txRecord" => results[o][j] = "none"
  BY DEF PlaceInv, ItemInv, InFlight
<1>d. /\ run[o] = "txRunning" => status[o] = "pending"
      /\ run[o] = "txTerminate" => CanTransition(status[o], verdict[o])
  BY DEF TxInv, ReadsHold
<1>1. ASSUME NEW s \in Sessions, NEW f \in Fleets, StartFromAPI(s, f)
      PROVE  Covered(o, j)'
  BY <1>a, <1>b, <1>c, <1>d, <1>1, Shapes DEF StartFromAPI, AfterDrain,
     BeforeFanout, RunTypeOK, WorkTypeOK, CallTypeOK, dbVars, ctxVars, workVars
<1>2. ASSUME NEW s \in Sessions, NEW f \in Fleets, StartFromSchedule(s, f)
      PROVE  Covered(o, j)'
  BY <1>a, <1>b, <1>c, <1>d, <1>2, Shapes DEF StartFromSchedule, AfterDrain,
     BeforeFanout, RunTypeOK, WorkTypeOK, CallTypeOK, dbVars, ctxVars, workVars
<1>3. ASSUME NEW s \in Sessions, BeginRunning(s)
      PROVE  Covered(o, j)'
  BY <1>a, <1>b, <1>c, <1>d, <1>3 DEF BeginRunning, Return, AfterDrain,
     BeforeFanout, RunTypeOK, WorkTypeOK, CallTypeOK, dbVars, ctxVars, workVars
<1>4. ASSUME NEW s \in Sessions, CommitRunning(s)
      PROVE  Covered(o, j)'
  <2>0. /\ run[s] = "txRunning" /\ work' = work
        /\ UNCHANGED <<total, results, verdict>>
        /\ \/ /\ status' = [status EXCEPT ![s] = "running"]
              /\ run' = [run EXCEPT ![s] = IF total[s] = 0 THEN "terminate" ELSE "register"]
           \/ /\ status' = status
              /\ run' = [run EXCEPT ![s] = "returned"]
    BY <1>4, Shapes DEF workVars
  <2>1. CASE o = s
    <3>1. /\ run[o] = "txRunning"
          /\ run'[o] \in {"terminate", "register", "returned"}
          /\ run'[o] = "terminate" => total[o] = 0
          /\ status'[o] \in {"running", "pending"}
      BY <1>a, <1>d, <2>0, <2>1 DEF RunTypeOK
    <3>2. work[o][j] = "queued"
      BY <1>c, <3>1 DEF BeforeFanout
    <3>3. QED
      BY <2>0, <3>1, <3>2 DEF AfterDrain
  <2>2. CASE o # s
    <3>1. run'[o] = run[o] /\ status'[o] = status[o]
      BY <1>a, <2>0, <2>2 DEF RunTypeOK
    <3>2. QED
      BY <1>b, <2>0, <3>1
  <2>3. QED
    BY <2>1, <2>2
<1>5. ASSUME NEW s \in Sessions, RegisterCancel(s)
      PROVE  Covered(o, j)'
  BY <1>a, <1>b, <1>c, <1>d, <1>5 DEF RegisterCancel, AfterDrain, BeforeFanout,
     RunTypeOK, WorkTypeOK, CallTypeOK, dbVars, ctxVars, workVars
<1>6. ASSUME NEW s \in Sessions, NEW i \in Items, Dispatch(s, i)
      PROVE  Covered(o, j)'
  BY <1>a, <1>b, <1>c, <1>d, <1>6 DEF Dispatch, AfterDrain, BeforeFanout, RunTypeOK,
     WorkTypeOK, CallTypeOK, dbVars, ctxVars, workVars
<1>7. ASSUME NEW s \in Sessions, Drain(s)
      PROVE  Covered(o, j)'
  <2>1. CASE o = s
    <3>1. /\ run[o] = "fanout" /\ run'[o] = "finalize"
          /\ verdict'[o] = "completed" => work[o][j] # "queued"
          /\ UNCHANGED <<status, total, results, work>>
      BY <1>a, <1>7, <2>1 DEF Drain, RunVerdict, RunTypeOK, dbVars, workVars
    <3>2. QED
      BY <1>b, <3>1 DEF AfterDrain
  <2>2. CASE o # s
    <3>1. /\ UNCHANGED <<status, total, results, work>>
          /\ run'[o] = run[o] /\ verdict'[o] = verdict[o]
      BY <1>a, <1>7, <2>2 DEF Drain, RunTypeOK, dbVars, workVars
    <3>2. QED
      BY <1>b, <3>1
  <2>3. QED
    BY <2>1, <2>2
<1>8. ASSUME NEW s \in Sessions, Finalize(s)
      PROVE  Covered(o, j)'
  BY <1>a, <1>b, <1>c, <1>d, <1>8 DEF Finalize, AfterDrain, BeforeFanout, RunTypeOK,
     WorkTypeOK, CallTypeOK, dbVars, ctxVars, workVars
<1>9. ASSUME NEW s \in Sessions, BeginTerminate(s)
      PROVE  Covered(o, j)'
  BY <1>a, <1>b, <1>c, <1>d, <1>9 DEF BeginTerminate, Return, AfterDrain,
     BeforeFanout, RunTypeOK, WorkTypeOK, CallTypeOK, dbVars, ctxVars, workVars
<1>10. ASSUME NEW s \in Sessions, CommitTerminate(s)
      PROVE  Covered(o, j)'
  <2>1. CASE o = s
    <3>1. /\ run[o] = "txTerminate" /\ run'[o] = "announce"
          /\ status'[o] = verdict[o]
          /\ UNCHANGED <<total, results, work>>
      BY <1>a, <1>10, <2>1, Shapes DEF CommitTerminate, RunTypeOK, workVars
    <3>2. verdict[o] = "completed" => status[o] = "running"
      BY <1>d, <3>1 DEF CanTransition
    <3>3. work[o][j] \notin {"ready", "exec", "record", "txRecord", "publish"}
      BY <1>c, <3>1
    <3>4. work[o][j] \in WorkPCs
      BY <1>a DEF WorkTypeOK
    <3>5. QED
      BY <1>b, <3>1, <3>2, <3>3, <3>4 DEF AfterDrain, WorkPCs
  <2>2. CASE o # s
    <3>1. /\ UNCHANGED <<total, results, work, verdict>>
          /\ run'[o] = run[o] /\ status'[o] = status[o]
      BY <1>a, <1>10, <2>2, Shapes DEF CommitTerminate, RunTypeOK, workVars
    <3>2. QED
      BY <1>b, <3>1
  <2>3. QED
    BY <2>1, <2>2
<1>11. ASSUME NEW s \in Sessions, Announce(s)
      PROVE  Covered(o, j)'
  BY <1>a, <1>b, <1>c, <1>d, <1>11 DEF Announce, Return, AfterDrain, BeforeFanout,
     RunTypeOK, WorkTypeOK, CallTypeOK, dbVars, ctxVars, workVars
<1>12. ASSUME NEW s \in Sessions, NEW i \in Items, CheckHealth(s, i)
      PROVE  Covered(o, j)'
  <2>1. UNCHANGED <<status, total, results, run, verdict>>
    BY <1>12 DEF CheckHealth, dbVars
  <2>2. work[s][i] = "ready" /\ \E p \in {"record", "exec"} : work' = [work EXCEPT ![s][i] = p]
    BY <1>12 DEF CheckHealth
  <2>3. CASE o = s /\ j = i
    BY <1>a, <1>b, <2>1, <2>2, <2>3 DEF AfterDrain, WorkTypeOK
  <2>4. CASE ~(o = s /\ j = i)
    <3>1. work'[o][j] = work[o][j]
      BY <1>a, <2>2, <2>4 DEF WorkTypeOK
    <3>2. QED
      BY <1>b, <2>1, <3>1
  <2>5. QED
    BY <2>3, <2>4
<1>13. ASSUME NEW s \in Sessions, NEW i \in Items, Exec(s, i)
      PROVE  Covered(o, j)'
  BY <1>a, <1>b, <1>c, <1>d, <1>13 DEF Exec, AfterDrain, BeforeFanout, RunTypeOK,
     WorkTypeOK, CallTypeOK, dbVars, ctxVars, workVars
<1>14. ASSUME NEW s \in Sessions, NEW i \in Items, BeginRecord(s, i)
      PROVE  Covered(o, j)'
  <2>1. UNCHANGED <<status, total, results, run, verdict>>
    BY <1>14 DEF BeginRecord, dbVars
  <2>2. /\ work[s][i] = "record"
        /\ \/ work' = [work EXCEPT ![s][i] = "txRecord"]
           \/ work' = [work EXCEPT ![s][i] = "dropped"] /\ status[s] # "running"
    BY <1>14 DEF BeginRecord, Recordable
  <2>3. CASE o = s /\ j = i
    BY <1>a, <1>b, <2>1, <2>2, <2>3 DEF AfterDrain, WorkTypeOK
  <2>4. CASE ~(o = s /\ j = i)
    <3>1. work'[o][j] = work[o][j]
      BY <1>a, <2>2, <2>4 DEF WorkTypeOK
    <3>2. QED
      BY <1>b, <2>1, <3>1
  <2>5. QED
    BY <2>3, <2>4
<1>15. ASSUME NEW s \in Sessions, NEW i \in Items, CommitRecord(s, i)
      PROVE  Covered(o, j)'
  BY <1>a, <1>b, <1>c, <1>d, <1>15 DEF CommitRecord, AfterDrain, BeforeFanout,
     RunTypeOK, WorkTypeOK, CallTypeOK, dbVars, ctxVars, workVars
<1>16. ASSUME NEW s \in Sessions, NEW i \in Items, PublishProgress(s, i)
      PROVE  Covered(o, j)'
  BY <1>a, <1>b, <1>c, <1>d, <1>16 DEF PublishProgress, AfterDrain, BeforeFanout,
     RunTypeOK, WorkTypeOK, CallTypeOK, dbVars, ctxVars, workVars
<1>17. ASSUME NEW c \in Callers, NEW s \in Sessions, CancelContext(c, s)
      PROVE  Covered(o, j)'
  BY <1>a, <1>b, <1>c, <1>d, <1>17 DEF CancelContext, AfterDrain, BeforeFanout,
     RunTypeOK, WorkTypeOK, CallTypeOK, dbVars, ctxVars, workVars
<1>18. ASSUME NEW c \in Callers, BeginCancel(c)
      PROVE  Covered(o, j)'
  BY <1>a, <1>b, <1>c, <1>d, <1>18 DEF BeginCancel, AfterDrain, BeforeFanout,
     RunTypeOK, WorkTypeOK, CallTypeOK, dbVars, ctxVars, workVars
<1>19. ASSUME NEW c \in Callers, CommitCancel(c)
      PROVE  Covered(o, j)'
  BY <1>a, <1>b, <1>c, <1>d, <1>19, Shapes DEF CommitCancel, AfterDrain,
     BeforeFanout, RunTypeOK, WorkTypeOK, CallTypeOK, dbVars, ctxVars, workVars
<1>20. ASSUME NEW s \in Sessions, RunFault(s)
      PROVE  Covered(o, j)'
  BY <1>a, <1>b, <1>c, <1>d, <1>20 DEF RunFault, Return, AfterDrain, BeforeFanout,
     RunTypeOK, WorkTypeOK, CallTypeOK, dbVars, ctxVars, workVars
<1>21. ASSUME NEW s \in Sessions, NEW i \in Items, RecordFault(s, i)
      PROVE  Covered(o, j)'
  BY <1>a, <1>b, <1>c, <1>d, <1>21 DEF RecordFault, AfterDrain, BeforeFanout,
     RunTypeOK, WorkTypeOK, CallTypeOK, dbVars, ctxVars, workVars
<1>22. ASSUME NEW c \in Callers, CancelFault(c)
      PROVE  Covered(o, j)'
  BY <1>a, <1>b, <1>c, <1>d, <1>22 DEF CancelFault, AfterDrain, BeforeFanout,
     RunTypeOK, WorkTypeOK, CallTypeOK, dbVars, ctxVars, workVars
<1>23. ASSUME Crash
      PROVE  Covered(o, j)'
  <2>1. UNCHANGED <<status, total, results, verdict>>
    BY <1>23 DEF Crash, dbVars
  <2>2. run'[o] \in {"none", "returned", "crashed"}
    BY <1>23 DEF Crash, Goroutine
  <2>3. work[o][j] \in {"done", "lost"} => work'[o][j] = work[o][j]
    BY <1>23 DEF Crash, InFlight
  <2>4. QED
    BY <1>b, <2>1, <2>2, <2>3 DEF AfterDrain
<1>24. CASE UNCHANGED vars
  BY <1>b, <1>24 DEF vars, dbVars, ctxVars, workVars
<1>25. QED
  BY <1>1, <1>2, <1>3, <1>4, <1>5, <1>6, <1>7, <1>8, <1>9, <1>10, <1>11, <1>12, <1>13,
     <1>14, <1>15, <1>16, <1>17, <1>18, <1>19, <1>20, <1>21, <1>22, <1>23, <1>24 DEF
     Next, RunStep, WorkStep, CallStep, Idle

\* A session that ended as completed has a result for every item but those whose record
\* was lost, and its counters say how many.
LEMMA MatrixCovered == TypeOK /\ ItemInv /\ CountInv /\ MatrixInv => CompletedCoversMatrix
<1> SUFFICES ASSUME TypeOK, ItemInv, CountInv, MatrixInv, NEW s \in Sessions,
                    status[s] = "completed", total[s] # 0
             PROVE  LET lost == {i \in Items : work[s][i] = "lost"}
                    IN  /\ Recorded(s, Outcomes) = Items \ lost
                        /\ progress[s] = [completed |-> total[s] - Cardinality(lost),
                                          failed |-> Cardinality(Recorded(s, {"fail", "error"}))]
  BY DEF CompletedCoversMatrix
<1> DEFINE lost == {i \in Items : work[s][i] = "lost"}
<1>1. Recorded(s, Outcomes) = Items \ lost
  <2>1. ASSUME NEW i \in Items
        PROVE  results[s][i] \in Outcomes <=> work[s][i] # "lost"
    <3>1. \/ work[s][i] = "done" /\ results[s][i] \in Outcomes
          \/ work[s][i] = "lost" /\ results[s][i] = "none"
      BY DEF MatrixInv, ItemInv
    <3>2. QED
      BY <3>1 DEF Outcomes
  <2>2. QED
    BY <2>1 DEF Recorded
<1>2. Cardinality(Items \ lost) = Cardinality(Items) - Cardinality(lost)
  <2>1. Items \cap lost = lost
    OBVIOUS
  <2>2. Cardinality(Items \ lost) = Cardinality(Items) - Cardinality(Items \cap lost)
    BY ItemsFinite, FS_Difference
  <2>3. QED
    BY <2>1, <2>2
<1>3. progress[s].completed = total[s] - Cardinality(lost)
  BY <1>1, <1>2 DEF CountInv
<1>4. progress[s].failed = Cardinality(Recorded(s, {"fail", "error"}))
  BY DEF CountInv
<1>5. progress[s] = [completed |-> progress[s].completed, failed |-> progress[s].failed]
  BY Shapes
<1>6. QED
  BY <1>1, <1>3, <1>4, <1>5

\* On SQLite a session that ended as completed ran its whole matrix, for any size of it,
\* any number of workers and whatever is cancelled, fails or crashes meanwhile.
THEOREM CompletedCovers ==
    ASSUME Serialized
    PROVE  Spec => []CompletedCoversMatrix
<1> DEFINE IInv == TypeOK /\ TxInv /\ PlaceInv /\ ItemInv /\ CountInv /\ MatrixInv
<1>1. Init => IInv
  BY TypeInit, TxInit, PlaceInit, ItemInit, CountInit, MatrixInit
<1>2. IInv /\ [Next]_vars => IInv'
  BY TypeNext, TxNext, PlaceNext, ItemNext, CountNext, MatrixNext
<1>3. IInv => CompletedCoversMatrix
  BY MatrixCovered
<1>4. QED
  BY <1>1, <1>2, <1>3, PTL DEF Spec

--------------------------------------------------------------------------------
(* What is announced of a session. *)

\* Nothing has been published at the start.
LEMMA AnnounceInit == Init => AnnounceInv
<1> SUFFICES ASSUME Init, NEW s \in Sessions
             PROVE  /\ DOMAIN events[s] = {}
                    /\ run[s] # "announce"
  BY DEF AnnounceInv
<1>1. events[s] = <<>> /\ run[s] = "none"
  BY Shapes
<1>2. QED
  BY <1>1

\* What is published is the progress of a session whose run waits for its workers, or the
\* end that its run has read or written.
LEMMA PublishSteps ==
    ASSUME TypeOK, PlaceInv, [Next]_vars
    PROVE  \/ UNCHANGED events
           \/ \E s \in Sessions : /\ run[s] = "fanout"
                                  /\ events' = [events EXCEPT ![s] = Append(@, "progress")]
                                  /\ UNCHANGED <<status, run>>
           \/ \E s \in Sessions : /\ run[s] = "announce"
                                  /\ events' = [events EXCEPT ![s] = Append(@, verdict[s])]
                                  /\ run' = [run EXCEPT ![s] = "returned"]
                                  /\ UNCHANGED status
<1>1. ASSUME NEW s \in Sessions, NEW f \in Fleets, StartFromAPI(s, f) \/ StartFromSchedule(s, f)
      PROVE  UNCHANGED events
  BY <1>1 DEF StartFromAPI, StartFromSchedule
<1>2. ASSUME NEW s \in Sessions, RunStep(s), ~Announce(s)
      PROVE  UNCHANGED events
  <2>1. CommitRunning(s) => UNCHANGED events
    BY Shapes
  <2>2. QED
    BY <1>2, <2>1 DEF RunStep, BeginRunning, RegisterCancel, Dispatch, Drain, Finalize,
       BeginTerminate, CommitTerminate
<1>3. ASSUME NEW s \in Sessions, Announce(s)
      PROVE  /\ run[s] = "announce"
             /\ events' = [events EXCEPT ![s] = Append(@, verdict[s])]
             /\ run' = [run EXCEPT ![s] = "returned"]
             /\ UNCHANGED status
  BY <1>3 DEF Announce, Return, dbVars
<1>4. ASSUME NEW s \in Sessions, NEW i \in Items, PublishProgress(s, i)
      PROVE  /\ run[s] = "fanout"
             /\ events' = [events EXCEPT ![s] = Append(@, "progress")]
             /\ UNCHANGED <<status, run>>
  <2>1. i \in InFlight(s)
    BY <1>4 DEF PublishProgress, InFlight
  <2>2. QED
    BY <1>4, <2>1 DEF PlaceInv, PublishProgress, dbVars
<1>5. ASSUME NEW s \in Sessions, NEW i \in Items, WorkStep(s, i) \/ RecordFault(s, i),
             ~PublishProgress(s, i)
      PROVE  UNCHANGED events
  BY <1>5 DEF WorkStep, CheckHealth, Exec, BeginRecord, CommitRecord, RecordFault
<1>6. ASSUME NEW c \in Callers,
             CallStep(c) \/ CancelFault(c) \/ \E s \in Sessions : CancelContext(c, s)
      PROVE  UNCHANGED events
  BY <1>6 DEF CallStep, BeginCancel, CommitCancel, CancelFault, CancelContext
<1>7. ASSUME NEW s \in Sessions, RunFault(s)
      PROVE  UNCHANGED events
  BY <1>7 DEF RunFault
<1>8. CASE Crash \/ Idle \/ UNCHANGED vars
  BY <1>8 DEF Crash, Idle, vars
<1>9. QED
  BY <1>1, <1>2, <1>3, <1>4, <1>5, <1>6, <1>7, <1>8 DEF Next

\* A run that is over stays over, and one that comes to announce has just read or written
\* the status it announces.
LEMMA AnnounceSteps ==
    ASSUME TypeOK, PlaceInv, [Next]_vars, NEW o \in Sessions
    PROVE  /\ run[o] \in {"returned", "crashed"} => run'[o] \in {"returned", "crashed"}
           /\ run'[o] = "announce" =>
                 \/ run[o] = "announce" /\ verdict'[o] = verdict[o]
                 \/ status'[o] = verdict'[o]
<1> DEFINE Goes == /\ run[o] \in {"returned", "crashed"} => run'[o] \in {"returned", "crashed"}
                   /\ run'[o] = "announce" =>
                         \/ run[o] = "announce" /\ verdict'[o] = verdict[o]
                         \/ status'[o] = verdict'[o]
<1> SUFFICES Goes
  OBVIOUS
<1>a. RunTypeOK /\ status \in [Sessions -> Statuses]
  BY Shapes
<1>b. status[o] = "none" => run[o] = "none"
  BY DEF PlaceInv
<1>1. ASSUME NEW s \in Sessions, NEW f \in Fleets, StartFromAPI(s, f)
      PROVE  Goes
  BY <1>a, <1>b, <1>1, Shapes DEF StartFromAPI, RunTypeOK, dbVars, ctxVars
<1>2. ASSUME NEW s \in Sessions, NEW f \in Fleets, StartFromSchedule(s, f)
      PROVE  Goes
  BY <1>a, <1>b, <1>2, Shapes DEF StartFromSchedule, RunTypeOK, dbVars, ctxVars
<1>3. ASSUME NEW s \in Sessions, BeginRunning(s)
      PROVE  Goes
  BY <1>a, <1>b, <1>3 DEF BeginRunning, Return, RunTypeOK, dbVars, ctxVars
<1>4. ASSUME NEW s \in Sessions, CommitRunning(s)
      PROVE  Goes
  <2>1. /\ run[s] = "txRunning"
        /\ \E p \in {"terminate", "register", "returned"} : run' = [run EXCEPT ![s] = p]
        /\ verdict' = verdict
    BY <1>4, Shapes
  <2>2. QED
    BY <1>a, <1>b, <2>1 DEF RunTypeOK
<1>5. ASSUME NEW s \in Sessions, RegisterCancel(s)
      PROVE  Goes
  BY <1>a, <1>b, <1>5 DEF RegisterCancel, RunTypeOK, dbVars, ctxVars
<1>6. ASSUME NEW s \in Sessions, NEW i \in Items, Dispatch(s, i)
      PROVE  Goes
  BY <1>a, <1>b, <1>6 DEF Dispatch, RunTypeOK, dbVars, ctxVars
<1>7. ASSUME NEW s \in Sessions, Drain(s)
      PROVE  Goes
  BY <1>a, <1>b, <1>7 DEF Drain, WorkersDone, RunTypeOK, dbVars, ctxVars
<1>8. ASSUME NEW s \in Sessions, Finalize(s)
      PROVE  Goes
  BY <1>a, <1>b, <1>8 DEF Finalize, RunTypeOK, dbVars, ctxVars
<1>9. ASSUME NEW s \in Sessions, BeginTerminate(s)
      PROVE  Goes
  BY <1>a, <1>b, <1>9 DEF BeginTerminate, Return, RunTypeOK, dbVars, ctxVars
<1>10. ASSUME NEW s \in Sessions, CommitTerminate(s)
      PROVE  Goes
  <2>1. /\ status' = [status EXCEPT ![s] = verdict[s]]
        /\ run[s] = "txTerminate" /\ run' = [run EXCEPT ![s] = "announce"]
        /\ verdict' = verdict
    BY <1>10, Shapes DEF CommitTerminate
  <2>2. QED
    BY <1>a, <2>1 DEF RunTypeOK
<1>11. ASSUME NEW s \in Sessions, Announce(s)
      PROVE  Goes
  BY <1>a, <1>b, <1>11 DEF Announce, Return, RunTypeOK, dbVars, ctxVars
<1>12. ASSUME NEW s \in Sessions, NEW i \in Items, CheckHealth(s, i)
      PROVE  Goes
  BY <1>a, <1>b, <1>12 DEF CheckHealth, RunTypeOK, dbVars, ctxVars
<1>13. ASSUME NEW s \in Sessions, NEW i \in Items, Exec(s, i)
      PROVE  Goes
  BY <1>a, <1>b, <1>13 DEF Exec, RunTypeOK, dbVars, ctxVars
<1>14. ASSUME NEW s \in Sessions, NEW i \in Items, BeginRecord(s, i)
      PROVE  Goes
  BY <1>a, <1>b, <1>14 DEF BeginRecord, RunTypeOK, dbVars, ctxVars
<1>15. ASSUME NEW s \in Sessions, NEW i \in Items, CommitRecord(s, i)
      PROVE  Goes
  BY <1>a, <1>b, <1>15 DEF CommitRecord, RunTypeOK, dbVars, ctxVars
<1>16. ASSUME NEW s \in Sessions, NEW i \in Items, PublishProgress(s, i)
      PROVE  Goes
  BY <1>a, <1>b, <1>16 DEF PublishProgress, RunTypeOK, dbVars, ctxVars
<1>17. ASSUME NEW c \in Callers, NEW s \in Sessions, CancelContext(c, s)
      PROVE  Goes
  BY <1>a, <1>b, <1>17 DEF CancelContext, RunTypeOK, dbVars, ctxVars
<1>18. ASSUME NEW c \in Callers, BeginCancel(c)
      PROVE  Goes
  BY <1>a, <1>b, <1>18 DEF BeginCancel, RunTypeOK, dbVars, ctxVars
<1>19. ASSUME NEW c \in Callers, CommitCancel(c)
      PROVE  Goes
  BY <1>a, <1>b, <1>19, Shapes DEF CommitCancel, RunTypeOK, dbVars, ctxVars
<1>20. ASSUME NEW s \in Sessions, RunFault(s)
      PROVE  Goes
  BY <1>a, <1>b, <1>20 DEF RunFault, Return, RunTypeOK, dbVars, ctxVars
<1>21. ASSUME NEW s \in Sessions, NEW i \in Items, RecordFault(s, i)
      PROVE  Goes
  BY <1>a, <1>b, <1>21 DEF RecordFault, RunTypeOK, dbVars, ctxVars
<1>22. ASSUME NEW c \in Callers, CancelFault(c)
      PROVE  Goes
  BY <1>a, <1>b, <1>22 DEF CancelFault, RunTypeOK, dbVars, ctxVars
<1>23. ASSUME Crash
      PROVE  Goes
  BY <1>a, <1>b, <1>23 DEF Crash, Goroutine, RunTypeOK, dbVars, ctxVars
<1>24. CASE UNCHANGED vars
  BY <1>24 DEF vars, dbVars
<1>25. QED
  BY <1>1, <1>2, <1>3, <1>4, <1>5, <1>6, <1>7, <1>8, <1>9, <1>10, <1>11, <1>12, <1>13,
     <1>14, <1>15, <1>16, <1>17, <1>18, <1>19, <1>20, <1>21, <1>22, <1>23, <1>24 DEF
     Next, RunStep, WorkStep, CallStep, Idle

\* On SQLite what was announced stays true.
LEMMA AnnounceNext ==
    ASSUME Serialized
    PROVE  TypeOK /\ TxInv /\ PlaceInv /\ AnnounceInv /\ [Next]_vars => AnnounceInv'
<1> DEFINE Told(o) ==
        /\ run[o] \notin {"returned", "crashed"} =>
              \A k \in DOMAIN events[o] : events[o][k] = "progress"
        /\ run[o] = "announce" => status[o] = verdict[o]
        /\ \A k \in DOMAIN events[o] :
              events[o][k] # "progress" => k = Len(events[o]) /\ events[o][k] = status[o]
<1> SUFFICES ASSUME TypeOK, TxInv, PlaceInv, AnnounceInv, [Next]_vars, NEW o \in Sessions
             PROVE  Told(o)'
  BY DEF AnnounceInv
<1>a. /\ events \in [Sessions -> Seq({"progress"} \cup Terminal)]
      /\ RunTypeOK
  BY DEF TypeOK, OtherTypeOK
<1>b. Told(o)
  BY DEF AnnounceInv
<1>c. events[o] \in Seq({"progress"} \cup Terminal)
  BY <1>a
<1>d. status[o] \in Terminal => status'[o] = status[o]
  BY TerminalStep
<1>1. run'[o] = "announce" => status'[o] = verdict'[o]
  <2>1. verdict[o] \in Terminal
    BY <1>a DEF RunTypeOK
  <2>2. QED
    BY <1>b, <1>d, <2>1, AnnounceSteps
<1>2. CASE events'[o] = events[o]
  <2>1. ASSUME NEW k \in DOMAIN events[o], events[o][k] # "progress"
        PROVE  k = Len(events[o]) /\ events[o][k] = status'[o]
    <3>1. events[o][k] \in {"progress"} \cup Terminal
      BY <1>c
    <3>2. QED
      BY <1>b, <1>d, <2>1, <3>1
  <2>2. run'[o] \notin {"returned", "crashed"} =>
           \A k \in DOMAIN events[o] : events[o][k] = "progress"
    BY <1>b, AnnounceSteps
  <2>3. QED
    BY <1>1, <1>2, <2>1, <2>2
<1>3. CASE /\ run[o] = "fanout" /\ UNCHANGED <<status, run>>
           /\ events'[o] = Append(events[o], "progress")
  BY <1>1, <1>b, <1>c, <1>3
<1>4. CASE /\ run[o] = "announce" /\ run'[o] = "returned" /\ UNCHANGED status
           /\ events'[o] = Append(events[o], verdict[o])
  BY <1>1, <1>b, <1>c, <1>4
<1>5. QED
  BY <1>a, <1>2, <1>3, <1>4, PublishSteps DEF RunTypeOK

\* On SQLite a subscriber hears the end of a session once, after all its progress, and
\* hears the status the session has for good.
THEOREM EndAnnouncedLast ==
    ASSUME Serialized
    PROVE  Spec => []EndIsAnnouncedLast
<1> DEFINE IInv == TypeOK /\ TxInv /\ PlaceInv /\ AnnounceInv
<1>1. Init => IInv
  BY TypeInit, TxInit, PlaceInit, AnnounceInit
<1>2. IInv /\ [Next]_vars => IInv'
  BY TypeNext, TxNext, PlaceNext, AnnounceNext
<1>3. IInv => EndIsAnnouncedLast
  BY DEF AnnounceInv, EndIsAnnouncedLast
<1>4. QED
  BY <1>1, <1>2, <1>3, PTL DEF Spec

================================================================================
