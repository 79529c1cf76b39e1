-------------------------------- MODULE ScanRun --------------------------------
(***************************************************************************)
(* The scan orchestrator of internal/app/scanrun over the session          *)
(* repository of internal/domain/scan/sqliterepo: callers create sessions, *)
(* one goroutine per session runs it, a bounded pool of workers probes the *)
(* robots and records results, operators cancel, the process crashes.      *)
(*                                                                         *)
(* A storage transaction takes two steps, the reads that decide and the    *)
(* writes that commit.  Serialized says which storage runs underneath:     *)
(* SQLite with its single connection lets one transaction be open at a     *)
(* time, PostgreSQL at READ COMMITTED lets them overlap.                   *)
(***************************************************************************)
EXTENDS Naturals, FiniteSets, Sequences

CONSTANTS
    Sessions, Fleets, NoFleet,
    Callers,                  \* HTTP requests that cancel a session
    NoSession,                \* the session of a caller that has not called
    NumRobots, NumChecks,     \* size of a fleet and of a pack
    WorkerLimit,              \* Deps.WorkerLimit
    HealthFailureThreshold,   \* Deps.HealthFailureThreshold
    Serialized,               \* TRUE for SQLite, FALSE for PostgreSQL
    MaxFaults,                \* bound: transactions the storage fails
    MaxCrashes                \* bound: crashes of the process

ASSUME SizeAssumption ==
    /\ NumRobots \in Nat \ {0}
    /\ NumChecks \in Nat \ {0}
    /\ WorkerLimit \in Nat \ {0}
    /\ HealthFailureThreshold \in Nat \ {0}
    /\ MaxFaults \in Nat
    /\ MaxCrashes \in Nat
    /\ Serialized \in BOOLEAN
ASSUME NullAssumption == NoFleet \notin Fleets /\ NoSession \notin Sessions

VARIABLES
    \* rows of the database, committed
    status, fleet, reason, total, progress, severity, results, audit,
    \* memory of the process
    run,        \* run[s]: where the goroutine in Orchestrator.Run stands
    verdict,    \* verdict[s]: the terminal status it is about to write or announce
    ctxDone,    \* ctxDone[s]: runCtx is cancelled
    cancels,    \* the sessions in the cancels map
    work,       \* work[s][i]: where work item i stands
    outcome,    \* outcome[s][i]: what its worker is about to record
    health,     \* health[s][r]: consecutive failures of robot r
    call,       \* call[c]: a Cancel request
    openTx,     \* transactions between their reads and their commit
    \* what subscribers of the event bus were sent
    events,
    \* counters that bound the model
    faults, crashes

dbVars == <<status, fleet, reason, total, progress, severity, results, audit>>
ctxVars == <<ctxDone, cancels>>
workVars == <<work, outcome, health>>
bounds == <<faults, crashes>>
vars == <<dbVars, run, verdict, ctxVars, workVars, call, openTx, events, bounds>>

--------------------------------------------------------------------------------
(* Work items: robots in the outer loop of Run, checks in the inner one. *)

Robots == 1..NumRobots
Items == Robots \X (1..NumChecks)
Robot(i) == i[1]
Precedes(i, j) == i[1] < j[1] \/ (i[1] = j[1] /\ i[2] < j[2])

Outcomes == {"pass", "fail", "indeterminate", "error", "skipped"}
\* What an exec followed by its evaluation can give.
Probes == {"sshError", "evalError", "pass", "fail", "indeterminate"}

Terminal == {"completed", "failed", "cancelled"}
Live == {"pending", "running"}
Statuses == {"none"} \cup Live \cup Terminal

CanTransition_Revive(from, to) ==
    \/ from # "none" /\ to = "running"
    \/ from \in Live /\ to \in {"completed", "failed", "cancelled"}

CanTransition_NoCancel(from, to) ==
    \/ from = "pending" /\ to \in {"running", "failed", "cancelled"}
    \/ from = "running" /\ to \in {"completed", "failed"}

\* The FSM of scan.go.
CanTransition(from, to) ==
    \/ from = "pending" /\ to \in {"running", "failed", "cancelled"}
    \/ from = "running" /\ to \in {"completed", "failed", "cancelled"}

FleetFree_Running(f) == \A s \in Sessions : fleet[s] = f => status[s] # "running"

\* No live session on the fleet: what StartScan asserts and migration 0025 indexes.
FleetFree(f) == \A s \in Sessions : fleet[s] = f => status[s] \notin Live

\* The items whose worker holds the semaphore and has not called wg.Done.
InFlight(s) == {i \in Items : work[s][i] \in {"ready", "exec", "record", "txRecord", "publish"}}
Recorded(s, O) == {i \in Items : results[s][i] \in O}

--------------------------------------------------------------------------------
(* Transactions. *)

RunTx(s) == <<"run", s>>
ItemTx(s, i) == <<"item", s, i>>
CallTx(c) == <<"call", c>>
TxIds == {RunTx(s) : s \in Sessions} \cup {CallTx(c) : c \in Callers}
         \cup {ItemTx(s, i) : s \in Sessions, i \in Items}

CanBegin_Overlap == TRUE

CanBegin == Serialized => openTx = {}
BeginTx(t) == CanBegin /\ openTx' = openTx \cup {t}
EndTx(t) == openTx' = openTx \ {t}

\* The UPDATE of a transition, the recount that goes with a terminal one, and
\* its audit entry.  The UPDATE names the row, not the status it was read with.
WriteTransition(s, to, why) ==
    /\ status' = [status EXCEPT ![s] = to]
    /\ reason' = [reason EXCEPT ![s] = IF to \in {"failed", "cancelled"} THEN why ELSE @]
    /\ severity' = [severity EXCEPT ![s] =
                      IF to \in Terminal THEN Cardinality(Recorded(s, {"fail"})) ELSE @]
    /\ audit' = [audit EXCEPT ![s] = Append(@, to)]
    /\ UNCHANGED <<fleet, total, progress, results>>

--------------------------------------------------------------------------------
Init ==
    /\ status = [s \in Sessions |-> "none"]
    /\ fleet = [s \in Sessions |-> NoFleet]
    /\ reason = [s \in Sessions |-> ""]
    /\ total = [s \in Sessions |-> 0]
    /\ progress = [s \in Sessions |-> [completed |-> 0, failed |-> 0]]
    /\ severity = [s \in Sessions |-> 0]
    /\ results = [s \in Sessions |-> [i \in Items |-> "none"]]
    /\ audit = [s \in Sessions |-> <<>>]
    /\ run = [s \in Sessions |-> "none"]
    /\ verdict = [s \in Sessions |-> "completed"]
    /\ ctxDone = [s \in Sessions |-> FALSE]
    /\ cancels = {}
    /\ work = [s \in Sessions |-> [i \in Items |-> "queued"]]
    /\ outcome = [s \in Sessions |-> [i \in Items |-> "none"]]
    /\ health = [s \in Sessions |-> [r \in Robots |-> 0]]
    /\ call = [c \in Callers |-> [at |-> "idle", session |-> NoSession]]
    /\ openTx = {}
    /\ events = [s \in Sessions |-> <<>>]
    /\ faults = 0
    /\ crashes = 0

--------------------------------------------------------------------------------
(* Creating a session. *)

StartScan(s, f, n) ==
    /\ CanBegin
    /\ status[s] = "none"
    /\ FleetFree(f)
    /\ status' = [status EXCEPT ![s] = "pending"]
    /\ fleet' = [fleet EXCEPT ![s] = f]
    /\ total' = [total EXCEPT ![s] = n]
    /\ UNCHANGED <<reason, progress, severity, results, audit>>

\* POST /scans: the handler spawns Run, unless the robots or the checks could
\* not be loaded or are none: then the session is created and nothing runs it.
StartFromAPI(s, f) ==
    \E loaded \in BOOLEAN :
        /\ StartScan(s, f, IF loaded THEN Cardinality(Items) ELSE 0)
        /\ run' = [run EXCEPT ![s] = IF loaded THEN "start" ELSE "none"]
        /\ UNCHANGED <<verdict, ctxVars, workVars, call, openTx, events, bounds>>

\* A cron tick: an empty fleet creates nothing, an empty pack runs as empty.
StartFromSchedule(s, f) ==
    \E n \in {0, Cardinality(Items)} :
        /\ StartScan(s, f, n)
        /\ run' = [run EXCEPT ![s] = "start"]
        /\ UNCHANGED <<verdict, ctxVars, workVars, call, openTx, events, bounds>>

--------------------------------------------------------------------------------
(* Orchestrator.Run. *)

Return(s) == /\ run' = [run EXCEPT ![s] = "returned"]
             /\ cancels' = cancels \ {s}

BeginRunning(s) ==
    /\ run[s] = "start"
    /\ \/ /\ CanTransition(status[s], "running")
          /\ BeginTx(RunTx(s))
          /\ run' = [run EXCEPT ![s] = "txRunning"]
          /\ UNCHANGED cancels
       \/ /\ ~CanTransition(status[s], "running")
          /\ CanBegin
          /\ Return(s)
          /\ UNCHANGED openTx
    /\ UNCHANGED <<dbVars, verdict, ctxDone, workVars, call, events, bounds>>

IndexAllows_Never(s) == TRUE

\* The unique index over live sessions guards this UPDATE too.
IndexAllows(s) == \A o \in Sessions \ {s} : fleet[o] = fleet[s] => status[o] \notin Live

CommitRunning(s) ==
    /\ run[s] = "txRunning"
    /\ EndTx(RunTx(s))
    /\ IF IndexAllows(s)
       THEN /\ WriteTransition(s, "running", "")
            /\ run' = [run EXCEPT ![s] = IF total[s] = 0 THEN "terminate" ELSE "register"]
            /\ UNCHANGED cancels
       ELSE Return(s) /\ UNCHANGED dbVars
    /\ UNCHANGED <<verdict, ctxDone, workVars, call, events, bounds>>

RegisterCancel(s) ==
    /\ run[s] = "register"
    /\ run' = [run EXCEPT ![s] = "fanout"]
    /\ cancels' = cancels \cup {s}
    /\ UNCHANGED <<dbVars, verdict, ctxDone, workVars, call, openTx, events, bounds>>

\* One turn of the double loop: sem.Acquire fails once runCtx is done.
Dispatch(s, i) ==
    /\ run[s] = "fanout"
    /\ ~ctxDone[s]
    /\ work[s][i] = "queued"
    /\ \A j \in Items : Precedes(j, i) => work[s][j] # "queued"
    /\ Cardinality(InFlight(s)) < WorkerLimit
    /\ work' = [work EXCEPT ![s][i] = "ready"]
    /\ UNCHANGED <<dbVars, run, verdict, ctxVars, outcome, health, call, openTx, events, bounds>>

WorkersDone_NoWait(s) == \A i \in InFlight(s) : work[s][i] # "ready"
RunVerdict_Ignore(s) == "completed"

WorkersDone(s) == InFlight(s) = {}
RunVerdict(s) == IF ctxDone[s] THEN "cancelled" ELSE "completed"

\* The loop is over and wg.Wait has returned; runCtx.Err() is read here.
Drain(s) ==
    /\ run[s] = "fanout"
    /\ WorkersDone(s)
    /\ ctxDone[s] \/ \A i \in Items : work[s][i] # "queued"
    /\ run' = [run EXCEPT ![s] = "finalize"]
    /\ verdict' = [verdict EXCEPT ![s] = RunVerdict(s)]
    /\ UNCHANGED <<dbVars, ctxVars, workVars, call, openTx, events, bounds>>

\* finalize, its read: someone else may have ended the session already.
Finalize(s) ==
    /\ run[s] = "finalize"
    /\ CanBegin
    /\ \/ /\ status[s] \in Terminal
          /\ run' = [run EXCEPT ![s] = "announce"]
          /\ verdict' = [verdict EXCEPT ![s] = status[s]]
       \/ /\ status[s] \notin Terminal
          /\ run' = [run EXCEPT ![s] = "terminate"]
          /\ UNCHANGED verdict
    /\ UNCHANGED <<dbVars, ctxVars, workVars, call, openTx, events, bounds>>

BeginTerminate_Retry(s) ==
    /\ run[s] = "terminate"
    /\ \/ /\ CanTransition(status[s], verdict[s])
          /\ BeginTx(RunTx(s))
          /\ run' = [run EXCEPT ![s] = "txTerminate"]
       \/ /\ ~CanTransition(status[s], verdict[s])
          /\ UNCHANGED <<run, openTx>>
    /\ UNCHANGED <<dbVars, verdict, ctxVars, workVars, call, events, bounds>>

\* finalize, its second transaction; an invalid transition returns an error.
BeginTerminate(s) ==
    /\ run[s] = "terminate"
    /\ \/ /\ CanTransition(status[s], verdict[s])
          /\ BeginTx(RunTx(s))
          /\ run' = [run EXCEPT ![s] = "txTerminate"]
          /\ UNCHANGED cancels
       \/ /\ ~CanTransition(status[s], verdict[s])
          /\ CanBegin
          /\ Return(s)
          /\ UNCHANGED openTx
    /\ UNCHANGED <<dbVars, verdict, ctxDone, workVars, call, events, bounds>>

CommitTerminate(s) ==
    /\ run[s] = "txTerminate"
    /\ EndTx(RunTx(s))
    /\ WriteTransition(s, verdict[s], "context")
    /\ run' = [run EXCEPT ![s] = "announce"]
    /\ UNCHANGED <<verdict, ctxVars, workVars, call, events, bounds>>

Announce(s) ==
    /\ run[s] = "announce"
    /\ events' = [events EXCEPT ![s] = Append(@, verdict[s])]
    /\ Return(s)
    /\ UNCHANGED <<dbVars, verdict, ctxDone, workVars, call, openTx, bounds>>

--------------------------------------------------------------------------------
(* Workers. *)

ShouldSkip_Late(h) == h > HealthFailureThreshold
ShouldSkip(h) == h >= HealthFailureThreshold

\* The health window of the robot is read before the exec, not with it.
CheckHealth(s, i) ==
    /\ work[s][i] = "ready"
    /\ \/ /\ ShouldSkip(health[s][Robot(i)])
          /\ work' = [work EXCEPT ![s][i] = "record"]
          /\ outcome' = [outcome EXCEPT ![s][i] = "skipped"]
       \/ /\ ~ShouldSkip(health[s][Robot(i)])
          /\ work' = [work EXCEPT ![s][i] = "exec"]
          /\ UNCHANGED outcome
    /\ UNCHANGED <<dbVars, run, verdict, ctxVars, health, call, openTx, events, bounds>>

\* Only a failed exec counts against the robot, only a sound result clears it.
NextHealth(h, probe) == CASE probe = "sshError"  -> h + 1
                          [] probe = "evalError" -> h
                          [] OTHER               -> 0

OutcomeOf(probe) == IF probe \in {"sshError", "evalError"} THEN "error" ELSE probe

Exec(s, i) ==
    /\ work[s][i] = "exec"
    /\ \E probe \in Probes :
          /\ outcome' = [outcome EXCEPT ![s][i] = OutcomeOf(probe)]
          /\ health' = [health EXCEPT ![s][Robot(i)] = NextHealth(@, probe)]
    /\ work' = [work EXCEPT ![s][i] = "record"]
    /\ UNCHANGED <<dbVars, run, verdict, ctxVars, call, openTx, events, bounds>>

Recordable_Always(s) == status[s] # "none"
Recordable(s) == status[s] = "running"

\* A result for a session that is not running is dropped without a trace.
BeginRecord(s, i) ==
    /\ work[s][i] = "record"
    /\ \/ /\ Recordable(s)
          /\ BeginTx(ItemTx(s, i))
          /\ work' = [work EXCEPT ![s][i] = "txRecord"]
       \/ /\ ~Recordable(s)
          /\ CanBegin
          /\ work' = [work EXCEPT ![s][i] = "dropped"]
          /\ UNCHANGED openTx
    /\ UNCHANGED <<dbVars, run, verdict, ctxVars, outcome, health, call, events, bounds>>

\* INSERT of the result and UPDATE ... SET progress = progress + 1.
CommitRecord(s, i) ==
    /\ work[s][i] = "txRecord"
    /\ EndTx(ItemTx(s, i))
    /\ results' = [results EXCEPT ![s][i] = outcome[s][i]]
    /\ progress' = [progress EXCEPT ![s] =
          [completed |-> @.completed + 1,
           failed |-> @.failed + IF outcome[s][i] \in {"fail", "error"} THEN 1 ELSE 0]]
    /\ work' = [work EXCEPT ![s][i] = "publish"]
    /\ UNCHANGED <<status, fleet, reason, total, severity, audit, run, verdict,
                   ctxVars, outcome, health, call, events, bounds>>

PublishProgress(s, i) ==
    /\ work[s][i] = "publish"
    /\ events' = [events EXCEPT ![s] = Append(@, "progress")]
    /\ work' = [work EXCEPT ![s][i] = "done"]
    /\ UNCHANGED <<dbVars, run, verdict, ctxVars, outcome, health, call, openTx, bounds>>

--------------------------------------------------------------------------------
(* Orchestrator.Cancel. *)

\* The cancels map is looked up, and runCtx cancelled, before the transaction.
CancelContext(c, s) ==
    /\ call[c].at = "idle"
    /\ status[s] # "none"
    /\ call' = [call EXCEPT ![c] = [at |-> "looked", session |-> s]]
    /\ ctxDone' = [ctxDone EXCEPT ![s] = @ \/ s \in cancels]
    /\ UNCHANGED <<dbVars, run, verdict, cancels, workVars, openTx, events, bounds>>

Reply(c, r) == call' = [call EXCEPT ![c].at = r]

BeginCancel(c) ==
    /\ call[c].at = "looked"
    /\ \/ /\ CanTransition(status[call[c].session], "cancelled")
          /\ BeginTx(CallTx(c))
          /\ Reply(c, "txCancel")
       \/ /\ ~CanTransition(status[call[c].session], "cancelled")
          /\ CanBegin
          /\ Reply(c, "conflict")
          /\ UNCHANGED openTx
    /\ UNCHANGED <<dbVars, run, verdict, ctxVars, workVars, events, bounds>>

CommitCancel(c) ==
    /\ call[c].at = "txCancel"
    /\ EndTx(CallTx(c))
    /\ WriteTransition(call[c].session, "cancelled", "operator")
    /\ Reply(c, "ok")
    /\ UNCHANGED <<run, verdict, ctxVars, workVars, events, bounds>>

--------------------------------------------------------------------------------
(* Failures. *)

Fault == faults < MaxFaults /\ faults' = faults + 1 /\ UNCHANGED crashes

\* A transaction of Run fails: Run returns the error, the callers ignore it.
RunFault(s) ==
    /\ run[s] \in {"txRunning", "finalize", "txTerminate"}
    /\ Fault
    /\ Return(s)
    /\ EndTx(RunTx(s))
    /\ UNCHANGED <<dbVars, verdict, ctxDone, workVars, call, events>>

\* A transaction of a worker fails or takes more than five seconds.
RecordFault(s, i) ==
    /\ work[s][i] = "txRecord"
    /\ Fault
    /\ EndTx(ItemTx(s, i))
    /\ work' = [work EXCEPT ![s][i] = "lost"]
    /\ UNCHANGED <<dbVars, run, verdict, ctxVars, outcome, health, call, events>>

\* The transaction of a Cancel fails, or its request is abandoned.
CancelFault(c) ==
    /\ call[c].at = "txCancel"
    /\ Fault
    /\ EndTx(CallTx(c))
    /\ Reply(c, "error")
    /\ UNCHANGED <<dbVars, run, verdict, ctxVars, workVars, events>>

Goroutine(s) == run[s] \notin {"none", "returned", "crashed"}

\* The process dies and another starts: nothing resumes a live session.
Crash ==
    /\ crashes < MaxCrashes
    /\ crashes' = crashes + 1
    /\ run' = [s \in Sessions |-> IF Goroutine(s) THEN "crashed" ELSE run[s]]
    /\ work' = [s \in Sessions |-> [i \in Items |->
                  IF i \in InFlight(s) THEN "lost" ELSE work[s][i]]]
    /\ ctxDone' = [s \in Sessions |-> FALSE]
    /\ cancels' = {}
    /\ outcome' = [s \in Sessions |-> [i \in Items |-> "none"]]
    /\ health' = [s \in Sessions |-> [r \in Robots |-> 0]]
    /\ call' = [c \in Callers |-> IF call[c].at \in {"looked", "txCancel"}
                                  THEN [call[c] EXCEPT !.at = "error"] ELSE call[c]]
    /\ openTx' = {}
    /\ UNCHANGED <<dbVars, verdict, events, faults>>

--------------------------------------------------------------------------------
RunStep(s) == \/ BeginRunning(s) \/ CommitRunning(s) \/ RegisterCancel(s)
              \/ \E i \in Items : Dispatch(s, i)
              \/ Drain(s) \/ Finalize(s) \/ BeginTerminate(s) \/ CommitTerminate(s)
              \/ Announce(s)

WorkStep(s, i) == \/ CheckHealth(s, i) \/ Exec(s, i) \/ BeginRecord(s, i)
                  \/ CommitRecord(s, i) \/ PublishProgress(s, i)

CallStep(c) == BeginCancel(c) \/ CommitCancel(c)

\* Nothing is in flight: the system waits for its environment.
Idle ==
    /\ \A s \in Sessions : ~Goroutine(s)
    /\ \A c \in Callers : call[c].at \notin {"looked", "txCancel"}
    /\ UNCHANGED vars

Next ==
    \/ \E s \in Sessions :
          \/ \E f \in Fleets : StartFromAPI(s, f) \/ StartFromSchedule(s, f)
          \/ RunStep(s) \/ RunFault(s)
          \/ \E i \in Items : WorkStep(s, i) \/ RecordFault(s, i)
    \/ \E c \in Callers :
          \/ \E s \in Sessions : CancelContext(c, s)
          \/ CallStep(c) \/ CancelFault(c)
    \/ Crash
    \/ Idle

Spec == Init /\ [][Next]_vars

\* Goroutines that can run do run, an exec ends by its timeout, and a request
\* that has begun is served; nobody is obliged to start or to cancel a scan.
FairSpec ==
    /\ Spec
    /\ \A s \in Sessions : WF_vars(RunStep(s))
    /\ \A s \in Sessions : \A i \in Items : WF_vars(WorkStep(s, i))
    /\ \A c \in Callers : WF_vars(CallStep(c))
--------------------------------------------------------------------------------
(* Properties. *)

RunPCs == {"none", "start", "txRunning", "register", "fanout", "finalize", "terminate",
           "txTerminate", "announce", "returned", "crashed"}
WorkPCs == {"queued", "ready", "exec", "record", "txRecord", "publish", "done", "dropped", "lost"}
CallPCs == {"idle", "looked", "txCancel", "ok", "conflict", "error"}

RowsTypeOK ==
    /\ status \in [Sessions -> Statuses]
    /\ fleet \in [Sessions -> Fleets \cup {NoFleet}]
    /\ reason \in [Sessions -> {"", "operator", "context"}]
    /\ total \in [Sessions -> Nat]
    /\ progress \in [Sessions -> [completed : Nat, failed : Nat]]
    /\ severity \in [Sessions -> Nat]
    /\ results \in [Sessions -> [Items -> Outcomes \cup {"none"}]]
    /\ audit \in [Sessions -> Seq(Statuses)]
RunTypeOK ==
    /\ run \in [Sessions -> RunPCs]
    /\ verdict \in [Sessions -> Terminal]
    /\ ctxDone \in [Sessions -> BOOLEAN]
    /\ cancels \subseteq Sessions
WorkTypeOK ==
    /\ work \in [Sessions -> [Items -> WorkPCs]]
    /\ outcome \in [Sessions -> [Items -> Outcomes \cup {"none"}]]
    /\ health \in [Sessions -> [Robots -> Nat]]
CallTypeOK ==
    /\ call \in [Callers -> [at : CallPCs, session : Sessions \cup {NoSession}]]
    /\ \A c \in Callers : call[c].at # "idle" => call[c].session \in Sessions
OtherTypeOK ==
    /\ openTx \subseteq TxIds
    /\ events \in [Sessions -> Seq({"progress"} \cup Terminal)]
    /\ faults \in 0..MaxFaults
    /\ crashes \in 0..MaxCrashes

\* Every variable stays in its type: in particular only the five statuses and
\* the outcomes of scan.go are ever stored, and nothing a probe returns raw.
TypeOK == RowsTypeOK /\ RunTypeOK /\ WorkTypeOK /\ CallTypeOK /\ OtherTypeOK

\* At no time do two sessions of one fleet live, whichever way they were created
\* and whatever cancellation lets a fleet go in between (migration 0025).
OneLiveSessionPerFleet ==
    \A s, o \in Sessions :
        s # o /\ status[s] \in Live /\ status[o] \in Live => fleet[s] # fleet[o]

\* Once a session is terminal its severity column counts its failed checks: no
\* result lands after the recount (RecomputeSeverityAggregate's contract).
AggregateIsFinal ==
    \A s \in Sessions :
        status[s] \in Terminal => severity[s] = Cardinality(Recorded(s, {"fail"}))

\* A session that ended as completed ran its whole matrix, and its counters say
\* so: every check of every robot is counted and has a result, except those whose
\* transaction the storage failed.
CompletedCoversMatrix ==
    \A s \in Sessions :
        LET lost == {i \in Items : work[s][i] = "lost"}
        IN status[s] = "completed" /\ total[s] # 0 =>
              /\ Recorded(s, Outcomes) = Items \ lost
              /\ progress[s] = [completed |-> total[s] - Cardinality(lost),
                                failed |-> Cardinality(Recorded(s, {"fail", "error"}))]

\* The health window bounds how often an unreachable robot is tried: the checks
\* that passed the window before it closed can add at most WorkerLimit - 1.
HealthWindowBound ==
    \A s \in Sessions, r \in Robots :
        health[s][r] <= HealthFailureThreshold + WorkerLimit - 1

\* What Cancel answers is true for good: after a 200 the session is and stays
\* cancelled for the operator's reason, after a 409 it is terminal.
CancelReplyIsTrue ==
    \A c \in Callers :
        /\ call[c].at = "ok" => /\ status[call[c].session] = "cancelled"
                                /\ reason[call[c].session] = "operator"
        /\ call[c].at = "conflict" => status[call[c].session] \in Terminal

\* A subscriber that was told a session ended was told the status it has, once,
\* after every progress event of that session (publishCompleted follows wg.Wait).
EndIsAnnouncedLast ==
    \A s \in Sessions : \A k \in DOMAIN events[s] :
        events[s][k] # "progress" => k = Len(events[s]) /\ events[s][k] = status[s]

\* What a transaction has read of a session still holds when it commits: on one
\* connection nothing comes between the check of a transition, or of RecordResult,
\* and the write that relies on it (storage/sqlite).
ReadsHold ==
    /\ \A s \in Sessions :
          /\ run[s] = "txRunning" => status[s] = "pending"
          /\ run[s] = "txTerminate" => CanTransition(status[s], verdict[s])
          /\ \A i \in Items : work[s][i] = "txRecord" => status[s] = "running"
    /\ \A c \in Callers :
          call[c].at = "txCancel" => CanTransition(status[call[c].session], "cancelled")

\* A terminal session never changes again (scan.go: terminal has no outgoing
\* transition), neither its status nor its reason nor its results.
TerminalIsFinal ==
    [][\A s \in Sessions : status[s] \in Terminal =>
          /\ status'[s] = status[s]
          /\ reason'[s] = reason[s]
          /\ results'[s] = results[s]]_vars

\* The status alone: what the FSM of scan.go says of a terminal session.
TerminalStatusIsFinal ==
    [][\A s \in Sessions : status[s] \in Terminal => status'[s] = status[s]]_vars

\* Every session moves as the life cycle of internal/domain/scan says, and its
\* audit trail is exactly the transitions it made.
Session == INSTANCE ScanSession
SessionSpec == Session!Spec

\* A run that begins ends: no cancellation, no fault and no waiting for workers
\* or for the storage's connection leaves the goroutine of Run hanging.
RunEnds == \A s \in Sessions : run[s] = "start" ~> ~Goroutine(s)

\* Unless the storage fails, a session that is being run reaches a terminal
\* status, so that its fleet can be scanned again.
RunningSessionEnds ==
    \A s \in Sessions : run[s] = "start" ~> status[s] \in Terminal \/ faults > 0

\* Once all workers are done the session is made terminal and its end announced
\* (package comment of scanrun.go). Of sessions that have workers: an empty run
\* (runEmpty) never reaches finalize.
EveryEndIsAnnounced ==
    \A s \in Sessions :
        total[s] # 0 /\ run[s] = "returned" /\ Len(audit[s]) > 1 /\ faults = 0 =>
            events[s] # <<>> /\ events[s][Len(events[s])] # "progress"

\* After Cancel has answered, no further check is sent to a robot.
CancelStopsDispatch ==
    [][\A s \in Sessions, i \in Items :
          work[s][i] = "queued" /\ work'[s][i] # "queued" =>
              \A c \in Callers : ~(call[c].at = "ok" /\ call[c].session = s)]_vars

\* Runs end and, unless the storage fails, so do their sessions.
RunsEnd ==
    /\ RunEnds
    /\ RunningSessionEnds
================================================================================
