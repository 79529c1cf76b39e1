---------------------------- MODULE FleetSchedule ----------------------------
(***************************************************************************)
(* The cron jobs of fleets: the fleet rows and their policies, the         *)
(* handlers that change a fleet and then reconcile its job, and the cron   *)
(* scheduler of every instance.  A handler commits the row first; its      *)
(* Reconcile then cancels the job, reads the fleet in a transaction of its *)
(* own and registers what it read, three steps others may come between.    *)
(* A request is served by one instance and reaches only the jobs of that   *)
(* one.                                                                    *)
(***************************************************************************)
EXTENDS Naturals, FiniteSets

CONSTANTS
    CronFleets,       \* ids of fleets
    Servers,          \* instances on one database
    Admins,           \* requests that may be under way
    MaxFleetChanges,  \* bound: requests that change a fleet
    MaxRestarts       \* bound: restarts of an instance

ASSUME ScheduleAssumption == MaxFleetChanges \in Nat /\ MaxRestarts \in Nat

VARIABLES
    fleetRow,    \* fleetRow[f]: its policy, or NoRow
    jobId,       \* jobId[i][f]: Scheduler.entries of instance i, the cron entry of the job of f
    cronTab,     \* cronTab[i]: the entries cron itself holds, <<id, fleet, policy>>
    lastId,      \* lastId[i]: cron's counter of entry ids
    admin,       \* admin[a]: a request
    boot,        \* boot[i]: the fleets RegisterAll has listed and not registered, or Serving
    scanned,     \* the fleets with a live session
    ticked,      \* the job that last fired, or NoTick
    disturbed,   \* pairs <<i, f>> whose job was left to a race or to another instance
    fleetChanges, restarts

fleetVars == <<fleetRow, jobId, cronTab, lastId, admin, boot, scanned, ticked, disturbed,
               fleetChanges, restarts>>

NoRow == "none"
\* What a policy comes to: no schedule or no pack, one that cron takes, or one that
\* passes validateCronSpec only because that trims it (" @daily").
Policies == {"manual", "daily", "hourly", "padded"}
CronTakes == {"daily", "hourly"}
NoId == 0
NoRequest == [at |-> "idle"]
Serving == [at |-> "serving"]
NoTick == [at |-> "none"]

\* The job the rows call for.
Wanted(f) == IF fleetRow[f] \in CronTakes THEN {fleetRow[f]} ELSE {}
JobsOf(i, f) == {e \in cronTab[i] : e[2] = f}

ScheduleInit ==
    /\ fleetRow = [f \in CronFleets |-> NoRow]
    /\ jobId = [i \in Servers |-> [f \in CronFleets |-> NoId]]
    /\ cronTab = [i \in Servers |-> {}]
    /\ lastId = [i \in Servers |-> 0]
    /\ admin = [a \in Admins |-> NoRequest]
    /\ boot = [i \in Servers |-> Serving]
    /\ scanned = {} /\ ticked = NoTick /\ disturbed = {}
    /\ fleetChanges = 0 /\ restarts = 0

--------------------------------------------------------------------------------
(* cronsched. *)

\* Bug: the entry that is there is overwritten.
CronSchedule_Over(i, f, policy) ==
    IF policy \in CronTakes
    THEN /\ lastId' = [lastId EXCEPT ![i] = @ + 1]
         /\ jobId' = [jobId EXCEPT ![i][f] = lastId[i] + 1]
         /\ cronTab' = [cronTab EXCEPT ![i] = @ \cup {<<lastId[i] + 1, f, policy>>}]
    ELSE UNCHANGED <<lastId, jobId, cronTab>>
\* Bug: the counter of entries stands still.
CronSchedule_Stuck(i, f, policy) ==
    IF policy \in CronTakes /\ jobId[i][f] = NoId
    THEN /\ jobId' = [jobId EXCEPT ![i][f] = lastId[i] + 1]
         /\ cronTab' = [cronTab EXCEPT ![i] = @ \cup {<<lastId[i] + 1, f, policy>>}]
         /\ UNCHANGED lastId
    ELSE UNCHANGED <<lastId, jobId, cronTab>>
\* Schedule of the job registerFromFleet makes.  ErrJobExists and a spec that does not
\* parse are logged, and the fleet keeps the job it has or none.
CronSchedule(i, f, policy) ==
    IF policy \in CronTakes /\ jobId[i][f] = NoId
    THEN /\ lastId' = [lastId EXCEPT ![i] = @ + 1]
         /\ jobId' = [jobId EXCEPT ![i][f] = lastId[i] + 1]
         /\ cronTab' = [cronTab EXCEPT ![i] = @ \cup {<<lastId[i] + 1, f, policy>>}]
    ELSE UNCHANGED <<lastId, jobId, cronTab>>

CronCancel(i, f) ==
    /\ cronTab' = [cronTab EXCEPT ![i] = {e \in @ : e[1] # jobId[i][f]}]
    /\ jobId' = [jobId EXCEPT ![i][f] = NoId]
    /\ UNCHANGED lastId

--------------------------------------------------------------------------------
(* Requests.  NoRequest is an admin between two. *)

Busy(i, f) == {a \in Admins : admin[a] # NoRequest /\ admin[a].server = i /\ admin[a].fleet = f}

\* The commit of a change of f through i: the job of f is out of date on the other
\* instances, and in a race on i when another request about f is under way there.
Disturb(i, f) ==
    disturbed' = disturbed \cup ((Servers \ {i}) \X {f})
                           \cup (IF Busy(i, f) = {} THEN {} ELSE {<<i, f>>})

CommitRow(a, i, f, row, next) ==
    /\ boot[i] = Serving
    /\ admin[a] = NoRequest
    /\ fleetChanges < MaxFleetChanges
    /\ fleetChanges' = fleetChanges + 1
    /\ fleetRow' = [fleetRow EXCEPT ![f] = row]
    /\ admin' = [admin EXCEPT ![a] = [at |-> next, server |-> i, fleet |-> f, policy |-> NoRow]]
    /\ Disturb(i, f)
    /\ UNCHANGED <<jobId, cronTab, lastId, boot, scanned, ticked, restarts>>

CreateFleet(a, i, f, policy) ==
    /\ fleetRow[f] = NoRow
    /\ CommitRow(a, i, f, policy, "cancel")

\* An update that changes nothing commits nothing and reconciles all the same.
UpdateFleet(a, i, f, policy) ==
    /\ fleetRow[f] # NoRow
    /\ CommitRow(a, i, f, policy, "cancel")

DeleteFleet(a, i, f) ==
    /\ fleetRow[f] # NoRow
    /\ CommitRow(a, i, f, NoRow, "drop")

\* FleetScanScheduler.Cancel
DropJob(a) ==
    /\ admin[a].at = "drop"
    /\ CronCancel(admin[a].server, admin[a].fleet)
    /\ admin' = [admin EXCEPT ![a] = NoRequest]
    /\ UNCHANGED <<fleetRow, boot, scanned, ticked, disturbed, fleetChanges, restarts>>

\* Bug: the job that is there is left to Schedule.
ReconcileCancel_Skip(a) ==
    /\ admin[a].at = "cancel"
    /\ admin' = [admin EXCEPT ![a].at = "read"]
    /\ UNCHANGED <<fleetRow, jobId, cronTab, lastId, boot, scanned, ticked, disturbed,
                   fleetChanges, restarts>>
ReconcileCancel(a) ==
    /\ admin[a].at = "cancel"
    /\ CronCancel(admin[a].server, admin[a].fleet)
    /\ admin' = [admin EXCEPT ![a].at = "read"]
    /\ UNCHANGED <<fleetRow, boot, scanned, ticked, disturbed, fleetChanges, restarts>>

\* A fleet that is gone, like any other error, ends Reconcile with the job cancelled.
ReconcileRead(a) ==
    /\ admin[a].at = "read"
    /\ LET row == fleetRow[admin[a].fleet] IN
         admin' = [admin EXCEPT ![a] = IF row = NoRow THEN NoRequest
                                       ELSE [@ EXCEPT !.at = "register", !.policy = row]]
    /\ UNCHANGED <<fleetRow, jobId, cronTab, lastId, boot, scanned, ticked, disturbed,
                   fleetChanges, restarts>>

ReconcileReadFails(a) ==
    /\ admin[a].at = "read"
    /\ admin' = [admin EXCEPT ![a] = NoRequest]
    /\ disturbed' = disturbed \cup {<<admin[a].server, admin[a].fleet>>}
    /\ UNCHANGED <<fleetRow, jobId, cronTab, lastId, boot, scanned, ticked, fleetChanges, restarts>>

\* registerFromFleet
ReconcileRegister(a) ==
    /\ admin[a].at = "register"
    /\ CronSchedule(admin[a].server, admin[a].fleet, admin[a].policy)
    /\ admin' = [admin EXCEPT ![a] = NoRequest]
    /\ UNCHANGED <<fleetRow, boot, scanned, ticked, disturbed, fleetChanges, restarts>>

--------------------------------------------------------------------------------
(* Start of an instance: it serves once RegisterAll is done. *)

Restart(i) ==
    /\ restarts < MaxRestarts
    /\ restarts' = restarts + 1
    /\ jobId' = [jobId EXCEPT ![i] = [f \in CronFleets |-> NoId]]
    /\ cronTab' = [cronTab EXCEPT ![i] = {}]
    /\ lastId' = [lastId EXCEPT ![i] = 0]
    /\ admin' = [a \in Admins |-> IF admin[a] # NoRequest /\ admin[a].server = i THEN NoRequest ELSE admin[a]]
    /\ boot' = [boot EXCEPT ![i] = [at |-> "list"]]
    /\ UNCHANGED <<fleetRow, scanned, ticked, disturbed, fleetChanges>>

\* listFleetsForTenant reads a tenant's fleets in one transaction.
RegisterAllList(i) ==
    /\ boot[i].at = "list"
    /\ boot' = [boot EXCEPT ![i] =
         [at |-> "register", rows |-> {<<f, fleetRow[f]>> : f \in {g \in CronFleets : fleetRow[g] # NoRow}}]]
    /\ disturbed' = {d \in disturbed : d[1] # i}
    /\ UNCHANGED <<fleetRow, jobId, cronTab, lastId, admin, scanned, ticked, fleetChanges, restarts>>

\* The fleets of a tenant that cannot be listed are skipped.
RegisterAllSkips(i) ==
    /\ boot[i].at = "list"
    /\ boot' = [boot EXCEPT ![i] = Serving]
    /\ disturbed' = disturbed \cup ({i} \X CronFleets)
    /\ UNCHANGED <<fleetRow, jobId, cronTab, lastId, admin, scanned, ticked, fleetChanges, restarts>>

RegisterAll(i) ==
    /\ boot[i].at = "register"
    /\ IF boot[i].rows = {}
       THEN /\ boot' = [boot EXCEPT ![i] = Serving]
            /\ UNCHANGED <<jobId, cronTab, lastId>>
       ELSE \E row \in boot[i].rows :
              /\ CronSchedule(i, row[1], row[2])
              /\ boot' = [boot EXCEPT ![i].rows = @ \ {row}]
    /\ UNCHANGED <<fleetRow, admin, scanned, ticked, disturbed, fleetChanges, restarts>>

--------------------------------------------------------------------------------
(* Ticks. *)

\* The job of the leader fires and starts a session, unless one of the fleet is live.
\* Who leads is any instance's guess: the lease moves between the ticks.
Tick(i) ==
    \E e \in cronTab[i] :
      /\ e[2] \notin scanned
      /\ scanned' = scanned \cup {e[2]}
      /\ ticked' = [at |-> "fired", server |-> i, fleet |-> e[2], policy |-> e[3]]
      /\ UNCHANGED <<fleetRow, jobId, cronTab, lastId, admin, boot, disturbed, fleetChanges, restarts>>

EndScan(f) ==
    /\ f \in scanned
    /\ scanned' = scanned \ {f}
    /\ ticked' = NoTick
    /\ UNCHANGED <<fleetRow, jobId, cronTab, lastId, admin, boot, disturbed, fleetChanges, restarts>>

Reconcile(a) ==
    DropJob(a) \/ ReconcileCancel(a) \/ ReconcileRead(a) \/ ReconcileReadFails(a) \/ ReconcileRegister(a)

ScheduleNext ==
    \/ \E a \in Admins, i \in Servers, f \in CronFleets, policy \in Policies :
         CreateFleet(a, i, f, policy) \/ UpdateFleet(a, i, f, policy)
    \/ \E a \in Admins, i \in Servers, f \in CronFleets : DeleteFleet(a, i, f)
    \/ \E a \in Admins : Reconcile(a)
    \/ \E i \in Servers : Restart(i) \/ RegisterAllList(i) \/ RegisterAllSkips(i) \/ RegisterAll(i)
    \/ \E i \in Servers : Tick(i)
    \/ \E f \in CronFleets : EndScan(f)

ScheduleSpec == ScheduleInit /\ [][ScheduleNext]_fleetVars

--------------------------------------------------------------------------------
(* Properties. *)

\* Types, and ids that cron has given out.
ScheduleTypeOK ==
    /\ fleetRow \in [CronFleets -> Policies \cup {NoRow}]
    /\ \A i \in Servers :
         /\ \A f \in CronFleets : jobId[i][f] \in 0..lastId[i]
         /\ \A e \in cronTab[i] : e[1] \in 1..lastId[i] /\ e[2] \in CronFleets /\ e[3] \in CronTakes
    /\ scanned \subseteq CronFleets /\ disturbed \subseteq Servers \X CronFleets

\* Whatever the handlers of two requests do to each other, cron fires no job that the
\* scheduler's map has lost: a job no Cancel can reach would scan a fleet for ever.
NoJobOutlivesItsKey ==
    \A i \in Servers : \A e \in cronTab[i] : jobId[i][e[2]] = e[1]

\* Requests about a fleet that follow one another on the instance that serves them leave
\* the job its policy calls for, and so does a start: a race, a failed read or a change
\* through another instance is what it takes to leave a stale job.
UndisturbedJobIsCurrent ==
    \A i \in Servers, f \in CronFleets :
        boot[i] = Serving /\ Busy(i, f) = {} /\ <<i, f>> \notin disturbed
            => {e[3] : e \in JobsOf(i, f)} = Wanted(f)

\* The statement of Reconcile: after it the job follows the fleet's latest policy.  Read
\* for one instance: once the requests it served are answered its jobs are those of the
\* policies.
ReconcileFollowsPolicy ==
    (\A a \in Admins : admin[a] = NoRequest) /\ Cardinality(Servers) = 1 /\ restarts = 0
        => \A i \in Servers, f \in CronFleets : {e[3] : e \in JobsOf(i, f)} = Wanted(f)

\* The statement of validateCronSpec: a schedule it lets through is one cron takes, so a
\* fleet nobody raced for never ends up saved and silently without its job.
AcceptedScheduleIsRegistered ==
    \A i \in Servers, f \in CronFleets :
        /\ boot[i] = Serving /\ Busy(i, f) = {} /\ <<i, f>> \notin disturbed
        /\ fleetRow[f] \in Policies \ {"manual"}
        => JobsOf(i, f) # {}

\* A cron job exists only for a key some fleet has, and unless a request or the
\* database interferes it is the job of the current row.
ScheduleIsSound ==
    /\ ScheduleTypeOK
    /\ NoJobOutlivesItsKey
    /\ UndisturbedJobIsCurrent
================================================================================
