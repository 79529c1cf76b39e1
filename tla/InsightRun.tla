------------------------------ MODULE InsightRun -------------------------------
(***************************************************************************)
(* The three detectors of internal/domain/insight: pure functions from a   *)
(* window of scans to what they find.  A scan is a partial function from   *)
(* robots to results [outcome, ms] (one check); a window is a sequence of  *)
(* scans, the oldest first.  The code computes with float64; here every    *)
(* comparison is multiplied out to integers, and where rounding may decide *)
(* it either way is tried.                                                 *)
(***************************************************************************)
EXTENDS Integers, Sequences, FiniteSets, FiniteSetsExt, SequencesExt

CONSTANTS
    DriftWindow,         \* sessions a detector needs (5)
    MinAnomalySamples    \* durations a fence needs (4)

ASSUME DetectorAssumption == DriftWindow \in Nat \ {0} /\ MinAnomalySamples \in Nat \ {0}

\* The elements of S by their keys, the smallest first, where no two keys are equal.
Sorted(S, key) ==
    [k \in 1..Cardinality(S) |-> CHOOSE s \in S : Cardinality({t \in S : key[t] < key[s]}) = k - 1]

Scanned(window) == UNION {DOMAIN window[i] : i \in DOMAIN window}
\* seqs[k]: the results of one robot and check, in the order of the sessions.
History(window, r) ==
    LET sessions == {i \in DOMAIN window : r \in DOMAIN window[i]}
        there == Sorted(sessions, [i \in sessions |-> i])
    IN [k \in DOMAIN there |-> window[there[k]][r]]

--------------------------------------------------------------------------------
(* Drift. *)

Stable(outcome) == outcome \in {"pass", "fail"}
DriftSeverity(prev, last) ==
    IF prev = "pass" /\ last = "fail" THEN "high"
    ELSE IF prev = "fail" /\ last = "pass" THEN "info"
    ELSE "medium"
DriftOf(r, prev, last) ==
    [kind |-> "drift", robot |-> r, prev |-> prev, last |-> last, severity |-> DriftSeverity(prev, last)]

Drifted(seq) == Len(seq) >= 2 /\ seq[Len(seq)].outcome # seq[Len(seq) - 1].outcome
DetectDrift(window) ==
    IF Len(window) < DriftWindow THEN {}
    ELSE {LET seq == History(window, r) IN DriftOf(r, seq[Len(seq) - 1].outcome, seq[Len(seq)].outcome) :
            r \in {q \in Scanned(window) : Drifted(History(window, q))}}

--------------------------------------------------------------------------------
(* Anomaly: Tukey's fences around all but the last duration, which float64 computes *)
(* exactly: whole milliseconds in eighths.                                          *)

\* Bug: interpolates in whole milliseconds.
Percentile_Whole(sorted, quarter) ==
    LET n == Len(sorted) - 1
        idx == (n * quarter) \div 4
        frac == (n * quarter) % 4
    IN IF idx + 1 > n THEN 4 * sorted[n + 1]
       ELSE 4 * (sorted[idx + 1] + (frac * (sorted[idx + 2] - sorted[idx + 1])) \div 4)
\* percentile, times four: sorted[idx] + frac * (sorted[idx+1] - sorted[idx]).
Percentile(sorted, quarter) ==
    LET n == Len(sorted) - 1
        idx == (n * quarter) \div 4
        frac == (n * quarter) % 4
    IN IF idx + 1 > n THEN 4 * sorted[n + 1]
       ELSE 4 * sorted[idx + 1] + frac * (sorted[idx + 2] - sorted[idx + 1])

\* Bug: half an interquartile range instead of one and a half.
Outlier_Half(durations) ==
    LET last == 8 * durations[Len(durations)]
        base == SortSeq(Front(durations), <)
        q1 == 2 * Percentile(base, 1)
        q3 == 2 * Percentile(base, 3)
    IN IF Len(durations) < MinAnomalySamples \/ q3 = q1 THEN "none"
       ELSE IF 2 * last > 3 * q3 - q1 THEN "high"
       ELSE IF 2 * last < 3 * q1 - q3 THEN "low"
       ELSE "none"
\* The direction in which the last duration is an outlier.
Outlier(durations) ==
    LET last == 8 * durations[Len(durations)]
        base == SortSeq(Front(durations), <)
        q1 == 2 * Percentile(base, 1)
        q3 == 2 * Percentile(base, 3)
        iqr == q3 - q1
    IN IF Len(durations) < MinAnomalySamples \/ Len(base) < 3 \/ iqr = 0 THEN "none"
       ELSE IF 2 * last > 2 * q3 + 3 * iqr THEN "high"
       ELSE IF 2 * last < 2 * q1 - 3 * iqr THEN "low"
       ELSE "none"
Durations(window, r) == LET h == History(window, r) IN [i \in DOMAIN h |-> h[i].ms]

DetectAnomaly(window) ==
    IF Len(window) < DriftWindow THEN {}
    ELSE {[kind |-> "anomaly", robot |-> r, direction |-> Outlier(Durations(window, r))] :
            r \in {q \in Scanned(window) : Outlier(Durations(window, q)) # "none"}}

--------------------------------------------------------------------------------
(* Peer: robots more than a standard deviation below the fleet's mean.  A robot whose *)
(* distance is the deviation is below the computed threshold, or not, as the sums and *)
(* the root were rounded; of robots that are all the same none is.                    *)

Spread(ratio) ==
    LET n == Cardinality(DOMAIN ratio)
        s == MapThenSumSet(LAMBDA q : ratio[q], DOMAIN ratio)
    IN [n |-> n, sum |-> s, squares |-> MapThenSumSet(LAMBDA q : (n * ratio[q] - s) * (n * ratio[q] - s), DOMAIN ratio)]
\* Bug: the variance is taken for the deviation.
BelowPeers_Variance(ratio, r, roundsUp) ==
    LET f == Spread(ratio)
    IN f.n >= 2 /\ f.squares > 0 /\ f.n * f.n * 12 * (f.sum - f.n * ratio[r]) > f.squares
\* Bug: a deviation in either direction.
BelowPeers_Either(ratio, r, roundsUp) ==
    LET f == Spread(ratio)
    IN f.n >= 2 /\ f.squares > 0 /\ f.n * (f.sum - f.n * ratio[r]) * (f.sum - f.n * ratio[r]) > f.squares
\* mu - ratio > sigma, with n * mu the sum and n * n * n * sigma^2 the squares.
BelowPeers(ratio, r, roundsUp) ==
    LET f == Spread(ratio)
        gap == f.sum - f.n * ratio[r]
    IN /\ f.n >= 2 /\ gap > 0
       /\ f.n * gap * gap > f.squares \/ (roundsUp /\ f.n * gap * gap = f.squares)

\* latestByRobot: of each robot, the results of the last session it is in.
Latest(window) == [r \in Scanned(window) |-> Last(History(window, r))]
PassRatios(window) == [r \in Scanned(window) |-> IF Latest(window)[r].outcome = "pass" THEN 12 ELSE 0]
\* Here with one check: the ratios are 0 and 1, of which a robot is as far as the deviation only
\* when half of the fleet is, and then all is computed exactly.
DetectPeer(window) ==
    {[kind |-> "peer", robot |-> r, ratio |-> PassRatios(window)[r]] :
       r \in {q \in Scanned(window) : BelowPeers(PassRatios(window), q, FALSE)}}

Detected(window) == DetectDrift(window) \cup DetectAnomaly(window) \cup DetectPeer(window)

--------------------------------------------------------------------------------
(* Bounded inputs: the durations of one robot and check, or the pass rates of a  *)
(* fleet, grown one by one.                                                      *)

CONSTANTS
    PeerFleet,       \* robots compared
    MaxDuration,     \* bound: durations
    MaxSamples       \* bound: sessions compared

VARIABLES
    ratios,          \* pass ratios of a fleet, in twelfths
    durations        \* durations of one robot and check

detectorVars == <<ratios, durations>>

DetectorsInit ==
    /\ durations = <<1>>
    /\ ratios = <<>>
\* One more session, or one more robot's ratio.
DetectorsNext ==
    \/ /\ ratios = <<>> /\ Len(durations) < MaxSamples
       /\ \E ms \in 1..MaxDuration : durations' = Append(durations, ms)
       /\ UNCHANGED ratios
    \/ /\ durations = <<1>>
       /\ \E r \in PeerFleet \ DOMAIN ratios, x \in {0, 3, 4, 6, 12} :
            ratios' = [q \in DOMAIN ratios \cup {r} |-> IF q = r THEN x ELSE ratios[q]]
       /\ UNCHANGED durations

\* No more than half of a fleet are reported as falling behind it, however the threshold of
\* DetectPeer, the mean less one population deviation, is rounded; fewer where it is not.
PeerFlagsAMinority ==
    \A up \in BOOLEAN :
        LET flagged == Cardinality({r \in DOMAIN ratios : BelowPeers(ratios, r, up)})
        IN 2 * flagged <= Cardinality(DOMAIN ratios) /\ (flagged > 0 /\ ~up => 2 * flagged < Cardinality(DOMAIN ratios))
\* A robot that is reported is not above one that is not (the threshold is one for all).
PeerReportsTheLowest ==
    \A r, q \in DOMAIN ratios, up \in BOOLEAN :
        BelowPeers(ratios, r, up) /\ ratios[q] <= ratios[r] => BelowPeers(ratios, q, up)
\* Expected of a threshold one deviation below the mean (peer.go:96-113): of two robots none is
\* below it.  Of ratios 0.1 and 0.2 the first is, as float64 rounds their mean and deviation.
OfTwoNoneFallsBehind ==
    Cardinality(DOMAIN ratios) = 2 => \A r \in DOMAIN ratios, up \in BOOLEAN : ~BelowPeers(ratios, r, up)
\* The verdict on a duration does not depend on the unit it is measured in: with every
\* duration three times as long, DetectAnomaly finds the same.
OutliersAreScaleFree ==
    Outlier([i \in DOMAIN durations |-> 3 * durations[i]]) = Outlier(durations)
\* With the fewest samples the fences enclose every earlier duration: an outlier among
\* four is slower, or faster, than all three before it.
OutlierOfFourIsARecord ==
    Len(durations) = 4 =>
        /\ Outlier(durations) = "high" => \A i \in 1..3 : durations[4] > durations[i]
        /\ Outlier(durations) = "low" => \A i \in 1..3 : durations[4] < durations[i]

\* What the detectors flag is what their statistics mean.
DetectorsAreSound ==
    /\ PeerFlagsAMinority
    /\ PeerReportsTheLowest
    /\ OutliersAreScaleFree
    /\ OutlierOfFourIsARecord

--------------------------------------------------------------------------------
(***************************************************************************)
(* Insights of one fleet: internal/domain/insight/sqliterepo, run by hand  *)
(* or by the subscriber of scan.completed (internal/app/insightautorun).   *)
(* Varying r varies from scan to scan, the others pass always; one check.    *)
(* A run is one transaction.  On PostgreSQL the duplicate check's          *)
(* "scope_robot_id IS $5" is a syntax error, so a run that finds anything  *)
(* fails there.                                                            *)
(***************************************************************************)

CONSTANTS
    Varying,           \* the robot that varies
    Steady,          \* robots that pass every check
    Readings,        \* what a scan may find of Varying
    MaxSessions,     \* bound: sessions started
    MaxOverlap,      \* bound: sessions of the fleet under way
    MaxManualRuns,   \* bound: runs by hand
    MaxDismissals    \* bound: insights dismissed

ASSUME InsightAssumption == IsFiniteSet(Steady) /\ Varying \notin Steady

VARIABLES
    insightDb,
    session,      \* the fleet's sessions in creation order: [status, done, scan]
    completions,  \* sessions ever completed: the clock of completed_at
    completedQ,   \* scan.completed events the subscriber has not handled
    insights,     \* rows, in insertion order
    createdLog,   \* rows with an insight.created audit entry
    dismissedLog, \* rows with an insight.dismissed audit entry
    manualRuns

insightVars == <<insightDb, session, completions, completedQ, insights, createdLog, dismissedLog, manualRuns>>

Slow == [pass |-> 1, fail |-> 2, error |-> 3, slow |-> 30]
Result(reading) == [outcome |-> IF reading = "slow" THEN "pass" ELSE reading, ms |-> Slow[reading]]
\* The results of a session: Varying may be missing from it.
Scans == {[r \in Steady |-> Result("pass")]}
         \cup {[r \in Steady \cup {Varying} |-> IF r = Varying THEN Result(x) ELSE Result("pass")] : x \in Readings}

Rows == DOMAIN insights
Active(row) == ~insights[row].dismissed
\* What the duplicate check compares: kind, scope and 50 characters of the summary.
\* The ids take them all, but for a peer's pass rate.
SummaryPrefix(found) == IF found.kind = "peer" THEN <<found.kind, found.robot, found.ratio>>
                        ELSE <<found.kind, found.robot>>
\* Bug: only drifts are compared, by their whole summary.
HasActiveDuplicate_Never(found) == \E row \in Rows : Active(row) /\ insights[row].found = found /\ found.kind = "drift"
HasActiveDuplicate(found) ==
    \E row \in Rows : Active(row) /\ SummaryPrefix(insights[row].found) = SummaryPrefix(found)

InsightInit ==
    /\ insightDb \in {"sqlite", "postgres"}
    /\ session = <<>> /\ completions = 0 /\ completedQ = <<>>
    /\ insights = <<>> /\ createdLog = {} /\ dismissedLog = {}
    /\ manualRuns = 0

--------------------------------------------------------------------------------
(* Sessions: their own transactions, the event after the one that ends them. *)

StartSession ==
    /\ Len(session) < MaxSessions
    /\ Cardinality({s \in DOMAIN session : session[s].status = "running"}) < MaxOverlap
    /\ session' = Append(session, [status |-> "running"])
    /\ UNCHANGED <<insightDb, completions, completedQ, insights, createdLog, dismissedLog, manualRuns>>

CompleteSession(s, scan) ==
    /\ session[s].status = "running"
    /\ completions' = completions + 1
    /\ session' = [session EXCEPT ![s] = [status |-> "completed", done |-> completions + 1, scan |-> scan]]
    /\ completedQ' = Append(completedQ, "completed")
    /\ UNCHANGED <<insightDb, insights, createdLog, dismissedLog, manualRuns>>

\* A failed session announces itself on the same topic.
FailSession(s) ==
    /\ session[s].status = "running"
    /\ session' = [session EXCEPT ![s] = [status |-> "failed"]]
    /\ completedQ' = Append(completedQ, "failed")
    /\ UNCHANGED <<insightDb, completions, insights, createdLog, dismissedLog, manualRuns>>

--------------------------------------------------------------------------------
(* Runs. *)

Completed == {s \in DOMAIN session : session[s].status = "completed"}
\* ListRecentSessions: the last created of the completed ones.
Recent == {s \in Completed : Cardinality({t \in Completed : t > s}) < DriftWindow}
\* Bug: the order of creation is taken for the order of completion.
Window_Unsorted ==
    LET order == Sorted(Recent, [s \in Recent |-> s]) IN
    [i \in DOMAIN order |-> session[order[i]].scan]
Order == Sorted(Recent, [s \in Recent |-> session[s].done])
Window == [i \in DOMAIN Order |-> session[Order[i]].scan]

Unreported == {f \in Detected(Window) : ~HasActiveDuplicate(f)}
Row(found) == [found |-> found, dismissed |-> FALSE, at |-> completions]
\* Bug: every row gets its audit entry, those skipped as duplicates too.
RunForFleet_AuditAll ==
    LET new == SetToSeq(Unreported) IN
    IF Detected(Window) # {} /\ insightDb = "postgres"
    THEN UNCHANGED <<insights, createdLog>>
    ELSE /\ insights' = insights \o [i \in DOMAIN new |-> Row(new[i])]
         /\ createdLog' = createdLog \cup (Len(insights) + 1)..(Len(insights) + Cardinality(Detected(Window)))
\* RunForFleet: what is found and has no active duplicate is inserted and audited.  No
\* two of one run's findings have one prefix.
RunForFleet ==
    LET new == SetToSeq(Unreported) IN
    IF Detected(Window) # {} /\ insightDb = "postgres"
    THEN UNCHANGED <<insights, createdLog>>
    ELSE /\ insights' = insights \o [i \in DOMAIN new |-> Row(new[i])]
         /\ createdLog' = createdLog \cup (Len(insights) + 1)..(Len(insights) + Len(new))

RunByHand ==
    /\ manualRuns < MaxManualRuns
    /\ manualRuns' = manualRuns + 1
    /\ RunForFleet
    /\ UNCHANGED <<insightDb, session, completions, completedQ, dismissedLog>>

\* handle: an error is logged and the event is gone.
HandleCompleted ==
    /\ completedQ # <<>>
    /\ completedQ' = Tail(completedQ)
    /\ IF Head(completedQ) = "completed" THEN RunForFleet ELSE UNCHANGED <<insights, createdLog>>
    /\ UNCHANGED <<insightDb, session, completions, dismissedLog, manualRuns>>

Dismiss(row) ==
    /\ Active(row)
    /\ Cardinality(dismissedLog) < MaxDismissals
    /\ insights' = [insights EXCEPT ![row].dismissed = TRUE]
    /\ dismissedLog' = dismissedLog \cup {row}
    /\ UNCHANGED <<insightDb, session, completions, completedQ, createdLog, manualRuns>>

InsightNext ==
    \/ StartSession
    \/ \E s \in DOMAIN session : FailSession(s) \/ \E scan \in Scans : CompleteSession(s, scan)
    \/ RunByHand \/ HandleCompleted
    \/ \E row \in Rows : Dismiss(row)

InsightSpec == InsightInit /\ [][InsightNext]_insightVars

--------------------------------------------------------------------------------
(* Properties. *)

\* At any time one kind of finding about one robot is listed once: a run does not repeat
\* what is still active (RunForFleet, hasActiveDuplicate), however often it is run.
NoTwinInsights ==
    \A a, b \in Rows :
        a # b /\ Active(a) /\ Active(b) => SummaryPrefix(insights[a].found) # SummaryPrefix(insights[b].found)

\* The audit trail tells each insight's story once: an entry for its creation and one for
\* its dismissal, and none for a finding that was skipped or rolled back.
AuditTellsInsights ==
    /\ createdLog = Rows
    /\ dismissedLog = {row \in Rows : ~Active(row)}

\* A drift says what happened last: when it is inserted, its robot's results in the two
\* sessions that completed last, of those looked at, are the two it names.  Sessions may
\* complete in another order than they were created in.
DriftIsInCompletionOrder ==
    [][\A row \in Rows' \ Rows :
         LET found == insights'[row].found
             seen == {s \in Recent : Varying \in DOMAIN session[s].scan}
         IN found.kind = "drift" =>
              \E s, t \in seen :
                 /\ \A u \in seen : session[u].done <= session[t].done
                 /\ \A u \in seen \ {t} : session[u].done <= session[s].done
                 /\ s # t
                 /\ session[s].scan[Varying].outcome = found.prev
                 /\ session[t].scan[Varying].outcome = found.last]_insightVars

\* What a run finds is on record afterwards, word for word: a summary is skipped only
\* where the same summary is active (insight.go, RunForFleet).  Two transitions of one
\* check have one prefix, and on PostgreSQL nothing is ever inserted.
FindingsAreRecorded ==
    [][manualRuns' # manualRuns =>
         \A found \in Detected(Window) : \E row \in Rows' : insights'[row].found = found /\ ~insights'[row].dismissed]_insightVars

\* An insight is reported once, with its audit entry, and drift follows the order
\* in which scans ended.
InsightsAreSound ==
    /\ [](NoTwinInsights /\ AuditTellsInsights)
    /\ DriftIsInCompletionOrder
================================================================================
