------------------------------- MODULE MCFleet -------------------------------
(*****************************************************************************)
(* Fleet schedules, demonstration data, robots, their credentials and their *)
(* import, detectors, insights, the advisor, the effectiveness dashboard,   *)
(* the quotas of the licence, and sessions on PostgreSQL: parts that share  *)
(* no state.  A behaviour is about one part, the others stand still.        *)
(*****************************************************************************)
EXTENDS ScanRun, DemoSeed, FleetSchedule, RobotCredentials, InsightRun,
        AdvisorAsk, Effectiveness, LicenseQuota

VARIABLE part     \* the part this behaviour is about

allVars ==
    <<part, vars, seedVars, fleetVars, importVars, robotVars,
      detectorVars, insightVars, advisorVars, effectivenessVars,
      quotaVars>>

\* What the first sessions of a fleet found of Varying: enough for the next to be an outlier.
Histories == {<<"pass", "fail", "error">>}
\* A state that InsightNext reaches: so many sessions have been started and completed, one after
\* the other, and the subscriber has handled none of their events.
HistoryInit ==
    \E h \in Histories :
        /\ insightDb \in {"sqlite", "postgres"}
        /\ session = [i \in DOMAIN h |-> [status |-> "completed", done |-> i,
                                          scan |-> [r \in Steady \cup {Varying} |->
                                                      Result(IF r = Varying THEN h[i] ELSE "pass")]]]
        /\ completions = Len(h) /\ completedQ = [i \in DOMAIN h |-> "completed"]
        /\ insights = <<>> /\ createdLog = {} /\ dismissedLog = {} /\ manualRuns = 0

MCInit ==
    /\ part \in {"ScanPg", "Demo", "Schedule", "Imports", "Robots",
                 "Detectors", "Insights", "Advisor", "Effectiveness",
                 "License"}
    /\ Init
    /\ DemoInit
    /\ ScheduleInit
    /\ ImportInit
    /\ part # "Imports" => csvFile = <<>>
    /\ part # "Imports" => header = "right"
    /\ RobotInit
    /\ part # "Robots" => robotDb = "sqlite"
    /\ DetectorsInit
    /\ IF part = "Insights" THEN HistoryInit ELSE InsightInit
    /\ part # "Insights" => insightDb = "sqlite"
    /\ AdvisorInit
    /\ part # "Advisor" => advisorDb = "sqlite"
    /\ EffectivenessInit
    /\ QuotaInit
    /\ part # "License" => licence = (CHOOSE l \in Licences : TRUE)

ScanPgPart ==
    /\ part = "ScanPg" /\ Next
    /\ UNCHANGED <<part, seedVars, fleetVars, importVars, robotVars,
                   detectorVars, insightVars, advisorVars,
                   effectivenessVars, quotaVars>>

DemoPart ==
    /\ part = "Demo" /\ DemoNext
    /\ UNCHANGED <<part, vars, fleetVars, importVars, robotVars,
                   detectorVars, insightVars, advisorVars,
                   effectivenessVars, quotaVars>>

SchedulePart ==
    /\ part = "Schedule" /\ ScheduleNext
    /\ UNCHANGED <<part, vars, seedVars, importVars, robotVars,
                   detectorVars, insightVars, advisorVars,
                   effectivenessVars, quotaVars>>

ImportsPart ==
    /\ part = "Imports" /\ ImportNext
    /\ UNCHANGED <<part, vars, seedVars, fleetVars, robotVars,
                   detectorVars, insightVars, advisorVars,
                   effectivenessVars, quotaVars>>

RobotsPart ==
    /\ part = "Robots" /\ RobotNext
    /\ UNCHANGED <<part, vars, seedVars, fleetVars, importVars,
                   detectorVars, insightVars, advisorVars,
                   effectivenessVars, quotaVars>>

DetectorsPart ==
    /\ part = "Detectors" /\ DetectorsNext
    /\ UNCHANGED <<part, vars, seedVars, fleetVars, importVars, robotVars,
                   insightVars, advisorVars, effectivenessVars,
                   quotaVars>>

InsightsPart ==
    /\ part = "Insights" /\ InsightNext
    /\ UNCHANGED <<part, vars, seedVars, fleetVars, importVars, robotVars,
                   detectorVars, advisorVars, effectivenessVars,
                   quotaVars>>

AdvisorPart ==
    /\ part = "Advisor" /\ AdvisorNext
    /\ UNCHANGED <<part, vars, seedVars, fleetVars, importVars, robotVars,
                   detectorVars, insightVars, effectivenessVars,
                   quotaVars>>

EffectivenessPart ==
    /\ part = "Effectiveness" /\ EffectivenessNext
    /\ UNCHANGED <<part, vars, seedVars, fleetVars, importVars, robotVars,
                   detectorVars, insightVars, advisorVars, quotaVars>>

LicensePart ==
    /\ part = "License" /\ QuotaNext
    /\ UNCHANGED <<part, vars, seedVars, fleetVars, importVars, robotVars,
                   detectorVars, insightVars, advisorVars,
                   effectivenessVars>>

MCNext == ScanPgPart \/ DemoPart \/ SchedulePart \/ ImportsPart \/
       RobotsPart \/ DetectorsPart \/ InsightsPart \/ AdvisorPart
       \/ EffectivenessPart \/ LicensePart

MCSpec ==
    /\ MCInit /\ [][MCNext]_allVars

\* Robots: their rows, credentials and trusted host keys, and what an import
\* makes of its file.
RobotsAreKept ==
    /\ RobotsAreSound
    /\ ImportsAreSound

\* Sessions that start without a person: a schedule fires as its row says, and
\* the demonstration data can be made again after it failed.
SessionsStartAsAsked ==
    /\ ScheduleIsSound
    /\ DemoSeedIsSound

\* What is found out about robots: detectors mean what they flag, insights are
\* reported once, and the dashboard counts the events of its tenant.
FindingsAreSound ==
    /\ [](DetectorsAreSound /\ (part = "Effectiveness" => EffectivenessIsOfTheTenant))
    /\ InsightsAreSound
==============================================================================
