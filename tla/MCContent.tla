------------------------------ MODULE MCContent ------------------------------
(*****************************************************************************)
(* Evidence, cross witnesses, packs, rules, the converter of benchmarks,    *)
(* reports and compliance: parts that share no state.  A behaviour is about *)
(* one part, the others stand still.                                        *)
(*****************************************************************************)
EXTENDS Reports, Compliance, EvalRules, PackStore, Converter, EvidenceStore,
        CrossWitness

\* Two releases: the second has new contents under an old key, a new pack, a
\* strange one and two that are damaged.
TwoReleases ==
    << <<Archive("b1", "x", "dev", TRUE, TRUE)>>,
       <<Archive("a1", "y", "release", TRUE, TRUE),
         Archive("b1", "z", "dev", TRUE, TRUE),
         Archive("c1", "w", "other", TRUE, TRUE),
         Archive("e1", "u", "release", FALSE, TRUE),
         Archive("f1", "t", "dev", TRUE, FALSE)>> >>

VARIABLE part     \* the part this behaviour is about

allVars ==
    <<part, reportVars, complianceVars, suggestionVars, rulesVars,
      packVars, passLogicVars, toolVars, cisVars, backupVars,
      redactionVars, foldVars>>

\* What the variables of a sampled input hold in the other parts.
OffRule == (CHOOSE r \in Rules : TRUE)
OffOutput == (CHOOSE o \in Outputs : TRUE)
OffFixture == {}
OffLogic == (CHOOSE t \in Trees : TRUE)
OffConditions == (CHOOSE c \in [Ids -> [operator : Operators, out : Prints]] : TRUE)
OffWhat == "none"
OffSample == <<>>

MCInit ==
    /\ part \in {"Reports", "Compliance", "Suggestions", "Rules", "Packs",
                 "PassLogic", "Tools", "Cis", "Evidence", "Redaction",
                 "Witness"}
    /\ ReportsInit
    /\ part # "Reports" => reportDb = "sqlite"
    /\ ComplianceInit
    /\ part # "Compliance" => mapped = [c \in Controls |-> {}]
    /\ part # "Compliance" => complianceDb = "sqlite"
    /\ SuggestionsInit
    /\ part # "Suggestions" => suggestionDb = "sqlite"
    /\ IF part = "Rules" THEN RulesInit
       ELSE rule = OffRule /\ output = OffOutput /\ fixture = OffFixture
    /\ PackInit
    /\ part # "Packs" => packDb = "sqlite"
    /\ IF part = "PassLogic" THEN PassLogicInit
       ELSE logic = OffLogic /\ conditions = OffConditions
    /\ ToolInit
    /\ IF part = "Cis" THEN CisInit
       ELSE what = OffWhat /\ sample = OffSample
    /\ BackupInit
    /\ part # "Evidence" => evDb = "sqlite"
    /\ RedactionInit
    /\ FoldInit

ReportsPart ==
    /\ part = "Reports" /\ ReportsNext
    /\ UNCHANGED <<part, complianceVars, suggestionVars, rulesVars,
                   packVars, passLogicVars, toolVars, cisVars, backupVars,
                   redactionVars, foldVars>>

CompliancePart ==
    /\ part = "Compliance" /\ ComplianceNext
    /\ UNCHANGED <<part, reportVars, suggestionVars, rulesVars, packVars,
                   passLogicVars, toolVars, cisVars, backupVars,
                   redactionVars, foldVars>>

SuggestionsPart ==
    /\ part = "Suggestions" /\ SuggestionsNext
    /\ UNCHANGED <<part, reportVars, complianceVars, rulesVars, packVars,
                   passLogicVars, toolVars, cisVars, backupVars,
                   redactionVars, foldVars>>

RulesPart ==
    /\ part = "Rules" /\ RulesNext
    /\ UNCHANGED <<part, reportVars, complianceVars, suggestionVars,
                   packVars, passLogicVars, toolVars, cisVars, backupVars,
                   redactionVars, foldVars>>

PacksPart ==
    /\ part = "Packs" /\ PackNext
    /\ UNCHANGED <<part, reportVars, complianceVars, suggestionVars,
                   rulesVars, passLogicVars, toolVars, cisVars,
                   backupVars, redactionVars, foldVars>>

PassLogicPart ==
    /\ part = "PassLogic" /\ PassLogicNext
    /\ UNCHANGED <<part, reportVars, complianceVars, suggestionVars,
                   rulesVars, packVars, toolVars, cisVars, backupVars,
                   redactionVars, foldVars>>

ToolsPart ==
    /\ part = "Tools" /\ ToolNext
    /\ UNCHANGED <<part, reportVars, complianceVars, suggestionVars,
                   rulesVars, packVars, passLogicVars, cisVars,
                   backupVars, redactionVars, foldVars>>

CisPart ==
    /\ part = "Cis" /\ CisNext
    /\ UNCHANGED <<part, reportVars, complianceVars, suggestionVars,
                   rulesVars, packVars, passLogicVars, toolVars,
                   backupVars, redactionVars, foldVars>>

EvidencePart ==
    /\ part = "Evidence" /\ BackupNext
    /\ UNCHANGED <<part, reportVars, complianceVars, suggestionVars,
                   rulesVars, packVars, passLogicVars, toolVars, cisVars,
                   redactionVars, foldVars>>

RedactionPart ==
    /\ part = "Redaction" /\ RedactionNext
    /\ UNCHANGED <<part, reportVars, complianceVars, suggestionVars,
                   rulesVars, packVars, passLogicVars, toolVars, cisVars,
                   backupVars, foldVars>>

WitnessPart ==
    /\ part = "Witness" /\ FoldNext
    /\ UNCHANGED <<part, reportVars, complianceVars, suggestionVars,
                   rulesVars, packVars, passLogicVars, toolVars, cisVars,
                   backupVars, redactionVars>>

MCNext == ReportsPart \/ CompliancePart \/ SuggestionsPart \/ RulesPart \/
       PacksPart \/ PassLogicPart \/ ToolsPart \/ CisPart \/
       EvidencePart \/ RedactionPart \/ WitnessPart

MCSpec ==
    /\ MCInit /\ [][MCNext]_allVars
    /\ \A o \in SchedulerOwners : WF_foldVars(part = "Witness" /\ SchedulerStop(o))
    /\ \A n \in 1..MaxStarts : WF_foldVars(part = "Witness" /\ LoopStep(n)) /\ SF_foldVars(part = "Witness" /\ EndLoop(n))

\* Evidence and its backups by themselves.
EvidenceSpec == part = "Evidence" /\ MCInit /\ [][MCNext]_allVars

\* Verdicts: what the tools convert and pack is what was written, and rules,
\* pass logic and synthesized checks never pass what they have not seen.
VerdictsAreSound ==
    /\ [](RulesAreSound /\ ShellSaysTheSame /\ VerdictsAreHonest)
    /\ ToolsAreSound
==============================================================================
