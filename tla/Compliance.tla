------------------------------ MODULE Compliance -------------------------------
(***************************************************************************)
(* Compliance snapshots of one tenant: internal/domain/compliance with its *)
(* SQL repository and HTTP surface.  A snapshot reads the results of a     *)
(* session, which may be going on, judges every control of the framework   *)
(* by the results of the checks mapped to it, reads the head of the audit  *)
(* chain and is inserted with its audit entry, all in one transaction.  On *)
(* SQLite that transaction has the only connection; on PostgreSQL each of  *)
(* its statements sees what others have committed by then.                 *)
(***************************************************************************)
EXTENDS Integers, FiniteSets, Sequences, FiniteSetsExt, SequencesExt
CONSTANTS
    ScanSessions,    \* scan sessions
    Controls,        \* controls of the framework
    MappableChecks,  \* checks of the pack
    ScannedRobots,   \* robots of the fleet
    Snappers,        \* calls of GenerateSnapshot under way
    MaxSnaps         \* bound: snapshots begun

ASSUME ComplianceAssumption == IsFiniteSet(Controls)

VARIABLES
    complianceDb,
    mapped,          \* mapped[c]: the checks the framework's file maps to control c
    profile,         \* whether the framework's profile exists
    scanned,         \* scanned[s]: results of session s, one per robot and check
    ended,           \* sessions that are completed
    trail,           \* committed audit entries
    snaps,           \* rows of framework_snapshots
    snapping,        \* snapping[y]: a call
    snapped          \* snapshots begun

complianceVars == <<complianceDb, mapped, profile, scanned, ended, trail, snaps, snapping, snapped>>

Outcomes == {"pass", "fail", "error", "indeterminate", "not_applicable", "skipped"}
Failing == {"fail", "error", "indeterminate"}
NotCounted == {"not_applicable", "skipped"}
Idle == [at |-> "none"]

ComplianceInit ==
    /\ complianceDb \in {"sqlite", "postgres"}
    /\ mapped \in [Controls -> SUBSET MappableChecks]
    /\ profile = FALSE
    /\ scanned = [s \in ScanSessions |-> {}] /\ ended = {}
    /\ trail = <<>> /\ snaps = {} /\ snapped = 0
    /\ snapping = [y \in Snappers |-> Idle]

\* No other transaction of this part holds SQLite's connection.
Free(y) == complianceDb = "sqlite" => \A z \in Snappers \ {y} : snapping[z] = Idle
NobodySnaps == complianceDb = "sqlite" => \A z \in Snappers : snapping[z] = Idle

--------------------------------------------------------------------------------
(* What is judged. *)

\* Outcomes(c, rs): how many results of the control's checks are of these outcomes.
CountOf(c, rs, outcomes) == Cardinality({r \in rs : r.check \in mapped[c] /\ r.outcome \in outcomes})

\* Bug: a check that could not be decided is left out, as one that does not apply is.
EvaluateControl_Lenient(c, rs) ==
    LET pass == CountOf(c, rs, {"pass"}) fail == CountOf(c, rs, {"fail"})
        na == CountOf(c, rs, Outcomes \ {"pass", "fail"})
    IN CASE pass + fail + na = 0 -> "unmapped"
         [] pass + fail = 0 /\ na # 0 -> "not_applicable"
         [] pass # 0 /\ fail = 0 -> "pass"
         [] pass = 0 /\ fail # 0 -> "fail"
         [] OTHER -> "partial"
EvaluateControl(c, rs) ==
    LET pass == CountOf(c, rs, {"pass"}) fail == CountOf(c, rs, Failing) na == CountOf(c, rs, NotCounted)
    IN CASE pass + fail + na = 0 -> "unmapped"
         [] pass + fail = 0 /\ na # 0 -> "not_applicable"
         [] pass # 0 /\ fail = 0 -> "pass"
         [] pass = 0 /\ fail # 0 -> "fail"
         [] OTHER -> "partial"
AggregateControlStatuses(rs) == [c \in Controls |-> EvaluateControl(c, rs)]
CountStatus(statuses, status) == Cardinality({c \in Controls : statuses[c] = status})

\* The score is halves / (2 * of); with nothing to judge it is 1.
\* Bug: a control nothing is known about counts as one that fails.
ScoreFromStatuses_Unmapped(statuses) ==
    LET of == Cardinality({c \in Controls : statuses[c] # "not_applicable"})
    IN IF of = 0 THEN [halves |-> 2, of |-> 1]
       ELSE [halves |-> 2 * CountStatus(statuses, "pass") + CountStatus(statuses, "partial"), of |-> of]
ScoreFromStatuses(statuses) ==
    LET of == Cardinality({c \in Controls : statuses[c] \in {"pass", "partial", "fail"}})
    IN IF of = 0 THEN [halves |-> 2, of |-> 1]
       ELSE [halves |-> 2 * CountStatus(statuses, "pass") + CountStatus(statuses, "partial"), of |-> of]
AtMost(x, y) == x.halves * y.of <= y.halves * x.of

--------------------------------------------------------------------------------
(* The scan goes on meanwhile. *)

Judged(s) == {<<r.robot, r.check>> : r \in scanned[s]}
RecordResult(s) ==
    /\ NobodySnaps /\ s \notin ended
    /\ \E p \in (ScannedRobots \X MappableChecks) \ Judged(s), o \in Outcomes :
         scanned' = [scanned EXCEPT ![s] = scanned[s] \cup {[robot |-> p[1], check |-> p[2], outcome |-> o]}]
    /\ UNCHANGED <<complianceDb, mapped, profile, ended, trail, snaps, snapping, snapped>>
\* CompleteScan, with its audit entry.
CompleteScan(s) ==
    /\ NobodySnaps /\ s \notin ended /\ Judged(s) = ScannedRobots \X MappableChecks
    /\ ended' = ended \cup {s}
    /\ trail' = Append(trail, [kind |-> "completed", of |-> s])
    /\ UNCHANGED <<complianceDb, mapped, profile, scanned, snaps, snapping, snapped>>

--------------------------------------------------------------------------------
(* Profiles and snapshots. *)

\* The framework is known and the version its file has; (tenant, framework) is unique.
CreateProfile ==
    /\ NobodySnaps /\ ~profile
    /\ profile' = TRUE
    /\ trail' = Append(trail, [kind |-> "profile", of |-> 0])
    /\ UNCHANGED <<complianceDb, mapped, scanned, ended, snaps, snapping, snapped>>

\* Whether the session is over, or exists, is not asked; nor whether the profile is enabled.
ListResultsForSession(y) ==
    /\ snapping[y] = Idle /\ Free(y) /\ profile /\ snapped < MaxSnaps
    /\ \E s \in ScanSessions :
         snapping' = [snapping EXCEPT ![y] = [at |-> "read", id |-> snapped + 1, session |-> s,
                                              results |-> scanned[s], head |-> 0]]
    /\ snapped' = snapped + 1
    /\ UNCHANGED <<complianceDb, mapped, profile, scanned, ended, trail, snaps>>
HeadOf(y) ==
    /\ snapping[y].at = "read"
    /\ snapping' = [snapping EXCEPT ![y].at = "anchored", ![y].head = Len(trail)]
    /\ UNCHANGED <<complianceDb, mapped, profile, scanned, ended, trail, snaps, snapped>>

Snapshot(y) ==
    LET statuses == AggregateControlStatuses(snapping[y].results)
    IN [id |-> snapping[y].id, session |-> snapping[y].session, results |-> snapping[y].results,
        head |-> snapping[y].head, score |-> ScoreFromStatuses(statuses)]
\* Bug: the head is read when the entry of the snapshot is written.
Snapshot_LateHead(y) ==
    LET statuses == AggregateControlStatuses(snapping[y].results)
    IN [id |-> snapping[y].id, session |-> snapping[y].session, results |-> snapping[y].results,
        head |-> Len(trail) + 1, score |-> ScoreFromStatuses(statuses)]
Inserting(y, row) ==
    /\ snapping[y].at = "anchored"
    /\ snaps' = snaps \cup {row}
    /\ trail' = Append(trail, [kind |-> "snapshot", of |-> row.id])
    /\ snapping' = [snapping EXCEPT ![y] = Idle]
    /\ UNCHANGED <<complianceDb, mapped, profile, scanned, ended, snapped>>
GenerateSnapshot_LateHead(y) == Inserting(y, Snapshot_LateHead(y))
GenerateSnapshot(y) == Inserting(y, Snapshot(y))
\* An error of any step, or the process, ends the transaction.
AbandonSnapshot(y) ==
    /\ snapping[y] # Idle
    /\ snapping' = [snapping EXCEPT ![y] = Idle]
    /\ UNCHANGED <<complianceDb, mapped, profile, scanned, ended, trail, snaps, snapped>>

ComplianceNext ==
    \/ \E s \in ScanSessions : RecordResult(s) \/ CompleteScan(s)
    \/ CreateProfile
    \/ \E y \in Snappers : ListResultsForSession(y) \/ HeadOf(y) \/ GenerateSnapshot(y) \/ AbandonSnapshot(y)

ComplianceSpec == ComplianceInit /\ [][ComplianceNext]_complianceVars

--------------------------------------------------------------------------------
(* Properties. *)

\* A snapshot with the full score hides no failure: none of the results it was made of, for a
\* check mapped to a control, failed, ended in an error or stayed undecided.
PerfectMeansNoFailure ==
    \A t \in snaps : t.score.halves = 2 * t.score.of =>
        ~\E r \in t.results, c \in Controls : r.check \in mapped[c] /\ r.outcome \in Failing

\* Between two snapshots of a session the score follows what came in: failures never raise it,
\* passes never lower it, and what does not apply does not move it.
ScoreFollowsTheResults ==
    \A t, u \in snaps : (t.session = u.session /\ t.results \subseteq u.results) =>
        LET new == {r.outcome : r \in u.results \ t.results}
        IN /\ new \subseteq Failing \cup NotCounted => AtMost(u.score, t.score)
           /\ new \subseteq {"pass"} \cup NotCounted => AtMost(t.score, u.score)

\* The anchor of a snapshot lies before the entry of the snapshot itself; on SQLite it is the
\* entry right before, and one that lies behind the end of the session has all its results.
AnchorPrecedesTheSnapshot ==
    \A t \in snaps :
        /\ Cardinality({i \in DOMAIN trail : trail[i] = [kind |-> "snapshot", of |-> t.id]}) = 1
        /\ \E i \in DOMAIN trail :
             /\ trail[i] = [kind |-> "snapshot", of |-> t.id] /\ t.head < i
             /\ complianceDb = "sqlite" =>
                  /\ t.head = i - 1
                  /\ (\E j \in 1..t.head : trail[j] = [kind |-> "completed", of |-> t.session]) =>
                       t.results = scanned[t.session]

\* A score follows the results it is made of, perfect means no failure, and the
\* anchor precedes the snapshot.
SnapshotsAreSound ==
    /\ PerfectMeansNoFailure
    /\ ScoreFollowsTheResults
    /\ AnchorPrecedesTheSnapshot

--------------------------------------------------------------------------------
(***************************************************************************)
(* Suggested mappings of a check to controls: SuggestMappings, Confirm and *)
(* Reject of internal/domain/compliance/sqliterepo/suggestions_repo.go     *)
(* with internal/app/llmmapper.  The model is asked inside the caller's    *)
(* transaction.  A suggestion that is there already is skipped; on         *)
(* PostgreSQL its failed INSERT ends the transaction, and its message is   *)
(* not the one the skip looks for.                                         *)
(***************************************************************************)

CONSTANTS
    Offered,         \* controls of the framework, in the order of their ids
    Unlisted,        \* names of controls the framework does not have
    CandidateLimit,  \* candidates a prompt holds (20)
    TopN,            \* results asked for (5)
    Askers,          \* calls of SuggestMappings under way
    Deciders,        \* calls of Confirm and Reject under way
    MaxAsks          \* bound: calls of SuggestMappings

ASSUME SuggestionsAssumption == Offered \subseteq Nat /\ CandidateLimit \in Nat /\ TopN \in Nat

VARIABLES
    suggestionDb,
    suggestions,     \* suggestions[c]: status of the row for control c, "none" without a row
    notes,           \* committed audit entries
    asking,          \* asking[a]: a call that waits for the model
    deciding,        \* deciding[d]: a decision that has read its row
    asked            \* calls of SuggestMappings begun

suggestionVars == <<suggestionDb, suggestions, notes, asking, deciding, asked>>

Named == Offered \cup Unlisted
Undecided == [control |-> 0, target |-> "none"]
SuggestionsInit ==
    /\ suggestionDb \in {"sqlite", "postgres"}
    /\ suggestions = [c \in Named |-> "none"]
    /\ notes = <<>> /\ asked = 0
    /\ asking = [a \in Askers |-> FALSE]
    /\ deciding = [d \in Deciders |-> Undecided]

\* SQLite: one transaction at a time, the one that waits for the model included.
Alone == suggestionDb = "sqlite" =>
    (\A a \in Askers : ~asking[a]) /\ (\A d \in Deciders : deciding[d] = Undecided)

\* buildPrompt: the candidates, the first of them in the order of their ids if there are more.
Candidates == {c \in Offered : Cardinality({b \in Offered : b < c}) < CandidateLimit}
\* parseSuggestionsJSON: an answer names controls, those of the prompt or others, some twice;
\* one that is no list is an error.
Answers == UNION {[1..n -> Candidates \cup Unlisted] : n \in 0..(TopN + 1)}
Suggest(answer) == SubSeq(answer, 1, IF Len(answer) > TopN THEN TopN ELSE Len(answer))

Ask(a) ==
    /\ ~asking[a] /\ Alone /\ asked < MaxAsks
    /\ asking' = [asking EXCEPT ![a] = TRUE]
    /\ asked' = asked + 1
    /\ UNCHANGED <<suggestionDb, suggestions, notes, deciding>>

\* Whether the control is one of the framework is not asked.
Fresh(drafts) == {drafts[i] : i \in DOMAIN drafts} \cap {c \in Named : suggestions[c] = "none"}
Conflict(drafts) == Cardinality(Fresh(drafts)) # Len(drafts)
InsertSuggestion(c) == [kind |-> "created", of |-> c]
\* Bug: an existing suggestion is replaced by the new one.
InsertedAll_Upsert(drafts) == ToSet(drafts)
InsertedAll(drafts) == Fresh(drafts)
SuggestMappings(a, answer) ==
    LET drafts == Suggest(answer)
    IN /\ asking[a]
       /\ asking' = [asking EXCEPT ![a] = FALSE]
       /\ IF suggestionDb = "postgres" /\ Conflict(drafts) THEN UNCHANGED <<suggestions, notes>>
          ELSE /\ suggestions' = [c \in Named |-> IF c \in InsertedAll(drafts) THEN "pending" ELSE suggestions[c]]
               /\ notes' = notes \o SetToSeq({InsertSuggestion(c) : c \in InsertedAll(drafts)})
       /\ UNCHANGED <<suggestionDb, deciding, asked>>
\* The model is off, does not answer in time, or what it answers is no list.
LLMUnavailable(a) ==
    /\ asking[a]
    /\ asking' = [asking EXCEPT ![a] = FALSE]
    /\ UNCHANGED <<suggestionDb, suggestions, notes, deciding, asked>>

\* Bug: what was decided may be decided again.
Decidable_Any(c) == suggestions[c] # "none"
Decidable(c) == suggestions[c] = "pending"
GetSuggestion(d, c, target) ==
    /\ deciding[d] = Undecided /\ Alone /\ Decidable(c)
    /\ deciding' = [deciding EXCEPT ![d] = [control |-> c, target |-> target]]
    /\ UNCHANGED <<suggestionDb, suggestions, notes, asking, asked>>
\* The UPDATE does not look at the status again.
DecideSuggestion(d) ==
    /\ deciding[d] # Undecided
    /\ suggestions' = [suggestions EXCEPT ![deciding[d].control] = deciding[d].target]
    /\ notes' = Append(notes, [kind |-> deciding[d].target, of |-> deciding[d].control])
    /\ deciding' = [deciding EXCEPT ![d] = Undecided]
    /\ UNCHANGED <<suggestionDb, asking, asked>>
ConfirmSuggestion(d, c) == GetSuggestion(d, c, "confirmed")
RejectSuggestion(d, c) == GetSuggestion(d, c, "rejected")

SuggestionsNext ==
    \/ \E a \in Askers : Ask(a) \/ LLMUnavailable(a) \/ \E answer \in Answers : SuggestMappings(a, answer)
    \/ \E d \in Deciders : DecideSuggestion(d) \/ \E c \in Named : ConfirmSuggestion(d, c) \/ RejectSuggestion(d, c)

SuggestionsSpec == SuggestionsInit /\ [][SuggestionsNext]_suggestionVars

--------------------------------------------------------------------------------
(* Properties. *)

Noted(kinds, c) == {i \in DOMAIN notes : notes[i].kind \in kinds /\ notes[i].of = c}

\* A suggestion is made once and decided at most once, with one entry for each, however often
\* the model names it and however the deciders come; on PostgreSQL two deciders who both read
\* it as pending may both decide, and the row shows the later.
SuggestionsAreSound ==
    \A c \in Named :
        /\ suggestions[c] # "none" <=> Cardinality(Noted({"created"}, c)) = 1
        /\ suggestions[c] \in {"none", "pending"} <=> Noted({"confirmed", "rejected"}, c) = {}
        /\ suggestionDb = "sqlite" => Cardinality(Noted({"confirmed", "rejected"}, c)) <= 1
        /\ suggestions[c] \in {"confirmed", "rejected"} =>
             \E i \in Noted({suggestions[c]}, c) : \A j \in Noted({"confirmed", "rejected"}, c) : j <= i

--------------------------------------------------------------------------------
\* Compliance: snapshots follow the results they are made of, and a suggested
\* mapping is decided once.
ComplianceIsSound ==
    /\ SnapshotsAreSound
    /\ SuggestionsAreSound
================================================================================
