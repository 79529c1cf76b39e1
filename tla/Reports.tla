------------------------------- MODULE Reports -------------------------------
(***************************************************************************)
(* Signed reports of one tenant: internal/domain/reporting with the flow   *)
(* of cmd/rosshield-server/report_signer.go.  A report of a session or of  *)
(* a compliance snapshot is generated, signed and anchored in the audit    *)
(* chain in one transaction, bundled after it, and verified from the       *)
(* database or from the bundle, now or after the process has come back     *)
(* with another key.  That appends to the chain wait for one another is    *)
(* taken as given here: AuditChain is about that.                          *)
(***************************************************************************)
EXTENDS Integers, FiniteSets, Sequences

CONSTANTS
    Sessions,        \* scan sessions
    ReportChecks,    \* results a session has when it is over
    Signers,         \* calls of GenerateAndSign... under way
    ListLimit,       \* ListSnapshots's default limit (50)
    MaxSnapshots,    \* bound: snapshots of the profile
    MaxReports,      \* bound: reports begun
    MaxKeys,         \* bound: report keys ever created
    MaxChain         \* bound: entries of others

ASSUME ReportsAssumption == ListLimit \in Nat \ {0} /\ MaxKeys \in Nat \ {0}

VARIABLES
    reportDb,
    sessions,        \* sessions[s]: status, and the results so far
    snapshots,       \* number of snapshots of the profile, the newest last
    chain,           \* committed audit entries of the tenant
    reports,         \* rows of reports and framework_reports
    bundles,         \* bundles handed out
    reportKey,       \* keys/report.ed25519 of the data directory
    signing,         \* signing[x]: a call
    begun            \* reports begun

reportVars == <<reportDb, sessions, snapshots, chain, reports, bundles, reportKey, signing, begun>>

Nothing == [at |-> "none"]
NoAnchor == [seq |-> 0, key |-> 0]
Unsigned == [key |-> 0, over |-> {}, anchor |-> 0]

ReportsInit ==
    /\ reportDb \in {"sqlite", "postgres"}
    /\ sessions = [s \in Sessions |-> [status |-> "running", results |-> {}]]
    /\ snapshots = 0 /\ chain = <<>> /\ reports = {} /\ bundles = {} /\ begun = 0
    /\ reportKey = 1
    /\ signing = [x \in Signers |-> Nothing]

Open(x) == signing[x].at \notin {"none", "bundle"}
\* SQLite has one connection; on PostgreSQL only those that append wait.
Others(x) == {y \in Signers \ {x} : Open(y)}

--------------------------------------------------------------------------------
(* What the rest of the system does meanwhile. *)

Elsewhere == reportDb = "sqlite" => \A x \in Signers : ~Open(x)
Changing == UNCHANGED <<reportDb, reports, bundles, reportKey, signing, begun>>

Scan(s) ==
    /\ Elsewhere /\ sessions[s].status = "running"
    /\ \/ \E c \in ReportChecks \ sessions[s].results :
            sessions' = [sessions EXCEPT ![s].results = sessions[s].results \cup {c}]
       \/ /\ sessions[s].results = ReportChecks
          /\ sessions' = [sessions EXCEPT ![s].status = "completed"]
       \/ sessions' = [sessions EXCEPT ![s].status = "cancelled"]
    /\ Changing /\ UNCHANGED <<snapshots, chain>>
\* A snapshot is taken and audited, or anything else is.
OtherWork ==
    /\ \A x \in Signers : ~Open(x)
    /\ Len(SelectSeq(chain, LAMBDA e : e.kind = "other")) < MaxChain
    /\ chain' = Append(chain, [kind |-> "other", of |-> 0])
    /\ snapshots' \in {snapshots, snapshots + 1} /\ snapshots' <= MaxSnapshots
    /\ Changing /\ UNCHANGED sessions

--------------------------------------------------------------------------------
(* Generate and Sign. *)

\* The document shows its rows; the anchor at its foot is printed as it is given.
Build(kind, of, rows, anchor) == [kind |-> kind, of |-> of, rows |-> rows, anchor |-> anchor]
\* Bug: the status of the session is not looked at.
Reportable_Any(s) == TRUE
Reportable(s) == sessions[s].status = "completed"
AssembledRows(s) == sessions[s].results
\* LoadProfileSnapshot looks for the snapshot among those ListSnapshots returns.
Listed == {i \in 1..snapshots : i > snapshots - ListLimit}

Inserted(x, pdf) ==
    /\ signing[x] = Nothing /\ begun < MaxReports
    /\ reportDb = "sqlite" => Others(x) = {}
    /\ \A y \in Others(x) : signing[y].entries = <<>>
    /\ begun' = begun + 1
    /\ signing' = [signing EXCEPT ![x] =
         [at |-> "generated", id |-> begun + 1, pdf |-> pdf, head |-> 0, sig |-> Unsigned,
          entries |-> <<[kind |-> "generate", of |-> begun + 1]>>]]
    /\ UNCHANGED <<reportDb, sessions, snapshots, chain, reports, bundles, reportKey>>
Generate(x) == \E s \in Sessions : Reportable(s) /\ Inserted(x, Build("session", s, AssembledRows(s), NoAnchor))
GenerateFramework(x) == \E i \in Listed : Inserted(x, Build("framework", i, {}, NoAnchor))

\* Bug: the head is what others can see of the chain.
ChainHead_Committed(x) == Len(chain)
\* The audit reader's Head, read in the same transaction.
ChainHead(x) == Len(chain) + Len(signing[x].entries)
ReadHead(x) ==
    /\ signing[x].at = "generated"
    /\ signing' = [signing EXCEPT ![x].at = "anchored", ![x].head = ChainHead(x)]
    /\ UNCHANGED <<reportDb, sessions, snapshots, chain, reports, bundles, reportKey, begun>>

Signature(x) == [key |-> reportKey, over |-> {signing[x].pdf}, anchor |-> signing[x].head]
\* Only an unsigned row takes a signature; the document stays as it was generated.
Signed(x) ==
    /\ signing[x].at = "anchored" /\ signing[x].sig = Unsigned
    /\ signing' = [signing EXCEPT ![x].at = "signed", ![x].sig = Signature(x),
                                  ![x].entries = Append(signing[x].entries, [kind |-> "sign", of |-> signing[x].id])]
    /\ UNCHANGED <<reportDb, sessions, snapshots, chain, reports, bundles, reportKey, begun>>
Sign(x) == signing[x].at = "anchored" /\ signing[x].pdf.kind = "session" /\ Signed(x)
SignFramework(x) == signing[x].at = "anchored" /\ signing[x].pdf.kind = "framework" /\ Signed(x)

Row(x) == [id |-> signing[x].id, pdf |-> signing[x].pdf, sig |-> signing[x].sig]
\* Bug: the row is committed before it is signed.
GenerateAndSignReport_Split(x) ==
    /\ Open(x)
    /\ reports' = reports \cup {Row(x)} /\ chain' = chain \o signing[x].entries
    /\ signing' = [signing EXCEPT ![x].at = "bundle"]
    /\ UNCHANGED <<reportDb, sessions, snapshots, bundles, reportKey, begun>>
GenerateAndSignReport(x) ==
    /\ signing[x].at = "signed"
    /\ reports' = reports \cup {Row(x)} /\ chain' = chain \o signing[x].entries
    /\ signing' = [signing EXCEPT ![x].at = "bundle"]
    /\ UNCHANGED <<reportDb, sessions, snapshots, bundles, reportKey, begun>>

\* Any step's error ends the transaction and leaves nothing.
GiveUp(x) ==
    /\ Open(x)
    /\ signing' = [signing EXCEPT ![x] = Nothing]
    /\ UNCHANGED <<reportDb, sessions, snapshots, chain, reports, bundles, reportKey, begun>>

--------------------------------------------------------------------------------
(* Bundles. *)

BundleOf(row, key) == [pdf |-> row.pdf, sig |-> row.sig, anchor |-> [seq |-> row.sig.anchor, key |-> row.sig.key], pub |-> key]
BuildBundle(row, key) == IF row.sig = Unsigned THEN {} ELSE {BundleOf(row, key)}
BuildFrameworkBundle(row, key) == BuildBundle(row, key)

\* After the transaction, from the row as it was signed.
HandOut(x) ==
    /\ signing[x].at = "bundle"
    /\ bundles' = bundles \cup IF signing[x].pdf.kind = "session" THEN BuildBundle(Row(x), reportKey)
                               ELSE BuildFrameworkBundle(Row(x), reportKey)
    /\ signing' = [signing EXCEPT ![x] = Nothing]
    /\ UNCHANGED <<reportDb, sessions, snapshots, chain, reports, reportKey, begun>>

\* What may have happened to a bundle since: an entry is gone, or does not parse, or is
\* another.  Of the anchor the tools ask only that it parses: the signature is over the PDF.
Damages == {"none", "noPdf", "noSig", "noAnchor", "noPub", "sigSize", "badPub", "badAnchor",
            "otherPdf", "otherSig", "otherPub", "otherAnchor"}
Verifies(b, damage) == b.sig.key = b.pub /\ b.pdf \in b.sig.over /\ damage \notin {"otherPdf", "otherSig", "otherPub"}
Found(damage) == damage \notin {"noPdf", "noSig", "noAnchor", "noPub"}
NoKey == 0
\* Bug: the key that came with the bundle is good enough.
VerifyBundle_Trusting(b, damage, expected) ==
    IF ~Found(damage) THEN "missing"
    ELSE IF damage = "sigSize" THEN "size"
    ELSE IF damage = "badPub" THEN "pubkey"
    ELSE IF ~Verifies(b, damage) THEN "signature"
    ELSE IF damage = "badAnchor" THEN "anchor"
    ELSE "ok"
VerifyBundle(b, damage, expected) ==
    IF ~Found(damage) THEN "missing"
    ELSE IF damage = "sigSize" THEN "size"
    ELSE IF damage = "badPub" THEN "pubkey"
    ELSE IF expected # NoKey /\ (b.pub # expected \/ damage = "otherPub") THEN "mismatch"
    ELSE IF ~Verifies(b, damage) THEN "signature"
    ELSE IF damage = "badAnchor" THEN "anchor"
    ELSE "ok"
VerifyFrameworkBundle(b, damage, expected) == VerifyBundle(b, damage, expected)
Verdict(b, damage, expected) ==
    IF b.pdf.kind = "session" THEN VerifyBundle(b, damage, expected) ELSE VerifyFrameworkBundle(b, damage, expected)

\* rosshield-server report verify: 1 unreadable, 2 signature or key, 3 anchor.
ServerExit(verdict) ==
    CASE verdict = "ok" -> 0
      [] verdict \in {"signature", "size", "mismatch", "pubkey"} -> 2
      [] verdict = "anchor" -> 3
      [] OTHER -> 1
\* rosshield report verify: an anchor that does not parse is unreadable, 3 is the signature.
CliExit(verdict) ==
    CASE verdict = "ok" -> 0
      [] verdict \in {"signature", "size", "mismatch", "pubkey"} -> 3
      [] OTHER -> 1

\* POST /reports/{id}/verify bundles the row anew with the key of this process.
VerifyReport(row) ==
    IF row.sig = Unsigned THEN "unsigned" ELSE VerifyBundle(BundleOf(row, reportKey), "none", reportKey)

--------------------------------------------------------------------------------
\* The process ends; at the next start a key file that is gone is made anew.
Restart ==
    /\ reportKey' \in {reportKey, reportKey + 1} /\ reportKey' <= MaxKeys
    /\ signing' = [x \in Signers |-> Nothing]
    /\ UNCHANGED <<reportDb, sessions, snapshots, chain, reports, bundles, begun>>

SignerStep(x) ==
    \/ Generate(x) \/ GenerateFramework(x) \/ ReadHead(x) \/ Sign(x) \/ SignFramework(x)
    \/ GenerateAndSignReport(x) \/ GiveUp(x) \/ HandOut(x)
ReportsNext == (\E s \in Sessions : Scan(s)) \/ OtherWork \/ (\E x \in Signers : SignerStep(x)) \/ Restart
ReportsSpec == ReportsInit /\ [][ReportsNext]_reportVars

--------------------------------------------------------------------------------
(* Properties. *)

\* The anchor of a report names an entry of the chain, and not any entry: the one that says
\* the report was generated, with the one that says it was signed right behind it.
AnchorIsItsOwnEntry ==
    \A r \in reports :
        /\ r.sig.anchor \in 1..(Len(chain) - 1)
        /\ chain[r.sig.anchor] = [kind |-> "generate", of |-> r.id]
        /\ chain[r.sig.anchor + 1] = [kind |-> "sign", of |-> r.id]

\* Whatever fails or dies on the way, no row is without its signature and its two entries, and
\* no entry is without its row.
SignedOrNotThere ==
    /\ \A r \in reports : r.sig # Unsigned
    /\ {r.id : r \in reports} = {chain[i].of : i \in {j \in DOMAIN chain : chain[j].kind = "generate"}}
    /\ {r.id : r \in reports} = {chain[i].of : i \in {j \in DOMAIN chain : chain[j].kind = "sign"}}

\* A report is about a session that is over, all of it: what it shows is what is there now.
ReportShowsTheWholeSession ==
    \A r \in reports : r.pdf.kind = "session" =>
        /\ sessions[r.pdf.of].status = "completed"
        /\ r.pdf.rows = sessions[r.pdf.of].results

\* A bundle passes for as long as its document, signature and key are what was handed out, on
\* its own or against the key it was signed with, whatever key the server has by now; against
\* another key, or with any of these replaced or anything missing, it passes with neither tool,
\* and both tools agree.  The anchor is not among them: another that parses passes both.
\* The server itself vouches for the rows of its key.
BundleOutlivesTheKey ==
    /\ \A b \in bundles, d \in Damages, k \in 0..MaxKeys :
         /\ ServerExit(Verdict(b, d, k)) = 0 <=> (d \in {"none", "otherAnchor"} /\ k \in {NoKey, b.sig.key})
         /\ ServerExit(Verdict(b, d, k)) = 0 <=> CliExit(Verdict(b, d, k)) = 0
    /\ \A r \in reports : VerifyReport(r) = "ok" <=> r.sig.key = reportKey

\* bundle.go:40 and handlers/report.go:105: what passes has had its anchor verified too.
OnlyWholeBundlesPass ==
    \A b \in bundles, d \in Damages, k \in 0..MaxKeys : ServerExit(Verdict(b, d, k)) = 0 => d = "none"

\* The document's foot shows the anchor it was signed at (PDFAuditAnchor's comment).
PrintedAnchorIsTheSignedOne ==
    \A r \in reports : r.pdf.anchor = [seq |-> r.sig.anchor, key |-> r.sig.key]

\* A snapshot of the tenant's own profile is found (LoadProfileSnapshot's comment).
OwnedSnapshotIsFound == \A i \in 1..snapshots : i \in Listed

\* A report that can be read is signed, shows its whole session and names its own
\* anchor, and a bundle outlives the key that signed it.
ReportsAreSound ==
    /\ AnchorIsItsOwnEntry
    /\ SignedOrNotThere
    /\ ReportShowsTheWholeSession
    /\ BundleOutlivesTheKey
================================================================================
