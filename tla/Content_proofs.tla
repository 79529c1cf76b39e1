------------------------------ MODULE Content_proofs ------------------------------
(***************************************************************************)
(* Proofs about Reports for any sessions, results, calls under way, keys   *)
(* and entries of others, and about Compliance for any controls, mapping,  *)
(* results, calls and deciders; on either storage.  And about the backups  *)
(* of EvidenceStore for any evidence, contents and crashes, its redaction  *)
(* for any matches in any text, and the packs of PackStore for any         *)
(* releases and users.                                                     *)
(***************************************************************************)
EXTENDS Reports, Compliance, EvidenceStore, PackStore, SequenceTheorems, FiniteSetTheorems, TLAPS

--------------------------------------------------------------------------------
(* The inductive invariant. *)

PdfType == [kind : {"session", "framework"}, of : Sessions \cup Nat,
            rows : SUBSET ReportChecks, anchor : {NoAnchor}]
SigType == [key : Nat, over : SUBSET PdfType, anchor : Nat]
EntryType == [kind : {"generate", "sign", "other"}, of : Nat]
CallType == [at : {"generated", "anchored", "signed", "bundle"}, id : Nat, pdf : PdfType,
             head : Nat, sig : SigType, entries : Seq(EntryType)]
ReportType == [id : Nat, pdf : PdfType, sig : SigType]

ReportsTypeOK ==
    /\ sessions \in [Sessions -> [status : {"running", "completed", "cancelled"},
                                  results : SUBSET ReportChecks]]
    /\ snapshots \in Nat /\ begun \in Nat
    /\ chain \in Seq(EntryType)
    /\ reports \subseteq ReportType
    /\ reportKey \in Nat \ {0}
    /\ signing \in [Signers -> {Nothing} \cup CallType]

\* The entries a report of this id leaves in the chain.
GenerateEntry(id) == [kind |-> "generate", of |-> id]
SignEntry(id) == [kind |-> "sign", of |-> id]

\* A document shows the whole of a session that is over.
Whole(pdf) ==
    pdf.kind = "session" =>
        /\ pdf.of \in Sessions
        /\ sessions[pdf.of].status = "completed"
        /\ pdf.rows = sessions[pdf.of].results

\* A signature of this key over this document, with an anchor.
Fits(sig, pdf, key) == sig.key = key /\ sig.over = {pdf}

\* How far a call has come: what it will write, and where it will write it.
Call(x) ==
    signing[x] # Nothing =>
        /\ Whole(signing[x].pdf)
        /\ signing[x].at \in {"generated", "anchored"} =>
              signing[x].entries = <<GenerateEntry(signing[x].id)>>
        /\ signing[x].at \in {"anchored", "signed"} => signing[x].head = Len(chain) + 1
        /\ signing[x].at = "signed" =>
              /\ signing[x].entries = <<GenerateEntry(signing[x].id), SignEntry(signing[x].id)>>
              /\ signing[x].sig.anchor = Len(chain) + 1
        /\ signing[x].at \in {"signed", "bundle"} => Fits(signing[x].sig, signing[x].pdf, reportKey)
CallInv == \A x \in Signers : Call(x)

\* One call at a time has entries that are not committed.
AloneInv == \A x, y \in Signers : Open(x) /\ Open(y) => x = y

\* A report that is committed has its signature, its document and its two entries.
Anchored(r) ==
    /\ r.sig.anchor \in 1..(Len(chain) - 1)
    /\ chain[r.sig.anchor] = GenerateEntry(r.id)
    /\ chain[r.sig.anchor + 1] = SignEntry(r.id)
RowInv ==
    \A r \in reports : Whole(r.pdf) /\ Anchored(r) /\ r.sig.key # NoKey /\ r.pdf \in r.sig.over

\* No entry is without its report.
EntryInv ==
    \A k \in DOMAIN chain : chain[k].kind \in {"generate", "sign"} =>
        \E r \in reports : r.id = chain[k].of

\* A bundle holds the key that signed it.
BundleInv == \A b \in bundles : b.sig.key = b.pub /\ b.pub # NoKey /\ b.pdf \in b.sig.over
                                /\ b.pdf.kind \in {"session", "framework"}

IInv == ReportsTypeOK /\ CallInv /\ AloneInv /\ RowInv /\ EntryInv /\ BundleInv

--------------------------------------------------------------------------------
(* What a step does. *)

\* A call that is open has a record, and so has one whose report is committed.
LEMMA OpenCall ==
    ASSUME ReportsTypeOK, NEW x \in Signers
    PROVE  /\ Open(x) <=> signing[x] # Nothing /\ signing[x].at # "bundle"
           /\ signing[x].at # "none" => signing[x] # Nothing /\ signing[x] \in CallType
           /\ signing[x] # Nothing => signing[x] \in CallType /\ signing[x].at # "none"
<1>1. signing[x] \in {Nothing} \cup CallType
  BY DEF ReportsTypeOK
<1>2. Nothing.at = "none"
  BY DEF Nothing
<1>3. QED
  BY <1>1, <1>2 DEF Open, CallType

\* A call begins: a document of a whole session, or of a snapshot.
NewCall(id, pdf) == [at |-> "generated", id |-> id, pdf |-> pdf, head |-> 0, sig |-> Unsigned,
                     entries |-> <<GenerateEntry(id)>>]
Begins(x) == /\ signing[x] = Nothing
             /\ \A y \in Signers \ {x} : ~Open(y)
             /\ begun' = begun + 1
             /\ \E pdf \in PdfType : /\ Whole(pdf)
                                     /\ signing' = [signing EXCEPT ![x] = NewCall(begun + 1, pdf)]
             /\ UNCHANGED <<sessions, snapshots, chain, reports, bundles, reportKey>>

\* A call goes on to another place, with its document.
Goes(x, from, to, next) ==
    /\ signing[x].at = from
    /\ next.at = to /\ next.id = signing[x].id /\ next.pdf = signing[x].pdf
    /\ signing' = [signing EXCEPT ![x] = next]
    /\ UNCHANGED <<sessions, snapshots, bundles, reportKey, begun>>
Anchors(x) == /\ \E next \in CallType :
                    /\ Goes(x, "generated", "anchored", next)
                    /\ next.head = Len(chain) + 1 /\ next.entries = signing[x].entries
              /\ UNCHANGED <<chain, reports>>
Signs(x) == /\ \E next \in CallType :
                  /\ Goes(x, "anchored", "signed", next)
                  /\ next.head = signing[x].head /\ next.sig = Signature(x)
                  /\ next.entries = <<GenerateEntry(signing[x].id), SignEntry(signing[x].id)>>
            /\ UNCHANGED <<chain, reports>>
Commits(x) == /\ \E next \in CallType :
                    /\ Goes(x, "signed", "bundle", next)
                    /\ next.sig = signing[x].sig
              /\ reports' = reports \cup {Row(x)}
              /\ chain' = chain \o signing[x].entries
Leaves(x) == /\ signing' = [signing EXCEPT ![x] = Nothing]
             /\ \/ bundles' = bundles
                \/ signing[x].at = "bundle" /\ bundles' = bundles \cup {BundleOf(Row(x), reportKey)}
             /\ UNCHANGED <<sessions, snapshots, chain, reports, reportKey, begun>>

\* The rest of the system: a session goes on that is not over, or anything is audited.
Works(s) == /\ sessions[s].status = "running"
            /\ \E next \in [status : {"running", "completed", "cancelled"}, results : SUBSET ReportChecks] :
                  sessions' = [sessions EXCEPT ![s] = next]
            /\ UNCHANGED <<snapshots, chain, reports, bundles, reportKey, signing, begun>>
Audits == /\ \A x \in Signers : ~Open(x)
          /\ chain' = Append(chain, [kind |-> "other", of |-> 0])
          /\ snapshots' \in {snapshots, snapshots + 1}
          /\ UNCHANGED <<sessions, reports, bundles, reportKey, signing, begun>>

\* A document is one of a whole session, or of a snapshot of the profile.
LEMMA Documents ==
    ASSUME ReportsTypeOK
    PROVE  /\ \A s \in Sessions : Reportable(s) =>
                 /\ Build("session", s, AssembledRows(s), NoAnchor) \in PdfType
                 /\ Whole(Build("session", s, AssembledRows(s), NoAnchor))
           /\ \A i \in Listed :
                 /\ Build("framework", i, {}, NoAnchor) \in PdfType
                 /\ Whole(Build("framework", i, {}, NoAnchor))
<1>1. ASSUME NEW s \in Sessions, Reportable(s)
      PROVE  /\ Build("session", s, AssembledRows(s), NoAnchor) \in PdfType
             /\ Whole(Build("session", s, AssembledRows(s), NoAnchor))
  <2>1. sessions[s].results \in SUBSET ReportChecks
    BY DEF ReportsTypeOK
  <2>2. QED
    BY <1>1, <2>1 DEF Build, AssembledRows, Reportable, PdfType, Whole
<1>2. ASSUME NEW i \in Listed
      PROVE  /\ Build("framework", i, {}, NoAnchor) \in PdfType
             /\ Whole(Build("framework", i, {}, NoAnchor))
  <2>1. i \in Nat
    BY DEF Listed, ReportsTypeOK
  <2>2. QED
    BY <2>1 DEF Build, PdfType, Whole
<1>3. QED
  BY <1>1, <1>2

\* A call begins when no other is open: on SQLite it has the connection, on PostgreSQL the
\* others have entries, and it waits for them.
LEMMA InsertSteps ==
    ASSUME ReportsTypeOK, CallInv, NEW x \in Signers, NEW pdf \in PdfType, Whole(pdf), Inserted(x, pdf)
    PROVE  Begins(x)
<1>1. ASSUME NEW y \in Signers \ {x}, Open(y)
      PROVE  FALSE
  <2>1. y \in Others(x)
    BY <1>1 DEF Others
  <2>2. signing[y].entries = <<>>
    BY <2>1 DEF Inserted
  <2>3. signing[y] \in CallType /\ signing[y] # Nothing /\ signing[y].at # "bundle"
    BY <1>1, OpenCall
  <2>4. signing[y].at \in {"generated", "anchored", "signed"}
    BY <2>3 DEF CallType
  <2>5. signing[y].entries # <<>>
    BY <2>3, <2>4 DEF CallInv, Call
  <2>6. QED
    BY <2>2, <2>5
<1>2. QED
  BY <1>1 DEF Inserted, Begins, NewCall, GenerateEntry

\* The entries of a call, when it signs.
LEMMA OneMore ==
    ASSUME NEW T, NEW p \in Seq(T), NEW q \in Seq(T), NEW b \in T, NEW w, w = Append(p, b),
           Len(p) = 1, Len(q) = 2, q[1] = p[1], q[2] = b
    PROVE  w = q
<1>1. w \in Seq(T)
  BY AppendProperties
<1>2. Len(w) = 2
  <2>1. Len(Append(p, b)) = Len(p) + 1
    BY AppendProperties, Zenon
  <2>2. QED
    BY <2>1
<1>3. w[1] = p[1]
  BY AppendProperties
<1>4. w[2] = b
  BY AppendProperties
<1>5. \A i \in 1..Len(w) : w[i] = q[i]
  BY <1>2, <1>3, <1>4
<1>6. QED
  BY <1>1, <1>2, <1>5, SeqEqual

LEMMA TwoEntries ==
    ASSUME NEW a, NEW b
    PROVE  Append(<<a>>, b) = <<a, b>> /\ Len(<<a>>) = 1
<1> DEFINE T == {a, b}
           p == <<a>>
           q == <<a, b>>
<1>1. p \in Seq(T) /\ q \in Seq(T) /\ Len(p) = 1 /\ Len(q) = 2 /\ q[1] = p[1] /\ q[2] = b /\ b \in T
  OBVIOUS
<1> HIDE DEF p, q, T
<1>2. Append(p, b) = q
  BY <1>1, OneMore
<1>3. QED
  BY <1>1, <1>2 DEF p, q

\* A signature is over the document, by the key of this process, with the anchor that was read.
LEMMA SignatureType ==
    ASSUME ReportsTypeOK, NEW x \in Signers, signing[x] \in CallType
    PROVE  Signature(x) \in SigType
BY DEF ReportsTypeOK, CallType, Signature, SigType

\* The steps of a call that is under way.
LEMMA CallSteps ==
    ASSUME ReportsTypeOK, CallInv, NEW x \in Signers
    PROVE  /\ ReadHead(x) => Anchors(x)
           /\ Signed(x) => Signs(x)
           /\ GenerateAndSignReport(x) => Commits(x)
<1>0. signing \in [Signers -> {Nothing} \cup CallType]
  BY DEF ReportsTypeOK
<1> DEFINE r == signing[x]
<1>1. ASSUME ReadHead(x)
      PROVE  Anchors(x)
  <2> DEFINE head == Len(chain) + 1
             next == [r EXCEPT !.at = "anchored", !.head = head]
  <2>1. r \in CallType /\ r.entries = <<GenerateEntry(r.id)>> /\ r.at = "generated"
    BY <1>1, OpenCall DEF ReadHead, CallInv, Call
  <2>2. ChainHead(x) = head
    BY <2>1, TwoEntries DEF ChainHead
  <2>3. signing' = [signing EXCEPT ![x] = next]
    BY <1>0, <1>1, <2>2 DEF ReadHead
  <2>4. head \in Nat
    BY LenProperties DEF ReportsTypeOK
  <2>5. next \in CallType /\ next.at = "anchored" /\ next.id = r.id /\ next.pdf = r.pdf
        /\ next.head = head /\ next.entries = r.entries
    <3> HIDE DEF r, head
    <3> QED BY <2>1, <2>4 DEF CallType
  <2> HIDE DEF next
  <2>6. QED
    BY <1>1, <2>1, <2>3, <2>5 DEF ReadHead, Anchors, Goes
<1>2. ASSUME Signed(x)
      PROVE  Signs(x)
  <2> DEFINE sig == Signature(x)
             entries == <<GenerateEntry(r.id), SignEntry(r.id)>>
             next == [r EXCEPT !.at = "signed", !.sig = sig, !.entries = entries]
  <2>1. r \in CallType /\ r.entries = <<GenerateEntry(r.id)>> /\ r.at = "anchored"
    BY <1>2, OpenCall DEF Signed, CallInv, Call
  <2>2. Append(r.entries, SignEntry(r.id)) = entries
    <3> HIDE DEF r
    <3> QED BY <2>1, TwoEntries
  <2>3. signing' = [signing EXCEPT ![x] = next]
    BY <1>0, <1>2, <2>2 DEF Signed, SignEntry
  <2>4. sig \in SigType
    BY <2>1, SignatureType
  <2>5. entries \in Seq(EntryType)
    <3> HIDE DEF r
    <3>1. r.id \in Nat
      BY <2>1 DEF CallType
    <3>2. GenerateEntry(r.id) \in EntryType /\ SignEntry(r.id) \in EntryType
      BY <3>1 DEF GenerateEntry, SignEntry, EntryType
    <3> HIDE DEF entries
    <3>3. QED
      BY <3>2 DEF entries
  <2>6. next \in CallType /\ next.at = "signed" /\ next.id = r.id /\ next.pdf = r.pdf
        /\ next.head = r.head /\ next.sig = sig /\ next.entries = entries
    <3> HIDE DEF r, sig, entries
    <3> QED BY <2>1, <2>4, <2>5 DEF CallType
  <2> HIDE DEF next
  <2>7. QED
    BY <1>2, <2>1, <2>3, <2>6 DEF Signed, Signs, Goes
<1>3. ASSUME GenerateAndSignReport(x)
      PROVE  Commits(x)
  <2> DEFINE next == [r EXCEPT !.at = "bundle"]
  <2>1. r \in CallType /\ r.at = "signed"
    BY <1>3, OpenCall DEF GenerateAndSignReport
  <2>2. signing' = [signing EXCEPT ![x] = next]
    BY <1>0, <1>3 DEF GenerateAndSignReport
  <2>3. next \in CallType /\ next.at = "bundle" /\ next.id = r.id /\ next.pdf = r.pdf
        /\ next.sig = r.sig
    <3> HIDE DEF r
    <3> QED BY <2>1 DEF CallType
  <2> HIDE DEF next
  <2>4. QED
    BY <1>3, <2>1, <2>2, <2>3 DEF GenerateAndSignReport, Commits, Goes
<1>4. QED
  BY <1>1, <1>2, <1>3

\* The steps of the rest of the system.
LEMMA OtherSteps ==
    ASSUME ReportsTypeOK
    PROVE  /\ \A s \in Sessions : Scan(s) => Works(s)
           /\ OtherWork => Audits
<1>1. ASSUME NEW s \in Sessions, Scan(s)
      PROVE  Works(s)
  <2> DEFINE SessionType == [status : {"running", "completed", "cancelled"}, results : SUBSET ReportChecks]
  <2>0. sessions \in [Sessions -> SessionType] /\ s \in Sessions
    BY DEF ReportsTypeOK
  <2> DEFINE r == sessions[s]
  <2>r. r \in SessionType
    BY <2>0
  <2>1. \E next \in SessionType : sessions' = [sessions EXCEPT ![s] = next]
    <3>1. ASSUME NEW c \in ReportChecks,
                 sessions' = [sessions EXCEPT ![s].results = sessions[s].results \cup {c}]
          PROVE  \E next \in SessionType : sessions' = [sessions EXCEPT ![s] = next]
      <4> DEFINE more == r.results \cup {c}
                 next == [r EXCEPT !.results = more]
      <4>1. sessions' = [sessions EXCEPT ![s] = next]
        BY <2>0, <3>1
      <4>2. more \in SUBSET ReportChecks
        BY <2>r, <3>1
      <4>3. next \in SessionType
        <5> HIDE DEF r, more
        <5> QED BY <2>r, <4>2
      <4>4. QED
        BY <4>1, <4>3
    <3>2. ASSUME NEW status \in {"completed", "cancelled"},
                 sessions' = [sessions EXCEPT ![s].status = status]
          PROVE  \E next \in SessionType : sessions' = [sessions EXCEPT ![s] = next]
      <4> DEFINE next == [r EXCEPT !.status = status]
      <4>1. sessions' = [sessions EXCEPT ![s] = next]
        BY <2>0, <3>2
      <4>2. next \in SessionType
        <5> HIDE DEF r
        <5> QED BY <2>r, <3>2
      <4>3. QED
        BY <4>1, <4>2
    <3>3. QED
      BY <1>1, <3>1, <3>2 DEF Scan
  <2>2. QED
    BY <1>1, <2>1 DEF Scan, Works, Changing
<1>2. ASSUME OtherWork
      PROVE  Audits
  BY <1>2 DEF OtherWork, Audits, Changing
<1>3. QED
  BY <1>1, <1>2

\* The process ends.
Ends == /\ reportKey' \in {reportKey, reportKey + 1}
        /\ signing' = [x \in Signers |-> Nothing]
        /\ UNCHANGED <<sessions, snapshots, chain, reports, bundles, begun>>

\* The steps of the system.
LEMMA ReportSteps ==
    ASSUME ReportsTypeOK, CallInv, [ReportsNext]_reportVars
    PROVE  \/ \E s \in Sessions : Works(s)
           \/ Audits \/ Ends
           \/ \E x \in Signers : Begins(x) \/ Anchors(x) \/ Signs(x) \/ Commits(x) \/ Leaves(x)
           \/ UNCHANGED reportVars
<1>1. ASSUME NEW x \in Signers, SignerStep(x)
      PROVE  Begins(x) \/ Anchors(x) \/ Signs(x) \/ Commits(x) \/ Leaves(x)
  <2>1. CASE Generate(x) \/ GenerateFramework(x)
    BY <2>1, Documents, InsertSteps DEF Generate, GenerateFramework
  <2>2. CASE ReadHead(x) \/ Sign(x) \/ SignFramework(x) \/ GenerateAndSignReport(x)
    BY <2>2, CallSteps DEF Sign, SignFramework
  <2>3. CASE GiveUp(x)
    BY <2>3 DEF GiveUp, Leaves
  <2>4. CASE HandOut(x)
    BY <2>4 DEF HandOut, BuildFrameworkBundle, BuildBundle, Leaves
  <2>5. QED
    BY <1>1, <2>1, <2>2, <2>3, <2>4 DEF SignerStep
<1>2. Restart => Ends
  BY DEF Restart, Ends
<1>3. QED
  BY <1>1, <1>2, OtherSteps DEF ReportsNext

--------------------------------------------------------------------------------
(* Every step keeps the invariant. *)

LEMMA InitIInv == ReportsInit => IInv
<1> SUFFICES ASSUME ReportsInit PROVE IInv
  OBVIOUS
<1>1. \A x \in Signers : signing[x] = Nothing
  BY DEF ReportsInit
<1>2. ReportsTypeOK
  BY EmptySeq DEF ReportsInit, ReportsTypeOK
<1>3. AloneInv
  BY <1>1 DEF AloneInv, Open, Nothing
<1>4. QED
  BY <1>1, <1>2, <1>3 DEF ReportsInit, IInv, CallInv, Call, RowInv, EntryInv, BundleInv

\* The chain and the rows stay of their types.
LEMMA ChainType ==
    ASSUME ReportsTypeOK, CallInv, [ReportsNext]_reportVars
    PROVE  /\ chain' \in Seq(EntryType) /\ Len(chain) <= Len(chain')
           /\ \A k \in DOMAIN chain : k \in DOMAIN chain' /\ chain'[k] = chain[k]
<1>0. chain \in Seq(EntryType) /\ Len(chain) \in Nat /\ DOMAIN chain = 1..Len(chain)
  BY LenProperties DEF ReportsTypeOK
<1>1. ASSUME UNCHANGED chain
      PROVE  /\ chain' \in Seq(EntryType) /\ Len(chain) <= Len(chain')
             /\ \A k \in DOMAIN chain : k \in DOMAIN chain' /\ chain'[k] = chain[k]
  BY <1>0, <1>1
<1>2. ASSUME NEW more \in Seq(EntryType), chain' = chain \o more
      PROVE  /\ chain' \in Seq(EntryType) /\ Len(chain) <= Len(chain')
             /\ \A k \in DOMAIN chain : k \in DOMAIN chain' /\ chain'[k] = chain[k]
  <2>1. /\ chain' \in Seq(EntryType) /\ Len(chain') = Len(chain) + Len(more) /\ Len(more) \in Nat
        /\ \A i \in 1..Len(chain) + Len(more) :
              chain'[i] = IF i <= Len(chain) THEN chain[i] ELSE more[i - Len(chain)]
    BY <1>0, <1>2, ConcatProperties, LenProperties
  <2>2. DOMAIN chain' = 1..Len(chain')
    BY <2>1, LenProperties
  <2>3. QED
    BY <1>0, <2>1, <2>2
<1>3. ASSUME Audits
      PROVE  /\ chain' \in Seq(EntryType) /\ Len(chain) <= Len(chain')
             /\ \A k \in DOMAIN chain : k \in DOMAIN chain' /\ chain'[k] = chain[k]
  <2> DEFINE e == [kind |-> "other", of |-> 0]
  <2>1. e \in EntryType /\ chain' = Append(chain, e)
    BY <1>3 DEF Audits, EntryType
  <2> HIDE DEF e
  <2>2. /\ chain' \in Seq(EntryType) /\ Len(chain') = Len(chain) + 1
        /\ \A i \in 1..Len(chain) : chain'[i] = chain[i]
    BY <1>0, <2>1, AppendProperties
  <2>3. DOMAIN chain' = 1..Len(chain')
    BY <2>2, LenProperties
  <2>4. QED
    BY <1>0, <2>2, <2>3
<1>4. ASSUME NEW x \in Signers, Commits(x)
      PROVE  signing[x].entries \in Seq(EntryType) /\ chain' = chain \o signing[x].entries
  <2>1. signing[x].at = "signed" /\ chain' = chain \o signing[x].entries
    BY <1>4 DEF Commits, Goes
  <2>2. signing[x] \in CallType
    BY <2>1, OpenCall
  <2>3. QED
    BY <2>1, <2>2 DEF CallType
<1>5. QED
  BY <1>1, <1>2, <1>3, <1>4, ReportSteps
     DEF Works, Ends, Begins, Anchors, Signs, Leaves, Goes, reportVars

LEMMA TypeNext == ReportsTypeOK /\ CallInv /\ [ReportsNext]_reportVars => ReportsTypeOK'
<1> SUFFICES ASSUME ReportsTypeOK, CallInv, [ReportsNext]_reportVars
             PROVE  ReportsTypeOK'
  OBVIOUS
<1>1. chain' \in Seq(EntryType)
  BY ChainType
<1>2. CASE \E s \in Sessions : Works(s)
  BY <1>1, <1>2 DEF ReportsTypeOK, Works
<1>3. CASE Audits
  BY <1>1, <1>3 DEF ReportsTypeOK, Audits
<1>4. CASE Ends
  BY <1>1, <1>4 DEF ReportsTypeOK, Ends
<1>5. ASSUME NEW x \in Signers, Begins(x)
      PROVE  ReportsTypeOK'
  <2>1. PICK pdf \in PdfType : signing' = [signing EXCEPT ![x] = NewCall(begun + 1, pdf)]
    BY <1>5 DEF Begins
  <2>2. NewCall(begun + 1, pdf) \in CallType
    <3> DEFINE id == begun + 1
    <3>1. id \in Nat
      BY DEF ReportsTypeOK
    <3> DEFINE e == GenerateEntry(id)
    <3>2. e \in EntryType
      BY <3>1 DEF GenerateEntry, EntryType
    <3>3. Unsigned \in SigType
      BY DEF Unsigned, SigType
    <3> HIDE DEF id, e
    <3>4. <<e>> \in Seq(EntryType)
      BY <3>2
    <3>5. QED
      BY <3>1, <3>3, <3>4 DEF NewCall, CallType, id, e
  <2> DEFINE new == NewCall(begun + 1, pdf)
  <2> HIDE DEF new
  <2>3. signing' \in [Signers -> {Nothing} \cup CallType]
    <3>1. new \in {Nothing} \cup CallType /\ signing' = [signing EXCEPT ![x] = new]
      BY <2>1, <2>2 DEF new
    <3>2. QED
      BY <3>1 DEF ReportsTypeOK
  <2>4. QED
    BY <1>5, <2>3 DEF ReportsTypeOK, Begins
<1>6. ASSUME NEW x \in Signers, Anchors(x) \/ Signs(x)
      PROVE  ReportsTypeOK'
  BY <1>6 DEF ReportsTypeOK, Anchors, Signs, Goes
<1>7. ASSUME NEW x \in Signers, Commits(x)
      PROVE  ReportsTypeOK'
  <2>1. signing[x].at = "signed"
    BY <1>7 DEF Commits, Goes
  <2>2. signing[x] \in CallType
    BY <2>1, OpenCall
  <2>3. Row(x) \in ReportType
    BY <2>2 DEF Row, ReportType, CallType
  <2>4. QED
    BY <1>1, <1>7, <2>3 DEF ReportsTypeOK, Commits, Goes
<1>8. ASSUME NEW x \in Signers, Leaves(x)
      PROVE  ReportsTypeOK'
  BY <1>8 DEF ReportsTypeOK, Leaves
<1>9. CASE UNCHANGED reportVars
  BY <1>9 DEF ReportsTypeOK, reportVars
<1>10. QED
  BY <1>2, <1>3, <1>4, <1>5, <1>6, <1>7, <1>8, <1>9, ReportSteps

\* A session that is over stays as it is.
LEMMA SessionsStay ==
    ASSUME ReportsTypeOK, CallInv, [ReportsNext]_reportVars, NEW s \in Sessions,
           sessions[s].status = "completed"
    PROVE  sessions'[s] = sessions[s]
BY ReportSteps
   DEF Works, Audits, Ends, Begins, Anchors, Signs, Commits, Leaves, Goes, reportVars, ReportsTypeOK

\* An entry of another kind says nothing of a report, and a call has written none.
LEMMA AloneNext == ReportsTypeOK /\ CallInv /\ AloneInv /\ [ReportsNext]_reportVars => AloneInv'
<1> SUFFICES ASSUME ReportsTypeOK, CallInv, AloneInv, [ReportsNext]_reportVars
             PROVE  AloneInv'
  OBVIOUS
<1>0. signing \in [Signers -> {Nothing} \cup CallType]
  BY DEF ReportsTypeOK
<1>1. CASE UNCHANGED signing
  BY <1>1 DEF AloneInv, Open
<1>2. ASSUME NEW x \in Signers, Begins(x)
      PROVE  AloneInv'
  <2>1. \A y \in Signers \ {x} : ~Open(y) /\ signing'[y] = signing[y]
    BY <1>0, <1>2 DEF Begins
  <2>2. \A y \in Signers \ {x} : ~Open(y)'
    BY <2>1 DEF Open
  <2>3. QED
    BY <2>2 DEF AloneInv
<1>3. ASSUME NEW x \in Signers, Anchors(x) \/ Signs(x) \/ Commits(x)
      PROVE  AloneInv'
  <2>1. Open(x)
    BY <1>3 DEF Open, Anchors, Signs, Commits, Goes
  <2>2. \A y \in Signers \ {x} : ~Open(y) /\ signing'[y] = signing[y]
    BY <1>0, <1>3, <2>1 DEF AloneInv, Anchors, Signs, Commits, Goes
  <2>3. \A y \in Signers \ {x} : ~Open(y)'
    BY <2>2 DEF Open
  <2>4. QED
    BY <2>3 DEF AloneInv
<1>4. ASSUME NEW x \in Signers, Leaves(x)
      PROVE  AloneInv'
  <2>1. signing'[x] = Nothing /\ \A y \in Signers \ {x} : signing'[y] = signing[y]
    BY <1>0, <1>4 DEF Leaves
  <2>2. ~Open(x)' /\ \A y \in Signers \ {x} : Open(y)' => Open(y)
    BY <2>1 DEF Open, Nothing
  <2>3. QED
    BY <2>2 DEF AloneInv
<1>5. CASE Ends
  BY <1>5 DEF AloneInv, Ends, Open, Nothing
<1>6. QED
  BY <1>1, <1>2, <1>3, <1>4, <1>5, ReportSteps DEF Works, Audits, reportVars

\* A call that is not open has no place in the chain any more.
LEMMA CallNext ==
    ReportsTypeOK /\ CallInv /\ AloneInv /\ [ReportsNext]_reportVars => CallInv'
<1> SUFFICES ASSUME ReportsTypeOK, CallInv, AloneInv, [ReportsNext]_reportVars,
                    NEW y \in Signers, signing'[y] # Nothing
             PROVE  Call(y)'
  BY DEF CallInv, Call
<1>0. signing \in [Signers -> {Nothing} \cup CallType] /\ Call(y)
  BY DEF ReportsTypeOK, CallInv
\* A call that a step leaves where it is, with its key and, while it is open, the chain.
<1>1. ASSUME signing'[y] = signing[y], reportKey' = reportKey,
             Open(y) => Len(chain') = Len(chain)
      PROVE  Call(y)'
  <2>1. signing[y] # Nothing /\ signing[y] \in CallType
    BY <1>1, OpenCall
  <2>2. Whole(signing[y].pdf)'
    <3>1. Whole(signing[y].pdf)
      BY <1>0, <2>1 DEF Call
    <3>2. QED
      BY <1>1, <3>1, SessionsStay DEF Whole
  <2>3. QED
    BY <1>0, <1>1, <2>1, <2>2, OpenCall DEF Call, Fits
\* A call that goes on, with its document.
<1>2. ASSUME NEW from, NEW to, NEW next \in CallType, Goes(y, from, to, next), from # "none"
      PROVE  /\ signing'[y] = next /\ signing[y] # Nothing /\ signing[y] \in CallType
             /\ reportKey' = reportKey /\ Whole(signing[y].pdf)'
  <2>1. signing[y].at # "none" /\ signing'[y] = next /\ next.pdf = signing[y].pdf
    BY <1>0, <1>2 DEF Goes
  <2>2. signing[y] # Nothing /\ signing[y] \in CallType
    BY <2>1, OpenCall
  <2>3. Whole(signing[y].pdf)
    BY <1>0, <2>2 DEF Call
  <2>4. QED
    BY <1>2, <2>1, <2>2, <2>3 DEF Whole, Goes
<1>3. CASE \E s \in Sessions : Works(s)
  BY <1>1, <1>3 DEF Works
<1>4. CASE Audits
  BY <1>1, <1>4 DEF Audits
<1>5. CASE Ends
  BY <1>5 DEF Ends
<1>6. CASE UNCHANGED reportVars
  BY <1>1, <1>6 DEF reportVars
<1>7. ASSUME NEW x \in Signers, Begins(x)
      PROVE  Call(y)'
  <2>1. CASE x = y
    <3>1. PICK pdf \in PdfType : Whole(pdf) /\ signing' = [signing EXCEPT ![x] = NewCall(begun + 1, pdf)]
      BY <1>7 DEF Begins
    <3>2. signing'[y] = NewCall(begun + 1, pdf) /\ sessions' = sessions
      BY <1>0, <1>7, <2>1, <3>1 DEF Begins
    <3>3. /\ signing'[y].at = "generated" /\ signing'[y].pdf = pdf
          /\ signing'[y].entries = <<GenerateEntry(signing'[y].id)>>
      BY <3>2 DEF NewCall
    <3>4. Whole(signing[y].pdf)'
      BY <3>1, <3>2, <3>3 DEF Whole
    <3>5. QED
      BY <3>3, <3>4 DEF Call, GenerateEntry
  <2>2. CASE x # y
    BY <1>0, <1>1, <1>7, <2>2 DEF Begins
  <2>3. QED
    BY <2>1, <2>2
<1>8. ASSUME NEW x \in Signers, Leaves(x)
      PROVE  Call(y)'
  <2>1. x # y /\ signing'[y] = signing[y]
    BY <1>0, <1>8 DEF Leaves
  <2>2. QED
    BY <1>1, <1>8, <2>1 DEF Leaves
<1>9. ASSUME NEW x \in Signers \ {y}, Anchors(x) \/ Signs(x)
      PROVE  Call(y)'
  BY <1>0, <1>1, <1>9 DEF Anchors, Signs, Goes
<1>10. ASSUME NEW x \in Signers \ {y}, Commits(x)
       PROVE  Call(y)'
  <2>1. Open(x)
    BY <1>10 DEF Commits, Goes, Open
  <2>2. ~Open(y)
    BY <1>10, <2>1 DEF AloneInv
  <2>3. QED
    BY <1>0, <1>1, <1>10, <2>2 DEF Commits, Goes
<1>11. ASSUME Anchors(y)
       PROVE  Call(y)'
  <2>1. PICK next \in CallType : /\ Goes(y, "generated", "anchored", next)
                                 /\ next.head = Len(chain) + 1 /\ next.entries = signing[y].entries
    BY <1>11 DEF Anchors
  <2>2. signing'[y] = next /\ signing[y] # Nothing /\ Whole(signing[y].pdf)'
    BY <1>2, <2>1
  <2>3. next.at = "anchored" /\ next.id = signing[y].id /\ signing[y].at = "generated" /\ chain' = chain
    BY <1>11, <2>1 DEF Goes, Anchors
  <2>4. signing[y].entries = <<GenerateEntry(signing[y].id)>>
    BY <1>0, <2>2, <2>3 DEF Call
  <2>5. QED
    BY <2>1, <2>2, <2>3, <2>4 DEF Call, GenerateEntry
<1>12. ASSUME Signs(y)
       PROVE  Call(y)'
  <2>1. PICK next \in CallType :
            /\ Goes(y, "anchored", "signed", next)
            /\ next.head = signing[y].head /\ next.sig = Signature(y)
            /\ next.entries = <<GenerateEntry(signing[y].id), SignEntry(signing[y].id)>>
    BY <1>12 DEF Signs
  <2>2. /\ signing'[y] = next /\ signing[y] # Nothing /\ Whole(signing[y].pdf)'
        /\ reportKey' = reportKey
    BY <1>2, <2>1
  <2>3. /\ next.at = "signed" /\ next.id = signing[y].id /\ next.pdf = signing[y].pdf
        /\ signing[y].at = "anchored" /\ chain' = chain
    BY <1>12, <2>1 DEF Goes, Signs
  <2>4. signing[y].head = Len(chain) + 1
    BY <1>0, <2>2, <2>3 DEF Call
  <2>5. next.sig.anchor = Len(chain) + 1 /\ Fits(next.sig, next.pdf, reportKey)
    BY <2>1, <2>3, <2>4 DEF Signature, Fits
  <2>6. QED
    BY <2>1, <2>2, <2>3, <2>4, <2>5 DEF Call, GenerateEntry, SignEntry, Fits
<1>13. ASSUME Commits(y)
       PROVE  Call(y)'
  <2>1. PICK next \in CallType : Goes(y, "signed", "bundle", next) /\ next.sig = signing[y].sig
    BY <1>13 DEF Commits
  <2>2. /\ signing'[y] = next /\ signing[y] # Nothing /\ Whole(signing[y].pdf)'
        /\ reportKey' = reportKey
    BY <1>2, <2>1
  <2>3. next.at = "bundle" /\ next.pdf = signing[y].pdf /\ signing[y].at = "signed"
    BY <2>1 DEF Goes
  <2>4. Fits(signing[y].sig, signing[y].pdf, reportKey)
    BY <1>0, <2>2, <2>3 DEF Call
  <2>5. QED
    BY <2>1, <2>2, <2>3, <2>4 DEF Call, Fits
<1>14. QED
  BY <1>3, <1>4, <1>5, <1>6, <1>7, <1>8, <1>9, <1>10, <1>11, <1>12, <1>13, ReportSteps

\* What a call commits: its two entries behind those of the chain, and its report.
LEMMA Committed ==
    ASSUME ReportsTypeOK, CallInv, NEW x \in Signers, Commits(x)
    PROVE  /\ signing[x] # Nothing /\ signing[x] \in CallType
           /\ Whole(signing[x].pdf) /\ Fits(signing[x].sig, signing[x].pdf, reportKey)
           /\ signing[x].sig.anchor = Len(chain) + 1
           /\ DOMAIN chain' = 1..(Len(chain) + 2) /\ Len(chain') = Len(chain) + 2
           /\ \A k \in 1..Len(chain) : chain'[k] = chain[k]
           /\ chain'[Len(chain) + 1] = GenerateEntry(signing[x].id)
           /\ chain'[Len(chain) + 2] = SignEntry(signing[x].id)
<1>1. signing[x].at = "signed" /\ chain' = chain \o signing[x].entries
  BY DEF Commits, Goes
<1>2. signing[x] # Nothing /\ signing[x] \in CallType
  BY <1>1, OpenCall
<1>3. /\ Whole(signing[x].pdf) /\ Fits(signing[x].sig, signing[x].pdf, reportKey)
      /\ signing[x].sig.anchor = Len(chain) + 1
      /\ signing[x].entries = <<GenerateEntry(signing[x].id), SignEntry(signing[x].id)>>
  BY <1>1, <1>2 DEF CallInv, Call
<1> DEFINE a == GenerateEntry(signing[x].id)
           b == SignEntry(signing[x].id)
           more == signing[x].entries
<1>4. more = <<a, b>> /\ more \in Seq(EntryType)
  BY <1>2, <1>3 DEF CallType
<1> HIDE DEF a, b, more
<1>5. Len(more) = 2 /\ more[1] = a /\ more[2] = b
  BY <1>4
<1>6. chain \in Seq(EntryType) /\ Len(chain) \in Nat
  BY LenProperties DEF ReportsTypeOK
<1>7. /\ chain' \in Seq(EntryType) /\ Len(chain') = Len(chain) + Len(more)
      /\ \A i \in 1..Len(chain) + Len(more) :
            chain'[i] = IF i <= Len(chain) THEN chain[i] ELSE more[i - Len(chain)]
  BY <1>1, <1>4, <1>6, ConcatProperties DEF more
<1>8. DOMAIN chain' = 1..(Len(chain) + 2) /\ Len(chain') = Len(chain) + 2
  BY <1>5, <1>6, <1>7, LenProperties
<1>9. \A k \in 1..Len(chain) : chain'[k] = chain[k]
  BY <1>5, <1>6, <1>7
<1>10. chain'[Len(chain) + 1] = a
  <2>1. chain'[Len(chain) + 1] = more[(Len(chain) + 1) - Len(chain)]
    BY <1>5, <1>6, <1>7
  <2>2. QED
    BY <1>5, <1>6, <2>1
<1>11. chain'[Len(chain) + 2] = b
  <2>1. chain'[Len(chain) + 2] = more[(Len(chain) + 2) - Len(chain)]
    BY <1>5, <1>6, <1>7
  <2>2. QED
    BY <1>5, <1>6, <2>1
<1>12. QED
  BY <1>2, <1>3, <1>8, <1>9, <1>10, <1>11 DEF a, b

LEMMA RowNext == ReportsTypeOK /\ CallInv /\ RowInv /\ [ReportsNext]_reportVars => RowInv'
<1> SUFFICES ASSUME ReportsTypeOK, CallInv, RowInv, [ReportsNext]_reportVars, NEW r \in reports'
             PROVE  Whole(r.pdf)' /\ Anchored(r)' /\ r.sig.key # NoKey /\ r.pdf \in r.sig.over
  BY DEF RowInv
<1>0. chain \in Seq(EntryType) /\ Len(chain) \in Nat /\ DOMAIN chain = 1..Len(chain)
  BY LenProperties DEF ReportsTypeOK
<1>1. CASE r \in reports
  <2>1. Whole(r.pdf) /\ Anchored(r) /\ r.sig.key # NoKey /\ r.pdf \in r.sig.over
    BY <1>1 DEF RowInv
  <2>2. Whole(r.pdf)'
    BY <2>1, SessionsStay DEF Whole
  <2>3. /\ Len(chain) <= Len(chain') /\ Len(chain') \in Nat
        /\ \A k \in 1..Len(chain) : chain'[k] = chain[k]
    BY <1>0, ChainType, LenProperties
  <2>4. r.sig.anchor \in 1..(Len(chain) - 1)
    BY <2>1 DEF Anchored
  <2>5. r.sig.anchor \in 1..Len(chain) /\ r.sig.anchor + 1 \in 1..Len(chain)
    BY <1>0, <2>4
  <2>6. r.sig.anchor \in 1..(Len(chain') - 1)
    BY <1>0, <2>3, <2>4
  <2>7. Anchored(r)'
    BY <2>1, <2>3, <2>5, <2>6 DEF Anchored, GenerateEntry, SignEntry
  <2>8. QED
    BY <2>1, <2>2, <2>7
<1>2. CASE r \notin reports
  <2>1. PICK x \in Signers : Commits(x) /\ reports' = reports \cup {Row(x)}
    BY <1>2, ReportSteps DEF Works, Audits, Ends, Begins, Anchors, Signs, Commits, Leaves, reportVars
  <2>2. r.id = signing[x].id /\ r.pdf = signing[x].pdf /\ r.sig = signing[x].sig /\ sessions' = sessions
    BY <1>2, <2>1 DEF Row, Commits, Goes
  <2>3. r.sig.key # NoKey /\ r.pdf \in r.sig.over
    BY <2>1, <2>2, Committed DEF Fits, NoKey, ReportsTypeOK
  <2>4. Whole(r.pdf)'
    BY <2>1, <2>2, Committed DEF Whole
  <2>5. /\ r.sig.anchor = Len(chain) + 1 /\ Len(chain') = Len(chain) + 2
        /\ chain'[Len(chain) + 1] = GenerateEntry(r.id)
        /\ chain'[Len(chain) + 2] = SignEntry(r.id)
    BY <2>1, <2>2, Committed
  <2>6. r.sig.anchor \in 1..(Len(chain') - 1) /\ r.sig.anchor + 1 = Len(chain) + 2
    BY <1>0, <2>5
  <2>7. Anchored(r)'
    BY <2>5, <2>6 DEF Anchored, GenerateEntry, SignEntry
  <2>8. QED
    BY <2>3, <2>4, <2>7
<1>3. QED
  BY <1>1, <1>2

LEMMA EntryNext == ReportsTypeOK /\ CallInv /\ EntryInv /\ [ReportsNext]_reportVars => EntryInv'
<1> SUFFICES ASSUME ReportsTypeOK, CallInv, EntryInv, [ReportsNext]_reportVars,
                    NEW k \in DOMAIN chain', chain'[k].kind \in {"generate", "sign"}
             PROVE  \E r \in reports' : r.id = chain'[k].of
  BY DEF EntryInv
<1>0. chain \in Seq(EntryType) /\ Len(chain) \in Nat /\ DOMAIN chain = 1..Len(chain)
  BY LenProperties DEF ReportsTypeOK
<1>1. CASE k \in DOMAIN chain
  <2>1. chain'[k] = chain[k]
    BY <1>1, ChainType
  <2>2. reports \subseteq reports'
    BY ReportSteps DEF Works, Audits, Ends, Begins, Anchors, Signs, Commits, Leaves, reportVars
  <2>3. QED
    BY <1>1, <2>1, <2>2 DEF EntryInv
<1>2. CASE k \notin DOMAIN chain
  <2>1. Audits \/ \E x \in Signers : Commits(x)
    BY <1>2, ReportSteps DEF Works, Ends, Begins, Anchors, Signs, Leaves, Goes, reportVars
  <2>2. CASE Audits
    <3> DEFINE e == [kind |-> "other", of |-> 0]
    <3>1. e \in EntryType /\ chain' = Append(chain, e) /\ e.kind = "other"
      BY <2>2 DEF Audits, EntryType
    <3> HIDE DEF e
    <3>2. chain' \in Seq(EntryType) /\ Len(chain') = Len(chain) + 1 /\ chain'[Len(chain) + 1] = e
      BY <1>0, <3>1, AppendProperties
    <3>3. k = Len(chain) + 1
      BY <1>0, <1>2, <3>2, LenProperties
    <3>4. QED
      BY <3>1, <3>2, <3>3
  <2>3. ASSUME NEW x \in Signers, Commits(x)
        PROVE  \E r \in reports' : r.id = chain'[k].of
    <3>1. k = Len(chain) + 1 \/ k = Len(chain) + 2
      BY <1>0, <1>2, <2>3, Committed
    <3>a. chain'[k] = GenerateEntry(signing[x].id) \/ chain'[k] = SignEntry(signing[x].id)
      BY <2>3, <3>1, Committed
    <3>2. chain'[k].of = signing[x].id
      BY <3>a DEF GenerateEntry, SignEntry
    <3>3. Row(x) \in reports' /\ Row(x).id = signing[x].id
      BY <2>3 DEF Commits, Row
    <3>4. QED
      BY <3>2, <3>3
  <2>4. QED
    BY <2>1, <2>2, <2>3
<1>3. QED
  BY <1>1, <1>2

LEMMA BundleNext == ReportsTypeOK /\ CallInv /\ BundleInv /\ [ReportsNext]_reportVars => BundleInv'
<1> SUFFICES ASSUME ReportsTypeOK, CallInv, BundleInv, [ReportsNext]_reportVars, NEW b \in bundles'
             PROVE  /\ b.sig.key = b.pub /\ b.pub # NoKey /\ b.pdf \in b.sig.over
                    /\ b.pdf.kind \in {"session", "framework"}
  BY DEF BundleInv
<1>1. CASE b \in bundles
  BY <1>1 DEF BundleInv
<1>2. CASE b \notin bundles
  <2>1. PICK x \in Signers : signing[x].at = "bundle" /\ b = BundleOf(Row(x), reportKey)
    BY <1>2, ReportSteps
       DEF Works, Audits, Ends, Begins, Anchors, Signs, Commits, Leaves, Goes, reportVars
  <2>2. signing[x] # Nothing /\ signing[x] \in CallType
    BY <2>1, OpenCall
  <2>3. Fits(signing[x].sig, signing[x].pdf, reportKey)
    BY <2>1, <2>2 DEF CallInv, Call
  <2>4. b.pdf = signing[x].pdf /\ b.sig = signing[x].sig /\ b.pub = reportKey
    BY <2>1 DEF BundleOf, Row
  <2>5. signing[x].pdf.kind \in {"session", "framework"}
    BY <2>2 DEF CallType, PdfType
  <2>6. QED
    BY <2>3, <2>4, <2>5 DEF Fits, NoKey, ReportsTypeOK
<1>3. QED
  BY <1>1, <1>2

LEMMA NextIInv == IInv /\ [ReportsNext]_reportVars => IInv'
BY TypeNext, CallNext, AloneNext, RowNext, EntryNext, BundleNext DEF IInv

--------------------------------------------------------------------------------
(* What follows from it. *)

\* A bundle passes when it is whole, and for its own key.
LEMMA VerifyCases ==
    ASSUME NEW b, NEW d \in Damages, NEW k \in Nat,
           b.sig.key = b.pub, b.pub # NoKey, b.pdf \in b.sig.over
    PROVE  VerifyBundle(b, d, k) = "ok" <=> (d \in {"none", "otherAnchor"} /\ k \in {NoKey, b.sig.key})
BY DEF VerifyBundle, Verifies, Damages, Found, NoKey

\* The two tools have an exit of their own for some failures, and 0 for what passes.
LEMMA Exits ==
    ASSUME NEW b, NEW d \in Damages, NEW k \in Nat
    PROVE  /\ ServerExit(VerifyBundle(b, d, k)) = 0 <=> VerifyBundle(b, d, k) = "ok"
           /\ CliExit(VerifyBundle(b, d, k)) = 0 <=> VerifyBundle(b, d, k) = "ok"
<1> DEFINE verdict == VerifyBundle(b, d, k)
<1>1. ServerExit(verdict) = 0 <=> verdict = "ok"
  <2> HIDE DEF verdict
  <2> QED BY DEF ServerExit
<1>2. CliExit(verdict) = 0 <=> verdict = "ok"
  <2> HIDE DEF verdict
  <2> QED BY DEF CliExit
<1>3. QED
  BY <1>1, <1>2

LEMMA IInvSound == IInv => ReportsAreSound
<1> SUFFICES ASSUME IInv PROVE ReportsAreSound
  OBVIOUS
<1>0. chain \in Seq(EntryType) /\ Len(chain) \in Nat /\ DOMAIN chain = 1..Len(chain)
  BY LenProperties DEF IInv, ReportsTypeOK
<1>1. AnchorIsItsOwnEntry
  BY DEF IInv, RowInv, Anchored, GenerateEntry, SignEntry, AnchorIsItsOwnEntry
<1>2. SignedOrNotThere
  <2>1. \A r \in reports : r.sig # Unsigned
    BY DEF IInv, RowInv, Unsigned, NoKey
  <2>2. \A r \in reports : \E i \in DOMAIN chain : chain[i].kind = "generate" /\ chain[i].of = r.id
    <3> SUFFICES ASSUME NEW r \in reports
                 PROVE  \E i \in DOMAIN chain : chain[i].kind = "generate" /\ chain[i].of = r.id
      OBVIOUS
    <3>1. r.sig.anchor \in DOMAIN chain /\ chain[r.sig.anchor] = GenerateEntry(r.id)
      BY <1>0 DEF IInv, RowInv, Anchored
    <3>2. QED
      BY <3>1 DEF GenerateEntry
  <2>3. \A r \in reports : \E i \in DOMAIN chain : chain[i].kind = "sign" /\ chain[i].of = r.id
    <3> SUFFICES ASSUME NEW r \in reports
                 PROVE  \E i \in DOMAIN chain : chain[i].kind = "sign" /\ chain[i].of = r.id
      OBVIOUS
    <3>1. r.sig.anchor + 1 \in DOMAIN chain /\ chain[r.sig.anchor + 1] = SignEntry(r.id)
      BY <1>0 DEF IInv, RowInv, Anchored
    <3>2. QED
      BY <3>1 DEF SignEntry
  <2>4. \A i \in DOMAIN chain : chain[i].kind \in {"generate", "sign"} => \E r \in reports : r.id = chain[i].of
    BY DEF IInv, EntryInv
  <2>5. QED
    BY <2>1, <2>2, <2>3, <2>4 DEF SignedOrNotThere
<1>3. ReportShowsTheWholeSession
  BY DEF IInv, RowInv, Whole, ReportShowsTheWholeSession
<1>4. BundleOutlivesTheKey
  <2>1. ASSUME NEW b \in bundles, NEW d \in Damages, NEW k \in 0..MaxKeys
        PROVE  /\ ServerExit(Verdict(b, d, k)) = 0 <=> (d \in {"none", "otherAnchor"} /\ k \in {NoKey, b.sig.key})
               /\ ServerExit(Verdict(b, d, k)) = 0 <=> CliExit(Verdict(b, d, k)) = 0
    <3>1. b.sig.key = b.pub /\ b.pub # NoKey /\ b.pdf \in b.sig.over /\ k \in Nat
      BY ReportsAssumption DEF IInv, BundleInv
    <3>2. Verdict(b, d, k) = VerifyBundle(b, d, k)
      BY DEF Verdict, VerifyFrameworkBundle
    <3>3. QED
      BY <3>1, <3>2, VerifyCases, Exits
  <2>2. ASSUME NEW r \in reports
        PROVE  VerifyReport(r) = "ok" <=> r.sig.key = reportKey
    <3>1. r.sig.key # NoKey /\ r.pdf \in r.sig.over /\ r.sig # Unsigned
      BY DEF IInv, RowInv, Unsigned, NoKey
    <3>2. reportKey # NoKey
      BY DEF IInv, ReportsTypeOK, NoKey
    <3> DEFINE b == BundleOf(r, reportKey)
    <3>3. b.sig = r.sig /\ b.pdf = r.pdf /\ b.pub = reportKey
      BY DEF BundleOf
    <3>4. VerifyReport(r) = VerifyBundle(b, "none", reportKey)
      BY <3>1 DEF VerifyReport
    <3> HIDE DEF b
    <3>5. VerifyBundle(b, "none", reportKey) = "ok" <=> b.sig.key = b.pub /\ b.pdf \in b.sig.over
      BY <3>2, <3>3 DEF VerifyBundle, Verifies, Found
    <3>6. QED
      BY <3>1, <3>3, <3>4, <3>5
  <2>3. QED
    BY <2>1, <2>2 DEF BundleOutlivesTheKey
<1>5. QED
  BY <1>1, <1>2, <1>3, <1>4 DEF ReportsAreSound

\* A report that can be read is signed, shows the whole of its session and names its own
\* two entries of the chain, no entry is without its report, and a bundle passes with its
\* own key whatever key the server has by now, exactly as long as nothing of it is gone and
\* document, signature and key are those handed out (another anchor that parses is not
\* noticed: bundle.go:208): at any time, on either storage, however many
\* calls of generateAndSign are under way, fail or die (report_signer.go, signer.go).
THEOREM ReportsCorrect == ReportsSpec => []ReportsAreSound
<1>1. ReportsInit => IInv
  BY InitIInv
<1>2. IInv /\ [ReportsNext]_reportVars => IInv'
  BY NextIInv
<1>3. IInv => ReportsAreSound
  BY IInvSound
<1>4. QED
  BY <1>1, <1>2, <1>3, PTL DEF ReportsSpec

--------------------------------------------------------------------------------
(* Compliance: what a score says of the results it was made of. *)

ResultRows == [robot : ScannedRobots, check : MappableChecks, outcome : Outcomes]
Bears(c, rs, outcomes) == \E r \in rs : r.check \in mapped[c] /\ r.outcome \in outcomes
Passed(rs) == {c \in Controls : Bears(c, rs, {"pass"})}
Clean(rs) == {c \in Controls : Bears(c, rs, {"pass"}) /\ ~ Bears(c, rs, Failing)}
Counted(rs) == {c \in Controls : Bears(c, rs, {"pass"}) \/ Bears(c, rs, Failing)}

LEMMA CountOfSome ==
    ASSUME NEW rs, IsFiniteSet(rs), NEW c, NEW outcomes
    PROVE  CountOf(c, rs, outcomes) \in Nat /\ (CountOf(c, rs, outcomes) = 0 <=> ~ Bears(c, rs, outcomes))
  <1> DEFINE S == {r \in rs : r.check \in mapped[c] /\ r.outcome \in outcomes}
  <1>1. IsFiniteSet(S)
    BY FS_Subset
  <1>2. Cardinality(S) \in Nat /\ (Cardinality(S) = 0 <=> S = {})
    BY <1>1, FS_CardinalityType, FS_EmptySet
  <1>3. S = {} <=> ~ Bears(c, rs, outcomes)
    BY DEF Bears
  <1> QED  BY <1>2, <1>3 DEF CountOf

\* A control passes, fails or does both by what its checks' results are.
LEMMA StatusOf ==
    ASSUME NEW rs, IsFiniteSet(rs), NEW c
    PROVE  /\ EvaluateControl(c, rs) = "pass" <=> Bears(c, rs, {"pass"}) /\ ~ Bears(c, rs, Failing)
           /\ EvaluateControl(c, rs) = "partial" <=> Bears(c, rs, {"pass"}) /\ Bears(c, rs, Failing)
           /\ EvaluateControl(c, rs) = "fail" <=> ~ Bears(c, rs, {"pass"}) /\ Bears(c, rs, Failing)
  <1> DEFINE pass == CountOf(c, rs, {"pass"})
             fail == CountOf(c, rs, Failing)
             na == CountOf(c, rs, NotCounted)
  <1>1. /\ pass \in Nat /\ (pass = 0 <=> ~ Bears(c, rs, {"pass"}))
        /\ fail \in Nat /\ (fail = 0 <=> ~ Bears(c, rs, Failing))
        /\ na \in Nat
    BY CountOfSome
  <1>2. EvaluateControl(c, rs) =
          CASE pass + fail + na = 0 -> "unmapped"
            [] pass + fail = 0 /\ na # 0 -> "not_applicable"
            [] pass # 0 /\ fail = 0 -> "pass"
            [] pass = 0 /\ fail # 0 -> "fail"
            [] OTHER -> "partial"
    BY DEF EvaluateControl
  <1> HIDE DEF pass, fail, na
  <1>3. CASE pass = 0 /\ fail = 0
    BY <1>1, <1>2, <1>3
  <1>4. CASE pass = 0 /\ fail # 0
    BY <1>1, <1>2, <1>4
  <1>5. CASE pass # 0 /\ fail = 0
    BY <1>1, <1>2, <1>5
  <1>6. CASE pass # 0 /\ fail # 0
    BY <1>1, <1>2, <1>6
  <1> QED  BY <1>3, <1>4, <1>5, <1>6

LEMMA ControlSets ==
    ASSUME NEW S \in SUBSET Controls
    PROVE  IsFiniteSet(S) /\ Cardinality(S) \in Nat
  BY ComplianceAssumption, FS_Subset, FS_CardinalityType

LEMMA ControlsMore ==
    ASSUME NEW S \in SUBSET Controls, NEW T \in SUBSET S
    PROVE  Cardinality(T) <= Cardinality(S) /\ (Cardinality(T) = Cardinality(S) => T = S)
  <1>1. IsFiniteSet(S)
    BY ControlSets
  <1> QED  BY <1>1, FS_Subset

LEMMA ControlsJoin ==
    ASSUME NEW S \in SUBSET Controls, NEW T \in SUBSET Controls, S \cap T = {}
    PROVE  Cardinality(S \cup T) = Cardinality(S) + Cardinality(T)
  <1>1. IsFiniteSet(S) /\ IsFiniteSet(T)
    BY ControlSets
  <1>2. Cardinality(S \cup T) = Cardinality(S) + Cardinality(T) - Cardinality(S \cap T) /\ Cardinality(S \cap T) = 0
    BY <1>1, FS_Union, FS_EmptySet
  <1>3. Cardinality(S) \in Nat /\ Cardinality(T) \in Nat
    BY ControlSets
  <1> QED  BY <1>2, <1>3

\* A score in terms of the controls that passed and those that failed nothing.
ScoreOf(rs) == ScoreFromStatuses(AggregateControlStatuses(rs))
Halves(rs) == Cardinality(Clean(rs)) + Cardinality(Passed(rs))
LEMMA ScoreIs ==
    ASSUME NEW rs, IsFiniteSet(rs)
    PROVE  ScoreOf(rs) = IF Cardinality(Counted(rs)) = 0 THEN [halves |-> 2, of |-> 1]
                         ELSE [halves |-> Halves(rs), of |-> Cardinality(Counted(rs))]
  <1> DEFINE st == AggregateControlStatuses(rs)
             Pass == {c \in Controls : st[c] = "pass"}
             Partial == {c \in Controls : st[c] = "partial"}
  <1>1. \A c \in Controls : st[c] = EvaluateControl(c, rs)
    BY DEF AggregateControlStatuses
  <1> HIDE DEF st
  <1>2. Pass = Clean(rs)
    BY <1>1, StatusOf DEF Clean
  <1>3. Pass \cup Partial = Passed(rs) /\ Pass \cap Partial = {}
    BY <1>1, StatusOf DEF Passed
  <1>4. {c \in Controls : st[c] \in {"pass", "partial", "fail"}} = Counted(rs)
    BY <1>1, StatusOf DEF Counted
  <1>5. CountStatus(st, "pass") = Cardinality(Pass) /\ CountStatus(st, "partial") = Cardinality(Partial)
    BY DEF CountStatus
  <1>6. Cardinality(Passed(rs)) = Cardinality(Pass) + Cardinality(Partial)
    BY <1>3, ControlsJoin
  <1>7. Cardinality(Pass) \in Nat /\ Cardinality(Partial) \in Nat
    BY ControlSets
  <1>8. 2 * CountStatus(st, "pass") + CountStatus(st, "partial") = Halves(rs)
    <2> DEFINE p == Cardinality(Pass)
               q == Cardinality(Partial)
    <2>1. p \in Nat /\ q \in Nat /\ CountStatus(st, "pass") = p /\ CountStatus(st, "partial") = q
      BY <1>5, <1>7
    <2>2. Halves(rs) = p + (p + q)
      BY <1>2, <1>6 DEF Halves
    <2> HIDE DEF p, q
    <2> QED  BY <2>1, <2>2
  <1>9. ScoreOf(rs) = ScoreFromStatuses(st)
    BY DEF ScoreOf, st
  <1> QED  BY <1>4, <1>8, <1>9 DEF ScoreFromStatuses

LEMMA ScoreParts ==
    ASSUME NEW rs
    PROVE  /\ Cardinality(Clean(rs)) \in Nat /\ Cardinality(Passed(rs)) \in Nat /\ Cardinality(Counted(rs)) \in Nat
           /\ Cardinality(Clean(rs)) <= Cardinality(Counted(rs))
           /\ Cardinality(Passed(rs)) <= Cardinality(Counted(rs))
           /\ Halves(rs) \in Nat /\ Halves(rs) <= 2 * Cardinality(Counted(rs))
  <1>1. Clean(rs) \subseteq Counted(rs) /\ Passed(rs) \subseteq Counted(rs) /\ Counted(rs) \subseteq Controls
    BY DEF Clean, Passed, Counted
  <1>2. Cardinality(Clean(rs)) \in Nat /\ Cardinality(Passed(rs)) \in Nat /\ Cardinality(Counted(rs)) \in Nat
    BY <1>1, ControlSets
  <1>3. Cardinality(Clean(rs)) <= Cardinality(Counted(rs)) /\ Cardinality(Passed(rs)) <= Cardinality(Counted(rs))
    BY <1>1, ControlsMore
  <1> QED  BY <1>2, <1>3 DEF Halves

LEMMA PerfectIsClean ==
    ASSUME NEW rs, IsFiniteSet(rs), ScoreOf(rs).halves = 2 * ScoreOf(rs).of, NEW c \in Controls
    PROVE  ~ Bears(c, rs, Failing)
  <1>1. CASE Cardinality(Counted(rs)) = 0
    <2>1. IsFiniteSet(Counted(rs))
      BY ControlSets DEF Counted
    <2>2. Counted(rs) = {}
      BY <1>1, <2>1, FS_EmptySet
    <2> QED  BY <2>2 DEF Counted
  <1>2. CASE Cardinality(Counted(rs)) # 0
    <2>1. Halves(rs) = 2 * Cardinality(Counted(rs))
      BY <1>2, ScoreIs
    <2>2. Cardinality(Clean(rs)) = Cardinality(Counted(rs))
      BY <2>1, ScoreParts DEF Halves
    <2>3. Counted(rs) \subseteq Controls /\ Clean(rs) \subseteq Counted(rs)
      BY DEF Counted, Clean
    <2>4. Clean(rs) = Counted(rs)
      BY <2>2, <2>3, ControlsMore
    <2> QED  BY <2>4 DEF Clean, Counted
  <1> QED  BY <1>1, <1>2

\* Of two fractions the one with less above and more below is the smaller.
LEMMA LessAboveMoreBelow ==
    ASSUME NEW h \in Nat, NEW o \in Nat, NEW h2 \in Nat, NEW o2 \in Nat, h2 <= h, o <= o2
    PROVE  h2 * o <= h * o2
  <1>1. h2 * o <= h * o
    <2>1. PICK d \in Nat : h = h2 + d
      <3>1. h - h2 \in Nat /\ h = h2 + (h - h2)
        OBVIOUS
      <3> QED  BY <3>1
    <2>2. h * o = h2 * o + d * o /\ d * o \in Nat /\ h2 * o \in Nat
      BY <2>1
    <2> QED  BY <2>2
  <1>2. h * o <= h * o2
    <2>1. PICK d \in Nat : o2 = o + d
      <3>1. o2 - o \in Nat /\ o2 = o + (o2 - o)
        OBVIOUS
      <3> QED  BY <3>1
    <2>2. h * o2 = h * o + h * d /\ h * d \in Nat /\ h * o \in Nat
      BY <2>1
    <2> QED  BY <2>2
  <1>3. h2 * o \in Nat /\ h * o \in Nat /\ h * o2 \in Nat
    OBVIOUS
  <1> QED  BY <1>1, <1>2, <1>3

\* What fails or does not count never raises a score.
LEMMA FailuresDoNotRaise ==
    ASSUME NEW rs, NEW more, IsFiniteSet(rs), IsFiniteSet(more), rs \subseteq more,
           \A r \in more \ rs : r.outcome # "pass"
    PROVE  AtMost(ScoreOf(more), ScoreOf(rs))
  <1>1. \A c : Bears(c, more, {"pass"}) <=> Bears(c, rs, {"pass"})
    BY DEF Bears
  <1>2. \A c : Bears(c, rs, Failing) => Bears(c, more, Failing)
    BY DEF Bears
  <1>3. Passed(more) = Passed(rs) /\ Clean(more) \subseteq Clean(rs) /\ Counted(rs) \subseteq Counted(more)
    BY <1>1, <1>2 DEF Passed, Clean, Counted
  <1>4. Clean(rs) \subseteq Controls /\ Counted(more) \subseteq Controls
    BY DEF Clean, Counted
  <1>5. Cardinality(Clean(more)) <= Cardinality(Clean(rs)) /\ Cardinality(Counted(rs)) <= Cardinality(Counted(more))
    BY <1>3, <1>4, ControlsMore
  <1> DEFINE h == Halves(rs)
             o == Cardinality(Counted(rs))
             h2 == Halves(more)
             o2 == Cardinality(Counted(more))
  <1>6. /\ h \in Nat /\ o \in Nat /\ h2 \in Nat /\ o2 \in Nat
        /\ h <= 2 * o /\ h2 <= 2 * o2 /\ h2 <= h /\ o <= o2
    BY <1>3, <1>5, ScoreParts DEF Halves
  <1>7. /\ ScoreOf(rs) = IF o = 0 THEN [halves |-> 2, of |-> 1] ELSE [halves |-> h, of |-> o]
        /\ ScoreOf(more) = IF o2 = 0 THEN [halves |-> 2, of |-> 1] ELSE [halves |-> h2, of |-> o2]
    BY ScoreIs
  <1> HIDE DEF h, o, h2, o2
  <1>8. CASE o # 0
    <2>1. h2 * o <= h * o2
      BY <1>6, LessAboveMoreBelow
    <2>2. o2 # 0
      BY <1>6, <1>8
    <2> QED  BY <1>7, <1>8, <2>1, <2>2 DEF AtMost
  <1>9. CASE o = 0 /\ o2 # 0
    <2>1. h2 * 1 <= 2 * o2
      BY <1>6
    <2> QED  BY <1>7, <1>9, <2>1 DEF AtMost
  <1>10. CASE o = 0 /\ o2 = 0
    BY <1>7, <1>10 DEF AtMost
  <1> QED  BY <1>8, <1>9, <1>10

\* What passes or does not count never lowers it.
LEMMA PassesDoNotLower ==
    ASSUME NEW rs, NEW more, IsFiniteSet(rs), IsFiniteSet(more), rs \subseteq more,
           \A r \in more \ rs : r.outcome \notin Failing
    PROVE  AtMost(ScoreOf(rs), ScoreOf(more))
  <1>1. \A c : Bears(c, rs, {"pass"}) => Bears(c, more, {"pass"})
    BY DEF Bears
  <1>2. \A c : Bears(c, more, Failing) <=> Bears(c, rs, Failing)
    BY DEF Bears
  <1> DEFINE N == Counted(more) \ Counted(rs)
  <1>3. /\ Counted(more) = Counted(rs) \cup N /\ Counted(rs) \cap N = {}
        /\ Clean(more) = Clean(rs) \cup N /\ Clean(rs) \cap N = {}
        /\ Passed(rs) \cup N \subseteq Passed(more) /\ Passed(rs) \cap N = {}
        /\ Counted(rs) \subseteq Controls /\ Clean(rs) \subseteq Controls /\ Passed(more) \subseteq Controls
        /\ Passed(rs) \subseteq Controls /\ N \subseteq Controls
    BY <1>1, <1>2 DEF Passed, Clean, Counted
  <1> DEFINE n == Cardinality(N)
  <1>4. n \in Nat
    BY <1>3, ControlSets
  <1>5. /\ Cardinality(Counted(more)) = Cardinality(Counted(rs)) + n
        /\ Cardinality(Clean(more)) = Cardinality(Clean(rs)) + n
    BY <1>3, ControlsJoin
  <1>6. Cardinality(Passed(rs)) + n <= Cardinality(Passed(more))
    <2>1. Cardinality(Passed(rs) \cup N) = Cardinality(Passed(rs)) + n
      BY <1>3, ControlsJoin
    <2>2. Cardinality(Passed(rs) \cup N) <= Cardinality(Passed(more))
      BY <1>3, ControlsMore
    <2> QED  BY <2>1, <2>2
  <1> DEFINE h == Halves(rs)
             o == Cardinality(Counted(rs))
             h2 == Halves(more)
             o2 == Cardinality(Counted(more))
  <1> HIDE DEF N, n
  <1>7. /\ h \in Nat /\ o \in Nat /\ h2 \in Nat /\ o2 \in Nat
        /\ h <= 2 * o /\ h2 >= h + 2 * n /\ o2 = o + n
    BY <1>4, <1>5, <1>6, ScoreParts DEF Halves
  <1>8. /\ ScoreOf(rs) = IF o = 0 THEN [halves |-> 2, of |-> 1] ELSE [halves |-> h, of |-> o]
        /\ ScoreOf(more) = IF o2 = 0 THEN [halves |-> 2, of |-> 1] ELSE [halves |-> h2, of |-> o2]
    BY ScoreIs
  <1> HIDE DEF h, o, h2, o2
  <1>9. CASE o # 0
    <2>1. h * o2 <= h2 * o
      <3>1. h * o2 = h * o + h * n /\ h * o \in Nat /\ h * n \in Nat
        BY <1>4, <1>7
      <3>2. h * n <= (2 * n) * o
        <4>1. h * n <= (2 * o) * n
          BY <1>4, <1>7, LessAboveMoreBelow
        <4>2. (2 * o) * n = (2 * n) * o
          BY <1>4, <1>7
        <4> QED  BY <4>1, <4>2
      <3>3. (h + 2 * n) * o <= h2 * o
        BY <1>4, <1>7, LessAboveMoreBelow
      <3>4. (h + 2 * n) * o = h * o + (2 * n) * o
        BY <1>4, <1>7
      <3>5. h * o \in Int /\ h * n \in Int /\ (2 * n) * o \in Int /\ h2 * o \in Int
        BY <1>4, <1>7
      <3> QED  BY <3>1, <3>2, <3>3, <3>4, <3>5
    <2>2. o2 # 0
      BY <1>4, <1>7, <1>9
    <2> QED  BY <1>8, <1>9, <2>1, <2>2 DEF AtMost
  <1>10. CASE o = 0 /\ o2 # 0
    <2>1. h2 >= 2 * o2
      BY <1>4, <1>7, <1>10
    <2>2. 2 * o2 <= h2 * 1
      BY <1>7, <2>1
    <2> QED  BY <1>8, <1>10, <2>2 DEF AtMost
  <1>11. CASE o = 0 /\ o2 = 0
    BY <1>8, <1>11 DEF AtMost
  <1> QED  BY <1>9, <1>10, <1>11

\* Nothing changes what a score says of the same results: the mapping is fixed.
LEMMA ScoreStays ==
    ASSUME NEW rs, mapped' = mapped
    PROVE  ScoreOf(rs)' = ScoreOf(rs)
  BY DEF ScoreOf, ScoreFromStatuses, AggregateControlStatuses, EvaluateControl, CountOf, CountStatus

--------------------------------------------------------------------------------
(* The inductive invariant of the snapshots. *)

TrailType == [kind : {"completed", "profile", "snapshot"}, of : ScanSessions \cup Nat]
ScoreType == [halves : Nat, of : Nat]
SnapType == [id : Nat, session : ScanSessions, results : SUBSET ResultRows, head : Nat, score : ScoreType]
SnappingType == [at : {"read", "anchored"}, id : Nat, session : ScanSessions,
                 results : SUBSET ResultRows, head : Nat]

SnapshotsTypeOK ==
    /\ scanned \in [ScanSessions -> SUBSET ResultRows]
    /\ \A s \in ScanSessions : IsFiniteSet(scanned[s])
    /\ trail \in Seq(TrailType)
    /\ snaps \subseteq SnapType
    /\ snapped \in Nat
    /\ snapping \in [Snappers -> {Idle} \cup SnappingType]

SnapshotEntry(id) == [kind |-> "snapshot", of |-> id]
CompletedEntry(s) == [kind |-> "completed", of |-> s]

\* A score is that of finitely many results, and a call under way has read finitely many.
SnapshotsAreScored ==
    /\ \A t \in snaps : IsFiniteSet(t.results) /\ t.score = ScoreOf(t.results)
    /\ \A y \in Snappers : snapping[y] # Idle => IsFiniteSet(snapping[y].results)

\* Every call has an id of its own, which the trail does not hold before it inserts.
CallsHaveTheirIds ==
    /\ \A i \in 1..Len(trail) : trail[i].kind = "snapshot" => trail[i].of \in 1..snapped
    /\ \A y \in Snappers : snapping[y] # Idle =>
         /\ snapping[y].id \in 1..snapped
         /\ \A i \in 1..Len(trail) : trail[i] # SnapshotEntry(snapping[y].id)
         /\ \A z \in Snappers \ {y} : snapping[z] # Idle => snapping[z].id # snapping[y].id
         /\ snapping[y].head <= Len(trail)

\* A completed session is over.
CompletedIsEnded ==
    \A i \in 1..Len(trail) : trail[i].kind = "completed" => trail[i].of \in ended

\* On SQLite one call is under way at a time and nothing happens beside it.
CallsAreAlone ==
    complianceDb = "sqlite" =>
        \A y \in Snappers : snapping[y] # Idle =>
            /\ \A z \in Snappers \ {y} : snapping[z] = Idle
            /\ snapping[y].results = scanned[snapping[y].session]
            /\ snapping[y].at = "anchored" => snapping[y].head = Len(trail)

\* The one entry of a snapshot lies behind its anchor.
EntryOf(t, i) ==
    /\ trail[i] = SnapshotEntry(t.id) /\ t.head < i
    /\ \A j \in 1..Len(trail) : trail[j] = SnapshotEntry(t.id) => j = i
    /\ complianceDb = "sqlite" => t.head = i - 1
WholeIfOver(t) ==
    (complianceDb = "sqlite" /\ \E j \in 1..t.head : trail[j] = CompletedEntry(t.session)) =>
        t.results = scanned[t.session]
SnapshotsHaveTheirEntries ==
    \A t \in snaps : (\E i \in 1..Len(trail) : EntryOf(t, i)) /\ WholeIfOver(t)

SnapshotsInv ==
    /\ SnapshotsTypeOK
    /\ SnapshotsAreScored
    /\ CallsHaveTheirIds
    /\ CompletedIsEnded
    /\ CallsAreAlone
    /\ SnapshotsHaveTheirEntries

LEMMA SnapshotsInvInit == ComplianceInit => SnapshotsInv
  <1> SUFFICES ASSUME ComplianceInit PROVE SnapshotsInv
    OBVIOUS
  <1>1. /\ scanned = [s \in ScanSessions |-> {}] /\ trail = <<>> /\ snaps = {} /\ snapped = 0
        /\ snapping = [y \in Snappers |-> Idle]
    BY DEF ComplianceInit
  <1>2. trail \in Seq(TrailType) /\ Len(trail) = 0
    BY <1>1
  <1>3. SnapshotsTypeOK
    BY <1>1, <1>2, FS_EmptySet DEF SnapshotsTypeOK
  <1>4. SnapshotsAreScored /\ CallsHaveTheirIds /\ CompletedIsEnded /\ CallsAreAlone /\ SnapshotsHaveTheirEntries
    BY <1>1, <1>2 DEF SnapshotsAreScored, CallsHaveTheirIds, CompletedIsEnded, CallsAreAlone, SnapshotsHaveTheirEntries
  <1> QED  BY <1>3, <1>4 DEF SnapshotsInv

\* A step that records no result, begins, ends and changes no call, and appends at most one
\* entry that is no snapshot's: CompleteScan and CreateProfile.
LEMMA TrailGrows ==
    ASSUME SnapshotsInv, NobodySnaps, NEW e \in TrailType, e.kind # "snapshot",
           e.kind = "completed" => e.of \in ended', ended \subseteq ended', trail' = Append(trail, e),
           UNCHANGED <<complianceDb, mapped, scanned, snaps, snapping, snapped>>
    PROVE  SnapshotsInv'
  <1> USE DEF SnapshotsInv
  <1> DEFINE n == Len(trail)
  <1>1. /\ trail \in Seq(TrailType) /\ n \in Nat
        /\ trail' \in Seq(TrailType) /\ Len(trail') = n + 1 /\ trail'[n + 1] = e
        /\ \A i \in 1..n : trail'[i] = trail[i] /\ i \in 1..Len(trail')
        /\ \A i \in 1..Len(trail') : i \in 1..n \/ i = n + 1
    BY AppendProperties DEF SnapshotsTypeOK
  <1>2. \A id : e # SnapshotEntry(id)
    BY DEF SnapshotEntry
  <1> HIDE DEF n
  <1>3. SnapshotsTypeOK'
    BY <1>1 DEF SnapshotsTypeOK
  <1>4. SnapshotsAreScored'
    <2>1. \A t \in snaps : ScoreOf(t.results)' = ScoreOf(t.results)
      BY ScoreStays
    <2> QED  BY <2>1 DEF SnapshotsAreScored
  <1>5. CallsHaveTheirIds'
    <2>1. \A y \in Snappers : snapping[y] # Idle => snapping[y].head \in Nat
      BY DEF SnapshotsTypeOK, SnappingType
    <2>2. \A y \in Snappers : snapping[y] # Idle => snapping[y].head <= n + 1
      BY <1>1, <2>1 DEF CallsHaveTheirIds, n
    <2> QED  BY <1>1, <1>2, <2>2 DEF CallsHaveTheirIds, n
  <1>6. CompletedIsEnded'
    BY <1>1 DEF CompletedIsEnded, n
  <1>7. CallsAreAlone'
    BY DEF CallsAreAlone, NobodySnaps
  <1>8. SnapshotsHaveTheirEntries'
    <2> SUFFICES ASSUME NEW t \in snaps
                 PROVE  (\E i \in 1..Len(trail)' : EntryOf(t, i)') /\ WholeIfOver(t)'
      BY DEF SnapshotsHaveTheirEntries
    <2>1. PICK i \in 1..n : EntryOf(t, i)
      BY DEF SnapshotsHaveTheirEntries, n
    <2>2. t.head \in Nat
      BY DEF SnapshotsTypeOK, SnapType
    <2>3. EntryOf(t, i)'
      BY <1>1, <1>2, <2>1 DEF EntryOf, n
    <2>4. \A j \in 1..t.head : j \in 1..n
      BY <1>1, <2>1, <2>2 DEF EntryOf
    <2>5. WholeIfOver(t)'
      BY <1>1, <2>4 DEF WholeIfOver, SnapshotsHaveTheirEntries
    <2> QED  BY <1>1, <2>3, <2>5
  <1> QED  BY <1>3, <1>4, <1>5, <1>6, <1>7, <1>8

LEMMA RecordResultKeeps ==
    ASSUME SnapshotsInv, NEW s \in ScanSessions, RecordResult(s)
    PROVE  SnapshotsInv'
  <1> USE DEF SnapshotsInv
  <1>1. /\ NobodySnaps /\ s \notin ended
        /\ UNCHANGED <<complianceDb, mapped, profile, ended, trail, snaps, snapping, snapped>>
    BY DEF RecordResult
  <1>2. PICK r \in ResultRows : scanned' = [scanned EXCEPT ![s] = scanned[s] \cup {r}]
    <2>1. PICK p \in (ScannedRobots \X MappableChecks) \ Judged(s), o \in Outcomes :
            scanned' = [scanned EXCEPT ![s] = scanned[s] \cup {[robot |-> p[1], check |-> p[2], outcome |-> o]}]
      BY DEF RecordResult
    <2>2. [robot |-> p[1], check |-> p[2], outcome |-> o] \in ResultRows
      BY DEF ResultRows
    <2> QED  BY <2>1, <2>2
  <1>3. /\ scanned' \in [ScanSessions -> SUBSET ResultRows]
        /\ \A q \in ScanSessions : q # s => scanned'[q] = scanned[q]
        /\ scanned'[s] = scanned[s] \cup {r}
    BY <1>2 DEF SnapshotsTypeOK
  <1>4. IsFiniteSet(scanned[s] \cup {r})
    BY FS_AddElement DEF SnapshotsTypeOK
  <1>5. SnapshotsTypeOK'
    BY <1>1, <1>3, <1>4 DEF SnapshotsTypeOK
  <1>6. SnapshotsAreScored'
    <2>1. \A t \in snaps : ScoreOf(t.results)' = ScoreOf(t.results)
      BY <1>1, ScoreStays
    <2> QED  BY <1>1, <2>1 DEF SnapshotsAreScored
  <1>7. CallsHaveTheirIds' /\ CompletedIsEnded'
    BY <1>1 DEF CallsHaveTheirIds, CompletedIsEnded
  <1>8. CallsAreAlone'
    BY <1>1 DEF CallsAreAlone, NobodySnaps
  <1>9. SnapshotsHaveTheirEntries'
    <2> SUFFICES ASSUME NEW t \in snaps
                 PROVE  (\E i \in 1..Len(trail) : EntryOf(t, i)') /\ WholeIfOver(t)'
      BY <1>1 DEF SnapshotsHaveTheirEntries
    <2>1. PICK i \in 1..Len(trail) : EntryOf(t, i)
      BY DEF SnapshotsHaveTheirEntries
    <2>2. EntryOf(t, i)'
      BY <1>1, <2>1 DEF EntryOf
    <2>3. ASSUME complianceDb = "sqlite", NEW j \in 1..t.head, trail[j] = CompletedEntry(t.session)
          PROVE  t.results = scanned'[t.session]
      <3>1. t.results = scanned[t.session] /\ t.head \in Nat /\ t.session \in ScanSessions
        BY <2>3 DEF SnapshotsHaveTheirEntries, WholeIfOver, SnapshotsTypeOK, SnapType
      <3>2. j \in 1..Len(trail)
        BY <2>1, <3>1 DEF EntryOf
      <3>3. trail[j].kind = "completed" /\ trail[j].of = t.session
        BY <2>3 DEF CompletedEntry
      <3>4. t.session \in ended
        BY <3>2, <3>3 DEF CompletedIsEnded
      <3> QED  BY <1>1, <1>3, <3>1, <3>4
    <2> QED  BY <1>1, <2>2, <2>3 DEF WholeIfOver
  <1> QED  BY <1>5, <1>6, <1>7, <1>8, <1>9

LEMMA CompleteScanKeeps ==
    ASSUME SnapshotsInv, NEW s \in ScanSessions, CompleteScan(s)
    PROVE  SnapshotsInv'
  <1> DEFINE e == [kind |-> "completed", of |-> s]
  <1>1. e \in TrailType /\ e.kind = "completed" /\ e.of = s
    BY DEF TrailType
  <1>2. /\ NobodySnaps /\ ended' = ended \cup {s} /\ trail' = Append(trail, e)
        /\ UNCHANGED <<complianceDb, mapped, profile, scanned, snaps, snapping, snapped>>
    BY DEF CompleteScan
  <1> HIDE DEF e
  <1> QED  BY <1>1, <1>2, TrailGrows

LEMMA CreateProfileKeeps ==
    ASSUME SnapshotsInv, CreateProfile
    PROVE  SnapshotsInv'
  <1> DEFINE e == [kind |-> "profile", of |-> 0]
  <1>1. e \in TrailType /\ e.kind = "profile"
    BY DEF TrailType
  <1>2. /\ NobodySnaps /\ trail' = Append(trail, e)
        /\ UNCHANGED <<complianceDb, mapped, scanned, ended, snaps, snapping, snapped>>
    BY DEF CreateProfile
  <1> HIDE DEF e
  <1> QED  BY <1>1, <1>2, TrailGrows

\* A step of one call that leaves the rows, the trail and the results alone.
LEMMA CallMoves ==
    ASSUME SnapshotsInv, NEW y \in Snappers, NEW v \in {Idle} \cup SnappingType,
           snapping' = [snapping EXCEPT ![y] = v], snapped' \in Nat, snapped' >= snapped,
           UNCHANGED <<complianceDb, mapped, scanned, ended, trail, snaps>>,
           v # Idle =>
             /\ IsFiniteSet(v.results)
             /\ v.id \in 1..snapped' /\ v.head <= Len(trail)
             /\ \A i \in 1..Len(trail) : trail[i] # SnapshotEntry(v.id)
             /\ \A z \in Snappers \ {y} : snapping[z] # Idle => snapping[z].id # v.id
             /\ complianceDb = "sqlite" =>
                  /\ \A z \in Snappers \ {y} : snapping[z] = Idle
                  /\ v.results = scanned[v.session]
                  /\ v.at = "anchored" => v.head = Len(trail)
    PROVE  SnapshotsInv'
  <1> USE DEF SnapshotsInv
  <1>1. /\ snapping' \in [Snappers -> {Idle} \cup SnappingType] /\ snapping'[y] = v
        /\ \A z \in Snappers : z # y => snapping'[z] = snapping[z]
    BY DEF SnapshotsTypeOK
  <1>2. SnapshotsTypeOK'
    BY <1>1 DEF SnapshotsTypeOK
  <1>3. SnapshotsAreScored'
    <2>1. \A t \in snaps : ScoreOf(t.results)' = ScoreOf(t.results)
      BY ScoreStays
    <2> QED  BY <1>1, <2>1 DEF SnapshotsAreScored
  <1>4. CallsHaveTheirIds'
    <2>1. \A n \in 1..snapped : n \in 1..snapped'
      BY DEF SnapshotsTypeOK
    <2> QED  BY <1>1, <2>1 DEF CallsHaveTheirIds
  <1>5. CompletedIsEnded'
    BY DEF CompletedIsEnded
  <1>6. CallsAreAlone'
    BY <1>1 DEF CallsAreAlone
  <1>7. SnapshotsHaveTheirEntries'
    BY DEF SnapshotsHaveTheirEntries, EntryOf, WholeIfOver
  <1> QED  BY <1>2, <1>3, <1>4, <1>5, <1>6, <1>7

LEMMA ListResultsKeeps ==
    ASSUME SnapshotsInv, NEW y \in Snappers, ListResultsForSession(y)
    PROVE  SnapshotsInv'
  <1> USE DEF SnapshotsInv
  <1>1. PICK s \in ScanSessions :
          snapping' = [snapping EXCEPT ![y] = [at |-> "read", id |-> snapped + 1, session |-> s,
                                               results |-> scanned[s], head |-> 0]]
    BY DEF ListResultsForSession
  <1> DEFINE v == [at |-> "read", id |-> snapped + 1, session |-> s, results |-> scanned[s], head |-> 0]
  <1>2. snapped \in Nat /\ scanned[s] \in SUBSET ResultRows /\ IsFiniteSet(scanned[s]) /\ Len(trail) \in Nat
    BY DEF SnapshotsTypeOK
  <1>3. /\ v \in SnappingType /\ v.id = snapped + 1 /\ v.head = 0 /\ v.at = "read"
        /\ v.session = s /\ v.results = scanned[s]
    BY <1>2 DEF SnappingType
  <1>4. snapping' = [snapping EXCEPT ![y] = v]
    BY <1>1
  <1> HIDE DEF v
  <1>5. /\ snapping[y] = Idle /\ Free(y) /\ snapped' = snapped + 1
        /\ UNCHANGED <<complianceDb, mapped, profile, scanned, ended, trail, snaps>>
    BY DEF ListResultsForSession
  <1>6. \A i \in 1..Len(trail) : trail[i] # SnapshotEntry(v.id)
    BY <1>2, <1>3 DEF CallsHaveTheirIds, SnapshotEntry
  <1>7. \A z \in Snappers \ {y} : snapping[z] # Idle => snapping[z].id # v.id
    BY <1>2, <1>3 DEF CallsHaveTheirIds
  <1>8. v.id \in 1..snapped' /\ v.head <= Len(trail)
    BY <1>2, <1>3, <1>5
  <1>9. complianceDb = "sqlite" => \A z \in Snappers \ {y} : snapping[z] = Idle
    BY <1>5 DEF Free
  <1>10. v # Idle =>
          /\ IsFiniteSet(v.results)
          /\ v.id \in 1..snapped' /\ v.head <= Len(trail)
          /\ \A i \in 1..Len(trail) : trail[i] # SnapshotEntry(v.id)
          /\ \A z \in Snappers \ {y} : snapping[z] # Idle => snapping[z].id # v.id
          /\ complianceDb = "sqlite" =>
               /\ \A z \in Snappers \ {y} : snapping[z] = Idle
               /\ v.results = scanned[v.session]
               /\ v.at = "anchored" => v.head = Len(trail)
    BY <1>2, <1>3, <1>6, <1>7, <1>8, <1>9
  <1>11. snapped' \in Nat /\ snapped' >= snapped /\ v \in {Idle} \cup SnappingType
    BY <1>2, <1>3, <1>5
  <1> QED  BY <1>4, <1>5, <1>10, <1>11, CallMoves

LEMMA HeadOfKeeps ==
    ASSUME SnapshotsInv, NEW y \in Snappers, HeadOf(y)
    PROVE  SnapshotsInv'
  <1> USE DEF SnapshotsInv
  <1> DEFINE c == snapping[y]
             v == [c EXCEPT !.at = "anchored", !.head = Len(trail)]
  <1>1. c \in SnappingType /\ c # Idle /\ Len(trail) \in Nat
    BY DEF HeadOf, SnapshotsTypeOK, Idle
  <1>2. /\ snapping' = [snapping EXCEPT ![y] = v]
        /\ UNCHANGED <<complianceDb, mapped, profile, scanned, ended, trail, snaps, snapped>>
    BY DEF HeadOf
  <1>3. /\ IsFiniteSet(c.results) /\ c.id \in 1..snapped
        /\ \A i \in 1..Len(trail) : trail[i] # SnapshotEntry(c.id)
        /\ \A z \in Snappers \ {y} : snapping[z] # Idle => snapping[z].id # c.id
        /\ complianceDb = "sqlite" =>
             (\A z \in Snappers \ {y} : snapping[z] = Idle) /\ c.results = scanned[c.session]
    BY <1>1 DEF SnapshotsAreScored, CallsHaveTheirIds, CallsAreAlone
  <1> HIDE DEF c
  <1>4. /\ v \in SnappingType /\ v.id = c.id /\ v.head = Len(trail)
        /\ v.session = c.session /\ v.results = c.results
    BY <1>1 DEF SnappingType
  <1> HIDE DEF v
  <1>5. v # Idle =>
          /\ IsFiniteSet(v.results)
          /\ v.id \in 1..snapped' /\ v.head <= Len(trail)
          /\ \A i \in 1..Len(trail) : trail[i] # SnapshotEntry(v.id)
          /\ \A z \in Snappers \ {y} : snapping[z] # Idle => snapping[z].id # v.id
          /\ complianceDb = "sqlite" =>
               /\ \A z \in Snappers \ {y} : snapping[z] = Idle
               /\ v.results = scanned[v.session]
               /\ v.at = "anchored" => v.head = Len(trail)
    BY <1>1, <1>2, <1>3, <1>4
  <1>6. snapped' \in Nat /\ snapped' >= snapped /\ v \in {Idle} \cup SnappingType
    BY <1>2, <1>4 DEF SnapshotsTypeOK
  <1> QED  BY <1>2, <1>5, <1>6, CallMoves

LEMMA AbandonKeeps ==
    ASSUME SnapshotsInv, NEW y \in Snappers, AbandonSnapshot(y)
    PROVE  SnapshotsInv'
  <1>1. /\ snapping' = [snapping EXCEPT ![y] = Idle]
        /\ UNCHANGED <<complianceDb, mapped, profile, scanned, ended, trail, snaps, snapped>>
    BY DEF AbandonSnapshot
  <1>2. snapped' \in Nat /\ snapped' >= snapped
    BY <1>1 DEF SnapshotsInv, SnapshotsTypeOK
  <1> QED  BY <1>1, <1>2, CallMoves

LEMMA GenerateSnapshotKeeps ==
    ASSUME SnapshotsInv, NEW y \in Snappers, GenerateSnapshot(y)
    PROVE  SnapshotsInv'
  <1> USE DEF SnapshotsInv
  <1> DEFINE c == snapping[y]
             row == Snapshot(y)
             e == [kind |-> "snapshot", of |-> row.id]
             n == Len(trail)
  <1>1. c \in SnappingType /\ c # Idle /\ c.at = "anchored"
    BY DEF GenerateSnapshot, Inserting, SnapshotsTypeOK, Idle
  <1>2. /\ snaps' = snaps \cup {row} /\ trail' = Append(trail, e)
        /\ snapping' = [snapping EXCEPT ![y] = Idle]
        /\ UNCHANGED <<complianceDb, mapped, profile, scanned, ended, snapped>>
    BY DEF GenerateSnapshot, Inserting
  <1>3. row = [id |-> c.id, session |-> c.session, results |-> c.results, head |-> c.head,
               score |-> ScoreOf(c.results)]
    BY DEF Snapshot, ScoreOf
  <1>4. /\ IsFiniteSet(c.results) /\ c.id \in 1..snapped /\ c.head <= n
        /\ \A i \in 1..n : trail[i] # SnapshotEntry(c.id)
        /\ \A z \in Snappers \ {y} : snapping[z] # Idle => snapping[z].id # c.id
        /\ complianceDb = "sqlite" =>
             /\ \A z \in Snappers \ {y} : snapping[z] = Idle
             /\ c.results = scanned[c.session] /\ c.head = n
    BY <1>1 DEF SnapshotsAreScored, CallsHaveTheirIds, CallsAreAlone
  <1> HIDE DEF c
  <1>5. ScoreOf(c.results) \in ScoreType
    <2>1. Halves(c.results) \in Nat /\ Cardinality(Counted(c.results)) \in Nat
      BY ScoreParts
    <2> QED  BY <1>4, <2>1, ScoreIs DEF ScoreType
  <1>6. c.id \in Nat /\ c.session \in ScanSessions /\ c.results \in SUBSET ResultRows /\ c.head \in Nat
    BY <1>1 DEF SnappingType
  <1>7. /\ row \in SnapType /\ row.id = c.id /\ row.session = c.session /\ row.results = c.results
        /\ row.head = c.head /\ row.score = ScoreOf(c.results)
    BY <1>3, <1>5, <1>6 DEF SnapType
  <1> HIDE DEF row
  <1>8. e \in TrailType /\ e.kind = "snapshot" /\ e = SnapshotEntry(c.id) /\ e.of = c.id
    BY <1>6, <1>7 DEF TrailType, SnapshotEntry
  <1>9. \A id : e = SnapshotEntry(id) => id = c.id
    BY <1>7 DEF SnapshotEntry
  <1> HIDE DEF e
  <1>10. /\ trail \in Seq(TrailType) /\ n \in Nat
         /\ trail' \in Seq(TrailType) /\ Len(trail') = n + 1 /\ trail'[n + 1] = e
         /\ \A i \in 1..n : trail'[i] = trail[i] /\ i \in 1..Len(trail')
         /\ \A i \in 1..Len(trail') : i \in 1..n \/ i = n + 1
    BY <1>2, <1>8, AppendProperties DEF SnapshotsTypeOK
  <1>11. /\ snapping' \in [Snappers -> {Idle} \cup SnappingType] /\ snapping'[y] = Idle
         /\ \A z \in Snappers : z # y => snapping'[z] = snapping[z]
    BY <1>2 DEF SnapshotsTypeOK
  <1>12. SnapshotsTypeOK'
    BY <1>2, <1>7, <1>10, <1>11 DEF SnapshotsTypeOK
  <1>13. SnapshotsAreScored'
    <2>1. \A rs : ScoreOf(rs)' = ScoreOf(rs)
      BY <1>2, ScoreStays
    <2>2. \A t \in snaps' : IsFiniteSet(t.results) /\ t.score = ScoreOf(t.results)'
      BY <1>2, <1>4, <1>7, <2>1 DEF SnapshotsAreScored
    <2> QED  BY <1>11, <2>2 DEF SnapshotsAreScored
  <1>14. CallsHaveTheirIds'
    <2>1. \A z \in Snappers : snapping[z] # Idle => snapping[z].head \in Nat
      BY DEF SnapshotsTypeOK, SnappingType
    <2>2. \A z \in Snappers : snapping[z] # Idle => snapping[z].head <= n + 1
      BY <1>10, <2>1 DEF CallsHaveTheirIds
    <2>3. \A z \in Snappers : snapping'[z] # Idle =>
            z # y /\ \A i \in 1..Len(trail') : trail'[i] # SnapshotEntry(snapping'[z].id)
      BY <1>4, <1>9, <1>10, <1>11 DEF CallsHaveTheirIds
    <2>4. \A i \in 1..Len(trail') : trail'[i].kind = "snapshot" => trail'[i].of \in 1..snapped
      BY <1>4, <1>8, <1>10 DEF CallsHaveTheirIds
    <2>5. \A z \in Snappers : snapping'[z] # Idle =>
            /\ snapping'[z].id \in 1..snapped' /\ snapping'[z].head <= Len(trail')
            /\ \A x \in Snappers \ {z} : snapping'[x] # Idle => snapping'[x].id # snapping'[z].id
      BY <1>2, <1>10, <1>11, <2>2 DEF CallsHaveTheirIds
    <2> QED  BY <1>2, <2>3, <2>4, <2>5 DEF CallsHaveTheirIds
  <1>15. CompletedIsEnded'
    BY <1>2, <1>8, <1>10 DEF CompletedIsEnded
  <1>16. CallsAreAlone'
    <2> SUFFICES ASSUME complianceDb = "sqlite" PROVE \A z \in Snappers : snapping'[z] = Idle
      BY <1>2 DEF CallsAreAlone
    <2> QED  BY <1>4, <1>11
  <1>17. SnapshotsHaveTheirEntries'
    <2>2. ASSUME NEW t \in snaps PROVE (\E i \in 1..Len(trail)' : EntryOf(t, i)') /\ WholeIfOver(t)'
      <3>1. PICK i \in 1..n : EntryOf(t, i)
        BY DEF SnapshotsHaveTheirEntries
      <3>2. t.head \in Nat
        BY DEF SnapshotsTypeOK, SnapType
      <3>3. t.id # c.id
        BY <1>4, <3>1 DEF EntryOf
      <3>4. EntryOf(t, i)'
        BY <1>2, <1>9, <1>10, <3>1, <3>3 DEF EntryOf
      <3>5. \A j \in 1..t.head : j \in 1..n
        BY <1>10, <3>1, <3>2 DEF EntryOf
      <3>6. WholeIfOver(t)'
        BY <1>2, <1>10, <3>5 DEF WholeIfOver, SnapshotsHaveTheirEntries
      <3> QED  BY <1>10, <3>4, <3>6
    <2>3. ASSUME NEW t, t = row
          PROVE  (\E i \in 1..Len(trail)' : EntryOf(t, i)') /\ WholeIfOver(t)'
      <3>1. /\ t.id = c.id /\ t.session = c.session /\ t.results = c.results /\ t.head = c.head
            /\ n + 1 \in 1..Len(trail')
        BY <1>7, <1>10, <2>3
      <3>2. \A i : i = n + 1 => EntryOf(t, i)'
        BY <1>2, <1>4, <1>6, <1>8, <1>10, <3>1 DEF EntryOf
      <3>3. WholeIfOver(t)'
        BY <1>2, <1>4, <3>1 DEF WholeIfOver
      <3> QED  BY <3>1, <3>2, <3>3
    <2>4. \A t \in snaps' : t \in snaps \/ t = row
      BY <1>2
    <2> QED  BY <2>2, <2>3, <2>4 DEF SnapshotsHaveTheirEntries
  <1> QED  BY <1>12, <1>13, <1>14, <1>15, <1>16, <1>17

\* Snapshots: no full score hides a failure, scores follow the results, and an anchor lies
\* before the entry of its snapshot, right before it on SQLite.
LEMMA SnapshotsInvIsSound == SnapshotsInv => SnapshotsAreSound
  <1> SUFFICES ASSUME SnapshotsInv PROVE SnapshotsAreSound
    OBVIOUS
  <1> USE DEF SnapshotsInv
  <1>1. PerfectMeansNoFailure
    <2> SUFFICES ASSUME NEW t \in snaps, t.score.halves = 2 * t.score.of, NEW r \in t.results,
                        NEW c \in Controls, r.check \in mapped[c], r.outcome \in Failing
                 PROVE  FALSE
      BY DEF PerfectMeansNoFailure
    <2>1. IsFiniteSet(t.results) /\ t.score = ScoreOf(t.results)
      BY DEF SnapshotsAreScored
    <2>2. ~ Bears(c, t.results, Failing)
      BY <2>1, PerfectIsClean
    <2> QED  BY <2>2 DEF Bears
  <1>2. ScoreFollowsTheResults
    <2> SUFFICES ASSUME NEW t \in snaps, NEW u \in snaps, t.results \subseteq u.results
                 PROVE  /\ {r.outcome : r \in u.results \ t.results} \subseteq Failing \cup NotCounted
                             => AtMost(u.score, t.score)
                        /\ {r.outcome : r \in u.results \ t.results} \subseteq {"pass"} \cup NotCounted
                             => AtMost(t.score, u.score)
      BY DEF ScoreFollowsTheResults
    <2>1. /\ IsFiniteSet(t.results) /\ t.score = ScoreOf(t.results)
          /\ IsFiniteSet(u.results) /\ u.score = ScoreOf(u.results)
      BY DEF SnapshotsAreScored
    <2>2. ASSUME {r.outcome : r \in u.results \ t.results} \subseteq Failing \cup NotCounted
          PROVE  AtMost(u.score, t.score)
      <3>1. \A r \in u.results \ t.results : r.outcome # "pass"
        BY <2>2 DEF Failing, NotCounted
      <3> QED  BY <2>1, <3>1, FailuresDoNotRaise
    <2>3. ASSUME {r.outcome : r \in u.results \ t.results} \subseteq {"pass"} \cup NotCounted
          PROVE  AtMost(t.score, u.score)
      <3>1. \A r \in u.results \ t.results : r.outcome \notin Failing
        BY <2>3 DEF Failing, NotCounted
      <3> QED  BY <2>1, <3>1, PassesDoNotLower
    <2> QED  BY <2>2, <2>3
  <1>3. AnchorPrecedesTheSnapshot
    <2> SUFFICES ASSUME NEW t \in snaps
                 PROVE  /\ Cardinality({i \in DOMAIN trail : trail[i] = [kind |-> "snapshot", of |-> t.id]}) = 1
                        /\ \E i \in DOMAIN trail :
                             /\ trail[i] = [kind |-> "snapshot", of |-> t.id] /\ t.head < i
                             /\ complianceDb = "sqlite" =>
                                  /\ t.head = i - 1
                                  /\ (\E j \in 1..t.head : trail[j] = [kind |-> "completed", of |-> t.session]) =>
                                       t.results = scanned[t.session]
      BY DEF AnchorPrecedesTheSnapshot
    <2>1. PICK i \in 1..Len(trail) : EntryOf(t, i)
      BY DEF SnapshotsHaveTheirEntries
    <2>2. DOMAIN trail = 1..Len(trail)
      BY DEF SnapshotsTypeOK
    <2>3. WholeIfOver(t)
      BY DEF SnapshotsHaveTheirEntries
    <2>4. {k \in DOMAIN trail : trail[k] = [kind |-> "snapshot", of |-> t.id]} = {i}
      BY <2>1, <2>2 DEF EntryOf, SnapshotEntry
    <2>5. Cardinality({k \in DOMAIN trail : trail[k] = [kind |-> "snapshot", of |-> t.id]}) = 1
      BY <2>4, FS_Singleton
    <2> QED  BY <2>1, <2>2, <2>3, <2>5 DEF EntryOf, SnapshotEntry, WholeIfOver, CompletedEntry
  <1> QED  BY <1>1, <1>2, <1>3 DEF SnapshotsAreSound

LEMMA SnapshotsInvNext == SnapshotsInv /\ [ComplianceNext]_complianceVars => SnapshotsInv'
  <1> SUFFICES ASSUME SnapshotsInv, [ComplianceNext]_complianceVars PROVE SnapshotsInv'
    OBVIOUS
  <1>1. CASE \E s \in ScanSessions : RecordResult(s) \/ CompleteScan(s)
    BY <1>1, RecordResultKeeps, CompleteScanKeeps
  <1>2. CASE CreateProfile
    BY <1>2, CreateProfileKeeps
  <1>3. CASE \E y \in Snappers : ListResultsForSession(y) \/ HeadOf(y) \/ GenerateSnapshot(y) \/ AbandonSnapshot(y)
    BY <1>3, ListResultsKeeps, HeadOfKeeps, GenerateSnapshotKeeps, AbandonKeeps
  <1>4. CASE UNCHANGED complianceVars
    <2>1. UNCHANGED <<complianceDb, mapped, scanned, ended, trail, snaps, snapping, snapped>>
      BY <1>4 DEF complianceVars
    <2>2. \A t \in snaps : ScoreOf(t.results)' = ScoreOf(t.results)
      BY <2>1, ScoreStays
    <2>3. SnapshotsTypeOK' /\ SnapshotsAreScored'
      BY <2>1, <2>2 DEF SnapshotsInv, SnapshotsTypeOK, SnapshotsAreScored
    <2>4. CallsHaveTheirIds' /\ CompletedIsEnded' /\ CallsAreAlone'
      BY <2>1 DEF SnapshotsInv, CallsHaveTheirIds, CompletedIsEnded, CallsAreAlone
    <2>5. SnapshotsHaveTheirEntries'
      BY <2>1 DEF SnapshotsInv, SnapshotsHaveTheirEntries, EntryOf, WholeIfOver
    <2> QED  BY <2>3, <2>4, <2>5 DEF SnapshotsInv
  <1> QED  BY <1>1, <1>2, <1>3, <1>4 DEF ComplianceNext

--------------------------------------------------------------------------------
(* The inductive invariant of the suggestions. *)

NoteType == [kind : {"created", "confirmed", "rejected"}, of : Named]
Decisions == {"confirmed", "rejected"}
SuggestionsTypeOK ==
    /\ suggestions \in [Named -> {"none", "pending"} \cup Decisions]
    /\ notes \in Seq(NoteType)
    /\ asking \in [Askers -> BOOLEAN]
    /\ deciding \in [Deciders -> {Undecided} \cup [control : Named, target : Decisions]]

IsOf(e, kinds, c) == e.kind \in kinds /\ e.of = c

\* A suggestion that is there was noted once; one that is not was not.
MadeOnce(c) ==
    /\ suggestions[c] = "none" => \A i \in 1..Len(notes) : notes[i].of # c
    /\ suggestions[c] # "none" => \E i \in 1..Len(notes) : \A j \in 1..Len(notes) : IsOf(notes[j], {"created"}, c) <=> j = i

\* A decided suggestion shows its last decision; one that is not decided has none.
ShowsLastDecision(c) ==
    /\ suggestions[c] = "pending" => \A i \in 1..Len(notes) : ~ IsOf(notes[i], Decisions, c)
    /\ suggestions[c] \in Decisions =>
         \E i \in 1..Len(notes) : /\ IsOf(notes[i], {suggestions[c]}, c)
                                  /\ \A j \in 1..Len(notes) : IsOf(notes[j], Decisions, c) => j <= i
    /\ suggestionDb = "sqlite" =>
         \A i, j \in 1..Len(notes) : IsOf(notes[i], Decisions, c) /\ IsOf(notes[j], Decisions, c) => i = j

\* A decision under way is about a suggestion that is there; on SQLite it is still pending and
\* nothing else is under way.
DecisionsAreAlone ==
    \A d \in Deciders : deciding[d] # Undecided =>
        /\ suggestions[deciding[d].control] # "none"
        /\ suggestionDb = "sqlite" =>
             /\ suggestions[deciding[d].control] = "pending"
             /\ \A a \in Askers : ~asking[a]
             /\ \A z \in Deciders \ {d} : deciding[z] = Undecided

SuggestionsInv ==
    /\ SuggestionsTypeOK
    /\ \A c \in Named : MadeOnce(c)
    /\ \A c \in Named : ShowsLastDecision(c)
    /\ DecisionsAreAlone

LEMMA SuggestionsInvInit == SuggestionsInit => SuggestionsInv
  <1> SUFFICES ASSUME SuggestionsInit PROVE SuggestionsInv
    OBVIOUS
  <1>1. /\ suggestions = [c \in Named |-> "none"] /\ notes = <<>>
        /\ asking = [a \in Askers |-> FALSE] /\ deciding = [d \in Deciders |-> Undecided]
    BY DEF SuggestionsInit
  <1>2. notes \in Seq(NoteType) /\ Len(notes) = 0
    BY <1>1
  <1>3. SuggestionsTypeOK
    BY <1>1, <1>2 DEF SuggestionsTypeOK
  <1>4. \A c \in Named : MadeOnce(c) /\ ShowsLastDecision(c)
    BY <1>1, <1>2 DEF MadeOnce, ShowsLastDecision, Decisions
  <1>5. DecisionsAreAlone
    BY <1>1 DEF DecisionsAreAlone
  <1> QED  BY <1>3, <1>4, <1>5 DEF SuggestionsInv

\* The rows of a decision or a call change only what is under way.
LEMMA NotesStay ==
    ASSUME SuggestionsInv, UNCHANGED <<suggestionDb, suggestions, notes>>,
           asking' \in [Askers -> BOOLEAN],
           deciding' \in [Deciders -> {Undecided} \cup [control : Named, target : Decisions]],
           DecisionsAreAlone'
    PROVE  SuggestionsInv'
  BY DEF SuggestionsInv, SuggestionsTypeOK, MadeOnce, ShowsLastDecision, IsOf

LEMMA AskKeeps ==
    ASSUME SuggestionsInv, NEW a \in Askers, Ask(a) \/ LLMUnavailable(a)
    PROVE  SuggestionsInv'
  <1> USE DEF SuggestionsInv
  <1>1. UNCHANGED <<suggestionDb, suggestions, notes, deciding>> /\ asking' \in [Askers -> BOOLEAN]
    BY DEF Ask, LLMUnavailable, SuggestionsTypeOK
  <1>2. DecisionsAreAlone'
    <2>1. CASE Ask(a)
      <3>1. suggestionDb = "sqlite" => \A d \in Deciders : deciding[d] = Undecided
        BY <2>1 DEF Ask, Alone
      <3> QED  BY <1>1, <3>1 DEF DecisionsAreAlone
    <2>2. CASE LLMUnavailable(a)
      <3>1. \A b \in Askers : asking'[b] => asking[b]
        BY <2>2 DEF LLMUnavailable, SuggestionsTypeOK
      <3> QED  BY <1>1, <3>1 DEF DecisionsAreAlone
    <2> QED  BY <2>1, <2>2
  <1>3. deciding' \in [Deciders -> {Undecided} \cup [control : Named, target : Decisions]]
    BY <1>1 DEF SuggestionsTypeOK
  <1> QED  BY <1>1, <1>2, <1>3, NotesStay

LEMMA GetSuggestionKeeps ==
    ASSUME SuggestionsInv, NEW d \in Deciders, NEW c \in Named, NEW to \in Decisions,
           GetSuggestion(d, c, to)
    PROVE  SuggestionsInv'
  <1> USE DEF SuggestionsInv
  <1> DEFINE v == [control |-> c, target |-> to]
  <1>1. /\ Alone /\ suggestions[c] = "pending" /\ deciding' = [deciding EXCEPT ![d] = v]
        /\ UNCHANGED <<suggestionDb, suggestions, notes, asking, asked>>
    BY DEF GetSuggestion, Decidable
  <1>2. v \in [control : Named, target : Decisions] /\ v.control = c
    OBVIOUS
  <1> HIDE DEF v
  <1>3. /\ deciding' \in [Deciders -> {Undecided} \cup [control : Named, target : Decisions]]
        /\ deciding'[d] = v /\ \A z \in Deciders : z # d => deciding'[z] = deciding[z]
    BY <1>1, <1>2 DEF SuggestionsTypeOK
  <1>4. suggestionDb = "sqlite" => (\A a \in Askers : ~asking[a]) /\ (\A z \in Deciders : deciding[z] = Undecided)
    BY <1>1 DEF Alone
  <1>5. DecisionsAreAlone'
    BY <1>1, <1>2, <1>3, <1>4 DEF DecisionsAreAlone
  <1>6. asking' \in [Askers -> BOOLEAN]
    BY <1>1 DEF SuggestionsTypeOK
  <1> QED  BY <1>1, <1>3, <1>5, <1>6, NotesStay

LEMMA DecideKeeps ==
    ASSUME SuggestionsInv, NEW d \in Deciders, DecideSuggestion(d)
    PROVE  SuggestionsInv'
  <1> USE DEF SuggestionsInv
  <1> DEFINE v == deciding[d]
             x == v.control
             e == [kind |-> v.target, of |-> v.control]
             n == Len(notes)
  <1>1. v \in [control : Named, target : Decisions] /\ v # Undecided
    BY DEF DecideSuggestion, SuggestionsTypeOK
  <1>2. /\ suggestions' = [suggestions EXCEPT ![x] = v.target] /\ notes' = Append(notes, e)
        /\ deciding' = [deciding EXCEPT ![d] = Undecided] /\ UNCHANGED <<suggestionDb, asking, asked>>
    BY DEF DecideSuggestion
  <1>3. /\ suggestions[x] # "none"
        /\ suggestionDb = "sqlite" => suggestions[x] = "pending" /\ \A z \in Deciders \ {d} : deciding[z] = Undecided
    BY <1>1 DEF DecisionsAreAlone
  <1>4. /\ deciding' \in [Deciders -> {Undecided} \cup [control : Named, target : Decisions]]
        /\ deciding'[d] = Undecided /\ \A z \in Deciders : z # d => deciding'[z] = deciding[z]
    BY <1>2 DEF SuggestionsTypeOK
  <1> HIDE DEF v
  <1>5. x \in Named /\ v.target \in Decisions /\ e \in NoteType /\ e.kind = v.target /\ e.of = x
    BY <1>1 DEF NoteType, Decisions
  <1>6. /\ notes \in Seq(NoteType) /\ n \in Nat
        /\ notes' \in Seq(NoteType) /\ Len(notes') = n + 1 /\ notes'[n + 1] = e
        /\ \A i \in 1..n : notes'[i] = notes[i] /\ i \in 1..Len(notes')
        /\ \A i \in 1..Len(notes') : i \in 1..n \/ i = n + 1
    BY <1>2, <1>5, AppendProperties DEF SuggestionsTypeOK
  <1>7. /\ suggestions' \in [Named -> {"none", "pending"} \cup Decisions] /\ suggestions'[x] = v.target
        /\ \A c \in Named : c # x => suggestions'[c] = suggestions[c]
    BY <1>2, <1>5 DEF SuggestionsTypeOK
  <1>8. v.target \notin {"none", "pending"} /\ e.kind # "created"
    BY <1>5 DEF Decisions
  <1> HIDE DEF x, e, n
  <1>9. SuggestionsTypeOK'
    BY <1>2, <1>4, <1>6, <1>7 DEF SuggestionsTypeOK
  <1>10. ASSUME NEW c \in Named PROVE MadeOnce(c)'
    <2>1. \A i \in 1..n : \A kinds : IsOf(notes'[i], kinds, c) <=> IsOf(notes[i], kinds, c)
      BY <1>6 DEF IsOf
    <2>2. ~ (notes'[n + 1].kind \in {"created"})
      BY <1>6, <1>8
    <2>3. MadeOnce(c)
      OBVIOUS
    <2>4. CASE c = x
      <3>1. PICK i \in 1..n : \A j \in 1..n : IsOf(notes[j], {"created"}, c) <=> j = i
        BY <1>3, <2>3, <2>4 DEF MadeOnce, n
      <3>2. \A j \in 1..Len(notes') : IsOf(notes'[j], {"created"}, c) <=> j = i
        BY <1>6, <2>1, <2>2, <3>1 DEF IsOf
      <3> QED  BY <1>6, <1>7, <1>8, <2>4, <3>2 DEF MadeOnce
    <2>5. CASE c # x
      <3>1. CASE suggestions[c] = "none"
        BY <1>5, <1>6, <1>7, <2>3, <2>5, <3>1 DEF MadeOnce, n
      <3>2. CASE suggestions[c] # "none"
        <4>1. PICK i \in 1..n : \A j \in 1..n : IsOf(notes[j], {"created"}, c) <=> j = i
          BY <2>3, <3>2 DEF MadeOnce, n
        <4>2. \A j \in 1..Len(notes') : IsOf(notes'[j], {"created"}, c) <=> j = i
          BY <1>6, <2>1, <2>2, <4>1 DEF IsOf
        <4>3. suggestions'[c] # "none" /\ i \in 1..Len(notes')
          BY <1>6, <1>7, <2>5, <3>2
        <4> QED  BY <4>2, <4>3 DEF MadeOnce
      <3> QED  BY <3>1, <3>2
    <2> QED  BY <2>4, <2>5
  <1>11. ASSUME NEW c \in Named PROVE ShowsLastDecision(c)'
    <2>1. \A i \in 1..n : \A kinds : IsOf(notes'[i], kinds, c) <=> IsOf(notes[i], kinds, c)
      BY <1>6 DEF IsOf
    <2>2. ShowsLastDecision(c)
      OBVIOUS
    <2>3. CASE c = x
      <3>1. IsOf(notes'[n + 1], {suggestions'[c]}, c)
        BY <1>5, <1>6, <1>7, <2>3 DEF IsOf
      <3>2. \A j \in 1..Len(notes') : j <= n + 1
        BY <1>6
      <3>3. suggestionDb = "sqlite" => \A i \in 1..n : ~ IsOf(notes[i], Decisions, c)
        BY <1>3, <2>2, <2>3 DEF ShowsLastDecision, n
      <3>4. suggestionDb' = "sqlite" =>
              \A i, j \in 1..Len(notes') : IsOf(notes'[i], Decisions, c) /\ IsOf(notes'[j], Decisions, c) => i = j
        BY <1>2, <1>6, <2>1, <3>3
      <3>5. n + 1 \in 1..Len(notes')
        BY <1>6
      <3> QED  BY <1>7, <1>8, <2>3, <3>1, <3>2, <3>4, <3>5 DEF ShowsLastDecision
    <2>4. CASE c # x
      <3>1. \A kinds : ~ IsOf(notes'[n + 1], kinds, c)
        BY <1>5, <1>6, <2>4 DEF IsOf
      <3>2. \A i \in 1..Len(notes') : \A kinds : IsOf(notes'[i], kinds, c) => i \in 1..n /\ IsOf(notes[i], kinds, c)
        BY <1>6, <2>1, <3>1
      <3>3. suggestions'[c] = suggestions[c]
        BY <1>7, <2>4
      <3>4. suggestions'[c] = "pending" => \A i \in 1..Len(notes') : ~ IsOf(notes'[i], Decisions, c)
        BY <2>2, <3>2, <3>3 DEF ShowsLastDecision, n
      <3>5. suggestions'[c] \in Decisions =>
              \E i \in 1..Len(notes') : /\ IsOf(notes'[i], {suggestions'[c]}, c)
                                        /\ \A j \in 1..Len(notes') : IsOf(notes'[j], Decisions, c) => j <= i
        <4> SUFFICES ASSUME suggestions'[c] \in Decisions
                     PROVE  \E i \in 1..Len(notes') : /\ IsOf(notes'[i], {suggestions'[c]}, c)
                                                      /\ \A j \in 1..Len(notes') : IsOf(notes'[j], Decisions, c) => j <= i
          OBVIOUS
        <4>1. PICK i \in 1..n : /\ IsOf(notes[i], {suggestions[c]}, c)
                                /\ \A j \in 1..n : IsOf(notes[j], Decisions, c) => j <= i
          BY <2>2, <3>3 DEF ShowsLastDecision, n
        <4>2. i \in 1..Len(notes') /\ IsOf(notes'[i], {suggestions'[c]}, c)
          BY <1>6, <2>1, <3>3, <4>1
        <4>3. \A j \in 1..Len(notes') : IsOf(notes'[j], Decisions, c) => j <= i
          BY <3>2, <4>1
        <4> QED  BY <4>2, <4>3
      <3>6. suggestionDb' = "sqlite" =>
              \A i, j \in 1..Len(notes') : IsOf(notes'[i], Decisions, c) /\ IsOf(notes'[j], Decisions, c) => i = j
        BY <1>2, <2>2, <3>2 DEF ShowsLastDecision, n
      <3> QED  BY <3>4, <3>5, <3>6 DEF ShowsLastDecision
    <2> QED  BY <2>3, <2>4
  <1>12. DecisionsAreAlone'
    <2>1. \A z \in Deciders : deciding'[z] # Undecided => z # d /\ deciding[z] # Undecided /\ deciding'[z] = deciding[z]
      BY <1>4
    <2>2. suggestionDb = "sqlite" => \A z \in Deciders : deciding'[z] = Undecided
      BY <1>3, <1>4
    <2>3. \A z \in Deciders : deciding'[z] # Undecided => suggestions'[deciding'[z].control] # "none"
      <3> SUFFICES ASSUME NEW z \in Deciders, deciding'[z] # Undecided
                   PROVE  suggestions'[deciding'[z].control] # "none"
        OBVIOUS
      <3>1. deciding[z].control \in Named /\ suggestions[deciding[z].control] # "none"
        BY <2>1 DEF DecisionsAreAlone, SuggestionsTypeOK
      <3> QED  BY <1>7, <1>8, <2>1, <3>1
    <2> QED  BY <1>2, <2>2, <2>3 DEF DecisionsAreAlone
  <1> QED  BY <1>9, <1>10, <1>11, <1>12

\* The sequence made of a finite set holds each of its elements once.
LEMMA SetToSeqHoldsAll ==
    ASSUME NEW S, IsFiniteSet(S)
    PROVE  /\ SetToSeq(S) \in Seq(S)
           /\ \A x \in S : \E i \in 1..Len(SetToSeq(S)) : SetToSeq(S)[i] = x
           /\ \A i, j \in 1..Len(SetToSeq(S)) : SetToSeq(S)[i] = SetToSeq(S)[j] => i = j
  <1> DEFINE k == Cardinality(S)
             f == SetToSeq(S)
  <1>1. k \in Nat /\ ExistsBijection(1..k, S)
    BY FS_CardinalityType
  <1>2. PICK g : g \in Bijection(1..k, S)
    BY <1>1 DEF ExistsBijection
  <1>3. g \in [1..k -> S] /\ IsInjective(g)
    BY <1>2 DEF Bijection, Injection
  <1>4. f = CHOOSE h \in [1..k -> S] : IsInjective(h)
    BY DEF SetToSeq
  <1>5. f \in [1..k -> S] /\ IsInjective(f)
    BY <1>3, <1>4
  <1> HIDE DEF f
  <1>6. f \in Injection(1..k, S)
    BY <1>5 DEF Injection
  <1>7. IsFiniteSet(1..k) /\ Cardinality(1..k) = k
    BY <1>1, FS_Interval
  <1>8. f \in Surjection(1..k, S)
    BY <1>6, <1>7, FS_Injection
  <1>9. f \in Seq(S) /\ Len(f) = k
    BY <1>1, <1>5
  <1>10. \A i, j \in 1..Len(f) : f[i] = f[j] => i = j
    BY <1>5, <1>9 DEF IsInjective
  <1>11. \A x \in S : \E i \in 1..Len(f) : f[i] = x
    BY <1>8, <1>9 DEF Surjection
  <1> QED  BY <1>9, <1>10, <1>11 DEF f

LEMMA SomeAreFinitelyMany ==
    ASSUME NEW T, NEW n \in Nat, NEW g \in [1..n -> T], NEW U, U \subseteq {g[i] : i \in 1..n}
    PROVE  IsFiniteSet(U)
  <1> DEFINE R == {g[i] : i \in 1..n}
  <1>1. g \in Surjection(1..n, R)
    BY DEF Surjection
  <1>2. IsFiniteSet(1..n)
    BY FS_Interval
  <1>3. IsFiniteSet(R)
    BY <1>1, <1>2, FS_Surjection
  <1> QED  BY <1>3, FS_Subset

LEMMA DraftsAreControls ==
    ASSUME NEW answer \in Answers
    PROVE  Suggest(answer) \in Seq(Named)
  <1>1. PICK n \in 0..(TopN + 1) : answer \in [1..n -> Candidates \cup Unlisted]
    BY DEF Answers
  <1>2. Candidates \cup Unlisted \subseteq Named
    BY DEF Candidates, Named
  <1>3. n \in Nat /\ TopN \in Nat
    BY <1>1, SuggestionsAssumption
  <1>4. answer \in Seq(Named) /\ Len(answer) = n
    BY <1>1, <1>2, <1>3
  <1> DEFINE m == IF Len(answer) > TopN THEN TopN ELSE Len(answer)
  <1>5. m \in Int /\ \A i \in 1..m : i \in 1..n
    BY <1>3, <1>4
  <1> HIDE DEF m
  <1>6. \A i \in 1..m : answer[i] \in Named
    BY <1>1, <1>2, <1>5
  <1>7. SubSeq(answer, 1, m) \in Seq(Named)
    BY <1>5, <1>6, SubSeqProperties
  <1> QED  BY <1>7 DEF Suggest, m

\* What is inserted is new, and finitely many.
LEMMA InsertedAreFinite ==
    ASSUME NEW drafts \in Seq(Named)
    PROVE  /\ IsFiniteSet(Fresh(drafts))
           /\ \A c \in Fresh(drafts) : c \in Named /\ suggestions[c] = "none"
  <1>1. Len(drafts) \in Nat /\ DOMAIN drafts = 1..Len(drafts) /\ drafts \in [1..Len(drafts) -> Named]
    OBVIOUS
  <1>2. Fresh(drafts) \subseteq {drafts[i] : i \in 1..Len(drafts)}
    BY <1>1 DEF Fresh
  <1> QED  BY <1>1, <1>2, SomeAreFinitelyMany DEF Fresh

LEMMA InsertedEntries ==
    ASSUME NEW C \in SUBSET Named, IsFiniteSet(C)
    PROVE  IsFiniteSet({InsertSuggestion(c) : c \in C})
  <1> DEFINE g == [c \in C |-> InsertSuggestion(c)]
             T == {InsertSuggestion(c) : c \in C}
  <1>1. g \in Surjection(C, T)
    BY DEF Surjection
  <1> QED  BY <1>1, FS_Surjection

LEMMA SuggestMappingsKeeps ==
    ASSUME SuggestionsInv, NEW a \in Askers, NEW answer \in Answers, SuggestMappings(a, answer)
    PROVE  SuggestionsInv'
  <1> USE DEF SuggestionsInv
  <1> DEFINE drafts == Suggest(answer)
             C == Fresh(drafts)
             s == SetToSeq({InsertSuggestion(c) : c \in C})
             n == Len(notes)
             k == Len(s)
  <1>1. /\ asking[a] /\ asking' = [asking EXCEPT ![a] = FALSE]
        /\ UNCHANGED <<suggestionDb, deciding, asked>>
    BY DEF SuggestMappings
  <1>2. asking' \in [Askers -> BOOLEAN] /\ \A b \in Askers : asking'[b] => asking[b]
    BY <1>1 DEF SuggestionsTypeOK
  <1>3. suggestionDb = "sqlite" => \A d \in Deciders : deciding[d] = Undecided
    BY <1>1 DEF DecisionsAreAlone
  <1>4. deciding' \in [Deciders -> {Undecided} \cup [control : Named, target : Decisions]]
    BY <1>1 DEF SuggestionsTypeOK
  <1>5. CASE suggestionDb = "postgres" /\ Conflict(drafts)
    <2>1. UNCHANGED <<suggestions, notes>>
      BY <1>5 DEF SuggestMappings
    <2>2. DecisionsAreAlone'
      BY <1>1, <1>2, <2>1 DEF DecisionsAreAlone
    <2> QED  BY <1>1, <1>2, <1>4, <2>1, <2>2, NotesStay
  <1>6. CASE ~ (suggestionDb = "postgres" /\ Conflict(drafts))
    <2>1. /\ suggestions' = [c \in Named |-> IF c \in C THEN "pending" ELSE suggestions[c]]
          /\ notes' = notes \o s
      BY <1>6 DEF SuggestMappings, InsertedAll
    <2>2. drafts \in Seq(Named)
      BY DraftsAreControls
    <2>3. IsFiniteSet(C) /\ C \subseteq Named /\ \A c \in C : suggestions[c] = "none"
      BY <2>2, InsertedAreFinite
    <2> HIDE DEF drafts, C
    <2>4. IsFiniteSet({InsertSuggestion(c) : c \in C})
      BY <2>3, InsertedEntries
    <2>5. /\ s \in Seq({InsertSuggestion(c) : c \in C})
          /\ \A c \in C : \E i \in 1..k : s[i] = InsertSuggestion(c)
          /\ \A i, j \in 1..k : s[i] = s[j] => i = j
      BY <2>4, SetToSeqHoldsAll
    <2> HIDE DEF s
    <2>6. \A i \in 1..k : s[i].kind = "created" /\ s[i].of \in C /\ s[i] = InsertSuggestion(s[i].of) /\ s[i] \in NoteType
      <3> SUFFICES ASSUME NEW i \in 1..k
                   PROVE  s[i].kind = "created" /\ s[i].of \in C /\ s[i] = InsertSuggestion(s[i].of) /\ s[i] \in NoteType
        OBVIOUS
      <3>1. s[i] \in {InsertSuggestion(c) : c \in C}
        BY <2>5, ElementOfSeq
      <3> QED  BY <2>3, <3>1 DEF InsertSuggestion, NoteType
    <2>7. k \in Nat /\ s \in Seq(NoteType)
      <3>1. k \in Nat /\ s \in [1..k -> NoteType]
        BY <2>5, <2>6
      <3> QED  BY <3>1
    <2>8. /\ notes \in Seq(NoteType) /\ n \in Nat
          /\ notes' \in Seq(NoteType) /\ Len(notes') = n + k
          /\ \A i \in 1..n : notes'[i] = notes[i] /\ i \in 1..Len(notes')
          /\ \A i \in 1..k : notes'[n + i] = s[i] /\ n + i \in 1..Len(notes')
      <3>1. notes \in Seq(NoteType) /\ n \in Nat
        BY DEF SuggestionsTypeOK
      <3>2. /\ notes' \in Seq(NoteType) /\ Len(notes') = n + k
            /\ \A i \in 1..n + k : notes'[i] = IF i <= n THEN notes[i] ELSE s[i - n]
        BY <2>1, <2>7, <3>1, ConcatProperties
      <3>3. \A i \in 1..n : notes'[i] = notes[i] /\ i \in 1..Len(notes')
        BY <2>7, <3>1, <3>2
      <3>4. \A i \in 1..k : n + i \in 1..n + k /\ ~(n + i <= n) /\ (n + i) - n = i
        BY <2>7, <3>1
      <3>5. \A i \in 1..k : notes'[n + i] = s[i] /\ n + i \in 1..Len(notes')
        BY <3>2, <3>4
      <3> QED  BY <3>1, <3>2, <3>3, <3>5
    <2>9. \A i \in 1..Len(notes') : i \in 1..n \/ \E j \in 1..k : i = n + j
      <3> SUFFICES ASSUME NEW i \in 1..Len(notes'), i \notin 1..n PROVE \E j \in 1..k : i = n + j
        OBVIOUS
      <3>1. i - n \in 1..k /\ i = n + (i - n)
        BY <2>7, <2>8
      <3> QED  BY <3>1
    <2>10. /\ suggestions' \in [Named -> {"none", "pending"} \cup Decisions]
           /\ \A c \in Named : suggestions'[c] = IF c \in C THEN "pending" ELSE suggestions[c]
      BY <2>1 DEF SuggestionsTypeOK
    <2> HIDE DEF n, k
    <2>11. SuggestionsTypeOK'
      BY <1>2, <1>4, <2>8, <2>10 DEF SuggestionsTypeOK
    <2>12. ASSUME NEW c \in Named, c \in C PROVE MadeOnce(c)' /\ ShowsLastDecision(c)'
      <3>1. suggestions[c] = "none" /\ suggestions'[c] = "pending" /\ \A i \in 1..n : notes[i].of # c
        BY <2>3, <2>10, <2>12 DEF MadeOnce, n
      <3>2. PICK m \in 1..k : s[m] = InsertSuggestion(c)
        BY <2>5, <2>12
      <3>3. \A j \in 1..k : s[j].of = c => j = m
        BY <2>5, <2>6, <3>2
      <3>4. \A i \in 1..Len(notes') : notes'[i].of = c => i = n + m
        <4> SUFFICES ASSUME NEW i \in 1..Len(notes'), notes'[i].of = c PROVE i = n + m
          OBVIOUS
        <4>1. i \notin 1..n
          BY <2>8, <3>1
        <4>2. PICK j \in 1..k : i = n + j
          BY <2>9, <4>1
        <4>3. notes'[i] = s[j]
          BY <2>8, <4>2
        <4> QED  BY <3>3, <4>2, <4>3
      <3>5. notes'[n + m].kind = "created" /\ notes'[n + m].of = c /\ n + m \in 1..Len(notes')
        BY <2>8, <3>2 DEF InsertSuggestion
      <3>6. MadeOnce(c)'
        BY <3>1, <3>4, <3>5 DEF MadeOnce, IsOf
      <3>7. \A i \in 1..Len(notes') : ~ IsOf(notes'[i], Decisions, c)
        BY <3>4, <3>5 DEF IsOf, Decisions
      <3>8. ShowsLastDecision(c)'
        BY <3>1, <3>7 DEF ShowsLastDecision, Decisions
      <3> QED  BY <3>6, <3>8
    <2>13. ASSUME NEW c \in Named, c \notin C PROVE MadeOnce(c)' /\ ShowsLastDecision(c)'
      <3>1. suggestions'[c] = suggestions[c] /\ MadeOnce(c) /\ ShowsLastDecision(c)
        BY <2>10, <2>13
      <3>2. \A i \in 1..Len(notes') : notes'[i].of = c => i \in 1..n
        BY <2>6, <2>8, <2>9, <2>13
      <3>3. \A i \in 1..n : i \in 1..Len(notes') /\ notes'[i] = notes[i]
        BY <2>8
      <3>4. CASE suggestions[c] = "none"
        <4>1. \A i \in 1..Len(notes') : notes'[i].of # c
          BY <3>1, <3>2, <3>3, <3>4 DEF MadeOnce, n
        <4> QED  BY <3>1, <3>4, <4>1 DEF MadeOnce, ShowsLastDecision, IsOf, Decisions
      <3>5. CASE suggestions[c] # "none"
        <4>1. PICK i \in 1..n : \A j \in 1..n : IsOf(notes[j], {"created"}, c) <=> j = i
          BY <3>1, <3>5 DEF MadeOnce, n
        <4>2. \A j \in 1..Len(notes') : IsOf(notes'[j], {"created"}, c) <=> j = i
          BY <3>2, <3>3, <4>1 DEF IsOf
        <4>3. MadeOnce(c)'
          BY <3>1, <3>3, <3>5, <4>2 DEF MadeOnce
        <4>4. \A j \in 1..Len(notes') : IsOf(notes'[j], Decisions, c) => j \in 1..n /\ IsOf(notes[j], Decisions, c)
          BY <3>2, <3>3 DEF IsOf
        <4>5. suggestions'[c] = "pending" => \A j \in 1..Len(notes') : ~ IsOf(notes'[j], Decisions, c)
          BY <3>1, <4>4 DEF ShowsLastDecision, n
        <4>6. suggestions'[c] \in Decisions =>
                \E j \in 1..Len(notes') : /\ IsOf(notes'[j], {suggestions'[c]}, c)
                                          /\ \A m \in 1..Len(notes') : IsOf(notes'[m], Decisions, c) => m <= j
          <5> SUFFICES ASSUME suggestions'[c] \in Decisions
                       PROVE  \E j \in 1..Len(notes') :
                                /\ IsOf(notes'[j], {suggestions'[c]}, c)
                                /\ \A m \in 1..Len(notes') : IsOf(notes'[m], Decisions, c) => m <= j
            OBVIOUS
          <5>1. PICK j \in 1..n : /\ IsOf(notes[j], {suggestions[c]}, c)
                                  /\ \A m \in 1..n : IsOf(notes[m], Decisions, c) => m <= j
            BY <3>1 DEF ShowsLastDecision, n
          <5>2. j \in 1..Len(notes') /\ IsOf(notes'[j], {suggestions'[c]}, c)
            BY <3>1, <3>3, <5>1
          <5>3. \A m \in 1..Len(notes') : IsOf(notes'[m], Decisions, c) => m <= j
            BY <4>4, <5>1
          <5> QED  BY <5>2, <5>3
        <4>7. suggestionDb' = "sqlite" =>
                \A i1, j \in 1..Len(notes') : IsOf(notes'[i1], Decisions, c) /\ IsOf(notes'[j], Decisions, c) => i1 = j
          BY <1>1, <3>1, <4>4 DEF ShowsLastDecision, n
        <4> QED  BY <4>3, <4>5, <4>6, <4>7 DEF ShowsLastDecision
      <3> QED  BY <3>4, <3>5
    <2>14. DecisionsAreAlone'
      <3> SUFFICES ASSUME NEW d \in Deciders, deciding[d] # Undecided
                   PROVE  suggestionDb # "sqlite" /\ suggestions'[deciding[d].control] # "none"
        BY <1>1 DEF DecisionsAreAlone
      <3>1. deciding[d].control \in Named /\ suggestions[deciding[d].control] # "none"
        BY DEF DecisionsAreAlone, SuggestionsTypeOK
      <3> QED  BY <1>3, <2>10, <3>1
    <2> QED  BY <2>11, <2>12, <2>13, <2>14
  <1> QED  BY <1>5, <1>6

LEMMA SuggestionsInvNext == SuggestionsInv /\ [SuggestionsNext]_suggestionVars => SuggestionsInv'
  <1> SUFFICES ASSUME SuggestionsInv, [SuggestionsNext]_suggestionVars PROVE SuggestionsInv'
    OBVIOUS
  <1>1. CASE \E a \in Askers : Ask(a) \/ LLMUnavailable(a) \/ \E answer \in Answers : SuggestMappings(a, answer)
    BY <1>1, AskKeeps, SuggestMappingsKeeps
  <1>2. CASE \E d \in Deciders : DecideSuggestion(d) \/ \E c \in Named : ConfirmSuggestion(d, c) \/ RejectSuggestion(d, c)
    <2>1. "confirmed" \in Decisions /\ "rejected" \in Decisions
      BY DEF Decisions
    <2> QED  BY <1>2, <2>1, DecideKeeps, GetSuggestionKeeps DEF ConfirmSuggestion, RejectSuggestion
  <1>3. CASE UNCHANGED suggestionVars
    <2>1. UNCHANGED <<suggestionDb, suggestions, notes, asking, deciding>>
      BY <1>3 DEF suggestionVars
    <2>2. DecisionsAreAlone'
      BY <2>1 DEF SuggestionsInv, DecisionsAreAlone
    <2>3. /\ asking' \in [Askers -> BOOLEAN]
          /\ deciding' \in [Deciders -> {Undecided} \cup [control : Named, target : Decisions]]
      BY <2>1 DEF SuggestionsInv, SuggestionsTypeOK
    <2> QED  BY <2>1, <2>2, <2>3, NotesStay
  <1> QED  BY <1>1, <1>2, <1>3 DEF SuggestionsNext

LEMMA SuggestionsInvIsSound == SuggestionsInv => SuggestionsAreSound
  <1> SUFFICES ASSUME SuggestionsInv, NEW c \in Named
               PROVE  /\ suggestions[c] # "none" <=> Cardinality(Noted({"created"}, c)) = 1
                      /\ suggestions[c] \in {"none", "pending"} <=> Noted({"confirmed", "rejected"}, c) = {}
                      /\ suggestionDb = "sqlite" => Cardinality(Noted({"confirmed", "rejected"}, c)) <= 1
                      /\ suggestions[c] \in {"confirmed", "rejected"} =>
                           \E i \in Noted({suggestions[c]}, c) : \A j \in Noted({"confirmed", "rejected"}, c) : j <= i
    BY DEF SuggestionsAreSound
  <1> USE DEF SuggestionsInv
  <1>1. /\ suggestions[c] \in {"none", "pending"} \cup Decisions
        /\ DOMAIN notes = 1..Len(notes) /\ Len(notes) \in Nat /\ MadeOnce(c) /\ ShowsLastDecision(c)
    BY DEF SuggestionsTypeOK
  <1>2. \A kinds : Noted(kinds, c) = {i \in 1..Len(notes) : IsOf(notes[i], kinds, c)}
    BY <1>1 DEF Noted, IsOf
  <1>3. suggestions[c] # "none" <=> Cardinality(Noted({"created"}, c)) = 1
    <2>1. CASE suggestions[c] = "none"
      <3>1. Noted({"created"}, c) = {}
        BY <1>1, <1>2, <2>1 DEF MadeOnce, IsOf
      <3> QED  BY <2>1, <3>1, FS_EmptySet
    <2>2. CASE suggestions[c] # "none"
      <3>1. PICK i \in 1..Len(notes) : \A j \in 1..Len(notes) : IsOf(notes[j], {"created"}, c) <=> j = i
        BY <1>1, <2>2 DEF MadeOnce
      <3>2. Noted({"created"}, c) = {i}
        BY <1>2, <3>1
      <3>3. Cardinality(Noted({"created"}, c)) = 1
        BY <3>2, FS_Singleton
      <3> QED  BY <2>2, <3>3
    <2> QED  BY <2>1, <2>2
  <1>4. suggestions[c] \in {"none", "pending"} <=> Noted(Decisions, c) = {}
    <2>1. CASE suggestions[c] = "none"
      <3>1. \A i \in 1..Len(notes) : ~ IsOf(notes[i], Decisions, c)
        BY <1>1, <2>1 DEF MadeOnce, IsOf
      <3> QED  BY <1>2, <2>1, <3>1
    <2>2. CASE suggestions[c] = "pending"
      <3>1. \A i \in 1..Len(notes) : ~ IsOf(notes[i], Decisions, c)
        BY <1>1, <2>2 DEF ShowsLastDecision
      <3> QED  BY <1>2, <2>2, <3>1
    <2>3. CASE suggestions[c] \in Decisions
      <3>1. PICK i \in 1..Len(notes) : IsOf(notes[i], {suggestions[c]}, c)
        BY <1>1, <2>3 DEF ShowsLastDecision
      <3>2. IsOf(notes[i], Decisions, c)
        BY <2>3, <3>1 DEF IsOf
      <3> QED  BY <1>2, <2>3, <3>2 DEF Decisions
    <2> QED  BY <1>1, <2>1, <2>2, <2>3
  <1>5. suggestionDb = "sqlite" => Cardinality(Noted(Decisions, c)) <= 1
    <2> SUFFICES ASSUME suggestionDb = "sqlite" PROVE Cardinality(Noted(Decisions, c)) <= 1
      OBVIOUS
    <2>1. CASE Noted(Decisions, c) = {}
      BY <2>1, FS_EmptySet
    <2>2. CASE Noted(Decisions, c) # {}
      <3>1. PICK i : i \in Noted(Decisions, c)
        BY <2>2
      <3>2. Noted(Decisions, c) = {i}
        BY <1>1, <1>2, <3>1 DEF ShowsLastDecision
      <3>3. Cardinality(Noted(Decisions, c)) = 1
        BY <3>2, FS_Singleton
      <3> QED  BY <3>3
    <2> QED  BY <2>1, <2>2
  <1>6. suggestions[c] \in Decisions =>
          \E i \in Noted({suggestions[c]}, c) : \A j \in Noted(Decisions, c) : j <= i
    BY <1>1, <1>2 DEF ShowsLastDecision
  <1>7. Decisions = {"confirmed", "rejected"}
    BY DEF Decisions
  <1> QED  BY <1>3, <1>4, <1>5, <1>6, <1>7

--------------------------------------------------------------------------------
(* The theorems. *)

\* A snapshot's score hides no failure and follows its results, and its anchor comes before its
\* entry: GenerateSnapshot beside a scan that goes on, on either storage.
THEOREM SnapshotsCorrect == ComplianceSpec => []SnapshotsAreSound
  <1>1. ComplianceInit => SnapshotsInv
    BY SnapshotsInvInit
  <1>2. SnapshotsInv /\ [ComplianceNext]_complianceVars => SnapshotsInv'
    BY SnapshotsInvNext
  <1>3. SnapshotsInv => SnapshotsAreSound
    BY SnapshotsInvIsSound
  <1> QED  BY <1>1, <1>2, <1>3, PTL DEF ComplianceSpec

\* A suggested mapping is made once and decided once on SQLite, with an entry for each:
\* SuggestMappings, Confirm and Reject.
THEOREM SuggestionsCorrect == SuggestionsSpec => []SuggestionsAreSound
  <1>1. SuggestionsInit => SuggestionsInv
    BY SuggestionsInvInit
  <1>2. SuggestionsInv /\ [SuggestionsNext]_suggestionVars => SuggestionsInv'
    BY SuggestionsInvNext
  <1>3. SuggestionsInv => SuggestionsAreSound
    BY SuggestionsInvIsSound
  <1> QED  BY <1>1, <1>2, <1>3, PTL DEF SuggestionsSpec

\* Both halves of the compliance domain, beside one another.
THEOREM ComplianceCorrect == ComplianceSpec /\ SuggestionsSpec => []ComplianceIsSound
  <1>1. SnapshotsAreSound /\ SuggestionsAreSound => ComplianceIsSound
    BY DEF ComplianceIsSound
  <1> QED  BY <1>1, SnapshotsCorrect, SuggestionsCorrect, PTL


--------------------------------------------------------------------------------
(* The inductive invariant of evidence and its backups. *)

RowType == EvTenants \X Blobs
EvCallType == [at : {"absent", "staged", "placed", "stored", "mismatch"}, row : RowType]
BackupType == [rows : SUBSET RowType, blobs : SUBSET Blobs, gone : SUBSET Blobs, whole : BOOLEAN, wellFormed : BOOLEAN]
WalkType == [at : {"walk"}, rows : SUBSET RowType, blobs : SUBSET Blobs, left : SUBSET Blobs, listed : SUBSET Blobs,
             gone : SUBSET Blobs]
RestoreType == [at : {"extract", "blobs"}, archive : BackupType]

EvTypeOK ==
    /\ evRows \subseteq RowType /\ unsynced \subseteq Blobs
    /\ disk \in [Blobs -> {"none", "new", "good", "bad"}]
    /\ evCall \in [EvCallers -> {NoEv} \cup EvCallType]
BackupTypeOK ==
    /\ underway \in {NoBackup} \cup WalkType
    /\ backups \subseteq BackupType
    /\ target \in [rows : SUBSET RowType, blobs : SUBSET Blobs]
    /\ restoring \in {NoBackup} \cup RestoreType

\* On SQLite a transaction is alone, so that what it has found on disk is still there.
StoresAreAlone ==
    evDb = "sqlite" => \A q, p \in EvCallers : evCall[q] # NoEv /\ evCall[p] # NoEv => q = p
WhatItFound ==
    evDb = "sqlite" => \A q \in EvCallers :
        /\ evCall[q].at = "mismatch" => disk[BlobOf(q)] = "bad"
        /\ evCall[q].at = "placed" /\ BlobOf(q) \notin unsynced => disk[BlobOf(q)] # "none"
        /\ evCall[q].at = "stored" /\ BlobOf(q) \notin unsynced => disk[BlobOf(q)] \in {"good", "bad"}
\* A name that is not synced yet is somebody's to sync.
NewIsPlaced ==
    evDb = "sqlite" =>
        \A b \in Blobs : disk[b] = "new" /\ b \notin unsynced => \E q \in EvCallers : evCall[q].at = "placed" /\ BlobOf(q) = b
\* RowsHaveBlobs alone is not inductive: an unsynced name would do for it.
RowsAreSynced ==
    evDb = "sqlite" =>
        \A row \in evRows : disk[row[2]] \in {"good", "bad"} \/ Rotten(row[2]) \/ row[2] \in unsynced

EvInv == EvTypeOK /\ StoresAreAlone /\ WhatItFound /\ NewIsPlaced /\ RowsAreSynced /\ OnlyRottenIsPutAway

\* What a backup has still to look for, or has, covers the rows of its snapshot; what it
\* has listed is there, or was put away.
WalkCovers ==
    underway # NoBackup =>
        /\ evDb = "sqlite" /\ underway.rows \subseteq evRows
        /\ underway.gone = {} => Closed(underway.rows, underway.left \cup underway.listed \cup underway.blobs)
        /\ \A b \in underway.listed : disk[b] # "none" \/ Rotten(b)
        /\ \A b \in underway.gone : Rotten(b)
RestoreFollows ==
    restoring # NoBackup =>
        /\ restoring.archive \in backups
        /\ restoring.at = "blobs" => target.rows = restoring.archive.rows

BackupInv == EvInv /\ BackupTypeOK /\ WalkCovers /\ RestoreFollows /\ BackupIsClosed

LEMMA EvCallIs ==
    ASSUME EvTypeOK, NEW q \in EvCallers, evCall[q].at # "idle"
    PROVE  evCall[q] \in EvCallType /\ evCall[q] # NoEv /\ evCall[q].row \in RowType /\ BlobOf(q) \in Blobs
  <1>1. evCall[q] \in EvCallType /\ evCall[q] # NoEv
    BY DEF EvTypeOK, NoEv
  <1>2. evCall[q].row \in RowType
    BY <1>1 DEF EvCallType
  <1>3. evCall[q].row[2] \in Blobs
    BY <1>2 DEF RowType
  <1> QED  BY <1>1, <1>2, <1>3 DEF BlobOf

\* A transaction goes on, and keeps its row.
LEMMA EvStepIs ==
    ASSUME EvTypeOK, NEW q \in EvCallers, evCall[q].at # "idle",
           NEW at \in {"absent", "staged", "placed", "stored", "mismatch"}, EvStep(q, at)
    PROVE  /\ evCall' \in [EvCallers -> {NoEv} \cup EvCallType]
           /\ evCall'[q].at = at /\ evCall'[q].row = evCall[q].row /\ evCall'[q] # NoEv
           /\ \A p \in EvCallers : p # q => evCall'[p] = evCall[p]
  <1> DEFINE c == evCall[q]
             d == [c EXCEPT !.at = at]
  <1>1. evCall' = [evCall EXCEPT ![q] = d]
    BY DEF EvStep
  <1>2. c \in EvCallType
    BY EvCallIs
  <1> HIDE DEF c
  <1>3. d \in EvCallType /\ d.at = at /\ d.row = c.row
    BY <1>2 DEF EvCallType
  <1> HIDE DEF d
  <1>4. d # NoEv
    BY <1>3 DEF NoEv
  <1> QED  BY <1>1, <1>3, <1>4 DEF EvTypeOK, c

LEMMA EvEndIs ==
    ASSUME EvTypeOK, NEW q \in EvCallers, EvEnd(q)
    PROVE  /\ evCall' \in [EvCallers -> {NoEv} \cup EvCallType]
           /\ evCall'[q] = NoEv /\ NoEv.at = "idle"
           /\ \A p \in EvCallers : p # q => evCall'[p] = evCall[p]
  BY DEF EvEnd, EvTypeOK, NoEv

LEMMA EvBeginIs ==
    ASSUME EvTypeOK, NEW q \in EvCallers, NEW t \in EvTenants, NEW b \in Blobs,
           NEW at \in {"absent", "mismatch"}, evCall' = [evCall EXCEPT ![q] = [at |-> at, row |-> <<t, b>>]]
    PROVE  /\ evCall' \in [EvCallers -> {NoEv} \cup EvCallType]
           /\ evCall'[q].at = at /\ evCall'[q].row = <<t, b>> /\ evCall'[q] # NoEv
           /\ \A p \in EvCallers : p # q => evCall'[p] = evCall[p]
  <1> DEFINE d == [at |-> at, row |-> <<t, b>>]
  <1>1. d \in EvCallType /\ d.at = at /\ d.row = <<t, b>>
    BY DEF EvCallType, RowType
  <1>2. evCall' = [evCall EXCEPT ![q] = d]
    OBVIOUS
  <1> HIDE DEF d
  <1>3. d # NoEv
    BY <1>1 DEF NoEv
  <1> QED  BY <1>1, <1>2, <1>3 DEF EvTypeOK

LEMMA BackupInvInit == BackupInit => BackupInv
  <1> SUFFICES ASSUME BackupInit PROVE BackupInv
    OBVIOUS
  <1> USE DEF BackupInit, EvInit
  <1>1. EvTypeOK
    BY DEF EvTypeOK
  <1>2. BackupTypeOK
    <2>1. EmptyDir \in [rows : SUBSET RowType, blobs : SUBSET Blobs]
      BY DEF EmptyDir
    <2> QED  BY <2>1 DEF BackupTypeOK
  <1>3. StoresAreAlone /\ WhatItFound /\ NewIsPlaced /\ RowsAreSynced /\ OnlyRottenIsPutAway
    BY DEF StoresAreAlone, WhatItFound, NewIsPlaced, RowsAreSynced, OnlyRottenIsPutAway, NoEv
  <1>4. WalkCovers /\ RestoreFollows /\ BackupIsClosed
    BY DEF WalkCovers, RestoreFollows, BackupIsClosed
  <1> QED  BY <1>1, <1>2, <1>3, <1>4 DEF BackupInv, EvInv


--------------------------------------------------------------------------------
(* The steps of evidence. *)


LEMMA BeginsAlone ==
    ASSUME EvInv, NEW q \in EvCallers, CanBeginEv, NEW t \in EvTenants, NEW b \in Blobs,
           NEW at \in {"absent", "mismatch"}, evCall' = [evCall EXCEPT ![q] = [at |-> at, row |-> <<t, b>>]],
           at = "mismatch" => disk[b] = "bad", UNCHANGED <<evDb, evRows, disk, quarantined, unsynced>>
    PROVE  EvInv'
  <1>1. EvTypeOK
    BY DEF EvInv
  <1>2. /\ evCall' \in [EvCallers -> {NoEv} \cup EvCallType]
        /\ evCall'[q].at = at /\ evCall'[q].row = <<t, b>> /\ evCall'[q] # NoEv
        /\ \A p \in EvCallers : p # q => evCall'[p] = evCall[p]
    BY <1>1, EvBeginIs
  <1>3. EvTypeOK'
    BY <1>1, <1>2 DEF EvTypeOK
  <1>4. evDb = "sqlite" => \A p \in EvCallers : p # q => evCall'[p] = NoEv
    BY <1>2 DEF CanBeginEv
  <1>5. StoresAreAlone'
    BY <1>4 DEF StoresAreAlone
  <1>6. WhatItFound'
    BY <1>2, <1>4 DEF WhatItFound, BlobOf, NoEv
  <1>7. NewIsPlaced'
    BY DEF EvInv, NewIsPlaced, CanBeginEv, NoEv
  <1>8. RowsAreSynced' /\ OnlyRottenIsPutAway'
    BY DEF EvInv, RowsAreSynced, Rotten, OnlyRottenIsPutAway
  <1> QED  BY <1>3, <1>5, <1>6, <1>7, <1>8 DEF EvInv

\* A transaction under way changes the file of its blob, its place, or leaves.
LEMMA OwnStepKeeps ==
    ASSUME EvInv, EvTypeOK', NEW q \in EvCallers, evCall[q].at # "idle",
           \A p \in EvCallers : p # q => evCall'[p] = evCall[p],
           evCall'[q] # NoEv => evCall'[q].row = evCall[q].row,
           evCall'[q].at \notin {"mismatch"}, evDb' = evDb, unsynced' \in {unsynced, unsynced \cup {BlobOf(q)}},
           \A b \in Blobs : b # BlobOf(q) => disk'[b] = disk[b],
           evCall'[q].at = "placed" => disk'[BlobOf(q)] # "none",
           evCall'[q].at = "stored" /\ evDb = "sqlite" /\ BlobOf(q) \notin unsynced' => disk'[BlobOf(q)] \in {"good", "bad"},
           evDb = "sqlite" /\ BlobOf(q) \notin unsynced' /\ disk'[BlobOf(q)] = "new" => evCall'[q].at = "placed",
           RowsAreSynced', OnlyRottenIsPutAway'
    PROVE  EvInv'
  <1>1. evCall[q] # NoEv
    BY DEF NoEv
  <1>2. evDb = "sqlite" => \A p \in EvCallers : p # q => evCall'[p] = NoEv /\ evCall[p] = NoEv
    BY <1>1 DEF EvInv, StoresAreAlone
  <1>3. StoresAreAlone'
    BY <1>2 DEF StoresAreAlone
  <1>4. evCall'[q].at # "idle" => BlobOf(q)' = BlobOf(q)
    BY DEF BlobOf, NoEv
  <1>5. WhatItFound'
    BY <1>2, <1>4 DEF WhatItFound, NoEv
  <1>6. NewIsPlaced'
    <2> SUFFICES ASSUME evDb = "sqlite", NEW b \in Blobs, b \notin unsynced', disk'[b] = "new"
                 PROVE  \E p \in EvCallers : evCall'[p].at = "placed" /\ BlobOf(p)' = b
      BY DEF NewIsPlaced
    <2>1. CASE b = BlobOf(q)
      BY <1>4, <2>1
    <2>2. CASE b # BlobOf(q)
      <3>1. PICK p \in EvCallers : evCall[p].at = "placed" /\ BlobOf(p) = b
        BY <2>2 DEF EvInv, NewIsPlaced
      <3>2. p # q
        BY <2>2, <3>1
      <3> QED  BY <1>2, <3>1, <3>2 DEF NoEv
    <2> QED  BY <2>1, <2>2
  <1> QED  BY <1>3, <1>5, <1>6 DEF EvInv

\* Every transaction ends: what was new may be lost, or has been synced by chance.
LEMMA AllEndKeeps ==
    ASSUME EvInv, evCall' = [q \in EvCallers |-> NoEv], UNCHANGED <<evDb, evRows, quarantined>>,
           unsynced' \subseteq Blobs, unsynced \subseteq unsynced', disk' \in [Blobs -> {"none", "new", "good", "bad"}],
           \A b \in Blobs \ unsynced' : disk[b] # "new" => disk'[b] = disk[b],
           evDb = "sqlite" => \A b \in Blobs \ unsynced' : disk'[b] # "new"
    PROVE  EvInv'
  <1>1. EvTypeOK'
    BY DEF EvInv, EvTypeOK
  <1>2. StoresAreAlone' /\ WhatItFound'
    BY DEF StoresAreAlone, WhatItFound, NoEv
  <1>3. NewIsPlaced'
    BY DEF NewIsPlaced
  <1>4. RowsAreSynced'
    <2> SUFFICES ASSUME evDb = "sqlite", NEW row \in evRows, row[2] \notin unsynced'
                 PROVE  disk'[row[2]] \in {"good", "bad"} \/ Rotten(row[2])
      BY DEF RowsAreSynced, Rotten
    <2>1. row[2] \in Blobs
      BY DEF EvInv, EvTypeOK, RowType
    <2>2. disk[row[2]] \in {"good", "bad"} \/ Rotten(row[2])
      BY DEF EvInv, RowsAreSynced, Rotten
    <2> QED  BY <2>1, <2>2
  <1>5. OnlyRottenIsPutAway'
    BY DEF EvInv, OnlyRottenIsPutAway
  <1> QED  BY <1>1, <1>2, <1>3, <1>4, <1>5 DEF EvInv

LEMMA EvNextKeeps ==
    ASSUME EvInv, EvNext
    PROVE  EvInv'
  <1>0. EvTypeOK /\ StoresAreAlone /\ WhatItFound /\ NewIsPlaced /\ RowsAreSynced /\ OnlyRottenIsPutAway
    BY DEF EvInv
  <1>1. ASSUME NEW q \in EvCallers, Stage(q) PROVE EvInv'
    <2>1. evCall[q].at = "absent" /\ UNCHANGED <<evDb, evRows, disk, quarantined, unsynced>>
      BY <1>1 DEF Stage
    <2>2. /\ evCall[q] \in EvCallType /\ evCall[q].row \in RowType /\ BlobOf(q) \in Blobs
      BY <1>0, <2>1, EvCallIs
    <2>3. PICK at \in {"staged", "stored"} : /\ EvStep(q, at)
                                             /\ at = "stored" => disk[BlobOf(q)] # "none"
      BY <1>1 DEF Stage
    <2>4. /\ evCall' \in [EvCallers -> {NoEv} \cup EvCallType]
          /\ evCall'[q].at = at /\ evCall'[q].row = evCall[q].row /\ evCall'[q] # NoEv
          /\ \A p \in EvCallers : p # q => evCall'[p] = evCall[p]
      BY <1>0, <2>1, <2>3, EvStepIs
    <2>5. evDb = "sqlite" /\ BlobOf(q) \notin unsynced => disk[BlobOf(q)] # "new"
      BY <1>0, <2>1, <2>2 DEF NewIsPlaced, StoresAreAlone, NoEv
    <2>6. disk[BlobOf(q)] \in {"none", "new", "good", "bad"}
      BY <1>0, <2>2 DEF EvTypeOK
    <2>7. EvTypeOK' /\ RowsAreSynced' /\ OnlyRottenIsPutAway'
      BY <1>0, <2>1, <2>4 DEF EvTypeOK, RowsAreSynced, Rotten, OnlyRottenIsPutAway
    <2> QED  BY <2>1, <2>3, <2>4, <2>5, <2>6, <2>7, OwnStepKeeps
  <1>2. ASSUME NEW q \in EvCallers, Place(q) PROVE EvInv'
    <2>1. /\ evCall[q].at = "staged" /\ UNCHANGED <<evDb, evRows, quarantined>>
          /\ unsynced' \in {unsynced, unsynced \cup {BlobOf(q)}}
      BY <1>2 DEF Place
    <2>2. /\ evCall[q] \in EvCallType /\ evCall[q].row \in RowType /\ BlobOf(q) \in Blobs
      BY <1>0, <2>1, EvCallIs
    <2>3. disk[BlobOf(q)] \in {"none", "new", "good", "bad"}
      BY <1>0, <2>2 DEF EvTypeOK
    <2>4. evDb = "sqlite" /\ BlobOf(q) \notin unsynced => disk[BlobOf(q)] # "new"
      BY <1>0, <2>1, <2>2 DEF NewIsPlaced, StoresAreAlone, NoEv
    <2>5. CASE disk[BlobOf(q)] = "none"
      <3>1. disk' = [disk EXCEPT ![BlobOf(q)] = "new"] /\ EvStep(q, "placed")
        BY <1>2, <2>5 DEF Place
      <3>2. /\ evCall' \in [EvCallers -> {NoEv} \cup EvCallType]
            /\ evCall'[q].at = "placed" /\ evCall'[q].row = evCall[q].row /\ evCall'[q] # NoEv
            /\ \A p \in EvCallers : p # q => evCall'[p] = evCall[p]
        BY <1>0, <2>1, <3>1, EvStepIs
      <3>3. /\ disk' \in [Blobs -> {"none", "new", "good", "bad"}] /\ disk'[BlobOf(q)] = "new"
            /\ \A b \in Blobs : b # BlobOf(q) => disk'[b] = disk[b]
        BY <1>0, <2>2, <3>1 DEF EvTypeOK
      <3>4. EvTypeOK'
        BY <1>0, <2>1, <2>2, <3>2, <3>3 DEF EvTypeOK
      <3>5. RowsAreSynced' /\ OnlyRottenIsPutAway'
        <4>1. \A row \in evRows : row[2] \in Blobs
          BY <1>0 DEF EvTypeOK, RowType
        <4>2. unsynced \subseteq unsynced' /\ (\A b : Rotten(b) => Rotten(b)')
          BY <2>1 DEF Rotten
        <4>3. RowsAreSynced'
          <5> SUFFICES ASSUME evDb' = "sqlite", NEW row \in evRows', row[2] \notin unsynced'
                       PROVE  disk'[row[2]] \in {"good", "bad"} \/ Rotten(row[2])'
            BY DEF RowsAreSynced
          <5>1. disk[row[2]] \in {"good", "bad"} \/ Rotten(row[2])
            BY <1>0, <2>1, <4>2 DEF RowsAreSynced
          <5> QED  BY <2>5, <3>3, <4>1, <4>2, <5>1, <2>1
        <4>4. OnlyRottenIsPutAway'
          BY <1>0, <2>1 DEF OnlyRottenIsPutAway
        <4> QED  BY <4>3, <4>4
      <3> QED  BY <2>1, <3>2, <3>3, <3>4, <3>5, OwnStepKeeps
    <2>6. CASE disk[BlobOf(q)] # "none"
      <3>1. disk' = disk /\ EvStep(q, "stored")
        BY <1>2, <2>6 DEF Place
      <3>2. /\ evCall' \in [EvCallers -> {NoEv} \cup EvCallType]
            /\ evCall'[q].at = "stored" /\ evCall'[q].row = evCall[q].row /\ evCall'[q] # NoEv
            /\ \A p \in EvCallers : p # q => evCall'[p] = evCall[p]
        BY <1>0, <2>1, <3>1, EvStepIs
      <3>3. EvTypeOK' /\ RowsAreSynced' /\ OnlyRottenIsPutAway'
        BY <1>0, <2>1, <2>2, <3>1, <3>2 DEF EvTypeOK, RowsAreSynced, Rotten, OnlyRottenIsPutAway
      <3> QED  BY <2>1, <2>3, <2>4, <2>6, <3>1, <3>2, <3>3, OwnStepKeeps
    <2> QED  BY <2>5, <2>6
  <1>3. ASSUME NEW q \in EvCallers, SyncShard(q) PROVE EvInv'
    <2>1. /\ evCall[q].at = "placed" /\ UNCHANGED <<evDb, evRows, quarantined, unsynced>>
          /\ disk' = [disk EXCEPT ![BlobOf(q)] = Synced(disk[BlobOf(q)])] /\ EvStep(q, "stored")
      BY <1>3 DEF SyncShard
    <2>2. /\ evCall[q] \in EvCallType /\ evCall[q].row \in RowType /\ BlobOf(q) \in Blobs
      BY <1>0, <2>1, EvCallIs
    <2>3. disk[BlobOf(q)] \in {"none", "new", "good", "bad"}
      BY <1>0, <2>2 DEF EvTypeOK
    <2>4. /\ evCall' \in [EvCallers -> {NoEv} \cup EvCallType]
          /\ evCall'[q].at = "stored" /\ evCall'[q].row = evCall[q].row /\ evCall'[q] # NoEv
          /\ \A p \in EvCallers : p # q => evCall'[p] = evCall[p]
      BY <1>0, <2>1, EvStepIs
    <2>5. /\ disk'[BlobOf(q)] = (IF disk[BlobOf(q)] = "new" THEN "good" ELSE disk[BlobOf(q)])
          /\ \A b \in Blobs : b # BlobOf(q) => disk'[b] = disk[b]
          /\ disk' \in [Blobs -> {"none", "new", "good", "bad"}]
      BY <1>0, <2>1, <2>2, <2>3 DEF EvTypeOK, Synced
    <2>6. evDb = "sqlite" /\ BlobOf(q) \notin unsynced => disk[BlobOf(q)] # "none"
      BY <1>0, <2>1 DEF WhatItFound
    <2>7. EvTypeOK'
      BY <1>0, <2>1, <2>4, <2>5 DEF EvTypeOK
    <2>8. RowsAreSynced' /\ OnlyRottenIsPutAway'
      <3>1. \A row \in evRows : row[2] \in Blobs
        BY <1>0 DEF EvTypeOK, RowType
      <3> QED  BY <1>0, <2>1, <2>5, <3>1 DEF RowsAreSynced, Rotten, OnlyRottenIsPutAway
    <2> QED  BY <2>1, <2>3, <2>4, <2>5, <2>6, <2>7, <2>8, OwnStepKeeps
  <1>4. ASSUME NEW q \in EvCallers, SyncFails(q) PROVE EvInv'
    <2>1. /\ evCall[q].at = "placed" /\ UNCHANGED <<evDb, evRows, disk, quarantined>>
          /\ unsynced' = unsynced \cup {BlobOf(q)} /\ EvStep(q, "stored")
      BY <1>4 DEF SyncFails
    <2>2. /\ evCall' \in [EvCallers -> {NoEv} \cup EvCallType]
          /\ evCall'[q].at = "stored" /\ evCall'[q].row = evCall[q].row /\ evCall'[q] # NoEv
          /\ \A p \in EvCallers : p # q => evCall'[p] = evCall[p]
      BY <1>0, <2>1, EvStepIs
    <2>3. BlobOf(q) \in Blobs
      BY <1>0, <2>1, EvCallIs
    <2>4. EvTypeOK'
      BY <1>0, <2>1, <2>2, <2>3 DEF EvTypeOK
    <2>5. RowsAreSynced' /\ OnlyRottenIsPutAway'
      BY <1>0, <2>1 DEF RowsAreSynced, Rotten, OnlyRottenIsPutAway, Rotten
    <2> QED  BY <2>1, <2>2, <2>4, <2>5, OwnStepKeeps
  <1>5. ASSUME NEW q \in EvCallers, StoreEvidence(q) PROVE EvInv'
    <2>1. /\ evCall[q].at = "stored" /\ UNCHANGED <<evDb, disk, quarantined, unsynced>> /\ EvEnd(q)
          /\ evRows' \subseteq evRows \cup {evCall[q].row}
      BY <1>5 DEF StoreEvidence
    <2>2. /\ evCall[q] \in EvCallType /\ evCall[q].row \in RowType /\ BlobOf(q) \in Blobs
      BY <1>0, <2>1, EvCallIs
    <2>3. /\ evCall' \in [EvCallers -> {NoEv} \cup EvCallType]
          /\ evCall'[q] = NoEv /\ NoEv.at = "idle"
          /\ \A p \in EvCallers : p # q => evCall'[p] = evCall[p]
      BY <1>0, <2>1, EvEndIs
    <2>4. evDb = "sqlite" /\ BlobOf(q) \notin unsynced => disk[BlobOf(q)] \in {"good", "bad"}
      BY <1>0, <2>1 DEF WhatItFound
    <2>5. EvTypeOK'
      BY <1>0, <2>1, <2>2, <2>3 DEF EvTypeOK
    <2>6. RowsAreSynced' /\ OnlyRottenIsPutAway'
      BY <1>0, <2>1, <2>4 DEF RowsAreSynced, Rotten, OnlyRottenIsPutAway, BlobOf
    <2> QED  BY <2>1, <2>3, <2>4, <2>5, <2>6, OwnStepKeeps
  <1>6. ASSUME NEW q \in EvCallers, AbortStore(q) PROVE EvInv'
    <2>1. /\ evCall[q].at \in {"absent", "staged", "stored"} /\ EvEnd(q)
          /\ UNCHANGED <<evDb, evRows, disk, quarantined, unsynced>>
      BY <1>6 DEF AbortStore
    <2>2. BlobOf(q) \in Blobs
      BY <1>0, <2>1, EvCallIs
    <2>3. /\ evCall' \in [EvCallers -> {NoEv} \cup EvCallType]
          /\ evCall'[q] = NoEv /\ NoEv.at = "idle"
          /\ \A p \in EvCallers : p # q => evCall'[p] = evCall[p]
      BY <1>0, <2>1, EvEndIs
    <2>4. evDb = "sqlite" /\ BlobOf(q) \notin unsynced => disk[BlobOf(q)] # "new"
      BY <1>0, <2>1, <2>2 DEF NewIsPlaced, StoresAreAlone, NoEv
    <2>5. EvTypeOK' /\ RowsAreSynced' /\ OnlyRottenIsPutAway'
      BY <1>0, <2>1, <2>3 DEF EvTypeOK, RowsAreSynced, Rotten, OnlyRottenIsPutAway
    <2> QED  BY <2>1, <2>3, <2>4, <2>5, OwnStepKeeps
  <1>7. ASSUME NEW q \in EvCallers, Quarantine(q) PROVE EvInv'
    <2>1. evCall[q].at = "mismatch" /\ EvEnd(q) /\ UNCHANGED <<evDb, evRows, unsynced>>
      BY <1>7 DEF Quarantine
    <2>2. BlobOf(q) \in Blobs
      BY <1>0, <2>1, EvCallIs
    <2>3. /\ evCall' \in [EvCallers -> {NoEv} \cup EvCallType]
          /\ evCall'[q] = NoEv /\ NoEv.at = "idle"
          /\ \A p \in EvCallers : p # q => evCall'[p] = evCall[p]
      BY <1>0, <2>1, EvEndIs
    <2>4. evDb = "sqlite" => disk[BlobOf(q)] = "bad"
      BY <1>0, <2>1 DEF WhatItFound
    <2>5. CASE disk[BlobOf(q)] = "none"
      <3>1. disk' = disk /\ quarantined' = quarantined
        BY <1>7, <2>5 DEF Quarantine
      <3>2. EvTypeOK' /\ RowsAreSynced' /\ OnlyRottenIsPutAway'
        BY <1>0, <2>1, <2>3, <3>1 DEF EvTypeOK, RowsAreSynced, Rotten, OnlyRottenIsPutAway
      <3> QED  BY <2>1, <2>3, <2>5, <3>1, <3>2, OwnStepKeeps
    <2>6. CASE disk[BlobOf(q)] # "none"
      <3>1. /\ quarantined' = quarantined \cup {<<BlobOf(q), disk[BlobOf(q)]>>}
            /\ disk' = [disk EXCEPT ![BlobOf(q)] = "none"]
        BY <1>7, <2>6 DEF Quarantine, Moved
      <3>2. /\ disk' \in [Blobs -> {"none", "new", "good", "bad"}] /\ disk'[BlobOf(q)] = "none"
            /\ \A b \in Blobs : b # BlobOf(q) => disk'[b] = disk[b]
        BY <1>0, <2>2, <3>1 DEF EvTypeOK
      <3>3. EvTypeOK'
        BY <1>0, <2>1, <2>3, <3>2 DEF EvTypeOK
      <3>4. RowsAreSynced' /\ OnlyRottenIsPutAway'
        <4>1. \A row \in evRows : row[2] \in Blobs
          BY <1>0 DEF EvTypeOK, RowType
        <4>2. evDb = "sqlite" => <<BlobOf(q), "bad">> \in quarantined'
          BY <2>4, <3>1
        <4>3. quarantined \subseteq quarantined'
          BY <3>1
        <4>4. RowsAreSynced'
          BY <1>0, <2>1, <3>2, <4>1, <4>2, <4>3 DEF RowsAreSynced, Rotten
        <4>5. OnlyRottenIsPutAway'
          BY <1>0, <2>1, <2>4, <3>1 DEF OnlyRottenIsPutAway
        <4> QED  BY <4>4, <4>5
      <3> QED  BY <2>1, <2>3, <3>2, <3>3, <3>4, OwnStepKeeps
    <2> QED  BY <2>5, <2>6
  <1>8. ASSUME NEW q \in EvCallers, NEW t \in EvTenants, NEW b \in Blobs, FindBySHA(q, t, b) \/ ReadMismatch(q, t, b)
        PROVE  EvInv'
    <2>1. CASE FindBySHA(q, t, b)
      <3>1. /\ CanBeginEv /\ evCall' = [evCall EXCEPT ![q] = [at |-> "absent", row |-> <<t, b>>]]
            /\ UNCHANGED <<evDb, evRows, disk, quarantined, unsynced>>
        BY <2>1 DEF FindBySHA
      <3> QED  BY <3>1, BeginsAlone
    <2>2. CASE ReadMismatch(q, t, b)
      <3>1. /\ CanBeginEv /\ evCall' = [evCall EXCEPT ![q] = [at |-> "mismatch", row |-> <<t, b>>]]
            /\ UNCHANGED <<evDb, evRows, disk, quarantined, unsynced>> /\ disk[b] = "bad"
        BY <2>2 DEF ReadMismatch
      <3> QED  BY <3>1, BeginsAlone
    <2> QED  BY <1>8, <2>1, <2>2
  <1>9. ASSUME NEW b \in Blobs, Rot(b) PROVE EvInv'
    <2>1. /\ disk[b] \in {"new", "good"} /\ disk' = [disk EXCEPT ![b] = "bad"]
          /\ UNCHANGED <<evDb, evRows, quarantined, evCall, unsynced>>
      BY <1>9 DEF Rot
    <2>2. /\ disk' \in [Blobs -> {"none", "new", "good", "bad"}] /\ disk'[b] = "bad"
          /\ \A x \in Blobs : x # b => disk'[x] = disk[x]
      BY <1>0, <2>1 DEF EvTypeOK
    <2>3. EvTypeOK' /\ StoresAreAlone' /\ OnlyRottenIsPutAway'
      BY <1>0, <2>1, <2>2 DEF EvTypeOK, StoresAreAlone, OnlyRottenIsPutAway
    <2>4. WhatItFound'
      <3>1. \A q \in EvCallers : evCall[q].at # "idle" => BlobOf(q) \in Blobs
        BY <1>0, EvCallIs
      <3> QED  BY <1>0, <2>1, <2>2, <3>1 DEF WhatItFound, BlobOf
    <2>5. NewIsPlaced'
      BY <1>0, <2>1, <2>2 DEF NewIsPlaced, BlobOf
    <2>6. RowsAreSynced'
      <3>1. \A row \in evRows : row[2] \in Blobs
        BY <1>0 DEF EvTypeOK, RowType
      <3> QED  BY <1>0, <2>1, <2>2, <3>1 DEF RowsAreSynced, Rotten
    <2> QED  BY <2>3, <2>4, <2>5, <2>6 DEF EvInv
  <1>10. CASE KillStorer
    <2>1. /\ evCall' = [q \in EvCallers |-> NoEv] /\ UNCHANGED <<evDb, evRows, disk, quarantined>>
          /\ unsynced' = unsynced \cup {b \in Blobs : \E q \in EvCallers : evCall[q].at = "placed" /\ BlobOf(q) = b}
      BY <1>10 DEF KillStorer
    <2>2. unsynced' \subseteq Blobs /\ unsynced \subseteq unsynced' /\ disk' \in [Blobs -> {"none", "new", "good", "bad"}]
      BY <1>0, <2>1 DEF EvTypeOK
    <2>3. evDb = "sqlite" => \A b \in Blobs \ unsynced' : disk'[b] # "new"
      BY <1>0, <2>1 DEF NewIsPlaced
    <2> QED  BY <2>1, <2>2, <2>3, AllEndKeeps
  <1> QED  BY <1>1, <1>2, <1>3, <1>4, <1>5, <1>6, <1>7, <1>8, <1>9, <1>10 DEF EvNext

LEMMA PowerLossKeeps ==
    ASSUME EvInv, NEW lost \in SUBSET Blobs, PowerLoss(lost)
    PROVE  EvInv'
  <1>1. /\ evCall' = [q \in EvCallers |-> NoEv] /\ UNCHANGED <<evDb, evRows, quarantined, unsynced>>
        /\ \A b \in lost : disk[b] = "new" \/ b \in unsynced
        /\ disk' = [b \in Blobs |-> IF b \in lost THEN "none" ELSE IF disk[b] = "new" THEN "good" ELSE disk[b]]
    BY DEF PowerLoss
  <1>2. disk \in [Blobs -> {"none", "new", "good", "bad"}] /\ unsynced \subseteq Blobs
    BY DEF EvInv, EvTypeOK
  <1>3. /\ disk' \in [Blobs -> {"none", "new", "good", "bad"}]
        /\ \A b \in Blobs : disk'[b] # "new"
        /\ \A b \in Blobs \ unsynced' : disk[b] # "new" => disk'[b] = disk[b]
    BY <1>1, <1>2
  <1> QED  BY <1>1, <1>2, <1>3, AllEndKeeps

LEMMA EvOnlyGrows ==
    ASSUME EvInv, EvNext
    PROVE  /\ evDb' = evDb /\ evRows \subseteq evRows' /\ quarantined \subseteq quarantined'
           /\ unsynced \subseteq unsynced'
  BY DEF EvInv, EvTypeOK, EvNext, Stage, Place, SyncShard, SyncFails, StoreEvidence, AbortStore, Quarantine, FindBySHA,
         ReadMismatch, Rot, KillStorer

\* Between power losses a file goes away only when a read puts it away, on SQLite as rotten.
LEMMA OnlyRottenLeaves ==
    ASSUME EvInv, EvNext, evDb = "sqlite", NEW b \in Blobs, disk[b] # "none", disk'[b] = "none"
    PROVE  Rotten(b)'
  <1>1. disk \in [Blobs -> {"none", "new", "good", "bad"}] /\ WhatItFound /\ EvTypeOK
    BY DEF EvInv, EvTypeOK
  <1>2. ASSUME NEW q \in EvCallers, Quarantine(q) PROVE Rotten(b)'
    <2>1. evCall[q].at = "mismatch"
      BY <1>2 DEF Quarantine
    <2>2. BlobOf(q) \in Blobs /\ disk[BlobOf(q)] = "bad"
      BY <1>1, <2>1, EvCallIs DEF WhatItFound
    <2>3. /\ quarantined' = quarantined \cup {<<BlobOf(q), "bad">>}
          /\ disk' = [disk EXCEPT ![BlobOf(q)] = "none"]
      BY <1>2, <2>2 DEF Quarantine, Moved
    <2>4. b = BlobOf(q)
      BY <1>1, <2>2, <2>3
    <2> QED  BY <2>3, <2>4 DEF Rotten
  <1>3. ASSUME NEW q \in EvCallers, Place(q) PROVE FALSE
    <2>1. evCall[q].at = "staged"
      BY <1>3 DEF Place
    <2>2. BlobOf(q) \in Blobs
      BY <1>1, <2>1, EvCallIs
    <2> QED  BY <1>1, <1>3, <2>2 DEF Place
  <1>4. ASSUME NEW q \in EvCallers, SyncShard(q) PROVE FALSE
    <2>1. evCall[q].at = "placed"
      BY <1>4 DEF SyncShard
    <2>2. BlobOf(q) \in Blobs
      BY <1>1, <2>1, EvCallIs
    <2> QED  BY <1>1, <1>4, <2>2 DEF SyncShard, Synced
  <1>5. ASSUME NEW x \in Blobs, Rot(x) PROVE FALSE
    BY <1>1, <1>5 DEF Rot
  <1>6. disk' # disk
    OBVIOUS
  <1>7. ASSUME NEW q \in EvCallers
        PROVE  /\ ~Stage(q) /\ ~SyncFails(q) /\ ~StoreEvidence(q) /\ ~AbortStore(q)
               /\ \A t \in EvTenants, x \in Blobs : ~FindBySHA(q, t, x) /\ ~ReadMismatch(q, t, x)
    BY <1>6 DEF Stage, SyncFails, StoreEvidence, AbortStore, FindBySHA, ReadMismatch
  <1>8. ~KillStorer
    BY <1>6 DEF KillStorer
  <1> QED  BY <1>2, <1>3, <1>4, <1>5, <1>7, <1>8 DEF EvNext


--------------------------------------------------------------------------------
(* Backups and restores. *)

LEMMA RowsHaveBlobsFollows ==
    ASSUME EvInv
    PROVE  EvidenceIsSound
  BY DEF EvInv, RowsAreSynced, Rotten, OnlyRottenIsPutAway, RowsHaveBlobs, EvidenceIsSound

\* Evidence goes on beside a backup and a restore.
LEMMA BesideBackups ==
    ASSUME BackupInv, EvInv', UNCHANGED backupOnly, evDb' = evDb, evRows \subseteq evRows',
           quarantined \subseteq quarantined', unsynced \subseteq unsynced',
           evDb = "sqlite" => \A b \in Blobs : disk[b] # "none" /\ disk'[b] = "none" => Rotten(b)'
    PROVE  BackupInv'
  <1>1. UNCHANGED <<underway, backups, target, restoring>>
    BY DEF backupOnly
  <1>2. BackupTypeOK'
    BY <1>1 DEF BackupInv, BackupTypeOK
  <1>3. WalkCovers'
    <2>1. underway # NoBackup => underway.listed \subseteq Blobs
      BY DEF BackupInv, BackupTypeOK, WalkType
    <2> QED  BY <1>1, <2>1 DEF BackupInv, WalkCovers, Closed, Rotten
  <1>4. RestoreFollows'
    BY <1>1 DEF BackupInv, RestoreFollows
  <1>5. BackupIsClosed'
    BY <1>1 DEF BackupInv, BackupIsClosed, Closed, Rotten
  <1> QED  BY <1>2, <1>3, <1>4, <1>5 DEF BackupInv

LEMMA EvInvSame ==
    ASSUME EvInv, UNCHANGED <<evDb, evRows, disk, quarantined, evCall, unsynced>>
    PROVE  EvInv'
  <1>1. EvTypeOK' /\ StoresAreAlone' /\ OnlyRottenIsPutAway'
    BY DEF EvInv, EvTypeOK, StoresAreAlone, OnlyRottenIsPutAway
  <1>2. WhatItFound' /\ NewIsPlaced'
    BY DEF EvInv, WhatItFound, NewIsPlaced, BlobOf
  <1>3. RowsAreSynced'
    BY DEF EvInv, RowsAreSynced, Rotten
  <1> QED  BY <1>1, <1>2, <1>3 DEF EvInv

\* The walk goes on: left, listed and blobs together have lost only what was put away.
LEMMA WalkKeeps ==
    ASSUME BackupInv, NEW w \in WalkType, underway # NoBackup, underway' = w, w.rows = underway.rows,
           \A row \in underway.rows :
               w.gone = {} /\ evDb = "sqlite" /\ row[2] \in underway.left \cup underway.listed \cup underway.blobs
                   => row[2] \in w.left \cup w.listed \cup w.blobs \/ Rotten(row[2]) \/ row[2] \in unsynced,
           w.gone = {} => underway.gone = {},
           \A b \in w.listed \ underway.listed : disk[b] # "none",
           \A b \in w.gone \ underway.gone : Rotten(b),
           UNCHANGED <<evVars, backups, target, restoring, restores>>
    PROVE  BackupInv'
  <1>1. UNCHANGED <<evDb, evRows, disk, quarantined, evCall, unsynced>>
    BY DEF evVars
  <1>2. EvInv'
    BY <1>1, EvInvSame DEF BackupInv
  <1>3. BackupTypeOK'
    BY DEF BackupInv, BackupTypeOK
  <1>4. WalkCovers'
    BY <1>1 DEF BackupInv, WalkCovers, Closed, Rotten
  <1>5. RestoreFollows' /\ BackupIsClosed'
    BY <1>1 DEF BackupInv, RestoreFollows, BackupIsClosed, Closed, Rotten
  <1> QED  BY <1>2, <1>3, <1>4, <1>5 DEF BackupInv

\* A file comes to be in the backup directory.
LEMMA ArchiveKeeps ==
    ASSUME BackupInv, underway # NoBackup, NEW whole \in BOOLEAN, NEW wellFormed \in BOOLEAN,
           backups' = backups \cup {ArchiveOf(whole, wellFormed)},
           whole => underway.left = {} /\ underway.listed = {},
           underway' \in {NoBackup, underway},
           UNCHANGED <<evDb, evRows, disk, quarantined, evCall, unsynced, target, restoring>>
    PROVE  BackupInv'
  <1> DEFINE a == ArchiveOf(whole, wellFormed)
  <1>1. underway \in WalkType
    BY DEF BackupInv, BackupTypeOK
  <1>2. a = [rows |-> underway.rows, blobs |-> underway.blobs, gone |-> underway.gone, whole |-> whole, wellFormed |-> wellFormed]
    BY DEF ArchiveOf
  <1>3. a \in BackupType /\ a.rows = underway.rows /\ a.blobs = underway.blobs /\ a.gone = underway.gone
        /\ a.whole = whole
    BY <1>1, <1>2 DEF WalkType, BackupType
  <1> HIDE DEF a
  <1>4. EvInv'
    BY EvInvSame DEF BackupInv
  <1>5. BackupTypeOK'
    BY <1>3 DEF BackupInv, BackupTypeOK, a
  <1>6. WalkCovers'
    BY DEF BackupInv, WalkCovers, Closed, Rotten
  <1>7. RestoreFollows'
    BY DEF BackupInv, RestoreFollows
  <1>8. BackupIsClosed'
    <2>1. a.whole => (a.gone = {} => Closed(a.rows, a.blobs)) /\ \A b \in a.gone : Rotten(b)
      BY <1>3 DEF BackupInv, WalkCovers, Closed
    <2> QED  BY <2>1 DEF BackupInv, BackupIsClosed, Closed, Rotten, a
  <1> QED  BY <1>4, <1>5, <1>6, <1>7, <1>8 DEF BackupInv

\* A restore writes, and leaves the archives alone.
LEMMA RestoreKeeps ==
    ASSUME BackupInv, UNCHANGED <<evVars, underway, backups>>,
           target' \in [rows : SUBSET RowType, blobs : SUBSET Blobs],
           restoring' \in {NoBackup} \cup RestoreType, RestoreFollows'
    PROVE  BackupInv'
  <1>1. UNCHANGED <<evDb, evRows, disk, quarantined, evCall, unsynced>>
    BY DEF evVars
  <1>2. EvInv'
    BY <1>1, EvInvSame DEF BackupInv
  <1>3. BackupTypeOK'
    BY DEF BackupInv, BackupTypeOK
  <1>4. WalkCovers' /\ BackupIsClosed'
    BY <1>1 DEF BackupInv, WalkCovers, BackupIsClosed, Closed, Rotten
  <1> QED  BY <1>2, <1>3, <1>4 DEF BackupInv

\* What is under way, and what is restored.
LEMMA UnderwayIs ==
    ASSUME BackupTypeOK
    PROVE  /\ underway.at = "walk" => underway \in WalkType /\ underway # NoBackup
           /\ restoring.at # "idle" => restoring \in RestoreType /\ restoring # NoBackup
  BY DEF BackupTypeOK, NoBackup, WalkType, RestoreType

LEMMA BackupNextKeeps ==
    ASSUME BackupInv, BackupNext
    PROVE  BackupInv'
  <1>0. EvInv /\ EvTypeOK /\ BackupTypeOK /\ WalkCovers /\ RestoreFollows /\ BackupIsClosed
    BY DEF BackupInv, EvInv
  <1>1. CASE EvNext /\ UNCHANGED backupOnly
    BY <1>0, <1>1, EvNextKeeps, EvOnlyGrows, OnlyRottenLeaves, BesideBackups
  <1>2. CASE SnapshotDatabase
    <2> DEFINE w == [at |-> "walk", rows |-> evRows, blobs |-> {}, left |-> Blobs, listed |-> {}, gone |-> {}]
    <2>1. /\ evDb = "sqlite" /\ underway' = w
          /\ UNCHANGED <<evVars, backups, target, restoring, restores>>
      BY <1>2 DEF SnapshotDatabase
    <2>2. UNCHANGED <<evDb, evRows, disk, quarantined, evCall, unsynced>>
      BY <2>1 DEF evVars
    <2>3. w \in WalkType /\ w.rows = evRows /\ w.left = Blobs /\ w.listed = {} /\ w.gone = {}
      BY <1>0 DEF WalkType, EvTypeOK
    <2> HIDE DEF w
    <2>4. EvInv' /\ BackupTypeOK'
      BY <1>0, <2>1, <2>2, <2>3, EvInvSame DEF BackupTypeOK
    <2>5. WalkCovers'
      <3>1. \A row \in evRows : row[2] \in Blobs
        BY <1>0 DEF EvTypeOK, RowType
      <3> QED  BY <2>1, <2>2, <2>3, <3>1 DEF WalkCovers, Closed
    <2>6. RestoreFollows' /\ BackupIsClosed'
      BY <1>0, <2>1, <2>2 DEF RestoreFollows, BackupIsClosed, Closed, Rotten
    <2> QED  BY <2>4, <2>5, <2>6 DEF BackupInv
  <1>3. ASSUME NEW b \in Blobs, ListShard(b) PROVE BackupInv'
    <2> DEFINE u == underway
               more == IF disk[b] = "none" THEN {} ELSE {b}
               w == [u EXCEPT !.left = u.left \ {b}, !.listed = u.listed \cup more]
    <2>1. /\ underway.at = "walk" /\ underway' = w
          /\ UNCHANGED <<evVars, backups, target, restoring, restores>>
      BY <1>3 DEF ListShard
    <2>2. u \in WalkType /\ u # NoBackup /\ more \subseteq Blobs
      BY <1>0, <2>1, UnderwayIs
    <2> HIDE DEF u, more
    <2>3. /\ w \in WalkType /\ w.rows = u.rows /\ w.left = u.left \ {b} /\ w.listed = u.listed \cup more
          /\ w.blobs = u.blobs /\ w.gone = u.gone
      BY <2>2 DEF WalkType
    <2> HIDE DEF w
    <2>4. ASSUME NEW row \in u.rows, evDb = "sqlite", row[2] \in u.left \cup u.listed \cup u.blobs
          PROVE  row[2] \in w.left \cup w.listed \cup w.blobs \/ Rotten(row[2]) \/ row[2] \in unsynced
      <3>1. CASE row[2] # b
        BY <2>3, <2>4, <3>1
      <3>2. CASE row[2] = b
        <4>1. row \in evRows
          BY <1>0, <2>2, <2>4 DEF WalkCovers, u
        <4>2. disk[b] # "none" \/ Rotten(b) \/ b \in unsynced
          BY <1>0, <2>4, <3>2, <4>1 DEF EvInv, RowsAreSynced, Rotten
        <4> QED  BY <2>3, <3>2, <4>2 DEF more
      <3> QED  BY <3>1, <3>2
    <2>5. \A x \in w.listed \ u.listed : disk[x] # "none"
      BY <2>3 DEF more
    <2> QED  BY <2>1, <2>2, <2>3, <2>4, <2>5, WalkKeeps DEF u
  <1>4. ASSUME NEW b \in Blobs, WriteFileToTar(b) PROVE BackupInv'
    <2> DEFINE u == underway
               w == [u EXCEPT !.listed = u.listed \ {b}, !.blobs = u.blobs \cup {b}]
    <2>1. /\ underway.at = "walk" /\ underway' = w
          /\ UNCHANGED <<evVars, backups, target, restoring, restores>>
      BY <1>4 DEF WriteFileToTar
    <2>2. u \in WalkType /\ u # NoBackup
      BY <1>0, <2>1, UnderwayIs
    <2> HIDE DEF u
    <2>3. /\ w \in WalkType /\ w.rows = u.rows /\ w.left = u.left /\ w.listed = u.listed \ {b}
          /\ w.blobs = u.blobs \cup {b} /\ w.gone = u.gone
      BY <2>2 DEF WalkType
    <2> HIDE DEF w
    <2>4. \A row \in u.rows : row[2] \in u.left \cup u.listed \cup u.blobs => row[2] \in w.left \cup w.listed \cup w.blobs
      BY <2>3
    <2>5. \A x \in w.listed \ u.listed : disk[x] # "none"
      BY <2>3
    <2> QED  BY <2>1, <2>2, <2>3, <2>4, <2>5, WalkKeeps DEF u
  <1>14. ASSUME NEW b \in Blobs, WalkStops(b) PROVE BackupInv'
    <2> DEFINE u == underway
               w == [u EXCEPT !.left = {}, !.listed = {}, !.gone = {b}]
    <2>1. /\ underway.at = "walk" /\ b \in underway.listed /\ disk[b] = "none" /\ underway' = w
          /\ UNCHANGED <<evVars, backups, target, restoring, restores>>
      BY <1>14 DEF WalkStops
    <2>2. u \in WalkType /\ u # NoBackup
      BY <1>0, <2>1, UnderwayIs
    <2>3. Rotten(b)
      BY <1>0, <2>1, <2>2 DEF WalkCovers
    <2> HIDE DEF u
    <2>4. w \in WalkType /\ w.rows = u.rows /\ w.listed = {} /\ w.gone = {b}
      BY <2>2 DEF WalkType
    <2> HIDE DEF w
    <2> QED  BY <2>1, <2>2, <2>3, <2>4, WalkKeeps DEF u
  <1>15. ASSUME NEW lost \in SUBSET Blobs, BlackOut(lost) PROVE BackupInv'
    <2>1. /\ PowerLoss(lost) /\ underway' = NoBackup /\ UNCHANGED <<target, restoring>>
          /\ backups' = IF underway.at = "walk" THEN backups \cup {ArchiveOf(FALSE, FALSE)} ELSE backups
      BY <1>15 DEF BlackOut
    <2>2. EvInv' /\ UNCHANGED <<evDb, evRows, quarantined, unsynced>>
      BY <1>0, <2>1, PowerLossKeeps DEF PowerLoss
    <2>3. ASSUME underway.at = "walk" PROVE ArchiveOf(FALSE, FALSE) \in BackupType /\ ~ArchiveOf(FALSE, FALSE).whole
      BY <1>0, <2>3, UnderwayIs DEF WalkType, BackupType, ArchiveOf
    <2>4. BackupTypeOK'
      BY <1>0, <2>1, <2>3 DEF BackupTypeOK
    <2>5. WalkCovers' /\ RestoreFollows'
      BY <1>0, <2>1 DEF WalkCovers, RestoreFollows
    <2>6. BackupIsClosed'
      BY <1>0, <2>1, <2>2, <2>3 DEF BackupIsClosed, Closed, Rotten
    <2> QED  BY <2>2, <2>4, <2>5, <2>6 DEF BackupInv
  <1>5. CASE Download
    <2>1. /\ underway.at = "walk" /\ backups' = backups \cup {ArchiveOf(FALSE, FALSE)}
          /\ UNCHANGED <<evDb, evRows, disk, quarantined, evCall, unsynced, underway, target, restoring>>
      BY <1>5 DEF Download
    <2>2. underway # NoBackup
      BY <1>0, <2>1, UnderwayIs
    <2> QED  BY <2>1, <2>2, ArchiveKeeps
  <1>6. CASE BackupDone
    <2>1. /\ underway.at = "walk" /\ underway.left = {} /\ underway.listed = {} /\ underway' = NoBackup
          /\ backups' = backups \cup {ArchiveOf(TRUE, TRUE)} /\ UNCHANGED <<evVars, target, restoring>>
      BY <1>6 DEF BackupDone
    <2>2. underway # NoBackup /\ UNCHANGED <<evDb, evRows, disk, quarantined, evCall, unsynced>>
      BY <1>0, <2>1, UnderwayIs DEF evVars
    <2> QED  BY <2>1, <2>2, ArchiveKeeps
  <1>7. CASE BackupFails
    <2>1. /\ underway.at = "walk" /\ underway' = NoBackup
          /\ backups' = backups \cup {ArchiveOf(FALSE, TRUE)} /\ UNCHANGED <<evVars, target, restoring>>
      BY <1>7 DEF BackupFails
    <2>2. underway # NoBackup /\ UNCHANGED <<evDb, evRows, disk, quarantined, evCall, unsynced>>
      BY <1>0, <2>1, UnderwayIs DEF evVars
    <2> QED  BY <2>1, <2>2, ArchiveKeeps
  <1>8. CASE BackupKilled
    <2>1. /\ underway.at = "walk" /\ underway' = NoBackup
          /\ backups' = backups \cup {ArchiveOf(FALSE, FALSE)}
          /\ UNCHANGED <<evDb, evRows, disk, quarantined, evCall, unsynced, target, restoring>>
      BY <1>8 DEF BackupKilled
    <2>2. underway # NoBackup
      BY <1>0, <2>1, UnderwayIs
    <2> QED  BY <2>1, <2>2, ArchiveKeeps
  <1>9. ASSUME NEW a \in backups, NEW force \in BOOLEAN, RunRestore(a, force) PROVE BackupInv'
    <2> DEFINE r == [at |-> "extract", archive |-> a]
    <2>1. restoring' = r /\ UNCHANGED <<evVars, underway, backups, target>>
      BY <1>9 DEF RunRestore
    <2>2. a \in BackupType
      BY <1>0 DEF BackupTypeOK
    <2>3. r \in RestoreType /\ r.archive = a /\ r.at = "extract"
      BY <2>2 DEF RestoreType
    <2> HIDE DEF r
    <2>4. RestoreFollows'
      BY <2>1, <2>3 DEF RestoreFollows
    <2>5. target' \in [rows : SUBSET RowType, blobs : SUBSET Blobs]
      BY <1>0, <2>1 DEF BackupTypeOK
    <2> QED  BY <2>1, <2>3, <2>4, <2>5, RestoreKeeps
  <1>10. CASE ExtractDatabase
    <2> DEFINE r == restoring
               s == [r EXCEPT !.at = "blobs"]
               t == [target EXCEPT !.rows = r.archive.rows]
    <2>1. restoring.at = "extract" /\ restoring' = s /\ target' = t /\ UNCHANGED <<evVars, underway, backups>>
      BY <1>10 DEF ExtractDatabase
    <2>2. r \in RestoreType /\ r # NoBackup /\ r.archive \in backups
      BY <1>0, <2>1, UnderwayIs DEF RestoreFollows
    <2>3. r.archive.rows \subseteq RowType
      BY <2>2 DEF RestoreType, BackupType
    <2> HIDE DEF r
    <2>4. s \in RestoreType /\ s.archive = r.archive
      BY <2>2 DEF RestoreType
    <2>5. t \in [rows : SUBSET RowType, blobs : SUBSET Blobs] /\ t.rows = r.archive.rows
      BY <1>0, <2>3 DEF BackupTypeOK
    <2> HIDE DEF s, t
    <2>6. RestoreFollows'
      BY <2>1, <2>2, <2>4, <2>5 DEF RestoreFollows
    <2> QED  BY <2>1, <2>4, <2>5, <2>6, RestoreKeeps
  <1>11. ASSUME NEW more \in SUBSET Blobs, restoring' = NoBackup, UNCHANGED <<evVars, underway, backups>>,
                target' = [target EXCEPT !.blobs = target.blobs \cup more]
         PROVE  BackupInv'
    <2>1. target' \in [rows : SUBSET RowType, blobs : SUBSET Blobs]
      BY <1>0, <1>11 DEF BackupTypeOK
    <2>2. RestoreFollows'
      BY <1>11 DEF RestoreFollows
    <2> QED  BY <1>11, <2>1, <2>2, RestoreKeeps
  <1>12. CASE ExtractEntries
    <2>1. /\ restoring.at = "blobs" /\ restoring' = NoBackup /\ UNCHANGED <<evVars, underway, backups>>
          /\ target' = [target EXCEPT !.blobs = target.blobs \cup restoring.archive.blobs]
      BY <1>12 DEF ExtractEntries
    <2>2. restoring.archive.blobs \subseteq Blobs
      BY <1>0, <2>1, UnderwayIs DEF RestoreType, BackupType
    <2> QED  BY <1>11, <2>1, <2>2
  <1>13. ASSUME NEW unpacked \in SUBSET Blobs, RestoreFails(unpacked) PROVE BackupInv'
    <2>1. /\ restoring' = NoBackup /\ UNCHANGED <<evVars, underway, backups>>
          /\ target' = [target EXCEPT !.blobs = target.blobs \cup unpacked]
      BY <1>13 DEF RestoreFails
    <2> QED  BY <1>11, <2>1
  <1> QED  BY <1>1, <1>2, <1>3, <1>4, <1>5, <1>6, <1>7, <1>8, <1>9, <1>10, <1>12, <1>13, <1>14, <1>15
           DEF BackupNext

LEMMA BackupStutter ==
    ASSUME BackupInv, UNCHANGED backupVars
    PROVE  BackupInv'
  <1>1. UNCHANGED <<evDb, evRows, disk, quarantined, evCall, unsynced>> /\ UNCHANGED backupOnly
    BY DEF backupVars, evVars, backupOnly
  <1>2. EvInv'
    BY <1>1, EvInvSame DEF BackupInv
  <1> QED  BY <1>1, <1>2, BesideBackups

\* A restore ends.
LEMMA RestoreStepIsClosed ==
    ASSUME BackupInv, BackupNext, restoring # NoBackup, restoring' = NoBackup, restoring.archive.whole, restoring.archive.gone = {},
           restoring.archive.blobs \subseteq target'.blobs
    PROVE  Closed(target'.rows, target'.blobs)
  <1>0. BackupTypeOK /\ RestoreFollows /\ BackupIsClosed
    BY DEF BackupInv
  <1>1. \/ ExtractEntries
        \/ \E unpacked \in SUBSET Blobs : RestoreFails(unpacked)
    <2>1. ~(restoring' = restoring)
      OBVIOUS
    <2>2. ~(EvNext /\ UNCHANGED backupOnly)
      BY <2>1 DEF backupOnly
    <2>3. ~SnapshotDatabase /\ ~Download /\ ~BackupDone /\ ~BackupFails /\ ~BackupKilled
          /\ (\A b \in Blobs : ~ListShard(b) /\ ~WriteFileToTar(b) /\ ~WalkStops(b))
          /\ \A lost \in SUBSET Blobs : ~BlackOut(lost)
      BY <2>1 DEF SnapshotDatabase, Download, BackupDone, BackupFails, BackupKilled, ListShard, WriteFileToTar,
                    WalkStops, BlackOut
    <2>4. \A a \in backups, force \in BOOLEAN : ~RunRestore(a, force)
      BY DEF RunRestore
    <2>5. ~ExtractDatabase
      <3> SUFFICES ASSUME ExtractDatabase PROVE FALSE
        OBVIOUS
      <3> DEFINE r == restoring
                 s == [r EXCEPT !.at = "blobs"]
      <3>1. r \in RestoreType
        BY <1>0 DEF BackupTypeOK
      <3>2. restoring' = s
        BY DEF ExtractDatabase
      <3> HIDE DEF r
      <3>3. s.at = "blobs"
        BY <3>1 DEF RestoreType
      <3> HIDE DEF s
      <3> QED  BY <3>2, <3>3 DEF NoBackup
    <2> QED  BY <2>2, <2>3, <2>4, <2>5 DEF BackupNext
  <1>2. restoring.at = "blobs" /\ \E more \in SUBSET Blobs : target' = [target EXCEPT !.blobs = target.blobs \cup more]
    <2>1. CASE ExtractEntries
      <3>1. restoring.at = "blobs" /\ target' = [target EXCEPT !.blobs = target.blobs \cup restoring.archive.blobs]
        BY <2>1 DEF ExtractEntries
      <3>2. restoring.archive.blobs \subseteq Blobs
        BY <1>0, <3>1, UnderwayIs DEF RestoreType, BackupType
      <3> QED  BY <3>1, <3>2
    <2>2. ASSUME NEW unpacked \in SUBSET Blobs, RestoreFails(unpacked)
          PROVE  restoring.at = "blobs" /\ \E more \in SUBSET Blobs : target' = [target EXCEPT !.blobs = target.blobs \cup more]
      BY <2>2 DEF RestoreFails
    <2> QED  BY <1>1, <2>1, <2>2
  <1>3. target'.rows = target.rows
    BY <1>0, <1>2 DEF BackupTypeOK
  <1>4. target.rows = restoring.archive.rows /\ restoring.archive \in backups
    BY <1>0, <1>2 DEF RestoreFollows
  <1>5. Closed(restoring.archive.rows, restoring.archive.blobs)
    BY <1>0, <1>4 DEF BackupIsClosed
  <1> QED  BY <1>3, <1>4, <1>5 DEF Closed

\* For any tenants, outputs, transactions, backups and restores, and wherever the process
\* dies or power is lost: what is recorded has its bytes or they were found rotten, only
\* rotten ones are put away, a backup that succeeded and what is restored from it have the
\* bytes of all their rows unless the walk met a file that was gone, and that was one put
\* away as rotten; on SQLite, but for the blobs whose names no sync made durable.
THEOREM EvidenceCorrect == BackupSpec => EvidenceSurvives
  <1>1. BackupInit => BackupInv
    BY BackupInvInit
  <1>2. BackupInv /\ [BackupNext]_backupVars => BackupInv'
    BY BackupNextKeeps, BackupStutter
  <1>3. BackupInv => EvidenceIsSound /\ BackupIsClosed
    BY RowsHaveBlobsFollows DEF BackupInv
  <1> DEFINE A == restoring # NoBackup /\ restoring' = NoBackup /\ restoring.archive.whole /\ restoring.archive.gone = {}
                    /\ restoring.archive.blobs \subseteq target'.blobs
                  => Closed(target'.rows, target'.blobs)
  <1>4. BackupInv /\ [BackupNext]_backupVars => [A]_backupVars
    BY RestoreStepIsClosed
  <1>5. BackupSpec => [](EvidenceIsSound /\ BackupIsClosed)
    BY <1>1, <1>2, <1>3, PTL DEF BackupSpec
  <1>6. BackupSpec => [][A]_backupVars
    BY <1>1, <1>2, <1>4, PTL DEF BackupSpec
  <1> QED  BY <1>5, <1>6 DEF EvidenceSurvives, RestoredIsClosed

--------------------------------------------------------------------------------
(* The inductive invariant of packs. *)

PackStates == {"installed", "staged", "active", "inactive", "archived", "removed"}
LifeRowType == [state : PackStates, at : Nat]
PackLogType == [action : {"pack.installed"}, key : STRING]
          \cup [action : {"pack.lifecycle"}, key : STRING, from : PackStates, to : PackStates]
MoveType == [key : STRING, from : PackStates, to : PackStates]

PackTypeOK ==
    /\ packDb \in {"sqlite", "postgres"} /\ packProc \in {"off", "seeding", "seeded"}
    /\ release \in 1..Len(Releases) /\ packTime \in Nat
    /\ DOMAIN packRows \subseteq STRING /\ DOMAIN lifecycle = DOMAIN packRows
    /\ \A k \in DOMAIN packRows : lifecycle[k] \in Seq(LifeRowType) \ {<< >>}
    /\ packLog \in Seq(PackLogType)
    /\ moving \in [PackActors -> SUBSET MoveType]

\* What a row says is what an archive of a trusted key says.
RowsAreOfArchives ==
    \A k \in DOMAIN packRows : \E a \in ArchivesSoFar :
        /\ a.key = k /\ a.intact /\ a.wellFormed
        /\ a.content = packRows[k].content
        /\ a.signer = packRows[k].signer /\ a.signer \in Range(TrustBundle)
\* A row has one entry that it was installed, and there is no such entry without a row.
InstalledOnce ==
    /\ \A k \in DOMAIN packRows : \E i \in DOMAIN packLog :
          {j \in DOMAIN packLog : packLog[j].action = "pack.installed" /\ packLog[j].key = k} = {i}
    /\ \A i \in DOMAIN packLog : packLog[i].action = "pack.installed" => packLog[i].key \in DOMAIN packRows
\* A move under way is one of the life cycle, and on SQLite it is alone and from the latest state.
MovesAreAllowed ==
    \A b \in PackActors :
        /\ moving[b] = {} \/ \E m \in MoveType : moving[b] = {m}
        /\ \A m \in moving[b] :
              /\ m.key \in DOMAIN packRows /\ m.to \in allowedTransitions[m.from]
              /\ packDb = "sqlite" => CurrentState(m.key) = m.from
MovesAreAlone ==
    packDb = "sqlite" => \A b, c \in PackActors : moving[b] # {} /\ moving[c] # {} => b = c
\* A seeding looks at the archives in order, and those before have arrived.
ArrivedBefore(n) ==
    \A j \in 1..n - 1 :
        Builtins(release)[j].signer \in Range(TrustBundle) => Installed(Builtins(release)[j].key)
SeedingIsInOrder ==
    packProc = "seeding" =>
        \E n \in 1..Len(Builtins(release)) :
            /\ toSeed = SubSeq(Builtins(release), n, Len(Builtins(release)))
            /\ packDb = "sqlite" => ArrivedBefore(n)

PackInv ==
    /\ PackTypeOK /\ RowsAreOfArchives /\ InstalledOnce /\ MovesAreAllowed /\ MovesAreAlone
    /\ SeedingIsInOrder /\ HistoryIsAWalk /\ NewPacksArrive

LEMMA StatesAre ==
    /\ DOMAIN allowedTransitions = PackStates
    /\ \A s \in PackStates : allowedTransitions[s] \subseteq PackStates
  BY DEF allowedTransitions, PackStates

LEMMA BuiltinsAre ==
    ASSUME NEW r \in 1..Len(Releases)
    PROVE  Builtins(r) \in Seq(ArchiveType) /\ Builtins(r) # << >> /\ Len(Builtins(r)) \in Nat \ {0}
  <1>1. Releases \in Seq(Seq(ArchiveType) \ {<< >>})
    BY ReleasesAssumption DEF ReleasesAssumption
  <1>2. Releases[r] \in Seq(ArchiveType) \ {<< >>}
    BY <1>1, ElementOfSeq
  <1> QED  BY <1>2, EmptySeq, LenProperties DEF Builtins

LEMMA TrustedAre == Range(TrustBundle) = {"dev", "release"} /\ TrustBundle[1] = "dev" /\ TrustBundle[2] = "release"
                    /\ DOMAIN TrustBundle = {1, 2}
  <1>1. DOMAIN TrustBundle = {1, 2} /\ TrustBundle[1] = "dev" /\ TrustBundle[2] = "release"
    BY DEF TrustBundle
  <1> QED  BY <1>1 DEF Range

LEMMA MinIsIn ==
    ASSUME NEW S \in SUBSET {1, 2}, S # {}
    PROVE  Min(S) \in S
  <1>1. \E x \in S : \A y \in S : x =< y
    <2>1. CASE 1 \in S
      BY <2>1
    <2>2. CASE 1 \notin S
      <3>1. S = {2}
        BY <2>2
      <3> QED  BY <3>1
    <2> QED  BY <2>1, <2>2
  <1> QED  BY <1>1 DEF Min

\* What becomes of an archive: it is loaded with the key that signed it.
LEMMA LoadIs ==
    ASSUME NEW a \in ArchiveType
    PROVE  /\ a.signer \notin Range(TrustBundle) => Load(a, TrustBundle).result = "unmatched"
           /\ a.signer \in Range(TrustBundle) =>
                 /\ Load(a, TrustBundle).signer = a.signer
                 /\ a.intact /\ a.wellFormed => Load(a, TrustBundle).result = "ok"
                 /\ ~(a.intact /\ a.wellFormed) => Load(a, TrustBundle).result = "err"
  <1> DEFINE E == {i \in DOMAIN TrustBundle : LoadPackFromTar(a, TrustBundle[i]) # "ErrSignatureInvalid"}
  <1>1. E = {i \in DOMAIN TrustBundle : TrustBundle[i] = a.signer}
    BY DEF LoadPackFromTar, VerifyArchive
  <1>2. Load(a, TrustBundle) = IF E = {} THEN [result |-> "unmatched", signer |-> "none"]
           ELSE [result |-> LoadPackFromTar(a, TrustBundle[Min(E)]), signer |-> TrustBundle[Min(E)]]
    BY DEF Load
  <1>3. E \in SUBSET {1, 2} /\ (E = {} <=> a.signer \notin Range(TrustBundle))
    BY <1>1, TrustedAre DEF Range
  <1> HIDE DEF E
  <1>4. CASE E = {}
    BY <1>2, <1>3, <1>4
  <1>5. CASE E # {}
    <2>1. Min(E) \in E
      BY <1>3, <1>5, MinIsIn
    <2>2. TrustBundle[Min(E)] = a.signer
      BY <1>1, <2>1
    <2>3. LoadPackFromTar(a, a.signer) = IF a.intact /\ a.wellFormed THEN "ok" ELSE "err"
      BY DEF LoadPackFromTar, VerifyArchive
    <2> QED  BY <1>2, <1>3, <1>5, <2>2, <2>3
  <1> QED  BY <1>4, <1>5

LEMMA RangeGrows ==
    ASSUME NEW r \in 1..Len(Releases), NEW n \in r..Len(Releases)
    PROVE  UNION {Range(Builtins(x)) : x \in 1..r} \subseteq UNION {Range(Builtins(x)) : x \in 1..n}
  <1>1. 1..r \subseteq 1..n
    BY ReleasesAssumption, LenProperties DEF ReleasesAssumption
  <1> QED  BY <1>1

LEMMA PackInitInv == PackInit => PackInv
  <1> SUFFICES ASSUME PackInit PROVE PackInv
    OBVIOUS
  <1> USE DEF PackInit
  <1>1. 1 \in 1..Len(Releases)
    BY ReleasesAssumption, EmptySeq, LenProperties DEF ReleasesAssumption
  <1>2. DOMAIN packRows = {} /\ DOMAIN lifecycle = {} /\ DOMAIN packLog = {} /\ packLog \in Seq(PackLogType)
    OBVIOUS
  <1>3. moving \in [PackActors -> SUBSET MoveType] /\ \A b \in PackActors : moving[b] = {}
    OBVIOUS
  <1>4. PackTypeOK
    BY <1>1, <1>2, <1>3 DEF PackTypeOK
  <1>5. RowsAreOfArchives /\ InstalledOnce /\ HistoryIsAWalk
    BY <1>2 DEF RowsAreOfArchives, InstalledOnce, HistoryIsAWalk
  <1>6. MovesAreAllowed /\ MovesAreAlone
    BY <1>3 DEF MovesAreAllowed, MovesAreAlone
  <1>7. SeedingIsInOrder /\ NewPacksArrive
    BY DEF SeedingIsInOrder, NewPacksArrive
  <1> QED  BY <1>4, <1>5, <1>6, <1>7 DEF PackInv

--------------------------------------------------------------------------------
(* Every step keeps the invariant of packs. *)

LEMMA WalkingIsPositional ==
    ASSUME UNCHANGED <<release, packRows>>, NEW n \in Nat
    PROVE  ArrivedBefore(n) <=> ArrivedBefore(n)'
  BY DEF ArrivedBefore, Installed, Builtins

LEMMA PackStutter == PackInv /\ UNCHANGED packVars => PackInv'
  <1> SUFFICES ASSUME PackInv, UNCHANGED packVars PROVE PackInv'
    OBVIOUS
  <1> USE DEF PackInv, packVars
  <1>1. PackTypeOK' /\ MovesAreAlone' /\ HistoryIsAWalk'
    BY DEF PackTypeOK, MovesAreAlone, HistoryIsAWalk
  <1>2. RowsAreOfArchives' /\ InstalledOnce'
    BY DEF RowsAreOfArchives, InstalledOnce, ArchivesSoFar, Builtins
  <1>3. MovesAreAllowed'
    BY DEF MovesAreAllowed, CurrentState
  <1>4. SeedingIsInOrder'
    BY DEF SeedingIsInOrder, ArrivedBefore, Installed, Builtins
  <1>5. NewPacksArrive'
    BY DEF NewPacksArrive, Arrived, Seedable, Installed, Builtins
  <1> QED  BY <1>1, <1>2, <1>3, <1>4, <1>5

\* A step that leaves rows, histories, log and archives alone.
LEMMA RowsStay ==
    ASSUME PackInv, UNCHANGED <<packDb, packRows, lifecycle, packLog>>, release' \in release..Len(Releases)
    PROVE  RowsAreOfArchives' /\ InstalledOnce' /\ HistoryIsAWalk'
  <1> USE DEF PackInv
  <1>1. ArchivesSoFar \subseteq ArchivesSoFar'
    <2>1. release \in 1..Len(Releases)
      BY DEF PackTypeOK
    <2>2. ArchivesSoFar' = UNION {Range(Builtins(x)) : x \in 1..release'}
      BY DEF ArchivesSoFar, Builtins
    <2> QED  BY <2>1, <2>2, RangeGrows DEF ArchivesSoFar
  <1>2. RowsAreOfArchives'
    BY <1>1 DEF RowsAreOfArchives
  <1> QED  BY <1>2 DEF InstalledOnce, HistoryIsAWalk

LEMMA StartKeeps == PackInv /\ Start => PackInv'
  <1> SUFFICES ASSUME PackInv, Start PROVE PackInv'
    OBVIOUS
  <1>1. PICK r \in release..Len(Releases) : release' = r /\ packProc' = "seeding" /\ toSeed' = Builtins(r)
    BY DEF Start
  <1>2. UNCHANGED <<packDb, packRows, lifecycle, packLog, packTime>> /\ moving' = [a \in PackActors |-> {}]
    BY DEF Start
  <1>3. r \in 1..Len(Releases)
    BY ReleasesAssumption, LenProperties DEF PackInv, PackTypeOK, ReleasesAssumption
  <1>4. PackTypeOK'
    BY <1>1, <1>2, <1>3 DEF PackInv, PackTypeOK
  <1>5. RowsAreOfArchives' /\ InstalledOnce' /\ HistoryIsAWalk'
    BY <1>1, <1>2, RowsStay
  <1>6. MovesAreAllowed' /\ MovesAreAlone'
    BY <1>2 DEF MovesAreAllowed, MovesAreAlone
  <1>7. SeedingIsInOrder'
    <2> DEFINE s == Builtins(r)
    <2>1. s \in Seq(ArchiveType) /\ Len(s) \in Nat \ {0}
      BY <1>3, BuiltinsAre
    <2>2. Builtins(release)' = s
      BY <1>1 DEF Builtins
    <2>3. s = SubSeq(s, 1, Len(s))
      <3> HIDE DEF s
      <3> QED  BY <2>1, SMT
    <2>4. ArrivedBefore(1)'
      BY DEF ArrivedBefore
    <2>5. 1 \in 1..Len(s)
      BY <2>1
    <2> HIDE DEF s
    <2> QED  BY <1>1, <2>2, <2>3, <2>4, <2>5 DEF SeedingIsInOrder, s
  <1>8. NewPacksArrive'
    BY <1>1 DEF NewPacksArrive
  <1> QED  BY <1>4, <1>5, <1>6, <1>7, <1>8 DEF PackInv

LEMMA StopKeeps == PackInv /\ Stop => PackInv'
  <1> SUFFICES ASSUME PackInv, Stop PROVE PackInv'
    OBVIOUS
  <1>1. /\ UNCHANGED <<packDb, release, packRows, lifecycle, packLog, packTime>>
        /\ moving' = [a \in PackActors |-> {}] /\ packProc' = "off"
    BY DEF Stop
  <1>2. PackTypeOK'
    BY <1>1 DEF PackInv, PackTypeOK
  <1>3. RowsAreOfArchives' /\ InstalledOnce' /\ HistoryIsAWalk'
    BY <1>1, <1>2, RowsStay DEF PackTypeOK, PackInv
  <1>4. MovesAreAllowed' /\ MovesAreAlone'
    BY <1>1 DEF MovesAreAllowed, MovesAreAlone
  <1>5. SeedingIsInOrder' /\ NewPacksArrive'
    BY <1>1 DEF SeedingIsInOrder, NewPacksArrive
  <1> QED  BY <1>2, <1>3, <1>4, <1>5 DEF PackInv

\* A step of the seeding that is no end of it: the next archive.
LEMMA SeedMovesOn ==
    ASSUME PackInv, packProc = "seeding", SeedRest, UNCHANGED <<packDb, release>>,
           DOMAIN packRows \subseteq DOMAIN packRows',
           packDb = "sqlite" => (toSeed[1].signer \in Range(TrustBundle) => toSeed[1].key \in DOMAIN packRows')
    PROVE  packProc' \in {"seeding", "seeded"} /\ SeedingIsInOrder' /\ NewPacksArrive'
  <1> DEFINE s == Builtins(release)
  <1>1. s \in Seq(ArchiveType) /\ Len(s) \in Nat \ {0}
    BY BuiltinsAre DEF PackInv, PackTypeOK
  <1>2. PICK n \in 1..Len(s) : toSeed = SubSeq(s, n, Len(s)) /\ (packDb = "sqlite" => ArrivedBefore(n))
    BY DEF PackInv, SeedingIsInOrder
  <1>3. Builtins(release)' = s
    BY DEF Builtins
  <1>4. toSeed[1] = s[n] /\ Len(toSeed) = Len(s) - n + 1
    <2> HIDE DEF s
    <2> QED  BY <1>1, <1>2
  <1>5. packDb' = "sqlite" => ArrivedBefore(n + 1)'
    <2> SUFFICES ASSUME packDb = "sqlite", NEW j \in 1..n, s[j].signer \in Range(TrustBundle)
                 PROVE  s[j].key \in DOMAIN packRows'
      BY <1>2, <1>3 DEF ArrivedBefore, Installed
    <2>1. CASE j = n
      BY <1>4, <2>1
    <2>2. CASE j # n
      <3>1. j \in 1..n - 1
        BY <2>2
      <3> QED  BY <1>2, <3>1 DEF ArrivedBefore, Installed
    <2> QED  BY <2>1, <2>2
  <1>6. CASE Len(toSeed) = 1
    <2>1. n = Len(s) /\ packProc' = "seeded"
      BY <1>1, <1>2, <1>4, <1>6 DEF SeedRest, SeedEnds
    <2>2. packDb' = "sqlite" => Arrived'
      <3> SUFFICES ASSUME packDb' = "sqlite", NEW i \in DOMAIN s, s[i].signer \in Range(TrustBundle)
                   PROVE  s[i].key \in DOMAIN packRows'
        BY <1>3 DEF Arrived, Seedable, Installed
      <3>1. i \in 1..(n + 1) - 1
        <4> HIDE DEF s
        <4> QED  BY <1>1, <2>1
      <3> QED  BY <1>3, <1>5, <3>1 DEF ArrivedBefore, Installed
    <2> QED  BY <2>1, <2>2 DEF SeedingIsInOrder, NewPacksArrive
  <1>7. CASE Len(toSeed) # 1
    <2>1. packProc' = "seeding" /\ toSeed' = Tail(toSeed)
      BY <1>7 DEF SeedRest
    <2>2. n + 1 \in 1..Len(s)
      <3> HIDE DEF s
      <3> QED  BY <1>1, <1>2, <1>4, <1>7
    <2>3. Tail(toSeed) = SubSeq(s, n + 1, Len(s))
      <3> HIDE DEF s
      <3> QED  BY <1>1, <1>2, HeadTailOfSubSeq
    <2> QED  BY <1>3, <1>5, <2>1, <2>2, <2>3 DEF SeedingIsInOrder, NewPacksArrive
  <1> QED  BY <1>6, <1>7

\* The end of the seeding at an archive that is not as it should be, or anywhere on PostgreSQL.
LEMMA SeedStops ==
    ASSUME PackInv, packProc = "seeding", SeedEnds, UNCHANGED <<packDb, release>>,
           DOMAIN packRows \subseteq DOMAIN packRows',
           packDb = "sqlite" => /\ toSeed[1].signer \in Range(TrustBundle)
                                /\ ~(toSeed[1].intact /\ toSeed[1].wellFormed)
    PROVE  packProc' \in {"seeding", "seeded"} /\ SeedingIsInOrder' /\ NewPacksArrive'
  <1> DEFINE s == Builtins(release)
  <1>1. s \in Seq(ArchiveType) /\ Len(s) \in Nat \ {0}
    BY BuiltinsAre DEF PackInv, PackTypeOK
  <1>2. PICK n \in 1..Len(s) : toSeed = SubSeq(s, n, Len(s)) /\ (packDb = "sqlite" => ArrivedBefore(n))
    BY DEF PackInv, SeedingIsInOrder
  <1>3. Builtins(release)' = s /\ packProc' = "seeded"
    BY DEF Builtins, SeedEnds
  <1>4. toSeed[1] = s[n]
    <2> HIDE DEF s
    <2> QED  BY <1>1, <1>2
  <1>5. packDb' = "sqlite" => Arrived'
    <2> SUFFICES ASSUME packDb' = "sqlite", NEW i \in DOMAIN s, s[i].signer \in Range(TrustBundle),
                        \A m \in 1..i : s[m].signer \in Range(TrustBundle) => (s[m].intact /\ s[m].wellFormed)
                 PROVE  s[i].key \in DOMAIN packRows'
      BY <1>3 DEF Arrived, Seedable, Installed
    <2>1. i \in 1..Len(s)
      <3> HIDE DEF s
      <3> QED  BY <1>1
    <2>2. n \notin 1..i
      BY <1>4
    <2>3. i \in 1..n - 1
      BY <1>2, <2>1, <2>2
    <2> QED  BY <1>2, <2>3 DEF ArrivedBefore, Installed
  <1> QED  BY <1>3, <1>5 DEF SeedingIsInOrder, NewPacksArrive

\* An archive of the release is installed as a new row.
LEMMA NewPackArrives ==
    ASSUME PackInv, NEW a \in Range(Builtins(release)), ~Installed(a.key),
           a.intact, a.wellFormed, a.signer \in Range(TrustBundle),
           packRows' = WithRow(packRows, a.key, [signer |-> a.signer, content |-> a.content]),
           lifecycle' = WithRow(lifecycle, a.key, <<[state |-> "installed", at |-> packTime]>>),
           packLog' = Append(packLog, [action |-> "pack.installed", key |-> a.key]),
           packProc' \in {"seeding", "seeded"}, UNCHANGED <<packDb, release, packTime, moving>>
    PROVE  /\ PackTypeOK' /\ RowsAreOfArchives' /\ InstalledOnce' /\ MovesAreAllowed' /\ MovesAreAlone'
           /\ HistoryIsAWalk' /\ DOMAIN packRows' = DOMAIN packRows \cup {a.key}
           /\ \A k \in DOMAIN packRows : packRows'[k] = packRows[k] /\ lifecycle'[k] = lifecycle[k]
  <1> DEFINE e == [action |-> "pack.installed", key |-> a.key]
             w == [signer |-> a.signer, content |-> a.content]
             h == <<[state |-> "installed", at |-> packTime]>>
  <1>0. release \in 1..Len(Releases) /\ packTime \in Nat /\ DOMAIN lifecycle = DOMAIN packRows
        /\ packLog \in Seq(PackLogType) /\ a.key \notin DOMAIN packRows
    BY DEF PackInv, PackTypeOK, Installed
  <1>1. a \in ArchiveType /\ a.key \in STRING /\ a \in ArchivesSoFar
    <2>1. a \in ArchiveType
      BY <1>0, BuiltinsAre, RangeOfSeq DEF Range
    <2>2. release \in 1..release
      BY <1>0, LenProperties, ReleasesAssumption DEF ReleasesAssumption
    <2> QED  BY <2>1, <2>2 DEF ArchiveType, ArchivesSoFar
  <1>2. /\ DOMAIN packRows' = DOMAIN packRows \cup {a.key} /\ packRows'[a.key] = w
        /\ \A k \in DOMAIN packRows : packRows'[k] = packRows[k]
    BY <1>0 DEF WithRow
  <1>3. /\ DOMAIN lifecycle' = DOMAIN packRows' /\ lifecycle'[a.key] = h
        /\ \A k \in DOMAIN packRows : lifecycle'[k] = lifecycle[k]
    BY <1>0, <1>2 DEF WithRow
  <1>4. h \in Seq(LifeRowType) \ {<< >>} /\ Len(h) = 1
    BY <1>0 DEF LifeRowType, PackStates
  <1>5. e \in PackLogType /\ e.action = "pack.installed" /\ e.key = a.key
    BY <1>1 DEF PackLogType
  <1>6. w.signer = a.signer /\ w.content = a.content
    OBVIOUS
  <1> HIDE DEF e, w, h
  <1>7. /\ packLog' \in Seq(PackLogType) /\ DOMAIN packLog' = DOMAIN packLog \cup {Len(packLog) + 1}
        /\ packLog'[Len(packLog) + 1] = e /\ \A i \in DOMAIN packLog : packLog'[i] = packLog[i] /\ i # Len(packLog) + 1
    BY <1>0, <1>5 DEF e
  <1>8. PackTypeOK'
    BY <1>0, <1>1, <1>2, <1>3, <1>4, <1>7 DEF PackInv, PackTypeOK
  <1>9. RowsAreOfArchives'
    <2>1. ArchivesSoFar' = ArchivesSoFar
      BY DEF ArchivesSoFar, Builtins
    <2> QED  BY <1>1, <1>2, <1>6, <2>1 DEF PackInv, RowsAreOfArchives
  <1>10. InstalledOnce'
    <2> DEFINE Of(k, l) == {j \in DOMAIN l : l[j].action = "pack.installed" /\ l[j].key = k}
    <2>1. \A k \in DOMAIN packRows : Of(k, packLog') = Of(k, packLog)
      BY <1>0, <1>5, <1>7
    <2>2. Of(a.key, packLog') = {Len(packLog) + 1}
      BY <1>0, <1>5, <1>7 DEF PackInv, InstalledOnce
    <2>3. \A k \in DOMAIN packRows' : \E i \in DOMAIN packLog' : Of(k, packLog') = {i}
      <3> SUFFICES ASSUME NEW k \in DOMAIN packRows' PROVE \E i \in DOMAIN packLog' : Of(k, packLog') = {i}
        OBVIOUS
      <3>1. CASE k = a.key
        BY <1>7, <2>2, <3>1
      <3>2. CASE k \in DOMAIN packRows
        <4>1. \E i \in DOMAIN packLog : Of(k, packLog) = {i}
          BY <3>2 DEF PackInv, InstalledOnce
        <4> HIDE DEF Of
        <4> QED  BY <1>7, <2>1, <3>2, <4>1
      <3> QED  BY <1>2, <3>1, <3>2
    <2>4. \A i \in DOMAIN packLog' : packLog'[i].action = "pack.installed" => packLog'[i].key \in DOMAIN packRows'
      BY <1>2, <1>5, <1>7 DEF PackInv, InstalledOnce
    <2> QED  BY <2>3, <2>4 DEF InstalledOnce
  <1>11. MovesAreAllowed' /\ MovesAreAlone'
    <2>1. \A b \in PackActors : \A m \in moving[b] : m.key \in DOMAIN packRows /\ lifecycle'[m.key] = lifecycle[m.key]
      BY <1>3 DEF PackInv, MovesAreAllowed
    <2>2. MovesAreAllowed'
      BY <1>2, <2>1 DEF PackInv, MovesAreAllowed, CurrentState
    <2> QED  BY <2>2 DEF PackInv, MovesAreAlone
  <1>12. HistoryIsAWalk'
    <2> SUFFICES ASSUME packDb = "sqlite", NEW k \in DOMAIN packRows', NEW i \in 1..Len(lifecycle'[k]) - 1
                 PROVE  lifecycle'[k][i + 1].state \in allowedTransitions[lifecycle'[k][i].state]
      BY <1>3 DEF HistoryIsAWalk
    <2>1. ASSUME k = a.key PROVE FALSE
      <3> DEFINE n == Len(lifecycle'[k])
      <3>1. n = 1 /\ i \in 1..n - 1
        BY <1>3, <1>4, <2>1
      <3> HIDE DEF n
      <3> QED  BY <3>1
    <2>2. k \in DOMAIN packRows /\ lifecycle'[k] = lifecycle[k]
      BY <1>2, <1>3, <2>1
    <2> QED  BY <1>0, <2>2 DEF PackInv, HistoryIsAWalk
  <1> QED  BY <1>2, <1>3, <1>8, <1>9, <1>10, <1>11, <1>12

\* What a step of the seeding does.
LEMMA SeedingDoes ==
    ASSUME PackInv, InstallWithTrustBundle
    PROVE  PackInv' /\ \A k \in DOMAIN packRows : /\ k \in DOMAIN packRows' /\ packRows'[k] = packRows[k]
                                                  /\ lifecycle'[k] = lifecycle[k]
  <1> DEFINE a == toSeed[1]
             l == Load(a, TrustBundle)
             s == Builtins(release)
  <1>1. packProc = "seeding" /\ UNCHANGED <<packDb, release, packTime, moving>>
    BY DEF InstallWithTrustBundle
  <1>2. a \in Range(s) /\ a \in ArchiveType
    <2>1. s \in Seq(ArchiveType) /\ Len(s) \in Nat \ {0}
      BY BuiltinsAre DEF PackInv, PackTypeOK
    <2>2. PICK n \in 1..Len(s) : toSeed = SubSeq(s, n, Len(s))
      BY <1>1 DEF PackInv, SeedingIsInOrder
    <2>3. a = s[n] /\ s[n] \in ArchiveType /\ n \in DOMAIN s
      <3> HIDE DEF s
      <3> QED  BY <2>1, <2>2
    <2> QED  BY <2>3 DEF Range
  <1>3. /\ a.signer \notin Range(TrustBundle) => l.result = "unmatched"
        /\ a.signer \in Range(TrustBundle) =>
              /\ l.signer = a.signer
              /\ a.intact /\ a.wellFormed => l.result = "ok"
              /\ ~(a.intact /\ a.wellFormed) => l.result = "err"
    BY <1>2, LoadIs
  <1>4. \/ l.result = "ok" /\ InstallPack(a, l.signer)
        \/ l.result = "unmatched" /\ SeedRest /\ UNCHANGED <<packRows, lifecycle, packLog>>
        \/ l.result = "err" /\ SeedEnds /\ UNCHANGED <<packRows, lifecycle, packLog>>
    <2> HIDE DEF l
    <2>1. CASE l.result = "ok"
      BY <2>1 DEF InstallWithTrustBundle, l
    <2>2. CASE l.result = "unmatched"
      BY <2>2 DEF InstallWithTrustBundle, l
    <2>3. CASE l.result = "err"
      BY <2>3 DEF InstallWithTrustBundle, l
    <2> QED  BY <1>3, <2>1, <2>2, <2>3
  <1>5. ASSUME UNCHANGED <<packRows, lifecycle, packLog>>, packProc' \in {"seeding", "seeded"}
        PROVE  /\ PackTypeOK' /\ RowsAreOfArchives' /\ InstalledOnce' /\ HistoryIsAWalk'
               /\ MovesAreAllowed' /\ MovesAreAlone'
    <2>1. release' \in release..Len(Releases)
      BY <1>1, ReleasesAssumption, LenProperties DEF PackInv, PackTypeOK, ReleasesAssumption
    <2>2. RowsAreOfArchives' /\ InstalledOnce' /\ HistoryIsAWalk'
      BY <1>1, <1>5, <2>1, RowsStay
    <2>3. PackTypeOK'
      BY <1>1, <1>5 DEF PackInv, PackTypeOK
    <2>4. MovesAreAllowed' /\ MovesAreAlone'
      BY <1>1, <1>5 DEF PackInv, MovesAreAllowed, MovesAreAlone, CurrentState
    <2> QED  BY <2>2, <2>3, <2>4
  <1>6. CASE l.result = "unmatched" /\ SeedRest /\ UNCHANGED <<packRows, lifecycle, packLog>>
    <2>1. a.signer \notin Range(TrustBundle)
      BY <1>3, <1>6
    <2>2. packProc' \in {"seeding", "seeded"} /\ SeedingIsInOrder' /\ NewPacksArrive'
      BY <1>1, <1>6, <2>1, SeedMovesOn
    <2> QED  BY <1>5, <1>6, <2>2 DEF PackInv
  <1>7. CASE l.result = "err" /\ SeedEnds /\ UNCHANGED <<packRows, lifecycle, packLog>>
    <2>1. a.signer \in Range(TrustBundle) /\ ~(a.intact /\ a.wellFormed)
      BY <1>2, <1>3, <1>7 DEF ArchiveType
    <2>2. packProc' \in {"seeding", "seeded"} /\ SeedingIsInOrder' /\ NewPacksArrive'
      BY <1>1, <1>7, <2>1, SeedStops
    <2> QED  BY <1>5, <1>7, <2>2 DEF PackInv
  <1>8. CASE l.result = "ok" /\ InstallPack(a, l.signer)
    <2>1. a.signer \in Range(TrustBundle) /\ l.signer = a.signer /\ a.intact /\ a.wellFormed
      BY <1>2, <1>3, <1>8 DEF ArchiveType
    <2>2. CASE Installed(a.key)
      <3>1. UNCHANGED <<packRows, lifecycle, packLog>> /\ (IF UniqueIsKnown THEN SeedRest ELSE SeedEnds)
        BY <1>8, <2>2 DEF InstallPack
      <3>2. packProc' \in {"seeding", "seeded"} /\ SeedingIsInOrder' /\ NewPacksArrive'
        <4>1. CASE packDb = "sqlite"
          <5>1. SeedRest
            BY <3>1, <4>1 DEF UniqueIsKnown
          <5> QED  BY <1>1, <2>2, <3>1, <5>1, SeedMovesOn DEF Installed
        <4>2. CASE packDb # "sqlite"
          <5>1. SeedEnds
            BY <3>1, <4>2 DEF UniqueIsKnown
          <5> QED  BY <1>1, <3>1, <4>2, <5>1, SeedStops
        <4> QED  BY <4>1, <4>2
      <3> QED  BY <1>5, <3>1, <3>2 DEF PackInv
    <2>3. CASE ~Installed(a.key)
      <3>1. /\ packRows' = WithRow(packRows, a.key, [signer |-> a.signer, content |-> a.content])
            /\ lifecycle' = WithRow(lifecycle, a.key, <<[state |-> "installed", at |-> packTime]>>)
            /\ packLog' = Append(packLog, [action |-> "pack.installed", key |-> a.key])
            /\ SeedRest
        BY <1>8, <2>1, <2>3 DEF InstallPack
      <3>2. packProc' \in {"seeding", "seeded"}
        BY <1>1, <3>1 DEF SeedRest, SeedEnds
      <3>3. /\ PackTypeOK' /\ RowsAreOfArchives' /\ InstalledOnce' /\ MovesAreAllowed' /\ MovesAreAlone'
            /\ HistoryIsAWalk' /\ DOMAIN packRows' = DOMAIN packRows \cup {a.key}
            /\ \A k \in DOMAIN packRows : packRows'[k] = packRows[k] /\ lifecycle'[k] = lifecycle[k]
        <4> HIDE DEF a, l
        <4> QED  BY <1>1, <1>2, <2>1, <2>3, <3>1, <3>2, NewPackArrives
      <3>4. SeedingIsInOrder' /\ NewPacksArrive'
        BY <1>1, <3>1, <3>3, SeedMovesOn
      <3> QED  BY <3>3, <3>4 DEF PackInv
    <2> QED  BY <2>2, <2>3
  <1> QED  BY <1>4, <1>6, <1>7, <1>8

LEMMA ReadStateKeeps ==
    ASSUME PackInv, NEW a \in PackActors, NEW key, NEW to \in DOMAIN allowedTransitions, ReadState(a, key, to)
    PROVE  PackInv'
  <1> DEFINE from == CurrentState(key)
             m == [key |-> key, from |-> from, to |-> to]
  <1>1. /\ moving[a] = {} /\ key \in DOMAIN packRows /\ to \in allowedTransitions[from]
        /\ packDb = "sqlite" => \A b \in PackActors : moving[b] = {}
        /\ moving' = [moving EXCEPT ![a] = {m}]
        /\ UNCHANGED <<packDb, release, packProc, toSeed, packRows, lifecycle, packLog, packTime>>
    BY DEF ReadState, Installed, CanTransition
  <1>2. key \in STRING /\ from \in PackStates
    <2> DEFINE h == lifecycle[key]
    <2>1. h \in Seq(LifeRowType) /\ h # << >> /\ key \in STRING
      BY <1>1 DEF PackInv, PackTypeOK
    <2> HIDE DEF h
    <2>2. Len(h) \in 1..Len(h)
      BY <2>1, EmptySeq, LenProperties
    <2>3. h[Len(h)] \in LifeRowType
      BY <2>1, <2>2, ElementOfSeq
    <2>4. h[Len(h)].state \in PackStates
      BY <2>3 DEF LifeRowType
    <2> QED  BY <2>1, <2>4 DEF CurrentState, Last, h
  <1>3. m \in MoveType /\ m.key = key /\ m.from = from /\ m.to = to
    BY <1>2, StatesAre DEF MoveType
  <1> HIDE DEF m, from
  <1>4. moving'[a] = {m} /\ \A b \in PackActors : b # a => moving'[b] = moving[b]
    BY <1>1 DEF PackInv, PackTypeOK
  <1>5. PackTypeOK'
    BY <1>1, <1>3 DEF PackInv, PackTypeOK
  <1>6. RowsAreOfArchives' /\ InstalledOnce' /\ HistoryIsAWalk'
    BY <1>1, ReleasesAssumption, LenProperties, RowsStay DEF PackInv, PackTypeOK, ReleasesAssumption
  <1>7. MovesAreAllowed'
    <2> SUFFICES ASSUME NEW b \in PackActors
                 PROVE  /\ moving'[b] = {} \/ \E o \in MoveType : moving'[b] = {o}
                        /\ \A o \in moving'[b] :
                              /\ o.key \in DOMAIN packRows /\ o.to \in allowedTransitions[o.from]
                              /\ packDb = "sqlite" => CurrentState(o.key) = o.from
      BY <1>1 DEF MovesAreAllowed, CurrentState
    <2>1. CASE b = a
      BY <1>1, <1>3, <1>4, <2>1 DEF from
    <2>2. CASE b # a
      BY <1>4, <2>2 DEF PackInv, MovesAreAllowed
    <2> QED  BY <2>1, <2>2
  <1>8. MovesAreAlone'
    BY <1>1, <1>4 DEF MovesAreAlone
  <1>9. SeedingIsInOrder' /\ NewPacksArrive'
    BY <1>1 DEF PackInv, SeedingIsInOrder, NewPacksArrive, Arrived, Seedable, ArrivedBefore, Installed, Builtins
  <1> QED  BY <1>5, <1>6, <1>7, <1>8, <1>9 DEF PackInv

\* What the second half of a move does.
LEMMA TransitionDoes ==
    ASSUME PackInv, NEW a \in PackActors, TransitionPack(a)
    PROVE  PackInv' /\ UNCHANGED packRows /\ \A k \in DOMAIN packRows : IsPrefix(lifecycle[k], lifecycle'[k])
  <1> DEFINE m == CHOOSE x \in moving[a] : TRUE
             clash == \E i \in DOMAIN lifecycle[m.key] : lifecycle[m.key][i].at = packTime
             w == [state |-> m.to, at |-> packTime]
             e == [action |-> "pack.lifecycle", key |-> m.key, from |-> m.from, to |-> m.to]
  <1>1. /\ moving[a] # {} /\ moving' = [moving EXCEPT ![a] = {}]
        /\ lifecycle' = IF clash THEN lifecycle ELSE [lifecycle EXCEPT ![m.key] = Append(@, w)]
        /\ packLog' = IF clash THEN packLog ELSE Append(packLog, e)
        /\ UNCHANGED <<packDb, release, packProc, toSeed, packRows, packTime>>
    BY DEF TransitionPack
  <1>2. m \in moving[a] /\ m \in MoveType
    <2>1. m \in moving[a]
      BY <1>1
    <2> HIDE DEF m
    <2> QED  BY <2>1 DEF PackInv, PackTypeOK
  <1> HIDE DEF m
  <1>3. /\ m.key \in STRING /\ m.from \in PackStates /\ m.to \in PackStates
        /\ m.key \in DOMAIN packRows /\ m.to \in allowedTransitions[m.from]
        /\ packDb = "sqlite" => CurrentState(m.key) = m.from
    BY <1>2 DEF MoveType, PackInv, MovesAreAllowed
  <1>4. w \in LifeRowType /\ w.state = m.to
    BY <1>3 DEF LifeRowType, PackInv, PackTypeOK
  <1>5. e \in PackLogType /\ e.action = "pack.lifecycle"
    BY <1>3 DEF PackLogType
  <1> HIDE DEF clash, w, e
  <1>6. moving'[a] = {} /\ (\A b \in PackActors : b # a => moving'[b] = moving[b]) /\ moving' \in [PackActors -> SUBSET MoveType]
    BY <1>1 DEF PackInv, PackTypeOK
  <1>7. /\ DOMAIN lifecycle' = DOMAIN packRows /\ \A k \in DOMAIN packRows : k # m.key => lifecycle'[k] = lifecycle[k]
        /\ lifecycle'[m.key] = lifecycle[m.key] \/ lifecycle'[m.key] = Append(lifecycle[m.key], w)
    BY <1>1, <1>3 DEF PackInv, PackTypeOK
  <1> DEFINE h == lifecycle[m.key]
             g == lifecycle'[m.key]
  <1>8. h \in Seq(LifeRowType) /\ h # << >> /\ Len(h) \in Nat \ {0}
    BY <1>3, EmptySeq, LenProperties DEF PackInv, PackTypeOK
  <1>9. /\ g \in Seq(LifeRowType) /\ g # << >> /\ IsPrefix(h, g)
        /\ Len(g) = Len(h) \/ (Len(g) = Len(h) + 1 /\ g[Len(g)].state = m.to)
        /\ Len(g) \in Nat /\ \A i \in 1..Len(h) : g[i] = h[i]
    <2>1. g = h \/ g = Append(h, w)
      BY <1>7
    <2> HIDE DEF g, h
    <2>2. CASE g = h
      BY <1>8, <2>2 DEF IsPrefix
    <2>3. CASE g = Append(h, w)
      <3>1. /\ g \in Seq(LifeRowType) /\ Len(g) = Len(h) + 1 /\ g[Len(g)] = w /\ g # << >>
            /\ \A i \in 1..Len(h) : g[i] = h[i]
        BY <1>4, <1>8, <2>3
      <3>2. SubSeq(h, 1, Len(h)) = SubSeq(g, 1, Len(h))
        BY <1>8, <3>1
      <3> QED  BY <1>4, <1>8, <3>1, <3>2 DEF IsPrefix
    <2> QED  BY <2>1, <2>2, <2>3
  <1>10. \A k \in DOMAIN packRows : IsPrefix(lifecycle[k], lifecycle'[k])
    <2> SUFFICES ASSUME NEW k \in DOMAIN packRows PROVE IsPrefix(lifecycle[k], lifecycle'[k])
      OBVIOUS
    <2>1. CASE k = m.key
      BY <1>9, <2>1
    <2>2. CASE k # m.key
      <3>1. lifecycle[k] \in Seq(LifeRowType) /\ lifecycle'[k] = lifecycle[k]
        BY <1>7, <2>2 DEF PackInv, PackTypeOK
      <3> QED  BY <3>1, LenProperties DEF IsPrefix
    <2> QED  BY <2>1, <2>2
  <1>11. /\ packLog' \in Seq(PackLogType)
         /\ \/ packLog' = packLog
            \/ DOMAIN packLog' = DOMAIN packLog \cup {Len(packLog) + 1} /\ packLog'[Len(packLog) + 1] = e
               /\ \A i \in DOMAIN packLog : packLog'[i] = packLog[i]
    <2>1. packLog \in Seq(PackLogType)
      BY DEF PackInv, PackTypeOK
    <2>2. CASE packLog' = packLog
      BY <2>1, <2>2
    <2>3. CASE packLog' = Append(packLog, e)
      BY <1>5, <2>1, <2>3
    <2> QED  BY <1>1, <2>2, <2>3
  <1>12. PackTypeOK'
    <2>1. \A k \in DOMAIN packRows : lifecycle[k] \in Seq(LifeRowType) \ {<< >>}
      BY DEF PackInv, PackTypeOK
    <2>2. lifecycle'[m.key] \in Seq(LifeRowType) \ {<< >>}
      BY <1>9
    <2>3. \A k \in DOMAIN packRows : lifecycle'[k] \in Seq(LifeRowType) \ {<< >>}
      <3> SUFFICES ASSUME NEW k \in DOMAIN packRows PROVE lifecycle'[k] \in Seq(LifeRowType) \ {<< >>}
        OBVIOUS
      <3>1. CASE k = m.key
        BY <2>2, <3>1
      <3>2. CASE k # m.key
        <4>1. lifecycle'[k] = lifecycle[k]
          BY <1>7, <3>2
        <4> QED  BY <2>1, <4>1
      <3> QED  BY <3>1, <3>2
    <2> QED  BY <1>1, <1>6, <1>7, <1>11, <2>3 DEF PackInv, PackTypeOK
  <1>13. RowsAreOfArchives'
    BY <1>1 DEF PackInv, RowsAreOfArchives, ArchivesSoFar, Builtins
  <1>14. InstalledOnce'
    <2> DEFINE Of(k, l) == {j \in DOMAIN l : l[j].action = "pack.installed" /\ l[j].key = k}
    <2>1. \A k \in DOMAIN packRows : Of(k, packLog') = Of(k, packLog)
      BY <1>5, <1>11
    <2>2. DOMAIN packLog \subseteq DOMAIN packLog'
      BY <1>11
    <2>3. \A k \in DOMAIN packRows : \E i \in DOMAIN packLog : Of(k, packLog) = {i}
      BY DEF PackInv, InstalledOnce
    <2>4. \A i \in DOMAIN packLog' : packLog'[i].action = "pack.installed" => packLog'[i].key \in DOMAIN packRows
      BY <1>5, <1>11 DEF PackInv, InstalledOnce
    <2>5. \A k \in DOMAIN packRows' : \E i \in DOMAIN packLog' : Of(k, packLog') = {i}
      <3> HIDE DEF Of
      <3> QED  BY <1>1, <2>1, <2>2, <2>3
    <2> QED  BY <1>1, <2>4, <2>5 DEF InstalledOnce
  <1>15. MovesAreAllowed'
    <2> SUFFICES ASSUME NEW b \in PackActors, b # a
                 PROVE  /\ moving[b] = {} \/ \E o \in MoveType : moving[b] = {o}
                        /\ \A o \in moving[b] :
                              /\ o.key \in DOMAIN packRows /\ o.to \in allowedTransitions[o.from]
                              /\ packDb = "sqlite" => CurrentState(o.key)' = o.from
      BY <1>1, <1>6 DEF MovesAreAllowed
    <2>1. packDb = "sqlite" => moving[b] = {}
      BY <1>1 DEF PackInv, MovesAreAlone
    <2> QED  BY <2>1 DEF PackInv, MovesAreAllowed
  <1>16. MovesAreAlone'
    BY <1>1, <1>6 DEF PackInv, MovesAreAlone
  <1>17. HistoryIsAWalk'
    <2> SUFFICES ASSUME packDb = "sqlite", NEW k \in DOMAIN packRows, NEW i \in 1..Len(lifecycle'[k]) - 1
                 PROVE  lifecycle'[k][i + 1].state \in allowedTransitions[lifecycle'[k][i].state]
      BY <1>1, <1>7 DEF HistoryIsAWalk
    <2>1. DOMAIN lifecycle = DOMAIN packRows
      BY DEF PackInv, PackTypeOK
    <2>2. \A j \in 1..Len(lifecycle[k]) - 1 : lifecycle[k][j + 1].state \in allowedTransitions[lifecycle[k][j].state]
      BY <2>1 DEF PackInv, HistoryIsAWalk
    <2>3. CASE k # m.key
      BY <1>7, <2>2, <2>3
    <2>4. CASE k = m.key
      <3>1. h[Len(h)].state = m.from
        BY <1>3 DEF CurrentState, Last
      <3>2. i \in 1..Len(g) - 1 /\ \A j \in 1..Len(h) - 1 : h[j + 1].state \in allowedTransitions[h[j].state]
        BY <2>2, <2>4
      <3> HIDE DEF g, h
      <3>3. CASE i = Len(h)
        <4>1. Len(g) = Len(h) + 1 /\ g[i + 1].state = m.to /\ g[i] = h[Len(h)]
          BY <1>8, <1>9, <3>2, <3>3
        <4>2. g[i + 1].state \in allowedTransitions[g[i].state]
          BY <1>3, <3>1, <4>1
        <4> QED  BY <2>4, <4>2 DEF g
      <3>4. CASE i # Len(h)
        <4>1. i \in 1..Len(h) - 1 /\ g[i] = h[i] /\ g[i + 1] = h[i + 1]
          BY <1>8, <1>9, <3>2, <3>4
        <4>2. g[i + 1].state \in allowedTransitions[g[i].state]
          BY <3>2, <4>1
        <4> QED  BY <2>4, <4>2 DEF g
      <3> QED  BY <3>3, <3>4
    <2> QED  BY <2>3, <2>4
  <1>18. SeedingIsInOrder' /\ NewPacksArrive'
    BY <1>1 DEF PackInv, SeedingIsInOrder, NewPacksArrive, Arrived, Seedable, ArrivedBefore, Installed, Builtins
  <1> QED  BY <1>1, <1>10, <1>12, <1>13, <1>14, <1>15, <1>16, <1>17, <1>18 DEF PackInv

LEMMA PackTickKeeps == PackInv /\ PackTick => PackInv'
  <1> SUFFICES ASSUME PackInv, PackTick PROVE PackInv'
    OBVIOUS
  <1>1. packTime' = packTime + 1 /\ UNCHANGED <<packDb, release, packProc, toSeed, packRows, lifecycle, packLog, moving>>
    BY DEF PackTick
  <1>2. PackTypeOK'
    BY <1>1 DEF PackInv, PackTypeOK
  <1>3. RowsAreOfArchives' /\ InstalledOnce' /\ HistoryIsAWalk'
    BY <1>1, ReleasesAssumption, LenProperties, RowsStay DEF PackInv, PackTypeOK, ReleasesAssumption
  <1>4. MovesAreAllowed' /\ MovesAreAlone'
    BY <1>1 DEF PackInv, MovesAreAllowed, MovesAreAlone, CurrentState
  <1>5. SeedingIsInOrder' /\ NewPacksArrive'
    BY <1>1 DEF PackInv, SeedingIsInOrder, NewPacksArrive, Arrived, Seedable, ArrivedBefore, Installed, Builtins
  <1> QED  BY <1>2, <1>3, <1>4, <1>5 DEF PackInv

\* What any step does to the rows that are there.
PacksAreKept ==
    \A k \in DOMAIN packRows :
        /\ k \in DOMAIN packRows' /\ packRows'[k] = packRows[k]
        /\ IsPrefix(lifecycle[k], lifecycle'[k])

LEMMA PackNextKeeps == PackInv /\ [PackNext]_packVars => PackInv' /\ [PacksAreKept]_packVars
  <1> SUFFICES ASSUME PackInv, [PackNext]_packVars PROVE PackInv' /\ [PacksAreKept]_packVars
    OBVIOUS
  <1>0. \A k \in DOMAIN packRows : IsPrefix(lifecycle[k], lifecycle[k])
    <2> SUFFICES ASSUME NEW k \in DOMAIN packRows PROVE IsPrefix(lifecycle[k], lifecycle[k])
      OBVIOUS
    <2>1. lifecycle[k] \in Seq(LifeRowType)
      BY DEF PackInv, PackTypeOK
    <2> QED  BY <2>1, LenProperties DEF IsPrefix
  <1>1. CASE UNCHANGED packVars
    BY <1>1, PackStutter
  <1>2. CASE Start
    BY <1>0, <1>2, StartKeeps DEF Start, PacksAreKept
  <1>3. CASE Stop
    BY <1>0, <1>3, StopKeeps DEF Stop, PacksAreKept
  <1>4. CASE InstallWithTrustBundle
    BY <1>0, <1>4, SeedingDoes DEF PacksAreKept
  <1>5. CASE PackTick
    BY <1>0, <1>5, PackTickKeeps DEF PackTick, PacksAreKept
  <1>6. ASSUME NEW a \in PackActors, TransitionPack(a) PROVE PackInv' /\ PacksAreKept
    BY <1>6, TransitionDoes DEF PacksAreKept
  <1>7. ASSUME NEW a \in PackActors, NEW k \in DOMAIN packRows, NEW to \in DOMAIN allowedTransitions, ReadState(a, k, to)
        PROVE  PackInv' /\ PacksAreKept
    <2>1. UNCHANGED <<packRows, lifecycle>>
      BY <1>7 DEF ReadState
    <2> QED  BY <1>0, <1>7, <2>1, ReadStateKeeps DEF PacksAreKept
  <1> QED  BY <1>1, <1>2, <1>3, <1>4, <1>5, <1>6, <1>7 DEF PackNext

LEMMA PacksAreWhole == PackInv => InstalledPackIsWhole
  <1> SUFFICES ASSUME PackInv, NEW k \in DOMAIN packRows
               PROVE  /\ \E a \in ArchivesSoFar : /\ a.key = k /\ a.intact /\ a.wellFormed
                                    /\ a.content = packRows[k].content
                                    /\ a.signer = packRows[k].signer /\ a.signer \in Range(TrustBundle)
                      /\ Cardinality({i \in DOMAIN packLog : packLog[i].action = "pack.installed" /\ packLog[i].key = k}) = 1
    BY DEF InstalledPackIsWhole
  <1>1. \E i \in DOMAIN packLog :
          {j \in DOMAIN packLog : packLog[j].action = "pack.installed" /\ packLog[j].key = k} = {i}
    BY DEF PackInv, InstalledOnce
  <1>2. Cardinality({i \in DOMAIN packLog : packLog[i].action = "pack.installed" /\ packLog[i].key = k}) = 1
    BY <1>1, FS_Singleton
  <1> QED  BY <1>2 DEF PackInv, RowsAreOfArchives

\* Whatever archives the releases bring, wherever starts, stops and moves of packs by any
\* number of users come between the steps of a seeding: an installed pack is one whole
\* archive of a key that is trusted and has one entry, no start changes it or its history,
\* and on SQLite its history is a walk of the life cycle and new packs arrive.
THEOREM PacksCorrect == PackSpec => PacksAreSound
  <1>1. PackInit => PackInv
    BY PackInitInv
  <1>2. PackInv /\ [PackNext]_packVars => PackInv' /\ [PacksAreKept]_packVars
    BY PackNextKeeps
  <1>3. PackInv => InstalledPackIsWhole /\ HistoryIsAWalk /\ NewPacksArrive
    BY PacksAreWhole DEF PackInv
  <1>4. PackSpec => [](InstalledPackIsWhole /\ HistoryIsAWalk /\ NewPacksArrive)
    BY <1>1, <1>2, <1>3, PTL DEF PackSpec
  <1>5. PackSpec => [][PacksAreKept]_packVars
    BY <1>1, <1>2, PTL DEF PackSpec
  <1> QED  BY <1>4, <1>5 DEF PacksAreSound, StartsKeepPacks, PacksAreKept

--------------------------------------------------------------------------------
(* Redaction: what each loop has done of the marks it has been through.        *)

Fitting == {x \in Marks : EndOf(x) <= TextLength}
MergedMark == {x \in [offset : Nat, length : Nat \ {0}, type : DOMAIN priorityRank] : EndOf(x) <= TextLength}

\* A mark stands for the byte.
Within(b, x) == x.offset <= b /\ b < EndOf(x)
\* One of the first n marks does.
Matched(b, n) == \E k \in 1..n : Within(b, marks[k])

RedactionTypes ==
    /\ redacting \in {"collect", "merge", "substitute", "done"}
    /\ matches \in SUBSET Fitting /\ IsFiniteSet(matches)
    /\ marks \in Seq(Fitting) /\ merged \in Seq(MergedMark)
    /\ nextMark \in Nat \ {0} /\ cursor \in Nat

MarksApart == \A i, j \in DOMAIN merged : i < j => EndOf(merged[i]) + 1 < merged[j].offset

\* What mergeMarks has made of the first n marks: each is covered under a type at least as
\* specific, and what is covered beside them is single bytes in between.
Covers(n) ==
    \A k \in 1..n : \E i \in DOMAIN merged :
        /\ merged[i].offset <= marks[k].offset /\ EndOf(marks[k]) <= EndOf(merged[i])
        /\ priorityRank[merged[i].type] >= priorityRank[marks[k].type]
Fills(n) ==
    \A i \in DOMAIN merged, b \in Int : Within(b, merged[i]) =>
        Matched(b, n) \/ (Matched(b - 1, n) /\ Matched(b + 1, n))
\* The last one begins no later than the n-th mark, and its last byte was matched.
EndsWith(n) ==
    /\ n = 0 => merged = <<>>
    /\ n > 0 => /\ merged # <<>>
                /\ merged[Len(merged)].offset <= marks[n].offset
                /\ Matched(EndOf(merged[Len(merged)]) - 1, n)
MergedAre(n) == MarksApart /\ Covers(n) /\ Fills(n) /\ EndsWith(n)

\* What substitute has copied: the bytes up to the cursor that no mark stands for.
Uncovered(b) == \A i \in DOMAIN merged : ~Within(b, merged[i])
CopiedTo(n) ==
    /\ cursor = IF n = 0 THEN 0 ELSE EndOf(merged[n])
    /\ copied = {b \in 0..(TextLength - 1) : b < cursor /\ Uncovered(b)}

RedactionInv ==
    /\ RedactionTypes
    /\ redacting = "collect" => nextMark = 1 /\ merged = <<>>
    /\ redacting # "collect" => ToSet(marks) = matches /\ Sorted(marks)
    /\ redacting \in {"collect", "merge"} => cursor = 0 /\ copied = {}
    /\ redacting = "merge" => nextMark <= Len(marks) + 1 /\ MergedAre(nextMark - 1)
    /\ redacting \in {"substitute", "done"} => MergedAre(Len(marks))
    /\ redacting = "substitute" => nextMark <= Len(merged) + 1 /\ CopiedTo(nextMark - 1)
    /\ redacting = "done" => copied = {b \in 0..(TextLength - 1) : Uncovered(b)}

--------------------------------------------------------------------------------
(* Marks. *)

LEMMA Ranks == \A t \in DOMAIN priorityRank : priorityRank[t] \in Nat
  BY DEF priorityRank

LEMMA FittingIs ==
  ASSUME NEW x \in Fitting
  PROVE  /\ x.offset \in Nat /\ x.length \in Nat \ {0} /\ x.type \in DOMAIN priorityRank
         /\ EndOf(x) \in Nat /\ x.offset < EndOf(x) /\ EndOf(x) <= TextLength
         /\ x \in MergedMark
<1>1. x \in [offset : 0..TextLength, length : 1..MarkLength, type : DOMAIN priorityRank] /\ EndOf(x) <= TextLength
  BY DEF Fitting, Marks
<1>2. x.offset \in Nat /\ x.length \in Nat \ {0} /\ x.type \in DOMAIN priorityRank
  BY <1>1, RedactionAssumption
<1>3. x \in [offset : Nat, length : Nat \ {0}, type : DOMAIN priorityRank]
  BY <1>1, RedactionAssumption
<1>4. EndOf(x) \in Nat /\ x.offset < EndOf(x)
  BY <1>2 DEF EndOf
<1> QED BY <1>1, <1>2, <1>3, <1>4 DEF MergedMark

LEMMA MergedMarkIs ==
  ASSUME NEW x \in MergedMark
  PROVE  /\ x.offset \in Nat /\ x.length \in Nat \ {0} /\ x.type \in DOMAIN priorityRank
         /\ EndOf(x) \in Nat /\ x.offset < EndOf(x) /\ EndOf(x) <= TextLength
<1>1. x \in [offset : Nat, length : Nat \ {0}, type : DOMAIN priorityRank] /\ EndOf(x) <= TextLength
  BY DEF MergedMark
<1>2. x.offset \in Nat /\ x.length \in Nat \ {0} /\ x.type \in DOMAIN priorityRank
  BY <1>1
<1>3. EndOf(x) \in Nat /\ x.offset < EndOf(x)
  BY <1>2 DEF EndOf
<1> QED BY <1>1, <1>2, <1>3

\* Absorbing keeps where a mark begins and reaches to the further end of the two, under
\* the more specific of the two types.
LEMMA AbsorbIs ==
  ASSUME NEW p \in MergedMark, NEW c \in Fitting, p.offset <= c.offset
  PROVE  /\ Absorb(p, c) \in MergedMark /\ Absorb(p, c).offset = p.offset
         /\ EndOf(Absorb(p, c)) >= EndOf(p) /\ EndOf(Absorb(p, c)) >= EndOf(c)
         /\ EndOf(Absorb(p, c)) \in {EndOf(p), EndOf(c)}
         /\ priorityRank[Absorb(p, c).type] >= priorityRank[p.type]
         /\ priorityRank[Absorb(p, c).type] >= priorityRank[c.type]
<1> DEFINE e == IF EndOf(c) > EndOf(p) THEN EndOf(c) ELSE EndOf(p)
           t == IF priorityRank[c.type] > priorityRank[p.type] THEN c.type ELSE p.type
<1>1. /\ p.offset \in Nat /\ EndOf(p) \in Nat /\ p.offset < EndOf(p) /\ EndOf(p) <= TextLength
      /\ EndOf(c) \in Nat /\ EndOf(c) <= TextLength
      /\ p.type \in DOMAIN priorityRank /\ c.type \in DOMAIN priorityRank
  BY MergedMarkIs, FittingIs
<1>2. e \in {EndOf(p), EndOf(c)} /\ e >= EndOf(p) /\ e >= EndOf(c)
  BY <1>1
<1>3. t \in {p.type, c.type} /\ priorityRank[t] >= priorityRank[p.type] /\ priorityRank[t] >= priorityRank[c.type]
  BY <1>1, Ranks
<1>4. Absorb(p, c) = [offset |-> p.offset, length |-> e - p.offset, type |-> t]
  BY DEF Absorb
<1> HIDE DEF e, t
<1>5. e \in Nat /\ e <= TextLength /\ e - p.offset \in Nat \ {0} /\ p.offset + (e - p.offset) = e
  BY <1>1, <1>2
<1>6. Absorb(p, c).offset = p.offset /\ Absorb(p, c).length = e - p.offset /\ Absorb(p, c).type = t
  BY <1>4
<1>7. EndOf(Absorb(p, c)) = e
  BY <1>5, <1>6 DEF EndOf
<1>8. Absorb(p, c) \in [offset : Nat, length : Nat \ {0}, type : DOMAIN priorityRank]
  BY <1>1, <1>3, <1>4, <1>5
<1>9. Absorb(p, c) \in MergedMark
  BY <1>5, <1>7, <1>8 DEF MergedMark
<1> QED BY <1>2, <1>3, <1>6, <1>7, <1>9

LEMMA MarksOf ==
  ASSUME RedactionTypes
  PROVE  /\ Len(marks) \in Nat /\ DOMAIN marks = 1..Len(marks) /\ \A k \in 1..Len(marks) : marks[k] \in Fitting
         /\ Len(merged) \in Nat /\ DOMAIN merged = 1..Len(merged) /\ \A k \in 1..Len(merged) : merged[k] \in MergedMark
<1>1. marks \in Seq(Fitting) /\ merged \in Seq(MergedMark)
  BY DEF RedactionTypes
<1>2. /\ Len(marks) \in Nat /\ DOMAIN marks = 1..Len(marks)
      /\ Len(merged) \in Nat /\ DOMAIN merged = 1..Len(merged)
  BY <1>1, LenProperties
<1>3. \A k \in 1..Len(marks) : marks[k] \in Fitting
  BY <1>1, ElementOfSeq
<1>4. \A k \in 1..Len(merged) : merged[k] \in MergedMark
  BY <1>1, ElementOfSeq
<1> QED BY <1>2, <1>3, <1>4

\* Marks that come later in the sorted list begin no earlier.
LEMMA LaterBeginsLater ==
  ASSUME RedactionTypes, Sorted(marks), NEW j \in 1..Len(marks), NEW i \in 1..Len(marks), i <= j
  PROVE  marks[i].offset <= marks[j].offset
<1>1. marks[i].offset \in Nat /\ marks[j].offset \in Nat
  BY MarksOf, FittingIs
<1>2. CASE i = j
  BY <1>1, <1>2
<1>3. CASE i < j
  <2>1. ~Before(marks[j], marks[i])
    BY <1>3, MarksOf DEF Sorted
  <2>2. ~(marks[j].offset < marks[i].offset)
    BY <2>1 DEF Before
  <2> QED BY <2>2, <1>1
<1> QED BY <1>2, <1>3, MarksOf

--------------------------------------------------------------------------------
(* One round of mergeMarks. *)


LEMMA MatchedGrows ==
  ASSUME NEW n \in Nat \ {0}, NEW b \in Int
  PROVE  /\ Matched(b, n - 1) => Matched(b, n)
         /\ Within(b, marks[n]) => Matched(b, n)
<1>1. \A k \in 1..(n - 1) : k \in 1..n
  OBVIOUS
<1>2. n \in 1..n
  OBVIOUS
<1> QED BY <1>1, <1>2 DEF Matched

\* The mark touches none before it, and becomes one of its own.
LEMMA MergeAppends ==
  ASSUME RedactionTypes, NEW n \in 1..Len(marks), Sorted(marks), MergedAre(n - 1),
         ~Touches(merged, marks[n]), merged' = Append(merged, marks[n]), marks' = marks
  PROVE  merged' \in Seq(MergedMark) /\ MergedAre(n)'
<1> DEFINE c == marks[n]
           l == Len(merged)
<1>1. /\ n \in Nat \ {0} /\ l \in Nat /\ c \in Fitting /\ c \in MergedMark /\ n - 1 \in Nat
      /\ c.offset \in Nat /\ EndOf(c) \in Nat /\ c.offset < EndOf(c)
  BY MarksOf, FittingIs
<1>2. /\ merged' \in Seq(MergedMark) /\ Len(merged') = l + 1
      /\ \A i \in 1..l : merged'[i] = merged[i]
      /\ merged'[l + 1] = c
  BY <1>1, AppendProperties DEF RedactionTypes
<1>3. DOMAIN merged' = 1..(l + 1) /\ DOMAIN merged = 1..l
  BY <1>2, LenProperties, MarksOf
<1>4. \A i \in 1..l : /\ merged[i] \in MergedMark /\ merged[i].offset \in Nat /\ EndOf(merged[i]) \in Nat
                      /\ merged[i].offset < EndOf(merged[i])
  BY MarksOf, MergedMarkIs
<1>5. \A i \in 1..(l + 1) : i \in 1..l \/ i = l + 1
  BY <1>1
<1>6. \A i \in 1..l : EndOf(merged[i]) + 1 < c.offset
  <2> SUFFICES ASSUME NEW i \in 1..l PROVE EndOf(merged[i]) + 1 < c.offset
    OBVIOUS
  <2>1. l \in 1..l /\ merged # <<>>
    BY <1>1, <1>3
  <2>2. EndOf(merged[l]) + 1 < c.offset
    <3>1. ~(c.offset <= EndOf(merged[l]) + 1)
      BY <2>1 DEF Touches
    <3>2. EndOf(merged[l]) \in Nat /\ c.offset \in Nat
      BY <2>1, <1>1, <1>4
    <3> HIDE DEF c, l
    <3> QED BY <3>1, <3>2
  <2>3. CASE i = l
    BY <2>2, <2>3
  <2>4. CASE i < l
    <3>1. EndOf(merged[i]) + 1 < merged[l].offset
      BY <2>1, <2>4, <1>3 DEF MergedAre, MarksApart
    <3>2. merged[l].offset < EndOf(merged[l]) /\ merged[l].offset \in Nat /\ EndOf(merged[l]) \in Nat /\ EndOf(merged[i]) \in Nat
      BY <2>1, <1>4
    <3>3. c.offset \in Nat
      BY <1>1
    <3> HIDE DEF c, l
    <3> QED BY <2>2, <3>1, <3>2, <3>3
  <2>5. i = l \/ i < l
    <3> HIDE DEF c, l
    <3> QED BY <1>1
  <2> QED BY <2>3, <2>4, <2>5
<1>7. MarksApart'
  <2> SUFFICES ASSUME NEW i \in 1..(l + 1), NEW j \in 1..(l + 1), i < j
               PROVE  EndOf(merged'[i]) + 1 < merged'[j].offset
    BY <1>3 DEF MarksApart, EndOf
  <2>1. i \in 1..l
    BY <1>1
  <2>2. CASE j \in 1..l
    BY <2>1, <2>2, <1>2, <1>3 DEF MergedAre, MarksApart
  <2>3. CASE j = l + 1
    BY <2>1, <2>3, <1>2, <1>6
  <2> QED BY <2>2, <2>3, <1>5
<1>8. Covers(n)'
  <2> SUFFICES ASSUME NEW k \in 1..n
               PROVE  \E i \in 1..(l + 1) :
                         /\ merged'[i].offset <= marks[k].offset /\ EndOf(marks[k]) <= EndOf(merged'[i])
                         /\ priorityRank[merged'[i].type] >= priorityRank[marks[k].type]
    BY <1>3 DEF Covers, EndOf
  <2>1. CASE k \in 1..(n - 1)
    <3>1. PICK i \in 1..l : /\ merged[i].offset <= marks[k].offset /\ EndOf(marks[k]) <= EndOf(merged[i])
                            /\ priorityRank[merged[i].type] >= priorityRank[marks[k].type]
      BY <2>1, <1>3 DEF MergedAre, Covers
    <3>2. i \in 1..(l + 1) /\ merged'[i] = merged[i]
      <4> HIDE DEF c, l
      <4> QED BY <1>1, <1>2
    <3> QED BY <3>1, <3>2
  <2>2. CASE k = n
    <3>1. /\ c.offset <= c.offset /\ EndOf(c) <= EndOf(c) /\ priorityRank[c.type] >= priorityRank[c.type]
      BY <1>1, FittingIs, Ranks
    <3>2. l + 1 \in 1..(l + 1)
      BY <1>1
    <3> QED BY <2>2, <3>1, <3>2, <1>2
  <2>3. k \in 1..(n - 1) \/ k = n
    <3> HIDE DEF c, l
    <3> QED BY <1>1
  <2> QED BY <2>1, <2>2, <2>3
<1>9. Fills(n)'
  <2> SUFFICES ASSUME NEW i \in 1..(l + 1), NEW b \in Int, Within(b, merged'[i])
               PROVE  Matched(b, n) \/ (Matched(b - 1, n) /\ Matched(b + 1, n))
    BY <1>3 DEF Fills, Within, EndOf, Matched
  <2>1. CASE i \in 1..l
    <3>1. Matched(b, n - 1) \/ (Matched(b - 1, n - 1) /\ Matched(b + 1, n - 1))
      BY <2>1, <1>2, <1>3 DEF MergedAre, Fills
    <3>2. b - 1 \in Int /\ b + 1 \in Int
      OBVIOUS
    <3> QED BY <3>1, <3>2, <1>1, MatchedGrows
  <2>2. CASE i = l + 1
    BY <2>2, <1>1, <1>2, MatchedGrows
  <2> QED BY <2>1, <2>2, <1>5
<1>10. EndsWith(n)'
  <2>1. Within(EndOf(c) - 1, c)
    BY <1>1 DEF Within
  <2>2. EndOf(c) - 1 \in Int
    BY <1>1
  <2>3. Matched(EndOf(c) - 1, n)
    BY <2>1, <2>2, <1>1, MatchedGrows
  <2>4. merged' # <<>>
    BY <1>2, <1>1
  <2>5. merged'[Len(merged')] = c /\ c.offset <= marks'[n].offset
    BY <1>1, <1>2
  <2>6. Matched(EndOf(merged'[Len(merged')]) - 1, n)
    BY <2>3, <2>5
  <2> QED BY <2>4, <2>5, <2>6, <1>1 DEF EndsWith, Matched, Within, EndOf
<1> QED BY <1>2, <1>7, <1>8, <1>9, <1>10 DEF MergedAre

\* The mark overlaps the last one, touches it, or leaves one byte between them.
LEMMA MergeAbsorbs ==
  ASSUME RedactionTypes, NEW n \in 1..Len(marks), Sorted(marks), MergedAre(n - 1), Touches(merged, marks[n]),
         merged' = [merged EXCEPT ![Len(merged)] = Absorb(merged[Len(merged)], marks[n])], marks' = marks
  PROVE  merged' \in Seq(MergedMark) /\ MergedAre(n)'
<1> DEFINE c == marks[n]
           l == Len(merged)
           p == merged[l]
           q == Absorb(p, c)
<1>1. /\ n \in Nat \ {0} /\ l \in Nat /\ c \in Fitting /\ n - 1 \in Nat
      /\ c.offset \in Nat /\ EndOf(c) \in Nat /\ c.offset < EndOf(c)
  BY MarksOf, FittingIs
<1>2. l \in 1..l /\ DOMAIN merged = 1..l /\ c.offset <= EndOf(p) + 1
  BY <1>1, MarksOf, EmptySeq DEF Touches, RedactionTypes
<1>3. n - 1 > 0 /\ p.offset <= marks[n - 1].offset /\ Matched(EndOf(p) - 1, n - 1)
  <2>1. n - 1 # 0
    BY <1>1 DEF MergedAre, EndsWith, Touches
  <2> QED BY <2>1, <1>1 DEF MergedAre, EndsWith
<1>4. p \in MergedMark /\ p.offset \in Nat /\ EndOf(p) \in Nat /\ p.offset < EndOf(p)
  BY <1>2, MarksOf, MergedMarkIs
<1>5. p.offset <= c.offset
  <2>1. n - 1 \in 1..Len(marks) /\ n - 1 <= n
    BY <1>1, <1>3
  <2>2. marks[n - 1].offset <= c.offset /\ marks[n - 1].offset \in Nat
    BY <2>1, LaterBeginsLater, MarksOf, FittingIs
  <2> QED BY <2>2, <1>1, <1>3, <1>4
<1>6. /\ q \in MergedMark /\ q.offset = p.offset
      /\ EndOf(q) >= EndOf(p) /\ EndOf(q) >= EndOf(c) /\ EndOf(q) \in {EndOf(p), EndOf(c)}
      /\ priorityRank[q.type] >= priorityRank[p.type] /\ priorityRank[q.type] >= priorityRank[c.type]
  BY <1>1, <1>4, <1>5, AbsorbIs
<1> HIDE DEF q
<1>7. /\ merged' \in Seq(MergedMark) /\ Len(merged') = l /\ DOMAIN merged' = 1..l
      /\ \A i \in 1..l : merged'[i] = IF i = l THEN q ELSE merged[i]
  <2>1. merged' = [merged EXCEPT ![l] = q]
    BY DEF q
  <2>2. merged \in [1..l -> MergedMark] /\ merged \in Seq(MergedMark)
    BY LenProperties DEF RedactionTypes
  <2>3. merged' \in [1..l -> MergedMark]
    BY <2>1, <2>2, <1>2, <1>6
  <2>4. merged' \in Seq(MergedMark)
    BY <2>1, <2>2, <1>2, <1>6, ExceptSeq
  <2>5. Len(merged') = l
    BY <2>1, <2>2, <1>2, <1>6, ExceptSeq
  <2> QED BY <2>1, <2>2, <2>3, <2>4, <2>5, <1>2
<1>8. MarksApart'
  <2> SUFFICES ASSUME NEW i \in 1..l, NEW j \in 1..l, i < j
               PROVE  EndOf(merged'[i]) + 1 < merged'[j].offset
    BY <1>7 DEF MarksApart, EndOf
  <2>1. EndOf(merged[i]) + 1 < merged[j].offset
    BY <1>2 DEF MergedAre, MarksApart
  <2>2. i # l /\ merged'[i] = merged[i]
    <3> HIDE DEF p, c, l
    <3>1. i # l
      BY <1>1
    <3> QED BY <3>1, <1>7
  <2>3. merged'[j].offset = merged[j].offset
    BY <1>6, <1>7
  <2> QED BY <2>1, <2>2, <2>3
<1>9. Covers(n)'
  <2> SUFFICES ASSUME NEW k \in 1..n
               PROVE  \E i \in 1..l :
                         /\ merged'[i].offset <= marks[k].offset /\ EndOf(marks[k]) <= EndOf(merged'[i])
                         /\ priorityRank[merged'[i].type] >= priorityRank[marks[k].type]
    BY <1>7 DEF Covers, EndOf
  <2>0. marks[k] \in Fitting /\ marks[k].offset \in Nat /\ EndOf(marks[k]) \in Nat /\ priorityRank[marks[k].type] \in Nat
    BY MarksOf, FittingIs, Ranks
  <2>1. CASE k \in 1..(n - 1)
    <3>1. PICK i \in 1..l : /\ merged[i].offset <= marks[k].offset /\ EndOf(marks[k]) <= EndOf(merged[i])
                            /\ priorityRank[merged[i].type] >= priorityRank[marks[k].type]
      BY <2>1, <1>2 DEF MergedAre, Covers
    <3>2. CASE i # l
      BY <3>1, <3>2, <1>7
    <3>3. CASE i = l
      <4>1. priorityRank[p.type] \in Nat /\ priorityRank[q.type] \in Nat /\ EndOf(q) \in Nat
        BY <1>4, <1>6, MergedMarkIs, Ranks
      <4>2. EndOf(marks[k]) <= EndOf(q) /\ priorityRank[q.type] >= priorityRank[marks[k].type]
        BY <4>1, <3>1, <3>3, <2>0, <1>4, <1>6
      <4> QED BY <4>2, <3>1, <3>3, <1>2, <1>6, <1>7
    <3> QED BY <3>2, <3>3
  <2>2. CASE k = n
    BY <2>2, <1>2, <1>5, <1>6, <1>7
  <2> QED BY <2>1, <2>2, <1>1
<1>10. Fills(n)'
  <2> SUFFICES ASSUME NEW i \in 1..l, NEW b \in Int, Within(b, merged'[i])
               PROVE  Matched(b, n) \/ (Matched(b - 1, n) /\ Matched(b + 1, n))
    BY <1>7 DEF Fills, Within, EndOf, Matched
  <2>0. b - 1 \in Int /\ b + 1 \in Int
    OBVIOUS
  <2>1. CASE Within(b, merged[i])
    <3>1. Matched(b, n - 1) \/ (Matched(b - 1, n - 1) /\ Matched(b + 1, n - 1))
      BY <2>1, <1>2 DEF MergedAre, Fills
    <3> QED BY <3>1, <2>0, <1>1, MatchedGrows
  <2>2. CASE ~Within(b, merged[i])
    <3>1. i = l /\ Within(b, q)
      BY <2>2, <1>7
    <3>2. b >= EndOf(p) /\ b < EndOf(c)
      <4>1. p.offset <= b /\ b < EndOf(q)
        BY <3>1, <1>6 DEF Within
      <4>2. ~(p.offset <= b /\ b < EndOf(p))
        BY <2>2, <3>1 DEF Within
      <4> QED BY <4>1, <4>2, <1>1, <1>4, <1>6
    <3>3. CASE c.offset <= b
      BY <3>2, <3>3, <1>1, MatchedGrows DEF Within
    <3>4. CASE b < c.offset
      <4>1. b = EndOf(p) /\ b + 1 = c.offset
        <5> HIDE DEF p, c, l
        <5>1. b \in Int /\ EndOf(p) \in Int /\ c.offset \in Int
          BY <1>1, <1>4
        <5>2. b >= EndOf(p) /\ b < c.offset /\ c.offset <= EndOf(p) + 1
          BY <3>2, <3>4, <1>2
        <5> QED BY <5>1, <5>2
      <4>2. Matched(b - 1, n)
        BY <4>1, <2>0, <1>1, <1>3, MatchedGrows
      <4>3. Within(b + 1, c)
        BY <4>1, <1>1 DEF Within
      <4> QED BY <4>2, <4>3, <2>0, <1>1, MatchedGrows
    <3> QED BY <3>3, <3>4, <1>1
  <2> QED BY <2>1, <2>2
<1>11. EndsWith(n)'
  <2>1. merged'[Len(merged')] = q
    BY <1>7, <1>2
  <2>2. merged' # <<>>
    <3>0. l >= 1
      <4> HIDE DEF p, c, l
      <4> QED BY <1>1, <1>2
    <3>1. l >= 1 /\ Len(merged') = l
      BY <3>0, <1>7
    <3>2. Len(<<>>) = 0
      OBVIOUS
    <3> QED BY <3>1, <3>2
  <2>3. Matched(EndOf(q) - 1, n)
    <3>1. CASE EndOf(q) = EndOf(p)
      <4>1. EndOf(p) - 1 \in Int
        BY <1>4
      <4> QED BY <4>1, <3>1, <1>1, <1>3, MatchedGrows
    <3>2. CASE EndOf(q) = EndOf(c)
      <4>1. Within(EndOf(c) - 1, c) /\ EndOf(c) - 1 \in Int
        BY <1>1 DEF Within
      <4> QED BY <4>1, <3>2, <1>1, MatchedGrows
    <3> QED BY <3>1, <3>2, <1>6
  <2>4. q.offset <= marks'[n].offset
    BY <1>5, <1>6
  <2>5. Matched(EndOf(merged'[Len(merged')]) - 1, n)
    BY <2>1, <2>3
  <2>6. merged'[Len(merged')].offset <= marks'[n].offset
    BY <2>1, <2>4
  <2> QED BY <2>2, <2>5, <2>6, <1>1 DEF EndsWith, Matched, Within, EndOf
<1> QED BY <1>7, <1>8, <1>9, <1>10, <1>11 DEF MergedAre

--------------------------------------------------------------------------------
(* The loops. *)

LEMMA RedactionBegins == RedactionInit => RedactionInv
<1> SUFFICES ASSUME RedactionInit PROVE RedactionInv
  OBVIOUS
<1>1. <<>> \in Seq(Fitting) /\ <<>> \in Seq(MergedMark) /\ IsFiniteSet({})
  BY EmptySeq, FS_EmptySet
<1> QED BY <1>1 DEF RedactionInit, RedactionInv, RedactionTypes

LEMMA Collects ==
  ASSUME RedactionInv, NEW x \in Marks, CollectMarks(x)
  PROVE  RedactionInv'
<1>1. x \in Fitting
  BY DEF CollectMarks, Fitting
<1>2. IsFiniteSet(matches \cup {x})
  BY FS_AddElement DEF RedactionInv, RedactionTypes
<1> QED BY <1>1, <1>2 DEF CollectMarks, RedactionInv, RedactionTypes

LEMMA Sorts ==
  ASSUME RedactionInv, SortMarks
  PROVE  RedactionInv'
<1>1. PICK s \in [1..Cardinality(matches) -> matches] : ToSet(s) = matches /\ Sorted(s) /\ marks' = s
  BY DEF SortMarks
<1>2. /\ redacting = "collect" /\ redacting' = "merge"
      /\ UNCHANGED <<matches, nextMark, merged, cursor, copied>>
  BY DEF SortMarks
<1>3. nextMark = 1 /\ merged = <<>> /\ cursor = 0 /\ copied = {} /\ RedactionTypes
  BY <1>2 DEF RedactionInv
<1>4. s \in Seq(Fitting)
  <2>1. Cardinality(matches) \in Nat
    BY <1>3, FS_CardinalityType DEF RedactionTypes
  <2>2. matches \subseteq Fitting
    BY <1>3 DEF RedactionTypes
  <2>3. s \in [1..Cardinality(matches) -> Fitting]
    BY <2>2
  <2> QED BY <2>1, <2>3, SeqDef
<1>5. RedactionTypes'
  BY <1>1, <1>2, <1>3, <1>4 DEF RedactionTypes
<1>6. MergedAre(0)'
  <2>1. merged' = <<>> /\ DOMAIN merged' = {}
    BY <1>2, <1>3
  <2> QED BY <2>1 DEF MergedAre, MarksApart, Covers, Fills, EndsWith
<1>7. Len(s) \in Nat
  BY <1>4, LenProperties
<1>8. /\ ToSet(marks)' = matches' /\ Sorted(marks)'
  BY <1>1, <1>2 DEF ToSet, Sorted, Before
<1> QED BY <1>1, <1>2, <1>3, <1>5, <1>6, <1>7, <1>8 DEF RedactionInv

LEMMA Merges ==
  ASSUME RedactionInv, MergeMarks
  PROVE  RedactionInv'
<1>1. /\ redacting = "merge" /\ nextMark <= Len(marks) /\ nextMark' = nextMark + 1
      /\ UNCHANGED <<redacting, matches, marks, cursor, copied>>
  BY DEF MergeMarks
<1>2. /\ RedactionTypes /\ MergedAre(nextMark - 1) /\ Sorted(marks) /\ ToSet(marks) = matches
      /\ cursor = 0 /\ copied = {}
  BY <1>1 DEF RedactionInv
<1>3. PICK n \in 1..Len(marks) : n = nextMark
  BY <1>1, <1>2, MarksOf DEF RedactionTypes
<1>4. merged' \in Seq(MergedMark) /\ MergedAre(n)'
  <2>1. MergedAre(n - 1)
    BY <1>2, <1>3
  <2>2. CASE Touches(merged, marks[n])
    <3>1. merged' = [merged EXCEPT ![Len(merged)] = Absorb(merged[Len(merged)], marks[n])]
      BY <1>3, <2>2 DEF MergeMarks
    <3> QED BY <3>1, <2>1, <2>2, <1>1, <1>2, MergeAbsorbs
  <2>3. CASE ~Touches(merged, marks[n])
    <3>1. merged' = Append(merged, marks[n])
      BY <1>3, <2>3 DEF MergeMarks
    <3> QED BY <3>1, <2>1, <2>3, <1>1, <1>2, MergeAppends
  <2> QED BY <2>2, <2>3
<1>5. RedactionTypes'
  BY <1>1, <1>2, <1>4 DEF RedactionTypes
<1>6. nextMark' - 1 = n /\ nextMark' <= Len(marks) + 1
  BY <1>1, <1>3, MarksOf, <1>2
<1>7. ToSet(marks)' = matches' /\ Sorted(marks)'
  BY <1>1, <1>2 DEF ToSet, Sorted, Before
<1>8. MergedAre(nextMark - 1)'
  BY <1>4, <1>6
<1> QED BY <1>1, <1>2, <1>5, <1>6, <1>7, <1>8 DEF RedactionInv

LEMMA MergeEnds ==
  ASSUME RedactionInv, MergeDone
  PROVE  RedactionInv'
<1>1. /\ redacting = "merge" /\ nextMark > Len(marks) /\ redacting' = "substitute" /\ nextMark' = 1
      /\ UNCHANGED <<matches, marks, merged, cursor, copied>>
  BY DEF MergeDone
<1>2. /\ RedactionTypes /\ MergedAre(nextMark - 1) /\ Sorted(marks) /\ ToSet(marks) = matches
      /\ cursor = 0 /\ copied = {} /\ nextMark <= Len(marks) + 1
  BY <1>1 DEF RedactionInv
<1>3. nextMark - 1 = Len(marks)
  BY <1>1, <1>2, MarksOf DEF RedactionTypes
<1>4. MergedAre(Len(marks))
  BY <1>2, <1>3
<1>5. MergedAre(Len(marks))'
  BY <1>1, <1>4 DEF MergedAre, MarksApart, Covers, Fills, EndsWith, Matched, Within, EndOf
<1>6. RedactionTypes'
  BY <1>1, <1>2 DEF RedactionTypes
<1>7. CopiedTo(0)'
  <2>1. cursor' = 0 /\ copied' = {}
    BY <1>1, <1>2
  <2>2. {b \in 0..(TextLength - 1) : b < 0 /\ Uncovered(b)'} = {}
    OBVIOUS
  <2> QED BY <2>1, <2>2 DEF CopiedTo
<1>8. ToSet(marks)' = matches' /\ Sorted(marks)'
  BY <1>1, <1>2 DEF ToSet, Sorted, Before
<1>9. nextMark' <= Len(merged') + 1
  BY <1>1, <1>2, MarksOf
<1> QED BY <1>1, <1>5, <1>6, <1>7, <1>8, <1>9 DEF RedactionInv

\* A byte behind the cursor that no mark stands for was copied, one before it is copied
\* now unless it is of the next mark.
LEMMA Substitutes ==
  ASSUME RedactionInv, Substitute
  PROVE  RedactionInv'
<1>1. /\ redacting = "substitute" /\ nextMark <= Len(merged)
      /\ copied' = copied \cup cursor..(merged[nextMark].offset - 1)
      /\ cursor' = EndOf(merged[nextMark]) /\ nextMark' = nextMark + 1
      /\ UNCHANGED <<redacting, matches, marks, merged>>
  BY DEF Substitute
<1>2. /\ RedactionTypes /\ MergedAre(Len(marks)) /\ Sorted(marks) /\ ToSet(marks) = matches /\ CopiedTo(nextMark - 1)
  BY <1>1 DEF RedactionInv
<1>3. PICK n \in 1..Len(merged) : n = nextMark
  BY <1>1, <1>2, MarksOf DEF RedactionTypes
<1> DEFINE m == merged[n]
<1>4. m \in MergedMark /\ m.offset \in Nat /\ EndOf(m) \in Nat /\ m.offset < EndOf(m) /\ EndOf(m) <= TextLength
  BY <1>2, MarksOf, MergedMarkIs
<1>5. \A i \in 1..Len(merged) : /\ merged[i].offset \in Nat /\ EndOf(merged[i]) \in Nat
                                /\ merged[i].offset < EndOf(merged[i])
  BY <1>2, MarksOf, MergedMarkIs
<1>6. \A i, j \in 1..Len(merged) : i < j => EndOf(merged[i]) + 1 < merged[j].offset
  BY <1>2, MarksOf DEF MergedAre, MarksApart
<1>0. Len(merged) \in Nat /\ DOMAIN merged = 1..Len(merged) /\ cursor \in Nat
  BY <1>2, MarksOf DEF RedactionTypes
<1>7. cursor <= m.offset
  <2>1. CASE n = 1
    BY <2>1, <1>2, <1>3, <1>4 DEF CopiedTo
  <2>2. CASE n # 1
    <3>1. cursor = EndOf(merged[n - 1])
      BY <2>2, <1>2, <1>3, <1>0 DEF CopiedTo
    <3>2. n - 1 \in 1..Len(merged) /\ n - 1 < n
      BY <2>2, <1>0
    <3> QED BY <3>1, <3>2, <1>4, <1>5, <1>6
  <2> QED BY <2>1, <2>2
<1>8. \A b \in cursor..(m.offset - 1) : Uncovered(b)
  <2> SUFFICES ASSUME NEW b \in cursor..(m.offset - 1), NEW i \in 1..Len(merged) PROVE ~Within(b, merged[i])
    BY <1>0 DEF Uncovered
  <2>1. CASE i < n
    <3>1. n - 1 \in 1..Len(merged) /\ n # 1 /\ (i = n - 1 \/ i < n - 1)
      BY <2>1, <1>0
    <3>2. cursor = EndOf(merged[n - 1])
      BY <3>1, <1>2, <1>3, <1>0 DEF CopiedTo
    <3>3. EndOf(merged[i]) <= EndOf(merged[n - 1])
      <4>1. CASE i = n - 1
        BY <4>1, <3>1, <1>5
      <4>2. CASE i < n - 1
        <5>1. EndOf(merged[i]) + 1 < merged[n - 1].offset
          BY <4>2, <3>1, <1>6
        <5> QED BY <5>1, <3>1, <1>5
      <4> QED BY <4>1, <4>2, <3>1
    <3> QED BY <3>2, <3>3, <1>0, <1>4, <1>5 DEF Within
  <2>2. CASE i = n
    BY <2>2, <1>4, <1>0 DEF Within
  <2>3. CASE n < i
    <3>1. EndOf(m) + 1 < merged[i].offset
      BY <2>3, <1>6
    <3> QED BY <3>1, <1>4, <1>5, <1>0 DEF Within
  <2> QED BY <2>1, <2>2, <2>3, <1>0
<1>9. \A b \in 0..(TextLength - 1) : b \in copied' <=> b < EndOf(m) /\ Uncovered(b)
  <2> SUFFICES ASSUME NEW b \in 0..(TextLength - 1) PROVE b \in copied' <=> b < EndOf(m) /\ Uncovered(b)
    OBVIOUS
  <2>0. b \in Nat
    BY RedactionAssumption
  <2>1. b \in copied <=> b < cursor /\ Uncovered(b)
    BY <1>2 DEF CopiedTo
  <2>2. b \in copied' <=> b \in copied \/ b \in cursor..(m.offset - 1)
    BY <1>1, <1>3
  <2>3. b < cursor => b < EndOf(m)
    BY <2>0, <1>0, <1>4, <1>7
  <2>4. b \in cursor..(m.offset - 1) => b < EndOf(m) /\ Uncovered(b)
    BY <2>0, <1>0, <1>4, <1>8
  <2>5. b < EndOf(m) /\ Uncovered(b) => b < m.offset
    BY <2>0, <1>0, <1>4 DEF Uncovered, Within
  <2>6. b < m.offset => b < cursor \/ b \in cursor..(m.offset - 1)
    BY <2>0, <1>0, <1>4
  <2> QED BY <2>1, <2>2, <2>3, <2>4, <2>5, <2>6
<1>10. copied' \subseteq 0..(TextLength - 1)
  <2>1. copied \subseteq 0..(TextLength - 1)
    BY <1>2 DEF CopiedTo
  <2>2. cursor..(m.offset - 1) \subseteq 0..(TextLength - 1)
    BY <1>0, <1>4, RedactionAssumption
  <2> QED BY <2>1, <2>2, <1>1, <1>3
<1>11. CopiedTo(n)'
  <2>1. copied' = {b \in 0..(TextLength - 1) : b < EndOf(m) /\ Uncovered(b)}
    BY <1>9, <1>10
  <2>2. cursor' = EndOf(m) /\ merged' = merged /\ n # 0
    BY <1>1, <1>3, <1>0
  <2> QED BY <2>1, <2>2 DEF CopiedTo, Uncovered, Within, EndOf
<1>12. nextMark' - 1 = n /\ nextMark' <= Len(merged') + 1
  BY <1>1, <1>3, <1>0
<1>13. CopiedTo(nextMark - 1)'
  BY <1>11, <1>12
<1>14. MergedAre(Len(marks))'
  BY <1>1, <1>2 DEF MergedAre, MarksApart, Covers, Fills, EndsWith, Matched, Within, EndOf
<1>15. RedactionTypes'
  BY <1>1, <1>2, <1>3, <1>4 DEF RedactionTypes
<1>16. ToSet(marks)' = matches' /\ Sorted(marks)'
  BY <1>1, <1>2 DEF ToSet, Sorted, Before
<1> QED BY <1>1, <1>12, <1>13, <1>14, <1>15, <1>16 DEF RedactionInv

LEMMA SubstituteEnds ==
  ASSUME RedactionInv, SubstituteDone
  PROVE  RedactionInv'
<1>1. /\ redacting = "substitute" /\ nextMark > Len(merged) /\ redacting' = "done"
      /\ copied' = copied \cup cursor..(TextLength - 1)
      /\ UNCHANGED <<matches, marks, nextMark, merged, cursor>>
  BY DEF SubstituteDone
<1>2. /\ RedactionTypes /\ MergedAre(Len(marks)) /\ Sorted(marks) /\ ToSet(marks) = matches
      /\ CopiedTo(nextMark - 1) /\ nextMark <= Len(merged) + 1
  BY <1>1 DEF RedactionInv
<1>0. Len(merged) \in Nat /\ DOMAIN merged = 1..Len(merged) /\ cursor \in Nat
  BY <1>2, MarksOf DEF RedactionTypes
<1> DEFINE n == Len(merged)
<1>3. nextMark - 1 = n
  BY <1>0, <1>1, <1>2 DEF RedactionTypes
<1>5. \A i \in 1..n : /\ merged[i].offset \in Nat /\ EndOf(merged[i]) \in Nat
                      /\ merged[i].offset < EndOf(merged[i])
  BY <1>2, MarksOf, MergedMarkIs
<1>6. \A i, j \in 1..n : i < j => EndOf(merged[i]) + 1 < merged[j].offset
  BY <1>2, MarksOf DEF MergedAre, MarksApart
<1>7. \A b \in Nat : b >= cursor => Uncovered(b)
  <2> SUFFICES ASSUME NEW b \in Nat, b >= cursor, NEW i \in 1..n PROVE ~Within(b, merged[i])
    BY <1>0 DEF Uncovered
  <2>1. n # 0 /\ n \in 1..n /\ (i = n \/ i < n)
    <3>1. n \in Nat
      BY <1>0
    <3> HIDE DEF n
    <3> QED BY <3>1
  <2>2. cursor = EndOf(merged[n])
    BY <2>1, <1>2, <1>3 DEF CopiedTo
  <2>3. EndOf(merged[i]) <= EndOf(merged[n])
    BY <2>1, <1>5, <1>6
  <2> QED BY <2>1, <2>2, <2>3, <1>0, <1>5 DEF Within
<1>8. \A b \in 0..(TextLength - 1) : b \in copied' <=> Uncovered(b)
  <2> SUFFICES ASSUME NEW b \in 0..(TextLength - 1) PROVE b \in copied' <=> Uncovered(b)
    OBVIOUS
  <2>0. b \in Nat /\ b <= TextLength - 1
    BY RedactionAssumption
  <2>1. b \in copied <=> b < cursor /\ Uncovered(b)
    BY <1>2 DEF CopiedTo
  <2>2. b \in cursor..(TextLength - 1) <=> b >= cursor
    BY <2>0, <1>0
  <2>3. b < cursor \/ b >= cursor
    BY <2>0, <1>0
  <2> QED BY <2>0, <2>1, <2>2, <2>3, <1>1, <1>7
<1>9. copied' \subseteq 0..(TextLength - 1)
  <2>1. copied \subseteq 0..(TextLength - 1)
    BY <1>2 DEF CopiedTo
  <2>2. cursor..(TextLength - 1) \subseteq 0..(TextLength - 1)
    BY <1>0, RedactionAssumption
  <2> QED BY <2>1, <2>2, <1>1
<1>10. copied' = {b \in 0..(TextLength - 1) : Uncovered(b)'}
  <2>1. copied' = {b \in 0..(TextLength - 1) : Uncovered(b)}
    BY <1>8, <1>9
  <2> QED BY <2>1, <1>1 DEF Uncovered, Within, EndOf
<1>14. MergedAre(Len(marks))'
  BY <1>1, <1>2 DEF MergedAre, MarksApart, Covers, Fills, EndsWith, Matched, Within, EndOf
<1>15. RedactionTypes'
  BY <1>1, <1>2 DEF RedactionTypes
<1>16. ToSet(marks)' = matches' /\ Sorted(marks)'
  BY <1>1, <1>2 DEF ToSet, Sorted, Before
<1> QED BY <1>1, <1>10, <1>14, <1>15, <1>16 DEF RedactionInv

LEMMA RedactionUnchanged ==
  ASSUME RedactionInv, UNCHANGED redactionVars
  PROVE  RedactionInv'
  BY DEF redactionVars, RedactionInv, RedactionTypes, MergedAre, MarksApart, Covers, Fills, EndsWith, Matched,
         Within, EndOf, CopiedTo, Uncovered, ToSet, Sorted, Before

\* What the loops have done when the last of them is.
LEMMA InvRedacts == RedactionInv => RedactionIsExact
<1> SUFFICES ASSUME RedactionInv, redacting = "done"
             PROVE  /\ copied = (0..(TextLength - 1)) \ Bytes(ToSet(merged))
                    /\ copied \cap Bytes(matches) = {}
                    /\ \A b \in (0..(TextLength - 1)) \ copied :
                          b \in Bytes(matches) \/ {b - 1, b + 1} \subseteq Bytes(matches)
                    /\ \A x \in matches : \E i \in DOMAIN merged :
                          /\ merged[i].offset <= x.offset /\ EndOf(x) <= EndOf(merged[i])
                          /\ priorityRank[merged[i].type] >= priorityRank[x.type]
                    /\ MarksApart
  BY DEF RedactionIsExact, MarksApart
<1>1. /\ RedactionTypes /\ MergedAre(Len(marks)) /\ ToSet(marks) = matches
      /\ copied = {b \in 0..(TextLength - 1) : Uncovered(b)}
  BY DEF RedactionInv
<1>2. \A k \in 1..Len(marks) : marks[k] \in matches
  BY <1>1, MarksOf DEF ToSet
<1>3. \A x \in matches : \E k \in 1..Len(marks) : marks[k] = x
  BY <1>1, MarksOf DEF ToSet
<1>4. \A x \in Fitting \cup MergedMark, b \in Int : b \in x.offset..(EndOf(x) - 1) <=> Within(b, x)
  <2> SUFFICES ASSUME NEW x \in Fitting \cup MergedMark, NEW b \in Int
               PROVE  b \in x.offset..(EndOf(x) - 1) <=> Within(b, x)
    OBVIOUS
  <2>1. x.offset \in Int /\ EndOf(x) \in Int
    BY FittingIs, MergedMarkIs
  <2> QED BY <2>1 DEF Within
<1>5. \A b \in Int : Matched(b, Len(marks)) => b \in Bytes(matches)
  <2> SUFFICES ASSUME NEW b \in Int, NEW k \in 1..Len(marks), Within(b, marks[k]) PROVE b \in Bytes(matches)
    BY DEF Matched
  <2>1. marks[k] \in matches /\ marks[k] \in Fitting
    BY <1>1, <1>2, MarksOf
  <2>2. b \in marks[k].offset..(EndOf(marks[k]) - 1)
    BY <2>1, <1>4
  <2> QED BY <2>1, <2>2 DEF Bytes
<1>6. \A b \in 0..(TextLength - 1) : b \notin Bytes(ToSet(merged)) <=> Uncovered(b)
  <2> SUFFICES ASSUME NEW b \in 0..(TextLength - 1) PROVE b \in Bytes(ToSet(merged)) <=> \E i \in DOMAIN merged : Within(b, merged[i])
    BY DEF Uncovered
  <2>0. b \in Int
    BY RedactionAssumption
  <2>1. b \in Bytes(ToSet(merged)) <=> \E i \in DOMAIN merged : b \in merged[i].offset..(EndOf(merged[i]) - 1)
    BY DEF Bytes, ToSet
  <2>2. \A i \in DOMAIN merged : b \in merged[i].offset..(EndOf(merged[i]) - 1) <=> Within(b, merged[i])
    BY <2>0, <1>1, <1>4, MarksOf
  <2> QED BY <2>1, <2>2
<1>7. copied = (0..(TextLength - 1)) \ Bytes(ToSet(merged))
  BY <1>1, <1>6
<1>8. \A x \in matches : \E i \in DOMAIN merged :
         /\ merged[i].offset <= x.offset /\ EndOf(x) <= EndOf(merged[i])
         /\ priorityRank[merged[i].type] >= priorityRank[x.type]
  BY <1>1, <1>3 DEF MergedAre, Covers
<1>9. copied \cap Bytes(matches) = {}
  <2> SUFFICES ASSUME NEW b \in copied, NEW x \in matches, b \in x.offset..(EndOf(x) - 1) PROVE FALSE
    BY DEF Bytes
  <2>1. b \in 0..(TextLength - 1) /\ b \in Int /\ Uncovered(b)
    BY <1>1, RedactionAssumption
  <2>2. x \in Fitting
    BY <1>1 DEF RedactionTypes
  <2>3. Within(b, x) /\ x.offset \in Nat /\ EndOf(x) \in Nat
    BY <2>1, <2>2, <1>4, FittingIs
  <2>4. PICK i \in DOMAIN merged : merged[i].offset <= x.offset /\ EndOf(x) <= EndOf(merged[i])
    BY <1>8
  <2>5. merged[i].offset \in Nat /\ EndOf(merged[i]) \in Nat
    BY <1>1, MarksOf, MergedMarkIs
  <2>6. Within(b, merged[i])
    BY <2>1, <2>3, <2>4, <2>5 DEF Within
  <2> QED BY <2>1, <2>6 DEF Uncovered
<1>10. \A b \in (0..(TextLength - 1)) \ copied :
          b \in Bytes(matches) \/ {b - 1, b + 1} \subseteq Bytes(matches)
  <2> SUFFICES ASSUME NEW b \in 0..(TextLength - 1), b \notin copied
               PROVE  b \in Bytes(matches) \/ (b - 1 \in Bytes(matches) /\ b + 1 \in Bytes(matches))
    OBVIOUS
  <2>0. b \in Int /\ b - 1 \in Int /\ b + 1 \in Int
    BY RedactionAssumption
  <2>1. PICK i \in DOMAIN merged : Within(b, merged[i])
    BY <1>1 DEF Uncovered
  <2>2. Matched(b, Len(marks)) \/ (Matched(b - 1, Len(marks)) /\ Matched(b + 1, Len(marks)))
    BY <2>0, <2>1, <1>1 DEF MergedAre, Fills
  <2> QED BY <2>0, <2>2, <1>5
<1> QED BY <1>1, <1>7, <1>8, <1>9, <1>10 DEF MergedAre

\* Whatever the patterns match in an output of any length, and in whatever order marks of
\* the same bytes are: every byte that one of them matched is replaced, under a type at
\* least as specific, of the others only single bytes between two matches, and what stays
\* is exactly what no mark stands for (redaction.go, Redact).
THEOREM RedactionCorrect == RedactionSpec => []RedactionIsExact
<1>1. RedactionInit => RedactionInv
  BY RedactionBegins
<1>2. RedactionInv /\ [RedactionNext]_redactionVars => RedactionInv'
  BY Collects, Sorts, Merges, MergeEnds, Substitutes, SubstituteEnds, RedactionUnchanged DEF RedactionNext
<1>3. RedactionInv => RedactionIsExact
  BY InvRedacts
<1> QED BY <1>1, <1>2, <1>3, PTL DEF RedactionSpec
================================================================================
