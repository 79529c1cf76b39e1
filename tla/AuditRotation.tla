---------------------------- MODULE AuditRotation ----------------------------
(***************************************************************************)
(* Segments of one tenant's audit chain: the rotation job archives what    *)
(* came since the last segment and adds a row and an entry about it, the   *)
(* garbage collection deletes the entries of segments older than the hot   *)
(* retention, and rosshield-audit-verify checks the archives.              *)
(*                                                                         *)
(* An entry is its seq, the hash of a segment the set of its entries.  An  *)
(* archive also holds the attempt that wrote it, since the time in its     *)
(* manifest makes any two differ.  The clock does not run backwards.       *)
(***************************************************************************)
EXTENDS Naturals, Sequences, FiniteSets

CONSTANTS
    MaxSeq,         \* bound: entries
    MaxAborts       \* bound: rotations that fail

ASSUME SegmentsAssumption == MaxSeq \in Nat /\ MaxAborts \in Nat

VARIABLES
    rotDb,          \* the backend, "sqlite" or "postgres"
    hot,            \* audit_entries
    headSeq,        \* audit_chain_heads
    segments,       \* audit_rotation_segments, by segment number
    archive,        \* what the file backend holds, by segment number
    rotating,       \* the transaction of the rotation job
    aged,           \* segments created before now - HotRetention
    aborts          \* rotations that failed

segmentVars == <<rotDb, hot, headSeq, segments, archive, rotating, aged, aborts>>

NoArchive == [entries |-> {}, prev |-> {}, attempt |-> 0]
NotRotating == [pc |-> "none"]
Numbers == 1..MaxSeq

SegmentsInit ==
    /\ rotDb \in {"sqlite", "postgres"}
    /\ hot = {} /\ headSeq = 0 /\ segments = <<>> /\ aged = 0 /\ aborts = 0
    /\ archive = [n \in Numbers |-> NoArchive]
    /\ rotating = NotRotating

\* SQLite runs one transaction at a time.
CanWrite == rotDb = "sqlite" => rotating = NotRotating

AppendEntry ==
    /\ CanWrite /\ headSeq < MaxSeq
    /\ headSeq' = headSeq + 1 /\ hot' = hot \cup {headSeq + 1}
    /\ UNCHANGED <<rotDb, segments, archive, rotating, aged, aborts>>

--------------------------------------------------------------------------------
(* Rotation. *)

\* Bug: the last entry of a segment is also the first of the next.
NextFrom_Shared == IF segments = <<>> THEN 1 ELSE segments[Len(segments)].last
NextFrom == IF segments = <<>> THEN 1 ELSE segments[Len(segments)].last + 1

\* Bug: the number of the latest segment is used again.
NextNumber_Latest == IF segments = <<>> THEN 1 ELSE Len(segments)
\* LatestSegmentNumber + 1
NextNumber == Len(segments) + 1

\* Bug: the link is left out.
PrevHash_None(n) == {}
\* GetSegment of the number before; the first has no link.
PrevHash(n) == IF n = 1 THEN {} ELSE segments[n - 1].hash

\* rotateOneTenant and BuildSegmentWithPrev: nothing happens on an empty chain.
BuildSegment ==
    /\ rotating = NotRotating /\ headSeq >= NextFrom
    /\ headSeq < MaxSeq
    /\ rotating' = [pc |-> "built", number |-> NextNumber, prev |-> PrevHash(NextNumber),
                    entries |-> {s \in hot : s \in NextFrom..headSeq}]
    /\ UNCHANGED <<rotDb, hot, headSeq, segments, archive, aged, aborts>>

Body == [entries |-> rotating.entries, prev |-> rotating.prev, attempt |-> aborts]

\* Archive: the file is there before the transaction ends, over an older one.
PutArchive ==
    /\ rotating.pc = "built"
    /\ archive' = [archive EXCEPT ![rotating.number] = Body]
    /\ rotating' = [rotating EXCEPT !.pc = "put"]
    /\ UNCHANGED <<rotDb, hot, headSeq, segments, aged, aborts>>

Oldest(entries) == CHOOSE s \in entries : \A t \in entries : s <= t
Newest(entries) == CHOOSE s \in entries : \A t \in entries : s >= t

\* insertSegment and emitRotateComplete.  A number is there once.  On PostgreSQL the
\* driver has no LastInsertId and the insert is taken for failed.
CommitSegment ==
    /\ rotating.pc = "put" /\ rotDb = "sqlite"
    /\ rotating.number = Len(segments) + 1
    /\ segments' = Append(segments,
          [first |-> Oldest(rotating.entries), last |-> Newest(rotating.entries),
           count |-> Cardinality(rotating.entries), hash |-> rotating.entries,
           prev |-> rotating.prev, sha |-> Body])
    /\ headSeq' = headSeq + 1 /\ hot' = hot \cup {headSeq + 1}
    /\ rotating' = NotRotating
    /\ UNCHANGED <<rotDb, archive, aged, aborts>>

\* The backend, cosign or the database fails, or the process dies; a file that was
\* put stays.
AbortRotation ==
    /\ rotating # NotRotating /\ aborts < MaxAborts
    /\ rotating' = NotRotating /\ aborts' = aborts + 1
    /\ UNCHANGED <<rotDb, hot, headSeq, segments, archive, aged>>

--------------------------------------------------------------------------------
(* Garbage collection. *)

PassRetention ==
    /\ aged < Len(segments) /\ aged' = aged + 1
    /\ UNCHANGED <<rotDb, hot, headSeq, segments, archive, rotating, aborts>>

\* Bug: only the segment that passed last is listed.
ArchivedBefore_Newest == {n \in Numbers : n = aged}
\* ListSegmentsArchivedBefore: every segment that passed, collected or not.
ArchivedBefore == 1..aged

\* Bug: the range ends one entry too late.
DeletedBy_Late(n) == segments[n].first..(segments[n].last + 1)
DeletedBy(n) == segments[n].first..segments[n].last

\* HotGC.Run: the marker that lets the trigger pass is gone again when it commits.
RunGC ==
    /\ CanWrite /\ ArchivedBefore # {} /\ headSeq < MaxSeq
    /\ hot' = (hot \ UNION {DeletedBy(n) : n \in ArchivedBefore}) \cup {headSeq + 1}
    /\ headSeq' = headSeq + 1
    /\ UNCHANGED <<rotDb, segments, archive, rotating, aged, aborts>>

SegmentsNext ==
    \/ AppendEntry \/ BuildSegment \/ PutArchive \/ CommitSegment \/ AbortRotation
    \/ PassRetention \/ RunGC
SegmentsSpec == SegmentsInit /\ [][SegmentsNext]_segmentVars

--------------------------------------------------------------------------------
(* Verification. *)

\* Repo.Verify over a range of the database.
ServerVerifiesRange(from, to) == from..to \subseteq hot

\* verifyOneArchive: an archive that can be read, and the link when one is expected.
VerifyOneArchive(n, expected) ==
    archive[n].entries # {} /\ (expected # {} => archive[n].prev = expected)

\* runRotationChain: from the second archive on, the hash of the one before.
VerifyChain(from, to) ==
    \A n \in from..to :
        VerifyOneArchive(n, IF n = from THEN {} ELSE archive[n - 1].entries)

--------------------------------------------------------------------------------
(* Properties. *)

\* Types; the segments tile the chain from its first entry on, without a gap or an
\* entry in two of them.
SegmentsTypeOK ==
    /\ hot \subseteq 1..headSeq /\ headSeq \in 0..MaxSeq /\ aged \in 0..Len(segments)
    /\ \A n \in 1..Len(segments) :
          /\ segments[n].hash = segments[n].first..segments[n].last
          /\ segments[n].count = segments[n].last - segments[n].first + 1
          /\ segments[n].first = IF n = 1 THEN 1 ELSE segments[n - 1].last + 1

\* Whatever failed, was retried and was collected, an entry is in the database or in
\* the archive of a segment.
NothingLost ==
    \A s \in 1..headSeq :
        s \in hot \/ \E n \in 1..Len(segments) : s \in archive[n].entries

\* The file of a segment is the one its row has the digest of: no later attempt
\* writes over it.
ArchiveIsTheOneRecorded == \A n \in 1..Len(segments) : archive[n] = segments[n].sha

\* The tool accepts the archives of any run of segments.
ArchiveChainVerifies ==
    \A from, to \in 1..Len(segments) : from <= to => VerifyChain(from, to)

\* What collections leave is a suffix of the chain: from its oldest entry to the head
\* the server verifies it.
HotSuffixVerifies ==
    headSeq > 0 => hot # {} /\ ServerVerifiesRange(Oldest(hot), headSeq)

\* Archived segments and the hot table together are the whole chain, each part
\* verifies, and the archive on disk is the one on record.
SegmentsAreSound ==
    /\ SegmentsTypeOK
    /\ NothingLost
    /\ ArchiveIsTheOneRecorded
    /\ ArchiveChainVerifies
    /\ HotSuffixVerifies
================================================================================
