----------------------------- MODULE EvidenceStore -----------------------------
(***************************************************************************)
(* Evidence: what a check printed, redacted, kept once per tenant and      *)
(* content.  The row is in the database, the bytes in a directory of blobs *)
(* named by their hash: Repo.Store puts the blob first and inserts the row *)
(* in the transaction that records the result.                             *)
(*                                                                         *)
(* A file is written and synced in .staging/, then renamed; until its      *)
(* shard directory is synced too ("new") a power loss may take the name.   *)
(* The name of a shard directory that Put has just made is never synced.   *)
(* On SQLite transactions run one at a time, on PostgreSQL they interleave.*)
(***************************************************************************)
EXTENDS Naturals, FiniteSets, SequencesExt
CONSTANTS
    EvTenants,      \* tenants
    Blobs,          \* redacted outputs, by their hash
    EvCallers,      \* transactions that store or read evidence
    MaxEvFaults     \* bound: rotten files, kills, power losses and cut downloads

VARIABLES
    evDb,           \* the backend
    evRows,         \* committed rows <<tenant, blob>> of evidence_records
    disk,           \* disk[b]: "none", "new", "good" or "bad", what Stat and ReadFile find
    quarantined,    \* what has been moved to .quarantine/, <<blob, state>>
    evCall,         \* evCall[q]: where the transaction of q is
    refused,        \* pairs whose INSERT met the UNIQUE index on PostgreSQL
    shards,         \* blobs whose shard directory is there, and durable, from the start
    unsynced,       \* blobs whose name no sync has made durable: it failed, was cut
                    \* off by a kill, or the shard directory was new
    evFaults

evVars == <<evDb, evRows, disk, quarantined, evCall, refused, shards, unsynced, evFaults>>

NoEv == [at |-> "idle"]
EvInit ==
    /\ evDb \in {"sqlite", "postgres"}
    /\ evRows = {} /\ quarantined = {} /\ refused = {}
    /\ disk = [b \in Blobs |-> "none"]
    /\ evCall = [q \in EvCallers |-> NoEv]
    /\ shards \in SUBSET Blobs
    /\ unsynced = {} /\ evFaults = 0

CanBeginEv == evDb = "sqlite" => \A q \in EvCallers : evCall[q] = NoEv
EvStep(q, at) == evCall' = [evCall EXCEPT ![q].at = at]
EvEnd(q) == evCall' = [evCall EXCEPT ![q] = NoEv]

\* findBySHA finds no row: one that is there is the answer, whatever became of the file.
FindBySHA(q, t, b) ==
    /\ CanBeginEv /\ evCall[q] = NoEv
    /\ <<t, b>> \notin evRows
    /\ evCall' = [evCall EXCEPT ![q] = [at |-> "absent", row |-> <<t, b>>]]
    /\ UNCHANGED <<evDb, evRows, disk, quarantined, refused, shards, unsynced, evFaults>>

BlobOf(q) == evCall[q].row[2]

\* Put up to the rename: a file that is there is taken as it is.
Stage(q) ==
    /\ evCall[q].at = "absent"
    /\ EvStep(q, IF disk[BlobOf(q)] = "none" THEN "staged" ELSE "stored")
    /\ UNCHANGED <<evDb, evRows, disk, quarantined, refused, shards, unsynced, evFaults>>

\* MkdirAll, the second Stat and the rename.
Place(q) ==
    /\ evCall[q].at = "staged"
    /\ unsynced' = unsynced \cup ({BlobOf(q)} \ shards)
    /\ IF disk[BlobOf(q)] = "none"
       THEN disk' = [disk EXCEPT ![BlobOf(q)] = "new"] /\ EvStep(q, "placed")
       ELSE EvStep(q, "stored") /\ UNCHANGED disk
    /\ UNCHANGED <<evDb, evRows, quarantined, refused, shards, evFaults>>

\* Bug: the directory is not synced.
Synced_Not(state) == state
Synced(state) == IF state = "new" THEN "good" ELSE state
SyncShard(q) ==
    /\ evCall[q].at = "placed"
    /\ disk' = [disk EXCEPT ![BlobOf(q)] = Synced(@)]
    /\ EvStep(q, "stored")
    /\ UNCHANGED <<evDb, evRows, quarantined, refused, shards, unsynced, evFaults>>
\* The error of Sync is dropped; on other systems than Linux there is no sync.
SyncFails(q) ==
    /\ evCall[q].at = "placed" /\ evFaults < MaxEvFaults
    /\ unsynced' = unsynced \cup {BlobOf(q)} /\ evFaults' = evFaults + 1
    /\ EvStep(q, "stored")
    /\ UNCHANGED <<evDb, evRows, disk, quarantined, refused, shards>>

\* INSERT and the commit; PostgreSQL's words for a duplicate are not those that
\* isUniqueViolation looks for, and the transaction is void: the result is lost.
StoreEvidence(q) ==
    /\ evCall[q].at = "stored"
    /\ IF evCall[q].row \in evRows THEN refused' = refused \cup {evCall[q].row} /\ UNCHANGED evRows
                                   ELSE evRows' = evRows \cup {evCall[q].row} /\ UNCHANGED refused
    /\ EvEnd(q)
    /\ UNCHANGED <<evDb, disk, quarantined, shards, unsynced, evFaults>>

\* The blob cannot be put, or a later write of the transaction fails: no row.
\* A name that is already there is synced all the same.
AbortStore(q) ==
    /\ evCall[q].at \in {"absent", "staged", "stored"}
    /\ EvEnd(q)
    /\ UNCHANGED <<evDb, evRows, disk, quarantined, refused, shards, unsynced, evFaults>>

\* Read finds the row and ReadFile content of another hash; other contents and a
\* missing file are answers that change nothing.
ReadMismatch(q, t, b) ==
    /\ CanBeginEv /\ evCall[q] = NoEv
    /\ <<t, b>> \in evRows /\ disk[b] = "bad"
    /\ evCall' = [evCall EXCEPT ![q] = [at |-> "mismatch", row |-> <<t, b>>]]
    /\ UNCHANGED <<evDb, evRows, disk, quarantined, refused, shards, unsynced, evFaults>>

\* Bug: an unreadable name is dropped from the directory, not kept for forensics.
Moved_Deleted(b) == {}
Moved(b) == {<<b, disk[b]>>}
\* quarantine renames whatever has the name by now.
Quarantine(q) ==
    /\ evCall[q].at = "mismatch"
    /\ LET b == BlobOf(q) IN
       IF disk[b] = "none" THEN UNCHANGED <<disk, quarantined>>
       ELSE quarantined' = quarantined \cup Moved(b) /\ disk' = [disk EXCEPT ![b] = "none"]
    /\ EvEnd(q)
    /\ UNCHANGED <<evDb, evRows, refused, shards, unsynced, evFaults>>

\* External: a file rots or is tampered with.
Rot(b) ==
    /\ disk[b] \in {"new", "good"} /\ evFaults < MaxEvFaults
    /\ disk' = [disk EXCEPT ![b] = "bad"]
    /\ evFaults' = evFaults + 1
    /\ UNCHANGED <<evDb, evRows, quarantined, evCall, refused, shards, unsynced>>

\* The process dies: transactions end, staged files stay behind.
KillStorer ==
    /\ evFaults < MaxEvFaults
    /\ evCall' = [q \in EvCallers |-> NoEv]
    /\ unsynced' = unsynced \cup {b \in Blobs : \E q \in EvCallers : evCall[q].at = "placed" /\ BlobOf(q) = b}
    /\ evFaults' = evFaults + 1
    /\ UNCHANGED <<evDb, evRows, disk, quarantined, refused, shards>>

\* Power is lost: names that were not synced may be gone.
PowerLoss(lost) ==
    /\ evFaults < MaxEvFaults
    /\ lost \subseteq {b \in Blobs : disk[b] = "new" \/ (b \in unsynced /\ disk[b] # "none")}
    /\ disk' = [b \in Blobs |-> IF b \in lost THEN "none" ELSE IF disk[b] = "new" THEN "good" ELSE disk[b]]
    /\ evCall' = [q \in EvCallers |-> NoEv]
    /\ evFaults' = evFaults + 1
    /\ UNCHANGED <<evDb, evRows, quarantined, refused, shards, unsynced>>

\* All but a power loss, which ends a backup too.
EvNext ==
    \/ \E q \in EvCallers :
          \/ Stage(q) \/ Place(q) \/ SyncShard(q) \/ SyncFails(q)
          \/ StoreEvidence(q) \/ AbortStore(q) \/ Quarantine(q)
          \/ \E t \in EvTenants, b \in Blobs : FindBySHA(q, t, b) \/ ReadMismatch(q, t, b)
    \/ \E b \in Blobs : Rot(b)
    \/ KillStorer

--------------------------------------------------------------------------------
(* Properties. *)

\* A read found the bytes of a blob rotten and has put them away.
Rotten(b) == <<b, "bad">> \in quarantined

\* On SQLite a row in evidence_records has its bytes: on disk, or in quarantine after a
\* read found them rotten, through kills and power losses, unless no sync ever made the
\* blob's name durable.
RowsHaveBlobs ==
    evDb = "sqlite" =>
        \A row \in evRows : disk[row[2]] # "none" \/ Rotten(row[2]) \/ row[2] \in unsynced

\* On SQLite, where a read and a store never overlap, only what is corrupted is put
\* away; fs.go:369 says so of quarantine.
OnlyRottenIsPutAway ==
    evDb = "sqlite" => \A entry \in quarantined : entry[2] = "bad"

\* On either backend as the comment has it: a second read that saw the rotten file
\* takes away the good one that another tenant has put in its place.
GoodIsNeverPutAway == \A entry \in quarantined : entry[2] = "bad"

\* repo.go:62 and :113: the loser of a race of two equal outputs gets the existing record.
ConcurrentStoresAgree == refused = {}

EvidenceIsSound ==
    /\ RowsHaveBlobs
    /\ OnlyRottenIsPutAway

--------------------------------------------------------------------------------
(***************************************************************************)
(* Backups taken while the server runs, and their restore.                 *)
(*                                                                         *)
(* executeBackup takes a snapshot of the database (VACUUM INTO), then      *)
(* copies keys/ and evidence/ file by file as filepath.Walk finds them.    *)
(* The first listed file that is gone when it is looked at ends the walk   *)
(* with os.ErrNotExist, which writeArchiveEntries takes for a missing      *)
(* directory: the backup succeeds without it and without all files after   *)
(* it.  Any other error fails the backup, whose file stays where           *)
(* listBackups finds it.  restore unpacks an archive into a directory that *)
(* must be empty unless --force.                                           *)
(***************************************************************************)

CONSTANTS MaxBackups, MaxRestores       \* bounds

VARIABLES
    underway,       \* the backup under way
    backups,        \* files of the backup directory
    target,         \* the data directory that is restored into
    restoring,      \* the restore under way
    restores        \* restores so far

backupOnly == <<underway, backups, target, restoring, restores>>
backupVars == <<evVars, underway, backups, target, restoring, restores>>

NoBackup == [at |-> "idle"]
EmptyDir == [rows |-> {}, blobs |-> {}]
BackupInit ==
    /\ EvInit
    /\ underway = NoBackup /\ backups = {} /\ target = EmptyDir
    /\ restoring = NoBackup /\ restores = 0

\* executeBackup wants data.db, which PostgreSQL does not have.
SnapshotDatabase ==
    /\ underway = NoBackup /\ evDb = "sqlite" /\ Cardinality(backups) < MaxBackups
    /\ underway' = [at |-> "walk", rows |-> evRows, blobs |-> {}, left |-> Blobs, listed |-> {},
                    gone |-> {}]
    /\ UNCHANGED <<evVars, backups, target, restoring, restores>>

\* Walk lists a shard directory, later it stats and opens what was listed.  What it is
\* given of a file that vanishes between stat and open is too short for its header:
\* tar's Close fails the backup.
ListShard(b) ==
    /\ underway.at = "walk" /\ b \in underway.left
    /\ underway' = [underway EXCEPT !.left = @ \ {b}, !.listed = @ \cup (IF disk[b] = "none" THEN {} ELSE {b})]
    /\ UNCHANGED <<evVars, backups, target, restoring, restores>>
WriteFileToTar(b) ==
    /\ underway.at = "walk" /\ b \in underway.listed /\ disk[b] # "none"
    /\ underway' = [underway EXCEPT !.listed = @ \ {b}, !.blobs = @ \cup {b}]
    /\ UNCHANGED <<evVars, backups, target, restoring, restores>>
\* A listed file is gone: the walk is over, for the caller it is done.
WalkStops(b) ==
    /\ underway.at = "walk" /\ b \in underway.listed /\ disk[b] = "none"
    /\ underway' = [underway EXCEPT !.left = {}, !.listed = {}, !.gone = {b}]
    /\ UNCHANGED <<evVars, backups, target, restoring, restores>>

\* What the file in the backup directory unpacks to.
\* Bug: the database is copied after the evidence.
ArchiveOf_DbLast(whole, wellFormed) ==
    [rows |-> evRows, blobs |-> underway.blobs, gone |-> underway.gone, whole |-> whole, wellFormed |-> wellFormed]
ArchiveOf(whole, wellFormed) ==
    [rows |-> underway.rows, blobs |-> underway.blobs, gone |-> underway.gone, whole |-> whole, wellFormed |-> wellFormed]

BackupDone ==
    /\ underway.at = "walk" /\ underway.left = {} /\ underway.listed = {}
    /\ backups' = backups \cup {ArchiveOf(TRUE, TRUE)}
    /\ underway' = NoBackup
    /\ UNCHANGED <<evVars, target, restoring, restores>>
\* A file cannot be read, or vanishes between stat and open: tar and gzip are closed and
\* the short archive stays.
BackupFails ==
    /\ underway.at = "walk"
    /\ backups' = backups \cup {ArchiveOf(FALSE, TRUE)}
    /\ underway' = NoBackup
    /\ UNCHANGED <<evVars, target, restoring, restores>>
\* The process dies, or the disk is full when the archive is closed: it is cut off.
BackupKilled ==
    /\ underway.at = "walk" /\ evFaults < MaxEvFaults
    /\ backups' = backups \cup {ArchiveOf(FALSE, FALSE)}
    /\ underway' = NoBackup /\ evFaults' = evFaults + 1
    /\ UNCHANGED <<evDb, evRows, disk, quarantined, evCall, refused, shards, unsynced, target, restoring, restores>>
\* Power is lost, for a backup under way too.
BlackOut(lost) ==
    /\ PowerLoss(lost)
    /\ backups' = IF underway.at = "walk" THEN backups \cup {ArchiveOf(FALSE, FALSE)} ELSE backups
    /\ underway' = NoBackup
    /\ UNCHANGED <<target, restoring, restores>>

\* The server lists a backup while it is written: who downloads it then, or loses the
\* transfer, keeps a cut file.
Download ==
    /\ underway.at = "walk" /\ Cardinality(backups) < MaxBackups /\ evFaults < MaxEvFaults
    /\ backups' = backups \cup {ArchiveOf(FALSE, FALSE)} /\ evFaults' = evFaults + 1
    /\ UNCHANGED <<evDb, evRows, disk, quarantined, evCall, refused, shards, unsynced>>
    /\ UNCHANGED <<underway, target, restoring, restores>>

IsDirEmpty == target = EmptyDir
RunRestore(a, force) ==
    /\ restoring = NoBackup /\ restores < MaxRestores /\ underway = NoBackup
    /\ force \/ IsDirEmpty
    /\ restoring' = [at |-> "extract", archive |-> a]
    /\ restores' = restores + 1
    /\ UNCHANGED <<evVars, underway, backups, target>>

\* The entries in the order of the archive: data.db first.  What is in the directory and
\* not in the archive stays.
\* Bug: a database that is there is not overwritten.
ExtractDatabase_Keep ==
    /\ restoring.at = "extract"
    /\ target' = [target EXCEPT !.rows = IF @ = {} THEN restoring.archive.rows ELSE @]
    /\ restoring' = [restoring EXCEPT !.at = "blobs"]
    /\ UNCHANGED <<evVars, underway, backups, restores>>
ExtractDatabase ==
    /\ restoring.at = "extract"
    /\ target' = [target EXCEPT !.rows = restoring.archive.rows]
    /\ restoring' = [restoring EXCEPT !.at = "blobs"]
    /\ UNCHANGED <<evVars, underway, backups, restores>>
\* The rest of the entries; restore exits with 0.
ExtractEntries ==
    /\ restoring.at = "blobs" /\ restoring.archive.wellFormed
    /\ target' = [target EXCEPT !.blobs = @ \cup restoring.archive.blobs]
    /\ restoring' = NoBackup
    /\ UNCHANGED <<evVars, underway, backups, restores>>
\* A cut archive or a write error: exit 1, and what has been unpacked stays.
RestoreFails(unpacked) ==
    /\ restoring.at = "blobs" /\ unpacked \subseteq restoring.archive.blobs
    /\ target' = [target EXCEPT !.blobs = @ \cup unpacked]
    /\ restoring' = NoBackup
    /\ UNCHANGED <<evVars, underway, backups, restores>>

BackupNext ==
    \/ EvNext /\ UNCHANGED backupOnly
    \/ SnapshotDatabase \/ Download \/ BackupDone \/ BackupFails \/ BackupKilled
    \/ \E lost \in SUBSET Blobs : BlackOut(lost)
    \/ \E b \in Blobs : ListShard(b) \/ WriteFileToTar(b) \/ WalkStops(b)
    \/ \E a \in backups, force \in BOOLEAN : RunRestore(a, force)
    \/ ExtractDatabase \/ ExtractEntries
    \/ \E unpacked \in SUBSET Blobs : RestoreFails(unpacked)
BackupSpec == BackupInit /\ [][BackupNext]_backupVars

--------------------------------------------------------------------------------
(* Properties. *)

\* The bytes of the rows are among the blobs, but for what was found rotten and for
\* names that no sync made durable.
Closed(rows, blobs) == \A row \in rows : row[2] \in blobs \/ Rotten(row[2]) \/ row[2] \in unsynced

\* A backup that succeeded while checks were being recorded is closed: each row of its
\* database has its bytes in the archive.  Not if the walk met a file that was gone; and
\* that happens for no other reason than that a read put the file away as rotten.
BackupIsClosed ==
    \A a \in backups : a.whole =>
        /\ a.gone = {} => Closed(a.rows, a.blobs)
        /\ \A b \in a.gone : Rotten(b)

\* backup.go:9: the files of evidence/ are put into the tar as they are.  One file that is
\* put away while the walk is on takes all files after it out of a backup that succeeds.
BackupHasItsEvidence == \A a \in backups : a.whole => Closed(a.rows, a.blobs)

\* A restore of such a backup that exits with 0 is closed too, whatever restores were cut
\* off in the same directory before.
RestoredIsClosed ==
    [][restoring # NoBackup /\ restoring' = NoBackup /\ restoring.archive.whole /\ restoring.archive.gone = {}
          /\ restoring.archive.blobs \subseteq target'.blobs
          => Closed(target'.rows, target'.blobs)]_backupVars

\* A restore that exits with 0 has restored what the archive's rows name.  Not when the
\* archive is what a failed backup left behind, which the list shows like any other.
RestoreIsComplete ==
    [][restoring # NoBackup /\ restoring' = NoBackup /\ restoring.archive.wellFormed
          => Closed(target'.rows, target'.blobs)]_backupVars

\* Evidence and its backups together.
EvidenceSurvives ==
    /\ [](EvidenceIsSound /\ BackupIsClosed)
    /\ RestoredIsClosed

--------------------------------------------------------------------------------
(***************************************************************************)
(* Redact, loop by loop: the marks of all patterns in one output are       *)
(* collected, sorted, merged where they overlap or almost touch, and each  *)
(* is replaced by [REDACTED:type:length] in what is copied.                *)
(***************************************************************************)

CONSTANTS
    TextLength,       \* bytes of the output
    MarkLength,       \* bound: bytes one pattern matches
    maxMatchesPerRule,  \* what a rule collects at most
    MaxMarks          \* bound: marks

ASSUME RedactionAssumption ==
    TextLength \in Nat /\ MarkLength \in Nat /\ MaxMarks \in Nat /\ maxMatchesPerRule \in Nat

VARIABLES
    redacting,    \* the loop: "collect", "merge", "substitute", "done"
    matches,      \* the matches that were collected: offset, length and type
    marks,        \* the same, sorted
    nextMark,     \* where the loop is
    merged,       \* result of mergeMarks
    cursor,
    copied        \* the bytes of the input that substitute has written

redactionVars == <<redacting, matches, marks, nextMark, merged, cursor, copied>>

\* How specific a type is.
priorityRank == [password |-> 60, bearer |-> 80, pem |-> 100]

Marks == [offset : 0..TextLength, length : 1..MarkLength, type : DOMAIN priorityRank]
EndOf(mark) == mark.offset + mark.length

RedactionInit ==
    /\ redacting = "collect"
    /\ matches = {} /\ marks = <<>> /\ nextMark = 1 /\ merged = <<>>
    /\ cursor = 0 /\ copied = {}

\* A pattern matches some bytes.  What a rule matches beyond maxMatchesPerRule is not
\* collected, and so not replaced.
CollectMarks(x) ==
    /\ redacting = "collect" /\ Cardinality(matches) < MaxMarks
    /\ EndOf(x) <= TextLength
    /\ Cardinality({y \in matches : y.type = x.type}) < maxMatchesPerRule
    /\ matches' = matches \cup {x}
    /\ UNCHANGED <<redacting, marks, nextMark, merged, cursor, copied>>

\* Smaller offset first, then longer; the type decides nothing.
Before(x, y) == x.offset < y.offset \/ (x.offset = y.offset /\ x.length > y.length)
Sorted(s) == \A i, j \in DOMAIN s : i < j => ~Before(s[j], s[i])
\* Marks of the same bytes stay in the order of their patterns: here any.
SortMarks ==
    /\ redacting = "collect" /\ redacting' = "merge"
    /\ \E s \in [1..Cardinality(matches) -> matches] : ToSet(s) = matches /\ Sorted(s) /\ marks' = s
    /\ UNCHANGED <<matches, nextMark, merged, cursor, copied>>

\* Bug: a mark inside the one before it cuts it short.
Absorb_Cut(prev, cur) ==
    [offset |-> prev.offset, length |-> EndOf(cur) - prev.offset,
     type |-> IF priorityRank[cur.type] > priorityRank[prev.type] THEN cur.type ELSE prev.type]
Absorb(prev, cur) ==
    [offset |-> prev.offset,
     length |-> (IF EndOf(cur) > EndOf(prev) THEN EndOf(cur) ELSE EndOf(prev)) - prev.offset,
     type |-> IF priorityRank[cur.type] > priorityRank[prev.type] THEN cur.type ELSE prev.type]
Touches(result, cur) == result # <<>> /\ cur.offset <= EndOf(result[Len(result)]) + 1
MergeMarks ==
    /\ redacting = "merge" /\ nextMark <= Len(marks)
    /\ merged' = IF Touches(merged, marks[nextMark])
                 THEN [merged EXCEPT ![Len(merged)] = Absorb(@, marks[nextMark])]
                 ELSE Append(merged, marks[nextMark])
    /\ nextMark' = nextMark + 1
    /\ UNCHANGED <<redacting, matches, marks, cursor, copied>>
MergeDone ==
    /\ redacting = "merge" /\ nextMark > Len(marks)
    /\ redacting' = "substitute" /\ nextMark' = 1
    /\ UNCHANGED <<matches, marks, merged, cursor, copied>>

\* What lies before the mark is copied, then the text goes on behind it.
Substitute ==
    /\ redacting = "substitute" /\ nextMark <= Len(merged)
    /\ copied' = copied \cup cursor..(merged[nextMark].offset - 1)
    /\ cursor' = EndOf(merged[nextMark])
    /\ nextMark' = nextMark + 1
    /\ UNCHANGED <<redacting, matches, marks, merged>>
SubstituteDone ==
    /\ redacting = "substitute" /\ nextMark > Len(merged)
    /\ copied' = copied \cup cursor..(TextLength - 1)
    /\ redacting' = "done"
    /\ UNCHANGED <<matches, marks, nextMark, merged, cursor>>

RedactionNext ==
    \/ \E x \in Marks : CollectMarks(x)
    \/ SortMarks \/ MergeMarks \/ MergeDone \/ Substitute \/ SubstituteDone
RedactionSpec == RedactionInit /\ [][RedactionNext]_redactionVars

Bytes(ms) == UNION {x.offset..(EndOf(x) - 1) : x \in ms}

--------------------------------------------------------------------------------
\* Every byte of a match that was collected is replaced, under a type at least as specific, and of
\* the others only single bytes between two matches; marks ascend and do not touch, and
\* what is not copied is what they stand for, by their offsets and lengths.
RedactionIsExact ==
    redacting = "done" =>
    LET text == 0..(TextLength - 1) IN
    /\ copied = text \ Bytes(ToSet(merged))
    /\ copied \cap Bytes(matches) = {}
    /\ \A b \in text \ copied : b \in Bytes(matches) \/ {b - 1, b + 1} \subseteq Bytes(matches)
    /\ \A x \in matches : \E i \in DOMAIN merged :
          /\ merged[i].offset <= x.offset /\ EndOf(x) <= EndOf(merged[i])
          /\ priorityRank[merged[i].type] >= priorityRank[x.type]
    /\ \A i, j \in DOMAIN merged : i < j => EndOf(merged[i]) + 1 < merged[j].offset
================================================================================
