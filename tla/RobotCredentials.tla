--------------------------- MODULE RobotCredentials ----------------------------
(***************************************************************************)
(* Robots, their credentials and the host keys they are known by: the rows *)
(* of internal/domain/robot/sqliterepo.  A request reads in one step and   *)
(* commits in another; robotDb says whether others come in between         *)
(* (PostgreSQL at READ COMMITTED) or not (SQLite's one connection).  A     *)
(* credential's ciphertext is its id: wrapping loses nothing while the     *)
(* key file stays.                                                         *)
(***************************************************************************)
EXTENDS Naturals, FiniteSets, Sequences, SequencesExt

CONSTANTS
    RobotIds,
    HostKeys,         \* fingerprints a host may present
    RobotCalls,       \* requests that may be under way
    MaxCredentials    \* bound: credentials ever inserted

ASSUME RobotAssumption == MaxCredentials \in Nat

VARIABLES
    robotDb,
    robot,        \* robot[r]: "none", "live" or "deleted"
    credOf,       \* credOf[r]: robots.credential_id
    credential,   \* credential[c]: "none", "active" or "revoked"
    known,        \* known[r]: rows of robot_host_keys, <<fingerprint, trust state>>
    verified,     \* verified[r]: pairs of fingerprints, the first by its last_verified_at the later
    robotCall,    \* robotCall[q]: a request
    connected     \* the last connection: its robot, key and whether it was accepted

robotVars == <<robotDb, robot, credOf, credential, known, verified, robotCall, connected>>

Credentials == 1..MaxCredentials
NoCredential == 0
NoCall == [at |-> "idle"]
NoConnection == [at |-> "none"]

\* Rows.
Current(r) == IF robot[r] = "live" THEN credOf[r] ELSE NoCredential
Fresh == {c \in Credentials : credential[c] = "none" /\ \A d \in 1..(c - 1) : credential[d] # "none"}
TrustedRows(r) == {k \in HostKeys : <<k, "trusted">> \in known[r]}
\* GetTrustedKey: the trusted row that was verified last.
TrustedKey(r) ==
    {k \in TrustedRows(r) : \A m \in TrustedRows(r) \ {k} : <<k, m>> \in verified[r]}
Fingerprints(r) == {row[1] : row \in known[r]}
Touch(r, k) ==
    verified' = [verified EXCEPT ![r] = {pair \in @ : k \notin {pair[1], pair[2]}}
                                        \cup ({k} \X (Fingerprints(r) \ {k}))]
\* Bug: a key that comes back gets a second row.
MarkKey_Again(r, k, trust) == [known EXCEPT ![r] = @ \cup {<<k, trust>>}]
MarkKey(r, k, trust) == [known EXCEPT ![r] = {row \in @ : row[1] # k} \cup {<<k, trust>>}]

RobotInit ==
    /\ robotDb \in {"sqlite", "postgres"}
    /\ robot = [r \in RobotIds |-> "none"]
    /\ credOf = [r \in RobotIds |-> NoCredential]
    /\ credential = [c \in Credentials |-> "none"]
    /\ known = [r \in RobotIds |-> {}] /\ verified = [r \in RobotIds |-> {}]
    /\ robotCall = [q \in RobotCalls |-> NoCall]
    /\ connected = NoConnection

--------------------------------------------------------------------------------
\* The reads of a request; a connection carries the key its host presents.
Open(q) == robotCall[q] = NoCall /\ (robotDb = "sqlite" => \A p \in RobotCalls : robotCall[p] = NoCall)
Reads(q, next) ==
    /\ Open(q)
    /\ robotCall' = [robotCall EXCEPT ![q] = next]
    /\ UNCHANGED <<robotDb, robot, credOf, credential, known, verified, connected>>
Close(q) == robotCall' = [robotCall EXCEPT ![q] = NoCall]

BeginCreate(q, r) ==
    /\ robot[r] = "none"
    /\ Reads(q, [at |-> "create", robot |-> r, cred |-> NoCredential])
\* GetRobot of a request finds live robots only.
BeginChange(q, r, op) ==
    /\ robot[r] = "live"
    /\ Reads(q, [at |-> op, robot |-> r, cred |-> credOf[r]])
BeginConnect(q, r, k) ==
    /\ robot[r] = "live"
    /\ Reads(q, [at |-> "connect", robot |-> r, key |-> k, trusted |-> TrustedKey(r)])

\* CreateRobot: the second of two with one name or address is refused by the index,
\* its credential with it.
CreateRobot(q) ==
    LET r == robotCall[q].robot IN
    /\ robotCall[q].at = "create"
    /\ IF robot[r] = "none"
       THEN \E c \in Fresh :
              /\ credential' = [credential EXCEPT ![c] = "active"]
              /\ credOf' = [credOf EXCEPT ![r] = c]
              /\ robot' = [robot EXCEPT ![r] = "live"]
       ELSE UNCHANGED <<robot, credOf, credential>>
    /\ Close(q)
    /\ UNCHANGED <<robotDb, known, verified, connected>>

\* Bug: the credential outlives its robot.
DeleteRobot_Keep(q) ==
    LET r == robotCall[q].robot IN
    /\ robotCall[q].at = "delete"
    /\ robot' = [robot EXCEPT ![r] = "deleted"]
    /\ Close(q)
    /\ UNCHANGED <<robotDb, credOf, credential, known, verified, connected>>
\* DeleteRobot: a robot another request has deleted meanwhile is not found.
DeleteRobot(q) ==
    LET r == robotCall[q].robot IN
    /\ robotCall[q].at = "delete"
    /\ IF robot[r] = "live"
       THEN /\ robot' = [robot EXCEPT ![r] = "deleted"]
            /\ credential' = [credential EXCEPT ![robotCall[q].cred] = "revoked"]
       ELSE UNCHANGED <<robot, credential>>
    /\ Close(q)
    /\ UNCHANGED <<robotDb, credOf, known, verified, connected>>

\* Bug: the credential revoked is the one the robot was just given.
RotateCredential_New(q) ==
    /\ robotCall[q].at = "rotate"
    /\ \E c \in Fresh :
         /\ credential' = [credential EXCEPT ![c] = "revoked"]
         /\ credOf' = [credOf EXCEPT ![robotCall[q].robot] = c]
    /\ Close(q)
    /\ UNCHANGED <<robotDb, robot, known, verified, connected>>
\* RotateCredential: the robot row is written whether or not it is still live, and the
\* credential revoked is the one that was read.
RotateCredential(q) ==
    /\ robotCall[q].at = "rotate"
    /\ \E c \in Fresh :
         /\ credential' = [credential EXCEPT ![c] = "active", ![robotCall[q].cred] = "revoked"]
         /\ credOf' = [credOf EXCEPT ![robotCall[q].robot] = c]
    /\ Close(q)
    /\ UNCHANGED <<robotDb, robot, known, verified, connected>>

--------------------------------------------------------------------------------
(* Host keys: HostKeyCallback of a dial. *)

\* RecordFirstTouch.  A row another transaction has inserted meanwhile fails it: the
\* failed INSERT aborts a PostgreSQL transaction, and the SELECT after it with it.
RecordFirstTouch(r, k, seen) ==
    IF k \in seen \/ ~ \E trust \in {"trusted", "revoked"} : <<k, trust>> \in known[r]
    THEN /\ known' = MarkKey(r, k, "trusted")
         /\ Touch(r, k)
         /\ connected' = [at |-> "accepted", robot |-> r, key |-> k]
    ELSE /\ connected' = [at |-> "failed", robot |-> r, key |-> k]
         /\ UNCHANGED <<known, verified>>

SelectByFingerprint(q) ==
    LET call == robotCall[q] IN
    /\ call.at = "connect" /\ call.trusted = {}
    /\ robotCall' = [robotCall EXCEPT ![q] =
         [at |-> "record", robot |-> call.robot, key |-> call.key,
          seen |-> Fingerprints(call.robot)]]
    /\ UNCHANGED <<robotDb, robot, credOf, credential, known, verified, connected>>

FirstTouch(q) ==
    LET call == robotCall[q] IN
    /\ call.at = "record"
    /\ RecordFirstTouch(call.robot, call.key, call.seen)
    /\ Close(q)
    /\ UNCHANGED <<robotDb, robot, credOf, credential>>

\* Bug: a key that changed is taken on.
VerifyHostKey_Adopt(q) ==
    LET call == robotCall[q] IN
    /\ call.at = "connect" /\ call.trusted # {}
    /\ known' = MarkKey(call.robot, call.key, "trusted")
    /\ Touch(call.robot, call.key)
    /\ connected' = [at |-> "accepted", robot |-> call.robot, key |-> call.key]
    /\ Close(q)
    /\ UNCHANGED <<robotDb, robot, credOf, credential>>
\* Bug: the robot is known, and any key will do.
VerifyHostKey_Any(q) ==
    LET call == robotCall[q] IN
    /\ call.at = "connect" /\ call.trusted # {}
    /\ connected' = [at |-> "accepted", robot |-> call.robot, key |-> call.key]
    /\ Close(q)
    /\ UNCHANGED <<robotDb, robot, credOf, credential, known, verified>>
VerifyHostKey(q) ==
    LET call == robotCall[q] IN
    /\ call.at = "connect" /\ call.trusted # {}
    /\ connected' = [at |-> IF call.key \in call.trusted THEN "accepted" ELSE "failed",
                     robot |-> call.robot, key |-> call.key]
    /\ Close(q)
    /\ UNCHANGED <<robotDb, robot, credOf, credential, known, verified>>

ResetTrust(q, r) ==
    /\ Open(q)
    /\ TrustedRows(r) # {}
    /\ known' = [known EXCEPT ![r] = {<<row[1], "revoked">> : row \in @}]
    /\ UNCHANGED <<robotDb, robot, credOf, credential, verified, robotCall, connected>>

--------------------------------------------------------------------------------
(* GetCredentialMaterial: two SELECTs of one transaction. *)

ReadMaterial(q) ==
    LET call == robotCall[q] IN
    /\ call.at = "material"
    /\ robotCall' = [robotCall EXCEPT ![q] =
         [at |-> IF credential[call.cred] = "active" THEN "unwrapped" ELSE "missing",
          robot |-> call.robot, cred |-> call.cred]]
    /\ UNCHANGED <<robotDb, robot, credOf, credential, known, verified, connected>>

UseMaterial(q) ==
    /\ robotCall[q].at \in {"unwrapped", "missing"}
    /\ Close(q)
    /\ UNCHANGED <<robotDb, robot, credOf, credential, known, verified, connected>>

RobotNext ==
    \E q \in RobotCalls :
      \/ \E r \in RobotIds : BeginCreate(q, r) \/ ResetTrust(q, r)
      \/ \E r \in RobotIds, op \in {"delete", "rotate", "material"} : BeginChange(q, r, op)
      \/ \E r \in RobotIds, k \in HostKeys : BeginConnect(q, r, k)
      \/ CreateRobot(q) \/ DeleteRobot(q) \/ RotateCredential(q)
      \/ SelectByFingerprint(q) \/ FirstTouch(q) \/ VerifyHostKey(q)
      \/ ReadMaterial(q) \/ UseMaterial(q)

RobotSpec == RobotInit /\ [][RobotNext]_robotVars

--------------------------------------------------------------------------------
(* Properties. *)

\* Types, one row a fingerprint, as the unique index of migration 0027 has it, and of two
\* one that was verified later.
RobotTypeOK ==
    /\ robot \in [RobotIds -> {"none", "live", "deleted"}]
    /\ credential \in [Credentials -> {"none", "active", "revoked"}]
    /\ \A r \in RobotIds :
         /\ credOf[r] \in Credentials \cup {NoCredential}
         /\ \A row \in known[r] : row[1] \in HostKeys /\ row[2] \in {"trusted", "revoked"}
         /\ \A x, y \in known[r] : x[1] = y[1] => x = y
         /\ \A k, m \in Fingerprints(r) : k # m => (<<k, m>> \in verified[r] <=> <<m, k>> \notin verified[r])

\* Whatever rotations and deletions overlap, a robot that can be scanned can be logged in
\* to: its credential is not a revoked one.
LiveRobotHasCredential == \A r \in RobotIds : robot[r] = "live" => credential[credOf[r]] = "active"

\* With SQLite a rotation or a deletion leaves no credential in force that no live robot
\* uses.  (Two rotations that overlap on PostgreSQL revoke the same one.)
NoForgottenCredential ==
    robotDb = "sqlite" =>
        \A c \in Credentials : credential[c] = "active" => \E r \in RobotIds : Current(r) = c

\* With SQLite, one trusted key a robot, as GetTrustedKey counts on.
OneTrustedKey == robotDb = "sqlite" => \A r \in RobotIds : Cardinality(TrustedRows(r)) <= 1

\* A connection is accepted with a key that is on record for the robot, never with
\* another one its host has come to present.
AcceptedKeyIsOnRecord ==
    connected.at = "accepted" => \E row \in known[connected.robot] : row[1] = connected.key

\* A live robot has a credential, none is forgotten, and one host key is trusted,
\* the one on record.
RobotsAreSound ==
    /\ RobotTypeOK
    /\ LiveRobotHasCredential
    /\ NoForgottenCredential
    /\ OneTrustedKey
    /\ AcceptedKeyIsOnRecord

--------------------------------------------------------------------------------
(***************************************************************************)
(* The import of robots from a CSV file: ParseRobotsCSV splits the file    *)
(* into rows, for each of which its caller then calls CreateRobot, and     *)
(* errors.  The reader of the records is a library's.                      *)
(*                                                                         *)
(* A record is what is right or wrong with its cells.  "blank" is an empty *)
(* line, "spaces" a record of empty cells, "broken" one that the library   *)
(* refuses, "open" a quote that is never closed.  A private key in quotes  *)
(* may span two lines.                                                     *)
(***************************************************************************)

CONSTANTS
    MaxRecords        \* bound: records of a file after its header

ASSUME ImportAssumption == MaxRecords \in Nat

VARIABLES
    csvFile,       \* the records
    header,        \* what is right or wrong with the header
    recordNo,      \* records of the file that are read
    line,          \* the line that the parser believes to be at
    rows,          \* the rows, each with its line
    rowErrors,     \* lines of errors
    reader,        \* the underlying reader
    parsed         \* "no", "yes" or "refused"

importVars == <<csvFile, header, recordNo, line, rows, rowErrors, reader, parsed>>

Blank == [kind |-> "blank", span |-> 1]
CsvRows ==
    [kind : {"row"}, span : {1}, name : {"none", "given", "long"}, cells : {"right", "wrong"},
     auth : {"password", "privateKey", "none", "other"}, password : BOOLEAN, pem : {FALSE}]
    \cup
    [kind : {"row"}, span : {1, 2}, name : {"given"}, cells : {"right", "wrong"},
     auth : {"password", "privateKey"}, password : BOOLEAN, pem : {TRUE}]
NoRecord == 0
Records == CsvRows \cup {Blank} \cup [kind : {"spaces", "broken", "open"}, span : {1}]

ImportInit ==
    /\ csvFile \in UNION {[1..n -> Records] : n \in 0..MaxRecords}
    /\ header \in {"right", "missing", "unknown", "twice"}
    /\ header # "right" => csvFile = <<>>
    /\ recordNo = 0 /\ line = 1
    /\ rows = <<>> /\ rowErrors = {}
    /\ reader = "fine" /\ parsed = "no"

--------------------------------------------------------------------------------
\* buildHeaderIndex: line 2 is the first after the header.
ReadHeader ==
    /\ line = 1 /\ parsed = "no"
    /\ IF header = "right" THEN line' = 2 /\ UNCHANGED parsed
       ELSE parsed' = "refused" /\ UNCHANGED line
    /\ UNCHANGED <<csvFile, header, recordNo, rows, rowErrors, reader>>

\* Bug: whichever credential is there will do.
CredentialFits_Any(r) == r.password # r.pem
\* Exactly one credential, and that of authType.
CredentialFits(r) ==
    /\ r.password # r.pem
    /\ r.auth = "password" => r.password
    /\ r.auth = "privateKey" => r.pem

\* Bug: an authType that is not there is left to CreateRobot and its default.
RowIsRight_NoAuth(r) ==
    r.name # "none" /\ r.cells = "right" /\ r.auth # "other" /\ CredentialFits(r)
\* parseRow: the request, or errors only.  The material is of the type that authType names.
RowIsRight(r) ==
    r.name # "none" /\ r.cells = "right" /\ r.auth \in {"password", "privateKey"} /\ CredentialFits(r)
Request(r) == [name |-> r.name, auth |-> r.auth, material |-> r.auth,
               secret |-> IF r.auth = "password" THEN r.password ELSE r.pem]

\* Bug: a record that the library refuses is not counted.
NextLine_Uncounted(r) == IF r.kind = "broken" THEN line ELSE line + 1
\* The library passes over empty lines, so nobody counts them.
NextLine(r) == IF r.kind = "blank" THEN line ELSE line + 1

ReadRecord ==
    /\ line > 1 /\ parsed = "no" /\ reader = "fine" /\ recordNo < Len(csvFile)
    /\ LET r == csvFile[recordNo + 1] IN
       /\ recordNo' = IF r.kind = "open" THEN Len(csvFile) ELSE recordNo + 1
       /\ line' = NextLine(r)
       /\ IF r.kind = "row" /\ RowIsRight(r)
          THEN rows' = Append(rows, [line |-> line, record |-> recordNo + 1, req |-> Request(r)])
               /\ UNCHANGED rowErrors
          ELSE /\ rowErrors' = IF r.kind \in {"blank", "spaces"} THEN rowErrors
                               ELSE rowErrors \cup {[line |-> line, record |-> recordNo + 1]}
               /\ UNCHANGED rows
    /\ UNCHANGED <<csvFile, header, reader, parsed>>

\* ErrCSVEmpty when there is neither a row nor an error.
EndOfFile ==
    /\ line > 1 /\ parsed = "no" /\ reader = "fine" /\ recordNo = Len(csvFile)
    /\ parsed' = IF rows = <<>> /\ rowErrors = {} THEN "refused" ELSE "yes"
    /\ UNCHANGED <<csvFile, header, recordNo, line, rows, rowErrors, reader>>

ReaderFails ==
    /\ parsed = "no" /\ reader = "fine"
    /\ reader' = "failing"
    /\ UNCHANGED <<csvFile, header, recordNo, line, rows, rowErrors, parsed>>

\* Any error but the end of the file is an error of one record: the parser goes on to
\* the next, which fails as well (counted up to MaxRecords + 3).
ReadFails ==
    /\ line > 1 /\ parsed = "no" /\ reader = "failing" /\ line < MaxRecords + 3
    /\ line' = line + 1
    /\ rowErrors' = rowErrors \cup {[line |-> line, record |-> NoRecord]}
    /\ UNCHANGED <<csvFile, header, recordNo, rows, reader, parsed>>

ImportNext == ReadHeader \/ ReadRecord \/ EndOfFile \/ ReaderFails \/ ReadFails

ImportSpec == ImportInit /\ [][ImportNext]_importVars

--------------------------------------------------------------------------------
(* CreateRobot, as far as it looks at the request. *)

\* validateRobotRequest; the port and the criticality have defaults.  Nobody after the
\* parser asks whether the material holds the secret of its type.
ValidateRobotRequest(req) ==
    /\ req.name = "given"
    /\ req.auth \in {"password", "privateKey"} /\ req.material = req.auth

--------------------------------------------------------------------------------
(* Properties. *)

ImportTypeOK ==
    /\ recordNo \in 0..Len(csvFile) /\ line \in 1..(MaxRecords + 3)
    /\ parsed \in {"no", "yes", "refused"}

\* CreateRobot has no fault to find with a row, except that its name is too long.
RowsAreCreatable ==
    \A i \in DOMAIN rows : rows[i].req.name = "long" \/ ValidateRobotRequest(rows[i].req)

\* A robot that is imported can log in: the row has the secret that its authType calls
\* for, which CreateRobot would not miss.
RowsHaveTheirSecret == \A i \in DOMAIN rows : rows[i].req.secret

\* No record is lost or taken twice: each one that was read and says anything is a row
\* or an error, under a line of its own.
EveryRecordCounts ==
    LET results == {[line |-> rows[i].line, record |-> rows[i].record] : i \in DOMAIN rows}
                   \cup rowErrors
        said(n) == csvFile[n].kind \notin {"blank", "spaces"}
                   /\ \A m \in 1..(n - 1) : csvFile[m].kind # "open" IN
    /\ \A n \in 1..recordNo : said(n) => \E x \in results : x.record = n
    /\ \A x, y \in results :
          /\ x.line = y.line => x.record = y.record
          /\ x.record = y.record /\ x.record # NoRecord => x.line = y.line
    /\ \A i \in 2..Len(rows) : rows[i - 1].line < rows[i].line

PhysicalLine(n) == FoldLeft(LAMBDA lines, r : lines + r.span, 2, SubSeq(csvFile, 1, n - 1))
\* Expected by the comment at csv.go:27: the first line is the header and the lines count
\* from there.
LinesAreTheFiles ==
    \A i \in DOMAIN rows : rows[i].line = PhysicalLine(rows[i].record)

\* Expected by the comment at csv.go:92: an error of one record goes on to the next, and
\* so to the end of the file.
ImportEnds == WF_importVars(ReadHeader \/ ReadRecord \/ EndOfFile \/ ReadFails) => <>(parsed # "no")

\* What an import makes of its file.
ImportsAreSound == ImportTypeOK /\ RowsAreCreatable /\ RowsHaveTheirSecret /\ EveryRecordCounts
================================================================================
