------------------------------- MODULE PackStore -------------------------------
(***************************************************************************)
(* Benchmark packs: the archives built into the binary                     *)
(* (builtin/packs/embed.go), their check and load (domain/benchmark/       *)
(* archive.go, loader.go, yaml.go, schema.go), the store (sqliterepo),     *)
(* the seeding at every start (cmd/rosshield-server/seed_packs.go,         *)
(* seed_system_tenant.go), the read handlers (handlers/pack.go) and the    *)
(* life cycle of a pack (lifecycle.go).                                    *)
(*                                                                         *)
(* A release is a sequence of archives, in the order of their file names.  *)
(* An archive keeps its key (vendor, name and version), the key that       *)
(* signed it, its contents, whether its files are as the manifest says and *)
(* whether what they say is a pack.                                        *)
(***************************************************************************)
EXTENDS Integers, Sequences, SequencesExt, FiniteSets

CONSTANTS
    Releases,        \* what is built in, release by release: its archives by file name
    PackActors,      \* users who move packs through their life cycle
    MaxPackTime,     \* bound on the clock
    MaxMoves,        \* bound: moves of packs
    MaxPackBoots     \* bound: starts of the server

VARIABLES
    packDb,          \* the backend: "sqlite" or "postgres"
    release,         \* the release that is installed
    packBoots,       \* starts so far
    packProc,        \* the process: "off", "seeding" or "seeded"
    toSeed,          \* archives its seeding still has to look at
    packRows,        \* table packs, with the checks: key -> [signer, content]
    lifecycle,       \* table pack_lifecycle: key -> sequence of [state, at], by time
    packLog,         \* audit entries of the chain
    packTime,
    moving           \* transactions of TransitionPack that have read the state: actor -> [key, from, to]

packVars == <<packDb, release, packBoots, packProc, toSeed, packRows, lifecycle, packLog, packTime, moving>>

\* The keys a binary trusts, in the order it tries them.
TrustBundle == <<"dev", "release">>
Archive(key, content, signer, intact, wellFormed) ==
    [key |-> key, content |-> content, signer |-> signer, intact |-> intact, wellFormed |-> wellFormed]
ArchiveType == [key : STRING, content : STRING, signer : STRING, intact : BOOLEAN, wellFormed : BOOLEAN]
\* A release has at least one archive: go:embed refuses a pattern without a file.
ReleasesAssumption == Releases \in Seq(Seq(ArchiveType) \ {<< >>}) \ {<< >>}
ASSUME ReleasesAssumption
\* The archives in the binary of a release.
Builtins(r) == Releases[r]

\* lifecycle.go: the moves allowed.
allowedTransitions ==
    [installed |-> {"staged", "archived"}, staged |-> {"active", "installed", "archived"},
     active |-> {"inactive", "archived"}, inactive |-> {"active", "archived"},
     archived |-> {"removed"}, removed |-> {}]
\* Bug: a staged pack need not be staged: what is installed may be activated.
CanTransition_Direct(from, to) == to \in allowedTransitions[from] \/ (from = "installed" /\ to = "active")
CanTransition(from, to) == to \in allowedTransitions[from]

\* LoadPackFromTar with one trusted key: the signature first, then every file against the
\* manifest, no file besides, the schema, the key of the manifest, no check id twice.
VerifyArchive(a, key) == IF a.signer # key THEN "ErrSignatureInvalid" ELSE IF a.intact THEN "ok" ELSE "err"
LoadPackFromTar(a, key) == IF VerifyArchive(a, key) # "ok" THEN VerifyArchive(a, key)
                           ELSE IF a.wellFormed THEN "ok" ELSE "err"

\* Bug: every error moves on to the next key, and the last key is taken for the signer.
Load_Any(a, keys) ==
    LET loads == {i \in DOMAIN keys : LoadPackFromTar(a, keys[i]) = "ok"}
    IN [result |-> "ok", signer |-> keys[IF loads = {} THEN Len(keys) ELSE Min(loads)]]
\* installWithTrustBundle: keys are tried in order; only a bad signature moves on to the next.
Load(a, keys) ==
    LET ends == {i \in DOMAIN keys : LoadPackFromTar(a, keys[i]) # "ErrSignatureInvalid"}
    IN IF ends = {} THEN [result |-> "unmatched", signer |-> "none"]
       ELSE [result |-> LoadPackFromTar(a, keys[Min(ends)]), signer |-> keys[Min(ends)]]

\* isUniqueViolation knows the words of SQLite only.
UniqueIsKnown == packDb = "sqlite"

PackInit ==
    /\ packDb \in {"sqlite", "postgres"}
    /\ release = 1 /\ packBoots = 0 /\ packProc = "off" /\ toSeed = << >> /\ packTime = 1
    /\ packRows = << >> /\ lifecycle = << >> /\ packLog = << >>
    /\ moving = [a \in PackActors |-> {}]

SeedEnds == packProc' = "seeded" /\ toSeed' = << >>
SeedRest == IF Len(toSeed) = 1 THEN SeedEnds ELSE packProc' = packProc /\ toSeed' = Tail(toSeed)
Installed(key) == key \in DOMAIN packRows
WithRow(table, key, row) == [k \in DOMAIN table \cup {key} |-> IF k = key THEN row ELSE table[k]]
CurrentState(key) == Last(lifecycle[key]).state

\* seedSystemTenant, then seedBuiltinPacks begins; the release may be newer than the last one's.
Start ==
    /\ packBoots < MaxPackBoots /\ packProc = "off"
    /\ \E r \in release..Len(Releases) : release' = r /\ packProc' = "seeding" /\ toSeed' = Builtins(r)
    /\ packBoots' = packBoots + 1
    /\ moving' = [a \in PackActors |-> {}]
    /\ UNCHANGED <<packDb, packRows, lifecycle, packLog, packTime>>

\* The process ends: the transactions not committed are gone with it.
Stop ==
    /\ packBoots < MaxPackBoots /\ packProc # "off"
    /\ packProc' = "off" /\ toSeed' = << >> /\ moving' = [a \in PackActors |-> {}]
    /\ UNCHANGED <<packDb, release, packBoots, packRows, lifecycle, packLog, packTime>>

\* Bug: a pack that is there already ends the seeding.
InstallPack_StopsAtKnown(a, signer) ==
    /\ IF Installed(a.key)
         THEN SeedEnds /\ UNCHANGED <<packRows, lifecycle, packLog>>
         ELSE /\ packRows' = WithRow(packRows, a.key, [signer |-> signer, content |-> a.content])
              /\ lifecycle' = WithRow(lifecycle, a.key, <<[state |-> "installed", at |-> packTime]>>)
              /\ packLog' = Append(packLog, [action |-> "pack.installed", key |-> a.key])
              /\ SeedRest
\* InstallPack, one transaction: the row, its checks, the first life cycle row, the audit entry.
\* Bug: a pack of a known key is replaced.
InstallPack_Upsert(a, signer) ==
    /\ packRows' = WithRow(packRows, a.key, [signer |-> signer, content |-> a.content])
    /\ lifecycle' = WithRow(lifecycle, a.key, <<[state |-> "installed", at |-> packTime]>>)
    /\ packLog' = Append(packLog, [action |-> "pack.installed", key |-> a.key])
    /\ SeedRest
\* Bug: ON CONFLICT DO UPDATE, the contents change under the sessions that used them.
InstallPack_Refresh(a, signer) ==
    /\ packRows' = WithRow(packRows, a.key, [signer |-> signer, content |-> a.content])
    /\ IF Installed(a.key)
         THEN UNCHANGED <<lifecycle, packLog>>
         ELSE /\ lifecycle' = WithRow(lifecycle, a.key, <<[state |-> "installed", at |-> packTime]>>)
              /\ packLog' = Append(packLog, [action |-> "pack.installed", key |-> a.key])
    /\ SeedRest
InstallPack(a, signer) ==
    /\ IF Installed(a.key)
         THEN \* ErrPackAlreadyInstalled is skipped; an error that is not known ends the seeding
              /\ IF UniqueIsKnown THEN SeedRest ELSE SeedEnds
              /\ UNCHANGED <<packRows, lifecycle, packLog>>
         ELSE /\ packRows' = WithRow(packRows, a.key, [signer |-> signer, content |-> a.content])
              /\ lifecycle' = WithRow(lifecycle, a.key, <<[state |-> "installed", at |-> packTime]>>)
              /\ packLog' = Append(packLog, [action |-> "pack.installed", key |-> a.key])
              /\ SeedRest
InstallWithTrustBundle ==
    /\ packProc = "seeding"
    /\ LET a == toSeed[1]
           l == Load(a, TrustBundle)
       IN CASE l.result = "ok"        -> InstallPack(a, l.signer)
            [] l.result = "unmatched" -> SeedRest /\ UNCHANGED <<packRows, lifecycle, packLog>>
            [] OTHER                  -> SeedEnds /\ UNCHANGED <<packRows, lifecycle, packLog>>
    /\ UNCHANGED <<packDb, release, packBoots, packTime, moving>>

\* TransitionPack reads the latest row; on SQLite its transaction is alone from there on.
ReadState(a, key, to) ==
    /\ packProc # "off" /\ moving[a] = {} /\ Installed(key)
    /\ packDb = "sqlite" => \A b \in PackActors : moving[b] = {}
    /\ Cardinality({i \in DOMAIN packLog : packLog[i].action = "pack.lifecycle"}) < MaxMoves
    /\ CanTransition(CurrentState(key), to)
    /\ moving' = [moving EXCEPT ![a] = {[key |-> key, from |-> CurrentState(key), to |-> to]}]
    /\ UNCHANGED <<packDb, release, packBoots, packProc, toSeed, packRows, lifecycle, packLog, packTime>>
\* ... and adds a row, if no row of the pack has that time (its primary key), and an audit entry.
TransitionPack(a) ==
    /\ moving[a] # {}
    /\ LET m == CHOOSE x \in moving[a] : TRUE
           clash == \E i \in DOMAIN lifecycle[m.key] : lifecycle[m.key][i].at = packTime
       IN /\ lifecycle' = IF clash THEN lifecycle
                          ELSE [lifecycle EXCEPT ![m.key] = Append(@, [state |-> m.to, at |-> packTime])]
          /\ packLog' = IF clash THEN packLog
                        ELSE Append(packLog, [action |-> "pack.lifecycle", key |-> m.key, from |-> m.from, to |-> m.to])
    /\ moving' = [moving EXCEPT ![a] = {}]
    /\ UNCHANGED <<packDb, release, packBoots, packProc, toSeed, packRows, packTime>>

PackTick ==
    /\ packTime < MaxPackTime /\ packTime' = packTime + 1
    /\ UNCHANGED <<packDb, release, packBoots, packProc, toSeed, packRows, lifecycle, packLog, moving>>

PackNext ==
    \/ Start \/ Stop \/ InstallWithTrustBundle \/ PackTick
    \/ \E a \in PackActors : TransitionPack(a)
    \/ \E a \in PackActors, k \in DOMAIN packRows, to \in DOMAIN allowedTransitions : ReadState(a, k, to)

PackSpec == PackInit /\ [][PackNext]_packVars

(* ------------------------------ properties ------------------------------ *)
ArchivesSoFar == UNION {Range(Builtins(r)) : r \in 1..release}

\* What a scan may be given comes from one archive: all of its checks, under the key that
\* signed it, which the binary trusts, and the audit log says once that it was installed.
InstalledPackIsWhole ==
    \A k \in DOMAIN packRows :
        /\ \E a \in ArchivesSoFar : /\ a.key = k /\ a.intact /\ a.wellFormed
                                    /\ a.content = packRows[k].content
                                    /\ a.signer = packRows[k].signer /\ a.signer \in Range(TrustBundle)
        /\ Cardinality({i \in DOMAIN packLog : packLog[i].action = "pack.installed" /\ packLog[i].key = k}) = 1

\* Sessions refer to a pack by its row: a later start never changes a row, an archive with
\* new contents under an old version among them, and never sets a pack back to "installed".
StartsKeepPacks ==
    [][\A k \in DOMAIN packRows : /\ k \in DOMAIN packRows' /\ packRows'[k] = packRows[k]
                                  /\ IsPrefix(lifecycle[k], lifecycle'[k])]_packVars

\* On SQLite the recorded history of a pack is a walk of the life cycle: nothing is active that
\* was not staged before, and what is removed stays so.  Not so on PostgreSQL, where two
\* users may both move the pack from the state they read.
HistoryIsAWalk ==
    packDb = "sqlite" =>
        \A k \in DOMAIN lifecycle : \A i \in 1..Len(lifecycle[k]) - 1 :
            lifecycle[k][i + 1].state \in allowedTransitions[lifecycle[k][i].state]

\* Archives an undisturbed seeding of the release gets to: those before the first damaged one.
Seedable ==
    LET r == Builtins(release)
    IN {r[i] : i \in {j \in DOMAIN r : \A m \in 1..j : r[m].signer \in Range(TrustBundle) => (r[m].intact /\ r[m].wellFormed)}}
Arrived == \A a \in Seedable : a.signer \in Range(TrustBundle) => Installed(a.key)
\* On SQLite, when a start has gone through its archives, every pack the release brings is
\* there, those of an earlier release being skipped.
NewPacksArrive == (packDb = "sqlite" /\ packProc = "seeded") => Arrived
\* The same of every backend, as seed_packs.go:16-17 has it: "a pack that is installed is
\* skipped silently".  On PostgreSQL the first such pack ends the seeding.
UpgradesAreSeeded == packProc = "seeded" => Arrived

\* An installed pack is whole, its history is a walk through the states, new packs
\* arrive at a start and known ones are kept.
PacksAreSound ==
    /\ [](InstalledPackIsWhole /\ HistoryIsAWalk /\ NewPacksArrive)
    /\ StartsKeepPacks
================================================================================
