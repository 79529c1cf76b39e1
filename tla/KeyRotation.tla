------------------------------ MODULE KeyRotation ------------------------------
(***************************************************************************)
(* Rotation of the key that signs the audit chain of the system tenant:    *)
(* KeyRotator.RotateNow and Abort, the epochs in audit_chain_keys, the     *)
(* SwappableSigner in memory, and the starts that set it up again.         *)
(*                                                                         *)
(* Several instances may believe that they lead, see module Leadership;    *)
(* here that belief just changes.  The races of Append are left to module  *)
(* AuditChain: an entry is one step.  The clock is abstract, so that the   *)
(* minimal interval between rotations is an Enter that is not taken.       *)
(***************************************************************************)
EXTENDS Naturals, Sequences, FiniteSets, FiniteSetsExt, SequencesExt
CONSTANTS
    Rotators,       \* instances, each with a keystore of its own
    Placeholder,    \* '__bootstrap__', the key of epoch 1 in the table
    MaxKeyEpoch,    \* bound: epochs
    MaxTrail,       \* bound: length of the chain
    MaxBoots        \* bound: starts of a process

ASSUME KeyRotationAssumption ==
    /\ Placeholder \notin Rotators
    /\ MaxKeyEpoch \in Nat \ {0}
    /\ MaxTrail \in Nat
    /\ MaxBoots \in Nat

VARIABLES
    keyRows,    \* audit_chain_keys
    signer,     \* signer[i]: key and epoch of the SwappableSigner
    rot,        \* rot[i]: the call of RotateNow that holds the mutex
    abortFlag,  \* KeyRotator.abortFlag
    aborting,   \* aborting[i]: an Abort has raised the flag and not yet answered
    ruling,     \* instances whose RoleProvider says leader
    trail,      \* the chain: action and key_epoch of each entry
    boots       \* counter that bounds the model

rotationVars == <<keyRows, signer, rot, abortFlag, aborting, ruling, trail, boots>>

\* A key is known by the keystore that made it and the handle audit-chain-N;
\* the platform key has the handle of N = 1.
Key(i, n) == <<i, n>>
NoSigner == [key |-> Placeholder, epoch |-> 0]
NoRotation == [pc |-> "idle", cur |-> 0, new |-> 0, stop |-> FALSE]

Active == {r \in keyRows : ~r.revoked}
EpochsOf(rows) == {r.epoch : r \in rows}

\* The chain starts with what the first start wrote before it served anyone:
\* an entry for the seeded packs, and the marker of the hash version.
RotationInit ==
    /\ keyRows = {[epoch |-> 1, key |-> Placeholder, revoked |-> FALSE]}
    /\ signer = [i \in Rotators |-> NoSigner]
    /\ rot = [i \in Rotators |-> NoRotation]
    /\ abortFlag = [i \in Rotators |-> FALSE]
    /\ aborting = [i \in Rotators |-> FALSE]
    /\ ruling = {}
    /\ trail = <<[action |-> "seed", epoch |-> 1], [action |-> "marker", epoch |-> 1]>>
    /\ boots = 0

--------------------------------------------------------------------------------
(* Processes. *)

Up(i) == signer[i] # NoSigner

\* Bootstrap wraps the platform key as epoch 1, whatever the table says.
BootSigner(i) == [key |-> Key(i, 1), epoch |-> 1]
Boot(i) ==
    /\ ~Up(i) /\ boots < MaxBoots
    /\ signer' = [signer EXCEPT ![i] = BootSigner(i)]
    /\ boots' = boots + 1
    /\ UNCHANGED <<keyRows, rot, abortFlag, aborting, ruling, trail>>

Halt(i) ==
    /\ Up(i)
    /\ signer' = [signer EXCEPT ![i] = NoSigner]
    /\ rot' = [rot EXCEPT ![i] = NoRotation]
    /\ abortFlag' = [abortFlag EXCEPT ![i] = FALSE]
    /\ aborting' = [aborting EXCEPT ![i] = FALSE]
    /\ ruling' = ruling \ {i}
    /\ UNCHANGED <<keyRows, trail, boots>>

TakeRole(i) ==
    /\ Up(i)
    /\ ruling' = (ruling \ {i}) \cup ({i} \ ruling)
    /\ UNCHANGED <<keyRows, signer, rot, abortFlag, aborting, trail, boots>>

\* Append refuses on a follower and names the epoch the signer has now.
CanAppend(i) == Up(i) /\ i \in ruling /\ Len(trail) < MaxTrail
Entry(i, action) == [action |-> action, epoch |-> signer[i].epoch]

AppendOther(i) ==
    /\ CanAppend(i)
    /\ trail' = Append(trail, Entry(i, "other"))
    /\ UNCHANGED <<keyRows, signer, rot, abortFlag, aborting, ruling, boots>>

--------------------------------------------------------------------------------
(* RotateNow, one call at a time on an instance. *)

\* consumeAbortFlag: a raised flag is lowered and ends the round.
Poll(i, next) ==
    /\ abortFlag' = [abortFlag EXCEPT ![i] = FALSE]
    /\ rot' = [rot EXCEPT ![i] = IF abortFlag[i] THEN NoRotation ELSE next]

EnterRotation(i) ==
    /\ Up(i) /\ rot[i].pc = "idle"
    /\ abortFlag[i] \/ i \in ruling
    /\ Poll(i, [NoRotation EXCEPT !.pc = "read"])
    /\ UNCHANGED <<keyRows, signer, aborting, ruling, trail, boots>>

\* Without an active epoch the signer's own is taken.
CurrentChainKeyEpoch(i) ==
    IF Active = {} THEN signer[i].epoch ELSE Max(EpochsOf(Active))

ReadCurrent(i) ==
    /\ rot[i].pc = "read"
    /\ CurrentChainKeyEpoch(i) < MaxKeyEpoch
    /\ rot' = [rot EXCEPT ![i] = [@ EXCEPT !.pc = "allocate",
                                           !.cur = CurrentChainKeyEpoch(i),
                                           !.new = CurrentChainKeyEpoch(i) + 1]]
    /\ UNCHANGED <<keyRows, signer, abortFlag, aborting, ruling, trail, boots>>

AllocateKey(i) ==
    /\ rot[i].pc = "allocate"
    /\ Poll(i, [rot[i] EXCEPT !.pc = "test"])
    /\ UNCHANGED <<keyRows, signer, aborting, ruling, trail, boots>>

\* Bug: no poll between the self test and the transaction.
SelfTest_NoPoll(i) ==
    /\ rot[i].pc = "test"
    /\ rot' = [rot EXCEPT ![i].pc = "commit"]
    /\ UNCHANGED <<keyRows, signer, abortFlag, aborting, ruling, trail, boots>>
SelfTest(i) ==
    /\ rot[i].pc = "test"
    /\ Poll(i, [rot[i] EXCEPT !.pc = "commit"])
    /\ UNCHANGED <<keyRows, signer, aborting, ruling, trail, boots>>

\* Bug: the epoch is left to the sequence of the table.
AppendEpoch_Auto(i) ==
    {[epoch |-> Max(EpochsOf(keyRows)) + 1, key |-> Key(i, rot[i].new), revoked |-> FALSE]}
\* AppendChainKeyEpoch: the epoch is the primary key, the key unique.
AppendEpoch(i) ==
    {row \in {[epoch |-> rot[i].new, key |-> Key(i, rot[i].new), revoked |-> FALSE]} :
        \A r \in keyRows : r.epoch # row.epoch /\ r.key # row.key}

\* RevokeChainKeyEpoch; an epoch revoked by another instance is left as it is.
Revoke(rows, epoch) ==
    {[r EXCEPT !.revoked = @ \/ r.epoch = epoch] : r \in rows}

\* One transaction: the new epoch, the old one revoked, the entry. The entry
\* still names the old epoch.
CommitRotation(i) ==
    /\ rot[i].pc = "commit" /\ CanAppend(i)
    /\ \E row \in AppendEpoch(i) :
          /\ keyRows' = Revoke(keyRows, rot[i].cur) \cup {row}
          /\ rot' = [rot EXCEPT ![i].pc = "swap", ![i].new = row.epoch]
    /\ trail' = Append(trail, Entry(i, "rotated"))
    /\ UNCHANGED <<signer, abortFlag, aborting, ruling, boots>>

SwapSigner(i) ==
    /\ rot[i].pc = "swap"
    /\ signer' = [signer EXCEPT ![i] = [key |-> Key(i, rot[i].new), epoch |-> rot[i].new]]
    /\ rot' = [rot EXCEPT ![i] = NoRotation]
    /\ UNCHANGED <<keyRows, abortFlag, aborting, ruling, trail, boots>>

\* Bug: the signer is swapped although the transaction has failed.
FailRotation_Swap(i) ==
    /\ rot[i].pc \in {"read", "allocate", "test", "commit"}
    /\ signer' = IF rot[i].pc = "commit"
                 THEN [signer EXCEPT ![i] = [key |-> Key(i, rot[i].new), epoch |-> rot[i].new]]
                 ELSE signer
    /\ rot' = [rot EXCEPT ![i] = NoRotation]
    /\ UNCHANGED <<keyRows, abortFlag, aborting, ruling, trail, boots>>
\* A read, the keystore, the self test or the transaction fails: nothing of the
\* round is left, its key in the keystore excepted.
FailRotation(i) ==
    /\ rot[i].pc \in {"read", "allocate", "test", "commit"}
    /\ rot' = [rot EXCEPT ![i] = NoRotation]
    /\ UNCHANGED <<keyRows, signer, abortFlag, aborting, ruling, trail, boots>>

--------------------------------------------------------------------------------
(* Abort: the flag first, then an entry in a transaction of its own that may
   fail.  rot[i].stop is history: the flag rose before this round's last poll. *)

RaiseAbort(i) ==
    /\ Up(i) /\ i \in ruling /\ ~aborting[i]
    /\ abortFlag' = [abortFlag EXCEPT ![i] = TRUE]
    /\ aborting' = [aborting EXCEPT ![i] = TRUE]
    /\ rot' = [rot EXCEPT ![i].stop = rot[i].pc \in {"read", "allocate", "test"}]
    /\ UNCHANGED <<keyRows, signer, ruling, trail, boots>>

AnswerAbort(i) ==
    /\ aborting[i]
    /\ aborting' = [aborting EXCEPT ![i] = FALSE]
    /\ \/ CanAppend(i) /\ trail' = Append(trail, Entry(i, "aborted"))
       \/ UNCHANGED trail
    /\ UNCHANGED <<keyRows, signer, rot, abortFlag, ruling, boots>>

RotationNext ==
    \E i \in Rotators :
        \/ Boot(i) \/ Halt(i) \/ TakeRole(i) \/ AppendOther(i)
        \/ EnterRotation(i) \/ ReadCurrent(i) \/ AllocateKey(i) \/ SelfTest(i)
        \/ CommitRotation(i) \/ SwapSigner(i) \/ FailRotation(i)
        \/ RaiseAbort(i) \/ AnswerAbort(i)

RotationSpec == RotationInit /\ [][RotationNext]_rotationVars

--------------------------------------------------------------------------------
(* Properties. *)

Keys == {Placeholder} \cup (Rotators \X (1..MaxKeyEpoch))

\* Types of the rows, signers, rounds and entries.
RotationTypeOK ==
    /\ keyRows \subseteq [epoch : 1..MaxKeyEpoch, key : Keys, revoked : BOOLEAN]
    /\ signer \in [Rotators -> [key : Keys, epoch : 0..MaxKeyEpoch]]
    /\ rot \in [Rotators -> [pc : {"idle", "read", "allocate", "test", "commit", "swap"},
                             cur : 0..MaxKeyEpoch, new : 0..MaxKeyEpoch, stop : BOOLEAN]]
    /\ \A i \in Rotators : rot[i].pc \notin {"idle", "read"} => rot[i].new = rot[i].cur + 1
    /\ abortFlag \in [Rotators -> BOOLEAN]
    /\ aborting \in [Rotators -> BOOLEAN]
    /\ ruling \subseteq Rotators
    /\ trail \in Seq([action : {"seed", "marker", "other", "rotated", "aborted"},
                      epoch : 1..MaxKeyEpoch])
    /\ boots \in 0..MaxBoots

\* Two instances that both rotate never leave two keys in force: the epochs are
\* issued without a gap, and all but the newest are revoked.
OneKeyInForce ==
    /\ EpochsOf(keyRows) = 1..Cardinality(keyRows)
    /\ \A r \in keyRows : r.revoked <=> r.epoch < Cardinality(keyRows)

\* No instance signs under an epoch that was not issued to its key: commit, swap,
\* failure and crash in any order.  Epoch 1 alone has no key in the table.
SignerIsRegistered ==
    \A i \in Rotators :
        signer[i].epoch > 1 =>
            \E r \in keyRows : r.epoch = signer[i].epoch /\ r.key = signer[i].key

\* An Abort raised while a round could still be stopped stops it.
AbortStopsRound ==
    \A i \in Rotators : rot[i].pc \in {"commit", "swap"} => ~rot[i].stop

--------------------------------------------------------------------------------
(***************************************************************************)
(* Bundles of the chain: what Repo.Verify of the server accepts, what      *)
(* Export, ExportV2 and ExportV3 write, and what the stand-alone tool      *)
(* rosshield-audit-verify makes of it.  Bytes, gzip and JSON are left out; *)
(* an entry's hash is stood for by the version that computed it and by     *)
(* whether that version covers an epoch, since versions 1 and 3 give the   *)
(* same hash exactly for an entry without epochs.  Every entry of the      *)
(* server has one, so a hash recomputed with another version differs.      *)
(***************************************************************************)

\* The marker of the hash version, as cached by bootstrap.
MarkerSeq == CHOOSE k \in DOMAIN trail : trail[k].action = "marker"

\* Append hashes what comes after the marker with version 3.
HashedWith(k) == IF k > MarkerSeq THEN "v3" ELSE "v1"

\* Bug: the marker itself is taken for the first entry of the new version.
ServerPicks_AtMarker(k) == IF MarkerSeq > 0 /\ k >= MarkerSeq THEN "v3" ELSE "v1"
\* recomputeHashForSeq: the server picks by the cached marker.
ServerPicks(k) == IF MarkerSeq > 0 /\ k > MarkerSeq THEN "v3" ELSE "v1"

\* Repo.Verify over a range; that the chain links is AuditChain's business.
ServerVerifies(from, to) == \A k \in from..to : ServerPicks(k) = HashedWith(k)

\* resolveTransitionAt: 0 when the marker is not in the range.
MarkerIn(from, to) == IF MarkerSeq \in from..to THEN MarkerSeq ELSE 0

\* Export, signed by instance i.
BundleV1(i, from, to) ==
    [version |-> "v1", from |-> from, to |-> to,
     epochs |-> {}, key |-> signer[i].key, marker |-> 0]
\* ExportV2 adds the table of epochs.
BundleV2(i, from, to) == [BundleV1(i, from, to) EXCEPT !.version = "v2", !.epochs = keyRows]
\* ExportV3 adds where the hash version changed.
BundleV3(i, from, to) ==
    [BundleV2(i, from, to) EXCEPT !.version = "v3", !.marker = MarkerIn(from, to)]
\* ExportComplianceBundle hands out the first two, version 2 by default.
Handed(i, format, from, to) ==
    IF format = "v1" THEN BundleV1(i, from, to) ELSE BundleV2(i, from, to)

\* buildEpochMap decodes every key of the table; the placeholder is not hex.
EpochMapOK(b) ==
    b.version # "v1" => b.epochs # {} /\ \A r \in b.epochs : r.key # Placeholder
\* lookupSigningPublicKey: the signer has to be one of the table's keys.
SignatureOK(b) == b.version # "v1" => \E r \in b.epochs : r.key = b.key

\* selectHashFunc and verifyHashChainForBundle.
ToolPicks(b, k) == IF b.version = "v3" /\ b.marker > 0 /\ k > b.marker THEN "v3" ELSE "v1"
HashesOK(b) == \A k \in b.from..b.to : ToolPicks(b, k) = HashedWith(k)

\* verifyEpochTransitions: the entry of a rotation has to name a later epoch than
\* the entry before it.
EpochTransitionsOK(b) ==
    \A k \in b.from..b.to :
        (b.version # "v1" /\ trail[k].action = "rotated") =>
            /\ trail[k].epoch \in EpochsOf(b.epochs)
            /\ k > b.from =>
                  /\ trail[k - 1].epoch \in EpochsOf(b.epochs)
                  /\ trail[k].epoch > trail[k - 1].epoch

\* verifyHashVersionTransitionMarker
MarkerOK(b) ==
    b.version = "v3" =>
        LET found == {k \in b.from..b.to : trail[k].action = "marker"} IN
        IF b.marker = 0 THEN found = {} ELSE found = {b.marker}

\* verifyExportBundle: all its steps pass.
ToolVerifies(b) ==
    EpochMapOK(b) /\ SignatureOK(b) /\ HashesOK(b) /\ EpochTransitionsOK(b) /\ MarkerOK(b)

--------------------------------------------------------------------------------
(* Properties. *)

Ranges == {r \in (DOMAIN trail) \X (DOMAIN trail) : r[1] <= r[2]}
Signing == {i \in Rotators : Up(i)}

\* The server verifies every range of its chain, the tool a version 1 bundle exactly
\* when it ends at the marker or before, whoever signed it and after any rotations. The
\* hashes of a version 3 bundle are right unless it begins behind the marker.
ServerOutlivesV1 ==
    \A i \in Signing, r \in Ranges :
        /\ ServerVerifies(r[1], r[2])
        /\ ToolVerifies(Handed(i, "v1", r[1], r[2])) <=> r[2] <= MarkerSeq
        /\ HashesOK(BundleV3(i, r[1], r[2])) <=> (r[2] <= MarkerSeq \/ r[1] <= MarkerSeq)

\* Expected by docs/operations/audit-chain-key-rotation.md: the tool verifies a
\* bundle of the server, version 2 being what the server hands out by default.
BundleVerifies ==
    \A i \in Signing : ToolVerifies(Handed(i, "v2", 1, Len(trail)))

\* The history of the platform key: one key in force, registered before it signs, a
\* rotation that fails moves nothing, and an exported bundle is judged by the key
\* of its time.
KeyHistoryIsSound ==
    /\ RotationTypeOK
    /\ OneKeyInForce
    /\ SignerIsRegistered
    /\ AbortStopsRound
    /\ ServerOutlivesV1
================================================================================
