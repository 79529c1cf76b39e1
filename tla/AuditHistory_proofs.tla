--------------------------- MODULE AuditHistory_proofs ---------------------------
(***************************************************************************)
(* Proofs about what rotates in the audit history of a tenant: its keys,   *)
(* for any instances, epochs, entries and starts (KeyRotation), and its    *)
(* segments, for any entries, failed rotations and collections, on either  *)
(* storage (AuditRotation); about what witnesses it from outside, the      *)
(* folds of one scheduler (CrossWitness); and about the dashboard that     *)
(* counts its entries (Effectiveness).                                     *)
(***************************************************************************)
EXTENDS KeyRotation, AuditRotation, CrossWitness, Effectiveness, FiniteSetTheorems, SequenceTheorems, TLAPS

--------------------------------------------------------------------------------
(* The inductive invariant. *)

\* The epochs are issued from 1 without a gap, each once, and only the newest is active.
RowsInv ==
    /\ Cardinality(keyRows) \in 1..MaxKeyEpoch
    /\ EpochsOf(keyRows) = 1..Cardinality(keyRows)
    /\ \A r, q \in keyRows : r.epoch = q.epoch => r = q
    /\ \A r \in keyRows : r.revoked <=> r.epoch < Cardinality(keyRows)

\* What a round has read was issued, and what it goes on to sign with is.
Registered(epoch, key) == \E r \in keyRows : r.epoch = epoch /\ r.key = key
Round(i) ==
    /\ Up(i) => signer[i].epoch >= 1
    /\ ~Up(i) => rot[i] = NoRotation /\ i \notin ruling /\ ~aborting[i]
    /\ signer[i].epoch > 1 => Registered(signer[i].epoch, signer[i].key)
    /\ rot[i].pc \notin {"idle", "read"} => rot[i].cur >= 1
    /\ rot[i].pc \in {"allocate", "test", "commit"} => rot[i].cur <= Cardinality(keyRows)
    /\ rot[i].pc = "swap" => Registered(rot[i].new, Key(i, rot[i].new))
RoundInv == \A i \in Rotators : Round(i)

\* An abort that may still stop a round finds its flag raised, and no other is on record.
StopInv ==
    \A i \in Rotators :
        /\ rot[i].pc \in {"read", "allocate", "test"} /\ rot[i].stop => abortFlag[i]
        /\ rot[i].pc \in {"commit", "swap"} => ~rot[i].stop

\* The chain has one marker of the hash version, its second entry.
MarkerInv ==
    /\ Len(trail) >= 2
    /\ \A k \in DOMAIN trail : trail[k].action = "marker" <=> k = 2

IInv == RotationTypeOK /\ RowsInv /\ RoundInv /\ StopInv /\ MarkerInv

--------------------------------------------------------------------------------
(* The table of epochs. *)

RowType == [epoch : 1..MaxKeyEpoch, key : Keys, revoked : BOOLEAN]
RotType == [pc : {"idle", "read", "allocate", "test", "commit", "swap"},
            cur : 0..MaxKeyEpoch, new : 0..MaxKeyEpoch, stop : BOOLEAN]
SignerType == [key : Keys, epoch : 0..MaxKeyEpoch]
EntryType == [action : {"seed", "marker", "other", "rotated", "aborted"}, epoch : 1..MaxKeyEpoch]

\* The bounds are numbers, the first epoch is within them, and the keys are keys.
LEMMA Bounds ==
    /\ MaxKeyEpoch \in Nat /\ 1 <= MaxKeyEpoch /\ MaxBoots \in Nat
    /\ Placeholder \in Keys
    /\ \A i \in Rotators, n \in 1..MaxKeyEpoch : Key(i, n) \in Keys
  BY KeyRotationAssumption DEF Keys, Key

\* A row that is marked, as revoked or not, keeps the rest.
LEMMA RowMarked ==
    ASSUME NEW r \in RowType, NEW mark \in BOOLEAN
    PROVE  [r EXCEPT !.revoked = mark] = [epoch |-> r.epoch, key |-> r.key, revoked |-> mark]
  BY DEF RowType

\* As many rows as epochs, when each has one.
LEMMA RowsCount ==
    ASSUME NEW rows, NEW n \in Nat, EpochsOf(rows) = 1..n,
           \A r, q \in rows : r.epoch = q.epoch => r = q
    PROVE  Cardinality(rows) = n
<1> DEFINE f == [k \in 1..n |-> CHOOSE r \in rows : r.epoch = k]
<1>1. \A k \in 1..n : f[k] \in rows /\ f[k].epoch = k
  BY DEF EpochsOf
<1>2. \A r \in rows : r.epoch \in 1..n
  BY DEF EpochsOf
<1>3. f \in [1..n -> rows]
  BY <1>1
<1> HIDE DEF f
<1>4. f \in Bijection(1..n, rows)
  <2>1. \A j, k \in 1..n : f[j] = f[k] => j = k
    BY <1>1
  <2>2. \A r \in rows : \E k \in 1..n : f[k] = r
    BY <1>1, <1>2
  <2>3. QED
    BY <1>3, <2>1, <2>2 DEF Bijection, Injection, Surjection, IsInjective
<1>5. IsFiniteSet(1..n) /\ Cardinality(1..n) = n
  BY FS_Interval
<1>6. QED
  BY <1>4, <1>5, FS_Bijection DEF ExistsBijection

\* The epoch a round reads is the newest.
LEMMA CurrentIsNewest ==
    ASSUME RowsInv, NEW i \in Rotators
    PROVE  CurrentChainKeyEpoch(i) = Cardinality(keyRows)
<1> DEFINE n == Cardinality(keyRows)
<1>1. n \in Nat /\ n >= 1 /\ EpochsOf(keyRows) = 1..n
  BY Bounds DEF RowsInv
<1>2. \A r \in keyRows : r.epoch \in 1..n /\ (r.revoked <=> r.epoch < n)
  BY DEF RowsInv, EpochsOf
<1>3. PICK r \in keyRows : r.epoch = n
  BY <1>1 DEF EpochsOf
<1>4. r \in Active
  BY <1>1, <1>2, <1>3 DEF Active
<1>5. \A q \in Active : q.epoch = n
  BY <1>1, <1>2 DEF Active
<1>6. EpochsOf(Active) = {n}
  BY <1>3, <1>4, <1>5 DEF EpochsOf
<1>7. Max({n}) = n
  BY <1>1 DEF Max
<1>8. QED
  BY <1>4, <1>6, <1>7 DEF CurrentChainKeyEpoch

\* A rotation that commits revokes the newest epoch and adds the next one.
LEMMA CommitAdds ==
    ASSUME RotationTypeOK, RowsInv, RoundInv, NEW i \in Rotators, CommitRotation(i)
    PROVE  /\ rot[i].cur = Cardinality(keyRows) /\ rot[i].new = Cardinality(keyRows) + 1
           /\ rot[i].new \in 1..MaxKeyEpoch
           /\ keyRows' = Revoke(keyRows, rot[i].cur)
                            \cup {[epoch |-> rot[i].new, key |-> Key(i, rot[i].new), revoked |-> FALSE]}
           /\ rot' = [rot EXCEPT ![i].pc = "swap"]
<1> DEFINE n == Cardinality(keyRows)
           new == [epoch |-> rot[i].new, key |-> Key(i, rot[i].new), revoked |-> FALSE]
<1>1. n \in Nat /\ EpochsOf(keyRows) = 1..n
  BY Bounds DEF RowsInv
<1>2. rot \in [Rotators -> RotType] /\ rot[i] \in RotType
  BY DEF RotationTypeOK, RotType
<1>3. rot[i].cur \in Nat /\ rot[i].cur >= 1 /\ rot[i].cur <= n /\ rot[i].new = rot[i].cur + 1
  <2>1. rot[i].pc = "commit" /\ rot[i].cur \in Nat
    BY <1>2, Bounds DEF CommitRotation, RotType
  <2>2. rot[i].new = rot[i].cur + 1
    BY <2>1 DEF RotationTypeOK
  <2>3. rot[i].cur >= 1 /\ rot[i].cur <= n
    BY <2>1 DEF RoundInv, Round
  <2>4. QED
    BY <2>1, <2>2, <2>3
<1>4. /\ \A r \in keyRows : r.epoch # rot[i].new
      /\ keyRows' = Revoke(keyRows, rot[i].cur) \cup {new}
      /\ rot' = [rot EXCEPT ![i].pc = "swap", ![i].new = rot[i].new]
  <2>1. PICK row \in AppendEpoch(i) :
            /\ keyRows' = Revoke(keyRows, rot[i].cur) \cup {row}
            /\ rot' = [rot EXCEPT ![i].pc = "swap", ![i].new = row.epoch]
    BY DEF CommitRotation
  <2>2. row = new /\ \A r \in keyRows : r.epoch # row.epoch
    BY DEF AppendEpoch
  <2>3. row.epoch = rot[i].new
    BY <2>2
  <2>4. QED
    BY <2>1, <2>2, <2>3
<1>5. rot[i].new \notin 1..n
  BY <1>1, <1>4 DEF EpochsOf
<1>6. rot[i].cur = n
  BY <1>1, <1>3, <1>5
<1>7. rot' = [rot EXCEPT ![i].pc = "swap"]
  BY <1>2, <1>4 DEF RotType
<1>8. rot[i].new \in 1..MaxKeyEpoch
  BY <1>2, <1>3, Bounds DEF RotType
<1>9. QED
  BY <1>3, <1>4, <1>6, <1>7, <1>8

\* Only a commit changes the table.
LEMMA RowsKept ==
    ASSUME NEW i \in Rotators,
           \/ Boot(i) \/ Halt(i) \/ TakeRole(i) \/ AppendOther(i)
           \/ EnterRotation(i) \/ ReadCurrent(i) \/ AllocateKey(i) \/ SelfTest(i)
           \/ SwapSigner(i) \/ FailRotation(i)
           \/ RaiseAbort(i) \/ AnswerAbort(i)
    PROVE  keyRows' = keyRows
  BY DEF Boot, Halt, TakeRole, AppendOther, EnterRotation, ReadCurrent, AllocateKey, SelfTest,
     SwapSigner, FailRotation, RaiseAbort, AnswerAbort

\* The table starts with epoch 1.
LEMMA RowsInit == RotationInit => RowsInv
<1> SUFFICES ASSUME RotationInit
             PROVE  RowsInv
  OBVIOUS
<1>1. /\ EpochsOf(keyRows) = 1..1
      /\ \A r, q \in keyRows : r.epoch = q.epoch => r = q
      /\ \A r \in keyRows : r.epoch = 1 /\ ~r.revoked
  BY DEF RotationInit, EpochsOf
<1>2. Cardinality(keyRows) = 1
  BY <1>1, RowsCount
<1>3. QED
  BY <1>1, <1>2, Bounds DEF RowsInv

\* The table goes on by one epoch at a time; what is issued stays issued, to the same key.
LEMMA RowsNext ==
    ASSUME RotationTypeOK, RowsInv, RoundInv, [RotationNext]_rotationVars
    PROVE  /\ RowsInv'
           /\ Cardinality(keyRows) <= Cardinality(keyRows)'
           /\ \A epoch, key : Registered(epoch, key) => Registered(epoch, key)'
<1> DEFINE n == Cardinality(keyRows)
<1>1. /\ n \in Nat /\ EpochsOf(keyRows) = 1..n
      /\ \A r \in keyRows : r \in RowType /\ r.epoch \in 1..n
      /\ \A r, q \in keyRows : r.epoch = q.epoch => r = q
      /\ \A r \in keyRows : r.revoked <=> r.epoch < n
  <2>1. n \in Nat /\ EpochsOf(keyRows) = 1..n
    BY Bounds DEF RowsInv
  <2>2. \A r \in keyRows : r.epoch \in 1..n
    BY <2>1 DEF EpochsOf
  <2>3. QED
    BY <2>1, <2>2 DEF RowsInv, RotationTypeOK, RowType
<1>2. CASE keyRows' = keyRows
  <2>1. RowsInv'
    BY <1>2 DEF RowsInv, EpochsOf
  <2>2. n' = n
    BY <1>2
  <2>3. QED
    BY <1>1, <1>2, <2>1, <2>2 DEF Registered
<1>3. ASSUME NEW i \in Rotators, CommitRotation(i)
      PROVE  /\ RowsInv'
             /\ n <= n'
             /\ \A epoch, key : Registered(epoch, key) => Registered(epoch, key)'
  <2> DEFINE new == [epoch |-> n + 1, key |-> Key(i, n + 1), revoked |-> FALSE]
             old(r) == [epoch |-> r.epoch, key |-> r.key, revoked |-> TRUE]
  <2>1. n + 1 \in 1..MaxKeyEpoch /\ keyRows' = Revoke(keyRows, n) \cup {new}
    BY <1>3, CommitAdds
  <2>2. ASSUME NEW r \in keyRows
        PROVE  [r EXCEPT !.revoked = @ \/ r.epoch = n] = old(r)
    <3>1. r \in RowType /\ r.epoch \in 1..n /\ (r.revoked <=> r.epoch < n)
      BY <1>1
    <3>2. r.revoked \/ r.epoch = n
      BY <1>1, <3>1
    <3>3. (r.revoked \/ r.epoch = n) = TRUE
      BY <3>2
    <3>4. [r EXCEPT !.revoked = @ \/ r.epoch = n] = [r EXCEPT !.revoked = TRUE]
      BY <3>3, Zenon
    <3>5. [r EXCEPT !.revoked = TRUE] = old(r)
      BY <3>1, RowMarked, Zenon
    <3>6. QED
      BY <3>4, <3>5
  <2>3. keyRows' = {old(r) : r \in keyRows} \cup {new}
    <3>1. Revoke(keyRows, n) = {old(r) : r \in keyRows}
      <4> HIDE DEF old, n
      <4>1. QED
        BY <2>2 DEF Revoke
    <3>2. QED
      BY <2>1, <3>1
  <2>a. \A r \in keyRows' : \/ r = new
                            \/ \E q \in keyRows : r = old(q)
    BY <2>3
  <2>b. new \in keyRows' /\ \A q \in keyRows : old(q) \in keyRows'
    BY <2>3
  <2>c. new.epoch = n + 1 /\ new.revoked = FALSE
    OBVIOUS
  <2>d. \A r \in keyRows : old(r).epoch = r.epoch /\ old(r).key = r.key /\ old(r).revoked = TRUE
    OBVIOUS
  <2> HIDE DEF new, old, n
  <2>4. EpochsOf(keyRows)' = 1..(n + 1)
    <3>1. EpochsOf(keyRows)' = EpochsOf(keyRows) \cup {n + 1}
      BY <2>a, <2>b, <2>c, <2>d DEF EpochsOf
    <3>2. QED
      BY <1>1, <3>1
  <2>5. \A r, q \in keyRows' : r.epoch = q.epoch => r = q
    BY <1>1, <2>a, <2>c, <2>d
  <2>6. Cardinality(keyRows)' = n + 1
    <3>1. EpochsOf(keyRows') = 1..(n + 1) /\ n + 1 \in Nat
      BY <1>1, <2>4
    <3>2. QED
      BY <2>5, <3>1, RowsCount
  <2>7. \A r \in keyRows' : r.revoked <=> r.epoch < n + 1
    BY <1>1, <2>a, <2>c, <2>d
  <2>8. \A epoch, key : Registered(epoch, key) => Registered(epoch, key)'
    BY <2>b, <2>d DEF Registered
  <2>9. RowsInv'
    BY <2>1, <2>4, <2>5, <2>6, <2>7 DEF RowsInv
  <2>10. QED
    BY <1>1, <2>6, <2>8, <2>9 DEF n
<1>4. QED
  BY <1>2, <1>3, RowsKept DEF RotationNext, rotationVars

--------------------------------------------------------------------------------
(* What a step does to the round of an instance. *)

NewestEpoch == Cardinality(keyRows)
SameRound(i) == rot'[i].cur = rot[i].cur /\ rot'[i].new = rot[i].new

Stays(i) == rot'[i] = rot[i] /\ abortFlag'[i] = abortFlag[i]
Ends(i) == rot'[i] = NoRotation
Enters(i) == rot'[i] = [pc |-> "read", cur |-> 0, new |-> 0, stop |-> FALSE]
Reads(i) == /\ rot[i].pc = "read" /\ rot'[i].pc = "allocate"
            /\ rot'[i].cur = NewestEpoch /\ rot'[i].new = NewestEpoch + 1 /\ rot'[i].new <= MaxKeyEpoch
            /\ rot'[i].stop = rot[i].stop /\ abortFlag'[i] = abortFlag[i]
Passes(i) == /\ \/ rot[i].pc = "allocate" /\ rot'[i].pc = "test"
                \/ rot[i].pc = "test" /\ rot'[i].pc = "commit"
             /\ SameRound(i) /\ rot'[i].stop = rot[i].stop /\ ~abortFlag[i]
Commits(i) == /\ rot[i].pc = "commit" /\ rot'[i].pc = "swap"
              /\ SameRound(i) /\ rot'[i].stop = rot[i].stop
              /\ Registered(rot[i].new, Key(i, rot[i].new))'
Aborts(i) == /\ rot'[i].pc = rot[i].pc /\ SameRound(i) /\ abortFlag'[i]
             /\ rot'[i].stop <=> rot[i].pc \in {"read", "allocate", "test"}
Moves(i) == \/ Stays(i) \/ Ends(i) \/ Enters(i) \/ Reads(i) \/ Passes(i) \/ Commits(i) \/ Aborts(i)

\* A round that goes on to another place keeps the rest.
LEMMA RoundAt ==
    ASSUME NEW r \in RotType, NEW to \in {"read", "test", "commit"}
    PROVE  [r EXCEPT !.pc = to] = [pc |-> to, cur |-> r.cur, new |-> r.new, stop |-> r.stop]
  BY DEF RotType

\* A round that is polled goes on only when no flag is up.
LEMMA Polled ==
    ASSUME NEW i \in Rotators, NEW next \in RotType, rot \in [Rotators -> RotType], Poll(i, next)
    PROVE  /\ rot' \in [Rotators -> RotType]
           /\ rot'[i] = NoRotation \/ (~abortFlag[i] /\ rot'[i] = next)
           /\ \A o \in Rotators \ {i} : rot'[o] = rot[o]
           /\ abortFlag' = [abortFlag EXCEPT ![i] = FALSE]
<1>1. NoRotation \in RotType
  BY Bounds DEF NoRotation, RotType
<1>2. QED
  BY <1>1 DEF Poll

\* So does every step move the round of every instance.
LEMMA RoundMoves ==
    ASSUME RotationTypeOK, RowsInv, RoundInv, [RotationNext]_rotationVars
    PROVE  /\ rot' \in [Rotators -> RotType]
           /\ \A i \in Rotators : Moves(i)
<1>a. /\ rot \in [Rotators -> RotType] /\ abortFlag \in [Rotators -> BOOLEAN]
      /\ NoRotation \in RotType
  BY Bounds DEF RotationTypeOK, RotType, NoRotation
<1>b. ASSUME rot' = rot, abortFlag' = abortFlag
      PROVE  rot' \in [Rotators -> RotType] /\ \A o \in Rotators : Moves(o)
  BY <1>a, <1>b DEF Moves, Stays
<1>c. ASSUME NEW i \in Rotators, rot' \in [Rotators -> RotType], Moves(i),
             \A o \in Rotators \ {i} : rot'[o] = rot[o] /\ abortFlag'[o] = abortFlag[o]
      PROVE  rot' \in [Rotators -> RotType] /\ \A o \in Rotators : Moves(o)
  BY <1>c DEF Moves, Stays
<1>1. ASSUME NEW i \in Rotators, Boot(i) \/ TakeRole(i) \/ AppendOther(i) \/ AnswerAbort(i)
      PROVE  rot' = rot /\ abortFlag' = abortFlag
  BY <1>1 DEF Boot, TakeRole, AppendOther, AnswerAbort
<1>2. ASSUME NEW i \in Rotators, Halt(i) \/ SwapSigner(i) \/ FailRotation(i)
      PROVE  rot' \in [Rotators -> RotType] /\ \A o \in Rotators : Moves(o)
  <2>1. /\ rot' = [rot EXCEPT ![i] = NoRotation]
        /\ \A o \in Rotators \ {i} : abortFlag'[o] = abortFlag[o]
    BY <1>2, <1>a DEF Halt, SwapSigner, FailRotation
  <2>2. QED
    BY <1>a, <1>c, <2>1 DEF Moves, Ends
<1>3. ASSUME NEW i \in Rotators, EnterRotation(i)
      PROVE  rot' \in [Rotators -> RotType] /\ \A o \in Rotators : Moves(o)
  <2> DEFINE next == [pc |-> "read", cur |-> 0, new |-> 0, stop |-> FALSE]
  <2>1. next \in RotType /\ [NoRotation EXCEPT !.pc = "read"] = next
    <3>1. next \in RotType
      BY Bounds DEF RotType
    <3>2. NoRotation.cur = 0 /\ NoRotation.new = 0 /\ NoRotation.stop = FALSE
      BY DEF NoRotation
    <3>3. [NoRotation EXCEPT !.pc = "read"]
            = [pc |-> "read", cur |-> NoRotation.cur, new |-> NoRotation.new, stop |-> NoRotation.stop]
      BY <1>a, RoundAt
    <3>4. QED
      BY <3>1, <3>2, <3>3
  <2>2. Poll(i, next)
    BY <1>3, <2>1 DEF EnterRotation
  <2>3. /\ rot' \in [Rotators -> RotType] /\ Moves(i)
        /\ \A o \in Rotators \ {i} : rot'[o] = rot[o] /\ abortFlag'[o] = abortFlag[o]
    BY <1>a, <2>1, <2>2, Polled DEF Moves, Ends, Enters
  <2>4. QED
    BY <1>c, <2>3
<1>4. ASSUME NEW i \in Rotators, ReadCurrent(i)
      PROVE  rot' \in [Rotators -> RotType] /\ \A o \in Rotators : Moves(o)
  <2>1. NewestEpoch \in Nat /\ NewestEpoch >= 1 /\ CurrentChainKeyEpoch(i) = NewestEpoch
    BY CurrentIsNewest, Bounds DEF RowsInv, NewestEpoch
  <2>2. NewestEpoch + 1 \in 1..MaxKeyEpoch /\ NewestEpoch \in 0..MaxKeyEpoch
    BY <1>4, <2>1, Bounds DEF ReadCurrent
  <2>3. rot' = [rot EXCEPT ![i] = [@ EXCEPT !.pc = "allocate", !.cur = NewestEpoch, !.new = NewestEpoch + 1]]
    BY <1>4, <2>1 DEF ReadCurrent
  <2> HIDE DEF NewestEpoch
  <2>a. /\ rot' = [rot EXCEPT ![i] = rot'[i]]
        /\ rot'[i] = [rot[i] EXCEPT !.pc = "allocate", !.cur = NewestEpoch, !.new = NewestEpoch + 1]
    BY <1>a, <2>3
  <2>b. NewestEpoch + 1 \in 0..MaxKeyEpoch /\ rot[i] \in RotType
    BY <1>a, <2>2, Bounds
  <2>c. /\ rot'[i] \in RotType
        /\ rot'[i].pc = "allocate" /\ rot'[i].cur = NewestEpoch /\ rot'[i].new = NewestEpoch + 1
        /\ rot'[i].stop = rot[i].stop
    <3> DEFINE next == rot'[i]
               more == NewestEpoch + 1
    <3>1. next = [rot[i] EXCEPT !.pc = "allocate", !.cur = NewestEpoch, !.new = more]
      BY <2>a
    <3>2. more \in 0..MaxKeyEpoch
      BY <2>b
    <3> HIDE DEF next, more
    <3>3. /\ next \in RotType /\ next.pc = "allocate" /\ next.cur = NewestEpoch /\ next.new = more
          /\ next.stop = rot[i].stop
      <4> DEFINE r == rot[i]
      <4>1. r \in RotType /\ next = [r EXCEPT !.pc = "allocate", !.cur = NewestEpoch, !.new = more]
        BY <2>b, <3>1
      <4>2. NewestEpoch \in 0..MaxKeyEpoch /\ more \in 0..MaxKeyEpoch
        BY <2>2, <3>2
      <4> HIDE DEF r
      <4>3. /\ next \in RotType /\ next.pc = "allocate" /\ next.cur = NewestEpoch /\ next.new = more
            /\ next.stop = r.stop
        BY <4>1, <4>2 DEF RotType
      <4>4. QED
        BY <4>3 DEF r
    <3>4. QED
      BY <3>3 DEF next, more
  <2>4. /\ rot' \in [Rotators -> RotType]
        /\ rot'[i].pc = "allocate" /\ rot'[i].cur = NewestEpoch /\ rot'[i].new = NewestEpoch + 1
        /\ rot'[i].stop = rot[i].stop
        /\ \A o \in Rotators \ {i} : rot'[o] = rot[o]
    BY <1>a, <2>a, <2>c
  <2>5. rot[i].pc = "read" /\ abortFlag' = abortFlag
    BY <1>4 DEF ReadCurrent
  <2>6. Reads(i)
    BY <2>2, <2>4, <2>5, Bounds DEF Reads
  <2>7. QED
    BY <1>c, <2>4, <2>5, <2>6 DEF Moves
<1>5. ASSUME NEW i \in Rotators, AllocateKey(i) \/ SelfTest(i)
      PROVE  rot' \in [Rotators -> RotType] /\ \A o \in Rotators : Moves(o)
  <2>1. PICK to \in {"test", "commit"} :
            /\ \/ rot[i].pc = "allocate" /\ to = "test"
               \/ rot[i].pc = "test" /\ to = "commit"
            /\ Poll(i, [rot[i] EXCEPT !.pc = to])
    BY <1>5 DEF AllocateKey, SelfTest
  <2> DEFINE next == [rot[i] EXCEPT !.pc = to]
  <2>2. /\ next \in RotType /\ next.pc = to
        /\ next.cur = rot[i].cur /\ next.new = rot[i].new /\ next.stop = rot[i].stop
    BY <1>a DEF RotType
  <2>3. Poll(i, next)
    BY <2>1
  <2> HIDE DEF next
  <2>4. /\ rot' \in [Rotators -> RotType]
        /\ rot'[i] = NoRotation \/ (~abortFlag[i] /\ rot'[i] = next)
        /\ \A o \in Rotators \ {i} : rot'[o] = rot[o] /\ abortFlag'[o] = abortFlag[o]
    BY <1>a, <2>2, <2>3, Polled
  <2>5. Ends(i) \/ Passes(i)
    BY <2>1, <2>2, <2>4 DEF Ends, Passes, SameRound
  <2>6. QED
    BY <1>c, <2>4, <2>5 DEF Moves
<1>6. ASSUME NEW i \in Rotators, CommitRotation(i)
      PROVE  rot' \in [Rotators -> RotType] /\ \A o \in Rotators : Moves(o)
  <2>1. rot' = [rot EXCEPT ![i].pc = "swap"]
    BY <1>6, CommitAdds
  <2>2. Registered(rot[i].new, Key(i, rot[i].new))'
    <3>1. rot'[i].new = rot[i].new
      BY <1>a, <2>1 DEF RotType
    <3>2. [epoch |-> rot[i].new, key |-> Key(i, rot[i].new), revoked |-> FALSE] \in keyRows'
      BY <1>6, CommitAdds
    <3>3. QED
      BY <3>1, <3>2 DEF Registered, Key
  <2>3. rot[i].pc = "commit" /\ abortFlag' = abortFlag
    BY <1>6 DEF CommitRotation
  <2>4. /\ rot' \in [Rotators -> RotType] /\ Commits(i)
        /\ \A o \in Rotators \ {i} : rot'[o] = rot[o]
    BY <1>a, <2>1, <2>2, <2>3 DEF RotType, Commits, SameRound
  <2>5. QED
    BY <1>c, <2>3, <2>4 DEF Moves
<1>7. ASSUME NEW i \in Rotators, RaiseAbort(i)
      PROVE  rot' \in [Rotators -> RotType] /\ \A o \in Rotators : Moves(o)
  <2> DEFINE stop == rot[i].pc \in {"read", "allocate", "test"}
  <2>1. /\ rot' = [rot EXCEPT ![i].stop = stop] /\ stop \in BOOLEAN
        /\ abortFlag' = [abortFlag EXCEPT ![i] = TRUE]
    BY <1>7 DEF RaiseAbort
  <2>2. stop <=> rot[i].pc \in {"read", "allocate", "test"}
    OBVIOUS
  <2> HIDE DEF stop
  <2>3. /\ rot' \in [Rotators -> RotType]
        /\ rot'[i].pc = rot[i].pc /\ rot'[i].cur = rot[i].cur /\ rot'[i].new = rot[i].new
        /\ rot'[i].stop = stop
        /\ \A o \in Rotators \ {i} : rot'[o] = rot[o] /\ abortFlag'[o] = abortFlag[o]
        /\ abortFlag'[i]
    BY <1>a, <2>1 DEF RotType
  <2>4. Aborts(i)
    BY <2>2, <2>3 DEF Aborts, SameRound
  <2>5. QED
    BY <1>c, <2>3, <2>4 DEF Moves
<1>8. CASE UNCHANGED rotationVars
  BY <1>b, <1>8 DEF rotationVars
<1>9. QED
  BY <1>b, <1>1, <1>2, <1>3, <1>4, <1>5, <1>6, <1>7, <1>8 DEF RotationNext

--------------------------------------------------------------------------------
(* Type correctness. *)

\* The first state is well typed.
LEMMA TypeInit == RotationInit => RotationTypeOK
<1> SUFFICES ASSUME RotationInit
             PROVE  RotationTypeOK
  OBVIOUS
<1>1. NoSigner \in SignerType /\ NoRotation \in RotType /\ NoRotation.pc = "idle"
  BY Bounds DEF NoSigner, NoRotation, SignerType, RotType
<1>2. keyRows \subseteq RowType
  BY Bounds DEF RotationInit, RowType
<1>3. trail \in Seq(EntryType)
  BY Bounds DEF RotationInit, EntryType
<1>4. QED
  BY <1>1, <1>2, <1>3, Bounds DEF RotationInit, RotationTypeOK, SignerType, RotType, RowType, EntryType

\* Entries are written by instances that are up, under an epoch that is.
LEMMA EntryIsOne ==
    ASSUME RotationTypeOK, RoundInv, NEW i \in Rotators, CanAppend(i),
           NEW action \in {"other", "rotated", "aborted"}
    PROVE  Entry(i, action) \in EntryType
<1>1. signer[i].epoch \in 0..MaxKeyEpoch /\ signer[i].epoch >= 1
  BY DEF CanAppend, RoundInv, Round, RotationTypeOK
<1>2. QED
  BY <1>1, Bounds DEF Entry, EntryType

\* Every step appends at most one entry to the chain, and never a marker.
LEMMA TrailMoves ==
    ASSUME RotationTypeOK, RoundInv, [RotationNext]_rotationVars
    PROVE  \/ trail' = trail
           \/ \E e \in EntryType : e.action # "marker" /\ trail' = Append(trail, e)
<1>1. ASSUME NEW i \in Rotators, NEW action \in {"other", "rotated", "aborted"},
             CanAppend(i), trail' = Append(trail, Entry(i, action))
      PROVE  \E e \in EntryType : e.action # "marker" /\ trail' = Append(trail, e)
  <2>1. Entry(i, action) \in EntryType /\ Entry(i, action).action # "marker"
    BY <1>1, EntryIsOne DEF Entry
  <2>2. QED
    BY <1>1, <2>1
<1>2. ASSUME NEW i \in Rotators, AppendOther(i) \/ CommitRotation(i) \/ AnswerAbort(i)
      PROVE  \/ trail' = trail
             \/ \E e \in EntryType : e.action # "marker" /\ trail' = Append(trail, e)
  BY <1>1, <1>2 DEF AppendOther, CommitRotation, AnswerAbort
<1>3. ASSUME NEW i \in Rotators,
             \/ Boot(i) \/ Halt(i) \/ TakeRole(i) \/ EnterRotation(i) \/ ReadCurrent(i)
             \/ AllocateKey(i) \/ SelfTest(i) \/ SwapSigner(i) \/ FailRotation(i) \/ RaiseAbort(i)
      PROVE  trail' = trail
  BY <1>3 DEF Boot, Halt, TakeRole, EnterRotation, ReadCurrent, AllocateKey, SelfTest, SwapSigner,
     FailRotation, RaiseAbort
<1>4. QED
  BY <1>2, <1>3 DEF RotationNext, rotationVars

\* The signer of an instance stays, or is set up, or lost, or swapped to the key of its round.
LEMMA SignerMoves ==
    ASSUME RotationTypeOK, RoundInv, [RotationNext]_rotationVars
    PROVE  /\ signer' \in [Rotators -> SignerType]
           /\ \A i \in Rotators :
                 \/ signer'[i] = signer[i]
                 \/ signer'[i].epoch = 1
                 \/ signer'[i] = NoSigner
                 \/ /\ rot[i].pc = "swap"
                    /\ signer'[i].epoch = rot[i].new /\ signer'[i].key = Key(i, rot[i].new)
                    /\ rot[i].new >= 1
<1>a. /\ signer \in [Rotators -> SignerType] /\ NoSigner \in SignerType
  BY Bounds DEF RotationTypeOK, SignerType, NoSigner
<1>1. ASSUME NEW i \in Rotators, Boot(i)
      PROVE  signer' = [signer EXCEPT ![i] = [key |-> Key(i, 1), epoch |-> 1]]
             /\ [key |-> Key(i, 1), epoch |-> 1] \in SignerType
  BY <1>1, Bounds DEF Boot, BootSigner, SignerType
<1>2. ASSUME NEW i \in Rotators, Halt(i)
      PROVE  signer' = [signer EXCEPT ![i] = NoSigner]
  BY <1>2 DEF Halt
<1>3. ASSUME NEW i \in Rotators, SwapSigner(i)
      PROVE  /\ signer' = [signer EXCEPT ![i] = [key |-> Key(i, rot[i].new), epoch |-> rot[i].new]]
             /\ [key |-> Key(i, rot[i].new), epoch |-> rot[i].new] \in SignerType
             /\ rot[i].pc = "swap" /\ rot[i].new >= 1
  <2>1. rot[i].pc = "swap" /\ rot[i] \in RotType
    BY <1>3 DEF SwapSigner, RotationTypeOK, RotType
  <2>2. rot[i].new = rot[i].cur + 1 /\ rot[i].cur >= 1
    BY <2>1 DEF RotationTypeOK, RoundInv, Round
  <2>3. rot[i].new \in 1..MaxKeyEpoch
    BY <2>1, <2>2, Bounds DEF RotType
  <2>4. QED
    BY <1>3, <2>1, <2>3, Bounds DEF SwapSigner, SignerType
<1>4. ASSUME NEW i \in Rotators,
             \/ TakeRole(i) \/ AppendOther(i) \/ EnterRotation(i) \/ ReadCurrent(i)
             \/ AllocateKey(i) \/ SelfTest(i) \/ CommitRotation(i) \/ FailRotation(i)
             \/ RaiseAbort(i) \/ AnswerAbort(i)
      PROVE  signer' = signer
  BY <1>4 DEF TakeRole, AppendOther, EnterRotation, ReadCurrent, AllocateKey, SelfTest,
     CommitRotation, FailRotation, RaiseAbort, AnswerAbort
<1>5. ASSUME NEW i \in Rotators, NEW next \in SignerType,
             signer' = [signer EXCEPT ![i] = next]
      PROVE  /\ signer' \in [Rotators -> SignerType]
             /\ signer'[i] = next
             /\ \A o \in Rotators \ {i} : signer'[o] = signer[o]
  BY <1>a, <1>5
<1>6. CASE \E i \in Rotators : Boot(i)
  <2>1. PICK i \in Rotators : Boot(i)
    BY <1>6
  <2> DEFINE next == [key |-> Key(i, 1), epoch |-> 1]
  <2>2. next \in SignerType /\ signer' = [signer EXCEPT ![i] = next] /\ next.epoch = 1
    BY <1>1, <2>1
  <2> HIDE DEF next
  <2>3. /\ signer' \in [Rotators -> SignerType]
        /\ signer'[i] = next
        /\ \A o \in Rotators \ {i} : signer'[o] = signer[o]
    BY <1>5, <2>2
  <2>4. QED
    BY <2>2, <2>3
<1>7. CASE \E i \in Rotators : Halt(i)
  BY <1>a, <1>2, <1>5, <1>7
<1>8. CASE \E i \in Rotators : SwapSigner(i)
  <2>1. PICK i \in Rotators : SwapSigner(i)
    BY <1>8
  <2>2. /\ signer' \in [Rotators -> SignerType]
        /\ signer'[i] = [key |-> Key(i, rot[i].new), epoch |-> rot[i].new]
        /\ \A o \in Rotators \ {i} : signer'[o] = signer[o]
    BY <1>3, <1>5, <2>1
  <2>3. signer'[i].epoch = rot[i].new /\ signer'[i].key = Key(i, rot[i].new)
    BY <2>2
  <2>4. QED
    BY <1>3, <2>1, <2>2, <2>3
<1>9. CASE UNCHANGED signer
  BY <1>a, <1>9
<1>10. QED
  BY <1>4, <1>6, <1>7, <1>8, <1>9 DEF RotationNext, rotationVars

\* Every step keeps the types.
LEMMA TypeNext ==
    RotationTypeOK /\ RowsInv /\ RoundInv /\ [RotationNext]_rotationVars => RotationTypeOK'
<1> SUFFICES ASSUME RotationTypeOK, RowsInv, RoundInv, [RotationNext]_rotationVars
             PROVE  RotationTypeOK'
  OBVIOUS
<1>1. keyRows' \subseteq RowType
  <2>1. keyRows \subseteq RowType
    BY DEF RotationTypeOK, RowType
  <2>2. ASSUME NEW i \in Rotators, CommitRotation(i)
        PROVE  keyRows' \subseteq RowType
    <3>1. [epoch |-> rot[i].new, key |-> Key(i, rot[i].new), revoked |-> FALSE] \in RowType
      BY <2>2, CommitAdds, Bounds DEF RowType
    <3>2. ASSUME NEW r \in keyRows
          PROVE  [r EXCEPT !.revoked = @ \/ r.epoch = rot[i].cur] \in RowType
      BY <2>1 DEF RowType
    <3>3. Revoke(keyRows, rot[i].cur) \subseteq RowType
      BY <3>2 DEF Revoke
    <3>4. QED
      BY <2>2, <3>1, <3>3, CommitAdds
  <2>3. QED
    BY <2>1, <2>2, RowsKept DEF RotationNext, rotationVars
<1>2. signer' \in [Rotators -> SignerType]
  BY SignerMoves
<1>3. /\ rot' \in [Rotators -> RotType]
      /\ \A i \in Rotators : rot'[i].pc \notin {"idle", "read"} => rot'[i].new = rot'[i].cur + 1
  <2>1. rot' \in [Rotators -> RotType] /\ \A i \in Rotators : Moves(i)
    BY RoundMoves
  <2>2. ASSUME NEW i \in Rotators, rot'[i].pc \notin {"idle", "read"}
        PROVE  rot'[i].new = rot'[i].cur + 1
    <3>1. rot[i].pc \notin {"idle", "read"} => rot[i].new = rot[i].cur + 1
      BY DEF RotationTypeOK
    <3>2. Stays(i) \/ Reads(i) \/ Passes(i) \/ Commits(i) \/ Aborts(i)
      BY <2>1, <2>2 DEF Moves, Ends, Enters, NoRotation
    <3>3. QED
      BY <2>2, <3>1, <3>2 DEF Stays, Reads, Passes, Commits, Aborts, SameRound
  <2>3. QED
    BY <2>1, <2>2
<1>4. abortFlag' \in [Rotators -> BOOLEAN] /\ aborting' \in [Rotators -> BOOLEAN]
      /\ ruling' \subseteq Rotators /\ boots' \in 0..MaxBoots
  <2>1. abortFlag \in [Rotators -> BOOLEAN] /\ aborting \in [Rotators -> BOOLEAN]
        /\ ruling \subseteq Rotators /\ boots \in 0..MaxBoots
    BY DEF RotationTypeOK
  <2>2. ASSUME NEW i \in Rotators, Boot(i) \/ Halt(i) \/ TakeRole(i) \/ AppendOther(i)
        PROVE  abortFlag' \in [Rotators -> BOOLEAN] /\ aborting' \in [Rotators -> BOOLEAN]
               /\ ruling' \subseteq Rotators /\ boots' \in 0..MaxBoots
    <3>1. CASE Boot(i)
      BY <2>1, <3>1, Bounds DEF Boot
    <3>2. CASE Halt(i)
      BY <2>1, <3>2 DEF Halt
    <3>3. CASE TakeRole(i) \/ AppendOther(i)
      BY <2>1, <3>3 DEF TakeRole, AppendOther
    <3>4. QED
      BY <2>2, <3>1, <3>2, <3>3
  <2>3. ASSUME NEW i \in Rotators, EnterRotation(i) \/ ReadCurrent(i) \/ AllocateKey(i) \/ SelfTest(i)
        PROVE  abortFlag' \in [Rotators -> BOOLEAN] /\ aborting' \in [Rotators -> BOOLEAN]
               /\ ruling' \subseteq Rotators /\ boots' \in 0..MaxBoots
    BY <2>1, <2>3 DEF EnterRotation, ReadCurrent, AllocateKey, SelfTest, Poll
  <2>4. ASSUME NEW i \in Rotators,
               CommitRotation(i) \/ SwapSigner(i) \/ FailRotation(i) \/ RaiseAbort(i) \/ AnswerAbort(i)
        PROVE  abortFlag' \in [Rotators -> BOOLEAN] /\ aborting' \in [Rotators -> BOOLEAN]
               /\ ruling' \subseteq Rotators /\ boots' \in 0..MaxBoots
    BY <2>1, <2>4 DEF CommitRotation, SwapSigner, FailRotation, RaiseAbort, AnswerAbort
  <2>5. QED
    BY <2>1, <2>2, <2>3, <2>4 DEF RotationNext, rotationVars
<1>5. trail' \in Seq(EntryType)
  <2>1. trail \in Seq(EntryType)
    BY DEF RotationTypeOK, EntryType
  <2>2. QED
    BY <2>1, TrailMoves, AppendProperties
<1>6. QED
  BY <1>1, <1>2, <1>3, <1>4, <1>5 DEF RotationTypeOK, RowType, SignerType, RotType, EntryType

--------------------------------------------------------------------------------
(* Rounds, aborts and the marker. *)

\* Nobody is up at the start, and the chain has its marker.
LEMMA RoundInit == RotationInit => RoundInv /\ StopInv /\ MarkerInv
<1> SUFFICES ASSUME RotationInit
             PROVE  RoundInv /\ StopInv /\ MarkerInv
  OBVIOUS
<1>1. ASSUME NEW i \in Rotators
      PROVE  Round(i) /\ rot[i].pc = "idle"
  BY DEF RotationInit, Round, Up, NoSigner, NoRotation
<1>2. RoundInv /\ StopInv
  BY <1>1 DEF RoundInv, StopInv
<1>3. MarkerInv
  BY DEF RotationInit, MarkerInv
<1>4. QED
  BY <1>2, <1>3

\* An instance that is down has no round, no role and no abort to answer.
LEMMA DownNext ==
    ASSUME RotationTypeOK, RoundInv, [RotationNext]_rotationVars, NEW o \in Rotators, ~Up(o)'
    PROVE  rot'[o] = NoRotation /\ o \notin ruling' /\ ~aborting'[o]
<1>a. /\ rot \in [Rotators -> RotType] /\ signer \in [Rotators -> SignerType]
      /\ abortFlag \in [Rotators -> BOOLEAN] /\ aborting \in [Rotators -> BOOLEAN]
  BY DEF RotationTypeOK, RotType, SignerType
<1>b. ~Up(o) => rot[o] = NoRotation /\ o \notin ruling /\ ~aborting[o]
  BY DEF RoundInv, Round
<1>c. NoRotation.pc = "idle"
  BY DEF NoRotation
<1>1. ASSUME NEW i \in Rotators, Boot(i)
      PROVE  rot'[o] = NoRotation /\ o \notin ruling' /\ ~aborting'[o]
  BY <1>a, <1>b, <1>1 DEF Boot, Up
<1>2. ASSUME NEW i \in Rotators, Halt(i)
      PROVE  rot'[o] = NoRotation /\ o \notin ruling' /\ ~aborting'[o]
  BY <1>a, <1>b, <1>2 DEF Halt, Up
<1>3. ASSUME NEW i \in Rotators, SwapSigner(i)
      PROVE  rot'[o] = NoRotation /\ o \notin ruling' /\ ~aborting'[o]
  <2>1. /\ signer' = [signer EXCEPT ![i] = [key |-> Key(i, rot[i].new), epoch |-> rot[i].new]]
        /\ rot' = [rot EXCEPT ![i] = NoRotation]
        /\ ruling' = ruling /\ aborting' = aborting
    BY <1>3 DEF SwapSigner
  <2>2. rot[i].pc = "swap"
    BY <1>3 DEF SwapSigner
  <2>3. rot[i].new >= 1
    <3>1. rot[i].new = rot[i].cur + 1 /\ rot[i].cur >= 1
      BY <2>2 DEF RotationTypeOK, RoundInv, Round
    <3>2. rot[i].cur \in Nat
      BY <1>a, Bounds DEF RotType
    <3>3. QED
      BY <3>1, <3>2
  <2>4. CASE o = i
    <3>1. signer'[o].epoch >= 1
      BY <1>a, <2>1, <2>3, <2>4
    <3>2. QED
      BY <3>1 DEF Up, NoSigner
  <2>5. CASE o # i
    <3>1. ~Up(o) /\ rot'[o] = rot[o]
      BY <1>a, <2>1, <2>5 DEF Up
    <3>2. QED
      BY <1>b, <2>1, <3>1
  <2>6. QED
    BY <2>4, <2>5
<1>4. ASSUME NEW i \in Rotators, signer' = signer, ~Up(o),
             \A u \in Rotators \ {i} : rot'[u] = rot[u] /\ aborting'[u] = aborting[u],
             ruling' \subseteq ruling \cup {i},
             Up(i)
      PROVE  rot'[o] = NoRotation /\ o \notin ruling' /\ ~aborting'[o]
  BY <1>b, <1>4
<1>5. ASSUME NEW i \in Rotators, TakeRole(i) \/ AppendOther(i)
      PROVE  rot'[o] = NoRotation /\ o \notin ruling' /\ ~aborting'[o]
  <2>1. Up(i) /\ signer' = signer /\ rot' = rot /\ aborting' = aborting
        /\ ruling' \subseteq ruling \cup {i}
    BY <1>5 DEF TakeRole, AppendOther, CanAppend
  <2>2. QED
    BY <1>4, <2>1 DEF Up
<1>6. ASSUME NEW i \in Rotators,
             \/ EnterRotation(i) \/ ReadCurrent(i) \/ AllocateKey(i) \/ SelfTest(i)
             \/ CommitRotation(i) \/ FailRotation(i)
      PROVE  rot'[o] = NoRotation /\ o \notin ruling' /\ ~aborting'[o]
  <2>1. Up(i)
    <3>1. CASE EnterRotation(i)
      BY <3>1 DEF EnterRotation
    <3>2. CASE rot[i].pc # "idle"
      BY <1>c, <3>2 DEF RoundInv, Round
    <3>3. QED
      BY <1>6, <3>1, <3>2 DEF ReadCurrent, AllocateKey, SelfTest, CommitRotation, FailRotation
  <2>2. signer' = signer /\ aborting' = aborting /\ ruling' = ruling
    BY <1>6 DEF EnterRotation, ReadCurrent, AllocateKey, SelfTest, CommitRotation, FailRotation
  <2>3. \A u \in Rotators \ {i} : rot'[u] = rot[u]
    BY <1>a, <1>6 DEF EnterRotation, ReadCurrent, AllocateKey, SelfTest, CommitRotation,
       FailRotation, Poll
  <2>4. QED
    BY <1>4, <2>1, <2>2, <2>3 DEF Up
<1>7. ASSUME NEW i \in Rotators, RaiseAbort(i) \/ AnswerAbort(i)
      PROVE  rot'[o] = NoRotation /\ o \notin ruling' /\ ~aborting'[o]
  <2>1. Up(i)
    BY <1>7 DEF RaiseAbort, AnswerAbort, RoundInv, Round
  <2>2. signer' = signer /\ ruling' = ruling
    BY <1>7 DEF RaiseAbort, AnswerAbort
  <2>3. \A u \in Rotators \ {i} : rot'[u] = rot[u] /\ aborting'[u] = aborting[u]
    BY <1>a, <1>7 DEF RaiseAbort, AnswerAbort
  <2>4. QED
    BY <1>4, <2>1, <2>2, <2>3 DEF Up
<1>8. CASE UNCHANGED rotationVars
  BY <1>b, <1>8 DEF rotationVars, Up
<1>9. QED
  BY <1>1, <1>2, <1>3, <1>5, <1>6, <1>7, <1>8 DEF RotationNext

\* What a round has read stays issued, and what it signs with registered.
LEMMA RoundNext ==
    RotationTypeOK /\ RowsInv /\ RoundInv /\ [RotationNext]_rotationVars => RoundInv'
<1> SUFFICES ASSUME RotationTypeOK, RowsInv, RoundInv, [RotationNext]_rotationVars,
                    NEW i \in Rotators
             PROVE  Round(i)'
  BY DEF RoundInv
<1>a. /\ Round(i) /\ rot[i] \in RotType
      /\ NewestEpoch \in Nat /\ NewestEpoch >= 1 /\ NewestEpoch <= NewestEpoch'
      /\ \A epoch, key : Registered(epoch, key) => Registered(epoch, key)'
  BY RowsNext, Bounds DEF RoundInv, RowsInv, NewestEpoch, RotationTypeOK, RotType
<1>b. NewestEpoch' \in Nat
  BY RowsNext, Bounds DEF RowsInv, NewestEpoch
<1>c. rot[i].cur \in Nat
  BY <1>a, Bounds DEF RotType
<1>1. /\ (Up(i) => signer[i].epoch >= 1)'
      /\ (signer[i].epoch > 1 => Registered(signer[i].epoch, signer[i].key))'
  <2>1. CASE signer'[i] = signer[i]
    BY <1>a, <2>1 DEF Round, Up
  <2>2. CASE signer'[i].epoch = 1
    BY <2>2
  <2>3. CASE signer'[i] = NoSigner
    BY <2>3 DEF Up, NoSigner
  <2>4. CASE /\ rot[i].pc = "swap"
             /\ signer'[i].epoch = rot[i].new /\ signer'[i].key = Key(i, rot[i].new)
             /\ rot[i].new >= 1
    BY <1>a, <2>4 DEF Round
  <2>5. QED
    BY <2>1, <2>2, <2>3, <2>4, SignerMoves
<1>2. (~Up(i) => rot[i] = NoRotation /\ i \notin ruling /\ ~aborting[i])'
  BY DownNext
<1>3. Moves(i)
  BY RoundMoves
<1>4. (rot[i].pc \notin {"idle", "read"} => rot[i].cur >= 1)'
  <2>1. CASE Ends(i) \/ Enters(i)
    BY <2>1 DEF Ends, Enters, NoRotation
  <2>2. CASE Reads(i)
    BY <1>a, <2>2 DEF Reads
  <2>3. CASE Stays(i) \/ Passes(i) \/ Commits(i) \/ Aborts(i)
    BY <1>a, <2>3 DEF Stays, Passes, Commits, Aborts, SameRound, Round
  <2>4. QED
    BY <1>3, <2>1, <2>2, <2>3 DEF Moves
<1>5. (rot[i].pc \in {"allocate", "test", "commit"} => rot[i].cur <= Cardinality(keyRows))'
  <2>1. rot[i].pc \in {"allocate", "test", "commit"} => rot[i].cur <= NewestEpoch'
    BY <1>a, <1>b, <1>c DEF Round, NewestEpoch
  <2>2. CASE Ends(i) \/ Enters(i)
    BY <2>2 DEF Ends, Enters, NoRotation
  <2>3. CASE Reads(i)
    BY <1>a, <2>3 DEF Reads, NewestEpoch
  <2>4. CASE Stays(i) \/ Passes(i) \/ Commits(i) \/ Aborts(i)
    BY <2>1, <2>4 DEF Stays, Passes, Commits, Aborts, SameRound, NewestEpoch
  <2>5. QED
    BY <1>3, <2>2, <2>3, <2>4 DEF Moves
<1>6. (rot[i].pc = "swap" => Registered(rot[i].new, Key(i, rot[i].new)))'
  <2>1. CASE Ends(i) \/ Enters(i) \/ Reads(i) \/ Passes(i)
    BY <2>1 DEF Ends, Enters, Reads, Passes, NoRotation
  <2>2. CASE Commits(i)
    BY <2>2 DEF Commits
  <2>3. CASE Stays(i) \/ Aborts(i)
    <3>1. rot'[i].pc = rot[i].pc /\ rot'[i].new = rot[i].new
      BY <2>3 DEF Stays, Aborts, SameRound
    <3>2. rot[i].pc = "swap" => Registered(rot[i].new, Key(i, rot[i].new))'
      BY <1>a, <3>1 DEF Round, Key, Registered
    <3>3. QED
      BY <3>1, <3>2
  <2>4. QED
    BY <1>3, <2>1, <2>2, <2>3 DEF Moves
<1>7. QED
  BY <1>1, <1>2, <1>4, <1>5, <1>6 DEF Round

\* An abort that may still stop a round keeps its flag raised, and no round passes it.
LEMMA StopNext ==
    RotationTypeOK /\ RowsInv /\ RoundInv /\ StopInv /\ [RotationNext]_rotationVars => StopInv'
<1> SUFFICES ASSUME RotationTypeOK, RowsInv, RoundInv, StopInv, [RotationNext]_rotationVars,
                    NEW i \in Rotators
             PROVE  /\ (rot[i].pc \in {"read", "allocate", "test"} /\ rot[i].stop => abortFlag[i])'
                    /\ (rot[i].pc \in {"commit", "swap"} => ~rot[i].stop)'
  BY DEF StopInv
<1>1. Moves(i)
  BY RoundMoves
<1>2. /\ rot[i].pc \in {"read", "allocate", "test"} /\ rot[i].stop => abortFlag[i]
      /\ rot[i].pc \in {"commit", "swap"} => ~rot[i].stop
  BY DEF StopInv
<1>3. CASE Stays(i)
  BY <1>2, <1>3 DEF Stays
<1>4. CASE Ends(i) \/ Enters(i)
  BY <1>4 DEF Ends, Enters, NoRotation
<1>5. CASE Reads(i)
  BY <1>2, <1>5 DEF Reads
<1>6. CASE Passes(i)
  BY <1>2, <1>6 DEF Passes
<1>7. CASE Commits(i)
  BY <1>2, <1>7 DEF Commits
<1>8. CASE Aborts(i)
  BY <1>8 DEF Aborts
<1>9. QED
  BY <1>1, <1>3, <1>4, <1>5, <1>6, <1>7, <1>8 DEF Moves

\* No second marker is written.
LEMMA MarkerNext ==
    RotationTypeOK /\ RoundInv /\ MarkerInv /\ [RotationNext]_rotationVars => MarkerInv'
<1> SUFFICES ASSUME RotationTypeOK, RoundInv, MarkerInv, [RotationNext]_rotationVars
             PROVE  MarkerInv'
  OBVIOUS
<1>1. trail \in Seq(EntryType) /\ Len(trail) \in Nat /\ DOMAIN trail = 1..Len(trail)
  BY LenProperties DEF RotationTypeOK, EntryType
<1>2. CASE trail' = trail
  BY <1>2 DEF MarkerInv
<1>3. ASSUME NEW e \in EntryType, e.action # "marker", trail' = Append(trail, e)
      PROVE  MarkerInv'
  <2>1. /\ trail' \in Seq(EntryType) /\ Len(trail') = Len(trail) + 1
        /\ \A k \in 1..Len(trail) : trail'[k] = trail[k]
        /\ trail'[Len(trail) + 1] = e
    BY <1>1, <1>3, AppendProperties
  <2>2. DOMAIN trail' = 1..(Len(trail) + 1)
    BY <2>1, LenProperties
  <2>3. Len(trail) >= 2 /\ \A k \in 1..Len(trail) : trail[k].action = "marker" <=> k = 2
    BY <1>1 DEF MarkerInv
  <2>4. ASSUME NEW k \in 1..(Len(trail) + 1)
        PROVE  trail'[k].action = "marker" <=> k = 2
    <3>1. CASE k \in 1..Len(trail)
      BY <2>1, <2>3, <3>1
    <3>2. CASE k = Len(trail) + 1
      BY <1>1, <1>3, <2>1, <2>3, <3>2
    <3>3. QED
      BY <1>1, <3>1, <3>2
  <2>5. Len(trail)' >= 2
    BY <1>1, <2>1, <2>3
  <2>6. QED
    BY <2>2, <2>4, <2>5 DEF MarkerInv
<1>4. QED
  BY <1>2, <1>3, TrailMoves

--------------------------------------------------------------------------------
(* Bundles. *)

\* The server and a bundle of version 1 or 3 agree with how the entries were hashed just
\* where they know of the marker.
LEMMA BundlesJudged ==
    ASSUME RotationTypeOK, MarkerInv
    PROVE  ServerOutlivesV1
<1>1. trail \in Seq(EntryType) /\ Len(trail) \in Nat /\ DOMAIN trail = 1..Len(trail)
  BY LenProperties DEF RotationTypeOK, EntryType
<1>2. MarkerSeq = 2
  BY <1>1 DEF MarkerInv, MarkerSeq
<1> SUFFICES ASSUME NEW i \in Signing, NEW r \in Ranges
             PROVE  /\ ServerVerifies(r[1], r[2])
                    /\ ToolVerifies(Handed(i, "v1", r[1], r[2])) <=> r[2] <= MarkerSeq
                    /\ HashesOK(BundleV3(i, r[1], r[2])) <=> (r[2] <= MarkerSeq \/ r[1] <= MarkerSeq)
  BY DEF ServerOutlivesV1
<1> DEFINE from == r[1]
           to == r[2]
<1>3. from \in Nat /\ to \in Nat /\ 1 <= from /\ from <= to
  BY <1>1 DEF Ranges
<1> HIDE DEF from, to
<1>4. ServerVerifies(from, to)
  BY <1>2 DEF ServerVerifies, ServerPicks, HashedWith
<1>5. ToolVerifies(Handed(i, "v1", from, to)) <=> to <= 2
  <2> DEFINE b == Handed(i, "v1", from, to)
  <2>1. b = [version |-> "v1", from |-> from, to |-> to, epochs |-> {}, key |-> signer[i].key,
             marker |-> 0]
    BY DEF Handed, BundleV1
  <2>2. b.version = "v1" /\ b.from = from /\ b.to = to
    BY <2>1
  <2> HIDE DEF b
  <2>3. EpochMapOK(b) /\ SignatureOK(b) /\ EpochTransitionsOK(b) /\ MarkerOK(b)
    BY <2>2 DEF EpochMapOK, SignatureOK, EpochTransitionsOK, MarkerOK
  <2>4. HashesOK(b) <=> \A k \in from..to : HashedWith(k) = "v1"
    BY <2>2 DEF HashesOK, ToolPicks
  <2>5. (\A k \in from..to : HashedWith(k) = "v1") <=> to <= 2
    <3>1. to \in from..to
      BY <1>3
    <3>2. \A k \in from..to : HashedWith(k) = "v1" <=> k <= 2
      BY <1>2, <1>3 DEF HashedWith
    <3>3. QED
      BY <1>3, <3>1, <3>2
  <2>6. ToolVerifies(b) <=> to <= 2
    BY <2>3, <2>4, <2>5 DEF ToolVerifies
  <2>7. QED
    BY <2>6 DEF b
<1>6. HashesOK(BundleV3(i, from, to)) <=> (to <= 2 \/ from <= 2)
  <2> DEFINE b == BundleV3(i, from, to)
             m == MarkerIn(from, to)
  <2>1. b = [[[version |-> "v1", from |-> from, to |-> to, epochs |-> {}, key |-> signer[i].key,
               marker |-> 0] EXCEPT !.version = "v2", !.epochs = keyRows]
                EXCEPT !.version = "v3", !.marker = m]
    BY DEF BundleV3, BundleV2, BundleV1
  <2> HIDE DEF b, m
  <2>2. b.version = "v3" /\ b.from = from /\ b.to = to /\ b.marker = m
    BY <2>1
  <2>3. m = IF from <= 2 /\ 2 <= to THEN 2 ELSE 0
    BY <1>2, <1>3 DEF MarkerIn, m
  <2>4. HashesOK(b) <=> \A k \in from..to :
                           (m > 0 /\ k > m) <=> k > 2
    <3>1. \A k \in from..to : ToolPicks(b, k) = (IF m > 0 /\ k > m THEN "v3" ELSE "v1")
      BY <2>2 DEF ToolPicks
    <3>2. \A k \in from..to : HashedWith(k) = (IF k > 2 THEN "v3" ELSE "v1")
      BY <1>2 DEF HashedWith
    <3>3. QED
      BY <2>2, <3>1, <3>2 DEF HashesOK
  <2>5. (\A k \in from..to : (m > 0 /\ k > m) <=> k > 2) <=> (to <= 2 \/ from <= 2)
    <3>1. CASE from <= 2 /\ 2 <= to
      BY <1>3, <2>3, <3>1
    <3>2. CASE to < 2
      BY <1>3, <2>3, <3>2
    <3>3. CASE from > 2
      <4>1. from \in from..to /\ m = 0
        BY <1>3, <2>3, <3>3
      <4>2. QED
        BY <1>3, <3>3, <4>1
    <3>4. QED
      BY <1>3, <3>1, <3>2, <3>3
  <2>6. HashesOK(b) <=> (to <= 2 \/ from <= 2)
    BY <2>4, <2>5
  <2>7. QED
    BY <2>6 DEF b
<1>7. QED
  BY <1>2, <1>4, <1>5, <1>6 DEF from, to

--------------------------------------------------------------------------------
(* The theorem. *)

\* The invariant is inductive.
LEMMA IInvInit == RotationInit => IInv
  BY TypeInit, RowsInit, RoundInit DEF IInv

LEMMA IInvNext == IInv /\ [RotationNext]_rotationVars => IInv'
  BY TypeNext, RowsNext, RoundNext, StopNext, MarkerNext DEF IInv

LEMMA IInvAlways == RotationSpec => []IInv
  BY IInvInit, IInvNext, PTL DEF RotationSpec

\* However rotations, aborts, failures and crashes of any number of instances interleave, one
\* key is in force and it is the newest, nobody signs under an epoch that was not issued to its
\* key, an abort raised in time stops its round, and the server and the tool judge the hashes
\* of any range of the chain as the marker tells them.
THEOREM KeyHistoryCorrect == RotationSpec => []KeyHistoryIsSound
<1>1. ASSUME IInv
      PROVE  KeyHistoryIsSound
  <2>1. OneKeyInForce
    BY <1>1 DEF IInv, RowsInv, OneKeyInForce
  <2>2. SignerIsRegistered
    BY <1>1 DEF IInv, RoundInv, Round, Registered, SignerIsRegistered
  <2>3. AbortStopsRound
    BY <1>1 DEF IInv, StopInv, AbortStopsRound
  <2>4. ServerOutlivesV1
    BY <1>1, BundlesJudged DEF IInv
  <2>5. QED
    BY <1>1, <2>1, <2>2, <2>3, <2>4 DEF IInv, KeyHistoryIsSound
<1>2. IInv => KeyHistoryIsSound
  BY <1>1
<1>3. QED
  BY <1>2, IInvAlways, PTL

--------------------------------------------------------------------------------
(* Segments: the inductive invariant. *)

ArchiveType == [entries : SUBSET Nat, prev : SUBSET Nat, attempt : Nat]
SegmentType == [first : Nat, last : Nat, count : Nat, hash : SUBSET Nat,
                prev : SUBSET Nat, sha : ArchiveType]
RotatingType == [pc : {"built", "put"}, number : Nat, prev : SUBSET Nat, entries : SUBSET Nat]

RowsOK ==
    /\ rotDb \in {"sqlite", "postgres"}
    /\ headSeq \in Nat /\ headSeq <= MaxSeq /\ aborts \in Nat
    /\ segments \in Seq(SegmentType) /\ aged \in 0..Len(segments)
    /\ archive \in [Numbers -> ArchiveType]
    /\ rotating \in {NotRotating} \cup RotatingType

\* One segment: where it begins and ends, what it holds, what its file is.
Segment(n) ==
    /\ segments[n].first <= segments[n].last /\ segments[n].last < headSeq /\ n <= segments[n].last
    /\ segments[n].first = IF n = 1 THEN 1 ELSE segments[n - 1].last + 1
    /\ segments[n].hash = segments[n].first..segments[n].last
    /\ segments[n].count = segments[n].last - segments[n].first + 1
    /\ segments[n].sha.entries = segments[n].hash /\ segments[n].sha.prev = PrevHash(n)
    /\ archive[n] = segments[n].sha
SegmentInv == \A n \in 1..Len(segments) : Segment(n)

\* Segments follow one another, and cover all entries up to the last of the latest.
OrderInv == \A m, n \in 1..Len(segments) : m < n => segments[m].last < segments[n].first
CoverInv == \A s \in 1..(NextFrom - 1) : \E n \in 1..Len(segments) : s \in segments[n].hash

\* The database holds the entries behind one of the segments that may be collected.
Cut(c) ==
    /\ hot = (c + 1)..headSeq
    /\ c = 0 \/ \E n \in 1..aged : c = segments[n].last
HotInv == \E c \in Nat : Cut(c)

\* A rotation takes what came since the latest segment, up to some entry, and its file,
\* once it is there, is of this attempt.
RotatingInv ==
    rotating # NotRotating =>
        /\ rotating.number = Len(segments) + 1
        /\ rotating.prev = PrevHash(Len(segments) + 1)
        /\ \E h \in Nat : NextFrom <= h /\ h <= headSeq /\ rotating.entries = NextFrom..h
        /\ rotating.pc = "put" => archive[rotating.number] = Body
        /\ rotDb = "sqlite" => headSeq < MaxSeq

SegmentsInv == RowsOK /\ SegmentInv /\ OrderInv /\ CoverInv /\ HotInv /\ RotatingInv

--------------------------------------------------------------------------------
(* What the invariant says of the numbers. *)

LEMMA Counts ==
    ASSUME RowsOK
    PROVE  /\ Len(segments) \in Nat /\ DOMAIN segments = 1..Len(segments)
           /\ headSeq \in Nat /\ aged \in Nat /\ aged <= Len(segments) /\ MaxSeq \in Nat
           /\ \A n \in 1..Len(segments) :
                 /\ segments[n] \in SegmentType
                 /\ segments[n].first \in Nat /\ segments[n].last \in Nat /\ segments[n].count \in Nat
           /\ segments = <<>> <=> Len(segments) = 0
<1>1. /\ Len(segments) \in Nat /\ DOMAIN segments = 1..Len(segments)
      /\ \A n \in 1..Len(segments) : segments[n] \in SegmentType
  BY LenProperties, ElementOfSeq DEF RowsOK
<1>2. segments = <<>> <=> Len(segments) = 0
  BY EmptySeq DEF RowsOK
<1>3. QED
  BY <1>1, <1>2, SegmentsAssumption DEF RowsOK, SegmentType

\* The next segment begins behind all others, and there is always an entry behind those.
LEMMA Next_From ==
    ASSUME RowsOK, SegmentInv, OrderInv
    PROVE  /\ NextFrom \in Nat /\ NextFrom >= 1 /\ NextFrom <= headSeq + 1
           /\ \A n \in 1..Len(segments) : segments[n].last < NextFrom
           /\ Len(segments) > 0 => /\ NextFrom = segments[Len(segments)].last + 1
                                   /\ NextFrom <= headSeq
           /\ Len(segments) = 0 => NextFrom = 1
           /\ Len(segments) + 1 <= NextFrom
<1>0. Len(segments) \in Nat /\ headSeq \in Nat
  BY Counts
<1>1. CASE Len(segments) = 0
  BY <1>0, <1>1, Counts DEF NextFrom
<1>2. CASE Len(segments) > 0
  <2> DEFINE L == Len(segments)
  <2>1. L \in 1..L /\ NextFrom = segments[L].last + 1
    BY <1>0, <1>2, Counts DEF NextFrom
  <2>2. segments[L].last \in Nat /\ segments[L].first \in Nat /\ segments[L].last < headSeq
        /\ L <= segments[L].last /\ segments[L].first <= segments[L].last
    BY <2>1, Counts DEF SegmentInv, Segment
  <2>3. ASSUME NEW n \in 1..L
        PROVE  segments[n].last < NextFrom
    <3>1. segments[n].last \in Nat
      BY <2>3, Counts
    <3>2. CASE n = L
      BY <2>1, <3>1, <3>2
    <3>3. CASE n < L
      BY <2>1, <2>2, <3>1, <3>3 DEF OrderInv
    <3>4. QED
      BY <1>0, <2>3, <3>2, <3>3
  <2>4. QED
    BY <1>0, <1>2, <2>1, <2>2, <2>3
<1>3. QED
  BY <1>0, <1>1, <1>2

\* What a collection has left begins behind a segment.
LEMMA CutBehind ==
    ASSUME RowsOK, SegmentInv, OrderInv, NEW c \in Nat, Cut(c)
    PROVE  /\ c < NextFrom /\ (c < headSeq \/ (headSeq = 0 /\ c = 0))
<1>1. CASE c = 0
  BY <1>1, Counts, Next_From
<1>2. ASSUME NEW n \in 1..aged, c = segments[n].last
      PROVE  c < NextFrom /\ c < headSeq
  <2>1. n \in 1..Len(segments)
    BY <1>2, Counts
  <2>2. QED
    BY <1>2, <2>1, Counts, Next_From DEF SegmentInv, Segment
<1>3. c = 0 \/ \E n \in 1..aged : c = segments[n].last
  BY DEF Cut
<1>4. QED
  BY <1>1, <1>2, <1>3

--------------------------------------------------------------------------------
(* What a step does. *)

Appends == /\ rotDb = "sqlite" => rotating = NotRotating
           /\ headSeq' = headSeq + 1 /\ headSeq < MaxSeq /\ hot' = hot \cup {headSeq + 1}
           /\ UNCHANGED <<rotDb, segments, archive, rotating, aged, aborts>>
Builds == /\ headSeq >= NextFrom /\ headSeq < MaxSeq
          /\ \E r \in RotatingType :
                /\ r.pc = "built" /\ r.number = Len(segments) + 1
                /\ r.prev = PrevHash(Len(segments) + 1) /\ r.entries = NextFrom..headSeq
                /\ rotating' = r
          /\ UNCHANGED <<rotDb, hot, headSeq, segments, archive, aged, aborts>>
Puts == /\ rotating # NotRotating /\ rotating.number \in Numbers /\ Body \in ArchiveType
        /\ archive' = [archive EXCEPT ![rotating.number] = Body]
        /\ rotating' \in RotatingType /\ rotating'.number = rotating.number
        /\ rotating'.prev = rotating.prev /\ rotating'.entries = rotating.entries
        /\ UNCHANGED <<rotDb, hot, headSeq, segments, aged, aborts>>
CommitsRow == /\ rotating # NotRotating /\ rotating.pc = "put" /\ headSeq < MaxSeq
           /\ \E row \in SegmentType :
                 /\ row.first = NextFrom /\ NextFrom <= row.last /\ row.last <= headSeq
                 /\ row.hash = row.first..row.last /\ row.count = row.last - row.first + 1
                 /\ row.prev = PrevHash(Len(segments) + 1) /\ row.sha = Body
                 /\ Body.entries = row.hash /\ Body.prev = row.prev
                 /\ segments' = Append(segments, row)
           /\ archive[Len(segments) + 1] = Body
           /\ headSeq' = headSeq + 1 /\ hot' = hot \cup {headSeq + 1}
           /\ rotating' = NotRotating
           /\ UNCHANGED <<rotDb, archive, aged, aborts>>
EndsRotation == rotating' = NotRotating /\ UNCHANGED <<rotDb, hot, headSeq, segments, archive, aged>>
        /\ aborts' \in Nat
Ages == aged' \in 0..Len(segments) /\ aged <= aged'
        /\ UNCHANGED <<rotDb, hot, headSeq, segments, archive, rotating, aborts>>
Collects == /\ rotDb = "sqlite" => rotating = NotRotating
            /\ aged > 0 /\ headSeq < MaxSeq /\ headSeq' = headSeq + 1
            /\ hot' = (hot \ (1..segments[aged].last)) \cup {headSeq + 1}
            /\ UNCHANGED <<rotDb, segments, archive, rotating, aged, aborts>>

\* A number that is there is there once, and the next one is in the backend's range.
LEMMA NumberFits ==
    ASSUME SegmentsInv, rotating # NotRotating
    PROVE  /\ rotating \in RotatingType /\ rotating.number = Len(segments) + 1
           /\ rotating.number \in Numbers /\ Body \in ArchiveType
<1>0. RowsOK /\ SegmentInv /\ OrderInv /\ RotatingInv
  BY DEF SegmentsInv
<1>1. rotating \in RotatingType /\ rotating.number = Len(segments) + 1
  BY <1>0 DEF RowsOK, RotatingInv
<1>2. PICK h \in Nat : NextFrom <= h /\ h <= headSeq
  BY <1>0 DEF RotatingInv
<1>3. rotating.number \in Numbers
  <2>1. /\ NextFrom \in Nat /\ Len(segments) \in Nat /\ Len(segments) + 1 <= NextFrom
        /\ headSeq \in Nat /\ headSeq <= MaxSeq /\ MaxSeq \in Nat
    BY <1>0, Counts, Next_From DEF RowsOK
  <2>2. QED
    BY <1>1, <1>2, <2>1 DEF Numbers
<1>4. Body \in ArchiveType
  BY <1>0, <1>1 DEF Body, ArchiveType, RotatingType, RowsOK
<1>5. QED
  BY <1>1, <1>3, <1>4

\* The least and the greatest entry of what a rotation took.
LEMMA Ends_Of ==
    ASSUME NEW a \in Nat, NEW h \in Nat, a <= h
    PROVE  Oldest(a..h) = a /\ Newest(a..h) = h /\ Cardinality(a..h) = h - a + 1
<1>1. Oldest(a..h) = a
  <2>1. a \in a..h /\ \A t \in a..h : a <= t
    OBVIOUS
  <2>2. \A s \in a..h : (\A t \in a..h : s <= t) => s = a
    OBVIOUS
  <2>3. QED
    BY <2>1, <2>2 DEF Oldest
<1>2. Newest(a..h) = h
  <2>1. h \in a..h /\ \A t \in a..h : h >= t
    OBVIOUS
  <2>2. \A s \in a..h : (\A t \in a..h : s >= t) => s = h
    OBVIOUS
  <2>3. QED
    BY <2>1, <2>2 DEF Newest
<1>3. Cardinality(a..h) = h - a + 1
  BY FS_Interval
<1>4. QED
  BY <1>1, <1>2, <1>3

\* A collection takes every entry up to the last of the segments that may be collected.
LEMMA Collected ==
    ASSUME SegmentsInv, aged > 0
    PROVE  UNION {DeletedBy(n) : n \in ArchivedBefore} = 1..segments[aged].last
<1>0. RowsOK /\ SegmentInv /\ OrderInv /\ CoverInv
  BY DEF SegmentsInv
<1>1. /\ aged \in 1..Len(segments) /\ segments[aged].last \in Nat
      /\ segments[aged].last < NextFrom /\ NextFrom \in Nat
  BY <1>0, Counts, Next_From
<1>2. ASSUME NEW n \in ArchivedBefore, NEW s \in DeletedBy(n)
      PROVE  s \in 1..segments[aged].last
  <2>1. n \in 1..Len(segments) /\ n <= aged /\ s \in segments[n].first..segments[n].last
    BY <1>0, <1>2, Counts DEF ArchivedBefore, DeletedBy
  <2>2. /\ segments[n].first \in Nat /\ segments[n].last \in Nat /\ segments[n].first >= 1
        /\ segments[aged].first \in Nat /\ segments[aged].first <= segments[aged].last
    <3>1. /\ segments[n].first \in Nat /\ segments[n].last \in Nat
          /\ segments[aged].first \in Nat /\ segments[aged].first <= segments[aged].last
      BY <1>0, <1>1, <2>1, Counts DEF SegmentInv, Segment
    <3>2. segments[n].first = IF n = 1 THEN 1 ELSE segments[n - 1].last + 1
      BY <1>0, <2>1 DEF SegmentInv, Segment
    <3>3. CASE n = 1
      BY <3>1, <3>2, <3>3
    <3>4. CASE n # 1
      <4>1. n - 1 \in 1..Len(segments)
        BY <2>1, <3>4, Counts, <1>0
      <4>2. segments[n - 1].last \in Nat
        BY <1>0, <4>1, Counts
      <4>3. QED
        BY <3>1, <3>2, <3>4, <4>2
    <3>5. QED
      BY <3>3, <3>4
  <2>3. segments[n].last <= segments[aged].last
    <3>1. CASE n = aged
      BY <3>1, <1>1
    <3>2. CASE n # aged
      <4>1. n < aged
        BY <1>0, <2>1, <3>2, Counts
      <4>2. segments[n].last < segments[aged].first
        BY <1>0, <1>1, <2>1, <4>1 DEF OrderInv
      <4>3. QED
        BY <1>1, <2>2, <4>2
    <3>3. QED
      BY <3>1, <3>2
  <2>4. QED
    BY <1>1, <2>1, <2>2, <2>3
<1>3. ASSUME NEW s \in 1..segments[aged].last
      PROVE  \E n \in ArchivedBefore : s \in DeletedBy(n)
  <2>1. s \in 1..(NextFrom - 1)
    BY <1>1, <1>3
  <2>2. PICK n \in 1..Len(segments) : s \in segments[n].hash
    BY <1>0, <2>1 DEF CoverInv
  <2>3. s \in segments[n].first..segments[n].last /\ segments[n].first \in Nat
    BY <1>0, <2>2, Counts DEF SegmentInv, Segment
  <2>4. ~(aged < n)
    BY <1>0, <1>1, <1>3, <2>3 DEF OrderInv
  <2>5. n \in 1..aged
    BY <1>0, <2>4, Counts
  <2>6. QED
    BY <2>3, <2>5 DEF ArchivedBefore, DeletedBy
<1>4. QED
  BY <1>2, <1>3

LEMMA SegmentSteps ==
    ASSUME SegmentsInv, [SegmentsNext]_segmentVars
    PROVE  \/ Appends \/ Builds \/ Puts \/ CommitsRow \/ EndsRotation \/ Ages \/ Collects
           \/ UNCHANGED segmentVars
<1>0. RowsOK /\ SegmentInv /\ OrderInv /\ CoverInv /\ HotInv /\ RotatingInv
  BY DEF SegmentsInv
<1>1. ASSUME AppendEntry PROVE Appends
  BY <1>1 DEF AppendEntry, CanWrite, Appends
<1>2. ASSUME BuildSegment PROVE Builds
  <2> DEFINE taken == {s \in hot : s \in NextFrom..headSeq}
             number == NextNumber
             prev == PrevHash(number)
             r == [pc |-> "built", number |-> number, prev |-> prev, entries |-> taken]
  <2>1. number = Len(segments) + 1 /\ number \in Nat
    BY <1>0, Counts DEF NextNumber
  <2>2. taken = NextFrom..headSeq
    <3>1. PICK c \in Nat : Cut(c)
      BY <1>0 DEF HotInv
    <3>2. c < NextFrom /\ NextFrom \in Nat /\ headSeq \in Nat
      BY <1>0, <3>1, CutBehind, Next_From, Counts
    <3>3. QED
      BY <3>1, <3>2 DEF Cut
  <2>3. prev \in SUBSET Nat
    <3>1. CASE number = 1
      BY <3>1 DEF PrevHash
    <3>2. CASE number # 1
      <4>1. number - 1 \in 1..Len(segments)
        BY <1>0, <2>1, <3>2, Counts
      <4>2. segments[number - 1].hash \in SUBSET Nat
        BY <1>0, <4>1, Counts DEF SegmentType
      <4>3. QED
        BY <3>2, <4>2 DEF PrevHash
    <3>3. QED
      BY <3>1, <3>2
  <2>4. taken \in SUBSET Nat
    BY <1>0, <2>2, Counts, Next_From
  <2>5. rotating' = r
    BY <1>2 DEF BuildSegment
  <2>6. r \in RotatingType /\ r.pc = "built" /\ r.number = number /\ r.prev = prev /\ r.entries = taken
    <3> HIDE DEF number, prev, taken
    <3> QED BY <2>1, <2>3, <2>4 DEF RotatingType
  <2> HIDE DEF r
  <2>7. QED
    BY <1>2, <2>1, <2>2, <2>5, <2>6 DEF BuildSegment, Builds
<1>3. ASSUME PutArchive PROVE Puts
  <2>1. rotating # NotRotating
    BY <1>3 DEF PutArchive, NotRotating
  <2>2. rotating \in RotatingType /\ rotating.number \in Numbers /\ Body \in ArchiveType
    BY <2>1, NumberFits
  <2>3. rotating' = [rotating EXCEPT !.pc = "put"]
    BY <1>3 DEF PutArchive
  <2>4. /\ rotating' \in RotatingType /\ rotating'.number = rotating.number
        /\ rotating'.prev = rotating.prev /\ rotating'.entries = rotating.entries
    BY <2>2, <2>3 DEF RotatingType
  <2>5. QED
    BY <1>3, <2>1, <2>2, <2>4 DEF PutArchive, Puts
<1>4. ASSUME CommitSegment PROVE CommitsRow
  <2>1. rotating # NotRotating /\ rotating.pc = "put" /\ rotDb = "sqlite"
    BY <1>4 DEF CommitSegment, NotRotating
  <2>2. /\ rotating \in RotatingType /\ rotating.number = Len(segments) + 1 /\ Body \in ArchiveType
        /\ rotating.prev = PrevHash(Len(segments) + 1) /\ headSeq < MaxSeq
        /\ archive[rotating.number] = Body
    BY <1>0, <2>1, NumberFits DEF RotatingInv
  <2>3. PICK h \in Nat : NextFrom <= h /\ h <= headSeq /\ rotating.entries = NextFrom..h
    BY <1>0, <2>1 DEF RotatingInv
  <2>4. /\ Oldest(rotating.entries) = NextFrom /\ Newest(rotating.entries) = h
        /\ Cardinality(rotating.entries) = h - NextFrom + 1 /\ NextFrom \in Nat
        /\ h - NextFrom + 1 \in Nat
    <3> DEFINE a == NextFrom
    <3>1. a \in Nat /\ a <= h
      BY <1>0, <2>3, Next_From
    <3> HIDE DEF a
    <3>2. Oldest(a..h) = a /\ Newest(a..h) = h /\ Cardinality(a..h) = h - a + 1
      BY <3>1, Ends_Of
    <3>3. h - a + 1 \in Nat
      BY <3>1
    <3>4. QED
      BY <2>3, <3>1, <3>2, <3>3 DEF a
  <2> DEFINE first == NextFrom
             count == h - NextFrom + 1
             hash == rotating.entries
             prev == rotating.prev
             sha == Body
             row == [first |-> first, last |-> h, count |-> count, hash |-> hash, prev |-> prev, sha |-> sha]
  <2>5. segments' = Append(segments, row)
    BY <1>4, <2>4 DEF CommitSegment
  <2>6. hash \in SUBSET Nat /\ prev \in SUBSET Nat
    BY <2>2 DEF RotatingType
  <2>7. /\ row \in SegmentType /\ row.first = first /\ row.last = h /\ row.count = count
        /\ row.hash = hash /\ row.prev = prev /\ row.sha = sha
    <3> HIDE DEF first, count, hash, prev, sha
    <3>1. first \in Nat /\ count \in Nat /\ sha \in ArchiveType
      BY <2>2, <2>4 DEF first, count, sha
    <3>2. QED
      BY <2>6, <3>1 DEF SegmentType
  <2> HIDE DEF row
  <2>8. Body.entries = hash /\ Body.prev = prev
    BY DEF Body
  <2>9. QED
    BY <1>4, <2>1, <2>2, <2>3, <2>4, <2>5, <2>7, <2>8 DEF CommitSegment, CommitsRow
<1>5. ASSUME AbortRotation PROVE EndsRotation
  BY <1>0, <1>5 DEF AbortRotation, EndsRotation, RowsOK
<1>6. ASSUME PassRetention PROVE Ages
  BY <1>0, <1>6, Counts DEF PassRetention, Ages
<1>7. ASSUME RunGC PROVE Collects
  <2>1. aged > 0
    BY <1>0, <1>7, Counts DEF RunGC, ArchivedBefore
  <2>2. QED
    BY <1>7, <2>1, Collected DEF RunGC, CanWrite, Collects
<1>8. QED
  BY <1>1, <1>2, <1>3, <1>4, <1>5, <1>6, <1>7 DEF SegmentsNext

--------------------------------------------------------------------------------
(* Every step keeps the invariant. *)

LEMMA InitInv == SegmentsInit => SegmentsInv
<1> SUFFICES ASSUME SegmentsInit PROVE SegmentsInv
  OBVIOUS
<1>1. /\ hot = {} /\ headSeq = 0 /\ segments = <<>> /\ aged = 0 /\ aborts = 0
      /\ archive = [n \in Numbers |-> NoArchive] /\ rotating = NotRotating
  BY DEF SegmentsInit
<1>2. Len(segments) = 0
  BY <1>1
<1>3. NoArchive \in ArchiveType
  BY DEF NoArchive, ArchiveType
<1>4. RowsOK
  <2>1. segments \in Seq(SegmentType)
    BY <1>1, EmptySeq
  <2>2. archive \in [Numbers -> ArchiveType]
    BY <1>1, <1>3
  <2>3. QED
    BY <1>1, <1>2, <2>1, <2>2, SegmentsAssumption DEF SegmentsInit, RowsOK
<1>5. SegmentInv /\ OrderInv
  BY <1>2 DEF SegmentInv, OrderInv
<1>6. CoverInv
  BY <1>1 DEF CoverInv, NextFrom
<1>7. HotInv
  BY <1>1 DEF HotInv, Cut
<1>8. RotatingInv
  BY <1>1 DEF RotatingInv
<1>9. QED
  BY <1>4, <1>5, <1>6, <1>7, <1>8 DEF SegmentsInv

\* A commit adds one row, behind the others.
LEMMA Committed ==
    ASSUME RowsOK, CommitsRow
    PROVE  /\ segments' \in Seq(SegmentType)
           /\ Len(segments') = Len(segments) + 1 /\ Len(segments) \in Nat /\ segments' # <<>>
           /\ \A n \in 1..Len(segments) : segments'[n] = segments[n]
           /\ \E row \in SegmentType :
                 /\ segments'[Len(segments) + 1] = row
                 /\ row.first = NextFrom /\ NextFrom <= row.last /\ row.last <= headSeq
                 /\ row.hash = row.first..row.last /\ row.count = row.last - row.first + 1
                 /\ row.prev = PrevHash(Len(segments) + 1) /\ row.sha = Body
                 /\ Body.entries = row.hash /\ Body.prev = row.prev
<1>1. segments \in Seq(SegmentType) /\ Len(segments) \in Nat
  BY LenProperties DEF RowsOK
<1>2. PICK row \in SegmentType :
         /\ row.first = NextFrom /\ NextFrom <= row.last /\ row.last <= headSeq
         /\ row.hash = row.first..row.last /\ row.count = row.last - row.first + 1
         /\ row.prev = PrevHash(Len(segments) + 1) /\ row.sha = Body
         /\ Body.entries = row.hash /\ Body.prev = row.prev
         /\ segments' = Append(segments, row)
  BY DEF CommitsRow
<1>3. /\ segments' \in Seq(SegmentType) /\ Len(segments') = Len(segments) + 1 /\ segments' # <<>>
      /\ \A n \in 1..Len(segments) : segments'[n] = segments[n]
      /\ segments'[Len(segments) + 1] = row
  BY <1>1, <1>2, AppendProperties
<1>4. QED
  BY <1>1, <1>2, <1>3

LEMMA SegmentRowsNext == SegmentsInv /\ [SegmentsNext]_segmentVars => RowsOK'
<1> SUFFICES ASSUME SegmentsInv, [SegmentsNext]_segmentVars PROVE RowsOK'
  OBVIOUS
<1>0. RowsOK /\ RotatingInv
  BY DEF SegmentsInv
<1>1. CASE Appends
  BY <1>0, <1>1, Counts DEF RowsOK, Appends
<1>2. CASE Builds
  BY <1>0, <1>2 DEF RowsOK, Builds
<1>3. CASE Puts
  BY <1>0, <1>3 DEF RowsOK, Puts
<1>4. CASE CommitsRow
  BY <1>0, <1>4, Counts, Committed DEF RowsOK, CommitsRow
<1>5. CASE EndsRotation
  BY <1>0, <1>5 DEF RowsOK, EndsRotation
<1>6. CASE Ages
  BY <1>0, <1>6 DEF RowsOK, Ages
<1>7. CASE Collects
  BY <1>0, <1>7, Counts DEF RowsOK, Collects
<1>8. CASE UNCHANGED segmentVars
  BY <1>0, <1>8 DEF RowsOK, segmentVars
<1>9. QED
  BY <1>1, <1>2, <1>3, <1>4, <1>5, <1>6, <1>7, <1>8, SegmentSteps

\* Rows and files of segments stay, and the head only grows.
LEMMA SegmentsStay ==
    ASSUME SegmentsInv, [SegmentsNext]_segmentVars
    PROVE  /\ headSeq <= headSeq' /\ headSeq' \in Nat /\ Len(segments) <= Len(segments')
           /\ \A n \in 1..Len(segments) : /\ n \in 1..Len(segments')
                                          /\ segments'[n] = segments[n] /\ archive'[n] = archive[n]
           /\ segments' = segments \/ CommitsRow
<1>0. RowsOK /\ Len(segments) \in Nat /\ headSeq \in Nat
  BY Counts DEF SegmentsInv
<1>1. CASE Puts
  <2>1. rotating.number = Len(segments) + 1
    BY <1>1, NumberFits DEF Puts
  <2>2. \A n \in 1..Len(segments) : archive'[n] = archive[n]
    BY <1>0, <1>1, <2>1 DEF Puts, RowsOK
  <2>3. QED
    BY <1>0, <1>1, <2>2 DEF Puts
<1>2. CASE CommitsRow
  BY <1>0, <1>2, Committed DEF CommitsRow
<1>3. CASE Appends \/ Builds \/ EndsRotation \/ Ages \/ Collects \/ UNCHANGED segmentVars
  BY <1>0, <1>3 DEF Appends, Builds, EndsRotation, Ages, Collects, segmentVars
<1>4. QED
  BY <1>1, <1>2, <1>3, SegmentSteps

\* The links of the segments that are there, and of the one that comes next, stay.
LEMMA LinkStays ==
    ASSUME SegmentsInv, [SegmentsNext]_segmentVars, NEW n \in 1..(Len(segments) + 1)
    PROVE  PrevHash(n)' = PrevHash(n)
<1>0. Len(segments) \in Nat
  BY Counts DEF SegmentsInv
<1>1. CASE n = 1
  BY <1>1 DEF PrevHash
<1>2. CASE n # 1
  <2>1. n - 1 \in 1..Len(segments)
    BY <1>0, <1>2
  <2>2. segments'[n - 1] = segments[n - 1]
    BY <2>1, SegmentsStay
  <2>3. QED
    BY <1>2, <2>2 DEF PrevHash
<1>3. QED
  BY <1>1, <1>2

LEMMA SegmentNext == SegmentsInv /\ [SegmentsNext]_segmentVars => SegmentInv'
<1> SUFFICES ASSUME SegmentsInv, [SegmentsNext]_segmentVars, NEW n \in 1..Len(segments')
             PROVE  Segment(n)'
  BY DEF SegmentInv
<1>0. /\ RowsOK /\ SegmentInv /\ OrderInv /\ RotatingInv
      /\ Len(segments) \in Nat /\ headSeq \in Nat /\ headSeq' \in Nat /\ headSeq <= headSeq'
  BY Counts, SegmentsStay DEF SegmentsInv
<1>1. CASE n \in 1..Len(segments)
  <2>1. Segment(n) /\ segments[n].last \in Nat
    BY <1>0, <1>1, Counts DEF SegmentInv
  <2>2. segments'[n] = segments[n] /\ archive'[n] = archive[n] /\ PrevHash(n)' = PrevHash(n)
    BY <1>0, <1>1, SegmentsStay, LinkStays
  <2>3. n # 1 => segments'[n - 1] = segments[n - 1]
    <3> SUFFICES ASSUME n # 1 PROVE segments'[n - 1] = segments[n - 1]
      OBVIOUS
    <3>1. n - 1 \in 1..Len(segments)
      BY <1>0, <1>1
    <3>2. QED
      BY <3>1, SegmentsStay
  <2>4. segments[n].last < headSeq'
    BY <1>0, <2>1 DEF Segment
  <2>5. segments'[n].first = IF n = 1 THEN 1 ELSE segments'[n - 1].last + 1
    BY <2>1, <2>2, <2>3 DEF Segment
  <2>6. QED
    BY <2>1, <2>2, <2>4, <2>5 DEF Segment
<1>2. CASE n \notin 1..Len(segments)
  <2>1. CommitsRow /\ n = Len(segments) + 1
    BY <1>0, <1>2, SegmentsStay, Committed
  <2>2. PICK row \in SegmentType :
           /\ segments'[n] = row
           /\ row.first = NextFrom /\ NextFrom <= row.last /\ row.last <= headSeq
           /\ row.hash = row.first..row.last /\ row.count = row.last - row.first + 1
           /\ row.prev = PrevHash(n) /\ row.sha = Body
           /\ Body.entries = row.hash /\ Body.prev = row.prev
    BY <1>0, <2>1, Committed
  <2>3. row.last \in Nat /\ headSeq' = headSeq + 1 /\ archive'[n] = Body
    BY <2>1 DEF CommitsRow, SegmentType
  <2>4. PrevHash(n)' = PrevHash(n)
    BY <1>0, <2>1, LinkStays
  <2>5. /\ NextFrom \in Nat /\ n <= NextFrom
        /\ n # 1 => NextFrom = segments[n - 1].last + 1
        /\ n = 1 => NextFrom = 1
    BY <1>0, <2>1, Next_From
  <2>6. n # 1 => segments'[n - 1] = segments[n - 1]
    <3> SUFFICES ASSUME n # 1 PROVE segments'[n - 1] = segments[n - 1]
      OBVIOUS
    <3>1. n - 1 \in 1..Len(segments)
      BY <1>0, <2>1
    <3>2. QED
      BY <3>1, SegmentsStay
  <2>7. segments'[n].first = IF n = 1 THEN 1 ELSE segments'[n - 1].last + 1
    BY <2>2, <2>5, <2>6
  <2>8. segments'[n].first <= segments'[n].last /\ segments'[n].last < headSeq' /\ n <= segments'[n].last
    BY <1>0, <2>1, <2>2, <2>3, <2>5
  <2>9. QED
    BY <2>2, <2>3, <2>4, <2>7, <2>8 DEF Segment
<1>3. QED
  BY <1>1, <1>2

LEMMA OrderNext == SegmentsInv /\ [SegmentsNext]_segmentVars => OrderInv'
<1> SUFFICES ASSUME SegmentsInv, [SegmentsNext]_segmentVars,
                    NEW m \in 1..Len(segments'), NEW n \in 1..Len(segments'), m < n
             PROVE  segments'[m].last < segments'[n].first
  BY DEF OrderInv
<1>0. RowsOK /\ SegmentInv /\ OrderInv /\ Len(segments) \in Nat
  BY Counts DEF SegmentsInv
<1>1. CASE n \in 1..Len(segments)
  <2>1. m \in 1..Len(segments)
    BY <1>0, <1>1
  <2>2. QED
    BY <1>0, <1>1, <2>1, SegmentsStay DEF OrderInv
<1>2. CASE n \notin 1..Len(segments)
  <2>1. CommitsRow /\ n = Len(segments) + 1 /\ m \in 1..Len(segments)
    BY <1>0, <1>2, SegmentsStay, Committed
  <2>2. segments'[n].first = NextFrom
    BY <1>0, <2>1, Committed
  <2>3. segments'[m].last = segments[m].last /\ segments[m].last < NextFrom
    BY <1>0, <2>1, SegmentsStay, Next_From
  <2>4. QED
    BY <2>2, <2>3
<1>3. QED
  BY <1>1, <1>2

LEMMA CoverNext == SegmentsInv /\ [SegmentsNext]_segmentVars => CoverInv'
<1> SUFFICES ASSUME SegmentsInv, [SegmentsNext]_segmentVars PROVE CoverInv'
  OBVIOUS
<1>0. RowsOK /\ SegmentInv /\ OrderInv /\ CoverInv /\ Len(segments) \in Nat
  BY Counts DEF SegmentsInv
<1>1. CASE segments' = segments
  BY <1>0, <1>1 DEF CoverInv, NextFrom
<1>2. CASE CommitsRow
  <2> DEFINE n == Len(segments) + 1
  <2>1. PICK row \in SegmentType :
           /\ segments'[n] = row
           /\ row.first = NextFrom /\ NextFrom <= row.last /\ row.hash = row.first..row.last
    BY <1>0, <1>2, Committed
  <2>2. row.last \in Nat /\ NextFrom \in Nat
    BY <1>0, Next_From DEF SegmentType
  <2>3. NextFrom' = row.last + 1 /\ n \in 1..Len(segments')
    BY <1>0, <1>2, <2>1, Committed DEF NextFrom
  <2>4. ASSUME NEW s \in 1..(NextFrom' - 1)
        PROVE  \E k \in 1..Len(segments') : s \in segments'[k].hash
    <3>1. CASE s \in 1..(NextFrom - 1)
      <4>1. PICK k \in 1..Len(segments) : s \in segments[k].hash
        BY <1>0, <3>1 DEF CoverInv
      <4>2. QED
        BY <4>1, SegmentsStay
    <3>2. CASE s \notin 1..(NextFrom - 1)
      <4>1. s \in segments'[n].hash
        BY <2>1, <2>2, <2>3, <2>4, <3>2
      <4>2. QED
        BY <2>3, <4>1
    <3>3. QED
      BY <3>1, <3>2
  <2>5. QED
    BY <2>4 DEF CoverInv
<1>3. QED
  BY <1>1, <1>2, SegmentsStay

LEMMA HotNext == SegmentsInv /\ [SegmentsNext]_segmentVars => HotInv'
<1> SUFFICES ASSUME SegmentsInv, [SegmentsNext]_segmentVars PROVE HotInv'
  OBVIOUS
<1>0. /\ RowsOK /\ SegmentInv /\ OrderInv /\ HotInv
      /\ Len(segments) \in Nat /\ headSeq \in Nat /\ aged \in Nat /\ aged <= Len(segments)
  BY Counts DEF SegmentsInv
<1>1. PICK c \in Nat : Cut(c)
  BY <1>0 DEF HotInv
<1>2. hot = (c + 1)..headSeq /\ (c < headSeq \/ (headSeq = 0 /\ c = 0))
      /\ (c = 0 \/ \E n \in 1..aged : c = segments[n].last)
  BY <1>0, <1>1, CutBehind DEF Cut
<1>3. /\ aged' \in Nat /\ aged <= aged'
      /\ \A n \in 1..aged : n \in 1..aged' /\ segments'[n] = segments[n]
  <2>1. aged' \in Nat /\ aged <= aged'
    BY <1>0, SegmentSteps DEF Appends, Builds, Puts, CommitsRow, EndsRotation, Ages, Collects, segmentVars
  <2>2. \A n \in 1..aged : n \in 1..Len(segments)
    BY <1>0
  <2>3. QED
    BY <1>0, <2>1, <2>2, SegmentsStay
<1>4. c = 0 \/ \E n \in 1..aged' : c = segments'[n].last
  BY <1>2, <1>3
<1>5. CASE hot' = hot /\ headSeq' = headSeq
  BY <1>2, <1>4, <1>5 DEF HotInv, Cut
<1>6. CASE headSeq' = headSeq + 1 /\ hot' = hot \cup {headSeq + 1}
  <2>1. hot' = (c + 1)..headSeq'
    BY <1>0, <1>2, <1>6
  <2>2. QED
    BY <1>4, <2>1 DEF HotInv, Cut
<1>7. CASE Collects
  <2> DEFINE d == segments[aged].last
  <2>1. aged \in 1..aged /\ aged \in 1..Len(segments)
    BY <1>0, <1>7 DEF Collects
  <2>2. d \in Nat /\ d < headSeq
    BY <1>0, <2>1, Counts DEF SegmentInv, Segment
  <2>3. c <= d
    <3>1. ASSUME NEW n \in 1..aged, c = segments[n].last
          PROVE  c <= d
      <4>1. n \in 1..Len(segments) /\ n <= aged
        BY <1>0, <3>1
      <4>2. CASE n = aged
        BY <2>2, <3>1, <4>2
      <4>3. CASE n < aged
        <5>1. segments[n].last < segments[aged].first
          BY <1>0, <2>1, <4>1, <4>3 DEF OrderInv
        <5>2. segments[aged].first \in Nat /\ segments[aged].first <= d
          BY <1>0, <2>1, Counts DEF SegmentInv, Segment
        <5>3. QED
          BY <2>2, <3>1, <5>1, <5>2
      <4>4. QED
        BY <1>0, <4>1, <4>2, <4>3
    <3>2. QED
      BY <1>2, <2>2, <3>1
  <2>4. hot' = (d + 1)..headSeq'
    <3>1. headSeq' = headSeq + 1 /\ hot' = (hot \ (1..d)) \cup {headSeq + 1}
      BY <1>7 DEF Collects
    <3> HIDE DEF d
    <3>2. QED
      BY <1>0, <1>2, <2>2, <2>3, <3>1
  <2>5. \E n \in 1..aged' : d = segments'[n].last
    BY <1>3, <2>1
  <2> HIDE DEF d
  <2>6. QED
    BY <2>2, <2>4, <2>5 DEF HotInv, Cut
<1>8. QED
  BY <1>5, <1>6, <1>7, SegmentSteps DEF Appends, Builds, Puts, CommitsRow, EndsRotation, Ages, segmentVars

LEMMA RotatingNext == SegmentsInv /\ [SegmentsNext]_segmentVars => RotatingInv'
<1> SUFFICES ASSUME SegmentsInv, [SegmentsNext]_segmentVars, rotating' # NotRotating
             PROVE  /\ rotating'.number = Len(segments') + 1
                    /\ rotating'.prev = PrevHash(Len(segments) + 1)' /\ segments' = segments
                    /\ \E h \in Nat : NextFrom' <= h /\ h <= headSeq' /\ rotating'.entries = NextFrom'..h
                    /\ rotating'.pc = "put" => archive'[rotating'.number] = Body'
                    /\ rotDb' = "sqlite" => headSeq' < MaxSeq
  BY DEF RotatingInv, PrevHash
<1>0. /\ RowsOK /\ SegmentInv /\ OrderInv /\ RotatingInv
      /\ Len(segments) \in Nat /\ headSeq \in Nat /\ NextFrom \in Nat
  BY Counts, Next_From DEF SegmentsInv
<1>1. segments' = segments /\ NextFrom' = NextFrom
  <2>1. ~CommitsRow
    BY DEF CommitsRow
  <2>2. segments' = segments
    BY <2>1, SegmentsStay
  <2>3. QED
    BY <2>2 DEF NextFrom
<1>2. PrevHash(Len(segments) + 1)' = PrevHash(Len(segments) + 1)
  BY <1>1 DEF PrevHash
<1>3. CASE Builds
  <2>1. PICK r \in RotatingType :
           /\ r.pc = "built" /\ r.number = Len(segments) + 1
           /\ r.prev = PrevHash(Len(segments) + 1) /\ r.entries = NextFrom..headSeq
           /\ rotating' = r
    BY <1>3 DEF Builds
  <2>2. headSeq >= NextFrom /\ headSeq < MaxSeq /\ headSeq' = headSeq
    BY <1>3 DEF Builds
  <2>3. QED
    BY <1>0, <1>1, <1>2, <2>1, <2>2
<1>4. CASE rotating # NotRotating /\ ~Builds
  <2>1. PICK h \in Nat : NextFrom <= h /\ h <= headSeq /\ rotating.entries = NextFrom..h
    BY <1>0, <1>4 DEF RotatingInv
  <2>2. /\ rotating.number = Len(segments) + 1 /\ rotating.prev = PrevHash(Len(segments) + 1)
        /\ rotating.number \in Numbers
    BY <1>4, NumberFits, <1>0 DEF RotatingInv
  <2>3. headSeq <= headSeq' /\ headSeq' \in Nat
    BY SegmentsStay
  <2>4. rotDb' = "sqlite" => headSeq' < MaxSeq
    BY <1>0, <1>4, SegmentSteps
       DEF RotatingInv, Appends, Puts, CommitsRow, EndsRotation, Ages, Collects, segmentVars
  <2>5. /\ rotating'.number = rotating.number /\ rotating'.prev = rotating.prev
        /\ rotating'.entries = rotating.entries
    BY <1>4, SegmentSteps DEF Appends, Puts, CommitsRow, EndsRotation, Ages, Collects, segmentVars
  <2>6. rotating'.pc = "put" => archive'[rotating'.number] = Body'
    <3>1. CASE Puts
      <4>1. archive'[rotating.number] = Body
        BY <1>0, <2>2, <3>1 DEF Puts, RowsOK
      <4>2. Body' = Body
        BY <2>5, <3>1 DEF Puts, Body
      <4>3. QED
        BY <2>5, <4>1, <4>2
    <3>2. CASE ~Puts
      <4>1. rotating' = rotating /\ archive' = archive /\ aborts' = aborts
        BY <1>4, <3>2, SegmentSteps DEF Appends, CommitsRow, EndsRotation, Ages, Collects, segmentVars
      <4>2. QED
        BY <1>0, <1>4, <4>1 DEF RotatingInv, Body
    <3>3. QED
      BY <3>1, <3>2
  <2>7. \E i \in Nat : NextFrom' <= i /\ i <= headSeq' /\ rotating'.entries = NextFrom'..i
    BY <1>0, <1>1, <2>1, <2>3, <2>5
  <2>8. QED
    BY <1>1, <1>2, <2>2, <2>4, <2>5, <2>6, <2>7
<1>5. QED
  BY <1>3, <1>4, SegmentSteps DEF Appends, Builds, Puts, CommitsRow, EndsRotation, Ages, Collects, segmentVars

LEMMA NextInv == SegmentsInv /\ [SegmentsNext]_segmentVars => SegmentsInv'
BY SegmentRowsNext, SegmentNext, OrderNext, CoverNext, HotNext, RotatingNext DEF SegmentsInv

--------------------------------------------------------------------------------
(* What follows from it. *)

\* The archives of any run of segments link up: the link of each is what the one before holds.
LEMMA Chained ==
    ASSUME RowsOK, SegmentInv, NEW from \in 1..Len(segments), NEW to \in 1..Len(segments)
    PROVE  VerifyChain(from, to)
<1>0. Len(segments) \in Nat
  BY Counts
<1> SUFFICES ASSUME NEW n \in from..to
             PROVE  VerifyOneArchive(n, IF n = from THEN {} ELSE archive[n - 1].entries)
  BY DEF VerifyChain
<1>1. n \in 1..Len(segments)
  BY <1>0
<1>2. /\ archive[n].entries = segments[n].first..segments[n].last /\ archive[n].prev = PrevHash(n)
      /\ segments[n].first \in Nat /\ segments[n].last \in Nat /\ segments[n].first <= segments[n].last
  BY <1>1, Counts DEF SegmentInv, Segment
<1>3. archive[n].entries # {}
  BY <1>2
<1>4. n # from => archive[n].prev = archive[n - 1].entries
  <2> SUFFICES ASSUME n # from PROVE archive[n].prev = archive[n - 1].entries
    OBVIOUS
  <2>1. n - 1 \in 1..Len(segments) /\ n # 1
    BY <1>0, <1>1
  <2>2. archive[n - 1].entries = segments[n - 1].hash
    BY <2>1 DEF SegmentInv, Segment
  <2>3. QED
    BY <1>2, <2>1, <2>2 DEF PrevHash
<1>5. QED
  BY <1>3, <1>4 DEF VerifyOneArchive

LEMMA InvSound == SegmentsInv => SegmentsAreSound
<1> SUFFICES ASSUME SegmentsInv PROVE SegmentsAreSound
  OBVIOUS
<1>0. /\ RowsOK /\ SegmentInv /\ OrderInv /\ CoverInv
      /\ Len(segments) \in Nat /\ headSeq \in Nat /\ NextFrom \in Nat
  BY Counts, Next_From DEF SegmentsInv
<1>1. PICK c \in Nat : Cut(c)
  BY DEF SegmentsInv, HotInv
<1>2. hot = (c + 1)..headSeq /\ c < NextFrom /\ (c < headSeq \/ (headSeq = 0 /\ c = 0))
  BY <1>0, <1>1, CutBehind DEF Cut
<1>3. SegmentsTypeOK
  <2>1. hot \subseteq 1..headSeq /\ headSeq \in 0..MaxSeq /\ aged \in 0..Len(segments)
    BY <1>0, <1>2, Counts DEF RowsOK
  <2>2. QED
    BY <1>0, <2>1 DEF SegmentsTypeOK, SegmentInv, Segment
<1>4. NothingLost
  <2> SUFFICES ASSUME NEW s \in 1..headSeq, s \notin hot
               PROVE  \E n \in 1..Len(segments) : s \in archive[n].entries
    BY DEF NothingLost
  <2>1. s \in 1..(NextFrom - 1)
    BY <1>0, <1>2
  <2>2. PICK n \in 1..Len(segments) : s \in segments[n].hash
    BY <1>0, <2>1 DEF CoverInv
  <2>3. s \in archive[n].entries
    BY <1>0, <2>2 DEF SegmentInv, Segment
  <2>4. QED
    BY <2>3
<1>5. ArchiveIsTheOneRecorded
  BY <1>0 DEF ArchiveIsTheOneRecorded, SegmentInv, Segment
<1>6. ArchiveChainVerifies
  BY <1>0, Chained DEF ArchiveChainVerifies
<1>7. HotSuffixVerifies
  <2> SUFFICES ASSUME headSeq > 0
               PROVE  hot # {} /\ ServerVerifiesRange(Oldest(hot), headSeq)
    BY DEF HotSuffixVerifies
  <2> DEFINE a == c + 1
  <2>1. a \in Nat /\ a <= headSeq /\ hot = a..headSeq
    BY <1>0, <1>2
  <2> HIDE DEF a
  <2>2. Oldest(hot) = a
    BY <1>0, <2>1, Ends_Of
  <2>3. hot # {}
    <3>1. a \in hot
      BY <1>0, <2>1
    <3>2. QED
      BY <3>1
  <2> DEFINE o == Oldest(hot)
  <2>4. o = a
    BY <2>2
  <2> HIDE DEF o
  <2>5. o..headSeq \subseteq hot
    BY <2>1, <2>4
  <2>6. QED
    BY <2>3, <2>5 DEF ServerVerifiesRange, o
<1>8. QED
  BY <1>3, <1>4, <1>5, <1>6, <1>7 DEF SegmentsAreSound

\* The segments tile the chain, every entry is in the database or in an archive, the file
\* of a segment is the one its row has the digest of, the archives verify as a chain and
\* what the collections leave verifies up to the head, however many rotations fail at
\* whichever step (job.go, segment.go, hot_gc.go and rosshield-audit-verify's rotation.go).
THEOREM SegmentsCorrect == SegmentsSpec => []SegmentsAreSound
<1>1. SegmentsInit => SegmentsInv
  BY InitInv
<1>2. SegmentsInv /\ [SegmentsNext]_segmentVars => SegmentsInv'
  BY NextInv
<1>3. SegmentsInv => SegmentsAreSound
  BY InvSound
<1>4. QED
  BY <1>1, <1>2, <1>3, PTL DEF SegmentsSpec

--------------------------------------------------------------------------------
(* Cross witnesses: while no call overlaps another there is one loop, so that  *)
(* what a tick has read of lastHash is still there when it writes the next.    *)

FoldLists == {SerializeCrossWitness(ws) : ws \in WitnessLists}
FoldHashes == Seq(FoldLists)
LoopRecords == [pc : {"select", "compute", "anchor", "ended"}, stop : BOOLEAN, selects : Nat,
                ctxDone : BOOLEAN, prev : FoldHashes, witnesses : WitnessLists, attempts : 0..AnchorRetries]
FoldRecords == [prev : FoldHashes, next : FoldHashes, witnesses : WitnessLists]

FoldTypes ==
    /\ schedRunning \in BOOLEAN
    /\ owner \in [SchedulerOwners -> [at : {"idle", "starting", "stopping", "closed", "waiting"}, doneCh : Nat]]
    /\ loops \in Seq(LoopRecords) /\ Len(loops) <= MaxStarts
    /\ lastHash \in FoldHashes
    /\ folds \in Seq(FoldRecords) /\ Len(folds) <= MaxFolds
    /\ anchored \in Seq(FoldHashes)

\* Where the one owner that calls is, and what the loops are then.
OwnerInOrder(o) ==
    /\ \A p \in SchedulerOwners \ {o} : owner[p].at = "idle"
    /\ owner[o].at = "starting" => schedRunning /\ Len(loops) < MaxStarts
    /\ owner[o].at \in {"stopping", "closed", "waiting"} \/ (owner[o].at = "idle" /\ schedRunning) => loops # <<>>
    /\ owner[o].at = "starting" \/ (owner[o].at = "idle" /\ ~schedRunning) => \A n \in DOMAIN loops : loops[n].pc = "ended"
    /\ owner[o].at = "stopping" \/ (owner[o].at = "idle" /\ schedRunning) => ~loops[LatestLoop].stop
    /\ owner[o].at \in {"stopping", "closed", "waiting"} => ~schedRunning
    /\ owner[o].at = "waiting" => owner[o].doneCh = LatestLoop

\* What a tick has read is still so.
TicksInOrder ==
    \A n \in DOMAIN loops :
        /\ loops[n].pc \in {"compute", "anchor"} => loops[n].prev = lastHash
        /\ loops[n].pc = "compute" => Len(folds) < MaxFolds
        /\ loops[n].pc = "anchor" => folds # <<>>

\* The last hash is that of the last fold; the n-th has n parts and is computed as
\* whoever verifies it does.
Recomputed(f) == Serializable(f.witnesses) /\ f.next = ComputeFoldInHash(f.prev, f.witnesses)
HashesInOrder ==
    /\ lastHash = IF folds = <<>> THEN ZeroHash ELSE folds[Len(folds)].next
    /\ Len(lastHash) = Len(folds)
    /\ \A k \in DOMAIN folds : Len(folds[k].next) = k /\ Recomputed(folds[k])

FoldInv(o) ==
    /\ FoldTypes /\ OwnerInOrder(o) /\ TicksInOrder /\ HashesInOrder
    /\ FoldsAreChained /\ OneLoop /\ AnchorsFollowFolds
\* Some goroutine is the one that calls, until two calls overlap.
OneCaller == ~overlapped => \E o \in SchedulerOwners : FoldInv(o)

\* Checkpoints of tenants that are all different.
OneOfEach(S) == IsFiniteSet(S) /\ S \subseteq Witnesses /\ \A v, w \in S : v.tenant = w.tenant => v = w
Before(S, w) == {v \in S : v.tenant < w.tenant}

\* Sorted by tenant they are the same checkpoints.
LEMMA ByTenantIs ==
  ASSUME WitnessAssumption, NEW S, OneOfEach(S)
  PROVE  S = {ByTenant(S)[k] : k \in DOMAIN ByTenant(S)}
<1> DEFINE n == Cardinality(S)
<1>0. IsFiniteSet(S) /\ n \in Nat /\ (\A w \in S : w.tenant \in Nat) /\ (\A v, w \in S : v.tenant = w.tenant => v = w)
  BY FS_CardinalityType DEF OneOfEach, Witnesses, WitnessAssumption
<1>1. \A v, w \in S : v.tenant < w.tenant => Cardinality(Before(S, v)) < Cardinality(Before(S, w))
  <2> SUFFICES ASSUME NEW v \in S, NEW w \in S, v.tenant < w.tenant
               PROVE  Cardinality(Before(S, v)) < Cardinality(Before(S, w))
    OBVIOUS
  <2>1. Before(S, v) \subseteq Before(S, w) /\ v \in Before(S, w) /\ v \notin Before(S, v)
    BY <1>0 DEF Before
  <2>2. IsFiniteSet(Before(S, w))
    BY <1>0, FS_Subset DEF Before
  <2>3. /\ Cardinality(Before(S, v)) <= Cardinality(Before(S, w))
        /\ Cardinality(Before(S, v)) # Cardinality(Before(S, w))
        /\ IsFiniteSet(Before(S, v))
    BY <2>1, <2>2, FS_Subset
  <2>4. Cardinality(Before(S, v)) \in Nat /\ Cardinality(Before(S, w)) \in Nat
    BY <2>2, <2>3, FS_CardinalityType
  <2> QED BY <2>3, <2>4
<1>2. \A w \in S : Cardinality(Before(S, w)) \in 0..(n - 1)
  <2> SUFFICES ASSUME NEW w \in S PROVE Cardinality(Before(S, w)) \in 0..(n - 1)
    OBVIOUS
  <2>1. Before(S, w) \subseteq S \ {w}
    BY <1>0 DEF Before
  <2>2. IsFiniteSet(S \ {w}) /\ Cardinality(S \ {w}) = n - 1
    BY <1>0, FS_RemoveElement
  <2>3. IsFiniteSet(Before(S, w)) /\ Cardinality(Before(S, w)) <= n - 1
    BY <2>1, <2>2, FS_Subset
  <2>4. Cardinality(Before(S, w)) \in Nat
    BY <2>3, FS_CardinalityType
  <2> HIDE DEF n
  <2> QED BY <1>0, <2>3, <2>4
<1>3. \A v, w \in S : Cardinality(Before(S, v)) = Cardinality(Before(S, w)) => v = w
  <2> SUFFICES ASSUME NEW v \in S, NEW w \in S, Cardinality(Before(S, v)) = Cardinality(Before(S, w)) PROVE v = w
    OBVIOUS
  <2> HIDE DEF n
  <2>1. ~ (v.tenant < w.tenant) /\ ~ (w.tenant < v.tenant)
    BY <1>1, <1>2
  <2>2. v.tenant = w.tenant
    BY <1>0, <2>1
  <2> QED BY <1>0, <2>2
<1>4. \A k \in 1..n : \E w \in S : Cardinality(Before(S, w)) = k - 1
  <2> DEFINE T == 0..(n - 1)
             f == [w \in S |-> Cardinality(Before(S, w))]
  <2>1. f \in [S -> T]
    BY <1>2
  <2>2. \A v, w \in S : f[v] = f[w] => v = w
    BY <1>3
  <2>3. IsFiniteSet(T) /\ Cardinality(T) = Cardinality(S)
    <3>1. 0 \in Int /\ n - 1 \in Int
      BY <1>0
    <3>2. IsFiniteSet(T) /\ Cardinality(T) = IF 0 > n - 1 THEN 0 ELSE n - 1 - 0 + 1
      BY <3>1, FS_Interval
    <3> HIDE DEF T
    <3> QED BY <1>0, <3>2
  <2> HIDE DEF T, f
  <2>4. f \in Injection(S, T)
    BY <2>1, <2>2 DEF Injection, IsInjective
  <2>5. f \in Surjection(S, T)
    BY <1>0, <2>3, <2>4, FS_Injection
  <2>6. \A k \in T : \E w \in S : f[w] = k
    BY <2>5 DEF Surjection
  <2>7. \A k \in 1..n : k - 1 \in T
    BY <1>0 DEF T
  <2> QED BY <2>6, <2>7 DEF f
<1> DEFINE g == ByTenant(S)
<1>5. DOMAIN g = 1..n /\ \A k \in 1..n : g[k] = CHOOSE w \in S : Cardinality(Before(S, w)) = k - 1
  BY DEF ByTenant, Before
<1> HIDE DEF g, n
<1>6. \A k \in 1..n : g[k] \in S /\ Cardinality(Before(S, g[k])) = k - 1
  BY <1>4, <1>5
<1>7. \A w \in S : \E k \in 1..n : g[k] = w
  <2> SUFFICES ASSUME NEW w \in S PROVE \E k \in 1..n : g[k] = w
    OBVIOUS
  <2>1. Cardinality(Before(S, w)) + 1 \in 1..n /\ (Cardinality(Before(S, w)) + 1) - 1 = Cardinality(Before(S, w))
    BY <1>0, <1>2
  <2>2. g[Cardinality(Before(S, w)) + 1] = w
    BY <1>3, <1>6, <2>1
  <2> QED BY <2>1, <2>2
<1>8. S = {g[k] : k \in 1..n}
  BY <1>6, <1>7
<1> QED BY <1>5, <1>8 DEF g

\* A list is one of checkpoints, as many at most as it is long.
LEMMA WitnessesOf ==
  ASSUME NEW ws \in WitnessLists
  PROVE  /\ Len(ws) \in Nat /\ DOMAIN ws = 1..Len(ws) /\ ToSet(ws) = {ws[k] : k \in 1..Len(ws)}
         /\ ToSet(ws) \subseteq Witnesses /\ IsFiniteSet(ToSet(ws))
         /\ ws \in Surjection(1..Len(ws), ToSet(ws))
         /\ IsFiniteSet(1..Len(ws)) /\ Cardinality(1..Len(ws)) = Len(ws)
<1>1. PICK n \in 0..MaxWitnesses : ws \in [1..n -> Witnesses]
  BY DEF WitnessLists
<1>2. n \in Nat
  OBVIOUS
<1>3. Len(ws) = n /\ DOMAIN ws = 1..n
  BY <1>1, <1>2
<1>4. ToSet(ws) = {ws[k] : k \in 1..n} /\ ToSet(ws) \subseteq Witnesses
  BY <1>1, <1>3 DEF ToSet
<1>5. ws \in Surjection(1..n, ToSet(ws))
  <2>1. ws \in [1..n -> ToSet(ws)]
    BY <1>1, <1>4
  <2> QED BY <1>4, <2>1 DEF Surjection
<1>6. IsFiniteSet(1..n) /\ Cardinality(1..n) = n
  <2>1. IsFiniteSet(1..n) /\ Cardinality(1..n) = IF 1 > n THEN 0 ELSE n - 1 + 1
    BY <1>2, FS_Interval
  <2> QED BY <1>2, <2>1
<1>7. IsFiniteSet(ToSet(ws))
  BY <1>5, <1>6, FS_Surjection
<1> QED BY <1>2, <1>3, <1>4, <1>5, <1>6, <1>7

\* A list that can be serialized has one checkpoint of each of its tenants.
LEMMA SerializableIs ==
  ASSUME NEW ws \in WitnessLists, Serializable(ws)
  PROVE  OneOfEach(ToSet(ws)) /\ Cardinality(ToSet(ws)) = Len(ws)
<1>1. /\ Len(ws) \in Nat /\ DOMAIN ws = 1..Len(ws) /\ ToSet(ws) = {ws[k] : k \in 1..Len(ws)}
      /\ ToSet(ws) \subseteq Witnesses /\ IsFiniteSet(ToSet(ws))
      /\ ws \in Surjection(1..Len(ws), ToSet(ws))
      /\ IsFiniteSet(1..Len(ws)) /\ Cardinality(1..Len(ws)) = Len(ws)
  BY WitnessesOf
<1>2. \A i, j \in 1..Len(ws) : ws[i].tenant = ws[j].tenant => i = j
  BY <1>1 DEF Serializable
<1>3. OneOfEach(ToSet(ws))
  BY <1>1, <1>2 DEF OneOfEach
<1>4. ws \in Injection(1..Len(ws), ToSet(ws))
  BY <1>1, <1>2 DEF Injection, IsInjective, Surjection
<1>5. Cardinality(ToSet(ws)) = Cardinality(1..Len(ws))
  BY <1>1, <1>4, FS_Surjection
<1> QED BY <1>1, <1>3, <1>5

\* A list of the same length with the same members can be serialized as well.
LEMMA SameWitnesses ==
  ASSUME NEW ws \in WitnessLists, NEW vs \in WitnessLists, Serializable(vs), Len(ws) = Len(vs), ToSet(ws) = ToSet(vs)
  PROVE  Serializable(ws)
<1>1. /\ DOMAIN ws = 1..Len(ws) /\ \A i \in 1..Len(ws) : ws[i] \in ToSet(vs)
      /\ ws \in Surjection(1..Len(ws), ToSet(ws))
      /\ IsFiniteSet(1..Len(ws)) /\ Cardinality(1..Len(ws)) = Len(ws)
  BY WitnessesOf
<1>2. DOMAIN vs = 1..Len(vs) /\ \A v \in ToSet(vs) : \E k \in 1..Len(vs) : v = vs[k]
  BY WitnessesOf
<1>3. \A v \in ToSet(vs) : v.tenant # 0
  BY <1>2 DEF Serializable
<1>4. \A v, w \in ToSet(vs) : v.tenant = w.tenant => v = w
  BY SerializableIs DEF OneOfEach
<1>5. Cardinality(ToSet(ws)) = Len(ws)
  BY SerializableIs
<1>6. ws \in Injection(1..Len(ws), ToSet(ws))
  BY <1>1, <1>5, FS_SurjSameCardinalityImpliesInj
<1>7. \A i, j \in 1..Len(ws) : ws[i] = ws[j] => i = j
  BY <1>6 DEF Injection, IsInjective
<1> QED BY <1>1, <1>3, <1>4, <1>7 DEF Serializable

\* The place of a fold is the length of its hash, and its list is that of its checkpoints.
LEMMA FoldsVerify ==
  ASSUME WitnessAssumption, folds \in Seq(FoldRecords), FoldsAreChained,
         \A k \in DOMAIN folds : Recomputed(folds[k]) /\ Len(folds[k].next) = k
  PROVE  VerifierAgrees
<1>1. Len(folds) \in Nat /\ DOMAIN folds = 1..Len(folds) /\ \A k \in DOMAIN folds : folds[k] \in FoldRecords
  BY LenProperties, ElementOfSeq
<1>2. \A k \in DOMAIN folds : /\ folds[k].prev \in Seq(FoldLists) /\ folds[k].witnesses \in WitnessLists
                              /\ Serializable(folds[k].witnesses)
                              /\ folds[k].next = Append(folds[k].prev, SerializeCrossWitness(folds[k].witnesses))
  BY <1>1 DEF FoldRecords, FoldHashes, Recomputed, ComputeFoldInHash
<1>3. \A ws \in WitnessLists : SerializeCrossWitness(ws) \in FoldLists
  BY DEF FoldLists
<1>4. \A k \in DOMAIN folds : Len(folds[k].prev) = k - 1
  <2> SUFFICES ASSUME NEW k \in DOMAIN folds PROVE Len(folds[k].prev) = k - 1
    OBVIOUS
  <2>1. Len(folds[k].next) = Len(folds[k].prev) + 1 /\ Len(folds[k].prev) \in Nat
    BY <1>2, <1>3, AppendProperties, LenProperties
  <2>2. Len(folds[k].next) = k
    OBVIOUS
  <2> QED BY <1>1, <2>1, <2>2
<1> SUFFICES ASSUME NEW i \in DOMAIN folds, NEW j \in DOMAIN folds, NEW ws \in WitnessLists
             PROVE  VerifyFoldIn(folds[j].prev, ws, folds[i].next) <=>
                      i = j /\ Len(ws) = Len(folds[i].witnesses) /\ ToSet(ws) = ToSet(folds[i].witnesses)
  BY DEF VerifierAgrees
<1> DEFINE vs == folds[i].witnesses
<1>5. vs \in WitnessLists /\ Serializable(vs) /\ OneOfEach(ToSet(vs)) /\ Cardinality(ToSet(vs)) = Len(vs)
  BY <1>2, SerializableIs
<1>6. folds[i].next = Append(folds[i].prev, SerializeCrossWitness(vs)) /\ folds[i].prev \in Seq(FoldLists)
      /\ folds[j].prev \in Seq(FoldLists)
  BY <1>2
<1>7. i \in Nat /\ j \in Nat
  BY <1>1
<1> HIDE DEF vs
<1>8. ASSUME VerifyFoldIn(folds[j].prev, ws, folds[i].next)
      PROVE  i = j /\ Len(ws) = Len(vs) /\ ToSet(ws) = ToSet(vs)
  <2>1. Serializable(ws) /\ Append(folds[j].prev, SerializeCrossWitness(ws)) = Append(folds[i].prev, SerializeCrossWitness(vs))
    BY <1>6, <1>8 DEF VerifyFoldIn, ComputeFoldInHash
  <2>0. SerializeCrossWitness(ws) \in FoldLists /\ SerializeCrossWitness(vs) \in FoldLists
    BY <1>3, <1>5
  <2>2. folds[j].prev = folds[i].prev /\ SerializeCrossWitness(ws) = SerializeCrossWitness(vs)
    <3> DEFINE p == folds[j].prev
               q == folds[i].prev
               a == SerializeCrossWitness(ws)
               b == SerializeCrossWitness(vs)
    <3>1. p \in Seq(FoldLists) /\ q \in Seq(FoldLists) /\ a \in FoldLists /\ b \in FoldLists /\ Append(p, a) = Append(q, b)
      BY <1>6, <2>0, <2>1
    <3> HIDE DEF p, q, a, b
    <3>2. (Append(p, a) = Append(q, b)) <=> (p = q) /\ (a = b)
      BY <3>1, AppendInjective
    <3>3. p = q /\ a = b
      BY <3>1, <3>2
    <3> QED BY <3>3 DEF p, q, a, b
  <2>3. i = j
    BY <1>4, <1>7, <2>2
  <2>4. OneOfEach(ToSet(ws)) /\ Cardinality(ToSet(ws)) = Len(ws)
    BY <2>1, SerializableIs
  <2>5. ByTenant(ToSet(ws)) = ByTenant(ToSet(vs))
    BY <2>2 DEF SerializeCrossWitness
  <2>6. ToSet(ws) = ToSet(vs)
    <3>1. ToSet(ws) = {ByTenant(ToSet(ws))[k] : k \in DOMAIN ByTenant(ToSet(ws))}
      BY <2>4, ByTenantIs
    <3>2. ToSet(vs) = {ByTenant(ToSet(vs))[k] : k \in DOMAIN ByTenant(ToSet(vs))}
      BY <1>5, ByTenantIs
    <3> QED BY <2>5, <3>1, <3>2
  <2> QED BY <1>5, <2>3, <2>4, <2>6
<1>9. ASSUME i = j, Len(ws) = Len(vs), ToSet(ws) = ToSet(vs)
      PROVE  VerifyFoldIn(folds[j].prev, ws, folds[i].next)
  <2>1. Serializable(ws)
    BY <1>5, <1>9, SameWitnesses
  <2>2. SerializeCrossWitness(ws) = SerializeCrossWitness(vs)
    BY <1>9 DEF SerializeCrossWitness
  <2> QED BY <1>6, <1>9, <2>1, <2>2 DEF VerifyFoldIn, ComputeFoldInHash
<1> QED BY <1>8, <1>9 DEF vs

LEMMA LoopsOf ==
  ASSUME FoldTypes
  PROVE  /\ Len(loops) \in Nat /\ DOMAIN loops = 1..Len(loops) /\ \A n \in DOMAIN loops : loops[n] \in LoopRecords
         /\ Len(folds) \in Nat /\ DOMAIN folds = 1..Len(folds) /\ \A k \in DOMAIN folds : folds[k] \in FoldRecords
         /\ Len(anchored) \in Nat /\ DOMAIN anchored = 1..Len(anchored)
<1>1. loops \in Seq(LoopRecords) /\ folds \in Seq(FoldRecords) /\ anchored \in Seq(FoldHashes)
  BY DEF FoldTypes
<1>2. /\ Len(loops) \in Nat /\ DOMAIN loops = 1..Len(loops)
      /\ Len(folds) \in Nat /\ DOMAIN folds = 1..Len(folds)
      /\ Len(anchored) \in Nat /\ DOMAIN anchored = 1..Len(anchored)
  BY <1>1, LenProperties
<1>3. \A n \in DOMAIN loops : loops[n] \in LoopRecords
  BY <1>1, <1>2, ElementOfSeq
<1>4. \A k \in DOMAIN folds : folds[k] \in FoldRecords
  BY <1>1, <1>2, ElementOfSeq
<1> QED BY <1>2, <1>3, <1>4

LEMMA EmptyIsThere ==
  ASSUME WitnessAssumption
  PROVE  ZeroHash \in FoldHashes /\ Len(ZeroHash) = 0 /\ <<>> \in WitnessLists
<1>1. <<>> \in [1..0 -> Witnesses]
  OBVIOUS
<1>2. 0 \in 0..MaxWitnesses
  BY DEF WitnessAssumption
<1> QED BY <1>1, <1>2, EmptySeq DEF ZeroHash, FoldHashes, WitnessLists

\* One goroutine becomes r, and none that has ended works again.
LEMMA LoopBecomes ==
  ASSUME NEW o, FoldInv(o), NEW n \in DOMAIN loops, NEW r \in LoopRecords, loops' = [loops EXCEPT ![n] = r],
         UNCHANGED <<owner, schedRunning>>, loops[n].pc = "ended" => r.pc = "ended", r.stop = loops[n].stop
  PROVE  /\ loops' \in Seq(LoopRecords) /\ Len(loops') = Len(loops) /\ DOMAIN loops' = DOMAIN loops
         /\ loops'[n] = r /\ \A m \in DOMAIN loops \ {n} : loops'[m] = loops[m]
         /\ OwnerInOrder(o)' /\ OneLoop'
<1>1. /\ FoldTypes /\ OneLoop /\ OwnerInOrder(o)
      /\ loops \in Seq(LoopRecords) /\ Len(loops) \in Nat /\ DOMAIN loops = 1..Len(loops)
  BY LoopsOf DEF FoldInv, FoldTypes
<1>2. /\ loops' \in Seq(LoopRecords) /\ Len(loops') = Len(loops) /\ DOMAIN loops' = DOMAIN loops
      /\ loops'[n] = r /\ \A m \in DOMAIN loops \ {n} : loops'[m] = loops[m]
  BY <1>1, ExceptSeq
<1>3. loops' # <<>> /\ loops # <<>>
  BY <1>1, <1>2
<1>4. \A m \in DOMAIN loops : (loops[m].pc = "ended" => loops'[m].pc = "ended") /\ loops'[m].stop = loops[m].stop
  BY <1>2
<1>4a. LatestLoop' = LatestLoop /\ LatestLoop \in DOMAIN loops
  BY <1>1, <1>2, <1>3, EmptySeq DEF LatestLoop
<1>5. OwnerInOrder(o)'
  BY <1>1, <1>2, <1>3, <1>4, <1>4a DEF OwnerInOrder
<1>6. OneLoop'
  BY <1>1, <1>2, <1>4 DEF OneLoop
<1> QED BY <1>2, <1>5, <1>6

\* The one that works is alone.
LEMMA WorksAlone ==
  ASSUME FoldTypes, OneLoop, NEW n \in DOMAIN loops, loops[n].pc # "ended", NEW m \in DOMAIN loops \ {n}
  PROVE  loops[m].pc = "ended"
<1>1. m \in Nat /\ n \in Nat /\ (m < n \/ n < m)
  BY LoopsOf
<1> QED BY <1>1 DEF OneLoop

LEMMA FoldInitInv ==
  ASSUME WitnessAssumption, NEW o \in SchedulerOwners, FoldInit
  PROVE  FoldInv(o)
<1>1. /\ loops = <<>> /\ folds = <<>> /\ anchored = <<>> /\ lastHash = ZeroHash /\ schedRunning = FALSE
      /\ owner = [p \in SchedulerOwners |-> NoCall]
  BY DEF FoldInit
<1>2. /\ <<>> \in Seq(LoopRecords) /\ <<>> \in Seq(FoldRecords) /\ <<>> \in Seq(FoldHashes)
      /\ Len(<<>>) = 0 /\ DOMAIN <<>> = {}
  BY EmptySeq
<1>3. FoldTypes
  <2>1. schedRunning \in BOOLEAN
    BY <1>1, Zenon
  <2>2. Len(loops) <= MaxStarts /\ Len(folds) <= MaxFolds
    BY <1>1, <1>2 DEF WitnessAssumption
  <2> QED BY <1>1, <1>2, <2>1, <2>2, EmptyIsThere DEF FoldTypes, NoCall
<1>4. OwnerInOrder(o)
  BY <1>1, <1>2 DEF OwnerInOrder, NoCall
<1>5. TicksInOrder /\ OneLoop
  BY <1>1, <1>2 DEF TicksInOrder, OneLoop
<1>6. HashesInOrder
  BY <1>1, <1>2, EmptyIsThere DEF HashesInOrder
<1>7. FoldsAreChained /\ AnchorsFollowFolds
  BY <1>1, <1>2 DEF FoldsAreChained, AnchorsFollowFolds
<1> QED BY <1>3, <1>4, <1>5, <1>6, <1>7 DEF FoldInv

\* Start and Stop leave the chain alone.
LEMMA ChainStays ==
  ASSUME NEW o, FoldInv(o), UNCHANGED <<lastHash, folds, anchored>>
  PROVE  /\ HashesInOrder' /\ FoldsAreChained' /\ AnchorsFollowFolds'
         /\ lastHash' \in FoldHashes /\ folds' \in Seq(FoldRecords) /\ Len(folds') <= MaxFolds
         /\ anchored' \in Seq(FoldHashes)
BY DEF FoldInv, HashesInOrder, FoldsAreChained, AnchorsFollowFolds, FoldTypes

LEMMA StartFoldKeepsInv == ASSUME NEW o \in SchedulerOwners, FoldInv(o), StartFold(o) PROVE FoldInv(o)'
<1>1. FoldTypes /\ OwnerInOrder(o) /\ TicksInOrder /\ OneLoop
  BY DEF FoldInv
<1>2. /\ ~ schedRunning /\ Len(loops) < MaxStarts /\ owner[o].at = "idle" /\ schedRunning' = TRUE
      /\ owner' = [owner EXCEPT ![o].at = "starting"]
      /\ UNCHANGED <<loops, lastHash, folds, anchored>>
  BY DEF StartFold, Call
<1>3. FoldTypes'
  <2>1. schedRunning' \in BOOLEAN
    BY <1>2
  <2> QED BY <1>1, <1>2, <2>1 DEF FoldTypes
<1>4. owner'[o].at = "starting" /\ \A p \in SchedulerOwners \ {o} : owner'[p] = owner[p]
  BY <1>1, <1>2 DEF FoldTypes
<1>5. OwnerInOrder(o)'
  BY <1>1, <1>2, <1>4 DEF OwnerInOrder
<1>6. TicksInOrder' /\ OneLoop'
  BY <1>1, <1>2 DEF TicksInOrder, OneLoop
<1> QED BY <1>2, <1>3, <1>5, <1>6, ChainStays DEF FoldInv

LEMMA SpawnLoopKeepsInv == ASSUME WitnessAssumption, NEW o \in SchedulerOwners, FoldInv(o), SpawnLoop(o) PROVE FoldInv(o)'
<1>1. FoldTypes /\ OwnerInOrder(o) /\ TicksInOrder /\ OneLoop
  BY DEF FoldInv
<1> DEFINE L == Len(loops)  new == NewLoop(L + 1)
<1>2. /\ owner[o].at = "starting" /\ owner' = [owner EXCEPT ![o].at = "idle"] /\ loops' = Append(loops, new)
      /\ UNCHANGED <<schedRunning, lastHash, folds, anchored>>
  BY DEF SpawnLoop, Call
<1>4. loops \in Seq(LoopRecords) /\ L \in Nat /\ DOMAIN loops = 1..L
  BY <1>1, LoopsOf DEF FoldTypes
<1>3. new \in LoopRecords /\ new.pc = "select" /\ ~new.stop
  BY <1>4, EmptyIsThere DEF NewLoop, LoopRecords, WitnessAssumption
<1> HIDE DEF new
<1>5. /\ loops' \in Seq(LoopRecords) /\ Len(loops') = L + 1 /\ DOMAIN loops' = 1..(L + 1)
      /\ \A n \in 1..L : loops'[n] = loops[n]
      /\ loops'[L + 1].pc = "select" /\ ~loops'[L + 1].stop
  BY <1>2, <1>3, <1>4, AppendProperties, LenProperties
<1>6. schedRunning /\ L < MaxStarts /\ \A n \in 1..L : loops[n].pc = "ended"
  BY <1>1, <1>2, <1>4 DEF OwnerInOrder
<1>5a. LatestLoop' = L + 1
  BY <1>5 DEF LatestLoop
<1> HIDE DEF L
<1>7. L + 1 <= MaxStarts
  BY <1>4, <1>6 DEF WitnessAssumption
<1>8. FoldTypes'
  BY <1>1, <1>2, <1>5, <1>7 DEF FoldTypes
<1>9. owner'[o].at = "idle" /\ \A p \in SchedulerOwners \ {o} : owner'[p] = owner[p]
  BY <1>1, <1>2 DEF FoldTypes
<1>10. OwnerInOrder(o)'
  <2>1. loops' # <<>>
    BY <1>4, <1>5
  <2> QED BY <1>1, <1>2, <1>5, <1>5a, <1>6, <1>9, <2>1 DEF OwnerInOrder
<1>11. \A n \in 1..(L + 1) : n \in 1..L \/ n = L + 1
  BY <1>4
<1>12. TicksInOrder'
  BY <1>1, <1>2, <1>4, <1>5, <1>6, <1>11 DEF TicksInOrder
<1>13. OneLoop'
  <2>1. \A m, n \in 1..(L + 1) : m < n => m \in 1..L
    BY <1>4
  <2> QED BY <2>1, <1>5, <1>6 DEF OneLoop
<1> QED BY <1>2, <1>8, <1>10, <1>12, <1>13, ChainStays DEF FoldInv

LEMMA StopFoldKeepsInv == ASSUME NEW o \in SchedulerOwners, FoldInv(o), StopFold(o) PROVE FoldInv(o)'
<1>1. FoldTypes /\ OwnerInOrder(o) /\ TicksInOrder /\ OneLoop
  BY DEF FoldInv
<1>2. /\ schedRunning /\ owner[o].at = "idle" /\ schedRunning' = FALSE
      /\ owner' = [owner EXCEPT ![o].at = "stopping"]
      /\ UNCHANGED <<loops, lastHash, folds, anchored>>
  BY DEF StopFold, Call
<1>3. FoldTypes'
  <2>1. schedRunning' \in BOOLEAN
    BY <1>2
  <2> QED BY <1>1, <1>2, <2>1 DEF FoldTypes
<1>4. owner'[o].at = "stopping" /\ \A p \in SchedulerOwners \ {o} : owner'[p] = owner[p]
  BY <1>1, <1>2 DEF FoldTypes
<1>5. OwnerInOrder(o)'
  BY <1>1, <1>2, <1>4 DEF OwnerInOrder, LatestLoop
<1>6. TicksInOrder' /\ OneLoop'
  BY <1>1, <1>2 DEF TicksInOrder, OneLoop
<1> QED BY <1>2, <1>3, <1>5, <1>6, ChainStays DEF FoldInv

\* The channel that Stop closes is there and open.
LEMMA CloseStopChKeepsInv == ASSUME NEW o \in SchedulerOwners, FoldInv(o), CloseStopCh(o) PROVE FoldInv(o)'
<1>1. FoldTypes /\ OwnerInOrder(o) /\ TicksInOrder /\ OneLoop
  BY DEF FoldInv
<1>2. owner[o].at = "stopping" /\ UNCHANGED <<schedRunning, lastHash, folds, anchored>>
  BY DEF CloseStopCh, Call
<1>2a. ClosesAChannel
  BY <1>1, <1>2 DEF OwnerInOrder, ClosesAChannel
<1>2b. owner' = [owner EXCEPT ![o].at = "closed"] /\ loops' = [loops EXCEPT ![LatestLoop].stop = TRUE]
  BY <1>2a DEF CloseStopCh, Call
<1> DEFINE n == Len(loops)  c == loops[n]  r == [c EXCEPT !.stop = TRUE]
<1>3. n \in DOMAIN loops /\ n \in Nat /\ loops \in Seq(LoopRecords) /\ DOMAIN loops = 1..n /\ c \in LoopRecords
  <2>1. loops # <<>>
    BY <1>1, <1>2 DEF OwnerInOrder
  <2>2. loops \in Seq(LoopRecords)
    BY <1>1 DEF FoldTypes
  <2> QED BY <1>1, <2>1, <2>2, LoopsOf, EmptySeq
<1>4. r \in LoopRecords /\ r.pc = c.pc /\ r.prev = c.prev
  BY <1>3 DEF LoopRecords
<1>5. loops' = [loops EXCEPT ![n] = r]
  BY <1>2b DEF LatestLoop
<1> HIDE DEF r
<1>6. /\ loops' \in Seq(LoopRecords) /\ Len(loops') = Len(loops) /\ DOMAIN loops' = DOMAIN loops
      /\ \A m \in DOMAIN loops : loops'[m].pc = loops[m].pc /\ loops'[m].prev = loops[m].prev
  BY <1>3, <1>4, <1>5, ExceptSeq
<1>7. FoldTypes'
  BY <1>1, <1>2, <1>2b, <1>6 DEF FoldTypes
<1>8. owner'[o].at = "closed" /\ \A p \in SchedulerOwners \ {o} : owner'[p] = owner[p]
  BY <1>1, <1>2b DEF FoldTypes
<1>9. OwnerInOrder(o)'
  <2>1. loops' # <<>>
    BY <1>3, <1>6
  <2>2. ~schedRunning /\ schedRunning' = schedRunning
    BY <1>1, <1>2 DEF OwnerInOrder
  <2> QED BY <1>1, <1>8, <2>1, <2>2 DEF OwnerInOrder
<1>10. TicksInOrder' /\ OneLoop'
  BY <1>1, <1>2, <1>6 DEF TicksInOrder, OneLoop
<1> QED BY <1>2, <1>7, <1>9, <1>10, ChainStays DEF FoldInv

LEMMA TakeDoneChKeepsInv == ASSUME NEW o \in SchedulerOwners, FoldInv(o), TakeDoneCh(o) PROVE FoldInv(o)'
<1>1. FoldTypes /\ OwnerInOrder(o) /\ TicksInOrder /\ OneLoop
  BY DEF FoldInv
<1>2. /\ owner[o].at = "closed" /\ owner' = [owner EXCEPT ![o] = [at |-> "waiting", doneCh |-> LatestLoop]]
      /\ UNCHANGED <<schedRunning, loops, lastHash, folds, anchored>>
  BY DEF TakeDoneCh
<1>3. owner'[o] = [at |-> "waiting", doneCh |-> LatestLoop] /\ \A p \in SchedulerOwners \ {o} : owner'[p] = owner[p]
  BY <1>1, <1>2 DEF FoldTypes
<1>4. FoldTypes'
  <2>1. LatestLoop \in Nat
    BY <1>1, LoopsOf DEF LatestLoop
  <2> QED BY <1>1, <1>2, <2>1 DEF FoldTypes
<1>5. OwnerInOrder(o)'
  BY <1>1, <1>2, <1>3 DEF OwnerInOrder, LatestLoop
<1>6. TicksInOrder' /\ OneLoop'
  BY <1>1, <1>2 DEF TicksInOrder, OneLoop
<1> QED BY <1>2, <1>4, <1>5, <1>6, ChainStays DEF FoldInv

LEMMA DoneChClosedKeepsInv == ASSUME NEW o \in SchedulerOwners, FoldInv(o), DoneChClosed(o) PROVE FoldInv(o)'
<1>1. FoldTypes /\ OwnerInOrder(o) /\ TicksInOrder /\ OneLoop
  BY DEF FoldInv
<1>2. /\ owner[o].at = "waiting" /\ owner' = [owner EXCEPT ![o] = NoCall]
      /\ InLoop(owner[o].doneCh, "ended")
      /\ UNCHANGED <<schedRunning, loops, lastHash, folds, anchored>>
  BY DEF DoneChClosed, StopReturns
<1>3. owner'[o] = NoCall /\ \A p \in SchedulerOwners \ {o} : owner'[p] = owner[p]
  BY <1>1, <1>2 DEF FoldTypes
<1>3a. LatestLoop \in DOMAIN loops /\ loops[LatestLoop].pc = "ended" /\ loops # <<>>
  BY <1>1, <1>2 DEF OwnerInOrder, InLoop
<1>4. \A n \in DOMAIN loops : loops[n].pc = "ended"
  <2> DEFINE L == Len(loops)
  <2>1. L \in Nat /\ DOMAIN loops = 1..L /\ L \in DOMAIN loops /\ loops[L].pc = "ended"
    BY <1>1, <1>3a, LoopsOf DEF LatestLoop
  <2> HIDE DEF L
  <2>2. \A n \in 1..L : n = L \/ n < L
    BY <2>1
  <2> QED BY <2>1, <2>2, <1>1 DEF OneLoop
<1>5. FoldTypes'
  BY <1>1, <1>2 DEF FoldTypes, NoCall
<1>5a. ~schedRunning
  BY <1>1, <1>2 DEF OwnerInOrder
<1>6. OwnerInOrder(o)'
  BY <1>1, <1>2, <1>3, <1>4, <1>5a DEF OwnerInOrder, NoCall
<1>7. TicksInOrder' /\ OneLoop'
  BY <1>1, <1>2 DEF TicksInOrder, OneLoop
<1> QED BY <1>2, <1>5, <1>6, <1>7, ChainStays DEF FoldInv

\* A goroutine that moves while the chain stays.
LEMMA LoopMoves ==
  ASSUME NEW o, FoldInv(o), NEW n \in DOMAIN loops, NEW r \in LoopRecords, loops' = [loops EXCEPT ![n] = r],
         UNCHANGED <<owner, schedRunning, lastHash, folds, anchored>>, loops[n].pc = "ended" => r.pc = "ended",
         r.stop = loops[n].stop,
         r.pc \in {"compute", "anchor"} => r.prev = lastHash,
         r.pc = "compute" => Len(folds) < MaxFolds,
         r.pc = "anchor" => folds # <<>>
  PROVE  FoldInv(o)'
<1>1. FoldTypes /\ TicksInOrder
  BY DEF FoldInv
<1>2. /\ loops' \in Seq(LoopRecords) /\ Len(loops') = Len(loops) /\ DOMAIN loops' = DOMAIN loops
      /\ loops'[n] = r /\ \A m \in DOMAIN loops \ {n} : loops'[m] = loops[m]
      /\ OwnerInOrder(o)' /\ OneLoop'
  BY LoopBecomes
<1>3. FoldTypes'
  BY <1>1, <1>2 DEF FoldTypes
<1>4. TicksInOrder'
  BY <1>1, <1>2 DEF TicksInOrder
<1> QED BY <1>2, <1>3, <1>4, ChainStays DEF FoldInv

LEMMA CancelCtxKeepsInv == ASSUME NEW o, FoldInv(o), NEW n, CancelCtx(n) PROVE FoldInv(o)'
<1> DEFINE c == loops[n]  r == [c EXCEPT !.ctxDone = TRUE]
<1>1. /\ n \in DOMAIN loops /\ loops' = [loops EXCEPT ![n] = r]
      /\ UNCHANGED <<owner, schedRunning, lastHash, folds, anchored>>
  BY DEF CancelCtx
<1>2. c \in LoopRecords /\ TicksInOrder
  BY <1>1, LoopsOf DEF FoldInv
<1>3. r \in LoopRecords /\ r.pc = c.pc /\ r.prev = c.prev /\ r.stop = c.stop
  BY <1>2 DEF LoopRecords
<1> HIDE DEF r
<1> QED BY <1>1, <1>2, <1>3, LoopMoves DEF TicksInOrder

LEMMA EndLoopKeepsInv == ASSUME NEW o, FoldInv(o), NEW n, EndLoop(n) PROVE FoldInv(o)'
<1> DEFINE c == loops[n]  r == [c EXCEPT !.pc = "ended"]
<1>1. /\ n \in DOMAIN loops /\ loops' = [loops EXCEPT ![n] = r]
      /\ UNCHANGED <<owner, schedRunning, lastHash, folds, anchored>>
  BY DEF EndLoop, InLoop
<1>2. c \in LoopRecords
  BY <1>1, LoopsOf DEF FoldInv
<1>3. r \in LoopRecords /\ r.pc = "ended" /\ r.stop = c.stop
  BY <1>2 DEF LoopRecords
<1> HIDE DEF r
<1> QED BY <1>1, <1>3, LoopMoves

LEMMA GetWitnessesKeepsInv == ASSUME ~overlapped, NEW o, FoldInv(o), NEW n, GetWitnesses(n) PROVE FoldInv(o)'
<1>1. PICK ws \in WitnessLists :
        loops' = [loops EXCEPT ![n].pc = "compute", ![n].prev = lastHash, ![n].witnesses = ws]
  BY DEF GetWitnesses
<1> DEFINE c == loops[n]  r == [c EXCEPT !.pc = "compute", !.prev = lastHash, !.witnesses = ws]
<1>2. /\ n \in DOMAIN loops /\ loops' = [loops EXCEPT ![n] = r] /\ c.pc = "select" /\ Len(folds) < MaxFolds
      /\ UNCHANGED <<owner, schedRunning, lastHash, folds, anchored>>
  BY <1>1 DEF GetWitnesses, InLoop
<1>3. c \in LoopRecords /\ lastHash \in FoldHashes
  BY <1>2, LoopsOf DEF FoldInv, FoldTypes
<1>4. r \in LoopRecords /\ r.pc = "compute" /\ r.prev = lastHash /\ r.stop = c.stop
  BY <1>3 DEF LoopRecords
<1> HIDE DEF r
<1> QED BY <1>2, <1>4, LoopMoves

\* The end of a tick.
LEMMA EndTickIs ==
  ASSUME WitnessAssumption, FoldTypes, NEW n \in DOMAIN loops, EndTick(n)
  PROVE  \E r \in LoopRecords : r.pc = "select" /\ r.stop = loops[n].stop /\ loops' = [loops EXCEPT ![n] = r]
<1> DEFINE c == loops[n]
<1>1. c \in LoopRecords /\ LatestLoop \in Nat
  BY LoopsOf DEF LatestLoop
<1>2. 0 \in 0..AnchorRetries
  BY DEF WitnessAssumption
<1>3. PICK s \in {c.selects, LatestLoop} :
        loops' = [loops EXCEPT ![n].pc = "select", ![n].selects = s, ![n].prev = ZeroHash,
                               ![n].witnesses = <<>>, ![n].attempts = 0]
  BY DEF EndTick
<1> DEFINE r == [c EXCEPT !.pc = "select", !.selects = s, !.prev = ZeroHash, !.witnesses = <<>>, !.attempts = 0]
<1>4. s \in Nat
  BY <1>1 DEF LoopRecords
<1>5. r \in LoopRecords /\ r.pc = "select" /\ r.stop = c.stop
  BY <1>1, <1>2, <1>4, EmptyIsThere DEF LoopRecords
<1>6. loops' = [loops EXCEPT ![n] = r]
  BY <1>3
<1> HIDE DEF r
<1> QED BY <1>5, <1>6

LEMMA FoldFailsKeepsInv == ASSUME WitnessAssumption, NEW o, FoldInv(o), NEW n, FoldFails(n) PROVE FoldInv(o)'
<1>1. /\ n \in DOMAIN loops /\ loops[n].pc = "compute" /\ EndTick(n)
      /\ UNCHANGED <<owner, schedRunning, lastHash, folds, anchored>>
  BY DEF FoldFails, InLoop, AfterError
<1>2. PICK r \in LoopRecords : r.pc = "select" /\ r.stop = loops[n].stop /\ loops' = [loops EXCEPT ![n] = r]
  BY <1>1, EndTickIs DEF FoldInv
<1> QED BY <1>1, <1>2, LoopMoves

LEMMA AnchorCancelledKeepsInv == ASSUME WitnessAssumption, NEW o, FoldInv(o), NEW n, AnchorCancelled(n) PROVE FoldInv(o)'
<1>1. /\ n \in DOMAIN loops /\ loops[n].pc = "anchor" /\ EndTick(n)
      /\ UNCHANGED <<owner, schedRunning, lastHash, folds, anchored>>
  BY DEF AnchorCancelled, InLoop
<1>2. PICK r \in LoopRecords : r.pc = "select" /\ r.stop = loops[n].stop /\ loops' = [loops EXCEPT ![n] = r]
  BY <1>1, EndTickIs DEF FoldInv
<1> QED BY <1>1, <1>2, LoopMoves

LEMMA FoldInKeepsInv == ASSUME WitnessAssumption, NEW o, FoldInv(o), NEW n, FoldIn(n) PROVE FoldInv(o)'
<1> DEFINE c == loops[n]  list == SerializeCrossWitness(c.witnesses)  hash == Append(lastHash, list)
           f == [prev |-> lastHash, next |-> hash, witnesses |-> c.witnesses]
           r == [c EXCEPT !.pc = "anchor", !.prev = hash]  L == Len(folds)
<1>1. /\ FoldTypes /\ TicksInOrder /\ HashesInOrder /\ FoldsAreChained /\ AnchorsFollowFolds /\ OneLoop
      /\ n \in DOMAIN loops /\ c.pc = "compute" /\ c \in LoopRecords
  BY LoopsOf DEF FoldInv, FoldIn, InLoop
<1>2. c.prev = lastHash /\ L < MaxFolds /\ L \in Nat /\ DOMAIN folds = 1..L /\ folds \in Seq(FoldRecords)
  BY <1>1, LoopsOf DEF TicksInOrder, FoldTypes
<1>3. /\ lastHash' = hash /\ folds' = Append(folds, f) /\ loops' = [loops EXCEPT ![n] = r]
      /\ UNCHANGED <<schedRunning, owner, anchored>>
  BY <1>2 DEF FoldIn, ComputeFoldInHash
<1>4. lastHash \in Seq(FoldLists) /\ list \in FoldLists /\ c.witnesses \in WitnessLists /\ Len(lastHash) = L
  BY <1>1 DEF FoldTypes, FoldHashes, FoldLists, LoopRecords, HashesInOrder
<1>5. hash \in FoldHashes /\ Len(hash) = L + 1
  <2> HIDE DEF list
  <2> QED BY <1>4, AppendProperties DEF FoldHashes
<1>5a. Recomputed(f)
  BY <1>1, <1>2 DEF Recomputed, ComputeFoldInHash, FoldIn
<1> HIDE DEF hash, list
<1>6. f \in FoldRecords /\ r \in LoopRecords /\ r.pc = "anchor" /\ r.prev = hash /\ r.stop = c.stop /\ f.prev = lastHash /\ f.next = hash
  BY <1>1, <1>4, <1>5 DEF FoldRecords, LoopRecords, FoldTypes
<1> HIDE DEF r, f
<1>7. /\ folds' \in Seq(FoldRecords) /\ Len(folds') = L + 1 /\ DOMAIN folds' = 1..(L + 1)
      /\ folds'[L + 1] = f /\ \A k \in 1..L : folds'[k] = folds[k]
  BY <1>2, <1>3, <1>6, AppendProperties, LenProperties
<1>8. /\ loops' \in Seq(LoopRecords) /\ Len(loops') = Len(loops) /\ DOMAIN loops' = DOMAIN loops
      /\ loops'[n] = r /\ \A m \in DOMAIN loops \ {n} : loops'[m] = loops[m]
      /\ OwnerInOrder(o)' /\ OneLoop'
  BY <1>1, <1>3, <1>6, LoopBecomes
<1> HIDE DEF L
<1>9. L + 1 <= MaxFolds
  BY <1>2 DEF WitnessAssumption
<1>10. FoldTypes'
  BY <1>1, <1>3, <1>5, <1>7, <1>8, <1>9 DEF FoldTypes
<1>11. folds' # <<>>
  BY <1>2, <1>7
<1>12. TicksInOrder'
  <2>1. \A m \in DOMAIN loops \ {n} : loops'[m].pc = "ended"
    BY <1>1, <1>8, WorksAlone
  <2> QED BY <2>1, <1>3, <1>6, <1>8, <1>11 DEF TicksInOrder
<1>13. \A k \in 1..(L + 1) : k \in 1..L \/ k = L + 1
  BY <1>2
<1>14. HashesInOrder'
  <2>1. \A k \in 1..L : Len(folds'[k].next) = k /\ Recomputed(folds'[k])
    BY <1>1, <1>2, <1>7 DEF HashesInOrder
  <2>2. Len(folds'[L + 1].next) = L + 1 /\ Recomputed(folds'[L + 1])
    BY <1>5, <1>5a, <1>6, <1>7
  <2>3. \A k \in 1..(L + 1) : Len(folds'[k].next) = k /\ Recomputed(folds'[k])
    BY <2>1, <2>2, <1>13
  <2>4. lastHash' = folds'[L + 1].next
    BY <1>3, <1>6, <1>7
  <2> QED BY <2>3, <2>4, <1>3, <1>5, <1>7, <1>11 DEF HashesInOrder
<1>15. FoldsAreChained'
  <2>1. \A k \in 1..L : k = 1 \/ k - 1 \in 1..L
    BY <1>2
  <2>2. \A k \in 1..L : folds'[k].prev = IF k = 1 THEN ZeroHash ELSE folds'[k - 1].next
    BY <1>1, <1>2, <1>7, <2>1 DEF FoldsAreChained
  <2>3. folds'[L + 1].prev = IF L + 1 = 1 THEN ZeroHash ELSE folds'[(L + 1) - 1].next
    <3>1. CASE L = 0
      <4>1. folds = <<>>
        BY <3>1, <1>2, EmptySeq DEF L
      <4>2. lastHash = ZeroHash
        BY <4>1, <1>1 DEF HashesInOrder
      <4> QED BY <3>1, <4>2, <1>6, <1>7
    <3>2. CASE L # 0
      <4>1. folds # <<>> /\ L \in 1..L /\ (L + 1) - 1 = L
        BY <3>2, <1>2
      <4>2. lastHash = folds[L].next
        BY <4>1, <1>1 DEF HashesInOrder, L
      <4> QED BY <3>2, <4>1, <4>2, <1>2, <1>6, <1>7
    <3> QED BY <3>1, <3>2
  <2>4. \A k \in 1..(L + 1) : folds'[k].prev = IF k = 1 THEN ZeroHash ELSE folds'[k - 1].next
    BY <2>2, <2>3, <1>13
  <2> QED BY <2>4, <1>7 DEF FoldsAreChained
<1>16. AnchorsFollowFolds'
  <2>1. \A k \in 1..L : k \in 1..(L + 1)
    BY <1>2
  <2>2. \A i \in DOMAIN anchored : \E k \in 1..L : anchored[i] = folds[k].next
    BY <1>1, <1>2 DEF AnchorsFollowFolds
  <2>3. \A i \in DOMAIN anchored : \E k \in 1..(L + 1) : anchored[i] = folds'[k].next
    BY <2>1, <2>2, <1>7
  <2> QED BY <2>3, <1>1, <1>3, <1>7 DEF AnchorsFollowFolds
<1> QED BY <1>8, <1>10, <1>12, <1>14, <1>15, <1>16 DEF FoldInv

\* What is posted is the latest hash.
LEMMA LatestIsAnchored ==
  ASSUME NEW o, FoldInv(o), NEW n \in DOMAIN loops, loops[n].pc = "anchor",
         anchored' = Append(anchored, loops[n].prev), UNCHANGED folds
  PROVE  anchored' \in Seq(FoldHashes) /\ AnchorsFollowFolds'
<1> DEFINE h == lastHash  L == Len(folds)  A == Len(anchored)
<1>1. /\ FoldTypes /\ TicksInOrder /\ HashesInOrder /\ AnchorsFollowFolds
      /\ loops[n].prev = h /\ folds # <<>> /\ h \in FoldHashes /\ anchored \in Seq(FoldHashes)
  BY DEF FoldInv, TicksInOrder, FoldTypes
<1>2. L \in Nat /\ DOMAIN folds = 1..L /\ A \in Nat /\ DOMAIN anchored = 1..A /\ L \in 1..L
  <2>1. L # 0
    BY <1>1, EmptySeq DEF FoldTypes
  <2> QED BY <1>1, <2>1, LoopsOf
<1>3. h = folds[L].next /\ Len(h) = L
  BY <1>1 DEF HashesInOrder
<1>4. /\ anchored' \in Seq(FoldHashes) /\ Len(anchored') = A + 1 /\ DOMAIN anchored' = 1..(A + 1)
      /\ anchored'[A + 1] = h /\ \A i \in 1..A : anchored'[i] = anchored[i]
  <2>1. anchored' = Append(anchored, h)
    BY <1>1
  <2> HIDE DEF h
  <2> QED BY <2>1, <1>1, AppendProperties, LenProperties
<1> HIDE DEF h, L, A
<1>5. \A i \in 1..A : \E k \in 1..L : anchored[i] = folds[k].next /\ Len(anchored[i]) = k /\ k <= L
  <2>1. \A k \in 1..L : Len(folds[k].next) = k /\ k <= L
    BY <1>1, <1>2 DEF HashesInOrder
  <2>2. \A i \in 1..A : \E k \in 1..L : anchored[i] = folds[k].next
    BY <1>1, <1>2 DEF AnchorsFollowFolds
  <2> QED BY <2>1, <2>2
<1>6. \A i \in 1..(A + 1) : i \in 1..A \/ i = A + 1
  BY <1>2
<1>7. \A i \in 1..(A + 1) : \E k \in 1..L : anchored'[i] = folds[k].next
  BY <1>2, <1>3, <1>4, <1>5, <1>6
<1>8. ASSUME NEW i \in 1..(A + 1), NEW j \in 1..(A + 1), i < j
      PROVE  Len(anchored'[i]) <= Len(anchored'[j])
  <2>1. i \in 1..A
    BY <1>2, <1>8
  <2>2. CASE j \in 1..A
    BY <1>1, <1>2, <1>4, <1>8, <2>1, <2>2 DEF AnchorsFollowFolds
  <2>3. CASE j = A + 1
    <3>1. Len(anchored'[j]) = L
      BY <1>3, <1>4, <2>3
    <3>2. Len(anchored'[i]) <= L
      BY <1>4, <1>5, <2>1
    <3> QED BY <3>1, <3>2
  <2> QED BY <2>2, <2>3, <1>6
<1> QED BY <1>2, <1>4, <1>7, <1>8 DEF AnchorsFollowFolds

LEMMA PostAnchorKeepsInv == ASSUME WitnessAssumption, NEW o, FoldInv(o), NEW n, PostAnchor(n) PROVE FoldInv(o)'
<1> DEFINE c == loops[n]  again == [c EXCEPT !.attempts = @ + 1]
<1>1. /\ FoldTypes /\ TicksInOrder /\ HashesInOrder /\ FoldsAreChained /\ AnchorsFollowFolds
      /\ n \in DOMAIN loops /\ c.pc = "anchor" /\ c \in LoopRecords
      /\ UNCHANGED <<schedRunning, owner, lastHash, folds>>
  BY LoopsOf DEF FoldInv, PostAnchor, InLoop
<1>2. anchored' = Append(anchored, c.prev) \/ anchored' = anchored
  BY DEF PostAnchor
<1>3. EndTick(n) \/ (c.attempts + 1 # AnchorTries /\ loops' = [loops EXCEPT ![n] = again])
  BY DEF PostAnchor
<1>4. PICK r \in LoopRecords : r.pc \in {"select", "anchor"} /\ (r.pc = "anchor" => r.prev = c.prev) /\ r.stop = c.stop
                               /\ loops' = [loops EXCEPT ![n] = r]
  <2>1. CASE EndTick(n)
    BY <2>1, <1>1, EndTickIs
  <2>2. CASE c.attempts + 1 # AnchorTries /\ loops' = [loops EXCEPT ![n] = again]
    <3>1. c.attempts + 1 \in 0..AnchorRetries
      BY <1>1, <2>2 DEF LoopRecords, AnchorTries, WitnessAssumption
    <3>2. again \in LoopRecords /\ again.pc = "anchor" /\ again.prev = c.prev /\ again.stop = c.stop
      BY <1>1, <3>1 DEF LoopRecords
    <3> HIDE DEF again
    <3> QED BY <2>2, <3>2
  <2> QED BY <1>3, <2>1, <2>2
<1>5. anchored' \in Seq(FoldHashes) /\ AnchorsFollowFolds'
  <2>1. CASE anchored' = Append(anchored, c.prev)
    BY <1>1, <2>1, LatestIsAnchored
  <2>2. CASE anchored' = anchored
    BY <1>1, <2>2 DEF AnchorsFollowFolds, FoldTypes
  <2> QED BY <1>2, <2>1, <2>2
<1>6. /\ loops' \in Seq(LoopRecords) /\ Len(loops') = Len(loops) /\ DOMAIN loops' = DOMAIN loops
      /\ loops'[n] = r /\ \A m \in DOMAIN loops \ {n} : loops'[m] = loops[m]
      /\ OwnerInOrder(o)' /\ OneLoop'
  BY <1>1, <1>4, LoopBecomes
<1>7. FoldTypes'
  BY <1>1, <1>5, <1>6 DEF FoldTypes
<1>8. TicksInOrder'
  BY <1>1, <1>4, <1>6 DEF TicksInOrder
<1>9. HashesInOrder' /\ FoldsAreChained'
  BY <1>1 DEF HashesInOrder, FoldsAreChained
<1> QED BY <1>5, <1>6, <1>7, <1>8, <1>9 DEF FoldInv

\* With everyone idle anyone may be the one that calls.
LEMMA AnyoneMayCall ==
  ASSUME NEW o \in SchedulerOwners, NEW p \in SchedulerOwners, FoldInv(o), \A q \in SchedulerOwners : owner[q].at = "idle"
  PROVE  FoldInv(p)
<1>1. OwnerInOrder(p)
  BY DEF FoldInv, OwnerInOrder
<1> QED BY <1>1 DEF FoldInv

\* A step after which no two calls have overlapped.
LEMMA FoldNextKeepsInv ==
  ASSUME WitnessAssumption, OneCaller, [FoldNext]_foldVars
  PROVE  OneCaller'
<1> SUFFICES ASSUME ~overlapped' PROVE \E o \in SchedulerOwners : FoldInv(o)'
  BY DEF OneCaller
<1>1. ~overlapped
  BY DEF FoldNext, foldVars, StartFold, NotesOverlap, SpawnLoop, StopFold, SchedulerStop, CloseStopCh, TakeDoneCh,
         DoneChClosed, CancelCtx, GetWitnesses, LoopStep, EndLoop, FoldFails, FoldIn, PostAnchor, AnchorCancelled
<1>2. PICK o \in SchedulerOwners : FoldInv(o)
  BY <1>1 DEF OneCaller
<1>3. ASSUME NEW p \in SchedulerOwners, StartFold(p) \/ StopFold(p)
      PROVE  FoldInv(p)'
  <2>1. \A q \in SchedulerOwners : owner[q].at = "idle"
    BY <1>3 DEF StartFold, StopFold, NotesOverlap
  <2>2. FoldInv(p)
    BY <1>2, <2>1, AnyoneMayCall
  <2> QED BY <1>3, <2>2, StartFoldKeepsInv, StopFoldKeepsInv
<1>4. ASSUME NEW p \in SchedulerOwners, SpawnLoop(p) \/ SchedulerStop(p)
      PROVE  FoldInv(p)'
  <2>1. owner[p].at # "idle"
    BY <1>4 DEF SpawnLoop, SchedulerStop, CloseStopCh, TakeDoneCh, DoneChClosed, Call
  <2>2. p = o
    BY <1>2, <2>1 DEF FoldInv, OwnerInOrder
  <2> QED BY <1>2, <1>4, <2>2, SpawnLoopKeepsInv, CloseStopChKeepsInv, TakeDoneChKeepsInv, DoneChClosedKeepsInv
          DEF SchedulerStop
<1>5. ASSUME NEW n \in 1..MaxStarts, CancelCtx(n) \/ GetWitnesses(n) \/ LoopStep(n)
      PROVE  FoldInv(o)'
  BY <1>1, <1>2, <1>5, CancelCtxKeepsInv, GetWitnessesKeepsInv, EndLoopKeepsInv, FoldFailsKeepsInv, FoldInKeepsInv,
     PostAnchorKeepsInv, AnchorCancelledKeepsInv DEF LoopStep
<1>6. ASSUME UNCHANGED foldVars
      PROVE  FoldInv(o)'
  BY <1>2, <1>6 DEF foldVars, FoldInv, FoldTypes, OwnerInOrder, LatestLoop, TicksInOrder, HashesInOrder,
     FoldsAreChained, OneLoop, AnchorsFollowFolds
<1> QED BY <1>2, <1>3, <1>4, <1>5, <1>6 DEF FoldNext

LEMMA OneCallerIsSafe ==
  ASSUME WitnessAssumption, OneCaller
  PROVE  FoldSafety
<1> SUFFICES ASSUME NEW o \in SchedulerOwners, FoldInv(o)
             PROVE  FoldsAreChained /\ OneLoop /\ StopNeverPanics /\ VerifierAgrees /\ AnchorsFollowFolds
  BY DEF OneCaller, FoldSafety
<1>1. StopNeverPanics
  BY DEF FoldInv, FoldTypes, StopNeverPanics, Panicked
<1>2. VerifierAgrees
  BY FoldsVerify DEF FoldInv, FoldTypes, HashesInOrder
<1> QED BY <1>1, <1>2 DEF FoldInv

\* Cross witnesses, for any callers of Start and Stop, tenants, checkpoints, retries,
\* restarts and folds: until a call overlaps another, one loop works at a time ("a single
\* goroutine, one tick in flight", scheduler.go:18), no Stop closes a channel twice or one
\* that is not there, the folds are one chain over all restarts, which a tick that fails
\* leaves without a gap, whoever recomputes a fold gets its hash from the same checkpoints
\* in any order and from no others (fold.go, VerifyFoldIn), and what is anchored is the
\* folds in their order.  Start and Stop do not exclude one another: without that condition
\* the first two are false, and so is the chain.
THEOREM FoldsAreOneChain ==
  FoldInit /\ [][FoldNext]_foldVars => []FoldSafety
<1>1. FoldInit => OneCaller
  BY FoldInitInv, WitnessAssumption DEF OneCaller, WitnessAssumption
<1>2. OneCaller /\ [FoldNext]_foldVars => OneCaller'
  BY FoldNextKeepsInv, WitnessAssumption
<1>3. OneCaller => FoldSafety
  BY OneCallerIsSafe, WitnessAssumption
<1> QED BY <1>1, <1>2, <1>3, PTL

--------------------------------------------------------------------------------
(* The dashboard.  Its table is finite and names no sub-control twice. *)

LEMMA EightAreFinite == \A a, b, c, d, e, f, g, h : IsFiniteSet({a, b, c, d, e, f, g, h})
  <1> TAKE a, b, c, d, e, f, g, h
  <1>1. IsFiniteSet({a}) /\ IsFiniteSet({b}) /\ IsFiniteSet({c}) /\ IsFiniteSet({d})
        /\ IsFiniteSet({e}) /\ IsFiniteSet({f}) /\ IsFiniteSet({g}) /\ IsFiniteSet({h})
    BY FS_Singleton
  <1>2. IsFiniteSet({a} \cup {b}) /\ IsFiniteSet({c} \cup {d}) /\ IsFiniteSet({e} \cup {f}) /\ IsFiniteSet({g} \cup {h})
    BY <1>1, FS_Union
  <1>3. IsFiniteSet(({a} \cup {b}) \cup ({c} \cup {d})) /\ IsFiniteSet(({e} \cup {f}) \cup ({g} \cup {h}))
    BY <1>2, FS_Union
  <1>4. IsFiniteSet((({a} \cup {b}) \cup ({c} \cup {d})) \cup (({e} \cup {f}) \cup ({g} \cup {h})))
    BY <1>3, FS_Union
  <1>5. {a, b, c, d, e, f, g, h} = (({a} \cup {b}) \cup ({c} \cup {d})) \cup (({e} \cup {f}) \cup ({g} \cup {h}))
    OBVIOUS
  <1> QED  BY <1>4, <1>5

LEMMA ControlIs ==
    /\ \A id, actions : /\ Control(id, actions).id = id
                        /\ Control(id, actions).covered = TRUE
    /\ \A id : Gap(id).id = id /\ Gap(id).covered = FALSE
  BY DEF Control, Gap

LEMMA TableIs ==
    ASSUME NEW c \in Categories
    PROVE  /\ IsFiniteSet(SOC2CategoryMappings[c])
           /\ \A s, t \in SOC2CategoryMappings[c] : s.id = t.id => s = t
  <1> DEFINE subs == SOC2CategoryMappings[c]
  <1>1. c \in DOMAIN GovernanceControls \/ (c \in DOMAIN OperationControls /\ c \notin DOMAIN GovernanceControls)
    BY DEF Categories
  <1>2. DOMAIN GovernanceControls = {"CC1", "CC2", "CC3", "CC4", "CC5"}
    BY DEF GovernanceControls
  <1>3. DOMAIN OperationControls = {"CC6", "CC7", "CC8", "CC9", "A1", "A2", "A5"}
    BY DEF OperationControls
  <1>4. subs = IF c \in DOMAIN GovernanceControls THEN GovernanceControls[c] ELSE OperationControls[c]
    BY DEF SOC2CategoryMappings
  <1> HIDE DEF subs
  <1>5. CASE c = "CC1"
    <2>1. subs = {Control("CC1.1", {}),
                  Gap("CC1.2"),
                  Control("CC1.3", {"user_role.synced", "invitation.sent", "invitation.accepted"}),
                  Gap("CC1.4"),
                  Control("CC1.5", Export)}
      BY <1>2, <1>3, <1>4, <1>5 DEF GovernanceControls
    <2> DEFINE a1 == Control("CC1.1", {})
               b1 == Gap("CC1.2")
               c1 == Control("CC1.3", {"user_role.synced", "invitation.sent", "invitation.accepted"})
               d1 == Gap("CC1.4")
               e1 == Control("CC1.5", Export)
    <2>2. subs = {a1, b1, c1, d1, e1}
      BY <2>1
    <2>3. a1.id = "CC1.1" /\ b1.id = "CC1.2" /\ c1.id = "CC1.3" /\ d1.id = "CC1.4" /\ e1.id = "CC1.5"
      BY ControlIs
    <2> HIDE DEF a1, b1, c1, d1, e1
    <2>4. subs = {a1, b1, c1, d1, e1, e1, e1, e1}
      BY <2>2
    <2>5. IsFiniteSet(subs)
      BY <2>4, EightAreFinite
    <2> QED  BY <2>2, <2>3, <2>5 DEF subs
  <1>6. CASE c = "CC2"
    <2>1. subs = {Control("CC2.1", {"evidence.stored", "reporting.generate"}),
                  Control("CC2.2", {"insight.created", "insight.dismissed"}),
                  Control("CC2.3", {"reporting.framework.generate", "reporting.framework.sign"})}
      BY <1>2, <1>3, <1>4, <1>6 DEF GovernanceControls
    <2> DEFINE a1 == Control("CC2.1", {"evidence.stored", "reporting.generate"})
               b1 == Control("CC2.2", {"insight.created", "insight.dismissed"})
               c1 == Control("CC2.3", {"reporting.framework.generate", "reporting.framework.sign"})
    <2>2. subs = {a1, b1, c1}
      BY <2>1
    <2>3. a1.id = "CC2.1" /\ b1.id = "CC2.2" /\ c1.id = "CC2.3"
      BY ControlIs
    <2> HIDE DEF a1, b1, c1
    <2>4. subs = {a1, b1, c1, c1, c1, c1, c1, c1}
      BY <2>2
    <2>5. IsFiniteSet(subs)
      BY <2>4, EightAreFinite
    <2> QED  BY <2>2, <2>3, <2>5 DEF subs
  <1>7. CASE c = "CC3"
    <2>1. subs = {Gap("CC3.1"),
                  Control("CC3.2", {"scan.started", "scan.completed", "scan.failed"}),
                  Control("CC3.3", KeyChanges),
                  Control("CC3.4", {"pack.installed", "pack.lifecycle.deprecated"})}
      BY <1>2, <1>3, <1>4, <1>7 DEF GovernanceControls
    <2> DEFINE a1 == Gap("CC3.1")
               b1 == Control("CC3.2", {"scan.started", "scan.completed", "scan.failed"})
               c1 == Control("CC3.3", KeyChanges)
               d1 == Control("CC3.4", {"pack.installed", "pack.lifecycle.deprecated"})
    <2>2. subs = {a1, b1, c1, d1}
      BY <2>1
    <2>3. a1.id = "CC3.1" /\ b1.id = "CC3.2" /\ c1.id = "CC3.3" /\ d1.id = "CC3.4"
      BY ControlIs
    <2> HIDE DEF a1, b1, c1, d1
    <2>4. subs = {a1, b1, c1, d1, d1, d1, d1, d1}
      BY <2>2
    <2>5. IsFiniteSet(subs)
      BY <2>4, EightAreFinite
    <2> QED  BY <2>2, <2>3, <2>5 DEF subs
  <1>8. CASE c = "CC4"
    <2>1. subs = {Control("CC4.1", {"scan.completed", "scan.failed", "scan.cancelled"}),
                  Control("CC4.2", Export \cup {"insight.created"})}
      BY <1>2, <1>3, <1>4, <1>8 DEF GovernanceControls
    <2> DEFINE a1 == Control("CC4.1", {"scan.completed", "scan.failed", "scan.cancelled"})
               b1 == Control("CC4.2", Export \cup {"insight.created"})
    <2>2. subs = {a1, b1}
      BY <2>1
    <2>3. a1.id = "CC4.1" /\ b1.id = "CC4.2"
      BY ControlIs
    <2> HIDE DEF a1, b1
    <2>4. subs = {a1, b1, b1, b1, b1, b1, b1, b1}
      BY <2>2
    <2>5. IsFiniteSet(subs)
      BY <2>4, EightAreFinite
    <2> QED  BY <2>2, <2>3, <2>5 DEF subs
  <1>9. CASE c = "CC5"
    <2>1. subs = {Control("CC5.1", {"pack.installed"}),
                  Control("CC5.2", {"compliance.profile.created", "compliance.snapshot.generated"}),
                  Control("CC5.3", {"user_role.synced"})}
      BY <1>2, <1>3, <1>4, <1>9 DEF GovernanceControls
    <2> DEFINE a1 == Control("CC5.1", {"pack.installed"})
               b1 == Control("CC5.2", {"compliance.profile.created", "compliance.snapshot.generated"})
               c1 == Control("CC5.3", {"user_role.synced"})
    <2>2. subs = {a1, b1, c1}
      BY <2>1
    <2>3. a1.id = "CC5.1" /\ b1.id = "CC5.2" /\ c1.id = "CC5.3"
      BY ControlIs
    <2> HIDE DEF a1, b1, c1
    <2>4. subs = {a1, b1, c1, c1, c1, c1, c1, c1}
      BY <2>2
    <2>5. IsFiniteSet(subs)
      BY <2>4, EightAreFinite
    <2> QED  BY <2>2, <2>3, <2>5 DEF subs
  <1>10. CASE c = "CC6"
    <2>1. subs = {Control("CC6.1", {"user_role.synced", "sso.login.started", "sso.login.completed"}),
                  Control("CC6.2", {"invitation.sent", "invitation.accepted"}),
                  Control("CC6.3", {"user_role.synced", "sso.provider.created", "sso.provider.updated", "sso.provider.deleted"}),
                  Gap("CC6.4"),
                  Gap("CC6.5"),
                  Control("CC6.6", KeyChanges),
                  Control("CC6.7", Export),
                  Control("CC6.8", {"scan.completed"})}
      BY <1>2, <1>3, <1>4, <1>10 DEF OperationControls
    <2> DEFINE a1 == Control("CC6.1", {"user_role.synced", "sso.login.started", "sso.login.completed"})
               b1 == Control("CC6.2", {"invitation.sent", "invitation.accepted"})
               c1 == Control("CC6.3", {"user_role.synced", "sso.provider.created", "sso.provider.updated", "sso.provider.deleted"})
               d1 == Gap("CC6.4")
               e1 == Gap("CC6.5")
               f1 == Control("CC6.6", KeyChanges)
               g1 == Control("CC6.7", Export)
               h1 == Control("CC6.8", {"scan.completed"})
    <2>2. subs = {a1, b1, c1, d1, e1, f1, g1, h1}
      BY <2>1
    <2>3. a1.id = "CC6.1" /\ b1.id = "CC6.2" /\ c1.id = "CC6.3" /\ d1.id = "CC6.4" /\ e1.id = "CC6.5" /\ f1.id = "CC6.6" /\ g1.id = "CC6.7" /\ h1.id = "CC6.8"
      BY ControlIs
    <2> HIDE DEF a1, b1, c1, d1, e1, f1, g1, h1
    <2>4. subs = {a1, b1, c1, d1, e1, f1, g1, h1}
      BY <2>2
    <2>5. IsFiniteSet(subs)
      BY <2>4, EightAreFinite
    <2> QED  BY <2>2, <2>3, <2>5 DEF subs
  <1>11. CASE c = "CC7"
    <2>1. subs = {Control("CC7.1", Failover \cup {"scan.started", "scan.completed", "scan.failed"}),
                  Control("CC7.2", {"audit.chain.rotation_aborted", "scan.failed"}),
                  Control("CC7.3", {"insight.created", "insight.dismissed"}),
                  Control("CC7.4", Failover \cup {"audit.chain.rotation_aborted"}),
                  Control("CC7.5", Failover)}
      BY <1>2, <1>3, <1>4, <1>11 DEF OperationControls
    <2> DEFINE a1 == Control("CC7.1", Failover \cup {"scan.started", "scan.completed", "scan.failed"})
               b1 == Control("CC7.2", {"audit.chain.rotation_aborted", "scan.failed"})
               c1 == Control("CC7.3", {"insight.created", "insight.dismissed"})
               d1 == Control("CC7.4", Failover \cup {"audit.chain.rotation_aborted"})
               e1 == Control("CC7.5", Failover)
    <2>2. subs = {a1, b1, c1, d1, e1}
      BY <2>1
    <2>3. a1.id = "CC7.1" /\ b1.id = "CC7.2" /\ c1.id = "CC7.3" /\ d1.id = "CC7.4" /\ e1.id = "CC7.5"
      BY ControlIs
    <2> HIDE DEF a1, b1, c1, d1, e1
    <2>4. subs = {a1, b1, c1, d1, e1, e1, e1, e1}
      BY <2>2
    <2>5. IsFiniteSet(subs)
      BY <2>4, EightAreFinite
    <2> QED  BY <2>2, <2>3, <2>5 DEF subs
  <1>12. CASE c = "CC8"
    <2>1. subs = {Control("CC8.1", {"pack.installed", "pack.lifecycle.active", "pack.lifecycle.deprecated", "pack.lifecycle.retired"})}
      BY <1>2, <1>3, <1>4, <1>12 DEF OperationControls
    <2> DEFINE a1 == Control("CC8.1", {"pack.installed", "pack.lifecycle.active", "pack.lifecycle.deprecated", "pack.lifecycle.retired"})
    <2>2. subs = {a1}
      BY <2>1
    <2>3. a1.id = "CC8.1"
      BY ControlIs
    <2> HIDE DEF a1
    <2>4. subs = {a1, a1, a1, a1, a1, a1, a1, a1}
      BY <2>2
    <2>5. IsFiniteSet(subs)
      BY <2>4, EightAreFinite
    <2> QED  BY <2>2, <2>3, <2>5 DEF subs
  <1>13. CASE c = "CC9"
    <2>1. subs = {Control("CC9.1", Failover),
                  Gap("CC9.2")}
      BY <1>2, <1>3, <1>4, <1>13 DEF OperationControls
    <2> DEFINE a1 == Control("CC9.1", Failover)
               b1 == Gap("CC9.2")
    <2>2. subs = {a1, b1}
      BY <2>1
    <2>3. a1.id = "CC9.1" /\ b1.id = "CC9.2"
      BY ControlIs
    <2> HIDE DEF a1, b1
    <2>4. subs = {a1, b1, b1, b1, b1, b1, b1, b1}
      BY <2>2
    <2>5. IsFiniteSet(subs)
      BY <2>4, EightAreFinite
    <2> QED  BY <2>2, <2>3, <2>5 DEF subs
  <1>14. CASE c = "A1"
    <2>1. subs = {Control("A1.1", Failover),
                  Gap("A1.2"),
                  Control("A1.3", Failover \cup {"scan.completed"})}
      BY <1>2, <1>3, <1>4, <1>14 DEF OperationControls
    <2> DEFINE a1 == Control("A1.1", Failover)
               b1 == Gap("A1.2")
               c1 == Control("A1.3", Failover \cup {"scan.completed"})
    <2>2. subs = {a1, b1, c1}
      BY <2>1
    <2>3. a1.id = "A1.1" /\ b1.id = "A1.2" /\ c1.id = "A1.3"
      BY ControlIs
    <2> HIDE DEF a1, b1, c1
    <2>4. subs = {a1, b1, c1, c1, c1, c1, c1, c1}
      BY <2>2
    <2>5. IsFiniteSet(subs)
      BY <2>4, EightAreFinite
    <2> QED  BY <2>2, <2>3, <2>5 DEF subs
  <1>15. CASE c = "A2"
    <2>1. subs = {Control("A2.1", Export \cup {"evidence.stored"}),
                  Control("A2.2", {"audit.gc.complete"})}
      BY <1>2, <1>3, <1>4, <1>15 DEF OperationControls
    <2> DEFINE a1 == Control("A2.1", Export \cup {"evidence.stored"})
               b1 == Control("A2.2", {"audit.gc.complete"})
    <2>2. subs = {a1, b1}
      BY <2>1
    <2>3. a1.id = "A2.1" /\ b1.id = "A2.2"
      BY ControlIs
    <2> HIDE DEF a1, b1
    <2>4. subs = {a1, b1, b1, b1, b1, b1, b1, b1}
      BY <2>2
    <2>5. IsFiniteSet(subs)
      BY <2>4, EightAreFinite
    <2> QED  BY <2>2, <2>3, <2>5 DEF subs
  <1>16. CASE c = "A5"
    <2>1. subs = {Control("A5.1", {"user_role.synced", "sso.login.completed"}),
                  Control("A5.2", Export)}
      BY <1>2, <1>3, <1>4, <1>16 DEF OperationControls
    <2> DEFINE a1 == Control("A5.1", {"user_role.synced", "sso.login.completed"})
               b1 == Control("A5.2", Export)
    <2>2. subs = {a1, b1}
      BY <2>1
    <2>3. a1.id = "A5.1" /\ b1.id = "A5.2"
      BY ControlIs
    <2> HIDE DEF a1, b1
    <2>4. subs = {a1, b1, b1, b1, b1, b1, b1, b1}
      BY <2>2
    <2>5. IsFiniteSet(subs)
      BY <2>4, EightAreFinite
    <2> QED  BY <2>2, <2>3, <2>5 DEF subs
  <1> QED  BY <1>1, <1>2, <1>3, <1>5, <1>6, <1>7, <1>8, <1>9, <1>10, <1>11, <1>12, <1>13, <1>14, <1>15, <1>16

--------------------------------------------------------------------------------
(* What is counted. *)

EventsAre ==
    /\ IsFiniteSet(auditEvents)
    /\ \A e \in auditEvents : e.day \in Nat
    /\ eventDay \in Nat

EventsOf(t, w, a) == {e \in auditEvents : e.tenant = t /\ e.action = a /\ e.day > eventDay - w}
\* Everything that a category counts: its sub-controls' actions as often as they happened.
CountedIn(t, w, c) == UNION {Counted(s, CountActionsByWindows(t, MappedActions, w)) : s \in SOC2CategoryMappings[c]}
HappenedIn(t, w, c) == {e \in auditEvents : e.tenant = t /\ e.action \in ActionsOf(c) /\ e.day > eventDay - w}

LEMMA EventsOfAreFinite ==
    ASSUME EventsAre, NEW t, NEW w \in Nat, NEW a
    PROVE  /\ IsFiniteSet(EventsOf(t, w, a))
           /\ Cardinality(EventsOf(t, w, a)) \in Nat
           /\ Cardinality(EventsOf(t, w, a)) <= Cardinality(auditEvents)
           /\ Cardinality(auditEvents) \in Nat
           /\ Cardinality(EventsOf(t, w, a)) = 0 <=> EventsOf(t, w, a) = {}
  <1>1. IsFiniteSet(auditEvents) /\ EventsOf(t, w, a) \subseteq auditEvents
    BY DEF EventsAre, EventsOf
  <1>2. IsFiniteSet(EventsOf(t, w, a)) /\ Cardinality(EventsOf(t, w, a)) <= Cardinality(auditEvents)
    BY <1>1, FS_Subset
  <1> QED  BY <1>1, <1>2, FS_CardinalityType, FS_EmptySet

LEMMA CountsAre ==
    ASSUME NEW t, NEW w, NEW a \in MappedActions
    PROVE  CountActionsByWindows(t, MappedActions, w)[a] = Cardinality(EventsOf(t, w, a))
  BY DEF CountActionsByWindows, EventsOf

LEMMA MembersOfCounted ==
    ASSUME NEW t, NEW w, NEW c \in Categories
    PROVE  \A x : x \in CountedIn(t, w, c) <=>
              \E s \in SOC2CategoryMappings[c] : \E a \in s.actions : \E k \in 1..Cardinality(EventsOf(t, w, a)) : x = <<<<s.id, a>>, k>>
  <1> DEFINE counts == CountActionsByWindows(t, MappedActions, w)
  <1>1. \A s \in SOC2CategoryMappings[c] : \A a \in s.actions : a \in MappedActions
    BY DEF MappedActions, ActionsOf
  <1>2. \A s \in SOC2CategoryMappings[c] : \A a \in s.actions : counts[a] = Cardinality(EventsOf(t, w, a))
    BY <1>1, CountsAre
  <1> HIDE DEF counts
  <1>3. \A x : \A s \in SOC2CategoryMappings[c] :
          x \in Counted(s, counts) <=> \E a \in s.actions : \E k \in 1..counts[a] : x = <<<<s.id, a>>, k>>
    BY DEF Counted
  <1>4. CountedIn(t, w, c) = UNION {Counted(s, counts) : s \in SOC2CategoryMappings[c]}
    BY DEF CountedIn, counts
  <1> QED  BY <1>2, <1>3, <1>4

LEMMA ImageOfFinite ==
    ASSUME NEW S, NEW f, IsFiniteSet(S), DOMAIN f = S
    PROVE  IsFiniteSet({f[x] : x \in S})
  <1> DEFINE T == {f[x] : x \in S}
             g == [x \in S |-> f[x]]
  <1>1. g \in Surjection(S, T)
    BY DEF Surjection
  <1> HIDE DEF T, g
  <1>2. IsFiniteSet(T)
    BY <1>1, FS_Surjection
  <1> QED  BY <1>2 DEF T

LEMMA CountedIsFinite ==
    ASSUME EventsAre, NEW t, NEW w \in Nat, NEW c \in Categories
    PROVE  IsFiniteSet(CountedIn(t, w, c)) /\ Cardinality(CountedIn(t, w, c)) \in Nat
  <1> DEFINE subs == SOC2CategoryMappings[c]
             idOf == [s \in subs |-> s.id]
             ids == {idOf[x] : x \in subs}
             actionOf == [e \in auditEvents |-> e.action]
             acts == {actionOf[x] : x \in auditEvents}
             n == Cardinality(auditEvents)
  <1>1. IsFiniteSet(subs) /\ IsFiniteSet(auditEvents)
    BY TableIs DEF EventsAre
  <1>2. IsFiniteSet(ids) /\ IsFiniteSet(acts)
    <2>1. DOMAIN idOf = subs /\ DOMAIN actionOf = auditEvents
      OBVIOUS
    <2> HIDE DEF idOf, actionOf
    <2> QED  BY <1>1, <2>1, ImageOfFinite
  <1>3. n \in Nat
    BY EventsOfAreFinite
  <1>4. CountedIn(t, w, c) \subseteq (ids \X acts) \X (1..n)
    <2> SUFFICES ASSUME NEW s \in subs, NEW a \in s.actions, NEW k \in 1..Cardinality(EventsOf(t, w, a))
                 PROVE  s.id \in ids /\ a \in acts /\ k \in 1..n
      BY MembersOfCounted
    <2>1. Cardinality(EventsOf(t, w, a)) \in Nat /\ Cardinality(EventsOf(t, w, a)) <= n
          /\ (Cardinality(EventsOf(t, w, a)) = 0 <=> EventsOf(t, w, a) = {})
      BY EventsOfAreFinite
    <2> HIDE DEF n
    <2>2. k \in 1..n /\ EventsOf(t, w, a) # {}
      BY <1>3, <2>1
    <2>3. a \in acts
      BY <2>2 DEF EventsOf
    <2> QED  BY <2>2, <2>3
  <1> HIDE DEF ids, acts, n
  <1>5. IsFiniteSet((ids \X acts) \X (1..n))
    <2>1. IsFiniteSet(1..n)
      BY <1>3, FS_Interval
    <2>2. IsFiniteSet(ids \X acts)
      BY <1>2, FS_Product
    <2> QED  BY <2>1, <2>2, FS_Product
  <1> QED  BY <1>4, <1>5, FS_Subset, FS_CardinalityType

\* A category counts nothing exactly if nothing of it happened.
LEMMA NothingCounted ==
    ASSUME EventsAre, NEW t, NEW w \in Nat, NEW c \in Categories
    PROVE  CountedIn(t, w, c) = {} <=> HappenedIn(t, w, c) = {}
  <1>1. ASSUME NEW e \in HappenedIn(t, w, c) PROVE CountedIn(t, w, c) # {}
    <2>1. PICK s \in SOC2CategoryMappings[c] : e.action \in s.actions
      BY DEF HappenedIn, ActionsOf
    <2>2. EventsOf(t, w, e.action) # {}
      BY DEF HappenedIn, EventsOf
    <2>3. Cardinality(EventsOf(t, w, e.action)) \in Nat /\ Cardinality(EventsOf(t, w, e.action)) # 0
      BY <2>2, EventsOfAreFinite
    <2>4. 1 \in 1..Cardinality(EventsOf(t, w, e.action))
      BY <2>3
    <2>5. <<<<s.id, e.action>>, 1>> \in CountedIn(t, w, c)
      BY <2>1, <2>4, MembersOfCounted
    <2> QED  BY <2>5
  <1>2. ASSUME NEW x \in CountedIn(t, w, c) PROVE HappenedIn(t, w, c) # {}
    <2>1. PICK s \in SOC2CategoryMappings[c] : \E a \in s.actions : \E k \in 1..Cardinality(EventsOf(t, w, a)) : x = <<<<s.id, a>>, k>>
      BY MembersOfCounted
    <2>0. PICK a \in s.actions : \E k \in 1..Cardinality(EventsOf(t, w, a)) : x = <<<<s.id, a>>, k>>
      BY <2>1
    <2>2. Cardinality(EventsOf(t, w, a)) \in Nat /\ (Cardinality(EventsOf(t, w, a)) = 0 <=> EventsOf(t, w, a) = {})
      BY EventsOfAreFinite
    <2>3. EventsOf(t, w, a) # {}
      BY <2>0, <2>2
    <2> QED  BY <2>3 DEF EventsOf, HappenedIn, ActionsOf
  <1> QED  BY <1>1, <1>2

\* Each event is counted: no two of them have the same place in the count.
LEMMA EveryEventCounts ==
    ASSUME EventsAre, NEW t, NEW w \in Nat, NEW c \in Categories
    PROVE  Cardinality(HappenedIn(t, w, c)) <= Cardinality(CountedIn(t, w, c))
  <1> DEFINE H == HappenedIn(t, w, c)
             subs == SOC2CategoryMappings[c]
             E(a) == EventsOf(t, w, a)
             sub(a) == CHOOSE s \in subs : a \in s.actions
             numbered == [a \in ActionsOf(c) |-> CHOOSE f : f \in Bijection(1..Cardinality(E(a)), E(a))]
             rank(e) == CHOOSE k \in 1..Cardinality(E(e.action)) : numbered[e.action][k] = e
             g == [e \in H |-> <<<<sub(e.action).id, e.action>>, rank(e)>>]
  <1>1. \A e \in H : e.action \in ActionsOf(c) /\ e \in E(e.action)
    BY DEF HappenedIn, EventsOf
  <1>2. \A a \in ActionsOf(c) : sub(a) \in subs /\ a \in sub(a).actions
    BY DEF ActionsOf
  <1>3. \A a \in ActionsOf(c) : numbered[a] \in Bijection(1..Cardinality(E(a)), E(a))
    <2> SUFFICES ASSUME NEW a \in ActionsOf(c) PROVE numbered[a] \in Bijection(1..Cardinality(E(a)), E(a))
      OBVIOUS
    <2> HIDE DEF E
    <2>1. IsFiniteSet(E(a))
      BY EventsOfAreFinite DEF E
    <2>2. ExistsBijection(1..Cardinality(E(a)), E(a))
      BY <2>1, FS_CardinalityType
    <2>3. \E f : f \in Bijection(1..Cardinality(E(a)), E(a))
      BY <2>2 DEF ExistsBijection
    <2> QED  BY <2>3
  <1> HIDE DEF sub, numbered
  <1>4. \A a \in ActionsOf(c) : \A e \in E(a) : \E k \in 1..Cardinality(E(a)) : numbered[a][k] = e
    BY <1>3 DEF Bijection, Surjection
  <1>5. \A e \in H : rank(e) \in 1..Cardinality(E(e.action)) /\ numbered[e.action][rank(e)] = e
    <2> SUFFICES ASSUME NEW e \in H
                 PROVE  rank(e) \in 1..Cardinality(E(e.action)) /\ numbered[e.action][rank(e)] = e
      OBVIOUS
    <2>1. \E k \in 1..Cardinality(E(e.action)) : numbered[e.action][k] = e
      BY <1>1, <1>4
    <2> HIDE DEF E
    <2> QED  BY <2>1
  <1> HIDE DEF rank
  <1>6. \A e \in H : g[e] \in CountedIn(t, w, c)
    <2> SUFFICES ASSUME NEW e \in H PROVE <<<<sub(e.action).id, e.action>>, rank(e)>> \in CountedIn(t, w, c)
      OBVIOUS
    <2> QED  BY <1>1, <1>2, <1>5, MembersOfCounted
  <1>7. \A e, d \in H : g[e] = g[d] => e = d
    <2> SUFFICES ASSUME NEW e \in H, NEW d \in H, g[e] = g[d] PROVE e = d
      OBVIOUS
    <2>1. e.action = d.action /\ rank(e) = rank(d)
      OBVIOUS
    <2> QED  BY <1>5, <2>1
  <1>8. g \in [H -> CountedIn(t, w, c)]
    BY <1>6
  <1> HIDE DEF g, H
  <1>9. g \in Injection(H, CountedIn(t, w, c))
    BY <1>7, <1>8 DEF Injection, IsInjective
  <1>10. Cardinality(H) <= Cardinality(CountedIn(t, w, c))
    BY <1>9, CountedIsFinite, FS_Injection
  <1> QED  BY <1>10 DEF H

LEMMA WiderCountsMore ==
    ASSUME EventsAre, NEW t, NEW w \in Nat, NEW v \in Nat, v >= w, NEW c \in Categories
    PROVE  Cardinality(CountedIn(t, v, c)) >= Cardinality(CountedIn(t, w, c))
  <1>1. \A a : EventsOf(t, w, a) \subseteq EventsOf(t, v, a)
    BY DEF EventsOf, EventsAre
  <1>2. \A a : Cardinality(EventsOf(t, w, a)) <= Cardinality(EventsOf(t, v, a))
               /\ Cardinality(EventsOf(t, w, a)) \in Nat /\ Cardinality(EventsOf(t, v, a)) \in Nat
    BY <1>1, EventsOfAreFinite, FS_Subset
  <1>3. \A a : \A k \in 1..Cardinality(EventsOf(t, w, a)) : k \in 1..Cardinality(EventsOf(t, v, a))
    BY <1>2
  <1>4. CountedIn(t, w, c) \subseteq CountedIn(t, v, c)
    BY <1>3, MembersOfCounted
  <1>5. /\ IsFiniteSet(CountedIn(t, v, c))
        /\ Cardinality(CountedIn(t, v, c)) \in Nat /\ Cardinality(CountedIn(t, w, c)) \in Nat
    BY CountedIsFinite
  <1>6. Cardinality(CountedIn(t, w, c)) <= Cardinality(CountedIn(t, v, c))
    BY <1>4, <1>5, FS_Subset
  <1> QED  BY <1>5, <1>6

LEMMA CoveredOrGap ==
    ASSUME NEW c \in Categories
    PROVE  LET subs == SOC2CategoryMappings[c] IN
           Cardinality({s \in subs : s.covered}) + Cardinality({s.id : s \in {x \in subs : ~x.covered}}) = Cardinality(subs)
  <1> DEFINE subs == SOC2CategoryMappings[c]
             C == {s \in subs : s.covered}
             N == {x \in subs : ~x.covered}
             G == {s.id : s \in N}
             f == [s \in N |-> s.id]
  <1>1. IsFiniteSet(subs) /\ \A s, t \in subs : s.id = t.id => s = t
    BY TableIs
  <1>2. C \subseteq subs /\ N \subseteq subs /\ N = subs \ C /\ subs \cap C = C
    OBVIOUS
  <1>3. f \in Surjection(N, G)
    BY DEF Surjection
  <1>4. f \in Injection(N, G)
    BY <1>1 DEF Injection, IsInjective
  <1> HIDE DEF subs, C, N, G, f
  <1>5. IsFiniteSet(C) /\ IsFiniteSet(N) /\ Cardinality(N) = Cardinality(subs) - Cardinality(C)
    BY <1>1, <1>2, FS_Subset, FS_Difference
  <1>6. Cardinality(G) = Cardinality(N)
    BY <1>3, <1>4, <1>5, FS_Surjection
  <1>7. Cardinality(C) \in Nat /\ Cardinality(subs) \in Nat
    BY <1>1, <1>5, FS_CardinalityType
  <1>8. Cardinality(C) + Cardinality(G) = Cardinality(subs)
    BY <1>5, <1>6, <1>7
  <1> QED  BY <1>8 DEF C, G, N, subs

LEMMA EventsShow == EventsAre => DashboardIsOfTheTenant
  <1> SUFFICES ASSUME EventsAre, NEW t \in AuditTenants, NEW w \in Windows, NEW c \in Categories, NEW v \in Windows
               PROVE  LET d == GetComplianceEffectiveness(t, w)[c]
                      IN /\ d.count >= Cardinality(HappenedIn(t, w, c))
                         /\ d.count = 0 <=> HappenedIn(t, w, c) = {}
                         /\ v >= w => GetComplianceEffectiveness(t, v)[c].count >= d.count
                         /\ d.covered + Cardinality(d.gaps) = d.subControls
    BY DEF DashboardIsOfTheTenant, HappenedIn
  <1>1. w \in Nat /\ v \in Nat
    BY EffectivenessAssumption
  <1>2. \A x : GetComplianceEffectiveness(t, x)[c].count = Cardinality(CountedIn(t, x, c))
    BY DEF GetComplianceEffectiveness, BuildEffectivenessDashboard, CountedIn
  <1>3. LET d == GetComplianceEffectiveness(t, w)[c]
            subs == SOC2CategoryMappings[c]
        IN /\ d.covered = Cardinality({s \in subs : s.covered})
           /\ d.gaps = {s.id : s \in {x \in subs : ~x.covered}}
           /\ d.subControls = Cardinality(subs)
    BY DEF GetComplianceEffectiveness, BuildEffectivenessDashboard
  <1>4. Cardinality(HappenedIn(t, w, c)) <= Cardinality(CountedIn(t, w, c))
    BY <1>1, EveryEventCounts
  <1>5. /\ IsFiniteSet(CountedIn(t, w, c)) /\ Cardinality(CountedIn(t, w, c)) \in Nat
        /\ IsFiniteSet(HappenedIn(t, w, c)) /\ Cardinality(HappenedIn(t, w, c)) \in Nat
    <2>1. HappenedIn(t, w, c) \subseteq auditEvents /\ IsFiniteSet(auditEvents)
      BY DEF HappenedIn, EventsAre
    <2>2. IsFiniteSet(HappenedIn(t, w, c))
      BY <2>1, FS_Subset
    <2> QED  BY <1>1, <2>2, CountedIsFinite, FS_CardinalityType
  <1>6. Cardinality(CountedIn(t, w, c)) >= Cardinality(HappenedIn(t, w, c))
    BY <1>4, <1>5
  <1>7. Cardinality(CountedIn(t, w, c)) = 0 <=> HappenedIn(t, w, c) = {}
    BY <1>1, <1>5, NothingCounted, FS_EmptySet
  <1>8. v >= w => Cardinality(CountedIn(t, v, c)) >= Cardinality(CountedIn(t, w, c))
    BY <1>1, WiderCountsMore
  <1> QED  BY <1>2, <1>3, <1>6, <1>7, <1>8, CoveredOrGap

\* GetComplianceEffectiveness, BuildEffectivenessDashboard (effectiveness.go, soc2_mapping.go):
\* for any tenants, windows and entries, a category of a tenant's dashboard counts each of
\* that tenant's events at least once and nothing else, a wider window never less, and its
\* sub-controls are covered or gaps.
THEOREM DashboardCorrect == EffectivenessSpec => []DashboardIsOfTheTenant
  <1>1. EffectivenessInit => EventsAre
    BY FS_EmptySet DEF EffectivenessInit, EventsAre
  <1>2. EventsAre /\ [EffectivenessNext]_effectivenessVars => EventsAre'
    <2> SUFFICES ASSUME EventsAre, [EffectivenessNext]_effectivenessVars PROVE EventsAre'
      OBVIOUS
    <2>1. CASE AuditAppend
      <3>0. PICK t, a : auditEvents' = auditEvents \cup
                            {[n |-> Cardinality(auditEvents), tenant |-> t, action |-> a, day |-> eventDay]}
        BY <2>1 DEF AuditAppend
      <3> DEFINE added == [n |-> Cardinality(auditEvents), tenant |-> t, action |-> a, day |-> eventDay]
      <3>1. auditEvents' = auditEvents \cup {added} /\ added.day = eventDay
        BY <3>0
      <3> HIDE DEF added
      <3>2. eventDay' = eventDay
        BY <2>1 DEF AuditAppend
      <3>3. IsFiniteSet(auditEvents')
        BY <3>1, FS_AddElement DEF EventsAre
      <3> QED  BY <3>1, <3>2, <3>3 DEF EventsAre
    <2>2. CASE DayPasses
      BY <2>2 DEF DayPasses, EventsAre
    <2>3. CASE UNCHANGED effectivenessVars
      BY <2>3 DEF effectivenessVars, EventsAre
    <2> QED  BY <2>1, <2>2, <2>3 DEF EffectivenessNext
  <1> QED  BY <1>1, <1>2, EventsShow, PTL DEF EffectivenessSpec
================================================================================
