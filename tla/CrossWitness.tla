----------------------------- MODULE CrossWitness -----------------------------
(***************************************************************************)
(* Cross witnesses of the enterprise edition: at every tick a scheduler    *)
(* folds the latest checkpoints of the other tenants into a hash that      *)
(* rests on the previous one, and its callback anchors the hash outside    *)
(* with retries.                                                           *)
(*                                                                         *)
(* A hash is what it was computed from: the sequence of everything folded  *)
(* so far.  A tenant is a number, the order of the numbers that of the     *)
(* names, and 0 is the empty name.  loops[n] is the goroutine of the n-th  *)
(* Start, which makes stopCh and doneCh number n; the fields s.stopCh and  *)
(* s.doneCh hold the latest, and are read and written without a lock.      *)
(***************************************************************************)
EXTENDS Naturals, Sequences, FiniteSets, SequencesExt

CONSTANTS
    SchedulerOwners,            \* goroutines that call Start and Stop
    WitnessTenants,    \* number of other tenants
    CheckpointHashes,
    MaxWitnesses,      \* bound: checkpoints the provider returns
    AnchorRetries,     \* MaxRetries of the webhook anchor
    MaxStarts,         \* bound: calls of Start that start
    MaxFolds,          \* bound: folds
    MaxRacedFolds      \* bound: folds in a behaviour whose calls overlap

ASSUME WitnessAssumption ==
    /\ SchedulerOwners # {}
    /\ WitnessTenants \in Nat /\ MaxWitnesses \in Nat /\ AnchorRetries \in Nat
    /\ MaxStarts \in Nat /\ MaxFolds \in Nat /\ MaxRacedFolds \in Nat

VARIABLES
    schedRunning,   \* running
    owner,          \* owner[o]: where its call of Start or Stop is, and the doneCh it waits on
    overlapped,     \* history: a call passed its CAS while another was past its own
    loops,          \* the goroutines, in the order of their starts
    lastHash,
    folds,          \* history: calls of OnFoldIn without an error
    anchored        \* history: hashes the webhook has received

foldVars == <<schedRunning, owner, overlapped, loops, lastHash, folds, anchored>>

Witnesses == [tenant : 0..WitnessTenants, hash : CheckpointHashes]
WitnessLists == UNION {[1..n -> Witnesses] : n \in 0..MaxWitnesses}
ZeroHash == <<>>
\* stop: stopCh of its number is closed; selects: the number of the one it waits on.
NewLoop(n) == [pc |-> "select", stop |-> FALSE, selects |-> n, ctxDone |-> FALSE, prev |-> ZeroHash,
               witnesses |-> <<>>, attempts |-> 0]
NoCall == [at |-> "idle", doneCh |-> 0]

FoldInit ==
    /\ schedRunning = FALSE
    /\ owner = [o \in SchedulerOwners |-> NoCall] /\ overlapped = FALSE
    /\ loops = <<>>
    /\ lastHash = ZeroHash
    /\ folds = <<>>
    /\ anchored = <<>>

--------------------------------------------------------------------------------
(* The fold. *)

\* Bug: the list is serialized as it comes.
SerializeCrossWitness_Unsorted(ws) == ws
ByTenant(S) ==
    [k \in 1..Cardinality(S) |-> CHOOSE w \in S : Cardinality({v \in S : v.tenant < w.tenant}) = k - 1]
SerializeCrossWitness(ws) == ByTenant(ToSet(ws))

\* An empty tenant and a tenant that is there twice are refused.
Serializable(ws) ==
    /\ \A i \in DOMAIN ws : ws[i].tenant # 0
    /\ \A i, j \in DOMAIN ws : ws[i].tenant = ws[j].tenant => i = j

\* Bug: the previous hash is left out.
ComputeFoldInHash_NoPrev(prev, ws) == <<SerializeCrossWitness(ws)>>
ComputeFoldInHash(prev, ws) == Append(prev, SerializeCrossWitness(ws))

VerifyFoldIn(prev, ws, expected) ==
    Serializable(ws) /\ ComputeFoldInHash(prev, ws) = expected

--------------------------------------------------------------------------------
(* Start and Stop. *)

LatestLoop == Len(loops)
Panicked == \E o \in SchedulerOwners : owner[o].at = "panicked"
Call(o, from, to) == ~Panicked /\ owner[o].at = from /\ owner' = [owner EXCEPT ![o].at = to]
InLoop(n, pc) == ~Panicked /\ n \in DOMAIN loops /\ loops[n].pc = pc
NotesOverlap ==
    /\ overlapped' = (overlapped \/ \E o \in SchedulerOwners : owner[o].at # "idle")
    /\ overlapped' => Len(folds) <= MaxRacedFolds

\* A call that finds the scheduler running, or not running, returns at once.
StartFold(o) ==
    /\ ~schedRunning /\ Len(loops) < MaxStarts
    /\ Call(o, "idle", "starting")
    /\ schedRunning' = TRUE
    /\ NotesOverlap
    /\ UNCHANGED <<loops, lastHash, folds, anchored>>

\* The channels are replaced and the goroutine starts, with what it reads first.
SpawnLoop(o) ==
    /\ Call(o, "starting", "idle")
    /\ loops' = Append(loops, NewLoop(Len(loops) + 1))
    /\ UNCHANGED <<schedRunning, overlapped, lastHash, folds, anchored>>

StopFold(o) ==
    /\ schedRunning /\ Call(o, "idle", "stopping")
    /\ schedRunning' = FALSE
    /\ NotesOverlap
    /\ UNCHANGED <<loops, lastHash, folds, anchored>>

\* Whatever channel is there by now; one that is closed already, or nil, panics.
ClosesAChannel == loops # <<>> /\ ~loops[LatestLoop].stop
CloseStopCh(o) ==
    /\ IF ClosesAChannel
       THEN Call(o, "stopping", "closed") /\ loops' = [loops EXCEPT ![LatestLoop].stop = TRUE]
       ELSE Call(o, "stopping", "panicked") /\ UNCHANGED loops
    /\ UNCHANGED <<schedRunning, overlapped, lastHash, folds, anchored>>

TakeDoneCh(o) ==
    /\ ~Panicked /\ owner[o].at = "closed"
    /\ owner' = [owner EXCEPT ![o] = [at |-> "waiting", doneCh |-> LatestLoop]]
    /\ UNCHANGED <<schedRunning, overlapped, loops, lastHash, folds, anchored>>

\* Bug: Stop does not wait for the tick that is under way.
StopReturns_AtOnce(n) == loops # <<>>
StopReturns(n) == InLoop(n, "ended")
DoneChClosed(o) ==
    /\ ~Panicked /\ owner[o].at = "waiting" /\ StopReturns(owner[o].doneCh)
    /\ owner' = [owner EXCEPT ![o] = NoCall]
    /\ UNCHANGED <<schedRunning, overlapped, loops, lastHash, folds, anchored>>

--------------------------------------------------------------------------------
(* loop and tick. *)

CancelCtx(n) ==
    /\ ~Panicked /\ n \in DOMAIN loops /\ ~loops[n].ctxDone
    /\ loops' = [loops EXCEPT ![n].ctxDone = TRUE]
    /\ UNCHANGED <<schedRunning, owner, overlapped, lastHash, folds, anchored>>

\* Bug: only the context ends the loop.
MayEnd_Ctx(n) == loops[n].ctxDone
MayEnd(n) == loops[n].ctxDone \/ loops[loops[n].selects].stop
\* schedRunning stays as it is: after a cancelled context Start is refused until a Stop.
EndLoop(n) ==
    /\ InLoop(n, "select") /\ MayEnd(n)
    /\ loops' = [loops EXCEPT ![n].pc = "ended"]
    /\ UNCHANGED <<schedRunning, owner, overlapped, lastHash, folds, anchored>>

\* The provider fails: OnFoldIn hears of it, nothing changes.
\* The provider answers: lastHash is read under the mutex.
GetWitnesses(n) ==
    /\ InLoop(n, "select") /\ Len(folds) < (IF overlapped THEN MaxRacedFolds ELSE MaxFolds)
    /\ \E ws \in WitnessLists :
          loops' = [loops EXCEPT ![n].pc = "compute", ![n].prev = lastHash, ![n].witnesses = ws]
    /\ UNCHANGED <<schedRunning, owner, overlapped, lastHash, folds, anchored>>

\* The select that follows reads s.stopCh anew, and without a lock may see the old one.
EndTick(n) ==
    \E c \in {loops[n].selects, LatestLoop} :
        loops' = [loops EXCEPT ![n].pc = "select", ![n].selects = c, ![n].prev = ZeroHash,
                               ![n].witnesses = <<>>, ![n].attempts = 0]

\* Bug: a fold that fails resets lastHash.
AfterError_Zero == ZeroHash
AfterError == lastHash
FoldFails(n) ==
    /\ InLoop(n, "compute") /\ ~Serializable(loops[n].witnesses)
    /\ lastHash' = AfterError
    /\ EndTick(n)
    /\ UNCHANGED <<schedRunning, owner, overlapped, folds, anchored>>

FoldIn(n) ==
    /\ InLoop(n, "compute") /\ Serializable(loops[n].witnesses)
    /\ lastHash' = ComputeFoldInHash(loops[n].prev, loops[n].witnesses)
    /\ folds' = Append(folds, [prev |-> loops[n].prev, next |-> lastHash',
                               witnesses |-> loops[n].witnesses])
    /\ loops' = [loops EXCEPT ![n].pc = "anchor", ![n].prev = lastHash']
    /\ UNCHANGED <<schedRunning, owner, overlapped, anchored>>

\* WebhookAnchor.Anchor, called by OnFoldIn.  An answer that is lost is an error to the
\* anchor, and the same body is posted again.
AnchorTries == AnchorRetries + 1
PostAnchor(n) ==
    /\ InLoop(n, "anchor")
    /\ \E reached, answered \in BOOLEAN :
          /\ answered => reached
          /\ anchored' = IF reached THEN Append(anchored, loops[n].prev) ELSE anchored
          /\ IF answered \/ loops[n].attempts + 1 = AnchorTries THEN EndTick(n)
             ELSE loops' = [loops EXCEPT ![n].attempts = @ + 1]
    /\ UNCHANGED <<schedRunning, owner, overlapped, lastHash, folds>>

\* The context ends while the anchor waits to try again.
AnchorCancelled(n) ==
    /\ InLoop(n, "anchor") /\ loops[n].attempts > 0 /\ loops[n].ctxDone
    /\ EndTick(n)
    /\ UNCHANGED <<schedRunning, owner, overlapped, lastHash, folds, anchored>>

LoopStep(n) ==
    EndLoop(n) \/ FoldFails(n) \/ FoldIn(n) \/ PostAnchor(n) \/ AnchorCancelled(n)
SchedulerStop(o) == CloseStopCh(o) \/ TakeDoneCh(o) \/ DoneChClosed(o)

FoldNext ==
    \/ \E o \in SchedulerOwners : StartFold(o) \/ SpawnLoop(o) \/ StopFold(o) \/ SchedulerStop(o)
    \/ \E n \in 1..MaxStarts : CancelCtx(n) \/ GetWitnesses(n) \/ LoopStep(n)

\* Calls go on, posts end with an answer or without one, and the select of a loop that
\* may end takes that branch before long although ticks are due as well.
FoldFairness ==
    /\ \A o \in SchedulerOwners : WF_foldVars(SchedulerStop(o))
    /\ \A n \in 1..MaxStarts : WF_foldVars(LoopStep(n)) /\ SF_foldVars(EndLoop(n))

--------------------------------------------------------------------------------
(* Properties. *)

FoldTypeOK ==
    /\ schedRunning \in BOOLEAN
    /\ Len(loops) <= MaxStarts
    /\ \A n \in DOMAIN loops : loops[n].witnesses \in WitnessLists /\ loops[n].attempts < AnchorTries

\* The folds are one chain over all restarts of the scheduler: each rests on the one
\* before it, and a tick that fails leaves no gap.
FoldsAreChained ==
    \A i \in DOMAIN folds : folds[i].prev = IF i = 1 THEN ZeroHash ELSE folds[i - 1].next

\* scheduler.go:18: "a single goroutine, one tick in flight".  Of two goroutines that call
\* Start and Stop this is not true: a Start between the two lines of a Stop replaces the
\* channels, the loop that was to end goes on beside the new one, and both fold.
OneLoop == \A m, n \in DOMAIN loops : m < n => loops[m].pc = "ended"

\* Nor is it that Stop never closes a channel twice, or none.
StopNeverPanics == ~Panicked

\* Whoever recomputes a fold gets its hash from the same checkpoints in any order, and
\* from no others: one checkpoint changed, added or left out is a mismatch, and so is
\* the place of another fold in the chain.
VerifierAgrees ==
    \A i, j \in DOMAIN folds : \A ws \in WitnessLists :
        VerifyFoldIn(folds[j].prev, ws, folds[i].next) <=>
            /\ i = j
            /\ Len(ws) = Len(folds[i].witnesses) /\ ToSet(ws) = ToSet(folds[i].witnesses)

\* What is anchored is the folds in their order, each at most once per attempt; a hash
\* anchored by an attempt that failed is repeated, never out of order.
AnchorsFollowFolds ==
    \A i, j \in DOMAIN anchored :
        /\ \E k \in DOMAIN folds : anchored[i] = folds[k].next
        /\ i < j => Len(anchored[i]) <= Len(anchored[j])

\* All of this as long as no call of Start or Stop overlaps another.
FoldSafety ==
    ~overlapped =>
        FoldsAreChained /\ OneLoop /\ StopNeverPanics /\ VerifierAgrees /\ AnchorsFollowFolds

\* Stop comes back: the tick that is under way ends, its retries included; unless a
\* Start is called before it has.
StopsReturn ==
    \A o \in SchedulerOwners : (owner[o].at = "waiting") ~> (owner[o].at = "idle" \/ overlapped)

\* Expected by the comment at scheduler.go:35 (Start is refused while the scheduler is
\* active): a scheduler whose context has ended can be started again.
RefusedOnlyWhileActive ==
    schedRunning /\ (\A o \in SchedulerOwners : owner[o].at = "idle") => ~InLoop(LatestLoop, "ended")

\* The chain of folds and its anchors.
WitnessesAreSound ==
    /\ [](FoldTypeOK /\ FoldSafety)
    /\ StopsReturn
================================================================================
