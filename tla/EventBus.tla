-------------------------------- MODULE EventBus --------------------------------
(***************************************************************************)
(* The in-process event bus of internal/platform/eventbus/inproc: one      *)
(* bounded channel and one worker goroutine per subscription, publishers   *)
(* that fan out, two overflow policies, and Close.  One topic is modelled: *)
(* topics share nothing but the closed flag.                               *)
(*                                                                         *)
(* An event is <<p, n>>, the nth that publisher p publishes.  A select     *)
(* with several ready cases picks any of them, so each case is an action.  *)
(***************************************************************************)
EXTENDS Naturals, Sequences, FiniteSets

CONSTANTS
    Subs,          \* subscriptions
    BlockSubs,     \* those with OverflowBlock; the others drop the oldest
    Publishers,
    Capacity,      \* SubscribeConfig.Buffer
    MaxPublish     \* bound: events of one publisher

ASSUME BusAssumption ==
    /\ BlockSubs \subseteq Subs
    /\ Capacity \in Nat \ {0}
    /\ MaxPublish \in Nat

VARIABLES
    closed,     \* Bus.closed
    topic,      \* Bus.topics of the topic: subscriptions in order
    queue,      \* queue[s]: the channel
    cancel,     \* cancel[s]: how far subscription.Cancel has come
    worker,     \* worker[s]: where runWorker stands
    pub,        \* pub[p]: a Publish call
    closer,     \* the Close call
    \* history
    entered,    \* entered[s]: the events that entered the channel
    handled     \* handled[s]: the events the handler was called with

subVars == <<queue, cancel, worker, entered, handled>>
vars == <<closed, topic, subVars, pub, closer>>

Events == Publishers \X (1..MaxPublish)
SeqElems(q) == {q[k] : k \in DOMAIN q}
Without_First(q, s) == IF q = <<>> THEN q ELSE Tail(q)

\* The first place of s in q, and q without it.
Place(q, s) == CHOOSE k \in DOMAIN q : q[k] = s /\ \A j \in 1..(k - 1) : q[j] # s
Without(q, s) ==
    IF s \in SeqElems(q)
    THEN SubSeq(q, 1, Place(q, s) - 1) \o SubSeq(q, Place(q, s) + 1, Len(q))
    ELSE q

Init ==
    /\ closed = FALSE
    /\ topic = <<>>
    /\ queue = [s \in Subs |-> <<>>]
    /\ cancel = [s \in Subs |-> "live"]
    /\ worker = [s \in Subs |-> "none"]
    /\ pub = [p \in Publishers |-> [at |-> "idle", count |-> 0, snap |-> <<>>, next |-> 1]]
    /\ closer = [at |-> "idle", subs |-> <<>>]
    /\ entered = [s \in Subs |-> <<>>]
    /\ handled = [s \in Subs |-> <<>>]

--------------------------------------------------------------------------------
(* Subscriptions. *)

\* Subscribe does not look at closed.
Subscribe(s) ==
    /\ worker[s] = "none"
    /\ worker' = [worker EXCEPT ![s] = "idle"]
    /\ topic' = Append(topic, s)
    /\ UNCHANGED <<closed, queue, cancel, pub, closer, entered, handled>>

\* cancelOnce: close(cancelCh), then the removal from the topic.
CloseCancelCh(s) ==
    /\ worker[s] # "none"
    /\ cancel[s] = "live"
    /\ cancel' = [cancel EXCEPT ![s] = "closing"]
    /\ UNCHANGED <<closed, topic, queue, worker, pub, closer, entered, handled>>

RemoveSubscription(s) ==
    /\ cancel[s] = "closing"
    /\ cancel' = [cancel EXCEPT ![s] = "removed"]
    /\ topic' = Without(topic, s)
    /\ UNCHANGED <<closed, queue, worker, pub, closer, entered, handled>>

Cancelled_Closing(s) == cancel[s] = "closing"
Cancelled(s) == cancel[s] # "live"

AfterHandler_Dies == "done"

\* A handler that returns, fails or panics: the worker goes on alike.
AfterHandler == "idle"

WorkerTake(s) ==
    /\ worker[s] = "idle"
    /\ queue[s] # <<>>
    /\ worker' = [worker EXCEPT ![s] = "busy"]
    /\ queue' = [queue EXCEPT ![s] = Tail(@)]
    /\ handled' = [handled EXCEPT ![s] = Append(@, Head(queue[s]))]
    /\ UNCHANGED <<closed, topic, cancel, pub, closer, entered>>

WorkerHandled(s) ==
    /\ worker[s] = "busy"
    /\ worker' = [worker EXCEPT ![s] = AfterHandler]
    /\ UNCHANGED <<closed, topic, queue, cancel, pub, closer, entered, handled>>

WorkerStop(s) ==
    /\ worker[s] = "idle"
    /\ Cancelled(s)
    /\ worker' = [worker EXCEPT ![s] = "done"]
    /\ UNCHANGED <<closed, topic, queue, cancel, pub, closer, entered, handled>>

--------------------------------------------------------------------------------
(* Publish. *)

Event(p) == <<p, pub[p].count>>
Target(p) == pub[p].snap[pub[p].next]
Sending(p) == pub[p].at \in {"enqueue", "evict", "push"} /\ pub[p].next <= Len(pub[p].snap)
Room_OffByOne(s) == Len(queue[s]) <= Capacity
Room(s) == Len(queue[s]) < Capacity
Goto(p, at) == pub' = [pub EXCEPT ![p].at = at]

Advance_Again(p) == pub' = [pub EXCEPT ![p].at = "enqueue"]

\* On to the next subscription of the snapshot.
Advance(p) == pub' = [pub EXCEPT ![p].at = "enqueue", ![p].next = @ + 1]

Push(p, s) ==
    /\ Room(s)
    /\ queue' = [queue EXCEPT ![s] = Append(@, Event(p))]
    /\ entered' = [entered EXCEPT ![s] = Append(@, Event(p))]
    /\ Advance(p)

TimesOut_Never == FALSE

\* The publish timeout, or the context of the publisher, may end any wait.
TimesOut == TRUE

BlockTimeout_Advance(p) == Advance(p)
BlockTimeout(p) == Goto(p, "failed")

BeginPublish(p) ==
    /\ pub[p].at \in {"idle", "ok", "failed", "refused"}
    /\ pub[p].count < MaxPublish
    /\ pub' = [pub EXCEPT ![p] = [at |-> IF closed THEN "refused" ELSE "snapshot",
                                  count |-> @.count + 1, snap |-> <<>>, next |-> 1]]
    /\ UNCHANGED <<closed, topic, subVars, closer>>

SnapshotSubs(p) ==
    /\ pub[p].at = "snapshot"
    /\ pub' = [pub EXCEPT ![p].at = "enqueue", ![p].snap = topic]
    /\ UNCHANGED <<closed, topic, subVars, closer>>

EnqueueBlock(p) ==
    /\ pub[p].at = "enqueue" /\ Sending(p) /\ Target(p) \in BlockSubs
    /\ \/ Push(p, Target(p))
       \/ Cancelled(Target(p)) /\ Advance(p) /\ UNCHANGED <<queue, entered>>
       \/ TimesOut /\ BlockTimeout(p) /\ UNCHANGED <<queue, entered>>
    /\ UNCHANGED <<closed, topic, cancel, worker, closer, handled>>

\* Fast path of DropOldest: send if there is room, now.
TrySend(p) ==
    /\ pub[p].at = "enqueue" /\ Sending(p) /\ Target(p) \notin BlockSubs
    /\ IF Room(Target(p)) THEN Push(p, Target(p))
                          ELSE Goto(p, "evict") /\ UNCHANGED <<queue, entered>>
    /\ UNCHANGED <<closed, topic, cancel, worker, closer, handled>>

\* Then receive one event, whatever the channel holds by now.
EvictOldest(p) ==
    /\ pub[p].at = "evict"
    /\ LET s == Target(p)
       IN \/ /\ queue[s] # <<>>
             /\ queue' = [queue EXCEPT ![s] = Tail(@)]
             /\ Goto(p, "push")
          \/ Cancelled(s) /\ Advance(p) /\ UNCHANGED queue
          \/ TimesOut /\ Advance(p) /\ UNCHANGED queue
    /\ UNCHANGED <<closed, topic, cancel, worker, closer, entered, handled>>

\* And try to send again.
PushNew(p) ==
    /\ pub[p].at = "push"
    /\ \/ Push(p, Target(p))
       \/ Cancelled(Target(p)) /\ Advance(p) /\ UNCHANGED <<queue, entered>>
       \/ TimesOut /\ Advance(p) /\ UNCHANGED <<queue, entered>>
    /\ UNCHANGED <<closed, topic, cancel, worker, closer, handled>>

EndPublish(p) ==
    /\ pub[p].at = "enqueue" /\ pub[p].next > Len(pub[p].snap)
    /\ Goto(p, "ok")
    /\ UNCHANGED <<closed, topic, subVars, closer>>

--------------------------------------------------------------------------------
(* Close. *)

BeginClose ==
    /\ ~closed
    /\ closed' = TRUE
    /\ closer' = [closer EXCEPT !.at = "collect"]
    /\ UNCHANGED <<topic, subVars, pub>>

CollectSubs ==
    /\ closer.at = "collect"
    /\ closer' = [at |-> "cancel", subs |-> topic]
    /\ topic' = <<>>
    /\ UNCHANGED <<closed, subVars, pub>>

CloseWaited_Cancelled(s) == cancel[s] = "removed"
CloseWaited(s) == worker[s] = "done"

\* Close cancels the next subscription, or waits for whoever is cancelling it.
CloseCancels(s) ==
    /\ closer.at = "cancel"
    /\ s \in SeqElems(closer.subs)
    /\ CloseCancelCh(s)

AllCancelled ==
    /\ closer.at = "cancel"
    /\ \A s \in SeqElems(closer.subs) : cancel[s] = "removed"
    /\ closer' = [closer EXCEPT !.at = "wait"]
    /\ UNCHANGED <<closed, topic, subVars, pub>>

EndClose ==
    /\ closer.at = "wait"
    /\ \/ /\ \A s \in SeqElems(closer.subs) : CloseWaited(s)
          /\ closer' = [closer EXCEPT !.at = "closed"]
       \/ closer' = [closer EXCEPT !.at = "expired"]         \* ctx.Done
    /\ UNCHANGED <<closed, topic, subVars, pub>>

--------------------------------------------------------------------------------
WorkerStep(s) == WorkerTake(s) \/ WorkerHandled(s) \/ WorkerStop(s)
PublishStep(p) == \/ SnapshotSubs(p) \/ EnqueueBlock(p) \/ TrySend(p) \/ EvictOldest(p)
                  \/ PushNew(p) \/ EndPublish(p)
CloseStep == CollectSubs \/ (\E s \in Subs : CloseCancels(s)) \/ AllCancelled \/ EndClose

Next ==
    \/ \E s \in Subs : Subscribe(s) \/ CloseCancelCh(s) \/ RemoveSubscription(s) \/ WorkerStep(s)
    \/ \E p \in Publishers : BeginPublish(p) \/ PublishStep(p)
    \/ BeginClose
    \/ CloseStep

Spec == Init /\ [][Next]_vars

\* Goroutines that can run do run, handlers return, and a publish or a Close that
\* has begun goes on; nobody is obliged to publish, to cancel or to close.
BusFairness ==
    /\ \A s \in Subs : WF_vars(WorkerStep(s)) /\ WF_vars(RemoveSubscription(s))
    /\ \A p \in Publishers : WF_vars(PublishStep(p))
    /\ WF_vars(CloseStep)

FairSpec == Spec /\ BusFairness
--------------------------------------------------------------------------------
(* Properties. *)

\* Every variable stays in its type, and no channel holds more than its buffer.
TypeOK ==
    /\ closed \in BOOLEAN
    /\ topic \in Seq(Subs)
    /\ queue \in [Subs -> Seq(Events)]
    /\ cancel \in [Subs -> {"live", "closing", "removed"}]
    /\ worker \in [Subs -> {"none", "idle", "busy", "done"}]
    /\ pub \in [Publishers -> [at : {"idle", "snapshot", "enqueue", "evict", "push",
                                     "ok", "failed", "refused"},
                               count : 0..MaxPublish, snap : Seq(Subs), next : Nat]]
    /\ closer \in [at : {"idle", "collect", "cancel", "wait", "closed", "expired"},
                   subs : Seq(Subs)]
    /\ entered \in [Subs -> Seq(Events)]
    /\ handled \in [Subs -> Seq(Events)]
    /\ \A s \in Subs : Len(queue[s]) <= Capacity

\* What one publisher publishes reaches a subscriber in the order it was published
\* and at most once, whatever is evicted on the way (order within a subscription).
OrderPreserved ==
    \A s \in Subs : \A j, k \in DOMAIN handled[s] :
        j < k /\ handled[s][j][1] = handled[s][k][1] => handled[s][j][2] < handled[s][k][2]

\* A Block subscriber loses nothing that was accepted for it: when Publish has
\* returned nil every one of the snapshot that is not cancelled got the event, and
\* what entered its channel is in it still or was handled.
BlockLosesNothing ==
    \A s \in BlockSubs :
        /\ handled[s] \o queue[s] = entered[s]
        /\ \A p \in Publishers :
              pub[p].at = "ok" /\ s \in SeqElems(pub[p].snap) /\ ~Cancelled(s) =>
                  Event(p) \in SeqElems(entered[s])

\* When Close has returned nil the handler of a subscription it collected is never
\* called again, although publishers may still be filling its channel.
CloseWaits ==
    [][closer.at = "closed" =>
          \A s \in SeqElems(closer.subs) : worker[s] # "busy" /\ handled'[s] = handled[s]]_vars

\* A registered subscription is one whose worker was started and whose removal is
\* not done, and it is registered once: a publisher that takes a snapshot sends an
\* event to a subscription once.  Only Close empties the topic ahead of the removals.
TopicIsLive ==
    /\ \A j, k \in DOMAIN topic : j # k => topic[j] # topic[k]
    /\ \A s \in SeqElems(topic) : worker[s] # "none" /\ cancel[s] # "removed"
    /\ \A s \in Subs : worker[s] # "none" /\ cancel[s] # "removed" =>
          s \in SeqElems(topic) \cup SeqElems(closer.subs)

\* Publish returns: a full channel, a slow handler or a racing Cancel holds it for
\* the publish timeout at most.
PublishReturns ==
    \A p \in Publishers : pub[p].at = "snapshot" ~> pub[p].at \in {"ok", "failed"}

\* Close returns, and the worker of a cancelled subscription ends, although the
\* select may go on preferring the channel and publishers still hold snapshots.
CancelEnds ==
    /\ closed ~> closer.at \in {"closed", "expired"}
    /\ \A s \in Subs : cancel[s] = "removed" ~> worker[s] = "done"

\* An event in the channel of a live subscriber does not stay there for ever.
QueueMoves ==
    \A s \in Subs, e \in Events :
        queue[s] # <<>> /\ Head(queue[s]) = e ~> Cancelled(s) \/ queue[s] = <<>> \/ Head(queue[s]) # e

\* What the bus has accepted is kept: the types hold, a blocking subscription loses
\* nothing and a topic lists exactly the live subscriptions.
DeliveryIsSound ==
    /\ TypeOK
    /\ BlockLosesNothing
    /\ TopicIsLive

\* Calls return and queues move: Publish within its timeout, Cancel when the worker
\* is done, and an accepted event is handled or dropped.
NothingHangs ==
    /\ PublishReturns
    /\ CancelEnds
    /\ QueueMoves
================================================================================
