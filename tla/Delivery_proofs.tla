----------------------------- MODULE Delivery_proofs -----------------------------
(***************************************************************************)
(* Proofs about what is delivered: events of the bus to their subscribers, *)
(* for any subscriptions, publishers, capacity of a channel and number of  *)
(* events; webhooks to their endpoints, for any endpoints, events,         *)
(* dispatchers, changes of endpoints, crashes and failed transactions;     *)
(* commands to hosts, over the pool of SSH connections, for any workers,   *)
(* hosts, limits, rotations and failures of peers; and the progress of a   *)
(* scan to the clients that watch it, for any clients, results and         *)
(* capacities.                                                             *)
(***************************************************************************)
EXTENDS EventBus, WebhookDelivery, SshPool, ScanProgress, SequenceTheorems, FiniteSetTheorems, TLAPS

--------------------------------------------------------------------------------
(* Sequences. *)

\* What is appended comes last, and what was there stays.
LEMMA Appended ==
    ASSUME NEW S, NEW q \in Seq(S), NEW e \in S
    PROVE  /\ Append(q, e) \in Seq(S)
           /\ Len(Append(q, e)) = Len(q) + 1
           /\ \A k \in DOMAIN Append(q, e) :
                 \/ k \in DOMAIN q /\ Append(q, e)[k] = q[k]
                 \/ k = Len(q) + 1 /\ Append(q, e)[k] = e
           /\ SeqElems(Append(q, e)) = SeqElems(q) \cup {e}
<1>1. /\ Append(q, e) \in Seq(S)
      /\ Len(Append(q, e)) = Len(q) + 1
      /\ \A k \in 1..Len(q) : Append(q, e)[k] = q[k]
      /\ Append(q, e)[Len(q) + 1] = e
  BY AppendProperties
<1>2. Len(q) \in Nat /\ DOMAIN q = 1..Len(q) /\ DOMAIN Append(q, e) = 1..(Len(q) + 1)
  BY <1>1, LenProperties
<1>3. SeqElems(Append(q, e)) = SeqElems(q) \cup {e}
  BY <1>1, <1>2 DEF SeqElems
<1>4. QED
  BY <1>1, <1>2, <1>3

\* What is taken or evicted is the first, and the others move up.
LEMMA Removed ==
    ASSUME NEW S, NEW q \in Seq(S), q # <<>>
    PROVE  /\ Head(q) \in S /\ Head(q) = q[1] /\ 1 \in DOMAIN q
           /\ Tail(q) \in Seq(S)
           /\ Len(Tail(q)) = Len(q) - 1
           /\ \A k \in DOMAIN Tail(q) : k + 1 \in DOMAIN q /\ Tail(q)[k] = q[k + 1]
           /\ SeqElems(Tail(q)) \subseteq SeqElems(q)
           /\ Head(q) \in SeqElems(q)
<1>1. /\ Head(q) \in S /\ Tail(q) \in Seq(S)
      /\ Len(Tail(q)) = Len(q) - 1
      /\ \A k \in 1..Len(Tail(q)) : Tail(q)[k] = q[k + 1]
  BY HeadTailProperties
<1>2. Len(q) \in Nat \ {0} /\ DOMAIN q = 1..Len(q) /\ DOMAIN Tail(q) = 1..(Len(q) - 1)
  BY <1>1, LenProperties, EmptySeq
<1>3. Head(q) = q[1]
  BY <1>2
<1>4. QED
  BY <1>1, <1>2, <1>3 DEF SeqElems

\* The subscriptions of a topic are different.
Distinct(q) == \A j, k \in DOMAIN q : j # k => q[j] # q[k]

\* Removing a subscription leaves the others, each once.
LEMMA WithoutOne ==
    ASSUME NEW S, NEW q \in Seq(S), NEW s \in S, Distinct(q)
    PROVE  /\ Without(q, s) \in Seq(S)
           /\ Distinct(Without(q, s))
           /\ SeqElems(Without(q, s)) = SeqElems(q) \ {s}
<1>0. Len(q) \in Nat /\ DOMAIN q = 1..Len(q) /\ \A k \in 1..Len(q) : q[k] \in S
  BY LenProperties
<1>1. CASE s \notin SeqElems(q)
  BY <1>1 DEF Without
<1>2. CASE s \in SeqElems(q)
  <2> DEFINE i == Place(q, s)
  <2>1. i \in 1..Len(q) /\ q[i] = s
    <3>1. PICK k \in DOMAIN q : q[k] = s
      BY <1>2 DEF SeqElems
    <3>2. \A j \in 1..(k - 1) : q[j] # s
      BY <1>0, <3>1 DEF Distinct
    <3>3. QED
      BY <1>0, <3>1, <3>2 DEF Place
  <2> HIDE DEF i
  <2> DEFINE front == SubSeq(q, 1, i - 1)
             back == SubSeq(q, i + 1, Len(q))
  <2>2. /\ front \in Seq(S) /\ Len(front) = i - 1
        /\ \A k \in 1..(i - 1) : front[k] = q[k]
    BY <1>0, <2>1, SubSeqProperties
  <2>3. /\ back \in Seq(S) /\ Len(back) = Len(q) - i
        /\ \A k \in 1..(Len(q) - i) : back[k] = q[i + k]
    <3>1. i + 1 \in Int /\ Len(q) \in Int /\ \A k \in (i + 1)..Len(q) : q[k] \in S
      BY <1>0, <2>1
    <3>2. /\ back \in Seq(S)
          /\ Len(back) = IF i + 1 <= Len(q) THEN Len(q) - (i + 1) + 1 ELSE 0
          /\ \A k \in 1..(Len(q) - (i + 1) + 1) : back[k] = q[(i + 1) + k - 1]
      BY <3>1, SubSeqProperties
    <3> HIDE DEF back
    <3>3. \A k \in 1..(Len(q) - i) :
             k \in 1..(Len(q) - (i + 1) + 1) /\ (i + 1) + k - 1 = i + k
      BY <1>0, <2>1
    <3>4. \A k \in 1..(Len(q) - i) : back[k] = q[i + k]
      BY <3>2, <3>3, Zenon
    <3>5. Len(back) = Len(q) - i
      <4>1. Len(q) \in Nat /\ i \in 1..Len(q)
        BY <1>0, <2>1
      <4>2. Len(back) = IF i + 1 <= Len(q) THEN Len(q) - (i + 1) + 1 ELSE 0
        BY <3>2
      <4>3. QED
        BY <4>1, <4>2
    <3>6. QED
      BY <3>2, <3>4, <3>5
  <2>4. Without(q, s) = front \o back
    BY <1>2 DEF Without, i
  <2> HIDE DEF front, back
  <2>5. /\ Without(q, s) \in Seq(S) /\ Len(Without(q, s)) = Len(q) - 1
        /\ \A k \in 1..(Len(q) - 1) :
              Without(q, s)[k] = IF k < i THEN q[k] ELSE q[k + 1]
    <3>1. /\ front \o back \in Seq(S)
          /\ Len(front \o back) = Len(front) + Len(back)
          /\ \A k \in 1..(Len(front) + Len(back)) :
                (front \o back)[k] = IF k <= Len(front) THEN front[k] ELSE back[k - Len(front)]
      BY <2>2, <2>3, ConcatProperties
    <3>2. Len(front) + Len(back) = Len(q) - 1
      BY <1>0, <2>1, <2>2, <2>3
    <3>3. ASSUME NEW k \in 1..(Len(q) - 1)
          PROVE  Without(q, s)[k] = IF k < i THEN q[k] ELSE q[k + 1]
      <4>1. CASE k < i
        BY <1>0, <2>1, <2>2, <2>4, <3>1, <3>2, <4>1
      <4>2. CASE k >= i
        <5>1. k - (i - 1) \in 1..(Len(q) - i)
          BY <1>0, <2>1, <4>2
        <5>2. back[k - (i - 1)] = q[k + 1]
          BY <1>0, <2>1, <2>3, <5>1
        <5>3. QED
          BY <1>0, <2>1, <2>2, <2>4, <3>1, <3>2, <4>2, <5>2
      <4>3. QED
        BY <2>1, <4>1, <4>2
    <3>4. QED
      BY <2>4, <3>1, <3>2, <3>3
  <2>6. DOMAIN Without(q, s) = 1..(Len(q) - 1)
    BY <2>5, LenProperties
  <2>7. Distinct(Without(q, s))
    <3> DEFINE up(k) == IF k < i THEN k ELSE k + 1
    <3>1. ASSUME NEW k \in 1..(Len(q) - 1)
          PROVE  up(k) \in 1..Len(q) /\ Without(q, s)[k] = q[up(k)]
      <4>1. CASE k < i
        BY <1>0, <2>5, <4>1
      <4>2. CASE ~(k < i)
        BY <1>0, <2>5, <4>2
      <4>3. QED
        BY <4>1, <4>2
    <3>2. \A j, k \in 1..(Len(q) - 1) : j # k => up(j) # up(k)
      BY <1>0, <2>1
    <3> HIDE DEF up
    <3>3. \A j, k \in 1..(Len(q) - 1) : j # k => q[up(j)] # q[up(k)]
      BY <1>0, <3>1, <3>2 DEF Distinct
    <3>4. QED
      BY <2>6, <3>1, <3>3, Zenon DEF Distinct
  <2>8. SeqElems(Without(q, s)) \subseteq SeqElems(q) \ {s}
    BY <1>0, <2>1, <2>5, <2>6 DEF Distinct, SeqElems
  <2>9. ASSUME NEW x \in SeqElems(q), x # s
        PROVE  x \in SeqElems(Without(q, s))
    <3>1. PICK k \in 1..Len(q) : q[k] = x
      BY <1>0 DEF SeqElems
    <3>2. CASE k < i
      BY <1>0, <2>1, <2>5, <2>6, <3>1, <3>2 DEF SeqElems
    <3>3. CASE k > i
      <4>1. k - 1 \in 1..(Len(q) - 1) /\ Without(q, s)[k - 1] = x
        BY <1>0, <2>1, <2>5, <3>1, <3>3
      <4>2. QED
        BY <2>6, <4>1 DEF SeqElems
    <3>4. QED
      BY <1>0, <2>1, <2>9, <3>1, <3>2, <3>3
  <2>10. QED
    BY <2>5, <2>7, <2>8, <2>9
<1>3. QED
  BY <1>1, <1>2

\* Taking the first of one sequence to the end of another leaves the two joined alike, and
\* what is put at the end of the second is put at the end of the two joined.
LEMMA TakeConcat ==
    ASSUME NEW S, NEW h \in Seq(S), NEW q \in Seq(S), q # <<>>
    PROVE  Append(h, Head(q)) \o Tail(q) = h \o q
<1>1. /\ Head(q) \in S /\ Tail(q) \in Seq(S) /\ <<Head(q)>> \in Seq(S)
  BY HeadTailProperties
<1>2. Append(h, Head(q)) = h \o <<Head(q)>>
  BY <1>1, AppendIsConcat
<1>3. <<Head(q)>> \o Tail(q) = q
  <2> DEFINE j == <<Head(q)>> \o Tail(q)
  <2>1. /\ Len(q) \in Nat \ {0} /\ Len(Tail(q)) = Len(q) - 1 /\ Head(q) = q[1]
        /\ \A k \in 1..Len(Tail(q)) : Tail(q)[k] = q[k + 1]
    BY HeadTailProperties, LenProperties, EmptySeq
  <2>2. /\ j \in Seq(S) /\ Len(j) = 1 + Len(Tail(q))
        /\ \A k \in 1..(1 + Len(Tail(q))) :
              j[k] = IF k <= 1 THEN <<Head(q)>>[k] ELSE Tail(q)[k - 1]
    BY <1>1, ConcatProperties
  <2> HIDE DEF j
  <2>3. ASSUME NEW k \in 1..Len(j)
        PROVE  j[k] = q[k]
    <3>1. CASE k = 1
      BY <2>1, <2>2, <3>1
    <3>2. CASE k # 1
      <4>1. k - 1 \in 1..Len(Tail(q)) /\ (k - 1) + 1 = k
        BY <2>1, <2>2, <3>2
      <4>2. QED
        BY <2>1, <2>2, <3>2, <4>1
    <3>3. QED
      BY <3>1, <3>2
  <2>4. Len(j) = Len(q)
    BY <2>1, <2>2
  <2>5. QED
    BY <2>2, <2>3, <2>4, SeqEqual DEF j
<1>4. (h \o <<Head(q)>>) \o Tail(q) = h \o (<<Head(q)>> \o Tail(q))
  BY <1>1, ConcatAssociative
<1>5. QED
  BY <1>2, <1>3, <1>4

LEMMA PutConcat ==
    ASSUME NEW S, NEW h \in Seq(S), NEW q \in Seq(S), NEW e \in S
    PROVE  h \o Append(q, e) = Append(h \o q, e)
<1>1. <<e>> \in Seq(S) /\ h \o q \in Seq(S)
  BY ConcatProperties
<1>2. Append(q, e) = q \o <<e>> /\ Append(h \o q, e) = (h \o q) \o <<e>>
  BY <1>1, AppendIsConcat
<1>3. (h \o q) \o <<e>> = h \o (q \o <<e>>)
  BY <1>1, ConcatAssociative
<1>4. QED
  BY <1>2, <1>3

--------------------------------------------------------------------------------
(* The inductive invariant. *)

\* Where a publisher has a subscription left to serve.
Busy == {"enqueue", "evict", "push"}

\* A snapshot names each subscription once, and is gone through from the front; a
\* publisher that evicts does so at a subscription that drops.
PublisherInv ==
    \A p \in Publishers :
        /\ Distinct(pub[p].snap)
        /\ pub[p].next >= 1
        /\ pub[p].at # "idle" => pub[p].count >= 1
        /\ pub[p].at = "snapshot" => pub[p].next = 1
        /\ pub[p].at = "ok" => pub[p].next > Len(pub[p].snap)
        /\ pub[p].at \in {"evict", "push"} =>
              pub[p].next <= Len(pub[p].snap) /\ Target(p) \notin BlockSubs

\* Publisher p has yet to send its last event to s.
Owes(p, s) ==
    \/ pub[p].at = "snapshot"
    \/ /\ pub[p].at \in Busy
       /\ \E k \in DOMAIN pub[p].snap : k >= pub[p].next /\ pub[p].snap[k] = s

\* Of two events of one publisher d is the earlier.
Earlier(d, e) == d[1] = e[1] => d[2] < e[2]

\* What was handled and what waits in the channel are in the order of publication, and
\* so is what a publisher has yet to send.
OrderInv ==
    \A s \in Subs :
        /\ \A j, k \in DOMAIN handled[s] : j < k => Earlier(handled[s][j], handled[s][k])
        /\ \A j, k \in DOMAIN queue[s] : j < k => Earlier(queue[s][j], queue[s][k])
        /\ \A d \in SeqElems(handled[s]), e \in SeqElems(queue[s]) : Earlier(d, e)
        /\ \A e \in SeqElems(handled[s]) \cup SeqElems(queue[s]) :
              /\ e[2] <= pub[e[1]].count
              /\ Owes(e[1], s) => e[2] < pub[e[1]].count

\* What entered the channel of a blocking subscription is there or was handled, and the
\* event of a publisher that is past such a subscription has entered it.
BlockInv ==
    \A s \in BlockSubs :
        /\ handled[s] \o queue[s] = entered[s]
        /\ \A p \in Publishers : pub[p].at \in Busy \cup {"ok"} =>
              \A k \in DOMAIN pub[p].snap :
                  k < pub[p].next /\ pub[p].snap[k] = s /\ ~Cancelled(s) =>
                      Event(p) \in SeqElems(entered[s])

\* Close takes the topic over once, and when it is done so are the workers of what it took;
\* what was never subscribed is not cancelled.
CloseInv ==
    /\ closer.at \in {"idle", "collect"} => closer.subs = <<>>
    /\ closer.at = "closed" => \A s \in SeqElems(closer.subs) : worker[s] = "done"
    /\ ~closed => closer.at = "idle"
    /\ \A s \in Subs : worker[s] = "none" => cancel[s] = "live"

IInv == TypeOK /\ TopicIsLive /\ PublisherInv /\ OrderInv /\ BlockInv /\ CloseInv

--------------------------------------------------------------------------------
(* What a publisher does to a subscription. *)

PubType == [at : {"idle", "snapshot", "enqueue", "evict", "push", "ok", "failed", "refused"},
            count : 0..MaxPublish, snap : Seq(Subs), next : Nat]

\* The publisher goes on at another place, and the others stay where they are.
LEMMA PublisherMoves ==
    ASSUME pub \in [Publishers -> PubType], NEW p \in Publishers
    PROVE  /\ Advance(p) =>
                 /\ pub' \in [Publishers -> PubType]
                 /\ pub'[p].at = "enqueue" /\ pub'[p].count = pub[p].count
                 /\ pub'[p].snap = pub[p].snap /\ pub'[p].next = pub[p].next + 1
                 /\ \A o \in Publishers \ {p} : pub'[o] = pub[o]
           /\ \A at \in {"evict", "push", "ok", "failed"} : Goto(p, at) =>
                 /\ pub' \in [Publishers -> PubType]
                 /\ pub'[p].at = at /\ pub'[p].count = pub[p].count
                 /\ pub'[p].snap = pub[p].snap /\ pub'[p].next = pub[p].next
                 /\ \A o \in Publishers \ {p} : pub'[o] = pub[o]
<1>0. pub[p] \in PubType
  OBVIOUS
<1>1. ASSUME Advance(p)
      PROVE  /\ pub' \in [Publishers -> PubType]
             /\ pub'[p].at = "enqueue" /\ pub'[p].count = pub[p].count
             /\ pub'[p].snap = pub[p].snap /\ pub'[p].next = pub[p].next + 1
             /\ \A o \in Publishers \ {p} : pub'[o] = pub[o]
  <2>1. pub[p].next + 1 \in Nat
    BY <1>0 DEF PubType
  <2>2. pub' = [pub EXCEPT ![p] = [at |-> "enqueue", count |-> pub[p].count,
                                   snap |-> pub[p].snap, next |-> pub[p].next + 1]]
    BY <1>0, <1>1 DEF Advance, PubType
  <2>3. QED
    BY <1>0, <2>1, <2>2 DEF PubType
<1>2. ASSUME NEW at \in {"evict", "push", "ok", "failed"}, Goto(p, at)
      PROVE  /\ pub' \in [Publishers -> PubType]
             /\ pub'[p].at = at /\ pub'[p].count = pub[p].count
             /\ pub'[p].snap = pub[p].snap /\ pub'[p].next = pub[p].next
             /\ \A o \in Publishers \ {p} : pub'[o] = pub[o]
  BY <1>0, <1>2 DEF Goto, PubType
<1>3. QED
  BY <1>1, <1>2

\* It passes a subscription over that is cancelled, or that drops; evicts one event of
\* one that drops; or turns to evicting, or away with an error.
Skips(p) == /\ Advance(p)
            /\ Cancelled(Target(p)) \/ Target(p) \notin BlockSubs
            /\ UNCHANGED <<queue, entered>>
Evicts(p) == /\ queue[Target(p)] # <<>>
             /\ queue' = [queue EXCEPT ![Target(p)] = Tail(@)]
             /\ Goto(p, "push")
             /\ Target(p) \notin BlockSubs
             /\ UNCHANGED entered
Turns(p) == /\ \/ Goto(p, "evict") /\ Target(p) \notin BlockSubs
               \/ Goto(p, "failed")
            /\ UNCHANGED <<queue, entered>>
Sends(p) == /\ Sending(p)
            /\ UNCHANGED <<closed, topic, cancel, worker, closer, handled>>
            /\ Push(p, Target(p)) \/ Skips(p) \/ Evicts(p) \/ Turns(p)

\* The four actions by which a publisher serves a subscription do one of these.
LEMMA SendSteps ==
    ASSUME PublisherInv, NEW p \in Publishers,
           EnqueueBlock(p) \/ TrySend(p) \/ EvictOldest(p) \/ PushNew(p)
    PROVE  Sends(p)
<1>1. CASE EnqueueBlock(p)
  BY <1>1 DEF EnqueueBlock, Sends, Skips, Turns, BlockTimeout
<1>2. CASE TrySend(p)
  BY <1>2 DEF TrySend, Sends, Turns
<1>3. CASE EvictOldest(p)
  <2>1. Sending(p) /\ Target(p) \notin BlockSubs
    BY <1>3 DEF EvictOldest, PublisherInv, Sending
  <2>2. QED
    BY <1>3, <2>1 DEF EvictOldest, Sends, Skips, Evicts
<1>4. CASE PushNew(p)
  <2>1. Sending(p) /\ Target(p) \notin BlockSubs
    BY <1>4 DEF PushNew, PublisherInv, Sending
  <2>2. QED
    BY <1>4, <2>1 DEF PushNew, Sends, Skips
<1>5. QED
  BY <1>1, <1>2, <1>3, <1>4

\* The steps of the bus.
LEMMA BusSteps ==
    ASSUME PublisherInv, [Next]_vars
    PROVE  \/ \E s \in Subs : \/ Subscribe(s) \/ CloseCancelCh(s) \/ RemoveSubscription(s)
                              \/ WorkerTake(s) \/ WorkerHandled(s) \/ WorkerStop(s)
           \/ \E p \in Publishers : BeginPublish(p) \/ SnapshotSubs(p) \/ Sends(p) \/ EndPublish(p)
           \/ BeginClose \/ CollectSubs \/ AllCancelled \/ EndClose
           \/ UNCHANGED vars
  BY SendSteps DEF Next, WorkerStep, PublishStep, CloseStep, CloseCancels

\* What a publisher that is sending has in hand.
LEMMA InHand ==
    ASSUME TypeOK, PublisherInv, NEW p \in Publishers, Sending(p)
    PROVE  /\ pub[p].next \in DOMAIN pub[p].snap
           /\ Target(p) \in Subs
           /\ Event(p) \in Events
<1>1. pub[p] \in PubType
  BY DEF TypeOK, PubType
<1>2. /\ pub[p].snap \in Seq(Subs) /\ pub[p].next \in Nat
      /\ pub[p].count \in 0..MaxPublish /\ MaxPublish \in Nat
  BY <1>1, BusAssumption DEF PubType
<1>3. pub[p].next \in 1..Len(pub[p].snap) /\ DOMAIN pub[p].snap = 1..Len(pub[p].snap)
  BY <1>2, LenProperties DEF Sending, PublisherInv
<1>4. Target(p) \in Subs
  BY <1>2, <1>3, ElementOfSeq DEF Target
<1>5. pub[p].count \in 1..MaxPublish
  BY <1>2 DEF Sending, PublisherInv
<1>6. QED
  BY <1>3, <1>4, <1>5 DEF Event, Events

--------------------------------------------------------------------------------
(* Type correctness. *)

\* The bus starts well typed.
LEMMA TypeInit == Init => TypeOK
<1> SUFFICES ASSUME Init
             PROVE  TypeOK
  OBVIOUS
<1>1. /\ <<>> \in Seq(Subs) /\ <<>> \in Seq(Events)
      /\ Len(<<>>) = 0 /\ Capacity \in Nat /\ MaxPublish \in Nat
  BY EmptySeq, BusAssumption
<1>2. /\ pub \in [Publishers -> PubType]
      /\ closer \in [at : {"idle", "collect", "cancel", "wait", "closed", "expired"},
                     subs : Seq(Subs)]
  BY <1>1 DEF Init, PubType
<1>3. /\ queue \in [Subs -> Seq(Events)] /\ entered \in [Subs -> Seq(Events)]
      /\ handled \in [Subs -> Seq(Events)]
      /\ \A s \in Subs : Len(queue[s]) <= Capacity
  BY <1>1, BusAssumption DEF Init
<1>4. QED
  BY <1>1, <1>2, <1>3 DEF Init, TypeOK, PubType

\* Every step keeps the types, and no channel exceeds its buffer.
LEMMA TypeNext == TypeOK /\ TopicIsLive /\ PublisherInv /\ [Next]_vars => TypeOK'
<1> SUFFICES ASSUME TypeOK, TopicIsLive, PublisherInv, [Next]_vars
             PROVE  TypeOK'
  OBVIOUS
<1> DEFINE Channels == /\ queue \in [Subs -> Seq(Events)]
                       /\ entered \in [Subs -> Seq(Events)]
                       /\ handled \in [Subs -> Seq(Events)]
                       /\ \A s \in Subs : Len(queue[s]) <= Capacity
           Closing == closer \in [at : {"idle", "collect", "cancel", "wait", "closed", "expired"},
                                  subs : Seq(Subs)]
           Places == /\ cancel \in [Subs -> {"live", "closing", "removed"}]
                     /\ worker \in [Subs -> {"none", "idle", "busy", "done"}]
<1>a. /\ closed \in BOOLEAN /\ topic \in Seq(Subs) /\ pub \in [Publishers -> PubType]
      /\ Channels /\ Closing /\ Places
  BY DEF TypeOK, PubType
<1>b. ASSUME closed' \in BOOLEAN, topic' \in Seq(Subs), (pub \in [Publishers -> PubType])',
             Channels', Closing', Places'
      PROVE  TypeOK'
  BY <1>b DEF TypeOK, PubType
<1>1. ASSUME NEW s \in Subs, Subscribe(s)
      PROVE  TypeOK'
  <2>1. topic' \in Seq(Subs)
    BY <1>a, <1>1, Appended DEF Subscribe
  <2>2. QED
    BY <1>a, <1>b, <1>1, <2>1 DEF Subscribe
<1>2. ASSUME NEW s \in Subs, CloseCancelCh(s)
      PROVE  TypeOK'
  BY <1>a, <1>b, <1>2 DEF CloseCancelCh
<1>3. ASSUME NEW s \in Subs, RemoveSubscription(s)
      PROVE  TypeOK'
  <2>1. topic' \in Seq(Subs)
    <3>1. Distinct(topic)
      BY DEF TopicIsLive, Distinct
    <3>2. QED
      BY <1>a, <1>3, <3>1, WithoutOne DEF RemoveSubscription
  <2>2. QED
    BY <1>a, <1>b, <1>3, <2>1 DEF RemoveSubscription
<1>4. ASSUME NEW s \in Subs, WorkerTake(s)
      PROVE  TypeOK'
  <2>1. /\ Head(queue[s]) \in Events /\ Tail(queue[s]) \in Seq(Events)
        /\ Len(Tail(queue[s])) <= Capacity
    <3>1. queue[s] \in Seq(Events) /\ queue[s] # <<>> /\ Len(queue[s]) <= Capacity
      BY <1>a, <1>4 DEF WorkerTake
    <3>2. QED
      BY <3>1, Removed, LenProperties, BusAssumption
  <2>2. Append(handled[s], Head(queue[s])) \in Seq(Events)
    BY <1>a, <2>1, Appended
  <2>3. Channels'
    BY <1>a, <1>4, <2>1, <2>2 DEF WorkerTake
  <2>4. QED
    BY <1>a, <1>b, <1>4, <2>3 DEF WorkerTake
<1>5. ASSUME NEW s \in Subs, WorkerHandled(s) \/ WorkerStop(s)
      PROVE  TypeOK'
  BY <1>a, <1>b, <1>5 DEF WorkerHandled, AfterHandler, WorkerStop
<1>6. ASSUME NEW p \in Publishers, BeginPublish(p) \/ SnapshotSubs(p)
      PROVE  TypeOK'
  <2>1. (pub \in [Publishers -> PubType])'
    <3>1. pub[p] \in PubType /\ MaxPublish \in Nat /\ <<>> \in Seq(Subs)
      BY <1>a, BusAssumption, EmptySeq
    <3>2. CASE BeginPublish(p)
      BY <1>a, <3>1, <3>2 DEF BeginPublish, PubType
    <3>3. CASE SnapshotSubs(p)
      BY <1>a, <3>1, <3>3 DEF SnapshotSubs, PubType
    <3>4. QED
      BY <1>6, <3>2, <3>3
  <2>2. UNCHANGED <<closed, topic, subVars, closer>>
    BY <1>6 DEF BeginPublish, SnapshotSubs
  <2>3. QED
    BY <1>a, <1>b, <2>1, <2>2 DEF subVars
<1>7. ASSUME NEW p \in Publishers, Sends(p)
      PROVE  TypeOK'
  <2>1. Target(p) \in Subs /\ Event(p) \in Events
    BY <1>7, InHand DEF Sends
  <2>2. (pub \in [Publishers -> PubType])'
    BY <1>a, <1>7, PublisherMoves DEF Sends, Push, Skips, Evicts, Turns
  <2>3. Channels'
    <3>1. /\ queue[Target(p)] \in Seq(Events) /\ entered[Target(p)] \in Seq(Events)
          /\ Len(queue[Target(p)]) <= Capacity
      BY <1>a, <2>1
    <3>2. CASE Push(p, Target(p))
      <4>1. /\ Append(queue[Target(p)], Event(p)) \in Seq(Events)
            /\ Append(entered[Target(p)], Event(p)) \in Seq(Events)
            /\ Len(Append(queue[Target(p)], Event(p))) <= Capacity
        BY <2>1, <3>1, <3>2, Appended, LenProperties, BusAssumption DEF Push, Room
      <4>2. QED
        BY <1>a, <1>7, <2>1, <3>2, <4>1 DEF Push, Sends
    <3>3. CASE Evicts(p)
      <4>1. Tail(queue[Target(p)]) \in Seq(Events) /\ Len(Tail(queue[Target(p)])) <= Capacity
        BY <3>1, <3>3, Removed, LenProperties, BusAssumption DEF Evicts
      <4>2. QED
        BY <1>a, <1>7, <2>1, <3>3, <4>1 DEF Evicts, Sends
    <3>4. CASE UNCHANGED <<queue, entered>>
      BY <1>a, <1>7, <3>4 DEF Sends
    <3>5. QED
      BY <1>7, <3>2, <3>3, <3>4 DEF Sends, Skips, Turns
  <2>4. QED
    BY <1>a, <1>b, <1>7, <2>2, <2>3 DEF Sends
<1>8. ASSUME NEW p \in Publishers, EndPublish(p)
      PROVE  TypeOK'
  <2>1. (pub \in [Publishers -> PubType])'
    BY <1>a, <1>8, PublisherMoves DEF EndPublish
  <2>2. QED
    BY <1>a, <1>b, <1>8, <2>1 DEF EndPublish, subVars
<1>9. CASE BeginClose \/ CollectSubs \/ AllCancelled \/ EndClose
  <2>1. Closing'
    <3>1. CASE CollectSubs
      BY <1>a, <3>1 DEF CollectSubs
    <3>2. CASE BeginClose \/ AllCancelled \/ EndClose
      <4>1. \E at \in {"collect", "wait", "closed", "expired"} :
               closer' = [closer EXCEPT !.at = at]
        BY <3>2 DEF BeginClose, AllCancelled, EndClose
      <4>2. QED
        BY <1>a, <4>1
    <3>3. QED
      BY <1>9, <3>1, <3>2
  <2>2. topic' \in Seq(Subs)
    BY <1>a, <1>9, EmptySeq DEF BeginClose, CollectSubs, AllCancelled, EndClose
  <2>3. QED
    BY <1>a, <1>b, <1>9, <2>1, <2>2 DEF BeginClose, CollectSubs, AllCancelled, EndClose, subVars
<1>10. CASE UNCHANGED vars
  BY <1>a, <1>b, <1>10 DEF vars, subVars
<1>11. QED
  BY <1>1, <1>2, <1>3, <1>4, <1>5, <1>6, <1>7, <1>8, <1>9, <1>10, BusSteps

--------------------------------------------------------------------------------
(* The topic, the publishers and Close. *)

\* Nothing is subscribed, published or closed at the start.
LEMMA PlacesInit == Init => TopicIsLive /\ PublisherInv /\ CloseInv
<1> SUFFICES ASSUME Init
             PROVE  TopicIsLive /\ PublisherInv /\ CloseInv
  OBVIOUS
<1>1. DOMAIN <<>> = {} /\ SeqElems(<<>>) = {}
  BY DEF SeqElems
<1>2. TopicIsLive
  BY <1>1 DEF Init, TopicIsLive
<1>3. PublisherInv
  BY <1>1 DEF Init, PublisherInv, Distinct
<1>4. CloseInv
  BY <1>1 DEF Init, CloseInv
<1>5. QED
  BY <1>2, <1>3, <1>4

\* A topic goes on listing the live subscriptions, each once.
LEMMA TopicNext == TypeOK /\ TopicIsLive /\ CloseInv /\ PublisherInv /\ [Next]_vars => TopicIsLive'
<1> SUFFICES ASSUME TypeOK, TopicIsLive, CloseInv, PublisherInv, [Next]_vars
             PROVE  TopicIsLive'
  OBVIOUS
<1> DEFINE Gone(s) == cancel[s] = "removed"
           Listed == /\ \A s \in SeqElems(topic) : worker[s] # "none" /\ ~Gone(s)
                     /\ \A s \in Subs : worker[s] # "none" /\ ~Gone(s) =>
                           s \in SeqElems(topic) \cup SeqElems(closer.subs)
<1>a. /\ topic \in Seq(Subs) /\ SeqElems(topic) \subseteq Subs
      /\ cancel \in [Subs -> {"live", "closing", "removed"}]
      /\ worker \in [Subs -> {"none", "idle", "busy", "done"}]
      /\ Distinct(topic) /\ Listed
  <2>1. topic \in Seq(Subs) /\ DOMAIN topic = 1..Len(topic)
    BY LenProperties DEF TypeOK
  <2>2. QED
    BY <2>1, ElementOfSeq DEF TypeOK, TopicIsLive, Distinct, SeqElems
<1>b. ASSUME Distinct(topic)', Listed'
      PROVE  TopicIsLive'
  BY <1>b DEF TopicIsLive, Distinct
<1>c. ASSUME UNCHANGED <<topic, cancel>>, SeqElems(closer.subs)' = SeqElems(closer.subs),
             \A s \in Subs : worker'[s] = "none" <=> worker[s] = "none"
      PROVE  TopicIsLive'
  <2>1. Distinct(topic)'
    BY <1>a, <1>c DEF Distinct
  <2>2. SeqElems(topic)' = SeqElems(topic)
    BY <1>c
  <2>3. Listed'
    BY <1>a, <1>c, <2>2
  <2>4. QED
    BY <1>b, <2>1, <2>3
<1>1. ASSUME NEW s \in Subs, Subscribe(s)
      PROVE  TopicIsLive'
  <2>1. s \notin SeqElems(topic)
    BY <1>a, <1>1 DEF Subscribe
  <2>2. /\ SeqElems(topic)' = SeqElems(topic) \cup {s}
        /\ Len(topic) \in Nat /\ DOMAIN topic = 1..Len(topic)
        /\ \A k \in DOMAIN topic' : \/ k \in DOMAIN topic /\ topic'[k] = topic[k]
                                    \/ k = Len(topic) + 1 /\ topic'[k] = s
    BY <1>a, <1>1, Appended, LenProperties DEF Subscribe
  <2>3. Distinct(topic)'
    BY <1>a, <2>1, <2>2 DEF Distinct, SeqElems
  <2>4. Listed'
    <3>1. cancel[s] = "live"
      BY <1>1 DEF Subscribe, CloseInv
    <3>2. QED
      BY <1>a, <1>1, <2>2, <3>1 DEF Subscribe
  <2>5. QED
    BY <1>b, <2>3, <2>4
<1>2. ASSUME NEW s \in Subs, CloseCancelCh(s)
      PROVE  TopicIsLive'
  <2>1. Distinct(topic)'
    BY <1>a, <1>2 DEF CloseCancelCh, Distinct
  <2>2. SeqElems(topic)' = SeqElems(topic)
    BY <1>2 DEF CloseCancelCh
  <2>3. \A o \in Subs : Gone(o)' <=> Gone(o)
    BY <1>a, <1>2 DEF CloseCancelCh
  <2>4. Listed'
    BY <1>a, <1>2, <2>2, <2>3 DEF CloseCancelCh
  <2>5. QED
    BY <1>b, <2>1, <2>4
<1>3. ASSUME NEW s \in Subs, RemoveSubscription(s)
      PROVE  TopicIsLive'
  <2>1. Distinct(topic)' /\ SeqElems(topic)' = SeqElems(topic) \ {s}
    <3>1. topic' = Without(topic, s)
      BY <1>3 DEF RemoveSubscription
    <3>2. Distinct(Without(topic, s)) /\ SeqElems(Without(topic, s)) = SeqElems(topic) \ {s}
      BY <1>a, WithoutOne
    <3>3. QED
      BY <3>1, <3>2 DEF Distinct, SeqElems
  <2>2. \A o \in Subs : Gone(o)' <=> (Gone(o) \/ o = s)
    BY <1>a, <1>3 DEF RemoveSubscription
  <2>3. Listed'
    BY <1>a, <1>3, <2>1, <2>2 DEF RemoveSubscription
  <2>4. QED
    BY <1>b, <2>1, <2>3
<1>4. ASSUME NEW s \in Subs, WorkerTake(s) \/ WorkerHandled(s) \/ WorkerStop(s)
      PROVE  TopicIsLive'
  <2>1. /\ UNCHANGED <<topic, cancel, closer>>
        /\ worker[s] # "none"
        /\ \E at \in {"idle", "busy", "done"} : worker' = [worker EXCEPT ![s] = at]
    BY <1>4 DEF WorkerTake, WorkerHandled, AfterHandler, WorkerStop
  <2>2. \A o \in Subs : worker'[o] = "none" <=> worker[o] = "none"
    BY <1>a, <2>1
  <2>3. QED
    BY <1>c, <2>1, <2>2
<1>5. ASSUME NEW p \in Publishers, BeginPublish(p) \/ SnapshotSubs(p) \/ Sends(p) \/ EndPublish(p)
      PROVE  TopicIsLive'
  <2>1. UNCHANGED <<topic, cancel, worker, closer>>
    BY <1>5 DEF BeginPublish, SnapshotSubs, Sends, EndPublish, subVars
  <2>2. QED
    BY <1>c, <2>1
<1>6. CASE BeginClose \/ AllCancelled \/ EndClose
  <2>1. UNCHANGED <<topic, cancel, worker>>
    BY <1>6 DEF BeginClose, AllCancelled, EndClose, subVars
  <2>2. closer'.subs = closer.subs
    BY <1>6 DEF BeginClose, AllCancelled, EndClose, TypeOK
  <2>3. QED
    BY <1>c, <2>1, <2>2
<1>7. CASE CollectSubs
  <2>1. /\ SeqElems(topic)' = {} /\ SeqElems(closer.subs)' = SeqElems(topic)
        /\ SeqElems(closer.subs) = {} /\ DOMAIN topic' = {}
    BY <1>7 DEF CollectSubs, CloseInv, SeqElems
  <2>2. UNCHANGED <<cancel, worker>>
    BY <1>7 DEF CollectSubs, subVars
  <2>3. Distinct(topic)'
    BY <2>1 DEF Distinct
  <2>4. Listed'
    BY <1>a, <2>1, <2>2
  <2>5. QED
    BY <1>b, <2>3, <2>4
<1>8. CASE UNCHANGED vars
  <2>1. QED
    BY <1>c, <1>8 DEF vars, subVars
<1>9. QED
  BY <1>1, <1>2, <1>3, <1>4, <1>5, <1>6, <1>7, <1>8, BusSteps

\* Publishers go on going through their snapshots from the front.
LEMMA PublisherNext == TypeOK /\ TopicIsLive /\ PublisherInv /\ [Next]_vars => PublisherInv'
<1> DEFINE Fine(o) ==
        /\ Distinct(pub[o].snap)
        /\ pub[o].next >= 1
        /\ pub[o].at # "idle" => pub[o].count >= 1
        /\ pub[o].at = "snapshot" => pub[o].next = 1
        /\ pub[o].at = "ok" => pub[o].next > Len(pub[o].snap)
        /\ pub[o].at \in {"evict", "push"} =>
              pub[o].next <= Len(pub[o].snap) /\ Target(o) \notin BlockSubs
<1> SUFFICES ASSUME TypeOK, TopicIsLive, PublisherInv, [Next]_vars, NEW o \in Publishers
             PROVE  Fine(o)'
  BY DEF PublisherInv
<1>a. pub \in [Publishers -> PubType] /\ pub[o] \in PubType /\ Fine(o)
  BY DEF TypeOK, PubType, PublisherInv
<1>b. ASSUME pub'[o] = pub[o]
      PROVE  Fine(o)'
  BY <1>a, <1>b DEF Target, Distinct
<1>1. ASSUME NEW p \in Publishers, p # o,
             BeginPublish(p) \/ SnapshotSubs(p) \/ Sends(p) \/ EndPublish(p)
      PROVE  Fine(o)'
  <2>1. pub'[o] = pub[o]
    <3>1. CASE BeginPublish(p) \/ SnapshotSubs(p)
      BY <1>a, <1>1, <3>1 DEF BeginPublish, SnapshotSubs
    <3>2. CASE Sends(p) \/ EndPublish(p)
      BY <1>a, <1>1, <3>2, PublisherMoves DEF Sends, Push, Skips, Evicts, Turns, EndPublish
    <3>3. QED
      BY <1>1, <3>1, <3>2
  <2>2. QED
    BY <1>b, <2>1
<1>2. CASE BeginPublish(o)
  <2>1. pub'[o].snap = <<>> /\ pub'[o].next = 1 /\ pub'[o].count = pub[o].count + 1
        /\ pub'[o].at \in {"refused", "snapshot"}
    BY <1>a, <1>2 DEF BeginPublish, PubType
  <2>2. pub[o].count \in Nat
    BY <1>a, BusAssumption DEF PubType
  <2>3. QED
    BY <2>1, <2>2 DEF Distinct
<1>3. CASE SnapshotSubs(o)
  <2>1. /\ pub'[o].snap = topic /\ pub'[o].next = pub[o].next
        /\ pub'[o].at = "enqueue" /\ pub'[o].count = pub[o].count
        /\ pub[o].at = "snapshot"
    BY <1>a, <1>3 DEF SnapshotSubs, PubType
  <2>2. Distinct(topic)
    BY DEF TopicIsLive, Distinct
  <2>3. QED
    BY <1>a, <2>1, <2>2 DEF Distinct
<1>4. CASE Sends(o)
  <2>1. /\ pub'[o].snap = pub[o].snap /\ pub'[o].count = pub[o].count
        /\ \/ pub'[o].at = "enqueue" /\ pub'[o].next = pub[o].next + 1
           \/ /\ pub'[o].at \in {"evict", "push"} /\ pub'[o].next = pub[o].next
              /\ Target(o) \notin BlockSubs
           \/ pub'[o].at = "failed" /\ pub'[o].next = pub[o].next
    BY <1>a, <1>4, PublisherMoves DEF Sends, Push, Skips, Evicts, Turns
  <2>2. pub[o].next \in Nat /\ pub[o].next <= Len(pub[o].snap) /\ pub[o].at # "idle"
    BY <1>a, <1>4 DEF Sends, Sending, PubType
  <2>3. pub'[o].next >= 1
    BY <1>a, <2>1, <2>2
  <2>4. pub'[o].at \in {"evict", "push"} =>
           pub'[o].next <= Len(pub'[o].snap) /\ Target(o)' \notin BlockSubs
    BY <2>1, <2>2 DEF Target
  <2>5. QED
    BY <1>a, <2>1, <2>2, <2>3, <2>4 DEF Distinct
<1>5. CASE EndPublish(o)
  <2>1. /\ pub'[o].snap = pub[o].snap /\ pub'[o].count = pub[o].count
        /\ pub'[o].at = "ok" /\ pub'[o].next = pub[o].next
        /\ pub[o].next > Len(pub[o].snap) /\ pub[o].at = "enqueue"
    BY <1>a, <1>5, PublisherMoves DEF EndPublish
  <2>2. QED
    BY <1>a, <2>1 DEF Distinct
<1>6. ASSUME NEW s \in Subs,
             \/ Subscribe(s) \/ CloseCancelCh(s) \/ RemoveSubscription(s)
             \/ WorkerTake(s) \/ WorkerHandled(s) \/ WorkerStop(s)
      PROVE  Fine(o)'
  BY <1>b, <1>6 DEF Subscribe, CloseCancelCh, RemoveSubscription, WorkerTake, WorkerHandled, WorkerStop
<1>7. CASE BeginClose \/ CollectSubs \/ AllCancelled \/ EndClose \/ UNCHANGED vars
  BY <1>b, <1>7 DEF BeginClose, CollectSubs, AllCancelled, EndClose, vars
<1>8. QED
  BY <1>1, <1>2, <1>3, <1>4, <1>5, <1>6, <1>7, BusSteps

\* The workers of what Close took are done when it is, and stay so.
LEMMA CloseNext == TypeOK /\ CloseInv /\ PublisherInv /\ [Next]_vars => CloseInv'
<1> SUFFICES ASSUME TypeOK, CloseInv, PublisherInv, [Next]_vars
             PROVE  CloseInv'
  OBVIOUS
<1>a. /\ cancel \in [Subs -> {"live", "closing", "removed"}]
      /\ worker \in [Subs -> {"none", "idle", "busy", "done"}]
      /\ closer \in [at : {"idle", "collect", "cancel", "wait", "closed", "expired"},
                     subs : Seq(Subs)]
      /\ SeqElems(closer.subs) \subseteq Subs
  <2>1. closer.subs \in Seq(Subs) /\ DOMAIN closer.subs = 1..Len(closer.subs)
    BY LenProperties DEF TypeOK
  <2>2. QED
    BY <2>1, ElementOfSeq DEF TypeOK, SeqElems
<1>1. ASSUME NEW s \in Subs,
             \/ Subscribe(s) \/ CloseCancelCh(s) \/ RemoveSubscription(s)
             \/ WorkerTake(s) \/ WorkerHandled(s) \/ WorkerStop(s)
      PROVE  CloseInv'
  <2>1. UNCHANGED <<closed, closer>>
    BY <1>1 DEF Subscribe, CloseCancelCh, RemoveSubscription, WorkerTake, WorkerHandled, WorkerStop
  <2>2. \A o \in Subs : worker[o] = "done" => worker'[o] = "done"
    BY <1>a, <1>1 DEF Subscribe, CloseCancelCh, RemoveSubscription, WorkerTake, WorkerHandled, WorkerStop
  <2>3. \A o \in Subs : worker'[o] = "none" => cancel'[o] = "live"
    BY <1>a, <1>1 DEF Subscribe, CloseCancelCh, RemoveSubscription, WorkerTake, WorkerHandled,
       AfterHandler, WorkerStop, CloseInv
  <2>4. SeqElems(closer.subs)' = SeqElems(closer.subs)
    BY <2>1
  <2>5. QED
    BY <1>a, <2>1, <2>2, <2>3, <2>4 DEF CloseInv
<1>2. ASSUME NEW p \in Publishers, BeginPublish(p) \/ SnapshotSubs(p) \/ Sends(p) \/ EndPublish(p)
      PROVE  CloseInv'
  <2>1. UNCHANGED <<closed, cancel, worker, closer>>
    BY <1>2 DEF BeginPublish, SnapshotSubs, Sends, EndPublish, subVars
  <2>2. QED
    BY <2>1 DEF CloseInv
<1>3. CASE BeginClose
  BY <1>a, <1>3 DEF BeginClose, CloseInv, subVars
<1>4. CASE CollectSubs
  BY <1>a, <1>4 DEF CollectSubs, CloseInv, subVars
<1>5. CASE AllCancelled
  BY <1>a, <1>5 DEF AllCancelled, CloseInv, subVars
<1>6. CASE EndClose
  <2>1. SeqElems(closer.subs)' = SeqElems(closer.subs)
    BY <1>a, <1>6 DEF EndClose
  <2>2. QED
    BY <1>a, <1>6, <2>1 DEF EndClose, CloseWaited, CloseInv, subVars
<1>7. CASE UNCHANGED vars
  BY <1>7 DEF vars, subVars, CloseInv
<1>8. QED
  BY <1>1, <1>2, <1>3, <1>4, <1>5, <1>6, <1>7, BusSteps

--------------------------------------------------------------------------------
(* The order of events. *)

\* A publisher at work on its snapshot owes nothing new, and its event is the same.
LEMMA OwesLess ==
    ASSUME TypeOK, PublisherInv, NEW p \in Publishers,
           SnapshotSubs(p) \/ Sends(p) \/ EndPublish(p)
    PROVE  \A o \in Publishers : /\ pub'[o].count = pub[o].count
                                 /\ \A s \in Subs : Owes(o, s)' => Owes(o, s)
<1>a. pub \in [Publishers -> PubType] /\ pub[p] \in PubType
  BY DEF TypeOK, PubType
<1>b. /\ pub'[p].count = pub[p].count
      /\ \A o \in Publishers \ {p} : pub'[o] = pub[o]
      /\ \/ pub[p].at = "snapshot"
         \/ /\ pub[p].at \in Busy /\ pub'[p].snap = pub[p].snap
            /\ pub[p].next \in Nat
            /\ pub'[p].next \in {pub[p].next, pub[p].next + 1}
            /\ pub'[p].at # "snapshot"
  <2>1. CASE SnapshotSubs(p)
    BY <1>a, <2>1 DEF SnapshotSubs, PubType
  <2>2. CASE Sends(p)
    BY <1>a, <2>2, PublisherMoves DEF Sends, Sending, Push, Skips, Evicts, Turns, Busy, PubType
  <2>3. CASE EndPublish(p)
    BY <1>a, <2>3, PublisherMoves DEF EndPublish, Busy, PubType
  <2>4. QED
    BY <2>1, <2>2, <2>3
<1>1. ASSUME NEW s \in Subs, Owes(p, s)'
      PROVE  Owes(p, s)
  <2>1. CASE pub[p].at = "snapshot"
    BY <2>1 DEF Owes
  <2>2. CASE pub[p].at # "snapshot"
    <3>1. PICK k \in DOMAIN pub[p].snap : k >= pub'[p].next /\ pub[p].snap[k] = s
      BY <1>b, <1>1, <2>2 DEF Owes
    <3>2. k \in Nat
      BY <1>a, LenProperties DEF PubType
    <3>3. k >= pub[p].next
      BY <1>b, <2>2, <3>1, <3>2
    <3>4. QED
      BY <1>b, <2>2, <3>1, <3>3 DEF Owes
  <2>3. QED
    BY <2>1, <2>2
<1>2. ASSUME NEW o \in Publishers, o # p
      PROVE  pub'[o].count = pub[o].count /\ \A s \in Subs : Owes(o, s)' => Owes(o, s)
  BY <1>b, <1>2 DEF Owes
<1>3. QED
  BY <1>b, <1>1, <1>2

\* Nothing has been published at the start.
LEMMA OrderInit == Init => OrderInv
<1> SUFFICES ASSUME Init
             PROVE  OrderInv
  OBVIOUS
<1>1. DOMAIN <<>> = {} /\ SeqElems(<<>>) = {}
  BY DEF SeqElems
<1>2. QED
  BY <1>1 DEF Init, OrderInv

\* The order is kept: events are appended last and taken or evicted first.
LEMMA OrderNext == TypeOK /\ PublisherInv /\ OrderInv /\ [Next]_vars => OrderInv'
<1> DEFINE Sorted(q) == \A j, k \in DOMAIN q : j < k => Earlier(q[j], q[k])
           Before(h, q) == \A d \in SeqElems(h), e \in SeqElems(q) : Earlier(d, e)
           Published(s) == \A e \in SeqElems(handled[s]) \cup SeqElems(queue[s]) :
                              /\ e[2] <= pub[e[1]].count
                              /\ Owes(e[1], s) => e[2] < pub[e[1]].count
           InOrder(s) == /\ Sorted(handled[s]) /\ Sorted(queue[s])
                         /\ Before(handled[s], queue[s]) /\ Published(s)
<1> SUFFICES ASSUME TypeOK, PublisherInv, OrderInv, [Next]_vars, NEW s \in Subs
             PROVE  InOrder(s)'
  BY DEF OrderInv
<1>a. /\ InOrder(s)
      /\ handled \in [Subs -> Seq(Events)] /\ queue \in [Subs -> Seq(Events)]
      /\ handled[s] \in Seq(Events) /\ queue[s] \in Seq(Events)
      /\ pub \in [Publishers -> PubType]
  BY DEF OrderInv, TypeOK, PubType
<1>b. /\ \A e \in SeqElems(handled[s]) \cup SeqElems(queue[s]) : e[1] \in Publishers /\ e[2] \in Nat
      /\ \A o \in Publishers : pub[o].count \in Nat
  <2>1. /\ \A k \in DOMAIN handled[s] : handled[s][k] \in Events
        /\ \A k \in DOMAIN queue[s] : queue[s][k] \in Events
    BY <1>a, LenProperties, ElementOfSeq
  <2>2. \A e \in Events : e[1] \in Publishers /\ e[2] \in Nat
    BY DEF Events
  <2>3. \A o \in Publishers : pub[o].count \in Nat
    BY <1>a, BusAssumption DEF PubType
  <2>4. QED
    BY <2>1, <2>2, <2>3 DEF SeqElems
<1>c. ASSUME handled'[s] = handled[s], queue'[s] = queue[s], Published(s)'
      PROVE  InOrder(s)'
  BY <1>a, <1>c DEF SeqElems
<1>1. ASSUME NEW o \in Subs, WorkerTake(o)
      PROVE  InOrder(s)'
  <2>1. CASE o = s
    <3> DEFINE h == handled[s]
               q == queue[s]
    <3>1. h' = Append(h, Head(q)) /\ q' = Tail(q) /\ q # <<>> /\ pub' = pub
      BY <1>a, <1>1, <2>1 DEF WorkerTake
    <3>2. /\ q[1] = Head(q) /\ 1 \in DOMAIN q /\ Head(q) \in SeqElems(q) /\ Head(q) \in Events
          /\ SeqElems(q') \subseteq SeqElems(q)
          /\ DOMAIN q \subseteq Nat
          /\ \A k \in DOMAIN q' : k \in Nat \ {0} /\ k + 1 \in DOMAIN q /\ q'[k] = q[k + 1]
      <4>1. DOMAIN q \subseteq Nat /\ Tail(q) \in Seq(Events)
        BY <1>a, <3>1, Removed, LenProperties
      <4>2. DOMAIN Tail(q) \subseteq Nat \ {0}
        BY <4>1, LenProperties
      <4>3. QED
        BY <1>a, <3>1, <4>1, <4>2, Removed
    <3>3. /\ SeqElems(h') = SeqElems(h) \cup {Head(q)}
          /\ Len(h) \in Nat /\ DOMAIN h = 1..Len(h)
          /\ \A k \in DOMAIN h' : \/ k \in DOMAIN h /\ h'[k] = h[k]
                                  \/ k = Len(h) + 1 /\ h'[k] = Head(q)
      BY <1>a, <3>1, <3>2, Appended, LenProperties
    <3>4. Sorted(h) /\ Sorted(q) /\ Before(h, q)
      BY <1>a
    <3> HIDE DEF h, q
    <3>5. Sorted(h')
      <4>1. SUFFICES ASSUME NEW j \in DOMAIN h', NEW k \in DOMAIN h', j < k
                     PROVE  Earlier(h'[j], h'[k])
        OBVIOUS
      <4>2. j \in DOMAIN h /\ h'[j] = h[j]
        BY <3>3, <4>1
      <4>3. CASE k \in DOMAIN h /\ h'[k] = h[k]
        BY <3>4, <4>1, <4>2, <4>3
      <4>4. CASE h'[k] = Head(q)
        BY <3>2, <3>4, <4>2, <4>4 DEF SeqElems
      <4>5. QED
        BY <3>3, <4>3, <4>4
    <3>6. Sorted(q')
      BY <3>2, <3>4
    <3>7. Before(h', q')
      <4>1. SUFFICES ASSUME NEW d \in SeqElems(h'), NEW e \in SeqElems(q')
                     PROVE  Earlier(d, e)
        OBVIOUS
      <4>2. CASE d = Head(q)
        <5>1. PICK k \in DOMAIN q' : e = q'[k]
          BY DEF SeqElems
        <5>2. 1 < k + 1 /\ k + 1 \in DOMAIN q /\ e = q[k + 1]
          BY <3>2, <5>1
        <5>3. QED
          BY <3>2, <3>4, <4>2, <5>2
      <4>3. QED
        BY <3>2, <3>3, <3>4, <4>2
    <3>8. Published(s)'
      BY <1>a, <3>1, <3>2, <3>3 DEF h, q, Owes
    <3>9. QED
      BY <3>5, <3>6, <3>7, <3>8 DEF h, q
  <2>2. CASE o # s
    <3>1. handled'[s] = handled[s] /\ queue'[s] = queue[s] /\ pub' = pub
      BY <1>a, <1>1, <2>2 DEF WorkerTake
    <3>2. QED
      BY <1>a, <1>c, <3>1 DEF Owes
  <2>3. QED
    BY <2>1, <2>2
<1>2. ASSUME NEW p \in Publishers, Sends(p)
      PROVE  InOrder(s)'
  <2>1. /\ \A o \in Publishers : pub'[o].count = pub[o].count /\ (Owes(o, s)' => Owes(o, s))
        /\ handled'[s] = handled[s]
        /\ Event(p) \in Events /\ Target(p) \in Subs /\ pub[p].next \in DOMAIN pub[p].snap
    BY <1>2, OwesLess, InHand DEF Sends
  <2>2. CASE queue'[s] = queue[s]
    BY <1>a, <1>b, <1>c, <2>1, <2>2
  <2>3. CASE Target(p) = s /\ Push(p, s)
    <3> DEFINE q == queue[s]
    <3>1. q' = Append(q, Event(p))
      BY <1>a, <2>3 DEF Push
    <3>2. /\ SeqElems(q') = SeqElems(q) \cup {Event(p)}
          /\ Len(q) \in Nat /\ DOMAIN q = 1..Len(q)
          /\ \A k \in DOMAIN q' : \/ k \in DOMAIN q /\ q'[k] = q[k]
                                  \/ k = Len(q) + 1 /\ q'[k] = Event(p)
      BY <1>a, <2>1, <3>1, Appended, LenProperties
    <3>3. Owes(p, s)
      <4>1. pub[p].next >= pub[p].next
        BY <1>a DEF PubType
      <4>2. QED
        BY <1>2, <2>1, <2>3, <4>1 DEF Sends, Sending, Owes, Busy, Target
    <3>4. \A e \in SeqElems(handled[s]) \cup SeqElems(q) : Earlier(e, Event(p))
      BY <1>a, <3>3 DEF Earlier, Event
    <3>5. ~Owes(p, s)'
      <4>1. /\ pub'[p].at = "enqueue" /\ pub'[p].snap = pub[p].snap
            /\ pub'[p].next = pub[p].next + 1
        BY <1>a, <2>3, PublisherMoves DEF Push
      <4>2. \A k \in DOMAIN pub[p].snap : k >= pub[p].next + 1 => pub[p].snap[k] # s
        <5>1. Distinct(pub[p].snap) /\ pub[p].snap[pub[p].next] = s
          BY <2>3 DEF PublisherInv, Target
        <5>2. pub[p].next \in Nat /\ pub[p].snap \in Seq(Subs)
          BY <1>a DEF PubType
        <5>3. DOMAIN pub[p].snap \subseteq Nat
          BY <5>2, LenProperties
        <5>4. QED
          BY <2>1, <5>1, <5>2, <5>3 DEF Distinct
      <4>3. QED
        BY <4>1, <4>2 DEF Owes
    <3>6. Sorted(q) /\ Before(handled[s], q)
      BY <1>a
    <3> HIDE DEF q
    <3>7. Sorted(q')
      <4>1. SUFFICES ASSUME NEW j \in DOMAIN q', NEW k \in DOMAIN q', j < k
                     PROVE  Earlier(q'[j], q'[k])
        OBVIOUS
      <4>2. j \in DOMAIN q /\ q'[j] = q[j]
        BY <3>2, <4>1
      <4>3. CASE k \in DOMAIN q /\ q'[k] = q[k]
        BY <3>6, <4>1, <4>2, <4>3
      <4>4. CASE q'[k] = Event(p)
        BY <3>4, <4>2, <4>4 DEF SeqElems
      <4>5. QED
        BY <3>2, <4>3, <4>4
    <3>8. Before(handled[s], q')
      BY <3>2, <3>4, <3>6
    <3>9. Published(s)'
      <4>1. Event(p)[1] = p /\ Event(p)[2] = pub[p].count /\ pub[p].count \in Nat
        BY <1>b DEF Event
      <4>2. SUFFICES ASSUME NEW e \in SeqElems(handled[s]) \cup SeqElems(q) \cup {Event(p)}
                     PROVE  /\ e[2] <= pub'[e[1]].count
                            /\ Owes(e[1], s)' => e[2] < pub'[e[1]].count
        BY <2>1, <3>2 DEF q
      <4>3. CASE e = Event(p)
        BY <2>1, <3>5, <4>1, <4>3
      <4>4. CASE e # Event(p)
        BY <1>a, <1>b, <2>1, <4>2, <4>4 DEF q
      <4>5. QED
        BY <4>3, <4>4
    <3>10. QED
      BY <1>a, <2>1, <3>7, <3>8, <3>9 DEF q
  <2>4. CASE Target(p) = s /\ Evicts(p)
    <3> DEFINE q == queue[s]
    <3>1. q' = Tail(q) /\ q # <<>>
      BY <1>a, <2>4 DEF Evicts
    <3>2. /\ SeqElems(q') \subseteq SeqElems(q)
          /\ \A k \in DOMAIN q' : k + 1 \in DOMAIN q /\ q'[k] = q[k + 1]
          /\ DOMAIN q' \subseteq Nat
      <4>1. Tail(q) \in Seq(Events)
        BY <1>a, <3>1, Removed
      <4>2. DOMAIN Tail(q) \subseteq Nat
        BY <4>1, LenProperties
      <4>3. QED
        BY <1>a, <3>1, <4>2, Removed
    <3>3. Sorted(q) /\ Before(handled[s], q)
      BY <1>a
    <3>4. Published(s)'
      BY <1>a, <1>b, <2>1, <3>2
    <3> HIDE DEF q
    <3>5. Sorted(q') /\ Before(handled[s], q')
      BY <3>2, <3>3
    <3>6. QED
      BY <1>a, <2>1, <3>4, <3>5 DEF q
  <2>5. QED
    <3>1. \/ queue'[s] = queue[s]
          \/ Target(p) = s /\ (Push(p, s) \/ Evicts(p))
      BY <1>a, <1>2, <2>1 DEF Sends, Push, Skips, Evicts, Turns
    <3>2. QED
      BY <2>2, <2>3, <2>4, <3>1
<1>3. ASSUME NEW p \in Publishers, BeginPublish(p)
      PROVE  InOrder(s)'
  <2>1. /\ handled'[s] = handled[s] /\ queue'[s] = queue[s]
        /\ pub'[p].count = pub[p].count + 1
        /\ \A o \in Publishers \ {p} : pub'[o] = pub[o]
    BY <1>a, <1>3 DEF BeginPublish, subVars, PubType
  <2>2. \A o \in Publishers \ {p} : Owes(o, s)' => Owes(o, s)
    BY <2>1 DEF Owes
  <2>3. ASSUME NEW e \in SeqElems(handled[s]) \cup SeqElems(queue[s])
        PROVE  e[2] <= pub'[e[1]].count /\ (Owes(e[1], s)' => e[2] < pub'[e[1]].count)
    <3>1. CASE e[1] = p
      <4>1. e[2] <= pub[p].count
        BY <1>a, <2>3, <3>1
      <4>2. e[2] \in Nat /\ pub[p].count \in Nat
        BY <1>b, <2>3
      <4>3. QED
        BY <2>1, <3>1, <4>1, <4>2
    <3>2. CASE e[1] # p
      BY <1>a, <1>b, <2>1, <2>2, <2>3, <3>2
    <3>3. QED
      BY <3>1, <3>2
  <2>4. QED
    BY <1>c, <2>1, <2>3
<1>4. ASSUME NEW p \in Publishers, SnapshotSubs(p) \/ EndPublish(p)
      PROVE  InOrder(s)'
  <2>1. handled'[s] = handled[s] /\ queue'[s] = queue[s]
    BY <1>4 DEF SnapshotSubs, EndPublish, subVars
  <2>2. \A o \in Publishers : pub'[o].count = pub[o].count /\ (Owes(o, s)' => Owes(o, s))
    BY <1>4, OwesLess
  <2>3. QED
    BY <1>a, <1>b, <1>c, <2>1, <2>2
<1>5. ASSUME UNCHANGED <<handled, queue, pub>>
      PROVE  InOrder(s)'
  BY <1>a, <1>c, <1>5 DEF Owes
<1>6. ASSUME NEW o \in Subs,
             Subscribe(o) \/ CloseCancelCh(o) \/ RemoveSubscription(o) \/ WorkerHandled(o) \/ WorkerStop(o)
      PROVE  UNCHANGED <<handled, queue, pub>>
  BY <1>6 DEF Subscribe, CloseCancelCh, RemoveSubscription, WorkerHandled, WorkerStop
<1>7. CASE BeginClose \/ CollectSubs \/ AllCancelled \/ EndClose \/ UNCHANGED vars
  <2>1. UNCHANGED <<handled, queue, pub>>
    BY <1>7 DEF BeginClose, CollectSubs, AllCancelled, EndClose, vars, subVars
  <2>2. QED
    BY <1>5, <2>1
<1>8. QED
  BY <1>1, <1>2, <1>3, <1>4, <1>5, <1>6, <1>7, BusSteps

--------------------------------------------------------------------------------
(* What a blocking subscription is given. *)

\* Nothing has been accepted at the start.
LEMMA BlockInit == Init => BlockInv
<1> SUFFICES ASSUME Init, NEW s \in BlockSubs
             PROVE  /\ handled[s] \o queue[s] = entered[s]
                    /\ \A p \in Publishers : pub[p].at \notin Busy \cup {"ok"}
  BY DEF BlockInv
<1>1. handled[s] = <<>> /\ queue[s] = <<>> /\ entered[s] = <<>>
  BY BusAssumption DEF Init
<1>2. <<>> \o <<>> = <<>>
  OBVIOUS
<1>3. \A p \in Publishers : pub[p].at = "idle"
  BY DEF Init
<1>4. QED
  BY <1>1, <1>2, <1>3 DEF Busy

\* Every step keeps what a blocking subscription was given: the worker moves the first of
\* the channel to the end of what was handled, a publisher adds to both ends alike, and
\* nobody evicts.
LEMMA HeldNext ==
    ASSUME TypeOK, PublisherInv, [Next]_vars, NEW s \in BlockSubs,
           handled[s] \o queue[s] = entered[s]
    PROVE  (handled[s] \o queue[s] = entered[s])'
<1>a. /\ s \in Subs
      /\ queue \in [Subs -> Seq(Events)] /\ entered \in [Subs -> Seq(Events)]
      /\ handled \in [Subs -> Seq(Events)]
      /\ queue[s] \in Seq(Events) /\ handled[s] \in Seq(Events)
  BY BusAssumption DEF TypeOK
<1>b. ASSUME queue'[s] = queue[s], handled'[s] = handled[s], entered'[s] = entered[s]
      PROVE  (handled[s] \o queue[s] = entered[s])'
  BY <1>b
<1>1. ASSUME NEW o \in Subs,
             \/ Subscribe(o) \/ CloseCancelCh(o) \/ RemoveSubscription(o)
             \/ WorkerHandled(o) \/ WorkerStop(o)
      PROVE  (handled[s] \o queue[s] = entered[s])'
  BY <1>b, <1>1 DEF Subscribe, CloseCancelCh, RemoveSubscription, WorkerHandled, WorkerStop
<1>2. ASSUME NEW o \in Subs, WorkerTake(o)
      PROVE  (handled[s] \o queue[s] = entered[s])'
  <2>1. CASE o = s
    <3>1. /\ queue'[s] = Tail(queue[s]) /\ entered'[s] = entered[s] /\ queue[s] # <<>>
          /\ handled'[s] = Append(handled[s], Head(queue[s]))
      BY <1>a, <1>2, <2>1 DEF WorkerTake
    <3>2. Append(handled[s], Head(queue[s])) \o Tail(queue[s]) = handled[s] \o queue[s]
      BY <1>a, <3>1, TakeConcat
    <3>3. QED
      BY <3>1, <3>2
  <2>2. CASE o # s
    BY <1>a, <1>b, <1>2, <2>2 DEF WorkerTake
  <2>3. QED
    BY <2>1, <2>2
<1>3. ASSUME NEW p \in Publishers, Sends(p)
      PROVE  (handled[s] \o queue[s] = entered[s])'
  <2>1. Target(p) \in Subs /\ Event(p) \in Events /\ handled' = handled
    BY <1>3, InHand DEF Sends
  <2>2. CASE Push(p, Target(p)) /\ Target(p) = s
    <3>1. /\ queue'[s] = Append(queue[s], Event(p)) /\ entered'[s] = Append(entered[s], Event(p))
      BY <1>a, <2>2 DEF Push
    <3>2. handled[s] \o Append(queue[s], Event(p)) = Append(handled[s] \o queue[s], Event(p))
      BY <1>a, <2>1, PutConcat
    <3>3. QED
      BY <2>1, <3>1, <3>2
  <2>3. CASE Push(p, Target(p)) /\ Target(p) # s
    BY <1>a, <1>b, <2>1, <2>3 DEF Push
  <2>4. CASE Evicts(p)
    BY <1>a, <1>b, <2>1, <2>4 DEF Evicts
  <2>5. CASE Skips(p) \/ Turns(p)
    BY <1>b, <2>1, <2>5 DEF Skips, Turns
  <2>6. QED
    BY <1>3, <2>2, <2>3, <2>4, <2>5 DEF Sends
<1>4. ASSUME NEW p \in Publishers, BeginPublish(p) \/ SnapshotSubs(p) \/ EndPublish(p)
      PROVE  (handled[s] \o queue[s] = entered[s])'
  BY <1>b, <1>4 DEF BeginPublish, SnapshotSubs, EndPublish, subVars
<1>5. CASE BeginClose \/ CollectSubs \/ AllCancelled \/ EndClose \/ UNCHANGED vars
  BY <1>b, <1>5 DEF BeginClose, CollectSubs, AllCancelled, EndClose, vars, subVars
<1>6. QED
  BY <1>1, <1>2, <1>3, <1>4, <1>5, BusSteps

\* What entered a channel stays entered, and who is cancelled stays cancelled.
LEMMA EnteredGrows ==
    ASSUME TypeOK, PublisherInv, [Next]_vars, NEW s \in Subs
    PROVE  /\ SeqElems(entered[s]) \subseteq SeqElems(entered'[s])
           /\ Cancelled(s) => Cancelled(s)'
<1>a. /\ entered \in [Subs -> Seq(Events)] /\ entered[s] \in Seq(Events)
      /\ cancel \in [Subs -> {"live", "closing", "removed"}]
  BY DEF TypeOK
<1>1. ASSUME NEW o \in Subs,
             \/ Subscribe(o) \/ CloseCancelCh(o) \/ RemoveSubscription(o)
             \/ WorkerTake(o) \/ WorkerHandled(o) \/ WorkerStop(o)
      PROVE  entered' = entered /\ (Cancelled(s) => Cancelled(s)')
  BY <1>a, <1>1 DEF Subscribe, CloseCancelCh, RemoveSubscription, WorkerTake, WorkerHandled,
     WorkerStop, Cancelled
<1>2. ASSUME NEW p \in Publishers, Sends(p)
      PROVE  /\ SeqElems(entered[s]) \subseteq SeqElems(entered'[s])
             /\ cancel' = cancel
  <2>1. Target(p) \in Subs /\ Event(p) \in Events /\ cancel' = cancel
    BY <1>2, InHand DEF Sends
  <2>2. CASE Push(p, Target(p))
    <3>1. entered'[s] = IF s = Target(p) THEN Append(entered[s], Event(p)) ELSE entered[s]
      BY <1>a, <2>1, <2>2 DEF Push
    <3>2. SeqElems(Append(entered[s], Event(p))) = SeqElems(entered[s]) \cup {Event(p)}
      BY <1>a, <2>1, Appended
    <3>3. QED
      BY <2>1, <3>1, <3>2
  <2>3. CASE entered' = entered
    BY <2>1, <2>3
  <2>4. QED
    BY <1>2, <2>2, <2>3 DEF Sends, Skips, Evicts, Turns
<1>3. ASSUME NEW p \in Publishers, BeginPublish(p) \/ SnapshotSubs(p) \/ EndPublish(p)
      PROVE  UNCHANGED <<entered, cancel>>
  BY <1>3 DEF BeginPublish, SnapshotSubs, EndPublish, subVars
<1>4. CASE BeginClose \/ CollectSubs \/ AllCancelled \/ EndClose \/ UNCHANGED vars
  <2>1. UNCHANGED <<entered, cancel>>
    BY <1>4 DEF BeginClose, CollectSubs, AllCancelled, EndClose, vars, subVars
  <2>2. QED
    BY <2>1 DEF Cancelled
<1>5. QED
  BY <1>1, <1>2, <1>3, <1>4, BusSteps DEF Cancelled

\* A publisher passes a blocking subscription only after its event has entered the channel,
\* or because the subscription is cancelled.
LEMMA PassedNext ==
    ASSUME TypeOK, PublisherInv, BlockInv, [Next]_vars,
           NEW s \in BlockSubs, NEW p \in Publishers,
           (pub[p].at \in Busy \cup {"ok"})',
           NEW k \in DOMAIN pub'[p].snap,
           (k < pub[p].next /\ pub[p].snap[k] = s /\ ~Cancelled(s))'
    PROVE  (Event(p) \in SeqElems(entered[s]))'
<1>a. /\ s \in Subs
      /\ pub \in [Publishers -> PubType] /\ pub[p] \in PubType
      /\ entered \in [Subs -> Seq(Events)] /\ entered[s] \in Seq(Events)
      /\ SeqElems(entered[s]) \subseteq SeqElems(entered'[s])
      /\ ~Cancelled(s)
  BY EnteredGrows, BusAssumption DEF TypeOK, PubType
<1>b. pub[p].snap \in Seq(Subs) /\ DOMAIN pub[p].snap = 1..Len(pub[p].snap) /\ pub[p].next \in Nat
  BY <1>a, LenProperties DEF PubType
<1>c. ASSUME pub[p].at \in Busy \cup {"ok"}, pub'[p].snap = pub[p].snap,
             pub'[p].count = pub[p].count, k < pub[p].next
      PROVE  (Event(p) \in SeqElems(entered[s]))'
  <2>1. Event(p) \in SeqElems(entered[s])
    BY <1>a, <1>c DEF BlockInv
  <2>2. Event(p)' = Event(p)
    BY <1>c DEF Event
  <2>3. QED
    BY <1>a, <2>1, <2>2
<1>1. ASSUME NEW o \in Publishers, o # p,
             BeginPublish(o) \/ SnapshotSubs(o) \/ Sends(o) \/ EndPublish(o)
      PROVE  pub'[p] = pub[p]
  <2>1. CASE BeginPublish(o) \/ SnapshotSubs(o)
    BY <1>a, <1>1, <2>1 DEF BeginPublish, SnapshotSubs
  <2>2. CASE Sends(o) \/ EndPublish(o)
    BY <1>a, <1>1, <2>2, PublisherMoves DEF Sends, Push, Skips, Evicts, Turns, EndPublish
  <2>3. QED
    BY <1>1, <2>1, <2>2
<1>2. CASE BeginPublish(p)
  <2>1. pub'[p].at \in {"refused", "snapshot"}
    BY <1>a, <1>2 DEF BeginPublish
  <2>2. QED
    BY <2>1 DEF Busy
<1>3. CASE SnapshotSubs(p)
  <2>1. pub'[p].next = 1 /\ pub'[p].snap = topic
    BY <1>a, <1>3 DEF SnapshotSubs, PublisherInv, PubType
  <2>2. DOMAIN topic = 1..Len(topic) /\ Len(topic) \in Nat
    BY LenProperties DEF TypeOK
  <2>3. QED
    BY <2>1, <2>2
<1>4. CASE Sends(p)
  <2>1. /\ pub[p].next \in DOMAIN pub[p].snap /\ Target(p) \in Subs /\ Event(p) \in Events
        /\ pub[p].at \in Busy
    BY <1>4, InHand DEF Sends, Sending, Busy
  <2>2. /\ pub'[p].snap = pub[p].snap /\ pub'[p].count = pub[p].count
        /\ \/ pub'[p].next = pub[p].next + 1 /\ Advance(p)
           \/ pub'[p].next = pub[p].next
    BY <1>a, <1>4, PublisherMoves DEF Sends, Push, Skips, Evicts, Turns
  <2>3. CASE k < pub[p].next
    BY <1>c, <2>1, <2>2, <2>3
  <2>4. CASE ~(k < pub[p].next)
    <3>1. k = pub[p].next /\ pub'[p].next = pub[p].next + 1
      BY <1>b, <2>2, <2>4
    <3>2. Target(p) = s
      BY <2>2, <3>1 DEF Target
    <3>3. CASE Push(p, s)
      <4>1. entered'[s] = Append(entered[s], Event(p))
        BY <1>a, <3>3 DEF Push
      <4>2. SeqElems(Append(entered[s], Event(p))) = SeqElems(entered[s]) \cup {Event(p)}
        BY <1>a, <2>1, Appended
      <4>3. Event(p)' = Event(p)
        BY <2>2 DEF Event
      <4>4. QED
        BY <4>1, <4>2, <4>3
    <3>4. CASE ~Push(p, s)
      <4>1. ~Skips(p)
        BY <1>a, <3>2 DEF Skips
      <4>2. ASSUME Evicts(p) \/ Turns(p)
            PROVE  FALSE
        <5>1. pub'[p].next = pub[p].next
          BY <1>a, <4>2, PublisherMoves DEF Evicts, Turns
        <5>2. QED
          BY <1>b, <3>1, <5>1
      <4>3. QED
        BY <1>4, <3>2, <3>4, <4>1, <4>2 DEF Sends
    <3>5. QED
      BY <3>3, <3>4
  <2>5. QED
    BY <2>3, <2>4
<1>5. CASE EndPublish(p)
  <2>1. /\ pub'[p].snap = pub[p].snap /\ pub'[p].count = pub[p].count
        /\ pub'[p].next = pub[p].next /\ pub[p].at = "enqueue"
    BY <1>a, <1>5, PublisherMoves DEF EndPublish
  <2>2. QED
    BY <1>c, <2>1 DEF Busy
<1>6. ASSUME NEW o \in Subs,
             \/ Subscribe(o) \/ CloseCancelCh(o) \/ RemoveSubscription(o)
             \/ WorkerTake(o) \/ WorkerHandled(o) \/ WorkerStop(o)
      PROVE  pub' = pub
  BY <1>6 DEF Subscribe, CloseCancelCh, RemoveSubscription, WorkerTake, WorkerHandled, WorkerStop
<1>7. CASE BeginClose \/ CollectSubs \/ AllCancelled \/ EndClose \/ UNCHANGED vars
  <2>1. pub' = pub
    BY <1>7 DEF BeginClose, CollectSubs, AllCancelled, EndClose, vars
  <2>2. QED
    BY <1>c, <2>1
<1>8. ASSUME pub'[p] = pub[p]
      PROVE  (Event(p) \in SeqElems(entered[s]))'
  BY <1>c, <1>8
<1>9. QED
  BY <1>1, <1>2, <1>3, <1>4, <1>5, <1>6, <1>7, <1>8, BusSteps

\* So the invariant of the blocking subscriptions is kept.
LEMMA BlockNext == TypeOK /\ PublisherInv /\ BlockInv /\ [Next]_vars => BlockInv'
<1> SUFFICES ASSUME TypeOK, PublisherInv, BlockInv, [Next]_vars, NEW s \in BlockSubs
             PROVE  /\ (handled[s] \o queue[s] = entered[s])'
                    /\ (\A p \in Publishers : pub[p].at \in Busy \cup {"ok"} =>
                           \A k \in DOMAIN pub[p].snap :
                               k < pub[p].next /\ pub[p].snap[k] = s /\ ~Cancelled(s) =>
                                   Event(p) \in SeqElems(entered[s]))'
  BY DEF BlockInv
<1>1. (handled[s] \o queue[s] = entered[s])'
  BY HeldNext DEF BlockInv
<1>2. ASSUME NEW p \in Publishers, (pub[p].at \in Busy \cup {"ok"})',
             NEW k \in DOMAIN pub'[p].snap,
             (k < pub[p].next /\ pub[p].snap[k] = s /\ ~Cancelled(s))'
      PROVE  (Event(p) \in SeqElems(entered[s]))'
  BY <1>2, PassedNext
<1>3. QED
  BY <1>1, <1>2

--------------------------------------------------------------------------------
(* The theorems. *)

\* The invariant is inductive.
LEMMA IInvInit == Init => IInv
  BY TypeInit, PlacesInit, OrderInit, BlockInit DEF IInv

LEMMA IInvNext == IInv /\ [Next]_vars => IInv'
  BY TypeNext, TopicNext, PublisherNext, OrderNext, BlockNext, CloseNext DEF IInv

LEMMA IInvAlways == Spec => []IInv
  BY IInvInit, IInvNext, PTL DEF Spec

\* Every variable keeps its type, and no channel ever holds more than its buffer.
THEOREM TypeCorrect == Spec => []TypeOK
<1>1. IInv => TypeOK
  BY DEF IInv
<1>2. QED
  BY <1>1, IInvAlways, PTL

\* However publishers, evictions and cancellations interleave, a subscriber is given what
\* one publisher published in the order it was published, and nothing twice.
THEOREM OrderCorrect == Spec => []OrderPreserved
<1>1. IInv => OrderPreserved
  BY DEF IInv, OrderInv, Earlier, OrderPreserved
<1>2. QED
  BY <1>1, IInvAlways, PTL

\* What the bus has accepted is kept: no channel overflows, a blocking subscription loses
\* nothing, and a topic lists exactly the live subscriptions, each once.
THEOREM DeliveryCorrect == Spec => []DeliveryIsSound
<1>1. ASSUME IInv
      PROVE  BlockLosesNothing
  <2>1. ASSUME NEW s \in BlockSubs, NEW p \in Publishers,
               pub[p].at = "ok", s \in SeqElems(pub[p].snap), ~Cancelled(s)
        PROVE  Event(p) \in SeqElems(entered[s])
    <3>1. PICK k \in DOMAIN pub[p].snap : pub[p].snap[k] = s
      BY <2>1 DEF SeqElems
    <3>2. pub[p].snap \in Seq(Subs) /\ pub[p].next \in Nat
      BY <1>1 DEF IInv, TypeOK
    <3>3. k < pub[p].next
      <4>1. k \in 1..Len(pub[p].snap) /\ Len(pub[p].snap) \in Nat
        BY <3>2, LenProperties
      <4>2. pub[p].next > Len(pub[p].snap)
        BY <1>1, <2>1 DEF IInv, PublisherInv
      <4>3. QED
        BY <3>2, <4>1, <4>2
    <3>4. QED
      BY <1>1, <2>1, <3>1, <3>3 DEF IInv, BlockInv
  <2>2. QED
    BY <1>1, <2>1 DEF IInv, BlockInv, BlockLosesNothing
<1>2. IInv => DeliveryIsSound
  BY <1>1 DEF IInv, DeliveryIsSound
<1>3. QED
  BY <1>2, IInvAlways, PTL

\* Once Close has returned nil no handler of a subscription it collected runs or is called.
THEOREM CloseWaitsCorrect == Spec => CloseWaits
<1>1. ASSUME IInv, [Next]_vars, closer.at = "closed", NEW s \in SeqElems(closer.subs)
      PROVE  worker[s] # "busy" /\ handled'[s] = handled[s]
  <2>1. worker[s] = "done" /\ s \in Subs
    <3>1. closer.subs \in Seq(Subs)
      BY <1>1 DEF IInv, TypeOK
    <3>2. s \in Subs
      BY <3>1, LenProperties, ElementOfSeq DEF SeqElems
    <3>3. QED
      BY <1>1, <3>2 DEF IInv, CloseInv
  <2>2. ASSUME NEW o \in Subs, WorkerTake(o)
        PROVE  handled'[s] = handled[s]
    BY <2>1, <2>2 DEF WorkerTake
  <2>3. ASSUME NEW o \in Subs,
               \/ Subscribe(o) \/ CloseCancelCh(o) \/ RemoveSubscription(o)
               \/ WorkerHandled(o) \/ WorkerStop(o)
        PROVE  handled' = handled
    BY <2>3 DEF Subscribe, CloseCancelCh, RemoveSubscription, WorkerHandled, WorkerStop
  <2>4. ASSUME NEW p \in Publishers, BeginPublish(p) \/ SnapshotSubs(p) \/ Sends(p) \/ EndPublish(p)
        PROVE  handled' = handled
    BY <2>4 DEF BeginPublish, SnapshotSubs, Sends, EndPublish, subVars
  <2>5. ASSUME BeginClose \/ CollectSubs \/ AllCancelled \/ EndClose \/ UNCHANGED vars
        PROVE  handled' = handled
    BY <2>5 DEF BeginClose, CollectSubs, AllCancelled, EndClose, vars, subVars
  <2>6. PublisherInv
    BY <1>1 DEF IInv
  <2>7. QED
    BY <1>1, <2>1, <2>2, <2>3, <2>4, <2>5, <2>6, BusSteps
<1>2. IInv /\ [Next]_vars =>
          [closer.at = "closed" =>
              \A s \in SeqElems(closer.subs) : worker[s] # "busy" /\ handled'[s] = handled[s]]_vars
  BY <1>1
<1>3. QED
  BY <1>2, IInvAlways, PTL DEF Spec, CloseWaits

--------------------------------------------------------------------------------
(* Webhooks. *)

Items == Rows \X Attempts
DeliveryType == [attempts : Attempts, due : BOOLEAN, succeeded : BOOLEAN, exists : BOOLEAN]
TickType == [pc : {"idle", "next", "mark"}, batch : SUBSET Items, item : Items \cup {NoItem},
             status : {"none", "2xx", "error"}]

RowsOK ==
    /\ endpoint \in [Hooks -> Endpoints \cup {NoEndpoint}]
    /\ delivery \in [Rows -> DeliveryType]
    /\ pending \subseteq HookEvents
    /\ tick \in [Dispatchers -> TickType]
    /\ posts \in [Rows -> Attempts]

\* A delivery has an endpoint; an event that is pending has no delivery yet, and what has
\* not been delivered is what it was to begin with.
DeliveryInv ==
    \A r \in Rows :
        /\ delivery[r].exists => Exists(r[2]) /\ r[1] \notin pending
        /\ ~delivery[r].exists => delivery[r].attempts = 0 /\ ~delivery[r].succeeded

\* A row of a batch, as it was when it was listed: attempts remained, and those that it
\* counts were posted.
Held(item) ==
    /\ delivery[item[1]].exists
    /\ item[2] < MaxRetryAttempts
    /\ item[2] <= posts[item[1]] \/ item[1] \in gaveUp

\* What a dispatcher holds; a post that is to be marked has been made.
TickInv ==
    \A d \in Dispatchers :
        /\ tick[d].pc = "idle" => tick[d] = Idle
        /\ \A item \in tick[d].batch : Held(item)
        /\ tick[d].pc = "mark" =>
              /\ tick[d].item \in Items /\ Held(tick[d].item)
              /\ tick[d].item[2] + 1 <= posts[tick[d].item[1]] \/ tick[d].item[1] \in gaveUp
              /\ tick[d].status = "2xx" => tick[d].item[1] \in received

HookInv == RowsOK /\ DeliveryInv /\ TickInv /\ SucceededWasReceived /\ AttemptsWerePosted

--------------------------------------------------------------------------------
(* Records. *)

LEMMA Types ==
    /\ Attempts \subseteq Nat /\ 0 \in Attempts /\ MaxRetryAttempts \in Attempts
    /\ NoDelivery \in DeliveryType /\ NoDelivery.attempts = 0 /\ NoDelivery.succeeded = FALSE
    /\ NoDelivery.exists = FALSE
    /\ Idle \in TickType /\ Idle.pc = "idle" /\ Idle.batch = {}
BY WebhookAssumption DEF Attempts, NoDelivery, DeliveryType, Idle, TickType

\* A row that the bridge inserts.
NewRow == [NoDelivery EXCEPT !.exists = TRUE, !.due = TRUE]
LEMMA NewRows ==
    NewRow \in DeliveryType /\ NewRow.attempts = 0 /\ NewRow.succeeded = FALSE /\ NewRow.exists = TRUE
<1> DEFINE r == NoDelivery
<1>1. r \in DeliveryType /\ r.attempts = 0 /\ r.succeeded = FALSE
  BY Types
<1> HIDE DEF r
<1>2. [r EXCEPT !.exists = TRUE, !.due = TRUE] \in DeliveryType
      /\ [r EXCEPT !.exists = TRUE, !.due = TRUE].attempts = 0
      /\ [r EXCEPT !.exists = TRUE, !.due = TRUE].succeeded = FALSE
      /\ [r EXCEPT !.exists = TRUE, !.due = TRUE].exists = TRUE
  BY <1>1 DEF DeliveryType
<1>3. QED
  BY <1>2 DEF NewRow, r

LEMMA NextItems == NextItem \in TickType /\ NextItem.pc = "next"
<1> DEFINE t == Idle
<1>1. t \in TickType
  BY Types
<1> HIDE DEF t
<1>2. [t EXCEPT !.pc = "next"] \in TickType /\ [t EXCEPT !.pc = "next"].pc = "next"
  BY <1>1 DEF TickType
<1>3. QED
  BY <1>2 DEF NextItem, t

\* A tick with another batch.
LEMMA Rebatched ==
    ASSUME NEW t \in TickType, NEW rest \in SUBSET Items
    PROVE  LET s == [t EXCEPT !.batch = rest] IN
           /\ s \in TickType /\ s.batch = rest /\ s.pc = t.pc /\ s.item = t.item /\ s.status = t.status
BY DEF TickType

--------------------------------------------------------------------------------
(* What a step does. *)

\* A dispatcher goes on, to an item of its batch or to what remains of it.
Goes(d, next) ==
    /\ next \in TickType /\ tick' = [tick EXCEPT ![d] = next]
    /\ next.pc = "idle" => next = Idle
    /\ next.batch \subseteq tick[d].batch

Changes == /\ endpoint' \in [Hooks -> Endpoints \cup {NoEndpoint}]
           /\ \A h \in Hooks : Exists(h) /\ (\E e \in HookEvents : delivery[<<e, h>>].exists)
                 => endpoint'[h] # NoEndpoint
           /\ UNCHANGED <<delivery, pending, tick, posts, received, gaveUp>>
Enqueues(e) == /\ e \in pending /\ pending' = pending \ {e}
               /\ delivery' = [r \in Rows |-> IF r[1] = e /\ Exists(r[2]) /\ endpoint[r[2]].enabled
                                                 /\ Subscribes(r[2], e)
                                              THEN NewRow ELSE delivery[r]]
               /\ UNCHANGED <<endpoint, tick, posts, received, gaveUp>>
Loses(e) == pending' = pending \ {e} /\ UNCHANGED <<endpoint, delivery, tick, posts, received, gaveUp>>
Lists(d) == /\ \E next \in TickType :
                  /\ next.pc = "next" /\ next.batch = {<<r, delivery[r].attempts>> : r \in Due}
                  /\ tick' = [tick EXCEPT ![d] = next]
            /\ UNCHANGED <<endpoint, delivery, pending, posts, received, gaveUp>>
GivesUp(d) ==
    /\ tick[d].pc = "next"
    /\ \E item \in tick[d].batch, row \in DeliveryType :
          /\ row.attempts = MaxRetryAttempts /\ row.succeeded = delivery[item[1]].succeeded
          /\ row.exists = delivery[item[1]].exists
          /\ delivery' = [delivery EXCEPT ![item[1]] = row]
          /\ gaveUp' = gaveUp \cup {item[1]}
    /\ \E next : Goes(d, next) /\ next.pc # "mark"
    /\ UNCHANGED <<endpoint, pending, posts, received>>
Posts(d) ==
    /\ tick[d].pc = "next"
    /\ \E item \in tick[d].batch, status \in {"2xx", "error"} :
          /\ \E next : Goes(d, next) /\ next.pc = "mark" /\ next.item = item /\ next.status = status
          /\ posts' = [posts EXCEPT ![item[1]] = IF @ = MaxRetryAttempts THEN @ ELSE @ + 1]
          /\ received' = IF status = "2xx" THEN received \cup {item[1]} ELSE received
    /\ UNCHANGED <<endpoint, delivery, pending, gaveUp>>
Marks(d) ==
    /\ tick[d].pc = "mark"
    /\ \E row \in DeliveryType :
          LET was == delivery[tick[d].item[1]] IN
          /\ row.attempts = tick[d].item[2] + 1 /\ row.exists = was.exists
          /\ \/ row.succeeded = was.succeeded
             \/ row.succeeded = TRUE /\ tick[d].status = "2xx"
          /\ delivery' = [delivery EXCEPT ![tick[d].item[1]] = row]
    /\ \E next : Goes(d, next) /\ next.pc # "mark"
    /\ UNCHANGED <<endpoint, pending, posts, received, gaveUp>>
Drops(d) == /\ \E next : Goes(d, next) /\ next.pc # "mark"
            /\ UNCHANGED <<endpoint, delivery, pending, posts, received, gaveUp>>
Elapses(r) == /\ \E row \in DeliveryType :
                    /\ row.attempts = delivery[r].attempts /\ row.exists = delivery[r].exists
                    /\ row.succeeded = delivery[r].succeeded
                    /\ delivery' = [delivery EXCEPT ![r] = row]
              /\ UNCHANGED <<endpoint, pending, tick, posts, received, gaveUp>>

\* The requests of the API keep the endpoint of every delivery.
LEMMA ChangeSteps ==
    ASSUME RowsOK, NEW h \in Hooks,
           CreateWebhookEndpoint(h) \/ UpdateWebhookEndpoint(h) \/ DeleteWebhookEndpoint(h)
    PROVE  Changes
<1>0. endpoint \in [Hooks -> Endpoints \cup {NoEndpoint}] /\ NoEndpoint \notin Endpoints
  BY WebhookAssumption DEF RowsOK, NoEndpoint, Endpoints
<1>1. \A req \in HookRequests : Asked(req) \in Endpoints
  BY DEF HookRequests, Asked, Endpoints
<1>2. ASSUME NEW ep \in Endpoints, endpoint' = [endpoint EXCEPT ![h] = ep]
      PROVE  /\ endpoint' \in [Hooks -> Endpoints \cup {NoEndpoint}]
             /\ \A k \in Hooks : Exists(k) => endpoint'[k] # NoEndpoint
  BY <1>0, <1>2 DEF Exists
<1>3. CASE CreateWebhookEndpoint(h) \/ UpdateWebhookEndpoint(h)
  BY <1>1, <1>2, <1>3
     DEF CreateWebhookEndpoint, UpdateWebhookEndpoint, CreateEndpoint, UpdateEndpoint, Change, Changes
<1>4. CASE DeleteWebhookEndpoint(h)
  <2>1. /\ endpoint' = [endpoint EXCEPT ![h] = NoEndpoint]
        /\ \A e \in HookEvents : ~delivery[<<e, h>>].exists
    BY <1>4 DEF DeleteWebhookEndpoint, DeleteEndpoint
  <2>2. endpoint' \in [Hooks -> Endpoints \cup {NoEndpoint}]
    BY <1>0, <2>1
  <2>3. \A k \in Hooks \ {h} : endpoint'[k] = endpoint[k]
    BY <1>0, <2>1
  <2>4. QED
    BY <1>4, <2>1, <2>2, <2>3 DEF DeleteWebhookEndpoint, Change, Changes, Exists
<1>5. QED
  BY <1>3, <1>4

\* What a dispatcher holds after an item.
LEMMA Taken ==
    ASSUME RowsOK, NEW d \in Dispatchers, NEW item, NEW next \in TickType, next.pc \in {"next", "mark"},
           Take(d, item, next)
    PROVE  \E run : /\ Goes(d, run)
                    /\ next.pc = "mark" => run.pc = "mark" /\ run.item = next.item /\ run.status = next.status
                    /\ next.pc = "next" => run.pc # "mark"
<1> DEFINE rest == tick[d].batch \ {item}
           more == [next EXCEPT !.batch = rest]
           run == IF next.pc = "next" /\ rest = {} THEN Idle ELSE more
<1>1. tick[d] \in TickType
  BY DEF RowsOK
<1>2. rest \in SUBSET Items /\ rest \subseteq tick[d].batch
  BY <1>1 DEF TickType
<1>3. /\ more \in TickType /\ more.batch = rest /\ more.pc = next.pc
      /\ more.item = next.item /\ more.status = next.status
  BY <1>2, Rebatched
<1>4. tick' = [tick EXCEPT ![d] = run]
  BY DEF Take
<1> HIDE DEF rest, more
<1>5. Goes(d, run)
  BY <1>2, <1>3, <1>4, Types DEF Goes
<1>6. /\ next.pc = "mark" => run.pc = "mark" /\ run.item = next.item /\ run.status = next.status
      /\ next.pc = "next" => run.pc # "mark"
  BY <1>3, Types
<1>7. QED
  BY <1>5, <1>6

\* A mark ends with the rest of the batch.
LEMMA Ended ==
    ASSUME RowsOK, NEW d \in Dispatchers, tick[d].pc = "mark", EndMark(d)
    PROVE  \E run : Goes(d, run) /\ run.pc # "mark"
<1> DEFINE t == tick[d]
           more == [t EXCEPT !.pc = "next", !.item = NoItem, !.status = "none"]
           run == IF t.batch = {} THEN Idle ELSE more
<1>1. t \in TickType
  BY DEF RowsOK
<1>2. tick' = [tick EXCEPT ![d] = run]
  BY DEF EndMark, RowsOK
<1> HIDE DEF t
<1>3. more \in TickType /\ more.pc = "next" /\ more.batch = t.batch
  BY <1>1 DEF TickType
<1> HIDE DEF more
<1>4. Goes(d, run) /\ run.pc # "mark"
  BY <1>2, <1>3, Types DEF Goes, t
<1>5. QED
  BY <1>4

LEMMA ItemTypes ==
    ASSUME RowsOK, TickInv, NEW d \in Dispatchers
    PROVE  /\ tick[d] \in TickType
           /\ \A item \in tick[d].batch : /\ item \in Items /\ item[1] \in Rows /\ item[2] \in Attempts
                                          /\ Held(item)
           /\ tick[d].pc = "mark" => /\ tick[d].item \in Items /\ tick[d].item[1] \in Rows
                                     /\ tick[d].item[2] \in Attempts /\ Held(tick[d].item)
<1>1. tick[d] \in TickType
  BY DEF RowsOK
<1>2. QED
  BY <1>1 DEF TickInv, TickType, Items

LEMMA GiveUpSteps ==
    ASSUME RowsOK, TickInv, NEW d \in Dispatchers, GiveUp(d)
    PROVE  GivesUp(d)
<1>1. PICK item \in tick[d].batch :
         /\ MarkFailed(item[1], MaxRetryAttempts, TRUE)
         /\ gaveUp' = gaveUp \cup {item[1]}
         /\ Take(d, item, NextItem)
  BY DEF GiveUp
<1> DEFINE r == delivery[item[1]]
           row == [r EXCEPT !.attempts = MaxRetryAttempts, !.due = TRUE]
<1>2. item[1] \in Rows
  BY ItemTypes
<1>3. r \in DeliveryType
  BY <1>2 DEF RowsOK
<1>4. delivery' = [delivery EXCEPT ![item[1]] = row]
  BY <1>1, <1>2 DEF MarkFailed, RowsOK
<1> HIDE DEF r
<1>5. /\ row \in DeliveryType /\ row.attempts = MaxRetryAttempts
      /\ row.succeeded = r.succeeded /\ row.exists = r.exists
  BY <1>3, Types DEF DeliveryType
<1> HIDE DEF row
<1>6. \E next : Goes(d, next) /\ next.pc # "mark"
  BY <1>1, NextItems, Taken
<1>7. QED
  BY <1>1, <1>4, <1>5, <1>6 DEF GiveUp, GivesUp, r

LEMMA PostSteps ==
    ASSUME RowsOK, TickInv, NEW d \in Dispatchers, Post(d)
    PROVE  Posts(d)
<1>1. PICK item \in tick[d].batch, status \in {"2xx", "error"} :
         /\ Take(d, item, [pc |-> "mark", batch |-> {}, item |-> item, status |-> status])
         /\ posts' = [posts EXCEPT ![item[1]] = IF @ = MaxRetryAttempts THEN @ ELSE @ + 1]
         /\ received' = IF status = "2xx" THEN received \cup {item[1]} ELSE received
  BY DEF Post
<1> DEFINE mark == [pc |-> "mark", batch |-> {}, item |-> item, status |-> status]
<1>2. mark \in TickType /\ mark.pc = "mark" /\ mark.item = item /\ mark.status = status
  BY ItemTypes DEF TickType
<1>3. Take(d, item, mark)
  BY <1>1
<1> HIDE DEF mark
<1>4. \E next : Goes(d, next) /\ next.pc = "mark" /\ next.item = item /\ next.status = status
  BY <1>2, <1>3, Taken
<1>5. QED
  BY <1>1, <1>4 DEF Post, Posts

LEMMA MarkSteps ==
    ASSUME RowsOK, TickInv, NEW d \in Dispatchers, Mark(d)
    PROVE  Marks(d)
<1> DEFINE item == tick[d].item
           r == delivery[item[1]]
           count == item[2] + 1
<1>1. /\ tick[d].pc = "mark" /\ item[1] \in Rows /\ item[2] \in Attempts /\ item[2] < MaxRetryAttempts
      /\ Attempt(d) = count
  BY ItemTypes DEF Mark, Held, Attempt
<1>2. count \in Attempts
  BY <1>1, WebhookAssumption DEF Attempts
<1>3. r \in DeliveryType
  BY <1>1 DEF RowsOK
<1>4. \E next : Goes(d, next) /\ next.pc # "mark"
  BY <1>1, Ended DEF Mark
<1>5. CASE Delivered(d)
  <2> DEFINE row == [r EXCEPT !.attempts = count, !.succeeded = TRUE]
  <2>1. delivery' = [delivery EXCEPT ![item[1]] = row]
    BY <1>1, <1>5 DEF Mark, MarkSucceeded, RowsOK
  <2>2. row \in DeliveryType /\ row.attempts = count /\ row.succeeded = TRUE /\ row.exists = r.exists
    <3> HIDE DEF r, count
    <3> QED BY <1>2, <1>3 DEF DeliveryType
  <2> HIDE DEF row
  <2>3. QED
    BY <1>1, <1>4, <1>5, <2>1, <2>2 DEF Mark, Marks, Delivered
<1>6. CASE ~Delivered(d)
  <2> DEFINE row == [r EXCEPT !.attempts = count, !.due = FALSE]
  <2>1. delivery' = [delivery EXCEPT ![item[1]] = row]
    BY <1>1, <1>6 DEF Mark, MarkFailed, RowsOK
  <2>2. row \in DeliveryType /\ row.attempts = count /\ row.succeeded = r.succeeded /\ row.exists = r.exists
    <3> HIDE DEF r, count
    <3> QED BY <1>2, <1>3 DEF DeliveryType
  <2> HIDE DEF row
  <2>3. QED
    BY <1>1, <1>4, <1>6, <2>1, <2>2 DEF Mark, Marks
<1>7. QED
  BY <1>5, <1>6

LEMMA ListSteps ==
    ASSUME RowsOK, TickInv, NEW d \in Dispatchers, ListDue(d)
    PROVE  Lists(d)
<1> DEFINE t == tick[d]
           due == {<<r, delivery[r].attempts>> : r \in Due}
           next == [t EXCEPT !.pc = "next", !.batch = due]
<1>1. t \in TickType
  BY DEF RowsOK
<1>2. due \in SUBSET Items
  BY DEF Due, Items, RowsOK, DeliveryType
<1>3. tick' = [tick EXCEPT ![d] = next]
  BY DEF ListDue, RowsOK
<1> HIDE DEF t, due
<1>4. next \in TickType /\ next.pc = "next" /\ next.batch = due
  BY <1>1, <1>2 DEF TickType
<1> HIDE DEF next
<1>5. QED
  BY <1>3, <1>4 DEF ListDue, Lists, due

LEMMA WebhookSteps ==
    ASSUME RowsOK, TickInv, [WebhookNext]_webhookVars
    PROVE  \/ Changes \/ UNCHANGED webhookVars
           \/ \E e \in HookEvents : Enqueues(e) \/ Loses(e)
           \/ \E d \in Dispatchers : Lists(d) \/ GivesUp(d) \/ Posts(d) \/ Marks(d) \/ Drops(d)
           \/ \E r \in Rows : Elapses(r)
<1>1. ASSUME NEW e \in HookEvents, Enqueue(e) \/ LoseEvent(e)
      PROVE  Enqueues(e) \/ Loses(e)
  BY <1>1 DEF Enqueue, Enqueues, NewRow, LoseEvent, Loses
<1>2. ASSUME NEW d \in Dispatchers, DispatchStep(d)
      PROVE  Lists(d) \/ GivesUp(d) \/ Posts(d) \/ Marks(d)
  BY <1>2, ListSteps, GiveUpSteps, PostSteps, MarkSteps DEF DispatchStep
<1>3. ASSUME NEW d \in Dispatchers, LoseMark(d)
      PROVE  Drops(d)
  BY <1>3, Ended DEF LoseMark, Drops
<1>4. ASSUME NEW d \in Dispatchers, EndDispatcher(d)
      PROVE  Drops(d)
  BY <1>4, Types DEF EndDispatcher, Drops, Goes
<1>5. ASSUME NEW r \in Rows, Elapse(r)
      PROVE  Elapses(r)
  <2> DEFINE was == delivery[r]
             row == [was EXCEPT !.due = TRUE]
  <2>1. was \in DeliveryType
    BY DEF RowsOK
  <2>2. delivery' = [delivery EXCEPT ![r] = row]
    BY <1>5 DEF Elapse, RowsOK
  <2> HIDE DEF was
  <2>3. row \in DeliveryType /\ row.attempts = was.attempts /\ row.exists = was.exists
        /\ row.succeeded = was.succeeded
    BY <2>1 DEF DeliveryType
  <2> HIDE DEF row
  <2>4. QED
    BY <1>5, <2>2, <2>3 DEF Elapse, Elapses, was
<1>6. QED
  BY <1>1, <1>2, <1>3, <1>4, <1>5, ChangeSteps DEF WebhookNext

--------------------------------------------------------------------------------
(* The invariant is inductive. *)

LEMMA InitInv == WebhookInit => HookInv
<1> SUFFICES ASSUME WebhookInit PROVE HookInv
  OBVIOUS
<1>1. RowsOK
  <2>1. endpoint \in [Hooks -> Endpoints \cup {NoEndpoint}]
    <3>1. [enabled |-> TRUE, events |-> {}] \in Endpoints
      BY DEF Endpoints
    <3>2. QED
      BY <3>1 DEF WebhookInit
  <2>2. QED
    BY <2>1, Types DEF WebhookInit, RowsOK
<1>2. DeliveryInv /\ SucceededWasReceived /\ AttemptsWerePosted
  BY Types DEF WebhookInit, DeliveryInv, SucceededWasReceived, AttemptsWerePosted, Rows
<1>3. TickInv
  BY Types DEF WebhookInit, TickInv
<1>4. QED
  BY <1>1, <1>2, <1>3 DEF HookInv

\* The step of an item, as the rows see it.
LEMMA RowsNext ==
    ASSUME HookInv, [WebhookNext]_webhookVars
    PROVE  RowsOK'
<1> USE DEF HookInv
<1>1. CASE Changes
  BY <1>1 DEF Changes, RowsOK
<1>2. CASE UNCHANGED webhookVars
  BY <1>2 DEF webhookVars, RowsOK
<1>3. CASE \E e \in HookEvents : Enqueues(e) \/ Loses(e)
  BY <1>3, NewRows DEF Enqueues, Loses, RowsOK
<1>4. ASSUME NEW d \in Dispatchers, NEW next, Goes(d, next)
      PROVE  tick' \in [Dispatchers -> TickType]
  BY <1>4 DEF Goes, RowsOK
<1>5. ASSUME NEW d \in Dispatchers, Lists(d) \/ GivesUp(d) \/ Marks(d) \/ Drops(d)
      PROVE  RowsOK'
  BY <1>4, <1>5, ItemTypes DEF Lists, GivesUp, Marks, Drops, RowsOK
<1>6. ASSUME NEW d \in Dispatchers, Posts(d)
      PROVE  RowsOK'
  <2>1. PICK item \in tick[d].batch :
           posts' = [posts EXCEPT ![item[1]] = IF @ = MaxRetryAttempts THEN @ ELSE @ + 1]
    BY <1>6 DEF Posts
  <2>2. posts \in [Rows -> Attempts] /\ item[1] \in Rows
    BY ItemTypes DEF RowsOK
  <2>3. posts' \in [Rows -> Attempts]
    BY <2>1, <2>2, WebhookAssumption DEF Attempts
  <2>4. QED
    BY <1>4, <1>6, <2>3 DEF Posts, RowsOK
<1>7. CASE \E r \in Rows : Elapses(r)
  BY <1>7 DEF Elapses, RowsOK
<1>8. QED
  BY <1>1, <1>2, <1>3, <1>5, <1>6, <1>7, WebhookSteps

\* A row stays, a post is not forgotten, and neither is an answer.
LEMMA Grows ==
    ASSUME HookInv, [WebhookNext]_webhookVars
    PROVE  /\ \A r \in Rows : /\ delivery[r].exists => delivery'[r].exists
                              /\ posts[r] <= posts'[r]
           /\ received \subseteq received' /\ gaveUp \subseteq gaveUp'
<1> DEFINE Goal == /\ \A r \in Rows : /\ delivery[r].exists => delivery'[r].exists
                                      /\ posts[r] <= posts'[r]
                   /\ received \subseteq received' /\ gaveUp \subseteq gaveUp'
<1> USE DEF HookInv
<1>0. /\ \A r \in Rows : posts[r] \in Nat /\ delivery[r] \in DeliveryType
      /\ delivery \in [Rows -> DeliveryType]
  BY Types DEF RowsOK
<1>1. CASE Changes
  BY <1>0, <1>1 DEF Changes
<1>2. CASE UNCHANGED webhookVars
  BY <1>0, <1>2 DEF webhookVars
<1>3. CASE \E e \in HookEvents : Enqueues(e) \/ Loses(e)
  BY <1>0, <1>3, NewRows DEF Enqueues, Loses
<1>4. ASSUME NEW d \in Dispatchers, Lists(d) \/ GivesUp(d) \/ Marks(d) \/ Drops(d)
      PROVE  Goal
  BY <1>0, <1>4, ItemTypes DEF Lists, GivesUp, Marks, Drops
<1>5. ASSUME NEW d \in Dispatchers, Posts(d)
      PROVE  Goal
  <2>1. PICK item \in tick[d].batch, status \in {"2xx", "error"} :
           /\ posts' = [posts EXCEPT ![item[1]] = IF @ = MaxRetryAttempts THEN @ ELSE @ + 1]
           /\ received' = IF status = "2xx" THEN received \cup {item[1]} ELSE received
    BY <1>5 DEF Posts
  <2>2. item[1] \in Rows /\ posts \in [Rows -> Attempts]
    BY ItemTypes DEF RowsOK
  <2>3. \A r \in Rows : posts[r] <= posts'[r]
    BY <1>0, <2>1, <2>2
  <2>4. QED
    BY <1>5, <2>1, <2>3 DEF Posts
<1>6. CASE \E r \in Rows : Elapses(r)
  BY <1>0, <1>6 DEF Elapses
<1>7. QED
  BY <1>1, <1>2, <1>3, <1>4, <1>5, <1>6, WebhookSteps

\* What a dispatcher holds goes on to hold.
LEMMA HeldOn ==
    ASSUME HookInv, [WebhookNext]_webhookVars, NEW item \in Items, Held(item)
    PROVE  Held(item)'
<1>1. item[1] \in Rows /\ item[2] \in Nat /\ posts[item[1]] \in Nat
  BY Types DEF HookInv, RowsOK, Items
<1>2. posts'[item[1]] \in Nat
  BY <1>1, RowsNext, Types DEF RowsOK
<1>3. QED
  BY <1>1, <1>2, Grows DEF Held

LEMMA DeliveryNext ==
    ASSUME HookInv, [WebhookNext]_webhookVars
    PROVE  DeliveryInv'
<1> USE DEF HookInv
<1>0. delivery \in [Rows -> DeliveryType]
  BY DEF RowsOK
<1>1. CASE Changes
  <2>1. \A r \in Rows : r[1] \in HookEvents /\ r[2] \in Hooks /\ r = <<r[1], r[2]>>
    BY DEF Rows
  <2>2. \A r \in Rows : delivery[r].exists => endpoint'[r[2]] # NoEndpoint
    BY <1>1, <2>1 DEF Changes, DeliveryInv
  <2>3. QED
    BY <1>1, <2>2 DEF Changes, DeliveryInv, Exists
<1>2. CASE UNCHANGED webhookVars
  BY <1>2 DEF webhookVars, DeliveryInv, Exists
<1>3. CASE \E e \in HookEvents : Enqueues(e) \/ Loses(e)
  BY <1>0, <1>3, NewRows DEF Enqueues, Loses, DeliveryInv, Exists
<1>4. ASSUME NEW d \in Dispatchers, Lists(d) \/ Posts(d) \/ Drops(d)
      PROVE  DeliveryInv'
  BY <1>4 DEF Lists, Posts, Drops, DeliveryInv, Exists
<1>5. ASSUME NEW d \in Dispatchers, GivesUp(d) \/ Marks(d)
      PROVE  DeliveryInv'
  <2>1. PICK i \in Rows, row \in DeliveryType :
          /\ row.exists /\ delivery[i].exists /\ delivery' = [delivery EXCEPT ![i] = row]
          /\ UNCHANGED <<endpoint, pending>>
    <3>1. CASE GivesUp(d)
      BY <3>1, ItemTypes DEF GivesUp, Held
    <3>2. CASE Marks(d)
      BY <3>2, ItemTypes DEF Marks, Held
    <3>3. QED
      BY <1>5, <3>1, <3>2
  <2>2. QED
    BY <1>0, <2>1 DEF DeliveryInv, Exists
<1>6. CASE \E r \in Rows : Elapses(r)
  BY <1>0, <1>6 DEF Elapses, DeliveryInv, Exists
<1>7. QED
  BY <1>1, <1>2, <1>3, <1>4, <1>5, <1>6, WebhookSteps

\* What a tick says of the row that it holds.
OfTick(t) ==
    /\ t.pc = "idle" => t = Idle
    /\ \A item \in t.batch : Held(item)
    /\ t.pc = "mark" =>
          /\ t.item \in Items /\ Held(t.item)
          /\ t.item[2] + 1 <= posts[t.item[1]] \/ t.item[1] \in gaveUp
          /\ t.status = "2xx" => t.item[1] \in received

LEMMA TickNext ==
    ASSUME HookInv, [WebhookNext]_webhookVars
    PROVE  TickInv'
<1> USE DEF HookInv
<1>0. /\ \A d \in Dispatchers : OfTick(tick[d]) /\ tick[d] \in TickType
      /\ tick \in [Dispatchers -> TickType]
      /\ \A t \in TickType : t.batch \subseteq Items
  BY DEF TickInv, OfTick, RowsOK, TickType
<1>1. SUFFICES ASSUME NEW k \in Dispatchers PROVE OfTick(tick[k])'
  BY DEF TickInv, OfTick
<1>2. \A item \in Items : Held(item) => Held(item)'
  BY HeldOn
\* A tick that goes on as it was.
<1>3. OfTick(tick[k])' \/ tick'[k] # tick[k]
  <2> SUFFICES ASSUME tick'[k] = tick[k] PROVE OfTick(tick[k])'
    OBVIOUS
  <2>1. /\ tick[k].pc = "idle" => tick[k] = Idle
        /\ \A item \in tick[k].batch : Held(item)'
    BY <1>0, <1>2 DEF OfTick
  <2>2. ASSUME tick[k].pc = "mark"
        PROVE  LET item == tick[k].item IN
               /\ item \in Items /\ Held(item)'
               /\ item[2] + 1 <= posts'[item[1]] \/ item[1] \in gaveUp'
               /\ tick[k].status = "2xx" => item[1] \in received'
    <3> DEFINE item == tick[k].item
    <3>1. /\ item \in Items /\ Held(item) /\ (tick[k].status = "2xx" => item[1] \in received)
          /\ item[2] + 1 <= posts[item[1]] \/ item[1] \in gaveUp
      BY <1>0, <2>2 DEF OfTick
    <3>2. item[1] \in Rows /\ item[2] \in Nat /\ posts[item[1]] \in Nat /\ posts'[item[1]] \in Nat
      BY <3>1, RowsNext, Types DEF RowsOK, Items
    <3>3. QED
      BY <1>2, <3>1, <3>2, Grows
  <2>3. QED
    BY <2>1, <2>2 DEF OfTick
\* A tick that goes on to what remains of its batch.
<1>4. ASSUME NEW next, Goes(k, next), next.pc # "mark"
      PROVE  OfTick(tick[k])'
  <2>1. next \in TickType /\ tick'[k] = next /\ \A item \in next.batch : Held(item)'
    BY <1>0, <1>2, <1>4 DEF Goes, OfTick
  <2>2. QED
    BY <1>4, <2>1 DEF Goes, OfTick
<1>5. ASSUME NEW d \in Dispatchers, d # k, NEW next, tick' = [tick EXCEPT ![d] = next]
      PROVE  tick'[k] = tick[k]
  BY <1>0, <1>5
<1>6. CASE Changes \/ UNCHANGED webhookVars \/ (\E r \in Rows : Elapses(r))
  BY <1>3, <1>6 DEF Changes, webhookVars, Elapses
<1>7. CASE \E e \in HookEvents : Enqueues(e) \/ Loses(e)
  BY <1>3, <1>7 DEF Enqueues, Loses
<1>8. ASSUME NEW d \in Dispatchers, d # k, Lists(d) \/ GivesUp(d) \/ Posts(d) \/ Marks(d) \/ Drops(d)
      PROVE  OfTick(tick[k])'
  BY <1>3, <1>5, <1>8 DEF Lists, GivesUp, Posts, Marks, Drops, Goes
<1>9. CASE GivesUp(k) \/ Marks(k) \/ Drops(k)
  BY <1>4, <1>9 DEF GivesUp, Marks, Drops
<1>10. CASE Lists(k)
  <2>1. PICK next \in TickType :
          /\ next.pc = "next" /\ next.batch = {<<r, delivery[r].attempts>> : r \in Due}
          /\ tick' = [tick EXCEPT ![k] = next]
    BY <1>10 DEF Lists
  <2>2. ASSUME NEW r \in Due PROVE Held(<<r, delivery[r].attempts>>)
    BY <2>2 DEF Due, Held, AttemptsWerePosted
  <2>3. \A item \in next.batch : item \in Items /\ Held(item)
    BY <1>0, <2>1, <2>2
  <2>4. tick'[k] = next
    BY <1>0, <2>1
  <2>5. QED
    BY <1>2, <2>1, <2>3, <2>4 DEF OfTick
<1>11. CASE Posts(k)
  <2>1. PICK item \in tick[k].batch, status \in {"2xx", "error"} :
          /\ \E next : Goes(k, next) /\ next.pc = "mark" /\ next.item = item /\ next.status = status
          /\ posts' = [posts EXCEPT ![item[1]] = IF @ = MaxRetryAttempts THEN @ ELSE @ + 1]
          /\ received' = IF status = "2xx" THEN received \cup {item[1]} ELSE received
    BY <1>11 DEF Posts
  <2>2. PICK next : Goes(k, next) /\ next.pc = "mark" /\ next.item = item /\ next.status = status
    BY <2>1
  <2>3. /\ item \in Items /\ item[1] \in Rows /\ item[2] \in Nat /\ item[2] < MaxRetryAttempts
        /\ item[2] <= posts[item[1]] \/ item[1] \in gaveUp
        /\ posts \in [Rows -> Attempts] /\ posts[item[1]] \in Nat
    BY ItemTypes, Types DEF RowsOK, Held
  <2>4. posts'[item[1]] = IF posts[item[1]] = MaxRetryAttempts THEN MaxRetryAttempts ELSE posts[item[1]] + 1
    BY <2>1, <2>3
  <2>5. item[2] + 1 <= posts'[item[1]] \/ item[1] \in gaveUp'
    <3>1. gaveUp' = gaveUp
      BY <1>11 DEF Posts
    <3>2. QED
      BY <2>3, <2>4, <3>1, WebhookAssumption
  <2>6. tick'[k] = next /\ \A i \in next.batch : Held(i)'
    BY <1>0, <1>2, <2>2 DEF Goes, OfTick
  <2>7. Held(item)'
    BY <1>2, <2>3, ItemTypes
  <2>8. next.status = "2xx" => item[1] \in received'
    BY <2>1, <2>2
  <2>9. QED
    BY <2>2, <2>3, <2>5, <2>6, <2>7, <2>8 DEF OfTick
<1>12. QED
  BY <1>6, <1>7, <1>8, <1>9, <1>10, <1>11, WebhookSteps

\* A success needs an answer, and it stays.
LEMMA SuccessNext ==
    ASSUME HookInv, [WebhookNext]_webhookVars
    PROVE  /\ SucceededWasReceived'
           /\ \A r \in Rows : delivery[r].succeeded => delivery'[r].succeeded
<1> DEFINE Goal == \A r \in Rows : /\ delivery[r].succeeded => delivery'[r].succeeded
                                   /\ delivery'[r].succeeded => delivery[r].succeeded \/ r \in received'
<1> USE DEF HookInv
<1>0. delivery \in [Rows -> DeliveryType]
  BY DEF RowsOK
<1>1. ASSUME Changes \/ UNCHANGED webhookVars
      PROVE  Goal
  BY <1>1 DEF Changes, webhookVars
<1>2. ASSUME \E e \in HookEvents : Enqueues(e) \/ Loses(e)
      PROVE  Goal
  BY <1>0, <1>2, NewRows DEF Enqueues, Loses, DeliveryInv
<1>3. ASSUME NEW d \in Dispatchers, Lists(d) \/ Posts(d) \/ Drops(d) \/ GivesUp(d)
      PROVE  Goal
  BY <1>0, <1>3, ItemTypes DEF Lists, Posts, Drops, GivesUp
<1>4. ASSUME NEW d \in Dispatchers, Marks(d)
      PROVE  Goal
  <2>1. tick[d].status = "2xx" => tick[d].item[1] \in received'
    BY <1>4 DEF Marks, TickInv
  <2>2. tick[d].item[1] \in Rows
    BY <1>4, ItemTypes DEF Marks
  <2>3. QED
    BY <1>0, <1>4, <2>1, <2>2 DEF Marks
<1>5. ASSUME \E r \in Rows : Elapses(r)
      PROVE  Goal
  BY <1>0, <1>5 DEF Elapses
<1>6. Goal
  BY <1>1, <1>2, <1>3, <1>4, <1>5, WebhookSteps
<1>7. QED
  BY <1>6, Grows DEF SucceededWasReceived

LEMMA PostedNext ==
    ASSUME HookInv, [WebhookNext]_webhookVars
    PROVE  AttemptsWerePosted'
<1> DEFINE Counted(r) == delivery'[r].attempts <= posts'[r] \/ r \in gaveUp'
<1> USE DEF HookInv
<1>0. /\ delivery \in [Rows -> DeliveryType]
      /\ \A r \in Rows : /\ posts[r] \in Nat /\ posts'[r] \in Nat /\ delivery[r].attempts \in Nat
                         /\ posts[r] <= posts'[r]
                         /\ delivery[r].attempts <= posts[r] \/ r \in gaveUp
      /\ gaveUp \subseteq gaveUp'
  BY Grows, RowsNext, Types DEF RowsOK, DeliveryType, AttemptsWerePosted
<1>1. \A r \in Rows : delivery'[r].attempts = delivery[r].attempts => Counted(r)
  BY <1>0
<1>2. CASE Changes \/ UNCHANGED webhookVars \/ (\E r \in Rows : Elapses(r))
  <2>1. \A r \in Rows : delivery'[r].attempts = delivery[r].attempts
    BY <1>0, <1>2 DEF Changes, webhookVars, Elapses
  <2>2. QED
    BY <1>1, <2>1 DEF AttemptsWerePosted
<1>3. CASE \E e \in HookEvents : Enqueues(e) \/ Loses(e)
  <2>1. \A r \in Rows : delivery'[r].attempts = delivery[r].attempts \/ delivery'[r].attempts = 0
    BY <1>0, <1>3, NewRows DEF Enqueues, Loses
  <2>2. QED
    BY <1>0, <1>1, <2>1 DEF AttemptsWerePosted
<1>4. ASSUME NEW d \in Dispatchers, Lists(d) \/ Posts(d) \/ Drops(d)
      PROVE  AttemptsWerePosted'
  <2>1. delivery' = delivery
    BY <1>4 DEF Lists, Posts, Drops
  <2>2. QED
    BY <1>1, <2>1 DEF AttemptsWerePosted
<1>5. ASSUME NEW d \in Dispatchers, GivesUp(d)
      PROVE  AttemptsWerePosted'
  <2>1. PICK i \in Rows : /\ \A r \in Rows \ {i} : delivery'[r] = delivery[r]
                          /\ i \in gaveUp'
    BY <1>0, <1>5, ItemTypes DEF GivesUp
  <2>2. QED
    BY <1>1, <2>1 DEF AttemptsWerePosted
<1>6. ASSUME NEW d \in Dispatchers, Marks(d)
      PROVE  AttemptsWerePosted'
  <2> DEFINE i == tick[d].item[1]
  <2>1. i \in Rows /\ (tick[d].item[2] + 1 <= posts[i] \/ i \in gaveUp) /\ tick[d].item[2] \in Nat
    BY <1>6, ItemTypes, Types DEF Marks, TickInv
  <2>2. delivery'[i].attempts = tick[d].item[2] + 1
    BY <1>0, <1>6, <2>1 DEF Marks
  <2>3. \A r \in Rows \ {i} : delivery'[r] = delivery[r]
    BY <1>0, <1>6, <2>1 DEF Marks
  <2>4. Counted(i)
    BY <1>0, <2>1, <2>2
  <2>5. QED
    BY <1>1, <2>3, <2>4 DEF AttemptsWerePosted
<1>7. QED
  BY <1>2, <1>3, <1>4, <1>5, <1>6, WebhookSteps

LEMMA InvNext == HookInv /\ [WebhookNext]_webhookVars => HookInv'
BY RowsNext, DeliveryNext, TickNext, SuccessNext, PostedNext DEF HookInv

LEMMA InvTypes == HookInv => WebhookTypeOK
<1> SUFFICES ASSUME HookInv PROVE WebhookTypeOK
  OBVIOUS
<1>1. \A d \in Dispatchers : /\ tick[d].batch \subseteq Rows \X Attempts
                             /\ (tick[d].pc = "idle") = (tick[d] = Idle)
  BY Types DEF HookInv, RowsOK, TickInv, TickType, Items
<1>2. QED
  BY <1>1 DEF HookInv, RowsOK, DeliveryInv, DeliveryType, WebhookTypeOK

--------------------------------------------------------------------------------
(* The theorem. *)

\* Whatever several dispatchers post at once and write over each other, and whichever of
\* them crashes: a delivery that counts as delivered was received, attempts that are
\* counted were posted, and a success is not taken back.
THEOREM DeliveriesCorrect == WebhookSpec => DeliveriesAreSound
<1>1. WebhookInit => HookInv
  BY InitInv
<1>2. HookInv /\ [WebhookNext]_webhookVars => HookInv'
  BY InvNext
<1>3. HookInv => WebhookTypeOK /\ SucceededWasReceived /\ AttemptsWerePosted
  BY InvTypes DEF HookInv
<1>4. HookInv /\ [WebhookNext]_webhookVars =>
        [\A r \in Rows : delivery[r].succeeded => delivery'[r].succeeded]_webhookVars
  BY SuccessNext
<1>5. QED
  BY <1>1, <1>2, <1>3, <1>4, PTL DEF WebhookSpec, DeliveriesAreSound, SuccessStays

--------------------------------------------------------------------------------
(* The pool of SSH connections.  The numbers of slots and of open connections *)
(* are compared with sets of calls and stacks, whose cardinalities change by  *)
(* one when one call moves or one stack changes.                              *)

Conns == [auth : CredVersions, state : {"up", "dead", "silent"}, expired : BOOLEAN]
HoldStages == {"take", "dial", "run", "release"}
TenantStages == HoldStages \cup {"wantHost"}
Stages == TenantStages \cup {"acquire", "wantTenant"}
Calls == [at : Stages, host : Hosts, cred : CredVersions, auth : CredVersions, tries : Nat, conn : Conns]
TenantHolders == {w \in Workers : HoldsTenant(w)}
HostHolders(h) == {w \in Workers : Holds(w) /\ exec[w].host = h}
InUse == {w \in Workers : exec[w].at \in {"run", "release"}}

PoolTypes ==
    /\ rotations \in 0..MaxRotations
    /\ keyOf \in [Hosts -> Nat] /\ \A h \in Hosts : keyOf[h] <= rotations
    /\ exec \in [Workers -> Calls \cup {Free}]
    /\ hostSem \in [Hosts -> 0..PerHostLimit] /\ tenantSem \in 0..PerTenantLimit
    /\ idle \in [PoolKeys -> Seq(Conns)] /\ looked \in [PoolKeys -> Nat]
    /\ poolClosed \in BOOLEAN /\ sweeping \in BOOLEAN
    /\ opened \in Nat /\ ended \in Nat

\* A login is no older than what it is kept under or was asked for.
LoginsAreFresh ==
    /\ \A w \in Workers : exec[w] # Free =>
         exec[w].auth >= exec[w].cred /\ (exec[w].at \in {"run", "release"} => exec[w].conn.auth >= exec[w].cred)
    /\ \A k \in PoolKeys : \A j \in DOMAIN idle[k] : idle[k][j].auth >= k[2]

NothingIdleWhenClosed == poolClosed => \A k \in PoolKeys : idle[k] = <<>>
Conserved == opened = ended + IdleCount + Cardinality(InUse)

PoolInv == PoolTypes /\ SlotsMatchHolders /\ LoginsAreFresh /\ NothingIdleWhenClosed /\ Conserved
PoolSafety == PoolTypeOK /\ SlotsMatchHolders /\ NoConnectionLeaks /\ NoStaleLogin

LEMMA CredVersionsAreNat == ASSUME PoolAssumption PROVE CredVersions \subseteq Nat
BY DEF PoolAssumption, CredVersions

LEMMA PoolKeysAreFinite == ASSUME PoolAssumption PROVE IsFiniteSet(PoolKeys)
<1>1. IsFiniteSet(CredVersions)
  BY FS_Interval DEF PoolAssumption, CredVersions
<1> QED BY <1>1, FS_Product DEF PoolAssumption, PoolKeys

LEMMA PoolKeyParts ==
  /\ \A k \in PoolKeys : k[1] \in Hosts /\ k[2] \in CredVersions
  /\ \A h \in Hosts, c \in CredVersions : <<h, c>> \in PoolKeys /\ <<h, c>>[2] = c
BY DEF PoolKeys

\* A set of workers in which one worker's membership changes.
LEMMA OneWorker ==
  ASSUME PoolAssumption, NEW S \in SUBSET Workers, NEW T \in SUBSET Workers, NEW w \in Workers,
         \A v \in Workers \ {w} : v \in S <=> v \in T
  PROVE  /\ Cardinality(S) \in Nat
         /\ Cardinality(T) = Cardinality(S) + (IF w \in T THEN 1 ELSE 0) - (IF w \in S THEN 1 ELSE 0)
<1>1. IsFiniteSet(S) /\ IsFiniteSet(T)
  BY FS_Subset DEF PoolAssumption
<1>2. Cardinality(S) \in Nat /\ Cardinality(T) \in Nat
  BY <1>1, FS_CardinalityType
<1>3. CASE w \in T /\ w \notin S
  <2>1. T = S \cup {w}
    BY <1>3
  <2> QED BY <2>1, <1>1, <1>2, <1>3, FS_AddElement
<1>4. CASE w \in S /\ w \notin T
  <2>1. S = T \cup {w}
    BY <1>4
  <2> QED BY <2>1, <1>1, <1>2, <1>4, FS_AddElement
<1>5. CASE w \in S <=> w \in T
  <2>1. S = T
    BY <1>5
  <2> QED BY <2>1, <1>2, <1>5
<1> QED BY <1>3, <1>4, <1>5

\* Who holds what, when one worker moves on.
LEMMA OneCall ==
  ASSUME PoolAssumption, NEW w \in Workers, \A v \in Workers \ {w} : exec'[v] = exec[v]
  PROVE  /\ Cardinality(TenantHolders) \in Nat /\ Cardinality(InUse) \in Nat
         /\ Cardinality(TenantHolders') = Cardinality(TenantHolders)
              + (IF exec'[w].at \in TenantStages THEN 1 ELSE 0) - (IF exec[w].at \in TenantStages THEN 1 ELSE 0)
         /\ Cardinality(InUse') = Cardinality(InUse)
              + (IF exec'[w].at \in {"run", "release"} THEN 1 ELSE 0) - (IF exec[w].at \in {"run", "release"} THEN 1 ELSE 0)
         /\ \A h : /\ Cardinality(HostHolders(h)) \in Nat
                   /\ Cardinality(HostHolders(h)') = Cardinality(HostHolders(h))
                        + (IF exec'[w].at \in HoldStages /\ exec'[w].host = h THEN 1 ELSE 0)
                        - (IF exec[w].at \in HoldStages /\ exec[w].host = h THEN 1 ELSE 0)
<1>1. /\ Cardinality(TenantHolders) \in Nat
      /\ Cardinality(TenantHolders') = Cardinality(TenantHolders)
              + (IF w \in TenantHolders' THEN 1 ELSE 0) - (IF w \in TenantHolders THEN 1 ELSE 0)
  <2>1. \A v \in Workers \ {w} : v \in TenantHolders <=> v \in TenantHolders'
    BY DEF TenantHolders, HoldsTenant, Holds
  <2> QED BY <2>1, OneWorker DEF TenantHolders
<1>2. /\ Cardinality(InUse) \in Nat
      /\ Cardinality(InUse') = Cardinality(InUse)
              + (IF w \in InUse' THEN 1 ELSE 0) - (IF w \in InUse THEN 1 ELSE 0)
  <2>1. \A v \in Workers \ {w} : v \in InUse <=> v \in InUse'
    BY DEF InUse
  <2> QED BY <2>1, OneWorker DEF InUse
<1>3. ASSUME NEW h
      PROVE  /\ Cardinality(HostHolders(h)) \in Nat
             /\ Cardinality(HostHolders(h)') = Cardinality(HostHolders(h))
                   + (IF w \in HostHolders(h)' THEN 1 ELSE 0) - (IF w \in HostHolders(h) THEN 1 ELSE 0)
  <2>1. \A v \in Workers \ {w} : v \in HostHolders(h) <=> v \in HostHolders(h)'
    BY DEF HostHolders, Holds
  <2> QED BY <2>1, OneWorker DEF HostHolders
<1>4. /\ w \in TenantHolders <=> exec[w].at \in TenantStages
      /\ w \in TenantHolders' <=> exec'[w].at \in TenantStages
      /\ w \in InUse <=> exec[w].at \in {"run", "release"}
      /\ w \in InUse' <=> exec'[w].at \in {"run", "release"}
      /\ \A h : w \in HostHolders(h) <=> exec[w].at \in HoldStages /\ exec[w].host = h
      /\ \A h : w \in HostHolders(h)' <=> exec'[w].at \in HoldStages /\ exec'[w].host = h
  BY DEF TenantHolders, HoldsTenant, Holds, InUse, HostHolders, TenantStages, HoldStages
<1> QED BY <1>1, <1>2, <1>3, <1>4

\* The idle connections, when one stack changes.
ConnsOf(f) == UNION {{k} \X DOMAIN f[k] : k \in PoolKeys}

LEMMA IdleIsConnsOf == IdleConns = ConnsOf(idle) /\ IdleConns' = ConnsOf(idle')
BY DEF IdleConns, ConnsOf

LEMMA ConnsFinite ==
  ASSUME PoolAssumption, NEW f \in [PoolKeys -> Seq(Conns)], NEW K \in SUBSET PoolKeys
  PROVE  IsFiniteSet(UNION {{k} \X DOMAIN f[k] : k \in K})
<1> DEFINE Rest == {{k} \X DOMAIN f[k] : k \in K}
<1>1. IsFiniteSet(K)
  BY PoolKeysAreFinite, FS_Subset
<1>2. IsFiniteSet(Rest)
  <2> DEFINE stackOf == [k \in K |-> {k} \X DOMAIN f[k]]
  <2>1. stackOf \in Surjection(K, Rest)
    BY DEF Surjection
  <2> HIDE DEF stackOf
  <2> QED BY <2>1, <1>1, FS_Surjection
<1>3. ASSUME NEW k \in PoolKeys
      PROVE  IsFiniteSet({k} \X DOMAIN f[k])
  <2>1. f[k] \in Seq(Conns)
    OBVIOUS
  <2>2. Len(f[k]) \in Nat /\ DOMAIN f[k] = 1..Len(f[k])
    BY <2>1, LenProperties
  <2>3. IsFiniteSet(DOMAIN f[k])
    BY <2>2, FS_Interval
  <2> QED BY <2>3, FS_Singleton, FS_Product
<1>4. \A T \in Rest : IsFiniteSet(T)
  BY <1>3
<1> HIDE DEF Rest
<1>5. IsFiniteSet(UNION Rest)
  BY <1>2, <1>4, FS_UNION
<1> QED BY <1>5 DEF Rest

LEMMA OneStack ==
  ASSUME PoolAssumption, NEW f \in [PoolKeys -> Seq(Conns)], NEW k \in PoolKeys
  PROVE  /\ IsFiniteSet(ConnsOf(f)) /\ Cardinality(ConnsOf(f)) \in Nat
         /\ Cardinality(UNION {{j} \X DOMAIN f[j] : j \in PoolKeys \ {k}}) \in Nat
         /\ Cardinality(ConnsOf(f)) = Cardinality(UNION {{j} \X DOMAIN f[j] : j \in PoolKeys \ {k}}) + Len(f[k])
<1> DEFINE A == UNION {{j} \X DOMAIN f[j] : j \in PoolKeys \ {k}}
           B == {k} \X DOMAIN f[k]
<1>1. IsFiniteSet(A) /\ IsFiniteSet(ConnsOf(f))
  <2>1. IsFiniteSet(A)
    <3>1. PoolKeys \ {k} \in SUBSET PoolKeys
      OBVIOUS
    <3> QED BY <3>1, ConnsFinite
  <2>2. PoolKeys \in SUBSET PoolKeys
    OBVIOUS
  <2>3. IsFiniteSet(ConnsOf(f))
    BY <2>2, ConnsFinite DEF ConnsOf
  <2> QED BY <2>1, <2>3
<1>2. f[k] \in Seq(Conns)
  OBVIOUS
<1>3. Len(f[k]) \in Nat /\ DOMAIN f[k] = 1..Len(f[k])
  BY <1>2, LenProperties
<1>4. IsFiniteSet(B) /\ Cardinality(B) = Len(f[k])
  <2> DEFINE n == Len(f[k])
  <2>0. n \in Nat /\ DOMAIN f[k] = 1..n
    BY <1>3
  <2> HIDE DEF n
  <2>a. IsFiniteSet(1..n) /\ Cardinality(1..n) = (IF 1 > n THEN 0 ELSE n - 1 + 1)
    BY <2>0, FS_Interval
  <2>b. (IF 1 > n THEN 0 ELSE n - 1 + 1) = n
    BY <2>0
  <2>1. IsFiniteSet(DOMAIN f[k]) /\ Cardinality(DOMAIN f[k]) = Len(f[k])
    BY <2>0, <2>a, <2>b DEF n
  <2>2. IsFiniteSet({k}) /\ Cardinality({k}) = 1
    BY FS_Singleton
  <2>3. IsFiniteSet(B) /\ Cardinality(B) = 1 * Cardinality(DOMAIN f[k])
    BY <2>1, <2>2, FS_Product
  <2> QED BY <2>1, <2>3, <1>3
<1>5. ConnsOf(f) = A \cup B
  BY DEF ConnsOf
<1>6. A \cap B = {}
  OBVIOUS
<1> HIDE DEF A, B
<1>7. Cardinality(A) \in Nat /\ Cardinality(ConnsOf(f)) \in Nat
  BY <1>1, FS_CardinalityType
<1>8. Cardinality(A \cup B) = Cardinality(A) + Cardinality(B) - Cardinality(A \cap B)
  BY <1>1, <1>4, FS_Union
<1>9. Cardinality(ConnsOf(f)) = Cardinality(A) + Len(f[k])
  <2> DEFINE n == Len(f[k])
  <2>1. n \in Nat /\ Cardinality(B) = n
    BY <1>3, <1>4
  <2>2. Cardinality(A \cap B) = 0
    BY <1>6, FS_EmptySet
  <2> HIDE DEF n
  <2>3. Cardinality(A \cup B) = Cardinality(A) + n
    BY <2>1, <2>2, <1>7, <1>8
  <2> QED BY <2>3, <1>5 DEF n
<1> QED BY <1>1, <1>7, <1>9 DEF A

LEMMA IdleChange ==
  ASSUME PoolAssumption, idle \in [PoolKeys -> Seq(Conns)], idle' \in [PoolKeys -> Seq(Conns)], NEW k \in PoolKeys,
         \A j \in PoolKeys \ {k} : idle'[j] = idle[j]
  PROVE  /\ IdleCount \in Nat /\ IdleCount' \in Nat
         /\ IdleCount' = IdleCount + Len(idle'[k]) - Len(idle[k])
<1> DEFINE f == idle  g == idle'
<1>1. {{j} \X DOMAIN f[j] : j \in PoolKeys \ {k}} = {{j} \X DOMAIN g[j] : j \in PoolKeys \ {k}}
  OBVIOUS
<1>2. f \in [PoolKeys -> Seq(Conns)] /\ g \in [PoolKeys -> Seq(Conns)]
  OBVIOUS
<1>3. Len(f[k]) \in Nat /\ Len(g[k]) \in Nat
  BY <1>2, LenProperties
<1>4. IdleCount = Cardinality(ConnsOf(f)) /\ IdleCount' = Cardinality(ConnsOf(g))
  BY IdleIsConnsOf DEF IdleCount
<1> DEFINE r == Cardinality(UNION {{j} \X DOMAIN f[j] : j \in PoolKeys \ {k}})
           m == Len(f[k])  n == Len(g[k])
<1>5. r \in Nat /\ Cardinality(ConnsOf(f)) = r + m
  BY <1>2, OneStack
<1>6. Cardinality(ConnsOf(g)) = r + n
  <2>1. Cardinality(ConnsOf(g)) = Cardinality(UNION {{j} \X DOMAIN g[j] : j \in PoolKeys \ {k}}) + n
    BY <1>2, OneStack
  <2> QED BY <2>1, <1>1
<1>7. m \in Nat /\ n \in Nat
  BY <1>3
<1> HIDE DEF r, m, n
<1>8. IdleCount = r + m /\ IdleCount' = r + n
  BY <1>4, <1>5, <1>6
<1>9. IdleCount \in Nat /\ IdleCount' \in Nat /\ IdleCount' = IdleCount + n - m
  BY <1>5, <1>7, <1>8
<1> QED BY <1>9 DEF m, n, f, g

LEMMA IdleUnchanged ==
  ASSUME PoolAssumption, idle \in [PoolKeys -> Seq(Conns)]
  PROVE  /\ IdleCount \in Nat
         /\ (\A k \in PoolKeys : DOMAIN idle'[k] = DOMAIN idle[k]) => IdleCount' = IdleCount
         /\ (\A k \in PoolKeys : idle[k] = <<>>) => IdleCount = 0
<1>1. IdleCount \in Nat
  <2>1. PoolKeys \in SUBSET PoolKeys
    OBVIOUS
  <2>2. IsFiniteSet(ConnsOf(idle))
    BY <2>1, ConnsFinite DEF ConnsOf
  <2> QED BY <2>2, IdleIsConnsOf, FS_CardinalityType DEF IdleCount
<1>2. ASSUME \A k \in PoolKeys : DOMAIN idle'[k] = DOMAIN idle[k]
      PROVE  IdleCount' = IdleCount
  <2>1. IdleConns' = IdleConns
    BY <1>2 DEF IdleConns
  <2> QED BY <2>1 DEF IdleCount
<1>3. ASSUME \A k \in PoolKeys : idle[k] = <<>>
      PROVE  IdleCount = 0
  <2>1. IdleConns = {}
    BY <1>3 DEF IdleConns
  <2> QED BY <2>1, FS_EmptySet DEF IdleCount
<1> QED BY <1>1, <1>2, <1>3


LEMMA ConservedKept ==
  ASSUME opened \in Int, ended \in Int, IdleCount \in Int, Cardinality(InUse) \in Int,
         opened' \in Int, ended' \in Int, IdleCount' \in Int, Cardinality(InUse') \in Int,
         NEW a \in Int, NEW b \in Int, Conserved,
         Cardinality(InUse') = Cardinality(InUse) + a - b,
         opened' - ended' - IdleCount' - a = opened - ended - IdleCount - b
  PROVE  Conserved'
BY DEF Conserved

\* The books after a step of one worker: slots and connections.
LEMMA Accounts ==
  ASSUME PoolAssumption, PoolTypes, SlotsMatchHolders, Conserved, NEW w \in Workers,
         \A v \in Workers \ {w} : exec'[v] = exec[v],
         tenantSem' = tenantSem + (IF exec'[w].at \in TenantStages THEN 1 ELSE 0)
                                - (IF exec[w].at \in TenantStages THEN 1 ELSE 0),
         \A h \in Hosts : hostSem'[h] = hostSem[h] + (IF exec'[w].at \in HoldStages /\ exec'[w].host = h THEN 1 ELSE 0)
                                                   - (IF exec[w].at \in HoldStages /\ exec[w].host = h THEN 1 ELSE 0),
         opened' \in Nat, ended' \in Nat, IdleCount \in Nat, IdleCount' \in Nat,
         opened' - ended' - IdleCount' - (IF exec'[w].at \in {"run", "release"} THEN 1 ELSE 0)
           = opened - ended - IdleCount - (IF exec[w].at \in {"run", "release"} THEN 1 ELSE 0)
  PROVE  /\ SlotsMatchHolders' /\ Conserved'
         /\ tenantSem' \in Nat /\ \A h \in Hosts : hostSem'[h] \in Nat
<1>1. tenantSem = Cardinality(TenantHolders) /\ \A h \in Hosts : hostSem[h] = Cardinality(HostHolders(h))
  BY DEF SlotsMatchHolders, TenantHolders, HostHolders
<1>2. tenantSem' = Cardinality(TenantHolders') /\ Cardinality(TenantHolders') \in Nat
  <2> DEFINE n == Cardinality(TenantHolders)  m == Cardinality(TenantHolders')
  <2>1. n \in Nat /\ m = n + (IF exec'[w].at \in TenantStages THEN 1 ELSE 0) - (IF exec[w].at \in TenantStages THEN 1 ELSE 0)
    BY OneCall
  <2>2. m \in Nat
    <3>1. IsFiniteSet(TenantHolders')
      BY FS_Subset DEF TenantHolders, PoolAssumption
    <3> QED BY <3>1, FS_CardinalityType
  <2>3. tenantSem = n
    BY <1>1
  <2> HIDE DEF n, m
  <2>4. tenantSem' = m
    BY <2>1, <2>3
  <2> QED BY <2>2, <2>4 DEF m
<1>3. ASSUME NEW h \in Hosts
      PROVE  hostSem'[h] = Cardinality(HostHolders(h)') /\ Cardinality(HostHolders(h)') \in Nat
  <2> DEFINE n == Cardinality(HostHolders(h))  m == Cardinality(HostHolders(h)')
             a == IF exec'[w].at \in HoldStages /\ exec'[w].host = h THEN 1 ELSE 0
             b == IF exec[w].at \in HoldStages /\ exec[w].host = h THEN 1 ELSE 0
  <2>1. n \in Nat /\ m = n + a - b
    BY OneCall
  <2>2. m \in Nat
    <3>1. IsFiniteSet(HostHolders(h)')
      BY FS_Subset DEF HostHolders, PoolAssumption
    <3> QED BY <3>1, FS_CardinalityType
  <2>3. hostSem[h] = n /\ hostSem'[h] = hostSem[h] + a - b
    BY <1>1
  <2> HIDE DEF n, m, a, b
  <2>4. hostSem'[h] = m
    BY <2>1, <2>3
  <2> QED BY <2>2, <2>4 DEF m
<1>4. SlotsMatchHolders'
  BY <1>2, <1>3 DEF SlotsMatchHolders, TenantHolders, HostHolders
<1>5. Conserved'
  <2> DEFINE a == IF exec'[w].at \in {"run", "release"} THEN 1 ELSE 0
             b == IF exec[w].at \in {"run", "release"} THEN 1 ELSE 0
  <2>1. Cardinality(InUse) \in Nat /\ Cardinality(InUse') = Cardinality(InUse) + a - b
    BY OneCall
  <2>2. opened' - ended' - IdleCount' - a = opened - ended - IdleCount - b
    OBVIOUS
  <2>3. a \in Int /\ b \in Int /\ Cardinality(InUse) \in Int /\ Cardinality(InUse') \in Int
    BY <2>1
  <2>4. opened \in Int /\ ended \in Int
    BY DEF PoolTypes
  <2>5. opened' \in Int /\ ended' \in Int /\ IdleCount \in Int /\ IdleCount' \in Int
    OBVIOUS
  <2> HIDE DEF a, b
  <2> QED BY <2>1, <2>2, <2>3, <2>4, <2>5, ConservedKept, Zenon
<1> QED BY <1>2, <1>3, <1>4, <1>5

LEMMA CallOf ==
  ASSUME PoolTypes, NEW w \in Workers, exec[w].at \in Stages
  PROVE  exec[w] \in Calls /\ exec[w] # Free
<1>1. exec[w] # Free
  BY DEF Free, Stages, TenantStages, HoldStages
<1> QED BY <1>1 DEF PoolTypes

\* The worker's call becomes the call r, or ends.
LEMMA CallBecomes ==
  ASSUME PoolTypes, NEW w \in Workers, NEW r \in Calls \cup {Free}, exec' = [exec EXCEPT ![w] = r]
  PROVE  /\ exec' \in [Workers -> Calls \cup {Free}] /\ exec'[w] = r
         /\ \A v \in Workers \ {w} : exec'[v] = exec[v]
BY DEF PoolTypes

LEMMA CallMoves ==
  ASSUME PoolTypes, NEW w \in Workers, exec[w] \in Calls, NEW at \in Stages, Move(w, at)
  PROVE  /\ exec' \in [Workers -> Calls \cup {Free}]
         /\ exec'[w] \in Calls /\ exec'[w].at = at
         /\ exec'[w].host = exec[w].host /\ exec'[w].cred = exec[w].cred
         /\ exec'[w].auth = exec[w].auth /\ exec'[w].conn = exec[w].conn
         /\ \A v \in Workers \ {w} : exec'[v] = exec[v]
<1> DEFINE c == exec[w]  r == [c EXCEPT !.at = at]
<1>1. exec' = [exec EXCEPT ![w] = r]
  BY DEF Move
<1>2. r \in Calls /\ r.at = at /\ r.host = c.host /\ r.cred = c.cred /\ r.auth = c.auth /\ r.conn = c.conn
  BY DEF Calls
<1> HIDE DEF r
<1> QED BY <1>1, <1>2, CallBecomes

LEMMA FreshCalls ==
  ASSUME LoginsAreFresh, NEW w \in Workers, \A v \in Workers \ {w} : exec'[v] = exec[v],
         exec'[w] # Free => exec'[w].auth >= exec'[w].cred
                            /\ (exec'[w].at \in {"run", "release"} => exec'[w].conn.auth >= exec'[w].cred),
         \A k \in PoolKeys : \A j \in DOMAIN idle'[k] : idle'[k][j].auth >= k[2]
  PROVE  LoginsAreFresh'
BY DEF LoginsAreFresh

LEMMA IdleCountIsNat == ASSUME PoolAssumption, PoolTypes PROVE IdleCount \in Nat
BY IdleUnchanged DEF PoolTypes

\* A step of one worker that keeps the books keeps the invariant.
LEMMA OneCallSteps ==
  ASSUME PoolAssumption, PoolInv, NEW w \in Workers,
         UNCHANGED <<keyOf, poolClosed, sweeping, looked, rotations>>,
         exec' \in [Workers -> Calls \cup {Free}], \A v \in Workers \ {w} : exec'[v] = exec[v],
         exec'[w] # Free => exec'[w].auth >= exec'[w].cred
                            /\ (exec'[w].at \in {"run", "release"} => exec'[w].conn.auth >= exec'[w].cred),
         idle' \in [PoolKeys -> Seq(Conns)], NothingIdleWhenClosed',
         \A k \in PoolKeys : \A j \in DOMAIN idle'[k] : idle'[k][j].auth >= k[2],
         hostSem' \in [Hosts -> Int], tenantSem' <= PerTenantLimit, \A h \in Hosts : hostSem'[h] <= PerHostLimit,
         tenantSem' = tenantSem + (IF exec'[w].at \in TenantStages THEN 1 ELSE 0)
                                - (IF exec[w].at \in TenantStages THEN 1 ELSE 0),
         \A h \in Hosts : hostSem'[h] = hostSem[h] + (IF exec'[w].at \in HoldStages /\ exec'[w].host = h THEN 1 ELSE 0)
                                                   - (IF exec[w].at \in HoldStages /\ exec[w].host = h THEN 1 ELSE 0),
         opened' \in Nat, ended' \in Nat, IdleCount' \in Nat,
         opened' - ended' - IdleCount' - (IF exec'[w].at \in {"run", "release"} THEN 1 ELSE 0)
           = opened - ended - IdleCount - (IF exec[w].at \in {"run", "release"} THEN 1 ELSE 0)
  PROVE  PoolInv'
<1>1. PoolTypes /\ SlotsMatchHolders /\ Conserved /\ LoginsAreFresh
  BY DEF PoolInv
<1>2. IdleCount \in Nat
  BY <1>1, IdleCountIsNat
<1>3. /\ SlotsMatchHolders' /\ Conserved'
      /\ tenantSem' \in Nat /\ \A h \in Hosts : hostSem'[h] \in Nat
  BY <1>1, <1>2, Accounts
<1>4. LoginsAreFresh'
  BY <1>1, FreshCalls
<1>5. tenantSem' \in 0..PerTenantLimit /\ hostSem' \in [Hosts -> 0..PerHostLimit]
  <2>1. \A h \in Hosts : hostSem'[h] \in 0..PerHostLimit
    BY <1>3 DEF PoolAssumption
  <2> QED BY <2>1, <1>3 DEF PoolAssumption
<1>6. PoolTypes'
  BY <1>1, <1>5 DEF PoolTypes
<1> QED BY <1>3, <1>4, <1>6 DEF PoolInv

LEMMA SameShift ==
  ASSUME opened \in Int, ended \in Int, opened' \in Int, ended' \in Int, NEW a \in Int, NEW b \in Int, NEW i \in Int,
         opened' - ended' - a = opened - ended - b
  PROVE  opened' - ended' - i - a = opened - ended - i - b
<1> DEFINE o == opened  e == ended  p == opened'  f == ended'
<1>1. o \in Int /\ e \in Int /\ p \in Int /\ f \in Int /\ p - f - a = o - e - b
  OBVIOUS
<1> HIDE DEF o, e, p, f
<1>2. p - f - i - a = o - e - i - b
  BY <1>1
<1> QED BY <1>2 DEF o, e, p, f

\* The same, when no stack changes.
LEMMA OneCallOnly ==
  ASSUME PoolAssumption, PoolInv, NEW w \in Workers,
         UNCHANGED <<keyOf, idle, poolClosed, sweeping, looked, rotations>>,
         exec' \in [Workers -> Calls \cup {Free}], \A v \in Workers \ {w} : exec'[v] = exec[v],
         exec'[w] # Free => exec'[w].auth >= exec'[w].cred
                            /\ (exec'[w].at \in {"run", "release"} => exec'[w].conn.auth >= exec'[w].cred),
         hostSem' \in [Hosts -> Int], tenantSem' <= PerTenantLimit, \A h \in Hosts : hostSem'[h] <= PerHostLimit,
         tenantSem' = tenantSem + (IF exec'[w].at \in TenantStages THEN 1 ELSE 0)
                                - (IF exec[w].at \in TenantStages THEN 1 ELSE 0),
         \A h \in Hosts : hostSem'[h] = hostSem[h] + (IF exec'[w].at \in HoldStages /\ exec'[w].host = h THEN 1 ELSE 0)
                                                   - (IF exec[w].at \in HoldStages /\ exec[w].host = h THEN 1 ELSE 0),
         opened' \in Nat, ended' \in Nat,
         opened' - ended' - (IF exec'[w].at \in {"run", "release"} THEN 1 ELSE 0)
           = opened - ended - (IF exec[w].at \in {"run", "release"} THEN 1 ELSE 0)
  PROVE  PoolInv'
<1>1. /\ idle' \in [PoolKeys -> Seq(Conns)] /\ NothingIdleWhenClosed'
      /\ \A k \in PoolKeys : \A j \in DOMAIN idle'[k] : idle'[k][j].auth >= k[2]
  BY DEF PoolInv, PoolTypes, LoginsAreFresh, NothingIdleWhenClosed
<1>2. IdleCount' = IdleCount /\ IdleCount \in Nat
  <2>1. IdleCount' = IdleCount
    BY DEF IdleCount, IdleConns
  <2> QED BY <2>1, IdleCountIsNat DEF PoolInv
<1>3. opened \in Nat /\ ended \in Nat
  BY DEF PoolInv, PoolTypes
<1>4. opened' - ended' - IdleCount' - (IF exec'[w].at \in {"run", "release"} THEN 1 ELSE 0)
        = opened - ended - IdleCount - (IF exec[w].at \in {"run", "release"} THEN 1 ELSE 0)
  <2> DEFINE a == IF exec'[w].at \in {"run", "release"} THEN 1 ELSE 0
             b == IF exec[w].at \in {"run", "release"} THEN 1 ELSE 0
  <2>1. a \in Int /\ b \in Int /\ opened' - ended' - a = opened - ended - b
    OBVIOUS
  <2>2. opened' \in Int /\ ended' \in Int /\ opened \in Int /\ ended \in Int /\ IdleCount \in Int
    BY <1>2, <1>3
  <2> HIDE DEF a, b
  <2>3. opened' - ended' - IdleCount - a = opened - ended - IdleCount - b
    BY <2>1, <2>2, SameShift, Zenon
  <2> QED BY <2>3, <1>2 DEF a, b
<1> QED BY <1>1, <1>2, <1>4, OneCallSteps

LEMMA StartExecKeepsInv ==
  ASSUME PoolAssumption, PoolInv, NEW w \in Workers, NEW h \in Hosts, NEW c \in CredVersions, StartExec(w, h, c)
  PROVE  PoolInv'
<1> DEFINE r == [at |-> "acquire", host |-> h, cred |-> c, auth |-> keyOf[h], tries |-> 0, conn |-> NewConn(0)]
<1>1. PoolTypes
  BY DEF PoolInv
<1>2. keyOf[h] \in CredVersions /\ 0 \in CredVersions /\ keyOf[h] >= c
  BY <1>1 DEF PoolTypes, CredVersions, PoolAssumption, StartExec
<1>3. r \in Calls
  BY <1>2 DEF Calls, Stages, Conns, NewConn
<1>4. exec' = [exec EXCEPT ![w] = r] /\ r.at = "acquire" /\ r.auth >= r.cred
  BY <1>2 DEF StartExec
<1> HIDE DEF r
<1>5. exec' \in [Workers -> Calls \cup {Free}] /\ exec'[w] = r /\ \A v \in Workers \ {w} : exec'[v] = exec[v]
  BY <1>1, <1>3, <1>4, CallBecomes
<1>6. /\ exec[w].at = "free"
      /\ UNCHANGED <<keyOf, hostSem, tenantSem, idle, poolClosed, sweeping, looked, opened, ended, rotations>>
  BY DEF StartExec, Free
<1>7. /\ exec'[w].at \notin TenantStages /\ exec'[w].at \notin HoldStages /\ exec'[w].at \notin {"run", "release"}
      /\ exec[w].at \notin TenantStages /\ exec[w].at \notin HoldStages /\ exec[w].at \notin {"run", "release"}
  BY <1>4, <1>5, <1>6 DEF TenantStages, HoldStages
<1>8. /\ hostSem' \in [Hosts -> Int] /\ tenantSem' <= PerTenantLimit
      /\ \A g \in Hosts : hostSem'[g] <= PerHostLimit
      /\ opened' \in Nat /\ ended' \in Nat
      /\ tenantSem' = tenantSem + 0 - 0 /\ \A g \in Hosts : hostSem'[g] = hostSem[g] + 0 - 0
      /\ opened' - ended' - 0 = opened - ended - 0
  BY <1>1, <1>6 DEF PoolTypes, PoolAssumption
<1> QED BY <1>4, <1>5, <1>6, <1>7, <1>8, OneCallOnly

LEMMA StagesAre ==
  /\ "take" \in Stages /\ "dial" \in Stages /\ "run" \in Stages /\ "release" \in Stages
  /\ "wantHost" \in Stages /\ "wantTenant" \in Stages /\ "acquire" \in Stages
  /\ \A at : at \in HoldStages <=> at \in {"take", "dial", "run", "release"}
  /\ \A at : at \in TenantStages <=> at \in {"take", "dial", "run", "release", "wantHost"}
  /\ Free.at = "free"
BY DEF Stages, TenantStages, HoldStages, Free

\* What the invariant says of the numbers.
LEMMA NumbersOf ==
  ASSUME PoolAssumption, PoolInv
  PROVE  /\ opened \in Nat /\ ended \in Nat /\ tenantSem \in Nat /\ tenantSem <= PerTenantLimit
         /\ hostSem \in [Hosts -> Int] /\ \A h \in Hosts : hostSem[h] <= PerHostLimit
         /\ PerHostLimit \in Nat /\ PerTenantLimit \in Nat
BY DEF PoolInv, PoolTypes, PoolAssumption

\* A call that moves between stages that hold the same.
LEMMA MovesOn ==
  ASSUME PoolAssumption, PoolInv, NEW w \in Workers,
         UNCHANGED <<keyOf, idle, poolClosed, sweeping, looked, rotations, hostSem, tenantSem, opened, ended>>,
         exec' \in [Workers -> Calls \cup {Free}], \A v \in Workers \ {w} : exec'[v] = exec[v],
         exec'[w] # Free => exec'[w].auth >= exec'[w].cred
                            /\ (exec'[w].at \in {"run", "release"} => exec'[w].conn.auth >= exec'[w].cred),
         exec'[w].at \in TenantStages <=> exec[w].at \in TenantStages,
         exec'[w].at \in HoldStages <=> exec[w].at \in HoldStages,
         exec'[w].at \in HoldStages => exec'[w].host = exec[w].host,
         exec'[w].at \in {"run", "release"} <=> exec[w].at \in {"run", "release"}
  PROVE  PoolInv'
<1>1. /\ opened' \in Nat /\ ended' \in Nat /\ tenantSem' <= PerTenantLimit
      /\ hostSem' \in [Hosts -> Int] /\ \A h \in Hosts : hostSem'[h] <= PerHostLimit
  BY NumbersOf
<1>2. tenantSem' = tenantSem + (IF exec'[w].at \in TenantStages THEN 1 ELSE 0)
                             - (IF exec[w].at \in TenantStages THEN 1 ELSE 0)
  BY NumbersOf
<1>3. ASSUME NEW h \in Hosts
      PROVE  hostSem'[h] = hostSem[h] + (IF exec'[w].at \in HoldStages /\ exec'[w].host = h THEN 1 ELSE 0)
                                      - (IF exec[w].at \in HoldStages /\ exec[w].host = h THEN 1 ELSE 0)
  <2>1. hostSem'[h] = hostSem[h] /\ hostSem[h] \in Int
    BY NumbersOf
  <2> QED BY <2>1
<1>4. opened' - ended' - (IF exec'[w].at \in {"run", "release"} THEN 1 ELSE 0)
        = opened - ended - (IF exec[w].at \in {"run", "release"} THEN 1 ELSE 0)
  BY NumbersOf
<1> QED BY <1>1, <1>2, <1>3, <1>4, OneCallOnly

LEMMA AcquireKeepsInv ==
  ASSUME PoolAssumption, PoolInv, NEW w \in Workers, Acquire(w)
  PROVE  PoolInv'
<1>1. exec[w].at = "acquire" /\ exec[w] \in Calls /\ PoolTypes /\ LoginsAreFresh /\ exec[w] # Free
  BY CallOf, StagesAre DEF Acquire, PoolInv
<1>2. UNCHANGED <<keyOf, idle, poolClosed, sweeping, looked, rotations, hostSem, tenantSem, opened, ended>>
  BY DEF Acquire, poolBounds
<1>3. CASE poolClosed
  <2>1. exec' = [exec EXCEPT ![w] = Free]
    BY <1>3 DEF Acquire
  <2>2. exec' \in [Workers -> Calls \cup {Free}] /\ exec'[w] = Free /\ \A v \in Workers \ {w} : exec'[v] = exec[v]
    BY <2>1, <1>1, CallBecomes
  <2> QED BY <2>2, <1>1, <1>2, StagesAre, MovesOn
<1>4. CASE ~ poolClosed
  <2>1. Move(w, "wantTenant")
    BY <1>4 DEF Acquire, Move
  <2>2. /\ exec' \in [Workers -> Calls \cup {Free}] /\ exec'[w].at = "wantTenant"
        /\ exec'[w].auth = exec[w].auth /\ exec'[w].cred = exec[w].cred
        /\ \A v \in Workers \ {w} : exec'[v] = exec[v]
    BY <2>1, <1>1, StagesAre, CallMoves
  <2>3. exec[w].auth >= exec[w].cred
    BY <1>1 DEF LoginsAreFresh
  <2> QED BY <2>2, <2>3, <1>1, <1>2, StagesAre, MovesOn
<1> QED BY <1>3, <1>4

LEMMA RunCommandKeepsInv ==
  ASSUME PoolAssumption, PoolInv, NEW w \in Workers, RunCommand(w)
  PROVE  PoolInv'
<1>1. exec[w].at = "run" /\ exec[w] \in Calls /\ PoolTypes /\ LoginsAreFresh /\ exec[w] # Free
  BY CallOf, StagesAre DEF RunCommand, PoolInv
<1>2. UNCHANGED <<keyOf, idle, poolClosed, sweeping, looked, rotations, hostSem, tenantSem, opened, ended>>
  BY DEF RunCommand, poolBounds
<1>3. /\ exec' \in [Workers -> Calls \cup {Free}] /\ exec'[w].at = "release" /\ exec'[w].conn = exec[w].conn
      /\ exec'[w].auth = exec[w].auth /\ exec'[w].cred = exec[w].cred /\ exec'[w].host = exec[w].host
      /\ \A v \in Workers \ {w} : exec'[v] = exec[v]
  BY <1>1, StagesAre, CallMoves DEF RunCommand
<1>4. exec[w].auth >= exec[w].cred /\ exec[w].conn.auth >= exec[w].cred
  BY <1>1 DEF LoginsAreFresh
<1> QED BY <1>1, <1>2, <1>3, <1>4, StagesAre, MovesOn

LEMMA UsedHarmKeepsInv ==
  ASSUME PoolAssumption, PoolInv, NEW w \in Workers, NEW what \in {"dead", "silent"}, UsedHarm(w, what)
  PROVE  PoolInv'
<1>1. exec[w].at \in {"run", "release"} /\ exec[w] \in Calls /\ PoolTypes /\ LoginsAreFresh /\ exec[w] # Free
  BY CallOf, StagesAre DEF UsedHarm, PoolInv
<1>2. UNCHANGED <<keyOf, idle, poolClosed, sweeping, looked, rotations, hostSem, tenantSem, opened, ended>>
  BY DEF UsedHarm
<1> DEFINE c == exec[w]  n == [c.conn EXCEPT !.state = what]  r == [c EXCEPT !.conn = n]
<1>3. n \in Conns /\ n.auth = c.conn.auth
  BY <1>1 DEF Calls, Conns
<1>4. exec' = [exec EXCEPT ![w] = r]
  BY DEF UsedHarm
<1> HIDE DEF n
<1>5. r \in Calls /\ r.at = c.at /\ r.host = c.host /\ r.cred = c.cred /\ r.auth = c.auth /\ r.conn = n
  BY <1>1, <1>3 DEF Calls
<1> HIDE DEF r
<1>6. exec' \in [Workers -> Calls \cup {Free}] /\ exec'[w] = r /\ \A v \in Workers \ {w} : exec'[v] = exec[v]
  BY <1>1, <1>4, <1>5, CallBecomes
<1>7. c.auth >= c.cred /\ c.conn.auth >= c.cred
  BY <1>1 DEF LoginsAreFresh
<1> QED BY <1>1, <1>2, <1>3, <1>5, <1>6, <1>7, StagesAre, MovesOn

LEMMA TakeTenantSlotKeepsInv ==
  ASSUME PoolAssumption, PoolInv, NEW w \in Workers, TakeTenantSlot(w)
  PROVE  PoolInv'
<1>1. exec[w].at = "wantTenant" /\ exec[w] \in Calls /\ PoolTypes /\ LoginsAreFresh /\ exec[w] # Free
  BY CallOf, StagesAre DEF TakeTenantSlot, PoolInv
<1>2. UNCHANGED <<keyOf, idle, poolClosed, sweeping, looked, rotations, hostSem, opened, ended>>
  BY DEF TakeTenantSlot, poolBounds
<1>3. /\ exec' \in [Workers -> Calls \cup {Free}] /\ exec'[w].at = "wantHost"
      /\ exec'[w].auth = exec[w].auth /\ exec'[w].cred = exec[w].cred
      /\ \A v \in Workers \ {w} : exec'[v] = exec[v]
  BY <1>1, StagesAre, CallMoves DEF TakeTenantSlot
<1>4. exec[w].auth >= exec[w].cred
  BY <1>1 DEF LoginsAreFresh
<1>5. tenantSem' = tenantSem + 1 - 0 /\ tenantSem' <= PerTenantLimit
  BY NumbersOf DEF TakeTenantSlot
<1>6. /\ hostSem' \in [Hosts -> Int] /\ opened' \in Nat /\ ended' \in Nat
      /\ \A h \in Hosts : hostSem'[h] <= PerHostLimit /\ hostSem'[h] = hostSem[h] + 0 - 0
      /\ opened' - ended' - 0 = opened - ended - 0
  BY <1>2, NumbersOf
<1>7. /\ exec'[w].at \in TenantStages /\ exec'[w].at \notin HoldStages /\ exec'[w].at \notin {"run", "release"}
      /\ exec[w].at \notin TenantStages /\ exec[w].at \notin HoldStages /\ exec[w].at \notin {"run", "release"}
  BY <1>1, <1>3, StagesAre
<1> QED BY <1>1, <1>2, <1>3, <1>4, <1>5, <1>6, <1>7, OneCallOnly

LEMMA TakeHostSlotKeepsInv ==
  ASSUME PoolAssumption, PoolInv, NEW w \in Workers, TakeHostSlot(w)
  PROVE  PoolInv'
<1>1. exec[w].at = "wantHost" /\ exec[w] \in Calls /\ PoolTypes /\ LoginsAreFresh /\ exec[w] # Free
  BY CallOf, StagesAre DEF TakeHostSlot, PoolInv
<1>2. UNCHANGED <<keyOf, idle, poolClosed, sweeping, looked, rotations, tenantSem, opened, ended>>
  BY DEF TakeHostSlot, poolBounds
<1>3. /\ exec' \in [Workers -> Calls \cup {Free}] /\ exec'[w].at = "take"
      /\ exec'[w].auth = exec[w].auth /\ exec'[w].cred = exec[w].cred /\ exec'[w].host = exec[w].host
      /\ \A v \in Workers \ {w} : exec'[v] = exec[v]
  BY <1>1, StagesAre, CallMoves DEF TakeHostSlot
<1>4. exec[w].auth >= exec[w].cred /\ exec[w].host \in Hosts
  BY <1>1 DEF LoginsAreFresh, Calls
<1>5. /\ tenantSem' = tenantSem + 1 - 1 /\ tenantSem' <= PerTenantLimit
      /\ opened' \in Nat /\ ended' \in Nat /\ opened' - ended' - 0 = opened - ended - 0
  BY <1>2, NumbersOf
<1>6. /\ exec'[w].at \in TenantStages /\ exec'[w].at \in HoldStages /\ exec'[w].at \notin {"run", "release"}
      /\ exec[w].at \in TenantStages /\ exec[w].at \notin HoldStages /\ exec[w].at \notin {"run", "release"}
  BY <1>1, <1>3, StagesAre
<1>7. /\ hostSem' \in [Hosts -> Int]
      /\ \A h \in Hosts : /\ hostSem'[h] <= PerHostLimit
                          /\ hostSem'[h] = hostSem[h] + (IF exec'[w].host = h THEN 1 ELSE 0) - 0
  BY <1>3, <1>4, NumbersOf DEF TakeHostSlot
<1> QED BY <1>1, <1>2, <1>3, <1>4, <1>5, <1>6, <1>7, OneCallOnly

LEMMA CancelWaitKeepsInv ==
  ASSUME PoolAssumption, PoolInv, NEW w \in Workers, CancelWait(w)
  PROVE  PoolInv'
<1>1. exec[w].at \in {"wantTenant", "wantHost"} /\ PoolTypes
  BY DEF CancelWait, PoolInv
<1>2. UNCHANGED <<keyOf, idle, poolClosed, sweeping, looked, rotations, hostSem, opened, ended>>
  BY DEF CancelWait, poolBounds
<1>3. exec' \in [Workers -> Calls \cup {Free}] /\ exec'[w] = Free /\ \A v \in Workers \ {w} : exec'[v] = exec[v]
  BY <1>1, CallBecomes DEF CancelWait
<1>4. /\ exec'[w].at \notin TenantStages /\ exec'[w].at \notin HoldStages /\ exec'[w].at \notin {"run", "release"}
      /\ exec[w].at \notin HoldStages /\ exec[w].at \notin {"run", "release"}
      /\ exec[w].at \in TenantStages <=> HoldsTenant(w)
  BY <1>1, <1>3, StagesAre DEF HoldsTenant, Holds
<1>5. tenantSem' = tenantSem + 0 - (IF exec[w].at \in TenantStages THEN 1 ELSE 0) /\ tenantSem' <= PerTenantLimit
  BY <1>4, NumbersOf DEF CancelWait
<1>6. /\ hostSem' \in [Hosts -> Int] /\ opened' \in Nat /\ ended' \in Nat
      /\ \A h \in Hosts : hostSem'[h] <= PerHostLimit /\ hostSem'[h] = hostSem[h] + 0 - 0
      /\ opened' - ended' - 0 = opened - ended - 0
  BY <1>2, NumbersOf
<1> QED BY <1>2, <1>3, <1>4, <1>5, <1>6, OneCallOnly

LEMMA DialKeepsInv ==
  ASSUME PoolAssumption, PoolInv, NEW w \in Workers, Dial(w)
  PROVE  PoolInv'
<1> DEFINE c == exec[w]  n == NewConn(c.auth)  r == [c EXCEPT !.at = "run", !.conn = n]
<1>1. c.at = "dial" /\ c \in Calls /\ PoolTypes /\ LoginsAreFresh /\ c # Free
  BY CallOf, StagesAre DEF Dial, PoolInv
<1>2. UNCHANGED <<keyOf, idle, poolClosed, sweeping, looked, rotations, hostSem, tenantSem, ended>>
  BY DEF Dial, poolBounds
<1>3. n \in Conns /\ n.auth = c.auth
  BY <1>1 DEF Calls, Conns, NewConn
<1>4. exec' = [exec EXCEPT ![w] = r]
  BY DEF Dial
<1> HIDE DEF n
<1>5. r \in Calls /\ r.at = "run" /\ r.host = c.host /\ r.cred = c.cred /\ r.auth = c.auth /\ r.conn = n
  BY <1>1, <1>3, StagesAre DEF Calls
<1> HIDE DEF r
<1>6. exec' \in [Workers -> Calls \cup {Free}] /\ exec'[w] = r /\ \A v \in Workers \ {w} : exec'[v] = exec[v]
  BY <1>1, <1>4, <1>5, CallBecomes
<1>7. c.auth >= c.cred
  BY <1>1 DEF LoginsAreFresh
<1>8. /\ exec'[w].at \in TenantStages /\ exec'[w].at \in HoldStages /\ exec'[w].at \in {"run", "release"}
      /\ exec[w].at \in TenantStages /\ exec[w].at \in HoldStages /\ exec[w].at \notin {"run", "release"}
      /\ exec'[w].host = exec[w].host
  BY <1>1, <1>5, <1>6, StagesAre
<1>9. /\ tenantSem' = tenantSem + 1 - 1 /\ tenantSem' <= PerTenantLimit
      /\ opened' \in Nat /\ ended' \in Nat /\ opened' - ended' - 1 = opened - ended - 0
  BY <1>2, NumbersOf DEF Dial
<1>10. hostSem' \in [Hosts -> Int] /\ \A h \in Hosts : hostSem'[h] <= PerHostLimit
  BY <1>2, NumbersOf
<1>11. ASSUME NEW h \in Hosts
       PROVE  hostSem'[h] = hostSem[h] + (IF exec'[w].at \in HoldStages /\ exec'[w].host = h THEN 1 ELSE 0)
                                       - (IF exec[w].at \in HoldStages /\ exec[w].host = h THEN 1 ELSE 0)
  <2>1. hostSem'[h] = hostSem[h] /\ hostSem[h] \in Int
    BY <1>2, NumbersOf
  <2> QED BY <2>1, <1>8
<1> QED BY <1>2, <1>3, <1>5, <1>6, <1>7, <1>8, <1>9, <1>10, <1>11, OneCallOnly

\* A worker that held everything gives its slots back.
LEMMA SlotsReturned ==
  ASSUME PoolAssumption, PoolInv, NEW w \in Workers, exec[w].at \in HoldStages, exec[w].host \in Hosts, exec'[w] = Free,
         hostSem' = [hostSem EXCEPT ![exec[w].host] = @ - 1], tenantSem' = tenantSem - 1
  PROVE  /\ hostSem' \in [Hosts -> Int] /\ tenantSem' <= PerTenantLimit /\ \A h \in Hosts : hostSem'[h] <= PerHostLimit
         /\ tenantSem' = tenantSem + (IF exec'[w].at \in TenantStages THEN 1 ELSE 0)
                                   - (IF exec[w].at \in TenantStages THEN 1 ELSE 0)
         /\ \A h \in Hosts : hostSem'[h] = hostSem[h] + (IF exec'[w].at \in HoldStages /\ exec'[w].host = h THEN 1 ELSE 0)
                                                      - (IF exec[w].at \in HoldStages /\ exec[w].host = h THEN 1 ELSE 0)
<1>1. /\ exec'[w].at \notin TenantStages /\ exec'[w].at \notin HoldStages
      /\ exec[w].at \in TenantStages
  BY StagesAre
<1>2. hostSem' \in [Hosts -> Int] /\ tenantSem' <= PerTenantLimit /\ \A h \in Hosts : hostSem'[h] <= PerHostLimit
  BY NumbersOf
<1>3. tenantSem' = tenantSem + 0 - 1
  BY NumbersOf
<1>4. ASSUME NEW h \in Hosts
      PROVE  hostSem'[h] = hostSem[h] + 0 - (IF exec[w].host = h THEN 1 ELSE 0)
  BY NumbersOf
<1> QED BY <1>1, <1>2, <1>3, <1>4

LEMMA DialFailsKeepsInv ==
  ASSUME PoolAssumption, PoolInv, NEW w \in Workers, DialFails(w)
  PROVE  PoolInv'
<1> DEFINE c == exec[w]
<1>1. c.at = "dial" /\ c \in Calls /\ PoolTypes /\ LoginsAreFresh /\ c # Free
  BY CallOf, StagesAre DEF DialFails, PoolInv
<1>2. UNCHANGED <<keyOf, idle, poolClosed, sweeping, looked, rotations, opened, ended>>
  BY DEF DialFails
<1>3. CASE c.tries < DialMaxRetries
  <2> DEFINE r == [c EXCEPT !.tries = @ + 1]
  <2>1. exec' = [exec EXCEPT ![w] = r] /\ UNCHANGED <<hostSem, tenantSem>>
    BY <1>3 DEF DialFails
  <2>2. r \in Calls /\ r.at = c.at /\ r.host = c.host /\ r.cred = c.cred /\ r.auth = c.auth
    BY <1>1 DEF Calls
  <2> HIDE DEF r
  <2>3. exec' \in [Workers -> Calls \cup {Free}] /\ exec'[w] = r /\ \A v \in Workers \ {w} : exec'[v] = exec[v]
    BY <1>1, <2>1, <2>2, CallBecomes
  <2>4. c.auth >= c.cred
    BY <1>1 DEF LoginsAreFresh
  <2> QED BY <1>1, <1>2, <2>1, <2>2, <2>3, <2>4, StagesAre, MovesOn
<1>4. CASE ~ (c.tries < DialMaxRetries)
  <2>1. /\ exec' = [exec EXCEPT ![w] = Free]
        /\ hostSem' = [hostSem EXCEPT ![c.host] = @ - 1] /\ tenantSem' = tenantSem - 1
    BY <1>4 DEF DialFails
  <2>2. exec' \in [Workers -> Calls \cup {Free}] /\ exec'[w] = Free /\ \A v \in Workers \ {w} : exec'[v] = exec[v]
    BY <1>1, <2>1, CallBecomes
  <2>3. c.host \in Hosts /\ c.at \in HoldStages
    BY <1>1, StagesAre DEF Calls
  <2>4. /\ exec'[w].at \notin {"run", "release"} /\ exec[w].at \notin {"run", "release"}
        /\ opened' \in Nat /\ ended' \in Nat /\ opened' - ended' - 0 = opened - ended - 0
    BY <1>1, <1>2, <2>2, StagesAre, NumbersOf
  <2>5. /\ hostSem' \in [Hosts -> Int] /\ tenantSem' <= PerTenantLimit /\ \A h \in Hosts : hostSem'[h] <= PerHostLimit
        /\ tenantSem' = tenantSem + (IF exec'[w].at \in TenantStages THEN 1 ELSE 0)
                                  - (IF exec[w].at \in TenantStages THEN 1 ELSE 0)
        /\ \A h \in Hosts : hostSem'[h] = hostSem[h] + (IF exec'[w].at \in HoldStages /\ exec'[w].host = h THEN 1 ELSE 0)
                                                     - (IF exec[w].at \in HoldStages /\ exec[w].host = h THEN 1 ELSE 0)
    BY <2>1, <2>2, <2>3, SlotsReturned
  <2> QED BY <1>2, <2>2, <2>4, <2>5, OneCallOnly
<1> QED BY <1>3, <1>4

\* Sequences of connections.
LEMMA StackOf ==
  ASSUME PoolTypes, NEW k \in PoolKeys
  PROVE  /\ idle[k] \in Seq(Conns) /\ Len(idle[k]) \in Nat /\ DOMAIN idle[k] = 1..Len(idle[k])
         /\ \A j \in 1..Len(idle[k]) : idle[k][j] \in Conns
<1>1. idle[k] \in Seq(Conns)
  BY DEF PoolTypes
<1> QED BY <1>1, LenProperties, ElementOfSeq

LEMMA TakeIdleKeepsInv ==
  ASSUME PoolAssumption, PoolInv, NEW w \in Workers, TakeIdle(w)
  PROVE  PoolInv'
<1> DEFINE c == exec[w]  k == <<c.host, c.cred>>  stack == idle[k]  L == Len(stack)
<1>1. c.at = "take" /\ c \in Calls /\ PoolTypes /\ LoginsAreFresh /\ c # Free /\ NothingIdleWhenClosed
  BY CallOf, StagesAre DEF TakeIdle, PoolInv
<1>2. UNCHANGED <<keyOf, poolClosed, sweeping, looked, rotations, hostSem, tenantSem, opened>>
  BY DEF TakeIdle, poolBounds
<1>3. k \in PoolKeys /\ k[2] = c.cred
  BY <1>1, PoolKeyParts DEF Calls
<1>4. stack \in Seq(Conns) /\ L \in Nat /\ DOMAIN stack = 1..L /\ \A j \in 1..L : stack[j] \in Conns
  BY <1>1, <1>3, StackOf
<1>5. PICK n \in 0..L :
        /\ ended' = ended + n
        /\ \/ L - n = 0 /\ Move(w, "dial") /\ idle' = [idle EXCEPT ![k] = <<>>]
           \/ /\ L - n > 0
              /\ idle' = [idle EXCEPT ![k] = SubSeq(stack, 1, (L - n) - 1)]
              /\ exec' = [exec EXCEPT ![w].at = "run", ![w].conn = stack[L - n]]
  BY DEF TakeIdle, IdleKeys
<1>6. c.auth >= c.cred /\ \A j \in 1..L : stack[j].auth >= c.cred
  BY <1>1, <1>3, <1>4 DEF LoginsAreFresh
<1>7. c.at \in TenantStages /\ c.at \in HoldStages /\ c.at \notin {"run", "release"}
  BY <1>1, StagesAre
<1>8. /\ hostSem' \in [Hosts -> Int] /\ \A h \in Hosts : hostSem'[h] <= PerHostLimit
      /\ tenantSem' = tenantSem + 1 - 1 /\ tenantSem' <= PerTenantLimit
      /\ opened' \in Nat /\ opened \in Nat /\ ended \in Nat /\ ended' \in Nat
  <2>1. n \in Nat /\ ended' = ended + n
    <3>1. L \in Nat /\ n \in 0..L
      BY <1>4
    <3> HIDE DEF L
    <3> QED BY <3>1, <1>5
  <2> QED BY <1>2, <2>1, NumbersOf
<1>9. ASSUME c.host = exec'[w].host, exec'[w].at \in HoldStages, NEW h \in Hosts
      PROVE  hostSem'[h] = hostSem[h] + (IF exec'[w].at \in HoldStages /\ exec'[w].host = h THEN 1 ELSE 0)
                                      - (IF exec[w].at \in HoldStages /\ exec[w].host = h THEN 1 ELSE 0)
  <2>1. hostSem'[h] = hostSem[h] /\ hostSem[h] \in Int
    BY <1>2, NumbersOf
  <2> QED BY <2>1, <1>9, <1>7
<1> DEFINE IdleStep(m) ==
             /\ idle' \in [PoolKeys -> Seq(Conns)] /\ NothingIdleWhenClosed'
             /\ \A g \in PoolKeys : \A j \in DOMAIN idle'[g] : idle'[g][j].auth >= g[2]
             /\ IdleCount \in Nat /\ IdleCount' \in Nat /\ IdleCount' = IdleCount + m - L
<1>10. ASSUME NEW s \in Seq(Conns), idle' = [idle EXCEPT ![k] = s],
              \A j \in 1..Len(s) : s[j].auth >= c.cred, poolClosed => s = <<>>
       PROVE  IdleStep(Len(s))
  <2>1. idle' \in [PoolKeys -> Seq(Conns)] /\ idle'[k] = s /\ \A g \in PoolKeys \ {k} : idle'[g] = idle[g]
    BY <1>1, <1>3, <1>10 DEF PoolTypes
  <2>2. DOMAIN s = 1..Len(s)
    BY LenProperties
  <2>3. \A g \in PoolKeys : \A j \in DOMAIN idle'[g] : idle'[g][j].auth >= g[2]
    BY <1>1, <1>3, <1>10, <2>1, <2>2 DEF LoginsAreFresh
  <2>4. NothingIdleWhenClosed'
    BY <1>1, <1>2, <1>10, <2>1 DEF NothingIdleWhenClosed
  <2>5. idle \in [PoolKeys -> Seq(Conns)]
    BY <1>1 DEF PoolTypes
  <2>6. IdleCount \in Nat /\ IdleCount' \in Nat /\ IdleCount' = IdleCount + Len(idle'[k]) - Len(idle[k])
    BY <1>3, <2>1, <2>5, IdleChange
  <2> QED BY <2>1, <2>3, <2>4, <2>6
<1>11. CASE L - n = 0 /\ Move(w, "dial") /\ idle' = [idle EXCEPT ![k] = <<>>]
  <2>1. <<>> \in Seq(Conns) /\ Len(<<>>) = 0
    OBVIOUS
  <2>2. IdleStep(0)
    <3> DEFINE s == <<>>
    <3>1. /\ s \in Seq(Conns) /\ Len(s) = 0 /\ idle' = [idle EXCEPT ![k] = s]
          /\ (\A j \in 1..Len(s) : s[j].auth >= c.cred) /\ (poolClosed => s = <<>>)
      BY <1>11, <2>1
    <3> HIDE DEF s, IdleStep
    <3>2. IdleStep(Len(s))
      BY <1>10, <3>1
    <3> QED BY <3>1, <3>2
  <2>3. /\ exec' \in [Workers -> Calls \cup {Free}] /\ exec'[w].at = "dial" /\ exec'[w].host = c.host
        /\ exec'[w].auth = c.auth /\ exec'[w].cred = c.cred /\ \A v \in Workers \ {w} : exec'[v] = exec[v]
    BY <1>1, <1>11, StagesAre, CallMoves
  <2>4. exec'[w].at \in TenantStages /\ exec'[w].at \in HoldStages /\ exec'[w].at \notin {"run", "release"}
    BY <2>3, StagesAre
  <2>5. n = L /\ opened' = opened
    BY <1>2, <1>4, <1>11
  <2>6. opened' - ended' - IdleCount' - 0 = opened - ended - IdleCount - 0
    <3> DEFINE i == IdleCount  p == IdleCount'
    <3>1. i \in Nat /\ p \in Nat /\ p = i + 0 - L /\ L \in Nat /\ ended' = ended + L
      BY <1>4, <1>5, <2>2, <2>5
    <3> HIDE DEF i, p, L, IdleStep
    <3>2. opened - (ended + L) - p - 0 = opened - ended - i - 0
      BY <3>1, <1>8
    <3> QED BY <3>1, <3>2, <2>5 DEF i, p
  <2>7. \A h \in Hosts : hostSem'[h] = hostSem[h] + (IF exec'[w].at \in HoldStages /\ exec'[w].host = h THEN 1 ELSE 0)
                                      - (IF exec[w].at \in HoldStages /\ exec[w].host = h THEN 1 ELSE 0)
    BY <1>9, <2>3, <2>4
  <2> QED BY <1>2, <1>6, <1>7, <1>8, <2>2, <2>3, <2>4, <2>6, <2>7, OneCallSteps
<1>12. CASE /\ L - n > 0
            /\ idle' = [idle EXCEPT ![k] = SubSeq(stack, 1, (L - n) - 1)]
            /\ exec' = [exec EXCEPT ![w].at = "run", ![w].conn = stack[L - n]]
  <2> DEFINE s == SubSeq(stack, 1, (L - n) - 1)  top == stack[L - n]  r == [c EXCEPT !.at = "run", !.conn = top]
  <2>1. n \in Nat /\ (L - n) - 1 \in Nat /\ L - n \in 1..L /\ (L - n) - 1 <= L
    <3>1. L \in Nat /\ n \in 0..L /\ L - n > 0
      BY <1>4, <1>12
    <3> HIDE DEF L
    <3> QED BY <3>1
  <2>2. s \in Seq(Conns) /\ Len(s) = (L - n) - 1 /\ \A j \in 1..Len(s) : s[j] = stack[j] /\ j \in 1..L
    BY <1>4, <2>1, SubSeqProperties
  <2>3. top \in Conns /\ top.auth >= c.cred
    BY <1>4, <1>6, <2>1
  <2>4. poolClosed => L = 0
    BY <1>1, <1>3 DEF NothingIdleWhenClosed
  <2> HIDE DEF s, top
  <2>5. IdleStep((L - n) - 1)
    <3>1. idle' = [idle EXCEPT ![k] = s]
      BY <1>12 DEF s
    <3>2. \A j \in 1..Len(s) : s[j].auth >= c.cred
      BY <1>6, <2>2
    <3>3. poolClosed => s = <<>>
      BY <2>1, <2>4
    <3>4. IdleStep(Len(s))
      BY <1>10, <2>2, <3>1, <3>2, <3>3
    <3> QED BY <2>2, <3>4
  <2>6. r \in Calls /\ r.at = "run" /\ r.host = c.host /\ r.cred = c.cred /\ r.auth = c.auth /\ r.conn = top
    BY <1>1, <2>3, StagesAre DEF Calls
  <2>7. exec' = [exec EXCEPT ![w] = r]
    BY <1>12 DEF top
  <2> HIDE DEF r
  <2>8. exec' \in [Workers -> Calls \cup {Free}] /\ exec'[w] = r /\ \A v \in Workers \ {w} : exec'[v] = exec[v]
    BY <1>1, <2>6, <2>7, CallBecomes
  <2>9. exec'[w].at \in TenantStages /\ exec'[w].at \in HoldStages /\ exec'[w].at \in {"run", "release"}
    BY <2>6, <2>8, StagesAre
  <2>10. opened' - ended' - IdleCount' - 1 = opened - ended - IdleCount - 0
    <3> DEFINE i == IdleCount  p == IdleCount'
    <3>1. i \in Nat /\ p \in Nat /\ p = i + ((L - n) - 1) - L /\ L \in Nat /\ n \in Nat /\ ended' = ended + n /\ opened' = opened
      BY <1>2, <1>4, <1>5, <2>1, <2>5
    <3> HIDE DEF i, p, L, IdleStep
    <3>2. opened - (ended + n) - p - 1 = opened - ended - i - 0
      BY <3>1, <1>8
    <3> QED BY <3>1, <3>2 DEF i, p
  <2>11. \A h \in Hosts : hostSem'[h] = hostSem[h] + (IF exec'[w].at \in HoldStages /\ exec'[w].host = h THEN 1 ELSE 0)
                                      - (IF exec[w].at \in HoldStages /\ exec[w].host = h THEN 1 ELSE 0)
    BY <1>9, <2>6, <2>8, <2>9
  <2> QED BY <1>2, <1>6, <1>7, <1>8, <2>3, <2>5, <2>6, <2>8, <2>9, <2>10, <2>11, OneCallSteps
<1> QED BY <1>5, <1>11, <1>12

LEMMA ReleaseKeepsInv ==
  ASSUME PoolAssumption, PoolInv, NEW w \in Workers, Release(w)
  PROVE  PoolInv'
<1> DEFINE c == exec[w]  k == <<c.host, c.cred>>  stack == idle[k]  L == Len(stack)
           back == [c.conn EXCEPT !.expired = FALSE]
<1>1. c.at = "release" /\ c \in Calls /\ PoolTypes /\ LoginsAreFresh /\ c # Free /\ NothingIdleWhenClosed
  BY CallOf, StagesAre DEF Release, PoolInv
<1>2. /\ UNCHANGED <<keyOf, poolClosed, sweeping, looked, rotations, opened>>
      /\ exec' = [exec EXCEPT ![w] = Free]
      /\ hostSem' = [hostSem EXCEPT ![c.host] = @ - 1] /\ tenantSem' = tenantSem - 1
  BY DEF Release, poolBounds
<1>3. exec' \in [Workers -> Calls \cup {Free}] /\ exec'[w] = Free /\ \A v \in Workers \ {w} : exec'[v] = exec[v]
  BY <1>1, <1>2, CallBecomes
<1>4. c.host \in Hosts /\ c.at \in HoldStages /\ c.conn \in Conns
  BY <1>1, StagesAre DEF Calls
<1>5. /\ hostSem' \in [Hosts -> Int] /\ tenantSem' <= PerTenantLimit /\ \A h \in Hosts : hostSem'[h] <= PerHostLimit
      /\ tenantSem' = tenantSem + (IF exec'[w].at \in TenantStages THEN 1 ELSE 0)
                                - (IF exec[w].at \in TenantStages THEN 1 ELSE 0)
      /\ \A h \in Hosts : hostSem'[h] = hostSem[h] + (IF exec'[w].at \in HoldStages /\ exec'[w].host = h THEN 1 ELSE 0)
                                                   - (IF exec[w].at \in HoldStages /\ exec[w].host = h THEN 1 ELSE 0)
  BY <1>2, <1>3, <1>4, SlotsReturned
<1>6. opened \in Nat /\ ended \in Nat /\ opened' = opened
  BY <1>2, NumbersOf
<1>7. exec'[w].at \notin {"run", "release"} /\ exec[w].at \in {"run", "release"}
  BY <1>1, <1>3, StagesAre
<1>8. CASE ended' = ended + 1 /\ UNCHANGED idle
  <2>1. opened' \in Nat /\ ended' \in Nat /\ opened' - ended' - 0 = opened - ended - 1
    BY <1>6, <1>8
  <2> QED BY <1>2, <1>3, <1>5, <1>7, <1>8, <2>1, OneCallOnly
<1>9. CASE ~ poolClosed /\ idle' = [idle EXCEPT ![k] = Append(@, back)] /\ UNCHANGED ended
  <2>1. k \in PoolKeys /\ k[2] = c.cred
    BY <1>1, PoolKeyParts DEF Calls
  <2>2. stack \in Seq(Conns) /\ L \in Nat /\ DOMAIN stack = 1..L
    BY <1>1, <2>1, StackOf
  <2>3. back \in Conns /\ back.auth >= c.cred
    BY <1>1, <1>4 DEF Conns, LoginsAreFresh
  <2> DEFINE s == Append(stack, back)
  <2> HIDE DEF back
  <2>4. s \in Seq(Conns) /\ Len(s) = L + 1 /\ DOMAIN s = 1..(L + 1) /\ s[L + 1] = back
        /\ \A j \in 1..L : s[j] = stack[j]
    BY <2>2, <2>3, AppendProperties
  <2>5. idle' \in [PoolKeys -> Seq(Conns)] /\ idle'[k] = s /\ \A g \in PoolKeys \ {k} : idle'[g] = idle[g]
    BY <1>1, <1>9, <2>1, <2>4 DEF PoolTypes
  <2>6. \A j \in DOMAIN s : s[j].auth >= k[2]
    <3>1. ASSUME NEW j \in 1..L
          PROVE  s[j].auth >= k[2]
      BY <3>1, <1>1, <2>1, <2>2, <2>4 DEF LoginsAreFresh
    <3>2. s[L + 1].auth >= k[2]
      BY <2>1, <2>3, <2>4
    <3> HIDE DEF s
    <3>3. \A j \in 1..(L + 1) : j = L + 1 \/ j \in 1..L
      BY <2>2
    <3> QED BY <3>1, <3>2, <3>3, <2>4
  <2>7. \A g \in PoolKeys : \A j \in DOMAIN idle'[g] : idle'[g][j].auth >= g[2]
    BY <1>1, <2>5, <2>6 DEF LoginsAreFresh
  <2>8. NothingIdleWhenClosed'
    BY <1>2, <1>9 DEF NothingIdleWhenClosed
  <2>9. idle \in [PoolKeys -> Seq(Conns)]
    BY <1>1 DEF PoolTypes
  <2>10. IdleCount \in Nat /\ IdleCount' \in Nat /\ IdleCount' = IdleCount + Len(idle'[k]) - Len(idle[k])
    BY <2>1, <2>5, <2>9, IdleChange
  <2>11. opened' \in Nat /\ ended' \in Nat /\ opened' - ended' - IdleCount' - 0 = opened - ended - IdleCount - 1
    <3> DEFINE i == IdleCount  p == IdleCount'
    <3>1. i \in Nat /\ p \in Nat /\ p = i + (L + 1) - L /\ L \in Nat /\ ended' = ended
      BY <1>9, <2>2, <2>4, <2>5, <2>10
    <3> HIDE DEF i, p, L
    <3>2. opened - ended - p - 0 = opened - ended - i - 1
      BY <3>1, <1>6
    <3> QED BY <3>1, <3>2, <1>6 DEF i, p
  <2> QED BY <1>2, <1>3, <1>5, <1>7, <2>5, <2>7, <2>8, <2>10, <2>11, OneCallSteps
<1> QED BY <1>8, <1>9 DEF Release, PushIdle

\* A step of the pool alone, that changes no call.
LEMMA PoolSteps ==
  ASSUME PoolAssumption, PoolInv, UNCHANGED <<exec, hostSem, tenantSem, opened>>,
         rotations' \in 0..MaxRotations, keyOf' \in [Hosts -> Nat], \A h \in Hosts : keyOf'[h] <= rotations',
         idle' \in [PoolKeys -> Seq(Conns)], looked' \in [PoolKeys -> Nat],
         poolClosed' \in BOOLEAN, sweeping' \in BOOLEAN,
         \A g \in PoolKeys : \A j \in DOMAIN idle'[g] : idle'[g][j].auth >= g[2],
         NothingIdleWhenClosed', ended' \in Nat, IdleCount' \in Nat, ended' + IdleCount' = ended + IdleCount
  PROVE  PoolInv'
<1>1. PoolTypes /\ SlotsMatchHolders /\ Conserved /\ LoginsAreFresh
  BY DEF PoolInv
<1>2. PoolTypes'
  BY <1>1 DEF PoolTypes
<1>3. SlotsMatchHolders'
  BY <1>1 DEF SlotsMatchHolders, HoldsTenant, Holds
<1>4. LoginsAreFresh'
  BY <1>1 DEF LoginsAreFresh
<1>5. Conserved'
  <2> DEFINE u == Cardinality(InUse)  i == IdleCount  p == IdleCount'  v == Cardinality(InUse')
  <2>1. opened' = ended + i + u /\ ended + i = ended' + p
    BY <1>1 DEF Conserved
  <2>2. v = u
    BY DEF InUse
  <2> HIDE DEF u, i, p, v
  <2>3. opened' = ended' + p + v
    BY <2>1, <2>2
  <2> QED BY <2>3 DEF Conserved, p, v
<1> QED BY <1>2, <1>3, <1>4, <1>5 DEF PoolInv

\* The same, when no stack changes either.
LEMMA QuietSteps ==
  ASSUME PoolAssumption, PoolInv, UNCHANGED <<exec, hostSem, tenantSem, opened, idle, poolClosed, ended>>,
         rotations' \in 0..MaxRotations, keyOf' \in [Hosts -> Nat], \A h \in Hosts : keyOf'[h] <= rotations',
         looked' \in [PoolKeys -> Nat], sweeping' \in BOOLEAN
  PROVE  PoolInv'
<1>1. IdleCount' = IdleCount
  BY DEF IdleCount, IdleConns
<1>2. IdleCount \in Nat
  BY IdleCountIsNat DEF PoolInv
<1>3. /\ idle' \in [PoolKeys -> Seq(Conns)] /\ poolClosed' \in BOOLEAN /\ NothingIdleWhenClosed'
      /\ \A g \in PoolKeys : \A j \in DOMAIN idle'[g] : idle'[g][j].auth >= g[2]
      /\ ended' \in Nat
  BY DEF PoolInv, PoolTypes, NothingIdleWhenClosed, LoginsAreFresh
<1>4. ended' + IdleCount' = ended + IdleCount
  BY <1>1
<1> QED BY <1>1, <1>2, <1>3, <1>4, PoolSteps

LEMMA RotateKeyKeepsInv ==
  ASSUME PoolAssumption, PoolInv, NEW h \in Hosts, RotateKey(h)
  PROVE  PoolInv'
<1>1. PoolTypes
  BY DEF PoolInv
<1>2. /\ UNCHANGED <<exec, hostSem, tenantSem, opened, idle, poolClosed, ended>>
      /\ looked' = looked /\ sweeping' = sweeping
  BY DEF RotateKey
<1>3. rotations' \in 0..MaxRotations /\ rotations' = rotations + 1 /\ rotations \in Nat
  BY <1>1 DEF RotateKey, PoolTypes, PoolAssumption
<1>4. keyOf' \in [Hosts -> Nat] /\ \A g \in Hosts : keyOf'[g] <= keyOf[g] + 1 /\ keyOf[g] <= rotations /\ keyOf[g] \in Nat
  BY <1>1 DEF RotateKey, PoolTypes
<1>5. \A g \in Hosts : keyOf'[g] <= rotations'
  BY <1>3, <1>4
<1> QED BY <1>1, <1>2, <1>3, <1>4, <1>5, QuietSteps DEF PoolTypes

LEMMA SweepBeginKeepsInv == ASSUME PoolAssumption, PoolInv, SweepBegin PROVE PoolInv'
<1>1. /\ UNCHANGED <<exec, hostSem, tenantSem, opened, idle, poolClosed, ended, keyOf, looked, rotations>>
      /\ sweeping' \in BOOLEAN
  BY DEF SweepBegin, poolBounds
<1> QED BY <1>1, QuietSteps DEF PoolInv, PoolTypes

LEMMA SweepEndKeepsInv == ASSUME PoolAssumption, PoolInv, SweepEnd PROVE PoolInv'
<1>1. /\ UNCHANGED <<exec, hostSem, tenantSem, opened, idle, poolClosed, ended, keyOf, rotations>>
      /\ sweeping' \in BOOLEAN /\ looked' \in [PoolKeys -> Nat]
  BY DEF SweepEnd, poolBounds
<1> QED BY <1>1, QuietSteps DEF PoolInv, PoolTypes

LEMMA CloseAtOne ==
  ASSUME NEW stack \in Seq(Conns), NEW i \in 1..Len(stack)
  PROVE  /\ CloseAt(stack, i) \in Seq(Conns) /\ Len(CloseAt(stack, i)) = Len(stack) - 1
         /\ \A j \in DOMAIN CloseAt(stack, i) : \E m \in DOMAIN stack : CloseAt(stack, i)[j] = stack[m]
<1> DEFINE L == Len(stack)
<1>1. L \in Nat /\ DOMAIN stack = 1..L /\ \A j \in 1..L : stack[j] \in Conns
  BY LenProperties, ElementOfSeq
<1> DEFINE s == [j \in 1..(L - 1) |-> IF j < i THEN stack[j] ELSE stack[j + 1]]
<1>2. s = CloseAt(stack, i)
  BY DEF CloseAt
<1>3. L - 1 \in Nat
  BY <1>1
<1> HIDE DEF L
<1>4. ASSUME NEW j \in 1..(L - 1)
      PROVE  j \in 1..L /\ j + 1 \in 1..L /\ s[j] \in {stack[j], stack[j + 1]}
  BY <1>1
<1>5. \A j \in 1..(L - 1) : s[j] \in Conns /\ \E m \in DOMAIN stack : s[j] = stack[m]
  BY <1>1, <1>4
<1>6. s \in [1..(L - 1) -> Conns]
  BY <1>5
<1>7. s \in Seq(Conns) /\ Len(s) = L - 1 /\ DOMAIN s = 1..(L - 1)
  <2>1. DOMAIN s = 1..(L - 1)
    OBVIOUS
  <2> HIDE DEF s
  <2>2. s \in Seq(Conns)
    BY <1>3, <1>6, SeqDef
  <2> DEFINE m == Len(s)  n == L - 1
  <2>3. m \in Nat /\ 1..m = 1..n /\ n \in Nat
    BY <1>3, <2>1, <2>2, LenProperties
  <2> HIDE DEF m, n
  <2>4. m = n
    BY <2>3
  <2> QED BY <2>1, <2>2, <2>4 DEF m, n
<1> QED BY <1>2, <1>5, <1>7 DEF L

LEMMA SweepConnKeepsInv ==
  ASSUME PoolAssumption, PoolInv, NEW k \in PoolKeys, SweepConn(k)
  PROVE  PoolInv'
<1> DEFINE i == looked[k] + 1  stack == idle[k]  L == Len(stack)
<1>1. PoolTypes /\ LoginsAreFresh /\ NothingIdleWhenClosed
  BY DEF PoolInv
<1>2. UNCHANGED <<exec, hostSem, tenantSem, opened, poolClosed, sweeping, keyOf, rotations>>
  BY DEF SweepConn, poolBounds
<1>3. stack \in Seq(Conns) /\ L \in Nat /\ looked[k] \in Nat /\ looked[k] < L /\ i \in 1..L
  BY <1>1, StackOf DEF SweepConn, PoolTypes
<1>4. CASE looked' = [looked EXCEPT ![k] = i] /\ UNCHANGED <<idle, ended>>
  <2>1. looked' \in [PoolKeys -> Nat]
    BY <1>1, <1>3, <1>4 DEF PoolTypes
  <2> QED BY <1>1, <1>2, <1>4, <2>1, QuietSteps DEF PoolTypes
<1>5. CASE idle' = [idle EXCEPT ![k] = CloseAt(stack, i)] /\ ended' = ended + 1 /\ UNCHANGED looked
  <2> DEFINE s == CloseAt(stack, i)
  <2>1. s \in Seq(Conns) /\ Len(s) = L - 1 /\ \A j \in DOMAIN s : \E m \in DOMAIN stack : s[j] = stack[m]
    BY <1>3, CloseAtOne
  <2> HIDE DEF s
  <2>2. idle' = [idle EXCEPT ![k] = s]
    BY <1>5 DEF s
  <2>3. idle' \in [PoolKeys -> Seq(Conns)] /\ idle'[k] = s /\ \A g \in PoolKeys \ {k} : idle'[g] = idle[g]
    BY <1>1, <2>1, <2>2 DEF PoolTypes
  <2>4. \A g \in PoolKeys : \A j \in DOMAIN idle'[g] : idle'[g][j].auth >= g[2]
    BY <1>1, <2>1, <2>3 DEF LoginsAreFresh
  <2>5. ~ poolClosed
    <3>1. stack # <<>>
      BY <1>3
    <3> QED BY <3>1, <1>1 DEF NothingIdleWhenClosed
  <2>6. NothingIdleWhenClosed'
    BY <1>2, <2>5 DEF NothingIdleWhenClosed
  <2>7. IdleCount \in Nat /\ IdleCount' \in Nat /\ IdleCount' = IdleCount + Len(idle'[k]) - Len(idle[k])
    <3>1. idle \in [PoolKeys -> Seq(Conns)]
      BY <1>1 DEF PoolTypes
    <3> QED BY <3>1, <2>3, IdleChange
  <2>8. ended' \in Nat /\ ended' + IdleCount' = ended + IdleCount
    <3> DEFINE n == IdleCount  p == IdleCount'
    <3>1. n \in Nat /\ p \in Nat /\ p = n + (L - 1) - L /\ L \in Nat /\ ended \in Nat /\ ended' = ended + 1
      BY <1>3, <1>5, <2>1, <2>3, <2>7, NumbersOf
    <3> HIDE DEF n, p, L
    <3>2. ended + 1 + p = ended + n
      BY <3>1
    <3> QED BY <3>1, <3>2 DEF n, p
  <2> QED BY <1>1, <1>2, <1>5, <2>3, <2>4, <2>6, <2>7, <2>8, PoolSteps DEF PoolTypes
<1> QED BY <1>4, <1>5 DEF SweepConn

LEMMA ClosePoolKeepsInv == ASSUME PoolAssumption, PoolInv, ClosePool PROVE PoolInv'
<1>1. PoolTypes
  BY DEF PoolInv
<1>2. /\ UNCHANGED <<exec, hostSem, tenantSem, opened, sweeping, looked, keyOf, rotations>>
      /\ poolClosed' = TRUE /\ idle' = [k \in PoolKeys |-> <<>>] /\ ended' = ended + IdleCount
  BY DEF ClosePool, poolBounds
<1>3. /\ idle' \in [PoolKeys -> Seq(Conns)] /\ \A k \in PoolKeys : idle'[k] = <<>>
      /\ \A g \in PoolKeys : \A j \in DOMAIN idle'[g] : idle'[g][j].auth >= g[2]
  BY <1>2
<1>4. IdleCount' = 0
  <2>1. IdleConns' = {}
    BY <1>3 DEF IdleConns
  <2> QED BY <2>1, FS_EmptySet DEF IdleCount
<1>5. IdleCount \in Nat /\ ended \in Nat
  BY <1>1, IdleCountIsNat DEF PoolTypes
<1>6. ended' \in Nat /\ IdleCount' \in Nat /\ ended' + IdleCount' = ended + IdleCount
  BY <1>2, <1>4, <1>5
<1> QED BY <1>1, <1>2, <1>3, <1>6, PoolSteps DEF PoolTypes, NothingIdleWhenClosed

LEMMA IdleHarmKeepsInv ==
  ASSUME PoolAssumption, PoolInv, NEW k \in PoolKeys, NEW what \in {"dead", "silent", "expired"}, IdleHarm(k, what)
  PROVE  PoolInv'
<1>1. PoolTypes /\ LoginsAreFresh /\ NothingIdleWhenClosed
  BY DEF PoolInv
<1>2. UNCHANGED <<exec, hostSem, tenantSem, opened, poolClosed, sweeping, looked, keyOf, rotations, ended>>
  BY DEF IdleHarm
<1>3. PICK j \in DOMAIN idle[k] : idle' = [idle EXCEPT ![k][j] = Harm(idle[k][j], what)]
  BY DEF IdleHarm
<1> DEFINE old == idle[k]  conn == old[j]  new == Harm(conn, what)  s == [old EXCEPT ![j] = new]
<1>4. old \in Seq(Conns) /\ DOMAIN old = 1..Len(old) /\ Len(old) \in Nat /\ conn \in Conns
  BY <1>1, StackOf
<1>5. new \in Conns /\ new.auth = conn.auth
  BY <1>4 DEF Harm, Conns
<1> HIDE DEF new
<1>6. s \in Seq(Conns) /\ DOMAIN s = DOMAIN old /\ s[j] = new /\ \A m \in DOMAIN old \ {j} : s[m] = old[m]
  BY <1>4, <1>5, ExceptSeq
<1> HIDE DEF s
<1>7. idle' = [idle EXCEPT ![k] = s]
  BY <1>3 DEF s, new
<1>8. /\ idle' \in [PoolKeys -> Seq(Conns)] /\ idle'[k] = s /\ \A g \in PoolKeys \ {k} : idle'[g] = idle[g]
      /\ \A g \in PoolKeys : DOMAIN idle'[g] = DOMAIN idle[g]
  BY <1>1, <1>6, <1>7 DEF PoolTypes
<1>9. \A g \in PoolKeys : \A m \in DOMAIN idle'[g] : idle'[g][m].auth >= g[2]
  <2>1. \A m \in DOMAIN s : s[m].auth = old[m].auth
    BY <1>5, <1>6
  <2> QED BY <2>1, <1>1, <1>6, <1>8 DEF LoginsAreFresh
<1>10. NothingIdleWhenClosed'
  <2>1. old # <<>>
    BY <1>4
  <2>2. ~ poolClosed
    BY <2>1, <1>1 DEF NothingIdleWhenClosed
  <2> QED BY <2>2, <1>2 DEF NothingIdleWhenClosed
<1>11. IdleCount' = IdleCount /\ IdleCount \in Nat
  BY <1>1, <1>8, IdleUnchanged DEF PoolTypes
<1>12. ended' \in Nat /\ ended' + IdleCount' = ended + IdleCount
  BY <1>2, <1>11, NumbersOf
<1> QED BY <1>1, <1>2, <1>8, <1>9, <1>10, <1>11, <1>12, PoolSteps DEF PoolTypes

LEMMA HeardConn ==
  ASSUME NEW conn \in Conns
  PROVE  Heard(conn) \in Conns /\ Heard(conn).auth = conn.auth
BY DEF Heard, Conns

LEMMA TcpGivesUpKeepsInv == ASSUME PoolAssumption, PoolInv, TcpGivesUp PROVE PoolInv'
<1>1. PoolTypes /\ SlotsMatchHolders /\ Conserved /\ LoginsAreFresh /\ NothingIdleWhenClosed
  BY DEF PoolInv
<1>2. UNCHANGED <<keyOf, hostSem, tenantSem, poolClosed, sweeping, looked, opened, ended, rotations>>
  BY DEF TcpGivesUp, poolBounds
<1>3. ASSUME NEW k \in PoolKeys
      PROVE  /\ idle'[k] \in Seq(Conns) /\ DOMAIN idle'[k] = DOMAIN idle[k]
             /\ \A j \in DOMAIN idle[k] : idle'[k][j].auth = idle[k][j].auth
  <2> DEFINE old == idle[k]  L == Len(old)  s == [j \in DOMAIN old |-> Heard(old[j])]
  <2>1. idle'[k] = s
    BY DEF TcpGivesUp
  <2>2. L \in Nat /\ DOMAIN old = 1..L /\ \A j \in 1..L : old[j] \in Conns
    BY <1>1, StackOf
  <2>3. \A j \in 1..L : Heard(old[j]) \in Conns /\ Heard(old[j]).auth = old[j].auth
    BY <2>2, HeardConn
  <2>4. s \in [1..L -> Conns]
    BY <2>2, <2>3
  <2>5. DOMAIN s = DOMAIN old /\ \A j \in DOMAIN old : s[j].auth = old[j].auth
    BY <2>2, <2>3
  <2> HIDE DEF s, L
  <2>6. s \in Seq(Conns)
    BY <2>2, <2>4, SeqDef
  <2> QED BY <2>1, <2>5, <2>6
<1>4. idle' \in [PoolKeys -> Seq(Conns)]
  <2>1. idle' = [k \in PoolKeys |-> idle'[k]]
    BY DEF TcpGivesUp
  <2> QED BY <1>3, <2>1
<1>5. ASSUME NEW w \in Workers
      PROVE  /\ exec'[w] \in Calls \cup {Free} /\ exec'[w].at = exec[w].at
             /\ exec[w] = Free => exec'[w] = Free
             /\ exec[w] # Free => /\ exec'[w].host = exec[w].host /\ exec'[w].cred = exec[w].cred
                                  /\ exec'[w].auth = exec[w].auth /\ exec'[w].conn.auth = exec[w].conn.auth
             /\ Holds(w) => exec'[w].host = exec[w].host
  <2> DEFINE c == exec[w]
  <2>1. CASE c.at \in {"run", "release"}
    <3> DEFINE conn == Heard(c.conn)  r == [c EXCEPT !.conn = conn]
    <3>1. c \in Calls /\ c # Free
      BY <1>1, <2>1, CallOf, StagesAre
    <3>2. conn \in Conns /\ conn.auth = c.conn.auth
      BY <3>1, HeardConn DEF Calls
    <3>3. exec'[w] = r
      BY <2>1 DEF TcpGivesUp
    <3> HIDE DEF conn
    <3>4. r \in Calls /\ r.at = c.at /\ r.host = c.host /\ r.cred = c.cred /\ r.auth = c.auth /\ r.conn = conn
      BY <3>1, <3>2 DEF Calls
    <3> HIDE DEF r
    <3> QED BY <3>1, <3>2, <3>3, <3>4
  <2>2. CASE c.at \notin {"run", "release"}
    <3>1. exec'[w] = exec[w] /\ exec[w] \in Calls \cup {Free}
      BY <1>1, <2>2 DEF TcpGivesUp, PoolTypes
    <3> QED BY <3>1
  <2> QED BY <2>1, <2>2
<1>6. exec' \in [Workers -> Calls \cup {Free}]
  <2>1. exec' = [w \in Workers |-> exec'[w]]
    BY DEF TcpGivesUp
  <2> QED BY <1>5, <2>1
<1>7. PoolTypes'
  BY <1>1, <1>2, <1>4, <1>6 DEF PoolTypes
<1>8. SlotsMatchHolders'
  <2>1. TenantHolders' = TenantHolders
    BY <1>5 DEF TenantHolders, HoldsTenant, Holds
  <2>2. ASSUME NEW h \in Hosts
        PROVE  HostHolders(h)' = HostHolders(h)
    <3>1. \A w \in Workers : Holds(w)' <=> Holds(w)
      BY <1>5 DEF Holds
    <3> QED BY <3>1, <1>5 DEF HostHolders
  <2>3. tenantSem = Cardinality(TenantHolders) /\ \A h \in Hosts : hostSem[h] = Cardinality(HostHolders(h))
    BY <1>1 DEF SlotsMatchHolders, TenantHolders, HostHolders
  <2>4. tenantSem' = Cardinality(TenantHolders') /\ \A h \in Hosts : hostSem'[h] = Cardinality(HostHolders(h)')
    BY <1>2, <2>1, <2>2, <2>3
  <2> QED BY <2>4 DEF SlotsMatchHolders, TenantHolders, HostHolders
<1>9. LoginsAreFresh'
  <2>1. ASSUME NEW w \in Workers, exec'[w] # Free
        PROVE  exec'[w].auth >= exec'[w].cred /\ (exec'[w].at \in {"run", "release"} => exec'[w].conn.auth >= exec'[w].cred)
    <3>1. exec[w] # Free
      BY <1>5, <2>1
    <3> QED BY <3>1, <1>1, <1>5 DEF LoginsAreFresh
  <2>2. \A k \in PoolKeys : \A j \in DOMAIN idle'[k] : idle'[k][j].auth >= k[2]
    BY <1>1, <1>3 DEF LoginsAreFresh
  <2> QED BY <2>1, <2>2 DEF LoginsAreFresh
<1>10. NothingIdleWhenClosed'
  <2>1. ASSUME poolClosed', NEW k \in PoolKeys
        PROVE  idle'[k] = <<>>
    <3>1. idle[k] = <<>>
      BY <1>1, <1>2, <2>1 DEF NothingIdleWhenClosed
    <3>2. DOMAIN idle'[k] = {} /\ idle'[k] \in Seq(Conns)
      BY <3>1, <1>3
    <3>3. Len(idle'[k]) = 0
      <4> DEFINE n == Len(idle'[k])
      <4>1. n \in Nat /\ 1..n = {}
        BY <3>2, LenProperties
      <4> HIDE DEF n
      <4>2. n = 0
        BY <4>1
      <4> QED BY <4>2 DEF n
    <3> QED BY <3>2, <3>3, EmptySeq
  <2> QED BY <2>1 DEF NothingIdleWhenClosed
<1>11. Conserved'
  <2>1. IdleCount' = IdleCount
    BY <1>1, <1>3, IdleUnchanged DEF PoolTypes
  <2>2. InUse' = InUse
    BY <1>5 DEF InUse
  <2> QED BY <1>1, <1>2, <2>1, <2>2 DEF Conserved
<1> QED BY <1>7, <1>8, <1>9, <1>10, <1>11 DEF PoolInv

LEMMA PoolInitInv == ASSUME PoolAssumption, PoolInit PROVE PoolInv
<1>1. PoolTypes
  <2>1. /\ rotations \in 0..MaxRotations /\ tenantSem \in 0..PerTenantLimit /\ opened \in Nat /\ ended \in Nat
    <3>1. MaxRotations \in Nat /\ PerTenantLimit \in Nat
      BY DEF PoolAssumption
    <3>2. rotations = 0 /\ tenantSem = 0 /\ opened = 0 /\ ended = 0
      BY DEF PoolInit
    <3> QED BY <3>1, <3>2
  <2>7. poolClosed \in BOOLEAN /\ sweeping \in BOOLEAN
    BY Zenon DEF PoolInit
  <2>2. keyOf \in [Hosts -> Nat] /\ \A h \in Hosts : keyOf[h] <= rotations
    BY DEF PoolInit
  <2>3. hostSem \in [Hosts -> 0..PerHostLimit]
    BY DEF PoolInit, PoolAssumption
  <2>4. exec \in [Workers -> Calls \cup {Free}]
    BY DEF PoolInit
  <2>5. idle \in [PoolKeys -> Seq(Conns)]
    <3>1. <<>> \in Seq(Conns)
      OBVIOUS
    <3> QED BY <3>1 DEF PoolInit
  <2>6. looked \in [PoolKeys -> Nat]
    BY DEF PoolInit
  <2> QED BY <2>1, <2>2, <2>3, <2>4, <2>5, <2>6, <2>7 DEF PoolTypes
<1>2. \A w \in Workers : exec[w].at = "free" /\ exec[w] = Free
  BY DEF PoolInit, Free
<1>3. InUse = {} /\ TenantHolders = {} /\ \A h : HostHolders(h) = {}
  BY <1>2 DEF InUse, TenantHolders, HostHolders, HoldsTenant, Holds
<1>4. Cardinality({}) = 0
  BY FS_EmptySet
<1>5. SlotsMatchHolders
  <2>1. tenantSem = Cardinality(TenantHolders) /\ \A h \in Hosts : hostSem[h] = Cardinality(HostHolders(h))
    BY <1>3, <1>4 DEF PoolInit
  <2> QED BY <2>1 DEF SlotsMatchHolders, TenantHolders, HostHolders
<1>6. \A k \in PoolKeys : idle[k] = <<>>
  BY DEF PoolInit
<1>7. LoginsAreFresh /\ NothingIdleWhenClosed
  BY <1>2, <1>6 DEF LoginsAreFresh, NothingIdleWhenClosed
<1>8. Conserved
  <2>1. IdleCount = 0
    BY <1>1, <1>6, IdleUnchanged DEF PoolTypes
  <2> QED BY <2>1, <1>3, <1>4 DEF Conserved, PoolInit
<1> QED BY <1>1, <1>5, <1>7, <1>8 DEF PoolInv

LEMMA PoolNextKeepsInv == ASSUME PoolAssumption, PoolInv, [PoolNext]_poolVars PROVE PoolInv'
<1>1. ASSUME NEW w \in Workers, NEW h \in Hosts, NEW c \in CredVersions, StartExec(w, h, c)
      PROVE  PoolInv'
  BY <1>1, StartExecKeepsInv
<1>2. ASSUME NEW w \in Workers, ExecStep(w)
      PROVE  PoolInv'
  BY <1>2, AcquireKeepsInv, TakeTenantSlotKeepsInv, TakeHostSlotKeepsInv, TakeIdleKeepsInv, DialKeepsInv,
     RunCommandKeepsInv, ReleaseKeepsInv DEF ExecStep
<1>3. ASSUME NEW w \in Workers, CancelWait(w) \/ DialFails(w)
      PROVE  PoolInv'
  BY <1>3, CancelWaitKeepsInv, DialFailsKeepsInv
<1>4. ASSUME NEW h \in Hosts, RotateKey(h)
      PROVE  PoolInv'
  BY <1>4, RotateKeyKeepsInv
<1>5. ASSUME SweepBegin \/ Sweep \/ ClosePool \/ TcpGivesUp
      PROVE  PoolInv'
  BY <1>5, SweepBeginKeepsInv, SweepEndKeepsInv, SweepConnKeepsInv, ClosePoolKeepsInv, TcpGivesUpKeepsInv DEF Sweep
<1>6. ASSUME NEW k \in PoolKeys, NEW what \in {"dead", "silent", "expired"}, IdleHarm(k, what)
      PROVE  PoolInv'
  BY <1>6, IdleHarmKeepsInv
<1>7. ASSUME NEW w \in Workers, NEW what \in {"dead", "silent"}, UsedHarm(w, what)
      PROVE  PoolInv'
  BY <1>7, UsedHarmKeepsInv
<1>8. ASSUME UNCHANGED poolVars
      PROVE  PoolInv'
  <2>1. /\ UNCHANGED <<exec, hostSem, tenantSem, opened, idle, poolClosed, ended, keyOf, looked, rotations>>
        /\ sweeping' = sweeping
    BY <1>8 DEF poolVars
  <2> QED BY <2>1, QuietSteps DEF PoolInv, PoolTypes
<1> QED BY <1>1, <1>2, <1>3, <1>4, <1>5, <1>6, <1>7, <1>8 DEF PoolNext

LEMMA PoolInvIsSafe == ASSUME PoolAssumption, PoolInv PROVE PoolSafety
<1>1. PoolTypes /\ SlotsMatchHolders /\ Conserved /\ LoginsAreFresh /\ NothingIdleWhenClosed
  BY DEF PoolInv
<1>2. /\ IdleCount \in Nat /\ Cardinality(InUse) \in Nat /\ opened = ended + IdleCount + Cardinality(InUse)
      /\ opened \in Nat /\ ended \in Nat
  <2>1. IsFiniteSet(InUse)
    BY FS_Subset DEF InUse, PoolAssumption
  <2> QED BY <1>1, <2>1, FS_CardinalityType, IdleCountIsNat DEF Conserved, PoolTypes
<1>3. NoConnectionLeaks
  <2> DEFINE i == IdleCount  u == Cardinality(InUse)
  <2>1. opened - ended = i + u
    <3>1. i \in Nat /\ u \in Nat /\ opened = ended + i + u
      BY <1>2
    <3> HIDE DEF i, u
    <3> QED BY <3>1, <1>2
  <2>2. poolClosed => i = 0
    BY <1>1, IdleUnchanged DEF NothingIdleWhenClosed, PoolTypes
  <2> HIDE DEF i
  <2> QED BY <2>1, <2>2 DEF NoConnectionLeaks, InUse, i
<1>4. NoStaleLogin
  BY <1>1, StagesAre DEF NoStaleLogin, LoginsAreFresh
<1>5. PoolTypeOK
  <2>1. \A h \in Hosts : keyOf[h] \in CredVersions /\ hostSem[h] \in 0..PerHostLimit
    BY <1>1 DEF PoolTypes, CredVersions, PoolAssumption
  <2>2. \A k \in PoolKeys : \A j \in DOMAIN idle[k] : idle[k][j].state \in {"up", "dead", "silent"}
    BY <1>1, StackOf DEF Conns
  <2>3. ended \in 0..opened
    <3> DEFINE i == IdleCount  u == Cardinality(InUse)
    <3>1. i \in Nat /\ u \in Nat /\ opened = ended + i + u /\ ended \in Nat /\ opened \in Nat
      BY <1>2
    <3> HIDE DEF i, u
    <3> QED BY <3>1
  <2> QED BY <1>1, <2>1, <2>2, <2>3 DEF PoolTypeOK, PoolTypes
<1> QED BY <1>1, <1>3, <1>4, <1>5 DEF PoolSafety

\* The pool of SSH connections, for any number of workers and hosts and any limits: the
\* slots taken are those of the calls that hold them, on every path out of Acquire and Exec;
\* every connection that was dialled is closed, idle or in a call's hands, also while Close,
\* the sweep and releases overlap, and none is idle once the pool is closed; and no command
\* runs on a login older than the credential its scan was loaded with.
THEOREM PoolIsSafe == PoolInit /\ [][PoolNext]_poolVars => []PoolSafety
<1>1. PoolInit => PoolInv
  BY PoolInitInv, PoolAssumption
<1>2. PoolInv /\ [PoolNext]_poolVars => PoolInv'
  BY PoolNextKeepsInv, PoolAssumption
<1>3. PoolInv => PoolSafety
  BY PoolInvIsSafe, PoolAssumption
<1> QED BY <1>1, <1>2, <1>3, PTL

--------------------------------------------------------------------------------
(* The stream of a scan's progress: an event that waits anywhere between the   *)
(* bus and a client may still be told.                                          *)

\* Events of a topic as they may be told now: an own one counts no more than is recorded,
\* and that of the end counts all of it.
Told(t) ==
    {e \in Messages : e.kind = t /\ (e.own => e.count <= recorded /\ (t = "completed" => scanEnded /\ e.count = recorded))}
Own(t) == {e \in Told(t) : e.own}
OwnEvents == Own("progress") \cup Own("completed")

SubRecords(t) ==
    [listed : BOOLEAN, worker : {"none", "idle", "push"}, queue : Seq(Told(t)), held : Own(t) \cup {NoMessage}]
WatchRecords ==
    [pc : {"dial", "refused", "subscribe", "subscribeDone", "serve", "write", "return", "closed"},
     gone : BOOLEAN, msg : OwnEvents \cup {NoMessage}]

\* The counts of the scan: a scan that has ended records and publishes nothing more.
ScanCounts ==
    /\ dispatched \in Nat /\ busy \in Nat /\ recorded \in Nat /\ foreign \in Nat
    /\ recorded + busy <= dispatched /\ dispatched <= TotalResults /\ foreign <= ForeignEvents
    /\ unpublished \subseteq 1..recorded
    /\ scanEnded \in BOOLEAN /\ (scanEnded => busy = 0 /\ unpublished = {})

\* What is on its way to a client.
SubOf(c, t) ==
    /\ sub[c][t] \in SubRecords(t)
    /\ Len(sub[c][t].queue) <= BusBuffer
    /\ sub[c][t].worker = "push" => sub[c][t].held \in Own(t)
ClientOf(c) ==
    /\ watch[c] \in WatchRecords
    /\ watch[c].pc = "write" => watch[c].msg \in OwnEvents
    /\ msgCh[c] \in Seq(OwnEvents) /\ Len(msgCh[c]) <= MessageBuffer
    /\ sent[c] \in Seq(OwnEvents)
    /\ \A i \in 1..Len(sent[c]) :
         sent[c][i].kind = "completed" => i = Len(sent[c]) /\ watch[c].pc \in {"return", "closed"}

StreamTypes ==
    /\ DOMAIN watch = Watchers /\ DOMAIN sent = Watchers
    /\ msgCh = [c \in Watchers |-> msgCh[c]]
    /\ DOMAIN sub = Watchers /\ \A c \in Watchers : DOMAIN sub[c] = WsTopics
StreamInv ==
    /\ ScanCounts /\ StreamTypes
    /\ \A c \in Watchers : ClientOf(c) /\ \A t \in WsTopics : SubOf(c, t)

\* Behind the end of the scan, a subscription holds ends of other scans only, and the end
\* that is pushed out had a full queue of them behind it.
IsEnd(e) == e.own /\ e.kind = "completed"
Ends(c) == sub[c]["completed"].queue
FollowedByOthers(c) == \A i \in 1..Len(Ends(c)) : IsEnd(Ends(c)[i]) => Len(Ends(c)) - i <= foreign
EndInv == EndIsLostToOthers /\ \A c \in Watchers : FollowedByOthers(c)

StreamSafety == WsTypeOK /\ EndIsLast /\ EndCoversAll /\ EndIsLostToOthers

\* What may be told stays so while the scan goes on, and once it has ended nothing changes.
LEMMA EventsGrow ==
  ASSUME ScanCounts, recorded' \in Nat, recorded <= recorded',
         scanEnded => recorded' = recorded /\ scanEnded'
  PROVE  /\ \A t \in WsTopics : Told(t) \subseteq Told(t)' /\ Own(t) \subseteq Own(t)'
         /\ OwnEvents \subseteq OwnEvents'
<1>1. \A e \in Messages : e.count \in Nat
  BY DEF Messages, ScanCounts
<1>2. ASSUME NEW t \in WsTopics, NEW e \in Told(t) PROVE e \in Told(t)'
  BY <1>1 DEF Told, ScanCounts
<1>3. \A t \in WsTopics : Own(t) \subseteq Own(t)'
  BY <1>2 DEF Own
<1> QED BY <1>2, <1>3 DEF OwnEvents, WsTopics

\* What is held and queued for a client is good as long as events are.
LEMMA SubStays ==
  ASSUME NEW c, NEW t \in WsTopics, SubOf(c, t), Told(t) \subseteq Told(t)', Own(t) \subseteq Own(t)', sub'[c][t] = sub[c][t]
  PROVE  SubOf(c, t)'
<1>1. \A q \in Seq(Told(t)) : q \in Seq(Told(t)')
  BY SeqMonotonic
<1>2. sub[c][t] \in SubRecords(t)'
  BY <1>1 DEF SubOf, SubRecords
<1> QED BY <1>2 DEF SubOf

\* So is what a client has got and is about to get.
LEMMA ClientStays ==
  ASSUME NEW c, ClientOf(c), OwnEvents \subseteq OwnEvents',
         watch'[c] = watch[c], msgCh'[c] = msgCh[c], sent'[c] = sent[c]
  PROVE  ClientOf(c)'
<1>1. \A q \in Seq(OwnEvents) : q \in Seq(OwnEvents')
  BY SeqMonotonic
<1>2. watch[c] \in WatchRecords'
  BY DEF ClientOf, WatchRecords
<1> QED BY <1>1, <1>2 DEF ClientOf

\* The scan goes on and publishes nothing.
LEMMA QuietKeepsInv ==
  ASSUME StreamInv, ScanCounts', recorded <= recorded', scanEnded => recorded' = recorded /\ scanEnded',
         UNCHANGED <<watch, sub, msgCh, sent>>
  PROVE  StreamInv'
<1>1. /\ \A t \in WsTopics : Told(t) \subseteq Told(t)' /\ Own(t) \subseteq Own(t)'
      /\ OwnEvents \subseteq OwnEvents'
  BY EventsGrow DEF StreamInv, ScanCounts
<1>2. \A c \in Watchers : ClientOf(c)'
  BY <1>1, ClientStays DEF StreamInv
<1>3. \A c \in Watchers, t \in WsTopics : SubOf(c, t)'
  BY <1>1, SubStays DEF StreamInv
<1> QED BY <1>2, <1>3 DEF StreamInv, StreamTypes

\* A queue with an event more, the oldest lost if it was full.
LEMMA QueueGrows ==
  ASSUME ProgressAssumption, NEW S, NEW q \in Seq(S), Len(q) <= BusBuffer, NEW e \in S
  PROVE  LET p == Append(IF Len(q) = BusBuffer THEN Tail(q) ELSE q, e)
         IN  p \in Seq(S) /\ Len(p) <= BusBuffer
<1> DEFINE r == IF Len(q) = BusBuffer THEN Tail(q) ELSE q
<1>1. BusBuffer \in Nat \ {0} /\ Len(q) \in Nat
  BY LenProperties DEF ProgressAssumption
<1>2. r \in Seq(S) /\ Len(r) \in Nat /\ Len(r) + 1 <= BusBuffer
  <2>1. CASE Len(q) = BusBuffer
    <3>1. q # <<>>
      BY <1>1, <2>1, EmptySeq
    <3>2. Tail(q) \in Seq(S) /\ Len(Tail(q)) = Len(q) - 1
      BY <3>1, HeadTailProperties
    <3> QED BY <1>1, <2>1, <3>2
  <2>2. CASE Len(q) # BusBuffer
    BY <1>1, <2>2
  <2> QED BY <2>1, <2>2
<1> HIDE DEF r
<1>3. Append(r, e) \in Seq(S) /\ Len(Append(r, e)) = Len(r) + 1
  BY <1>2, AppendProperties
<1>4. Append(r, e) \in Seq(S) /\ Len(Append(r, e)) <= BusBuffer
  BY <1>1, <1>2, <1>3
<1> QED BY <1>4 DEF r

\* The scan publishes an event that may be told.
LEMMA PublishKeepsInv ==
  ASSUME ProgressAssumption, StreamInv, ScanCounts', recorded <= recorded',
         scanEnded => recorded' = recorded /\ scanEnded',
         NEW t \in WsTopics, NEW e \in Told(t)', PublishWs(t, e)
  PROVE  StreamInv'
<1>1. /\ \A x \in WsTopics : Told(x) \subseteq Told(x)' /\ Own(x) \subseteq Own(x)'
      /\ OwnEvents \subseteq OwnEvents'
  BY EventsGrow DEF StreamInv, ScanCounts
<1>2. /\ UNCHANGED <<watch, msgCh, sent>>
      /\ sub' = [c \in Watchers |-> [sub[c] EXCEPT ![t] = Enqueued(@, e)]]
  BY DEF PublishWs
<1>3. \A c \in Watchers : ClientOf(c)'
  BY <1>1, <1>2, ClientStays DEF StreamInv
<1>4. /\ DOMAIN sub' = Watchers
      /\ \A c \in Watchers : DOMAIN sub'[c] = WsTopics /\ sub'[c][t] = Enqueued(sub[c][t], e)
                             /\ \A x \in WsTopics \ {t} : sub'[c][x] = sub[c][x]
  BY <1>2 DEF StreamInv, StreamTypes
<1>5. ASSUME NEW c \in Watchers, NEW x \in WsTopics PROVE SubOf(c, x)'
  <2>1. CASE x # t
    BY <1>1, <1>4, <2>1, SubStays DEF StreamInv
  <2>2. CASE x = t
    <3> DEFINE b == sub[c][t]
    <3>1. b \in SubRecords(t) /\ Len(b.queue) <= BusBuffer /\ (b.worker = "push" => b.held \in Own(t))
      BY DEF StreamInv, SubOf
    <3>2. CASE ~ b.listed
      <4>1. sub'[c][t] = sub[c][t]
        BY <1>4, <3>2 DEF Enqueued
      <4> QED BY <1>1, <2>2, <4>1, SubStays DEF StreamInv
    <3>3. CASE b.listed
      <4> DEFINE p == Append(IF Len(b.queue) = BusBuffer THEN Tail(b.queue) ELSE b.queue, e)
      <4>1. b.queue \in Seq(Told(t)')
        BY <1>1, <3>1, SeqMonotonic DEF SubRecords
      <4>2. p \in Seq(Told(t)') /\ Len(p) <= BusBuffer
        BY <3>1, <4>1, QueueGrows
      <4>3. sub'[c][t] = [b EXCEPT !.queue = p]
        BY <1>4, <3>3 DEF Enqueued
      <4> HIDE DEF p
      <4>4. sub'[c][t] \in SubRecords(t)' /\ sub'[c][t].queue = p
            /\ (sub'[c][t].worker = "push" => sub'[c][t].held \in Own(t)')
        BY <1>1, <3>1, <4>2, <4>3 DEF SubRecords
      <4> QED BY <2>2, <4>2, <4>4 DEF SubOf
    <3> QED BY <3>2, <3>3
  <2> QED BY <2>1, <2>2
<1> QED BY <1>2, <1>3, <1>4, <1>5 DEF StreamInv, StreamTypes

--------------------------------------------------------------------------------
(* The scan. *)

\* Each step of the scan: only a scan that has not ended records, and its end is told when all is published.
LEMMA ScanKeepsInv ==
  ASSUME ProgressAssumption, StreamInv, ScanStep PROVE StreamInv'
<1>0. ScanCounts
  BY DEF StreamInv
<1>1. CASE Dispatch
  <2>1. /\ ~ scanEnded /\ dispatched < TotalResults /\ dispatched' = dispatched + 1 /\ busy' = busy + 1
        /\ UNCHANGED <<recorded, unpublished, scanEnded, foreign, watch, sub, msgCh, sent>>
    BY <1>1 DEF Dispatch
  <2>2. ScanCounts'
    BY <1>0, <2>1 DEF ScanCounts, ProgressAssumption
  <2>3. recorded <= recorded'
    BY <1>0, <2>1 DEF ScanCounts
  <2> QED BY <2>1, <2>2, <2>3, QuietKeepsInv
<1>2. CASE RecordProgress
  <2>1. /\ busy > 0 /\ busy' = busy - 1 /\ recorded' = recorded + 1 /\ unpublished' = unpublished \cup {recorded + 1}
        /\ UNCHANGED <<dispatched, scanEnded, foreign, watch, sub, msgCh, sent>>
    BY <1>2 DEF RecordProgress
  <2>2. ~ scanEnded /\ 1..recorded \subseteq 1..(recorded + 1) /\ recorded + 1 \in 1..(recorded + 1)
    BY <1>0, <2>1 DEF ScanCounts
  <2>3. ScanCounts'
    BY <1>0, <2>1, <2>2 DEF ScanCounts
  <2> QED BY <1>0, <2>1, <2>2, <2>3, QuietKeepsInv DEF ScanCounts
<1>3. CASE RecordFails
  <2>1. /\ busy > 0 /\ busy' = busy - 1
        /\ UNCHANGED <<dispatched, recorded, unpublished, scanEnded, foreign, watch, sub, msgCh, sent>>
    BY <1>3 DEF RecordFails
  <2>2. ScanCounts'
    BY <1>0, <2>1 DEF ScanCounts
  <2>3. recorded <= recorded'
    BY <1>0, <2>1 DEF ScanCounts
  <2> QED BY <2>1, <2>2, <2>3, QuietKeepsInv
<1>4. CASE PublishCompleted
  <2>1. /\ ~ scanEnded /\ busy = 0 /\ unpublished = {} /\ scanEnded' = TRUE
        /\ UNCHANGED <<dispatched, busy, recorded, unpublished, foreign>>
        /\ PublishWs("completed", WsMessage("completed", recorded))
    BY <1>4 DEF PublishCompleted, WorkersReturned
  <2>2. ScanCounts'
    BY <1>0, <2>1 DEF ScanCounts
  <2>3. WsMessage("completed", recorded) \in Told("completed")'
    BY <1>0, <2>1 DEF WsMessage, Told, Messages, WsTopics, ScanCounts, ProgressAssumption
  <2> QED BY <1>0, <2>1, <2>2, <2>3, PublishKeepsInv DEF ScanCounts, WsTopics
<1>5. CASE FinishSilently
  <2>1. /\ ~ scanEnded /\ busy = 0 /\ unpublished = {} /\ scanEnded' = TRUE
        /\ UNCHANGED <<dispatched, busy, recorded, unpublished, foreign, watch, sub, msgCh, sent>>
    BY <1>5 DEF FinishSilently, WorkersReturned
  <2>2. ScanCounts' /\ recorded <= recorded'
    BY <1>0, <2>1 DEF ScanCounts
  <2> QED BY <2>1, <2>2, QuietKeepsInv
<1>6. ASSUME NEW n \in unpublished, PublishProgress(n) PROVE StreamInv'
  <2>1. /\ unpublished' = unpublished \ {n} /\ UNCHANGED <<dispatched, busy, recorded, scanEnded, foreign>>
        /\ PublishWs("progress", WsMessage("progress", n))
    BY <1>6 DEF PublishProgress
  <2>2. ScanCounts' /\ n \in 0..TotalResults /\ n <= recorded
    BY <1>0, <2>1 DEF ScanCounts, ProgressAssumption
  <2>3. WsMessage("progress", n) \in Told("progress")'
    BY <2>1, <2>2 DEF WsMessage, Told, Messages, WsTopics
  <2> QED BY <1>0, <2>1, <2>2, <2>3, PublishKeepsInv DEF ScanCounts, WsTopics
<1> QED BY <1>1, <1>2, <1>3, <1>4, <1>5, <1>6 DEF ScanStep

\* An event of another session may always be told, to nobody.
LEMMA ForeignKeepsInv ==
  ASSUME ProgressAssumption, StreamInv, NEW t \in WsTopics, ForeignEvent(t) PROVE StreamInv'
<1> DEFINE e == [kind |-> t, own |-> FALSE, count |-> 0]
<1>1. /\ foreign < ForeignEvents /\ foreign' = foreign + 1 /\ PublishWs(t, e)
      /\ UNCHANGED <<dispatched, busy, recorded, unpublished, scanEnded>>
  BY DEF ForeignEvent
<1>2. ScanCounts' /\ recorded <= recorded'
  BY <1>1 DEF StreamInv, ScanCounts, ProgressAssumption
<1>3. e \in Told(t)'
  BY DEF Told, Messages, ProgressAssumption
<1> QED BY <1>1, <1>2, <1>3, PublishKeepsInv

--------------------------------------------------------------------------------
(* The handler of a client and the workers of its subscriptions. *)

\* While the scan stands still, what may be told is the same.
LEMMA Still ==
  ASSUME UNCHANGED scanVars
  PROVE  /\ ScanCounts => ScanCounts'
         /\ OwnEvents' = OwnEvents /\ WatchRecords' = WatchRecords
         /\ \A t \in WsTopics : Told(t)' = Told(t) /\ Own(t)' = Own(t) /\ SubRecords(t)' = SubRecords(t)
<1>1. \A t \in WsTopics : Told(t)' = Told(t)
  BY DEF scanVars, Told
<1>2. \A t \in WsTopics : Own(t)' = Own(t)
  BY <1>1 DEF Own
<1>3. OwnEvents' = OwnEvents
  BY <1>2 DEF OwnEvents, WsTopics
<1>4. ScanCounts => ScanCounts'
  BY DEF scanVars, ScanCounts
<1> QED BY <1>1, <1>2, <1>3, <1>4 DEF WatchRecords, SubRecords

\* One client's part changes, and stays good.
LEMMA OneClientMoves ==
  ASSUME StreamInv, UNCHANGED scanVars, NEW c \in Watchers, StreamTypes',
         \A d \in Watchers \ {c} : watch'[d] = watch[d] /\ msgCh'[d] = msgCh[d] /\ sent'[d] = sent[d] /\ sub'[d] = sub[d],
         ClientOf(c)', \A t \in WsTopics : SubOf(c, t)'
  PROVE  StreamInv'
<1>1. \A d \in Watchers \ {c} : ClientOf(d)'
  BY Still, ClientStays DEF StreamInv
<1>2. \A d \in Watchers \ {c}, t \in WsTopics : SubOf(d, t)'
  BY Still, SubStays DEF StreamInv
<1> QED BY <1>1, <1>2, Still DEF StreamInv

\* The handler goes on, and nothing is written, received or subscribed.
LEMMA HandlerGoes ==
  ASSUME StreamInv, UNCHANGED scanVars, UNCHANGED <<msgCh, sent>>, NEW c \in Watchers, NEW r \in WatchRecords,
         watch' = [watch EXCEPT ![c] = r], r.pc = "write" => r.msg \in OwnEvents,
         watch[c].pc \in {"return", "closed"} => r.pc \in {"return", "closed"}
  PROVE  /\ ClientOf(c)' /\ DOMAIN watch' = Watchers
         /\ \A d \in Watchers \ {c} : watch'[d] = watch[d]
<1>1. watch'[c] = r /\ DOMAIN watch' = Watchers /\ \A d \in Watchers \ {c} : watch'[d] = watch[d]
  BY DEF StreamInv, StreamTypes
<1>2. ClientOf(c)
  BY DEF StreamInv
<1>3. ClientOf(c)'
  BY <1>1, <1>2, Still DEF ClientOf
<1> QED BY <1>1, <1>3

\* A subscription changes.
LEMMA SubBecomes ==
  ASSUME StreamInv, UNCHANGED scanVars, NEW c \in Watchers, NEW t \in WsTopics, NEW r \in SubRecords(t),
         Len(r.queue) <= BusBuffer, r.worker = "push" => r.held \in Own(t),
         sub' = [sub EXCEPT ![c] = [@ EXCEPT ![t] = r]]
  PROVE  /\ DOMAIN sub' = Watchers /\ \A d \in Watchers : DOMAIN sub'[d] = WsTopics
         /\ \A d \in Watchers \ {c} : sub'[d] = sub[d]
         /\ \A x \in WsTopics : SubOf(c, x)'
<1>1. /\ DOMAIN sub' = Watchers /\ \A d \in Watchers : DOMAIN sub'[d] = WsTopics
      /\ \A d \in Watchers \ {c} : sub'[d] = sub[d]
      /\ sub'[c][t] = r /\ \A x \in WsTopics \ {t} : sub'[c][x] = sub[c][x]
  BY DEF StreamInv, StreamTypes
<1>2. \A x \in WsTopics \ {t} : SubOf(c, x)'
  BY <1>1, Still, SubStays DEF StreamInv
<1>3. SubOf(c, t)'
  BY <1>1, Still DEF SubOf
<1> QED BY <1>1, <1>2, <1>3

LEMMA WatchMovesKeepsInv ==
  ASSUME StreamInv, NEW c \in Watchers, Refuse(c) \/ Accept(c) \/ Leave(c) \/ ReadCtxDone(c) \/ WriteFails(c)
  PROVE  StreamInv'
<1>1. /\ UNCHANGED scanVars /\ UNCHANGED <<sub, msgCh, sent>>
  BY DEF Refuse, Accept, Leave, ReadCtxDone, WriteFails
<1>2. watch[c] \in WatchRecords /\ (watch[c].pc = "write" => watch[c].msg \in OwnEvents)
  BY DEF StreamInv, ClientOf
<1>3. \E r \in WatchRecords : /\ watch' = [watch EXCEPT ![c] = r]
                              /\ r.pc = "write" => r.msg \in OwnEvents
                              /\ watch[c].pc \in {"return", "closed"} => r.pc \in {"return", "closed"}
  <2>1. CASE Leave(c)
    <3>1. [watch[c] EXCEPT !.gone = TRUE] \in WatchRecords
      BY <1>2 DEF WatchRecords
    <3>2. watch' = [watch EXCEPT ![c] = [watch[c] EXCEPT !.gone = TRUE]]
      BY <2>1 DEF Leave
    <3> QED BY <1>2, <3>1, <3>2 DEF WatchRecords
  <2>2. ASSUME NEW pc \in {"refused", "subscribe", "return"}, Go(c, pc), watch[c].pc \in {"dial", "serve", "write"}
        PROVE  \E r \in WatchRecords : /\ watch' = [watch EXCEPT ![c] = r]
                                       /\ r.pc = "write" => r.msg \in OwnEvents
                                       /\ watch[c].pc \in {"return", "closed"} => r.pc \in {"return", "closed"}
    <3> DEFINE r == [watch[c] EXCEPT !.pc = pc, !.msg = NoMessage]
    <3>1. r \in WatchRecords /\ r.pc = pc
      BY <1>2 DEF WatchRecords
    <3>2. watch' = [watch EXCEPT ![c] = r]
      BY <2>2 DEF Go
    <3> HIDE DEF r
    <3> QED BY <2>2, <3>1, <3>2
  <2> QED BY <2>1, <2>2 DEF Refuse, Accept, ReadCtxDone, WriteFails, At
<1>4. ClientOf(c)' /\ DOMAIN watch' = Watchers /\ \A d \in Watchers \ {c} : watch'[d] = watch[d]
  BY <1>1, <1>3, HandlerGoes
<1>5. \A t \in WsTopics : SubOf(c, t)'
  BY <1>1, Still, SubStays DEF StreamInv
<1>6. StreamTypes'
  BY <1>1, <1>4 DEF StreamInv, StreamTypes
<1> QED BY <1>1, <1>4, <1>5, <1>6, OneClientMoves

LEMMA SubscribeKeepsInv ==
  ASSUME ProgressAssumption, StreamInv, NEW c \in Watchers, SubscribeProgress(c) \/ SubscribeCompleted(c)
  PROVE  StreamInv'
<1>1. PICK t \in WsTopics, pc \in {"subscribeDone", "serve"} :
        SubscribeWs(c, t) /\ Go(c, pc) /\ watch[c].pc \in {"subscribe", "subscribeDone"}
  BY DEF SubscribeProgress, SubscribeCompleted, At, WsTopics
<1> DEFINE r == [watch[c] EXCEPT !.pc = pc, !.msg = NoMessage]
           b == [NoSub EXCEPT !.listed = TRUE, !.worker = "idle"]
<1>2. UNCHANGED scanVars /\ UNCHANGED <<msgCh, sent>>
  BY <1>1 DEF SubscribeWs
<1>3. r \in WatchRecords /\ r.pc = pc
  BY DEF StreamInv, ClientOf, WatchRecords
<1>4. watch' = [watch EXCEPT ![c] = r]
  BY <1>1 DEF Go
<1>5. b \in SubRecords(t) /\ b.worker = "idle" /\ b.queue = <<>>
  BY EmptySeq DEF SubRecords, NoSub
<1>6. Len(b.queue) <= BusBuffer
  BY <1>5, EmptySeq DEF ProgressAssumption
<1>7. sub' = [sub EXCEPT ![c] = [@ EXCEPT ![t] = b]]
  BY <1>1 DEF SubscribeWs
<1> HIDE DEF r, b
<1>8. ClientOf(c)' /\ DOMAIN watch' = Watchers /\ \A d \in Watchers \ {c} : watch'[d] = watch[d]
  BY <1>1, <1>2, <1>3, <1>4, HandlerGoes
<1>9. /\ DOMAIN sub' = Watchers /\ \A d \in Watchers : DOMAIN sub'[d] = WsTopics
      /\ \A d \in Watchers \ {c} : sub'[d] = sub[d]
      /\ \A x \in WsTopics : SubOf(c, x)'
  BY <1>2, <1>5, <1>6, <1>7, SubBecomes
<1>10. StreamTypes'
  BY <1>2, <1>8, <1>9 DEF StreamInv, StreamTypes
<1> QED BY <1>2, <1>8, <1>9, <1>10, OneClientMoves

\* The handler takes the oldest message of the channel.
LEMMA ReceiveKeepsInv ==
  ASSUME ProgressAssumption, StreamInv, NEW c \in Watchers, Receive(c) PROVE StreamInv'
<1> DEFINE q == msgCh[c]  r == [watch[c] EXCEPT !.pc = "write", !.msg = Head(q)]
<1>1. /\ watch[c].pc = "serve" /\ q # <<>> /\ watch' = [watch EXCEPT ![c] = r]
      /\ msgCh' = [msgCh EXCEPT ![c] = Tail(q)]
      /\ UNCHANGED scanVars /\ UNCHANGED <<sub, sent>>
  BY DEF Receive, At
<1>2. ClientOf(c) /\ q \in Seq(OwnEvents) /\ Len(q) <= MessageBuffer /\ Len(q) \in Nat
  BY LenProperties DEF StreamInv, ClientOf
<1>3. Head(q) \in OwnEvents /\ Tail(q) \in Seq(OwnEvents) /\ Len(Tail(q)) = Len(q) - 1
  BY <1>1, <1>2, HeadTailProperties
<1>4. r \in WatchRecords /\ r.msg = Head(q) /\ r.pc = "write"
  BY <1>2, <1>3 DEF ClientOf, WatchRecords
<1> HIDE DEF r
<1>5. /\ watch'[c] = r /\ msgCh'[c] = Tail(q) /\ DOMAIN watch' = Watchers /\ DOMAIN msgCh' = Watchers
      /\ \A d \in Watchers \ {c} : watch'[d] = watch[d] /\ msgCh'[d] = msgCh[d]
  BY <1>1 DEF StreamInv, StreamTypes
<1>7. Len(msgCh'[c]) <= MessageBuffer
  BY <1>2, <1>3, <1>5 DEF ProgressAssumption
<1>8. \A i \in 1..Len(sent[c]) : sent[c][i].kind # "completed"
  BY <1>1, <1>2 DEF ClientOf
<1>9. ClientOf(c)'
  BY <1>1, <1>2, <1>3, <1>4, <1>5, <1>7, <1>8, Still DEF ClientOf
<1>10. \A t \in WsTopics : SubOf(c, t)'
  BY <1>1, Still, SubStays DEF StreamInv
<1>11. StreamTypes'
  BY <1>1, <1>5 DEF StreamInv, StreamTypes
<1> QED BY <1>1, <1>5, <1>9, <1>10, <1>11, OneClientMoves

\* What is written is the end only if the handler returns then.
LEMMA WriteKeepsInv ==
  ASSUME StreamInv, NEW c \in Watchers, Write(c) PROVE StreamInv'
<1> DEFINE m == watch[c].msg  pc == AfterWrite(m)  r == [watch[c] EXCEPT !.pc = pc, !.msg = NoMessage]
           q == sent[c]  n == Len(q)
<1>1. /\ watch[c].pc = "write" /\ watch' = [watch EXCEPT ![c] = r] /\ sent' = [sent EXCEPT ![c] = Append(q, m)]
      /\ UNCHANGED scanVars /\ UNCHANGED <<sub, msgCh>>
  BY DEF Write, At, Go
<1>2. ClientOf(c) /\ m \in OwnEvents /\ q \in Seq(OwnEvents) /\ n \in Nat
  BY <1>1, LenProperties DEF StreamInv, ClientOf
<1>3. /\ Append(q, m) \in Seq(OwnEvents) /\ Len(Append(q, m)) = n + 1
      /\ Append(q, m)[n + 1] = m /\ \A i \in 1..n : Append(q, m)[i] = q[i]
  BY <1>2, AppendProperties
<1>4. pc \in {"serve", "return"} /\ (m.kind = "completed" => pc = "return")
  BY DEF AfterWrite
<1>5. r \in WatchRecords /\ r.pc = pc
  BY <1>2, <1>4 DEF ClientOf, WatchRecords
<1>6. \A i \in 1..n : q[i].kind # "completed"
  BY <1>1, <1>2 DEF ClientOf
<1> HIDE DEF r, pc, n
<1>7. /\ watch'[c] = r /\ sent'[c] = Append(q, m) /\ DOMAIN watch' = Watchers /\ DOMAIN sent' = Watchers
      /\ \A d \in Watchers \ {c} : watch'[d] = watch[d] /\ sent'[d] = sent[d]
  BY <1>1 DEF StreamInv, StreamTypes
<1>8. \A i \in 1..Len(sent'[c]) :
         sent'[c][i].kind = "completed" => i = Len(sent'[c]) /\ watch'[c].pc \in {"return", "closed"}
  <2>1. \A i \in 1..(n + 1) : i \in 1..n \/ i = n + 1
    BY <1>2
  <2> QED BY <2>1, <1>3, <1>4, <1>5, <1>6, <1>7
<1>9. watch'[c].pc # "write"
  BY <1>4, <1>5, <1>7
<1>10. ClientOf(c)'
  BY <1>1, <1>2, <1>3, <1>5, <1>7, <1>8, <1>9, Still DEF ClientOf
<1>11. \A t \in WsTopics : SubOf(c, t)'
  BY <1>1, Still, SubStays DEF StreamInv
<1>12. StreamTypes'
  BY <1>1, <1>7 DEF StreamInv, StreamTypes
<1> QED BY <1>1, <1>7, <1>10, <1>11, <1>12, OneClientMoves

\* Both subscriptions are cancelled, with what they still hold.
LEMMA ReturnKeepsInv ==
  ASSUME StreamInv, NEW c \in Watchers, Return(c) PROVE StreamInv'
<1> DEFINE r == [watch[c] EXCEPT !.pc = "closed", !.msg = NoMessage]
           b == [t \in WsTopics |-> [sub[c][t] EXCEPT !.listed = FALSE]]
<1>1. /\ watch' = [watch EXCEPT ![c] = r] /\ sub' = [sub EXCEPT ![c] = b]
      /\ UNCHANGED scanVars /\ UNCHANGED <<msgCh, sent>>
  BY DEF Return, Go
<1>2. r \in WatchRecords /\ r.pc = "closed"
  BY DEF StreamInv, ClientOf, WatchRecords
<1> HIDE DEF r
<1>3. ClientOf(c)' /\ DOMAIN watch' = Watchers /\ \A d \in Watchers \ {c} : watch'[d] = watch[d]
  BY <1>1, <1>2, HandlerGoes
<1>4. /\ DOMAIN sub' = Watchers /\ sub'[c] = b /\ DOMAIN b = WsTopics
      /\ \A d \in Watchers \ {c} : sub'[d] = sub[d]
  BY <1>1 DEF StreamInv, StreamTypes
<1>5. ASSUME NEW t \in WsTopics PROVE SubOf(c, t)'
  <2>1. SubOf(c, t)
    BY DEF StreamInv
  <2>2. b[t] \in SubRecords(t) /\ b[t].queue = sub[c][t].queue /\ b[t].worker = sub[c][t].worker /\ b[t].held = sub[c][t].held
    BY <2>1 DEF SubOf, SubRecords
  <2> QED BY <1>1, <1>4, <2>1, <2>2, Still DEF SubOf
<1>6. StreamTypes'
  BY <1>1, <1>3, <1>4 DEF StreamInv, StreamTypes
<1> QED BY <1>1, <1>3, <1>4, <1>5, <1>6, OneClientMoves

\* A worker moves: its subscription changes, and it may hand a message over.
LEMMA WorkerMoves ==
  ASSUME StreamInv, UNCHANGED scanVars, UNCHANGED <<watch, sent>>, NEW c \in Watchers, NEW t \in WsTopics,
         NEW r \in SubRecords(t), Len(r.queue) <= BusBuffer, r.worker = "push" => r.held \in Own(t),
         sub' = [sub EXCEPT ![c] = [@ EXCEPT ![t] = r]],
         NEW q \in Seq(OwnEvents), Len(q) <= MessageBuffer, msgCh' = [msgCh EXCEPT ![c] = q]
  PROVE  StreamInv'
<1>1. /\ DOMAIN sub' = Watchers /\ \A d \in Watchers : DOMAIN sub'[d] = WsTopics
      /\ \A d \in Watchers \ {c} : sub'[d] = sub[d]
      /\ \A x \in WsTopics : SubOf(c, x)'
  BY SubBecomes
<1>2. DOMAIN msgCh' = Watchers /\ msgCh'[c] = q /\ \A d \in Watchers \ {c} : msgCh'[d] = msgCh[d]
  BY DEF StreamInv, StreamTypes
<1>3. ClientOf(c)
  BY DEF StreamInv
<1>4. ClientOf(c)'
  BY <1>2, <1>3, Still DEF ClientOf
<1>5. StreamTypes'
  BY <1>1, <1>2 DEF StreamInv, StreamTypes
<1> QED BY <1>1, <1>2, <1>4, <1>5, OneClientMoves

LEMMA WorkerKeepsInv ==
  ASSUME ProgressAssumption, StreamInv, NEW c \in Watchers, NEW t \in WsTopics, WsWorkerStep(c, t) PROVE StreamInv'
<1> DEFINE s == sub[c][t]  q == msgCh[c]
<1>1. /\ s \in SubRecords(t) /\ Len(s.queue) <= BusBuffer /\ (s.worker = "push" => s.held \in Own(t))
      /\ q \in Seq(OwnEvents) /\ Len(q) <= MessageBuffer
  BY DEF StreamInv, SubOf, ClientOf
<1>2. msgCh = [msgCh EXCEPT ![c] = q]
  BY DEF StreamInv, StreamTypes
<1>3. s.queue \in Seq(Told(t)) /\ Len(s.queue) \in Nat /\ BusBuffer \in Nat /\ Len(q) \in Nat /\ MessageBuffer \in Nat
  BY <1>1, LenProperties DEF SubRecords, ProgressAssumption
<1>4. CASE TakeEvent(c, t)
  <2> DEFINE e == Head(s.queue)
             r == [s EXCEPT !.queue = Tail(s.queue), !.worker = IF Mine(e) THEN "push" ELSE "idle",
                            !.held = IF Mine(e) THEN e ELSE NoMessage]
  <2>1. /\ s.queue # <<>> /\ UNCHANGED scanVars /\ UNCHANGED <<watch, msgCh, sent>>
        /\ sub' = [sub EXCEPT ![c] = [@ EXCEPT ![t] = r]]
    BY <1>4 DEF TakeEvent
  <2>2. e \in Told(t) /\ Tail(s.queue) \in Seq(Told(t)) /\ Len(Tail(s.queue)) = Len(s.queue) - 1
    BY <1>3, <2>1, HeadTailProperties
  <2>3. Mine(e) => e \in Own(t)
    BY <2>2 DEF Mine, Own
  <2>4. r \in SubRecords(t) /\ r.queue = Tail(s.queue) /\ (r.worker = "push" => r.held \in Own(t))
    BY <1>1, <2>2, <2>3 DEF SubRecords
  <2> HIDE DEF r
  <2>5. Len(r.queue) <= BusBuffer
    BY <1>1, <1>3, <2>2, <2>4
  <2>6. msgCh' = [msgCh EXCEPT ![c] = q]
    BY <1>2, <2>1
  <2> QED BY <1>1, <2>1, <2>4, <2>5, <2>6, WorkerMoves
<1> DEFINE idled == [s EXCEPT !.worker = "idle", !.held = NoMessage]
<1>5. idled \in SubRecords(t) /\ idled.queue = s.queue /\ idled.worker = "idle"
  BY <1>1 DEF SubRecords
<1>6. Idled(c, t) => sub' = [sub EXCEPT ![c] = [@ EXCEPT ![t] = idled]]
  <2> SUFFICES ASSUME Idled(c, t) PROVE sub' = [sub EXCEPT ![c] = [@ EXCEPT ![t] = idled]]
    OBVIOUS
  <2>1. sub' = [sub EXCEPT ![c][t].worker = "idle", ![c][t].held = NoMessage]
    BY DEF Idled
  <2>2. c \in DOMAIN sub /\ t \in DOMAIN sub[c]
    BY DEF StreamInv, StreamTypes
  <2> QED BY <2>1, <2>2
<1> HIDE DEF idled
<1>7. CASE PushMessage(c, t)
  <2>1. /\ s.worker = "push" /\ Len(q) < MessageBuffer /\ msgCh' = [msgCh EXCEPT ![c] = Append(q, s.held)]
        /\ Idled(c, t) /\ UNCHANGED scanVars /\ UNCHANGED <<watch, sent>>
    BY <1>7 DEF PushMessage
  <2>2. s.held \in OwnEvents
    BY <1>1, <2>1 DEF OwnEvents, WsTopics
  <2>3. Append(q, s.held) \in Seq(OwnEvents) /\ Len(Append(q, s.held)) = Len(q) + 1
    BY <1>1, <2>2, AppendProperties
  <2>4. Len(Append(q, s.held)) <= MessageBuffer
    BY <1>3, <2>1, <2>3
  <2> QED BY <1>1, <1>5, <1>6, <2>1, <2>3, <2>4, WorkerMoves
<1>8. CASE DropMessage(c, t)
  <2>1. Idled(c, t) /\ UNCHANGED scanVars /\ UNCHANGED <<watch, msgCh, sent>>
    BY <1>8 DEF DropMessage
  <2>2. msgCh' = [msgCh EXCEPT ![c] = q]
    BY <1>2, <2>1
  <2> QED BY <1>1, <1>5, <1>6, <2>1, <2>2, WorkerMoves
<1>9. CASE WorkerEnds(c, t)
  <2>1. sub' = [sub EXCEPT ![c] = [@ EXCEPT ![t] = NoSub]] /\ UNCHANGED scanVars /\ UNCHANGED <<watch, msgCh, sent>>
    BY <1>9 DEF WorkerEnds
  <2>2. NoSub \in SubRecords(t) /\ NoSub.worker = "none" /\ NoSub.queue = <<>>
    BY EmptySeq DEF SubRecords, NoSub
  <2>3. Len(NoSub.queue) <= BusBuffer
    BY <1>3, <2>2, EmptySeq
  <2>4. msgCh' = [msgCh EXCEPT ![c] = q]
    BY <1>2, <2>1
  <2> QED BY <1>1, <2>1, <2>2, <2>3, <2>4, WorkerMoves
<1> QED BY <1>4, <1>7, <1>8, <1>9 DEF WsWorkerStep

LEMMA StreamNextKeepsInv ==
  ASSUME ProgressAssumption, StreamInv, [WsNext]_wsVars PROVE StreamInv'
<1>1. ASSUME UNCHANGED wsVars PROVE StreamInv'
  <2>1. UNCHANGED scanVars /\ UNCHANGED <<watch, sub, msgCh, sent>>
    BY <1>1 DEF wsVars, scanVars
  <2>2. ScanCounts' /\ recorded <= recorded'
    BY <2>1, Still DEF StreamInv, ScanCounts, scanVars
  <2> QED BY <2>1, <2>2, QuietKeepsInv DEF scanVars
<1>2. ASSUME NEW c \in Watchers, Refuse(c) \/ Accept(c) \/ Leave(c) \/ HandlerStep(c) PROVE StreamInv'
  BY <1>2, WatchMovesKeepsInv, SubscribeKeepsInv, ReceiveKeepsInv, WriteKeepsInv, ReturnKeepsInv DEF HandlerStep
<1> QED BY <1>1, <1>2, ScanKeepsInv, ForeignKeepsInv, WorkerKeepsInv DEF WsNext

\* p is q with e behind it, and without its first k events.
Shifted(p, q, e, k) ==
  /\ k = 1 => Len(q) = BusBuffer
  /\ Len(p) \in Nat /\ Len(p) = Len(q) - k + 1 /\ p[Len(p)] = e
  /\ \A i \in Nat : 1 <= i /\ i <= Len(q) - k => p[i] = q[i + k]

\* A full queue loses its oldest event, any other none.
LEMMA QueueShifts ==
  ASSUME ProgressAssumption, NEW S, NEW q \in Seq(S), Len(q) <= BusBuffer, NEW e \in S,
         NEW p, p = Append(IF Len(q) = BusBuffer THEN Tail(q) ELSE q, e)
  PROVE  \E k \in {0, 1} : Shifted(p, q, e, k)
<1> DEFINE k == IF Len(q) = BusBuffer THEN 1 ELSE 0
           r == IF Len(q) = BusBuffer THEN Tail(q) ELSE q
<1>1. BusBuffer \in Nat \ {0} /\ Len(q) \in Nat
  BY LenProperties DEF ProgressAssumption
<1>2. r \in Seq(S) /\ Len(r) = Len(q) - k /\ \A i \in 1..(Len(q) - k) : r[i] = q[i + k]
  <2>1. CASE Len(q) = BusBuffer
    <3>1. q # <<>>
      BY <1>1, <2>1, EmptySeq
    <3>2. Tail(q) \in Seq(S) /\ Len(Tail(q)) = Len(q) - 1 /\ \A i \in 1..Len(Tail(q)) : Tail(q)[i] = q[i + 1]
      BY <3>1, HeadTailProperties
    <3> QED BY <1>1, <2>1, <3>2
  <2>2. CASE Len(q) # BusBuffer
    BY <1>1, <2>2
  <2> QED BY <2>1, <2>2
<1>3. k \in {0, 1} /\ (k = 1 => Len(q) = BusBuffer) /\ p = Append(r, e)
  OBVIOUS
<1> HIDE DEF r, k
<1>4. /\ Len(Append(r, e)) = Len(r) + 1 /\ Append(r, e)[Len(r) + 1] = e
      /\ \A i \in 1..Len(r) : Append(r, e)[i] = r[i]
  BY <1>2, AppendProperties
<1>5. Len(p) \in Nat /\ Len(p) = Len(q) - k + 1 /\ p[Len(p)] = e
  BY <1>1, <1>2, <1>3, <1>4
<1>6. ASSUME NEW i \in Nat, 1 <= i, i <= Len(q) - k PROVE p[i] = q[i + k]
  <2>1. i \in 1..(Len(q) - k)
    BY <1>1, <1>3, <1>6
  <2> QED BY <1>2, <1>3, <1>4, <2>1
<1>7. Shifted(p, q, e, k)
  BY <1>3, <1>5, <1>6 DEF Shifted
<1> QED BY <1>3, <1>7

\* What is published: where it goes, and which end it pushes out.
LEMMA PublishedEnds ==
  ASSUME StreamInv, NEW t \in WsTopics, NEW e, PublishWs(t, e)
  PROVE  /\ \A c \in Watchers : sub'[c]["completed"] = IF t = "completed" THEN Enqueued(sub[c]["completed"], e)
                                                     ELSE sub[c]["completed"]
         /\ endLost' = endLost \cup {c \in Watchers : HoldsEnd(sub[c]["completed"]) /\ ~HoldsEnd(sub'[c]["completed"])}
<1>1. sub' = [c \in Watchers |-> [sub[c] EXCEPT ![t] = Enqueued(@, e)]]
  BY DEF PublishWs
<1>2. \A c \in Watchers : DOMAIN sub[c] = WsTopics
  BY DEF StreamInv, StreamTypes
<1>3. \A c \in Watchers : sub'[c]["completed"] = IF t = "completed" THEN Enqueued(sub[c]["completed"], e)
                                              ELSE sub[c]["completed"]
  BY <1>1, <1>2 DEF WsTopics
<1> QED BY <1>3 DEF PublishWs

\* The queue of ends before and after the publication of one.
LEMMA EndQueue ==
  ASSUME ProgressAssumption, StreamInv, NEW c \in Watchers
  PROVE  /\ Ends(c) \in Seq(Told("completed")) /\ Len(Ends(c)) \in Nat /\ Len(Ends(c)) <= BusBuffer
         /\ DOMAIN Ends(c) = 1..Len(Ends(c))
<1>1. SubOf(c, "completed")
  BY DEF StreamInv, WsTopics
<1> QED BY <1>1, LenProperties DEF SubOf, SubRecords, Ends

LEMMA ForeignKeepsEnd ==
  ASSUME ProgressAssumption, StreamInv, EndInv, NEW t \in WsTopics, ForeignEvent(t) PROVE EndInv'
<1> DEFINE e == [kind |-> t, own |-> FALSE, count |-> 0]
<1>1. foreign \in Nat /\ foreign' = foreign + 1 /\ PublishWs(t, e) /\ BusBuffer \in Nat \ {0}
  BY DEF ForeignEvent, StreamInv, ScanCounts, ProgressAssumption
<1>2. e.own = FALSE /\ (t = "completed" => e \in Told("completed"))
  BY DEF Told, Messages, WsTopics, ProgressAssumption
<1> HIDE DEF e
<1>3. ASSUME NEW c \in Watchers
      PROVE  FollowedByOthers(c)' /\ (HoldsEnd(sub[c]["completed"]) /\ ~HoldsEnd(sub'[c]["completed"]) => foreign' >= BusBuffer)
  <2> DEFINE q == Ends(c)  p == Append(IF Len(q) = BusBuffer THEN Tail(q) ELSE q, e)
  <2>1. FollowedByOthers(c) /\ q \in Seq(Told("completed")) /\ Len(q) \in Nat /\ Len(q) <= BusBuffer /\ DOMAIN q = 1..Len(q)
    BY EndQueue DEF EndInv
  <2>2. CASE t # "completed" \/ ~ sub[c]["completed"].listed
    <3>1. sub'[c]["completed"] = sub[c]["completed"]
      BY <1>1, <2>2, PublishedEnds DEF Enqueued
    <3> QED BY <1>1, <2>1, <3>1 DEF FollowedByOthers, Ends
  <2>3. CASE t = "completed" /\ sub[c]["completed"].listed
    <3>1. sub'[c]["completed"] = [sub[c]["completed"] EXCEPT !.queue = p]
      BY <1>1, <2>3, PublishedEnds DEF Enqueued, Ends
    <3>2. SubOf(c, "completed")
      BY DEF StreamInv, WsTopics
    <3>3. Ends(c)' = p
      BY <3>1, <3>2 DEF SubOf, SubRecords, Ends
    <3>4. p \in Seq(Told("completed"))
      BY <1>2, <2>1, <2>3, QueueGrows
    <3>5. DOMAIN p = 1..Len(p)
      BY <3>4, LenProperties
    <3>6. p = Append(IF Len(q) = BusBuffer THEN Tail(q) ELSE q, e)
      OBVIOUS
    <3> HIDE DEF p, q
    <3>7. PICK k \in {0, 1} : Shifted(p, q, e, k)
      BY <1>2, <2>1, <2>3, <3>6, QueueShifts
    <3>8. (k = 1 => Len(q) = BusBuffer) /\ Len(p) \in Nat /\ Len(p) = Len(q) - k + 1 /\ p[Len(p)] = e
      BY <3>7 DEF Shifted
    <3>9. /\ k \in Nat /\ k <= 1 /\ Len(p) \in Nat /\ Len(p) = Len(q) - k + 1
          /\ \A i \in Nat : 1 <= i /\ i <= Len(q) - k => p[i] = q[i + k]
      BY <3>7 DEF Shifted
    <3>10. ASSUME NEW i \in 1..Len(p), IsEnd(p[i]) PROVE Len(p) - i <= foreign + 1
      <4>1. i # Len(p)
        BY <1>2, <3>8, <3>10 DEF IsEnd
      <4>2. i \in Nat /\ 1 <= i /\ i <= Len(q) - k /\ i + k \in 1..Len(q)
        BY <2>1, <3>9, <4>1
      <4>3. IsEnd(q[i + k])
        BY <3>9, <3>10, <4>2
      <4>4. Len(q) - (i + k) <= foreign
        BY <2>1, <4>2, <4>3 DEF FollowedByOthers, q
      <4> QED BY <1>1, <2>1, <3>9, <4>2, <4>4
    <3>11. ASSUME NEW i \in 1..Len(q), IsEnd(q[i]), \A j \in 1..Len(p) : ~IsEnd(p[j]) PROVE foreign + 1 >= BusBuffer
      <4>1. k = 1 /\ i = 1
        <5>1. ASSUME i > k PROVE FALSE
          <6>1. i - k \in Nat /\ 1 <= i - k /\ i - k <= Len(q) - k /\ i - k \in 1..Len(p) /\ (i - k) + k = i
            BY <2>1, <3>9, <5>1
          <6>2. p[i - k] = q[i]
            BY <3>9, <6>1
          <6> QED BY <3>11, <6>1, <6>2
        <5> QED BY <2>1, <3>9, <5>1
      <4>2. Len(q) - 1 <= foreign
        BY <2>1, <3>11, <4>1 DEF FollowedByOthers, q
      <4> QED BY <1>1, <2>1, <3>8, <4>1, <4>2
    <3>12. FollowedByOthers(c)'
      BY <1>1, <3>3, <3>10 DEF FollowedByOthers, IsEnd
    <3>13. HoldsEnd(sub[c]["completed"]) => \E i \in 1..Len(q) : IsEnd(q[i])
      BY <2>1 DEF HoldsEnd, IsEnd, q, Ends
    <3>14. (\E i \in 1..Len(p) : IsEnd(p[i])) => HoldsEnd(sub'[c]["completed"])
      BY <3>3, <3>5 DEF HoldsEnd, IsEnd, Ends
    <3> QED BY <1>1, <3>11, <3>12, <3>13, <3>14
  <2> QED BY <2>2, <2>3
<1>4. EndIsLostToOthers'
  <2>1. endLost # {} => foreign' >= BusBuffer
    BY <1>1 DEF EndInv, EndIsLostToOthers
  <2> QED BY <1>1, <1>3, <2>1, PublishedEnds DEF EndIsLostToOthers
<1> QED BY <1>3, <1>4 DEF EndInv

\* The scan's own events: an end is published once, and pushes out none.
LEMMA ScanKeepsEnd ==
  ASSUME ProgressAssumption, StreamInv, EndInv, ScanStep PROVE EndInv'
<1>1. CASE Dispatch \/ RecordProgress \/ RecordFails \/ FinishSilently
  BY <1>1 DEF Dispatch, RecordProgress, RecordFails, FinishSilently, EndInv, EndIsLostToOthers, FollowedByOthers, Ends
<1>2. ASSUME NEW n \in unpublished, PublishProgress(n) PROVE EndInv'
  <2>1. PublishWs("progress", WsMessage("progress", n)) /\ foreign' = foreign /\ "progress" \in WsTopics
    BY <1>2 DEF PublishProgress, WsTopics
  <2>2. (\A c \in Watchers : sub'[c]["completed"] = sub[c]["completed"]) /\ endLost' = endLost
    BY <2>1, PublishedEnds
  <2> QED BY <2>1, <2>2 DEF EndInv, EndIsLostToOthers, FollowedByOthers, Ends
<1>3. CASE PublishCompleted
  <2> DEFINE e == WsMessage("completed", recorded)
  <2>1. /\ PublishWs("completed", e) /\ foreign' = foreign /\ ~ scanEnded /\ "completed" \in WsTopics
        /\ recorded \in Nat /\ foreign \in Nat
    BY <1>3 DEF PublishCompleted, WsTopics, StreamInv, ScanCounts
  <2>2. e \in Messages
    BY DEF WsMessage, Messages, WsTopics, StreamInv, ScanCounts, ProgressAssumption
  <2> HIDE DEF e
  <2>3. ASSUME NEW c \in Watchers PROVE ~HoldsEnd(sub[c]["completed"]) /\ FollowedByOthers(c)'
    <3> DEFINE q == Ends(c)  p == Append(IF Len(q) = BusBuffer THEN Tail(q) ELSE q, e)
    <3>1. q \in Seq(Told("completed")) /\ Len(q) \in Nat /\ Len(q) <= BusBuffer /\ DOMAIN q = 1..Len(q)
      BY EndQueue
    <3>2. \A x \in Told("completed") : x \in Messages /\ ~IsEnd(x)
      BY <2>1 DEF Told, IsEnd
    <3>3. \A i \in 1..Len(q) : q[i] \in Told("completed")
      BY <3>1, ElementOfSeq
    <3>4. ~HoldsEnd(sub[c]["completed"])
      BY <3>1, <3>2, <3>3 DEF HoldsEnd, IsEnd, Ends
    <3>5. CASE ~ sub[c]["completed"].listed
      <4>1. sub'[c]["completed"] = sub[c]["completed"]
        BY <2>1, <3>5, PublishedEnds DEF Enqueued
      <4> QED BY <2>1, <3>2, <3>3, <3>4, <4>1 DEF FollowedByOthers, Ends, IsEnd
    <3>6. CASE sub[c]["completed"].listed
      <4>1. sub'[c]["completed"] = [sub[c]["completed"] EXCEPT !.queue = p]
        BY <2>1, <3>6, PublishedEnds DEF Enqueued, Ends
      <4>2. SubOf(c, "completed")
        BY DEF StreamInv, WsTopics
      <4>3. Ends(c)' = p
        BY <4>1, <4>2 DEF SubOf, SubRecords, Ends
      <4>4. q \in Seq(Messages)
        BY <3>1, <3>2, SeqMonotonic
      <4>5. p = Append(IF Len(q) = BusBuffer THEN Tail(q) ELSE q, e)
        OBVIOUS
      <4> HIDE DEF p, q
      <4>6. PICK k \in {0, 1} : Shifted(p, q, e, k)
        BY <2>2, <3>1, <4>4, <4>5, QueueShifts
      <4>7. /\ k \in {0, 1} /\ Len(p) \in Nat /\ Len(p) = Len(q) - k + 1
            /\ \A i \in Nat : 1 <= i /\ i <= Len(q) - k => p[i] = q[i + k]
        BY <4>6 DEF Shifted
      <4>8. ASSUME NEW i \in 1..Len(p), IsEnd(p[i]) PROVE Len(p) - i <= foreign
        <5>1. CASE i <= Len(q) - k
          <6>1. i \in Nat /\ i + k \in 1..Len(q) /\ p[i] = q[i + k]
            BY <3>1, <4>7, <5>1
          <6> QED BY <3>2, <3>3, <4>8, <6>1
        <5>2. CASE i = Len(p)
          BY <2>1, <3>1, <4>7, <5>2
        <5> QED BY <3>1, <4>7, <5>1, <5>2
      <4>9. FollowedByOthers(c)'
        BY <2>1, <4>3, <4>8 DEF FollowedByOthers, IsEnd
      <4> QED BY <3>4, <4>9
    <3> QED BY <3>5, <3>6
  <2>4. endLost' = endLost
    BY <2>1, <2>3, PublishedEnds
  <2> QED BY <2>1, <2>3, <2>4 DEF EndInv, EndIsLostToOthers
<1> QED BY <1>1, <1>2, <1>3 DEF ScanStep

\* A worker takes the first of the queue, or leaves it; a subscription begins with none.
LEMMA WorkerKeepsEnd ==
  ASSUME ProgressAssumption, StreamInv, EndInv, NEW c \in Watchers, NEW t \in WsTopics, WsWorkerStep(c, t) PROVE EndInv'
<1>1. UNCHANGED scanVars /\ \A d \in Watchers \ {c} : sub'[d] = sub[d]
  BY DEF WsWorkerStep, TakeEvent, PushMessage, DropMessage, WorkerEnds, Idled, StreamInv, StreamTypes
<1>2. foreign' = foreign /\ endLost' = endLost /\ foreign \in Nat
  BY <1>1 DEF scanVars, StreamInv, ScanCounts
<1>3. \A d \in Watchers \ {c} : FollowedByOthers(d)'
  BY <1>1, <1>2 DEF EndInv, FollowedByOthers, Ends
<1> DEFINE q == Ends(c)
<1>4. FollowedByOthers(c) /\ q \in Seq(Told("completed")) /\ Len(q) \in Nat
  BY EndQueue DEF EndInv
<1>5. DOMAIN sub[c] = WsTopics /\ DOMAIN sub = Watchers /\ SubOf(c, t)
  BY DEF StreamInv, StreamTypes
<1>6. \/ Ends(c)' = q
      \/ q # <<>> /\ Ends(c)' = Tail(q)
      \/ Ends(c)' = <<>>
  <2>1. CASE TakeEvent(c, t)
    BY <1>5, <2>1 DEF TakeEvent, Ends, SubOf, SubRecords, WsTopics
  <2>2. CASE PushMessage(c, t) \/ DropMessage(c, t)
    BY <1>5, <2>2 DEF PushMessage, DropMessage, Idled, Ends, SubOf, SubRecords, WsTopics
  <2>3. CASE WorkerEnds(c, t)
    BY <1>5, <2>3 DEF WorkerEnds, NoSub, Ends, WsTopics
  <2> QED BY <2>1, <2>2, <2>3 DEF WsWorkerStep
<1>7. FollowedByOthers(c)'
  <2>1. CASE Ends(c)' = q
    BY <1>2, <1>4, <2>1 DEF FollowedByOthers, IsEnd
  <2>2. CASE q # <<>> /\ Ends(c)' = Tail(q)
    <3>1. Len(Tail(q)) = Len(q) - 1 /\ \A i \in 1..Len(Tail(q)) : Tail(q)[i] = q[i + 1]
      BY <1>4, <2>2, HeadTailProperties
    <3> HIDE DEF q
    <3>2. ASSUME NEW i \in 1..Len(Tail(q)), IsEnd(Tail(q)[i]) PROVE Len(Tail(q)) - i <= foreign
      <4>1. i + 1 \in 1..Len(q) /\ IsEnd(q[i + 1])
        BY <1>4, <3>1, <3>2
      <4>2. Len(q) - (i + 1) <= foreign
        BY <1>4, <4>1 DEF FollowedByOthers, q
      <4> QED BY <1>2, <1>4, <3>1, <4>2
    <3> QED BY <1>2, <2>2, <3>2 DEF FollowedByOthers, IsEnd
  <2>3. CASE Ends(c)' = <<>>
    BY <2>3, EmptySeq DEF FollowedByOthers
  <2> QED BY <1>6, <2>1, <2>2, <2>3
<1> QED BY <1>2, <1>3, <1>7 DEF EndInv, EndIsLostToOthers

LEMMA HandlerKeepsEnd ==
  ASSUME ProgressAssumption, StreamInv, EndInv, NEW c \in Watchers, Refuse(c) \/ Accept(c) \/ Leave(c) \/ HandlerStep(c)
  PROVE  EndInv'
<1>1. UNCHANGED scanVars
  BY DEF Refuse, Accept, Leave, HandlerStep, SubscribeProgress, SubscribeCompleted, SubscribeWs, ReadCtxDone, Receive,
         Write, WriteFails, Return
<1>2. foreign' = foreign /\ endLost' = endLost
  BY <1>1 DEF scanVars
<1>3. DOMAIN sub = Watchers /\ DOMAIN sub[c] = WsTopics /\ SubOf(c, "completed") /\ SubOf(c, "progress")
  BY DEF StreamInv, StreamTypes, WsTopics
<1>4. ASSUME NEW d \in Watchers PROVE Ends(d)' = Ends(d) \/ Ends(d)' = <<>>
  <2>1. CASE SubscribeProgress(c) \/ SubscribeCompleted(c)
    <3> DEFINE b == [NoSub EXCEPT !.listed = TRUE, !.worker = "idle"]
    <3>1. b.queue = <<>>
      BY DEF NoSub
    <3>2. PICK t \in WsTopics : sub' = [sub EXCEPT ![c] = [@ EXCEPT ![t] = b]]
      BY <2>1 DEF SubscribeProgress, SubscribeCompleted, SubscribeWs, WsTopics
    <3> HIDE DEF b
    <3>3. sub'[d]["completed"] = sub[d]["completed"] \/ sub'[d]["completed"] = b
      BY <1>3, <3>2
    <3> QED BY <3>1, <3>3 DEF Ends
  <2>2. CASE Return(c)
    BY <1>3, <2>2 DEF Return, Ends, SubOf, SubRecords, WsTopics
  <2>3. CASE Refuse(c) \/ Accept(c) \/ Leave(c) \/ ReadCtxDone(c) \/ Receive(c) \/ Write(c) \/ WriteFails(c)
    BY <2>3 DEF Refuse, Accept, Leave, ReadCtxDone, Receive, Write, WriteFails, Ends
  <2> QED BY <2>1, <2>2, <2>3 DEF HandlerStep
<1>5. ASSUME NEW d \in Watchers PROVE FollowedByOthers(d)'
  <2>1. CASE Ends(d)' = Ends(d)
    BY <1>2, <2>1 DEF EndInv, FollowedByOthers, IsEnd
  <2>2. CASE Ends(d)' = <<>>
    BY <2>2, EmptySeq DEF FollowedByOthers
  <2> QED BY <1>4, <2>1, <2>2
<1> QED BY <1>2, <1>5 DEF EndInv, EndIsLostToOthers

LEMMA EndNextKeepsInv ==
  ASSUME ProgressAssumption, StreamInv, EndInv, [WsNext]_wsVars PROVE EndInv'
<1>1. CASE UNCHANGED wsVars
  BY <1>1 DEF wsVars, EndInv, EndIsLostToOthers, FollowedByOthers, Ends
<1> QED BY <1>1, ScanKeepsEnd, ForeignKeepsEnd, WorkerKeepsEnd, HandlerKeepsEnd DEF WsNext

LEMMA EndBegins == ASSUME ProgressAssumption, WsInit PROVE EndInv
<1>1. \A c \in Watchers : Ends(c) = <<>>
  BY DEF WsInit, Ends, NoSub, WsTopics
<1>2. \A c \in Watchers : FollowedByOthers(c)
  BY <1>1, EmptySeq DEF FollowedByOthers
<1> QED BY <1>2 DEF EndInv, EndIsLostToOthers, WsInit

LEMMA StreamBegins == ASSUME ProgressAssumption, WsInit PROVE StreamInv
<1>1. /\ Len(<<>>) = 0 /\ \A S : <<>> \in Seq(S)
  BY EmptySeq
<1>2. ScanCounts
  <2>1. scanEnded \in BOOLEAN /\ ~ scanEnded
    BY Zenon DEF WsInit
  <2>2. dispatched = 0 /\ busy = 0 /\ recorded = 0 /\ foreign = 0 /\ unpublished = {}
    BY DEF WsInit
  <2> QED BY <2>1, <2>2 DEF ScanCounts, ProgressAssumption
<1>3. \A c \in Watchers : ClientOf(c)
  BY <1>1 DEF WsInit, ClientOf, WatchRecords, ProgressAssumption
<1>4. \A c \in Watchers, t \in WsTopics : SubOf(c, t)
  BY <1>1 DEF WsInit, SubOf, SubRecords, NoSub, ProgressAssumption
<1>5. StreamTypes
  BY DEF WsInit, StreamTypes
<1> QED BY <1>2, <1>3, <1>4, <1>5 DEF StreamInv

LEMMA StreamInvIsSafe == ASSUME ProgressAssumption, StreamInv, EndInv PROVE StreamSafety
<1>1. \A t \in WsTopics : Told(t) \subseteq Messages /\ Own(t) \subseteq Messages
  BY DEF Told, Own
<1>2. OwnEvents \subseteq Messages
  BY <1>1 DEF OwnEvents, WsTopics
<1>3. \A e \in OwnEvents : e.own /\ e.count \in Nat /\ e.count <= recorded /\ (e.kind = "completed" => e.count = recorded)
  BY DEF OwnEvents, Own, Told, Messages
<1>4. WsTypeOK
  <2>1. \A c \in Watchers : /\ watch[c].msg \in Messages \cup {NoMessage} /\ sent[c] \in Seq(Messages)
                            /\ Len(msgCh[c]) <= MessageBuffer
    BY <1>2, SeqMonotonic DEF StreamInv, ClientOf, WatchRecords
  <2>2. \A c \in Watchers, t \in WsTopics : Len(sub[c][t].queue) <= BusBuffer
    BY DEF StreamInv, SubOf
  <2>3. foreign \in 0..ForeignEvents
    BY DEF StreamInv, ScanCounts, ProgressAssumption
  <2> QED BY <2>1, <2>2, <2>3 DEF WsTypeOK, StreamInv, ScanCounts
<1>5. \A c \in Watchers : /\ \A i \in 1..Len(sent[c]) : sent[c][i] \in OwnEvents
                          /\ Len(sent[c]) \in Nat
  BY ElementOfSeq, LenProperties DEF StreamInv, ClientOf
<1>6. EndIsLast
  BY <1>3, <1>5 DEF EndIsLast, StreamInv, ClientOf
<1>7. EndCoversAll
  BY <1>3, <1>5 DEF EndCoversAll
<1> QED BY <1>4, <1>6, <1>7 DEF StreamSafety, EndInv

\* The stream of a scan's progress (scan_ws.go), for any clients, results, workers, events of
\* other sessions and capacities: a client is told of the scan it asked for and nothing after
\* its end, and the message of the end counts every result, though the two subscriptions
\* hand over independently, lose their oldest events when full, and are cancelled at any time;
\* and the end is lost only behind as many ends of other scans as a subscription holds.
THEOREM StreamsAreSafe == WsInit /\ [][WsNext]_wsVars => []StreamSafety
<1>1. WsInit => StreamInv /\ EndInv
  BY StreamBegins, EndBegins, ProgressAssumption
<1>2. (StreamInv /\ EndInv) /\ [WsNext]_wsVars => (StreamInv /\ EndInv)'
  BY StreamNextKeepsInv, EndNextKeepsInv, ProgressAssumption
<1>3. StreamInv /\ EndInv => StreamSafety
  BY StreamInvIsSafe, ProgressAssumption
<1> QED BY <1>1, <1>2, <1>3, PTL
================================================================================
