---------------------------- MODULE WebhookDelivery ----------------------------
(***************************************************************************)
(* Webhooks: EventBridge turns an event of the bus into one delivery row   *)
(* per endpoint that wants it, and the Dispatcher of each process polls    *)
(* the rows that are due, posts them and marks them.                       *)
(*                                                                         *)
(* Nothing claims a row: several dispatchers, one per process, may hold    *)
(* the same one in their batches.  A delay is a row that is not yet due;   *)
(* Elapse makes it due.  Bodies, signatures and the order of a batch are   *)
(* left out, and so is PingEndpoint, which writes nothing.                 *)
(***************************************************************************)
EXTENDS Naturals, FiniteSets

CONSTANTS
    Hooks,              \* endpoints
    Dispatchers,        \* processes
    HookEvents,         \* events of the bus, each of a topic of its own
    MaxRetryAttempts,   \* attempts before a delivery is dead
    MaxHookChanges,     \* bound: changes of endpoints
    MaxHookFaults       \* bound: failed transactions and crashes

ASSUME WebhookAssumption ==
    /\ MaxRetryAttempts \in Nat \ {0}
    /\ MaxHookChanges \in Nat
    /\ MaxHookFaults \in Nat
    /\ "none" \notin HookEvents

VARIABLES
    endpoint,   \* webhook_endpoints
    delivery,   \* webhook_deliveries, by event and endpoint
    pending,    \* events the bus still holds for the bridge
    tick,     \* tick[d]: the tick of dispatcher d
    posts,      \* history: posts made for a delivery, up to MaxRetryAttempts
    received,   \* history: deliveries answered with a 2xx status
    gaveUp,     \* history: deliveries marked dead without a post
    hookChanges, hookFaults

webhookVars ==
    <<endpoint, delivery, pending, tick, posts, received, gaveUp, hookChanges, hookFaults>>

\* An event stands for its topic as well.
Endpoints == [enabled : BOOLEAN, events : SUBSET HookEvents]
NoEndpoint == [enabled |-> FALSE, events |-> {"none"}]
Rows == HookEvents \X Hooks
NoDelivery == [attempts |-> 0, due |-> FALSE, succeeded |-> FALSE, exists |-> FALSE]
NoItem == <<>>
Idle == [pc |-> "idle", batch |-> {}, item |-> NoItem, status |-> "none"]

WebhookInit ==
    /\ endpoint \in [Hooks -> {[enabled |-> TRUE, events |-> {}]}]
    /\ delivery = [r \in Rows |-> NoDelivery]
    /\ pending = HookEvents
    /\ tick = [d \in Dispatchers |-> Idle]
    /\ posts = [r \in Rows |-> 0]
    /\ received = {}
    /\ gaveUp = {}
    /\ hookChanges = 0
    /\ hookFaults = 0

Fault == hookFaults < MaxHookFaults /\ hookFaults' = hookFaults + 1

--------------------------------------------------------------------------------
(* Endpoints. *)

Exists(h) == endpoint[h] # NoEndpoint

CreateEndpoint(h, ep) == ~Exists(h) /\ endpoint' = [endpoint EXCEPT ![h] = ep]
UpdateEndpoint(h, ep) == Exists(h) /\ endpoint' = [endpoint EXCEPT ![h] = ep]

\* Bug: the row goes although deliveries refer to it.
DeleteEndpoint_NoKey(h) ==
    /\ Exists(h)
    /\ endpoint' = [endpoint EXCEPT ![h] = NoEndpoint]
\* The foreign key of webhook_deliveries refuses an endpoint that has any, so it is not
\* true that deleting keeps the deliveries (handlers/webhook.go:250).
DeleteEndpoint(h) ==
    /\ Exists(h)
    /\ \A e \in HookEvents : ~delivery[<<e, h>>].exists
    /\ endpoint' = [endpoint EXCEPT ![h] = NoEndpoint]

--------------------------------------------------------------------------------
(* The API, one transaction per request. *)

Change ==
    /\ hookChanges < MaxHookChanges /\ hookChanges' = hookChanges + 1
    /\ UNCHANGED <<delivery, pending, tick, posts, received, gaveUp, hookFaults>>

\* The body of a request to create or to update: "enabled" may be left out.
HookRequests == [enabled : {"true", "false", "unset"}, events : SUBSET HookEvents]
\* An endpoint is enabled unless the request says that it is not, so an update that
\* leaves "enabled" out enables a disabled endpoint.
Asked(req) == [enabled |-> req.enabled # "false", events |-> req.events]

CreateWebhookEndpoint(h) ==
    Change /\ \E req \in HookRequests : CreateEndpoint(h, Asked(req))
UpdateWebhookEndpoint(h) ==
    Change /\ \E req \in HookRequests : UpdateEndpoint(h, Asked(req))
DeleteWebhookEndpoint(h) == Change /\ DeleteEndpoint(h)

--------------------------------------------------------------------------------
(* EventBridge.handle, and Enqueue in one transaction. *)

\* EndpointSubscribesTo: no list of events means all of them.
Subscribes(h, e) == endpoint[h].events = {} \/ e \in endpoint[h].events

Enqueue(e) ==
    /\ e \in pending
    /\ pending' = pending \ {e}
    /\ delivery' = [r \in Rows |->
          IF r[1] = e /\ Exists(r[2]) /\ endpoint[r[2]].enabled /\ Subscribes(r[2], e)
          THEN [NoDelivery EXCEPT !.exists = TRUE, !.due = TRUE] ELSE delivery[r]]
    /\ UNCHANGED <<endpoint, tick, posts, received, gaveUp, hookChanges, hookFaults>>

\* The transaction fails, or the bus drops the event: nobody asks for it again.
LoseEvent(e) ==
    /\ e \in pending /\ Fault
    /\ pending' = pending \ {e}
    /\ UNCHANGED <<endpoint, delivery, tick, posts, received, gaveUp, hookChanges>>

--------------------------------------------------------------------------------
(* Dispatcher. *)

\* ListDueDeliveries
Due == {r \in Rows : /\ delivery[r].exists /\ ~delivery[r].succeeded
                     /\ delivery[r].attempts < MaxRetryAttempts /\ delivery[r].due}

\* dispatchOnce: the batch keeps the rows as they were when it was listed.
ListDue(d) ==
    /\ tick[d].pc = "idle" /\ Due # {}
    /\ tick' = [tick EXCEPT ![d].pc = "next",
                                ![d].batch = {<<r, delivery[r].attempts>> : r \in Due}]
    /\ UNCHANGED <<endpoint, delivery, pending, posts, received, gaveUp, hookChanges, hookFaults>>

\* The batch is worked off, whatever becomes of a single delivery.
Take(d, item, next) ==
    LET rest == tick[d].batch \ {item} IN
    tick' = [tick EXCEPT ![d] =
        IF next.pc = "next" /\ rest = {} THEN Idle ELSE [next EXCEPT !.batch = rest]]
NextItem == [Idle EXCEPT !.pc = "next"]

\* Bug: the result is written over a success of another dispatcher.
MarkFailed_Reset(r, attempt, due) ==
    delivery' = [delivery EXCEPT ![r].attempts = attempt, ![r].due = due, ![r].succeeded = FALSE]
\* markFailed: attempt_count and next_attempt_at, whatever the row holds by now.
MarkFailed(r, attempt, due) ==
    delivery' = [delivery EXCEPT ![r].attempts = attempt, ![r].due = due]
MarkSucceeded(r, attempt) ==
    delivery' = [delivery EXCEPT ![r].attempts = attempt, ![r].succeeded = TRUE]

\* processOne, an endpoint that is disabled or cannot be read: dead at once.
GiveUp(d) ==
    /\ tick[d].pc = "next"
    /\ \E item \in tick[d].batch :
          /\ \/ ~endpoint[item[1][2]].enabled /\ UNCHANGED hookFaults
             \/ Fault
          /\ MarkFailed(item[1], MaxRetryAttempts, TRUE)
          /\ gaveUp' = gaveUp \cup {item[1]}
          /\ Take(d, item, NextItem)
    /\ UNCHANGED <<endpoint, pending, posts, received, hookChanges>>

\* postOnce: the endpoint receives the event and answers, or does not.
Post(d) ==
    /\ tick[d].pc = "next"
    /\ \E item \in tick[d].batch, status \in {"2xx", "error"} :
          /\ endpoint[item[1][2]].enabled
          /\ Take(d, item, [pc |-> "mark", batch |-> {}, item |-> item, status |-> status])
          /\ posts' = [posts EXCEPT ![item[1]] = IF @ = MaxRetryAttempts THEN @ ELSE @ + 1]
          /\ received' = IF status = "2xx" THEN received \cup {item[1]} ELSE received
    /\ UNCHANGED <<endpoint, delivery, pending, gaveUp, hookChanges, hookFaults>>

\* Bug: any answer counts as a success.
Delivered_Any(d) == tick[d].status \in {"2xx", "error"}
Delivered(d) == tick[d].status = "2xx"
\* Bug: a failed attempt is counted twice.
Attempt_Twice(d) == tick[d].item[2] + 2
\* Bug: a failed attempt is not counted.
Attempt_Free(d) == tick[d].item[2]
\* The count of the batch, not the row's.
Attempt(d) == tick[d].item[2] + 1

EndMark(d) ==
    tick' = [tick EXCEPT ![d] =
        IF @.batch = {} THEN Idle ELSE [@ EXCEPT !.pc = "next", !.item = NoItem, !.status = "none"]]

\* NextRetryDelay has a delay for every attempt, so a failed row is not due.
Mark(d) ==
    /\ tick[d].pc = "mark"
    /\ IF Delivered(d) THEN MarkSucceeded(tick[d].item[1], Attempt(d))
       ELSE MarkFailed(tick[d].item[1], Attempt(d), FALSE)
    /\ EndMark(d)
    /\ UNCHANGED <<endpoint, pending, posts, received, gaveUp, hookChanges, hookFaults>>

\* The transaction of the mark fails: only a line in the log knows of the post.
LoseMark(d) ==
    /\ tick[d].pc = "mark" /\ Fault
    /\ EndMark(d)
    /\ UNCHANGED <<endpoint, delivery, pending, posts, received, gaveUp, hookChanges>>

\* The process ends anywhere in its tick and starts again.
EndDispatcher(d) ==
    /\ tick[d] # Idle /\ Fault
    /\ tick' = [tick EXCEPT ![d] = Idle]
    /\ UNCHANGED <<endpoint, delivery, pending, posts, received, gaveUp, hookChanges>>

\* The delay of a row passes.
Elapse(r) ==
    /\ delivery[r].exists /\ ~delivery[r].due
    /\ delivery' = [delivery EXCEPT ![r].due = TRUE]
    /\ UNCHANGED <<endpoint, pending, tick, posts, received, gaveUp, hookChanges, hookFaults>>

DispatchStep(d) == ListDue(d) \/ GiveUp(d) \/ Post(d) \/ Mark(d)

WebhookNext ==
    \/ \E h \in Hooks :
          CreateWebhookEndpoint(h) \/ UpdateWebhookEndpoint(h) \/ DeleteWebhookEndpoint(h)
    \/ \E e \in HookEvents : Enqueue(e) \/ LoseEvent(e)
    \/ \E d \in Dispatchers : DispatchStep(d) \/ LoseMark(d) \/ EndDispatcher(d)
    \/ \E r \in Rows : Elapse(r)
WebhookSpec == WebhookInit /\ [][WebhookNext]_webhookVars

\* Dispatchers tick for ever and delays pass; endpoints may answer as they like.
WebhookFairness ==
    /\ \A d \in Dispatchers : WF_webhookVars(DispatchStep(d))
    /\ \A r \in Rows : WF_webhookVars(Elapse(r))

--------------------------------------------------------------------------------
(* Properties. *)

Attempts == 0..MaxRetryAttempts

\* Types, and what the foreign key keeps: a delivery's endpoint exists.
WebhookTypeOK ==
    /\ endpoint \in [Hooks -> Endpoints \cup {NoEndpoint}]
    /\ delivery \in [Rows -> [attempts : Attempts, due : BOOLEAN, succeeded : BOOLEAN,
                              exists : BOOLEAN]]
    /\ \A r \in Rows : delivery[r].exists => Exists(r[2])
    /\ \A d \in Dispatchers :
          /\ tick[d].batch \subseteq Rows \X Attempts
          /\ (tick[d].pc = "idle") = (tick[d] = Idle)
    /\ posts \in [Rows -> Attempts]

\* A delivery counts as delivered only when the endpoint has taken it, however many
\* dispatchers post it and whichever of them writes last.
SucceededWasReceived == \A r \in Rows : delivery[r].succeeded => r \in received

\* No late mark of another dispatcher takes a success back.
SuccessStays ==
    [][\A r \in Rows : delivery[r].succeeded => delivery'[r].succeeded]_webhookVars

\* Nobody gives up early: the count never runs ahead of the posts really made, unless
\* the endpoint was disabled or unreadable.
AttemptsWerePosted ==
    \A r \in Rows : delivery[r].attempts <= posts[r] \/ r \in gaveUp

Settled(r) == delivery[r].succeeded \/ delivery[r].attempts = MaxRetryAttempts
\* Every delivery is settled for good in the end, though several dispatchers write
\* each other's counts back: retries do not go on for ever.
DeliveriesSettle == \A r \in Rows : <>[](delivery[r].exists => Settled(r))

\* Expected by the comments at dispatcher.go:173 and 185: a delivery is dead before
\* its last attempt only when its endpoint is gone or disabled.
DeadLetterIsEarned ==
    [][\A r \in Rows :
          (delivery[r].attempts < MaxRetryAttempts /\ delivery'[r].attempts = MaxRetryAttempts)
              => posts[r] = MaxRetryAttempts \/ ~endpoint[r[2]].enabled]_webhookVars

\* What the table of deliveries says happened: a delivery that succeeded was
\* received, attempts were posted, and a success is not taken back.
DeliveriesAreSound ==
    /\ [](WebhookTypeOK /\ SucceededWasReceived /\ AttemptsWerePosted)
    /\ SuccessStays
================================================================================
