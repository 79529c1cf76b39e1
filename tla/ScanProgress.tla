----------------------------- MODULE ScanProgress -----------------------------
(***************************************************************************)
(* The WebSocket on which a client watches a scan: the handler subscribes  *)
(* to the bus twice, the worker of each subscription hands its events over *)
(* in a channel, and the handler writes them until the scan is completed   *)
(* or the client is gone.                                                  *)
(*                                                                         *)
(* The scan is a count of recorded results.  Its workers record one after  *)
(* the other but publish what they have recorded in any order; the session *)
(* is finalized when they have all returned, and nothing is published then *)
(* if finalize fails (ScanRun, EveryEndIsAnnounced).  The bus is one step per      *)
(* publication (EventBus has its detail).                                  *)
(***************************************************************************)
EXTENDS Naturals, Sequences, SequencesExt, FiniteSets

CONSTANTS
    Watchers,          \* clients, each connects once
    TotalResults,      \* robots times checks
    ScanWorkers,       \* workers of the scan
    BusBuffer,         \* capacity of a subscription
    MessageBuffer,     \* capacity of msgCh
    ForeignEvents      \* bound: events of other sessions

ASSUME ProgressAssumption ==
    /\ TotalResults \in Nat /\ ForeignEvents \in Nat
    /\ ScanWorkers \in Nat \ {0} /\ BusBuffer \in Nat \ {0} /\ MessageBuffer \in Nat \ {0}

VARIABLES
    dispatched,      \* checks handed to the workers of the scan
    busy,            \* workers that have not recorded their check yet
    recorded,        \* results of the session in the database
    unpublished,     \* counts recorded by workers that have yet to publish them
    scanEnded,       \* finalize has returned
    silent,          \* it has returned an error and published nothing
    foreign,         \* events of other sessions so far
    endLost,         \* clients whose subscription has evicted the end
    watch,           \* watch[c]: the handler of client c
    sub,             \* sub[c][topic]: its subscriptions
    msgCh,           \* msgCh[c]
    sent             \* sent[c]: what the client has got

wsVars == <<dispatched, busy, recorded, unpublished, scanEnded, silent, foreign, endLost, watch, sub, msgCh, sent>>
scanVars == <<dispatched, busy, recorded, unpublished, scanEnded, silent, foreign, endLost>>

WsTopics == {"progress", "completed"}
NoMessage == [kind |-> "none", own |-> FALSE, count |-> 0]
Messages == [kind : WsTopics, own : BOOLEAN, count : 0..TotalResults]
NoSub == [listed |-> FALSE, worker |-> "none", queue |-> <<>>, held |-> NoMessage]

WsInit ==
    /\ dispatched = 0 /\ busy = 0 /\ recorded = 0 /\ unpublished = {} /\ scanEnded = FALSE
    /\ silent = FALSE /\ foreign = 0 /\ endLost = {}
    /\ watch = [c \in Watchers |-> [pc |-> "dial", gone |-> FALSE, msg |-> NoMessage]]
    /\ sub = [c \in Watchers |-> [t \in WsTopics |-> NoSub]]
    /\ msgCh = [c \in Watchers |-> <<>>]
    /\ sent = [c \in Watchers |-> <<>>]

--------------------------------------------------------------------------------
(* The scan publishes. *)

\* Bug: the event for which the last place is left already pushes out another.
Enqueued_Early(s, e) ==
    IF ~s.listed THEN s
    ELSE [s EXCEPT !.queue = Append(IF Len(@) = BusBuffer - 1 /\ @ # <<>> THEN Tail(@) ELSE @, e)]
\* Of the subscriptions that are listed; a full one loses its oldest event.
Enqueued(s, e) ==
    IF ~s.listed THEN s
    ELSE [s EXCEPT !.queue = Append(IF Len(@) = BusBuffer THEN Tail(@) ELSE @, e)]
HoldsEnd(s) == \E i \in DOMAIN s.queue : s.queue[i].own /\ s.queue[i].kind = "completed"
PublishWs(t, e) ==
    /\ sub' = [c \in Watchers |-> [sub[c] EXCEPT ![t] = Enqueued(@, e)]]
    /\ endLost' = endLost \cup {c \in Watchers : HoldsEnd(sub[c]["completed"]) /\ ~HoldsEnd(sub'[c]["completed"])}
    /\ UNCHANGED <<watch, msgCh, sent>>
WsMessage(t, n) == [kind |-> t, own |-> TRUE, count |-> n]

\* A cancelled scan hands out no more checks, and may end before its last result.
Dispatch ==
    /\ ~scanEnded /\ dispatched < TotalResults
    /\ busy + Cardinality(unpublished) < ScanWorkers
    /\ dispatched' = dispatched + 1 /\ busy' = busy + 1
    /\ UNCHANGED <<recorded, unpublished, scanEnded, silent, foreign, endLost, watch, sub, msgCh, sent>>

RecordProgress ==
    /\ busy > 0 /\ busy' = busy - 1
    /\ recorded' = recorded + 1
    /\ unpublished' = unpublished \cup {recorded'}
    /\ UNCHANGED <<dispatched, scanEnded, silent, foreign, endLost, watch, sub, msgCh, sent>>

\* The transaction fails: the worker drops the result without a word.
RecordFails ==
    /\ busy > 0 /\ busy' = busy - 1
    /\ UNCHANGED <<dispatched, recorded, unpublished, scanEnded, silent, foreign, endLost, watch, sub, msgCh, sent>>

PublishProgress(n) ==
    /\ n \in unpublished
    /\ unpublished' = unpublished \ {n}
    /\ PublishWs("progress", WsMessage("progress", n))
    /\ UNCHANGED <<dispatched, busy, recorded, scanEnded, silent, foreign>>

\* Bug: the session is finalized while workers are still at it.
WorkersReturned_Any == busy \in Nat
WorkersReturned == busy = 0 /\ unpublished = {}
PublishCompleted ==
    /\ ~scanEnded /\ WorkersReturned
    /\ scanEnded' = TRUE
    /\ PublishWs("completed", WsMessage("completed", recorded))
    /\ UNCHANGED <<dispatched, busy, recorded, unpublished, silent, foreign>>
\* The session cannot be read or, a Cancel having come between, not be brought to its end.
FinishSilently ==
    /\ ~scanEnded /\ WorkersReturned
    /\ scanEnded' = TRUE /\ silent' = TRUE
    /\ UNCHANGED <<dispatched, busy, recorded, unpublished, foreign, endLost, watch, sub, msgCh, sent>>

ForeignEvent(t) ==
    /\ foreign < ForeignEvents /\ foreign' = foreign + 1
    /\ PublishWs(t, [kind |-> t, own |-> FALSE, count |-> 0])
    /\ UNCHANGED <<dispatched, busy, recorded, unpublished, scanEnded, silent>>

--------------------------------------------------------------------------------
(* The handler of a connection. *)

At(c, pc) == watch[c].pc = pc
Go(c, pc) == watch' = [watch EXCEPT ![c].pc = pc, ![c].msg = NoMessage]

\* The token is in a header or a query parameter, and looked at only here.
Refuse(c) ==
    /\ At(c, "dial") /\ Go(c, "refused")
    /\ UNCHANGED <<sub, msgCh, sent>> /\ UNCHANGED scanVars
Accept(c) ==
    /\ At(c, "dial") /\ Go(c, "subscribe")
    /\ UNCHANGED <<sub, msgCh, sent>> /\ UNCHANGED scanVars

SubscribeWs(c, t) ==
    /\ sub' = [sub EXCEPT ![c][t] = [NoSub EXCEPT !.listed = TRUE, !.worker = "idle"]]
    /\ UNCHANGED <<msgCh, sent>> /\ UNCHANGED scanVars
SubscribeProgress(c) == At(c, "subscribe") /\ SubscribeWs(c, "progress") /\ Go(c, "subscribeDone")
SubscribeCompleted(c) == At(c, "subscribeDone") /\ SubscribeWs(c, "completed") /\ Go(c, "serve")

\* The client closes, or sends what CloseRead does not expect.
Leave(c) ==
    /\ At(c, "serve") \/ At(c, "write")
    /\ watch' = [watch EXCEPT ![c].gone = TRUE]
    /\ UNCHANGED <<sub, msgCh, sent>> /\ UNCHANGED scanVars

ReadCtxDone(c) ==
    /\ At(c, "serve") /\ watch[c].gone
    /\ Go(c, "return")
    /\ UNCHANGED <<sub, msgCh, sent>> /\ UNCHANGED scanVars

Receive(c) ==
    /\ At(c, "serve") /\ msgCh[c] # <<>>
    /\ watch' = [watch EXCEPT ![c].pc = "write", ![c].msg = Head(msgCh[c])]
    /\ msgCh' = [msgCh EXCEPT ![c] = Tail(@)]
    /\ UNCHANGED <<sub, sent>> /\ UNCHANGED scanVars

\* Bug: the handler goes on after the message of the end.
AfterWrite_Serve(m) == IF m.kind = "none" THEN "return" ELSE "serve"
AfterWrite(m) == IF m.kind = "completed" THEN "return" ELSE "serve"

Write(c) ==
    /\ At(c, "write") /\ ~watch[c].gone
    /\ sent' = [sent EXCEPT ![c] = Append(@, watch[c].msg)]
    /\ Go(c, AfterWrite(watch[c].msg))
    /\ UNCHANGED <<sub, msgCh>> /\ UNCHANGED scanVars

\* The client is gone, or has not read for the five seconds of a write.
WriteFails(c) ==
    /\ At(c, "write")
    /\ Go(c, "return")
    /\ UNCHANGED <<sub, msgCh, sent>> /\ UNCHANGED scanVars

\* The deferred calls: both subscriptions and the context are cancelled.
Return(c) ==
    /\ At(c, "return")
    /\ Go(c, "closed")
    /\ sub' = [sub EXCEPT ![c] = [t \in WsTopics |-> [sub[c][t] EXCEPT !.listed = FALSE]]]
    /\ UNCHANGED <<msgCh, sent>> /\ UNCHANGED scanVars

--------------------------------------------------------------------------------
(* The worker of a subscription, and the handler function it calls. *)

\* Bug: the filter looks at the kind only.
Mine_Any(e) == e.kind \in WsTopics
Mine(e) == e.own

\* A subscription that is cancelled may still take an event (select has no order).
TakeEvent(c, t) ==
    LET s == sub[c][t] IN
    /\ s.worker = "idle" /\ s.queue # <<>>
    /\ sub' = [sub EXCEPT ![c][t].queue = Tail(@),
          ![c][t].worker = IF Mine(Head(s.queue)) THEN "push" ELSE "idle",
          ![c][t].held = IF Mine(Head(s.queue)) THEN Head(s.queue) ELSE NoMessage]
    /\ UNCHANGED <<watch, msgCh, sent>> /\ UNCHANGED scanVars

Idled(c, t) == sub' = [sub EXCEPT ![c][t].worker = "idle", ![c][t].held = NoMessage]

PushMessage(c, t) ==
    /\ sub[c][t].worker = "push" /\ Len(msgCh[c]) < MessageBuffer
    /\ msgCh' = [msgCh EXCEPT ![c] = Append(@, sub[c][t].held)]
    /\ Idled(c, t)
    /\ UNCHANGED <<watch, sent>> /\ UNCHANGED scanVars

\* Bug: a worker whose handler has returned waits for room in msgCh.
CtxDone_Never(c) == At(c, "closed") /\ watch[c].msg # NoMessage
CtxDone(c) == At(c, "closed")
DropMessage(c, t) ==
    /\ sub[c][t].worker = "push" /\ CtxDone(c)
    /\ Idled(c, t)
    /\ UNCHANGED <<watch, msgCh, sent>> /\ UNCHANGED scanVars

WorkerEnds(c, t) ==
    /\ sub[c][t].worker = "idle" /\ ~sub[c][t].listed
    /\ sub' = [sub EXCEPT ![c][t] = NoSub]
    /\ UNCHANGED <<watch, msgCh, sent>> /\ UNCHANGED scanVars

WsWorkerStep(c, t) == TakeEvent(c, t) \/ PushMessage(c, t) \/ DropMessage(c, t) \/ WorkerEnds(c, t)
HandlerStep(c) ==
    \/ SubscribeProgress(c) \/ SubscribeCompleted(c)
    \/ ReadCtxDone(c) \/ Receive(c) \/ Write(c) \/ WriteFails(c) \/ Return(c)
ScanStep ==
    \/ Dispatch \/ RecordProgress \/ RecordFails \/ PublishCompleted \/ FinishSilently
    \/ \E n \in unpublished : PublishProgress(n)

WsNext ==
    \/ ScanStep
    \/ \E t \in WsTopics : ForeignEvent(t)
    \/ \E c \in Watchers :
          \/ Refuse(c) \/ Accept(c) \/ Leave(c) \/ HandlerStep(c)
          \/ \E t \in WsTopics : WsWorkerStep(c, t)

\* Scans end (ScanRun), a write ends after five seconds at the latest, and a goroutine
\* that can go on does; a worker that is cancelled while events wait takes either
\* branch of its select, and sooner or later the one that ends it.
WsFairness ==
    /\ WF_wsVars(ScanStep)
    /\ \A c \in Watchers :
          /\ WF_wsVars(HandlerStep(c))
          /\ \A t \in WsTopics : WF_wsVars(WsWorkerStep(c, t)) /\ SF_wsVars(WorkerEnds(c, t))

--------------------------------------------------------------------------------
(* Properties. *)

WsTypeOK ==
    /\ recorded + busy <= dispatched /\ dispatched <= TotalResults /\ unpublished \subseteq 1..recorded
    /\ scanEnded \in BOOLEAN /\ foreign \in 0..ForeignEvents
    /\ \A c \in Watchers :
          /\ watch[c].msg \in Messages \cup {NoMessage}
          /\ sent[c] \in Seq(Messages)
          /\ Len(msgCh[c]) <= MessageBuffer
          /\ \A t \in WsTopics : Len(sub[c][t].queue) <= BusBuffer

\* A client is told of the scan it asked for, and nothing after its end.
EndIsLast ==
    \A c \in Watchers : \A i \in 1..Len(sent[c]) :
        sent[c][i].own /\ (sent[c][i].kind = "completed" => i = Len(sent[c]))

\* The message of the end counts every result that an earlier message counted and
\* every result that will ever be recorded, though the two subscriptions hand over
\* their events independently of each other.
EndCoversAll ==
    \A c \in Watchers : \A i \in 1..Len(sent[c]) :
        sent[c][i].kind = "completed" =>
            /\ sent[c][i].count = recorded
            /\ \A j \in 1..i : sent[c][j].count <= sent[c][i].count

\* The subscription of a slow client evicts the end of its scan only after as many other
\* scans have ended behind it as it has places.
EndIsLostToOthers == endLost # {} => foreign >= BusBuffer

\* A client that subscribed before the end is served to the end, unless finalize published
\* none or the end was evicted: its handler returns.
StreamsEnd ==
    \A c \in Watchers : (At(c, "serve") /\ ~scanEnded) ~> (At(c, "closed") \/ silent \/ c \in endLost)

\* The handler of a client that leaves returns in any case.
LeaversAreLetGo == \A c \in Watchers : watch[c].gone ~> At(c, "closed")

\* A connection that is closed leaves no goroutine of the bus behind.
WorkersAreReleased ==
    \A c \in Watchers : \A t \in WsTopics : At(c, "closed") ~> (sub[c][t].worker = "none")

\* Refuted, both expected by the head of scan_ws.go (line 12: one message of the end, then
\* the connection is closed).  The handler waits for an event that a failed finalize never
\* publishes, or that others pushed out, as long as the client stays; and so it does for a
\* client that connects when the scan has ended, or whose second subscription is late.
EveryStreamEnds == \A c \in Watchers : (At(c, "serve") /\ ~scanEnded) ~> At(c, "closed")
LateClientIsTold == \A c \in Watchers : At(c, "serve") ~> At(c, "closed")

\* Expected of a progress bar: it does not go back.  Two workers publish in the other
\* order than they recorded.
ProgressGrows ==
    \A c \in Watchers : \A i \in 1..Len(sent[c]) : \A j \in 1..i :
        sent[c][j].count <= sent[c][i].count

\* The stream of a scan's progress.
StreamsAreSound ==
    /\ [](WsTypeOK /\ EndIsLast /\ EndCoversAll /\ EndIsLostToOthers)
    /\ StreamsEnd
    /\ LeaversAreLetGo
    /\ WorkersAreReleased
================================================================================
