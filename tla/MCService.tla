------------------------------ MODULE MCService ------------------------------
(*****************************************************************************)
(* Webhook delivery, scan progress streams, the pool of SSH connections,    *)
(* the set-up of replication and the life of a server process: parts that   *)
(* share no state.  A behaviour is about one part, the others stand still,  *)
(* and fairness is that of its part.                                        *)
(*****************************************************************************)
EXTENDS WebhookDelivery, ScanProgress, SshPool, Lifecycle, ReplicationSetup

VARIABLE part     \* the part this behaviour is about

allVars ==
    <<part, webhookVars, wsVars, poolVars, lifeVars, setupVars>>

MCInit ==
    /\ part \in {"Webhook", "Progress", "Pool", "Lifecycle",
                 "Replication"}
    /\ WebhookInit
    /\ WsInit
    /\ PoolInit
    /\ LifeInit
    /\ part # "Lifecycle" => settings = (CHOOSE x \in Settings : TRUE)
    /\ SetupInit
    /\ part # "Replication" => sweepDryRun = FALSE

WebhookPart ==
    /\ part = "Webhook" /\ WebhookNext
    /\ UNCHANGED <<part, wsVars, poolVars, lifeVars, setupVars>>

ProgressPart ==
    /\ part = "Progress" /\ WsNext
    /\ UNCHANGED <<part, webhookVars, poolVars, lifeVars, setupVars>>

PoolPart ==
    /\ part = "Pool" /\ PoolNext
    /\ UNCHANGED <<part, webhookVars, wsVars, lifeVars, setupVars>>

LifecyclePart ==
    /\ part = "Lifecycle" /\ LifeNext
    /\ UNCHANGED <<part, webhookVars, wsVars, poolVars, setupVars>>

ReplicationPart ==
    /\ part = "Replication" /\ SetupNext
    /\ UNCHANGED <<part, webhookVars, wsVars, poolVars, lifeVars>>

MCNext == WebhookPart \/ ProgressPart \/ PoolPart \/ LifecyclePart \/
       ReplicationPart

MCSpec ==
    /\ MCInit /\ [][MCNext]_allVars
    /\ \A d \in Dispatchers : WF_webhookVars(part = "Webhook" /\ DispatchStep(d))
    /\ \A r \in Rows : WF_webhookVars(part = "Webhook" /\ Elapse(r))
    /\ WF_wsVars(part = "Progress" /\ ScanStep)
    /\ \A c \in Watchers :
          /\ WF_wsVars(part = "Progress" /\ HandlerStep(c))
          /\ \A t \in WsTopics : WF_wsVars(part = "Progress" /\ WsWorkerStep(c, t)) /\ SF_wsVars(part = "Progress" /\ WorkerEnds(c, t))
    /\ \A w \in Workers : SF_poolVars(part = "Pool" /\ ExecStep(w))
    /\ WF_poolVars(part = "Pool" /\ Sweep) /\ WF_poolVars(part = "Pool" /\ TcpGivesUp)
    /\ WF_lifeVars(part = "Lifecycle" /\ StopMoves)
    /\ WF_lifeVars(part = "Lifecycle" /\ DeadlineEnds)
    /\ WF_lifeVars(part = "Lifecycle" /\ BootCtxEnds)
    /\ WF_lifeVars(part = "Lifecycle" /\ Ends("event"))
    /\ WF_setupVars(part = "Replication" /\ Sweeping)

\* The process: a start that sets up replication loses no table and no slot in
\* use, and a stop ends what is under way and closes the database last.
StartsAndStopsAreClean ==
    /\ ReplicationIsSound
    /\ StopIsSound

\* Connections: those of clients that watch a scan, and those of the pool to
\* robots.
ConnectionsAreSound ==
    /\ StreamsAreSound
    /\ PoolIsSound
==============================================================================
