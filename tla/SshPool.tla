------------------------------- MODULE SshPool -------------------------------
(***************************************************************************)
(* The pool of SSH connections and the executor that takes them: workers   *)
(* of the scan orchestrator wait for a slot of the tenant and then for one *)
(* of the host, take an idle connection or dial, run a command and give    *)
(* the connection back; a keepalive goroutine drops what is dead, Close    *)
(* ends the pool, peers die or fall silent.                                *)
(*                                                                         *)
(* A connection is what it was dialled with: the credential that           *)
(* authenticated it and its state, "up", "dead" (a request on it fails) or *)
(* "silent" (a request waits until TCP gives up).  One tenant.             *)
(***************************************************************************)
EXTENDS Naturals, Sequences, FiniteSets

CONSTANTS
    Workers,
    Hosts,
    PerHostLimit, PerTenantLimit,
    DialMaxRetries,
    MaxCommands,      \* bound: commands started
    MaxRotations,     \* bound: rotations of a credential
    MaxPeerFaults,    \* bound: failing dials and peers that die, fall silent or expire
    ClosingPool       \* whether Close is called

ASSUME PoolAssumption ==
    /\ IsFiniteSet(Workers) /\ IsFiniteSet(Hosts)
    /\ PerHostLimit \in Nat \ {0} /\ PerTenantLimit \in Nat \ {0} /\ DialMaxRetries \in Nat
    /\ MaxCommands \in Nat /\ MaxRotations \in Nat /\ MaxPeerFaults \in Nat
    /\ ClosingPool \in BOOLEAN

VARIABLES
    keyOf,        \* keyOf[h]: the credential the rows give the robot at h
    exec,       \* exec[w]: a call of sshExecutorAdapter.Exec
    hostSem,      \* hostSem[h]: taken slots
    tenantSem,    \* taken slots
    idle,         \* idle[<<h, c>>]: the stack of idle connections, its top last
    poolClosed,       \* pool.closed
    sweeping,     \* evictExpiredAndDead holds pool.mu
    looked,       \* looked[<<h, c>>]: of its stack, connections the sweep has seen alive
    opened, ended,   \* connections dialled, connections closed
    started, rotations, peerFaults

poolVars == <<keyOf, exec, hostSem, tenantSem, idle, poolClosed, sweeping, looked, opened, ended,
              started, rotations, peerFaults>>
poolBounds == <<started, rotations, peerFaults>>

CredVersions == 0..MaxRotations
PoolKeys == Hosts \X CredVersions
Free == [at |-> "free"]
NewConn(c) == [auth |-> c, state |-> "up", expired |-> FALSE]

\* A worker that has passed the semaphores.
Holds(w) == exec[w].at \in {"take", "dial", "run", "release"}
HoldsTenant(w) == Holds(w) \/ exec[w].at = "wantHost"
Move(w, at) == exec' = [exec EXCEPT ![w].at = at]

PoolInit ==
    /\ keyOf = [h \in Hosts |-> 0]
    /\ exec = [w \in Workers |-> Free]
    /\ hostSem = [h \in Hosts |-> 0] /\ tenantSem = 0
    /\ idle = [k \in PoolKeys |-> <<>>]
    /\ poolClosed = FALSE /\ sweeping = FALSE /\ looked = [k \in PoolKeys |-> 0]
    /\ opened = 0 /\ ended = 0
    /\ started = 0 /\ rotations = 0 /\ peerFaults = 0

--------------------------------------------------------------------------------
(* Exec: the material is read, the pool is asked with the credential id the scan *)
(* was loaded with, which a rotation may since have replaced.                    *)

StartExec(w, h, c) ==
    /\ exec[w] = Free
    /\ started < MaxCommands
    /\ c \in 0..keyOf[h]
    /\ started' = started + 1
    /\ exec' = [exec EXCEPT ![w] = [at |-> "acquire", host |-> h, cred |-> c, auth |-> keyOf[h],
                                        tries |-> 0, conn |-> NewConn(0)]]
    /\ UNCHANGED <<keyOf, hostSem, tenantSem, idle, poolClosed, sweeping, looked, opened, ended, rotations, peerFaults>>

RotateKey(h) ==
    /\ rotations < MaxRotations
    /\ rotations' = rotations + 1
    /\ keyOf' = [keyOf EXCEPT ![h] = @ + 1]
    /\ UNCHANGED <<exec, hostSem, tenantSem, idle, poolClosed, sweeping, looked, opened, ended, started, peerFaults>>

\* The start of Acquire takes pool.mu.
Acquire(w) ==
    /\ exec[w].at = "acquire"
    /\ ~ sweeping
    /\ exec' = [exec EXCEPT ![w] = IF poolClosed THEN Free ELSE [@ EXCEPT !.at = "wantTenant"]]
    /\ UNCHANGED <<keyOf, hostSem, tenantSem, idle, poolClosed, sweeping, looked, opened, ended, poolBounds>>

TakeTenantSlot(w) ==
    /\ exec[w].at = "wantTenant"
    /\ tenantSem < PerTenantLimit
    /\ tenantSem' = tenantSem + 1
    /\ Move(w, "wantHost")
    /\ UNCHANGED <<keyOf, hostSem, idle, poolClosed, sweeping, looked, opened, ended, poolBounds>>

\* Bug: off by one, the last slot of a host is never given.
TakeHostSlot_OffByOne(w) ==
    LET h == exec[w].host IN
    /\ exec[w].at = "wantHost"
    /\ hostSem[h] + 1 < PerHostLimit
    /\ hostSem' = [hostSem EXCEPT ![h] = @ + 1]
    /\ Move(w, "take")
    /\ UNCHANGED <<keyOf, tenantSem, idle, poolClosed, sweeping, looked, opened, ended, poolBounds>>
TakeHostSlot(w) ==
    LET h == exec[w].host IN
    /\ exec[w].at = "wantHost"
    /\ hostSem[h] < PerHostLimit
    /\ hostSem' = [hostSem EXCEPT ![h] = @ + 1]
    /\ Move(w, "take")
    /\ UNCHANGED <<keyOf, tenantSem, idle, poolClosed, sweeping, looked, opened, ended, poolBounds>>

\* Bug: the tenant's slot is kept.
CancelWait_Keep(w) ==
    /\ exec[w].at \in {"wantTenant", "wantHost"}
    /\ exec' = [exec EXCEPT ![w] = Free]
    /\ UNCHANGED <<keyOf, hostSem, tenantSem, idle, poolClosed, sweeping, looked, opened, ended, poolBounds>>
\* Bug: a slot is given back that was not taken yet.
CancelWait_Give(w) ==
    /\ exec[w].at \in {"wantTenant", "wantHost"}
    /\ tenantSem' = tenantSem - 1
    /\ exec' = [exec EXCEPT ![w] = Free]
    /\ UNCHANGED <<keyOf, hostSem, idle, poolClosed, sweeping, looked, opened, ended, poolBounds>>
\* ctx ends while the worker waits.
CancelWait(w) ==
    /\ exec[w].at \in {"wantTenant", "wantHost"}
    /\ tenantSem' = IF HoldsTenant(w) THEN tenantSem - 1 ELSE tenantSem
    /\ exec' = [exec EXCEPT ![w] = Free]
    /\ UNCHANGED <<keyOf, hostSem, idle, poolClosed, sweeping, looked, opened, ended, poolBounds>>

\* Bug: connections are told apart by their address only.
IdleKeys_Host(h, c) == {k \in PoolKeys : k[1] = h}
\* idleKey
IdleKeys(h, c) == {<<h, c>>}

\* The connections on top of a stack that have expired, down to the first that has not.
StaleTop(stack, n) ==
    /\ \A j \in (Len(stack) - n + 1)..Len(stack) : stack[j].expired
    /\ n < Len(stack) => ~ stack[Len(stack) - n].expired

\* Bug: what idles is not taken up.
TakeIdle_Fresh(w) ==
    /\ exec[w].at = "take"
    /\ ~ sweeping
    /\ Move(w, "dial")
    /\ UNCHANGED <<keyOf, hostSem, tenantSem, idle, poolClosed, sweeping, looked, opened, ended, poolBounds>>
\* popIdle
TakeIdle(w) ==
    /\ exec[w].at = "take"
    /\ ~ sweeping
    /\ \E k \in IdleKeys(exec[w].host, exec[w].cred) : \E n \in 0..Len(idle[k]) :
         LET stack == idle[k]  left == Len(stack) - n IN
         /\ StaleTop(stack, n)
         /\ ended' = ended + n
         /\ \/ left = 0 /\ Move(w, "dial") /\ idle' = [idle EXCEPT ![k] = <<>>]
            \/ /\ left > 0
               /\ idle' = [idle EXCEPT ![k] = SubSeq(stack, 1, left - 1)]
               /\ exec' = [exec EXCEPT ![w].at = "run", ![w].conn = stack[left]]
    /\ UNCHANGED <<keyOf, hostSem, tenantSem, poolClosed, sweeping, looked, opened, poolBounds>>

\* dialWithBackoff: with the material that was read.
Dial(w) ==
    /\ exec[w].at = "dial"
    /\ opened' = opened + 1
    /\ exec' = [exec EXCEPT ![w].at = "run", ![w].conn = NewConn(exec[w].auth)]
    /\ UNCHANGED <<keyOf, hostSem, tenantSem, idle, poolClosed, sweeping, looked, ended, poolBounds>>

DialFails(w) ==
    LET h == exec[w].host IN
    /\ exec[w].at = "dial"
    /\ peerFaults < MaxPeerFaults
    /\ peerFaults' = peerFaults + 1
    /\ IF exec[w].tries < DialMaxRetries
       THEN exec' = [exec EXCEPT ![w].tries = @ + 1] /\ UNCHANGED <<hostSem, tenantSem>>
       ELSE /\ exec' = [exec EXCEPT ![w] = Free]
            /\ hostSem' = [hostSem EXCEPT ![h] = @ - 1]
            /\ tenantSem' = tenantSem - 1
    /\ UNCHANGED <<keyOf, idle, poolClosed, sweeping, looked, opened, ended, started, rotations>>

\* ExecOnClient: an answer, an error or a timeout; on a silent connection even the
\* timeout waits, for session.Run to return after session.Close.
RunCommand(w) ==
    /\ exec[w].at = "run"
    /\ exec[w].conn.state # "silent"
    /\ Move(w, "release")
    /\ UNCHANGED <<keyOf, hostSem, tenantSem, idle, poolClosed, sweeping, looked, opened, ended, poolBounds>>

\* Bug: what comes back after Close goes on the stack of a pool nobody empties.
PushIdle_Closed(k, conn) ==
    /\ idle' = [idle EXCEPT ![k] = Append(@, conn)]
    /\ UNCHANGED ended
PushIdle(k, conn) ==
    IF poolClosed
    THEN ended' = ended + 1 /\ UNCHANGED idle
    ELSE idle' = [idle EXCEPT ![k] = Append(@, conn)] /\ UNCHANGED ended

\* Bug: a connection that died is dropped, its slots with it.
Release_Dead(w) ==
    LET conn == exec[w].conn  k == <<exec[w].host, exec[w].cred>> IN
    /\ exec[w].at = "release"
    /\ conn.state # "silent"
    /\ conn.state = "up" => ~ sweeping
    /\ IF conn.state = "up" THEN PushIdle(k, [conn EXCEPT !.expired = FALSE])
                            ELSE ended' = ended + 1 /\ UNCHANGED idle
    /\ hostSem' = [hostSem EXCEPT ![exec[w].host] = @ - (IF conn.state = "up" THEN 1 ELSE 0)]
    /\ tenantSem' = tenantSem - (IF conn.state = "up" THEN 1 ELSE 0)
    /\ exec' = [exec EXCEPT ![w] = Free]
    /\ UNCHANGED <<keyOf, poolClosed, sweeping, looked, opened, poolBounds>>
\* release: isAlive is asked before the slots are given back.
Release(w) ==
    LET conn == exec[w].conn  k == <<exec[w].host, exec[w].cred>> IN
    /\ exec[w].at = "release"
    /\ conn.state # "silent"
    /\ conn.state = "up" => ~ sweeping
    /\ IF conn.state = "up" THEN PushIdle(k, [conn EXCEPT !.expired = FALSE])
                            ELSE ended' = ended + 1 /\ UNCHANGED idle
    /\ hostSem' = [hostSem EXCEPT ![exec[w].host] = @ - 1]
    /\ tenantSem' = tenantSem - 1
    /\ exec' = [exec EXCEPT ![w] = Free]
    /\ UNCHANGED <<keyOf, poolClosed, sweeping, looked, opened, poolBounds>>

--------------------------------------------------------------------------------
(* Keepalive, Close and the peers. *)

\* evictExpiredAndDead asks one connection after the other, with pool.mu held.
SweepBegin ==
    /\ ~ sweeping /\ ~ poolClosed
    /\ \E k \in PoolKeys : idle[k] # <<>>
    /\ sweeping' = TRUE
    /\ UNCHANGED <<keyOf, exec, hostSem, tenantSem, idle, poolClosed, looked, opened, ended, poolBounds>>

CloseAt(stack, i) == [j \in 1..(Len(stack) - 1) |-> IF j < i THEN stack[j] ELSE stack[j + 1]]
\* An expired connection is closed unasked; isAlive asks the others, and waits for a
\* silent one.  The stacks come in any order.
SweepConn(k) ==
    LET i == looked[k] + 1  conn == idle[k][i] IN
    /\ sweeping /\ looked[k] < Len(idle[k])
    /\ conn.expired \/ conn.state # "silent"
    /\ IF ~ conn.expired /\ conn.state = "up"
          THEN looked' = [looked EXCEPT ![k] = i] /\ UNCHANGED <<idle, ended>>
          ELSE idle' = [idle EXCEPT ![k] = CloseAt(idle[k], i)] /\ ended' = ended + 1 /\ UNCHANGED looked
    /\ UNCHANGED <<keyOf, exec, hostSem, tenantSem, poolClosed, sweeping, opened, poolBounds>>

SweepEnd ==
    /\ sweeping
    /\ \A k \in PoolKeys : looked[k] = Len(idle[k])
    /\ sweeping' = FALSE
    /\ looked' = [k \in PoolKeys |-> 0]
    /\ UNCHANGED <<keyOf, exec, hostSem, tenantSem, idle, poolClosed, opened, ended, poolBounds>>

Sweep == SweepEnd \/ \E k \in PoolKeys : SweepConn(k)

IdleConns == UNION {{k} \X DOMAIN idle[k] : k \in PoolKeys}
IdleCount == Cardinality(IdleConns)

ClosePool ==
    /\ ClosingPool /\ ~ poolClosed /\ ~ sweeping
    /\ poolClosed' = TRUE
    /\ idle' = [k \in PoolKeys |-> <<>>]
    /\ ended' = ended + IdleCount
    /\ UNCHANGED <<keyOf, exec, hostSem, tenantSem, sweeping, looked, opened, poolBounds>>

\* A peer dies or falls silent, or an idle connection passes IdleTimeout.
Harm(conn, what) ==
    IF what = "expired" THEN [conn EXCEPT !.expired = TRUE] ELSE [conn EXCEPT !.state = what]
IdleHarm(k, what) ==
    /\ peerFaults < MaxPeerFaults
    /\ \E j \in DOMAIN idle[k] :
         /\ idle[k][j].state = "up" /\ ~ idle[k][j].expired
         /\ idle' = [idle EXCEPT ![k][j] = Harm(idle[k][j], what)]
    /\ peerFaults' = peerFaults + 1
    /\ UNCHANGED <<keyOf, exec, hostSem, tenantSem, poolClosed, sweeping, looked, opened, ended, started, rotations>>
UsedHarm(w, what) ==
    /\ peerFaults < MaxPeerFaults
    /\ exec[w].at \in {"run", "release"} /\ exec[w].conn.state = "up"
    /\ exec' = [exec EXCEPT ![w].conn.state = what]
    /\ peerFaults' = peerFaults + 1
    /\ UNCHANGED <<keyOf, hostSem, tenantSem, idle, poolClosed, sweeping, looked, opened, ended, started, rotations>>

\* The kernel gives a silent peer up.
Heard(conn) == IF conn.state = "silent" THEN [conn EXCEPT !.state = "dead"] ELSE conn
TcpGivesUp ==
    /\ \/ \E k \in PoolKeys : \E j \in DOMAIN idle[k] : idle[k][j].state = "silent"
       \/ \E w \in Workers : exec[w].at \in {"run", "release"} /\ exec[w].conn.state = "silent"
    /\ idle' = [k \in PoolKeys |-> [j \in DOMAIN idle[k] |-> Heard(idle[k][j])]]
    /\ exec' = [w \in Workers |-> IF exec[w].at \in {"run", "release"}
                                    THEN [exec[w] EXCEPT !.conn = Heard(exec[w].conn)]
                                    ELSE exec[w]]
    /\ UNCHANGED <<keyOf, hostSem, tenantSem, poolClosed, sweeping, looked, opened, ended, poolBounds>>

ExecStep(w) ==
    Acquire(w) \/ TakeTenantSlot(w) \/ TakeHostSlot(w) \/ TakeIdle(w) \/ Dial(w) \/ RunCommand(w) \/ Release(w)

PoolNext ==
    \/ \E w \in Workers, h \in Hosts, c \in CredVersions : StartExec(w, h, c)
    \/ \E w \in Workers : ExecStep(w) \/ CancelWait(w) \/ DialFails(w)
    \/ \E h \in Hosts : RotateKey(h)
    \/ SweepBegin \/ Sweep \/ ClosePool \/ TcpGivesUp
    \/ \E k \in PoolKeys, what \in {"dead", "silent", "expired"} : IdleHarm(k, what)
    \/ \E w \in Workers, what \in {"dead", "silent"} : UsedHarm(w, what)

\* Goroutines run on, a channel serves its senders in their order, TCP gives a silent
\* peer up.  Nothing is assumed of dials, cancels or the pool's owner.
PoolFairness ==
    /\ \A w \in Workers : SF_poolVars(ExecStep(w))
    /\ WF_poolVars(Sweep) /\ WF_poolVars(TcpGivesUp)

--------------------------------------------------------------------------------
(* Properties. *)

\* Types and limits.
PoolTypeOK ==
    /\ \A h \in Hosts : keyOf[h] \in CredVersions /\ hostSem[h] \in 0..PerHostLimit
    /\ tenantSem \in 0..PerTenantLimit
    /\ \A k \in PoolKeys : \A j \in DOMAIN idle[k] : idle[k][j].state \in {"up", "dead", "silent"}
    /\ poolClosed \in BOOLEAN /\ sweeping \in BOOLEAN /\ ended \in 0..opened

\* The slots taken are those of the workers that hold them, on every path out of Acquire
\* and Exec: a slot lost on one of them narrows the pool until nothing can be scanned.
SlotsMatchHolders ==
    /\ tenantSem = Cardinality({w \in Workers : HoldsTenant(w)})
    /\ \A h \in Hosts : hostSem[h] = Cardinality({w \in Workers : Holds(w) /\ exec[w].host = h})

\* No connection is lost sight of: what is open is in a exec's hands or idle, also while
\* Close and releases overlap, and once the pool is closed nothing stays idle.
NoConnectionLeaks ==
    /\ opened - ended = IdleCount + Cardinality({w \in Workers : exec[w].at \in {"run", "release"}})
    /\ poolClosed => IdleCount = 0

\* For each credential a host has no more connections than PerHostLimit, idle ones
\* counted although they hold no slot: a worker dials only when its stack is empty, so
\* those of its credential are all in the hands of workers with a slot.
ConnectionsOf(k) ==
    Len(idle[k]) + Cardinality({w \in Workers : exec[w].at \in {"dial", "run", "release"}
                                                 /\ <<exec[w].host, exec[w].cred>> = k})
StacksWithinTheLimit == \A k \in PoolKeys : ConnectionsOf(k) <= PerHostLimit

\* The host itself is promised more, and that fails: what idles under a credential that
\* was replaced stays open beside as many connections of the new one.
HostWithinItsLimit ==
    \A h \in Hosts : Cardinality({x \in IdleConns : x[1][1] = h})
                     + Cardinality({w \in Workers : exec[w].at \in {"run", "release"} /\ exec[w].host = h})
                    <= PerHostLimit

\* A command runs on a connection no older than the credential its scan was loaded with:
\* a scan begun after a rotation never uses a login from before it.
NoStaleLogin == \A w \in Workers : exec[w].at = "run" => exec[w].conn.auth >= exec[w].cred

\* Every command ends, whichever workers wait for each other's slots and whatever the
\* sweep waits for with the mutex in hand.
CommandsEnd == \A w \in Workers : exec[w] # Free ~> exec[w] = Free

\* Slots are held by commands, no connection leaks, serves another login or passes the
\* limit of its credential, and every command ends.
PoolIsSound ==
    /\ [](PoolTypeOK /\ SlotsMatchHolders /\ NoConnectionLeaks /\ NoStaleLogin /\ StacksWithinTheLimit)
    /\ CommandsEnd
================================================================================
