-------------------------------- MODULE AuditLog --------------------------------
(***************************************************************************)
(* What the audit chain of internal/domain/audit promises its readers: one *)
(* log for each tenant that only ever grows at its end.                    *)
(***************************************************************************)
EXTENDS SequencesExt

CONSTANT Tenants

VARIABLE log    \* log[t]: what has been recorded about tenant t, in order

LogInit == log = [t \in Tenants |-> <<>>]

\* What is in the log stays, where it is; new entries come after it.
Extend(t) ==
    /\ IsStrictPrefix(log[t], log'[t])
    /\ log' = [log EXCEPT ![t] = log'[t]]

LogNext == \E t \in Tenants : Extend(t)

LogSpec == LogInit /\ [][LogNext]_log
================================================================================
