------------------------------ MODULE ScanSession ------------------------------
(***************************************************************************)
(* What a scan session promises to the rest of the system: a life cycle    *)
(* (internal/domain/scan), at most one live session per fleet, and an      *)
(* audit trail that tells exactly the transitions the session made.        *)
(* ScanRun implements this specification when transactions are serialised. *)
(***************************************************************************)
EXTENDS Sequences

CONSTANTS Sessions,   \* session identifiers
          Fleets,     \* fleet identifiers
          NoFleet     \* the fleet of a session that does not exist yet

VARIABLES status,     \* status[s]: the state of the session
          fleet,      \* fleet[s]: the fleet it scans
          audit       \* audit[s]: the transitions written to the audit chain

vars == <<status, fleet, audit>>

Terminal == {"completed", "failed", "cancelled"}
Live == {"pending", "running"}
Statuses == {"none"} \cup Live \cup Terminal

\* The FSM of a session; a terminal state has no outgoing transition.
CanTransition(from, to) ==
    \/ from = "pending" /\ to \in {"running", "failed", "cancelled"}
    \/ from = "running" /\ to \in {"completed", "failed", "cancelled"}

FleetFree(f) == \A s \in Sessions : fleet[s] = f => status[s] \notin Live

Init == /\ status = [s \in Sessions |-> "none"]
        /\ fleet = [s \in Sessions |-> NoFleet]
        /\ audit = [s \in Sessions |-> <<>>]

\* A session is created pending, on a fleet that no live session scans.
Open(s, f) ==
    /\ status[s] = "none"
    /\ FleetFree(f)
    /\ status' = [status EXCEPT ![s] = "pending"]
    /\ fleet' = [fleet EXCEPT ![s] = f]
    /\ UNCHANGED audit

\* A transition and its audit entry are one step.
Move(s, to) ==
    /\ CanTransition(status[s], to)
    /\ status' = [status EXCEPT ![s] = to]
    /\ audit' = [audit EXCEPT ![s] = Append(@, to)]
    /\ UNCHANGED fleet

Next == \E s \in Sessions : \/ \E f \in Fleets : Open(s, f)
                            \/ \E to \in Statuses : Move(s, to)

Spec == Init /\ [][Next]_vars
================================================================================
