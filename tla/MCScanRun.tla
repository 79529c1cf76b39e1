------------------------------- MODULE MCScanRun -------------------------------
(* ScanRun on small instances. *)
EXTENDS ScanRun, TLC

CONSTANTS s1, s2, f1, c1, c2

OneSession == {s1}
TwoSessions == {s1, s2}
OneFleet == {f1}
NoCaller == {}
OneCaller == {c1}
TwoCallers == {c1, c2}

Sym == Permutations(Sessions) \cup Permutations(Callers)
================================================================================
