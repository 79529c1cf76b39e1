----------------------------- MODULE MCAuditChain -----------------------------
(* AuditChain on small instances. *)
EXTENDS AuditChain, TLC

CONSTANTS n1, n2, x1, x2, sys, ten

OneNode == {n1}
TwoNodes == {n1, n2}
OneTx == {x1}
TwoTxs == {x1, x2}
OneTenant == {sys}
TwoTenants == {sys, ten}

Sym == Permutations(Nodes) \cup Permutations(Txs)
================================================================================
