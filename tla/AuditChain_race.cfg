SPECIFICATION Spec
CONSTANTS
    n1 = n1
    n2 = n2
    x1 = x1
    x2 = x2
    sys = sys
    ten = ten
    NoNode = NoNode
    NoTenant = NoTenant
    Nodes <- TwoNodes
    Txs <- TwoTxs
    Tenants <- OneTenant
    SystemTenant = sys
    MaxEpoch = 2
    MaxFaults = 1
    MaxSeq = 2
SYMMETRY Sym
INVARIANT ChainIntact
INVARIANT CheckpointsHold
INVARIANT EpochNamesWriter
INVARIANT LeadershipIsSound
PROPERTY AppendOnly
