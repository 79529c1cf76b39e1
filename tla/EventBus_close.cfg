SPECIFICATION FairSpec
CONSTANTS
    Subs = {a, b}
    BlockSubs = {a}
    Publishers = {p1}
    Capacity = 1
    MaxPublish = 2
CHECK_DEADLOCK FALSE
INVARIANT DeliveryIsSound
PROPERTY CloseWaits
PROPERTY NothingHangs
