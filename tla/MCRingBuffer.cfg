\* Two producers and two consumers lap a buffer of two slots.
SPECIFICATION FairSpec
CONSTANTS
    Producers = {p1, p2}
    Consumers = {c1, c2}
    Size = 2
    Torn = Torn
    MaxPushes = 5
INVARIANTS
    TypeOK
    PoppedAsPushed
PROPERTIES
    FalseIsEmpty
    CallsReturn
