\* Expected violation: a buffer of one slot.
SPECIFICATION Spec
CONSTANTS
    Producers = {p1, p2}
    Consumers = {c1}
    Size = 1
    Torn = Torn
    MaxPushes = 3
INVARIANTS
    LosesNothing
