SPECIFICATION Spec
CONSTANTS
    Producers = {p1, p2}
    Consumers = {c1, c2, c3}
    Items = {a, b}
    MaxSize = 2
    LengthBound = 3
INVARIANTS TypeOK SizeAgrees WithinCapacity NobodySleepsAfterShutdown NoLostWakeup NoStrandedProducer
PROPERTIES CallsReturnAfterShutdown ImplementsAwaitQueue
