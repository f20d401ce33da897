SPECIFICATION Spec
CONSTANTS
    Projects = {p1}
    Publishers = {q1}
    Subscribers = {s1}
    RingSize = 2
    SubscriberBuffer = 1
    MaxEvents = 2
INVARIANT SafeForConcurrentUse
CHECK_DEADLOCK FALSE
