SPECIFICATION FairSpec
CONSTANTS
    Projects = {p1, p2}
    Publishers = {q1, q2}
    Subscribers = {s1, s2}
    RingSize = 2
    SubscriberBuffer = 1
    MaxEvents = 3
INVARIANTS ReplayIsRecent PublishTellsTheTruth
PROPERTY PublishReturns
CHECK_DEADLOCK FALSE
