\* Three requests for one slot, with the server's fairness.
CONSTANTS
    c1 = c1
    e1 = e1
    e2 = e2
    Requests = {c1, e1, e2}
    Chat = {c1}
    MaxConcurrency = 1
SPECIFICATION FairSpec
PROPERTIES
    QueueWaitEnds
    SlotsComeBack
    ImplementsPool
