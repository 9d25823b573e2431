\* Four requests for two slots: a waiter that was granted a slot, one that
\* lost its grant, a pending one and a holder can all exist at once.
CONSTANTS
    c1 = c1
    c2 = c2
    e1 = e1
    e2 = e2
    Requests = {c1, c2, e1, e2}
    Chat = {c1, c2}
    MaxConcurrency = 2
SPECIFICATION Spec
SYMMETRY Symmetry
INVARIANTS
    SlotConservation
    UpstreamNeedsSlot
    SettledWhenDone
    NoLostWakeup
PROPERTIES
    FirstComeFirstServed
