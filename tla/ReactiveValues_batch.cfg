\* One observer, which may raise; two batches, of which the first is the one it
\* raises in.
CONSTANTS
    First = First
    Second = Second
    Off = 0
    Contents = {0, 1}
    Observers = {w1}
    OfComputed = {}
    Computed = Computed
    MaxAssigned = 2
    MaxBlocks = 2
    MaxRaised = 1
SPECIFICATION ReactiveSpec
INVARIANT OnlyAtExit
CHECK_DEADLOCK FALSE
