\* Three goroutines start and stop a bus, which may live three times.
CONSTANTS
    g1 = g1
    g2 = g2
    g3 = g3
    Goroutines <- MCGoroutines
    MaxStarts = 3
SPECIFICATION FairSpec
INVARIANTS
    OneLoopUntilStop
    PanicsOnlyRestarted
    StoppedMeansGone
PROPERTIES
    LoopsEnd
CHECK_DEADLOCK FALSE
