SPECIFICATION FairSpec
CONSTANTS
    b1 = b1
    b2 = b2
    g1 = g1
    g2 = g2
    Workers = {w1, w2}
    Batches = {b1, b2}
    Tasks <- MCTasks
    None = None
    MaxDownloadSize = 1
    MaxConns = {0, 1}
INVARIANTS SizeCountsJobs WaitersMatch ResponsesGoOnce MarksAreDownloads
PROPERTIES WorkersStop JobEnds
\* The downloads return and the workers stop.
CHECK_DEADLOCK FALSE
