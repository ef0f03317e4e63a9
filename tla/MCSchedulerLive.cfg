SPECIFICATION FairSpec
CONSTANTS
    j1 = j1
    e1 = e1
    e2 = e2
    q1 = q1
    q2 = q2
    None = None
    Jobs = {j1}
    Entries = {e1}
    EntryJob <- MCEntryJob
    Requests = {q1, q2}
    HistoryLimit = 1
    MaxRunId = 4
    MaxBoots = 2
    MaxFaults = 1
PROPERTY EveryRunEnds
PROPERTY EntryKeepsFiring
CHECK_DEADLOCK FALSE
