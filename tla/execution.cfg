SPECIFICATION MCSpec
CONSTANTS
    reader = reader
    train = train
    stats = stats
    Tasks = {reader, train, stats}
    Inputs <- Channels
    Items <- Counts
    IsTable <- Tables
    Models = {reader}
    Pids = {1, 2}
    MaxVersion = 1
    MaxFaults = 1
    MaxStops = 1
INVARIANTS
    DataStays
    StopKillsAll
PROPERTIES
    EveryTaskEnds
CHECK_DEADLOCK FALSE
