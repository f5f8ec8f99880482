SPECIFICATION FairSpec
CONSTANTS
    Starts = {s1}
    Stops = {cancel}
    StopStatus <- MCStopStatus
    Detector = detector
    MaxCrashes = 1
    MaxTimeouts = 1
INVARIANTS
    CoresComeBack
    StopEndsTheTask
    PolledVerdict
PROPERTIES
    EndIsFinal
    RunningTaskEnds
CHECK_DEADLOCK FALSE
