SPECIFICATION FairSpec
CONSTANTS
    People = {raja, asha}
    Calibrated = {}
    Rooms = {}
    Threshold = 3
    Pollers = {poll}
    Callers = {post}
INVARIANTS DebounceCounts
PROPERTIES OccupancyDecided GoneIsNoticed BackIsNoticed
