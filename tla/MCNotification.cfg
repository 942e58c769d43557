CONSTANTS
    Senders = {worker, q1}
    Worker = worker
    Writers = {w1}
    Versions = {v1, v2}
    Working = {v2}
    None = None
    TTL = 1
    MaxClock = 1
    Jobs = {j1}
    Attempts = 3
    MaxFails = 1
    MaxRestarts = 2

SPECIFICATION Spec

INVARIANTS TypeOK RecentSettings CompletedIsMailed

PROPERTIES EveryJobEnds

CHECK_DEADLOCK FALSE
