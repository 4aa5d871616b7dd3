SPECIFICATION Spec
CONSTANTS
    MaxCount = 3
    Word = 1000000
    One = {1}
    Two = {2}
    Three = {3}
    Four = {4}
    Junk = 5
    MaxHandle = 2
    CardName <- OnCard
    HostName <- FromHost
    FileSize = {7, 1000007}
    Date <- OneDate
INVARIANT ElementsCounted
