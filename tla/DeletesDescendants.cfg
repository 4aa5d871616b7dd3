SPECIFICATION MCSpec
CONSTANTS
    a = a
    b = b
    Name = {a, b}
    PATH_MAX = 3
    Capacity = 5
    MaxHandle = 5
    SdStorage = SdStorage
    AllStorages = AllStorages
    DefaultStorage = DefaultStorage
    StorageID = {SdStorage, AllStorages}
    HostHandle = {2, 3, 4, 6}
    MaxEdits = 0
PROPERTY DeletesDescendants
