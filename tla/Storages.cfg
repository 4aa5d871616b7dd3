SPECIFICATION MCSpec
CONSTANTS
    a = a
    b = b
    Name = {a, b}
    PATH_MAX = 2
    Capacity = 3
    MaxHandle = 3
    SdStorage = SdStorage
    AllStorages = AllStorages
    DefaultStorage = DefaultStorage
    StorageID = {SdStorage, AllStorages, DefaultStorage}
    HostHandle = {0, 2, 3, 4}
    MaxEdits = 2
VIEW WithoutResponse
SYMMETRY Exchange
INVARIANTS RootHidden EditedOnce
PROPERTIES FirstListingComplete
