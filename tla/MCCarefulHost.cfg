SPECIFICATION MCSpec
CONSTANTS
    a = a
    b = b
    Name = {a, b}
    PATH_MAX = 3
    Capacity = 5
    MaxHandle = 6
    SdStorage = SdStorage
    AllStorages = AllStorages
    DefaultStorage = DefaultStorage
    StorageID = {SdStorage}
    HostHandle = {0, 2, 3, 4, 5, 6, 7}
    MaxEdits = 1
VIEW WithoutResponse
INVARIANTS NamesRealObjects NamedOnce ListedDirectoriesComplete KnowledgeStaysGood
