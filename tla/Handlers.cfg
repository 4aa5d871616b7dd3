SPECIFICATION MCSpec
CONSTANTS
    a = a
    b = b
    Name = {a, b}
    PATH_MAX = 2
    Capacity = 3
    MaxHandle = 4
    SdStorage = SdStorage
    AllStorages = AllStorages
    DefaultStorage = DefaultStorage
    StorageID = {SdStorage}
    HostHandle = {2, 3, 5}
    MaxEdits = 0
VIEW WithoutResponse
SYMMETRY Exchange
INVARIANTS IInv SendObjectReserved
PROPERTIES HandlesImplemented BindingKept DeleteAllOrNothing SendObjectAllOrNothing
