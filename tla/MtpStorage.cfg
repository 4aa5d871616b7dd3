SPECIFICATION Spec
CONSTANTS
    FileName = {f, g}
    FolderName = {d}
    None = None
    f_blocks = 5
    mReserveSpace = 2
    Size32 = 4
    Size64 = 16
VIEW WithoutResponse
INVARIANT UploadFits
PROPERTY PromiseKept
