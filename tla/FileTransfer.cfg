SPECIFICATION Spec
CONSTANTS
    HeaderSize = 1
    FirstRead = 3
    BlockSize = 2
    Word = 16
    Data <- Prefixes
    MaxSize = 3
    MaxTimeouts = 1
INVARIANTS ContentsInv UploadExact SizeKnown AllReceived DownloadExact WithinAnnounced BlocksFit
PROPERTY UploadEnds
