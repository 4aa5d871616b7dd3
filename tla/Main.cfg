SPECIFICATION MCSpec
CONSTANTS
    Page = 6
    PacketSize = 3
    bNumEndpoints <- MCNumEndpoints
    BufferSize <- MCBufferSize
    Offset = {0, 3, 5}
    MaxTransfer = 2
    MaxParameter = 1
    DataSize = {3}
    FileSize = {5}
    ReplySize = {5}
    MaxUnplugged = 1
INVARIANTS ProgramInv ParametersSent
PROPERTIES PipeImplemented Exits Starts
CHECK_DEADLOCK FALSE
