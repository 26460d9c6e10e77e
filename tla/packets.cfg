CONSTANTS
    ActionSize = 2
    ContextSize = 1
    InitialCapacity = 5
    TagRange = 4
    Lengths = {0, 2, 5}
    HeaderLength = 2
    MaxPacketLength = 4
    ReadBufferSize = 1
    Heads = {2, 3, 4, 5, 7}
    MaxPackets = 2
    MaxPending = 2
SPECIFICATION FairPathSpec
INVARIANTS BufferTypeOK WriteFits InStep ReaderTypeOK WholeBody NoStall  NothingForgotten
PROPERTIES QueueSpec ChannelSpec PostsArrive
