SPECIFICATION Spec
CONSTANTS
    Marker = 12
    DataMod = 10
    Desc = 5
    TdmWrite = 2
    Times = 3
    Vars = {1, 3}
    Save = 1
    Writes <- MCWrites
    Depth = 10
    ByteXor <- MCByteXor
    MaxRequests = 1
    MaxLost = 2
INVARIANTS
    WrittenAsSent
    OneLossIsCaught
PROPERTY Resyncs
