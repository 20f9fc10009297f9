CONSTANTS
    Buf = 7
    Marker = 10
    Frames <- MCFrames
    NoFrame <- MCNoFrame
    Junk = {5, 10}
    MaxFaults = 1
    Self = 49
    MaxDevices = 2
    MaxRcvrs = 1
    MaxPriority = 2
    Channels <- MCChannels
    Limit = 2
    Packets <- MCPackets
SPECIFICATION Spec
INVARIANTS TypeOK OverrunOnlyByNoise
PROPERTIES ImplementsReceiver Resyncs LearnsMaster
