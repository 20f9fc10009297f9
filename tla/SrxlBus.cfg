CONSTANTS
    Self = 49
    MaxDevices = 3
    MaxRcvrs = 2
    MaxPriority = 2
    Channels <- MCChannels
    Limit = 2
    Packets <- MCPackets
SPECIFICATION BusSpec
INVARIANTS TablesAgree AnswersAPollOfTwo RemembersMaster ChannelsAsSent
PROPERTY SpeaksWhenAsked
