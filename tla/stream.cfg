SPECIFICATION Spec
CONSTANTS
    Emitters <- MCEmitters
    Loggers <- MCLoggers
    Buffer = 1
    Events = 3
    Streams = 2
INVARIANTS PageInOrder NoSendOnClosed CompleteUnlessLossy
PROPERTY PageSettles
