\* One frame, fed to frame::parser in chunks of any size.
CONSTANTS
    MaxShort = 2
    MaxMedium = 5
    Decoders = {"parser"}
    Sendable <- ShortFrames
    Malformed <- WellFormedOnly
    HttpHead <- MCHttpHead
    Capacity = 8
    MaxFrames = 1
    MaxLoose = 2
SPECIFICATION Spec
INVARIANT ParserIncremental
CHECK_DEADLOCK FALSE
