\* Two frames of any form, moved in pieces of any size.
CONSTANTS
    MaxShort = 2
    MaxMedium = 5
    Decoders = {"client", "server", "parser"}
    Sendable <- MCSendable
    Malformed <- MCMalformed
    HttpHead <- MCHttpHead
    Capacity = 8
    MaxFrames = 2
    MaxLoose = 1
SPECIFICATION Spec
INVARIANTS ParserExact NothingHeldBack
PROPERTY Implements
CHECK_DEADLOCK FALSE
