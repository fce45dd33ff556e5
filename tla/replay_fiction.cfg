SPECIFICATION ReplaySpec
CONSTANTS
    Headers = {}
    Keys = {"k"}
    Kinds = {"inbound"}
    Features = {"wide"}
    Cap = 2
    MaxReads = 2
INVARIANT
    FaithfulOrPoisoned
CHECK_DEADLOCK FALSE
