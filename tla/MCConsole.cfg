CONSTANTS
    p1 = p1 p2 = p2 None = None
    Proc <- TwoProcs
    INPUT_BUF = 3
    Text = {"a"}
    Counts = {0, 2}
    MaxInput = 5
SPECIFICATION ConsoleFairSpec
CHECK_DEADLOCK FALSE
INVARIANTS FullIsReadable
PROPERTIES WriteReturns ReadReturns ImplementsLineInput
