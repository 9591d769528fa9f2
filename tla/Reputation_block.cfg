SPECIFICATION RepSpec
CONSTANTS
    target = target
    other = other
    block = block
    unblock = unblock
    None = None
    Empty = Empty
    Providers <- TwoProviders
    Blocks <- OneBlock
    Unblocks <- OneUnblock
    Target <- Targets
    Before <- OneKnown
    Reports <- OneReport
    MaxScore = 1
INVARIANT BlockSticks
CHECK_DEADLOCK FALSE
