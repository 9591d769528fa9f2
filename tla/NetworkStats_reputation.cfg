SPECIFICATION Spec
CONSTANTS
    target = target
    other = other
    block = block
    unblock = unblock
    x = x
    y = y
    None = None
    Empty = Empty
    Providers <- TwoProviders
    Blocks <- OneBlock
    Unblocks <- OneUnblock
    Target <- Targets
    Before <- OneKnown
    Reports <- OneReport
    MaxScore = 1
    Proposals <- TwoProposals
    Issuer <- Issuers
INVARIANTS
    TypeOK
    BlockSticksAlone
    UpdateStoresScores
    NothingLeftBehind
    DraftsReleased
    BlockedNotNegotiated
CHECK_DEADLOCK FALSE
