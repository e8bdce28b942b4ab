CONSTANTS
    n1 = n1
    n2 = n2
    noName = noName
    text = text
    marker = marker
    empty = empty
    v0 = v0
    refValue = refValue
    Names <- TwoNames
    NoName <- noName
    Marker <- marker
    Empty <- empty
    Plain <- PlainTexts
    RefValue <- refValue
    Documents <- OneOrTwo
    TargetSets <- Registrations
    Fold <- FoldCase
    RefKeys <- KeysThatAreRefs
    Types <- ConfigTypes
    Rank <- Depth
    MaxRank = 4
    Steps <- StepsOfPaths
SPECIFICATION Spec
INVARIANTS
    TypeOK
    AcceptedIffLands
    RefsBecomeSecrets
    DumpKeepsSecrets
    KeyTracksConfig
    DecoderReads
CHECK_DEADLOCK FALSE
