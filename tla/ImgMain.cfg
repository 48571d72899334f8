\* A picture of every size and color type through both programs. They end.
SPECIFICATION MainSpec
CONSTANTS
    Images <- InputPictures
    Unit = 10
    LittleEndian = TRUE
    Leftover <- LeftoverPixels
    Lengths = {1, 2}
    MaxChunks = 4
CHECK_DEADLOCK FALSE
INVARIANTS
    FourReplicas
    GrayIsBetween
    
    WedgesMirrorA
    StackIsBalanced
    ReadsThePicture
    ReleasedAtExit
    ExitTellsTruth
PROPERTY
    BuildsAgree
