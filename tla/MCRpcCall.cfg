SPECIFICATION FairSpec
CONSTANTS
    None = None
    Peers <- PeerSet
    NotUtf8 <- BadTexts
    TextLength <- Lengths
    Requests <- RequestSet
    Answers <- AnswerSet
    Strays <- StraySet
\* A call that has ended stays so.
CHECK_DEADLOCK FALSE
INVARIANTS CallOK SizesHonest CopiesWhole
PROPERTIES KeepsPromise CallEnds
