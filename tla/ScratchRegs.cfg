CONSTANTS
    Low <- MCLow
    Callee <- MCCallee
    NarrowRegs <- MCNarrow
    Functions <- MCFunctions
    Hands <- MCHands
    MaxAsks = 2
    MaxDemoted = 1
SPECIFICATION Spec
INVARIANTS
    TypeOK
    SweepExact
    
    NoSaveWhereFreed
    Apart
    CalleeSavedPushed
    SameAnswers
