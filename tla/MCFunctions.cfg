SPECIFICATION Spec
CONSTANTS
    LowerCase <- MCLowerCase
    NoText = NoText
INVARIANTS
    KeptAsAsked
    RenamedAsAsked
    CopyExact
