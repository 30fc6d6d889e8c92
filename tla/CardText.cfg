CONSTANTS
    Names <- MCNames
    Capitalised <- MCCapitalised
    Cards <- MCCards
SPECIFICATION Spec
PROPERTIES
    RoundTripUnlessDrift
    InternalOnlyWhereRuleSaysMore
    LinesReadAlone
CHECK_DEADLOCK FALSE
