CONSTANTS
    Names <- MCNames
    Capitalised <- MCCapitalised
    Cards <- MCCards
SPECIFICATION Spec
PROPERTIES
    RoundTrip
CHECK_DEADLOCK FALSE
