SPECIFICATION Spec
CONSTANTS
    OtherFields <- MCOtherFields
    Objections <- MCObjections
    Thresholds <- MCDefaultThreshold
INVARIANTS
    IncompleteLeadReturnsToCollection
