SPECIFICATION Spec
CONSTANTS
    OtherFields <- MCOtherFields
    Objections <- MCObjections
    Thresholds <- MCThresholds
INVARIANTS
    QualifiedOnlyWhenComplete
    BookingClosesQualifiedLead
    ClosedLeadIsReported
    QualifiedLeadIsAnswered
    NeverEscalatedAtUsualThreshold
    EscalationClosesConversation
PROPERTIES
    DecisionsAreFinal
    TurnEnds
    CollectedLeadQualifies
