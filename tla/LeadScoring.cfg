SPECIFICATION Spec
CONSTANTS
    Budgets <- MCBudgets
    Timelines <- MCTimelines
    ProblemLengths <- MCProblemLengths
INVARIANTS
    OnlyTheWarmThresholdIsMissed
    ShownIsTheSum
    MoreRanksNoLower
