CONSTANT W = 3
SPECIFICATION FairSpec
INVARIANTS TypeOK CollectivesMatch OnlyCutoffDeserts
PROPERTIES ImplementsPortfolio EndsOrDeserted ReportEndsJob
CHECK_DEADLOCK FALSE
