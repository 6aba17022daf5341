SPECIFICATION FairSpec
CONSTANTS
    Sockets = {k1}
    Endpoints <- StreamEndpoint
    MaxEvents = 2
    Requests <- SomeRequests
    Batches = {b1}
    BulkItems <- OneBulk
    Enabled = {"webhook", "telegram"}
    BotConfigured = TRUE
    Ingests = {"i1"}
    RuleChannels <- SomeRules
    Faults = TRUE
INVARIANTS TypeOK NoGap SentOnce ResultsAreTrue CommittedIsTold
PROPERTY SubscriptionsEnd
CHECK_DEADLOCK FALSE
