SPECIFICATION Spec
CONSTANTS
    Sockets = {k1}
    Endpoints <- StreamEndpoint
    MaxEvents = 1
    Requests <- WebhookRequests
    Batches = {}
    BulkItems = {}
    Enabled = {"webhook"}
    BotConfigured = FALSE
    Ingests = {"i1"}
    RuleChannels <- WebhookRule
    Faults = FALSE
INVARIANT FallsBack
CHECK_DEADLOCK FALSE
