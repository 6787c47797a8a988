CONSTANTS
    AgentCount = 3
    Threshold = 8500
    VaultEnabled = TRUE
    QuantumMode = TRUE
    Requests <- MCRequests
    MaxRoutes = 5
SPECIFICATION Spec
INVARIANT AgentsExclusive
CHECK_DEADLOCK FALSE
