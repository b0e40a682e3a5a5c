\* An edit made in sight of an Event whose author crashed before making it durable.
SPECIFICATION FairSpec
CONSTANTS
    MaxSid = 4
    MaxEvents = 2
    Budgets <- EditBudgets
    Timely = TRUE
PROPERTY SessionEstablished
CHECK_DEADLOCK FALSE
