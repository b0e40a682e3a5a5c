\* Establishment after two faults, or a fault and a plain command or an edit;
\* MaxSid is never reached.
SPECIFICATION FairSpec
CONSTANTS
    MaxSid = 9
    MaxEvents = 2
    Budgets <- FaultBudgets
    Timely = TRUE
PROPERTY SessionEstablished
