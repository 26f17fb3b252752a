SPECIFICATION Spec
CONSTANTS
    MaxTasks = 5
    MailTypes = {}
    BlockingMailTypes = {}
    OrdinaryTypes = {"FoiaTask", "OtherColocatedTask"}
    ColocatedTypes = {"OtherColocatedTask"}
    NonCascadingTypes = {}
    AutoAssignTypes = {}
    Representatives = {}
    StalePages = TRUE
INVARIANTS TypeOK OnHoldHasOpenChild OneActiveHold

CHECK_DEADLOCK FALSE
