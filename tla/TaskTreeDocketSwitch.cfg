SPECIFICATION SpecWithDocketSwitch
CONSTANTS
    MaxTasks = 4
    MailTypes = {"FoiaRequestMailTask"}
    BlockingMailTypes = {"FoiaRequestMailTask"}
    OrdinaryTypes = {}
    ColocatedTypes = {}
    NonCascadingTypes = {}
    AutoAssignTypes = {}
    Representatives = {}
    StalePages = FALSE
INVARIANTS OnHoldHasOpenChild

CHECK_DEADLOCK FALSE
