SPECIFICATION Spec
CONSTANTS
    MaxTasks = 5
    MailTypes = {"FoiaRequestMailTask", "AodMotionMailTask"}
    BlockingMailTypes = {"FoiaRequestMailTask"}
    OrdinaryTypes = {"AssessDocumentationTask", "PulacCerulloTask"}
    ColocatedTypes = {}
    NonCascadingTypes = {"AssessDocumentationTask"}
    AutoAssignTypes = {"PulacCerulloTask"}
    Representatives = {"vso", "agent"}
    StalePages = FALSE
INVARIANTS OpenTaskHasOpenParent ReadyMeansUnblocked
PROPERTIES CompletedWorkWasDone ClosedRootStaysClosed
CHECK_DEADLOCK FALSE
