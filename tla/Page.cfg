\* Every page; two calls of the client; three calls that the picker hears of may overlap.
SPECIFICATION FairPageSpec
CONSTANTS
    Count = 2
    Reasons = {"AbortError", "TimeoutError"}
    Pages = {"calls", "component", "form", "settings", "browser"}
    Starts = 4
    Renders = 4
    Uses = 2
    Steps = 3
    AtOnce = 3
    Keys = {k1, k2, k3}
    First = {k1, k2}
    Support = {"allAcceptedCredentials", "currentUserDetails", "unknownCredential"}
INVARIANTS
    OneRequestAtATime AbortReadsAsCancelled
    HooksHoldOneCall OfferedIsWhatWorks
PROPERTIES
    UnwantedCallsEnd TheGoneHearNothing RemovalsShow
CHECK_DEADLOCK FALSE
