SPECIFICATION MCSpec
CONSTANTS
    Principal = {"here", "elsewhere"}
    EndpointPrincipal = "here"
    Request = {"q"}
    MaxRuns = 2
    MaxCalls = 2
    MaxFaults = 1
    None = None
INVARIANTS AnswersAreTrue RestingCardsPlay
PROPERTIES CommittedIsTold
