SPECIFICATION FairSpec
CONSTANTS
    Event = {e1, e2}
    None = None
    Main = Main
    Concurrency = 2
INVARIANTS
    WorkerInv
PROPERTIES
    FailsByItsStepsOnly
    FailedForGood
    RendersOnce
    TimedOutNeverStarts
    EventsAnswered
    StopIsObeyed
\* A worker whose events are all answered, or that has exited, stands still.
CHECK_DEADLOCK FALSE
