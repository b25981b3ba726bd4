SPECIFICATION FairSpec
CONSTANTS
    Writers = {w1}
    Session = session
    CriticalCapacity = 1
    AdvisoryCapacity = 1
    BatchSize = 2
    AdaptiveLimit = 2
    MaxRecords = 1
    MaxFailures = 3
INVARIANT TypeOK
INVARIANT CriticalConserved
INVARIANT GracefulShutdown
PROPERTY ImplementsEventLog
PROPERTY EveryoneReturns
PROPERTY EventuallyDurable
