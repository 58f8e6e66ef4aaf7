\* Two callers race for two dispatches over two workers, either of which
\* pthread_create may fail to deliver.
CONSTANTS
    c1 = c1
    c2 = c2
    w1 = w1
    w2 = w2
    None = None
    Callers <- MCCallers
    Workers <- MCWorkers
    Jobs <- MCJobs
    MaxGen = 2
SPECIFICATION FairSpec
INVARIANTS TypeOK ExactlyOnce CompleteAtReturn KernelsOwnTheirBuffers
PROPERTIES DispatchReturns StopJoins ImplementsForkJoin
