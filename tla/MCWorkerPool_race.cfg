SPECIFICATION Spec
CONSTANTS
    w1 = w1
    w2 = w2
    t1 = t1
    t2 = t2
    t3 = t3
    d1 = d1
    d2 = d2
    Worker <- MCWorker
    Submitter <- MCSubmitter
    Drainer <- MCDrainer
    QueueSize = 1
    NoTask = NoTask
INVARIANT
    SubmitNeverMeetsClosedQueue
CHECK_DEADLOCK FALSE
