\* Answers of up to three SRV targets with any priorities and weights, and a
\* second attempt that can meet the answers of the first.
CONSTANTS
    targetA = targetA
    targetB = targetB
    targetC = targetC
    Targets = {targetA, targetB, targetC}
    MaxRecords = 3
    MaxPriority = 2
    MaxAttempts = 2
SPECIFICATION Spec
INVARIANT TypeOK
INVARIANT OneReport
INVARIANT TargetsInOrder
INVARIANT SslMatchesPort
INVARIANT LateAnswers
PROPERTY AttemptEnds
\* The attempts are bounded, and a fault ends the behaviour.
CHECK_DEADLOCK FALSE
