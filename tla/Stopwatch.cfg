CONSTANTS
    MaxTime = 7
SPECIFICATION Spec
INVARIANT TypeOK
INVARIANT ElapsedNeverNegative
PROPERTY ElapsedMonotonic
