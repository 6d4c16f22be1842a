SPECIFICATION Spec
CONSTANTS
    MaxEpoch = 2
    MaxCtr <- Both
CONSTRAINT OneWay
INVARIANTS
    NonceOncePerKey
    DeliveredOnceAcrossEpochs
    PreviousEpochStillOpens
CHECK_DEADLOCK FALSE
