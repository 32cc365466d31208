SPECIFICATION FairSpec
CONSTANTS
    t1 = t1
    t2 = t2
    t3 = t3
    Threads = {t1, t2, t3}
    spins_before_yield = 2
    Values <- Measured
    kDoubleMin = 1
    kDoubleMax = 9
    MaxWindow = 2
INVARIANTS
    OneInSection
    FieldsAgree
PROPERTIES
    NothingClearedUnreported
    SomebodyServed
    ServedWhenAlone
