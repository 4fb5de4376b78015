SPECIFICATION Spec
CONSTANTS
    w1 = w1
    w2 = w2
    d1 = d1
    d2 = d2
    Workers = {w1, w2}
    Setups <- PlainSetup
    Names = {1, 2}
    TransactionalDdl = FALSE
INVARIANT ReloadsAsGenerated
CHECK_DEADLOCK FALSE
