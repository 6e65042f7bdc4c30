SPECIFICATION Spec
CONSTANTS
    Inputs <- MCInputs
INVARIANTS
    EveryRowInOrder
    ValuesInPlace
    RefusedIffMalformed
    NothingDefaulted
    SameVariantBack
CHECK_DEADLOCK FALSE
