SPECIFICATION Spec
CONSTANTS
    N = 3
    Refs <- SomeRefs
    Charge <- SomeCharge
    Workers = 2
    Generators = 2
    Limit = 2
    Faults <- AnyFault
INVARIANTS ResultCountsRows BudgetExact KeysWhileGenerating
PROPERTIES ImplementsOrderedLoad Termination
