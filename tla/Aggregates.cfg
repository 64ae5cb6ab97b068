SPECIFICATION Spec
CONSTANTS
    Cents = {0, 1, 2}
    Currencies = {"EUR", "USD"}
    MaxAccountEvents = 4
    MaxRollbacks = 2
INVARIANTS
    AggregatesTypeOK
    EventsTellAccount
    ClosedIsEmpty
    EventsTellTransaction
PROPERTY ClosedForGood
