SPECIFICATION Spec
CONSTANTS
    r1 = r1
    r2 = r2
    r3 = r3
    Request <- MCOne
    AccountId <- MCAccount
    Currency = {"EUR", "USD"}
    Key = {"k1", "k2", "k3"}
    Command <- RefusedCommands
    CurrencyOf <- MCCurrencyOf
    StatusOf <- MCStatusOf
    OpeningBalance <- MCOpening
    MaxBalance = 3
    MaxDecimal = 9
    ExistingAccount <- MCExisting
    Faults = {}
INVARIANT OutboxTellsAll
