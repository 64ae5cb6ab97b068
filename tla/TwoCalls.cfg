SPECIFICATION Spec
CONSTANTS
    r1 = r1
    r2 = r2
    r3 = r3
    Request <- MCTwo
    AccountId <- MCAccount
    Currency = {"EUR", "USD"}
    Key = {"k1", "k2", "k3"}
    Command <- AllCommands
    CurrencyOf <- MCCurrencyOf
    StatusOf <- MCStatusOf
    OpeningBalance <- MCOpening
    MaxBalance = 3
    MaxDecimal = 9
    ExistingAccount <- MCExisting
    Faults = {"lapse", "redis", "database", "crash"}
SYMMETRY SymTwo
INVARIANTS
    TypeOK
    Reconciliation
    OutboxReconciles
    OutboxTellsRows
    MoneyConserved
    BalanceRange
    SameAnswer
    TruthfulAnswers
    StatusTellsEffect
    
    NoStaleCopy
PROPERTY ImplementsBank
