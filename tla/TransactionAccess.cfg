SPECIFICATION Spec
CONSTANTS
    AccountId <- MCAccount
    Currency = {"EUR"}
    Key = {"k1"}
    Command <- MCPastCommand
    CurrencyOf <- MCCurrencyOf
    StatusOf <- MCStatusOf
    OpeningBalance <- MCOpening
    MaxBalance = 3
    MaxDecimal = 9
    Request = {9}
    User = {"ann", "bob"}
    Call <- MCCall
    ClientRequest <- MCTransactionRequests
    ExistingAccount = {1}
    ExistingOwner <- MCExistingOwner
    PastTransfer <- MCPastTransfer
    Faults = {}
INVARIANT TransactionsNeedUser
