SPECIFICATION Spec
CONSTANTS
    AccountId <- MCAccount
    Currency = {"EUR"}
    Key = {"k1"}
    Command <- MCPastCommand
    CurrencyOf <- MCCurrencyOf
    StatusOf <- MCStatusOf
    OpeningBalance <- MCOpening
    MaxBalance = 3
    MaxDecimal = 9
    Request = {9}
    User = {"ann", "bob"}
    Call <- MCCall
    ClientRequest <- MCRequests
    ExistingAccount = {1}
    ExistingOwner <- MCExistingOwner
    PastTransfer <- MCPastTransfer
    Faults = {"database", "crash"}
INVARIANTS
    ApiTypeOK
    AnswersTellEffect
    ClosedOutsideDevelopment
PROPERTY ReadYourAccount
