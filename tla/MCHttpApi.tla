----------------------------- MODULE MCHttpApi -----------------------------
(* Small instances of HttpApi: the calls are 2, 3 and 4; account 1 exists, *)
(* 5 never does.                                                           *)
EXTENDS HttpApi

MCAccount == 1 .. 5
MCCall == 2 .. 4
MCExistingOwner == [a \in {1} |-> "ann"]
MCCurrencyOf == [a \in MCAccount |-> "EUR"]
MCStatusOf == [a \in MCAccount |-> "active"]

(* Call 4 asks for more than the column holds.                             *)
MCOpening == [a \in MCAccount |-> CASE a = 2 -> 14 [] a = 4 -> 40 [] OTHER -> 25]

MCPastCommand == {[key |-> "k1", from |-> 1, to |-> 5, amount |-> 10, currency |-> "EUR"]}
MCPastTransfer == {Row(9, c, "completed", NoCode) : c \in MCPastCommand}

Cred(header, bearer) == [header |-> header, bearer |-> bearer]
Ann == Cred("ann", "absent")
AnnBearer == Cred("absent", "ann")
Bob == Cred("bob", "ann")
Bad == Cred("malformed", "ann")
None == Cred("absent", "absent")
Jwt == Cred("absent", "other")

Req(route, cred, target, form) ==
    [route |-> route, cred |-> cred, target |-> target, form |-> form]

MCRequests ==
    {Req("create_account", cred, 5, "valid") : cred \in {Ann, AnnBearer, Bob, None}}
        \cup {Req("get_account", cred, 2, "valid") : cred \in {Ann, AnnBearer, Bob, Jwt}}
        \cup {Req("get_account", Ann, 1, "valid"), Req("get_account", Bob, 5, "valid"),
              Req("get_account", Bad, 1, "valid"), Req("create_account", Ann, 5, "invalid"),
              Req("create_account", None, 5, "garbled"),
              Req("initiate_transfer", Ann, 1, "valid"),
              Req("initiate_transfer", Bob, 1, "invalid"),
              Req("get_transaction", None, 9, "valid"),
              Req("get_transaction", None, 5, "valid"),
              Req("get_dev_token", None, 5, "valid")}

MCTransferRequests == {Req("initiate_transfer", Ann, 1, "valid")}
MCTransactionRequests == {Req("get_transaction", None, 9, "valid")}
MCDevTokenRequests == {Req("get_dev_token", None, 5, "valid")}
=============================================================================
