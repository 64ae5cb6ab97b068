-------------------------- MODULE MCBankingSystem --------------------------
(* Small instances of BankingSystem.                                       *)
EXTENDS BankingSystem, TLC

CONSTANTS r1, r2, r3

MCOne == {r1}
MCTwo == {r1, r2}
MCThree == {r1, r2, r3}
SymTwo == Permutations(MCTwo)
SymThree == Permutations(MCThree)

(* Accounts 1 and 2 can trade, 3 is in another currency, 4 is frozen and 5 *)
(* is opened while the transfers run.                                      *)
MCAccount == 1 .. 5
MCExisting == 1 .. 4
MCCurrencyOf == [a \in MCAccount |-> IF a = 3 THEN "USD" ELSE "EUR"]
MCStatusOf == [a \in MCAccount |-> IF a = 4 THEN "frozen" ELSE "active"]
MCOpening == [a \in MCAccount |-> CASE a = 1 -> 30 [] a = 5 -> 5 [] OTHER -> 14]

Transfer(key, from, to, amount) ==
    [key |-> key, from |-> from, to |-> to, amount |-> amount,
     currency |-> "EUR"]

Pay == Transfer("k1", 1, 2, 20)
PayAgain == Transfer("k2", 1, 2, 20)
PayBack == Transfer("k2", 2, 1, 10)
PaySameKey == Transfer("k1", 2, 1, 10)
PayNew == Transfer("k3", 1, 5, 20)
PayDust == Transfer("k3", 1, 2, 4)
PayHalf == Transfer("k3", 2, 1, 5)
PaySelf == Transfer("k3", 1, 1, 10)
PayFromFrozen == Transfer("k3", 4, 1, 10)
PayFromOther == Transfer("k3", 3, 1, 10)

(* More than a column stores, and more than the decimal context holds.     *)
PayMuch == Transfer("k3", 1, 2, 40)
PayHuge == Transfer("k3", 1, 2, 100)

(* These the receiver's account refuses after the sender's debit.          *)
PayOther == Transfer("k1", 1, 3, 10)
PayFrozen == Transfer("k1", 1, 4, 10)

AllCommands == {Pay, PayAgain, PayBack, PaySameKey, PayNew, PayDust, PayHalf,
                PaySelf, PayFromFrozen, PayOther, PayMuch, PayHuge}
ContendingCommands == {Pay, PayAgain, PayBack}

(* A ring of transfers, and one against it.                                *)
PayOn == Transfer("k2", 2, 5, 10)
PayRound == Transfer("k3", 5, 1, 10)
RingCommands == {Pay, PayBack, PayOn, PayRound}
LivenessCommands == {Pay, PayBack, PayNew, PaySelf, PayFromOther}

RefusedCommands == {PayOther, PayFrozen}
SameCommand == {Pay}
SelfCommands == {PaySelf}
=============================================================================
