-------------------------- MODULE MCAccountService --------------------------
(* Constant values for the runs of AccountService.                         *)
EXTENDS AccountService, TLC

CONSTANTS alice, bob, shop, store, clean, dirty

MCPayees   == {shop, store} \cap Accounts
MCPayeeKind == [p \in MCPayees |-> IF p = shop THEN "BILLER" ELSE "MERCHANT"]
MCCurrency == [a \in Accounts |-> "TND"]
MCActive   == [a \in Accounts |-> "ACTIVE"]

MCDocOwner    == [d \in Docs |-> alice]
MCDocStatus   == [d \in Docs |-> IF d = dirty THEN "SUSPICIOUS" ELSE "CLEAN"]
MCDocReasons  == [d \in Docs |-> {}]
MCDocExpected == [d \in Docs |-> 0]

\* Idempotency keys are interchangeable.
KeySymmetry == Permutations(Keys)
=============================================================================
