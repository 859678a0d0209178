----------------------------- MODULE TokenLedger -----------------------------
(***************************************************************************)
(* What BalanceService promises: every user has a balance, every change of *)
(* it is entered in the ledger in the same step, and nobody spends tokens  *)
(* the balance does not hold.  KeyBilling implements it as long as no      *)
(* handler overwrites a row from a stale image.                            *)
(***************************************************************************)
EXTENDS Integers

CONSTANTS Users, Amounts, InitBalance

VARIABLES balance, ledger

ledgerVars == <<balance, ledger>>

\* One row changes by amount, with the TokenTransaction row that records it.
Entered(changes) ==
    /\ balance' = [u \in Users |-> balance[u] + changes[u]]
    /\ ledger' = [u \in Users |-> ledger[u] + changes[u]]

\* deduct_balance
Spend(u, amount) ==
    /\ balance[u] >= amount
    /\ Entered([v \in Users |-> IF v = u THEN -amount ELSE 0])

\* topup_balance by an owner or admin
Grant(u, amount) == Entered([v \in Users |-> IF v = u THEN amount ELSE 0])

\* topup_balance by a reseller
Transfer(from, to, amount) ==
    /\ from # to
    /\ balance[from] >= amount
    /\ Entered([v \in Users |-> IF v = from THEN -amount
                                ELSE IF v = to THEN amount ELSE 0])

Init == balance = InitBalance /\ ledger = [u \in Users |-> 0]

Next == \E amount \in Amounts, u, v \in Users :
            Spend(u, amount) \/ Grant(u, amount) \/ Transfer(u, v, amount)

Spec == Init /\ [][Next]_ledgerVars
=============================================================================
