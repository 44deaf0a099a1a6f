------------------------------- MODULE Account -------------------------------
(***************************************************************************)
(* The balance of one tenant, as the parts that spend it share it.         *)
(***************************************************************************)
EXTENDS Billing

CONSTANTS CreditLimit,     \* Tenant.creditLimitCents
          InitialBalances  \* what Tenant.balanceCents may be at first

ASSUME AccountAssumption ==
  /\ CreditLimit \in Nat
  /\ InitialBalances \subseteq {b \in Int : b + CreditLimit >= 0}

VARIABLES balance, \* Tenant.balanceCents
          ledger   \* sum of the tenant's WalletTransaction rows

accountVars == <<balance, ledger>>

AccountInit == balance \in InitialBalances /\ ledger = 0

\* reserveBalance: the check and the decrement are one UPDATE.
Reserve(cents) == /\ CanReserve(balance, CreditLimit, cents)
                  /\ balance' = AfterReserve(balance, cents)
Refused(cents) == ~CanReserve(balance, CreditLimit, cents)
Write(cents) == ledger' = ledger + cents
GiveBack(cents) == balance' = balance + cents
=============================================================================
