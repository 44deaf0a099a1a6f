------------------------------- MODULE Billing -------------------------------
(***************************************************************************)
(* The price arithmetic of services/billing.service.ts: what a call costs, *)
(* what is set aside before it is dialled, and when that is allowed.       *)
(* Amounts are whole cents and durations whole seconds, as in the          *)
(* database; JavaScript's Math.round and Math.ceil are the half-up and     *)
(* ceiling divisions below on the non-negative operands they get.          *)
(***************************************************************************)
EXTENDS Integers

BillingModes == {"PER_MINUTE", "PER_SECOND", "PER_CALL"}

PriceConfig == [billingMode: BillingModes,
                pricePerMinuteCents: Nat, pricePerCallCents: Nat]

CeilDiv(a, b) == (a + b - 1) \div b
RoundDiv(a, b) == (2 * a + b) \div (2 * b)

\* Real cost of a call that lasted billedSecs.
ComputeCallCost(billedSecs, price) ==
  CASE price.billingMode = "PER_SECOND" ->
         RoundDiv(billedSecs * price.pricePerMinuteCents, 60)
    [] price.billingMode = "PER_CALL" ->
         IF billedSecs > 0 THEN price.pricePerCallCents ELSE 0
    [] OTHER -> CeilDiv(billedSecs, 60) * price.pricePerMinuteCents

\* What is set aside at dial time: the cost of a call of maxCallSeconds.
ComputeReservation(maxCallSeconds, price) ==
  CASE price.billingMode = "PER_SECOND" ->
         CeilDiv(maxCallSeconds * price.pricePerMinuteCents, 60)
    [] price.billingMode = "PER_CALL" -> price.pricePerCallCents
    [] OTHER -> CeilDiv(maxCallSeconds, 60) * price.pricePerMinuteCents

\* The guard of reserveBalance's single conditional UPDATE.
CanReserve(balance, creditLimit, cents) ==
  cents <= 0 \/ balance + creditLimit >= cents

\* The balance after a reservation that CanReserve allows.
AfterReserve(balance, cents) == IF cents <= 0 THEN balance ELSE balance - cents
=============================================================================
