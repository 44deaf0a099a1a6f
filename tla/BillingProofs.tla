---------------------------- MODULE BillingProofs ----------------------------
(***************************************************************************)
(* What the price arithmetic of billing.service.ts guarantees for every    *)
(* price, duration and mode.                                               *)
(***************************************************************************)
EXTENDS Billing, TLAPS

-----------------------------------------------------------------------------
(* The two roundings, by sixty.                                            *)

\* Rounding minutes up gives a natural number.
LEMMA CeilDivNat ==
  ASSUME NEW a \in Nat
  PROVE  CeilDiv(a, 60) \in Nat
  BY SMT DEF CeilDiv

\* So does rounding a per-second price half up.
LEMMA RoundDivNat ==
  ASSUME NEW a \in Nat
  PROVE  RoundDiv(a, 60) \in Nat
  BY SMT DEF RoundDiv

\* Rounding up keeps order.
LEMMA CeilDivMonotone ==
  ASSUME NEW a \in Nat, NEW b \in Nat, a <= b
  PROVE  CeilDiv(a, 60) <= CeilDiv(b, 60)
  BY SMT DEF CeilDiv

\* Rounding half up keeps order.
LEMMA RoundDivMonotone ==
  ASSUME NEW a \in Nat, NEW b \in Nat, a <= b
  PROVE  RoundDiv(a, 60) <= RoundDiv(b, 60)
  BY SMT DEF RoundDiv

\* Rounding half up never exceeds rounding up.
LEMMA RoundDivBelowCeilDiv ==
  ASSUME NEW a \in Nat
  PROVE  RoundDiv(a, 60) <= CeilDiv(a, 60)
  BY SMT DEF RoundDiv, CeilDiv

\* Multiplying by a natural number keeps order and type.
LEMMA TimesMonotone ==
  ASSUME NEW a \in Nat, NEW b \in Nat, NEW k \in Nat, a <= b
  PROVE  /\ a * k <= b * k
         /\ a * k \in Nat
         /\ b * k \in Nat
  BY SMT
-----------------------------------------------------------------------------
(* Types.                                                                  *)

\* The fields of a PriceConfig.
LEMMA PriceType ==
  ASSUME NEW price \in PriceConfig
  PROVE  /\ price.billingMode \in BillingModes
         /\ price.pricePerMinuteCents \in Nat
         /\ price.pricePerCallCents \in Nat
  BY DEF PriceConfig

\* computeCallCost is a number of cents, never negative.
LEMMA CostNat ==
  ASSUME NEW price \in PriceConfig, NEW secs \in Nat
  PROVE  ComputeCallCost(secs, price) \in Nat
  <1>1. /\ price.pricePerMinuteCents \in Nat
        /\ price.pricePerCallCents \in Nat
    BY PriceType
  <1>2. /\ secs * price.pricePerMinuteCents \in Nat
        /\ CeilDiv(secs, 60) \in Nat
    BY <1>1, CeilDivNat, TimesMonotone
  <1>3. /\ CeilDiv(secs, 60) * price.pricePerMinuteCents \in Nat
        /\ RoundDiv(secs * price.pricePerMinuteCents, 60) \in Nat
    BY <1>1, <1>2, RoundDivNat, TimesMonotone
  <1>4. QED
    BY <1>1, <1>3 DEF ComputeCallCost

\* computeReservation is a number of cents, never negative.
LEMMA ReservationNat ==
  ASSUME NEW price \in PriceConfig, NEW secs \in Nat
  PROVE  ComputeReservation(secs, price) \in Nat
  <1>1. /\ price.pricePerMinuteCents \in Nat
        /\ price.pricePerCallCents \in Nat
    BY PriceType
  <1>2. /\ secs * price.pricePerMinuteCents \in Nat
        /\ CeilDiv(secs, 60) \in Nat
    BY <1>1, CeilDivNat, TimesMonotone
  <1>3. /\ CeilDiv(secs, 60) * price.pricePerMinuteCents \in Nat
        /\ CeilDiv(secs * price.pricePerMinuteCents, 60) \in Nat
    BY <1>1, <1>2, CeilDivNat, TimesMonotone
  <1>4. QED
    BY <1>1, <1>3 DEF ComputeReservation

-----------------------------------------------------------------------------
(* What a caller can rely on.                                              *)

\* A longer call never costs less, in any of the three billing modes.
THEOREM CostMonotone ==
  ASSUME NEW price \in PriceConfig, NEW s \in Nat, NEW t \in Nat, s <= t
  PROVE  ComputeCallCost(s, price) <= ComputeCallCost(t, price)
  <1>1. /\ price.pricePerMinuteCents \in Nat
        /\ price.pricePerCallCents \in Nat
    BY PriceType
  <1>2. /\ CeilDiv(s, 60) <= CeilDiv(t, 60)
        /\ CeilDiv(s, 60) \in Nat
        /\ CeilDiv(t, 60) \in Nat
    BY CeilDivMonotone, CeilDivNat
  <1>3. CeilDiv(s, 60) * price.pricePerMinuteCents
          <= CeilDiv(t, 60) * price.pricePerMinuteCents
    BY <1>1, <1>2, TimesMonotone
  <1>4. /\ s * price.pricePerMinuteCents <= t * price.pricePerMinuteCents
        /\ s * price.pricePerMinuteCents \in Nat
        /\ t * price.pricePerMinuteCents \in Nat
    BY <1>1, TimesMonotone
  <1>5. RoundDiv(s * price.pricePerMinuteCents, 60)
          <= RoundDiv(t * price.pricePerMinuteCents, 60)
    BY <1>4, RoundDivMonotone
  <1>6. QED
    BY <1>1, <1>3, <1>5 DEF ComputeCallCost

\* What is reserved at dial time covers the cost of every call that ends within
\* the agent's maximum duration, whatever the billing mode: settleCall never
\* has to debit more than was set aside.
THEOREM ReservationCoversCall ==
  ASSUME NEW price \in PriceConfig, NEW most \in Nat, NEW secs \in Nat,
         secs <= most
  PROVE  ComputeCallCost(secs, price) <= ComputeReservation(most, price)
  <1>1. /\ price.pricePerMinuteCents \in Nat
        /\ price.pricePerCallCents \in Nat
    BY PriceType
  <1>2. CeilDiv(secs, 60) * price.pricePerMinuteCents
          <= CeilDiv(most, 60) * price.pricePerMinuteCents
    BY <1>1, CeilDivMonotone, CeilDivNat, TimesMonotone
  <1>3. /\ secs * price.pricePerMinuteCents <= most * price.pricePerMinuteCents
        /\ secs * price.pricePerMinuteCents \in Nat
        /\ most * price.pricePerMinuteCents \in Nat
    BY <1>1, TimesMonotone
  <1>4. RoundDiv(secs * price.pricePerMinuteCents, 60)
          <= CeilDiv(most * price.pricePerMinuteCents, 60)
    <2>1. RoundDiv(secs * price.pricePerMinuteCents, 60)
            <= CeilDiv(secs * price.pricePerMinuteCents, 60)
      BY <1>3, RoundDivBelowCeilDiv
    <2>2. CeilDiv(secs * price.pricePerMinuteCents, 60)
            <= CeilDiv(most * price.pricePerMinuteCents, 60)
      BY <1>3, CeilDivMonotone
    <2>3. /\ RoundDiv(secs * price.pricePerMinuteCents, 60) \in Nat
          /\ CeilDiv(secs * price.pricePerMinuteCents, 60) \in Nat
          /\ CeilDiv(most * price.pricePerMinuteCents, 60) \in Nat
      BY <1>3, RoundDivNat, CeilDivNat
    <2>4. QED
      BY <2>1, <2>2, <2>3
  <1>5. QED
    BY <1>1, <1>2, <1>4 DEF ComputeCallCost, ComputeReservation
=============================================================================
