--------------------------- MODULE MCPostpaidCalls ---------------------------
(* A small instance of PostpaidCalls for TLC.                              *)
EXTENDS PostpaidCalls

CONSTANTS in1, ph

\* Two cents a started minute.
PerMinute == [billingMode |-> "PER_MINUTE", pricePerMinuteCents |-> 2,
              pricePerCallCents |-> 5]
=============================================================================
