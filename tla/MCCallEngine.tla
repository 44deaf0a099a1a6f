---------------------------- MODULE MCCallEngine ----------------------------
(* Small instances of CallEngine for TLC.                                  *)
EXTENDS CallEngine

CONSTANT c1

\* Two cents a minute, rounded up to the minute: a reservation of two cents for
\* a sixty-second call, which a ninety-second one overruns.
PerMinute == [billingMode |-> "PER_MINUTE", pricePerMinuteCents |-> 2,
              pricePerCallCents |-> 5]
=============================================================================
