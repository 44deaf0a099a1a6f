--------------------------- MODULE PostpaidCharge ---------------------------
(***************************************************************************)
(* What charging a call after it has happened promises: a call is closed   *)
(* once, closing it fixes its bill, and the bill is taken from the balance *)
(* at most once, whole, and never before.                                  *)
(***************************************************************************)
EXTENDS Integers

CONSTANT Calls

VARIABLES closed, \* calls whose record is final
          bill,   \* what each closed call costs
          taken   \* what was taken from the balance for each call

vars == <<closed, bill, taken>>

Init == /\ closed = {}
        /\ bill = [c \in Calls |-> 0]
        /\ taken = [c \in Calls |-> 0]

Close(c) == /\ c \notin closed
            /\ closed' = closed \cup {c}
            /\ bill' \in [Calls -> Nat]
            /\ \A d \in Calls \ {c} : bill'[d] = bill[d]
            /\ UNCHANGED taken

Take(c) == /\ c \in closed /\ bill[c] > 0 /\ taken[c] = 0
           /\ taken' = [taken EXCEPT ![c] = bill[c]]
           /\ UNCHANGED <<closed, bill>>

Next == \E c \in Calls : Close(c) \/ Take(c)

Spec == Init /\ [][Next]_vars
=============================================================================
