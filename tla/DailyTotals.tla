----------------------------- MODULE DailyTotals -----------------------------
(***************************************************************************)
(* What a counter with a history of days promises: at every midnight each  *)
(* day's total moves one day back and the oldest is forgotten, whether or  *)
(* not anybody looks.                                                      *)
(***************************************************************************)
EXTENDS Naturals

CONSTANTS ReserveDays, MaxDay, MaxBytes, Dir

VARIABLES
    day,     \* today
    window   \* window[d][i] : bytes in direction d, i days ago

Ago == 0..(ReserveDays - 1)

Zero == [i \in Ago |-> 0]

Init == day = 0 /\ window = [d \in Dir |-> Zero]

Midnight ==
    /\ day < MaxDay
    /\ day' = day + 1
    /\ window' = [d \in Dir |-> [i \in Ago |-> IF i = 0 THEN 0 ELSE window[d][i - 1]]]

Add(d, n) ==
    /\ window' = [window EXCEPT ![d][0] = @ + n]
    /\ UNCHANGED day

(* The statistics of the proxy are made anew. *)
Renew == window' = [d \in Dir |-> Zero] /\ UNCHANGED day

Next == Midnight \/ (\E d \in Dir, n \in 1..MaxBytes : Add(d, n)) \/ Renew

Spec == Init /\ [][Next]_<<day, window>>
=============================================================================
