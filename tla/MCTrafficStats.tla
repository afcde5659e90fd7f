---------------------------- MODULE MCTrafficStats ----------------------------
(* Three days are kept and drawn; one of the days has 25 hours.              *)
EXTENDS TrafficStats

MCDayStart == [d \in 0..MaxDay |-> 24 * d + IF d > 1 THEN 1 ELSE 0]
=============================================================================
