-------------------------------- MODULE Chart --------------------------------
(***************************************************************************)
(* What the charts of the dashboard of frps show (web/frps utils/chart.ts):*)
(* the data of their series; layout, colours and number formats are left   *)
(* out.  Each of the functions throws when the element to draw into is not *)
(* in the document; that is a guard of the actions that draw.              *)
(***************************************************************************)
EXTENDS Integers, Sequences

CONSTANT ChartDays    \* days of the traffic chart: 7 in chart.ts

ASSUME ChartDaysAssumption == ChartDays \in Nat \ {0}

Slice(name, value) == [name |-> name, value |-> value]

SwappedTrafficChart(trafficIn, trafficOut) ==
    <<Slice("Traffic In", trafficOut), Slice("Traffic Out", trafficIn)>>

(* The pie of today's traffic. *)
DrawTrafficChart(trafficIn, trafficOut) ==
    <<Slice("Traffic In", trafficIn), Slice("Traffic Out", trafficOut)>>

(* The types of proxy that the overview asks for, in the order of the code.*)
CountedTypes == <<"tcp", "udp", "http", "https", "stcp", "sudp", "xtcp">>

(* The pie of proxies: a slice for every type that is there and not zero.  *)
(* count is an object of the JSON answer, a function on the keys it has.   *)
DrawProxyChart(count) ==
    LET Drawn(t) == t \in DOMAIN count /\ count[t] # 0
        types == SelectSeq(CountedTypes, Drawn)
    IN  [i \in 1..Len(types) |-> Slice(types[i], count[types[i]])]

Backwards(s) == [i \in 1..Len(s) |-> s[Len(s) + 1 - i]]

UnreversedTrafficChart(trafficInArr, trafficOutArr, today) ==
    [dates |-> [i \in 1..ChartDays |-> today - (ChartDays - 1) + (i - 1)],
     in |-> trafficInArr, out |-> trafficOutArr]

(* The bars of one proxy: ChartDays dates that end today, and the two      *)
(* arrays of the answer, which start with today, turned round.  A Date is  *)
(* a day number: new Date(y, m, d) carries over month and year.            *)
DrawProxyTrafficChart(trafficInArr, trafficOutArr, today) ==
    [dates |-> [i \in 1..ChartDays |-> today - (ChartDays - 1) + (i - 1)],
     in |-> Backwards(trafficInArr),
     out |-> Backwards(trafficOutArr)]
=============================================================================
