----------------------------- MODULE TrafficStats -----------------------------
(***************************************************************************)
(* The traffic of one proxy, from the counters of frps to the bars of the  *)
(* dashboard: StandardDateCounter (pkg/util/metric/date_counter.go), a     *)
(* ring that is rotated only when it is used; the statistics that hold two *)
(* of them and the lock around them (pkg/metrics/mem/server.go);           *)
(* /api/traffic/{name}; and the component Traffic.vue, which asks for them *)
(* when it is mounted and draws whatever answer arrives.                   *)
(*                                                                         *)
(* A date is the number of a day; the clocks of server and browser agree   *)
(* on it and do not go back.                                               *)
(***************************************************************************)
EXTENDS Chart, FiniteSets

CONSTANTS
    ReserveDays,   \* days that a counter keeps: 7 in mem/types.go
    MaxDay,        \* bound: the last day
    DayStart,      \* the hour at which each day starts
    MaxBytes,      \* bound: bytes that are counted at a time
    MaxAdds,       \* bound: days with traffic, over both directions; a day
                   \* has one addition in each
    MaxReq         \* bound: requests of the browser under way

Day == 0..MaxDay

(* Server and browser both have 7 for the number of days. *)
ASSUME TrafficAssumption ==
    /\ ReserveDays \in Nat \ {0} /\ MaxDay \in Nat /\ MaxReq \in Nat
    /\ MaxBytes \in Nat /\ MaxAdds \in Nat
    /\ ChartDays = ReserveDays
    /\ DayStart \in [Day -> Nat]

(* rotate divides hours by 24 and rounds down: a day of 23 hours, at the   *)
(* start of summer time where time.Now().Location() has one, is no day to  *)
(* it.  This says that there is none; days of 25 hours may be, as long as  *)
(* they do not add up to another day.                                      *)
NoShortDays ==
    \A a, b \in Day :
       a <= b => LET days == (DayStart[b] - DayStart[a]) \div 24
                 IN  IF b - a < ReserveDays THEN days = b - a
                     ELSE days \in Nat /\ days >= ReserveDays

Dir == {"in", "out"}

Ago == 0..(ReserveDays - 1)

Slot == 1..MaxReq

VARIABLES
    day,      \* today
    known,    \* ProxyStatistics has an entry for the proxy
    counts,   \* counts[d] : the ring of the counter of direction d
    last,     \* last[d] : its lastUpdateDate
    box,      \* the element of Traffic.vue is in the document
    req,      \* requests to /api/traffic/{name}
    total     \* history: the bytes counted on each day since the entry is new

vars == <<day, known, counts, last, box, req, total>>

Zero == [i \in Ago |-> 0]

NoArr == <<>>

NoReq == [stage |-> "free", in |-> NoArr, out |-> NoArr, inDay |-> 0,
          outDay |-> 0, current |-> FALSE]

-----------------------------------------------------------------------------
(* The counter. *)

(* rotate: days between midnights, computed from hours. *)
Days(d) == (DayStart[day] - DayStart[last[d]]) \div 24

RotatedUncleared(d) ==
    IF Days(d) <= 0 THEN counts[d]
    ELSE IF Days(d) >= ReserveDays THEN Zero
    ELSE [i \in Ago |-> counts[d][IF i < Days(d) THEN i ELSE i - Days(d)]]

Rotated(d) ==
    IF Days(d) <= 0 THEN counts[d]
    ELSE IF Days(d) >= ReserveDays THEN Zero
    ELSE [i \in Ago |-> IF i < Days(d) THEN 0 ELSE counts[d][i - Days(d)]]

Rotate(d, ring) ==
    /\ counts' = [counts EXCEPT ![d] = ring]
    /\ last' = [last EXCEPT ![d] = day]

(* GetLastDaysCount(ReserveDays): an array that starts with today. *)
LastDays(d) == [i \in 1..ReserveDays |-> Rotated(d)[i - 1]]

(* GetProxyTraffic holds the lock of the statistics over both counters. *)
Locked == \E r \in Slot : req[r].stage = "half"

Days0 == [x \in Day |-> 0]

Init ==
    /\ day = 0
    /\ known = FALSE
    /\ counts = [d \in Dir |-> Zero]
    /\ last = [d \in Dir |-> 0]
    /\ box = FALSE
    /\ req = [r \in Slot |-> NoReq]
    /\ total = [d \in Dir |-> Days0]

Tick ==
    /\ day < MaxDay
    /\ day' = day + 1
    /\ UNCHANGED <<known, counts, last, box, req, total>>

(* NewProxy: an entry is made when there is none or its type is another.   *)
NewProxy ==
    /\ ~Locked
    /\ known' = TRUE
    /\ counts' = [d \in Dir |-> Zero]
    /\ last' = [d \in Dir |-> day]
    /\ total' = [d \in Dir |-> Days0]
    /\ req' = [r \in Slot |-> [req[r] EXCEPT !.current = FALSE]]
    /\ UNCHANGED <<day, box>>

(* clearUselessInfo drops the entry of a proxy closed more than 7 days ago;*)
(* here at any time, since closes are not modelled.                        *)
ClearUselessInfo ==
    /\ ~Locked /\ known
    /\ known' = FALSE
    /\ counts' = [d \in Dir |-> Zero]
    /\ last' = [d \in Dir |-> 0]
    /\ total' = [d \in Dir |-> Days0]
    /\ req' = [r \in Slot |-> [req[r] EXCEPT !.current = FALSE]]
    /\ UNCHANGED <<day, box>>

(* AddTrafficIn, AddTrafficOut: Inc of the counter. *)
AddTraffic(d, n) ==
    /\ ~Locked /\ known
    /\ Cardinality({p \in Dir \X Day : total[p[1]][p[2]] > 0}) < MaxAdds
    /\ total[d][day] = 0
    /\ Rotate(d, [Rotated(d) EXCEPT ![0] = @ + n])
    /\ total' = [total EXCEPT ![d][day] = @ + n]
    /\ UNCHANGED <<day, known, box, req>>

(* TodayCount, for the rows of a page of proxies. *)
TodayCount(d) ==
    /\ ~Locked /\ known /\ last[d] # day
    /\ Rotate(d, Rotated(d))
    /\ UNCHANGED <<day, known, box, req, total>>

-----------------------------------------------------------------------------
(* Traffic.vue and the request it makes. *)

(* The popover is opened: the component is mounted and asks. *)
Mount(r) ==
    /\ ~box
    /\ req[r].stage = "free" /\ \A q \in Slot : q < r => req[q].stage # "free"
    /\ box' = TRUE
    /\ req' = [req EXCEPT ![r].stage = "sent"]
    /\ UNCHANGED <<day, known, counts, last, total>>

(* The row or the page is left; requests go on. *)
Unmount ==
    /\ box
    /\ box' = FALSE
    /\ UNCHANGED <<day, known, counts, last, req, total>>

(* APIProxyTraffic, GetProxyTraffic: there may be no entry: 404 ... *)
NotFound(r) ==
    /\ req[r].stage = "sent" /\ ~Locked /\ ~known
    /\ req' = [req EXCEPT ![r].stage = "not found"]
    /\ UNCHANGED <<day, known, counts, last, box, total>>

(* ... or the counters are read one after the other, each by its own clock.*)
ReadIn(r) ==
    /\ req[r].stage = "sent" /\ ~Locked /\ known
    /\ Rotate("in", Rotated("in"))
    /\ req' = [req EXCEPT ![r] = [@ EXCEPT !.stage = "half", !.in = LastDays("in"),
                                           !.inDay = day, !.current = TRUE]]
    /\ UNCHANGED <<day, known, box, total>>

ReadOut(r) ==
    /\ req[r].stage = "half"
    /\ Rotate("out", Rotated("out"))
    /\ req' = [req EXCEPT ![r] = [@ EXCEPT !.stage = "answered",
                                           !.out = LastDays("out"), !.outDay = day]]
    /\ UNCHANGED <<day, known, box, total>>

(* What an answer looks like when it is drawn now. *)
Bars(r) == DrawProxyTrafficChart(req[r].in, req[r].out, day)

(* Bars(r) is drawn into the element that has the name of the proxy: the   *)
(* one of a later mount, if there is one.                                  *)
Draw(r) ==
    /\ req[r].stage = "answered" /\ box
    /\ req' = [req EXCEPT ![r] = NoReq]
    /\ UNCHANGED <<day, known, counts, last, box, total>>

(* No element, no JSON, or no answer: only the message of the catch.       *)
GetTrafficInfoFailed(r) ==
    /\ \/ req[r].stage = "answered" /\ ~box
       \/ req[r].stage \in {"not found", "sent"}
    /\ req' = [req EXCEPT ![r] = NoReq]
    /\ UNCHANGED <<day, known, counts, last, box, total>>

Next ==
    \/ Tick
    \/ NewProxy
    \/ ClearUselessInfo
    \/ \E d \in Dir, n \in 1..MaxBytes : AddTraffic(d, n)
    \/ \E d \in Dir : TodayCount(d)
    \/ \E r \in Slot : Mount(r) \/ NotFound(r) \/ ReadIn(r) \/ ReadOut(r)
                         \/ Draw(r) \/ GetTrafficInfoFailed(r)
    \/ Unmount

Spec == Init /\ [][Next]_vars

-----------------------------------------------------------------------------
(* The counters, rotated only when they are used, implement daily totals   *)
(* that move at midnight: what an unused counter would hold if it were     *)
(* used now.                                                               *)
Totals == INSTANCE DailyTotals WITH window <- [d \in Dir |-> Rotated(d)]

CountersAreDaily == Totals!Spec

(* The types of the variables; an array of an answer is as long as a ring. *)
Arr == [1..ReserveDays -> Nat]

Request ==
    [stage : {"free", "sent", "half", "not found", "answered"},
     in : Arr \cup {NoArr}, out : Arr \cup {NoArr}, inDay : Day, outDay : Day,
     current : BOOLEAN]

TypeOK ==
    /\ day \in Day /\ known \in BOOLEAN /\ box \in BOOLEAN
    /\ counts \in [Dir -> [Ago -> Nat]]
    /\ last \in [Dir -> Day]
    /\ req \in [Slot -> Request]
    /\ total \in [Dir -> [Day -> Nat]]
    /\ \A d \in Dir : last[d] <= day
    /\ \A r \in Slot :
         /\ req[r].stage \in {"half", "answered"} => req[r].in \in Arr
         /\ req[r].stage = "answered" => req[r].out \in Arr

(* The bytes of a day that the statistics still have. *)
BytesOn(d, x) == IF x \in Day THEN total[d][x] ELSE 0

(* The bars of a direction stand over the bytes of their dates. *)
Dated(dates, series, d) ==
    /\ DOMAIN series = 1..ChartDays /\ DOMAIN dates = 1..ChartDays
    /\ \A i \in 1..ChartDays : LET x == dates[i] IN
         /\ x < day => series[i] = BytesOn(d, x)
         /\ x = day => series[i] <= BytesOn(d, x)
         /\ x <= day

(* A chart that is drawn on the day on which its numbers were read shows,  *)
(* over each of its dates, the bytes counted on that date; over today's    *)
(* not more than were counted up to now.                                   *)
BarsAreDated ==
    [][\A r \in Slot :
         (Draw(r) /\ req[r].current /\ req[r].inDay = day /\ req[r].outDay = day) =>
            /\ Dated(Bars(r).dates, Bars(r).in, "in")
            /\ Dated(Bars(r).dates, Bars(r).out, "out")]_vars

=============================================================================
