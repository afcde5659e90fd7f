-------------------------- MODULE TrafficStatsProofs --------------------------
(***************************************************************************)
(* The rings of a proxy implement daily totals, and its chart is dated     *)
(* right, for any number of days, requests and bytes.  The parts of the    *)
(* inductive invariant take the state they speak of as arguments, so that  *)
(* the lemmas about them apply before and after a step.                    *)
(***************************************************************************)
EXTENDS TrafficStats, TLAPS

Totalled == [Dir -> [Day -> Nat]]

(* BytesOn, of the totals t. *)
Bytes(t, d, x) == IF x \in Day THEN t[d][x] ELSE 0

(* A ring that was last used on day l holds the bytes of the days up to l, *)
(* and none were counted since.                                            *)
RingOK(c, l, t, d) ==
    /\ \A i \in Ago : c[i] = Bytes(t, d, l - i)
    /\ \A x \in Day : x > l => t[d][x] = 0

Counters ==
    /\ NoShortDays
    /\ day \in Day /\ known \in BOOLEAN /\ box \in BOOLEAN
    /\ counts \in [Dir -> [Ago -> Nat]]
    /\ last \in [Dir -> Day]
    /\ total \in Totalled
    /\ \A d \in Dir : last[d] <= day /\ RingOK(counts[d], last[d], total, d)

(* The array of an answer: days that were over when it was read have their *)
(* bytes, the day of the reading has some of them.                         *)
Read(arr, t, d, x) ==
    \A i \in 1..ReserveDays :
       /\ arr[i] <= Bytes(t, d, x - (i - 1))
       /\ i > 1 => arr[i] = Bytes(t, d, x - (i - 1))

AnswerOK(q, now, t) ==
    /\ q.stage \in {"half", "answered"} =>
         /\ q.in \in Arr /\ q.inDay <= now
         /\ q.current => Read(q.in, t, "in", q.inDay)
    /\ q.stage = "answered" =>
         /\ q.out \in Arr /\ q.outDay <= now
         /\ q.current => Read(q.out, t, "out", q.outDay)

Answers ==
    /\ req \in [Slot -> Request]
    /\ \A r \in Slot : AnswerOK(req[r], day, total)

Inv == Counters /\ Answers

-----------------------------------------------------------------------------
(* The calendar and the rings. *)

LEMMA Bounds ==
    /\ ReserveDays \in Nat /\ ReserveDays > 0 /\ MaxDay \in Nat
    /\ Day \subseteq Nat /\ Ago \subseteq Nat /\ 0 \in Ago /\ 0 \in Day
    /\ \A x \in Day : x <= MaxDay
    /\ \A i \in 1..ReserveDays : i - 1 \in Ago
  BY TrafficAssumption DEF Day, Ago

LEMMA BytesNat ==
    ASSUME NEW t \in Totalled, NEW d \in Dir, NEW x \in Int
    PROVE  Bytes(t, d, x) \in Nat
  BY DEF Bytes, Totalled

(* rotate and the calendar: days apart, as far as a ring can tell. *)
LEMMA DaysApart ==
    ASSUME Counters, NEW d \in Dir
    PROVE  /\ Days(d) \in Nat
           /\ day - last[d] < ReserveDays => Days(d) = day - last[d]
           /\ day - last[d] >= ReserveDays => Days(d) >= ReserveDays
  <1>1. last[d] \in Day /\ day \in Day /\ last[d] <= day
    BY DEF Counters
  <1>2. LET days == (DayStart[day] - DayStart[last[d]]) \div 24
        IN  IF day - last[d] < ReserveDays THEN days = day - last[d]
            ELSE days \in Nat /\ days >= ReserveDays
    BY <1>1 DEF Counters, NoShortDays
  <1> QED  BY <1>1, <1>2, TrafficAssumption, SMTT(60) DEF Days, Day

(* A rotated ring holds the bytes of today and the days before. *)
LEMMA RotatedBytes ==
    ASSUME Counters, NEW d \in Dir
    PROVE  Rotated(d) = [i \in Ago |-> Bytes(total, d, day - i)]
  <1>1. /\ day \in Nat /\ last[d] \in Nat /\ last[d] <= day /\ day <= MaxDay
        /\ ReserveDays \in Nat /\ ReserveDays > 0 /\ MaxDay \in Nat
        /\ counts[d] \in [Ago -> Nat]
    BY TrafficAssumption DEF Counters, Day
  <1>2. /\ Days(d) \in Nat
        /\ day - last[d] < ReserveDays => Days(d) = day - last[d]
        /\ day - last[d] >= ReserveDays => Days(d) >= ReserveDays
    BY DaysApart
  <1> RingOK(counts[d], last[d], total, d)
    BY DEF Counters
  <1>3. \A i \in Ago : day - i > last[d] => Bytes(total, d, day - i) = 0
    BY <1>1 DEF RingOK, Bytes, Day, Ago
  <1>4. \A i \in Ago : counts[d][i] = Bytes(total, d, last[d] - i)
    BY DEF RingOK
  <1>5. CASE day = last[d]
    <2>1. Rotated(d) = counts[d]
      BY <1>1, <1>2, <1>5 DEF Rotated
    <2> QED  BY <1>1, <1>4, <1>5, <2>1
  <1>6. CASE day - last[d] >= ReserveDays
    <2>1. Rotated(d) = Zero
      BY <1>1, <1>2, <1>6 DEF Rotated
    <2>2. \A i \in Ago : Bytes(total, d, day - i) = 0
      BY <1>1, <1>3, <1>6 DEF Ago
    <2> QED  BY <2>1, <2>2 DEF Zero
  <1>7. CASE day # last[d] /\ day - last[d] < ReserveDays
    <2>1. Rotated(d) = [i \in Ago |-> IF i < Days(d) THEN 0 ELSE counts[d][i - Days(d)]]
      BY <1>1, <1>2, <1>7 DEF Rotated
    <2>2. ASSUME NEW i \in Ago, i < Days(d) PROVE Bytes(total, d, day - i) = 0
      BY <1>1, <1>2, <1>3, <1>7, <2>2 DEF Ago
    <2>3. ASSUME NEW i \in Ago, ~(i < Days(d))
          PROVE  counts[d][i - Days(d)] = Bytes(total, d, day - i)
      <3>1. i - Days(d) \in Ago /\ last[d] - (i - Days(d)) = day - i
        BY <1>1, <1>2, <1>7, <2>3, SMTT(60) DEF Ago
      <3> QED  BY <1>4, <3>1
    <2> QED  BY <2>1, <2>2, <2>3
  <1> QED  BY <1>1, <1>5, <1>6, <1>7

(* What a counter returns is what was counted, day by day. *)
LEMMA LastDaysRead ==
    ASSUME Counters, NEW d \in Dir
    PROVE  /\ Rotated(d) \in [Ago -> Nat]
           /\ RingOK(Rotated(d), day, total, d)
           /\ LastDays(d) \in Arr
           /\ Read(LastDays(d), total, d, day)
  <1>1. day \in Nat /\ total \in Totalled
    BY Bounds DEF Counters
  <1>2. Rotated(d) = [i \in Ago |-> Bytes(total, d, day - i)]
    BY RotatedBytes
  <1>3. \A i \in Ago : day - i \in Int
    BY <1>1, Bounds
  <1>4. \A i \in Ago : Bytes(total, d, day - i) \in Nat
    BY <1>1, <1>3, BytesNat
  <1>5. Rotated(d) \in [Ago -> Nat]
    BY <1>2, <1>4
  <1>6. \A x \in Day : x > day => total[d][x] = 0
    <2>1. last[d] \in Nat /\ last[d] <= day
      BY Bounds DEF Counters
    <2>2. \A x \in Day : x > last[d] => total[d][x] = 0
      BY DEF Counters, RingOK
    <2> QED  BY <1>1, <2>1, <2>2, Bounds
  <1>7. RingOK(Rotated(d), day, total, d)
    BY <1>2, <1>6 DEF RingOK
  <1>8. LastDays(d) \in Arr
    BY <1>5, Bounds DEF LastDays, Arr
  <1>9. \A i \in 1..ReserveDays : LastDays(d)[i] = Bytes(total, d, day - (i - 1))
    BY <1>2, Bounds DEF LastDays
  <1>10. \A i \in 1..ReserveDays : Bytes(total, d, day - (i - 1)) \in Nat
    BY <1>4, Bounds
  <1>11. Read(LastDays(d), total, d, day)
    BY <1>9, <1>10 DEF Read
  <1> QED  BY <1>5, <1>7, <1>8, <1>11

(* An answer stays right while days pass and bytes of today are added.     *)
LEMMA AnswerStays ==
    ASSUME NEW q \in Request, NEW now \in Day, NEW then \in Day, now <= then,
           NEW t \in Totalled, NEW u \in Totalled,
           AnswerOK(q, now, t),
           \A d \in Dir, x \in Day : /\ t[d][x] <= u[d][x]
                                     /\ x < now => t[d][x] = u[d][x]
    PROVE  AnswerOK(q, then, u)
  <1>1. q.inDay \in Day /\ q.outDay \in Day
    BY DEF Request
  <1>2. ASSUME NEW arr \in Arr, NEW d \in Dir, NEW x \in Day, x <= now, Read(arr, t, d, x)
        PROVE  Read(arr, u, d, x)
    <2> SUFFICES ASSUME NEW i \in 1..ReserveDays
                 PROVE  /\ arr[i] <= Bytes(u, d, x - (i - 1))
                        /\ i > 1 => arr[i] = Bytes(u, d, x - (i - 1))
      BY DEF Read
    <2> DEFINE y == x - (i - 1)
    <2>1. /\ i \in Nat /\ i >= 1 /\ x \in Nat /\ now \in Nat /\ y \in Int
          /\ i > 1 => y < now
      BY <1>2, Bounds
    <2>2. arr[i] \in Nat /\ arr[i] <= Bytes(t, d, y) /\ (i > 1 => arr[i] = Bytes(t, d, y))
      BY <1>2 DEF Read, Arr
    <2>3. /\ Bytes(t, d, y) \in Nat /\ Bytes(u, d, y) \in Nat
      BY <2>1, BytesNat
    <2>4. /\ Bytes(t, d, y) <= Bytes(u, d, y)
          /\ y < now => Bytes(t, d, y) = Bytes(u, d, y)
      BY DEF Bytes
    <2> HIDE DEF y
    <2>5. arr[i] <= Bytes(u, d, y) /\ (i > 1 => arr[i] = Bytes(u, d, y))
      BY <2>1, <2>2, <2>3, <2>4
    <2> QED  BY <2>5 DEF y
  <1>3. now \in Nat /\ then \in Nat /\ q.inDay \in Nat /\ q.outDay \in Nat
    BY <1>1, Bounds
  <1>4. "in" \in Dir /\ "out" \in Dir
    BY DEF Dir
  <1>5. q.stage \in {"half", "answered"} =>
          /\ q.in \in Arr /\ q.inDay <= then
          /\ q.current => Read(q.in, u, "in", q.inDay)
    <2> SUFFICES ASSUME q.stage \in {"half", "answered"}
                 PROVE  /\ q.in \in Arr /\ q.inDay <= then
                        /\ q.current => Read(q.in, u, "in", q.inDay)
      OBVIOUS
    <2>1. /\ q.in \in Arr /\ q.inDay <= now
          /\ q.current => Read(q.in, t, "in", q.inDay)
      BY DEF AnswerOK
    <2>2. q.inDay <= then
      BY <1>3, <2>1
    <2> QED  BY <1>1, <1>2, <1>4, <2>1, <2>2
  <1>6. q.stage = "answered" =>
          /\ q.out \in Arr /\ q.outDay <= then
          /\ q.current => Read(q.out, u, "out", q.outDay)
    <2> SUFFICES ASSUME q.stage = "answered"
                 PROVE  /\ q.out \in Arr /\ q.outDay <= then
                        /\ q.current => Read(q.out, u, "out", q.outDay)
      OBVIOUS
    <2>1. /\ q.out \in Arr /\ q.outDay <= now
          /\ q.current => Read(q.out, t, "out", q.outDay)
      BY DEF AnswerOK
    <2>2. q.outDay <= then
      BY <1>3, <2>1
    <2> QED  BY <1>1, <1>2, <1>4, <2>1, <2>2
  <1> QED  BY <1>5, <1>6 DEF AnswerOK

-----------------------------------------------------------------------------
(* The counters. *)

LEMMA ZeroRing ==
    ASSUME NEW d \in Dir, NEW l \in Int
    PROVE  /\ Zero \in [Ago -> Nat] /\ [e \in Dir |-> Days0] \in Totalled
           /\ RingOK(Zero, l, [e \in Dir |-> Days0], d)
  BY DEF Zero, Days0, Totalled, RingOK, Bytes

LEMMA InitInv == NoShortDays /\ Init => Inv
  <1> SUFFICES ASSUME NoShortDays, Init PROVE Inv
    OBVIOUS
  <1>1. Counters
    <2>1. /\ counts = [d \in Dir |-> Zero] /\ last = [d \in Dir |-> 0] /\ day = 0
          /\ total = [d \in Dir |-> Days0] /\ known = FALSE /\ box = FALSE
      BY DEF Init
    <2>2. \A d \in Dir : /\ Zero \in [Ago -> Nat] /\ total \in Totalled
                         /\ RingOK(Zero, 0, total, d)
      BY <2>1, ZeroRing
    <2>3. "in" \in Dir
      BY DEF Dir
    <2>4. \A d \in Dir : last[d] <= day /\ RingOK(counts[d], last[d], total, d)
      BY <2>1, <2>2
    <2>5. counts \in [Dir -> [Ago -> Nat]] /\ last \in [Dir -> Day] /\ total \in Totalled
      BY <2>1, <2>2, <2>3, Bounds
    <2> QED  BY <2>1, <2>4, <2>5, Bounds DEF Counters
  <1>2. Answers
    <2>1. NoReq \in Request
      BY Bounds DEF NoReq, Request
    <2>2. \A x : AnswerOK(NoReq, x, total)
      BY DEF AnswerOK, NoReq
    <2> QED  BY <2>1, <2>2 DEF Init, Answers
  <1> QED  BY <1>1, <1>2 DEF Inv

(* A counter is brought up to date. *)
LEMMA RotateStep ==
    ASSUME Counters, NEW d \in Dir, Rotate(d, Rotated(d)),
           UNCHANGED <<day, known, total>>, box' \in BOOLEAN
    PROVE  Counters'
  <1>1. /\ counts' = [counts EXCEPT ![d] = Rotated(d)]
        /\ last' = [last EXCEPT ![d] = day] /\ day' = day /\ total' = total
        /\ known' = known
    BY DEF Rotate
  <1>2. Rotated(d) \in [Ago -> Nat] /\ RingOK(Rotated(d), day, total, d)
    BY LastDaysRead
  <1>3. /\ counts \in [Dir -> [Ago -> Nat]] /\ last \in [Dir -> Day] /\ day \in Day
        /\ total \in Totalled /\ known \in BOOLEAN
        /\ \A e \in Dir : last[e] <= day /\ RingOK(counts[e], last[e], total, e)
    BY DEF Counters
  <1>4. counts' \in [Dir -> [Ago -> Nat]] /\ last' \in [Dir -> Day]
    BY <1>1, <1>2, <1>3
  <1>5. ASSUME NEW e \in Dir
        PROVE  last'[e] <= day' /\ RingOK(counts'[e], last'[e], total', e)
    <2>1. CASE e = d
      <3>1. counts'[e] = Rotated(d) /\ last'[e] = day
        BY <1>1, <1>3, <2>1
      <3>2. last'[e] <= day'
        BY <1>1, <1>3, <3>1, Bounds
      <3> QED  BY <1>1, <1>2, <2>1, <3>1, <3>2
    <2>2. CASE e # d
      <3>1. counts'[e] = counts[e] /\ last'[e] = last[e]
        BY <1>1, <1>3, <2>2
      <3> QED  BY <1>1, <1>3, <3>1
    <2> QED  BY <2>1, <2>2
  <1> QED  BY <1>1, <1>3, <1>4, <1>5 DEF Counters

LEMMA TickCounters ==
    ASSUME Counters, Tick PROVE Counters'
  <1> /\ day' = day + 1 /\ day < MaxDay
      /\ UNCHANGED <<known, counts, last, box, total>>
    BY DEF Tick
  <1> day \in Day
    BY DEF Counters
  <1>0. day \in Nat /\ MaxDay \in Nat
    BY Bounds
  <1>1. day \in Nat /\ day' \in Day
    BY <1>0 DEF Day
  <1>2. \A d \in Dir : last[d] \in Nat /\ last[d] <= day'
    <2>1. \A d \in Dir : last[d] \in Nat /\ last[d] <= day
      BY Bounds DEF Counters
    <2> QED  BY <1>0, <2>1
  <1> QED  BY <1>1, <1>2 DEF Counters

(* A new entry, or none: rings and totals are empty. *)
LEMMA RenewCounters ==
    ASSUME Counters, NEW x \in Day, x <= day, day' = day, box' = box, known' \in BOOLEAN,
           counts' = [d \in Dir |-> Zero], last' = [d \in Dir |-> x],
           total' = [d \in Dir |-> Days0]
    PROVE  Counters'
  <1>1. \A d \in Dir : /\ Zero \in [Ago -> Nat] /\ total' \in Totalled
                       /\ RingOK(Zero, x, total', d)
    BY ZeroRing, Bounds
  <1>2. "in" \in Dir
    BY DEF Dir
  <1>3. counts' \in [Dir -> [Ago -> Nat]] /\ last' \in [Dir -> Day] /\ total' \in Totalled
    BY <1>1, <1>2
  <1>4. \A d \in Dir : last'[d] <= day' /\ RingOK(counts'[d], last'[d], total', d)
    BY <1>1
  <1> QED  BY <1>3, <1>4 DEF Counters

(* Inc: the totals grow today, and nothing else does. *)
LEMMA AddTotals ==
    ASSUME Counters, NEW d \in Dir, NEW n \in 1..MaxBytes, AddTraffic(d, n)
    PROVE  /\ total' \in Totalled
           /\ \A e \in Dir, x \in Day :
                total'[e][x] = IF e = d /\ x = day THEN total[e][x] + n ELSE total[e][x]
  <1>1. total \in Totalled /\ day \in Day /\ n \in Nat
    BY TrafficAssumption DEF Counters
  <1>2. total' = [total EXCEPT ![d] = [total[d] EXCEPT ![day] = total[d][day] + n]]
    BY DEF AddTraffic
  <1>3. total[d][day] + n \in Nat
    BY <1>1 DEF Totalled
  <1> QED  BY <1>1, <1>2, <1>3 DEF Totalled

LEMMA AddCounters ==
    ASSUME Counters, NEW d \in Dir, NEW n \in 1..MaxBytes, AddTraffic(d, n)
    PROVE  Counters'
  <1>1. /\ counts' = [counts EXCEPT ![d] = [Rotated(d) EXCEPT ![0] = Rotated(d)[0] + n]]
        /\ last' = [last EXCEPT ![d] = day]
        /\ UNCHANGED <<day, known, box>>
    BY DEF AddTraffic, Rotate
  <1>2. Rotated(d) \in [Ago -> Nat] /\ RingOK(Rotated(d), day, total, d)
    BY LastDaysRead
  <1>3. /\ counts \in [Dir -> [Ago -> Nat]] /\ last \in [Dir -> Day] /\ day \in Day
        /\ total \in Totalled /\ known \in BOOLEAN /\ box \in BOOLEAN
        /\ \A e \in Dir : last[e] <= day /\ RingOK(counts[e], last[e], total, e)
        /\ n \in Nat /\ day \in Nat
    BY TrafficAssumption, Bounds DEF Counters
  <1>4. /\ total' \in Totalled
        /\ \A e \in Dir, x \in Day :
             total'[e][x] = IF e = d /\ x = day THEN total[e][x] + n ELSE total[e][x]
    BY AddTotals
  <1> DEFINE ring == [Rotated(d) EXCEPT ![0] = Rotated(d)[0] + n]
  <1>5. ring \in [Ago -> Nat]
    BY <1>2, <1>3, Bounds
  <1>6. RingOK(ring, day, total', d)
    <2>1. ASSUME NEW i \in Ago PROVE ring[i] = Bytes(total', d, day - i)
      <3>1. Rotated(d)[i] = Bytes(total, d, day - i) /\ i \in Nat
        BY <1>2, Bounds DEF RingOK
      <3>2. CASE i = 0
        <4>1. ring[i] = Rotated(d)[i] + n /\ day - i = day
          BY <1>2, <1>3, <3>2, Bounds
        <4> QED  BY <1>3, <1>4, <3>1, <4>1 DEF Bytes
      <3>3. CASE i # 0
        <4>1. ring[i] = Rotated(d)[i] /\ day - i # day
          BY <1>2, <1>3, <3>1, <3>3, Bounds
        <4> QED  BY <1>3, <1>4, <3>1, <4>1 DEF Bytes
      <3> QED  BY <3>2, <3>3
    <2>2. \A x \in Day : x > day => total'[d][x] = 0
      BY <1>2, <1>3, <1>4, Bounds DEF RingOK
    <2> QED  BY <2>1, <2>2 DEF RingOK
  <1> HIDE DEF ring
  <1>7. ASSUME NEW e \in Dir
        PROVE  last'[e] <= day' /\ RingOK(counts'[e], last'[e], total', e)
    <2>1. CASE e = d
      <3>1. counts'[e] = ring /\ last'[e] = day
        BY <1>1, <1>3, <2>1 DEF ring
      <3>2. last'[e] <= day'
        BY <1>1, <1>3, <3>1, Bounds
      <3> QED  BY <1>6, <2>1, <3>1, <3>2
    <2>2. CASE e # d
      <3>1. counts'[e] = counts[e] /\ last'[e] = last[e]
        BY <1>1, <1>3, <2>2
      <3>2. \A x \in Day : total'[e][x] = total[e][x]
        BY <1>4, <2>2
      <3>3. RingOK(counts[e], last[e], total', e)
        BY <1>3, <3>2 DEF RingOK, Bytes
      <3> QED  BY <1>1, <1>3, <3>1, <3>3
    <2> QED  BY <2>1, <2>2
  <1>8. counts' \in [Dir -> [Ago -> Nat]] /\ last' \in [Dir -> Day]
    BY <1>1, <1>3, <1>5 DEF ring
  <1> QED  BY <1>1, <1>3, <1>4, <1>7, <1>8 DEF Counters

-----------------------------------------------------------------------------
(* The answers. *)

(* A step that replaces one request and keeps day and totals. *)
LEMMA AnswersOne ==
    ASSUME Answers, NEW r \in Slot, NEW q \in Request,
           UNCHANGED <<day, total>>, AnswerOK(q, day, total),
           req' = [req EXCEPT ![r] = q]
    PROVE  Answers'
  <1>1. req' \in [Slot -> Request]
    BY DEF Answers
  <1>2. \A p \in Slot : AnswerOK(req'[p], day', total')
    BY DEF Answers
  <1> QED  BY <1>1, <1>2 DEF Answers

LEMMA NoAnswer ==
    /\ NoReq \in Request
    /\ \A now, t : AnswerOK(NoReq, now, t)
  BY Bounds DEF NoReq, Request, AnswerOK

(* A request that carries no answer yet, or none at all. *)
LEMMA StageOnly ==
    ASSUME NEW q \in Request, NEW s \in {"sent", "not found"}, NEW now, NEW t
    PROVE  /\ [q EXCEPT !.stage = s] \in Request
           /\ AnswerOK([q EXCEPT !.stage = s], now, t)
  BY DEF Request, AnswerOK

(* The entry is made anew: no answer is current any more. *)
LEMMA AnswersRenewed ==
    ASSUME Answers, Counters, day' = day,
           req' = [r \in Slot |-> [req[r] EXCEPT !.current = FALSE]]
    PROVE  Answers'
  <1>1. ASSUME NEW r \in Slot
        PROVE  req'[r] \in Request /\ AnswerOK(req'[r], day', total')
    <2>1. req[r] \in Request /\ AnswerOK(req[r], day, total)
      BY DEF Answers
    <2>2. req'[r] = [req[r] EXCEPT !.current = FALSE]
      OBVIOUS
    <2>3. req'[r] \in Request
      BY <2>1, <2>2 DEF Request
    <2>4. /\ req'[r].stage = req[r].stage /\ req'[r].in = req[r].in
          /\ req'[r].out = req[r].out /\ req'[r].inDay = req[r].inDay
          /\ req'[r].outDay = req[r].outDay /\ req'[r].current = FALSE
      BY <2>1, <2>2 DEF Request
    <2>5. AnswerOK(req'[r], day', total')
      BY <2>1, <2>4 DEF AnswerOK
    <2> QED  BY <2>3, <2>5
  <1>2. req' \in [Slot -> Request]
    BY <1>1
  <1> QED  BY <1>1, <1>2 DEF Answers

(* Days pass and bytes are added; the requests stay. *)
LEMMA AnswersAge ==
    ASSUME Answers, Counters, Counters', day <= day', req' = req,
           \A d \in Dir, x \in Day : /\ total[d][x] <= total'[d][x]
                                     /\ x < day => total[d][x] = total'[d][x]
    PROVE  Answers'
  <1>1. day \in Day /\ day' \in Day /\ total \in Totalled /\ total' \in Totalled
    BY DEF Counters
  <1>2. \A r \in Slot : req[r] \in Request /\ AnswerOK(req[r], day, total)
    BY DEF Answers
  <1>3. \A r \in Slot : AnswerOK(req[r], day', total')
    BY <1>1, <1>2, AnswerStays
  <1> QED  BY <1>3 DEF Answers

LEMMA ReadInAnswers ==
    ASSUME Inv, NEW r \in Slot, ReadIn(r) PROVE Answers'
  <1> DEFINE q == [req[r] EXCEPT !.stage = "half", !.in = LastDays("in"),
                                 !.inDay = day, !.current = TRUE]
  <1>1. Answers /\ Counters /\ req[r] \in Request /\ day \in Day /\ day \in Nat
    BY Bounds DEF Inv, Answers, Counters
  <1>2. LastDays("in") \in Arr /\ Read(LastDays("in"), total, "in", day)
    BY <1>1, LastDaysRead DEF Dir
  <1>3. q \in Request
    BY <1>1, <1>2 DEF Request
  <1>4. /\ q.stage = "half" /\ q.in = LastDays("in") /\ q.inDay = day
    BY <1>1 DEF Request
  <1>5. AnswerOK(q, day, total)
    BY <1>1, <1>2, <1>4 DEF AnswerOK
  <1>6. req' = [req EXCEPT ![r] = q] /\ UNCHANGED <<day, total>>
    BY DEF ReadIn
  <1> HIDE DEF q
  <1> QED  BY <1>1, <1>3, <1>5, <1>6, AnswersOne

LEMMA ReadOutAnswers ==
    ASSUME Inv, NEW r \in Slot, ReadOut(r) PROVE Answers'
  <1> DEFINE q == [req[r] EXCEPT !.stage = "answered", !.out = LastDays("out"),
                                 !.outDay = day]
  <1>1. /\ Answers /\ Counters /\ req[r] \in Request /\ day \in Day /\ day \in Nat
        /\ AnswerOK(req[r], day, total) /\ req[r].stage = "half"
    BY Bounds DEF Inv, Answers, Counters, ReadOut
  <1>2. LastDays("out") \in Arr /\ Read(LastDays("out"), total, "out", day)
    BY <1>1, LastDaysRead DEF Dir
  <1>3. q \in Request
    BY <1>1, <1>2 DEF Request
  <1>4. /\ q.stage = "answered" /\ q.out = LastDays("out") /\ q.outDay = day
        /\ q.in = req[r].in /\ q.inDay = req[r].inDay /\ q.current = req[r].current
    BY <1>1 DEF Request
  <1>5. AnswerOK(q, day, total)
    BY <1>1, <1>2, <1>4 DEF AnswerOK
  <1>6. req' = [req EXCEPT ![r] = q] /\ UNCHANGED <<day, total>>
    BY DEF ReadOut
  <1> HIDE DEF q
  <1> QED  BY <1>1, <1>3, <1>5, <1>6, AnswersOne

-----------------------------------------------------------------------------
(* Every step keeps the invariant. *)

(* A step of the page that changes one request, or only the page. *)
LEMMA CountersStay ==
    ASSUME Counters, UNCHANGED <<day, known, counts, last, total>>, box' \in BOOLEAN
    PROVE  Counters'
  BY DEF Counters

LEMMA StepInv ==
    ASSUME Inv, [Next]_vars PROVE Inv'
  <1> Counters /\ Answers
    BY DEF Inv
  <1>0. day \in Day /\ day \in Nat /\ 0 <= day /\ box \in BOOLEAN /\ total \in Totalled
    BY Bounds DEF Counters
  <1>1. CASE Tick
    <2>1. Counters'
      BY <1>1, TickCounters
    <2>2. req' = req /\ total' = total /\ day <= day'
      BY <1>0, <1>1 DEF Tick
    <2>3. \A d \in Dir, x \in Day : total[d][x] <= total[d][x]
      BY <1>0 DEF Totalled
    <2> QED  BY <2>1, <2>2, <2>3, AnswersAge DEF Inv
  <1>2. CASE NewProxy
    <2>1. /\ day' = day /\ box' = box /\ known' \in BOOLEAN /\ day <= day
          /\ counts' = [d \in Dir |-> Zero] /\ last' = [d \in Dir |-> day]
          /\ total' = [d \in Dir |-> Days0]
          /\ req' = [r \in Slot |-> [req[r] EXCEPT !.current = FALSE]]
      BY <1>0, <1>2 DEF NewProxy
    <2>2. Counters'
      BY <1>0, <2>1, RenewCounters
    <2> QED  BY <2>1, <2>2, AnswersRenewed DEF Inv
  <1>3. CASE ClearUselessInfo
    <2>1. /\ day' = day /\ box' = box /\ known' \in BOOLEAN
          /\ counts' = [d \in Dir |-> Zero] /\ last' = [d \in Dir |-> 0]
          /\ total' = [d \in Dir |-> Days0]
          /\ req' = [r \in Slot |-> [req[r] EXCEPT !.current = FALSE]]
      BY <1>3 DEF ClearUselessInfo
    <2>2. Counters'
      BY <1>0, <2>1, RenewCounters, Bounds
    <2> QED  BY <2>1, <2>2, AnswersRenewed DEF Inv
  <1>4. ASSUME NEW d \in Dir, NEW n \in 1..MaxBytes, AddTraffic(d, n) PROVE Inv'
    <2>1. Counters'
      BY <1>4, AddCounters
    <2>2. \A e \in Dir, x \in Day :
             total'[e][x] = IF e = d /\ x = day THEN total[e][x] + n ELSE total[e][x]
      BY <1>4, AddTotals
    <2>3. \A e \in Dir, x \in Day : /\ total[e][x] <= total'[e][x]
                                    /\ x < day => total[e][x] = total'[e][x]
      <3> n \in Nat
        BY TrafficAssumption
      <3>1. \A e \in Dir, x \in Day : total[e][x] \in Nat
        BY <1>0 DEF Totalled
      <3> QED  BY <1>0, <2>2, <3>1
    <2>4. req' = req /\ day <= day'
      BY <1>0, <1>4 DEF AddTraffic
    <2> QED  BY <2>1, <2>3, <2>4, AnswersAge DEF Inv
  <1>5. ASSUME NEW d \in Dir, TodayCount(d) PROVE Inv'
    <2>1. /\ Rotate(d, Rotated(d)) /\ UNCHANGED <<day, known, total>> /\ box' \in BOOLEAN
          /\ req' = req
      BY <1>0, <1>5 DEF TodayCount
    <2>2. Counters'
      BY <2>1, RotateStep
    <2>3. Answers'
      BY <2>1 DEF Answers
    <2> QED  BY <2>2, <2>3 DEF Inv
  <1>6. ASSUME NEW r \in Slot, Mount(r) \/ NotFound(r) PROVE Inv'
    <2>1. PICK s \in {"sent", "not found"} :
            req' = [req EXCEPT ![r] = [req[r] EXCEPT !.stage = s]]
      BY <1>6 DEF Mount, NotFound
    <2>2. UNCHANGED <<day, known, counts, last, total>> /\ box' \in BOOLEAN
      BY <1>0, <1>6 DEF Mount, NotFound
    <2>3. req[r] \in Request
      BY DEF Answers
    <2>4. /\ [req[r] EXCEPT !.stage = s] \in Request
          /\ AnswerOK([req[r] EXCEPT !.stage = s], day, total)
      BY <2>3, StageOnly
    <2>5. Answers'
      BY <2>1, <2>2, <2>4, AnswersOne
    <2> QED  BY <2>2, <2>5, CountersStay DEF Inv
  <1>7. ASSUME NEW r \in Slot, ReadIn(r) PROVE Inv'
    <2>1. /\ Rotate("in", Rotated("in")) /\ UNCHANGED <<day, known, total>>
          /\ box' \in BOOLEAN /\ "in" \in Dir
      BY <1>0, <1>7 DEF ReadIn, Dir
    <2> QED  BY <1>7, <2>1, RotateStep, ReadInAnswers DEF Inv
  <1>8. ASSUME NEW r \in Slot, ReadOut(r) PROVE Inv'
    <2>1. /\ Rotate("out", Rotated("out")) /\ UNCHANGED <<day, known, total>>
          /\ box' \in BOOLEAN /\ "out" \in Dir
      BY <1>0, <1>8 DEF ReadOut, Dir
    <2> QED  BY <1>8, <2>1, RotateStep, ReadOutAnswers DEF Inv
  <1>9. ASSUME NEW r \in Slot, Draw(r) \/ GetTrafficInfoFailed(r) PROVE Inv'
    <2>1. /\ req' = [req EXCEPT ![r] = NoReq] /\ box' \in BOOLEAN
          /\ UNCHANGED <<day, known, counts, last, total>>
      BY <1>0, <1>9 DEF Draw, GetTrafficInfoFailed
    <2>2. Answers'
      BY <2>1, NoAnswer, AnswersOne
    <2> QED  BY <2>1, <2>2, CountersStay DEF Inv
  <1>10. CASE Unmount
    <2>1. UNCHANGED <<day, known, counts, last, req, total>> /\ box' \in BOOLEAN
      BY <1>10 DEF Unmount
    <2>2. Answers'
      BY <2>1 DEF Answers
    <2> QED  BY <2>1, <2>2, CountersStay DEF Inv
  <1>11. CASE UNCHANGED vars
    BY <1>11 DEF vars, Inv, Counters, Answers
  <1> QED
    BY <1>1, <1>2, <1>3, <1>4, <1>5, <1>6, <1>7, <1>8, <1>9, <1>10, <1>11 DEF Next

LEMMA InvAlways == NoShortDays => (Spec => []Inv)
  <1>1. NoShortDays /\ Init => Inv
    BY InitInv
  <1>2. Inv /\ [Next]_vars => Inv'
    BY StepInv
  <1> QED  BY <1>1, <1>2, PTL DEF Spec

-----------------------------------------------------------------------------
(* The types need no calendar. *)

(* A ring stays a ring of numbers, whatever rotate makes of the hours. *)
LEMMA RotatedType ==
    ASSUME TypeOK, NEW d \in Dir
    PROVE  Rotated(d) \in [Ago -> Nat] /\ LastDays(d) \in Arr
  <1>1. /\ counts[d] \in [Ago -> Nat] /\ Zero \in [Ago -> Nat]
        /\ DayStart[day] \in Nat /\ DayStart[last[d]] \in Nat
    BY TrafficAssumption DEF TypeOK, Zero
  <1>2. Days(d) \in Int
    BY <1>1 DEF Days
  <1>3. \A i \in Ago : Days(d) > 0 /\ ~(i < Days(d)) => i - Days(d) \in Ago
    BY <1>2, Bounds, TrafficAssumption DEF Ago
  <1>4. Rotated(d) \in [Ago -> Nat]
    <2>1. CASE Days(d) <= 0
      BY <1>1, <2>1 DEF Rotated
    <2>2. CASE Days(d) > 0 /\ Days(d) >= ReserveDays
      BY <1>1, <1>2, <2>2 DEF Rotated
    <2>3. CASE Days(d) > 0 /\ ~(Days(d) >= ReserveDays)
      <3>1. Rotated(d) = [i \in Ago |-> IF i < Days(d) THEN 0 ELSE counts[d][i - Days(d)]]
        BY <1>2, <2>3 DEF Rotated
      <3>2. \A i \in Ago : (IF i < Days(d) THEN 0 ELSE counts[d][i - Days(d)]) \in Nat
        BY <1>1, <1>3, <2>3
      <3> QED  BY <3>1, <3>2
    <2> QED  BY <1>2, <2>1, <2>2, <2>3
  <1> QED  BY <1>4, Bounds DEF LastDays, Arr

(* The parts of TypeOK. *)
RequestsOK ==
    /\ req \in [Slot -> Request]
    /\ \A r \in Slot :
         /\ req[r].stage \in {"half", "answered"} => req[r].in \in Arr
         /\ req[r].stage = "answered" => req[r].out \in Arr

(* Answers that are forgotten, and the rest of a request as it was. *)
LEMMA OneRequestOK ==
    ASSUME RequestsOK, NEW r \in Slot, NEW q \in Request, req' = [req EXCEPT ![r] = q],
           q.stage \in {"half", "answered"} => q.in \in Arr,
           q.stage = "answered" => q.out \in Arr
    PROVE  RequestsOK'
  BY DEF RequestsOK

LEMMA RequestsForgotten ==
    ASSUME RequestsOK, req' = [r \in Slot |-> [req[r] EXCEPT !.current = FALSE]]
    PROVE  RequestsOK'
  <1>1. ASSUME NEW r \in Slot
        PROVE  /\ req'[r] \in Request
               /\ req'[r].stage = req[r].stage /\ req'[r].in = req[r].in
               /\ req'[r].out = req[r].out
    BY DEF RequestsOK, Request
  <1>2. req' \in [Slot -> Request]
    BY <1>1
  <1> QED  BY <1>1, <1>2 DEF RequestsOK

CountersTyped ==
    /\ day \in Day /\ known \in BOOLEAN /\ box \in BOOLEAN
    /\ counts \in [Dir -> [Ago -> Nat]]
    /\ last \in [Dir -> Day]
    /\ total \in [Dir -> [Day -> Nat]]
    /\ \A d \in Dir : last[d] <= day

LEMMA RotateTyped ==
    ASSUME CountersTyped, NEW d \in Dir, NEW ring \in [Ago -> Nat], Rotate(d, ring),
           day' = day, known' = known, box' \in BOOLEAN, total' \in [Dir -> [Day -> Nat]]
    PROVE  CountersTyped'
  <1>1. day \in Nat /\ day <= day
    BY Bounds DEF CountersTyped
  <1> QED  BY <1>1 DEF CountersTyped, Rotate

LEMMA StepType ==
    ASSUME TypeOK, [Next]_vars PROVE TypeOK'
  <1>0. /\ CountersTyped /\ RequestsOK /\ day \in Nat /\ day \in Day
        /\ box \in BOOLEAN /\ total \in [Dir -> [Day -> Nat]]
    BY Bounds DEF TypeOK, CountersTyped, RequestsOK
  <1> SUFFICES CountersTyped' /\ RequestsOK'
    BY DEF TypeOK, CountersTyped, RequestsOK
  <1>1. CASE Tick
    <2>1. day' = day + 1 /\ day' \in Day
      BY <1>0, <1>1, Bounds DEF Tick, Day
    <2>2. ASSUME NEW d \in Dir PROVE last[d] <= day'
      <3>1. last[d] \in Nat /\ last[d] <= day
        BY <1>0, Bounds DEF CountersTyped
      <3> QED  BY <1>0, <2>1, <3>1
    <2> QED  BY <1>0, <1>1, <2>1, <2>2 DEF Tick, CountersTyped, RequestsOK
  <1>2. CASE NewProxy \/ ClearUselessInfo
    <2>1. PICK x \in Day :
            /\ x <= day /\ day' = day /\ box' = box /\ known' \in BOOLEAN
            /\ counts' = [d \in Dir |-> Zero] /\ last' = [d \in Dir |-> x]
            /\ total' = [d \in Dir |-> Days0]
            /\ req' = [r \in Slot |-> [req[r] EXCEPT !.current = FALSE]]
      <3>1. 0 <= day /\ day <= day
        BY <1>0
      <3> QED  BY <1>0, <1>2, <3>1, Bounds DEF NewProxy, ClearUselessInfo
    <2>2. Zero \in [Ago -> Nat] /\ Days0 \in [Day -> Nat]
      BY DEF Zero, Days0
    <2> QED  BY <1>0, <2>1, <2>2, RequestsForgotten DEF CountersTyped
  <1>3. ASSUME NEW d \in Dir, NEW n \in 1..MaxBytes, AddTraffic(d, n)
        PROVE  CountersTyped' /\ RequestsOK'
    <2>1. Rotated(d) \in [Ago -> Nat] /\ n \in Nat
      BY RotatedType, TrafficAssumption
    <2>2. [Rotated(d) EXCEPT ![0] = @ + n] \in [Ago -> Nat]
      BY <2>1, Bounds
    <2>3. total' = [total EXCEPT ![d] = [total[d] EXCEPT ![day] = total[d][day] + n]]
      BY <1>3 DEF AddTraffic
    <2>4. total[d][day] + n \in Nat
      BY <1>0, <2>1
    <2>5. total' \in [Dir -> [Day -> Nat]]
      BY <1>0, <2>3, <2>4
    <2> QED  BY <1>0, <1>3, <2>2, <2>5, RotateTyped DEF AddTraffic, RequestsOK
  <1>4. ASSUME NEW d \in Dir, TodayCount(d) PROVE CountersTyped' /\ RequestsOK'
    BY <1>0, <1>4, RotatedType, RotateTyped DEF TodayCount, RequestsOK
  <1>5. ASSUME NEW r \in Slot,
               Mount(r) \/ NotFound(r) \/ Draw(r) \/ GetTrafficInfoFailed(r)
        PROVE  CountersTyped' /\ RequestsOK'
    <2>1. PICK q \in {[req[r] EXCEPT !.stage = "sent"], [req[r] EXCEPT !.stage = "not found"], NoReq} :
            req' = [req EXCEPT ![r] = q]
      BY <1>5 DEF Mount, NotFound, Draw, GetTrafficInfoFailed
    <2>2. /\ UNCHANGED <<day, known, counts, last, total>> /\ box' \in BOOLEAN
      BY <1>0, <1>5 DEF Mount, NotFound, Draw, GetTrafficInfoFailed
    <2>3. req[r] \in Request
      BY <1>0 DEF RequestsOK
    <2>4. q \in Request /\ q.stage \notin {"half", "answered"}
      <3>1. CASE q = NoReq
        BY <3>1, NoAnswer DEF NoReq
      <3>2. CASE q = [req[r] EXCEPT !.stage = "sent"]
        BY <2>3, <3>2 DEF Request
      <3>3. CASE q = [req[r] EXCEPT !.stage = "not found"]
        BY <2>3, <3>3 DEF Request
      <3> QED  BY <2>1, <3>1, <3>2, <3>3
    <2> QED  BY <1>0, <2>1, <2>2, <2>4, OneRequestOK DEF CountersTyped
  <1>6. ASSUME NEW r \in Slot, ReadIn(r) PROVE CountersTyped' /\ RequestsOK'
    <2> DEFINE q == [req[r] EXCEPT !.stage = "half", !.in = LastDays("in"),
                                   !.inDay = day, !.current = TRUE]
    <2>1. "in" \in Dir /\ req[r] \in Request
      BY <1>0 DEF Dir, RequestsOK
    <2>2. Rotated("in") \in [Ago -> Nat] /\ LastDays("in") \in Arr
      BY <2>1, RotatedType
    <2>3. q \in Request /\ q.stage = "half" /\ q.in \in Arr
      BY <1>0, <2>1, <2>2 DEF Request
    <2>4. req' = [req EXCEPT ![r] = q]
      BY <1>6 DEF ReadIn
    <2>5. RequestsOK'
      <3> HIDE DEF q
      <3> QED  BY <1>0, <2>3, <2>4, OneRequestOK
    <2> QED  BY <1>0, <1>6, <2>1, <2>2, <2>5, RotateTyped DEF ReadIn
  <1>7. ASSUME NEW r \in Slot, ReadOut(r) PROVE CountersTyped' /\ RequestsOK'
    <2> DEFINE q == [req[r] EXCEPT !.stage = "answered", !.out = LastDays("out"),
                                   !.outDay = day]
    <2>1. /\ "out" \in Dir /\ req[r] \in Request /\ req[r].stage = "half"
          /\ req[r].in \in Arr
      BY <1>0, <1>7 DEF Dir, RequestsOK, ReadOut
    <2>2. Rotated("out") \in [Ago -> Nat] /\ LastDays("out") \in Arr
      BY <2>1, RotatedType
    <2>3. q \in Request /\ q.in \in Arr /\ q.out \in Arr
      BY <1>0, <2>1, <2>2 DEF Request
    <2>4. req' = [req EXCEPT ![r] = q]
      BY <1>7 DEF ReadOut
    <2>5. RequestsOK'
      <3> HIDE DEF q
      <3> QED  BY <1>0, <2>3, <2>4, OneRequestOK
    <2> QED  BY <1>0, <1>7, <2>1, <2>2, <2>5, RotateTyped DEF ReadOut
  <1>8. CASE Unmount
    BY <1>0, <1>8 DEF Unmount, CountersTyped, RequestsOK
  <1>9. CASE UNCHANGED vars
    BY <1>0, <1>9 DEF vars, CountersTyped, RequestsOK
  <1> QED  BY <1>1, <1>2, <1>3, <1>4, <1>5, <1>6, <1>7, <1>8, <1>9 DEF Next

(* The variables have their types at all times, on any calendar; an answer *)
(* of /api/traffic/{name} has an array of ReserveDays numbers per          *)
(* direction.                                                              *)
THEOREM TypeCorrect == Spec => []TypeOK
  <1>1. ASSUME Init PROVE TypeOK
    <2>1. /\ Zero \in [Ago -> Nat] /\ Days0 \in [Day -> Nat] /\ 0 \in Day /\ 0 <= 0
      BY Bounds DEF Zero, Days0
    <2>2. NoReq \in Request /\ NoReq.stage = "free"
      BY NoAnswer DEF NoReq
    <2> QED  BY <1>1, <2>1, <2>2 DEF Init, TypeOK
  <1>2. TypeOK /\ [Next]_vars => TypeOK'
    BY StepType
  <1> QED  BY <1>1, <1>2, PTL DEF Spec

-----------------------------------------------------------------------------
(* The refinement. *)

(* The window of the daily totals is the history of the bytes. *)
Windowed == [d \in Dir |-> Rotated(d)]
              = [d \in Dir |-> [i \in Ago |-> Bytes(total, d, day - i)]]

LEMMA InvWindowed == Inv => Windowed
  BY RotatedBytes DEF Inv, Windowed

LEMMA MidnightWindow ==
    ASSUME Counters, Tick, Windowed, Windowed' PROVE Totals!Midnight
  <1>1. /\ day < MaxDay /\ day' = day + 1 /\ total' = total /\ day \in Nat
        /\ total \in Totalled
    BY Bounds DEF Tick, Counters
  <1>2. ASSUME NEW d \in Dir
        PROVE  [i \in Ago |-> Bytes(total', d, day' - i)]
                 = [i \in Ago |-> IF i = 0 THEN 0 ELSE Rotated(d)[i - 1]]
    <2>1. Rotated(d) = [i \in Ago |-> Bytes(total, d, day - i)]
      BY RotatedBytes
    <2>2. Bytes(total', d, day' - 0) = 0
      <3>1. \A x \in Day : x > day => total[d][x] = 0
        BY LastDaysRead DEF RingOK
      <3>2. day' - 0 > day
        BY <1>1
      <3> QED  BY <1>1, <3>1, <3>2 DEF Bytes
    <2>3. ASSUME NEW i \in Ago, i # 0
          PROVE  Bytes(total', d, day' - i) = Rotated(d)[i - 1]
      <3>1. i - 1 \in Ago /\ day' - i = day - (i - 1)
        BY <1>1, <2>3, TrafficAssumption DEF Ago
      <3> QED  BY <1>1, <2>1, <3>1
    <2> QED  BY <2>2, <2>3
  <1>3. [d \in Dir |-> Rotated(d)]' = [d \in Dir |-> [i \in Ago |-> Bytes(total', d, day' - i)]]
    BY DEF Windowed
  <1>4. [d \in Dir |-> Rotated(d)]'
          = [d \in Dir |-> [i \in Ago |-> IF i = 0 THEN 0 ELSE Rotated(d)[i - 1]]]
    BY <1>2, <1>3
  <1> QED  BY <1>1, <1>4 DEF Totals!Midnight, Totals!Ago, Ago

LEMMA AddWindow ==
    ASSUME Counters, NEW d \in Dir, NEW n \in 1..MaxBytes, AddTraffic(d, n), Windowed, Windowed'
    PROVE  Totals!Add(d, n)
  <1> DEFINE window == [e \in Dir |-> Rotated(e)]
  <1>1. day' = day /\ day \in Day /\ day \in Nat /\ n \in Nat
    BY Bounds, TrafficAssumption DEF AddTraffic, Counters
  <1>2. \A e \in Dir, x \in Day :
           total'[e][x] = IF e = d /\ x = day THEN total[e][x] + n ELSE total[e][x]
    BY AddTotals
  <1>3. ASSUME NEW e \in Dir, e # d
        PROVE  [i \in Ago |-> Bytes(total', e, day - i)] = Rotated(e)
    BY <1>2, <1>3, RotatedBytes DEF Bytes
  <1>4. [i \in Ago |-> Bytes(total', d, day - i)] = [Rotated(d) EXCEPT ![0] = Rotated(d)[0] + n]
    <2>1. Rotated(d) = [i \in Ago |-> Bytes(total, d, day - i)]
      BY RotatedBytes
    <2>2. Bytes(total', d, day - 0) = Rotated(d)[0] + n
      BY <1>1, <1>2, <2>1, Bounds DEF Bytes
    <2>3. ASSUME NEW i \in Ago, i # 0 PROVE Bytes(total', d, day - i) = Rotated(d)[i]
      <3>1. day - i # day
        BY <1>1, <2>3, Bounds
      <3> QED  BY <1>2, <2>1, <3>1 DEF Bytes
    <2> QED  BY <2>1, <2>2, <2>3
  <1>5. [e \in Dir |-> Rotated(e)]' = [e \in Dir |-> [i \in Ago |-> Bytes(total', e, day - i)]]
    BY <1>1 DEF Windowed
  <1>6. window[d] = Rotated(d)
    OBVIOUS
  <1>7. [e \in Dir |-> Rotated(e)]'
          = [window EXCEPT ![d] = [window[d] EXCEPT ![0] = window[d][0] + n]]
    BY <1>3, <1>4, <1>5, <1>6, ZenonT(60)
  <1> QED  BY <1>1, <1>7 DEF Totals!Add

LEMMA RenewWindow ==
    ASSUME day' = day, total' = [d \in Dir |-> Days0], Windowed'
    PROVE  Totals!Renew
  <1>1. [d \in Dir |-> Rotated(d)]' = [d \in Dir |-> [i \in Ago |-> Bytes(total', d, day - i)]]
    BY DEF Windowed
  <1>2. \A d \in Dir : \A x : Bytes(total', d, x) = 0
    BY DEF Bytes, Days0
  <1>3. [d \in Dir |-> Rotated(d)]' = [d \in Dir |-> [i \in Ago |-> 0]]
    BY <1>1, <1>2
  <1> QED  BY <1>3 DEF Totals!Renew, Totals!Zero, Totals!Ago, Ago

LEMMA WindowStep ==
    ASSUME Inv, [Next]_vars, Windowed, Windowed'
    PROVE  [Totals!Next]_<<day, [d \in Dir |-> Rotated(d)]>>
  <1> Counters
    BY DEF Inv
  <1>1. CASE Tick
    BY <1>1, MidnightWindow DEF Totals!Next
  <1>2. CASE NewProxy \/ ClearUselessInfo
    <2>1. Totals!Renew
      BY <1>2, RenewWindow DEF NewProxy, ClearUselessInfo
    <2> QED  BY <2>1 DEF Totals!Next
  <1>3. ASSUME NEW d \in Dir, NEW n \in 1..MaxBytes, AddTraffic(d, n)
        PROVE  Totals!Next
    <2>1. Totals!Add(d, n)
      BY <1>3, AddWindow
    <2> QED  BY <2>1 DEF Totals!Next
  <1>4. CASE UNCHANGED <<day, total>>
    <2>1. UNCHANGED <<day, [d \in Dir |-> Rotated(d)]>>
      BY <1>4 DEF Windowed
    <2> QED  BY <2>1
  <1>5. \/ Tick \/ NewProxy \/ ClearUselessInfo
        \/ \E d \in Dir, n \in 1..MaxBytes : AddTraffic(d, n)
        \/ UNCHANGED <<day, total>>
    BY DEF Next, vars, TodayCount, Mount, NotFound, ReadIn, ReadOut, Draw,
           GetTrafficInfoFailed, Unmount
  <1> QED  BY <1>1, <1>2, <1>3, <1>4, <1>5

LEMMA InitWindow ==
    ASSUME NoShortDays, Init PROVE Totals!Init
  <1>1. Windowed
    BY InitInv, InvWindowed
  <1>2. \A d \in Dir : \A x : Bytes(total, d, x) = 0
    BY DEF Bytes, Days0, Init
  <1>3. [d \in Dir |-> Rotated(d)] = [d \in Dir |-> [i \in Ago |-> 0]]
    BY <1>1, <1>2 DEF Windowed
  <1> QED  BY <1>3 DEF Totals!Init, Totals!Zero, Totals!Ago, Ago, Init

(* The two counters of a proxy, which are rotated only when they are used, *)
(* implement daily totals that move at every midnight (rotate of           *)
(* date_counter.go), whatever requests, additions and idle days there are, *)
(* on a calendar without a day of 23 hours.                                *)
THEOREM CountersAreDailyHolds == NoShortDays => (Spec => CountersAreDaily)
  <1>1. NoShortDays /\ Init => Totals!Init
    BY InitWindow
  <1>2. Inv => Windowed
    BY InvWindowed
  <1>3. Inv /\ [Next]_vars /\ Windowed /\ Windowed'
          => [Totals!Next]_<<day, [d \in Dir |-> Rotated(d)]>>
    BY WindowStep
  <1> QED  BY <1>1, <1>2, <1>3, InvAlways, PTL DEF Spec, CountersAreDaily, Totals!Spec

-----------------------------------------------------------------------------
(* The chart. *)

LEMMA BarsOf ==
    ASSUME Counters, NEW arr \in Arr, NEW d \in Dir, Read(arr, total, d, day)
    PROVE  Dated([i \in 1..ChartDays |-> day - (ChartDays - 1) + (i - 1)], Backwards(arr), d)
  <1>1. /\ day \in Nat /\ day \in Day /\ ChartDays \in Nat /\ ChartDays = ReserveDays
        /\ total \in Totalled
    BY Bounds, TrafficAssumption DEF Counters
  <1>2. Len(arr) = ChartDays
    BY <1>1 DEF Arr
  <1> DEFINE dates == [i \in 1..ChartDays |-> day - (ChartDays - 1) + (i - 1)]
             series == [i \in 1..ChartDays |-> arr[ChartDays + 1 - i]]
  <1>3. Backwards(arr) = series
    BY <1>2 DEF Backwards
  <1>4. ASSUME NEW i \in 1..ChartDays
        PROVE  LET x == dates[i] IN
                 /\ x < day => series[i] = BytesOn(d, x)
                 /\ x = day => series[i] <= BytesOn(d, x)
                 /\ x <= day
    <2> DEFINE j == ChartDays + 1 - i
               x == day - (j - 1)
    <2>1. /\ j \in 1..ReserveDays /\ dates[i] = x /\ x \in Int /\ x <= day
          /\ (x < day => j > 1)
      BY <1>1
    <2>2. series[i] = arr[j]
      OBVIOUS
    <2>3. arr[j] <= Bytes(total, d, x) /\ (j > 1 => arr[j] = Bytes(total, d, x))
      BY <2>1 DEF Read
    <2>4. BytesOn(d, x) = Bytes(total, d, x)
      BY DEF BytesOn, Bytes
    <2> HIDE DEF j, x, dates, series
    <2> QED  BY <2>1, <2>2, <2>3, <2>4
  <1>5. DOMAIN series = 1..ChartDays /\ DOMAIN dates = 1..ChartDays
    OBVIOUS
  <1> HIDE DEF dates, series
  <1>6. Dated(dates, series, d)
    BY <1>4, <1>5 DEF Dated
  <1> QED  BY <1>3, <1>6 DEF dates

(* A chart that is drawn on the day its numbers were read shows, over each *)
(* of its dates, what was counted on that date, and over today's not more  *)
(* than was counted (Traffic.vue, DrawProxyTrafficChart, GetLastDaysCount),*)
(* on a calendar without a day of 23 hours.                                *)
THEOREM BarsAreDatedHolds == NoShortDays => (Spec => BarsAreDated)
  <1> DEFINE Act == \A r \in Slot :
         (Draw(r) /\ req[r].current /\ req[r].inDay = day /\ req[r].outDay = day) =>
            /\ Dated(Bars(r).dates, Bars(r).in, "in")
            /\ Dated(Bars(r).dates, Bars(r).out, "out")
  <1>1. Inv /\ [Next]_vars => [Act]_vars
    <2> SUFFICES ASSUME Inv, NEW r \in Slot, Draw(r), req[r].current,
                        req[r].inDay = day, req[r].outDay = day
                 PROVE  /\ Dated(Bars(r).dates, Bars(r).in, "in")
                        /\ Dated(Bars(r).dates, Bars(r).out, "out")
      OBVIOUS
    <2>1. Counters /\ AnswerOK(req[r], day, total) /\ req[r].stage = "answered"
      BY DEF Inv, Answers, Draw
    <2>2. /\ req[r].in \in Arr /\ Read(req[r].in, total, "in", day)
          /\ req[r].out \in Arr /\ Read(req[r].out, total, "out", day)
      BY <2>1 DEF AnswerOK
    <2>3. "in" \in Dir /\ "out" \in Dir
      BY DEF Dir
    <2>4. /\ Bars(r).dates = [i \in 1..ChartDays |-> day - (ChartDays - 1) + (i - 1)]
          /\ Bars(r).in = Backwards(req[r].in) /\ Bars(r).out = Backwards(req[r].out)
      BY DEF Bars, DrawProxyTrafficChart
    <2> QED  BY <2>1, <2>2, <2>3, <2>4, BarsOf
  <1> HIDE DEF Act
  <1>2. NoShortDays => (Spec => [][Act]_vars)
    BY <1>1, InvAlways, PTL DEF Spec
  <1> QED  BY <1>2 DEF Act, BarsAreDated

=============================================================================
