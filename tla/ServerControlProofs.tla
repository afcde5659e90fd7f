------------------------- MODULE ServerControlProofs -------------------------
(***************************************************************************)
(* The shutdown protocol of a Control is safe for every channel capacity,  *)
(* pool size, number of messages, users and work connections, and it ends  *)
(* unless one of two blocked sends stops it.  Liveness is proved from      *)
(* [] GuardsEnable, since the prover does not look into ENABLED, and from  *)
(* LeastNumber, since it does no induction over temporal formulas.         *)
(***************************************************************************)
EXTENDS ServerControl, FiniteSetTheorems, TLAPS

\* The state Start leaves behind satisfies the inductive invariant.
LEMMA InitIInv == Init => IInv
<1> SUFFICES ASSUME Init
             PROVE  IInv
  OBVIOUS
<1> USE ControlAssumption DEF Init
<1>1. readCh \in Seq(Msg) /\ Len(readCh) <= ReadCap
  BY DEF Msg
<1>2. readClosed \in BOOLEAN /\ sendClosed \in BOOLEAN /\ allStart \in BOOLEAN /\ workClosed \in BOOLEAN
  OBVIOUS
<1>3. TypeOK
  BY <1>1, <1>2 DEF TypeOK
<1>4. StoperOrder /\ ClosedControlIsEmpty
  BY DEF StoperOrder, ClosedControlIsEmpty
<1>5. QED
  BY <1>3, <1>4 DEF IInv

\* Every step of every goroutine preserves the inductive invariant.
LEMMA NextIInv == IInv /\ [Next]_vars => IInv'
<1> SUFFICES ASSUME IInv, [Next]_vars
             PROVE  IInv'
  OBVIOUS
<1> USE ControlAssumption
    DEF IInv, TypeOK, StoperOrder, ClosedControlIsEmpty, Pool, Msg, chanVars,
        workVars, HeartbeatOn
<1>1. CASE PeerBreaks
  BY <1>1 DEF PeerBreaks
<1>2. CASE Tick
  BY <1>2 DEF Tick
<1>3. CASE RequestShutdown
  BY <1>3 DEF RequestShutdown
<1>4. ASSUME NEW m \in Msg, ReaderRead(m)
      PROVE  IInv'
  BY <1>4 DEF ReaderRead
<1>5. CASE ReaderFail
  BY <1>5 DEF ReaderFail
<1>6. CASE ReaderPut
  BY <1>6 DEF ReaderPut
<1>7. CASE ManagerRecv
  BY <1>7, SMTT(60) DEF ManagerRecv
<1>8. CASE ManagerSend
  <2>1. CASE manager = "send"
    BY <1>8, <2>1 DEF ManagerSend
  <2>2. CASE manager = "sendExit"
    BY <1>8, <2>2 DEF ManagerSend
  <2>3. QED
    BY <1>8, <2>1, <2>2 DEF ManagerSend
<1>9. CASE ManagerExit
  BY <1>9 DEF ManagerExit
<1>10. CASE WriterInit
  <2>1. CASE writer' = "recv" /\ allStart' = allStart
    BY <1>10, <2>1 DEF WriterInit
  <2>2. CASE writer' = "done" /\ allStart' = TRUE
    BY <1>10, <2>2 DEF WriterInit
  <2>3. QED
    BY <1>10, <2>1, <2>2 DEF WriterInit
<1>11. CASE WriterRecv
  BY <1>11 DEF WriterRecv
<1>12. CASE WriterWrite
  <2>1. CASE writer' = "recv" /\ allStart' = allStart
    BY <1>12, <2>1 DEF WriterWrite
  <2>2. CASE writer' = "done" /\ allStart' = TRUE
    BY <1>12, <2>2 DEF WriterWrite
  <2>3. QED
    BY <1>12, <2>1, <2>2 DEF WriterWrite
<1>13. CASE WriterExit
  BY <1>13 DEF WriterExit
<1>14. CASE StoperStart
  BY <1>14 DEF StoperStart
<1>15. CASE StoperCloseRead
  BY <1>15 DEF StoperCloseRead
<1>16. CASE StoperCloseSend
  BY <1>16 DEF StoperCloseSend
<1>17. CASE StoperCloseWork
  BY <1>17 DEF StoperCloseWork
<1>18. ASSUME NEW w \in WorkConns, StoperDrain(w)
      PROVE  IInv'
  BY <1>18 DEF StoperDrain
<1>19. CASE StoperDone
  BY <1>19 DEF StoperDone
<1>20. CASE PoolRequest
  BY <1>20 DEF PoolRequest, ProtectedSend
<1>21. CASE NatHoleAnswer
  BY <1>21 DEF NatHoleAnswer, ProtectedSend
<1>22. ASSUME NEW u \in Users, UserFirst(u)
      PROVE  IInv'
  BY <1>22 DEF UserFirst, TakeWorkConn
<1>23. ASSUME NEW u \in Users, UserRequest(u)
      PROVE  IInv'
  BY <1>23 DEF UserRequest, ProtectedSend
<1>24. ASSUME NEW u \in Users, UserWait(u)
      PROVE  IInv'
  BY <1>24 DEF UserWait, TakeWorkConn
<1>25. ASSUME NEW u \in Users, UserRefill(u)
      PROVE  IInv'
  BY <1>25 DEF UserRefill, ProtectedSend
<1>26. ASSUME NEW w \in WorkConns, RegisterWorkConn(w)
      PROVE  IInv'
  BY <1>26 DEF RegisterWorkConn
<1>27. CASE UNCHANGED vars
  BY <1>27 DEF vars
<1>28. QED
  BY <1>1, <1>2, <1>3, <1>4, <1>5, <1>6, <1>7, <1>8, <1>9, <1>10, <1>11, <1>12, <1>13, <1>14, <1>15, <1>16, <1>17, <1>18, <1>19, <1>20, <1>21, <1>22, <1>23, <1>24, <1>25, <1>26, <1>27
  DEF Next, Reader, Manager, Writer, Stoper, User

\* Every reachable state satisfies the inductive invariant.
LEMMA AlwaysIInv == Spec => []IInv
  BY InitIInv, NextIInv, PTL DEF Spec

\* Type correctness: no channel exceeds its capacity.
THEOREM TypeCorrect == Spec => []TypeOK
<1>1. IInv => TypeOK
  BY DEF IInv
<1>2. QED
  BY AlwaysIInv, <1>1, PTL

\* reader and manager never send on a channel that stoper has closed.
THEOREM NoSendOnClosedChannelAlways == Spec => []NoSendOnClosedChannel
<1>1. IInv => NoSendOnClosedChannel
  BY DEF IInv, TypeOK, StoperOrder, NoSendOnClosedChannel
<1>2. QED
  BY AlwaysIInv, <1>1, PTL

\* A closed control has no running goroutine and no pooled work connection.
THEOREM ClosedControlIsEmptyAlways == Spec => []ClosedControlIsEmpty
<1>1. IInv => ClosedControlIsEmpty
  BY DEF IInv
<1>2. QED
  BY AlwaysIInv, <1>1, PTL

\* No step ends a wedge.
LEMMA WedgeStep == IInv /\ [Next]_vars => [Wedged => Wedged']_vars
<1> SUFFICES ASSUME IInv, Next, Wedged
             PROVE  Wedged'
  OBVIOUS
<1> USE ControlAssumption
    DEF IInv, TypeOK, Wedged, ReaderWedged, ManagerWedged, chanVars, workVars
<1>1. CASE ReaderWedged
  <2>1. reader = "put" /\ manager = "done" /\ Len(readCh) = ReadCap
    BY <1>1
  <2>2. reader' = "put" /\ manager' = "done" /\ readCh' = readCh
    BY <2>1
    DEF Next, PeerBreaks, Tick, RequestShutdown, ReaderRead, Reader, ReaderFail,
        ReaderPut, Manager, ManagerRecv, ManagerSend, ManagerExit, Writer,
        WriterInit, WriterRecv, WriterWrite, WriterExit, Stoper, StoperStart,
        StoperCloseRead, StoperCloseSend, StoperCloseWork, StoperDrain,
        StoperDone, PoolRequest, NatHoleAnswer, User, UserFirst, UserRequest,
        UserWait, UserRefill, RegisterWorkConn
  <2>3. QED
    BY <2>1, <2>2
<1>2. CASE ManagerWedged
  <2>1. manager \in {"send", "sendExit"} /\ writer = "done" /\ sendCh = SendCap
    BY <1>2
  <2>2. manager' = manager /\ writer' = "done" /\ sendCh' = sendCh
    BY <2>1
    DEF Next, PeerBreaks, Tick, RequestShutdown, ReaderRead, Reader, ReaderFail,
        ReaderPut, Manager, ManagerRecv, ManagerSend, ManagerExit, Writer,
        WriterInit, WriterRecv, WriterWrite, WriterExit, Stoper, StoperStart,
        StoperCloseRead, StoperCloseSend, StoperCloseWork, StoperDrain,
        StoperDone, PoolRequest, NatHoleAnswer, User, UserFirst, UserRequest,
        UserWait, UserRefill, RegisterWorkConn, ProtectedSend
  <2>3. QED
    BY <2>1, <2>2
<1>3. QED
  BY <1>1, <1>2

\* A control whose reader or manager is blocked on a channel nobody empties any
\* more stays so for ever, with any capacities and whatever the client does.
THEOREM WedgeIsPermanentAlways == Spec => WedgeIsPermanent
<1>1. IInv /\ [Next]_vars => [Wedged => Wedged']_vars
  BY WedgeStep
<1>2. QED
  BY AlwaysIInv, <1>1, PTL DEF Spec, WedgeIsPermanent

-----------------------------------------------------------------------------
(* Shutting down ends *)

\* A goroutine that has returned has started the shutdown, and the channels are
\* closed as far as stoper has come.
StartInv ==
  /\ reader = "done" \/ manager = "done" \/ writer = "done" => allStart
  /\ stoper # "waitStart" => allStart
  /\ stoper \in {"waitManager", "waitWriter", "drain", "done"} => readClosed
  /\ stoper \in {"waitWriter", "drain", "done"} => sendClosed

LEMMA NextStartInv == IInv /\ StartInv /\ [Next]_vars => StartInv'
<1> SUFFICES ASSUME IInv, StartInv, [Next]_vars
             PROVE  StartInv'
  OBVIOUS
<1> USE DEF IInv, TypeOK, StartInv, chanVars, workVars
<1>1. CASE PeerBreaks \/ Tick \/ RequestShutdown \/ \E m \in Msg : ReaderRead(m)
  BY <1>1 DEF PeerBreaks, Tick, RequestShutdown, ReaderRead
<1>2. CASE Reader
  BY <1>2 DEF Reader, ReaderFail, ReaderPut
<1>3. CASE ManagerRecv \/ ManagerExit
  BY <1>3 DEF ManagerRecv, ManagerExit
<1>4. CASE ManagerSend
  BY <1>4 DEF ManagerSend
<1>5. CASE Writer
  BY <1>5 DEF Writer, WriterInit, WriterRecv, WriterWrite, WriterExit
<1>6. CASE Stoper
  BY <1>6 DEF Stoper, StoperStart, StoperCloseRead, StoperCloseSend, StoperCloseWork,
              StoperDrain, StoperDone
<1>7. CASE PoolRequest \/ NatHoleAnswer
  BY <1>7 DEF PoolRequest, NatHoleAnswer
<1>8. ASSUME NEW u \in Users, User(u)
      PROVE  StartInv'
  BY <1>8 DEF User, UserFirst, UserRequest, UserWait, UserRefill
<1>9. CASE (\E w \in WorkConns : RegisterWorkConn(w)) \/ UNCHANGED vars
  BY <1>9 DEF RegisterWorkConn, vars
<1>. QED
  BY <1>1, <1>2, <1>3, <1>4, <1>5, <1>6, <1>7, <1>8, <1>9 DEF Next, Manager

LEMMA AlwaysStartInv == Spec => [](IInv /\ StartInv)
<1>1. Init => StartInv
  BY DEF Init, StartInv
<1>. QED
  BY <1>1, AlwaysIInv, NextStartInv, PTL DEF Spec

\* What is left to be done, in parts: messages that the manager has not seen,
\* steps of the reader, what is sent and written, the clock, the shutdown, the
\* user connections and the work connections.  A message may restart the clock.
Inbox == (HeartbeatTimeout + 8) * (budget + Len(readCh) + IF reader = "put" THEN 1 ELSE 0)
Intake == 2 * budget + IF reader = "put" THEN 2 ELSE IF reader = "read" THEN 1 ELSE 0
ManagerLeft == IF manager = "send" THEN 4 ELSE IF manager = "sendExit" THEN 3
               ELSE IF manager = "recv" THEN 1 ELSE 0
WriterLeft == IF writer \in {"init", "write"} THEN 2 ELSE IF writer = "recv" THEN 1 ELSE 0
Outbox == ManagerLeft + 3 * natSends + 3 * poolReqs + 2 * sendCh + WriterLeft
Clock == HeartbeatTimeout + 1 - age
Shut ==
  (IF conn = "open" THEN 1 ELSE 0) + (IF allStart THEN 0 ELSE 1)
  + IF stoper = "waitStart" THEN 5 ELSE IF stoper = "waitReader" THEN 4
    ELSE IF stoper = "waitManager" THEN 3 ELSE IF stoper = "waitWriter" THEN 2
    ELSE IF stoper = "drain" THEN 1 ELSE 0

\* The users that have not got past a stage, and likewise the connections.
BeforeReq == {u \in Users : user[u] = "idle"}
BeforeWait == {u \in Users : user[u] \in {"idle", "req"}}
BeforeRefill == {u \in Users : user[u] \in {"idle", "req", "wait"}}
BeforeEnd == {u \in Users : user[u] \in {"idle", "req", "wait", "refill"}}
Asking ==
  Cardinality(BeforeReq) + 3 * Cardinality(BeforeWait)
  + Cardinality(BeforeRefill) + 3 * Cardinality(BeforeEnd)

BeforePool == {w \in WorkConns : wc[w] = "none"}
BeforeUse == {w \in WorkConns : wc[w] \in {"none", "pooled"}}
Arriving == Cardinality(BeforePool) + Cardinality(BeforeUse)

Pending == Inbox + Intake + Clock
Traffic == Outbox + Asking
Ends == Shut + Arriving
Measure == Pending + Traffic + Ends

LEMMA Shrinks ==
  ASSUME NEW S, NEW T, IsFiniteSet(S), T \subseteq S
  PROVE  /\ Cardinality(S) \in Nat /\ Cardinality(T) \in Nat
         /\ Cardinality(T) <= Cardinality(S)
         /\ \A x : x \in S /\ x \notin T => Cardinality(T) < Cardinality(S)
<1>1. IsFiniteSet(T) /\ Cardinality(T) <= Cardinality(S)
  BY FS_Subset
<1>2. Cardinality(T) = Cardinality(S) => S = T
  BY FS_Subset
<1>3. Cardinality(S) \in Nat /\ Cardinality(T) \in Nat
  BY <1>1, FS_CardinalityType
<1>. QED
  BY <1>1, <1>2, <1>3

LEMMA Scale ==
  ASSUME NEW h \in Nat, NEW n \in Nat
  PROVE  (h + 8) * n \in Nat /\ (n > 0 => (h + 8) * (n - 1) = (h + 8) * n - (h + 8))
<1>1. \A a, b \in Nat : a * b \in Nat
  OBVIOUS
<1>2. n > 0 => \E m \in Nat : n = m + 1
  <2>1. n > 0 => n - 1 \in Nat /\ n = (n - 1) + 1
    OBVIOUS
  <2>. QED
    BY <2>1
<1>3. \A m \in Nat : (h + 8) * (m + 1) = (h + 8) * m + (h + 8)
  OBVIOUS
<1>. QED
  BY <1>1, <1>2, <1>3

PartsOK ==
  /\ Inbox \in Nat /\ Intake \in Nat /\ Outbox \in Nat /\ Clock \in Nat
  /\ Shut \in Nat /\ Asking \in Nat /\ Arriving \in Nat

LEMMA PartsType == IInv => PartsOK
<1> SUFFICES ASSUME IInv
             PROVE  PartsOK
  OBVIOUS
<1> USE ControlAssumption DEF IInv, TypeOK
<1>1. Inbox \in Nat
  <2>1. budget + Len(readCh) + (IF reader = "put" THEN 1 ELSE 0) \in Nat
    OBVIOUS
  <2>. QED
    BY <2>1, Scale DEF Inbox
<1>2. Intake \in Nat /\ Clock \in Nat
  BY DEF Intake, Clock
<1>6. Shut \in Nat
  BY DEF Shut
<1>3. Outbox \in Nat
  <2>1. ManagerLeft \in Nat /\ WriterLeft \in Nat
    BY DEF ManagerLeft, WriterLeft
  <2>. QED
    BY <2>1 DEF Outbox
<1>4. /\ Cardinality(BeforeReq) \in Nat /\ Cardinality(BeforeWait) \in Nat
      /\ Cardinality(BeforeRefill) \in Nat /\ Cardinality(BeforeEnd) \in Nat
      /\ Cardinality(BeforePool) \in Nat /\ Cardinality(BeforeUse) \in Nat
  <2>1. /\ BeforeReq \subseteq Users /\ BeforeWait \subseteq Users
        /\ BeforeRefill \subseteq Users /\ BeforeEnd \subseteq Users
        /\ BeforePool \subseteq WorkConns /\ BeforeUse \subseteq WorkConns
    BY DEF BeforeReq, BeforeWait, BeforeRefill, BeforeEnd, BeforePool, BeforeUse
  <2>. QED
    BY <2>1, Shrinks
<1>5. Asking \in Nat /\ Arriving \in Nat
  BY <1>4, SMTT(60) DEF Asking, Arriving
<1>. QED
  BY <1>1, <1>2, <1>3, <1>5, <1>6 DEF PartsOK

LEMMA PartsTypeNext == IInv' => PartsOK'
  BY PartsType, PTL

\* A user that gets on leaves one of the sets and enters none; sending costs it 2.
LEMMA AskingStep ==
  ASSUME IInv, NEW u \in Users,
         NEW s \in {"idle", "req", "wait", "refill", "got", "err"},
         user' = [user EXCEPT ![u] = s]
  PROVE  /\ user[u] = "idle" /\ s # "idle" => Asking' + 1 <= Asking
         /\ user[u] = "req" /\ s \in {"wait", "err"} => Asking' + 3 <= Asking
         /\ user[u] = "wait" /\ s \in {"refill", "err"} => Asking' + 1 <= Asking
         /\ user[u] = "refill" /\ s = "got" => Asking' + 3 <= Asking
<1> SUFFICES ASSUME \/ user[u] = "idle" /\ s # "idle"
                    \/ user[u] = "req" /\ s \in {"wait", "err"}
                    \/ user[u] = "wait" /\ s \in {"refill", "err"}
                    \/ user[u] = "refill" /\ s = "got"
             PROVE  /\ user[u] = "idle" => Asking' + 1 <= Asking
                    /\ user[u] = "req" => Asking' + 3 <= Asking
                    /\ user[u] = "wait" => Asking' + 1 <= Asking
                    /\ user[u] = "refill" => Asking' + 3 <= Asking
  OBVIOUS
<1>0. user \in [Users -> {"idle", "req", "wait", "refill", "got", "err"}]
  BY DEF IInv, TypeOK
<1>1. /\ BeforeReq' \subseteq BeforeReq /\ BeforeWait' \subseteq BeforeWait
      /\ BeforeRefill' \subseteq BeforeRefill /\ BeforeEnd' \subseteq BeforeEnd
  BY <1>0 DEF BeforeReq, BeforeWait, BeforeRefill, BeforeEnd
<1>2. /\ IsFiniteSet(BeforeReq) /\ IsFiniteSet(BeforeWait)
      /\ IsFiniteSet(BeforeRefill) /\ IsFiniteSet(BeforeEnd)
  BY FS_Subset, ControlAssumption DEF BeforeReq, BeforeWait, BeforeRefill, BeforeEnd
<1>3. /\ user[u] = "idle" => u \in BeforeReq /\ u \notin BeforeReq'
      /\ user[u] = "req" => u \in BeforeWait /\ u \notin BeforeWait'
      /\ user[u] = "wait" => u \in BeforeRefill /\ u \notin BeforeRefill'
      /\ user[u] = "refill" => u \in BeforeEnd /\ u \notin BeforeEnd'
  BY <1>0 DEF BeforeReq, BeforeWait, BeforeRefill, BeforeEnd
<1>4. /\ Cardinality(BeforeReq) \in Nat /\ Cardinality(BeforeReq') \in Nat
      /\ Cardinality(BeforeReq') <= Cardinality(BeforeReq)
      /\ user[u] = "idle" => Cardinality(BeforeReq') < Cardinality(BeforeReq)
  BY <1>1, <1>2, <1>3, Shrinks
<1>5. /\ Cardinality(BeforeWait) \in Nat /\ Cardinality(BeforeWait') \in Nat
      /\ Cardinality(BeforeWait') <= Cardinality(BeforeWait)
      /\ user[u] = "req" => Cardinality(BeforeWait') < Cardinality(BeforeWait)
  BY <1>1, <1>2, <1>3, Shrinks
<1>6. /\ Cardinality(BeforeRefill) \in Nat /\ Cardinality(BeforeRefill') \in Nat
      /\ Cardinality(BeforeRefill') <= Cardinality(BeforeRefill)
      /\ user[u] = "wait" => Cardinality(BeforeRefill') < Cardinality(BeforeRefill)
  BY <1>1, <1>2, <1>3, Shrinks
<1>7. /\ Cardinality(BeforeEnd) \in Nat /\ Cardinality(BeforeEnd') \in Nat
      /\ Cardinality(BeforeEnd') <= Cardinality(BeforeEnd)
      /\ user[u] = "refill" => Cardinality(BeforeEnd') < Cardinality(BeforeEnd)
  BY <1>1, <1>2, <1>3, Shrinks
<1>. QED
  BY <1>4, <1>5, <1>6, <1>7 DEF Asking

\* A work connection that gets on leaves one of its sets.
LEMMA ArrivingStep ==
  ASSUME IInv, NEW w \in WorkConns,
         NEW s \in {"pooled", "used", "closed", "orphan"},
         wc' = [wc EXCEPT ![w] = s],
         wc[w] = "none" \/ (wc[w] = "pooled" /\ s # "pooled")
  PROVE  Arriving' + 1 <= Arriving
<1>0. wc \in [WorkConns -> {"none", "pooled", "used", "closed", "orphan"}]
  BY DEF IInv, TypeOK
<1>1. BeforePool' \subseteq BeforePool /\ BeforeUse' \subseteq BeforeUse
  BY <1>0 DEF BeforePool, BeforeUse
<1>2. IsFiniteSet(BeforePool) /\ IsFiniteSet(BeforeUse)
  BY FS_Subset, ControlAssumption DEF BeforePool, BeforeUse
<1>3. /\ wc[w] = "none" => w \in BeforePool /\ w \notin BeforePool'
      /\ wc[w] = "pooled" => w \in BeforeUse /\ w \notin BeforeUse'
  BY <1>0 DEF BeforePool, BeforeUse
<1>4. /\ Cardinality(BeforePool) \in Nat /\ Cardinality(BeforePool') \in Nat
      /\ Cardinality(BeforePool') <= Cardinality(BeforePool)
      /\ wc[w] = "none" => Cardinality(BeforePool') < Cardinality(BeforePool)
  BY <1>1, <1>2, <1>3, Shrinks
<1>5. /\ Cardinality(BeforeUse) \in Nat /\ Cardinality(BeforeUse') \in Nat
      /\ Cardinality(BeforeUse') <= Cardinality(BeforeUse)
      /\ wc[w] = "pooled" => Cardinality(BeforeUse') < Cardinality(BeforeUse)
  BY <1>1, <1>2, <1>3, Shrinks
<1>. QED
  BY <1>4, <1>5 DEF Arriving

\* Every step leaves less to be done: a control always comes to rest.
LEMMA MeasureStep ==
  ASSUME IInv, [Next]_vars
  PROVE  /\ Measure \in Nat /\ Measure' \in Nat
         /\ Measure' < Measure \/ (UNCHANGED vars /\ Measure' = Measure)
<1> DEFINE inbox == Inbox'
           intake == Intake'
           outbox == Outbox'
           clock == Clock'
           shut == Shut'
           asking == Asking'
           arriving == Arriving'
           pending == Pending'
           traffic == Traffic'
           ends == Ends'
           measure == Measure'
           managerLeft == ManagerLeft'
           writerLeft == WriterLeft'
<1> HIDE DEF managerLeft, writerLeft, inbox, intake, outbox, clock, shut, asking, arriving, pending, traffic, ends, measure
<1>d. /\ pending = inbox + intake + clock /\ traffic = outbox + asking
      /\ ends = shut + arriving /\ measure = pending + traffic + ends
  BY DEF Pending, Traffic, Ends, Measure, inbox, intake, outbox, clock, shut, asking,
         arriving, pending, traffic, ends, measure
<1>k. age' = age => clock = Clock
  BY DEF Clock, clock
<1>0. IInv'
  BY NextIInv
<1>n. /\ Inbox \in Nat /\ Intake \in Nat /\ Outbox \in Nat /\ Clock \in Nat
      /\ Shut \in Nat /\ Asking \in Nat /\ Arriving \in Nat
  BY PartsType DEF PartsOK
<1>p. /\ inbox \in Nat /\ intake \in Nat /\ outbox \in Nat /\ clock \in Nat
      /\ shut \in Nat /\ asking \in Nat /\ arriving \in Nat
  BY <1>0, PartsTypeNext
  DEF PartsOK, inbox, intake, outbox, clock, shut, asking, arriving
<1>a. /\ Pending \in Nat /\ Traffic \in Nat /\ Ends \in Nat
      /\ pending \in Nat /\ traffic \in Nat /\ ends \in Nat
  <2>1. Pending \in Nat /\ pending \in Nat
    BY <1>n, <1>p, <1>d, <1>k DEF Pending
  <2>2. Traffic \in Nat /\ traffic \in Nat
    BY <1>n, <1>p, <1>d DEF Traffic
  <2>3. Ends \in Nat /\ ends \in Nat
    BY <1>n, <1>p, <1>d DEF Ends
  <2>. QED
    BY <2>1, <2>2, <2>3
<1>t. IInv /\ TypeOK
  BY DEF IInv
<1>i. UNCHANGED <<budget, reader, readCh>> => inbox = Inbox /\ intake = Intake
  BY DEF Inbox, inbox, Intake, intake
<1>j. UNCHANGED <<budget, reader, readCh, age>> => pending = Pending
  BY <1>d, <1>i, <1>k DEF Pending
<1>o. UNCHANGED <<manager, natSends, poolReqs, sendCh, writer>> => outbox = Outbox
  BY DEF Outbox, outbox, ManagerLeft, WriterLeft
<1>g. /\ ManagerLeft \in 0..4 /\ WriterLeft \in 0..2
      /\ managerLeft \in 0..4 /\ writerLeft \in 0..2
      /\ manager' = manager => managerLeft = ManagerLeft
      /\ writer' = writer => writerLeft = WriterLeft
  BY DEF ManagerLeft, managerLeft, WriterLeft, writerLeft
<1>h. /\ natSends \in Nat /\ poolReqs \in Nat /\ sendCh \in Nat
      /\ natSends' \in Nat /\ poolReqs' \in Nat /\ sendCh' \in Nat
  BY <1>0, ControlAssumption DEF IInv, TypeOK
<1>b. outbox = managerLeft + 3 * natSends' + 3 * poolReqs' + 2 * sendCh' + writerLeft
  BY DEF Outbox, outbox, managerLeft, writerLeft
<1>u. user' = user => asking = Asking
  BY DEF Asking, asking, BeforeReq, BeforeWait, BeforeRefill, BeforeEnd
<1>q. UNCHANGED <<manager, natSends, poolReqs, sendCh, writer, user>> => traffic = Traffic
  BY <1>o, <1>u, <1>d DEF Traffic
<1>s. UNCHANGED <<conn, allStart, stoper>> => shut = Shut
  BY DEF Shut, shut
<1>w. wc' = wc => arriving = Arriving
  BY DEF Arriving, arriving, BeforePool, BeforeUse
<1>e. UNCHANGED <<conn, allStart, stoper, wc>> => ends = Ends
  BY <1>s, <1>w, <1>d DEF Ends
<1>x. UNCHANGED vars => measure = Measure
  BY <1>d, <1>j, <1>q, <1>e DEF vars, chanVars, workVars, Measure
<1>y. Measure \in Nat /\ measure \in Nat
  BY <1>a, <1>d DEF Measure
<1> SUFFICES ASSUME Next
             PROVE  measure < Measure
  BY <1>x, <1>y DEF measure
<1>m. \/ pending < Pending /\ traffic <= Traffic /\ ends <= Ends
      \/ pending <= Pending /\ traffic < Traffic /\ ends <= Ends
      \/ pending <= Pending /\ traffic <= Traffic /\ ends < Ends
      \/ pending + 7 <= Pending /\ traffic <= Traffic + 6 /\ ends <= Ends
      => measure < Measure
  BY <1>a, <1>d DEF Measure
<1> USE ControlAssumption DEF chanVars, workVars
<1>1. CASE \/ PeerBreaks \/ RequestShutdown
           \/ StoperStart \/ StoperCloseRead \/ StoperCloseSend \/ StoperCloseWork \/ StoperDone
  <2>1. CASE PeerBreaks \/ RequestShutdown
    <3>1. shut < Shut
      BY <1>t, <2>1 DEF PeerBreaks, RequestShutdown, Shut, shut, TypeOK
    <3>2. UNCHANGED <<budget, reader, readCh, manager, natSends, poolReqs, sendCh, writer, age, user, wc>>
      BY <2>1 DEF PeerBreaks, RequestShutdown
    <3>3. ends < Ends
      BY <1>n, <1>p, <1>w, <3>1, <3>2, <1>d DEF Ends
    <3>. QED
      BY <1>a, <1>m, <1>j, <1>q, <3>2, <3>3
  <2>2. CASE StoperStart \/ StoperCloseRead \/ StoperCloseSend \/ StoperCloseWork \/ StoperDone
    <3>1. shut < Shut
      BY <1>t, <2>2 DEF StoperStart, StoperCloseRead, StoperCloseSend, StoperCloseWork,
                        StoperDone, Shut, shut, TypeOK
    <3>2. UNCHANGED <<budget, reader, readCh, manager, natSends, poolReqs, sendCh, writer, age, user, wc>>
      BY <2>2 DEF StoperStart, StoperCloseRead, StoperCloseSend, StoperCloseWork, StoperDone
    <3>3. ends < Ends
      BY <1>n, <1>p, <1>w, <3>1, <3>2, <1>d DEF Ends
    <3>. QED
      BY <1>a, <1>m, <1>j, <1>q, <3>2, <3>3
  <2>. QED
    BY <1>1, <2>1, <2>2
<1>2. CASE Tick
  <2>1. clock < Clock
    BY <1>t, <1>2 DEF Tick, Clock, clock, TypeOK
  <2>2. UNCHANGED <<budget, reader, readCh, manager, natSends, poolReqs, sendCh, writer,
                    conn, allStart, stoper, user, wc>>
    BY <1>2 DEF Tick
  <2>3. pending < Pending
    BY <1>n, <1>p, <1>i, <2>1, <2>2, <1>d, <1>k DEF Pending
  <2>. QED
    BY <1>a, <1>m, <1>q, <1>e, <2>2, <2>3
<1>3. CASE (\E m \in Msg : ReaderRead(m)) \/ ReaderPut
  <2>1. intake < Intake
    BY <1>t, <1>3 DEF ReaderRead, ReaderPut, Intake, intake, TypeOK
  <2>2. inbox = Inbox
    <3>1. budget' + Len(readCh') + (IF reader' = "put" THEN 1 ELSE 0)
            = budget + Len(readCh) + (IF reader = "put" THEN 1 ELSE 0)
      <4>1. CASE \E m \in Msg : ReaderRead(m)
        BY <1>t, <4>1 DEF ReaderRead, TypeOK
      <4>2. CASE ReaderPut
        <5>1. reader = "put" /\ reader' = "read" /\ budget' = budget /\ readCh' = Append(readCh, rmsg)
          BY <4>2 DEF ReaderPut
        <5>2. Len(readCh') = Len(readCh) + 1 /\ Len(readCh) \in Nat
          <6>1. rmsg \in Msg /\ readCh \in Seq(Msg)
            BY <1>t, <5>1 DEF IInv, StoperOrder, TypeOK
          <6>. QED
            BY <5>1, <6>1
        <5>. QED
          BY <1>t, <5>1, <5>2 DEF TypeOK
      <4>. QED
        BY <1>3, <4>1, <4>2
    <3>. QED
      BY <3>1 DEF Inbox, inbox
  <2>3. UNCHANGED <<manager, natSends, poolReqs, sendCh, writer, conn, allStart, stoper, age, user, wc>>
    BY <1>3 DEF ReaderRead, ReaderPut
  <2>4. pending < Pending
    BY <1>n, <1>p, <2>1, <2>2, <2>3, <1>d, <1>k DEF Pending
  <2>. QED
    BY <1>a, <1>m, <1>q, <1>e, <2>3, <2>4
<1>4. CASE ReaderFail
  <2>1. intake < Intake
    BY <1>t, <1>4 DEF ReaderFail, Intake, intake, TypeOK
  <2>2. shut <= Shut
    BY <1>t, <1>4 DEF ReaderFail, Shut, shut, TypeOK
  <2>3. inbox = Inbox
    BY <1>4 DEF ReaderFail, Inbox, inbox
  <2>4. UNCHANGED <<manager, natSends, poolReqs, sendCh, writer, age, user, wc>>
    BY <1>4 DEF ReaderFail
  <2>5. pending < Pending
    BY <1>n, <1>p, <2>1, <2>3, <2>4, <1>d, <1>k DEF Pending
  <2>6. ends <= Ends
    BY <1>n, <1>p, <1>w, <2>2, <2>4, <1>d DEF Ends
  <2>. QED
    BY <1>a, <1>m, <1>q, <2>4, <2>5, <2>6
<1>5. CASE ManagerRecv
  <2>1. /\ manager = "recv" /\ readCh # <<>> /\ readCh' = Tail(readCh)
        /\ UNCHANGED <<budget, reader, sendCh, writer, conn, allStart, stoper, poolReqs, user, wc>>
    BY <1>5 DEF ManagerRecv
  <2>2. inbox = Inbox - (HeartbeatTimeout + 8)
    <3> DEFINE n == budget + Len(readCh) + (IF reader = "put" THEN 1 ELSE 0)
    <3>1. Len(readCh) \in Nat /\ Len(readCh) > 0 /\ Len(readCh') = Len(readCh) - 1
      BY <1>t, <2>1 DEF TypeOK
    <3>2. /\ n \in Nat /\ n > 0
          /\ budget' + Len(readCh') + (IF reader' = "put" THEN 1 ELSE 0) = n - 1
      BY <1>t, <2>1, <3>1 DEF TypeOK
    <3> HIDE DEF n
    <3>3. Inbox = (HeartbeatTimeout + 8) * n
      BY DEF Inbox, inbox, n
    <3>4. inbox = (HeartbeatTimeout + 8) * (n - 1)
      BY <3>2 DEF Inbox, inbox
    <3>. QED
      BY <3>2, <3>3, <3>4, Scale
  <2>3. intake = Intake
    BY <2>1 DEF Intake, intake
  <2>4. /\ (natSends' = natSends \/ natSends' = natSends + 1) /\ manager' \in {"send", "sendExit", "recv"}
        /\ age' \in {0, age}
    BY <1>5 DEF ManagerRecv
  <2>5. clock <= HeartbeatTimeout + 1
    <3> DEFINE a == age'
    <3>1. a \in Nat /\ HeartbeatTimeout \in Nat
      BY <1>0 DEF IInv, TypeOK
    <3>2. clock = HeartbeatTimeout + 1 - a
      BY DEF Clock, clock
    <3> HIDE DEF a
    <3>. QED
      BY <1>p, <3>1, <3>2
  <2>6. pending + 7 <= Pending
    BY <1>n, <1>p, <2>2, <2>3, <2>5, <1>d, <1>k DEF Pending
  <2>7. traffic <= Traffic + 6
    <3>1. outbox <= Outbox + 6
      <4>1. ManagerLeft = 1 /\ (managerLeft = 1 \/ natSends' = natSends)
        BY <1>5, <2>1 DEF ManagerLeft, managerLeft, ManagerRecv
      <4> DEFINE nats == natSends'
      <4>2. /\ (nats = natSends \/ (managerLeft = 1 /\ nats = natSends + 1)) /\ nats \in Nat
            /\ outbox = managerLeft + 3 * nats + 3 * poolReqs + 2 * sendCh + WriterLeft
        BY <1>g, <1>h, <1>b, <2>1, <2>4, <4>1
      <4> HIDE DEF nats
      <4>. QED
        BY <1>n, <1>p, <1>g, <1>h, <4>1, <4>2 DEF Outbox
    <3>. QED
      BY <1>n, <1>p, <1>u, <2>1, <3>1, <1>d DEF Traffic
  <2>. QED
    BY <1>a, <1>m, <1>e, <2>1, <2>6, <2>7
<1>6. CASE ManagerSend \/ ManagerExit \/ Writer
  <2>1. /\ outbox < Outbox
        /\ allStart' = allStart \/ allStart' = TRUE
        /\ UNCHANGED <<budget, reader, readCh, conn, stoper, age, user, wc>>
    <3>1. CASE ManagerSend
      <4>1. /\ manager \in {"send", "sendExit"} /\ sendCh' = sendCh + 1
            /\ manager' = (IF manager = "send" THEN "recv" ELSE "done")
            /\ allStart' = allStart \/ allStart' = TRUE
            /\ UNCHANGED <<budget, reader, readCh, writer, conn, stoper, poolReqs, natSends, age, user, wc>>
        BY <3>1 DEF ManagerSend
      <4>2. managerLeft + 3 = ManagerLeft
        BY <4>1 DEF ManagerLeft, managerLeft
      <4>. QED
        BY <1>g, <1>h, <1>b, <4>1, <4>2 DEF Outbox
    <3>2. CASE ManagerExit
      <4>1. managerLeft < ManagerLeft
        BY <3>2 DEF ManagerExit, ManagerLeft, managerLeft
      <4>. QED
        BY <3>2, <1>g, <1>h, <1>b, <4>1 DEF Outbox, ManagerExit
    <3>3. CASE WriterRecv
      <4>1. /\ writer = "recv" /\ sendCh > 0 /\ sendCh' = sendCh - 1 /\ writer' = "write"
            /\ UNCHANGED <<manager, natSends, poolReqs, budget, reader, readCh, conn, stoper, age,
                           user, wc, allStart>>
        BY <3>3 DEF WriterRecv
      <4>2. writerLeft = WriterLeft + 1
        BY <4>1 DEF WriterLeft, writerLeft
      <4>. QED
        BY <1>g, <1>h, <1>b, <4>1, <4>2 DEF Outbox
    <3>4. CASE WriterInit \/ WriterWrite \/ WriterExit
      <4>1. /\ allStart' = allStart \/ allStart' = TRUE
            /\ UNCHANGED <<manager, natSends, poolReqs, sendCh, budget, reader, readCh, conn,
                           stoper, age, user, wc>>
        BY <3>4 DEF WriterInit, WriterWrite, WriterExit
      <4>2. writerLeft < WriterLeft
        BY <3>4 DEF WriterInit, WriterWrite, WriterExit, WriterLeft, writerLeft
      <4>. QED
        BY <1>g, <1>h, <1>b, <4>1, <4>2 DEF Outbox
    <3>. QED
      BY <1>6, <3>1, <3>2, <3>3, <3>4 DEF Writer
  <2>2. shut <= Shut
    BY <1>t, <2>1 DEF Shut, shut, TypeOK
  <2>3. traffic < Traffic
    BY <1>n, <1>p, <1>u, <2>1, <1>d DEF Traffic
  <2>4. ends <= Ends
    BY <1>n, <1>p, <1>w, <2>1, <2>2, <1>d DEF Ends
  <2>. QED
    BY <1>a, <1>m, <1>j, <2>1, <2>3, <2>4
<1>7. ASSUME NEW w \in WorkConns, StoperDrain(w) \/ RegisterWorkConn(w)
      PROVE  measure < Measure
  <2>1. arriving + 1 <= Arriving
    <3>1. CASE StoperDrain(w)
      BY <1>t, <3>1, ArrivingStep DEF arriving, StoperDrain, Pool
    <3>2. CASE RegisterWorkConn(w)
      <4> DEFINE s == IF workClosed THEN "orphan"
                      ELSE IF Cardinality(Pool) < PoolCount + WorkSlack THEN "pooled" ELSE "closed"
      <4>1. s \in {"pooled", "used", "closed", "orphan"} /\ wc' = [wc EXCEPT ![w] = s] /\ wc[w] = "none"
        BY <3>2 DEF RegisterWorkConn
      <4> HIDE DEF s
      <4>. QED
        BY <1>t, <4>1, ArrivingStep DEF arriving
    <3>. QED
      BY <1>7, <3>1, <3>2
  <2>2. UNCHANGED <<budget, reader, readCh, manager, natSends, poolReqs, sendCh, writer, age,
                    conn, allStart, stoper, user>>
    BY <1>7 DEF StoperDrain, RegisterWorkConn
  <2>3. ends < Ends
    BY <1>n, <1>p, <1>s, <2>1, <2>2, <1>d DEF Ends
  <2>. QED
    BY <1>a, <1>m, <1>j, <1>q, <2>2, <2>3
<1>8. CASE PoolRequest \/ NatHoleAnswer
  <2>1. outbox < Outbox
    <3>1. /\ (sendCh' = sendCh \/ sendCh' = sendCh + 1) /\ UNCHANGED <<manager, writer>>
          /\ \/ poolReqs > 0 /\ poolReqs' = poolReqs - 1 /\ natSends' = natSends
             \/ natSends > 0 /\ natSends' = natSends - 1 /\ poolReqs' = poolReqs
      BY <1>8 DEF PoolRequest, NatHoleAnswer, ProtectedSend
    <3> DEFINE nats == natSends'
               pools == poolReqs'
               sends == sendCh'
    <3>2. /\ sends = sendCh \/ sends = sendCh + 1
          /\ nats \in Nat /\ pools \in Nat /\ sends \in Nat
          /\ outbox = ManagerLeft + 3 * nats + 3 * pools + 2 * sends + WriterLeft
          /\ (pools = poolReqs - 1 /\ nats = natSends) \/ (nats = natSends - 1 /\ pools = poolReqs)
      BY <1>g, <1>h, <1>b, <3>1
    <3> HIDE DEF nats, pools, sends
    <3>. QED
      BY <1>n, <1>p, <1>g, <1>h, <3>2 DEF Outbox
  <2>2. UNCHANGED <<budget, reader, readCh, age, conn, allStart, stoper, user, wc>>
    BY <1>8 DEF PoolRequest, NatHoleAnswer
  <2>3. traffic < Traffic
    BY <1>n, <1>p, <1>u, <2>1, <2>2, <1>d DEF Traffic
  <2>. QED
    BY <1>a, <1>m, <1>j, <1>e, <2>2, <2>3
<1>9. ASSUME NEW u \in Users, UserFirst(u) \/ UserWait(u)
      PROVE  measure < Measure
  <2>1. PICK s \in {"req", "refill", "err"} :
          /\ user' = [user EXCEPT ![u] = s]
          /\ user[u] = "idle" \/ (user[u] = "wait" /\ s # "req")
    BY <1>9 DEF UserFirst, UserWait, TakeWorkConn
  <2>2. asking + 1 <= Asking
    BY <1>t, <2>1, AskingStep DEF asking
  <2>3. arriving <= Arriving
    <3>1. CASE wc' = wc
      BY <1>w, <1>n, <3>1
    <3>2. ASSUME NEW w \in WorkConns, wc[w] = "pooled", wc' = [wc EXCEPT ![w] = "used"]
          PROVE  arriving <= Arriving
      <4>1. arriving + 1 <= Arriving
        BY <1>t, <3>2, ArrivingStep DEF arriving
      <4>. QED
        BY <1>n, <1>p, <4>1
    <3>. QED
      BY <1>9, <3>1, <3>2 DEF UserFirst, UserWait, TakeWorkConn, Pool
  <2>4. UNCHANGED <<budget, reader, readCh, manager, natSends, poolReqs, sendCh, writer, age,
                    conn, allStart, stoper>>
    BY <1>9 DEF UserFirst, UserWait
  <2>5. traffic < Traffic
    BY <1>n, <1>p, <1>o, <2>2, <2>4, <1>d DEF Traffic
  <2>6. ends <= Ends
    BY <1>n, <1>p, <1>s, <2>3, <2>4, <1>d DEF Ends
  <2>. QED
    BY <1>a, <1>m, <1>j, <2>4, <2>5, <2>6
<1>10. ASSUME NEW u \in Users, UserRequest(u) \/ UserRefill(u)
       PROVE  measure < Measure
  <2>1. PICK s \in {"wait", "err", "got"} :
          /\ user' = [user EXCEPT ![u] = s]
          /\ (user[u] = "req" /\ s # "got") \/ (user[u] = "refill" /\ s = "got")
    BY <1>10 DEF UserRequest, UserRefill
  <2>2. asking + 3 <= Asking
    BY <1>t, <2>1, AskingStep DEF asking
  <2>3. outbox <= Outbox + 2
    <3>1. (sendCh' = sendCh \/ sendCh' = sendCh + 1) /\ UNCHANGED <<manager, writer, natSends, poolReqs>>
      BY <1>10 DEF UserRequest, UserRefill, ProtectedSend
    <3> DEFINE sends == sendCh'
    <3>2. /\ sends = sendCh \/ sends = sendCh + 1
          /\ sends \in Nat
          /\ outbox = ManagerLeft + 3 * natSends + 3 * poolReqs + 2 * sends + WriterLeft
      BY <1>g, <1>h, <1>b, <3>1
    <3> HIDE DEF sends
    <3>. QED
      BY <1>n, <1>p, <1>g, <1>h, <3>2 DEF Outbox
  <2>4. UNCHANGED <<budget, reader, readCh, age, conn, allStart, stoper, wc>>
    BY <1>10 DEF UserRequest, UserRefill
  <2>5. traffic < Traffic
    BY <1>n, <1>p, <2>2, <2>3, <1>d DEF Traffic
  <2>. QED
    BY <1>a, <1>m, <1>j, <1>e, <2>4, <2>5
<1>. QED
  BY <1>1, <1>2, <1>3, <1>4, <1>5, <1>6, <1>7, <1>8, <1>9, <1>10
  DEF Next, Reader, Manager, Stoper, User

\* Nothing happens any more; n is left to be done at some time, or the control
\* comes to rest; less than n is left at some time.
Resting == [][FALSE]_vars
Reaches(n) == <>(Resting \/ Measure = n)
Sinks(n) == <>(Measure \in Nat /\ Measure < n)

\* Among the numbers that Measure comes to there is a least one.
\* This holds of every behaviour, since natural numbers are well founded; but
\* Reaches is a temporal formula, so no set or function of TLA+, and no theorem of
\* the library, ranges over the numbers of which it holds.
LeastNumber ==
  (\E n \in Nat : Reaches(n))
    => \E n \in Nat : Reaches(n) /\ \A m \in Nat : m < n => ~Reaches(m)

LEMMA RestsOrSinks ==
  ASSUME NEW n \in Nat
  PROVE  Spec /\ Reaches(n) => <>Resting \/ Sinks(n)
<1> DEFINE Now == Measure = n
           Less == Measure \in Nat /\ Measure < n
<1>1. IInv /\ Now /\ [Next]_vars => Less' \/ (Now' /\ [FALSE]_vars)
  <2> SUFFICES ASSUME IInv, Now, [Next]_vars
               PROVE  Less' \/ (Now' /\ UNCHANGED vars)
    OBVIOUS
  <2>1. /\ Measure' \in Nat
        /\ Measure' < Measure \/ (UNCHANGED vars /\ Measure' = Measure)
    BY MeasureStep
  <2>. QED
    BY <2>1
<1> HIDE DEF Now, Less
<1>2. [][Next]_vars /\ []IInv /\ Now => <>[][FALSE]_vars \/ <>Less
  BY <1>1, PTL
<1>3. Spec => [][Next]_vars /\ []IInv
  BY AlwaysIInv, PTL DEF Spec
<1>4. [][Next]_vars /\ []IInv /\ <>([][FALSE]_vars \/ Now) => <>[][FALSE]_vars \/ <>Less
  BY <1>2, PTL
<1>. QED
  BY <1>3, <1>4 DEF Reaches, Sinks, Resting, Now, Less

\* A control does only finitely much: its client sends finitely many messages
\* and work connections and has finitely many users, and no goroutine loops.
LEMMA ComesToRest == Spec /\ LeastNumber => <>Resting
<1>1. ASSUME NEW n \in Nat
      PROVE  Spec /\ Reaches(n) => n = 0 \/ \E m \in Nat : m < n /\ Reaches(m)
  <2>1. <>Resting => Reaches(0)
    BY PTL DEF Reaches
  <2>2. Measure \in Nat /\ Measure < n => \E m \in 0..(n - 1) : Measure = m
    OBVIOUS
  <2>3. Sinks(n) => <>(\E m \in 0..(n - 1) : Measure = m)
    BY <2>2, PTL DEF Sinks
  <2>4. <>(\E m \in 0..(n - 1) : Measure = m) => \E m \in 0..(n - 1) : <>(Measure = m)
    OBVIOUS
  <2>5. ASSUME NEW m \in 0..(n - 1)
        PROVE  <>(Measure = m) => Reaches(m)
    BY PTL DEF Reaches
  <2>6. Sinks(n) => \E m \in 0..(n - 1) : Reaches(m)
    BY <2>3, <2>4, <2>5
  <2>7. \A m \in 0..(n - 1) : m \in Nat /\ m < n
    OBVIOUS
  <2>. QED
    BY <2>1, <2>6, <2>7, RestsOrSinks
<1>2. Spec => \E n \in Nat : Reaches(n)
  <2>1. ASSUME NEW n \in Nat
        PROVE  Measure = n => Reaches(n)
    BY PTL DEF Reaches
  <2>2. IInv => Measure \in Nat
    BY PartsType DEF PartsOK, Measure, Pending, Traffic, Ends
  <2>3. Spec => Measure \in Nat
    BY <2>2, AlwaysIInv, PTL
  <2>. QED
    BY <2>1, <2>3
<1>3. Spec /\ LeastNumber => Reaches(0)
  BY <1>1, <1>2 DEF LeastNumber
<1>4. ~(Measure \in Nat /\ Measure < 0)
  OBVIOUS
<1>5. Spec /\ Reaches(0) => <>Resting \/ Sinks(0)
  BY RestsOrSinks
<1>. QED
  BY <1>3, <1>4, <1>5, PTL DEF Sinks

\* While nothing happens, a goroutine whose guard holds keeps it, so that its
\* fairness would make it move: in the end none can.
Blocked == ~ReaderReady /\ ~ManagerReady /\ ~WriterReady /\ ~StoperReady

FairGoroutines == FairReader /\ FairManager /\ FairWriter /\ FairStoper

LEMMA RestingIsBlocked ==
  FairGoroutines /\ []GuardsEnable /\ Resting => []Blocked
<1>1. /\ ReaderReady /\ [FALSE]_vars => ReaderReady'
      /\ ManagerReady /\ [FALSE]_vars => ManagerReady'
      /\ WriterReady /\ [FALSE]_vars => WriterReady'
      /\ StoperReady /\ [FALSE]_vars => StoperReady'
  BY DEF ReaderReady, ManagerReady, WriterReady, StoperReady, vars, chanVars, workVars
<1>2. GuardsEnable => /\ ReaderReady => ENABLED <<Reader>>_vars
                      /\ ManagerReady => ENABLED <<Manager>>_vars
                      /\ WriterReady => ENABLED <<Writer>>_vars
                      /\ StoperReady => ENABLED <<Stoper>>_vars
  BY DEF GuardsEnable
<1>3. []GuardsEnable /\ [][FALSE]_vars /\ FairReader => []~ReaderReady
  BY <1>1, <1>2, PTL DEF FairReader
<1>4. []GuardsEnable /\ [][FALSE]_vars /\ FairManager => []~ManagerReady
  BY <1>1, <1>2, PTL DEF FairManager
<1>5. []GuardsEnable /\ [][FALSE]_vars /\ FairWriter => []~WriterReady
  BY <1>1, <1>2, PTL DEF FairWriter
<1>6. []GuardsEnable /\ [][FALSE]_vars /\ FairStoper => []~StoperReady
  BY <1>1, <1>2, PTL DEF FairStoper
<1>7. []~ReaderReady /\ []~ManagerReady /\ []~WriterReady /\ []~StoperReady => []Blocked
  BY PTL DEF Blocked
<1>. QED
  BY <1>3, <1>4, <1>5, <1>6, <1>7 DEF Resting, FairGoroutines

LEMMA RestingUserIsBlocked ==
  ASSUME NEW u \in Users
  PROVE  FairUser(u) /\ []GuardsEnable /\ Resting => []~UserReady(u)
<1>1. UserReady(u) /\ [FALSE]_vars => UserReady(u)'
  BY DEF UserReady, vars, chanVars, workVars
<1>2. GuardsEnable => (UserReady(u) => ENABLED <<User(u)>>_vars)
  BY DEF GuardsEnable
<1>3. []GuardsEnable /\ [][FALSE]_vars /\ FairUser(u) => []~UserReady(u)
  BY <1>1, <1>2, PTL DEF FairUser
<1>. QED
  BY <1>3 DEF Resting

\* A control that is shutting down and in which no goroutine can move has shut
\* down or is wedged; one whose user is blocked on sendCh is wedged.
LEMMA BlockedIsClosed ==
  IInv /\ StartInv /\ Blocked /\ allStart => stoper = "done" \/ Wedged
<1> SUFFICES ASSUME IInv, StartInv, Blocked, allStart, ~Wedged
             PROVE  stoper = "done"
  OBVIOUS
<1>0. TypeOK /\ StoperOrder
  BY DEF IInv
<1>1. writer = "done" \/ (writer = "recv" /\ sendCh = 0 /\ ~sendClosed)
  BY <1>0 DEF Blocked, WriterReady, TypeOK
<1>2. manager \notin {"send", "sendExit"}
  <2>1. manager \in {"send", "sendExit"} => sendCh = SendCap
    BY <1>0, ControlAssumption DEF Blocked, ManagerReady, TypeOK
  <2>2. SendCap # 0
    BY ControlAssumption
  <2>. QED
    BY <1>1, <2>1, <2>2 DEF Wedged, ManagerWedged
<1>3. manager = "done" \/ (manager = "recv" /\ readCh = <<>> /\ ~readClosed)
  BY <1>0, <1>2 DEF Blocked, ManagerReady, TypeOK
<1>4. reader # "put"
  <2>1. reader = "put" => Len(readCh) = ReadCap
    BY <1>0, ControlAssumption DEF Blocked, ReaderReady, TypeOK
  <2>2. ReadCap # 0 /\ Len(<<>>) = 0
    BY ControlAssumption
  <2>. QED
    BY <1>3, <2>1, <2>2 DEF Wedged, ReaderWedged
<1>5. conn = "closed" => reader = "done"
  BY <1>0, <1>4 DEF Blocked, ReaderReady, TypeOK
<1>. QED
  BY <1>0, <1>1, <1>3, <1>5 DEF Blocked, StoperReady, StartInv, StoperOrder, TypeOK

LEMMA BlockedIsAnswered ==
  ASSUME NEW u \in Users
  PROVE  IInv /\ StartInv /\ Blocked /\ ~UserReady(u) => user[u] \in {"got", "err"} \/ Wedged
<1> SUFFICES ASSUME IInv, StartInv, Blocked, ~UserReady(u), user[u] \notin {"got", "err"}
             PROVE  Wedged
  OBVIOUS
<1>0. TypeOK
  BY DEF IInv
<1>1. ~sendClosed /\ sendCh = SendCap
  BY <1>0, ControlAssumption DEF UserReady, TypeOK
<1>2. writer = "done"
  BY <1>0, <1>1, ControlAssumption DEF Blocked, WriterReady, TypeOK
<1>3. stoper = "done" => sendClosed
  BY DEF StartInv
<1>. QED
  BY <1>1, <1>2, <1>3, BlockedIsClosed DEF StartInv

LEMMA AllStartStays == allStart /\ [Next]_vars => allStart'
<1> SUFFICES ASSUME allStart, [Next]_vars
             PROVE  allStart'
  OBVIOUS
<1> USE DEF chanVars, workVars
<1>1. CASE PeerBreaks \/ Tick \/ RequestShutdown \/ (\E m \in Msg : ReaderRead(m)) \/ Reader
  BY <1>1 DEF PeerBreaks, Tick, RequestShutdown, ReaderRead, Reader, ReaderFail, ReaderPut
<1>2. CASE Manager \/ Writer
  BY <1>2 DEF Manager, ManagerRecv, ManagerSend, ManagerExit,
              Writer, WriterInit, WriterRecv, WriterWrite, WriterExit
<1>3. CASE Stoper
  BY <1>3 DEF Stoper, StoperStart, StoperCloseRead, StoperCloseSend, StoperCloseWork,
              StoperDrain, StoperDone
<1>4. CASE PoolRequest \/ NatHoleAnswer \/ (\E u \in Users : User(u))
  BY <1>4 DEF PoolRequest, NatHoleAnswer, User, UserFirst, UserRequest, UserWait, UserRefill
<1>5. CASE (\E w \in WorkConns : RegisterWorkConn(w)) \/ UNCHANGED vars
  BY <1>5 DEF RegisterWorkConn, vars
<1>. QED
  BY <1>1, <1>2, <1>3, <1>4, <1>5 DEF Next

\* A shutdown that was started completes or wedges, for any capacities, numbers
\* of messages, users and work connections and however the client behaves.
THEOREM ClosesUnlessWedgedHolds == FairSpec /\ []GuardsEnable /\ LeastNumber => ClosesUnlessWedged
<1> DEFINE Closed == stoper = "done"
<1>1. FairSpec => Spec /\ FairGoroutines
  BY DEF FairSpec, Fairness, FairGoroutines
<1>2. FairGoroutines => []FairGoroutines
  BY PTL DEF FairGoroutines, FairReader, FairManager, FairWriter, FairStoper
<1>3. FairSpec /\ []GuardsEnable /\ LeastNumber => <>[]Blocked
  BY <1>1, <1>2, ComesToRest, RestingIsBlocked, PTL
<1>4. Spec => [][Next]_vars /\ [](IInv /\ StartInv)
  BY AlwaysStartInv, PTL DEF Spec
<1>5. IInv /\ StartInv /\ Blocked /\ allStart => Closed \/ Wedged
  BY BlockedIsClosed
<1> HIDE DEF Closed
<1>6. FairSpec /\ []GuardsEnable /\ LeastNumber => (allStart ~> (Closed \/ Wedged))
  BY <1>1, <1>3, <1>4, <1>5, AllStartStays, PTL
<1>. QED
  BY <1>6 DEF Closed, ClosesUnlessWedged

\* A user connection that asked gets a work connection or an error or finds its
\* control wedged, for any number of users that compete for the send channel.
THEOREM UserAnsweredHolds == FairSpec /\ []GuardsEnable /\ LeastNumber => UserAnswered
<1> SUFFICES ASSUME NEW u \in Users
             PROVE  FairSpec /\ []GuardsEnable /\ LeastNumber
                      => (user[u] = "req" ~> (user[u] \in {"got", "err"} \/ Wedged))
  BY DEF UserAnswered
<1> DEFINE Answered == user[u] \in {"got", "err"}
           Asks == user[u] = "req"
<1>1. FairSpec => Spec /\ FairGoroutines /\ FairUser(u)
  BY DEF FairSpec, Fairness, FairGoroutines
<1>2. FairGoroutines => []FairGoroutines
  BY PTL DEF FairGoroutines, FairReader, FairManager, FairWriter, FairStoper
<1>3. FairUser(u) => []FairUser(u)
  BY PTL DEF FairUser
<1>4. FairUser(u) /\ []GuardsEnable /\ Resting => []~UserReady(u)
  BY RestingUserIsBlocked
<1>5. FairSpec /\ []GuardsEnable /\ LeastNumber => <>[](Blocked /\ ~UserReady(u))
  BY <1>1, <1>2, <1>3, <1>4, ComesToRest, RestingIsBlocked, PTL
<1>6. IInv /\ StartInv /\ Blocked /\ ~UserReady(u) => Answered \/ Wedged
  BY BlockedIsAnswered
<1> HIDE DEF Answered, Asks
<1>7. FairSpec /\ []GuardsEnable /\ LeastNumber => (Asks ~> (Answered \/ Wedged))
  BY <1>1, <1>5, <1>6, AlwaysStartInv, PTL
<1>. QED
  BY <1>7 DEF Answered, Asks
=============================================================================
