------------------------ MODULE ClientServiceProofs ------------------------
(***************************************************************************)
(* Proofs about ClientService, for any number of controls, reconnects and  *)
(* reloads and any capacity of the channels: controls never overlap, and a *)
(* lost connection is replaced.  Liveness is proved from [] GuardsEnable,  *)
(* since the prover does not look into ENABLED, and from LeastNumbers,     *)
(* since it does no induction over temporal formulas.                      *)
(***************************************************************************)
EXTENDS ClientService, TLAPS

\* Control objects differ from nil.
LEMMA NoControlFacts == NoControl \notin Control
BY DEF NoControl, Control

\* A message is put into, or taken from, one of the queues.
LEMMA QueueFacts ==
  ASSUME NEW q \in Seq(Msg), NEW m \in Msg
  PROVE  /\ Append(q, m) \in Seq(Msg) /\ Len(Append(q, m)) = Len(q) + 1
         /\ Len(q) \in Nat
         /\ q # <<>> => /\ Tail(q) \in Seq(Msg) /\ Head(q) \in Msg
                        /\ Len(Tail(q)) = Len(q) - 1
OBVIOUS

\* A protected send keeps the length of sendCh within its capacity.
LEMMA SendTypes ==
  ASSUME ControlTypeOK, NEW c \in Control, ProtectedSend(c)
  PROVE  sendCh' \in [Control -> 0..QueueCap]
<1>1. CASE UNCHANGED sendCh BY <1>1 DEF ControlTypeOK
<1>2. CASE sendCh[c] < QueueCap /\ sendCh' = [sendCh EXCEPT ![c] = @ + 1]
  BY <1>2, ControlAssumption DEF ControlTypeOK
<1>3. QED BY <1>1, <1>2 DEF ProtectedSend

\* The steps of a control keep the types.
LEMMA ControlTypeStep ==
  ASSUME ControlTypeOK, NEW c \in Control, ControlNext(c)
  PROVE  ControlTypeOK'
<1> USE ControlAssumption DEF ControlTypeOK
<1>1. CASE Break(c) BY <1>1 DEF Break
<1>2. CASE ProxySend(c)
  <2>1. sendCh' \in [Control -> 0..QueueCap] BY <1>2, SendTypes DEF ProxySend
  <2>2. QED BY <2>1, <1>2 DEF ProxySend
<1>3. CASE ReaderRead(c) BY <1>3 DEF ReaderRead
<1>4. CASE ReaderFail(c) BY <1>4 DEF ReaderFail
<1>5. CASE ReaderPut(c)
  <2>1. /\ Append(readCh[c], hand[c]) \in Seq(Msg)
        /\ Len(Append(readCh[c], hand[c])) = Len(readCh[c]) + 1
        /\ Len(readCh[c]) \in Nat
    BY QueueFacts
  <2>2. readCh' \in [Control -> Seq(Msg)]
    BY <2>1, <1>5 DEF ReaderPut
  <2>3. \A d \in Control : Len(readCh'[d]) <= QueueCap
    BY <2>1, <1>5 DEF ReaderPut
  <2>4. hand' \in [Control -> Msg]
    BY <1>5 DEF ReaderPut, Msg
  <2>5. QED BY <2>2, <2>3, <2>4, <1>5 DEF ReaderPut
<1>6. CASE HandlerTick(c) BY <1>6 DEF HandlerTick
<1>7. CASE HandlerTimeout(c) BY <1>7 DEF HandlerTimeout
<1>8. CASE HandlerRecv(c)
  <2>1. readCh[c] # <<>> => /\ Tail(readCh[c]) \in Seq(Msg)
                            /\ Len(Tail(readCh[c])) = Len(readCh[c]) - 1
                            /\ Len(readCh[c]) \in Nat
    BY QueueFacts DEF Msg
  <2>2. readCh' \in [Control -> Seq(Msg)]
    BY <2>1, <1>8 DEF HandlerRecv
  <2>3. \A d \in Control : Len(readCh'[d]) <= QueueCap
    <3>1. CASE readCh[c] = <<>>
      BY <3>1, <1>8 DEF HandlerRecv
    <3>2. CASE readCh[c] # <<>>
      <4>1. readCh' = [readCh EXCEPT ![c] = Tail(readCh[c])]
        BY <3>2, <1>8 DEF HandlerRecv
      <4>2. Len(Tail(readCh[c])) <= QueueCap
        BY <3>2, <2>1
      <4>3. QED BY <4>1, <4>2
    <3>3. QED BY <3>1, <3>2
  <2>4. /\ handler' \in [Control -> {"none", "select", "send", "done"}]
        /\ conn' \in [Control -> {"none", "open", "closed"}]
    BY <1>8 DEF HandlerRecv, ReadClosed
  <2>5. QED BY <2>2, <2>3, <2>4, <1>8 DEF HandlerRecv
<1>9. CASE HandlerSend(c) BY <1>9 DEF HandlerSend
<1>10. CASE WriterInit(c) BY <1>10 DEF WriterInit
<1>11. CASE WriterRecv(c)
  <2>1. CASE sendCh[c] > 0
    <3>1. sendCh[c] \in 0..QueueCap /\ sendCh[c] - 1 \in 0..QueueCap
      BY <2>1
    <3>2. sendCh' = [sendCh EXCEPT ![c] = sendCh[c] - 1]
      BY <2>1, <1>11 DEF WriterRecv
    <3>3. sendCh' \in [Control -> 0..QueueCap]
      BY <3>1, <3>2
    <3>4. QED BY <3>3, <2>1, <1>11 DEF WriterRecv
  <2>2. CASE ~(sendCh[c] > 0)
    BY <2>2, <1>11 DEF WriterRecv
  <2>3. QED BY <2>1, <2>2
<1>12. CASE WriterWrite(c) BY <1>12 DEF WriterWrite
<1>13. CASE WorkerClosed(c) BY <1>13 DEF WorkerClosed
<1>14. CASE WorkerHandlerDone(c) BY <1>14 DEF WorkerHandlerDone
<1>15. CASE WorkerWriterDone(c)
  <2>1. readCh' \in [Control -> Seq(Msg)] /\ \A d \in Control : Len(readCh'[d]) <= QueueCap
    BY <1>15 DEF WorkerWriterDone
  <2>2. QED BY <2>1, <1>15 DEF WorkerWriterDone
<1>16. QED
  BY <1>1, <1>2, <1>3, <1>4, <1>5, <1>6, <1>7, <1>8, <1>9, <1>10, <1>11, <1>12,
     <1>13, <1>14, <1>15
  DEF ControlNext, Reader, Writer, Worker

\* The type invariant is inductive.
LEMMA TypeOKStep == TypeOK /\ [Next]_vars => TypeOK'
<1> SUFFICES ASSUME TypeOK, [Next]_vars PROVE TypeOK'
  OBVIOUS
<1> USE ControlAssumption, ServiceAssumption DEF TypeOK
<1>1. ASSUME NEW c \in Control, ControlNext(c), UNCHANGED svcVars PROVE TypeOK'
  BY <1>1, ControlTypeStep DEF svcVars
<1>2. ASSUME NEW c \in Control, NewControl(c)
      PROVE  ControlTypeOK' /\ ctlCfgs' \in [Control -> 0..MaxReloads]
  BY <1>2 DEF NewControl, Run, ControlTypeOK
<1>3. ASSUME UNCHANGED ctlVars PROVE ControlTypeOK'
  BY <1>3 DEF ctlVars, ControlTypeOK
<1>4. CASE FirstLogin BY <1>4, <1>2, <1>3 DEF FirstLogin
<1>5. CASE KeeperTop BY <1>5, <1>3 DEF KeeperTop
<1>6. CASE KeeperWait BY <1>6, <1>3 DEF KeeperWait
<1>7. CASE KeeperDelay BY <1>7, <1>3 DEF KeeperDelay
<1>8. CASE KeeperLoginFails BY <1>8, <1>3 DEF KeeperLoginFails
<1>9. CASE KeeperLogin BY <1>9, <1>2 DEF KeeperLogin
<1>10. CASE KeeperStore
  <2>1. ControlTypeOK'
    BY <1>10 DEF KeeperStore, ControlTypeOK
  <2>2. QED BY <2>1, <1>10 DEF KeeperStore
<1>11. CASE ReloadStore BY <1>11, <1>3 DEF ReloadStore
<1>12. CASE ReloadLookup BY <1>12, <1>3 DEF ReloadLookup
<1>13. CASE ReloadApply
  <2>1. ControlTypeOK'
    BY <1>13, SendTypes DEF ReloadApply, ControlTypeOK
  <2>2. QED BY <2>1, <1>13 DEF ReloadApply
<1>14. CASE CloseBegin BY <1>14, <1>3 DEF CloseBegin
<1>15. CASE CloseLock BY <1>15, <1>3 DEF CloseLock
<1>16. CASE CloseProxies
  <2>1. ControlTypeOK'
    <3>1. ctl \in Control => sendCh' \in [Control -> 0..QueueCap]
      BY <1>16, SendTypes DEF CloseProxies
    <3>2. ctl \notin Control => sendCh' \in [Control -> 0..QueueCap]
      BY <1>16 DEF CloseProxies, ProtectedSend, ControlTypeOK
    <3>3. QED BY <3>1, <3>2, <1>16 DEF CloseProxies, ControlTypeOK
  <2>2. QED BY <2>1, <1>16 DEF CloseProxies
<1>17. CASE CloseConn
  <2>1. ControlTypeOK'
    BY <1>17 DEF CloseConn, ControlTypeOK
  <2>2. QED BY <2>1, <1>17 DEF CloseConn
<1>18. CASE CloseCancel BY <1>18, <1>3 DEF CloseCancel
<1>19. CASE UNCHANGED vars BY <1>19, <1>3 DEF vars, svcVars
<1>20. QED
  BY <1>1, <1>4, <1>5, <1>6, <1>7, <1>8, <1>9, <1>10, <1>11, <1>12, <1>13, <1>14,
     <1>15, <1>16, <1>17, <1>18, <1>19
  DEF Next, Keeper, Reload, Close

\* TypeOK holds in every reachable state.
THEOREM TypeCorrect == Spec => []TypeOK
<1>1. Init => TypeOK
  <2>1. ControlInit => ControlTypeOK
    <3>1. <<>> \in Seq(Msg) /\ Len(<<>>) = 0
      OBVIOUS
    <3>2. QED BY <3>1, ControlAssumption DEF ControlInit, ControlTypeOK, Msg
  <2>2. Init => /\ reconnectCounts \in 0..MaxReconnects /\ failures \in 0..MaxReconnects
                /\ pxyCfgs \in 0..MaxReloads /\ ctlCfgs \in [Control -> 0..MaxReloads]
    BY ServiceAssumption DEF Init
  <2>3. QED BY <2>1, <2>2 DEF Init, TypeOK
<1>2. QED
  BY <1>1, TypeOKStep, PTL DEF Spec

-----------------------------------------------------------------------------
(* The shutdown of a control *)

\* readCh is closed after reader, sendCh after msgHandler has returned.
ShutdownOrder ==
  \A c \in Control :
    /\ ReadClosed(c) => reader[c] = "done"
    /\ SendClosed(c) => handler[c] = "done"

\* No step of a control undoes the order, and none brings a control to life.
LEMMA ControlSteps ==
  ASSUME ControlTypeOK, ShutdownOrder, NEW c \in Control, ControlNext(c)
  PROVE  ShutdownOrder' /\ \A d \in Control : Live(d)' => Live(d)
<1> USE DEF ControlTypeOK, ShutdownOrder, ReadClosed, SendClosed, Live
<1>1. CASE Break(c) BY <1>1 DEF Break
<1>2. CASE ProxySend(c) BY <1>2 DEF ProxySend
<1>3. CASE ReaderRead(c) BY <1>3 DEF ReaderRead
<1>4. CASE ReaderFail(c) BY <1>4 DEF ReaderFail
<1>5. CASE ReaderPut(c) BY <1>5 DEF ReaderPut
<1>6. CASE HandlerTick(c) BY <1>6 DEF HandlerTick
<1>7. CASE HandlerTimeout(c) BY <1>7 DEF HandlerTimeout
<1>8. CASE HandlerRecv(c) BY <1>8 DEF HandlerRecv
<1>9. CASE HandlerSend(c) BY <1>9 DEF HandlerSend
<1>10. CASE WriterInit(c) BY <1>10 DEF WriterInit
<1>11. CASE WriterRecv(c) BY <1>11 DEF WriterRecv
<1>12. CASE WriterWrite(c) BY <1>12 DEF WriterWrite
<1>13. CASE WorkerClosed(c) BY <1>13 DEF WorkerClosed
<1>14. CASE WorkerHandlerDone(c) BY <1>14 DEF WorkerHandlerDone
<1>15. CASE WorkerWriterDone(c) BY <1>15 DEF WorkerWriterDone
<1>16. QED
  BY <1>1, <1>2, <1>3, <1>4, <1>5, <1>6, <1>7, <1>8, <1>9, <1>10, <1>11, <1>12,
     <1>13, <1>14, <1>15
  DEF ControlNext, Reader, Writer, Worker

\* A new control starts in order, and is the only one that comes to life.
LEMMA NewControlSteps ==
  ASSUME TypeOK, ShutdownOrder, NEW c \in Control, NewControl(c)
  PROVE  ShutdownOrder' /\ \A d \in Control : Live(d)' => Live(d) \/ d = c
BY DEF TypeOK, ControlTypeOK, ShutdownOrder, ReadClosed, SendClosed, Live,
       NewControl, Run

\* The other steps of the service leave reader, msgHandler and worker alone.
LEMMA OtherSteps ==
  ASSUME ShutdownOrder, UNCHANGED <<reader, handler, worker>>
  PROVE  ShutdownOrder' /\ \A d \in Control : Live(d)' = Live(d)
BY DEF ShutdownOrder, ReadClosed, SendClosed, Live

-----------------------------------------------------------------------------
(* keepControllerWorking *)

\* Which control may be alive follows from how far keepControllerWorking is.
KeeperInv ==
  /\ keeper = "none" => (main => process # "running") /\ \A c \in Control : ~Live(c)
  /\ keeper = "top" => \A c \in Control : Live(c) => ctl \in {c, NoControl}
  /\ keeper = "wait" => \A c \in Control : Live(c) => c = waiting
  /\ keeper \in {"delay", "login", "done"} => \A c \in Control : ~Live(c)
  /\ keeper = "store" => \A c \in Control : Live(c) => c = fresh
  /\ ~main => keeper = "none"

\* What has happened when the process ended itself.
ExitCause == process = "exited" => keeper = "none" \/ failures = MaxReconnects

\* Every attempt that was counted has failed, except the one under way.
CountInv ==
  /\ process # "exited" =>
       /\ keeper \in {"none", "top", "wait", "store"} => reconnectCounts = failures
       /\ keeper \in {"delay", "login"} => reconnectCounts = failures + 1
  /\ ExitCause

IInv == ShutdownOrder /\ OneControl /\ KeeperInv /\ CountInv

\* The steps of a control.
LEMMA ControlIInv ==
  ASSUME TypeOK, IInv, NEW c \in Control, ControlNext(c), UNCHANGED svcVars
  PROVE  IInv'
<1>1. ShutdownOrder' /\ \A d \in Control : Live(d)' => Live(d)
  BY ControlSteps DEF IInv, TypeOK
<1>2. OneControl' BY <1>1 DEF IInv, OneControl
<1>3. KeeperInv' BY <1>1 DEF IInv, KeeperInv, svcVars
<1>4. CountInv' BY DEF IInv, CountInv, ExitCause, svcVars
<1>5. QED BY <1>1, <1>2, <1>3, <1>4 DEF IInv

\* The steps of keepControllerWorking and the first login.
LEMMA KeeperIInv ==
  ASSUME TypeOK, IInv, FirstLogin \/ Keeper, process = "running"
  PROVE  IInv'
<1> USE DEF IInv
<1>1. CASE FirstLogin
  <2>1. ASSUME NEW c \in Control, NewControl(c), ctl' = c, keeper' = "top",
               UNCHANGED <<process, failures, reconnectCounts>>, main'
        PROVE  IInv'
    <3>1. ShutdownOrder' /\ \A d \in Control : Live(d)' => d = c
      BY <1>1, <2>1, NewControlSteps DEF FirstLogin, KeeperInv
    <3>2. OneControl' BY <3>1 DEF OneControl
    <3>3. KeeperInv' BY <2>1, <3>1 DEF KeeperInv
    <3>4. CountInv' BY <1>1, <2>1 DEF CountInv, ExitCause, FirstLogin, KeeperInv
    <3>5. QED BY <3>1, <3>2, <3>3, <3>4
  <2>2. ASSUME process' = "exited", main', UNCHANGED <<ctlVars, ctl, keeper>>
        PROVE  IInv'
    <3>1. ShutdownOrder' /\ \A d \in Control : Live(d)' = Live(d)
      BY <2>2, OtherSteps DEF ctlVars
    <3>2. OneControl' BY <3>1 DEF OneControl
    <3>3. KeeperInv' BY <1>1, <2>2, <3>1 DEF KeeperInv, FirstLogin
    <3>4. CountInv' BY <1>1, <2>2 DEF CountInv, ExitCause, FirstLogin, KeeperInv
    <3>5. QED BY <3>1, <3>2, <3>3, <3>4
  <2>3. QED BY <1>1, <2>1, <2>2 DEF FirstLogin
<1>2. CASE KeeperTop \/ KeeperWait \/ KeeperDelay \/ KeeperLoginFails
  <2>1. UNCHANGED ctlVars
    BY <1>2 DEF KeeperTop, KeeperWait, KeeperDelay, KeeperLoginFails
  <2>2. ShutdownOrder' /\ \A d \in Control : Live(d)' = Live(d)
    BY <2>1, OtherSteps DEF ctlVars
  <2>3. OneControl' BY <2>2 DEF OneControl
  <2>4. CASE KeeperTop
    <3>1. KeeperInv' BY <2>2, <2>4, NoControlFacts DEF KeeperInv, KeeperTop
    <3>2. CountInv' BY <2>4 DEF CountInv, ExitCause, KeeperTop
    <3>3. QED BY <2>2, <2>3, <3>1, <3>2
  <2>5. CASE KeeperWait
    <3>0. worker[waiting] = "done" => ~Live(waiting)
      BY DEF Live
    <3>1. KeeperInv' BY <2>2, <2>5, <3>0 DEF KeeperInv, KeeperWait
    <3>2. CountInv' BY <2>5 DEF CountInv, ExitCause, KeeperWait, TypeOK
    <3>3. QED BY <2>2, <2>3, <3>1, <3>2
  <2>6. CASE KeeperDelay
    <3>1. KeeperInv' BY <2>2, <2>6 DEF KeeperInv, KeeperDelay
    <3>2. CountInv' BY <2>6 DEF CountInv, ExitCause, KeeperDelay
    <3>3. QED BY <2>2, <2>3, <3>1, <3>2
  <2>7. CASE KeeperLoginFails
    <3>1. KeeperInv' BY <2>2, <2>7 DEF KeeperInv, KeeperLoginFails
    <3>2. CountInv'
      BY <2>7, ServiceAssumption DEF CountInv, ExitCause, KeeperLoginFails, TypeOK
    <3>3. QED BY <2>2, <2>3, <3>1, <3>2
  <2>8. QED BY <1>2, <2>4, <2>5, <2>6, <2>7
<1>3. CASE KeeperLogin
  <2>1. PICK c \in Control : NewControl(c) /\ fresh' = c
    BY <1>3 DEF KeeperLogin
  <2>2. ShutdownOrder' /\ \A d \in Control : Live(d)' => d = c
    BY <1>3, <2>1, NewControlSteps DEF KeeperLogin, KeeperInv
  <2>3. OneControl' BY <2>2 DEF OneControl
  <2>4. KeeperInv' BY <1>3, <2>1, <2>2 DEF KeeperInv, KeeperLogin
  <2>5. CountInv' BY <1>3 DEF CountInv, ExitCause, KeeperLogin
  <2>6. QED BY <2>2, <2>3, <2>4, <2>5
<1>4. CASE KeeperStore
  <2>1. ShutdownOrder' /\ \A d \in Control : Live(d)' = Live(d)
    BY <1>4, OtherSteps DEF KeeperStore
  <2>2. OneControl' BY <2>1 DEF OneControl
  <2>3. KeeperInv' BY <1>4, <2>1 DEF KeeperInv, KeeperStore
  <2>4. CountInv' BY <1>4 DEF CountInv, ExitCause, KeeperStore
  <2>5. QED BY <2>1, <2>2, <2>3, <2>4
<1>5. QED BY <1>1, <1>2, <1>3, <1>4 DEF Keeper

\* ReloadConf and GracefulClose: svr.ctl may become nil, nothing else that the
\* invariant speaks of changes.
LEMMA CallIInv ==
  ASSUME TypeOK, IInv,
         (process = "running" /\ (Reload \/ Close)) \/ UNCHANGED vars
  PROVE  IInv'
<1>1. /\ UNCHANGED <<reader, handler, worker, main, keeper, waiting, fresh,
                     reconnectCounts, failures>>
      /\ ctl' \in {ctl, NoControl}
      /\ process' = process \/ (process = "running" /\ process' = "crashed")
  BY DEF Reload, ReloadStore, ReloadLookup, ReloadApply, Close, CloseBegin, CloseLock,
         CloseProxies, CloseConn, CloseCancel, ctlVars, vars, svcVars
<1>2. ShutdownOrder' /\ \A d \in Control : Live(d)' = Live(d)
  BY <1>1, OtherSteps DEF IInv
<1>3. OneControl' BY <1>2 DEF IInv, OneControl
<1>4. KeeperInv' BY <1>1, <1>2 DEF IInv, KeeperInv
<1>5. CountInv' BY <1>1 DEF IInv, CountInv, ExitCause
<1>6. QED BY <1>2, <1>3, <1>4, <1>5 DEF IInv

\* IInv holds in every reachable state.
LEMMA Inductive == Spec => []IInv
<1>1. Init => IInv
  BY DEF Init, ControlInit, IInv, ShutdownOrder, OneControl, KeeperInv, CountInv,
         ExitCause, ReadClosed, SendClosed, Live
<1>2. TypeOK /\ IInv /\ [Next]_vars => IInv'
  BY ControlIInv, KeeperIInv, CallIInv DEF Next
<1>3. QED BY <1>1, <1>2, TypeCorrect, PTL DEF Spec

\* Two controls of a service never run at once.
THEOREM OneControlAlways == Spec => []OneControl
BY Inductive, PTL DEF IInv

\* reader and msgHandler never send on a closed channel.
THEOREM NoSendOnClosedChannelAlways == Spec => []NoSendOnClosedChannel
<1>1. IInv => NoSendOnClosedChannel
  BY DEF IInv, ShutdownOrder, NoSendOnClosedChannel
<1>2. QED BY <1>1, Inductive, PTL

\* With the default login_fail_exit the process ends itself only after a failed
\* first login or MaxReconnects failed logins in a row.  (With login_fail_exit =
\* false it does not hold: the first failed login ends the process against its
\* configuration.)
THEOREM GivesUpLastAlways == LoginFailExit => (Spec => []GivesUpLast)
<1> SUFFICES ASSUME LoginFailExit
             PROVE  Spec => []GivesUpLast
  OBVIOUS
<1>1. IInv => GivesUpLast
  BY DEF IInv, CountInv, ExitCause, GivesUpLast
<1>2. QED BY <1>1, Inductive, PTL

-----------------------------------------------------------------------------
(* A lost connection is replaced *)

\* Which control keepControllerWorking follows, and that all goroutines of a
\* control are started together.
Started(c) == reader[c] # "none" /\ handler[c] # "none" /\ writer[c] # "none"

FollowInv ==
  /\ \A c \in Control : worker[c] # "none" => Started(c)
  /\ ctl # NoControl => worker[ctl] # "none" /\ keeper # "none"
  /\ keeper = "wait" /\ ~exit => waiting = ctl
  /\ keeper = "done" => exit
  /\ keeper = "store" => fresh # ctl /\ fresh \in Control /\ worker[fresh] # "none"
  /\ closer # "idle" => exit

\* The goroutines of a control never go back to "not started".
LEMMA ControlKeepsStarted ==
  ASSUME ControlTypeOK, NEW c \in Control, ControlNext(c)
  PROVE  \A d \in Control : /\ worker'[d] = "none" <=> worker[d] = "none"
                            /\ Started(d) => Started(d)'
<1> USE DEF ControlTypeOK, Started
<1>1. CASE Break(c) \/ ProxySend(c) \/ ReaderRead(c)
  BY <1>1 DEF Break, ProxySend, ReaderRead
<1>2. CASE Reader(c)
  BY <1>2 DEF Reader, ReaderFail, ReaderPut
<1>3. CASE HandlerTick(c) \/ HandlerTimeout(c)
  BY <1>3 DEF HandlerTick, HandlerTimeout
<1>4. CASE HandlerRecv(c) \/ HandlerSend(c)
  BY <1>4 DEF HandlerRecv, HandlerSend
<1>5. CASE Writer(c)
  BY <1>5 DEF Writer, WriterInit, WriterRecv, WriterWrite
<1>6. CASE Worker(c)
  BY <1>6 DEF Worker, WorkerClosed, WorkerHandlerDone, WorkerWriterDone
<1>. QED
  BY <1>1, <1>2, <1>3, <1>4, <1>5, <1>6 DEF ControlNext

\* The control object that is made is a new one.
LEMMA NewIsStarted ==
  ASSUME TypeOK, FollowInv, NEW c \in Control, NewControl(c)
  PROVE  /\ worker[c] = "none" /\ worker'[c] # "none"
         /\ \A d \in Control : worker[d] # "none" => worker'[d] # "none"
         /\ \A d \in Control : worker'[d] # "none" => Started(d)'
<1>1. worker[c] = "none"
  <2>1. ~(c < c)
    BY DEF Control
  <2>. QED
    BY <2>1 DEF NewControl, IsNext
<1>2. /\ reader' = [reader EXCEPT ![c] = "read"]
      /\ handler' = [handler EXCEPT ![c] = "select"]
      /\ writer' = [writer EXCEPT ![c] = "init"]
      /\ worker' = [worker EXCEPT ![c] = "wait"]
  BY DEF NewControl, Run
<1>3. \A d \in Control : d # c => /\ reader'[d] = reader[d] /\ handler'[d] = handler[d]
                                  /\ writer'[d] = writer[d] /\ worker'[d] = worker[d]
  BY <1>2 DEF TypeOK, ControlTypeOK
<1>4. reader'[c] = "read" /\ handler'[c] = "select" /\ writer'[c] = "init" /\ worker'[c] = "wait"
  BY <1>2 DEF TypeOK, ControlTypeOK
<1>5. Started(c)'
  BY <1>4 DEF Started
<1>6. \A d \in Control : d # c /\ Started(d) => Started(d)'
  BY <1>3 DEF Started
<1>. QED
  BY <1>1, <1>3, <1>4, <1>5, <1>6 DEF FollowInv

LEMMA FollowStep == TypeOK /\ FollowInv /\ [Next]_vars => FollowInv'
<1> SUFFICES ASSUME TypeOK, FollowInv, [Next]_vars
             PROVE  FollowInv'
  OBVIOUS
<1>1. ASSUME NEW c \in Control, ControlNext(c), UNCHANGED svcVars
      PROVE  FollowInv'
  <2>1. \A d \in Control : /\ worker'[d] = "none" <=> worker[d] = "none"
                           /\ Started(d) => Started(d)'
    BY <1>1, ControlKeepsStarted DEF TypeOK
  <2>2. ctl \in Control \cup {NoControl} /\ fresh \in Control \cup {NoControl}
    BY DEF TypeOK
  <2>. QED
    BY <1>1, <2>1, <2>2 DEF FollowInv, svcVars
<1>2. ASSUME UNCHANGED <<reader, handler, writer, worker>>
      PROVE  \A c \in Control : worker'[c] # "none" => Started(c)'
  BY <1>2 DEF FollowInv, Started
<1>3. CASE FirstLogin
  <2>1. ASSUME NEW c \in Control, NewControl(c), ctl' = c, keeper' = "top"
        PROVE  FollowInv'
    BY <1>3, <2>1, NewIsStarted DEF FirstLogin, FollowInv
  <2>2. CASE UNCHANGED <<ctlVars, ctl, keeper>>
    BY <1>2, <1>3, <2>2 DEF FirstLogin, FollowInv, ctlVars
  <2>. QED
    BY <1>3, <2>1, <2>2 DEF FirstLogin
<1>4. CASE KeeperTop \/ KeeperWait \/ KeeperDelay \/ KeeperLoginFails
  <2>1. UNCHANGED ctlVars
    BY <1>4 DEF KeeperTop, KeeperWait, KeeperDelay, KeeperLoginFails
  <2>. QED
    BY <1>2, <1>4, <2>1 DEF FollowInv, KeeperTop, KeeperWait, KeeperDelay, KeeperLoginFails, ctlVars
<1>5. CASE KeeperLogin
  <2>1. PICK c \in Control : NewControl(c) /\ fresh' = c
    BY <1>5 DEF KeeperLogin
  <2>2. ctl # c
    BY <2>1, NewIsStarted, NoControlFacts DEF FollowInv
  <2>3. ctl \in Control \cup {NoControl}
    BY DEF TypeOK
  <2>. QED
    BY <1>5, <2>1, <2>2, <2>3, NewIsStarted DEF FollowInv, KeeperLogin
<1>6. CASE KeeperStore
  BY <1>2, <1>6 DEF KeeperStore, FollowInv
<1>7. CASE Reload \/ Close \/ UNCHANGED vars
  <2>1. /\ UNCHANGED <<reader, handler, writer, worker, keeper, waiting, fresh>>
        /\ ctl' = ctl \/ (ctl' = NoControl /\ exit)
        /\ exit => exit'
        /\ closer' # "idle" => exit'
    BY <1>7 DEF Reload, ReloadStore, ReloadLookup, ReloadApply, Close, CloseBegin, CloseLock,
                CloseProxies, CloseConn, CloseCancel, ctlVars, vars, svcVars, FollowInv
  <2>2. ctl \in Control \cup {NoControl} /\ exit' \in BOOLEAN
    BY TypeOKStep DEF TypeOK
  <2>. QED
    BY <1>2, <2>1, <2>2, NoControlFacts DEF FollowInv
<1>. QED
  BY <1>1, <1>3, <1>4, <1>5, <1>6, <1>7 DEF Next, Keeper

LiveInv == TypeOK /\ IInv /\ FollowInv

LEMMA AlwaysLiveInv == Spec => []LiveInv
<1>1. Init => FollowInv
  BY DEF Init, ControlInit, FollowInv
<1>. QED
  BY <1>1, FollowStep, TypeCorrect, Inductive, PTL DEF Spec, LiveInv

\* The control c is lost and nothing excuses its service from replacing it.
Lost(c) == ctl = c /\ conn[c] = "closed" /\ ~exit /\ process = "running" /\ ~Wedged(c)

\* What is left to be done: the reader and what it has read, the stages of worker
\* and of msgHandler; once sendCh is closed what writer writes; the attempts
\* of keepControllerWorking and its stage.
ReaderLeft(c) == IF reader[c] = "put" THEN 3 ELSE IF reader[c] = "read" THEN 1 ELSE 0
HandlerLeft(c) == IF handler[c] = "done" THEN 0 ELSE 1
WorkerLeft(c) ==
  IF worker[c] = "wait" THEN 3 ELSE IF worker[c] = "handler" THEN 2
  ELSE IF worker[c] = "writer" THEN 1 ELSE 0
WriterLeft(c) ==
  IF ~SendClosed(c) THEN 2 * QueueCap + 3
  ELSE 2 * sendCh[c] + IF writer[c] \in {"init", "write"} THEN 2
                       ELSE IF writer[c] = "run" THEN 1 ELSE 0
ControlLeft(c) ==
  ReaderLeft(c) + Len(readCh[c]) + HandlerLeft(c) + WorkerLeft(c) + WriterLeft(c)
KeeperLeft ==
  IF keeper = "store" THEN 0
  ELSE 5 * (MaxReconnects - reconnectCounts)
       + IF keeper = "delay" THEN 4 ELSE IF keeper = "login" THEN 3
         ELSE IF keeper = "top" THEN 2 ELSE 1
Left(c) == ControlLeft(c) + KeeperLeft

\* A step that does none of it for c.
Same(c) ==
  /\ keeper' = keeper /\ reconnectCounts' = reconnectCounts
  /\ reader'[c] = reader[c] /\ readCh'[c] = readCh[c] /\ worker'[c] = worker[c]
  /\ handler'[c] = "done" <=> handler[c] = "done"
  /\ SendClosed(c) => sendCh'[c] = sendCh[c] /\ writer'[c] = writer[c]

LeftOK(c) ==
  /\ ReaderLeft(c) \in Nat /\ Len(readCh[c]) \in Nat /\ HandlerLeft(c) \in Nat
  /\ WorkerLeft(c) \in Nat /\ WriterLeft(c) \in Nat /\ KeeperLeft \in Nat

LEMMA LeftType == ASSUME NEW c \in Control PROVE TypeOK => LeftOK(c)
<1> SUFFICES ASSUME TypeOK
             PROVE  LeftOK(c)
  OBVIOUS
<1>1. /\ readCh[c] \in Seq(Msg) /\ sendCh[c] \in Nat /\ QueueCap \in Nat
      /\ MaxReconnects \in Nat /\ reconnectCounts \in 0..MaxReconnects
  BY ControlAssumption, ServiceAssumption DEF TypeOK, ControlTypeOK
<1>2. Len(readCh[c]) \in Nat
  BY <1>1
<1>3. WriterLeft(c) \in Nat
  BY <1>1 DEF WriterLeft
<1>4. KeeperLeft \in Nat
  BY <1>1 DEF KeeperLeft
<1>. QED
  BY <1>2, <1>3, <1>4 DEF LeftOK, ReaderLeft, HandlerLeft, WorkerLeft

LEMMA LeftTypeNext == ASSUME NEW c \in Control PROVE TypeOK' => LeftOK(c)'
<1>1. TypeOK => LeftOK(c)
  BY LeftType
<1>. QED
  BY <1>1, PTL

LEMMA LeftIsNat == ASSUME NEW c \in Control PROVE TypeOK => Left(c) \in Nat
BY LeftType, SMTT(60) DEF LeftOK, Left, ControlLeft

\* The sum falls when what the control has left falls or what keeper has.
LEMMA LeftFalls ==
  ASSUME TypeOK, TypeOK', NEW c \in Control
  PROVE  /\ ControlLeft(c)' < ControlLeft(c) /\ KeeperLeft' = KeeperLeft => Left(c)' < Left(c)
         /\ ControlLeft(c)' = ControlLeft(c) /\ KeeperLeft' < KeeperLeft => Left(c)' < Left(c)
<1> DEFINE x == ControlLeft(c)'
           k == KeeperLeft'
           l == Left(c)'
<1>1. ControlLeft(c) \in Nat /\ KeeperLeft \in Nat
  BY LeftType, SMTT(60) DEF LeftOK, ControlLeft
<1>2. x \in Nat /\ k \in Nat
  <2> DEFINE a == ReaderLeft(c)'
             b == Len(readCh'[c])
             d == HandlerLeft(c)'
             e == WorkerLeft(c)'
             f == WriterLeft(c)'
  <2>1. a \in Nat /\ b \in Nat /\ d \in Nat /\ e \in Nat /\ f \in Nat /\ k \in Nat
        /\ x = a + b + d + e + f
    BY LeftTypeNext DEF LeftOK, ControlLeft
  <2> HIDE DEF a, b, d, e, f, x, k
  <2>. QED
    BY <2>1
<1>3. l = x + k
  BY DEF Left
<1> HIDE DEF x, k, l
<1>4. /\ x < ControlLeft(c) /\ k = KeeperLeft => l < Left(c)
      /\ x = ControlLeft(c) /\ k < KeeperLeft => l < Left(c)
  BY <1>1, <1>2, <1>3 DEF Left
<1>. QED
  BY <1>4 DEF x, k, l

\* One part falls by more than another rises.
LEMMA PartFalls ==
  ASSUME TypeOK, TypeOK', NEW c \in Control
  PROVE  /\ /\ ReaderLeft(c)' < ReaderLeft(c)
            /\ UNCHANGED <<readCh[c], HandlerLeft(c), WorkerLeft(c), WriterLeft(c)>>
            => ControlLeft(c)' < ControlLeft(c)
         /\ /\ ReaderLeft(c) = 3 /\ ReaderLeft(c)' = 1
            /\ Len(readCh'[c]) = Len(readCh[c]) + 1
            /\ UNCHANGED <<HandlerLeft(c), WorkerLeft(c), WriterLeft(c)>>
            => ControlLeft(c)' < ControlLeft(c)
         /\ /\ Len(readCh'[c]) < Len(readCh[c]) \/ Len(readCh'[c]) = Len(readCh[c])
            /\ HandlerLeft(c)' < HandlerLeft(c) \/ HandlerLeft(c)' = HandlerLeft(c)
            /\ Len(readCh'[c]) # Len(readCh[c]) \/ HandlerLeft(c)' # HandlerLeft(c)
            /\ UNCHANGED <<ReaderLeft(c), WorkerLeft(c), WriterLeft(c)>>
            => ControlLeft(c)' < ControlLeft(c)
         /\ /\ Len(readCh'[c]) <= Len(readCh[c])
            /\ WorkerLeft(c)' < WorkerLeft(c) \/ WorkerLeft(c)' = WorkerLeft(c)
            /\ WriterLeft(c)' < WriterLeft(c) \/ WriterLeft(c)' = WriterLeft(c)
            /\ WorkerLeft(c)' # WorkerLeft(c) \/ WriterLeft(c)' # WriterLeft(c)
            /\ UNCHANGED <<ReaderLeft(c), HandlerLeft(c)>>
            => ControlLeft(c)' < ControlLeft(c)
<1> DEFINE x == ControlLeft(c)'
           a == ReaderLeft(c)'
           b == Len(readCh'[c])
           d == HandlerLeft(c)'
           e == WorkerLeft(c)'
           f == WriterLeft(c)'
           n == Len(readCh[c])
<1>1. a \in Nat /\ b \in Nat /\ d \in Nat /\ e \in Nat /\ f \in Nat /\ x = a + b + d + e + f
  BY LeftTypeNext DEF LeftOK, ControlLeft
<1>2. /\ ReaderLeft(c) \in Nat /\ n \in Nat /\ HandlerLeft(c) \in Nat
      /\ WorkerLeft(c) \in Nat /\ WriterLeft(c) \in Nat
      /\ ControlLeft(c) = ReaderLeft(c) + n + HandlerLeft(c) + WorkerLeft(c) + WriterLeft(c)
  BY LeftType DEF LeftOK, ControlLeft
<1>3. readCh'[c] = readCh[c] => b = n
  OBVIOUS
<1> HIDE DEF x, a, b, d, e, f, n
<1>4. a < ReaderLeft(c) /\ b = n /\ d = HandlerLeft(c) /\ e = WorkerLeft(c) /\ f = WriterLeft(c)
      => x < ControlLeft(c)
  BY <1>1, <1>2
<1>5. ReaderLeft(c) = 3 /\ a = 1 /\ b = n + 1 /\ d = HandlerLeft(c) /\ e = WorkerLeft(c)
      /\ f = WriterLeft(c)
      => x < ControlLeft(c)
  BY <1>1, <1>2
<1>6. b <= n /\ d <= HandlerLeft(c) /\ (b < n \/ d < HandlerLeft(c)) /\ a = ReaderLeft(c)
      /\ e = WorkerLeft(c) /\ f = WriterLeft(c)
      => x < ControlLeft(c)
  BY <1>1, <1>2
<1>7. b <= n /\ e <= WorkerLeft(c) /\ f <= WriterLeft(c) /\ (e < WorkerLeft(c) \/ f < WriterLeft(c))
      /\ a = ReaderLeft(c) /\ d = HandlerLeft(c)
      => x < ControlLeft(c)
  BY <1>1, <1>2
<1>8. b < n \/ b = n => b <= n
  BY <1>1, <1>2
<1>9. /\ d < HandlerLeft(c) \/ d = HandlerLeft(c) => d <= HandlerLeft(c)
      /\ e < WorkerLeft(c) \/ e = WorkerLeft(c) => e <= WorkerLeft(c)
      /\ f < WriterLeft(c) \/ f = WriterLeft(c) => f <= WriterLeft(c)
  BY <1>1, <1>2
<1>. QED
  BY <1>3, <1>4, <1>5, <1>6, <1>7, <1>8, <1>9 DEF x, a, b, d, e, f, n

\* A goroutine of a lost control brings its shutdown nearer, or does nothing
\* that counts.
LEMMA ReaderGetsOn ==
  ASSUME TypeOK, TypeOK', NEW c \in Control, Reader(c)
  PROVE  ControlLeft(c)' < ControlLeft(c)
<1> USE DEF TypeOK, ControlTypeOK
<1>1. UNCHANGED <<HandlerLeft(c), WorkerLeft(c), WriterLeft(c)>>
  BY DEF Reader, ReaderFail, ReaderPut, HandlerLeft, WorkerLeft, WriterLeft, SendClosed
<1>2. CASE ReaderFail(c)
  <2>1. ReaderLeft(c)' < ReaderLeft(c)
    BY <1>2 DEF ReaderFail, ReaderLeft
  <2>2. UNCHANGED readCh[c]
    BY <1>2 DEF ReaderFail
  <2>. QED
    BY <1>1, <2>1, <2>2, PartFalls
<1>3. CASE ReaderPut(c)
  <2>1. ReaderLeft(c) = 3 /\ ReaderLeft(c)' = 1
    BY <1>3 DEF ReaderPut, ReaderLeft
  <2>2. Len(readCh'[c]) = Len(readCh[c]) + 1
    <3>1. readCh'[c] = Append(readCh[c], hand[c])
      BY <1>3 DEF ReaderPut
    <3>. QED
      BY <3>1, QueueFacts
  <2>. QED
    BY <1>1, <2>1, <2>2, PartFalls
<1>. QED
  BY <1>2, <1>3 DEF Reader

LEMMA RecvGetsOn ==
  ASSUME TypeOK, TypeOK', NEW c \in Control, HandlerRecv(c)
  PROVE  ControlLeft(c)' < ControlLeft(c)
<1> USE DEF TypeOK, ControlTypeOK
<1>1. UNCHANGED <<ReaderLeft(c), WorkerLeft(c), WriterLeft(c)>>
  BY DEF HandlerRecv, ReaderLeft, WorkerLeft, WriterLeft, SendClosed
<1>2. HandlerLeft(c) = 1 /\ HandlerLeft(c)' \in {0, 1}
  BY DEF HandlerRecv, HandlerLeft
<1>3. CASE readCh[c] = <<>>
  <2>1. HandlerLeft(c)' = 0 /\ Len(readCh'[c]) = Len(readCh[c])
    BY <1>3 DEF HandlerRecv, HandlerLeft
  <2>2. HandlerLeft(c)' < HandlerLeft(c) /\ HandlerLeft(c)' # HandlerLeft(c)
    BY <1>2, <2>1
  <2>. QED
    BY <1>1, <2>1, <2>2, PartFalls
<1>4. CASE readCh[c] # <<>>
  <2> DEFINE n == Len(readCh'[c])
             l == Len(readCh[c])
  <2>1. readCh'[c] = Tail(readCh[c])
    BY <1>4 DEF HandlerRecv
  <2>2. n = l - 1 /\ l \in Nat
    BY <1>4, <2>1, QueueFacts
  <2> HIDE DEF n, l
  <2>3. n < l /\ n # l
    BY <2>2
  <2>4. HandlerLeft(c)' < HandlerLeft(c) \/ HandlerLeft(c)' = HandlerLeft(c)
    <3> DEFINE d == HandlerLeft(c)'
    <3>1. HandlerLeft(c) = 1 /\ d \in {0, 1}
      BY <1>2
    <3> HIDE DEF d
    <3>2. d < HandlerLeft(c) \/ d = HandlerLeft(c)
      BY <3>1
    <3>. QED
      BY <3>2 DEF d
  <2>. QED
    BY <1>1, <2>3, <2>4, PartFalls DEF n, l
<1>. QED
  BY <1>3, <1>4

\* Once sendCh is closed, writer ends.
LEMMA WriterGetsOn ==
  ASSUME TypeOK, TypeOK', NEW c \in Control, Writer(c), SendClosed(c)
  PROVE  ControlLeft(c)' < ControlLeft(c)
<1> USE DEF TypeOK, ControlTypeOK
<1>1. UNCHANGED <<ReaderLeft(c), HandlerLeft(c), WorkerLeft(c), readCh[c]>>
  BY DEF Writer, WriterInit, WriterRecv, WriterWrite, ReaderLeft, WorkerLeft, HandlerLeft
<1>2. SendClosed(c)' /\ writer[c] # "done" /\ sendCh[c] \in Nat /\ sendCh'[c] \in Nat
  BY ControlAssumption DEF Writer, WriterInit, WriterRecv, WriterWrite, SendClosed
<1> DEFINE n == sendCh[c]
           t == sendCh'[c]
           f == WriterLeft(c)'
           p == IF writer[c] \in {"init", "write"} THEN 2 ELSE IF writer[c] = "run" THEN 1 ELSE 0
           q == IF writer'[c] \in {"init", "write"} THEN 2 ELSE IF writer'[c] = "run" THEN 1 ELSE 0
<1>3. f = 2 * t + q /\ WriterLeft(c) = 2 * n + p
  BY <1>2 DEF WriterLeft
<1>4. /\ n \in Nat /\ t \in Nat /\ p \in Nat /\ q \in Nat
      /\ (t = n /\ p = 2 /\ q \in {0, 1}) \/ (t = n - 1 /\ p = 1 /\ q \in {0, 2})
         \/ (t = n /\ p = 1 /\ q = 0)
  BY <1>2 DEF Writer, WriterInit, WriterRecv, WriterWrite
<1> HIDE DEF n, t, f, p, q
<1>5. f < WriterLeft(c) /\ f # WriterLeft(c)
  BY <1>3, <1>4
<1>6. Len(readCh'[c]) <= Len(readCh[c])
  BY <1>1, QueueFacts
<1>. QED
  BY <1>1, <1>5, <1>6, PartFalls DEF f

LEMMA WorkerGetsOn ==
  ASSUME TypeOK, TypeOK', NEW c \in Control, Worker(c)
  PROVE  ControlLeft(c)' < ControlLeft(c)
<1>0. /\ worker \in [Control -> {"none", "wait", "handler", "writer", "done"}]
      /\ readCh \in [Control -> Seq(Msg)]
      /\ sendCh \in [Control -> 0..QueueCap] /\ sendCh' \in [Control -> 0..QueueCap]
  BY DEF TypeOK, ControlTypeOK
<1>1. UNCHANGED <<ReaderLeft(c), HandlerLeft(c)>>
  BY DEF Worker, WorkerClosed, WorkerHandlerDone, WorkerWriterDone, ReaderLeft, HandlerLeft
<1>2. Len(readCh'[c]) <= Len(readCh[c])
  <2>1. readCh'[c] = readCh[c] \/ readCh'[c] = <<>>
    BY <1>0 DEF Worker, WorkerClosed, WorkerHandlerDone, WorkerWriterDone
  <2>2. Len(<<>>) = 0 /\ Len(readCh[c]) \in Nat
    BY <1>0, QueueFacts
  <2>. QED
    BY <2>1, <2>2
<1>3. WorkerLeft(c)' < WorkerLeft(c) /\ WorkerLeft(c)' # WorkerLeft(c)
  <2> DEFINE e == WorkerLeft(c)'
             l == WorkerLeft(c)
  <2>1. (l = 3 /\ e = 2) \/ (l = 2 /\ e = 1) \/ (l = 1 /\ e = 0)
    <3>1. CASE WorkerClosed(c)
      BY <1>0, <3>1 DEF WorkerClosed, WorkerLeft
    <3>2. CASE WorkerHandlerDone(c)
      BY <1>0, <3>2 DEF WorkerHandlerDone, WorkerLeft
    <3>3. CASE WorkerWriterDone(c)
      BY <1>0, <3>3 DEF WorkerWriterDone, WorkerLeft
    <3>. QED
      BY <3>1, <3>2, <3>3 DEF Worker
  <2> HIDE DEF e, l
  <2>2. e < l /\ e # l
    BY <2>1
  <2>. QED
    BY <2>2 DEF e, l
<1>4. WriterLeft(c)' < WriterLeft(c) \/ WriterLeft(c)' = WriterLeft(c)
  <2> DEFINE n == sendCh[c]
             t == sendCh'[c]
             f == WriterLeft(c)'
             q == IF writer'[c] \in {"init", "write"} THEN 2
                  ELSE IF writer'[c] = "run" THEN 1 ELSE 0
  <2>1. n \in Nat /\ t \in Nat /\ n <= QueueCap /\ t <= QueueCap /\ QueueCap \in Nat
    BY <1>0, ControlAssumption
  <2>2. q \in Nat /\ q <= 2
    OBVIOUS
  <2>3. CASE WorkerClosed(c)
    BY <1>0, <2>3 DEF WorkerClosed, WriterLeft, SendClosed
  <2>4. CASE WorkerHandlerDone(c)
    <3>1. WriterLeft(c) = 2 * QueueCap + 3 /\ f = 2 * t + q
      BY <1>0, <2>4 DEF WorkerHandlerDone, WriterLeft, SendClosed
    <3> HIDE DEF n, t, f, q
    <3>2. f < WriterLeft(c)
      BY <2>1, <2>2, <3>1
    <3>. QED
      BY <3>2 DEF f
  <2>5. CASE WorkerWriterDone(c)
    <3>1. WriterLeft(c) = 2 * n /\ f = 0
      BY <1>0, <2>5 DEF WorkerWriterDone, WriterLeft, SendClosed
    <3> HIDE DEF n, t, f, q
    <3>2. f < WriterLeft(c) \/ f = WriterLeft(c)
      BY <2>1, <3>1
    <3>. QED
      BY <3>2 DEF f
  <2>. QED
    BY <2>3, <2>4, <2>5 DEF Worker
<1>. QED
  BY <1>1, <1>2, <1>3, <1>4, PartFalls

\* msgHandler returns without having taken a message.
LEMMA HandlerEnds ==
  ASSUME TypeOK, TypeOK', NEW c \in Control, handler[c] # "done", handler'[c] = "done",
         UNCHANGED <<reader, readCh, sendCh, writer, worker>>
  PROVE  ControlLeft(c)' < ControlLeft(c)
<1>1. UNCHANGED <<ReaderLeft(c), WorkerLeft(c), WriterLeft(c)>>
  BY DEF ReaderLeft, WorkerLeft, WriterLeft, SendClosed
<1>2. HandlerLeft(c)' < HandlerLeft(c) /\ HandlerLeft(c)' # HandlerLeft(c)
  BY DEF HandlerLeft
<1>. QED
  BY <1>1, <1>2, PartFalls

\* Every step of a control whose connection is closed.
LEMMA ControlGetsOn ==
  ASSUME TypeOK, TypeOK', ShutdownOrder, NEW c \in Control, conn[c] = "closed",
         ControlNext(c), UNCHANGED svcVars
  PROVE  ControlLeft(c)' < ControlLeft(c) \/ Same(c)
<1>1. UNCHANGED <<keeper, reconnectCounts>>
  BY DEF svcVars
<1>2. CASE Break(c) \/ ReaderRead(c)
  BY <1>2 DEF Break, ReaderRead
<1>3. CASE ProxySend(c)
  BY <1>1, <1>3 DEF ProxySend, ProtectedSend, Same
<1>4. CASE HandlerTick(c) \/ HandlerTimeout(c)
  <2>1. handler[c] # "done" /\ UNCHANGED <<reader, readCh, sendCh, writer, worker>>
    BY <1>4 DEF HandlerTick, HandlerTimeout
  <2>2. CASE handler'[c] = "done"
    BY <2>1, <2>2, HandlerEnds
  <2>3. CASE handler'[c] # "done"
    BY <1>1, <2>1, <2>3 DEF Same
  <2>. QED
    BY <2>2, <2>3
<1>5. CASE HandlerSend(c)
  <2>1. ~SendClosed(c) /\ handler[c] # "done" /\ handler'[c] # "done"
    BY <1>5 DEF HandlerSend, ShutdownOrder, TypeOK, ControlTypeOK
  <2>. QED
    BY <1>1, <1>5, <2>1 DEF HandlerSend, Same
<1>6. CASE Writer(c)
  <2>1. CASE SendClosed(c)
    BY <1>6, <2>1, WriterGetsOn
  <2>2. CASE ~SendClosed(c)
    BY <1>1, <1>6, <2>2 DEF Writer, WriterInit, WriterRecv, WriterWrite, Same
  <2>. QED
    BY <2>1, <2>2
<1>. QED
  BY <1>2, <1>3, <1>4, <1>5, <1>6, ReaderGetsOn, RecvGetsOn, WorkerGetsOn DEF ControlNext

\* keepControllerWorking comes nearer to the store of a new control.
LEMMA KeeperGetsOn ==
  ASSUME LiveInv, LiveInv', NEW c \in Control, Lost(c), Keeper
  PROVE  ~Lost(c)' \/ Left(c)' < Left(c)
<1>0. TypeOK /\ TypeOK' /\ ctl = c /\ ctl # NoControl /\ ~exit
  BY NoControlFacts DEF LiveInv, Lost
<1> DEFINE r == MaxReconnects - reconnectCounts
           k == KeeperLeft'
           l == KeeperLeft
           t == MaxReconnects - reconnectCounts'
<1>1. r \in Nat /\ t \in Nat
  <2> DEFINE n == reconnectCounts'
  <2>1. /\ MaxReconnects \in Nat /\ reconnectCounts \in 0..MaxReconnects
        /\ n \in 0..MaxReconnects /\ t = MaxReconnects - n
    BY <1>0, ServiceAssumption DEF TypeOK
  <2> HIDE DEF n, t
  <2>. QED
    BY <2>1
<1>2. ASSUME k < l, UNCHANGED ControlLeft(c)
      PROVE  Left(c)' < Left(c)
  <2> HIDE DEF r, t
  <2>. QED
    BY <1>0, <1>2, LeftFalls DEF k, l
<1>3. UNCHANGED <<reader[c], readCh[c], handler[c], sendCh[c], writer[c], worker[c]>>
      => UNCHANGED ControlLeft(c)
  BY DEF ControlLeft, ReaderLeft, HandlerLeft, WorkerLeft, WriterLeft, SendClosed
<1>4. CASE KeeperTop \/ KeeperDelay \/ KeeperLoginFails
  <2>1. UNCHANGED ControlLeft(c)
    BY <1>3, <1>4 DEF KeeperTop, KeeperDelay, KeeperLoginFails, ctlVars
  <2>2. t = r
    <3>1. reconnectCounts' = reconnectCounts
      BY <1>4 DEF KeeperTop, KeeperDelay, KeeperLoginFails
    <3>. QED
      BY <3>1
  <2>3. \/ l = 5 * r + 2 /\ k = 5 * t + 1
        \/ l = 5 * r + 4 /\ k = 5 * t + 3
        \/ l = 5 * r + 3 /\ k = 5 * t + 2
    BY <1>0, <1>4 DEF KeeperTop, KeeperDelay, KeeperLoginFails, KeeperLeft
  <2> HIDE DEF r, k, l, t
  <2>4. k < l
    BY <1>1, <2>2, <2>3
  <2>. QED
    BY <1>2, <2>1, <2>4
<1>5. CASE KeeperWait
  <2>1. UNCHANGED ControlLeft(c)
    BY <1>3, <1>5 DEF KeeperWait, ctlVars
  <2>2. CASE process' = "exited"
    BY <2>2 DEF Lost
  <2>3. CASE process' # "exited"
    <3>1. reconnectCounts' = reconnectCounts + 1 /\ keeper = "wait" /\ keeper' = "delay"
      BY <1>0, <1>5, <2>3 DEF KeeperWait
    <3>2. l = 5 * r + 1 /\ k = 5 * t + 4
      BY <3>1 DEF KeeperLeft
    <3>3. r = t + 1
      <4> DEFINE n == reconnectCounts'
      <4>1. n = reconnectCounts + 1
        BY <3>1
      <4>2. MaxReconnects \in Nat /\ reconnectCounts \in Nat
        BY <1>0, ServiceAssumption DEF TypeOK
      <4>3. r = MaxReconnects - reconnectCounts /\ t = MaxReconnects - n
        OBVIOUS
      <4> HIDE DEF n, r, t
      <4>. QED
        BY <4>1, <4>2, <4>3
    <3> HIDE DEF r, k, l, t
    <3>4. k < l
      BY <1>1, <3>2, <3>3
    <3>. QED
      BY <1>2, <2>1, <3>4
  <2>. QED
    BY <2>2, <2>3
<1>6. CASE KeeperLogin
  <2>1. PICK d \in Control : NewControl(d)
    BY <1>6 DEF KeeperLogin
  <2>2. d # c
    BY <1>0, <2>1, NewIsStarted DEF LiveInv, FollowInv
  <2>3. UNCHANGED ControlLeft(c)
    <3>1. UNCHANGED <<reader[c], readCh[c], handler[c], sendCh[c], writer[c], worker[c]>>
      BY <1>0, <2>1, <2>2 DEF NewControl, Run, TypeOK, ControlTypeOK
    <3>. QED
      BY <1>3, <3>1
  <2>4. l = 5 * r + 3 /\ k = 0
    BY <1>6 DEF KeeperLogin, KeeperLeft
  <2> HIDE DEF r, k, l, t
  <2>5. k < l
    BY <1>1, <2>4
  <2>. QED
    BY <1>2, <2>3, <2>5
<1>7. CASE KeeperStore
  <2>1. ctl' # c
    BY <1>0, <1>7 DEF KeeperStore, LiveInv, FollowInv
  <2>. QED
    BY <2>1 DEF Lost
<1>. QED
  BY <1>4, <1>5, <1>6, <1>7 DEF Keeper

\* Every step replaces the lost control, or ends the service, leaves less to do
\* first or is of no account.
LEMMA LostStep ==
  ASSUME LiveInv, LiveInv', [Next]_vars, NEW c \in Control, Lost(c)
  PROVE  ~Lost(c)' \/ Left(c)' < Left(c) \/ Same(c)
<1>0. TypeOK /\ TypeOK' /\ ShutdownOrder /\ ctl = c /\ ctl # NoControl /\ ~exit
      /\ conn[c] = "closed"
  BY NoControlFacts DEF LiveInv, IInv, Lost
<1>1. ASSUME NEW d \in Control, ControlNext(d), UNCHANGED svcVars
      PROVE  Left(c)' < Left(c) \/ Same(c)
  <2>1. CASE d = c
    <3>1. UNCHANGED KeeperLeft
      BY <1>1 DEF KeeperLeft, svcVars
    <3>. QED
      BY <1>0, <1>1, <2>1, <3>1, ControlGetsOn, LeftFalls
  <2>2. CASE d # c
    <3>0. /\ reader \in [Control -> {"none", "read", "put", "done"}]
          /\ readCh \in [Control -> Seq(Msg)] /\ sendCh \in [Control -> 0..QueueCap]
          /\ handler \in [Control -> {"none", "select", "send", "done"}]
          /\ writer \in [Control -> {"none", "init", "run", "write", "done"}]
          /\ worker \in [Control -> {"none", "wait", "handler", "writer", "done"}]
      BY <1>0 DEF TypeOK, ControlTypeOK
    <3>1. UNCHANGED <<reader[c], readCh[c], handler[c], sendCh[c], writer[c], worker[c]>>
      <4>1. CASE Break(d) \/ ProxySend(d)
        BY <2>2, <3>0, <4>1 DEF Break, ProxySend, ProtectedSend
      <4>2. CASE ReaderRead(d) \/ Reader(d)
        BY <2>2, <3>0, <4>2 DEF ReaderRead, Reader, ReaderFail, ReaderPut
      <4>3. CASE HandlerTick(d) \/ HandlerTimeout(d) \/ HandlerRecv(d) \/ HandlerSend(d)
        BY <2>2, <3>0, <4>3 DEF HandlerTick, HandlerTimeout, HandlerRecv, HandlerSend
      <4>4. CASE Writer(d)
        BY <2>2, <3>0, <4>4 DEF Writer, WriterInit, WriterRecv, WriterWrite
      <4>5. CASE Worker(d)
        BY <2>2, <3>0, <4>5 DEF Worker, WorkerClosed, WorkerHandlerDone, WorkerWriterDone
      <4>. QED
        BY <1>1, <4>1, <4>2, <4>3, <4>4, <4>5 DEF ControlNext
    <3>. QED
      BY <1>1, <3>1 DEF Same, svcVars
  <2>. QED
    BY <2>1, <2>2
<1>2. CASE FirstLogin
  BY <1>0, <1>2 DEF FirstLogin, LiveInv, IInv, KeeperInv, FollowInv
<1>3. CASE Reload
  BY <1>0, <1>3
  DEF Reload, ReloadStore, ReloadLookup, ReloadApply, ProtectedSend, ctlVars, Same
<1>4. CASE Close
  <2>1. CASE CloseBegin
    BY <2>1 DEF CloseBegin, Lost
  <2>2. closer = "idle"
    BY <1>0 DEF LiveInv, FollowInv
  <2>. QED
    BY <1>4, <2>1, <2>2 DEF Close, CloseLock, CloseProxies, CloseConn, CloseCancel
<1>5. CASE UNCHANGED vars
  BY <1>5 DEF vars, ctlVars, svcVars, Same
<1>. QED
  BY <1>1, <1>2, <1>3, <1>4, <1>5, KeeperGetsOn DEF Next

\* Who can bring it nearer: reader, msgHandler, writer, worker, and in the end
\* keepControllerWorking.
ReaderTurn(c) == reader[c] = "read" \/ (reader[c] = "put" /\ Len(readCh[c]) < QueueCap)
HandlerTurn(c) == handler[c] # "done" /\ (readCh[c] # <<>> \/ worker[c] = "handler")
WriterTurn(c) == worker[c] = "writer" /\ writer[c] # "done"
KeeperTurn(c) == worker[c] = "done"

LEMMA SomeTurn ==
  ASSUME LiveInv, NEW c \in Control, Lost(c)
  PROVE  /\ ReaderTurn(c) \/ HandlerTurn(c) \/ WriterTurn(c) \/ WorkerReady(c) \/ KeeperTurn(c)
         /\ ReaderTurn(c) => ReaderReady(c)
         /\ WriterTurn(c) => WriterReady(c)
         /\ KeeperTurn(c) => KeeperReady
<1>0. /\ reader[c] \in {"none", "read", "put", "done"}
      /\ readCh[c] \in Seq(Msg) /\ Len(readCh[c]) <= QueueCap
      /\ handler[c] \in {"none", "select", "send", "done"}
      /\ writer[c] \in {"none", "init", "run", "write", "done"}
      /\ worker[c] \in {"none", "wait", "handler", "writer", "done"}
      /\ keeper \in {"none", "top", "wait", "delay", "login", "store", "done"}
      /\ QueueCap \in Nat \ {0}
  BY ControlAssumption DEF LiveInv, TypeOK, ControlTypeOK
<1>1. /\ ctl = c /\ ctl # NoControl /\ worker[c] # "none" /\ keeper \notin {"none", "done"}
      /\ reader[c] # "none" /\ handler[c] # "none" /\ writer[c] # "none"
      /\ conn[c] = "closed" /\ closer = "idle"
      /\ keeper = "wait" => waiting = c
  BY NoControlFacts DEF Lost, LiveInv, FollowInv, Started
<1>2. Len(readCh[c]) = QueueCap => readCh[c] # <<>>
  <2>1. Len(<<>>) = 0
    OBVIOUS
  <2>. QED
    BY <1>0, <2>1
<1>3. ReaderTurn(c) \/ reader[c] = "done" \/ HandlerTurn(c)
  <2>1. CASE reader[c] = "put" /\ ~(Len(readCh[c]) < QueueCap)
    <3>1. Len(readCh[c]) = QueueCap
      BY <1>0, <2>1, QueueFacts
    <3>2. handler[c] # "done"
      BY <2>1, <3>1 DEF Lost, Wedged
    <3>. QED
      BY <1>2, <3>1, <3>2 DEF HandlerTurn
  <2>. QED
    BY <1>0, <1>1, <2>1 DEF ReaderTurn
<1>4. reader[c] = "done"
      => HandlerTurn(c) \/ WriterTurn(c) \/ WorkerReady(c) \/ KeeperTurn(c)
  BY <1>0, <1>1 DEF HandlerTurn, WriterTurn, WorkerReady, KeeperTurn
<1>5. WriterTurn(c) => WriterReady(c)
  BY <1>0, <1>1 DEF WriterTurn, WriterReady, SendClosed
<1>6. KeeperTurn(c) => KeeperReady
  BY <1>0, <1>1 DEF KeeperTurn, KeeperReady
<1>. QED
  BY <1>1, <1>3, <1>4, <1>5, <1>6 DEF ReaderTurn, ReaderReady

\* A step that is of no account leaves the turn where it is.
LEMMA TurnStays ==
  ASSUME NEW c \in Control, Same(c)
  PROVE  /\ ReaderTurn(c) => ReaderTurn(c)'
         /\ HandlerTurn(c) => HandlerTurn(c)'
         /\ WriterTurn(c) => WriterTurn(c)'
         /\ KeeperTurn(c) => KeeperTurn(c)'
         /\ WorkerReady(c) => WorkerReady(c)'
BY DEF Same, ReaderTurn, HandlerTurn, WriterTurn, KeeperTurn, WorkerReady, SendClosed

\* Only writer itself moves on.
LEMMA OnlyWriterWrites ==
  ASSUME LiveInv, [Next]_vars, NEW c \in Control, Lost(c)
  PROVE  writer'[c] = writer[c] \/ Writer(c)
<1>0. /\ writer \in [Control -> {"none", "init", "run", "write", "done"}]
      /\ worker[c] # "none" /\ TypeOK /\ FollowInv
  BY NoControlFacts DEF LiveInv, TypeOK, ControlTypeOK, FollowInv, Lost
<1>1. ASSUME NEW d \in Control, ControlNext(d)
      PROVE  writer'[c] = writer[c] \/ Writer(c)
  <2>1. CASE Writer(d)
    BY <1>0, <2>1 DEF Writer, WriterInit, WriterRecv, WriterWrite
  <2>2. CASE ~Writer(d)
    <3>1. UNCHANGED writer
      BY <1>1, <2>2
      DEF ControlNext, Break, ProxySend, ReaderRead, Reader, ReaderFail, ReaderPut,
          HandlerTick, HandlerTimeout, HandlerRecv, HandlerSend, Worker, WorkerClosed,
          WorkerHandlerDone, WorkerWriterDone
    <3>. QED
      BY <3>1
  <2>. QED
    BY <2>1, <2>2
<1>2. ASSUME NEW d \in Control, NewControl(d)
      PROVE  writer'[c] = writer[c]
  <2>1. d # c
    BY <1>0, <1>2, NewIsStarted
  <2>. QED
    BY <1>0, <1>2, <2>1 DEF NewControl, Run
<1>3. CASE FirstLogin
  BY <1>2, <1>3 DEF FirstLogin, ctlVars
<1>4. CASE Keeper
  BY <1>2, <1>4
  DEF Keeper, KeeperTop, KeeperWait, KeeperDelay, KeeperLoginFails, KeeperLogin,
      KeeperStore, ctlVars
<1>5. CASE Reload \/ Close \/ UNCHANGED vars
  BY <1>5
  DEF Reload, ReloadStore, ReloadLookup, ReloadApply, Close, CloseBegin, CloseLock,
      CloseProxies, CloseConn, CloseCancel, ctlVars, vars
<1>. QED
  BY <1>1, <1>3, <1>4, <1>5 DEF Next

\* A msgHandler that waits for room waits for writer, which has not returned, or
\* nothing would unblock it.
WaitsForRoom(c) == handler[c] = "send" /\ ~(sendCh[c] < QueueCap)

LEMMA WriterMakesRoom ==
  ASSUME LiveInv, NEW c \in Control, Lost(c), WaitsForRoom(c)
  PROVE  /\ writer[c] \in {"init", "run", "write"} /\ WriterReady(c)
         /\ Writer(c) => writer'[c] = "run" \/ sendCh'[c] < QueueCap \/ ~Lost(c)'
         /\ Writer(c) /\ writer[c] = "run" => sendCh'[c] < QueueCap
<1>0. /\ sendCh \in [Control -> 0..QueueCap] /\ QueueCap \in Nat \ {0}
      /\ sendCh[c] \in 0..QueueCap
      /\ writer \in [Control -> {"none", "init", "run", "write", "done"}]
      /\ writer[c] # "none" /\ handler[c] = "send"
  BY ControlAssumption, NoControlFacts
  DEF LiveInv, TypeOK, ControlTypeOK, FollowInv, Started, Lost, WaitsForRoom
<1>1. sendCh[c] = QueueCap /\ sendCh[c] > 0
  BY <1>0 DEF WaitsForRoom
<1>2. writer[c] # "done"
  BY <1>0, <1>1 DEF Lost, Wedged
<1>3. writer[c] \in {"init", "run", "write"} /\ WriterReady(c)
  BY <1>0, <1>1, <1>2 DEF WriterReady
<1>4. ASSUME WriterRecv(c)
      PROVE  sendCh'[c] < QueueCap
  <2> DEFINE t == sendCh'[c]
  <2>1. t = sendCh[c] - 1
    BY <1>0, <1>1, <1>4 DEF WriterRecv
  <2> HIDE DEF t
  <2>2. t < QueueCap
    BY <1>0, <1>1, <2>1
  <2>. QED
    BY <2>2 DEF t
<1>5. ASSUME WriterInit(c) \/ WriterWrite(c)
      PROVE  writer[c] # "run" /\ (writer'[c] = "run" \/ ~Lost(c)')
  <2>1. handler'[c] = "send" /\ sendCh'[c] = QueueCap /\ writer'[c] \in {"run", "done"}
    BY <1>0, <1>1, <1>5 DEF WriterInit, WriterWrite
  <2>. QED
    BY <1>5, <2>1 DEF WriterInit, WriterWrite, Lost, Wedged
<1>. QED
  BY <1>3, <1>4, <1>5 DEF Writer

-----------------------------------------------------------------------------
\* What is due is done or comes nearer; at some time it is done or k is left; at
\* some time less than k is left.
Drops(c, k) == (Lost(c) /\ Left(c) = k) => <>(~Lost(c) \/ Left(c) < k)
Reaches(c, k) == <>(~Lost(c) \/ Left(c) = k)
Sinks(c, k) == <>(Left(c) \in Nat /\ Left(c) < k)
AllDrop(c) == \A k \in Nat : Drops(c, k)

\* Among the numbers that Left(c) still comes to there is a least one.
\* This holds of every behaviour, since natural numbers are well founded; but
\* Reaches is a temporal formula, so no set or function of TLA+, and no theorem of
\* the library, ranges over the numbers of which it holds.
LeastReached(c) ==
  (\E k \in Nat : Reaches(c, k))
    => \E k \in Nat : Reaches(c, k) /\ \A m \in Nat : m < k => ~Reaches(c, m)

LeastNumbers == \A c \in Control : []LeastReached(c)

LEMMA LostDrops ==
  ASSUME NEW c \in Control, NEW k \in Nat
  PROVE  FairSpec /\ []GuardsEnable => []Drops(c, k)
<1> DEFINE Now == Lost(c) /\ Left(c) = k
           Then == ~Lost(c) \/ Left(c) < k
           Selects == handler[c] = "select"
           Busy == writer[c] \in {"init", "write"}
           Idle == writer[c] = "run"
<1>1. LiveInv /\ LiveInv' /\ Now /\ [Next]_vars => Then' \/ (Now' /\ Same(c))
  <2> SUFFICES ASSUME LiveInv, LiveInv', Now, [Next]_vars, Lost(c)'
               PROVE  Left(c)' < k \/ (Left(c)' = k /\ Same(c))
    OBVIOUS
  <2>1. Left(c)' < Left(c) \/ Same(c)
    BY LostStep
  <2>2. Same(c) => Left(c)' = Left(c)
    <3>1. Same(c) => UNCHANGED <<KeeperLeft, ReaderLeft(c), WorkerLeft(c), readCh[c]>>
      BY DEF Same, KeeperLeft, ReaderLeft, WorkerLeft
    <3>2. Same(c) => UNCHANGED HandlerLeft(c)
      BY DEF Same, HandlerLeft
    <3>3. Same(c) => UNCHANGED WriterLeft(c)
      BY DEF Same, WriterLeft, SendClosed
    <3>. QED
      BY <3>1, <3>2, <3>3 DEF Left, ControlLeft
  <2>. QED
    BY <2>1, <2>2
<1>2. /\ Same(c) /\ ReaderTurn(c) => ReaderTurn(c)'
      /\ Same(c) /\ HandlerTurn(c) => HandlerTurn(c)'
      /\ Same(c) /\ WriterTurn(c) => WriterTurn(c)'
      /\ Same(c) /\ WorkerReady(c) => WorkerReady(c)'
      /\ Same(c) /\ KeeperTurn(c) => KeeperTurn(c)'
  BY TurnStays
<1>3. LiveInv /\ LiveInv' /\ Now
      => /\ Runs(Reader(c)) => Then'
         /\ Runs(HandlerRecv(c)) => Then'
         /\ Runs(Worker(c)) => Then'
         /\ Runs(Writer(c)) /\ WriterTurn(c) => Then'
         /\ Running(Keeper) => Then'
  <2> SUFFICES ASSUME LiveInv, LiveInv', Now
               PROVE  /\ Runs(Reader(c)) => Then'
                      /\ Runs(HandlerRecv(c)) => Then'
                      /\ Runs(Worker(c)) => Then'
                      /\ Runs(Writer(c)) /\ WriterTurn(c) => Then'
                      /\ Running(Keeper) => Then'
    OBVIOUS
  <2>1. ASSUME UNCHANGED svcVars, Reader(c) \/ HandlerRecv(c) \/ Worker(c)
                                  \/ (Writer(c) /\ WriterTurn(c))
        PROVE  Left(c)' < Left(c)
    <3>1. TypeOK /\ TypeOK'
      BY DEF LiveInv
    <3>2. WriterTurn(c) => SendClosed(c)
      BY DEF WriterTurn, SendClosed
    <3>3. ControlLeft(c)' < ControlLeft(c)
      BY <2>1, <3>1, <3>2, ReaderGetsOn, RecvGetsOn, WorkerGetsOn, WriterGetsOn
    <3>4. UNCHANGED KeeperLeft
      BY <2>1 DEF svcVars, KeeperLeft
    <3>. QED
      BY <3>1, <3>3, <3>4, LeftFalls
  <2>2. Keeper => ~Lost(c)' \/ Left(c)' < Left(c)
    BY KeeperGetsOn
  <2>. QED
    BY <2>1, <2>2 DEF Runs, Running
<1>4. LiveInv /\ Now => /\ \/ ReaderTurn(c) \/ HandlerTurn(c) \/ WriterTurn(c)
                           \/ WorkerReady(c) \/ KeeperTurn(c)
                        /\ ReaderTurn(c) => ReaderReady(c)
                        /\ WriterTurn(c) => WriterReady(c)
                        /\ KeeperTurn(c) => KeeperReady
  BY SomeTurn
<1>5. Now /\ GuardsEnable =>
        /\ KeeperReady => ENABLED <<Running(Keeper)>>_vars
        /\ ReaderReady(c) => ENABLED <<Runs(Reader(c))>>_vars
        /\ RecvReady(c) => ENABLED <<Runs(HandlerRecv(c))>>_vars
        /\ SendReady(c) => ENABLED <<Runs(HandlerSend(c))>>_vars
        /\ WriterReady(c) => ENABLED <<Runs(Writer(c))>>_vars
        /\ WorkerReady(c) => ENABLED <<Runs(Worker(c))>>_vars
  BY DEF GuardsEnable, Lost
<1>6. /\ HandlerTurn(c) /\ Selects => RecvReady(c)
      /\ LiveInv /\ Now /\ HandlerTurn(c) /\ ~Selects => WaitsForRoom(c) \/ SendReady(c)
      /\ LiveInv /\ Runs(HandlerSend(c)) => Selects'
  <2>1. LiveInv /\ Now => handler[c] \in {"select", "send", "done"}
    BY NoControlFacts DEF LiveInv, TypeOK, ControlTypeOK, FollowInv, Started, Lost
  <2>2. LiveInv /\ Runs(HandlerSend(c)) => Selects'
    BY DEF Runs, Running, HandlerSend, LiveInv, TypeOK, ControlTypeOK
  <2>. QED
    BY <2>1, <2>2 DEF HandlerTurn, RecvReady, SendReady, WaitsForRoom, ReadClosed
<1>7. LiveInv /\ Now /\ WaitsForRoom(c) =>
        /\ Busy \/ Idle
        /\ WriterReady(c)
        /\ Runs(Writer(c)) => Idle' \/ ~WaitsForRoom(c)' \/ Then'
        /\ Runs(Writer(c)) /\ Idle => ~WaitsForRoom(c)'
        /\ [Next]_vars /\ Idle => Idle' \/ ~WaitsForRoom(c)' \/ Then'
  <2> SUFFICES ASSUME LiveInv, Now, WaitsForRoom(c)
               PROVE  /\ Busy \/ Idle
                      /\ WriterReady(c)
                      /\ Runs(Writer(c)) => Idle' \/ ~WaitsForRoom(c)' \/ Then'
                      /\ Runs(Writer(c)) /\ Idle => ~WaitsForRoom(c)'
                      /\ [Next]_vars /\ Idle => Idle' \/ ~WaitsForRoom(c)' \/ Then'
    OBVIOUS
  <2>1. /\ writer[c] \in {"init", "run", "write"} /\ WriterReady(c)
        /\ Writer(c) => writer'[c] = "run" \/ sendCh'[c] < QueueCap \/ ~Lost(c)'
        /\ Writer(c) /\ writer[c] = "run" => sendCh'[c] < QueueCap
    BY WriterMakesRoom
  <2>2. [Next]_vars => writer'[c] = writer[c] \/ Writer(c)
    BY OnlyWriterWrites
  <2>. QED
    BY <2>1, <2>2 DEF Runs, Running, WaitsForRoom
<1>8. FairSpec => /\ [][Next]_vars /\ []LiveInv /\ FairKeeper
                  /\ FairReader(c) /\ FairRecv(c) /\ FairSend(c) /\ FairWriter(c) /\ FairWorker(c)
  <2>1. FairSpec => FairControl(c) /\ FairKeeper
    BY DEF FairSpec, Fairness
  <2>2. FairSpec => [][Next]_vars /\ []LiveInv
    BY AlwaysLiveInv, PTL DEF FairSpec, Spec
  <2>. QED
    BY <2>1, <2>2 DEF FairControl
<1> HIDE DEF Now, Then, Selects, Busy, Idle
<1>9. FairSpec /\ []GuardsEnable => [](Now /\ ReaderTurn(c) => <>Then)
  BY <1>1, <1>2, <1>3, <1>4, <1>5, <1>8, PTL DEF FairReader
<1>10. FairSpec /\ []GuardsEnable => [](Now /\ WriterTurn(c) => <>Then)
  BY <1>1, <1>2, <1>3, <1>4, <1>5, <1>8, PTL DEF FairWriter
<1>11. FairSpec /\ []GuardsEnable => [](Now /\ WorkerReady(c) => <>Then)
  BY <1>1, <1>2, <1>3, <1>5, <1>8, PTL DEF FairWorker
<1>12. FairSpec /\ []GuardsEnable => [](Now /\ KeeperTurn(c) => <>Then)
  BY <1>1, <1>2, <1>3, <1>4, <1>5, <1>8, PTL DEF FairKeeper
<1>13. FairSpec /\ []GuardsEnable => [](Now /\ WaitsForRoom(c) => <>(Then \/ ~WaitsForRoom(c)))
  BY <1>1, <1>5, <1>7, <1>8, PTL DEF FairWriter
<1>14. FairSpec /\ []GuardsEnable => [](Now /\ HandlerTurn(c) => <>(Then \/ Selects))
  BY <1>1, <1>2, <1>5, <1>6, <1>8, <1>13, PTL DEF FairSend
<1>15. FairSpec /\ []GuardsEnable => [](Now /\ HandlerTurn(c) => <>Then)
  BY <1>1, <1>2, <1>3, <1>5, <1>6, <1>8, <1>14, PTL DEF FairRecv
<1>16. FairSpec /\ []GuardsEnable => [](Now => <>Then)
  BY <1>4, <1>8, <1>9, <1>10, <1>11, <1>12, <1>15, PTL
<1>. QED
  BY <1>16 DEF Drops, Now, Then

LEMMA LostEnds ==
  ASSUME NEW c \in Control
  PROVE  FairSpec /\ []GuardsEnable /\ LeastNumbers => []<>~Lost(c)
<1> DEFINE G == [](Left(c) \in Nat) /\ []AllDrop(c)
<1>0. FairSpec /\ []GuardsEnable => G
  <2>1. FairSpec => [](Left(c) \in Nat)
    <3>1. LiveInv => Left(c) \in Nat
      BY LeftIsNat DEF LiveInv
    <3>. QED
      BY <3>1, AlwaysLiveInv, PTL DEF FairSpec
  <2>2. FairSpec /\ []GuardsEnable => \A k \in Nat : []Drops(c, k)
    BY LostDrops
  <2>3. (\A k \in Nat : []Drops(c, k)) => []AllDrop(c)
    BY DEF AllDrop
  <2>. QED
    BY <2>1, <2>2, <2>3
<1>1. ASSUME NEW k \in Nat
      PROVE  G /\ Reaches(c, k) => <>~Lost(c) \/ Sinks(c, k)
  <2>1. AllDrop(c) => Drops(c, k)
    BY DEF AllDrop
  <2>2. G => []Drops(c, k)
    BY <2>1, PTL
  <2>3. [](Left(c) \in Nat) /\ []Drops(c, k) /\ Reaches(c, k) => <>~Lost(c) \/ Sinks(c, k)
    BY PTL DEF Drops, Reaches, Sinks
  <2>. QED
    BY <2>2, <2>3
<1>2. ASSUME NEW k \in Nat
      PROVE  G /\ Reaches(c, k) => k = 0 \/ \E m \in Nat : m < k /\ Reaches(c, m)
  <2>1. <>~Lost(c) => Reaches(c, 0)
    BY PTL DEF Reaches
  <2>2. Left(c) \in Nat /\ Left(c) < k => \E m \in 0..(k - 1) : Left(c) = m
    OBVIOUS
  <2>3. Sinks(c, k) => <>(\E m \in 0..(k - 1) : Left(c) = m)
    BY <2>2, PTL DEF Sinks
  <2>4. <>(\E m \in 0..(k - 1) : Left(c) = m) => \E m \in 0..(k - 1) : <>(Left(c) = m)
    OBVIOUS
  <2>5. ASSUME NEW m \in 0..(k - 1) PROVE <>(Left(c) = m) => Reaches(c, m)
    BY PTL DEF Reaches
  <2>6. Sinks(c, k) => \E m \in 0..(k - 1) : Reaches(c, m)
    BY <2>3, <2>4, <2>5
  <2>. QED
    BY <1>1, <2>1, <2>6
<1>3. G => \E k \in Nat : Reaches(c, k)
  <2>1. ASSUME NEW k \in Nat PROVE Left(c) = k => Reaches(c, k)
    BY PTL DEF Reaches
  <2>2. G => Left(c) \in Nat
    BY PTL
  <2>. QED
    BY <2>1, <2>2
<1>4. G /\ LeastReached(c) => Reaches(c, 0)
  BY <1>2, <1>3 DEF LeastReached
<1>5. G /\ LeastReached(c) => <>~Lost(c)
  <2>1. ~(Left(c) \in Nat /\ Left(c) < 0)
    OBVIOUS
  <2>2. G /\ Reaches(c, 0) => <>~Lost(c) \/ Sinks(c, 0)
    BY <1>1
  <2>. QED
    BY <1>4, <2>1, <2>2, PTL DEF Sinks
<1>6. G /\ []LeastReached(c) => []<>~Lost(c)
  BY <1>5, PTL
<1>. QED
  BY <1>0, <1>6 DEF LeastNumbers

\* A connection that is gone does not come back: a new control is another one.
LEMMA ClosedStays ==
  ASSUME LiveInv, [Next]_vars, NEW c \in Control, ctl = c, conn[c] = "closed"
  PROVE  conn'[c] = "closed"
<1>0. /\ conn \in [Control -> {"none", "open", "closed"}]
      /\ ctl \in Control /\ worker[c] # "none" /\ TypeOK /\ FollowInv
  BY NoControlFacts DEF LiveInv, TypeOK, ControlTypeOK, FollowInv
<1>1. ASSUME NEW d \in Control, ControlNext(d)
      PROVE  conn'[c] = "closed"
  <2>1. CASE Break(d) \/ ProxySend(d) \/ ReaderRead(d) \/ Reader(d)
    BY <1>0, <2>1 DEF Break, ProxySend, ReaderRead, Reader, ReaderFail, ReaderPut
  <2>2. CASE HandlerTick(d) \/ HandlerTimeout(d) \/ HandlerRecv(d) \/ HandlerSend(d)
    BY <1>0, <2>2 DEF HandlerTick, HandlerTimeout, HandlerRecv, HandlerSend
  <2>3. CASE Writer(d) \/ Worker(d)
    BY <1>0, <2>3
    DEF Writer, WriterInit, WriterRecv, WriterWrite, Worker, WorkerClosed,
        WorkerHandlerDone, WorkerWriterDone
  <2>. QED
    BY <1>1, <2>1, <2>2, <2>3 DEF ControlNext
<1>2. ASSUME NEW d \in Control, NewControl(d)
      PROVE  conn'[c] = "closed"
  <2>1. d # c
    BY <1>0, <1>2, NewIsStarted
  <2>. QED
    BY <1>0, <1>2, <2>1 DEF NewControl, Run
<1>3. CASE FirstLogin
  BY <1>2, <1>3 DEF FirstLogin, ctlVars
<1>4. CASE Keeper
  BY <1>0, <1>2, <1>4
  DEF Keeper, KeeperTop, KeeperWait, KeeperDelay, KeeperLoginFails, KeeperLogin,
      KeeperStore, ctlVars
<1>5. CASE Reload \/ Close \/ UNCHANGED vars
  BY <1>0, <1>5
  DEF Reload, ReloadStore, ReloadLookup, ReloadApply, Close, CloseBegin, CloseLock,
      CloseProxies, CloseConn, CloseCancel, ctlVars, vars
<1>. QED
  BY <1>1, <1>3, <1>4, <1>5 DEF Next

\* A lost connection leads to a new control or to the end of the process or of
\* the service, or the shutdown is wedged, whatever frps, reloads and closes do
\* and for channels of any capacity.
THEOREM ReconnectsUnlessWedgedHolds == FairSpec /\ []GuardsEnable /\ LeastNumbers => ReconnectsUnlessWedged
<1> SUFFICES ASSUME NEW c \in Control
             PROVE  FairSpec /\ []GuardsEnable /\ LeastNumbers
                      => (ctl = c /\ conn[c] = "closed"
                            ~> (ctl # c \/ exit \/ process # "running" \/ Wedged(c)))
  BY DEF ReconnectsUnlessWedged
<1> DEFINE Ours == ctl = c
           Closed == conn[c] = "closed"
           Over == ctl # c \/ exit \/ process # "running" \/ Wedged(c)
<1>1. ~Lost(c) => Over \/ ~Closed
  BY DEF Lost
<1>2. LiveInv /\ [Next]_vars /\ Ours /\ Closed => Closed'
  BY ClosedStays
<1>3. ~Ours => Over
  OBVIOUS
<1>4. FairSpec => [][Next]_vars /\ []LiveInv
  BY AlwaysLiveInv, PTL DEF FairSpec, Spec
<1>5. FairSpec /\ []GuardsEnable /\ LeastNumbers => []<>~Lost(c)
  BY LostEnds
<1> HIDE DEF Ours, Closed, Over
<1>6. FairSpec /\ []GuardsEnable /\ LeastNumbers => (Ours /\ Closed ~> Over)
  BY <1>1, <1>2, <1>3, <1>4, <1>5, PTL
<1>. QED
  BY <1>6 DEF Ours, Closed, Over
=============================================================================
