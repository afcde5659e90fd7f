------------------------ MODULE ControlManagerProofs ------------------------
(***************************************************************************)
(* The index of controls by run id is right for every number of logins and *)
(* every set of run ids, a login is answered unless the control it replaces*)
(* is wedged, and controls that ended are forgotten.  Liveness is proved   *)
(* from [] GuardsEnable, since the prover does not look into ENABLED.      *)
(***************************************************************************)
EXTENDS ControlManager, TLAPS

\* The initial state of NewControlManager satisfies the inductive invariant.
LEMMA InitIInv == Init => IInv
  BY ControlManagerAssumption
  DEF Init, IInv, TypeOK, IndexInv, ServingIsIndexed, Added, Phase

\* Every step of every login handler, stoper, waiter and dashboard call
\* preserves the inductive invariant.
LEMMA NextIInv == IInv /\ [Next]_vars => IInv'
<1> SUFFICES ASSUME IInv, [Next]_vars
             PROVE  IInv'
  OBVIOUS
<1> USE ControlManagerAssumption
    DEF IInv, TypeOK, IndexInv, ServingIsIndexed, Added, Phase
<1>1. ASSUME NEW c \in Ctl, LoginRejected(c)
      PROVE  IInv'
  BY <1>1 DEF LoginRejected
<1>2. ASSUME NEW c \in Ctl, NEW r \in RunID, Add(c, r)
      PROVE  IInv'
  <2>1. TypeOK'
    BY <1>2 DEF Add
  <2>2. ctlsByRunID[r] # c
    BY <1>2 DEF Add
  <2>3. IndexInv'
    BY <1>2, <2>2 DEF Add
  <2>4. ServingIsIndexed'
    BY <1>2, <2>2 DEF Add
  <2>5. QED
    BY <2>1, <2>3, <2>4
<1>3. ASSUME NEW c \in Ctl, WaitClosedCheck(c)
      PROVE  IInv'
  <2>1. old[c] \in Ctl /\ allStart[old[c]]
    BY <1>3 DEF WaitClosedCheck
  <2>2. CASE Started(old[c])
    BY <1>3, <2>1, <2>2 DEF WaitClosedCheck
  <2>3. CASE ~Started(old[c])
    <3>1. /\ phase' = [phase EXCEPT ![c] = "start"]
          /\ allDone' = [allDone EXCEPT ![old[c]] = TRUE]
          /\ UNCHANGED <<ctlsByRunID, runOf, old, allStart, waiter, svrClosed, wedged>>
          /\ phase[c] = "waitOld"
      BY <1>3, <2>3 DEF WaitClosedCheck
    <3>2. TypeOK'
      BY <2>1, <3>1
    <3>3. IndexInv'
      BY <2>1, <3>1
    <3>4. ServingIsIndexed'
      BY <3>1
    <3>5. QED
      BY <3>2, <3>3, <3>4
  <2>4. QED
    BY <2>2, <2>3
<1>4. ASSUME NEW c \in Ctl, WaitClosedReturn(c)
      PROVE  IInv'
  BY <1>4 DEF WaitClosedReturn
<1>5. ASSUME NEW c \in Ctl, Start(c)
      PROVE  IInv'
  BY <1>5 DEF Start
<1>6. ASSUME NEW c \in Ctl, ConnectionLost(c)
      PROVE  IInv'
  BY <1>6 DEF ConnectionLost
<1>7. ASSUME NEW c \in Ctl, CloseUser(c)
      PROVE  IInv'
  BY <1>7 DEF CloseUser, SearchByID
<1>8. ASSUME NEW c \in Ctl, Wedge(c)
      PROVE  IInv'
  BY <1>8 DEF Wedge
<1>9. ASSUME NEW c \in Ctl, StoperDone(c)
      PROVE  IInv'
  BY <1>9 DEF StoperDone
<1>10. ASSUME NEW c \in Ctl, WaiterReturn(c)
      PROVE  IInv'
  BY <1>10 DEF WaiterReturn
<1>11. ASSUME NEW c \in Ctl, Del(c)
       PROVE  IInv'
  BY <1>11 DEF Del
<1>12. CASE Close
  <2>1. \A c \in Ctl : allStart'[c] \in BOOLEAN /\ (allStart[c] => allStart'[c])
    BY <1>12, Zenon DEF Close
  <2>2. ASSUME NEW c \in Ctl, NEW r \in RunID, ctlsByRunID[r] = c
        PROVE  allStart'[c]
    BY <1>12, <2>2, Zenon DEF Close
  <2>3. TypeOK'
    BY <1>12 DEF Close
  <2>4. IndexInv'
    BY <1>12, <2>1 DEF Close
  <2>5. ServingIsIndexed'
    BY <1>12, <2>1, <2>2 DEF Close
  <2>6. QED
    BY <2>3, <2>4, <2>5
<1>13. CASE UNCHANGED vars
  BY <1>13 DEF vars
<1>14. QED
  BY <1>1, <1>2, <1>3, <1>4, <1>5, <1>6, <1>7, <1>8, <1>9, <1>10, <1>11, <1>12,
     <1>13 DEF Next, Handler, Waiter

\* Every reachable state satisfies the inductive invariant.
LEMMA AlwaysIInv == Spec => []IInv
  BY InitIInv, NextIInv, PTL DEF Spec

\* Type correctness of the login and hand-over state.
THEOREM TypeCorrect == Spec => []TypeOK
<1>1. IInv => TypeOK
  BY DEF IInv
<1>2. QED
  BY AlwaysIInv, <1>1, PTL

\* ControlManager.Del and Add never lose a control that is still serving: it
\* is found under its run id.
THEOREM ServingIsIndexedAlways == Spec => []ServingIsIndexed
<1>1. IInv => ServingIsIndexed
  BY DEF IInv
<1>2. QED
  BY AlwaysIInv, <1>1, PTL

\* Of all controls of one run id at most one is serving, however many logins
\* race: every other one has been told to stop by Add.
THEOREM OneServingAlways == Spec => []OneServing
<1>1. IInv => OneServing
  BY DEF IInv, TypeOK, ServingIsIndexed, OneServing
<1>2. QED
  BY AlwaysIInv, <1>1, PTL

-----------------------------------------------------------------------------
\* What a login waits for: a control that was started.  A control that ended is
\* done, a started one has its waiter, and a waiter that is gone has deleted it.
WaitInv ==
  /\ \A c \in Ctl : phase[c] = "waitDone" => Started(old[c])
  /\ \A c \in Ctl : phase[c] = "closed" => allDone[c]
  /\ \A c \in Ctl : Started(c) <=> waiter[c] # "none"
  /\ \A c \in Ctl : waiter[c] = "gone" => \A r \in RunID : ctlsByRunID[r] # c

LEMMA AlwaysWaitInv == Spec => []WaitInv
<1>1. Init => WaitInv
  BY ControlManagerAssumption DEF Init, WaitInv, Started
<1>2. IInv /\ WaitInv /\ [Next]_vars => WaitInv'
  <2> SUFFICES ASSUME IInv, WaitInv, [Next]_vars
               PROVE  WaitInv'
    OBVIOUS
  <2> USE ControlManagerAssumption
      DEF IInv, TypeOK, IndexInv, Added, Phase, WaitInv, Started
  <2>1. ASSUME NEW c \in Ctl, LoginRejected(c)
        PROVE  WaitInv'
    BY <2>1 DEF LoginRejected
  <2>2. ASSUME NEW c \in Ctl, NEW r \in RunID, Add(c, r)
        PROVE  WaitInv'
    BY <2>2 DEF Add
  <2>3. ASSUME NEW c \in Ctl, WaitClosedCheck(c)
        PROVE  WaitInv'
    BY <2>3 DEF WaitClosedCheck
  <2>4. ASSUME NEW c \in Ctl, WaitClosedReturn(c)
        PROVE  WaitInv'
    BY <2>4 DEF WaitClosedReturn
  <2>5. ASSUME NEW c \in Ctl, Start(c)
        PROVE  WaitInv'
    BY <2>5 DEF Start
  <2>6. ASSUME NEW c \in Ctl, ConnectionLost(c) \/ CloseUser(c)
        PROVE  WaitInv'
    BY <2>6 DEF ConnectionLost, CloseUser
  <2>7. ASSUME NEW c \in Ctl, Wedge(c) \/ StoperDone(c)
        PROVE  WaitInv'
    BY <2>7 DEF Wedge, StoperDone
  <2>8. ASSUME NEW c \in Ctl, WaiterReturn(c)
        PROVE  WaitInv'
    BY <2>8 DEF WaiterReturn
  <2>9. ASSUME NEW c \in Ctl, Del(c)
        PROVE  WaitInv'
    BY <2>9 DEF Del
  <2>10. CASE Close
    BY <2>10 DEF Close
  <2>11. CASE UNCHANGED vars
    BY <2>11 DEF vars
  <2>12. QED
    BY <2>1, <2>2, <2>3, <2>4, <2>5, <2>6, <2>7, <2>8, <2>9, <2>10, <2>11
    DEF Next, Handler, Waiter
<1>3. QED
  BY <1>1, <1>2, AlwaysIInv, PTL DEF Spec

\* How a step of anybody changes where a login and the control it waits for are.
LEMMA LoginStep ==
  ASSUME IInv, WaitInv, [Next]_vars, NEW c \in Ctl
  PROVE  /\ phase[c] = "waitOld" => phase'[c] \in {"waitOld", "waitDone", "start"}
         /\ phase[c] = "waitDone" => /\ old'[c] = old[c]
                                     /\ \/ phase'[c] = "waitDone"
                                        \/ phase'[c] = "start"
         /\ phase[c] = "start" => phase'[c] \in {"start", "running"}
         /\ allDone[c] => allDone'[c]
         /\ c \in wedged => c \in wedged'
<1> USE ControlManagerAssumption
    DEF IInv, TypeOK, IndexInv, Added, Phase, Started
<1>1. ASSUME NEW d \in Ctl, NEW r \in RunID, Add(d, r)
      PROVE  /\ phase[c] # "new" => phase'[c] = phase[c] /\ old'[c] = old[c]
             /\ allDone' = allDone /\ wedged' = wedged
  BY <1>1 DEF Add
<1>2. ASSUME NEW d \in Ctl, Handler(d)
      PROVE  /\ phase[c] = "waitOld" => phase'[c] \in {"waitOld", "waitDone", "start"}
             /\ phase[c] = "waitDone" => phase'[c] \in {"waitDone", "start"}
             /\ phase[c] = "start" => phase'[c] \in {"start", "running"}
             /\ allDone[c] => allDone'[c]
             /\ old' = old /\ wedged' = wedged
  BY <1>2 DEF Handler, WaitClosedCheck, WaitClosedReturn, Start
<1>3. ASSUME NEW d \in Ctl, LoginRejected(d)
      PROVE  /\ phase[c] # "new" => phase'[c] = phase[c]
             /\ old' = old /\ allDone' = allDone /\ wedged' = wedged
  BY <1>3 DEF LoginRejected
<1>4. ASSUME NEW d \in Ctl, StoperDone(d)
      PROVE  /\ phase[c] # "running" => phase'[c] = phase[c]
             /\ old' = old /\ (allDone[c] => allDone'[c]) /\ wedged' = wedged
  BY <1>4 DEF StoperDone
<1>5. ASSUME NEW d \in Ctl, ConnectionLost(d) \/ CloseUser(d) \/ Wedge(d) \/ Waiter(d)
      PROVE  UNCHANGED <<phase, old, allDone>> /\ (c \in wedged => c \in wedged')
  BY <1>5 DEF ConnectionLost, CloseUser, Wedge, Waiter, WaiterReturn, Del
<1>6. CASE Close \/ UNCHANGED vars
  BY <1>6 DEF Close, vars
<1>7. phase[c] \in {"waitOld", "waitDone", "start"} => phase[c] \notin {"new", "running"}
  OBVIOUS
<1>8. CASE Next
  <2>1. PICK d \in Ctl : \/ LoginRejected(d)
                         \/ \E r \in RunID : Add(d, r)
                         \/ Handler(d)
                         \/ ConnectionLost(d)
                         \/ CloseUser(d)
                         \/ Wedge(d)
                         \/ StoperDone(d)
                         \/ Waiter(d)
                         \/ Close
    BY <1>8 DEF Next
  <2> HIDE DEF IInv, TypeOK, IndexInv
  <2> QED
    BY <2>1, <1>1, <1>2, <1>3, <1>4, <1>5, <1>6, <1>7
<1> QED
  BY <1>6, <1>8

\* A login that waits for the control o comes to its start or finds o wedged:
\* otherwise StoperDone of o sets allDone, and then WaitClosed returns.
WaitEnds(c, o) ==
  (phase[c] = "waitDone" /\ old[c] = o) ~> (phase[c] = "start" \/ BehindWedge(c))

LEMMA LoginWaits ==
  ASSUME NEW c \in Ctl, NEW o \in Ctl
  PROVE  FairSpec /\ []GuardsEnable => WaitEnds(c, o)
<1> DEFINE Waits == phase[c] = "waitDone" /\ old[c] = o
           Done == allDone[o]
           Starts == phase[c] = "start"
           Behind == BehindWedge(c)
<1>1. IInv /\ WaitInv /\ Waits /\ [Next]_vars => Waits' \/ Starts'
  BY LoginStep
<1>2. IInv /\ WaitInv /\ Done /\ [Next]_vars => Done'
  BY LoginStep
<1>3. IInv /\ WaitInv /\ GuardsEnable /\ Waits /\ ~Done /\ ~Behind
        => ENABLED <<StoperDone(o)>>_vars
  <2>1. IInv /\ WaitInv /\ Waits /\ ~Done /\ ~Behind => StoperReady(o)
    BY DEF IInv, IndexInv, WaitInv, Started, StoperReady, BehindWedge
  <2>2. GuardsEnable /\ StoperReady(o) => CanStop(o)
    BY DEF GuardsEnable
  <2> QED  BY <2>1, <2>2 DEF CanStop
<1>4. IInv /\ <<StoperDone(o)>>_vars => Done'
  BY DEF StoperDone, IInv, TypeOK
<1>5. GuardsEnable /\ Waits /\ Done => ENABLED <<Handler(c)>>_vars
  BY DEF GuardsEnable, HandlerReady
<1>6. IInv /\ Waits /\ <<Handler(c)>>_vars => Starts'
  BY DEF Handler, WaitClosedCheck, WaitClosedReturn, Start, IInv, TypeOK
<1>7. Fairness => FairHandler(c) /\ FairStoper(o)
  BY DEF Fairness
<1> HIDE DEF Waits, Done, Starts, Behind
<1>8. FairSpec /\ []GuardsEnable => (Waits ~> (Starts \/ Behind))
  BY <1>1, <1>2, <1>3, <1>4, <1>5, <1>6, <1>7, AlwaysIInv, AlwaysWaitInv, PTL
  DEF FairSpec, Spec, FairHandler, FairStoper
<1> QED  BY <1>8 DEF WaitEnds, Waits, Starts, Behind

\* Every login that replaces a control is answered, however many controls of its
\* run id came before it and are still being replaced, unless the one control it
\* waits for is wedged.
THEOREM LoginAnsweredHolds == FairSpec /\ []GuardsEnable => LoginAnswered
<1> SUFFICES ASSUME NEW c \in Ctl
             PROVE  FairSpec /\ []GuardsEnable =>
                      (phase[c] = "waitOld" ~> Started(c) \/ BehindWedge(c))
  BY DEF LoginAnswered
<1> DEFINE F == FairSpec /\ []GuardsEnable
           Asks == phase[c] = "waitOld"
           Waits == phase[c] = "waitDone"
           For(o) == phase[c] = "waitDone" /\ old[c] = o
           Starts == phase[c] = "start"
           Ends == phase[c] = "start" \/ BehindWedge(c)
           Behind == BehindWedge(c)
           Runs == Started(c)
<1>1. F => \A o \in Ctl : [](For(o) => <>Ends)
  <2>1. ASSUME NEW o \in Ctl PROVE F => [](For(o) => <>Ends)
    BY LoginWaits, PTL DEF WaitEnds
  <2> QED  BY <2>1
<1>2. (\A o \in Ctl : [](For(o) => <>Ends)) => [](\A o \in Ctl : For(o) => <>Ends)
  OBVIOUS
<1>3. IInv /\ (\A o \in Ctl : For(o) => <>Ends) => (Waits => <>Ends)
  <2>1. IInv /\ Waits => \E o \in Ctl : For(o)
    BY DEF IInv, TypeOK, IndexInv
  <2> QED  BY <2>1
<1>4. F => (Waits ~> Ends)
  BY <1>1, <1>2, <1>3, AlwaysIInv, PTL DEF FairSpec
<1>5. IInv /\ WaitInv /\ Asks /\ [Next]_vars => Asks' \/ Waits' \/ Starts'
  BY LoginStep
<1>6. IInv /\ Asks /\ <<Handler(c)>>_vars => Waits' \/ Starts'
  BY DEF Handler, WaitClosedCheck, WaitClosedReturn, Start, IInv, TypeOK
<1>7. IInv /\ WaitInv /\ Starts /\ [Next]_vars => Starts' \/ Runs'
  BY LoginStep DEF Started
<1>8. IInv /\ Starts /\ <<Handler(c)>>_vars => Runs'
  BY DEF Handler, WaitClosedCheck, WaitClosedReturn, Start, IInv, TypeOK, Started
<1>9. GuardsEnable /\ (Asks \/ Starts) => ENABLED <<Handler(c)>>_vars
  BY DEF GuardsEnable, HandlerReady
<1>10. Fairness => FairHandler(c)
  BY DEF Fairness
<1>11. Ends => Starts \/ Behind
  OBVIOUS
<1> HIDE DEF Asks, Waits, Starts, Runs, Ends, Behind
<1>12. F => (Asks ~> (Runs \/ Behind))
  BY <1>4, <1>5, <1>6, <1>7, <1>8, <1>9, <1>10, <1>11, AlwaysIInv, AlwaysWaitInv, PTL
  DEF FairSpec, Spec, FairHandler
<1> QED  BY <1>12 DEF Asks, Runs, Behind

\* The waiter of a control goes its way and never starts again.
LEMMA WaiterStep ==
  ASSUME IInv, WaitInv, [Next]_vars, NEW c \in Ctl
  PROVE  /\ phase[c] = "closed" => phase'[c] = "closed"
         /\ waiter[c] = "wait" => waiter'[c] \in {"wait", "del"}
         /\ waiter[c] = "del" => waiter'[c] \in {"del", "gone"}
         /\ waiter[c] = "gone" => waiter'[c] = "gone"
<1> USE ControlManagerAssumption
    DEF IInv, TypeOK, IndexInv, Added, Phase, Started
<1>1. ASSUME NEW d \in Ctl,
             \/ LoginRejected(d) \/ (\E r \in RunID : Add(d, r)) \/ ConnectionLost(d)
             \/ CloseUser(d) \/ Wedge(d) \/ StoperDone(d)
      PROVE  waiter' = waiter /\ (phase[c] = "closed" => phase'[c] = "closed")
  BY <1>1 DEF LoginRejected, Add, ConnectionLost, CloseUser, Wedge, StoperDone
<1>2. ASSUME NEW d \in Ctl, Handler(d)
      PROVE  /\ phase[c] = "closed" => phase'[c] = "closed"
             /\ waiter[c] # "none" => waiter'[c] = waiter[c]
  BY <1>2 DEF Handler, WaitClosedCheck, WaitClosedReturn, Start, WaitInv
<1>3. ASSUME NEW d \in Ctl, Waiter(d)
      PROVE  /\ phase' = phase
             /\ waiter[c] = "wait" => waiter'[c] \in {"wait", "del"}
             /\ waiter[c] = "del" => waiter'[c] \in {"del", "gone"}
             /\ waiter[c] = "gone" => waiter'[c] = "gone"
  BY <1>3 DEF Waiter, WaiterReturn, Del
<1>4. CASE Close \/ UNCHANGED vars
  BY <1>4 DEF Close, vars
<1>5. CASE Next
  <2>1. PICK d \in Ctl : \/ LoginRejected(d) \/ (\E r \in RunID : Add(d, r))
                         \/ ConnectionLost(d) \/ CloseUser(d) \/ Wedge(d)
                         \/ StoperDone(d)
                         \/ Handler(d)
                         \/ Waiter(d)
                         \/ Close
    BY <1>5 DEF Next
  <2> HIDE DEF IInv, TypeOK, IndexInv
  <2> QED
    BY <2>1, <1>1, <1>2, <1>3, <1>4
<1> QED
  BY <1>4, <1>5

\* A control that has ended is deleted from the index by the goroutine that
\* waits for it, and no later login brings it back.
THEOREM ClosedIsForgottenHolds == FairSpec /\ []GuardsEnable => ClosedIsForgotten
<1> SUFFICES ASSUME NEW c \in Ctl
             PROVE  FairSpec /\ []GuardsEnable =>
                      (phase[c] = "closed" ~> [](\A r \in RunID : ctlsByRunID[r] # c))
  BY DEF ClosedIsForgotten
<1> DEFINE F == FairSpec /\ []GuardsEnable
           Closed == phase[c] = "closed"
           Waits == waiter[c] = "wait"
           Deletes == waiter[c] = "del"
           Gone == waiter[c] = "gone"
           Forgotten == \A r \in RunID : ctlsByRunID[r] # c
<1>1. IInv /\ WaitInv /\ [Next]_vars =>
        /\ Closed => Closed'
        /\ Waits => Waits' \/ Deletes'
        /\ Deletes => Deletes' \/ Gone'
        /\ Gone => Gone'
  BY WaiterStep
<1>2. IInv /\ WaitInv /\ Closed => Waits \/ Deletes \/ Gone
  BY DEF IInv, TypeOK, WaitInv, Started
<1>3. IInv /\ Waits /\ <<Waiter(c)>>_vars => Deletes'
  BY DEF IInv, TypeOK, Waiter, WaiterReturn, Del
<1>4. IInv /\ Deletes /\ <<Waiter(c)>>_vars => Gone'
  BY DEF IInv, TypeOK, Waiter, WaiterReturn, Del
<1>5. WaitInv /\ GuardsEnable /\ Closed /\ (Waits \/ Deletes) => ENABLED <<Waiter(c)>>_vars
  BY DEF WaitInv, GuardsEnable, WaiterReady
<1>6. WaitInv /\ Gone => Forgotten
  BY DEF WaitInv
<1>7. Fairness => FairWaiter(c)
  BY DEF Fairness
<1> HIDE DEF Closed, Waits, Deletes, Gone, Forgotten
<1>8. F => (Closed ~> []Forgotten)
  BY <1>1, <1>2, <1>3, <1>4, <1>5, <1>6, <1>7, AlwaysIInv, AlwaysWaitInv, PTL
  DEF FairSpec, Spec, FairWaiter
<1> QED  BY <1>8 DEF Closed, Forgotten
=============================================================================
