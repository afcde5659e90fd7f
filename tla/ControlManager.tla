--------------------------- MODULE ControlManager ---------------------------
(***************************************************************************)
(* Logging in to frps: Service.RegisterControl, the ControlManager that    *)
(* indexes controls by run id, and the hand-over when a client logs in     *)
(* again with a run id that is still in use (server/service.go,            *)
(* server/control.go).                                                     *)
(*                                                                         *)
(* Every element of Ctl is one Login message and the control made for it.  *)
(* The life of a started control is ServerControl; here it is "running"    *)
(* until its stoper has released everything and called allShutdown.Done(), *)
(* which a control that ServerControl calls wedged never does.             *)
(***************************************************************************)
EXTENDS Naturals

CONSTANTS
  Ctl,    \* bound: login attempts
  RunID,  \* run ids, sent by the client or generated for it
  NoCtl   \* "no control" (a nil *Control)

ASSUME ControlManagerAssumption ==
  /\ NoCtl \notin Ctl
  /\ RunID # {}

VARIABLES
  ctlsByRunID, \* the map of the ControlManager
  phase,       \* where the handler of each login, then its control, is
  runOf,       \* loginMsg.RunID of each control
  old,         \* what ctlManager.Add returned for each control
  allStart,    \* allShutdown.Start() was called
  allDone,     \* allShutdown.Done() was called
  waiter,      \* pc of the goroutine that waits for the end and calls Del
  svrClosed,   \* Service.Close was called
  wedged       \* the controls one of whose goroutines is blocked for ever

vars ==
  <<ctlsByRunID, phase, runOf, old, allStart, allDone, waiter, svrClosed, wedged>>

Phase == {"new", "rejected", "waitOld", "waitDone", "start", "running", "closed"}

\* Controls that were handed to ctlManager.Add.
Added(c) == phase[c] \notin {"new", "rejected"}

\* ctl.started.
Started(c) == phase[c] \in {"running", "closed"}

TypeOK ==
  /\ ctlsByRunID \in [RunID -> Ctl \cup {NoCtl}]
  /\ phase \in [Ctl -> Phase]
  /\ runOf \in [Ctl -> RunID]
  /\ old \in [Ctl -> Ctl \cup {NoCtl}]
  /\ allStart \in [Ctl -> BOOLEAN]
  /\ allDone \in [Ctl -> BOOLEAN]
  /\ waiter \in [Ctl -> {"none", "wait", "del", "gone"}]
  /\ svrClosed \in BOOLEAN
  /\ wedged \subseteq Ctl

\* runOf is meaningless before the login: any value will do.
Init ==
  /\ ctlsByRunID = [r \in RunID |-> NoCtl]
  /\ phase = [c \in Ctl |-> "new"]
  /\ runOf = [c \in Ctl |-> CHOOSE r \in RunID : TRUE]
  /\ old = [c \in Ctl |-> NoCtl]
  /\ allStart = [c \in Ctl |-> FALSE]
  /\ allDone = [c \in Ctl |-> FALSE]
  /\ waiter = [c \in Ctl |-> "none"]
  /\ svrClosed = FALSE
  /\ wedged = {}

-----------------------------------------------------------------------------
\* A plugin, the version check, the token or the API refuses the login: the
\* handler answers with an error and closes the connection.
LoginRejected(c) ==
  /\ phase[c] = "new"
  /\ phase' = [phase EXCEPT ![c] = "rejected"]
  /\ UNCHANGED <<ctlsByRunID, runOf, old, allStart, allDone, waiter, svrClosed, wedged>>

\* Mutant of Add: the old control is not told that it is replaced.
AddWithoutReplaced(c, r) ==
  /\ phase[c] = "new"
  /\ runOf' = [runOf EXCEPT ![c] = r]
  /\ old' = [old EXCEPT ![c] = ctlsByRunID[r]]
  /\ phase' = [phase EXCEPT ![c] = IF ctlsByRunID[r] = NoCtl THEN "start"
                                   ELSE "waitOld"]
  /\ ctlsByRunID' = [ctlsByRunID EXCEPT ![r] = c]
  /\ UNCHANGED <<allStart, allDone, waiter, svrClosed, wedged>>

\* The login is accepted: NewControl and, under the manager's lock, Add.  Add
\* tells a control that already has the run id that it is replaced.
Add(c, r) ==
  /\ phase[c] = "new"
  /\ runOf' = [runOf EXCEPT ![c] = r]
  /\ old' = [old EXCEPT ![c] = ctlsByRunID[r]]
  /\ allStart' = IF ctlsByRunID[r] = NoCtl THEN allStart
                 ELSE [allStart EXCEPT ![ctlsByRunID[r]] = TRUE]
  /\ phase' = [phase EXCEPT ![c] = IF ctlsByRunID[r] = NoCtl THEN "start"
                                   ELSE "waitOld"]
  /\ ctlsByRunID' = [ctlsByRunID EXCEPT ![r] = c]
  /\ UNCHANGED <<allDone, waiter, svrClosed, wedged>>

\* oldCtl.WaitClosed(): an old control that was not started is marked done and
\* not waited for.
WaitClosedCheck(c) ==
  /\ phase[c] = "waitOld"
  /\ IF Started(old[c])
       THEN /\ phase' = [phase EXCEPT ![c] = "waitDone"]
            /\ UNCHANGED allDone
       ELSE /\ phase' = [phase EXCEPT ![c] = "start"]
            /\ allDone' = [allDone EXCEPT ![old[c]] = TRUE]
  /\ UNCHANGED <<ctlsByRunID, runOf, old, allStart, waiter, svrClosed, wedged>>

WaitClosedReturn(c) ==
  /\ phase[c] = "waitDone"
  /\ allDone[old[c]]
  /\ phase' = [phase EXCEPT ![c] = "start"]
  /\ UNCHANGED <<ctlsByRunID, runOf, old, allStart, allDone, waiter, svrClosed, wedged>>

\* ctl.Start() sends LoginResp, sets started and launches the goroutines; then
\* the handler spawns the goroutine that will call Del.
Start(c) ==
  /\ phase[c] = "start"
  /\ phase' = [phase EXCEPT ![c] = "running"]
  /\ waiter' = [waiter EXCEPT ![c] = "wait"]
  /\ UNCHANGED <<ctlsByRunID, runOf, old, allStart, allDone, svrClosed, wedged>>

\* A running control loses its connection, its heartbeat or its writer.
ConnectionLost(c) ==
  /\ phase[c] = "running"
  /\ ~allStart[c]
  /\ allStart' = [allStart EXCEPT ![c] = TRUE]
  /\ UNCHANGED <<ctlsByRunID, phase, runOf, old, allDone, waiter, svrClosed, wedged>>

\* The scan of the map for a run id of the user may return c: which one of the
\* controls of a user it finds is up to the order of the map.
SearchByID(c) == \E r \in RunID : ctlsByRunID[r] = c

\* The dashboard closes the control it found by SearchByID; the control may
\* be one that is not started yet.
CloseUser(c) ==
  /\ SearchByID(c)
  /\ ~allStart[c]
  /\ allStart' = [allStart EXCEPT ![c] = TRUE]
  /\ UNCHANGED <<ctlsByRunID, phase, runOf, old, allDone, waiter, svrClosed, wedged>>

\* The reader blocks on a full readCh after the manager has returned, or the
\* manager on a full sendCh after the writer has: the one that returned has
\* called allShutdown.Start(), and the other never returns (ServerControl's
\* WedgeIsPermanent), so stoper waits for it for ever.
Wedge(c) ==
  /\ phase[c] = "running"
  /\ allStart[c]
  /\ c \notin wedged
  /\ wedged' = wedged \cup {c}
  /\ UNCHANGED <<ctlsByRunID, phase, runOf, old, allStart, allDone, waiter, svrClosed>>

\* Mutant of StoperDone: allShutdown.Done() is forgotten.
StoperNeverDone(c) ==
  /\ phase[c] = "running"
  /\ allStart[c]
  /\ c \notin wedged
  /\ phase' = [phase EXCEPT ![c] = "closed"]
  /\ UNCHANGED <<ctlsByRunID, runOf, old, allStart, allDone, waiter, svrClosed, wedged>>

\* stoper() of a running control that is not wedged ends: everything is
\* released.
StoperDone(c) ==
  /\ phase[c] = "running"
  /\ allStart[c]
  /\ c \notin wedged
  /\ phase' = [phase EXCEPT ![c] = "closed"]
  /\ allDone' = [allDone EXCEPT ![c] = TRUE]
  /\ UNCHANGED <<ctlsByRunID, runOf, old, allStart, waiter, svrClosed, wedged>>

\* The goroutine of RegisterControl: WaitClosed returns, then Del.
WaiterReturn(c) ==
  /\ waiter[c] = "wait"
  /\ allDone[c]
  /\ waiter' = [waiter EXCEPT ![c] = "del"]
  /\ UNCHANGED <<ctlsByRunID, phase, runOf, old, allStart, allDone, svrClosed, wedged>>

\* Mutant of Del: whatever control has the run id is deleted.
DelAnyone(c) ==
  /\ waiter[c] = "del"
  /\ waiter' = [waiter EXCEPT ![c] = "gone"]
  /\ ctlsByRunID' = [ctlsByRunID EXCEPT ![runOf[c]] = NoCtl]
  /\ UNCHANGED <<phase, runOf, old, allStart, allDone, svrClosed, wedged>>

\* Mutant of Del: the comparison of the controls is negated.
DelOthers(c) ==
  /\ waiter[c] = "del"
  /\ waiter' = [waiter EXCEPT ![c] = "gone"]
  /\ ctlsByRunID' = IF ctlsByRunID[runOf[c]] # c
                    THEN [ctlsByRunID EXCEPT ![runOf[c]] = NoCtl]
                    ELSE ctlsByRunID
  /\ UNCHANGED <<phase, runOf, old, allStart, allDone, svrClosed, wedged>>

Del(c) ==
  /\ waiter[c] = "del"
  /\ waiter' = [waiter EXCEPT ![c] = "gone"]
  /\ ctlsByRunID' = IF ctlsByRunID[runOf[c]] = c
                    THEN [ctlsByRunID EXCEPT ![runOf[c]] = NoCtl]
                    ELSE ctlsByRunID
  /\ UNCHANGED <<phase, runOf, old, allStart, allDone, svrClosed, wedged>>

\* Service.Close: every control in the map is told to stop and the map is
\* emptied.  A login whose handler is already running can still call Add.
Close ==
  /\ ~svrClosed
  /\ svrClosed' = TRUE
  /\ allStart' = [c \in Ctl |-> allStart[c] \/ \E r \in RunID : ctlsByRunID[r] = c]
  /\ ctlsByRunID' = [r \in RunID |-> NoCtl]
  /\ UNCHANGED <<phase, runOf, old, allDone, waiter, wedged>>

-----------------------------------------------------------------------------
Handler(c) ==
  \/ WaitClosedCheck(c)
  \/ WaitClosedReturn(c)
  \/ Start(c)

Waiter(c) == WaiterReturn(c) \/ Del(c)

Next ==
  \/ \E c \in Ctl :
       \/ LoginRejected(c)
       \/ \E r \in RunID : Add(c, r)
       \/ Handler(c)
       \/ ConnectionLost(c)
       \/ CloseUser(c)
       \/ Wedge(c)
       \/ StoperDone(c)
       \/ Waiter(c)
  \/ Close

Spec == Init /\ [][Next]_vars

\* Handler and waiter goroutines are scheduled; a control that was told to stop
\* finishes its stoper unless it is wedged (ServerControl's ClosesUnlessWedged).
\* Nothing forces or forbids a wedge.
FairHandler(c) == WF_vars(Handler(c))
FairStoper(c) == WF_vars(StoperDone(c))
FairWaiter(c) == WF_vars(Waiter(c))

Fairness == \A c \in Ctl : FairHandler(c) /\ FairStoper(c) /\ FairWaiter(c)

FairSpec == Spec /\ Fairness

-----------------------------------------------------------------------------
(* Properties *)

\* Of two controls of one run id at most one is serving: Replaced has reached
\* every other one, whatever order logins, starts, losses and deletions take.
OneServing ==
  \A c, d \in Ctl :
    /\ c # d
    /\ Added(c) /\ Added(d)
    /\ runOf[c] = runOf[d]
    => allStart[c] \/ allStart[d]

\* "we should make sure if it's the same control to prevent delete a new one"
\* (server/control.go:73): a control that is serving is found under its run id,
\* so the Del of an earlier control of that run id never removed it.
ServingIsIndexed ==
  \A c \in Ctl : Added(c) /\ ~allStart[c] => ctlsByRunID[runOf[c]] = c

\* Every login that replaces a control (server/service.go:596) is answered, the
\* control it made is started, unless the one control it waits for is wedged:
\* then it waits for ever.  Neither a chain of logins that replace each other nor
\* a control that is replaced before it was started keeps a login waiting.
BehindWedge(c) == phase[c] = "waitDone" /\ old[c] \in wedged

LoginAnswered == \A c \in Ctl : phase[c] = "waitOld" ~> Started(c) \/ BehindWedge(c)

\* A control that has ended disappears from the index and never comes back.
ClosedIsForgotten ==
  \A c \in Ctl : phase[c] = "closed" ~> [](\A r \in RunID : ctlsByRunID[r] # c)

\* What makes the two invariants inductive: the index only holds controls under
\* their own run id, a control is done only after it was told to stop, Del runs
\* only for a control that is done, and a login waits only for a control that
\* was told to stop.
IndexInv ==
  /\ \A r \in RunID : ctlsByRunID[r] # NoCtl =>
        Added(ctlsByRunID[r]) /\ runOf[ctlsByRunID[r]] = r
  /\ \A c \in Ctl : allDone[c] => allStart[c]
  /\ \A c \in Ctl : waiter[c] \in {"del", "gone"} => allDone[c]
  /\ \A c \in Ctl : phase[c] \in {"waitOld", "waitDone"} =>
        old[c] # NoCtl /\ allStart[old[c]]

IInv == TypeOK /\ IndexInv /\ ServingIsIndexed

\* The guards of the handler of a login, of stoper and of the waiter, and that
\* a goroutine whose guard holds can make a step.
HandlerReady(c) ==
  phase[c] \in {"waitOld", "start"} \/ (phase[c] = "waitDone" /\ allDone[old[c]])
StoperReady(c) == phase[c] = "running" /\ allStart[c] /\ c \notin wedged
WaiterReady(c) == waiter[c] = "del" \/ (waiter[c] = "wait" /\ allDone[c])

CanStop(c) == ENABLED <<StoperDone(c)>>_vars

GuardsEnable ==
  \A c \in Ctl : /\ HandlerReady(c) => ENABLED <<Handler(c)>>_vars
                 /\ StoperReady(c) => CanStop(c)
                 /\ WaiterReady(c) => ENABLED <<Waiter(c)>>_vars
=============================================================================
