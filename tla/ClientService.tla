--------------------------- MODULE ClientService ---------------------------
(***************************************************************************)
(* The service of frpc (client/service.go) over its controls: the first    *)
(* login, keepControllerWorking, ReloadConf of the admin API and           *)
(* GracefulClose.  A process may run several services (config_dir), so     *)
(* the end of one does not end it.                                         *)
(***************************************************************************)
EXTENDS ClientControl

CONSTANTS
  MaxReconnects, \* len(reconnectDelays), 3 in the code
  MaxReloads,    \* bound: calls of ReloadConf
  LoginFailExit  \* cfg.LoginFailExit; os.Exit comes before the one place that reads it

ASSUME ServiceAssumption ==
  MaxReconnects \in Nat \ {0} /\ MaxReloads \in Nat /\ LoginFailExit \in BOOLEAN

NoControl == 0

VARIABLES
  process,         \* "running", "exited" by os.Exit, "crashed" by a nil svr.ctl
  main,            \* Run has logged in
  ctl,             \* svr.ctl
  exit,            \* svr.exit
  keeper,          \* pc of keepControllerWorking
  waiting,         \* the control whose closedDoneCh it waits for
  fresh,           \* the control it has made and not stored yet
  reconnectCounts,
  failures,        \* history: logins that failed in a row
  pxyCfgs,         \* svr.pxyCfgs, numbered by the reload that stored it
  ctlCfgs,         \* the configuration each control serves
  reload,          \* pc of ReloadConf
  closer           \* pc of GracefulClose

svcVars == <<process, main, ctl, exit, keeper, waiting, fresh, reconnectCounts,
             failures, pxyCfgs, ctlCfgs, reload, closer>>
vars == <<ctlVars, svcVars>>

TypeOK ==
  /\ ControlTypeOK
  /\ process \in {"running", "exited", "crashed"}
  /\ main \in BOOLEAN
  /\ ctl \in Control \cup {NoControl}
  /\ exit \in BOOLEAN
  /\ keeper \in {"none", "top", "wait", "delay", "login", "store", "done"}
  /\ waiting \in Control \cup {NoControl}
  /\ fresh \in Control \cup {NoControl}
  /\ reconnectCounts \in 0..MaxReconnects
  /\ failures \in 0..MaxReconnects
  /\ pxyCfgs \in 0..MaxReloads
  /\ ctlCfgs \in [Control -> 0..MaxReloads]
  /\ reload \in {"idle", "lookup", "apply"}
  /\ closer \in {"idle", "lock", "proxies", "conn", "cancel", "done"}

Init ==
  /\ ControlInit
  /\ process = "running"
  /\ main = FALSE
  /\ ctl = NoControl
  /\ exit = FALSE
  /\ keeper = "none"
  /\ waiting = NoControl
  /\ fresh = NoControl
  /\ reconnectCounts = 0
  /\ failures = 0
  /\ pxyCfgs = 0
  /\ ctlCfgs = [c \in Control |-> 0]
  /\ reload = "idle"
  /\ closer = "idle"

\* The next control object.
IsNext(c) == \A d \in Control : d < c <=> worker[d] # "none"

\* login succeeded: NewControl with the configuration of the moment, and Run.
NewControl(c) ==
  /\ IsNext(c)
  /\ Run(c)
  /\ ctlCfgs' = [ctlCfgs EXCEPT ![c] = pxyCfgs]

-----------------------------------------------------------------------------
(* Service.Run *)

\* The first login: a failure ends the process, whatever LoginFailExit says.
FirstLogin ==
  /\ ~main
  /\ main' = TRUE
  /\ \/ \E c \in Control :
          /\ NewControl(c)
          /\ ctl' = c
          /\ keeper' = "top"
          /\ UNCHANGED process
     \/ /\ process' = "exited"
        /\ UNCHANGED <<ctlVars, ctl, keeper, ctlCfgs>>
  /\ UNCHANGED <<exit, waiting, fresh, reconnectCounts, failures, pxyCfgs, reload,
                 closer>>

-----------------------------------------------------------------------------
(* keepControllerWorking *)

\* svr.ctl is read without ctlMu: it may be nil.
KeeperTop ==
  /\ keeper = "top"
  /\ IF ctl = NoControl THEN process' = "crashed" /\ UNCHANGED <<keeper, waiting>>
     ELSE /\ waiting' = ctl
          /\ keeper' = "wait"
          /\ UNCHANGED process
  /\ UNCHANGED <<ctlVars, main, ctl, exit, fresh, reconnectCounts, failures,
                 pxyCfgs, ctlCfgs, reload, closer>>

\* Mutant of KeeperWait: the lost connection is enough.
KeeperWaitConn ==
  /\ keeper = "wait"
  /\ conn[waiting] = "closed"
  /\ keeper' = IF exit THEN "done" ELSE "delay"
  /\ reconnectCounts' = IF reconnectCounts < MaxReconnects THEN reconnectCounts + 1
                        ELSE reconnectCounts
  /\ UNCHANGED <<ctlVars, process, main, ctl, exit, waiting, fresh, failures,
                 pxyCfgs, ctlCfgs, reload, closer>>

\* closedDoneCh is closed.  After MaxReconnects failures the process ends;
\* otherwise the attempt is counted.
KeeperWait ==
  /\ keeper = "wait"
  /\ worker[waiting] = "done"
  /\ \/ /\ exit
        /\ keeper' = "done"
        /\ UNCHANGED <<process, reconnectCounts>>
     \/ /\ ~exit
        /\ reconnectCounts = MaxReconnects
        /\ process' = "exited"
        /\ UNCHANGED <<keeper, reconnectCounts>>
     \/ /\ ~exit
        /\ reconnectCounts < MaxReconnects
        /\ reconnectCounts' = reconnectCounts + 1
        /\ keeper' = "delay"
        /\ UNCHANGED process
  /\ UNCHANGED <<ctlVars, main, ctl, exit, waiting, fresh, failures, pxyCfgs,
                 ctlCfgs, reload, closer>>

\* The delay has passed; exit is read before the login.
KeeperDelay ==
  /\ keeper = "delay"
  /\ keeper' = IF exit THEN "done" ELSE "login"
  /\ UNCHANGED <<ctlVars, process, main, ctl, exit, waiting, fresh,
                 reconnectCounts, failures, pxyCfgs, ctlCfgs, reload, closer>>

\* Mutant of KeeperLoginFails: a failed login ends the loop.
KeeperLoginFailsReturns ==
  /\ keeper = "login"
  /\ keeper' = "done"
  /\ UNCHANGED <<ctlVars, process, main, ctl, exit, waiting, fresh,
                 reconnectCounts, failures, pxyCfgs, ctlCfgs, reload, closer>>

\* The connection, the login message or its answer fails.
KeeperLoginFails ==
  /\ keeper = "login"
  /\ keeper' = "top"
  /\ failures' = IF failures < MaxReconnects THEN failures + 1 ELSE failures
  /\ UNCHANGED <<ctlVars, process, main, ctl, exit, waiting, fresh,
                 reconnectCounts, pxyCfgs, ctlCfgs, reload, closer>>

\* Mutant of KeeperLogin: the attempts are not counted anew.
KeeperLoginKeepsCount ==
  /\ keeper = "login"
  /\ \E c \in Control : NewControl(c) /\ fresh' = c
  /\ keeper' = "store"
  /\ failures' = 0
  /\ UNCHANGED <<process, main, ctl, exit, waiting, reconnectCounts, pxyCfgs,
                 reload, closer>>

KeeperLogin ==
  /\ keeper = "login"
  /\ \E c \in Control : NewControl(c) /\ fresh' = c
  /\ keeper' = "store"
  /\ reconnectCounts' = 0
  /\ failures' = 0
  /\ UNCHANGED <<process, main, ctl, exit, waiting, pxyCfgs, reload, closer>>

\* With ctlMu held: the old control is closed, once more, and replaced.
KeeperStore ==
  /\ keeper = "store"
  /\ closer \notin {"proxies", "conn"}
  /\ conn' = IF ctl = NoControl THEN conn ELSE [conn EXCEPT ![ctl] = "closed"]
  /\ ctl' = fresh
  /\ fresh' = NoControl
  /\ keeper' = "top"
  /\ UNCHANGED <<reader, hand, readCh, handler, sendCh, writer, worker, process,
                 main, exit, waiting, reconnectCounts, failures, pxyCfgs,
                 ctlCfgs, reload, closer>>

-----------------------------------------------------------------------------
(* ReloadConf; bound: one call at a time *)

ReloadStore ==
  /\ main
  /\ reload = "idle"
  /\ pxyCfgs < MaxReloads
  /\ pxyCfgs' = pxyCfgs + 1
  /\ reload' = "lookup"
  /\ UNCHANGED <<ctlVars, process, main, ctl, exit, keeper, waiting, fresh,
                 reconnectCounts, failures, ctlCfgs, closer>>

ReloadLookup ==
  /\ reload = "lookup"
  /\ reload' = IF ctl = NoControl THEN "idle" ELSE "apply"
  /\ UNCHANGED <<ctlVars, process, main, ctl, exit, keeper, waiting, fresh,
                 reconnectCounts, failures, pxyCfgs, ctlCfgs, closer>>

\* svr.ctl is read a second time, without ctlMu.  Proxies that changed are
\* closed, which sends a message.
ReloadApply ==
  /\ reload = "apply"
  /\ IF ctl = NoControl
       THEN process' = "crashed" /\ UNCHANGED <<sendCh, ctlCfgs, reload>>
       ELSE /\ ProtectedSend(ctl)
            /\ ctlCfgs' = [ctlCfgs EXCEPT ![ctl] = pxyCfgs]
            /\ reload' = "idle"
            /\ UNCHANGED process
  /\ UNCHANGED <<conn, reader, hand, readCh, handler, writer, worker, main, ctl,
                 exit, keeper, waiting, fresh, reconnectCounts, failures,
                 pxyCfgs, closer>>

-----------------------------------------------------------------------------
(* GracefulClose *)

CloseBegin ==
  /\ main
  /\ closer = "idle"
  /\ exit' = TRUE
  /\ closer' = "lock"
  /\ UNCHANGED <<ctlVars, process, main, ctl, keeper, waiting, fresh,
                 reconnectCounts, failures, pxyCfgs, ctlCfgs, reload>>

\* ctlMu is held for reading until svr.ctl is set to nil.
CloseLock ==
  /\ closer = "lock"
  /\ closer' = IF ctl = NoControl THEN "cancel" ELSE "proxies"
  /\ UNCHANGED <<ctlVars, process, main, ctl, exit, keeper, waiting, fresh,
                 reconnectCounts, failures, pxyCfgs, ctlCfgs, reload>>

\* pm.Close: every proxy sends CloseProxy.
CloseProxies ==
  /\ closer = "proxies"
  /\ ProtectedSend(ctl)
  /\ closer' = "conn"
  /\ UNCHANGED <<conn, reader, hand, readCh, handler, writer, worker, process,
                 main, ctl, exit, keeper, waiting, fresh, reconnectCounts,
                 failures, pxyCfgs, ctlCfgs, reload>>

CloseConn ==
  /\ closer = "conn"
  /\ conn' = [conn EXCEPT ![ctl] = "closed"]
  /\ ctl' = NoControl
  /\ closer' = "cancel"
  /\ UNCHANGED <<reader, hand, readCh, handler, sendCh, writer, worker, process,
                 main, exit, keeper, waiting, fresh, reconnectCounts, failures,
                 pxyCfgs, ctlCfgs, reload>>

\* svr.cancel: Run returns.
CloseCancel ==
  /\ closer = "cancel"
  /\ closer' = "done"
  /\ UNCHANGED <<ctlVars, process, main, ctl, exit, keeper, waiting, fresh,
                 reconnectCounts, failures, pxyCfgs, ctlCfgs, reload>>

-----------------------------------------------------------------------------
Keeper ==
  KeeperTop \/ KeeperWait \/ KeeperDelay \/ KeeperLoginFails \/ KeeperLogin \/ KeeperStore
Reload == ReloadStore \/ ReloadLookup \/ ReloadApply
Close == CloseBegin \/ CloseLock \/ CloseProxies \/ CloseConn \/ CloseCancel

Next ==
  /\ process = "running"
  /\ \/ FirstLogin \/ Keeper \/ Reload \/ Close
     \/ \E c \in Control : ControlNext(c) /\ UNCHANGED svcVars

Spec == Init /\ [][Next]_vars

\* The goroutines run, and a login ends: the dial and the read of LoginResp have
\* time limits.  select picks at random among the cases that are ready, and the
\* senders that wait for room in a channel are served in turn: strong fairness
\* for msgHandler.  Nothing is assumed of frps, the network, reloads and closes.
Running(A) == process = "running" /\ A
Runs(A) == Running(A /\ UNCHANGED svcVars)
FairKeeper == WF_vars(Running(Keeper))
FairReader(c) == WF_vars(Runs(Reader(c)))
FairRecv(c) == SF_vars(Runs(HandlerRecv(c)))
FairSend(c) == SF_vars(Runs(HandlerSend(c)))
FairWriter(c) == WF_vars(Runs(Writer(c)))
FairWorker(c) == WF_vars(Runs(Worker(c)))
FairControl(c) ==
  FairReader(c) /\ FairRecv(c) /\ FairSend(c) /\ FairWriter(c) /\ FairWorker(c)

Fairness == FairKeeper /\ \A c \in Control : FairControl(c)

FairSpec == Spec /\ Fairness

\* When a goroutine is not blocked, and that one that is not can make a step.
ReaderReady(c) ==
  \/ reader[c] = "read" /\ conn[c] = "closed"
  \/ reader[c] = "put" /\ Len(readCh[c]) < QueueCap
RecvReady(c) == handler[c] = "select" /\ (readCh[c] # <<>> \/ ReadClosed(c))
SendReady(c) == handler[c] = "send" /\ sendCh[c] < QueueCap
WriterReady(c) ==
  \/ writer[c] \in {"init", "write"}
  \/ writer[c] = "run" /\ (sendCh[c] > 0 \/ SendClosed(c))
WorkerReady(c) ==
  \/ worker[c] = "wait" /\ reader[c] = "done"
  \/ worker[c] = "handler" /\ handler[c] = "done"
  \/ worker[c] = "writer" /\ writer[c] = "done"
KeeperReady ==
  \/ keeper \in {"top", "delay", "login"}
  \/ keeper = "wait" /\ worker[waiting] = "done"
  \/ keeper = "store" /\ closer \notin {"proxies", "conn"}

GuardsEnable ==
  process = "running" =>
    /\ KeeperReady => ENABLED <<Running(Keeper)>>_vars
    /\ \A c \in Control :
         /\ ReaderReady(c) => ENABLED <<Runs(Reader(c))>>_vars
         /\ RecvReady(c) => ENABLED <<Runs(HandlerRecv(c))>>_vars
         /\ SendReady(c) => ENABLED <<Runs(HandlerSend(c))>>_vars
         /\ WriterReady(c) => ENABLED <<Runs(Writer(c))>>_vars
         /\ WorkerReady(c) => ENABLED <<Runs(Worker(c))>>_vars

-----------------------------------------------------------------------------
(* Properties *)

\* Two controls of a service never run at once, whatever the order of losses,
\* logins, reloads and closes: frps would see two logins with one run id.
OneControl == \A c, d \in Control : Live(c) /\ Live(d) => c = d

\* reader and msgHandler never send on a channel that worker has closed (these
\* sends are not protected from the panic).
NoSendOnClosedChannel ==
  \A c \in Control :
    /\ reader[c] = "put" => ~ReadClosed(c)
    /\ handler[c] = "send" => ~SendClosed(c)

\* frpc ends itself only where its configuration says so (login_fail_exit, after
\* the first login) or when MaxReconnects logins in a row have failed, however
\* often the connection was lost before.  It holds for the default, LoginFailExit.
\* Without it os.Exit(1) at client/service.go:152 ends frpc all the same, against
\* "otherwise continuous relogin to frps" (conf/frpc_full.ini:93).
GivesUpLast ==
  process = "exited" =>
    \/ keeper = "none" /\ LoginFailExit
    \/ keeper # "none" /\ failures = MaxReconnects

\* A lost connection leads to a new control, or to the end of the process or
\* service, except when one of two blocked sends keeps the shutdown from ending.
ReconnectsUnlessWedged ==
  \A c \in Control :
    ctl = c /\ conn[c] = "closed" ~>
      ctl # c \/ exit \/ process # "running" \/ Wedged(c)

\* "success reload conf" (client/admin_api.go:73): when nothing is under way the
\* running control serves the configuration that was loaded last.
ReloadApplied ==
  ctl # NoControl /\ Live(ctl) /\ keeper = "wait" /\ waiting = ctl /\ reload = "idle"
    => ctlCfgs[ctl] = pxyCfgs
=============================================================================
