---------------------------- MODULE ProxyWrapper ----------------------------
(***************************************************************************)
(* One proxy name on frpc while its control connection is up: the Manager  *)
(* that replaces its Wrapper on a reload, the wrapper's checkWorker and    *)
(* health monitor (client/proxy/proxy_manager.go, proxy_wrapper.go,        *)
(* client/health/health.go), and the conversation with frps, which         *)
(* registers and closes the proxy in the order of the messages and answers *)
(* every NewProxy (the manager loop of server/control.go).                 *)
(*                                                                         *)
(* NewProxyResp carries the name only: nothing says which NewProxy it      *)
(* answers.                                                                *)
(***************************************************************************)
EXTENDS Naturals, Sequences

CONSTANTS
  MaxWrappers, \* bound: Wrapper objects that are ever created for the name
  Cfg,         \* configurations of the proxy
  NoCfg,       \* the name is not configured, or not registered
  HealthCheck, \* the configurations have a health check
  MaxFailed,   \* health_check_max_failed
  QueueCap     \* bound: messages under way in each direction

ASSUME WrapperAssumption ==
  /\ MaxWrappers \in Nat
  /\ Cfg # {} /\ NoCfg \notin Cfg
  /\ HealthCheck \in BOOLEAN
  /\ MaxFailed \in Nat \ {0}
  /\ QueueCap \in Nat \ {0}

\* Wrapper objects, in the order in which they are made.
Wrapper == 1..MaxWrappers
NoWrapper == 0

VARIABLES
  proxies,     \* pm.proxies[name], NoWrapper if there is no entry
  cfg,         \* Cfg of each wrapper, NoCfg before it is made
  phase,       \* its Phase
  overdue,     \* waitResponseTimeout has passed since lastSendStartMsg
  stopped,     \* its closeCh is closed
  worker,      \* pc of its checkWorker
  health,      \* its health flag, TRUE for healthy
  monitor,     \* its monitor runs
  statusOK,    \* monitor.statusOK
  failedTimes, \* monitor.failedTimes, counted up to MaxFailed
  streak,      \* history: checks that failed in a row, up to MaxFailed - 1
  toServer,    \* messages on the way to frps: a configuration for NewProxy,
               \* NoCfg for CloseProxy
  toClient,    \* NewProxyResp messages on the way back: TRUE without an error
  registered   \* what frps has registered under the name

monVars == <<health, monitor, statusOK, failedTimes, streak>>
netVars == <<toServer, toClient, registered>>
vars == <<proxies, cfg, phase, overdue, stopped, worker, monVars, netVars>>

\* "start error" is declared in the code, and never assigned.
Phase == {"new", "wait start", "running", "check failed", "closed"}

TypeOK ==
  /\ proxies \in Wrapper \cup {NoWrapper}
  /\ cfg \in [Wrapper -> Cfg \cup {NoCfg}]
  /\ phase \in [Wrapper -> Phase]
  /\ overdue \in [Wrapper -> BOOLEAN]
  /\ stopped \in [Wrapper -> BOOLEAN]
  /\ worker \in [Wrapper -> {"none", "check", "start", "withdraw", "wait"}]
  /\ health \in [Wrapper -> BOOLEAN]
  /\ monitor \in [Wrapper -> BOOLEAN]
  /\ statusOK \in [Wrapper -> BOOLEAN]
  /\ failedTimes \in [Wrapper -> 0..MaxFailed]
  /\ streak \in [Wrapper -> 0..(MaxFailed - 1)]
  /\ toServer \in Seq(Cfg \cup {NoCfg})
  /\ toClient \in Seq(BOOLEAN)
  /\ registered \in Cfg \cup {NoCfg}

Init ==
  /\ proxies = NoWrapper
  /\ cfg = [w \in Wrapper |-> NoCfg]
  /\ phase = [w \in Wrapper |-> "new"]
  /\ overdue = [w \in Wrapper |-> FALSE]
  /\ stopped = [w \in Wrapper |-> FALSE]
  /\ worker = [w \in Wrapper |-> "none"]
  /\ health = [w \in Wrapper |-> ~HealthCheck]
  /\ monitor = [w \in Wrapper |-> FALSE]
  /\ statusOK = [w \in Wrapper |-> FALSE]
  /\ failedTimes = [w \in Wrapper |-> 0]
  /\ streak = [w \in Wrapper |-> 0]
  /\ toServer = <<>>
  /\ toClient = <<>>
  /\ registered = NoCfg

\* msgTransporter.Send, which blocks while the queue is full.
Send(m) ==
  /\ Len(toServer) < QueueCap
  /\ toServer' = Append(toServer, m)

-----------------------------------------------------------------------------
(* Manager.Reload *)

\* Mutant of StopWrapper: the phase is left alone.
StopKeepsPhase(w) ==
  /\ stopped' = [stopped EXCEPT ![w] = TRUE]
  /\ Send(NoCfg)
  /\ UNCHANGED phase

\* Mutant of StopWrapper: no CloseProxy is sent.
StopSilently(w) ==
  /\ stopped' = [stopped EXCEPT ![w] = TRUE]
  /\ phase' = [phase EXCEPT ![w] = "closed"]
  /\ UNCHANGED toServer

\* Wrapper.Stop, with pw.mu held: CloseProxy is sent whatever the phase is.
StopWrapper(w) ==
  /\ stopped' = [stopped EXCEPT ![w] = TRUE]
  /\ phase' = [phase EXCEPT ![w] = "closed"]
  /\ Send(NoCfg)

\* NewWrapper and Start for the configuration c.
StartWrapper(w, c) ==
  /\ \A v \in Wrapper : v < w <=> cfg[v] # NoCfg
  /\ proxies' = w
  /\ cfg' = [cfg EXCEPT ![w] = c]
  /\ worker' = [worker EXCEPT ![w] = "check"]
  /\ monitor' = [monitor EXCEPT ![w] = HealthCheck]

\* With pm.mu held: a wrapper whose configuration changed is stopped, then a
\* new one is started.  An unchanged configuration changes nothing.
Reload(c) ==
  /\ IF proxies = NoWrapper THEN c # NoCfg /\ UNCHANGED <<stopped, phase, toServer>>
     ELSE c # cfg[proxies] /\ StopWrapper(proxies)
  /\ IF c # NoCfg THEN \E w \in Wrapper : StartWrapper(w, c)
     ELSE proxies' = NoWrapper /\ UNCHANGED <<cfg, worker, monitor>>
  /\ UNCHANGED <<overdue, health, statusOK, failedTimes, streak, toClient,
                 registered>>

-----------------------------------------------------------------------------
(* Wrapper.checkWorker *)

\* The health flag is read before pw.mu is taken.
LoadHealth(w) ==
  /\ worker[w] = "check"
  /\ worker' = [worker EXCEPT ![w] = IF health[w] THEN "start" ELSE "withdraw"]
  /\ UNCHANGED <<proxies, cfg, phase, overdue, stopped, monVars, netVars>>

\* NewProxy is to be sent, or to be sent again.
NeedsStart(w) ==
  \/ phase[w] \in {"new", "check failed"}
  \/ phase[w] = "wait start" /\ overdue[w]

CheckHealthy(w) ==
  /\ worker[w] = "start"
  /\ IF NeedsStart(w)
       THEN /\ phase' = [phase EXCEPT ![w] = "wait start"]
            /\ overdue' = [overdue EXCEPT ![w] = FALSE]
            /\ Send(cfg[w])
       ELSE UNCHANGED <<phase, overdue, toServer>>
  /\ worker' = [worker EXCEPT ![w] = "wait"]
  /\ UNCHANGED <<proxies, cfg, stopped, monVars, toClient, registered>>

\* Mutant of CheckFailed: a running proxy is not withdrawn.
CheckFailedOnlyWaiting(w) ==
  /\ worker[w] = "withdraw"
  /\ IF phase[w] = "wait start"
       THEN /\ phase' = [phase EXCEPT ![w] = "check failed"]
            /\ Send(NoCfg)
       ELSE UNCHANGED <<phase, toServer>>
  /\ worker' = [worker EXCEPT ![w] = "wait"]
  /\ UNCHANGED <<proxies, cfg, overdue, stopped, monVars, toClient, registered>>

CheckFailed(w) ==
  /\ worker[w] = "withdraw"
  /\ IF phase[w] \in {"running", "wait start"}
       THEN /\ phase' = [phase EXCEPT ![w] = "check failed"]
            /\ Send(NoCfg)
       ELSE UNCHANGED <<phase, toServer>>
  /\ worker' = [worker EXCEPT ![w] = "wait"]
  /\ UNCHANGED <<proxies, cfg, overdue, stopped, monVars, toClient, registered>>

\* The select: closeCh ends the worker; the interval, a health notification or
\* the closed healthNotifyCh start another round.
WaitNext(w) ==
  /\ worker[w] = "wait"
  /\ \/ worker' = [worker EXCEPT ![w] = "check"]
     \/ stopped[w] /\ worker' = [worker EXCEPT ![w] = "none"]
  /\ UNCHANGED <<proxies, cfg, phase, overdue, stopped, monVars, netVars>>

\* waitResponseTimeout passes.
Timeout(w) ==
  /\ phase[w] = "wait start"
  /\ ~overdue[w]
  /\ overdue' = [overdue EXCEPT ![w] = TRUE]
  /\ UNCHANGED <<proxies, cfg, phase, stopped, worker, monVars, netVars>>

-----------------------------------------------------------------------------
(* Monitor.checkWorker *)

\* A counter that is only compared with max.
Count(n, max) == IF n < max THEN n + 1 ELSE n

\* One check, its result and the callback it leads to.  failedTimes is never
\* reset.
MonitorCheck(w, ok) ==
  /\ monitor[w]
  /\ ~stopped[w]
  /\ failedTimes' = [failedTimes EXCEPT ![w] = IF ok THEN @ ELSE Count(@, MaxFailed)]
  /\ streak' = [streak EXCEPT ![w] = IF ok THEN 0 ELSE Count(@, MaxFailed - 1)]
  /\ IF ok \/ (statusOK[w] /\ failedTimes'[w] >= MaxFailed)
       THEN /\ statusOK' = [statusOK EXCEPT ![w] = ok]
            /\ health' = [health EXCEPT ![w] = ok]
       ELSE UNCHANGED <<statusOK, health>>
  /\ UNCHANGED <<proxies, cfg, phase, overdue, stopped, worker, monitor, netVars>>

\* monitor.Stop() was called.
MonitorExit(w) ==
  /\ monitor[w]
  /\ stopped[w]
  /\ monitor' = [monitor EXCEPT ![w] = FALSE]
  /\ UNCHANGED <<proxies, cfg, phase, overdue, stopped, worker, health,
                 statusOK, failedTimes, streak, netVars>>

-----------------------------------------------------------------------------
(* frps *)

\* The next message.  A NewProxy for a name that is registered is refused; any
\* other may be refused (a port in use, a quota, a plugin).
Serve ==
  /\ toServer # <<>>
  /\ toServer' = Tail(toServer)
  /\ IF Head(toServer) = NoCfg
       THEN registered' = NoCfg /\ UNCHANGED toClient
       ELSE /\ Len(toClient) < QueueCap
            /\ \/ /\ registered = NoCfg
                  /\ registered' = Head(toServer)
                  /\ toClient' = Append(toClient, TRUE)
               \/ /\ UNCHANGED registered
                  /\ toClient' = Append(toClient, FALSE)
  /\ UNCHANGED <<proxies, cfg, phase, overdue, stopped, worker, monVars>>

\* The dashboard closes the proxy on frps; frpc is not told.
ForceCloseProxy ==
  /\ registered # NoCfg
  /\ registered' = NoCfg
  /\ UNCHANGED <<proxies, cfg, phase, overdue, stopped, worker, monVars,
                 toServer, toClient>>

-----------------------------------------------------------------------------
(* NewProxyResp on frpc *)

\* Mutant of SetRunningStatus: an error leaves the proxy waiting.
SetRunningStatusRetries(w, ok) ==
  IF phase[w] # "wait start" \/ ~ok THEN UNCHANGED <<phase, toServer>>
  ELSE phase' = [phase EXCEPT ![w] = "running"] /\ UNCHANGED toServer

\* Only a wrapper that waits takes the answer.  An error closes it for good; if
\* the proxy itself cannot run it is closed on frps too.
SetRunningStatus(w, ok) ==
  IF phase[w] # "wait start" THEN UNCHANGED <<phase, toServer>>
  ELSE \/ /\ phase' = [phase EXCEPT ![w] = IF ok THEN "running" ELSE "closed"]
          /\ UNCHANGED toServer
       \/ /\ ok
          /\ phase' = [phase EXCEPT ![w] = "closed"]
          /\ Send(NoCfg)

\* HandleNewProxyResp: the answer goes to whatever wrapper has the name now.  (A
\* reload between the lookup and SetRunningStatus is one after it: the answer
\* is ignored by the wrapper that was stopped.)
StartProxy ==
  /\ toClient # <<>>
  /\ toClient' = Tail(toClient)
  /\ IF proxies = NoWrapper THEN UNCHANGED <<phase, toServer>>
     ELSE SetRunningStatus(proxies, Head(toClient))
  /\ UNCHANGED <<proxies, cfg, overdue, stopped, worker, monVars, registered>>

-----------------------------------------------------------------------------
CheckWorker(w) ==
  LoadHealth(w) \/ CheckHealthy(w) \/ CheckFailed(w) \/ WaitNext(w)

Next ==
  \/ \E c \in Cfg \cup {NoCfg} : Reload(c)
  \/ \E w \in Wrapper :
       \/ CheckWorker(w)
       \/ Timeout(w)
       \/ \E ok \in BOOLEAN : MonitorCheck(w, ok)
       \/ MonitorExit(w)
  \/ Serve
  \/ ForceCloseProxy
  \/ StartProxy

Spec == Init /\ [][Next]_vars

\* The goroutines run, the connection delivers and frps answers.  Nothing is
\* assumed of reloads, of the checked service or of timeouts.
FairWorker(w) == WF_vars(CheckWorker(w))
FairServe == WF_vars(Serve)
FairAnswer == WF_vars(StartProxy)

Fairness == (\A w \in Wrapper : FairWorker(w)) /\ FairServe /\ FairAnswer

FairSpec == Spec /\ Fairness

\* When checkWorker, frps and the reader of frpc are not blocked, and that one
\* that is not can make a step.
WorkerReady(w) ==
  \/ worker[w] \in {"check", "wait"}
  \/ worker[w] = "start" /\ ~NeedsStart(w)
  \/ worker[w] \in {"start", "withdraw"} /\ Len(toServer) < QueueCap

ServeReady == toServer # <<>> /\ Len(toClient) < QueueCap

AnswerReady == toClient # <<>>

GuardsEnable ==
  /\ \A w \in Wrapper : WorkerReady(w) => ENABLED <<CheckWorker(w)>>_vars
  /\ ServeReady => ENABLED <<Serve>>_vars
  /\ AnswerReady => ENABLED <<StartProxy>>_vars

-----------------------------------------------------------------------------
(* Properties *)

\* What frps would have registered at most after the messages under way: every
\* NewProxy that no later CloseProxy undoes is for the present configuration.
Surviving(i) == \A j \in DOMAIN toServer : j > i => toServer[j] # NoCfg

\* frps never ends up with a proxy that frpc has removed or reconfigured: what
\* is registered, or about to be, is the configuration of the present wrapper
\* unless its CloseProxy is already on the way.  Stop, resends, late timers and
\* the worker of a stopped wrapper cannot bring an old configuration back.
NoStaleConfig ==
  /\ registered # NoCfg /\ Surviving(0) =>
       proxies # NoWrapper /\ registered = cfg[proxies]
  /\ \A i \in DOMAIN toServer : toServer[i] # NoCfg /\ Surviving(i) =>
       proxies # NoWrapper /\ toServer[i] = cfg[proxies]

\* A proxy that waits for frps is answered, for whichever NewProxy it was: it
\* does not wait for ever, though answers are matched by name only.
WaitStartEnds == \A w \in Wrapper : phase[w] = "wait start" ~> phase[w] # "wait start"

\* A proxy whose service stays unhealthy is withdrawn, although checkWorker uses
\* a flag it read before it took the lock.
UnhealthyWithdrawn ==
  \A w \in Wrapper :
    phase[w] = "running" /\ ~health[w] ~> (phase[w] # "running" \/ health[w])

\* A proxy that was removed is gone from frps once the messages are through, and
\* it stays so until the name is configured again.
RemovedIsGone == proxies = NoWrapper ~> (registered = NoCfg \/ proxies # NoWrapper)

\* "if continuous failed in 3 times, the proxy will be removed from frps"
\* (conf/frpc_full.ini:179): when the status turns bad, the checks before it failed
\* too.
FailsInARow ==
  [][\A w \in Wrapper : statusOK[w] /\ ~statusOK'[w] => streak[w] = MaxFailed - 1]_vars
=============================================================================
