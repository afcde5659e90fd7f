------------------------- MODULE ProxyWrapperProofs -------------------------
(***************************************************************************)
(* Proofs about ProxyWrapper, for every number of reloads, configurations  *)
(* and messages under way: nothing stale is registered for good, no wrapper*)
(* waits for ever, and what is unhealthy or removed leaves frps.  Liveness *)
(* is proved from [] GuardsEnable, since the prover does not look into     *)
(* ENABLED, and from LeastNumbers or LeastPlaces, since it does no         *)
(* induction over temporal formulas.                                       *)
(***************************************************************************)
EXTENDS ProxyWrapper, TLAPS

\* Wrapper objects differ from "no entry".
LEMMA NoWrapperFacts == NoWrapper \notin Wrapper
BY DEF NoWrapper, Wrapper

\* What sending and taking a message does to a queue.
LEMMA AppendType ==
  ASSUME NEW S, NEW q \in Seq(S), NEW m \in S
  PROVE  /\ Append(q, m) \in Seq(S)
         /\ Len(Append(q, m)) = Len(q) + 1
         /\ Append(q, m)[Len(q) + 1] = m
         /\ \A i \in 1..Len(q) : Append(q, m)[i] = q[i]
OBVIOUS

LEMMA AppendNotEmpty ==
  ASSUME NEW S, NEW q \in Seq(S), NEW m \in S
  PROVE  Append(q, m) # <<>>
<1>1. Len(Append(q, m)) = Len(q) + 1 /\ Len(q) \in Nat
  OBVIOUS
<1>2. Len(Append(q, m)) # 0 /\ Len(<<>>) = 0
  BY <1>1
<1>. QED
  BY <1>2

LEMMA TailType ==
  ASSUME NEW S, NEW q \in Seq(S), q # <<>>
  PROVE  /\ Tail(q) \in Seq(S)
         /\ Head(q) \in S /\ Head(q) = q[1]
         /\ Len(Tail(q)) = Len(q) - 1 /\ Len(q) \in Nat \ {0}
         /\ \A i \in 1..Len(Tail(q)) : Tail(q)[i] = q[i + 1]
OBVIOUS

\* A message is sent at the end of the queue to frps.
LEMMA SendType ==
  ASSUME TypeOK, NEW m \in Cfg \cup {NoCfg}, Send(m)
  PROVE  /\ toServer' \in Seq(Cfg \cup {NoCfg})
         /\ Len(toServer) \in Nat /\ Len(toServer') = Len(toServer) + 1
         /\ toServer'[Len(toServer) + 1] = m
         /\ \A i \in 1..Len(toServer) : toServer'[i] = toServer[i]
<1>1. toServer \in Seq(Cfg \cup {NoCfg}) /\ toServer' = Append(toServer, m)
  BY DEF TypeOK, Send
<1>2. QED BY <1>1, AppendType

\* The type invariant is inductive.
LEMMA TypeOKStep == TypeOK /\ [Next]_vars => TypeOK'
<1> SUFFICES ASSUME TypeOK, [Next]_vars PROVE TypeOK'
  OBVIOUS
<1> USE DEF TypeOK
<1>1. ASSUME NEW c \in Cfg \cup {NoCfg}, Reload(c) PROVE TypeOK'
  <2>1. phase' \in [Wrapper -> Phase] /\ stopped' \in [Wrapper -> BOOLEAN]
    BY <1>1 DEF Reload, StopWrapper, Phase
  <2>4. toServer' \in Seq(Cfg \cup {NoCfg})
    BY <1>1, SendType DEF Reload, StopWrapper
  <2>2. /\ proxies' \in Wrapper \cup {NoWrapper}
        /\ cfg' \in [Wrapper -> Cfg \cup {NoCfg}]
        /\ worker' \in [Wrapper -> {"none", "check", "start", "withdraw", "wait"}]
        /\ monitor' \in [Wrapper -> BOOLEAN]
    BY <1>1, WrapperAssumption, ZenonT(60) DEF Reload, StartWrapper
  <2>3. QED BY <2>1, <2>2, <2>4, <1>1 DEF Reload
<1>2. ASSUME NEW w \in Wrapper, LoadHealth(w) PROVE TypeOK'
  BY <1>2 DEF LoadHealth, monVars, netVars
<1>3. ASSUME NEW w \in Wrapper, CheckHealthy(w) PROVE TypeOK'
  <2>1. toServer' \in Seq(Cfg \cup {NoCfg})
    BY <1>3, SendType DEF CheckHealthy
  <2>2. /\ phase' \in [Wrapper -> Phase]
        /\ overdue' \in [Wrapper -> BOOLEAN]
        /\ worker' \in [Wrapper -> {"none", "check", "start", "withdraw", "wait"}]
    BY <1>3 DEF CheckHealthy, Phase
  <2>3. QED BY <2>1, <2>2, <1>3 DEF CheckHealthy, monVars
<1>4. ASSUME NEW w \in Wrapper, CheckFailed(w) PROVE TypeOK'
  <2>1. toServer' \in Seq(Cfg \cup {NoCfg})
    BY <1>4, SendType DEF CheckFailed
  <2>2. /\ phase' \in [Wrapper -> Phase]
        /\ worker' \in [Wrapper -> {"none", "check", "start", "withdraw", "wait"}]
    BY <1>4 DEF CheckFailed, Phase
  <2>3. QED BY <2>1, <2>2, <1>4 DEF CheckFailed, monVars
<1>5. ASSUME NEW w \in Wrapper, WaitNext(w) PROVE TypeOK'
  BY <1>5 DEF WaitNext, monVars, netVars
<1>6. ASSUME NEW w \in Wrapper, Timeout(w) PROVE TypeOK'
  BY <1>6 DEF Timeout, monVars, netVars
<1>7. ASSUME NEW w \in Wrapper, NEW ok \in BOOLEAN, MonitorCheck(w, ok)
      PROVE TypeOK'
  <2>1. failedTimes' \in [Wrapper -> 0..MaxFailed]
    BY <1>7, WrapperAssumption DEF MonitorCheck, Count
  <2>2. streak' \in [Wrapper -> 0..(MaxFailed - 1)]
    BY <1>7, WrapperAssumption DEF MonitorCheck, Count
  <2>3. statusOK' \in [Wrapper -> BOOLEAN] /\ health' \in [Wrapper -> BOOLEAN]
    BY <1>7 DEF MonitorCheck
  <2>4. QED BY <2>1, <2>2, <2>3, <1>7 DEF MonitorCheck, netVars
<1>8. ASSUME NEW w \in Wrapper, MonitorExit(w) PROVE TypeOK'
  BY <1>8 DEF MonitorExit, netVars
<1>9. CASE Serve
  <2>1. toServer' \in Seq(Cfg \cup {NoCfg}) /\ Head(toServer) \in Cfg \cup {NoCfg}
    BY <1>9, TailType DEF Serve
  <2>2. toClient' \in Seq(BOOLEAN)
    <3>1. TRUE \in BOOLEAN /\ FALSE \in BOOLEAN
      OBVIOUS
    <3>2. Append(toClient, TRUE) \in Seq(BOOLEAN) /\ Append(toClient, FALSE) \in Seq(BOOLEAN)
      BY <3>1, AppendType, Zenon
    <3>3. QED BY <3>2, <1>9 DEF Serve
  <2>3. registered' \in Cfg \cup {NoCfg}
    BY <2>1, <1>9 DEF Serve
  <2>4. QED BY <2>1, <2>2, <2>3, <1>9 DEF Serve, monVars
<1>10. CASE ForceCloseProxy
  BY <1>10 DEF ForceCloseProxy, monVars
<1>11. CASE StartProxy
  <2>1. toClient' \in Seq(BOOLEAN)
    BY <1>11, TailType, Zenon DEF StartProxy
  <2>2. toServer' \in Seq(Cfg \cup {NoCfg})
    BY <1>11, SendType DEF StartProxy, SetRunningStatus
  <2>3. phase' \in [Wrapper -> Phase]
    BY <1>11, ZenonT(60) DEF StartProxy, SetRunningStatus, Phase
  <2>4. QED BY <2>1, <2>2, <2>3, <1>11 DEF StartProxy, monVars
<1>12. CASE UNCHANGED vars
  BY <1>12 DEF vars, monVars, netVars
<1>13. QED
  BY <1>1, <1>2, <1>3, <1>4, <1>5, <1>6, <1>7, <1>8, <1>9, <1>10, <1>11, <1>12
  DEF Next, CheckWorker

\* TypeOK holds in every reachable state.
THEOREM TypeCorrect == Spec => []TypeOK
<1>1. Init => TypeOK
  BY WrapperAssumption DEF Init, TypeOK, Wrapper, NoWrapper, Phase
<1>2. QED
  BY <1>1, TypeOKStep, PTL DEF Spec

-----------------------------------------------------------------------------
(* NoStaleConfig *)

\* Only the wrapper in pm.proxies can send NewProxy: one that is not made yet
\* has no worker, one that was replaced is closed for good.
OnlyPresentActs ==
  /\ proxies # NoWrapper => cfg[proxies] # NoCfg
  /\ \A w \in Wrapper :
       /\ cfg[w] = NoCfg => phase[w] = "new" /\ worker[w] = "none"
       /\ cfg[w] # NoCfg /\ w # proxies => phase[w] = "closed"

\* Replaced wrappers stay closed in every step.
LEMMA OnlyPresentActsStep ==
  TypeOK /\ OnlyPresentActs /\ [Next]_vars => OnlyPresentActs'
<1> SUFFICES ASSUME TypeOK, OnlyPresentActs, [Next]_vars PROVE OnlyPresentActs'
  OBVIOUS
<1> USE DEF OnlyPresentActs
<1>1. ASSUME NEW c \in Cfg \cup {NoCfg}, Reload(c) PROVE OnlyPresentActs'
  <2>1. \A w \in Wrapper : cfg[w] # NoCfg => phase'[w] = "closed"
    BY <1>1, NoWrapperFacts DEF Reload, StopWrapper, TypeOK
  <2>2. \A w \in Wrapper : cfg[w] = NoCfg => phase'[w] = "new"
    BY <1>1, NoWrapperFacts DEF Reload, StopWrapper, TypeOK
  <2>3. CASE c = NoCfg
    BY <2>1, <2>2, <2>3, <1>1 DEF Reload
  <2>4. CASE c # NoCfg
    <3>1. PICK v \in Wrapper : StartWrapper(v, c)
      BY <2>4, <1>1 DEF Reload
    <3>2. /\ proxies' = v /\ cfg'[v] = c
          /\ \A w \in Wrapper \ {v} : cfg'[w] = cfg[w] /\ worker'[w] = worker[w]
      BY <3>1 DEF StartWrapper, TypeOK
    <3>3. QED BY <2>1, <2>2, <2>4, <3>2
  <2>5. QED BY <2>3, <2>4
<1>2. ASSUME NEW w \in Wrapper, LoadHealth(w) PROVE OnlyPresentActs'
  BY <1>2 DEF LoadHealth, TypeOK
<1>3. ASSUME NEW w \in Wrapper, CheckHealthy(w) PROVE OnlyPresentActs'
  BY <1>3, ZenonT(60) DEF CheckHealthy, NeedsStart, TypeOK
<1>4. ASSUME NEW w \in Wrapper, CheckFailed(w) PROVE OnlyPresentActs'
  BY <1>4 DEF CheckFailed, TypeOK
<1>5. ASSUME NEW w \in Wrapper, WaitNext(w) PROVE OnlyPresentActs'
  BY <1>5 DEF WaitNext, TypeOK
<1>6. ASSUME NEW w \in Wrapper, Timeout(w) PROVE OnlyPresentActs'
  BY <1>6 DEF Timeout
<1>7. ASSUME NEW w \in Wrapper, NEW ok \in BOOLEAN, MonitorCheck(w, ok)
      PROVE OnlyPresentActs'
  BY <1>7 DEF MonitorCheck
<1>8. ASSUME NEW w \in Wrapper, MonitorExit(w) PROVE OnlyPresentActs'
  BY <1>8 DEF MonitorExit
<1>9. CASE Serve
  BY <1>9 DEF Serve
<1>10. CASE ForceCloseProxy
  BY <1>10 DEF ForceCloseProxy
<1>11. CASE StartProxy
  BY <1>11, NoWrapperFacts DEF StartProxy, SetRunningStatus, TypeOK
<1>12. CASE UNCHANGED vars
  BY <1>12 DEF vars
<1>13. QED
  BY <1>1, <1>2, <1>3, <1>4, <1>5, <1>6, <1>7, <1>8, <1>9, <1>10, <1>11, <1>12
  DEF Next, CheckWorker

\* A CloseProxy at the end of the queue undoes everything before it.
LEMMA CloseSent == ASSUME TypeOK, Send(NoCfg) PROVE NoStaleConfig'
<1>1. /\ toServer' \in Seq(Cfg \cup {NoCfg}) /\ Len(toServer) \in Nat
      /\ Len(toServer') = Len(toServer) + 1 /\ toServer'[Len(toServer')] = NoCfg
  BY SendType
<1>2. DOMAIN toServer' = 1..Len(toServer')
  BY <1>1
<1>3. \A i \in 0..Len(toServer) : ~(Surviving(i)')
  BY <1>1, <1>2 DEF Surviving
<1>4. QED
  BY <1>1, <1>2, <1>3 DEF NoStaleConfig

\* Nothing becomes stale while the queue, the registration and the present
\* wrapper stay, or the registration is dropped.
LEMMA NothingSent ==
  ASSUME NoStaleConfig, UNCHANGED <<toServer, proxies, cfg>>,
         registered' \in {registered, NoCfg}
  PROVE  NoStaleConfig'
BY DEF NoStaleConfig, Surviving

\* A NewProxy of the present wrapper is sent.
LEMMA NewSent ==
  ASSUME TypeOK, NoStaleConfig, NEW m \in Cfg, Send(m), proxies # NoWrapper,
         m = cfg[proxies], UNCHANGED <<proxies, cfg, registered>>
  PROVE  NoStaleConfig'
<1>1. /\ toServer' \in Seq(Cfg \cup {NoCfg}) /\ Len(toServer) \in Nat
      /\ Len(toServer') = Len(toServer) + 1 /\ toServer'[Len(toServer) + 1] = m
      /\ \A i \in 1..Len(toServer) : toServer'[i] = toServer[i]
  BY SendType
<1>2. DOMAIN toServer' = 1..(Len(toServer) + 1) /\ DOMAIN toServer = 1..Len(toServer)
  BY <1>1 DEF TypeOK
<1>3. \A i \in 0..Len(toServer) : Surviving(i)' => Surviving(i)
  BY <1>1, <1>2 DEF Surviving
<1>4. QED
  BY <1>1, <1>2, <1>3 DEF NoStaleConfig

\* frps takes the next message: what it registers was the next to survive.
LEMMA ServeStep ==
  ASSUME TypeOK, NoStaleConfig, Serve PROVE NoStaleConfig'
<1>1. /\ toServer \in Seq(Cfg \cup {NoCfg}) /\ toServer # <<>>
      /\ toServer' = Tail(toServer)
      /\ UNCHANGED <<proxies, cfg>>
  BY DEF Serve, TypeOK
<1>2. /\ Len(toServer) \in Nat \ {0} /\ Len(toServer') = Len(toServer) - 1
      /\ Head(toServer) = toServer[1] /\ toServer' \in Seq(Cfg \cup {NoCfg})
      /\ \A i \in 1..Len(toServer') : toServer'[i] = toServer[i + 1]
  BY <1>1, TailType
<1>3. DOMAIN toServer = 1..Len(toServer) /\ DOMAIN toServer' = 1..Len(toServer')
  BY <1>1, <1>2
<1>4. ASSUME NEW i \in 0..Len(toServer'), Surviving(i)' PROVE Surviving(i + 1)
  <2> SUFFICES ASSUME NEW j \in DOMAIN toServer, j > i + 1 PROVE toServer[j] # NoCfg
    BY DEF Surviving
  <2>1. j - 1 \in DOMAIN toServer' /\ j - 1 > i /\ toServer'[j - 1] = toServer[j]
    BY <1>2, <1>3
  <2>2. QED BY <1>4, <2>1 DEF Surviving
<1>5. ASSUME NEW i \in DOMAIN toServer', toServer'[i] # NoCfg, Surviving(i)'
      PROVE  proxies # NoWrapper /\ toServer'[i] = cfg[proxies]
  <2>1. i + 1 \in DOMAIN toServer /\ toServer[i + 1] = toServer'[i] /\ Surviving(i + 1)
    BY <1>2, <1>3, <1>4, <1>5
  <2>2. QED BY <2>1, <1>5 DEF NoStaleConfig
<1>6. ASSUME registered' # NoCfg, Surviving(0)'
      PROVE  proxies # NoWrapper /\ registered' = cfg[proxies]
  <2>1. Surviving(1) /\ 1 \in DOMAIN toServer
    BY <1>2, <1>3, <1>4, <1>6
  <2>2. toServer[1] # NoCfg
    BY <1>2, <1>6 DEF Serve
  <2>3. Surviving(0)
    BY <2>1, <2>2, <1>3 DEF Surviving
  <2>4. registered' \in {registered, toServer[1]}
    BY <1>2 DEF Serve
  <2>5. QED BY <2>1, <2>2, <2>3, <2>4, <1>6 DEF NoStaleConfig
<1>7. QED
  BY <1>1, <1>5, <1>6 DEF NoStaleConfig

\* One step per action: only Reload, checkWorker, frps and the answers touch
\* what NoStaleConfig speaks of.
LEMMA NoStaleConfigStep ==
  TypeOK /\ OnlyPresentActs /\ NoStaleConfig /\ [Next]_vars => NoStaleConfig'
<1> SUFFICES ASSUME TypeOK, OnlyPresentActs, NoStaleConfig, [Next]_vars
             PROVE  NoStaleConfig'
  OBVIOUS
<1>1. ASSUME NEW c \in Cfg \cup {NoCfg}, Reload(c) PROVE NoStaleConfig'
  <2>1. CASE proxies = NoWrapper
    BY <2>1, <1>1 DEF Reload, NoStaleConfig, Surviving
  <2>2. CASE proxies # NoWrapper
    BY <2>2, <1>1, CloseSent DEF Reload, StopWrapper
  <2>3. QED BY <2>1, <2>2
<1>2. ASSUME NEW w \in Wrapper, CheckHealthy(w) PROVE NoStaleConfig'
  <2>1. CASE NeedsStart(w)
    <3>1. cfg[w] \in Cfg /\ w = proxies /\ proxies # NoWrapper
      BY <2>1, <1>2, NoWrapperFacts
      DEF CheckHealthy, NeedsStart, OnlyPresentActs, TypeOK
    <3>2. Send(cfg[w]) /\ UNCHANGED <<proxies, cfg, registered>>
      BY <2>1, <1>2 DEF CheckHealthy
    <3>3. QED BY <3>1, <3>2, NewSent
  <2>2. CASE ~NeedsStart(w)
    BY <2>2, <1>2, NothingSent DEF CheckHealthy
  <2>3. QED BY <2>1, <2>2
<1>3. ASSUME NEW w \in Wrapper, CheckFailed(w) PROVE NoStaleConfig'
  BY <1>3, CloseSent, NothingSent DEF CheckFailed
<1>4. CASE Serve
  BY <1>4, ServeStep
<1>5. CASE ForceCloseProxy
  BY <1>5, NothingSent DEF ForceCloseProxy
<1>6. CASE StartProxy
  BY <1>6, CloseSent, NothingSent DEF StartProxy, SetRunningStatus
<1>7. ASSUME NEW w \in Wrapper,
             \/ LoadHealth(w) \/ WaitNext(w) \/ Timeout(w) \/ MonitorExit(w)
             \/ \E ok \in BOOLEAN : MonitorCheck(w, ok)
      PROVE  NoStaleConfig'
  <2>1. UNCHANGED <<toServer, proxies, cfg, registered>>
    BY <1>7 DEF LoadHealth, WaitNext, Timeout, MonitorExit, MonitorCheck, netVars
  <2>2. QED BY <2>1, NothingSent
<1>8. CASE UNCHANGED vars
  BY <1>8, NothingSent DEF vars, netVars
<1>9. QED
  BY <1>1, <1>2, <1>3, <1>4, <1>5, <1>6, <1>7, <1>8 DEF Next, CheckWorker

\* Whatever is reloaded, resent or answered late, frps does not end up with a
\* configuration of the proxy that frpc has replaced or removed.
THEOREM NoStaleConfigHolds == Spec => []NoStaleConfig
<1>1. Init => OnlyPresentActs /\ NoStaleConfig
  BY DEF Init, OnlyPresentActs, NoStaleConfig, Surviving
<1>2. QED
  BY <1>1, TypeCorrect, OnlyPresentActsStep, NoStaleConfigStep, PTL DEF Spec

-----------------------------------------------------------------------------
(* Liveness: what comes to an end while the goroutines run *)

\* A proxy that waits has an answer on the way, or the NewProxy that will be
\* answered.
Awaited == toClient # <<>> \/ \E i \in DOMAIN toServer : toServer[i] # NoCfg
AnswerComes == \A w \in Wrapper : phase[w] = "wait start" => Awaited

\* checkWorker runs until its wrapper is stopped, and the present one is not.
WorkerLives ==
  /\ \A w \in Wrapper :
       /\ cfg[w] # NoCfg /\ ~stopped[w] => worker[w] # "none"
       /\ cfg[w] = NoCfg => ~stopped[w]
  /\ proxies # NoWrapper => ~stopped[proxies]

\* A message that is sent leaves the NewProxy before it where it is.
LEMMA SentKeepsAwaited ==
  ASSUME TypeOK, Awaited, NEW m \in Cfg \cup {NoCfg}, Send(m), UNCHANGED toClient
  PROVE  Awaited'
<1>1. /\ toServer' \in Seq(Cfg \cup {NoCfg})
      /\ Len(toServer) \in Nat /\ Len(toServer') = Len(toServer) + 1
      /\ \A i \in 1..Len(toServer) : toServer'[i] = toServer[i]
  BY SendType
<1>2. DOMAIN toServer' = 1..(Len(toServer) + 1) /\ DOMAIN toServer = 1..Len(toServer)
  BY <1>1 DEF TypeOK
<1>. QED
  BY <1>1, <1>2 DEF Awaited

\* The NewProxy that is sent will be answered.
LEMMA NewIsAwaited == ASSUME TypeOK, NEW m \in Cfg, Send(m) PROVE Awaited'
<1>1. /\ toServer' \in Seq(Cfg \cup {NoCfg}) /\ Len(toServer) \in Nat
      /\ Len(toServer') = Len(toServer) + 1 /\ toServer'[Len(toServer) + 1] = m
  BY SendType
<1>2. Len(toServer) + 1 \in DOMAIN toServer'
  BY <1>1
<1>. QED
  BY <1>1, <1>2, WrapperAssumption DEF Awaited

\* frps answers every NewProxy that it takes.
LEMMA ServeKeepsAwaited == ASSUME TypeOK, Awaited, Serve PROVE Awaited'
<1>1. /\ toServer \in Seq(Cfg \cup {NoCfg}) /\ toServer # <<>> /\ toServer' = Tail(toServer)
      /\ toClient \in Seq(BOOLEAN)
  BY DEF Serve, TypeOK
<1>2. /\ Len(toServer) \in Nat \ {0} /\ Len(toServer') = Len(toServer) - 1
      /\ Head(toServer) = toServer[1] /\ toServer' \in Seq(Cfg \cup {NoCfg})
      /\ \A i \in 1..Len(toServer') : toServer'[i] = toServer[i + 1]
  BY <1>1, TailType
<1>3. DOMAIN toServer = 1..Len(toServer) /\ DOMAIN toServer' = 1..Len(toServer')
  BY <1>1, <1>2
<1>4. CASE toServer[1] # NoCfg
  <2>1. Append(toClient, TRUE) # <<>> /\ Append(toClient, FALSE) # <<>>
    <3>1. TRUE \in BOOLEAN /\ FALSE \in BOOLEAN
      OBVIOUS
    <3>. QED
      BY <1>1, <3>1, AppendNotEmpty, Zenon
  <2>. QED
    BY <1>2, <1>4, <2>1 DEF Serve, Awaited
<1>5. CASE toServer[1] = NoCfg /\ toClient = <<>>
  <2>1. PICK i \in DOMAIN toServer : toServer[i] # NoCfg
    BY <1>5 DEF Awaited
  <2>2. i - 1 \in DOMAIN toServer' /\ toServer'[i - 1] = toServer[i]
    BY <1>2, <1>3, <1>5, <2>1
  <2>. QED
    BY <2>1, <2>2 DEF Awaited
<1>6. CASE toServer[1] = NoCfg /\ toClient # <<>>
  BY <1>2, <1>6 DEF Serve, Awaited
<1>. QED
  BY <1>4, <1>5, <1>6

LEMMA AnswerComesStep ==
  TypeOK /\ OnlyPresentActs /\ AnswerComes /\ [Next]_vars => AnswerComes'
<1> SUFFICES ASSUME TypeOK, OnlyPresentActs, AnswerComes, [Next]_vars,
                    NEW v \in Wrapper, phase'[v] = "wait start"
             PROVE  Awaited'
  BY DEF AnswerComes
<1>1. ASSUME NEW c \in Cfg \cup {NoCfg}, Reload(c) PROVE Awaited'
  <2>1. CASE proxies = NoWrapper
    <3>1. UNCHANGED <<phase, toServer, toClient>>
      BY <1>1, <2>1 DEF Reload
    <3>. QED
      BY <3>1 DEF AnswerComes, Awaited
  <2>2. CASE proxies # NoWrapper
    <3>1. phase'[v] = "closed" \/ phase[v] = phase'[v]
      BY <1>1, <2>2 DEF Reload, StopWrapper, TypeOK
    <3>2. Send(NoCfg) /\ UNCHANGED toClient
      BY <1>1, <2>2 DEF Reload, StopWrapper
    <3>. QED
      BY <3>1, <3>2, SentKeepsAwaited DEF AnswerComes
  <2>. QED
    BY <2>1, <2>2
<1>2. ASSUME NEW w \in Wrapper, CheckHealthy(w) PROVE Awaited'
  <2>1. CASE NeedsStart(w)
    <3>1. cfg[w] \in Cfg
      <4>1. worker[w] = "start"
        BY <1>2 DEF CheckHealthy
      <4>2. cfg[w] # NoCfg
        BY <4>1 DEF OnlyPresentActs
      <4>. QED
        BY <4>2 DEF TypeOK
    <3>. QED
      BY <1>2, <2>1, <3>1, NewIsAwaited DEF CheckHealthy
  <2>2. CASE ~NeedsStart(w)
    <3>1. UNCHANGED <<phase, toServer, toClient>>
      BY <1>2, <2>2 DEF CheckHealthy
    <3>. QED
      BY <3>1 DEF AnswerComes, Awaited
  <2>. QED
    BY <2>1, <2>2
<1>3. ASSUME NEW w \in Wrapper, CheckFailed(w) PROVE Awaited'
  <2>1. phase'[v] = "check failed" \/ phase[v] = phase'[v]
    BY <1>3 DEF CheckFailed, TypeOK
  <2>2. UNCHANGED toClient /\ (Send(NoCfg) \/ UNCHANGED toServer)
    BY <1>3 DEF CheckFailed
  <2>3. Awaited
    BY <2>1 DEF AnswerComes
  <2>. QED
    BY <2>2, <2>3, SentKeepsAwaited DEF Awaited
<1>4. CASE Serve
  <2>1. phase' = phase
    BY <1>4 DEF Serve
  <2>. QED
    BY <1>4, <2>1, ServeKeepsAwaited DEF AnswerComes
<1>5. CASE StartProxy
  <2>1. \A w \in Wrapper : w # proxies => phase[w] # "wait start"
    BY DEF OnlyPresentActs
  <2>2. phase'[v] # "wait start"
    BY <1>5, <2>1, NoWrapperFacts DEF StartProxy, SetRunningStatus, TypeOK
  <2>. QED
    BY <2>2
<1>6. ASSUME \/ ForceCloseProxy
             \/ \E w \in Wrapper :
                  \/ LoadHealth(w) \/ WaitNext(w) \/ Timeout(w) \/ MonitorExit(w)
                  \/ \E ok \in BOOLEAN : MonitorCheck(w, ok)
             \/ UNCHANGED vars
      PROVE  Awaited'
  <2>1. UNCHANGED <<phase, toServer, toClient>>
    BY <1>6 DEF ForceCloseProxy, LoadHealth, WaitNext, Timeout, MonitorExit, MonitorCheck,
                netVars, vars
  <2>. QED
    BY <2>1 DEF AnswerComes, Awaited
<1>. QED
  BY <1>1, <1>2, <1>3, <1>4, <1>5, <1>6 DEF Next, CheckWorker

LEMMA WorkerLivesStep ==
  TypeOK /\ OnlyPresentActs /\ WorkerLives /\ [Next]_vars => WorkerLives'
<1> SUFFICES ASSUME TypeOK, OnlyPresentActs, WorkerLives, [Next]_vars
             PROVE  WorkerLives'
  OBVIOUS
<1>1. ASSUME NEW c \in Cfg \cup {NoCfg}, Reload(c) PROVE WorkerLives'
  <2>1. /\ stopped' \in [Wrapper -> BOOLEAN]
        /\ \A w \in Wrapper : w # proxies => stopped'[w] = stopped[w]
        /\ \A w \in Wrapper : stopped[w] => stopped'[w]
    BY <1>1 DEF Reload, StopWrapper, TypeOK
  <2>2. CASE c = NoCfg
    BY <1>1, <2>1, <2>2 DEF Reload, WorkerLives, OnlyPresentActs, TypeOK
  <2>3. CASE c # NoCfg
    <3>1. PICK v \in Wrapper : StartWrapper(v, c)
      BY <2>3, <1>1 DEF Reload
    <3>2. /\ proxies' = v /\ cfg'[v] = c /\ worker'[v] = "check"
          /\ \A w \in Wrapper \ {v} : cfg'[w] = cfg[w] /\ worker'[w] = worker[w]
      BY <3>1 DEF StartWrapper, TypeOK
    <3>3. cfg[v] = NoCfg
      <4>1. ~(v < v)
        BY DEF Wrapper
      <4>. QED
        BY <3>1, <4>1 DEF StartWrapper
    <3>4. \A w \in Wrapper : cfg[w] = NoCfg => stopped'[w] = stopped[w] /\ ~stopped[w]
      BY <2>1, NoWrapperFacts DEF OnlyPresentActs, WorkerLives
    <3>5. \A w \in Wrapper : cfg'[w] = NoCfg => ~stopped'[w]
      BY <2>3, <3>2, <3>4
    <3>6. ASSUME NEW w \in Wrapper, cfg'[w] # NoCfg, ~stopped'[w]
          PROVE  worker'[w] # "none"
      BY <2>1, <3>2, <3>6 DEF WorkerLives
    <3>. QED
      BY <3>2, <3>3, <3>4, <3>5, <3>6 DEF WorkerLives
  <2>. QED
    BY <2>2, <2>3
<1>2. ASSUME NEW w \in Wrapper, CheckWorker(w) PROVE WorkerLives'
  <2>1. UNCHANGED <<proxies, cfg, stopped>>
    BY <1>2 DEF CheckWorker, LoadHealth, CheckHealthy, CheckFailed, WaitNext
  <2>2. \A v \in Wrapper : worker'[v] = "none" => worker[v] = "none" \/ stopped[v]
    BY <1>2 DEF CheckWorker, LoadHealth, CheckHealthy, CheckFailed, WaitNext, TypeOK
  <2>. QED
    BY <2>1, <2>2 DEF WorkerLives
<1>3. ASSUME \/ Serve \/ ForceCloseProxy \/ StartProxy
             \/ \E w \in Wrapper :
                  \/ Timeout(w) \/ MonitorExit(w)
                  \/ \E ok \in BOOLEAN : MonitorCheck(w, ok)
             \/ UNCHANGED vars
      PROVE  WorkerLives'
  <2>1. UNCHANGED <<proxies, cfg, stopped, worker>>
    BY <1>3 DEF Serve, ForceCloseProxy, StartProxy, Timeout, MonitorExit, MonitorCheck, vars
  <2>. QED
    BY <2>1 DEF WorkerLives
<1>. QED
  BY <1>1, <1>2, <1>3 DEF Next

LiveInv == TypeOK /\ OnlyPresentActs /\ NoStaleConfig /\ AnswerComes /\ WorkerLives

LEMMA AlwaysLiveInv == Spec => []LiveInv
<1>1. Init => OnlyPresentActs /\ AnswerComes /\ WorkerLives
  BY DEF Init, OnlyPresentActs, AnswerComes, WorkerLives
<1>. QED
  BY <1>1, TypeCorrect, OnlyPresentActsStep, NoStaleConfigHolds, AnswerComesStep,
     WorkerLivesStep, PTL DEF Spec, LiveInv

\* A removed proxy that is still registered, for w = NoWrapper, and a running
\* proxy w whose service is unhealthy: what frpc has yet to undo on frps.
Due(w) ==
  IF w = NoWrapper THEN proxies = NoWrapper /\ registered # NoCfg
  ELSE phase[w] = "running" /\ ~health[w]

\* What has to happen before: the messages under way, two steps for one to frps
\* since it may be answered, and the rounds of checkWorker until it withdraws.
UnderWay == 2 * Len(toServer) + Len(toClient)
Rounds(w) ==
  IF w = NoWrapper THEN 0
  ELSE IF worker[w] = "start" THEN 3 ELSE IF worker[w] = "wait" THEN 2
  ELSE IF worker[w] = "check" THEN 1 ELSE 0
Left(w) == UnderWay + Rounds(w)

Same(w) ==
  /\ UNCHANGED <<toServer, toClient>>
  /\ w \in Wrapper => worker'[w] = worker[w]

LEMMA LeftType ==
  ASSUME TypeOK, NEW w
  PROVE  UnderWay \in Nat /\ Rounds(w) \in Nat /\ Left(w) \in Nat
<1>1. UnderWay \in Nat
  <2>1. toServer \in Seq(Cfg \cup {NoCfg}) /\ toClient \in Seq(BOOLEAN)
    BY DEF TypeOK
  <2>2. Len(toServer) \in Nat /\ Len(toClient) \in Nat
    BY <2>1
  <2>. QED
    BY <2>2 DEF UnderWay
<1>2. Rounds(w) \in Nat
  BY DEF Rounds
<1>. QED
  BY <1>1, <1>2 DEF Left

\* What is under way gets less when frps or frpc takes a message and sends none
\* of its own accord, and the rounds when checkWorker goes on.
LEMMA ServeFlow == ASSUME TypeOK, Serve PROVE UnderWay' < UnderWay
<1> DEFINE s == Len(toServer')
           c == Len(toClient')
           u == UnderWay'
<1>1. Len(toServer) \in Nat /\ s \in Nat /\ s = Len(toServer) - 1
  <2>1. toServer \in Seq(Cfg \cup {NoCfg}) /\ toServer # <<>> /\ toServer' = Tail(toServer)
    BY DEF Serve, TypeOK
  <2>. QED
    BY <2>1
<1>2. Len(toClient) \in Nat /\ (c = Len(toClient) \/ c = Len(toClient) + 1)
  <2>1. toClient \in Seq(BOOLEAN) /\ TRUE \in BOOLEAN /\ FALSE \in BOOLEAN
    BY DEF TypeOK
  <2>2. /\ Len(Append(toClient, TRUE)) = Len(toClient) + 1
        /\ Len(Append(toClient, FALSE)) = Len(toClient) + 1
    BY <2>1, AppendType, Zenon
  <2>3. toClient' \in {toClient, Append(toClient, TRUE), Append(toClient, FALSE)}
    BY DEF Serve
  <2>4. Len(toClient) \in Nat
    BY <2>1
  <2>. QED
    BY <2>2, <2>3, <2>4
<1>3. u = 2 * s + c
  BY DEF UnderWay
<1> HIDE DEF s, c, u
<1>4. c \in Nat /\ u < UnderWay
  BY <1>1, <1>2, <1>3 DEF UnderWay
<1>. QED
  BY <1>4 DEF u

LEMMA AnswerFlow ==
  ASSUME TypeOK, StartProxy, UNCHANGED toServer PROVE UnderWay' < UnderWay
<1> DEFINE c == Len(toClient')
           u == UnderWay'
<1>1. Len(toClient) \in Nat /\ c \in Nat /\ c = Len(toClient) - 1 /\ Len(toServer) \in Nat
  <2>1. toClient \in Seq(BOOLEAN) /\ toClient # <<>> /\ toClient' = Tail(toClient)
        /\ toServer \in Seq(Cfg \cup {NoCfg})
    BY DEF StartProxy, TypeOK
  <2>. QED
    BY <2>1
<1>2. u = 2 * Len(toServer) + c
  BY DEF UnderWay
<1> HIDE DEF c, u
<1>3. u < UnderWay
  BY <1>1, <1>2 DEF UnderWay
<1>. QED
  BY <1>3 DEF u

LeftOK == \A v : UnderWay \in Nat /\ Rounds(v) \in Nat

LEMMA LeftTypeNext == TypeOK' => LeftOK'
<1>1. TypeOK => LeftOK
  BY LeftType DEF LeftOK
<1>. QED
  BY <1>1, PTL

\* Less under way is less left, and so is a round less.
LEMMA LeftFalls ==
  ASSUME TypeOK, TypeOK', NEW w \in Wrapper \cup {NoWrapper}
  PROVE  /\ UnderWay' < UnderWay /\ Rounds(w)' = Rounds(w) => Left(w)' < Left(w)
         /\ UnderWay' = UnderWay /\ Rounds(w)' < Rounds(w) => Left(w)' < Left(w)
         /\ Left(w)' \in Nat
<1> DEFINE u == UnderWay'
           r == Rounds(w)'
           l == Left(w)'
<1>1. UnderWay \in Nat /\ Rounds(w) \in Nat
  BY LeftType
<1>4. u \in Nat /\ r \in Nat /\ l = u + r
  BY LeftTypeNext DEF Left, LeftOK
<1> HIDE DEF u, r, l
<1>5. /\ u < UnderWay /\ r = Rounds(w) => l < Left(w)
      /\ u = UnderWay /\ r < Rounds(w) => l < Left(w)
      /\ l \in Nat
  BY <1>1, <1>4 DEF Left
<1>. QED
  BY <1>5 DEF u, r, l

\* A wrapper that is not the present one sends nothing.
LEMMA ReplacedIsSilent ==
  ASSUME LiveInv, NEW v \in Wrapper, v # proxies, CheckWorker(v)
  PROVE  UNCHANGED <<toServer, toClient>>
<1>1. phase[v] \notin {"wait start", "check failed", "running"}
  BY DEF LiveInv, OnlyPresentActs
<1>2. phase[v] = "new" => worker[v] = "none"
  BY DEF LiveInv, OnlyPresentActs
<1>3. CASE LoadHealth(v) \/ WaitNext(v)
  BY <1>3 DEF LoadHealth, WaitNext, netVars
<1>4. CASE CheckHealthy(v)
  <2>1. worker[v] = "start"
    BY <1>4 DEF CheckHealthy
  <2>2. ~NeedsStart(v)
    BY <1>1, <1>2, <2>1 DEF NeedsStart
  <2>. QED
    BY <1>4, <2>2 DEF CheckHealthy
<1>5. CASE CheckFailed(v)
  BY <1>5, <1>1 DEF CheckFailed
<1>. QED
  BY <1>3, <1>4, <1>5 DEF CheckWorker

\* checkWorker of the running proxy gets on to the withdrawal or makes it.
LEMMA WorkerGetsOn ==
  ASSUME LiveInv, LiveInv', NEW w \in Wrapper, Due(w), CheckWorker(w)
  PROVE  ~Due(w)' \/ Left(w)' < Left(w)
<1>0. TypeOK /\ TypeOK' /\ w # NoWrapper /\ w \in Wrapper \cup {NoWrapper}
  BY NoWrapperFacts DEF LiveInv
<1>1. phase[w] = "running" /\ ~health[w]
  BY <1>0 DEF Due
<1>2. ~stopped[w]
  <2>1. w = proxies
    BY <1>1 DEF LiveInv, OnlyPresentActs
  <2>. QED
    BY <1>0, <2>1 DEF LiveInv, WorkerLives
<1>3. CASE LoadHealth(w)
  <2>1. worker[w] = "check" /\ worker'[w] = "withdraw" /\ UNCHANGED <<toServer, toClient>>
    BY <1>0, <1>1, <1>3 DEF LoadHealth, netVars, TypeOK
  <2>2. UnderWay' = UnderWay /\ Rounds(w)' < Rounds(w)
    BY <1>0, <2>1 DEF UnderWay, Rounds
  <2>. QED
    BY <1>0, <2>2, LeftFalls
<1>4. CASE CheckHealthy(w)
  <2>1. ~NeedsStart(w)
    BY <1>1 DEF NeedsStart
  <2>2. worker[w] = "start" /\ worker'[w] = "wait" /\ UNCHANGED <<toServer, toClient>>
    BY <1>0, <1>4, <2>1 DEF CheckHealthy, TypeOK
  <2>3. UnderWay' = UnderWay /\ Rounds(w)' < Rounds(w)
    BY <1>0, <2>2 DEF UnderWay, Rounds
  <2>. QED
    BY <1>0, <2>3, LeftFalls
<1>5. CASE CheckFailed(w)
  <2>1. phase' = [phase EXCEPT ![w] = "check failed"]
    BY <1>1, <1>5 DEF CheckFailed
  <2>2. phase'[w] = "check failed"
    BY <1>0, <2>1 DEF TypeOK
  <2>. QED
    BY <1>0, <2>2 DEF Due
<1>6. CASE WaitNext(w)
  <2>1. worker[w] = "wait" /\ worker'[w] = "check" /\ UNCHANGED <<toServer, toClient>>
    BY <1>0, <1>2, <1>6 DEF WaitNext, netVars, TypeOK
  <2>2. UnderWay' = UnderWay /\ Rounds(w)' < Rounds(w)
    BY <1>0, <2>1 DEF UnderWay, Rounds
  <2>. QED
    BY <1>0, <2>2, LeftFalls
<1>. QED
  BY <1>3, <1>4, <1>5, <1>6 DEF CheckWorker

\* frps and the reader of frpc get on too: no answer makes frpc send anything
\* while a withdrawal is due.
LEMMA MessagesGetOn ==
  ASSUME LiveInv, LiveInv', NEW w \in Wrapper \cup {NoWrapper}, Due(w), Serve \/ StartProxy
  PROVE  Left(w)' < Left(w)
<1>0. TypeOK /\ TypeOK'
  BY DEF LiveInv
<1>1. worker' = worker
  BY DEF Serve, StartProxy
<1>2. UnderWay' < UnderWay
  <2>1. CASE Serve
    BY <1>0, <2>1, ServeFlow
  <2>2. CASE StartProxy
    <3>1. proxies = NoWrapper \/ phase[proxies] # "wait start"
      <4>1. CASE w = NoWrapper
        BY <4>1 DEF Due
      <4>2. CASE w # NoWrapper
        <5>1. w \in Wrapper /\ phase[w] = "running"
          BY <4>2 DEF Due
        <5>2. w = proxies
          BY <5>1 DEF LiveInv, OnlyPresentActs
        <5>. QED
          BY <5>1, <5>2
      <4>. QED
        BY <4>1, <4>2
    <3>2. UNCHANGED toServer
      BY <2>2, <3>1 DEF StartProxy, SetRunningStatus
    <3>. QED
      BY <1>0, <2>2, <3>2, AnswerFlow
  <2>. QED
    BY <2>1, <2>2
<1>3. Rounds(w)' = Rounds(w)
  BY <1>1 DEF Rounds
<1>. QED
  BY <1>0, <1>2, <1>3, LeftFalls

\* Every step does what is due, leaves less to do first or is of no account.
LEMMA DueStep ==
  ASSUME LiveInv, LiveInv', [Next]_vars, NEW w \in Wrapper \cup {NoWrapper}, Due(w)
  PROVE  ~Due(w)' \/ Left(w)' < Left(w) \/ Same(w)
<1>0. TypeOK
  BY DEF LiveInv
<1>1. ASSUME NEW c \in Cfg \cup {NoCfg}, Reload(c) PROVE ~Due(w)'
  <2>1. CASE w = NoWrapper
    <3>1. proxies = NoWrapper
      BY <2>1 DEF Due
    <3>2. \E v \in Wrapper : proxies' = v
      BY <1>1, <3>1 DEF Reload, StartWrapper
    <3>. QED
      BY <2>1, <3>2, NoWrapperFacts DEF Due
  <2>2. CASE w # NoWrapper
    <3>1. w \in Wrapper /\ phase[w] = "running"
      BY <2>2 DEF Due
    <3>2. w = proxies
      BY <3>1 DEF LiveInv, OnlyPresentActs
    <3>3. phase'[w] = "closed"
      BY <1>0, <1>1, <2>2, <3>1, <3>2 DEF Reload, StopWrapper, TypeOK
    <3>. QED
      BY <2>2, <3>3 DEF Due
  <2>. QED
    BY <2>1, <2>2
<1>2. ASSUME NEW v \in Wrapper, CheckWorker(v) PROVE ~Due(w)' \/ Left(w)' < Left(w) \/ Same(w)
  <2>1. CASE v = w
    BY <1>2, <2>1, WorkerGetsOn
  <2>2. CASE v # w
    <3>1. v # proxies
      <4>1. CASE w = NoWrapper
        BY <4>1, NoWrapperFacts DEF Due
      <4>2. CASE w # NoWrapper
        <5>1. w \in Wrapper /\ phase[w] = "running"
          BY <4>2 DEF Due
        <5>. QED
          BY <2>2, <5>1 DEF LiveInv, OnlyPresentActs
      <4>. QED
        BY <4>1, <4>2
    <3>2. UNCHANGED <<toServer, toClient>>
      BY <1>2, <3>1, ReplacedIsSilent
    <3>3. w \in Wrapper => worker'[w] = worker[w]
      BY <1>0, <1>2, <2>2
      DEF CheckWorker, LoadHealth, CheckHealthy, CheckFailed, WaitNext, TypeOK
    <3>. QED
      BY <3>2, <3>3 DEF Same
  <2>. QED
    BY <2>1, <2>2
<1>3. CASE Serve \/ StartProxy
  BY <1>3, MessagesGetOn
<1>4. ASSUME \/ ForceCloseProxy
             \/ \E v \in Wrapper :
                  \/ Timeout(v) \/ MonitorExit(v)
                  \/ \E ok \in BOOLEAN : MonitorCheck(v, ok)
             \/ UNCHANGED vars
      PROVE  Same(w)
  BY <1>4 DEF ForceCloseProxy, Timeout, MonitorExit, MonitorCheck, netVars, vars, Same
<1>. QED
  BY <1>1, <1>2, <1>3, <1>4 DEF Next

\* Something that brings it nearer can always be done: frpc takes an answer, or
\* frps a message, or checkWorker of the wrapper goes on.
Mine(w) ==
  /\ w \in Wrapper
  /\ \/ worker[w] \in {"check", "wait", "start"}
     \/ worker[w] = "withdraw" /\ Len(toServer) < QueueCap

LEMMA DueIsHelped ==
  ASSUME LiveInv, NEW w \in Wrapper \cup {NoWrapper}, Due(w)
  PROVE  /\ AnswerReady \/ ServeReady \/ Mine(w)
         /\ Mine(w) => WorkerReady(w)
<1>0. TypeOK
  BY DEF LiveInv
<1>1. AnswerReady \/ ServeReady \/ toServer = <<>>
  <2>1. Len(<<>>) = 0 /\ 0 < QueueCap
    BY WrapperAssumption
  <2>. QED
    BY <2>1 DEF AnswerReady, ServeReady
<1>2. CASE w = NoWrapper
  <2>1. ~Surviving(0)
    BY <1>2 DEF LiveInv, NoStaleConfig, Due
  <2>2. toServer # <<>>
    BY <2>1 DEF Surviving
  <2>. QED
    BY <1>1, <1>2, <2>2, NoWrapperFacts DEF Mine
<1>3. CASE w # NoWrapper
  <2>1. w \in Wrapper /\ phase[w] = "running"
    BY <1>3 DEF Due
  <2>2. ~NeedsStart(w)
    BY <2>1 DEF NeedsStart
  <2>3. w = proxies /\ cfg[w] # NoCfg
    BY <2>1, <1>3 DEF LiveInv, OnlyPresentActs
  <2>4. worker[w] # "none"
    BY <1>3, <2>1, <2>3 DEF LiveInv, WorkerLives
  <2>5. worker[w] \in {"none", "check", "start", "withdraw", "wait"}
    BY <1>0, <2>1 DEF TypeOK
  <2>6. toServer = <<>> => Len(toServer) < QueueCap
    BY WrapperAssumption
  <2>7. Mine(w) \/ toServer # <<>>
    BY <2>1, <2>4, <2>5, <2>6 DEF Mine
  <2>8. Mine(w) => WorkerReady(w)
    BY <2>2 DEF Mine, WorkerReady
  <2>. QED
    BY <1>1, <2>7, <2>8
<1>. QED
  BY <1>2, <1>3

\* What is due is done or comes nearer; at some time it is done or k is left; at
\* some time less than k is left.
Drops(w, k) == (Due(w) /\ Left(w) = k) => <>(~Due(w) \/ Left(w) < k)
Reaches(w, k) == <>(~Due(w) \/ Left(w) = k)
Sinks(w, k) == <>(Left(w) \in Nat /\ Left(w) < k)
AllDrop(w) == \A k \in Nat : Drops(w, k)

\* Among the numbers that Left(w) still comes to there is a least one.
\* This holds of every behaviour, since natural numbers are well founded; but
\* Reaches is a temporal formula, so no set or function of TLA+, and no theorem of
\* the library, ranges over the numbers of which it holds.
LeastReached(w) ==
  (\E k \in Nat : Reaches(w, k))
    => \E k \in Nat : Reaches(w, k) /\ \A m \in Nat : m < k => ~Reaches(w, m)

LeastNumbers == \A w \in Wrapper \cup {NoWrapper} : []LeastReached(w)

LEMMA DueDrops ==
  ASSUME NEW w \in Wrapper \cup {NoWrapper}, NEW k \in Nat
  PROVE  FairSpec /\ []GuardsEnable => []Drops(w, k)
<1> DEFINE Now == Due(w) /\ Left(w) = k
           Then == ~Due(w) \/ Left(w) < k
<1>1. LiveInv /\ LiveInv' /\ Now /\ [Next]_vars => Then' \/ (Now' /\ Same(w))
  <2> SUFFICES ASSUME LiveInv, LiveInv', Now, [Next]_vars, Due(w)'
               PROVE  Left(w)' < k \/ (Left(w)' = k /\ Same(w))
    OBVIOUS
  <2>1. Left(w)' < Left(w) \/ Same(w)
    BY DueStep
  <2>2. Same(w) => Left(w)' = Left(w)
    BY DEF Same, Left, UnderWay, Rounds
  <2>. QED
    BY <2>1, <2>2
<1>2. /\ Same(w) /\ AnswerReady => AnswerReady'
      /\ Same(w) /\ ServeReady => ServeReady'
      /\ Same(w) /\ Mine(w) => Mine(w)'
  BY DEF Same, AnswerReady, ServeReady, Mine
<1>3. LiveInv /\ LiveInv' /\ Now /\ (Serve \/ StartProxy) => Then'
  BY MessagesGetOn
<1>4. LiveInv /\ LiveInv' /\ Now /\ Mine(w) /\ CheckWorker(w) => Then'
  <2>1. Mine(w) => w \in Wrapper
    BY DEF Mine
  <2>. QED
    BY <2>1, WorkerGetsOn
<1>5. LiveInv /\ Now => AnswerReady \/ ServeReady \/ Mine(w)
  BY DueIsHelped
<1>6. LiveInv /\ Now /\ Mine(w) /\ GuardsEnable => ENABLED <<CheckWorker(w)>>_vars
  <2>1. Mine(w) => w \in Wrapper
    BY DEF Mine
  <2>2. LiveInv /\ Now /\ Mine(w) => WorkerReady(w)
    BY DueIsHelped
  <2>. QED
    BY <2>1, <2>2 DEF GuardsEnable
<1>7. GuardsEnable => /\ AnswerReady => ENABLED <<StartProxy>>_vars
                      /\ ServeReady => ENABLED <<Serve>>_vars
  BY DEF GuardsEnable
<1>8. FairSpec => [][Next]_vars /\ []LiveInv /\ FairServe /\ FairAnswer
  BY AlwaysLiveInv, PTL DEF FairSpec, Spec, Fairness
<1> HIDE DEF Now, Then
<1>9. FairSpec /\ []GuardsEnable => [](Now /\ AnswerReady => <>Then)
  BY <1>1, <1>2, <1>3, <1>7, <1>8, PTL DEF FairAnswer
<1>10. FairSpec /\ []GuardsEnable => [](Now /\ ServeReady => <>Then)
  BY <1>1, <1>2, <1>3, <1>7, <1>8, PTL DEF FairServe
<1>11. FairSpec /\ []GuardsEnable => [](Now /\ Mine(w) => <>Then)
  <2>1. CASE w \in Wrapper
    <3>1. FairSpec => FairWorker(w)
      BY <2>1 DEF FairSpec, Fairness
    <3>. QED
      BY <1>1, <1>2, <1>4, <1>6, <1>8, <3>1, PTL DEF FairWorker
  <2>2. CASE w \notin Wrapper
    <3>1. ~Mine(w)
      BY <2>2 DEF Mine
    <3>. QED
      BY <3>1, PTL
  <2>. QED
    BY <2>1, <2>2
<1>12. FairSpec /\ []GuardsEnable => [](Now => <>Then)
  BY <1>5, <1>8, <1>9, <1>10, <1>11, PTL
<1>. QED
  BY <1>12 DEF Drops, Now, Then

LEMMA DueEnds ==
  ASSUME NEW w \in Wrapper \cup {NoWrapper}
  PROVE  FairSpec /\ []GuardsEnable /\ LeastNumbers => []<>~Due(w)
<1> DEFINE G == [](Left(w) \in Nat) /\ []AllDrop(w)
<1>0. FairSpec /\ []GuardsEnable => G
  <2>1. FairSpec => [](Left(w) \in Nat)
    <3>1. LiveInv => Left(w) \in Nat
      BY LeftType DEF LiveInv
    <3>. QED
      BY <3>1, AlwaysLiveInv, PTL DEF FairSpec
  <2>2. FairSpec /\ []GuardsEnable => \A k \in Nat : []Drops(w, k)
    BY DueDrops
  <2>3. (\A k \in Nat : []Drops(w, k)) => []AllDrop(w)
    BY DEF AllDrop
  <2>. QED
    BY <2>1, <2>2, <2>3
<1>1. ASSUME NEW k \in Nat
      PROVE  G /\ Reaches(w, k) => <>~Due(w) \/ Sinks(w, k)
  <2>1. AllDrop(w) => Drops(w, k)
    BY DEF AllDrop
  <2>2. G => []Drops(w, k)
    BY <2>1, PTL
  <2>3. [](Left(w) \in Nat) /\ []Drops(w, k) /\ Reaches(w, k) => <>~Due(w) \/ Sinks(w, k)
    BY PTL DEF Drops, Reaches, Sinks
  <2>. QED
    BY <2>2, <2>3
<1>2. ASSUME NEW k \in Nat
      PROVE  G /\ Reaches(w, k) => k = 0 \/ \E m \in Nat : m < k /\ Reaches(w, m)
  <2>1. <>~Due(w) => Reaches(w, 0)
    BY PTL DEF Reaches
  <2>2. Left(w) \in Nat /\ Left(w) < k => \E m \in 0..(k - 1) : Left(w) = m
    OBVIOUS
  <2>3. Sinks(w, k) => <>(\E m \in 0..(k - 1) : Left(w) = m)
    BY <2>2, PTL DEF Sinks
  <2>4. <>(\E m \in 0..(k - 1) : Left(w) = m) => \E m \in 0..(k - 1) : <>(Left(w) = m)
    OBVIOUS
  <2>5. ASSUME NEW m \in 0..(k - 1) PROVE <>(Left(w) = m) => Reaches(w, m)
    BY PTL DEF Reaches
  <2>6. Sinks(w, k) => \E m \in 0..(k - 1) : Reaches(w, m)
    BY <2>3, <2>4, <2>5
  <2>. QED
    BY <1>1, <2>1, <2>6
<1>3. G => \E k \in Nat : Reaches(w, k)
  <2>1. ASSUME NEW k \in Nat PROVE Left(w) = k => Reaches(w, k)
    BY PTL DEF Reaches
  <2>2. G => Left(w) \in Nat
    BY PTL
  <2>. QED
    BY <2>1, <2>2
<1>4. G /\ LeastReached(w) => Reaches(w, 0)
  BY <1>2, <1>3 DEF LeastReached
<1>5. G /\ LeastReached(w) => <>~Due(w)
  <2>1. ~(Left(w) \in Nat /\ Left(w) < 0)
    OBVIOUS
  <2>2. G /\ Reaches(w, 0) => <>~Due(w) \/ Sinks(w, 0)
    BY <1>1
  <2>. QED
    BY <1>4, <2>1, <2>2, PTL DEF Sinks
<1>6. G /\ []LeastReached(w) => []<>~Due(w)
  BY <1>5, PTL
<1>. QED
  BY <1>0, <1>6 DEF LeastNumbers

\* A removed proxy is gone from frps in the end, or configured again, whatever
\* was under way and with queues of any length.
THEOREM RemovedIsGoneHolds == FairSpec /\ []GuardsEnable /\ LeastNumbers => RemovedIsGone
<1> DEFINE P == registered = NoCfg \/ proxies # NoWrapper
           Q == proxies = NoWrapper
<1>1. ASSUME NEW w \in Wrapper \cup {NoWrapper}, w = NoWrapper
      PROVE  FairSpec /\ []GuardsEnable /\ LeastNumbers => RemovedIsGone
  <2>1. ~Due(w) => P
    BY <1>1 DEF Due
  <2>2. FairSpec /\ []GuardsEnable /\ LeastNumbers => []<>~Due(w)
    BY DueEnds
  <2> HIDE DEF P, Q
  <2>3. FairSpec /\ []GuardsEnable /\ LeastNumbers => (Q ~> P)
    BY <2>1, <2>2, PTL
  <2>. QED
    BY <2>3 DEF P, Q, RemovedIsGone
<1>. QED
  BY <1>1

\* An unhealthy proxy does not stay up: it is withdrawn or replaced, or its
\* service recovers, although the flag is read before the lock is taken and the
\* withdrawal may wait for room in the queue.
THEOREM UnhealthyWithdrawnHolds == FairSpec /\ []GuardsEnable /\ LeastNumbers => UnhealthyWithdrawn
<1> SUFFICES ASSUME NEW w \in Wrapper
             PROVE  FairSpec /\ []GuardsEnable /\ LeastNumbers
                      => (phase[w] = "running" /\ ~health[w] ~> (phase[w] # "running" \/ health[w]))
  BY DEF UnhealthyWithdrawn
<1> DEFINE P == phase[w] # "running" \/ health[w]
           Q == phase[w] = "running" /\ ~health[w]
<1>1. ~Due(w) => P
  BY NoWrapperFacts DEF Due
<1>2. FairSpec /\ []GuardsEnable /\ LeastNumbers => []<>~Due(w)
  BY DueEnds
<1> HIDE DEF P, Q
<1>3. FairSpec /\ []GuardsEnable /\ LeastNumbers => (Q ~> P)
  BY <1>1, <1>2, PTL
<1>. QED
  BY <1>3 DEF P, Q

\* The wrapper waits and no answer is on its way back yet; a NewProxy is the
\* k-th message to frps; one is nearer than the k-th.
Answered(w) == phase[w] # "wait start" \/ toClient # <<>>
Ahead(k) == k \in DOMAIN toServer /\ toServer[k] # NoCfg
Nearer(k) == \E m \in 0..(k - 1) : Ahead(m)

LEMMA AheadStays ==
  ASSUME TypeOK, NEW k \in Nat, Ahead(k), NEW m \in Cfg \cup {NoCfg}, Send(m)
  PROVE  Ahead(k)'
<1>1. /\ toServer' \in Seq(Cfg \cup {NoCfg})
      /\ Len(toServer) \in Nat /\ Len(toServer') = Len(toServer) + 1
      /\ \A i \in 1..Len(toServer) : toServer'[i] = toServer[i]
  BY SendType
<1>2. DOMAIN toServer' = 1..(Len(toServer) + 1) /\ DOMAIN toServer = 1..Len(toServer)
  BY <1>1 DEF TypeOK
<1>. QED
  BY <1>1, <1>2 DEF Ahead

\* frps answers the NewProxy or moves it up.
LEMMA ServeMovesUp ==
  ASSUME TypeOK, NEW k \in Nat, Ahead(k), Serve
  PROVE  toClient' # <<>> \/ Nearer(k)'
<1>1. /\ toServer \in Seq(Cfg \cup {NoCfg}) /\ toServer # <<>> /\ toServer' = Tail(toServer)
      /\ toClient \in Seq(BOOLEAN) /\ TRUE \in BOOLEAN /\ FALSE \in BOOLEAN
  BY DEF Serve, TypeOK
<1>2. /\ Len(toServer) \in Nat \ {0} /\ Len(toServer') = Len(toServer) - 1
      /\ Head(toServer) = toServer[1] /\ toServer' \in Seq(Cfg \cup {NoCfg})
      /\ \A i \in 1..Len(toServer') : toServer'[i] = toServer[i + 1]
  BY <1>1, TailType
<1>3. DOMAIN toServer = 1..Len(toServer) /\ DOMAIN toServer' = 1..Len(toServer')
  BY <1>1, <1>2
<1>4. CASE k = 1
  <2>1. Append(toClient, TRUE) # <<>> /\ Append(toClient, FALSE) # <<>>
    BY <1>1, AppendNotEmpty, Zenon
  <2>2. Head(toServer) # NoCfg
    BY <1>2, <1>4 DEF Ahead
  <2>. QED
    BY <2>1, <2>2 DEF Serve
<1>5. CASE k # 1
  <2>1. k - 1 \in DOMAIN toServer' /\ toServer'[k - 1] = toServer[k] /\ k - 1 \in 0..(k - 1)
    BY <1>2, <1>3, <1>5 DEF Ahead
  <2>2. Ahead(k - 1)'
    BY <2>1 DEF Ahead
  <2>. QED
    BY <2>1, <2>2 DEF Nearer
<1>. QED
  BY <1>4, <1>5

\* The answer ends the waiting, whichever NewProxy it was for.
LEMMA AnswerEndsWait ==
  ASSUME LiveInv, NEW w \in Wrapper, StartProxy
  PROVE  phase'[w] # "wait start"
<1>1. \A v \in Wrapper : v # proxies => phase[v] # "wait start"
  BY DEF LiveInv, OnlyPresentActs
<1>2. TypeOK
  BY DEF LiveInv
<1>. QED
  BY <1>1, <1>2, NoWrapperFacts DEF StartProxy, SetRunningStatus, TypeOK

\* Nothing but StartProxy takes an answer, nothing but frps a NewProxy.
LEMMA WaitStep ==
  ASSUME LiveInv, NEW w \in Wrapper, [Next]_vars
  PROVE  /\ toClient # <<>> => phase'[w] # "wait start" \/ toClient' # <<>>
         /\ \A k \in Nat : Ahead(k) => phase'[w] # "wait start" \/ Answered(w)'
                                       \/ Ahead(k)' \/ Nearer(k)'
<1>0. TypeOK
  BY DEF LiveInv
<1>1. CASE StartProxy
  BY <1>1, AnswerEndsWait
<1>2. CASE Serve
  <2>1. toClient # <<>> => toClient' # <<>>
    <3>1. toClient \in Seq(BOOLEAN) /\ TRUE \in BOOLEAN /\ FALSE \in BOOLEAN
      BY <1>0 DEF TypeOK
    <3>2. Append(toClient, TRUE) # <<>> /\ Append(toClient, FALSE) # <<>>
      BY <3>1, AppendNotEmpty, Zenon
    <3>. QED
      BY <1>2, <3>2 DEF Serve
  <2>2. \A k \in Nat : Ahead(k) => toClient' # <<>> \/ Nearer(k)'
    BY <1>0, <1>2, ServeMovesUp
  <2>. QED
    BY <2>1, <2>2 DEF Answered
<1>3. CASE ~StartProxy /\ ~Serve
  <2>1. UNCHANGED toClient /\ (UNCHANGED toServer \/ \E m \in Cfg \cup {NoCfg} : Send(m))
    <3>1. ASSUME NEW c \in Cfg \cup {NoCfg}, Reload(c)
          PROVE  UNCHANGED toClient /\ (UNCHANGED toServer \/ Send(NoCfg))
      BY <3>1 DEF Reload, StopWrapper
    <3>2. ASSUME NEW v \in Wrapper, CheckWorker(v)
          PROVE  UNCHANGED toClient /\ (UNCHANGED toServer \/ Send(cfg[v]) \/ Send(NoCfg))
      BY <3>2 DEF CheckWorker, LoadHealth, CheckHealthy, CheckFailed, WaitNext, netVars
    <3>3. ASSUME \/ ForceCloseProxy
                 \/ \E v \in Wrapper :
                      \/ Timeout(v) \/ MonitorExit(v)
                      \/ \E ok \in BOOLEAN : MonitorCheck(v, ok)
                 \/ UNCHANGED vars
          PROVE  UNCHANGED <<toClient, toServer>>
      BY <3>3 DEF ForceCloseProxy, Timeout, MonitorExit, MonitorCheck, netVars, vars
    <3>4. \A v \in Wrapper : cfg[v] \in Cfg \cup {NoCfg}
      BY <1>0 DEF TypeOK
    <3>. QED
      BY <1>3, <3>1, <3>2, <3>3, <3>4 DEF Next
  <2>2. \A k \in Nat : Ahead(k) => Ahead(k)'
    <3>1. CASE UNCHANGED toServer
      BY <3>1 DEF Ahead
    <3>2. ASSUME NEW m \in Cfg \cup {NoCfg}, Send(m)
          PROVE  \A k \in Nat : Ahead(k) => Ahead(k)'
      BY <1>0, <3>2, AheadStays
    <3>. QED
      BY <2>1, <3>1, <3>2
  <2>. QED
    BY <2>1, <2>2
<1>. QED
  BY <1>1, <1>2, <1>3

\* The NewProxy moves up or is answered; at some time it is answered or one is
\* the k-th; at some time one is nearer.
Moves(w, k) == (~Answered(w) /\ Ahead(k)) => <>(Answered(w) \/ Nearer(k))
ComesTo(w, k) == <>(Answered(w) \/ Ahead(k))
ComesNear(k) == <>Nearer(k)
AllMove(w) == \A k \in Nat : Moves(w, k)

\* Among the places that ComesTo holds of there is a first one, which is true of
\* every behaviour for the same reason.
LeastPlace(w) ==
  (\E k \in Nat : ComesTo(w, k))
    => \E k \in Nat : ComesTo(w, k) /\ \A m \in Nat : m < k => ~ComesTo(w, m)

LeastPlaces == \A w \in Wrapper : []LeastPlace(w)

LEMMA WaitMoves ==
  ASSUME NEW w \in Wrapper, NEW k \in Nat
  PROVE  FairSpec /\ []GuardsEnable => []Moves(w, k)
<1>1. LiveInv /\ ~Answered(w) /\ Ahead(k) /\ [Next]_vars => Answered(w)' \/ Ahead(k)' \/ Nearer(k)'
  BY WaitStep DEF Answered
<1>2. LiveInv /\ ~Answered(w) /\ Ahead(k) /\ <<Serve>>_vars => Answered(w)' \/ Nearer(k)'
  BY ServeMovesUp DEF LiveInv, Answered
<1>3. LiveInv /\ ~Answered(w) /\ Ahead(k) /\ GuardsEnable => ENABLED <<Serve>>_vars
  <2>1. Len(<<>>) < QueueCap
    BY WrapperAssumption
  <2>2. Ahead(k) => toServer # <<>>
    BY DEF Ahead
  <2>3. ~Answered(w) => toClient = <<>>
    BY DEF Answered
  <2>. QED
    BY <2>1, <2>2, <2>3 DEF ServeReady, GuardsEnable
<1>4. FairSpec => [][Next]_vars /\ []LiveInv /\ FairServe
  BY AlwaysLiveInv, PTL DEF FairSpec, Spec, Fairness
<1>. QED
  BY <1>1, <1>2, <1>3, <1>4, PTL DEF FairServe, Moves

\* A proxy that waits for frps stops waiting, with any number of NewProxy and
\* CloseProxy messages before its own and of answers to earlier ones.
THEOREM WaitStartEndsHolds == FairSpec /\ []GuardsEnable /\ LeastPlaces => WaitStartEnds
<1> SUFFICES ASSUME NEW w \in Wrapper
             PROVE  FairSpec /\ []GuardsEnable /\ LeastPlaces
                      => (phase[w] = "wait start" ~> phase[w] # "wait start")
  BY DEF WaitStartEnds
<1> DEFINE Waits == phase[w] = "wait start"
           Over == phase[w] # "wait start"
           Got == toClient # <<>>
           G == []LiveInv /\ []AllMove(w) /\ []LeastPlace(w)
<1>0. FairSpec /\ []GuardsEnable /\ LeastPlaces => G
  <2>1. FairSpec /\ []GuardsEnable => \A k \in Nat : []Moves(w, k)
    BY WaitMoves
  <2>2. (\A k \in Nat : []Moves(w, k)) => []AllMove(w)
    BY DEF AllMove
  <2>3. FairSpec => []LiveInv
    BY AlwaysLiveInv, PTL DEF FairSpec
  <2>. QED
    BY <2>1, <2>2, <2>3 DEF LeastPlaces
<1>1. ASSUME NEW k \in Nat
      PROVE  G /\ ComesTo(w, k) => <>Answered(w) \/ ComesNear(k)
  <2>1. AllMove(w) => Moves(w, k)
    BY DEF AllMove
  <2>2. G => []Moves(w, k)
    BY <2>1, PTL
  <2>3. []Moves(w, k) /\ ComesTo(w, k) => <>Answered(w) \/ ComesNear(k)
    BY PTL DEF Moves, ComesTo, ComesNear
  <2>. QED
    BY <2>2, <2>3
<1>2. ASSUME NEW k \in Nat
      PROVE  G /\ ComesTo(w, k) => k = 0 \/ \E m \in Nat : m < k /\ ComesTo(w, m)
  <2>1. <>Answered(w) => ComesTo(w, 0)
    BY PTL DEF ComesTo
  <2>2. ComesNear(k) => <>(\E m \in 0..(k - 1) : Ahead(m))
    BY PTL DEF ComesNear, Nearer
  <2>3. <>(\E m \in 0..(k - 1) : Ahead(m)) => \E m \in 0..(k - 1) : <>Ahead(m)
    OBVIOUS
  <2>4. ASSUME NEW m \in 0..(k - 1) PROVE <>Ahead(m) => ComesTo(w, m)
    BY PTL DEF ComesTo
  <2>5. ComesNear(k) => \E m \in 0..(k - 1) : ComesTo(w, m)
    BY <2>2, <2>3, <2>4
  <2>. QED
    BY <1>1, <2>1, <2>5
<1>3. G /\ Waits => \E k \in Nat : ComesTo(w, k)
  <2>1. ASSUME NEW k \in Nat PROVE Answered(w) \/ Ahead(k) => ComesTo(w, k)
    BY PTL DEF ComesTo
  <2>2. LiveInv /\ Waits => \E k \in Nat : Answered(w) \/ Ahead(k)
    <3>1. LiveInv /\ Waits => Awaited
      BY DEF LiveInv, AnswerComes
    <3>2. LiveInv => DOMAIN toServer \subseteq Nat
      <4>1. LiveInv => toServer \in Seq(Cfg \cup {NoCfg})
        BY DEF LiveInv, TypeOK
      <4>. QED
        BY <4>1
    <3>. QED
      BY <3>1, <3>2 DEF Awaited, Answered, Ahead
  <2>3. G => LiveInv
    BY PTL
  <2>. QED
    BY <2>1, <2>2, <2>3
<1>4. G /\ Waits => ComesTo(w, 0)
  <2>1. G => LeastPlace(w)
    BY PTL
  <2>. QED
    BY <1>2, <1>3, <2>1 DEF LeastPlace
<1>5. G /\ Waits => <>Answered(w)
  <2>1. ~Nearer(0)
    BY DEF Nearer
  <2>2. G /\ ComesTo(w, 0) => <>Answered(w) \/ ComesNear(0)
    BY <1>1
  <2>. QED
    BY <1>4, <2>1, <2>2, PTL DEF ComesNear
<1>6. Answered(w) => ~Waits \/ Got
  BY DEF Answered
<1>7. LiveInv /\ Got /\ [Next]_vars => (Waits' => Got')
  BY WaitStep
<1>8. LiveInv /\ <<StartProxy>>_vars => ~Waits'
  BY AnswerEndsWait
<1>9. GuardsEnable /\ Got => ENABLED <<StartProxy>>_vars
  BY DEF GuardsEnable, AnswerReady
<1>10. FairSpec => [][Next]_vars /\ []LiveInv /\ FairAnswer
  BY AlwaysLiveInv, PTL DEF FairSpec, Spec, Fairness
<1>o. ~Waits => Over
  OBVIOUS
<1> HIDE DEF Waits, Got, Over
<1>11. FairSpec /\ []GuardsEnable => [](Got => <>~Waits)
  BY <1>7, <1>8, <1>9, <1>10, PTL DEF FairAnswer
<1>12. FairSpec /\ []GuardsEnable /\ LeastPlaces => (Waits ~> Over)
  BY <1>o, <1>0, <1>5, <1>6, <1>11, PTL
<1>. QED
  BY <1>12 DEF Waits, Over
=============================================================================
