---------------------------- MODULE ProxyRegistry ----------------------------
(***************************************************************************)
(* Proxies on frps: Control.RegisterProxy, CloseProxy, ForceCloseProxy and *)
(* the release loop of stoper (server/control.go) on the shared proxy      *)
(* Manager (server/proxy/proxy.go) and port manager, for proxies that bind *)
(* a port of their own (server/proxy/tcp.go, server/proxy/udp.go).         *)
(*                                                                         *)
(* Several controls register and close proxies at the same time.  Every    *)
(* lock region of the code is one step; between the steps of one control   *)
(* the others run.                                                         *)
(***************************************************************************)
EXTENDS PortManager, Integers

CONSTANTS
  Ctl,       \* controls
  Pxy,       \* bound: proxy objects that are ever created
  NoPxy,     \* a nil Proxy
  MaxPorts,  \* serverCfg.MaxPortsPerClient, 0 for no limit
  UDP,       \* the proxies are udp proxies
  Dashboard  \* the dashboard server runs

ASSUME RegistryAssumption ==
  /\ Ctl # {} /\ Name # {}
  /\ NoPxy \notin Pxy
  /\ MaxPorts \in Nat
  /\ UDP \in BOOLEAN
  /\ Dashboard \in BOOLEAN

VARIABLES
  ctlSt,        \* "up", "stopping" while stoper holds ctl.mu, then "closed"
  reg,          \* pc of the manager goroutine inside RegisterProxy
  regp,         \* the proxy object it is registering
  want,         \* the remote_port of that proxy
  proxies,      \* ctl.proxies
  portsUsedNum, \* ctl.portsUsedNum
  closing,      \* the name a holder of ctl.mu is in the middle of closing
  todo,         \* names the release loop of stoper has not reached
  pxys,         \* the shared proxy Manager
  owner,        \* the control of each proxy object
  pname,        \* its name
  port,         \* its realBindPort, 0 before Acquire
  st,           \* "none", "new", "acquired", "listening" or "closed"
  forwarder     \* its ForwardUserConn goroutine runs (udp only)

objVars == <<owner, pname, port, st, forwarder>>
ctlVars == <<ctlSt, reg, regp, want, proxies, portsUsedNum, closing, todo>>
vars == <<portVars, ctlVars, objVars, pxys, extBound>>

TypeOK ==
  /\ PortTypeOK
  /\ ctlSt \in [Ctl -> {"up", "stopping", "closed"}]
  /\ reg \in [Ctl -> {"idle", "exist", "acquire", "listen", "add",
                   "insert", "undo"}]
  /\ regp \in [Ctl -> Pxy \cup {NoPxy}]
  /\ want \in [Ctl -> Nat]
  /\ proxies \in [Ctl -> [Name -> Pxy \cup {NoPxy}]]
  /\ portsUsedNum \in [Ctl -> Int]
  /\ closing \in [Ctl -> Name \cup {NoName}]
  /\ todo \in [Ctl -> SUBSET Name]
  /\ pxys \in [Name -> Pxy \cup {NoPxy}]
  /\ owner \in [Pxy -> Ctl]
  /\ pname \in [Pxy -> Name]
  /\ port \in [Pxy -> Port \cup {0}]
  /\ st \in [Pxy -> {"none", "new", "acquired", "listening", "closed"}]
  /\ forwarder \in [Pxy -> BOOLEAN]
  /\ extBound \subseteq Port

Init ==
  /\ NewManager
  /\ ctlSt = [c \in Ctl |-> "up"]
  /\ reg = [c \in Ctl |-> "idle"]
  /\ regp = [c \in Ctl |-> NoPxy]
  /\ want = [c \in Ctl |-> 0]
  /\ proxies = [c \in Ctl |-> [n \in Name |-> NoPxy]]
  /\ portsUsedNum = [c \in Ctl |-> 0]
  /\ closing = [c \in Ctl |-> NoName]
  /\ todo = [c \in Ctl |-> {}]
  /\ pxys = [n \in Name |-> NoPxy]
  /\ owner = [p \in Pxy |-> CHOOSE c \in Ctl : TRUE]
  /\ pname = [p \in Pxy |-> CHOOSE n \in Name : TRUE]
  /\ port = [p \in Pxy |-> 0]
  /\ st = [p \in Pxy |-> "none"]
  /\ forwarder = [p \in Pxy |-> FALSE]
  /\ extBound = {}

\* Ports on which a socket listens.
Busy == extBound \cup {port[p] : p \in {q \in Pxy : st[q] = "listening"}}

\* ctl.mu is free: nobody is in the middle of a close.
Unlocked(c) == closing[c] = NoName /\ ctlSt[c] # "stopping"

-----------------------------------------------------------------------------
(* RegisterProxy, run by the manager goroutine of c *)

\* The deferred portsUsedNum -= usedPortsNum of a registration that failed.
GiveBackQuota(c) ==
  IF MaxPorts > 0 THEN [portsUsedNum EXCEPT ![c] = @ - 1] ELSE portsUsedNum

RegisterEnds(c) ==
  /\ reg' = [reg EXCEPT ![c] = "idle"]
  /\ regp' = [regp EXCEPT ![c] = NoPxy]

\* Mutant of RegisterFails: the quota is not given back.
RegisterFailsKeepsQuota(c) ==
  /\ RegisterEnds(c)
  /\ st' = [st EXCEPT ![regp[c]] = "closed"]
  /\ UNCHANGED portsUsedNum

\* The error returns: the object is dropped and the quota given back.
RegisterFails(c) ==
  /\ RegisterEnds(c)
  /\ portsUsedNum' = GiveBackQuota(c)
  /\ st' = [st EXCEPT ![regp[c]] = "closed"]

\* Mutant of RegisterQuota: the new port is not counted in the comparison.
RegisterQuotaLate(c, n, w, p) ==
  /\ ctlSt[c] = "up"
  /\ reg[c] = "idle"
  /\ Unlocked(c)
  /\ st[p] = "none"
  /\ MaxPorts = 0 \/ portsUsedNum[c] <= MaxPorts
  /\ portsUsedNum' = IF MaxPorts > 0 THEN [portsUsedNum EXCEPT ![c] = @ + 1]
                     ELSE portsUsedNum
  /\ reg' = [reg EXCEPT ![c] = "exist"]
  /\ regp' = [regp EXCEPT ![c] = p]
  /\ want' = [want EXCEPT ![c] = w]
  /\ st' = [st EXCEPT ![p] = "new"]
  /\ owner' = [owner EXCEPT ![p] = c]
  /\ pname' = [pname EXCEPT ![p] = n]
  /\ UNCHANGED <<portVars, ctlSt, proxies, closing, todo, pxys, port,
                 forwarder, extBound>>

\* The proxy passed the API and the configuration checks, the object exists and
\* the quota allows it.  (A proxy that fails one of them changes nothing.)
RegisterQuota(c, n, w, p) ==
  /\ ctlSt[c] = "up"
  /\ reg[c] = "idle"
  /\ Unlocked(c)
  /\ st[p] = "none"
  /\ MaxPorts = 0 \/ portsUsedNum[c] + 1 <= MaxPorts
  /\ portsUsedNum' = IF MaxPorts > 0 THEN [portsUsedNum EXCEPT ![c] = @ + 1]
                     ELSE portsUsedNum
  /\ reg' = [reg EXCEPT ![c] = "exist"]
  /\ regp' = [regp EXCEPT ![c] = p]
  /\ want' = [want EXCEPT ![c] = w]
  /\ st' = [st EXCEPT ![p] = "new"]
  /\ owner' = [owner EXCEPT ![p] = c]
  /\ pname' = [pname EXCEPT ![p] = n]
  /\ UNCHANGED <<portVars, ctlSt, proxies, closing, todo, pxys, port,
                 forwarder, extBound>>

\* pxyManager.Exist
RegisterExist(c) ==
  /\ reg[c] = "exist"
  /\ IF pxys[pname[regp[c]]] # NoPxy
       THEN RegisterFails(c)
       ELSE /\ reg' = [reg EXCEPT ![c] = "acquire"]
            /\ UNCHANGED <<regp, portsUsedNum, st>>
  /\ UNCHANGED <<portVars, ctlSt, want, proxies, closing, todo, pxys, owner,
                 pname, port, forwarder, extBound>>

\* pxy.Run(), first half: Acquire.
RegisterAcquire(c) ==
  /\ reg[c] = "acquire"
  /\ LET p == regp[c] IN
     \/ \E real \in Port :
          /\ AcquireOk(pname[p], want[c], Busy, real)
          /\ port' = [port EXCEPT ![p] = real]
          /\ st' = [st EXCEPT ![p] = "acquired"]
          /\ reg' = [reg EXCEPT ![c] = "listen"]
          /\ UNCHANGED <<regp, portsUsedNum>>
     \/ /\ AcquireFails(pname[p], want[c], Busy)
        /\ RegisterFails(c)
        /\ UNCHANGED port
  /\ UNCHANGED <<ctlSt, want, proxies, closing, todo, pxys, owner, pname,
                 forwarder, extBound>>

\* pxy.Run(), second half: listen on the port.
RegisterListen(c) ==
  /\ reg[c] = "listen"
  /\ IF port[regp[c]] \in Busy
       THEN /\ reg' = [reg EXCEPT ![c] = "undo"]
            /\ UNCHANGED <<st, forwarder>>
       ELSE /\ st' = [st EXCEPT ![regp[c]] = "listening"]
            /\ forwarder' = [forwarder EXCEPT ![regp[c]] = UDP]
            /\ reg' = [reg EXCEPT ![c] = "add"]
  /\ UNCHANGED <<portVars, ctlSt, regp, want, proxies, portsUsedNum, closing,
                 todo, pxys, owner, pname, port, extBound>>

\* Mutant of RegisterAdd: Add overwrites a name that was taken meanwhile.
RegisterAddOverwrites(c) ==
  /\ reg[c] = "add"
  /\ pxys' = [pxys EXCEPT ![pname[regp[c]]] = regp[c]]
  /\ reg' = [reg EXCEPT ![c] = "insert"]
  /\ UNCHANGED <<portVars, ctlSt, regp, want, proxies, portsUsedNum, closing,
                 todo, objVars, extBound>>

\* pxyManager.Add: the name may have been taken since Exist.
RegisterAdd(c) ==
  /\ reg[c] = "add"
  /\ IF pxys[pname[regp[c]]] # NoPxy
       THEN /\ reg' = [reg EXCEPT ![c] = "undo"]
            /\ UNCHANGED pxys
       ELSE /\ pxys' = [pxys EXCEPT ![pname[regp[c]]] = regp[c]]
            /\ reg' = [reg EXCEPT ![c] = "insert"]
  /\ UNCHANGED <<portVars, ctlSt, regp, want, proxies, portsUsedNum, closing,
                 todo, objVars, extBound>>

\* Mutant of RegisterUndo: the deferred Release of the error path is missing.
RegisterUndoKeepsPort(c) ==
  /\ reg[c] = "undo"
  /\ RegisterFails(c)
  /\ UNCHANGED <<portVars, ctlSt, want, proxies, closing, todo, pxys, owner,
                 pname, port, forwarder, extBound>>

\* The deferred functions of Run and RegisterProxy after a failed listen or Add:
\* the port is released, the proxy closed.
RegisterUndo(c) ==
  /\ reg[c] = "undo"
  /\ Release(port[regp[c]])
  /\ RegisterFails(c)
  /\ UNCHANGED <<ctlSt, want, proxies, closing, todo, pxys, owner, pname, port,
                 forwarder, extBound>>

\* ctl.proxies[pxy.GetName()] = pxy
RegisterInsert(c) ==
  /\ reg[c] = "insert"
  /\ Unlocked(c)
  /\ proxies' = [proxies EXCEPT ![c][pname[regp[c]]] = regp[c]]
  /\ RegisterEnds(c)
  /\ UNCHANGED <<portVars, ctlSt, want, portsUsedNum, closing, todo, pxys,
                 objVars, extBound>>

-----------------------------------------------------------------------------
(* Closing *)

\* pxy.Close(): the sockets are closed, the port is released every time.
ClosePxy(p) ==
  /\ Release(port[p])
  /\ st' = [st EXCEPT ![p] = "closed"]

\* Who calls CloseProxy: the idle manager of a running control for a message, or
\* the dashboard on any control it got from SearchByID, also one that has closed
\* since.
CloseCaller(c) ==
  \/ ctlSt[c] = "up" /\ reg[c] = "idle"
  \/ Dashboard

\* CloseProxy and ForceCloseProxy: with ctl.mu held, close the proxy object ...
CloseProxy(c, n) ==
  /\ Unlocked(c)
  /\ CloseCaller(c)
  /\ proxies[c][n] # NoPxy
  /\ portsUsedNum' = GiveBackQuota(c)
  /\ ClosePxy(proxies[c][n])
  /\ closing' = [closing EXCEPT ![c] = n]
  /\ UNCHANGED <<ctlSt, reg, regp, want, proxies, todo, pxys, owner, pname,
                 port, forwarder, extBound>>

\* ... then delete the name from the shared manager and from ctl.proxies.
CloseProxyDel(c) ==
  /\ closing[c] # NoName
  /\ ctlSt[c] # "stopping"
  /\ pxys' = [pxys EXCEPT ![closing[c]] = NoPxy]
  /\ proxies' = [proxies EXCEPT ![c][closing[c]] = NoPxy]
  /\ closing' = [closing EXCEPT ![c] = NoName]
  /\ UNCHANGED <<portVars, ctlSt, reg, regp, want, portsUsedNum, todo, objVars,
                 extBound>>

\* Mutant of StoperLock: stoper does not wait for managerShutdown.
StoperLockEarly(c) ==
  /\ ctlSt[c] = "up"
  /\ Unlocked(c)
  /\ ctlSt' = [ctlSt EXCEPT ![c] = "stopping"]
  /\ todo' = [todo EXCEPT ![c] = {n \in Name : proxies[c][n] # NoPxy}]
  /\ UNCHANGED <<portVars, reg, regp, want, proxies, portsUsedNum, closing,
                 pxys, objVars, extBound>>

\* stoper has seen the manager return and takes ctl.mu.
StoperLock(c) ==
  /\ ctlSt[c] = "up"
  /\ reg[c] = "idle"
  /\ Unlocked(c)
  /\ ctlSt' = [ctlSt EXCEPT ![c] = "stopping"]
  /\ todo' = [todo EXCEPT ![c] = {n \in Name : proxies[c][n] # NoPxy}]
  /\ UNCHANGED <<portVars, reg, regp, want, proxies, portsUsedNum, closing,
                 pxys, objVars, extBound>>

\* The loop over ctl.proxies: close the object ...
StoperClose(c, n) ==
  /\ ctlSt[c] = "stopping"
  /\ closing[c] = NoName
  /\ n \in todo[c]
  /\ ClosePxy(proxies[c][n])
  /\ closing' = [closing EXCEPT ![c] = n]
  /\ UNCHANGED <<ctlSt, reg, regp, want, proxies, portsUsedNum, todo, pxys,
                 owner, pname, port, forwarder, extBound>>

\* Mutant of StoperDel: pxyManager.Del is forgotten.
StoperKeepsName(c) ==
  /\ ctlSt[c] = "stopping"
  /\ closing[c] # NoName
  /\ todo' = [todo EXCEPT ![c] = @ \ {closing[c]}]
  /\ closing' = [closing EXCEPT ![c] = NoName]
  /\ UNCHANGED <<portVars, ctlSt, reg, regp, want, proxies, portsUsedNum, pxys,
                 objVars, extBound>>

\* ... and delete its name from the shared manager; ctl.proxies keeps it.
StoperDel(c) ==
  /\ ctlSt[c] = "stopping"
  /\ closing[c] # NoName
  /\ pxys' = [pxys EXCEPT ![closing[c]] = NoPxy]
  /\ todo' = [todo EXCEPT ![c] = @ \ {closing[c]}]
  /\ closing' = [closing EXCEPT ![c] = NoName]
  /\ UNCHANGED <<portVars, ctlSt, reg, regp, want, proxies, portsUsedNum,
                 objVars, extBound>>

StoperUnlock(c) ==
  /\ ctlSt[c] = "stopping"
  /\ closing[c] = NoName
  /\ todo[c] = {}
  /\ ctlSt' = [ctlSt EXCEPT ![c] = "closed"]
  /\ UNCHANGED <<portVars, reg, regp, want, proxies, portsUsedNum, closing,
                 todo, pxys, objVars, extBound>>

\* The socket of a udp proxy was closed, so ForwardUserConn returns and its
\* goroutine closes the proxy as well: isClosed guards all but the Release.
ForwarderClose(p) ==
  /\ forwarder[p]
  /\ st[p] = "closed"
  /\ forwarder' = [forwarder EXCEPT ![p] = FALSE]
  /\ Release(port[p])
  /\ UNCHANGED <<ctlVars, pxys, owner, pname, port, st, extBound>>

-----------------------------------------------------------------------------
(* The environment *)

\* Another process binds or frees a port.
OtherProcess(p) ==
  /\ p \notin {port[q] : q \in {r \in Pxy : st[r] = "listening"}}
  /\ extBound' = IF p \in extBound THEN extBound \ {p} ELSE extBound \cup {p}
  /\ UNCHANGED <<portVars, ctlVars, objVars, pxys>>

CleanReservedPorts ==
  /\ CleanReserved
  /\ UNCHANGED <<ctlVars, objVars, pxys, extBound>>

-----------------------------------------------------------------------------
RegisterStep(c) ==
  \/ RegisterExist(c)
  \/ RegisterAcquire(c)
  \/ RegisterListen(c)
  \/ RegisterAdd(c)
  \/ RegisterUndo(c)
  \/ RegisterInsert(c)

StoperStep(c) ==
  \/ \E n \in Name : StoperClose(c, n)
  \/ StoperDel(c)
  \/ StoperUnlock(c)

Next ==
  \/ \E c \in Ctl :
       \/ \E n \in Name, w \in Want, p \in Pxy : RegisterQuota(c, n, w, p)
       \/ RegisterStep(c)
       \/ \E n \in Name : CloseProxy(c, n)
       \/ CloseProxyDel(c)
       \/ StoperLock(c)
       \/ StoperStep(c)
  \/ \E p \in Pxy : ForwarderClose(p)
  \/ \E p \in Port : OtherProcess(p)
  \/ CleanReservedPorts

Spec == Init /\ [][Next]_vars

-----------------------------------------------------------------------------
(* Properties *)

\* A proxy object that its control serves: in ctl.proxies and not being closed.
Serving(c, n) ==
  ctlSt[c] = "up" /\ proxies[c][n] # NoPxy /\ closing[c] # n

\* Without the dashboard, a proxy that a control serves is the one the shared
\* manager has under its name: no failed or racing registration and no close of
\* another control took the name away, and the proxy listens.
ServedIsRegistered ==
  ~Dashboard =>
    \A c \in Ctl, n \in Name :
      Serving(c, n) => /\ pxys[n] = proxies[c][n]
                       /\ st[pxys[n]] = "listening"

\* The shared manager holds no ghost: a registered object belongs to a control
\* that is still registering it or has it in ctl.proxies, and that control has
\* not finished closing, so the name can be used again after every close.
NoGhostName ==
  \A n \in Name : pxys[n] # NoPxy =>
    LET p == pxys[n]
        c == owner[p]
    IN  /\ pname[p] = n
        /\ ctlSt[c] # "closed"
        /\ (reg[c] = "insert" /\ regp[c] = p) \/ proxies[c][n] = p

\* The proxy has acquired the port and was not closed.
Holds(p, q) == port[p] = q /\ st[p] \in {"acquired", "listening"}

\* No port leaks: a port that is marked used is held by a proxy that has
\* acquired it and has not been closed, on every error path of RegisterProxy.
NoPortLeak ==
  \A q \in Port : usedPorts[q] # NoName =>
    \E p \in Pxy : Holds(p, q)

\* The names of the proxies that c has and is not closing.
Kept(c) == {n \in Name : proxies[c][n] # NoPxy /\ closing[c] # n}

\* The registration that is under way counts as well.
InProgress(c) == IF reg[c] = "idle" THEN 0 ELSE 1

\* The quota is exact while a control is up: portsUsedNum counts the proxies it
\* has plus the one it is registering, so failures and closes neither leak nor
\* mint quota.
QuotaExact ==
  MaxPorts > 0 =>
    \A c \in Ctl : ctlSt[c] = "up" =>
      portsUsedNum[c] = Cardinality(Kept(c)) + InProgress(c)

\* "max ports can be used for each client" (conf/frps_full.ini:120): a client
\* never has more proxies, the one it is registering included, than
\* max_ports_per_client allows, whatever fails, is closed or forced to close.
WithinQuota ==
  MaxPorts > 0 =>
    \A c \in Ctl : ctlSt[c] = "up" =>
      Cardinality(Kept(c)) + InProgress(c) <= MaxPorts

-----------------------------------------------------------------------------
(* The names as the clients see them *)

\* The holder of a name: the control of the object that the shared manager has
\* under it.
Holders ==
  [n \in Name |-> IF pxys[n] = NoPxy THEN {} ELSE {owner[pxys[n]]}]

ServedNames == [c \in Ctl |-> {n \in Name : Serving(c, n)}]

Names == INSTANCE NameRegistry WITH
           Client <- Ctl,
           client <- ctlSt,
           holder <- Holders,
           serving <- ServedNames

\* Without the dashboard the lock regions of RegisterProxy, CloseProxy and
\* stoper, interleaved in any way, implement a registry in which a name has one
\* holder: Exist and Add together claim it once, ctl.proxies only serves names
\* that are held, and every Del gives up a name of the control that calls it,
\* after the proxy was closed.
NamesAreOwned == Names!Spec

-----------------------------------------------------------------------------
(* The inductive invariant behind the proofs *)

\* A registration works on an object of its own, whose state follows the pc.
RegInv ==
  \A c \in Ctl :
    /\ reg[c] # "idle" => /\ ctlSt[c] = "up"
                          /\ regp[c] # NoPxy
                          /\ owner[regp[c]] = c
    /\ reg[c] \in {"exist", "acquire"} => st[regp[c]] = "new"
    /\ reg[c] = "listen" => st[regp[c]] = "acquired" /\ port[regp[c]] # 0
    /\ reg[c] \in {"add", "insert"} => st[regp[c]] = "listening" /\ port[regp[c]] # 0
    /\ reg[c] = "undo" => st[regp[c]] \in {"acquired", "listening"} /\ port[regp[c]] # 0

\* What ctl.proxies and a close in progress refer to.
HeldInv ==
  /\ \A c \in Ctl, n \in Name : proxies[c][n] # NoPxy =>
       /\ owner[proxies[c][n]] = c
       /\ pname[proxies[c][n]] = n
       /\ port[proxies[c][n]] # 0
       /\ st[proxies[c][n]] \in {"listening", "closed"}
       /\ proxies[c][n] # regp[c]
  /\ \A c \in Ctl : closing[c] # NoName => proxies[c][closing[c]] # NoPxy
  /\ \A c \in Ctl : ctlSt[c] = "stopping" =>
       /\ closing[c] # NoName => closing[c] \in todo[c]
       /\ \A n \in todo[c] : proxies[c][n] # NoPxy
  /\ \A p \in Pxy : forwarder[p] => port[p] # 0

\* The names the shared manager holds; a control that is stopping still has to
\* visit each of its own.
NameInv ==
  /\ NoGhostName
  /\ \A c \in Ctl : reg[c] = "insert" =>
       LET q == pxys[pname[regp[c]]]
       IN  q = regp[c] \/ q = NoPxy \/ owner[q] # c
  /\ \A n \in Name : pxys[n] # NoPxy /\ ctlSt[owner[pxys[n]]] = "stopping" =>
       n \in todo[owner[pxys[n]]]

PortInv == PortsPartitioned /\ NoPortLeak

IInv == TypeOK /\ RegInv /\ HeldInv /\ PortInv /\ NameInv

\* Without the dashboard: whoever is about to delete a name owns it.
OwnNameInv ==
  ~Dashboard =>
    \A c \in Ctl :
      /\ ctlSt[c] = "closed" => closing[c] = NoName
      /\ reg[c] = "insert" => pxys[pname[regp[c]]] = regp[c]
      /\ closing[c] # NoName => pxys[closing[c]] = proxies[c][closing[c]]
      /\ ctlSt[c] = "stopping" => \A n \in todo[c] : pxys[n] = proxies[c][n]
      /\ reg[c] # "idle" => closing[c] = NoName

SInv == IInv /\ OwnNameInv /\ ServedIsRegistered

\* The counter is within the limit and covers what the control has; without the
\* dashboard it is exactly that.  (A name that the dashboard took away can be
\* registered again over the entry in ctl.proxies, which leaves it too high.)
QuotaOf(c) ==
  MaxPorts > 0 =>
    /\ portsUsedNum[c] <= MaxPorts
    /\ ctlSt[c] = "up" =>
         LET has == Cardinality(Kept(c)) + InProgress(c)
         IN  has <= portsUsedNum[c] /\ (~Dashboard => has = portsUsedNum[c])

QuotaInv ==
  \A c \in Ctl :
    /\ IsFiniteSet({n \in Name : proxies[c][n] # NoPxy})
    /\ QuotaOf(c)
=============================================================================
