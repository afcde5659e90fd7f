------------------------- MODULE ProxyRegistryProofs -------------------------
(***************************************************************************)
(* Proofs about ProxyRegistry: the port books, the name table and the      *)
(* quota stay right for any number of controls, names, ports and proxies,  *)
(* and without the dashboard the names are those of NameRegistry.  The     *)
(* last part is about TCPGroup, which stands on the same port manager; its *)
(* worker is never stuck (from [] GroupGuardsEnable, since the prover does *)
(* not look into ENABLED).                                                 *)
(***************************************************************************)
EXTENDS ProxyRegistry, TCPGroup, FiniteSetTheorems, TLAPS

USE PortAssumption, RegistryAssumption

-----------------------------------------------------------------------------
(* The methods of the port manager *)

\* An update of a function at one argument leaves the others alone (used for
\* the Boolean flags of the proxy objects).
LEMMA ExceptOther ==
  ASSUME NEW S, NEW T, NEW f \in [S -> T], NEW a, NEW v, NEW b \in S, b # a
  PROVE  [f EXCEPT ![a] = v][b] = f[b]
  OBVIOUS

\* What Release(p) does to the books, whether or not p was recorded as used.
LEMMA ReleaseSpec ==
  ASSUME PortTypeOK, NEW p \in Port, Release(p)
  PROVE  /\ PortTypeOK'
         /\ usedPorts'[p] = NoName
         /\ \A q \in Port : q # p => usedPorts'[q] = usedPorts[q]
         /\ PortsPartitioned => PortsPartitioned'
<1>1. CASE usedPorts[p] = NoName
  BY <1>1 DEF PortTypeOK, Release, PortsPartitioned, portVars
<1>2. CASE usedPorts[p] # NoName
  <2>1. /\ freePorts' = freePorts \cup {p}
        /\ usedPorts' = [usedPorts EXCEPT ![p] = NoName]
        /\ reservedPorts' = reservedPorts
        /\ reservedClosed' \subseteq reservedClosed \cup {usedPorts[p]}
    BY <1>2 DEF Release
  <2>2. usedPorts[p] \in Name
    BY <1>2 DEF PortTypeOK
  <2>. QED
    BY <2>1, <2>2 DEF PortTypeOK, PortsPartitioned
<1>. QED
  BY <1>1, <1>2

\* What a successful Acquire does to the books.
LEMMA AcquireSpec ==
  ASSUME PortTypeOK, NEW n \in Name, NEW w \in Nat, NEW busy,
         NEW rp \in Port, AcquireOk(n, w, busy, rp)
  PROVE  /\ PortTypeOK'
         /\ usedPorts'[rp] = n
         /\ \A q \in Port : q # rp => usedPorts'[q] = usedPorts[q]
         /\ PortsPartitioned => PortsPartitioned'
BY DEF PortTypeOK, AcquireOk, PortsPartitioned

LEMMA CleanSpec ==
  ASSUME PortTypeOK, CleanReserved
  PROVE  PortTypeOK' /\ UNCHANGED <<freePorts, usedPorts>>
BY DEF PortTypeOK, CleanReserved

\* A step leaks no port when every port that is used after it was used before
\* and keeps its holders.
LEMMA HoldersKept ==
  ASSUME NoPortLeak,
         \A q \in Port : usedPorts'[q] # NoName =>
           /\ usedPorts[q] # NoName
           /\ \A p \in Pxy : Holds(p, q) => Holds(p, q)'
  PROVE  NoPortLeak'
BY DEF NoPortLeak

\* A proxy object that NewProxy returns is referred to by nobody.
LEMMA FreshUnused ==
  ASSUME TypeOK, RegInv, HeldInv, NEW p \in Pxy, st[p] = "none"
  PROVE  /\ \A d \in Ctl, m \in Name : proxies[d][m] # p
         /\ \A d \in Ctl : reg[d] # "idle" => regp[d] # p
<1>1. ASSUME NEW d \in Ctl, NEW m \in Name, proxies[d][m] = p
      PROVE  FALSE
  BY <1>1 DEF HeldInv
<1>2. ASSUME NEW d \in Ctl, reg[d] # "idle", regp[d] = p
      PROVE  FALSE
  BY <1>2, ZenonT(60) DEF RegInv, TypeOK
<1>. QED
  BY <1>1, <1>2

-----------------------------------------------------------------------------
(* The inductive step *)

\* Every step keeps the port books well-formed and straight.
LEMMA BooksStep == IInv /\ [Next]_vars => (PortTypeOK /\ PortsPartitioned)'
<1> SUFFICES ASSUME IInv, [Next]_vars
             PROVE  (PortTypeOK /\ PortsPartitioned)'
  OBVIOUS
<1> USE DEF IInv, PortInv
<1>0. PortTypeOK
  BY DEF TypeOK
<1>1. ASSUME NEW c \in Ctl, NEW n \in Name, NEW w \in Want, NEW p \in Pxy,
             RegisterQuota(c, n, w, p)
      PROVE  (PortTypeOK /\ PortsPartitioned)'
  BY <1>1, <1>0 DEF RegisterQuota, portVars, PortTypeOK, PortsPartitioned
<1>2. ASSUME NEW c \in Ctl, RegisterExist(c)
      PROVE  (PortTypeOK /\ PortsPartitioned)'
  BY <1>2, <1>0 DEF RegisterExist, portVars, PortTypeOK, PortsPartitioned
<1>3. ASSUME NEW c \in Ctl, RegisterAcquire(c)
      PROVE  (PortTypeOK /\ PortsPartitioned)'
  <2>1. pname[regp[c]] \in Name /\ want[c] \in Nat
    BY <1>3 DEF RegisterAcquire, TypeOK, RegInv
  <2>2. ASSUME NEW rp \in Port, AcquireOk(pname[regp[c]], want[c], Busy, rp)
        PROVE  (PortTypeOK /\ PortsPartitioned)'
    BY <2>1, <2>2, AcquireSpec, <1>0 DEF TypeOK
  <2>3. CASE UNCHANGED portVars
    BY <2>3, <1>0 DEF portVars, TypeOK, PortTypeOK, PortsPartitioned
  <2>. QED
    BY <1>3, <2>2, <2>3 DEF RegisterAcquire, AcquireFails
<1>4. ASSUME NEW c \in Ctl, RegisterListen(c)
      PROVE  (PortTypeOK /\ PortsPartitioned)'
  BY <1>4, <1>0 DEF RegisterListen, portVars, PortTypeOK, PortsPartitioned
<1>5. ASSUME NEW c \in Ctl, RegisterAdd(c)
      PROVE  (PortTypeOK /\ PortsPartitioned)'
  BY <1>5, <1>0 DEF RegisterAdd, portVars, PortTypeOK, PortsPartitioned
<1>6. ASSUME NEW c \in Ctl, RegisterUndo(c)
      PROVE  (PortTypeOK /\ PortsPartitioned)'
  <2>1. regp[c] \in Pxy /\ port[regp[c]] \in Port /\ Release(port[regp[c]])
    BY <1>6 DEF RegisterUndo, TypeOK, RegInv, HeldInv, ClosePxy
  <2>. QED
    BY <2>1, ReleaseSpec, <1>0
<1>7. ASSUME NEW c \in Ctl, RegisterInsert(c)
      PROVE  (PortTypeOK /\ PortsPartitioned)'
  BY <1>7, <1>0 DEF RegisterInsert, portVars, PortTypeOK, PortsPartitioned
<1>8. ASSUME NEW c \in Ctl, NEW n \in Name, CloseProxy(c, n)
      PROVE  (PortTypeOK /\ PortsPartitioned)'
  <2>1. proxies[c][n] \in Pxy /\ port[proxies[c][n]] \in Port /\ Release(port[proxies[c][n]])
    BY <1>8 DEF CloseProxy, TypeOK, RegInv, HeldInv, ClosePxy
  <2>. QED
    BY <2>1, ReleaseSpec, <1>0
<1>9. ASSUME NEW c \in Ctl, CloseProxyDel(c)
      PROVE  (PortTypeOK /\ PortsPartitioned)'
  BY <1>9, <1>0 DEF CloseProxyDel, portVars, PortTypeOK, PortsPartitioned
<1>10. ASSUME NEW c \in Ctl, StoperLock(c)
      PROVE  (PortTypeOK /\ PortsPartitioned)'
  BY <1>10, <1>0 DEF StoperLock, portVars, PortTypeOK, PortsPartitioned
<1>11. ASSUME NEW c \in Ctl, NEW n \in Name, StoperClose(c, n)
      PROVE  (PortTypeOK /\ PortsPartitioned)'
  <2>1. proxies[c][n] \in Pxy /\ port[proxies[c][n]] \in Port /\ Release(port[proxies[c][n]])
    BY <1>11 DEF StoperClose, TypeOK, RegInv, HeldInv, ClosePxy
  <2>. QED
    BY <2>1, ReleaseSpec, <1>0
<1>12. ASSUME NEW c \in Ctl, StoperDel(c)
      PROVE  (PortTypeOK /\ PortsPartitioned)'
  BY <1>12, <1>0 DEF StoperDel, portVars, PortTypeOK, PortsPartitioned
<1>13. ASSUME NEW c \in Ctl, StoperUnlock(c)
      PROVE  (PortTypeOK /\ PortsPartitioned)'
  BY <1>13, <1>0 DEF StoperUnlock, portVars, PortTypeOK, PortsPartitioned
<1>14. ASSUME NEW p \in Pxy, ForwarderClose(p)
      PROVE  (PortTypeOK /\ PortsPartitioned)'
  <2>1. p \in Pxy /\ port[p] \in Port /\ Release(port[p])
    BY <1>14 DEF ForwarderClose, TypeOK, RegInv, HeldInv, ClosePxy
  <2>. QED
    BY <2>1, ReleaseSpec, <1>0
<1>15. ASSUME NEW p \in Port, OtherProcess(p)
      PROVE  (PortTypeOK /\ PortsPartitioned)'
  BY <1>15, <1>0 DEF OtherProcess, portVars, PortTypeOK, PortsPartitioned
<1>16. ASSUME CleanReservedPorts
      PROVE  (PortTypeOK /\ PortsPartitioned)'
  BY <1>16, CleanSpec, <1>0 DEF CleanReservedPorts, PortsPartitioned
<1>17. CASE UNCHANGED vars
  BY <1>17, <1>0 DEF vars, portVars, PortTypeOK, PortsPartitioned
<1>. QED
  BY <1>1, <1>2, <1>3, <1>4, <1>5, <1>6, <1>7, <1>8,
     <1>9, <1>10, <1>11, <1>12, <1>13, <1>14, <1>15, <1>16, <1>17
  DEF Next, RegisterStep, StoperStep

\* Every step preserves the type invariant.
LEMMA TypeStep == IInv /\ [Next]_vars => TypeOK'
<1> SUFFICES ASSUME IInv, [Next]_vars
             PROVE  TypeOK'
  OBVIOUS
<1> USE DEF IInv, TypeOK, ctlVars, objVars
<1>0. PortTypeOK'
  BY BooksStep
<1>1. ASSUME NEW c \in Ctl, NEW n \in Name, NEW w \in Want, NEW p \in Pxy,
             RegisterQuota(c, n, w, p)
      PROVE  TypeOK'
  BY <1>1, <1>0 DEF RegisterQuota
<1>2. ASSUME NEW c \in Ctl, RegisterExist(c)
      PROVE  TypeOK'
  <2>1. regp[c] \in Pxy
    BY <1>2, <1>0 DEF RegisterExist, RegInv
  <2>2. CASE RegisterFails(c)
    <3>1. reg'[c] = "idle"
      BY <2>2 DEF RegisterFails, RegisterEnds
    <3>2. UNCHANGED <<port, forwarder, pxys>>
      BY <1>2, <1>0, <3>1 DEF RegisterExist
    <3>. QED
      BY <1>2, <1>0, <2>1, <2>2, <3>2 DEF RegisterExist, RegisterFails, RegisterEnds, GiveBackQuota
  <2>3. CASE ~RegisterFails(c)
    BY <1>2, <1>0, <2>1, <2>3 DEF RegisterExist
  <2>. QED
    BY <2>2, <2>3
<1>3. ASSUME NEW c \in Ctl, RegisterAcquire(c)
      PROVE  TypeOK'
  <2>1. regp[c] \in Pxy
    BY <1>3, <1>0 DEF RegisterAcquire, RegInv
  <2>2. CASE RegisterFails(c)
    <3>1. reg'[c] = "idle"
      BY <2>2 DEF RegisterFails, RegisterEnds
    <3>2. UNCHANGED <<port, forwarder, pxys>>
      BY <1>3, <1>0, <3>1 DEF RegisterAcquire
    <3>. QED
      BY <1>3, <1>0, <2>1, <2>2, <3>2 DEF RegisterAcquire, RegisterFails, RegisterEnds, GiveBackQuota
  <2>3. CASE ~RegisterFails(c)
    <3>1. PICK rp \in Port :
            /\ port' = [port EXCEPT ![regp[c]] = rp]
            /\ st' = [st EXCEPT ![regp[c]] = "acquired"]
            /\ reg' = [reg EXCEPT ![c] = "listen"]
            /\ UNCHANGED <<regp, portsUsedNum>>
      BY <1>3, <1>0, <2>3 DEF RegisterAcquire
    <3>. QED
      BY <1>3, <1>0, <2>1, <3>1 DEF RegisterAcquire
  <2>. QED
    BY <2>2, <2>3
<1>4. ASSUME NEW c \in Ctl, RegisterListen(c)
      PROVE  TypeOK'
  <2>1. regp[c] \in Pxy
    BY <1>4, <1>0 DEF RegisterListen, RegInv
  <2>2. forwarder' \in [Pxy -> BOOLEAN]
    <3>1. forwarder' = forwarder \/ forwarder' = [forwarder EXCEPT ![regp[c]] = UDP]
      BY <1>4, <1>0 DEF RegisterListen
    <3>. QED
      BY <3>1, <2>1, Zenon
  <2>3. st' \in [Pxy -> {"none", "new", "acquired", "listening", "closed"}]
    <3>1. st' = st \/ st' = [st EXCEPT ![regp[c]] = "listening"]
      BY <1>4, <1>0 DEF RegisterListen
    <3>. QED
      BY <3>1, <1>0, <2>1
  <2>4. reg' \in [Ctl -> {"idle", "exist", "acquire", "listen", "add",
                         "insert", "undo"}]
    <3>1. reg' = [reg EXCEPT ![c] = "undo"] \/ reg' = [reg EXCEPT ![c] = "add"]
      BY <1>4, <1>0 DEF RegisterListen
    <3>. QED
      BY <3>1, <1>0
  <2>. QED
    BY <1>4, <1>0, <2>2, <2>3, <2>4 DEF RegisterListen
<1>5. ASSUME NEW c \in Ctl, RegisterAdd(c)
      PROVE  TypeOK'
  <2>1. regp[c] \in Pxy /\ pname[regp[c]] \in Name
    BY <1>5, <1>0 DEF RegisterAdd, RegInv
  <2>2. CASE pxys[pname[regp[c]]] # NoPxy
    BY <1>5, <1>0, <2>2 DEF RegisterAdd
  <2>3. CASE pxys[pname[regp[c]]] = NoPxy
    BY <1>5, <1>0, <2>1, <2>3 DEF RegisterAdd
  <2>. QED
    BY <2>2, <2>3
<1>6. ASSUME NEW c \in Ctl, RegisterUndo(c)
      PROVE  TypeOK'
  BY <1>6, <1>0 DEF RegisterUndo, RegisterFails, RegisterEnds, GiveBackQuota, RegInv
<1>7. ASSUME NEW c \in Ctl, RegisterInsert(c)
      PROVE  TypeOK'
  BY <1>7, <1>0 DEF RegisterInsert, RegisterEnds, RegInv
<1>8. ASSUME NEW c \in Ctl, NEW n \in Name, CloseProxy(c, n)
      PROVE  TypeOK'
  BY <1>8, <1>0 DEF CloseProxy, ClosePxy, GiveBackQuota
<1>9. ASSUME NEW c \in Ctl, CloseProxyDel(c)
      PROVE  TypeOK'
  BY <1>9, <1>0 DEF CloseProxyDel
<1>10. ASSUME NEW c \in Ctl, StoperLock(c)
      PROVE  TypeOK'
  BY <1>10, <1>0 DEF StoperLock
<1>11. ASSUME NEW c \in Ctl, NEW n \in Name, StoperClose(c, n)
      PROVE  TypeOK'
  BY <1>11, <1>0 DEF StoperClose, ClosePxy, HeldInv
<1>12. ASSUME NEW c \in Ctl, StoperDel(c)
      PROVE  TypeOK'
  BY <1>12, <1>0 DEF StoperDel
<1>13. ASSUME NEW c \in Ctl, StoperUnlock(c)
      PROVE  TypeOK'
  BY <1>13, <1>0 DEF StoperUnlock
<1>14. ASSUME NEW p \in Pxy, ForwarderClose(p)
      PROVE  TypeOK'
  BY <1>14, <1>0 DEF ForwarderClose
<1>15. ASSUME NEW p \in Port, OtherProcess(p)
      PROVE  TypeOK'
  BY <1>15, <1>0 DEF OtherProcess
<1>16. ASSUME CleanReservedPorts
      PROVE  TypeOK'
  BY <1>16, <1>0 DEF CleanReservedPorts
<1>17. CASE UNCHANGED vars
  BY <1>17, <1>0 DEF vars
<1>. QED
  BY <1>1, <1>2, <1>3, <1>4, <1>5, <1>6, <1>7, <1>8,
     <1>9, <1>10, <1>11, <1>12, <1>13, <1>14, <1>15, <1>16, <1>17
  DEF Next, RegisterStep, StoperStep

\* Every step keeps the object of a registration in the state its pc says.
LEMMA RegStep == IInv /\ [Next]_vars => RegInv'
<1> SUFFICES ASSUME IInv, [Next]_vars
             PROVE  RegInv'
  OBVIOUS
<1> USE DEF IInv, TypeOK, RegInv, HeldInv, ctlVars, objVars
<1>1. ASSUME NEW c \in Ctl, NEW n \in Name, NEW w \in Want, NEW p \in Pxy,
             RegisterQuota(c, n, w, p)
      PROVE  RegInv'
  BY <1>1 DEF RegisterQuota
<1>2. ASSUME NEW c \in Ctl, RegisterExist(c)
      PROVE  RegInv'
  BY <1>2 DEF RegisterExist, RegisterFails, RegisterEnds
<1>3. ASSUME NEW c \in Ctl, RegisterAcquire(c)
      PROVE  RegInv'
  <2>1. /\ reg[c] # "idle"
        /\ \A d \in Ctl : d # c /\ reg[d] # "idle" => regp[d] # regp[c]
    BY <1>3 DEF RegisterAcquire
  <2>2. CASE RegisterFails(c)
    <3>1. reg'[c] = "idle"
      BY <2>2 DEF RegisterFails, RegisterEnds
    <3>2. UNCHANGED <<port, owner, ctlSt>>
      BY <1>3, <3>1 DEF RegisterAcquire
    <3>. QED
      BY <2>1, <2>2, <3>2 DEF RegisterFails, RegisterEnds
  <2>3. CASE ~RegisterFails(c)
    <3>1. PICK rp \in Port :
            /\ port' = [port EXCEPT ![regp[c]] = rp]
            /\ st' = [st EXCEPT ![regp[c]] = "acquired"]
            /\ reg' = [reg EXCEPT ![c] = "listen"]
            /\ UNCHANGED <<regp, owner, ctlSt>>
      BY <1>3, <2>3 DEF RegisterAcquire
    <3>. QED
      BY <2>1, <3>1
  <2>. QED
    BY <2>2, <2>3
<1>4. ASSUME NEW c \in Ctl, RegisterListen(c)
      PROVE  RegInv'
  <2>1. \A d \in Ctl : d # c /\ reg[d] # "idle" => regp[d] # regp[c]
    BY <1>4 DEF RegisterListen
  <2>. QED
    BY <1>4, <2>1 DEF RegisterListen
<1>5. ASSUME NEW c \in Ctl, RegisterAdd(c)
      PROVE  RegInv'
  BY <1>5 DEF RegisterAdd
<1>6. ASSUME NEW c \in Ctl, RegisterUndo(c)
      PROVE  RegInv'
  BY <1>6 DEF RegisterUndo, RegisterFails, RegisterEnds
<1>7. ASSUME NEW c \in Ctl, RegisterInsert(c)
      PROVE  RegInv'
  BY <1>7 DEF RegisterInsert, RegisterEnds
<1>8. ASSUME NEW c \in Ctl, NEW n \in Name, CloseProxy(c, n)
      PROVE  RegInv'
  BY <1>8 DEF CloseProxy, ClosePxy, Unlocked
<1>9. ASSUME NEW c \in Ctl, CloseProxyDel(c)
      PROVE  RegInv'
  BY <1>9 DEF CloseProxyDel
<1>10. ASSUME NEW c \in Ctl, StoperLock(c)
      PROVE  RegInv'
  BY <1>10 DEF StoperLock, Unlocked
<1>11. ASSUME NEW c \in Ctl, NEW n \in Name, StoperClose(c, n)
      PROVE  RegInv'
  BY <1>11 DEF StoperClose, ClosePxy
<1>12. ASSUME NEW c \in Ctl, StoperDel(c)
      PROVE  RegInv'
  BY <1>12 DEF StoperDel
<1>13. ASSUME NEW c \in Ctl, StoperUnlock(c)
      PROVE  RegInv'
  BY <1>13 DEF StoperUnlock
<1>14. ASSUME NEW p \in Pxy, ForwarderClose(p)
      PROVE  RegInv'
  BY <1>14 DEF ForwarderClose
<1>15. ASSUME NEW p \in Port, OtherProcess(p)
      PROVE  RegInv'
  BY <1>15 DEF OtherProcess
<1>16. ASSUME CleanReservedPorts
      PROVE  RegInv'
  BY <1>16 DEF CleanReservedPorts
<1>17. CASE UNCHANGED vars
  BY <1>17, SMTT(60) DEF vars
<1>. QED
  BY <1>1, <1>2, <1>3, <1>4, <1>5, <1>6, <1>7, <1>8,
     <1>9, <1>10, <1>11, <1>12, <1>13, <1>14, <1>15, <1>16, <1>17
  DEF Next, RegisterStep, StoperStep

\* Every step keeps ctl.proxies, todo and closing referring to bound objects
\* of the control.
LEMMA HeldStep == IInv /\ [Next]_vars => HeldInv'
<1> SUFFICES ASSUME IInv, [Next]_vars
             PROVE  HeldInv'
  OBVIOUS
<1> USE DEF IInv, TypeOK, RegInv, HeldInv, ctlVars, objVars
<1>1. ASSUME NEW c \in Ctl, NEW n \in Name, NEW w \in Want, NEW p \in Pxy,
             RegisterQuota(c, n, w, p)
      PROVE  HeldInv'
  BY <1>1 DEF RegisterQuota
<1>2. ASSUME NEW c \in Ctl, RegisterExist(c)
      PROVE  HeldInv'
  <2>0. reg[c] # "idle"
    BY <1>2 DEF RegisterExist
  <2>1. /\ regp[c] \in Pxy
        /\ \A d \in Ctl, m \in Name : proxies[d][m] # NoPxy => proxies[d][m] # regp[c]
    BY <2>0
  <2>2. CASE RegisterFails(c)
    <3>1. reg'[c] = "idle"
      BY <2>2 DEF RegisterFails, RegisterEnds
    <3>2. UNCHANGED <<owner, pname, port, forwarder, proxies, closing, todo, ctlSt>>
      BY <1>2, <3>1 DEF RegisterExist
    <3>. QED
      BY <2>1, <2>2, <3>2 DEF RegisterFails, RegisterEnds
  <2>3. CASE ~RegisterFails(c)
    BY <1>2, <2>1, <2>3 DEF RegisterExist
  <2>. QED
    BY <2>2, <2>3
<1>3. ASSUME NEW c \in Ctl, RegisterAcquire(c)
      PROVE  HeldInv'
  <2>0. reg[c] # "idle"
    BY <1>3 DEF RegisterAcquire
  <2>1. /\ regp[c] \in Pxy
        /\ \A d \in Ctl, m \in Name : proxies[d][m] # NoPxy => proxies[d][m] # regp[c]
    BY <2>0
  <2>2. CASE RegisterFails(c)
    <3>1. reg'[c] = "idle"
      BY <2>2 DEF RegisterFails, RegisterEnds
    <3>2. UNCHANGED <<owner, pname, port, forwarder, proxies, closing, todo, ctlSt>>
      BY <1>3, <3>1 DEF RegisterAcquire
    <3>. QED
      BY <2>1, <2>2, <3>2 DEF RegisterFails, RegisterEnds
  <2>3. CASE ~RegisterFails(c)
    <3>1. PICK rp \in Port :
            /\ port' = [port EXCEPT ![regp[c]] = rp]
            /\ st' = [st EXCEPT ![regp[c]] = "acquired"]
            /\ UNCHANGED regp
      BY <1>3, <2>3 DEF RegisterAcquire
    <3>. QED
      BY <1>3, <2>1, <3>1 DEF RegisterAcquire
  <2>. QED
    BY <2>2, <2>3
<1>4. ASSUME NEW c \in Ctl, RegisterListen(c)
      PROVE  HeldInv'
  <2>0. reg[c] = "listen"
    BY <1>4 DEF RegisterListen
  <2>1. /\ regp[c] \in Pxy /\ port[regp[c]] # 0
        /\ \A d \in Ctl, m \in Name : proxies[d][m] # NoPxy => proxies[d][m] # regp[c]
    BY <2>0
  <2>2. /\ forwarder' = forwarder \/ forwarder' = [forwarder EXCEPT ![regp[c]] = UDP]
        /\ st' = st \/ st' = [st EXCEPT ![regp[c]] = "listening"]
        /\ UNCHANGED <<regp, owner, pname, port, proxies, closing, todo, ctlSt>>
    BY <1>4 DEF RegisterListen
  <2>3. ASSUME NEW p \in Pxy, forwarder'[p]
        PROVE  port'[p] # 0
    <3>1. CASE p = regp[c]
      BY <2>1, <2>2, <3>1
    <3>2. CASE p # regp[c]
      <4>1. forwarder'[p] = forwarder[p]
        <5>1. forwarder \in [Pxy -> BOOLEAN]
          BY DEF TypeOK
        <5>2. CASE forwarder' = forwarder
          BY <5>2
        <5>3. CASE forwarder' = [forwarder EXCEPT ![regp[c]] = UDP]
          BY <5>1, <5>3, <3>2, ExceptOther
        <5>. QED
          BY <2>2, <5>2, <5>3
      <4>. QED
        BY <2>2, <2>3, <4>1
    <3>. QED
      BY <3>1, <3>2
  <2>. QED
    BY <2>1, <2>2, <2>3
<1>5. ASSUME NEW c \in Ctl, RegisterAdd(c)
      PROVE  HeldInv'
  BY <1>5 DEF RegisterAdd
<1>6. ASSUME NEW c \in Ctl, RegisterUndo(c)
      PROVE  HeldInv'
  BY <1>6 DEF RegisterUndo, RegisterFails, RegisterEnds
<1>7. ASSUME NEW c \in Ctl, RegisterInsert(c)
      PROVE  HeldInv'
  BY <1>7 DEF RegisterInsert, RegisterEnds
<1>8. ASSUME NEW c \in Ctl, NEW n \in Name, CloseProxy(c, n)
      PROVE  HeldInv'
  BY <1>8 DEF CloseProxy, ClosePxy, Unlocked
<1>9. ASSUME NEW c \in Ctl, CloseProxyDel(c)
      PROVE  HeldInv'
  BY <1>9 DEF CloseProxyDel
<1>10. ASSUME NEW c \in Ctl, StoperLock(c)
      PROVE  HeldInv'
  BY <1>10 DEF StoperLock, Unlocked
<1>11. ASSUME NEW c \in Ctl, NEW n \in Name, StoperClose(c, n)
      PROVE  HeldInv'
  BY <1>11 DEF StoperClose, ClosePxy
<1>12. ASSUME NEW c \in Ctl, StoperDel(c)
      PROVE  HeldInv'
  BY <1>12 DEF StoperDel
<1>13. ASSUME NEW c \in Ctl, StoperUnlock(c)
      PROVE  HeldInv'
  BY <1>13 DEF StoperUnlock
<1>14. ASSUME NEW p \in Pxy, ForwarderClose(p)
      PROVE  HeldInv'
  BY <1>14 DEF ForwarderClose
<1>15. ASSUME NEW p \in Port, OtherProcess(p)
      PROVE  HeldInv'
  BY <1>15 DEF OtherProcess
<1>16. ASSUME CleanReservedPorts
      PROVE  HeldInv'
  BY <1>16 DEF CleanReservedPorts
<1>17. CASE UNCHANGED vars
  BY <1>17 DEF vars
<1>. QED
  BY <1>1, <1>2, <1>3, <1>4, <1>5, <1>6, <1>7, <1>8,
     <1>9, <1>10, <1>11, <1>12, <1>13, <1>14, <1>15, <1>16, <1>17
  DEF Next, RegisterStep, StoperStep

\* Every step that drops a proxy releases its port.
LEMMA LeakStep == IInv /\ [Next]_vars => NoPortLeak'
<1> SUFFICES ASSUME IInv, [Next]_vars
             PROVE  NoPortLeak'
  OBVIOUS
<1> USE DEF IInv, TypeOK, RegInv, HeldInv, PortInv, ctlVars, objVars
<1>0. PortTypeOK
  OBVIOUS
<1>1. ASSUME NEW c \in Ctl, NEW n \in Name, NEW w \in Want, NEW p \in Pxy,
             RegisterQuota(c, n, w, p)
      PROVE  NoPortLeak'
  BY <1>1, HoldersKept DEF RegisterQuota, portVars, Holds
<1>2. ASSUME NEW c \in Ctl, RegisterExist(c)
      PROVE  NoPortLeak'
  <2>1. regp[c] \in Pxy /\ st[regp[c]] = "new"
    BY <1>2 DEF RegisterExist
  <2>2. UNCHANGED <<port, usedPorts>> /\ st' \in {st, [st EXCEPT ![regp[c]] = "closed"]}
    BY <1>2 DEF RegisterExist, RegisterFails, portVars
  <2>. QED
    BY <2>1, <2>2, HoldersKept DEF Holds
<1>3. ASSUME NEW c \in Ctl, RegisterAcquire(c)
      PROVE  NoPortLeak'
  <2>1. regp[c] \in Pxy /\ pname[regp[c]] \in Name /\ st[regp[c]] = "new" /\ want[c] \in Nat
    BY <1>3 DEF RegisterAcquire
  <2>2. CASE RegisterFails(c)
    <3>1. reg'[c] = "idle"
      BY <2>2 DEF RegisterFails, RegisterEnds
    <3>2. UNCHANGED <<port, usedPorts>>
      BY <1>3, <3>1 DEF RegisterAcquire, AcquireFails, portVars
    <3>3. \A r \in Pxy : r # regp[c] => st'[r] = st[r]
      BY <2>1, <2>2 DEF RegisterFails
    <3>. QED
      BY <2>1, <3>2, <3>3, HoldersKept DEF Holds
  <2>3. CASE ~RegisterFails(c)
    <3>1. PICK rp \in Port :
            /\ AcquireOk(pname[regp[c]], want[c], Busy, rp)
            /\ port' = [port EXCEPT ![regp[c]] = rp]
            /\ st' = [st EXCEPT ![regp[c]] = "acquired"]
            /\ UNCHANGED regp
      BY <1>3, <2>3 DEF RegisterAcquire
    <3>2. \A q \in Port : q # rp => usedPorts'[q] = usedPorts[q]
      BY <1>0, <2>1, <3>1, AcquireSpec
    <3>3. Holds(regp[c], rp)'
      BY <2>1, <3>1 DEF Holds
    <3>4. \A q \in Port, p \in Pxy : Holds(p, q) => Holds(p, q)'
      BY <2>1, <3>1 DEF Holds
    <3>. QED
      <4> SUFFICES ASSUME NEW q \in Port, usedPorts'[q] # NoName
                   PROVE  \E p \in Pxy : Holds(p, q)'
        BY DEF NoPortLeak
      <4>1. CASE q = rp
        BY <2>1, <3>1, <3>3, <4>1
      <4>2. CASE q # rp
        BY <3>2, <3>4, <4>2 DEF NoPortLeak
      <4>. QED
        BY <4>1, <4>2
  <2>. QED
    BY <2>2, <2>3
<1>4. ASSUME NEW c \in Ctl, RegisterListen(c)
      PROVE  NoPortLeak'
  <2>1. regp[c] \in Pxy /\ st[regp[c]] = "acquired"
    BY <1>4 DEF RegisterListen
  <2>2. UNCHANGED <<port, usedPorts>> /\ st' \in {st, [st EXCEPT ![regp[c]] = "listening"]}
    BY <1>4 DEF RegisterListen, portVars
  <2>. QED
    BY <2>1, <2>2, HoldersKept DEF Holds
<1>5. ASSUME NEW c \in Ctl, RegisterAdd(c)
      PROVE  NoPortLeak'
  BY <1>5, HoldersKept DEF RegisterAdd, portVars, Holds
<1>6. ASSUME NEW c \in Ctl, RegisterUndo(c)
      PROVE  NoPortLeak'
  <2>1. PICK x \in Pxy : x = regp[c] /\ port[x] \in Port /\ Release(port[x])
    BY <1>6 DEF RegisterUndo, RegisterFails
  <2>2. \A q \in Port : usedPorts'[q] # NoName => usedPorts[q] # NoName /\ q # port[x]
    BY <1>0, <2>1, ReleaseSpec
  <2>3. UNCHANGED port /\ \A r \in Pxy : r # x => st'[r] = st[r]
    BY <1>6, <2>1 DEF RegisterUndo, RegisterFails
  <2>. QED
    BY <2>1, <2>2, <2>3, HoldersKept DEF Holds
<1>7. ASSUME NEW c \in Ctl, RegisterInsert(c)
      PROVE  NoPortLeak'
  BY <1>7, HoldersKept DEF RegisterInsert, portVars, Holds
<1>8. ASSUME NEW c \in Ctl, NEW n \in Name, CloseProxy(c, n)
      PROVE  NoPortLeak'
  <2>1. PICK x \in Pxy : x = proxies[c][n] /\ port[x] \in Port /\ Release(port[x])
    BY <1>8 DEF CloseProxy, ClosePxy
  <2>2. \A q \in Port : usedPorts'[q] # NoName => usedPorts[q] # NoName /\ q # port[x]
    BY <1>0, <2>1, ReleaseSpec
  <2>3. UNCHANGED port /\ \A r \in Pxy : r # x => st'[r] = st[r]
    BY <1>8, <2>1 DEF CloseProxy, ClosePxy
  <2>. QED
    BY <2>1, <2>2, <2>3, HoldersKept DEF Holds
<1>9. ASSUME NEW c \in Ctl, CloseProxyDel(c)
      PROVE  NoPortLeak'
  BY <1>9, HoldersKept DEF CloseProxyDel, portVars, Holds
<1>10. ASSUME NEW c \in Ctl, StoperLock(c)
      PROVE  NoPortLeak'
  BY <1>10, HoldersKept DEF StoperLock, portVars, Holds
<1>11. ASSUME NEW c \in Ctl, NEW n \in Name, StoperClose(c, n)
      PROVE  NoPortLeak'
  <2>1. PICK x \in Pxy : x = proxies[c][n] /\ port[x] \in Port /\ Release(port[x])
    BY <1>11 DEF StoperClose, ClosePxy
  <2>2. \A q \in Port : usedPorts'[q] # NoName => usedPorts[q] # NoName /\ q # port[x]
    BY <1>0, <2>1, ReleaseSpec
  <2>3. UNCHANGED port /\ \A r \in Pxy : r # x => st'[r] = st[r]
    BY <1>11, <2>1 DEF StoperClose, ClosePxy
  <2>. QED
    BY <2>1, <2>2, <2>3, HoldersKept DEF Holds
<1>12. ASSUME NEW c \in Ctl, StoperDel(c)
      PROVE  NoPortLeak'
  BY <1>12, HoldersKept DEF StoperDel, portVars, Holds
<1>13. ASSUME NEW c \in Ctl, StoperUnlock(c)
      PROVE  NoPortLeak'
  BY <1>13, HoldersKept DEF StoperUnlock, portVars, Holds
<1>14. ASSUME NEW p \in Pxy, ForwarderClose(p)
      PROVE  NoPortLeak'
  <2>0. port[p] \in Port /\ Release(port[p])
    BY <1>14 DEF ForwarderClose
  <2>1. PICK x \in Port : x = port[p] /\ Release(x)
    BY <2>0, Zenon
  <2>2. \A q \in Port : usedPorts'[q] # NoName => usedPorts[q] # NoName
    <3>1. usedPorts'[x] = NoName /\ \A q \in Port : q # x => usedPorts'[q] = usedPorts[q]
      BY <1>0, <2>1, ReleaseSpec
    <3>. QED
      BY <3>1, Zenon
  <2>3. UNCHANGED <<port, st>>
    BY <1>14 DEF ForwarderClose
  <2>. QED
    BY <2>2, <2>3, HoldersKept DEF Holds
<1>15. ASSUME NEW p \in Port, OtherProcess(p)
      PROVE  NoPortLeak'
  BY <1>15, HoldersKept DEF OtherProcess, portVars, Holds
<1>16. ASSUME CleanReservedPorts
      PROVE  NoPortLeak'
  BY <1>16, HoldersKept DEF CleanReservedPorts, CleanReserved, Holds
<1>17. CASE UNCHANGED vars
  BY <1>17, HoldersKept, SMTT(60) DEF vars, portVars, Holds
<1>. QED
  BY <1>1, <1>2, <1>3, <1>4, <1>5, <1>6, <1>7, <1>8,
     <1>9, <1>10, <1>11, <1>12, <1>13, <1>14, <1>15, <1>16, <1>17
  DEF Next, RegisterStep, StoperStep

\* Every step keeps the shared manager free of names nobody will delete.
LEMMA NameStep == IInv /\ [Next]_vars => NameInv'
<1> SUFFICES ASSUME IInv, [Next]_vars
             PROVE  NameInv'
  OBVIOUS
<1> USE DEF IInv, TypeOK, RegInv, HeldInv, ctlVars, objVars, NameInv, NoGhostName
<1>1. ASSUME NEW c \in Ctl, NEW n \in Name, NEW w \in Want, NEW p \in Pxy,
             RegisterQuota(c, n, w, p)
      PROVE  NameInv'
  BY <1>1, SMTT(60) DEF RegisterQuota
<1>2. ASSUME NEW c \in Ctl, RegisterExist(c)
      PROVE  NameInv'
  BY <1>2 DEF RegisterExist, RegisterFails, RegisterEnds
<1>3. ASSUME NEW c \in Ctl, RegisterAcquire(c)
      PROVE  NameInv'
  BY <1>3 DEF RegisterAcquire, RegisterFails, RegisterEnds
<1>4. ASSUME NEW c \in Ctl, RegisterListen(c)
      PROVE  NameInv'
  BY <1>4 DEF RegisterListen
<1>5. ASSUME NEW c \in Ctl, RegisterAdd(c)
      PROVE  NameInv'
  <2>1. reg[c] = "add" /\ regp[c] \in Pxy /\ owner[regp[c]] = c /\ ctlSt[c] = "up"
    BY <1>5 DEF RegisterAdd
  <2>2. CASE UNCHANGED pxys
    BY <1>5, <2>1, <2>2 DEF RegisterAdd
  <2>3. CASE pxys' # pxys
    <3>1. /\ pxys[pname[regp[c]]] = NoPxy
          /\ pxys' = [pxys EXCEPT ![pname[regp[c]]] = regp[c]]
          /\ reg' = [reg EXCEPT ![c] = "insert"]
          /\ UNCHANGED <<regp, owner, pname, proxies, closing, todo, ctlSt>>
      BY <1>5, <2>3 DEF RegisterAdd
    <3>2. NoGhostName'
      BY <2>1, <3>1
    <3>. QED
      BY <2>1, <3>1, <3>2
  <2>. QED
    BY <2>2, <2>3
<1>6. ASSUME NEW c \in Ctl, RegisterUndo(c)
      PROVE  NameInv'
  BY <1>6 DEF RegisterUndo, RegisterFails, RegisterEnds
<1>7. ASSUME NEW c \in Ctl, RegisterInsert(c)
      PROVE  NameInv'
  BY <1>7 DEF RegisterInsert, RegisterEnds
<1>8. ASSUME NEW c \in Ctl, NEW n \in Name, CloseProxy(c, n)
      PROVE  NameInv'
  BY <1>8 DEF CloseProxy, ClosePxy, Unlocked
<1>9. ASSUME NEW c \in Ctl, CloseProxyDel(c)
      PROVE  NameInv'
  BY <1>9 DEF CloseProxyDel
<1>10. ASSUME NEW c \in Ctl, StoperLock(c)
      PROVE  NameInv'
  BY <1>10 DEF StoperLock, Unlocked
<1>11. ASSUME NEW c \in Ctl, NEW n \in Name, StoperClose(c, n)
      PROVE  NameInv'
  BY <1>11 DEF StoperClose, ClosePxy
<1>12. ASSUME NEW c \in Ctl, StoperDel(c)
      PROVE  NameInv'
  BY <1>12 DEF StoperDel
<1>13. ASSUME NEW c \in Ctl, StoperUnlock(c)
      PROVE  NameInv'
  BY <1>13 DEF StoperUnlock
<1>14. ASSUME NEW p \in Pxy, ForwarderClose(p)
      PROVE  NameInv'
  BY <1>14 DEF ForwarderClose
<1>15. ASSUME NEW p \in Port, OtherProcess(p)
      PROVE  NameInv'
  BY <1>15 DEF OtherProcess
<1>16. ASSUME CleanReservedPorts
      PROVE  NameInv'
  BY <1>16 DEF CleanReservedPorts
<1>17. CASE UNCHANGED vars
  BY <1>17 DEF vars
<1>. QED
  BY <1>1, <1>2, <1>3, <1>4, <1>5, <1>6, <1>7, <1>8,
     <1>9, <1>10, <1>11, <1>12, <1>13, <1>14, <1>15, <1>16, <1>17
  DEF Next, RegisterStep, StoperStep

\* Without the dashboard nobody but the owner of a name deletes it.
LEMMA OwnStep == SInv /\ [Next]_vars => (OwnNameInv /\ ServedIsRegistered)'
<1> SUFFICES ASSUME SInv, [Next]_vars
             PROVE  (OwnNameInv /\ ServedIsRegistered)'
  OBVIOUS
<1> USE DEF SInv, IInv, TypeOK, RegInv, HeldInv, ctlVars, objVars, OwnNameInv, ServedIsRegistered, Serving, NameInv, NoGhostName
<1>1. ASSUME NEW c \in Ctl, NEW n \in Name, NEW w \in Want, NEW p \in Pxy,
             RegisterQuota(c, n, w, p)
      PROVE  (OwnNameInv /\ ServedIsRegistered)'
  <2>0. st[p] = "none" /\ reg[c] = "idle"
    BY <1>1 DEF RegisterQuota
  <2>1. ASSUME NEW d \in Ctl, NEW m \in Name
        PROVE  proxies[d][m] # p
    BY <2>0, FreshUnused
  <2>2. ASSUME NEW d \in Ctl, reg[d] # "idle"
        PROVE  regp[d] # p /\ d # c
    BY <2>0, <2>2, FreshUnused
  <2>3. OwnNameInv'
    BY <1>1, <2>1, <2>2 DEF RegisterQuota, Unlocked
  <2>4. ServedIsRegistered'
    BY <1>1, <2>1 DEF RegisterQuota
  <2>. QED
    BY <2>3, <2>4
<1>2. ASSUME NEW c \in Ctl, RegisterExist(c)
      PROVE  (OwnNameInv /\ ServedIsRegistered)'
  BY <1>2 DEF RegisterExist, RegisterFails, RegisterEnds
<1>3. ASSUME NEW c \in Ctl, RegisterAcquire(c)
      PROVE  (OwnNameInv /\ ServedIsRegistered)'
  BY <1>3 DEF RegisterAcquire, RegisterFails, RegisterEnds
<1>4. ASSUME NEW c \in Ctl, RegisterListen(c)
      PROVE  (OwnNameInv /\ ServedIsRegistered)'
  BY <1>4 DEF RegisterListen
<1>5. ASSUME NEW c \in Ctl, RegisterAdd(c)
      PROVE  (OwnNameInv /\ ServedIsRegistered)'
  BY <1>5 DEF RegisterAdd
<1>6. ASSUME NEW c \in Ctl, RegisterUndo(c)
      PROVE  (OwnNameInv /\ ServedIsRegistered)'
  BY <1>6 DEF RegisterUndo, RegisterFails, RegisterEnds
<1>7. ASSUME NEW c \in Ctl, RegisterInsert(c)
      PROVE  (OwnNameInv /\ ServedIsRegistered)'
  BY <1>7 DEF RegisterInsert, RegisterEnds
<1>8. ASSUME NEW c \in Ctl, NEW n \in Name, CloseProxy(c, n)
      PROVE  (OwnNameInv /\ ServedIsRegistered)'
  BY <1>8 DEF CloseProxy, ClosePxy, Unlocked, CloseCaller
<1>9. ASSUME NEW c \in Ctl, CloseProxyDel(c)
      PROVE  (OwnNameInv /\ ServedIsRegistered)'
  BY <1>9 DEF CloseProxyDel
<1>10. ASSUME NEW c \in Ctl, StoperLock(c)
      PROVE  (OwnNameInv /\ ServedIsRegistered)'
  BY <1>10 DEF StoperLock, Unlocked
<1>11. ASSUME NEW c \in Ctl, NEW n \in Name, StoperClose(c, n)
      PROVE  (OwnNameInv /\ ServedIsRegistered)'
  BY <1>11 DEF StoperClose, ClosePxy
<1>12. ASSUME NEW c \in Ctl, StoperDel(c)
      PROVE  (OwnNameInv /\ ServedIsRegistered)'
  BY <1>12 DEF StoperDel
<1>13. ASSUME NEW c \in Ctl, StoperUnlock(c)
      PROVE  (OwnNameInv /\ ServedIsRegistered)'
  BY <1>13 DEF StoperUnlock
<1>14. ASSUME NEW p \in Pxy, ForwarderClose(p)
      PROVE  (OwnNameInv /\ ServedIsRegistered)'
  BY <1>14 DEF ForwarderClose
<1>15. ASSUME NEW p \in Port, OtherProcess(p)
      PROVE  (OwnNameInv /\ ServedIsRegistered)'
  BY <1>15 DEF OtherProcess
<1>16. ASSUME CleanReservedPorts
      PROVE  (OwnNameInv /\ ServedIsRegistered)'
  BY <1>16 DEF CleanReservedPorts
<1>17. CASE UNCHANGED vars
  BY <1>17 DEF vars
<1>. QED
  BY <1>1, <1>2, <1>3, <1>4, <1>5, <1>6, <1>7, <1>8,
     <1>9, <1>10, <1>11, <1>12, <1>13, <1>14, <1>15, <1>16, <1>17
  DEF Next, RegisterStep, StoperStep

\* The initial state satisfies the inductive invariants.
LEMMA InitSInv == Init => SInv
<1> SUFFICES ASSUME Init
             PROVE  SInv
  OBVIOUS
<1>1. TypeOK
  BY DEF Init, NewManager, TypeOK, PortTypeOK
<1>2. RegInv /\ HeldInv
  BY DEF Init, RegInv, HeldInv
<1>3. PortInv
  BY DEF Init, NewManager, PortInv, PortsPartitioned, NoPortLeak
<1>4. NameInv
  BY DEF Init, NameInv, NoGhostName
<1>5. OwnNameInv /\ ServedIsRegistered
  BY DEF Init, OwnNameInv, ServedIsRegistered, Serving
<1>. QED
  BY <1>1, <1>2, <1>3, <1>4, <1>5 DEF SInv, IInv

\* Every step of every control preserves the inductive invariants.
LEMMA NextSInv == SInv /\ [Next]_vars => SInv'
  BY BooksStep, TypeStep, RegStep, HeldStep, LeakStep, NameStep, OwnStep
  DEF SInv, IInv, PortInv

LEMMA AlwaysSInv == Spec => []SInv
  BY InitSInv, NextSInv, PTL DEF Spec

-----------------------------------------------------------------------------
(* The quota *)

\* The names of ctl.proxies, without the one that is being closed.
LEMMA KeptFinite ==
  ASSUME QuotaInv, NEW d \in Ctl
  PROVE  IsFiniteSet(Kept(d)) /\ Cardinality(Kept(d)) \in Nat
<1>1. Kept(d) \subseteq {n \in Name : proxies[d][n] # NoPxy}
  BY DEF Kept
<1>2. IsFiniteSet({n \in Name : proxies[d][n] # NoPxy})
  BY DEF QuotaInv
<1>3. IsFiniteSet(Kept(d))
  BY <1>1, <1>2, FS_Subset
<1>. QED
  BY <1>3, FS_CardinalityType

\* A step that touches neither the proxies of d nor its counter.
LEMMA QuotaSame ==
  ASSUME QuotaInv, NEW d \in Ctl,
         proxies'[d] = proxies[d],
         portsUsedNum'[d] = portsUsedNum[d],
         ctlSt'[d] = "up" =>
           /\ ctlSt[d] = "up"
           /\ closing'[d] = closing[d]
           /\ reg'[d] = "idle" <=> reg[d] = "idle"
  PROVE  /\ IsFiniteSet({n \in Name : proxies[d][n] # NoPxy})'
         /\ QuotaOf(d)'
<1>1. IsFiniteSet({n \in Name : proxies[d][n] # NoPxy}) /\ QuotaOf(d)
  BY DEF QuotaInv
<1>2. {n \in Name : proxies'[d][n] # NoPxy} = {n \in Name : proxies[d][n] # NoPxy}
  OBVIOUS
<1>3. ctlSt'[d] = "up" => Kept(d)' = Kept(d) /\ InProgress(d)' = InProgress(d)
  BY DEF Kept, InProgress
<1>. QED
  BY <1>1, <1>2, <1>3 DEF QuotaOf

\* The counter of d moves as what d has and is registering, or by more.
LEMMA QuotaMoves ==
  ASSUME NEW d \in Ctl, QuotaOf(d),
         Cardinality(Kept(d)) \in Nat, Cardinality(Kept(d)') \in Nat,
         InProgress(d) \in Nat, InProgress(d)' \in Nat,
         portsUsedNum[d] \in Int, portsUsedNum'[d] \in Int,
         ctlSt'[d] = ctlSt[d],
         MaxPorts > 0 =>
           /\ portsUsedNum'[d] <= MaxPorts
           /\ Cardinality(Kept(d)') + InProgress(d)' - portsUsedNum'[d]
                <= Cardinality(Kept(d)) + InProgress(d) - portsUsedNum[d]
           /\ ~Dashboard =>
                Cardinality(Kept(d)') + InProgress(d)' - portsUsedNum'[d]
                  = Cardinality(Kept(d)) + InProgress(d) - portsUsedNum[d]
  PROVE  QuotaOf(d)'
<1> SUFFICES ASSUME MaxPorts > 0, ctlSt[d] = "up"
             PROVE  /\ Cardinality(Kept(d)') + InProgress(d)' <= portsUsedNum'[d]
                    /\ ~Dashboard =>
                         Cardinality(Kept(d)') + InProgress(d)' = portsUsedNum'[d]
  BY DEF QuotaOf
<1>1. /\ Cardinality(Kept(d)) + InProgress(d) <= portsUsedNum[d]
      /\ ~Dashboard => Cardinality(Kept(d)) + InProgress(d) = portsUsedNum[d]
  BY DEF QuotaOf
<1>. QED
  BY <1>1

\* A registration that fails gives back what it counted up.
LEMMA QuotaFails ==
  ASSUME QuotaInv, TypeOK, NEW d \in Ctl, RegisterFails(d), reg[d] # "idle",
         UNCHANGED <<ctlSt, proxies, closing>>
  PROVE  QuotaOf(d)'
<1>1. QuotaOf(d)
  BY DEF QuotaInv
<1>2. Kept(d)' = Kept(d) /\ InProgress(d) = 1 /\ InProgress(d)' = 0
  BY DEF Kept, InProgress, RegisterFails, RegisterEnds, TypeOK
<1>3. MaxPorts > 0 => portsUsedNum'[d] = portsUsedNum[d] - 1
  BY DEF RegisterFails, GiveBackQuota, TypeOK
<1>4. portsUsedNum[d] \in Int
  BY DEF TypeOK
<1>. QED
  BY <1>1, <1>2, <1>3, <1>4, KeptFinite DEF QuotaOf

\* Every step keeps the counter of every control right.
LEMMA QuotaStep == SInv /\ QuotaInv /\ [Next]_vars => QuotaInv'
<1> SUFFICES ASSUME SInv, QuotaInv, [Next]_vars
             PROVE  QuotaInv'
  OBVIOUS
<1> DEFINE Has(d) == {n \in Name : proxies[d][n] # NoPxy}
           Good(d) == IsFiniteSet(Has(d)) /\ QuotaOf(d)
<1> SUFFICES ASSUME NEW d \in Ctl
             PROVE  Good(d)'
  BY DEF QuotaInv
<1>0. TypeOK /\ RegInv /\ HeldInv
  BY DEF SInv, IInv
<1>a. /\ IsFiniteSet(Has(d)) /\ IsFiniteSet(Kept(d)) /\ Cardinality(Kept(d)) \in Nat
      /\ QuotaOf(d) /\ portsUsedNum[d] \in Int
  BY <1>0, KeptFinite DEF QuotaInv, TypeOK
<1>1. ASSUME NEW c \in Ctl, NEW n \in Name, NEW w \in Want, NEW p \in Pxy,
             RegisterQuota(c, n, w, p)
      PROVE  Good(d)'
  <2>1. CASE d # c
    BY <1>1, <1>0, <2>1, QuotaSame DEF RegisterQuota, TypeOK
  <2>2. CASE d = c
    <3>1. Kept(d)' = Kept(d) /\ InProgress(d) = 0 /\ InProgress(d)' = 1 /\ Has(d)' = Has(d)
      BY <1>1, <1>0, <2>2 DEF RegisterQuota, TypeOK, Kept, InProgress
    <3>2. /\ ctlSt'[d] = ctlSt[d]
          /\ MaxPorts > 0 => /\ portsUsedNum'[d] = portsUsedNum[d] + 1
                             /\ portsUsedNum[d] + 1 <= MaxPorts
      BY <1>1, <1>0, <2>2 DEF RegisterQuota, TypeOK
    <3>3. QuotaOf(d)'
      BY <1>0, <1>1, <1>a, <2>2, <3>1, <3>2, QuotaMoves DEF RegisterQuota
    <3>. QED
      BY <1>a, <3>1, <3>3
  <2>. QED
    BY <2>1, <2>2
<1>2. ASSUME NEW c \in Ctl, RegisterFails(c), reg[c] # "idle",
             UNCHANGED <<ctlSt, proxies, closing>>
      PROVE  Good(d)'
  <2>1. CASE d # c
    BY <1>2, <1>0, <2>1, QuotaSame
    DEF RegisterFails, RegisterEnds, GiveBackQuota, TypeOK
  <2>2. CASE d = c
    BY <1>2, <1>0, <1>a, <2>2, QuotaFails
  <2>. QED
    BY <2>1, <2>2
<1>3. ASSUME NEW c \in Ctl, reg[c] # "idle", reg'[c] # "idle",
             \A e \in Ctl : e # c => reg'[e] = reg[e],
             UNCHANGED <<ctlSt, proxies, closing, portsUsedNum>>
      PROVE  Good(d)'
  BY <1>3, QuotaSame
<1>4. ASSUME NEW c \in Ctl, RegisterInsert(c)
      PROVE  Good(d)'
  <2>1. CASE d # c
    BY <1>4, <1>0, <2>1, QuotaSame DEF RegisterInsert, RegisterEnds, TypeOK
  <2>2. CASE d = c
    <3>1. PICK n \in Name : /\ n = pname[regp[d]] /\ regp[d] \in Pxy
                            /\ closing[d] = NoName /\ ctlSt[d] = "up"
      BY <1>4, <1>0, <2>2 DEF RegisterInsert, Unlocked, TypeOK, RegInv
    <3>2. /\ Kept(d)' = Kept(d) \cup {n} /\ Has(d)' = Has(d) \cup {n}
          /\ InProgress(d) = 1 /\ InProgress(d)' = 0
      BY <1>4, <1>0, <2>2, <3>1
      DEF RegisterInsert, RegisterEnds, TypeOK, Kept, InProgress
    <3>3. Cardinality(Kept(d) \cup {n}) \in {Cardinality(Kept(d)), Cardinality(Kept(d)) + 1}
      BY <1>a, FS_AddElement, Zenon
    <3>4. ~Dashboard => n \notin Kept(d)
      <4> SUFFICES ASSUME ~Dashboard, n \in Kept(d)
                   PROVE  FALSE
        OBVIOUS
      <4>1. pxys[n] = regp[d]
        BY <1>4, <2>2, <3>1 DEF RegisterInsert, SInv, OwnNameInv
      <4>2. pxys[n] = proxies[d][n] /\ proxies[d][n] # NoPxy
        BY <3>1 DEF SInv, ServedIsRegistered, Serving, Kept
      <4>3. proxies[d][n] # regp[d]
        BY <1>0, <4>2, Zenon DEF HeldInv
      <4>. QED
        BY <4>1, <4>2, <4>3
    <3>5. ~Dashboard => Cardinality(Kept(d) \cup {n}) = Cardinality(Kept(d)) + 1
      BY <1>a, <3>4, FS_AddElement
    <3>6. Cardinality(Kept(d) \cup {n}) \in Nat /\ IsFiniteSet(Has(d) \cup {n})
      BY <1>a, FS_AddElement, FS_CardinalityType
    <3>7. UNCHANGED <<ctlSt, portsUsedNum>>
      BY <1>4 DEF RegisterInsert
    <3>8. QuotaOf(d)'
      <4>1. MaxPorts > 0 => portsUsedNum'[d] <= MaxPorts
        BY <1>a, <3>7 DEF QuotaOf
      <4>2. /\ Cardinality(Kept(d)') + InProgress(d)' - portsUsedNum'[d]
                 <= Cardinality(Kept(d)) + InProgress(d) - portsUsedNum[d]
            /\ ~Dashboard =>
                 Cardinality(Kept(d)') + InProgress(d)' - portsUsedNum'[d]
                   = Cardinality(Kept(d)) + InProgress(d) - portsUsedNum[d]
        BY <1>a, <3>2, <3>3, <3>5, <3>6, <3>7
      <4>3. /\ Cardinality(Kept(d)') \in Nat /\ portsUsedNum'[d] \in Int
            /\ InProgress(d) \in Nat /\ InProgress(d)' \in Nat
            /\ ctlSt'[d] = ctlSt[d]
        BY <1>a, <3>2, <3>6, <3>7
      <4>. QED
        BY <1>a, <4>1, <4>2, <4>3, QuotaMoves
    <3>. QED
      BY <3>2, <3>6, <3>8
  <2>. QED
    BY <2>1, <2>2
<1>5. ASSUME NEW c \in Ctl, NEW n \in Name, CloseProxy(c, n)
      PROVE  Good(d)'
  <2>1. CASE d # c
    BY <1>5, <1>0, <2>1, QuotaSame DEF CloseProxy, GiveBackQuota, TypeOK
  <2>2. CASE d = c
    <3>1. n \in Kept(d) /\ Kept(d)' = Kept(d) \ {n} /\ Has(d)' = Has(d)
          /\ InProgress(d)' = InProgress(d)
      BY <1>5, <1>0, <2>2 DEF CloseProxy, Unlocked, TypeOK, Kept, InProgress
    <3>2. Cardinality(Kept(d) \ {n}) = Cardinality(Kept(d)) - 1
      BY <1>a, <3>1, FS_RemoveElement
    <3>3. UNCHANGED ctlSt /\ (MaxPorts > 0 => portsUsedNum'[d] = portsUsedNum[d] - 1)
      BY <1>5, <1>0, <2>2 DEF CloseProxy, GiveBackQuota, TypeOK
    <3>4. InProgress(d) \in Nat
      BY DEF InProgress
    <3>5. Cardinality(Kept(d)') \in Nat
      BY <1>a, <3>1, FS_RemoveElement, FS_CardinalityType
    <3>6. QuotaOf(d)'
      <4>1. /\ MaxPorts > 0 => portsUsedNum'[d] <= MaxPorts
            /\ portsUsedNum'[d] \in Int
        BY <1>0, <1>5, <1>a, <3>3 DEF QuotaOf, CloseProxy, GiveBackQuota
      <4>2. MaxPorts > 0 =>
            /\ Cardinality(Kept(d)') + InProgress(d)' - portsUsedNum'[d]
                 <= Cardinality(Kept(d)) + InProgress(d) - portsUsedNum[d]
            /\ ~Dashboard =>
                 Cardinality(Kept(d)') + InProgress(d)' - portsUsedNum'[d]
                   = Cardinality(Kept(d)) + InProgress(d) - portsUsedNum[d]
        BY <1>a, <3>1, <3>2, <3>3, <3>4
      <4>3. /\ Cardinality(Kept(d)') \in Nat /\ portsUsedNum'[d] \in Int
            /\ InProgress(d) \in Nat /\ InProgress(d)' \in Nat
            /\ ctlSt'[d] = ctlSt[d]
        BY <1>a, <3>1, <3>3, <3>4, <3>5, <4>1
      <4>. QED
        BY <1>a, <4>1, <4>2, <4>3, QuotaMoves
    <3>. QED
      BY <1>a, <3>1, <3>6
  <2>. QED
    BY <2>1, <2>2
<1>6. ASSUME NEW c \in Ctl, CloseProxyDel(c)
      PROVE  Good(d)'
  <2>1. CASE d # c
    BY <1>6, <1>0, <2>1, QuotaSame DEF CloseProxyDel, TypeOK
  <2>2. CASE d = c
    <3>1. /\ Kept(d)' = Kept(d) /\ Has(d)' \subseteq Has(d)
          /\ InProgress(d)' = InProgress(d)
      BY <1>6, <1>0, <2>2 DEF CloseProxyDel, TypeOK, Kept, InProgress
    <3>2. UNCHANGED <<ctlSt, portsUsedNum>>
      BY <1>6 DEF CloseProxyDel
    <3>3. IsFiniteSet(Has(d)')
      BY <1>a, <3>1, FS_Subset
    <3>. QED
      BY <1>a, <3>1, <3>2, <3>3 DEF QuotaOf
  <2>. QED
    BY <2>1, <2>2
<1>7. ASSUME NEW c \in Ctl, StoperLock(c) \/ StoperStep(c)
      PROVE  Good(d)'
  <2>1. UNCHANGED <<proxies, portsUsedNum, reg>>
    BY <1>7 DEF StoperLock, StoperStep, StoperClose, StoperDel, StoperUnlock
  <2>2. ctlSt'[d] = "up" => ctlSt[d] = "up" /\ closing'[d] = closing[d]
    BY <1>7, <1>0
    DEF StoperLock, StoperStep, StoperClose, StoperDel, StoperUnlock, TypeOK
  <2>. QED
    BY <2>1, <2>2, QuotaSame
<1>8. ASSUME UNCHANGED <<proxies, portsUsedNum, reg, ctlSt, closing>>
      PROVE  Good(d)'
  BY <1>8, QuotaSame
<1>9. ASSUME NEW c \in Ctl, RegisterStep(c)
      PROVE  Good(d)'
  <2>1. CASE RegisterExist(c)
    <3>1. CASE RegisterFails(c)
      BY <1>2, <2>1, <3>1 DEF RegisterExist
    <3>2. CASE ~RegisterFails(c)
      <4>1. /\ reg[c] # "idle" /\ reg' = [reg EXCEPT ![c] = "acquire"]
            /\ UNCHANGED <<ctlSt, proxies, closing, portsUsedNum>>
        BY <2>1, <3>2 DEF RegisterExist
      <4>2. reg'[c] # "idle" /\ \A e \in Ctl : e # c => reg'[e] = reg[e]
        BY <1>0, <4>1 DEF TypeOK
      <4>. QED
        BY <1>3, <4>1, <4>2
    <3>. QED
      BY <3>1, <3>2
  <2>2. CASE RegisterAcquire(c)
    BY <1>2, <1>3, <1>0, <2>2 DEF RegisterAcquire, TypeOK
  <2>3. CASE RegisterListen(c)
    BY <1>3, <1>0, <2>3, ZenonT(60) DEF RegisterListen, TypeOK
  <2>4. CASE RegisterAdd(c)
    BY <1>3, <1>0, <2>4 DEF RegisterAdd, TypeOK
  <2>5. CASE RegisterUndo(c)
    BY <1>2, <2>5 DEF RegisterUndo
  <2>. QED
    BY <1>9, <1>4, <2>1, <2>2, <2>3, <2>4, <2>5 DEF RegisterStep
<1>10. CASE \E p \in Pxy : ForwarderClose(p)
  BY <1>8, <1>10 DEF ForwarderClose, ctlVars
<1>11. CASE \/ \E p \in Port : OtherProcess(p)
            \/ CleanReservedPorts
            \/ UNCHANGED vars
  BY <1>8, <1>11 DEF OtherProcess, CleanReservedPorts, vars, ctlVars
<1>. QED
  BY <1>1, <1>5, <1>6, <1>7, <1>9, <1>10, <1>11 DEF Next

\* The counters start at zero with nothing to count.
LEMMA InitQuotaInv == Init => QuotaInv
<1> SUFFICES ASSUME Init, NEW c \in Ctl
             PROVE  IsFiniteSet({n \in Name : proxies[c][n] # NoPxy}) /\ QuotaOf(c)
  BY DEF QuotaInv
<1>1. {n \in Name : proxies[c][n] # NoPxy} = {} /\ Kept(c) = {}
  BY DEF Init, Kept
<1>2. IsFiniteSet({}) /\ Cardinality({}) = 0
  BY FS_EmptySet
<1>3. portsUsedNum[c] = 0 /\ InProgress(c) = 0
  BY DEF Init, InProgress
<1>4. Cardinality(Kept(c)) = 0
  BY <1>1, <1>2
<1>5. QuotaOf(c)
  BY <1>3, <1>4 DEF QuotaOf
<1>. QED
  BY <1>1, <1>2, <1>5

LEMMA AlwaysQuotaInv == Spec => [](SInv /\ QuotaInv)
  BY InitSInv, NextSInv, InitQuotaInv, QuotaStep, PTL DEF Spec

-----------------------------------------------------------------------------
(* The theorems *)

\* Type correctness of the registry.
THEOREM TypeCorrect == Spec => []TypeOK
<1>1. SInv => TypeOK
  BY DEF SInv, IInv
<1>. QED
  BY <1>1, AlwaysSInv, PTL

\* Acquire and Release keep freePorts and usedPorts complementary whatever the
\* controls, their error paths and the double Close of a udp proxy do.
THEOREM PortsPartitionedAlways == Spec => []PortsPartitioned
<1>1. SInv => PortsPartitioned
  BY DEF SInv, IInv, PortInv
<1>. QED
  BY <1>1, AlwaysSInv, PTL

\* No error path of RegisterProxy and no close leaves a port marked as used
\* that no proxy holds.
THEOREM NoPortLeakAlways == Spec => []NoPortLeak
<1>1. SInv => NoPortLeak
  BY DEF SInv, IInv, PortInv
<1>. QED
  BY <1>1, AlwaysSInv, PTL

\* The shared proxy manager never keeps the name of a control that has closed,
\* with the dashboard or without it.
THEOREM NoGhostNameAlways == Spec => []NoGhostName
<1>1. SInv => NoGhostName
  BY DEF SInv, IInv, NameInv
<1>. QED
  BY <1>1, AlwaysSInv, PTL

\* Without the dashboard a proxy that a control serves is the registered one
\* and listens: Exist, Run and Add of several controls may interleave freely.
THEOREM ServedIsRegisteredAlways == Spec => []ServedIsRegistered
<1>1. SInv => ServedIsRegistered
  BY DEF SInv
<1>. QED
  BY <1>1, AlwaysSInv, PTL

\* A client never holds more ports than max_ports_per_client, the registration
\* under way included, with the dashboard or without it.
THEOREM WithinQuotaAlways == Spec => []WithinQuota
<1>1. SInv /\ QuotaInv => WithinQuota
  <2> SUFFICES ASSUME SInv, QuotaInv, MaxPorts > 0, NEW c \in Ctl, ctlSt[c] = "up"
               PROVE  Cardinality(Kept(c)) + InProgress(c) <= MaxPorts
    BY DEF WithinQuota
  <2>1. /\ Cardinality(Kept(c)) + InProgress(c) <= portsUsedNum[c]
        /\ portsUsedNum[c] <= MaxPorts
    BY DEF QuotaInv, QuotaOf
  <2>2. Cardinality(Kept(c)) \in Nat /\ InProgress(c) \in Nat /\ portsUsedNum[c] \in Int
    BY KeptFinite DEF SInv, IInv, TypeOK, InProgress
  <2>. QED
    BY <2>1, <2>2
<1>. QED
  BY <1>1, AlwaysQuotaInv, PTL

\* Without the dashboard portsUsedNum is exactly what a control has and is
\* registering: no failed registration and no close leaks or mints quota.
THEOREM QuotaExactAlways ==
  ASSUME ~Dashboard
  PROVE  Spec => []QuotaExact
<1>1. SInv /\ QuotaInv => QuotaExact
  BY DEF QuotaInv, QuotaOf, QuotaExact
<1>. QED
  BY <1>1, AlwaysQuotaInv, PTL

-----------------------------------------------------------------------------
(* The names: without the dashboard every step is one of NameRegistry *)

\* A step that leaves the shared manager and the controls alone, and makes over
\* no object that has a name, is a stutter of the abstract registry.
LEMMA NamesStutter ==
  ASSUME SInv, UNCHANGED <<pxys, ctlSt, proxies, closing>>,
         \A n \in Name : pxys[n] # NoPxy => owner'[pxys[n]] = owner[pxys[n]]
  PROVE  UNCHANGED Names!vars
<1>1. Holders' = Holders
  BY DEF Holders
<1>2. ServedNames' = ServedNames
  BY DEF ServedNames, Serving
<1>. QED
  BY <1>1, <1>2 DEF Names!vars

\* RegisterAdd claims a name that nobody holds.
LEMMA AddClaims ==
  ASSUME SInv, NEW c \in Ctl, RegisterAdd(c)
  PROVE  [Names!Next]_(Names!vars)
<1> DEFINE n == pname[regp[c]]
<1>0. /\ ctlSt[c] = "up" /\ owner[regp[c]] = c /\ regp[c] \in Pxy /\ n \in Name
  BY DEF SInv, IInv, TypeOK, RegInv, RegisterAdd
<1>1. CASE pxys[n] # NoPxy
  BY <1>1, NamesStutter DEF RegisterAdd, objVars
<1>2. CASE pxys[n] = NoPxy
  <2>1. pxys' = [pxys EXCEPT ![n] = regp[c]] /\ UNCHANGED <<ctlSt, proxies, closing, owner>>
    BY <1>2 DEF RegisterAdd, objVars
  <2>2. ServedNames' = ServedNames
    BY <2>1 DEF ServedNames, Serving
  <2>3. Holders[n] = {}
    BY <1>0, <1>2 DEF Holders
  <2>4. Holders' = [Holders EXCEPT ![n] = {c}]
    BY <1>0, <2>1 DEF Holders, SInv, IInv, TypeOK
  <2>5. Names!Claim(c, n)
    BY <1>0, <2>1, <2>2, <2>3, <2>4 DEF Names!Claim
  <2>. QED
    BY <1>0, <2>5 DEF Names!Next
<1>. QED
  BY <1>1, <1>2

\* RegisterInsert begins to serve a name that the control holds.
LEMMA InsertServes ==
  ASSUME SInv, ~Dashboard, NEW c \in Ctl, RegisterInsert(c)
  PROVE  [Names!Next]_(Names!vars)
<1> DEFINE p == regp[c]
           n == pname[p]
<1>0. /\ ctlSt[c] = "up" /\ owner[p] = c /\ p \in Pxy /\ n \in Name
      /\ pxys[n] = p /\ closing[c] = NoName
  BY DEF SInv, IInv, TypeOK, RegInv, RegisterInsert, OwnNameInv
<1>1. /\ proxies' = [proxies EXCEPT ![c][n] = p]
      /\ UNCHANGED <<ctlSt, pxys, closing, owner>>
  BY DEF RegisterInsert, objVars
<1>2. ~Serving(c, n)
  BY <1>0 DEF SInv, IInv, HeldInv, ServedIsRegistered
<1>3. ServedNames' = [ServedNames EXCEPT ![c] = @ \cup {n}]
  <2>1. ASSUME NEW d \in Ctl, NEW m \in Name
        PROVE  Serving(d, m)' <=> Serving(d, m) \/ (d = c /\ m = n)
    BY <1>0, <1>1 DEF Serving, SInv, IInv, TypeOK
  <2>2. {m \in Name : Serving(c, m)}' = {m \in Name : Serving(c, m)} \cup {n}
    BY <1>0, <2>1
  <2>3. ASSUME NEW d \in Ctl, d # c
        PROVE  {m \in Name : Serving(d, m)}' = {m \in Name : Serving(d, m)}
    BY <2>1, <2>3
  <2>. QED
    BY <2>2, <2>3 DEF ServedNames
<1>4. Holders' = Holders /\ Holders[n] = {c}
  BY <1>0, <1>1 DEF Holders
<1>5. n \notin ServedNames[c]
  BY <1>0, <1>2 DEF ServedNames
<1>6. Names!Serve(c, n)
  BY <1>0, <1>1, <1>3, <1>4, <1>5 DEF Names!Serve
<1>. QED
  BY <1>0, <1>6 DEF Names!Next

\* CloseProxy ends serving a name, which the control still holds.
LEMMA CloseEndsServing ==
  ASSUME SInv, ~Dashboard, NEW c \in Ctl, NEW n \in Name, CloseProxy(c, n)
  PROVE  [Names!Next]_(Names!vars)
<1>0. /\ ctlSt[c] = "up" /\ closing[c] = NoName /\ proxies[c][n] # NoPxy
      /\ closing' = [closing EXCEPT ![c] = n]
      /\ UNCHANGED <<ctlSt, pxys, proxies, owner>>
  BY DEF CloseProxy, CloseCaller, Unlocked
<1>1. Serving(c, n)
  BY <1>0 DEF Serving
<1>2. pxys[n] = proxies[c][n] /\ owner[proxies[c][n]] = c
  BY <1>0, <1>1 DEF SInv, IInv, HeldInv, ServedIsRegistered
<1>3. Holders' = Holders /\ Holders[n] = {c}
  BY <1>0, <1>2 DEF Holders
<1>4. ServedNames' = [ServedNames EXCEPT ![c] = @ \ {n}]
  <2>1. ASSUME NEW d \in Ctl, NEW m \in Name
        PROVE  Serving(d, m)' <=> Serving(d, m) /\ ~(d = c /\ m = n)
    BY <1>0 DEF Serving, SInv, IInv, TypeOK
  <2>2. {m \in Name : Serving(c, m)}' = {m \in Name : Serving(c, m)} \ {n}
    BY <1>0, <2>1
  <2>3. ASSUME NEW d \in Ctl, d # c
        PROVE  {m \in Name : Serving(d, m)}' = {m \in Name : Serving(d, m)}
    BY <2>1, <2>3
  <2>. QED
    BY <2>2, <2>3 DEF ServedNames
<1>5. n \in ServedNames[c]
  BY <1>1 DEF ServedNames
<1>6. Names!EndServing(c, n)
  BY <1>0, <1>3, <1>4, <1>5 DEF Names!EndServing
<1>. QED
  BY <1>6 DEF Names!Next

\* A control that deletes a name from the shared manager holds it and has ended
\* serving it.
LEMMA DelGivesUp ==
  ASSUME SInv, ~Dashboard, NEW c \in Ctl, closing[c] # NoName,
         pxys' = [pxys EXCEPT ![closing[c]] = NoPxy],
         UNCHANGED <<ctlSt, owner>>, ServedNames' = ServedNames
  PROVE  [Names!Next]_(Names!vars)
<1> DEFINE n == closing[c]
<1>0. n \in Name /\ ctlSt[c] # "closed" /\ pxys[n] = proxies[c][n] /\ proxies[c][n] # NoPxy
  BY DEF SInv, IInv, TypeOK, HeldInv, OwnNameInv
<1>1. owner[pxys[n]] = c
  BY <1>0 DEF SInv, IInv, HeldInv
<1>2. Holders[n] = {c}
  BY <1>0, <1>1 DEF Holders
<1>3. Holders' = [Holders EXCEPT ![n] = {}]
  BY <1>0 DEF Holders, SInv, IInv, TypeOK
<1>4. n \notin ServedNames[c]
  BY DEF ServedNames, Serving
<1>5. Names!GiveUp(c, n)
  BY <1>0, <1>2, <1>3, <1>4 DEF Names!GiveUp
<1>. QED
  BY <1>0, <1>5 DEF Names!Next

\* stoper ends serving everything at once when it takes ctl.mu, and is through
\* with its loop when the control holds no name.
LEMMA StoperQuits ==
  ASSUME SInv, NEW c \in Ctl, StoperLock(c)
  PROVE  [Names!Next]_(Names!vars)
<1>0. /\ ctlSt[c] = "up" /\ ctlSt' = [ctlSt EXCEPT ![c] = "stopping"]
      /\ UNCHANGED <<pxys, proxies, closing, owner>>
  BY DEF StoperLock, objVars
<1>1. Holders' = Holders
  BY <1>0 DEF Holders
<1>2. ServedNames' = [ServedNames EXCEPT ![c] = {}]
  BY <1>0 DEF ServedNames, Serving, SInv, IInv, TypeOK
<1>3. Names!Quit(c)
  BY <1>0, <1>1, <1>2 DEF Names!Quit
<1>. QED
  BY <1>3 DEF Names!Next

LEMMA StoperLeaves ==
  ASSUME SInv, NEW c \in Ctl, StoperUnlock(c)
  PROVE  [Names!Next]_(Names!vars)
<1>0. /\ ctlSt[c] = "stopping" /\ todo[c] = {}
      /\ ctlSt' = [ctlSt EXCEPT ![c] = "closed"]
      /\ UNCHANGED <<pxys, proxies, closing, owner>>
  BY DEF StoperUnlock, objVars
<1>1. Holders' = Holders
  BY <1>0 DEF Holders
<1>2. ServedNames' = ServedNames
  BY <1>0 DEF ServedNames, Serving, SInv, IInv, TypeOK
<1>3. ASSUME NEW n \in Name
      PROVE  Holders[n] # {c}
  BY <1>0 DEF Holders, SInv, IInv, NameInv
<1>4. Names!Leave(c)
  BY <1>0, <1>1, <1>2, <1>3 DEF Names!Leave
<1>. QED
  BY <1>4 DEF Names!Next

\* Every step of ProxyRegistry is a step of NameRegistry or a stutter.
LEMMA NamesStep ==
  ASSUME SInv, [Next]_vars, ~Dashboard
  PROVE  [Names!Next]_(Names!vars)
<1> USE DEF ctlVars, objVars
<1>1. ASSUME NEW c \in Ctl, NEW n \in Name, NEW w \in Want, NEW p \in Pxy,
             RegisterQuota(c, n, w, p)
      PROVE  UNCHANGED Names!vars
  <2>1. ASSUME NEW m \in Name, pxys[m] # NoPxy
        PROVE  owner'[pxys[m]] = owner[pxys[m]]
    <3>1. pxys[m] # p
      BY <1>1, <2>1, FreshUnused DEF RegisterQuota, SInv, IInv, TypeOK, NameInv, NoGhostName
    <3>. QED
      BY <1>1, <2>1, <3>1 DEF RegisterQuota, SInv, IInv, TypeOK
  <2>. QED
    BY <1>1, <2>1, NamesStutter DEF RegisterQuota
<1>2. ASSUME NEW c \in Ctl, \/ RegisterExist(c) \/ RegisterAcquire(c)
                           \/ RegisterListen(c) \/ RegisterUndo(c)
      PROVE  UNCHANGED Names!vars
  BY <1>2, NamesStutter DEF RegisterExist, RegisterAcquire, RegisterListen, RegisterUndo
<1>3. ASSUME NEW c \in Ctl, CloseProxyDel(c)
      PROVE  [Names!Next]_(Names!vars)
  <2>1. ServedNames' = ServedNames
    BY <1>3 DEF CloseProxyDel, ServedNames, Serving, SInv, IInv, TypeOK
  <2>. QED
    BY <1>3, <2>1, DelGivesUp DEF CloseProxyDel
<1>4. ASSUME NEW c \in Ctl, NEW n \in Name, StoperClose(c, n)
      PROVE  UNCHANGED Names!vars
  <2>1. ServedNames' = ServedNames
    BY <1>4 DEF StoperClose, ServedNames, Serving, SInv, IInv, TypeOK
  <2>2. Holders' = Holders
    BY <1>4 DEF StoperClose, Holders
  <2>. QED
    BY <1>4, <2>1, <2>2 DEF StoperClose, Names!vars
<1>5. ASSUME NEW c \in Ctl, StoperDel(c)
      PROVE  [Names!Next]_(Names!vars)
  <2>1. ServedNames' = ServedNames
    BY <1>5 DEF StoperDel, ServedNames, Serving, SInv, IInv, TypeOK
  <2>. QED
    BY <1>5, <2>1, DelGivesUp DEF StoperDel
<1>6. ASSUME NEW p \in Pxy, ForwarderClose(p)
      PROVE  UNCHANGED Names!vars
  BY <1>6, NamesStutter DEF ForwarderClose
<1>7. ASSUME NEW p \in Port, OtherProcess(p)
      PROVE  UNCHANGED Names!vars
  BY <1>7, NamesStutter DEF OtherProcess
<1>8. ASSUME CleanReservedPorts
      PROVE  UNCHANGED Names!vars
  BY <1>8, NamesStutter DEF CleanReservedPorts
<1>9. CASE UNCHANGED vars
  BY <1>9, NamesStutter DEF vars
<1>. QED
  BY <1>1, <1>2, AddClaims, InsertServes, CloseEndsServing, <1>3, StoperQuits,
     <1>4, <1>5, StoperLeaves, <1>6, <1>7, <1>8, <1>9
  DEF Next, RegisterStep, StoperStep

\* Without the dashboard RegisterProxy, CloseProxy and stoper of all controls
\* together implement NameRegistry: a name has one holder, only the holder serves
\* it and gives it up, and a closed control holds none.
THEOREM NamesAreOwnedAlways ==
  ASSUME ~Dashboard
  PROVE  Spec => NamesAreOwned
<1>1. Init => Names!Init
  <2> SUFFICES ASSUME Init
               PROVE  Names!Init
    OBVIOUS
  <2>1. Holders = [n \in Name |-> {}]
    BY DEF Init, Holders
  <2>2. ServedNames = [c \in Ctl |-> {}]
    BY DEF Init, ServedNames, Serving
  <2>. QED
    BY <2>1, <2>2 DEF Init, Names!Init
<1>2. SInv /\ [Next]_vars => [Names!Next]_(Names!vars)
  BY NamesStep
<1>. QED
  BY <1>1, <1>2, AlwaysSInv, PTL DEF Spec, NamesAreOwned, Names!Spec

-----------------------------------------------------------------------------
(* Load-balancing groups: TCPGroup on the same port manager *)

USE GroupAssumption

LEMMA NoRequestIs == NoRequest \in Request /\ NoHead \in [req : Request, realPort : Port \cup {0}]
<1>1. \E r \in [group : Group, key : Key, port : {0}] : TRUE
  <2>1. PICK g \in Group, k \in Key : TRUE
    OBVIOUS
  <2>2. [group |-> g, key |-> k, port |-> 0] \in [group : Group, key : Key, port : {0}]
    OBVIOUS
  <2>. QED
    BY <2>2
<1>2. NoRequest \in [group : Group, key : Key, port : {0}]
  BY <1>1 DEF NoRequest
<1>3. NoRequest \in Request
  BY <1>2 DEF Request
<1>. QED
  BY <1>3 DEF NoHead

\* What Acquire does to the books of the groups; the port may have been in use.
LEMMA GroupAcquire ==
  ASSUME PortTypeOK, PortsPartitioned, NEW n \in Name, NEW w \in Nat, NEW busy,
         NEW p \in Port, AcquireOk(n, w, busy, p)
  PROVE  /\ PortTypeOK' /\ PortsPartitioned'
         /\ usedPorts'[p] # NoName
         /\ \A q \in Port : q # p => usedPorts'[q] = usedPorts[q]
         /\ w # 0 => p = w
BY DEF PortTypeOK, AcquireOk, Grantable, PortsPartitioned

\* A proxy that is done, or refused, has no object and no request.
LEMMA IdleSpec ==
  ASSUME GroupTypeOK, NEW n \in Name, BackToIdle(n)
  PROVE  /\ pc' \in [Name -> Place] /\ obj' \in [Name -> Obj \cup {NoObj}]
         /\ req' \in [Name -> Request]
         /\ pc'[n] = "idle" /\ obj'[n] = NoObj
         /\ \A m \in Name : m # n => pc'[m] = pc[m] /\ obj'[m] = obj[m] /\ req'[m] = req[m]
  BY NoRequestIs DEF BackToIdle, GroupTypeOK, Place

LEMMA IdleMembers ==
  ASSUME GroupTypeOK, MemberInv, NEW n \in Name, BackToIdle(n), head' = head,
         \A o \in Obj : lns'[o] = lns[o] \ {n}
  PROVE  MemberInv'
<1>1. /\ pc'[n] = "idle" /\ obj'[n] = NoObj
      /\ \A m \in Name : m # n => pc'[m] = pc[m] /\ obj'[m] = obj[m] /\ req'[m] = req[m]
  BY IdleSpec
<1>2. \A m \in Name : pc'[m] = "idle" <=> obj'[m] = NoObj
  BY <1>1 DEF MemberInv
<1>3. \A o \in Obj, m \in Name : m \in lns'[o] <=> pc'[m] = "member" /\ obj'[m] = o
  BY <1>1 DEF MemberInv
<1>4. \A o \in Obj : \A m \in lns'[o] : req'[m] = head'[o].req
  BY <1>1 DEF MemberInv, GroupTypeOK
<1>. QED
  BY <1>2, <1>3, <1>4 DEF MemberInv

\* The steps of worker(), of users, of accept loops, of other processes and of the
\* reservations leave the members, the map and the used ports alone.
LEMMA GroupQuiet ==
  ASSUME GroupIInv, PortTypeOK',
         UNCHANGED <<freePorts, usedPorts, groups, lns, head, bound, chClosed,
                     holder, pc, obj, req, real, doubled>>,
         worker' \in [Obj -> {"none", "accept", "send"}],
         deaf' \subseteq Name, extBound' \subseteq Port
  PROVE  GroupIInv'
<1> USE DEF GroupIInv
<1>1. GroupTypeOK'
  BY DEF GroupTypeOK
<1>2. PortsPartitioned' /\ MemberInv' /\ LockInv'
  BY DEF PortsPartitioned, MemberInv, LockInv
<1>3. GroupInv'
  BY DEF GroupInv
<1>4. GroupPortInv'
  BY DEF GroupPortInv, PortOfBinder, PortOfGroup, ApartInv
<1>. QED
  BY <1>1, <1>2, <1>3, <1>4

\* A lookup finds the object that the map has under the name, or one that nobody
\* has.
LEMMA GroupLookup ==
  ASSUME GroupIInv, NEW n \in Name, NEW g \in Group, NEW k \in Key,
         NEW w \in Want, Lookup(n, g, k, w)
  PROVE  GroupIInv'
<1>t. /\ groups \in [Group -> Obj \cup {NoObj}] /\ pc \in [Name -> Place]
      /\ head \in [Obj -> [req : Request, realPort : Port \cup {0}]]
      /\ chClosed \in [Obj -> BOOLEAN] /\ obj \in [Name -> Obj \cup {NoObj}]
      /\ req \in [Name -> Request] /\ lns \in [Obj -> SUBSET Name]
  BY DEF GroupIInv, GroupTypeOK
<1>1. PICK o \in Obj :
        /\ \/ groups[g] = o /\ UNCHANGED <<groups, head, chClosed>>
           \/ /\ groups[g] = NoObj /\ Unused(o)
              /\ groups' = [groups EXCEPT ![g] = o]
              /\ head' = [head EXCEPT ![o] = NoHead]
              /\ chClosed' = [chClosed EXCEPT ![o] = FALSE]
        /\ obj' = [obj EXCEPT ![n] = o]
  BY DEF Lookup
<1>2. /\ pc[n] = "idle" /\ obj[n] = NoObj /\ o # NoObj
      /\ pc' = [pc EXCEPT ![n] = "listen"]
      /\ req' = [req EXCEPT ![n] = [group |-> g, key |-> k, port |-> w]]
      /\ UNCHANGED <<freePorts, usedPorts, reservedPorts, reservedClosed, lns,
                     bound, holder, worker, real, deaf, extBound, doubled>>
  BY DEF Lookup, portVars, GroupIInv, MemberInv
<1>3. /\ pc' \in [Name -> Place] /\ req' \in [Name -> Request]
      /\ obj' \in [Name -> Obj \cup {NoObj}]
      /\ pc'[n] = "listen" /\ obj'[n] = o /\ req'[n].group = g
      /\ \A m \in Name : m # n => pc'[m] = pc[m] /\ obj'[m] = obj[m] /\ req'[m] = req[m]
  <2>1. [group |-> g, key |-> k, port |-> w] \in Request
    BY DEF Request
  <2>. QED
    BY <1>t, <1>1, <1>2, <2>1 DEF Place
<1>4. /\ groups' \in [Group -> Obj \cup {NoObj}] /\ groups'[g] = o
      /\ \A h \in Group : h # g => groups'[h] = groups[h]
      /\ groups[g] = o \/ \A h \in Group : groups[h] # o
  BY <1>t, <1>1 DEF Unused
<1>5. /\ head' \in [Obj -> [req : Request, realPort : Port \cup {0}]]
      /\ \A q \in Obj : lns[q] # {} => head'[q] = head[q]
  <2>1. CASE UNCHANGED head
    BY <1>t, <2>1
  <2>2. CASE Unused(o) /\ head' = [head EXCEPT ![o] = NoHead]
    <3>1. lns[o] = {}
      BY <1>t, <2>2 DEF Unused, GroupIInv, MemberInv
    <3>. QED
      BY <1>t, <2>2, <3>1, NoRequestIs
  <2>. QED
    BY <1>1, <2>1, <2>2
<1>6. chClosed' \in [Obj -> BOOLEAN]
  <2>1. CASE chClosed' = [chClosed EXCEPT ![o] = FALSE]
    BY <1>t, <2>1, Zenon
  <2>2. CASE UNCHANGED chClosed
    BY <1>t, <2>2
  <2>. QED
    BY <1>1, <2>1, <2>2
<1>7. GroupTypeOK' /\ PortsPartitioned'
  BY <1>2, <1>3, <1>4, <1>5, <1>6
  DEF GroupIInv, GroupTypeOK, PortTypeOK, PortsPartitioned
<1>8. MemberInv'
  <2>1. \A m \in Name : pc'[m] = "idle" <=> obj'[m] = NoObj
    BY <1>2, <1>3 DEF GroupIInv, MemberInv
  <2>2. \A q \in Obj, m \in Name : m \in lns'[q] <=> pc'[m] = "member" /\ obj'[m] = q
    BY <1>2, <1>3 DEF GroupIInv, MemberInv
  <2>3. ASSUME NEW q \in Obj, NEW m \in lns[q] PROVE req'[m] = head'[q].req
    <3>1. m \in Name /\ pc[m] = "member" /\ m # n /\ req[m] = head[q].req
      BY <1>t, <1>2, <2>3 DEF GroupIInv, MemberInv
    <3>. QED
      BY <1>3, <1>5, <2>3, <3>1
  <2>. QED
    BY <1>2, <2>1, <2>2, <2>3 DEF MemberInv
<1>9. LockInv'
  BY <1>2, <1>3 DEF GroupIInv, LockInv
<1>10. GroupInv'
  <2>1. \A m \in Name : obj[m] = o => req[m].group = g
    BY <1>1, <1>2 DEF GroupIInv, GroupInv, Unused
  <2>2. \A l, m \in Name : obj'[l] # NoObj /\ obj'[l] = obj'[m]
                             => req'[l].group = req'[m].group
    BY <1>3, <2>1 DEF GroupIInv, GroupInv
  <2>3. \A h, i \in Group : groups'[h] # NoObj /\ groups'[h] = groups'[i] => h = i
    BY <1>2, <1>4 DEF GroupIInv, GroupInv
  <2>4. ASSUME NEW h \in Group, NEW m \in Name, obj'[m] # NoObj, obj'[m] = groups'[h]
        PROVE  req'[m].group = h
    <3>1. CASE h = g
      BY <1>3, <1>4, <2>1, <2>4, <3>1
    <3>2. CASE h # g
      <4>1. groups[h] # o /\ groups'[h] = groups[h]
        BY <1>2, <1>4, <3>2 DEF GroupIInv, GroupInv
      <4>. QED
        BY <1>3, <2>4, <4>1 DEF GroupIInv, GroupInv
    <3>. QED
      BY <3>1, <3>2
  <2>. QED
    BY <2>2, <2>3, <2>4 DEF GroupInv
<1>11. GroupPortInv'
  <2>1. \A m \in Name : pc'[m] = "bind" => m # n /\ pc[m] = "bind" /\ req'[m] = req[m]
    BY <1>3
  <2>. QED
    BY <1>2, <1>5, <2>1 DEF GroupIInv, GroupPortInv, PortOfBinder, PortOfGroup, ApartInv
<1>. QED
  BY <1>7, <1>8, <1>9, <1>10, <1>11 DEF GroupIInv

\* A Listen that is refused before it has touched the group leaves no trace.
LEMMA GroupFails ==
  ASSUME GroupIInv, NEW n \in Name, pc[n] = "listen", BackToIdle(n),
         UNCHANGED <<freePorts, usedPorts, reservedPorts, reservedClosed, groups,
                     lns, head, bound, chClosed, holder, worker, real, deaf,
                     extBound, doubled>>
  PROVE  GroupIInv'
<1> USE DEF GroupIInv
<1>1. /\ pc' \in [Name -> Place] /\ obj' \in [Name -> Obj \cup {NoObj}]
      /\ req' \in [Name -> Request]
      /\ pc'[n] = "idle" /\ obj'[n] = NoObj
      /\ \A m \in Name : m # n => pc'[m] = pc[m] /\ obj'[m] = obj[m] /\ req'[m] = req[m]
  BY IdleSpec
<1>2. GroupTypeOK' /\ PortsPartitioned'
  BY <1>1 DEF GroupTypeOK, PortTypeOK, PortsPartitioned
<1>3. MemberInv'
  BY <1>1 DEF MemberInv, GroupTypeOK
<1>4. LockInv'
  BY <1>1 DEF LockInv
<1>5. GroupInv'
  BY <1>1 DEF GroupInv
<1>6. GroupPortInv'
  BY <1>1 DEF GroupPortInv, PortOfBinder, PortOfGroup, ApartInv
<1>. QED
  BY <1>2, <1>3, <1>4, <1>5, <1>6

\* A proxy joins a group that has members, or is refused.
LEMMA GroupJoin ==
  ASSUME GroupIInv, NEW n \in Name, Join(n)
  PROVE  GroupIInv'
<1>1. PICK o \in Obj : o = obj[n]
  BY DEF Join, GroupIInv, GroupTypeOK, MemberInv
<1>2. /\ pc[n] = "listen" /\ holder[o] = NoName /\ lns[o] # {}
      /\ UNCHANGED <<freePorts, usedPorts, reservedPorts, reservedClosed, groups,
                     head, bound, chClosed, holder, worker, real, deaf, extBound,
                     doubled>>
  BY <1>1 DEF Join, portVars
<1>3. CASE BackToIdle(n) /\ UNCHANGED lns
  BY <1>2, <1>3, GroupFails
<1>4. CASE /\ head[o].req.port = req[n].port /\ head[o].req.key = req[n].key
           /\ lns' = [lns EXCEPT ![o] = @ \cup {n}]
           /\ pc' = [pc EXCEPT ![n] = "member"]
           /\ UNCHANGED <<obj, req>>
  <2>1. head[o].req = req[n]
    <3>1. PICK m \in lns[o] : m \in Name /\ obj[m] = o /\ head[o].req = req[m]
      BY <1>2 DEF GroupIInv, GroupTypeOK, MemberInv
    <3>2. req[m].group = req[n].group
      BY <1>1, <3>1 DEF GroupIInv, GroupInv
    <3>3. head[o].req \in Request /\ req[n] \in Request
      BY DEF GroupIInv, GroupTypeOK
    <3>4. head[o].req.group = req[n].group
      BY <3>1, <3>2
    <3>. QED
      BY <1>4, <3>3, <3>4 DEF Request
  <2>2. /\ pc' \in [Name -> Place] /\ lns' \in [Obj -> SUBSET Name]
        /\ pc'[n] = "member" /\ \A m \in Name : m # n => pc'[m] = pc[m]
        /\ lns'[o] = lns[o] \cup {n} /\ \A q \in Obj : q # o => lns'[q] = lns[q]
    BY <1>4 DEF GroupIInv, GroupTypeOK, Place
  <2>3. GroupTypeOK' /\ PortsPartitioned'
    BY <1>2, <1>4, <2>2 DEF GroupIInv, GroupTypeOK, PortTypeOK, PortsPartitioned
  <2>4. MemberInv'
    BY <1>1, <1>2, <1>4, <2>1, <2>2 DEF GroupIInv, MemberInv
  <2>5. LockInv'
    <3> SUFFICES ASSUME NEW m \in Name, pc'[m] \in {"bind", "remove"}
                 PROVE  holder'[obj'[m]] = m /\ lns'[obj'[m]] = {}
      BY DEF LockInv
    <3>1. m # n /\ pc'[m] = pc[m] /\ obj[m] \in Obj
      BY <2>2 DEF GroupIInv, GroupTypeOK, MemberInv
    <3>2. holder[obj[m]] = m /\ lns[obj[m]] = {}
      BY <3>1 DEF GroupIInv, LockInv
    <3>. QED
      BY <1>2, <1>4, <2>2, <3>1, <3>2
  <2>6. GroupInv'
    BY <1>2, <1>4 DEF GroupIInv, GroupInv
  <2>7. GroupPortInv'
    <3>1. \A m \in Name : pc'[m] = "bind" => pc[m] = "bind"
      BY <2>2
    <3>2. \A q \in Obj : lns'[q] # {} => lns[q] # {}
      BY <1>2, <2>2
    <3>. QED
      BY <1>2, <1>4, <3>1, <3>2
      DEF GroupIInv, GroupPortInv, PortOfBinder, PortOfGroup, ApartInv
  <2>. QED
    BY <2>3, <2>4, <2>5, <2>6, <2>7 DEF GroupIInv
<1>. QED
  BY <1>1, <1>3, <1>4 DEF Join

\* The first member is given a port; if another has it, the history knows.  Or it
\* is refused.
LEMMA GroupFirstAcquire ==
  ASSUME GroupIInv, NEW n \in Name, FirstAcquire(n)
  PROVE  GroupIInv'
<1>1. PICK o \in Obj : o = obj[n]
  BY DEF FirstAcquire, GroupIInv, GroupTypeOK, MemberInv
<1>2. /\ pc[n] = "listen" /\ holder[o] = NoName /\ lns[o] = {}
      /\ UNCHANGED <<groups, lns, head, bound, chClosed, worker, deaf, extBound>>
  BY <1>1 DEF FirstAcquire
<1>t. /\ pc \in [Name -> Place] /\ real \in [Name -> Port \cup {0}]
      /\ holder \in [Obj -> Name \cup {NoName}] /\ req[n].port \in Nat
      /\ PortTypeOK /\ PortsPartitioned /\ doubled \subseteq Port
  BY DEF GroupIInv, GroupTypeOK, Request
<1>3. CASE \E p \in Port :
             /\ AcquireOk(n, req[n].port, BusyPorts, p)
             /\ real' = [real EXCEPT ![n] = p]
             /\ holder' = [holder EXCEPT ![o] = n]
             /\ doubled' = IF Held(p) THEN doubled \cup {p} ELSE doubled \ {p}
             /\ pc' = [pc EXCEPT ![n] = "bind"]
             /\ UNCHANGED <<obj, req>>
  <2>1. PICK p \in Port :
             /\ AcquireOk(n, req[n].port, BusyPorts, p)
             /\ real' = [real EXCEPT ![n] = p]
             /\ holder' = [holder EXCEPT ![o] = n]
             /\ doubled' = IF Held(p) THEN doubled \cup {p} ELSE doubled \ {p}
             /\ pc' = [pc EXCEPT ![n] = "bind"]
             /\ UNCHANGED <<obj, req>>
    BY <1>3
  <2>2. /\ PortTypeOK' /\ PortsPartitioned'
        /\ usedPorts'[p] # NoName
        /\ \A q \in Port : q # p => usedPorts'[q] = usedPorts[q]
        /\ req[n].port # 0 => p = req[n].port
    BY <1>t, <2>1, GroupAcquire
  <2>3. /\ pc' \in [Name -> Place] /\ real' \in [Name -> Port \cup {0}]
        /\ holder' \in [Obj -> Name \cup {NoName}] /\ doubled' \subseteq Port
        /\ pc'[n] = "bind" /\ \A m \in Name : m # n => pc'[m] = pc[m]
        /\ real'[n] = p /\ \A m \in Name : m # n => real'[m] = real[m]
        /\ holder'[o] = n /\ \A q \in Obj : q # o => holder'[q] = holder[q]
        /\ \A q \in Port : q # p => (q \in doubled' <=> q \in doubled)
    BY <1>t, <2>1 DEF Place
  <2>4. /\ \A m \in Name : pc[m] = "bind" /\ real[m] = p => p \in doubled'
        /\ \A q \in Obj : lns[q] # {} /\ head[q].realPort = p => p \in doubled'
    BY <2>1 DEF Held
  <2>5. GroupTypeOK'
    BY <1>2, <2>1, <2>2, <2>3 DEF GroupIInv, GroupTypeOK
  <2>6. MemberInv'
    <3>1. \A m \in Name : pc'[m] = "idle" <=> obj'[m] = NoObj
      BY <1>1, <1>2, <2>1, <2>3 DEF GroupIInv, MemberInv
    <3>2. \A q \in Obj, m \in Name : m \in lns'[q] <=> pc'[m] = "member" /\ obj'[m] = q
      BY <1>1, <1>2, <2>1, <2>3 DEF GroupIInv, MemberInv
    <3>3. \A q \in Obj : \A m \in lns'[q] : req'[m] = head'[q].req
      BY <1>2, <2>1 DEF GroupIInv, MemberInv
    <3>. QED
      BY <3>1, <3>2, <3>3 DEF MemberInv
  <2>7. LockInv'
    <3> SUFFICES ASSUME NEW m \in Name, pc'[m] \in {"bind", "remove"}
                 PROVE  holder'[obj'[m]] = m /\ lns'[obj'[m]] = {}
      BY DEF LockInv
    <3>1. CASE m = n
      BY <1>1, <1>2, <2>1, <2>3, <3>1
    <3>2. CASE m # n
      <4>1. /\ obj[m] \in Obj /\ holder[obj[m]] = m /\ lns[obj[m]] = {}
        BY <2>3, <3>2 DEF GroupIInv, GroupTypeOK, MemberInv, LockInv
      <4>. QED
        BY <1>2, <2>1, <2>3, <4>1
    <3>. QED
      BY <3>1, <3>2
  <2>8. GroupInv'
    BY <1>2, <2>1 DEF GroupIInv, GroupInv
  <2>9. GroupPortInv'
    <3>1. ASSUME NEW m \in Name PROVE PortOfBinder(m)'
      <4>1. CASE m = n
        BY <2>1, <2>2, <2>3, <4>1 DEF PortOfBinder
      <4>2. CASE m # n
        <5>1. pc'[m] = pc[m] /\ real'[m] = real[m] /\ req'[m] = req[m]
          BY <2>1, <2>3, <4>2
        <5>2. PortOfBinder(m)
          BY DEF GroupIInv, GroupPortInv
        <5>3. pc[m] = "bind" /\ real[m] \notin doubled' => usedPorts'[real[m]] # NoName
          BY <2>2, <2>3, <5>2 DEF PortOfBinder
        <5>. QED
          BY <5>1, <5>2, <5>3 DEF PortOfBinder
      <4>. QED
        BY <4>1, <4>2
    <3>2. ASSUME NEW q \in Obj PROVE PortOfGroup(q)'
      <4>1. PortOfGroup(q)
        BY DEF GroupIInv, GroupPortInv
      <4>2. lns[q] # {} /\ head[q].realPort \notin doubled'
              => usedPorts'[head[q].realPort] # NoName
        BY <2>2, <2>3, <4>1 DEF PortOfGroup
      <4>. QED
        BY <1>2, <4>1, <4>2 DEF PortOfGroup
    <3>3. ApartInv'
      <4>1. ASSUME NEW l \in Name, NEW m \in Name, l # m, pc'[l] = "bind", pc'[m] = "bind",
                   real'[l] = real'[m]
            PROVE  real'[l] \in doubled'
        <5>1. CASE l # n /\ m # n
          <6>1. real[l] \in Port /\ real[l] \in doubled /\ real'[l] = real[l]
            BY <2>3, <4>1, <5>1 DEF GroupIInv, GroupPortInv, PortOfBinder, ApartInv
          <6>2. pc[l] = "bind"
            BY <2>3, <4>1, <5>1
          <6>. QED
            BY <2>3, <2>4, <6>1, <6>2
        <5>2. CASE l = n \/ m = n
          BY <2>3, <2>4, <4>1, <5>2
        <5>. QED
          BY <5>1, <5>2
      <4>2. ASSUME NEW m \in Name, NEW q \in Obj, pc'[m] = "bind", lns[q] # {},
                   real'[m] = head[q].realPort
            PROVE  real'[m] \in doubled'
        <5>1. CASE m # n
          <6>1. real[m] \in Port /\ real[m] \in doubled /\ real'[m] = real[m]
            BY <2>3, <4>2, <5>1 DEF GroupIInv, GroupPortInv, PortOfBinder, ApartInv
          <6>2. pc[m] = "bind"
            BY <2>3, <4>2, <5>1
          <6>. QED
            BY <2>3, <2>4, <6>1, <6>2
        <5>2. CASE m = n
          BY <2>3, <2>4, <4>2, <5>2
        <5>. QED
          BY <5>1, <5>2
      <4>3. ASSUME NEW l \in Obj, NEW q \in Obj, l # q, lns[l] # {}, lns[q] # {},
                   head[l].realPort = head[q].realPort
            PROVE  head[l].realPort \in doubled'
        <5>1. head[l].realPort \in Port /\ head[l].realPort \in doubled
          BY <4>3 DEF GroupIInv, GroupPortInv, PortOfGroup, ApartInv
        <5>. QED
          BY <2>3, <2>4, <4>3, <5>1
      <4>. QED
        BY <1>2, <4>1, <4>2, <4>3 DEF ApartInv
    <3>. QED
      BY <3>1, <3>2, <3>3 DEF GroupPortInv
  <2>. QED
    BY <2>2, <2>5, <2>6, <2>7, <2>8, <2>9 DEF GroupIInv
<1>4. CASE /\ AcquireFails(n, req[n].port, BusyPorts)
           /\ BackToIdle(n)
           /\ UNCHANGED <<real, holder, doubled>>
  <2>1. UNCHANGED <<freePorts, usedPorts, reservedPorts, reservedClosed>>
    BY <1>4 DEF AcquireFails, portVars
  <2>. QED
    BY <1>2, <1>4, <2>1, GroupFails
<1>. QED
  BY <1>1, <1>3, <1>4 DEF FirstAcquire

\* The first member listens and becomes the group, on the port it asked for; or
\* it gives up.  Its port is handed over, never shared.
LEMMA GroupFirstListen ==
  ASSUME GroupIInv, NEW n \in Name, FirstListen(n)
  PROVE  GroupIInv'
<1>1. PICK o \in Obj : o = obj[n]
  BY DEF FirstListen, GroupIInv, GroupTypeOK, MemberInv
<1>2. /\ pc[n] = "bind" /\ holder[o] = n /\ lns[o] = {}
      /\ holder' = [holder EXCEPT ![o] = NoName]
      /\ real' = [real EXCEPT ![n] = 0]
      /\ UNCHANGED <<freePorts, usedPorts, reservedPorts, reservedClosed, groups,
                     chClosed, deaf, doubled>>
  BY <1>1 DEF FirstListen, portVars, GroupIInv, LockInv
<1>t. /\ pc \in [Name -> Place] /\ lns \in [Obj -> SUBSET Name]
      /\ head \in [Obj -> [req : Request, realPort : Port \cup {0}]]
      /\ bound \in [Obj -> Port \cup Ephemeral \cup {0}]
      /\ holder \in [Obj -> Name \cup {NoName}]
      /\ worker \in [Obj -> {"none", "accept", "send"}]
      /\ req[n] \in Request /\ real \in [Name -> Port \cup {0}] /\ extBound \subseteq Port
  BY DEF GroupIInv, GroupTypeOK
<1>h. /\ holder' \in [Obj -> Name \cup {NoName}]
      /\ \A q \in Obj : q # o => holder'[q] = holder[q]
      /\ real' \in [Name -> Port \cup {0}]
      /\ \A m \in Name : m # n => real'[m] = real[m]
  BY <1>t, <1>2
<1>u. ASSUME NEW m \in Name, m # n, pc[m] \in {"bind", "remove"}
      PROVE  /\ obj[m] \in Obj \ {o} /\ holder[obj[m]] = m /\ lns[obj[m]] = {}
  BY <1>2, <1>u DEF GroupIInv, GroupTypeOK, MemberInv, LockInv
<1>3. CASE BackToIdle(n) /\ UNCHANGED <<lns, head, bound, worker, extBound>>
  <2>1. /\ pc' \in [Name -> Place] /\ obj' \in [Name -> Obj \cup {NoObj}]
        /\ req' \in [Name -> Request]
        /\ pc'[n] = "idle" /\ obj'[n] = NoObj
        /\ \A m \in Name : m # n => pc'[m] = pc[m] /\ obj'[m] = obj[m] /\ req'[m] = req[m]
    BY <1>3, IdleSpec DEF GroupIInv
  <2>2. GroupTypeOK' /\ PortsPartitioned'
    BY <1>2, <1>3, <1>h, <2>1 DEF GroupIInv, GroupTypeOK, PortTypeOK, PortsPartitioned
  <2>3. MemberInv'
    <3>1. \A q \in Obj : n \notin lns[q]
      BY <1>2 DEF GroupIInv, MemberInv
    <3>. QED
      BY <1>3, <3>1, IdleMembers DEF GroupIInv
  <2>4. LockInv'
    <3> SUFFICES ASSUME NEW m \in Name, pc'[m] \in {"bind", "remove"}
                 PROVE  holder'[obj'[m]] = m /\ lns'[obj'[m]] = {}
      BY DEF LockInv
    <3>1. m # n /\ pc[m] \in {"bind", "remove"} /\ obj'[m] = obj[m]
      BY <2>1
    <3>. QED
      BY <1>3, <1>h, <1>u, <3>1
  <2>5. GroupInv'
    BY <1>2, <2>1 DEF GroupIInv, GroupInv
  <2>6. GroupPortInv'
    BY <1>2, <1>3, <1>h, <2>1
    DEF GroupIInv, GroupPortInv, PortOfBinder, PortOfGroup, ApartInv
  <2>. QED
    BY <2>2, <2>3, <2>4, <2>5, <2>6 DEF GroupIInv
<1>4. CASE /\ \E p \in IF req[n].port # 0 THEN {req[n].port} ELSE Port \cup Ephemeral :
                /\ p \notin BusyPorts
                /\ bound' = [bound EXCEPT ![o] = p]
           /\ extBound' = extBound \cup ({bound[o]} \cap Port)
           /\ lns' = [lns EXCEPT ![o] = {n}]
           /\ head' = [head EXCEPT ![o] = [req |-> req[n], realPort |-> real[n]]]
           /\ worker' = [worker EXCEPT ![o] = "accept"]
           /\ pc' = [pc EXCEPT ![n] = "member"]
           /\ UNCHANGED <<obj, req>>
  <2>0. /\ real[n] \in Port
        /\ real[n] \notin doubled => usedPorts[real[n]] # NoName
        /\ req[n].port # 0 => real[n] = req[n].port
    BY <1>2 DEF GroupIInv, GroupPortInv, PortOfBinder
  <2>1. PICK p \in Port \cup Ephemeral :
          bound' = [bound EXCEPT ![o] = p] /\ (req[n].port # 0 => p = req[n].port)
    BY <1>4, <2>0
  <2>2. /\ pc' \in [Name -> Place] /\ lns' \in [Obj -> SUBSET Name]
        /\ head' \in [Obj -> [req : Request, realPort : Port \cup {0}]]
        /\ bound' \in [Obj -> Port \cup Ephemeral \cup {0}]
        /\ worker' \in [Obj -> {"none", "accept", "send"}]
        /\ extBound' \subseteq Port
    BY <1>t, <1>4, <2>1 DEF Place
  <2>3. /\ pc'[n] = "member" /\ \A m \in Name : m # n => pc'[m] = pc[m]
        /\ lns'[o] = {n} /\ \A q \in Obj : q # o => lns'[q] = lns[q]
        /\ head'[o].req = req[n] /\ head'[o].realPort = real[n]
        /\ \A q \in Obj : q # o => head'[q] = head[q]
        /\ bound'[o] = p /\ \A q \in Obj : q # o => bound'[q] = bound[q]
    BY <1>t, <1>4, <2>1
  <2>4. GroupTypeOK' /\ PortsPartitioned'
    BY <1>2, <1>4, <1>h, <2>2 DEF GroupIInv, GroupTypeOK, PortTypeOK, PortsPartitioned
  <2>5. MemberInv'
    <3>1. \A m \in Name : pc'[m] = "idle" <=> obj'[m] = NoObj
      BY <1>2, <1>4, <2>3 DEF GroupIInv, MemberInv
    <3>2. \A q \in Obj, m \in Name : m \in lns'[q] <=> pc'[m] = "member" /\ obj'[m] = q
      BY <1>1, <1>2, <1>4, <2>3 DEF GroupIInv, MemberInv
    <3>3. \A q \in Obj : \A m \in lns'[q] : req'[m] = head'[q].req
      BY <1>4, <2>3 DEF GroupIInv, MemberInv
    <3>. QED
      BY <3>1, <3>2, <3>3 DEF MemberInv
  <2>6. LockInv'
    <3> SUFFICES ASSUME NEW m \in Name, pc'[m] \in {"bind", "remove"}
                 PROVE  holder'[obj'[m]] = m /\ lns'[obj'[m]] = {}
      BY DEF LockInv
    <3>1. m # n /\ pc[m] \in {"bind", "remove"} /\ obj'[m] = obj[m]
      BY <1>4, <2>3
    <3>. QED
      BY <1>h, <1>u, <2>3, <3>1
  <2>7. GroupInv'
    BY <1>2, <1>4 DEF GroupIInv, GroupInv
  <2>8. GroupPortInv'
    <3>1. \A m \in Name : PortOfBinder(m)'
      BY <1>2, <1>4, <1>h, <2>3 DEF GroupIInv, GroupPortInv, PortOfBinder
    <3>2. \A q \in Obj : PortOfGroup(q)'
      BY <1>2, <2>0, <2>1, <2>3 DEF GroupIInv, GroupPortInv, PortOfGroup
    <3>3. ApartInv'
      BY <1>2, <1>h, <2>3 DEF GroupIInv, GroupPortInv, ApartInv
    <3>. QED
      BY <3>1, <3>2, <3>3 DEF GroupPortInv
  <2>. QED
    BY <2>4, <2>5, <2>6, <2>7, <2>8 DEF GroupIInv
<1>. QED
  BY <1>1, <1>3, <1>4 DEF FirstListen

\* A member leaves a group that keeps others.
LEMMA GroupLeave ==
  ASSUME GroupIInv, NEW n \in Name, Leave(n)
  PROVE  GroupIInv'
<1>1. PICK o \in Obj : o = obj[n]
  BY DEF Leave, GroupIInv, GroupTypeOK, MemberInv
<1>2. /\ pc[n] = "member" /\ holder[o] = NoName
      /\ lns' = [lns EXCEPT ![o] = @ \ {n}]
      /\ BackToIdle(n)
      /\ deaf' = deaf \ {n}
      /\ UNCHANGED <<freePorts, usedPorts, reservedPorts, reservedClosed, groups,
                     head, bound, chClosed, holder, worker, real, extBound, doubled>>
  BY <1>1 DEF Leave, portVars
<1>t. lns \in [Obj -> SUBSET Name] /\ GroupTypeOK
  BY DEF GroupIInv, GroupTypeOK
<1>3. /\ pc' \in [Name -> Place] /\ obj' \in [Name -> Obj \cup {NoObj}]
      /\ req' \in [Name -> Request]
      /\ pc'[n] = "idle" /\ obj'[n] = NoObj
      /\ \A m \in Name : m # n => pc'[m] = pc[m] /\ obj'[m] = obj[m] /\ req'[m] = req[m]
  BY <1>2, <1>t, IdleSpec
<1>4. /\ lns' \in [Obj -> SUBSET Name]
      /\ lns'[o] = lns[o] \ {n} /\ \A q \in Obj : q # o => lns'[q] = lns[q]
  BY <1>2, <1>t
<1>5. GroupTypeOK' /\ PortsPartitioned'
  BY <1>2, <1>3, <1>4 DEF GroupIInv, GroupTypeOK, PortTypeOK, PortsPartitioned
<1>6. MemberInv'
  BY <1>1, <1>2, <1>3, <1>4 DEF GroupIInv, GroupTypeOK, MemberInv
<1>7. LockInv'
  BY <1>2, <1>3, <1>4 DEF GroupIInv, GroupTypeOK, MemberInv, LockInv
<1>8. GroupInv'
  BY <1>2, <1>3 DEF GroupIInv, GroupInv
<1>9. GroupPortInv'
  <2>1. \A q \in Obj : lns'[q] # {} => lns[q] # {}
    BY <1>4
  <2>2. \A m \in Name : pc'[m] = "bind" => pc[m] = "bind" /\ req'[m] = req[m]
    BY <1>3
  <2>. QED
    BY <1>2, <2>1, <2>2
    DEF GroupIInv, GroupPortInv, PortOfBinder, PortOfGroup, ApartInv
<1>. QED
  BY <1>5, <1>6, <1>7, <1>8, <1>9 DEF GroupIInv

\* The last member closes the group: the port it releases is nobody else's, or it
\* is one that had two holders.
LEMMA GroupLeaveLast ==
  ASSUME GroupIInv, NEW n \in Name, LeaveLast(n)
  PROVE  GroupIInv'
<1>1. PICK o \in Obj : o = obj[n]
  BY DEF LeaveLast, GroupIInv, GroupTypeOK, MemberInv
<1>2. /\ pc[n] = "member" /\ holder[o] = NoName /\ lns[o] = {n}
      /\ lns' = [lns EXCEPT ![o] = {}]
      /\ deaf' = deaf \ {n}
      /\ UNCHANGED <<groups, head, worker, obj, req, real, extBound, doubled>>
  BY <1>1 DEF LeaveLast
<1>t. /\ pc \in [Name -> Place] /\ lns \in [Obj -> SUBSET Name]
      /\ bound \in [Obj -> Port \cup Ephemeral \cup {0}]
      /\ chClosed \in [Obj -> BOOLEAN] /\ holder \in [Obj -> Name \cup {NoName}]
      /\ PortTypeOK /\ PortsPartitioned
  BY DEF GroupIInv, GroupTypeOK
<1>l. /\ lns' \in [Obj -> SUBSET Name]
      /\ lns'[o] = {} /\ \A q \in Obj : q # o => lns'[q] = lns[q]
  BY <1>t, <1>2
<1>3. GroupInv'
  BY <1>2 DEF GroupIInv, GroupInv
<1>4. ASSUME NEW s \in {"panic", "remove"}, pc' = [pc EXCEPT ![n] = s]
      PROVE  /\ pc' \in [Name -> Place]
             /\ pc'[n] = s /\ \A m \in Name : m # n => pc'[m] = pc[m]
             /\ MemberInv'
  <2>1. /\ pc' \in [Name -> Place]
        /\ pc'[n] = s /\ \A m \in Name : m # n => pc'[m] = pc[m]
    BY <1>t, <1>4 DEF Place
  <2>2. MemberInv'
    BY <1>1, <1>2, <1>l, <1>4, <2>1 DEF GroupIInv, MemberInv
  <2>. QED
    BY <2>1, <2>2
<1>5. CASE /\ pc' = [pc EXCEPT ![n] = "panic"]
           /\ UNCHANGED <<portVars, bound, chClosed, holder>>
  <2>1. UNCHANGED <<freePorts, usedPorts, reservedPorts, reservedClosed>>
    BY <1>5 DEF portVars
  <2>2. /\ pc' \in [Name -> Place]
        /\ pc'[n] = "panic" /\ \A m \in Name : m # n => pc'[m] = pc[m]
        /\ MemberInv'
    BY <1>4, <1>5, <2>1
  <2>3. GroupTypeOK' /\ PortsPartitioned'
    BY <1>2, <1>l, <1>5, <2>1, <2>2
    DEF GroupIInv, GroupTypeOK, PortTypeOK, PortsPartitioned
  <2>4. LockInv'
    BY <1>2, <1>l, <1>5, <2>2 DEF GroupIInv, GroupTypeOK, MemberInv, LockInv
  <2>5. GroupPortInv'
    BY <1>2, <1>l, <1>5, <2>1, <2>2
    DEF GroupIInv, GroupPortInv, PortOfBinder, PortOfGroup, ApartInv
  <2>. QED
    BY <1>3, <2>2, <2>3, <2>4, <2>5 DEF GroupIInv
<1>6. CASE /\ chClosed' = [chClosed EXCEPT ![o] = TRUE]
           /\ bound' = [bound EXCEPT ![o] = 0]
           /\ Release(head[o].realPort)
           /\ holder' = [holder EXCEPT ![o] = n]
           /\ pc' = [pc EXCEPT ![n] = "remove"]
  <2>0. head[o].realPort \in Port
    BY <1>2 DEF GroupIInv, GroupPortInv, PortOfGroup
  <2>1. /\ PortTypeOK' /\ PortsPartitioned'
        /\ \A q \in Port : q # head[o].realPort => usedPorts'[q] = usedPorts[q]
    BY <1>t, <1>6, <2>0, ReleaseSpec
  <2>2. /\ pc' \in [Name -> Place]
        /\ pc'[n] = "remove" /\ \A m \in Name : m # n => pc'[m] = pc[m]
        /\ MemberInv'
    BY <1>4, <1>6, <2>1
  <2>3. /\ bound' \in [Obj -> Port \cup Ephemeral \cup {0}]
        /\ holder' \in [Obj -> Name \cup {NoName}]
        /\ holder'[o] = n
        /\ \A q \in Obj : q # o => holder'[q] = holder[q] /\ bound'[q] = bound[q]
    BY <1>t, <1>6
  <2>4. chClosed' \in [Obj -> BOOLEAN]
    BY <1>t, <1>6, Zenon
  <2>5. GroupTypeOK'
    BY <1>2, <1>l, <2>1, <2>2, <2>3, <2>4 DEF GroupIInv, GroupTypeOK
  <2>6. LockInv'
    <3> SUFFICES ASSUME NEW m \in Name, m # n, pc[m] \in {"bind", "remove"}
                 PROVE  holder'[obj[m]] = m /\ lns'[obj[m]] = {}
      BY <1>1, <1>2, <1>l, <2>2, <2>3 DEF LockInv
    <3>1. /\ obj[m] \in Obj /\ holder[obj[m]] = m /\ lns[obj[m]] = {}
      BY DEF GroupIInv, GroupTypeOK, MemberInv, LockInv
    <3>. QED
      BY <1>2, <1>l, <2>3, <3>1
  <2>7. GroupPortInv'
    <3>1. ASSUME NEW m \in Name PROVE PortOfBinder(m)'
      <4>1. pc[m] = "bind" /\ real[m] = head[o].realPort => real[m] \in doubled
        BY <1>2 DEF GroupIInv, GroupPortInv, ApartInv
      <4>. QED
        BY <1>2, <2>1, <2>2, <4>1 DEF GroupIInv, GroupPortInv, PortOfBinder
    <3>2. ASSUME NEW q \in Obj PROVE PortOfGroup(q)'
      <4>1. /\ q # o /\ lns[q] # {} /\ head[q].realPort = head[o].realPort
              => head[q].realPort \in doubled
        BY <1>2 DEF GroupIInv, GroupPortInv, ApartInv
      <4>2. CASE q = o
        BY <1>l, <4>2 DEF PortOfGroup
      <4>3. CASE q # o
        <5>1. PortOfGroup(q)
          BY DEF GroupIInv, GroupPortInv
        <5>2. lns[q] # {} /\ head[q].realPort \notin doubled
                => usedPorts'[head[q].realPort] # NoName
          BY <2>1, <4>1, <4>3, <5>1 DEF PortOfGroup
        <5>3. lns'[q] = lns[q] /\ bound'[q] = bound[q] /\ head' = head /\ doubled' = doubled
          BY <1>2, <1>l, <2>3, <4>3
        <5>. QED
          BY <5>1, <5>2, <5>3 DEF PortOfGroup
      <4>. QED
        BY <4>2, <4>3
    <3>3. ApartInv'
      BY <1>2, <1>l, <2>2 DEF GroupIInv, GroupPortInv, ApartInv
    <3>. QED
      BY <3>1, <3>2, <3>3 DEF GroupPortInv
  <2>. QED
    BY <1>3, <2>1, <2>2, <2>5, <2>6, <2>7 DEF GroupIInv
<1>. QED
  BY <1>1, <1>5, <1>6 DEF LeaveLast

\* RemoveGroup deletes the map's entry and unlocks the object.
LEMMA GroupRemoveGroup ==
  ASSUME GroupIInv, NEW n \in Name, RemoveGroup(n)
  PROVE  GroupIInv'
<1>1. PICK o \in Obj : o = obj[n]
  BY DEF RemoveGroup, GroupIInv, GroupTypeOK, MemberInv
<1>t. /\ pc \in [Name -> Place] /\ holder \in [Obj -> Name \cup {NoName}]
      /\ groups \in [Group -> Obj \cup {NoObj}]
      /\ head[o].req.group \in Group
  BY DEF GroupIInv, GroupTypeOK, Request
<1>2. /\ pc[n] = "remove" /\ holder[o] = n /\ lns[o] = {}
      /\ groups' = [groups EXCEPT ![head[o].req.group] = NoObj]
      /\ holder' = [holder EXCEPT ![o] = NoName]
      /\ BackToIdle(n)
      /\ UNCHANGED <<freePorts, usedPorts, reservedPorts, reservedClosed, lns, head,
                     bound, chClosed, worker, real, deaf, extBound, doubled>>
  BY <1>1 DEF RemoveGroup, portVars, GroupIInv, LockInv
<1>3. /\ pc' \in [Name -> Place] /\ obj' \in [Name -> Obj \cup {NoObj}]
      /\ req' \in [Name -> Request]
      /\ pc'[n] = "idle" /\ obj'[n] = NoObj
      /\ \A m \in Name : m # n => pc'[m] = pc[m] /\ obj'[m] = obj[m] /\ req'[m] = req[m]
  BY <1>2, IdleSpec DEF GroupIInv
<1>4. /\ holder' \in [Obj -> Name \cup {NoName}]
      /\ groups' \in [Group -> Obj \cup {NoObj}]
      /\ \A q \in Obj : q # o => holder'[q] = holder[q]
      /\ \A g \in Group : groups'[g] \in {groups[g], NoObj}
  BY <1>t, <1>2
<1>5. GroupTypeOK' /\ PortsPartitioned'
  BY <1>2, <1>3, <1>4 DEF GroupIInv, GroupTypeOK, PortTypeOK, PortsPartitioned
<1>6. MemberInv'
  <2>1. \A q \in Obj : n \notin lns[q]
    BY <1>2 DEF GroupIInv, MemberInv
  <2>. QED
    BY <1>2, <2>1, IdleMembers DEF GroupIInv
<1>7. LockInv'
  <2> SUFFICES ASSUME NEW m \in Name, m # n, pc[m] \in {"bind", "remove"}
               PROVE  holder'[obj[m]] = m /\ lns[obj[m]] = {}
    BY <1>2, <1>3 DEF LockInv
  <2>1. obj[m] \in Obj /\ holder[obj[m]] = m /\ lns[obj[m]] = {}
    BY DEF GroupIInv, GroupTypeOK, MemberInv, LockInv
  <2>. QED
    BY <1>2, <1>4, <2>1
<1>8. GroupInv'
  <2>1. /\ \A m \in Name : obj'[m] # NoObj => obj'[m] = obj[m] /\ req'[m] = req[m]
        /\ \A g \in Group : groups'[g] # NoObj => groups'[g] = groups[g]
    BY <1>3, <1>4
  <2>. QED
    BY <2>1 DEF GroupIInv, GroupInv
<1>9. GroupPortInv'
  BY <1>2, <1>3
  DEF GroupIInv, GroupPortInv, PortOfBinder, PortOfGroup, ApartInv
<1>. QED
  BY <1>5, <1>6, <1>7, <1>8, <1>9 DEF GroupIInv

LEMMA InitGroups ==
  ASSUME GroupInit
  PROVE  GroupIInv
<1>1. NoRequest \in Request /\ NoHead \in [req : Request, realPort : Port \cup {0}]
  BY NoRequestIs
<1>2. GroupTypeOK
  <2>1. chClosed \in [Obj -> BOOLEAN]
    BY Zenon DEF GroupInit
  <2>2. head \in [Obj -> [req : Request, realPort : Port \cup {0}]]
    BY <1>1 DEF GroupInit
  <2>. QED
    BY <1>1, <2>1, <2>2 DEF GroupInit, GroupTypeOK, NewManager, PortTypeOK, Place
<1>3. PortsPartitioned /\ MemberInv /\ LockInv /\ GroupInv
  BY DEF GroupInit, NewManager, PortsPartitioned, MemberInv, LockInv,
         GroupInv
<1>4. GroupPortInv
  BY DEF GroupInit, GroupPortInv, PortOfBinder, PortOfGroup, ApartInv
<1>. QED
  BY <1>2, <1>3, <1>4 DEF GroupIInv

LEMMA GroupStep ==
  ASSUME GroupIInv, [GroupNext]_allVars
  PROVE  GroupIInv'
<1>t. /\ worker \in [Obj -> {"none", "accept", "send"}]
      /\ deaf \subseteq Name /\ extBound \subseteq Port /\ PortTypeOK
  BY DEF GroupIInv, GroupTypeOK
<1>p. UNCHANGED portVars => PortTypeOK'
  BY <1>t DEF portVars, PortTypeOK
<1>1. CASE UNCHANGED allVars
  BY <1>t, <1>p, <1>1, GroupQuiet DEF allVars, portVars, groupVars
<1>2. ASSUME NEW n \in Name, \E a \in Ask : Lookup(n, a.group, a.key, a.port)
      PROVE  GroupIInv'
  BY <1>2, GroupLookup
<1>3. ASSUME NEW n \in Name, Step(n)
      PROVE  GroupIInv'
  BY <1>3, GroupJoin, GroupFirstAcquire, GroupFirstListen, GroupRemoveGroup
  DEF Step
<1>4. ASSUME NEW n \in Name, Deliver(n)
      PROVE  GroupIInv'
  <2>1. worker' \in [Obj -> {"none", "accept", "send"}]
    BY <1>t, <1>4 DEF Deliver
  <2>. QED
    BY <1>t, <1>p, <1>4, <2>1, GroupQuiet DEF Deliver, portVars
<1>5. ASSUME NEW n \in Name, AcceptFails(n)
      PROVE  GroupIInv'
  BY <1>t, <1>p, <1>5, GroupQuiet DEF AcceptFails, portVars, groupVars
<1>6. ASSUME NEW n \in Name, Leave(n) \/ LeaveLast(n)
      PROVE  GroupIInv'
  BY <1>6, GroupLeave, GroupLeaveLast
<1>7. ASSUME NEW o \in Obj, UserConn(o) \/ WorkerReturns(o)
      PROVE  GroupIInv'
  <2>1. worker' \in [Obj -> {"none", "accept", "send"}]
    BY <1>t, <1>7 DEF UserConn, WorkerReturns
  <2>. QED
    BY <1>t, <1>p, <1>7, <2>1, GroupQuiet DEF UserConn, WorkerReturns, portVars
<1>8. ASSUME NEW p \in Port, OtherProcessBinds(p)
      PROVE  GroupIInv'
  <2>1. extBound' \subseteq Port
    BY <1>t, <1>8 DEF OtherProcessBinds
  <2>. QED
    BY <1>t, <1>p, <1>8, <2>1, GroupQuiet DEF OtherProcessBinds, portVars, groupVars
<1>9. CASE CleanGroupPorts
  <2>1. PortTypeOK'
    BY <1>t, <1>9 DEF CleanGroupPorts, CleanReserved, PortTypeOK
  <2>. QED
    BY <1>t, <1>9, <2>1, GroupQuiet DEF CleanGroupPorts, CleanReserved, groupVars
<1>. QED
  BY <1>1, <1>2, <1>3, <1>4, <1>5, <1>6, <1>7, <1>8, <1>9 DEF GroupNext

LEMMA GroupAlways == GroupSpec => []GroupIInv
<1>1. GroupInit => GroupIInv
  BY InitGroups
<1>2. GroupIInv /\ [GroupNext]_allVars => GroupIInv'
  BY GroupStep
<1>. QED
  BY <1>1, <1>2, PTL DEF GroupSpec

\* The fields of a group and its members keep their types.
THEOREM GroupTypeCorrect == GroupSpec => []GroupTypeOK
<1>1. GroupIInv => GroupTypeOK
  BY DEF GroupIInv
<1>. QED
  BY <1>1, GroupAlways, PTL

\* The members of a group always agree on port and key, however joins, leaves
\* and the take-over of an emptied object interleave.
THEOREM MembersAgreeAlways == GroupSpec => []MembersAgree
<1>1. GroupIInv => MembersAgree
  BY DEF GroupIInv, GroupTypeOK, MemberInv, MembersAgree
<1>. QED
  BY <1>1, GroupAlways, PTL

\* A group that serves a configured port listens on it and has it marked as used
\* for as long as it has members, however often names leave and come back; unless
\* Acquire gave the port to a second holder, as its reserved branch may.
THEOREM ServedPortIsUsedAlways == GroupSpec => []ServedPortIsUsed
<1>1. GroupIInv => ServedPortIsUsed
  BY DEF GroupIInv, GroupPortInv, PortOfGroup, ServedPortIsUsed
<1>. QED
  BY <1>1, GroupAlways, PTL

-----------------------------------------------------------------------------
(* The worker of a group and its members *)

LEMMA WorkerStep ==
  ASSUME GroupIInv, WorkerInv, [GroupNext]_allVars
  PROVE  WorkerInv'
<1>t. /\ lns \in [Obj -> SUBSET Name] /\ chClosed \in [Obj -> BOOLEAN]
      /\ worker \in [Obj -> {"none", "accept", "send"}]
      /\ pc \in [Name -> Place] /\ obj \in [Name -> Obj \cup {NoObj}] /\ deaf \subseteq Name
      /\ GroupTypeOK
  BY DEF GroupIInv, GroupTypeOK
<1>m. /\ \A n \in Name : pc[n] = "idle" <=> obj[n] = NoObj
      /\ \A o \in Obj, n \in Name : n \in lns[o] <=> pc[n] = "member" /\ obj[n] = o
  BY DEF GroupIInv, MemberInv
<1>i. ASSUME NEW n \in Name, BackToIdle(n)
      PROVE  \A m \in Name : m # n => pc'[m] = pc[m] /\ obj'[m] = obj[m]
  BY <1>t, <1>i, IdleSpec
<1> USE DEF WorkerInv
<1>1. CASE UNCHANGED allVars
  BY <1>1 DEF allVars, groupVars
<1>2. ASSUME NEW n \in Name, \E a \in Ask : Lookup(n, a.group, a.key, a.port)
      PROVE  WorkerInv'
  <2>1. PICK o \in Obj :
          /\ UNCHANGED chClosed \/ (Unused(o) /\ chClosed' = [chClosed EXCEPT ![o] = FALSE])
          /\ obj' = [obj EXCEPT ![n] = o]
    BY <1>2 DEF Lookup
  <2>2. /\ pc[n] = "idle" /\ pc' = [pc EXCEPT ![n] = "listen"]
        /\ UNCHANGED <<lns, worker, deaf>>
    BY <1>2 DEF Lookup
  <2>3. ASSUME NEW q \in Obj, q # o \/ ~Unused(o), chClosed[q] PROVE chClosed'[q]
    BY <1>t, <2>1, <2>3
  <2>4. \A q \in Obj : worker'[q] # "none" => chClosed'[q] \/ lns'[q] # {}
    BY <2>2, <2>3 DEF Unused
  <2>5. ASSUME NEW m \in deaf PROVE pc'[m] = "member" /\ chClosed'[obj'[m]]
    <3>1. m \in Name /\ m # n /\ pc[m] = "member" /\ obj[m] \in Obj /\ chClosed[obj[m]]
      BY <1>t, <1>m, <2>2
    <3>2. pc'[m] = pc[m] /\ obj'[m] = obj[m] /\ (Unused(o) => obj[m] # o)
      BY <1>t, <2>1, <2>2, <3>1 DEF Unused
    <3>. QED
      BY <2>3, <3>1, <3>2
  <2>. QED
    BY <2>2, <2>4, <2>5
<1>3. ASSUME NEW n \in Name, Join(n)
      PROVE  WorkerInv'
  <2>1. obj[n] \in Obj /\ pc[n] = "listen" /\ UNCHANGED <<worker, chClosed, deaf>>
    BY <1>3, <1>t, <1>m DEF Join
  <2>2. CASE BackToIdle(n) /\ lns' = lns
    BY <1>t, <1>i, <2>1, <2>2
  <2>3. CASE /\ pc' = [pc EXCEPT ![n] = "member"] /\ lns' = [lns EXCEPT ![obj[n]] = @ \cup {n}]
             /\ UNCHANGED obj
    BY <1>t, <2>1, <2>3
  <2>. QED
    BY <1>3, <2>2, <2>3 DEF Join
<1>4. ASSUME NEW n \in Name, FirstAcquire(n)
      PROVE  WorkerInv'
  <2>1. /\ \/ pc' = [pc EXCEPT ![n] = "bind"] /\ UNCHANGED obj
           \/ BackToIdle(n)
        /\ pc[n] = "listen" /\ UNCHANGED <<lns, chClosed, worker, deaf>>
    BY <1>4 DEF FirstAcquire
  <2>. QED
    BY <1>t, <1>i, <2>1
<1>5. ASSUME NEW n \in Name, FirstListen(n)
      PROVE  WorkerInv'
  <2>1. /\ obj[n] \in Obj /\ lns[obj[n]] = {} /\ pc[n] = "bind"
        /\ UNCHANGED <<chClosed, deaf>>
    BY <1>5, <1>t, <1>m DEF FirstListen, GroupIInv, LockInv
  <2>2. CASE BackToIdle(n) /\ UNCHANGED <<lns, worker>>
    BY <1>t, <1>i, <2>1, <2>2
  <2>3. CASE /\ pc' = [pc EXCEPT ![n] = "member"] /\ lns' = [lns EXCEPT ![obj[n]] = {n}]
             /\ worker' = [worker EXCEPT ![obj[n]] = "accept"] /\ UNCHANGED obj
    BY <1>t, <2>1, <2>3
  <2>. QED
    BY <1>5, <2>2, <2>3 DEF FirstListen
<1>6. ASSUME NEW n \in Name, RemoveGroup(n)
      PROVE  WorkerInv'
  <2>1. /\ pc[n] = "remove" /\ BackToIdle(n) /\ UNCHANGED <<lns, chClosed, worker, deaf>>
    BY <1>6 DEF RemoveGroup
  <2>. QED
    BY <1>t, <1>i, <2>1
<1>7. ASSUME NEW n \in Name, Deliver(n)
      PROVE  WorkerInv'
  BY <1>7, <1>t, <1>m DEF Deliver
<1>8. ASSUME NEW n \in Name, AcceptFails(n)
      PROVE  WorkerInv'
  BY <1>8, <1>t, <1>m DEF AcceptFails, groupVars
<1>9. ASSUME NEW n \in Name, Leave(n)
      PROVE  WorkerInv'
  <2>1. /\ obj[n] \in Obj /\ n \in lns[obj[n]] /\ lns[obj[n]] # {n}
        /\ lns' = [lns EXCEPT ![obj[n]] = @ \ {n}]
        /\ BackToIdle(n) /\ deaf' = deaf \ {n} /\ UNCHANGED <<chClosed, worker>>
    BY <1>9, <1>t, <1>m DEF Leave
  <2>2. \A q \in Obj : lns[q] # {} => lns'[q] # {}
    BY <1>t, <2>1
  <2>3. \A m \in deaf' : m \in deaf /\ m \in Name /\ m # n
    BY <1>t, <2>1
  <2>4. \A m \in Name : m # n => pc'[m] = pc[m] /\ obj'[m] = obj[m]
    BY <1>i, <2>1
  <2>. QED
    BY <2>1, <2>2, <2>3, <2>4
<1>10. ASSUME NEW n \in Name, LeaveLast(n)
       PROVE  WorkerInv'
  <2>1. /\ obj[n] \in Obj /\ lns' = [lns EXCEPT ![obj[n]] = {}] /\ lns[obj[n]] = {n}
        /\ deaf' = deaf \ {n} /\ UNCHANGED <<worker, obj>>
    BY <1>10, <1>t, <1>m DEF LeaveLast
  <2>2. CASE chClosed[obj[n]] /\ pc' = [pc EXCEPT ![n] = "panic"] /\ chClosed' = chClosed
    BY <1>t, <1>m, <2>1, <2>2
  <2>3. CASE pc' = [pc EXCEPT ![n] = "remove"] /\ chClosed' = [chClosed EXCEPT ![obj[n]] = TRUE]
    BY <1>t, <1>m, <2>1, <2>3
  <2>. QED
    BY <1>10, <2>2, <2>3 DEF LeaveLast
<1>11. ASSUME NEW o \in Obj, UserConn(o) \/ WorkerReturns(o)
       PROVE  WorkerInv'
  BY <1>11, <1>t, <1>m DEF UserConn, WorkerReturns
<1>12. CASE \E p \in Port : OtherProcessBinds(p)
  BY <1>12, <1>t, <1>m DEF OtherProcessBinds, groupVars
<1>13. CASE CleanGroupPorts
  BY <1>13 DEF CleanGroupPorts, groupVars
<1> HIDE DEF WorkerInv
<1>. QED
  BY <1>1, <1>2, <1>3, <1>4, <1>5, <1>6, <1>7, <1>8, <1>9, <1>10, <1>11, <1>12, <1>13
  DEF GroupNext, Step

LEMMA WorkerAlways == GroupSpec => []WorkerInv
<1>1. GroupInit => WorkerInv
  BY DEF GroupInit, WorkerInv
<1>2. GroupIInv /\ WorkerInv /\ [GroupNext]_allVars => WorkerInv'
  BY WorkerStep
<1>. QED
  BY <1>1, <1>2, GroupAlways, PTL DEF GroupSpec

\* A closed acceptCh is not opened again while a worker is about to send on it.
LEMMA ClosedStays ==
  ASSUME GroupIInv, [GroupNext]_allVars, NEW o \in Obj, worker[o] = "send", chClosed[o]
  PROVE  chClosed'[o]
<1>t. chClosed \in [Obj -> BOOLEAN]
  BY DEF GroupIInv, GroupTypeOK
<1>1. ASSUME NEW n \in Name, NEW a \in Ask, Lookup(n, a.group, a.key, a.port)
      PROVE  chClosed'[o]
  BY <1>1, <1>t DEF Lookup, Unused
<1>2. ASSUME NEW n \in Name, LeaveLast(n) PROVE chClosed'[o]
  BY <1>2, <1>t DEF LeaveLast
<1>3. CASE UNCHANGED chClosed
  BY <1>3
<1>. QED
  BY <1>1, <1>2, <1>3
  DEF GroupNext, Step, Join, FirstAcquire, FirstListen, RemoveGroup, Deliver, AcceptFails,
      Leave, UserConn, WorkerReturns, OtherProcessBinds, CleanGroupPorts, allVars, groupVars

\* Every worker that offers a connection to the group is rid of it, for every
\* number of proxies and group objects, however members come and go: one of them
\* takes it, or the last one closes acceptCh, which makes worker() drop the
\* connection and return.  The guards are taken to enable their steps
\* (GroupGuardsEnable).
THEOREM WorkerNeverStuckHolds ==
  FairGroupSpec /\ []GroupGuardsEnable => WorkerNeverStuck
<1>1. ASSUME NEW o \in Obj
      PROVE  FairGroupSpec /\ []GroupGuardsEnable
             => (worker[o] = "send" ~> worker[o] # "send")
  <2> DEFINE Offers == worker[o] = "send" /\ ~chClosed[o]
             Closed == worker[o] = "send" /\ chClosed[o]
             Quiet == worker[o] # "send"
  <2>1. GroupIInv /\ WorkerInv /\ GroupGuardsEnable /\ Offers => ENABLED <<Send(o)>>_allVars
    <3>1. GroupIInv /\ WorkerInv /\ Offers => \E n \in Name : obj[n] = o /\ DeliverReady(n)
      BY DEF GroupIInv, GroupTypeOK, MemberInv, WorkerInv, DeliverReady
    <3>. QED
      BY <3>1 DEF GroupGuardsEnable
  <2>2. GroupIInv /\ <<Send(o)>>_allVars => Quiet'
    BY DEF GroupIInv, GroupTypeOK, Send, Deliver
  <2>3. GroupIInv /\ Closed /\ [GroupNext]_allVars => Closed' \/ Quiet'
    BY ClosedStays
  <2>4. GroupGuardsEnable /\ Closed => ENABLED <<WorkerReturns(o)>>_allVars
    BY DEF GroupGuardsEnable, ReturnReady
  <2>5. GroupIInv /\ <<WorkerReturns(o)>>_allVars => Quiet'
    BY DEF WorkerReturns, GroupIInv, GroupTypeOK
  <2>6. Fairness => FairSend(o) /\ FairReturn(o)
    BY DEF Fairness
  <2> DEFINE Sends == worker[o] = "send"
  <2>7. Sends => Offers \/ Closed
    OBVIOUS
  <2>8. Offers \/ Closed \/ Quiet
    OBVIOUS
  <2> HIDE DEF Offers, Closed, Quiet, Sends
  <2>9. FairGroupSpec /\ []GroupGuardsEnable => (Sends ~> Quiet)
    BY <2>1, <2>2, <2>3, <2>4, <2>5, <2>6, <2>7, <2>8, GroupAlways, WorkerAlways, PTL
    DEF FairGroupSpec, GroupSpec, FairSend, FairReturn
  <2>. QED
    BY <2>9 DEF Sends, Quiet
<1>. QED
  BY <1>1 DEF WorkerNeverStuck


=============================================================================
