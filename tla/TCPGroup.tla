------------------------------ MODULE TCPGroup ------------------------------
(***************************************************************************)
(* Load-balancing groups of tcp proxies on frps (server/group/tcp.go): the *)
(* TCPGroupCtl that finds or makes the group of a name, and the TCPGroup   *)
(* whose first member binds the port and whose last member releases it.    *)
(*                                                                         *)
(* A name is one proxy: it may join a group, leave it and join again, the  *)
(* same group or another, with another key or port.                        *)
(* The locks are those of the code: tgc.mu around the map, tg.mu around a  *)
(* whole Listen or CloseListener, pm.mu inside the port manager.  A group  *)
(* is looked up before its own lock is taken.                              *)
(***************************************************************************)
EXTENDS PortManager

CONSTANTS
  Group,     \* group names
  Key,       \* group keys
  Ask,       \* what proxies may ask for: a group, a key and a port
  Obj,       \* bound: TCPGroup objects that are in use at a time
  NoObj,     \* a nil *TCPGroup
  Ephemeral  \* ports outside Port that the system may pick for port 0

ASSUME GroupAssumption ==
  /\ Group # {} /\ Key # {}
  /\ Ask \subseteq [group : Group, key : Key, port : Want]
  /\ NoObj \notin Obj
  /\ Ephemeral \subseteq Nat \ (Port \cup {0})

VARIABLES
  groups,   \* the map of TCPGroupCtl
  lns,      \* members of each group object
  head,     \* its name, key, port and realPort, set by the first member
  bound,    \* the port its tcpLn listens on, 0 if closed
  chClosed, \* its acceptCh is closed
  holder,   \* the proxy that holds tg.mu between two steps, NoName if none
  worker,   \* its worker(): "none", "accept" or "send"
  pc,       \* where each proxy is
  obj,      \* the group object it found
  req,      \* what it asks for: group, key and port
  real,     \* the port Acquire gave it as the first member
  deaf,     \* members whose accept loop has ended
  doubled   \* history: ports that were given to one holder while another had them

groupVars == <<groups, lns, head, bound, chClosed, holder, worker>>
allVars == <<portVars, groupVars, pc, obj, req, real, deaf, extBound, doubled>>

Request == [group : Group, key : Key, port : Nat]

\* A name that panicked in Close stays in the proxy manager for good.
Place == {"idle", "listen", "bind", "member", "remove", "panic"}

GroupTypeOK ==
  /\ PortTypeOK
  /\ groups \in [Group -> Obj \cup {NoObj}]
  /\ lns \in [Obj -> SUBSET Name]
  /\ head \in [Obj -> [req : Request, realPort : Port \cup {0}]]
  /\ bound \in [Obj -> Port \cup Ephemeral \cup {0}]
  /\ chClosed \in [Obj -> BOOLEAN]
  /\ holder \in [Obj -> Name \cup {NoName}]
  /\ worker \in [Obj -> {"none", "accept", "send"}]
  /\ pc \in [Name -> Place]
  /\ obj \in [Name -> Obj \cup {NoObj}]
  /\ req \in [Name -> Request]
  /\ real \in [Name -> Port \cup {0}]
  /\ deaf \subseteq Name
  /\ extBound \subseteq Port
  /\ doubled \subseteq Port

\* Before the first Listen the fields are empty: any value will do.
NoRequest == CHOOSE r \in [group : Group, key : Key, port : {0}] : TRUE

NoHead == [req |-> NoRequest, realPort |-> 0]

GroupInit ==
  /\ NewManager
  /\ groups = [g \in Group |-> NoObj]
  /\ lns = [o \in Obj |-> {}]
  /\ head = [o \in Obj |-> NoHead]
  /\ bound = [o \in Obj |-> 0]
  /\ chClosed = [o \in Obj |-> FALSE]
  /\ holder = [o \in Obj |-> NoName]
  /\ worker = [o \in Obj |-> "none"]
  /\ pc = [n \in Name |-> "idle"]
  /\ obj = [n \in Name |-> NoObj]
  /\ req = [n \in Name |-> NoRequest]
  /\ real = [n \in Name |-> 0]
  /\ deaf = {}
  /\ extBound = {}
  /\ doubled = {}

\* Ports on which a socket listens.
BusyPorts == (extBound \cup {bound[o] : o \in Obj}) \ {0}

\* Nothing refers to the object: it stands for the next one that NewTCPGroup
\* returns.
Unused(o) ==
  /\ \A n \in Name : obj[n] # o
  /\ \A g \in Group : groups[g] # o
  /\ worker[o] = "none" /\ bound[o] = 0

\* A first member between Acquire and net.Listen, or a group, has the port.
Held(p) ==
  \/ \E n \in Name : pc[n] = "bind" /\ real[n] = p
  \/ \E o \in Obj : lns[o] # {} /\ head[o].realPort = p

\* The name is done with its group, or never came to be in it.
BackToIdle(n) ==
  /\ pc' = [pc EXCEPT ![n] = "idle"]
  /\ obj' = [obj EXCEPT ![n] = NoObj]
  /\ req' = [req EXCEPT ![n] = NoRequest]

-----------------------------------------------------------------------------
(* TCPGroupCtl.Listen *)

\* With tgc.mu: find the group of the name, or make it.
Lookup(n, g, k, w) ==
  /\ pc[n] = "idle"
  /\ req' = [req EXCEPT ![n] = [group |-> g, key |-> k, port |-> w]]
  /\ \E o \in Obj :
       /\ \/ groups[g] = o /\ UNCHANGED <<groups, head, chClosed>>
          \/ /\ groups[g] = NoObj /\ Unused(o)
             /\ groups' = [groups EXCEPT ![g] = o]
             /\ head' = [head EXCEPT ![o] = NoHead]
             /\ chClosed' = [chClosed EXCEPT ![o] = FALSE]
       /\ obj' = [obj EXCEPT ![n] = o]
  /\ pc' = [pc EXCEPT ![n] = "listen"]
  /\ UNCHANGED <<portVars, lns, bound, holder, worker, real, deaf, extBound, doubled>>

\* Mutant of Join: the group key is not compared.
JoinAnyKey(n) ==
  /\ pc[n] = "listen"
  /\ LET o == obj[n] IN
     /\ holder[o] = NoName
     /\ lns[o] # {}
     /\ IF head[o].req.port = req[n].port
          THEN /\ lns' = [lns EXCEPT ![o] = @ \cup {n}]
               /\ pc' = [pc EXCEPT ![n] = "member"]
               /\ UNCHANGED <<obj, req>>
          ELSE BackToIdle(n) /\ UNCHANGED lns
  /\ UNCHANGED <<portVars, groups, head, bound, chClosed, holder, worker, real,
                 deaf, extBound, doubled>>

\* With tg.mu, a group that has members: the port, then the key must match.  The
\* name and the bind address always do.
Join(n) ==
  /\ pc[n] = "listen"
  /\ LET o == obj[n] IN
     /\ holder[o] = NoName
     /\ lns[o] # {}
     /\ IF /\ head[o].req.port = req[n].port
           /\ head[o].req.key = req[n].key
          THEN /\ lns' = [lns EXCEPT ![o] = @ \cup {n}]
               /\ pc' = [pc EXCEPT ![n] = "member"]
               /\ UNCHANGED <<obj, req>>
          ELSE BackToIdle(n) /\ UNCHANGED lns
  /\ UNCHANGED <<portVars, groups, head, bound, chClosed, holder, worker, real,
                 deaf, extBound, doubled>>

\* The first member acquires the port, which may be its reserved one although
\* another group has it; tg.mu stays locked.
FirstAcquire(n) ==
  /\ pc[n] = "listen"
  /\ LET o == obj[n] IN
     /\ holder[o] = NoName
     /\ lns[o] = {}
     /\ \/ \E p \in Port :
             /\ AcquireOk(n, req[n].port, BusyPorts, p)
             /\ real' = [real EXCEPT ![n] = p]
             /\ holder' = [holder EXCEPT ![o] = n]
             /\ doubled' = IF Held(p) THEN doubled \cup {p} ELSE doubled \ {p}
             /\ pc' = [pc EXCEPT ![n] = "bind"]
             /\ UNCHANGED <<obj, req>>
        \/ /\ AcquireFails(n, req[n].port, BusyPorts)
           /\ BackToIdle(n)
           /\ UNCHANGED <<real, holder, doubled>>
  /\ UNCHANGED <<groups, lns, head, bound, chClosed, worker, deaf, extBound>>

\* net.Listen on the port that was asked for, 0 included; worker() starts.  On
\* an error Listen returns and the acquired port stays acquired.
FirstListen(n) ==
  /\ pc[n] = "bind"
  /\ LET o == obj[n]
         w == req[n].port
     IN
     /\ \/ /\ w \in BusyPorts
           /\ BackToIdle(n)
           /\ UNCHANGED <<lns, head, bound, worker, extBound>>
        \/ /\ \E p \in IF w # 0 THEN {w} ELSE Port \cup Ephemeral :
                /\ p \notin BusyPorts
                /\ bound' = [bound EXCEPT ![o] = p]
           /\ extBound' = extBound \cup ({bound[o]} \cap Port)
           /\ lns' = [lns EXCEPT ![o] = {n}]
           /\ head' = [head EXCEPT ![o] = [req |-> req[n], realPort |-> real[n]]]
           /\ worker' = [worker EXCEPT ![o] = "accept"]
           /\ pc' = [pc EXCEPT ![n] = "member"]
           /\ UNCHANGED <<obj, req>>
     /\ holder' = [holder EXCEPT ![o] = NoName]
  /\ real' = [real EXCEPT ![n] = 0]
  /\ UNCHANGED <<portVars, groups, chClosed, deaf, doubled>>

-----------------------------------------------------------------------------
(* worker() and the accept loops of the members *)

\* A user connects; worker hands the connection to acceptCh, which is unbuffered.
UserConn(o) ==
  /\ worker[o] = "accept"
  /\ bound[o] # 0
  /\ worker' = [worker EXCEPT ![o] = "send"]
  /\ UNCHANGED <<portVars, groups, lns, head, bound, chClosed, holder, pc, obj,
                 req, real, deaf, extBound, doubled>>

\* The accept loop of some member takes the connection.
Deliver(n) ==
  /\ pc[n] = "member"
  /\ n \notin deaf
  /\ worker[obj[n]] = "send"
  /\ ~chClosed[obj[n]]
  /\ worker' = [worker EXCEPT ![obj[n]] = "accept"]
  /\ UNCHANGED <<portVars, groups, lns, head, bound, chClosed, holder, pc, obj,
                 req, real, deaf, extBound, doubled>>

\* Accept fails on the closed socket, or the send panics on the closed channel.
WorkerReturns(o) ==
  /\ \/ worker[o] = "accept" /\ bound[o] = 0
     \/ worker[o] = "send" /\ chClosed[o]
  /\ worker' = [worker EXCEPT ![o] = "none"]
  /\ UNCHANGED <<portVars, groups, lns, head, bound, chClosed, holder, pc, obj,
                 req, real, deaf, extBound, doubled>>

\* The accept loop of a member reads from the closed acceptCh and returns.
AcceptFails(n) ==
  /\ pc[n] = "member"
  /\ n \notin deaf
  /\ chClosed[obj[n]]
  /\ deaf' = deaf \cup {n}
  /\ UNCHANGED <<portVars, groupVars, pc, obj, req, real, extBound, doubled>>

-----------------------------------------------------------------------------
(* CloseListener *)

\* Mutant of Leave: every member releases the port, as a single proxy does.
LeaveReleases(n) ==
  /\ pc[n] = "member"
  /\ LET o == obj[n] IN
     /\ holder[o] = NoName
     /\ lns[o] # {n}
     /\ lns' = [lns EXCEPT ![o] = @ \ {n}]
     /\ Release(head[o].realPort)
  /\ BackToIdle(n)
  /\ deaf' = deaf \ {n}
  /\ UNCHANGED <<groups, head, bound, chClosed, holder, worker, real, extBound,
                 doubled>>

\* A member leaves a group that keeps others.
Leave(n) ==
  /\ pc[n] = "member"
  /\ LET o == obj[n] IN
     /\ holder[o] = NoName
     /\ lns[o] # {n}
     /\ lns' = [lns EXCEPT ![o] = @ \ {n}]
  /\ BackToIdle(n)
  /\ deaf' = deaf \ {n}
  /\ UNCHANGED <<portVars, groups, head, bound, chClosed, holder, worker, real,
                 extBound, doubled>>

\* Mutant of LeaveLast: acceptCh is not closed.
LeaveLastKeepsChannel(n) ==
  /\ pc[n] = "member"
  /\ LET o == obj[n] IN
     /\ holder[o] = NoName
     /\ lns[o] = {n}
     /\ lns' = [lns EXCEPT ![o] = {}]
     /\ bound' = [bound EXCEPT ![o] = 0]
     /\ Release(head[o].realPort)
     /\ holder' = [holder EXCEPT ![o] = n]
     /\ pc' = [pc EXCEPT ![n] = "remove"]
  /\ deaf' = deaf \ {n}
  /\ UNCHANGED <<groups, head, chClosed, worker, obj, req, real, extBound, doubled>>

\* The last member leaves: acceptCh and the socket are closed and the port is
\* released.  Closing acceptCh a second time panics before the rest.
LeaveLast(n) ==
  /\ pc[n] = "member"
  /\ LET o == obj[n] IN
     /\ holder[o] = NoName
     /\ lns[o] = {n}
     /\ lns' = [lns EXCEPT ![o] = {}]
     /\ IF chClosed[o]
          THEN /\ pc' = [pc EXCEPT ![n] = "panic"]
               /\ UNCHANGED <<portVars, bound, chClosed, holder>>
          ELSE /\ chClosed' = [chClosed EXCEPT ![o] = TRUE]
               /\ bound' = [bound EXCEPT ![o] = 0]
               /\ Release(head[o].realPort)
               /\ holder' = [holder EXCEPT ![o] = n]
               /\ pc' = [pc EXCEPT ![n] = "remove"]
  /\ deaf' = deaf \ {n}
  /\ UNCHANGED <<groups, head, worker, obj, req, real, extBound, doubled>>

\* RemoveGroup takes tgc.mu while tg.mu is held, and deletes by name.
RemoveGroup(n) ==
  /\ pc[n] = "remove"
  /\ groups' = [groups EXCEPT ![head[obj[n]].req.group] = NoObj]
  /\ holder' = [holder EXCEPT ![obj[n]] = NoName]
  /\ BackToIdle(n)
  /\ UNCHANGED <<portVars, lns, head, bound, chClosed, worker, real, deaf, extBound,
                 doubled>>

\* Another process binds or frees a port.
OtherProcessBinds(p) ==
  /\ \A o \in Obj : bound[o] # p
  /\ extBound' = IF p \in extBound THEN extBound \ {p} ELSE extBound \cup {p}
  /\ UNCHANGED <<portVars, groupVars, pc, obj, req, real, deaf, doubled>>

\* cleanReservedPortsWorker
CleanGroupPorts ==
  /\ CleanReserved
  /\ UNCHANGED <<groupVars, pc, obj, req, real, deaf, extBound, doubled>>

-----------------------------------------------------------------------------
Step(n) ==
  \/ Join(n)
  \/ FirstAcquire(n)
  \/ FirstListen(n)
  \/ RemoveGroup(n)

GroupNext ==
  \/ \E n \in Name :
       \/ \E a \in Ask : Lookup(n, a.group, a.key, a.port)
       \/ Step(n)
       \/ Deliver(n)
       \/ AcceptFails(n)
       \/ Leave(n)
       \/ LeaveLast(n)
  \/ \E o \in Obj : UserConn(o) \/ WorkerReturns(o)
  \/ \E p \in Port : OtherProcessBinds(p)
  \/ CleanGroupPorts

GroupSpec == GroupInit /\ [][GroupNext]_allVars

\* worker() sends to whichever member receives, and returns when it can; users
\* and other processes owe nothing, and no proxy ever has to leave or to stay.
Send(o) == \E n \in Name : obj[n] = o /\ Deliver(n)
FairSend(o) == WF_allVars(Send(o))
FairReturn(o) == WF_allVars(WorkerReturns(o))

Fairness == \A o \in Obj : FairSend(o) /\ FairReturn(o)

FairGroupSpec == GroupSpec /\ Fairness

-----------------------------------------------------------------------------
(* Properties *)

\* "group should have same group key" (conf/frpc_full.ini:172): the members of a
\* group at any time asked for the same port with the same key, also when the
\* object was emptied and taken over by a later first member.
MembersAgree ==
  \A n \in Name : pc[n] = "member" =>
    /\ n \in lns[obj[n]]
    /\ \A m \in lns[obj[n]] : req[m] = req[n]

\* A group that serves a configured port has it in use in the port manager, so no
\* other proxy is given the port while the group lives: neither a failed first
\* member, nor a member that leaves, nor the close of another group releases it.
\* The exception is a port of which Acquire made two holders: a name that asks for
\* any port is given its reserved one (ports.go:81-90) although a group has it,
\* acquired, and does not listen on it.
ServedPortIsUsed ==
  \A o \in Obj :
    lns[o] # {} /\ head[o].req.port # 0 =>
      /\ bound[o] = head[o].req.port
      /\ bound[o] \notin doubled => usedPorts[bound[o]] # NoName

\* An accepted user connection never blocks worker() for good: a member takes
\* it, or the group ends and closing acceptCh wakes the worker.
WorkerNeverStuck == \A o \in Obj : worker[o] = "send" ~> worker[o] # "send"

-----------------------------------------------------------------------------
(* The inductive invariant behind the proofs *)

\* Who is in a group, and what its members asked for.
MemberInv ==
  /\ \A n \in Name : pc[n] = "idle" <=> obj[n] = NoObj
  /\ \A o \in Obj, n \in Name : n \in lns[o] <=> pc[n] = "member" /\ obj[n] = o
  /\ \A o \in Obj : \A n \in lns[o] : req[n] = head[o].req

\* tg.mu is held between two steps by the first member that acquires the port
\* and by the last one that removes the group, and only while nobody is in it.
LockInv ==
  \A n \in Name : pc[n] \in {"bind", "remove"} =>
    holder[obj[n]] = n /\ lns[obj[n]] = {}

\* Whoever found an object found it under one name, and the map has it under
\* that name or no more.
GroupInv ==
  /\ \A m, n \in Name : obj[m] # NoObj /\ obj[m] = obj[n] => req[m].group = req[n].group
  /\ \A g, h \in Group : groups[g] # NoObj /\ groups[g] = groups[h] => g = h
  /\ \A g \in Group, n \in Name : obj[n] # NoObj /\ obj[n] = groups[g] => req[n].group = g

\* The port that a first member or the members of a group hold: it is marked as
\* used, unless it has two holders, and is the one that was asked for.
PortOfBinder(n) ==
  pc[n] = "bind" =>
    /\ real[n] \in Port
    /\ real[n] \notin doubled => usedPorts[real[n]] # NoName
    /\ req[n].port # 0 => real[n] = req[n].port

PortOfGroup(o) ==
  lns[o] # {} =>
    /\ head[o].realPort \in Port
    /\ head[o].realPort \notin doubled => usedPorts[head[o].realPort] # NoName
    /\ head[o].req.port # 0 => /\ head[o].realPort = head[o].req.port
                               /\ bound[o] = head[o].req.port

\* Two holders of a port are known to the history, so the release of any other
\* port is nobody else's.
ApartInv ==
  /\ \A m, n \in Name :
       m # n /\ pc[m] = "bind" /\ pc[n] = "bind" /\ real[m] = real[n] => real[m] \in doubled
  /\ \A n \in Name, o \in Obj :
       pc[n] = "bind" /\ lns[o] # {} /\ real[n] = head[o].realPort => real[n] \in doubled
  /\ \A o, q \in Obj :
       o # q /\ lns[o] # {} /\ lns[q] # {} /\ head[o].realPort = head[q].realPort =>
         head[o].realPort \in doubled

GroupPortInv ==
  /\ \A n \in Name : PortOfBinder(n)
  /\ \A o \in Obj : PortOfGroup(o)
  /\ ApartInv

\* A worker has somebody who takes its connection: a group that lost its last
\* member has its channel closed, and only a closed channel ends accept loops.
WorkerInv ==
  /\ \A o \in Obj : worker[o] # "none" => chClosed[o] \/ lns[o] # {}
  /\ \A n \in deaf : pc[n] = "member" /\ chClosed[obj[n]]

GroupIInv == GroupTypeOK /\ PortsPartitioned /\ MemberInv /\ LockInv /\ GroupInv /\ GroupPortInv

\* The guards of an accept loop and of worker(), and that a goroutine whose guard
\* holds can make a step.
DeliverReady(n) ==
  pc[n] = "member" /\ n \notin deaf /\ worker[obj[n]] = "send" /\ ~chClosed[obj[n]]
ReturnReady(o) == worker[o] = "send" /\ chClosed[o]

GroupGuardsEnable ==
  \A o \in Obj :
    /\ (\E n \in Name : obj[n] = o /\ DeliverReady(n)) => ENABLED <<Send(o)>>_allVars
    /\ ReturnReady(o) => ENABLED <<WorkerReturns(o)>>_allVars
=============================================================================
