---------------------------- MODULE PortManager ----------------------------
(***************************************************************************)
(* The port manager of frps (server/ports/ports.go): which of the allowed  *)
(* ports are free, which are in use, and which port each proxy name had    *)
(* last, so that a proxy that asks for "any port" gets its old one back.   *)
(*                                                                         *)
(* A passive component: the operators below are the methods, each one      *)
(* atomic because it holds pm.mu; the modules that extend this one call    *)
(* them.  A PortCtx is shared between usedPorts and reservedPorts; it is   *)
(* the same object exactly when a name's reserved port is used by it.      *)
(***************************************************************************)
EXTENDS Naturals, FiniteSets

CONSTANTS
  Port,    \* the allowed ports
  Name,    \* proxy names
  NoName,  \* no owner
  Want,    \* remote_port values that clients ask for, 0 for any
  MaxTry   \* how many random ports Acquire tries (5 in the code)

ASSUME PortAssumption ==
  /\ Port \subseteq Nat \ {0}
  /\ NoName \notin Name
  /\ Want \subseteq Nat
  /\ MaxTry \in Nat \ {0}

VARIABLES
  freePorts,      \* set of ports
  usedPorts,      \* proxy name recorded for each used port, or NoName
  reservedPorts,  \* last port of each proxy name, 0 if there is none
  reservedClosed, \* names whose PortCtx is marked Closed
  extBound        \* ports bound by other processes, or by sockets nobody refers to

portVars == <<freePorts, usedPorts, reservedPorts, reservedClosed>>

PortTypeOK ==
  /\ freePorts \subseteq Port
  /\ usedPorts \in [Port -> Name \cup {NoName}]
  /\ reservedPorts \in [Name -> Port \cup {0}]
  /\ reservedClosed \subseteq Name

NewManager ==
  /\ freePorts = Port
  /\ usedPorts = [p \in Port |-> NoName]
  /\ reservedPorts = [n \in Name |-> 0]
  /\ reservedClosed = {}

-----------------------------------------------------------------------------
(* busy is the set of ports on which isPortAvailable cannot listen.          *)

\* The name's reserved port can be handed out again, whoever has it now.
ReservedUsable(name, busy) ==
  reservedPorts[name] # 0 /\ reservedPorts[name] \notin busy

\* The ports Acquire(name, want) may return.
Grantable(name, want, busy) ==
  IF want # 0 THEN (freePorts \ busy) \cap {want}
  ELSE IF ReservedUsable(name, busy) THEN {reservedPorts[name]}
  ELSE freePorts \ busy

\* Mutant of AcquireOk: the port stays in freePorts.
AcquireKeepsFree(name, want, busy, real) ==
  /\ real \in Grantable(name, want, busy)
  /\ usedPorts' = [usedPorts EXCEPT ![real] = name]
  /\ reservedPorts' = [reservedPorts EXCEPT ![name] = real]
  /\ reservedClosed' = reservedClosed \ {name}
  /\ UNCHANGED freePorts

AcquireOk(name, want, busy, real) ==
  /\ real \in Grantable(name, want, busy)
  /\ freePorts' = freePorts \ {real}
  /\ usedPorts' = [usedPorts EXCEPT ![real] = name]
  /\ reservedPorts' = [reservedPorts EXCEPT ![name] = real]
  /\ reservedClosed' = reservedClosed \ {name}

\* A random port is looked for among the first MaxTry free ports only, so
\* Acquire can fail although a port is left.
AcquireFails(name, want, busy) ==
  /\ IF want # 0 THEN want \notin freePorts \ busy
     ELSE /\ ~ReservedUsable(name, busy)
          /\ \/ freePorts \subseteq busy
             \/ Cardinality(freePorts \cap busy) >= MaxTry
  /\ UNCHANGED portVars

Release(p) ==
  IF usedPorts[p] = NoName THEN UNCHANGED portVars
  ELSE /\ freePorts' = freePorts \cup {p}
       /\ usedPorts' = [usedPorts EXCEPT ![p] = NoName]
       /\ reservedClosed' = IF reservedPorts[usedPorts[p]] = p
                            THEN reservedClosed \cup {usedPorts[p]}
                            ELSE reservedClosed
       /\ UNCHANGED reservedPorts

\* One round of cleanReservedPortsWorker: the closed reservations that are
\* older than MaxPortReservedDuration go.
CleanReserved ==
  \E old \in SUBSET reservedClosed :
    /\ old # {}
    /\ reservedPorts' = [n \in Name |-> IF n \in old THEN 0 ELSE reservedPorts[n]]
    /\ reservedClosed' = reservedClosed \ old
    /\ UNCHANGED <<freePorts, usedPorts>>

-----------------------------------------------------------------------------
\* Acquire and Release keep the books straight: an allowed port is either free
\* or recorded as used, never both and never neither.
PortsPartitioned == \A p \in Port : p \in freePorts <=> usedPorts[p] = NoName
=============================================================================
