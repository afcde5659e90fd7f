----------------------------- MODULE ProxyMetrics -----------------------------
(***************************************************************************)
(* The statistics of frps about its proxies (pkg/metrics/mem/server.go) as *)
(* the controls feed them: a proxy enters the proxy Manager under the lock *)
(* of the Manager and is reported to the statistics in a second step under *)
(* another lock; leaving goes the same way.  ForceCloseProxy, called by    *)
(* the dashboard, may come between the two steps of the registration, or   *)
(* after stoper, which leaves ctl.proxies as it is: it then closes, takes  *)
(* out of the Manager and reports a second time.                           *)
(*                                                                         *)
(* A registration is one successful NewProxy message of a client; its name *)
(* may be the name of an earlier one, of the same or of another type.      *)
(***************************************************************************)
EXTENDS Integers, FiniteSets

CONSTANTS
    Reg,          \* registrations
    NameOf,       \* the name of the proxy of each registration
    TypeOf,       \* its type
    Workloads,    \* bound: the sets of registrations that clients may send
    LateClosed,   \* bound: registrations that may be closed late, after stoper
    MaxRestarts   \* bound: restarts of frps

ASSUME ProxyMetricsAssumption ==
    /\ IsFiniteSet(Reg)
    /\ NameOf \in [Reg -> STRING] /\ TypeOf \in [Reg -> STRING]
    /\ Workloads \subseteq SUBSET Reg
    /\ LateClosed \subseteq Reg
    /\ MaxRestarts \in Nat

VARIABLES
    workload,   \* the registrations that come
    added,      \* put into the Manager
    deleted,    \* closed by their own control, and taken out of it
    ousted,     \* taken out of it by the close of another one of their name
    kept,       \* closed by stoper: still in the ctl.proxies of a dead control
    again,      \* closed once more by a late ForceCloseProxy
    opened,     \* reported with NewProxy
    closed,     \* reported with CloseProxy
    twice,      \* reported with CloseProxy once more
    counts,     \* ProxyTypeCounts: a function on the types it has a key for
    stats,      \* ProxyStatistics: a function on the names it has a key for
    skipped,    \* history: registrations whose close found no counter
    late,       \* history: names about which a late report came in
    restarts    \* how often frps was restarted

closeVars == <<ousted, kept, again>>
metricVars == <<workload, added, deleted, closeVars, opened, closed, twice,
                counts, stats, skipped, late, restarts>>

(* What Manager.GetByName finds. *)
Registered == added \ (deleted \cup ousted)

Running == opened \ deleted

(* Whom Manager.Del, called for r, takes out besides r: it goes by name.   *)
Ousts(r) == {q \in Registered \ {r} : NameOf[q] = NameOf[r]}

Names == {NameOf[r] : r \in Reg}
Types == {TypeOf[r] : r \in Reg}

Without(f, k) == [x \in DOMAIN f \ {k} |-> f[x]]
With(f, k, v) == [x \in DOMAIN f \cup {k} |-> IF x = k THEN v ELSE f[x]]

(* Another running proxy has the name of r. *)
Namesake(r) == \E q \in Running \ {r} : NameOf[q] = NameOf[r]

NoKeys == [x \in {} |-> 0]

MetricsInit ==
    /\ workload \in Workloads
    /\ added = {} /\ deleted = {} /\ opened = {} /\ closed = {}
    /\ ousted = {} /\ kept = {} /\ again = {} /\ twice = {}
    /\ counts = NoKeys /\ stats = NoKeys
    /\ skipped = {} /\ late = {}
    /\ restarts = 0

(* RegisterProxy, up to the entry in ctl.proxies: Manager.Add refuses a    *)
(* name that is taken.                                                     *)
RegisterProxy(r) ==
    /\ r \in workload \ added
    /\ \A q \in Registered : NameOf[q] # NameOf[r]
    /\ added' = added \cup {r}
    /\ UNCHANGED <<workload, deleted, closeVars, opened, closed, twice, counts,
                   stats, skipped, late, restarts>>

(* The proxy is closed and Manager.Del is called: by CloseProxy or stoper  *)
(* when NewProxy was reported, by ForceCloseProxy at any time.  stoper     *)
(* does not take the proxy out of ctl.proxies.                             *)
Del(r) ==
    /\ r \in added \ deleted
    /\ deleted' = deleted \cup {r}
    /\ ousted' = ousted \cup Ousts(r)
    /\ \/ UNCHANGED kept
       \/ /\ r \in opened \cap LateClosed
          /\ kept' = kept \cup {r}
    /\ UNCHANGED <<workload, added, again, opened, closed, twice, counts, stats,
                   skipped, late, restarts>>

(* ForceCloseProxy that found the control before it left the control       *)
(* manager and had to wait for stoper to let go of ctl.mu.                 *)
ForceCloseProxyLate(r) ==
    /\ r \in (kept \cap closed) \ again
    /\ again' = again \cup {r}
    /\ ousted' = ousted \cup Ousts(r)
    /\ UNCHANGED <<workload, added, deleted, kept, opened, closed, twice, counts,
                   stats, skipped, late, restarts>>

NewProxyKeepsType(r) ==
    LET n == NameOf[r]  t == TypeOf[r] IN
    /\ r \in added \ opened
    /\ opened' = opened \cup {r}
    /\ counts' = With(counts, t, (IF t \in DOMAIN counts THEN counts[t] ELSE 0) + 1)
    /\ stats' = With(stats, n, [type |-> IF n \in DOMAIN stats THEN stats[n].type ELSE t,
                                ended |-> FALSE])
    /\ late' = IF Namesake(r) THEN late \cup {n} ELSE late \ {n}
    /\ UNCHANGED <<workload, added, deleted, closeVars, closed, twice, skipped,
                   restarts>>

(* NewProxy of the statistics: the counter of the type goes up; an entry   *)
(* of the same type is kept, any other is replaced; its start is now.      *)
NewProxy(r) ==
    LET n == NameOf[r]  t == TypeOf[r] IN
    /\ r \in added \ opened
    /\ opened' = opened \cup {r}
    /\ counts' = With(counts, t, (IF t \in DOMAIN counts THEN counts[t] ELSE 0) + 1)
    /\ stats' = With(stats, n, [type |-> t, ended |-> FALSE])
    /\ late' = IF Namesake(r) THEN late \cup {n} ELSE late \ {n}
    /\ UNCHANGED <<workload, added, deleted, closeVars, closed, twice, skipped,
                   restarts>>

(* CloseProxy is due: once for each close of the proxy. *)
CloseReport(r) ==
    \/ r \in deleted \ closed /\ closed' = closed \cup {r} /\ UNCHANGED twice
    \/ r \in again \ twice /\ twice' = twice \cup {r} /\ UNCHANGED closed

CloseProxyUncounted(r) ==
    LET n == NameOf[r] IN
    /\ CloseReport(r)
    /\ stats' = IF n \in DOMAIN stats THEN [stats EXCEPT ![n].ended = TRUE] ELSE stats
    /\ late' = IF Namesake(r) THEN late \cup {n} ELSE late
    /\ UNCHANGED <<workload, added, deleted, closeVars, opened, counts, skipped,
                   restarts>>

(* CloseProxy of the statistics: no counter, no decrement; the entry with  *)
(* the name, whoever's it is by now, has ended now.                        *)
CloseProxy(r) ==
    LET n == NameOf[r]  t == TypeOf[r] IN
    /\ CloseReport(r)
    /\ IF t \in DOMAIN counts
       THEN /\ counts' = [counts EXCEPT ![t] = @ - 1]
            /\ UNCHANGED skipped
       ELSE /\ skipped' = skipped \cup {r}
            /\ UNCHANGED counts
    /\ stats' = IF n \in DOMAIN stats THEN [stats EXCEPT ![n].ended = TRUE] ELSE stats
    /\ late' = IF Namesake(r) THEN late \cup {n} ELSE late
    /\ UNCHANGED <<workload, added, deleted, closeVars, opened, restarts>>

(* clearUselessInfo: seven days passed since the last close, which is      *)
(* later than the last start.                                              *)
ClearEntry(n) ==
    /\ n \in DOMAIN stats /\ stats[n].ended
    /\ stats' = Without(stats, n)
    /\ UNCHANGED <<workload, added, deleted, closeVars, opened, closed, twice,
                   counts, skipped, late, restarts>>

(* frps ends and starts with nothing. *)
MetricsRestart ==
    /\ restarts < MaxRestarts
    /\ restarts' = restarts + 1
    /\ added' = {} /\ deleted' = {} /\ opened' = {} /\ closed' = {}
    /\ ousted' = {} /\ kept' = {} /\ again' = {} /\ twice' = {}
    /\ counts' = NoKeys /\ stats' = NoKeys
    /\ skipped' = {} /\ late' = {}
    /\ UNCHANGED workload

MetricsStep ==
    \/ \E r \in Reg : \/ RegisterProxy(r) \/ Del(r) \/ ForceCloseProxyLate(r)
                      \/ NewProxy(r) \/ CloseProxy(r)
    \/ \E n \in Names : ClearEntry(n)

MetricsNext == MetricsStep \/ MetricsRestart

MetricsSpec == MetricsInit /\ [][MetricsNext]_metricVars

-----------------------------------------------------------------------------
(* A report follows what it reports; the statistics have the right shape.  *)
MetricsTypeOK ==
    /\ workload \in SUBSET Reg
    /\ added \in SUBSET Reg /\ deleted \in SUBSET added
    /\ opened \in SUBSET added /\ closed \in SUBSET deleted
    /\ ousted \in SUBSET added /\ kept \in SUBSET (deleted \cap opened)
    /\ again \in SUBSET (kept \cap closed) /\ twice \in SUBSET again
    /\ skipped \in SUBSET closed
    /\ DOMAIN counts \subseteq Types
    /\ counts = [t \in DOMAIN counts |-> counts[t]]
    /\ \A t \in DOMAIN counts : counts[t] \in Int
    /\ DOMAIN stats \subseteq Names
    /\ stats = [n \in DOMAIN stats |-> stats[n]]
    /\ \A n \in DOMAIN stats : stats[n] \in [type : Types, ended : BOOLEAN]
    /\ late \subseteq Names
    /\ restarts \in 0..MaxRestarts

OfType(S, t) == Cardinality({r \in S : TypeOf[r] = t})

(* When every report has come in, in whatever order, the counter of a type *)
(* is the number of its proxies that are running, but for what the         *)
(* dashboard's ForceCloseProxy leaves for good: one too many for each      *)
(* close that came before its type had a counter (it is skipped), one too  *)
(* few for each proxy that stoper had closed and reported already.         *)
CountsExact ==
    (opened = added /\ closed = deleted /\ twice = again) =>
       \A t \in Types :
          (IF t \in DOMAIN counts THEN counts[t] ELSE 0)
             = OfType(Running, t) + OfType(skipped, t) - OfType(twice, t)

(* A running proxy has an entry of its type, so that the page of that type *)
(* lists it: a report about an earlier proxy of the name that comes in     *)
(* after the NewProxy of the running one is the only way to lose it.       *)
RunningIsListed ==
    \A r \in Running :
       NameOf[r] \in late \/
          (NameOf[r] \in DOMAIN stats /\ stats[NameOf[r]].type = TypeOf[r])
=============================================================================
