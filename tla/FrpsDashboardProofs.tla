------------------------- MODULE FrpsDashboardProofs -------------------------
(***************************************************************************)
(* What the statistics of frps promise the dashboard, for every set of     *)
(* registrations, and through the composition with the browser: a page may *)
(* read them between any two reports.  Then what the pages show of a frps  *)
(* that does not change while they load, and that every request ends (from *)
(* [] GuardsEnable and LeastNumbers, since the prover neither looks into   *)
(* ENABLED nor does induction over temporal formulas).                     *)
(***************************************************************************)
EXTENDS FrpsDashboard, FiniteSetTheorems, TLAPS

USE DEF closeVars

(* The names in the Manager are unique; the entry of a running proxy about *)
(* which no late report came in has its type and has not ended, so that    *)
(* clearUselessInfo keeps it.                                              *)
UniqueNames == \A r, q \in Registered : NameOf[r] = NameOf[q] => r = q

Entry ==
    \A r \in Running :
       NameOf[r] \in late \/
          /\ NameOf[r] \in DOMAIN stats
          /\ stats[NameOf[r]].type = TypeOf[r]
          /\ ~stats[NameOf[r]].ended

CountOf(t) == IF t \in DOMAIN counts THEN counts[t] ELSE 0

(* Every report moves its counter by one, but for the closes that were     *)
(* skipped; a proxy that is reported twice was reported with NewProxy, so  *)
(* that its type has a counter.                                            *)
Balance ==
    /\ \A r \in opened : TypeOf[r] \in DOMAIN counts
    /\ \A t \in Types : CountOf(t) = OfType(opened, t) - OfType(closed, t)
                                      + OfType(skipped, t) - OfType(twice, t)

(* The inductive invariant of the statistics. *)
MetricsInv == MetricsTypeOK /\ UniqueNames /\ Entry /\ Balance

LEMMA OfTypeNat ==
    ASSUME NEW S \in SUBSET Reg, NEW t
    PROVE  OfType(S, t) \in Nat
  <1>1. IsFiniteSet({r \in S : TypeOf[r] = t})
    BY FS_Subset, ProxyMetricsAssumption
  <1> QED  BY <1>1, FS_CardinalityType DEF OfType

LEMMA OfTypeEmpty ==
    ASSUME NEW t
    PROVE  OfType({}, t) = 0
  <1>1. {r \in {} : TypeOf[r] = t} = {}
    OBVIOUS
  <1> QED  BY <1>1, FS_EmptySet DEF OfType

(* A set that grows by one registration has one more of its type and the   *)
(* same number of the others.                                              *)
LEMMA OfTypeAdd ==
    ASSUME NEW S \in SUBSET Reg, NEW r \in Reg, r \notin S, NEW t
    PROVE  OfType(S \cup {r}, t) = OfType(S, t) + IF TypeOf[r] = t THEN 1 ELSE 0
  <1> DEFINE A == {q \in S : TypeOf[q] = t}
  <1>1. IsFiniteSet(A) /\ Cardinality(A) \in Nat
    BY FS_Subset, FS_CardinalityType, ProxyMetricsAssumption
  <1>2. CASE TypeOf[r] = t
    <2>1. {q \in S \cup {r} : TypeOf[q] = t} = A \cup {r} /\ r \notin A
      BY <1>2
    <2>2. Cardinality(A \cup {r}) = Cardinality(A) + 1
      BY <1>1, <2>1, FS_AddElement
    <2> QED  BY <1>2, <2>1, <2>2 DEF OfType
  <1>3. CASE TypeOf[r] # t
    <2>1. {q \in S \cup {r} : TypeOf[q] = t} = A
      BY <1>3
    <2> QED  BY <1>1, <1>3, <2>1 DEF OfType
  <1> QED  BY <1>2, <1>3

(* Of a set and a part of it, the rest has the difference. *)
LEMMA OfTypeRest ==
    ASSUME NEW S \in SUBSET Reg, NEW T \in SUBSET S, NEW t
    PROVE  OfType(S \ T, t) = OfType(S, t) - OfType(T, t)
  <1> DEFINE A == {q \in S : TypeOf[q] = t}
             B == {q \in T : TypeOf[q] = t}
  <1>1. IsFiniteSet(A) /\ B \in SUBSET A
    BY FS_Subset, ProxyMetricsAssumption
  <1>2. {q \in S \ T : TypeOf[q] = t} = A \ B /\ A \cap B = B
    OBVIOUS
  <1>3. IsFiniteSet(B)
    BY <1>1, FS_Subset
  <1>4. Cardinality(A \ B) = Cardinality(A) - Cardinality(A \cap B)
    BY <1>1, FS_Difference
  <1> QED  BY <1>2, <1>4 DEF OfType

LEMMA MetricsInitInv == MetricsInit => MetricsInv
  <1> SUFFICES ASSUME MetricsInit PROVE MetricsInv
    OBVIOUS
  <1> USE DEF MetricsInit, NoKeys
  <1>1. MetricsTypeOK
    BY ProxyMetricsAssumption DEF MetricsTypeOK
  <1>2. UniqueNames /\ Entry
    BY DEF UniqueNames, Entry, Registered, Running
  <1>3. Balance
    BY OfTypeEmpty DEF Balance, CountOf
  <1> QED  BY <1>1, <1>2, <1>3 DEF MetricsInv

LEMMA TypeStep == MetricsTypeOK /\ [MetricsNext]_metricVars => MetricsTypeOK'
  <1> SUFFICES ASSUME MetricsTypeOK, [MetricsNext]_metricVars PROVE MetricsTypeOK'
    OBVIOUS
  <1> USE DEF MetricsTypeOK
  <1>1. ASSUME NEW r \in Reg, RegisterProxy(r) PROVE MetricsTypeOK'
    BY <1>1 DEF RegisterProxy
  <1>2. ASSUME NEW r \in Reg, Del(r) \/ ForceCloseProxyLate(r) PROVE MetricsTypeOK'
    <2>1. Ousts(r) \subseteq added
      BY DEF Ousts, Registered
    <2> QED  BY <1>2, <2>1 DEF Del, ForceCloseProxyLate
  <1>3. ASSUME NEW r \in Reg, NewProxy(r) PROVE MetricsTypeOK'
    <2>1. NameOf[r] \in Names /\ TypeOf[r] \in Types
      BY DEF Names, Types
    <2>2. DOMAIN counts' \subseteq Types /\ counts' = [t \in DOMAIN counts' |-> counts'[t]]
            /\ \A t \in DOMAIN counts' : counts'[t] \in Int
      BY <1>3, <2>1 DEF NewProxy, With
    <2>3. DOMAIN stats' \subseteq Names /\ stats' = [n \in DOMAIN stats' |-> stats'[n]]
            /\ \A n \in DOMAIN stats' : stats'[n] \in [type : Types, ended : BOOLEAN]
      BY <1>3, <2>1 DEF NewProxy, With
    <2>4. late' \subseteq Names
      BY <1>3, <2>1 DEF NewProxy
    <2> QED  BY <1>3, <2>2, <2>3, <2>4 DEF NewProxy
  <1>4. ASSUME NEW r \in Reg, CloseProxy(r) PROVE MetricsTypeOK'
    <2>1. NameOf[r] \in Names
      BY DEF Names
    <2>2. DOMAIN counts' \subseteq Types /\ counts' = [t \in DOMAIN counts' |-> counts'[t]]
            /\ \A t \in DOMAIN counts' : counts'[t] \in Int
      BY <1>4 DEF CloseProxy
    <2>3. DOMAIN stats' \subseteq Names /\ stats' = [n \in DOMAIN stats' |-> stats'[n]]
            /\ \A n \in DOMAIN stats' : stats'[n] \in [type : Types, ended : BOOLEAN]
      BY <1>4, ZenonT(60) DEF CloseProxy
    <2>4. late' \subseteq Names
      BY <1>4, <2>1 DEF CloseProxy
    <2>5. /\ closed' \in SUBSET deleted' /\ closed \subseteq closed'
          /\ twice' \in SUBSET again
      BY <1>4 DEF CloseProxy, CloseReport
    <2>6. skipped' \in SUBSET closed'
      BY <1>4 DEF CloseProxy, CloseReport
    <2>7. UNCHANGED <<workload, added, deleted, closeVars, opened, restarts>>
      BY <1>4 DEF CloseProxy
    <2> QED  BY <2>2, <2>3, <2>4, <2>5, <2>6, <2>7
  <1>5. ASSUME NEW n \in Names, ClearEntry(n) PROVE MetricsTypeOK'
    BY <1>5 DEF ClearEntry, Without
  <1>6. CASE MetricsRestart
    BY <1>6, ProxyMetricsAssumption DEF MetricsRestart, NoKeys
  <1>7. CASE UNCHANGED metricVars
    BY <1>7 DEF metricVars
  <1> QED
    BY <1>1, <1>2, <1>3, <1>4, <1>5, <1>6, <1>7 DEF MetricsNext, MetricsStep

(* The names stay unique and the entries of running proxies stay. *)
LEMMA EntryStep ==
    MetricsTypeOK /\ UniqueNames /\ Entry /\ [MetricsNext]_metricVars
       => UniqueNames' /\ Entry'
  <1> SUFFICES ASSUME MetricsTypeOK, UniqueNames, Entry, [MetricsNext]_metricVars
               PROVE  UniqueNames' /\ Entry'
    OBVIOUS
  <1> USE DEF UniqueNames, Entry, Registered, Running
  <1>1. ASSUME NEW r \in Reg, RegisterProxy(r) PROVE UniqueNames' /\ Entry'
    BY <1>1 DEF RegisterProxy, MetricsTypeOK
  <1>2. ASSUME NEW r \in Reg, Del(r) \/ ForceCloseProxyLate(r) PROVE UniqueNames' /\ Entry'
    BY <1>2 DEF Del, ForceCloseProxyLate, MetricsTypeOK
  <1>3. ASSUME NEW r \in Reg, NewProxy(r) PROVE UniqueNames' /\ Entry'
    <2>1. UniqueNames'
      BY <1>3 DEF NewProxy
    <2>2. ASSUME NEW q \in Running' PROVE
             NameOf[q] \in late' \/ (/\ NameOf[q] \in DOMAIN stats'
                                    /\ stats'[NameOf[q]].type = TypeOf[q]
                                    /\ ~stats'[NameOf[q]].ended)
      <3>1. CASE q = r
        BY <1>3, <3>1 DEF NewProxy, With
      <3>2. CASE q # r /\ NameOf[q] = NameOf[r]
        BY <1>3, <2>2, <3>2 DEF NewProxy, Namesake
      <3>3. CASE NameOf[q] # NameOf[r]
        <4>1. q \in Running
          BY <1>3, <2>2, <3>3 DEF NewProxy
        <4> QED  BY <1>3, <3>3, <4>1 DEF NewProxy, With
      <3> QED  BY <3>1, <3>2, <3>3
    <2> QED  BY <2>1, <2>2
  <1>4. ASSUME NEW r \in Reg, CloseProxy(r) PROVE UniqueNames' /\ Entry'
    <2>1. UniqueNames'
      BY <1>4 DEF CloseProxy
    <2>2. ASSUME NEW q \in Running' PROVE
             NameOf[q] \in late' \/ (/\ NameOf[q] \in DOMAIN stats'
                                    /\ stats'[NameOf[q]].type = TypeOf[q]
                                    /\ ~stats'[NameOf[q]].ended)
      <3>1. q \in Running /\ q # r
        BY <1>4, <2>2 DEF CloseProxy, CloseReport, MetricsTypeOK
      <3>2. CASE NameOf[q] = NameOf[r]
        BY <1>4, <3>1, <3>2 DEF CloseProxy, Namesake
      <3>3. CASE NameOf[q] # NameOf[r]
        BY <1>4, <3>1, <3>3 DEF CloseProxy, MetricsTypeOK
      <3> QED  BY <3>2, <3>3
    <2> QED  BY <2>1, <2>2
  <1>5. ASSUME NEW n \in Names, ClearEntry(n) PROVE UniqueNames' /\ Entry'
    BY <1>5 DEF ClearEntry, Without
  <1>6. CASE MetricsRestart
    BY <1>6 DEF MetricsRestart
  <1>7. CASE UNCHANGED metricVars
    BY <1>7 DEF metricVars
  <1> QED
    BY <1>1, <1>2, <1>3, <1>4, <1>5, <1>6, <1>7 DEF MetricsNext, MetricsStep

(* A report of CloseProxy, the first or the second one of its proxy. *)
LEMMA CloseBalance ==
    ASSUME MetricsTypeOK, Balance, NEW r \in Reg, CloseProxy(r), NEW t \in Types
    PROVE  CountOf(t)' = OfType(opened', t) - OfType(closed', t)
                           + OfType(skipped', t) - OfType(twice', t)
  <1> DEFINE one == IF TypeOf[r] = t THEN 1 ELSE 0
  <1>1. /\ opened \in SUBSET Reg /\ closed \in SUBSET Reg /\ skipped \in SUBSET Reg
        /\ twice \in SUBSET Reg
    BY DEF MetricsTypeOK
  <1>2. /\ OfType(opened, t) \in Nat /\ OfType(closed, t) \in Nat
        /\ OfType(skipped, t) \in Nat /\ OfType(twice, t) \in Nat
    BY <1>1, OfTypeNat
  <1>3. CountOf(t) = OfType(opened, t) - OfType(closed, t) + OfType(skipped, t) - OfType(twice, t)
    BY DEF Balance
  <1>4. opened' = opened /\ CloseReport(r)
    BY DEF CloseProxy
  <1>5. CASE TypeOf[r] \in DOMAIN counts
    <2>1. skipped' = skipped /\ counts' = [counts EXCEPT ![TypeOf[r]] = @ - 1]
      BY <1>5 DEF CloseProxy
    <2>2. CountOf(t)' = CountOf(t) - one
      BY <1>5, <2>1 DEF CountOf, MetricsTypeOK
    <2>3. CASE r \in deleted \ closed /\ closed' = closed \cup {r} /\ UNCHANGED twice
      <3>1. OfType(closed', t) = OfType(closed, t) + one
        BY <1>1, <2>3, OfTypeAdd
      <3> QED  BY <1>2, <1>3, <1>4, <2>1, <2>2, <2>3, <3>1
    <2>4. CASE r \in again \ twice /\ twice' = twice \cup {r} /\ UNCHANGED closed
      <3>1. OfType(twice', t) = OfType(twice, t) + one
        BY <1>1, <2>4, OfTypeAdd
      <3> QED  BY <1>2, <1>3, <1>4, <2>1, <2>2, <2>4, <3>1
    <2> QED  BY <1>4, <2>3, <2>4 DEF CloseReport
  <1>6. CASE TypeOf[r] \notin DOMAIN counts
    <2>1. skipped' = skipped \cup {r} /\ counts' = counts
      BY <1>6 DEF CloseProxy
    <2>2. r \notin again
      BY <1>6 DEF MetricsTypeOK, Balance
    <2>3. r \in deleted \ closed /\ closed' = closed \cup {r} /\ UNCHANGED twice
      BY <1>4, <2>2 DEF CloseReport
    <2>4. r \notin skipped
      BY <2>3 DEF MetricsTypeOK
    <2>5. /\ OfType(closed', t) = OfType(closed, t) + one
          /\ OfType(skipped', t) = OfType(skipped, t) + one
      BY <1>1, <2>1, <2>3, <2>4, OfTypeAdd
    <2>6. CountOf(t)' = CountOf(t)
      BY <2>1 DEF CountOf
    <2> QED  BY <1>2, <1>3, <1>4, <2>3, <2>5, <2>6
  <1> QED  BY <1>5, <1>6

LEMMA BalanceStep ==
    MetricsTypeOK /\ Balance /\ [MetricsNext]_metricVars => Balance'
  <1> SUFFICES ASSUME MetricsTypeOK, Balance, [MetricsNext]_metricVars PROVE Balance'
    OBVIOUS
  <1>0. /\ opened \in SUBSET Reg /\ closed \in SUBSET Reg /\ skipped \in SUBSET Reg
        /\ twice \in SUBSET Reg
    BY DEF MetricsTypeOK
  <1>a. \A t : /\ OfType(opened, t) \in Nat /\ OfType(closed, t) \in Nat
               /\ OfType(skipped, t) \in Nat /\ OfType(twice, t) \in Nat
    BY <1>0, OfTypeNat
  <1>b. \A t \in DOMAIN counts : counts[t] \in Int
    BY DEF MetricsTypeOK
  <1>1. ASSUME UNCHANGED <<counts, opened, closed, skipped, twice>> PROVE Balance'
    BY <1>1 DEF Balance, CountOf
  <1>2. ASSUME NEW r \in Reg, RegisterProxy(r) \/ Del(r) \/ ForceCloseProxyLate(r)
        PROVE  UNCHANGED <<counts, opened, closed, skipped, twice>>
    BY <1>2 DEF RegisterProxy, Del, ForceCloseProxyLate
  <1>3. ASSUME NEW r \in Reg, NewProxy(r) PROVE Balance'
    <2>1. \A q \in opened' : TypeOf[q] \in DOMAIN counts'
      BY <1>3 DEF NewProxy, With, Balance
    <2>2. ASSUME NEW t \in Types
          PROVE  CountOf(t)' = OfType(opened', t) - OfType(closed', t)
                                 + OfType(skipped', t) - OfType(twice', t)
      <3>1. OfType(opened', t) = OfType(opened, t) + IF TypeOf[r] = t THEN 1 ELSE 0
        BY <1>0, <1>3, OfTypeAdd DEF NewProxy
      <3>2. CountOf(t)' = CountOf(t) + IF TypeOf[r] = t THEN 1 ELSE 0
        BY <1>3, <1>b DEF NewProxy, With, CountOf
      <3>3. CountOf(t) = OfType(opened, t) - OfType(closed, t)
                           + OfType(skipped, t) - OfType(twice, t)
        BY DEF Balance
      <3>4. closed' = closed /\ skipped' = skipped /\ twice' = twice
        BY <1>3 DEF NewProxy
      <3> QED  BY <1>a, <3>1, <3>2, <3>3, <3>4
    <2> QED  BY <2>1, <2>2 DEF Balance
  <1>4. ASSUME NEW r \in Reg, CloseProxy(r) PROVE Balance'
    <2>1. opened' = opened /\ DOMAIN counts' = DOMAIN counts
      BY <1>4 DEF CloseProxy
    <2>2. \A q \in opened' : TypeOf[q] \in DOMAIN counts'
      BY <2>1 DEF Balance
    <2> QED  BY <1>4, <2>2, CloseBalance DEF Balance
  <1>5. ASSUME NEW n \in Names, ClearEntry(n)
        PROVE  UNCHANGED <<counts, opened, closed, skipped, twice>>
    BY <1>5 DEF ClearEntry
  <1>6. CASE MetricsRestart
    BY <1>6, OfTypeEmpty DEF MetricsRestart, NoKeys, Balance, CountOf
  <1>7. CASE UNCHANGED metricVars
    BY <1>1, <1>7 DEF metricVars
  <1> QED
    BY <1>1, <1>2, <1>3, <1>4, <1>5, <1>6, <1>7 DEF MetricsNext, MetricsStep

LEMMA MetricsInvStep == MetricsInv /\ [MetricsNext]_metricVars => MetricsInv'
  BY TypeStep, EntryStep, BalanceStep DEF MetricsInv

(* A running proxy has an entry of its type, for any registrations, unless *)
(* a report about another proxy of its name came in after its NewProxy.    *)
THEOREM RunningIsListedAlways == MetricsSpec => []RunningIsListed
  <1>1. MetricsInv => RunningIsListed
    BY DEF MetricsInv, Entry, RunningIsListed
  <1> QED  BY MetricsInitInv, MetricsInvStep, <1>1, PTL DEF MetricsSpec

(* Once every report is in, each counter is the number of running proxies  *)
(* of its type, plus the skipped closes and minus those reported twice, for *)
(* any registrations and any order of the reports.                         *)
THEOREM CountsExactAlways == MetricsSpec => []CountsExact
  <1>1. MetricsInv => CountsExact
    <2> SUFFICES ASSUME MetricsInv, opened = added, closed = deleted, NEW t \in Types
                 PROVE  CountOf(t) = OfType(Running, t) + OfType(skipped, t) - OfType(twice, t)
      BY DEF CountsExact, CountOf
    <2>1. added \in SUBSET Reg /\ deleted \in SUBSET added /\ deleted \in SUBSET Reg
            /\ skipped \in SUBSET Reg /\ twice \in SUBSET Reg
      BY DEF MetricsInv, MetricsTypeOK
    <2>2. OfType(Running, t) = OfType(added, t) - OfType(deleted, t)
      BY <2>1, OfTypeRest DEF Running
    <2>3. CountOf(t) = OfType(added, t) - OfType(deleted, t) + OfType(skipped, t) - OfType(twice, t)
      BY DEF MetricsInv, Balance
    <2> QED  BY <2>1, <2>2, <2>3, OfTypeNat
  <1> QED  BY MetricsInitInv, MetricsInvStep, <1>1, PTL DEF MetricsSpec

(* The dashboard changes the statistics by the steps of ProxyMetrics only: *)
(* its handlers and the browser read them.                                 *)
LEMMA MetricsInvAlways == Spec => []MetricsInv
  <1>1. Init => MetricsInv
    BY MetricsInitInv DEF Init
  <1>2. [Next]_vars => [MetricsNext]_metricVars
    <2> SUFFICES ASSUME [Next]_vars PROVE MetricsNext \/ UNCHANGED metricVars
      OBVIOUS
    <2>1. CASE Metrics
      BY <2>1 DEF Metrics, MetricsNext
    <2>2. CASE \E n \in Totals : Traffic(n)
      BY <2>2 DEF Traffic
    <2>3. CASE \E c \in Configs : Restart(c)
      BY <2>3 DEF Restart, MetricsNext
    <2>4. ASSUME NEW r \in Slot, Handle(r) PROVE UNCHANGED metricVars
      BY <2>4 DEF Handle, APIServerInfo, GetProxiesByType, GetByName, APIProxyByType
    <2>5. ASSUME NEW r \in Slot, Receive(r) PROVE UNCHANGED metricVars
      BY <2>5 DEF Receive, GotOverview, GotVhostInfo, GotList
    <2>6. ASSUME NEW r \in Slot, Reject(r) PROVE UNCHANGED metricVars
      BY <2>6 DEF Reject
    <2>7. CASE \E p \in Page, r \in Slot : Visit(p, r)
      BY <2>7 DEF Visit
    <2>8. CASE UNCHANGED vars
      BY <2>8 DEF vars
    <2> QED  BY <2>1, <2>2, <2>3, <2>4, <2>5, <2>6, <2>7, <2>8 DEF Next
  <1>3. MetricsInv /\ [Next]_vars => MetricsInv'
    BY <1>2, MetricsInvStep
  <1> QED  BY <1>1, <1>3, PTL DEF Spec

-----------------------------------------------------------------------------
(* What the pages show *)

(* What is the case for a request, whatever happens in frps: those of list *)
(* pages, and one of an overview, belong to the page that is shown, which  *)
(* still waits for them.                                                   *)
ReqShape(q) ==
    q = [page |-> q.page, step |-> q.step, stage |-> q.stage, mounted |-> q.mounted,
         info |-> q.info, port |-> q.port, host |-> q.host, snap |-> q.snap,
         list |-> q.list]

ReqOK(r) ==
    LET q == req[r] IN
    /\ ReqShape(q)
    /\ q.mounted \in BOOLEAN
    /\ q.page \in ListPage => q.mounted
    /\ q.page = "/" => q.step = "info"
    /\ q.step = "list" => q.page \in ListPage
    /\ q.stage = "half" => q.step = "list"
    /\ q.mounted => q.page = page /\ ~loaded

ReqInv ==
    /\ DOMAIN req = Slot /\ req = [r \in Slot |-> req[r]]
    /\ cfg \in Configs /\ loaded \in BOOLEAN /\ quiet \in BOOLEAN
    /\ page \in Page \cup {"closed"}
    /\ \A r \in Slot : ReqOK(r)
    /\ \A q, r \in Slot : req[q].mounted /\ req[r].mounted => q = r
    /\ ~loaded => rows = {}

(* The answer that the page that is shown should get, and what it should   *)
(* make of it.                                                             *)
Listed == {n \in DOMAIN stats : stats[n].type = page}
Answer(n) == ProxyStatsInfo(n, ConfNow(n, page))
NoVhost == page \in {"http", "https"} /\ VhostPort(cfg, page) = 0
View == [page |-> page, port |-> VhostPort(cfg, page), host |-> cfg.subdomain_host]

(* The answer of a page under way, when frps has not changed since.        *)
ReqData(r) ==
    LET q == req[r] IN
    /\ q.step = "info" /\ q.stage = "answered" => q.info = ServerInfo
    /\ q.step = "list" /\ page \in {"http", "https"} =>
         /\ q.port = VhostPort(cfg, page) /\ q.port # 0
         /\ q.host = cfg.subdomain_host
    /\ q.step = "info" \/ q.stage = "sent" => q.list = {}
    /\ q.stage = "half" =>
         /\ q.snap \subseteq Listed
         /\ q.list = {Answer(n) : n \in Listed \ q.snap}
    /\ q.step = "list" /\ q.stage = "answered" => q.list = {Answer(n) : n \in Listed}

(* What the page shows, when frps has not changed since it was mounted.    *)
ShownRows ==
    loaded /\ page \in ListPage =>
       rows = IF NoVhost THEN {} ELSE {RowOf(View, Answer(n)) : n \in Listed}

ShownOverview ==
    /\ loaded /\ page = "/" => over.data = OverviewData(ServerInfo)
    /\ over.own /\ page = "/" => over.traffic = DrawTrafficChart(total[1], total[2])

ShownInv ==
    quiet => /\ \A r \in Slot : req[r].mounted => ReqData(r)
             /\ ShownRows
             /\ ShownOverview

(* A record of a request after an assignment to some of its fields. *)
LEMMA SetLost ==
    ASSUME NEW q, ReqShape(q), NEW x,
           x = [q EXCEPT !.stage = "lost", !.snap = {}, !.list = {}]
    PROVE  /\ ReqShape(x) /\ x.stage = "lost"
           /\ x.page = q.page /\ x.step = q.step /\ x.mounted = q.mounted
  BY DEF ReqShape

LEMMA SetUnmounted ==
    ASSUME NEW q, ReqShape(q), NEW x, x = [q EXCEPT !.mounted = FALSE]
    PROVE  /\ ReqShape(x) /\ x.mounted = FALSE
           /\ x.page = q.page /\ x.step = q.step /\ x.stage = q.stage
  BY DEF ReqShape

LEMMA NoReqFields ==
    /\ ReqShape(NoReq) /\ NoReq.page = "none" /\ NoReq.step = "none"
    /\ NoReq.stage = "free" /\ NoReq.mounted = FALSE
  BY DEF ReqShape, NoReq

(* A step of one request leaves the others alone. *)
OnlyReq(r) ==
    /\ DOMAIN req' = Slot /\ req' = [q \in Slot |-> req'[q]]
    /\ \A q \in Slot : q # r => req'[q] = req[q]

LEMMA OneReqStep ==
    ASSUME ReqInv, NEW r \in Slot, NEW v, req' = [req EXCEPT ![r] = v]
    PROVE  OnlyReq(r) /\ req'[r] = v
  BY DEF ReqInv, OnlyReq

LEMMA APIServerInfoReq ==
    ASSUME ReqInv, NEW r \in Slot, APIServerInfo(r)
    PROVE  /\ OnlyReq(r)
           /\ ReqShape(req'[r]) /\ req'[r].stage = "answered" /\ req'[r].info = ServerInfo
           /\ req'[r].page = req[r].page /\ req'[r].step = req[r].step
           /\ req'[r].mounted = req[r].mounted /\ req'[r].port = req[r].port
           /\ req'[r].host = req[r].host /\ req'[r].snap = req[r].snap
           /\ req'[r].list = req[r].list
  <1> DEFINE q == req[r]
             x == req'[r]
             v == "answered"
             i == ServerInfo
  <1>1. x = [q EXCEPT !.stage = v, !.info = i]
    BY DEF ReqInv, APIServerInfo
  <1>2. OnlyReq(r)
    BY DEF ReqInv, APIServerInfo, OnlyReq
  <1>3. ReqShape(q)
    BY DEF ReqInv, ReqOK
  <1>4. /\ ReqShape(x) /\ x.stage = v /\ x.info = i
        /\ x.page = q.page /\ x.step = q.step
        /\ x.mounted = q.mounted /\ x.port = q.port
        /\ x.host = q.host /\ x.snap = q.snap
        /\ x.list = q.list
    <2> HIDE DEF q, x, v, i
    <2> QED  BY <1>1, <1>3 DEF ReqShape
  <1> QED  BY <1>2, <1>4

LEMMA GetProxiesByTypeReq ==
    ASSUME ReqInv, NEW r \in Slot, GetProxiesByType(r)
    PROVE  /\ OnlyReq(r)
           /\ ReqShape(req'[r]) /\ req'[r].stage = "half"
           /\ req'[r].snap = {n \in DOMAIN stats : stats[n].type = req[r].page}
           /\ req'[r].page = req[r].page /\ req'[r].step = req[r].step
           /\ req'[r].mounted = req[r].mounted /\ req'[r].info = req[r].info
           /\ req'[r].port = req[r].port /\ req'[r].host = req[r].host
           /\ req'[r].list = req[r].list
  <1> DEFINE q == req[r]
             x == req'[r]
             v == "half"
             i == {n \in DOMAIN stats : stats[n].type = req[r].page}
  <1>1. x = [q EXCEPT !.stage = v, !.snap = i]
    BY DEF ReqInv, GetProxiesByType
  <1>2. OnlyReq(r)
    BY DEF ReqInv, GetProxiesByType, OnlyReq
  <1>3. ReqShape(q)
    BY DEF ReqInv, ReqOK
  <1>4. /\ ReqShape(x) /\ x.stage = v
        /\ x.snap = i
        /\ x.page = q.page /\ x.step = q.step
        /\ x.mounted = q.mounted /\ x.info = q.info
        /\ x.port = q.port /\ x.host = q.host
        /\ x.list = q.list
    <2> HIDE DEF q, x, v, i
    <2> QED  BY <1>1, <1>3 DEF ReqShape
  <1> QED  BY <1>2, <1>4

LEMMA GetByNameReq ==
    ASSUME ReqInv, NEW r \in Slot, NEW n, GetByName(r, n)
    PROVE  /\ OnlyReq(r)
           /\ ReqShape(req'[r]) /\ req'[r].snap = req[r].snap \ {n}
           /\ req'[r].list = req[r].list \cup {ProxyStatsInfo(n, ConfNow(n, req[r].page))}
           /\ req'[r].page = req[r].page /\ req'[r].step = req[r].step
           /\ req'[r].stage = req[r].stage /\ req'[r].mounted = req[r].mounted
           /\ req'[r].info = req[r].info /\ req'[r].port = req[r].port
           /\ req'[r].host = req[r].host
  <1> DEFINE q == req[r]
             x == req'[r]
             v == req[r].snap \ {n}
             i == req[r].list \cup {ProxyStatsInfo(n, ConfNow(n, req[r].page))}
  <1>1. x = [q EXCEPT !.snap = v,
          !.list = i]
    BY DEF ReqInv, GetByName, ReqOK, ReqShape
  <1>2. OnlyReq(r)
    BY DEF ReqInv, GetByName, OnlyReq
  <1>3. ReqShape(q)
    BY DEF ReqInv, ReqOK
  <1>4. /\ ReqShape(x) /\ x.snap = v
        /\ x.list = i
        /\ x.page = q.page /\ x.step = q.step
        /\ x.stage = q.stage /\ x.mounted = q.mounted
        /\ x.info = q.info /\ x.port = q.port
        /\ x.host = q.host
    <2> HIDE DEF q, x, v, i
    <2> QED  BY <1>1, <1>3 DEF ReqShape
  <1> QED  BY <1>2, <1>4

LEMMA APIProxyByTypeReq ==
    ASSUME ReqInv, NEW r \in Slot, APIProxyByType(r)
    PROVE  /\ OnlyReq(r)
           /\ ReqShape(req'[r]) /\ req'[r].stage = "answered"
           /\ req'[r].page = req[r].page /\ req'[r].step = req[r].step
           /\ req'[r].mounted = req[r].mounted /\ req'[r].info = req[r].info
           /\ req'[r].port = req[r].port /\ req'[r].host = req[r].host
           /\ req'[r].snap = req[r].snap /\ req'[r].list = req[r].list
  <1> DEFINE q == req[r]
             x == req'[r]
             v == "answered"
  <1>1. x = [q EXCEPT !.stage = v]
    BY DEF ReqInv, APIProxyByType
  <1>2. OnlyReq(r)
    BY DEF ReqInv, APIProxyByType, OnlyReq
  <1>3. ReqShape(q)
    BY DEF ReqInv, ReqOK
  <1>4. /\ ReqShape(x) /\ x.stage = v
        /\ x.page = q.page /\ x.step = q.step
        /\ x.mounted = q.mounted /\ x.info = q.info
        /\ x.port = q.port /\ x.host = q.host
        /\ x.snap = q.snap /\ x.list = q.list
    <2> HIDE DEF q, x, v
    <2> QED  BY <1>1, <1>3 DEF ReqShape
  <1> QED  BY <1>2, <1>4

(* A request that goes on belongs to the same page. *)
LEMMA ReqGoesOn ==
    ASSUME ReqInv, NEW r \in Slot, OnlyReq(r), ReqShape(req'[r]),
           req'[r].page = req[r].page, req'[r].mounted = req[r].mounted,
           \/ req'[r].step = req[r].step
           \/ req'[r].step = "list" /\ req[r].page \in ListPage,
           req'[r].stage = "half" => req'[r].step = "list",
           UNCHANGED <<cfg, page, loaded, rows, quiet>>
    PROVE  ReqInv'
  <1>1. ReqOK(r)'
    BY DEF ReqInv, ReqOK, ListPage
  <1>2. \A q \in Slot : q # r => ReqOK(q)'
    BY DEF ReqInv, ReqOK, OnlyReq
  <1>3. \A q \in Slot : req'[q].mounted = req[q].mounted
    BY DEF OnlyReq
  <1>4. \A p, q \in Slot : req'[p].mounted /\ req'[q].mounted => p = q
    BY <1>3 DEF ReqInv
  <1> QED  BY <1>1, <1>2, <1>4 DEF ReqInv, OnlyReq

(* A request that ends, with or without an answer. *)
LEMMA ReqEnds ==
    ASSUME ReqInv, NEW r \in Slot, OnlyReq(r), req'[r] = NoReq,
           loaded' \in BOOLEAN, loaded' = loaded \/ req[r].mounted,
           loaded' \/ UNCHANGED <<loaded, rows>>,
           UNCHANGED <<cfg, page, quiet>>
    PROVE  ReqInv'
  <1>1. ReqOK(r)'
    BY NoReqFields DEF ReqOK, ListPage
  <1>2. ASSUME NEW q \in Slot, q # r PROVE ReqOK(q)'
    <2>1. req'[q] = req[q] /\ ReqOK(q)
      BY <1>2 DEF ReqInv, OnlyReq
    <2>2. CASE loaded' = loaded
      BY <2>1, <2>2 DEF ReqOK
    <2>3. CASE req[r].mounted
      <3>1. ~req[q].mounted
        BY <1>2, <2>3 DEF ReqInv
      <3> QED  BY <2>1, <3>1 DEF ReqOK
    <2> QED  BY <2>2, <2>3
  <1>3. \A p, q \in Slot : req'[p].mounted /\ req'[q].mounted => p = q
    BY NoReqFields DEF ReqInv, OnlyReq
  <1>4. ~loaded' => rows' = {}
    BY DEF ReqInv
  <1> QED  BY <1>1, <1>2, <1>3, <1>4 DEF ReqInv, OnlyReq

LEMMA ReqInit == Init => ReqInv
  <1> SUFFICES ASSUME Init PROVE ReqInv
    OBVIOUS
  <1>1. \A r \in Slot : req[r] = NoReq
    BY DEF Init
  <1>2. \A r \in Slot : ReqOK(r)
    BY <1>1, NoReqFields DEF ReqOK, ListPage
  <1> QED  BY <1>1, <1>2, NoReqFields DEF Init, ReqInv

(* A change in frps leaves the requests to their pages. *)
LEMMA ReqRestart ==
    ASSUME ReqInv, NEW c \in Configs, Restart(c)
    PROVE  ReqInv'
  <1>0. /\ page' = page /\ loaded' = loaded /\ rows' = rows /\ cfg' = c /\ quiet' = FALSE
        /\ DOMAIN req' = Slot /\ req' = [q \in Slot |-> req'[q]]
    BY DEF Restart
  <1>1. ASSUME NEW q \in Slot PROVE ReqOK(q)' /\ req'[q].mounted = req[q].mounted
    <2>0. ReqOK(q) /\ ReqShape(req[q])
      BY DEF ReqInv, ReqOK
    <2>1. CASE req[q].stage = "half"
      <3>1. req'[q] = [req[q] EXCEPT !.stage = "lost", !.snap = {}, !.list = {}]
        BY <2>1 DEF Restart
      <3>2. /\ ReqShape(req'[q]) /\ req'[q].stage = "lost"
            /\ req'[q].page = req[q].page /\ req'[q].step = req[q].step
            /\ req'[q].mounted = req[q].mounted
        BY <2>0, <3>1, SetLost
      <3> QED  BY <1>0, <2>0, <3>2 DEF ReqOK
    <2>2. CASE req[q].stage # "half"
      <3>1. req'[q] = req[q]
        BY <2>2 DEF Restart
      <3> QED  BY <1>0, <2>0, <3>1 DEF ReqOK
    <2> QED  BY <2>1, <2>2
  <1>2. \A p, q \in Slot : req'[p].mounted /\ req'[q].mounted => p = q
    BY <1>1 DEF ReqInv
  <1> QED  BY <1>0, <1>1, <1>2 DEF ReqInv

(* A visit leaves no request of another list page, and none mounted but    *)
(* its own.                                                                *)
LEMMA ReqVisit ==
    ASSUME ReqInv, NEW p \in Page, NEW r \in Slot, Visit(p, r)
    PROVE  ReqInv'
  <1>0. /\ page' = p /\ loaded' = FALSE /\ rows' = {} /\ cfg' = cfg /\ quiet' = TRUE
        /\ DOMAIN req' = Slot /\ req' = [q \in Slot |-> req'[q]]
    BY DEF Visit
  <1>1. ReqOK(r)'
    <2> DEFINE x == req'[r]
               t == IF Asks(p) THEN "info" ELSE "list"
    <2>1. x = [NoReq EXCEPT !.page = p, !.stage = "sent", !.mounted = TRUE, !.step = t]
      BY DEF Visit
    <2>2. /\ ReqShape(x) /\ x.page = p /\ x.stage = "sent" /\ x.mounted = TRUE
          /\ x.step = t
      <3> HIDE DEF x, t
      <3> QED  BY <2>1 DEF ReqShape, NoReq
    <2> QED  BY <1>0, <2>2 DEF ReqOK, Asks, Page
  <1>2. ASSUME NEW q \in Slot, q # r PROVE ReqOK(q)' /\ req'[q].mounted = FALSE
    <2>0. ReqOK(q) /\ ReqShape(req[q])
      BY DEF ReqInv, ReqOK
    <2>1. CASE req[q].page = "/"
      <3>1. req'[q] = [req[q] EXCEPT !.mounted = FALSE]
        BY <1>2, <2>1 DEF Visit
      <3>2. /\ ReqShape(req'[q]) /\ req'[q].mounted = FALSE
            /\ req'[q].page = "/" /\ req'[q].step = req[q].step
            /\ req'[q].stage = req[q].stage
        BY <2>0, <2>1, <3>1, SetUnmounted
      <3> QED  BY <2>0, <2>1, <3>2 DEF ReqOK, ListPage
    <2>2. CASE req[q].page # "/"
      <3>1. req'[q] = NoReq
        BY <1>2, <2>2 DEF Visit
      <3> QED  BY <3>1, NoReqFields DEF ReqOK, ListPage
    <2> QED  BY <2>1, <2>2
  <1>3. \A m, q \in Slot : req'[m].mounted /\ req'[q].mounted => m = q
    BY <1>2
  <1> QED  BY <1>0, <1>1, <1>2, <1>3 DEF ReqInv

LEMMA ReqHandle ==
    ASSUME ReqInv, NEW r \in Slot, Handle(r)
    PROVE  ReqInv'
  <1>0. ReqShape(req[r]) /\ ReqOK(r)
    BY DEF ReqInv, ReqOK
  <1>1. CASE APIServerInfo(r)
    <2>1. /\ ReqShape(req'[r]) /\ req'[r].stage = "answered" /\ req'[r].page = req[r].page
          /\ req'[r].mounted = req[r].mounted /\ req'[r].step = req[r].step
      BY <1>1, APIServerInfoReq
    <2> QED  BY <1>1, <2>1, APIServerInfoReq, ReqGoesOn DEF APIServerInfo
  <1>2. CASE GetProxiesByType(r)
    <2>1. /\ ReqShape(req'[r]) /\ req'[r].page = req[r].page
          /\ req'[r].mounted = req[r].mounted /\ req'[r].step = req[r].step
      BY <1>2, GetProxiesByTypeReq
    <2>2. OnlyReq(r) /\ req[r].step = "list" /\ UNCHANGED <<cfg, page, loaded, rows, quiet>>
      BY <1>2, GetProxiesByTypeReq DEF GetProxiesByType
    <2> QED  BY <2>1, <2>2, ReqGoesOn
  <1>3. CASE APIProxyByType(r)
    <2>1. /\ ReqShape(req'[r]) /\ req'[r].stage = "answered" /\ req'[r].page = req[r].page
          /\ req'[r].mounted = req[r].mounted /\ req'[r].step = req[r].step
      BY <1>3, APIProxyByTypeReq
    <2> QED  BY <1>3, <2>1, APIProxyByTypeReq, ReqGoesOn DEF APIProxyByType
  <1>4. ASSUME NEW n \in Names, GetByName(r, n) PROVE ReqInv'
    <2>1. /\ ReqShape(req'[r]) /\ req'[r].stage = req[r].stage /\ req'[r].page = req[r].page
          /\ req'[r].mounted = req[r].mounted /\ req'[r].step = req[r].step
      BY <1>4, GetByNameReq
    <2>2. OnlyReq(r) /\ UNCHANGED <<cfg, page, loaded, rows, quiet>>
      BY <1>4, GetByNameReq DEF GetByName
    <2>3. req'[r].stage = "half" => req'[r].step = "list"
      BY <1>0, <2>1 DEF ReqOK
    <2> QED  BY <2>1, <2>2, <2>3, ReqGoesOn
  <1> QED  BY <1>1, <1>2, <1>3, <1>4 DEF Handle

LEMMA GotVhostInfoReq ==
    ASSUME ReqInv, NEW r \in Slot, GotVhostInfo(r),
           VhostPort(req[r].info, req[r].page) # 0
    PROVE  /\ OnlyReq(r)
           /\ ReqShape(req'[r]) /\ req'[r].step = "list" /\ req'[r].stage = "sent"
           /\ req'[r].port = VhostPort(req[r].info, req[r].page)
           /\ req'[r].host = req[r].info.subdomain_host
           /\ req'[r].page = req[r].page /\ req'[r].mounted = req[r].mounted
           /\ req'[r].list = req[r].list
  <1> DEFINE q == req[r]
             x == req'[r]
             i == VhostPort(req[r].info, req[r].page)
             j == req[r].info.subdomain_host
  <1>1. x = [q EXCEPT !.step = "list", !.stage = "sent", !.info = Null,
                     !.port = i,
                     !.host = j]
    BY DEF ReqInv, GotVhostInfo
  <1>2. OnlyReq(r)
    BY DEF ReqInv, GotVhostInfo, OnlyReq
  <1>3. ReqShape(q)
    BY DEF ReqInv, ReqOK
  <1>4. /\ ReqShape(x) /\ x.step = "list" /\ x.stage = "sent"
        /\ x.port = i
        /\ x.host = j
        /\ x.page = q.page /\ x.mounted = q.mounted
        /\ x.list = q.list
    <2> HIDE DEF q, x, i, j
    <2> QED  BY <1>1, <1>3 DEF ReqShape
  <1> QED  BY <1>2, <1>4

LEMMA ReqReceive ==
    ASSUME ReqInv, NEW r \in Slot, Receive(r)
    PROVE  ReqInv'
  <1>0. ReqShape(req[r]) /\ ReqOK(r) /\ req[r].mounted \in BOOLEAN /\ loaded \in BOOLEAN
    BY DEF ReqInv, ReqOK
  <1>1. CASE GotOverview(r)
    <2>1. OnlyReq(r) /\ req'[r] = NoReq
      BY <1>1, OneReqStep DEF GotOverview
    <2>2. /\ loaded' = (loaded \/ req[r].mounted) /\ rows' = rows
          /\ UNCHANGED <<cfg, page, quiet>>
      BY <1>1 DEF GotOverview
    <2>3. loaded' \in BOOLEAN /\ (loaded' = loaded \/ req[r].mounted) /\ (loaded' \/ loaded' = loaded)
      BY <1>0, <2>2
    <2> QED  BY <2>1, <2>2, <2>3, ReqEnds
  <1>2. CASE GotVhostInfo(r)
    <2>0. /\ req[r].page \in {"http", "https"} /\ req[r].mounted
          /\ UNCHANGED <<cfg, page, rows, quiet>>
      BY <1>0, <1>2 DEF GotVhostInfo, ReqOK, ListPage
    <2>1. CASE VhostPort(req[r].info, req[r].page) = 0
      <3>1. loaded' = TRUE /\ req' = [req EXCEPT ![r] = NoReq]
        BY <1>2, <2>1 DEF GotVhostInfo
      <3>2. OnlyReq(r) /\ req'[r] = NoReq
        BY <3>1, OneReqStep
      <3> QED  BY <2>0, <3>1, <3>2, ReqEnds
    <2>2. CASE VhostPort(req[r].info, req[r].page) # 0
      <3>1. loaded' = loaded
        BY <1>2, <2>2 DEF GotVhostInfo
      <3>2. /\ ReqShape(req'[r]) /\ req'[r].stage = "sent" /\ req'[r].page = req[r].page
            /\ req'[r].mounted = req[r].mounted /\ req'[r].step = "list"
        BY <1>2, <2>2, GotVhostInfoReq
      <3>3. OnlyReq(r)
        BY <1>2, <2>2, GotVhostInfoReq
      <3>4. req[r].page \in ListPage
        BY <2>0 DEF ListPage
      <3> QED  BY <2>0, <3>1, <3>2, <3>3, <3>4, ReqGoesOn
    <2> QED  BY <2>1, <2>2
  <1>3. CASE GotList(r)
    <2>1. OnlyReq(r) /\ req'[r] = NoReq
      BY <1>3, OneReqStep DEF GotList
    <2>2. loaded' = TRUE /\ UNCHANGED <<cfg, page, quiet>> /\ req[r].mounted
      BY <1>0, <1>3 DEF GotList, ReqOK
    <2> QED  BY <2>1, <2>2, ReqEnds
  <1> QED  BY <1>1, <1>2, <1>3 DEF Receive

LEMMA ReqStep == ReqInv /\ [Next]_vars => ReqInv'
  <1> SUFFICES ASSUME ReqInv, [Next]_vars PROVE ReqInv'
    OBVIOUS
  <1>1. ASSUME UNCHANGED <<cfg, page, loaded, rows, req>>, quiet' \in BOOLEAN PROVE ReqInv'
    BY <1>1 DEF ReqInv, ReqOK
  <1>2. CASE Metrics
    BY <1>1, <1>2 DEF Metrics
  <1>3. CASE \E n \in Totals : Traffic(n)
    BY <1>1, <1>3 DEF Traffic
  <1>4. CASE \E c \in Configs : Restart(c)
    BY <1>4, ReqRestart
  <1>5. ASSUME NEW r \in Slot, Handle(r) \/ Receive(r) PROVE ReqInv'
    BY <1>5, ReqHandle, ReqReceive
  <1>6. ASSUME NEW r \in Slot, Reject(r) PROVE ReqInv'
    <2>1. OnlyReq(r) /\ req'[r] = NoReq
      BY <1>6, OneReqStep DEF Reject
    <2>2. loaded \in BOOLEAN /\ UNCHANGED <<cfg, page, quiet, loaded, rows>>
      BY <1>6 DEF Reject, ReqInv
    <2> QED  BY <2>1, <2>2, ReqEnds
  <1>7. CASE \E p \in Page, r \in Slot : Visit(p, r)
    BY <1>7, ReqVisit
  <1>8. CASE UNCHANGED vars
    <2>1. UNCHANGED <<cfg, page, loaded, rows, req, quiet>>
      BY <1>8 DEF vars, browserVars
    <2> QED  BY <1>1, <2>1 DEF ReqInv
  <1> QED  BY <1>2, <1>3, <1>4, <1>5, <1>6, <1>7, <1>8 DEF Next

LEMMA SameConf ==
    ASSUME UNCHANGED <<added, deleted, ousted>>, NEW n, NEW t
    PROVE  ConfNow(n, t)' = ConfNow(n, t)
  <1>1. Registered' = Registered
    BY DEF Registered
  <1> QED  BY <1>1 DEF ConfNow

LEMMA SameServer ==
    ASSUME UNCHANGED <<metricVars, cfg, total, page>>
    PROVE  /\ Listed' = Listed /\ ServerInfo' = ServerInfo
           /\ NoVhost' = NoVhost /\ View' = View
           /\ \A n : Answer(n)' = Answer(n)
  <1> USE DEF metricVars
  <1>1. Listed' = Listed
    BY DEF Listed
  <1>2. ServerInfo' = ServerInfo
    BY DEF ServerInfo
  <1>3. NoVhost' = NoVhost /\ View' = View
    BY DEF NoVhost, View, VhostPort
  <1>4. \A n : Answer(n)' = Answer(n)
    BY SameConf DEF Answer, ProxyStatsInfo
  <1> QED  BY <1>1, <1>2, <1>3, <1>4

LEMMA SameAnswers ==
    ASSUME UNCHANGED <<metricVars, cfg, total, page>>, NEW S
    PROVE  {Answer(n)' : n \in S} = {Answer(n) : n \in S}
  BY SameServer

(* The answer to a request that did not move stays right. *)
LEMMA SameData ==
    ASSUME UNCHANGED <<metricVars, cfg, total, page>>, NEW r \in Slot, req'[r] = req[r],
           ReqData(r)
    PROVE  ReqData(r)'
  <1>1. /\ Listed' = Listed /\ ServerInfo' = ServerInfo
        /\ VhostPort(cfg, page)' = VhostPort(cfg, page)
    BY SameServer DEF VhostPort
  <1>2. \A S : {Answer(n)' : n \in S} = {Answer(n) : n \in S}
    BY SameAnswers
  <1> QED  BY <1>1, <1>2 DEF ReqData

(* What is shown stays right while frps and the page stay. *)
LEMMA SameShown ==
    ASSUME UNCHANGED <<metricVars, cfg, total, page>>
    PROVE  /\ ShownRows /\ UNCHANGED <<loaded, rows>> => ShownRows'
           /\ ShownOverview /\ UNCHANGED <<loaded, over>> => ShownOverview'
  <1>1. /\ Listed' = Listed /\ ServerInfo' = ServerInfo /\ NoVhost' = NoVhost /\ View' = View
        /\ \A n : Answer(n)' = Answer(n)
    BY SameServer
  <1>2. {RowOf(View, Answer(n)) : n \in Listed}' = {RowOf(View, Answer(n)) : n \in Listed}
    BY <1>1
  <1>3. ShownRows /\ UNCHANGED <<loaded, rows>> => ShownRows'
    BY <1>1, <1>2 DEF ShownRows
  <1>4. OverviewData(ServerInfo)' = OverviewData(ServerInfo)
    BY <1>1 DEF OverviewData
  <1>5. ShownOverview /\ UNCHANGED <<loaded, over>> => ShownOverview'
    BY <1>4 DEF ShownOverview
  <1> QED  BY <1>3, <1>5

LEMMA ShownGoesOn ==
    ASSUME ReqInv, ShownInv, NEW r \in Slot, OnlyReq(r),
           UNCHANGED <<metricVars, cfg, total, page, loaded, rows, over, quiet>>,
           req'[r].mounted = req[r].mounted,
           quiet /\ req[r].mounted => ReqData(r)'
    PROVE  ShownInv'
  <1> SUFFICES ASSUME quiet
               PROVE  /\ \A q \in Slot : req'[q].mounted => ReqData(q)'
                      /\ ShownRows' /\ ShownOverview'
    BY DEF ShownInv
  <1>1. ASSUME NEW q \in Slot, req'[q].mounted PROVE ReqData(q)'
    <2>1. CASE q = r
      BY <1>1, <2>1
    <2>2. CASE q # r
      <3>1. req'[q] = req[q] /\ ReqData(q)
        BY <1>1, <2>2 DEF OnlyReq, ShownInv
      <3> QED  BY <3>1, SameData
    <2> QED  BY <2>1, <2>2
  <1>2. ShownRows' /\ ShownOverview'
    BY SameShown DEF ShownInv
  <1> QED  BY <1>1, <1>2

LEMMA ShownEnds ==
    ASSUME ReqInv, ShownInv, NEW r \in Slot, OnlyReq(r), req'[r] = NoReq,
           UNCHANGED <<metricVars, cfg, total, page, quiet>>,
           quiet => ShownRows' /\ ShownOverview'
    PROVE  ShownInv'
  <1> SUFFICES ASSUME quiet PROVE \A q \in Slot : req'[q].mounted => ReqData(q)'
    BY DEF ShownInv
  <1>1. ASSUME NEW q \in Slot, req'[q].mounted PROVE ReqData(q)'
    <2>1. q # r
      BY <1>1, NoReqFields
    <2>2. req'[q] = req[q] /\ ReqData(q)
      BY <1>1, <2>1 DEF OnlyReq, ShownInv
    <2> QED  BY <2>2, SameData
  <1> QED  BY <1>1

LEMMA ShownHandle ==
    ASSUME ReqInv, ShownInv, NEW r \in Slot, Handle(r)
    PROVE  ShownInv'
  <1>0. UNCHANGED <<metricVars, cfg, total, page, loaded, rows, over, quiet>>
    BY DEF Handle, APIServerInfo, GetProxiesByType, APIProxyByType, GetByName
  <1>a. /\ Listed' = Listed /\ ServerInfo' = ServerInfo
        /\ VhostPort(cfg, page)' = VhostPort(cfg, page)
        /\ cfg' = cfg /\ page' = page
    BY <1>0, SameServer DEF VhostPort
  <1>b. \A S : {Answer(n)' : n \in S} = {Answer(n) : n \in S}
    BY <1>0, SameAnswers
  <1>c. quiet /\ req[r].mounted => ReqData(r) /\ req[r].page = page
    BY DEF ShownInv, ReqInv, ReqOK
  <1>d. req[r].stage = "half" => req[r].step = "list"
    BY DEF ReqInv, ReqOK
  <1>1. CASE APIServerInfo(r)
    <2>1. quiet /\ req[r].mounted => ReqData(r)'
      BY <1>1, <1>a, <1>c, APIServerInfoReq DEF ReqData, APIServerInfo
    <2> QED  BY <1>0, <1>1, <2>1, APIServerInfoReq, ShownGoesOn
  <1>2. CASE GetProxiesByType(r)
    <2>0. /\ OnlyReq(r) /\ req'[r].mounted = req[r].mounted /\ req'[r].step = "list"
          /\ req'[r].stage = "half" /\ req[r].stage = "sent" /\ req[r].step = "list"
          /\ req'[r].port = req[r].port /\ req'[r].host = req[r].host
          /\ req'[r].list = req[r].list
      BY <1>2, GetProxiesByTypeReq DEF GetProxiesByType
    <2>1. ASSUME quiet, req[r].mounted PROVE ReqData(r)'
      <3>1. req'[r].snap = Listed
        BY <1>2, <1>c, <2>1, GetProxiesByTypeReq DEF Listed
      <3>2. req[r].list = {} /\ {Answer(n) : n \in Listed \ Listed} = {}
        BY <1>c, <2>0, <2>1 DEF ReqData
      <3>3. /\ page \in {"http", "https"} =>
               /\ req'[r].port = VhostPort(cfg, page) /\ req'[r].port # 0
               /\ req'[r].host = cfg.subdomain_host
        BY <1>c, <2>0, <2>1 DEF ReqData
      <3> QED  BY <1>a, <1>b, <2>0, <3>1, <3>2, <3>3 DEF ReqData
    <2> QED  BY <1>0, <2>0, <2>1, ShownGoesOn
  <1>3. CASE APIProxyByType(r)
    <2>0. /\ OnlyReq(r) /\ req'[r].mounted = req[r].mounted /\ req'[r].step = "list"
          /\ req'[r].stage = "answered" /\ req[r].stage = "half" /\ req[r].step = "list"
          /\ req'[r].port = req[r].port /\ req'[r].host = req[r].host
          /\ req'[r].list = req[r].list /\ req[r].snap = {}
      <3>1. req[r].stage = "half" /\ req[r].snap = {}
        BY <1>3 DEF APIProxyByType
      <3> QED  BY <1>3, <1>d, <3>1, APIProxyByTypeReq
    <2>1. ASSUME quiet, req[r].mounted PROVE ReqData(r)'
      <3>1. req[r].list = {Answer(n) : n \in Listed}
        <4>1. Listed \ {} = Listed
          OBVIOUS
        <4> QED  BY <1>c, <2>0, <2>1, <4>1 DEF ReqData
      <3>2. /\ page \in {"http", "https"} =>
               /\ req'[r].port = VhostPort(cfg, page) /\ req'[r].port # 0
               /\ req'[r].host = cfg.subdomain_host
        BY <1>c, <2>0, <2>1 DEF ReqData
      <3> QED  BY <1>a, <1>b, <2>0, <3>1, <3>2 DEF ReqData
    <2> QED  BY <1>0, <2>0, <2>1, ShownGoesOn
  <1>4. ASSUME NEW m \in Names, GetByName(r, m) PROVE ShownInv'
    <2>0. /\ OnlyReq(r) /\ req'[r].mounted = req[r].mounted /\ req'[r].step = "list"
          /\ req'[r].stage = "half" /\ req[r].stage = "half" /\ req[r].step = "list"
          /\ req'[r].port = req[r].port /\ req'[r].host = req[r].host
          /\ req'[r].snap = req[r].snap \ {m} /\ m \in req[r].snap
      <3>1. req[r].stage = "half" /\ m \in req[r].snap
        BY <1>4 DEF GetByName
      <3> QED  BY <1>4, <1>d, <3>1, GetByNameReq
    <2>1. ASSUME quiet, req[r].mounted PROVE ReqData(r)'
      <3>0. req'[r].list = req[r].list \cup {Answer(m)}
        BY <1>4, <1>c, <2>1, GetByNameReq DEF Answer
      <3>1. req[r].snap \subseteq Listed /\ req[r].list = {Answer(n) : n \in Listed \ req[r].snap}
        BY <1>c, <2>0, <2>1 DEF ReqData
      <3>2. req'[r].snap \subseteq Listed
        BY <2>0, <3>1
      <3>3. Listed \ req'[r].snap = (Listed \ req[r].snap) \cup {m}
        BY <2>0, <3>1
      <3>4. req'[r].list = {Answer(n) : n \in Listed \ req'[r].snap}
        BY <3>0, <3>1, <3>3
      <3>5. /\ page \in {"http", "https"} =>
               /\ req'[r].port = VhostPort(cfg, page) /\ req'[r].port # 0
               /\ req'[r].host = cfg.subdomain_host
        BY <1>c, <2>0, <2>1 DEF ReqData
      <3> QED  BY <1>a, <1>b, <2>0, <3>2, <3>4, <3>5 DEF ReqData
    <2> QED  BY <1>0, <2>0, <2>1, ShownGoesOn
  <1> QED  BY <1>1, <1>2, <1>3, <1>4 DEF Handle

(* The row that a request makes is the one that its page should show.      *)
LEMMA RowOfView ==
    ASSUME NEW q, q.page = page,
           page \in {"http", "https"} => /\ q.port = VhostPort(cfg, page)
                                         /\ q.host = cfg.subdomain_host,
           NEW x
    PROVE  RowOf(q, x) = RowOf(View, x)
  <1>1. /\ View.page = page /\ View.port = VhostPort(cfg, page)
        /\ View.host = cfg.subdomain_host
    BY DEF View
  <1>2. CASE page \in {"http", "https"}
    BY <1>1, <1>2 DEF RowOf
  <1>3. CASE page \notin {"http", "https"}
    BY <1>1, <1>3 DEF RowOf
  <1> QED  BY <1>2, <1>3

LEMMA ShownGotOverview ==
    ASSUME ReqInv, ShownInv, NEW r \in Slot, GotOverview(r)
    PROVE  ShownInv'
  <1>0. /\ UNCHANGED <<metricVars, cfg, total, page, rows, quiet>>
        /\ req[r].page = "/" /\ req[r].stage = "answered" /\ req[r].step = "info"
        /\ loaded' = (loaded \/ req[r].mounted)
        /\ req[r].mounted \in BOOLEAN /\ loaded \in BOOLEAN
    BY DEF GotOverview, ReqInv, ReqOK
  <1>1. OnlyReq(r) /\ req'[r] = NoReq
    BY OneReqStep DEF GotOverview
  <1>2. CASE req[r].mounted
    <2>1. page = "/" /\ loaded' = TRUE
      BY <1>0, <1>2 DEF ReqInv, ReqOK
    <2>2. quiet => req[r].info = ServerInfo
      BY <1>0, <1>2 DEF ShownInv, ReqData
    <2>3. /\ over'.own = TRUE /\ over'.data = OverviewData(req[r].info)
          /\ over'.traffic = DrawTrafficChart(req[r].info.total_traffic_in,
                                              req[r].info.total_traffic_out)
      BY <1>2, <2>1 DEF GotOverview
    <2>4. ServerInfo.total_traffic_in = total[1] /\ ServerInfo.total_traffic_out = total[2]
      BY DEF ServerInfo
    <2>5. OverviewData(ServerInfo)' = OverviewData(ServerInfo)
      BY <1>0, SameServer DEF OverviewData
    <2>6. quiet => ShownOverview'
      BY <1>0, <2>2, <2>3, <2>4, <2>5 DEF ShownOverview
    <2>7. ShownRows'
      BY <1>0, <2>1 DEF ShownRows, ListPage
    <2> QED  BY <1>0, <1>1, <2>6, <2>7, ShownEnds
  <1>3. CASE ~req[r].mounted
    <2>1. loaded' = loaded
      BY <1>0, <1>3
    <2>2. over'.own = FALSE /\ over'.data = over.data
      BY <1>0, <1>3 DEF GotOverview
    <2>3. quiet => ShownRows'
      BY <1>0, <2>1, SameShown DEF ShownInv
    <2>4. OverviewData(ServerInfo)' = OverviewData(ServerInfo)
      BY <1>0, SameServer DEF OverviewData
    <2>5. quiet => ShownOverview'
      BY <1>0, <2>1, <2>2, <2>4 DEF ShownInv, ShownOverview
    <2> QED  BY <1>0, <1>1, <2>3, <2>5, ShownEnds
  <1> QED  BY <1>2, <1>3

LEMMA ShownGotVhostInfo ==
    ASSUME ReqInv, ShownInv, NEW r \in Slot, GotVhostInfo(r)
    PROVE  ShownInv'
  <1>0. /\ UNCHANGED <<metricVars, cfg, total, page, rows, over, quiet>>
        /\ req[r].page \in {"http", "https"} /\ req[r].stage = "answered"
        /\ req[r].step = "info"
    BY DEF GotVhostInfo
  <1>1. req[r].mounted /\ page = req[r].page /\ ~loaded /\ rows = {}
    BY <1>0 DEF ReqInv, ReqOK, ListPage
  <1>2. quiet => req[r].info = ServerInfo /\ req[r].list = {}
    BY <1>0, <1>1 DEF ShownInv, ReqData
  <1>3. /\ VhostPort(ServerInfo, page) = VhostPort(cfg, page)
        /\ ServerInfo.subdomain_host = cfg.subdomain_host
    BY DEF VhostPort, ServerInfo
  <1>4. CASE VhostPort(req[r].info, req[r].page) = 0
    <2>1. loaded' = TRUE /\ req' = [req EXCEPT ![r] = NoReq]
      BY <1>4 DEF GotVhostInfo
    <2>2. OnlyReq(r) /\ req'[r] = NoReq
      BY <2>1, OneReqStep
    <2>3. quiet => NoVhost'
      BY <1>0, <1>1, <1>2, <1>3, <1>4, SameServer DEF NoVhost
    <2>4. quiet => ShownRows'
      BY <1>0, <1>1, <2>3 DEF ShownRows
    <2>5. quiet => ShownOverview'
      <3>1. page' # "/" 
        BY <1>0, <1>1
      <3> QED  BY <3>1 DEF ShownOverview
    <2> QED  BY <1>0, <2>2, <2>4, <2>5, ShownEnds
  <1>5. CASE VhostPort(req[r].info, req[r].page) # 0
    <2>1. loaded' = loaded
      BY <1>5 DEF GotVhostInfo
    <2>2. /\ OnlyReq(r) /\ req'[r].step = "list" /\ req'[r].stage = "sent"
          /\ req'[r].port = VhostPort(req[r].info, req[r].page)
          /\ req'[r].host = req[r].info.subdomain_host
          /\ req'[r].mounted = req[r].mounted /\ req'[r].list = req[r].list
      BY <1>5, GotVhostInfoReq
    <2>3. quiet => /\ req'[r].port = VhostPort(cfg, page) /\ req'[r].port # 0
                   /\ req'[r].host = cfg.subdomain_host /\ req'[r].list = {}
      BY <1>1, <1>2, <1>3, <1>5, <2>2
    <2>4. cfg' = cfg /\ VhostPort(cfg, page)' = VhostPort(cfg, page)
      BY <1>0 DEF VhostPort
    <2>5. quiet => ReqData(r)'
      BY <2>2, <2>3, <2>4 DEF ReqData
    <2> QED  BY <1>0, <2>1, <2>2, <2>5, ShownGoesOn
  <1> QED  BY <1>4, <1>5

LEMMA ShownGotList ==
    ASSUME ReqInv, ShownInv, NEW r \in Slot, GotList(r)
    PROVE  ShownInv'
  <1>0. /\ UNCHANGED <<metricVars, cfg, total, page, over, quiet>> /\ loaded' = TRUE
        /\ req[r].step = "list" /\ req[r].stage = "answered"
        /\ rows' = rows \cup {RowOf(req[r], s) : s \in req[r].list}
    BY DEF GotList
  <1>1. /\ req[r].mounted /\ page = req[r].page /\ page \in ListPage /\ ~loaded /\ rows = {}
    BY <1>0 DEF ReqInv, ReqOK
  <1>2. OnlyReq(r) /\ req'[r] = NoReq
    BY OneReqStep DEF GotList
  <1>3. ASSUME quiet PROVE ShownRows'
    <2>1. /\ req[r].list = {Answer(n) : n \in Listed}
          /\ page \in {"http", "https"} =>
               /\ req[r].port = VhostPort(cfg, page) /\ req[r].port # 0
               /\ req[r].host = cfg.subdomain_host
      BY <1>0, <1>1, <1>3 DEF ShownInv, ReqData
    <2>2. ~NoVhost
      BY <2>1 DEF NoVhost
    <2>3. \A x : RowOf(req[r], x) = RowOf(View, x)
      BY <1>1, <2>1, RowOfView
    <2>4. rows' = {RowOf(View, Answer(n)) : n \in Listed}
      BY <1>0, <1>1, <2>1, <2>3
    <2>5. /\ Listed' = Listed /\ NoVhost' = NoVhost /\ View' = View
          /\ \A n : Answer(n)' = Answer(n)
      BY <1>0, SameServer
    <2>6. {RowOf(View, Answer(n)) : n \in Listed}' = {RowOf(View, Answer(n)) : n \in Listed}
      BY <2>5
    <2> QED  BY <2>2, <2>4, <2>5, <2>6 DEF ShownRows
  <1>4. ShownOverview'
    <2>1. page' # "/"
      BY <1>0, <1>1 DEF ListPage
    <2> QED  BY <2>1 DEF ShownOverview
  <1> QED  BY <1>0, <1>2, <1>3, <1>4, ShownEnds

LEMMA ShownVisit ==
    ASSUME ReqInv, NEW p \in Page, NEW r \in Slot, Visit(p, r)
    PROVE  ShownInv'
  <1>0. page' = p /\ loaded' = FALSE /\ over' = Blank
    BY DEF Visit
  <1>1. ShownRows' /\ ShownOverview'
    BY <1>0 DEF ShownRows, ShownOverview, Blank
  <1>2. ReqData(r)'
    <2> DEFINE x == req'[r]
               t == IF Asks(p) THEN "info" ELSE "list"
    <2>1. x = [NoReq EXCEPT !.page = p, !.stage = "sent", !.mounted = TRUE, !.step = t]
      BY DEF Visit
    <2>2. x.stage = "sent" /\ x.list = {} /\ x.step = t
      <3> HIDE DEF x, t
      <3> QED  BY <2>1 DEF ReqShape, NoReq
    <2> QED  BY <1>0, <2>2 DEF ReqData, Asks
  <1>3. ASSUME NEW q \in Slot, q # r PROVE ~req'[q].mounted
    <2>0. ReqShape(req[q])
      BY DEF ReqInv, ReqOK
    <2>1. CASE req[q].page = "/"
      <3>1. req'[q] = [req[q] EXCEPT !.mounted = FALSE]
        BY <1>3, <2>1 DEF Visit
      <3>2. req'[q].mounted = FALSE
        BY <2>0, <3>1, SetUnmounted
      <3> QED  BY <3>2
    <2>2. CASE req[q].page # "/"
      <3>1. req'[q] = NoReq
        BY <1>3, <2>2 DEF Visit
      <3> QED  BY <3>1, NoReqFields
    <2> QED  BY <2>1, <2>2
  <1> QED  BY <1>1, <1>2, <1>3 DEF ShownInv

LEMMA ShownStep == ReqInv /\ ShownInv /\ [Next]_vars => ShownInv'
  <1> SUFFICES ASSUME ReqInv, ShownInv, [Next]_vars PROVE ShownInv'
    OBVIOUS
  <1>1. ASSUME quiet' = FALSE PROVE ShownInv'
    BY <1>1 DEF ShownInv
  <1>2. CASE Metrics \/ (\E n \in Totals : Traffic(n)) \/ (\E c \in Configs : Restart(c))
    BY <1>1, <1>2 DEF Metrics, Traffic, Restart
  <1>3. ASSUME NEW r \in Slot, Handle(r) PROVE ShownInv'
    BY <1>3, ShownHandle
  <1>4. ASSUME NEW r \in Slot, Receive(r) PROVE ShownInv'
    BY <1>4, ShownGotOverview, ShownGotVhostInfo, ShownGotList DEF Receive
  <1>5. ASSUME NEW r \in Slot, Reject(r) PROVE ShownInv'
    <2>1. OnlyReq(r) /\ req'[r] = NoReq
      BY <1>5, OneReqStep DEF Reject
    <2>2. UNCHANGED <<metricVars, cfg, total, page, loaded, rows, over, quiet>>
      BY <1>5 DEF Reject
    <2>3. quiet => ShownRows' /\ ShownOverview'
      BY <2>2, SameShown DEF ShownInv
    <2> QED  BY <2>1, <2>2, <2>3, ShownEnds
  <1>6. CASE \E p \in Page, r \in Slot : Visit(p, r)
    BY <1>6, ShownVisit
  <1>7. CASE UNCHANGED vars
    <2>1. UNCHANGED <<metricVars, cfg, total, page, loaded, rows, over, quiet, req>>
      BY <1>7 DEF vars, browserVars
    <2>2. quiet => ShownRows' /\ ShownOverview'
      BY <2>1, SameShown DEF ShownInv
    <2>3. ASSUME quiet, NEW r \in Slot, req[r].mounted PROVE ReqData(r)'
      BY <2>1, <2>3, SameData DEF ShownInv
    <2> QED  BY <2>1, <2>2, <2>3 DEF ShownInv
  <1> QED  BY <1>2, <1>3, <1>4, <1>5, <1>6, <1>7 DEF Next

LEMMA ShownAlways == Spec => [](ReqInv /\ ShownInv /\ MetricsInv)
  <1>1. Init => ShownInv
    BY DEF Init, ShownInv
  <1> QED  BY <1>1, ReqInit, ReqStep, ShownStep, MetricsInvAlways, PTL DEF Spec

(* The rows of the six pages. *)
LEMMA BaseRow ==
    ASSUME NEW s
    PROVE  /\ BaseProxy(s).name = s.name /\ BaseProxy(s).status = s.status
           /\ (s.conf # Null /\ s.conf.use_encryption \in BOOLEAN)
                => BaseProxy(s).encryption = s.conf.use_encryption
  BY DEF BaseProxy

LEMMA TCPRow ==
    ASSUME NEW s, NEW x, x = TCPProxy(s)
    PROVE  /\ x.name = BaseProxy(s).name /\ x.status = BaseProxy(s).status /\ x.type = "tcp"
           /\ x.encryption = BaseProxy(s).encryption
           /\ s.conf # Null => /\ x.addr = <<":", s.conf.remote_port>>
                               /\ x.port = s.conf.remote_port
  BY DEF BaseProxy, Addressed, TCPProxy

LEMMA UDPRow ==
    ASSUME NEW s, NEW x, x = UDPProxy(s)
    PROVE  /\ x.name = BaseProxy(s).name /\ x.status = BaseProxy(s).status /\ x.type = "udp"
           /\ x.encryption = BaseProxy(s).encryption
           /\ s.conf # Null => /\ x.addr = <<":", s.conf.remote_port>>
                               /\ x.port = s.conf.remote_port
  BY DEF BaseProxy, Addressed, UDPProxy

LEMMA HTTPRow ==
    ASSUME NEW s, NEW i, NEW j, NEW x, x = HTTPProxy(s, i, j)
    PROVE  /\ x.name = BaseProxy(s).name /\ x.status = BaseProxy(s).status /\ x.type = "http"
           /\ x.encryption = BaseProxy(s).encryption /\ x.port = i
           /\ s.conf # Null => /\ x.custom_domains = s.conf.custom_domains
                               /\ x.host_header_rewrite = s.conf.host_header_rewrite
                               /\ x.locations = s.conf.locations
                               /\ x.subdomain = FullSubdomain(s.conf, j)
  BY DEF BaseProxy, HTTPProxy

LEMMA HTTPSRow ==
    ASSUME NEW s, NEW i, NEW j, NEW x, x = HTTPSProxy(s, i, j)
    PROVE  /\ x.name = BaseProxy(s).name /\ x.status = BaseProxy(s).status /\ x.type = "https"
           /\ x.encryption = BaseProxy(s).encryption /\ x.port = i
           /\ s.conf # Null => /\ x.custom_domains = s.conf.custom_domains
                               /\ x.subdomain = FullSubdomain(s.conf, j)
  BY DEF BaseProxy, HTTPSProxy

LEMMA SecretRow ==
    ASSUME NEW s, NEW t, NEW x, x = [BaseProxy(s) EXCEPT !.type = t]
    PROVE  /\ x.name = BaseProxy(s).name /\ x.status = BaseProxy(s).status /\ x.type = t
           /\ x.encryption = BaseProxy(s).encryption
  BY DEF BaseProxy

LEMMA AnswerFields ==
    ASSUME NEW n
    PROVE  /\ Answer(n).name = n /\ Answer(n).conf = ConfNow(n, page)
           /\ Answer(n).status = IF ConfNow(n, page) = Null THEN "offline" ELSE "online"
  BY DEF Answer, ProxyStatsInfo

(* What the page makes of an answer, in terms of the answer's conf. *)
LEMMA ViewRow ==
    ASSUME page \in ListPage, NEW s, NEW x, x = RowOf(View, s)
    PROVE  /\ x.name = s.name /\ x.status = s.status /\ x.type = page
           /\ x.encryption = BaseProxy(s).encryption
           /\ page \in {"tcp", "udp"} /\ s.conf # Null =>
                x.addr = <<":", s.conf.remote_port>> /\ x.port = s.conf.remote_port
           /\ page \in {"http", "https"} => x.port = VhostPort(cfg, page)
           /\ page \in {"http", "https"} /\ s.conf # Null =>
                /\ x.custom_domains = s.conf.custom_domains
                /\ x.subdomain = FullSubdomain(s.conf, cfg.subdomain_host)
           /\ page = "http" /\ s.conf # Null =>
                /\ x.host_header_rewrite = s.conf.host_header_rewrite
                /\ x.locations = s.conf.locations
  <1>0. /\ View.page = page /\ View.port = VhostPort(cfg, page)
        /\ View.host = cfg.subdomain_host
    BY DEF View
  <1>1. CASE page = "tcp"
    <2>1. x = TCPProxy(s)
      BY <1>0, <1>1 DEF RowOf
    <2>2. /\ x.name = BaseProxy(s).name /\ x.status = BaseProxy(s).status /\ x.type = "tcp"
          /\ x.encryption = BaseProxy(s).encryption
          /\ s.conf # Null => /\ x.addr = <<":", s.conf.remote_port>>
                              /\ x.port = s.conf.remote_port
      BY <2>1, TCPRow
    <2> QED  BY <1>1, <2>2, BaseRow, Zenon
  <1>2. CASE page = "udp"
    <2>1. x = UDPProxy(s)
      BY <1>0, <1>2 DEF RowOf
    <2>2. /\ x.name = BaseProxy(s).name /\ x.status = BaseProxy(s).status /\ x.type = "udp"
          /\ x.encryption = BaseProxy(s).encryption
          /\ s.conf # Null => /\ x.addr = <<":", s.conf.remote_port>>
                              /\ x.port = s.conf.remote_port
      BY <2>1, UDPRow
    <2> QED  BY <1>2, <2>2, BaseRow, Zenon
  <1>3. CASE page = "http"
    <2>1. x = HTTPProxy(s, VhostPort(cfg, page), cfg.subdomain_host)
      BY <1>0, <1>3 DEF RowOf
    <2> QED  BY <1>3, <2>1, BaseRow, HTTPRow
  <1>4. CASE page = "https"
    <2>1. x = HTTPSProxy(s, VhostPort(cfg, page), cfg.subdomain_host)
      BY <1>0, <1>4 DEF RowOf
    <2> QED  BY <1>4, <2>1, BaseRow, HTTPSRow
  <1>5. CASE page = "stcp"
    <2>1. x = [BaseProxy(s) EXCEPT !.type = "stcp"]
      BY <1>0, <1>5 DEF RowOf, STCPProxy
    <2> QED  BY <1>5, <2>1, BaseRow, SecretRow
  <1>6. CASE page = "sudp"
    <2>1. x = [BaseProxy(s) EXCEPT !.type = "sudp"]
      BY <1>0, <1>6 DEF RowOf, SUDPProxy
    <2> QED  BY <1>6, <2>1, BaseRow, SecretRow
  <1> QED  BY <1>1, <1>2, <1>3, <1>4, <1>5, <1>6 DEF ListPage

(* The answer about a name that is registered with the type of the page is *)
(* the configuration of that proxy.                                        *)
LEMMA RegisteredConf ==
    ASSUME UniqueNames, MetricsTypeOK, page \in ListPage, NEW r \in Registered,
           TypeOf[r] = page, NEW c, c = ConfNow(NameOf[r], page)
    PROVE  /\ c # Null
           /\ c.use_encryption = Conf[r].use_encryption /\ c.use_encryption \in BOOLEAN
           /\ page \in {"tcp", "udp"} => c.remote_port = Conf[r].remote_port
           /\ page \in {"http", "https"} => /\ c.custom_domains = Conf[r].custom_domains
                                            /\ c.subdomain = Conf[r].subdomain
           /\ page = "http" => /\ c.locations = Conf[r].locations
                               /\ c.host_header_rewrite = Conf[r].host_header_rewrite
  <1>1. r \in Reg
    BY DEF MetricsTypeOK, Registered
  <1>2. (CHOOSE q \in Registered : NameOf[q] = NameOf[r]) = r
    BY DEF UniqueNames
  <1>3. c = OutConf(page, Conf[r])
    BY <1>2 DEF ConfNow
  <1>4. c # Null /\ OutFields(page) \subseteq DOMAIN Conf[r] /\ Conf[r].use_encryption \in BOOLEAN
    BY <1>1, <1>3, ConfAssumption
  <1>5. \A f \in OutFields(page) : c[f] = Conf[r][f]
    BY <1>3, <1>4 DEF OutConf
  <1>6. /\ "use_encryption" \in OutFields(page)
        /\ page \in {"tcp", "udp"} => "remote_port" \in OutFields(page)
        /\ page \in {"http", "https"} => {"custom_domains", "subdomain"} \subseteq OutFields(page)
        /\ page = "http" => {"locations", "host_header_rewrite"} \subseteq OutFields(page)
    BY DEF OutFields, BaseFields, DomainFields, ListPage
  <1> QED  BY <1>4, <1>5, <1>6

(* So the row of such a proxy describes it. *)
LEMMA RowDescribes ==
    ASSUME UniqueNames, MetricsTypeOK, page \in ListPage, NEW r \in Registered,
           TypeOf[r] = page, NEW x, x = RowOf(View, Answer(NameOf[r]))
    PROVE  Describes(x, r)
  <1> DEFINE s == Answer(NameOf[r])
             c == ConfNow(NameOf[r], page)
  <1>1. /\ c # Null
        /\ c.use_encryption = Conf[r].use_encryption /\ c.use_encryption \in BOOLEAN
        /\ page \in {"tcp", "udp"} => c.remote_port = Conf[r].remote_port
        /\ page \in {"http", "https"} => /\ c.custom_domains = Conf[r].custom_domains
                                         /\ c.subdomain = Conf[r].subdomain
        /\ page = "http" => /\ c.locations = Conf[r].locations
                            /\ c.host_header_rewrite = Conf[r].host_header_rewrite
    BY RegisteredConf
  <1>2. s.conf = c /\ s.status = "online"
    BY <1>1, AnswerFields
  <1>3. BaseProxy(s).encryption = Conf[r].use_encryption
    BY <1>1, <1>2, BaseRow
  <1> HIDE DEF s, c
  <1>x. x = RowOf(View, s)
    BY DEF s
  <1>4. /\ x.status = "online" /\ x.type = page /\ x.encryption = Conf[r].use_encryption
        /\ page \in {"tcp", "udp"} => /\ x.addr = <<":", Conf[r].remote_port>>
                                      /\ x.port = Conf[r].remote_port
        /\ page \in {"http", "https"} => /\ x.port = VhostPort(cfg, page)
                                         /\ x.custom_domains = Conf[r].custom_domains
                                         /\ x.subdomain = FullSubdomain(c, cfg.subdomain_host)
        /\ page = "http" => /\ x.host_header_rewrite = Conf[r].host_header_rewrite
                            /\ x.locations = Conf[r].locations
    <2>1. /\ x.name = s.name /\ x.status = s.status /\ x.type = page
          /\ x.encryption = BaseProxy(s).encryption
          /\ page \in {"tcp", "udp"} /\ s.conf # Null =>
               x.addr = <<":", s.conf.remote_port>> /\ x.port = s.conf.remote_port
          /\ page \in {"http", "https"} => x.port = VhostPort(cfg, page)
          /\ page \in {"http", "https"} /\ s.conf # Null =>
               /\ x.custom_domains = s.conf.custom_domains
               /\ x.subdomain = FullSubdomain(s.conf, cfg.subdomain_host)
          /\ page = "http" /\ s.conf # Null =>
               /\ x.host_header_rewrite = s.conf.host_header_rewrite
               /\ x.locations = s.conf.locations
      BY <1>x, ViewRow, Zenon
    <2>2. x.status = "online" /\ x.type = page /\ x.encryption = Conf[r].use_encryption
      BY <1>2, <1>3, <2>1
    <2>3. page \in {"tcp", "udp"} => /\ x.addr = <<":", Conf[r].remote_port>>
                                     /\ x.port = Conf[r].remote_port
      BY <1>1, <1>2, <2>1, Zenon
    <2>4. page \in {"http", "https"} => /\ x.port = VhostPort(cfg, page)
                                        /\ x.custom_domains = Conf[r].custom_domains
                                        /\ x.subdomain = FullSubdomain(c, cfg.subdomain_host)
      BY <1>1, <1>2, <2>1, Zenon
    <2>5. page = "http" => /\ x.host_header_rewrite = Conf[r].host_header_rewrite
                           /\ x.locations = Conf[r].locations
      BY <1>1, <1>2, <2>1
    <2> QED  BY <2>2, <2>3, <2>4, <2>5
  <1>5. page \in {"http", "https"} /\ Conf[r].subdomain # <<>> =>
           x.subdomain = Conf[r].subdomain \o <<".">> \o cfg.subdomain_host
    BY <1>1, <1>4 DEF FullSubdomain
  <1>6. ProxyView(x).Status = <<"online", "success">> /\ ProxyView(x).Port = x.port
    BY <1>4, Zenon DEF ProxyView
  <1>7. CASE page \in {"http", "https"}
    <2>1. /\ ProxyViewExpand(x, page).Type = x.type
          /\ ProxyViewExpand(x, page).Encryption = x.encryption
          /\ ProxyViewExpand(x, page).Domains = x.custom_domains
          /\ ProxyViewExpand(x, page).SubDomain = x.subdomain
          /\ ProxyViewExpand(x, page).locations = x.locations
          /\ ProxyViewExpand(x, page).HostRewrite = x.host_header_rewrite
      BY <1>7 DEF ProxyViewExpand
    <2> QED  BY <1>4, <1>5, <1>6, <1>7, <2>1 DEF Describes, VhostPort
  <1>8. CASE page \notin {"http", "https"}
    <2>1. /\ ProxyViewExpand(x, page).Type = x.type
          /\ ProxyViewExpand(x, page).Encryption = x.encryption
          /\ ProxyViewExpand(x, page).Addr = x.addr
      BY <1>8 DEF ProxyViewExpand
    <2> QED  BY <1>4, <1>6, <1>8, <2>1 DEF Describes
  <1> QED  BY <1>7, <1>8

(* One row for each name. *)
LEMMA OneRowEach ==
    ASSUME MetricsTypeOK, page \in ListPage,
           rows = {RowOf(View, Answer(n)) : n \in Listed}
    PROVE  /\ {row.name : row \in rows} = Listed
           /\ Cardinality(rows) = Cardinality({row.name : row \in rows})
  <1>1. ASSUME NEW n \in Listed PROVE RowOf(View, Answer(n)).name = n
    BY AnswerFields, ViewRow
  <1>2. {row.name : row \in rows} = Listed
    BY <1>1
  <1>3. IsFiniteSet(Listed)
    <2>1. IsFiniteSet(Names)
      <3> DEFINE f == [r \in Reg |-> NameOf[r]]
      <3>1. f \in Surjection(Reg, Names)
        BY DEF Surjection, Names
      <3> QED  BY <3>1, FS_Surjection, ProxyMetricsAssumption
    <2>2. Listed \subseteq Names
      BY DEF Listed, MetricsTypeOK
    <2> QED  BY <2>1, <2>2, FS_Subset
  <1>4. ExistsBijection(Listed, rows)
    <2> DEFINE g == [n \in Listed |-> RowOf(View, Answer(n))]
    <2>1. g \in [Listed -> rows] /\ \A n \in Listed : g[n].name = n
      BY <1>1
    <2>2. \A y \in rows : \E n \in Listed : g[n] = y
      OBVIOUS
    <2> HIDE DEF g
    <2>3. \A m, n \in Listed : g[m] = g[n] => m = n
      BY <2>1
    <2>4. g \in Injection(Listed, rows)
      BY <2>1, <2>3 DEF Injection, IsInjective
    <2>5. g \in Surjection(Listed, rows)
      BY <2>1, <2>2 DEF Surjection
    <2>6. g \in Bijection(Listed, rows)
      BY <2>4, <2>5 DEF Bijection
    <2> QED  BY <2>6 DEF ExistsBijection
  <1> QED  BY <1>2, <1>3, <1>4, FS_Bijection

(* A list page that is loaded, over a frps that did not change meanwhile,  *)
(* shows exactly the names of its type, each once, the registered ones as  *)
(* they are configured and the others as offline: for any registrations,   *)
(* configurations and number of requests under way.                        *)
THEOREM SettledTableAlways == Spec => []SettledTable
  <1>1. ReqInv /\ ShownInv /\ MetricsInv => SettledTable
    <2> SUFFICES ASSUME ReqInv, ShownInv, MetricsInv, loaded, quiet, page \in ListPage
                 PROVE  SettledTable
      BY DEF SettledTable
    <2>0. MetricsTypeOK /\ UniqueNames
      BY DEF MetricsInv
    <2>1. rows = IF NoVhost THEN {} ELSE {RowOf(View, Answer(n)) : n \in Listed}
      BY DEF ShownInv, ShownRows
    <2>2. NoVhost <=> \/ page = "http" /\ cfg.ports["vhost_http_port"] = 0
                      \/ page = "https" /\ cfg.ports["vhost_https_port"] = 0
      BY DEF NoVhost, VhostPort
    <2>3. CASE NoVhost
      BY <2>1, <2>2, <2>3 DEF SettledTable
    <2>4. CASE ~NoVhost
      <3>1. rows = {RowOf(View, Answer(n)) : n \in Listed}
        BY <2>1, <2>4
      <3>2. /\ {row.name : row \in rows} = Listed
            /\ Cardinality(rows) = Cardinality({row.name : row \in rows})
        BY <2>0, <3>1, OneRowEach
      <3>3. ASSUME NEW row \in rows
            PROVE  IF \E r \in Registered : NameOf[r] = row.name
                   THEN \A r \in Registered :
                          (NameOf[r] = row.name /\ TypeOf[r] = page) => Describes(row, r)
                   ELSE ProxyView(row).Status = <<"offline", "danger">>
        <4>1. PICK n \in Listed : row = RowOf(View, Answer(n))
          BY <3>1, <3>3
        <4>2. row.name = n /\ row.status = Answer(n).status
          BY <4>1, AnswerFields, ViewRow
        <4>3. CASE \E r \in Registered : NameOf[r] = n
          BY <2>0, <4>1, <4>2, <4>3, RowDescribes
        <4>4. CASE ~\E r \in Registered : NameOf[r] = n
          <5>1. row.status = "offline"
            BY <4>2, <4>4, AnswerFields DEF ConfNow
          <5> QED  BY <4>2, <4>4, <5>1 DEF ProxyView
        <4> QED  BY <4>3, <4>4
      <3> QED  BY <2>2, <2>4, <3>2, <3>3 DEF SettledTable, Listed
    <2> QED  BY <2>3, <2>4
  <1> QED  BY <1>1, ShownAlways, PTL

(* The items of the form of the overview. *)
LEMMA FormItems ==
    ASSUME NEW d, NEW form, form = OverviewForm(d)
    PROVE  /\ \A k \in PortKey : k \in DOMAIN form <=> d.ports[k] # 0
           /\ \A k \in PortKey : d.ports[k] # 0 => form[k] = d.ports[k]
           /\ d.subdomain_host # <<>> =>
                /\ "subdomain_host" \in DOMAIN form
                /\ form["subdomain_host"] = LongSpan(d.subdomain_chars, 30)
           /\ "allow_ports_str" \in DOMAIN form
           /\ d.allow_ports_str # Null =>
                form["allow_ports_str"] = LongSpan(d.allow_ports_str, 30)
           /\ "tls_only" \in DOMAIN form <=> d.tls_only # Null
  <1> DEFINE items == {k \in PortKey : d.ports[k] # 0}
                        \cup {k \in {"subdomain_host"} : d.subdomain_host # <<>>}
                        \cup {"max_ports_per_client", "allow_ports_str", "proxy_counts"}
                        \cup {k \in {"tls_only"} : d.tls_only # Null}
             Shown(k) == CASE k \in PortKey -> d.ports[k]
                           [] k = "subdomain_host" -> LongSpan(d.subdomain_chars, 30)
                           [] k = "allow_ports_str" -> IF d.allow_ports_str = Null THEN Null
                                                       ELSE LongSpan(d.allow_ports_str, 30)
                           [] OTHER -> d[k]
  <1>1. form = [k \in items |-> Shown(k)]
    BY DEF OverviewForm
  <1>2. DOMAIN form = items /\ \A k \in items : form[k] = Shown(k)
    <2> HIDE DEF items, Shown
    <2> QED  BY <1>1
  <1>3. /\ \A k \in PortKey : k \in items <=> d.ports[k] # 0
        /\ "subdomain_host" \in items <=> d.subdomain_host # <<>>
        /\ "allow_ports_str" \in items
        /\ "tls_only" \in items <=> d.tls_only # Null
    BY DEF PortKey
  <1>4. \A k \in PortKey : Shown(k) = d.ports[k]
    BY DEF PortKey
  <1>5. /\ Shown("subdomain_host") = LongSpan(d.subdomain_chars, 30)
        /\ d.allow_ports_str # Null =>
             Shown("allow_ports_str") = LongSpan(d.allow_ports_str, 30)
    BY DEF PortKey
  <1> HIDE DEF items, Shown
  <1> QED  BY <1>2, <1>3, <1>4, <1>5

LEMMA LongSpanLeast ==
    ASSUME NEW n \in Nat, n # 30
    PROVE  LongSpan(n, 30) = Least(n, 30)
  BY DEF LongSpan, Least

(* What the page takes of an answer that is up to date. *)
LEMMA DataFields ==
    ASSUME cfg \in Configs, NEW d, d = OverviewData(ServerInfo)
    PROVE  /\ d.ports = cfg.ports /\ d.subdomain_host = cfg.subdomain_host
           /\ d.subdomain_chars = cfg.subdomain_chars
           /\ d.allow_ports_str = IF cfg.allow_ports_str = 0 THEN Null
                                  ELSE cfg.allow_ports_str
           /\ d.tls_only # Null <=> cfg.tls_only
  <1>1. /\ ServerInfo.ports = cfg.ports /\ ServerInfo.subdomain_host = cfg.subdomain_host
        /\ ServerInfo.subdomain_chars = cfg.subdomain_chars
        /\ ServerInfo.allow_ports_str = IF cfg.allow_ports_str = 0 THEN Null
                                        ELSE cfg.allow_ports_str
        /\ ServerInfo.tls_only = IF cfg.tls_only THEN TRUE ELSE Null
    BY DEF ServerInfo
  <1>2. /\ d.ports = ServerInfo.ports /\ d.subdomain_host = ServerInfo.subdomain_host
        /\ d.subdomain_chars = ServerInfo.subdomain_chars
        /\ d.allow_ports_str = ServerInfo.allow_ports_str
        /\ d.tls_only = ServerInfo.tls_only
    BY DEF OverviewData
  <1>3. cfg.tls_only \in BOOLEAN /\ TRUE # Null
    BY FrpsDashboardAssumption, ConfAssumption
  <1>4. d.tls_only # Null <=> cfg.tls_only
    BY <1>1, <1>2, <1>3
  <1> QED  BY <1>1, <1>2, <1>4

(* The slices of a pie of two. *)
LEMMA TwoSlices ==
    ASSUME NEW a, NEW b, NEW v, NEW w, NEW pie, pie = <<Slice(a, v), Slice(b, w)>>
    PROVE  {<<s.name, s.value>> : s \in Range(pie)} = {<<a, v>>, <<b, w>>}
  <1>1. DOMAIN pie = {1, 2} /\ pie[1] = Slice(a, v) /\ pie[2] = Slice(b, w)
    OBVIOUS
  <1>2. Range(pie) = {Slice(a, v), Slice(b, w)}
    BY <1>1 DEF Range
  <1>3. \A n, x : Slice(n, x).name = n /\ Slice(n, x).value = x
    BY DEF Slice
  <1> QED  BY <1>2, <1>3

(* An overview that is loaded, over a frps that did not change meanwhile,  *)
(* shows the ports and texts of its configuration and today's traffic, for *)
(* any configurations and number of requests under way: a late answer to   *)
(* an earlier overview changes no data and only the pies.                  *)
THEOREM SettledOverviewAlways == Spec => []SettledOverview
  <1>1. ReqInv /\ ShownInv /\ MetricsInv => SettledOverview
    <2> SUFFICES ASSUME ReqInv, ShownInv, loaded, quiet, page = "/"
                 PROVE  SettledOverview
      BY DEF SettledOverview
    <2> DEFINE d == over.data
               form == OverviewForm(over.data)
    <2>0. /\ cfg \in Configs /\ d = OverviewData(ServerInfo)
          /\ over.own => over.traffic = DrawTrafficChart(total[1], total[2])
      BY DEF ReqInv, ShownInv, ShownOverview
    <2>1. /\ d.ports = cfg.ports /\ d.subdomain_host = cfg.subdomain_host
          /\ d.subdomain_chars = cfg.subdomain_chars
          /\ d.allow_ports_str = IF cfg.allow_ports_str = 0 THEN Null
                                 ELSE cfg.allow_ports_str
          /\ d.tls_only # Null <=> cfg.tls_only
      BY <2>0, DataFields
    <2>2. cfg.subdomain_chars \in Nat /\ cfg.allow_ports_str \in Nat /\ cfg.allow_ports_str # Null
      BY <2>0, FrpsDashboardAssumption, ConfAssumption
    <2>3. /\ \A k \in PortKey : k \in DOMAIN form <=> d.ports[k] # 0
          /\ \A k \in PortKey : d.ports[k] # 0 => form[k] = d.ports[k]
          /\ d.subdomain_host # <<>> =>
               /\ "subdomain_host" \in DOMAIN form
               /\ form["subdomain_host"] = LongSpan(d.subdomain_chars, 30)
          /\ "allow_ports_str" \in DOMAIN form
          /\ d.allow_ports_str # Null =>
               form["allow_ports_str"] = LongSpan(d.allow_ports_str, 30)
          /\ "tls_only" \in DOMAIN form <=> d.tls_only # Null
      BY FormItems
    <2> HIDE DEF d, form
    <2>4. \A k \in PortKey : IF cfg.ports[k] = 0 THEN k \notin DOMAIN form
                             ELSE k \in DOMAIN form /\ form[k] = cfg.ports[k]
      BY <2>1, <2>3
    <2>5. cfg.subdomain_host # <<>> => ShowsText(form, "subdomain_host", cfg.subdomain_chars)
      BY <2>1, <2>2, <2>3, LongSpanLeast DEF ShowsText
    <2>6. cfg.allow_ports_str # 0 => ShowsText(form, "allow_ports_str", cfg.allow_ports_str)
      BY <2>1, <2>2, <2>3, LongSpanLeast DEF ShowsText
    <2>7. "tls_only" \in DOMAIN form <=> cfg.tls_only
      BY <2>1, <2>3
    <2>8. ASSUME over.own
          PROVE  {<<s.name, s.value>> : s \in Range(over.traffic)}
                   = {<<"Traffic In", total[1]>>, <<"Traffic Out", total[2]>>}
      <3> DEFINE a == "Traffic In"
                 b == "Traffic Out"
                 pie == over.traffic
      <3>1. pie = <<Slice(a, total[1]), Slice(b, total[2])>>
        BY <2>0, <2>8, Zenon DEF DrawTrafficChart
      <3> HIDE DEF a, b, pie
      <3>2. {<<s.name, s.value>> : s \in Range(pie)} = {<<a, total[1]>>, <<b, total[2]>>}
        BY <3>1, TwoSlices
      <3> QED  BY <3>2 DEF a, b, pie
    <2> QED  BY <2>4, <2>5, <2>6, <2>7, <2>8 DEF SettledOverview, form
  <1> QED  BY <1>1, ShownAlways, PTL

-----------------------------------------------------------------------------
(* Every request ends *)

(* The stages that a request under way goes through. *)
LiveOK(q) ==
    \/ q = NoReq
    \/ /\ q.step = "info" /\ q.stage \in {"sent", "answered"}
       /\ q.page \in {"/", "http", "https"}
    \/ q.step = "list" /\ q.stage \in {"sent", "answered", "lost"}
    \/ q.step = "list" /\ q.stage = "half" /\ q.snap \subseteq Names

LiveInv == \A r \in Slot : LiveOK(req[r])

(* How many steps it may have left: those of the handler of a list are as  *)
(* many as the names it still has to look up.                              *)
Rank(q) ==
    IF q = NoReq THEN 0
    ELSE IF q.stage = "lost" THEN 1
    ELSE IF q.stage = "half" THEN 2 + Cardinality(q.snap)
    ELSE IF q.step = "list" THEN IF q.stage = "answered" THEN 1 ELSE 3 + Cardinality(Names)
    ELSE IF q.stage = "answered" THEN 4 + Cardinality(Names) ELSE 5 + Cardinality(Names)

LEMMA NamesFinite ==
    /\ IsFiniteSet(Names) /\ Cardinality(Names) \in Nat
    /\ \A S \in SUBSET Names : /\ IsFiniteSet(S) /\ Cardinality(S) \in Nat
                               /\ Cardinality(S) <= Cardinality(Names)
  <1>1. IsFiniteSet(Names)
    <2> DEFINE f == [r \in Reg |-> NameOf[r]]
    <2>1. f \in Surjection(Reg, Names)
      BY DEF Surjection, Names
    <2> QED  BY <2>1, FS_Surjection, ProxyMetricsAssumption
  <1> QED  BY <1>1, FS_Subset, FS_CardinalityType

(* The value of Rank, stage by stage. *)
LEMMA RankOf ==
    ASSUME NEW q, LiveOK(q)
    PROVE  /\ Rank(q) \in Nat
           /\ q = NoReq <=> q.stage = "free"
           /\ q = NoReq => Rank(q) = 0
           /\ q.stage = "lost" => Rank(q) = 1
           /\ q.step = "list" /\ q.stage = "answered" => Rank(q) = 1
           /\ q.stage = "half" => Rank(q) = 2 + Cardinality(q.snap)
           /\ q.step = "list" /\ q.stage = "sent" => Rank(q) = 3 + Cardinality(Names)
           /\ q.step = "info" /\ q.stage = "answered" => Rank(q) = 4 + Cardinality(Names)
           /\ q.step = "info" /\ q.stage = "sent" => Rank(q) = 5 + Cardinality(Names)
  <1>1. NoReq.stage = "free" /\ NoReq.step = "none"
    BY NoReqFields
  <1>2. q = NoReq <=> q.stage = "free"
    BY <1>1 DEF LiveOK
  <1>3. q.stage = "half" => Cardinality(q.snap) \in Nat
    BY <1>1, NamesFinite DEF LiveOK
  <1>4. /\ q = NoReq => Rank(q) = 0
        /\ q.stage = "lost" => Rank(q) = 1
        /\ q.step = "list" /\ q.stage = "answered" => Rank(q) = 1
        /\ q.stage = "half" => Rank(q) = 2 + Cardinality(q.snap)
        /\ q.step = "list" /\ q.stage = "sent" => Rank(q) = 3 + Cardinality(Names)
        /\ q.step = "info" /\ q.stage = "answered" => Rank(q) = 4 + Cardinality(Names)
        /\ q.step = "info" /\ q.stage = "sent" => Rank(q) = 5 + Cardinality(Names)
    BY <1>2 DEF Rank
  <1>5. Rank(q) \in Nat
    BY <1>2, <1>3, <1>4, NamesFinite DEF LiveOK
  <1> QED  BY <1>2, <1>4, <1>5

(* A record that agrees on what is counted has the same rank. *)
LEMMA SameRank ==
    ASSUME NEW q, NEW x, LiveOK(q), q # NoReq, x.page = q.page, x.step = q.step,
           x.stage = q.stage, x.stage = "half" => x.snap = q.snap
    PROVE  LiveOK(x) /\ Rank(x) = Rank(q)
  <1>1. NoReq.stage = "free" /\ q.stage # "free"
    BY NoReqFields, RankOf
  <1>2. LiveOK(x)
    BY <1>1 DEF LiveOK
  <1> QED  BY <1>1, <1>2, RankOf DEF LiveOK

(* A step of the handler, or an answer that is received, brings a request  *)
(* nearer to its end.                                                      *)
LEMMA RankDown ==
    ASSUME ReqInv, MetricsTypeOK, LiveInv, NEW r \in Slot, Handle(r) \/ Receive(r) \/ Reject(r)
    PROVE  /\ OnlyReq(r) /\ LiveOK(req'[r])
           /\ req[r] # NoReq /\ Rank(req'[r]) < Rank(req[r])
  <1> DEFINE q == req[r]
             x == req'[r]
  <1>0. LiveOK(q) /\ NoReq.stage = "free" /\ NoReq.step = "none"
    BY NoReqFields DEF LiveInv
  <1>n. LiveOK(NoReq) /\ Rank(NoReq) = 0
    BY RankOf DEF LiveOK
  <1>e. ASSUME q # NoReq PROVE Rank(q) > 0
    <2>1. q.stage = "half" => Cardinality(q.snap) \in Nat
      BY <1>0, <1>e, NamesFinite DEF LiveOK
    <2>2. q.step \in {"info", "list"} /\ q.stage \in {"sent", "answered", "half", "lost"}
            /\ (q.step = "info" => q.stage \in {"sent", "answered"})
      BY <1>0, <1>e DEF LiveOK
    <2> HIDE DEF q
    <2> QED  BY <1>0, <2>1, <2>2, RankOf, NamesFinite
  <1>1. CASE APIServerInfo(r)
    <2>1. /\ OnlyReq(r) /\ q.step = "info" /\ q.stage = "sent"
          /\ x.step = "info" /\ x.stage = "answered" /\ x.page = q.page
      BY <1>1, APIServerInfoReq DEF APIServerInfo
    <2> HIDE DEF q, x
    <2>2. LiveOK(x)
      BY <1>0, <2>1 DEF LiveOK
    <2>3. Rank(q) = 5 + Cardinality(Names) /\ Rank(x) = 4 + Cardinality(Names) /\ q # NoReq
      BY <1>0, <2>1, <2>2, RankOf
    <2> QED  BY <2>1, <2>2, <2>3, NamesFinite DEF q, x
  <1>2. CASE GetProxiesByType(r)
    <2>1. /\ OnlyReq(r) /\ q.step = "list" /\ q.stage = "sent"
          /\ x.step = "list" /\ x.stage = "half" /\ x.snap \in SUBSET DOMAIN stats
      BY <1>2, GetProxiesByTypeReq DEF GetProxiesByType
    <2>2. x.snap \in SUBSET Names
      BY <2>1 DEF MetricsTypeOK
    <2> HIDE DEF q, x
    <2>3. LiveOK(x)
      BY <2>1, <2>2 DEF LiveOK
    <2>4. Rank(q) = 3 + Cardinality(Names) /\ Rank(x) = 2 + Cardinality(x.snap) /\ q # NoReq
      BY <1>0, <2>1, <2>3, RankOf
    <2> QED  BY <2>1, <2>2, <2>3, <2>4, NamesFinite DEF q, x
  <1>3. CASE APIProxyByType(r)
    <2>1. /\ OnlyReq(r) /\ q.stage = "half" /\ x.stage = "answered" /\ x.step = q.step
      BY <1>3, APIProxyByTypeReq DEF APIProxyByType
    <2> HIDE DEF q, x
    <2>2. q.step = "list" /\ q.snap \in SUBSET Names
      BY <1>0, <2>1 DEF LiveOK
    <2>3. LiveOK(x)
      BY <2>1, <2>2 DEF LiveOK
    <2>4. Rank(q) = 2 + Cardinality(q.snap) /\ Rank(x) = 1 /\ q # NoReq
      BY <1>0, <2>1, <2>2, <2>3, RankOf
    <2> QED  BY <2>1, <2>2, <2>3, <2>4, NamesFinite DEF q, x
  <1>4. ASSUME NEW n \in Names, GetByName(r, n)
        PROVE  /\ OnlyReq(r) /\ LiveOK(x) /\ q # NoReq /\ Rank(x) < Rank(q)
    <2>1. /\ OnlyReq(r) /\ q.stage = "half" /\ n \in q.snap
          /\ x.stage = q.stage /\ x.step = q.step /\ x.snap = q.snap \ {n}
      BY <1>4, GetByNameReq DEF GetByName
    <2> HIDE DEF q, x
    <2>2. q.step = "list" /\ q.snap \in SUBSET Names /\ x.snap \in SUBSET Names
      BY <1>0, <2>1 DEF LiveOK
    <2>3. LiveOK(x)
      BY <2>1, <2>2 DEF LiveOK
    <2>4. Rank(q) = 2 + Cardinality(q.snap) /\ Rank(x) = 2 + Cardinality(x.snap) /\ q # NoReq
      BY <1>0, <2>1, <2>2, <2>3, RankOf
    <2>5. Cardinality(x.snap) = Cardinality(q.snap) - 1
      BY <2>1, <2>2, NamesFinite, FS_RemoveElement
    <2> QED  BY <2>1, <2>2, <2>3, <2>4, <2>5, NamesFinite
  <1>5. CASE GotOverview(r) \/ GotList(r) \/ Reject(r)
    <2>1. OnlyReq(r) /\ x = NoReq /\ q # NoReq
      BY <1>0, <1>5, OneReqStep DEF GotOverview, GotList, Reject
    <2> QED  BY <1>n, <1>e, <2>1
  <1>6. CASE GotVhostInfo(r)
    <2>0. q.step = "info" /\ q.stage = "answered" /\ q # NoReq
      BY <1>0, <1>6 DEF GotVhostInfo
    <2>1. CASE VhostPort(req[r].info, req[r].page) = 0
      <3>1. OnlyReq(r) /\ x = NoReq
        BY <1>6, <2>1, OneReqStep DEF GotVhostInfo
      <3> QED  BY <1>n, <1>e, <2>0, <3>1
    <2>2. CASE VhostPort(req[r].info, req[r].page) # 0
      <3>1. OnlyReq(r) /\ x.step = "list" /\ x.stage = "sent"
        BY <1>6, <2>2, GotVhostInfoReq
      <3> HIDE DEF q, x
      <3>2. LiveOK(x)
        BY <3>1 DEF LiveOK
      <3>3. Rank(q) = 4 + Cardinality(Names) /\ Rank(x) = 3 + Cardinality(Names)
        BY <1>0, <2>0, <3>1, <3>2, RankOf
      <3> QED  BY <2>0, <3>1, <3>2, <3>3, NamesFinite DEF q, x
    <2> QED  BY <2>1, <2>2
  <1> QED  BY <1>1, <1>2, <1>3, <1>4, <1>5, <1>6 DEF Handle, Receive

(* No step takes a request under way back. *)
LEMMA RankStep ==
    ASSUME ReqInv, MetricsTypeOK, LiveInv, [Next]_vars
    PROVE  /\ LiveInv'
           /\ \A r \in Slot : req[r] # NoReq => Rank(req'[r]) <= Rank(req[r])
  <1> DEFINE Fine(r) == LiveOK(req'[r]) /\ (req[r] # NoReq => Rank(req'[r]) <= Rank(req[r]))
  <1> SUFFICES ASSUME NEW r \in Slot PROVE Fine(r)
    BY DEF LiveInv
  <1>0. LiveOK(req[r]) /\ Rank(req[r]) \in Nat
    BY RankOf DEF LiveInv
  <1>n. LiveOK(NoReq) /\ Rank(NoReq) = 0
    BY RankOf DEF LiveOK
  <1>1. CASE req' = req
    BY <1>0, <1>1
  <1>2. ASSUME NEW q \in Slot, Handle(q) \/ Receive(q) \/ Reject(q) PROVE Fine(r)
    <2>1. CASE q = r
      <3>1. LiveOK(req'[r]) /\ Rank(req'[r]) < Rank(req[r])
        BY <1>2, <2>1, RankDown
      <3>2. Rank(req'[r]) \in Nat
        BY <3>1, RankOf
      <3> QED  BY <1>0, <3>1, <3>2
    <2>2. CASE q # r
      <3>1. req'[r] = req[r]
        BY <1>2, <2>2, RankDown DEF OnlyReq
      <3> QED  BY <1>0, <3>1
    <2> QED  BY <2>1, <2>2
  <1>3. ASSUME NEW c \in Configs, Restart(c) PROVE Fine(r)
    <2>1. CASE req[r].stage = "half"
      <3> DEFINE q == req[r]
                 x == req'[r]
      <3>1. /\ x.stage = "lost" /\ x.step = q.step /\ q.stage = "half"
            /\ LiveOK(q)
        <4>1. x = [q EXCEPT !.stage = "lost", !.snap = {}, !.list = {}] /\ ReqShape(q)
          BY <1>3, <2>1 DEF Restart, ReqInv, ReqOK
        <4>2. q.stage = "half" /\ LiveOK(q)
          BY <1>0, <2>1
        <4> HIDE DEF q, x
        <4> QED  BY <4>1, <4>2, SetLost
      <3> HIDE DEF q, x
      <3>2. q.step = "list" /\ q.snap \in SUBSET Names
        BY <3>1, NoReqFields DEF LiveOK
      <3>3. LiveOK(x)
        BY <3>1, <3>2 DEF LiveOK
      <3>4. Rank(x) = 1 /\ Rank(q) = 2 + Cardinality(q.snap)
        BY <3>1, <3>2, <3>3, RankOf
      <3> QED  BY <3>2, <3>3, <3>4, NamesFinite DEF q, x
    <2>2. CASE req[r].stage # "half"
      <3>1. req'[r] = req[r]
        BY <1>3, <2>2 DEF Restart
      <3> QED  BY <1>0, <3>1
    <2> QED  BY <2>1, <2>2
  <1>4. ASSUME NEW p \in Page, NEW q \in Slot, Visit(p, q) PROVE Fine(r)
    <2>1. CASE q = r
      <3> DEFINE x == req'[r]
                 t == IF Asks(p) THEN "info" ELSE "list"
      <3>1. /\ x = [NoReq EXCEPT !.page = p, !.stage = "sent", !.mounted = TRUE, !.step = t]
            /\ req[r] = NoReq
        BY <1>4, <2>1 DEF Visit, Fresh
      <3>2. x.page = p /\ x.stage = "sent" /\ x.step = t
        <4> HIDE DEF x, t
        <4> QED  BY <3>1 DEF NoReq
      <3>3. LiveOK(x)
        <4>1. CASE Asks(p)
          BY <3>2, <4>1 DEF LiveOK, Asks
        <4>2. CASE ~Asks(p)
          BY <3>2, <4>2 DEF LiveOK
        <4> QED  BY <4>1, <4>2
      <3> QED  BY <3>1, <3>3
    <2>2. CASE q # r /\ req[r].page = "/"
      <3>1. req'[r] = [req[r] EXCEPT !.mounted = FALSE] /\ ReqShape(req[r]) /\ ReqOK(r)
        BY <1>4, <2>2 DEF Visit, ReqInv, ReqOK
      <3>2. req[r] # NoReq /\ req[r].stage # "half"
        BY <2>2, <3>1, NoReqFields DEF ReqOK
      <3>3. /\ req'[r].page = req[r].page /\ req'[r].step = req[r].step
            /\ req'[r].stage = req[r].stage
        BY <3>1, SetUnmounted
      <3>4. LiveOK(req'[r]) /\ Rank(req'[r]) = Rank(req[r])
        BY <1>0, <3>2, <3>3, SameRank
      <3> QED  BY <1>0, <3>4
    <2>3. CASE q # r /\ req[r].page # "/"
      <3>1. req'[r] = NoReq
        BY <1>4, <2>3 DEF Visit
      <3> QED  BY <1>0, <1>n, <3>1
    <2> QED  BY <2>1, <2>2, <2>3
  <1>5. CASE UNCHANGED vars \/ Metrics \/ \E n \in Totals : Traffic(n)
    <2>1. req' = req
      BY <1>5 DEF vars, browserVars, Metrics, Traffic
    <2> QED  BY <1>1, <2>1
  <1> HIDE DEF Fine
  <1> QED  BY <1>2, <1>3, <1>4, <1>5 DEF Next

LEMMA LiveAlways == Spec => [](ReqInv /\ MetricsTypeOK /\ LiveInv)
  <1>1. Init => LiveInv
    BY DEF Init, LiveInv, LiveOK
  <1>2. ReqInv /\ MetricsTypeOK /\ LiveInv /\ [Next]_vars => LiveInv'
    BY RankStep
  <1>3. MetricsInv => MetricsTypeOK
    BY DEF MetricsInv
  <1> QED  BY <1>1, <1>2, <1>3, ShownAlways, PTL DEF Spec

Left(r) == Rank(req[r])
Ended(r) == req[r] = NoReq

(* A request with k steps left ends or comes to have fewer; it comes to    *)
(* have k left, or ends; it comes to have fewer than k.                    *)
Drops(r, k) == (~Ended(r) /\ Left(r) = k) => <>(Ended(r) \/ Left(r) < k)
Reaches(r, k) == <>(Ended(r) \/ Left(r) = k)
Sinks(r, k) == <>(Left(r) \in Nat /\ Left(r) < k)
AllDrop(r) == \A k \in Nat : Drops(r, k)

(* Among the numbers that Left(r) still comes to there is a least one.     *)
(* This holds of every behaviour, since natural numbers are well founded;  *)
(* but Reaches is a temporal formula, so no set or function of TLA+, and   *)
(* no theorem of the library, ranges over the numbers of which it holds.   *)
LeastReached(r) ==
    (\E k \in Nat : Reaches(r, k))
        => \E k \in Nat : Reaches(r, k) /\ \A m \in Nat : m < k => ~Reaches(r, m)

LeastNumbers == \A r \in Slot : []LeastReached(r)

LEMMA RequestDrops ==
    ASSUME NEW r \in Slot, NEW k \in Nat
    PROVE  Spec /\ []GuardsEnable => []Drops(r, k)
  <1> DEFINE Inv == ReqInv /\ MetricsTypeOK /\ LiveInv
             Now == ~Ended(r) /\ Left(r) = k
             Then == Ended(r) \/ Left(r) < k
  <1>1. Inv /\ Now /\ [Next]_vars => Now' \/ Then'
    <2> SUFFICES ASSUME Inv, Now, [Next]_vars PROVE Now' \/ Then'
      OBVIOUS
    <2>1. LiveInv' /\ Left(r)' <= Left(r)
      BY RankStep DEF Ended, Left
    <2>2. Left(r)' \in Nat
      BY <2>1, RankOf DEF LiveInv, Left
    <2> QED  BY <2>1, <2>2
  <1>2. Inv /\ Now /\ <<Progress(r)>>_vars => Then'
    <2> SUFFICES ASSUME Inv, Now, Progress(r) PROVE Left(r)' < Left(r)
      OBVIOUS
    <2>1. Handle(r) \/ Receive(r) \/ Reject(r)
      BY DEF Progress
    <2> QED  BY <2>1, RankDown DEF Left
  <1>3. Inv /\ GuardsEnable /\ Now => ENABLED <<Progress(r)>>_vars
    <2>1. LiveInv /\ ~Ended(r) => Ready(r)
      BY DEF LiveInv, LiveOK, Ended, Ready
    <2> QED  BY <2>1 DEF GuardsEnable
  <1>4. Fairness => FairProgress(r)
    BY DEF Fairness
  <1> HIDE DEF Now, Then
  <1>5. Spec /\ []GuardsEnable => [](Now => <>Then)
    BY <1>1, <1>2, <1>3, <1>4, LiveAlways, PTL DEF Spec, FairProgress
  <1> QED  BY <1>5 DEF Drops, Now, Then

LEMMA DropsEnd ==
    ASSUME NEW r \in Slot
    PROVE  [](Left(r) \in Nat) /\ []AllDrop(r) /\ []LeastReached(r) => []<>Ended(r)
  <1> DEFINE G == [](Left(r) \in Nat) /\ []AllDrop(r)
  <1>1. ASSUME NEW k \in Nat
        PROVE  G /\ Reaches(r, k) => <>Ended(r) \/ Sinks(r, k)
    <2>1. AllDrop(r) => Drops(r, k)
      BY DEF AllDrop
    <2>2. G => []Drops(r, k)
      BY <2>1, PTL
    <2>3. [](Left(r) \in Nat) /\ []Drops(r, k) /\ Reaches(r, k) => <>Ended(r) \/ Sinks(r, k)
      BY PTL DEF Drops, Reaches, Sinks
    <2> QED  BY <2>2, <2>3
  <1>2. ASSUME NEW k \in Nat
        PROVE  G /\ Reaches(r, k) => k = 0 \/ \E m \in Nat : m < k /\ Reaches(r, m)
    <2>1. <>Ended(r) => Reaches(r, 0)
      BY PTL DEF Reaches
    <2>2. Left(r) \in Nat /\ Left(r) < k => \E m \in 0..(k - 1) : Left(r) = m
      OBVIOUS
    <2>3. Sinks(r, k) => <>(\E m \in 0..(k - 1) : Left(r) = m)
      BY <2>2, PTL DEF Sinks
    <2>4. <>(\E m \in 0..(k - 1) : Left(r) = m) => \E m \in 0..(k - 1) : <>(Left(r) = m)
      OBVIOUS
    <2>5. ASSUME NEW m \in 0..(k - 1) PROVE <>(Left(r) = m) => Reaches(r, m)
      BY PTL DEF Reaches
    <2>6. Sinks(r, k) => \E m \in 0..(k - 1) : Reaches(r, m)
      BY <2>3, <2>4, <2>5
    <2> QED  BY <1>1, <2>1, <2>6
  <1>3. G => \E k \in Nat : Reaches(r, k)
    <2>1. ASSUME NEW k \in Nat PROVE Left(r) = k => Reaches(r, k)
      BY PTL DEF Reaches
    <2>2. G => Left(r) \in Nat
      BY PTL
    <2> QED  BY <2>1, <2>2
  <1>4. G /\ LeastReached(r) => Reaches(r, 0)
    BY <1>2, <1>3 DEF LeastReached
  <1>5. G /\ LeastReached(r) => <>Ended(r)
    <2>1. ~(Left(r) \in Nat /\ Left(r) < 0)
      OBVIOUS
    <2>2. G /\ Reaches(r, 0) => <>Ended(r) \/ Sinks(r, 0)
      BY <1>1
    <2> QED  BY <1>4, <2>1, <2>2, PTL DEF Sinks
  <1> QED  BY <1>5, PTL

(* Every request of a page comes to an end, for any number of names that   *)
(* the handler of a list has to look up one by one and any restarts of     *)
(* frps, given that the steps whose guards hold can be made.               *)
THEOREM RequestEndsHolds == Spec /\ []GuardsEnable /\ LeastNumbers => RequestEnds
  <1> SUFFICES ASSUME NEW r \in Slot
               PROVE  Spec /\ []GuardsEnable /\ LeastNumbers => ((req[r] # NoReq) ~> (req[r] = NoReq))
    BY DEF RequestEnds
  <1>1. Spec => [](Left(r) \in Nat)
    <2>1. LiveInv => Left(r) \in Nat
      BY RankOf DEF LiveInv, Left
    <2> QED  BY <2>1, LiveAlways, PTL
  <1>2. Spec /\ []GuardsEnable => []AllDrop(r)
    <2>1. Spec /\ []GuardsEnable => \A k \in Nat : []Drops(r, k)
      BY RequestDrops
    <2>2. (\A k \in Nat : []Drops(r, k)) => []AllDrop(r)
      BY DEF AllDrop
    <2> QED  BY <2>1, <2>2
  <1>3. Spec /\ []GuardsEnable /\ LeastNumbers => []<>Ended(r)
    BY <1>1, <1>2, DropsEnd DEF LeastNumbers
  <1> QED  BY <1>3, PTL DEF Ended
=============================================================================
