---------------------------- MODULE FrpsDashboard ----------------------------
(***************************************************************************)
(* A browser that shows the dashboard of frps (web/frps) over the handlers *)
(* it calls (server/dashboard_api.go) and the statistics they read         *)
(* (ProxyMetrics), which change under it.  A page asks for its data when   *)
(* it is mounted, and only then; the pages of http and https proxies make  *)
(* two requests, one after the other.  Leaving a page cancels nothing.     *)
(***************************************************************************)
EXTENDS ProxyMetrics, ProxyTable, Chart, Functions

CONSTANTS
    Conf,      \* the configuration of the proxy of each registration
    Configs,   \* configurations that frps is started with
    Totals,    \* traffic of the day: pairs of bytes in and bytes out
    NoLimit,   \* the text 'no limit'
    MaxReq     \* bound: requests under way

(* The routes: the overview, and a list page for six of the proxy types.   *)
ListPage == {"tcp", "udp", "http", "https", "stcp", "sudp"}
Page == {"/"} \cup ListPage

PortKey == {"vhost_http_port", "vhost_https_port", "tcpmux_httpconnect_port",
            "kcp_bind_port", "quic_bind_port"}

ASSUME FrpsDashboardAssumption ==
    /\ MaxReq \in Nat
    /\ DOMAIN Conf = Reg
    /\ \A c \in Configs : /\ c.ports \in [PortKey -> Nat]
                          /\ c.subdomain_chars \in Nat /\ c.allow_ports_str \in Nat
                          /\ c.tls_only \in BOOLEAN

(* A configuration has the fields of its proxy's type, and null is neither *)
(* a number, nor a truth value, nor what a configuration is answered as.   *)
ASSUME ConfAssumption ==
    /\ \A r \in Reg : /\ OutFields(TypeOf[r]) \subseteq DOMAIN Conf[r]
                      /\ Conf[r].use_encryption \in BOOLEAN
    /\ Null \notin Nat /\ Null \notin BOOLEAN
    /\ \A r \in Reg, t \in ListPage : OutConf(t, Conf[r]) # Null

VARIABLES
    cfg,      \* the configuration of frps
    total,    \* its traffic of the day
    page,     \* the route that is shown, or "closed"
    loaded,   \* its data have arrived
    rows,     \* proxies of a list page
    over,     \* what the overview holds: its data and its charts
    req,      \* the requests under way
    quiet     \* history: nothing changed in frps since the page was mounted

browserVars == <<page, loaded, rows, over, req, quiet>>
vars == <<metricVars, cfg, total, browserVars>>

Slot == 1..MaxReq

(* The page that asks; step "info" or "list" of it; stage of the request.  *)
(* info is an answer of /api/serverinfo; port and host are the variables   *)
(* that the page of http or https proxies keeps of it; snap is what the    *)
(* handler of a list still has to look up, list the answer so far.         *)
NoReq == [page |-> "none", step |-> "none", stage |-> "free", mounted |-> FALSE,
          info |-> Null, port |-> 0, host |-> <<>>, snap |-> {}, list |-> {}]

(* The overview before its first answer; own is history: the page that is  *)
(* shown drew its charts last, not an earlier one.                         *)
Blank == [data |-> Null, traffic |-> Null, pie |-> Null, own |-> FALSE]

Init ==
    /\ MetricsInit
    /\ cfg \in Configs
    /\ total \in Totals
    /\ page = "closed" /\ loaded = FALSE
    /\ rows = {} /\ over = Blank
    /\ req = [r \in Slot |-> NoReq]
    /\ quiet = FALSE

-----------------------------------------------------------------------------
(* frps, apart from its handlers. *)

Metrics ==
    /\ MetricsStep
    /\ quiet' = FALSE
    /\ UNCHANGED <<cfg, total, page, loaded, rows, over, req>>

Traffic(n) ==
    /\ n # total
    /\ total' = n
    /\ quiet' = FALSE
    /\ UNCHANGED <<metricVars, cfg, page, loaded, rows, over, req>>

(* frps restarts, perhaps with another configuration; a handler that was   *)
(* at work is gone.                                                        *)
Restart(c) ==
    /\ MetricsRestart
    /\ cfg' = c
    /\ quiet' = FALSE
    /\ req' = [r \in Slot |-> IF req[r].stage = "half"
                              THEN [req[r] EXCEPT !.stage = "lost", !.snap = {}, !.list = {}]
                              ELSE req[r]]
    /\ UNCHANGED <<total, page, loaded, rows, over>>

-----------------------------------------------------------------------------
(* The handlers. *)

(* The answer of /api/serverinfo, with the keys that serverInfoResp gives  *)
(* it; omitempty leaves a key out.  The length stands for allow_ports_str. *)
ServerInfo ==
    [ports |-> cfg.ports, subdomain_host |-> cfg.subdomain_host,
     subdomain_chars |-> cfg.subdomain_chars,
     max_ports_per_client |-> cfg.max_ports_per_client,
     allow_ports_str |-> IF cfg.allow_ports_str = 0 THEN Null ELSE cfg.allow_ports_str,
     tls_only |-> IF cfg.tls_only THEN TRUE ELSE Null,
     total_traffic_in |-> total[1], total_traffic_out |-> total[2],
     proxy_type_counts |-> counts]

APIServerInfo(r) ==
    /\ req[r].step = "info" /\ req[r].stage = "sent"
    /\ req' = [req EXCEPT ![r].stage = "answered", ![r].info = ServerInfo]
    /\ UNCHANGED <<metricVars, cfg, total, page, loaded, rows, over, quiet>>

(* APIProxyByType first takes the entries of the type from the statistics, *)
GetProxiesByType(r) ==
    /\ req[r].step = "list" /\ req[r].stage = "sent"
    /\ req' = [req EXCEPT ![r].stage = "half",
                 ![r].snap = {n \in DOMAIN stats : stats[n].type = req[r].page}]
    /\ UNCHANGED <<metricVars, cfg, total, page, loaded, rows, over, quiet>>

(* The conf of the answer: null when the Manager does not have the name.   *)
ConfNow(name, type) ==
    IF \E q \in Registered : NameOf[q] = name
    THEN OutConf(type, Conf[CHOOSE q \in Registered : NameOf[q] = name])
    ELSE Null

(* then it asks the Manager for one name after the other, in any order,    *)
GetByName(r, n) ==
    /\ req[r].stage = "half" /\ n \in req[r].snap
    /\ req' = [req EXCEPT ![r].snap = @ \ {n},
                 ![r].list = @ \cup {ProxyStatsInfo(n, ConfNow(n, req[r].page))}]
    /\ UNCHANGED <<metricVars, cfg, total, page, loaded, rows, over, quiet>>

(* and answers. *)
APIProxyByType(r) ==
    /\ req[r].stage = "half" /\ req[r].snap = {}
    /\ req' = [req EXCEPT ![r].stage = "answered"]
    /\ UNCHANGED <<metricVars, cfg, total, page, loaded, rows, over, quiet>>

-----------------------------------------------------------------------------
(* The browser. *)

(* Bound: the overview and the pages of the types that clients register.   *)
Visited == Page \cap ({"/"} \cup {TypeOf[r] : r \in workload})

(* Bound: several requests at a time only when few proxies are registered. *)
Fresh(r) ==
    /\ req[r] = NoReq /\ \A q \in Slot : q < r => req[q] # NoReq
    /\ Cardinality(workload) > 1 => r = 1

Asks(p) == p \in {"/", "http", "https"}

(* A menu item: the component of the route is set up and calls fetchData.  *)
(* The requests of a list page that is left change nothing that is shown   *)
(* any more, and are forgotten; those of the overview still draw.          *)
Visit(p, r) ==
    /\ p \in Visited /\ page # p
    /\ Fresh(r)
    /\ page' = p /\ loaded' = FALSE
    /\ rows' = {} /\ over' = Blank
    /\ req' = [q \in Slot |->
                 IF q = r
                 THEN [NoReq EXCEPT !.page = p, !.stage = "sent", !.mounted = TRUE,
                                    !.step = IF Asks(p) THEN "info" ELSE "list"]
                 ELSE IF req[q].page = "/" THEN [req[q] EXCEPT !.mounted = FALSE]
                 ELSE NoReq]
    /\ quiet' = TRUE
    /\ UNCHANGED <<metricVars, cfg, total>>

(* proxy_type_count of an answer: undefined when it has no such key.       *)
ProxyTypeCount(json) ==
    IF "proxy_type_count" \in DOMAIN json THEN json.proxy_type_count ELSE Null

(* The sum over the types that the page knows. *)
ProxyCounts(count) ==
    IF count = Null THEN 0
    ELSE SumFunctionOnSet(count, DOMAIN count \cap Range(CountedTypes))

(* The assignments to data. *)
OverviewData(json) ==
    [ports |-> json.ports, subdomain_host |-> json.subdomain_host,
     subdomain_chars |-> json.subdomain_chars,
     max_ports_per_client |-> IF json.max_ports_per_client = 0 THEN NoLimit
                              ELSE json.max_ports_per_client,
     allow_ports_str |-> json.allow_ports_str, tls_only |-> json.tls_only,
     proxy_counts |-> ProxyCounts(ProxyTypeCount(json))]

(* The form of the template: the items that are shown, each with what it   *)
(* shows; for a text its number of characters.  An undefined text is not   *)
(* the empty text: its item is shown, with nothing.                        *)
OverviewForm(data) ==
    LET items == {k \in PortKey : data.ports[k] # 0}
                   \cup {k \in {"subdomain_host"} : data.subdomain_host # <<>>}
                   \cup {"max_ports_per_client", "allow_ports_str", "proxy_counts"}
                   \cup {k \in {"tls_only"} : data.tls_only # Null}
    IN  [k \in items |->
           CASE k \in PortKey -> data.ports[k]
             [] k = "subdomain_host" -> LongSpan(data.subdomain_chars, 30)
             [] k = "allow_ports_str" -> IF data.allow_ports_str = Null THEN Null
                                         ELSE LongSpan(data.allow_ports_str, 30)
             [] OTHER -> data[k]]

(* The overview: data goes to the page that asked, the charts go into the  *)
(* elements that are in the document now.  DrawProxyChart throws when the  *)
(* count is undefined, DrawTrafficChart when there is no element: the      *)
(* catch shows a warning.                                                  *)
GotOverview(r) ==
    LET json == req[r].info  count == ProxyTypeCount(json) IN
    /\ req[r].page = "/" /\ req[r].stage = "answered"
    /\ over' = [own |-> req[r].mounted, data |-> IF req[r].mounted THEN OverviewData(json) ELSE over.data,
                traffic |-> IF page = "/"
                            THEN DrawTrafficChart(json.total_traffic_in, json.total_traffic_out)
                            ELSE over.traffic,
                pie |-> IF page = "/" /\ count # Null THEN DrawProxyChart(count) ELSE over.pie]
    /\ loaded' = (loaded \/ req[r].mounted)
    /\ req' = [req EXCEPT ![r] = NoReq]
    /\ UNCHANGED <<metricVars, cfg, total, page, rows, quiet>>

OnePort(json, p) == json.ports["vhost_http_port"]

VhostPort(json, p) == json.ports[IF p = "http" THEN "vhost_http_port" ELSE "vhost_https_port"]

(* ProxiesHTTP.vue, ProxiesHTTPS.vue: no port, no list; otherwise the list *)
(* is asked for, and port and host are kept for its rows.                  *)
GotVhostInfo(r) ==
    LET json == req[r].info  port == VhostPort(json, req[r].page) IN
    /\ req[r].page \in {"http", "https"} /\ req[r].step = "info" /\ req[r].stage = "answered"
    /\ IF port = 0
       THEN /\ loaded' = TRUE
            /\ req' = [req EXCEPT ![r] = NoReq]
       ELSE /\ req' = [req EXCEPT ![r] = [@ EXCEPT !.step = "list", !.stage = "sent",
                         !.info = Null, !.port = port, !.host = json.subdomain_host]]
            /\ UNCHANGED loaded
    /\ UNCHANGED <<metricVars, cfg, total, page, rows, over, quiet>>

(* The row that a page makes of an element of the answer. *)
RowOf(q, proxyStats) ==
    CASE q.page = "tcp" -> TCPProxy(proxyStats)
      [] q.page = "udp" -> UDPProxy(proxyStats)
      [] q.page = "http" -> HTTPProxy(proxyStats, q.port, q.host)
      [] q.page = "https" -> HTTPSProxy(proxyStats, q.port, q.host)
      [] q.page = "stcp" -> STCPProxy(proxyStats)
      [] q.page = "sudp" -> SUDPProxy(proxyStats)

GotList(r) ==
    LET q == req[r] IN
    /\ q.step = "list" /\ q.stage = "answered"
    /\ rows' = rows \cup {RowOf(q, s) : s \in q.list}
    /\ loaded' = TRUE
    /\ req' = [req EXCEPT ![r] = NoReq]
    /\ UNCHANGED <<metricVars, cfg, total, page, over, quiet>>

RejectAlive(r) ==
    /\ req[r] # NoReq /\ req[r].stage # "lost"
    /\ req' = [req EXCEPT ![r] = NoReq]
    /\ UNCHANGED <<metricVars, cfg, total, page, loaded, rows, over, quiet>>

(* The connection fails.  Only the overview has a catch, for its message.  *)
Reject(r) ==
    /\ req[r] # NoReq
    /\ req' = [req EXCEPT ![r] = NoReq]
    /\ UNCHANGED <<metricVars, cfg, total, page, loaded, rows, over, quiet>>

-----------------------------------------------------------------------------
Handle(r) ==
    \/ APIServerInfo(r) \/ GetProxiesByType(r) \/ APIProxyByType(r)
    \/ \E n \in Names : GetByName(r, n)

Receive(r) == GotOverview(r) \/ GotVhostInfo(r) \/ GotList(r)

Next ==
    \/ Metrics
    \/ \E n \in Totals : Traffic(n)
    \/ \E c \in Configs : Restart(c)
    \/ \E r \in Slot : Handle(r) \/ Receive(r) \/ Reject(r)
    \/ \E p \in Page, r \in Slot : Visit(p, r)

(* A handler ends, an answer arrives, and the browser notices a connection *)
(* that the restart of frps cut.                                           *)
Progress(r) == Handle(r) \/ Receive(r) \/ (req[r].stage = "lost" /\ Reject(r))

FairProgress(r) == WF_vars(Progress(r))

Fairness == \A r \in Slot : FairProgress(r)

Spec == Init /\ [][Next]_vars /\ Fairness

(* The guards of Progress, and that a request whose guard holds can make a *)
(* step: the step changes the request.                                     *)
Ready(r) ==
    LET q == req[r] IN
    \/ q.step \in {"info", "list"} /\ q.stage = "sent"
    \/ q.stage = "half" /\ q.snap \subseteq Names
    \/ q.page \in {"/", "http", "https"} /\ q.step = "info" /\ q.stage = "answered"
    \/ q.step = "list" /\ q.stage = "answered"
    \/ q.stage = "lost"

GuardsEnable == \A r \in Slot : Ready(r) => ENABLED <<Progress(r)>>_vars

-----------------------------------------------------------------------------
TheRow(name) == CHOOSE row \in rows : row.name = name

(* What the user should see of a registered proxy on the page of its type. *)
Describes(row, r) ==
    LET conf == Conf[r]
        line == ProxyViewExpand(row, page)
        port == IF page = "http" THEN cfg.ports["vhost_http_port"]
                ELSE cfg.ports["vhost_https_port"]
    IN  /\ ProxyView(row).Status = <<"online", "success">>
        /\ line.Type = TypeOf[r]
        /\ line.Encryption = conf.use_encryption
        /\ page \in {"tcp", "udp"} =>
              line.Addr = <<":", conf.remote_port>> /\ ProxyView(row).Port = conf.remote_port
        /\ page \in {"http", "https"} =>
              /\ line.Domains = conf.custom_domains
              /\ ProxyView(row).Port = port
              /\ conf.subdomain # <<>> =>
                    line.SubDomain = conf.subdomain \o <<".">> \o cfg.subdomain_host
        /\ page = "http" => line.locations = conf.locations
                              /\ line.HostRewrite = conf.host_header_rewrite

(* A list page that is loaded, over a frps that did not change meanwhile,  *)
(* has one row for each name with statistics of its type; a registered     *)
(* proxy of the type is described by its row, and a name that is not       *)
(* registered is shown as offline.  Without a vhost port the pages of http *)
(* and https stay empty.                                                   *)
SettledTable ==
    (loaded /\ quiet /\ page \in ListPage) =>
       IF \/ page = "http" /\ cfg.ports["vhost_http_port"] = 0
          \/ page = "https" /\ cfg.ports["vhost_https_port"] = 0
       THEN rows = {}
       ELSE /\ {row.name : row \in rows} = {n \in DOMAIN stats : stats[n].type = page}
            /\ Cardinality(rows) = Cardinality({row.name : row \in rows})
            /\ \A row \in rows :
                 IF \E r \in Registered : NameOf[r] = row.name
                 THEN \A r \in Registered :
                        (NameOf[r] = row.name /\ TypeOf[r] = page) => Describes(row, r)
                 ELSE ProxyView(row).Status = <<"offline", "danger">>

Least(a, b) == IF a < b THEN a ELSE b

(* A text item shows its text up to 30 characters, unless it has just 30.  *)
ShowsText(form, k, chars) == chars # 30 => (k \in DOMAIN form /\ form[k] = Least(chars, 30))

(* An overview that is loaded, over a frps that did not change meanwhile,  *)
(* shows every port that is in use and no other, and the texts that are    *)
(* set; the pie of traffic shows today's, unless an earlier overview drew  *)
(* it over.                                                                *)
SettledOverview ==
    (loaded /\ quiet /\ page = "/") =>
       LET form == OverviewForm(over.data) IN
       /\ \A k \in PortKey : IF cfg.ports[k] = 0 THEN k \notin DOMAIN form
                             ELSE k \in DOMAIN form /\ form[k] = cfg.ports[k]
       /\ cfg.subdomain_host # <<>> => ShowsText(form, "subdomain_host", cfg.subdomain_chars)
       /\ cfg.allow_ports_str # 0 => ShowsText(form, "allow_ports_str", cfg.allow_ports_str)
       /\ "tls_only" \in DOMAIN form <=> cfg.tls_only
       /\ over.own => {<<s.name, s.value>> : s \in Range(over.traffic)}
                        = {<<"Traffic In", total[1]>>, <<"Traffic Out", total[2]>>}

(* Every request of a page comes to an end, also when frps restarts while  *)
(* it handles it, and the two requests of an http page one after the other.*)
RequestEnds == \A r \in Slot : (req[r] # NoReq) ~> (req[r] = NoReq)

(* "Proxy Counts" of an overview that is loaded, over a frps that did not  *)
(* change meanwhile, is the number of proxies that frps counts.            *)
OverviewShowsProxies ==
    (loaded /\ quiet /\ page = "/") => over.data.proxy_counts = SumFunction(counts)
=============================================================================
