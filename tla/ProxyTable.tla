------------------------------ MODULE ProxyTable ------------------------------
(***************************************************************************)
(* How the server describes a proxy in the answer of /api/proxy/{type}     *)
(* (getConfByType, getProxyStatsByType), how the dashboard turns that into *)
(* a row (web/frps utils/proxy.ts) and what it shows of a row in the table *)
(* and in its expanded line (ProxyView.vue, ProxyViewExpand.vue).          *)
(*                                                                         *)
(* A text is the sequence of its parts and the empty text is <<>>; lists   *)
(* of domains and locations are texts too.  Connections, traffic, times    *)
(* and versions go from the answer to the table as they are: left out.     *)
(***************************************************************************)
EXTENDS Integers, Sequences

CONSTANT Null    \* null, and the value of a key that an object does not have

-----------------------------------------------------------------------------
(* The answer of the server. *)

BaseFields == {"use_encryption", "use_compression"}
DomainFields == {"custom_domains", "subdomain"}

(* The fields that the output type of getConfByType has. *)
OutFields(type) ==
    CASE type \in {"tcp", "udp"} -> BaseFields \cup {"remote_port"}
      [] type = "http" -> BaseFields \cup DomainFields
                            \cup {"locations", "host_header_rewrite"}
      [] type = "https" -> BaseFields \cup DomainFields
      [] OTHER -> BaseFields

ZeroOf(field) ==
    IF field \in BaseFields THEN FALSE ELSE IF field = "remote_port" THEN 0 ELSE <<>>

(* The configuration goes through JSON into the output type of the entry's *)
(* type, which need not be its own: fields it lacks keep their zeros.      *)
OutConf(type, conf) ==
    [f \in OutFields(type) |-> IF f \in DOMAIN conf THEN conf[f] ELSE ZeroOf(f)]

ProxyStatsInfo(name, conf) ==
    [name |-> name, conf |-> conf, status |-> IF conf = Null THEN "offline" ELSE "online"]

-----------------------------------------------------------------------------
(* The rows. *)

BaseProxy(proxyStats) ==
    [name |-> proxyStats.name, type |-> "", status |-> proxyStats.status,
     encryption |-> proxyStats.conf # Null /\ proxyStats.conf.use_encryption,
     compression |-> proxyStats.conf # Null /\ proxyStats.conf.use_compression,
     addr |-> <<>>, port |-> 0, custom_domains |-> <<>>,
     host_header_rewrite |-> <<>>, locations |-> <<>>, subdomain |-> <<>>]

Addressed(row, conf) ==
    IF conf = Null THEN row
    ELSE [row EXCEPT !.addr = <<":", conf.remote_port>>, !.port = conf.remote_port]

TCPProxy(proxyStats) ==
    Addressed([BaseProxy(proxyStats) EXCEPT !.type = "tcp"], proxyStats.conf)

UDPProxy(proxyStats) ==
    Addressed([BaseProxy(proxyStats) EXCEPT !.type = "udp"], proxyStats.conf)

(* subdomain + '.' + subdomain_host, when there is one. *)
FullSubdomain(conf, subdomain_host) ==
    IF conf.subdomain = <<>> THEN <<>> ELSE conf.subdomain \o <<".">> \o subdomain_host

HTTPProxy(proxyStats, port, subdomain_host) ==
    LET conf == proxyStats.conf
        row == [BaseProxy(proxyStats) EXCEPT !.type = "http", !.port = port]
    IN  IF conf = Null THEN row
        ELSE [row EXCEPT !.custom_domains = conf.custom_domains,
                         !.host_header_rewrite = conf.host_header_rewrite,
                         !.locations = conf.locations,
                         !.subdomain = FullSubdomain(conf, subdomain_host)]

HTTPSProxy(proxyStats, port, subdomain_host) ==
    LET conf == proxyStats.conf
        row == [BaseProxy(proxyStats) EXCEPT !.type = "https", !.port = port]
    IN  IF conf = Null THEN row
        ELSE [row EXCEPT !.custom_domains = conf.custom_domains,
                         !.subdomain = FullSubdomain(conf, subdomain_host)]

STCPProxy(proxyStats) == [BaseProxy(proxyStats) EXCEPT !.type = "stcp"]

SUDPProxy(proxyStats) == [BaseProxy(proxyStats) EXCEPT !.type = "sudp"]

-----------------------------------------------------------------------------
(* What is shown. *)

(* The columns of ProxyView.vue. *)
ProxyView(row) ==
    [Name |-> row.name, Port |-> row.port,
     Status |-> <<row.status, IF row.status = "online" THEN "success" ELSE "danger">>]

(* The expanded line. *)
ProxyViewExpand(row, proxyType) ==
    IF proxyType \in {"http", "https"}
    THEN [Name |-> row.name, Type |-> row.type, Domains |-> row.custom_domains,
          SubDomain |-> row.subdomain, locations |-> row.locations,
          HostRewrite |-> row.host_header_rewrite,
          Encryption |-> row.encryption, Compression |-> row.compression]
    ELSE [Name |-> row.name, Type |-> row.type, Addr |-> row.addr,
          Encryption |-> row.encryption, Compression |-> row.compression]

(* A long text is cut after length characters and dots are added, a short  *)
(* one is shown as it is.                                                  *)
LongSpan(chars, length) ==
    IF chars > length THEN length ELSE IF chars < 30 THEN chars ELSE 0
=============================================================================
