--------------------------- MODULE MCFrpsDashboard ---------------------------
(* Two registrations of one name with two types, or one of another type that *)
(* has a page; the first one may be closed late.                             *)
EXTENDS FrpsDashboard

MCReg == 1..5
MCNameOf == <<"a", "a", "a", "b", "a">>
MCTypeOf == <<"tcp", "http", "udp", "https", "stcp">>
MCWorkloads == {{1, 2}, {3}, {4}, {5}}
MCLateClosed == {1}

MCConf == <<
    [use_encryption |-> TRUE, use_compression |-> FALSE, remote_port |-> 6000],
    [use_encryption |-> FALSE, use_compression |-> FALSE, custom_domains |-> <<>>,
     subdomain |-> <<"web">>, locations |-> <<"/">>, host_header_rewrite |-> <<"h">>],
    [use_encryption |-> FALSE, use_compression |-> FALSE, remote_port |-> 6001],
    [use_encryption |-> TRUE, use_compression |-> FALSE, custom_domains |-> <<"d">>,
     subdomain |-> <<>>],
    [use_encryption |-> TRUE, use_compression |-> FALSE]>>

Ports(http, https, kcp) ==
    [k \in PortKey |-> CASE k = "vhost_http_port" -> http [] k = "vhost_https_port" -> https
                         [] k = "kcp_bind_port" -> kcp [] OTHER -> 0]
MCConfigs == {
    [ports |-> Ports(80, 443, 0), subdomain_host |-> <<"frp", "com">>, subdomain_chars |-> 7,
     max_ports_per_client |-> 0, allow_ports_str |-> 31, tls_only |-> TRUE],
    [ports |-> Ports(8080, 0, 7000), subdomain_host |-> <<>>, subdomain_chars |-> 0,
     max_ports_per_client |-> 5, allow_ports_str |-> 0, tls_only |-> FALSE]}
MCTotals == {<<0, 0>>, <<1, 2>>}
=============================================================================
