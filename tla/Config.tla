------------------------------- MODULE Config -------------------------------
(***************************************************************************)
(* From the arguments of `hproxy up` to the configuration it runs with:     *)
(* ProxyConfig::from_str and the validations (src/src/config.rs), the       *)
(* arguments' assembly (src/src/main.rs:142-210), the connector             *)
(* (src/src/proxy.rs:79-86) and the probe (src/src/app.rs:473-500).         *)
(*                                                                         *)
(* A proxy URI is a record [scheme, host, port, query]: host is "" when it  *)
(* is missing, port NoPort, and query the sequence of its key and value     *)
(* pairs.  An argument that is no URI has the scheme "" and its words, by    *)
(* their lower case, as host.  A name or a password is its length.  An       *)
(* Option or a Result is a set with at most one element.                    *)
(***************************************************************************)
EXTENDS Integers, Sequences

NoPort == -1

HttpSchemes  == {"http", "http-proxy"}
HttpsSchemes == {"https", "https-proxy"}
ProxySchemes == {"socks5"} \cup HttpSchemes \cup HttpsSchemes
KindOf(scheme) ==
    IF scheme \in HttpSchemes THEN "http" ELSE IF scheme \in HttpsSchemes THEN "https" ELSE scheme

\* port_or_known_default: only http and https are known to the URL library
KnownDefault == [http |-> 80, https |-> 443]
PortOf(uri) == IF uri.port = NoPort /\ uri.scheme \in DOMAIN KnownDefault
               THEN KnownDefault[uri.scheme] ELSE uri.port

TlsKeys  == {"tls_skip_verify", "tls-insecure", "insecure"}
YesWords == {"1", "true", "yes"}
NoWords  == {"0", "false", "no"}

\* parse_tls_skip_verify, after the first n pairs of the query: every value has to
\* be a boolean, the last one counts.
SkipVerify(query) ==
    LET Enabled[n \in 0..Len(query)] ==
          IF n = 0 THEN {FALSE}
          ELSE IF query[n].key \notin TlsKeys \/ Enabled[n - 1] = {} THEN Enabled[n - 1]
          ELSE IF query[n].value \in YesWords THEN {TRUE}
          ELSE IF query[n].value \in NoWords THEN {FALSE} ELSE {}
    IN Enabled[Len(query)]

\* The whole argument has to be the word: direct:// is a URI of an unsupported scheme.
DirectWord  == [scheme |-> "", host |-> "direct", port |-> NoPort, query |-> <<>>]
DirectProxy == [kind |-> "direct", endpoint |-> {}, tls_skip_verify |-> FALSE]

\* ProxyConfig::validate and HostEndpoint::validate
ValidProxy(proxy) ==
    /\ proxy.kind = "direct" => proxy.endpoint = {}
    /\ proxy.kind # "direct" => \E e \in proxy.endpoint : e.host # "" /\ e.port # 0
    /\ proxy.kind # "https" => ~proxy.tls_skip_verify

\* ProxyConfig::from_str
FromStr(uri) ==
    IF uri = DirectWord THEN {DirectProxy}
    ELSE IF uri.scheme \notin ProxySchemes \/ uri.host = "" \/ PortOf(uri) = NoPort THEN {}
    ELSE {proxy \in {[kind |-> KindOf(uri.scheme),
                      endpoint |-> {[host |-> uri.host, port |-> PortOf(uri)]},
                      tls_skip_verify |-> skip] : skip \in SkipVerify(uri.query)} :
             ValidProxy(proxy)}

\* apply_tls_flag
WithFlag(proxy, insecure) ==
    [proxy EXCEPT !.tls_skip_verify = proxy.tls_skip_verify \/ insecure]

\* The AppConfig main builds
Assembled(args, proxy) ==
    [hotspot |-> [ssid |-> args.ssid, password |-> args.password],
     proxy |-> proxy,
     preflight |-> [enabled |-> ~args.skip /\ proxy.kind # "direct",
                    port |-> args.probePort, timeout |-> args.probeTimeout],
     dns |-> [gateway |-> args.gateway, port |-> args.dnsPort, timeout |-> args.dnsTimeout],
     ports |-> [tcp |-> args.tcp, dns |-> args.dnsProxy]]

ValidHotspot(h)   == h.ssid \in 1..32 /\ h.password \in 8..63
ValidPreflight(p) == p.enabled => p.port # 0 /\ p.timeout # 0
ValidDns(d)       == d.port # 0 /\ d.timeout # 0
ValidPorts(p)     == p.tcp # 0 /\ p.dns # 0 /\ p.tcp # p.dns

\* AppConfig::validate
Valid(config) ==
    /\ ValidHotspot(config.hotspot)
    /\ ValidProxy(config.proxy)
    /\ ValidPreflight(config.preflight)
    /\ ValidDns(config.dns)
    /\ ValidPorts(config.ports)

\* Mutant of UpConfig: the URI's own validation is taken for enough.
UpConfigOnce(args) ==
    {c \in {Assembled(args, WithFlag(proxy, args.insecure)) : proxy \in FromStr(args.outbound)} :
        Valid([c EXCEPT !.proxy = DirectProxy])}

\* The configuration up goes on with, if it accepts its arguments
UpConfig(args) ==
    {c \in {Assembled(args, WithFlag(proxy, args.insecure)) : proxy \in FromStr(args.outbound)} :
        Valid(c)}

\* The TCP ports that up binds one after the other
TcpPorts(config) == <<config.ports.tcp>> \o IF config.dns.gateway THEN <<80, 443>> ELSE <<>>

\* connector_from_config: every kind but direct needs its endpoint
HasConnector(proxy) == proxy.kind = "direct" \/ proxy.endpoint # {}

\* The proxy whose configuration doctor reports as ok: it validates no more.
DoctorProxy(outbound, insecure) ==
    {p \in {WithFlag(proxy, insecure) : proxy \in FromStr(outbound)} :
        ValidProxy(p) /\ HasConnector(p)}
=============================================================================
