----------------------------- MODULE Redirector -----------------------------
(***************************************************************************)
(* The redirector's decision on one packet and its two rewrites             *)
(* (src/src/redirector.rs).  A packet has its protocol, its two endpoints   *)
(* (address and port) and a body the redirector never looks into.  An       *)
(* address is a member of a small set; what the code asks of its bits       *)
(* (subnet, multicast, private) is membership in a constant set.            *)
(***************************************************************************)
EXTENDS Integers

CONSTANTS Subnet,          \* hotspot.subnet: addresses of the hotspot clients and the gateway
          Gateway,         \* hotspot.gateway_ip
          Broadcast,       \* multicast addresses and 255.255.255.255
          PrivateLan,      \* what is_private_lan holds of
          TransparentTcp,  \* ports.transparent_tcp
          DnsProxyPort     \* ports.dns_proxy

ASSUME PortsDiffer == TransparentTcp # DnsProxyPort

Send           == [act |-> "send", port |-> 0]
Drop           == [act |-> "drop", port |-> 0]
RedirectTo(pt) == [act |-> "redirect", port |-> pt]

ProxySocket == [addr |-> Gateway, port |-> DnsProxyPort]

\* Non-first fragments and other protocols have no ports to decide on.
Parsed(p) == p.proto \in {"tcp", "udp"}

ByPolicy(choice, port) ==
    IF choice = "proxy" THEN RedirectTo(port) ELSE IF choice = "direct" THEN Send ELSE Drop

ClassifyUdp(policy, p) ==
    IF policy.blockQuic /\ p.dst.port = 443 THEN Drop
    ELSE IF policy.udp = "ntp_direct" /\ p.dst.port = 123 THEN Send ELSE Drop

\* Destinations a client reaches without the proxy, whatever the protocol.
Exempt(policy, p) == \/ p.dst.addr = Gateway
                     \/ p.dst.addr \in Broadcast
                     \/ p.dst.addr = policy.upstream
                     \/ policy.bypassLan /\ p.dst.addr \in PrivateLan

ClassifyTransport(policy, p) ==
    IF p.proto = "tcp" THEN ByPolicy(policy.tcp, TransparentTcp) ELSE ClassifyUdp(policy, p)

\* Mutant of Classify: the exemptions are tested before the DNS port.
ClassifyExemptFirst(policy, p) ==
    IF p.src.addr \notin Subnet \/ Exempt(policy, p) THEN Send
    ELSE IF p.dst.port = 53 THEN ByPolicy(policy.dns, DnsProxyPort)
    ELSE ClassifyTransport(policy, p)

\* classify_packet: DNS is decided before the exemptions, over TCP as over UDP.
Classify(policy, p) ==
    IF p.src.addr \notin Subnet THEN Send
    ELSE IF p.dst.port = 53 THEN ByPolicy(policy.dns, DnsProxyPort)
    ELSE IF Exempt(policy, p) THEN Send
    ELSE ClassifyTransport(policy, p)

Decision(policy, p) == IF Parsed(p) THEN Classify(policy, p) ELSE Send

RewriteDestination(p, port) == [p EXCEPT !.dst = [addr |-> Gateway, port |-> port]]
RewriteSource(p, origin)    == [p EXCEPT !.src = origin]

\* The DNS proxy's replies to hotspot clients, the only packets whose source is restored.
IsDnsReply(p) == p.proto = "udp" /\ p.src = ProxySocket /\ p.dst.addr \in Subnet
=============================================================================
