----------------------------- MODULE MCDatapath -----------------------------
EXTENDS Datapath

\* Two phones (p1, p2) behind gateway g, a host on the upstream LAN (lan), two
\* public resolvers (r1, r2) and a server (s).
At(a, port) == [addr |-> a, port |-> port]
Udp(c, d, b) == [proto |-> "udp", src |-> At(c, 5000), dst |-> d, body |-> b]
Tcp(c, d, b) == [proto |-> "tcp", src |-> At(c, 5000), dst |-> d, body |-> b]

MCSubnet == {"p1", "p2", "g"}
MCPrivate == MCSubnet \cup {"lan"}
MCEndpoints == {At(a, 5000) : a \in {"p1", "p2", "lan"}}
MCDests == {At(a, 53) : a \in {"g", "r1", "r2"}} \cup {At("s", 443), At("g", 1053), At("g", 16000)}
MCKeys == {"tcp", "udp"} \X MCEndpoints

Default == [tcp |-> "proxy", dns |-> "proxy", udp |-> "ntp_direct",
            blockQuic |-> TRUE, bypassLan |-> TRUE, upstream |-> "none"]

\* p1 asks a public resolver, opens a connection and tries QUIC; p2 asks the resolver
\* DHCP gave it, the gateway; a LAN host asks the proxy's port itself.
Mixed == {Udp("p1", At("r1", 53), "q1"),
          Tcp("p1", At("s", 443), "c1"),
          Udp("p1", At("s", 443), "u1"),
          Udp("p2", At("g", 53), "q2"),
          Udp("lan", At("g", 1053), "q3"),
          [proto |-> "other", src |-> At("p1", 5000), dst |-> At("r1", 53), body |-> "q1"]}

\* One socket asks two resolvers.
TwoResolvers == {Udp("p1", At("r1", 53), "q1"), Udp("p1", At("r2", 53), "q2")}
=============================================================================
