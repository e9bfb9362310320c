--------------------------- MODULE PureFunctions ---------------------------
(***************************************************************************)
(* What the program's parsers and builders compute, stated of inputs whose  *)
(* meaning is known because they are built from it: a packet from its       *)
(* fields, a query from its question, a ClientHello from its extensions, a  *)
(* configuration from its arguments.  Each step calls one function with one *)
(* input; the properties compare the result with the input's meaning.       *)
(***************************************************************************)
EXTENDS Ipv4, Discovery, DnsMessage, ServerName, Config, FiniteSets

CONSTANTS Packets,     \* [bytes, form, origin]: origin is an endpoint to restore
          Hosts,       \* [calls, adapters, powershell]
          Queries,     \* [bytes, labels, question]: question is {} or {[qtype, end]}
          Hellos,      \* [form, bytes, name, extensions, entries, of]
          Requests,    \* [lines, utf8, host]: the head's lines, and whether it is text
          UpArgs,
          GatewayIp, ProxyPort

Byte    == 0..255
MaxPort == 65535
Ports   == 0..MaxPort

(***************************************************************************)
(* The headers of a packet are there if it is of TCP or UDP and no later    *)
(* fragment, its total length counts its IP header, and all of it and of    *)
(* both headers is in the buffer.  It is whole if its total length counts   *)
(* the transport header too, short if not; other bytes may follow.  Every   *)
(* other buffer is refused.                                                 *)
(***************************************************************************)
IsPacket(b, words, proto, len) ==
    /\ words \in 5..15 /\ proto \in Protocols
    /\ 4 * words + MinLen[proto] <= Len(b) /\ len \in 4 * words..Len(b)
    /\ b[1] = 64 + words /\ b[10] = proto /\ U16(b, 2) = len
    /\ b[7] % 32 = 0 /\ b[8] = 0

Counted(words, proto, len) == 4 * words + MinLen[proto] <= len

PacketMeans(packet) ==
    LET b == packet.bytes
    IN /\ b \in Seq(Byte)
       /\ packet.origin \in [addr : Seq(Byte), port : Ports] /\ Len(packet.origin.addr) = 4
       /\ \/ /\ packet.form \in {"whole", "short"} /\ Len(b) >= 20
             /\ \E words \in 5..15, proto \in Protocols :
                   /\ IsPacket(b, words, proto, U16(b, 2))
                   /\ packet.form = "whole" <=> Counted(words, proto, U16(b, 2))
          \/ /\ packet.form = "refused"
             /\ \/ Len(b) < 20
                \/ \A words \in 5..15, proto \in Protocols : ~IsPacket(b, words, proto, U16(b, 2))

ASSUME PacketsAssumption ==
    /\ \A packet \in Packets : PacketMeans(packet)
    /\ ProxyPort \in Ports

\* What the URL library and clap hand over: strings, and numbers that fit their field.
ProxyUris == [scheme : STRING, host : STRING, port : Nat \cup {NoPort},
              query : Seq([key : STRING, value : STRING])]
ASSUME UpArgsAssumption ==
    UpArgs \subseteq [outbound : ProxyUris, insecure : BOOLEAN, skip : BOOLEAN,
                      ssid : Nat, password : Nat, probePort : Nat, probeTimeout : Nat,
                      gateway : BOOLEAN, tcp : Nat, dnsProxy : Nat, dnsPort : Nat, dnsTimeout : Nat]

\* What Windows reports.  An interface index belongs to one adapter.
Adapters == [index : Nat, ieee80211 : BOOLEAN, status : STRING, description : STRING,
             friendly : STRING, addrs : Seq([ip : Addresses, prefix : Nat])]
ASSUME HostsAssumption ==
    \A host \in Hosts :
        /\ host.calls \in Seq(STRING) /\ host.adapters \in Seq(Adapters) /\ host.powershell \in BOOLEAN
        /\ \A k, n \in DOMAIN host.adapters :
              host.adapters[k].index = host.adapters[n].index => k = n

(***************************************************************************)
(* A query's labels are the offsets at which the labels of its name start,  *)
(* as far as they are whole and not compressed; the last is where the name  *)
(* ends, or where it breaks off.  It asks one question if it announces one, *)
(* the name ends, and the type and the class IN follow.                     *)
(***************************************************************************)
LabelAt(b, o) ==
    o < Len(b) /\ At(b, o) # 0 /\ At(b, o) < 64 /\ o + 1 + At(b, o) <= Len(b)

LabelsOf(b, labels) ==
    /\ labels \in Seq(Nat) /\ labels # <<>> /\ labels[1] = 12
    /\ \A i \in 1..(Len(labels) - 1) :
          LabelAt(b, labels[i]) /\ labels[i + 1] = labels[i] + 1 + At(b, labels[i])

Asks(b, end) ==
    end + 5 <= Len(b) /\ U16(b, 4) = 1 /\ At(b, end) = 0 /\ U16(b, end + 3) = 1

QueryMeans(query) ==
    LET b   == query.bytes
        end == query.labels[Len(query.labels)]
    IN /\ b \in Seq(Byte) /\ LabelsOf(b, query.labels) /\ ~LabelAt(b, end)
       /\ query.question = IF Asks(b, end) THEN {[qtype |-> U16(b, end + 1), end |-> end + 5]} ELSE {}

ASSUME QueriesAssumption ==
    /\ \A query \in Queries : QueryMeans(query)
    /\ GatewayIp \in Seq(Byte) /\ Len(GatewayIp) = 4

(***************************************************************************)
(* A whole ClientHello stands in one record, with its vectors inside.  Its  *)
(* extensions are the offsets at which extensions of other types start and, *)
(* last, the one of type server_name, or where they end; likewise the       *)
(* entries of the server_name list, of which the last is the host_name.     *)
(***************************************************************************)
Fragment(b)  == Slice(b, 5, 5 + U16(b, 3))
Announced(h) == 4 + 65536 * At(h, 1) + U16(h, 2)   \* a handshake message's length

ExtensionAt(body, o, end) == o + 4 <= end /\ o + 4 + U16(body, o + 2) <= end
ExtensionsOf(body, extensions, start, end) ==
    /\ extensions \in Seq(Nat) /\ extensions # <<>> /\ extensions[1] = start
    /\ \A i \in 1..(Len(extensions) - 1) : LET o == extensions[i] IN
          ExtensionAt(body, o, end) /\ U16(body, o) # 0 /\ extensions[i + 1] = o + 4 + U16(body, o + 2)

EntryAt(list, o, end) == o + 3 <= end /\ o + 3 + U16(list, o + 1) <= end
EntriesOf(list, entries, end) ==
    /\ entries \in Seq(Nat) /\ entries # <<>> /\ entries[1] = 2
    /\ \A i \in 1..(Len(entries) - 1) : LET o == entries[i] IN
          EntryAt(list, o, end) /\ At(list, o) # 0 /\ entries[i + 1] = o + 3 + U16(list, o + 1)

ListSays(list, entries, name) ==
    IF list = <<>> THEN name = {}
    ELSE LET end == 2 + U16(list, 0)
             o   == entries[Len(entries)]
         IN
         /\ Len(list) >= 2 /\ end = Len(list) /\ EntriesOf(list, entries, end)
         /\ IF o = end THEN name = {}
            ELSE /\ EntryAt(list, o, end) /\ At(list, o) = 0
                 /\ name = {n \in {Slice(list, o + 3, o + 3 + U16(list, o + 1))} : Utf8(n)}

BodySays(body, hello) ==
    LET ciphers     == 39 + At(body, 38)
        compression == ciphers + 2 + U16(body, ciphers)
        block       == compression + 1 + At(body, compression)
        end         == block + 2 + U16(body, block)
        o           == hello.extensions[Len(hello.extensions)]
    IN /\ Len(body) >= 42 /\ At(body, 0) = 1 /\ Announced(body) = Len(body)
       /\ ciphers + 2 <= Len(body) /\ compression + 1 <= Len(body) /\ block + 2 <= Len(body)
       /\ end <= Len(body) /\ ExtensionsOf(body, hello.extensions, block + 2, end)
       /\ IF o = end THEN hello.name = {}
          ELSE /\ ExtensionAt(body, o, end) /\ U16(body, o) = 0
               /\ ListSays(Slice(body, o + 4, o + 4 + U16(body, o + 2)), hello.entries, hello.name)

WholeMeans(hello) ==
    LET b == hello.bytes IN
    /\ Len(b) >= 5 /\ At(b, 0) = 22 /\ U16(b, 3) \in RecordSizes /\ 5 + U16(b, 3) <= Len(b)
    /\ BodySays(Fragment(b), hello)

\* Of a handshake message, the record is cut short, or holds only the first part.
CutMeans(hello) ==
    LET b == hello.bytes IN
    /\ hello.of \in Seq(Byte) /\ Len(hello.of) >= 4 /\ Announced(hello.of) = Len(hello.of)
    /\ \/ Len(b) < 5
       \/ U16(b, 3) = Len(hello.of) /\ Len(b) < 5 + U16(b, 3)
       \/ /\ U16(b, 3) < Len(hello.of) /\ 5 + U16(b, 3) <= Len(b)
          /\ Fragment(b) = Slice(hello.of, 0, U16(b, 3))

HelloMeans(hello) ==
    /\ hello.bytes \in Seq(Byte) /\ hello.form \in {"whole", "cut", "corrupt"}
    /\ hello.form = "whole" => WholeMeans(hello)
    /\ hello.form = "cut" => CutMeans(hello)

ASSUME HellosAssumption == \A hello \in Hellos : HelloMeans(hello)

(***************************************************************************)
(* A request names host if the first Host line of its head says so: the     *)
(* name, or the name and a port, or an address in brackets and what stands  *)
(* behind them.                                                             *)
(***************************************************************************)
Chars(text) == {text[i] : i \in DOMAIN text}

SaysHost(value, host) ==
    IF Head(value) # "[" THEN
       /\ ":" \notin Chars(host)
       /\ \/ value = host
          \/ /\ Len(host) < Len(value)
             /\ SubSeq(value, 1, Len(host) + 1) = host \o <<":">>
    ELSE IF "]" \notin Chars(value) THEN host = value
    ELSE /\ "]" \notin Chars(host)
         /\ Len(host) + 2 <= Len(value)
         /\ SubSeq(value, 1, Len(host) + 2) = <<"[">> \o host \o <<"]">>

RequestMeans(request) ==
    LET hosts == {i \in DOMAIN request.lines : request.lines[i].name = "host"}
    IN IF ~request.utf8 \/ hosts = {} THEN request.host = {}
       ELSE \E first \in hosts :
               LET value == request.lines[first].value IN
               /\ \A i \in hosts : first <= i
               /\ IF value = <<>> THEN request.host = {}
                  ELSE \E host \in request.host : request.host = {host} /\ SaysHost(value, host)

ASSUME RequestsAssumption ==
    /\ Requests \subseteq [lines : Seq([name : STRING, value : Seq(STRING)]), utf8 : BOOLEAN,
                           host : SUBSET Seq(STRING)]
    /\ \A request \in Requests : RequestMeans(request)

VARIABLE input

Redirector == INSTANCE Redirector WITH
    Gateway <- GatewayIp, TransparentTcp <- ProxyPort, DnsProxyPort <- ProxyPort + 1,
    Subnet <- {}, Broadcast <- {}, PrivateLan <- {}

Init == input = [kind |-> "none"]

Call(kind, inputs) ==
    /\ input.kind = "none"
    /\ \E i \in inputs : input' = [kind |-> kind, in |-> i]

RewritePacket == Call("packet", Packets)
DiscoverHost  == Call("host", Hosts)
AnswerQuery   == Call("query", Queries)
ReadHello     == Call("hello", Hellos)
ReadRequest   == Call("request", Requests)
Configure     == Call("args", UpArgs)

Next == \/ RewritePacket \/ DiscoverHost \/ AnswerQuery
        \/ ReadHello \/ ReadRequest \/ Configure

Spec == Init /\ [][Next]_input
-----------------------------------------------------------------------------
\* A receiver's test of a checksum: the one's complement sum is zero.
ByteSum(b) ==
    LET sum[i \in 0..Len(b)] ==
            IF i = 0 THEN 0 ELSE sum[i - 1] + (IF i % 2 = 1 THEN 256 * b[i] ELSE b[i])
    IN sum[Len(b)]
Verifies(b) == ByteSum(b) % 65535 = 0

HeaderVerifies(pk) == Verifies(Slice(pk, 0, HeaderLen(pk)))
DatagramVerifies(pk) ==
    /\ Verifies(Pseudo(Slice(pk, 12, 20), Protocol(pk), Slice(pk, HeaderLen(pk), TotalLen(pk))))
    /\ Protocol(pk) = 17 => U16(pk, HeaderLen(pk) + 6) # 0
ChecksumsVerify(pk, whole) == HeaderVerifies(pk) /\ (whole => DatagramVerifies(pk))

\* q is pk but for the four bytes of an address, a port and the two checksums.
OnlyRewritten(pk, q, addr, port) ==
    /\ Len(q) = Len(pk)
    /\ \A i \in DOMAIN pk \ ({11, 12} \cup addr + 1..addr + 4 \cup port + 1..port + 2
                               \cup {k + HeaderLen(pk) + ChecksumAt[Protocol(pk)] : k \in 1..2}) :
          q[i] = pk[i]

(***************************************************************************)
(* RewriteIsExact: of a TCP or UDP packet whose headers are in the buffer,   *)
(* and which is no later fragment, a rewrite changes the endpoint that the  *)
(* redirector's decision names, and otherwise only the checksums, which the *)
(* receiver accepts; UDP's is never 0, which would say there is none.       *)
(* Every other buffer is refused, by both.  The test for the transport      *)
(* header (redirector.rs:457) looks at the buffer and not at the total      *)
(* length: of a packet that ends before or within that header a rewrite     *)
(* changes the endpoint and the checksum in the bytes behind the packet     *)
(* too, and of its checksums the IP header's alone is claimed to hold.      *)
(* (src/src/redirector.rs:385-560)                                          *)
(***************************************************************************)
RewriteIsExact ==
    input.kind = "packet" =>
        LET pk    == input.in.bytes
            to    == RewrittenDestination(pk, GatewayIp, ProxyPort)
            from  == RewrittenSource(pk, input.in.origin.addr, input.in.origin.port)
            whole == input.in.form = "whole"
        IN IF input.in.form = "refused" THEN to = {} /\ from = {} /\ ~Parses(pk)
           ELSE /\ \E q \in to :
                      /\ Meta(q) = Redirector!RewriteDestination(Meta(pk), ProxyPort)
                      /\ OnlyRewritten(pk, q, 16, HeaderLen(pk) + 2)
                      /\ ChecksumsVerify(q, whole)
                /\ \E q \in from :
                      /\ Meta(q) = Redirector!RewriteSource(Meta(pk), input.in.origin)
                      /\ OnlyRewritten(pk, q, 12, HeaderLen(pk))
                      /\ ChecksumsVerify(q, whole)

\* The two discoveries have the same to choose from, and no tie to break.
Comparable(adapters) ==
    \A k \in DOMAIN adapters : LET a == adapters[k] IN
        /\ a.description = "Wi-Fi Direct" /\ a.ieee80211 /\ a.status = "up"
        /\ a.addrs # <<>>
        /\ \A i, j \in DOMAIN a.addrs : /\ Usable(a.addrs[i])
                                        /\ a.addrs[i].prefix = a.addrs[j].prefix => i = j

(***************************************************************************)
(* DiscoveredSubnet: what the redirector is given is an address of an       *)
(* active Wi-Fi Direct adapter, never link-local, in a subnet of its        *)
(* prefix, and the three computations of that subnet agree: the inbound     *)
(* filter captures exactly the sources that the packet test accepts.  A     *)
(* usable hotspot address is not missed while GetAdaptersAddresses answers, *)
(* and the script finds what the native discovery finds wherever the two    *)
(* have the same to choose from.                                            *)
(* (src/src/hotspot.rs:31-44, 191-367, 812-820, redirector.rs:793-803)      *)
(***************************************************************************)
DiscoveredSubnet ==
    input.kind = "host" =>
        LET host     == input.in
            found    == Discovered(host.calls, host.adapters, host.powershell)
            answered == \E i \in DOMAIN host.calls :
                           /\ host.calls[i] = "success"
                           /\ \A j \in 1..(i - 1) : host.calls[j] = "overflow"
            adapters == {host.adapters[k] : k \in DOMAIN host.adapters}
        IN /\ \A r \in found :
                 /\ \E a \in adapters :
                       /\ a.index = r.index /\ a.status # "down"
                       /\ "none" # a.description \/ "none" # a.friendly
                       /\ \E i \in DOMAIN a.addrs : a.addrs[i] = [ip |-> r.gateway, prefix |-> r.subnet.prefix]
                 /\ r.gateway \notin LinkLocal
                 /\ LET clients == {ip \in Addresses : Contains(r.subnet, ip)}
                    IN /\ r.gateway \in clients
                       /\ clients = Bounds(r.subnet).low..Bounds(r.subnet).high
                       /\ Cardinality(clients) = Pow2[HostBits(r.subnet.prefix)]
           /\ found = {} /\ answered =>
                 \A a \in adapters : IsHotspot(a) => \A i \in DOMAIN a.addrs : ~Usable(a.addrs[i])
           /\ answered /\ Comparable(host.adapters) => found = Script(host.adapters)

(***************************************************************************)
(* GatewayAnswers: a query is answered exactly when it asks one question of *)
(* class IN and is whole as far as the question goes, wherever it is cut.   *)
(* The answer repeats the id and the question, which reads back the same,   *)
(* announces the records it carries, and ends with the gateway's address in *)
(* a record whose lengths add up if an address was asked for.               *)
(* (src/src/dns.rs:118-188)                                                 *)
(***************************************************************************)
GatewayAnswers ==
    input.kind = "query" =>
        LET query   == input.in.bytes
            answers == GatewayResponse(query, GatewayIp)
        IN IF input.in.question = {} THEN answers = {}
           ELSE \E x \in answers : \E q \in input.in.question :
                   LET records == IF q.qtype = 1 THEN 1 ELSE 0 IN
                   /\ Slice(x, 0, 2) = Slice(query, 0, 2)
                   /\ U16(x, 2) \div 32768 = 1
                   /\ <<U16(x, 4), U16(x, 6), U16(x, 8), U16(x, 10)>> = <<1, records, 0, 0>>
                   /\ Slice(x, 12, q.end) = Slice(query, 12, q.end)
                   /\ SingleQuestion(x) = input.in.question
                   /\ Len(x) = q.end + 16 * records
                   /\ records = 1 => /\ U16(x, q.end) = 49152 + 12
                                     /\ Slice(x, q.end + 2, q.end + 4) = <<0, 1>>
                                     /\ U16(x, q.end + 10) = Len(GatewayIp)
                                     /\ Slice(x, q.end + 12, Len(x)) = GatewayIp

(***************************************************************************)
(* ServerNamed: of a whole ClientHello in one record the name read is the   *)
(* first host_name of its first server_name extension, wherever the         *)
(* vectors before it put it; a hello cut short anywhere, or spread over two *)
(* records, names nothing.  Whatever byte is wrong, no read leaves the      *)
(* record, and a name that is read stands in it.                            *)
(* (src/src/proxy.rs:470-583)                                               *)
(***************************************************************************)
ServerNamed ==
    input.kind = "hello" =>
        LET hello == input.in
            names == TlsServerName(hello.bytes)
        IN CASE hello.form = "whole"   -> names = hello.name
             [] hello.form = "cut"     -> names = {}
             [] hello.form = "corrupt" ->
                  \A n \in names : \E i \in 0..(Len(hello.bytes) - Len(n)) :
                      Slice(hello.bytes, i, i + Len(n)) = n

(***************************************************************************)
(* HostNamed: the destination of a request is the name in its first Host    *)
(* header, without the port and without the brackets of an IPv6 address.    *)
(* Only a request without one, with an empty one, or whose head is not text *)
(* in some line, also in one behind the Host header, is refused.            *)
(* (src/src/proxy.rs:384-386, 443-468)                                      *)
(***************************************************************************)
HostNamed ==
    input.kind = "request" => HttpHost(input.in.lines, input.in.utf8) = input.in.host

AllDiffer(ports) == \A i, j \in DOMAIN ports : i # j => ports[i] # ports[j]

\* What the arguments have to be, from what each is used for.
SoundProxy(uri, insecure) ==
    LET options == {i \in DOMAIN uri.query : uri.query[i].key \in TlsKeys}
        skips   == \/ insecure
                   \/ \E i \in options : /\ uri.query[i].value \in YesWords
                                         /\ \A j \in options : j <= i
    IN IF uri = DirectWord THEN ~insecure
       ELSE /\ uri.scheme \in {"socks5", "http", "http-proxy", "https", "https-proxy"}
            /\ uri.host # "" /\ uri.port # 0
            /\ uri.port = NoPort => uri.scheme \in {"http", "https"}
            /\ \A i \in options : uri.query[i].value \in YesWords \cup NoWords
            /\ skips => uri.scheme \in {"https", "https-proxy"}

SoundArgs(args) ==
    /\ args.ssid > 0 /\ args.ssid <= 32 /\ args.password >= 8 /\ args.password <= 63
    /\ 0 \notin {args.tcp, args.dnsProxy, args.dnsPort, args.dnsTimeout} /\ args.tcp # args.dnsProxy
    /\ SoundProxy(args.outbound, args.insecure)
    /\ args.skip \/ args.outbound = DirectWord \/ 0 \notin {args.probePort, args.probeTimeout}

(***************************************************************************)
(* AcceptedArguments: `up` accepts its arguments exactly when each of them  *)
(* is sound: then the connector can be built, certificates go unchecked     *)
(* only towards a TLS proxy and only on request, in the URI or by the flag  *)
(* that is applied after the URI was validated, and the probe is made       *)
(* unless it is switched off or there is no proxy.  doctor reports a proxy  *)
(* as ok that `up` would accept, and no other.  The ports of gateway mode   *)
(* are not looked at: with 80 or 443 as transparent TCP port, and only      *)
(* then, `up` accepts ports that it can never all bind.                     *)
(* (src/src/config.rs, main.rs:142-210, app.rs:41-80, 390-393)              *)
(***************************************************************************)
AcceptedArguments ==
    input.kind = "args" =>
        LET args == input.in
            uri  == args.outbound
        IN /\ UpConfig(args) # {} <=> SoundArgs(args)
           /\ \A c \in UpConfig(args) :
                 /\ HasConnector(c.proxy)
                 /\ c.proxy.kind = "direct" <=> uri = DirectWord
                 /\ c.proxy.tls_skip_verify =>
                       /\ c.proxy.kind = "https"
                       /\ args.insecure \/ \E i \in DOMAIN uri.query :
                            uri.query[i].key \in TlsKeys /\ uri.query[i].value \in YesWords
                 /\ args.insecure => c.proxy.tls_skip_verify
                 /\ c.preflight.enabled <=> ~args.skip /\ uri # DirectWord
                 /\ c.ports.tcp # c.ports.dns
                 /\ AllDiffer(TcpPorts(c)) <=> ~args.gateway \/ args.tcp \notin {80, 443}
           /\ DoctorProxy(uri, args.insecure) # {} <=> SoundProxy(uri, args.insecure)
=============================================================================
