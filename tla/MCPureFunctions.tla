-------------------------- MODULE MCPureFunctions --------------------------
(***************************************************************************)
(* Inputs for PureFunctions, each built from what it means.                 *)
(***************************************************************************)
EXTENDS PureFunctions

LOCAL Seqs == INSTANCE SequencesExt

MCGatewayIp == <<192, 168, 137, 1>>
MCProxyPort == 16000
Zeros(n)    == [i \in 1..n |-> 0]
Cuts(b, from, to) == {Slice(b, 0, n) : n \in from..to}
-----------------------------------------------------------------------------
(***************************************************************************)
(* Packets: both protocols, with and without IP options, payloads of even   *)
(* and odd length, bytes behind the packet, packets that end before or      *)
(* within their transport header with bytes behind them, and what is        *)
(* refused.                                                                 *)
(***************************************************************************)
Client == <<192, 168, 137, 77>>
Server == <<255, 254, 3, 4>>
Origin == [addr |-> <<8, 8, 8, 8>>, port |-> 53]

Transport(proto, payload) ==
    BE16(50001) \o BE16(443) \o
    (IF proto = 17 THEN BE16(8 + Len(payload)) \o <<170, 187>>
     ELSE <<1, 2, 3, 4, 5, 6, 7, 8, 80, 24, 255, 255, 170, 187, 0, 0>>) \o payload

Ip(version, words, fragment, proto, segment) ==
    <<16 * version + words, 0>> \o BE16(4 * words + Len(segment)) \o <<18, 52>> \o BE16(fragment)
      \o <<128, proto, 204, 221>> \o Client \o Server \o [i \in 1..(4 * words - 20) |-> 1] \o segment

Whole(bytes)   == [bytes |-> bytes, form |-> "whole", origin |-> Origin]
Short(bytes)   == [bytes |-> bytes, form |-> "short", origin |-> Origin]
Refused(bytes) == [bytes |-> bytes, form |-> "refused", origin |-> Origin]

\* The two bytes of payload with which the rewritten datagram sums up to zero
ZeroSum ==
    LET pk    == Ip(4, 5, 0, 17, Transport(17, <<0, 0>>))
        to    == Patched(Patched(pk, 16, MCGatewayIp), 22, BE16(MCProxyPort))
        blank == Patched(to, 26, <<0, 0>>)
    IN BE16(Checksum(Pseudo(Slice(blank, 12, 20), 17, Slice(blank, 20, 30))))

Payloads == {<<>>, <<7>>, <<255, 255>>, <<1, 2, 255>>, ZeroSum}
Wholes   == {Ip(4, words, fragment, proto, Transport(proto, payload)) :
                words \in {5, 6}, fragment \in {0, 16384}, proto \in {6, 17}, payload \in Payloads}
Bare(proto) == Ip(4, 5, 0, proto, Transport(proto, <<>>))

\* A packet of which only n bytes of the transport header count
Shortened(words, proto, n) ==
    Patched(Ip(4, words, 0, proto, Transport(proto, <<>>)), 2, BE16(4 * words + n))

MCPackets ==
    {Whole(pk \o tail) : pk \in Wholes, tail \in {<<>>, <<9, 9, 9>>}}
      \cup {Short(Shortened(words, proto, n)) :
              words \in {5, 6}, <<proto, n>> \in ({17} \X (0..7)) \cup ({6} \X (0..19))}
      \cup {Refused(pk) : pk \in
              UNION {Cuts(Bare(proto), 0, Len(Bare(proto)) - 1) : proto \in {6, 17}}
                \cup {Ip(version, words, fragment, proto, Transport(6, <<>>)) :
                        version \in {4, 6}, words \in {5}, fragment \in {1, 8192 + 185}, proto \in {6, 17}}
                \cup {Ip(6, 5, 0, 17, Transport(17, <<>>)), Ip(4, 5, 0, 1, Transport(17, <<>>)),
                      Slice(Ip(4, 4, 0, 17, Transport(17, <<>>)), 0, 24), Ip(4, 5, 0, 17, Zeros(7)),
                      Ip(4, 5, 0, 6, Zeros(19)), Patched(Bare(17), 2, BE16(19))}}
-----------------------------------------------------------------------------
(***************************************************************************)
(* Hosts: two adapters with addresses of prefix lengths in and beyond a 4-bit *)
(* space in which 0 is unspecified, 8 and 9 are loopback and 12 to 15 are   *)
(* link-local.                                                              *)
(***************************************************************************)
Lists == {<<>>} \cup {<<[ip |-> ip, prefix |-> p]>> : ip \in {0, 9, 5, 11, 14}, p \in {0, 2, 4, 5}}
           \cup {<<[ip |-> 13, prefix |-> 1], [ip |-> 6, prefix |-> 3], [ip |-> 3, prefix |-> 1]>>}

Adapter(index, wlan, status, description, friendly, addrs) ==
    [index |-> index, ieee80211 |-> wlan, status |-> status,
     description |-> description, friendly |-> friendly, addrs |-> addrs]

Varied ==
    {Adapter(2, wlan, status, description, friendly, <<[ip |-> 5, prefix |-> 2]>>) :
        wlan \in BOOLEAN, status \in {"up", "connected", "down"},
        description \in {"Wi-Fi Direct", "WiFi Direct", "none"}, friendly \in {"WiFi Direct", "none"}}
Plain == {Adapter(i, TRUE, "up", "Wi-Fi Direct", "none", addrs) : i \in {1, 3}, addrs \in Lists}

MCHosts ==
    {[calls |-> <<"success", "success", "success">>, adapters |-> adapters, powershell |-> ps] :
        adapters \in {<<a>> : a \in Varied \cup Plain} \cup {<<a, b>> : a \in Varied, b \in Plain}
                       \cup {s \in {<<a, b>> : a \in Plain, b \in Plain} : s[1].index # s[2].index}
                       \cup {<<>>},
        ps \in BOOLEAN}
      \cup {[calls |-> <<x, y, z>>, adapters |-> <<a>>, powershell |-> TRUE] :
               x, y, z \in {"success", "overflow", "error"}, a \in Plain}
-----------------------------------------------------------------------------
(***************************************************************************)
(* Queries: names of no to two labels, both classes and an address and      *)
(* another type, records behind the question, and every cut of them.        *)
(***************************************************************************)
Label(n)  == <<n>> \o [i \in 1..n |-> 97]
Names     == {<<>>, Label(1), Label(3) \o Label(2), Label(63)}
Opt       == <<0, 0, 41, 4, 208, 0, 0, 0, 0, 0, 0>>
Message(count, name, qtype, class, rest) ==
    <<18, 52, 1, 0>> \o BE16(count) \o <<0, 0, 0, 0>> \o BE16(IF rest = <<>> THEN 0 ELSE 1)
      \o name \o <<0>> \o BE16(qtype) \o BE16(class) \o rest

Labels(b) ==
    LET From[o \in Nat] ==
          <<o>> \o (IF LabelAt(b, o) THEN From[o + 1 + At(b, o)] ELSE <<>>)
    IN From[12]
Query(b, question) == [bytes |-> b, labels |-> Labels(b), question |-> question]

Asked(name, qtype, rest) ==
    Query(Message(1, name, qtype, 1, rest), {[qtype |-> qtype, end |-> 17 + Len(name)]})
Unasked(bytes) == Query(bytes, {})

MCQueries ==
    {Asked(name, qtype, rest) : name \in Names, qtype \in {1, 28}, rest \in {<<>>, Opt}}
      \cup {Unasked(Message(count, <<1, 97>>, 1, class, <<>>)) :
              <<count, class>> \in {<<0, 1>>, <<2, 1>>, <<1, 3>>, <<256, 1>>}}
      \cup {Unasked(Message(1, name, 1, 1, <<>>)) :
              name \in {Label(64), <<192, 12>>, <<1, 97, 192>>, <<63>>, <<5, 97>>}}
      \cup {Unasked(b) : b \in UNION {Cuts(Message(1, name, 1, 1, <<>>), 0, 16 + Len(name)) :
                                         name \in Names \ {Label(63)}}}
-----------------------------------------------------------------------------
(***************************************************************************)
(* Hellos: vectors of different lengths in front of the extensions, no,     *)
(* one or two server_name extensions with names of two types, before and    *)
(* after other extensions; cut, spread over two records, and with one byte  *)
(* wrong.                                                                   *)
(***************************************************************************)
Vector16(b)    == BE16(Len(b)) \o b
Named(type, n) == <<type>> \o Vector16(n)
Sni(names)     == [type |-> 0, data |-> Vector16(names)]
Other          == [type |-> 43, data |-> <<2, 3, 4>>]

Body(session, ciphers, extensions) ==
    LET block == Seqs!FlattenSeq([i \in DOMAIN extensions |->
                    BE16(extensions[i].type) \o Vector16(extensions[i].data)])
    IN <<3, 3>> \o [i \in 1..32 |-> 7] \o <<session>> \o Zeros(session)
         \o Vector16([i \in 1..ciphers |-> 19]) \o <<1, 0>> \o Vector16(block)
Record(fragment)  == <<22, 3, 1>> \o Vector16(fragment)
Handshake(body)   == <<1, 0>> \o Vector16(body)

Alpha == <<97, 46, 98>>
Beta  == <<99>>
Extensions ==   \* with the name they say
    {[list |-> <<>>, name |-> {}],
     [list |-> <<Other>>, name |-> {}],
     [list |-> <<Sni(Named(0, Alpha))>>, name |-> {Alpha}],
     [list |-> <<Other, Sni(Named(0, Alpha)), Other>>, name |-> {Alpha}],
     [list |-> <<Other, Sni(Named(0, Beta)), Sni(Named(0, Alpha))>>, name |-> {Beta}],
     [list |-> <<Sni(Named(1, Alpha) \o Named(0, Beta))>>, name |-> {Beta}],
     [list |-> <<Sni(Named(0, Alpha) \o Named(0, Beta))>>, name |-> {Alpha}],
     [list |-> <<Sni(Named(1, Alpha)), Sni(Named(0, Beta))>>, name |-> {}],
     [list |-> <<Sni(Named(0, <<97, 200>>))>>, name |-> {}],
     [list |-> <<Sni(<<>>)>>, name |-> {}],
     [list |-> <<[type |-> 0, data |-> <<>>]>>, name |-> {}]}

\* The offsets of the extensions of a body, from o, and of the entries of a list
ExtensionOffsets(body, start, end) ==
    LET From[o \in Nat] ==
          <<o>> \o (IF o = end \/ U16(body, o) = 0 THEN <<>> ELSE From[o + 4 + U16(body, o + 2)])
    IN From[start]
EntryOffsets(list) ==
    LET From[o \in Nat] ==
          <<o>> \o (IF o = Len(list) \/ At(list, o) = 0 THEN <<>> ELSE From[o + 3 + U16(list, o + 1)])
    IN From[2]

Intact(session, ciphers, extensions, rest, name) ==
    LET body    == Handshake(Body(session, ciphers, extensions))
        block   == 43 + session + ciphers
        offsets == ExtensionOffsets(body, block + 2, Len(body))
        o       == offsets[Len(offsets)]
        list    == Slice(body, o + 4, o + 4 + U16(body, o + 2))
    IN [form |-> "whole", bytes |-> Record(body) \o rest, name |-> name, of |-> <<>>,
        extensions |-> offsets,
        entries |-> IF o = Len(body) \/ list = <<>> THEN <<>> ELSE EntryOffsets(list)]
Broken(form, bytes, of) ==
    [form |-> form, bytes |-> bytes, name |-> {}, of |-> of, extensions |-> <<>>, entries |-> <<>>]

Usual == Handshake(Body(2, 4, <<Other, Sni(Named(1, Beta) \o Named(0, Alpha)), Other>>))

MCHellos ==
    {Intact(session, ciphers, e.list, rest, e.name) :
        session \in {0, 1, 32}, ciphers \in {0, 2, 34}, e \in Extensions, rest \in {<<>>, <<20, 3, 1>>}}
      \cup {Broken("cut", b, Usual) : b \in Cuts(Record(Usual), 0, Len(Record(Usual)) - 1)}
      \cup {Broken("cut", Record(Slice(Usual, 0, n)) \o Record(Slice(Usual, n, Len(Usual))), Usual) :
              n \in 1..(Len(Usual) - 1)}
      \cup {Broken("corrupt", Patched(Record(Usual), i, <<v>>), <<>>) :
              i \in 0..(Len(Record(Usual)) - 1), v \in {0, 1, 2, 7, 9, 255}}
-----------------------------------------------------------------------------
(***************************************************************************)
(* Requests of up to three lines: hosts with and without a port, bracketed  *)
(* or not, missing, empty and repeated, in heads that are text or not.      *)
(***************************************************************************)
HostValues ==
    {[text |-> <<"h", "o">>, host |-> {<<"h", "o">>}],
     [text |-> <<"h", ":", "8">>, host |-> {<<"h">>}],
     [text |-> <<"h", ":">>, host |-> {<<"h">>}],
     [text |-> <<"[", ":", ":", "1", "]">>, host |-> {<<":", ":", "1">>}],
     [text |-> <<"[", ":", ":", "1", "]", ":", "8">>, host |-> {<<":", ":", "1">>}],
     [text |-> <<"[", "h">>, host |-> {<<"[", "h">>}],
     [text |-> <<>>, host |-> {}]}
Line(name, text) == [name |-> name, value |-> text]
OtherLines == {Line("", <<"g">>), Line("accept", <<"h", ":", "o">>)}

MCRequests ==
    {[lines |-> before \o <<Line("host", v.text)>> \o after, utf8 |-> utf8,
      host |-> IF utf8 THEN v.host ELSE {}] :
        v \in HostValues, before \in {<<l>> : l \in OtherLines} \cup {<<>>},
        after \in {<<>>} \cup {<<Line("host", w.text)>> : w \in HostValues}, utf8 \in BOOLEAN}
      \cup {[lines |-> <<l>>, utf8 |-> TRUE, host |-> {}] : l \in OtherLines}
-----------------------------------------------------------------------------
(***************************************************************************)
(* Arguments: every outbound with the other arguments sound, and with each  *)
(* of them at and just past its limits.                                     *)
(***************************************************************************)
Option(k, v) == [key |-> k, value |-> v]
Uri(scheme, host, port, query) == [scheme |-> scheme, host |-> host, port |-> port, query |-> query]

Schemes  == {"direct", "socks5", "http", "http-proxy", "https", "https-proxy", "ftp"}
QueryOptions == {Option(k, v) : k \in {"insecure", "tls_skip_verify", "other"}, v \in {"true", "0", "maybe"}}
QueryLists   == {<<>>} \cup {<<a>> : a \in QueryOptions} \cup {<<a, b>> : a, b \in QueryOptions}
Uris     == {DirectWord} \cup
            {Uri(scheme, host, port, query) :
                scheme \in Schemes, host \in {"", "h"}, port \in {NoPort, 0, 1080}, query \in QueryLists}
FewUris  == {DirectWord, Uri("direct", "h", 1080, <<>>), Uri("socks5", "h", 1080, <<>>),
             Uri("https", "h", NoPort, <<Option("insecure", "true")>>)}

Usually(uri, insecure, skip) ==
    [outbound |-> uri, insecure |-> insecure, skip |-> skip, ssid |-> 14, password |-> 8,
     probePort |-> 443, probeTimeout |-> 5000, gateway |-> FALSE, tcp |-> 16000, dnsProxy |-> 1053,
     dnsPort |-> 53, dnsTimeout |-> 5000]

MCUpArgs ==
    {Usually(uri, insecure, FALSE) : uri \in Uris, insecure \in BOOLEAN}
      \cup {[Usually(uri, insecure, skip) EXCEPT ![change[1]] = change[2]] :
              uri \in FewUris, insecure \in BOOLEAN, skip \in BOOLEAN,
              change \in {<<"ssid", n>> : n \in {0, 1, 32, 33}} \cup {<<"password", n>> : n \in {7, 8, 63, 64}}
                           \cup {<<"tcp", n>> : n \in {0, 1, 1053}} \cup {<<"dnsProxy", n>> : n \in {0, 16000}}
                           \cup {<<f, 0>> : f \in {"probePort", "probeTimeout", "dnsPort", "dnsTimeout"}}}
      \cup {[Usually(uri, FALSE, FALSE) EXCEPT !.gateway = TRUE, !.tcp = port] :
              uri \in FewUris, port \in {79, 80, 81, 443, 1053}}
=============================================================================
