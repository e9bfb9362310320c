-------------------------------- MODULE Ipv4 --------------------------------
(***************************************************************************)
(* What the redirector does to the bytes of a packet                        *)
(* (src/src/redirector.rs:385-560): which packets it parses, what it reads  *)
(* of them, and the two rewrites with their checksums.  An Option is a set: *)
(* {} for None, {bytes} for Some.                                           *)
(***************************************************************************)
EXTENDS Bytes

Protocols    == {6, 17}
ProtocolName == [p \in Protocols |-> IF p = 6 THEN "tcp" ELSE "udp"]
MinLen       == [p \in Protocols |-> IF p = 6 THEN 20 ELSE 8]   \* of a transport header
ChecksumAt   == [p \in Protocols |-> IF p = 6 THEN 16 ELSE 6]   \* in a transport header

HeaderLen(pk) == (At(pk, 0) % 16) * 4
TotalLen(pk)  == U16(pk, 2)
Protocol(pk)  == At(pk, 9)

HeaderParses(pk) ==
    /\ Len(pk) >= 20
    /\ At(pk, 0) \div 16 = 4
    /\ HeaderLen(pk) \in 20..Len(pk)
    /\ TotalLen(pk) \in HeaderLen(pk)..Len(pk)
    /\ U16(pk, 6) % 8192 = 0               \* no fragment offset

Parses(pk) ==
    /\ HeaderParses(pk)
    /\ Protocol(pk) \in Protocols
    /\ Len(pk) >= HeaderLen(pk) + MinLen[Protocol(pk)]

Meta(pk) ==
    LET ports == HeaderLen(pk)
    IN [proto |-> ProtocolName[Protocol(pk)],
        src   |-> [addr |-> Slice(pk, 12, 16), port |-> U16(pk, ports)],
        dst   |-> [addr |-> Slice(pk, 16, 20), port |-> U16(pk, ports + 2)]]

\* checksum: 16-bit words, the odd byte at the end the high half of one,
\* carries folded back until the sum has 16 bits, then complemented.
WholeWords(b) ==
    LET sum[w \in 0..(Len(b) \div 2)] ==
            IF w = 0 THEN 0 ELSE sum[w - 1] + U16(b, 2 * (w - 1))
    IN sum[Len(b) \div 2]
WordSum(b) == WholeWords(b) + (IF Len(b) % 2 = 1 THEN 256 * b[Len(b)] ELSE 0)
Folded[s \in Nat] == IF s > 65535 THEN Folded[(s % 65536) + (s \div 65536)] ELSE s

\* Mutant of Checksum: the odd byte at the end is not added.
ChecksumOfWords(b) == 65535 - Folded[WholeWords(b)]

Checksum(b) == 65535 - Folded[WordSum(b)]

Pseudo(addresses, protocol, segment) ==
    addresses \o <<0, protocol>> \o BE16(Len(segment)) \o segment

\* The transport checksum covers the bytes up to total_len; UDP's zero means none.
TransportChecksum(pk) ==
    LET c == Checksum(Pseudo(Slice(pk, 12, 20), Protocol(pk),
                             Slice(pk, HeaderLen(pk), TotalLen(pk))))
    IN IF Protocol(pk) = 17 /\ c = 0 THEN 65535 ELSE c

\* recalculate_ipv4_checksums, of a packet whose transport header parsed
Checksummed(pk) ==
    LET at     == HeaderLen(pk) + ChecksumAt[Protocol(pk)]
        zeroed == Patched(pk, 10, <<0, 0>>)
        ip     == Patched(zeroed, 10, BE16(Checksum(Slice(zeroed, 0, HeaderLen(pk)))))
        blank  == Patched(ip, at, <<0, 0>>)
    IN Patched(blank, at, BE16(TransportChecksum(blank)))

\* rewrite_destination and rewrite_source
RewrittenDestination(pk, addr, port) ==
    IF ~Parses(pk) THEN {}
    ELSE {Checksummed(Patched(Patched(pk, 16, addr), HeaderLen(pk) + 2, BE16(port)))}

RewrittenSource(pk, addr, port) ==
    IF ~Parses(pk) THEN {}
    ELSE {Checksummed(Patched(Patched(pk, 12, addr), HeaderLen(pk), BE16(port)))}
=============================================================================
