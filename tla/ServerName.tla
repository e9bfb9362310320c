----------------------------- MODULE ServerName -----------------------------
(***************************************************************************)
(* How the gateway listeners learn where a client wants to go               *)
(* (src/src/proxy.rs:382-583): the Host header of a request, and the server *)
(* name of a TLS ClientHello.  A Result is a set: {} for Err, {name} for    *)
(* Ok.  A byte from 128 on stands for text that is not UTF-8.               *)
(***************************************************************************)
EXTENDS Bytes

Sets == INSTANCE FiniteSetsExt   \* Min

Utf8(text) == \A i \in DOMAIN text : text[i] < 128

(***************************************************************************)
(* The Host header.  A request as text is a sequence of lines [name, value] *)
(* (name "" for a line without a colon); a value is a sequence of           *)
(* characters, without the blanks around it.                                *)
(***************************************************************************)
Before(host, char) ==
    LET found == {i \in DOMAIN host : host[i] = char}
    IN IF found = {} THEN host ELSE SubSeq(host, 1, Sets!Min(found) - 1)

\* Mutant of StripHostPort: brackets are not looked for.
StripHostPortPlain(host) == Before(host, ":")

\* strip_host_port: a bracketed address without its brackets, if they close
StripHostPort(host) ==
    IF Head(host) # "[" THEN Before(host, ":")
    ELSE IF "]" \notin {host[i] : i \in DOMAIN host} THEN host
    ELSE Before(Tail(host), "]")

\* parse_http_host, which gets the head alone: utf8 says that the head is text, in every
\* line of it; what was read behind the head is not looked at (proxy.rs:384-386).
HttpHost(lines, utf8) ==
    LET found == {i \in DOMAIN lines : lines[i].name = "host"}
        value == lines[Sets!Min(found)].value
    IN IF ~utf8 \/ found = {} \/ value = <<>> THEN {} ELSE {StripHostPort(value)}

(***************************************************************************)
(* The server name.  body is one TLS record of type handshake.              *)
(***************************************************************************)
\* parse_sni_extension: the first name of type host_name
NameInList(extension) ==
    LET end == 2 + U16(extension, 0)
        Name[o \in Nat] ==
          IF o + 3 > end THEN {}
          ELSE LET next == o + 3 + U16(extension, o + 1)
               IN IF next > end THEN {}
                  ELSE IF At(extension, o) # 0 THEN Name[next]
                  ELSE {n \in {Slice(extension, o + 3, next)} : Utf8(n)}
    IN IF Len(extension) < 2 \/ end > Len(extension) THEN {} ELSE Name[2]

\* The walk over the extensions between two offsets: the first of type
\* server_name decides.
ServerNameIn(body, start, end) ==
    LET Extension[o \in Nat] ==
          IF o + 4 > end THEN {}
          ELSE LET next == o + 4 + U16(body, o + 2)
               IN IF next > end THEN {}
                  ELSE IF U16(body, o) = 0 THEN NameInList(Slice(body, o + 4, next))
                  ELSE Extension[next]
    IN Extension[start]

\* Mutant of AfterVector: the offset moves past the length alone.
AfterLength(body, o, width) == IF o + width > Len(body) THEN {} ELSE {o + width}

\* The offset after a vector with a length of width bytes at o, if the length
\* is inside the record; the vector itself may end outside.
AfterVector(body, o, width) ==
    IF o + width > Len(body) THEN {}
    ELSE {o + width + IF width = 1 THEN At(body, o) ELSE U16(body, o)}

\* The offset of the extensions' length: after the version, the random, the
\* session id, the cipher suites and the compression methods.
ExtensionsAt(body) ==
    UNION {UNION {AfterVector(body, c, 1) : c \in AfterVector(body, s, 2)} :
               s \in AfterVector(body, 38, 1)}

\* parse_tls_sni_from_record
RecordServerName(body) ==
    IF \/ Len(body) < 42 \/ At(body, 0) # 1
       \/ 65536 * At(body, 1) + U16(body, 2) + 4 > Len(body) THEN {}
    ELSE UNION {ServerNameIn(body, o + 2, o + 2 + U16(body, o)) :
                  o \in {e \in ExtensionsAt(body) :
                            /\ e + 2 <= Len(body)
                            /\ e + 2 + U16(body, e) <= Len(body)}}

RecordSizes == 1..16384    \* that a TLS record may have

\* read_tls_sni, of what a client sends before it closes
TlsServerName(stream) ==
    IF \/ Len(stream) < 5 \/ At(stream, 0) # 22
       \/ U16(stream, 3) \notin RecordSizes
       \/ Len(stream) < 5 + U16(stream, 3) THEN {}
    ELSE RecordServerName(Slice(stream, 5, 5 + U16(stream, 3)))
=============================================================================
