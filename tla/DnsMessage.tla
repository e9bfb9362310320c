----------------------------- MODULE DnsMessage -----------------------------
(***************************************************************************)
(* The gateway DNS mode's parser and its answers (src/src/dns.rs:118-188).  *)
(* An Option is a set: {} for None, {value} for Some.                       *)
(***************************************************************************)
EXTENDS Bytes

\* The offset after the name that starts at an offset.  A label is skipped by
\* its length; compression (the two high bits) and a label cut short are refused.
NameEnd(query) ==
    LET End[offset \in Nat] ==
          IF offset >= Len(query) THEN {}
          ELSE LET len == At(query, offset)
               IN IF len = 0 THEN {offset + 1}
                  ELSE IF len >= 64 \/ offset + 1 + len > Len(query) THEN {}
                  ELSE End[offset + 1 + len]
    IN End[12]

\* parse_single_question: [qtype, end], for one question of class IN
SingleQuestion(query) ==
    IF Len(query) < 17 \/ U16(query, 4) # 1 THEN {}
    ELSE {[qtype |-> U16(query, e), end |-> e + 4] :
             e \in {n \in NameEnd(query) : n + 4 <= Len(query) /\ U16(query, n + 2) = 1}}

ARecord(ip) == <<192, 12, 0, 1, 0, 1, 0, 0, 0, 60, 0, 4>> \o ip

\* Mutant of Response: an answer is announced whatever the question's type.
ResponseAlwaysCounts(query, q, ip) ==
    Slice(query, 0, 2) \o <<129, 128, 0, 1, 0, 1, 0, 0, 0, 0>> \o Slice(query, 12, q.end)
      \o (IF q.qtype = 1 THEN ARecord(ip) ELSE <<>>)

Response(query, q, ip) ==
    Slice(query, 0, 2) \o <<129, 128, 0, 1>>
      \o BE16(IF q.qtype = 1 THEN 1 ELSE 0) \o <<0, 0, 0, 0>>
      \o Slice(query, 12, q.end)
      \o (IF q.qtype = 1 THEN ARecord(ip) ELSE <<>>)

\* gateway_dns_response
GatewayResponse(query, ip) == {Response(query, q, ip) : q \in SingleQuestion(query)}
=============================================================================
