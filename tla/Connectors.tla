----------------------------- MODULE Connectors -----------------------------
(***************************************************************************)
(* The outbound connectors of src/src/proxy.rs: connect() of the direct,    *)
(* the SOCKS5 and the HTTP CONNECT connector, and the outbound proxy at the *)
(* other end.  What the proxy sends is one stream: its part of the dialogue *)
(* and, right behind it, the bytes of the target.                           *)
(*                                                                         *)
(* SOCKS5 bytes have their values.  Of a CONNECT response the status line,  *)
(* a header and the blank line that ends it are one unit each.  The bytes   *)
(* of the target are numbered from TargetBytes up.                          *)
(***************************************************************************)
EXTENDS Naturals, SequencesExt

CONSTANTS Kinds,      \* connectors: subset of ConnectorKinds
          MaxReply,   \* limit of a CONNECT response head (8192 bytes)
          MaxDown     \* bound on the bytes the target sends

ConnectorKinds == {"direct", "socks5", "connect"}
ASSUME KindsKnown == Kinds \subseteq ConnectorKinds
ASSUME ReplyLimit == MaxReply \in Nat /\ MaxReply >= 2

TargetBytes == 1000

VARIABLES kind,       \* the configured connector
          step,       \* where connect() stands
          asked,      \* the message the proxy has to answer
          accepted,   \* the proxy has opened the tunnel
          down,       \* bytes from the proxy the connector has not read
          closed,     \* nothing follows them
          told,       \* history: the bytes the target sent
          skip,       \* SOCKS5: bytes of the bound address still to discard
          response    \* CONNECT: the response read so far

connector == <<kind, step, asked, accepted, down, closed, told, skip, response>>

Reading == {"method", "auth", "header", "length", "discard", "response"}
Steps   == {"idle", "open", "refused"} \cup Reading

ConnectorInit ==
    /\ kind \in Kinds
    /\ step = "idle"
    /\ asked = "nothing"
    /\ accepted = FALSE
    /\ down = <<>>
    /\ closed = FALSE
    /\ told = <<>>
    /\ skip = 0
    /\ response = <<>>
-----------------------------------------------------------------------------
\* The proxy.
OK        == 200
Forbidden == 403
Header    == 20
EndOfHead == 10

Zeros(n) == [i \in 1..n |-> 0]

Response(status, headers) ==
    <<status>> \o [i \in 1..headers |-> Header] \o <<EndOfHead>>

\* What it may answer to each message, good and bad.
Answers == [nothing  |-> {},
            greeting |-> {<<5, 0>>, <<5, 2>>, <<5, 255>>, <<4, 0>>},
            auth     |-> {<<1, 0>>, <<1, 1>>},
            connect  |-> {<<5, 0, 0, 1>> \o Zeros(6), <<5, 0, 0, 4>> \o Zeros(18),
                          <<5, 0, 0, 3, 2>> \o Zeros(4), <<5, 0, 0, 3, 0>> \o Zeros(2),
                          <<5, 0, 0, 9>>, <<5, 1, 0, 1>> \o Zeros(6)},
            CONNECT  |-> {Response(OK, 0), Response(OK, MaxReply - 2),
                          Response(OK, MaxReply - 1), Response(Forbidden, 0)}]

Accepts(message, answer) == \/ message = "connect" /\ answer[2] = 0
                            \/ message = "CONNECT" /\ answer[1] = OK

ProxyAnswers ==
    /\ ~closed
    /\ \E answer \in Answers[asked] :
         /\ down' = down \o answer
         /\ accepted' = Accepts(asked, answer)
    /\ asked' = "nothing"
    /\ UNCHANGED <<kind, step, closed, told, skip, response>>

\* It goes away instead, with nothing or a part of an answer sent.
ProxyLeaves ==
    /\ ~closed
    /\ \E answer \in Answers[asked], n \in 0..2 :
         n < Len(answer) /\ down' = down \o SubSeq(answer, 1, n)
    /\ closed' = TRUE
    /\ UNCHANGED <<kind, step, asked, accepted, told, skip, response>>

\* The target may be the first to speak.
TargetSends ==
    /\ accepted /\ ~closed
    /\ Len(told) < MaxDown
    /\ told' = Append(told, TargetBytes + Len(told))
    /\ down' = Append(down, TargetBytes + Len(told))
    /\ UNCHANGED <<kind, step, asked, accepted, closed, skip, response>>

TargetFinishes ==
    /\ accepted /\ ~closed
    /\ closed' = TRUE
    /\ UNCHANGED <<kind, step, asked, accepted, down, told, skip, response>>
-----------------------------------------------------------------------------
\* The connector sends a message, unless a name does not fit into it or the socket fails.
Ask(message, next) == \/ asked' = message /\ step' = next
                      \/ step' = "refused" /\ UNCHANGED asked

\* TcpStream::connect, then the proxy's first message; either may fail.
Dial ==
    /\ step = "idle"
    /\ \/ kind = "direct" /\ step' = "open" /\ accepted' = TRUE /\ UNCHANGED asked
       \/ kind = "direct" /\ step' = "refused" /\ UNCHANGED <<asked, accepted>>
       \/ kind = "socks5" /\ Ask("greeting", "method") /\ UNCHANGED accepted
       \/ kind = "connect" /\ Ask("CONNECT", "response") /\ UNCHANGED accepted
    /\ UNCHANGED <<kind, down, closed, told, skip, response>>

First(n) == SubSeq(down, 1, n)

\* read_exact: n bytes and not one more are taken from the stream.
ReadExact(n) ==
    /\ Len(down) >= n
    /\ down' = SubSeq(down, n + 1, Len(down))

\* How many bytes each read_exact asks for.
Want == [method |-> 2, auth |-> 2, header |-> 4, length |-> 1, discard |-> skip, response |-> 1]

\* The stream ends before read_exact is satisfied.
Short ==
    /\ step \in Reading
    /\ closed /\ Len(down) < Want[step]
    /\ step' = "refused"
    /\ UNCHANGED <<kind, asked, accepted, down, closed, told, skip, response>>

Method ==
    /\ step = "method"
    /\ ReadExact(2)
    /\ \/ First(2) = <<5, 0>> /\ Ask("connect", "header")
       \/ First(2) = <<5, 2>> /\ Ask("auth", "auth")
       \/ First(2) \notin {<<5, 0>>, <<5, 2>>} /\ step' = "refused" /\ UNCHANGED asked
    /\ UNCHANGED <<kind, accepted, closed, told, skip, response>>

Auth ==
    /\ step = "auth"
    /\ ReadExact(2)
    /\ \/ First(2) = <<1, 0>> /\ Ask("connect", "header")
       \/ First(2) # <<1, 0>> /\ step' = "refused" /\ UNCHANGED asked
    /\ UNCHANGED <<kind, accepted, closed, told, skip, response>>

\* Mutant of AddressBytes: the two bytes of the port are forgotten for IPv6.
AddressBytesNoPort(type) == IF type = 1 THEN 6 ELSE 16

\* Bytes behind the header of a reply with an address of this type: address and port.
AddressBytes(type) == IF type = 1 THEN 6 ELSE 18

\* Mutant of ReplyHeader: the reply code is not looked at.
ReplyHeaderAny ==
    /\ step = "header"
    /\ ReadExact(4)
    /\ \/ down[4] = 3 /\ step' = "length" /\ UNCHANGED skip
       \/ down[4] \in {1, 4} /\ step' = "discard" /\ skip' = AddressBytes(down[4])
       \/ down[4] \notin {1, 3, 4} /\ step' = "refused" /\ UNCHANGED skip
    /\ UNCHANGED <<kind, asked, accepted, closed, told, response>>

ReplyHeader ==
    /\ step = "header"
    /\ ReadExact(4)
    /\ LET good == down[1] = 5 /\ down[2] = 0 IN
         \/ good /\ down[4] = 3 /\ step' = "length" /\ UNCHANGED skip
         \/ good /\ down[4] \in {1, 4} /\ step' = "discard" /\ skip' = AddressBytes(down[4])
         \/ ~(good /\ down[4] \in {1, 3, 4}) /\ step' = "refused" /\ UNCHANGED skip
    /\ UNCHANGED <<kind, asked, accepted, closed, told, response>>

DomainLength ==
    /\ step = "length"
    /\ ReadExact(1)
    /\ step' = "discard" /\ skip' = down[1] + 2
    /\ UNCHANGED <<kind, asked, accepted, closed, told, response>>

Discard ==
    /\ step = "discard"
    /\ ReadExact(skip)
    /\ step' = "open"
    /\ UNCHANGED <<kind, asked, accepted, closed, told, skip, response>>

\* Mutant of ReadResponse: one byte more than the limit.
ReadResponseOneMore ==
    /\ step = "response"
    /\ ReadExact(1)
    /\ response' = Append(response, down[1])
    /\ LET ended == Last(response') = EndOfHead IN
         \/ ended /\ Head(response') = OK /\ step' = "open"
         \/ ended /\ Head(response') # OK /\ step' = "refused"
         \/ ~ended /\ Len(response') <= MaxReply /\ UNCHANGED step
         \/ ~ended /\ Len(response') > MaxReply /\ step' = "refused"
    /\ UNCHANGED <<kind, asked, accepted, closed, told, skip>>

\* send_connect_request reads one byte at a time, up to the blank line or the limit.
ReadResponse ==
    /\ step = "response"
    /\ ReadExact(1)
    /\ response' = Append(response, down[1])
    /\ LET ended == Last(response') = EndOfHead IN
         \/ ended /\ Head(response') = OK /\ step' = "open"
         \/ ended /\ Head(response') # OK /\ step' = "refused"
         \/ ~ended /\ Len(response') < MaxReply /\ UNCHANGED step
         \/ ~ended /\ Len(response') >= MaxReply /\ step' = "refused"
    /\ UNCHANGED <<kind, asked, accepted, closed, told, skip>>

Dialogue == \/ Short \/ Method \/ Auth \/ ReplyHeader \/ DomainLength \/ Discard
            \/ ReadResponse

Proxy == ProxyAnswers \/ ProxyLeaves \/ TargetSends \/ TargetFinishes
=============================================================================
