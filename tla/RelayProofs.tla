----------------------------- MODULE RelayProofs -----------------------------
(***************************************************************************)
(* Theorems about Relay for any limits, buffer, heads and number of bytes:  *)
(* the dialogue with the outbound proxy takes its own bytes and no other,   *)
(* and the two directions of a connection are pipes.                        *)
(***************************************************************************)
EXTENDS Relay, SequenceTheorems, TLAPS

-----------------------------------------------------------------------------
\* Sequences of bytes.

\* A sequence is its first n elements and the others.
LEMMA Split ==
    ASSUME NEW s \in Seq(Nat), NEW n \in 0..Len(s)
    PROVE  /\ SubSeq(s, 1, n) \in Seq(Nat) /\ Len(SubSeq(s, 1, n)) = n
           /\ SubSeq(s, n + 1, Len(s)) \in Seq(Nat)
           /\ Len(SubSeq(s, n + 1, Len(s))) = Len(s) - n
           /\ s = SubSeq(s, 1, n) \o SubSeq(s, n + 1, Len(s))
<1>0. Len(s) \in Nat /\ \A i \in 1..Len(s) : s[i] \in Nat
    BY LenProperties, ElementOfSeq
<1>1. SubSeq(s, 1, n) \in Seq(Nat) /\ Len(SubSeq(s, 1, n)) = n
    BY <1>0, SubSeqProperties
<1>2. /\ SubSeq(s, n + 1, Len(s)) \in Seq(Nat)
      /\ Len(SubSeq(s, n + 1, Len(s))) = Len(s) - n
    <2>1. \A i \in (n + 1)..Len(s) : s[i] \in Nat
        BY <1>0
    <2> QED
        BY <1>0, <2>1, SubSeqProperties
<1>3. SubSeq(s, 1, n) \o SubSeq(s, n + 1, Len(s)) = SubSeq(s, 1, Len(s))
    <2>1. 1 \in 1..(Len(s) + 1) /\ n \in (1 - 1)..Len(s) /\ Len(s) \in n..Len(s)
        BY <1>0
    <2> QED
        BY <2>1, ConcatAdjacentSubSeq
<1> QED
    BY <1>1, <1>2, <1>3, SubSeqFull

\* Concatenations of bytes group as one likes.
LEMMA Grouped ==
    \A s, t, u \in Seq(Nat) : (s \o t) \o u = s \o (t \o u)
BY SMTT(40), ConcatAssociative

\* Only the empty sequence has no element.
LEMMA EmptyOnly == \A s \in Seq(Nat) : Len(s) = 0 => s = <<>>
BY EmptySeq

\* An element appended behind a concatenation.
LEMMA AppendedBehind ==
    ASSUME NEW s \in Seq(Nat), NEW t \in Seq(Nat), NEW x \in Nat
    PROVE  Append(s \o t, x) = s \o Append(t, x)
<1>1. Append(t, x) = t \o <<x>> /\ <<x>> \in Seq(Nat) /\ s \o t \in Seq(Nat)
    BY AppendIsConcat
<1>2. Append(s \o t, x) = (s \o t) \o <<x>>
    BY <1>1, AppendIsConcat
<1> QED
    BY SMTT(40), <1>1, <1>2, Grouped

\* What is behind the first n elements of r \o t, when r has as many.
LEMMA RestOfConcat ==
    ASSUME NEW r \in Seq(Nat), NEW t \in Seq(Nat), NEW n \in 0..Len(r)
    PROVE  SubSeq(r \o t, n + 1, Len(r \o t)) = SubSeq(r, n + 1, Len(r)) \o t
<1> DEFINE a == SubSeq(r, 1, n)
           b == SubSeq(r, n + 1, Len(r))
           c == SubSeq(r \o t, 1, n)
           d == SubSeq(r \o t, n + 1, Len(r \o t))
<1>1. a \in Seq(Nat) /\ Len(a) = n /\ b \in Seq(Nat) /\ r = a \o b
    BY Split
<1>2. r \o t \in Seq(Nat) /\ Len(r \o t) = Len(r) + Len(t) /\ Len(t) \in Nat /\ Len(r) \in Nat
    BY ConcatProperties, LenProperties
<1>3. c \in Seq(Nat) /\ d \in Seq(Nat) /\ r \o t = c \o d
    <2>1. n \in 0..Len(r \o t)
        BY <1>2
    <2> QED
        BY <1>2, <2>1, Split
<1>4. c = a
    <2>1. CASE n = 0
        BY <2>1, SubSeqEmpty
    <2>2. CASE n # 0
        <3>1. 1 \in 1..Len(r) /\ n \in 1..Len(r)
            BY <1>2, <2>2
        <3> QED
            BY <3>1, SubSeqOfConcat1
    <2> QED
        BY <2>1, <2>2
<1>5. a \o d = a \o (b \o t)
    <2>1. (a \o b) \o t = a \o (b \o t)
        BY <1>1, Grouped
    <2> QED
        BY <1>1, <1>3, <1>4, <2>1
<1>6. b \o t \in Seq(Nat)
    BY <1>1, ConcatProperties
<1> HIDE DEF a, b, c, d
<1>7. d = b \o t
    BY <1>1, <1>3, <1>5, <1>6, ConcatSimplifications
<1> QED
    BY <1>7 DEF b, d

\* The parts of a concatenation come first.
LEMMA PrefixOfConcat ==
    ASSUME NEW s \in Seq(Nat), NEW t \in Seq(Nat)
    PROVE  IsPrefix(s, s \o t)
<1>1. s \o t \in Seq(Nat) /\ Len(s \o t) = Len(s) + Len(t) /\ Len(t) \in Nat /\ Len(s) \in Nat
    BY ConcatProperties, LenProperties
<1>2. SubSeq(s \o t, 1, Len(s)) = SubSeq(s, 1, Len(s))
    <2>1. CASE Len(s) = 0
        BY <2>1, SubSeqEmpty
    <2>2. CASE Len(s) # 0
        <3>1. 1 \in 1..Len(s) /\ Len(s) \in 1..Len(s)
            BY <1>1, <2>2
        <3> QED
            BY <3>1, SubSeqOfConcat1
    <2> QED
        BY <2>1, <2>2
<1> QED
    BY <1>1, <1>2 DEF IsPrefix

\* Moving the first n elements of t behind s.
LEMMA Moved ==
    ASSUME NEW s \in Seq(Nat), NEW t \in Seq(Nat), NEW n \in 0..Len(t)
    PROVE  /\ s \o Take(t, n) \in Seq(Nat) /\ Rest(t, n) \in Seq(Nat)
           /\ Take(t, n) \in Seq(Nat)
           /\ Len(s \o Take(t, n)) = Len(s) + n /\ Len(Rest(t, n)) = Len(t) - n
           /\ (s \o Take(t, n)) \o Rest(t, n) = s \o t
<1>1. /\ Take(t, n) \in Seq(Nat) /\ Rest(t, n) \in Seq(Nat) /\ Len(Take(t, n)) = n
      /\ Len(Rest(t, n)) = Len(t) - n /\ t = Take(t, n) \o Rest(t, n)
    BY Split DEF Take, Rest
<1>2. s \o Take(t, n) \in Seq(Nat) /\ Len(s \o Take(t, n)) = Len(s) + n
    BY <1>1, ConcatProperties
<1>3. (s \o Take(t, n)) \o Rest(t, n) = s \o (Take(t, n) \o Rest(t, n))
    BY <1>1, Grouped
<1> QED
    BY <1>1, <1>2, <1>3
-----------------------------------------------------------------------------
\* What the proxy sends.

\* The length of an answer to "connect" that grants the tunnel is the one its address
\* type announces.
Framed(r) == /\ Len(r) >= 4
             /\ r[4] = 1 => Len(r) = 10
             /\ r[4] = 4 => Len(r) = 22
             /\ r[4] = 3 => Len(r) >= 5 /\ Len(r) = r[5] + 7

LEMMA ConnectAnswers ==
    ASSUME NEW a \in Answers["connect"]
    PROVE  a \in Seq(Nat) /\ Len(a) >= 4 /\ (a[2] = 0 => Framed(a))
<1>1. \/ a = <<5, 0, 0, 1>> \o Zeros(6)
      \/ a = <<5, 0, 0, 4>> \o Zeros(18)
      \/ a = <<5, 0, 0, 3, 2>> \o Zeros(4)
      \/ a = <<5, 0, 0, 3, 0>> \o Zeros(2)
      \/ a = <<5, 0, 0, 9>>
      \/ a = <<5, 1, 0, 1>> \o Zeros(6)
    BY DEF Answers
<1>2. CASE a = <<5, 0, 0, 1>> \o Zeros(6)
    BY <1>2 DEF Zeros, Framed
<1>3. CASE a = <<5, 0, 0, 4>> \o Zeros(18)
    BY <1>3 DEF Zeros, Framed
<1>4. CASE a = <<5, 0, 0, 3, 2>> \o Zeros(4)
    BY <1>4 DEF Zeros, Framed
<1>5. CASE a = <<5, 0, 0, 3, 0>> \o Zeros(2)
    BY <1>5 DEF Zeros, Framed
<1>6. CASE a = <<5, 0, 0, 9>>
    BY <1>6 DEF Zeros, Framed
<1>7. CASE a = <<5, 1, 0, 1>> \o Zeros(6)
    BY <1>7 DEF Zeros, Framed
<1> QED
    BY <1>1, <1>2, <1>3, <1>4, <1>5, <1>6, <1>7

\* A response ends with its only blank line.
Terminated(r) == r # <<>> /\ \A i \in 1..Len(r) : r[i] = EndOfHead <=> i = Len(r)

LEMMA ResponseShape ==
    ASSUME NEW status \in {OK, Forbidden}, NEW n \in Nat
    PROVE  /\ Response(status, n) \in Seq(Nat)
           /\ Response(status, n)[1] = status
           /\ Terminated(Response(status, n))
<1> DEFINE h == [i \in 1..n |-> Header]
           a == <<status>> \o h
<1>1. status \in Nat /\ status # EndOfHead /\ Header \in Nat /\ Header # EndOfHead
      /\ EndOfHead \in Nat
    BY DEF OK, Forbidden, Header, EndOfHead
<1>2. h \in Seq(Nat) /\ Len(h) = n /\ \A i \in 1..n : h[i] = Header
    BY <1>1
<1> HIDE DEF h
<1>3. /\ a \in Seq(Nat) /\ Len(a) = n + 1 /\ a[1] = status
      /\ \A i \in 1..(n + 1) : a[i] # EndOfHead
    BY <1>1, <1>2
<1> HIDE DEF a
<1>4. /\ a \o <<EndOfHead>> \in Seq(Nat) /\ Len(a \o <<EndOfHead>>) = n + 2
      /\ \A i \in 1..(n + 2) :
           (a \o <<EndOfHead>>)[i] = IF i <= n + 1 THEN a[i] ELSE EndOfHead
    BY <1>1, <1>3
<1>5. Response(status, n) = a \o <<EndOfHead>>
    BY DEF Response, a, h
<1> QED
    BY <1>3, <1>4, <1>5 DEF Terminated

LEMMA ResponseAnswers ==
    ASSUME NEW a \in Answers["CONNECT"]
    PROVE  a \in Seq(Nat) /\ a[1] \in {OK, Forbidden} /\ Terminated(a)
<1>1. MaxReply - 2 \in Nat /\ MaxReply - 1 \in Nat
    BY ReplyLimit
<1>2. \/ a = Response(OK, 0) \/ a = Response(OK, MaxReply - 2)
      \/ a = Response(OK, MaxReply - 1) \/ a = Response(Forbidden, 0)
    BY DEF Answers
<1> QED
    BY <1>1, <1>2, ResponseShape

LEMMA ShortAnswers ==
    ASSUME NEW m \in {"greeting", "auth"}, NEW a \in Answers[m]
    PROVE  a \in Seq(Nat) /\ Len(a) = 2
<1>1. \/ a = <<5, 0>> \/ a = <<5, 2>> \/ a = <<5, 255>> \/ a = <<4, 0>>
      \/ a = <<1, 0>> \/ a = <<1, 1>>
    BY DEF Answers
<1>2. CASE a = <<5, 0>>
    BY <1>2
<1>3. CASE a = <<5, 2>>
    BY <1>3
<1>4. CASE a = <<5, 255>>
    BY <1>4
<1>5. CASE a = <<4, 0>>
    BY <1>5
<1>6. CASE a = <<1, 0>>
    BY <1>6
<1>7. CASE a = <<1, 1>>
    BY <1>7
<1> QED
    BY <1>1, <1>2, <1>3, <1>4, <1>5, <1>6, <1>7

Messages == {"nothing", "greeting", "auth", "connect", "CONNECT"}

\* Every answer is a sequence of bytes, and nothing is answered unasked.
LEMMA AnswerShape ==
    ASSUME NEW m \in Messages, NEW a \in Answers[m]
    PROVE  m # "nothing" /\ a \in Seq(Nat) /\ Len(a) \in Nat
<1>1. m # "nothing"
    BY DEF Answers
<1>2. a \in Seq(Nat)
    BY <1>1, ConnectAnswers, ResponseAnswers, ShortAnswers DEF Messages
<1> QED
    BY <1>1, <1>2, LenProperties
-----------------------------------------------------------------------------
\* The types, of the connector's variables and of the relay's, with the bounds on
\* what has been read so far.
ConnectorTypes ==
    /\ down \in Seq(Nat) /\ told \in Seq(Nat) /\ response \in Seq(Nat)
    /\ accepted \in BOOLEAN /\ closed \in BOOLEAN
    /\ kind \in Kinds /\ step \in Steps /\ skip \in Nat /\ asked \in Messages
    /\ Len(response) <= MaxReply
    /\ step = "idle" => response = <<>>
    /\ step = "response" => Len(response) < MaxReply

RelayTypes ==
    /\ port \in {"tcp", "http", "https"} /\ headLen \in Nat /\ named \in BOOLEAN
    /\ pc \in {"head", "connect", "copy"} \cup Ended
    /\ sent \in Seq(Nat) /\ wire \in Seq(Nat) /\ buffer \in Seq(Nat)
    /\ head \in Seq(Nat) /\ up \in Seq(Nat) /\ got \in Seq(Nat)
    /\ fin \in BOOLEAN /\ upFin \in BOOLEAN /\ gotFin \in BOOLEAN
    /\ Len(buffer) <= BufSize
    /\ pc = "head" => port # "tcp" /\ Len(head) < headLen
    /\ pc = "too_long" => headLen > MaxHead

Shape == ConnectorTypes /\ RelayTypes

LEMMA ShapeTypes == Shape => TypeOK
BY DEF Shape, ConnectorTypes, RelayTypes, TypeOK, Messages

LEMMA InitTypes == Init => Shape
<1> SUFFICES ASSUME Init PROVE Shape
    OBVIOUS
<1>1. <<>> \in Seq(Nat) /\ Len(<<>>) = 0
    OBVIOUS
<1>2. ConnectorTypes
    <2>1. ConnectorInit
        BY DEF Init
    <2>2. 0 <= MaxReply
        BY ReplyLimit
    <2> QED
        BY <1>1, <2>1, <2>2 DEF ConnectorInit, ConnectorTypes, Steps, Messages
<1>3. RelayTypes
    <2>1. 0 <= BufSize
        BY SizesPositive
    <2>2. \A h \in HeadLens : h \in Nat /\ 0 < h
        BY HeadsPositive
    <2>3. /\ port \in {"tcp", "http", "https"} /\ headLen \in Nat
          /\ pc \in {"head", "connect"} /\ (pc = "head" => port # "tcp" /\ 0 < headLen)
        BY <2>2 DEF Init
    <2>4. /\ sent = <<>> /\ wire = <<>> /\ buffer = <<>> /\ head = <<>> /\ up = <<>> /\ got = <<>>
          /\ fin \in BOOLEAN /\ upFin \in BOOLEAN /\ gotFin \in BOOLEAN /\ named \in BOOLEAN
        BY DEF Init
    <2> QED
        BY <1>1, <2>1, <2>3, <2>4 DEF RelayTypes, Ended
<1> QED
    BY <1>2, <1>3 DEF Shape

\* Reading the first n bytes of the proxy's stream.
LEMMA ReadShape ==
    ASSUME ConnectorTypes, NEW n \in Nat, ReadExact(n)
    PROVE  /\ down' \in Seq(Nat) /\ Len(down') = Len(down) - n /\ Len(down) >= n
           /\ down' = SubSeq(down, n + 1, Len(down))
           /\ \A i \in 1..n : down[i] \in Nat
<1>1. n \in 0..Len(down)
    BY LenProperties DEF ReadExact, ConnectorTypes
<1> QED
    BY <1>1, Split DEF ReadExact, ConnectorTypes

LEMMA ProxyTypes == ConnectorTypes /\ Proxy => ConnectorTypes'
<1> SUFFICES ASSUME ConnectorTypes, Proxy PROVE ConnectorTypes'
    OBVIOUS
<1>1. CASE ProxyAnswers
    <2>1. PICK a \in Answers[asked] : down' = down \o a /\ accepted' = Accepts(asked, a)
        BY <1>1 DEF ProxyAnswers
    <2>2. a \in Seq(Nat)
        BY AnswerShape DEF ConnectorTypes
    <2>3. down' \in Seq(Nat) /\ accepted' \in BOOLEAN
        BY <2>1, <2>2 DEF ConnectorTypes, Accepts
    <2> QED
        BY <1>1, <2>3 DEF ProxyAnswers, ConnectorTypes, Messages
<1>2. CASE ProxyLeaves
    <2>1. PICK a \in Answers[asked], n \in 0..2 : n < Len(a) /\ down' = down \o SubSeq(a, 1, n)
        BY <1>2 DEF ProxyLeaves
    <2>2. a \in Seq(Nat) /\ n \in 0..Len(a)
        BY <2>1, AnswerShape DEF ConnectorTypes
    <2>3. SubSeq(a, 1, n) \in Seq(Nat)
        BY <2>2, Split
    <2>4. down' \in Seq(Nat)
        BY <2>1, <2>3 DEF ConnectorTypes
    <2> QED
        BY <1>2, <2>4 DEF ProxyLeaves, ConnectorTypes
<1>3. CASE TargetSends
    <2>1. TargetBytes + Len(told) \in Nat
        BY DEF ConnectorTypes, TargetBytes
    <2> QED
        BY <1>3, <2>1 DEF TargetSends, ConnectorTypes
<1>4. CASE TargetFinishes
    BY <1>4 DEF TargetFinishes, ConnectorTypes
<1> QED
    BY <1>1, <1>2, <1>3, <1>4 DEF Proxy

LEMMA DialogueTypes == ConnectorTypes /\ (Dialogue \/ Dial) => ConnectorTypes'
<1> SUFFICES ASSUME ConnectorTypes, Dialogue \/ Dial PROVE ConnectorTypes'
    OBVIOUS
<1> USE DEF Steps, Reading, Messages
<1>1. CASE Dial
    <2>1. 0 < MaxReply /\ (step = "idle" => Len(response) = 0)
        BY ReplyLimit DEF ConnectorTypes
    <2> QED
        BY <1>1, <2>1 DEF Dial, Ask, ConnectorTypes
<1>2. CASE Short
    BY <1>2 DEF Short, ConnectorTypes
<1>3. CASE Method
    BY <1>3, ReadShape DEF Method, Ask, ConnectorTypes
<1>4. CASE Auth
    BY <1>4, ReadShape DEF Auth, Ask, ConnectorTypes
<1>5. CASE ReplyHeader
    <2>1. down' \in Seq(Nat)
        BY <1>5, ReadShape DEF ReplyHeader
    <2>2. skip' \in Nat /\ step' \in {"length", "discard", "refused"}
        BY <1>5 DEF ReplyHeader, AddressBytes, ConnectorTypes
    <2> QED
        BY <1>5, <2>1, <2>2 DEF ReplyHeader, ConnectorTypes
<1>6. CASE DomainLength
    <2>1. down' \in Seq(Nat) /\ down[1] \in Nat
        BY <1>6, ReadShape DEF DomainLength
    <2> QED
        BY <1>6, <2>1 DEF DomainLength, ConnectorTypes
<1>7. CASE Discard
    <2>1. down' \in Seq(Nat)
        BY <1>7, ReadShape DEF Discard, ConnectorTypes
    <2> QED
        BY <1>7, <2>1 DEF Discard, ConnectorTypes
<1>8. CASE ReadResponse
    <2>1. down' \in Seq(Nat) /\ down[1] \in Nat
        BY <1>8, ReadShape DEF ReadResponse
    <2>2. response' \in Seq(Nat) /\ Len(response') = Len(response) + 1
        BY <1>8, <2>1 DEF ReadResponse, ConnectorTypes
    <2>3. Len(response) < MaxReply /\ Len(response) \in Nat /\ MaxReply \in Nat
        BY <1>8, ReplyLimit DEF ReadResponse, ConnectorTypes
    <2>4. \/ step' \in {"open", "refused"}
          \/ step' = step /\ Len(response') < MaxReply
        BY <1>8 DEF ReadResponse
    <2> QED
        BY <1>8, <2>1, <2>2, <2>3, <2>4 DEF ReadResponse, ConnectorTypes
<1> QED
    BY <1>1, <1>2, <1>3, <1>4, <1>5, <1>6, <1>7, <1>8 DEF Dialogue

\* The number of bytes a turn takes from s.
LEMMA Counted ==
    ASSUME NEW s \in Seq(Nat), NEW n \in 1..Len(s)
    PROVE  n \in 0..Len(s) /\ n \in Nat /\ Len(s) \in Nat
BY LenProperties

\* What is wanted from the BufReader, while there is a head to read.
LEMMA WantedShape ==
    ASSUME RelayTypes, pc = "head"
    PROVE  Wanted \in Nat /\ Wanted > 0
<1>1. Len(head) \in Nat /\ headLen \in Nat /\ Len(head) < headLen
    BY LenProperties DEF RelayTypes
<1> QED
    BY <1>1 DEF Wanted

\* Reading n bytes from wire to the head.
LEMMA CapturedShape ==
    ASSUME RelayTypes, NEW bytes \in Seq(Nat), Captured(bytes)
    PROVE  /\ head' \in Seq(Nat) /\ pc' \in {"head", "connect", "failed"}
           /\ pc' = "head" => Len(head') < headLen
           /\ pc' = "connect" => Len(head') >= headLen
<1>1. Len(bytes) \in Nat /\ headLen \in Nat
    BY LenProperties DEF RelayTypes
<1> QED
    BY <1>1 DEF Captured

LEMMA HeadTypes ==
    RelayTypes /\ (ReadHead \/ HeadTooLong \/ FillBuffer \/ TakeFromBuffer \/ HeadCut)
        => RelayTypes'
<1> SUFFICES ASSUME RelayTypes,
                    ReadHead \/ HeadTooLong \/ FillBuffer \/ TakeFromBuffer \/ HeadCut
             PROVE  RelayTypes'
    OBVIOUS
<1> USE DEF Ended
<1>1. CASE ReadHead
    <2>1. PICK n \in 1..Len(wire) :
              wire' = Rest(wire, n) /\ Captured(head \o Take(wire, n))
        BY <1>1 DEF ReadHead
    <2>2. head \o Take(wire, n) \in Seq(Nat) /\ wire' \in Seq(Nat)
        BY <2>1, Counted, Moved DEF RelayTypes
    <2> QED
        BY <1>1, <2>1, <2>2, CapturedShape
        DEF ReadHead, RelayTypes, request, client, results
<1>2. CASE HeadTooLong
    <2>1. Len(head) \in Nat /\ headLen \in Nat /\ MaxHead \in Nat
        BY LenProperties, SizesPositive DEF RelayTypes
    <2>2. headLen > MaxHead
        BY <1>2, <2>1 DEF HeadTooLong, RelayTypes
    <2> QED
        BY <1>2, <2>2 DEF HeadTooLong, RelayTypes, request, client, results
<1>3. CASE FillBuffer
    <2>0. Wanted \in Nat /\ BufSize \in Nat
        BY <1>3, WantedShape, SizesPositive DEF FillBuffer
    <2>1. CASE Wanted < BufSize
        <3>1. PICK n \in 1..Len(wire) : n <= BufSize /\ wire' = Rest(wire, n) /\ buffer' = Take(wire, n)
            BY <1>3, <2>0, <2>1 DEF FillBuffer
        <3>2. n \in 0..Len(wire)
            BY Counted DEF RelayTypes
        <3>3. wire' \in Seq(Nat) /\ buffer' \in Seq(Nat) /\ Len(buffer') = n
            BY <3>1, <3>2, Split DEF Take, Rest, RelayTypes
        <3>4. UNCHANGED <<pc, head>>
            BY <1>3, <2>0, <2>1 DEF FillBuffer
        <3> QED
            BY <1>3, <3>1, <3>3, <3>4 DEF FillBuffer, RelayTypes, request, client, results
    <2>2. CASE Wanted >= BufSize
        <3>1. PICK n \in 1..Len(wire) : wire' = Rest(wire, n) /\ Captured(head \o Take(wire, n))
            BY <1>3, <2>0, <2>2 DEF FillBuffer
        <3>2. head \o Take(wire, n) \in Seq(Nat) /\ wire' \in Seq(Nat) /\ UNCHANGED buffer
            BY <1>3, <2>0, <2>2, <3>1, Counted, Moved DEF FillBuffer, RelayTypes
        <3> QED
            BY <1>3, <3>1, <3>2, CapturedShape
            DEF FillBuffer, RelayTypes, request, client, results
    <2> QED
        BY <2>0, <2>1, <2>2
<1>4. CASE TakeFromBuffer
    <2>1. PICK n \in 0..Len(buffer) :
              buffer' = Rest(buffer, n) /\ Captured(head \o Take(buffer, n))
        <3> DEFINE n == IF Wanted < Len(buffer) THEN Wanted ELSE Len(buffer)
        <3>1. n \in 0..Len(buffer)
            BY <1>4, WantedShape, LenProperties DEF TakeFromBuffer, RelayTypes
        <3> QED
            BY <1>4, <3>1 DEF TakeFromBuffer
    <2>2. /\ head \o Take(buffer, n) \in Seq(Nat) /\ buffer' \in Seq(Nat)
          /\ Len(buffer') = Len(buffer) - n
        BY <2>1, Moved DEF RelayTypes
    <2>3. Len(buffer') <= BufSize
        BY <2>2, SizesPositive, LenProperties DEF RelayTypes
    <2> QED
        BY <1>4, <2>1, <2>2, <2>3, CapturedShape
        DEF TakeFromBuffer, RelayTypes, request, client, results
<1>5. CASE HeadCut
    BY <1>5 DEF HeadCut, RelayTypes, request, client, results
<1> QED
    BY <1>1, <1>2, <1>3, <1>4, <1>5

LEMMA CopyTypes ==
    ConnectorTypes /\ RelayTypes /\ (CopyUp \/ CopyDown) => (ConnectorTypes /\ RelayTypes)'
<1> SUFFICES ASSUME ConnectorTypes, RelayTypes, CopyUp \/ CopyDown
             PROVE  (ConnectorTypes /\ RelayTypes)'
    OBVIOUS
<1> USE DEF Ended
<1>1. CASE CopyUp
    <2>1. PICK n \in 1..Len(wire) : up' = up \o Take(wire, n) /\ wire' = Rest(wire, n)
        BY <1>1 DEF CopyUp
    <2>2. up' \in Seq(Nat) /\ wire' \in Seq(Nat)
        BY <2>1, Counted, Moved DEF RelayTypes
    <2> QED
        BY <1>1, <2>2 DEF CopyUp, RelayTypes, ConnectorTypes, request, client, connector
<1>2. CASE CopyDown
    <2>1. PICK n \in 1..Len(down) : got' = got \o Take(down, n) /\ down' = Rest(down, n)
        BY <1>2 DEF CopyDown
    <2>2. got' \in Seq(Nat) /\ down' \in Seq(Nat)
        BY <2>1, Counted, Moved DEF RelayTypes, ConnectorTypes
    <2> QED
        BY <1>2, <2>2 DEF CopyDown, RelayTypes, ConnectorTypes, request, client
<1> QED
    BY <1>1, <1>2

LEMMA NextTypes == Shape /\ [Next]_vars => Shape'
<1> SUFFICES ASSUME ConnectorTypes, RelayTypes, [Next]_vars
             PROVE  (ConnectorTypes /\ RelayTypes)'
    BY DEF Shape
<1> USE DEF Ended
<1>1. ASSUME UNCHANGED connector PROVE ConnectorTypes'
    BY <1>1 DEF connector, ConnectorTypes
<1>2. ASSUME UNCHANGED <<request, client, wire, buffer, head, results>>, pc' = pc
      PROVE  RelayTypes'
    BY <1>2 DEF request, client, results, RelayTypes
<1>3. ASSUME UNCHANGED <<request, client, wire, buffer, head, up, got>>,
             pc' \in {"connect", "copy", "done", "failed"},
             upFin' \in BOOLEAN, gotFin' \in BOOLEAN
      PROVE  RelayTypes'
    BY <1>3 DEF request, client, RelayTypes
<1>4. CASE ClientSends
    <2>1. Len(sent) + 1 \in Nat
        BY LenProperties DEF RelayTypes
    <2> QED
        BY <1>1, <1>4, <2>1 DEF ClientSends, RelayTypes, request, results
<1>5. CASE ClientFinishes
    BY <1>1, <1>5 DEF ClientFinishes, RelayTypes, request, results
<1>6. CASE Live /\ Proxy /\ UNCHANGED <<request, pc, client, wire, buffer, head, results>>
    BY <1>2, <1>6, ProxyTypes
<1>7. CASE ReadHead \/ HeadTooLong \/ FillBuffer \/ TakeFromBuffer \/ HeadCut
    BY <1>1, <1>7, HeadTypes DEF ReadHead, HeadTooLong, FillBuffer, TakeFromBuffer, HeadCut
<1>8. CASE Connect
    <2>1. CASE named /\ Dial /\ UNCHANGED pc
        BY <1>2, <1>8, <2>1, DialogueTypes DEF Connect
    <2>2. CASE pc' = "failed" /\ UNCHANGED connector
        BY <1>1, <1>3, <1>8, <2>2 DEF Connect, results, RelayTypes
    <2> QED
        BY <1>8, <2>1, <2>2 DEF Connect
<1>9. CASE Negotiate
    BY <1>2, <1>9, DialogueTypes DEF Negotiate
<1>10. CASE ConnectFailed \/ Done \/ Breaks
    BY <1>1, <1>3, <1>10 DEF ConnectFailed, Done, Breaks, results, RelayTypes
<1>11. CASE Replay
    <2>1. <<>> \in Seq(Nat) /\ Len(<<>>) = 0 /\ 0 <= BufSize
        BY SizesPositive
    <2> QED
        BY <1>1, <1>11, <2>1 DEF Replay, RelayTypes, request, client
<1>12. CASE UpEnds \/ DownEnds
    BY <1>1, <1>3, <1>12 DEF UpEnds, DownEnds, RelayTypes
<1>13. CASE CopyUp \/ CopyDown
    BY <1>13, CopyTypes
<1>14. CASE UNCHANGED vars
    BY <1>1, <1>2, <1>14 DEF vars
<1> QED
    BY <1>4, <1>5, <1>6, <1>7, <1>8, <1>9, <1>10, <1>11, <1>12, <1>13, <1>14
    DEF Next, Peers, Task

\* The relay is well typed, reads no more than its buffer and its limits hold.
THEOREM TypeCorrect == Spec => []TypeOK
BY InitTypes, NextTypes, ShapeTypes, PTL DEF Spec

\* A head is refused for its length only if it is longer than the limit, in however
\* many reads it arrives (proxy.rs:398-418).
THEOREM OnlyLongHeadsRefused == Spec => []RefusesOnlyLongHeads
<1>1. Shape => RefusesOnlyLongHeads
    BY DEF Shape, RelayTypes, RefusesOnlyLongHeads
<1> QED
    BY InitTypes, NextTypes, <1>1, PTL DEF Spec
-----------------------------------------------------------------------------
\* What is left of the proxy's answer in front of the target's bytes, once it has
\* accepted: the connector, wherever it stands, will take exactly that much.
Owed(rest) ==
    /\ step = "header"   => Framed(rest)
    /\ step = "length"   => Len(rest) >= 1 /\ Len(rest) = rest[1] + 3
    /\ step = "discard"  => Len(rest) = skip
    /\ step = "response" => Terminated(rest)

\* The message each read belongs to.
Question == [method |-> "greeting", auth |-> "auth", header |-> "connect",
             length |-> "connect", discard |-> "connect", response |-> "CONNECT"]

\* The proxy has not accepted, and nothing it may have said passes for acceptance.
Withheld ==
    /\ told = <<>> /\ got = <<>>
    /\ asked # "nothing" /\ ~closed => down = <<>> /\ response = <<>>
    /\ step \in {"method", "auth"} => Len(down) <= 2 /\ response = <<>>
    /\ step = "header" /\ Len(down) >= 4 => down[2] # 0
    /\ step \notin {"length", "discard"}
    /\ step = "response" => \/ \A i \in 1..Len(down) : down[i] # EndOfHead
                            \/ response = <<>> /\ down[1] = Forbidden
                            \/ response # <<>> /\ response[1] = Forbidden

Granted ==
    /\ asked = "nothing" /\ got = <<>>
    /\ step \notin {"method", "auth"}
    /\ \E rest \in Seq(Nat) : down = rest \o told /\ Owed(rest)

\* Where the dialogue and the bytes behind it stand.
Tunnel ==
    /\ step = "idle" => /\ asked = "nothing" /\ ~accepted /\ ~closed
                        /\ down = <<>> /\ told = <<>> /\ got = <<>>
    /\ step \in Reading => /\ asked \in {"nothing", Question[step]}
                           /\ ~accepted => Withheld
                           /\ accepted => Granted
    /\ step = "open" => asked = "nothing" /\ accepted /\ told = got \o down
    /\ step = "refused" => got = <<>>

LEMMA InitTunnel == Init => Tunnel
BY DEF Init, ConnectorInit, Tunnel, Reading

\* A message that still waits for its answer waits with nothing else in the stream.
LEMMA AskedNothingElse ==
    ASSUME ConnectorTypes, Tunnel, asked # "nothing", ~closed, step # "refused"
    PROVE  /\ step \in {"method", "auth", "header", "response"} /\ asked = Question[step]
           /\ ~accepted /\ Withheld /\ down = <<>> /\ response = <<>>
<1>1. step \in Reading /\ asked = Question[step]
    BY DEF ConnectorTypes, Tunnel, Steps
<1>2. ~accepted /\ Withheld
    BY <1>1 DEF Tunnel, Granted, ConnectorTypes
<1> QED
    BY <1>1, <1>2 DEF Withheld, Reading

LEMMA AnswersTunnel ==
    ASSUME ConnectorTypes, Tunnel, ProxyAnswers, got' = got PROVE Tunnel'
<1>1. PICK a \in Answers[asked] : down' = down \o a /\ accepted' = Accepts(asked, a)
    BY DEF ProxyAnswers
<1>2. asked # "nothing" /\ a \in Seq(Nat)
    BY AnswerShape DEF ConnectorTypes
<1>3. ~closed /\ asked' = "nothing" /\ UNCHANGED <<kind, step, closed, told, skip, response>>
    BY DEF ProxyAnswers
<1>4. CASE step = "refused"
    BY <1>3, <1>4 DEF Tunnel, Reading
<1>5. CASE step # "refused"
    <2>1. /\ step \in {"method", "auth", "header", "response"} /\ asked = Question[step]
          /\ ~accepted /\ Withheld /\ down = <<>> /\ response = <<>>
        BY <1>2, <1>3, <1>5, AskedNothingElse
    <2>2. down' = a /\ told = <<>> /\ got = <<>> /\ a = a \o told
        BY <1>1, <1>2, <2>1 DEF Withheld
    <2>3. CASE step \in {"method", "auth"}
        <3>1. Len(a) = 2 /\ ~accepted'
            BY <1>1, <2>1, <2>3, ShortAnswers DEF Question, Accepts
        <3> QED
            BY <1>3, <2>1, <2>2, <2>3, <3>1 DEF Tunnel, Withheld, Reading
    <2>4. CASE step = "header"
        <3>1. asked = "connect" /\ accepted' = (a[2] = 0) /\ (a[2] = 0 => Framed(a))
            BY <1>1, <2>1, <2>4, ConnectAnswers DEF Question, Accepts
        <3>2. CASE a[2] = 0
            <4>1. Granted'
                BY <1>2, <1>3, <2>2, <2>4, <3>1, <3>2 DEF Granted, Owed
            <4> QED
                BY <1>3, <2>4, <3>1, <3>2, <4>1 DEF Tunnel, Reading
        <3>3. CASE a[2] # 0
            <4>1. Withheld'
                BY <1>3, <2>1, <2>2, <2>4, <3>3 DEF Withheld
            <4> QED
                BY <1>3, <2>4, <3>1, <3>3, <4>1 DEF Tunnel, Reading
        <3> QED
            BY <3>2, <3>3
    <2>5. CASE step = "response"
        <3>1. accepted' = (a[1] = OK) /\ a[1] \in {OK, Forbidden} /\ Terminated(a)
            BY <1>1, <2>1, <2>5, ResponseAnswers DEF Question, Accepts
        <3>2. CASE a[1] = OK
            <4>1. Granted'
                BY <1>2, <1>3, <2>2, <2>5, <3>1, <3>2 DEF Granted, Owed
            <4> QED
                BY <1>3, <2>5, <3>1, <3>2, <4>1 DEF Tunnel, Reading
        <3>3. CASE a[1] # OK
            <4>1. Withheld'
                BY <1>3, <2>1, <2>2, <2>5, <3>1, <3>3 DEF Withheld
            <4> QED
                BY <1>3, <2>5, <3>1, <3>3, <4>1 DEF Tunnel, Reading
        <3> QED
            BY <3>2, <3>3
    <2> QED
        BY <2>1, <2>3, <2>4, <2>5
<1> QED
    BY <1>4, <1>5

\* A part of an answer is too short to be taken for one.
LEMMA LeavesTunnel ==
    ASSUME ConnectorTypes, Tunnel, ProxyLeaves, got' = got PROVE Tunnel'
<1>1. PICK a \in Answers[asked], n \in 0..2 : n < Len(a) /\ down' = down \o SubSeq(a, 1, n)
    BY DEF ProxyLeaves
<1>2. asked # "nothing" /\ a \in Seq(Nat) /\ n \in 0..Len(a) /\ Len(a) \in Nat
    BY <1>1, AnswerShape DEF ConnectorTypes
<1>3. ~closed /\ closed' /\ UNCHANGED <<kind, step, asked, accepted, told, skip, response>>
    BY DEF ProxyLeaves
<1>4. CASE step = "refused"
    BY <1>3, <1>4 DEF Tunnel, Reading
<1>5. CASE step # "refused"
    <2>1. /\ step \in {"method", "auth", "header", "response"} /\ asked = Question[step]
          /\ ~accepted /\ Withheld /\ down = <<>> /\ response = <<>>
        BY <1>2, <1>3, <1>5, AskedNothingElse
    <2>2. SubSeq(a, 1, n) \in Seq(Nat) /\ Len(SubSeq(a, 1, n)) = n
          /\ \A i \in 1..n : SubSeq(a, 1, n)[i] = a[i]
        BY <1>2, Split
    <2>3. down' = SubSeq(a, 1, n) /\ Len(down') <= 2
        BY <1>1, <2>1, <2>2
    <2>4. step = "response" => \A i \in 1..Len(down') : down'[i] # EndOfHead
        <3>1. SUFFICES ASSUME step = "response", NEW i \in 1..n PROVE a[i] # EndOfHead
            BY <2>2, <2>3
        <3>2. Terminated(a)
            BY <2>1, <3>1, ResponseAnswers DEF Question
        <3> QED
            BY <1>1, <1>2, <3>2 DEF Terminated
    <2>5. Withheld'
        BY <1>3, <2>1, <2>3, <2>4 DEF Withheld
    <2> QED
        BY <1>3, <2>1, <2>5 DEF Tunnel, Reading
<1> QED
    BY <1>4, <1>5

LEMMA TargetTunnel ==
    ASSUME ConnectorTypes, Tunnel, TargetSends \/ TargetFinishes, got \in Seq(Nat), got' = got
    PROVE  Tunnel'
<1>1. accepted /\ UNCHANGED <<kind, step, asked, accepted, skip, response>>
    BY DEF TargetSends, TargetFinishes
<1>2. \/ UNCHANGED <<down, told>>
      \/ \E x \in Nat : told' = Append(told, x) /\ down' = Append(down, x)
    <2>1. TargetBytes + Len(told) \in Nat
        BY DEF ConnectorTypes, TargetBytes
    <2> QED
        BY <2>1 DEF TargetSends, TargetFinishes
<1>3. ASSUME NEW s \in Seq(Nat), down = s \o told PROVE down' = s \o told'
    <2>1. ASSUME NEW x \in Nat PROVE Append(s \o told, x) = s \o Append(told, x)
        BY AppendedBehind DEF ConnectorTypes
    <2> QED
        BY <1>2, <1>3, <2>1
<1>4. ASSUME told = got \o down PROVE told' = got \o down'
    <2>1. ASSUME NEW x \in Nat PROVE Append(got \o down, x) = got \o Append(down, x)
        BY AppendedBehind DEF ConnectorTypes
    <2> QED
        BY <1>2, <1>4, <2>1
<1>5. CASE step \in Reading
    <2>1. Granted
        BY <1>1, <1>5 DEF Tunnel
    <2>2. PICK rest \in Seq(Nat) : down = rest \o told /\ Owed(rest)
        BY <2>1 DEF Granted
    <2>3. down' = rest \o told' /\ (Owed(rest) => UNCHANGED <<step, skip>>)
        BY <1>1, <1>3, <2>2
    <2>4. Granted'
        BY <1>1, <2>1, <2>2, <2>3 DEF Granted, Owed
    <2> QED
        BY <1>1, <1>5, <2>4 DEF Tunnel, Reading
<1>6. CASE step \notin Reading
    BY <1>1, <1>4, <1>6 DEF Tunnel
<1> QED
    BY <1>5, <1>6

\* Reading n bytes of what the proxy owes leaves the others.
LEMMA OwedRead ==
    ASSUME ConnectorTypes, NEW rest \in Seq(Nat), down = rest \o told,
           NEW n \in Nat, n <= Len(rest), ReadExact(n)
    PROVE  /\ Rest(rest, n) \in Seq(Nat) /\ Len(Rest(rest, n)) = Len(rest) - n
           /\ down' = Rest(rest, n) \o told
           /\ \A i \in 1..Len(rest) : down[i] = rest[i]
           /\ \A i \in 1..(Len(rest) - n) : Rest(rest, n)[i] = rest[n + i]
<1>1. n \in 0..Len(rest) /\ Len(rest) \in Nat /\ told \in Seq(Nat)
    BY LenProperties DEF ConnectorTypes
<1>2. /\ Rest(rest, n) \in Seq(Nat) /\ Len(Rest(rest, n)) = Len(rest) - n
    BY <1>1, Split DEF Rest
<1>3. down' = Rest(rest, n) \o told
    BY <1>1, RestOfConcat DEF ReadExact, Rest
<1>4. \A i \in 1..Len(rest) : down[i] = rest[i]
    BY <1>1
<1>5. \A i \in 1..(Len(rest) - n) : Rest(rest, n)[i] = rest[n + i]
    BY <1>1 DEF Rest
<1> QED
    BY <1>2, <1>3, <1>4, <1>5

LEMMA DialTunnel ==
    ASSUME ConnectorTypes, Tunnel, Dial, got' = got PROVE Tunnel'
<1>1. /\ step = "idle" /\ asked = "nothing" /\ ~accepted /\ ~closed
      /\ down = <<>> /\ told = <<>> /\ got = <<>> /\ response = <<>>
    BY DEF Dial, Tunnel, ConnectorTypes
<1>2. UNCHANGED <<kind, down, closed, told, skip, response>>
    BY DEF Dial
<1>3. CASE step' = "refused"
    BY <1>1, <1>2, <1>3 DEF Tunnel, Reading
<1>4. CASE step' = "open" /\ accepted' /\ asked' = asked
    <2>1. <<>> = <<>> \o <<>>
        OBVIOUS
    <2> QED
        BY <1>1, <1>2, <1>4, <2>1 DEF Tunnel, Reading
<1>5. CASE /\ accepted' = accepted
           /\ \/ asked' = "greeting" /\ step' = "method"
              \/ asked' = "CONNECT" /\ step' = "response"
    <2>1. Withheld'
        BY <1>1, <1>2, <1>5 DEF Withheld
    <2> QED
        BY <1>1, <1>5, <2>1 DEF Tunnel, Reading, Question
<1> QED
    BY <1>3, <1>4, <1>5 DEF Dial, Ask

LEMMA HandshakeTunnel ==
    ASSUME ConnectorTypes, Tunnel, Method \/ Auth, got' = got PROVE Tunnel'
<1>1. /\ step \in {"method", "auth"} /\ ~accepted /\ Withheld
    BY DEF Method, Auth, Tunnel, Reading, Granted, ConnectorTypes
<1>2. UNCHANGED <<kind, accepted, closed, told, skip, response>> /\ ReadExact(2)
    BY DEF Method, Auth
<1>3. down' = <<>>
    BY <1>1, <1>2, ReadShape, EmptyOnly DEF Withheld
<1>4. \/ step' = "refused"
      \/ asked' = "connect" /\ step' = "header"
      \/ asked' = "auth" /\ step' = "auth"
    BY DEF Method, Auth, Ask
<1>5. CASE step' = "refused"
    BY <1>1, <1>2, <1>5 DEF Tunnel, Withheld, Reading
<1>6. CASE step' # "refused"
    <2>1. Withheld'
        BY <1>1, <1>2, <1>3, <1>4, <1>6 DEF Withheld
    <2> QED
        BY <1>1, <1>2, <1>4, <1>6, <2>1 DEF Tunnel, Reading, Question
<1> QED
    BY <1>5, <1>6

LEMMA ReplyTunnel ==
    ASSUME ConnectorTypes, Tunnel, ReplyHeader \/ DomainLength \/ Discard, got' = got
    PROVE  Tunnel'
<1>0. skip' \in Nat
    BY DialogueTypes DEF Dialogue, ConnectorTypes
<1>1. step \in {"header", "length", "discard"} /\ UNCHANGED <<accepted, asked, told, closed>>
    BY DEF ReplyHeader, DomainLength, Discard
<1>2. CASE ~accepted
    <2>1. step = "header" /\ Withheld
        BY <1>1, <1>2 DEF Tunnel, Withheld, Reading
    <2>2. ReplyHeader /\ Len(down) >= 4
        BY <2>1 DEF ReplyHeader, DomainLength, Discard, ReadExact
    <2>3. step' = "refused"
        BY <2>1, <2>2 DEF ReplyHeader, Withheld
    <2> QED
        BY <2>1, <2>3 DEF Tunnel, Withheld, Reading
<1>3. CASE accepted
    <2>1. Granted
        BY <1>1, <1>3 DEF Tunnel, Reading
    <2>2. PICK rest \in Seq(Nat) : down = rest \o told /\ Owed(rest)
        BY <2>1 DEF Granted
    <2>3. Len(rest) \in Nat /\ \A i \in 1..Len(rest) : rest[i] \in Nat
        BY LenProperties, ElementOfSeq
    <2>4. ASSUME NEW n \in Nat, n <= Len(rest), ReadExact(n), step' \in {"length", "discard"},
                 step' = "length" => n + 1 <= Len(rest) /\ Len(rest) = n + rest[n + 1] + 3,
                 step' = "discard" => Len(rest) = n + skip'
          PROVE  Tunnel'
        <3>1. /\ Rest(rest, n) \in Seq(Nat) /\ Len(Rest(rest, n)) = Len(rest) - n
              /\ down' = Rest(rest, n) \o told
              /\ \A i \in 1..(Len(rest) - n) : Rest(rest, n)[i] = rest[n + i]
            BY <2>2, <2>4, OwedRead
        <3> DEFINE r == Rest(rest, n)
        <3>2. step' = "length" => Len(r) >= 1 /\ Len(r) = r[1] + 3
            <4>1. SUFFICES ASSUME step' = "length" PROVE Len(r) >= 1 /\ Len(r) = r[1] + 3
                OBVIOUS
            <4>2. Len(r) >= 1 /\ 1 \in 1..(Len(rest) - n)
                BY <2>3, <2>4, <3>1, <4>1
            <4>3. r[1] = rest[n + 1] /\ rest[n + 1] \in Nat
                BY <2>3, <2>4, <3>1, <4>1, <4>2
            <4>4. Len(rest) = n + rest[n + 1] + 3
                BY <2>4, <4>1
            <4> QED
                BY <2>3, <2>4, <3>1, <4>2, <4>3, <4>4
        <3>3. step' = "discard" => Len(r) = skip'
            BY SMTT(40), <1>0, <2>3, <2>4, <3>1
        <3>4. r \in Seq(Nat) /\ down' = r \o told'
            BY <1>1, <3>1
        <3> HIDE DEF r
        <3>5. Granted'
            BY <1>1, <2>1, <2>4, <3>2, <3>3, <3>4 DEF Granted, Owed
        <3> QED
            BY <1>1, <1>3, <2>1, <2>4, <3>5 DEF Tunnel, Reading, Question
    <2>5. CASE step' = "refused"
        BY <2>1, <2>5 DEF Tunnel, Granted, Reading
    <2>6. CASE ReplyHeader
        <3>1. Framed(rest) /\ ReadExact(4) /\ down[4] = rest[4]
            BY <2>2, <2>3, <2>6 DEF Owed, ReplyHeader, Framed, ConnectorTypes
        <3>2. 4 \in Nat /\ 4 <= Len(rest)
            BY <3>1 DEF Framed
        <3>3. CASE rest[4] = 3 /\ step' = "length"
            BY <2>3, <2>4, <3>1, <3>2, <3>3 DEF Framed
        <3>4. CASE rest[4] \in {1, 4} /\ step' = "discard" /\ skip' = AddressBytes(rest[4])
            <4>1. Len(rest) = 4 + skip'
                BY <3>1, <3>4 DEF Framed, AddressBytes
            <4> QED
                BY <2>4, <3>1, <3>2, <3>4, <4>1
        <3> QED
            BY <2>5, <2>6, <3>1, <3>3, <3>4 DEF ReplyHeader
    <2>7. CASE DomainLength
        <3>1. Len(rest) >= 1 /\ Len(rest) = rest[1] + 3 /\ down[1] = rest[1]
            BY <2>2, <2>3, <2>7 DEF Owed, DomainLength, ConnectorTypes
        <3>2. PICK n \in Nat : n = 1 /\ ReadExact(n)
            BY <2>7 DEF DomainLength
        <3>3. /\ step' = "discard" /\ n <= Len(rest)
              /\ rest[1] \in Nat /\ Len(rest) = n + skip'
            BY <2>3, <2>7, <3>1, <3>2 DEF DomainLength
        <3> QED
            BY <2>4, <3>2, <3>3
    <2>8. CASE Discard
        <3>1. /\ Len(rest) = skip /\ ReadExact(skip) /\ step' = "open"
              /\ skip \in Nat /\ skip <= Len(rest)
            BY <2>2, <2>3, <2>8 DEF Owed, Discard, ConnectorTypes
        <3>2. /\ Rest(rest, skip) \in Seq(Nat) /\ Len(Rest(rest, skip)) = Len(rest) - skip
              /\ down' = Rest(rest, skip) \o told
            BY <2>2, <2>3, <3>1, OwedRead
        <3>4. Rest(rest, skip) = <<>>
            BY <3>1, <3>2, EmptyOnly
        <3>3. down' = told /\ told = <<>> \o told
            BY <3>2, <3>4 DEF ConnectorTypes
        <3> QED
            BY <1>1, <1>3, <2>1, <3>1, <3>3 DEF Tunnel, Granted, Reading
    <2> QED
        BY <2>6, <2>7, <2>8
<1> QED
    BY <1>2, <1>3 DEF ConnectorTypes

LEMMA ResponseTunnel ==
    ASSUME ConnectorTypes, Tunnel, ReadResponse, got' = got PROVE Tunnel'
<1>1. /\ step = "response" /\ ReadExact(1) /\ response' = Append(response, down[1])
      /\ UNCHANGED <<kind, asked, accepted, closed, told, skip>>
    BY DEF ReadResponse
<1>2. /\ Len(down) >= 1 /\ down[1] \in Nat /\ Len(down) \in Nat
      /\ down' \in Seq(Nat) /\ Len(down') = Len(down) - 1
      /\ \A i \in 1..Len(down') : down'[i] = down[i + 1]
    BY <1>1, ReadShape, LenProperties DEF ConnectorTypes
<1>3. /\ response' \in Seq(Nat) /\ response' # <<>> /\ Last(response') = down[1]
      /\ Head(response') = response'[1]
      /\ response = <<>> => response'[1] = down[1]
      /\ response # <<>> => response'[1] = response[1]
    <2>1. response \in Seq(Nat) /\ Len(response) \in Nat /\ (response # <<>> => Len(response) >= 1)
        BY LenProperties, EmptyOnly DEF ConnectorTypes
    <2>2. /\ response' \in Seq(Nat) /\ Len(response') = Len(response) + 1
          /\ \A i \in 1..Len(response) : response'[i] = response[i]
          /\ response'[Len(response) + 1] = down[1]
        BY <1>1, <1>2, <2>1, AppendProperties
    <2>3. response' # <<>> /\ Last(response') = down[1] /\ Head(response') = response'[1]
        BY <2>1, <2>2 DEF Last
    <2>4. response = <<>> => response'[1] = down[1]
        BY <2>2
    <2>5. response # <<>> => response'[1] = response[1]
        BY <2>1, <2>2
    <2> QED
        BY <2>2, <2>3, <2>4, <2>5
<1>4. \/ down[1] = EndOfHead /\ response'[1] = OK /\ step' = "open"
      \/ down[1] # EndOfHead /\ step' = "response"
      \/ step' = "refused"
    BY <1>1, <1>3 DEF ReadResponse
<1>5. CASE ~accepted
    <2>1. Withheld
        BY <1>1, <1>5 DEF Tunnel, Reading
    <2>2. \/ \A i \in 1..Len(down) : down[i] # EndOfHead
          \/ response = <<>> /\ down[1] = Forbidden
          \/ response # <<>> /\ response[1] = Forbidden
        BY <1>1, <2>1 DEF Withheld
    <2>3. step' # "open"
        BY <1>2, <1>3, <1>4, <2>2 DEF OK, Forbidden, EndOfHead
    <2>4. CASE step' = "refused"
        BY <2>1, <2>4 DEF Tunnel, Withheld, Reading
    <2>5. CASE step' = "response"
        <3>1. \/ \A i \in 1..Len(down') : down'[i] # EndOfHead
              \/ response'[1] = Forbidden
            BY <1>2, <1>3, <2>2
        <3>2. asked' = "nothing" \/ closed'
            BY <1>1, <1>2, <2>1 DEF Withheld
        <3>3. Withheld'
            BY <1>1, <1>3, <2>1, <2>5, <3>1, <3>2 DEF Withheld
        <3> QED
            BY <1>1, <1>5, <2>5, <3>3 DEF Tunnel, Reading
    <2> QED
        BY <1>4, <2>3, <2>4, <2>5
<1>6. CASE accepted
    <2>1. Granted
        BY <1>1, <1>6 DEF Tunnel, Reading
    <2>2. PICK rest \in Seq(Nat) : down = rest \o told /\ Terminated(rest)
        BY <1>1, <2>1 DEF Granted, Owed
    <2>3. Len(rest) \in Nat /\ Len(rest) >= 1
        BY <2>2, LenProperties, EmptyOnly DEF Terminated
    <2>8. 1 \in 1..Len(rest)
        BY <2>3
    <2> DEFINE r == Rest(rest, 1)
    <2>4. /\ r \in Seq(Nat) /\ Len(r) = Len(rest) - 1 /\ down' = r \o told
          /\ down[1] = rest[1] /\ \A i \in 1..(Len(rest) - 1) : r[i] = rest[1 + i]
        <3>1. PICK n \in Nat : n = 1 /\ n <= Len(rest) /\ ReadExact(n) /\ n \in 1..Len(rest)
            BY <1>1, <2>3
        <3>2. /\ Rest(rest, n) \in Seq(Nat) /\ Len(Rest(rest, n)) = Len(rest) - n
              /\ down' = Rest(rest, n) \o told
              /\ \A i \in 1..Len(rest) : down[i] = rest[i]
              /\ \A i \in 1..(Len(rest) - n) : Rest(rest, n)[i] = rest[n + i]
            BY <2>2, <3>1, OwedRead
        <3> QED
            BY <3>1, <3>2
    <2> HIDE DEF r
    <2>5. CASE step' = "open"
        <3>1. down[1] = EndOfHead
            BY <1>4, <2>5
        <3>2. Len(rest) = 1
            BY <2>2, <2>3, <2>4, <3>1 DEF Terminated
        <3>3. r = <<>>
            BY <2>4, <3>2, EmptyOnly
        <3>4. down' = told /\ told = <<>> \o told
            BY <2>4, <3>3 DEF ConnectorTypes
        <3> QED
            BY <1>1, <1>6, <2>1, <2>5, <3>4 DEF Tunnel, Granted, Reading
    <2>6. CASE step' = "response" /\ down[1] # EndOfHead
        <3>1. Len(rest) # 1
            BY <2>2, <2>3, <2>4, <2>6, <2>8 DEF Terminated
        <3>2. ASSUME NEW i \in 1..Len(r) PROVE r[i] = EndOfHead <=> i = Len(r)
            <4>1. 1 + i \in 1..Len(rest) /\ r[i] = rest[1 + i]
                BY <2>3, <2>4, <3>2
            <4>2. rest[1 + i] = EndOfHead <=> 1 + i = Len(rest)
                BY <2>2, <4>1 DEF Terminated
            <4>3. 1 + i = Len(rest) <=> i = Len(r)
                BY <2>3, <2>4, <3>2
            <4> QED
                BY <4>1, <4>2, <4>3
        <3>3. Terminated(r)
            BY <2>3, <2>4, <3>1, <3>2 DEF Terminated
        <3>4. Granted'
            BY <1>1, <2>1, <2>4, <2>6, <3>3 DEF Granted, Owed
        <3> QED
            BY <1>1, <1>6, <2>6, <3>4 DEF Tunnel, Reading
    <2>7. CASE step' = "refused"
        BY <2>1, <2>7 DEF Tunnel, Granted, Reading
    <2> QED
        BY <1>4, <2>5, <2>6, <2>7
<1> QED
    BY <1>5, <1>6 DEF ConnectorTypes

LEMMA DialogueTunnel ==
    ASSUME ConnectorTypes, Tunnel, Dialogue \/ Dial, got' = got PROVE Tunnel'
<1>1. CASE Short
    <2>1. got = <<>> /\ step' = "refused"
        BY <1>1 DEF Short, Tunnel, Withheld, Granted, ConnectorTypes
    <2> QED
        BY <2>1 DEF Tunnel, Reading
<1> QED
    BY <1>1, DialTunnel, HandshakeTunnel, ReplyTunnel, ResponseTunnel DEF Dialogue

\* How far the relay is with its connector.
Link == /\ pc = "head" => step = "idle"
        /\ pc \in {"copy", "done"} => step = "open"
        /\ up # <<>> => step = "open"

LEMMA InitLink == Init => Link
BY DEF Init, ConnectorInit, Link

LEMMA NextTunnel == Shape /\ Tunnel /\ Link /\ [Next]_vars => (Tunnel /\ Link)'
<1> SUFFICES ASSUME ConnectorTypes, RelayTypes, Tunnel, Link, [Next]_vars
             PROVE  (Tunnel /\ Link)'
    BY DEF Shape
<1>1. ASSUME UNCHANGED connector, got' = got PROVE Tunnel'
    BY <1>1 DEF connector, Tunnel, Withheld, Granted, Owed
<1>2. CASE Live /\ Proxy /\ UNCHANGED <<request, pc, client, wire, buffer, head, results>>
    <2>1. Tunnel'
        BY <1>2, AnswersTunnel, LeavesTunnel, TargetTunnel DEF Proxy, results, RelayTypes
    <2>2. step' = step
        BY <1>2 DEF Proxy, ProxyAnswers, ProxyLeaves, TargetSends, TargetFinishes
    <2> QED
        BY <1>2, <2>1, <2>2 DEF Link, results
<1>3. CASE Connect
    <2>1. CASE Dial /\ pc' = pc
        BY <1>3, <2>1, DialogueTunnel DEF Connect, Dial, Link, results
    <2>2. CASE pc' = "failed" /\ UNCHANGED connector
        BY <1>1, <1>3, <2>2 DEF Connect, Link, results, connector
    <2> QED
        BY <1>3, <2>1, <2>2 DEF Connect
<1>4. CASE Negotiate
    <2>1. Tunnel'
        BY <1>4, DialogueTunnel DEF Negotiate, results
    <2>2. step \in Reading
        BY <1>4 DEF Negotiate, Dialogue, Short, Method, Auth, ReplyHeader, DomainLength, Discard,
                    ReadResponse, Reading
    <2>3. up = <<>> /\ pc = "connect"
        BY <1>4, <2>2 DEF Negotiate, Link, Reading
    <2> QED
        BY <1>4, <2>1, <2>3 DEF Negotiate, Link, results
<1>5. CASE CopyDown
    <2>1. PICK n \in 1..Len(down) : got' = got \o Take(down, n) /\ down' = Rest(down, n)
        BY <1>5 DEF CopyDown
    <2>2. got' \o down' = got \o down
        BY <2>1, Counted, Moved DEF RelayTypes, ConnectorTypes
    <2>3. step = "open"
        BY <1>5 DEF CopyDown, Link
    <2> QED
        BY <1>5, <2>2, <2>3 DEF CopyDown, Tunnel, Link, Reading
<1>6. CASE CopyUp
    BY <1>1, <1>6 DEF CopyUp, Link, connector
<1>7. CASE Replay
    BY <1>1, <1>7 DEF Replay, Link, connector
<1>8. CASE ReadHead \/ FillBuffer \/ TakeFromBuffer
    BY <1>1, <1>8 DEF ReadHead, FillBuffer, TakeFromBuffer, Captured, Link, connector, results
<1>9. CASE ClientSends \/ ClientFinishes
    BY <1>1, <1>9 DEF ClientSends, ClientFinishes, Link, connector, results
<1>10. CASE HeadTooLong \/ HeadCut \/ ConnectFailed \/ Done \/ Breaks
    BY <1>1, <1>10 DEF HeadTooLong, HeadCut, ConnectFailed, Done, Breaks, Link, connector, results
<1>11. CASE UpEnds \/ DownEnds
    BY <1>1, <1>11 DEF UpEnds, DownEnds, Link, connector
<1>12. CASE UNCHANGED vars
    BY <1>1, <1>12 DEF vars, Link, connector, results
<1> QED
    BY <1>2, <1>3, <1>4, <1>5, <1>6, <1>7, <1>8, <1>9, <1>10, <1>11, <1>12 DEF Next, Peers, Task

\* Whatever the proxy answers, and wherever it breaks off, nothing of the client goes to
\* it before it has granted the tunnel: the two ends of the dialogue never disagree on
\* that (proxy.rs:170-201, 276-284).
THEOREM NothingTooEarly == Spec => []NothingBeforeAcceptance
<1>1. Tunnel /\ Link => NothingBeforeAcceptance
    BY DEF Tunnel, Link, NothingBeforeAcceptance
<1> QED
    BY InitTypes, NextTypes, InitTunnel, InitLink, NextTunnel, <1>1, PTL DEF Spec
-----------------------------------------------------------------------------
\* The client's bytes: while there is a head to read they are in the head, the buffer
\* or the socket, and a TLS client has sent no more than its head; afterwards they have
\* been written to the upstream or are in the socket.  A direction that has ended has
\* nothing left.
Upstream ==
    /\ pc \in {"head", "connect"} =>
         /\ up = <<>> /\ got = <<>> /\ sent = (head \o buffer) \o wire
         /\ port # "https" => buffer = <<>>
         /\ port = "https" => Len(sent) <= headLen
         /\ port = "https" /\ pc = "connect" => Len(head) >= headLen
    /\ pc \in {"copy", "done"} => sent = up \o wire
    /\ pc \in {"failed", "too_long"} => IsPrefix(up, sent)
    /\ upFin => fin /\ wire = <<>> /\ pc \notin {"head", "connect"}
    /\ gotFin => closed /\ down = <<>> /\ pc \notin {"head", "connect"}
    /\ pc = "done" => upFin /\ gotFin

LEMMA EmptyBehind == \A s \in Seq(Nat) : s \o <<>> = s /\ <<>> \o s = s
BY ConcatEmptySeq

LEMMA InitUpstream == Init => Upstream
<1> SUFFICES ASSUME Init PROVE Upstream
    OBVIOUS
<1>1. Len(<<>>) = 0 /\ <<>> = (<<>> \o <<>>) \o <<>>
    OBVIOUS
<1>2. headLen \in Nat
    BY InitTypes DEF Shape, RelayTypes
<1> QED
    BY <1>1, <1>2 DEF Init, Upstream

\* In every state what was written to the upstream is the beginning of what was sent.
LEMMA UpIsPrefix ==
    ASSUME RelayTypes, Upstream PROVE IsPrefix(up, sent)
<1>1. CASE pc \in {"head", "connect"}
    <2>1. up = <<>> /\ <<>> \in Seq(Nat) /\ sent = <<>> \o sent
        BY <1>1, EmptyBehind DEF Upstream, RelayTypes
    <2> QED
        BY <2>1, PrefixOfConcat DEF RelayTypes
<1>2. CASE pc \in {"copy", "done"}
    BY <1>2, PrefixOfConcat DEF Upstream, RelayTypes
<1> QED
    BY <1>1, <1>2 DEF Upstream, RelayTypes, Ended

\* Reading the head moves bytes, and loses none.
LEMMA HeadUpstream ==
    ASSUME RelayTypes, Upstream, ReadHead \/ FillBuffer \/ TakeFromBuffer PROVE Upstream'
<1>1. /\ pc = "head" /\ up = <<>> /\ got = <<>> /\ sent = (head \o buffer) \o wire
      /\ UNCHANGED <<port, headLen, sent, fin, up, upFin, got, gotFin, closed, down>>
      /\ ~upFin /\ ~gotFin
    BY DEF ReadHead, FillBuffer, TakeFromBuffer, Upstream, request, client, results, connector,
           RelayTypes
<1>2. ASSUME (head' \o buffer') \o wire' = (head \o buffer) \o wire,
             port # "https" => buffer' = <<>>,
             pc' \in {"head", "connect", "failed"},
             pc' = "connect" => Len(head') >= headLen
      PROVE  Upstream'
    <2>1. IsPrefix(up, sent)
        BY UpIsPrefix
    <2> QED
        BY <1>1, <1>2, <2>1 DEF Upstream
<1>3. ASSUME buffer = <<>>, NEW n \in 1..Len(wire), wire' = Rest(wire, n),
             \/ Captured(head \o Take(wire, n)) /\ buffer' = buffer
             \/ /\ buffer' = Take(wire, n) /\ UNCHANGED <<pc, head>> /\ port = "https"
      PROVE  Upstream'
    <2>1. /\ head \o Take(wire, n) \in Seq(Nat) /\ Take(wire, n) \in Seq(Nat)
          /\ (head \o Take(wire, n)) \o Rest(wire, n) = head \o wire
        BY Counted, Moved DEF RelayTypes
    <2>2. (head \o buffer) \o wire = head \o wire
        BY <1>3, EmptyBehind DEF RelayTypes
    <2>3. CASE Captured(head \o Take(wire, n)) /\ buffer' = buffer
        <3>1. /\ pc' \in {"head", "connect", "failed"} /\ (pc' = "connect" => Len(head') >= headLen)
              /\ head' = head \o Take(wire, n)
            BY <2>1, <2>3, CapturedShape DEF Captured
        <3>2. head' \o buffer' = head'
            BY <1>3, <2>1, <2>3, <3>1, EmptyBehind
        <3> QED
            BY <1>2, <1>3, <2>1, <2>2, <2>3, <3>1, <3>2
    <2>4. CASE buffer' = Take(wire, n) /\ UNCHANGED <<pc, head>> /\ port = "https"
        BY <1>1, <1>2, <1>3, <2>1, <2>2, <2>4
    <2> QED
        BY <1>3, <2>3, <2>4
<1>4. CASE ReadHead
    BY <1>1, <1>3, <1>4 DEF ReadHead, Upstream
<1>5. CASE FillBuffer
    BY <1>3, <1>5 DEF FillBuffer
<1>6. CASE TakeFromBuffer
    <2>1. PICK n \in 0..Len(buffer) :
              buffer' = Rest(buffer, n) /\ Captured(head \o Take(buffer, n))
        <3> DEFINE n == IF Wanted < Len(buffer) THEN Wanted ELSE Len(buffer)
        <3>1. n \in 0..Len(buffer)
            BY <1>1, WantedShape, LenProperties DEF RelayTypes
        <3> QED
            BY <1>6, <3>1 DEF TakeFromBuffer
    <2>2. /\ head \o Take(buffer, n) \in Seq(Nat)
          /\ (head \o Take(buffer, n)) \o Rest(buffer, n) = head \o buffer
        BY <2>1, Moved DEF RelayTypes
    <2>3. /\ pc' \in {"head", "connect", "failed"} /\ (pc' = "connect" => Len(head') >= headLen)
          /\ head' = head \o Take(buffer, n)
        BY <2>1, <2>2, CapturedShape DEF Captured
    <2>4. port = "https" /\ wire' = wire
        BY <1>6 DEF TakeFromBuffer
    <2> QED
        BY <1>2, <2>1, <2>2, <2>3, <2>4
<1> QED
    BY <1>4, <1>5, <1>6

LEMMA NextUpstream ==
    ASSUME EagerTls = FALSE
    PROVE  Shape /\ Tunnel /\ Link /\ Upstream /\ [Next]_vars => Upstream'
<1> SUFFICES ASSUME ConnectorTypes, RelayTypes, Tunnel, Link, Upstream, [Next]_vars
             PROVE  Upstream'
    BY DEF Shape
<1>1. CASE ClientSends
    <2>1. /\ UNCHANGED <<pc, port, headLen, head, buffer, up, upFin, got, gotFin, closed, down, fin>>
          /\ ~fin /\ pc \notin Ended
          /\ sent' = Append(sent, Len(sent) + 1) /\ wire' = Append(wire, Len(sent) + 1)
        BY <1>1 DEF ClientSends, Live, request, results, connector
    <2>2. Len(sent) + 1 \in Nat /\ Len(sent') = Len(sent) + 1
        BY <2>1, LenProperties, AppendProperties DEF RelayTypes
    <2>3. ASSUME NEW s \in Seq(Nat), sent = s \o wire PROVE sent' = s \o wire'
        BY <2>1, <2>2, <2>3, AppendedBehind DEF RelayTypes
    <2>4. CASE pc \in {"head", "connect"}
        <3>1. head \o buffer \in Seq(Nat)
            BY ConcatProperties DEF RelayTypes
        <3>2. sent' = (head \o buffer) \o wire'
            BY <2>3, <2>4, <3>1 DEF Upstream
        <3>3. port = "https" => Len(sent') <= headLen
            BY <1>1, <2>2, <2>4, LenProperties DEF ClientSends, MaySend, Upstream, RelayTypes
        <3> QED
            BY <2>1, <2>4, <3>2, <3>3 DEF Upstream
    <2>5. CASE pc = "copy"
        BY <2>1, <2>3, <2>5 DEF Upstream, RelayTypes
    <2> QED
        BY <2>1, <2>4, <2>5 DEF RelayTypes
<1>2. CASE Live /\ Proxy /\ UNCHANGED <<request, pc, client, wire, buffer, head, results>>
    <2>1. gotFin => closed' /\ down' = <<>>
        BY <1>2 DEF Proxy, ProxyAnswers, ProxyLeaves, TargetSends, TargetFinishes, Upstream
    <2> QED
        BY <1>2, <2>1 DEF request, client, results, Upstream
<1>3. CASE ReadHead \/ FillBuffer \/ TakeFromBuffer
    BY <1>3, HeadUpstream
<1>4. CASE Negotiate \/ Connect
    <2>1. /\ UNCHANGED <<port, headLen, sent, fin, wire, buffer, head, up, upFin, got, gotFin>>
          /\ pc = "connect" /\ pc' \in {"connect", "failed"} /\ ~upFin /\ ~gotFin
        BY <1>4 DEF Negotiate, Connect, request, client, results, Upstream, RelayTypes
    <2>2. IsPrefix(up, sent)
        BY UpIsPrefix
    <2> QED
        BY <2>1, <2>2 DEF Upstream
<1>5. CASE HeadTooLong \/ HeadCut \/ ConnectFailed \/ Breaks
    <2>1. IsPrefix(up, sent)
        BY UpIsPrefix
    <2>2. /\ UNCHANGED <<port, headLen, sent, fin, wire, buffer, head, up, upFin, got, gotFin,
                         closed, down>>
          /\ pc' \in {"failed", "too_long"}
        BY <1>5 DEF HeadTooLong, HeadCut, ConnectFailed, Breaks, request, client, results, connector
    <2> QED
        BY <2>1, <2>2 DEF Upstream
<1>6. CASE Replay
    <2>1. /\ pc = "connect" /\ pc' = "copy" /\ up' = head
          /\ UNCHANGED <<sent, fin, wire, upFin, gotFin, closed, down>>
        BY <1>6 DEF Replay, client, connector
    <2>2. sent = (head \o buffer) \o wire /\ ~upFin /\ ~gotFin
        BY <2>1 DEF Upstream, RelayTypes
    <2>3. buffer = <<>>
        <3>1. CASE port # "https"
            BY <2>1, <3>1 DEF Upstream
        <3>2. CASE port = "https"
            <4>1. Len(sent) <= headLen /\ headLen <= Len(head)
                BY <2>1, <3>2 DEF Upstream, RelayTypes
            <4>2. Len(sent) = (Len(head) + Len(buffer)) + Len(wire)
                BY <2>2, ConcatProperties DEF RelayTypes
            <4>3. Len(head) \in Nat /\ Len(buffer) \in Nat /\ Len(wire) \in Nat /\ headLen \in Nat
                BY LenProperties DEF RelayTypes
            <4>4. Len(buffer) = 0
                BY <4>1, <4>2, <4>3
            <4> QED
                BY <4>4, EmptyOnly DEF RelayTypes
        <3> QED
            BY <3>1, <3>2
    <2>4. head \o buffer = head
        BY <2>3, EmptyBehind DEF RelayTypes
    <2> QED
        BY <2>1, <2>2, <2>4 DEF Upstream
<1>7. CASE CopyUp
    <2>1. PICK n \in 1..Len(wire) : up' = up \o Take(wire, n) /\ wire' = Rest(wire, n)
        BY <1>7 DEF CopyUp
    <2>2. up' \o wire' = up \o wire
        BY <2>1, Counted, Moved DEF RelayTypes
    <2>3. wire # <<>>
        BY <2>1
    <2> QED
        BY <1>7, <2>2, <2>3 DEF CopyUp, Upstream, request, client, connector
<1>8. CASE CopyDown
    <2>1. down # <<>>
        BY <1>8 DEF CopyDown
    <2> QED
        BY <1>8, <2>1 DEF CopyDown, Upstream, request, client
<1>9. CASE ClientFinishes
    BY <1>9 DEF ClientFinishes, Upstream, request, results, connector
<1>10. CASE UpEnds \/ DownEnds \/ Done
    <2>1. CASE UpEnds
        BY <2>1 DEF UpEnds, Upstream, request, client, connector
    <2>2. CASE DownEnds
        BY <2>2 DEF DownEnds, Upstream, request, client, connector
    <2>3. CASE Done
        BY <2>3 DEF Done, Upstream, request, client, results, connector
    <2> QED
        BY <1>10, <2>1, <2>2, <2>3
<1>11. CASE UNCHANGED vars
    BY <1>11 DEF vars, Upstream, request, client, results, connector
<1> QED
    BY <1>1, <1>2, <1>3, <1>4, <1>5, <1>6, <1>7, <1>8, <1>9, <1>10, <1>11 DEF Next, Peers, Task

\* A relay that ends well has handed over every byte in both directions, for any limits
\* and any splits of the streams, provided that a TLS client waits for the answer to its
\* ClientHello.
THEOREM EndedWellIsComplete == ASSUME EagerTls = FALSE PROVE Spec => []DoneMeansDelivered
<1>1. Shape /\ Tunnel /\ Link /\ Upstream => DoneMeansDelivered
    <2> SUFFICES ASSUME Shape, Tunnel, Link, Upstream, pc = "done"
                 PROVE  up = sent /\ got = told
        BY DEF DoneMeansDelivered
    <2>1. sent = up \o <<>> /\ told = got \o <<>>
        BY DEF Upstream, Tunnel, Link
    <2> QED
        BY <2>1, EmptyBehind DEF Shape, RelayTypes
<1>2. Shape /\ Tunnel /\ Link /\ Upstream /\ [Next]_vars => Upstream'
    BY NextUpstream
<1> QED
    BY InitTypes, NextTypes, InitTunnel, InitLink, NextTunnel, InitUpstream, <1>1, <1>2,
       PTL DEF Spec

\* What was written to the client is the beginning of what the target sent.
LEMMA DownIsPrefix ==
    ASSUME ConnectorTypes, RelayTypes, Tunnel PROVE IsPrefix(got, told)
<1>1. CASE step = "open"
    BY <1>1, PrefixOfConcat DEF Tunnel, ConnectorTypes, RelayTypes
<1>2. CASE step # "open"
    <2>1. got = <<>>
        BY <1>2 DEF Tunnel, Withheld, Granted, ConnectorTypes, Steps
    <2>2. <<>> \in Seq(Nat) /\ told = <<>> \o told
        BY EmptyBehind DEF ConnectorTypes
    <2> QED
        BY <2>1, <2>2, PrefixOfConcat DEF ConnectorTypes
<1> QED
    BY <1>1, <1>2

\* A step adds to the end of a stream, or leaves it alone.
LEMMA Grows ==
    ASSUME NEW s \in Seq(Nat), NEW t,
           t = s \/ (\E x \in Nat : t = Append(s, x)) \/ (\E r \in Seq(Nat) : t = s \o r)
    PROVE  IsPrefix(s, t)
<1>1. <<>> \in Seq(Nat) /\ s = s \o <<>>
    BY EmptyBehind
<1>2. \A x \in Nat : <<x>> \in Seq(Nat) /\ Append(s, x) = s \o <<x>>
    BY AppendIsConcat
<1> QED
    BY <1>1, <1>2, PrefixOfConcat

LEMMA StreamsGrow ==
    ASSUME ConnectorTypes, RelayTypes, Upstream, [Next]_vars
    PROVE  IsPrefix(sent, sent') /\ IsPrefix(up, up') /\ IsPrefix(told, told') /\ IsPrefix(got, got')
<1>1. sent' = sent \/ \E x \in Nat : sent' = Append(sent, x)
    <2>1. Len(sent) + 1 \in Nat
        BY LenProperties DEF RelayTypes
    <2> QED
        BY <2>1 DEF Next, Peers, Task, vars, client, ClientSends, ClientFinishes, ReadHead,
                    HeadTooLong, FillBuffer, TakeFromBuffer, HeadCut, Connect, Negotiate,
                    ConnectFailed, Replay, UpEnds, DownEnds, Done, CopyUp, CopyDown, Breaks
<1>2. up' = up \/ \E r \in Seq(Nat) : up' = up \o r
    <2>1. CASE CopyUp
        <3>1. \A n \in 1..Len(wire) : Take(wire, n) \in Seq(Nat)
            BY Counted, Moved DEF RelayTypes
        <3> QED
            BY <2>1, <3>1 DEF CopyUp
    <2>2. CASE Replay
        <3>1. up = <<>> /\ up' = head
            BY <2>2 DEF Replay, Upstream
        <3> QED
            BY <3>1, EmptyBehind DEF RelayTypes
    <2>3. CASE ~CopyUp /\ ~Replay
        BY <2>3 DEF Next, Peers, Task, vars, results, ClientSends, ClientFinishes, ReadHead,
                    HeadTooLong, FillBuffer, TakeFromBuffer, HeadCut, Connect, Negotiate,
                    ConnectFailed, UpEnds, DownEnds, Done, CopyDown, Breaks
    <2> QED
        BY <2>1, <2>2, <2>3
<1>3. told' = told \/ \E x \in Nat : told' = Append(told, x)
    <2>1. TargetBytes + Len(told) \in Nat
        BY DEF ConnectorTypes, TargetBytes
    <2>2. ASSUME Proxy PROVE told' = told \/ \E x \in Nat : told' = Append(told, x)
        BY <2>1, <2>2 DEF Proxy, ProxyAnswers, ProxyLeaves, TargetSends, TargetFinishes
    <2>3. ASSUME Dialogue \/ Dial PROVE told' = told
        BY <2>3 DEF Dialogue, Dial, Short, Method, Auth, ReplyHeader, DomainLength, Discard, ReadResponse
    <2>4. ASSUME UNCHANGED connector PROVE told' = told
        BY <2>4 DEF connector
    <2> QED
        BY <2>2, <2>3, <2>4 DEF Next, Peers, Task, vars, ClientSends, ClientFinishes, ReadHead,
                    HeadTooLong, FillBuffer, TakeFromBuffer, HeadCut, Connect, Negotiate,
                    ConnectFailed, Replay, UpEnds, DownEnds, Done, CopyUp, CopyDown, Breaks
<1>4. got' = got \/ \E r \in Seq(Nat) : got' = got \o r
    <2>1. CASE CopyDown
        <3>1. \A n \in 1..Len(down) : Take(down, n) \in Seq(Nat)
            BY Counted, Moved DEF RelayTypes, ConnectorTypes
        <3> QED
            BY <2>1, <3>1 DEF CopyDown
    <2>2. CASE ~CopyDown
        BY <2>2 DEF Next, Peers, Task, vars, results, ClientSends, ClientFinishes, ReadHead,
                    HeadTooLong, FillBuffer, TakeFromBuffer, HeadCut, Connect, Negotiate,
                    ConnectFailed, Replay, UpEnds, DownEnds, Done, CopyUp, Breaks
    <2> QED
        BY <2>1, <2>2
<1>5. sent \in Seq(Nat) /\ up \in Seq(Nat) /\ told \in Seq(Nat) /\ got \in Seq(Nat)
    BY DEF RelayTypes, ConnectorTypes
<1> QED
    BY <1>1, <1>2, <1>3, <1>4, <1>5, Grows

\* Neither end has been handed what the other did not send.
NothingForged == IsPrefix(up, sent) /\ IsPrefix(got, told)

\* The relay, with its head, its read-ahead and the dialogue between, is two pipes.
THEOREM RelayImplementsByteRelay == ASSUME EagerTls = FALSE PROVE Spec => ImplementsByteRelay
<1>1. Init => Bytes!Init
    BY DEF Init, ConnectorInit, Bytes!Init
<1>2. Shape /\ Tunnel /\ Upstream => NothingForged
    BY UpIsPrefix, DownIsPrefix DEF Shape, NothingForged
<1>3. Shape /\ Upstream /\ [Next]_vars /\ NothingForged' => [Bytes!Next]_<<sent, up, told, got>>
    <2> SUFFICES ASSUME Shape, Upstream, [Next]_vars, NothingForged' PROVE Bytes!Next
        OBVIOUS
    <2>1. IsPrefix(sent, sent') /\ IsPrefix(up, up') /\ IsPrefix(told, told') /\ IsPrefix(got, got')
        BY StreamsGrow DEF Shape
    <2> QED
        BY <2>1 DEF NothingForged, Bytes!Next, Bytes!Pipe, Bytes!IsPrefix, IsPrefix
<1>4. Shape /\ Tunnel /\ Link /\ Upstream /\ [Next]_vars => Upstream'
    BY NextUpstream
<1> QED
    BY InitTypes, NextTypes, InitTunnel, InitLink, NextTunnel, InitUpstream, <1>1, <1>2, <1>3, <1>4,
       PTL DEF Spec, ImplementsByteRelay, Bytes!Spec
==============================================================================
