------------------------------- MODULE Relay -------------------------------
(***************************************************************************)
(* One accepted connection of a TCP listener of src/src/proxy.rs, from its  *)
(* first byte to its last: the gateway relays on ports 80 and 443, which    *)
(* read the request head or the ClientHello to find out where to connect,   *)
(* and the transparent relay, which knows.  Then connect(), the captured    *)
(* head is written to the target, and copy_bidirectional runs.              *)
(*                                                                         *)
(* The client's bytes are numbered 1, 2, ...  A head is the first HeadLen   *)
(* of them; the first byte of a TLS head stands for the record header.      *)
(***************************************************************************)
EXTENDS Connectors

CONSTANTS HeadLens,   \* lengths of request heads
          MaxHead,    \* MAX_HTTP_REQUEST_HEAD_SIZE
          BufSize,    \* capacity of BufReader
          MaxUp,      \* bound on the bytes a client sends
          EagerTls    \* a TLS client may send on before the target has answered

ASSUME HeadsPositive == HeadLens \subseteq Nat \ {0}
ASSUME SizesPositive == MaxHead \in Nat \ {0} /\ BufSize \in Nat \ {0}

VARIABLES port,      \* the listener: "tcp", "http" or "https"
          headLen,   \* length of the client's head
          named,     \* the head has a usable host name; "tcp": the flow is known
          pc,        \* where the relay's task stands
          sent,      \* history: the bytes the client sent
          fin,       \* the client sends no more
          wire,      \* its bytes not yet read from the socket
          buffer,    \* "https": read ahead by the BufReader
          head,      \* captured to be replayed
          up,        \* history: the bytes written to the upstream
          upFin,     \* the upstream's write half is shut down
          got,       \* history: the bytes written to the client
          gotFin     \* the client's write half is shut down

request == <<port, headLen, named>>
client  == <<sent, fin>>
results == <<up, upFin, got, gotFin>>
vars    == <<request, pc, client, wire, buffer, head, results, connector>>

Ended == {"done", "failed", "too_long"}

TypeOK ==
    /\ port \in {"tcp", "http", "https"}
    /\ headLen \in Nat /\ named \in BOOLEAN
    /\ pc \in {"head", "connect", "copy"} \cup Ended
    /\ \A s \in {sent, wire, buffer, head, up} : s \in Seq(Nat)
    /\ got \in Seq(Nat) /\ told \in Seq(Nat) /\ down \in Seq(Nat) /\ response \in Seq(Nat)
    /\ \A b \in {fin, upFin, gotFin, accepted, closed} : b \in BOOLEAN
    /\ Len(buffer) <= BufSize /\ Len(response) <= MaxReply
    /\ kind \in Kinds /\ step \in Steps /\ skip \in Nat
    /\ asked \in {"nothing", "greeting", "auth", "connect", "CONNECT"}

Init ==
    /\ ConnectorInit
    /\ \/ port = "tcp" /\ headLen = 0 /\ pc = "connect"
       \/ port \in {"http", "https"} /\ headLen \in HeadLens /\ pc = "head"
    /\ named \in BOOLEAN
    /\ sent = <<>> /\ fin = FALSE /\ wire = <<>>
    /\ buffer = <<>> /\ head = <<>>
    /\ up = <<>> /\ upFin = FALSE /\ got = <<>> /\ gotFin = FALSE

Live == pc \notin Ended

\* The first n of s, and the others.
Take(s, n) == SubSeq(s, 1, n)
Rest(s, n) == SubSeq(s, n + 1, Len(s))
-----------------------------------------------------------------------------
\* A TLS client normally waits for the target's answer to its ClientHello.
MaySend == port = "https" /\ Len(sent) >= headLen => EagerTls \/ got # <<>>

ClientSends ==
    /\ Live /\ ~fin /\ Len(sent) < MaxUp
    /\ MaySend
    /\ sent' = Append(sent, Len(sent) + 1)
    /\ wire' = Append(wire, Len(sent) + 1)
    /\ UNCHANGED <<request, pc, fin, buffer, head, results, connector>>

ClientFinishes ==
    /\ Live /\ ~fin
    /\ fin' = TRUE
    /\ UNCHANGED <<request, pc, sent, wire, buffer, head, results, connector>>
-----------------------------------------------------------------------------
\* The captured head is read on to find the host; then connect() begins.
Captured(bytes) ==
    /\ head' = bytes
    /\ pc' = IF Len(bytes) < headLen THEN "head" ELSE IF named THEN "connect" ELSE "failed"

\* Mutant of ReadHead: the limit is tested on what has just been read.
ReadHeadLimitAfter ==
    /\ pc = "head" /\ port = "http"
    /\ \E n \in 1..Len(wire) :
         /\ wire' = Rest(wire, n)
         /\ IF Len(head) + n >= MaxHead
            THEN pc' = "too_long" /\ UNCHANGED head
            ELSE Captured(head \o Take(wire, n))
    /\ UNCHANGED <<request, client, buffer, results, connector>>

\* read_http_request_head: one read appends whatever has arrived.
ReadHead ==
    /\ pc = "head" /\ port = "http"
    /\ Len(head) < MaxHead
    /\ \E n \in 1..Len(wire) : wire' = Rest(wire, n) /\ Captured(head \o Take(wire, n))
    /\ UNCHANGED <<request, client, buffer, results, connector>>

HeadTooLong ==
    /\ pc = "head" /\ port = "http"
    /\ Len(head) >= MaxHead
    /\ pc' = "too_long"
    /\ UNCHANGED <<request, client, wire, buffer, head, results, connector>>

\* read_tls_sni: read_exact of the record header, then of the record.
Wanted == IF head = <<>> THEN 1 ELSE headLen - Len(head)

\* The BufReader is empty: it fills up with all there is, or is bypassed when the
\* caller asks for as much as it can hold.
FillBuffer ==
    /\ pc = "head" /\ port = "https"
    /\ buffer = <<>>
    /\ \/ /\ Wanted < BufSize
          /\ \E n \in 1..Len(wire) :
               n <= BufSize /\ wire' = Rest(wire, n) /\ buffer' = Take(wire, n)
          /\ UNCHANGED <<pc, head>>
       \/ /\ Wanted >= BufSize
          /\ \E n \in 1..Len(wire) :
               n <= Wanted /\ wire' = Rest(wire, n) /\ Captured(head \o Take(wire, n))
          /\ UNCHANGED buffer
    /\ UNCHANGED <<request, client, results, connector>>

TakeFromBuffer ==
    /\ pc = "head" /\ port = "https"
    /\ buffer # <<>>
    /\ LET n == IF Wanted < Len(buffer) THEN Wanted ELSE Len(buffer) IN
         buffer' = Rest(buffer, n) /\ Captured(head \o Take(buffer, n))
    /\ UNCHANGED <<request, client, wire, results, connector>>

\* The client's stream ends inside the head.
HeadCut ==
    /\ pc = "head" /\ fin /\ wire = <<>> /\ buffer = <<>>
    /\ port = "http" => Len(head) < MaxHead
    /\ pc' = "failed"
    /\ UNCHANGED <<request, client, wire, buffer, head, results, connector>>
-----------------------------------------------------------------------------
\* relay_one without a flow gives up; every other relay dials.
Connect ==
    /\ pc = "connect" /\ step = "idle"
    /\ \/ named /\ Dial /\ UNCHANGED pc
       \/ ~named /\ pc' = "failed" /\ UNCHANGED connector
    /\ UNCHANGED <<request, client, wire, buffer, head, results>>

Negotiate ==
    /\ pc = "connect"
    /\ Dialogue
    /\ UNCHANGED <<request, pc, client, wire, buffer, head, results>>

ConnectFailed ==
    /\ pc = "connect" /\ step = "refused"
    /\ pc' = "failed"
    /\ UNCHANGED <<request, client, wire, buffer, head, results, connector>>

\* write_all of the head; into_inner drops the BufReader with what it holds.
Replay ==
    /\ pc = "connect" /\ step = "open"
    /\ up' = head
    /\ buffer' = <<>>
    /\ pc' = "copy"
    /\ UNCHANGED <<request, client, wire, head, upFin, got, gotFin, connector>>
-----------------------------------------------------------------------------
\* Mutant of CopyUp: the first direction to end stops the other one.
CopyUpUntilEnd ==
    /\ pc = "copy" /\ ~gotFin
    /\ \E n \in 1..Len(wire) : up' = up \o Take(wire, n) /\ wire' = Rest(wire, n)
    /\ UNCHANGED <<request, pc, client, buffer, head, upFin, got, gotFin, connector>>

\* copy_bidirectional: each direction by itself, ended by shutting down its writer.
CopyUp ==
    /\ pc = "copy"
    /\ \E n \in 1..Len(wire) : up' = up \o Take(wire, n) /\ wire' = Rest(wire, n)
    /\ UNCHANGED <<request, pc, client, buffer, head, upFin, got, gotFin, connector>>

CopyDown ==
    /\ pc = "copy"
    /\ \E n \in 1..Len(down) : got' = got \o Take(down, n) /\ down' = Rest(down, n)
    /\ UNCHANGED <<request, pc, client, wire, buffer, head, up, upFin, gotFin,
                   kind, step, asked, accepted, closed, told, skip, response>>

UpEnds ==
    /\ pc = "copy" /\ fin /\ wire = <<>> /\ ~upFin
    /\ upFin' = TRUE
    /\ UNCHANGED <<request, pc, client, wire, buffer, head, up, got, gotFin, connector>>

DownEnds ==
    /\ pc = "copy" /\ closed /\ down = <<>> /\ ~gotFin
    /\ gotFin' = TRUE
    /\ UNCHANGED <<request, pc, client, wire, buffer, head, up, upFin, got, connector>>

\* Mutant of Done: one direction is enough.
DoneWithOne ==
    /\ pc = "copy" /\ (upFin \/ gotFin)
    /\ pc' = "done"
    /\ UNCHANGED <<request, client, wire, buffer, head, results, connector>>

Done ==
    /\ pc = "copy" /\ upFin /\ gotFin
    /\ pc' = "done"
    /\ UNCHANGED <<request, client, wire, buffer, head, results, connector>>

\* Any read or write of either socket may fail, and the first bytes of a head may show
\* that it is none; both end the task.
Breaks ==
    /\ Live
    /\ pc' = "failed"
    /\ UNCHANGED <<request, client, wire, buffer, head, results, connector>>

Peers == \/ ClientSends \/ ClientFinishes
         \/ /\ Live /\ Proxy
            /\ UNCHANGED <<request, pc, client, wire, buffer, head, results>>

Task == \/ ReadHead \/ HeadTooLong \/ FillBuffer \/ TakeFromBuffer \/ HeadCut
        \/ Connect \/ Negotiate \/ ConnectFailed \/ Replay
        \/ UpEnds \/ DownEnds \/ Done

Next == Peers \/ Task \/ CopyUp \/ CopyDown \/ Breaks

Spec == Init /\ [][Next]_vars

\* The task is polled while it can go on, in both directions of the copy; the peers
\* owe nothing.
FairSpec == Spec /\ WF_vars(Task) /\ WF_vars(CopyUp) /\ WF_vars(CopyDown)
-----------------------------------------------------------------------------
\* No split of the client's bytes, no dialogue and no early word of the target
\* makes the relay lose, repeat or invent a byte in either direction: it
\* implements two pipes (proxy.rs:257-287, 381-441).
Bytes == INSTANCE ByteRelay WITH sentUp <- sent, gotUp <- up, sentDown <- told, gotDown <- got
ImplementsByteRelay == Bytes!Spec

\* "relays encrypted bytes" (docs/architecture.md:193): the target gets the bytes
\* the client sent.
TargetGetsClientBytes == IsPrefix(up, sent)

\* No byte of the client goes to the outbound proxy before the proxy has accepted
\* the tunnel (proxy.rs:170-201, 276-284).
NothingBeforeAcceptance == up # <<>> => accepted

\* A head is refused for its length only if it is longer than the limit, however its
\* bytes arrive (proxy.rs:398-418).
RefusesOnlyLongHeads == pc = "too_long" => headLen > MaxHead

\* A relay that ends well has handed over everything in both directions, also when one
\* side finished long before the other (proxy.rs:394, 440, 608).
DoneMeansDelivered == pc = "done" => up = sent /\ got = told

\* While the copy runs every byte that was sent arrives, also against a half-closed
\* direction, unless a socket fails.
CopyDelivers ==
    /\ \A n \in 1..MaxUp   : pc = "copy" /\ Len(sent) >= n ~> Len(up) >= n \/ pc = "failed"
    /\ \A n \in 1..MaxDown : pc = "copy" /\ Len(told) >= n ~> Len(got) >= n \/ pc = "failed"
=============================================================================
