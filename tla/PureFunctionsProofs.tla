------------------------ MODULE PureFunctionsProofs ------------------------
(***************************************************************************)
(* Theorems about PureFunctions for every input, however long.  What a      *)
(* function does along its input is shown by induction on the naturals, in  *)
(* the form of a set that holds 0 and with each number the next.            *)
(***************************************************************************)
EXTENDS PureFunctions, WellFoundedInduction, SequenceTheorems, FiniteSetTheorems, TLAPS

-----------------------------------------------------------------------------
\* Induction and recursion.

Less == {ss \in Nat \X Nat : ss[1] < ss[2]}

LEMMA LeastNatural ==
    ASSUME NEW T, T \subseteq Nat, T # {}
    PROVE  \E x \in T : \A y \in T : x <= y
<1>1. IsWellFoundedOn(Less, Nat)
    BY NatLessThanWellFounded DEF Less, OpToRel
<1>2. PICK x \in T : \A y \in T : ~(<<y, x>> \in Less)
    BY <1>1, WFMin
<1>3. ASSUME NEW y \in T PROVE x <= y
    <2>1. ~(<<y, x>> \in Less)
        BY <1>2
    <2> QED
        BY <2>1 DEF Less
<1> QED
    BY <1>3

LEMMA Induction ==
    ASSUME NEW S, 0 \in S, \A n \in Nat : n \in S => n + 1 \in S
    PROVE  Nat \subseteq S
<1> SUFFICES ASSUME Nat \ S # {} PROVE FALSE
    OBVIOUS
<1>1. PICK x \in Nat \ S : \A y \in Nat \ S : x <= y
    BY LeastNatural
<1>2. x - 1 \in Nat
    OBVIOUS
<1>3. x - 1 \in S
    BY <1>1, <1>2
<1> QED
    BY <1>2, <1>3

\* f is the history of a loop from 1 to N that carries a value of V.
IsRun(f, N, V, base, step) ==
    /\ f \in [0..N -> V]
    /\ f[0] = base
    /\ \A n \in 1..N : f[n] = step[n][f[n - 1]]

LEMMA Loop ==
    ASSUME NEW N \in Nat, NEW V, NEW base \in V, NEW step,
           \A n \in 1..N : \A v \in V : step[n][v] \in V
    PROVE  \E f : IsRun(f, N, V, base, step)
<1> DEFINE S == {m \in Nat : m <= N => \E f : IsRun(f, m, V, base, step)}
<1>1. 0 \in S
    <2>1. IsRun([n \in 0..0 |-> base], 0, V, base, step)
        BY DEF IsRun
    <2> QED
        BY <2>1
<1>2. ASSUME NEW m \in Nat, m \in S PROVE m + 1 \in S
    <2> SUFFICES ASSUME m + 1 <= N PROVE \E f : IsRun(f, m + 1, V, base, step)
        OBVIOUS
    <2>1. PICK f : IsRun(f, m, V, base, step)
        BY <1>2
    <2> DEFINE g == [n \in 0..(m + 1) |-> IF n = m + 1 THEN step[m + 1][f[m]] ELSE f[n]]
    <2>2. step[m + 1][f[m]] \in V
        BY <2>1 DEF IsRun
    <2>3. g \in [0..(m + 1) -> V] /\ g[0] = base
        BY <2>1, <2>2 DEF IsRun
    <2>4. ASSUME NEW n \in 1..(m + 1) PROVE g[n] = step[n][g[n - 1]]
        <3>1. CASE n = m + 1
            BY <3>1
        <3>2. CASE n # m + 1
            <4>1. n \in 1..m /\ n - 1 \in 0..m
                BY <3>2
            <4>2. f[n] = step[n][f[n - 1]]
                BY <2>1, <4>1 DEF IsRun
            <4> QED
                BY <3>2, <4>1, <4>2
        <3> QED
            BY <3>1, <3>2
    <2>5. IsRun(g, m + 1, V, base, step)
        BY <2>3, <2>4 DEF IsRun
    <2> QED
        BY <2>5
<1>3. N \in S
    <2> HIDE DEF S
    <2> QED
        BY <1>1, <1>2, Induction
<1> QED
    BY <1>3

\* Whatever steps like the loop is its history.
LEMMA OneRun ==
    ASSUME NEW N \in Nat, NEW V, NEW base, NEW step, NEW f, IsRun(f, N, V, base, step),
           NEW g, g[0] = base,
           \A n \in 1..N : g[n - 1] \in V => g[n] = step[n][g[n - 1]]
    PROVE  \A n \in 0..N : g[n] = f[n]
<1> DEFINE S == {n \in Nat : n \in 0..N => g[n] = f[n]}
<1>1. 0 \in S
    BY DEF IsRun
<1>2. ASSUME NEW n \in Nat, n \in S PROVE n + 1 \in S
    BY <1>2 DEF IsRun
<1>3. Nat \subseteq S
    <2> HIDE DEF S
    <2> QED
        BY <1>1, <1>2, Induction
<1> QED
    BY <1>3

\* f walks from any number along jump, until it may stop.
IsWalk(f, stop, out, jump) ==
    /\ f = [o \in Nat |-> f[o]]
    /\ \A o \in Nat : f[o] = IF o \in stop THEN out[o] ELSE f[jump[o]]

\* A walk that moves forward below a bound and stops beyond it is well defined.
LEMMA Walk ==
    ASSUME NEW bound \in Nat, NEW stop, NEW out, NEW jump,
           \A o \in Nat : o \in stop \/ (o < bound /\ jump[o] \in Nat /\ o < jump[o])
    PROVE  \E f : IsWalk(f, stop, out, jump)
<1> DEFINE Good(f, k) == /\ f = [o \in Nat |-> f[o]]
                         /\ \A o \in Nat : o >= bound - k =>
                               f[o] = IF o \in stop THEN out[o] ELSE f[jump[o]]
           S == {k \in Nat : \E f : Good(f, k)}
<1>1. 0 \in S
    <2>1. \A o \in Nat : o >= bound => o \in stop
        OBVIOUS
    <2>2. Good([o \in Nat |-> out[o]], 0)
        BY <2>1
    <2> QED
        BY <2>2
<1>2. ASSUME NEW k \in Nat, k \in S PROVE k + 1 \in S
    <2>1. PICK f : Good(f, k)
        BY <1>2
    <2> DEFINE m == bound - (k + 1)
               g == [o \in Nat |-> IF o # m THEN f[o]
                                   ELSE IF o \in stop THEN out[o] ELSE f[jump[o]]]
    <2>2. ASSUME NEW o \in Nat, o >= m
          PROVE  g[o] = IF o \in stop THEN out[o] ELSE g[jump[o]]
        <3>1. o \notin stop => jump[o] \in Nat /\ jump[o] # m
            BY <2>2
        <3>2. o # m => o >= bound - k
            BY <2>2
        <3>3. o # m => f[o] = IF o \in stop THEN out[o] ELSE f[jump[o]]
            BY <2>1, <3>2
        <3> HIDE DEF m
        <3> QED
            BY <3>1, <3>3
    <2>3. g = [o \in Nat |-> g[o]]
        OBVIOUS
    <2>4. Good(g, k + 1)
        <3> HIDE DEF g
        <3> QED
            BY <2>2, <2>3
    <2> QED
        <3> HIDE DEF g
        <3> QED
            BY <2>4
<1>3. bound \in S
    <2> HIDE DEF S
    <2> QED
        BY <1>1, <1>2, Induction
<1> QED
    BY <1>3 DEF IsWalk

\* Along a chain of its jumps a walk has the same value.
IsChain(chain, stop, jump) ==
    /\ chain \in Seq(Nat)
    /\ \A i \in 1..(Len(chain) - 1) : chain[i] \notin stop /\ chain[i + 1] = jump[chain[i]]

LEMMA Chain ==
    ASSUME NEW f, NEW stop, NEW out, NEW jump, IsWalk(f, stop, out, jump),
           NEW chain, IsChain(chain, stop, jump)
    PROVE  \A i \in DOMAIN chain : f[chain[1]] = f[chain[i]]
<1> DEFINE S == {k \in Nat : k + 1 \in DOMAIN chain => f[chain[1]] = f[chain[k + 1]]}
<1> USE DEF IsChain
<1>1. 0 \in S
    OBVIOUS
<1>2. ASSUME NEW k \in Nat, k \in S PROVE k + 1 \in S
    <2> SUFFICES ASSUME k + 2 \in DOMAIN chain PROVE f[chain[1]] = f[chain[k + 2]]
        OBVIOUS
    <2> DEFINE i == k + 1
    <2>1. i \in 1..(Len(chain) - 1) /\ i \in DOMAIN chain /\ chain[i] \in Nat
        OBVIOUS
    <2>2. f[chain[i]] = f[chain[i + 1]]
        BY <2>1 DEF IsWalk
    <2> QED
        BY <1>2, <2>1, <2>2
<1>3. Nat \subseteq S
    <2> HIDE DEF S
    <2> QED
        BY <1>1, <1>2, Induction
<1>4. ASSUME NEW i \in DOMAIN chain PROVE f[chain[1]] = f[chain[i]]
    <2>1. i - 1 \in Nat
        OBVIOUS
    <2> QED
        BY <1>3, <2>1
<1> QED
    BY <1>4

-----------------------------------------------------------------------------
\* The configuration.

Queried == Seq([key : STRING, value : STRING])

\* Where a query says something about the certificates
OptionsOf(query) == {i \in DOMAIN query : query[i].key \in TlsKeys}

\* parse_tls_skip_verify's loop over the pairs (src/src/config.rs:248-266)
LEMMA SkipVerifyLoop ==
    ASSUME NEW query \in Queried
    PROVE  \E f \in [0..Len(query) -> SUBSET BOOLEAN] :
              /\ SkipVerify(query) = f[Len(query)]
              /\ f[0] = {FALSE}
              /\ \A n \in 1..Len(query) : f[n] =
                    IF query[n].key \notin TlsKeys \/ f[n - 1] = {} THEN f[n - 1]
                    ELSE IF query[n].value \in YesWords THEN {TRUE}
                    ELSE IF query[n].value \in NoWords THEN {FALSE} ELSE {}
<1> DEFINE N == Len(query)
           next(n, v) == IF query[n].key \notin TlsKeys \/ v = {} THEN v
                         ELSE IF query[n].value \in YesWords THEN {TRUE}
                         ELSE IF query[n].value \in NoWords THEN {FALSE} ELSE {}
           V == SUBSET BOOLEAN
           step == [n \in 1..N |-> [v \in V |-> next(n, v)]]
           first == {FALSE}
           Eq(f) == f = [n \in 0..N |-> IF n = 0 THEN {FALSE}
                          ELSE IF query[n].key \notin TlsKeys \/ f[n - 1] = {} THEN f[n - 1]
                          ELSE IF query[n].value \in YesWords THEN {TRUE}
                          ELSE IF query[n].value \in NoWords THEN {FALSE} ELSE {}]
           E == CHOOSE f : Eq(f)
<1>1. N \in Nat /\ first \in V
    BY DEF Queried
<1>2. \A n \in 1..N : \A v \in V : step[n][v] = next(n, v) /\ next(n, v) \in V
    OBVIOUS
<1>3. PICK f : IsRun(f, N, V, first, step)
    <2> HIDE DEF V, N, first, step, next
    <2> QED
        BY <1>1, <1>2, Loop
<1>4. f \in [0..N -> V] /\ f[0] = {FALSE} /\ \A n \in 1..N : f[n] = next(n, f[n - 1])
    <2>1. \A n \in 1..N : n - 1 \in 0..N
        BY <1>1
    <2> HIDE DEF V, N, step, next
    <2> QED
        BY <1>2, <1>3, <2>1 DEF IsRun
<1>5. Eq(f)
    <2>1. \A n \in 0..N : n = 0 \/ n \in 1..N
        BY <1>1
    <2>2. DOMAIN f = 0..N /\ f = [n \in 0..N |-> f[n]]
        BY <1>4
    <2>3. \A n \in 0..N : f[n] = IF n = 0 THEN {FALSE} ELSE next(n, f[n - 1])
        <3> HIDE DEF V, N, next
        <3> QED
            BY <1>4, <2>1
    <2> HIDE DEF N
    <2> QED
        BY <2>2, <2>3
<1>6. Eq(E)
    <2> HIDE DEF Eq
    <2> QED
        BY <1>5
<1>7. SkipVerify(query) = E[N]
    BY DEF SkipVerify
<1>8. E[0] = first /\ \A n \in 1..N : E[n - 1] \in V => E[n] = step[n][E[n - 1]]
    <2>1. E[0] = first /\ \A n \in 1..N : E[n] = next(n, E[n - 1])
        <3> HIDE DEF E
        <3> QED
            BY <1>1, <1>6
    <2> HIDE DEF E, next, V, step
    <2> QED
        BY <1>2, <2>1
<1>9. E[N] = f[N]
    <2>1. N \in 0..N
        BY <1>1
    <2> HIDE DEF E, V, N, first, step, next
    <2> QED
        BY <1>1, <1>3, <1>8, <2>1, OneRun
<1> QED
    <2> HIDE DEF E
    <2> QED
        BY <1>4, <1>7, <1>9

\* What it comes to: no value is wrong, and the last one counts.
LEMMA SkipVerifyMeans ==
    ASSUME NEW query \in Queried
    PROVE  /\ SkipVerify(query) \in {{}, {TRUE}, {FALSE}}
           /\ SkipVerify(query) # {} <=>
                \A i \in OptionsOf(query) : query[i].value \in YesWords \cup NoWords
           /\ SkipVerify(query) = {TRUE} =>
                \E i \in OptionsOf(query) : /\ query[i].value \in YesWords
                                            /\ \A j \in OptionsOf(query) : j <= i
           /\ SkipVerify(query) = {FALSE} =>
                ~\E i \in OptionsOf(query) : /\ query[i].value \in YesWords
                                             /\ \A j \in OptionsOf(query) : j <= i
<1> DEFINE N == Len(query)
           Upto(n) == {i \in OptionsOf(query) : i <= n}
           Last(n) == \E i \in Upto(n) : /\ query[i].value \in YesWords
                                         /\ \A j \in Upto(n) : j <= i
           Right(n) == \A i \in Upto(n) : query[i].value \in YesWords \cup NoWords
           Means(v, n) == /\ v \in {{}, {TRUE}, {FALSE}}
                          /\ v # {} <=> Right(n)
                          /\ v = {TRUE} => Last(n)
                          /\ v = {FALSE} => ~Last(n)
<1>1. PICK f \in [0..N -> SUBSET BOOLEAN] :
         /\ SkipVerify(query) = f[N]
         /\ f[0] = {FALSE}
         /\ \A n \in 1..N : f[n] =
               IF query[n].key \notin TlsKeys \/ f[n - 1] = {} THEN f[n - 1]
               ELSE IF query[n].value \in YesWords THEN {TRUE}
               ELSE IF query[n].value \in NoWords THEN {FALSE} ELSE {}
    BY SkipVerifyLoop
<1>2. N \in Nat /\ DOMAIN query = 1..N /\ OptionsOf(query) = {i \in 1..N : query[i].key \in TlsKeys}
    BY DEF Queried, OptionsOf
<1> DEFINE S == {n \in Nat : n <= N => Means(f[n], n)}
<1>3. 0 \in S
    <2>1. Upto(0) = {}
        BY <1>2
    <2> HIDE DEF Upto
    <2> QED
        BY <1>1, <2>1
<1>4. ASSUME NEW m \in Nat, m \in S PROVE m + 1 \in S
    <2> SUFFICES ASSUME m + 1 <= N PROVE Means(f[m + 1], m + 1)
        OBVIOUS
    <2> DEFINE n == m + 1
    <2>1. n \in 1..N /\ n - 1 = m /\ Means(f[m], m)
        BY <1>2, <1>4
    <2>2. f[n] = IF query[n].key \notin TlsKeys \/ f[m] = {} THEN f[m]
                 ELSE IF query[n].value \in YesWords THEN {TRUE}
                 ELSE IF query[n].value \in NoWords THEN {FALSE} ELSE {}
        BY <1>1, <2>1
    <2>3. CASE query[n].key \notin TlsKeys
        <3>1. Upto(n) = Upto(m)
            BY <1>2, <2>1, <2>3
        <3> HIDE DEF Upto, n
        <3> QED
            BY <2>1, <2>2, <2>3, <3>1
    <2>4. CASE query[n].key \in TlsKeys
        <3>1. Upto(n) = Upto(m) \cup {n}
            BY <1>2, <2>1, <2>4
        <3>2. \A i \in Upto(n) : i <= n
            BY <1>2, <2>1
        <3>3. n \notin Upto(m)
            BY <2>1
        <3>4. Right(n) <=> Right(m) /\ query[n].value \in YesWords \cup NoWords
            <4> HIDE DEF Upto, n
            <4> QED
                BY <3>1
        <3>5. Last(n) <=> query[n].value \in YesWords
            <4>1. n \in Upto(n) /\ \A i \in Upto(n) : n <= i => i = n
                BY <1>2, <2>1, <3>1
            <4> HIDE DEF Upto, n
            <4> QED
                BY <3>2, <4>1
        <3>6. YesWords \cap NoWords = {}
            BY DEF YesWords, NoWords
        <3> HIDE DEF Upto, n, Right, Last
        <3> QED
            BY <2>1, <2>2, <2>4, <3>4, <3>5, <3>6
    <2> QED
        BY <2>3, <2>4
<1>5. Means(f[N], N)
    <2>1. Nat \subseteq S
        <3> HIDE DEF S
        <3> QED
            BY <1>3, <1>4, Induction
    <2> QED
        BY <1>2, <2>1
<1>6. Upto(N) = OptionsOf(query)
    BY <1>2
<1> QED
    BY <1>1, <1>5, <1>6

LEMMA PortMeans ==
    ASSUME NEW uri \in ProxyUris
    PROVE  /\ PortOf(uri) = NoPort <=> uri.port = NoPort /\ uri.scheme \notin {"http", "https"}
           /\ PortOf(uri) = 0 <=> uri.port = 0
<1>1. uri.port \in Nat \cup {NoPort}
    BY DEF ProxyUris
<1> QED
    BY <1>1 DEF PortOf, KnownDefault, NoPort

\* ProxyConfig::from_str, of every URI the library hands over
LEMMA FromStrMeans ==
    ASSUME NEW uri \in ProxyUris, uri # DirectWord, uri.scheme # "direct"
    PROVE  LET proxy(skip) == [kind |-> KindOf(uri.scheme),
                               endpoint |-> {[host |-> uri.host, port |-> PortOf(uri)]},
                               tls_skip_verify |-> skip]
           IN IF SoundProxy(uri, FALSE)
              THEN \E skip \in BOOLEAN :
                      /\ FromStr(uri) = {proxy(skip)}
                      /\ skip => KindOf(uri.scheme) = "https" /\
                                 \E i \in OptionsOf(uri.query) : uri.query[i].value \in YesWords
              ELSE FromStr(uri) = {}
<1> DEFINE options == OptionsOf(uri.query)
           last == \E i \in options : /\ uri.query[i].value \in YesWords
                                      /\ \A j \in options : j <= i
           right == \A i \in options : uri.query[i].value \in YesWords \cup NoWords
           parsed == uri.scheme \in ProxySchemes /\ uri.host # "" /\ PortOf(uri) # NoPort
           endpoint == {[host |-> uri.host, port |-> PortOf(uri)]}
           proxy(skip) == [kind |-> KindOf(uri.scheme), endpoint |-> endpoint,
                           tls_skip_verify |-> skip]
<1>1. uri.query \in Queried /\ uri.port \in Nat \cup {NoPort}
    BY DEF ProxyUris, Queried
<1>2. /\ SkipVerify(uri.query) \in {{}, {TRUE}, {FALSE}}
      /\ SkipVerify(uri.query) # {} <=> right
      /\ SkipVerify(uri.query) = {TRUE} => last
      /\ SkipVerify(uri.query) = {FALSE} => ~last
    BY <1>1, SkipVerifyMeans
<1>3. /\ PortOf(uri) = NoPort <=> uri.port = NoPort /\ uri.scheme \notin {"http", "https"}
      /\ PortOf(uri) = 0 <=> uri.port = 0
    BY PortMeans
<1>4. /\ KindOf(uri.scheme) = "https" <=> uri.scheme \in {"https", "https-proxy"}
      /\ KindOf(uri.scheme) # "direct"
      /\ ProxySchemes = {"socks5", "http", "http-proxy", "https", "https-proxy"}
    BY DEF KindOf, ProxySchemes, HttpSchemes, HttpsSchemes
<1>5. FromStr(uri) = IF parsed THEN {p \in {proxy(skip) : skip \in SkipVerify(uri.query)} : ValidProxy(p)}
                     ELSE {}
    BY DEF FromStr
<1>6. \A skip \in BOOLEAN :
         ValidProxy(proxy(skip)) <=> /\ uri.host # "" /\ PortOf(uri) # 0
                                     /\ KindOf(uri.scheme) # "https" => ~skip
    <2> SUFFICES ASSUME NEW skip \in BOOLEAN
                 PROVE  ValidProxy(proxy(skip)) <=>
                           /\ uri.host # "" /\ PortOf(uri) # 0
                           /\ KindOf(uri.scheme) # "https" => ~skip
        OBVIOUS
    <2>1. /\ proxy(skip).kind = KindOf(uri.scheme)
          /\ proxy(skip).endpoint = endpoint
          /\ proxy(skip).tls_skip_verify = skip
        OBVIOUS
    <2>2. (\E e \in endpoint : e.host # "" /\ e.port # 0) <=> uri.host # "" /\ PortOf(uri) # 0
        OBVIOUS
    <2> HIDE DEF proxy, endpoint
    <2> QED
        BY <1>4, <2>1, <2>2 DEF ValidProxy
<1>7. SoundProxy(uri, FALSE) <=> /\ parsed /\ PortOf(uri) # 0 /\ right
                                 /\ last => KindOf(uri.scheme) = "https"
    <2>1. SoundProxy(uri, FALSE) <=>
             /\ uri.scheme \in {"socks5", "http", "http-proxy", "https", "https-proxy"}
             /\ uri.host # "" /\ uri.port # 0
             /\ uri.port = NoPort => uri.scheme \in {"http", "https"}
             /\ right
             /\ last => uri.scheme \in {"https", "https-proxy"}
        BY DEF SoundProxy, OptionsOf
    <2> HIDE DEF right, last
    <2> QED
        BY <1>3, <1>4, <2>1
<1>8. last => \E i \in options : uri.query[i].value \in YesWords
    OBVIOUS
<1>9. CASE SkipVerify(uri.query) = {}
    BY <1>2, <1>5, <1>7, <1>9
<1>10. ASSUME NEW skip \in BOOLEAN, SkipVerify(uri.query) = {skip}
       PROVE  /\ SoundProxy(uri, FALSE) =>
                   /\ FromStr(uri) = {proxy(skip)}
                   /\ skip => KindOf(uri.scheme) = "https" /\ last
              /\ ~SoundProxy(uri, FALSE) => FromStr(uri) = {}
    <2>1. right /\ (skip <=> last)
        BY <1>2, <1>10
    <2>2. FromStr(uri) = IF parsed /\ ValidProxy(proxy(skip)) THEN {proxy(skip)} ELSE {}
        <3> HIDE DEF proxy, parsed
        <3> QED
            BY <1>5, <1>10
    <2> HIDE DEF right, last, proxy
    <2> QED
        BY <1>6, <1>7, <2>1, <2>2
<1> HIDE DEF last
<1> QED
    BY <1>2, <1>8, <1>9, <1>10

\* The proxy of a configuration, the flag applied
LEMMA ProxyMeans ==
    ASSUME NEW uri \in ProxyUris, NEW insecure \in BOOLEAN
    PROVE  /\ \A p \in FromStr(uri) :
                /\ HasConnector(WithFlag(p, insecure))
                /\ WithFlag(p, insecure).kind = "direct" <=> uri = DirectWord
                /\ WithFlag(p, insecure).tls_skip_verify =>
                      insecure \/ \E i \in DOMAIN uri.query :
                         uri.query[i].key \in TlsKeys /\ uri.query[i].value \in YesWords
                /\ insecure => WithFlag(p, insecure).tls_skip_verify
                /\ ValidProxy(WithFlag(p, insecure)) => SoundProxy(uri, insecure)
           /\ SoundProxy(uri, insecure) =>
                \E p \in FromStr(uri) : ValidProxy(WithFlag(p, insecure))
<1>1. CASE uri = DirectWord
    <2>1. FromStr(uri) = {DirectProxy}
        BY <1>1 DEF FromStr
    <2> DEFINE flagged == WithFlag(DirectProxy, insecure)
    <2>2. /\ flagged.kind = "direct" /\ flagged.endpoint = {}
          /\ flagged.tls_skip_verify <=> insecure
        BY DEF WithFlag, DirectProxy
    <2>3. SoundProxy(uri, insecure) <=> ~insecure
        BY <1>1 DEF SoundProxy
    <2>4. HasConnector(flagged) /\ (ValidProxy(flagged) <=> ~insecure)
        <3> HIDE DEF flagged
        <3> QED
            BY <2>2 DEF HasConnector, ValidProxy
    <2> QED
        <3> HIDE DEF flagged
        <3>1. \A p \in FromStr(uri) : WithFlag(p, insecure) = flagged
            BY <2>1 DEF flagged
        <3>2. \E p \in FromStr(uri) : WithFlag(p, insecure) = flagged
            BY <2>1 DEF flagged
        <3> QED
            BY <1>1, <2>2, <2>3, <2>4, <3>1, <3>2
<1>2. CASE uri # DirectWord /\ uri.scheme # "direct"
    <2> DEFINE endpoint == {[host |-> uri.host, port |-> PortOf(uri)]}
               proxy(skip) == [kind |-> KindOf(uri.scheme), endpoint |-> endpoint,
                               tls_skip_verify |-> skip]
    <2>1. KindOf(uri.scheme) # "direct"
        BY <1>2 DEF KindOf
    <2>2. KindOf(uri.scheme) = "https" <=> uri.scheme \in {"https", "https-proxy"}
        BY DEF KindOf, HttpSchemes, HttpsSchemes
    <2>3. SoundProxy(uri, insecure) <=>
             SoundProxy(uri, FALSE) /\ (insecure => KindOf(uri.scheme) = "https")
        BY <1>2, <2>2 DEF SoundProxy
    <2>4. CASE ~SoundProxy(uri, FALSE)
        BY <1>2, <2>3, <2>4, FromStrMeans
    <2>5. CASE SoundProxy(uri, FALSE)
        <3>1. PICK skip \in BOOLEAN :
                 /\ FromStr(uri) = {proxy(skip)}
                 /\ skip => KindOf(uri.scheme) = "https" /\
                            \E i \in OptionsOf(uri.query) : uri.query[i].value \in YesWords
            BY <1>2, <2>5, FromStrMeans
        <3> DEFINE flagged == WithFlag(proxy(skip), insecure)
        <3>2. flagged = proxy(skip \/ insecure)
            BY DEF WithFlag
        <3>3. /\ flagged.kind = KindOf(uri.scheme) /\ flagged.endpoint = endpoint
              /\ flagged.tls_skip_verify <=> skip \/ insecure
            <4> HIDE DEF flagged
            <4> QED
                BY <3>2
        <3>4. \E e \in endpoint : e.host # "" /\ e.port # 0
            <4>1. uri.host # "" /\ uri.port # 0 /\ uri.port \in Nat \cup {NoPort}
                BY <1>2, <2>5 DEF SoundProxy, ProxyUris
            <4>2. PortOf(uri) # 0
                BY <4>1, PortMeans
            <4> QED
                BY <4>1, <4>2
        <3>5. HasConnector(flagged)
            <4> HIDE DEF flagged
            <4> QED
                BY <3>3, <3>4 DEF HasConnector
        <3>6. ValidProxy(flagged) <=> (insecure => KindOf(uri.scheme) = "https")
            <4> HIDE DEF flagged, endpoint
            <4> QED
                BY <2>1, <3>1, <3>3, <3>4 DEF ValidProxy
        <3>7. skip => \E i \in DOMAIN uri.query :
                         uri.query[i].key \in TlsKeys /\ uri.query[i].value \in YesWords
            BY <3>1 DEF OptionsOf
        <3> HIDE DEF flagged, proxy
        <3>8. \A p \in FromStr(uri) : WithFlag(p, insecure) = flagged
            BY <3>1 DEF flagged
        <3>9. \E p \in FromStr(uri) : WithFlag(p, insecure) = flagged
            BY <3>1 DEF flagged
        <3> QED
            BY <1>2, <2>1, <2>3, <2>5, <3>3, <3>5, <3>6, <3>7, <3>8, <3>9
    <2> QED
        BY <2>4, <2>5
<1>3. CASE uri # DirectWord /\ uri.scheme = "direct"
    <2>1. FromStr(uri) = {}
        BY <1>3 DEF FromStr, ProxySchemes, HttpSchemes, HttpsSchemes
    <2>2. ~SoundProxy(uri, insecure)
        BY <1>3 DEF SoundProxy
    <2> QED
        BY <2>1, <2>2
<1> QED
    BY <1>1, <1>2, <1>3

\* A configuration's other parts
LEMMA PartsMean ==
    ASSUME NEW args \in UpArgs, NEW p,
           p.kind = "direct" <=> args.outbound = DirectWord
    PROVE  Valid(Assembled(args, p)) <=>
             /\ ValidProxy(p)
             /\ args.ssid > 0 /\ args.ssid <= 32 /\ args.password >= 8 /\ args.password <= 63
             /\ 0 \notin {args.tcp, args.dnsProxy, args.dnsPort, args.dnsTimeout}
             /\ args.tcp # args.dnsProxy
             /\ \/ args.skip \/ args.outbound = DirectWord
                \/ 0 \notin {args.probePort, args.probeTimeout}
<1>1. args.ssid \in Nat /\ args.password \in Nat /\ args.skip \in BOOLEAN
    BY UpArgsAssumption
<1>2. ValidHotspot([ssid |-> args.ssid, password |-> args.password]) <=>
         args.ssid > 0 /\ args.ssid <= 32 /\ args.password >= 8 /\ args.password <= 63
    BY <1>1 DEF ValidHotspot
<1>3. ValidPreflight([enabled |-> ~args.skip /\ p.kind # "direct",
                      port |-> args.probePort, timeout |-> args.probeTimeout]) <=>
         \/ args.skip \/ args.outbound = DirectWord
         \/ 0 \notin {args.probePort, args.probeTimeout}
    BY <1>1 DEF ValidPreflight
<1>4. ValidDns([gateway |-> args.gateway, port |-> args.dnsPort, timeout |-> args.dnsTimeout]) <=>
         args.dnsPort # 0 /\ args.dnsTimeout # 0
    BY DEF ValidDns
<1>5. ValidPorts([tcp |-> args.tcp, dns |-> args.dnsProxy]) <=>
         args.tcp # 0 /\ args.dnsProxy # 0 /\ args.tcp # args.dnsProxy
    BY DEF ValidPorts
<1> QED
    BY <1>2, <1>3, <1>4, <1>5 DEF Valid, Assembled

-----------------------------------------------------------------------------
\* The Host header.

Text == Seq(STRING)

\* split_once: the text before the first of a character
LEMMA BeforeFirst ==
    ASSUME NEW text \in Text, NEW char, NEW head \in Text,
           Len(head) < Len(text), char \notin Chars(head), text[Len(head) + 1] = char,
           \A i \in 1..Len(head) : text[i] = head[i]
    PROVE  Before(text, char) = head
<1> DEFINE found == {i \in DOMAIN text : text[i] = char}
           at == Len(head) + 1
<1>1. /\ at \in found /\ found \subseteq Nat
      /\ \A i \in found : at <= i
    BY DEF Text, Chars
<1>2. Sets!Min(found) = at
    <2> HIDE DEF found, at
    <2>1. at \in Nat
        BY <1>1
    <2>2. \A x \in found : (\A y \in found : x <= y) => x = at
        BY <1>1, <2>1
    <2> QED
        BY <1>1, <2>2 DEF Sets!Min
<1>3. Before(text, char) = SubSeq(text, 1, at - 1)
    BY <1>1, <1>2 DEF Before
<1>4. SubSeq(text, 1, at - 1) = head
    BY DEF Text
<1> QED
    BY <1>3, <1>4

LEMMA BeforeNone ==
    ASSUME NEW text \in Text, NEW char, char \notin Chars(text)
    PROVE  Before(text, char) = text
BY DEF Before, Chars

\* strip_host_port (src/src/proxy.rs:460-468)
LEMMA StripMeans ==
    ASSUME NEW value \in Text, value # <<>>, NEW host \in Text, SaysHost(value, host)
    PROVE  StripHostPort(value) = host
<1>1. CASE Head(value) # "["
    <2>1. CASE value = host
        BY <1>1, <2>1, BeforeNone DEF StripHostPort, SaysHost
    <2>2. CASE /\ Len(host) < Len(value)
               /\ SubSeq(value, 1, Len(host) + 1) = host \o <<":">>
        <3> DEFINE n == Len(host)
        <3>1. n \in Nat /\ n + 1 <= Len(value)
            BY <2>2 DEF Text
        <3>2. \A i \in 1..(n + 1) : value[i] = (host \o <<":">>)[i]
            BY <2>2, <3>1 DEF Text
        <3>3. value[n + 1] = ":" /\ \A i \in 1..n : value[i] = host[i]
            BY <3>1, <3>2 DEF Text
        <3> QED
            BY <1>1, <2>2, <3>3, BeforeFirst DEF StripHostPort, SaysHost
    <2> QED
        BY <1>1, <2>1, <2>2 DEF SaysHost
<1>2. CASE Head(value) = "[" /\ "]" \notin Chars(value)
    BY <1>2 DEF StripHostPort, SaysHost, Chars
<1>3. CASE Head(value) = "[" /\ "]" \in Chars(value)
    <2> DEFINE n == Len(host)
               inner == Tail(value)
    <2>1. /\ "]" \notin Chars(host) /\ n \in Nat /\ n + 2 <= Len(value)
          /\ SubSeq(value, 1, n + 2) = <<"[">> \o host \o <<"]">>
        BY <1>3 DEF SaysHost, Text
    <2>2. \A i \in 1..(n + 2) : value[i] = (<<"[">> \o host \o <<"]">>)[i]
        BY <2>1 DEF Text
    <2>3. value[n + 2] = "]" /\ \A i \in 1..n : value[i + 1] = host[i]
        BY <2>1, <2>2 DEF Text
    <2>4. inner \in Text /\ Len(inner) = Len(value) - 1 /\ \A i \in 1..Len(inner) : inner[i] = value[i + 1]
        BY DEF Text
    <2>5. n < Len(inner) /\ inner[n + 1] = "]" /\ \A i \in 1..n : inner[i] = host[i]
        BY <2>1, <2>3, <2>4
    <2>6. Before(inner, "]") = host
        <3> HIDE DEF inner
        <3> QED
            BY <2>1, <2>4, <2>5, BeforeFirst
    <2> QED
        BY <1>3, <2>6 DEF StripHostPort, Chars
<1> QED
    BY <1>1, <1>2, <1>3

\* parse_http_host (src/src/proxy.rs:443-458)
LEMMA HttpHostMeans ==
    ASSUME NEW request \in Requests
    PROVE  HttpHost(request.lines, request.utf8) = request.host
<1> DEFINE found == {i \in DOMAIN request.lines : request.lines[i].name = "host"}
<1>1. /\ request.lines \in Seq([name : STRING, value : Text])
      /\ request.host \subseteq Text
      /\ RequestMeans(request)
    BY RequestsAssumption DEF Text
<1>2. CASE ~request.utf8 \/ found = {}
    BY <1>1, <1>2 DEF RequestMeans, HttpHost
<1>3. CASE request.utf8 /\ found # {}
    <2> DEFINE value == request.lines[Sets!Min(found)].value
    <2>1. PICK first \in found :
             /\ \A i \in found : first <= i
             /\ IF request.lines[first].value = <<>> THEN request.host = {}
                ELSE \E host \in request.host :
                        request.host = {host} /\ SaysHost(request.lines[first].value, host)
        BY <1>1, <1>3 DEF RequestMeans
    <2>2. Sets!Min(found) = first
        <3>1. found \subseteq Nat
            BY <1>1
        <3> HIDE DEF found
        <3>2. \A x \in found : (\A y \in found : x <= y) => x = first
            BY <2>1, <3>1
        <3> QED
            BY <2>1, <3>2 DEF Sets!Min
    <2>3. value \in Text
        <3> DEFINE lines == request.lines
                   Lines == [name : STRING, value : Text]
        <3>1. lines \in Seq(Lines) /\ first \in DOMAIN lines
            BY <1>1, <2>1
        <3>2. lines[first] \in Lines
            <4> HIDE DEF lines, Lines, found
            <4> QED
                BY <3>1
        <3> HIDE DEF found
        <3> QED
            BY <2>2, <3>2
    <2>4. HttpHost(request.lines, request.utf8) =
             IF value = <<>> THEN {} ELSE {StripHostPort(value)}
        BY <1>3 DEF HttpHost
    <2> HIDE DEF value, found
    <2>5. value = request.lines[first].value
        BY <2>2 DEF value
    <2>6. CASE value = <<>>
        BY <2>1, <2>4, <2>5, <2>6
    <2>7. CASE value # <<>>
        <3>1. PICK host \in request.host : request.host = {host} /\ SaysHost(value, host)
            BY <2>1, <2>5, <2>7
        <3>2. StripHostPort(value) = host
            BY <1>1, <2>3, <2>7, <3>1, StripMeans
        <3> QED
            BY <2>4, <2>7, <3>1, <3>2
    <2> QED
        BY <2>6, <2>7
<1> QED
    BY <1>2, <1>3

-----------------------------------------------------------------------------
\* The gateway's answers.

LEMMA ByteAt ==
    ASSUME NEW b \in Seq(Byte)
    PROVE  \A o \in Nat : o < Len(b) => At(b, o) \in Nat /\ At(b, o) <= 255
<1> SUFFICES ASSUME NEW o \in Nat, o < Len(b) PROVE At(b, o) \in Nat /\ At(b, o) <= 255
    OBVIOUS
<1>1. b[o + 1] \in Byte
    OBVIOUS
<1>2. \A x \in Byte : x \in Nat /\ x <= 255
    BY DEF Byte
<1> QED
    BY <1>1, <1>2 DEF At

\* Where a name ends, by its labels (src/src/dns.rs:145-163)
LEMMA NameEndMeans ==
    ASSUME NEW b \in Seq(Byte), NEW labels, LabelsOf(b, labels),
           NEW end, end = labels[Len(labels)], ~LabelAt(b, end)
    PROVE  /\ end \in Nat /\ end >= 12
           /\ NameEnd(b) = IF end < Len(b) /\ At(b, end) = 0 THEN {end + 1} ELSE {}
<1> DEFINE stop == {o \in Nat : ~LabelAt(b, o)}
           out == [o \in Nat |-> IF o < Len(b) /\ At(b, o) = 0 THEN {o + 1} ELSE {}]
           jump == [o \in Nat |-> o + 1 + At(b, o)]
           Eq(f) == f = [offset \in Nat |->
                            IF offset >= Len(b) THEN {}
                            ELSE LET len == At(b, offset)
                                 IN IF len = 0 THEN {offset + 1}
                                    ELSE IF len >= 64 \/ offset + 1 + len > Len(b) THEN {}
                                    ELSE f[offset + 1 + len]]
           E == CHOOSE f : Eq(f)
<1>1. Len(b) \in Nat /\ \A o \in Nat : o < Len(b) => At(b, o) \in Nat /\ At(b, o) <= 255
    BY ByteAt
<1>2. \A o \in Nat : o \in stop \/ (o < Len(b) /\ jump[o] \in Nat /\ o < jump[o])
    BY <1>1 DEF LabelAt
<1>3. PICK f : IsWalk(f, stop, out, jump)
    <2> HIDE DEF stop, out, jump
    <2> QED
        BY <1>1, <1>2, Walk
<1>4. ASSUME NEW g, NEW o \in Nat
      PROVE  (IF o \in stop THEN out[o] ELSE g[jump[o]]) =
             IF o >= Len(b) THEN {}
             ELSE LET len == At(b, o)
                  IN IF len = 0 THEN {o + 1}
                     ELSE IF len >= 64 \/ o + 1 + len > Len(b) THEN {} ELSE g[o + 1 + len]
    <2>1. CASE o >= Len(b)
        BY <1>1, <2>1 DEF LabelAt
    <2>2. CASE o < Len(b)
        <3>1. At(b, o) \in Nat /\ At(b, o) <= 255
            BY <1>1, <2>2
        <3>2. /\ o \in stop <=> At(b, o) = 0 \/ At(b, o) >= 64 \/ o + 1 + At(b, o) > Len(b)
              /\ out[o] = IF At(b, o) = 0 THEN {o + 1} ELSE {}
              /\ jump[o] = o + 1 + At(b, o)
            BY <1>1, <2>2, <3>1 DEF LabelAt
        <3> HIDE DEF stop, out, jump
        <3> QED
            BY <1>1, <2>2, <3>2
    <2> QED
        BY <1>1, <2>1, <2>2
<1>5. Eq(f)
    <2> HIDE DEF stop, out, jump
    <2> QED
        BY <1>3, <1>4 DEF IsWalk
<1>6. Eq(E)
    <2> HIDE DEF Eq
    <2> QED
        BY <1>5
<1>7. IsWalk(E, stop, out, jump)
    <2> HIDE DEF stop, out, jump, E
    <2> QED
        BY <1>4, <1>6 DEF IsWalk
<1>8. NameEnd(b) = E[12]
    BY DEF NameEnd
<1>9. /\ labels \in Seq(Nat) /\ Len(labels) \in DOMAIN labels /\ labels[1] = 12
      /\ \A i \in 1..(Len(labels) - 1) : LabelAt(b, labels[i]) /\ labels[i] \in Nat /\
                                         labels[i + 1] = labels[i] + 1 + At(b, labels[i])
    BY DEF LabelsOf
<1>10. E[12] = E[end]
    <2>1. IsChain(labels, stop, jump)
        BY <1>9 DEF IsChain
    <2>2. \A i \in DOMAIN labels : E[labels[1]] = E[labels[i]]
        <3> HIDE DEF stop, out, jump, E
        <3> QED
            BY <1>7, <2>1, Chain
    <2> HIDE DEF E
    <2> QED
        BY <1>9, <2>2
<1>11. end \in Nat /\ end >= 12
    <2> DEFINE S == {k \in Nat : k + 1 \in DOMAIN labels => labels[k + 1] \in Nat /\ labels[k + 1] >= 12}
    <2>1. 0 \in S
        BY <1>9
    <2>2. ASSUME NEW k \in Nat, k \in S PROVE k + 1 \in S
        <3> SUFFICES ASSUME k + 2 \in DOMAIN labels PROVE labels[k + 2] >= 12
            BY <1>9
        <3>1. k + 1 \in 1..(Len(labels) - 1) /\ k + 1 \in DOMAIN labels
            BY <1>9
        <3>2. labels[k + 2] = labels[k + 1] + 1 + At(b, labels[k + 1]) /\ LabelAt(b, labels[k + 1])
            BY <1>9, <3>1
        <3>3. labels[k + 1] \in Nat /\ labels[k + 1] >= 12 /\ At(b, labels[k + 1]) \in Nat
            BY <1>1, <2>2, <3>1, <3>2 DEF LabelAt
        <3> QED
            BY <3>2, <3>3
    <2>3. Nat \subseteq S
        <3> HIDE DEF S
        <3> QED
            BY <2>1, <2>2, Induction
    <2>4. Len(labels) - 1 \in Nat /\ (Len(labels) - 1) + 1 = Len(labels)
        BY <1>9
    <2>5. Len(labels) - 1 \in S
        <3> HIDE DEF S
        <3> QED
            BY <2>3, <2>4
    <2> QED
        BY <1>9, <2>4, <2>5
<1>12. E[end] = out[end]
    <2> HIDE DEF out, jump, E
    <2> QED
        BY <1>7, <1>11 DEF IsWalk
<1> QED
    <2> HIDE DEF E
    <2> QED
        BY <1>8, <1>10, <1>11, <1>12

\* parse_single_question
LEMMA QuestionMeans ==
    ASSUME NEW b \in Seq(Byte), NEW labels, LabelsOf(b, labels),
           NEW end, end = labels[Len(labels)], ~LabelAt(b, end)
    PROVE  SingleQuestion(b) =
             IF Asks(b, end) THEN {[qtype |-> U16(b, end + 1), end |-> end + 5]} ELSE {}
<1>1. /\ end \in Nat /\ end >= 12 /\ Len(b) \in Nat
      /\ NameEnd(b) = IF end < Len(b) /\ At(b, end) = 0 THEN {end + 1} ELSE {}
    BY NameEndMeans
<1> DEFINE ends == {n \in NameEnd(b) : n + 4 <= Len(b) /\ U16(b, n + 2) = 1}
<1>2. SingleQuestion(b) = IF Len(b) < 17 \/ U16(b, 4) # 1 THEN {}
                          ELSE {[qtype |-> U16(b, e), end |-> e + 4] : e \in ends}
    BY DEF SingleQuestion
<1>3. CASE Asks(b, end)
    <2>1. ends = {end + 1} /\ ~(Len(b) < 17 \/ U16(b, 4) # 1)
        BY <1>1, <1>3 DEF Asks
    <2>2. end + 1 + 4 = end + 5
        BY <1>1
    <2> HIDE DEF ends
    <2> QED
        BY <1>2, <1>3, <2>1, <2>2
<1>4. CASE ~Asks(b, end)
    <2>1. ends = {} \/ U16(b, 4) # 1
        BY <1>1, <1>4 DEF Asks
    <2> HIDE DEF ends
    <2> QED
        BY <1>2, <1>4, <2>1
<1> QED
    BY <1>3, <1>4

\* x is s, of length m, followed by t, of length n.
IsJoin(x, s, m, t, n) ==
    /\ x \in Seq(Byte) /\ Len(x) = m + n
    /\ \A i \in 1..m : x[i] = s[i]
    /\ \A i \in 1..n : x[m + i] = t[i]

LEMMA Joined ==
    ASSUME NEW s \in Seq(Byte), NEW m \in Nat, Len(s) = m,
           NEW t \in Seq(Byte), NEW n \in Nat, Len(t) = n
    PROVE  IsJoin(s \o t, s, m, t, n)
BY DEF IsJoin

\* s and t are the same from offset i to offset j.
Agree(s, t, i, j) ==
    i <= j /\ j <= Len(s) /\ j <= Len(t) /\ \A k \in (i + 1)..j : s[k] = t[k]

LEMMA SameSlice ==
    ASSUME NEW s \in Seq(Byte), NEW t \in Seq(Byte), NEW i \in Nat, NEW j \in Nat, Agree(s, t, i, j)
    PROVE  Slice(s, i, j) = Slice(t, i, j)
<1> USE DEF Agree
<1>1. /\ Slice(s, i, j) \in Seq(Byte) /\ Slice(t, i, j) \in Seq(Byte)
      /\ Len(Slice(s, i, j)) = j - i /\ Len(Slice(t, i, j)) = j - i
      /\ \A k \in 1..(j - i) : Slice(s, i, j)[k] = s[i + k] /\ Slice(t, i, j)[k] = t[i + k]
    BY DEF Slice
<1>2. \A k \in 1..(j - i) : Slice(s, i, j)[k] = Slice(t, i, j)[k]
    BY <1>1
<1> QED
    BY <1>1, <1>2, SeqEqual

\* The header of an answer: the query's id, the flags and the four counts
StartsLike(head, query, records) ==
    /\ head[1] = query[1] /\ head[2] = query[2] /\ head[3] = 129 /\ head[4] = 128
    /\ head[5] = 0 /\ head[6] = 1 /\ head[7] = 0 /\ head[8] = records
    /\ head[9] = 0 /\ head[10] = 0 /\ head[11] = 0 /\ head[12] = 0

IsHeader(head, query, records) ==
    head \in Seq(Byte) /\ Len(head) = 12 /\ StartsLike(head, query, records)

LEMMA HeaderBytes ==
    ASSUME NEW query \in Seq(Byte), Len(query) >= 12, NEW records \in {0, 1}
    PROVE  IsHeader(Slice(query, 0, 2) \o <<129, 128, 0, 1>> \o <<0, records>> \o <<0, 0, 0, 0>>,
                    query, records)
<1> DEFINE id == Slice(query, 0, 2)
           flags == <<129, 128, 0, 1>>
           count == <<0, records>>
           others == <<0, 0, 0, 0>>
           first == id \o flags
           second == first \o count
           head == second \o others
<1>1. id \in Seq(Byte) /\ Len(id) = 2 /\ id[1] = query[1] /\ id[2] = query[2]
    BY DEF Slice
<1>2. /\ flags \in Seq(Byte) /\ Len(flags) = 4
      /\ flags[1] = 129 /\ flags[2] = 128 /\ flags[3] = 0 /\ flags[4] = 1
    BY DEF Byte
<1>3. count \in Seq(Byte) /\ Len(count) = 2 /\ count[1] = 0 /\ count[2] = records
    BY DEF Byte
<1>4. /\ others \in Seq(Byte) /\ Len(others) = 4
      /\ others[1] = 0 /\ others[2] = 0 /\ others[3] = 0 /\ others[4] = 0
    BY DEF Byte
<1>5. 2 \in Nat /\ 4 \in Nat /\ 6 \in Nat /\ 8 \in Nat
    OBVIOUS
<1> HIDE DEF id, flags, count, others
<1>6. IsJoin(first, id, 2, flags, 4)
    BY <1>1, <1>2, <1>5, Joined, Zenon
<1> HIDE DEF first
<1>7. /\ first \in Seq(Byte) /\ Len(first) = 6
      /\ first[1] = query[1] /\ first[2] = query[2] /\ first[3] = 129
      /\ first[4] = 128 /\ first[5] = 0 /\ first[6] = 1
    <2>1. first[2 + 1] = flags[1] /\ first[2 + 2] = flags[2] /\ first[2 + 3] = flags[3]
          /\ first[2 + 4] = flags[4]
        BY <1>6 DEF IsJoin
    <2> QED
        BY <1>1, <1>2, <1>6, <2>1 DEF IsJoin
<1>8. IsJoin(second, first, 6, count, 2)
    BY <1>3, <1>5, <1>7, Joined, Zenon
<1> HIDE DEF second
<1>9. /\ second \in Seq(Byte) /\ Len(second) = 8
      /\ second[1] = query[1] /\ second[2] = query[2] /\ second[3] = 129
      /\ second[4] = 128 /\ second[5] = 0 /\ second[6] = 1
      /\ second[7] = 0 /\ second[8] = records
    <2>1. second[6 + 1] = count[1] /\ second[6 + 2] = count[2]
        BY <1>8 DEF IsJoin
    <2> QED
        BY <1>3, <1>7, <1>8, <2>1 DEF IsJoin
<1>10. IsJoin(head, second, 8, others, 4)
    BY <1>4, <1>5, <1>9, Joined, Zenon
<1> HIDE DEF head
<1>11. IsHeader(head, query, records)
    <2>1. head[8 + 1] = others[1] /\ head[8 + 2] = others[2] /\ head[8 + 3] = others[3]
          /\ head[8 + 4] = others[4]
        BY <1>10 DEF IsJoin
    <2> QED
        BY <1>4, <1>9, <1>10, <2>1 DEF IsJoin, IsHeader, StartsLike
<1> QED
    BY <1>11 DEF head, second, first, id, flags, count, others

\* The record of an address: 16 bytes, of which the last four are the address
IsRecord(record, ip) == IsJoin(record, <<192, 12, 0, 1, 0, 1, 0, 0, 0, 60, 0, 4>>, 12, ip, 4)

LEMMA RecordBytes ==
    ASSUME NEW ip \in Seq(Byte), Len(ip) = 4
    PROVE  IsRecord(ARecord(ip), ip) /\ ARecord(ip) \in Seq(Byte) /\ Len(ARecord(ip)) = 16
<1> DEFINE fields == <<192, 12, 0, 1, 0, 1, 0, 0, 0, 60, 0, 4>>
<1>1. fields \in Seq(Byte) /\ Len(fields) = 12 /\ 12 \in Nat /\ 4 \in Nat
    BY DEF Byte
<1>2. ARecord(ip) = fields \o ip
    BY DEF ARecord
<1> HIDE DEF fields
<1>3. IsJoin(ARecord(ip), fields, 12, ip, 4)
    BY <1>1, <1>2, Joined, Zenon
<1> QED
    <2>1. IsRecord(ARecord(ip), ip)
        BY <1>3, Zenon DEF IsRecord, fields
    <2> QED
        BY <1>3, <2>1 DEF IsJoin

\* x answers q with so many records: the header, the question as it stands in the
\* query, and the record of the address.
IsAnswer(x, query, q, ip, records) ==
    /\ x \in Seq(Byte) /\ Len(x) = q.end + 16 * records
    /\ StartsLike(x, query, records)
    /\ \A i \in 13..q.end : x[i] = query[i]
    /\ records = 1 => \E record : /\ \A k \in 1..16 : x[q.end + k] = record[k]
                                  /\ IsRecord(record, ip)

LEMMA ResponseBytes ==
    ASSUME NEW query \in Seq(Byte), NEW q, q.end \in Nat, q.end >= 12, q.end <= Len(query),
           NEW ip \in Seq(Byte), Len(ip) = 4,
           NEW records, records = IF q.qtype = 1 THEN 1 ELSE 0
    PROVE  IsAnswer(Response(query, q, ip), query, q, ip, records)
<1> DEFINE end == q.end
           head == Slice(query, 0, 2) \o <<129, 128, 0, 1>> \o <<0, records>> \o <<0, 0, 0, 0>>
           question == Slice(query, 12, end)
           front == head \o question
           record == ARecord(ip)
           rest == IF q.qtype = 1 THEN record ELSE <<>>
           x == Response(query, q, ip)
<1>1. records \in {0, 1}
    OBVIOUS
<1>2. x = front \o rest
    <2> DEFINE count == BE16(IF q.qtype = 1 THEN 1 ELSE 0)
    <2>1. count = <<0, records>>
        BY DEF BE16
    <2>2. x = Slice(query, 0, 2) \o <<129, 128, 0, 1>> \o count \o <<0, 0, 0, 0>> \o question \o rest
        BY Zenon DEF Response
    <2> HIDE DEF count, question, rest, record, x
    <2> QED
        BY <2>1, <2>2, Zenon
<1>3. IsHeader(head, query, records)
    <2>1. Len(query) >= 12
        OBVIOUS
    <2> QED
        BY <1>1, <2>1, HeaderBytes, Zenon
<1>4. /\ question \in Seq(Byte) /\ Len(question) = end - 12
      /\ \A k \in 1..(end - 12) : question[k] = query[12 + k]
    BY DEF Slice
<1>5. /\ front \in Seq(Byte) /\ Len(front) = end
      /\ \A k \in 1..12 : front[k] = head[k]
      /\ \A i \in 13..end : front[i] = query[i]
    <2> HIDE DEF head, question
    <2>1. 12 \in Nat /\ end - 12 \in Nat /\ head \in Seq(Byte) /\ Len(head) = 12
        BY <1>3 DEF IsHeader
    <2>2. IsJoin(front, head, 12, question, end - 12)
        BY <1>4, <2>1, Joined, Zenon
    <2>3. ASSUME NEW i \in 13..end PROVE front[i] = query[i]
        <3>1. i - 12 \in 1..(end - 12) /\ 12 + (i - 12) = i
            OBVIOUS
        <3> HIDE DEF front
        <3>2. front[i] = question[i - 12]
            BY <2>2, <3>1 DEF IsJoin
        <3> QED
            BY <1>4, <3>1, <3>2
    <2> HIDE DEF front
    <2> QED
        BY <2>2, <2>3 DEF IsJoin
<1>6. IsRecord(record, ip) /\ record \in Seq(Byte) /\ Len(record) = 16
    BY RecordBytes
<1> HIDE DEF head, question, record, rest, x
<1>7. CASE records = 0
    <2> HIDE DEF front
    <2>1. x = front
        <3>1. rest = <<>>
            BY <1>7 DEF rest
        <3>2. front \o <<>> = front
            BY <1>5, ConcatEmptySeq
        <3> QED
            BY <1>2, <3>1, <3>2, Zenon
    <2>2. IsAnswer(x, query, q, ip, records)
        <3>1. StartsLike(x, query, records)
            <4>1. \A k \in 1..12 : x[k] = head[k]
                BY <1>5, <2>1, Zenon
            <4>2. StartsLike(head, query, records)
                BY <1>3 DEF IsHeader
            <4> QED
                BY <4>1, <4>2 DEF StartsLike
        <3>2. Len(x) = q.end + 16 * records /\ x \in Seq(Byte) /\ records # 1
            BY <1>5, <1>7, <2>1
        <3>3. \A i \in 13..q.end : x[i] = query[i]
            BY <1>5, <2>1
        <3> QED
            BY <3>1, <3>2, <3>3, Zenon DEF IsAnswer
    <2> QED
        BY <2>2 DEF x
<1>8. CASE records = 1
    <2>1. x = front \o record
        <3>1. rest = record
            BY <1>8 DEF rest
        <3> QED
            BY <1>2, <3>1, Zenon
    <2>2. 16 \in Nat /\ end \in Nat
        OBVIOUS
    <2> HIDE DEF front
    <2>3. IsJoin(x, front, end, record, 16)
        BY <1>5, <1>6, <2>1, <2>2, Joined, Zenon
    <2>4. IsAnswer(x, query, q, ip, records)
        <3>1. \A k \in 1..12 : k \in 1..end
            OBVIOUS
        <3>2. \A i \in 13..end : i \in 1..end
            OBVIOUS
        <3>3. /\ x \in Seq(Byte) /\ Len(x) = end + 16
              /\ \A k \in 1..12 : x[k] = head[k]
              /\ \A i \in 13..end : x[i] = query[i]
              /\ \A k \in 1..16 : x[end + k] = record[k]
            BY <1>5, <2>3, <3>1, <3>2 DEF IsJoin
        <3>4. \E r : (\A k \in 1..16 : x[q.end + k] = r[k]) /\ IsRecord(r, ip)
            BY <1>6, <3>3, Zenon
        <3>5. Len(x) = q.end + 16 * records
            BY <1>8, <3>3
        <3>6. \A k \in 1..12 : x[k] = head[k]
            BY <3>3
        <3>7. StartsLike(x, query, records)
            <4>1. StartsLike(head, query, records)
                BY <1>3 DEF IsHeader
            <4> QED
                BY <3>6, <4>1 DEF StartsLike
        <3> QED
            BY <3>3, <3>4, <3>5, <3>7, Zenon DEF IsAnswer
    <2> QED
        BY <2>4 DEF x
<1> QED
    BY <1>1, <1>7, <1>8

\* Labels lie between the header and the end of the name.
LEMMA LabelsWithin ==
    ASSUME NEW b \in Seq(Byte), NEW labels, LabelsOf(b, labels),
           NEW end, end = labels[Len(labels)]
    PROVE  \A i \in DOMAIN labels : labels[i] \in Nat /\ 12 <= labels[i] /\ labels[i] <= end
<1>1. \A o \in Nat : o < Len(b) => At(b, o) \in Nat /\ At(b, o) <= 255
    BY ByteAt
<1>2. /\ labels \in Seq(Nat) /\ Len(labels) \in Nat /\ DOMAIN labels = 1..Len(labels)
      /\ Len(labels) \in DOMAIN labels /\ labels[1] = 12
      /\ \A i \in DOMAIN labels : labels[i] \in Nat
    BY DEF LabelsOf
<1>3. \A i \in 1..(Len(labels) - 1) : labels[i] < labels[i + 1]
    <2> SUFFICES ASSUME NEW i \in 1..(Len(labels) - 1) PROVE labels[i] < labels[i + 1]
        OBVIOUS
    <2>1. i \in DOMAIN labels /\ i + 1 \in DOMAIN labels
        BY <1>2
    <2>2. LabelAt(b, labels[i]) /\ labels[i + 1] = labels[i] + 1 + At(b, labels[i])
        BY DEF LabelsOf
    <2>3. labels[i] \in Nat /\ At(b, labels[i]) \in Nat
        BY <1>1, <1>2, <2>1, <2>2 DEF LabelAt
    <2> QED
        BY <2>2, <2>3
<1>4. \A i \in DOMAIN labels : 12 <= labels[i]
    <2> DEFINE S == {k \in Nat : k + 1 \in DOMAIN labels => labels[k + 1] >= 12}
    <2>1. 0 \in S
        BY <1>2
    <2>2. ASSUME NEW k \in Nat, k \in S PROVE k + 1 \in S
        <3> SUFFICES ASSUME k + 2 \in DOMAIN labels PROVE labels[k + 2] >= 12
            OBVIOUS
        <3>1. k + 1 \in 1..(Len(labels) - 1) /\ k + 1 \in DOMAIN labels
            BY <1>2
        <3>2. labels[k + 1] >= 12 /\ labels[k + 1] < labels[k + 2]
            BY <1>3, <2>2, <3>1
        <3> QED
            BY <1>2, <3>1, <3>2
    <2>3. Nat \subseteq S
        <3> HIDE DEF S
        <3> QED
            BY <2>1, <2>2, Induction
    <2>4. \A i \in DOMAIN labels : i - 1 \in Nat /\ (i - 1) + 1 = i
        BY <1>2
    <2>5. \A i \in DOMAIN labels : i - 1 \in S
        <3> HIDE DEF S
        <3> QED
            BY <2>3, <2>4
    <2> QED
        BY <1>2, <2>4, <2>5
<1>5. \A i \in DOMAIN labels : labels[i] <= end
    <2> DEFINE N == Len(labels)
               S == {k \in Nat : k < N => labels[N - k] <= end}
    <2>1. 0 \in S
        BY <1>2
    <2>2. ASSUME NEW k \in Nat, k \in S PROVE k + 1 \in S
        <3> SUFFICES ASSUME k + 1 < N PROVE labels[N - (k + 1)] <= end
            OBVIOUS
        <3> DEFINE i == N - (k + 1)
        <3>1. i \in 1..(N - 1) /\ i + 1 = N - k /\ i \in DOMAIN labels /\ i + 1 \in DOMAIN labels
            BY <1>2
        <3>2. labels[i + 1] <= end /\ labels[i] < labels[i + 1]
            BY <1>3, <2>2, <3>1
        <3> HIDE DEF i
        <3>3. labels[i] <= end
            BY <1>2, <3>1, <3>2
        <3> QED
            BY <3>3 DEF i
    <2>3. Nat \subseteq S
        <3> HIDE DEF S
        <3> QED
            BY <2>1, <2>2, Induction
    <2>4. \A i \in DOMAIN labels : N - i \in Nat /\ N - i < N /\ N - (N - i) = i
        BY <1>2
    <2>5. \A i \in DOMAIN labels : N - i \in S
        <3> HIDE DEF S, N
        <3> QED
            BY <2>3, <2>4
    <2> QED
        BY <2>4, <2>5
<1> QED
    BY <1>2, <1>4, <1>5

\* An answer is read back as the question it answers.
LEMMA AnswerReadsBack ==
    ASSUME NEW b \in Seq(Byte), NEW labels, LabelsOf(b, labels),
           NEW end \in Nat, end = labels[Len(labels)], Asks(b, end),
           NEW q, q.end = end + 5, NEW ip, NEW records \in Nat,
           NEW x, IsAnswer(x, b, q, ip, records)
    PROVE  SingleQuestion(x) = SingleQuestion(b)
<1>1. /\ \A i \in DOMAIN labels : labels[i] \in Nat /\ 12 <= labels[i] /\ labels[i] <= end
      /\ Len(labels) \in DOMAIN labels
    <2>1. Len(labels) \in DOMAIN labels
        BY DEF LabelsOf
    <2> QED
        BY <2>1, LabelsWithin
<1>2. end \in Nat /\ end >= 12 /\ end + 5 <= Len(b)
    BY <1>1 DEF Asks
<1>3. x \in Seq(Byte) /\ Len(x) \in Nat /\ Len(x) >= end + 5
    <2>1. 16 * records \in Nat
        OBVIOUS
    <2>2. x \in Seq(Byte) /\ Len(x) = (end + 5) + 16 * records
        BY DEF IsAnswer
    <2> QED
        BY <1>2, <2>1, <2>2
<1>4. \A o \in Nat : 12 <= o /\ o < end + 5 => At(x, o) = At(b, o)
    <2>1. \A i \in 13..(end + 5) : x[i] = b[i]
        BY DEF IsAnswer
    <2>2. \A o \in Nat : 12 <= o /\ o < end + 5 => o + 1 \in 13..(end + 5)
        BY <1>2
    <2> QED
        BY <2>1, <2>2 DEF At
<1>5. LabelsOf(x, labels)
    <2> SUFFICES ASSUME NEW i \in 1..(Len(labels) - 1)
                 PROVE  LabelAt(x, labels[i]) /\ labels[i + 1] = labels[i] + 1 + At(x, labels[i])
        BY DEF LabelsOf
    <2>1. i \in DOMAIN labels /\ i + 1 \in DOMAIN labels
        BY DEF LabelsOf
    <2>2. LabelAt(b, labels[i]) /\ labels[i + 1] = labels[i] + 1 + At(b, labels[i])
        BY DEF LabelsOf
    <2>3. labels[i] \in Nat /\ 12 <= labels[i] /\ labels[i] <= end
        BY <1>1, <2>1
    <2>4. labels[i + 1] <= end
        BY <1>1, <2>1
    <2>5. At(b, labels[i]) \in Nat
        BY <2>2, <2>3, ByteAt DEF LabelAt
    <2> DEFINE o == labels[i]
               after == labels[i + 1]
    <2>6. o \in Nat /\ 12 <= o /\ o <= end /\ LabelAt(b, o) /\ after = o + 1 + At(b, o) /\ after <= end
        BY <2>2, <2>3, <2>4
    <2> HIDE DEF o, after
    <2>7. At(x, o) = At(b, o)
        BY <1>2, <1>4, <2>6
    <2>8. LabelAt(x, o) /\ after = o + 1 + At(x, o)
        BY <1>2, <1>3, <2>6, <2>7 DEF LabelAt
    <2> QED
        BY <2>8 DEF o, after
<1>6. At(x, end) = 0
    <2>1. At(x, end) = At(b, end)
        BY <1>2, <1>4
    <2> QED
        BY <2>1 DEF Asks
<1>7. U16(x, end + 1) = U16(b, end + 1) /\ U16(x, end + 3) = 1
    <2>1. \A k \in 1..4 : At(x, end + k) = At(b, end + k)
        BY <1>2, <1>4
    <2>2. end + 1 + 1 = end + 2 /\ end + 3 + 1 = end + 4
        BY <1>2
    <2>3. U16(x, end + 1) = U16(b, end + 1) /\ U16(x, end + 3) = U16(b, end + 3)
        <3>1. /\ At(x, end + 1) = At(b, end + 1) /\ At(x, end + 2) = At(b, end + 2)
              /\ At(x, end + 3) = At(b, end + 3) /\ At(x, end + 4) = At(b, end + 4)
            BY <2>1
        <3>2. U16(x, end + 1) = 256 * At(x, end + 1) + At(x, end + 2)
            BY <2>2 DEF U16
        <3>3. U16(b, end + 1) = 256 * At(b, end + 1) + At(b, end + 2)
            BY <2>2 DEF U16
        <3>4. U16(x, end + 3) = 256 * At(x, end + 3) + At(x, end + 4)
            BY <2>2 DEF U16
        <3>5. U16(b, end + 3) = 256 * At(b, end + 3) + At(b, end + 4)
            BY <2>2 DEF U16
        <3> QED
            BY <3>1, <3>2, <3>3, <3>4, <3>5
    <2> QED
        BY <2>3 DEF Asks
<1>8. U16(x, 4) = 1
    BY DEF IsAnswer, StartsLike, U16, At
<1>9. Asks(x, end) /\ ~LabelAt(x, end)
    BY <1>3, <1>6, <1>7, <1>8 DEF Asks, LabelAt
<1>10. SingleQuestion(x) = {[qtype |-> U16(x, end + 1), end |-> end + 5]}
    BY <1>3, <1>5, <1>9, QuestionMeans
<1>11. ~LabelAt(b, end)
    BY <1>2, <1>4, <1>6 DEF LabelAt
<1>12. SingleQuestion(b) = {[qtype |-> U16(b, end + 1), end |-> end + 5]}
    BY <1>11, QuestionMeans
<1> QED
    BY <1>7, <1>10, <1>12

\* The fields of an answer
LEMMA AnswerFields ==
    ASSUME NEW b \in Seq(Byte), NEW q, q.end \in Nat, q.end >= 17, q.end <= Len(b),
           NEW ip \in Seq(Byte), Len(ip) = 4, NEW records \in {0, 1},
           NEW x, IsAnswer(x, b, q, ip, records)
    PROVE  /\ Slice(x, 0, 2) = Slice(b, 0, 2)
           /\ U16(x, 2) \div 32768 = 1
           /\ <<U16(x, 4), U16(x, 6), U16(x, 8), U16(x, 10)>> = <<1, records, 0, 0>>
           /\ Slice(x, 12, q.end) = Slice(b, 12, q.end)
           /\ Len(x) = q.end + 16 * records
<1>1. x \in Seq(Byte) /\ Len(x) = q.end + 16 * records /\ Len(x) >= q.end
    BY DEF IsAnswer
<1>2. Slice(x, 0, 2) = Slice(b, 0, 2)
    <2>1. Agree(x, b, 0, 2)
        BY <1>1 DEF IsAnswer, StartsLike, Agree
    <2> QED
        BY <1>1, <2>1, SameSlice
<1>3. Slice(x, 12, q.end) = Slice(b, 12, q.end)
    <2>1. Agree(x, b, 12, q.end)
        BY <1>1 DEF IsAnswer, Agree
    <2> QED
        BY <1>1, <2>1, SameSlice
<1>4. U16(x, 2) = 33152 /\ U16(x, 4) = 1 /\ U16(x, 6) = records /\ U16(x, 8) = 0 /\ U16(x, 10) = 0
    <2>1. /\ x[3] = 129 /\ x[4] = 128 /\ x[5] = 0 /\ x[6] = 1 /\ x[7] = 0
          /\ x[8] = records /\ x[9] = 0 /\ x[10] = 0 /\ x[11] = 0 /\ x[12] = 0
        BY DEF IsAnswer, StartsLike
    <2>2. /\ U16(x, 2) = 256 * x[3] + x[4] /\ U16(x, 4) = 256 * x[5] + x[6]
          /\ U16(x, 6) = 256 * x[7] + x[8] /\ U16(x, 8) = 256 * x[9] + x[10]
          /\ U16(x, 10) = 256 * x[11] + x[12]
        BY DEF U16, At
    <2>3. records \in Nat
        OBVIOUS
    <2> QED
        BY <2>1, <2>2, <2>3
<1>5. 33152 \div 32768 = 1
    OBVIOUS
<1> QED
    BY <1>1, <1>2, <1>3, <1>4, <1>5

\* Its record, if it has one
LEMMA AnswerRecord ==
    ASSUME NEW b \in Seq(Byte), NEW q, q.end \in Nat, q.end >= 17,
           NEW ip \in Seq(Byte), Len(ip) = 4,
           NEW x, IsAnswer(x, b, q, ip, 1)
    PROVE  /\ U16(x, q.end) = 49152 + 12
           /\ Slice(x, q.end + 2, q.end + 4) = <<0, 1>>
           /\ U16(x, q.end + 10) = 4
           /\ Slice(x, q.end + 12, Len(x)) = ip
<1> DEFINE end == q.end
           fields == <<192, 12, 0, 1, 0, 1, 0, 0, 0, 60, 0, 4>>
<1>1. PICK record : (\A k \in 1..16 : x[end + k] = record[k]) /\ IsRecord(record, ip)
    BY DEF IsAnswer
<1>2. x \in Seq(Byte) /\ Len(x) = end + 16 /\ end \in Nat
    BY DEF IsAnswer
<1> HIDE DEF end
<1>3. IsJoin(record, fields, 12, ip, 4)
    BY <1>1, Zenon DEF IsRecord
<1>4. fields[1] = 192 /\ fields[2] = 12 /\ fields[3] = 0 /\ fields[4] = 1 /\ fields[11] = 0 /\ fields[12] = 4
    OBVIOUS
<1> HIDE DEF fields
<1>5. /\ record[1] = 192 /\ record[2] = 12 /\ record[3] = 0 /\ record[4] = 1
      /\ record[11] = 0 /\ record[12] = 4 /\ \A i \in 1..4 : record[12 + i] = ip[i]
    <2>1. /\ \A k \in 1..12 : record[k] = fields[k]
          /\ \A i \in 1..4 : record[12 + i] = ip[i]
        BY <1>3 DEF IsJoin
    <2>2. /\ record[1] = fields[1] /\ record[2] = fields[2] /\ record[3] = fields[3]
          /\ record[4] = fields[4] /\ record[11] = fields[11] /\ record[12] = fields[12]
        BY <2>1
    <2> QED
        BY <1>4, <2>1, <2>2
<1>6. /\ x[end + 1] = 192 /\ x[end + 2] = 12 /\ x[end + 3] = 0 /\ x[end + 4] = 1
      /\ x[end + 11] = 0 /\ x[end + 12] = 4
    <2>1. /\ x[end + 1] = record[1] /\ x[end + 2] = record[2] /\ x[end + 3] = record[3]
          /\ x[end + 4] = record[4] /\ x[end + 11] = record[11] /\ x[end + 12] = record[12]
        BY <1>1, <1>2
    <2> QED
        BY <1>5, <2>1
<1>7. \A i \in 1..4 : x[end + 12 + i] = ip[i]
    <2> SUFFICES ASSUME NEW i \in 1..4 PROVE x[end + 12 + i] = ip[i]
        OBVIOUS
    <2>1. 12 + i \in 1..16 /\ end + 12 + i = end + (12 + i)
        BY <1>2
    <2>2. x[end + (12 + i)] = record[12 + i]
        BY <1>1, <2>1
    <2>3. record[12 + i] = ip[i]
        BY <1>5
    <2> QED
        BY <2>1, <2>2, <2>3
<1>8. U16(x, end) = 49152 + 12 /\ U16(x, end + 10) = 4
    <2>1. At(x, end) = 192 /\ At(x, end + 1) = 12 /\ At(x, end + 10) = 0 /\ At(x, end + 10 + 1) = 4
        BY <1>2, <1>6 DEF At
    <2> QED
        BY <2>1 DEF U16
<1>9. Slice(x, end + 2, end + 4) = <<0, 1>>
    <2> DEFINE s == Slice(x, end + 2, end + 4)
               two == <<0, 1>>
    <2>1. s \in Seq(Byte) /\ Len(s) = 2 /\ s[1] = x[end + 3] /\ s[2] = x[end + 4]
        BY <1>2 DEF Slice
    <2>2. two \in Seq(Byte) /\ Len(two) = 2 /\ two[1] = 0 /\ two[2] = 1
        BY DEF Byte
    <2> HIDE DEF s, two
    <2>3. \A i \in 1..Len(s) : s[i] = two[i]
        BY <1>6, <2>1, <2>2
    <2>4. s = two
        BY <2>1, <2>2, <2>3, SeqEqual
    <2> QED
        BY <2>4 DEF s, two
<1>10. Slice(x, end + 12, Len(x)) = ip
    <2> DEFINE s == Slice(x, end + 12, Len(x))
    <2>1. s \in Seq(Byte) /\ Len(s) = 4 /\ \A i \in 1..4 : s[i] = x[end + 12 + i]
        BY <1>2 DEF Slice
    <2> HIDE DEF s
    <2>2. \A i \in 1..Len(s) : s[i] = ip[i]
        BY <1>7, <2>1
    <2>3. s = ip
        BY <2>1, <2>2, SeqEqual
    <2> QED
        BY <2>3 DEF s
<1> QED
    BY <1>8, <1>9, <1>10 DEF end

-----------------------------------------------------------------------------
\* The server name.

\* s is what stands in b from offset i to offset j.
IsSlice(s, b, i, j) ==
    /\ s \in Seq(Byte) /\ Len(s) = j - i
    /\ \A k \in 1..(j - i) : s[k] = b[i + k]

LEMMA SliceBytes ==
    ASSUME NEW b \in Seq(Byte), NEW i \in Nat, NEW j \in Nat, i <= j, j <= Len(b)
    PROVE  IsSlice(Slice(b, i, j), b, i, j)
BY DEF Slice, IsSlice

\* Whatever stands in a part of b stands in b.
Within(b) == {s \in Seq(Byte) : \E i \in Nat, j \in Nat : i <= j /\ j <= Len(b) /\ s = Slice(b, i, j)}

LEMMA WithinPart ==
    ASSUME NEW b \in Seq(Byte), NEW p \in Within(b), NEW s \in Within(p)
    PROVE  s \in Within(b)
<1>1. PICK i \in Nat, j \in Nat : i <= j /\ j <= Len(b) /\ p = Slice(b, i, j)
    BY DEF Within
<1>2. p \in Seq(Byte) /\ s \in Seq(Byte)
    BY DEF Within
<1>3. PICK m \in Nat, n \in Nat : m <= n /\ n <= Len(p) /\ s = Slice(p, m, n)
    BY DEF Within
<1>4. Len(p) = j - i /\ \A k \in 1..(j - i) : p[k] = b[i + k]
    <2>1. IsSlice(p, b, i, j)
        BY <1>1, SliceBytes
    <2> QED
        BY <2>1 DEF IsSlice
<1>5. Len(s) = n - m /\ \A k \in 1..(n - m) : s[k] = p[m + k]
    <2>1. IsSlice(s, p, m, n)
        BY <1>2, <1>3, SliceBytes
    <2> QED
        BY <2>1 DEF IsSlice
<1> DEFINE t == Slice(b, i + m, i + n)
<1>6. i + m \in Nat /\ i + n \in Nat /\ i + m <= i + n /\ i + n <= Len(b)
    BY <1>1, <1>3, <1>4
<1>7. t \in Seq(Byte) /\ Len(t) = n - m /\ \A k \in 1..(n - m) : t[k] = b[(i + m) + k]
    <2>1. IsSlice(t, b, i + m, i + n)
        BY <1>6, SliceBytes
    <2>2. (i + n) - (i + m) = n - m
        OBVIOUS
    <2> HIDE DEF t
    <2> QED
        BY <2>1, <2>2 DEF IsSlice
<1>8. \A k \in 1..(n - m) : s[k] = t[k]
    <2> SUFFICES ASSUME NEW k \in 1..(n - m) PROVE s[k] = t[k]
        OBVIOUS
    <2>1. m + k \in 1..(j - i) /\ i + (m + k) = (i + m) + k
        BY <1>3, <1>4
    <2> HIDE DEF t
    <2> QED
        BY <1>4, <1>5, <1>7, <2>1
<1>9. s = t
    <2> HIDE DEF t
    <2> QED
        BY <1>2, <1>5, <1>7, <1>8, SeqEqual
<1> QED
    BY <1>2, <1>6, <1>9 DEF Within

\* All a walk can end with is what it ends with at its stops.
Forward(stop, jump, bound) ==
    \A o \in Nat : o \in stop \/ (o < bound /\ jump[o] \in Nat /\ o < jump[o])
EndsIn(stop, out, R) == \A o \in Nat : o \in stop => out[o] \in R

LEMMA WalkRange ==
    ASSUME NEW f, NEW stop, NEW out, NEW jump, IsWalk(f, stop, out, jump),
           NEW bound \in Nat, Forward(stop, jump, bound), NEW R, EndsIn(stop, out, R)
    PROVE  \A o \in Nat : f[o] \in R
<1> USE DEF Forward, EndsIn
<1> DEFINE S == {k \in Nat : \A o \in Nat : o >= bound - k => f[o] \in R}
<1>1. \A o \in Nat : f[o] = IF o \in stop THEN out[o] ELSE f[jump[o]]
    BY DEF IsWalk
<1>2. 0 \in S
    BY <1>1
<1>3. ASSUME NEW k \in Nat, k \in S PROVE k + 1 \in S
    <2> SUFFICES ASSUME NEW o \in Nat, o >= bound - (k + 1) PROVE f[o] \in R
        OBVIOUS
    <2>1. CASE o \in stop
        BY <1>1, <2>1
    <2>2. CASE o \notin stop
        <3>1. jump[o] \in Nat /\ jump[o] >= bound - k
            BY <2>2
        <3>2. f[jump[o]] \in R
            BY <1>3, <3>1
        <3> QED
            BY <1>1, <2>2, <3>2
    <2> QED
        BY <2>1, <2>2
<1>4. Nat \subseteq S
    <2> HIDE DEF S
    <2> QED
        BY <1>2, <1>3, Induction
<1> QED
    <2> SUFFICES ASSUME NEW o \in Nat PROVE f[o] \in R
        OBVIOUS
    <2>1. bound \in S
        BY <1>4
    <2> QED
        BY <2>1

LEMMA WordAt ==
    ASSUME NEW b \in Seq(Byte), NEW o \in Nat, o + 2 <= Len(b)
    PROVE  U16(b, o) \in Nat
<1>1. At(b, o) \in Nat /\ At(b, o + 1) \in Nat
    BY ByteAt
<1> QED
    BY <1>1 DEF U16

\* The walk over the entries of a server_name list (src/src/proxy.rs:546-569)
EntryStop(list, end) == {o \in Nat : ~EntryAt(list, o, end) \/ At(list, o) = 0}
EntryJump(list)      == [o \in Nat |-> o + 3 + U16(list, o + 1)]
EntryName(list, o)   == {n \in {Slice(list, o + 3, o + 3 + U16(list, o + 1))} : Utf8(n)}
EntryOut(list, end)  == [o \in Nat |-> IF EntryAt(list, o, end) THEN EntryName(list, o) ELSE {}]
EntryWalk(f, list, end) == IsWalk(f, EntryStop(list, end), EntryOut(list, end), EntryJump(list))

LEMMA EntriesMove ==
    ASSUME NEW list \in Seq(Byte), NEW end \in Nat, end <= Len(list)
    PROVE  \A o \in Nat : \/ o \in EntryStop(list, end)
                          \/ /\ o < end /\ EntryJump(list)[o] \in Nat
                             /\ o < EntryJump(list)[o]
<1> SUFFICES ASSUME NEW o \in Nat, o \notin EntryStop(list, end)
             PROVE  o < end /\ EntryJump(list)[o] \in Nat /\ o < EntryJump(list)[o]
    OBVIOUS
<1>1. o + 3 <= end /\ EntryJump(list)[o] = o + 3 + U16(list, o + 1)
    BY DEF EntryStop, EntryAt, EntryJump
<1>2. Len(list) \in Nat
    OBVIOUS
<1>3. U16(list, o + 1) \in Nat
    BY <1>1, <1>2, WordAt
<1> QED
    BY <1>1, <1>3

LEMMA ListWalk ==
    ASSUME NEW list \in Seq(Byte), Len(list) >= 2, NEW end \in Nat, end = 2 + U16(list, 0), end <= Len(list)
    PROVE  \E f : EntryWalk(f, list, end) /\ NameInList(list) = f[2]
<1> DEFINE Eq(f) == f = [o \in Nat |->
                            IF o + 3 > 2 + U16(list, 0) THEN {}
                            ELSE LET next == o + 3 + U16(list, o + 1)
                                 IN IF next > 2 + U16(list, 0) THEN {}
                                    ELSE IF At(list, o) # 0 THEN f[next]
                                    ELSE {n \in {Slice(list, o + 3, next)} : Utf8(n)}]
           E == CHOOSE f : Eq(f)
<1>1. PICK f : EntryWalk(f, list, end)
    BY EntriesMove, Walk DEF EntryWalk
<1>2. ASSUME NEW g, NEW o \in Nat
      PROVE  (IF o \in EntryStop(list, end) THEN EntryOut(list, end)[o] ELSE g[EntryJump(list)[o]]) =
             IF o + 3 > end THEN {}
             ELSE LET next == o + 3 + U16(list, o + 1)
                  IN IF next > end THEN {}
                     ELSE IF At(list, o) # 0 THEN g[next]
                     ELSE {n \in {Slice(list, o + 3, next)} : Utf8(n)}
    <2> DEFINE next == o + 3 + U16(list, o + 1)
    <2>1. EntryJump(list)[o] = next /\ (o \in EntryStop(list, end) <=> ~EntryAt(list, o, end) \/ At(list, o) = 0)
          /\ EntryOut(list, end)[o] = IF EntryAt(list, o, end) THEN EntryName(list, o) ELSE {}
        BY DEF EntryJump, EntryStop, EntryOut
    <2>2. EntryName(list, o) = {n \in {Slice(list, o + 3, next)} : Utf8(n)}
        BY DEF EntryName
    <2>3. CASE o + 3 > end
        BY <2>1, <2>3 DEF EntryAt
    <2>4. CASE ~(o + 3 > end)
        <3>1. next \in Nat
            BY <2>4, WordAt
        <3>2. EntryAt(list, o, end) <=> ~(next > end)
            <4> HIDE DEF next
            <4>1. EntryAt(list, o, end) <=> o + 3 <= end /\ next <= end
                BY DEF EntryAt, next
            <4> QED
                BY <2>4, <3>1, <4>1
        <3> HIDE DEF next
        <3> QED
            BY <2>1, <2>2, <2>4, <3>2 DEF next
    <2> QED
        BY <2>3, <2>4
<1>3. Eq(f)
    <2>1. /\ f = [o \in Nat |-> f[o]]
          /\ \A o \in Nat : f[o] = IF o \in EntryStop(list, end) THEN EntryOut(list, end)[o]
                                  ELSE f[EntryJump(list)[o]]
        BY <1>1, Zenon DEF EntryWalk, IsWalk
    <2>2. \A o \in Nat : f[o] = IF o + 3 > end THEN {}
                                ELSE LET next == o + 3 + U16(list, o + 1)
                                     IN IF next > end THEN {}
                                        ELSE IF At(list, o) # 0 THEN f[next]
                                        ELSE {n \in {Slice(list, o + 3, next)} : Utf8(n)}
        BY <1>2, <2>1, Zenon
    <2> QED
        BY <2>1, <2>2
<1>4. Eq(E)
    <2> HIDE DEF Eq
    <2> QED
        BY <1>3
<1>5. EntryWalk(E, list, end)
    <2> HIDE DEF E
    <2> QED
        BY <1>2, <1>4 DEF EntryWalk, IsWalk
<1>6. NameInList(list) = E[2]
    BY DEF NameInList
<1> QED
    <2> HIDE DEF E
    <2> QED
        BY <1>5, <1>6

\* parse_sni_extension
LEMMA ListMeans ==
    ASSUME NEW list \in Seq(Byte), NEW entries, NEW name, ListSays(list, entries, name)
    PROVE  NameInList(list) = name
<1>1. CASE list = <<>>
    BY <1>1 DEF ListSays, NameInList
<1>2. CASE list # <<>>
    <2> DEFINE end == 2 + U16(list, 0)
               o == entries[Len(entries)]
    <2>1. /\ Len(list) >= 2 /\ end = Len(list) /\ EntriesOf(list, entries, end)
          /\ IF o = end THEN name = {}
             ELSE EntryAt(list, o, end) /\ At(list, o) = 0 /\ name = EntryName(list, o)
        BY <1>2 DEF ListSays, EntryName
    <2>2. end \in Nat /\ end <= Len(list)
        BY <2>1
    <2>3. PICK f : EntryWalk(f, list, end) /\ NameInList(list) = f[2]
        BY <2>1, <2>2, ListWalk
    <2> HIDE DEF end
    <2>4. /\ entries \in Seq(Nat) /\ Len(entries) \in DOMAIN entries /\ entries[1] = 2 /\ o \in Nat
        BY <2>1 DEF EntriesOf
    <2>5. IsChain(entries, EntryStop(list, end), EntryJump(list))
        <3>1. \A i \in 1..(Len(entries) - 1) :
                 /\ entries[i] \in Nat /\ EntryAt(list, entries[i], end) /\ At(list, entries[i]) # 0
                 /\ entries[i + 1] = entries[i] + 3 + U16(list, entries[i] + 1)
            BY <2>1, <2>4 DEF EntriesOf
        <3> QED
            BY <2>4, <3>1 DEF IsChain, EntryStop, EntryJump
    <2>6. f[2] = f[o]
        <3>1. \A i \in DOMAIN entries : f[entries[1]] = f[entries[i]]
            BY <2>3, <2>5, Chain DEF EntryWalk
        <3> QED
            BY <2>4, <3>1
    <2>7. o \in EntryStop(list, end) /\ EntryOut(list, end)[o] = name
        <3>1. CASE o = end
            <4>1. ~EntryAt(list, o, end)
                BY <2>2, <3>1 DEF EntryAt
            <4> QED
                BY <2>1, <2>4, <3>1, <4>1 DEF EntryStop, EntryOut
        <3>2. CASE o # end
            BY <2>1, <2>4, <3>2 DEF EntryStop, EntryOut
        <3> QED
            BY <3>1, <3>2
    <2>8. f[o] = name
        BY <2>3, <2>4, <2>7 DEF EntryWalk, IsWalk
    <2> QED
        BY <2>3, <2>6, <2>8
<1> QED
    BY <1>1, <1>2

LEMMA ListWithin ==
    ASSUME NEW list \in Seq(Byte)
    PROVE  NameInList(list) \subseteq Within(list)
<1> DEFINE end == 2 + U16(list, 0)
<1>1. CASE Len(list) < 2 \/ end > Len(list)
    BY <1>1 DEF NameInList
<1>2. CASE ~(Len(list) < 2 \/ end > Len(list))
    <2>1. Len(list) \in Nat /\ Len(list) >= 2
        BY <1>2
    <2>2. end \in Nat /\ end <= Len(list)
        <3>1. U16(list, 0) \in Nat
            BY <2>1, WordAt
        <3> QED
            BY <1>2, <2>1, <3>1
    <2>3. PICK f : EntryWalk(f, list, end) /\ NameInList(list) = f[2]
        BY <2>1, <2>2, ListWalk
    <2> HIDE DEF end
    <2> DEFINE R == SUBSET Within(list)
    <2>4. ASSUME NEW o \in Nat PROVE EntryOut(list, end)[o] \in R
        <3>1. CASE ~EntryAt(list, o, end)
            BY <3>1 DEF EntryOut
        <3>2. CASE EntryAt(list, o, end)
            <4> DEFINE next == o + 3 + U16(list, o + 1)
            <4>1. o + 3 <= end /\ next <= end /\ EntryOut(list, end)[o] \subseteq {Slice(list, o + 3, next)}
                BY <3>2 DEF EntryAt, EntryOut, EntryName
            <4>2. U16(list, o + 1) \in Nat
                BY <2>1, <2>2, <4>1, WordAt
            <4>3. o + 3 \in Nat /\ next \in Nat /\ o + 3 <= next /\ next <= Len(list)
                BY <2>1, <2>2, <4>1, <4>2
            <4> HIDE DEF next
            <4>4. Slice(list, o + 3, next) \in Within(list)
                BY <4>3, SliceBytes DEF Within, IsSlice
            <4> QED
                BY <4>1, <4>4
        <3> QED
            BY <3>1, <3>2
    <2> HIDE DEF R
    <2>5. \A o \in Nat : f[o] \in R
        <3> DEFINE stop == EntryStop(list, end)
                   out == EntryOut(list, end)
                   jump == EntryJump(list)
        <3>1. IsWalk(f, stop, out, jump) /\ EndsIn(stop, out, R)
            BY <2>3, <2>4 DEF EntryWalk, EndsIn
        <3>2. Forward(stop, jump, end)
            BY <2>2, EntriesMove DEF Forward
        <3> HIDE DEF stop, out, jump
        <3> QED
            BY <2>2, <3>1, <3>2, WalkRange
    <2> QED
        BY <2>3, <2>5 DEF R
<1> QED
    BY <1>1, <1>2

\* The walk over the extensions (src/src/proxy.rs:528-544)
ExtensionStop(body, end) == {o \in Nat : ~ExtensionAt(body, o, end) \/ U16(body, o) = 0}
ExtensionJump(body)      == [o \in Nat |-> o + 4 + U16(body, o + 2)]
ExtensionData(body, o)   == Slice(body, o + 4, o + 4 + U16(body, o + 2))
ExtensionOut(body, end)  ==
    [o \in Nat |-> IF ExtensionAt(body, o, end) THEN NameInList(ExtensionData(body, o)) ELSE {}]
ExtensionWalk(f, body, end) ==
    IsWalk(f, ExtensionStop(body, end), ExtensionOut(body, end), ExtensionJump(body))

LEMMA ExtensionsMove ==
    ASSUME NEW body \in Seq(Byte), NEW end \in Nat, end <= Len(body)
    PROVE  \A o \in Nat : \/ o \in ExtensionStop(body, end)
                          \/ /\ o < end /\ ExtensionJump(body)[o] \in Nat
                             /\ o < ExtensionJump(body)[o]
<1> SUFFICES ASSUME NEW o \in Nat, o \notin ExtensionStop(body, end)
             PROVE  o < end /\ ExtensionJump(body)[o] \in Nat /\ o < ExtensionJump(body)[o]
    OBVIOUS
<1>1. o + 4 <= end /\ ExtensionJump(body)[o] = o + 4 + U16(body, o + 2)
    BY DEF ExtensionStop, ExtensionAt, ExtensionJump
<1>2. Len(body) \in Nat
    OBVIOUS
<1>3. U16(body, o + 2) \in Nat
    BY <1>1, <1>2, WordAt
<1> QED
    BY <1>1, <1>3

LEMMA BlockWalk ==
    ASSUME NEW body \in Seq(Byte), NEW start, NEW end \in Nat, end <= Len(body)
    PROVE  \E f : ExtensionWalk(f, body, end) /\ ServerNameIn(body, start, end) = f[start]
<1> DEFINE Eq(f) == f = [o \in Nat |->
                            IF o + 4 > end THEN {}
                            ELSE LET next == o + 4 + U16(body, o + 2)
                                 IN IF next > end THEN {}
                                    ELSE IF U16(body, o) = 0 THEN NameInList(Slice(body, o + 4, next))
                                    ELSE f[next]]
           E == CHOOSE f : Eq(f)
<1>1. PICK f : ExtensionWalk(f, body, end)
    BY ExtensionsMove, Walk DEF ExtensionWalk
<1>2. ASSUME NEW g, NEW o \in Nat
      PROVE  (IF o \in ExtensionStop(body, end) THEN ExtensionOut(body, end)[o] ELSE g[ExtensionJump(body)[o]]) =
             IF o + 4 > end THEN {}
             ELSE LET next == o + 4 + U16(body, o + 2)
                  IN IF next > end THEN {}
                     ELSE IF U16(body, o) = 0 THEN NameInList(Slice(body, o + 4, next))
                     ELSE g[next]
    <2> DEFINE next == o + 4 + U16(body, o + 2)
    <2>1. /\ ExtensionJump(body)[o] = next
          /\ o \in ExtensionStop(body, end) <=> ~ExtensionAt(body, o, end) \/ U16(body, o) = 0
          /\ ExtensionOut(body, end)[o] =
                IF ExtensionAt(body, o, end) THEN NameInList(Slice(body, o + 4, next)) ELSE {}
        BY DEF ExtensionJump, ExtensionStop, ExtensionOut, ExtensionData
    <2>2. CASE o + 4 > end
        BY <2>1, <2>2 DEF ExtensionAt
    <2>3. CASE ~(o + 4 > end)
        <3>1. next \in Nat
            BY <2>3, WordAt
        <3>2. ExtensionAt(body, o, end) <=> ~(next > end)
            <4>1. ExtensionAt(body, o, end) <=> o + 4 <= end /\ next <= end
                BY DEF ExtensionAt
            <4> HIDE DEF next
            <4> QED
                BY <2>3, <3>1, <4>1
        <3> HIDE DEF next
        <3> QED
            BY <2>1, <2>3, <3>2 DEF next
    <2> QED
        BY <2>2, <2>3
<1>3. Eq(f)
    BY <1>1, <1>2 DEF ExtensionWalk, IsWalk
<1>4. Eq(E)
    <2> HIDE DEF Eq
    <2> QED
        BY <1>3
<1>5. ExtensionWalk(E, body, end)
    <2> HIDE DEF E
    <2> QED
        BY <1>2, <1>4 DEF ExtensionWalk, IsWalk
<1>6. ServerNameIn(body, start, end) = E[start]
    BY DEF ServerNameIn
<1> QED
    <2> HIDE DEF E
    <2> QED
        BY <1>5, <1>6

\* What the extensions say
BlockSays(body, start, end, extensions, entries, name) ==
    LET o == extensions[Len(extensions)] IN
    /\ ExtensionsOf(body, extensions, start, end)
    /\ IF o = end THEN name = {}
       ELSE /\ ExtensionAt(body, o, end) /\ U16(body, o) = 0
            /\ ListSays(ExtensionData(body, o), entries, name)

LEMMA BlockMeans ==
    ASSUME NEW body \in Seq(Byte), NEW start, NEW end \in Nat, end <= Len(body),
           NEW extensions, NEW entries, NEW name,
           BlockSays(body, start, end, extensions, entries, name)
    PROVE  ServerNameIn(body, start, end) = name
<1> DEFINE o == extensions[Len(extensions)]
<1>1. PICK f : ExtensionWalk(f, body, end) /\ ServerNameIn(body, start, end) = f[start]
    BY BlockWalk
<1>2. ExtensionsOf(body, extensions, start, end)
    BY DEF BlockSays
<1>3. /\ extensions \in Seq(Nat) /\ Len(extensions) \in DOMAIN extensions
      /\ extensions[1] = start /\ o \in Nat
    BY <1>2 DEF ExtensionsOf
<1>4. IsChain(extensions, ExtensionStop(body, end), ExtensionJump(body))
    <2>1. \A i \in 1..(Len(extensions) - 1) :
             /\ extensions[i] \in Nat /\ ExtensionAt(body, extensions[i], end) /\ U16(body, extensions[i]) # 0
             /\ extensions[i + 1] = extensions[i] + 4 + U16(body, extensions[i] + 2)
        <3> SUFFICES ASSUME NEW i \in 1..(Len(extensions) - 1)
                     PROVE  /\ extensions[i] \in Nat /\ ExtensionAt(body, extensions[i], end)
                            /\ U16(body, extensions[i]) # 0
                            /\ extensions[i + 1] = extensions[i] + 4 + U16(body, extensions[i] + 2)
            OBVIOUS
        <3>1. extensions[i] \in Nat
            BY <1>3
        <3> QED
            BY <1>2, <3>1 DEF ExtensionsOf
    <2> QED
        BY <1>3, <2>1 DEF IsChain, ExtensionStop, ExtensionJump
<1>5. f[start] = f[o]
    <2>1. \A i \in DOMAIN extensions : f[extensions[1]] = f[extensions[i]]
        BY <1>1, <1>4, Chain DEF ExtensionWalk
    <2> QED
        BY <1>3, <2>1
<1>6. o \in ExtensionStop(body, end) /\ ExtensionOut(body, end)[o] = name
    <2>1. CASE o = end
        <3>1. ~ExtensionAt(body, o, end)
            BY <2>1 DEF ExtensionAt
        <3>2. name = {}
            BY <2>1 DEF BlockSays
        <3> QED
            BY <1>3, <3>1, <3>2 DEF ExtensionStop, ExtensionOut
    <2>2. CASE o # end
        <3>1. ExtensionAt(body, o, end) /\ U16(body, o) = 0 /\ ListSays(ExtensionData(body, o), entries, name)
            BY <2>2 DEF BlockSays
        <3>2. ExtensionData(body, o) \in Seq(Byte)
            <4> DEFINE next == o + 4 + U16(body, o + 2)
            <4>1. o + 4 <= end /\ next <= end
                BY <3>1 DEF ExtensionAt
            <4>2. U16(body, o + 2) \in Nat
                BY <1>3, <4>1, WordAt
            <4>3. o + 4 \in Nat /\ next \in Nat /\ o + 4 <= next /\ next <= Len(body)
                BY <1>3, <4>1, <4>2
            <4> HIDE DEF next
            <4>4. Slice(body, o + 4, next) \in Seq(Byte)
                BY <4>3, SliceBytes DEF IsSlice
            <4> QED
                BY <4>4 DEF ExtensionData, next
        <3>3. NameInList(ExtensionData(body, o)) = name
            BY <3>1, <3>2, ListMeans
        <3> QED
            BY <1>3, <3>1, <3>3 DEF ExtensionStop, ExtensionOut
    <2> QED
        BY <2>1, <2>2
<1>7. f[o] = name
    BY <1>1, <1>3, <1>6 DEF ExtensionWalk, IsWalk
<1> QED
    BY <1>1, <1>5, <1>7

LEMMA BlockWithin ==
    ASSUME NEW body \in Seq(Byte), NEW start \in Nat, NEW end \in Nat, end <= Len(body)
    PROVE  ServerNameIn(body, start, end) \subseteq Within(body)
<1>1. PICK f : ExtensionWalk(f, body, end) /\ ServerNameIn(body, start, end) = f[start]
    BY BlockWalk
<1> DEFINE R == SUBSET Within(body)
<1>2. ASSUME NEW o \in Nat PROVE ExtensionOut(body, end)[o] \in R
    <2>1. CASE ~ExtensionAt(body, o, end)
        BY <2>1 DEF ExtensionOut
    <2>2. CASE ExtensionAt(body, o, end)
        <3> DEFINE next == o + 4 + U16(body, o + 2)
                   data == Slice(body, o + 4, next)
        <3>1. o + 4 <= end /\ next <= end /\ ExtensionOut(body, end)[o] = NameInList(data)
            BY <2>2 DEF ExtensionAt, ExtensionOut, ExtensionData
        <3>2. U16(body, o + 2) \in Nat
            BY <3>1, WordAt
        <3>3. o + 4 \in Nat /\ next \in Nat /\ o + 4 <= next /\ next <= Len(body)
            BY <3>1, <3>2
        <3> HIDE DEF next
        <3>4. data \in Seq(Byte) /\ data \in Within(body)
            BY <3>3, SliceBytes DEF Within, IsSlice
        <3> HIDE DEF data
        <3>5. NameInList(data) \subseteq Within(data)
            BY <3>4, ListWithin
        <3>6. \A s \in Within(data) : s \in Within(body)
            BY <3>4, WithinPart
        <3> QED
            BY <3>1, <3>5, <3>6
    <2> QED
        BY <2>1, <2>2
<1> HIDE DEF R
<1>3. \A o \in Nat : f[o] \in R
    <2> DEFINE stop == ExtensionStop(body, end)
               out == ExtensionOut(body, end)
               jump == ExtensionJump(body)
    <2>1. IsWalk(f, stop, out, jump) /\ EndsIn(stop, out, R)
        BY <1>1, <1>2 DEF ExtensionWalk, EndsIn
    <2>2. Forward(stop, jump, end)
        BY ExtensionsMove DEF Forward
    <2> HIDE DEF stop, out, jump
    <2> QED
        BY <2>1, <2>2, WalkRange
<1> QED
    BY <1>1, <1>3 DEF R

\* parse_tls_sni_from_record, of a whole body
LEMMA RecordMeans ==
    ASSUME NEW body \in Seq(Byte), NEW hello, BodySays(body, hello)
    PROVE  RecordServerName(body) = hello.name
<1> DEFINE ciphers     == 39 + At(body, 38)
           compression == ciphers + 2 + U16(body, ciphers)
           block       == compression + 1 + At(body, compression)
           end         == block + 2 + U16(body, block)
<1>1. /\ Len(body) >= 42 /\ At(body, 0) = 1 /\ Announced(body) = Len(body)
      /\ ciphers + 2 <= Len(body) /\ compression + 1 <= Len(body) /\ block + 2 <= Len(body)
      /\ end <= Len(body)
      /\ BlockSays(body, block + 2, end, hello.extensions, hello.entries, hello.name)
    BY DEF BodySays, BlockSays, ExtensionData
<1>2. Len(body) \in Nat
    OBVIOUS
<1>3. ciphers \in Nat /\ AfterVector(body, 38, 1) = {ciphers}
    <2>1. At(body, 38) \in Nat
        BY <1>1, ByteAt
    <2> QED
        BY <1>1, <2>1 DEF AfterVector
<1> HIDE DEF ciphers
<1>4. compression \in Nat /\ AfterVector(body, ciphers, 2) = {compression}
    <2>1. U16(body, ciphers) \in Nat
        BY <1>1, <1>3, WordAt
    <2> QED
        BY <1>1, <1>3, <2>1 DEF AfterVector
<1> HIDE DEF compression
<1>5. block \in Nat /\ AfterVector(body, compression, 1) = {block}
    <2>1. At(body, compression) \in Nat
        BY <1>1, <1>2, <1>4, ByteAt
    <2> QED
        BY <1>1, <1>4, <2>1 DEF AfterVector
<1> HIDE DEF block
<1>6. ExtensionsAt(body) = {block}
    BY <1>3, <1>4, <1>5 DEF ExtensionsAt
<1>7. end \in Nat
    <2>1. U16(body, block) \in Nat
        BY <1>1, <1>5, WordAt
    <2> QED
        BY <1>5, <2>1
<1>8. RecordServerName(body) = ServerNameIn(body, block + 2, end)
    <2>1. ~(\/ Len(body) < 42 \/ At(body, 0) # 1
            \/ 65536 * At(body, 1) + U16(body, 2) + 4 > Len(body))
        <3>1. At(body, 1) \in Nat /\ U16(body, 2) \in Nat
            BY <1>1, ByteAt, WordAt
        <3>2. 65536 * At(body, 1) + U16(body, 2) + 4 = Len(body)
            BY <1>1, <3>1 DEF Announced
        <3> QED
            BY <1>1, <1>2, <3>2
    <2>2. {e \in ExtensionsAt(body) : e + 2 <= Len(body) /\ e + 2 + U16(body, e) <= Len(body)} = {block}
        BY <1>1, <1>6
    <2>3. RecordServerName(body) =
             UNION {ServerNameIn(body, o + 2, o + 2 + U16(body, o)) :
                       o \in {e \in ExtensionsAt(body) : /\ e + 2 <= Len(body)
                                                         /\ e + 2 + U16(body, e) <= Len(body)}}
        BY <2>1 DEF RecordServerName
    <2> QED
        BY <2>2, <2>3
<1> HIDE DEF end
<1>9. ServerNameIn(body, block + 2, end) = hello.name
    BY <1>1, <1>7, BlockMeans
<1> QED
    BY <1>8, <1>9

LEMMA VectorsMove ==
    ASSUME NEW body \in Seq(Byte), NEW o \in Nat, NEW width \in {1, 2}
    PROVE  AfterVector(body, o, width) \subseteq Nat
<1>1. CASE o + width > Len(body)
    BY <1>1 DEF AfterVector
<1>2. CASE ~(o + width > Len(body))
    <2>1. width = 1 => At(body, o) \in Nat
        BY <1>2, ByteAt
    <2>2. width = 2 => U16(body, o) \in Nat
        BY <1>2, WordAt
    <2> QED
        BY <1>2, <2>1, <2>2 DEF AfterVector
<1> QED
    BY <1>1, <1>2

LEMMA RecordWithin ==
    ASSUME NEW body \in Seq(Byte)
    PROVE  RecordServerName(body) \subseteq Within(body)
<1> DEFINE found == {e \in ExtensionsAt(body) : e + 2 <= Len(body) /\ e + 2 + U16(body, e) <= Len(body)}
<1>1. ExtensionsAt(body) \subseteq Nat
    <2>1. \A s \in AfterVector(body, 38, 1) : s \in Nat
        BY VectorsMove
    <2>2. \A s \in Nat : \A c \in AfterVector(body, s, 2) : c \in Nat
        BY VectorsMove
    <2>3. \A c \in Nat : AfterVector(body, c, 1) \subseteq Nat
        BY VectorsMove
    <2> QED
        BY <2>1, <2>2, <2>3 DEF ExtensionsAt
<1>2. ASSUME NEW o \in found
      PROVE  ServerNameIn(body, o + 2, o + 2 + U16(body, o)) \subseteq Within(body)
    <2>1. o \in Nat /\ o + 2 <= Len(body)
        BY <1>1
    <2>2. U16(body, o) \in Nat
        BY <2>1, WordAt
    <2>3. o + 2 \in Nat /\ o + 2 + U16(body, o) \in Nat /\ o + 2 + U16(body, o) <= Len(body)
        BY <2>1, <2>2
    <2> QED
        BY <2>3, BlockWithin
<1>3. RecordServerName(body) \subseteq UNION {ServerNameIn(body, o + 2, o + 2 + U16(body, o)) : o \in found}
    BY DEF RecordServerName
<1> HIDE DEF found
<1> QED
    BY <1>2, <1>3

\* read_tls_sni
LEMMA WholeNamed ==
    ASSUME NEW hello, hello.bytes \in Seq(Byte), WholeMeans(hello)
    PROVE  TlsServerName(hello.bytes) = hello.name
<1> DEFINE b == hello.bytes
<1>1. /\ Len(b) >= 5 /\ At(b, 0) = 22 /\ U16(b, 3) \in RecordSizes /\ 5 + U16(b, 3) <= Len(b)
      /\ BodySays(Fragment(b), hello)
    BY DEF WholeMeans
<1> HIDE DEF b
<1>2. b \in Seq(Byte) /\ Len(b) \in Nat
    BY DEF b
<1>3. U16(b, 3) \in Nat
    BY <1>1, <1>2, WordAt
<1>4. TlsServerName(b) = RecordServerName(Fragment(b))
    <2>1. ~(Len(b) < 5) /\ ~(Len(b) < 5 + U16(b, 3))
        <3> DEFINE n == U16(b, 3)
        <3>1. n \in Nat /\ 5 + n <= Len(b)
            BY <1>1, <1>3
        <3> HIDE DEF n
        <3>2. ~(Len(b) < 5) /\ ~(Len(b) < 5 + n)
            BY <1>2, <3>1
        <3> QED
            BY <3>2 DEF n
    <2>2. At(b, 0) = 22 /\ ~(U16(b, 3) \notin RecordSizes)
        BY <1>1, Zenon
    <2> QED
        BY <2>1, <2>2 DEF TlsServerName, Fragment
<1>5. Fragment(b) \in Seq(Byte)
    <2>1. 5 \in Nat /\ 5 + U16(b, 3) \in Nat /\ 5 <= 5 + U16(b, 3)
        BY <1>3
    <2> QED
        BY <1>1, <1>2, <2>1, SliceBytes DEF Fragment, IsSlice
<1> QED
    BY <1>1, <1>4, <1>5, RecordMeans DEF b

LEMMA CutUnnamed ==
    ASSUME NEW hello, hello.bytes \in Seq(Byte), CutMeans(hello)
    PROVE  TlsServerName(hello.bytes) = {}
<1> DEFINE b == hello.bytes
           h == hello.of
           n == U16(b, 3)
<1>1. /\ h \in Seq(Byte) /\ Len(h) >= 4 /\ Announced(h) = Len(h)
      /\ \/ Len(b) < 5
         \/ n = Len(h) /\ Len(b) < 5 + n
         \/ n < Len(h) /\ 5 + n <= Len(b) /\ Fragment(b) = Slice(h, 0, n)
    BY DEF CutMeans
<1> HIDE DEF b, h
<1>2. b \in Seq(Byte) /\ Len(b) \in Nat /\ Len(h) \in Nat
    BY <1>1 DEF b
<1>3. CASE Len(b) < 5
    BY <1>3 DEF TlsServerName, b
<1>4. CASE Len(b) < 5 + n
    BY <1>4 DEF TlsServerName, b
<1>5. CASE Len(b) >= 5 /\ n < Len(h) /\ 5 + n <= Len(b) /\ Fragment(b) = Slice(h, 0, n)
    <2> DEFINE body == Slice(h, 0, n)
    <2>1. n \in Nat
        BY <1>2, <1>5, WordAt
    <2>2. TlsServerName(b) = {} \/ TlsServerName(b) = RecordServerName(body)
        BY <1>5 DEF TlsServerName, Fragment
    <2>3. IsSlice(body, h, 0, n)
        <3>1. 0 \in Nat /\ 0 <= n /\ n <= Len(h)
            BY <1>2, <1>5, <2>1
        <3> HIDE DEF n
        <3> QED
            BY <1>1, <2>1, <3>1, SliceBytes
    <2> HIDE DEF n
    <2>4. Len(body) = n /\ \A k \in 1..n : body[k] = h[k]
        <3> HIDE DEF body
        <3> QED
            BY <2>1, <2>3 DEF IsSlice
    <2> HIDE DEF body
    <2>5. RecordServerName(body) = {}
        <3>1. CASE Len(body) < 42
            BY <3>1 DEF RecordServerName
        <3>2. CASE ~(Len(body) < 42)
            <4>1. n >= 42
                BY <2>1, <2>4, <3>2
            <4>2. body[2] = h[2] /\ body[3] = h[3] /\ body[4] = h[4]
                BY <2>1, <2>4, <4>1
            <4>3. At(body, 1) = At(h, 1) /\ U16(body, 2) = U16(h, 2)
                BY <4>2 DEF At, U16
            <4>4. At(h, 1) \in Nat /\ U16(h, 2) \in Nat
                BY <1>1, <1>2, ByteAt, WordAt
            <4>5. 65536 * At(body, 1) + U16(body, 2) + 4 = Len(h)
                BY <1>1, <4>3, <4>4 DEF Announced
            <4>6. 65536 * At(body, 1) + U16(body, 2) + 4 > Len(body)
                BY <1>2, <1>5, <2>1, <2>4, <4>5
            <4> QED
                BY <4>6 DEF RecordServerName
        <3> QED
            BY <3>1, <3>2
    <2> QED
        BY <2>2, <2>5 DEF b
<1> QED
    BY <1>1, <1>2, <1>3, <1>4, <1>5

LEMMA StreamWithin ==
    ASSUME NEW b \in Seq(Byte)
    PROVE  TlsServerName(b) \subseteq Within(b)
<1> DEFINE n == U16(b, 3)
           cut == (Len(b) < 5 \/ At(b, 0) # 22) \/ (n \notin RecordSizes \/ Len(b) < 5 + n)
           body == Slice(b, 5, 5 + n)
<1>1. CASE cut
    BY <1>1 DEF TlsServerName
<1>2. CASE ~cut
    <2>1. TlsServerName(b) = RecordServerName(body)
        BY <1>2 DEF TlsServerName
    <2>2. n \in Nat /\ 5 + n \in Nat /\ 5 <= 5 + n /\ 5 + n <= Len(b) /\ 5 \in Nat
        <3>1. ~(Len(b) < 5) /\ ~(Len(b) < 5 + n)
            BY <1>2
        <3>2. Len(b) \in Nat /\ n \in Nat
            BY <3>1, WordAt
        <3> HIDE DEF n
        <3> QED
            BY <3>1, <3>2
    <2> HIDE DEF n
    <2>3. body \in Seq(Byte) /\ body \in Within(b)
        BY <2>2, SliceBytes DEF Within, IsSlice
    <2> HIDE DEF body
    <2>4. RecordServerName(body) \subseteq Within(body)
        BY <2>3, RecordWithin
    <2>5. \A s \in Within(body) : s \in Within(b)
        BY <2>3, WithinPart
    <2> QED
        BY <2>1, <2>4, <2>5
<1> HIDE DEF cut
<1> QED
    BY <1>1, <1>2

-----------------------------------------------------------------------------
\* Discovery: subnets.

\* A power of two divides those above it.
LEMMA Powers ==
    ASSUME NEW k \in 0..Bits
    PROVE  /\ Pow2[k] \in Nat \ {0}
           /\ \E m \in Nat \ {0} : Pow2[Bits] = Pow2[k] * m
<1> DEFINE Eq(f)   == f = [n \in 0..Bits |-> IF n = 0 THEN 1 ELSE 2 * f[n - 1]]
           E       == CHOOSE f : Eq(f)
           step    == [n \in 1..Bits |-> [v \in Nat \ {0} |-> 2 * v]]
<1>1. Bits \in Nat
    BY BitsAssumption
<1>2. \E f : IsRun(f, Bits, Nat \ {0}, 1, step)
    <2>1. \A n \in 1..Bits : \A v \in Nat \ {0} : step[n][v] \in Nat \ {0}
        OBVIOUS
    <2>2. 1 \in Nat \ {0}
        OBVIOUS
    <2> DEFINE V == Nat \ {0}
    <2> HIDE DEF step, V
    <2>3. \E f : IsRun(f, Bits, V, 1, step)
        BY <1>1, <2>1, <2>2, Loop DEF V
    <2> QED
        BY <2>3 DEF V
<1>3. Eq(E)
    <2>1. PICK f : IsRun(f, Bits, Nat \ {0}, 1, step)
        BY <1>2
    <2>2. f = [n \in 0..Bits |-> IF n = 0 THEN 1 ELSE 2 * f[n - 1]]
        <3>1. f = [n \in 0..Bits |-> f[n]]
            BY <2>1 DEF IsRun
        <3>2. ASSUME NEW n \in 0..Bits PROVE f[n] = IF n = 0 THEN 1 ELSE 2 * f[n - 1]
            <4>1. CASE n = 0
                BY <2>1, <4>1 DEF IsRun
            <4>2. CASE n # 0
                <5>1. n \in 1..Bits /\ n - 1 \in 0..Bits
                    BY <1>1, <4>2
                <5>2. f[n] = step[n][f[n - 1]] /\ f[n - 1] \in Nat \ {0}
                    BY <2>1, <5>1 DEF IsRun
                <5> QED
                    BY <4>2, <5>1, <5>2
            <4> QED
                BY <4>1, <4>2
        <3> QED
            BY <3>1, <3>2
    <2> QED
        BY <2>2
<1>4. Pow2 = E
    BY DEF Pow2
<1>5. Pow2 = [n \in 0..Bits |-> IF n = 0 THEN 1 ELSE 2 * Pow2[n - 1]]
    <2> HIDE DEF E
    <2> QED
        BY <1>3, <1>4
<1>6. Pow2[0] = 1
    BY <1>1, <1>5
<1>7. ASSUME NEW n \in Nat, n + 1 \in 0..Bits PROVE Pow2[n + 1] = 2 * Pow2[n]
    BY <1>1, <1>5, <1>7
<1> HIDE DEF E
<1>8. \A n \in Nat : n \in 0..Bits => Pow2[n] \in Nat \ {0}
    <2> DEFINE S == {n \in Nat : n \in 0..Bits => Pow2[n] \in Nat \ {0}}
    <2>1. 0 \in S
        BY <1>6
    <2>2. ASSUME NEW n \in Nat, n \in S PROVE n + 1 \in S
        BY <1>1, <1>7, <2>2
    <2>3. Nat \subseteq S
        <3> HIDE DEF S
        <3> QED
            BY <2>1, <2>2, Induction
    <2> QED
        BY <2>3
<1>9. \A d \in Nat : k + d \in 0..Bits => \E m \in Nat \ {0} : Pow2[k + d] = Pow2[k] * m
    <2> DEFINE S == {d \in Nat : k + d \in 0..Bits => \E m \in Nat \ {0} : Pow2[k + d] = Pow2[k] * m}
    <2>1. 0 \in S
        <3>1. Pow2[k + 0] = Pow2[k] * 1
            BY <1>1, <1>8
        <3> QED
            BY <3>1
    <2>2. ASSUME NEW d \in Nat, d \in S PROVE d + 1 \in S
        <3> SUFFICES ASSUME k + (d + 1) \in 0..Bits
                     PROVE  \E m \in Nat \ {0} : Pow2[k + (d + 1)] = Pow2[k] * m
            OBVIOUS
        <3>1. k + d \in 0..Bits /\ k + d \in Nat /\ (k + d) + 1 = k + (d + 1)
            BY <1>1
        <3>2. PICK m \in Nat \ {0} : Pow2[k + d] = Pow2[k] * m
            BY <2>2, <3>1
        <3>3. Pow2[k + (d + 1)] = 2 * (Pow2[k] * m)
            BY <1>7, <3>1, <3>2
        <3>4. Pow2[k] \in Nat
            BY <1>1, <1>8
        <3>5. 2 * (Pow2[k] * m) = Pow2[k] * (2 * m) /\ 2 * m \in Nat \ {0}
            BY <3>4
        <3> QED
            BY <3>3, <3>5
    <2>3. Nat \subseteq S
        <3> HIDE DEF S
        <3> QED
            BY <2>1, <2>2, Induction
    <2> QED
        BY <2>3
<1>10. PICK d \in Nat : k + d = Bits /\ k \in Nat
    <2>1. Bits - k \in Nat /\ k + (Bits - k) = Bits /\ k \in Nat
        BY <1>1
    <2> QED
        BY <2>1
<1>11. k + d \in 0..Bits
    BY <1>1, <1>10
<1>12. \E m \in Nat \ {0} : Pow2[k + d] = Pow2[k] * m
    BY <1>9, <1>10, <1>11
<1>13. \E m \in Nat \ {0} : Pow2[Bits] = Pow2[k] * m
    BY <1>10, <1>12
<1> QED
    BY <1>8, <1>10, <1>13

\* The start of the block of p that n lies in
Low(n, p) == n - (n % p)

LEMMA Division ==
    ASSUME NEW n \in Nat, NEW p \in Nat \ {0}
    PROVE  /\ \E q \in Nat : Low(n, p) = p * q
           /\ Low(n, p) \in Nat
           /\ Low(n, p) <= n /\ n <= Low(n, p) + p - 1
<1>1. PICK r \in 0..(p - 1) : r = n % p
    <2>1. n % p \in 0..(p - 1)
        OBVIOUS
    <2> QED
        BY <2>1
<1>2. PICK q \in Nat : q = n \div p
    OBVIOUS
<1>3. n - r = p * q
    BY <1>1, <1>2
<1>4. p * q \in Nat
    OBVIOUS
<1>5. Low(n, p) = n - r
    BY <1>1 DEF Low
<1>6. n - r <= n /\ n <= n - r + p - 1
    BY <1>3, <1>4
<1> QED
    BY <1>3, <1>4, <1>5, <1>6

\* Multiples of p are p apart.
LEMMA Apart ==
    ASSUME NEW p \in Nat \ {0}, NEW i \in Nat, NEW j \in Nat, i < j
    PROVE  p * i + p <= p * j
<1>1. p * (i + 1) <= p * j
    OBVIOUS
<1>2. p * (i + 1) = p * i + p
    OBVIOUS
<1> QED
    BY <1>1, <1>2

\* A block that starts below a multiple of p ends below it.
LEMMA Blocks ==
    ASSUME NEW p \in Nat \ {0}, NEW m \in Nat, NEW n \in Nat, n < p * m
    PROVE  Low(n, p) + p <= p * m
<1>1. PICK q \in Nat : Low(n, p) = p * q /\ p * q <= n /\ n <= p * q + p - 1
    BY Division
<1>2. p * q \in Nat /\ p * m \in Nat
    OBVIOUS
<1>3. q < m
    <2> SUFFICES ASSUME q > m \/ q = m PROVE FALSE
        OBVIOUS
    <2>1. q > m => p * m + p <= p * q
        BY Apart
    <2> QED
        BY <1>1, <1>2, <2>1
<1> QED
    BY <1>1, <1>2, <1>3, Apart

\* The block of p that starts at p * i
LEMMA InBlock ==
    ASSUME NEW p \in Nat \ {0}, NEW i \in Nat, NEW c \in Nat, p * i <= c, c <= p * i + p - 1
    PROVE  Low(c, p) = p * i
<1>1. PICK j \in Nat : Low(c, p) = p * j /\ p * j \in Nat /\ p * j <= c /\ c <= p * j + p - 1
    BY Division
<1>2. p * i \in Nat
    OBVIOUS
<1>3. ~(i < j)
    BY <1>1, <1>2, Apart
<1>4. ~(j < i)
    BY <1>1, <1>2, Apart
<1> QED
    BY <1>1, <1>3, <1>4

\* Two numbers share their block exactly if the one lies in the other's.
LEMMA SameBlock ==
    ASSUME NEW p \in Nat \ {0}, NEW a \in Nat, NEW b \in Nat
    PROVE  /\ Low(Low(a, p), p) = Low(a, p)
           /\ Low(a, p) = Low(b, p) <=> (Low(a, p) <= b /\ b <= Low(a, p) + p - 1)
<1>1. PICK i \in Nat : Low(a, p) = p * i /\ p * i \in Nat
    BY Division
<1>2. ASSUME NEW c \in Nat, p * i <= c, c <= p * i + p - 1
      PROVE  Low(c, p) = p * i
    BY <1>2, InBlock
<1>3. Low(b, p) <= b /\ b <= Low(b, p) + p - 1
    BY Division
<1>4. p * i <= p * i /\ p * i <= p * i + p - 1
    BY <1>1
<1> QED
    BY <1>1, <1>2, <1>3, <1>4

\* The mask of a prefix leaves a block of 2^HostBits free, however long the prefix.
LEMMA MaskMeans ==
    ASSUME NEW prefix \in Nat
    PROVE  /\ HostBits(prefix) \in 0..Bits
           /\ Mask(prefix) = Pow2[Bits] - Pow2[HostBits(prefix)]
<1> DEFINE h == HostBits(prefix)
           n == Pow2[Bits]
           p == Pow2[h]
<1>1. Bits \in Nat /\ Bits # 0 /\ Bits \in 0..Bits
    BY BitsAssumption
<1>2. h \in 0..Bits
    BY <1>1 DEF HostBits
<1> HIDE DEF h
<1>3. /\ n \in Nat \ {0} /\ p \in Nat \ {0}
      /\ \E m \in Nat \ {0} : n = p * m
    BY <1>1, <1>2, Powers
<1> HIDE DEF n, p
<1>4. p <= n
    <2>1. PICK m \in Nat \ {0} : n = p * m
        BY <1>3
    <2>2. m = 1 \/ 1 < m
        OBVIOUS
    <2>3. m # 1 => p * 1 + p <= p * m
        BY <1>3, <2>2, Apart
    <2> QED
        BY <1>3, <2>1, <2>3
<1>5. ((n - 1) * p) % n = n - p
    <2>1. (n - 1) * p = n * (p - 1) + (n - p)
        BY <1>3
    <2>2. PICK i \in Nat, c \in Nat : i = p - 1 /\ c = n - p /\ c <= n - 1
        BY <1>3, <1>4
    <2>3. (n * i + c) % n = c
        <3>1. PICK x \in Nat : x = n * i + c
            BY <1>3
        <3>2. n * i <= x /\ x <= n * i + n - 1 /\ n * i \in Nat
            BY <1>3, <2>2, <3>1
        <3>3. Low(x, n) = n * i
            BY <1>3, <3>2, InBlock
        <3>4. x % n \in Nat /\ x - (x % n) = n * i
            BY <1>3, <3>3 DEF Low
        <3> QED
            BY <3>1, <3>4
    <2> QED
        BY <2>1, <2>2, <2>3
<1>6. Mask(prefix) = IF h = Bits THEN 0 ELSE ((n - 1) * p) % n
    BY DEF Mask, h, n, p
<1>7. h = Bits => p = n
    BY DEF p, n
<1> QED
    BY <1>2, <1>3, <1>5, <1>6, <1>7 DEF h, n, p

\* Of a set whose field is a number there is an element with the least.
LEMMA LeastThere ==
    ASSUME NEW S, NEW field, S # {}, \A x \in S : x[field] \in Nat
    PROVE  LeastBy(S, field) # {}
<1> DEFINE T == {x[field] : x \in S}
<1>1. T \subseteq Nat /\ T # {}
    OBVIOUS
<1>2. PICK v \in T : \A w \in T : v <= w
    <2> HIDE DEF T
    <2> QED
        BY <1>1, LeastNatural
<1>3. PICK x \in S : v = x[field]
    OBVIOUS
<1>4. \A y \in S : x[field] <= y[field]
    BY <1>2, <1>3
<1>5. x \in LeastBy(S, field)
    BY <1>4 DEF LeastBy
<1> QED
    BY <1>5

\* The subnet of a gateway: the packet test, the filter's range and 2^HostBits addresses.
SubnetOf(ip, prefix) == [address |-> NetworkAddress(ip, prefix), prefix |-> prefix]

LEMMA SubnetMeans ==
    ASSUME NEW ip \in Addresses, NEW prefix \in Nat
    PROVE  LET clients == {x \in Addresses : Contains(SubnetOf(ip, prefix), x)}
           IN /\ ip \in clients
              /\ clients = Bounds(SubnetOf(ip, prefix)).low..Bounds(SubnetOf(ip, prefix)).high
              /\ Cardinality(clients) = Pow2[HostBits(prefix)]
<1> DEFINE n == Pow2[Bits]
           p == Pow2[HostBits(prefix)]
           s == SubnetOf(ip, prefix)
           low == Low(ip, p)
           clients == {x \in Addresses : Contains(s, x)}
<1>1. /\ HostBits(prefix) \in 0..Bits
      /\ Mask(prefix) = n - p
    BY MaskMeans
<1>2. n \in Nat \ {0} /\ p \in Nat \ {0} /\ \E m \in Nat \ {0} : n = p * m
    <2>1. Bits \in 0..Bits
        BY BitsAssumption
    <2> QED
        BY <1>1, <2>1, Powers
<1>3. Addresses = 0..(n - 1)
    BY DEF Addresses
<1> HIDE DEF n, p
<1>4. ASSUME NEW x PROVE Masked(x, Mask(prefix)) = Low(x, p)
    <2>1. n - (n - p) = p
        BY <1>2
    <2>2. Pow2[Bits] - Mask(prefix) = p
        BY <1>1, <2>1, Zenon DEF n
    <2> QED
        BY <2>2 DEF Masked, Low
<1>5. ip \in Nat /\ ip < n
    BY <1>2, <1>3
<1>6. low \in Nat /\ low <= ip /\ ip <= low + p - 1 /\ low + p <= n
    <2>1. PICK m \in Nat \ {0} : n = p * m
        BY <1>2
    <2> QED
        BY <1>2, <1>5, <2>1, Division, Blocks
<1>7. s.address = low /\ s.prefix = prefix
    BY <1>4, Zenon DEF SubnetOf, NetworkAddress, low, s
<1>8. ASSUME NEW x \in Nat PROVE Contains(s, x) <=> (low <= x /\ x <= low + p - 1)
    <2>1. Contains(s, x) <=> Low(low, p) = Low(x, p)
        <3>1. Masked(low, Mask(prefix)) = Low(low, p) /\ Masked(x, Mask(prefix)) = Low(x, p)
            BY <1>4
        <3> HIDE DEF s, low
        <3>2. Contains(s, x) <=> Masked(low, Mask(prefix)) = Masked(x, Mask(prefix))
            BY <1>7, Zenon DEF Contains
        <3> QED
            BY <3>1, <3>2
    <2>2. Low(low, p) = low /\ (low = Low(x, p) <=> (low <= x /\ x <= low + p - 1))
        BY <1>2, <1>5, SameBlock
    <2> QED
        BY <2>1, <2>2
<1> HIDE DEF s, low
<1>9. clients = low..(low + p - 1)
    BY <1>2, <1>3, <1>6, <1>8
<1>10. Bounds(s).low = low /\ Bounds(s).high = low + p - 1
    <2>1. Masked(s.address, Mask(s.prefix)) = low
        <3>1. Low(low, p) = low
            BY <1>2, <1>5, SameBlock DEF low
        <3> QED
            BY <1>4, <1>7, <3>1
    <2>2. Mask(s.prefix) = n - p
        BY <1>1, <1>7
    <2>3. Bounds(s).low = low /\ Bounds(s).high = low + (n - 1 - (n - p))
        BY <2>1, <2>2 DEF Bounds, n
    <2>4. n - 1 - (n - p) = p - 1
        BY <1>2
    <2> QED
        BY <1>2, <1>6, <2>3, <2>4
<1>11. Cardinality(clients) = p
    <2>1. Cardinality(low..(low + p - 1)) = p
        <3>1. low \in Int /\ low + p - 1 \in Int /\ ~(low > low + p - 1)
              /\ (low + p - 1) - low + 1 = p
            BY <1>2, <1>6
        <3> QED
            BY <3>1, FS_Interval
    <2> QED
        BY <1>9, <2>1
<1>12. ip \in clients
    BY <1>5, <1>6, <1>9
<1> QED
    BY <1>9, <1>10, <1>11, <1>12 DEF s, p

-----------------------------------------------------------------------------
\* Discovery: the address that is found.

LEMMA AddressesMean ==
    ASSUME NEW adapters \in Seq(Adapters), NEW k \in DOMAIN adapters,
           NEW c \in AddressesOf(adapters, k)
    PROVE  /\ c.index = adapters[k].index /\ c.index \in Nat
           /\ c.ip \in Addresses /\ c.prefix \in Nat
           /\ c.adapter = k /\ c.adapter \in Nat /\ c.addr \in Nat
           /\ \E i \in DOMAIN adapters[k].addrs :
                 adapters[k].addrs[i] = [ip |-> c.ip, prefix |-> c.prefix]
<1>1. adapters[k] \in Adapters /\ k \in Nat
    OBVIOUS
<1> DEFINE addrs == adapters[k].addrs
<1>2. addrs \in Seq([ip : Addresses, prefix : Nat]) /\ adapters[k].index \in Nat
    BY <1>1 DEF Adapters
<1>3. PICK i \in DOMAIN addrs :
          c = [index |-> adapters[k].index, ip |-> addrs[i].ip,
               prefix |-> addrs[i].prefix, adapter |-> k, addr |-> i]
    BY DEF AddressesOf
<1>4. addrs[i] \in [ip : Addresses, prefix : Nat] /\ i \in Nat
    <2> DEFINE T == [ip : Addresses, prefix : Nat]
    <2>1. addrs \in Seq(T)
        BY <1>2
    <2> HIDE DEF addrs, T
    <2>2. addrs[i] \in T /\ i \in Nat
        BY <2>1
    <2> QED
        BY <2>2 DEF T
<1>5. addrs[i] = [ip |-> addrs[i].ip, prefix |-> addrs[i].prefix]
    BY <1>4
<1>6. addrs[i] = [ip |-> c.ip, prefix |-> c.prefix]
    BY <1>3, <1>5
<1> QED
    BY <1>1, <1>2, <1>3, <1>4, <1>6

\* Where a candidate comes from, and that one is found if there is any
LEMMA CandidatesMean ==
    ASSUME NEW adapters \in Seq(Adapters), NEW c \in Candidates(adapters)
    PROVE  /\ Usable(c)
           /\ \E k \in DOMAIN adapters : IsHotspot(adapters[k]) /\ c \in AddressesOf(adapters, k)
           /\ c.index \in Nat /\ c.prefix \in Nat /\ c.adapter \in Nat /\ c.addr \in Nat
<1>1. PICK k \in DOMAIN adapters : IsHotspot(adapters[k]) /\ c \in AddressesOf(adapters, k)
    BY DEF Candidates
<1>2. Usable(c)
    BY DEF Candidates
<1> QED
    BY <1>1, <1>2, AddressesMean

LEMMA ForemostThere ==
    ASSUME NEW S, S # {}, \A x \in S : x["adapter"] \in Nat /\ x["addr"] \in Nat
    PROVE  Foremost(S) # {}
<1>1. LeastBy(S, "adapter") # {}
    BY LeastThere
<1>2. LeastBy(S, "adapter") \subseteq S
    BY DEF LeastBy
<1>3. LeastBy(LeastBy(S, "adapter"), "addr") # {}
    BY <1>1, <1>2, LeastThere
<1> QED
    BY <1>3 DEF Foremost

LEMMA NativeThere ==
    ASSUME NEW adapters \in Seq(Adapters), NEW calls, Answered(calls), Candidates(adapters) # {}
    PROVE  Native(calls, adapters) # {}
<1> DEFINE C == Candidates(adapters)
<1>1. \A c \in C : /\ c["index"] \in Nat /\ c["prefix"] \in Nat
                   /\ c["adapter"] \in Nat /\ c["addr"] \in Nat
    BY CandidatesMean
<1> HIDE DEF C
<1>2. LeastBy(C, "index") # {} /\ LeastBy(C, "index") \subseteq C
    BY <1>1, LeastThere DEF C, LeastBy
<1>3. LeastBy(LeastBy(C, "index"), "prefix") # {} /\ LeastBy(LeastBy(C, "index"), "prefix") \subseteq C
    BY <1>1, <1>2, LeastThere DEF LeastBy
<1>4. Foremost(LeastBy(LeastBy(C, "index"), "prefix")) # {}
    BY <1>1, <1>3, ForemostThere
<1> QED
    BY <1>4 DEF Native, C

\* What both discoveries choose from
Source(adapters, c) ==
    \E k \in DOMAIN adapters :
        /\ c \in AddressesOf(adapters, k)
        /\ adapters[k].status # "down"
        /\ "none" # adapters[k].description \/ "none" # adapters[k].friendly
        /\ c.ip \notin LinkLocal

LEMMA NativeSource ==
    ASSUME NEW adapters \in Seq(Adapters), NEW calls, NEW r \in Native(calls, adapters)
    PROVE  \E c : r = Runtime(c) /\ Source(adapters, c)
<1>1. PICK c \in Foremost(LeastBy(LeastBy(Candidates(adapters), "index"), "prefix")) : r = Runtime(c)
    BY DEF Native
<1>2. c \in Candidates(adapters)
    BY <1>1 DEF Foremost, LeastBy
<1>3. PICK k \in DOMAIN adapters : IsHotspot(adapters[k]) /\ c \in AddressesOf(adapters, k)
    BY <1>2, CandidatesMean
<1>4. adapters[k].status # "down"
    BY <1>3 DEF IsHotspot
<1>5. "none" # adapters[k].description \/ "none" # adapters[k].friendly
    BY <1>3 DEF IsHotspot
<1>6. c.ip \notin LinkLocal
    BY <1>2 DEF Candidates, Usable
<1> QED
    BY <1>1, <1>3, <1>4, <1>5, <1>6 DEF Source

\* The script's steps, named
Active(adapters) ==
    {k \in DOMAIN adapters : /\ adapters[k].description = "Wi-Fi Direct"
                             /\ adapters[k].status \in {"up", "connected"}}
Actives(adapters) == {[index |-> adapters[k].index, adapter |-> k] : k \in Active(adapters)}
First(adapters)   == LeastBy(LeastBy(Actives(adapters), "index"), "adapter")
FirstAddresses(adapters) ==
    {c \in UNION {AddressesOf(adapters, a.adapter) : a \in First(adapters)} :
        c.ip \notin LinkLocal \cup {Localhost}}

LEMMA ScriptSteps ==
    ASSUME NEW adapters
    PROVE  Script(adapters) = {Runtime(c) : c \in Foremost(LeastBy(FirstAddresses(adapters), "prefix"))}
BY DEF Script, FirstAddresses, First, Actives, Active

LEMMA ScriptSource ==
    ASSUME NEW adapters \in Seq(Adapters), NEW r \in Script(adapters)
    PROVE  \E c : r = Runtime(c) /\ Source(adapters, c)
<1>1. PICK c \in Foremost(LeastBy(FirstAddresses(adapters), "prefix")) : r = Runtime(c)
    BY ScriptSteps
<1>2. c \in FirstAddresses(adapters)
    BY <1>1 DEF Foremost, LeastBy
<1>3. PICK a \in First(adapters) : c \in AddressesOf(adapters, a.adapter)
    BY <1>2 DEF FirstAddresses
<1>4. a \in Actives(adapters)
    BY <1>3 DEF First, LeastBy
<1>5. PICK k \in Active(adapters) : a.adapter = k
    BY <1>4 DEF Actives
<1>6. k \in DOMAIN adapters /\ adapters[k].status # "down" /\ adapters[k].description # "none"
    BY <1>5 DEF Active
<1>7. c.ip \notin LinkLocal
    BY <1>2 DEF FirstAddresses
<1> QED
    BY <1>1, <1>3, <1>5, <1>6, <1>7 DEF Source

\* Where every adapter is one that both accept, with addresses that both accept, the
\* least index decides in both.
LEMMA SameFound ==
    ASSUME NEW adapters \in Seq(Adapters), Comparable(adapters),
           \A k, n \in DOMAIN adapters : adapters[k].index = adapters[n].index => k = n,
           NEW calls, Answered(calls)
    PROVE  Native(calls, adapters) = Script(adapters)
<1> DEFINE D == DOMAIN adapters
           C == Candidates(adapters)
<1>1. \A k \in D : /\ adapters[k] \in Adapters /\ k \in Nat
                   /\ adapters[k].index \in Nat
    <2>1. \A k \in D : adapters[k] \in Adapters /\ k \in Nat
        OBVIOUS
    <2> QED
        BY <2>1 DEF Adapters
<1>2. \A k \in D : IsHotspot(adapters[k]) /\ k \in Active(adapters)
    BY DEF Comparable, IsHotspot, Active
<1>3. \A k \in D : \A c \in AddressesOf(adapters, k) :
          /\ c.index = adapters[k].index /\ c.ip \notin LinkLocal \cup {Localhost} /\ c \in C
    <2> SUFFICES ASSUME NEW k \in D, NEW c \in AddressesOf(adapters, k)
                 PROVE  /\ c.index = adapters[k].index
                        /\ c.ip \notin LinkLocal \cup {Localhost} /\ c \in C
        OBVIOUS
    <2>1. PICK i \in DOMAIN adapters[k].addrs :
              c = [index |-> adapters[k].index, ip |-> adapters[k].addrs[i].ip,
                   prefix |-> adapters[k].addrs[i].prefix, adapter |-> k, addr |-> i]
        BY DEF AddressesOf
    <2>2. Usable(adapters[k].addrs[i])
        BY DEF Comparable
    <2>3. Usable(c)
        BY <2>1, <2>2 DEF Usable
    <2>4. c \in C
        BY <1>2, <2>3 DEF Candidates
    <2>5. Localhost \in Loopback
        BY BitsAssumption
    <2> QED
        BY <2>1, <2>3, <2>4, <2>5 DEF Usable
<1>4. \A k \in D : AddressesOf(adapters, k) # {}
    <2> SUFFICES ASSUME NEW k \in D PROVE AddressesOf(adapters, k) # {}
        OBVIOUS
    <2>1. adapters[k].addrs \in Seq([ip : Addresses, prefix : Nat]) /\ adapters[k].addrs # <<>>
        BY <1>1 DEF Adapters, Comparable
    <2>2. 1 \in DOMAIN adapters[k].addrs
        BY <2>1
    <2>3. [index |-> adapters[k].index, ip |-> adapters[k].addrs[1].ip,
           prefix |-> adapters[k].addrs[1].prefix, adapter |-> k, addr |-> 1] \in AddressesOf(adapters, k)
        BY <2>2, Zenon DEF AddressesOf
    <2> QED
        BY <2>3
<1>5. CASE D = {}
    <2>1. C = {} /\ FirstAddresses(adapters) = {}
        BY <1>5 DEF Candidates, FirstAddresses, First, Actives, Active, LeastBy
    <2>2. Native(calls, adapters) = {}
        BY <2>1 DEF Native, Foremost, LeastBy
    <2>3. Script(adapters) = {}
        BY <2>1, ScriptSteps DEF Foremost, LeastBy
    <2> QED
        BY <2>2, <2>3
<1>6. CASE D # {}
    <2>1. PICK k \in D : \A n \in D : adapters[k].index <= adapters[n].index
        <3> DEFINE I == {adapters[n].index : n \in D}
        <3>1. I \subseteq Nat /\ I # {}
            BY <1>1, <1>6
        <3>2. PICK v \in I : \A w \in I : v <= w
            <4> HIDE DEF I
            <4> QED
                BY <3>1, LeastNatural
        <3> QED
            BY <3>2
    <2>2. \A n \in D : adapters[n].index <= adapters[k].index => n = k
        BY <1>1, <2>1
    <2>3. LeastBy(C, "index") = AddressesOf(adapters, k)
        <3>1. \A c \in C : \E n \in D : c \in AddressesOf(adapters, n)
            BY DEF Candidates
        <3>2. \A c \in LeastBy(C, "index") : c \in AddressesOf(adapters, k)
            <4> SUFFICES ASSUME NEW c \in LeastBy(C, "index") PROVE c \in AddressesOf(adapters, k)
                OBVIOUS
            <4>1. PICK n \in D : c \in AddressesOf(adapters, n)
                BY <3>1 DEF LeastBy
            <4>2. PICK d \in AddressesOf(adapters, k) : d \in C /\ d.index = adapters[k].index
                BY <1>3, <1>4
            <4>3. c["index"] <= d["index"]
                BY <4>2 DEF LeastBy
            <4>4. c.index = adapters[n].index
                BY <1>3, <4>1
            <4> QED
                BY <2>2, <4>1, <4>2, <4>3, <4>4
        <3>3. \A c \in AddressesOf(adapters, k) : c \in LeastBy(C, "index")
            <4> SUFFICES ASSUME NEW c \in AddressesOf(adapters, k), NEW d \in C
                         PROVE  c["index"] <= d["index"]
                BY <1>3 DEF LeastBy
            <4>1. PICK n \in D : d \in AddressesOf(adapters, n)
                BY <3>1
            <4>2. c.index = adapters[k].index /\ d.index = adapters[n].index
                BY <1>3, <4>1
            <4> QED
                BY <2>1, <4>1, <4>2
        <3> QED
            BY <3>2, <3>3
    <2>4. First(adapters) = {[index |-> adapters[k].index, adapter |-> k]}
        <3> DEFINE a0 == [index |-> adapters[k].index, adapter |-> k]
                   A  == Actives(adapters)
        <3>1. A = {[index |-> adapters[n].index, adapter |-> n] : n \in D}
            BY <1>2 DEF Actives, Active
        <3>2. LeastBy(A, "index") = {a0}
            <4>1. a0 \in LeastBy(A, "index")
                BY <2>1, <3>1 DEF LeastBy
            <4>2. \A a \in LeastBy(A, "index") : a = a0
                <5> SUFFICES ASSUME NEW a \in LeastBy(A, "index") PROVE a = a0
                    OBVIOUS
                <5>1. a \in A /\ a["index"] <= a0["index"]
                    BY <3>1 DEF LeastBy
                <5>2. PICK n \in D : a = [index |-> adapters[n].index, adapter |-> n]
                    BY <3>1, <5>1
                <5>3. adapters[n].index <= adapters[k].index
                    BY <5>1, <5>2
                <5> QED
                    BY <2>2, <5>2, <5>3
            <4> QED
                BY <4>1, <4>2
        <3>3. a0["adapter"] <= a0["adapter"]
            BY <1>1
        <3>4. LeastBy({a0}, "adapter") = {a0}
            BY <3>3 DEF LeastBy
        <3> QED
            BY <3>2, <3>4 DEF First
    <2>5. FirstAddresses(adapters) = AddressesOf(adapters, k)
        <3>1. UNION {AddressesOf(adapters, a.adapter) : a \in First(adapters)} = AddressesOf(adapters, k)
            BY <2>4
        <3> QED
            BY <1>3, <3>1 DEF FirstAddresses
    <2>6. Native(calls, adapters) = Script(adapters)
        BY <2>3, <2>5, ScriptSteps DEF Native
    <2> QED
        BY <2>6
<1> QED
    BY <1>5, <1>6

-----------------------------------------------------------------------------
\* Checksums.

\* A walk that goes down until it may stop is well defined.
LEMMA Descent ==
    ASSUME NEW stop, NEW out, NEW jump,
           \A o \in Nat : o \in stop \/ (jump[o] \in Nat /\ jump[o] < o)
    PROVE  \E f : IsWalk(f, stop, out, jump)
<1> DEFINE Good(f, k) == /\ f = [o \in Nat |-> f[o]]
                         /\ \A o \in Nat : o < k =>
                               f[o] = IF o \in stop THEN out[o] ELSE f[jump[o]]
           S == {k \in Nat : \E f : Good(f, k)}
<1>1. 0 \in S
    <2>1. Good([o \in Nat |-> out[o]], 0)
        OBVIOUS
    <2> QED
        BY <2>1
<1>2. ASSUME NEW k \in Nat, k \in S PROVE k + 1 \in S
    <2>1. PICK f : Good(f, k)
        BY <1>2
    <2> DEFINE g == [o \in Nat |-> IF o = k THEN (IF k \in stop THEN out[k] ELSE f[jump[k]]) ELSE f[o]]
    <2>2. ASSUME NEW o \in Nat, o < k + 1
          PROVE  g[o] = IF o \in stop THEN out[o] ELSE g[jump[o]]
        <3>1. o \notin stop => jump[o] \in Nat /\ jump[o] # k /\ g[jump[o]] = f[jump[o]]
            BY <2>2
        <3>2. CASE o = k
            BY <3>1, <3>2
        <3>3. CASE o < k
            <4>1. f[o] = IF o \in stop THEN out[o] ELSE f[jump[o]]
                BY <2>1, <3>3
            <4> QED
                BY <3>1, <3>3, <4>1
        <3> QED
            BY <2>2, <3>2, <3>3
    <2>3. Good(g, k + 1)
        BY <2>2
    <2> HIDE DEF Good, g
    <2> QED
        BY <2>3
<1>3. \A k \in Nat : \E f : Good(f, k)
    <2>1. Nat \subseteq S
        <3> HIDE DEF S
        <3> QED
            BY <1>1, <1>2, Induction
    <2> QED
        BY <2>1
<1>4. ASSUME NEW f, NEW g, NEW k \in Nat, Good(f, k), Good(g, k)
      PROVE  \A o \in Nat : o < k => f[o] = g[o]
    <2> DEFINE T == {n \in Nat : \A o \in Nat : o < n /\ o < k => f[o] = g[o]}
    <2>1. 0 \in T
        OBVIOUS
    <2>2. ASSUME NEW n \in Nat, n \in T PROVE n + 1 \in T
        <3> SUFFICES ASSUME NEW o \in Nat, o < n + 1, o < k PROVE f[o] = g[o]
            OBVIOUS
        <3>1. f[o] = (IF o \in stop THEN out[o] ELSE f[jump[o]])
              /\ g[o] = (IF o \in stop THEN out[o] ELSE g[jump[o]])
            BY <1>4
        <3>2. o \notin stop => f[jump[o]] = g[jump[o]]
            <4>1. o \notin stop => jump[o] \in Nat /\ jump[o] < n /\ jump[o] < k
                OBVIOUS
            <4> QED
                BY <2>2, <4>1
        <3> QED
            BY <3>1, <3>2
    <2>3. Nat \subseteq T
        <3> HIDE DEF T
        <3> QED
            BY <2>1, <2>2, Induction
    <2> QED
        BY <2>3
<1> DEFINE F(k) == CHOOSE f : Good(f, k)
           h    == [o \in Nat |-> F(o + 1)[o]]
<1>5. \A k \in Nat : Good(F(k), k)
    <2> HIDE DEF Good
    <2> QED
        BY <1>3
<1>6. ASSUME NEW k \in Nat, NEW n \in Nat, n <= k PROVE Good(F(k), n)
    <2> HIDE DEF F
    <2> QED
        BY <1>5, <1>6
<1>7. ASSUME NEW o \in Nat PROVE h[o] = IF o \in stop THEN out[o] ELSE h[jump[o]]
    <2>1. F(o + 1)[o] = IF o \in stop THEN out[o] ELSE F(o + 1)[jump[o]]
        <3> HIDE DEF F
        <3> QED
            BY <1>5
    <2>2. CASE o \in stop
        BY <2>1, <2>2
    <2>3. CASE o \notin stop
        <3>1. jump[o] \in Nat /\ jump[o] < o /\ jump[o] + 1 <= o + 1 /\ jump[o] < jump[o] + 1
            BY <2>3
        <3>2. F(o + 1)[jump[o]] = F(jump[o] + 1)[jump[o]]
            <4>1. Good(F(o + 1), jump[o] + 1) /\ Good(F(jump[o] + 1), jump[o] + 1)
                <5> HIDE DEF F, Good
                <5> QED
                    BY <1>6, <3>1
            <4> HIDE DEF F, Good
            <4> QED
                BY <1>4, <3>1, <4>1
        <3> QED
            BY <2>1, <2>3, <3>1, <3>2
    <2> QED
        BY <2>2, <2>3
<1>8. h = [o \in Nat |-> h[o]]
    <2> HIDE DEF F
    <2> QED
        OBVIOUS
<1>9. IsWalk(h, stop, out, jump)
    <2> HIDE DEF h
    <2> QED
        BY <1>7, <1>8 DEF IsWalk
<1> QED
    BY <1>9

\* Folding keeps the remainder modulo 65535.
FoldsTo(s, f) == f \in Nat /\ f <= 65535 /\ s % 65535 = f % 65535

Fold(s) == (s % 65536) + (s \div 65536)

LEMMA OneFold ==
    ASSUME NEW s \in Nat, s > 65535
    PROVE  Fold(s) \in Nat /\ Fold(s) < s /\ s % 65535 = Fold(s) % 65535
<1>1. PICK r \in Nat, q \in Nat : r = s % 65536 /\ q = s \div 65536 /\ q > 0
    OBVIOUS
<1>2. s = r + 65536 * q
    BY <1>1
<1>3. Fold(s) = r + q
    BY <1>1 DEF Fold
<1>4. r + q < s /\ s % 65535 = (r + q) % 65535
    BY <1>1, <1>2
<1>5. r + q \in Nat
    OBVIOUS
<1> QED
    BY <1>3, <1>4, <1>5

LEMMA FoldedMeans ==
    ASSUME NEW s \in Nat
    PROVE  FoldsTo(s, Folded[s])
<1> DEFINE Eq(f) == f = [o \in Nat |-> IF o > 65535 THEN f[(o % 65536) + (o \div 65536)] ELSE o]
           E     == CHOOSE f : Eq(f)
           stop  == {o \in Nat : ~(o > 65535)}
           out   == [o \in Nat |-> o]
           jump  == [o \in Nat |-> Fold(o)]
<1>1. \A o \in Nat : o \in stop \/ (jump[o] \in Nat /\ jump[o] < o)
    BY OneFold
<1>2. PICK f : IsWalk(f, stop, out, jump)
    <2> HIDE DEF stop, out, jump
    <2> QED
        BY <1>1, Descent
<1>3. Eq(f)
    <2>1. \A o \in Nat : f[o] = IF o > 65535 THEN f[Fold(o)] ELSE o
        BY <1>2 DEF IsWalk
    <2>2. f = [o \in Nat |-> f[o]]
        BY <1>2 DEF IsWalk
    <2>3. f = [o \in Nat |-> IF o > 65535 THEN f[Fold(o)] ELSE o]
        BY <2>1, <2>2
    <2> QED
        BY <2>3 DEF Fold
<1>4. Eq(E)
    <2> HIDE DEF Eq
    <2> QED
        BY <1>3
<1>5. Folded = E
    BY DEF Folded
<1>6. \A o \in Nat : Folded[o] = IF o > 65535 THEN Folded[Fold(o)] ELSE o
    <2> HIDE DEF E
    <2>1. Folded = [o \in Nat |-> IF o > 65535 THEN Folded[Fold(o)] ELSE o]
        BY <1>4, <1>5 DEF Fold
    <2> QED
        BY <2>1
<1> HIDE DEF E
<1> DEFINE S == {n \in Nat : \A o \in Nat : o < n => FoldsTo(o, Folded[o])}
<1>7. 0 \in S
    OBVIOUS
<1>8. ASSUME NEW n \in Nat, n \in S PROVE n + 1 \in S
    <2> SUFFICES ASSUME NEW o \in Nat, o < n + 1 PROVE FoldsTo(o, Folded[o])
        OBVIOUS
    <2>1. CASE ~(o > 65535)
        <3>1. Folded[o] = o
            BY <1>6, <2>1
        <3> QED
            BY <2>1, <3>1 DEF FoldsTo
    <2>2. CASE o > 65535
        <3>1. Fold(o) \in Nat /\ Fold(o) < o /\ o % 65535 = Fold(o) % 65535
            BY <2>2, OneFold
        <3>2. Folded[o] = Folded[Fold(o)]
            BY <1>6, <2>2
        <3>3. FoldsTo(Fold(o), Folded[Fold(o)])
            BY <1>8, <3>1
        <3> QED
            BY <3>1, <3>2, <3>3 DEF FoldsTo
    <2> QED
        BY <2>1, <2>2
<1>9. Nat \subseteq S
    <2> HIDE DEF S
    <2> QED
        BY <1>7, <1>8, Induction
<1>10. s + 1 \in S /\ s < s + 1
    <2> HIDE DEF S
    <2> QED
        BY <1>9
<1> QED
    BY <1>10

\* What the i-th byte adds to a sum
Weight(b, i) == IF i % 2 = 1 THEN 256 * b[i] ELSE b[i]

IsSum(f, b) ==
    /\ f \in [0..Len(b) -> Nat] /\ f[0] = 0
    /\ \A i \in 1..Len(b) : f[i] = f[i - 1] + Weight(b, i)

LEMMA ByteSums ==
    ASSUME NEW b \in Seq(Byte)
    PROVE  \E f : IsSum(f, b) /\ ByteSum(b) = f[Len(b)]
<1> DEFINE N     == Len(b)
           step  == [i \in 1..N |-> [v \in Nat |-> v + Weight(b, i)]]
           Eq(f) == f = [i \in 0..N |->
                            IF i = 0 THEN 0 ELSE f[i - 1] + (IF i % 2 = 1 THEN 256 * b[i] ELSE b[i])]
           E     == CHOOSE f : Eq(f)
<1>1. N \in Nat
    OBVIOUS
<1>2. \A i \in 1..N : Weight(b, i) \in Nat
    <2> SUFFICES ASSUME NEW i \in 1..N PROVE Weight(b, i) \in Nat
        OBVIOUS
    <2>1. b[i] \in Byte
        OBVIOUS
    <2>2. \A x \in Byte : x \in Nat
        BY DEF Byte
    <2> QED
        BY <2>1, <2>2 DEF Weight
<1>3. PICK f : IsRun(f, N, Nat, 0, step)
    <2>1. \A i \in 1..N : \A v \in Nat : step[i][v] \in Nat
        <3> HIDE DEF N
        <3> QED
            BY <1>2
    <2> HIDE DEF N, step
    <2> QED
        BY <1>1, <2>1, Loop
<1>4. f \in [0..N -> Nat] /\ f[0] = 0 /\ \A i \in 1..N : f[i] = f[i - 1] + Weight(b, i)
    <2>1. f \in [0..N -> Nat] /\ f[0] = 0 /\ \A i \in 1..N : f[i] = step[i][f[i - 1]]
        <3> HIDE DEF N, step
        <3> QED
            BY <1>3 DEF IsRun
    <2>2. \A i \in 1..N : f[i - 1] \in Nat
        <3> HIDE DEF N
        <3> QED
            BY <1>1, <2>1
    <2> HIDE DEF N
    <2> QED
        BY <2>1, <2>2
<1>5. Eq(f)
    <2>1. f = [i \in 0..N |-> f[i]]
        BY <1>4
    <2>2. \A i \in 0..N : f[i] = IF i = 0 THEN 0 ELSE f[i - 1] + Weight(b, i)
        <3> HIDE DEF N
        <3> QED
            BY <1>1, <1>4
    <2>3. f = [i \in 0..N |-> IF i = 0 THEN 0 ELSE f[i - 1] + Weight(b, i)]
        <3> HIDE DEF N
        <3> QED
            BY <2>1, <2>2
    <2> QED
        BY <2>3 DEF Weight
<1>6. Eq(E)
    <2> HIDE DEF Eq
    <2> QED
        BY <1>5
<1>7. ByteSum(b) = E[N]
    BY DEF ByteSum
<1>8. IsSum(E, b)
    <2>1. E = [i \in 0..N |-> IF i = 0 THEN 0 ELSE E[i - 1] + Weight(b, i)]
        <3> HIDE DEF E
        <3> QED
            BY <1>6 DEF Weight
    <2>2. E[0] = 0 /\ \A i \in 1..N : E[i] = E[i - 1] + Weight(b, i)
        <3> HIDE DEF E, N
        <3> QED
            BY <1>1, <2>1
    <2>3. \A i \in 0..N : E[i] = f[i]
        <3>1. \A i \in 1..N : E[i - 1] \in Nat => E[i] = step[i][E[i - 1]]
            <4> HIDE DEF E, N
            <4> QED
                BY <2>2
        <3>2. E[0] = 0 /\ N \in Nat
            BY <1>1, <2>2
        <3> HIDE DEF E, N, step, Eq
        <3> QED
            BY <1>3, <3>1, <3>2, OneRun
    <2>4. E \in [0..N -> Nat]
        <3> HIDE DEF E, N
        <3> QED
            BY <1>4, <2>1, <2>3
    <2> HIDE DEF E
    <2> QED
        BY <2>2, <2>4 DEF IsSum
<1> QED
    <2> HIDE DEF E
    <2> QED
        BY <1>7, <1>8

\* The code's sum over words is the sum over bytes.
LEMMA WordSums ==
    ASSUME NEW b \in Seq(Byte)
    PROVE  WordSum(b) = ByteSum(b) /\ ByteSum(b) \in Nat
<1> DEFINE H     == Len(b) \div 2
           word(w) == U16(b, 2 * (w - 1))
           step  == [w \in 1..H |-> [v \in Nat |-> v + word(w)]]
           Eq(g) == g = [w \in 0..H |-> IF w = 0 THEN 0 ELSE g[w - 1] + U16(b, 2 * (w - 1))]
           E     == CHOOSE g : Eq(g)
<1>1. PICK f : IsSum(f, b) /\ ByteSum(b) = f[Len(b)]
    BY ByteSums
<1> DEFINE g == [w \in 0..H |-> f[2 * w]]
<1>2. Len(b) \in Nat /\ H \in Nat /\ (Len(b) = 2 * H \/ Len(b) = 2 * H + 1)
      /\ (Len(b) % 2 = 1 <=> Len(b) = 2 * H + 1)
    <2>1. Len(b) \in Nat
        OBVIOUS
    <2> QED
        BY <2>1
<1> HIDE DEF H
<1>3. \A i \in 0..Len(b) : f[i] \in Nat
    BY <1>1 DEF IsSum
<1>4. \A w \in 1..H : /\ 2 * w \in 1..Len(b) /\ 2 * w - 1 \in 1..Len(b)
                      /\ (2 * w - 1) % 2 = 1 /\ (2 * w) % 2 = 0
                      /\ 2 * (w - 1) + 1 = 2 * w - 1 /\ 2 * (w - 1) + 1 + 1 = 2 * w
                      /\ w - 1 \in 0..H
    BY <1>2
<1>5. \A w \in 1..H : word(w) \in Nat /\ f[2 * w] = f[2 * (w - 1)] + word(w)
    <2> SUFFICES ASSUME NEW w \in 1..H
                 PROVE  word(w) \in Nat /\ f[2 * w] = f[2 * (w - 1)] + word(w)
        OBVIOUS
    <2>1. f[2 * w] = f[2 * w - 1] + b[2 * w]
        BY <1>1, <1>4 DEF IsSum, Weight
    <2>2. f[2 * w - 1] = f[2 * w - 1 - 1] + 256 * b[2 * w - 1]
        BY <1>1, <1>4 DEF IsSum, Weight
    <2>3. word(w) = 256 * b[2 * w - 1] + b[2 * w]
        BY <1>4 DEF U16, At
    <2>4. 2 * w - 1 - 1 = 2 * (w - 1) /\ 2 * (w - 1) \in 0..Len(b)
        BY <1>2
    <2>5. b[2 * w - 1] \in Nat /\ b[2 * w] \in Nat
        <3>1. b[2 * w - 1] \in Byte /\ b[2 * w] \in Byte
            BY <1>4
        <3>2. \A x \in Byte : x \in Nat
            BY DEF Byte
        <3> QED
            BY <3>1, <3>2
    <2> HIDE DEF word
    <2>6. f[2 * (w - 1)] \in Nat /\ f[2 * w - 1] = f[2 * (w - 1)] + 256 * b[2 * w - 1]
        BY <1>3, <2>2, <2>4
    <2>7. word(w) \in Nat
        BY <2>3, <2>5
    <2>8. \A v, x, y \in Nat : (v + 256 * x) + y = v + (256 * x + y)
        OBVIOUS
    <2>9. f[2 * w] = (f[2 * (w - 1)] + 256 * b[2 * w - 1]) + b[2 * w]
        BY <2>1, <2>6
    <2>10. f[2 * w] = f[2 * (w - 1)] + word(w)
        BY <2>3, <2>5, <2>6, <2>8, <2>9
    <2> QED
        BY <2>7, <2>10
<1>6. \A w \in 0..H : g[w] = f[2 * w] /\ 2 * w \in 0..Len(b) /\ f[2 * w] \in Nat
    BY <1>2, <1>3
<1>7. g[0] = 0 /\ \A w \in 1..H : g[w] = g[w - 1] + word(w) /\ g[w - 1] \in Nat
    <2>1. g[0] = 0
        BY <1>1, <1>2, <1>6 DEF IsSum
    <2> SUFFICES ASSUME NEW w \in 1..H PROVE g[w] = g[w - 1] + word(w) /\ g[w - 1] \in Nat
        BY <2>1
    <2> HIDE DEF g
    <2>2. w \in 0..H /\ w - 1 \in 0..H
        BY <1>2
    <2>3. g[w] = f[2 * w] /\ g[w - 1] = f[2 * (w - 1)] /\ f[2 * (w - 1)] \in Nat
        BY <1>6, <2>2
    <2> HIDE DEF word
    <2> QED
        BY <1>5, <2>3
<1>8. g = [w \in 0..H |-> g[w]] /\ g \in [0..H -> Nat]
    BY <1>6
<1> HIDE DEF g
<1>9. Eq(g)
    <2>1. \A w \in 0..H : g[w] = IF w = 0 THEN 0 ELSE g[w - 1] + word(w)
        <3> HIDE DEF word
        <3> QED
            BY <1>2, <1>7
    <2>2. g = [w \in 0..H |-> IF w = 0 THEN 0 ELSE g[w - 1] + word(w)]
        <3> HIDE DEF word
        <3> QED
            BY <1>8, <2>1
    <2> QED
        BY <2>2
<1>10. Eq(E)
    <2> HIDE DEF Eq
    <2> QED
        BY <1>9
<1>11. WholeWords(b) = E[H]
    BY DEF WholeWords, H
<1> HIDE DEF E
<1>12. E[H] = g[H]
    <2>1. IsRun(g, H, Nat, 0, step)
        <3>1. \A w \in 1..H : g[w] = step[w][g[w - 1]]
            <4> HIDE DEF word
            <4> QED
                BY <1>7
        <3> HIDE DEF step
        <3> QED
            BY <1>7, <1>8, <3>1 DEF IsRun
    <2>2. E[0] = 0 /\ \A w \in 1..H : E[w] = E[w - 1] + word(w)
        <3>1. E = [w \in 0..H |-> IF w = 0 THEN 0 ELSE E[w - 1] + word(w)]
            BY <1>10
        <3> HIDE DEF word
        <3> QED
            BY <1>2, <3>1
    <2>3. \A w \in 1..H : E[w - 1] \in Nat => E[w] = step[w][E[w - 1]]
        <3> HIDE DEF word
        <3> QED
            BY <2>2
    <2>4. H \in 0..H
        BY <1>2
    <2> HIDE DEF step, word
    <2>5. E[0] = 0 /\ H \in Nat
        BY <1>2, <2>2
    <2>6. \A w \in 0..H : E[w] = g[w]
        <3> HIDE DEF Eq, H
        <3> QED
            BY <2>1, <2>3, <2>5, OneRun
    <2> QED
        BY <2>4, <2>6
<1>13. WholeWords(b) = f[2 * H]
    BY <1>2, <1>6, <1>11, <1>12
<1>14. CASE Len(b) = 2 * H
    <2>1. WordSum(b) = f[2 * H] + 0
        BY <1>2, <1>13, <1>14 DEF WordSum
    <2> QED
        BY <1>1, <1>2, <1>3, <1>14, <2>1
<1>15. CASE Len(b) = 2 * H + 1
    <2>1. WordSum(b) = f[2 * H] + 256 * b[Len(b)]
        BY <1>2, <1>13, <1>15 DEF WordSum
    <2>2. Len(b) \in 1..Len(b) /\ Len(b) % 2 = 1 /\ Len(b) - 1 = 2 * H /\ Len(b) \in 0..Len(b)
        BY <1>2, <1>15
    <2>3. f[Len(b)] = f[2 * H] + 256 * b[Len(b)]
        BY <1>1, <2>2 DEF IsSum, Weight
    <2> QED
        BY <1>1, <1>3, <2>1, <2>2, <2>3
<1> QED
    BY <1>2, <1>14, <1>15

\* c is b but for the word v at the even offset i, where b has a zero word.
Stamped(c, b, i, v) ==
    /\ i \in Nat /\ i % 2 = 0 /\ i + 2 <= Len(b) /\ Len(c) = Len(b)
    /\ \A k \in 1..Len(b) : k # i + 1 /\ k # i + 2 => c[k] = b[k]
    /\ b[i + 1] = 0 /\ b[i + 2] = 0 /\ 256 * c[i + 1] + c[i + 2] = v

LEMMA StampAdds ==
    ASSUME NEW b \in Seq(Byte), NEW c \in Seq(Byte), NEW i, NEW v \in Nat, Stamped(c, b, i, v)
    PROVE  ByteSum(c) = ByteSum(b) + v
<1>1. PICK f : IsSum(f, b) /\ ByteSum(b) = f[Len(b)]
    BY ByteSums
<1>2. PICK g : IsSum(g, c) /\ ByteSum(c) = g[Len(c)]
    BY ByteSums
<1> DEFINE N == Len(b)
<1>3. N \in Nat /\ Len(c) = N /\ i \in Nat /\ i + 2 <= N
    BY DEF Stamped
<1>4. /\ \A k \in 0..N : f[k] \in Nat /\ g[k] \in Nat
      /\ f[0] = 0 /\ g[0] = 0
      /\ \A k \in 1..N : f[k] = f[k - 1] + Weight(b, k) /\ g[k] = g[k - 1] + Weight(c, k)
    BY <1>1, <1>2, <1>3 DEF IsSum
<1> HIDE DEF N
<1>5. \A k \in 1..N : Weight(b, k) \in Nat /\ Weight(c, k) \in Nat
    <2> SUFFICES ASSUME NEW k \in 1..N PROVE Weight(b, k) \in Nat /\ Weight(c, k) \in Nat
        OBVIOUS
    <2>1. b[k] \in Byte /\ c[k] \in Byte
        BY <1>3 DEF N
    <2>2. \A x \in Byte : x \in Nat
        BY DEF Byte
    <2>3. b[k] \in Nat /\ c[k] \in Nat
        BY <2>1, <2>2
    <2> QED
        BY <2>3 DEF Weight
<1>6. \A k \in 1..N : k # i + 1 /\ k # i + 2 => Weight(c, k) = Weight(b, k)
    BY DEF Stamped, Weight, N
<1>7. /\ Weight(b, i + 1) = 0 /\ Weight(b, i + 2) = 0
      /\ Weight(c, i + 1) = 256 * c[i + 1] /\ Weight(c, i + 2) = c[i + 2]
    <2>1. (i + 1) % 2 = 1 /\ (i + 2) % 2 = 0
        BY DEF Stamped
    <2> QED
        BY <2>1 DEF Stamped, Weight
<1>8. /\ Weight(c, i + 1) + Weight(c, i + 2) = v
      /\ Weight(c, i + 1) \in Nat /\ Weight(c, i + 2) \in Nat
    <2>1. i + 1 \in 1..N /\ i + 2 \in 1..N
        BY <1>3
    <2> QED
        BY <1>5, <1>7, <2>1 DEF Stamped
<1> DEFINE S == {n \in Nat : n <= N => /\ n <= i => g[n] = f[n]
                                       /\ n = i + 1 => g[n] = f[n] + Weight(c, i + 1)
                                       /\ n >= i + 2 => g[n] = f[n] + v}
<1>9. 0 \in S
    BY <1>3, <1>4
<1>10. ASSUME NEW n \in Nat, n \in S PROVE n + 1 \in S
    <2> SUFFICES ASSUME n + 1 <= N
                 PROVE  /\ n + 1 <= i => g[n + 1] = f[n + 1]
                        /\ n + 1 = i + 1 => g[n + 1] = f[n + 1] + Weight(c, i + 1)
                        /\ n + 1 >= i + 2 => g[n + 1] = f[n + 1] + v
        OBVIOUS
    <2>1. /\ f[n + 1] = f[n] + Weight(b, n + 1) /\ g[n + 1] = g[n] + Weight(c, n + 1)
          /\ f[n] \in Nat /\ g[n] \in Nat
          /\ Weight(b, n + 1) \in Nat /\ Weight(c, n + 1) \in Nat
        <3>1. n + 1 \in 1..N /\ n \in 0..N /\ (n + 1) - 1 = n
            BY <1>3
        <3> QED
            BY <1>4, <1>5, <3>1
    <2>2. /\ n <= i => g[n] = f[n]
          /\ n = i + 1 => g[n] = f[n] + Weight(c, i + 1)
          /\ n >= i + 2 => g[n] = f[n] + v
        BY <1>3, <1>10
    <2> HIDE DEF S
    <2>3. CASE n = i
        BY <1>3, <1>7, <2>1, <2>2, <2>3
    <2>4. CASE n = i + 1
        <3>1. n + 1 = i + 2 /\ n # i /\ ~(n + 1 <= i) /\ n + 1 # i + 1
            BY <1>3, <2>4
        <3>2. /\ Weight(c, n + 1) = Weight(c, i + 2) /\ Weight(b, n + 1) = 0
              /\ g[n] = f[n] + Weight(c, i + 1)
            BY <1>7, <2>2, <2>4, <3>1
        <3>3. g[n + 1] = f[n + 1] + v
            BY <1>8, <2>1, <3>2
        <3> QED
            BY <3>1, <3>3
    <2>5. CASE n # i /\ n # i + 1
        <3>1. n + 1 \in 1..N /\ n + 1 # i + 1 /\ n + 1 # i + 2
            BY <1>3, <2>5
        <3>2. Weight(c, n + 1) = Weight(b, n + 1)
            BY <1>6, <3>1
        <3> QED
            BY <1>3, <2>1, <2>2, <2>5, <3>2
    <2> QED
        BY <2>3, <2>4, <2>5
<1>11. N \in S
    <2> HIDE DEF S
    <2> QED
        BY <1>3, <1>9, <1>10, Induction
<1> QED
    BY <1>1, <1>2, <1>3, <1>11 DEF N

\* A word that completes the sum of the others makes a receiver accept them.
LEMMA ChecksumMeans ==
    ASSUME NEW b \in Seq(Byte)
    PROVE  /\ Checksum(b) \in Nat /\ Checksum(b) <= 65535
           /\ (ByteSum(b) + Checksum(b)) % 65535 = 0
<1>1. WordSum(b) = ByteSum(b) /\ ByteSum(b) \in Nat
    BY WordSums
<1>2. FoldsTo(ByteSum(b), Folded[ByteSum(b)])
    BY <1>1, FoldedMeans
<1>3. Checksum(b) = 65535 - Folded[ByteSum(b)]
    BY <1>1 DEF Checksum
<1>4. PICK s \in Nat : s = ByteSum(b)
    BY <1>1
<1>5. PICK f \in Nat : f = Folded[ByteSum(b)] /\ f <= 65535 /\ s % 65535 = f % 65535
    BY <1>2, <1>4 DEF FoldsTo
<1>6. (s + (65535 - f)) % 65535 = 0
    <2>1. CASE f = 65535
        BY <1>5, <2>1
    <2>2. CASE f < 65535
        <3>1. s % 65535 = f
            BY <1>5, <2>2
        <3>2. PICK q \in Nat : s = 65535 * q + f
            <4>1. s \div 65535 \in Nat /\ s = 65535 * (s \div 65535) + f
                BY <3>1
            <4> QED
                BY <4>1
        <3>3. s + (65535 - f) = 65535 * (q + 1)
            BY <3>2
        <3>4. (65535 * (q + 1)) % 65535 = 0
            OBVIOUS
        <3> QED
            BY <3>3, <3>4
    <2> QED
        BY <1>5, <2>1, <2>2
<1> QED
    BY <1>3, <1>4, <1>5, <1>6

LEMMA StampVerifies ==
    ASSUME NEW b \in Seq(Byte), NEW c \in Seq(Byte), NEW i, NEW v \in Nat, Stamped(c, b, i, v),
           v = Checksum(b) \/ (Checksum(b) = 0 /\ v = 65535)
    PROVE  Verifies(c)
<1>1. ByteSum(c) = ByteSum(b) + v
    BY StampAdds
<1>2. ByteSum(b) \in Nat /\ Checksum(b) \in Nat /\ (ByteSum(b) + Checksum(b)) % 65535 = 0
    BY WordSums, ChecksumMeans
<1>3. (ByteSum(b) + v) % 65535 = 0
    BY <1>2
<1> QED
    BY <1>1, <1>3 DEF Verifies

\* c is b but for the word at offset i, which is v.
Worded(c, b, i, v) ==
    /\ c \in Seq(Byte) /\ Len(c) = Len(b)
    /\ \A k \in 1..Len(b) : k # i + 1 /\ k # i + 2 => c[k] = b[k]
    /\ 256 * c[i + 1] + c[i + 2] = v

Small(x) == x \in Nat /\ x <= 255

LEMMA SmallIsByte ==
    \A x : Small(x) <=> x \in Byte
BY DEF Small, Byte

\* s stands in c at offset i; for the rest c is b.
IsPatch(c, b, i, s) ==
    /\ c \in Seq(Byte) /\ Len(c) = Len(b)
    /\ \A k \in 1..Len(b) : ~(i < k /\ k <= i + Len(s)) => c[k] = b[k]
    /\ \A k \in 1..Len(s) : c[i + k] = s[k]

LEMMA PatchMeans ==
    ASSUME NEW b \in Seq(Byte), NEW i \in Nat, NEW s \in Seq(Byte), i + Len(s) <= Len(b)
    PROVE  IsPatch(Patched(b, i, s), b, i, s)
<1> DEFINE c == Patched(b, i, s)
<1>1. DOMAIN b = 1..Len(b) /\ Len(b) \in Nat /\ DOMAIN s = 1..Len(s) /\ Len(s) \in Nat
    OBVIOUS
<1>2. c = [k \in 1..Len(b) |-> IF k - i \in 1..Len(s) THEN s[k - i] ELSE b[k]]
    BY <1>1, Zenon DEF Patched
<1>3. \A k \in 1..Len(b) : (IF k - i \in 1..Len(s) THEN s[k - i] ELSE b[k]) \in Byte
    OBVIOUS
<1>4. c \in Seq(Byte) /\ Len(c) = Len(b)
    BY <1>1, <1>2, <1>3
<1>5. \A k \in 1..Len(b) : ~(i < k /\ k <= i + Len(s)) => c[k] = b[k]
    BY <1>1, <1>2
<1>6. \A k \in 1..Len(s) : c[i + k] = s[k]
    <2> SUFFICES ASSUME NEW k \in 1..Len(s) PROVE c[i + k] = s[k]
        OBVIOUS
    <2>1. i + k \in 1..Len(b) /\ (i + k) - i = k
        BY <1>1
    <2> QED
        BY <1>2, <2>1
<1> QED
    BY <1>4, <1>5, <1>6 DEF IsPatch

IsWord(v) == v \in Nat /\ v <= 65535

LEMMA PortIsWord ==
    ASSUME NEW p \in Ports
    PROVE  IsWord(p)
<1>1. MaxPort \in Nat
    BY DEF MaxPort
<1>2. p \in Nat /\ p <= MaxPort
    BY <1>1 DEF Ports
<1> QED
    BY <1>2 DEF IsWord, MaxPort

LEMMA WordBytes ==
    ASSUME NEW v, IsWord(v)
    PROVE  /\ BE16(v) \in Seq(Byte) /\ Len(BE16(v)) = 2
           /\ 256 * BE16(v)[1] + BE16(v)[2] = v
<1>1. PICK h \in Nat, l \in Nat : h = v \div 256 /\ l = v % 256
    BY DEF IsWord
<1>2. h <= 255 /\ l <= 255 /\ 256 * h + l = v
    BY <1>1 DEF IsWord
<1>3. h \in Byte /\ l \in Byte
    BY <1>1, <1>2, SmallIsByte DEF Small
<1>4. BE16(v) = <<h, l>>
    BY <1>1 DEF BE16
<1> QED
    BY <1>2, <1>3, <1>4

LEMMA WordPatched ==
    ASSUME NEW b \in Seq(Byte), NEW i \in Nat, i + 2 <= Len(b), NEW v, IsWord(v)
    PROVE  Worded(Patched(b, i, BE16(v)), b, i, v)
<1> DEFINE word == BE16(v)
           c == Patched(b, i, word)
<1>1. word \in Seq(Byte) /\ Len(word) = 2 /\ 256 * word[1] + word[2] = v
    BY WordBytes
<1> HIDE DEF word
<1>2. IsPatch(c, b, i, word)
    <2>1. word \in Seq(Byte) /\ i + Len(word) <= Len(b)
        BY <1>1
    <2> QED
        BY <2>1, PatchMeans
<1> HIDE DEF c
<1>3. c[i + 1] = word[1] /\ c[i + 2] = word[2]
    BY <1>1, <1>2 DEF IsPatch
<1>4. \A k \in 1..Len(b) : k # i + 1 /\ k # i + 2 => c[k] = b[k]
    BY <1>1, <1>2 DEF IsPatch
<1>5. Worded(c, b, i, v)
    BY <1>1, <1>2, <1>3, <1>4 DEF IsPatch, Worded
<1> QED
    BY <1>5 DEF c, word

LEMMA WordZeroed ==
    ASSUME NEW b \in Seq(Byte), NEW i \in Nat, i + 2 <= Len(b)
    PROVE  /\ Worded(Patched(b, i, <<0, 0>>), b, i, 0)
           /\ Patched(b, i, <<0, 0>>)[i + 1] = 0 /\ Patched(b, i, <<0, 0>>)[i + 2] = 0
<1> DEFINE c == Patched(b, i, <<0, 0>>)
           s == <<0, 0>>
<1>1. s \in Seq(Byte) /\ Len(s) = 2 /\ s[1] = 0 /\ s[2] = 0
    <2>1. 0 \in Byte
        BY SmallIsByte DEF Small
    <2> QED
        BY <2>1
<1> HIDE DEF s
<1>2. IsPatch(Patched(b, i, s), b, i, s)
    BY <1>1, PatchMeans
<1>3. IsPatch(c, b, i, s)
    BY <1>2 DEF s
<1> HIDE DEF c
<1>4. c[i + 1] = 0 /\ c[i + 2] = 0
    BY <1>1, <1>3 DEF IsPatch
<1>5. \A k \in 1..Len(b) : k # i + 1 /\ k # i + 2 => c[k] = b[k]
    BY <1>1, <1>3 DEF IsPatch
<1>6. Worded(c, b, i, 0)
    BY <1>3, <1>4, <1>5 DEF IsPatch, Worded
<1> QED
    BY <1>4, <1>6 DEF c

LEMMA SliceStamped ==
    ASSUME NEW b \in Seq(Byte), NEW c \in Seq(Byte), NEW i, NEW v, Stamped(c, b, i, v),
           NEW m \in Nat, NEW n \in Nat, m % 2 = 0, m <= i, i + 2 <= n, n <= Len(b)
    PROVE  Stamped(Slice(c, m, n), Slice(b, m, n), i - m, v)
<1> DEFINE s == Slice(b, m, n)
           t == Slice(c, m, n)
           j == i - m
<1>1. i \in Nat /\ i % 2 = 0 /\ Len(c) = Len(b)
    BY DEF Stamped
<1>2. IsSlice(s, b, m, n) /\ IsSlice(t, c, m, n)
    <2>1. m <= n
        BY <1>1
    <2> QED
        BY <1>1, <2>1, SliceBytes
<1>3. j \in Nat /\ j % 2 = 0 /\ j + 2 <= n - m /\ n - m \in Nat
      /\ m + (j + 1) = i + 1 /\ m + (j + 2) = i + 2
      /\ j + 1 \in 1..(n - m) /\ j + 2 \in 1..(n - m)
    BY <1>1
<1> HIDE DEF s, t, j
<1>4. Len(s) = n - m /\ Len(t) = n - m
    BY <1>2 DEF IsSlice
<1>5. /\ s[j + 1] = b[i + 1] /\ s[j + 2] = b[i + 2]
      /\ t[j + 1] = c[i + 1] /\ t[j + 2] = c[i + 2]
    BY <1>2, <1>3 DEF IsSlice
<1>6. \A k \in 1..(n - m) : k # j + 1 /\ k # j + 2 => t[k] = s[k]
    <2> SUFFICES ASSUME NEW k \in 1..(n - m), k # j + 1, k # j + 2 PROVE t[k] = s[k]
        OBVIOUS
    <2>1. m + k \in 1..Len(b) /\ m + k # i + 1 /\ m + k # i + 2
        BY <1>1, <1>3
    <2>2. c[m + k] = b[m + k]
        BY <2>1 DEF Stamped
    <2> QED
        BY <1>2, <2>2 DEF IsSlice
<1>7. Stamped(t, s, j, v)
    BY <1>3, <1>4, <1>5, <1>6 DEF Stamped
<1> QED
    BY <1>7 DEF s, t, j

\* The pseudo header before a segment
PseudoHead(ips, proto, n) == ips \o <<0, proto>> \o BE16(n)

LEMMA PseudoHeadBytes ==
    ASSUME NEW ips \in Seq(Byte), Len(ips) = 8, NEW proto \in Byte,
           NEW n, IsWord(n)
    PROVE  PseudoHead(ips, proto, n) \in Seq(Byte) /\ Len(PseudoHead(ips, proto, n)) = 12
<1> DEFINE mid == <<0, proto>>
           last == BE16(n)
<1>1. mid \in Seq(Byte) /\ Len(mid) = 2
    <2>1. 0 \in Byte
        BY SmallIsByte DEF Small
    <2> QED
        BY <2>1
<1>2. last \in Seq(Byte) /\ Len(last) = 2
    BY WordBytes
<1> HIDE DEF mid, last
<1>3. ips \o mid \in Seq(Byte) /\ Len(ips \o mid) = 10
    <2>1. IsJoin(ips \o mid, ips, 8, mid, 2)
        <3>1. 8 \in Nat /\ 2 \in Nat
            OBVIOUS
        <3> QED
            BY <1>1, <3>1, Joined, Zenon
    <2> QED
        BY <2>1 DEF IsJoin
<1>4. (ips \o mid) \o last \in Seq(Byte) /\ Len((ips \o mid) \o last) = 12
    <2> DEFINE front == ips \o mid
    <2> HIDE DEF front
    <2>1. IsJoin(front \o last, front, 10, last, 2)
        <3>1. front \in Seq(Byte) /\ Len(front) = 10 /\ 10 \in Nat /\ 2 \in Nat
            BY <1>3 DEF front
        <3> QED
            BY <1>2, <3>1, Joined, Zenon
    <2> QED
        BY <2>1 DEF IsJoin, front
<1> QED
    BY <1>4 DEF PseudoHead, mid, last

\* A field of the segment is a field of what its checksum covers.
LEMMA PseudoStamped ==
    ASSUME NEW ips \in Seq(Byte), Len(ips) = 8, NEW proto \in Byte,
           NEW s \in Seq(Byte), IsWord(Len(s)), NEW t \in Seq(Byte),
           NEW i, NEW v, Stamped(t, s, i, v)
    PROVE  /\ Pseudo(ips, proto, s) \in Seq(Byte)
           /\ Pseudo(ips, proto, t) \in Seq(Byte)
           /\ Stamped(Pseudo(ips, proto, t), Pseudo(ips, proto, s), 12 + i, v)
<1> DEFINE size == Len(s)
           front == PseudoHead(ips, proto, size)
           p == Pseudo(ips, proto, s)
           q == Pseudo(ips, proto, t)
<1>1. size \in Nat /\ Len(t) = size /\ i \in Nat /\ i % 2 = 0 /\ i + 2 <= size
    BY DEF Stamped
<1>2. p = front \o s /\ q = front \o t
    <2>1. p = PseudoHead(ips, proto, Len(s)) \o s
        BY Zenon DEF Pseudo, PseudoHead
    <2>2. q = PseudoHead(ips, proto, Len(t)) \o t
        BY Zenon DEF Pseudo, PseudoHead
    <2> QED
        BY <1>1, <2>1, <2>2
<1>3. front \in Seq(Byte) /\ Len(front) = 12
    <2> HIDE DEF size
    <2>1. IsWord(size)
        BY DEF size
    <2> QED
        BY <1>1, <2>1, PseudoHeadBytes
<1> HIDE DEF front, p, q
<1>4. IsJoin(p, front, 12, s, size) /\ IsJoin(q, front, 12, t, size)
    <2>1. 12 \in Nat /\ Len(s) = size
        BY DEF size
    <2> HIDE DEF size
    <2> QED
        BY <1>1, <1>2, <1>3, <2>1, Joined, Zenon
<1> HIDE DEF size
<1>5. p \in Seq(Byte) /\ q \in Seq(Byte) /\ Len(p) = 12 + size /\ Len(q) = 12 + size
    BY <1>4 DEF IsJoin
<1>6. \A k \in 1..size : p[12 + k] = s[k] /\ q[12 + k] = t[k]
    BY <1>4 DEF IsJoin
<1>7. \A k \in 1..12 : p[k] = q[k]
    BY <1>4 DEF IsJoin
<1>8. /\ p[12 + i + 1] = s[i + 1] /\ p[12 + i + 2] = s[i + 2]
      /\ q[12 + i + 1] = t[i + 1] /\ q[12 + i + 2] = t[i + 2]
    <2>1. /\ i + 1 \in 1..size /\ i + 2 \in 1..size
          /\ 12 + (i + 1) = 12 + i + 1 /\ 12 + (i + 2) = 12 + i + 2
        BY <1>1
    <2> QED
        BY <1>6, <2>1
<1>9. \A k \in 1..(12 + size) : k # 12 + i + 1 /\ k # 12 + i + 2 => q[k] = p[k]
    <2> SUFFICES ASSUME NEW k \in 1..(12 + size), k # 12 + i + 1, k # 12 + i + 2 PROVE q[k] = p[k]
        OBVIOUS
    <2>1. CASE k <= 12
        <3>1. k \in 1..12
            BY <1>1, <2>1
        <3> QED
            BY <1>7, <3>1
    <2>2. CASE k > 12
        <3>1. PICK j \in 1..size : k = 12 + j /\ j # i + 1 /\ j # i + 2
            <4>1. k - 12 \in 1..size /\ k = 12 + (k - 12) /\ k - 12 # i + 1 /\ k - 12 # i + 2
                BY <1>1, <2>2
            <4> QED
                BY <4>1
        <3>2. t[j] = s[j]
            BY <3>1 DEF Stamped, size
        <3> QED
            BY <1>6, <3>1, <3>2
    <2> QED
        BY <1>1, <2>1, <2>2
<1>10. (12 + i) % 2 = 0 /\ 12 + i \in Nat /\ 12 + i + 2 <= 12 + size
    BY <1>1
<1>11. s[i + 1] = 0 /\ s[i + 2] = 0 /\ 256 * t[i + 1] + t[i + 2] = v
    BY DEF Stamped
<1>12. Stamped(q, p, 12 + i, v)
    BY <1>5, <1>8, <1>9, <1>10, <1>11 DEF Stamped
<1> QED
    BY <1>5, <1>12 DEF p, q

-----------------------------------------------------------------------------
\* Rewritten packets.

Layout(b, words, proto, len, at) ==
    /\ HeaderLen(b) = 4 * words /\ TotalLen(b) = len /\ Protocol(b) = proto
    /\ words \in Nat /\ 5 <= words /\ words <= 15
    /\ proto \in Protocols /\ proto \in Byte
    /\ IsWord(len) /\ len <= Len(b) /\ 28 <= Len(b)
    /\ at = 4 * words + ChecksumAt[proto] /\ at \in Nat /\ at % 2 = 0
    /\ 4 * words + 6 <= at /\ at + 2 <= Len(b) /\ 4 * words <= len
    /\ Counted(words, proto, len) => at + 2 <= len

LEMMA LayoutOf ==
    ASSUME NEW b \in Seq(Byte), NEW words, NEW proto, NEW len, IsPacket(b, words, proto, len)
    PROVE  /\ Layout(b, words, proto, len, 4 * words + ChecksumAt[proto])
           /\ Parses(b)
<1>1. /\ words \in Nat /\ 5 <= words /\ words <= 15
      /\ proto \in Protocols /\ proto \in {6, 17}
    BY DEF IsPacket, Protocols
<1>2. /\ proto = 6  => MinLen[proto] = 20 /\ ChecksumAt[proto] = 16
      /\ proto = 17 => MinLen[proto] = 8 /\ ChecksumAt[proto] = 6
    BY <1>1 DEF MinLen, ChecksumAt
<1>3. /\ Len(b) \in Nat /\ len \in Nat /\ 4 * words + MinLen[proto] <= Len(b)
      /\ 4 * words <= len /\ len <= Len(b)
    BY <1>1, <1>2 DEF IsPacket
<1>4. proto \in Byte
    BY <1>1, SmallIsByte DEF Small
<1>5. 28 <= Len(b)
    BY <1>1, <1>2, <1>3
<1>6. /\ Small(b[1]) /\ Small(b[3]) /\ Small(b[4]) /\ Small(b[7]) /\ Small(b[8])
    <2>1. b[1] \in Byte /\ b[3] \in Byte /\ b[4] \in Byte /\ b[7] \in Byte /\ b[8] \in Byte
        BY <1>5
    <2> QED
        BY <2>1, SmallIsByte
<1>7. IsWord(len)
    <2>1. len = 256 * b[3] + b[4]
        BY DEF IsPacket, U16, At
    <2>2. b[3] \in Nat /\ b[3] <= 255 /\ b[4] \in Nat /\ b[4] <= 255
        BY <1>6 DEF Small
    <2> QED
        BY <2>1, <2>2 DEF IsWord
<1>8. HeaderLen(b) = 4 * words
    <2>1. HeaderLen(b) = (b[1] % 16) * 4 /\ b[1] = 64 + words
        BY DEF HeaderLen, At, IsPacket
    <2>2. (64 + words) % 16 = words
        BY <1>1
    <2> QED
        BY <1>1, <2>1, <2>2
<1>9. TotalLen(b) = len /\ Protocol(b) = proto
    BY DEF TotalLen, Protocol, IsPacket, At
<1>10. At(b, 0) \div 16 = 4
    <2>1. At(b, 0) = 64 + words
        BY DEF At, IsPacket
    <2> QED
        BY <1>1, <2>1
<1>11. U16(b, 6) % 8192 = 0
    <2>1. U16(b, 6) = 256 * b[7] + b[8]
        BY DEF U16, At
    <2>2. b[8] = 0 /\ b[7] % 32 = 0
        BY DEF IsPacket
    <2>3. PICK j \in Nat : b[7] = 32 * j
        <3>1. \A x \in Nat : x % 32 = 0 => x \div 32 \in Nat /\ x = 32 * (x \div 32)
            OBVIOUS
        <3>2. b[7] \div 32 \in Nat /\ b[7] = 32 * (b[7] \div 32)
            <4>1. b[7] \in Nat
                BY <1>6 DEF Small
            <4> QED
                BY <2>2, <3>1, <4>1
        <3> QED
            BY <3>2
    <2>4. U16(b, 6) = 8192 * j
        BY <2>1, <2>2, <2>3
    <2>5. (8192 * j) % 8192 = 0
        OBVIOUS
    <2> QED
        BY <2>4, <2>5
<1>12. HeaderParses(b)
    BY <1>1, <1>2, <1>3, <1>5, <1>8, <1>9, <1>10, <1>11 DEF HeaderParses
<1>13. Parses(b)
    <2>1. Len(b) >= HeaderLen(b) + MinLen[Protocol(b)]
        BY <1>1, <1>2, <1>3, <1>8, <1>9
    <2> QED
        BY <1>1, <1>9, <1>12, <2>1 DEF Parses
<1> DEFINE at == 4 * words + ChecksumAt[proto]
<1>14. /\ at \in Nat /\ at % 2 = 0 /\ 4 * words + 6 <= at /\ at + 2 <= Len(b)
       /\ Counted(words, proto, len) => at + 2 <= len
    <2>1. /\ ChecksumAt[proto] \in {6, 16} /\ ChecksumAt[proto] + 2 <= MinLen[proto]
          /\ MinLen[proto] \in Nat
        BY <1>1, <1>2
    <2>2. at \in Nat /\ at % 2 = 0 /\ 4 * words + 6 <= at
        BY <1>1, <2>1
    <2>3. at + 2 <= 4 * words + MinLen[proto]
        BY <1>1, <2>1
    <2> HIDE DEF at
    <2>4. at + 2 <= Len(b)
        BY <1>1, <1>3, <2>1, <2>2, <2>3
    <2>5. Counted(words, proto, len) => at + 2 <= len
        BY <1>1, <1>3, <2>1, <2>2, <2>3 DEF Counted
    <2> QED
        BY <2>2, <2>4, <2>5
<1> QED
    BY <1>1, <1>3, <1>4, <1>5, <1>7, <1>8, <1>9, <1>13, <1>14 DEF Layout

LEMMA KeptPacket ==
    ASSUME NEW b, NEW c, NEW words, NEW proto, NEW len, IsPacket(b, words, proto, len),
           Len(c) = Len(b), c[1] = b[1], c[3] = b[3], c[4] = b[4], c[7] = b[7], c[8] = b[8],
           c[10] = b[10]
    PROVE  IsPacket(c, words, proto, len)
<1>1. U16(c, 2) = U16(b, 2)
    BY DEF U16, At
<1> QED
    BY <1>1 DEF IsPacket

\* c differs from b in the places D only.
Changed(c, b, D) ==
    /\ c \in Seq(Byte) /\ Len(c) = Len(b)
    /\ \A k \in 1..Len(b) : k \notin D => c[k] = b[k]

LEMMA StillPacket ==
    ASSUME NEW b \in Seq(Byte), NEW c, NEW D, NEW words, NEW proto, NEW len,
           IsPacket(b, words, proto, len), Changed(c, b, D),
           \A k \in D : k = 11 \/ k = 12 \/ k >= 13
    PROVE  IsPacket(c, words, proto, len)
<1>1. 28 <= Len(b) /\ Len(b) \in Nat
    BY LayoutOf DEF Layout
<1>2. \A k \in {1, 3, 4, 7, 8, 10} : k \in 1..Len(b) /\ k \notin D
    BY <1>1
<1>3. \A k \in {1, 3, 4, 7, 8, 10} : c[k] = b[k]
    BY <1>2 DEF Changed
<1>4. Len(c) = Len(b)
    BY DEF Changed
<1> QED
    BY <1>3, <1>4, KeptPacket

WritesWord(c, z, b, i, v) ==
    /\ Changed(z, b, {i + 1, i + 2}) /\ Changed(c, b, {i + 1, i + 2})
    /\ Changed(c, z, {i + 1, i + 2})
    /\ Stamped(c, z, i, v) /\ U16(c, i) = v

LEMMA WordWritten ==
    ASSUME NEW b \in Seq(Byte), NEW i \in Nat, i % 2 = 0, i + 2 <= Len(b), NEW v, IsWord(v)
    PROVE  WritesWord(Patched(Patched(b, i, <<0, 0>>), i, BE16(v)), Patched(b, i, <<0, 0>>), b, i, v)
<1> DEFINE z == Patched(b, i, <<0, 0>>)
           c == Patched(z, i, BE16(v))
<1>1. z = Patched(b, i, <<0, 0>>) /\ c = Patched(z, i, BE16(v))
    OBVIOUS
<1> HIDE DEF z, c
<1>2. Worded(z, b, i, 0) /\ z[i + 1] = 0 /\ z[i + 2] = 0
    BY <1>1, WordZeroed
<1>3. z \in Seq(Byte) /\ Len(z) = Len(b)
    BY <1>2 DEF Worded
<1>4. Worded(c, z, i, v)
    BY <1>1, <1>3, WordPatched
<1>5. Changed(z, b, {i + 1, i + 2}) /\ Changed(c, z, {i + 1, i + 2})
    BY <1>2, <1>4 DEF Worded, Changed
<1>6. Changed(c, b, {i + 1, i + 2})
    BY <1>5 DEF Changed
<1>7. Stamped(c, z, i, v)
    BY <1>2, <1>3, <1>4 DEF Stamped, Worded
<1>8. U16(c, i) = v
    BY <1>4 DEF Worded, U16, At
<1>9. WritesWord(c, z, b, i, v)
    BY <1>5, <1>6, <1>7, <1>8 DEF WritesWord
<1> QED
    BY <1>9, Zenon DEF z, c

\* Outside the places that differ a slice and a field are the same.
LEMMA SameOutside ==
    ASSUME NEW b \in Seq(Byte), NEW c, NEW D, Changed(c, b, D),
           NEW m \in Nat, NEW n \in Nat, m <= n, n <= Len(b),
           \A k \in D : k <= m \/ k > n
    PROVE  Slice(c, m, n) = Slice(b, m, n)
<1>1. c \in Seq(Byte) /\ Len(c) = Len(b)
    BY DEF Changed
<1>2. \A k \in (m + 1)..n : c[k] = b[k]
    <2> SUFFICES ASSUME NEW k \in (m + 1)..n PROVE c[k] = b[k]
        OBVIOUS
    <2>1. k \in 1..Len(b) /\ k \notin D
        OBVIOUS
    <2> QED
        BY <2>1 DEF Changed
<1>3. Agree(c, b, m, n)
    BY <1>1, <1>2 DEF Agree
<1> QED
    BY <1>1, <1>3, SameSlice

\* After the checksums are written a receiver accepts the IP header, and the datagram if
\* the packet is whole.
LEMMA ChecksummedMeans ==
    ASSUME NEW b \in Seq(Byte), NEW words, NEW proto, NEW len, IsPacket(b, words, proto, len),
           NEW at, at = 4 * words + ChecksumAt[proto]
    PROVE  /\ Changed(Checksummed(b), b, {11, 12, at + 1, at + 2})
           /\ ChecksumsVerify(Checksummed(b), Counted(words, proto, len))
<1> DEFINE hl     == 4 * words
           zeroed == Patched(b, 10, <<0, 0>>)
           v1     == Checksum(Slice(zeroed, 0, hl))
           ip     == Patched(zeroed, 10, BE16(v1))
           blank  == Patched(ip, at, <<0, 0>>)
           v2     == TransportChecksum(blank)
           q      == Patched(blank, at, BE16(v2))
<1>1. Layout(b, words, proto, len, at)
    BY LayoutOf
<1>2. /\ words \in Nat /\ hl \in Nat /\ hl % 2 = 0 /\ 20 <= hl /\ hl + 6 <= at
      /\ at \in Nat /\ at % 2 = 0 /\ at + 2 <= Len(b) /\ hl <= len
      /\ len \in Nat /\ len <= Len(b) /\ 28 <= Len(b) /\ Len(b) \in Nat
      /\ IsWord(len) /\ proto \in Byte /\ proto \in Protocols
      /\ Counted(words, proto, len) => at + 2 <= len
    BY <1>1 DEF Layout, IsWord
<1>3. HeaderLen(b) = hl /\ Protocol(b) = proto
    BY <1>1 DEF Layout
<1>4. Checksummed(b) = q
    BY <1>3, Zenon DEF Checksummed
<1> HIDE DEF hl, q
<1>5. /\ Changed(zeroed, b, {11, 12}) /\ Changed(ip, b, {11, 12})
      /\ Stamped(ip, zeroed, 10, v1)
    <2>1. 10 \in Nat /\ 10 % 2 = 0 /\ 10 + 2 <= Len(b)
        BY <1>2
    <2>2. zeroed \in Seq(Byte) /\ Len(zeroed) = Len(b)
        <3>1. Worded(zeroed, b, 10, 0)
            BY <2>1, WordZeroed
        <3> QED
            BY <3>1 DEF Worded
    <2>3. Slice(zeroed, 0, hl) \in Seq(Byte)
        <3> HIDE DEF zeroed
        <3>1. 0 \in Nat /\ 0 <= hl /\ hl <= Len(zeroed)
            BY <1>2, <2>2
        <3>2. IsSlice(Slice(zeroed, 0, hl), zeroed, 0, hl)
            BY <1>2, <2>2, <3>1, SliceBytes
        <3> QED
            BY <3>2 DEF IsSlice
    <2>4. IsWord(v1)
        <3> HIDE DEF zeroed
        <3> QED
            BY <2>3, ChecksumMeans DEF IsWord
    <2> HIDE DEF v1
    <2>5. WritesWord(ip, zeroed, b, 10, v1)
        BY <2>1, <2>4, WordWritten
    <2> HIDE DEF ip, zeroed
    <2>6. {10 + 1, 10 + 2} = {11, 12}
        OBVIOUS
    <2> QED
        BY <2>5, <2>6 DEF WritesWord
<1>6. zeroed \in Seq(Byte) /\ Len(zeroed) = Len(b) /\ ip \in Seq(Byte) /\ Len(ip) = Len(b)
    <2> HIDE DEF zeroed, ip
    <2> QED
        BY <1>5 DEF Changed
<1>7. IsPacket(ip, words, proto, len)
    <2> HIDE DEF zeroed, ip
    <2> QED
        BY <1>5, StillPacket
<1>8. Changed(blank, ip, {at + 1, at + 2})
    <2> HIDE DEF zeroed, ip
    <2>1. Worded(blank, ip, at, 0)
        BY <1>2, <1>6, WordZeroed
    <2> QED
        BY <2>1 DEF Worded, Changed
<1>9. IsPacket(blank, words, proto, len) /\ blank \in Seq(Byte) /\ Len(blank) = Len(b)
    <2> HIDE DEF blank, ip
    <2> DEFINE D == {at + 1, at + 2}
    <2>1. \A k \in D : k = 11 \/ k = 12 \/ k >= 13
        BY <1>2
    <2> HIDE DEF D
    <2>2. Changed(blank, ip, D)
        BY <1>8 DEF D
    <2>3. IsPacket(blank, words, proto, len)
        BY <1>6, <1>7, <2>1, <2>2, StillPacket
    <2> QED
        BY <1>6, <2>2, <2>3 DEF Changed
<1>10. Layout(blank, words, proto, len, at)
    <2> HIDE DEF blank
    <2> QED
        BY <1>9, LayoutOf
<1> DEFINE ips     == Slice(blank, 12, 20)
           segment == Slice(blank, hl, len)
           covered == Pseudo(ips, proto, segment)
<1>11. /\ ips \in Seq(Byte) /\ Len(ips) = 8
       /\ segment \in Seq(Byte) /\ Len(segment) = len - hl /\ IsWord(Len(segment))
    <2> HIDE DEF blank
    <2>1. IsSlice(ips, blank, 12, 20)
        <3>1. 12 \in Nat /\ 20 \in Nat /\ 12 <= 20 /\ 20 <= Len(blank)
            BY <1>2, <1>9
        <3> QED
            BY <1>9, <3>1, SliceBytes
    <2>2. IsSlice(segment, blank, hl, len)
        <3>1. hl <= len /\ len <= Len(blank)
            BY <1>2, <1>9
        <3> QED
            BY <1>2, <1>9, <3>1, SliceBytes
    <2>3. IsWord(len - hl)
        BY <1>2 DEF IsWord
    <2> HIDE DEF ips, segment
    <2>4. Len(ips) = 8 /\ Len(segment) = len - hl
        BY <2>1, <2>2 DEF IsSlice
    <2> QED
        BY <2>1, <2>2, <2>3, <2>4 DEF IsSlice
<1>12. covered \in Seq(Byte)
    <2> HIDE DEF ips, segment
    <2>1. PseudoHead(ips, proto, Len(segment)) \in Seq(Byte)
        BY <1>2, <1>11, PseudoHeadBytes
    <2>2. covered = PseudoHead(ips, proto, Len(segment)) \o segment
        BY Zenon DEF Pseudo, PseudoHead
    <2> QED
        BY <1>11, <2>1, <2>2
<1>13. /\ v2 = Checksum(covered) \/ (Checksum(covered) = 0 /\ v2 = 65535)
       /\ IsWord(v2) /\ (proto = 17 => v2 # 0)
    <2>1. HeaderLen(blank) = hl /\ TotalLen(blank) = len /\ Protocol(blank) = proto
        BY <1>10 DEF Layout, hl
    <2>2. v2 = IF proto = 17 /\ Checksum(covered) = 0 THEN 65535 ELSE Checksum(covered)
        <3> HIDE DEF blank
        <3> QED
            BY <2>1 DEF TransportChecksum
    <2>3. IsWord(Checksum(covered)) /\ IsWord(65535)
        <3> HIDE DEF covered
        <3> QED
            BY <1>12, ChecksumMeans DEF IsWord
    <2> HIDE DEF covered, v2
    <2> QED
        BY <2>2, <2>3 DEF IsWord
<1> HIDE DEF v2
<1>14. /\ Changed(q, ip, {at + 1, at + 2}) /\ Changed(q, blank, {at + 1, at + 2})
       /\ Stamped(q, blank, at, v2) /\ U16(q, at) = v2
    <2> HIDE DEF ip, zeroed
    <2>1. /\ ip \in Seq(Byte) /\ at \in Nat /\ at % 2 = 0 /\ at + 2 <= Len(ip)
          /\ IsWord(v2)
        BY <1>2, <1>6, <1>13
    <2>2. WritesWord(Patched(Patched(ip, at, <<0, 0>>), at, BE16(v2)), Patched(ip, at, <<0, 0>>),
                     ip, at, v2)
        BY <2>1, WordWritten
    <2>3. WritesWord(q, blank, ip, at, v2)
        BY <2>2, Zenon DEF q
    <2> HIDE DEF blank
    <2> QED
        BY <2>3 DEF WritesWord
<1> HIDE DEF blank, ip, zeroed
<1>15. q \in Seq(Byte) /\ Len(q) = Len(b)
    BY <1>6, <1>14 DEF Changed
<1>16. Changed(q, b, {11, 12, at + 1, at + 2})
    BY <1>5, <1>14 DEF Changed
<1>17. IsPacket(q, words, proto, len)
    <2>1. \A k \in {at + 1, at + 2} : k = 11 \/ k = 12 \/ k >= 13
        BY <1>2
    <2> QED
        BY <1>6, <1>7, <1>14, <2>1, StillPacket
<1>18. HeaderLen(q) = hl /\ TotalLen(q) = len /\ Protocol(q) = proto
    <2>1. Layout(q, words, proto, len, at)
        BY <1>15, <1>17, LayoutOf
    <2> QED
        BY <2>1 DEF Layout, hl
<1>19. Verifies(Slice(q, 0, hl))
    <2>1. Slice(q, 0, hl) = Slice(ip, 0, hl)
        <3>1. 0 \in Nat /\ 0 <= hl /\ hl <= Len(ip) /\ \A k \in {at + 1, at + 2} : k <= 0 \/ k > hl
            BY <1>2, <1>6
        <3> DEFINE D == {at + 1, at + 2}
        <3>2. Changed(q, ip, D) /\ \A k \in D : k <= 0 \/ k > hl
            BY <1>14, <3>1
        <3> HIDE DEF D
        <3> QED
            BY <1>2, <1>6, <3>1, <3>2, SameOutside
    <2>2. Stamped(Slice(ip, 0, hl), Slice(zeroed, 0, hl), 10 - 0, v1)
        <3>1. 0 \in Nat /\ 0 % 2 = 0 /\ 0 <= 10 /\ 10 + 2 <= hl /\ hl <= Len(zeroed)
            BY <1>2, <1>6
        <3> HIDE DEF v1
        <3> QED
            BY <1>2, <1>5, <1>6, <3>1, SliceStamped
    <2>3. Slice(zeroed, 0, hl) \in Seq(Byte) /\ Slice(ip, 0, hl) \in Seq(Byte)
        <3>1. 0 \in Nat /\ 0 <= hl /\ hl <= Len(ip) /\ hl <= Len(zeroed)
            BY <1>2, <1>6
        <3>2. IsSlice(Slice(zeroed, 0, hl), zeroed, 0, hl) /\ IsSlice(Slice(ip, 0, hl), ip, 0, hl)
            BY <1>2, <1>6, <3>1, SliceBytes
        <3> QED
            BY <3>2 DEF IsSlice
    <2>4. v1 = Checksum(Slice(zeroed, 0, hl)) /\ v1 \in Nat
        BY <2>3, ChecksumMeans
    <2> HIDE DEF v1
    <2>5. Verifies(Slice(ip, 0, hl))
        BY <2>2, <2>3, <2>4, StampVerifies
    <2> QED
        BY <2>1, <2>5
<1>20. ASSUME Counted(words, proto, len)
       PROVE  Verifies(Pseudo(Slice(q, 12, 20), proto, Slice(q, hl, len)))
    <2>1. Slice(q, 12, 20) = ips
        <3>1. 12 \in Nat /\ 20 \in Nat /\ 12 <= 20 /\ 20 <= Len(blank)
              /\ \A k \in {at + 1, at + 2} : k <= 12 \/ k > 20
            BY <1>2, <1>9
        <3> QED
            BY <1>9, <1>14, <3>1, SameOutside
    <2>2. Stamped(Slice(q, hl, len), segment, at - hl, v2)
        <3>1. hl <= at /\ len <= Len(blank) /\ at + 2 <= len
            BY <1>2, <1>9, <1>20
        <3> QED
            BY <1>2, <1>9, <1>14, <1>15, <3>1, SliceStamped
    <2>3. Slice(q, hl, len) \in Seq(Byte)
        <3>1. hl <= len /\ len <= Len(q)
            BY <1>2, <1>15
        <3>2. IsSlice(Slice(q, hl, len), q, hl, len)
            BY <1>2, <1>15, <3>1, SliceBytes
        <3> QED
            BY <3>2 DEF IsSlice
    <2> DEFINE sent == Slice(q, hl, len)
    <2> HIDE DEF sent, ips, segment
    <2>4. Pseudo(ips, proto, sent) \in Seq(Byte) /\ Stamped(Pseudo(ips, proto, sent), covered, 12 + (at - hl), v2)
        BY <1>2, <1>11, <2>2, <2>3, PseudoStamped DEF sent
    <2> HIDE DEF covered
    <2>5. v2 \in Nat
        BY <1>13 DEF IsWord
    <2>6. Verifies(Pseudo(ips, proto, sent))
        BY <1>12, <1>13, <2>4, <2>5, StampVerifies
    <2> QED
        BY <2>1, <2>6 DEF sent
<1>21. proto = 17 => U16(q, hl + 6) # 0
    <2>1. proto = 17 => at = hl + 6
        BY <1>2 DEF ChecksumAt, Protocols, hl
    <2> QED
        BY <1>13, <1>14, <2>1
<1>22. ChecksumsVerify(q, Counted(words, proto, len))
    BY <1>18, <1>19, <1>20, <1>21 DEF ChecksumsVerify, HeaderVerifies, DatagramVerifies
<1> QED
    BY <1>4, <1>16, <1>22

\* Where a rewrite of an address at ipAt and a port at portAt may change a packet
\* whose transport checksum is at offset at.
Places(ipAt, portAt, at) ==
    {11, 12, ipAt + 1, ipAt + 2, ipAt + 3, ipAt + 4, portAt + 1, portAt + 2, at + 1, at + 2}

\* q is b with addr at offset ipAt and port at offset portAt, and checksums that hold as
\* far as the packet counts what they cover.
IsRewritten(q, b, words, proto, len, ipAt, portAt, addr, port) ==
    /\ IsPacket(q, words, proto, len) /\ ChecksumsVerify(q, Counted(words, proto, len))
    /\ Changed(q, b, Places(ipAt, portAt, 4 * words + ChecksumAt[proto]))
    /\ Slice(q, ipAt, ipAt + 4) = addr /\ U16(q, portAt) = port

LEMMA BytesRewritten ==
    ASSUME NEW b \in Seq(Byte), NEW words, NEW proto, NEW len, IsPacket(b, words, proto, len),
           NEW addr \in Seq(Byte), Len(addr) = 4, NEW port, IsWord(port),
           NEW ipAt \in {12, 16}, NEW portAt \in {4 * words, 4 * words + 2}
    PROVE  IsRewritten(Checksummed(Patched(Patched(b, ipAt, addr), portAt, BE16(port))),
                       b, words, proto, len, ipAt, portAt, addr, port)
<1> DEFINE at   == 4 * words + ChecksumAt[proto]
           half == Patched(b, ipAt, addr)
           x    == Patched(half, portAt, BE16(port))
           q    == Checksummed(x)
           D    == {ipAt + 1, ipAt + 2, ipAt + 3, ipAt + 4, portAt + 1, portAt + 2}
           E    == {11, 12, at + 1, at + 2}
<1>1. Layout(b, words, proto, len, at)
    BY LayoutOf
<1> HIDE DEF at
<1>2. /\ words \in Nat /\ ipAt \in Nat /\ 12 <= ipAt /\ ipAt <= 16 /\ portAt \in Nat
      /\ 20 <= portAt /\ portAt + 4 <= at /\ at \in Nat /\ at + 2 <= Len(b)
      /\ len \in Nat /\ len <= Len(b) /\ 28 <= Len(b) /\ Len(b) \in Nat
    BY <1>1 DEF Layout, IsWord
<1>3. IsPatch(half, b, ipAt, addr)
    <2>1. ipAt + Len(addr) <= Len(b)
        BY <1>2
    <2> QED
        BY <1>2, <2>1, PatchMeans
<1>4. half \in Seq(Byte) /\ Len(half) = Len(b)
    <2> HIDE DEF half
    <2> QED
        BY <1>3 DEF IsPatch
<1>5. Worded(x, half, portAt, port)
    <2>1. portAt + 2 <= Len(half)
        BY <1>2, <1>4
    <2> HIDE DEF half
    <2> QED
        BY <1>2, <1>4, <2>1, WordPatched
<1> HIDE DEF half, x
<1>6. x \in Seq(Byte) /\ Len(x) = Len(b)
    BY <1>4, <1>5 DEF Worded
<1>7. Changed(x, b, D)
    <2> SUFFICES ASSUME NEW k \in 1..Len(b), k \notin D PROVE x[k] = b[k]
        BY <1>6 DEF Changed
    <2>1. ~(ipAt < k /\ k <= ipAt + Len(addr)) /\ k # portAt + 1 /\ k # portAt + 2
        BY <1>2
    <2>2. half[k] = b[k]
        BY <1>3, <2>1 DEF IsPatch
    <2>3. x[k] = half[k]
        BY <1>4, <1>5, <2>1 DEF Worded
    <2> QED
        BY <2>2, <2>3
<1>8. \A k \in 1..4 : x[ipAt + k] = addr[k]
    <2> SUFFICES ASSUME NEW k \in 1..4 PROVE x[ipAt + k] = addr[k]
        OBVIOUS
    <2>1. ipAt + k \in 1..Len(b) /\ ipAt + k # portAt + 1 /\ ipAt + k # portAt + 2
        BY <1>2
    <2>2. half[ipAt + k] = addr[k]
        BY <1>3 DEF IsPatch
    <2>3. x[ipAt + k] = half[ipAt + k]
        BY <1>4, <1>5, <2>1 DEF Worded
    <2> QED
        BY <2>2, <2>3
<1>9. IsPacket(x, words, proto, len)
    <2>1. \A k \in D : k = 11 \/ k = 12 \/ k >= 13
        BY <1>2
    <2> HIDE DEF D
    <2> QED
        BY <1>7, <2>1, StillPacket
<1>10. Changed(q, x, E) /\ ChecksumsVerify(q, Counted(words, proto, len))
    <2>1. at = 4 * words + ChecksumAt[proto]
        BY DEF at
    <2> QED
        BY <1>6, <1>9, <2>1, ChecksummedMeans
<1> HIDE DEF q
<1>11. IsPacket(q, words, proto, len)
    <2>1. \A k \in E : k = 11 \/ k = 12 \/ k >= 13
        BY <1>2
    <2> HIDE DEF E
    <2> QED
        BY <1>6, <1>9, <1>10, <2>1, StillPacket
<1>12. q \in Seq(Byte) /\ Len(q) = Len(b) /\ \A k \in 1..Len(b) : k \notin E => q[k] = x[k]
    BY <1>6, <1>10 DEF Changed
<1>13. Changed(q, b, Places(ipAt, portAt, at))
    <2> SUFFICES ASSUME NEW k \in 1..Len(b), k \notin D, k \notin E PROVE q[k] = b[k]
        BY <1>12 DEF Changed, Places
    <2> HIDE DEF D, E
    <2> QED
        BY <1>7, <1>12 DEF Changed
<1>14. Slice(q, ipAt, ipAt + 4) = addr
    <2> DEFINE s == Slice(q, ipAt, ipAt + 4)
    <2>1. ipAt <= ipAt + 4 /\ ipAt + 4 <= Len(q) /\ ipAt + 4 \in Nat /\ (ipAt + 4) - ipAt = 4
        BY <1>2, <1>12
    <2>2. IsSlice(s, q, ipAt, ipAt + 4)
        BY <1>2, <1>12, <2>1, SliceBytes
    <2> HIDE DEF s
    <2>3. s \in Seq(Byte) /\ Len(s) = 4 /\ \A k \in 1..4 : s[k] = q[ipAt + k]
        BY <2>1, <2>2 DEF IsSlice
    <2>4. \A k \in 1..4 : q[ipAt + k] = addr[k]
        <3> SUFFICES ASSUME NEW k \in 1..4 PROVE q[ipAt + k] = addr[k]
            OBVIOUS
        <3>1. ipAt + k \in 1..Len(b) /\ ipAt + k \notin E
            BY <1>2
        <3> QED
            BY <1>8, <1>12, <3>1
    <2>5. \A k \in 1..4 : s[k] = addr[k]
        BY <2>3, <2>4
    <2>6. s = addr
        <3>1. Len(s) = Len(addr) /\ \A k \in 1..Len(s) : s[k] = addr[k]
            BY <2>3, <2>5
        <3> QED
            BY <2>3, <3>1, SeqEqual
    <2> QED
        BY <2>6 DEF s
<1>15. U16(q, portAt) = port
    <2>1. /\ portAt + 1 \in 1..Len(b) /\ portAt + 2 \in 1..Len(b)
          /\ portAt + 1 \notin E /\ portAt + 2 \notin E
        BY <1>2
    <2>2. q[portAt + 1] = x[portAt + 1] /\ q[portAt + 2] = x[portAt + 2]
        BY <1>12, <2>1
    <2>3. 256 * x[portAt + 1] + x[portAt + 2] = port
        BY <1>5 DEF Worded
    <2>4. (portAt + 1) + 1 = portAt + 2
        BY <1>2
    <2> QED
        BY <2>2, <2>3, <2>4 DEF U16, At
<1>16. IsRewritten(q, b, words, proto, len, ipAt, portAt, addr, port)
    BY <1>10, <1>11, <1>13, <1>14, <1>15 DEF IsRewritten, at
<1> QED
    BY <1>16 DEF q, x, half

\* What else is read of a rewritten packet is what it was.
LEMMA RestKept ==
    ASSUME NEW b \in Seq(Byte), NEW words, NEW proto, NEW len, IsPacket(b, words, proto, len),
           NEW q, NEW addr, NEW port,
           NEW ipAt \in {12, 16}, NEW portAt \in {4 * words, 4 * words + 2},
           IsRewritten(q, b, words, proto, len, ipAt, portAt, addr, port)
    PROVE  /\ \A k \in {12, 16} : k # ipAt => Slice(q, k, k + 4) = Slice(b, k, k + 4)
           /\ \A k \in {4 * words, 4 * words + 2} : k # portAt => U16(q, k) = U16(b, k)
<1> DEFINE at == 4 * words + ChecksumAt[proto]
           D  == Places(ipAt, portAt, at)
<1>1. Layout(b, words, proto, len, at) /\ Changed(q, b, D)
    BY LayoutOf DEF IsRewritten
<1> HIDE DEF at
<1>2. /\ words \in Nat /\ 5 <= words /\ ipAt \in Nat /\ portAt \in Nat
      /\ 20 <= portAt /\ 4 * words + 6 <= at /\ at \in Nat /\ at + 2 <= Len(b)
      /\ len \in Nat /\ len <= Len(b) /\ 28 <= Len(b) /\ Len(b) \in Nat
    BY <1>1 DEF Layout, IsWord
<1>3. ASSUME NEW k \in {12, 16}, k # ipAt PROVE Slice(q, k, k + 4) = Slice(b, k, k + 4)
    <2>1. k \in Nat /\ k + 4 \in Nat /\ k <= k + 4 /\ k + 4 <= Len(b)
        BY <1>2
    <2>2. \A d \in D : d <= k \/ d > k + 4
        BY <1>2, <1>3 DEF Places
    <2> HIDE DEF D
    <2> QED
        BY <1>1, <2>1, <2>2, SameOutside
<1>4. ASSUME NEW k \in {4 * words, 4 * words + 2}, k # portAt PROVE U16(q, k) = U16(b, k)
    <2>1. k + 1 \in 1..Len(b) /\ k + 2 \in 1..Len(b) /\ k + 1 \notin D /\ k + 2 \notin D
        BY <1>2, <1>4 DEF Places
    <2> HIDE DEF D
    <2>2. q[k + 1] = b[k + 1] /\ q[k + 2] = b[k + 2]
        BY <1>1, <2>1 DEF Changed
    <2>3. (k + 1) + 1 = k + 2
        BY <1>2
    <2> QED
        BY <2>2, <2>3 DEF U16, At
<1> QED
    BY <1>3, <1>4

\* A buffer that is parsed holds the headers of a packet.
LEMMA ParsedIsPacket ==
    ASSUME NEW b \in Seq(Byte), Parses(b)
    PROVE  /\ Len(b) >= 20
           /\ \E words \in 5..15, proto \in Protocols : IsPacket(b, words, proto, U16(b, 2))
<1> DEFINE words == At(b, 0) % 16
           proto == Protocol(b)
           total == U16(b, 2)
<1>1. /\ Len(b) \in Nat /\ Len(b) >= 20 /\ At(b, 0) \div 16 = 4
      /\ words * 4 >= 20 /\ words * 4 <= Len(b)
      /\ total \in (words * 4)..Len(b) /\ U16(b, 6) % 8192 = 0
      /\ proto \in Protocols /\ Len(b) >= words * 4 + MinLen[proto]
    BY DEF Parses, HeaderParses, HeaderLen, TotalLen
<1>2. Small(b[1]) /\ Small(b[7]) /\ Small(b[8])
    <2>1. b[1] \in Byte /\ b[7] \in Byte /\ b[8] \in Byte
        BY <1>1
    <2> QED
        BY <2>1, SmallIsByte
<1>3. words \in Nat /\ 5 <= words /\ words <= 15 /\ b[1] = 64 + words
    <2>1. At(b, 0) = b[1]
        BY DEF At
    <2>2. b[1] \in Nat /\ b[1] \div 16 = 4 /\ words = b[1] % 16
        BY <1>1, <1>2, <2>1 DEF Small
    <2>3. words \in Nat /\ words <= 15 /\ b[1] = 64 + words
        BY <2>2
    <2> HIDE DEF words
    <2> QED
        BY <1>1, <2>3
<1> HIDE DEF words
<1>4. b[7] % 32 = 0 /\ b[8] = 0
    <2>1. U16(b, 6) = 256 * b[7] + b[8]
        BY DEF U16, At
    <2>2. PICK j \in Nat : 256 * b[7] + b[8] = 8192 * j
        <3> DEFINE u == 256 * b[7] + b[8]
        <3>1. u \in Nat /\ u % 8192 = 0
            <4>1. b[7] \in Nat /\ b[8] \in Nat
                BY <1>2 DEF Small
            <4>2. u \in Nat
                BY <4>1
            <4>3. u = U16(b, 6)
                BY <2>1
            <4> HIDE DEF u
            <4> QED
                BY <1>1, <4>2, <4>3
        <3> HIDE DEF u
        <3>2. u \div 8192 \in Nat /\ u = 8192 * (u \div 8192)
            BY <3>1
        <3> QED
            BY <3>2 DEF u
    <2>3. b[8] = 0 /\ b[7] = 32 * j
        <3>1. \A m \in Int : 0 <= 256 * m /\ 256 * m <= 255 => m = 0
            OBVIOUS
        <3>2. b[7] \in Nat /\ b[8] \in Nat /\ b[8] <= 255
            BY <1>2 DEF Small
        <3>3. 32 * j - b[7] \in Int /\ b[8] = 256 * (32 * j - b[7])
            BY <2>2, <3>2
        <3>4. 32 * j - b[7] = 0
            BY <3>1, <3>2, <3>3
        <3> QED
            BY <3>2, <3>3, <3>4
    <2>4. (32 * j) % 32 = 0
        OBVIOUS
    <2> QED
        BY <2>3, <2>4
<1>5. b[10] = proto
    BY DEF Protocol, At
<1>6. MinLen[proto] \in Nat
    BY <1>1 DEF MinLen, Protocols
<1>7. total \in 4 * words..Len(b)
    BY <1>1, <1>3
<1>8. 4 * words + MinLen[proto] <= Len(b)
    <2> HIDE DEF total, proto
    <2> QED
        BY <1>1, <1>3, <1>6
<1>9. words \in 5..15
    BY <1>3
<1>10. IsPacket(b, words, proto, U16(b, 2))
    BY <1>1, <1>3, <1>4, <1>5, <1>7, <1>8, <1>9 DEF IsPacket
<1>11. proto \in Protocols /\ Len(b) >= 20
    BY <1>1
<1> HIDE DEF proto
<1> QED
    BY <1>9, <1>10, <1>11

\* The set of places in the statement of the property.
LEMMA OnlyPlaces ==
    ASSUME NEW b \in Seq(Byte), NEW words, NEW proto, NEW len, IsPacket(b, words, proto, len),
           NEW q, NEW addr, NEW port,
           NEW ipAt \in {12, 16}, NEW portAt \in {4 * words, 4 * words + 2},
           IsRewritten(q, b, words, proto, len, ipAt, portAt, addr, port)
    PROVE  OnlyRewritten(b, q, ipAt, portAt)
<1> DEFINE at == 4 * words + ChecksumAt[proto]
           C  == {k + HeaderLen(b) + ChecksumAt[Protocol(b)] : k \in 1..2}
           D  == {11, 12} \cup ipAt + 1..ipAt + 4 \cup portAt + 1..portAt + 2 \cup C
<1>1. Layout(b, words, proto, len, at) /\ Changed(q, b, Places(ipAt, portAt, at))
    BY LayoutOf DEF IsRewritten
<1>2. words \in Nat /\ ipAt \in Nat /\ portAt \in Nat /\ ChecksumAt[proto] \in Nat
    BY <1>1 DEF Layout, ChecksumAt, Protocols
<1>3. C = {at + 1, at + 2}
    <2>1. HeaderLen(b) = 4 * words /\ Protocol(b) = proto
        BY <1>1 DEF Layout
    <2> QED
        BY <1>2, <2>1
<1> HIDE DEF C, at
<1>4. Places(ipAt, portAt, at) \subseteq D
    <2> SUFFICES ASSUME NEW k \in Places(ipAt, portAt, at) PROVE k \in D
        OBVIOUS
    <2>1. CASE k \in {11, 12}
        BY <2>1
    <2>2. CASE k \in {ipAt + 1, ipAt + 2, ipAt + 3, ipAt + 4}
        BY <1>2, <2>2
    <2>3. CASE k \in {portAt + 1, portAt + 2}
        BY <1>2, <2>3
    <2>4. CASE k \in {at + 1, at + 2}
        BY <1>3, <2>4
    <2> QED
        BY <2>1, <2>2, <2>3, <2>4 DEF Places
<1> HIDE DEF D
<1>5. \A k \in DOMAIN b \ D : q[k] = b[k]
    BY <1>1, <1>4 DEF Changed
<1>6. Len(q) = Len(b)
    BY <1>1 DEF Changed
<1> QED
    BY <1>5, <1>6 DEF OnlyRewritten, D, C

\* What is read of a packet, by the offset of its ports.
LEMMA MetaOf ==
    ASSUME NEW b \in Seq(Byte), NEW words, NEW proto, NEW len, IsPacket(b, words, proto, len)
    PROVE  /\ Meta(b) = [proto |-> ProtocolName[proto],
                         src   |-> [addr |-> Slice(b, 12, 12 + 4), port |-> U16(b, 4 * words)],
                         dst   |-> [addr |-> Slice(b, 16, 16 + 4), port |-> U16(b, 4 * words + 2)]]
           /\ HeaderLen(b) = 4 * words
<1>1. HeaderLen(b) = 4 * words /\ Protocol(b) = proto
    BY LayoutOf DEF Layout
<1>2. 12 + 4 = 16 /\ 16 + 4 = 20
    OBVIOUS
<1> QED
    BY <1>1, <1>2 DEF Meta

LEMMA DestinationRewritten ==
    ASSUME NEW b \in Seq(Byte), NEW words, NEW proto, NEW len, IsPacket(b, words, proto, len),
           NEW addr \in Seq(Byte), Len(addr) = 4, NEW port, IsWord(port)
    PROVE  \E q \in RewrittenDestination(b, addr, port) :
              /\ Meta(q) = [Meta(b) EXCEPT !.dst = [addr |-> addr, port |-> port]]
              /\ OnlyRewritten(b, q, 16, HeaderLen(b) + 2)
              /\ ChecksumsVerify(q, Counted(words, proto, len))
<1> DEFINE at == 4 * words + 2
           q  == Checksummed(Patched(Patched(b, 16, addr), at, BE16(port)))
<1>1. Parses(b)
    BY LayoutOf
<1>2. HeaderLen(b) = 4 * words
    BY MetaOf
<1>3. q \in RewrittenDestination(b, addr, port)
    BY <1>1, <1>2 DEF RewrittenDestination
<1>4. at \in {4 * words, 4 * words + 2}
    OBVIOUS
<1>5. IsRewritten(q, b, words, proto, len, 16, at, addr, port)
    BY <1>4, BytesRewritten
<1> HIDE DEF q
<1>6. /\ IsPacket(q, words, proto, len) /\ q \in Seq(Byte)
      /\ ChecksumsVerify(q, Counted(words, proto, len))
      /\ Slice(q, 16, 16 + 4) = addr /\ U16(q, at) = port
    BY <1>5 DEF IsRewritten, Changed
<1>7. OnlyRewritten(b, q, 16, at)
    BY <1>4, <1>5, OnlyPlaces
<1>8. words \in Nat
    BY LayoutOf DEF Layout
<1>9. Slice(q, 12, 12 + 4) = Slice(b, 12, 12 + 4) /\ U16(q, 4 * words) = U16(b, 4 * words)
    <2>1. 4 * words # at
        BY <1>8
    <2> QED
        BY <1>4, <1>5, <2>1, RestKept
<1>10. Meta(q) = [Meta(b) EXCEPT !.dst = [addr |-> addr, port |-> port]]
    <2>1. Meta(q) = [proto |-> ProtocolName[proto],
                     src   |-> [addr |-> Slice(q, 12, 12 + 4), port |-> U16(q, 4 * words)],
                     dst   |-> [addr |-> Slice(q, 16, 16 + 4), port |-> U16(q, 4 * words + 2)]]
        BY <1>6, MetaOf
    <2>2. Meta(b) = [proto |-> ProtocolName[proto],
                     src   |-> [addr |-> Slice(b, 12, 12 + 4), port |-> U16(b, 4 * words)],
                     dst   |-> [addr |-> Slice(b, 16, 16 + 4), port |-> U16(b, 4 * words + 2)]]
        BY MetaOf
    <2> QED
        BY <1>6, <1>9, <2>1, <2>2
<1> QED
    BY <1>2, <1>3, <1>6, <1>7, <1>10

LEMMA SourceRewritten ==
    ASSUME NEW b \in Seq(Byte), NEW words, NEW proto, NEW len, IsPacket(b, words, proto, len),
           NEW addr \in Seq(Byte), Len(addr) = 4, NEW port, IsWord(port)
    PROVE  \E q \in RewrittenSource(b, addr, port) :
              /\ Meta(q) = [Meta(b) EXCEPT !.src = [addr |-> addr, port |-> port]]
              /\ OnlyRewritten(b, q, 12, HeaderLen(b))
              /\ ChecksumsVerify(q, Counted(words, proto, len))
<1> DEFINE at == 4 * words
           q  == Checksummed(Patched(Patched(b, 12, addr), at, BE16(port)))
<1>1. Parses(b)
    BY LayoutOf
<1>2. HeaderLen(b) = at
    BY MetaOf
<1>3. q \in RewrittenSource(b, addr, port)
    BY <1>1, <1>2 DEF RewrittenSource
<1>4. at \in {4 * words, 4 * words + 2}
    OBVIOUS
<1>5. IsRewritten(q, b, words, proto, len, 12, at, addr, port)
    BY <1>4, BytesRewritten
<1> HIDE DEF q
<1>6. /\ IsPacket(q, words, proto, len) /\ q \in Seq(Byte)
      /\ ChecksumsVerify(q, Counted(words, proto, len))
      /\ Slice(q, 12, 12 + 4) = addr /\ U16(q, at) = port
    BY <1>5 DEF IsRewritten, Changed
<1>7. OnlyRewritten(b, q, 12, at)
    BY <1>4, <1>5, OnlyPlaces
<1>8. words \in Nat
    BY LayoutOf DEF Layout
<1>9. Slice(q, 16, 16 + 4) = Slice(b, 16, 16 + 4) /\ U16(q, 4 * words + 2) = U16(b, 4 * words + 2)
    <2>1. 4 * words + 2 # at
        BY <1>8
    <2> QED
        BY <1>4, <1>5, <2>1, RestKept
<1>10. Meta(q) = [Meta(b) EXCEPT !.src = [addr |-> addr, port |-> port]]
    <2>1. Meta(q) = [proto |-> ProtocolName[proto],
                     src   |-> [addr |-> Slice(q, 12, 12 + 4), port |-> U16(q, 4 * words)],
                     dst   |-> [addr |-> Slice(q, 16, 16 + 4), port |-> U16(q, 4 * words + 2)]]
        BY <1>6, MetaOf
    <2>2. Meta(b) = [proto |-> ProtocolName[proto],
                     src   |-> [addr |-> Slice(b, 12, 12 + 4), port |-> U16(b, 4 * words)],
                     dst   |-> [addr |-> Slice(b, 16, 16 + 4), port |-> U16(b, 4 * words + 2)]]
        BY MetaOf
    <2> QED
        BY <1>6, <1>9, <2>1, <2>2
<1> QED
    BY <1>2, <1>3, <1>6, <1>7, <1>10

-----------------------------------------------------------------------------
\* The theorems.

Given(kind, inputs) == input.kind = kind => input.in \in inputs

\* What a function is called with is one of the inputs.
LEMMA InputsGiven ==
    Spec => [](/\ Given("packet", Packets) /\ Given("host", Hosts) /\ Given("query", Queries)
               /\ Given("hello", Hellos) /\ Given("request", Requests) /\ Given("args", UpArgs))
<1> DEFINE Inputs == /\ Given("packet", Packets) /\ Given("host", Hosts)
                     /\ Given("query", Queries) /\ Given("hello", Hellos)
                     /\ Given("request", Requests) /\ Given("args", UpArgs)
<1>1. Init => Inputs
    BY DEF Init, Given
<1>2. Inputs /\ [Next]_input => Inputs'
    BY DEF Next, Given, Call, RewritePacket, DiscoverHost, AnswerQuery, ReadHello,
           ReadRequest, Configure
<1> QED
    BY <1>1, <1>2, PTL DEF Spec

\* RewriteIsExact: a rewrite of a packet whose headers are in the buffer, however long it is
\* and with whatever behind it, changes the endpoint that the redirector's decision names and
\* otherwise only the checksums; a receiver accepts the IP header's, and the datagram's if
\* the packet counts its transport header.  Every other buffer is refused.
\* (src/src/redirector.rs:385-560)
THEOREM RewritesExact == Spec => []RewriteIsExact
<1>1. Given("packet", Packets) => RewriteIsExact
    <2> SUFFICES ASSUME input.kind = "packet", NEW in, in = input.in, in \in Packets
                 PROVE  RewriteIsExact
        BY DEF Given, RewriteIsExact
    <2> DEFINE b    == in.bytes
               port == in.origin.port
               to   == RewrittenDestination(b, GatewayIp, ProxyPort)
               from == RewrittenSource(b, in.origin.addr, port)
    <2>1. /\ PacketMeans(in) /\ IsWord(ProxyPort) /\ GatewayIp \in Seq(Byte) /\ Len(GatewayIp) = 4
        BY PacketsAssumption, QueriesAssumption, PortIsWord
    <2>2. /\ b \in Seq(Byte) /\ in.origin.addr \in Seq(Byte) /\ Len(in.origin.addr) = 4
          /\ IsWord(port) /\ in.origin = [addr |-> in.origin.addr, port |-> port]
        <3>1. /\ b \in Seq(Byte) /\ in.origin \in [addr : Seq(Byte), port : Ports]
              /\ Len(in.origin.addr) = 4
            BY <2>1, Zenon DEF PacketMeans
        <3>2. in.origin = [addr |-> in.origin.addr, port |-> port]
            BY <3>1, Zenon
        <3>3. in.origin.addr \in Seq(Byte) /\ port \in Ports
            BY <3>1, Zenon
        <3>4. IsWord(port)
            BY <3>3, PortIsWord
        <3> QED
            BY <3>1, <3>2, <3>3, <3>4
    <2>3. \/ /\ in.form \in {"whole", "short"}
             /\ \E words \in 5..15, proto \in Protocols :
                   /\ IsPacket(b, words, proto, U16(b, 2))
                   /\ in.form = "whole" <=> Counted(words, proto, U16(b, 2))
          \/ /\ in.form = "refused"
             /\ \/ Len(b) < 20
                \/ \A words \in 5..15, proto \in Protocols : ~IsPacket(b, words, proto, U16(b, 2))
        BY <2>1, Zenon DEF PacketMeans
    <2>4. CASE in.form = "refused"
        <3>1. ~Parses(b)
            <4>1. CASE Len(b) < 20
                BY <2>2, <4>1 DEF Parses, HeaderParses
            <4>2. CASE \A words \in 5..15, proto \in Protocols : ~IsPacket(b, words, proto, U16(b, 2))
                <5> HIDE DEF b
                <5> QED
                    BY <2>2, <4>2, ParsedIsPacket
            <4> QED
                BY <2>3, <2>4, <4>1, <4>2
        <3>2. to = {} /\ from = {}
            BY <3>1 DEF RewrittenDestination, RewrittenSource
        <3> HIDE DEF to, from, b
        <3>3. input.in.form = "refused" /\ ~Parses(input.in.bytes)
            BY <2>4, <3>1 DEF b
        <3> QED
            BY <3>2, <3>3 DEF RewriteIsExact, to, from, b
    <2>5. CASE in.form \in {"whole", "short"}
        <3> DEFINE whole == in.form = "whole"
        <3>1. PICK words \in 5..15, proto \in Protocols :
                 /\ IsPacket(b, words, proto, U16(b, 2))
                 /\ whole <=> Counted(words, proto, U16(b, 2))
            BY <2>3, <2>5
        <3> HIDE DEF b, whole
        <3>2. \E q \in to : /\ Meta(q) = [Meta(b) EXCEPT !.dst = [addr |-> GatewayIp, port |-> ProxyPort]]
                            /\ OnlyRewritten(b, q, 16, HeaderLen(b) + 2) /\ ChecksumsVerify(q, whole)
            <4> DEFINE len == U16(b, 2)
            <4>1. \E q \in to : /\ Meta(q) = [Meta(b) EXCEPT !.dst = [addr |-> GatewayIp, port |-> ProxyPort]]
                                /\ OnlyRewritten(b, q, 16, HeaderLen(b) + 2)
                                /\ ChecksumsVerify(q, Counted(words, proto, len))
                BY <2>1, <2>2, <3>1, DestinationRewritten
            <4> QED
                BY <3>1, <4>1 DEF ChecksumsVerify
        <3>3. \E q \in from : /\ Meta(q) = [Meta(b) EXCEPT !.src = in.origin]
                              /\ OnlyRewritten(b, q, 12, HeaderLen(b)) /\ ChecksumsVerify(q, whole)
            <4> DEFINE len == U16(b, 2)
            <4> HIDE DEF port
            <4>1. \E q \in from : /\ Meta(q) = [Meta(b) EXCEPT !.src = [addr |-> in.origin.addr, port |-> port]]
                                  /\ OnlyRewritten(b, q, 12, HeaderLen(b))
                                  /\ ChecksumsVerify(q, Counted(words, proto, len))
                BY <2>2, <3>1, SourceRewritten
            <4>2. [addr |-> in.origin.addr, port |-> port] = in.origin
                BY <2>2
            <4> QED
                BY <3>1, <4>1, <4>2 DEF ChecksumsVerify
        <3>4. ~(in.form = "refused")
            BY <2>5
        <3> HIDE DEF to, from
        <3> QED
            BY <3>2, <3>3, <3>4, Zenon
            DEF RewriteIsExact, to, from, b, port, whole, Redirector!RewriteDestination, Redirector!RewriteSource
    <2>6. in.form = "refused" \/ in.form \in {"whole", "short"}
        BY <2>3
    <2> QED
        BY <2>4, <2>5, <2>6
<1> QED
    BY <1>1, InputsGiven, PTL

\* AcceptedArguments: `up` accepts its arguments exactly when each of them is sound, however
\* many options the URI has, and doctor reports the same proxies as ok; what is accepted can
\* be bound unless the transparent port is one of gateway mode's.
\* (src/src/config.rs, main.rs:142-210, app.rs:41-80, 390-393)
THEOREM AcceptedConfigs == Spec => []AcceptedArguments
<1>1. Given("args", UpArgs) => AcceptedArguments
    <2> SUFFICES ASSUME input.kind = "args", NEW args, args = input.in, args \in UpArgs
                 PROVE  AcceptedArguments
        BY DEF Given, AcceptedArguments
    <2> DEFINE uri == args.outbound
               flagged(p) == WithFlag(p, args.insecure)
    <2>1. uri \in ProxyUris /\ args.insecure \in BOOLEAN /\ args.skip \in BOOLEAN
        BY UpArgsAssumption
    <2>2. /\ \A p \in FromStr(uri) :
                /\ HasConnector(flagged(p))
                /\ flagged(p).kind = "direct" <=> uri = DirectWord
                /\ flagged(p).tls_skip_verify =>
                      args.insecure \/ \E i \in DOMAIN uri.query :
                         uri.query[i].key \in TlsKeys /\ uri.query[i].value \in YesWords
                /\ args.insecure => flagged(p).tls_skip_verify
                /\ ValidProxy(flagged(p)) => SoundProxy(uri, args.insecure)
          /\ SoundProxy(uri, args.insecure) => \E p \in FromStr(uri) : ValidProxy(flagged(p))
        BY <2>1, ProxyMeans
    <2>3. \A p \in FromStr(uri) : Valid(Assembled(args, flagged(p))) <=>
             ValidProxy(flagged(p)) /\ SoundArgs(args)
        <3> SUFFICES ASSUME NEW p \in FromStr(uri)
                     PROVE  Valid(Assembled(args, flagged(p))) <=>
                               ValidProxy(flagged(p)) /\ SoundArgs(args)
            OBVIOUS
        <3> HIDE DEF flagged
        <3> QED
            BY <2>2, PartsMean DEF SoundArgs
    <2>4. UpConfig(args) = {c \in {Assembled(args, flagged(p)) : p \in FromStr(uri)} : Valid(c)}
        BY DEF UpConfig
    <2>5. UpConfig(args) # {} <=> SoundArgs(args)
        <3>1. SoundArgs(args) => SoundProxy(uri, args.insecure)
            BY DEF SoundArgs
        <3> HIDE DEF flagged
        <3> QED
            BY <2>2, <2>3, <2>4, <3>1
    <2>6. ASSUME NEW c \in UpConfig(args)
          PROVE  /\ HasConnector(c.proxy)
                 /\ c.proxy.kind = "direct" <=> uri = DirectWord
                 /\ c.proxy.tls_skip_verify =>
                       /\ c.proxy.kind = "https"
                       /\ args.insecure \/ \E i \in DOMAIN uri.query :
                            uri.query[i].key \in TlsKeys /\ uri.query[i].value \in YesWords
                 /\ args.insecure => c.proxy.tls_skip_verify
                 /\ c.preflight.enabled <=> ~args.skip /\ uri # DirectWord
                 /\ c.ports.tcp # c.ports.dns
                 /\ AllDiffer(TcpPorts(c)) <=> ~args.gateway \/ args.tcp \notin {80, 443}
        <3>1. PICK p \in FromStr(uri) : c = Assembled(args, flagged(p)) /\ Valid(c)
            BY <2>4
        <3> HIDE DEF flagged
        <3>2. /\ c.proxy = flagged(p) /\ c.ports = [tcp |-> args.tcp, dns |-> args.dnsProxy]
              /\ c.preflight.enabled <=> ~args.skip /\ flagged(p).kind # "direct"
            BY <2>1, <3>1 DEF Assembled
        <3>3. ValidProxy(c.proxy) /\ c.ports.tcp # c.ports.dns
            BY <3>1 DEF Valid, ValidPorts
        <3>4. c.proxy.tls_skip_verify => c.proxy.kind = "https"
            BY <3>3 DEF ValidProxy
        <3>5. AllDiffer(TcpPorts(c)) <=> ~args.gateway \/ args.tcp \notin {80, 443}
            <4>1. c.ports.tcp = args.tcp /\ c.dns.gateway = args.gateway /\ args.gateway \in BOOLEAN
                BY <3>1, UpArgsAssumption DEF Assembled
            <4>2. CASE args.gateway
                <5> DEFINE ports == TcpPorts(c)
                <5>1. args.tcp \in Nat
                    BY UpArgsAssumption
                <5>2. ports = <<args.tcp>> \o <<80, 443>>
                    BY <4>1, <4>2 DEF TcpPorts
                <5> HIDE DEF ports
                <5>3. /\ DOMAIN ports = 1..3
                      /\ ports[1] = args.tcp /\ ports[2] = 80 /\ ports[3] = 443
                    BY <5>1, <5>2
                <5>4. AllDiffer(ports) <=> args.tcp # 80 /\ args.tcp # 443
                    BY <5>1, <5>3 DEF AllDiffer
                <5> QED
                    BY <4>2, <5>4 DEF ports
            <4>3. CASE ~args.gateway
                <5>1. TcpPorts(c) = <<args.tcp>>
                    BY <4>1, <4>3 DEF TcpPorts
                <5> QED
                    BY <4>3, <5>1 DEF AllDiffer
            <4> QED
                BY <4>1, <4>2, <4>3
        <3> QED
            BY <2>2, <3>1, <3>2, <3>3, <3>4, <3>5
    <2>7. DoctorProxy(uri, args.insecure) # {} <=> SoundProxy(uri, args.insecure)
        <3>1. DoctorProxy(uri, args.insecure) =
                 {q \in {flagged(p) : p \in FromStr(uri)} : ValidProxy(q) /\ HasConnector(q)}
            BY DEF DoctorProxy
        <3> HIDE DEF flagged
        <3> QED
            BY <2>2, <3>1
    <2> HIDE DEF flagged
    <2> QED
        BY <2>5, <2>6, <2>7 DEF AcceptedArguments
<1> QED
    BY <1>1, InputsGiven, PTL

\* DiscoveredSubnet: the redirector is given an address of an active Wi-Fi Direct adapter
\* and its subnet, as the packet test and the inbound filter both compute it, and misses no
\* usable one while the adapters can be listed, however wide an address is.
\* (src/src/hotspot.rs:31-44, 191-367, 812-820, redirector.rs:793-803)
THEOREM SubnetsDiscovered == Spec => []DiscoveredSubnet
<1>1. Given("host", Hosts) => DiscoveredSubnet
    <2> SUFFICES ASSUME input.kind = "host", NEW host, host = input.in, host \in Hosts
                 PROVE  DiscoveredSubnet
        BY DEF Given, DiscoveredSubnet
    <2> DEFINE list     == host.adapters
               adapters == {list[k] : k \in DOMAIN list}
               found    == Discovered(host.calls, list, host.powershell)
    <2>1. /\ list \in Seq(Adapters)
          /\ \A k, n \in DOMAIN list : list[k].index = list[n].index => k = n
        BY HostsAssumption
    <2>2. ASSUME NEW r \in found
          PROVE  /\ \E a \in adapters :
                       /\ a.index = r.index /\ a.status # "down"
                       /\ "none" # a.description \/ "none" # a.friendly
                       /\ \E i \in DOMAIN a.addrs : a.addrs[i] = [ip |-> r.gateway, prefix |-> r.subnet.prefix]
                 /\ r.gateway \notin LinkLocal
                 /\ LET clients == {ip \in Addresses : Contains(r.subnet, ip)}
                    IN /\ r.gateway \in clients
                       /\ clients = Bounds(r.subnet).low..Bounds(r.subnet).high
                       /\ Cardinality(clients) = Pow2[HostBits(r.subnet.prefix)]
        <3>1. PICK c : r = Runtime(c) /\ Source(list, c)
            <4> HIDE DEF list
            <4>1. r \in Native(host.calls, list) \/ r \in Script(list)
                BY <2>2 DEF Discovered
            <4> QED
                BY <2>1, <4>1, NativeSource, ScriptSource
        <3>2. PICK k \in DOMAIN list :
                  /\ c \in AddressesOf(list, k) /\ list[k].status # "down"
                  /\ "none" # list[k].description \/ "none" # list[k].friendly
                  /\ c.ip \notin LinkLocal
            BY <3>1 DEF Source
        <3>3. /\ c.index = list[k].index /\ c.ip \in Addresses /\ c.prefix \in Nat
              /\ \E i \in DOMAIN list[k].addrs : list[k].addrs[i] = [ip |-> c.ip, prefix |-> c.prefix]
            <4> HIDE DEF list
            <4> QED
                BY <2>1, <3>2, AddressesMean
        <3>4. /\ r.index = c.index /\ r.gateway = c.ip /\ r.subnet = SubnetOf(c.ip, c.prefix)
              /\ r.subnet.prefix = c.prefix
            BY <3>1 DEF Runtime, SubnetOf
        <3>5. list[k] \in adapters
            OBVIOUS
        <3> HIDE DEF list, adapters, found
        <3>6. LET clients == {ip \in Addresses : Contains(r.subnet, ip)}
              IN /\ r.gateway \in clients
                 /\ clients = Bounds(r.subnet).low..Bounds(r.subnet).high
                 /\ Cardinality(clients) = Pow2[HostBits(r.subnet.prefix)]
            BY <3>3, <3>4, SubnetMeans
        <3> QED
            BY <3>2, <3>3, <3>4, <3>5, <3>6
    <2>3. ASSUME found = {}, Answered(host.calls)
          PROVE  \A a \in adapters : IsHotspot(a) => \A i \in DOMAIN a.addrs : ~Usable(a.addrs[i])
        <3>1. Candidates(list) = {}
            <4> HIDE DEF list
            <4> QED
                BY <2>1, <2>3, NativeThere DEF Discovered
        <3> SUFFICES ASSUME NEW k \in DOMAIN list, IsHotspot(list[k]),
                            NEW i \in DOMAIN list[k].addrs, Usable(list[k].addrs[i])
                     PROVE  FALSE
            OBVIOUS
        <3> DEFINE c == [index |-> list[k].index, ip |-> list[k].addrs[i].ip,
                         prefix |-> list[k].addrs[i].prefix, adapter |-> k, addr |-> i]
        <3>2. c \in AddressesOf(list, k)
            BY Zenon DEF AddressesOf
        <3>3. Usable(c)
            BY DEF Usable
        <3>4. c \in Candidates(list)
            <4> HIDE DEF c, list
            <4> QED
                BY <3>2, <3>3 DEF Candidates
        <3> QED
            BY <3>1, <3>4
    <2>4. ASSUME Answered(host.calls), Comparable(list) PROVE found = Script(list)
        <3> HIDE DEF list
        <3>1. /\ Native(host.calls, list) = Script(list)
            BY <2>1, <2>4, SameFound
        <3> QED
            BY <3>1 DEF Discovered
    <2> QED
        BY <2>2, <2>3, <2>4 DEF DiscoveredSubnet, Answered
<1> QED
    BY <1>1, InputsGiven, PTL

\* HostNamed: the destination of a request is the one that the first Host line of its head
\* says, however long its lines are; a head without one, or that is not text, is refused.
\* (src/src/proxy.rs:384-386, 443-468)
THEOREM HostsNamed == Spec => []HostNamed
<1>1. Given("request", Requests) => HostNamed
    BY HttpHostMeans DEF Given, HostNamed
<1> QED
    BY <1>1, InputsGiven, PTL

\* GatewayAnswers: a query is answered exactly when it asks one whole question of
\* class IN, by an answer that repeats it and carries the address that was asked for,
\* however many labels the name has and whatever follows.  (src/src/dns.rs:118-188)
THEOREM GatewaysAnswer == Spec => []GatewayAnswers
<1>1. Given("query", Queries) => GatewayAnswers
    <2> SUFFICES ASSUME input.kind = "query", NEW in, in = input.in, in \in Queries
                 PROVE  GatewayAnswers
        BY DEF Given, GatewayAnswers
    <2> DEFINE b == in.bytes
               labels == in.labels
               last == labels[Len(labels)]
               answers == GatewayResponse(b, GatewayIp)
    <2>1. /\ QueryMeans(in) /\ GatewayIp \in Seq(Byte) /\ Len(GatewayIp) = 4
        BY QueriesAssumption
    <2>2. /\ b \in Seq(Byte) /\ LabelsOf(b, labels) /\ ~LabelAt(b, last)
          /\ in.question = IF Asks(b, last) THEN {[qtype |-> U16(b, last + 1), end |-> last + 5]} ELSE {}
        BY <2>1 DEF QueryMeans
    <2>3. SingleQuestion(b) = in.question
        <3> HIDE DEF b, labels
        <3> QED
            BY <2>2, QuestionMeans
    <2>4. answers = {Response(b, q, GatewayIp) : q \in in.question}
        BY <2>3 DEF GatewayResponse
    <2>5. last \in Nat /\ last >= 12
        <3> HIDE DEF b, labels
        <3> QED
            BY <2>2, NameEndMeans
    <2>6. CASE ~Asks(b, last)
        <3>1. in.question = {}
            BY <2>2, <2>6
        <3>2. answers = {}
            BY <2>4, <3>1
        <3> HIDE DEF answers
        <3>3. input.in.question = {} /\ GatewayResponse(input.in.bytes, GatewayIp) = {}
            BY <3>1, <3>2 DEF answers
        <3> QED
            BY <3>3 DEF GatewayAnswers
    <2>7. CASE Asks(b, last)
        <3> DEFINE q == [qtype |-> U16(b, last + 1), end |-> last + 5]
                   records == IF q.qtype = 1 THEN 1 ELSE 0
                   x == Response(b, q, GatewayIp)
        <3>1. in.question = {q} /\ answers = {x}
            BY <2>2, <2>4, <2>7
        <3>2. q.end = last + 5 /\ q.end \in Nat /\ q.end >= 17 /\ q.end <= Len(b) /\ records \in {0, 1}
            BY <2>5, <2>7 DEF Asks
        <3> HIDE DEF b, labels, answers, x, q
        <3>3. IsAnswer(x, b, q, GatewayIp, records)
            BY <2>1, <2>2, <3>2, ResponseBytes DEF x
        <3> HIDE DEF records
        <3>4. /\ Slice(x, 0, 2) = Slice(b, 0, 2)
              /\ U16(x, 2) \div 32768 = 1
              /\ <<U16(x, 4), U16(x, 6), U16(x, 8), U16(x, 10)>> = <<1, records, 0, 0>>
              /\ Slice(x, 12, q.end) = Slice(b, 12, q.end)
              /\ Len(x) = q.end + 16 * records
            <4>1. q.end \in Nat /\ q.end >= 17 /\ q.end <= Len(b) /\ records \in {0, 1}
                BY <3>2
            <4>2. GatewayIp \in Seq(Byte) /\ Len(GatewayIp) = 4 /\ b \in Seq(Byte)
                BY <2>1, <2>2
            <4> HIDE DEF last
            <4> QED
                BY <3>3, <4>1, <4>2, AnswerFields
        <3>5. SingleQuestion(x) = in.question
            <4>1. q.end = last + 5 /\ records \in Nat /\ last = labels[Len(labels)]
                BY <3>2
            <4>4. last \in Nat
                BY <2>5
            <4>5. Asks(b, last)
                BY <2>7
            <4>2. b \in Seq(Byte) /\ LabelsOf(b, labels)
                BY <2>2
            <4> HIDE DEF last
            <4>3. SingleQuestion(x) = SingleQuestion(b)
                BY <3>3, <4>1, <4>2, <4>4, <4>5, AnswerReadsBack
            <4> QED
                BY <2>3, <4>3
        <3>6. records = 1 => /\ U16(x, q.end) = 49152 + 12
                             /\ Slice(x, q.end + 2, q.end + 4) = <<0, 1>>
                             /\ U16(x, q.end + 10) = 4
                             /\ Slice(x, q.end + 12, Len(x)) = GatewayIp
            BY <2>1, <2>2, <3>2, <3>3, AnswerRecord
        <3>7. input.in.question = {q} /\ GatewayResponse(b, GatewayIp) = {x} /\ input.in.bytes = b
            BY <3>1 DEF answers, b
        <3> QED
            BY <2>1, <3>4, <3>5, <3>6, <3>7 DEF GatewayAnswers, records
    <2> QED
        BY <2>6, <2>7
<1> QED
    BY <1>1, InputsGiven, PTL

\* ServerNamed: a whole ClientHello names what its first server_name entry of type
\* host_name says, a cut or divided one nothing, and a name read from any bytes at all
\* stands in them.  (src/src/proxy.rs:470-583)
THEOREM ServersNamed == Spec => []ServerNamed
<1>1. Given("hello", Hellos) => ServerNamed
    <2> SUFFICES ASSUME input.kind = "hello", NEW hello, hello = input.in, hello \in Hellos
                 PROVE  ServerNamed
        BY DEF Given, ServerNamed
    <2> DEFINE b == hello.bytes
               names == TlsServerName(b)
    <2>1. HelloMeans(hello)
        BY HellosAssumption
    <2>2. b \in Seq(Byte) /\ hello.form \in {"whole", "cut", "corrupt"}
        BY <2>1 DEF HelloMeans
    <2>3. hello.form = "whole" => names = hello.name
        BY <2>1, <2>2, WholeNamed DEF HelloMeans
    <2>4. hello.form = "cut" => names = {}
        BY <2>1, <2>2, CutUnnamed DEF HelloMeans
    <2>5. \A n \in names : \E i \in 0..(Len(b) - Len(n)) : Slice(b, i, i + Len(n)) = n
        <3> HIDE DEF b
        <3> SUFFICES ASSUME NEW n \in names
                     PROVE  \E i \in 0..(Len(b) - Len(n)) : Slice(b, i, i + Len(n)) = n
            OBVIOUS
        <3>1. n \in Within(b)
            BY <2>2, StreamWithin
        <3>2. PICK i \in Nat, j \in Nat : i <= j /\ j <= Len(b) /\ n = Slice(b, i, j)
            BY <3>1 DEF Within
        <3>3. IsSlice(n, b, i, j)
            BY <2>2, <3>2, SliceBytes
        <3>4. Len(n) = j - i /\ i + Len(n) = j /\ i \in 0..(Len(b) - Len(n))
            <4>1. Len(n) = j - i
                BY <3>3 DEF IsSlice
            <4>2. Len(b) \in Nat
                BY <2>2
            <4> HIDE DEF names
            <4> QED
                BY <3>2, <4>1, <4>2
        <3> QED
            BY <3>2, <3>4
    <2> QED
        BY <2>2, <2>3, <2>4, <2>5 DEF ServerNamed
<1> QED
    BY <1>1, InputsGiven, PTL
=============================================================================
