-------------------------- MODULE JsonPacketProofs --------------------------
(***************************************************************************)
(* Theorems about JsonPacket, for every log of packets and every edit of   *)
(* its text.                                                               *)
(***************************************************************************)
EXTENDS JsonPacket, TextLemmas

(***************************************************************************)
(* The tokens.                                                             *)
(***************************************************************************)
U16 == 0 .. 65535
Half == Int \X U16
Quad == {a \in Seq(Byte) : Len(a) = 4}

\* The words of the format, and the one that stands for all others.
Words ==
  {"ip", "tcp", "udp", "icmp", "version", "tos", "id", "flags",
   "fragmentOffset", "ttl", "protocol", "source", "destination",
   "sourcePort", "destPort", "seqNumber", "ackNumber", "windowSize",
   "urgentPointer", "options", "type", "code", "identifier",
   "sequenceNumber", "nextHopMtu", "gateway", "data", "bogus", "text",
   "hex"}
Tables ==
  {"protocol", "ipFlag", "tcpFlag", "tcpOption", "icmpType", "unreachable",
   "redirect", "badIpHeader"}

LEMMA WordsHave ==
  /\ "ip" \in Words
  /\ "tcp" \in Words
  /\ "udp" \in Words
  /\ "icmp" \in Words
  /\ "version" \in Words
  /\ "tos" \in Words
  /\ "id" \in Words
  /\ "flags" \in Words
  /\ "fragmentOffset" \in Words
  /\ "ttl" \in Words
  /\ "protocol" \in Words
  /\ "source" \in Words
  /\ "destination" \in Words
  /\ "sourcePort" \in Words
  /\ "destPort" \in Words
  /\ "seqNumber" \in Words
  /\ "ackNumber" \in Words
  /\ "windowSize" \in Words
  /\ "urgentPointer" \in Words
  /\ "options" \in Words
  /\ "type" \in Words
  /\ "code" \in Words
  /\ "identifier" \in Words
  /\ "sequenceNumber" \in Words
  /\ "nextHopMtu" \in Words
  /\ "gateway" \in Words
  /\ "data" \in Words
  /\ "bogus" \in Words
  /\ "text" \in Words
  /\ "hex" \in Words
BY DEF Words

LEMMA TablesHave ==
  /\ "protocol" \in Tables
  /\ "ipFlag" \in Tables
  /\ "tcpFlag" \in Tables
  /\ "tcpOption" \in Tables
  /\ "icmpType" \in Tables
  /\ "unreachable" \in Tables
  /\ "redirect" \in Tables
  /\ "badIpHeader" \in Tables
BY DEF Tables

StringStr ==
  [word : Words] \cup [table : Tables, index : Nat] \cup [address : Quad]
  \cup [bytes : Seq(Byte)] \cup [text : Seq(Byte)]

StringToken == [t : {"String"}, str : StringStr]
PropertyToken == [t : {"PropertyName"}, str : [word : Words]]
IntegerToken == [t : {"Integer"}, str : [number : Half], v : Half]
PlainToken == {StartObject, EndObject, StartArray, EndArray, Null, [t |-> "Error"]}
TokenSet == PlainToken \cup StringToken \cup PropertyToken \cup IntegerToken

CallSet == TokenSet \cup {BeginPack, EndPack}

LEMMA Product ==
  ASSUME NEW A, NEW B
  PROVE  /\ \A a \in A, b \in B : <<a, b>> \in A \X B
         /\ \A x \in A \X B : x[1] \in A /\ x[2] \in B
OBVIOUS

LEMMA HalfIs ==
  /\ \A a \in Int, b \in U16 : <<a, b>> \in Half
  /\ \A x \in Half : x[1] \in Int /\ x[2] \in U16
BY Product DEF Half

LEMMA ScalarTokens ==
  /\ \A x \in StringStr : Text(x) \in StringToken
  /\ \A w \in Words : Word(w) \in StringToken /\ Property(w) \in PropertyToken
  /\ \A tb \in Tables, i \in Nat : Entry(tb, i) \in StringToken
  /\ \A a \in Quad : Address(a) \in StringToken
  /\ \A x \in Half : Halves(x) \in IntegerToken
<1>1. \A x \in StringStr : Text(x) \in StringToken
  BY DEF Text, StringToken
<1>2. \A w \in Words : [word |-> w] \in StringStr /\ [word |-> w] \in [word : Words]
  BY DEF StringStr
<1>3. \A tb \in Tables, i \in Nat : [table |-> tb, index |-> i] \in StringStr
  BY DEF StringStr
<1>4. \A a \in Quad : [address |-> a] \in StringStr
  BY DEF StringStr
<1>5. \A x \in Half : Halves(x) \in IntegerToken
  BY DEF Halves, IntegerToken
<1>6. \A w \in Words : Property(w) \in PropertyToken
  BY <1>2 DEF Property, PropertyToken
<1> QED BY <1>1, <1>2, <1>3, <1>4, <1>5, <1>6 DEF Word, Entry, Address

LEMMA IntegerType ==
  ASSUME NEW n \in Nat
  PROVE  Integer(n) \in IntegerToken
<1>1. n \div 65536 \in Int /\ n % 65536 \in U16
  BY SMTT(40) DEF U16
<1>3. <<n \div 65536, n % 65536>> \in Half
  BY <1>1, HalfIs
<1> QED BY <1>3, ScalarTokens, SMTT(40) DEF Integer

\* The kinds of tokens by their type.
LEMMA TokenKinds ==
  ASSUME NEW c \in TokenSet
  PROVE  /\ c.t = "StartObject" => c = StartObject
         /\ c.t = "EndObject" => c = EndObject
         /\ c.t = "StartArray" => c = StartArray
         /\ c.t = "EndArray" => c = EndArray
         /\ c.t = "Null" => c = Null
         /\ c.t = "String" => c \in StringToken
         /\ c.t = "PropertyName" => c \in PropertyToken
         /\ c.t = "Integer" => c \in IntegerToken
         /\ c.t \in {"StartObject", "EndObject", "StartArray", "EndArray", "Null", "Error",
                     "String", "PropertyName", "Integer"}
         /\ "str" \in DOMAIN c <=> c.t \in {"String", "PropertyName", "Integer"}
         /\ c \notin {BeginPack, EndPack}
<1>1. CASE c \in PlainToken
  BY <1>1 DEF PlainToken, StartObject, EndObject, StartArray, EndArray, Null, BeginPack, EndPack
<1>2. CASE c \in StringToken
  BY <1>2 DEF StringToken, StartObject, EndObject, StartArray, EndArray, Null, BeginPack, EndPack
<1>3. CASE c \in PropertyToken
  BY <1>3 DEF PropertyToken, StartObject, EndObject, StartArray, EndArray, Null, BeginPack, EndPack
<1>4. CASE c \in IntegerToken
  BY <1>4 DEF IntegerToken, StartObject, EndObject, StartArray, EndArray, Null, BeginPack, EndPack
<1> QED BY <1>1, <1>2, <1>3, <1>4 DEF TokenSet

(***************************************************************************)
(* Nesting.  Level 1 is that of the packets, in the array around them, 2   *)
(* that of the parts of a packet, 3 that of the fields of a header and 4   *)
(* that of the elements of an array.  An array in an array, which is an    *)
(* option, begins at level 6, where it has to have an element, and goes on *)
(* at level 5.                                                             *)
(***************************************************************************)
Opens(c) == c.t \in {"StartArray", "StartObject"}
Closes(c) == c.t \in {"EndArray", "EndObject"}

\* The level after the token c at a level.
After(c, level) ==
  IF Opens(c) THEN (IF level = 4 THEN 6 ELSE level + 1)
  ELSE IF Closes(c) THEN level - 1
  ELSE IF level = 6 THEN 5 ELSE level

Fits(c, level) ==
  /\ level \in 1 .. 6
  /\ level = 1 => c.t \in {"StartObject", "EndArray"}
  /\ level = 6 => ~Closes(c)
  /\ c.t = "StartArray" => level \in 2 .. 4
  /\ c.t = "StartObject" => level \in 1 .. 2
  /\ c.t = "PropertyName" => level \in 2 .. 3

Climbs(ts, d) ==
  \A i \in 1 .. Len(ts) : d[i] = After(ts[i], d[i - 1]) /\ Fits(ts[i], d[i - 1])

\* The tokens in ts lead from level m to level n.
Nests(ts, m, n) ==
  \E d \in [0 .. Len(ts) -> Nat] : Climbs(ts, d) /\ d[0] = m /\ d[Len(ts)] = n

LEMMA NestsEmpty ==
  ASSUME NEW m \in Nat
  PROVE  Nests(<<>>, m, m)
<1> DEFINE d == [i \in 0 .. 0 |-> m]
<1>1. Len(<<>>) = 0 /\ d \in [0 .. 0 -> Nat] /\ d[0] = m
  OBVIOUS
<1>2. Climbs(<<>>, d)
  BY DEF Climbs
<1> HIDE DEF d
<1> QED BY <1>1, <1>2 DEF Nests

LEMMA NestsOne ==
  ASSUME NEW c, NEW m \in Nat, NEW n \in Nat, n = After(c, m), Fits(c, m)
  PROVE  Nests(<<c>>, m, n)
<1> DEFINE s == <<c>>
           d == [i \in 0 .. 1 |-> IF i = 0 THEN m ELSE n]
<1>1. Len(s) = 1 /\ s[1] = c /\ d \in [0 .. 1 -> Nat] /\ d[0] = m /\ d[1] = n
  OBVIOUS
<1> HIDE DEF s, d
<1>2. ASSUME NEW i \in 1 .. 1 PROVE d[i] = After(s[i], d[i - 1]) /\ Fits(s[i], d[i - 1])
  <2>1. i = 1 /\ i - 1 = 0
    OBVIOUS
  <2> QED BY <1>1, <2>1
<1>3. Climbs(s, d)
  BY <1>1, <1>2 DEF Climbs
<1>4. Nests(s, m, n)
  BY <1>1, <1>3 DEF Nests
<1> QED BY <1>4 DEF s

LEMMA NestsConcat ==
  ASSUME NEW S, NEW a \in Seq(S), NEW b \in Seq(S), NEW m, NEW k, NEW n,
         Nests(a, m, k), Nests(b, k, n)
  PROVE  Nests(a \o b, m, n)
<1>1. PICK d \in [0 .. Len(a) -> Nat] : Climbs(a, d) /\ d[0] = m /\ d[Len(a)] = k
  BY DEF Nests
<1>2. PICK e \in [0 .. Len(b) -> Nat] : Climbs(b, e) /\ e[0] = k /\ e[Len(b)] = n
  BY DEF Nests
<1> DEFINE ab == a \o b
           g == [i \in 0 .. (Len(a) + Len(b)) |-> IF i <= Len(a) THEN d[i] ELSE e[i - Len(a)]]
<1>3. /\ Len(a) \in Nat /\ Len(b) \in Nat /\ Len(ab) = Len(a) + Len(b)
      /\ \A i \in 1 .. Len(a) : ab[i] = a[i]
      /\ \A i \in (Len(a) + 1) .. (Len(a) + Len(b)) : ab[i] = b[i - Len(a)]
  BY Concat, ConcatAt
<1>4. /\ g \in [0 .. Len(ab) -> Nat]
      /\ \A i \in 0 .. Len(a) : g[i] = d[i]
      /\ \A i \in (Len(a) + 1) .. (Len(a) + Len(b)) : g[i] = e[i - Len(a)]
  <2>1. ASSUME NEW i \in 0 .. (Len(a) + Len(b))
        PROVE  (IF i <= Len(a) THEN d[i] ELSE e[i - Len(a)]) \in Nat
    <3>1. CASE i <= Len(a)
      <4>1. i \in 0 .. Len(a)
        BY <1>3, <3>1
      <4> QED BY <3>1, <4>1
    <3>2. CASE ~(i <= Len(a))
      <4>1. i - Len(a) \in 0 .. Len(b)
        BY <1>3, <3>2
      <4> QED BY <3>2, <4>1
    <3> QED BY <3>1, <3>2
  <2> QED BY <1>3, <2>1
<1>5. g[Len(a)] = k /\ g[0] = m
  BY <1>1, <1>3, <1>4
<1>6. \A i \in Len(a) .. (Len(a) + Len(b)) : g[i] = e[i - Len(a)]
  <2>1. ASSUME NEW i \in Len(a) .. (Len(a) + Len(b)) PROVE g[i] = e[i - Len(a)]
    <3>1. CASE i = Len(a)
      BY <1>2, <1>3, <1>5, <3>1
    <3>2. CASE i # Len(a)
      BY <1>3, <1>4, <3>2
    <3> QED BY <3>1, <3>2
  <2> QED BY <2>1
<1> HIDE DEF ab, g
<1>7. ASSUME NEW i \in 1 .. Len(ab)
      PROVE  g[i] = After(ab[i], g[i - 1]) /\ Fits(ab[i], g[i - 1])
  <2>1. CASE i <= Len(a)
    <3>1. i \in 1 .. Len(a) /\ i \in 0 .. Len(a) /\ i - 1 \in 0 .. Len(a)
      BY <1>3, <2>1
    <3>2. d[i] = After(a[i], d[i - 1]) /\ Fits(a[i], d[i - 1])
      BY <1>1, <3>1 DEF Climbs
    <3> QED BY <1>3, <1>4, <3>1, <3>2
  <2>2. CASE ~(i <= Len(a))
    <3>1. /\ i - Len(a) \in 1 .. Len(b) /\ i \in (Len(a) + 1) .. (Len(a) + Len(b))
          /\ i \in Len(a) .. (Len(a) + Len(b)) /\ i - 1 \in Len(a) .. (Len(a) + Len(b))
          /\ (i - 1) - Len(a) = (i - Len(a)) - 1
      BY <1>3, <2>2
    <3>2. e[i - Len(a)] = After(b[i - Len(a)], e[(i - Len(a)) - 1])
          /\ Fits(b[i - Len(a)], e[(i - Len(a)) - 1])
      BY <1>2, <3>1 DEF Climbs
    <3>3. g[i] = e[i - Len(a)] /\ g[i - 1] = e[(i - Len(a)) - 1] /\ ab[i] = b[i - Len(a)]
      BY <1>3, <1>6, <3>1
    <3> QED BY <3>2, <3>3
  <2> QED BY <2>1, <2>2
<1>8. Climbs(ab, g)
  BY <1>7 DEF Climbs
<1>9. g[Len(ab)] = n
  <2>1. Len(ab) \in Len(a) .. (Len(a) + Len(b)) /\ Len(ab) - Len(a) = Len(b)
    BY <1>3
  <2> QED BY <1>2, <1>6, <2>1, <1>3
<1>10. Nests(ab, m, n)
  BY <1>4, <1>5, <1>8, <1>9 DEF Nests
<1> QED BY <1>10 DEF ab

LEMMA NestsCut ==
  ASSUME NEW S, NEW ts \in Seq(S), NEW m, NEW n, Nests(ts, m, n), NEW j \in 0 .. Len(ts)
  PROVE  \E k \in Nat : /\ Nests(SubSeq(ts, 1, j), m, k)
                         /\ Nests(SubSeq(ts, j + 1, Len(ts)), k, n)
<1>1. PICK d \in [0 .. Len(ts) -> Nat] : Climbs(ts, d) /\ d[0] = m /\ d[Len(ts)] = n
  BY DEF Nests
<1>0. Len(ts) \in Nat /\ j \in Nat /\ j <= Len(ts)
  OBVIOUS
<1> DEFINE a == SubSeq(ts, 1, j)
           b == SubSeq(ts, j + 1, Len(ts))
           e == [i \in 0 .. j |-> d[i]]
           g == [i \in 0 .. (Len(ts) - j) |-> d[i + j]]
<1>2. Len(a) = j /\ \A i \in 1 .. j : a[i] = ts[i]
  OBVIOUS
<1>3. Len(b) = Len(ts) - j /\ \A i \in 1 .. (Len(ts) - j) : b[i] = ts[i + j]
  OBVIOUS
<1>4. e \in [0 .. j -> Nat] /\ \A i \in 0 .. j : e[i] = d[i]
  BY <1>0
<1>5. g \in [0 .. (Len(ts) - j) -> Nat] /\ \A i \in 0 .. (Len(ts) - j) : g[i] = d[i + j]
  BY <1>0
<1> HIDE DEF a, b, e, g
<1>6. Nests(a, m, d[j])
  <2>1. ASSUME NEW i \in 1 .. j PROVE e[i] = After(a[i], e[i - 1]) /\ Fits(a[i], e[i - 1])
    <3>1. i \in 1 .. Len(ts) /\ i - 1 \in 0 .. j /\ i \in 0 .. j
      BY <1>0
    <3> QED BY <1>1, <1>2, <1>4, <3>1 DEF Climbs
  <2>2. Climbs(a, e)
    BY <1>2, <2>1 DEF Climbs
  <2>3. e[0] = m /\ e[j] = d[j]
    BY <1>0, <1>1, <1>4
  <2> QED BY <1>2, <1>4, <2>2, <2>3 DEF Nests
<1>7. Nests(b, d[j], n)
  <2>1. ASSUME NEW i \in 1 .. (Len(ts) - j)
        PROVE  g[i] = After(b[i], g[i - 1]) /\ Fits(b[i], g[i - 1])
    <3>1. /\ i + j \in 1 .. Len(ts) /\ i - 1 \in 0 .. (Len(ts) - j)
          /\ i \in 0 .. (Len(ts) - j) /\ (i - 1) + j = (i + j) - 1
      BY <1>0
    <3>2. d[i + j] = After(ts[i + j], d[(i + j) - 1]) /\ Fits(ts[i + j], d[(i + j) - 1])
      BY <1>1, <3>1 DEF Climbs
    <3>3. g[i] = d[i + j] /\ g[i - 1] = d[(i + j) - 1] /\ b[i] = ts[i + j]
      BY <1>3, <1>5, <3>1
    <3> QED BY <3>2, <3>3
  <2>2. Climbs(b, g)
    BY <1>3, <2>1 DEF Climbs
  <2>3. g[0] = d[j] /\ g[Len(ts) - j] = n
    <3>1. 0 \in 0 .. (Len(ts) - j) /\ Len(ts) - j \in 0 .. (Len(ts) - j)
          /\ 0 + j = j /\ (Len(ts) - j) + j = Len(ts)
      BY <1>0
    <3> QED BY <1>1, <1>5, <3>1
  <2> QED BY <1>3, <1>5, <2>2, <2>3 DEF Nests
<1>8. d[j] \in Nat
  BY <1>0
<1> QED BY <1>6, <1>7, <1>8 DEF a, b

\* The first token.
LEMMA NestsTail ==
  ASSUME NEW S, NEW ts \in Seq(S), ts # <<>>, NEW m, NEW n, Nests(ts, m, n)
  PROVE  /\ After(Head(ts), m) \in Nat
         /\ Fits(Head(ts), m)
         /\ Nests(Tail(ts), After(Head(ts), m), n)
<1>1. PICK d \in [0 .. Len(ts) -> Nat] : Climbs(ts, d) /\ d[0] = m /\ d[Len(ts)] = n
  BY DEF Nests
<1>2. Len(ts) \in Nat /\ Len(ts) >= 1 /\ Head(ts) = ts[1]
  OBVIOUS
<1> DEFINE b == Tail(ts)
           g == [i \in 0 .. (Len(ts) - 1) |-> d[i + 1]]
<1>3. Len(b) = Len(ts) - 1 /\ \A i \in 1 .. (Len(ts) - 1) : b[i] = ts[i + 1]
  OBVIOUS
<1>4. g \in [0 .. (Len(ts) - 1) -> Nat] /\ \A i \in 0 .. (Len(ts) - 1) : g[i] = d[i + 1]
  BY <1>2
<1> HIDE DEF b, g
<1>5. d[1] = After(Head(ts), m) /\ Fits(Head(ts), m) /\ d[1] \in Nat
  <2>1. 1 \in 1 .. Len(ts) /\ 1 \in 0 .. Len(ts) /\ 1 - 1 = 0
    BY <1>2
  <2>2. d[1] = After(ts[1], d[1 - 1]) /\ Fits(ts[1], d[1 - 1])
    BY <1>1, <2>1 DEF Climbs
  <2> QED BY <1>1, <1>2, <2>1, <2>2
<1>6. ASSUME NEW i \in 1 .. (Len(ts) - 1)
      PROVE  g[i] = After(b[i], g[i - 1]) /\ Fits(b[i], g[i - 1])
  <2>1. /\ i + 1 \in 1 .. Len(ts) /\ i - 1 \in 0 .. (Len(ts) - 1)
        /\ i \in 0 .. (Len(ts) - 1) /\ (i - 1) + 1 = (i + 1) - 1
    BY <1>2
  <2>2. d[i + 1] = After(ts[i + 1], d[(i + 1) - 1]) /\ Fits(ts[i + 1], d[(i + 1) - 1])
    BY <1>1, <2>1 DEF Climbs
  <2>3. g[i] = d[i + 1] /\ g[i - 1] = d[(i + 1) - 1] /\ b[i] = ts[i + 1]
    BY <1>3, <1>4, <2>1
  <2> QED BY <2>2, <2>3
<1>7. Climbs(b, g)
  BY <1>3, <1>6 DEF Climbs
<1>8. g[0] = d[1] /\ g[Len(ts) - 1] = n
  <2>1. 0 \in 0 .. (Len(ts) - 1) /\ Len(ts) - 1 \in 0 .. (Len(ts) - 1)
        /\ 0 + 1 = 1 /\ (Len(ts) - 1) + 1 = Len(ts)
    BY <1>2
  <2> QED BY <1>1, <1>4, <2>1
<1>9. Nests(b, d[1], n)
  BY <1>3, <1>4, <1>7, <1>8 DEF Nests
<1> QED BY <1>5, <1>9 DEF b

\* Tokens that change no level.
LEMMA NestsFlat ==
  ASSUME NEW s, Len(s) \in Nat, NEW m \in Nat,
         \A i \in 1 .. Len(s) : After(s[i], m) = m /\ Fits(s[i], m)
  PROVE  Nests(s, m, m)
<1> DEFINE d == [i \in 0 .. Len(s) |-> m]
<1>1. d \in [0 .. Len(s) -> Nat] /\ \A i \in 0 .. Len(s) : d[i] = m
  OBVIOUS
<1> HIDE DEF d
<1>2. ASSUME NEW i \in 1 .. Len(s) PROVE d[i] = After(s[i], d[i - 1]) /\ Fits(s[i], d[i - 1])
  <2>1. i \in 0 .. Len(s) /\ i - 1 \in 0 .. Len(s)
    OBVIOUS
  <2>2. d[i] = m /\ d[i - 1] = m
    BY <1>1, <2>1
  <2> QED BY <2>2
<1>3. Climbs(s, d)
  BY <1>2 DEF Climbs
<1>4. d[0] = m /\ d[Len(s)] = m
  BY <1>1
<1> QED BY <1>1, <1>3, <1>4 DEF Nests

\* Other tokens that nest in the same way.
Alike(c, e) == \A l \in Nat : After(e, l) = After(c, l) /\ (Fits(c, l) => Fits(e, l))

LEMMA NestsLike ==
  ASSUME NEW ts, Len(ts) \in Nat, NEW us, Len(us) = Len(ts), NEW m, NEW n, Nests(ts, m, n),
         \A i \in 1 .. Len(ts) : Alike(ts[i], us[i])
  PROVE  Nests(us, m, n)
<1>1. PICK d \in [0 .. Len(ts) -> Nat] : Climbs(ts, d) /\ d[0] = m /\ d[Len(ts)] = n
  BY DEF Nests
<1>2. ASSUME NEW i \in 1 .. Len(ts) PROVE d[i] = After(us[i], d[i - 1]) /\ Fits(us[i], d[i - 1])
  <2>1. d[i - 1] \in Nat
    OBVIOUS
  <2>2. d[i] = After(ts[i], d[i - 1]) /\ Fits(ts[i], d[i - 1])
    BY <1>1 DEF Climbs
  <2> QED BY <2>1, <2>2 DEF Alike
<1>3. Climbs(us, d)
  BY <1>2 DEF Climbs
<1> QED BY <1>1, <1>3 DEF Nests

(***************************************************************************)
(* Counting.                                                               *)
(***************************************************************************)
LEMMA CountType ==
  ASSUME NEW S, NEW s \in Seq(S), NEW c
  PROVE  Count(c, s) \in Nat /\ IsFiniteSet({i \in 1 .. Len(s) : s[i] = c})
         /\ Count(c, s) = Cardinality({i \in 1 .. Len(s) : s[i] = c})
<1>1. Len(s) \in Nat /\ DOMAIN s = 1 .. Len(s)
  OBVIOUS
<1>2. IsFiniteSet(1 .. Len(s))
  BY <1>1, FS_Interval
<1>3. {i \in 1 .. Len(s) : s[i] = c} \in SUBSET (1 .. Len(s))
  OBVIOUS
<1>4. IsFiniteSet({i \in 1 .. Len(s) : s[i] = c})
  BY <1>2, <1>3, FS_Subset
<1> QED BY <1>1, <1>4, FS_CardinalityType DEF Count

LEMMA CountNone ==
  ASSUME NEW S, NEW s \in Seq(S), NEW c, c \notin S
  PROVE  Count(c, s) = 0
<1>1. {i \in 1 .. Len(s) : s[i] = c} = {}
  OBVIOUS
<1> QED BY <1>1, CountType, FS_EmptySet

LEMMA CountEmpty ==
  ASSUME NEW c
  PROVE  Count(c, <<>>) = 0
<1>1. {i \in DOMAIN <<>> : <<>>[i] = c} = {}
  OBVIOUS
<1> QED BY <1>1, FS_EmptySet DEF Count

LEMMA CountOne ==
  ASSUME NEW c
  PROVE  Count(c, <<c>>) = 1
<1>1. {i \in DOMAIN <<c>> : <<c>>[i] = c} = {1}
  OBVIOUS
<1> QED BY <1>1, FS_Singleton DEF Count

LEMMA CountConcat ==
  ASSUME NEW S, NEW a \in Seq(S), NEW b \in Seq(S), NEW c
  PROVE  Count(c, a \o b) = Count(c, a) + Count(c, b)
<1> DEFINE ab == a \o b
           m == Len(a)
           n == Len(b)
           A == {i \in 1 .. m : a[i] = c}
           B == {i \in 1 .. n : b[i] = c}
           C == {i \in (m + 1) .. (m + n) : ab[i] = c}
           D == {i \in 1 .. (m + n) : ab[i] = c}
           f == [i \in B |-> i + m]
<1>1. /\ m \in Nat /\ n \in Nat /\ ab \in Seq(S) /\ Len(ab) = m + n
      /\ \A i \in 1 .. m : ab[i] = a[i]
      /\ \A i \in (m + 1) .. (m + n) : ab[i] = b[i - m]
  BY Concat, ConcatAt
<1>2. /\ IsFiniteSet(A) /\ Count(c, a) = Cardinality(A)
      /\ IsFiniteSet(B) /\ Count(c, b) = Cardinality(B)
  BY CountType
<1>3. Count(c, ab) = Cardinality(D)
  <2> HIDE DEF ab
  <2>1. Count(c, ab) = Cardinality({i \in 1 .. Len(ab) : ab[i] = c})
    BY <1>1, CountType
  <2> QED BY <1>1, <2>1
<1> HIDE DEF ab, m, n
<1>4. D = A \cup C /\ A \cap C = {}
  BY <1>1
<1>5. ExistsBijection(B, C)
  <2>1. ASSUME NEW i \in B PROVE f[i] = i + m /\ i + m \in C
    <3>1. i \in 1 .. n /\ i + m \in (m + 1) .. (m + n) /\ (i + m) - m = i
      BY <1>1
    <3>2. ab[i + m] = b[i]
      BY <1>1, <3>1
    <3> QED BY <3>1, <3>2
  <2>2. ASSUME NEW x \in C PROVE \E i \in B : f[i] = x
    <3>1. x - m \in 1 .. n /\ ab[x] = b[x - m] /\ (x - m) + m = x
      BY <1>1
    <3>2. x - m \in B
      BY <3>1
    <3>3. f[x - m] = x
      BY <2>1, <3>1, <3>2
    <3> QED BY <3>2, <3>3
  <2>3. \A i, j \in B : f[i] = f[j] => i = j
    <3>1. B \subseteq Nat
      BY <1>1
    <3> HIDE DEF B, f
    <3> QED BY <1>1, <2>1, <3>1
  <2>4. f \in [B -> C]
    <3>1. \A i \in B : i + m \in C
      BY <2>1
    <3> HIDE DEF B, C
    <3> QED BY <3>1
  <2> HIDE DEF B, C, f
  <2>5. f \in Bijection(B, C)
    BY <2>2, <2>3, <2>4 DEF Bijection, Injection, Surjection, IsInjective
  <2> QED BY <2>5 DEF ExistsBijection
<1>6. IsFiniteSet(C) /\ Cardinality(C) = Cardinality(B)
  <2> HIDE DEF B, C
  <2> QED BY <1>2, <1>5, FS_Bijection
<1>7. Cardinality(A \cup C) = Cardinality(A) + Cardinality(C) - Cardinality(A \cap C)
  <2> HIDE DEF A, C
  <2> QED BY <1>2, <1>6, FS_Union
<1>8. Cardinality(A) \in Nat /\ Cardinality(B) \in Nat /\ Cardinality({}) = 0
  <2> HIDE DEF A, B
  <2> QED BY <1>2, FS_CardinalityType, FS_EmptySet
<1>9. Count(c, ab) = Count(c, a) + Count(c, b)
  <2> HIDE DEF A, B, C, D
  <2>1. Cardinality(A \cap C) = 0 /\ Cardinality(A \cup C) = Count(c, ab)
    BY <1>3, <1>4, <1>8
  <2>2. Count(c, ab) = Cardinality(A) + Cardinality(B) - 0
    BY <1>6, <1>7, <2>1
  <2> QED BY <1>2, <1>8, <2>2
<1> QED BY <1>9 DEF ab

(***************************************************************************)
(* Sequences of calls of the writer.                                       *)
(***************************************************************************)
Packs == {BeginPack, EndPack}
Tcp == Property("tcp")

\* The calls in s lead from level m to level n, leave k more on pack_ and
\* write the name of j TCP headers.
Writes(s, m, n, k, j) ==
  /\ s \in Seq(CallSet)
  /\ Tokens(s) \in Seq(TokenSet)
  /\ Nests(Tokens(s), m, n)
  /\ Count(BeginPack, s) - Count(EndPack, s) = k
  /\ Count(Tcp, Tokens(s)) = j

\* The tokens without level, but for the name of a TCP header.
FlatToken == StringToken \cup (PropertyToken \ {Tcp}) \cup IntegerToken
ScalarToken == StringToken \cup IntegerToken

LEMMA TokensIs == ASSUME NEW s PROVE Tokens(s) = Without(s, Packs)
BY DEF Tokens, Without, Pieces, Piece, Packs

LEMMA TokensNotPacks == TokenSet \cap Packs = {} /\ TokenSet \subseteq CallSet
BY TokenKinds DEF CallSet, Packs

LEMMA PacksDiffer == BeginPack # EndPack
BY DEF BeginPack, EndPack

\* Of tokens there is nothing to leave out.
LEMMA WritesTokens ==
  ASSUME NEW s \in Seq(TokenSet), NEW m, NEW n, Nests(s, m, n)
  PROVE  Writes(s, m, n, 0, Count(Tcp, s))
<1>1. Tokens(s) = s
  BY TokensIs, TokensNotPacks, WithoutNone
<1>2. s \in Seq(CallSet)
  BY TokensNotPacks
<1>3. Count(BeginPack, s) = 0 /\ Count(EndPack, s) = 0
  <2>1. BeginPack \notin TokenSet /\ EndPack \notin TokenSet
    BY TokensNotPacks DEF Packs
  <2> QED BY <2>1, CountNone
<1> QED BY <1>1, <1>2, <1>3 DEF Writes

LEMMA FlatTokens ==
  /\ FlatToken \subseteq TokenSet /\ ScalarToken \subseteq FlatToken
  /\ \A c \in FlatToken : c # Tcp /\ ~Opens(c) /\ ~Closes(c)
  /\ \A c \in FlatToken, m \in 2 .. 3 : After(c, m) = m /\ Fits(c, m)
  /\ \A c \in ScalarToken, m \in 2 .. 5 : After(c, m) = m /\ Fits(c, m)
  /\ \A c \in ScalarToken : After(c, 6) = 5 /\ Fits(c, 6)
<1>1. ASSUME NEW c \in StringToken PROVE c.t = "String" /\ c # Tcp
  BY DEF StringToken, Tcp, Property
<1>2. ASSUME NEW c \in PropertyToken PROVE c.t = "PropertyName"
  BY DEF PropertyToken
<1>3. ASSUME NEW c \in IntegerToken PROVE c.t = "Integer" /\ c # Tcp
  BY DEF IntegerToken, Tcp, Property
<1>4. \A c \in FlatToken : c.t \in {"String", "PropertyName", "Integer"} /\ c # Tcp
  BY <1>1, <1>2, <1>3 DEF FlatToken
<1>5. \A c \in ScalarToken : c.t \in {"String", "Integer"}
  BY <1>1, <1>3 DEF ScalarToken
<1>6. FlatToken \subseteq TokenSet /\ ScalarToken \subseteq FlatToken
  BY DEF FlatToken, ScalarToken, TokenSet
<1>7. \A c \in FlatToken : c # Tcp /\ ~Opens(c) /\ ~Closes(c)
  BY <1>4 DEF Opens, Closes
<1>8. \A c \in FlatToken, m \in 2 .. 3 : After(c, m) = m /\ Fits(c, m)
  BY <1>4 DEF After, Fits, Opens, Closes
<1>9. \A c \in ScalarToken, m \in 2 .. 5 : After(c, m) = m /\ Fits(c, m)
  BY <1>5 DEF After, Fits, Opens, Closes
<1>10. \A c \in ScalarToken : After(c, 6) = 5 /\ Fits(c, 6)
  BY <1>5 DEF After, Fits, Opens, Closes
<1> QED BY <1>6, <1>7, <1>8, <1>9, <1>10

LEMMA WritesFlat ==
  ASSUME NEW s \in Seq(FlatToken), NEW m \in 2 .. 3
  PROVE  Writes(s, m, m, 0, 0)
<1>1. s \in Seq(TokenSet)
  BY FlatTokens
<1>2. Len(s) \in Nat /\ \A i \in 1 .. Len(s) : s[i] \in FlatToken
  OBVIOUS
<1>3. \A i \in 1 .. Len(s) : After(s[i], m) = m /\ Fits(s[i], m)
  BY <1>2, FlatTokens
<1>4. Nests(s, m, m)
  BY <1>2, <1>3, NestsFlat
<1>5. Count(Tcp, s) = 0
  BY FlatTokens, CountNone
<1> QED BY <1>1, <1>4, <1>5, WritesTokens

LEMMA WritesScalars ==
  ASSUME NEW s \in Seq(ScalarToken), NEW m \in 2 .. 5
  PROVE  Writes(s, m, m, 0, 0)
<1>1. s \in Seq(TokenSet) /\ s \in Seq(FlatToken)
  BY FlatTokens
<1>2. Len(s) \in Nat /\ \A i \in 1 .. Len(s) : s[i] \in ScalarToken
  OBVIOUS
<1>3. \A i \in 1 .. Len(s) : After(s[i], m) = m /\ Fits(s[i], m)
  BY <1>2, FlatTokens
<1>4. Nests(s, m, m)
  BY <1>2, <1>3, NestsFlat
<1>5. Count(Tcp, s) = 0
  BY <1>1, FlatTokens, CountNone
<1> QED BY <1>1, <1>4, <1>5, WritesTokens

\* One token.
LEMMA WritesOne ==
  ASSUME NEW c \in TokenSet, c # Tcp, NEW m \in Nat, NEW n \in Nat, n = After(c, m), Fits(c, m)
  PROVE  Writes(<<c>>, m, n, 0, 0)
<1> DEFINE s == <<c>>
<1>1. s \in Seq(TokenSet) /\ s \in Seq({c})
  OBVIOUS
<1>2. Nests(s, m, n)
  BY NestsOne
<1> HIDE DEF s
<1>3. Count(Tcp, s) = 0
  BY <1>1, CountNone
<1>4. Writes(s, m, n, 0, 0)
  BY <1>1, <1>2, <1>3, WritesTokens
<1> QED BY <1>4 DEF s

LEMMA WritesTcpName ==
  ASSUME NEW m \in 2 .. 3
  PROVE  Writes(<<Tcp>>, m, m, 0, 1)
<1> DEFINE s == <<Tcp>>
<1>0. Tcp \in TokenSet /\ After(Tcp, m) = m /\ Fits(Tcp, m)
  <2>1. Tcp \in PropertyToken
    BY ScalarTokens, WordsHave DEF Tcp
  <2>2. Tcp \in TokenSet
    BY <2>1 DEF TokenSet
  <2>3. Tcp.t = "PropertyName"
    BY DEF Tcp, Property
  <2>4. Fits(Tcp, m) /\ After(Tcp, m) = m
    BY <2>3 DEF Fits, After, Opens, Closes
  <2> QED BY <2>2, <2>4
<1>1. s \in Seq(TokenSet)
  BY <1>0
<1>2. Nests(s, m, m)
  BY <1>0, NestsOne
<1>3. Count(Tcp, s) = 1
  BY CountOne
<1> HIDE DEF s
<1>4. Writes(s, m, m, 0, 1)
  BY <1>1, <1>2, <1>3, WritesTokens
<1> QED BY <1>4 DEF s

LEMMA WritesPack ==
  ASSUME NEW m \in Nat
  PROVE  Writes(<<BeginPack>>, m, m, 1, 0) /\ Writes(<<EndPack>>, m, m, -1, 0)
<1>1. ASSUME NEW c \in Packs
      PROVE  /\ <<c>> \in Seq(CallSet) /\ Tokens(<<c>>) = <<>>
             /\ Count(c, <<c>>) = 1 /\ \A x : x # c => Count(x, <<c>>) = 0
  <2>1. c \in CallSet
    BY DEF CallSet, Packs
  <2>2. <<c>> \in Seq(CallSet) /\ <<c>> \in Seq({c})
    BY <2>1
  <2>3. Tokens(<<c>>) = <<>>
    BY <1>1, <2>1, TokensIs, WithoutOne DEF Piece
  <2>4. ASSUME NEW x, x # c PROVE Count(x, <<c>>) = 0
    <3> DEFINE s == <<c>>
    <3>1. s \in Seq({c})
      BY <2>2
    <3> HIDE DEF s
    <3>2. Count(x, s) = 0
      BY <2>4, <3>1, CountNone
    <3> QED BY <3>2 DEF s
  <2> QED BY <2>2, <2>3, <2>4, CountOne
<1>2. <<>> \in Seq(TokenSet) /\ Nests(<<>>, m, m) /\ Count(Tcp, <<>>) = 0
  BY CountEmpty, NestsEmpty
<1>3. BeginPack \in Packs /\ EndPack \in Packs
  BY DEF Packs
<1>4. Writes(<<BeginPack>>, m, m, 1, 0)
  <2> DEFINE b == <<BeginPack>>
  <2>1. b \in Seq(CallSet) /\ Tokens(b) = <<>> /\ Count(BeginPack, b) = 1 /\ Count(EndPack, b) = 0
    BY <1>1, <1>3, PacksDiffer
  <2> HIDE DEF b
  <2>2. Writes(b, m, m, 1, 0)
    BY <1>2, <2>1 DEF Writes
  <2> QED BY <2>2 DEF b
<1>5. Writes(<<EndPack>>, m, m, -1, 0)
  <2> DEFINE b == <<EndPack>>
  <2>1. b \in Seq(CallSet) /\ Tokens(b) = <<>> /\ Count(BeginPack, b) = 0 /\ Count(EndPack, b) = 1
    BY <1>1, <1>3, PacksDiffer
  <2> HIDE DEF b
  <2>2. Writes(b, m, m, -1, 0)
    BY <1>2, <2>1 DEF Writes
  <2> QED BY <2>2 DEF b
<1> QED BY <1>4, <1>5

LEMMA WritesNothing ==
  ASSUME NEW m \in Nat
  PROVE  Writes(<<>>, m, m, 0, 0)
<1>1. <<>> \in Seq(TokenSet)
  OBVIOUS
<1>2. Writes(<<>>, m, m, 0, Count(Tcp, <<>>))
  BY <1>1, NestsEmpty, WritesTokens
<1> QED BY <1>2, CountEmpty

LEMMA WritesConcat ==
  ASSUME NEW a, NEW b, NEW m, NEW l, NEW n, NEW k1, NEW k2, NEW j1, NEW j2,
         Writes(a, m, l, k1, j1), Writes(b, l, n, k2, j2)
  PROVE  Writes(a \o b, m, n, k1 + k2, j1 + j2)
<1>1. a \in Seq(CallSet) /\ b \in Seq(CallSet)
      /\ Tokens(a) \in Seq(TokenSet) /\ Tokens(b) \in Seq(TokenSet)
  BY DEF Writes
<1>2. Tokens(a \o b) = Tokens(a) \o Tokens(b)
  <2>1. Without(a \o b, Packs) = Without(a, Packs) \o Without(b, Packs)
    BY <1>1, WithoutConcat
  <2> QED BY <2>1, TokensIs
<1>3. a \o b \in Seq(CallSet)
  BY <1>1, Concat
<1>4. Tokens(a) \o Tokens(b) \in Seq(TokenSet)
  BY <1>1, Concat
<1>5. Nests(Tokens(a) \o Tokens(b), m, n)
  BY <1>1, NestsConcat DEF Writes
<1>6. Count(Tcp, Tokens(a) \o Tokens(b)) = j1 + j2
  BY <1>1, CountConcat DEF Writes
<1>7. \A c \in Packs : /\ Count(c, a \o b) = Count(c, a) + Count(c, b)
                       /\ Count(c, a) \in Nat /\ Count(c, b) \in Nat
  BY <1>1, CountConcat, CountType
<1>8. Count(BeginPack, a \o b) - Count(EndPack, a \o b) = k1 + k2
  <2> DEFINE x1 == Count(BeginPack, a)
             x2 == Count(BeginPack, b)
             y1 == Count(EndPack, a)
             y2 == Count(EndPack, b)
  <2>1. /\ Count(BeginPack, a \o b) = x1 + x2 /\ Count(EndPack, a \o b) = y1 + y2
        /\ x1 \in Nat /\ x2 \in Nat /\ y1 \in Nat /\ y2 \in Nat
    BY <1>7 DEF Packs
  <2>2. x1 - y1 = k1 /\ x2 - y2 = k2
    BY DEF Writes
  <2> HIDE DEF x1, x2, y1, y2
  <2> QED BY <2>1, <2>2
<1> QED BY <1>2, <1>3, <1>4, <1>5, <1>6, <1>8 DEF Writes

LEMMA Brackets ==
  /\ StartObject \in TokenSet /\ StartObject # Tcp /\ EndObject \in TokenSet /\ EndObject # Tcp
  /\ StartArray \in TokenSet /\ StartArray # Tcp /\ EndArray \in TokenSet /\ EndArray # Tcp
  /\ \A m \in 1 .. 2 : After(StartObject, m) = m + 1 /\ Fits(StartObject, m)
  /\ \A m \in 2 .. 3 : After(StartArray, m) = m + 1 /\ Fits(StartArray, m)
  /\ After(StartArray, 4) = 6 /\ Fits(StartArray, 4)
  /\ \A m \in 1 .. 4 : After(EndObject, m + 1) = m /\ Fits(EndObject, m + 1)
  /\ \A m \in 0 .. 4 : After(EndArray, m + 1) = m /\ Fits(EndArray, m + 1)
<1>1. /\ StartObject \in TokenSet /\ StartObject # Tcp /\ EndObject \in TokenSet /\ EndObject # Tcp
      /\ StartArray \in TokenSet /\ StartArray # Tcp /\ EndArray \in TokenSet /\ EndArray # Tcp
  BY DEF TokenSet, PlainToken, StartObject, EndObject, StartArray, EndArray, Tcp, Property
<1>2. /\ StartObject.t = "StartObject" /\ EndObject.t = "EndObject"
      /\ StartArray.t = "StartArray" /\ EndArray.t = "EndArray"
  BY DEF StartObject, EndObject, StartArray, EndArray
<1> QED BY <1>1, <1>2 DEF After, Fits, Opens, Closes

LEMMA WritesObject ==
  ASSUME NEW s, NEW m \in 1 .. 2, NEW k \in Int, NEW j \in Int,
         Writes(s, m + 1, m + 1, k, j)
  PROVE  Writes(Object(s), m, m, k, j)
<1>1. m \in Nat /\ m + 1 \in Nat /\ m \in 1 .. 4
  OBVIOUS
<1>2. Writes(<<StartObject>>, m, m + 1, 0, 0) /\ Writes(<<EndObject>>, m + 1, m, 0, 0)
  BY <1>1, Brackets, WritesOne
<1>3. Writes(<<StartObject>> \o s, m, m + 1, 0 + k, 0 + j)
  BY <1>2, WritesConcat
<1>4. Writes((<<StartObject>> \o s) \o <<EndObject>>, m, m, (0 + k) + 0, (0 + j) + 0)
  BY <1>2, <1>3, WritesConcat
<1> QED BY <1>4 DEF Object

LEMMA WritesArray ==
  ASSUME NEW s, NEW m \in 2 .. 3, NEW k \in Int, NEW j \in Int,
         Writes(s, m + 1, m + 1, k, j)
  PROVE  Writes(Array(s), m, m, k, j)
<1>1. m \in Nat /\ m + 1 \in Nat /\ m \in 0 .. 4
  OBVIOUS
<1>2. Writes(<<StartArray>>, m, m + 1, 0, 0) /\ Writes(<<EndArray>>, m + 1, m, 0, 0)
  BY <1>1, Brackets, WritesOne
<1>3. Writes(<<StartArray>> \o s, m, m + 1, 0 + k, 0 + j)
  BY <1>2, WritesConcat
<1>4. Writes((<<StartArray>> \o s) \o <<EndArray>>, m, m, (0 + k) + 0, (0 + j) + 0)
  BY <1>2, <1>3, WritesConcat
<1> QED BY <1>4 DEF Array

LEMMA WritesPacked ==
  ASSUME NEW s, NEW m \in Nat, NEW k \in Int, NEW j \in Int, Writes(s, m, m, k, j)
  PROVE  Writes(Packed(s), m, m, k, j)
<1>1. Writes(<<BeginPack>>, m, m, 1, 0) /\ Writes(<<EndPack>>, m, m, -1, 0)
  BY WritesPack
<1>2. Writes(<<BeginPack>> \o s, m, m, 1 + k, 0 + j)
  BY <1>1, WritesConcat
<1>3. Writes((<<BeginPack>> \o s) \o <<EndPack>>, m, m, (1 + k) + (-1), (0 + j) + 0)
  BY <1>1, <1>2, WritesConcat
<1>4. (1 + k) + (-1) = k /\ (0 + j) + 0 = j
  OBVIOUS
<1> QED BY <1>3, <1>4 DEF Packed

(***************************************************************************)
(* The bytes of a packet.                                                  *)
(***************************************************************************)
LEMMA TwoBytes ==
  ASSUME NEW x \in Byte, NEW y \in Byte
  PROVE  256 * x + y \in U16 /\ 256 * x + y \in Nat
<1>1. x \in Int /\ y \in Int /\ 0 <= x /\ x <= 255 /\ 0 <= y /\ y <= 255
  BY DEF Byte
<1> DEFINE n == 256 * x + y
<1>2. n \in Int /\ 0 <= n /\ n <= 65535
  BY <1>1, SMTT(40)
<1> HIDE DEF n
<1>3. n \in U16 /\ n \in Nat
  BY <1>2, SMTT(40) DEF U16
<1> QED BY <1>3 DEF n

LEMMA PacketBytes ==
  ASSUME NEW q \in Seq(Byte), NEW i \in Nat
  PROVE  /\ i < Len(q) => At(q, i) \in Byte /\ At(q, i) \in Nat
         /\ i + 1 < Len(q) => DerefU16BE(q, i) \in U16 /\ DerefU16BE(q, i) \in Nat
         /\ i + 3 < Len(q) => DerefU32BE(q, i) \in Half
         /\ i + 3 < Len(q) => Part(q, i, 4) \in Quad
<1>1. ASSUME NEW j \in Nat, j < Len(q) PROVE At(q, j) \in Byte /\ At(q, j) \in Nat
  <2>1. j + 1 \in 1 .. Len(q)
    BY <1>1
  <2>2. q[j + 1] \in Byte
    BY <2>1
  <2>3. \A x \in Byte : x \in Nat
    BY DEF Byte
  <2> QED BY <2>2, <2>3, Zenon DEF At
<1>2. ASSUME NEW j \in Nat, j + 1 < Len(q) PROVE DerefU16BE(q, j) \in U16 /\ DerefU16BE(q, j) \in Nat
  <2>1. At(q, j) \in Byte /\ At(q, j + 1) \in Byte
    BY <1>1, <1>2
  <2> QED BY <2>1, TwoBytes DEF DerefU16BE
<1>3. ASSUME i + 3 < Len(q) PROVE DerefU32BE(q, i) \in Half
  <2>1. DerefU16BE(q, i) \in Int /\ DerefU16BE(q, i + 2) \in U16
    BY <1>2, <1>3
  <2> QED BY <2>1, HalfIs DEF DerefU32BE
<1>4. ASSUME i + 3 < Len(q) PROVE Part(q, i, 4) \in Quad
  <2>1. SubSeq(q, i + 1, i + 4) \in Seq(Byte) /\ Len(SubSeq(q, i + 1, i + 4)) = 4
    BY <1>4
  <2> QED BY <2>1 DEF Part, Quad
<1> QED BY <1>1, <1>2, <1>3, <1>4

\* The flat tokens the serializer writes.
LEMMA FlatCalls ==
  /\ \A w \in Words : w # "tcp" => Property(w) \in FlatToken
  /\ \A w \in Words : Word(w) \in FlatToken
  /\ \A tb \in Tables, i \in Nat : Entry(tb, i) \in FlatToken
  /\ \A a \in Quad : Address(a) \in FlatToken
  /\ \A x \in Half : Halves(x) \in FlatToken
  /\ \A n \in Nat : Integer(n) \in FlatToken
  /\ \A b \in Seq(Byte) : Text([bytes |-> b]) \in FlatToken
  /\ \A tb \in Tables, i \in Nat : \A named : WriteFriendlyStringOrInt(tb, named, i) \in FlatToken
<1>1. \A w \in Words : w # "tcp" => Property(w) # Tcp
  BY DEF Property, Tcp
<1>2. \A b \in Seq(Byte) : [bytes |-> b] \in StringStr
  BY DEF StringStr
<1>3. \A n \in Nat : Integer(n) \in IntegerToken
  BY IntegerType
<1> QED BY <1>1, <1>2, <1>3, ScalarTokens DEF FlatToken, WriteFriendlyStringOrInt

\* Those of them that are scalars.
LEMMA ScalarCalls ==
  /\ \A w \in Words : Word(w) \in ScalarToken
  /\ \A tb \in Tables, i \in Nat : Entry(tb, i) \in ScalarToken
  /\ \A a \in Quad : Address(a) \in ScalarToken
  /\ \A x \in Half : Halves(x) \in ScalarToken
  /\ \A n \in Nat : Integer(n) \in ScalarToken
  /\ \A b \in Seq(Byte) : Text([bytes |-> b]) \in ScalarToken
<1>1. \A b \in Seq(Byte) : [bytes |-> b] \in StringStr
  BY DEF StringStr
<1>2. \A n \in Nat : Integer(n) \in IntegerToken
  BY IntegerType
<1> QED BY <1>1, <1>2, ScalarTokens DEF ScalarToken

LEMMA FlagsNest ==
  ASSUME NEW tb \in Tables, NEW bits \in Seq(Nat), NEW value, NEW m \in 2 .. 3
  PROVE  Writes(WriteFlags(tb, bits, value), m, m, 0, 0)
<1> DEFINE f == [i \in DOMAIN bits |-> IF Bit(value, bits[i]) THEN <<Entry(tb, bits[i])>> ELSE <<>>]
<1>1. DOMAIN bits = 1 .. Len(bits) /\ Len(bits) \in Nat
  OBVIOUS
<1>2. ASSUME NEW i \in 1 .. Len(bits)
      PROVE  (IF Bit(value, bits[i]) THEN <<Entry(tb, bits[i])>> ELSE <<>>) \in Seq(ScalarToken)
  <2>1. Entry(tb, bits[i]) \in ScalarToken
    BY ScalarCalls
  <2> QED BY <2>1
<1>3. f \in Seq(Seq(ScalarToken))
  BY <1>1, <1>2
<1> HIDE DEF f
<1>4. FlattenSeq(f) \in Seq(ScalarToken)
  BY <1>3, FlattenType
<1>5. Writes(FlattenSeq(f), m + 1, m + 1, 0, 0)
  BY <1>4, WritesScalars
<1>6. Writes(Array(FlattenSeq(f)), m, m, 0, 0)
  BY <1>5, WritesArray
<1> QED BY <1>6 DEF WriteFlags, f

\* Parts one behind the other that change no level.
LEMMA WritesBoth ==
  ASSUME NEW a, NEW b, NEW m, Writes(a, m, m, 0, 0), Writes(b, m, m, 0, 0)
  PROVE  Writes(a \o b, m, m, 0, 0)
<1>1. Writes(a \o b, m, m, 0 + 0, 0 + 0)
  BY WritesConcat
<1> QED BY <1>1

IsPacket(q) == q \in Seq(Byte) /\ Len(q) >= 20 /\ ihl(q) >= 5

LEMMA IpHeaderNests ==
  ASSUME IsPacket(packet)
  PROVE  Writes(WriteIpHeader, 2, 2, 0, 0)
<1> DEFINE frag_off == DerefU16BE(packet, 6)
           a0 == <<Property("version")>>
           a1 == <<Integer(At(packet, 0) \div 16), Property("tos"), Integer(At(packet, 1)),
                   Property("id"), Integer(DerefU16BE(packet, 4)), Property("flags")>>
           a2 == WriteFlags("ipFlag", <<14, 13>>, frag_off)
           a3 == <<Property("fragmentOffset")>>
           a4 == <<Integer(frag_off % 8192), Property("ttl"), Integer(At(packet, 8)),
                   Property("protocol"),
                   WriteFriendlyStringOrInt("protocol", kProtocolNames, protocol(packet))>>
           a5 == <<Property("source")>>
           a6 == <<Address(Part(packet, 12, 4)),
                   Property("destination"), Address(Part(packet, 16, 4))>>
<1>1. /\ At(packet, 0) \in Nat /\ At(packet, 1) \in Nat /\ DerefU16BE(packet, 4) \in Nat
      /\ frag_off \in Nat /\ At(packet, 8) \in Nat /\ protocol(packet) \in Nat
      /\ Part(packet, 12, 4) \in Quad /\ Part(packet, 16, 4) \in Quad
  BY PacketBytes DEF IsPacket, protocol
<1>2. At(packet, 0) \div 16 \in Nat /\ frag_off % 8192 \in Nat
  BY <1>1
<1>3. a0 \in Seq(FlatToken) /\ a3 \in Seq(FlatToken) /\ a5 \in Seq(FlatToken)
  BY FlatCalls, WordsHave
<1>4. a1 \in Seq(FlatToken)
  BY <1>1, <1>2, FlatCalls, WordsHave, SMTT(40)
<1>5. a4 \in Seq(FlatToken)
  BY <1>1, <1>2, FlatCalls, WordsHave, TablesHave, SMTT(40)
<1>6. a6 \in Seq(FlatToken)
  BY <1>1, FlatCalls, WordsHave
<1>7. Writes(a2, 3, 3, 0, 0)
  <2> DEFINE bits == <<14, 13>>
  <2>1. bits \in Seq(Nat)
    OBVIOUS
  <2> HIDE DEF bits
  <2>2. Writes(WriteFlags("ipFlag", bits, frag_off), 3, 3, 0, 0)
    BY <2>1, FlagsNest, TablesHave
  <2> QED BY <2>2 DEF bits
<1> HIDE DEF frag_off, a0, a1, a2, a3, a4, a5, a6
<1>8. /\ Writes(a0, 3, 3, 0, 0) /\ Writes(a1, 3, 3, 0, 0) /\ Writes(a3, 3, 3, 0, 0)
      /\ Writes(a4, 3, 3, 0, 0) /\ Writes(a5, 3, 3, 0, 0) /\ Writes(a6, 3, 3, 0, 0)
  BY <1>3, <1>4, <1>5, <1>6, WritesFlat
<1>9. Writes(Packed(a1 \o a2), 3, 3, 0, 0)
  <2>1. Writes(a1 \o a2, 3, 3, 0, 0)
    BY <1>7, <1>8, WritesBoth
  <2> QED BY <2>1, WritesPacked
<1>10. Writes(Packed(a4), 3, 3, 0, 0) /\ Writes(Packed(a6), 3, 3, 0, 0)
  BY <1>8, WritesPacked
<1>11. Writes(a0 \o Packed(a1 \o a2) \o a3 \o Packed(a4) \o a5 \o Packed(a6), 3, 3, 0, 0)
  BY <1>8, <1>9, <1>10, WritesBoth
<1>12. Writes(Object(a0 \o Packed(a1 \o a2) \o a3 \o Packed(a4) \o a5 \o Packed(a6)), 2, 2, 0, 0)
  BY <1>11, WritesObject
<1> QED BY <1>12 DEF WriteIpHeader, frag_off, a0, a1, a2, a3, a4, a5, a6

\* A second header that is all there.
LEMMA Header2There ==
  ASSUME IsPacket(packet)
  PROVE  /\ h \in Nat /\ h >= 20 /\ protocol(packet) \in Nat
         /\ HasHeader2 /\ protocol(packet) = kProtocolTcp => Len(packet) >= h + 20
         /\ HasHeader2 /\ protocol(packet) # kProtocolTcp => Len(packet) >= h + 8
         /\ HasHeader2 => protocol(packet) \in {kProtocolTcp, kProtocolUdp, kProtocolIcmp}
<1>1. Len(packet) \in Nat /\ At(packet, 0) \in Nat /\ protocol(packet) \in Nat
  BY PacketBytes DEF IsPacket, protocol
<1>2. ihl(packet) \in Nat /\ ihl(packet) >= 5
  BY <1>1 DEF IsPacket, ihl
<1>3. h \in Nat /\ h >= 20
  BY <1>2 DEF h
<1>4. HasHeader2 => protocol(packet) \in {kProtocolTcp, kProtocolUdp, kProtocolIcmp}
  BY DEF HasHeader2
<1>5. HasHeader2 /\ protocol(packet) = kProtocolTcp => Len(packet) >= h + 20
  BY DEF HasHeader2, Header2Size, kProtocolTcp, kProtocolUdp, kProtocolIcmp
<1>6. HasHeader2 /\ protocol(packet) # kProtocolTcp => Len(packet) >= h + 8
  BY DEF HasHeader2, Header2Size, kProtocolTcp, kProtocolUdp, kProtocolIcmp
<1> QED BY <1>1, <1>3, <1>4, <1>5, <1>6

LEMMA UdpHeaderNests ==
  ASSUME IsPacket(packet), Len(packet) >= h + 8
  PROVE  Writes(<<Property("udp")>> \o WriteUdpHeader, 2, 2, 0, 0)
<1> DEFINE a0 == <<Property("udp")>>
           a1 == <<Property("sourcePort"), Integer(DerefU16BE(packet, h)),
                   Property("destPort"), Integer(DerefU16BE(packet, h + 2))>>
<1>1. h \in Nat /\ h + 2 \in Nat /\ Len(packet) \in Nat /\ packet \in Seq(Byte)
  BY Header2There DEF IsPacket
<1>2. DerefU16BE(packet, h) \in Nat /\ DerefU16BE(packet, h + 2) \in Nat
  BY <1>1, PacketBytes
<1>3. a0 \in Seq(FlatToken) /\ a1 \in Seq(FlatToken)
  BY <1>2, FlatCalls, WordsHave
<1> HIDE DEF a0, a1
<1>4. Writes(a0, 2, 2, 0, 0) /\ Writes(a1, 3, 3, 0, 0)
  BY <1>3, WritesFlat
<1>5. Writes(Object(a1), 2, 2, 0, 0)
  BY <1>4, WritesObject
<1>6. Writes(a0 \o Object(a1), 2, 2, 0, 0)
  BY <1>4, <1>5, WritesBoth
<1> QED BY <1>6 DEF WriteUdpHeader, a0, a1

LEMMA IcmpHeaderNests ==
  ASSUME IsPacket(packet), Len(packet) >= h + 8
  PROVE  Writes(<<Property("icmp")>> \o WriteIcmpHeader, 2, 2, 0, 0)
<1> DEFINE type == At(packet, h)
           a0 == <<Property("icmp")>>
           a1 == <<Property("type")>>
           a2 == <<WriteFriendlyStringOrInt("icmpType", kIcmpTypeNames, type),
                   Property("code"), WriteIcmpCode(type, At(packet, h + 1))>>
           b1 == <<Property("identifier")>>
           b2 == <<Integer(DerefU16BE(packet, h + 4)),
                   Property("sequenceNumber"), Integer(DerefU16BE(packet, h + 6))>>
           b3 == <<Property("nextHopMtu"), Integer(DerefU16BE(packet, h + 6))>>
           b4 == <<Property("gateway"), Address(Part(packet, h + 4, 4))>>
           a3 == CASE type \in IcmpEchoLike -> b1 \o Packed(b2)
                   [] type = ICMP_DEST_UNREACH -> b3
                   [] type = ICMP_REDIRECT -> b4
                   [] OTHER -> <<>>
<1>1. /\ h \in Nat /\ h + 1 \in Nat /\ h + 4 \in Nat /\ h + 6 \in Nat
      /\ Len(packet) \in Nat /\ packet \in Seq(Byte)
      /\ (h + 4) + 1 < Len(packet) /\ (h + 6) + 1 < Len(packet) /\ (h + 4) + 3 < Len(packet)
      /\ h < Len(packet) /\ h + 1 < Len(packet)
  BY Header2There DEF IsPacket
<1>2. type \in Nat /\ At(packet, h + 1) \in Nat
  BY <1>1, PacketBytes
<1>3. DerefU16BE(packet, h + 4) \in Nat /\ DerefU16BE(packet, h + 6) \in Nat
  BY <1>1, PacketBytes
<1>4. Part(packet, h + 4, 4) \in Quad
  BY <1>1, PacketBytes
<1> HIDE DEF type
<1>5. WriteIcmpCode(type, At(packet, h + 1)) \in FlatToken
  BY <1>2, FlatCalls, TablesHave DEF WriteIcmpCode
<1>6. a2 \in Seq(FlatToken)
  BY <1>2, <1>5, FlatCalls, WordsHave, TablesHave
<1>7. a0 \in Seq(FlatToken) /\ a1 \in Seq(FlatToken) /\ b1 \in Seq(FlatToken)
  BY FlatCalls, WordsHave
<1>8. b2 \in Seq(FlatToken) /\ b3 \in Seq(FlatToken)
  BY <1>3, FlatCalls, WordsHave
<1>9. b4 \in Seq(FlatToken)
  BY <1>4, FlatCalls, WordsHave
<1> HIDE DEF a0, a1, a2, b1, b2, b3, b4
<1>10. Writes(a0, 2, 2, 0, 0) /\ Writes(a1, 3, 3, 0, 0) /\ Writes(a2, 3, 3, 0, 0)
  BY <1>6, <1>7, WritesFlat
<1>11. /\ Writes(b1, 3, 3, 0, 0) /\ Writes(b2, 3, 3, 0, 0)
       /\ Writes(b3, 3, 3, 0, 0) /\ Writes(b4, 3, 3, 0, 0)
  BY <1>7, <1>8, <1>9, WritesFlat
<1>12. Writes(Packed(a2), 3, 3, 0, 0) /\ Writes(Packed(b2), 3, 3, 0, 0)
  BY <1>10, <1>11, WritesPacked
<1>13. Writes(b1 \o Packed(b2), 3, 3, 0, 0) /\ Writes(<<>>, 3, 3, 0, 0)
  BY <1>11, <1>12, WritesBoth, WritesNothing
<1>14. Writes(a3, 3, 3, 0, 0)
  BY <1>11, <1>13
<1> HIDE DEF a3
<1>15. Writes((a1 \o Packed(a2)) \o a3, 3, 3, 0, 0)
  BY <1>10, <1>12, <1>14, WritesBoth
<1>16. Writes(Object((a1 \o Packed(a2)) \o a3), 2, 2, 0, 0)
  BY <1>15, WritesObject
<1>17. Writes(a0 \o Object((a1 \o Packed(a2)) \o a3), 2, 2, 0, 0)
  BY <1>10, <1>16, WritesBoth
<1> QED BY <1>17 DEF WriteIcmpHeader, type, a0, a1, a2, a3, b1, b2, b3, b4

LEMMA ThreeElements ==
  ASSUME NEW S, NEW a \in S, NEW b \in S, NEW c \in S
  PROVE  <<a, b, c>> = <<a, b>> \o <<c>>
<1> DEFINE l == <<a, b, c>>
           p1 == <<a, b>>
           p2 == <<c>>
<1>1. l \in Seq(S) /\ Len(l) = 3 /\ l[1] = a /\ l[2] = b /\ l[3] = c
  OBVIOUS
<1>2. p1 \in Seq(S) /\ Len(p1) = 2 /\ p1[1] = a /\ p1[2] = b
      /\ p2 \in Seq(S) /\ Len(p2) = 1 /\ p2[1] = c
  OBVIOUS
<1> HIDE DEF l, p1, p2
<1>3. p1 \o p2 \in Seq(S) /\ Len(p1 \o p2) = 3
      /\ (p1 \o p2)[1] = a /\ (p1 \o p2)[2] = b /\ (p1 \o p2)[3] = c
  <2>1. /\ p1 \o p2 \in Seq(S) /\ Len(p1 \o p2) = Len(p1) + Len(p2)
        /\ \A i \in 1 .. Len(p1) : (p1 \o p2)[i] = p1[i]
        /\ \A i \in (Len(p1) + 1) .. (Len(p1) + Len(p2)) : (p1 \o p2)[i] = p2[i - Len(p1)]
    BY <1>2, Concat, ConcatAt
  <2>2. 1 \in 1 .. 2 /\ 2 \in 1 .. 2 /\ 3 \in (2 + 1) .. (2 + 1) /\ 3 - 2 = 1 /\ 2 + 1 = 3
    OBVIOUS
  <2> QED BY <1>2, <2>1, <2>2
<1>4. ASSUME NEW i \in 1 .. Len(l) PROVE l[i] = (p1 \o p2)[i]
  BY <1>1, <1>3
<1>5. l = p1 \o p2
  BY <1>1, <1>3, <1>4, SeqEqual
<1> QED BY <1>5 DEF l, p1, p2

LEMMA InCallSet ==
  /\ BeginPack \in CallSet /\ EndPack \in CallSet
  /\ StartObject \in CallSet /\ EndObject \in CallSet
  /\ StartArray \in CallSet /\ EndArray \in CallSet
  /\ \A w \in Words : Property(w) \in CallSet
BY ScalarTokens DEF CallSet, TokenSet, PlainToken

\* The single calls.
LEMMA SingleCalls ==
  ASSUME NEW m \in Nat
  PROVE  /\ m \in 1 .. 2 => Writes(<<StartObject>>, m, m + 1, 0, 0)
         /\ m \in 1 .. 4 => Writes(<<EndObject>>, m + 1, m, 0, 0)
         /\ m \in 2 .. 3 => Writes(<<StartArray>>, m, m + 1, 0, 0)
         /\ m \in 0 .. 4 => Writes(<<EndArray>>, m + 1, m, 0, 0)
         /\ m \in 2 .. 3 => \A w \in Words : w # "tcp" => Writes(<<Property(w)>>, m, m, 0, 0)
<1>4. ASSUME m \in 2 .. 3, NEW w \in Words, w # "tcp" PROVE Writes(<<Property(w)>>, m, m, 0, 0)
  <2> DEFINE s == <<Property(w)>>
  <2>1. s \in Seq(FlatToken)
    BY <1>4, FlatCalls
  <2> HIDE DEF s
  <2>2. Writes(s, m, m, 0, 0)
    BY <1>4, <2>1, WritesFlat
  <2> QED BY <2>2 DEF s
<1> QED BY <1>4, Brackets, WritesOne

LEMMA TcpFieldsNest ==
  ASSUME IsPacket(packet), Len(packet) >= h + 20
  PROVE  Writes(WriteTcpFields, 3, 3, 1, 0)
<1> DEFINE a0 == <<Property("sourcePort")>>
           a1 == <<Integer(DerefU16BE(packet, h)),
                   Property("destPort"), Integer(DerefU16BE(packet, h + 2))>>
           a2 == <<Property("seqNumber")>>
           a3 == <<Halves(DerefU32BE(packet, h + 4))>>
           b3 == <<Property("ackNumber"), Halves(DerefU32BE(packet, h + 8))>>
           a4 == <<Property("flags"), BeginPack>>
           bits == <<5, 4, 3, 2, 1, 0>>
           a5 == <<Property("windowSize")>>
           a6 == <<Integer(DerefU16BE(packet, h + 14))>>
           b6 == <<Property("urgentPointer"), Integer(DerefU16BE(packet, h + 18))>>
<1>1. /\ h \in Nat /\ h + 2 \in Nat /\ h + 4 \in Nat /\ h + 8 \in Nat /\ h + 14 \in Nat
      /\ h + 18 \in Nat /\ Len(packet) \in Nat /\ packet \in Seq(Byte)
      /\ h + 1 < Len(packet) /\ (h + 2) + 1 < Len(packet) /\ (h + 4) + 3 < Len(packet)
      /\ (h + 8) + 3 < Len(packet) /\ (h + 14) + 1 < Len(packet) /\ (h + 18) + 1 < Len(packet)
  <2>1. h \in Nat /\ Len(packet) \in Nat /\ packet \in Seq(Byte)
    BY Header2There DEF IsPacket
  <2>2. Len(packet) >= h + 20
    OBVIOUS
  <2> DEFINE n == Len(packet)
  <2> HIDE DEF n
  <2>3. \A a, b \in Nat : b >= a + 20 =>
          /\ a + 2 \in Nat /\ a + 4 \in Nat /\ a + 8 \in Nat /\ a + 14 \in Nat /\ a + 18 \in Nat
          /\ a + 1 < b /\ (a + 2) + 1 < b /\ (a + 4) + 3 < b
          /\ (a + 8) + 3 < b /\ (a + 14) + 1 < b /\ (a + 18) + 1 < b
    OBVIOUS
  <2> QED BY <2>1, <2>2, <2>3
<1>2. /\ DerefU16BE(packet, h) \in Nat /\ DerefU16BE(packet, h + 2) \in Nat
      /\ DerefU16BE(packet, h + 14) \in Nat /\ DerefU16BE(packet, h + 18) \in Nat
  BY <1>1, PacketBytes
<1>3. DerefU32BE(packet, h + 4) \in Half /\ DerefU32BE(packet, h + 8) \in Half
  BY <1>1, PacketBytes
<1>4. a0 \in Seq(FlatToken) /\ a2 \in Seq(FlatToken) /\ a5 \in Seq(FlatToken)
  BY FlatCalls, WordsHave
<1>5. a1 \in Seq(FlatToken) /\ a6 \in Seq(FlatToken) /\ b6 \in Seq(FlatToken)
  BY <1>2, FlatCalls, WordsHave
<1>6. a3 \in Seq(FlatToken) /\ b3 \in Seq(FlatToken)
  BY <1>3, FlatCalls, WordsHave
<1>7. bits \in Seq(Nat)
  OBVIOUS
<1>8. a4 = <<Property("flags")>> \o <<BeginPack>>
  BY InCallSet, WordsHave, TwoElements
<1>9. Writes(<<Property("flags")>>, 3, 3, 0, 0) /\ Writes(<<BeginPack>>, 3, 3, 1, 0)
  <2>1. 3 \in Nat /\ 3 \in 2 .. 3 /\ "flags" \in Words /\ "flags" # "tcp"
    BY WordsHave
  <2>2. Writes(<<Property("flags")>>, 3, 3, 0, 0)
    BY <2>1, SingleCalls
  <2>3. Writes(<<BeginPack>>, 3, 3, 1, 0)
    BY <2>1, WritesPack
  <2> QED BY <2>2, <2>3
<1>10. Writes(a4, 3, 3, 0 + 1, 0 + 0)
  <2> HIDE DEF a4
  <2> QED BY <1>8, <1>9, WritesConcat
<1> HIDE DEF a0, a1, a2, a3, b3, a4, bits, a5, a6, b6
<1>11. /\ Writes(a0, 3, 3, 0, 0) /\ Writes(a1, 3, 3, 0, 0) /\ Writes(a2, 3, 3, 0, 0)
       /\ Writes(a3, 3, 3, 0, 0) /\ Writes(b3, 3, 3, 0, 0) /\ Writes(a5, 3, 3, 0, 0)
       /\ Writes(a6, 3, 3, 0, 0) /\ Writes(b6, 3, 3, 0, 0)
  BY <1>4, <1>5, <1>6, WritesFlat
<1> DEFINE c3 == IF ack THEN b3 ELSE <<>>
           c6 == IF urg THEN b6 ELSE <<>>
<1>12. Writes(c3, 3, 3, 0, 0) /\ Writes(c6, 3, 3, 0, 0)
  BY <1>11, WritesNothing
<1> HIDE DEF c3, c6
<1>13. Writes(a3 \o c3, 3, 3, 0, 0) /\ Writes(a6 \o c6, 3, 3, 0, 0)
  BY <1>11, <1>12, WritesBoth
<1>14. /\ Writes(Packed(a1), 3, 3, 0, 0) /\ Writes(Packed(a3 \o c3), 3, 3, 0, 0)
       /\ Writes(Packed(a6 \o c6), 3, 3, 0, 0)
  BY <1>11, <1>13, WritesPacked
<1>15. Writes(((a0 \o Packed(a1)) \o a2) \o Packed(a3 \o c3), 3, 3, 0, 0)
  BY <1>11, <1>14, WritesBoth
<1>16. Writes(WriteFlags("tcpFlag", bits, tcp_flags), 3, 3, 0, 0)
  BY <1>7, FlagsNest, TablesHave
<1> DEFINE A == ((a0 \o Packed(a1)) \o a2) \o Packed(a3 \o c3)
           F == WriteFlags("tcpFlag", bits, tcp_flags)
           B == Packed(a6 \o c6)
           whole == (((A \o a4) \o F) \o a5) \o B
<1>17. whole = WriteTcpFields
  BY DEF WriteTcpFields, a0, a1, a2, a3, b3, a4, bits, a5, a6, b6, c3, c6
<1>18. Writes(A, 3, 3, 0, 0) /\ Writes(F, 3, 3, 0, 0) /\ Writes(B, 3, 3, 0, 0)
  BY <1>14, <1>15, <1>16
<1> HIDE DEF A, F, B
<1>19. Writes(A \o a4, 3, 3, 0 + (0 + 1), 0 + (0 + 0))
  BY <1>10, <1>18, WritesConcat
<1>20. Writes(A \o a4, 3, 3, 1, 0)
  BY <1>19
<1>21. Writes((A \o a4) \o F, 3, 3, 1 + 0, 0 + 0)
  BY <1>18, <1>20, WritesConcat
<1>22. Writes((A \o a4) \o F, 3, 3, 1, 0)
  BY <1>21
<1>23. Writes(((A \o a4) \o F) \o a5, 3, 3, 1 + 0, 0 + 0)
  BY <1>11, <1>22, WritesConcat
<1>24. Writes(((A \o a4) \o F) \o a5, 3, 3, 1, 0)
  BY <1>23
<1>25. Writes(whole, 3, 3, 1 + 0, 0 + 0)
  BY <1>18, <1>24, WritesConcat
<1> HIDE DEF whole
<1> QED BY <1>17, <1>25

(***************************************************************************)
(* The options.                                                            *)
(***************************************************************************)
LEMMA OptionNests ==
  ASSUME NEW type \in Nat, NEW values \in Seq(ScalarToken)
  PROVE  Writes(Option(type, values), 4, 4, 0, 0)
<1> DEFINE e == Entry("tcpOption", type)
           a == <<e>>
<1>1. e \in ScalarToken
  BY ScalarCalls, TablesHave
<1>2. e \in TokenSet /\ e # Tcp /\ After(e, 6) = 5 /\ Fits(e, 6)
  BY <1>1, FlatTokens
<1> HIDE DEF e
<1>3. Writes(a, 6, 5, 0, 0)
  BY <1>2, WritesOne
<1> HIDE DEF a
<1>4. Writes(values, 5, 5, 0, 0)
  BY WritesScalars
<1>5. Writes(<<StartArray>>, 4, 6, 0, 0)
  BY Brackets, WritesOne
<1>6. Writes(<<EndArray>>, 5, 4, 0, 0)
  <2>1. 4 \in Nat /\ 4 \in 0 .. 4 /\ 4 + 1 = 5
    OBVIOUS
  <2> QED BY <2>1, SingleCalls
<1>7. Writes(a \o values, 6, 5, 0 + 0, 0 + 0)
  BY <1>3, <1>4, WritesConcat
<1>8. Writes(<<StartArray>> \o (a \o values), 4, 5, 0 + (0 + 0), 0 + (0 + 0))
  BY <1>5, <1>7, WritesConcat
<1>9. Writes((<<StartArray>> \o (a \o values)) \o <<EndArray>>, 4, 4,
             (0 + (0 + 0)) + 0, (0 + (0 + 0)) + 0)
  BY <1>6, <1>8, WritesConcat
<1>10. Writes((<<StartArray>> \o (a \o values)) \o <<EndArray>>, 4, 4, 0, 0)
  BY <1>9
<1> QED BY <1>10 DEF Option, Array, a, e

LEMMA OptionsEndIn ==
  ASSUME IsPacket(packet), Len(packet) >= h + 20
  PROVE  options_end \in Int /\ options_end <= Len(packet)
<1>1. h \in Nat /\ Len(packet) \in Nat
  BY Header2There DEF IsPacket
<1>2. h + 12 \in Nat /\ h + 12 < Len(packet) /\ packet \in Seq(Byte)
  BY <1>1 DEF IsPacket
<1>3. At(packet, h + 12) \in Nat
  BY <1>2, PacketBytes
<1>4. doff \in Nat
  BY <1>3 DEF doff
<1>5. Greater(20, 4 * doff) \in Nat
  BY <1>4 DEF Greater
<1>6. options_size \in Int /\ options_size <= Len(packet) - h - 20
  BY <1>1, <1>5 DEF options_size, Lesser
<1> QED BY <1>1, <1>6 DEF options_end

LEMMA TcpOptionNests ==
  ASSUME IsPacket(packet), Len(packet) >= h + 20, p \in Nat,
         NEW size \in Nat, p + size <= options_end, NEW type \in Nat
  PROVE  Writes(WriteTcpOption(type, size), 4, 4, 0, 0)
<1>1. options_end \in Int /\ options_end <= Len(packet) /\ packet \in Seq(Byte) /\ Len(packet) \in Nat
  BY OptionsEndIn DEF IsPacket
<1>2. CASE type \notin DOMAIN SizeOfOption \/ size # SizeOfOption[type]
  BY <1>2, WritesNothing DEF WriteTcpOption
<1>3. CASE type \in DOMAIN SizeOfOption /\ size = SizeOfOption[type]
  <2> DEFINE values == CASE type = 2 -> <<Integer(DerefU16BE(packet, p + 2))>>
                         [] type = 3 -> <<Integer(At(packet, p + 2))>>
                         [] type = 4 -> <<>>
                         [] type = 8 -> <<Halves(DerefU32BE(packet, p + 2)),
                                          Halves(DerefU32BE(packet, p + 6))>>
  <2>1. /\ type \in {2, 3, 4, 8}
        /\ type = 2 => size = 4
        /\ type = 3 => size = 3
        /\ type = 8 => size = 10
    BY <1>3 DEF SizeOfOption
  <2>2. p + 2 \in Nat /\ p + 6 \in Nat
    OBVIOUS
  <2>3. ASSUME type = 2 PROVE values \in Seq(ScalarToken)
    <3>1. (p + 2) + 1 < Len(packet)
      BY <1>1, <2>1, <2>3
    <3>2. DerefU16BE(packet, p + 2) \in Nat
      BY <1>1, <2>2, <3>1, PacketBytes
    <3>3. <<Integer(DerefU16BE(packet, p + 2))>> \in Seq(ScalarToken)
      BY <3>2, ScalarCalls
    <3> QED BY <2>3, <3>3
  <2>4. ASSUME type = 3 PROVE values \in Seq(ScalarToken)
    <3>1. p + 2 < Len(packet)
      BY <1>1, <2>1, <2>4
    <3>2. At(packet, p + 2) \in Nat
      BY <1>1, <2>2, <3>1, PacketBytes
    <3>3. <<Integer(At(packet, p + 2))>> \in Seq(ScalarToken)
      BY <3>2, ScalarCalls
    <3> QED BY <2>4, <3>3
  <2>5. ASSUME type = 4 PROVE values \in Seq(ScalarToken)
    <3>1. <<>> \in Seq(ScalarToken)
      OBVIOUS
    <3> QED BY <2>5, <3>1
  <2>6. ASSUME type = 8 PROVE values \in Seq(ScalarToken)
    <3>1. (p + 2) + 3 < Len(packet) /\ (p + 6) + 3 < Len(packet)
      BY <1>1, <2>1, <2>6
    <3>2. DerefU32BE(packet, p + 2) \in Half /\ DerefU32BE(packet, p + 6) \in Half
      BY <1>1, <2>2, <3>1, PacketBytes
    <3>3. <<Halves(DerefU32BE(packet, p + 2)), Halves(DerefU32BE(packet, p + 6))>> \in Seq(ScalarToken)
      BY <3>2, ScalarCalls
    <3> QED BY <2>6, <3>3
  <2>7. values \in Seq(ScalarToken)
    BY <2>1, <2>3, <2>4, <2>5, <2>6
  <2>8. WriteTcpOption(type, size) = Option(type, values)
    BY <1>3 DEF WriteTcpOption
  <2> HIDE DEF values
  <2> QED BY <2>7, <2>8, OptionNests
<1> QED BY <1>2, <1>3

(***************************************************************************)
(* The data.                                                               *)
(***************************************************************************)
\* Every number up to that of the elements of S is that of the elements up
\* to one of them, or up to 0.
LEMMA Ranks ==
  ASSUME NEW n \in Nat, NEW S \in SUBSET (1 .. n)
  PROVE  /\ IsFiniteSet(S) /\ Cardinality(S) \in Nat
         /\ \A k \in 0 .. Cardinality(S) :
              \E e \in S \cup {0} : Cardinality({i \in S : i <= e}) = k
<1> DEFINE Has(A) == \A k \in 0 .. Cardinality(A) :
                       \E e \in A \cup {0} : Cardinality({i \in A : i <= e}) = k
           N == {j \in Nat : \A A \in SUBSET (1 .. j) : Has(A)}
<1>0. ASSUME NEW j \in Nat, NEW A \in SUBSET (1 .. j)
      PROVE  IsFiniteSet(A) /\ Cardinality(A) \in Nat
  <2>1. IsFiniteSet(1 .. j)
    BY FS_Interval
  <2>2. IsFiniteSet(A)
    BY <2>1, FS_Subset
  <2> QED BY <2>2, FS_CardinalityType
<1>1. 0 \in N
  <2>1. ASSUME NEW A \in SUBSET (1 .. 0) PROVE Has(A)
    <3>0. \A i \in 1 .. 0 : FALSE
      OBVIOUS
    <3>1. A = {} /\ {i \in A : i <= 0} = {}
      BY <3>0, Zenon
    <3>2. Cardinality(A) = 0 /\ Cardinality({i \in A : i <= 0}) = 0
      BY <3>1, FS_EmptySet
    <3> QED BY <3>2
  <2> QED BY <2>1
<1>2. ASSUME NEW j \in Nat, j \in N PROVE j + 1 \in N
  <2>1. ASSUME NEW A \in SUBSET (1 .. (j + 1)) PROVE Has(A)
    <3>1. CASE j + 1 \notin A
      <4>1. A \in SUBSET (1 .. j)
        BY <3>1
      <4> QED BY <1>2, <4>1
    <3>2. CASE j + 1 \in A
      <4> DEFINE T == A \ {j + 1}
      <4>1. T \in SUBSET (1 .. j) /\ A = T \cup {j + 1} /\ j + 1 \notin T
        BY <3>2
      <4>2. IsFiniteSet(T) /\ Cardinality(T) \in Nat
        BY <1>0, <4>1
      <4>3. Cardinality(A) = Cardinality(T) + 1
        <5> HIDE DEF T
        <5> QED BY <4>1, <4>2, FS_AddElement
      <4>4. Has(T)
        BY <1>2, <4>1
      <4>5. ASSUME NEW k \in 0 .. Cardinality(T)
            PROVE  \E e \in A \cup {0} : Cardinality({i \in A : i <= e}) = k
        <5>1. PICK e \in T \cup {0} : Cardinality({i \in T : i <= e}) = k
          BY <4>4
        <5>2. e \in A \cup {0} /\ e \in Nat /\ e <= j
          BY <4>1
        <5>3. {i \in T : i <= e} = {i \in A : i <= e}
          BY <4>1, <5>2
        <5> QED BY <5>1, <5>2, <5>3
      <4>6. \E e \in A \cup {0} : Cardinality({i \in A : i <= e}) = Cardinality(A)
        <5>0. \A i \in A : i <= j + 1
          OBVIOUS
        <5>1. {i \in A : i <= j + 1} = A
          BY <5>0, Zenon
        <5> QED BY <3>2, <5>1
      <4>7. \A k \in 0 .. Cardinality(A) : k \in 0 .. Cardinality(T) \/ k = Cardinality(A)
        BY <4>2, <4>3
      <4> QED BY <4>5, <4>6, <4>7
    <3> QED BY <3>1, <3>2
  <2> QED BY <2>1
<1> HIDE DEF N
<1>3. \A j \in Nat : j \in N
  BY <1>1, <1>2, Induct
<1>4. Has(S)
  BY <1>3 DEF N
<1> QED BY <1>0, <1>4

LEMMA SplitType ==
  ASSUME NEW S, NEW s \in Seq(S), NEW ends \in SUBSET (1 .. Len(s))
  PROVE  SplitAt(s, ends) \in Seq(Seq(S))
<1> DEFINE end(k) == CHOOSE e \in ends \cup {0} : Cardinality({i \in ends : i <= e}) = k
           n == Cardinality(ends)
<1>1. Len(s) \in Nat
  OBVIOUS
<1>2. n \in Nat /\ \A k \in 0 .. n : \E e \in ends \cup {0} : Cardinality({i \in ends : i <= e}) = k
  BY <1>1, Ranks
<1>3. ASSUME NEW k \in 0 .. n PROVE end(k) \in 0 .. Len(s)
  <2>1. end(k) \in ends \cup {0}
    BY <1>2
  <2>2. \A e \in ends \cup {0} : e \in 0 .. Len(s)
    BY <1>1
  <2> HIDE DEF end
  <2> QED BY <2>1, <2>2, Zenon
<1> HIDE DEF end
<1>4. ASSUME NEW k \in 1 .. n PROVE SubSeq(s, end(k - 1) + 1, end(k)) \in Seq(S)
  <2>1. k - 1 \in 0 .. n /\ k \in 0 .. n
    BY <1>2
  <2>2. end(k - 1) \in 0 .. Len(s) /\ end(k) \in 0 .. Len(s)
    BY <1>3, <2>1
  <2> QED BY <1>1, <2>2
<1> HIDE DEF n
<1>5. [k \in 1 .. n |-> SubSeq(s, end(k - 1) + 1, end(k))] \in Seq(Seq(S))
  BY <1>2, <1>4
<1> QED BY <1>5 DEF SplitAt, end, n

LEMMA HexCharType ==
  ASSUME NEW b \in Byte
  PROVE  kHexChars(b \div 16) \in Byte /\ kHexChars(b % 16) \in Byte
<1>1. b \in Int /\ 0 <= b /\ b <= 255
  BY DEF Byte
<1>2. b \div 16 \in 0 .. 15 /\ b % 16 \in 0 .. 15
  BY <1>1
<1>3. \A x \in 0 .. 15 : kHexChars(x) \in Byte
  BY DEF kHexChars, Byte
<1> QED BY <1>2, <1>3

LEMMA ByteTuples ==
  /\ <<>> \in Seq(Byte)
  /\ \A a \in Byte : <<a>> \in Seq(Byte)
  /\ \A a, b \in Byte : <<a, b>> \in Seq(Byte)
  /\ \A a, b, c \in Byte : <<a, b, c>> \in Seq(Byte)
  /\ \A a, b, c, d \in Byte : <<a, b, c, d>> \in Seq(Byte)
OBVIOUS

LEMMA ByteNumbers ==
  /\ \A n \in 0 .. 255 : n \in Byte
  /\ Byte \subseteq Nat
BY DEF Byte

LEMMA FormatHexType ==
  ASSUME NEW s \in Seq(Byte)
  PROVE  FormatHex(s) \in Seq(Byte)
<1> DEFINE piece(i) == <<kHexChars(s[i] \div 16), kHexChars(s[i] % 16)>> \o Separator(i, Len(s))
<1>1. Len(s) \in Nat
  OBVIOUS
<1>2. ASSUME NEW i \in 1 .. Len(s) PROVE piece(i) \in Seq(Byte)
  <2> DEFINE a == <<kHexChars(s[i] \div 16), kHexChars(s[i] % 16)>>
  <2>1. s[i] \in Byte
    OBVIOUS
  <2>2. kHexChars(s[i] \div 16) \in Byte /\ kHexChars(s[i] % 16) \in Byte
    BY <2>1, HexCharType
  <2>3. a \in Seq(Byte)
    BY <2>2, ByteTuples
  <2>4. 32 \in Byte /\ 10 \in Byte
    BY ByteNumbers
  <2>5. <<>> \in Seq(Byte) /\ <<32, 32>> \in Seq(Byte) /\ <<10>> \in Seq(Byte) /\ <<32>> \in Seq(Byte)
    BY <2>4, ByteTuples
  <2>6. Separator(i, Len(s)) \in Seq(Byte)
    BY <2>5, Zenon DEF Separator
  <2> HIDE DEF a
  <2>7. a \o Separator(i, Len(s)) \in Seq(Byte)
    BY <2>3, <2>6, Concat
  <2> QED BY <2>7 DEF a
<1> HIDE DEF piece
<1>3. [i \in 1 .. Len(s) |-> piece(i)] \in Seq(Seq(Byte))
  BY <1>1, <1>2
<1>4. FlattenSeq([i \in 1 .. Len(s) |-> piece(i)]) \in Seq(Byte)
  BY <1>3, FlattenType
<1> QED BY <1>4 DEF FormatHex, piece

LEMMA HexLinesType ==
  ASSUME NEW s \in Seq(Byte)
  PROVE  HexLines(s) \in Seq(Seq(Byte))
<1> DEFINE n == (Len(s) + 15) \div 16
           line(i) == FormatHex(SubSeq(s, 16 * i - 15, Lesser(16 * i, Len(s))))
<1>1. Len(s) \in Nat
  OBVIOUS
<1>2. n \in Nat
  BY <1>1
<1>3. ASSUME NEW i \in 1 .. n PROVE line(i) \in Seq(Byte)
  <2>1. i \in Nat /\ i >= 1 /\ i \in Int
    BY <1>2
  <2>2. 16 * i - 15 \in Int /\ 16 * i - 15 >= 1 /\ Lesser(16 * i, Len(s)) \in Int
        /\ Lesser(16 * i, Len(s)) <= Len(s)
    BY <1>1, <2>1 DEF Lesser
  <2>3. SubSeq(s, 16 * i - 15, Lesser(16 * i, Len(s))) \in Seq(Byte)
    <3> DEFINE lo == 16 * i - 15
               hi == Lesser(16 * i, Len(s))
    <3> HIDE DEF lo, hi
    <3>1. lo \in Int /\ lo >= 1 /\ hi \in Int /\ hi <= Len(s)
      BY <2>2 DEF lo, hi
    <3>2. SubSeq(s, lo, hi) \in Seq(Byte)
      BY <1>1, <3>1
    <3> QED BY <3>2 DEF lo, hi
  <2> QED BY <2>3, FormatHexType
<1> HIDE DEF n, line
<1>4. [i \in 1 .. n |-> line(i)] \in Seq(Seq(Byte))
  BY <1>2, <1>3
<1> QED BY <1>4 DEF HexLines, n, line

LEMMA DataNests ==
  ASSUME NEW s \in Seq(Byte)
  PROVE  Writes(<<Property("data")>> \o SerializeBytes(s), 2, 2, 0, 0)
<1> DEFINE text == IsPlainText(s)
           lines == IF text THEN Lines(s) ELSE HexLines(s)
           a0 == <<Property("data")>>
           a1 == <<Property("type"), Word(IF text THEN "text" ELSE "hex"), Property("data")>>
           a2 == [i \in DOMAIN lines |-> Text([bytes |-> lines[i]])]
<1>1. Lines(s) \in Seq(Seq(Byte))
  <2>1. {i \in DOMAIN s : s[i] = 10 \/ i = Len(s)} \in SUBSET (1 .. Len(s))
    OBVIOUS
  <2> QED BY <2>1, SplitType DEF Lines
<1>2. lines \in Seq(Seq(Byte))
  BY <1>1, HexLinesType
<1>3. a0 \in Seq(FlatToken) /\ a1 \in Seq(FlatToken)
  BY FlatCalls, WordsHave
<1> HIDE DEF lines, text
<1>4. a2 \in Seq(ScalarToken)
  <2>1. ASSUME NEW i \in 1 .. Len(lines) PROVE Text([bytes |-> lines[i]]) \in ScalarToken
    <3>1. lines[i] \in Seq(Byte)
      BY <1>2
    <3> QED BY <3>1, ScalarCalls
  <2>2. Len(lines) \in Nat /\ DOMAIN lines = 1 .. Len(lines)
    BY <1>2
  <2> QED BY <2>1, <2>2
<1> HIDE DEF a0, a1, a2
<1>5. Writes(a0, 2, 2, 0, 0) /\ Writes(a1, 3, 3, 0, 0) /\ Writes(a2, 4, 4, 0, 0)
  BY <1>3, <1>4, WritesFlat, WritesScalars
<1>6. Writes(Array(a2), 3, 3, 0, 0)
  BY <1>5, WritesArray
<1>7. Writes(a1 \o Array(a2), 3, 3, 0, 0)
  BY <1>5, <1>6, WritesBoth
<1>8. Writes(Object(a1 \o Array(a2)), 2, 2, 0, 0)
  BY <1>7, WritesObject
<1>9. Writes(a0 \o Object(a1 \o Array(a2)), 2, 2, 0, 0)
  BY <1>5, <1>8, WritesBoth
<1> QED BY <1>9 DEF SerializeBytes, a0, a1, a2, lines, text

(***************************************************************************)
(* The serializer.                                                         *)
(***************************************************************************)
SerializeLevel == IF pc = "options" THEN 4 ELSE IF pc \in {"header2", "data"} THEN 2 ELSE 1

SerializeInv ==
  /\ packet \in Seq(Byte)
  /\ pc \in {"header2", "options", "data"} => IsPacket(packet)
  /\ pc = "options" => Len(packet) >= h + 20 /\ p \in Nat
  /\ calls \in Seq(TokenSet)
  /\ Nests(calls, 1, SerializeLevel)
  /\ pack = Count(Tcp, calls) + (IF pc = "options" THEN 1 ELSE 0)

LEMMA Emits ==
  ASSUME calls \in Seq(TokenSet), pack \in Int, NEW s, Emit(s), NEW l, NEW m, NEW n, NEW k, NEW j,
         Nests(calls, l, m), Writes(s, m, n, k, j)
  PROVE  /\ calls' \in Seq(TokenSet)
         /\ Nests(calls', l, n)
         /\ pack' = pack + k
         /\ Count(Tcp, calls') = Count(Tcp, calls) + j
<1>1. /\ s \in Seq(CallSet) /\ Tokens(s) \in Seq(TokenSet) /\ Nests(Tokens(s), m, n)
      /\ Count(BeginPack, s) - Count(EndPack, s) = k /\ Count(Tcp, Tokens(s)) = j
  BY DEF Writes
<1>2. calls' = calls \o Tokens(s) /\ pack' = pack + Count(BeginPack, s) - Count(EndPack, s)
  BY DEF Emit
<1>3. Count(BeginPack, s) \in Nat /\ Count(EndPack, s) \in Nat
  BY <1>1, CountType
<1>4. pack' = pack + k
  BY <1>1, <1>2, <1>3
<1>5. calls' \in Seq(TokenSet)
  BY <1>1, <1>2, Concat
<1>6. Nests(calls', l, n)
  BY <1>1, <1>2, NestsConcat
<1>7. Count(Tcp, calls') = Count(Tcp, calls) + j
  BY <1>1, <1>2, CountConcat
<1> QED BY <1>4, <1>5, <1>6, <1>7

LEMMA PackTyped ==
  ASSUME SerializeInv
  PROVE  pack \in Int /\ Count(Tcp, calls) \in Nat
<1>1. Count(Tcp, calls) \in Nat
  BY CountType DEF SerializeInv
<1> QED BY <1>1 DEF SerializeInv

\* A step that emits s and goes to another place.
LEMMA EmitsTo ==
  ASSUME SerializeInv, NEW s, NEW n, NEW k \in Int, NEW j \in Nat,
         Emit(s), Writes(s, SerializeLevel, n, k, j),
         n = SerializeLevel',
         k = j + (IF pc' = "options" THEN 1 ELSE 0) - (IF pc = "options" THEN 1 ELSE 0),
         UNCHANGED packet,
         pc' \in {"header2", "options", "data"} => IsPacket(packet),
         pc' = "options" => Len(packet) >= h + 20 /\ p' \in Nat
  PROVE  SerializeInv'
<1>1. calls \in Seq(TokenSet) /\ Nests(calls, 1, SerializeLevel)
  BY DEF SerializeInv
<1>2. pack \in Int /\ Count(Tcp, calls) \in Nat
  BY PackTyped
<1>3. /\ calls' \in Seq(TokenSet) /\ Nests(calls', 1, n) /\ pack' = pack + k
      /\ Count(Tcp, calls') = Count(Tcp, calls) + j
  BY <1>1, <1>2, Emits
<1>4. pack = Count(Tcp, calls) + (IF pc = "options" THEN 1 ELSE 0)
  BY DEF SerializeInv
<1>5. pack' = Count(Tcp, calls') + (IF pc' = "options" THEN 1 ELSE 0)
  <2> DEFINE x == Count(Tcp, calls)
             a == IF pc = "options" THEN 1 ELSE 0
             b == IF pc' = "options" THEN 1 ELSE 0
  <2>1. x \in Nat /\ a \in Nat /\ b \in Nat
    BY <1>2
  <2>2. pack = x + a /\ pack' = pack + k /\ k = j + b - a /\ Count(Tcp, calls') = x + j
    BY <1>3, <1>4
  <2> HIDE DEF x, a, b
  <2>3. pack' = Count(Tcp, calls') + b
    BY <2>1, <2>2
  <2> QED BY <2>3 DEF b
<1>6. packet' \in Seq(Byte)
  BY DEF SerializeInv
<1>7. pc' \in {"header2", "options", "data"} => IsPacket(packet')
  OBVIOUS
<1>8. h' = h /\ Len(packet') = Len(packet)
  BY DEF h
<1>9. pc' = "options" => Len(packet') >= h' + 20 /\ p' \in Nat
  BY <1>8
<1> QED BY <1>3, <1>5, <1>6, <1>7, <1>9 DEF SerializeInv

LEMMA NothingKeeps == SerializeInv /\ SerializeNothing => SerializeInv'
<1> SUFFICES ASSUME SerializeInv, SerializeNothing PROVE SerializeInv'
  OBVIOUS
<1>1. pc = "serialize" /\ pc' = "serialized" /\ UNCHANGED packet /\ Emit(Object(<<>>))
  BY DEF SerializeNothing
<1>2. SerializeLevel = 1 /\ SerializeLevel' = 1
  BY <1>1 DEF SerializeLevel
<1>3. Writes(<<>>, 1 + 1, 1 + 1, 0, 0)
  BY WritesNothing
<1>4. Writes(Object(<<>>), 1, 1, 0, 0)
  BY <1>3, WritesObject
<1> QED BY <1>1, <1>2, <1>4, EmitsTo

LEMMA IpKeeps == SerializeInv /\ SerializeIp => SerializeInv'
<1> SUFFICES ASSUME SerializeInv, SerializeIp PROVE SerializeInv'
  OBVIOUS
<1> DEFINE a == <<StartObject, Property("ip")>>
<1>1. /\ pc = "serialize" /\ pc' = "header2" /\ UNCHANGED packet /\ Emit(a \o WriteIpHeader)
      /\ IsPacket(packet)
  BY DEF SerializeIp, SerializeInv, IsPacket
<1>2. SerializeLevel = 1 /\ SerializeLevel' = 2
  BY <1>1 DEF SerializeLevel
<1>3. a = <<StartObject>> \o <<Property("ip")>>
  BY InCallSet, WordsHave, TwoElements
<1>4. Writes(<<StartObject>>, 1, 2, 0, 0) /\ Writes(<<Property("ip")>>, 2, 2, 0, 0)
  <2>1. 1 \in 1 .. 2 /\ 1 + 1 = 2 /\ 2 \in 2 .. 3 /\ "ip" \in Words /\ "ip" # "tcp"
    BY WordsHave
  <2> QED BY <2>1, SingleCalls
<1> HIDE DEF a
<1>5. Writes(a, 1, 2, 0 + 0, 0 + 0)
  BY <1>3, <1>4, WritesConcat
<1>6. Writes(a, 1, 2, 0, 0) /\ Writes(WriteIpHeader, 2, 2, 0, 0)
  BY <1>1, <1>5, IpHeaderNests
<1>7. Writes(a \o WriteIpHeader, 1, 2, 0 + 0, 0 + 0)
  BY <1>6, WritesConcat
<1>8. Writes(a \o WriteIpHeader, 1, 2, 0, 0)
  BY <1>7
<1> QED BY <1>1, <1>2, <1>8, EmitsTo

LEMMA UdpKeeps == SerializeInv /\ SerializeUdp => SerializeInv'
<1> SUFFICES ASSUME SerializeInv, SerializeUdp PROVE SerializeInv'
  OBVIOUS
<1>1. /\ pc = "header2" /\ pc' = "data" /\ UNCHANGED packet
      /\ Emit(<<Property("udp")>> \o WriteUdpHeader)
      /\ IsPacket(packet) /\ HasHeader2 /\ protocol(packet) # kProtocolTcp
  BY DEF SerializeUdp, SerializeInv, kProtocolTcp, kProtocolUdp
<1>2. SerializeLevel = 2 /\ SerializeLevel' = 2
  BY <1>1 DEF SerializeLevel
<1>3. Writes(<<Property("udp")>> \o WriteUdpHeader, 2, 2, 0, 0)
  BY <1>1, Header2There, UdpHeaderNests
<1> QED BY <1>1, <1>2, <1>3, EmitsTo

LEMMA IcmpKeeps == SerializeInv /\ SerializeIcmp => SerializeInv'
<1> SUFFICES ASSUME SerializeInv, SerializeIcmp PROVE SerializeInv'
  OBVIOUS
<1>1. /\ pc = "header2" /\ pc' = "data" /\ UNCHANGED packet
      /\ Emit(<<Property("icmp")>> \o WriteIcmpHeader)
      /\ IsPacket(packet) /\ HasHeader2 /\ protocol(packet) # kProtocolTcp
  BY DEF SerializeIcmp, SerializeInv, kProtocolTcp, kProtocolIcmp
<1>2. SerializeLevel = 2 /\ SerializeLevel' = 2
  BY <1>1 DEF SerializeLevel
<1>3. Writes(<<Property("icmp")>> \o WriteIcmpHeader, 2, 2, 0, 0)
  BY <1>1, Header2There, IcmpHeaderNests
<1> QED BY <1>1, <1>2, <1>3, EmitsTo

LEMMA SkipKeeps == SerializeInv /\ SkipHeader2 => SerializeInv'
<1> SUFFICES ASSUME SerializeInv, SkipHeader2 PROVE SerializeInv'
  OBVIOUS
<1>1. pc = "header2" /\ pc' = "data" /\ UNCHANGED <<packet, calls, pack, p>>
  BY DEF SkipHeader2
<1>2. SerializeLevel = 2 /\ SerializeLevel' = 2
  BY <1>1 DEF SerializeLevel
<1> QED BY <1>1, <1>2 DEF SerializeInv

LEMMA TcpKeeps == SerializeInv /\ SerializeTcp => SerializeInv'
<1> SUFFICES ASSUME SerializeInv, SerializeTcp PROVE SerializeInv'
  OBVIOUS
<1> DEFINE more == options_size > 0
           a == <<Property("tcp"), StartObject>>
           b == <<Property("options"), BeginPack, StartArray>>
           c == IF more THEN b ELSE <<EndObject>>
           s == (a \o WriteTcpFields) \o c
<1>1. /\ pc = "header2" /\ UNCHANGED packet /\ Emit(s) /\ p' = h + 20
      /\ pc' = (IF more THEN "options" ELSE "data")
      /\ IsPacket(packet) /\ HasHeader2 /\ protocol(packet) = kProtocolTcp
  BY DEF SerializeTcp, SerializeInv
<1>2. Len(packet) >= h + 20 /\ p' \in Nat
  BY <1>1, Header2There
<1>3. Writes(WriteTcpFields, 3, 3, 1, 0)
  BY <1>1, <1>2, TcpFieldsNest
<1>4. a = <<Tcp>> \o <<StartObject>>
  BY InCallSet, WordsHave, TwoElements DEF Tcp
<1>5. b = (<<Property("options")>> \o <<BeginPack>>) \o <<StartArray>>
  <2>1. b = <<Property("options"), BeginPack>> \o <<StartArray>>
    BY InCallSet, WordsHave, ThreeElements
  <2>2. <<Property("options"), BeginPack>> = <<Property("options")>> \o <<BeginPack>>
    BY InCallSet, WordsHave, TwoElements
  <2> HIDE DEF b
  <2> QED BY <2>1, <2>2
<1> HIDE DEF a, b
<1>6. /\ 2 \in 2 .. 3 /\ 3 \in 2 .. 3 /\ 2 \in 1 .. 2 /\ 2 \in 1 .. 4 /\ 2 + 1 = 3 /\ 3 + 1 = 4
      /\ "options" \in Words /\ "options" # "tcp"
  BY WordsHave
<1>7. /\ Writes(<<Tcp>>, 2, 2, 0, 1) /\ Writes(<<StartObject>>, 2, 3, 0, 0)
      /\ Writes(<<EndObject>>, 3, 2, 0, 0) /\ Writes(<<Property("options")>>, 3, 3, 0, 0)
      /\ Writes(<<BeginPack>>, 3, 3, 1, 0) /\ Writes(<<StartArray>>, 3, 4, 0, 0)
  BY <1>6, WritesTcpName, SingleCalls, WritesPack
<1>8. Writes(a, 2, 3, 0 + 0, 1 + 0)
  BY <1>4, <1>7, WritesConcat
<1>9. Writes(a \o WriteTcpFields, 2, 3, (0 + 0) + 1, (1 + 0) + 0)
  BY <1>3, <1>8, WritesConcat
<1>10. Writes(a \o WriteTcpFields, 2, 3, 1, 1)
  BY <1>9
<1>11. Writes(<<Property("options")>> \o <<BeginPack>>, 3, 3, 0 + 1, 0 + 0)
  BY <1>7, WritesConcat
<1>12. Writes(b, 3, 4, (0 + 1) + 0, (0 + 0) + 0)
  BY <1>5, <1>7, <1>11, WritesConcat
<1>13. Writes(b, 3, 4, 1, 0)
  BY <1>12
<1>14. CASE more
  <2>1. c = b /\ pc' = "options"
    BY <1>1, <1>14
  <2> HIDE DEF c
  <2>2. Writes(s, 2, 4, 1 + 1, 1 + 0)
    BY <1>10, <1>13, <2>1, WritesConcat
  <2>3. Writes(s, 2, 4, 2, 1)
    BY <2>2
  <2>4. SerializeLevel = 2 /\ SerializeLevel' = 4
    BY <1>1, <2>1 DEF SerializeLevel
  <2>5. 2 = 1 + (IF pc' = "options" THEN 1 ELSE 0) - (IF pc = "options" THEN 1 ELSE 0)
    BY <1>1, <2>1
  <2> HIDE DEF s
  <2> QED BY <1>1, <1>2, <2>3, <2>4, <2>5, EmitsTo
<1>15. CASE ~more
  <2>1. c = <<EndObject>> /\ pc' = "data"
    BY <1>1, <1>15
  <2> HIDE DEF c
  <2>2. Writes(s, 2, 2, 1 + 0, 1 + 0)
    BY <1>7, <1>10, <2>1, WritesConcat
  <2>3. Writes(s, 2, 2, 1, 1)
    BY <2>2
  <2>4. SerializeLevel = 2 /\ SerializeLevel' = 2
    BY <1>1, <2>1 DEF SerializeLevel
  <2>5. 1 = 1 + (IF pc' = "options" THEN 1 ELSE 0) - (IF pc = "options" THEN 1 ELSE 0)
    BY <1>1, <2>1
  <2> HIDE DEF s
  <2> QED BY <1>1, <1>2, <2>1, <2>3, <2>4, <2>5, EmitsTo
<1> QED BY <1>14, <1>15

LEMMA TakeOptionKeeps == SerializeInv /\ TakeOption => SerializeInv'
<1> SUFFICES ASSUME SerializeInv, TakeOption PROVE SerializeInv'
  OBVIOUS
<1> DEFINE type == At(packet, p)
           size == IF type = 1 THEN 1 ELSE At(packet, p + 1)
           s == IF type = 1 THEN Option(1, <<>>) ELSE WriteTcpOption(type, size)
<1>1. /\ pc = "options" /\ OptionAhead /\ Emit(s) /\ p' = p + size /\ UNCHANGED <<pc, packet>>
  BY DEF TakeOption
<1>2. IsPacket(packet) /\ Len(packet) >= h + 20 /\ p \in Nat /\ packet \in Seq(Byte)
  BY <1>1 DEF SerializeInv
<1>3. options_end \in Int /\ options_end <= Len(packet) /\ Len(packet) \in Nat
  BY <1>2, OptionsEndIn
<1>4. p < options_end /\ (type # 1 => p + 1 < options_end /\ p + At(packet, p + 1) <= options_end)
  BY <1>1 DEF OptionAhead
<1>5. type \in Nat
  <2>1. p < Len(packet)
    BY <1>2, <1>3, <1>4
  <2> QED BY <1>2, <2>1, PacketBytes
<1>6. size \in Nat /\ (type # 1 => p + size <= options_end)
  <2>1. CASE type = 1
    BY <2>1
  <2>2. CASE type # 1
    <3>1. p + 1 < Len(packet) /\ p + 1 \in Nat
      BY <1>2, <1>3, <1>4, <2>2
    <3>2. At(packet, p + 1) \in Nat
      BY <1>2, <3>1, PacketBytes
    <3> QED BY <1>4, <2>2, <3>2
  <2> QED BY <2>1, <2>2
<1> HIDE DEF type, size
<1>7. Writes(s, 4, 4, 0, 0)
  <2>1. <<>> \in Seq(ScalarToken)
    OBVIOUS
  <2>2. Writes(Option(1, <<>>), 4, 4, 0, 0)
    BY <2>1, OptionNests
  <2>3. type # 1 => Writes(WriteTcpOption(type, size), 4, 4, 0, 0)
    BY <1>2, <1>5, <1>6, TcpOptionNests
  <2> QED BY <2>2, <2>3
<1> HIDE DEF s
<1>8. SerializeLevel = 4 /\ SerializeLevel' = 4
  BY <1>1 DEF SerializeLevel
<1>9. p' \in Nat
  BY <1>1, <1>2, <1>6
<1>10. 0 = 0 + (IF pc' = "options" THEN 1 ELSE 0) - (IF pc = "options" THEN 1 ELSE 0)
  BY <1>1
<1> QED BY <1>1, <1>2, <1>7, <1>8, <1>9, <1>10, EmitsTo

LEMMA EndOptionsKeeps == SerializeInv /\ EndOptions => SerializeInv'
<1> SUFFICES ASSUME SerializeInv, EndOptions PROVE SerializeInv'
  OBVIOUS
<1> DEFINE a == IF p < options_end /\ At(packet, p) = 0 THEN Option(0, <<>>) ELSE <<>>
           b == <<EndArray, EndPack, EndObject>>
           s == a \o b
<1>1. pc = "options" /\ pc' = "data" /\ Emit(s) /\ UNCHANGED packet /\ IsPacket(packet)
  BY DEF EndOptions, SerializeInv
<1>2. b = (<<EndArray>> \o <<EndPack>>) \o <<EndObject>>
  <2>1. b = <<EndArray, EndPack>> \o <<EndObject>>
    BY InCallSet, ThreeElements
  <2>2. <<EndArray, EndPack>> = <<EndArray>> \o <<EndPack>>
    BY InCallSet, TwoElements
  <2> HIDE DEF b
  <2> QED BY <2>1, <2>2
<1>3. Writes(a, 4, 4, 0, 0)
  <2>1. <<>> \in Seq(ScalarToken)
    OBVIOUS
  <2>2. Writes(Option(0, <<>>), 4, 4, 0, 0) /\ Writes(<<>>, 4, 4, 0, 0)
    BY <2>1, OptionNests, WritesNothing
  <2> QED BY <2>2
<1> HIDE DEF a, b
<1>4. 2 \in 1 .. 4 /\ 3 \in 0 .. 4 /\ 2 + 1 = 3 /\ 3 + 1 = 4
  OBVIOUS
<1>5. /\ Writes(<<EndArray>>, 4, 3, 0, 0) /\ Writes(<<EndPack>>, 3, 3, -1, 0)
      /\ Writes(<<EndObject>>, 3, 2, 0, 0)
  BY <1>4, SingleCalls, WritesPack
<1>6. Writes(<<EndArray>> \o <<EndPack>>, 4, 3, 0 + (-1), 0 + 0)
  BY <1>5, WritesConcat
<1>7. Writes(b, 4, 2, (0 + (-1)) + 0, (0 + 0) + 0)
  BY <1>2, <1>5, <1>6, WritesConcat
<1>8. Writes(s, 4, 2, 0 + ((0 + (-1)) + 0), 0 + ((0 + 0) + 0))
  BY <1>3, <1>7, WritesConcat
<1>9. Writes(s, 4, 2, -1, 0)
  BY <1>8
<1> HIDE DEF s
<1>10. SerializeLevel = 4 /\ SerializeLevel' = 2
  BY <1>1 DEF SerializeLevel
<1>11. -1 = 0 + (IF pc' = "options" THEN 1 ELSE 0) - (IF pc = "options" THEN 1 ELSE 0)
  BY <1>1
<1>12. -1 \in Int
  OBVIOUS
<1> QED BY <1>1, <1>9, <1>10, <1>11, <1>12, EmitsTo

LEMMA DataKeeps == SerializeInv /\ SerializeData => SerializeInv'
<1> SUFFICES ASSUME SerializeInv, SerializeData PROVE SerializeInv'
  OBVIOUS
<1> DEFINE a == IF Len(packet) > data_offset
                THEN <<Property("data")>> \o SerializeBytes(From(packet, data_offset)) ELSE <<>>
           s == a \o <<EndObject>>
<1>1. pc = "data" /\ pc' = "serialized" /\ Emit(s) /\ UNCHANGED packet /\ IsPacket(packet)
  BY DEF SerializeData, SerializeInv
<1>2. packet \in Seq(Byte) /\ Len(packet) \in Nat /\ h \in Nat
  BY <1>1, Header2There DEF IsPacket
<1>3. data_offset \in Nat
  <2>1. CASE HasHeader2 /\ protocol(packet) = kProtocolTcp
    <3>1. h + 12 \in Nat /\ h + 12 < Len(packet)
      BY <1>1, <1>2, <2>1, Header2There
    <3>2. At(packet, h + 12) \in Nat
      BY <1>2, <3>1, PacketBytes
    <3>3. doff \in Nat
      BY <3>2 DEF doff
    <3>4. data_offset = h + 4 * doff
      BY <2>1 DEF data_offset
    <3> QED BY <1>2, <3>3, <3>4
  <2>2. CASE ~(HasHeader2 /\ protocol(packet) = kProtocolTcp)
    <3>1. data_offset = h + 0 \/ data_offset = h + 8
      BY <2>2 DEF data_offset
    <3> QED BY <1>2, <3>1
  <2> QED BY <2>1, <2>2
<1>4. Writes(a, 2, 2, 0, 0)
  <2>1. From(packet, data_offset) \in Seq(Byte)
    BY <1>2, <1>3 DEF From
  <2>2. Writes(<<Property("data")>> \o SerializeBytes(From(packet, data_offset)), 2, 2, 0, 0)
    BY <2>1, DataNests
  <2>3. Writes(<<>>, 2, 2, 0, 0)
    BY WritesNothing
  <2> QED BY <2>2, <2>3
<1> HIDE DEF a
<1>5. Writes(<<EndObject>>, 2, 1, 0, 0)
  <2>1. 1 \in 1 .. 4 /\ 1 + 1 = 2
    OBVIOUS
  <2> QED BY <2>1, SingleCalls
<1>6. Writes(s, 2, 1, 0 + 0, 0 + 0)
  BY <1>4, <1>5, WritesConcat
<1>7. Writes(s, 2, 1, 0, 0)
  BY <1>6
<1> HIDE DEF s
<1>8. SerializeLevel = 2 /\ SerializeLevel' = 1
  BY <1>1 DEF SerializeLevel
<1> QED BY <1>1, <1>7, <1>8, EmitsTo

LEMMA SerializeKeeps == SerializeInv /\ SerializeStep => SerializeInv'
BY NothingKeeps, IpKeeps, TcpKeeps, TakeOptionKeeps, EndOptionsKeeps, UdpKeeps, IcmpKeeps,
   SkipKeeps, DataKeeps
DEF SerializeStep

(***************************************************************************)
(* The state of the deserializer.                                          *)
(***************************************************************************)
ByteFields == {"version", "tos", "ttl", "protocol", "type", "code", "option"}
AddressFields == {"source", "destination", "gateway", "rest"}
HalfFields == {"seqNumber", "ackNumber", "value1", "value2"}
ShortFields ==
  {"id", "fragmentOffset", "sourcePort", "destPort", "windowSize", "urgentPointer",
   "value", "identifier", "sequenceNumber", "nextHopMtu"}
FieldNames ==
  ByteFields \cup AddressFields \cup HalfFields \cup ShortFields \cup {"flags", "elements"}

\* The values that a field gets.
FieldSet(x) ==
  IF x \in ByteFields THEN Byte
  ELSE IF x \in AddressFields THEN Quad
  ELSE IF x \in HalfFields THEN Half
  ELSE IF x = "flags" THEN SUBSET Nat
  ELSE IF x = "elements" THEN Seq(TokenSet) ELSE U16

Fields ==
  {g \in UNION {[D -> UNION {FieldSet(x) : x \in FieldNames}] : D \in SUBSET FieldNames} :
     \A x \in DOMAIN g : g[x] \in FieldSet(x)}

LEMMA SetField ==
  ASSUME NEW g \in Fields, NEW x \in FieldNames, NEW v \in FieldSet(x)
  PROVE  /\ With(g, x, v) \in Fields
         /\ DOMAIN With(g, x, v) = {x} \cup DOMAIN g
<1> DEFINE V == UNION {FieldSet(y) : y \in FieldNames}
           e == [y \in {x} \cup DOMAIN g |-> IF y = x THEN v ELSE g[y]]
<1>1. With(g, x, v) = e
  BY DEF With
<1>2. PICK D \in SUBSET FieldNames : g \in [D -> V]
  BY DEF Fields
<1>3. \A y \in DOMAIN g : g[y] \in FieldSet(y)
  BY DEF Fields
<1>4. v \in V
  OBVIOUS
<1>5. DOMAIN e = {x} \cup DOMAIN g /\ {x} \cup DOMAIN g \in SUBSET FieldNames
  BY <1>2
<1>6. \A y \in DOMAIN e : e[y] \in V /\ e[y] \in FieldSet(y)
  BY <1>2, <1>3, <1>4
<1>7. e \in [({x} \cup DOMAIN g) -> V]
  BY <1>5, <1>6
<1>8. e \in Fields
  BY <1>5, <1>6, <1>7 DEF Fields
<1> QED BY <1>1, <1>5, <1>8

LEMMA FieldsHave ==
  /\ <<>> \in Fields
  /\ \A g \in Fields : \A x \in DOMAIN g : g[x] \in FieldSet(x)
<1> DEFINE V == UNION {FieldSet(y) : y \in FieldNames}
<1>1. <<>> \in [{} -> V]
  OBVIOUS
<1>2. DOMAIN <<>> = {}
  OBVIOUS
<1>3. {} \in SUBSET FieldNames
  OBVIOUS
<1>4. <<>> \in Fields
  BY <1>1, <1>2, <1>3 DEF Fields
<1> QED BY <1>4 DEF Fields

NoToken == [t |-> "None"]
Strs == StringStr \cup [number : Half] \cup {NoString}
State ==
  [left : Seq(TokenSet), cur : TokenSet \cup {NoToken}, str : Strs, ok : BOOLEAN,
   f : Fields, buf : Seq(Byte), stale : BOOLEAN]

LEMMA StateHas ==
  ASSUME NEW s \in State
  PROVE  /\ s.left \in Seq(TokenSet) /\ s.cur \in TokenSet \cup {NoToken} /\ s.str \in Strs
         /\ s.ok \in BOOLEAN /\ s.f \in Fields /\ s.buf \in Seq(Byte) /\ s.stale \in BOOLEAN
BY DEF State

\* The changes of the state.
Passed(s, b) == [s EXCEPT !.ok = b]
Took(s, c, l, b, x) == [s EXCEPT !.cur = c, !.left = l, !.ok = b, !.str = x]
Filled(s, g) == [s EXCEPT !.f = g]
Buffered(s, b) == [s EXCEPT !.buf = b]
Noted(s, b) == [s EXCEPT !.stale = b]

LEMMA WithOk ==
  ASSUME NEW s \in State, NEW b \in BOOLEAN
  PROVE  LET n == Passed(s, b)
         IN  /\ n \in State /\ n.ok = b /\ n.left = s.left /\ n.cur = s.cur /\ n.str = s.str
             /\ n.f = s.f /\ n.buf = s.buf /\ n.stale = s.stale
BY DEF State, Passed

LEMMA Fails ==
  ASSUME NEW s \in State
  PROVE  Passed(s, FALSE) \in State /\ ~Passed(s, FALSE).ok
BY DEF State, Passed

LEMMA WithToken ==
  ASSUME NEW s \in State, NEW l \in Seq(TokenSet), NEW c \in TokenSet, NEW x \in Strs,
         NEW b \in BOOLEAN
  PROVE  LET n == Took(s, c, l, b, x)
         IN  /\ n \in State /\ n.ok = b /\ n.left = l /\ n.cur = c /\ n.str = x
             /\ n.f = s.f /\ n.buf = s.buf /\ n.stale = s.stale
BY DEF State, Took

LEMMA WithFields ==
  ASSUME NEW s \in State, NEW g \in Fields
  PROVE  LET n == Filled(s, g)
         IN  /\ n \in State /\ n.ok = s.ok /\ n.left = s.left /\ n.cur = s.cur /\ n.str = s.str
             /\ n.f = g /\ n.buf = s.buf /\ n.stale = s.stale
BY DEF State, Filled

LEMMA WithBuf ==
  ASSUME NEW s \in State, NEW b \in Seq(Byte)
  PROVE  LET n == Buffered(s, b)
         IN  /\ n \in State /\ n.ok = s.ok /\ n.left = s.left /\ n.cur = s.cur /\ n.str = s.str
             /\ n.f = s.f /\ n.buf = b /\ n.stale = s.stale
BY DEF State, Buffered

LEMMA WithStale ==
  ASSUME NEW s \in State, NEW b \in BOOLEAN
  PROVE  LET n == Noted(s, b)
         IN  /\ n \in State /\ n.ok = s.ok /\ n.left = s.left /\ n.cur = s.cur /\ n.str = s.str
             /\ n.f = s.f /\ n.buf = s.buf /\ n.stale = b
BY DEF State, Noted

LEMMA ReaderOfState ==
  ASSUME NEW ts \in Seq(TokenSet)
  PROVE  LET n == ReaderOf(ts)
         IN  /\ n \in State /\ n.ok = TRUE /\ n.left = ts /\ n.buf = <<>> /\ n.stale = FALSE
<1>1. <<>> \in Fields /\ <<>> \in Seq(Byte) /\ NoString \in Strs /\ [t |-> "None"] \in TokenSet \cup {NoToken}
  BY FieldsHave DEF Strs, NoToken
<1> QED BY <1>1 DEF ReaderOf, State

\* What a token leaves in str_value_.
LEMMA TokenStr ==
  ASSUME NEW c \in TokenSet, "str" \in DOMAIN c
  PROVE  c.str \in Strs
<1>1. c \in StringToken \/ c \in PropertyToken \/ c \in IntegerToken
  BY TokenKinds
<1>2. c \in StringToken => c.str \in StringStr
  BY DEF StringToken
<1>3. c \in PropertyToken => c.str \in [word : Words]
  BY DEF PropertyToken
<1>4. c \in IntegerToken => c.str \in [number : Half]
  BY DEF IntegerToken
<1>5. [word : Words] \subseteq StringStr
  BY DEF StringStr
<1> QED BY <1>1, <1>2, <1>3, <1>4, <1>5 DEF Strs

HasTable(x) == "table" \in DOMAIN x

LEMMA NoTable ==
  /\ \A x \in [word : Words] : ~HasTable(x)
  /\ \A x \in [number : Half] : ~HasTable(x)
  /\ \A c \in PropertyToken : ~HasTable(c.str)
  /\ \A c \in IntegerToken : ~HasTable(c.str)
<1>1. \A x \in [word : Words] : ~HasTable(x)
  BY DEF HasTable
<1>2. \A x \in [number : Half] : ~HasTable(x)
  BY DEF HasTable
<1>3. \A c \in PropertyToken : c.str \in [word : Words]
  BY DEF PropertyToken
<1>4. \A c \in IntegerToken : c.str \in [number : Half]
  BY DEF IntegerToken
<1> QED BY <1>1, <1>2, <1>3, <1>4

(***************************************************************************)
(* The level of the reader.                                                *)
(***************************************************************************)
\* The tokens in ts may follow at level m.
Open(ts, m) == \E n \in Nat : Nests(ts, m, n)

LEMMA OpenTail ==
  ASSUME NEW ts \in Seq(TokenSet), ts # <<>>, NEW m, Open(ts, m)
  PROVE  /\ After(Head(ts), m) \in Nat
         /\ Fits(Head(ts), m)
         /\ Open(Tail(ts), After(Head(ts), m))
<1>1. PICK n \in Nat : Nests(ts, m, n)
  BY DEF Open
<1>2. /\ After(Head(ts), m) \in Nat /\ Fits(Head(ts), m)
      /\ Nests(Tail(ts), After(Head(ts), m), n)
  BY <1>1, NestsTail
<1> QED BY <1>2 DEF Open

LEMMA FlatStays ==
  ASSUME NEW s, Len(s) \in Nat, NEW m, NEW k, Nests(s, m, k),
         \A i \in 1 .. Len(s) : After(s[i], m) = m
  PROVE  k = m
<1>1. PICK d \in [0 .. Len(s) -> Nat] : Climbs(s, d) /\ d[0] = m /\ d[Len(s)] = k
  BY DEF Nests
<1> DEFINE N == {i \in Nat : i <= Len(s) => d[i] = m}
<1>2. 0 \in N
  BY <1>1
<1>3. ASSUME NEW i \in Nat, i \in N PROVE i + 1 \in N
  <2>1. ASSUME i + 1 <= Len(s) PROVE d[i + 1] = m
    <3>1. d[i] = m /\ i + 1 \in 1 .. Len(s) /\ (i + 1) - 1 = i
      BY <1>3, <2>1
    <3>2. d[i + 1] = After(s[i + 1], d[(i + 1) - 1])
      BY <1>1, <3>1 DEF Climbs
    <3> QED BY <3>1, <3>2
  <2> QED BY <2>1
<1> HIDE DEF N
<1>4. \A i \in Nat : i \in N
  BY <1>2, <1>3, Induct
<1> QED BY <1>1, <1>4 DEF N

LEMMA OpenSkip ==
  ASSUME NEW ts \in Seq(TokenSet), NEW j \in 0 .. Len(ts), NEW m, Open(ts, m),
         \A i \in 1 .. j : After(ts[i], m) = m
  PROVE  Open(SubSeq(ts, j + 1, Len(ts)), m)
<1>1. PICK n \in Nat : Nests(ts, m, n)
  BY DEF Open
<1>2. PICK k \in Nat : Nests(SubSeq(ts, 1, j), m, k) /\ Nests(SubSeq(ts, j + 1, Len(ts)), k, n)
  BY <1>1, NestsCut
<1> DEFINE a == SubSeq(ts, 1, j)
<1>3. Len(a) = j /\ j \in Nat /\ \A i \in 1 .. j : a[i] = ts[i]
  OBVIOUS
<1> HIDE DEF a
<1>4. Nests(a, m, k)
  BY <1>2 DEF a
<1>5. k = m
  BY <1>3, <1>4, FlatStays
<1> QED BY <1>2, <1>5 DEF Open

\* How the types of tokens change the level.
TypeAfter(t, level) == After([t |-> t], level)

LEMMA TypeAfterIs ==
  ASSUME NEW c, NEW level
  PROVE  After(c, level) = TypeAfter(c.t, level)
BY DEF TypeAfter, After, Opens, Closes

LEMMA TypeAfterValues ==
  /\ TypeAfter("StartObject", 1) = 2
  /\ TypeAfter("StartObject", 2) = 3
  /\ TypeAfter("StartArray", 3) = 4
  /\ TypeAfter("StartArray", 4) = 6
  /\ TypeAfter("EndArray", 5) = 4
  /\ TypeAfter("EndArray", 4) = 3
  /\ TypeAfter("EndObject", 3) = 2
  /\ TypeAfter("EndObject", 2) = 1
  /\ \A t \in {"String", "Integer", "PropertyName", "Null"}, m \in 2 .. 5 : TypeAfter(t, m) = m
BY DEF TypeAfter, After, Opens, Closes

(***************************************************************************)
(* The helpers of the deserializer.                                        *)
(***************************************************************************)
\* A helper makes t of s: unless it fails, it has read tokens that lead from
\* level m to level n, and the fields in D are set.
Goes(s, t, m, n, D) ==
  /\ t \in State
  /\ t.ok =>
       /\ s.ok
       /\ D \cup DOMAIN s.f \subseteq DOMAIN t.f
       /\ t.buf = s.buf /\ t.stale = s.stale
       /\ Open(s.left, m) => Open(t.left, n)

LEMMA GoesOn ==
  ASSUME NEW s, NEW t, NEW x, NEW m, NEW l, NEW n, NEW D, NEW E,
         Goes(s, t, m, l, D), Goes(t, x, l, n, E)
  PROVE  Goes(s, x, m, n, D \cup E)
<1>1. x \in State
  BY DEF Goes
<1>2. ASSUME x.ok
      PROVE  /\ s.ok /\ x.buf = s.buf /\ x.stale = s.stale
             /\ Open(s.left, m) => Open(x.left, n)
             /\ (D \cup E) \cup DOMAIN s.f \subseteq DOMAIN x.f
  <2>1. /\ t.ok /\ E \cup DOMAIN t.f \subseteq DOMAIN x.f
        /\ x.buf = t.buf /\ x.stale = t.stale /\ (Open(t.left, l) => Open(x.left, n))
    BY <1>2 DEF Goes
  <2>2. /\ s.ok /\ D \cup DOMAIN s.f \subseteq DOMAIN t.f
        /\ t.buf = s.buf /\ t.stale = s.stale /\ (Open(s.left, m) => Open(t.left, l))
    BY <2>1 DEF Goes
  <2> QED BY <2>1, <2>2, Zenon
<1> QED BY <1>1, <1>2 DEF Goes

LEMMA AdvanceIs ==
  ASSUME NEW s \in State
  PROVE  LET n == Advance(s)
         IN  /\ n \in State
             /\ n.ok => /\ s.ok /\ s.left # <<>>
                        /\ n.cur = Head(s.left) /\ n.cur \in TokenSet /\ n.left = Tail(s.left)
                        /\ n.str = (IF "str" \in DOMAIN n.cur THEN n.cur.str ELSE s.str)
                        /\ n.f = s.f /\ n.buf = s.buf /\ n.stale = s.stale
<1>0. s.left \in Seq(TokenSet) /\ s.str \in Strs /\ s.ok \in BOOLEAN
  BY StateHas
<1>1. CASE ~s.ok \/ s.left = <<>>
  <2>1. Advance(s) = Passed(s, FALSE)
    BY <1>1 DEF Advance, Passed
  <2>2. Advance(s) \in State /\ ~Advance(s).ok
    BY <2>1, Fails
  <2> QED BY <2>2
<1>2. CASE ~(~s.ok \/ s.left = <<>>)
  <2> DEFINE c == Head(s.left)
             l == Tail(s.left)
             x == IF "str" \in DOMAIN c THEN c.str ELSE s.str
             b == c.t # "Error"
  <2>1. c \in TokenSet /\ l \in Seq(TokenSet) /\ b \in BOOLEAN
    BY <1>0, <1>2
  <2>2. x \in Strs
    BY <1>0, <2>1, TokenStr
  <2>3. Advance(s) = Took(s, c, l, b, x)
    BY <1>2 DEF Advance, Took
  <2> HIDE DEF c, l, b
  <2> DEFINE n == Advance(s)
  <2> HIDE DEF n
  <2>5. /\ n \in State /\ n.left = l /\ n.cur = c /\ n.str = x
        /\ n.f = s.f /\ n.buf = s.buf /\ n.stale = s.stale
    <3> HIDE DEF x
    <3>1. n = Took(s, c, l, b, x)
      BY <2>3 DEF n
    <3> QED BY <2>1, <2>2, <3>1, WithToken
  <2>6. n \in State /\ s.ok /\ s.left # <<>> /\ n.cur = Head(s.left) /\ n.cur \in TokenSet
        /\ n.left = Tail(s.left) /\ n.str = (IF "str" \in DOMAIN n.cur THEN n.cur.str ELSE s.str)
        /\ n.f = s.f /\ n.buf = s.buf /\ n.stale = s.stale
    BY <1>2, <2>1, <2>5 DEF c, l
  <2> QED BY <2>6 DEF n
<1> QED BY <1>1, <1>2

\* n is s, but for whether the call has failed.
Same(s, n) ==
  /\ n.left = s.left /\ n.cur = s.cur /\ n.str = s.str
  /\ n.f = s.f /\ n.buf = s.buf /\ n.stale = s.stale

LEMMA ExpectIs ==
  ASSUME NEW s \in State, NEW c
  PROVE  /\ Expect(s, c) \in State
         /\ Expect(s, c).ok => s.ok /\ c
         /\ Same(s, Expect(s, c))
<1>1. Expect(s, c) \in State
  BY DEF Expect, State
<1>2. Expect(s, c).ok => s.ok /\ c
  BY DEF Expect, State
<1>3. Same(s, Expect(s, c))
  BY DEF Expect, State, Same
<1> QED BY <1>1, <1>2, <1>3

LEMMA ExpectCurrentTokenIs ==
  ASSUME NEW s \in State, NEW t
  PROVE  LET n == ExpectCurrentToken(s, t)
         IN  n \in State /\ Same(s, n) /\ (n.ok => s.ok /\ s.cur.t = t)
BY ExpectIs DEF ExpectCurrentToken

LEMMA ExpectCurrentPropertyNameIs ==
  ASSUME NEW s \in State, NEW name
  PROVE  LET n == ExpectCurrentPropertyName(s, name)
         IN  /\ n \in State /\ Same(s, n)
             /\ n.ok => s.ok /\ s.cur.t = "PropertyName" /\ Says(s.str, name)
BY ExpectIs DEF ExpectCurrentPropertyName

LEMMA SameGoes ==
  ASSUME NEW s, NEW n \in State, NEW m, Same(s, n), n.ok => s.ok
  PROVE  Goes(s, n, m, m, {})
BY DEF Same, Goes

\* After a step to the next token, whatever it is.
LEMMA AdvanceGoes ==
  ASSUME NEW s \in State, NEW m, NEW n, LET a == Advance(s) IN a.ok => n = After(a.cur, m)
  PROVE  Goes(s, Advance(s), m, n, {})
<1> DEFINE a == Advance(s)
<1>1. /\ a \in State
      /\ a.ok => /\ s.ok /\ s.left # <<>> /\ a.cur = Head(s.left) /\ a.left = Tail(s.left)
                 /\ a.f = s.f /\ a.buf = s.buf /\ a.stale = s.stale
  BY AdvanceIs
<1>2. s.left \in Seq(TokenSet)
  BY StateHas
<1>3. a.ok => n = After(a.cur, m)
  OBVIOUS
<1> HIDE DEF a
<1>4. ASSUME a.ok, Open(s.left, m) PROVE Open(a.left, n)
  BY <1>1, <1>2, <1>3, <1>4, OpenTail
<1>5. Goes(s, a, m, n, {})
  BY <1>1, <1>4 DEF Goes
<1> QED BY <1>5 DEF a

LEMMA NextTokenGoes ==
  ASSUME NEW s \in State, NEW t, NEW m, NEW n, n = TypeAfter(t, m)
  PROVE  LET x == ExpectNextToken(s, t)
         IN  /\ Goes(s, x, m, n, {})
             /\ x.ok => /\ x.cur \in TokenSet /\ x.cur.t = t
                        /\ x.str = (IF "str" \in DOMAIN x.cur THEN x.cur.str ELSE s.str)
                        /\ x.f = s.f
<1> DEFINE a == Advance(s)
           x == ExpectNextToken(s, t)
<1>1. /\ a \in State
      /\ a.ok => /\ a.cur \in TokenSet /\ a.f = s.f
                 /\ a.str = (IF "str" \in DOMAIN a.cur THEN a.cur.str ELSE s.str)
                 /\ s.ok /\ s.left # <<>> /\ a.cur = Head(s.left) /\ a.left = Tail(s.left)
                 /\ a.buf = s.buf /\ a.stale = s.stale
  BY AdvanceIs
<1>2. s.left \in Seq(TokenSet)
  BY StateHas
<1> HIDE DEF a
<1>3. x \in State /\ Same(a, x) /\ (x.ok => a.ok /\ a.cur.t = t)
  BY <1>1, ExpectCurrentTokenIs DEF ExpectNextToken, a
<1> HIDE DEF x
<1>4. ASSUME x.ok PROVE a.ok /\ x.cur = a.cur /\ x.cur.t = t /\ x.str = a.str /\ x.f = a.f
                         /\ x.left = a.left /\ x.buf = a.buf /\ x.stale = a.stale
  BY <1>3, <1>4 DEF Same
<1>5. ASSUME x.ok, Open(s.left, m) PROVE Open(x.left, n)
  <2>1. Open(Tail(s.left), After(Head(s.left), m))
    BY <1>1, <1>2, <1>4, <1>5, OpenTail
  <2>2. After(a.cur, m) = n
    BY <1>4, <1>5, TypeAfterIs
  <2> QED BY <1>1, <1>4, <1>5, <2>1, <2>2
<1>6. Goes(s, x, m, n, {})
  BY <1>1, <1>3, <1>4, <1>5 DEF Goes
<1>7. x.ok => /\ x.cur \in TokenSet /\ x.cur.t = t
              /\ x.str = (IF "str" \in DOMAIN x.cur THEN x.cur.str ELSE s.str)
              /\ x.f = s.f
  BY <1>1, <1>4
<1> QED BY <1>6, <1>7 DEF x

LEMMA NextNameGoes ==
  ASSUME NEW s \in State, NEW name, NEW m \in 2 .. 5
  PROVE  LET x == ExpectNextPropertyName(s, name)
         IN  /\ Goes(s, x, m, m, {})
             /\ x.ok => x.str \in [word : Words] /\ ~HasTable(x.str)
<1> DEFINE a == Advance(s)
           x == ExpectNextPropertyName(s, name)
<1>1. /\ a \in State
      /\ a.ok => /\ a.cur \in TokenSet
                 /\ a.str = (IF "str" \in DOMAIN a.cur THEN a.cur.str ELSE s.str)
                 /\ s.ok /\ s.left # <<>> /\ a.cur = Head(s.left) /\ a.left = Tail(s.left)
                 /\ a.f = s.f /\ a.buf = s.buf /\ a.stale = s.stale
  BY AdvanceIs
<1>2. s.left \in Seq(TokenSet)
  BY StateHas
<1> HIDE DEF a
<1>3. x \in State /\ Same(a, x) /\ (x.ok => a.ok /\ a.cur.t = "PropertyName")
  BY <1>1, ExpectCurrentPropertyNameIs DEF ExpectNextPropertyName, a
<1> HIDE DEF x
<1>4. ASSUME x.ok PROVE a.ok /\ a.cur.t = "PropertyName" /\ x.str = a.str /\ x.f = a.f
                         /\ x.left = a.left /\ x.buf = a.buf /\ x.stale = a.stale
  BY <1>3, <1>4 DEF Same
<1>5. ASSUME x.ok, Open(s.left, m) PROVE Open(x.left, m)
  <2>1. Open(Tail(s.left), After(Head(s.left), m))
    BY <1>1, <1>2, <1>4, <1>5, OpenTail
  <2>2. After(a.cur, m) = TypeAfter("PropertyName", m)
    BY <1>4, <1>5, TypeAfterIs
  <2>3. TypeAfter("PropertyName", m) = m
    BY TypeAfterValues
  <2> QED BY <1>1, <1>4, <1>5, <2>1, <2>2, <2>3
<1>6. Goes(s, x, m, m, {})
  BY <1>1, <1>3, <1>4, <1>5 DEF Goes
<1>7. ASSUME x.ok PROVE x.str \in [word : Words] /\ ~HasTable(x.str)
  <2>1. a.cur \in PropertyToken /\ "str" \in DOMAIN a.cur
    BY <1>1, <1>4, <1>7, TokenKinds
  <2>2. a.cur.str \in [word : Words]
    BY <2>1 DEF PropertyToken
  <2>3. x.str = a.cur.str
    BY <1>1, <1>4, <1>7, <2>1
  <2> QED BY <2>2, <2>3, NoTable
<1> QED BY <1>6, <1>7 DEF x

LEMMA SetGoes ==
  ASSUME NEW s \in State, NEW name \in FieldNames, NEW v \in FieldSet(name), NEW m
  PROVE  LET x == Set(s, name, v)
         IN  /\ Goes(s, x, m, m, {name})
             /\ x.cur = s.cur /\ x.str = s.str /\ x.left = s.left /\ x.ok = s.ok
             /\ x.stale = s.stale
             /\ x.ok => x.f = With(s.f, name, v)
<1> DEFINE x == Set(s, name, v)
           g == With(s.f, name, v)
<1>0. s.f \in Fields /\ s.ok \in BOOLEAN
  BY StateHas
<1>1. g \in Fields /\ DOMAIN g = {name} \cup DOMAIN s.f
  BY <1>0, SetField
<1>2. CASE s.ok
  <2>1. x = Filled(s, g)
    BY <1>2 DEF Set, Filled
  <2> HIDE DEF x, g
  <2>2. /\ x \in State /\ x.ok = s.ok /\ x.left = s.left /\ x.cur = s.cur /\ x.str = s.str
        /\ x.f = g /\ x.buf = s.buf /\ x.stale = s.stale
    BY <1>1, <2>1, WithFields
  <2>3. Goes(s, x, m, m, {name})
    BY <1>1, <1>2, <2>2 DEF Goes
  <2> QED BY <2>2, <2>3 DEF x, g
<1>3. CASE ~s.ok
  <2>1. x = s
    BY <1>3 DEF Set
  <2> HIDE DEF x
  <2>2. Goes(s, x, m, m, {name})
    BY <1>3, <2>1 DEF Goes
  <2> QED BY <1>3, <2>1, <2>2 DEF x
<1> QED BY <1>2, <1>3

Marked(s, c) == [s EXCEPT !.stale = @ \/ c]

LEMMA MarkedIs ==
  ASSUME NEW s \in State, NEW c
  PROVE  LET n == Marked(s, c)
         IN  /\ n \in State /\ n.ok = s.ok /\ n.left = s.left /\ n.cur = s.cur /\ n.str = s.str
             /\ n.f = s.f /\ n.buf = s.buf
             /\ n.stale => s.stale \/ c
             /\ ~c => n.stale = s.stale
<1>1. Marked(s, c) \in State
  BY DEF State, Marked
<1>2. Marked(s, c).stale => s.stale \/ c
  BY DEF State, Marked
<1>3. ~c => Marked(s, c).stale = s.stale
  BY DEF State, Marked
<1> QED BY <1>1, <1>2, <1>3 DEF State, Marked

\* A name is looked up: the token is a string, or the text is an old one.
LEMMA EnumIs ==
  ASSUME NEW s \in State, NEW name \in FieldNames, NEW table, NEW named \in SUBSET FieldSet(name)
  PROVE  LET x == ExpectNextEnumValue(s, name, table, named)
         IN  /\ x \in State
             /\ x.ok => /\ s.ok /\ s.left # <<>> /\ x.left = Tail(s.left) /\ x.buf = s.buf
                        /\ {name} \cup DOMAIN s.f \subseteq DOMAIN x.f
                        /\ x.f[name] \in named
                        /\ x.stale => s.stale \/ HasTable(s.str)
                        /\ ~HasTable(s.str) => Head(s.left).t = "String" /\ x.stale = s.stale
<1> DEFINE n == Advance(s)
           found == Expect(n, Names(n.str, table, named))
           y == Marked(found, n.cur.t # "String")
           z == Set(y, name, n.str.index)
           x == ExpectNextEnumValue(s, name, table, named)
<1>1. x = IF ~found.ok THEN found ELSE z
  BY DEF ExpectNextEnumValue, Marked
<1>2. /\ n \in State
      /\ n.ok => /\ s.ok /\ s.left # <<>> /\ n.cur = Head(s.left) /\ n.cur \in TokenSet
                 /\ n.left = Tail(s.left)
                 /\ n.str = (IF "str" \in DOMAIN n.cur THEN n.cur.str ELSE s.str)
                 /\ n.f = s.f /\ n.buf = s.buf /\ n.stale = s.stale
  BY AdvanceIs
<1> HIDE DEF n
<1>3. found \in State /\ Same(n, found) /\ (found.ok => n.ok /\ Names(n.str, table, named))
  BY <1>2, ExpectIs
<1> HIDE DEF found
<1>4. CASE ~found.ok
  BY <1>1, <1>3, <1>4
<1>5. CASE found.ok
  <2>1. n.ok /\ HasTable(n.str) /\ n.str.index \in named
    BY <1>3, <1>5 DEF Names, HasTable
  <2>2. /\ y \in State /\ y.ok = found.ok /\ y.left = found.left
        /\ y.f = found.f /\ y.buf = found.buf
        /\ y.stale => found.stale \/ n.cur.t # "String"
        /\ ~(n.cur.t # "String") => y.stale = found.stale
    <3> DEFINE c == n.cur.t # "String"
    <3> HIDE DEF c
    <3>1. y = Marked(found, c)
      BY DEF c
    <3> HIDE DEF y
    <3>2. /\ y \in State /\ y.ok = found.ok /\ y.left = found.left
          /\ y.f = found.f /\ y.buf = found.buf
          /\ y.stale => found.stale \/ c
          /\ ~c => y.stale = found.stale
      BY <1>3, <3>1, MarkedIs
    <3> QED BY <3>2 DEF c
  <2> HIDE DEF y
  <2>3. n.str.index \in FieldSet(name)
    BY <2>1
  <2>4. /\ Goes(y, z, 0, 0, {name}) /\ z.left = y.left /\ z.ok = y.ok /\ z.stale = y.stale
        /\ z.ok => z.f = With(y.f, name, n.str.index)
    BY <2>2, <2>3, SetGoes
  <2>5. x = z
    BY <1>1, <1>5
  <2> HIDE DEF z, x
  <2>6. z \in State /\ {name} \cup DOMAIN y.f \subseteq DOMAIN z.f /\ z.buf = y.buf /\ z.ok
    BY <1>5, <2>2, <2>4 DEF Goes
  <2>7. z.f[name] = n.str.index
    BY <2>4, <2>6 DEF With
  <2>8. CASE n.cur.t = "String"
    <3>1. y.stale = found.stale
      BY <2>2, <2>8
    <3> QED BY <1>2, <1>3, <2>1, <2>2, <2>4, <2>5, <2>6, <2>7, <2>8, <3>1 DEF Same, x
  <2>9. CASE n.cur.t # "String"
    <3>1. "str" \notin DOMAIN n.cur
      <4>1. SUFFICES ASSUME "str" \in DOMAIN n.cur PROVE FALSE
        OBVIOUS
      <4>2. n.cur \in PropertyToken \/ n.cur \in IntegerToken
        BY <1>2, <2>1, <2>9, <4>1, TokenKinds
      <4>3. n.str = n.cur.str
        BY <1>2, <2>1, <4>1
      <4> QED BY <2>1, <4>2, <4>3, NoTable
    <3>2. HasTable(s.str)
      BY <1>2, <2>1, <3>1
    <3> QED BY <1>2, <1>3, <2>1, <2>2, <2>4, <2>5, <2>6, <2>7, <3>2 DEF Same, x
  <2> QED BY <2>8, <2>9
<1> QED BY <1>4, <1>5

LEMMA EnumPropertyGoes ==
  ASSUME NEW s \in State, NEW name \in FieldNames, NEW table, NEW named \in SUBSET FieldSet(name),
         NEW m \in 2 .. 5
  PROVE  LET x == ExpectNextEnumProperty(s, name, table, named)
         IN  Goes(s, x, m, m, {name}) /\ (x.ok => x.f[name] \in named)
<1> DEFINE y == ExpectNextPropertyName(s, name)
           x == ExpectNextEnumProperty(s, name, table, named)
<1>1. Goes(s, y, m, m, {}) /\ (y.ok => ~HasTable(y.str))
  BY NextNameGoes
<1>2. y \in State
  BY <1>1 DEF Goes
<1> HIDE DEF y
<1>3. x = ExpectNextEnumValue(y, name, table, named)
  BY DEF ExpectNextEnumProperty, y
<1> HIDE DEF x
<1>4. /\ x \in State
      /\ x.ok => /\ y.ok /\ y.left # <<>> /\ x.left = Tail(y.left) /\ x.buf = y.buf
                 /\ {name} \cup DOMAIN y.f \subseteq DOMAIN x.f
                 /\ x.f[name] \in named
                 /\ ~HasTable(y.str) => Head(y.left).t = "String" /\ x.stale = y.stale
  BY <1>2, <1>3, EnumIs
<1>5. ASSUME x.ok, Open(y.left, m) PROVE Open(x.left, m)
  <2>1. y.left \in Seq(TokenSet)
    BY <1>2, StateHas
  <2>2. Head(y.left).t = "String"
    BY <1>1, <1>4, <1>5
  <2>3. Open(Tail(y.left), After(Head(y.left), m))
    BY <1>4, <1>5, <2>1, OpenTail
  <2>4. After(Head(y.left), m) = TypeAfter("String", m)
    BY <2>2, TypeAfterIs
  <2> QED BY <1>4, <1>5, <2>3, <2>4, TypeAfterValues
<1>6. Goes(y, x, m, m, {name})
  BY <1>1, <1>4, <1>5 DEF Goes
<1>7. Goes(s, x, m, m, {} \cup {name})
  BY <1>1, <1>6, GoesOn
<1>8. {} \cup {name} = {name}
  OBVIOUS
<1> QED BY <1>4, <1>7, <1>8 DEF x

\* An integer.
LEMMA IntegerTokenIs ==
  ASSUME NEW c \in TokenSet, c.t = "Integer"
  PROVE  c.v \in Half /\ c.v[1] \in Int /\ c.v[2] \in U16
<1>1. c \in IntegerToken
  BY TokenKinds
<1>2. c.v \in Half
  BY <1>1 DEF IntegerToken
<1> QED BY <1>2, HalfIs

LEMMA NextValueGoes ==
  ASSUME NEW s \in State, NEW name \in FieldNames, NEW min, NEW max,
         min .. max \subseteq FieldSet(name), NEW m \in 2 .. 5
  PROVE  Goes(s, ExpectNextValue(s, name, min, max), m, m, {name})
<1> DEFINE n == ExpectNextToken(s, "Integer")
           e == Expect(n, n.cur.v[1] = 0 /\ n.cur.v[2] \in min .. max)
           c == IF n.ok THEN e ELSE n
           z == Set(c, name, c.cur.v[2])
           x == ExpectNextValue(s, name, min, max)
<1>1. x = IF c.ok THEN z ELSE c
  BY DEF ExpectNextValue
<1>2. m = TypeAfter("Integer", m)
  BY TypeAfterValues
<1>3. Goes(s, n, m, m, {})
  BY <1>2, NextTokenGoes
<1>4. n \in State
  BY <1>3 DEF Goes
<1> HIDE DEF n
<1>5. e \in State /\ Same(n, e) /\ (e.ok => n.ok /\ n.cur.v[2] \in min .. max)
  BY <1>4, ExpectIs
<1> HIDE DEF e
<1>6. Goes(n, c, m, m, {})
  BY <1>4, <1>5, SameGoes DEF Same
<1>7. c \in State /\ (c.ok => c.cur.v[2] \in min .. max)
  BY <1>4, <1>5 DEF Same
<1> HIDE DEF c
<1>8. Goes(s, c, m, m, {} \cup {})
  BY <1>3, <1>6, GoesOn
<1>9. CASE c.ok
  <2>1. c.cur.v[2] \in FieldSet(name)
    BY <1>7, <1>9
  <2>2. Goes(c, z, m, m, {name})
    BY <1>7, <2>1, SetGoes
  <2>3. Goes(s, z, m, m, ({} \cup {}) \cup {name})
    BY <1>8, <2>2, GoesOn
  <2>4. ({} \cup {}) \cup {name} = {name}
    OBVIOUS
  <2> QED BY <1>1, <1>9, <2>3, <2>4
<1>10. CASE ~c.ok
  <2>1. x = c
    BY <1>1, <1>10
  <2> QED BY <1>7, <1>10, <2>1 DEF Goes
<1> QED BY <1>9, <1>10

LEMMA NextValue32Goes ==
  ASSUME NEW s \in State, NEW name \in HalfFields, NEW m \in 2 .. 5
  PROVE  LET x == ExpectNextValue32(s, name)
         IN  Goes(s, x, m, m, {name})
<1> DEFINE n == ExpectNextToken(s, "Integer")
           inRange == n.cur.v[1] \in 0 .. 65535
           e == Expect(n, inRange)
           c == IF n.ok THEN e ELSE n
           z == Set(c, name, c.cur.v)
           x == ExpectNextValue32(s, name)
<1>0. name \in FieldNames /\ FieldSet(name) = Half
  BY DEF FieldNames, FieldSet, HalfFields, ByteFields, AddressFields
<1>1. x = IF c.ok THEN z ELSE c
  BY DEF ExpectNextValue32
<1>2. m = TypeAfter("Integer", m)
  BY TypeAfterValues
<1>3. Goes(s, n, m, m, {}) /\ (n.ok => n.cur \in TokenSet /\ n.cur.t = "Integer")
  BY <1>2, NextTokenGoes
<1>4. n \in State
  BY <1>3 DEF Goes
<1> HIDE DEF n, inRange
<1>5. e \in State /\ Same(n, e) /\ (e.ok => n.ok)
  BY <1>4, ExpectIs
<1> HIDE DEF e
<1>6. Goes(n, c, m, m, {})
  BY <1>4, <1>5, SameGoes DEF Same
<1>7. c \in State /\ (c.ok => c.cur.v \in Half)
  BY <1>3, <1>4, <1>5, IntegerTokenIs DEF Same
<1> HIDE DEF c
<1>8. Goes(s, c, m, m, {} \cup {})
  BY <1>3, <1>6, GoesOn
<1>9. CASE c.ok
  <2>1. c.cur.v \in FieldSet(name)
    BY <1>0, <1>7, <1>9
  <2>2. Goes(c, z, m, m, {name})
    BY <1>0, <1>7, <2>1, SetGoes
  <2>3. Goes(s, z, m, m, ({} \cup {}) \cup {name})
    BY <1>8, <2>2, GoesOn
  <2>4. ({} \cup {}) \cup {name} = {name}
    OBVIOUS
  <2> QED BY <1>1, <1>9, <2>3, <2>4
<1>10. CASE ~c.ok
  <2>1. x = c
    BY <1>1, <1>10
  <2> QED BY <1>7, <1>10, <2>1 DEF Goes
<1> QED BY <1>9, <1>10

LEMMA PropertyGoes ==
  ASSUME NEW s \in State, NEW name \in FieldNames, NEW min, NEW max,
         min .. max \subseteq FieldSet(name), NEW m \in 2 .. 5
  PROVE  Goes(s, ExpectNextProperty(s, name, min, max), m, m, {name})
<1> DEFINE y == ExpectNextPropertyName(s, name)
           x == ExpectNextProperty(s, name, min, max)
<1>1. Goes(s, y, m, m, {})
  BY NextNameGoes
<1>2. y \in State
  BY <1>1 DEF Goes
<1> HIDE DEF y
<1>3. Goes(y, ExpectNextValue(y, name, min, max), m, m, {name})
  BY <1>2, NextValueGoes
<1>4. Goes(s, ExpectNextValue(y, name, min, max), m, m, {} \cup {name})
  BY <1>1, <1>3, GoesOn
<1>5. {} \cup {name} = {name}
  OBVIOUS
<1> QED BY <1>4, <1>5 DEF ExpectNextProperty, y

LEMMA FieldSets ==
  /\ \A x \in ByteFields : x \in FieldNames /\ FieldSet(x) = Byte
  /\ \A x \in AddressFields : x \in FieldNames /\ FieldSet(x) = Quad
  /\ \A x \in HalfFields : x \in FieldNames /\ FieldSet(x) = Half
  /\ \A x \in ShortFields : x \in FieldNames /\ FieldSet(x) = U16
  /\ "flags" \in FieldNames /\ FieldSet("flags") = SUBSET Nat
  /\ "elements" \in FieldNames /\ FieldSet("elements") = Seq(TokenSet)
<1>1. \A x \in ByteFields : x \in FieldNames /\ FieldSet(x) = Byte
  BY DEF FieldNames, FieldSet
<1>2. \A x \in AddressFields : x \in FieldNames /\ FieldSet(x) = Quad
  BY DEF FieldNames, FieldSet, ByteFields, AddressFields
<1>3. \A x \in HalfFields : x \in FieldNames /\ FieldSet(x) = Half
  BY DEF FieldNames, FieldSet, ByteFields, AddressFields, HalfFields
<1>4. \A x \in ShortFields : x \in FieldNames /\ FieldSet(x) = U16
  BY DEF FieldNames, FieldSet, ByteFields, AddressFields, HalfFields, ShortFields
<1>5. "flags" \in FieldNames /\ FieldSet("flags") = SUBSET Nat
  BY DEF FieldNames, FieldSet, ByteFields, AddressFields, HalfFields
<1>6. "elements" \in FieldNames /\ FieldSet("elements") = Seq(TokenSet)
  BY DEF FieldNames, FieldSet, ByteFields, AddressFields, HalfFields
<1> QED BY <1>1, <1>2, <1>3, <1>4, <1>5, <1>6

LEMMA U16PropertyGoes ==
  ASSUME NEW s \in State, NEW name \in ShortFields, NEW m \in 2 .. 5
  PROVE  Goes(s, U16Property(s, name), m, m, {name})
<1> DEFINE low == 0
           top == 65535
<1>0. U16 = low .. top /\ U16Property(s, name) = ExpectNextProperty(s, name, low, top)
  BY SMT DEF U16, U16Property
<1> HIDE DEF low, top
<1>1. name \in FieldNames /\ low .. top \subseteq FieldSet(name)
  BY <1>0, FieldSets
<1> QED BY <1>0, <1>1, PropertyGoes

LEMMA BytePropertyGoes ==
  ASSUME NEW s \in State, NEW name \in ByteFields, NEW m \in 2 .. 5, NEW min \in 0 .. 255,
         NEW max \in 0 .. 255
  PROVE  Goes(s, ExpectNextProperty(s, name, min, max), m, m, {name})
<1>1. \A x \in min .. max : x \in Byte
  BY DEF Byte
<1>2. name \in FieldNames /\ FieldSet(name) = Byte
  BY FieldSets
<1>3. min .. max \subseteq FieldSet(name)
  BY <1>1, <1>2, Zenon
<1> QED BY <1>2, <1>3, PropertyGoes

LEMMA ByteFieldGoes ==
  ASSUME NEW s \in State, NEW name \in ByteFields
  PROVE  /\ Goes(s, ExpectNextProperty(s, name, 0, 255), 3, 3, {name})
         /\ Goes(s, ExpectNextProperty(s, name, 4, 4), 3, 3, {name})
<1> DEFINE low == 0
           four == 4
           top == 255
<1>1. low \in 0 .. 255 /\ top \in 0 .. 255 /\ four \in 0 .. 255
  BY SMT
<1>2. 3 \in 2 .. 5
  BY SMT
<1> HIDE DEF low, top, four
<1>3. Goes(s, ExpectNextProperty(s, name, low, top), 3, 3, {name})
  BY <1>1, <1>2, BytePropertyGoes, Zenon
<1>4. Goes(s, ExpectNextProperty(s, name, four, four), 3, 3, {name})
  BY <1>1, <1>2, BytePropertyGoes, Zenon
<1> QED BY <1>3, <1>4 DEF low, top, four

LEMMA U32PropertyGoes ==
  ASSUME NEW s \in State, NEW name \in HalfFields, NEW m \in 2 .. 5
  PROVE  Goes(s, U32Property(s, name), m, m, {name})
<1> DEFINE y == ExpectNextPropertyName(s, name)
<1>1. Goes(s, y, m, m, {})
  BY NextNameGoes
<1>2. y \in State
  BY <1>1 DEF Goes
<1> HIDE DEF y
<1>3. Goes(y, ExpectNextValue32(y, name), m, m, {name})
  BY <1>2, NextValue32Goes
<1>4. Goes(s, ExpectNextValue32(y, name), m, m, {} \cup {name})
  BY <1>1, <1>3, GoesOn
<1>5. {} \cup {name} = {name}
  OBVIOUS
<1> QED BY <1>4, <1>5 DEF U32Property, y

LEMMA AddressIs ==
  ASSUME NEW x \in Strs, "address" \in DOMAIN x
  PROVE  x.address \in Quad
<1>1. \/ x \in [word : Words] \/ x \in [table : Tables, index : Nat] \/ x \in [address : Quad]
      \/ x \in [bytes : Seq(Byte)] \/ x \in [text : Seq(Byte)]
      \/ x \in [number : Half] \/ x = NoString
  BY DEF Strs, StringStr
<1>2. x \in [address : Quad]
  BY <1>1 DEF NoString
<1> QED BY <1>2

LEMMA Ip4PropertyGoes ==
  ASSUME NEW s \in State, NEW name \in AddressFields, NEW m \in 2 .. 5
  PROVE  Goes(s, ExpectIp4Property(s, name), m, m, {name})
<1> DEFINE y == ExpectNextPropertyName(s, name)
           n == ExpectNextToken(y, "String")
           known == "address" \in DOMAIN n.str
           c == Expect(n, known)
           z == Set(c, name, c.str.address)
           x == ExpectIp4Property(s, name)
<1>0. name \in FieldNames /\ FieldSet(name) = Quad
  BY FieldSets
<1>1. x = IF c.ok THEN z ELSE c
  BY DEF ExpectIp4Property
<1>2. Goes(s, y, m, m, {})
  BY NextNameGoes
<1>3. y \in State
  BY <1>2 DEF Goes
<1> HIDE DEF y
<1>4. m = TypeAfter("String", m)
  BY TypeAfterValues
<1>5. Goes(y, n, m, m, {})
  BY <1>3, <1>4, NextTokenGoes
<1>6. n \in State
  BY <1>5 DEF Goes
<1> HIDE DEF n, known
<1>7. c \in State /\ Same(n, c) /\ (c.ok => n.ok /\ known)
  BY <1>6, ExpectIs
<1> HIDE DEF c, x
<1>8. Goes(n, c, m, m, {})
  BY <1>7, SameGoes
<1>9. Goes(s, n, m, m, {} \cup {})
  BY <1>2, <1>5, GoesOn
<1>10. Goes(s, c, m, m, ({} \cup {}) \cup {})
  BY <1>8, <1>9, GoesOn
<1>11. CASE c.ok
  <2>1. c.str \in Strs /\ "address" \in DOMAIN c.str
    BY <1>7, <1>11, StateHas DEF Same, known
  <2>2. c.str.address \in FieldSet(name)
    BY <1>0, <2>1, AddressIs
  <2>3. Goes(c, z, m, m, {name})
    BY <1>0, <1>7, <2>2, SetGoes
  <2>4. Goes(s, z, m, m, (({} \cup {}) \cup {}) \cup {name})
    BY <1>10, <2>3, GoesOn
  <2>5. (({} \cup {}) \cup {}) \cup {name} = {name}
    OBVIOUS
  <2> QED BY <1>1, <1>11, <2>4, <2>5 DEF x
<1>12. CASE ~c.ok
  <2>1. x = c
    BY <1>1, <1>12
  <2> QED BY <1>7, <1>12, <2>1 DEF Goes, x
<1> QED BY <1>11, <1>12

LEMMA Emptied ==
  ASSUME NEW s \in State
  PROVE  LET n == [s EXCEPT !.ok = FALSE, !.left = <<>>] IN n \in State /\ ~n.ok
<1> DEFINE l == <<>>
<1>1. l \in Seq(TokenSet)
  OBVIOUS
<1> HIDE DEF l
<1>2. LET n == [s EXCEPT !.ok = FALSE, !.left = l] IN n \in State /\ ~n.ok
  BY <1>1 DEF State
<1> QED BY <1>2 DEF l

\* The elements of an array of strings.
LEMMA ElementsGoes ==
  ASSUME NEW s \in State, NEW good, \A i \in 1 .. Len(s.left) : i \in good => s.left[i].t = "String"
  PROVE  LET x == Elements(s, good)
         IN  /\ Goes(s, x, 4, 3, {"elements"})
             /\ x.ok => \A i \in 1 .. Len(x.f["elements"]) :
                          x.f["elements"][i] = s.left[i] /\ i \in good /\ i \in 1 .. Len(s.left)
<1> DEFINE ts == s.left
           stops == {i \in 1 .. Len(ts) : i \notin good}
           stop == CHOOSE i \in stops : \A j \in stops : i <= j
           str == IF stop = 1 THEN s.str ELSE ts[stop - 1].str
           y == [s EXCEPT !.left = SubSeq(ts, stop + 1, Len(ts)), !.cur = ts[stop], !.str = str]
           el == SubSeq(ts, 1, stop - 1)
           z == Set(y, "elements", el)
           e == ExpectCurrentToken(z, "EndArray")
           x == Elements(s, good)
<1>0. ts \in Seq(TokenSet) /\ Len(ts) \in Nat /\ s.str \in Strs
  BY StateHas
<1>1. CASE ~s.ok \/ stops = {}
  <2>1. x = [s EXCEPT !.ok = FALSE, !.left = <<>>]
    BY <1>1 DEF Elements
  <2>2. x \in State /\ ~x.ok
    BY <2>1, Emptied
  <2> HIDE DEF x
  <2> QED BY <2>2 DEF Goes, x
<1>2. CASE ~(~s.ok \/ stops = {})
  <2>1. x = e
    BY <1>2 DEF Elements
  <2>2. stop \in stops /\ \A j \in stops : stop <= j
    <3>1. stops \subseteq Nat /\ stops # {}
      BY <1>2
    <3> HIDE DEF stops
    <3>2. \E i \in stops : \A j \in stops : i <= j
      BY <3>1, Least
    <3> QED BY <3>2
  <2> HIDE DEF stop, x
  <2>3. stop \in 1 .. Len(ts)
    BY <2>2
  <2>4. \A i \in 1 .. (stop - 1) : i \in good /\ i \in 1 .. Len(ts)
    BY <1>0, <2>2, <2>3
  <2>5. \A i \in 1 .. (stop - 1) : ts[i].t = "String" /\ ts[i] \in TokenSet
    BY <1>0, <2>4
  <2>6. ts[stop] \in TokenSet /\ SubSeq(ts, stop + 1, Len(ts)) \in Seq(TokenSet)
    BY <1>0, <2>3
  <2>7. str \in Strs
    <3>1. CASE stop = 1
      BY <1>0, <3>1
    <3>2. CASE stop # 1
      <4>1. stop - 1 \in 1 .. (stop - 1)
        BY <2>3, <3>2
      <4>2. ts[stop - 1].t = "String" /\ ts[stop - 1] \in TokenSet
        BY <2>5, <4>1
      <4>3. "str" \in DOMAIN ts[stop - 1]
        BY <4>2, TokenKinds
      <4> QED BY <3>2, <4>2, <4>3, TokenStr
    <3> QED BY <3>1, <3>2
  <2>8. el \in Seq(TokenSet) /\ Len(el) = stop - 1 /\ \A i \in 1 .. (stop - 1) : el[i] = ts[i]
    BY <1>0, <2>3
  <2> HIDE DEF str, el
  <2>9. /\ y \in State /\ y.ok = s.ok /\ y.left = SubSeq(ts, stop + 1, Len(ts)) /\ y.cur = ts[stop]
        /\ y.f = s.f /\ y.buf = s.buf /\ y.stale = s.stale
    <3> DEFINE l == SubSeq(ts, stop + 1, Len(ts))
               c == ts[stop]
    <3>1. l \in Seq(TokenSet) /\ c \in TokenSet
      BY <2>6
    <3> HIDE DEF l, c, ts
    <3>2. LET w == [s EXCEPT !.left = l, !.cur = c, !.str = str]
          IN  /\ w \in State /\ w.ok = s.ok /\ w.left = l /\ w.cur = c
              /\ w.f = s.f /\ w.buf = s.buf /\ w.stale = s.stale
      BY <2>7, <3>1 DEF State
    <3> QED BY <3>2 DEF l, c, ts
  <2> HIDE DEF y
  <2>10. /\ Goes(y, z, 3, 3, {"elements"}) /\ z.cur = y.cur /\ z.left = y.left
         /\ z.ok = y.ok /\ (z.ok => z.f = With(y.f, "elements", el))
    <3>1. "elements" \in FieldNames /\ el \in FieldSet("elements")
      BY <2>8, FieldSets, Zenon
    <3> QED BY <2>9, <3>1, SetGoes
  <2>11. z \in State
    BY <2>10 DEF Goes
  <2> HIDE DEF z
  <2>12. e \in State /\ Same(z, e) /\ (e.ok => z.ok /\ z.cur.t = "EndArray")
    BY <2>11, ExpectCurrentTokenIs
  <2> HIDE DEF e
  <2>13. ASSUME e.ok
         PROVE  /\ s.ok /\ e.f = With(s.f, "elements", el) /\ e.buf = s.buf /\ e.stale = s.stale
                /\ e.left = SubSeq(ts, stop + 1, Len(ts)) /\ ts[stop].t = "EndArray"
    <3>1. z.ok /\ z.cur.t = "EndArray"
      BY <2>12, <2>13
    <3>2. e.left = z.left /\ e.f = z.f /\ e.buf = z.buf /\ e.stale = z.stale
      BY <2>12 DEF Same
    <3>3. z.buf = y.buf /\ z.stale = y.stale /\ y.ok
      BY <2>10, <3>1 DEF Goes
    <3> QED BY <2>9, <2>10, <3>1, <3>2, <3>3
  <2>14. ASSUME e.ok, Open(ts, 4) PROVE Open(e.left, 3)
    <3>1. stop - 1 \in 0 .. Len(ts) /\ (stop - 1) + 1 = stop
      BY <1>0, <2>3
    <3>2. \A i \in 1 .. (stop - 1) : After(ts[i], 4) = 4
      <4>1. TypeAfter("String", 4) = 4
        BY TypeAfterValues
      <4> QED BY <2>5, <4>1, TypeAfterIs
    <3> DEFINE b == SubSeq(ts, stop, Len(ts))
    <3>3. Open(b, 4)
      <4>1. Open(SubSeq(ts, (stop - 1) + 1, Len(ts)), 4)
        BY <1>0, <2>14, <3>1, <3>2, OpenSkip
      <4> QED BY <3>1, <4>1
    <3>4. b \in Seq(TokenSet) /\ b # <<>> /\ Head(b) = ts[stop]
          /\ Tail(b) = SubSeq(ts, stop + 1, Len(ts))
      <4>1. b \in Seq(TokenSet) /\ Len(b) = Len(ts) - stop + 1 /\ \A i \in 1 .. Len(b) : b[i] = ts[stop + i - 1]
        BY <1>0, <2>3
      <4>2. Len(b) >= 1 /\ b # <<>> /\ Head(b) = ts[stop]
        <5>1. Len(b) >= 1 /\ 1 \in 1 .. Len(b) /\ stop + 1 - 1 = stop
          BY <1>0, <2>3, <4>1
        <5>2. b[1] = ts[stop]
          BY <4>1, <5>1
        <5> HIDE DEF b
        <5>3. b # <<>> /\ Head(b) = b[1]
          BY <4>1, <5>1
        <5> QED BY <5>1, <5>2, <5>3
      <4> DEFINE d == SubSeq(ts, stop + 1, Len(ts))
      <4>3. d \in Seq(TokenSet) /\ Len(d) = Len(ts) - stop /\ \A i \in 1 .. Len(d) : d[i] = ts[stop + i]
        BY <1>0, <2>3, SMTT(40)
      <4> HIDE DEF b, d
      <4>4. Tail(b) \in Seq(TokenSet) /\ Len(Tail(b)) = Len(ts) - stop
            /\ \A i \in 1 .. (Len(ts) - stop) : Tail(b)[i] = b[i + 1]
        BY <1>0, <2>3, <4>1, <4>2
      <4>5. ASSUME NEW i \in 1 .. (Len(ts) - stop) PROVE Tail(b)[i] = d[i]
        <5>1. i + 1 \in 1 .. Len(b) /\ stop + (i + 1) - 1 = stop + i /\ i \in 1 .. Len(d)
          BY <1>0, <2>3, <4>1, <4>3
        <5> QED BY <4>1, <4>3, <4>4, <5>1
      <4>6. Tail(b) = d
        BY <4>3, <4>4, <4>5, SeqEqual
      <4> QED BY <4>1, <4>2, <4>6 DEF d
    <3> HIDE DEF b
    <3>5. Open(Tail(b), After(Head(b), 4))
      BY <3>3, <3>4, OpenTail
    <3>6. After(Head(b), 4) = 3
      BY <2>13, <2>14, <3>4, TypeAfterIs, TypeAfterValues
    <3> QED BY <2>13, <2>14, <3>4, <3>5, <3>6
  <2>15. ASSUME e.ok PROVE DOMAIN e.f = {"elements"} \cup DOMAIN s.f /\ e.f["elements"] = el
    BY <2>13, <2>15 DEF With
  <2>16. Goes(s, e, 4, 3, {"elements"})
    BY <2>12, <2>13, <2>14, <2>15 DEF Goes
  <2>17. ASSUME e.ok, NEW i \in 1 .. Len(el)
         PROVE  el[i] = ts[i] /\ i \in good /\ i \in 1 .. Len(ts)
    BY <2>4, <2>8
  <2> QED BY <2>1, <2>15, <2>16, <2>17 DEF x
<1> QED BY <1>1, <1>2

\* Steps one after the other, with fewer of the fields.
LEMMA GoesTo ==
  ASSUME NEW s, NEW t, NEW x, NEW m, NEW l, NEW n, NEW D, NEW E, NEW F,
         Goes(s, t, m, l, D), Goes(t, x, l, n, E), F \subseteq D \cup E
  PROVE  Goes(s, x, m, n, F)
<1>1. Goes(s, x, m, n, D \cup E)
  BY GoesOn
<1>2. F \cup DOMAIN s.f \subseteq (D \cup E) \cup DOMAIN s.f
  OBVIOUS
<1> QED BY <1>1, <1>2, Zenon DEF Goes

\* A step that is taken only if the one before has not failed.
LEMMA GoesIf ==
  ASSUME NEW s, NEW c, NEW z, NEW m, NEW l, NEW n, NEW D, NEW E, NEW F,
         Goes(s, c, m, l, D), c.ok => Goes(c, z, l, n, E), F \subseteq D \cup E
  PROVE  Goes(s, IF c.ok THEN z ELSE c, m, n, F)
<1>1. CASE c.ok
  BY <1>1, GoesTo
<1>2. CASE ~c.ok
  BY <1>2 DEF Goes
<1> QED BY <1>1, <1>2

LEMMA GoesState ==
  ASSUME NEW s, NEW t, NEW m, NEW n, NEW D, Goes(s, t, m, n, D)
  PROVE  /\ t \in State
         /\ t.ok => \A x \in D : x \in DOMAIN t.f /\ t.f[x] \in FieldSet(x)
<1>1. t \in State /\ (t.ok => D \subseteq DOMAIN t.f)
  BY DEF Goes
<1>2. t.f \in Fields
  BY <1>1, StateHas
<1> QED BY <1>1, <1>2, FieldsHave

LEMMA FlagsGoes ==
  ASSUME NEW s \in State, NEW table, NEW bits \in SUBSET Nat
  PROVE  Goes(s, DeserializeFlags(s, table, bits), 3, 3, {"flags"})
<1> DEFINE n == ExpectNextToken(s, "StartArray")
           good == {i \in Strings(n.left) : Names(n.left[i].str, table, bits)}
           c == Elements(n, good)
           v == {c.f.elements[i].str.index : i \in DOMAIN c.f.elements}
           z == Set(c, "flags", v)
           x == DeserializeFlags(s, table, bits)
<1>1. x = IF c.ok THEN z ELSE c
  BY DEF DeserializeFlags
<1>2. Goes(s, n, 3, 4, {})
  BY NextTokenGoes, TypeAfterValues
<1>3. n \in State
  BY <1>2, GoesState
<1> HIDE DEF n
<1>4. /\ \A i \in 1 .. Len(n.left) : i \in good => n.left[i].t = "String"
      /\ \A i \in good : Names(n.left[i].str, table, bits)
  BY DEF Strings
<1> HIDE DEF good
<1>5. /\ Goes(n, c, 4, 3, {"elements"})
      /\ c.ok => \A i \in 1 .. Len(c.f["elements"]) :
                   c.f["elements"][i] = n.left[i] /\ i \in good /\ i \in 1 .. Len(n.left)
  BY <1>3, <1>4, ElementsGoes
<1>6. c \in State /\ (c.ok => c.f["elements"] \in Seq(TokenSet))
  BY <1>5, GoesState, FieldSets
<1> HIDE DEF c
<1>7. ASSUME c.ok PROVE Goes(c, z, 3, 3, {"flags"})
  <2>1. ASSUME NEW i \in 1 .. Len(c.f["elements"]) PROVE c.f["elements"][i].str.index \in bits
    <3>1. c.f["elements"][i] = n.left[i] /\ i \in good
      BY <1>5, <1>7
    <3>2. Names(n.left[i].str, table, bits)
      BY <1>4, <3>1
    <3> QED BY <3>1, <3>2 DEF Names
  <2>2. DOMAIN c.f["elements"] = 1 .. Len(c.f["elements"])
    BY <1>6, <1>7
  <2>3. v \in SUBSET Nat
    BY <2>1, <2>2
  <2> HIDE DEF v
  <2> QED BY <1>6, <2>3, SetGoes, FieldSets
<1> HIDE DEF z
<1>8. Goes(s, c, 3, 3, {})
  <2>1. {} \subseteq {} \cup {"elements"}
    OBVIOUS
  <2> QED BY <1>2, <1>5, <2>1, GoesTo
<1>9. {"flags"} \subseteq {} \cup {"flags"}
  OBVIOUS
<1> QED BY <1>1, <1>7, <1>8, <1>9, GoesIf

(***************************************************************************)
(* Bytes.                                                                  *)
(***************************************************************************)
LEMMA ShortBytes ==
  ASSUME NEW n \in Int
  PROVE  htons(n) \in Seq(Byte) /\ Len(htons(n)) = 2
<1>1. (n \div 256) % 256 \in 0 .. 255 /\ n % 256 \in 0 .. 255
  OBVIOUS
<1>2. (n \div 256) % 256 \in Byte /\ n % 256 \in Byte
  BY <1>1, ByteNumbers
<1> DEFINE a == (n \div 256) % 256
           b == n % 256
<1> HIDE DEF a, b
<1>3. <<a, b>> \in Seq(Byte) /\ Len(<<a, b>>) = 2
  BY <1>2 DEF a, b
<1> QED BY <1>3 DEF htons, a, b

\* Bytes, as many as their number is in K.
Bytes(b, K) == b \in Seq(Byte) /\ Len(b) = K

LEMMA BytesConcat ==
  ASSUME NEW a, NEW b, NEW j \in Nat, NEW k \in Nat, NEW l, Bytes(a, j), Bytes(b, k), l = j + k
  PROVE  Bytes(a \o b, l)
BY Concat DEF Bytes

LEMMA BytesAre ==
  /\ \A n \in U16 : Bytes(htons(n), 2)
  /\ \A n \in Nat : Bytes(htons(n), 2)
  /\ \A v \in Half : Bytes(htonl(v), 4)
  /\ \A v \in Quad : Bytes(v, 4)
  /\ \A a \in Byte : Bytes(<<a>>, 1)
  /\ \A a, b \in Byte : Bytes(<<a, b>>, 2)
  /\ \A a, b, c, d \in Byte : Bytes(<<a, b, c, d>>, 4)
<1>1. \A n \in Int : Bytes(htons(n), 2)
  BY ShortBytes DEF Bytes
<1>2. U16 \subseteq Int /\ Nat \subseteq Int
  BY DEF U16
<1>3. ASSUME NEW v \in Half PROVE Bytes(htonl(v), 4)
  <2>1. v[1] \in Int /\ v[2] \in Int
    BY <1>2, HalfIs
  <2>2. Bytes(htons(v[1]), 2) /\ Bytes(htons(v[2]), 2) /\ 4 = 2 + 2
    BY <1>1, <2>1
  <2>3. Bytes(htons(v[1]) \o htons(v[2]), 4)
    BY <2>2, BytesConcat
  <2> QED BY <2>3 DEF htonl
<1>4. \A v \in Quad : Bytes(v, 4)
  BY DEF Quad, Bytes
<1>5. \A a \in Byte : Bytes(<<a>>, 1)
  BY DEF Bytes
<1>6. \A a, b \in Byte : Bytes(<<a, b>>, 2)
  BY DEF Bytes
<1>7. \A a, b, c, d \in Byte : Bytes(<<a, b, c, d>>, 4)
  BY DEF Bytes
<1> QED BY <1>1, <1>2, <1>3, <1>4, <1>5, <1>6, <1>7

LEMMA ValueType ==
  ASSUME NEW bits
  PROVE  Value(bits) \in Nat /\ Value(bits \cap 0 .. 5) \in Byte
<1>1. Value(bits) \in Nat
  BY DEF Value
<1>2. Value(bits \cap 0 .. 5) \in 0 .. 255
  BY DEF Value
<1> QED BY <1>1, <1>2, ByteNumbers

LEMMA PutIs ==
  ASSUME NEW s \in State, NEW b, s.ok => b \in Seq(Byte)
  PROVE  LET x == Put(s, b)
         IN  /\ x \in State /\ x.ok = s.ok /\ x.left = s.left /\ x.cur = s.cur /\ x.str = s.str
             /\ x.f = s.f /\ x.stale = s.stale
             /\ x.ok => x.buf = s.buf \o b
<1> DEFINE x == Put(s, b)
           g == s.buf \o b
<1>1. CASE s.ok
  <2>1. x = Buffered(s, g)
    BY <1>1 DEF Put, Buffered
  <2>2. g \in Seq(Byte)
    BY <1>1, StateHas, Concat
  <2> HIDE DEF x, g
  <2>3. /\ x \in State /\ x.ok = s.ok /\ x.left = s.left /\ x.cur = s.cur /\ x.str = s.str
        /\ x.f = s.f /\ x.buf = g /\ x.stale = s.stale
    BY <2>1, <2>2, WithBuf
  <2> QED BY <2>3 DEF x, g
<1>2. CASE ~s.ok
  <2>1. x = s
    BY <1>2 DEF Put
  <2> HIDE DEF x
  <2> QED BY <1>2, <2>1 DEF x
<1> QED BY <1>1, <1>2

\* t is made of s by reading tokens that lead from level m to level n; K is
\* the number of bytes that go to dest_buffer.
Reads(s, t, m, n, K) ==
  /\ t \in State
  /\ t.ok =>
       /\ s.ok
       /\ t.stale = s.stale
       /\ Open(s.left, m) => Open(t.left, n)
       /\ \E b : Bytes(b, K) /\ t.buf = s.buf \o b

LEMMA PutReads ==
  ASSUME NEW s, NEW t, NEW m, NEW n, NEW D, NEW b, NEW K, Goes(s, t, m, n, D), t.ok => Bytes(b, K)
  PROVE  /\ Reads(s, Put(t, b), m, n, K)
         /\ LET x == Put(t, b) IN x.ok = t.ok /\ x.cur = t.cur /\ x.str = t.str /\ x.left = t.left
<1> DEFINE x == Put(t, b)
<1>1. t \in State
  BY DEF Goes
<1>2. /\ x \in State /\ x.ok = t.ok /\ x.left = t.left /\ x.cur = t.cur /\ x.str = t.str
      /\ x.stale = t.stale /\ (x.ok => x.buf = t.buf \o b)
  BY <1>1, PutIs DEF Bytes
<1> HIDE DEF x
<1>3. Reads(s, x, m, n, K)
  BY <1>2 DEF Goes, Reads
<1> QED BY <1>2, <1>3 DEF x

LEMMA GoesReads ==
  ASSUME NEW s, NEW t, NEW x, NEW m, NEW l, NEW n, NEW D, NEW K,
         Goes(s, t, m, l, D), Reads(t, x, l, n, K)
  PROVE  Reads(s, x, m, n, K)
BY Zenon DEF Goes, Reads

LEMMA ReadsGoes ==
  ASSUME NEW s, NEW t, NEW x, NEW m, NEW l, NEW n, NEW D, NEW K,
         Reads(s, t, m, l, K), Goes(t, x, l, n, D)
  PROVE  Reads(s, x, m, n, K)
BY Zenon DEF Goes, Reads

LEMMA ShortNat == \A x \in U16 : x \in Nat
BY SMTT(40) DEF U16

LEMMA NamedBytes ==
  /\ kProtocolNames \subseteq Byte /\ kTcpOptions \subseteq Byte /\ kIcmpTypeNames \subseteq Byte
  /\ kIcmpDestinationUnreachableCodeNames \subseteq Byte
  /\ kIcmpRedirectMessageCodeNames \subseteq Byte /\ kIcmpBadIpHeaderCodeNames \subseteq Byte
  /\ IpFlags \subseteq Nat /\ kTcpFlags \subseteq Nat
<1>1. kProtocolNames \subseteq Byte /\ kTcpOptions \subseteq Byte
  BY DEF kProtocolNames, kTcpOptions, Byte
<1>2. kIcmpTypeNames \subseteq Byte /\ kIcmpDestinationUnreachableCodeNames \subseteq Byte
  BY DEF kIcmpTypeNames, kIcmpDestinationUnreachableCodeNames, Byte
<1>3. kIcmpRedirectMessageCodeNames \subseteq Byte /\ kIcmpBadIpHeaderCodeNames \subseteq Byte
  BY DEF kIcmpRedirectMessageCodeNames, kIcmpBadIpHeaderCodeNames, Byte
<1>4. IpFlags \subseteq Nat /\ kTcpFlags \subseteq Nat
  BY DEF IpFlags, kTcpFlags
<1> QED BY <1>1, <1>2, <1>3, <1>4

LEMMA NamesOfFields ==
  /\ {"version", "tos", "ttl", "protocol", "type", "code", "option"} \subseteq ByteFields
  /\ {"source", "destination", "gateway", "rest"} \subseteq AddressFields
  /\ {"seqNumber", "ackNumber", "value1", "value2"} \subseteq HalfFields
  /\ {"id", "fragmentOffset", "sourcePort", "destPort", "windowSize", "urgentPointer", "value",
      "identifier", "sequenceNumber", "nextHopMtu"} \subseteq ShortFields
BY DEF ByteFields, AddressFields, HalfFields, ShortFields

LEMMA OffsetGoes ==
  ASSUME NEW s \in State
  PROVE  Goes(s, ExpectNextProperty(s, "fragmentOffset", 0, 8191), 3, 3, {"fragmentOffset"})
<1>1. "fragmentOffset" \in FieldNames /\ FieldSet("fragmentOffset") = U16
  BY FieldSets, NamesOfFields
<1>2. \A x \in 0 .. 8191 : x \in U16
  BY DEF U16
<1>3. 0 .. 8191 \subseteq FieldSet("fragmentOffset")
  BY <1>1, <1>2
<1> DEFINE top == 8191
<1> HIDE DEF top
<1>4. 0 .. top \subseteq FieldSet("fragmentOffset") /\ 3 \in 2 .. 5
  BY <1>3 DEF top
<1>5. Goes(s, ExpectNextProperty(s, "fragmentOffset", 0, top), 3, 3, {"fragmentOffset"})
  BY <1>1, <1>4, PropertyGoes
<1> QED BY <1>5 DEF top

\* Two bytes of q are clear.
Zeros(q, i) == At(q, i) = 0 /\ At(q, i + 1) = 0

LEMMA BytesAt ==
  ASSUME NEW a, NEW m \in Nat, NEW b, NEW n \in Nat, Bytes(a, m), Bytes(b, n)
  PROVE  /\ \A i \in Nat : i < m => At(a \o b, i) = At(a, i)
         /\ \A i \in Nat : i < n => At(a \o b, m + i) = At(b, i)
<1>1. a \in Seq(Byte) /\ b \in Seq(Byte) /\ Len(a) = m /\ Len(b) = n
  BY DEF Bytes
<1>2. /\ \A i \in 1 .. m : (a \o b)[i] = a[i]
      /\ \A i \in m + 1 .. m + n : (a \o b)[i] = b[i - m]
  BY <1>1, ConcatAt
<1>3. ASSUME NEW i \in Nat, i < m PROVE At(a \o b, i) = At(a, i)
  <2>1. i + 1 \in 1 .. m
    BY <1>3
  <2> QED BY <1>2, <2>1 DEF At
<1>4. ASSUME NEW i \in Nat, i < n PROVE At(a \o b, m + i) = At(b, i)
  <2> DEFINE j == m + i + 1
  <2>1. j \in m + 1 .. m + n /\ j - m = i + 1
    BY <1>4
  <2> HIDE DEF j
  <2>2. (a \o b)[j] = b[j - m]
    BY <1>2, <2>1
  <2> QED BY <2>1, <2>2 DEF At, j
<1> QED BY <1>3, <1>4

LEMMA ZerosConcat ==
  ASSUME NEW a, NEW m \in Nat, NEW b, NEW n \in Nat, Bytes(a, m), Bytes(b, n), NEW i \in Nat
  PROVE  /\ Zeros(a, i) /\ i + 2 <= m => Zeros(a \o b, i)
         /\ Zeros(b, i) /\ i + 2 <= n => Zeros(a \o b, m + i)
<1>1. ASSUME Zeros(a, i), i + 2 <= m PROVE Zeros(a \o b, i)
  <2>1. i < m /\ i + 1 < m /\ i + 1 \in Nat
    BY <1>1
  <2> QED BY <1>1, <2>1, BytesAt DEF Zeros
<1>2. ASSUME Zeros(b, i), i + 2 <= n PROVE Zeros(a \o b, m + i)
  <2>1. i < n /\ i + 1 < n /\ i + 1 \in Nat /\ (m + i) + 1 = m + (i + 1)
    BY <1>2
  <2>2. At(a \o b, m + i) = At(b, i) /\ At(a \o b, m + (i + 1)) = At(b, i + 1)
    BY <2>1, BytesAt
  <2> QED BY <1>2, <2>1, <2>2 DEF Zeros
<1> QED BY <1>1, <1>2

\* The K bytes that x has more than s are clear at k.
Clear(s, x, K, k) == x.ok => \E b : Bytes(b, K) /\ x.buf = s.buf \o b /\ Zeros(b, k)

\* An IP header of twenty bytes, without a checksum.
IpBlank(q) == At(q, 0) = 69 /\ Zeros(q, 10)

LEMMA IpBlankConcat ==
  ASSUME NEW a, NEW m \in Nat, NEW b, NEW n \in Nat, Bytes(a, m), Bytes(b, n), m >= 12, IpBlank(a)
  PROVE  IpBlank(a \o b)
<1>1. 0 \in Nat /\ 10 \in Nat /\ 0 < m /\ 10 + 2 <= m
  OBVIOUS
<1>2. At(a \o b, 0) = At(a, 0)
  BY <1>1, BytesAt
<1>3. Zeros(a \o b, 10)
  BY <1>1, ZerosConcat DEF IpBlank
<1> QED BY <1>2, <1>3 DEF IpBlank

LEMMA Ip4HeaderReads ==
  ASSUME NEW s \in State
  PROVE  LET x == DeserializeIp4Header(s)
         IN  /\ Reads(s, x, 2, 2, 20)
             /\ x.ok => \E b : Bytes(b, 20) /\ x.buf = s.buf \o b /\ IpBlank(b)
<1> DEFINE s0 == ExpectNextToken(s, "StartObject")
           s1 == ExpectNextProperty(s0, "version", 4, 4)
           t1 == ExpectNextProperty(s1, "tos", 0, 255)
           s2 == U16Property(t1, "id")
           t2 == ExpectNextPropertyName(s2, "flags")
           s3 == DeserializeFlags(t2, "ipFlag", IpFlags)
           s4 == ExpectNextProperty(s3, "fragmentOffset", 0, 8191)
           s5 == ExpectNextProperty(s4, "ttl", 0, 255)
           s6 == ExpectNextEnumProperty(s5, "protocol", "protocol", kProtocolNames)
           t6 == ExpectIp4Property(s6, "source")
           s7 == ExpectIp4Property(t6, "destination")
           s8 == ExpectNextToken(s7, "EndObject")
           b == <<16 * 4 + 5, s8.f.tos, 0, 0>> \o htons(s8.f.id)
                \o htons(s8.f.fragmentOffset + Value(s8.f.flags))
                \o <<s8.f.ttl, s8.f.protocol, 0, 0>> \o s8.f.source \o s8.f.destination
<1>0. 3 \in 2 .. 5
  OBVIOUS
<1>1. Goes(s, s0, 2, 3, {})
  <2>1. 3 = TypeAfter("StartObject", 2)
    BY TypeAfterValues, Zenon
  <2> QED BY <2>1, NextTokenGoes
<1>2. s0 \in State
  BY <1>1, GoesState
<1> HIDE DEF s0
<1>3. Goes(s0, s1, 3, 3, {"version"})
  BY <1>2, NamesOfFields, ByteFieldGoes
<1>4. s1 \in State
  BY <1>3, GoesState
<1> HIDE DEF s1
<1>5. Goes(s1, t1, 3, 3, {"tos"})
  BY <1>4, NamesOfFields, ByteFieldGoes
<1>6. t1 \in State
  BY <1>5, GoesState
<1> HIDE DEF t1
<1>7. Goes(t1, s2, 3, 3, {"id"})
  BY <1>0, <1>6, NamesOfFields, U16PropertyGoes
<1>8. s2 \in State
  BY <1>7, GoesState
<1> HIDE DEF s2
<1>9. Goes(s2, t2, 3, 3, {})
  BY <1>0, <1>8, NextNameGoes
<1>10. t2 \in State
  BY <1>9, GoesState
<1> HIDE DEF t2
<1>11. Goes(t2, s3, 3, 3, {"flags"})
  BY <1>10, NamedBytes, FlagsGoes
<1>12. s3 \in State
  BY <1>11, GoesState
<1> HIDE DEF s3
<1>13. Goes(s3, s4, 3, 3, {"fragmentOffset"})
  BY <1>12, OffsetGoes
<1>14. s4 \in State
  BY <1>13, GoesState
<1> HIDE DEF s4
<1>15. Goes(s4, s5, 3, 3, {"ttl"})
  BY <1>14, NamesOfFields, ByteFieldGoes
<1>16. s5 \in State
  BY <1>15, GoesState
<1> HIDE DEF s5
<1>17. Goes(s5, s6, 3, 3, {"protocol"})
  <2>1. "protocol" \in FieldNames /\ kProtocolNames \in SUBSET FieldSet("protocol")
    BY NamesOfFields, FieldSets, NamedBytes
  <2> QED BY <1>0, <1>16, <2>1, EnumPropertyGoes
<1>18. s6 \in State
  BY <1>17, GoesState
<1> HIDE DEF s6
<1>19. Goes(s6, t6, 3, 3, {"source"})
  BY <1>0, <1>18, NamesOfFields, Ip4PropertyGoes
<1>20. t6 \in State
  BY <1>19, GoesState
<1> HIDE DEF t6
<1>21. Goes(t6, s7, 3, 3, {"destination"})
  BY <1>0, <1>20, NamesOfFields, Ip4PropertyGoes
<1>22. s7 \in State
  BY <1>21, GoesState
<1> HIDE DEF s7
<1>23. Goes(s7, s8, 3, 2, {})
  BY <1>22, NextTokenGoes, TypeAfterValues
<1> HIDE DEF s8
<1>24. Goes(s, t1, 2, 3, {"tos"})
  <2>1. Goes(s, s1, 2, 3, {"version"})
    BY <1>1, <1>3, GoesTo
  <2> QED BY <1>5, <2>1, GoesTo
<1>25. Goes(s, s3, 2, 3, {"tos", "id", "flags"})
  <2>1. Goes(s, s2, 2, 3, {"tos", "id"})
    BY <1>7, <1>24, GoesTo
  <2>2. Goes(s, t2, 2, 3, {"tos", "id"})
    BY <1>9, <2>1, GoesTo
  <2> QED BY <1>11, <2>2, GoesTo
<1>26. Goes(s, s5, 2, 3, {"tos", "id", "flags", "fragmentOffset", "ttl"})
  <2>1. Goes(s, s4, 2, 3, {"tos", "id", "flags", "fragmentOffset"})
    BY <1>13, <1>25, GoesTo
  <2> QED BY <1>15, <2>1, GoesTo
<1> DEFINE D == {"tos", "id", "flags", "fragmentOffset", "ttl", "protocol", "source", "destination"}
<1>27. Goes(s, s8, 2, 2, D)
  <2>1. Goes(s, s6, 2, 3, {"tos", "id", "flags", "fragmentOffset", "ttl", "protocol"})
    BY <1>17, <1>26, GoesTo
  <2>2. Goes(s, t6, 2, 3, {"tos", "id", "flags", "fragmentOffset", "ttl", "protocol", "source"})
    BY <1>19, <2>1, GoesTo
  <2>3. Goes(s, s7, 2, 3, D)
    BY <1>21, <2>2, GoesTo
  <2> QED BY <1>23, <2>3, GoesTo
<1>28. ASSUME s8.ok PROVE Bytes(b, 20) /\ IpBlank(b)
  <2> DEFINE g == s8.f
  <2>1. \A x \in D : g[x] \in FieldSet(x)
    BY <1>27, <1>28, GoesState
  <2> HIDE DEF g
  <2>2. g["tos"] \in Byte /\ g["ttl"] \in Byte /\ g["protocol"] \in Byte
    BY <2>1, NamesOfFields, FieldSets
  <2>3. g["id"] \in U16 /\ g["fragmentOffset"] \in U16
    BY <2>1, NamesOfFields, FieldSets
  <2>4. g["source"] \in Quad /\ g["destination"] \in Quad
    BY <2>1, NamesOfFields, FieldSets
  <2>5. g["fragmentOffset"] + Value(g["flags"]) \in Nat
    <3>1. g["fragmentOffset"] \in Nat
      BY <2>3, ShortNat
    <3>2. Value(g["flags"]) \in Nat
      BY ValueType
    <3> QED BY <3>1, <3>2
  <2>6. 16 * 4 + 5 \in Byte /\ 0 \in Byte
    BY DEF Byte
  <2> DEFINE b1 == <<16 * 4 + 5, g["tos"], 0, 0>>
             b2 == htons(g["id"])
             b3 == htons(g["fragmentOffset"] + Value(g["flags"]))
             b4 == <<g["ttl"], g["protocol"], 0, 0>>
  <2>7. Bytes(b1, 4) /\ Bytes(b2, 2) /\ Bytes(b3, 2) /\ Bytes(b4, 4)
    BY <2>2, <2>3, <2>5, <2>6, BytesAre
  <2>14. At(b1, 0) = 69 /\ Zeros(b4, 2) /\ 0 \in Nat /\ 2 \in Nat /\ 4 \in Nat /\ 6 \in Nat /\ 8 \in Nat
         /\ 2 + 2 <= 4 /\ 8 + 2 = 10 /\ 0 < 4 /\ 0 < 6 /\ 0 < 8
    BY DEF At, Zeros
  <2> HIDE DEF b1, b2, b3, b4
  <2>8. Bytes(b1 \o b2, 6)
    BY <2>7, BytesConcat
  <2>9. Bytes((b1 \o b2) \o b3, 8)
    BY <2>7, <2>8, BytesConcat
  <2>10. Bytes(((b1 \o b2) \o b3) \o b4, 12)
    BY <2>7, <2>9, BytesConcat
  <2>11. Bytes(g["source"], 4) /\ Bytes(g["destination"], 4)
    BY <2>4, BytesAre
  <2>12. Bytes((((b1 \o b2) \o b3) \o b4) \o g["source"], 16)
    BY <2>10, <2>11, BytesConcat
  <2>13. Bytes(((((b1 \o b2) \o b3) \o b4) \o g["source"]) \o g["destination"], 20)
    BY <2>11, <2>12, BytesConcat
  <2>15. At(b1 \o b2, 0) = 69
    BY <2>7, <2>14, BytesAt
  <2>16. At((b1 \o b2) \o b3, 0) = 69
    BY <2>7, <2>8, <2>14, <2>15, BytesAt
  <2>17. IpBlank(((b1 \o b2) \o b3) \o b4)
    <3>1. At(((b1 \o b2) \o b3) \o b4, 0) = 69
      BY <2>7, <2>9, <2>14, <2>16, BytesAt
    <3>2. Zeros(((b1 \o b2) \o b3) \o b4, 8 + 2)
      BY <2>7, <2>9, <2>14, ZerosConcat
    <3> QED BY <2>14, <3>1, <3>2 DEF IpBlank
  <2>18. 12 \in Nat /\ 16 \in Nat /\ 12 >= 12 /\ 16 >= 12 /\ 4 \in Nat
    OBVIOUS
  <2>19. IpBlank((((b1 \o b2) \o b3) \o b4) \o g["source"])
    BY <2>10, <2>11, <2>17, <2>18, IpBlankConcat
  <2>20. IpBlank(((((b1 \o b2) \o b3) \o b4) \o g["source"]) \o g["destination"])
    BY <2>11, <2>12, <2>18, <2>19, IpBlankConcat
  <2> QED BY <2>13, <2>20 DEF b1, b2, b3, b4, g
<1> HIDE DEF b, D
<1>29. Reads(s, Put(s8, b), 2, 2, 20)
  BY <1>27, <1>28, PutReads
<1>30. DeserializeIp4Header(s) = IF ~s8.ok THEN s8 ELSE Put(s8, b)
  BY DEF DeserializeIp4Header, s8, s7, t6, s6, s5, s4, s3, t2, s2, t1, s1, s0, b
<1>31. ~s8.ok => Reads(s, s8, 2, 2, 20)
  BY <1>27 DEF Goes, Reads
<1>32. s8.ok => Put(s8, b).buf = s.buf \o b
  <2>1. s8 \in State /\ (s8.ok => s8.buf = s.buf)
    BY <1>27 DEF Goes
  <2>2. s8.ok => b \in Seq(Byte)
    BY <1>28 DEF Bytes
  <2>3. Put(s8, b).ok = s8.ok /\ (Put(s8, b).ok => Put(s8, b).buf = s8.buf \o b)
    BY <2>1, <2>2, PutIs
  <2> QED BY <2>1, <2>3
<1> QED BY <1>28, <1>29, <1>30, <1>31, <1>32

LEMMA AckNumberGoes ==
  ASSUME NEW s \in State
  PROVE  Goes(s, OptionalAckNumber(s), 3, 3, {"ackNumber"})
<1> DEFINE y == ExpectNextValue32(s, "ackNumber")
           z == ExpectNextToken(y, "PropertyName")
           none == <<0, 0>>
<1>1. 3 \in 2 .. 5 /\ 3 = TypeAfter("PropertyName", 3)
  BY TypeAfterValues
<1>2. Goes(s, y, 3, 3, {"ackNumber"})
  BY <1>1, NamesOfFields, NextValue32Goes
<1>3. y \in State
  BY <1>2, GoesState
<1> HIDE DEF y
<1>4. Goes(y, z, 3, 3, {})
  BY <1>1, <1>3, NextTokenGoes
<1>5. Goes(s, z, 3, 3, {"ackNumber"})
  BY <1>2, <1>4, GoesTo
<1>6. 0 \in Int /\ 0 \in U16
  BY DEF U16
<1>7. none \in Half
  BY <1>6, HalfIs
<1> HIDE DEF none, z
<1>8. "ackNumber" \in FieldNames /\ FieldSet("ackNumber") = Half
  BY NamesOfFields, FieldSets
<1>9. Goes(s, Set(s, "ackNumber", none), 3, 3, {"ackNumber"})
  BY <1>7, <1>8, SetGoes
<1>10. OptionalAckNumber(s) = IF Says(s.str, "ackNumber") THEN z ELSE Set(s, "ackNumber", none)
  BY DEF OptionalAckNumber, y, z, none
<1> QED BY <1>5, <1>9, <1>10

LEMMA UrgentPointerGoes ==
  ASSUME NEW s \in State
  PROVE  Goes(s, UrgentPointer(s), 3, 3, {"urgentPointer"})
<1>1. Goes(s, U16Property(s, "urgentPointer"), 3, 3, {"urgentPointer"})
  <2>1. 3 \in 2 .. 5
    OBVIOUS
  <2> QED BY <2>1, NamesOfFields, U16PropertyGoes
<1>2. 0 \in FieldSet("urgentPointer") /\ "urgentPointer" \in FieldNames
  <2>1. 0 \in U16
    BY DEF U16
  <2> QED BY <2>1, NamesOfFields, FieldSets
<1>3. Goes(s, Set(s, "urgentPointer", 0), 3, 3, {"urgentPointer"})
  BY <1>2, SetGoes
<1> QED BY <1>1, <1>3 DEF UrgentPointer

LEMMA TcpHeaderBytes ==
  ASSUME NEW g, \A x \in {"sourcePort", "destPort", "seqNumber", "ackNumber", "windowSize",
                           "urgentPointer"} : g[x] \in FieldSet(x)
  PROVE  /\ Bytes(htons(g["sourcePort"]) \o htons(g["destPort"])
               \o htonl(g["seqNumber"]) \o htonl(g["ackNumber"])
               \o <<0, Value(g["flags"] \cap 0 .. 5)>> \o htons(g["windowSize"])
               \o <<0, 0>> \o htons(g["urgentPointer"]), 20)
         /\ Zeros(htons(g["sourcePort"]) \o htons(g["destPort"])
               \o htonl(g["seqNumber"]) \o htonl(g["ackNumber"])
               \o <<0, Value(g["flags"] \cap 0 .. 5)>> \o htons(g["windowSize"])
               \o <<0, 0>> \o htons(g["urgentPointer"]), 16)
<1>1. /\ g["sourcePort"] \in U16 /\ g["destPort"] \in U16 /\ g["windowSize"] \in U16
      /\ g["urgentPointer"] \in U16
  BY NamesOfFields, FieldSets
<1>2. g["seqNumber"] \in Half /\ g["ackNumber"] \in Half
  BY NamesOfFields, FieldSets
<1>3. 0 \in Byte /\ Value(g["flags"] \cap 0 .. 5) \in Byte
  BY ValueType DEF Byte
<1> DEFINE b1 == htons(g["sourcePort"])
           b2 == htons(g["destPort"])
           b3 == htonl(g["seqNumber"])
           b4 == htonl(g["ackNumber"])
           b5 == <<0, Value(g["flags"] \cap 0 .. 5)>>
           b6 == htons(g["windowSize"])
           b7 == <<0, 0>>
           b8 == htons(g["urgentPointer"])
<1>4. /\ Bytes(b1, 2) /\ Bytes(b2, 2) /\ Bytes(b3, 4) /\ Bytes(b4, 4) /\ Bytes(b6, 2)
      /\ Bytes(b8, 2)
  BY <1>1, <1>2, BytesAre
<1>5. Bytes(b5, 2) /\ Bytes(b7, 2)
  BY <1>3, BytesAre
<1>13. Zeros(b7, 0)
  BY DEF Zeros, At
<1> HIDE DEF b1, b2, b3, b4, b5, b6, b7, b8
<1>6. Bytes(b1 \o b2, 4)
  BY <1>4, BytesConcat
<1>7. Bytes(b1 \o b2 \o b3, 8)
  BY <1>4, <1>6, BytesConcat
<1>8. Bytes(b1 \o b2 \o b3 \o b4, 12)
  BY <1>4, <1>7, BytesConcat
<1>9. Bytes(b1 \o b2 \o b3 \o b4 \o b5, 14)
  BY <1>5, <1>8, BytesConcat
<1>10. Bytes(b1 \o b2 \o b3 \o b4 \o b5 \o b6, 16)
  BY <1>4, <1>9, BytesConcat
<1>11. Bytes(b1 \o b2 \o b3 \o b4 \o b5 \o b6 \o b7, 18)
  BY <1>5, <1>10, BytesConcat
<1>12. Bytes(b1 \o b2 \o b3 \o b4 \o b5 \o b6 \o b7 \o b8, 20)
  BY <1>4, <1>11, BytesConcat
<1>14. 0 \in Nat /\ 2 \in Nat /\ 16 \in Nat /\ 18 \in Nat /\ 0 + 2 <= 2 /\ 16 + 0 = 16 /\ 16 + 2 <= 18
  OBVIOUS
<1>15. Zeros(b1 \o b2 \o b3 \o b4 \o b5 \o b6 \o b7, 16)
  <2> DEFINE a == b1 \o b2 \o b3 \o b4 \o b5 \o b6
  <2>1. Bytes(a, 16)
    BY <1>10
  <2> HIDE DEF a
  <2>2. Zeros(a \o b7, 16 + 0)
    BY <1>5, <1>13, <1>14, <2>1, ZerosConcat
  <2> QED BY <1>14, <2>2 DEF a
<1>16. Zeros(b1 \o b2 \o b3 \o b4 \o b5 \o b6 \o b7 \o b8, 16)
  <2> DEFINE a == b1 \o b2 \o b3 \o b4 \o b5 \o b6 \o b7
  <2>1. Bytes(a, 18) /\ Zeros(a, 16)
    BY <1>11, <1>15
  <2> HIDE DEF a
  <2>2. Zeros(a \o b8, 16)
    BY <1>4, <1>14, <2>1, ZerosConcat
  <2> QED BY <2>2 DEF a
<1> QED BY <1>12, <1>16 DEF b1, b2, b3, b4, b5, b6, b7, b8

LEMMA PortsGo ==
  ASSUME NEW s \in State
  PROVE  Goes(s, U16Property(U16Property(ExpectNextToken(s, "StartObject"), "sourcePort"), "destPort"),
              2, 3, {"sourcePort", "destPort"})
<1> DEFINE s0 == ExpectNextToken(s, "StartObject")
           t0 == U16Property(s0, "sourcePort")
           s1 == U16Property(t0, "destPort")
<1>0. 3 \in 2 .. 5
  OBVIOUS
<1>1. Goes(s, s0, 2, 3, {})
  BY NextTokenGoes, TypeAfterValues
<1>2. s0 \in State
  BY <1>1, GoesState
<1> HIDE DEF s0
<1>3. Goes(s0, t0, 3, 3, {"sourcePort"})
  BY <1>0, <1>2, NamesOfFields, U16PropertyGoes
<1>4. t0 \in State
  BY <1>3, GoesState
<1> HIDE DEF t0
<1>5. Goes(t0, s1, 3, 3, {"destPort"})
  BY <1>0, <1>4, NamesOfFields, U16PropertyGoes
<1> HIDE DEF s1
<1>6. Goes(s, t0, 2, 3, {"sourcePort"})
  BY <1>1, <1>3, GoesTo
<1>7. Goes(s, s1, 2, 3, {"sourcePort", "destPort"})
  BY <1>5, <1>6, GoesTo
<1> QED BY <1>7 DEF s1, t0, s0

LEMMA TcpFieldsRead ==
  ASSUME NEW s \in State
  PROVE  LET x == DeserializeTcpFields(s)
         IN  /\ Reads(s, x, 2, After(x.cur, 3), 20)
             /\ x.ok => x.cur \in TokenSet
             /\ Clear(s, x, 20, 16)
<1> DEFINE s1 == U16Property(U16Property(ExpectNextToken(s, "StartObject"), "sourcePort"), "destPort")
           t1 == U32Property(s1, "seqNumber")
           t2 == ExpectNextToken(t1, "PropertyName")
           s2 == OptionalAckNumber(t2)
           t3 == ExpectCurrentPropertyName(s2, "flags")
           s3 == DeserializeFlags(t3, "tcpFlag", kTcpFlags)
           t4 == U16Property(s3, "windowSize")
           t5 == UrgentPointer(t4)
           a == Advance(t5)
           x == DeserializeTcpFields(s)
<1>0. 3 \in 2 .. 5 /\ 3 = TypeAfter("PropertyName", 3)
  BY TypeAfterValues
<1>1. Goes(s, s1, 2, 3, {"sourcePort", "destPort"})
  BY PortsGo
<1>2. s1 \in State
  BY <1>1, GoesState
<1> HIDE DEF s1
<1>3. Goes(s1, t1, 3, 3, {"seqNumber"})
  BY <1>0, <1>2, NamesOfFields, U32PropertyGoes
<1>4. t1 \in State
  BY <1>3, GoesState
<1> HIDE DEF t1
<1>5. Goes(t1, t2, 3, 3, {})
  BY <1>0, <1>4, NextTokenGoes
<1>6. t2 \in State
  BY <1>5, GoesState
<1> HIDE DEF t2
<1>7. Goes(t2, s2, 3, 3, {"ackNumber"})
  BY <1>6, AckNumberGoes
<1>8. s2 \in State
  BY <1>7, GoesState
<1> HIDE DEF s2
<1>9. Goes(s2, t3, 3, 3, {})
  <2>1. t3 \in State /\ Same(s2, t3) /\ (t3.ok => s2.ok)
    BY <1>8, ExpectCurrentPropertyNameIs
  <2> QED BY <2>1, SameGoes
<1>10. t3 \in State
  BY <1>9, GoesState
<1> HIDE DEF t3
<1>11. Goes(t3, s3, 3, 3, {"flags"})
  BY <1>10, NamedBytes, FlagsGoes
<1>12. s3 \in State
  BY <1>11, GoesState
<1> HIDE DEF s3
<1>13. Goes(s3, t4, 3, 3, {"windowSize"})
  BY <1>0, <1>12, NamesOfFields, U16PropertyGoes
<1>14. t4 \in State
  BY <1>13, GoesState
<1> HIDE DEF t4
<1>15. Goes(t4, t5, 3, 3, {"urgentPointer"})
  BY <1>14, UrgentPointerGoes
<1>16. t5 \in State
  BY <1>15, GoesState
<1> HIDE DEF t5
<1> DEFINE n == After(a.cur, 3)
<1>17. Goes(t5, a, 3, n, {})
  BY <1>16, AdvanceGoes
<1>18. a.ok => a.cur \in TokenSet
  BY <1>16, AdvanceIs
<1> HIDE DEF a, n
<1>19. Goes(s, t2, 2, 3, {"sourcePort", "destPort", "seqNumber"})
  <2>1. Goes(s, t1, 2, 3, {"sourcePort", "destPort", "seqNumber"})
    BY <1>1, <1>3, GoesTo
  <2> QED BY <1>5, <2>1, GoesTo
<1>20. Goes(s, t3, 2, 3, {"sourcePort", "destPort", "seqNumber", "ackNumber"})
  <2>1. Goes(s, s2, 2, 3, {"sourcePort", "destPort", "seqNumber", "ackNumber"})
    BY <1>7, <1>19, GoesTo
  <2> QED BY <1>9, <2>1, GoesTo
<1>21. Goes(s, t4, 2, 3, {"sourcePort", "destPort", "seqNumber", "ackNumber", "windowSize"})
  <2>1. Goes(s, s3, 2, 3, {"sourcePort", "destPort", "seqNumber", "ackNumber"})
    BY <1>11, <1>20, GoesTo
  <2> QED BY <1>13, <2>1, GoesTo
<1> DEFINE D == {"sourcePort", "destPort", "seqNumber", "ackNumber", "windowSize", "urgentPointer"}
<1>22. Goes(s, a, 2, n, D)
  <2>1. Goes(s, t5, 2, 3, D)
    BY <1>15, <1>21, GoesTo
  <2> QED BY <1>17, <2>1, GoesTo
<1> DEFINE b == htons(a.f.sourcePort) \o htons(a.f.destPort)
                \o htonl(a.f.seqNumber) \o htonl(a.f.ackNumber)
                \o <<0, Value(a.f.flags \cap 0 .. 5)>> \o htons(a.f.windowSize)
                \o <<0, 0>> \o htons(a.f.urgentPointer)
<1>23. ASSUME a.ok PROVE Bytes(b, 20) /\ Zeros(b, 16)
  <2> DEFINE g == a.f
  <2>1. \A y \in D : g[y] \in FieldSet(y)
    BY <1>22, <1>23, GoesState
  <2> HIDE DEF g
  <2>2. /\ Bytes(htons(g["sourcePort"]) \o htons(g["destPort"])
               \o htonl(g["seqNumber"]) \o htonl(g["ackNumber"])
               \o <<0, Value(g["flags"] \cap 0 .. 5)>> \o htons(g["windowSize"])
               \o <<0, 0>> \o htons(g["urgentPointer"]), 20)
        /\ Zeros(htons(g["sourcePort"]) \o htons(g["destPort"])
               \o htonl(g["seqNumber"]) \o htonl(g["ackNumber"])
               \o <<0, Value(g["flags"] \cap 0 .. 5)>> \o htons(g["windowSize"])
               \o <<0, 0>> \o htons(g["urgentPointer"]), 16)
    BY <2>1, TcpHeaderBytes
  <2> QED BY <2>2 DEF g
<1>24. x = IF ~a.ok THEN a ELSE Put(a, b)
  BY DEF DeserializeTcpFields, PutTcpHeader, a, t5, t4, s3, t3, s2, t2, t1, s1
<1> HIDE DEF b, D, x
<1>25. Reads(s, Put(a, b), 2, n, 20) /\ Put(a, b).cur = a.cur /\ Put(a, b).ok = a.ok
  BY <1>22, <1>23, PutReads
<1>26. ~a.ok => Reads(s, a, 2, n, 20)
  BY <1>22 DEF Goes, Reads
<1>27. x.cur = a.cur /\ x.ok = a.ok /\ Reads(s, x, 2, n, 20)
  BY <1>24, <1>25, <1>26
<1>28. a.ok => Put(a, b).buf = s.buf \o b
  <2>1. a \in State /\ (a.ok => a.buf = s.buf)
    BY <1>22 DEF Goes
  <2>2. a.ok => b \in Seq(Byte)
    BY <1>23 DEF Bytes
  <2>3. Put(a, b).ok = a.ok /\ (Put(a, b).ok => Put(a, b).buf = a.buf \o b)
    BY <2>1, <2>2, PutIs
  <2> QED BY <2>1, <2>3
<1>29. Clear(s, x, 20, 16)
  BY <1>23, <1>24, <1>28 DEF Clear
<1> QED BY <1>18, <1>27, <1>29 DEF n, x

(***************************************************************************)
(* A TCP option.                                                           *)
(***************************************************************************)
\* What follows the name of an option.
OptionValue(s, type) ==
  LET v == ExpectNextValue(s, "value", 0, 65535)
  IN  IF v.ok THEN Put(v, <<type, 4>> \o htons(v.f.value)) ELSE v
OptionTimes(s) ==
  LET v == ExpectNextValue32(ExpectNextValue32(s, "value1"), "value2")
  IN  IF v.ok THEN Put(v, <<8, 10>> \o htonl(v.f.value1) \o htonl(v.f.value2)) ELSE v
OptionBody(s, type) ==
  CASE type \in {0, 1} -> Put(s, <<type>>)
    [] type = 4 -> Put(s, <<4, 2>>)
    [] type \in {2, 3} -> OptionValue(s, type)
    [] type = 5 -> Expect(s, FALSE)
    [] type = 8 -> OptionTimes(s)

LEMMA OptionValueReads ==
  ASSUME NEW s \in State, NEW type \in Byte
  PROVE  Reads(s, OptionValue(s, type), 5, 5, 4)
<1> DEFINE low == 0
           top == 65535
           v == ExpectNextValue(s, "value", low, top)
           b == <<type, 4>> \o htons(v.f.value)
<1>1. U16 = low .. top
  BY SMT DEF U16
<1> HIDE DEF low, top
<1>2. "value" \in FieldNames /\ FieldSet("value") = U16
  BY NamesOfFields, FieldSets
<1>3. low .. top \subseteq FieldSet("value")
  BY <1>1, <1>2, Zenon
<1>4. Goes(s, v, 5, 5, {"value"})
  <2>1. 5 \in 2 .. 5
    OBVIOUS
  <2> QED BY <1>2, <1>3, <2>1, NextValueGoes
<1> HIDE DEF v
<1>5. ASSUME v.ok PROVE Bytes(b, 4)
  <2>1. v.f["value"] \in U16
    BY <1>2, <1>4, <1>5, GoesState
  <2>2. 4 \in Byte
    BY DEF Byte
  <2> DEFINE b1 == <<type, 4>>
             b2 == htons(v.f.value)
  <2>3. Bytes(b1, 2) /\ Bytes(b2, 2)
    BY <2>1, <2>2, BytesAre
  <2> HIDE DEF b1, b2
  <2>4. Bytes(b1 \o b2, 4)
    BY <2>3, BytesConcat
  <2> QED BY <2>4 DEF b1, b2
<1> HIDE DEF b
<1>6. Reads(s, Put(v, b), 5, 5, 4)
  BY <1>4, <1>5, PutReads
<1>7. ~v.ok => Reads(s, v, 5, 5, 4)
  BY <1>4 DEF Goes, Reads
<1>8. Reads(s, IF v.ok THEN Put(v, b) ELSE v, 5, 5, 4)
  BY <1>6, <1>7
<1> QED BY <1>8 DEF OptionValue, b, v, low, top

LEMMA OptionTimesRead ==
  ASSUME NEW s \in State
  PROVE  Reads(s, OptionTimes(s), 5, 5, 10)
<1> DEFINE y == ExpectNextValue32(s, "value1")
           v == ExpectNextValue32(y, "value2")
           b == <<8, 10>> \o htonl(v.f.value1) \o htonl(v.f.value2)
<1>1. 5 \in 2 .. 5
  OBVIOUS
<1>2. Goes(s, y, 5, 5, {"value1"})
  BY <1>1, NamesOfFields, NextValue32Goes
<1>3. y \in State
  BY <1>2, GoesState
<1> HIDE DEF y
<1>4. Goes(y, v, 5, 5, {"value2"})
  BY <1>1, <1>3, NamesOfFields, NextValue32Goes
<1> HIDE DEF v
<1>5. Goes(s, v, 5, 5, {"value1", "value2"})
  BY <1>2, <1>4, GoesTo
<1>6. ASSUME v.ok PROVE Bytes(b, 10)
  <2>1. v.f["value1"] \in Half /\ v.f["value2"] \in Half
    BY <1>5, <1>6, GoesState, NamesOfFields, FieldSets
  <2>2. 8 \in Byte /\ 10 \in Byte
    BY DEF Byte
  <2> DEFINE b1 == <<8, 10>>
             b2 == htonl(v.f.value1)
             b3 == htonl(v.f.value2)
  <2>3. Bytes(b1, 2) /\ Bytes(b2, 4) /\ Bytes(b3, 4)
    BY <2>1, <2>2, BytesAre
  <2> HIDE DEF b1, b2, b3
  <2>4. Bytes(b1 \o b2, 6)
    BY <2>3, BytesConcat
  <2>5. Bytes(b1 \o b2 \o b3, 10)
    BY <2>3, <2>4, BytesConcat
  <2> QED BY <2>5 DEF b1, b2, b3
<1> HIDE DEF b
<1>7. Reads(s, Put(v, b), 5, 5, 10)
  BY <1>5, <1>6, PutReads
<1>8. ~v.ok => Reads(s, v, 5, 5, 10)
  BY <1>5 DEF Goes, Reads
<1>9. Reads(s, IF v.ok THEN Put(v, b) ELSE v, 5, 5, 10)
  BY <1>7, <1>8
<1> QED BY <1>9 DEF OptionTimes, b, v, y

LEMMA OptionBodyReads ==
  ASSUME NEW s \in State, NEW type \in kTcpOptions
  PROVE  \E k \in Nat \ {0} : Reads(s, OptionBody(s, type), 5, 5, k)
<1>0. type \in {0, 1, 2, 3, 4, 5, 8} /\ type \in Byte
  BY NamedBytes DEF kTcpOptions
<1>1. Goes(s, s, 5, 5, {})
  BY DEF Goes
<1>2. CASE type \in {0, 1}
  <2>1. OptionBody(s, type) = Put(s, <<type>>)
    <3>1. type = 0 => OptionBody(s, type) = Put(s, <<type>>)
      BY DEF OptionBody
    <3>2. type = 1 => OptionBody(s, type) = Put(s, <<type>>)
      BY DEF OptionBody
    <3> QED BY <1>2, <3>1, <3>2
  <2>2. Bytes(<<type>>, 1)
    BY <1>0, BytesAre
  <2>3. Reads(s, Put(s, <<type>>), 5, 5, 1)
    BY <1>1, <2>2, PutReads
  <2> QED BY <2>1, <2>3
<1>3. CASE type = 4
  <2> DEFINE b == <<4, 2>>
  <2>1. OptionBody(s, type) = Put(s, b)
    BY <1>3 DEF OptionBody
  <2>2. 4 \in Byte /\ 2 \in Byte
    BY DEF Byte
  <2>3. Bytes(b, 2)
    BY <2>2, BytesAre
  <2> HIDE DEF b
  <2>4. Reads(s, Put(s, b), 5, 5, 2)
    BY <1>1, <2>3, PutReads
  <2> QED BY <2>1, <2>4
<1>4. CASE type \in {2, 3}
  <2>1. OptionBody(s, type) = OptionValue(s, type)
    <3>1. type = 2 => OptionBody(s, type) = OptionValue(s, type)
      BY DEF OptionBody
    <3>2. type = 3 => OptionBody(s, type) = OptionValue(s, type)
      BY DEF OptionBody
    <3> QED BY <1>4, <3>1, <3>2
  <2>2. Reads(s, OptionValue(s, type), 5, 5, 4)
    BY <1>0, OptionValueReads
  <2> QED BY <2>1, <2>2
<1>5. CASE type = 5
  <2> DEFINE x == Expect(s, FALSE)
  <2>1. OptionBody(s, type) = x
    BY <1>5 DEF OptionBody
  <2>2. x \in State /\ ~x.ok
    BY ExpectIs
  <2> HIDE DEF x
  <2>3. Reads(s, x, 5, 5, 1)
    BY <2>2 DEF Reads
  <2> QED BY <2>1, <2>3
<1>6. CASE type = 8
  <2>1. OptionBody(s, type) = OptionTimes(s)
    BY <1>6 DEF OptionBody
  <2>2. Reads(s, OptionTimes(s), 5, 5, 10)
    BY OptionTimesRead
  <2> QED BY <2>1, <2>2
<1> QED BY <1>0, <1>2, <1>3, <1>4, <1>5, <1>6

\* At the beginning of an option its name has to be a scalar.
LEMMA OpenOption ==
  ASSUME NEW ts \in Seq(TokenSet), ts # <<>>, Open(ts, 6)
  PROVE  Open(Tail(ts), 5)
<1> DEFINE c == Head(ts)
<1>1. Fits(c, 6) /\ Open(Tail(ts), After(c, 6))
  BY OpenTail
<1> HIDE DEF c
<1>2. ~Opens(c) /\ ~Closes(c)
  BY <1>1 DEF Fits, Opens
<1>3. After(c, 6) = 5
  BY <1>2 DEF After
<1> QED BY <1>1, <1>3

LEMMA OptionReads ==
  ASSUME NEW s \in State
  PROVE  LET x == DeserializeTcpOption(s)
         IN  /\ x \in State
             /\ x.ok => /\ s.cur.t = "StartArray" /\ x.cur \in TokenSet
                        /\ x.stale => s.stale \/ HasTable(s.str)
                        /\ Open(s.left, 6) => Open(x.left, After(x.cur, 4))
                        /\ \E k \in Nat \ {0} : \E b : Bytes(b, k) /\ x.buf = s.buf \o b
<1> DEFINE c == ExpectCurrentToken(s, "StartArray")
           s1 == ExpectNextEnumValue(c, "option", "tcpOption", kTcpOptions)
           type == s1.f.option
           s2 == OptionBody(s1, type)
           e == ExpectNextToken(s2, "EndArray")
           a == Advance(e)
           x == DeserializeTcpOption(s)
<1>1. c \in State /\ Same(s, c) /\ (c.ok => s.cur.t = "StartArray")
  BY ExpectCurrentTokenIs
<1> HIDE DEF c
<1>2. "option" \in FieldNames /\ kTcpOptions \in SUBSET FieldSet("option")
  BY NamesOfFields, FieldSets, NamedBytes
<1>3. /\ s1 \in State
      /\ s1.ok => /\ c.ok /\ c.left # <<>> /\ s1.left = Tail(c.left) /\ s1.buf = c.buf
                  /\ s1.f["option"] \in kTcpOptions
                  /\ s1.stale => c.stale \/ HasTable(c.str)
  BY <1>1, <1>2, EnumIs
<1>4. x = IF s1.ok THEN a ELSE s1
  BY DEF DeserializeTcpOption, OptionBody, OptionValue, OptionTimes, c
<1> HIDE DEF s1, x
<1>5. CASE ~s1.ok
  BY <1>3, <1>4, <1>5 DEF x
<1>6. CASE s1.ok
  <2>1. type \in kTcpOptions
    BY <1>3, <1>6
  <2> HIDE DEF type
  <2>2. PICK k \in Nat \ {0} : Reads(s1, s2, 5, 5, k)
    BY <1>3, <2>1, OptionBodyReads
  <2>3. s2 \in State
    BY <2>2 DEF Reads
  <2> HIDE DEF s2
  <2>4. Goes(s2, e, 5, 4, {})
    BY <2>3, NextTokenGoes, TypeAfterValues
  <2>5. e \in State
    BY <2>4, GoesState
  <2> HIDE DEF e
  <2> DEFINE n == After(a.cur, 4)
  <2>6. Goes(e, a, 4, n, {}) /\ (a.ok => a.cur \in TokenSet)
    BY <2>5, AdvanceGoes, AdvanceIs
  <2> HIDE DEF a, n
  <2>7. Reads(s1, a, 5, n, k)
    <3>1. Reads(s1, e, 5, 4, k)
      BY <2>2, <2>4, ReadsGoes
    <3> QED BY <2>6, <3>1, ReadsGoes
  <2>8. ASSUME a.ok, Open(s.left, 6) PROVE Open(a.left, n)
    <3>1. c.left = s.left /\ s.left \in Seq(TokenSet)
      BY <1>1, StateHas DEF Same
    <3>2. Open(s1.left, 5)
      BY <1>3, <1>6, <2>8, <3>1, OpenOption
    <3> QED BY <2>7, <2>8, <3>2 DEF Reads
  <2>9. ASSUME a.ok
        PROVE  /\ s.cur.t = "StartArray" /\ a.cur \in TokenSet
               /\ a.stale => s.stale \/ HasTable(s.str)
               /\ \E b : Bytes(b, k) /\ a.buf = s.buf \o b
    <3>1. s.cur.t = "StartArray" /\ a.cur \in TokenSet
      BY <1>1, <1>3, <1>6, <2>6, <2>9
    <3>2. a.stale = s1.stale /\ \E b : Bytes(b, k) /\ a.buf = s1.buf \o b
      BY <2>7, <2>9 DEF Reads
    <3>3. s1.buf = s.buf /\ (s1.stale => s.stale \/ HasTable(s.str))
      BY <1>1, <1>3, <1>6 DEF Same
    <3> QED BY <3>1, <3>2, <3>3
  <2>10. a \in State
    BY <2>7 DEF Reads
  <2>11. x = a
    BY <1>4, <1>6
  <2> QED BY <2>8, <2>9, <2>10, <2>11 DEF n, x
<1> QED BY <1>5, <1>6

(***************************************************************************)
(* The other headers.                                                      *)
(***************************************************************************)
LEMMA UdpHeaderReads ==
  ASSUME NEW s \in State
  PROVE  Reads(s, DeserializeUdpHeader(s), 2, 2, 8) /\ Clear(s, DeserializeUdpHeader(s), 8, 6)
<1> DEFINE s1 == U16Property(U16Property(ExpectNextToken(s, "StartObject"), "sourcePort"), "destPort")
           s2 == ExpectNextToken(s1, "EndObject")
           b == htons(s2.f.sourcePort) \o htons(s2.f.destPort) \o <<0, 0, 0, 0>>
<1>1. Goes(s, s1, 2, 3, {"sourcePort", "destPort"})
  BY PortsGo
<1>2. s1 \in State
  BY <1>1, GoesState
<1> HIDE DEF s1
<1>3. Goes(s1, s2, 3, 2, {})
  BY <1>2, NextTokenGoes, TypeAfterValues
<1> HIDE DEF s2
<1>4. Goes(s, s2, 2, 2, {"sourcePort", "destPort"})
  BY <1>1, <1>3, GoesTo
<1>5. ASSUME s2.ok PROVE Bytes(b, 8) /\ Zeros(b, 6)
  <2>1. s2.f["sourcePort"] \in U16 /\ s2.f["destPort"] \in U16
    BY <1>4, <1>5, GoesState, NamesOfFields, FieldSets
  <2>2. 0 \in Byte
    BY DEF Byte
  <2> DEFINE b1 == htons(s2.f.sourcePort)
             b2 == htons(s2.f.destPort)
             b3 == <<0, 0, 0, 0>>
  <2>3. Bytes(b1, 2) /\ Bytes(b2, 2) /\ Bytes(b3, 4)
    BY <2>1, <2>2, BytesAre
  <2>6. Zeros(b3, 2) /\ 2 \in Nat /\ 4 \in Nat /\ 2 + 2 <= 4 /\ 4 + 2 = 6
    BY DEF Zeros, At
  <2> HIDE DEF b1, b2, b3
  <2>4. Bytes(b1 \o b2, 4)
    BY <2>3, BytesConcat
  <2>5. Bytes(b1 \o b2 \o b3, 8)
    BY <2>3, <2>4, BytesConcat
  <2>7. Zeros((b1 \o b2) \o b3, 4 + 2)
    BY <2>3, <2>4, <2>6, ZerosConcat
  <2> QED BY <2>5, <2>6, <2>7 DEF b1, b2, b3
<1> HIDE DEF b
<1>6. Reads(s, Put(s2, b), 2, 2, 8)
  BY <1>4, <1>5, PutReads
<1>7. ~s2.ok => Reads(s, s2, 2, 2, 8)
  BY <1>4 DEF Goes, Reads
<1>8. DeserializeUdpHeader(s) = IF ~s2.ok THEN s2 ELSE Put(s2, b)
  BY DEF DeserializeUdpHeader, b, s2, s1
<1>9. s2.ok => Put(s2, b).buf = s.buf \o b
  <2>1. s2 \in State /\ (s2.ok => s2.buf = s.buf)
    BY <1>4 DEF Goes
  <2>2. s2.ok => b \in Seq(Byte)
    BY <1>5 DEF Bytes
  <2>3. Put(s2, b).ok = s2.ok /\ (Put(s2, b).ok => Put(s2, b).buf = s2.buf \o b)
    BY <2>1, <2>2, PutIs
  <2> QED BY <2>1, <2>3
<1>10. Clear(s, DeserializeUdpHeader(s), 8, 6)
  BY <1>5, <1>8, <1>9 DEF Clear
<1> QED BY <1>6, <1>7, <1>8, <1>10

LEMMA IcmpTypes == ICMP_DEST_UNREACH # ICMP_REDIRECT /\ ICMP_DEST_UNREACH # ICMP_PARAMETERPROB
                   /\ ICMP_REDIRECT # ICMP_PARAMETERPROB
                   /\ IcmpEchoLike \cap {ICMP_DEST_UNREACH, ICMP_REDIRECT} = {}
BY DEF ICMP_DEST_UNREACH, ICMP_REDIRECT, ICMP_PARAMETERPROB, IcmpEchoLike

LEMMA IcmpCodeGoes ==
  ASSUME NEW s \in State, NEW type
  PROVE  Goes(s, DeserializeIcmpCode(s, type), 3, 3, {"code"})
<1> DEFINE x == DeserializeIcmpCode(s, type)
<1>0. 3 \in 2 .. 5
  OBVIOUS
<1>1. "code" \in FieldNames /\ FieldSet("code") = Byte /\ "code" \in ByteFields
  BY NamesOfFields, FieldSets
<1>2. CASE type = ICMP_DEST_UNREACH
  <2>1. x = ExpectNextEnumProperty(s, "code", "unreachable", kIcmpDestinationUnreachableCodeNames)
    BY <1>2, IcmpTypes DEF DeserializeIcmpCode
  <2>2. kIcmpDestinationUnreachableCodeNames \in SUBSET FieldSet("code")
    BY <1>1, NamedBytes, Zenon
  <2> QED BY <1>0, <1>1, <2>1, <2>2, EnumPropertyGoes
<1>3. CASE type = ICMP_REDIRECT
  <2>1. x = ExpectNextEnumProperty(s, "code", "redirect", kIcmpRedirectMessageCodeNames)
    BY <1>3, IcmpTypes DEF DeserializeIcmpCode
  <2>2. kIcmpRedirectMessageCodeNames \in SUBSET FieldSet("code")
    BY <1>1, NamedBytes, Zenon
  <2> QED BY <1>0, <1>1, <2>1, <2>2, EnumPropertyGoes
<1>4. CASE type = ICMP_PARAMETERPROB
  <2>1. x = ExpectNextEnumProperty(s, "code", "badIpHeader", kIcmpBadIpHeaderCodeNames)
    BY <1>4, IcmpTypes DEF DeserializeIcmpCode
  <2>2. kIcmpBadIpHeaderCodeNames \in SUBSET FieldSet("code")
    BY <1>1, NamedBytes, Zenon
  <2> QED BY <1>0, <1>1, <2>1, <2>2, EnumPropertyGoes
<1>5. CASE type \notin {ICMP_DEST_UNREACH, ICMP_REDIRECT, ICMP_PARAMETERPROB}
  <2>1. x = ExpectNextProperty(s, "code", 0, 255)
    BY <1>5 DEF DeserializeIcmpCode
  <2> QED BY <1>1, <2>1, ByteFieldGoes
<1> QED BY <1>2, <1>3, <1>4, <1>5

\* A field of four bytes made of others.
LEMMA RestGoes ==
  ASSUME NEW s, NEW c, NEW v, NEW D, Goes(s, c, 3, 3, D), c.ok => Bytes(v, 4)
  PROVE  Goes(s, IF c.ok THEN Set(c, "rest", v) ELSE c, 3, 3, {"rest"})
<1>1. c \in State
  BY GoesState
<1>2. ASSUME c.ok PROVE Goes(c, Set(c, "rest", v), 3, 3, {"rest"})
  <2>1. v \in Quad
    BY <1>2 DEF Bytes, Quad
  <2>2. "rest" \in FieldNames /\ v \in FieldSet("rest")
    BY <2>1, NamesOfFields, FieldSets
  <2> QED BY <1>1, <2>2, SetGoes
<1> DEFINE z == Set(c, "rest", v)
<1> HIDE DEF z
<1>3. c.ok => Goes(c, z, 3, 3, {"rest"})
  BY <1>2 DEF z
<1>4. {"rest"} \subseteq D \cup {"rest"}
  OBVIOUS
<1>5. Goes(s, IF c.ok THEN z ELSE c, 3, 3, {"rest"})
  BY <1>3, <1>4, GoesIf
<1> QED BY <1>5 DEF z

LEMMA IcmpRestGoes ==
  ASSUME NEW s \in State, NEW type
  PROVE  Goes(s, DeserializeIcmpRest(s, type), 3, 3, {"rest"})
<1> DEFINE x == DeserializeIcmpRest(s, type)
<1>0. 3 \in 2 .. 5 /\ 0 \in Byte
  BY DEF Byte
<1>1. CASE type \in IcmpEchoLike
  <2> DEFINE y == U16Property(s, "identifier")
             c == U16Property(y, "sequenceNumber")
             v == htons(c.f.identifier) \o htons(c.f.sequenceNumber)
  <2>1. x = IF c.ok THEN Set(c, "rest", v) ELSE c
    BY <1>1, IcmpTypes DEF DeserializeIcmpRest
  <2>2. Goes(s, y, 3, 3, {"identifier"})
    BY <1>0, NamesOfFields, U16PropertyGoes
  <2>3. y \in State
    BY <2>2, GoesState
  <2> HIDE DEF y
  <2>4. Goes(y, c, 3, 3, {"sequenceNumber"})
    BY <1>0, <2>3, NamesOfFields, U16PropertyGoes
  <2> HIDE DEF c
  <2>5. Goes(s, c, 3, 3, {"identifier", "sequenceNumber"})
    BY <2>2, <2>4, GoesTo
  <2>6. ASSUME c.ok PROVE Bytes(v, 4)
    <3>1. c.f["identifier"] \in U16 /\ c.f["sequenceNumber"] \in U16
      BY <2>5, <2>6, GoesState, NamesOfFields, FieldSets
    <3> DEFINE b1 == htons(c.f.identifier)
               b2 == htons(c.f.sequenceNumber)
    <3>2. Bytes(b1, 2) /\ Bytes(b2, 2)
      BY <3>1, BytesAre
    <3> HIDE DEF b1, b2
    <3>3. Bytes(b1 \o b2, 4)
      BY <3>2, BytesConcat
    <3> QED BY <3>3 DEF b1, b2
  <2> HIDE DEF v
  <2> QED BY <2>1, <2>5, <2>6, RestGoes
<1>2. CASE type = ICMP_DEST_UNREACH
  <2> DEFINE c == U16Property(s, "nextHopMtu")
             v == <<0, 0>> \o htons(c.f.nextHopMtu)
  <2>1. x = IF c.ok THEN Set(c, "rest", v) ELSE c
    BY <1>2, IcmpTypes DEF DeserializeIcmpRest
  <2>2. Goes(s, c, 3, 3, {"nextHopMtu"})
    BY <1>0, NamesOfFields, U16PropertyGoes
  <2> HIDE DEF c
  <2>3. ASSUME c.ok PROVE Bytes(v, 4)
    <3>1. c.f["nextHopMtu"] \in U16
      BY <2>2, <2>3, GoesState, NamesOfFields, FieldSets
    <3> DEFINE b1 == <<0, 0>>
               b2 == htons(c.f.nextHopMtu)
    <3>2. Bytes(b1, 2) /\ Bytes(b2, 2)
      BY <1>0, <3>1, BytesAre
    <3> HIDE DEF b1, b2
    <3>3. Bytes(b1 \o b2, 4)
      BY <3>2, BytesConcat
    <3> QED BY <3>3 DEF b1, b2
  <2> HIDE DEF v
  <2> QED BY <2>1, <2>2, <2>3, RestGoes
<1>3. CASE type = ICMP_REDIRECT
  <2> DEFINE c == ExpectIp4Property(s, "gateway")
             v == c.f.gateway
  <2>1. x = IF c.ok THEN Set(c, "rest", v) ELSE c
    BY <1>3, IcmpTypes DEF DeserializeIcmpRest
  <2>2. Goes(s, c, 3, 3, {"gateway"})
    BY <1>0, NamesOfFields, Ip4PropertyGoes
  <2> HIDE DEF c
  <2>3. ASSUME c.ok PROVE Bytes(v, 4)
    BY <2>2, <2>3, GoesState, NamesOfFields, FieldSets, BytesAre
  <2> HIDE DEF v
  <2> QED BY <2>1, <2>2, <2>3, RestGoes
<1>4. CASE type \notin IcmpEchoLike \cup {ICMP_DEST_UNREACH, ICMP_REDIRECT}
  <2> DEFINE v == <<0, 0, 0, 0>>
  <2>1. x = Set(s, "rest", v)
    BY <1>4 DEF DeserializeIcmpRest
  <2>2. Bytes(v, 4)
    BY <1>0, BytesAre
  <2> HIDE DEF v
  <2>3. v \in FieldSet("rest") /\ "rest" \in FieldNames
    <3>1. v \in Quad
      BY <2>2 DEF Bytes, Quad
    <3> QED BY <3>1, NamesOfFields, FieldSets
  <2> QED BY <2>1, <2>3, SetGoes
<1> QED BY <1>1, <1>2, <1>3, <1>4

LEMMA IcmpHeaderReads ==
  ASSUME NEW s \in State
  PROVE  Reads(s, DeserializeIcmpHeader(s), 2, 2, 8) /\ Clear(s, DeserializeIcmpHeader(s), 8, 2)
<1> DEFINE s0 == ExpectNextToken(s, "StartObject")
           s1 == ExpectNextEnumProperty(s0, "type", "icmpType", kIcmpTypeNames)
           type == s1.f.type
           t1 == DeserializeIcmpCode(s1, type)
           s2 == DeserializeIcmpRest(t1, type)
           s3 == ExpectNextToken(s2, "EndObject")
           b == <<type, s3.f.code, 0, 0>> \o s3.f.rest
<1>0. 3 \in 2 .. 5 /\ 0 \in Byte
  BY DEF Byte
<1>1. Goes(s, s0, 2, 3, {})
  BY NextTokenGoes, TypeAfterValues
<1>2. s0 \in State
  BY <1>1, GoesState
<1> HIDE DEF s0
<1>3. Goes(s0, s1, 3, 3, {"type"}) /\ (s1.ok => s1.f["type"] \in kIcmpTypeNames)
  <2>1. "type" \in FieldNames /\ kIcmpTypeNames \in SUBSET FieldSet("type")
    BY NamesOfFields, FieldSets, NamedBytes
  <2> QED BY <1>0, <1>2, <2>1, EnumPropertyGoes
<1>4. s1 \in State /\ (s1.ok => type \in Byte)
  BY <1>3, GoesState, NamedBytes
<1> HIDE DEF s1, type
<1>5. Goes(s1, t1, 3, 3, {"code"})
  BY <1>4, IcmpCodeGoes
<1>6. t1 \in State
  BY <1>5, GoesState
<1> HIDE DEF t1
<1>7. Goes(t1, s2, 3, 3, {"rest"})
  BY <1>6, IcmpRestGoes
<1>8. s2 \in State
  BY <1>7, GoesState
<1> HIDE DEF s2
<1>9. Goes(s2, s3, 3, 2, {})
  BY <1>8, NextTokenGoes, TypeAfterValues
<1> HIDE DEF s3
<1>10. Goes(s, s1, 2, 3, {})
  BY <1>1, <1>3, GoesTo
<1>11. Goes(s, s3, 2, 2, {"code", "rest"})
  <2>1. Goes(s, t1, 2, 3, {"code"})
    BY <1>5, <1>10, GoesTo
  <2>2. Goes(s, s2, 2, 3, {"code", "rest"})
    BY <1>7, <2>1, GoesTo
  <2> QED BY <1>9, <2>2, GoesTo
<1>12. ASSUME s1.ok, s3.ok PROVE Bytes(b, 8) /\ Zeros(b, 2)
  <2>1. s3.f["code"] \in Byte /\ s3.f["rest"] \in Quad
    BY <1>11, <1>12, GoesState, NamesOfFields, FieldSets
  <2> DEFINE b1 == <<type, s3.f.code, 0, 0>>
             b2 == s3.f.rest
  <2>2. Bytes(b1, 4) /\ Bytes(b2, 4)
    BY <1>0, <1>4, <1>12, <2>1, BytesAre
  <2>4. Zeros(b1, 2) /\ 2 \in Nat /\ 4 \in Nat /\ 2 + 2 <= 4
    BY DEF Zeros, At
  <2> HIDE DEF b1, b2
  <2>3. Bytes(b1 \o b2, 8)
    BY <2>2, BytesConcat
  <2>5. Zeros(b1 \o b2, 2)
    BY <2>2, <2>4, ZerosConcat
  <2> QED BY <2>3, <2>5 DEF b1, b2
<1> HIDE DEF b
<1>13. ~s1.ok => Reads(s, s1, 2, 2, 8)
  BY <1>10 DEF Goes, Reads
<1>14. ~s3.ok => Reads(s, s3, 2, 2, 8)
  BY <1>11 DEF Goes, Reads
<1>15. s1.ok /\ s3.ok => Reads(s, Put(s3, b), 2, 2, 8)
  BY <1>11, <1>12, PutReads
<1>16. DeserializeIcmpHeader(s) = IF ~s1.ok THEN s1 ELSE IF ~s3.ok THEN s3 ELSE Put(s3, b)
  BY DEF DeserializeIcmpHeader, b, s3, s2, t1, type, s1, s0
<1>17. s3.ok /\ s1.ok => Put(s3, b).buf = s.buf \o b
  BY <1>11, <1>12, PutIs, ZenonT(60) DEF Goes, Bytes
<1>18. Clear(s, DeserializeIcmpHeader(s), 8, 2)
  BY <1>12, <1>16, <1>17 DEF Clear
<1> QED BY <1>13, <1>14, <1>15, <1>16, <1>18

(***************************************************************************)
(* The recursive functions on bytes and texts.                             *)
(***************************************************************************)
AddBody(s, f, i) == IF i = 0 THEN 0 ELSE f[i - 1] + 256 * s[2 * i - 1] + s[2 * i]
Adds(s, f) == f = [i \in 0 .. Len(s) \div 2 |-> AddBody(s, f, i)]

LEMMA AddIs ==
  ASSUME NEW s
  PROVE  Add(s) = (CHOOSE f : Adds(s, f))[Len(s) \div 2]
                  + (IF Len(s) % 2 = 1 THEN 256 * s[Len(s)] ELSE 0)
BY DEF Add, Adds, AddBody

\* The number of words of s, and each of them.
Size(s) == (Len(s) + 1) \div 2
WordAt(s, i) == 256 * s[2 * i - 1] + (IF 2 * i > Len(s) THEN 0 ELSE s[2 * i])

\* f has the sums of the first words of s.
IsSum(s, f) ==
  /\ f \in [0 .. Size(s) -> Nat]
  /\ f[0] = 0
  /\ \A i \in 1 .. Size(s) : f[i] = f[i - 1] + WordAt(s, i)

LEMMA SizeIs ==
  ASSUME NEW s \in Seq(Byte)
  PROVE  /\ Size(s) \in Nat /\ Len(s) \in Nat
         /\ Len(s) = 2 * Size(s) \/ Len(s) = 2 * Size(s) - 1
BY DEF Size

LEMMA ByteAt ==
  ASSUME NEW s \in Seq(Byte), NEW i \in 1 .. Len(s)
  PROVE  s[i] \in 0 .. 255 /\ s[i] \in Nat
<1>1. s[i] \in Byte
  OBVIOUS
<1> DEFINE x == s[i]
<1>2. x \in Byte
  BY <1>1
<1> HIDE DEF x
<1>3. x \in 0 .. 255 /\ x \in Nat
  BY <1>2 DEF Byte
<1> QED BY <1>3 DEF x

LEMMA WordOf ==
  ASSUME NEW x \in 0 .. 255, NEW y \in 0 .. 255
  PROVE  256 * x + y \in U16 /\ 256 * x + y \in Nat
<1>1. /\ x \in Int /\ 0 <= x /\ x <= 255
      /\ y \in Int /\ 0 <= y /\ y <= 255
  OBVIOUS
<1>2. 256 * x + y \in Int /\ 0 <= 256 * x + y /\ 256 * x + y <= 65535
  BY <1>1, SMTT(30)
<1> DEFINE w == 256 * x + y
<1>3. w \in Int /\ 0 <= w /\ w <= 65535
  BY <1>2
<1> HIDE DEF w
<1>4. w \in U16 /\ w \in Nat
  BY <1>3, SMTT(30) DEF U16
<1> QED BY <1>4 DEF w

LEMMA WordRange ==
  ASSUME NEW s \in Seq(Byte), NEW i \in 1 .. Size(s)
  PROVE  WordAt(s, i) \in U16 /\ WordAt(s, i) \in Nat
<1> DEFINE a == s[2 * i - 1]
           b == IF 2 * i > Len(s) THEN 0 ELSE s[2 * i]
<1>1. Len(s) \in Nat /\ 2 * i - 1 \in 1 .. Len(s)
  BY SizeIs
<1>2. a \in 0 .. 255
  BY <1>1, ByteAt
<1>3. b \in 0 .. 255
  <2>1. CASE 2 * i > Len(s)
    BY <2>1
  <2>2. CASE ~(2 * i > Len(s))
    <3>1. 2 * i \in 1 .. Len(s)
      BY <1>1, <2>2
    <3>2. s[2 * i] \in 0 .. 255
      BY <3>1, ByteAt
    <3> QED BY <2>2, <3>2
  <2> QED BY <2>1, <2>2
<1>4. WordAt(s, i) = 256 * a + b
  BY DEF WordAt
<1> HIDE DEF a, b
<1> QED BY <1>2, <1>3, <1>4, WordOf, ZenonT(60)

LEMMA SumExists ==
  ASSUME NEW s \in Seq(Byte)
  PROVE  \E f : IsSum(s, f)
<1> DEFINE N == Size(s)
           P(n, f) == /\ f \in [0 .. n -> Nat] /\ f[0] = 0
                      /\ \A i \in 1 .. n : f[i] = f[i - 1] + WordAt(s, i)
           S == {n \in Nat : n <= N => \E f : P(n, f)}
<1>1. N \in Nat
  BY SizeIs
<1>2. 0 \in S
  <2> DEFINE f == [i \in 0 .. 0 |-> 0]
  <2>1. P(0, f)
    OBVIOUS
  <2> QED BY <2>1
<1>3. ASSUME NEW n \in Nat, n \in S PROVE n + 1 \in S
  <2>1. CASE n + 1 <= N
    <3>1. PICK f : P(n, f)
      BY <1>1, <1>3, <2>1
    <3> DEFINE w == WordAt(s, n + 1)
               g == [i \in 0 .. n + 1 |-> IF i = n + 1 THEN f[n] + w ELSE f[i]]
    <3>2. w \in Nat
      <4>1. n + 1 \in 1 .. Size(s)
        BY <1>1, <2>1
      <4> QED BY <4>1, WordRange
    <3> HIDE DEF w
    <3>3. f[n] + w \in Nat /\ \A i \in 0 .. n : f[i] \in Nat
      BY <3>1, <3>2
    <3>4. g \in [0 .. n + 1 -> Nat]
      <4>1. \A i \in 0 .. n + 1 : i = n + 1 \/ i \in 0 .. n
        OBVIOUS
      <4> QED BY <3>3, <4>1
    <3>5. g[n + 1] = f[n] + w /\ \A i \in 0 .. n : g[i] = f[i]
      BY <3>1
    <3> HIDE DEF g
    <3>6. ASSUME NEW i \in 1 .. n + 1 PROVE g[i] = g[i - 1] + WordAt(s, i)
      <4>1. CASE i = n + 1
        <5>1. i - 1 = n /\ n \in 0 .. n
          BY <4>1
        <5> QED BY <3>5, <4>1, <5>1 DEF w
      <4>2. CASE i # n + 1
        <5>1. i \in 1 .. n /\ i \in 0 .. n /\ i - 1 \in 0 .. n
          BY <4>2
        <5> QED BY <3>1, <3>5, <5>1
      <4> QED BY <4>1, <4>2
    <3>7. g[0] = 0
      <4>1. 0 \in 0 .. n
        OBVIOUS
      <4> QED BY <3>1, <3>5, <4>1
    <3>8. P(n + 1, g)
      BY <3>4, <3>6, <3>7
    <3> QED BY <3>8, SMTT(40)
  <2>2. CASE ~(n + 1 <= N)
    BY <2>2
  <2> QED BY <2>1, <2>2
<1> HIDE DEF S
<1>4. N \in S
  BY <1>1, <1>2, <1>3, Induct
<1>5. \E f : P(N, f)
  BY <1>1, <1>4 DEF S
<1> QED BY <1>5 DEF IsSum

\* What agrees with the sums in the steps agrees with them.
LEMMA SameSums ==
  ASSUME NEW n \in Nat, NEW f, NEW g, f[0] = g[0],
         \A i \in 1 .. n : f[i - 1] = g[i - 1] => f[i] = g[i]
  PROVE  \A i \in 0 .. n : f[i] = g[i]
<1> DEFINE S == {k \in Nat : k <= n => f[k] = g[k]}
<1>1. 0 \in S
  OBVIOUS
<1>2. ASSUME NEW k \in Nat, k \in S PROVE k + 1 \in S
  <2>1. CASE k + 1 <= n
    <3>1. k + 1 \in 1 .. n /\ (k + 1) - 1 = k /\ k <= n
      BY <2>1
    <3>2. f[k] = g[k]
      BY <1>2, <3>1
    <3> QED BY <3>1, <3>2
  <2>2. CASE ~(k + 1 <= n)
    BY <2>2
  <2> QED BY <2>1, <2>2
<1> HIDE DEF S
<1>3. \A k \in Nat : k \in S
  BY <1>1, <1>2, Induct
<1> QED BY <1>3 DEF S

SumBody(s, f, i) == IF i = 0 THEN 0 ELSE f[i - 1] + WordAt(s, i)
Sums(s, f) == f = [i \in 0 .. Size(s) |-> SumBody(s, f, i)]

LEMMA WordSumDef ==
  ASSUME NEW s
  PROVE  WordSum(s) = (CHOOSE f : Sums(s, f))[Size(s)]
BY DEF WordSum, Sums, SumBody, WordAt, Size

LEMMA WordSumIs ==
  ASSUME NEW s \in Seq(Byte), NEW f, IsSum(s, f)
  PROVE  WordSum(s) = f[Size(s)]
<1> DEFINE N == Size(s)
           g == CHOOSE e : Sums(s, e)
<1>1. N \in Nat
  BY SizeIs
<1>2. Sums(s, f)
  <2>1. ASSUME NEW i \in 0 .. N PROVE f[i] = SumBody(s, f, i)
    <3>1. i = 0 \/ i \in 1 .. N
      BY <1>1
    <3> QED BY <3>1 DEF IsSum, SumBody
  <2> DEFINE e == [i \in 0 .. N |-> SumBody(s, f, i)]
  <2>2. f \in [0 .. N -> Nat]
    BY DEF IsSum
  <2>3. f = e
    <3> HIDE DEF N
    <3> QED BY <2>1, <2>2
  <2> QED BY <2>3 DEF Sums
<1>3. Sums(s, g)
  BY <1>2
<1> HIDE DEF g
<1>4. \A i \in 0 .. N : g[i] = SumBody(s, g, i)
  <2> HIDE DEF N
  <2>1. g = [i \in 0 .. N |-> SumBody(s, g, i)]
    BY <1>3 DEF Sums, N
  <2> QED BY <2>1
<1>5. f[0] = g[0]
  <2>1. 0 \in 0 .. N
    BY <1>1
  <2> QED BY <1>4, <2>1 DEF IsSum, SumBody
<1>6. ASSUME NEW i \in 1 .. N, f[i - 1] = g[i - 1] PROVE f[i] = g[i]
  <2>1. i \in 0 .. N /\ i # 0
    BY <1>1
  <2>2. g[i] = g[i - 1] + WordAt(s, i)
    BY <1>4, <2>1 DEF SumBody
  <2> QED BY <1>6, <2>2 DEF IsSum
<1> HIDE DEF N
<1>7. \A i \in 0 .. N : f[i] = g[i]
  BY <1>1, <1>5, <1>6, SameSums, ZenonT(60)
<1>8. N \in 0 .. N
  BY <1>1
<1> QED BY <1>7, <1>8, WordSumDef DEF g, N

LEMMA AddIsWordSum ==
  ASSUME NEW s \in Seq(Byte)
  PROVE  Add(s) = WordSum(s)
<1> DEFINE N == Size(s)
           M == Len(s) \div 2
           g == CHOOSE e : Adds(s, e)
<1>1. PICK f : IsSum(s, f)
  BY SumExists
<1>2. /\ N \in Nat /\ M \in Nat /\ M <= N /\ Len(s) \in Nat
      /\ Len(s) % 2 = 1 => N = M + 1 /\ Len(s) = 2 * N - 1
      /\ Len(s) % 2 # 1 => N = M
      /\ 2 * M <= Len(s)
  BY DEF Size
<1>3. ASSUME NEW i \in 1 .. M PROVE WordAt(s, i) = 256 * s[2 * i - 1] + s[2 * i]
  <2>1. ~(2 * i > Len(s))
    BY <1>2
  <2> QED BY <2>1 DEF WordAt
<1>4. ASSUME NEW i \in 1 .. M, NEW x \in Nat
      PROVE  x + WordAt(s, i) = x + 256 * s[2 * i - 1] + s[2 * i]
  <2> DEFINE a == s[2 * i - 1]
             b == s[2 * i]
  <2>1. 2 * i - 1 \in 1 .. Len(s) /\ 2 * i \in 1 .. Len(s)
    BY <1>2
  <2>2. a \in Nat /\ b \in Nat
    BY <2>1, ByteAt
  <2>3. WordAt(s, i) = 256 * a + b
    BY <1>3
  <2> HIDE DEF a, b
  <2>4. x + (256 * a + b) = x + 256 * a + b
    BY <2>2
  <2> QED BY <2>3, <2>4 DEF a, b
<1> HIDE DEF N, M
<1>5. /\ f[0] = 0 /\ \A i \in 0 .. N : f[i] \in Nat
      /\ \A i \in 1 .. N : f[i] = f[i - 1] + WordAt(s, i)
  BY <1>1 DEF IsSum, N
<1>6. ASSUME NEW i \in 1 .. M PROVE f[i] = f[i - 1] + 256 * s[2 * i - 1] + s[2 * i]
  <2>1. i \in 1 .. N /\ i - 1 \in 0 .. N
    BY <1>2
  <2> QED BY <1>4, <1>5, <2>1
<1> DEFINE e == [i \in 0 .. M |-> f[i]]
<1>7. Adds(s, e)
  <2>1. ASSUME NEW i \in 0 .. M PROVE e[i] = AddBody(s, e, i)
    <3>1. CASE i = 0
      BY <1>5, <3>1 DEF AddBody
    <3>2. CASE i # 0
      <4>1. i \in 1 .. M /\ i - 1 \in 0 .. M
        BY <1>2, <3>2
      <4>2. e[i - 1] = f[i - 1] /\ e[i] = f[i]
        BY <4>1
      <4> QED BY <1>6, <3>2, <4>1, <4>2 DEF AddBody
    <3> QED BY <3>1, <3>2
  <2>2. e = [i \in 0 .. M |-> AddBody(s, e, i)]
    BY <2>1
  <2> QED BY <2>2 DEF Adds, M
<1>8. Adds(s, g)
  BY <1>7
<1> HIDE DEF g, e
<1>9. \A i \in 0 .. M : g[i] = AddBody(s, g, i)
  <2>1. g = [i \in 0 .. M |-> AddBody(s, g, i)]
    BY <1>8 DEF Adds, M
  <2> QED BY <2>1
<1>10. f[0] = g[0]
  <2>1. 0 \in 0 .. M
    BY <1>2
  <2> QED BY <1>5, <1>9, <2>1 DEF AddBody
<1>11. ASSUME NEW i \in 1 .. M, f[i - 1] = g[i - 1] PROVE f[i] = g[i]
  <2>1. i \in 0 .. M /\ i # 0
    BY <1>2
  <2>2. g[i] = g[i - 1] + 256 * s[2 * i - 1] + s[2 * i]
    BY <1>9, <2>1 DEF AddBody
  <2> QED BY <1>6, <1>11, <2>2
<1>12. f[M] = g[M]
  <2>0. \A i \in 1 .. M : f[i - 1] = g[i - 1] => f[i] = g[i]
    BY <1>11
  <2>1. \A i \in 0 .. M : f[i] = g[i]
    <3>1. M \in Nat
      BY <1>2
    <3> QED BY <1>10, <2>0, <3>1, SameSums, SMTT(40)
  <2>2. M \in 0 .. M
    BY <1>2
  <2> QED BY <2>1, <2>2
<1>13. Add(s) = f[M] + (IF Len(s) % 2 = 1 THEN 256 * s[Len(s)] ELSE 0)
  BY <1>12, AddIs DEF g, M
<1>14. WordSum(s) = f[N]
  BY <1>1, WordSumIs DEF N
<1>15. CASE Len(s) % 2 = 1
  <2>1. N \in 1 .. N /\ N - 1 = M /\ 2 * N - 1 = Len(s) /\ 2 * N > Len(s)
    BY <1>2, <1>15
  <2>2. f[N] = f[M] + WordAt(s, N)
    BY <1>5, <2>1
  <2> DEFINE a == s[Len(s)]
  <2>3. WordAt(s, N) = 256 * a + 0
    BY <2>1 DEF WordAt
  <2>4. a \in Nat
    <3>1. Len(s) \in 1 .. Len(s)
      BY <1>2, <2>1
    <3> QED BY <3>1, ByteAt
  <2> HIDE DEF a
  <2>5. 256 * a + 0 = 256 * a
    BY <2>4
  <2> QED BY <1>13, <1>14, <1>15, <2>2, <2>3, <2>5 DEF a
<1>16. CASE Len(s) % 2 # 1
  <2>1. N = M /\ M \in 0 .. N
    BY <1>2, <1>16
  <2>2. f[M] + 0 = f[M]
    BY <1>5, <2>1
  <2> QED BY <1>13, <1>14, <1>16, <2>1, <2>2
<1> QED BY <1>15, <1>16

\* A sum of n words.
LEMMA WordSumBound ==
  ASSUME NEW s \in Seq(Byte)
  PROVE  WordSum(s) \in Nat /\ WordSum(s) <= 65535 * Size(s)
<1> DEFINE N == Size(s)
<1>1. N \in Nat
  BY SizeIs
<1>2. PICK f : IsSum(s, f)
  BY SumExists
<1>3. /\ f[0] = 0 /\ \A i \in 0 .. N : f[i] \in Nat
      /\ \A i \in 1 .. N : f[i] = f[i - 1] + WordAt(s, i)
  BY <1>2 DEF IsSum
<1>4. ASSUME NEW i \in 1 .. N PROVE WordAt(s, i) \in U16
  BY WordRange
<1> HIDE DEF N
<1> DEFINE S == {i \in Nat : i <= N => f[i] <= 65535 * i}
<1>5. 0 \in S
  BY <1>3
<1>6. ASSUME NEW i \in Nat, i \in S PROVE i + 1 \in S
  <2>1. CASE i + 1 <= N
    <3> DEFINE x == f[i]
               w == WordAt(s, i + 1)
    <3>1. i + 1 \in 1 .. N /\ i \in 0 .. N /\ (i + 1) - 1 = i
      BY <1>1, <2>1
    <3>2. f[i + 1] = x + w /\ x \in Nat /\ w \in U16 /\ x <= 65535 * i
      BY <1>1, <1>3, <1>4, <1>6, <3>1, SMTT(40)
    <3> HIDE DEF x, w
    <3>3. x + w <= 65535 * (i + 1)
      BY <3>2, SMTT(40) DEF U16
    <3> QED BY <3>2, <3>3
  <2>2. CASE ~(i + 1 <= N)
    BY <2>2
  <2> QED BY <2>1, <2>2
<1> HIDE DEF S
<1>7. N \in S
  BY <1>1, <1>5, <1>6, Induct
<1>8. f[N] <= 65535 * N
  BY <1>1, <1>7 DEF S
<1>9. N \in 0 .. N
  BY <1>1
<1>10. WordSum(s) = f[N]
  BY <1>2, WordSumIs DEF N
<1> QED BY <1>3, <1>8, <1>9, <1>10 DEF N

LEMMA WordSumConcat ==
  ASSUME NEW a \in Seq(Byte), NEW b \in Seq(Byte), NEW k \in Nat, Len(a) = 2 * k
  PROVE  WordSum(a \o b) = WordSum(a) + WordSum(b)
<1> DEFINE c == a \o b
           M == Size(b)
           N == Size(c)
<1>1. Len(a) \in Nat /\ Len(b) \in Nat /\ c \in Seq(Byte) /\ Len(c) = 2 * k + Len(b)
  <2>1. c \in Seq(Byte) /\ Len(c) = Len(a) + Len(b)
    BY Concat
  <2> HIDE DEF c
  <2> QED BY <2>1
<1>2. Size(a) = k
  BY DEF Size
<1>3. M \in Nat /\ N = k + M
  <2>1. M \in Nat /\ (Len(b) = 2 * M \/ Len(b) = 2 * M - 1)
    BY SizeIs
  <2>2. N \in Nat /\ (Len(c) = 2 * N \/ Len(c) = 2 * N - 1)
    BY <1>1, SizeIs
  <2> HIDE DEF M, N, c
  <2> QED BY <1>1, <2>1, <2>2
<1>4. PICK f : IsSum(a, f)
  BY SumExists
<1>5. PICK g : IsSum(b, g)
  BY SumExists
<1>6. /\ f[0] = 0 /\ \A i \in 0 .. k : f[i] \in Nat
      /\ \A i \in 1 .. k : f[i] = f[i - 1] + WordAt(a, i)
  BY <1>2, <1>4 DEF IsSum
<1>7. /\ g[0] = 0 /\ \A i \in 0 .. M : g[i] \in Nat
      /\ \A i \in 1 .. M : g[i] = g[i - 1] + WordAt(b, i)
  BY <1>5 DEF IsSum
<1>8. /\ \A i \in 1 .. 2 * k : c[i] = a[i]
      /\ \A i \in 2 * k + 1 .. 2 * k + Len(b) : c[i] = b[i - 2 * k]
  BY ConcatAt
<1> HIDE DEF c
<1>9. ASSUME NEW i \in 1 .. k PROVE WordAt(c, i) = WordAt(a, i)
  <2>1. /\ 2 * i - 1 \in 1 .. 2 * k /\ 2 * i \in 1 .. 2 * k
        /\ ~(2 * i > Len(c)) /\ ~(2 * i > Len(a))
    BY <1>1
  <2> QED BY <1>8, <2>1 DEF WordAt
<1>10. ASSUME NEW i \in 1 .. M PROVE WordAt(c, k + i) = WordAt(b, i)
  <2>1. M \in Nat /\ (Len(b) = 2 * M \/ Len(b) = 2 * M - 1)
    BY SizeIs
  <2> HIDE DEF M
  <2>2. /\ 2 * (k + i) - 1 \in 2 * k + 1 .. 2 * k + Len(b)
        /\ (2 * (k + i) - 1) - 2 * k = 2 * i - 1
        /\ 2 * (k + i) > Len(c) <=> 2 * i > Len(b)
        /\ 2 * i <= Len(b) => /\ 2 * (k + i) \in 2 * k + 1 .. 2 * k + Len(b)
                              /\ 2 * (k + i) - 2 * k = 2 * i
    BY <1>1, <2>1
  <2>3. c[2 * (k + i) - 1] = b[2 * i - 1]
    BY <1>8, <2>2
  <2>4. CASE 2 * i > Len(b)
    BY <2>2, <2>3, <2>4 DEF WordAt
  <2>5. CASE ~(2 * i > Len(b))
    <3>1. 2 * i <= Len(b)
      BY <1>1, <2>5
    <3>2. c[2 * (k + i)] = b[2 * i]
      BY <1>8, <2>2, <3>1
    <3> QED BY <2>2, <2>3, <2>5, <3>2 DEF WordAt
  <2> QED BY <2>4, <2>5
<1> HIDE DEF M, N
<1> DEFINE e == [i \in 0 .. k + M |-> IF i <= k THEN f[i] ELSE f[k] + g[i - k]]
<1>11. \A i \in 0 .. k : e[i] = f[i]
  BY <1>3
<1>12. ASSUME NEW i \in 0 .. M PROVE e[k + i] = f[k] + g[i]
  <2>1. k + i \in 0 .. k + M /\ (k + i) - k = i /\ k \in 0 .. k
    BY <1>3
  <2>2. CASE i = 0
    <3>1. f[k] + g[i] = f[k] /\ k + i = k
      BY <1>6, <1>7, <2>1, <2>2
    <3> QED BY <1>11, <2>1, <3>1
  <2>3. CASE i # 0
    <3>1. ~(k + i <= k)
      BY <2>3
    <3> QED BY <2>1, <3>1
  <2> QED BY <2>2, <2>3
<1>13. ASSUME NEW i \in 0 .. k + M PROVE e[i] \in Nat
  <2>1. CASE i <= k
    <3>1. i \in 0 .. k
      BY <1>3, <2>1
    <3> QED BY <1>6, <1>11, <3>1
  <2>2. CASE ~(i <= k)
    <3> DEFINE j == i - k
    <3>1. j \in 0 .. M /\ k + j = i /\ k \in 0 .. k
      BY <1>3, <2>2
    <3> HIDE DEF j
    <3>2. e[i] = f[k] + g[j] /\ f[k] \in Nat /\ g[j] \in Nat
      BY <1>6, <1>7, <1>12, <3>1
    <3> QED BY <3>2
  <2> QED BY <2>1, <2>2
<1>14. ASSUME NEW i \in 1 .. k + M PROVE e[i] = e[i - 1] + WordAt(c, i)
  <2>1. CASE i <= k
    <3>1. i \in 1 .. k /\ i \in 0 .. k /\ i - 1 \in 0 .. k
      BY <1>3, <2>1
    <3> QED BY <1>6, <1>9, <1>11, <3>1
  <2>2. CASE ~(i <= k)
    <3> DEFINE j == i - k
               w == WordAt(c, i)
    <3>1. j \in 1 .. M /\ j \in 0 .. M /\ j - 1 \in 0 .. M /\ k + j = i /\ k + (j - 1) = i - 1 /\ k \in 0 .. k
      BY <1>3, <2>2
    <3> HIDE DEF j
    <3>2. e[i] = f[k] + g[j] /\ e[i - 1] = f[k] + g[j - 1]
      BY <1>12, <3>1
    <3>3. w = WordAt(b, j) /\ g[j] = g[j - 1] + w
      BY <1>7, <1>10, <3>1
    <3>4. w \in Nat
      BY <3>1, <3>3, WordRange DEF M
    <3>5. f[k] \in Nat /\ g[j - 1] \in Nat
      BY <1>6, <1>7, <3>1
    <3> HIDE DEF w, e
    <3> DEFINE x == f[k]
               y == g[j - 1]
    <3>6. x + (y + w) = (x + y) + w
      <4> HIDE DEF x, y
      <4>1. x \in Nat /\ y \in Nat
        BY <3>5 DEF x, y
      <4> QED BY <3>4, <4>1
    <3> QED BY <3>2, <3>3, <3>6 DEF w
  <2> QED BY <2>1, <2>2
<1>15. IsSum(c, e)
  <2>1. e \in [0 .. N -> Nat]
    BY <1>3, <1>13
  <2>2. e[0] = 0
    <3>1. 0 \in 0 .. k
      OBVIOUS
    <3> QED BY <1>6, <1>11, <3>1
  <2> HIDE DEF e
  <2> QED BY <1>3, <1>14, <2>1, <2>2 DEF IsSum, N
<1>16. WordSum(c) = e[k + M]
  BY <1>1, <1>3, <1>15, WordSumIs DEF N
<1>17. e[k + M] = f[k] + g[M]
  <2>1. M \in 0 .. M
    BY <1>3
  <2> QED BY <1>12, <2>1
<1>18. WordSum(a) = f[k] /\ WordSum(b) = g[M]
  BY <1>2, <1>4, <1>5, WordSumIs DEF M
<1> QED BY <1>16, <1>17, <1>18 DEF c

LEMMA WordSumPair ==
  ASSUME NEW x \in Byte, NEW y \in Byte
  PROVE  WordSum(<<x, y>>) = 256 * x + y
<1> DEFINE s == <<x, y>>
<1>1. s \in Seq(Byte) /\ Len(s) = 2 /\ s[1] = x /\ s[2] = y
  OBVIOUS
<1> HIDE DEF s
<1>2. Size(s) = 1
  BY <1>1 DEF Size
<1>3. PICK f : IsSum(s, f)
  BY <1>1, SumExists
<1>4. f[0] = 0 /\ f[1] = f[0] + WordAt(s, 1)
  <2>1. 1 \in 1 .. 1 /\ 1 - 1 = 0
    OBVIOUS
  <2> QED BY <1>2, <1>3, <2>1 DEF IsSum
<1>5. WordAt(s, 1) = 256 * x + y
  <2>1. 2 * 1 - 1 = 1 /\ 2 * 1 = 2 /\ ~(2 > 2)
    OBVIOUS
  <2> QED BY <1>1, <2>1 DEF WordAt
<1>6. x \in Nat /\ y \in Nat
  BY ByteNumbers
<1>7. 0 + (256 * x + y) = 256 * x + y
  BY <1>6
<1> QED BY <1>1, <1>2, <1>3, <1>4, <1>5, <1>7, WordSumIs, ZenonT(60) DEF s

LEMMA WordSumEmpty == WordSum(<<>>) = 0
<1> DEFINE s == <<>>
<1>1. s \in Seq(Byte) /\ Len(s) = 0
  OBVIOUS
<1>2. Size(s) = 0
  BY <1>1 DEF Size
<1> HIDE DEF s
<1>3. PICK f : IsSum(s, f)
  BY <1>1, SumExists
<1>4. f[0] = 0
  BY <1>3 DEF IsSum
<1> QED BY <1>1, <1>2, <1>3, <1>4, WordSumIs DEF s

LEMMA AddInt ==
  ASSUME NEW s \in Seq(Byte)
  PROVE  Add(s) \in Int
BY AddIsWordSum, WordSumBound

LEMMA ChecksumBytes ==
  ASSUME NEW a \in Seq(Byte), NEW b \in Seq(Byte)
  PROVE  Bytes(ComputeIpChecksum(a, b), 2)
<1> DEFINE x == Add(a)
           y == Add(b)
<1>1. x \in Int /\ y \in Int
  BY AddInt
<1> HIDE DEF x, y
<1>2. 65535 - (Fold(x + y) % 65536) \in Int
  BY <1>1 DEF Fold
<1>3. ComputeIpChecksum(a, b) = htons(65535 - (Fold(x + y) % 65536))
  BY DEF ComputeIpChecksum, x, y
<1> DEFINE n == 65535 - (Fold(x + y) % 65536)
<1> HIDE DEF n
<1>4. n \in Int /\ ComputeIpChecksum(a, b) = htons(n)
  BY <1>2, <1>3 DEF n
<1> QED BY <1>4, ShortBytes DEF Bytes

LEMMA HexValues ==
  ASSUME NEW c \in Byte
  PROVE  /\ kHexValues(c) \in -1 .. 15
         /\ c \in Spaces => kHexValues(c) = -1
<1>1. c \in Nat
  BY ByteNumbers
<1>2. CASE c \in 48 .. 57
  <2>1. c \notin 65 .. 70 /\ c \notin 97 .. 102
    BY <1>1, <1>2
  <2>2. kHexValues(c) = c - 48
    BY <1>2, <2>1 DEF kHexValues
  <2> QED BY <1>2, <2>2 DEF Spaces
<1>3. CASE c \in 65 .. 70
  <2>1. c \notin 48 .. 57 /\ c \notin 97 .. 102
    BY <1>1, <1>3
  <2>2. kHexValues(c) = c - 55
    BY <1>3, <2>1 DEF kHexValues
  <2> QED BY <1>3, <2>2 DEF Spaces
<1>4. CASE c \in 97 .. 102
  <2>1. c \notin 48 .. 57 /\ c \notin 65 .. 70
    BY <1>1, <1>4
  <2>2. kHexValues(c) = c - 87
    BY <1>4, <2>1 DEF kHexValues
  <2> QED BY <1>4, <2>2 DEF Spaces
<1>5. CASE c \notin 48 .. 57 /\ c \notin 65 .. 70 /\ c \notin 97 .. 102
  <2>1. kHexValues(c) = -1
    BY <1>5 DEF kHexValues
  <2> QED BY <2>1
<1> QED BY <1>2, <1>3, <1>4, <1>5

ParseBody(s, f, i) ==
  CASE i = Len(s) + 1                -> [ok |-> TRUE, out |-> <<>>]
    [] i <= Len(s) /\ s[i] \in Spaces -> f[i + 1]
    [] i <= Len(s) /\ Pair(s, i)      ->
         [f[i + 2] EXCEPT !.out = <<16 * kHexValues(s[i]) + kHexValues(s[i + 1])>> \o @]
    [] OTHER                         -> [ok |-> FALSE, out |-> <<>>]
Parses(s, f) == f = [i \in 1 .. Len(s) + 1 |-> ParseBody(s, f, i)]

LEMMA ParseIs ==
  ASSUME NEW s
  PROVE  ParseHex(s) = (CHOOSE f : Parses(s, f))[1]
BY DEF ParseHex, Parses, ParseBody

Parsed == [ok : BOOLEAN, out : Seq(Byte)]

LEMMA ParsedHave ==
  /\ [ok |-> TRUE, out |-> <<>>] \in Parsed /\ [ok |-> FALSE, out |-> <<>>] \in Parsed
  /\ \A x \in Parsed, b \in Byte : [x EXCEPT !.out = <<b>> \o @] \in Parsed
<1> DEFINE e == <<>>
<1>1. e \in Seq(Byte)
  OBVIOUS
<1> HIDE DEF e
<1>2. [ok |-> TRUE, out |-> e] \in Parsed /\ [ok |-> FALSE, out |-> e] \in Parsed
  BY <1>1 DEF Parsed
<1>3. ASSUME NEW x \in Parsed, NEW b \in Byte PROVE [x EXCEPT !.out = <<b>> \o @] \in Parsed
  <2>1. x.out \in Seq(Byte)
    BY DEF Parsed
  <2> DEFINE y == <<b>> \o x.out
  <2>2. y \in Seq(Byte)
    BY <2>1
  <2> HIDE DEF y
  <2>3. [x EXCEPT !.out = y] \in Parsed
    BY <2>2 DEF Parsed
  <2> QED BY <2>3 DEF y
<1> QED BY <1>2, <1>3 DEF e

\* What is put together hidden from the provers.
ParseEnd(ok) == [ok |-> ok, out |-> <<>>]
ParseMore(y, x) == [y EXCEPT !.out = <<x>> \o @]
PairValue(s, i) == 16 * kHexValues(s[i]) + kHexValues(s[i + 1])

LEMMA ParseCases ==
  ASSUME NEW s \in Seq(Byte), NEW f, NEW i \in 1 .. Len(s) + 1
  PROVE  /\ i = Len(s) + 1 => ParseBody(s, f, i) = ParseEnd(TRUE)
         /\ i <= Len(s) /\ s[i] \in Spaces => ParseBody(s, f, i) = f[i + 1]
         /\ i <= Len(s) /\ Pair(s, i) =>
              /\ i < Len(s) /\ PairValue(s, i) \in Byte
              /\ ParseBody(s, f, i) = ParseMore(f[i + 2], PairValue(s, i))
         /\ i <= Len(s) /\ s[i] \notin Spaces /\ ~Pair(s, i) => ParseBody(s, f, i) = ParseEnd(FALSE)
<1> DEFINE yes == [ok |-> TRUE, out |-> <<>>]
           no == [ok |-> FALSE, out |-> <<>>]
           x == 16 * kHexValues(s[i]) + kHexValues(s[i + 1])
           more == [f[i + 2] EXCEPT !.out = <<x>> \o @]
           v == PairValue(s, i)
           last == i = Len(s) + 1
           space == i <= Len(s) /\ s[i] \in Spaces
           pair == i <= Len(s) /\ Pair(s, i)
<1>1. ParseBody(s, f, i) = CASE last -> yes [] space -> f[i + 1] [] pair -> more [] OTHER -> no
  BY DEF ParseBody
<1>2. Len(s) \in Nat /\ i \in Nat /\ \A j \in 1 .. Len(s) : s[j] \in Byte
  OBVIOUS
<1>3. ~(last /\ space) /\ ~(last /\ pair)
  BY <1>2
<1>4. ASSUME space, pair PROVE FALSE
  <2>1. i \in 1 .. Len(s) /\ s[i] \in Spaces /\ kHexValues(s[i]) # -1
    BY <1>2, <1>4 DEF Pair
  <2> QED BY <1>2, <2>1, HexValues
<1>5. ASSUME pair PROVE i < Len(s) /\ x \in Byte
  <2>1. i < Len(s) /\ kHexValues(s[i]) # -1 /\ kHexValues(s[i + 1]) # -1
    BY <1>5 DEF Pair
  <2>2. i \in 1 .. Len(s) /\ i + 1 \in 1 .. Len(s)
    BY <1>2, <2>1
  <2> DEFINE a == kHexValues(s[i])
             b == kHexValues(s[i + 1])
  <2>3. a \in -1 .. 15 /\ b \in -1 .. 15
    BY <1>2, <2>2, HexValues
  <2>4. x = 16 * a + b /\ a # -1 /\ b # -1
    BY <2>1
  <2> HIDE DEF a, b, x
  <2>5. x \in 0 .. 255
    BY <2>3, <2>4
  <2> QED BY <2>1, <2>5, ByteNumbers
<1>6. last \/ i <= Len(s)
  BY <1>2
<1> HIDE DEF yes, no, more, x
<1>7. last => ParseBody(s, f, i) = yes
  <2> HIDE DEF space, pair, last
  <2> QED BY <1>1, <1>3
<1>8. space => ParseBody(s, f, i) = f[i + 1]
  <2>1. ~(space /\ pair)
    BY <1>4
  <2> HIDE DEF space, pair, last
  <2> QED BY <1>1, <1>3, <2>1
<1>9. pair => ParseBody(s, f, i) = more
  <2>1. ~(space /\ pair)
    BY <1>4
  <2> HIDE DEF space, pair, last
  <2> QED BY <1>1, <1>3, <2>1
<1>10. ~last /\ ~space /\ ~pair => ParseBody(s, f, i) = no
  <2> HIDE DEF space, pair, last
  <2> QED BY <1>1
<1>11. i <= Len(s) => ~last
  BY <1>2
<1>12. yes = ParseEnd(TRUE) /\ no = ParseEnd(FALSE)
  BY DEF yes, no, ParseEnd
<1>13. x = v /\ more = ParseMore(f[i + 2], v)
  BY DEF x, more, ParseMore, PairValue
<1> HIDE DEF v
<1>14. pair => ParseBody(s, f, i) = ParseMore(f[i + 2], v) /\ i < Len(s) /\ v \in Byte
  <2> HIDE DEF pair
  <2> QED BY <1>5, <1>9, <1>13
<1>15. i <= Len(s) /\ s[i] \notin Spaces /\ ~Pair(s, i) => ~last /\ ~space /\ ~pair
  BY <1>11
<1> QED BY <1>7, <1>8, <1>10, <1>12, <1>14, <1>15 DEF v

LEMMA ParsedHave2 ==
  /\ ParseEnd(TRUE) \in Parsed /\ ParseEnd(FALSE) \in Parsed
  /\ \A x \in Parsed, b \in Byte : ParseMore(x, b) \in Parsed
BY ParsedHave DEF ParseEnd, ParseMore

LEMMA ParseLast ==
  ASSUME NEW s \in Seq(Byte), NEW f, NEW i \in 1 .. Len(s) + 1, i = Len(s) + 1
  PROVE  ParseBody(s, f, i) = ParseEnd(TRUE)
BY ParseCases

LEMMA ParseSpace ==
  ASSUME NEW s \in Seq(Byte), NEW f, NEW i \in 1 .. Len(s) + 1, i <= Len(s), s[i] \in Spaces
  PROVE  ParseBody(s, f, i) = f[i + 1]
BY ParseCases

LEMMA ParsePair ==
  ASSUME NEW s \in Seq(Byte), NEW f, NEW i \in 1 .. Len(s) + 1, i <= Len(s), Pair(s, i)
  PROVE  /\ i < Len(s) /\ PairValue(s, i) \in Byte
         /\ ParseBody(s, f, i) = ParseMore(f[i + 2], PairValue(s, i))
BY ParseCases

LEMMA ParseOther ==
  ASSUME NEW s \in Seq(Byte), NEW f, NEW i \in 1 .. Len(s) + 1, i <= Len(s),
         s[i] \notin Spaces, ~Pair(s, i)
  PROVE  ParseBody(s, f, i) = ParseEnd(FALSE)
BY ParseCases

LEMMA ParseBodyType ==
  ASSUME NEW s \in Seq(Byte), NEW f, NEW i \in 1 .. Len(s) + 1,
         \A j \in 1 .. Len(s) + 1 : j > i => f[j] \in Parsed
  PROVE  ParseBody(s, f, i) \in Parsed
<1>1. Len(s) \in Nat /\ i \in Nat
  OBVIOUS
<1>2. CASE i = Len(s) + 1
  BY <1>2, ParseLast, ParsedHave2
<1>3. CASE i <= Len(s) /\ s[i] \in Spaces
  <2>1. i + 1 \in 1 .. Len(s) + 1 /\ i + 1 > i
    BY <1>1, <1>3
  <2>2. ParseBody(s, f, i) = f[i + 1]
    BY <1>3, ParseSpace
  <2> QED BY <2>1, <2>2
<1>4. CASE i <= Len(s) /\ Pair(s, i)
  <2> DEFINE x == PairValue(s, i)
             y == f[i + 2]
  <2>1. i < Len(s) /\ x \in Byte /\ ParseBody(s, f, i) = ParseMore(y, x)
    BY <1>4, ParsePair
  <2>2. i + 2 \in 1 .. Len(s) + 1 /\ i + 2 > i
    BY <1>1, <2>1
  <2>3. y \in Parsed
    BY <2>2
  <2> HIDE DEF x, y
  <2> QED BY <2>1, <2>3, ParsedHave2
<1>5. CASE i <= Len(s) /\ s[i] \notin Spaces /\ ~Pair(s, i)
  BY <1>5, ParseOther, ParsedHave2
<1> QED BY <1>1, <1>2, <1>3, <1>4, <1>5

LEMMA ParseHexType ==
  ASSUME NEW s \in Seq(Byte)
  PROVE  ParseHex(s).out \in Seq(Byte)
<1> DEFINE n == Len(s) + 1
           D == 1 .. n
           V == Parsed
           rank == [i \in D |-> n - i]
           G == [i \in D |-> [f \in [D -> V] |-> ParseBody(s, f, i)]]
<1>1. Len(s) \in Nat /\ n \in Nat /\ n >= 1
  OBVIOUS
<1>2. /\ \A i \in D : rank[i] = n - i
      /\ \A i \in D : \A f \in [D -> V] : G[i][f] = ParseBody(s, f, i)
      /\ \A i \in D : i \in Nat
  OBVIOUS
<1>3. rank \in [D -> Nat] /\ \A i \in D : rank[i] < n
  BY <1>1, <1>2
<1>4. \A i, j \in D : j > i => rank[j] < rank[i]
  <2> HIDE DEF rank, G
  <2> QED BY <1>1, <1>2
<1> HIDE DEF rank, G, V
<1>5. \A i \in D : \A f \in [D -> V] : ParseBody(s, f, i) \in V
  BY ParseBodyType DEF V
<1>6. ASSUME NEW i \in D, NEW f \in [D -> V], NEW g \in [D -> V],
             \A j \in D : rank[j] < rank[i] => f[j] = g[j]
      PROVE  G[i][f] = G[i][g]
  <2>1. i <= Len(s) => f[i + 1] = g[i + 1]
    <3>1. i <= Len(s) => i + 1 \in D /\ i + 1 > i
      BY <1>1
    <3> QED BY <1>4, <1>6, <3>1
  <2>2. i < Len(s) => f[i + 2] = g[i + 2]
    <3>1. i < Len(s) => i + 2 \in D /\ i + 2 > i
      BY <1>1
    <3> QED BY <1>4, <1>6, <3>1
  <2>3. ParseBody(s, f, i) = ParseBody(s, g, i)
    <3>0. i \in 1 .. Len(s) + 1
      OBVIOUS
    <3>1. CASE i = Len(s) + 1
      <4>1. ParseBody(s, f, i) = ParseEnd(TRUE)
        BY <3>0, <3>1, ParseLast
      <4>2. ParseBody(s, g, i) = ParseEnd(TRUE)
        BY <3>0, <3>1, ParseLast
      <4> QED BY <4>1, <4>2
    <3>2. CASE i <= Len(s) /\ s[i] \in Spaces
      <4>1. ParseBody(s, f, i) = f[i + 1]
        BY <3>0, <3>2, ParseSpace
      <4>2. ParseBody(s, g, i) = g[i + 1]
        BY <3>0, <3>2, ParseSpace
      <4> QED BY <2>1, <3>2, <4>1, <4>2
    <3>3. CASE i <= Len(s) /\ Pair(s, i)
      <4>1. ParseBody(s, f, i) = ParseMore(f[i + 2], PairValue(s, i)) /\ i < Len(s)
        BY <3>0, <3>3, ParsePair
      <4>2. ParseBody(s, g, i) = ParseMore(g[i + 2], PairValue(s, i))
        BY <3>0, <3>3, ParsePair
      <4>3. f[i + 2] = g[i + 2]
        BY <2>2, <4>1
      <4> QED BY <4>1, <4>2, <4>3
    <3>4. CASE i <= Len(s) /\ s[i] \notin Spaces /\ ~Pair(s, i)
      <4>1. ParseBody(s, f, i) = ParseEnd(FALSE)
        BY <3>0, <3>4, ParseOther
      <4>2. ParseBody(s, g, i) = ParseEnd(FALSE)
        BY <3>0, <3>4, ParseOther
      <4> QED BY <4>1, <4>2
    <3> QED BY <1>1, <3>1, <3>2, <3>3, <3>4
  <2> QED BY <1>2, <2>3
<1>7. \E f \in [D -> V] : \A i \in D : f[i] = G[i][f]
  <2>1. V # {}
    BY ParsedHave DEF V
  <2>2. n \in Nat
    BY <1>1
  <2> DEFINE top == n
  <2> HIDE DEF D, top
  <2>3. RecursionOn(D, V, rank, top, G)
    BY <1>2, <1>3, <1>5, <1>6, <2>1, <2>2 DEF RecursionOn, top
  <2> QED BY <2>3, Recursion
<1>8. \E f : Parses(s, f)
  <2>1. PICK f \in [D -> V] : \A i \in D : f[i] = G[i][f]
    BY <1>7
  <2>2. \A i \in D : f[i] = ParseBody(s, f, i)
    BY <1>2, <2>1
  <2>3. f = [i \in D |-> ParseBody(s, f, i)]
    <3> HIDE DEF D
    <3> QED BY <2>2
  <2> QED BY <2>3 DEF Parses
<1> DEFINE f == CHOOSE g : Parses(s, g)
<1>9. Parses(s, f)
  BY <1>8
<1> HIDE DEF f
<1>10. \A i \in D : f[i] = ParseBody(s, f, i)
  BY <1>9 DEF Parses
<1>11. f[1] \in Parsed
  <2> DEFINE S == {i \in D : f[i] \in Parsed}
  <2>1. ASSUME NEW i \in D, \A j \in D : rank[j] < rank[i] => j \in S PROVE i \in S
    <3>1. \A j \in D : j > i => f[j] \in Parsed
      BY <1>4, <2>1
    <3>2. ParseBody(s, f, i) \in Parsed
      BY <3>1, ParseBodyType
    <3> QED BY <1>10, <3>2
  <2>2. D \subseteq S
    <3> HIDE DEF D, S
    <3> QED BY <1>3, <2>1, RankInduct
  <2>3. 1 \in D
    BY <1>1
  <2> QED BY <2>2, <2>3
<1>12. ParseHex(s) = f[1]
  BY ParseIs DEF f
<1> QED BY <1>11, <1>12 DEF Parsed

(***************************************************************************)
(* Reading the text of a string gives bytes.                               *)
(***************************************************************************)
LEMMA SpecialEscapes ==
  /\ DOMAIN kSpecialEscapes = {8, 9, 10, 12, 13}
  /\ kSpecialEscapes[8] = 98 /\ kSpecialEscapes[9] = 116 /\ kSpecialEscapes[10] = 110
  /\ kSpecialEscapes[12] = 102 /\ kSpecialEscapes[13] = 114
<1>1. DOMAIN kSpecialEscapes = {8, 9, 10, 12, 13}
  BY DEF kSpecialEscapes
<1>2. kSpecialEscapes[8] = 98
  BY DEF kSpecialEscapes
<1>3. kSpecialEscapes[9] = 116
  BY DEF kSpecialEscapes
<1>4. kSpecialEscapes[10] = 110
  BY DEF kSpecialEscapes
<1>5. kSpecialEscapes[12] = 102
  BY DEF kSpecialEscapes
<1>6. kSpecialEscapes[13] = 114
  BY DEF kSpecialEscapes
<1> QED BY <1>1, <1>2, <1>3, <1>4, <1>5, <1>6

LEMMA EscapesAre ==
  /\ Escapes = {34, 47, 92, 98, 116, 110, 102, 114}
  /\ \A c \in Escapes : Unescaped(c) \in Byte
<1>1. Escapes = {34, 47, 92, 98, 116, 110, 102, 114}
  BY SpecialEscapes DEF Escapes, Quote, Slash, Backslash
<1>2. ASSUME NEW c \in Escapes PROVE Unescaped(c) \in Byte
  <2>1. CASE c \in {Quote, Slash, Backslash}
    <3>1. Unescaped(c) = c
      BY <2>1 DEF Unescaped
    <3>2. c \in 0 .. 255
      BY <2>1 DEF Quote, Slash, Backslash
    <3> QED BY <3>1, <3>2, ByteNumbers
  <2>2. CASE c \notin {Quote, Slash, Backslash}
    <3>1. \E k \in DOMAIN kSpecialEscapes : kSpecialEscapes[k] = c
      BY <2>2 DEF Escapes
    <3>2. Unescaped(c) = CHOOSE k \in DOMAIN kSpecialEscapes : kSpecialEscapes[k] = c
      BY <2>2 DEF Unescaped
    <3>3. Unescaped(c) \in DOMAIN kSpecialEscapes
      BY <3>1, <3>2
    <3>4. Unescaped(c) \in 0 .. 255
      BY <3>3, SpecialEscapes
    <3> QED BY <3>4, ByteNumbers
  <2> QED BY <2>1, <2>2
<1> QED BY <1>1, <1>2

LEMMA ShortNumbers ==
  /\ \A x \in U16 : x \in Int
  /\ \A x \in Int : x \in U16 <=> 0 <= x /\ x <= 65535
<1>1. \A x \in U16 : x \in Int
  BY SMTT(40) DEF U16
<1>2. \A x \in Int : x \in U16 <=> 0 <= x /\ x <= 65535
  BY SMTT(40) DEF U16
<1> QED BY <1>1, <1>2, SMTT(40)

LEMMA Utf8Cases ==
  ASSUME NEW ch \in Int, 0 <= ch, ch <= 65535
  PROVE  /\ ch <= 127 => AppendCharacterAsUtf8(ch) = <<ch>>
         /\ ch > 127 /\ ch <= 2047 =>
              AppendCharacterAsUtf8(ch) = <<192 + (ch \div 64), 128 + (ch % 64)>>
         /\ ch > 2047 =>
              AppendCharacterAsUtf8(ch) =
                <<224 + (ch \div 4096), 128 + ((ch \div 64) % 64), 128 + (ch % 64)>>
<1> DEFINE x == <<ch>>
           y == <<192 + (ch \div 64), 128 + (ch % 64)>>
           z == <<224 + (ch \div 4096), 128 + ((ch \div 64) % 64), 128 + (ch % 64)>>
           a == ch <= 127
           b == ch \in 128 .. 2047
           c == ch \in 2048 .. 65535
<1>1. AppendCharacterAsUtf8(ch) = CASE a -> x [] b -> y [] c -> z
  BY SMT DEF AppendCharacterAsUtf8
<1>2. (ch <= 127 => a /\ ~b /\ ~c) /\ (ch > 127 /\ ch <= 2047 => ~a /\ b /\ ~c)
      /\ (ch > 2047 => ~a /\ ~b /\ c)
  <2> DEFINE top == 65535
             d == ch \in 2048 .. top
  <2>1. top \in Int /\ ch <= top /\ (c <=> d)
    BY SMT
  <2> HIDE DEF top, c
  <2>2. (ch <= 127 => a /\ ~b /\ ~d) /\ (ch > 127 /\ ch <= 2047 => ~a /\ b /\ ~d)
        /\ (ch > 2047 => ~a /\ ~b /\ d)
    BY <2>1
  <2> QED BY <2>1, <2>2
<1> HIDE DEF x, y, z, a, b, c
<1>3. /\ ch <= 127 => AppendCharacterAsUtf8(ch) = x
      /\ ch > 127 /\ ch <= 2047 => AppendCharacterAsUtf8(ch) = y
      /\ ch > 2047 => AppendCharacterAsUtf8(ch) = z
  BY <1>1, <1>2, SMT
<1> QED BY <1>3, SMT DEF x, y, z

LEMMA Utf8Bytes ==
  ASSUME NEW ch \in U16
  PROVE  AppendCharacterAsUtf8(ch) \in Seq(Byte)
<1>0. ch \in Int /\ 0 <= ch /\ ch <= 65535
  BY ShortNumbers
<1>1. CASE ch <= 127
  <2>2. AppendCharacterAsUtf8(ch) = <<ch>>
    BY <1>0, <1>1, Utf8Cases
  <2>3. ch \in 0 .. 255
    BY <1>0, <1>1
  <2>4. ch \in Byte
    BY <2>3, ByteNumbers
  <2> QED BY <2>2, <2>4
<1>2. CASE ch > 127 /\ ch <= 2047
  <2> DEFINE a == 192 + (ch \div 64)
             b == 128 + (ch % 64)
  <2>2. AppendCharacterAsUtf8(ch) = <<a, b>>
    BY <1>0, <1>2, Utf8Cases
  <2>3. a \in 0 .. 255 /\ b \in 0 .. 255
    BY <1>0, <1>2
  <2> HIDE DEF a, b
  <2>4. a \in Byte /\ b \in Byte
    BY <2>3, ByteNumbers
  <2> QED BY <2>2, <2>4
<1>3. CASE ch > 2047
  <2> DEFINE a == 224 + (ch \div 4096)
             b == 128 + ((ch \div 64) % 64)
             c == 128 + (ch % 64)
  <2>2. AppendCharacterAsUtf8(ch) = <<a, b, c>>
    BY <1>0, <1>3, Utf8Cases
  <2>3. a \in 0 .. 255 /\ b \in 0 .. 255 /\ c \in 0 .. 255
    BY <1>0, <1>3
  <2> HIDE DEF a, b, c
  <2>4. a \in Byte /\ b \in Byte /\ c \in Byte
    BY <2>3, ByteNumbers
  <2> QED BY <2>2, <2>4
<1>4. ch <= 127 \/ (ch > 127 /\ ch <= 2047) \/ ch > 2047
  BY <1>0
<1> QED BY <1>1, <1>2, <1>3, <1>4

LEMMA EscapeNumber ==
  ASSUME NEW s \in Seq(Byte), NEW i \in Nat, i >= 1
  PROVE  \/ ReadUnicodeEscapeCharacter(s, i) = -1
         \/ ReadUnicodeEscapeCharacter(s, i) \in U16
<1> DEFINE digit(k) == kHexValues(s[i + k])
           a == digit(0)
           b == digit(1)
           c == digit(2)
           d == digit(3)
           none == i + 3 > Len(s) \/ \E k \in 0 .. 3 : digit(k) = -1
           value == 4096 * a + 256 * b + 16 * c + d
<1>1. ReadUnicodeEscapeCharacter(s, i) = IF none THEN -1 ELSE value
  BY DEF ReadUnicodeEscapeCharacter
<1>2. Len(s) \in Nat
  OBVIOUS
<1>3. ASSUME ~none PROVE value \in U16
  <2>1. ASSUME NEW k \in 0 .. 3 PROVE digit(k) \in 0 .. 15
    <3>1. i + k \in 1 .. Len(s)
      BY <1>2, <1>3
    <3>2. s[i + k] \in Byte
      BY <3>1
    <3>3. digit(k) \in -1 .. 15 /\ digit(k) # -1
      BY <1>3, <3>2, HexValues
    <3> QED BY <3>3
  <2> HIDE DEF digit
  <2>2. a \in 0 .. 15 /\ b \in 0 .. 15 /\ c \in 0 .. 15 /\ d \in 0 .. 15
    BY <2>1
  <2> HIDE DEF a, b, c, d
  <2>3. value \in Int /\ 0 <= value /\ value <= 65535
    BY <2>2
  <2> HIDE DEF value
  <2> QED BY <2>3, ShortNumbers
<1> HIDE DEF none, value
<1> QED BY <1>1, <1>3

TextEnd(ok) == [ok |-> ok, value |-> <<>>]
TextMore(y, c) == [y EXCEPT !.value = c \o @]
ReadBody(s, f, i) ==
  CASE i > Len(s) -> TextEnd(FALSE)
    [] i <= Len(s) /\ s[i] = s[1] -> TextEnd(TRUE)
    [] i <= Len(s) /\ s[i] \notin {s[1], Backslash} -> TextMore(f[i + 1], <<s[i]>>)
    [] i < Len(s) /\ s[i] = Backslash /\ s[i + 1] \in Escapes ->
         TextMore(f[i + 2], <<Unescaped(s[i + 1])>>)
    [] i < Len(s) /\ s[i] = Backslash /\ s[i + 1] = u
       /\ ReadUnicodeEscapeCharacter(s, i + 2) # -1 ->
         TextMore(f[i + 6], AppendCharacterAsUtf8(ReadUnicodeEscapeCharacter(s, i + 2)))
    [] OTHER -> TextEnd(FALSE)
ReadsText(s, f) == f = [i \in 2 .. Len(s) + 6 |-> ReadBody(s, f, i)]

LEMMA ReadIs ==
  ASSUME NEW s
  PROVE  ReadString(s) = IF s[1] \notin {Quote, Apostrophe} THEN TextEnd(FALSE)
                         ELSE (CHOOSE f : ReadsText(s, f))[2]
BY DEF ReadString, ReadsText, ReadBody, TextEnd, TextMore

TextRead == [ok : BOOLEAN, value : Seq(Byte)]

LEMMA TextReadHas ==
  /\ TextEnd(TRUE) \in TextRead /\ TextEnd(FALSE) \in TextRead
  /\ \A x \in TextRead, c \in Seq(Byte) : TextMore(x, c) \in TextRead
<1> DEFINE e == <<>>
<1>1. e \in Seq(Byte)
  OBVIOUS
<1> HIDE DEF e
<1>2. [ok |-> TRUE, value |-> e] \in TextRead /\ [ok |-> FALSE, value |-> e] \in TextRead
  BY <1>1 DEF TextRead
<1>3. ASSUME NEW x \in TextRead, NEW c \in Seq(Byte) PROVE TextMore(x, c) \in TextRead
  <2>1. x.value \in Seq(Byte)
    BY DEF TextRead
  <2> DEFINE y == c \o x.value
  <2>2. y \in Seq(Byte)
    BY <2>1
  <2> HIDE DEF y
  <2>3. [x EXCEPT !.value = y] \in TextRead
    BY <2>2 DEF TextRead
  <2> QED BY <2>3 DEF y, TextMore
<1> QED BY <1>2, <1>3 DEF e, TextEnd

\* ReadBody looks ahead by one, two or six characters, or it ends.
ReadEnds(s, i, ok) == \A f : ReadBody(s, f, i) = TextEnd(ok)
ReadGoesOn(s, i, k, c) == i <= Len(s) /\ \A f : ReadBody(s, f, i) = TextMore(f[i + k], c)

LEMMA ReadShape ==
  ASSUME NEW s \in Seq(Byte), s[1] \in {Quote, Apostrophe}, NEW i \in 2 .. Len(s) + 6
  PROVE  \/ ReadEnds(s, i, TRUE) \/ ReadEnds(s, i, FALSE)
         \/ \E k \in {1, 2, 6}, c \in Seq(Byte) : ReadGoesOn(s, i, k, c)
<1> DEFINE ch == ReadUnicodeEscapeCharacter(s, i + 2)
           a1 == i > Len(s)
           a2 == i <= Len(s) /\ s[i] = s[1]
           a3 == i <= Len(s) /\ s[i] \notin {s[1], Backslash}
           a4 == i < Len(s) /\ s[i] = Backslash /\ s[i + 1] \in Escapes
           a5 == i < Len(s) /\ s[i] = Backslash /\ s[i + 1] = u /\ ch # -1
           c3 == <<s[i]>>
           c4 == <<Unescaped(s[i + 1])>>
           c5 == AppendCharacterAsUtf8(ch)
<1>0. Len(s) \in Nat /\ i \in Nat /\ s[1] # Backslash
  BY DEF Quote, Apostrophe, Backslash
<1>1. \A f : ReadBody(s, f, i) = CASE a1 -> TextEnd(FALSE) [] a2 -> TextEnd(TRUE)
                 [] a3 -> TextMore(f[i + 1], c3) [] a4 -> TextMore(f[i + 2], c4)
                 [] a5 -> TextMore(f[i + 6], c5) [] OTHER -> TextEnd(FALSE)
  BY DEF ReadBody
<1>2. ~(a1 /\ a2) /\ ~(a1 /\ a3) /\ ~(a1 /\ a4) /\ ~(a1 /\ a5)
  BY <1>0
<1>3. ~(a2 /\ a3) /\ ~(a2 /\ a4) /\ ~(a2 /\ a5)
  BY <1>0
<1>4. ~(a3 /\ a4) /\ ~(a3 /\ a5)
  BY <1>0
<1>5. ~(a4 /\ a5)
  BY EscapesAre DEF u
<1>6. a3 => i <= Len(s) /\ c3 \in Seq(Byte)
  <2>1. i <= Len(s) => s[i] \in Byte
    BY <1>0
  <2> QED BY <2>1
<1>7. a4 => i <= Len(s) /\ c4 \in Seq(Byte)
  <2>1. a4 => i <= Len(s) /\ Unescaped(s[i + 1]) \in Byte
    BY <1>0, EscapesAre
  <2> QED BY <2>1
<1>8. a5 => i <= Len(s) /\ c5 \in Seq(Byte)
  <2>1. i + 2 \in Nat /\ i + 2 >= 1
    BY <1>0
  <2>2. ch = -1 \/ ch \in U16
    BY <2>1, EscapeNumber
  <2>3. a5 => ch \in U16
    BY <2>2
  <2>4. a5 => i <= Len(s)
    BY <1>0
  <2> QED BY <2>3, <2>4, Utf8Bytes
<1> DEFINE past == i <= Len(s)
<1>9. (a3 => past) /\ (a4 => past) /\ (a5 => past)
  BY <1>6, <1>7, <1>8
<1> HIDE DEF a1, a2, a3, a4, a5, c3, c4, c5
<1>10. CASE a1
  <2>1. \A f : ReadBody(s, f, i) = TextEnd(FALSE)
    BY <1>1, <1>2, <1>10
  <2> QED BY <2>1 DEF ReadEnds
<1>11. CASE a2
  <2>1. \A f : ReadBody(s, f, i) = TextEnd(TRUE)
    BY <1>1, <1>2, <1>3, <1>11
  <2> QED BY <2>1 DEF ReadEnds
<1>12. CASE a3
  <2>1. \A f : ReadBody(s, f, i) = TextMore(f[i + 1], c3)
    BY <1>1, <1>2, <1>3, <1>4, <1>12
  <2>2. ReadGoesOn(s, i, 1, c3) /\ c3 \in Seq(Byte)
    BY <1>6, <1>12, <2>1 DEF ReadGoesOn
  <2> QED BY <2>2
<1>13. CASE a4
  <2>1. \A f : ReadBody(s, f, i) = TextMore(f[i + 2], c4)
    BY <1>1, <1>2, <1>3, <1>4, <1>5, <1>13
  <2>2. ReadGoesOn(s, i, 2, c4) /\ c4 \in Seq(Byte)
    BY <1>7, <1>13, <2>1 DEF ReadGoesOn
  <2> QED BY <2>2
<1>14. CASE a5
  <2>1. \A f : ReadBody(s, f, i) = TextMore(f[i + 6], c5)
    BY <1>1, <1>2, <1>3, <1>4, <1>5, <1>14
  <2>2. ReadGoesOn(s, i, 6, c5) /\ c5 \in Seq(Byte)
    BY <1>8, <1>14, <2>1 DEF ReadGoesOn
  <2> QED BY <2>2
<1>15. CASE ~a1 /\ ~a2 /\ ~a3 /\ ~a4 /\ ~a5
  <2>1. \A f : ReadBody(s, f, i) = TextEnd(FALSE)
    BY <1>1, <1>15
  <2> QED BY <2>1 DEF ReadEnds
<1> QED BY <1>10, <1>11, <1>12, <1>13, <1>14, <1>15

LEMMA ReadBodyType ==
  ASSUME NEW s \in Seq(Byte), s[1] \in {Quote, Apostrophe}, NEW i \in 2 .. Len(s) + 6, NEW f,
         \A j \in 2 .. Len(s) + 6 : j > i => f[j] \in TextRead
  PROVE  ReadBody(s, f, i) \in TextRead
<1>1. CASE ReadEnds(s, i, TRUE) \/ ReadEnds(s, i, FALSE)
  BY <1>1, TextReadHas DEF ReadEnds
<1>2. CASE \E k \in {1, 2, 6}, c \in Seq(Byte) : ReadGoesOn(s, i, k, c)
  <2>1. PICK k \in {1, 2, 6}, c \in Seq(Byte) : ReadGoesOn(s, i, k, c)
    BY <1>2
  <2>2. ReadBody(s, f, i) = TextMore(f[i + k], c) /\ i <= Len(s)
    BY <2>1 DEF ReadGoesOn
  <2>3. Len(s) \in Nat /\ i + k \in 2 .. Len(s) + 6 /\ i + k > i
    BY <2>2
  <2> QED BY <2>2, <2>3, TextReadHas
<1> QED BY <1>1, <1>2, ReadShape

LEMMA ReadBodySame ==
  ASSUME NEW s \in Seq(Byte), s[1] \in {Quote, Apostrophe}, NEW i \in 2 .. Len(s) + 6, NEW f, NEW g,
         \A j \in 2 .. Len(s) + 6 : j > i => f[j] = g[j]
  PROVE  ReadBody(s, f, i) = ReadBody(s, g, i)
<1>1. CASE ReadEnds(s, i, TRUE) \/ ReadEnds(s, i, FALSE)
  BY <1>1 DEF ReadEnds
<1>2. CASE \E k \in {1, 2, 6}, c \in Seq(Byte) : ReadGoesOn(s, i, k, c)
  <2>1. PICK k \in {1, 2, 6}, c \in Seq(Byte) : ReadGoesOn(s, i, k, c)
    BY <1>2
  <2>2. /\ ReadBody(s, f, i) = TextMore(f[i + k], c) /\ i <= Len(s)
        /\ ReadBody(s, g, i) = TextMore(g[i + k], c)
    BY <2>1 DEF ReadGoesOn
  <2>3. Len(s) \in Nat /\ i + k \in 2 .. Len(s) + 6 /\ i + k > i
    BY <2>2
  <2> QED BY <2>2, <2>3
<1> QED BY <1>1, <1>2, ReadShape

LEMMA ReadStringType ==
  ASSUME NEW s \in Seq(Byte)
  PROVE  ReadString(s).value \in Seq(Byte)
<1>0. CASE s[1] \notin {Quote, Apostrophe}
  <2>1. ReadString(s) = TextEnd(FALSE)
    BY <1>0, ReadIs
  <2> QED BY <2>1 DEF TextEnd
<1>a. CASE s[1] \in {Quote, Apostrophe}
  <2> DEFINE n == Len(s) + 6
             D == 2 .. n
             V == TextRead
             rank == [i \in D |-> n - i]
             G == [i \in D |-> [f \in [D -> V] |-> ReadBody(s, f, i)]]
  <2>1. Len(s) \in Nat /\ n \in Nat /\ n >= 6
    OBVIOUS
  <2>2. /\ \A i \in D : rank[i] = n - i
        /\ \A i \in D : \A f \in [D -> V] : G[i][f] = ReadBody(s, f, i)
        /\ \A i \in D : i \in Nat
    OBVIOUS
  <2>3. rank \in [D -> Nat] /\ \A i \in D : rank[i] < n
    BY <2>1, <2>2
  <2>4. \A i, j \in D : j > i => rank[j] < rank[i]
    <3> HIDE DEF rank, G
    <3> QED BY <2>1, <2>2
  <2> HIDE DEF rank, G, V
  <2>5. \A i \in D : \A f \in [D -> V] : ReadBody(s, f, i) \in V
    BY <1>a, ReadBodyType DEF V
  <2>6. ASSUME NEW i \in D, NEW f \in [D -> V], NEW g \in [D -> V],
               \A j \in D : rank[j] < rank[i] => f[j] = g[j]
        PROVE  G[i][f] = G[i][g]
    <3>1. \A j \in D : j > i => f[j] = g[j]
      BY <2>4, <2>6
    <3>2. ReadBody(s, f, i) = ReadBody(s, g, i)
      BY <1>a, <3>1, ReadBodySame
    <3> QED BY <2>2, <3>2
  <2>7. \E f \in [D -> V] : \A i \in D : f[i] = G[i][f]
    <3>1. V # {}
      BY TextReadHas DEF V
    <3>2. n \in Nat
      BY <2>1
    <3> DEFINE top == n
    <3> HIDE DEF D, top
    <3>3. RecursionOn(D, V, rank, top, G)
      BY <2>2, <2>3, <2>5, <2>6, <3>1, <3>2 DEF RecursionOn, top
    <3> QED BY <3>3, Recursion
  <2>8. \E f : ReadsText(s, f)
    <3>1. PICK f \in [D -> V] : \A i \in D : f[i] = G[i][f]
      BY <2>7
    <3>2. \A i \in D : f[i] = ReadBody(s, f, i)
      BY <2>2, <3>1
    <3>3. f = [i \in D |-> ReadBody(s, f, i)]
      <4> HIDE DEF D
      <4> QED BY <3>2
    <3> QED BY <3>3 DEF ReadsText
  <2> DEFINE f == CHOOSE g : ReadsText(s, g)
  <2>9. ReadsText(s, f)
    BY <2>8
  <2> HIDE DEF f
  <2>10. \A i \in D : f[i] = ReadBody(s, f, i)
    BY <2>9 DEF ReadsText
  <2>11. f[2] \in TextRead
    <3> DEFINE S == {i \in D : f[i] \in TextRead}
    <3>1. ASSUME NEW i \in D, \A j \in D : rank[j] < rank[i] => j \in S PROVE i \in S
      <4>1. \A j \in D : j > i => f[j] \in TextRead
        BY <2>4, <3>1
      <4>2. ReadBody(s, f, i) \in TextRead
        BY <1>a, <4>1, ReadBodyType
      <4> QED BY <2>10, <4>2
    <3>2. D \subseteq S
      <4> HIDE DEF D, S
      <4> QED BY <2>3, <3>1, RankInduct
    <3>3. 2 \in D
      BY <2>1
    <3> QED BY <3>2, <3>3
  <2>12. ReadString(s) = f[2]
    BY <1>a, ReadIs DEF f
  <2> QED BY <2>11, <2>12 DEF TextRead
<1> QED BY <1>0, <1>a

(***************************************************************************)
(* What becomes of a token that is written and read.                       *)
(***************************************************************************)
LEMMA CStringType ==
  ASSUME NEW s \in Seq(Byte)
  PROVE  CString(s) \in Seq(Byte)
<1> DEFINE nuls == {i \in DOMAIN s : s[i] = 0}
           k == CHOOSE i \in nuls : \A j \in nuls : i <= j
<1>1. nuls \subseteq 1 .. Len(s) /\ Len(s) \in Nat
  OBVIOUS
<1>2. CString(s) = IF nuls = {} THEN s ELSE SubSeq(s, 1, k - 1)
  BY DEF CString
<1>3. ASSUME nuls # {} PROVE k \in 1 .. Len(s)
  <2> HIDE DEF nuls
  <2>1. nuls \subseteq Nat
    BY <1>1
  <2>2. \E i \in nuls : \A j \in nuls : i <= j
    BY <1>3, <2>1, Least
  <2>3. k \in nuls
    BY <2>2
  <2> QED BY <1>1, <2>3
<1> HIDE DEF nuls, k
<1>4. CASE nuls = {}
  BY <1>2, <1>4
<1>5. CASE nuls # {}
  <2>1. k - 1 \in 0 .. Len(s)
    BY <1>1, <1>3, <1>5
  <2>2. SubSeq(s, 1, k - 1) \in Seq(Byte)
    BY <2>1, Cut
  <2> QED BY <1>2, <1>5, <2>2
<1> QED BY <1>4, <1>5

LEMMA EscapedType ==
  ASSUME NEW c \in Byte
  PROVE  Escaped(c) \in Seq(Byte)
<1> DEFINE a == c \in {Quote, Backslash}
           b == c \in DOMAIN kSpecialEscapes
           d == c < 32 /\ c \notin DOMAIN kSpecialEscapes
           x == <<Backslash, c>>
           y == <<Backslash, kSpecialEscapes[c]>>
           z == <<Backslash, u, 48, 48, kHexChars(c \div 16), kHexChars(c % 16)>>
           w == <<c>>
<1>1. Escaped(c) = CASE a -> x [] b -> y [] d -> z [] OTHER -> w
  BY DEF Escaped
<1>0. Backslash \in Byte /\ u \in Byte /\ 48 \in Byte
  BY ByteNumbers DEF Backslash, u
<1>2. x \in Seq(Byte) /\ w \in Seq(Byte)
  BY <1>0, ByteTuples
<1>3. b => y \in Seq(Byte)
  <2>1. b => kSpecialEscapes[c] \in 0 .. 255
    BY SpecialEscapes
  <2>2. b => kSpecialEscapes[c] \in Byte
    BY <2>1, ByteNumbers
  <2> QED BY <1>0, <2>2, ByteTuples
<1>4. z \in Seq(Byte)
  <2> DEFINE m == kHexChars(c \div 16)
             n == kHexChars(c % 16)
             e == Backslash
             g == u
             o == 48
  <2>1. m \in Byte /\ n \in Byte
    BY HexCharType
  <2>2. e \in Byte /\ g \in Byte /\ o \in Byte
    BY <1>0
  <2> HIDE DEF m, n, e, g, o
  <2>3. <<e, g, o, o, m, n>> \in Seq(Byte)
    BY <2>1, <2>2
  <2> QED BY <2>3 DEF m, n, e, g, o
<1>5. ~(a /\ b) /\ ~(b /\ d)
  BY SpecialEscapes DEF Quote, Backslash
<1>6. ~(a /\ d)
  BY DEF Quote, Backslash
<1> HIDE DEF a, b, d, x, y, z, w
<1>7. a => Escaped(c) = x
  BY <1>1, <1>5, <1>6
<1>8. b => Escaped(c) = y
  BY <1>1, <1>5, <1>6
<1>9. d => Escaped(c) = z
  BY <1>1, <1>5, <1>6
<1>10. ~a /\ ~b /\ ~d => Escaped(c) = w
  BY <1>1
<1> QED BY <1>2, <1>3, <1>4, <1>7, <1>8, <1>9, <1>10

LEMMA WriteRawType ==
  ASSUME NEW s \in Seq(Byte)
  PROVE  WriteRawString(s) \in Seq(Byte)
<1> DEFINE c == CString(s)
           q == [i \in DOMAIN c |-> Escaped(c[i])]
<1>1. c \in Seq(Byte)
  BY CStringType
<1>2. WriteRawString(s) = <<Quote>> \o FlattenSeq(q) \o <<Quote>>
  BY DEF WriteRawString
<1> HIDE DEF c
<1>3. q \in Seq(Seq(Byte))
  <2>1. DOMAIN c = 1 .. Len(c) /\ Len(c) \in Nat /\ \A i \in 1 .. Len(c) : c[i] \in Byte
    BY <1>1
  <2>2. \A i \in 1 .. Len(c) : Escaped(c[i]) \in Seq(Byte)
    BY <2>1, EscapedType
  <2>3. q \in [1 .. Len(c) -> Seq(Byte)]
    BY <2>1, <2>2
  <2> HIDE DEF q
  <2> QED BY <2>1, <2>3
<1> HIDE DEF q
<1>4. FlattenSeq(q) \in Seq(Byte)
  BY <1>3, FlattenType
<1> DEFINE f == FlattenSeq(q)
           e == <<Quote>>
<1>5. e \in Seq(Byte)
  <2>1. Quote \in Byte
    BY ByteNumbers DEF Quote
  <2> QED BY <2>1, ByteTuples
<1>6. f \in Seq(Byte)
  BY <1>4
<1> HIDE DEF e, f
<1>7. e \o f \o e \in Seq(Byte)
  BY <1>5, <1>6
<1> QED BY <1>2, <1>7 DEF e, f

LEMMA DomainsOfStrs ==
  /\ \A x \in [word : Words] : DOMAIN x = {"word"}
  /\ \A x \in [table : Tables, index : Nat] : DOMAIN x = {"table", "index"}
  /\ \A x \in [address : Quad] : DOMAIN x = {"address"}
  /\ \A x \in [bytes : Seq(Byte)] : DOMAIN x = {"bytes"} /\ x.bytes \in Seq(Byte)
  /\ \A x \in [text : Seq(Byte)] : DOMAIN x = {"text"} /\ x.text \in Seq(Byte)
  /\ \A x \in [number : Half] : DOMAIN x = {"number"}
OBVIOUS

LEMMA TextStr ==
  ASSUME NEW x \in StringStr
  PROVE  /\ "bytes" \in DOMAIN x => x.bytes \in Seq(Byte)
         /\ "text" \in DOMAIN x => x.text \in Seq(Byte)
BY DomainsOfStrs DEF StringStr

LEMMA StringTokens ==
  /\ \A b \in Seq(Byte) : [bytes |-> b] \in StringStr /\ [text |-> b] \in StringStr
  /\ \A c \in StringToken : c.t = "String" /\ c.str \in StringStr /\ DOMAIN c = {"t", "str"}
  /\ \A x \in StringStr : Text(x).t = "String" /\ Text(x).str = x
  /\ \A c \in StringToken, x \in StringStr : [c EXCEPT !.str = x] = Text(x)
<1>1. \A b \in Seq(Byte) : [bytes |-> b] \in StringStr /\ [text |-> b] \in StringStr
  BY DEF StringStr
<1>2. \A c \in StringToken : c.t = "String" /\ c.str \in StringStr /\ DOMAIN c = {"t", "str"}
  BY DEF StringToken
<1>3. \A x \in StringStr : Text(x).t = "String" /\ Text(x).str = x
  BY DEF Text
<1>4. \A c \in StringToken, x \in StringStr : [c EXCEPT !.str = x] = Text(x)
  BY DEF StringToken, Text
<1> QED BY <1>1, <1>2, <1>3, <1>4

LEMMA WrittenIs ==
  ASSUME NEW c \in TokenSet
  PROVE  /\ Written(c) \in TokenSet
         /\ c.t # "String" => Written(c) = c
         /\ c.t = "String" => Written(c).t = "String"
<1>1. CASE c.t # "String"
  BY <1>1 DEF Written
<1>2. CASE c.t = "String"
  <2>1. c \in StringToken /\ c.str \in StringStr
    BY <1>2, TokenKinds, StringTokens
  <2>2. CASE "bytes" \in DOMAIN c.str
    <3> DEFINE w == WriteRawString(c.str.bytes)
               x == [text |-> w]
    <3>1. c.str.bytes \in Seq(Byte)
      BY <2>1, <2>2, TextStr
    <3>2. w \in Seq(Byte)
      BY <3>1, WriteRawType
    <3>3. Written(c) = Text(x)
      BY <1>2, <2>2 DEF Written
    <3> HIDE DEF w
    <3>4. x \in StringStr
      BY <3>2, StringTokens
    <3> HIDE DEF x
    <3>5. Text(x) \in StringToken /\ Text(x).t = "String"
      BY <3>4, ScalarTokens, StringTokens
    <3> QED BY <1>2, <3>3, <3>5 DEF TokenSet
  <2>3. CASE "bytes" \notin DOMAIN c.str
    BY <1>2, <2>3 DEF Written
  <2> QED BY <2>2, <2>3
<1> QED BY <1>1, <1>2

Failed == [t |-> "Error"]

LEMMA LexedIs ==
  ASSUME NEW c \in TokenSet
  PROVE  /\ Lexed(c) \in TokenSet
         /\ c.t # "String" => Lexed(c) = c
         /\ c.t = "String" => Lexed(c).t \in {"String", "Error"}
<1>1. CASE "str" \notin DOMAIN c
  <2>1. Lexed(c) = c /\ c.t # "String"
    BY <1>1, TokenKinds DEF Lexed
  <2> QED BY <2>1
<1>2. CASE "str" \in DOMAIN c /\ "text" \notin DOMAIN c.str
  <2>1. Lexed(c) = c
    BY <1>2 DEF Lexed
  <2> QED BY <2>1
<1>3. CASE "str" \in DOMAIN c /\ "text" \in DOMAIN c.str
  <2>1. c.t = "String"
    <3>1. c \notin PropertyToken
      <4>1. c \in PropertyToken => c.str \in [word : Words]
        BY DEF PropertyToken
      <4> QED BY <1>3, <4>1, DomainsOfStrs
    <3>2. c \notin IntegerToken
      <4>1. c \in IntegerToken => c.str \in [number : Half]
        BY DEF IntegerToken
      <4> QED BY <1>3, <4>1, DomainsOfStrs
    <3> QED BY <1>3, <3>1, <3>2, TokenKinds
  <2>2. c \in StringToken /\ c.str \in StringStr
    BY <2>1, TokenKinds, StringTokens
  <2>3. c.str.text \in Seq(Byte)
    BY <1>3, <2>2, TextStr
  <2> DEFINE v == ReadString(c.str.text).value
             x == [bytes |-> v]
             ok == ReadString(c.str.text).ok
  <2>4. v \in Seq(Byte)
    BY <2>3, ReadStringType
  <2>5. Lexed(c) = IF ok THEN [c EXCEPT !.str = x] ELSE Failed
    BY <1>3 DEF Lexed, Failed
  <2> HIDE DEF v, ok
  <2>6. x \in StringStr
    BY <2>4, StringTokens
  <2> HIDE DEF x
  <2>7. [c EXCEPT !.str = x] = Text(x) /\ Text(x) \in StringToken /\ Text(x).t = "String"
    BY <2>2, <2>6, ScalarTokens, StringTokens
  <2>8. Failed \in TokenSet /\ Failed.t = "Error"
    BY DEF Failed, TokenSet, PlainToken
  <2>9. Lexed(c) = Text(x) \/ Lexed(c) = Failed
    BY <2>5, <2>7
  <2>10. Text(x) \in TokenSet
    BY <2>7 DEF TokenSet
  <2> QED BY <2>1, <2>7, <2>8, <2>9, <2>10
<1> QED BY <1>1, <1>2, <1>3

Read(c) == Lexed(Written(c))

LEMMA ReadIsLike ==
  ASSUME NEW c \in TokenSet
  PROVE  Read(c) \in TokenSet /\ Alike(c, Read(c)) /\ (c.t # "String" => Read(c) = c)
<1>1. CASE c.t # "String"
  <2>1. Read(c) = c
    BY <1>1, WrittenIs, LexedIs DEF Read
  <2> QED BY <2>1 DEF Alike
<1>2. CASE c.t = "String"
  <2> DEFINE w == Written(c)
             e == Lexed(w)
  <2>1. w \in TokenSet /\ w.t = "String"
    BY <1>2, WrittenIs
  <2> HIDE DEF w
  <2>2. e \in TokenSet /\ e.t \in {"String", "Error"}
    BY <2>1, LexedIs
  <2> HIDE DEF e
  <2>3. ~Opens(c) /\ ~Closes(c) /\ ~Opens(e) /\ ~Closes(e)
    BY <1>2, <2>2 DEF Opens, Closes
  <2>4. ASSUME NEW l \in Nat PROVE After(e, l) = After(c, l) /\ (Fits(c, l) => Fits(e, l))
    BY <1>2, <2>2, <2>3 DEF After, Fits
  <2>5. Alike(c, e)
    BY <2>4 DEF Alike
  <2> QED BY <1>2, <2>2, <2>5 DEF Read, e, w
<1> QED BY <1>1, <1>2

(***************************************************************************)
(* The data.                                                               *)
(***************************************************************************)
LEMMA CharactersType ==
  ASSUME NEW x \in StringStr
  PROVE  Characters(x) \in Seq(Byte)
<1>1. (CHOOSE s \in Seq(Byte) : TRUE) \in Seq(Byte)
  <2>1. \E s \in Seq(Byte) : TRUE
    BY ByteTuples
  <2> QED BY <2>1
<1> DEFINE y == CHOOSE s \in Seq(Byte) : TRUE
<1> HIDE DEF y
<1>2. y \in Seq(Byte)
  BY <1>1 DEF y
<1>3. Characters(x) = IF "bytes" \in DOMAIN x THEN x.bytes ELSE y
  BY DEF Characters, y
<1> QED BY <1>2, <1>3, TextStr

LEMMA ElementsText ==
  ASSUME NEW q \in Seq(TokenSet), \A i \in 1 .. Len(q) : q[i].t = "String"
  PROVE  FlattenSeq([i \in DOMAIN q |-> Characters(q[i].str)]) \in Seq(Byte)
<1> DEFINE c == [i \in DOMAIN q |-> Characters(q[i].str)]
<1>1. DOMAIN q = 1 .. Len(q) /\ Len(q) \in Nat /\ \A i \in 1 .. Len(q) : q[i] \in TokenSet
  OBVIOUS
<1>2. ASSUME NEW i \in 1 .. Len(q) PROVE Characters(q[i].str) \in Seq(Byte)
  <2>1. q[i].str \in StringStr
    BY <1>1, TokenKinds, StringTokens
  <2> QED BY <2>1, CharactersType
<1>3. c \in [1 .. Len(q) -> Seq(Byte)]
  BY <1>1, <1>2
<1> HIDE DEF c
<1>4. c \in Seq(Seq(Byte))
  BY <1>1, <1>3
<1>5. FlattenSeq(c) \in Seq(Byte)
  BY <1>4, FlattenType
<1> QED BY <1>5 DEF c

LEMMA DataReads ==
  ASSUME NEW s \in State
  PROVE  LET x == DeserializeData(s)
         IN  \E K \in Nat : /\ Reads(s, x, 2, 1, K)
                            /\ x.ok => x.cur.t = "EndObject" /\ s.cur.t = "PropertyName"
<1> DEFINE s0 == ExpectCurrentPropertyName(s, "data")
           s1 == ExpectNextToken(s0, "StartObject")
           t1 == ExpectNextPropertyName(s1, "type")
           s2 == ExpectNextToken(t1, "String")
           hex == Says(s2.str, "hex")
           good == hex \/ Says(s2.str, "text")
           s3 == Expect(s2, good)
           t3 == ExpectNextPropertyName(s3, "data")
           s4 == ExpectNextToken(t3, "StartArray")
           s5 == Elements(s4, Strings(s4.left))
           text == FlattenSeq([i \in DOMAIN s5.f.elements |-> Characters(s5.f.elements[i].str)])
           b == IF hex THEN ParseHex(text).out ELSE text
           s6 == Put(s5, b)
           s7 == ExpectNextToken(s6, "EndObject")
           s8 == ExpectNextToken(s7, "EndObject")
           x == DeserializeData(s)
<1>0. x = IF ~s5.ok THEN s5 ELSE s8
  BY DEF DeserializeData
<1>1. s0 \in State /\ Goes(s, s0, 2, 2, {}) /\ (s0.ok => s.cur.t = "PropertyName")
  BY ExpectCurrentPropertyNameIs, SameGoes
<1> HIDE DEF s0
<1>2. s1 \in State /\ Goes(s0, s1, 2, 3, {})
  BY <1>1, NextTokenGoes, TypeAfterValues, GoesState
<1> HIDE DEF s1
<1>3. t1 \in State /\ Goes(s1, t1, 3, 3, {})
  BY <1>2, NextNameGoes, GoesState
<1> HIDE DEF t1
<1>4. s2 \in State /\ Goes(t1, s2, 3, 3, {})
  BY <1>3, NextTokenGoes, TypeAfterValues, GoesState
<1> HIDE DEF s2, hex, good
<1>5. s3 \in State /\ Goes(s2, s3, 3, 3, {})
  BY <1>4, ExpectIs, SameGoes
<1> HIDE DEF s3
<1>6. t3 \in State /\ Goes(s3, t3, 3, 3, {})
  BY <1>5, NextNameGoes, GoesState
<1> HIDE DEF t3
<1>7. s4 \in State /\ Goes(t3, s4, 3, 4, {})
  BY <1>6, NextTokenGoes, TypeAfterValues, GoesState
<1> HIDE DEF s4
<1>8. /\ Goes(s4, s5, 4, 3, {"elements"})
      /\ s5.ok => \A i \in 1 .. Len(s5.f["elements"]) :
                    s5.f["elements"][i] = s4.left[i] /\ s4.left[i].t = "String"
  <2> DEFINE g == Strings(s4.left)
  <2>1. \A i \in 1 .. Len(s4.left) : i \in g => s4.left[i].t = "String"
    BY DEF Strings
  <2>2. \A i \in g : s4.left[i].t = "String"
    BY DEF Strings
  <2> HIDE DEF g
  <2>3. LET y == Elements(s4, g)
        IN  /\ Goes(s4, y, 4, 3, {"elements"})
            /\ y.ok => \A i \in 1 .. Len(y.f["elements"]) :
                          y.f["elements"][i] = s4.left[i] /\ i \in g /\ i \in 1 .. Len(s4.left)
    BY <1>7, <2>1, ElementsGoes
  <2>4. Elements(s4, g) = s5
    BY DEF g
  <2> HIDE DEF s5
  <2> QED BY <2>2, <2>3, <2>4
<1>9. s5 \in State /\ (s5.ok => s5.f["elements"] \in Seq(TokenSet))
  BY <1>8, GoesState, FieldSets
<1> HIDE DEF s5
<1>10. Goes(s, s5, 2, 3, {})
  <2>1. Goes(s, s1, 2, 3, {})
    BY <1>1, <1>2, GoesTo
  <2>2. Goes(s, t1, 2, 3, {})
    BY <1>3, <2>1, GoesTo
  <2>3. Goes(s, s2, 2, 3, {})
    BY <1>4, <2>2, GoesTo
  <2>4. Goes(s, s3, 2, 3, {})
    BY <1>5, <2>3, GoesTo
  <2>5. Goes(s, t3, 2, 3, {})
    BY <1>6, <2>4, GoesTo
  <2>6. Goes(s, s4, 2, 4, {})
    BY <1>7, <2>5, GoesTo
  <2>7. {} \subseteq {} \cup {"elements"}
    OBVIOUS
  <2> QED BY <1>8, <2>6, <2>7, GoesTo
<1>11. s5.ok => text \in Seq(Byte)
  <2> DEFINE q == s5.f["elements"]
  <2>1. s5.ok => q \in Seq(TokenSet) /\ \A i \in 1 .. Len(q) : q[i].t = "String"
    BY <1>8, <1>9
  <2>2. text = FlattenSeq([i \in DOMAIN q |-> Characters(q[i].str)])
    OBVIOUS
  <2> HIDE DEF q, text
  <2> QED BY <2>1, <2>2, ElementsText
<1> HIDE DEF text
<1>12. s5.ok => b \in Seq(Byte)
  BY <1>11, ParseHexType
<1> DEFINE K == IF s5.ok THEN Len(b) ELSE 0
<1> HIDE DEF b
<1>13. s5.ok => Bytes(b, K)
  BY <1>12 DEF Bytes
<1>14. K \in Nat
  <2>1. s5.ok => Len(b) \in Nat
    BY <1>12
  <2> QED BY <2>1
<1> HIDE DEF K
<1>15. Reads(s, s6, 2, 3, K) /\ s6.ok = s5.ok
  BY <1>10, <1>13, PutReads
<1>16. s6 \in State
  BY <1>15 DEF Reads
<1> HIDE DEF s6
<1>17. s7 \in State /\ Goes(s6, s7, 3, 2, {})
  BY <1>16, NextTokenGoes, TypeAfterValues, GoesState
<1> HIDE DEF s7
<1>18. s8 \in State /\ Goes(s7, s8, 2, 1, {}) /\ (s8.ok => s8.cur.t = "EndObject")
  BY <1>17, NextTokenGoes, TypeAfterValues, GoesState
<1> HIDE DEF s8
<1>19. Reads(s, s7, 2, 2, K)
  BY <1>15, <1>17, ReadsGoes
<1>20. Reads(s, s8, 2, 1, K)
  BY <1>18, <1>19, ReadsGoes
<1>21. s5.ok => s0.ok
  BY <1>2, <1>3, <1>4, <1>5, <1>6, <1>7, <1>8 DEF Goes
<1>22. ~s5.ok => Reads(s, s5, 2, 1, K)
  BY <1>9 DEF Reads
<1> QED BY <1>0, <1>1, <1>14, <1>18, <1>20, <1>21, <1>22

(***************************************************************************)
(* The lengths and checksums of a packet.                                  *)
(***************************************************************************)
LEMMA Slices ==
  ASSUME NEW q \in Seq(Byte), NEW i \in Nat, NEW n \in Nat, i + n <= Len(q)
  PROVE  /\ Bytes(Part(q, i, n), n)
         /\ Bytes(From(q, i), Len(q) - i)
         /\ \A j \in 0 .. n - 1 : At(Part(q, i, n), j) = At(q, i + j)
<1>1. Len(q) \in Nat /\ \A j \in 1 .. Len(q) : q[j] \in Byte
  OBVIOUS
<1>2. Bytes(Part(q, i, n), n) /\ \A j \in 0 .. n - 1 : At(Part(q, i, n), j) = At(q, i + j)
  BY <1>1 DEF Part, Bytes, At
<1>3. Bytes(From(q, i), Len(q) - i)
  <2>1. SubSeq(q, i + 1, Len(q)) \in Seq(Byte) /\ Len(SubSeq(q, i + 1, Len(q))) = Len(q) - i
    BY <1>1
  <2> QED BY <2>1 DEF From, Bytes
<1> QED BY <1>2, <1>3

LEMMA PatchedIs ==
  ASSUME NEW q \in Seq(Byte), NEW i \in Nat, NEW n \in Nat, NEW s, Bytes(s, n), i + n <= Len(q)
  PROVE  /\ Patched(q, i, s) \in Seq(Byte) /\ Len(Patched(q, i, s)) = Len(q)
         /\ \A j \in 0 .. i - 1 : At(Patched(q, i, s), j) = At(q, j)
         /\ \A j \in i + n .. Len(q) - 1 : At(Patched(q, i, s), j) = At(q, j)
<1> DEFINE a == Part(q, 0, i)
           c == From(q, i + n)
<1>1. Len(q) \in Nat /\ s \in Seq(Byte) /\ Len(s) = n
  BY DEF Bytes
<1>2. Bytes(a, i) /\ \A j \in 0 .. i - 1 : At(a, j) = At(q, j)
  <2>1. 0 \in Nat /\ 0 + i <= Len(q)
    BY <1>1
  <2>2. Bytes(a, i) /\ \A j \in 0 .. i - 1 : At(a, j) = At(q, 0 + j)
    BY <2>1, Slices
  <2>3. \A j \in 0 .. i - 1 : 0 + j = j
    OBVIOUS
  <2> QED BY <2>2, <2>3
<1>3. Bytes(c, Len(q) - (i + n)) /\ \A j \in i + n .. Len(q) - 1 : c[j + 1 - (i + n)] = At(q, j)
  <2>1. i + n \in Nat /\ 0 \in Nat /\ (i + n) + 0 <= Len(q)
    BY <1>1
  <2>2. Bytes(c, Len(q) - (i + n))
    BY <2>1, Slices
  <2>3. ASSUME NEW j \in i + n .. Len(q) - 1 PROVE c[j + 1 - (i + n)] = At(q, j)
    <3> DEFINE k == i + n
               m == j + 1 - k
    <3>1. k \in Nat /\ m \in 1 .. Len(q) - k /\ m + k = j + 1 /\ k <= Len(q)
      BY <1>1
    <3> HIDE DEF k, m
    <3>2. SubSeq(q, k + 1, Len(q))[m] = q[m + k]
      BY <1>1, <3>1
    <3> QED BY <3>1, <3>2 DEF From, At, k, m
  <2> QED BY <2>2, <2>3
<1>4. Patched(q, i, s) = a \o s \o c
  BY <1>1 DEF Patched
<1> HIDE DEF a, c
<1>5. /\ a \in Seq(Byte) /\ Len(a) = i
      /\ c \in Seq(Byte) /\ Len(c) = Len(q) - (i + n)
  BY <1>2, <1>3 DEF Bytes
<1>6. a \o s \in Seq(Byte) /\ Len(a \o s) = i + n /\ \A j \in 1 .. i : (a \o s)[j] = a[j]
  <2>1. a \o s \in Seq(Byte) /\ Len(a \o s) = Len(a) + Len(s)
    BY <1>1, <1>5, Concat
  <2>2. \A j \in 1 .. Len(a) : (a \o s)[j] = a[j]
    BY <1>1, <1>5, ConcatAt
  <2> QED BY <1>1, <1>5, <2>1, <2>2
<1> DEFINE d == a \o s
<1> HIDE DEF d
<1>7. d \in Seq(Byte) /\ Len(d) = i + n /\ \A j \in 1 .. i : d[j] = a[j]
  BY <1>6 DEF d
<1>8. /\ d \o c \in Seq(Byte) /\ Len(d \o c) = Len(q)
      /\ \A j \in 1 .. i + n : (d \o c)[j] = d[j]
      /\ \A j \in i + n + 1 .. Len(q) : (d \o c)[j] = c[j - (i + n)]
  <2>1. d \o c \in Seq(Byte) /\ Len(d \o c) = Len(d) + Len(c)
    BY <1>5, <1>7, Concat
  <2>2. /\ \A j \in 1 .. Len(d) : (d \o c)[j] = d[j]
        /\ \A j \in Len(d) + 1 .. Len(d) + Len(c) : (d \o c)[j] = c[j - Len(d)]
    BY <1>5, <1>7, ConcatAt
  <2>3. Len(d) + Len(c) = Len(q)
    BY <1>1, <1>5, <1>7
  <2> QED BY <1>7, <2>1, <2>2, <2>3
<1>9. ASSUME NEW j \in 0 .. i - 1 PROVE At(d \o c, j) = At(q, j)
  <2>1. j + 1 \in 1 .. i /\ j + 1 \in 1 .. i + n
    OBVIOUS
  <2>2. At(a, j) = At(q, j)
    BY <1>2
  <2>3. (d \o c)[j + 1] = a[j + 1]
    BY <1>7, <1>8, <2>1
  <2> QED BY <2>2, <2>3 DEF At
<1>10. ASSUME NEW j \in i + n .. Len(q) - 1 PROVE At(d \o c, j) = At(q, j)
  <2>1. j + 1 \in i + n + 1 .. Len(q)
    BY <1>1
  <2>2. (d \o c)[j + 1] = c[j + 1 - (i + n)]
    BY <1>8, <2>1
  <2>3. c[j + 1 - (i + n)] = At(q, j)
    BY <1>3
  <2> QED BY <2>2, <2>3 DEF At
<1> QED BY <1>4, <1>8, <1>9, <1>10 DEF d

\* The packets that have the headers of their protocol.
Whole(q) ==
  /\ q \in Seq(Byte)
  /\ Len(q) >= 20
  /\ protocol(q) = kProtocolTcp => Len(q) >= 40
  /\ protocol(q) \in {kProtocolUdp, kProtocolIcmp} => Len(q) >= 28

Alter(q, x) == x \in Seq(Byte) /\ Len(x) = Len(q) /\ protocol(x) = protocol(q)

LEMMA PatchedAlter ==
  ASSUME NEW q \in Seq(Byte), Len(q) >= 20, NEW i \in Nat, NEW n \in Nat, NEW s, Bytes(s, n),
         i + n <= Len(q), i >= 10 \/ i + n <= 9
  PROVE  Alter(q, Patched(q, i, s))
<1>1. 9 \in 0 .. i - 1 \/ 9 \in i + n .. Len(q) - 1
  OBVIOUS
<1> QED BY <1>1, PatchedIs DEF Alter, protocol

LEMMA PseudoBytes ==
  ASSUME NEW q \in Seq(Byte), Len(q) >= 20
  PROVE  pseudo_header(q) \in Seq(Byte)
<1> DEFINE a == Part(q, 12, 8)
           b == <<0, protocol(q)>>
           c == htons(Len(q) - 4 * ihl(q))
<1>1. Len(q) \in Nat /\ At(q, 0) \in Byte /\ At(q, 9) \in Byte
  BY DEF At
<1>2. Bytes(a, 8)
  <2>1. 12 + 8 <= Len(q)
    BY <1>1
  <2> QED BY <2>1, Slices
<1>3. Bytes(b, 2)
  <2>1. 0 \in Byte
    BY ByteNumbers
  <2> QED BY <1>1, <2>1, BytesAre DEF protocol
<1>4. Bytes(c, 2)
  <2>1. At(q, 0) \in Nat
    BY <1>1, ByteNumbers
  <2>2. Len(q) - 4 * ihl(q) \in Int
    BY <1>1, <2>1 DEF ihl
  <2> QED BY <2>2, ShortBytes DEF Bytes
<1>5. pseudo_header(q) = a \o b \o c
  BY DEF pseudo_header
<1> HIDE DEF a, b, c
<1>6. a \in Seq(Byte) /\ b \in Seq(Byte) /\ c \in Seq(Byte)
  BY <1>2, <1>3, <1>4 DEF Bytes
<1>7. a \o b \o c \in Seq(Byte)
  BY <1>6
<1> QED BY <1>5, <1>7

LEMMA SealIs ==
  ASSUME NEW q, Whole(q)
  PROVE  Alter(q, Seal(q))
<1> DEFINE size == Len(q)
           proto == protocol(q)
           l == htons(size % 256)
           ip1 == Patched(q, 2, l)
           e == <<>>
           c2 == ComputeIpChecksum(e, Part(ip1, 0, 20))
           ip2 == Patched(ip1, 10, c2)
           l2 == htons(size - 20)
           udp == Patched(ip2, 24, l2)
           ci == ComputeIpChecksum(e, From(ip2, 20))
           ct == ComputeIpChecksum(pseudo_header(ip2), From(ip2, 20))
           cu == ComputeIpChecksum(pseudo_header(udp), From(udp, 20))
           xi == Patched(ip2, 22, ci)
           xt == Patched(ip2, 36, ct)
           xu == Patched(udp, 26, cu)
<1>1. Seal(q) = CASE proto = kProtocolIcmp -> xi [] proto = kProtocolTcp -> xt
                  [] proto = kProtocolUdp -> xu [] OTHER -> ip2
  BY DEF Seal
<1>2. q \in Seq(Byte) /\ size \in Nat /\ size >= 20
  BY DEF Whole
<1>3. Alter(q, ip1)
  <2>1. Bytes(l, 2)
    <3>1. size % 256 \in Int
      BY <1>2
    <3> QED BY <3>1, ShortBytes DEF Bytes
  <2>2. 2 \in Nat /\ 2 + 2 <= Len(q) /\ 2 + 2 <= 9
    BY <1>2
  <2> HIDE DEF l
  <2> QED BY <1>2, <2>1, <2>2, PatchedAlter
<1> HIDE DEF ip1
<1>4. ip1 \in Seq(Byte) /\ Len(ip1) = size /\ protocol(ip1) = proto
  BY <1>3 DEF Alter
<1>5. e \in Seq(Byte)
  OBVIOUS
<1> HIDE DEF e
<1>6. Alter(ip1, ip2)
  <2>1. Bytes(Part(ip1, 0, 20), 20)
    <3>1. 0 + 20 <= Len(ip1)
      BY <1>2, <1>4
    <3> QED BY <1>4, <3>1, Slices
  <2>2. Bytes(c2, 2)
    BY <1>5, <2>1, ChecksumBytes DEF Bytes
  <2>3. 10 \in Nat /\ 10 + 2 <= Len(ip1) /\ 10 >= 10 /\ Len(ip1) >= 20
    BY <1>2, <1>4
  <2> HIDE DEF c2
  <2> QED BY <1>4, <2>2, <2>3, PatchedAlter
<1> HIDE DEF ip2
<1>7. ip2 \in Seq(Byte) /\ Len(ip2) = size /\ protocol(ip2) = proto
  BY <1>4, <1>6 DEF Alter
<1>8. From(ip2, 20) \in Seq(Byte) /\ pseudo_header(ip2) \in Seq(Byte)
  <2>1. 20 \in Nat /\ 0 \in Nat /\ 20 + 0 <= Len(ip2) /\ Len(ip2) >= 20
    BY <1>2, <1>7
  <2>2. Bytes(From(ip2, 20), Len(ip2) - 20)
    BY <1>7, <2>1, Slices
  <2> QED BY <1>7, <2>1, <2>2, PseudoBytes DEF Bytes
<1>9. Bytes(ci, 2) /\ Bytes(ct, 2)
  BY <1>5, <1>8, ChecksumBytes
<1> HIDE DEF ci, ct
<1>10. CASE proto = kProtocolIcmp
  <2>1. Len(ip2) >= 28
    BY <1>7, <1>10 DEF Whole
  <2>2. 22 \in Nat /\ 22 + 2 <= Len(ip2) /\ 22 >= 10 /\ Len(ip2) >= 20
    BY <1>2, <1>7, <2>1
  <2>3. Alter(ip2, xi)
    BY <1>7, <1>9, <2>2, PatchedAlter
  <2>4. proto # kProtocolTcp /\ proto # kProtocolUdp
    BY <1>10 DEF kProtocolIcmp, kProtocolTcp, kProtocolUdp
  <2> HIDE DEF xi, xt, xu, proto
  <2>5. Seal(q) = xi
    BY <1>1, <1>10, <2>4
  <2> QED BY <1>7, <2>3, <2>5 DEF Alter, proto
<1>11. CASE proto = kProtocolTcp
  <2>1. Len(ip2) >= 40
    BY <1>7, <1>11 DEF Whole
  <2>2. 36 \in Nat /\ 36 + 2 <= Len(ip2) /\ 36 >= 10 /\ Len(ip2) >= 20
    BY <1>2, <1>7, <2>1
  <2>3. Alter(ip2, xt)
    BY <1>7, <1>9, <2>2, PatchedAlter
  <2>4. proto # kProtocolIcmp /\ proto # kProtocolUdp
    BY <1>11 DEF kProtocolIcmp, kProtocolTcp, kProtocolUdp
  <2> HIDE DEF xi, xt, xu, proto
  <2>5. Seal(q) = xt
    BY <1>1, <1>11, <2>4
  <2> QED BY <1>7, <2>3, <2>5 DEF Alter, proto
<1>12. CASE proto = kProtocolUdp
  <2>1. Len(ip2) >= 28
    BY <1>7, <1>12 DEF Whole
  <2>2. Bytes(l2, 2)
    <3>1. size - 20 \in Int
      BY <1>2
    <3> QED BY <3>1, ShortBytes DEF Bytes
  <2>3. 24 \in Nat /\ 24 + 2 <= Len(ip2) /\ 24 >= 10 /\ Len(ip2) >= 20
    BY <1>2, <1>7, <2>1
  <2> HIDE DEF l2
  <2>4. Alter(ip2, udp)
    BY <1>7, <2>2, <2>3, PatchedAlter
  <2> HIDE DEF udp
  <2>5. udp \in Seq(Byte) /\ Len(udp) = size /\ protocol(udp) = proto
    BY <1>7, <2>4 DEF Alter
  <2>6. From(udp, 20) \in Seq(Byte) /\ pseudo_header(udp) \in Seq(Byte)
    <3>1. 20 \in Nat /\ 0 \in Nat /\ 20 + 0 <= Len(udp) /\ Len(udp) >= 20
      BY <1>2, <2>5
    <3>2. Bytes(From(udp, 20), Len(udp) - 20)
      BY <2>5, <3>1, Slices
    <3> QED BY <2>5, <3>1, <3>2, PseudoBytes DEF Bytes
  <2>7. Bytes(cu, 2)
    BY <2>6, ChecksumBytes
  <2> HIDE DEF cu
  <2>8. 26 \in Nat /\ 26 + 2 <= Len(udp) /\ 26 >= 10 /\ Len(udp) >= 20
    BY <1>2, <1>7, <2>1, <2>5
  <2>9. Alter(udp, xu)
    BY <2>5, <2>7, <2>8, PatchedAlter
  <2>10. proto # kProtocolIcmp /\ proto # kProtocolTcp
    BY <1>12 DEF kProtocolIcmp, kProtocolTcp, kProtocolUdp
  <2> HIDE DEF xi, xt, xu, proto
  <2>11. Seal(q) = xu
    BY <1>1, <1>12, <2>10
  <2> QED BY <2>5, <2>9, <2>11 DEF Alter, proto
<1>13. CASE proto # kProtocolIcmp /\ proto # kProtocolTcp /\ proto # kProtocolUdp
  <2> HIDE DEF xi, xt, xu, proto
  <2>1. Seal(q) = ip2
    BY <1>1, <1>13
  <2> QED BY <1>7, <2>1 DEF Alter, proto
<1> QED BY <1>10, <1>11, <1>12, <1>13

(***************************************************************************)
(* Checksums.                                                              *)
(***************************************************************************)
LEMMA Modulo ==
  ASSUME NEW x \in Nat, x < 65536
  PROVE  x % 65536 = x /\ (x + 65536) % 65536 = x
BY SMT

\* The checksum n of a sum of words, and the sum with it.
LEMMA OnesComplement ==
  ASSUME NEW a \in Nat, a < 65536, NEW b \in Nat, b < 65536, NEW n, NEW t,
         n = 65535 - ((a + b) % 65536), t = 65536 * a + b + n
  PROVE  (IF t = 0 THEN 0 ELSE 1 + ((t - 1) % 65535)) = 65535 <=> ~(b + a >= 65536)
<1> DEFINE m == (a + b) % 65536
<1>1. CASE a + b < 65536
  <2>1. m = a + b
    BY <1>1, Modulo
  <2> HIDE DEF m
  <2>2. t = 65535 * a + 65535
    <3>1. t = 65536 * a + b + (65535 - m)
      BY DEF m
    <3> QED BY <2>1, <3>1, SMT
  <2>3. t \in Nat /\ t # 0 /\ t - 1 = 65535 * a + 65534
    BY <2>2, SMT
  <2> DEFINE y == t - 1
  <2> HIDE DEF y
  <2>4. y = 65535 * a + 65534
    BY <2>3 DEF y
  <2>5. y % 65535 = 65534
    BY <2>4, SMT
  <2>6. (IF t = 0 THEN 0 ELSE 1 + (y % 65535)) = 65535
    BY <2>3, <2>5
  <2>7. ~(b + a >= 65536)
    BY <1>1
  <2> QED BY <2>6, <2>7 DEF y
<1>2. CASE a + b >= 65536
  <2>1. m = a + b - 65536
    <3> DEFINE z == a + b - 65536
    <3>1. z \in Nat /\ z < 65536 /\ z + 65536 = a + b
      BY <1>2, SMT
    <3> HIDE DEF z
    <3>2. (z + 65536) % 65536 = z
      BY <3>1, Modulo
    <3> QED BY <3>1, <3>2 DEF z
  <2> HIDE DEF m
  <2>2. t = 65535 * a + 65535 + 65536
    <3>1. t = 65536 * a + b + (65535 - m)
      BY DEF m
    <3> QED BY <2>1, <3>1, SMT
  <2>3. t \in Nat /\ t # 0 /\ t - 1 = 65535 * (a + 2)
    BY <2>2, SMT
  <2> DEFINE y == t - 1
  <2> HIDE DEF y
  <2>4. y = 65535 * (a + 2)
    BY <2>3 DEF y
  <2>5. y % 65535 = 0
    BY <2>4, SMT
  <2>6. (IF t = 0 THEN 0 ELSE 1 + (y % 65535)) # 65535
    BY <2>3, <2>5, SMT
  <2>7. b + a >= 65536
    BY <1>2
  <2> QED BY <2>6, <2>7 DEF y
<1>3. a + b < 65536 \/ a + b >= 65536
  OBVIOUS
<1> QED BY <1>1, <1>2, <1>3

LEMMA Halved ==
  ASSUME NEW x \in Nat
  PROVE  /\ x \div 65536 \in Nat /\ x % 65536 \in Nat /\ x % 65536 < 65536
         /\ x = 65536 * (x \div 65536) + (x % 65536)
         /\ x <= 65535 * 65537 => x \div 65536 < 65536
<1>1. /\ x \div 65536 \in Nat /\ x % 65536 \in Nat /\ x % 65536 < 65536
      /\ x = 65536 * (x \div 65536) + (x % 65536)
  BY SMT
<1> DEFINE a == x \div 65536
           b == x % 65536
<1> HIDE DEF a, b
<1>2. a \in Nat /\ b \in Nat /\ x = 65536 * a + b
  BY <1>1 DEF a, b
<1>3. x <= 65535 * 65537 => a < 65536
  BY <1>2, SMT
<1> QED BY <1>1, <1>3 DEF a

LEMMA ShortValue ==
  ASSUME NEW n \in Nat, n < 65536
  PROVE  \E x, y \in Byte : htons(n) = <<x, y>> /\ 256 * x + y = n
<1> DEFINE z == n \div 256
           y == n % 256
<1>1. z \in Nat /\ y \in Nat /\ y < 256 /\ n = 256 * z + y
  BY SMT
<1> HIDE DEF z, y
<1>2. z < 256
  BY <1>1, SMT
<1>3. z % 256 = z
  BY <1>1, <1>2, SMT
<1>4. htons(n) = <<z, y>>
  BY <1>3 DEF htons, z, y
<1>5. z \in Byte /\ y \in Byte
  BY <1>1, <1>2, ByteNumbers
<1> QED BY <1>1, <1>4, <1>5

LEMMA WordSumNat ==
  ASSUME NEW s \in Seq(Byte)
  PROVE  WordSum(s) \in Nat
BY WordSumBound

\* The sum of s has one carry, of at most sixteen bits.
Narrow(s) == WordSum(s) \div 65536 < 65536

LEMMA ShortIsNarrow ==
  ASSUME NEW y \in Seq(Byte), Len(y) <= 65547
  PROVE  Narrow(y)
<1> DEFINE z == Size(y)
           v == WordSum(y)
           l == Len(y)
<1>1. z \in Nat /\ l \in Nat /\ (l = 2 * z \/ l = 2 * z - 1) /\ l <= 65547
  BY SizeIs
<1>2. v \in Nat /\ v <= 65535 * z
  BY WordSumBound
<1> HIDE DEF z, v, l
<1>3. z <= 65537
  BY <1>1, SMT
<1>4. v <= 65535 * 65537
  BY <1>1, <1>2, <1>3, SMT
<1>5. v \div 65536 < 65536
  BY <1>2, <1>4, Halved, SMTT(40)
<1> QED BY <1>5 DEF Narrow, v

LEMMA ShortSum == \A n \in U16 : 0 + n <= 65547 /\ 12 + n <= 65547
BY SMTT(40) DEF U16

LEMMA NarrowBoth ==
  ASSUME NEW e \in Seq(Byte), NEW s \in Seq(Byte), Len(e) \in {0, 12}, Len(s) \in U16
  PROVE  Narrow(e \o s)
<1> DEFINE y == e \o s
           m == Len(e)
           n == Len(s)
<1>1. y \in Seq(Byte) /\ Len(y) = m + n
  BY Concat
<1>2. m \in {0, 12} /\ n \in U16
  OBVIOUS
<1> HIDE DEF y, m, n
<1>3. m + n <= 65547
  BY <1>2, ShortSum
<1>4. Len(y) <= 65547
  BY <1>1, <1>3
<1>5. Narrow(y)
  BY <1>1, <1>4, ShortIsNarrow
<1> QED BY <1>5 DEF y

\* The sum of s is the one a receiver wants.
Ones(s) == OnesSum(s) = 65535

\* The checksum of s is in place at i.  Then the sum over e and s is that of
\* ones if and only if the first folding of the sum without it had no carry.
LEMMA Checksummed ==
  ASSUME NEW s \in Seq(Byte), NEW e \in Seq(Byte), NEW i \in Nat, NEW j \in Nat,
         i = 2 * j, Len(e) \in {0, 12}, i + 2 <= Len(s), Narrow(e \o s),
         Patched(s, i, <<0, 0>>) = s
  PROVE  LET c == ComputeIpChecksum(e, s)
         IN  Ones(e \o Patched(s, i, c)) <=> ~SecondCarry(e \o s)
<1> DEFINE c == ComputeIpChecksum(e, s)
           x == WordSum(e \o s)
           n == 65535 - (Fold(x) % 65536)
           d == Part(s, 0, i)
           f == From(s, i + 2)
           T(y) == WordSum(e \o Patched(s, i, y))
<1>0. Len(s) \in Nat /\ Len(e) \in Nat
  OBVIOUS
<1>1. PICK k \in {0, 6} : Len(e) = 2 * k
  <2>1. 0 = 2 * 0 /\ 12 = 2 * 6
    OBVIOUS
  <2> QED BY <2>1
<1>2. k \in Nat
  BY <1>1
<1>3. x = WordSum(e) + WordSum(s)
  BY <1>1, <1>2, WordSumConcat
<1>4. x \in Nat
  <2>1. e \o s \in Seq(Byte)
    BY Concat
  <2> QED BY <2>1, WordSumNat
<1>5. c = htons(n)
  <2>1. Add(e) = WordSum(e) /\ Add(s) = WordSum(s)
    BY AddIsWordSum
  <2> QED BY <1>3, <2>1 DEF ComputeIpChecksum
<1> HIDE DEF c, x
<1> DEFINE a == x \div 65536
           b == x % 65536
<1>6. a \in Nat /\ a < 65536 /\ b \in Nat /\ b < 65536 /\ x = 65536 * a + b
  <2>1. a < 65536
    BY DEF Narrow, x
  <2> QED BY <1>4, <2>1, Halved
<1>7. Fold(x) = b + a
  BY DEF Fold
<1>8. SecondCarry(e \o s) <=> b + a >= 65536
  BY DEF SecondCarry, x
<1> HIDE DEF a, b
<1>9. n = 65535 - ((a + b) % 65536)
  <2>1. b + a = a + b
    BY <1>6
  <2> QED BY <1>7, <2>1
<1>10. n \in Nat /\ n < 65536
  <2> DEFINE y == a + b
  <2>1. y \in Nat
    BY <1>6
  <2> HIDE DEF y
  <2>2. y % 65536 \in Nat /\ y % 65536 < 65536
    BY <2>1, Halved
  <2> DEFINE z == y % 65536
  <2> HIDE DEF z
  <2>3. z \in Nat /\ z < 65536 /\ n = 65535 - z
    BY <1>9, <2>2 DEF y, z
  <2> HIDE DEF n
  <2> QED BY <2>3, SMT
<1> HIDE DEF n
<1>11. PICK y, z \in Byte : htons(n) = <<y, z>> /\ 256 * y + z = n
  BY <1>10, ShortValue
<1>12. Bytes(d, i) /\ Bytes(f, Len(s) - (i + 2))
  <2>1. 0 \in Nat /\ 0 + i <= Len(s) /\ i + 2 \in Nat /\ (i + 2) + 0 <= Len(s)
    BY <1>0
  <2> QED BY <2>1, Slices
<1>13. d \in Seq(Byte) /\ Len(d) = 2 * j /\ f \in Seq(Byte)
  BY <1>12 DEF Bytes
<1> DEFINE w == WordSum(e)
           wd == WordSum(d)
           wf == WordSum(f)
<1>14. ASSUME NEW g \in Byte, NEW l \in Byte
       PROVE  T(<<g, l>>) = w + ((wd + (256 * g + l)) + wf)
  <2> DEFINE o == <<g, l>>
  <2>1. o \in Seq(Byte) /\ Len(o) = 2
    OBVIOUS
  <2>2. Patched(s, i, o) = (d \o o) \o f
    BY <2>1 DEF Patched
  <2>3. WordSum(o) = 256 * g + l
    BY WordSumPair
  <2> HIDE DEF o, d, f
  <2>4. d \o o \in Seq(Byte) /\ Len(d \o o) = 2 * (j + 1) /\ j + 1 \in Nat
    <3>1. d \o o \in Seq(Byte) /\ Len(d \o o) = Len(d) + Len(o)
      BY <1>13, <2>1, Concat
    <3> QED BY <1>13, <2>1, <3>1
  <2>5. WordSum(d \o o) = wd + (256 * g + l)
    BY <1>13, <2>1, <2>3, WordSumConcat
  <2> DEFINE do == d \o o
  <2> HIDE DEF do
  <2>6. do \in Seq(Byte) /\ Len(do) = 2 * (j + 1) /\ WordSum(do) = wd + (256 * g + l)
    BY <2>4, <2>5 DEF do
  <2>7. do \o f \in Seq(Byte) /\ WordSum(do \o f) = (wd + (256 * g + l)) + wf
    <3>1. WordSum(do \o f) = WordSum(do) + WordSum(f)
      BY <1>13, <2>4, <2>6, WordSumConcat, ZenonT(60)
    <3>2. do \o f \in Seq(Byte)
      BY <1>13, <2>6, Concat
    <3> QED BY <2>6, <3>1, <3>2
  <2> DEFINE dof == do \o f
  <2> HIDE DEF dof
  <2>8. WordSum(e \o dof) = w + ((wd + (256 * g + l)) + wf)
    <3>1. dof \in Seq(Byte) /\ WordSum(dof) = (wd + (256 * g + l)) + wf
      BY <2>7 DEF dof
    <3>2. WordSum(e \o dof) = WordSum(e) + WordSum(dof)
      BY <1>1, <1>2, <3>1, WordSumConcat
    <3> QED BY <3>1, <3>2
  <2> QED BY <2>2, <2>8 DEF o, do, dof
<1>15. w \in Nat /\ wd \in Nat /\ wf \in Nat
  BY <1>13, WordSumNat
<1>16. x = T(<<0, 0>>)
  BY DEF x
<1> HIDE DEF w, wd, wf, T, d, f
<1>17. T(c) = x + n
  <2>1. 0 \in Byte /\ y \in Nat /\ z \in Nat
    BY ByteNumbers
  <2>2. T(c) = w + ((wd + (256 * y + z)) + wf)
    BY <1>5, <1>11, <1>14
  <2>3. x = w + ((wd + (256 * 0 + 0)) + wf)
    BY <1>14, <1>16, <2>1
  <2>4. T(c) = w + ((wd + n) + wf)
    BY <1>11, <2>2
  <2> QED BY <1>10, <1>15, <2>3, <2>4
<1> DEFINE t == T(c)
<1> HIDE DEF t
<1>18. t = 65536 * a + b + n
  BY <1>6, <1>17 DEF t
<1>19. (IF t = 0 THEN 0 ELSE 1 + ((t - 1) % 65535)) = 65535 <=> ~(b + a >= 65536)
  BY <1>6, <1>9, <1>18, OnesComplement, SMTT(40)
<1>20. OnesSum(e \o Patched(s, i, c)) = IF t = 0 THEN 0 ELSE 1 + ((t - 1) % 65535)
  BY DEF OnesSum, T, t
<1> QED BY <1>8, <1>19, <1>20 DEF Ones, c

(***************************************************************************)
(* Bytes that are put in place.                                            *)
(***************************************************************************)
LEMMA SameBytes ==
  ASSUME NEW a \in Seq(Byte), NEW b \in Seq(Byte), Len(a) = Len(b),
         \A j \in 0 .. Len(a) - 1 : At(a, j) = At(b, j)
  PROVE  a = b
<1>1. ASSUME NEW i \in 1 .. Len(a) PROVE a[i] = b[i]
  <2>1. i - 1 \in 0 .. Len(a) - 1 /\ (i - 1) + 1 = i
    OBVIOUS
  <2>2. At(a, i - 1) = At(b, i - 1)
    BY <2>1
  <2> QED BY <2>1, <2>2 DEF At
<1> QED BY <1>1

LEMMA FromIs ==
  ASSUME NEW q \in Seq(Byte), NEW i \in Nat, i <= Len(q)
  PROVE  /\ From(q, i) \in Seq(Byte) /\ Len(From(q, i)) = Len(q) - i
         /\ \A j \in 0 .. Len(q) - i - 1 : At(From(q, i), j) = At(q, i + j)
<1>1. Len(q) \in Nat
  OBVIOUS
<1>2. From(q, i) \in Seq(Byte) /\ Len(From(q, i)) = Len(q) - i
  <2>1. 0 \in Nat /\ i + 0 <= Len(q)
    BY <1>1
  <2> QED BY <2>1, Slices DEF Bytes
<1>3. ASSUME NEW j \in 0 .. Len(q) - i - 1 PROVE At(From(q, i), j) = At(q, i + j)
  <2>1. j + 1 \in 1 .. Len(q) - i /\ (j + 1) + i = i + j + 1
    BY <1>1
  <2>2. SubSeq(q, i + 1, Len(q))[j + 1] = q[(j + 1) + i]
    BY <1>1, <2>1
  <2> QED BY <2>1, <2>2 DEF From, At
<1> QED BY <1>2, <1>3

LEMMA PartIs ==
  ASSUME NEW q \in Seq(Byte), NEW i \in Nat, NEW n \in Nat, i + n <= Len(q)
  PROVE  /\ Part(q, i, n) \in Seq(Byte) /\ Len(Part(q, i, n)) = n
         /\ \A j \in 0 .. n - 1 : At(Part(q, i, n), j) = At(q, i + j)
BY Slices DEF Bytes

LEMMA PatchedAt ==
  ASSUME NEW q \in Seq(Byte), NEW i \in Nat, NEW n \in Nat, NEW s, Bytes(s, n), i + n <= Len(q)
  PROVE  \A j \in 0 .. n - 1 : At(Patched(q, i, s), i + j) = At(s, j)
<1> DEFINE a == Part(q, 0, i)
           c == From(q, i + n)
<1>1. Len(q) \in Nat /\ s \in Seq(Byte) /\ Len(s) = n
  BY DEF Bytes
<1>2. a \in Seq(Byte) /\ Len(a) = i
  <2>1. 0 \in Nat /\ 0 + i <= Len(q)
    BY <1>1
  <2> QED BY <2>1, PartIs
<1>3. c \in Seq(Byte)
  <2>1. i + n \in Nat
    OBVIOUS
  <2> QED BY <2>1, FromIs
<1>4. Patched(q, i, s) = a \o s \o c
  BY <1>1 DEF Patched
<1> HIDE DEF a, c
<1> DEFINE d == a \o s
<1>5. d \in Seq(Byte) /\ Len(d) = i + n
  <2>1. d \in Seq(Byte) /\ Len(d) = Len(a) + Len(s)
    BY <1>1, <1>2, Concat
  <2> QED BY <1>1, <1>2, <2>1
<1>6. ASSUME NEW j \in 0 .. n - 1 PROVE d[i + j + 1] = s[j + 1]
  <2>1. i + j + 1 \in Len(a) + 1 .. Len(a) + Len(s) /\ (i + j + 1) - Len(a) = j + 1
    BY <1>1, <1>2
  <2> QED BY <1>1, <1>2, <2>1, ConcatAt
<1> HIDE DEF d
<1>7. ASSUME NEW j \in 0 .. n - 1 PROVE (d \o c)[i + j + 1] = s[j + 1]
  <2>1. i + j + 1 \in 1 .. Len(d)
    BY <1>5
  <2>2. (d \o c)[i + j + 1] = d[i + j + 1]
    BY <1>3, <1>5, <2>1, ConcatAt
  <2> QED BY <1>6, <2>2
<1>8. \A j \in 0 .. n - 1 : At(d \o c, i + j) = At(s, j)
  <2> DEFINE x == d \o c
  <2> HIDE DEF x
  <2>1. \A j \in 0 .. n - 1 : x[i + j + 1] = s[j + 1]
    BY <1>7 DEF x
  <2>2. \A j \in 0 .. n - 1 : At(x, i + j) = At(s, j)
    BY <2>1 DEF At
  <2> QED BY <2>2 DEF x
<1> QED BY <1>4, <1>8 DEF d

\* x is q with the n bytes of s at i.
Puts(q, i, n, s, x) ==
  /\ x \in Seq(Byte) /\ Len(x) = Len(q)
  /\ \A j \in 0 .. i - 1 : At(x, j) = At(q, j)
  /\ \A j \in 0 .. n - 1 : At(x, i + j) = At(s, j)
  /\ \A j \in i + n .. Len(q) - 1 : At(x, j) = At(q, j)

LEMMA PatchedPuts ==
  ASSUME NEW q \in Seq(Byte), NEW i \in Nat, NEW n \in Nat, NEW s, Bytes(s, n), i + n <= Len(q)
  PROVE  /\ Puts(q, i, n, s, Patched(q, i, s))
         /\ \A x : Puts(q, i, n, s, x) => x = Patched(q, i, s)
<1> DEFINE y == Patched(q, i, s)
<1>1. Puts(q, i, n, s, y)
  BY PatchedIs, PatchedAt DEF Puts
<1> HIDE DEF y
<1>2. ASSUME NEW x, Puts(q, i, n, s, x) PROVE x = y
  <2>1. x \in Seq(Byte) /\ y \in Seq(Byte) /\ Len(x) = Len(y) /\ Len(q) \in Nat /\ Len(x) = Len(q)
    BY <1>1, <1>2 DEF Puts
  <2>2. ASSUME NEW j \in 0 .. Len(x) - 1 PROVE At(x, j) = At(y, j)
    <3>1. CASE j < i
      <4>1. j \in 0 .. i - 1
        BY <2>1, <3>1
      <4> QED BY <1>1, <1>2, <4>1 DEF Puts
    <3>2. CASE j >= i /\ j < i + n
      <4> DEFINE l == j - i
      <4>1. l \in 0 .. n - 1 /\ i + l = j
        BY <2>1, <3>2
      <4> HIDE DEF l
      <4>2. At(x, i + l) = At(s, l) /\ At(y, i + l) = At(s, l)
        BY <1>1, <1>2, <4>1 DEF Puts
      <4> QED BY <4>1, <4>2
    <3>3. CASE j >= i + n
      <4>1. j \in i + n .. Len(q) - 1
        BY <2>1, <3>3
      <4> QED BY <1>1, <1>2, <4>1 DEF Puts
    <3>4. j < i \/ (j >= i /\ j < i + n) \/ j >= i + n
      BY <2>1
    <3> QED BY <3>1, <3>2, <3>3, <3>4
  <2> QED BY <2>1, <2>2, SameBytes
<1> QED BY <1>1, <1>2 DEF y

LEMMA PatchedSame ==
  ASSUME NEW q \in Seq(Byte), NEW i \in Nat, NEW n \in Nat, NEW s, Bytes(s, n), i + n <= Len(q),
         \A j \in 0 .. n - 1 : At(q, i + j) = At(s, j)
  PROVE  Patched(q, i, s) = q
<1>1. Puts(q, i, n, s, q)
  BY DEF Puts
<1> QED BY <1>1, PatchedPuts

LEMMA PatchedTwice ==
  ASSUME NEW q \in Seq(Byte), NEW i \in Nat, NEW n \in Nat, NEW s, NEW t, Bytes(s, n), Bytes(t, n),
         i + n <= Len(q)
  PROVE  Patched(Patched(q, i, s), i, t) = Patched(q, i, t)
<1> DEFINE x == Patched(q, i, s)
           y == Patched(x, i, t)
<1>1. Puts(q, i, n, s, x)
  BY PatchedPuts
<1> HIDE DEF x
<1>2. x \in Seq(Byte) /\ Len(x) = Len(q)
  BY <1>1 DEF Puts
<1>3. Puts(x, i, n, t, y)
  BY <1>2, PatchedPuts
<1> HIDE DEF y
<1>4. Puts(q, i, n, t, y)
  BY <1>1, <1>3 DEF Puts
<1> QED BY <1>4, PatchedPuts DEF x, y

LEMMA FromPatched ==
  ASSUME NEW q \in Seq(Byte), NEW i \in Nat, NEW n \in Nat, NEW s, Bytes(s, n), i + n <= Len(q),
         NEW k \in Nat, k <= i
  PROVE  From(Patched(q, i, s), k) = Patched(From(q, k), i - k, s)
<1> DEFINE x == Patched(q, i, s)
           y == From(x, k)
           z == From(q, k)
<1>0. Len(q) \in Nat /\ i - k \in Nat /\ k <= Len(q)
  OBVIOUS
<1>1. Puts(q, i, n, s, x)
  BY PatchedPuts
<1> HIDE DEF x
<1>2. x \in Seq(Byte) /\ Len(x) = Len(q)
  BY <1>1 DEF Puts
<1>3. y \in Seq(Byte) /\ Len(y) = Len(q) - k /\ \A j \in 0 .. Len(q) - k - 1 : At(y, j) = At(x, k + j)
  BY <1>0, <1>2, FromIs
<1>4. z \in Seq(Byte) /\ Len(z) = Len(q) - k /\ \A j \in 0 .. Len(q) - k - 1 : At(z, j) = At(q, k + j)
  BY <1>0, FromIs
<1> HIDE DEF y, z
<1>5. ASSUME NEW j \in 0 .. (i - k) - 1 PROVE At(y, j) = At(z, j)
  <2>1. k + j \in 0 .. i - 1 /\ j \in 0 .. Len(q) - k - 1
    BY <1>0
  <2> QED BY <1>1, <1>3, <1>4, <2>1 DEF Puts
<1>6. ASSUME NEW j \in 0 .. n - 1 PROVE At(y, (i - k) + j) = At(s, j)
  <2>1. (i - k) + j \in 0 .. Len(q) - k - 1 /\ k + ((i - k) + j) = i + j
    BY <1>0
  <2>2. At(y, (i - k) + j) = At(x, i + j)
    BY <1>3, <2>1
  <2> QED BY <1>1, <2>2 DEF Puts
<1>7. ASSUME NEW j \in (i - k) + n .. Len(z) - 1 PROVE At(y, j) = At(z, j)
  <2>1. j \in 0 .. Len(q) - k - 1 /\ k + j \in i + n .. Len(q) - 1
    BY <1>0, <1>4
  <2> QED BY <1>1, <1>3, <1>4, <2>1 DEF Puts
<1>8. Puts(z, i - k, n, s, y)
  BY <1>3, <1>4, <1>5, <1>6, <1>7 DEF Puts
<1>9. i - k + n <= Len(z)
  BY <1>0, <1>4
<1> QED BY <1>0, <1>4, <1>8, <1>9, PatchedPuts DEF y, z, x

LEMMA PartPatched ==
  ASSUME NEW q \in Seq(Byte), NEW i \in Nat, NEW n \in Nat, NEW s, Bytes(s, n), i + n <= Len(q),
         NEW k \in Nat, NEW m \in Nat, k + m <= Len(q)
  PROVE  /\ k + m <= i => Part(Patched(q, i, s), k, m) = Part(q, k, m)
         /\ k >= i + n => Part(Patched(q, i, s), k, m) = Part(q, k, m)
         /\ k = 0 /\ i + n <= m => Part(Patched(q, i, s), k, m) = Patched(Part(q, k, m), i, s)
<1> DEFINE x == Patched(q, i, s)
           y == Part(x, k, m)
           z == Part(q, k, m)
<1>0. Len(q) \in Nat
  OBVIOUS
<1>1. Puts(q, i, n, s, x)
  BY PatchedPuts
<1> HIDE DEF x
<1>2. x \in Seq(Byte) /\ Len(x) = Len(q)
  BY <1>1 DEF Puts
<1>3. y \in Seq(Byte) /\ Len(y) = m /\ \A j \in 0 .. m - 1 : At(y, j) = At(x, k + j)
  BY <1>0, <1>2, PartIs
<1>4. z \in Seq(Byte) /\ Len(z) = m /\ \A j \in 0 .. m - 1 : At(z, j) = At(q, k + j)
  BY <1>0, PartIs
<1> HIDE DEF y, z
<1>5. ASSUME NEW j \in 0 .. m - 1, k + j < i \/ k + j >= i + n PROVE At(y, j) = At(z, j)
  <2>1. k + j \in 0 .. i - 1 \/ k + j \in i + n .. Len(q) - 1
    BY <1>0, <1>5
  <2>2. At(x, k + j) = At(q, k + j)
    BY <1>1, <2>1 DEF Puts
  <2> QED BY <1>3, <1>4, <2>2
<1>6. ASSUME k + m <= i \/ k >= i + n PROVE y = z
  <2>1. \A j \in 0 .. m - 1 : k + j < i \/ k + j >= i + n
    BY <1>6
  <2> QED BY <1>3, <1>4, <1>5, <2>1, SameBytes
<1>7. ASSUME k = 0, i + n <= m PROVE y = Patched(z, i, s)
  <2>1. \A j \in 0 .. i - 1 : j \in 0 .. m - 1 /\ k + j < i
    BY <1>7
  <2>2. \A j \in i + n .. m - 1 : j \in 0 .. m - 1 /\ k + j >= i + n
    BY <1>7
  <2>3. ASSUME NEW j \in 0 .. n - 1 PROVE At(y, i + j) = At(s, j)
    <3>1. i + j \in 0 .. m - 1 /\ k + (i + j) = i + j
      BY <1>7
    <3>2. At(y, i + j) = At(x, i + j)
      BY <1>3, <3>1
    <3> QED BY <1>1, <3>2 DEF Puts
  <2>4. Puts(z, i, n, s, y)
    BY <1>3, <1>4, <1>5, <2>1, <2>2, <2>3 DEF Puts
  <2>5. i + n <= Len(z)
    BY <1>4, <1>7
  <2> QED BY <1>4, <2>4, <2>5, PatchedPuts
<1> QED BY <1>6, <1>7 DEF x, y, z

(***************************************************************************)
(* The packets that Seal makes.                                            *)
(***************************************************************************)
\* The headers as they are read, without checksums.
Blank(q) ==
  /\ IpBlank(q)
  /\ protocol(q) = kProtocolTcp => Zeros(q, 36)
  /\ protocol(q) = kProtocolUdp => Zeros(q, 26)
  /\ protocol(q) = kProtocolIcmp => Zeros(q, 22)

LEMMA ZeroBytes == Bytes(<<0, 0>>, 2) /\ At(<<0, 0>>, 0) = 0 /\ At(<<0, 0>>, 1) = 0
<1>1. 0 \in Byte
  BY ByteNumbers
<1> QED BY <1>1 DEF Bytes, At

LEMMA PatchedZeros ==
  ASSUME NEW q \in Seq(Byte), NEW i \in Nat, i + 2 <= Len(q), Zeros(q, i)
  PROVE  /\ Patched(q, i, <<0, 0>>) = q
         /\ \A c : Bytes(c, 2) => Patched(Patched(q, i, c), i, <<0, 0>>) = q
<1> DEFINE z == <<0, 0>>
<1>1. Bytes(z, 2) /\ At(z, 0) = 0 /\ At(z, 1) = 0 /\ 2 \in Nat
  BY ZeroBytes
<1> HIDE DEF z
<1>2. \A j \in 0 .. 2 - 1 : At(q, i + j) = At(z, j)
  <2>1. ASSUME NEW j \in 0 .. 2 - 1 PROVE At(q, i + j) = At(z, j)
    <3>1. j = 0 \/ j = 1
      OBVIOUS
    <3>2. i + 0 = i
      OBVIOUS
    <3> QED BY <1>1, <3>1, <3>2 DEF Zeros
  <2> QED BY <2>1
<1>3. Patched(q, i, z) = q
  BY <1>1, <1>2, PatchedSame
<1>4. ASSUME NEW c, Bytes(c, 2) PROVE Patched(Patched(q, i, c), i, z) = q
  <2>1. Patched(Patched(q, i, c), i, z) = Patched(q, i, z)
    BY <1>1, <1>4, PatchedTwice
  <2> QED BY <1>3, <2>1
<1> QED BY <1>3, <1>4 DEF z

LEMMA TwentyShort == 20 \in U16
BY SMT DEF U16

LEMMA IpSealed ==
  ASSUME NEW y \in Seq(Byte), Len(y) >= 20, Zeros(y, 10)
  PROVE  LET c == ComputeIpChecksum(<<>>, Part(y, 0, 20))
             ip == Part(Patched(y, 10, c), 0, 20)
         IN  Ones(ip) <=> ~SecondCarry(Patched(ip, 10, <<0, 0>>))
<1> DEFINE e == <<>>
           s == Part(y, 0, 20)
           c == ComputeIpChecksum(e, s)
           ip == Part(Patched(y, 10, c), 0, 20)
<1>0. 0 \in Nat /\ 10 \in Nat /\ 20 \in Nat /\ 2 \in Nat /\ 5 \in Nat /\ 10 = 2 * 5 /\ 0 + 20 <= Len(y) /\ 10 + 2 <= Len(y)
      /\ 10 + 2 <= 20
  OBVIOUS
<1>1. s \in Seq(Byte) /\ Len(s) = 20 /\ \A j \in 0 .. 20 - 1 : At(s, j) = At(y, 0 + j)
  BY <1>0, PartIs
<1>2. e \in Seq(Byte) /\ Len(e) = 0
  OBVIOUS
<1> HIDE DEF s
<1>3. e \o s = s
  BY <1>1
<1> HIDE DEF e
<1>4. Zeros(s, 10)
  <2>1. 10 \in 0 .. 20 - 1 /\ 11 \in 0 .. 20 - 1 /\ 0 + 10 = 10 /\ 0 + 11 = 11 /\ 10 + 1 = 11
    OBVIOUS
  <2> QED BY <1>1, <2>1 DEF Zeros
<1>5. Bytes(c, 2)
  BY <1>1, <1>2, ChecksumBytes
<1>6. 10 + 2 <= Len(s)
  BY <1>1
<1>7. Patched(s, 10, <<0, 0>>) = s /\ Patched(Patched(s, 10, c), 10, <<0, 0>>) = s
  BY <1>0, <1>1, <1>4, <1>5, <1>6, PatchedZeros
<1>8. ip = Patched(s, 10, c)
  BY <1>0, <1>5, PartPatched DEF s
<1>9. Narrow(e \o s)
  <2>1. Len(s) \in U16 /\ Len(e) \in {0, 12}
    BY <1>1, <1>2, TwentyShort
  <2> QED BY <1>1, <1>2, <2>1, NarrowBoth
<1>10. Patched(s, 10, c) \in Seq(Byte)
  BY <1>0, <1>1, <1>5, <1>6, PatchedIs
<1>11. e \o Patched(s, 10, c) = Patched(s, 10, c)
  <2> DEFINE x == Patched(s, 10, c)
  <2> HIDE DEF x
  <2>1. x \in Seq(Byte) => <<>> \o x = x
    OBVIOUS
  <2> QED BY <1>10, <2>1 DEF x, e
<1>12. Ones(e \o Patched(s, 10, c)) <=> ~SecondCarry(e \o s)
  <2>1. Len(e) \in {0, 12}
    BY <1>2
  <2> QED BY <1>0, <1>1, <1>2, <1>6, <1>7, <1>9, <2>1, Checksummed
<1> HIDE DEF c, ip
<1>13. Ones(ip) <=> ~SecondCarry(Patched(ip, 10, <<0, 0>>))
  BY <1>3, <1>7, <1>8, <1>11, <1>12
<1> QED BY <1>13 DEF ip, c, s, e

\* What stands before the data that the second checksum covers.
Pseudo(q) ==
  IF protocol(q) = kProtocolIcmp THEN <<>>
  ELSE Part(q, 12, 8) \o <<0, At(q, 9), (Len(q) - 20) \div 256, (Len(q) - 20) % 256>>

LEMMA LengthBytes ==
  ASSUME NEW n \in U16, n >= 20
  PROVE  /\ (n - 20) \div 256 \in Byte /\ (n - 20) % 256 \in Byte
         /\ htons(n - 20) = <<(n - 20) \div 256, (n - 20) % 256>>
<1> DEFINE m == n - 20
           a == m \div 256
           b == m % 256
<1>1. m \in Nat /\ m < 65536
  BY SMT DEF U16
<1> HIDE DEF m
<1>2. a \in Nat /\ b \in Nat /\ b < 256 /\ m = 256 * a + b
  BY <1>1, SMT
<1>3. htons(m) = <<a % 256, b>>
  BY DEF htons
<1> HIDE DEF a, b
<1>4. a < 256
  BY <1>1, <1>2, SMT
<1>5. a % 256 = a
  BY <1>2, <1>4, SMT
<1>6. a \in Byte /\ b \in Byte
  BY <1>2, <1>4, ByteNumbers
<1> QED BY <1>3, <1>5, <1>6, SMTT(40) DEF m, a, b

LEMMA Joining ==
  ASSUME NEW S, NEW a \in Seq(S), NEW b \in Seq(S), NEW c \in Seq(S)
  PROVE  (a \o b) \o c = a \o (b \o c)
OBVIOUS

LEMMA FourBytes ==
  ASSUME NEW x \in Byte, NEW l \in Byte, NEW a \in Byte, NEW b \in Byte
  PROVE  /\ <<x, l>> \in Seq(Byte) /\ <<a, b>> \in Seq(Byte) /\ <<x, l, a, b>> \in Seq(Byte)
         /\ Len(<<x, l, a, b>>) = 4 /\ <<x, l>> \o <<a, b>> = <<x, l, a, b>>
<1>1. <<x, l>> \in Seq(Byte) /\ <<a, b>> \in Seq(Byte)
  OBVIOUS
<1>2. <<x, l, a, b>> \in Seq(Byte) /\ Len(<<x, l, a, b>>) = 4
  OBVIOUS
<1>3. <<x, l>> \o <<a, b>> = <<x, l, a, b>>
  <2> DEFINE f == <<x, l>>
             g == <<a, b>>
             w == <<x, l, a, b>>
  <2>1. Len(f) = 2 /\ Len(g) = 2 /\ f[1] = x /\ f[2] = l /\ g[1] = a /\ g[2] = b
    OBVIOUS
  <2>2. w[1] = x /\ w[2] = l /\ w[3] = a /\ w[4] = b
    OBVIOUS
  <2>3. f \in Seq(Byte) /\ g \in Seq(Byte) /\ w \in Seq(Byte) /\ Len(w) = 4
    BY <1>1, <1>2
  <2> HIDE DEF f, g, w
  <2> DEFINE o == f \o g
  <2>4. o \in Seq(Byte) /\ Len(o) = Len(f) + Len(g)
    BY <2>3, Concat
  <2>5. /\ \A i \in 1 .. Len(f) : o[i] = f[i]
        /\ \A i \in Len(f) + 1 .. Len(f) + Len(g) : o[i] = g[i - Len(f)]
    BY <2>3, ConcatAt
  <2> HIDE DEF o
  <2>6. o = w
    <3>1. Len(o) = 4 /\ o[1] = x /\ o[2] = l /\ o[3] = a /\ o[4] = b
      BY <2>1, <2>4, <2>5
    <3>2. \A i \in 1 .. 4 : o[i] = w[i]
      BY <2>2, <3>1
    <3>3. \A i \in 0 .. 4 - 1 : At(o, i) = At(w, i)
      BY <3>2 DEF At
    <3> QED BY <2>3, <2>4, <3>1, <3>3, SameBytes
  <2> QED BY <2>6 DEF o, f, g, w
<1> QED BY <1>1, <1>2, <1>3

LEMMA PseudoIs ==
  ASSUME NEW q \in Seq(Byte), Len(q) \in U16, Len(q) >= 20
  PROVE  /\ Pseudo(q) \in Seq(Byte) /\ Len(Pseudo(q)) \in {0, 12}
         /\ protocol(q) # kProtocolIcmp /\ At(q, 0) = 69 => Pseudo(q) = pseudo_header(q)
<1> DEFINE n == Len(q)
           a == (n - 20) \div 256
           b == (n - 20) % 256
           d == Part(q, 12, 8)
           l == At(q, 9)
<1>1. n \in Nat /\ At(q, 9) \in Byte
  BY DEF At
<1>2. a \in Byte /\ b \in Byte /\ htons(n - 20) = <<a, b>>
  BY LengthBytes
<1>3. d \in Seq(Byte) /\ Len(d) = 8
  <2>1. 12 \in Nat /\ 8 \in Nat /\ 12 + 8 <= Len(q)
    BY <1>1
  <2> QED BY <2>1, PartIs
<1>4. 0 \in Byte
  BY ByteNumbers
<1>5. Pseudo(q) = IF protocol(q) = kProtocolIcmp THEN <<>> ELSE d \o <<0, l, a, b>>
  BY DEF Pseudo
<1>6. ihl(q) = 5 => pseudo_header(q) = d \o <<0, l>> \o <<a, b>>
  <2>1. ihl(q) = 5 => n - 4 * ihl(q) = n - 20
    BY <1>1
  <2> QED BY <1>2, <2>1 DEF pseudo_header, protocol
<1>7. At(q, 0) = 69 => ihl(q) = 5
  <2>1. 69 % 16 = 5
    OBVIOUS
  <2> QED BY <2>1 DEF ihl
<1> HIDE DEF d, a, b, l, n
<1>8. l \in Byte
  BY <1>1 DEF l
<1>9. /\ d \o <<0, l, a, b>> \in Seq(Byte) /\ Len(d \o <<0, l, a, b>>) = 12
      /\ d \o <<0, l>> \o <<a, b>> = d \o <<0, l, a, b>>
  <2>1. /\ <<0, l>> \in Seq(Byte) /\ <<a, b>> \in Seq(Byte) /\ <<0, l, a, b>> \in Seq(Byte)
        /\ Len(<<0, l, a, b>>) = 4 /\ <<0, l>> \o <<a, b>> = <<0, l, a, b>>
    BY <1>2, <1>4, <1>8, FourBytes
  <2> DEFINE f == <<0, l>>
             g == <<a, b>>
             w == <<0, l, a, b>>
  <2> HIDE DEF f, g, w
  <2>2. f \in Seq(Byte) /\ g \in Seq(Byte) /\ w \in Seq(Byte) /\ Len(w) = 4 /\ f \o g = w
    BY <2>1 DEF f, g, w
  <2>3. (d \o f) \o g = d \o (f \o g)
    <3>1. d \in Seq(Byte) /\ f \in Seq(Byte) /\ g \in Seq(Byte)
      BY <1>3, <2>2
    <3> QED BY <3>1, Joining, SMTT(40)
  <2>4. d \o w \in Seq(Byte) /\ Len(d \o w) = Len(d) + Len(w)
    BY <1>3, <2>2, Concat, ZenonT(60)
  <2>5. Len(d \o w) = 12
    BY <1>3, <2>2, <2>4
  <2> QED BY <2>2, <2>3, <2>4, <2>5 DEF f, g, w
<1>10. CASE protocol(q) = kProtocolIcmp
  BY <1>5, <1>10
<1>11. CASE protocol(q) # kProtocolIcmp
  BY <1>5, <1>6, <1>7, <1>9, <1>11
<1> QED BY <1>10, <1>11

\* The second checksum of x, at k.
Second(x, k) == Ones(Covered(x)) <=> ~SecondCarry(Covered(Patched(x, k, <<0, 0>>)))

LEMMA CoveredIs == ASSUME NEW q PROVE Covered(q) = Pseudo(q) \o From(q, 20)
BY DEF Covered, Pseudo

LEMMA PseudoSame ==
  ASSUME NEW q \in Seq(Byte), Len(q) >= 20, NEW k \in Nat, k >= 20, k + 2 <= Len(q), NEW c, Bytes(c, 2)
  PROVE  Pseudo(Patched(q, k, c)) = Pseudo(q)
<1> DEFINE x == Patched(q, k, c)
<1>0. 12 \in Nat /\ 8 \in Nat /\ 2 \in Nat /\ 12 + 8 <= k /\ 12 + 8 <= Len(q) /\ 9 \in 0 .. k - 1
  OBVIOUS
<1>1. Part(x, 12, 8) = Part(q, 12, 8)
  BY <1>0, PartPatched
<1>2. Len(x) = Len(q) /\ At(x, 9) = At(q, 9)
  BY <1>0, PatchedIs
<1> HIDE DEF x
<1>3. Pseudo(x) = Pseudo(q)
  BY <1>1, <1>2, SMTT(40) DEF Pseudo, protocol
<1> QED BY <1>3 DEF x

LEMMA FieldPlaces ==
  ASSUME NEW k \in {22, 24, 26, 36}
  PROVE  k \in Nat /\ k >= 20 /\ \E j \in Nat : k - 20 = 2 * j
<1>1. 22 - 20 = 2 * 1 /\ 24 - 20 = 2 * 2 /\ 26 - 20 = 2 * 3 /\ 36 - 20 = 2 * 8
  OBVIOUS
<1> QED BY <1>1

LEMMA ShortRange == \A n \in Nat : n \in U16 <=> n <= 65535
<1> DEFINE m == 65535
<1>1. m \in Nat
  BY SMT
<1>2. U16 = 0 .. m
  BY SMT DEF U16
<1> HIDE DEF m
<1>3. \A n \in Nat : n \in U16 <=> n <= m
  BY <1>1, <1>2, SMT
<1> QED BY <1>3, SMT DEF m

LEMMA ShortLess ==
  ASSUME NEW n \in U16, n >= 20
  PROVE  n \in Nat /\ n - 20 \in U16
<1>1. n \in Nat
  BY ShortNat
<1>2. n <= 65535 /\ n - 20 \in Nat
  BY <1>1, ShortRange
<1>3. n - 20 <= 65535
  BY <1>1, <1>2, SMT
<1> QED BY <1>1, <1>2, <1>3, ShortRange

LEMMA SecondSealed ==
  ASSUME NEW y \in Seq(Byte), Len(y) \in U16, NEW k \in {22, 24, 26, 36}, k + 2 <= Len(y), Zeros(y, k)
  PROVE  LET c == ComputeIpChecksum(Pseudo(y), From(y, 20))
         IN  Bytes(c, 2) /\ Second(Patched(y, k, c), k)
<1> DEFINE e == Pseudo(y)
           s == From(y, 20)
           c == ComputeIpChecksum(e, s)
           x == Patched(y, k, c)
           m == k - 20
<1>0. Len(y) \in Nat /\ k \in Nat /\ k >= 20 /\ m \in Nat /\ m + 2 <= Len(y) - 20 /\ 2 \in Nat /\ 20 \in Nat
      /\ 20 <= Len(y) /\ 20 <= k /\ 20 + m = k /\ 20 + (m + 1) = k + 1
  BY FieldPlaces
<1>1. PICK j \in Nat : m = 2 * j
  BY FieldPlaces
<1>2. e \in Seq(Byte) /\ Len(e) \in {0, 12}
  BY <1>0, PseudoIs
<1>3. s \in Seq(Byte) /\ Len(s) = Len(y) - 20 /\ \A i \in 0 .. Len(y) - 20 - 1 : At(s, i) = At(y, 20 + i)
  BY <1>0, FromIs
<1>4. Len(s) \in U16
  BY <1>0, <1>3, ShortLess
<1>5. Bytes(c, 2)
  BY <1>2, <1>3, ChecksumBytes
<1>6. Covered(x) = e \o Patched(s, m, c)
  <2>1. Pseudo(x) = e
    BY <1>0, <1>5, PseudoSame
  <2>2. From(x, 20) = Patched(s, m, c)
    BY <1>0, <1>5, FromPatched
  <2> QED BY <2>1, <2>2, CoveredIs
<1>7. Covered(Patched(x, k, <<0, 0>>)) = e \o s
  <2>1. Patched(x, k, <<0, 0>>) = y
    BY <1>0, <1>5, PatchedZeros
  <2> QED BY <2>1, CoveredIs
<1> HIDE DEF e, s
<1>8. m + 2 <= Len(s)
  BY <1>0, <1>3
<1>9. Patched(s, m, <<0, 0>>) = s
  <2> HIDE DEF m
  <2>1. m \in 0 .. Len(y) - 20 - 1 /\ m + 1 \in 0 .. Len(y) - 20 - 1
    BY <1>0
  <2>2. At(s, m) = At(y, 20 + m) /\ At(s, m + 1) = At(y, 20 + (m + 1))
    BY <1>3, <2>1
  <2>3. Zeros(s, m)
    BY <1>0, <2>2 DEF Zeros
  <2> QED BY <1>0, <1>3, <1>8, <2>3, PatchedZeros
<1>10. Narrow(e \o s)
  BY <1>2, <1>3, <1>4, NarrowBoth
<1>11. Ones(e \o Patched(s, m, c)) <=> ~SecondCarry(e \o s)
  <2> HIDE DEF m
  <2> QED BY <1>0, <1>1, <1>2, <1>3, <1>8, <1>9, <1>10, Checksummed
<1> HIDE DEF c, x, m
<1>12. Second(x, k)
  BY <1>6, <1>7, <1>11 DEF Second
<1> QED BY <1>5, <1>12 DEF x, c, e, s

LEMMA OthersKept ==
  ASSUME NEW q \in Seq(Byte), NEW i \in Nat, NEW s, Bytes(s, 2), i + 2 <= Len(q), NEW j \in Nat,
         j < i \/ j >= i + 2, j < Len(q)
  PROVE  At(Patched(q, i, s), j) = At(q, j)
<1>1. 2 \in Nat /\ (j \in 0 .. i - 1 \/ j \in i + 2 .. Len(q) - 1)
  OBVIOUS
<1> QED BY <1>1, PatchedIs

LEMMA ZerosKept ==
  ASSUME NEW q \in Seq(Byte), NEW i \in Nat, NEW s, Bytes(s, 2), i + 2 <= Len(q), NEW j \in Nat,
         j + 2 <= i \/ j >= i + 2, j + 2 <= Len(q), Zeros(q, j)
  PROVE  Zeros(Patched(q, i, s), j)
<1>1. j + 1 \in Nat /\ (j < i \/ j >= i + 2) /\ (j + 1 < i \/ j + 1 >= i + 2) /\ j + 1 < Len(q) /\ j < Len(q)
  OBVIOUS
<1>2. At(Patched(q, i, s), j) = At(q, j)
  BY <1>1, OthersKept
<1>3. At(Patched(q, i, s), j + 1) = At(q, j + 1)
  BY <1>1, OthersKept
<1> QED BY <1>2, <1>3 DEF Zeros

\* The checksum and the total length of the IP header of x.
IpRight(x) ==
  LET ip == Part(x, 0, 20)
  IN  Ones(ip) <=> ~SecondCarry(Patched(ip, 10, <<0, 0>>))

LengthRight(x) == DerefU16BE(x, 2) = Len(x) <=> Len(x) < 256

LEMMA IpRightKept ==
  ASSUME NEW q \in Seq(Byte), NEW i \in Nat, i >= 20, NEW s, Bytes(s, 2), i + 2 <= Len(q),
         IpRight(q), LengthRight(q)
  PROVE  IpRight(Patched(q, i, s)) /\ LengthRight(Patched(q, i, s))
<1> DEFINE x == Patched(q, i, s)
<1>0. 0 \in Nat /\ 20 \in Nat /\ 2 \in Nat /\ 0 + 20 <= Len(q) /\ 0 + 20 <= i
      /\ 2 \in 0 .. i - 1 /\ 2 + 1 \in 0 .. i - 1
  OBVIOUS
<1>1. Part(x, 0, 20) = Part(q, 0, 20)
  BY <1>0, PartPatched
<1>2. Len(x) = Len(q) /\ At(x, 2) = At(q, 2) /\ At(x, 2 + 1) = At(q, 2 + 1)
  BY <1>0, PatchedIs
<1> HIDE DEF x
<1>3. IpRight(x)
  BY <1>1 DEF IpRight
<1>4. DerefU16BE(x, 2) = DerefU16BE(q, 2)
  BY <1>2 DEF DerefU16BE
<1>5. LengthRight(x)
  BY <1>2, <1>4 DEF LengthRight
<1> QED BY <1>3, <1>5 DEF x

LEMMA ShortNumber ==
  ASSUME NEW n \in Nat
  PROVE  /\ n % 256 \in Nat
         /\ htons(n % 256) = <<0, n % 256>>
         /\ 256 * 0 + (n % 256) = n <=> n < 256
<1> DEFINE a == n % 256
<1>1. a \in Nat /\ a < 256 /\ (a = n <=> n < 256)
  BY SMT
<1> HIDE DEF a
<1>2. (a \div 256) % 256 = 0 /\ a % 256 = a /\ 256 * 0 + a = a
  BY <1>1, SMT
<1>3. htons(a) = <<0, a>>
  BY <1>2 DEF htons
<1> QED BY <1>1, <1>2, <1>3 DEF a

LEMMA LengthSet ==
  ASSUME NEW q \in Seq(Byte), 4 <= Len(q)
  PROVE  LengthRight(Patched(q, 2, htons(Len(q) % 256)))
<1> DEFINE n == Len(q)
           a == n % 256
           x == Patched(q, 2, htons(a))
<1>1. n \in Nat
  OBVIOUS
<1> HIDE DEF n
<1>2. a \in Nat /\ htons(a) = <<0, a>> /\ (256 * 0 + a = n <=> n < 256)
  BY <1>1, ShortNumber
<1> HIDE DEF a
<1>3. Bytes(htons(a), 2)
  <2>1. a \in Int
    BY <1>2
  <2> QED BY <2>1, ShortBytes DEF Bytes
<1>4. 2 \in Nat /\ 2 + 2 <= Len(q) /\ 0 \in 0 .. 2 - 1 /\ 1 \in 0 .. 2 - 1 /\ 2 + 0 = 2 /\ 2 + 1 = 3
  OBVIOUS
<1>5. Len(x) = n
  BY <1>3, <1>4, PatchedIs DEF n
<1>6. \A j \in 0 .. 2 - 1 : At(x, 2 + j) = At(htons(a), j)
  BY <1>3, <1>4, PatchedAt
<1>7. At(htons(a), 0) = 0 /\ At(htons(a), 1) = a
  BY <1>2 DEF At
<1> HIDE DEF x
<1>8. At(x, 2 + 0) = 0 /\ At(x, 2 + 1) = a
  BY <1>4, <1>6, <1>7
<1>9. DerefU16BE(x, 2) = 256 * 0 + a
  BY <1>4, <1>8 DEF DerefU16BE
<1>10. LengthRight(x)
  BY <1>2, <1>5, <1>9 DEF LengthRight
<1> QED BY <1>10 DEF x, a, n

LEMMA SealedIs ==
  ASSUME NEW x \in Seq(Byte), IpRight(x), LengthRight(x),
         Len(x) \in U16 /\ protocol(x) \in {kProtocolTcp, kProtocolUdp, kProtocolIcmp}
           => Second(x, Checksum2At(x))
  PROVE  Sealed(x)
<1>1. Len(x) <= 65535 => Len(x) \in U16
  BY ShortRange
<1> QED BY <1>1 DEF Sealed, IpChecksumRight, IpFoldsOnce, HasChecksum2, Checksum2Right, Folds2Once,
               IpRight, LengthRight, Second, Ones

LEMMA PatchSeals ==
  ASSUME NEW x \in Seq(Byte), IpRight(x), LengthRight(x), NEW k \in {22, 24, 26, 36}, k = Checksum2At(x),
         k + 2 <= Len(x), Zeros(x, k), NEW c, Bytes(c, 2),
         Len(x) \in U16 => c = ComputeIpChecksum(Pseudo(x), From(x, 20))
  PROVE  Sealed(Patched(x, k, c))
<1> DEFINE y == Patched(x, k, c)
<1>1. k \in Nat /\ k >= 20 /\ k >= 10 /\ 2 \in Nat /\ Len(x) >= 20
  BY FieldPlaces
<1>2. Alter(x, y)
  BY <1>1, PatchedAlter
<1>3. IpRight(y) /\ LengthRight(y)
  BY <1>1, IpRightKept
<1>4. Len(x) \in U16 => Second(y, k)
  BY SecondSealed
<1> HIDE DEF y
<1>5. y \in Seq(Byte) /\ Len(y) = Len(x) /\ Checksum2At(y) = k
  BY <1>2 DEF Alter, Checksum2At
<1>6. Sealed(y)
  BY <1>3, <1>4, <1>5, SealedIs
<1> QED BY <1>6 DEF y

\* A packet whose IP header has its length and its checksum.
IpSet(q, x) ==
  /\ Alter(q, x) /\ At(x, 0) = 69
  /\ IpRight(x) /\ LengthRight(x)
  /\ \A k \in {22, 24, 26, 36} : k + 2 <= Len(q) /\ Zeros(q, k) => Zeros(x, k)

LEMMA SealsIp ==
  ASSUME NEW q, Whole(q), At(q, 0) = 69, Zeros(q, 10)
  PROVE  LET ip1 == Patched(q, 2, htons(Len(q) % 256))
         IN  IpSet(q, Patched(ip1, 10, ComputeIpChecksum(<<>>, Part(ip1, 0, 20))))
<1> DEFINE l == htons(Len(q) % 256)
           x == Patched(q, 2, l)
           c == ComputeIpChecksum(<<>>, Part(x, 0, 20))
           y == Patched(x, 10, c)
<1>1. q \in Seq(Byte) /\ Len(q) \in Nat /\ Len(q) >= 20 /\ 4 <= Len(q)
  BY DEF Whole
<1>2. 0 \in Nat /\ 2 \in Nat /\ 10 \in Nat /\ 20 \in Nat /\ 2 + 2 <= Len(q) /\ 2 + 2 <= 9 /\ 10 + 2 <= Len(q)
      /\ 0 < 2 /\ 0 < 10 /\ 0 < Len(q) /\ 10 >= 2 + 2 /\ 0 + 20 <= Len(q)
  BY <1>1
<1>3. Bytes(l, 2)
  <2>1. Len(q) % 256 \in Int
    BY <1>1
  <2> QED BY <2>1, ShortBytes DEF Bytes
<1>4. LengthRight(x)
  BY <1>1, LengthSet
<1> HIDE DEF l
<1>5. Alter(q, x)
  BY <1>1, <1>2, <1>3, PatchedAlter
<1>6. At(x, 0) = 69
  BY <1>1, <1>2, <1>3, OthersKept
<1>7. \A k \in Nat : k >= 10 /\ k + 2 <= Len(q) /\ Zeros(q, k) => Zeros(x, k)
  <2>1. ASSUME NEW k \in Nat, k >= 10, k + 2 <= Len(q), Zeros(q, k) PROVE Zeros(x, k)
    <3>1. k >= 2 + 2
      BY <2>1
    <3> QED BY <1>1, <1>2, <1>3, <2>1, <3>1, ZerosKept
  <2> QED BY <2>1
<1> HIDE DEF x
<1>8. x \in Seq(Byte) /\ Len(x) = Len(q)
  BY <1>5 DEF Alter
<1>9. Zeros(x, 10)
  BY <1>2, <1>7
<1>10. IpRight(y)
  <2>1. Len(x) >= 20
    BY <1>1, <1>8
  <2> QED BY <1>8, <1>9, <2>1, IpSealed DEF IpRight
<1>11. Bytes(c, 2)
  <2>1. Part(x, 0, 20) \in Seq(Byte)
    BY <1>2, <1>8, PartIs
  <2>2. <<>> \in Seq(Byte)
    OBVIOUS
  <2> QED BY <2>1, <2>2, ChecksumBytes
<1> HIDE DEF c
<1>12. Alter(x, y)
  <2>1. Len(x) >= 20 /\ 10 + 2 <= Len(x)
    BY <1>1, <1>2, <1>8
  <2> QED BY <1>2, <1>8, <1>11, <2>1, PatchedAlter
<1>13. At(y, 0) = 69
  <2>1. 10 + 2 <= Len(x) /\ 0 < Len(x)
    BY <1>2, <1>8
  <2> QED BY <1>2, <1>6, <1>8, <1>11, <2>1, OthersKept
<1>14. LengthRight(y)
  <2>1. 10 + 2 <= Len(x) /\ 2 < 10 /\ 3 < 10 /\ 2 < Len(x) /\ 3 < Len(x) /\ 2 + 1 = 3 /\ 3 \in Nat
    BY <1>1, <1>2, <1>8
  <2>2. At(y, 2) = At(x, 2) /\ At(y, 3) = At(x, 3)
    BY <1>2, <1>8, <1>11, <2>1, OthersKept
  <2>3. DerefU16BE(y, 2) = DerefU16BE(x, 2)
    BY <2>1, <2>2 DEF DerefU16BE
  <2>4. Len(y) = Len(x)
    BY <1>12 DEF Alter
  <2> QED BY <1>4, <2>3, <2>4 DEF LengthRight
<1>15. ASSUME NEW k \in {22, 24, 26, 36}, k + 2 <= Len(q), Zeros(q, k) PROVE Zeros(y, k)
  <2>1. k \in Nat /\ k >= 10 /\ k >= 10 + 2 /\ k + 2 <= Len(x) /\ 10 + 2 <= Len(x)
    BY <1>1, <1>8, <1>15
  <2>2. Zeros(x, k)
    BY <1>7, <1>15, <2>1
  <2> QED BY <1>2, <1>8, <1>11, <2>1, <2>2, ZerosKept
<1> HIDE DEF y
<1>16. Alter(q, y)
  BY <1>5, <1>12 DEF Alter
<1>17. IpSet(q, y)
  BY <1>10, <1>13, <1>14, <1>15, <1>16 DEF IpSet
<1> QED BY <1>17 DEF y, c, x, l

LEMMA ProtocolPlaces ==
  ASSUME NEW x
  PROVE  /\ protocol(x) = kProtocolIcmp => /\ Checksum2At(x) = 22
                                           /\ protocol(x) # kProtocolTcp /\ protocol(x) # kProtocolUdp
         /\ protocol(x) = kProtocolTcp => /\ Checksum2At(x) = 36
                                          /\ protocol(x) # kProtocolIcmp /\ protocol(x) # kProtocolUdp
         /\ protocol(x) = kProtocolUdp => /\ Checksum2At(x) = 26
                                          /\ protocol(x) # kProtocolIcmp /\ protocol(x) # kProtocolTcp
BY DEF Checksum2At, kProtocolIcmp, kProtocolTcp, kProtocolUdp

\* A packet as it has been read is sealed by Seal.
LEMMA SealSeals ==
  ASSUME NEW q, Whole(q), Blank(q)
  PROVE  Sealed(Seal(q))
<1> DEFINE size == Len(q)
           proto == protocol(q)
           ip1 == Patched(q, 2, htons(size % 256))
           ip2 == Patched(ip1, 10, ComputeIpChecksum(<<>>, Part(ip1, 0, 20)))
           udp == Patched(ip2, 24, htons(size - 20))
           ci == ComputeIpChecksum(<<>>, From(ip2, 20))
           ct == ComputeIpChecksum(pseudo_header(ip2), From(ip2, 20))
           cu == ComputeIpChecksum(pseudo_header(udp), From(udp, 20))
           xi == Patched(ip2, 22, ci)
           xt == Patched(ip2, 36, ct)
           xu == Patched(udp, 26, cu)
<1>1. Seal(q) = CASE proto = kProtocolIcmp -> xi [] proto = kProtocolTcp -> xt
                  [] proto = kProtocolUdp -> xu [] OTHER -> ip2
  BY DEF Seal
<1>2. q \in Seq(Byte) /\ size \in Nat /\ size >= 20
  BY DEF Whole
<1>3. IpSet(q, ip2)
  BY SealsIp DEF Blank, IpBlank
<1> HIDE DEF ip2
<1>4. /\ ip2 \in Seq(Byte) /\ Len(ip2) = size /\ protocol(ip2) = proto /\ At(ip2, 0) = 69
      /\ IpRight(ip2) /\ LengthRight(ip2)
  BY <1>3 DEF IpSet, Alter
<1>5. From(ip2, 20) \in Seq(Byte) /\ pseudo_header(ip2) \in Seq(Byte) /\ <<>> \in Seq(Byte)
  <2>1. 20 \in Nat /\ 20 <= Len(ip2) /\ Len(ip2) >= 20
    BY <1>2, <1>4
  <2> QED BY <1>4, <2>1, FromIs, PseudoBytes
<1>6. CASE proto = kProtocolIcmp
  <2>1. 22 \in {22, 24, 26, 36} /\ 22 + 2 <= Len(q)
    BY <1>6 DEF Whole
  <2>2. Checksum2At(ip2) = 22 /\ proto # kProtocolTcp /\ proto # kProtocolUdp
    BY <1>4, <1>6, ProtocolPlaces
  <2>3. Zeros(ip2, 22)
    BY <1>3, <1>6, <2>1 DEF Blank, IpSet
  <2>4. Bytes(ci, 2)
    BY <1>5, ChecksumBytes
  <2>5. ci = ComputeIpChecksum(Pseudo(ip2), From(ip2, 20))
    <3>1. Pseudo(ip2) = <<>>
      BY <1>4, <1>6 DEF Pseudo
    <3> QED BY <3>1
  <2>6. Sealed(xi)
    <3> HIDE DEF ci
    <3> QED BY <1>4, <2>1, <2>2, <2>3, <2>4, <2>5, PatchSeals
  <2> HIDE DEF xi, xt, xu, proto
  <2>7. Seal(q) = xi
    BY <1>1, <1>6, <2>2
  <2> QED BY <2>6, <2>7
<1>7. CASE proto = kProtocolTcp
  <2>1. 36 \in {22, 24, 26, 36} /\ 36 + 2 <= Len(q)
    BY <1>7 DEF Whole
  <2>2. Checksum2At(ip2) = 36 /\ proto # kProtocolIcmp /\ proto # kProtocolUdp
    BY <1>4, <1>7, ProtocolPlaces
  <2>3. Zeros(ip2, 36)
    BY <1>3, <1>7, <2>1 DEF Blank, IpSet
  <2>4. Bytes(ct, 2)
    BY <1>5, ChecksumBytes
  <2>5. Len(ip2) \in U16 => ct = ComputeIpChecksum(Pseudo(ip2), From(ip2, 20))
    <3>1. Len(ip2) >= 20
      BY <1>2, <1>4
    <3>2. Len(ip2) \in U16 => Pseudo(ip2) = pseudo_header(ip2)
      BY <1>4, <2>2, <3>1, PseudoIs
    <3> QED BY <3>2
  <2>6. Sealed(xt)
    <3> HIDE DEF ct
    <3> QED BY <1>4, <2>1, <2>2, <2>3, <2>4, <2>5, PatchSeals
  <2> HIDE DEF xi, xt, xu, proto
  <2>7. Seal(q) = xt
    BY <1>1, <1>7, <2>2
  <2> QED BY <2>6, <2>7
<1>8. CASE proto = kProtocolUdp
  <2>0. /\ Len(ip2) >= 28
        /\ 26 \in {22, 24, 26, 36} /\ 26 + 2 <= Len(ip2) /\ 26 + 2 <= Len(q) /\ 24 + 2 <= Len(ip2)
        /\ 24 \in Nat /\ 26 \in Nat /\ 2 \in Nat /\ 24 >= 20 /\ 24 >= 10 /\ Len(ip2) >= 20
        /\ 26 >= 24 + 2 /\ 0 < 24 /\ 0 \in Nat /\ 0 < Len(ip2)
    BY <1>4, <1>8 DEF Whole
  <2>1. Bytes(htons(size - 20), 2)
    <3>1. size - 20 \in Int
      BY <1>2
    <3> QED BY <3>1, ShortBytes DEF Bytes
  <2>2. Checksum2At(ip2) = 26 /\ proto # kProtocolIcmp /\ proto # kProtocolTcp
    BY <1>4, <1>8, ProtocolPlaces
  <2>3. Zeros(ip2, 26)
    BY <1>3, <1>8, <2>0 DEF Blank, IpSet
  <2> DEFINE l == htons(size - 20)
  <2> HIDE DEF l
  <2>4. Alter(ip2, udp)
    BY <1>4, <2>0, <2>1, PatchedAlter DEF l
  <2>5. Zeros(udp, 26)
    BY <1>4, <2>0, <2>1, <2>3, ZerosKept DEF l
  <2>6. IpRight(udp) /\ LengthRight(udp)
    BY <1>4, <2>0, <2>1, IpRightKept DEF l
  <2>7. At(udp, 0) = 69
    BY <1>4, <2>0, <2>1, OthersKept DEF l
  <2> HIDE DEF udp
  <2>8. udp \in Seq(Byte) /\ Len(udp) = Len(ip2) /\ protocol(udp) = proto /\ Checksum2At(udp) = 26
    BY <1>4, <1>8, <2>4, ProtocolPlaces DEF Alter
  <2>9. From(udp, 20) \in Seq(Byte) /\ pseudo_header(udp) \in Seq(Byte)
    <3>1. 20 \in Nat /\ 20 <= Len(udp) /\ Len(udp) >= 20
      BY <2>0, <2>8
    <3> QED BY <2>8, <3>1, FromIs, PseudoBytes
  <2>10. Bytes(cu, 2)
    BY <2>9, ChecksumBytes
  <2>11. Len(udp) \in U16 => cu = ComputeIpChecksum(Pseudo(udp), From(udp, 20))
    <3>1. Len(udp) >= 20
      BY <2>0, <2>8
    <3>2. Len(udp) \in U16 => Pseudo(udp) = pseudo_header(udp)
      BY <2>2, <2>7, <2>8, <3>1, PseudoIs
    <3> QED BY <3>2
  <2>12. Sealed(xu)
    <3> HIDE DEF cu
    <3> QED BY <2>0, <2>5, <2>6, <2>8, <2>10, <2>11, PatchSeals
  <2> HIDE DEF xi, xt, xu, proto
  <2>13. Seal(q) = xu
    BY <1>1, <1>8, <2>2
  <2> QED BY <2>12, <2>13
<1>9. CASE proto # kProtocolIcmp /\ proto # kProtocolTcp /\ proto # kProtocolUdp
  <2>1. Sealed(ip2)
    BY <1>4, <1>9, SealedIs
  <2> HIDE DEF xi, xt, xu, proto
  <2>2. Seal(q) = ip2
    BY <1>1, <1>9
  <2> QED BY <2>1, <2>2
<1> QED BY <1>6, <1>7, <1>8, <1>9

(***************************************************************************)
(* The text of a log, and the changes of it.                               *)
(***************************************************************************)
Rest(ts, a) == SubSeq(ts, a, Len(ts))
Before(ts, a) == SubSeq(ts, 1, a - 1)

LEMMA RestIs ==
  ASSUME NEW S, NEW ts \in Seq(S), NEW a \in 1 .. Len(ts) + 1
  PROVE  /\ Rest(ts, a) \in Seq(S) /\ Before(ts, a) \in Seq(S)
         /\ a <= Len(ts) => /\ Rest(ts, a) # <<>> /\ Head(Rest(ts, a)) = ts[a]
                            /\ Tail(Rest(ts, a)) = Rest(ts, a + 1)
<1>1. Len(ts) \in Nat /\ a \in Nat
  OBVIOUS
<1>2. Rest(ts, a) \in Seq(S) /\ Before(ts, a) \in Seq(S)
  <2>1. a - 1 \in 0 .. Len(ts) /\ (a - 1) + 1 = a
    BY <1>1
  <2> DEFINE b == a - 1
  <2>2. b \in 0 .. Len(ts) /\ b + 1 = a
    BY <2>1
  <2> HIDE DEF b
  <2>3. SubSeq(ts, 1, b) \in Seq(S) /\ SubSeq(ts, b + 1, Len(ts)) \in Seq(S)
    BY <2>2, Cut
  <2> QED BY <2>2, <2>3 DEF Rest, Before, b
<1>3. ASSUME a <= Len(ts)
      PROVE  /\ Rest(ts, a) # <<>> /\ Head(Rest(ts, a)) = ts[a]
             /\ Tail(Rest(ts, a)) = Rest(ts, a + 1)
  <2>1. a + 1 \in 1 .. Len(ts) + 1 /\ a \in 1 .. Len(ts)
    BY <1>1, <1>3
  <2> DEFINE x == Rest(ts, a)
             y == Rest(ts, a + 1)
  <2>2. /\ x \in Seq(S) /\ Len(x) = Len(ts) - a + 1
        /\ \A i \in 1 .. Len(ts) - a + 1 : x[i] = ts[a + i - 1]
    BY <1>1, <2>1 DEF Rest
  <2>3. /\ y \in Seq(S) /\ Len(y) = Len(ts) - a
        /\ \A i \in 1 .. Len(ts) - a : y[i] = ts[(a + 1) + i - 1]
    BY <1>1, <2>1 DEF Rest
  <2> HIDE DEF x, y
  <2>4. x # <<>> /\ Head(x) = x[1] /\ x[1] = ts[a]
    BY <1>1, <2>1, <2>2
  <2>5. /\ Tail(x) \in Seq(S) /\ Len(Tail(x)) = Len(y)
        /\ \A i \in 1 .. Len(Tail(x)) : Tail(x)[i] = x[i + 1]
    <3>1. x \in Seq(S) /\ x # <<>>
      BY <2>2, <2>4
    <3>2. /\ Tail(x) \in Seq(S) /\ Len(Tail(x)) = Len(x) - 1
          /\ \A i \in 1 .. Len(Tail(x)) : Tail(x)[i] = x[i + 1]
      BY <3>1
    <3>3. Len(x) - 1 = Len(y)
      BY <1>1, <2>2, <2>3
    <3> QED BY <3>2, <3>3
  <2>6. ASSUME NEW i \in 1 .. Len(Tail(x)) PROVE Tail(x)[i] = y[i]
    <3>1. i \in 1 .. Len(ts) - a /\ i + 1 \in 1 .. Len(ts) - a + 1 /\ a + (i + 1) - 1 = (a + 1) + i - 1
      BY <1>1, <2>1, <2>3, <2>5
    <3> QED BY <2>2, <2>3, <2>5, <3>1
  <2>7. Tail(x) = y
    BY <2>3, <2>5, <2>6, SeqEqual
  <2> QED BY <2>4, <2>7 DEF x, y
<1> QED BY <1>2, <1>3

LEMMA LevelAt ==
  ASSUME NEW ts \in Seq(TokenSet), NEW n, Nests(ts, 1, n), NEW a \in 1 .. Len(ts) + 1
  PROVE  \E k \in Nat : Nests(Before(ts, a), 1, k) /\ Nests(Rest(ts, a), k, n)
<1> DEFINE b == a - 1
<1>1. b \in 0 .. Len(ts) /\ b + 1 = a
  OBVIOUS
<1> HIDE DEF b
<1>2. \E k \in Nat : Nests(SubSeq(ts, 1, b), 1, k) /\ Nests(SubSeq(ts, b + 1, Len(ts)), k, n)
  BY <1>1, NestsCut
<1> QED BY <1>1, <1>2 DEF Before, Rest, b

LEMMA StepAt ==
  ASSUME NEW ts \in Seq(TokenSet), NEW a \in 1 .. Len(ts), NEW k, NEW n, Nests(Rest(ts, a), k, n)
  PROVE  /\ After(ts[a], k) \in Nat /\ Fits(ts[a], k)
         /\ Nests(Rest(ts, a + 1), After(ts[a], k), n)
<1>1. a \in 1 .. Len(ts) + 1 /\ a <= Len(ts)
  OBVIOUS
<1>2. Rest(ts, a) \in Seq(TokenSet) /\ Rest(ts, a) # <<>> /\ Head(Rest(ts, a)) = ts[a]
      /\ Tail(Rest(ts, a)) = Rest(ts, a + 1)
  BY <1>1, RestIs
<1> DEFINE x == Rest(ts, a)
<1> HIDE DEF x
<1>3. x \in Seq(TokenSet) /\ x # <<>> /\ Head(x) = ts[a] /\ Tail(x) = Rest(ts, a + 1) /\ Nests(x, k, n)
  BY <1>2 DEF x
<1>4. /\ After(Head(x), k) \in Nat /\ Fits(Head(x), k) /\ Nests(Tail(x), After(Head(x), k), n)
  BY <1>3, NestsTail
<1> QED BY <1>3, <1>4

LEMMA Joined ==
  ASSUME NEW ts \in Seq(TokenSet), NEW a \in 1 .. Len(ts) + 1, NEW b \in a .. Len(ts) + 1,
         NEW s \in Seq(TokenSet), NEW k \in Nat, NEW l \in Nat,
         Nests(Before(ts, a), 1, k), Nests(s, k, l), Open(Rest(ts, b), l)
  PROVE  Spliced(ts, a, b - a, s) \in Seq(TokenSet) /\ Open(Spliced(ts, a, b - a, s), 1)
<1>1. b \in 1 .. Len(ts) + 1 /\ a + (b - a) = b
  OBVIOUS
<1> DEFINE x == Before(ts, a)
           y == Rest(ts, b)
<1>2. x \in Seq(TokenSet) /\ y \in Seq(TokenSet)
  BY <1>1, RestIs
<1>3. Spliced(ts, a, b - a, s) = x \o s \o y
  BY <1>1 DEF Spliced, Before, Rest
<1> HIDE DEF x, y
<1>4. PICK n \in Nat : Nests(y, l, n)
  BY DEF Open, y
<1>5. Nests(x \o s, 1, l) /\ x \o s \in Seq(TokenSet)
  BY <1>2, NestsConcat, Concat DEF x
<1> DEFINE z == x \o s
<1> HIDE DEF z
<1>6. Nests(z, 1, l) /\ z \in Seq(TokenSet)
  BY <1>5 DEF z
<1>7. Nests(z \o y, 1, n) /\ z \o y \in Seq(TokenSet)
  BY <1>2, <1>4, <1>6, NestsConcat, Concat
<1> QED BY <1>3, <1>7 DEF Open, z

\* The scalars.
Plain(c) == c \in TokenSet /\ IsScalar(c)

LEMMA PlainLevels ==
  ASSUME NEW c, Plain(c), NEW k \in Nat
  PROVE  /\ After(c, k) = IF k = 6 THEN 5 ELSE k
         /\ Fits(c, k) <=> k \in 2 .. 6
<1>1. c.t = "String" \/ c.t = "Integer" \/ c.t = "Null"
  BY DEF Plain, IsScalar
<1>2. ~Opens(c) /\ ~Closes(c)
  BY <1>1 DEF Opens, Closes
<1>3. After(c, k) = IF k = 6 THEN 5 ELSE k
  BY <1>2 DEF After
<1>4. Fits(c, k) <=> k \in 2 .. 6
  BY <1>1, <1>2 DEF Fits
<1> QED BY <1>3, <1>4

LEMMA StrayIs ==
  ASSUME NEW s \in Strays
  PROVE  Plain(s) /\ s.t # "StartObject"
<1>1. CASE s = Null
  <2>1. Null.t = "Null" /\ Null \in TokenSet
    BY DEF Null, TokenSet, PlainToken
  <2> QED BY <1>1, <2>1 DEF Plain, IsScalar
<1>2. CASE s.t = "Integer" /\ s.v \in Half /\ s = Halves(s.v)
  <2>1. s \in IntegerToken
    BY <1>2, ScalarTokens
  <2> QED BY <1>2, <2>1 DEF Plain, IsScalar, TokenSet
<1>3. CASE s.t = "String" /\ s.str.text \in Seq(Byte) /\ s = Text([text |-> s.str.text])
  <2> DEFINE x == [text |-> s.str.text]
  <2>1. x \in StringStr
    BY <1>3, StringTokens
  <2>2. s = Text(x)
    BY <1>3
  <2> HIDE DEF x
  <2>3. s \in StringToken
    BY <2>1, <2>2, ScalarTokens
  <2> QED BY <1>3, <2>3 DEF Plain, IsScalar, TokenSet
<1>4. \/ s = Null
      \/ s.t = "Integer" /\ s.v \in Half /\ s = Halves(s.v)
      \/ s.t = "String" /\ s.str.text \in Seq(Byte) /\ s = Text([text |-> s.str.text])
  <2>1. Half = Numbers
    BY SMT DEF Half, U16, Numbers
  <2> QED BY <2>1, StraysAssumption
<1> QED BY <1>1, <1>2, <1>3, <1>4

LEMMA OpenFive ==
  ASSUME NEW ts \in Seq(TokenSet), Open(ts, 6)
  PROVE  Open(ts, 5)
<1>1. CASE ts = <<>>
  <2>1. Nests(<<>>, 5, 5)
    BY NestsEmpty
  <2> QED BY <1>1, <2>1 DEF Open
<1>2. CASE ts # <<>>
  <2> DEFINE c == Head(ts)
             q == Tail(ts)
  <2>1. c \in TokenSet /\ q \in Seq(TokenSet) /\ ts = <<c>> \o q
    BY <1>2
  <2>2. After(c, 6) \in Nat /\ Fits(c, 6) /\ Open(q, After(c, 6))
    BY <1>2, OpenTail
  <2> HIDE DEF c, q
  <2>3. ~Closes(c) /\ c.t # "StartArray" /\ c.t # "StartObject"
    BY <2>2 DEF Fits
  <2>4. ~Opens(c)
    BY <2>3 DEF Opens
  <2>5. After(c, 6) = 5 /\ After(c, 5) = 5
    BY <2>3, <2>4 DEF After
  <2>6. Fits(c, 5)
    BY <2>2, <2>3 DEF Fits
  <2>7. Nests(<<c>>, 5, 5)
    BY <2>5, <2>6, NestsOne
  <2>8. PICK n \in Nat : Nests(q, 5, n)
    BY <2>2, <2>5 DEF Open
  <2> DEFINE e == <<c>>
  <2>9. e \in Seq(TokenSet)
    BY <2>1
  <2> HIDE DEF e
  <2>10. Nests(e \o q, 5, n)
    BY <2>1, <2>7, <2>8, <2>9, NestsConcat DEF e
  <2> QED BY <2>1, <2>10 DEF Open, e
<1> QED BY <1>1, <1>2

\* A scalar more does not matter.
LEMMA OneMore ==
  ASSUME NEW ts \in Seq(TokenSet), NEW a \in 1 .. Len(ts) + 1, NEW c, Plain(c), NEW k \in 2 .. 6,
         Nests(Before(ts, a), 1, k), Open(Rest(ts, a), k)
  PROVE  Spliced(ts, a, 0, <<c>>) \in Seq(TokenSet) /\ Open(Spliced(ts, a, 0, <<c>>), 1)
<1> DEFINE l == IF k = 6 THEN 5 ELSE k
           s == <<c>>
<1>1. a \in a .. Len(ts) + 1 /\ a - a = 0 /\ k \in Nat /\ l \in Nat
  OBVIOUS
<1>2. l = After(c, k) /\ Fits(c, k) /\ s \in Seq(TokenSet)
  BY <1>1, PlainLevels DEF Plain
<1>3. Nests(s, k, l)
  BY <1>1, <1>2, NestsOne
<1>4. Open(Rest(ts, a), l)
  <2>1. Rest(ts, a) \in Seq(TokenSet)
    BY RestIs
  <2>2. k = 6 => Open(Rest(ts, a), 5)
    BY <2>1, OpenFive
  <2> QED BY <2>2
<1> HIDE DEF s, l
<1>5. Spliced(ts, a, a - a, s) \in Seq(TokenSet) /\ Open(Spliced(ts, a, a - a, s), 1)
  BY <1>1, <1>2, <1>3, <1>4, Joined
<1> QED BY <1>1, <1>5 DEF s

\* Nor does another one in its place.
LEMMA OtherOne ==
  ASSUME NEW ts \in Seq(TokenSet), NEW n \in Nat, Nests(ts, 1, n), NEW a \in 1 .. Len(ts),
         Plain(ts[a]), NEW c, Plain(c)
  PROVE  Spliced(ts, a, 1, <<c>>) \in Seq(TokenSet) /\ Open(Spliced(ts, a, 1, <<c>>), 1)
<1>1. a \in 1 .. Len(ts) + 1 /\ a + 1 \in a .. Len(ts) + 1 /\ (a + 1) - a = 1
  OBVIOUS
<1>2. PICK k \in Nat : Nests(Before(ts, a), 1, k) /\ Nests(Rest(ts, a), k, n)
  BY <1>1, LevelAt
<1> DEFINE l == After(ts[a], k)
           s == <<c>>
           b == a + 1
<1>3. l \in Nat /\ Fits(ts[a], k) /\ Nests(Rest(ts, b), l, n)
  BY <1>2, StepAt
<1>4. After(c, k) = l /\ Fits(c, k)
  BY <1>3, PlainLevels
<1>5. s \in Seq(TokenSet)
  BY DEF Plain
<1>6. Nests(s, k, l)
  BY <1>3, <1>4, NestsOne
<1> HIDE DEF l, s
<1>7. Open(Rest(ts, b), l)
  BY <1>3 DEF Open
<1>8. b \in a .. Len(ts) + 1 /\ b - a = 1
  BY <1>1
<1> HIDE DEF b
<1>9. Spliced(ts, a, b - a, s) \in Seq(TokenSet) /\ Open(Spliced(ts, a, b - a, s), 1)
  BY <1>1, <1>2, <1>3, <1>5, <1>6, <1>7, <1>8, Joined
<1> QED BY <1>8, <1>9 DEF s

LEMMA TokensOf ==
  ASSUME NEW s \in Seq(TokenSet)
  PROVE  Tokens(s) = s
<1>1. Tokens(s) = Without(s, Packs)
  BY TokensIs
<1>2. \A i \in 1 .. Len(s) : s[i] \notin Packs
  <2>1. \A i \in 1 .. Len(s) : s[i] \in TokenSet
    OBVIOUS
  <2> QED BY <2>1, TokensNotPacks
<1> QED BY <1>1, <1>2, TokensNotPacks, WithoutNone

\* The option that is added.
LEMMA NewOption ==
  LET s == Option(2, <<Integer(1)>>)
  IN  s \in Seq(TokenSet) /\ Nests(s, 3, 3) /\ Nests(s, 4, 4)
<1> DEFINE e == Entry("tcpOption", 2)
           n == Integer(1)
           v == <<n>>
           b == <<e>> \o v
           s == Option(2, v)
<1>1. e \in ScalarToken /\ n \in ScalarToken
  <2>1. 2 \in Nat /\ 1 \in Nat
    OBVIOUS
  <2> QED BY <2>1, ScalarCalls, TablesHave
<1> HIDE DEF e, n
<1>2. v \in Seq(ScalarToken) /\ b \in Seq(ScalarToken)
  BY <1>1
<1>3. s = Array(b)
  BY DEF Option, e
<1> HIDE DEF v, b
<1>4. Writes(s, 4, 4, 0, 0)
  BY <1>2, OptionNests
<1>5. Writes(b, 4, 4, 0, 0)
  BY <1>2, WritesScalars
<1>6. Writes(Array(b), 3, 3, 0, 0)
  <2>1. 3 + 1 = 4
    OBVIOUS
  <2> QED BY <1>5, <2>1, WritesArray
<1>7. s \in Seq(TokenSet)
  <2>1. b \in Seq(TokenSet)
    <3>1. ScalarToken \subseteq TokenSet
      BY FlatTokens
    <3> QED BY <1>2, <3>1
  <2> DEFINE x == <<StartArray>>
             y == <<EndArray>>
  <2>2. x \in Seq(TokenSet) /\ y \in Seq(TokenSet)
    BY Brackets
  <2> HIDE DEF x, y
  <2>3. x \o b \o y \in Seq(TokenSet)
    BY <2>1, <2>2
  <2> QED BY <1>3, <2>3 DEF Array, x, y
<1> HIDE DEF s
<1>8. Tokens(s) = s
  BY <1>7, TokensOf
<1>9. Nests(s, 4, 4)
  BY <1>4, <1>8 DEF Writes
<1>10. Nests(s, 3, 3)
  BY <1>3, <1>6, <1>8 DEF Writes
<1> QED BY <1>7, <1>9, <1>10 DEF s, v, n

\* Where a bracket leads to.
LEMMA OpenedLevel ==
  ASSUME NEW c \in TokenSet, NEW k \in Nat, Fits(c, k)
  PROVE  /\ c.t = "StartArray" => k \in 2 .. 4 /\ After(c, k) = (IF k = 4 THEN 6 ELSE k + 1)
         /\ c.t = "StartObject" => k \in 1 .. 2 /\ After(c, k) = k + 1
         /\ c.t = "PropertyName" => k \in 2 .. 3 /\ After(c, k) = k
         /\ c.t = "EndArray" => After(c, k) = k - 1
<1>1. (c.t \in {"StartArray", "StartObject"}) => Opens(c)
  BY DEF Opens
<1>2. c.t = "PropertyName" => ~Opens(c) /\ ~Closes(c)
  BY DEF Opens, Closes
<1>3. c.t = "EndArray" => ~Opens(c) /\ Closes(c)
  BY DEF Opens, Closes
<1> QED BY <1>1, <1>2, <1>3 DEF After, Fits

LEMMA BeforeNext ==
  ASSUME NEW ts \in Seq(TokenSet), NEW a \in 1 .. Len(ts)
  PROVE  Before(ts, a + 1) = Before(ts, a) \o <<ts[a]>>
<1> DEFINE c == ts[a]
           x == Before(ts, a)
           y == <<c>>
           z == Before(ts, a + 1)
<1>0. c \in TokenSet
  OBVIOUS
<1>1. Len(ts) \in Nat /\ a \in Nat /\ a >= 1 /\ a <= Len(ts)
  OBVIOUS
<1>2. z \in Seq(TokenSet) /\ Len(z) = a /\ \A i \in 1 .. a : z[i] = ts[i]
  BY <1>1 DEF Before
<1>3. x \in Seq(TokenSet) /\ Len(x) = a - 1 /\ \A i \in 1 .. a - 1 : x[i] = ts[i]
  BY <1>1 DEF Before
<1>4. y \in Seq(TokenSet) /\ Len(y) = 1 /\ y[1] = ts[a]
  BY <1>0
<1> HIDE DEF x, y, z, c
<1>5. x \o y \in Seq(TokenSet) /\ Len(x \o y) = Len(x) + Len(y)
  BY <1>3, <1>4, Concat
<1>6. /\ \A i \in 1 .. Len(x) : (x \o y)[i] = x[i]
      /\ \A i \in Len(x) + 1 .. Len(x) + Len(y) : (x \o y)[i] = y[i - Len(x)]
  BY <1>3, <1>4, ConcatAt
<1>7. ASSUME NEW i \in 1 .. Len(z) PROVE z[i] = (x \o y)[i]
  <2>1. CASE i = a
    <3>1. i \in Len(x) + 1 .. Len(x) + Len(y) /\ i - Len(x) = 1 /\ i \in 1 .. a
      BY <1>1, <1>3, <1>4, <2>1
    <3> QED BY <1>2, <1>4, <1>6, <2>1, <3>1
  <2>2. CASE i # a
    <3>1. i \in 1 .. Len(x) /\ i \in 1 .. a - 1 /\ i \in 1 .. a
      BY <1>1, <1>2, <1>3, <2>2
    <3> QED BY <1>2, <1>3, <1>6, <3>1
  <2> QED BY <2>1, <2>2
<1>8. Len(z) = Len(x \o y)
  BY <1>1, <1>2, <1>3, <1>4, <1>5
<1>9. z = x \o y
  BY <1>2, <1>5, <1>7, <1>8, SeqEqual
<1> QED BY <1>9 DEF x, y, z, c

\* Something is put after the bracket at a.
LEMMA Inserted ==
  ASSUME NEW ts \in Seq(TokenSet), NEW n \in Nat, Nests(ts, 1, n), NEW a \in 1 .. Len(ts)
  PROVE  \E k \in Nat, l \in Nat :
           /\ Fits(ts[a], k) /\ l = After(ts[a], k)
           /\ Nests(Before(ts, a), 1, k)
           /\ Nests(Before(ts, a + 1), 1, l) /\ Nests(Rest(ts, a + 1), l, n)
<1>1. a \in 1 .. Len(ts) + 1 /\ a + 1 \in 1 .. Len(ts) + 1
  OBVIOUS
<1>2. PICK k \in Nat : Nests(Before(ts, a), 1, k) /\ Nests(Rest(ts, a), k, n)
  BY <1>1, LevelAt
<1> DEFINE l == After(ts[a], k)
           c == ts[a]
           x == Before(ts, a)
           y == <<c>>
<1>3. l \in Nat /\ Fits(c, k) /\ Nests(Rest(ts, a + 1), l, n)
  BY <1>2, StepAt
<1>4. x \in Seq(TokenSet) /\ c \in TokenSet
  BY <1>1, RestIs
<1>5. Before(ts, a + 1) = x \o y
  BY BeforeNext
<1>6. Nests(y, k, l)
  BY <1>3, NestsOne
<1>7. y \in Seq(TokenSet)
  BY <1>4
<1> HIDE DEF x, y, l, c
<1>8. Nests(x, 1, k)
  BY <1>2 DEF x
<1>9. Nests(x \o y, 1, l)
  BY <1>4, <1>6, <1>7, <1>8, NestsConcat
<1>10. Nests(Before(ts, a + 1), 1, l)
  BY <1>5, <1>9
<1> QED BY <1>2, <1>3, <1>10 DEF l, c

\* The property or the short array at a is taken out.
LEMMA TakenOut ==
  ASSUME NEW ts \in Seq(TokenSet), NEW n \in Nat, Nests(ts, 1, n), NEW a \in 1 .. Len(ts)
  PROVE  /\ a + 1 <= Len(ts) /\ ts[a].t = "PropertyName" /\ IsScalar(ts[a + 1]) =>
              Spliced(ts, a, 2, <<>>) \in Seq(TokenSet) /\ Open(Spliced(ts, a, 2, <<>>), 1)
         /\ a + 2 <= Len(ts) /\ ts[a].t = "StartArray" /\ IsScalar(ts[a + 1])
            /\ ts[a + 2].t = "EndArray" =>
              Spliced(ts, a, 3, <<>>) \in Seq(TokenSet) /\ Open(Spliced(ts, a, 3, <<>>), 1)
<1>0. /\ Len(ts) \in Nat /\ a \in Nat /\ a \in 1 .. Len(ts) + 1
      /\ \A i \in 1 .. Len(ts) : ts[i] \in TokenSet
  OBVIOUS
<1>1. PICK k \in Nat : Nests(Before(ts, a), 1, k) /\ Nests(Rest(ts, a), k, n)
  BY <1>0, LevelAt
<1> DEFINE l == After(ts[a], k)
           b == a + 1
           c == a + 2
           d == a + 3
           e == <<>>
<1>2. l \in Nat /\ Fits(ts[a], k) /\ Nests(Rest(ts, b), l, n)
  BY <1>1, StepAt
<1>3. e \in Seq(TokenSet) /\ Nests(e, k, k)
  BY NestsEmpty
<1> HIDE DEF e
<1>4. ASSUME a + 1 <= Len(ts), ts[a].t = "PropertyName", IsScalar(ts[a + 1])
      PROVE  Spliced(ts, a, 2, e) \in Seq(TokenSet) /\ Open(Spliced(ts, a, 2, e), 1)
  <2>1. k \in 2 .. 3 /\ l = k
    BY <1>0, <1>2, <1>4, OpenedLevel
  <2>2. b \in 1 .. Len(ts) /\ Plain(ts[b])
    BY <1>0, <1>4 DEF Plain
  <2>3. b + 1 = c /\ c \in a .. Len(ts) + 1 /\ c - a = 2
    BY <1>0, <1>4
  <2> HIDE DEF b, c, l
  <2>4. Nests(Rest(ts, c), After(ts[b], k), n)
    BY <1>2, <2>1, <2>2, <2>3, StepAt
  <2>5. After(ts[b], k) = k
    BY <2>1, <2>2, PlainLevels
  <2>6. Open(Rest(ts, c), k)
    BY <2>4, <2>5 DEF Open
  <2>7. Spliced(ts, a, c - a, e) \in Seq(TokenSet) /\ Open(Spliced(ts, a, c - a, e), 1)
    BY <1>0, <1>1, <1>3, <2>3, <2>6, Joined
  <2> QED BY <2>3, <2>7
<1>5. ASSUME a + 2 <= Len(ts), ts[a].t = "StartArray", IsScalar(ts[a + 1]), ts[a + 2].t = "EndArray"
      PROVE  Spliced(ts, a, 3, e) \in Seq(TokenSet) /\ Open(Spliced(ts, a, 3, e), 1)
  <2>1. k \in 2 .. 4 /\ l = (IF k = 4 THEN 6 ELSE k + 1)
    BY <1>0, <1>2, <1>5, OpenedLevel
  <2>2. b \in 1 .. Len(ts) /\ Plain(ts[b])
    BY <1>0, <1>5 DEF Plain
  <2>3. c \in 1 .. Len(ts) /\ ts[c] \in TokenSet /\ ts[c].t = "EndArray" /\ b + 1 = c
    BY <1>0, <1>5
  <2>4. c + 1 = d /\ d \in a .. Len(ts) + 1 /\ d - a = 3
    BY <1>0, <1>5
  <2> DEFINE m == After(ts[b], l)
             o == After(ts[c], m)
  <2> HIDE DEF b, c, d, l
  <2>5. m \in Nat /\ Nests(Rest(ts, c), m, n)
    BY <1>2, <2>2, <2>3, StepAt
  <2>6. m = k + 1
    BY <1>2, <2>1, <2>2, PlainLevels
  <2> HIDE DEF m
  <2>7. o \in Nat /\ Fits(ts[c], m) /\ Nests(Rest(ts, d), o, n)
    BY <2>3, <2>4, <2>5, StepAt
  <2>8. o = k
    BY <2>3, <2>5, <2>6, <2>7, OpenedLevel
  <2>9. Open(Rest(ts, d), k)
    BY <2>7, <2>8 DEF Open
  <2>10. Spliced(ts, a, d - a, e) \in Seq(TokenSet) /\ Open(Spliced(ts, a, d - a, e), 1)
    BY <1>0, <1>1, <1>3, <2>4, <2>9, Joined
  <2> QED BY <2>4, <2>10
<1> QED BY <1>4, <1>5 DEF e

\* A log is the opening bracket of its array and the rest.
Logged(w) == <<StartArray>> \o w

LEMMA LogParts ==
  ASSUME NEW w \in Seq(TokenSet)
  PROVE  LET ts == Logged(w)
         IN  /\ ts \in Seq(TokenSet) /\ Len(ts) = Len(w) + 1 /\ ts[1] = StartArray
             /\ \A i \in 1 .. Len(w) : ts[i + 1] = w[i]
             /\ \A a \in 0 .. Len(w) : SubSeq(ts, 1, a + 1) = Logged(SubSeq(w, 1, a))
             /\ \A a \in 1 .. Len(w) + 1 : Rest(ts, a + 1) = Rest(w, a)
<1> DEFINE ts == Logged(w)
           x == <<StartArray>>
<1>1. x \in Seq(TokenSet) /\ Len(x) = 1 /\ x[1] = StartArray
  BY Brackets
<1>2. Len(w) \in Nat
  OBVIOUS
<1>3. \A v \in Seq(TokenSet) :
        /\ Logged(v) \in Seq(TokenSet) /\ Len(Logged(v)) = Len(v) + 1 /\ Logged(v)[1] = StartArray
        /\ \A i \in 1 .. Len(v) : Logged(v)[i + 1] = v[i]
  <2> SUFFICES ASSUME NEW v \in Seq(TokenSet)
               PROVE  /\ x \o v \in Seq(TokenSet) /\ Len(x \o v) = Len(v) + 1
                      /\ (x \o v)[1] = StartArray
                      /\ \A i \in 1 .. Len(v) : (x \o v)[i + 1] = v[i]
    BY DEF Logged
  <2> HIDE DEF x
  <2>1. x \o v \in Seq(TokenSet) /\ Len(x \o v) = Len(v) + 1
    <3>1. x \in Seq(TokenSet)
      BY <1>1
    <3>2. x \o v \in Seq(TokenSet) /\ Len(x \o v) = Len(x) + Len(v) /\ Len(v) \in Nat
      BY <3>1
    <3> QED BY <1>1, <3>2
  <2>2. /\ \A i \in 1 .. Len(x) : (x \o v)[i] = x[i]
        /\ \A i \in Len(x) + 1 .. Len(x) + Len(v) : (x \o v)[i] = v[i - Len(x)]
    BY <1>1, ConcatAt
  <2>3. (x \o v)[1] = StartArray
    BY <1>1, <2>2, SMTT(40)
  <2>4. ASSUME NEW i \in 1 .. Len(v) PROVE (x \o v)[i + 1] = v[i]
    <3>1. i + 1 \in Len(x) + 1 .. Len(x) + Len(v) /\ (i + 1) - Len(x) = i
      BY <1>1
    <3> QED BY <2>2, <3>1
  <2> QED BY <2>1, <2>3, <2>4
<1>4. /\ ts \in Seq(TokenSet) /\ Len(ts) = Len(w) + 1 /\ ts[1] = StartArray
      /\ \A i \in 1 .. Len(w) : ts[i + 1] = w[i]
  BY <1>3
<1> HIDE DEF ts
<1>5. ASSUME NEW a \in 0 .. Len(w) PROVE SubSeq(ts, 1, a + 1) = Logged(SubSeq(w, 1, a))
  <2> DEFINE y == SubSeq(ts, 1, a + 1)
             z == SubSeq(w, 1, a)
             q == Logged(z)
  <2>1. a \in Nat /\ a + 1 \in 0 .. Len(ts)
    BY <1>2, <1>4
  <2>2. y \in Seq(TokenSet) /\ Len(y) = a + 1 /\ \A i \in 1 .. a + 1 : y[i] = ts[i]
    BY <1>4, <2>1
  <2>3. z \in Seq(TokenSet) /\ Len(z) = a /\ \A i \in 1 .. a : z[i] = w[i]
    BY <2>1
  <2> HIDE DEF y, z
  <2>4. q \in Seq(TokenSet) /\ Len(q) = a + 1 /\ q[1] = StartArray
        /\ \A i \in 1 .. a : q[i + 1] = z[i]
    BY <1>3, <2>3
  <2> HIDE DEF q
  <2>5. ASSUME NEW i \in 1 .. Len(y) PROVE y[i] = q[i]
    <3>1. CASE i = 1
      BY <1>4, <2>1, <2>2, <2>4, <3>1
    <3>2. CASE i # 1
      <4> DEFINE j == i - 1
      <4>1. j \in 1 .. a /\ j + 1 = i /\ j \in 1 .. Len(w) /\ i \in 1 .. a + 1
        BY <1>2, <2>1, <2>2, <3>2
      <4> HIDE DEF j
      <4>2. y[i] = ts[j + 1] /\ ts[j + 1] = w[j]
        BY <1>4, <2>2, <4>1
      <4>3. q[j + 1] = z[j] /\ z[j] = w[j]
        BY <2>3, <2>4, <4>1
      <4> QED BY <4>1, <4>2, <4>3
    <3> QED BY <3>1, <3>2
  <2>6. y = q
    BY <2>2, <2>4, <2>5, SeqEqual
  <2> QED BY <2>6 DEF y, q, z
<1>6. ASSUME NEW a \in 1 .. Len(w) + 1 PROVE Rest(ts, a + 1) = Rest(w, a)
  <2> DEFINE y == Rest(ts, a + 1)
             z == Rest(w, a)
             n == Len(w) - a + 1
  <2>1. a \in Nat /\ n \in Nat /\ n = Len(ts) - (a + 1) + 1 /\ a + 1 \in 1 .. Len(ts) + 1
    BY <1>2, <1>4
  <2>2. y \in Seq(TokenSet) /\ Len(y) = n /\ \A i \in 1 .. n : y[i] = ts[(a + 1) + i - 1]
    BY <1>4, <2>1 DEF Rest
  <2>3. z \in Seq(TokenSet) /\ Len(z) = n /\ \A i \in 1 .. n : z[i] = w[a + i - 1]
    BY <1>2, <2>1 DEF Rest
  <2> HIDE DEF y, z
  <2>4. ASSUME NEW i \in 1 .. n PROVE y[i] = z[i]
    <3> DEFINE j == a + i - 1
    <3>1. j \in 1 .. Len(w) /\ (a + 1) + i - 1 = j + 1
      BY <1>2, <2>1
    <3> HIDE DEF j
    <3>2. ts[j + 1] = w[j]
      BY <1>4, <3>1
    <3>3. y[i] = ts[j + 1]
      BY <2>2, <3>1
    <3>4. z[i] = w[j]
      BY <2>3 DEF j
    <3> QED BY <3>2, <3>3, <3>4
  <2> HIDE DEF n
  <2>5. y = z
    BY <2>2, <2>3, <2>4, SeqEqual
  <2> QED BY <2>5 DEF y, z
<1> QED BY <1>4, <1>5, <1>6 DEF ts

LEMMA FourParts ==
  ASSUME NEW x \in Seq(TokenSet), NEW y \in Seq(TokenSet), NEW s \in Seq(TokenSet), NEW z \in Seq(TokenSet)
  PROVE  Cat(Cat(Cat(x, y), s), z) = Cat(x, Cat(Cat(y, s), z))
<1>1. \A a, b, c \in Seq(TokenSet) : Cat(Cat(a, b), c) = Cat(a, Cat(b, c)) /\ Cat(a, b) \in Seq(TokenSet)
  BY CatConcat
<1> QED BY <1>1

LEMMA LogSpliced ==
  ASSUME NEW w \in Seq(TokenSet), NEW a \in 1 .. Len(w) + 1, NEW n \in Nat, a + n <= Len(w) + 1,
         NEW s \in Seq(TokenSet)
  PROVE  Spliced(Logged(w), a + 1, n, s) = Logged(Spliced(w, a, n, s))
<1> DEFINE x == <<StartArray>>
           b == a - 1
           y == SubSeq(w, 1, b)
           z == Rest(w, a + n)
<1>1. /\ Len(w) \in Nat /\ b \in 0 .. Len(w) /\ b + 1 = a /\ (a + 1) - 1 = b + 1
      /\ a + n \in 1 .. Len(w) + 1 /\ (a + 1) + n = (a + n) + 1
  OBVIOUS
<1>2. y \in Seq(TokenSet) /\ z \in Seq(TokenSet) /\ x \in Seq(TokenSet)
  <2>1. y \in Seq(TokenSet)
    BY <1>1, Cut
  <2>2. z \in Seq(TokenSet)
    BY <1>1, RestIs
  <2> QED BY <2>1, <2>2, Brackets
<1>3. SubSeq(Logged(w), 1, (a + 1) - 1) = x \o y
  BY <1>1, LogParts DEF Logged
<1>4. SubSeq(Logged(w), (a + 1) + n, Len(Logged(w))) = z
  BY <1>1, LogParts DEF Rest
<1>5. Spliced(Logged(w), a + 1, n, s) = (x \o y) \o s \o z
  BY <1>3, <1>4 DEF Spliced
<1>6. Spliced(w, a, n, s) = y \o s \o z
  BY DEF Spliced, Rest
<1> HIDE DEF x, y, z, b
<1>7. (x \o y) \o s \o z = x \o (y \o s \o z)
  <2>1. Cat(Cat(Cat(x, y), s), z) = Cat(x, Cat(Cat(y, s), z))
    BY <1>2, FourParts
  <2> QED BY <2>1, Zenon DEF Cat
<1> QED BY <1>5, <1>6, <1>7 DEF Logged, x

\* The texts that may be read: after the first bracket, the tokens nest,
\* or what follows it is not the beginning of a packet.
Fair(w) == w \in Seq(TokenSet) /\ (Open(w, 1) \/ (w # <<>> /\ Head(w).t # "StartObject"))
LogOk(ts) == \E w : ts = Logged(w) /\ Fair(w)

LEMMA SplicedOk ==
  ASSUME NEW w \in Seq(TokenSet), NEW a \in 1 .. Len(w) + 1, NEW n \in Nat, a + n <= Len(w) + 1,
         NEW s \in Seq(TokenSet),
         Spliced(w, a, n, s) \in Seq(TokenSet), Open(Spliced(w, a, n, s), 1)
  PROVE  LogOk(Spliced(Logged(w), a + 1, n, s))
BY LogSpliced DEF LogOk, Fair

\* What a log is made of: the tokens after its first bracket end the array.
Ends(w) == w \in Seq(TokenSet) /\ Nests(w, 1, 0) /\ Len(w) >= 1 /\ w[Len(w)].t = "EndArray"

LEMMA LogPlaces ==
  ASSUME NEW w, Ends(w), NEW i \in 1 .. Len(w) + 1
  PROVE  /\ w \in Seq(TokenSet) /\ Nests(w, 1, 0) /\ Len(w) \in Nat
         /\ i = 1 => Logged(w)[i].t = "StartArray"
         /\ i # 1 => \E a \in 1 .. Len(w) : a + 1 = i /\ Logged(w)[i] = w[a] /\ w[a] \in TokenSet
<1>1. w \in Seq(TokenSet) /\ Nests(w, 1, 0) /\ Len(w) \in Nat
  BY DEF Ends
<1>2. Logged(w)[1].t = "StartArray"
  <2>1. Logged(w)[1] = StartArray
    BY <1>1, LogParts
  <2> QED BY <2>1 DEF StartArray
<1>3. ASSUME i # 1
      PROVE  \E a \in 1 .. Len(w) : a + 1 = i /\ Logged(w)[i] = w[a] /\ w[a] \in TokenSet
  <2> DEFINE a == i - 1
  <2>1. a \in 1 .. Len(w) /\ a + 1 = i
    BY <1>1, <1>3
  <2> HIDE DEF a
  <2>2. Logged(w)[a + 1] = w[a] /\ w[a] \in TokenSet
    BY <1>1, <2>1, LogParts
  <2> QED BY <2>1, <2>2
<1> QED BY <1>1, <1>2, <1>3

LEMMA EditCut ==
  ASSUME NEW w, Ends(w), NEW i \in 1 .. Len(w) + 1
  PROVE  LogOk(SubSeq(Logged(w), 1, i))
<1>1. w \in Seq(TokenSet) /\ Nests(w, 1, 0) /\ Len(w) \in Nat
  BY DEF Ends
<1> DEFINE a == i - 1
           x == SubSeq(w, 1, a)
<1>2. a \in 0 .. Len(w) /\ a + 1 = i
  BY <1>1
<1> HIDE DEF a
<1>3. SubSeq(Logged(w), 1, i) = Logged(x)
  BY <1>1, <1>2, LogParts
<1>4. \E k \in Nat : Nests(x, 1, k)
  BY <1>1, <1>2, NestsCut
<1>5. x \in Seq(TokenSet)
  BY <1>1, <1>2, Cut
<1> HIDE DEF x
<1> QED BY <1>3, <1>4, <1>5 DEF LogOk, Fair, Open

LEMMA EditReplace ==
  ASSUME NEW w, Ends(w), NEW i \in 1 .. Len(w) + 1, IsScalar(Logged(w)[i]), NEW c, Plain(c)
  PROVE  LogOk(Spliced(Logged(w), i, 1, <<c>>))
<1>1. w \in Seq(TokenSet) /\ Nests(w, 1, 0) /\ Len(w) \in Nat /\ 0 \in Nat
  BY DEF Ends
<1>2. i # 1
  <2>1. i = 1 => Logged(w)[i].t = "StartArray"
    BY LogPlaces
  <2> QED BY <2>1 DEF IsScalar
<1>3. PICK a \in 1 .. Len(w) : a + 1 = i /\ Logged(w)[i] = w[a] /\ w[a] \in TokenSet
  BY <1>2, LogPlaces
<1> DEFINE s == <<c>>
<1>4. Plain(w[a])
  BY <1>3 DEF Plain
<1>5. Spliced(w, a, 1, s) \in Seq(TokenSet) /\ Open(Spliced(w, a, 1, s), 1)
  BY <1>1, <1>4, OtherOne
<1>6. s \in Seq(TokenSet)
  BY DEF Plain
<1>7. a \in 1 .. Len(w) + 1 /\ 1 \in Nat /\ a + 1 <= Len(w) + 1
  BY <1>1
<1> HIDE DEF s
<1>8. LogOk(Spliced(Logged(w), a + 1, 1, s))
  BY <1>1, <1>5, <1>6, <1>7, SplicedOk
<1> QED BY <1>3, <1>8 DEF s

LEMMA EditRemove ==
  ASSUME NEW w, Ends(w), NEW i \in 1 .. Len(w) + 1
  PROVE  /\ Logged(w)[i].t = "PropertyName" /\ IsScalar(Logged(w)[i + 1]) =>
              LogOk(Spliced(Logged(w), i, 2, <<>>))
         /\ Logged(w)[i].t = "StartArray" /\ IsScalar(Logged(w)[i + 1])
            /\ Logged(w)[i + 2].t = "EndArray" =>
              LogOk(Spliced(Logged(w), i, 3, <<>>))
<1>1. w \in Seq(TokenSet) /\ Nests(w, 1, 0) /\ Len(w) \in Nat /\ 0 \in Nat
      /\ Len(w) >= 1 /\ w[Len(w)].t = "EndArray" /\ Len(w) \in 1 .. Len(w)
  BY DEF Ends
<1> DEFINE e == <<>>
           ts == Logged(w)
<1>2. e \in Seq(TokenSet)
  OBVIOUS
<1>3. \A b \in 1 .. Len(w) : ts[b + 1] = w[b]
  BY <1>1, LogParts
<1>4. i = 1 => ts[i].t = "StartArray"
  BY LogPlaces
<1>5. i # 1 => \E a \in 1 .. Len(w) : a + 1 = i /\ ts[i] = w[a] /\ w[a] \in TokenSet
  BY LogPlaces
<1> HIDE DEF e, ts
<1>6. ASSUME ts[i].t = "PropertyName", IsScalar(ts[i + 1]) PROVE LogOk(Spliced(ts, i, 2, e))
  <2>1. i # 1
    BY <1>4, <1>6
  <2>2. PICK a \in 1 .. Len(w) : a + 1 = i /\ ts[i] = w[a] /\ w[a] \in TokenSet
    BY <1>5, <2>1
  <2>3. a # Len(w)
    BY <1>1, <1>6, <2>2
  <2>4. a + 1 \in 1 .. Len(w) /\ a + 1 <= Len(w) /\ a \in 1 .. Len(w) + 1 /\ a + 2 <= Len(w) + 1
    BY <1>1, <2>3
  <2>5. w[a].t = "PropertyName" /\ IsScalar(w[a + 1])
    BY <1>3, <1>6, <2>2, <2>4
  <2>6. Spliced(w, a, 2, e) \in Seq(TokenSet) /\ Open(Spliced(w, a, 2, e), 1)
    BY <1>1, <2>4, <2>5, TakenOut DEF e
  <2>7. LogOk(Spliced(Logged(w), a + 1, 2, e))
    BY <1>1, <1>2, <2>4, <2>6, SplicedOk
  <2> QED BY <2>2, <2>7 DEF ts
<1>7. ASSUME ts[i].t = "StartArray", IsScalar(ts[i + 1]), ts[i + 2].t = "EndArray"
      PROVE  LogOk(Spliced(ts, i, 3, e))
  <2>1. i # 1
    <3>1. CASE i = 1
      <4>1. 1 \in 1 .. Len(w) /\ i + 1 = 1 + 1
        BY <1>1, <3>1
      <4>2. IsScalar(w[1]) /\ w[1] \in TokenSet
        BY <1>1, <1>3, <1>7, <4>1
      <4>3. Plain(w[1])
        BY <4>2 DEF Plain
      <4>4. Rest(w, 1) = w
        BY <1>1 DEF Rest
      <4>5. Nests(Rest(w, 1), 1, 0)
        BY <1>1, <4>4
      <4>6. Fits(w[1], 1)
        BY <1>1, <4>1, <4>5, StepAt
      <4> QED BY <4>3, <4>6, PlainLevels
    <3> QED BY <3>1
  <2>2. PICK a \in 1 .. Len(w) : a + 1 = i /\ ts[i] = w[a] /\ w[a] \in TokenSet
    BY <1>5, <2>1
  <2>3. a # Len(w)
    BY <1>1, <1>7, <2>2
  <2>4. a + 1 \in 1 .. Len(w) /\ a + 1 <= Len(w) /\ a \in 1 .. Len(w) + 1
    BY <1>1, <2>3
  <2>5. w[a].t = "StartArray" /\ IsScalar(w[a + 1])
    BY <1>3, <1>7, <2>2, <2>4
  <2>6. a + 1 # Len(w)
    BY <1>1, <2>5 DEF IsScalar
  <2>7. a + 2 \in 1 .. Len(w) /\ a + 2 <= Len(w) /\ (a + 2) + 1 = i + 2 /\ a + 3 <= Len(w) + 1
    BY <1>1, <2>2, <2>4, <2>6
  <2>8. w[a + 2].t = "EndArray"
    BY <1>3, <1>7, <2>7
  <2>9. Spliced(w, a, 3, e) \in Seq(TokenSet) /\ Open(Spliced(w, a, 3, e), 1)
    BY <1>1, <2>5, <2>7, <2>8, TakenOut DEF e
  <2>10. LogOk(Spliced(Logged(w), a + 1, 3, e))
    BY <1>1, <1>2, <2>4, <2>7, <2>9, SplicedOk
  <2> QED BY <2>2, <2>10 DEF ts
<1> QED BY <1>6, <1>7 DEF ts, e

NewOptions == Option(2, <<Integer(1)>>)
Bogus(x) == <<Property("bogus"), x>>

LEMMA AdditionIs ==
  ASSUME NEW ts, NEW i, NEW s \in Additions(ts, i)
  PROVE  \/ ts[i].t = "StartArray" /\ \E x : Plain(x) /\ s = <<x>>
         \/ ts[i].t = "StartArray" /\ Is(ts, i - 1, "options") /\ s = NewOptions
         \/ ts[i].t = "StartObject" /\ \E x : Plain(x) /\ s = Bogus(x)
<1> DEFINE A == {<<x>> : x \in Strays}
           f == Entry("tcpFlag", 6)
           B == IF Is(ts, i - 1, "flags") THEN {<<f>>} ELSE {}
           C == IF Is(ts, i - 1, "options") THEN {NewOptions} ELSE {}
           D == {Bogus(x) : x \in Strays}
           arr == ts[i].t = "StartArray"
           obj == ts[i].t = "StartObject"
<1>1. Additions(ts, i) = CASE arr -> A \cup B \cup C [] obj -> D [] OTHER -> {}
  BY DEF Additions, NewOptions, Bogus
<1>2. ~(arr /\ obj)
  OBVIOUS
<1>3. Plain(f)
  <2>1. 6 \in Nat
    OBVIOUS
  <2>2. f \in StringToken
    BY <2>1, ScalarTokens, TablesHave
  <2> HIDE DEF f
  <2> QED BY <2>2, StringTokens DEF Plain, IsScalar, TokenSet
<1> HIDE DEF A, B, C, D, f, arr, obj
<1>4. CASE arr
  <2>1. s \in A \cup B \cup C
    BY <1>1, <1>2, <1>4
  <2>2. CASE s \in A
    <3>1. PICK x \in Strays : s = <<x>>
      BY <2>2 DEF A
    <3>2. Plain(x)
      BY StrayIs
    <3> QED BY <1>4, <3>1, <3>2 DEF arr
  <2>3. CASE s \in B
    <3>1. s = <<f>>
      BY <2>3 DEF B
    <3> QED BY <1>3, <1>4, <3>1 DEF arr
  <2>4. CASE s \in C
    <3>1. s = NewOptions /\ Is(ts, i - 1, "options")
      BY <2>4 DEF C
    <3> QED BY <1>4, <3>1 DEF arr
  <2> QED BY <2>1, <2>2, <2>3, <2>4
<1>5. CASE obj
  <2>1. s \in D
    BY <1>1, <1>2, <1>5
  <2>2. PICK x \in Strays : s = Bogus(x)
    BY <2>1 DEF D
  <2>3. Plain(x)
    BY StrayIs
  <2> QED BY <1>5, <2>2, <2>3 DEF obj
<1>6. CASE ~arr /\ ~obj
  BY <1>1, <1>6
<1> QED BY <1>4, <1>5, <1>6

\* Something that keeps the level is put after the bracket at a.
LEMMA AddedOk ==
  ASSUME NEW w, Ends(w), NEW a \in 1 .. Len(w), NEW s \in Seq(TokenSet), NEW l \in Nat,
         Nests(Before(w, a + 1), 1, l), Nests(s, l, l), Nests(Rest(w, a + 1), l, 0)
  PROVE  LogOk(Spliced(Logged(w), (a + 1) + 1, 0, s))
<1> DEFINE b == a + 1
<1>1. w \in Seq(TokenSet) /\ b \in 1 .. Len(w) + 1 /\ b \in b .. Len(w) + 1 /\ b - b = 0
      /\ 0 \in Nat /\ b + 0 <= Len(w) + 1
  BY DEF Ends
<1> HIDE DEF b
<1>2. Nests(Before(w, b), 1, l) /\ Open(Rest(w, b), l)
  BY <1>1 DEF Open, b
<1>3. Spliced(w, b, b - b, s) \in Seq(TokenSet) /\ Open(Spliced(w, b, b - b, s), 1)
  BY <1>1, <1>2, Joined
<1>4. Spliced(w, b, 0, s) \in Seq(TokenSet) /\ Open(Spliced(w, b, 0, s), 1)
  BY <1>1, <1>3
<1>5. LogOk(Spliced(Logged(w), b + 1, 0, s))
  BY <1>1, <1>4, SplicedOk
<1> QED BY <1>5 DEF b

LEMMA BogusIs ==
  ASSUME NEW x, Plain(x), NEW l \in 2 .. 3
  PROVE  Bogus(x) \in Seq(TokenSet) /\ Nests(Bogus(x), l, l)
<1> DEFINE q == Property("bogus")
           y == <<q>>
           z == <<x>>
<1>1. q \in PropertyToken /\ q.t = "PropertyName"
  <2>1. q \in PropertyToken
    BY ScalarTokens, WordsHave
  <2> QED BY <2>1 DEF Property
<1>2. q \in TokenSet /\ x \in TokenSet
  BY <1>1 DEF TokenSet, Plain
<1> HIDE DEF q
<1>3. Bogus(x) = y \o z
  BY <1>2, TwoElements DEF Bogus, q
<1>4. y \in Seq(TokenSet) /\ z \in Seq(TokenSet)
  BY <1>2
<1>5. ~Opens(q) /\ ~Closes(q)
  BY <1>1 DEF Opens, Closes
<1>6. After(q, l) = l /\ Fits(q, l)
  BY <1>1, <1>5 DEF After, Fits
<1>7. After(x, l) = l /\ Fits(x, l)
  BY PlainLevels
<1>8. Nests(y, l, l) /\ Nests(z, l, l)
  BY <1>6, <1>7, NestsOne
<1> HIDE DEF y, z
<1>9. y \o z \in Seq(TokenSet) /\ Nests(y \o z, l, l)
  BY <1>4, <1>8, NestsConcat
<1> QED BY <1>3, <1>9

LEMMA EditAdd ==
  ASSUME NEW w, Ends(w), NEW i \in 1 .. Len(w) + 1, NEW s \in Additions(Logged(w), i)
  PROVE  LogOk(Spliced(Logged(w), i + 1, 0, s))
<1>1. w \in Seq(TokenSet) /\ Nests(w, 1, 0) /\ Len(w) \in Nat /\ 0 \in Nat /\ Len(w) >= 1
  BY DEF Ends
<1>2. CASE i = 1
  <2>1. Logged(w)[i].t = "StartArray"
    BY <1>2, LogPlaces
  <2>2. ~Is(Logged(w), i - 1, "options")
    BY <1>2 DEF Is
  <2>3. \E x : Plain(x) /\ s = <<x>>
    BY <2>1, <2>2, AdditionIs
  <2>4. PICK x : Plain(x) /\ s = <<x>>
    BY <2>3
  <2>5. x \in TokenSet /\ x.t # "StartObject"
    BY <2>4 DEF Plain, IsScalar
  <2>6. s \in Seq(TokenSet)
    BY <2>4, <2>5
  <2> DEFINE v == Spliced(w, 1, 0, s)
  <2>7. Spliced(Logged(w), 1 + 1, 0, s) = Logged(v)
    <3>1. 1 \in 1 .. Len(w) + 1 /\ 1 + 0 <= Len(w) + 1
      BY <1>1
    <3> QED BY <1>1, <2>6, <3>1, LogSpliced
  <2>8. v = SubSeq(w, 1, 0) \o s \o SubSeq(w, 1, Len(w))
    BY DEF Spliced
  <2>9. SubSeq(w, 1, 0) = <<>> /\ SubSeq(w, 1, Len(w)) = w
    BY <1>1
  <2>10. v = s \o w
    <3>1. <<>> \o s = s
      BY <2>6
    <3> QED BY <2>8, <2>9, <3>1
  <2> HIDE DEF v
  <2>11. v \in Seq(TokenSet) /\ v # <<>> /\ Head(v) = x
    BY <1>1, <2>4, <2>5, <2>10
  <2> QED BY <1>2, <2>5, <2>7, <2>11 DEF LogOk, Fair
<1>3. CASE i # 1
  <2>1. PICK a \in 1 .. Len(w) : a + 1 = i /\ Logged(w)[i] = w[a] /\ w[a] \in TokenSet
    BY <1>3, LogPlaces
  <2> DEFINE b == a + 1
  <2>2. PICK k \in Nat, l \in Nat :
          /\ Fits(w[a], k) /\ l = After(w[a], k) /\ Nests(Before(w, a), 1, k)
          /\ Nests(Before(w, b), 1, l) /\ Nests(Rest(w, b), l, 0)
    BY <1>1, Inserted
  <2>3. CASE w[a].t = "StartArray" /\ \E x : Plain(x) /\ s = <<x>>
    <3>1. PICK x : Plain(x) /\ s = <<x>>
      BY <2>3
    <3>2. l \in 2 .. 6
      BY <2>1, <2>2, <2>3, OpenedLevel
    <3>3. b \in 1 .. Len(w) + 1 /\ b + 0 <= Len(w) + 1
      BY <1>1
    <3> HIDE DEF b
    <3>4. Spliced(w, b, 0, <<x>>) \in Seq(TokenSet) /\ Open(Spliced(w, b, 0, <<x>>), 1)
      <4>1. Open(Rest(w, b), l)
        BY <1>1, <2>2 DEF Open
      <4> QED BY <1>1, <2>2, <3>1, <3>2, <3>3, <4>1, OneMore
    <3>5. s \in Seq(TokenSet)
      BY <3>1 DEF Plain
    <3>6. LogOk(Spliced(Logged(w), b + 1, 0, s))
      BY <1>1, <3>1, <3>3, <3>4, <3>5, SplicedOk
    <3> QED BY <2>1, <3>6 DEF b
  <2>4. CASE w[a].t = "StartArray" /\ Is(Logged(w), i - 1, "options") /\ s = NewOptions
    <3>1. i - 1 # 1 /\ i - 1 = a /\ Logged(w)[a].t = "PropertyName"
      <4>1. i - 1 = a /\ Logged(w)[a].t = "PropertyName"
        BY <2>1, <2>4 DEF Is
      <4>2. 1 \in 1 .. Len(w) + 1 /\ Logged(w)[1].t = "StartArray"
        BY <1>1, LogPlaces
      <4> QED BY <4>1, <4>2
    <3> DEFINE d == a - 1
    <3>2. d \in 1 .. Len(w) /\ d + 1 = a
      BY <1>1, <3>1
    <3> HIDE DEF d
    <3>3. Logged(w)[d + 1] = w[d] /\ w[d] \in TokenSet
      BY <1>1, <3>2, LogParts
    <3>4. PICK m \in Nat, n \in Nat :
            /\ Fits(w[d], m) /\ n = After(w[d], m) /\ Nests(Before(w, d), 1, m)
            /\ Nests(Before(w, d + 1), 1, n) /\ Nests(Rest(w, d + 1), n, 0)
      BY <1>1, <3>2, Inserted
    <3>5. w[d].t = "PropertyName"
      BY <3>1, <3>2, <3>3
    <3>6. n \in 2 .. 3
      BY <3>3, <3>4, <3>5, OpenedLevel
    <3>7. Nests(Before(w, a), 1, n) /\ Nests(Rest(w, a), n, 0)
      BY <3>2, <3>4
    <3> DEFINE o == After(w[a], n)
    <3>8. o \in Nat /\ Fits(w[a], n) /\ Nests(Rest(w, b), o, 0)
      BY <1>1, <3>7, StepAt
    <3>9. o = n + 1
      BY <2>1, <2>4, <3>6, <3>8, OpenedLevel
    <3>10. o = 3 \/ o = 4
      BY <3>6, <3>9
    <3> HIDE DEF o
    <3>11. Nests(Before(w, b), 1, o)
      <4>1. Nests(<<w[a]>>, n, o)
        BY <3>6, <3>8, NestsOne DEF o
      <4>2. Before(w, b) = Before(w, a) \o <<w[a]>>
        BY <1>1, BeforeNext
      <4> DEFINE x == Before(w, a)
                 y == <<w[a]>>
      <4>3. x \in Seq(TokenSet) /\ y \in Seq(TokenSet)
        <5>1. a \in 1 .. Len(w) + 1
          BY <1>1
        <5> QED BY <1>1, <2>1, <5>1, RestIs
      <4> HIDE DEF x, y
      <4>4. Nests(x \o y, 1, o)
        BY <3>7, <4>1, <4>3, NestsConcat DEF x, y
      <4> QED BY <4>2, <4>4 DEF x, y
    <3>12. s \in Seq(TokenSet) /\ Nests(s, o, o)
      BY <2>4, <3>10, NewOption DEF NewOptions
    <3>13. LogOk(Spliced(Logged(w), (a + 1) + 1, 0, s))
      BY <3>8, <3>11, <3>12, AddedOk
    <3> QED BY <2>1, <3>13
  <2>5. CASE w[a].t = "StartObject" /\ \E x : Plain(x) /\ s = Bogus(x)
    <3>1. PICK x : Plain(x) /\ s = Bogus(x)
      BY <2>5
    <3>2. l \in 2 .. 3
      BY <2>1, <2>2, <2>5, OpenedLevel
    <3>3. s \in Seq(TokenSet) /\ Nests(s, l, l)
      BY <3>1, <3>2, BogusIs
    <3>4. LogOk(Spliced(Logged(w), (a + 1) + 1, 0, s))
      BY <2>2, <3>3, AddedOk
    <3> QED BY <2>1, <3>4
  <2>6. \/ w[a].t = "StartArray" /\ \E x : Plain(x) /\ s = <<x>>
        \/ w[a].t = "StartArray" /\ Is(Logged(w), i - 1, "options") /\ s = NewOptions
        \/ w[a].t = "StartObject" /\ \E x : Plain(x) /\ s = Bogus(x)
    BY <2>1, AdditionIs
  <2> QED BY <2>3, <2>4, <2>5, <2>6
<1> QED BY <1>2, <1>3

(***************************************************************************)
(* Every text that a log may have become is one that may be read.          *)
(***************************************************************************)
LEMMA TableIs ==
  ASSUME NEW x \in Strs, "table" \in DOMAIN x
  PROVE  x.table \in Tables
<1>1. \/ x \in [word : Words] \/ x \in [table : Tables, index : Nat] \/ x \in [address : Quad]
      \/ x \in [bytes : Seq(Byte)] \/ x \in [text : Seq(Byte)]
      \/ x \in [number : Half] \/ x = NoString
  BY DEF Strs, StringStr
<1>2. x \in [table : Tables, index : Nat]
  BY <1>1 DEF NoString
<1> QED BY <1>2

LEMMA EditRename ==
  ASSUME NEW w, Ends(w), NEW i \in 1 .. Len(w) + 1, Logged(w)[i].t = "String",
         "table" \in DOMAIN Logged(w)[i].str, NEW n \in OtherNames
  PROVE  LogOk(Spliced(Logged(w), i, 1, <<Entry(Logged(w)[i].str.table, n)>>))
<1> DEFINE c == Logged(w)[i]
           e == Entry(c.str.table, n)
<1>1. c \in TokenSet
  <2>1. w \in Seq(TokenSet)
    BY DEF Ends
  <2>2. Logged(w) \in Seq(TokenSet) /\ Len(Logged(w)) = Len(w) + 1
    BY <2>1, LogParts
  <2> QED BY <2>2
<1>2. c.t = "String" /\ "table" \in DOMAIN c.str
  OBVIOUS
<1>3. IsScalar(c)
  BY <1>2 DEF IsScalar
<1>4. Plain(e)
  <2> HIDE DEF c
  <2>1. "str" \in DOMAIN c
    BY <1>1, <1>2, TokenKinds
  <2>2. c.str \in Strs
    BY <1>1, <2>1, TokenStr
  <2>3. c.str.table \in Tables
    BY <1>2, <2>2, TableIs
  <2>4. n \in Nat
    BY OtherNamesAssumption
  <2>5. e \in StringToken
    BY <2>3, <2>4, ScalarTokens
  <2>6. e.t = "String"
    BY <2>5 DEF StringToken
  <2> QED BY <2>5, <2>6 DEF Plain, IsScalar, TokenSet
<1> HIDE DEF e
<1>5. LogOk(Spliced(Logged(w), i, 1, <<e>>))
  BY <1>3, <1>4, EditReplace
<1> QED BY <1>5 DEF e

LEMMA EditsOk ==
  ASSUME NEW w, Ends(w), NEW ts \in Edits(Logged(w))
  PROVE  LogOk(ts)
<1> DEFINE log == Logged(w)
           P == DOMAIN log
<1>1. P = 1 .. Len(w) + 1
  <2>1. w \in Seq(TokenSet)
    BY DEF Ends
  <2>2. log \in Seq(TokenSet) /\ Len(log) = Len(w) + 1
    BY <2>1, LogParts
  <2> QED BY <2>2
<1> HIDE DEF log
<1>2. \/ \E i \in P : ts = SubSeq(log, 1, i)
      \/ \E i \in P, s \in Strays : IsScalar(log[i]) /\ ts = Spliced(log, i, 1, <<s>>)
      \/ \E i \in P, n \in OtherNames :
           /\ log[i].t = "String" /\ "table" \in DOMAIN log[i].str
           /\ ts = Spliced(log, i, 1, <<Entry(log[i].str.table, n)>>)
      \/ \E i \in P : \E s \in Additions(log, i) : ts = Spliced(log, i + 1, 0, s)
      \/ \E i \in P : /\ log[i].t = "PropertyName" /\ IsScalar(log[i + 1])
                      /\ ts = Spliced(log, i, 2, <<>>)
      \/ \E i \in P : /\ log[i].t = "StartArray" /\ IsScalar(log[i + 1]) /\ log[i + 2].t = "EndArray"
                      /\ ts = Spliced(log, i, 3, <<>>)
  <2> DEFINE A1 == {SubSeq(log, 1, i) : i \in P}
             A2 == {Spliced(log, i, 1, <<s>>) : i \in {j \in P : IsScalar(log[j])}, s \in Strays}
             A3 == {Spliced(log, i, 1, <<Entry(log[i].str.table, n)>>) :
                      i \in {j \in P : log[j].t = "String" /\ "table" \in DOMAIN log[j].str},
                      n \in OtherNames}
             A4 == UNION {{Spliced(log, i + 1, 0, s) : s \in Additions(log, i)} : i \in P}
             A5 == {Spliced(log, i, 2, <<>>) :
                      i \in {j \in P : log[j].t = "PropertyName" /\ IsScalar(log[j + 1])}}
             A6 == {Spliced(log, i, 3, <<>>) :
                      i \in {j \in P : log[j].t = "StartArray" /\ IsScalar(log[j + 1])
                                       /\ log[j + 2].t = "EndArray"}}
  <2>1. ts \in Edits(log)
    BY DEF log
  <2>2. Edits(log) = A1 \cup A2 \cup A3 \cup A4 \cup A5 \cup A6
    BY DEF Edits
  <2>3. ts \in A1 => \E i \in P : ts = SubSeq(log, 1, i)
    OBVIOUS
  <2>4. ts \in A2 => \E i \in P, s \in Strays : IsScalar(log[i]) /\ ts = Spliced(log, i, 1, <<s>>)
    OBVIOUS
  <2>5. ts \in A3 => \E i \in P, n \in OtherNames :
           /\ log[i].t = "String" /\ "table" \in DOMAIN log[i].str
           /\ ts = Spliced(log, i, 1, <<Entry(log[i].str.table, n)>>)
    OBVIOUS
  <2>6. ts \in A4 => \E i \in P : \E s \in Additions(log, i) : ts = Spliced(log, i + 1, 0, s)
    OBVIOUS
  <2>7. ts \in A5 => \E i \in P : /\ log[i].t = "PropertyName" /\ IsScalar(log[i + 1])
                                  /\ ts = Spliced(log, i, 2, <<>>)
    OBVIOUS
  <2>8. ts \in A6 => \E i \in P : /\ log[i].t = "StartArray" /\ IsScalar(log[i + 1])
                                  /\ log[i + 2].t = "EndArray"
                                  /\ ts = Spliced(log, i, 3, <<>>)
    OBVIOUS
  <2> HIDE DEF A1, A2, A3, A4, A5, A6, P
  <2> QED BY <2>1, <2>2, <2>3, <2>4, <2>5, <2>6, <2>7, <2>8, Zenon
<1>3. ASSUME NEW i \in P, ts = SubSeq(log, 1, i) PROVE LogOk(ts)
  BY <1>1, <1>3, EditCut DEF log
<1>4. ASSUME NEW i \in P, NEW s \in Strays, IsScalar(log[i]), ts = Spliced(log, i, 1, <<s>>)
      PROVE  LogOk(ts)
  <2>1. Plain(s)
    BY StrayIs
  <2> QED BY <1>1, <1>4, <2>1, EditReplace DEF log
<1>5. ASSUME NEW i \in P, NEW n \in OtherNames, log[i].t = "String", "table" \in DOMAIN log[i].str,
             ts = Spliced(log, i, 1, <<Entry(log[i].str.table, n)>>)
      PROVE  LogOk(ts)
  BY <1>1, <1>5, EditRename DEF log
<1>6. ASSUME NEW i \in P, NEW s \in Additions(log, i), ts = Spliced(log, i + 1, 0, s)
      PROVE  LogOk(ts)
  BY <1>1, <1>6, EditAdd DEF log
<1>7. ASSUME NEW i \in P, log[i].t = "PropertyName", IsScalar(log[i + 1]), ts = Spliced(log, i, 2, <<>>)
      PROVE  LogOk(ts)
  BY <1>1, <1>7, EditRemove DEF log
<1>8. ASSUME NEW i \in P, log[i].t = "StartArray", IsScalar(log[i + 1]), log[i + 2].t = "EndArray",
             ts = Spliced(log, i, 3, <<>>)
      PROVE  LogOk(ts)
  BY <1>1, <1>8, EditRemove DEF log
<1> HIDE DEF P
<1> QED BY <1>2, <1>3, <1>4, <1>5, <1>6, <1>7, <1>8, Zenon

LEMMA ArrayIsLog ==
  ASSUME NEW ts \in Seq(TokenSet), Nests(ts, 1, 1)
  PROVE  LET w == ts \o <<EndArray>>
         IN  Array(ts) = Logged(w) /\ Ends(w) /\ Fair(w)
<1> DEFINE a == <<StartArray>>
           e == <<EndArray>>
           w == ts \o e
<1>1. a \in Seq(TokenSet) /\ e \in Seq(TokenSet) /\ Len(e) = 1 /\ e[1] = EndArray
  BY Brackets
<1>2. Nests(e, 1, 0)
  <2>1. EndArray.t = "EndArray"
    BY DEF EndArray
  <2>2. After(EndArray, 1) = 0 /\ Fits(EndArray, 1)
    BY <2>1 DEF After, Fits, Opens, Closes
  <2> QED BY <2>2, NestsOne
<1>3. Array(ts) = a \o ts \o e
  BY DEF Array
<1>4. Logged(w) = a \o w
  BY DEF Logged
<1> HIDE DEF a, e
<1>5. w \in Seq(TokenSet) /\ Nests(w, 1, 0)
  BY <1>1, <1>2, NestsConcat
<1>6. Len(w) = Len(ts) + 1 /\ w[Len(w)] = EndArray /\ Len(ts) \in Nat
  <2>1. Len(ts) \in Nat /\ Len(w) = Len(ts) + 1
    <3>1. Len(ts) \in Nat
      OBVIOUS
    <3>2. Len(w) = Len(ts) + Len(e)
      BY <1>1, Zenon, Concat
    <3> QED BY <1>1, <3>1, <3>2
  <2>2. w[Len(ts) + 1] = e[1]
    BY <1>1, <2>1, ConcatAt
  <2> QED BY <1>1, <2>1, <2>2
<1>7. (a \o ts) \o e = a \o (ts \o e)
  BY <1>1
<1>8. Open(w, 1)
  BY <1>5 DEF Open
<1>9. Array(ts) = Logged(w)
  BY <1>3, <1>4, <1>7
<1> HIDE DEF w
<1>10. Ends(w)
  BY <1>5, <1>6 DEF Ends, EndArray
<1>11. Fair(w)
  BY <1>5, <1>8 DEF Fair
<1> QED BY <1>9, <1>10, <1>11 DEF w, e

\* If a packet begins, its tokens nest.
PacketNests(l) == l # <<>> /\ Head(l).t = "StartObject" => Open(Tail(l), 2)

LEMMA OpenBegins ==
  ASSUME NEW l \in Seq(TokenSet), Open(l, 1)
  PROVE  PacketNests(l)
<1> SUFFICES ASSUME l # <<>>, Head(l).t = "StartObject" PROVE Open(Tail(l), 2)
  BY DEF PacketNests
<1>1. Open(Tail(l), After(Head(l), 1))
  BY OpenTail
<1>2. After(Head(l), 1) = 2
  BY TypeAfterIs, TypeAfterValues
<1> QED BY <1>1, <1>2

LEMMA ReadBegins ==
  ASSUME NEW w, Fair(w), NEW v \in Seq(TokenSet), Len(v) = Len(w),
         \A i \in 1 .. Len(w) : v[i] = Read(w[i])
  PROVE  PacketNests(v)
<1>1. w \in Seq(TokenSet) /\ Len(w) \in Nat
  BY DEF Fair
<1>2. ASSUME NEW i \in 1 .. Len(w) PROVE Alike(w[i], v[i])
  <2>1. w[i] \in TokenSet
    BY <1>1
  <2> QED BY <2>1, ReadIsLike
<1>3. CASE Open(w, 1)
  <2>1. PICK n \in Nat : Nests(w, 1, n)
    BY <1>3 DEF Open
  <2>2. Nests(v, 1, n)
    BY <1>1, <1>2, <2>1, NestsLike
  <2> QED BY <2>2, OpenBegins DEF Open
<1>4. CASE w # <<>> /\ Head(w).t # "StartObject"
  <2>1. 1 \in 1 .. Len(w) /\ Head(w) = w[1] /\ v # <<>> /\ Head(v) = v[1] /\ w[1] \in TokenSet
    BY <1>1, <1>4
  <2>2. Alike(w[1], v[1])
    BY <1>2, <2>1
  <2>3. After(w[1], 1) = After(v[1], 1)
    BY <2>2 DEF Alike
  <2>4. After(w[1], 1) = 2 => w[1].t = "StartArray"
    <3>1. w[1].t # "StartObject"
      BY <1>4, <2>1
    <3> QED BY <3>1 DEF After, Opens, Closes
  <2>5. w[1].t # "String" => v[1] = w[1]
    BY <2>1, ReadIsLike
  <2>6. v[1].t # "StartObject"
    <3> SUFFICES ASSUME v[1].t = "StartObject" PROVE FALSE
      OBVIOUS
    <3>1. After(v[1], 1) = 2
      BY TypeAfterIs, TypeAfterValues
    <3>2. w[1].t = "StartArray"
      BY <2>3, <2>4, <3>1
    <3>3. v[1].t = "StartArray"
      BY <2>5, <3>2
    <3> QED BY <3>3
  <2> QED BY <2>1, <2>6 DEF PacketNests
<1> QED BY <1>3, <1>4 DEF Fair

LEMMA AdvanceLeft ==
  ASSUME NEW s \in State, s.ok, s.left # <<>>
  PROVE  Advance(s).left = Tail(s.left) /\ (Advance(s).ok <=> Head(s.left).t # "Error")
<1> DEFINE c == Head(s.left)
           l == Tail(s.left)
           x == IF "str" \in DOMAIN c THEN c.str ELSE s.str
           b == c.t # "Error"
<1>0. s.left \in Seq(TokenSet) /\ s.str \in Strs
  BY StateHas
<1>1. c \in TokenSet /\ l \in Seq(TokenSet) /\ b \in BOOLEAN
  BY <1>0
<1>2. x \in Strs
  BY <1>0, <1>1, TokenStr
<1>3. Advance(s) = Took(s, c, l, b, x)
  BY DEF Advance, Took
<1> HIDE DEF x, b, c, l
<1>4. Took(s, c, l, b, x).left = l /\ Took(s, c, l, b, x).ok = b
  BY <1>1, <1>2, WithToken
<1> QED BY <1>3, <1>4 DEF l, b, c

LEMMA OpenedBegins ==
  ASSUME NEW ts, LogOk(ts)
  PROVE  LET x == ExpectNextToken(ReaderOf([i \in DOMAIN ts |-> Lexed(Written(ts[i]))]), "StartArray")
         IN  x \in State /\ PacketNests(x.left)
<1> DEFINE z == [i \in DOMAIN ts |-> Lexed(Written(ts[i]))]
           s == ReaderOf(z)
           a == Advance(s)
           x == ExpectNextToken(s, "StartArray")
<1>1. PICK w : ts = Logged(w) /\ Fair(w)
  BY DEF LogOk
<1>2. w \in Seq(TokenSet) /\ Len(w) \in Nat
  BY <1>1 DEF Fair
<1>3. ts \in Seq(TokenSet) /\ Len(ts) = Len(w) + 1 /\ \A i \in 1 .. Len(w) : ts[i + 1] = w[i]
  BY <1>1, <1>2, LogParts
<1>4. ASSUME NEW i \in DOMAIN ts PROVE Read(ts[i]) \in TokenSet
  <2>1. ts[i] \in TokenSet
    BY <1>3
  <2> QED BY <2>1, ReadIsLike
<1>5. z = [i \in DOMAIN ts |-> Read(ts[i])]
  BY DEF Read
<1> HIDE DEF z
<1>6. z \in Seq(TokenSet) /\ Len(z) = Len(w) + 1
  <2>1. DOMAIN ts = 1 .. Len(w) + 1
    BY <1>3
  <2>2. z \in [1 .. Len(w) + 1 -> TokenSet]
    BY <1>4, <1>5, <2>1
  <2>3. Len(w) + 1 \in Nat
    BY <1>2
  <2> QED BY <2>2, <2>3
<1>7. ASSUME NEW i \in 1 .. Len(w) PROVE Tail(z)[i] = Read(w[i])
  <2>1. i + 1 \in DOMAIN ts /\ ts[i + 1] = w[i]
    BY <1>2, <1>3
  <2>2. z[i + 1] = Read(w[i])
    BY <1>5, <2>1
  <2>3. Tail(z)[i] = z[i + 1]
    BY <1>2, <1>6
  <2> QED BY <2>2, <2>3
<1>8. Tail(z) \in Seq(TokenSet) /\ Len(Tail(z)) = Len(w) /\ z # <<>>
  BY <1>2, <1>6
<1>9. PacketNests(Tail(z))
  BY <1>1, <1>7, <1>8, ReadBegins
<1>10. s \in State /\ s.ok /\ s.left = z
  BY <1>6, ReaderOfState
<1> HIDE DEF s
<1>11. a \in State /\ a.left = Tail(z)
  BY <1>8, <1>10, AdvanceIs, AdvanceLeft
<1>12. x \in State /\ x.left = a.left
  BY <1>11, ExpectCurrentTokenIs DEF ExpectNextToken, Same
<1> QED BY <1>9, <1>11, <1>12 DEF s, z

(***************************************************************************)
(* The steps of DeserializePacket: what holds of its state at each place.  *)
(***************************************************************************)
IsTcp(q) == protocol(q) = kProtocolTcp

AtIp(s) == s.buf = <<>> /\ ~s.stale /\ (s.cur.t = "StartObject" => Open(s.left, 2))
AtHeader2(s) == Len(s.buf) = 20 /\ IpBlank(s.buf) /\ ~s.stale /\ Open(s.left, 2)

AtOptions(s) ==
  /\ IsTcp(s.buf) /\ Len(s.buf) >= 40 /\ Blank(s.buf)
  /\ Open(s.left, After(s.cur, 4))
  /\ s.stale => Len(s.buf) > 40

AtDoff(s) ==
  /\ IsTcp(s.buf) /\ Len(s.buf) >= 40 /\ Blank(s.buf)
  /\ Open(s.left, 2)
  /\ s.stale => Len(s.buf) > 40

StaleTcp(s) == s.stale => IsTcp(s.buf) /\ Len(s.buf) >= 44
AtData(s) == Whole(s.buf) /\ Blank(s.buf) /\ Open(s.left, After(s.cur, 2)) /\ StaleTcp(s)
AtAccepted(s) == s.cur.t = "EndObject" /\ Open(s.left, 1) /\ StaleTcp(s) /\ Sealed(s.buf)

LEMMA GrownIs ==
  ASSUME NEW q \in Seq(Byte), NEW K \in Nat, NEW b, Bytes(b, K)
  PROVE  /\ q \o b \in Seq(Byte) /\ Len(q \o b) = Len(q) + K
         /\ Len(q) >= 20 => protocol(q \o b) = protocol(q)
<1>1. b \in Seq(Byte) /\ Len(b) = K /\ Len(q) \in Nat
  BY DEF Bytes
<1>2. q \o b \in Seq(Byte) /\ Len(q \o b) = Len(q) + K
  BY <1>1
<1>3. Len(q) >= 20 => (q \o b)[10] = q[10]
  BY <1>1
<1>4. 9 + 1 = 10
  OBVIOUS
<1> QED BY <1>2, <1>3, <1>4 DEF protocol, At

LEMMA IpBlankGrows ==
  ASSUME NEW q \in Seq(Byte), Len(q) >= 20, NEW K \in Nat, NEW b, Bytes(b, K), IpBlank(q)
  PROVE  IpBlank(q \o b)
<1>1. Len(q) \in Nat /\ Bytes(q, Len(q)) /\ Len(q) >= 12
  BY DEF Bytes
<1> QED BY <1>1, IpBlankConcat

LEMMA TcpWhole ==
  ASSUME NEW q \in Seq(Byte), IsTcp(q), Len(q) >= 40
  PROVE  Whole(q)
<1>1. protocol(q) \notin {kProtocolUdp, kProtocolIcmp} /\ Len(q) >= 20
  BY DEF IsTcp, kProtocolTcp, kProtocolUdp, kProtocolIcmp
<1> QED BY <1>1 DEF Whole

\* Bytes behind the headers leave the checksums clear.
LEMMA BlankGrows ==
  ASSUME NEW q, Whole(q), Blank(q), NEW K \in Nat, NEW b, Bytes(b, K)
  PROVE  Blank(q \o b)
<1> DEFINE x == q \o b
           n == Len(q)
<1>1. q \in Seq(Byte) /\ n \in Nat /\ n >= 20 /\ Bytes(q, n)
  BY DEF Whole, Bytes
<1>2. protocol(x) = protocol(q)
  BY <1>1, GrownIs
<1>3. IpBlank(x)
  BY <1>1, IpBlankGrows DEF Blank
<1>4. \A k \in Nat : Zeros(q, k) /\ k + 2 <= n => Zeros(x, k)
  BY <1>1, ZerosConcat
<1> HIDE DEF x
<1>5. ASSUME protocol(q) = kProtocolTcp PROVE Zeros(x, 36)
  <2>1. 36 \in Nat /\ 36 + 2 <= n /\ Zeros(q, 36)
    BY <1>1, <1>5 DEF Whole, Blank
  <2> QED BY <1>4, <2>1
<1>6. ASSUME protocol(q) = kProtocolUdp PROVE Zeros(x, 26)
  <2>1. 26 \in Nat /\ 26 + 2 <= n /\ Zeros(q, 26)
    BY <1>1, <1>6 DEF Whole, Blank
  <2> QED BY <1>4, <2>1
<1>7. ASSUME protocol(q) = kProtocolIcmp PROVE Zeros(x, 22)
  <2>1. 22 \in Nat /\ 22 + 2 <= n /\ Zeros(q, 22)
    BY <1>1, <1>7 DEF Whole, Blank
  <2> QED BY <1>4, <2>1
<1>8. Blank(x)
  BY <1>2, <1>3, <1>5, <1>6, <1>7 DEF Blank
<1> QED BY <1>8 DEF x

\* The second header after the first.
LEMMA HeaderBlank ==
  ASSUME NEW q \in Seq(Byte), Len(q) = 20, IpBlank(q), NEW K \in Nat, NEW b, Bytes(b, K),
         NEW k \in Nat, k + 2 <= K, 20 + k = Checksum2At(q), Zeros(b, k),
         protocol(q) \in {kProtocolTcp, kProtocolUdp, kProtocolIcmp}
  PROVE  Blank(q \o b)
<1> DEFINE x == q \o b
<1>1. Bytes(q, 20) /\ 20 \in Nat /\ Len(q) >= 20
  BY DEF Bytes
<1>2. protocol(x) = protocol(q)
  BY <1>1, GrownIs
<1>3. IpBlank(x)
  BY <1>1, IpBlankGrows
<1>4. Zeros(x, 20 + k)
  BY <1>1, ZerosConcat
<1> HIDE DEF x
<1>5. Zeros(x, Checksum2At(q))
  BY <1>4
<1>6. Blank(x)
  BY <1>2, <1>3, <1>5, ProtocolPlaces DEF Blank
<1> QED BY <1>6 DEF x

LEMMA DoffBlank ==
  ASSUME NEW q \in Seq(Byte), IsTcp(q), Len(q) >= 40, Blank(q), NEW v, Bytes(v, 1)
  PROVE  Blank(Patched(q, 32, v))
<1> DEFINE x == Patched(q, 32, v)
<1>1. Len(q) \in Nat
  OBVIOUS
<1>2. /\ \A j \in 0 .. 32 - 1 : At(x, j) = At(q, j)
      /\ \A j \in 32 + 1 .. Len(q) - 1 : At(x, j) = At(q, j)
  <2> DEFINE i == 32
             n == 1
  <2>1. i \in Nat /\ n \in Nat /\ i + n <= Len(q) /\ Bytes(v, n)
    BY <1>1
  <2> HIDE DEF i, n
  <2>2. /\ \A j \in 0 .. i - 1 : At(Patched(q, i, v), j) = At(q, j)
        /\ \A j \in i + n .. Len(q) - 1 : At(Patched(q, i, v), j) = At(q, j)
    BY <2>1, PatchedIs
  <2> QED BY <2>2 DEF i, n
<1> HIDE DEF x
<1>3. At(x, 0) = At(q, 0) /\ At(x, 9) = At(q, 9) /\ At(x, 10) = At(q, 10) /\ At(x, 10 + 1) = At(q, 10 + 1)
  BY <1>2
<1>4. At(x, 36) = At(q, 36) /\ At(x, 36 + 1) = At(q, 36 + 1)
  <2>1. 36 \in 32 + 1 .. Len(q) - 1 /\ 36 + 1 \in 32 + 1 .. Len(q) - 1
    BY <1>1
  <2> QED BY <1>2, <2>1
<1>5. protocol(x) = protocol(q) /\ protocol(q) = kProtocolTcp
  BY <1>3 DEF protocol, IsTcp
<1>6. IpBlank(x)
  BY <1>3 DEF Blank, IpBlank, Zeros
<1>7. Zeros(x, 36)
  BY <1>4, <1>5 DEF Blank, Zeros
<1>8. protocol(x) # kProtocolUdp /\ protocol(x) # kProtocolIcmp
  BY <1>5 DEF kProtocolTcp, kProtocolUdp, kProtocolIcmp
<1>9. Blank(x)
  BY <1>6, <1>7, <1>8 DEF Blank
<1> QED BY <1>9 DEF x

LEMMA IpStep ==
  ASSUME NEW s \in State, AtIp(s)
  PROVE  LET x == DeserializeIp4Header(ExpectNextPropertyName(ExpectCurrentToken(s, "StartObject"), "ip"))
         IN  x \in State /\ (x.ok => AtHeader2(x))
<1> DEFINE c == ExpectCurrentToken(s, "StartObject")
           y == ExpectNextPropertyName(c, "ip")
           x == DeserializeIp4Header(y)
<1>1. c \in State /\ Same(s, c) /\ (c.ok => s.ok /\ s.cur.t = "StartObject")
  BY ExpectCurrentTokenIs
<1> HIDE DEF c
<1>2. Goes(s, c, 2, 2, {})
  BY <1>1, SameGoes
<1>3. Goes(c, y, 2, 2, {})
  BY <1>1, NextNameGoes
<1>4. y \in State
  BY <1>3, GoesState
<1> HIDE DEF y
<1>5. Reads(y, x, 2, 2, 20) /\ (x.ok => \E b : Bytes(b, 20) /\ x.buf = y.buf \o b /\ IpBlank(b))
  BY <1>4, Ip4HeaderReads
<1> HIDE DEF x
<1>6. Reads(c, x, 2, 2, 20)
  BY <1>3, <1>5, GoesReads
<1>7. Reads(s, x, 2, 2, 20)
  BY <1>2, <1>6, GoesReads
<1>8. x \in State
  BY <1>7 DEF Reads
<1>9. ASSUME x.ok PROVE AtHeader2(x)
  <2>1. s.cur.t = "StartObject"
    BY <1>1, <1>6, <1>9 DEF Reads
  <2>2. PICK b : Bytes(b, 20) /\ x.buf = y.buf \o b /\ IpBlank(b)
    BY <1>5, <1>9
  <2>3. x.stale = s.stale /\ Open(x.left, 2)
    BY <1>7, <1>9, <2>1 DEF Reads, AtIp
  <2>4. Len(x.buf) = 20 /\ IpBlank(x.buf)
    <3>1. y.ok /\ y.buf = c.buf
      BY <1>3, <1>5, <1>9 DEF Reads, Goes
    <3>2. y.buf = <<>>
      BY <1>1, <3>1 DEF Same, AtIp
    <3>3. b \in Seq(Byte) /\ Len(b) = 20 /\ x.buf = <<>> \o b
      BY <2>2, <3>2 DEF Bytes
    <3>4. x.buf = b
      BY <3>3, ConcatEmpty
    <3> QED BY <2>2, <3>3, <3>4
  <2> QED BY <2>3, <2>4 DEF AtHeader2, AtIp
<1> QED BY <1>8, <1>9 DEF x, y, c

LEMMA TcpStep ==
  ASSUME NEW s \in State, AtHeader2(s), IsTcp(s.buf)
  PROVE  LET f == DeserializeTcpFields(ExpectNextPropertyName(s, "tcp"))
             o == Advance(ExpectNextToken(ExpectCurrentPropertyName(f, "options"), "StartArray"))
         IN  /\ f \in State /\ (f.ok /\ f.cur.t = "EndObject" => AtDoff(f))
             /\ o \in State /\ (o.ok => AtOptions(o))
<1> DEFINE y == ExpectNextPropertyName(s, "tcp")
           f == DeserializeTcpFields(y)
           c == ExpectCurrentPropertyName(f, "options")
           n == ExpectNextToken(c, "StartArray")
           o == Advance(n)
<1>1. Goes(s, y, 2, 2, {})
  BY NextNameGoes
<1>2. y \in State
  BY <1>1, GoesState
<1> HIDE DEF y
<1>3. Reads(y, f, 2, After(f.cur, 3), 20) /\ Clear(y, f, 20, 16)
  BY <1>2, TcpFieldsRead
<1> HIDE DEF f
<1>4. Reads(s, f, 2, After(f.cur, 3), 20)
  BY <1>1, <1>3, GoesReads
<1>5. f \in State
  BY <1>4 DEF Reads
<1>6. ASSUME f.ok
      PROVE  /\ Open(f.left, After(f.cur, 3)) /\ ~f.stale
             /\ IsTcp(f.buf) /\ Len(f.buf) = 40 /\ Blank(f.buf)
  <2>1. f.stale = s.stale /\ Open(f.left, After(f.cur, 3)) /\ y.buf = s.buf
    BY <1>1, <1>3, <1>4, <1>6 DEF Reads, Goes, AtHeader2
  <2>2. PICK b : Bytes(b, 20) /\ f.buf = s.buf \o b /\ Zeros(b, 16)
    BY <1>3, <1>6, <2>1 DEF Clear
  <2>3. s.buf \in Seq(Byte) /\ Len(s.buf) = 20 /\ ~s.stale
    BY StateHas DEF AtHeader2
  <2>7. Blank(s.buf \o b)
    <3>1. Checksum2At(s.buf) = 36
      BY ProtocolPlaces DEF IsTcp
    <3>2. 20 \in Nat /\ 16 \in Nat /\ 16 + 2 <= 20 /\ 20 + 16 = Checksum2At(s.buf)
      BY <3>1
    <3> QED BY <2>2, <2>3, <3>2, HeaderBlank DEF AtHeader2, IsTcp
  <2> DEFINE q == s.buf
  <2> HIDE DEF q
  <2>4. q \in Seq(Byte) /\ Len(q) = 20
    BY <2>3 DEF q
  <2>5. Len(q \o b) = Len(q) + 20 /\ (Len(q) >= 20 => protocol(q \o b) = protocol(q))
    <3>1. 20 \in Nat
      OBVIOUS
    <3> QED BY <2>2, <2>4, <3>1, GrownIs
  <2>6. Len(q) >= 20 /\ Len(q) + 20 = 40
    BY <2>4
  <2> QED BY <2>1, <2>2, <2>3, <2>5, <2>6, <2>7 DEF q, IsTcp
<1>7. ASSUME f.ok, f.cur.t = "EndObject" PROVE AtDoff(f)
  <2>1. After(f.cur, 3) = 2
    BY <1>7, TypeAfterIs, TypeAfterValues
  <2>2. Len(f.buf) = 40 => Len(f.buf) >= 40
    OBVIOUS
  <2> QED BY <1>6, <1>7, <2>1, <2>2 DEF AtDoff
<1>8. c \in State /\ Same(f, c)
      /\ (c.ok => f.ok /\ f.cur.t = "PropertyName")
  BY <1>5, ExpectCurrentPropertyNameIs
<1> HIDE DEF c
<1>9. Goes(c, n, 3, 4, {})
  BY <1>8, NextTokenGoes, TypeAfterValues
<1> HIDE DEF n
<1>10. n \in State
  BY <1>9, GoesState
<1>11. o \in State
  BY <1>10, AdvanceIs
<1>12. ASSUME o.ok PROVE AtOptions(o)
  <2>1. n.ok /\ n.buf = o.buf /\ n.stale = o.stale
    BY <1>10, <1>12, AdvanceIs
  <2>2. Goes(n, o, 4, After(o.cur, 4), {})
    BY <1>10, AdvanceGoes
  <2> HIDE DEF o
  <2>3. c.ok /\ n.buf = c.buf /\ n.stale = c.stale /\ (Open(c.left, 3) => Open(n.left, 4))
    BY <1>9, <2>1 DEF Goes
  <2>4. f.ok /\ f.cur.t = "PropertyName"
        /\ c.left = f.left /\ c.buf = f.buf /\ c.stale = f.stale
    BY <1>8, <2>3 DEF Same
  <2>5. After(f.cur, 3) = 3
    BY <2>4, TypeAfterIs, TypeAfterValues
  <2>6. Open(n.left, 4)
    BY <1>6, <2>3, <2>4, <2>5
  <2>7. Open(o.left, After(o.cur, 4))
    BY <1>12, <2>2, <2>6 DEF Goes
  <2>8. IsTcp(o.buf) /\ Len(o.buf) = 40 /\ Blank(o.buf) /\ ~o.stale
    BY <1>6, <2>1, <2>3, <2>4
  <2>9. Len(o.buf) >= 40
    BY <2>8
  <2> QED BY <2>7, <2>8, <2>9 DEF AtOptions
<1> QED BY <1>5, <1>7, <1>11, <1>12 DEF o, n, c, f, y

LEMMA OptionStep ==
  ASSUME NEW s \in State, AtOptions(s)
  PROVE  LET x == DeserializeTcpOption(s)
         IN  x \in State /\ (x.ok => AtOptions(x))
<1> DEFINE x == DeserializeTcpOption(s)
<1>1. /\ x \in State
      /\ x.ok => /\ s.cur.t = "StartArray" /\ x.cur \in TokenSet
                 /\ Open(s.left, 6) => Open(x.left, After(x.cur, 4))
                 /\ \E k \in Nat \ {0} : \E b : Bytes(b, k) /\ x.buf = s.buf \o b
  BY OptionReads
<1> HIDE DEF x
<1>2. ASSUME x.ok PROVE AtOptions(x)
  <2>1. After(s.cur, 4) = 6
    BY <1>1, <1>2, TypeAfterIs, TypeAfterValues
  <2>2. Open(x.left, After(x.cur, 4))
    BY <1>1, <1>2, <2>1 DEF AtOptions
  <2>0. PICK k \in Nat \ {0} : \E b : Bytes(b, k) /\ x.buf = s.buf \o b
    BY <1>1, <1>2
  <2>3. PICK b : Bytes(b, k) /\ x.buf = s.buf \o b
    BY <2>0
  <2> DEFINE q == s.buf
  <2>4. q \in Seq(Byte) /\ Len(q) >= 40 /\ IsTcp(q)
    BY StateHas DEF AtOptions
  <2>5. x.buf = q \o b
    BY <2>3
  <2> HIDE DEF q
  <2>6. Len(q \o b) = Len(q) + k /\ (Len(q) >= 20 => protocol(q \o b) = protocol(q))
    BY <2>3, <2>4, GrownIs
  <2>7. Len(x.buf) > 40
    BY <2>3, <2>4, <2>5, <2>6
  <2>8. IsTcp(x.buf)
    <3>1. Len(q) >= 20
      BY <2>4
    <3> QED BY <2>4, <2>5, <2>6, <3>1 DEF IsTcp
  <2>9. Len(x.buf) >= 40
    BY <2>3, <2>4, <2>5, <2>6
  <2>10. Blank(x.buf)
    <3>1. Whole(q)
      BY <2>4, TcpWhole
    <3>2. Blank(q)
      BY DEF AtOptions, q
    <3> QED BY <2>3, <2>5, <3>1, <3>2, BlankGrows
  <2> QED BY <2>2, <2>7, <2>8, <2>9, <2>10 DEF AtOptions
<1> QED BY <1>1, <1>2 DEF x

LEMMA OptionsEndStep ==
  ASSUME NEW s \in State, AtOptions(s), s.cur.t = "EndArray"
  PROVE  LET x == ExpectNextToken(s, "EndObject")
         IN  x \in State /\ (x.ok => AtDoff(x))
<1> DEFINE x == ExpectNextToken(s, "EndObject")
<1>1. Goes(s, x, 3, 2, {})
  BY NextTokenGoes, TypeAfterValues
<1> HIDE DEF x
<1>2. After(s.cur, 4) = 3
  BY TypeAfterIs, TypeAfterValues
<1>3. x \in State
  BY <1>1, GoesState
<1>4. ASSUME x.ok PROVE AtDoff(x)
  <2>1. x.buf = s.buf /\ x.stale = s.stale /\ Open(x.left, 2)
    BY <1>1, <1>2, <1>4 DEF Goes, AtOptions
  <2> QED BY <2>1 DEF AtOptions, AtDoff
<1> QED BY <1>3, <1>4 DEF x

LEMMA DoffByte ==
  ASSUME NEW n \in Nat
  PROVE  ((5 + n \div 4) % 16) * 16 \in Byte
<1>1. n \div 4 \in Int
  OBVIOUS
<1> DEFINE k == 5 + n \div 4
<1>2. k \in Int
  BY <1>1
<1> HIDE DEF k
<1>3. k % 16 \in 0 .. 15
  BY <1>2
<1> DEFINE m == k % 16
<1> HIDE DEF m
<1>4. m \in 0 .. 15 => m * 16 \in 0 .. 255
  OBVIOUS
<1> QED BY <1>3, <1>4 DEF k, m, Byte

\* The size of the options is a multiple of 4.
LEMMA FourMore ==
  ASSUME NEW n \in Nat, n > 40, (n - 40) % 4 = 0
  PROVE  n >= 44
OBVIOUS

LEMMA Protocols ==
  ASSUME NEW q, IsTcp(q)
  PROVE  protocol(q) \notin {kProtocolUdp, kProtocolIcmp}
BY DEF IsTcp, kProtocolTcp, kProtocolUdp, kProtocolIcmp

LEMMA DoffStep ==
  ASSUME NEW s \in State, AtDoff(s)
  PROVE  LET n == Len(s.buf) - 40
             d == [s EXCEPT !.buf = Patched(@, 32, <<((5 + n \div 4) % 16) * 16>>)]
             x == Advance(Expect(d, n % 4 = 0))
         IN  x \in State /\ (x.ok => AtData(x))
<1> DEFINE n == Len(s.buf) - 40
           v == <<((5 + n \div 4) % 16) * 16>>
           q == s.buf
           b == Patched(q, 32, v)
           d == [s EXCEPT !.buf = b]
           c == n % 4 = 0
           e == Expect(d, c)
           x == Advance(e)
<1>1. q \in Seq(Byte) /\ Len(q) >= 40 /\ IsTcp(q) /\ Len(q) \in Nat /\ n \in Nat
  BY StateHas DEF AtDoff
<1>2. Bytes(v, 1)
  <2> HIDE DEF n
  <2>1. ((5 + n \div 4) % 16) * 16 \in Byte
    BY <1>1, DoffByte
  <2> DEFINE k == ((5 + n \div 4) % 16) * 16
  <2> HIDE DEF k
  <2>2. k \in Byte => Bytes(<<k>>, 1)
    BY DEF Bytes
  <2> QED BY <2>1, <2>2 DEF k
<1> HIDE DEF v
<1>10. Blank(b)
  <2>1. Blank(q)
    BY DEF AtDoff
  <2> QED BY <1>1, <1>2, <2>1, DoffBlank
<1>3. Alter(q, b)
  <2> HIDE DEF q
  <2>1. 32 \in Nat /\ 1 \in Nat /\ 32 + 1 <= Len(q) /\ 32 >= 10 /\ Len(q) >= 20
    BY <1>1
  <2> QED BY <1>1, <1>2, <2>1, PatchedAlter
<1>4. d = Buffered(s, b)
  BY DEF Buffered
<1> HIDE DEF b, d
<1>5. d \in State /\ d.buf = b /\ d.left = s.left /\ d.stale = s.stale
  <2>1. b \in Seq(Byte)
    BY <1>3 DEF Alter
  <2> QED BY <1>4, <2>1, WithBuf
<1> HIDE DEF c
<1>6. e \in State /\ Same(d, e) /\ (e.ok => c)
  BY <1>5, ExpectIs
<1> HIDE DEF e
<1>7. Goes(e, x, 2, After(x.cur, 2), {})
  BY <1>6, AdvanceGoes
<1> HIDE DEF x
<1>8. x \in State
  BY <1>7, GoesState
<1>9. ASSUME x.ok PROVE AtData(x)
  <2>1. e.ok /\ x.buf = e.buf /\ x.stale = e.stale /\ (Open(e.left, 2) => Open(x.left, After(x.cur, 2)))
    BY <1>7, <1>9 DEF Goes
  <2>2. e.buf = b /\ e.stale = s.stale /\ e.left = s.left /\ c
    BY <1>5, <1>6, <2>1 DEF Same
  <2>3. Open(x.left, After(x.cur, 2)) /\ x.buf = b /\ x.stale = s.stale
    BY <2>1, <2>2 DEF AtDoff
  <2>4. Len(b) = Len(q) /\ IsTcp(b) /\ b \in Seq(Byte)
    BY <1>1, <1>3 DEF Alter, IsTcp
  <2>5. Len(b) >= 20 /\ Len(b) >= 40
    <3> HIDE DEF q, n
    <3> QED BY <1>1, <2>4
  <2>6. Whole(b)
    BY <2>4, <2>5, Protocols DEF Whole
  <2>7. x.stale => Len(b) >= 44
    <3>1. (Len(q) - 40) % 4 = 0
      BY <2>2 DEF c
    <3>2. x.stale => Len(q) > 40
      BY <2>3 DEF AtDoff
    <3> HIDE DEF q, n
    <3> QED BY <1>1, <2>4, <3>1, <3>2, FourMore
  <2> QED BY <1>10, <2>3, <2>4, <2>6, <2>7 DEF AtData, StaleTcp
<1> QED BY <1>8, <1>9 DEF x, e, d, b, v, c

LEMMA HeaderStep ==
  ASSUME NEW s \in State, AtHeader2(s), protocol(s.buf) \in {kProtocolUdp, kProtocolIcmp}, NEW y,
         Reads(s, y, 2, 2, 8), NEW k \in Nat, k + 2 <= 8, 20 + k = Checksum2At(s.buf), Clear(s, y, 8, k)
  PROVE  LET x == Advance(y) IN x \in State /\ (x.ok => AtData(x))
<1> DEFINE x == Advance(y)
<1>1. y \in State
  BY DEF Reads
<1>2. Goes(y, x, 2, After(x.cur, 2), {})
  BY <1>1, AdvanceGoes
<1> HIDE DEF x
<1>3. Reads(s, x, 2, After(x.cur, 2), 8)
  BY <1>2, ReadsGoes
<1>4. x \in State
  BY <1>3 DEF Reads
<1>5. ASSUME x.ok PROVE AtData(x)
  <2>0. y.ok /\ x.buf = y.buf
    BY <1>2, <1>5 DEF Goes
  <2>1. PICK b : Bytes(b, 8) /\ x.buf = s.buf \o b /\ Zeros(b, k)
    BY <2>0 DEF Clear
  <2>8. Blank(s.buf \o b)
    <3>1. 8 \in Nat /\ s.buf \in Seq(Byte)
      BY StateHas
    <3> QED BY <2>1, <3>1, HeaderBlank DEF AtHeader2
  <2>2. Open(x.left, After(x.cur, 2)) /\ ~x.stale
    BY <1>3, <1>5 DEF Reads, AtHeader2
  <2> DEFINE q == s.buf
  <2>3. q \in Seq(Byte) /\ Len(q) = 20 /\ protocol(q) \in {kProtocolUdp, kProtocolIcmp}
        /\ x.buf = q \o b
    BY <2>1, StateHas DEF AtHeader2
  <2> HIDE DEF q
  <2>4. q \o b \in Seq(Byte) /\ Len(q \o b) = Len(q) + 8 /\ (Len(q) >= 20 => protocol(q \o b) = protocol(q))
    <3>1. 8 \in Nat
      OBVIOUS
    <3> QED BY <2>1, <2>3, <3>1, GrownIs
  <2>5. Len(q) >= 20 /\ Len(q) + 8 >= 28 /\ Len(q) + 8 >= 20
    BY <2>3
  <2>6. protocol(q) # kProtocolTcp
    BY <2>3 DEF kProtocolTcp, kProtocolUdp, kProtocolIcmp
  <2>7. Whole(q \o b)
    BY <2>4, <2>5, <2>6 DEF Whole
  <2> QED BY <2>1, <2>2, <2>3, <2>7, <2>8 DEF AtData, StaleTcp
<1> QED BY <1>4, <1>5 DEF x

LEMMA UdpStep ==
  ASSUME NEW s \in State, AtHeader2(s), protocol(s.buf) = kProtocolUdp
  PROVE  LET x == Advance(DeserializeUdpHeader(ExpectNextPropertyName(s, "udp")))
         IN  x \in State /\ (x.ok => AtData(x))
<1> DEFINE c == ExpectNextPropertyName(s, "udp")
           y == DeserializeUdpHeader(c)
<1>1. Goes(s, c, 2, 2, {})
  BY NextNameGoes
<1>2. c \in State
  BY <1>1, GoesState
<1> HIDE DEF c
<1>3. Reads(c, y, 2, 2, 8) /\ Clear(c, y, 8, 6)
  BY <1>2, UdpHeaderReads
<1> HIDE DEF y
<1>4. Reads(s, y, 2, 2, 8)
  BY <1>1, <1>3, GoesReads
<1>5. Clear(s, y, 8, 6)
  BY <1>1, <1>3 DEF Reads, Goes, Clear
<1>6. 6 \in Nat /\ 6 + 2 <= 8 /\ 20 + 6 = Checksum2At(s.buf)
  BY ProtocolPlaces
<1> QED BY <1>4, <1>5, <1>6, HeaderStep DEF y, c

LEMMA IcmpStep ==
  ASSUME NEW s \in State, AtHeader2(s), protocol(s.buf) = kProtocolIcmp
  PROVE  LET x == Advance(DeserializeIcmpHeader(ExpectNextPropertyName(s, "icmp")))
         IN  x \in State /\ (x.ok => AtData(x))
<1> DEFINE c == ExpectNextPropertyName(s, "icmp")
           y == DeserializeIcmpHeader(c)
<1>1. Goes(s, c, 2, 2, {})
  BY NextNameGoes
<1>2. c \in State
  BY <1>1, GoesState
<1> HIDE DEF c
<1>3. Reads(c, y, 2, 2, 8) /\ Clear(c, y, 8, 2)
  BY <1>2, IcmpHeaderReads
<1> HIDE DEF y
<1>4. Reads(s, y, 2, 2, 8)
  BY <1>1, <1>3, GoesReads
<1>5. Clear(s, y, 8, 2)
  BY <1>1, <1>3 DEF Reads, Goes, Clear
<1>6. 2 \in Nat /\ 2 + 2 <= 8 /\ 20 + 2 = Checksum2At(s.buf)
  BY ProtocolPlaces
<1> QED BY <1>4, <1>5, <1>6, HeaderStep DEF y, c

LEMMA NoHeader2Step ==
  ASSUME NEW s \in State, AtHeader2(s),
         protocol(s.buf) \notin {kProtocolTcp, kProtocolUdp, kProtocolIcmp}
  PROVE  LET x == Advance(s) IN x \in State /\ (x.ok => AtData(x))
<1> DEFINE x == Advance(s)
<1>1. Goes(s, x, 2, After(x.cur, 2), {})
  BY AdvanceGoes
<1> HIDE DEF x
<1>2. x \in State
  BY <1>1, GoesState
<1>3. ASSUME x.ok PROVE AtData(x)
  <2>1. x.buf = s.buf /\ ~x.stale /\ Open(x.left, After(x.cur, 2))
    BY <1>1, <1>3 DEF Goes, AtHeader2
  <2>2. s.buf \in Seq(Byte) /\ Len(s.buf) >= 20
    BY StateHas DEF AtHeader2
  <2>3. Whole(s.buf)
    BY <2>2 DEF Whole
  <2>4. Blank(s.buf)
    BY DEF AtHeader2, Blank
  <2> QED BY <2>1, <2>3, <2>4 DEF AtData, StaleTcp
<1> QED BY <1>2, <1>3 DEF x

LEMMA DataStep ==
  ASSUME NEW s \in State, AtData(s)
  PROVE  LET y == IF s.cur.t = "EndObject" THEN s ELSE DeserializeData(s)
             x == [y EXCEPT !.buf = IF y.ok THEN Seal(@) ELSE @]
         IN  x \in State /\ (x.ok => AtAccepted(x))
<1> DEFINE y == IF s.cur.t = "EndObject" THEN s ELSE DeserializeData(s)
           b == IF y.ok THEN Seal(y.buf) ELSE y.buf
           x == [y EXCEPT !.buf = b]
<1> DEFINE Ended(e) == e.cur.t = "EndObject" /\ Open(e.left, 1) /\ StaleTcp(e) /\ Blank(e.buf)
<1>1. y \in State /\ (y.ok => Ended(y) /\ Whole(y.buf))
  <2>1. CASE s.cur.t = "EndObject"
    <3>1. y = s
      BY <2>1
    <3>2. After(s.cur, 2) = 1
      BY <2>1, TypeAfterIs, TypeAfterValues
    <3> QED BY <2>1, <3>1, <3>2 DEF AtData
  <2>2. CASE s.cur.t # "EndObject"
    <3> DEFINE z == DeserializeData(s)
    <3>1. y = z
      BY <2>2
    <3>2. PICK K \in Nat : /\ Reads(s, z, 2, 1, K)
                           /\ z.ok => z.cur.t = "EndObject" /\ s.cur.t = "PropertyName"
      BY DataReads
    <3> HIDE DEF z
    <3>3. z \in State
      BY <3>2 DEF Reads
    <3>4. ASSUME z.ok PROVE Ended(z) /\ Whole(z.buf)
      <4>1. z.cur.t = "EndObject" /\ s.cur.t = "PropertyName" /\ z.stale = s.stale
            /\ (Open(s.left, 2) => Open(z.left, 1))
        BY <3>2, <3>4 DEF Reads
      <4>2. After(s.cur, 2) = 2
        BY <4>1, TypeAfterIs, TypeAfterValues
      <4>3. Open(z.left, 1)
        BY <4>1, <4>2 DEF AtData
      <4>4. PICK e : Bytes(e, K) /\ z.buf = s.buf \o e
        BY <3>2, <3>4 DEF Reads
      <4> DEFINE q == s.buf
      <4>5. Whole(q) /\ Blank(q) /\ StaleTcp(s) /\ z.buf = q \o e
        BY <4>4 DEF AtData
      <4>6. s.stale => IsTcp(q) /\ Len(q) >= 44
        BY <4>5 DEF StaleTcp
      <4> HIDE DEF q
      <4>7. q \in Seq(Byte) /\ Len(q) >= 20 /\ Len(q) \in Nat
        BY <4>5 DEF Whole
      <4>8. q \o e \in Seq(Byte) /\ Len(q \o e) = Len(q) + K /\ protocol(q \o e) = protocol(q)
        BY <4>4, <4>7, GrownIs
      <4>9. \A n \in Nat : Len(q) >= n => Len(q \o e) >= n
        BY <4>7, <4>8
      <4>10. Whole(q \o e)
        BY <4>5, <4>8, <4>9 DEF Whole
      <4>11. StaleTcp(z)
        BY <4>1, <4>5, <4>6, <4>8, <4>9 DEF StaleTcp, IsTcp
      <4>12. Blank(q \o e)
        BY <4>4, <4>5, BlankGrows
      <4> QED BY <4>1, <4>3, <4>5, <4>10, <4>11, <4>12
    <3> QED BY <3>1, <3>3, <3>4
  <2> QED BY <2>1, <2>2
<1> HIDE DEF y
<1>2. b \in Seq(Byte) /\ (y.ok => Alter(y.buf, b) /\ Sealed(b))
  <2>1. CASE y.ok
    <3>1. b = Seal(y.buf)
      BY <2>1
    <3>2. Alter(y.buf, b)
      BY <1>1, <2>1, <3>1, SealIs
    <3>3. Sealed(b)
      BY <1>1, <2>1, <3>1, SealSeals
    <3> QED BY <2>1, <3>2, <3>3 DEF Alter
  <2>2. CASE ~y.ok
    BY <1>1, <2>2, StateHas
  <2> QED BY <2>1, <2>2
<1>3. x = Buffered(y, b)
  BY DEF Buffered
<1>4. [y EXCEPT !.buf = IF y.ok THEN Seal(@) ELSE @] = x
  OBVIOUS
<1> HIDE DEF b, x
<1>5. /\ x \in State /\ x.ok = y.ok /\ x.left = y.left /\ x.cur = y.cur
      /\ x.buf = b /\ x.stale = y.stale
  BY <1>1, <1>2, <1>3, WithBuf
<1>6. ASSUME x.ok PROVE AtAccepted(x)
  <2>1. Ended(y) /\ Alter(y.buf, b) /\ Sealed(b)
    BY <1>1, <1>2, <1>5, <1>6
  <2> QED BY <1>5, <2>1 DEF AtAccepted, StaleTcp, Alter, IsTcp
<1>7. x \in State /\ (x.ok => AtAccepted(x))
  BY <1>5, <1>6
<1> QED BY <1>4, <1>7 DEF y

(***************************************************************************)
(* The invariant of the specification.                                     *)
(***************************************************************************)
ReaderInv ==
  /\ r \in State
  /\ dpc = "next" => PacketNests(r.left)
  /\ dpc = "ip" => AtIp(r)
  /\ dpc = "header2" => AtHeader2(r)
  /\ dpc = "options" => AtOptions(r)
  /\ dpc = "doff" => AtDoff(r)
  /\ dpc = "data" => AtData(r)
  /\ dpc = "accepted" => AtAccepted(r)

PacketInv ==
  /\ SerializeInv
  /\ ReaderInv
  /\ todo \in Seq(Seq(Byte))
  /\ got \in Seq(Seq(Byte))
  /\ SealedExactly

LEMMA ReadIpKeeps == ReaderInv /\ ReadIp => ReaderInv'
<1> SUFFICES ASSUME ReaderInv, ReadIp PROVE ReaderInv'
  OBVIOUS
<1> DEFINE x == DeserializeIp4Header(ExpectNextPropertyName(ExpectCurrentToken(r, "StartObject"), "ip"))
<1>1. r \in State /\ AtIp(r)
  BY DEF ReaderInv, ReadIp
<1>2. x \in State /\ (x.ok => AtHeader2(x))
  BY <1>1, IpStep
<1>3. r' = x /\ dpc' = IF x.ok THEN "header2" ELSE "refused"
  BY DEF ReadIp, Go
<1> HIDE DEF x
<1> QED BY <1>2, <1>3 DEF ReaderInv

LEMMA ReadTcpKeeps == ReaderInv /\ ReadTcp => ReaderInv'
<1> SUFFICES ASSUME ReaderInv, ReadTcp PROVE ReaderInv'
  OBVIOUS
<1> DEFINE x == DeserializeTcpFields(ExpectNextPropertyName(r, "tcp"))
           o == Advance(ExpectNextToken(ExpectCurrentPropertyName(x, "options"), "StartArray"))
<1>1. r \in State /\ AtHeader2(r) /\ IsTcp(r.buf)
  BY DEF ReaderInv, ReadTcp, IsTcp
<1>2. /\ x \in State /\ (x.ok /\ x.cur.t = "EndObject" => AtDoff(x))
      /\ o \in State /\ (o.ok => AtOptions(o))
  BY <1>1, TcpStep
<1>3. IF x.ok /\ x.cur.t = "EndObject" THEN Go(x, "doff") ELSE Go(o, "options")
  BY DEF ReadTcp
<1> HIDE DEF x, o
<1>4. CASE x.ok /\ x.cur.t = "EndObject"
  BY <1>2, <1>3, <1>4 DEF ReaderInv, Go
<1>5. CASE ~(x.ok /\ x.cur.t = "EndObject")
  BY <1>2, <1>3, <1>5 DEF ReaderInv, Go
<1> QED BY <1>4, <1>5

LEMMA ReadOptionKeeps == ReaderInv /\ (ReadOption \/ ReadOptionsEnd) => ReaderInv'
<1>1. ASSUME ReaderInv, ReadOption PROVE ReaderInv'
  <2> DEFINE x == DeserializeTcpOption(r)
  <2>1. r \in State /\ AtOptions(r)
    BY <1>1 DEF ReaderInv, ReadOption
  <2>2. x \in State /\ (x.ok => AtOptions(x))
    BY <2>1, OptionStep
  <2>3. r' = x /\ dpc' = IF x.ok THEN "options" ELSE "refused"
    BY <1>1 DEF ReadOption, Go
  <2> HIDE DEF x
  <2> QED BY <2>2, <2>3 DEF ReaderInv
<1>2. ASSUME ReaderInv, ReadOptionsEnd PROVE ReaderInv'
  <2> DEFINE x == ExpectNextToken(r, "EndObject")
  <2>1. r \in State /\ AtOptions(r) /\ r.cur.t = "EndArray"
    BY <1>2 DEF ReaderInv, ReadOptionsEnd
  <2>2. x \in State /\ (x.ok => AtDoff(x))
    BY <2>1, OptionsEndStep
  <2>3. r' = x /\ dpc' = IF x.ok THEN "doff" ELSE "refused"
    BY <1>2 DEF ReadOptionsEnd, Go
  <2> HIDE DEF x
  <2> QED BY <2>2, <2>3 DEF ReaderInv
<1> QED BY <1>1, <1>2

LEMMA ReadDoffKeeps == ReaderInv /\ ReadDoff => ReaderInv'
<1> SUFFICES ASSUME ReaderInv, ReadDoff PROVE ReaderInv'
  OBVIOUS
<1> DEFINE n == Len(r.buf) - 40
           d == [r EXCEPT !.buf = Patched(@, 32, <<((5 + n \div 4) % 16) * 16>>)]
           x == Advance(Expect(d, n % 4 = 0))
<1>1. r \in State /\ AtDoff(r)
  BY DEF ReaderInv, ReadDoff
<1>2. x \in State /\ (x.ok => AtData(x))
  BY <1>1, DoffStep
<1>3. Go(x, "data")
  BY DEF ReadDoff
<1> HIDE DEF x
<1> QED BY <1>2, <1>3 DEF ReaderInv, Go

LEMMA ReadHeader2Keeps == ReaderInv /\ (ReadUdp \/ ReadIcmp \/ ReadNoHeader2) => ReaderInv'
<1>1. ASSUME ReaderInv, ReadUdp PROVE ReaderInv'
  <2> DEFINE x == Advance(DeserializeUdpHeader(ExpectNextPropertyName(r, "udp")))
  <2>1. r \in State /\ AtHeader2(r) /\ protocol(r.buf) = kProtocolUdp
    BY <1>1 DEF ReaderInv, ReadUdp
  <2>2. x \in State /\ (x.ok => AtData(x))
    BY <2>1, UdpStep
  <2>3. r' = x /\ dpc' = IF x.ok THEN "data" ELSE "refused"
    BY <1>1 DEF ReadUdp, Go
  <2> HIDE DEF x
  <2> QED BY <2>2, <2>3 DEF ReaderInv
<1>2. ASSUME ReaderInv, ReadIcmp PROVE ReaderInv'
  <2> DEFINE x == Advance(DeserializeIcmpHeader(ExpectNextPropertyName(r, "icmp")))
  <2>1. r \in State /\ AtHeader2(r) /\ protocol(r.buf) = kProtocolIcmp
    BY <1>2 DEF ReaderInv, ReadIcmp
  <2>2. x \in State /\ (x.ok => AtData(x))
    BY <2>1, IcmpStep
  <2>3. r' = x /\ dpc' = IF x.ok THEN "data" ELSE "refused"
    BY <1>2 DEF ReadIcmp, Go
  <2> HIDE DEF x
  <2> QED BY <2>2, <2>3 DEF ReaderInv
<1>3. ASSUME ReaderInv, ReadNoHeader2 PROVE ReaderInv'
  <2> DEFINE x == Advance(r)
  <2>1. r \in State /\ AtHeader2(r) /\ protocol(r.buf) \notin {kProtocolTcp, kProtocolUdp, kProtocolIcmp}
    BY <1>3 DEF ReaderInv, ReadNoHeader2
  <2>2. x \in State /\ (x.ok => AtData(x))
    BY <2>1, NoHeader2Step
  <2>3. r' = x /\ dpc' = IF x.ok THEN "data" ELSE "refused"
    BY <1>3 DEF ReadNoHeader2, Go
  <2> HIDE DEF x
  <2> QED BY <2>2, <2>3 DEF ReaderInv
<1> QED BY <1>1, <1>2, <1>3

LEMMA ReadDataKeeps == ReaderInv /\ ReadData => ReaderInv'
<1> SUFFICES ASSUME ReaderInv, ReadData PROVE ReaderInv'
  OBVIOUS
<1> DEFINE y == IF r.cur.t = "EndObject" THEN r ELSE DeserializeData(r)
           x == [y EXCEPT !.buf = IF y.ok THEN Seal(@) ELSE @]
<1>1. r \in State /\ AtData(r)
  BY DEF ReaderInv, ReadData
<1>2. x \in State /\ (x.ok => AtAccepted(x))
  BY <1>1, DataStep
<1>3. Go(x, "accepted")
  BY DEF ReadData
<1> HIDE DEF x
<1> QED BY <1>2, <1>3 DEF ReaderInv, Go

LEMMA DeserializeKeeps == ReaderInv /\ DeserializeStep => ReaderInv'
BY ReadIpKeeps, ReadTcpKeeps, ReadOptionKeeps, ReadDoffKeeps, ReadHeader2Keeps, ReadDataKeeps
DEF DeserializeStep

LEMMA OpenLogKeeps == SerializeInv /\ OpenLog => ReaderInv'
<1> SUFFICES ASSUME SerializeInv, OpenLog PROVE ReaderInv'
  OBVIOUS
<1> DEFINE w == calls \o <<EndArray>>
           log == Array(calls)
<1>1. log = Logged(w) /\ Ends(w) /\ Fair(w)
  <2>1. SerializeLevel = 1
    BY DEF OpenLog, SerializeLevel
  <2>2. calls \in Seq(TokenSet) /\ Nests(calls, 1, 1)
    BY <2>1 DEF SerializeInv
  <2> QED BY <2>2, ArrayIsLog
<1>2. PICK ts \in {log} \cup Edits(log) :
        r' = ExpectNextToken(ReaderOf([i \in DOMAIN ts |-> Lexed(Written(ts[i]))]), "StartArray")
  BY Zenon DEF OpenLog
<1> HIDE DEF w, log
<1>3. LogOk(ts)
  <2>1. CASE ts = log
    BY <1>1, <2>1 DEF LogOk
  <2>2. CASE ts \in Edits(log)
    BY <1>1, <2>2, EditsOk
  <2> QED BY <1>2, <2>1, <2>2
<1>4. r' \in State /\ PacketNests((r').left)
  BY <1>2, <1>3, OpenedBegins
<1>5. dpc' = "next"
  BY DEF OpenLog
<1> QED BY <1>4, <1>5 DEF ReaderInv

LEMMA NextPacketKeeps == ReaderInv /\ NextPacket => ReaderInv'
<1> SUFFICES ASSUME ReaderInv, NextPacket PROVE ReaderInv'
  OBVIOUS
<1> DEFINE o == ReaderOf(r.left)
           s == [o EXCEPT !.str = r.str]
           x == Advance(s)
<1>1. r \in State /\ PacketNests(r.left) /\ r' = x /\ dpc' = "ip"
  BY DEF ReaderInv, NextPacket
<1>2. r.left \in Seq(TokenSet) /\ r.str \in Strs
  BY <1>1, StateHas
<1>3. o \in State /\ o.ok = TRUE /\ o.left = r.left /\ o.buf = <<>> /\ o.stale = FALSE
  BY <1>2, ReaderOfState
<1> HIDE DEF o
<1>4. s \in State /\ s.ok /\ s.left = r.left /\ s.buf = <<>> /\ s.stale = FALSE
  BY <1>2, <1>3 DEF State
<1> HIDE DEF s
<1>5. x \in State
  BY <1>4, AdvanceIs
<1>6. x.ok
  <2>1. r.left # <<>> /\ Head(r.left).t # "Error"
    BY DEF NextPacket, NoMorePackets
  <2> QED BY <1>3, <1>4, <2>1, AdvanceLeft
<1>7. x.cur = Head(r.left) /\ x.left = Tail(r.left) /\ x.buf = <<>> /\ x.stale = FALSE /\ r.left # <<>>
  BY <1>4, <1>6, AdvanceIs
<1> HIDE DEF x
<1>8. AtIp(x)
  BY <1>1, <1>7 DEF AtIp, PacketNests
<1> QED BY <1>1, <1>5, <1>8 DEF ReaderInv

LEMMA SerializeInvKept ==
  ASSUME SerializeInv, pc' \notin {"header2", "options", "data"}, pc \notin {"header2", "options", "data"},
         packet' \in Seq(Byte), UNCHANGED <<calls, pack>>
  PROVE  SerializeInv'
<1>1. SerializeLevel = 1 /\ SerializeLevel' = 1
  BY DEF SerializeLevel
<1>2. calls' = calls /\ pack' = pack
  OBVIOUS
<1>3. calls \in Seq(TokenSet) /\ Nests(calls, 1, 1) /\ pack = Count(Tcp, calls) + 0
  BY <1>1 DEF SerializeInv
<1>4. pc # "options" /\ pc' # "options"
  OBVIOUS
<1> QED BY <1>1, <1>2, <1>3, <1>4 DEF SerializeInv

LEMMA PacketInit == Init => PacketInv
<1> SUFFICES ASSUME Init PROVE PacketInv
  OBVIOUS
<1>1. todo \in Seq(Seq(Byte)) /\ got \in Seq(Seq(Byte))
  BY LogsAssumption DEF Init
<1>2. SerializeInv
  <2>1. pc = "serialized" /\ packet = <<>> /\ calls = <<>> /\ pack = 0
    BY DEF Init
  <2>2. SerializeLevel = 1
    BY <2>1 DEF SerializeLevel
  <2>3. packet \in Seq(Byte) /\ calls \in Seq(TokenSet)
    BY <2>1
  <2>4. Nests(calls, 1, 1)
    BY <2>1, NestsEmpty
  <2>5. Count(Tcp, calls) = 0
    BY <2>1, CountEmpty
  <2> QED BY <2>1, <2>2, <2>3, <2>4, <2>5 DEF SerializeInv
<1>3. ReaderInv
  <2>1. dpc = "next" /\ r = ReaderOf(<<>>)
    BY DEF Init
  <2>2. <<>> \in Seq(TokenSet)
    OBVIOUS
  <2>3. r \in State /\ r.left = <<>>
    BY <2>1, <2>2, ReaderOfState
  <2> QED BY <2>1, <2>3 DEF ReaderInv, PacketNests
<1>4. SealedExactly
  <2>1. got = <<>>
    BY DEF Init
  <2>2. DOMAIN got = {}
    BY <2>1
  <2> QED BY <2>2 DEF SealedExactly
<1> QED BY <1>1, <1>2, <1>3, <1>4 DEF PacketInv

LEMMA PacketStep == PacketInv /\ [Next]_vars => PacketInv'
<1> SUFFICES ASSUME PacketInv, [Next]_vars PROVE PacketInv'
  OBVIOUS
<1>1. SerializeInv /\ ReaderInv /\ todo \in Seq(Seq(Byte)) /\ got \in Seq(Seq(Byte)) /\ SealedExactly
  BY DEF PacketInv
<1>0. got' = got => SealedExactly'
  BY <1>1 DEF SealedExactly
<1>2. CASE LogPacket
  <2>1. todo # <<>> /\ packet' = Head(todo) /\ todo' = Tail(todo) /\ UNCHANGED <<calls, pack>>
        /\ pc = "serialized" /\ pc' = "serialize" /\ UNCHANGED <<dpc, r, got>>
    BY <1>2 DEF LogPacket
  <2>2. packet' \in Seq(Byte) /\ todo' \in Seq(Seq(Byte))
    BY <1>1, <2>1
  <2>3. SerializeInv'
    BY <1>1, <2>1, <2>2, SerializeInvKept
  <2>4. ReaderInv'
    BY <1>1, <2>1 DEF ReaderInv
  <2> QED BY <1>0, <1>1, <2>1, <2>2, <2>3, <2>4 DEF PacketInv
<1>3. CASE Serialize
  <2>1. SerializeStep /\ UNCHANGED <<dpc, r, todo, got>>
    BY <1>3 DEF Serialize, envVars
  <2>2. SerializeInv'
    BY <1>1, <2>1, SerializeKeeps
  <2>3. ReaderInv'
    BY <1>1, <2>1 DEF ReaderInv
  <2> QED BY <1>0, <1>1, <2>1, <2>2, <2>3 DEF PacketInv
<1>4. CASE OpenLog
  <2>1. ReaderInv'
    BY <1>1, <1>4, OpenLogKeeps
  <2>2. pc = "serialized" /\ pc' = "playing" /\ UNCHANGED <<packet, calls, pack, todo, got>>
    BY <1>4 DEF OpenLog
  <2>3. packet' \in Seq(Byte)
    BY <1>1, <2>2 DEF SerializeInv
  <2>4. SerializeInv'
    BY <1>1, <2>2, <2>3, SerializeInvKept
  <2> QED BY <1>0, <1>1, <2>1, <2>2, <2>4 DEF PacketInv
<1>5. CASE NextPacket
  <2>1. ReaderInv'
    BY <1>1, <1>5, NextPacketKeeps
  <2>2. UNCHANGED <<pc, packet, calls, pack, p, todo, got>>
    BY <1>5 DEF NextPacket, envVars
  <2>3. SerializeInv'
    BY <1>1, <2>2 DEF SerializeInv, SerializeLevel, h
  <2> QED BY <1>0, <1>1, <2>1, <2>2, <2>3 DEF PacketInv
<1>6. CASE Deserialize
  <2>1. DeserializeStep /\ UNCHANGED <<pc, packet, calls, pack, p, todo, got>>
    BY <1>6 DEF Deserialize, envVars
  <2>2. ReaderInv'
    BY <1>1, <2>1, DeserializeKeeps
  <2>3. SerializeInv'
    BY <1>1, <2>1 DEF SerializeInv, SerializeLevel, h
  <2> QED BY <1>0, <1>1, <2>1, <2>2, <2>3 DEF PacketInv
<1>7. CASE SendPacket
  <2>1. /\ dpc = "accepted" /\ dpc' = "next" /\ got' = Append(got, r.buf)
        /\ UNCHANGED <<pc, packet, calls, pack, p, r, todo>>
    BY <1>7 DEF SendPacket
  <2>2. r \in State /\ Open(r.left, 1)
    BY <1>1, <2>1 DEF ReaderInv, AtAccepted
  <2>3. r.buf \in Seq(Byte) /\ r.left \in Seq(TokenSet)
    BY <2>2, StateHas
  <2>4. PacketNests(r.left)
    BY <2>2, <2>3, OpenBegins
  <2>5. ReaderInv'
    BY <2>1, <2>2, <2>4 DEF ReaderInv
  <2>6. got' \in Seq(Seq(Byte))
    BY <1>1, <2>1, <2>3
  <2>7. SerializeInv'
    BY <1>1, <2>1 DEF SerializeInv, SerializeLevel, h
  <2>8. SealedExactly'
    <3>1. Sealed(r.buf)
      BY <1>1, <2>1 DEF ReaderInv, AtAccepted
    <3>2. ASSUME NEW i \in DOMAIN got' PROVE Sealed(got'[i])
      <4>1. (i \in DOMAIN got /\ got'[i] = got[i]) \/ got'[i] = r.buf
        BY <1>1, <2>1, <2>3
      <4> QED BY <1>1, <3>1, <4>1 DEF SealedExactly
    <3> QED BY <3>2 DEF SealedExactly
  <2> QED BY <1>1, <2>1, <2>5, <2>6, <2>7, <2>8 DEF PacketInv
<1>8. CASE EndOfLog
  <2>1. pc = "playing" /\ pc' = "played" /\ UNCHANGED <<packet, calls, pack, dpc, r, todo, got>>
    BY <1>8 DEF EndOfLog, envVars
  <2>2. packet' \in Seq(Byte)
    BY <1>1, <2>1 DEF SerializeInv
  <2>3. SerializeInv'
    BY <1>1, <2>1, <2>2, SerializeInvKept
  <2>4. ReaderInv'
    BY <1>1, <2>1 DEF ReaderInv
  <2> QED BY <1>0, <1>1, <2>1, <2>3, <2>4 DEF PacketInv
<1>9. CASE LogAgain
  <2>1. /\ pc' = "serialized" /\ todo' = got /\ got' = <<>> /\ calls' = <<>> /\ pack' = 0
        /\ UNCHANGED <<packet, dpc, r>>
    BY <1>9 DEF LogAgain
  <2>2. SerializeInv'
    <3>1. SerializeLevel' = 1
      BY <2>1 DEF SerializeLevel
    <3>2. packet' \in Seq(Byte) /\ calls' \in Seq(TokenSet)
      BY <1>1, <2>1 DEF SerializeInv
    <3>3. Nests(calls', 1, 1) /\ Count(Tcp, calls') = 0
      BY <2>1, NestsEmpty, CountEmpty
    <3> QED BY <2>1, <3>1, <3>2, <3>3 DEF SerializeInv
  <2>3. ReaderInv'
    BY <1>1, <2>1 DEF ReaderInv
  <2>4. got' \in Seq(Seq(Byte))
    BY <2>1
  <2>5. SealedExactly'
    <3>1. DOMAIN got' = {}
      BY <2>1
    <3> QED BY <3>1 DEF SealedExactly
  <2> QED BY <1>1, <2>1, <2>2, <2>3, <2>4, <2>5 DEF PacketInv
<1>10. CASE UNCHANGED vars
  <2>1. UNCHANGED <<pc, packet, calls, pack, p, dpc, r, todo, got>>
    BY <1>10 DEF vars, envVars
  <2>2. SerializeInv'
    BY <1>1, <2>1 DEF SerializeInv, SerializeLevel, h
  <2>3. ReaderInv'
    BY <1>1, <2>1 DEF ReaderInv
  <2> QED BY <1>0, <1>1, <2>1, <2>2, <2>3 DEF PacketInv
<1> QED BY <1>2, <1>3, <1>4, <1>5, <1>6, <1>7, <1>8, <1>9, <1>10 DEF Next

LEMMA PacketAlways == Spec => []PacketInv
BY PacketInit, PacketStep, PTL DEF Spec

(***************************************************************************)
(* Theorems.                                                               *)
(***************************************************************************)
\* What SerializePacket leaves of the writer's pack_, packet after packet
\* through the same JsonWriter: one level for every TCP header that was
\* written and none for anything else, whatever the bytes of the packets.
THEOREM PacketPackDepth == Spec => []PackDepth
<1>1. PacketInv => PackDepth
  <2> SUFFICES ASSUME PacketInv, pc = "serialized" PROVE pack = Count(Property("tcp"), calls)
    BY DEF PackDepth
  <2>1. pack = Count(Tcp, calls) + 0 /\ Count(Tcp, calls) \in Nat
    BY PackTyped DEF PacketInv, SerializeInv
  <2> QED BY <2>1 DEF Tcp
<1> QED BY <1>1, PacketAlways, PTL

\* When DeserializePacket returns true the reader is at the EndObject that
\* ends the packet, and the next token begins another packet or ends the
\* array: for the log of any packets, and for every text that one edit makes
\* of it.
THEOREM PacketReaderAtEnd == Spec => []ReaderAtEnd
<1>1. PacketInv => ReaderAtEnd
  <2> SUFFICES ASSUME PacketInv, dpc = "accepted"
               PROVE  r.cur.t = "EndObject" /\ (r.left # <<>> => Head(r.left) \in {StartObject, EndArray})
    BY DEF ReaderAtEnd
  <2>1. r \in State /\ r.cur.t = "EndObject" /\ Open(r.left, 1)
    BY DEF PacketInv, ReaderInv, AtAccepted
  <2>2. r.left \in Seq(TokenSet)
    BY <2>1, StateHas
  <2>3. ASSUME r.left # <<>> PROVE Head(r.left) \in {StartObject, EndArray}
    <3> DEFINE c == Head(r.left)
    <3>1. Fits(c, 1) /\ c \in TokenSet
      BY <2>1, <2>2, <2>3, OpenTail
    <3> HIDE DEF c
    <3>2. c.t \in {"StartObject", "EndArray"}
      BY <3>1 DEF Fits
    <3> QED BY <3>1, <3>2, TokenKinds DEF c
  <2> QED BY <2>1, <2>3
<1> QED BY <1>1, PacketAlways, PTL

\* A name that ExpectNextEnumValue takes from a token that has no text can
\* only be that of a TCP option: in no other header does a lookup succeed on
\* what an earlier token left in str_value_.
THEOREM PacketStaleNames == Spec => []StaleNames
<1>1. PacketInv => StaleNames
  BY DEF PacketInv, ReaderInv, AtAccepted, StaleTcp, IsTcp, StaleNames
<1> QED BY <1>1, PacketAlways, PTL

\* Every packet that playbacktun gets of a log, whatever the log and whatever
\* one edit makes of it, passes a receiver's checks if and only if one folding
\* of the sum was enough for each of its checksums, the first at byte 10 and
\* that of its protocol at 22, 26 or 36 (in packets of at most 65535 bytes,
\* as IP has them), and has its length in its header if and only if it is
\* shorter than 256 bytes.
THEOREM PacketSealedExactly == Spec => []SealedExactly
<1>1. PacketInv => SealedExactly
  BY DEF PacketInv
<1> QED BY <1>1, PacketAlways, PTL

\* Nothing but a second folding and a length of 256 bytes makes a checksum or
\* the total length of a packet wrong that DeserializePacket has made.
THEOREM PacketSealedRight == Spec => []SealedRight
<1>1. SealedExactly => SealedRight
  BY DEF SealedExactly, SealedRight, Sealed
<1> QED BY <1>1, PacketSealedExactly, PTL
=============================================================================
