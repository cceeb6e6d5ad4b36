--------------------------- MODULE JsonPipeProofs ---------------------------
(***************************************************************************)
(* Theorems about JsonReader, about JsonWriter, and about what the one     *)
(* reads of what the other has written, for every text.                    *)
(***************************************************************************)
EXTENDS JsonPipe, TextLemmas

(***************************************************************************)
(* Squeeze and Canonical of JsonLexemes, one token at a time.              *)
(***************************************************************************)
LEMMA SqueezeIs == ASSUME NEW t PROVE Squeeze(t) = Without(t, {Space})
BY DEF Squeeze, Without, Pieces, Piece

LEMMA SqueezeConcat ==
  ASSUME NEW a \in Seq(Lexeme), NEW b \in Seq(Lexeme)
  PROVE  /\ a \o b \in Seq(Lexeme)
         /\ Squeeze(a \o b) = Squeeze(a) \o Squeeze(b)
         /\ Squeeze(a) \in Seq(Lexeme)
<1>1. a \o b \in Seq(Lexeme)
  BY Concat
<1>2. Without(a \o b, {Space}) = Without(a, {Space}) \o Without(b, {Space})
  BY WithoutConcat
<1>3. Without(a, {Space}) \in Seq(Lexeme)
  BY WithoutType
<1> QED BY <1>1, <1>2, <1>3, SqueezeIs

LEMMA SqueezeSmall ==
  /\ Squeeze(<<>>) = <<>>
  /\ \A x \in Lexeme : x # Space => Squeeze(<<x>>) = <<x>>
  /\ Squeeze(<<Space>>) = <<>>
<1>1. Space \in Lexeme
  BY DEF Space, Punct, Lexeme
<1> QED BY <1>1, SqueezeIs, WithoutEmpty, WithoutOne DEF Piece

\* A text of nothing but white space.
LEMMA SqueezeSpaces ==
  ASSUME NEW p \in Seq(Lexeme), \A i \in 1..Len(p) : p[i] = Space
  PROVE  Squeeze(p) = <<>>
<1> DEFINE N == {n \in Nat : \A q \in Seq(Lexeme) :
                  (Len(q) = n /\ \A i \in 1..n : q[i] = Space) => Squeeze(q) = <<>>}
<1>1. 0 \in N
  <2> SUFFICES ASSUME NEW q \in Seq(Lexeme), Len(q) = 0 PROVE Squeeze(q) = <<>>
    OBVIOUS
  <2>1. q = <<>>
    OBVIOUS
  <2> QED BY <2>1, SqueezeSmall
<1>2. ASSUME NEW n \in Nat, n \in N PROVE n + 1 \in N
  <2> SUFFICES ASSUME NEW q \in Seq(Lexeme), Len(q) = n + 1,
                      \A i \in 1..(n + 1) : q[i] = Space
               PROVE  Squeeze(q) = <<>>
    OBVIOUS
  <2> DEFINE d == SubSeq(q, 1, n)
  <2>1. /\ d \in Seq(Lexeme) /\ Len(d) = n /\ \A i \in 1..n : d[i] = Space
        /\ q = Append(d, Space) /\ Space \in Lexeme
    <3>1. d \in Seq(Lexeme) /\ Len(d) = n /\ \A i \in 1..n : d[i] = q[i]
      OBVIOUS
    <3>2. q[n + 1] = Space /\ Space \in Lexeme
      OBVIOUS
    <3>3. q = Append(d, q[n + 1])
      OBVIOUS
    <3> HIDE DEF d
    <3> QED BY <3>1, <3>2, <3>3
  <2> HIDE DEF d
  <2>2. Squeeze(d) = <<>>
    BY <1>2, <2>1
  <2>3. q = d \o <<Space>> /\ <<Space>> \in Seq(Lexeme)
    BY <2>1, Appended
  <2>4. Squeeze(d \o <<Space>>) = Squeeze(d) \o Squeeze(<<Space>>)
    BY <2>1, <2>3, SqueezeConcat
  <2> QED BY <2>2, <2>3, <2>4, SqueezeSmall
<1> HIDE DEF N
<1>3. \A n \in Nat : n \in N
  BY <1>1, <1>2, Induct
<1>4. Len(p) \in Nat
  OBVIOUS
<1> QED BY <1>3, <1>4 DEF N

\* The first lexeme of a text.
LEMMA SqueezeHead ==
  ASSUME NEW s \in Seq(Lexeme), s # <<>>, Head(s) # Space
  PROVE  /\ Squeeze(s) = Cat(<<Head(s)>>, Squeeze(Tail(s)))
         /\ Squeeze(Tail(s)) \in Seq(Lexeme)
         /\ <<Head(s)>> \in Seq(Lexeme)
<1> DEFINE h == Head(s)
           t == Tail(s)
<1>1. h \in Lexeme /\ t \in Seq(Lexeme) /\ h # Space
  OBVIOUS
<1>2. s = <<h>> \o t
  OBVIOUS
<1> HIDE DEF h, t
<1>3. <<h>> \in Seq(Lexeme)
  BY <1>1
<1>4. /\ Squeeze(<<h>> \o t) = Squeeze(<<h>>) \o Squeeze(t)
      /\ Squeeze(t) \in Seq(Lexeme)
  BY <1>1, <1>3, SqueezeConcat
<1>5. Squeeze(<<h>>) = <<h>>
  BY <1>1, SqueezeSmall
<1> QED BY <1>2, <1>3, <1>4, <1>5 DEF h, t, Cat

\* The tokens that have a text.
Sound(x) ==
  \/ x.type \in Starts \cup Ends \cup {"Null"}
  \/ x.type \in {"PropertyName", "String", "Integer", "Float"} /\ x.value \in Value
  \/ x.type = "Boolean" /\ x.value \in BOOLEAN

LEMMA TokenTextSqueezed ==
  ASSUME NEW x, Sound(x)
  PROVE  TokenText(x) \in Seq(Lexeme) /\ Squeeze(TokenText(x)) = TokenText(x)
<1>1. ASSUME NEW l \in Lexeme, l.type # "space"
      PROVE  <<l>> \in Seq(Lexeme) /\ Squeeze(<<l>>) = <<l>>
  <2>1. l # Space
    BY <1>1 DEF Space, Punct
  <2> QED BY <2>1, SqueezeSmall
<1>2. \A p \in {"{", "}", "[", "]", ",", ":", "true", "false", "null"} :
        /\ Punct(p) \in Lexeme /\ Punct(p).type # "space"
  BY DEF Punct, Lexeme
<1>3. \A k \in {"string", "integer", "float"}, v \in Value :
        /\ Literal(k, v) \in Lexeme /\ Literal(k, v).type # "space"
  BY DEF Literal, Lexeme
<1>4. CASE x.type = "PropertyName"
  <2> DEFINE a == Literal("string", x.value)
             b == Punct(":")
  <2>1. TokenText(x) = <<a, b>>
    BY <1>4 DEF TokenText
  <2>2. /\ a \in Lexeme /\ b \in Lexeme
        /\ <<a>> \in Seq(Lexeme) /\ Squeeze(<<a>>) = <<a>>
        /\ <<b>> \in Seq(Lexeme) /\ Squeeze(<<b>>) = <<b>>
    <3>1. x.value \in Value
      BY <1>4 DEF Sound, Starts, Ends
    <3>2. a \in Lexeme /\ a.type # "space" /\ b \in Lexeme /\ b.type # "space"
      BY <1>2, <1>3, <3>1
    <3> HIDE DEF a, b
    <3> QED BY <1>1, <3>2
  <2> HIDE DEF a, b
  <2>3. <<a, b>> = <<a>> \o <<b>>
    BY <2>2, TwoElements
  <2>4. <<a>> \o <<b>> \in Seq(Lexeme) /\ Squeeze(<<a>> \o <<b>>) = <<a>> \o <<b>>
    BY <2>2, SqueezeConcat
  <2> QED BY <2>1, <2>3, <2>4
<1>5. CASE x.type # "PropertyName"
  <2>1. x.type \in {"StartArray", "EndArray", "StartObject", "EndObject", "String",
                    "Integer", "Float", "Boolean", "Null"}
    BY <1>5 DEF Sound, Starts, Ends
  <2>2. \E l \in Lexeme : l.type # "space" /\ TokenText(x) = <<l>>
    <3>1. CASE x.type \in {"StartArray", "EndArray", "StartObject", "EndObject", "Null"}
      BY <1>2, <3>1 DEF TokenText
    <3>2. CASE x.type \in {"String", "Integer", "Float"}
      BY <1>3, <3>2 DEF TokenText, Sound, Starts, Ends
    <3>3. CASE x.type = "Boolean"
      BY <1>2, <3>3 DEF TokenText
    <3> QED BY <2>1, <3>1, <3>2, <3>3
  <2> QED BY <1>1, <2>2
<1> QED BY <1>4, <1>5

\* The places of the tokens with a type among T.
Places(ts, n, T) == {i \in 1..n : ts[i].type \in T}

LEMMA PlacesBefore ==
  ASSUME NEW C, NEW ts \in Seq(C), NEW x \in C, NEW T, NEW n \in 0..Len(ts)
  PROVE  Places(Append(ts, x), n, T) = Places(ts, n, T)
BY Appended DEF Places

LEMMA PlacesAppend ==
  ASSUME NEW C, NEW ts \in Seq(C), NEW x \in C, NEW T
  PROVE  /\ \A n \in 0..Len(ts) : Places(Append(ts, x), n, T) = Places(ts, n, T)
         /\ Cardinality(Places(Append(ts, x), Len(ts) + 1, T)) =
              Cardinality(Places(ts, Len(ts), T)) + (IF x.type \in T THEN 1 ELSE 0)
         /\ Cardinality(Places(ts, Len(ts), T)) \in Nat
<1> DEFINE a == Append(ts, x)
           n == Len(ts)
           P == Places(ts, n, T)
<1>1. /\ n \in Nat /\ \A i \in 1..n : a[i] = ts[i]
      /\ a[n + 1] = x
  BY Appended
<1> HIDE DEF a
<1>2. IsFiniteSet(P)
  <2>1. IsFiniteSet(1..n)
    BY <1>1, FS_Interval
  <2> QED BY <2>1, FS_Subset DEF Places
<1>3. Cardinality(P) \in Nat
  BY <1>2, FS_CardinalityType
<1>4. n + 1 \notin P
  BY <1>1 DEF Places
<1>5. Places(a, n + 1, T) = IF x.type \in T THEN P \cup {n + 1} ELSE P
  BY <1>1 DEF Places
<1>6. Cardinality(P \cup {n + 1}) = Cardinality(P) + 1
  BY <1>2, <1>4, FS_AddElement
<1>7. \A m \in 0..n : Places(a, m, T) = Places(ts, m, T)
  BY <1>1 DEF Places
<1> HIDE DEF P
<1>8. Cardinality(Places(a, n + 1, T)) = Cardinality(P) + (IF x.type \in T THEN 1 ELSE 0)
  BY <1>3, <1>5, <1>6
<1> QED BY <1>3, <1>7, <1>8 DEF a, P

LEMMA DepthIs ==
  ASSUME NEW ts, NEW n
  PROVE  Depth(ts, n) = Cardinality(Places(ts, n, Starts)) - Cardinality(Places(ts, n, Ends))
BY DEF Depth, Places

LEMMA DepthAppend ==
  ASSUME NEW C, NEW ts \in Seq(C), NEW x \in C
  PROVE  /\ \A n \in 0..Len(ts) : Depth(Append(ts, x), n) = Depth(ts, n)
         /\ Depth(ts, Len(ts)) \in Int
         /\ Depth(Append(ts, x), Len(ts) + 1) =
              CASE x.type \in Starts -> Depth(ts, Len(ts)) + 1
                [] x.type \in Ends -> Depth(ts, Len(ts)) - 1
                [] OTHER -> Depth(ts, Len(ts))
<1> DEFINE a == Append(ts, x)
           s == Cardinality(Places(ts, Len(ts), Starts))
           e == Cardinality(Places(ts, Len(ts), Ends))
<1>1. \A n \in 0..Len(ts) : Depth(a, n) = Depth(ts, n)
  <2>0. ASSUME NEW T PROVE \A n \in 0..Len(ts) : Places(a, n, T) = Places(ts, n, T)
    BY PlacesBefore
  <2> HIDE DEF a
  <2>1. \A n \in 0..Len(ts) : Places(a, n, Starts) = Places(ts, n, Starts)
    BY <2>0, Zenon
  <2>2. \A n \in 0..Len(ts) : Places(a, n, Ends) = Places(ts, n, Ends)
    BY <2>0, Zenon
  <2> QED BY <2>1, <2>2, DepthIs
<1>2. /\ s \in Nat /\ e \in Nat
      /\ Cardinality(Places(a, Len(ts) + 1, Starts)) = s + (IF x.type \in Starts THEN 1 ELSE 0)
      /\ Cardinality(Places(a, Len(ts) + 1, Ends)) = e + (IF x.type \in Ends THEN 1 ELSE 0)
  BY PlacesAppend
<1>3. Depth(ts, Len(ts)) = s - e
  BY DepthIs
<1>4. Depth(a, Len(ts) + 1) = Cardinality(Places(a, Len(ts) + 1, Starts))
                                - Cardinality(Places(a, Len(ts) + 1, Ends))
  BY DepthIs
<1>5. x.type \in Starts => x.type \notin Ends
  BY DEF Starts, Ends
<1> HIDE DEF a, s, e
<1>6. Depth(a, Len(ts) + 1) =
        CASE x.type \in Starts -> s - e + 1
          [] x.type \in Ends -> s - e - 1
          [] OTHER -> s - e
  BY <1>2, <1>4, <1>5
<1> QED BY <1>1, <1>2, <1>3, <1>6 DEF a

LEMMA DepthNone == Depth(<<>>, 0) = 0
<1>1. Places(<<>>, 0, Starts) = {} /\ Places(<<>>, 0, Ends) = {}
  BY DEF Places
<1>2. Cardinality({}) = 0
  BY FS_EmptySet
<1>3. Depth(<<>>, 0) = Cardinality({}) - Cardinality({})
  BY <1>1, DepthIs
<1> QED BY <1>2, <1>3

AllSound(ts) == \A i \in DOMAIN ts : Sound(ts[i])

\* The text of each token of ts.
Chunk(ts, i) == Separator(ts, i) \o TokenText(ts[i])

LEMMA SeparatorType ==
  ASSUME NEW ts, NEW i
  PROVE  Separator(ts, i) \in Seq(Lexeme)
<1>1. <<>> \in Seq(Lexeme) /\ Punct(",") \in Lexeme
  BY DEF Punct, Lexeme
<1>2. <<Punct(",")>> \in Seq(Lexeme)
  <2>1. \A x \in Lexeme : <<x>> \in Seq(Lexeme)
    OBVIOUS
  <2> QED BY <1>1, <2>1
<1>3. Separator(ts, i) \in {<<>>, <<Punct(",")>>}
  BY DEF Separator
<1> QED BY <1>1, <1>2, <1>3

LEMMA ChunksType ==
  ASSUME NEW C, NEW ts \in Seq(C), AllSound(ts)
  PROVE  /\ [i \in DOMAIN ts |-> Chunk(ts, i)] \in Seq(Seq(Lexeme))
         /\ Len([i \in DOMAIN ts |-> Chunk(ts, i)]) = Len(ts)
<1>1. DOMAIN ts = 1..Len(ts) /\ Len(ts) \in Nat
  OBVIOUS
<1>2. \A i \in 1..Len(ts) : Chunk(ts, i) \in Seq(Lexeme)
  <2> TAKE i \in 1..Len(ts)
  <2>1. Separator(ts, i) \in Seq(Lexeme) /\ TokenText(ts[i]) \in Seq(Lexeme)
    BY <1>1, SeparatorType, TokenTextSqueezed DEF AllSound
  <2> QED BY <2>1, Concat DEF Chunk
<1> QED BY <1>1, <1>2

LEMMA CanonicalIs ==
  ASSUME NEW ts
  PROVE  Canonical(ts) = FlattenSeq([i \in DOMAIN ts |-> Chunk(ts, i)])
BY DEF Canonical, Chunk

\* One token more.
LEMMA CanonicalAppend ==
  ASSUME NEW C, NEW ts \in Seq(C), AllSound(ts), NEW x \in C, Sound(x)
  PROVE  /\ Canonical(Append(ts, x)) =
              Canonical(ts) \o (Separator(Append(ts, x), Len(ts) + 1) \o TokenText(x))
         /\ Canonical(ts) \in Seq(Lexeme)
<1> DEFINE a == Append(ts, x)
           n == Len(ts)
           f == [i \in DOMAIN ts |-> Chunk(ts, i)]
           g == [i \in DOMAIN a |-> Chunk(a, i)]
<1>1. /\ n \in Nat /\ DOMAIN ts = 1..n /\ a \in Seq(C) /\ Len(a) = n + 1
      /\ \A i \in 1..n : a[i] = ts[i]
      /\ a[n + 1] = x
      /\ DOMAIN a = 1..(n + 1)
  BY Appended
<1>2. \A i \in 0..n : Depth(a, i) = Depth(ts, i)
  BY DepthAppend
<1> HIDE DEF a
<1>3. AllSound(a)
  BY <1>1 DEF AllSound
<1>4. f \in Seq(Seq(Lexeme)) /\ Len(f) = n /\ g \in Seq(Seq(Lexeme)) /\ Len(g) = n + 1
  BY <1>1, <1>3, ChunksType
<1>5. ASSUME NEW i \in 1..n PROVE Chunk(a, i) = Chunk(ts, i)
  <2>1. a[i] = ts[i] /\ (i > 1 => a[i - 1] = ts[i - 1]) /\ Depth(a, i - 1) = Depth(ts, i - 1)
    BY <1>1, <1>2
  <2> QED BY <2>1 DEF Chunk, Separator
<1>6. \A i \in 1..n : g[i] = f[i]
  BY <1>1, <1>5
<1>7. g[n + 1] = Chunk(a, n + 1) /\ g[n + 1] \in Seq(Lexeme)
  BY <1>1, <1>4
<1> HIDE DEF f, g
<1>8. g = Append(f, Chunk(a, n + 1))
  BY <1>1, <1>4, <1>6, <1>7
<1>9. /\ FlattenSeq(Append(f, Chunk(a, n + 1))) = FlattenSeq(f) \o Chunk(a, n + 1)
      /\ FlattenSeq(f) \in Seq(Lexeme)
  BY <1>4, <1>7, FlattenAppend
<1>10. Canonical(a) = Canonical(ts) \o Chunk(a, n + 1) /\ Canonical(ts) \in Seq(Lexeme)
  BY <1>8, <1>9, CanonicalIs DEF f, g
<1> QED BY <1>1, <1>10 DEF Chunk, a

LEMMA CanonicalEmpty == Canonical(<<>>) = <<>>
<1>1. [i \in DOMAIN <<>> |-> Chunk(<<>>, i)] = <<>>
  OBVIOUS
<1> QED BY <1>1, CanonicalIs, FlattenEmpty

(***************************************************************************)
(* What is left of the text of ts behind its first k tokens.               *)
(***************************************************************************)
Left(ts, k) == FlattenSeq([i \in 1..(Len(ts) - k) |-> Chunk(ts, k + i)])

LEMMA ChunkType ==
  ASSUME NEW C, NEW ts \in Seq(C), AllSound(ts), NEW i \in 1..Len(ts)
  PROVE  Chunk(ts, i) \in Seq(Lexeme)
<1>1. DOMAIN ts = 1..Len(ts)
  OBVIOUS
<1>2. Separator(ts, i) \in Seq(Lexeme) /\ TokenText(ts[i]) \in Seq(Lexeme)
  BY <1>1, SeparatorType, TokenTextSqueezed DEF AllSound
<1> QED BY <1>2, Concat DEF Chunk

LEMMA LeftType ==
  ASSUME NEW C, NEW ts \in Seq(C), AllSound(ts), NEW k \in 0..Len(ts)
  PROVE  /\ [i \in 1..(Len(ts) - k) |-> Chunk(ts, k + i)] \in Seq(Seq(Lexeme))
         /\ Left(ts, k) \in Seq(Lexeme)
<1> DEFINE f == [i \in 1..(Len(ts) - k) |-> Chunk(ts, k + i)]
<1>1. Len(ts) \in Nat /\ Len(ts) - k \in Nat
  OBVIOUS
<1>2. \A i \in 1..(Len(ts) - k) : Chunk(ts, k + i) \in Seq(Lexeme)
  <2> TAKE i \in 1..(Len(ts) - k)
  <2>1. k + i \in 1..Len(ts)
    BY <1>1
  <2> QED BY <2>1, ChunkType
<1>3. f \in Seq(Seq(Lexeme))
  BY <1>1, <1>2
<1> HIDE DEF f
<1>4. FlattenSeq(f) \in Seq(Lexeme)
  BY <1>3, FlattenType
<1> QED BY <1>3, <1>4 DEF Left, f

LEMMA LeftAll ==
  ASSUME NEW C, NEW ts \in Seq(C)
  PROVE  Left(ts, 0) = Canonical(ts)
<1>1. DOMAIN ts = 1..Len(ts) /\ Len(ts) \in Nat
  OBVIOUS
<1>2. Len(ts) - 0 = Len(ts) /\ \A i \in 1..Len(ts) : 0 + i = i
  BY <1>1
<1>3. [i \in 1..(Len(ts) - 0) |-> Chunk(ts, 0 + i)] = [i \in DOMAIN ts |-> Chunk(ts, i)]
  BY <1>1, <1>2
<1> QED BY <1>3, CanonicalIs DEF Left

LEMMA LeftNone ==
  ASSUME NEW C, NEW ts \in Seq(C)
  PROVE  Left(ts, Len(ts)) = <<>>
<1>1. Len(ts) \in Nat
  OBVIOUS
<1>2. 1..(Len(ts) - Len(ts)) = {}
  BY <1>1
<1>3. [i \in 1..(Len(ts) - Len(ts)) |-> Chunk(ts, Len(ts) + i)] = <<>>
  BY <1>2
<1> QED BY <1>3, FlattenEmpty DEF Left

LEMMA LeftOne ==
  ASSUME NEW C, NEW ts \in Seq(C), AllSound(ts), NEW k \in Nat, k < Len(ts)
  PROVE  Left(ts, k) = Cat(Chunk(ts, k + 1), Left(ts, k + 1))
<1> DEFINE f == [i \in 1..(Len(ts) - k) |-> Chunk(ts, k + i)]
           g == [i \in 1..(Len(ts) - (k + 1)) |-> Chunk(ts, k + 1 + i)]
           c == Chunk(ts, k + 1)
           n == Len(ts) - (k + 1)
<1>1. Len(ts) \in Nat /\ n \in Nat /\ Len(ts) - k = n + 1 /\ k \in 0..Len(ts)
      /\ k + 1 \in 0..Len(ts) /\ k + 1 \in 1..Len(ts)
  OBVIOUS
<1>2. f \in Seq(Seq(Lexeme)) /\ g \in Seq(Seq(Lexeme))
  BY <1>1, LeftType
<1>3. c \in Seq(Lexeme)
  BY <1>1, ChunkType
<1>4. Len(f) = n + 1 /\ Len(g) = n
  BY <1>1, <1>2
<1>5. f[1] = c
  BY <1>1
<1>6. \A i \in 1..n : f[i + 1] = g[i]
  <2> TAKE i \in 1..n
  <2>1. i + 1 \in 1..(Len(ts) - k) /\ k + (i + 1) = k + 1 + i
    BY <1>1
  <2> QED BY <2>1
<1> HIDE DEF f, g, c, n
<1>7. <<c>> \in Seq(Seq(Lexeme))
  BY <1>3
<1>8. f = <<c>> \o g
  <2>1. /\ <<c>> \o g \in Seq(Seq(Lexeme)) /\ Len(<<c>> \o g) = n + 1
        /\ (<<c>> \o g)[1] = c
        /\ \A i \in 1..n : (<<c>> \o g)[i + 1] = g[i]
    BY <1>1, <1>2, <1>3, <1>4
  <2> DEFINE h == <<c>> \o g
  <2> HIDE DEF h
  <2>2. \A i \in 1..(n + 1) : f[i] = h[i]
    <3> TAKE i \in 1..(n + 1)
    <3>1. CASE i = 1
      BY <1>5, <2>1, <3>1 DEF h
    <3>2. CASE i # 1
      <4>1. i - 1 \in 1..n /\ i = (i - 1) + 1
        BY <1>1, <3>2
      <4> QED BY <1>6, <2>1, <4>1 DEF h
    <3> QED BY <3>1, <3>2
  <2>3. f = h
    BY <1>2, <1>4, <2>1, <2>2 DEF h
  <2> QED BY <2>3 DEF h
<1>9. FlattenSeq(<<c>> \o g) = FlattenSeq(<<c>>) \o FlattenSeq(g)
  BY <1>2, <1>7, FlattenConcat
<1>10. FlattenSeq(<<c>>) = c
  BY <1>3, FlattenOne
<1> QED BY <1>8, <1>9, <1>10 DEF Left, Cat, f, g, c

\* The text before a token depends on what comes before it only.
LEMMA SeparatorBefore ==
  ASSUME NEW ts, NEW us, NEW n \in Nat, \A i \in 1..(n + 1) : us[i] = ts[i]
  PROVE  Separator(us, n + 1) = Separator(ts, n + 1)
<1>1. \A T : Places(us, n, T) = Places(ts, n, T)
  BY DEF Places
<1>2. Depth(us, n) = Depth(ts, n)
  BY <1>1, DepthIs
<1> DEFINE m == n + 1
<1>3. us[m] = ts[m] /\ (m > 1 => us[m - 1] = ts[m - 1]) /\ m - 1 = n
  OBVIOUS
<1>4. Depth(us, m - 1) = Depth(ts, m - 1)
  BY <1>2, <1>3
<1> HIDE DEF m
<1>5. Separator(us, m) = Separator(ts, m)
  BY <1>3, <1>4 DEF Separator
<1> QED BY <1>5 DEF m

(***************************************************************************)
(* JsonReader.                                                             *)
(***************************************************************************)
\* The first of some positions exists.
LEMMA FirstPosition ==
  ASSUME NEW hits, hits \subseteq Nat, hits # {}
  PROVE  Min(hits) \in hits /\ \A y \in hits : Min(hits) =< y
<1> DEFINE less == OpToRel(<, Nat)
<1>1. IsWellFoundedOn(less, Nat)
  BY NatLessThanWellFounded
<1>2. \A y, x \in Nat : <<y, x>> \in less <=> y < x
  BY DEF OpToRel
<1> HIDE DEF less
<1>3. PICK x \in hits : \A y \in hits : ~(<<y, x>> \in less)
  BY <1>1, WFMin
<1>4. ASSUME NEW y \in hits PROVE x =< y
  <2>1. x \in Nat /\ y \in Nat
    OBVIOUS
  <2>2. ~(y < x)
    BY <1>2, <1>3, <2>1
  <2> QED BY <2>1, <2>2
<1> QED BY <1>4 DEF Min

LEMMA FromType ==
  ASSUME NEW s \in Seq(Lexeme), NEW hits, hits \subseteq DOMAIN s
  PROVE  From(s, hits) \in Seq(Lexeme)
<1>1. CASE hits = {}
  BY <1>1 DEF From
<1>2. CASE hits # {}
  <2>1. Min(hits) \in 1..Len(s)
    BY <1>2, FirstPosition
  <2> QED BY <2>1, <1>2 DEF From
<1> QED BY <1>1, <1>2

LEMMA EmptyText == <<>> \in Seq(Lexeme)
OBVIOUS

LEMMA SkipType ==
  ASSUME NEW s \in Seq(Lexeme)
  PROVE  SkipWhitespace(s) \in Seq(Lexeme) /\ SkipNumber(s) \in Seq(Lexeme)
BY FromType DEF SkipWhitespace, SkipNumber

\* The first lexeme of a text that is not empty, and what is behind it.
LEMMA HeadTail ==
  ASSUME NEW s \in Seq(Lexeme), s # <<>>
  PROVE  /\ Head(s) \in Lexeme
         /\ Tail(s) \in Seq(Lexeme)
         /\ Head(s).type \in {"string", "integer", "float"} =>
              Head(s).value \in Value
<1>1. Head(s) \in Lexeme /\ Tail(s) \in Seq(Lexeme)
  OBVIOUS
<1>2. \A x \in Lexeme : x.type \in {"string", "integer", "float"} => x.value \in Value
  BY DEF Lexeme, Broken
<1> QED BY <1>1, <1>2

\* All but the last element of a sequence.
LEMMA FrontOf ==
  ASSUME NEW S, NEW s \in Seq(S), s # <<>>
  PROVE  /\ Len(s) \in Nat /\ Len(s) >= 1
         /\ DOMAIN s = 1..Len(s)
         /\ s[Len(s)] \in S
         /\ SubSeq(s, 1, Len(s) - 1) \in Seq(S)
         /\ Len(SubSeq(s, 1, Len(s) - 1)) = Len(s) - 1
         /\ \A i \in 1..(Len(s) - 1) : SubSeq(s, 1, Len(s) - 1)[i] = s[i]
<1>1. Len(s) \in Nat /\ Len(s) >= 1 /\ DOMAIN s = 1..Len(s)
  OBVIOUS
<1> QED BY <1>1

(***************************************************************************)
(* The inductive invariant: the types, and the shape of mode_stack_.       *)
(***************************************************************************)
Token == [type : Tokens!JsonToken, value : Value \cup {NoValue} \cup BOOLEAN]

IInv ==
  /\ TypeOK
  /\ PopsWhatItPushed
  /\ tokens \in Seq(Token)
  /\ result => LastToken = token_type
  /\ LastToken = "PropertyName" => mode = "Object"

\* A reader that has been made for some text.
Fresh == \E s \in Seq(Lexeme) : ReaderInit(s)

LEMMA InitFresh == Init => Fresh
BY InputsAssumption DEF Init, Fresh

LEMMA InitIInv == Fresh => IInv
<1> SUFFICES ASSUME NEW s \in Seq(Lexeme), ReaderInit(s) PROVE IInv
  BY DEF Fresh
<1>1. s \in Seq(Lexeme)
  OBVIOUS
<1>2. TypeOK
  <2>1. "None" \in Tokens!JsonToken
    BY DEF Tokens!JsonToken
  <2>2. <<>> \in Seq({"DocumentStart", "Array", "Object"})
    OBVIOUS
  <2>3. str_value \in Value \cup {NoValue} /\ bool_value \in BOOLEAN
        /\ result \in BOOLEAN
    BY DEF ReaderInit
  <2> QED BY <1>1, <2>1, <2>2, <2>3 DEF ReaderInit, TypeOK
<1>3. PopsWhatItPushed
  BY DEF ReaderInit, PopsWhatItPushed
<1>4. tokens \in Seq(Token) /\ LastToken = token_type /\ LastToken = "None"
  BY DEF ReaderInit, LastToken
<1> QED BY <1>2, <1>3, <1>4 DEF IInv

(***************************************************************************)
(* What a call of Next() may do to the tokens and the modes.               *)
(***************************************************************************)
\* It returns false, ...
Failed == result' = FALSE /\ UNCHANGED <<mode, mode_stack, tokens>>

\* ... or true, with a token of type t.
Returned(t) ==
  /\ result' = TRUE
  /\ tokens' \in Seq(Token)
  /\ token_type' = t
  /\ LastToken' = t

ReturnedScalar ==
  \E t \in Tokens!Scalars : Returned(t) /\ UNCHANGED <<mode, mode_stack>>

ReturnedStart(m, t) ==
  /\ Returned(t)
  /\ mode_stack' = Append(mode_stack, mode)
  /\ mode' = m

ReturnedEnd(t) ==
  /\ Returned(t)
  /\ mode_stack # <<>>
  /\ mode' = Last(mode_stack)
  /\ mode_stack' = Front(mode_stack)

ReturnedName == Returned("PropertyName") /\ UNCHANGED <<mode, mode_stack>>

ValueRead ==
  \/ Failed
  \/ ReturnedScalar
  \/ ReturnedStart("Array", "StartArray")
  \/ ReturnedStart("Object", "StartObject")

\* The variables that have nothing to do with the modes keep their types.
DataOK ==
  /\ rest \in Seq(Lexeme)
  /\ source \in Seq(Lexeme)
  /\ token_type \in Tokens!JsonToken
  /\ error_code \in {"None", "UnexpectedCharacter", "OutOfRange"} \cup BadEscape
  /\ str_value \in Value \cup {NoValue}
  /\ bool_value \in BOOLEAN
  /\ result \in BOOLEAN

LEMMA DataFromIInv == IInv => DataOK
BY DEF IInv, TypeOK, DataOK

LEMMA ReturnReturns ==
  ASSUME IInv, NEW t \in Tokens!JsonToken,
         NEW v \in Value \cup {NoValue} \cup BOOLEAN, Return(t, v)
  PROVE  Returned(t)
<1> DEFINE x == [type |-> t, value |-> v]
<1>1. x \in Token /\ x.type = t
  BY DEF Token
<1>2. tokens \in Seq(Token) /\ tokens' = Append(tokens, x)
  BY DEF IInv, Return
<1> HIDE DEF x
<1>3. tokens' \in Seq(Token) /\ Len(tokens') = Len(tokens) + 1
      /\ tokens'[Len(tokens')] = x
  BY <1>1, <1>2
<1>4. tokens' # <<>>
  BY <1>2, <1>3
<1>5. LastToken' = t
  BY <1>1, <1>3, <1>4 DEF LastToken, Last
<1> QED BY <1>3, <1>5 DEF Returned, Return

LEMMA ReadValueStep ==
  ASSUME IInv, NEW s \in Seq(Lexeme), s # <<>>, ReadValue(s)
  PROVE  ValueRead /\ DataOK'
<1> USE DataFromIInv, EmptyText
<1>0. /\ Head(s) \in Lexeme /\ Tail(s) \in Seq(Lexeme)
      /\ SkipNumber(Tail(s)) \in Seq(Lexeme)
      /\ Head(s).type \in {"string", "integer", "float"} =>
           Head(s).value \in Value
  BY HeadTail, SkipType
<1>1. ASSUME NEW char, NEW m, NEW t,
             ReadContainer(s, char, m, t),
             \/ m = "Object" /\ t = "StartObject"
             \/ m = "Array" /\ t = "StartArray"
      PROVE  ValueRead /\ DataOK'
  <2>1. t \in Tokens!JsonToken /\ Return(t, NoValue)
    BY <1>1 DEF ReadContainer, Tokens!JsonToken
  <2>2. Returned(t)
    BY <2>1, ReturnReturns
  <2>3. ValueRead
    BY <1>1, <2>2 DEF ReadContainer, ReturnedStart, ValueRead
  <2>4. DataOK'
    BY <1>0, <1>1, <2>1 DEF ReadContainer, Return, DataOK, valueVars
  <2> QED BY <2>3, <2>4
<1>2. CASE ReadStringValue(s)
  <2>1. CASE Head(s).type = "string"
    <3>1. Return("String", str_value') /\ str_value' \in Value
          /\ rest' = Tail(s) /\ UNCHANGED <<mode, mode_stack, bool_value>>
      BY <1>0, <1>2, <2>1 DEF ReadStringValue, positionVars
    <3>2. "String" \in Tokens!Scalars /\ "String" \in Tokens!JsonToken
      BY DEF Tokens!Scalars, Tokens!JsonToken
    <3>3. Returned("String")
      BY <3>1, <3>2, ReturnReturns
    <3>4. DataOK'
      BY <1>0, <3>1, <3>2 DEF Return, DataOK
    <3> QED BY <3>1, <3>2, <3>3, <3>4 DEF ReturnedScalar, ValueRead
  <2>2. CASE Head(s).type # "string"
    <3>1. PICK e \in BadEscape \cup CutShort : Fail("String", e)
      BY <1>2, <2>2 DEF ReadStringValue
    <3>2. str_value' = NoValue /\ rest' \in Seq(Lexeme) /\ UNCHANGED bool_value
      BY <1>0, <1>2, <2>2 DEF ReadStringValue
    <3>3. "String" \in Tokens!JsonToken
      BY DEF Tokens!Scalars, Tokens!JsonToken
    <3>4. ValueRead
      BY <3>1 DEF Fail, Failed, ValueRead, positionVars
    <3>5. DataOK'
      BY <1>0, <3>1, <3>2, <3>3 DEF Fail, DataOK, CutShort
    <3> QED BY <3>4, <3>5
  <2> QED BY <2>1, <2>2
<1>6. CASE ReadMinus(s)
  <2>1. /\ str_value' \in Value /\ UNCHANGED <<positionVars, bool_value>>
        /\ rest' = IF Tail(s) = <<>> THEN <<>> ELSE Tail(Tail(s))
        /\ Return("Integer", str_value')
    BY <1>6 DEF ReadMinus
  <2>2. rest' \in Seq(Lexeme)
    BY <1>0, <2>1, HeadTail
  <2>3. "Integer" \in Tokens!JsonToken /\ "Integer" \in Tokens!Scalars
    BY DEF Tokens!Scalars, Tokens!JsonToken
  <2>4. Returned("Integer")
    BY <2>1, <2>3, ReturnReturns
  <2>5. DataOK'
    BY <2>1, <2>2, <2>3 DEF Return, DataOK
  <2> QED BY <2>1, <2>3, <2>4, <2>5 DEF ReturnedScalar, ValueRead, positionVars
<1>3. CASE ReadNumber(s)
  <2>1. str_value' \in Value /\ rest' \in Seq(Lexeme) /\ UNCHANGED bool_value
    BY <1>0, <1>3 DEF ReadNumber
  <2>2. \A t \in {"Integer", "Float"} :
          t \in Tokens!JsonToken /\ t \in Tokens!Scalars
    BY DEF Tokens!Scalars, Tokens!JsonToken
  <2>3. ASSUME NEW t \in {"Integer", "Float"}, Return(t, str_value'),
               UNCHANGED positionVars
        PROVE  ValueRead /\ DataOK'
    <3>1. Returned(t)
      BY <2>1, <2>2, <2>3, ReturnReturns
    <3>2. DataOK'
      BY <2>1, <2>2, <2>3 DEF Return, DataOK
    <3> QED BY <2>2, <2>3, <3>1, <3>2 DEF ReturnedScalar, ValueRead, positionVars
  <2>4. ASSUME NEW t \in {token_type, "Integer", "Float"},
               NEW e \in {"OutOfRange", "UnexpectedCharacter"}, Fail(t, e)
        PROVE  ValueRead /\ DataOK'
    <3>1. DataOK'
      BY <2>1, <2>2, <2>4 DEF Fail, DataOK
    <3> QED BY <2>4, <3>1 DEF Fail, Failed, ValueRead, positionVars
  <2> QED BY <1>3, <2>3, <2>4 DEF ReadNumber
<1>4. CASE ReadKeyword(s)
  <2>1. CASE Head(s).type = "null"
    <3>1. Return("Null", NoValue) /\ rest' = Tail(s)
          /\ UNCHANGED <<mode, mode_stack, str_value, bool_value>>
      BY <1>4, <2>1 DEF ReadKeyword, positionVars, valueVars
    <3>2. "Null" \in Tokens!Scalars /\ "Null" \in Tokens!JsonToken
      BY DEF Tokens!Scalars, Tokens!JsonToken
    <3>3. Returned("Null")
      BY <3>1, <3>2, ReturnReturns
    <3>4. DataOK'
      BY <1>0, <3>1, <3>2 DEF Return, DataOK
    <3> QED BY <3>1, <3>2, <3>3, <3>4 DEF ReturnedScalar, ValueRead
  <2>2. CASE Head(s).type \in {"true", "false"}
    <3>1. bool_value' = (Head(s).type = "true") /\ Return("Boolean", bool_value')
          /\ rest' = Tail(s) /\ UNCHANGED <<mode, mode_stack, str_value>>
      BY <1>4, <2>2 DEF ReadKeyword, positionVars
    <3>2. "Boolean" \in Tokens!Scalars /\ "Boolean" \in Tokens!JsonToken
          /\ bool_value' \in BOOLEAN
      BY <3>1 DEF Tokens!Scalars, Tokens!JsonToken
    <3>3. Returned("Boolean")
      BY <3>1, <3>2, ReturnReturns
    <3>4. DataOK'
      BY <1>0, <3>1, <3>2 DEF Return, DataOK
    <3> QED BY <3>1, <3>2, <3>3, <3>4 DEF ReturnedScalar, ValueRead
  <2>3. CASE Head(s).type = "badKeyword"
    <3>1. PICK t \in {"Null", "Boolean"},
               e \in {error_code, "UnexpectedCharacter"} : Fail(t, e)
      BY <1>4, <2>3 DEF ReadKeyword
    <3>2. rest' = Tail(s) /\ bool_value' \in BOOLEAN /\ UNCHANGED str_value
      BY <1>4, <2>3 DEF ReadKeyword
    <3>3. t \in Tokens!JsonToken
      BY DEF Tokens!Scalars, Tokens!JsonToken
    <3>4. DataOK'
      BY <1>0, <3>1, <3>2, <3>3 DEF Fail, DataOK
    <3> QED BY <3>1, <3>4 DEF Fail, Failed, ValueRead, positionVars
  <2> QED BY <1>4, <2>1, <2>2, <2>3 DEF ReadKeyword
<1>5. CASE Refuse(s)
  <2>1. DataOK'
    BY <1>0, <1>5 DEF Refuse, Fail, DataOK, valueVars
  <2> QED BY <1>5, <2>1 DEF Refuse, Fail, Failed, ValueRead, positionVars
<1> QED BY <1>1, <1>2, <1>3, <1>4, <1>5, <1>6 DEF ReadValue

LEMMA ReadNameStep ==
  ASSUME IInv, NEW s \in Seq(Lexeme), s # <<>>, ReadName(s)
  PROVE  (Failed \/ ReturnedName) /\ DataOK'
<1> USE DataFromIInv, EmptyText
<1> DEFINE u == SkipWhitespace(Tail(s))
<1>0. /\ Head(s) \in Lexeme /\ Tail(s) \in Seq(Lexeme) /\ u \in Seq(Lexeme)
      /\ u # <<>> => Tail(u) \in Seq(Lexeme)
      /\ Head(s).type = "string" => Head(s).value \in Value
  BY HeadTail, SkipType
<1> HIDE DEF u
<1>1. "PropertyName" \in Tokens!JsonToken
  BY DEF Tokens!JsonToken
<1>2. rest' \in Seq(Lexeme) /\ str_value' \in Value \cup {NoValue}
      /\ UNCHANGED bool_value
  BY <1>0 DEF ReadName, u, FailAtEnd
<1>3. ASSUME NEW e \in {error_code, "UnexpectedCharacter"} \cup BadEscape,
             Fail("PropertyName", e)
      PROVE  Failed /\ DataOK'
  <2>1. DataOK'
    BY <1>1, <1>2, <1>3 DEF Fail, DataOK
  <2> QED BY <1>3, <2>1 DEF Fail, Failed, positionVars
<1>4. ASSUME Return("PropertyName", str_value'), UNCHANGED positionVars
      PROVE  ReturnedName /\ DataOK'
  <2>1. Returned("PropertyName")
    BY <1>1, <1>2, <1>4, ReturnReturns
  <2>2. DataOK'
    BY <1>1, <1>2, <1>4 DEF Return, DataOK
  <2> QED BY <1>4, <2>1, <2>2 DEF ReturnedName, positionVars
<1>5. \/ Return("PropertyName", str_value') /\ UNCHANGED positionVars
      \/ \E e \in {error_code, "UnexpectedCharacter"} \cup BadEscape :
           Fail("PropertyName", e)
  BY DEF ReadName, FailAtEnd, CutShort
<1> QED BY <1>3, <1>4, <1>5

LEMMA PopModeStep ==
  ASSUME IInv, NEW s \in Seq(Lexeme), s # <<>>, NEW t \in Tokens!JsonToken,
         mode # "DocumentStart", PopMode(s, t)
  PROVE  ReturnedEnd(t) /\ DataOK'
<1>1. mode_stack # <<>>
  BY DEF IInv, PopsWhatItPushed
<1>2. Return(t, NoValue) /\ Returned(t)
  BY <1>1, ReturnReturns DEF PopMode
<1>3. Tail(s) \in Seq(Lexeme)
  BY HeadTail
<1>4. DataOK'
  BY <1>2, <1>3, DataFromIInv DEF PopMode, Return, DataOK, valueVars
<1> QED BY <1>1, <1>2, <1>4 DEF PopMode, ReturnedEnd

(***************************************************************************)
(* Every call of Next() in one formula: what it may return when.           *)
(***************************************************************************)
Outcome ==
  \/ Failed
  \/ /\ \/ mode = "DocumentStart"
        \/ mode = "Array"
        \/ mode = "Object" /\ token_type = "PropertyName"
     /\ ValueRead
  \/ mode = "Array" /\ ReturnedEnd("EndArray")
  \/ mode = "Object" /\ token_type # "PropertyName" /\ ReturnedEnd("EndObject")
  \/ mode = "Object" /\ token_type # "PropertyName" /\ ReturnedName

LEMMA NextOutcome ==
  ASSUME IInv, Next
  PROVE  result /\ Outcome /\ DataOK'
<1> USE DataFromIInv, EmptyText
<1> DEFINE s == SkipWhitespace(rest)
<1>0. s \in Seq(Lexeme) /\ (s # <<>> => Tail(s) \in Seq(Lexeme))
  BY SkipType, HeadTail DEF IInv, TypeOK
<1>1. result
  BY DEF Next, NextAtEnd, NextInDocument, NextInArray, NextInObject
<1>2. ASSUME NEW t, t = token_type, FailAtEnd(t), UNCHANGED valueVars
      PROVE  Failed /\ DataOK'
  <2>1. DataOK'
    BY <1>2 DEF FailAtEnd, Fail, DataOK, valueVars
  <2> QED BY <1>2, <2>1 DEF FailAtEnd, Fail, Failed, positionVars
<1>3. ASSUME s # <<>>, Refuse(s)
      PROVE  Failed /\ DataOK'
  <2>1. DataOK'
    BY <1>0, <1>3 DEF Refuse, Fail, DataOK, valueVars
  <2> QED BY <1>3, <2>1 DEF Refuse, Fail, Failed, positionVars
<1>4. CASE NextAtEnd
  BY <1>1, <1>2, <1>4 DEF NextAtEnd, Outcome
<1>5. CASE NextInDocument
  <2>1. s # <<>> /\ mode = "DocumentStart" /\ ReadValue(s)
    BY <1>5 DEF NextInDocument
  <2> QED BY <1>0, <1>1, <2>1, ReadValueStep DEF Outcome
<1>6. CASE NextInArray
  <2>1. s # <<>> /\ mode = "Array"
    BY <1>6 DEF NextInArray
  <2>2. CASE PopMode(s, "EndArray")
    <3>1. "EndArray" \in Tokens!JsonToken
      BY DEF Tokens!JsonToken
    <3> QED BY <1>0, <1>1, <2>1, <2>2, <3>1, PopModeStep DEF Outcome
  <2>3. ASSUME NEW v \in Seq(Lexeme), v # <<>>, ReadValue(v)
        PROVE  Outcome /\ DataOK'
    BY <2>1, <2>3, ReadValueStep DEF Outcome
  <2>4. CASE AfterComma(s, ReadValue)
    <3> DEFINE u == SkipWhitespace(Tail(s))
    <3>1. u \in Seq(Lexeme)
      BY <1>0, <2>1, SkipType
    <3>2. \/ Refuse(s)
          \/ FailAtEnd(token_type) /\ UNCHANGED valueVars
          \/ u # <<>> /\ ReadValue(u)
      BY <2>4 DEF AfterComma
    <3> HIDE DEF u, s
    <3> QED BY <1>1, <1>2, <1>3, <2>1, <2>3, <3>1, <3>2 DEF Outcome
  <2>5. PopMode(s, "EndArray") \/ ReadValue(s) \/ AfterComma(s, ReadValue)
    BY <1>6 DEF NextInArray
  <2> HIDE DEF s
  <2> QED BY <1>0, <1>1, <2>1, <2>2, <2>3, <2>4, <2>5
<1>7. CASE NextInObject
  <2>1. s # <<>> /\ mode = "Object"
    BY <1>7 DEF NextInObject
  <2>2. CASE token_type = "PropertyName"
    <3>1. ReadValue(s)
      BY <1>7, <2>2 DEF NextInObject
    <3> QED BY <1>0, <1>1, <2>1, <2>2, <3>1, ReadValueStep DEF Outcome
  <2>3. ASSUME token_type # "PropertyName", PopMode(s, "EndObject")
        PROVE  Outcome /\ DataOK'
    <3>1. "EndObject" \in Tokens!JsonToken
      BY DEF Tokens!JsonToken
    <3> QED BY <1>0, <2>1, <2>3, <3>1, PopModeStep DEF Outcome
  <2>4. ASSUME token_type # "PropertyName",
               NEW v \in Seq(Lexeme), v # <<>>, ReadName(v)
        PROVE  Outcome /\ DataOK'
    BY <2>1, <2>4, ReadNameStep DEF Outcome
  <2>5. ASSUME token_type # "PropertyName", AfterComma(s, ReadName)
        PROVE  Outcome /\ DataOK'
    <3> DEFINE u == SkipWhitespace(Tail(s))
    <3>1. u \in Seq(Lexeme)
      BY <1>0, <2>1, SkipType
    <3>2. \/ Refuse(s)
          \/ FailAtEnd(token_type) /\ UNCHANGED valueVars
          \/ u # <<>> /\ ReadName(u)
      BY <2>5 DEF AfterComma
    <3> HIDE DEF u, s
    <3> QED BY <1>2, <1>3, <2>1, <2>4, <2>5, <3>1, <3>2 DEF Outcome
  <2>6. token_type # "PropertyName" =>
          PopMode(s, "EndObject") \/ ReadName(s) \/ AfterComma(s, ReadName)
    BY <1>7 DEF NextInObject
  <2> HIDE DEF s
  <2> QED BY <1>0, <1>1, <2>1, <2>2, <2>3, <2>4, <2>5, <2>6
<1> QED BY <1>4, <1>5, <1>6, <1>7 DEF Next

(***************************************************************************)
(* The invariant is preserved.                                             *)
(***************************************************************************)
LEMMA NextIInv ==
  ASSUME IInv, Next
  PROVE  IInv'
<1> DEFINE Mode == {"DocumentStart", "Array", "Object"}
<1>0. result /\ Outcome /\ DataOK'
  BY NextOutcome
<1>1. /\ mode \in Mode /\ mode_stack \in Seq(Mode)
      /\ mode = "DocumentStart" <=> mode_stack = <<>>
      /\ \A i \in DOMAIN mode_stack : mode_stack[i] = "DocumentStart" <=> i = 1
      /\ tokens \in Seq(Token)
  BY DEF IInv, TypeOK, PopsWhatItPushed
<1> HIDE DEF Mode
<1>2. SUFFICES /\ mode' \in Mode /\ mode_stack' \in Seq(Mode)
               /\ PopsWhatItPushed'
               /\ tokens' \in Seq(Token)
               /\ result' => LastToken' = token_type'
               /\ LastToken' = "PropertyName" => mode' = "Object"
  BY <1>0 DEF IInv, TypeOK, DataOK, Mode
<1>3. CASE UNCHANGED <<mode, mode_stack>>
  <2>1. PopsWhatItPushed'
    BY <1>1, <1>3 DEF PopsWhatItPushed
  <2>2. CASE Failed
    <3>1. LastToken' = LastToken
      BY <2>2 DEF Failed, LastToken
    <3> QED BY <1>1, <1>3, <2>1, <2>2, <3>1 DEF Failed, IInv
  <2>3. ASSUME NEW t, Returned(t)
        PROVE  tokens' \in Seq(Token) /\ LastToken' = token_type' /\ LastToken' = t
    BY <2>3 DEF Returned
  <2>4. Failed \/ \E t : Returned(t) /\ (t = "PropertyName" => mode = "Object")
    BY <1>0 DEF Outcome, ValueRead, ReturnedScalar, ReturnedStart, ReturnedEnd,
                ReturnedName, Tokens!Scalars
  <2> QED BY <1>1, <1>3, <2>1, <2>2, <2>3, <2>4
<1>4. ASSUME NEW m \in {"Array", "Object"}, NEW t \in {"StartArray", "StartObject"},
             ReturnedStart(m, t)
      PROVE  /\ mode' \in Mode /\ mode_stack' \in Seq(Mode)
             /\ PopsWhatItPushed'
             /\ tokens' \in Seq(Token)
             /\ LastToken' = token_type' /\ LastToken' # "PropertyName"
  <2>1. mode' = m /\ m \in Mode /\ mode_stack' = Append(mode_stack, mode)
    BY <1>4 DEF ReturnedStart, Mode
  <2>2. /\ mode_stack' \in Seq(Mode) /\ Len(mode_stack') = Len(mode_stack) + 1
        /\ \A i \in 1..Len(mode_stack) : mode_stack'[i] = mode_stack[i]
        /\ mode_stack'[Len(mode_stack) + 1] = mode
    BY <1>1, <2>1
  <2>3. mode = "DocumentStart" <=> Len(mode_stack) = 0
    BY <1>1
  <2>4. mode_stack' # <<>> /\ mode' # "DocumentStart"
    BY <1>1, <2>1, <2>2
  <2>5. ASSUME NEW i \in DOMAIN mode_stack'
        PROVE  mode_stack'[i] = "DocumentStart" <=> i = 1
    <3>1. i \in 1..Len(mode_stack) \/ i = Len(mode_stack) + 1
      BY <1>1, <2>2
    <3>2. CASE i \in 1..Len(mode_stack)
      BY <1>1, <2>2, <3>2
    <3>3. CASE i = Len(mode_stack) + 1
      BY <1>1, <2>2, <2>3, <3>3
    <3> QED BY <3>1, <3>2, <3>3
  <2> QED BY <1>4, <2>1, <2>2, <2>4, <2>5 DEF PopsWhatItPushed, ReturnedStart,
                                              Returned
<1>5. ASSUME NEW t \in {"EndArray", "EndObject"}, ReturnedEnd(t)
      PROVE  /\ mode' \in Mode /\ mode_stack' \in Seq(Mode)
             /\ PopsWhatItPushed'
             /\ tokens' \in Seq(Token)
             /\ LastToken' = token_type' /\ LastToken' # "PropertyName"
  <2>1. /\ mode_stack # <<>> /\ mode' = mode_stack[Len(mode_stack)]
        /\ mode_stack' = SubSeq(mode_stack, 1, Len(mode_stack) - 1)
    BY <1>5 DEF ReturnedEnd, Last, Front
  <2>2. Len(mode_stack) \in Nat /\ Len(mode_stack) >= 1
        /\ DOMAIN mode_stack = 1..Len(mode_stack)
    BY <1>1, <2>1, FrontOf
  <2>3. /\ mode_stack' \in Seq(Mode) /\ Len(mode_stack') = Len(mode_stack) - 1
        /\ \A i \in 1..(Len(mode_stack) - 1) : mode_stack'[i] = mode_stack[i]
        /\ mode' \in Mode
    BY <1>1, <2>1, FrontOf
  <2>4. mode' = "DocumentStart" <=> Len(mode_stack) = 1
    BY <1>1, <2>1, <2>2
  <2>5. mode' = "DocumentStart" <=> mode_stack' = <<>>
    BY <2>2, <2>3, <2>4
  <2>6. \A i \in DOMAIN mode_stack' : mode_stack'[i] = "DocumentStart" <=> i = 1
    BY <1>1, <2>2, <2>3
  <2> QED BY <1>5, <2>3, <2>5, <2>6 DEF PopsWhatItPushed, ReturnedEnd, Returned
<1>6. \/ UNCHANGED <<mode, mode_stack>>
      \/ \E m \in {"Array", "Object"} :
           \E t \in {"StartArray", "StartObject"} : ReturnedStart(m, t)
      \/ \E t \in {"EndArray", "EndObject"} : ReturnedEnd(t)
  BY <1>0 DEF Outcome, ValueRead, Failed, ReturnedScalar, ReturnedName
<1> QED BY <1>3, <1>4, <1>5, <1>6

LEMMA StutterIInv == IInv /\ UNCHANGED vars => IInv'
BY DEF IInv, vars, positionVars, valueVars, TypeOK, PopsWhatItPushed, LastToken,
       Tokens!JsonToken

\* PopMode never meets an empty mode_stack_, whatever is read: every bracket
\* that closes returns to the mode its opening bracket was read in.
THEOREM ReaderPopsWhatItPushed == Spec => []PopsWhatItPushed
<1>1. IInv /\ [Next]_vars => IInv'
  BY NextIInv, StutterIInv
<1>2. IInv => PopsWhatItPushed
  BY DEF IInv
<1> QED BY <1>1, <1>2, InitFresh, InitIInv, PTL DEF Spec

(***************************************************************************)
(* Every call of Next() is a step of JsonTokens.                           *)
(***************************************************************************)
LEMMA OpenShape ==
  ASSUME IInv
  PROVE  /\ mode = "DocumentStart" => Open = <<>>
         /\ mode # "DocumentStart" => Open # <<>> /\ Last(Open) = mode
<1> DEFINE Mode == {"DocumentStart", "Array", "Object"}
<1>1. /\ mode \in Mode /\ mode_stack \in Seq(Mode)
      /\ mode = "DocumentStart" <=> mode_stack = <<>>
  BY DEF IInv, TypeOK, PopsWhatItPushed
<1> HIDE DEF Mode
<1>2. /\ Append(mode_stack, mode) \in Seq(Mode)
      /\ Len(Append(mode_stack, mode)) = Len(mode_stack) + 1
      /\ Append(mode_stack, mode)[Len(mode_stack) + 1] = mode
  BY <1>1
<1>3. Open \in Seq(Mode) /\ Len(Open) = Len(mode_stack)
      /\ \A i \in 1..Len(mode_stack) : Open[i] = Append(mode_stack, mode)[i + 1]
  BY <1>2 DEF Open
<1>4. CASE mode = "DocumentStart"
  <2>1. Len(mode_stack) = 0
    BY <1>1, <1>4
  <2>2. Open = <<>>
    BY <1>3, <2>1
  <2> QED BY <1>4, <2>2
<1>5. CASE mode # "DocumentStart"
  <2>1. Len(mode_stack) >= 1
    BY <1>1, <1>5
  <2>2. Open # <<>> /\ Open[Len(Open)] = mode
    BY <1>2, <1>3, <2>1
  <2> QED BY <1>5, <2>2 DEF Last
<1> QED BY <1>4, <1>5

LEMMA OpenPush ==
  ASSUME IInv, NEW m \in {"Array", "Object"}, NEW t, ReturnedStart(m, t)
  PROVE  Open' = Append(Open, m)
<1> DEFINE Mode == {"DocumentStart", "Array", "Object"}
           st == Append(mode_stack, mode)
<1>1. mode \in Mode /\ mode_stack \in Seq(Mode) /\ m \in Mode
  BY DEF IInv, TypeOK
<1> HIDE DEF Mode
<1>2. st \in Seq(Mode) /\ Len(st) >= 1
  BY <1>1
<1>3. Open' = Tail(Append(st, m)) /\ Open = Tail(st)
  BY DEF Open, ReturnedStart
<1> HIDE DEF st
<1>4. Tail(Append(st, m)) = Append(Tail(st), m)
  BY <1>1, <1>2
<1> QED BY <1>3, <1>4

LEMMA OpenPop ==
  ASSUME IInv, NEW t, ReturnedEnd(t)
  PROVE  Open' = Front(Open)
<1> DEFINE Mode == {"DocumentStart", "Array", "Object"}
<1>1. mode \in Mode /\ mode_stack \in Seq(Mode) /\ mode_stack # <<>>
  BY DEF IInv, TypeOK, ReturnedEnd
<1> HIDE DEF Mode
<1>2. Len(mode_stack) >= 1
  BY <1>1
<1>3. Append(Front(mode_stack), Last(mode_stack)) = mode_stack
  BY <1>1, <1>2 DEF Front, Last
<1>4. Open' = Tail(mode_stack)
  BY <1>3 DEF Open, ReturnedEnd
<1>5. Front(Tail(Append(mode_stack, mode))) = Tail(mode_stack)
  <2>1. Tail(Append(mode_stack, mode)) = Append(Tail(mode_stack), mode)
    BY <1>1, <1>2
  <2>2. Tail(mode_stack) \in Seq(Mode)
    BY <1>1
  <2>3. \A q \in Seq(Mode) : SubSeq(Append(q, mode), 1, Len(Append(q, mode)) - 1) = q
    BY <1>1
  <2> QED BY <2>1, <2>2, <2>3 DEF Front
<1> QED BY <1>4, <1>5 DEF Open

LEMMA NextRefines ==
  ASSUME IInv, Next
  PROVE  Tokens!Next \/ (Failed /\ UNCHANGED <<Open, LastToken>>)
<1>0. result /\ Outcome /\ token_type = LastToken
  BY NextOutcome DEF IInv
<1>1. CASE Failed
  BY <1>1 DEF Failed, Open, LastToken
<1>2. ASSUME \/ mode = "DocumentStart"
             \/ mode = "Array"
             \/ mode = "Object" /\ token_type = "PropertyName"
      PROVE  Tokens!ValueDue
  BY <1>0, <1>2, OpenShape 
     DEF Tokens!ValueDue, Tokens!Within, Tokens!Named, Tokens!Last, Last
<1>3. ASSUME Tokens!ValueDue, ReturnedScalar
      PROVE  Tokens!Next
  <2>1. PICK t \in Tokens!Scalars : Returned(t) /\ UNCHANGED <<mode, mode_stack>>
    BY <1>3 DEF ReturnedScalar
  <2>2. LastToken' \in Tokens!Scalars /\ Open' = Open
    BY <2>1 DEF Returned, Open
  <2> QED BY <1>3, <2>2 DEF Tokens!Next, Tokens!Scalar
<1>4. ASSUME Tokens!ValueDue, ReturnedStart("Array", "StartArray")
      PROVE  Tokens!Next
  <2>1. Open' = Append(Open, "Array") /\ LastToken' = "StartArray"
    BY <1>4, OpenPush DEF ReturnedStart, Returned
  <2> QED BY <1>4, <2>1 DEF Tokens!Next, Tokens!Start
<1>5. ASSUME Tokens!ValueDue, ReturnedStart("Object", "StartObject")
      PROVE  Tokens!Next
  <2>1. Open' = Append(Open, "Object") /\ LastToken' = "StartObject"
    BY <1>5, OpenPush DEF ReturnedStart, Returned
  <2> QED BY <1>5, <2>1 DEF Tokens!Next, Tokens!Start
<1>6. ASSUME mode = "Array", ReturnedEnd("EndArray")
      PROVE  Tokens!Next
  <2>1. Open' = Front(Open) /\ LastToken' = "EndArray"
    BY <1>6, OpenPop DEF ReturnedEnd, Returned
  <2>2. Tokens!Within("Array")
    BY <1>6, OpenShape DEF Tokens!Within, Tokens!Last, Last
  <2>3. ~Tokens!Named
    BY <1>6 DEF IInv, Tokens!Named
  <2> QED BY <2>1, <2>2, <2>3 DEF Tokens!Next, Tokens!End, Tokens!Front, Front
<1>7. ASSUME mode = "Object", token_type # "PropertyName",
             ReturnedEnd("EndObject")
      PROVE  Tokens!Next
  <2>1. Open' = Front(Open) /\ LastToken' = "EndObject"
    BY <1>7, OpenPop DEF ReturnedEnd, Returned
  <2>2. Tokens!Within("Object") /\ ~Tokens!Named
    BY <1>0, <1>7, OpenShape
       DEF Tokens!Within, Tokens!Named, Tokens!Last, Last
  <2> QED BY <2>1, <2>2 DEF Tokens!Next, Tokens!End, Tokens!Front, Front
<1>8. ASSUME mode = "Object", token_type # "PropertyName", ReturnedName
      PROVE  Tokens!Next
  <2>1. Open' = Open /\ LastToken' = "PropertyName"
    BY <1>8 DEF ReturnedName, Returned, Open
  <2>2. Tokens!Within("Object") /\ ~Tokens!Named
    BY <1>0, <1>8, OpenShape
       DEF Tokens!Within, Tokens!Named, Tokens!Last, Last
  <2> QED BY <2>1, <2>2 DEF Tokens!Next, Tokens!PropertyName
<1> QED BY <1>0, <1>1, <1>2, <1>3, <1>4, <1>5, <1>6, <1>7, <1>8
        DEF Outcome, ValueRead

\* Whatever the text, the tokens that the reader hands out are those of a
\* stream of JSON values: DeserializePacket may rely on closing tokens that
\* match the opening ones and on names that alternate with values.
THEOREM ReaderTokenStream == Spec => TokenStream
<1>1. Init => Tokens!Init
  BY DEF Init, ReaderInit, Tokens!Init, Open, LastToken
<1>2. IInv /\ [Next]_vars => [Tokens!Next]_<<Open, LastToken>>
  <2>1. UNCHANGED vars => UNCHANGED <<Open, LastToken>>
    BY DEF vars, positionVars, Open, LastToken
  <2> QED BY <2>1, NextRefines
<1>3. IInv /\ [Next]_vars => IInv'
  BY NextIInv, StutterIInv
<1> QED BY <1>1, <1>2, <1>3, InitFresh, InitIInv, PTL DEF Spec, TokenStream, Tokens!Spec

(***************************************************************************)
(* What is read is the text of the tokens.  First, white space.            *)
(***************************************************************************)
Number(x) == x.type \in {"integer", "float", "hugeNumber"}

\* NumbersEnd, of any text.
EndsIn(s) ==
  /\ \A i \in 1..Len(s) : s[i].type # "minus"
  /\ \A i \in 1..(Len(s) - 1) : Number(s[i]) => s[i + 1].type \in Delimiters

LEMMA EndsInTail ==
  ASSUME NEW s \in Seq(Lexeme), s # <<>>, EndsIn(s)
  PROVE  EndsIn(Tail(s))
<1>1. /\ Len(s) \in Nat /\ Len(Tail(s)) = Len(s) - 1
      /\ \A i \in 1..(Len(s) - 1) : Tail(s)[i] = s[i + 1] /\ i + 1 \in 1..Len(s)
  OBVIOUS
<1> QED BY <1>1 DEF EndsIn

\* A part of s that reaches to its end.
LEMMA Suffix ==
  ASSUME NEW s \in Seq(Lexeme), NEW m \in 1..Len(s)
  PROVE  /\ SubSeq(s, m, Len(s)) \in Seq(Lexeme)
         /\ SubSeq(s, 1, m - 1) \in Seq(Lexeme)
         /\ s = SubSeq(s, 1, m - 1) \o SubSeq(s, m, Len(s))
         /\ Len(SubSeq(s, 1, m - 1)) = m - 1
         /\ \A i \in 1..(m - 1) : SubSeq(s, 1, m - 1)[i] = s[i]
         /\ Head(SubSeq(s, m, Len(s))) = s[m]
         /\ SubSeq(s, m, Len(s)) # <<>>
         /\ EndsIn(s) => EndsIn(SubSeq(s, m, Len(s)))
<1> DEFINE u == SubSeq(s, m, Len(s))
           p == SubSeq(s, 1, m - 1)
<1>1. /\ u \in Seq(Lexeme) /\ Len(u) = Len(s) - m + 1 /\ Len(s) \in Nat
      /\ \A i \in 1..Len(u) : u[i] = s[m + i - 1]
  OBVIOUS
<1>2. p \in Seq(Lexeme) /\ Len(p) = m - 1 /\ \A i \in 1..(m - 1) : p[i] = s[i]
  OBVIOUS
<1> HIDE DEF u, p
<1>3. u # <<>> /\ Head(u) = s[m]
  <2>1. 1 \in 1..Len(u) /\ m + 1 - 1 = m
    BY <1>1
  <2>2. u[1] = s[m]
    BY <1>1, <2>1
  <2> QED BY <1>1, <2>1, <2>2
<1>4. s = p \o u
  <2>1. /\ p \o u \in Seq(Lexeme) /\ Len(p \o u) = Len(p) + Len(u)
        /\ \A i \in 1..Len(p) : (p \o u)[i] = p[i]
        /\ \A i \in (Len(p) + 1)..(Len(p) + Len(u)) : (p \o u)[i] = u[i - Len(p)]
    BY <1>1, <1>2, Concat, ConcatAt
  <2> DEFINE pu == p \o u
  <2>2. Len(pu) = Len(s) /\ pu \in Seq(Lexeme)
    BY <1>1, <1>2, <2>1
  <2>3. ASSUME NEW i \in 1..Len(s) PROVE pu[i] = s[i]
    <3>1. CASE i \in 1..(m - 1)
      BY <1>2, <2>1, <3>1
    <3>2. CASE i \notin 1..(m - 1)
      <4>1. i \in (Len(p) + 1)..(Len(p) + Len(u)) /\ i - Len(p) \in 1..Len(u)
            /\ m + (i - Len(p)) - 1 = i
        BY <1>1, <1>2, <3>2
      <4> QED BY <1>1, <2>1, <4>1
    <3> QED BY <3>1, <3>2
  <2> HIDE DEF pu
  <2>4. pu = s
    BY <2>2, <2>3, SeqEqual
  <2> QED BY <2>4 DEF pu
<1>5. ASSUME EndsIn(s) PROVE EndsIn(u)
  <2>3. ASSUME NEW i \in 1..Len(u) PROVE u[i].type # "minus"
    <3>1. m + i - 1 \in 1..Len(s) /\ u[i] = s[m + i - 1]
      BY <1>1
    <3> QED BY <1>5, <3>1 DEF EndsIn
  <2> SUFFICES ASSUME NEW i \in 1..(Len(u) - 1), Number(u[i])
               PROVE  u[i + 1].type \in Delimiters
    BY <2>3 DEF EndsIn
  <2>1. /\ i \in 1..Len(u) /\ i + 1 \in 1..Len(u) /\ m + i - 1 \in 1..(Len(s) - 1)
        /\ m + (i + 1) - 1 = (m + i - 1) + 1
    BY <1>1
  <2>2. u[i] = s[m + i - 1] /\ u[i + 1] = s[(m + i - 1) + 1]
    BY <1>1, <2>1
  <2> QED BY <1>5, <2>1, <2>2 DEF EndsIn
<1> QED BY <1>1, <1>2, <1>3, <1>4, <1>5 DEF u, p

LEMMA FromSuffix ==
  ASSUME NEW s \in Seq(Lexeme), NEW hits, hits \subseteq DOMAIN s, hits # {}
  PROVE  \E m \in 1..Len(s) : /\ m \in hits /\ From(s, hits) = SubSeq(s, m, Len(s))
                               /\ \A i \in 1..(m - 1) : i \notin hits
<1>1. hits \subseteq 1..Len(s) /\ hits \subseteq Nat
  OBVIOUS
<1>2. Min(hits) \in hits /\ \A y \in hits : Min(hits) =< y
  BY <1>1, FirstPosition
<1>3. Min(hits) \in 1..Len(s)
  BY <1>1, <1>2
<1>4. From(s, hits) = SubSeq(s, Min(hits), Len(s))
  BY DEF From
<1>5. \A i \in 1..(Min(hits) - 1) : i \notin hits
  BY <1>2, <1>3
<1> QED BY <1>2, <1>3, <1>4, <1>5

LEMMA SpaceIs ==
  /\ \A x \in Lexeme : x.type = "space" <=> x = Space
  /\ Space \in Lexeme
<1>1. Space \in Lexeme /\ Space.type = "space"
  BY DEF Space, Punct, Lexeme
<1>2. ASSUME NEW x \in Lexeme, x.type = "space" PROVE x = Space
  <2> DEFINE T == {"{", "}", "[", "]", ",", ":", "space", "true", "false", "null"}
  <2>1. x \in [type : T]
    BY <1>2 DEF Lexeme, Broken
  <2> HIDE DEF T
  <2>2. \A y \in [type : T] : y = [type |-> y.type]
    OBVIOUS
  <2> QED BY <1>2, <2>1, <2>2 DEF Space, Punct
<1> QED BY <1>1, <1>2

LEMMA Skipped ==
  ASSUME NEW s \in Seq(Lexeme)
  PROVE  /\ Squeeze(SkipWhitespace(s)) = Squeeze(s)
         /\ EndsIn(s) => EndsIn(SkipWhitespace(s))
         /\ SkipWhitespace(s) # <<>> => Head(SkipWhitespace(s)) # Space
<1> DEFINE hits == {i \in DOMAIN s : s[i].type # "space"}
           u == SkipWhitespace(s)
<1>0. DOMAIN s = 1..Len(s) /\ Len(s) \in Nat /\ \A i \in 1..Len(s) : s[i] \in Lexeme
  OBVIOUS
<1>1. u = From(s, hits) /\ hits \subseteq DOMAIN s
  BY DEF SkipWhitespace
<1>2. \A i \in 1..Len(s) : i \notin hits => s[i] = Space
  BY <1>0, SpaceIs
<1>3. \A i \in hits : s[i] # Space
  BY <1>0, SpaceIs
<1> HIDE DEF hits, u
<1>4. CASE hits = {}
  <2>1. u = <<>>
    BY <1>1, <1>4 DEF From
  <2>2. Squeeze(s) = <<>>
    BY <1>2, <1>4, SqueezeSpaces
  <2>3. EndsIn(<<>>)
    BY DEF EndsIn
  <2> QED BY <2>1, <2>2, <2>3, SqueezeSmall DEF u
<1>5. CASE hits # {}
  <2>1. PICK m \in 1..Len(s) : /\ m \in hits /\ u = SubSeq(s, m, Len(s))
                               /\ \A i \in 1..(m - 1) : i \notin hits
    BY <1>1, <1>5, FromSuffix
  <2> DEFINE p == SubSeq(s, 1, m - 1)
  <2>2. /\ u \in Seq(Lexeme) /\ p \in Seq(Lexeme) /\ s = p \o u /\ Len(p) = m - 1
        /\ \A i \in 1..(m - 1) : p[i] = s[i]
        /\ Head(u) = s[m] /\ (EndsIn(s) => EndsIn(u))
    BY <2>1, Suffix
  <2> HIDE DEF p
  <2>3. \A i \in 1..Len(p) : p[i] = Space
    <3>1. \A i \in 1..(m - 1) : i \in 1..Len(s)
      BY <1>0
    <3> QED BY <1>2, <2>1, <2>2, <3>1
  <2>4. Squeeze(p) = <<>>
    BY <2>2, <2>3, SqueezeSpaces
  <2>5. Squeeze(p \o u) = Squeeze(p) \o Squeeze(u) /\ Squeeze(u) \in Seq(Lexeme)
    BY <2>2, SqueezeConcat
  <2>6. <<>> \o Squeeze(u) = Squeeze(u)
    BY <2>5, ConcatEmpty
  <2>7. Head(u) # Space
    BY <1>3, <2>1, <2>2
  <2> QED BY <2>2, <2>4, <2>5, <2>6, <2>7 DEF u
<1> QED BY <1>4, <1>5

\* A number that ends where it should is read as the lexeme it is.
LEMMA NumberWhole ==
  ASSUME NEW s \in Seq(Lexeme), s # <<>>, EndsIn(s), Number(Head(s))
  PROVE  SkipNumber(Tail(s)) = Tail(s)
<1> DEFINE t == Tail(s)
           hits == {i \in DOMAIN t : t[i].type \in Delimiters}
<1>1. t \in Seq(Lexeme) /\ Len(s) \in Nat /\ Len(t) = Len(s) - 1
      /\ \A i \in 1..Len(t) : t[i] = s[i + 1]
  OBVIOUS
<1>2. Head(s) = s[1]
  OBVIOUS
<1>3. SkipNumber(t) = From(t, hits) /\ hits \subseteq DOMAIN t /\ DOMAIN t = 1..Len(t)
  BY <1>1 DEF SkipNumber
<1>4. CASE t = <<>>
  <2>1. hits = {}
    BY <1>4
  <2> HIDE DEF hits
  <2>2. From(t, hits) = <<>>
    BY <2>1 DEF From
  <2> QED BY <1>3, <1>4, <2>2
<1>5. CASE t # <<>>
  <2>0. Len(t) >= 1
    BY <1>1, <1>5
  <2>1. 1 \in hits
    <3>1. 1 \in 1..(Len(s) - 1) /\ 1 \in 1..Len(t)
      BY <1>1, <2>0
    <3>2. s[1 + 1].type \in Delimiters
      BY <1>2, <3>1 DEF EndsIn
    <3> QED BY <1>1, <1>3, <3>1, <3>2
  <2> HIDE DEF hits
  <2>2. PICK m \in 1..Len(t) : /\ m \in hits /\ From(t, hits) = SubSeq(t, m, Len(t))
                               /\ \A i \in 1..(m - 1) : i \notin hits
    BY <1>1, <1>3, <2>1, FromSuffix
  <2>3. m = 1
    BY <2>1, <2>2
  <2>4. SubSeq(t, 1, Len(t)) = t
    BY <1>1
  <2> QED BY <1>3, <2>2, <2>3, <2>4
<1> QED BY <1>4, <1>5

(***************************************************************************)
(* The lexemes that a token is made of.                                    *)
(***************************************************************************)
LEMMA LexemeIs ==
  ASSUME NEW x \in Lexeme
  PROVE  /\ x.type \in {"{", "}", "[", "]", ",", ":", "true", "false", "null"} =>
              x = Punct(x.type) /\ x # Space
         /\ x.type \in {"string", "integer", "float"} =>
              x = Literal(x.type, x.value) /\ x.value \in Value /\ x # Space
<1> DEFINE T == {"{", "}", "[", "]", ",", ":", "space", "true", "false", "null"}
           L == {"string", "integer", "float"}
<1>0. x.type # "space" => x # Space
  BY DEF Space, Punct
<1>1. x.type \in {"{", "}", "[", "]", ",", ":", "true", "false", "null"} =>
        x \in [type : T] /\ x.type # "space"
  BY DEF Lexeme, Broken
<1>2. x.type \in L => x \in [type : L, value : Value] /\ x.type # "space"
  BY DEF Lexeme, Broken
<1> HIDE DEF T, L
<1>3. \A y \in [type : T] : y = [type |-> y.type]
  OBVIOUS
<1>4. \A y \in [type : L, value : Value] :
        y = [type |-> y.type, value |-> y.value] /\ y.value \in Value
  OBVIOUS
<1>5. x.type \in {"{", "}", "[", "]", ",", ":", "true", "false", "null"} =>
        x = Punct(x.type) /\ x # Space
  BY <1>0, <1>1, <1>3 DEF Punct
<1>6. x.type \in L => x = Literal(x.type, x.value) /\ x.value \in Value /\ x # Space
  BY <1>0, <1>2, <1>4 DEF Literal
<1> QED BY <1>5, <1>6 DEF L

\* Next() has taken the token x from the front of u.
Took(u, x) ==
  /\ x \in Token /\ Sound(x) /\ tokens' = Append(tokens, x)
  /\ EndsIn(u) => EndsIn(rest') /\ Squeeze(u) = Cat(TokenText(x), Squeeze(rest'))

LEMMA TookLexeme ==
  ASSUME NEW u \in Seq(Lexeme), u # <<>>, Head(u) # Space, NEW x \in Token, Sound(x),
         tokens' = Append(tokens, x),
         EndsIn(u) => rest' = Tail(u) /\ TokenText(x) = <<Head(u)>>
  PROVE  Took(u, x)
<1> SUFFICES ASSUME EndsIn(u)
             PROVE  EndsIn(rest') /\ Squeeze(u) = Cat(TokenText(x), Squeeze(rest'))
  BY DEF Took
<1>1. EndsIn(Tail(u))
  BY EndsInTail
<1>2. Squeeze(u) = Cat(<<Head(u)>>, Squeeze(Tail(u)))
  BY SqueezeHead
<1> QED BY <1>1, <1>2

LEMMA ReadValueText ==
  ASSUME IInv, NEW u \in Seq(Lexeme), u # <<>>, ReadValue(u), result'
  PROVE  \E x : Took(u, x) /\ x.type \in Tokens!Scalars \cup Starts
<1> DEFINE h == Head(u)
<1>0. /\ h \in Lexeme
      /\ h.type \in {"{", "}", "[", "]", ",", ":", "true", "false", "null"} =>
           h = Punct(h.type) /\ h # Space
      /\ h.type \in {"string", "integer", "float"} =>
           h = Literal(h.type, h.value) /\ h.value \in Value /\ h # Space
  BY HeadTail, LexemeIs
<1>1. ASSUME NEW t, NEW v, Return(t, v), rest' = Tail(u) \/ ~EndsIn(u),
             NEW x, x = [type |-> t, value |-> v], x \in Token, Sound(x),
             t \in Tokens!Scalars \cup Starts,
             h # Space, EndsIn(u) => TokenText(x) = <<h>>
      PROVE  \E y : Took(u, y) /\ y.type \in Tokens!Scalars \cup Starts
  <2>1. tokens' = Append(tokens, x) /\ x.type = t
    BY <1>1 DEF Return
  <2>2. Took(u, x)
    BY <1>1, <2>1, TookLexeme
  <2> QED BY <1>1, <2>1, <2>2
<1>2. ASSUME NEW c, NEW m, NEW t, ReadContainer(u, c, m, t),
             \/ c = "{" /\ t = "StartObject"
             \/ c = "[" /\ t = "StartArray"
      PROVE  \E y : Took(u, y) /\ y.type \in Tokens!Scalars \cup Starts
  <2> DEFINE x == [type |-> t, value |-> NoValue]
  <2>1. x \in Token /\ Sound(x) /\ t \in Starts
    BY <1>2 DEF Token, Sound, Starts, Tokens!JsonToken
  <2>2. h.type = c /\ Return(t, NoValue) /\ rest' = Tail(u)
    BY <1>2 DEF ReadContainer
  <2>3. h = Punct(c) /\ h # Space
    BY <1>0, <1>2, <2>2
  <2>4. TokenText(x) = <<Punct(c)>>
    BY <1>2 DEF TokenText
  <2> HIDE DEF h
  <2> QED BY <1>1, <2>1, <2>2, <2>3, <2>4
<1>3. ASSUME NEW t \in {"String", "Integer", "Float"}, NEW v \in Value, Return(t, v),
             h # Space,
             EndsIn(u) => rest' = Tail(u) /\ TokenText([type |-> t, value |-> v]) = <<h>>
      PROVE  \E y : Took(u, y) /\ y.type \in Tokens!Scalars \cup Starts
  <2> DEFINE x == [type |-> t, value |-> v]
  <2>1. x \in Token /\ Sound(x) /\ t \in Tokens!Scalars
    BY DEF Token, Sound, Tokens!JsonToken, Tokens!Scalars
  <2> HIDE DEF h
  <2> QED BY <1>1, <1>3, <2>1
<1>4. CASE ReadStringValue(u)
  <2>1. h.type = "string" /\ Return("String", h.value) /\ rest' = Tail(u)
    BY <1>4 DEF ReadStringValue, Fail, FailAtEnd
  <2>2. h = Literal("string", h.value) /\ h.value \in Value /\ h # Space
    BY <1>0, <2>1
  <2>3. TokenText([type |-> "String", value |-> h.value]) = <<Literal("string", h.value)>>
    BY DEF TokenText
  <2> HIDE DEF h
  <2> QED BY <1>3, <2>1, <2>2, <2>3
<1>8. CASE ReadMinus(u)
  <2>1. h.type = "minus" /\ Return("Integer", str_value') /\ str_value' \in Value
    BY <1>8 DEF ReadMinus
  <2>2. h # Space
    BY <2>1 DEF Space, Punct
  <2>3. h = u[1] /\ 1 \in 1..Len(u)
    OBVIOUS
  <2>4. ~EndsIn(u)
    BY <2>1, <2>3 DEF EndsIn
  <2> HIDE DEF h
  <2> QED BY <1>3, <2>1, <2>2, <2>4
<1>5. CASE ReadNumber(u)
  <2> DEFINE after == SkipNumber(Tail(u))
             whole == after = Tail(u)
  <2>1. /\ rest' = after /\ str_value' \in Value
        /\ Number(h) \/ h.type = "minus"
        /\ whole => Number(h) /\ (h.type # "hugeNumber" => str_value' = h.value)
    BY <1>0, <1>5 DEF ReadNumber, Number
  <2>2. PICK t \in {"Integer", "Float"} :
          /\ Return(t, str_value')
          /\ whole => /\ h.type # "hugeNumber"
                      /\ t = IF h.type = "integer" THEN "Integer" ELSE "Float"
    BY <1>5 DEF ReadNumber, Fail
  <2>0. h = u[1] /\ 1 \in 1..Len(u)
    OBVIOUS
  <2>3. EndsIn(u) => whole
    <3>1. EndsIn(u) => Number(h)
      BY <2>0, <2>1 DEF EndsIn
    <3> QED BY <3>1, NumberWhole
  <2> HIDE DEF after, whole
  <2>4. h # Space
    BY <2>1 DEF Number, Space, Punct
  <2>5. ASSUME EndsIn(u)
        PROVE  rest' = Tail(u) /\ TokenText([type |-> t, value |-> str_value']) = <<h>>
    <3>1. whole /\ h.type \in {"integer", "float"} /\ str_value' = h.value
          /\ t = IF h.type = "integer" THEN "Integer" ELSE "Float"
      BY <2>1, <2>2, <2>3, <2>5 DEF Number
    <3>2. h = Literal(h.type, h.value)
      BY <1>0, <3>1
    <3>3. TokenText([type |-> t, value |-> str_value']) = <<Literal(h.type, h.value)>>
      BY <3>1 DEF TokenText
    <3>4. rest' = Tail(u)
      BY <2>1, <3>1 DEF whole
    <3> QED BY <3>2, <3>3, <3>4
  <2> HIDE DEF h
  <2> QED BY <1>3, <2>1, <2>2, <2>4, <2>5
<1>6. CASE ReadKeyword(u)
  <2>1. ASSUME h.type = "null", Return("Null", NoValue), rest' = Tail(u)
        PROVE  \E y : Took(u, y) /\ y.type \in Tokens!Scalars \cup Starts
    <3> DEFINE x == [type |-> "Null", value |-> NoValue]
    <3>1. x \in Token /\ Sound(x) /\ "Null" \in Tokens!Scalars
          /\ TokenText(x) = <<Punct("null")>>
      BY DEF Token, Sound, TokenText, Tokens!JsonToken, Tokens!Scalars
    <3>2. h = Punct("null") /\ h # Space
      BY <1>0, <2>1
    <3> HIDE DEF h
    <3> QED BY <1>1, <2>1, <3>1, <3>2
  <2>2. ASSUME NEW b \in BOOLEAN, h.type \in {"true", "false"}, b = (h.type = "true"),
               Return("Boolean", b), rest' = Tail(u)
        PROVE  \E y : Took(u, y) /\ y.type \in Tokens!Scalars \cup Starts
    <3> DEFINE x == [type |-> "Boolean", value |-> b]
    <3>1. x \in Token /\ Sound(x) /\ "Boolean" \in Tokens!Scalars
      BY DEF Token, Sound, Tokens!JsonToken, Tokens!Scalars
    <3>2. h = Punct(h.type) /\ h # Space
      BY <1>0, <2>2
    <3>3. TokenText(x) = <<Punct(IF b THEN "true" ELSE "false")>>
      BY DEF TokenText
    <3>4. (IF b THEN "true" ELSE "false") = h.type
      BY <2>2
    <3> HIDE DEF h
    <3> QED BY <1>1, <2>2, <3>1, <3>2, <3>3, <3>4
  <2>3. \/ h.type = "null" /\ Return("Null", NoValue) /\ rest' = Tail(u)
        \/ /\ h.type \in {"true", "false"} /\ bool_value' = (h.type = "true")
           /\ Return("Boolean", bool_value') /\ rest' = Tail(u)
    BY <1>6 DEF ReadKeyword, Fail
  <2>4. h.type \in {"true", "false"} /\ bool_value' = (h.type = "true") =>
          bool_value' \in BOOLEAN
    OBVIOUS
  <2> HIDE DEF h
  <2> QED BY <2>1, <2>2, <2>3, <2>4
<1>7. ~Refuse(u)
  BY DEF Refuse, Fail
<1> HIDE DEF h
<1> QED BY <1>2, <1>4, <1>5, <1>6, <1>7, <1>8 DEF ReadValue

LEMMA ReadNameText ==
  ASSUME IInv, NEW u \in Seq(Lexeme), u # <<>>, ReadName(u), result'
  PROVE  \E x : Took(u, x) /\ x.type = "PropertyName"
<1> DEFINE h == Head(u)
           w == SkipWhitespace(Tail(u))
           v == h.value
           x == [type |-> "PropertyName", value |-> v]
<1>1. /\ h.type = "string" /\ w # <<>> /\ rest' = Tail(w) /\ Head(w).type = ":"
      /\ Return("PropertyName", v)
  BY DEF ReadName, Fail, FailAtEnd
<1>2. h \in Lexeme /\ Tail(u) \in Seq(Lexeme) /\ w \in Seq(Lexeme) /\ Head(w) \in Lexeme
  BY <1>1, HeadTail, SkipType
<1>3. h = Literal("string", v) /\ v \in Value /\ h # Space
      /\ Head(w) = Punct(":") /\ Head(w) # Space
  BY <1>1, <1>2, LexemeIs
<1>4. x \in Token /\ Sound(x) /\ tokens' = Append(tokens, x) /\ x.type = "PropertyName"
  BY <1>1, <1>3 DEF Token, Sound, Tokens!JsonToken, Return
<1>5. TokenText(x) = <<Literal("string", v), Punct(":")>>
  BY DEF TokenText
<1> HIDE DEF h, v, w, x
<1>6. ASSUME EndsIn(u)
      PROVE  EndsIn(rest') /\ Squeeze(u) = Cat(TokenText(x), Squeeze(rest'))
  <2>1. /\ Squeeze(u) = Cat(<<h>>, Squeeze(Tail(u))) /\ <<h>> \in Seq(Lexeme)
    BY <1>3, SqueezeHead DEF h
  <2>2. Squeeze(Tail(u)) = Squeeze(w) /\ EndsIn(w)
    BY <1>2, <1>6, EndsInTail, Skipped DEF w
  <2>3. /\ Squeeze(w) = Cat(<<Head(w)>>, Squeeze(Tail(w))) /\ <<Head(w)>> \in Seq(Lexeme)
        /\ Squeeze(Tail(w)) \in Seq(Lexeme)
    BY <1>1, <1>2, <1>3, SqueezeHead
  <2>4. EndsIn(Tail(w))
    BY <1>1, <1>2, <2>2, EndsInTail
  <2> DEFINE a == <<h>>
             b == <<Head(w)>>
             c == Squeeze(Tail(w))
  <2>5. Cat(a, b) = TokenText(x)
    BY <1>2, <1>3, <1>5, TwoElements DEF Cat
  <2>6. a \in Seq(Lexeme) /\ b \in Seq(Lexeme) /\ c \in Seq(Lexeme)
        /\ Squeeze(u) = Cat(a, Cat(b, c))
    BY <2>1, <2>2, <2>3
  <2> HIDE DEF a, b, c
  <2>7. Cat(Cat(a, b), c) = Cat(a, Cat(b, c))
    BY <2>6, CatConcat
  <2> QED BY <1>1, <2>4, <2>5, <2>6, <2>7 DEF c
<1> QED BY <1>4, <1>6 DEF Took

LEMMA PopModeText ==
  ASSUME IInv, NEW u \in Seq(Lexeme), u # <<>>, NEW t, PopMode(u, t), result',
         \/ t = "EndArray" /\ Head(u).type = "]"
         \/ t = "EndObject" /\ Head(u).type = "}"
  PROVE  \E x : Took(u, x) /\ x.type \in Ends
<1> DEFINE x == [type |-> t, value |-> NoValue]
<1>1. Return(t, NoValue) /\ rest' = Tail(u)
  BY DEF PopMode, Fail
<1>2. x \in Token /\ Sound(x) /\ x.type = t /\ t \in Ends
  BY DEF Token, Sound, Ends, Tokens!JsonToken
<1>3. Head(u) \in Lexeme
  BY HeadTail
<1>4. Head(u) = Punct(Head(u).type) /\ Head(u) # Space
  BY <1>3, LexemeIs
<1>5. TokenText(x) = <<Punct(Head(u).type)>>
  BY DEF TokenText
<1>6. tokens' = Append(tokens, x)
  BY <1>1 DEF Return
<1> HIDE DEF x
<1>7. Took(u, x)
  BY <1>1, <1>2, <1>4, <1>5, <1>6, TookLexeme
<1> QED BY <1>2, <1>7

(***************************************************************************)
(* The comma before a token.                                               *)
(***************************************************************************)
CommaDue(t) ==
  /\ mode # "DocumentStart"
  /\ t \notin Ends
  /\ LastToken \notin Starts \cup {"PropertyName"}

CommaText(t) == IF CommaDue(t) THEN <<Punct(",")>> ELSE <<>>

\* Next() has taken the token x, and the comma that is due, from rest.
Stepped(x) ==
  /\ x \in Token /\ Sound(x) /\ tokens' = Append(tokens, x)
  /\ EndsIn(rest) =>
       /\ EndsIn(rest')
       /\ Squeeze(rest) = Cat(CommaText(x.type), Cat(TokenText(x), Squeeze(rest')))

LEMMA SteppedDirectly ==
  ASSUME rest \in Seq(Lexeme), rest' \in Seq(Lexeme), NEW x,
         Took(SkipWhitespace(rest), x), ~CommaDue(x.type)
  PROVE  Stepped(x)
<1> DEFINE y == Cat(TokenText(x), Squeeze(rest'))
<1>1. Squeeze(SkipWhitespace(rest)) = Squeeze(rest)
      /\ (EndsIn(rest) => EndsIn(SkipWhitespace(rest)))
  BY Skipped
<1>2. TokenText(x) \in Seq(Lexeme) /\ Squeeze(rest') \in Seq(Lexeme)
  BY TokenTextSqueezed, SqueezeConcat DEF Took
<1>3. y \in Seq(Lexeme)
  BY <1>2, CatConcat
<1>4. EndsIn(rest) => EndsIn(rest') /\ Squeeze(rest) = y
  BY <1>1 DEF Took
<1> HIDE DEF y
<1>5. Cat(<<>>, y) = y
  BY <1>3, ConcatEmpty DEF Cat
<1>6. CommaText(x.type) = <<>>
  BY DEF CommaText
<1>7. EndsIn(rest) => EndsIn(rest') /\ Squeeze(rest) = Cat(CommaText(x.type), y)
  BY <1>4, <1>5, <1>6
<1> QED BY <1>7 DEF Stepped, Took, y

LEMMA SteppedOverComma ==
  ASSUME rest \in Seq(Lexeme), rest' \in Seq(Lexeme), NEW x, NEW s,
         s = SkipWhitespace(rest), s # <<>>, Head(s).type = ",",
         Took(SkipWhitespace(Tail(s)), x), CommaDue(x.type)
  PROVE  Stepped(x)
<1> DEFINE u == SkipWhitespace(Tail(s))
           y == Cat(TokenText(x), Squeeze(rest'))
<1>1. s \in Seq(Lexeme) /\ Squeeze(s) = Squeeze(rest) /\ (EndsIn(rest) => EndsIn(s))
  BY SkipType, Skipped
<1>2. Head(s) = Punct(",") /\ Head(s) # Space /\ Tail(s) \in Seq(Lexeme)
  BY <1>1, HeadTail, LexemeIs
<1>3. Squeeze(s) = Cat(<<Punct(",")>>, Squeeze(Tail(s)))
  BY <1>1, <1>2, SqueezeHead
<1>4. Squeeze(u) = Squeeze(Tail(s)) /\ (EndsIn(s) => EndsIn(u))
  BY <1>1, <1>2, Skipped, EndsInTail
<1>5. EndsIn(u) => EndsIn(rest') /\ Squeeze(u) = y
  BY DEF Took
<1>6. CommaText(x.type) = <<Punct(",")>>
  BY DEF CommaText
<1> HIDE DEF u, y
<1>7. EndsIn(rest) => EndsIn(rest') /\ Squeeze(rest) = Cat(CommaText(x.type), y)
  BY <1>1, <1>3, <1>4, <1>5, <1>6
<1> QED BY <1>7 DEF Stepped, Took, y

\* The token handed out last tells which container it has opened.
Kinds ==
  /\ LastToken = "StartArray" => mode = "Array"
  /\ LastToken = "StartObject" => mode = "Object"

LEMMA NextText ==
  ASSUME IInv, Kinds, Next, result'
  PROVE  \E x : Stepped(x)
<1> DEFINE s == SkipWhitespace(rest)
           u == SkipWhitespace(Tail(s))
<1>0. /\ rest \in Seq(Lexeme) /\ rest' \in Seq(Lexeme) /\ token_type = LastToken
      /\ s \in Seq(Lexeme)
      /\ s # <<>> => Tail(s) \in Seq(Lexeme) /\ u \in Seq(Lexeme)
  <2>1. rest \in Seq(Lexeme) /\ rest' \in Seq(Lexeme) /\ token_type = LastToken
    BY NextOutcome DEF IInv, TypeOK, DataOK
  <2>2. s \in Seq(Lexeme)
    BY <2>1, SkipType
  <2> HIDE DEF s
  <2>3. s # <<>> => Tail(s) \in Seq(Lexeme) /\ u \in Seq(Lexeme)
    BY <2>2, HeadTail, SkipType
  <2> QED BY <2>1, <2>2, <2>3
<1>a. \A t \in Tokens!Scalars \cup Starts \cup {"PropertyName"} : t \notin Ends
  BY DEF Tokens!Scalars, Starts, Ends
<1>b. ~FailAtEnd(token_type) /\ ~Refuse(s)
  BY DEF FailAtEnd, Refuse, Fail
<1>1. ASSUME s # <<>>, ReadValue(s),
             mode = "DocumentStart" \/ LastToken \in Starts \cup {"PropertyName"}
      PROVE  \E x : Stepped(x)
  <2>1. PICK x : Took(s, x) /\ x.type \in Tokens!Scalars \cup Starts
    BY <1>0, <1>1, ReadValueText
  <2>2. ~CommaDue(x.type)
    BY <1>1 DEF CommaDue
  <2> QED BY <1>0, <2>1, <2>2, SteppedDirectly
<1>2. ASSUME s # <<>>, NEW t, PopMode(s, t),
             \/ t = "EndArray" /\ Head(s).type = "]"
             \/ t = "EndObject" /\ Head(s).type = "}"
      PROVE  \E x : Stepped(x)
  <2>1. PICK x : Took(s, x) /\ x.type \in Ends
    BY <1>0, <1>2, PopModeText
  <2>2. ~CommaDue(x.type)
    BY <2>1 DEF CommaDue
  <2> QED BY <1>0, <2>1, <2>2, SteppedDirectly
<1>3. ASSUME s # <<>>, Head(s).type = ",", u # <<>>, mode # "DocumentStart",
             LastToken \notin Starts \cup {"PropertyName"}, ReadValue(u) \/ ReadName(u)
      PROVE  \E x : Stepped(x)
  <2>1. PICK x : Took(u, x) /\ x.type \in Tokens!Scalars \cup Starts \cup {"PropertyName"}
    <3> HIDE DEF u
    <3> QED BY <1>0, <1>3, ReadValueText, ReadNameText
  <2>2. CommaDue(x.type)
    BY <1>a, <1>3, <2>1 DEF CommaDue
  <2> HIDE DEF s
  <2>3. s = SkipWhitespace(rest)
    BY DEF s
  <2> QED BY <1>0, <1>3, <2>1, <2>2, <2>3, SteppedOverComma
<1>4. CASE NextAtEnd
  BY <1>b, <1>4 DEF NextAtEnd
<1>5. CASE NextInDocument
  <2>1. s # <<>> /\ mode = "DocumentStart" /\ ReadValue(s)
    BY <1>5 DEF NextInDocument
  <2> QED BY <1>1, <2>1
<1>6. CASE NextInArray
  <2>1. s # <<>> /\ mode = "Array"
    BY <1>6 DEF NextInArray
  <2>2. \/ Head(s).type = "]" /\ PopMode(s, "EndArray")
        \/ token_type = "StartArray" /\ ReadValue(s)
        \/ token_type # "StartArray" /\ AfterComma(s, ReadValue)
    BY <1>6 DEF NextInArray
  <2>3. AfterComma(s, ReadValue) => Head(s).type = "," /\ u # <<>> /\ ReadValue(u)
    BY <1>b DEF AfterComma
  <2>4. LastToken \notin {"StartObject", "PropertyName"}
    BY <2>1 DEF Kinds, IInv
  <2> HIDE DEF s, u
  <2>5. CASE token_type = "StartArray" /\ ReadValue(s)
    BY <1>0, <1>1, <2>1, <2>5 DEF Starts
  <2>6. CASE token_type # "StartArray" /\ AfterComma(s, ReadValue)
    BY <1>0, <1>3, <2>1, <2>3, <2>4, <2>6 DEF Starts
  <2> QED BY <1>2, <2>1, <2>2, <2>5, <2>6
<1>7. CASE NextInObject
  <2>1. s # <<>> /\ mode = "Object"
    BY <1>7 DEF NextInObject
  <2>2. \/ token_type = "PropertyName" /\ ReadValue(s)
        \/ Head(s).type = "}" /\ PopMode(s, "EndObject")
        \/ token_type = "StartObject" /\ ReadName(s)
        \/ /\ token_type \notin {"PropertyName", "StartObject"}
           /\ AfterComma(s, ReadName)
    BY <1>7 DEF NextInObject
  <2>3. AfterComma(s, ReadName) => Head(s).type = "," /\ u # <<>> /\ ReadName(u)
    BY <1>b DEF AfterComma
  <2>4. LastToken # "StartArray"
    BY <2>1 DEF Kinds
  <2> HIDE DEF s, u
  <2>5. CASE token_type = "PropertyName" /\ ReadValue(s)
    BY <1>0, <1>1, <2>1, <2>5
  <2>6. CASE token_type = "StartObject" /\ ReadName(s)
    <3>1. PICK x : Took(s, x)
      BY <1>0, <2>1, <2>6, ReadNameText
    <3>2. ~CommaDue(x.type)
      BY <1>0, <2>6 DEF CommaDue, Starts
    <3> QED BY <1>0, <3>1, <3>2, SteppedDirectly DEF s
  <2>7. CASE /\ token_type \notin {"PropertyName", "StartObject"}
             /\ AfterComma(s, ReadName)
    BY <1>0, <1>3, <2>1, <2>3, <2>4, <2>7 DEF Starts
  <2> QED BY <1>2, <2>1, <2>2, <2>5, <2>6, <2>7
<1> QED BY <1>4, <1>5, <1>6, <1>7 DEF Next

(***************************************************************************)
(* The inductive invariant of ReadsJson.                                   *)
(***************************************************************************)
TextInv ==
  /\ IInv
  /\ Kinds
  /\ AllSound(tokens)
  /\ Depth(tokens, Len(tokens)) = Len(mode_stack)
  /\ result /\ EndsIn(source) =>
       EndsIn(rest) /\ Squeeze(source) = Cat(Canonical(tokens), Squeeze(rest))

\* The reader asks for a comma where the grammar does.
LEMMA CommaIsSeparator ==
  ASSUME TextInv, NEW x \in Token
  PROVE  Separator(Append(tokens, x), Len(tokens) + 1) = CommaText(x.type)
<1> DEFINE n == Len(tokens)
           a == Append(tokens, x)
<1>0. tokens \in Seq(Token) /\ mode_stack \in Seq({"DocumentStart", "Array", "Object"})
      /\ (mode = "DocumentStart" <=> mode_stack = <<>>)
      /\ Depth(tokens, n) = Len(mode_stack)
  BY DEF TextInv, IInv, TypeOK, PopsWhatItPushed
<1>1. /\ n \in Nat /\ a[n + 1] = x /\ \A i \in 1..n : a[i] = tokens[i]
      /\ n > 0 <=> tokens # <<>>
  BY <1>0, Appended
<1>2. Depth(a, n) = Len(mode_stack)
  <2>1. Depth(a, n) = Depth(tokens, n)
    BY <1>0, <1>1, DepthAppend
  <2> QED BY <1>0, <2>1
<1>3. n > 0 => a[n].type = LastToken
  BY <1>1 DEF LastToken, Last
<1>4. n = 0 => Len(mode_stack) = 0
  <2>1. n = 0 => tokens = <<>>
    BY <1>1
  <2>2. n = 0 => Depth(tokens, n) = 0
    BY <2>1, DepthNone
  <2> QED BY <1>0, <2>2
<1>5. mode = "DocumentStart" <=> ~(Len(mode_stack) > 0)
  BY <1>0
<1>6. (n + 1) - 1 = n /\ (n + 1 > 1 <=> n > 0)
  BY <1>1
<1> HIDE DEF a
<1>7. Separator(a, n + 1) =
        IF n > 0 /\ Len(mode_stack) > 0 /\ x.type \notin Ends
             /\ LastToken \notin Starts \cup {"PropertyName"}
        THEN <<Punct(",")>> ELSE <<>>
  BY <1>1, <1>2, <1>3, <1>6 DEF Separator
<1>8. Len(mode_stack) > 0 => n > 0
  BY <1>1, <1>4
<1> QED BY <1>5, <1>7, <1>8 DEF a, CommaText, CommaDue

LEMMA InitTextInv == Fresh => TextInv
<1> SUFFICES ASSUME Fresh PROVE TextInv
  OBVIOUS
<1>1. IInv
  BY InitIInv
<1>2. /\ source = rest /\ mode_stack = <<>> /\ tokens = <<>> /\ rest \in Seq(Lexeme)
  BY <1>1 DEF Fresh, ReaderInit, IInv, TypeOK
<1>3. Kinds /\ AllSound(tokens)
  BY <1>2 DEF Kinds, LastToken, AllSound
<1>4. Depth(tokens, Len(tokens)) = Len(mode_stack)
  <2>1. Len(tokens) = 0 /\ Len(mode_stack) = 0
    BY <1>2
  <2> QED BY <1>2, <2>1, DepthNone
<1>5. Squeeze(source) = Cat(Canonical(tokens), Squeeze(rest))
  <2>1. Squeeze(rest) \in Seq(Lexeme)
    BY <1>2, SqueezeConcat
  <2>2. <<>> \o Squeeze(rest) = Squeeze(rest)
    BY <2>1, ConcatEmpty
  <2> QED BY <1>2, <2>2, CanonicalEmpty DEF Cat
<1> QED BY <1>1, <1>2, <1>3, <1>4, <1>5 DEF TextInv

LEMMA NextTextInv ==
  ASSUME TextInv, Next
  PROVE  TextInv'
<1>0. IInv /\ Kinds /\ AllSound(tokens) /\ Depth(tokens, Len(tokens)) = Len(mode_stack)
      /\ result /\ Outcome /\ DataOK' /\ IInv'
  BY NextOutcome, NextIInv, SMTT(40) DEF TextInv
<1>1. source' = source
  BY DEF Next, NextAtEnd, NextInDocument, NextInArray, NextInObject, PopMode, AfterComma,
         ReadValue, ReadName, ReadContainer, ReadStringValue, ReadMinus, ReadNumber, ReadKeyword,
         Refuse, Return, Fail, FailAtEnd
<1>2. Kinds'
  <2>1. CASE Failed
    BY <1>0, <2>1 DEF Failed, Kinds, LastToken
  <2>2. CASE ~Failed
    BY <1>0, <2>2 DEF Outcome, ValueRead, ReturnedScalar, ReturnedStart, ReturnedEnd,
                      ReturnedName, Returned, Kinds, Tokens!Scalars
  <2> QED BY <2>1, <2>2
<1>3. CASE Failed
  <2>1. result' = FALSE /\ tokens' = tokens /\ mode_stack' = mode_stack
    BY <1>3 DEF Failed
  <2> QED BY <1>0, <1>2, <2>1 DEF TextInv
<1>4. CASE ~Failed
  <2>1. result' = TRUE
    BY <1>0, <1>4 DEF Outcome, ValueRead, ReturnedScalar, ReturnedStart, ReturnedEnd,
                      ReturnedName, Returned
  <2>2. PICK x : Stepped(x)
    BY <1>0, <2>1, NextText
  <2> DEFINE n == Len(tokens)
             tt == TokenText(x)
             sep == CommaText(x.type)
  <2>3. tokens \in Seq(Token) /\ x \in Token /\ Sound(x) /\ tokens' = Append(tokens, x)
    BY <1>0, <2>2 DEF Stepped, IInv
  <2>4. /\ n \in Nat /\ Len(tokens') = n + 1 /\ DOMAIN tokens' = 1..(n + 1)
        /\ DOMAIN tokens = 1..n /\ tokens' # <<>>
        /\ \A i \in 1..n : tokens'[i] = tokens[i]
        /\ tokens'[n + 1] = x
    BY <2>3, Appended
  <2>5. AllSound(tokens')
    BY <1>0, <2>3, <2>4 DEF AllSound
  <2>6. LastToken' = x.type
    BY <2>4 DEF LastToken, Last
  <2>7. Depth(tokens', Len(tokens')) = Len(mode_stack')
    <3>1. mode_stack \in Seq({"DocumentStart", "Array", "Object"})
          /\ mode \in {"DocumentStart", "Array", "Object"}
      BY <1>0 DEF IInv, TypeOK
    <3>2. Depth(tokens', n + 1) =
            CASE x.type \in Starts -> Len(mode_stack) + 1
              [] x.type \in Ends -> Len(mode_stack) - 1
              [] OTHER -> Len(mode_stack)
      BY <1>0, <2>3, DepthAppend
    <3>3. \/ /\ x.type \in Tokens!Scalars \cup {"PropertyName"} /\ mode_stack' = mode_stack
          \/ /\ x.type \in Starts /\ mode_stack' = Append(mode_stack, mode)
          \/ /\ x.type \in Ends /\ mode_stack # <<>> /\ mode_stack' = Front(mode_stack)
      BY <1>0, <1>4, <2>6 DEF Outcome, ValueRead, ReturnedScalar, ReturnedStart,
                              ReturnedEnd, ReturnedName, Returned, Starts, Ends
    <3>4. /\ Len(Append(mode_stack, mode)) = Len(mode_stack) + 1
          /\ mode_stack # <<>> => Len(Front(mode_stack)) = Len(mode_stack) - 1
      BY <3>1, FrontOf DEF Front
    <3>5. /\ x.type \in Starts => x.type \notin Ends \cup Tokens!Scalars \cup {"PropertyName"}
          /\ x.type \in Ends => x.type \notin Tokens!Scalars \cup {"PropertyName"}
      BY DEF Starts, Ends, Tokens!Scalars
    <3> QED BY <2>4, <3>2, <3>3, <3>4, <3>5
  <2>8. ASSUME EndsIn(source)
        PROVE  EndsIn(rest') /\ Squeeze(source) = Cat(Canonical(tokens'), Squeeze(rest'))
    <3>1. EndsIn(rest) /\ Squeeze(source) = Cat(Canonical(tokens), Squeeze(rest))
      BY <1>0, <2>8 DEF TextInv
    <3>2. EndsIn(rest') /\ Squeeze(rest) = Cat(sep, Cat(tt, Squeeze(rest')))
      BY <2>2, <3>1 DEF Stepped
    <3>3. /\ Canonical(tokens') = Cat(Canonical(tokens), Cat(sep, tt))
          /\ Canonical(tokens) \in Seq(Lexeme)
      <4>1. Separator(Append(tokens, x), n + 1) = sep
        BY <2>3, CommaIsSeparator
      <4> HIDE DEF sep, tt
      <4>2. /\ Canonical(Append(tokens, x)) =
                 Canonical(tokens) \o (Separator(Append(tokens, x), n + 1) \o TokenText(x))
            /\ Canonical(tokens) \in Seq(Lexeme)
        BY <1>0, <2>3, CanonicalAppend
      <4> QED BY <2>3, <4>1, <4>2 DEF Cat, tt
    <3>4. tt \in Seq(Lexeme) /\ sep \in Seq(Lexeme) /\ Squeeze(rest') \in Seq(Lexeme)
      <4>1. tt \in Seq(Lexeme)
        BY <2>3, TokenTextSqueezed
      <4>2. Squeeze(rest') \in Seq(Lexeme)
        BY <1>0, SqueezeConcat DEF DataOK
      <4>3. sep \in Seq(Lexeme)
        BY <2>3, CommaIsSeparator, SeparatorType
      <4> QED BY <4>1, <4>2, <4>3
    <3> DEFINE c == Canonical(tokens)
               r == Squeeze(rest')
    <3>5. c \in Seq(Lexeme) /\ r \in Seq(Lexeme)
      BY <3>3, <3>4
    <3> HIDE DEF c, r, tt, sep
    <3>6. Cat(c, Cat(sep, Cat(tt, r))) = Cat(Cat(c, Cat(sep, tt)), r)
      BY <3>4, <3>5, CatFour
    <3> QED BY <3>1, <3>2, <3>3, <3>6 DEF c, r
  <2> QED BY <1>0, <1>1, <1>2, <2>5, <2>7, <2>8 DEF TextInv
<1> QED BY <1>3, <1>4

LEMMA StutterTextInv == TextInv /\ UNCHANGED vars => TextInv'
<1> SUFFICES ASSUME TextInv, UNCHANGED vars PROVE TextInv'
  OBVIOUS
<1>1. IInv'
  BY StutterIInv DEF TextInv
<1> QED BY <1>1 DEF TextInv, vars, positionVars, Kinds, LastToken

\* Whatever text is read in which every number has a digit and ends at a
\* delimiter, as long as Next() has returned true: the text that was consumed
\* is, white space apart, the text of the tokens that were handed out.  Every
\* comma and colon was there, none was there that should not be, and the
\* accessors show the value of the token and not of an earlier one.
THEOREM ReaderReadsJson == Spec => []ReadsJson
<1>1. TextInv => ReadsJson
  BY DEF TextInv, ReadsJson, NumbersEnd, EndsIn, Number, Cat
<1>2. TextInv /\ [Next]_vars => TextInv'
  BY NextTextInv, StutterTextInv
<1> QED BY <1>1, <1>2, InitFresh, InitTextInv, PTL DEF Spec

(***************************************************************************)
(* The other direction: where the text goes on with a token that has its   *)
(* place there, Next() returns that token.                                 *)
(***************************************************************************)
LEMMA CatHead ==
  ASSUME NEW S, NEW a \in S, NEW b \in S, NEW s \in Seq(S), NEW t \in Seq(S),
         Cat(<<a>>, s) = Cat(<<b>>, t)
  PROVE  a = b /\ s = t
<1>1. \A x \in S : \A r \in Seq(S) : Head(<<x>> \o r) = x /\ Tail(<<x>> \o r) = r
  OBVIOUS
<1> QED BY <1>1 DEF Cat

LEMMA SkippedHead ==
  ASSUME NEW v \in Seq(Lexeme), NEW l \in Lexeme, NEW r \in Seq(Lexeme),
         Squeeze(v) = Cat(<<l>>, r)
  PROVE  /\ SkipWhitespace(v) \in Seq(Lexeme)
         /\ SkipWhitespace(v) # <<>>
         /\ Head(SkipWhitespace(v)) = l
         /\ Tail(SkipWhitespace(v)) \in Seq(Lexeme)
         /\ Squeeze(Tail(SkipWhitespace(v))) = r
         /\ EndsIn(v) => EndsIn(SkipWhitespace(v))
<1> DEFINE u == SkipWhitespace(v)
<1>1. u \in Seq(Lexeme) /\ Squeeze(u) = Squeeze(v) /\ (EndsIn(v) => EndsIn(u))
      /\ (u # <<>> => Head(u) # Space)
  BY SkipType, Skipped
<1> HIDE DEF u
<1>2. u # <<>>
  <2>1. \A x \in Lexeme : \A t \in Seq(Lexeme) : <<x>> \o t # <<>>
    OBVIOUS
  <2>2. Cat(<<l>>, r) # <<>>
    BY <2>1 DEF Cat
  <2> QED BY <1>1, <2>2, SqueezeSmall
<1>3. Head(u) \in Lexeme /\ Tail(u) \in Seq(Lexeme)
  BY <1>1, <1>2, HeadTail
<1>4. Squeeze(u) = Cat(<<Head(u)>>, Squeeze(Tail(u))) /\ Squeeze(Tail(u)) \in Seq(Lexeme)
  BY <1>1, <1>2, SqueezeHead
<1> DEFINE h == Head(u)
           t == Squeeze(Tail(u))
<1>5. h \in Lexeme /\ t \in Seq(Lexeme) /\ Cat(<<h>>, t) = Cat(<<l>>, r)
  BY <1>1, <1>3, <1>4
<1> HIDE DEF h, t
<1>6. h = l /\ t = r
  BY <1>5, CatHead
<1> QED BY <1>1, <1>2, <1>3, <1>6 DEF u, h, t

\* Next() returns true with the token x, and leaves left to be read.
Reads(x, left) ==
  /\ result' = TRUE
  /\ tokens' = Append(tokens, x)
  /\ error_code' = error_code
  /\ Squeeze(rest') = left

\* A token as Next() returns it.
Regular(x) ==
  /\ Sound(x)
  /\ x = [type |-> x.type, value |-> x.value]
  /\ x.type \in Starts \cup Ends \cup {"Null"} => x.value = NoValue

\* The lexeme of a token that has only one.
Spells(l, x) ==
  \/ x = [type |-> "StartArray", value |-> NoValue] /\ l.type = "["
  \/ x = [type |-> "EndArray", value |-> NoValue] /\ l.type = "]"
  \/ x = [type |-> "StartObject", value |-> NoValue] /\ l.type = "{"
  \/ x = [type |-> "EndObject", value |-> NoValue] /\ l.type = "}"
  \/ x = [type |-> "Null", value |-> NoValue] /\ l.type = "null"
  \/ x = [type |-> "String", value |-> l.value] /\ l.type = "string"
  \/ x = [type |-> "Integer", value |-> l.value] /\ l.type = "integer"
  \/ x = [type |-> "Float", value |-> l.value] /\ l.type = "float"
  \/ /\ x = [type |-> "Boolean", value |-> l.type = "true"]
     /\ l.type \in {"true", "false"}

LEMMA OneLexeme ==
  ASSUME NEW x, Regular(x), x.type # "PropertyName"
  PROVE  \E l \in Lexeme :
           TokenText(x) = <<l>> /\ Spells(l, x)
<1>1. \A t \in {"{", "}", "[", "]", "true", "false", "null"} :
        Punct(t) \in Lexeme /\ Punct(t).type = t
  BY DEF Punct, Lexeme
<1>2. \A t \in {"string", "integer", "float"} : \A v \in Value :
        /\ Literal(t, v) \in Lexeme /\ Literal(t, v).type = t
        /\ Literal(t, v).value = v
  BY DEF Literal, Lexeme
<1>3. CASE x.type \in Starts \cup Ends \cup {"Null"}
  BY <1>1, <1>3 DEF Regular, TokenText, Starts, Ends, Spells
<1>4. CASE x.type \in {"String", "Integer", "Float"}
  <2>1. x.value \in Value
    BY <1>4 DEF Regular, Sound, Starts, Ends
  <2> DEFINE t == CASE x.type = "String" -> "string"
                    [] x.type = "Integer" -> "integer"
                    [] x.type = "Float" -> "float"
  <2>2. TokenText(x) = <<Literal(t, x.value)>>
    BY <1>4 DEF TokenText
  <2>3. /\ x = [type |-> x.type, value |-> x.value]
        /\ \/ x.type = "String" /\ t = "string"
           \/ x.type = "Integer" /\ t = "integer"
           \/ x.type = "Float" /\ t = "float"
    BY <1>4 DEF Regular
  <2> HIDE DEF t
  <2>4. /\ Literal(t, x.value) \in Lexeme /\ Literal(t, x.value).type = t
        /\ Literal(t, x.value).value = x.value
    BY <1>2, <2>1, <2>3
  <2>5. Spells(Literal(t, x.value), x)
    BY <2>3, <2>4 DEF Spells
  <2> QED BY <2>2, <2>4, <2>5
<1>5. CASE x.type = "Boolean"
  <2>1. x.value \in BOOLEAN
    BY <1>5 DEF Regular, Sound, Starts, Ends
  <2> DEFINE t == IF x.value THEN "true" ELSE "false"
  <2>2. TokenText(x) = <<Punct(t)>>
    BY <1>5 DEF TokenText
  <2>3. t \in {"true", "false"} /\ (t = "true") = x.value
    BY <2>1
  <2> HIDE DEF t
  <2>4. Punct(t) \in Lexeme /\ Punct(t).type = t
    BY <1>1, <2>3
  <2>5. x = [type |-> "Boolean", value |-> x.value]
    BY <1>5 DEF Regular
  <2>6. x = [type |-> "Boolean", value |-> Punct(t).type = "true"]
    BY <2>3, <2>4, <2>5
  <2>7. Spells(Punct(t), x)
    BY <2>3, <2>4, <2>6 DEF Spells
  <2> QED BY <2>2, <2>4, <2>7
<1> QED BY <1>3, <1>4, <1>5 DEF Regular, Sound

LEMMA ReadValueReads ==
  ASSUME IInv, NEW u \in Seq(Lexeme), u # <<>>, EndsIn(u), ReadValue(u),
         NEW x, Regular(x), x.type \in Tokens!Scalars \cup Starts,
         TokenText(x) = <<Head(u)>>
  PROVE  Reads(x, Squeeze(Tail(u)))
<1> DEFINE h == Head(u)
<1>0. PICK l \in Lexeme :
           TokenText(x) = <<l>> /\ Spells(l, x)
  <2>1. x.type # "PropertyName"
    BY DEF Tokens!Scalars, Starts
  <2> QED BY <2>1, OneLexeme
<1>1. l = h /\ Spells(h, x)
  <2>1. \A a, b : <<a>> = <<b>> => a = b
    OBVIOUS
  <2> QED BY <1>0, <2>1
<1>2. ASSUME NEW t, NEW v, Return(t, v), rest' = Tail(u), x = [type |-> t, value |-> v]
      PROVE  Reads(x, Squeeze(Tail(u)))
  BY <1>2 DEF Return, Reads
<1>3. x.type \notin Ends
  BY DEF Tokens!Scalars, Starts, Ends
<1> HIDE DEF h
<1>4. CASE h.type = "["
  <2>1. ReadContainer(u, "[", "Array", "StartArray")
    BY <1>4 DEF h, ReadValue, ReadContainer, ReadStringValue, ReadMinus, ReadNumber,
                ReadKeyword, NoInitialChar
  <2>2. x = [type |-> "StartArray", value |-> NoValue]
    BY <1>1, <1>4 DEF Spells
  <2> QED BY <1>2, <2>1, <2>2 DEF ReadContainer
<1>5. CASE h.type = "{"
  <2>1. ReadContainer(u, "{", "Object", "StartObject")
    BY <1>5 DEF h, ReadValue, ReadContainer, ReadStringValue, ReadMinus, ReadNumber,
                ReadKeyword, NoInitialChar
  <2>2. x = [type |-> "StartObject", value |-> NoValue]
    BY <1>1, <1>5 DEF Spells
  <2> QED BY <1>2, <2>1, <2>2 DEF ReadContainer
<1>6. CASE h.type = "null"
  <2>1. Return("Null", NoValue) /\ rest' = Tail(u)
    BY <1>6 DEF h, ReadValue, ReadContainer, ReadStringValue, ReadMinus, ReadNumber,
                ReadKeyword, NoInitialChar
  <2>2. x = [type |-> "Null", value |-> NoValue]
    BY <1>1, <1>6 DEF Spells
  <2> QED BY <1>2, <2>1, <2>2
<1>7. CASE h.type = "string"
  <2>1. Return("String", h.value) /\ rest' = Tail(u)
    BY <1>7 DEF h, ReadValue, ReadContainer, ReadStringValue, ReadMinus, ReadNumber,
                ReadKeyword, NoInitialChar
  <2>2. x = [type |-> "String", value |-> h.value]
    BY <1>1, <1>7 DEF Spells
  <2> QED BY <1>2, <2>1, <2>2
<1>8. CASE h.type \in {"true", "false"}
  <2>1. Return("Boolean", h.type = "true") /\ rest' = Tail(u)
    BY <1>8 DEF h, ReadValue, ReadContainer, ReadStringValue, ReadMinus, ReadNumber,
                ReadKeyword, NoInitialChar
  <2>2. x = [type |-> "Boolean", value |-> h.type = "true"]
    BY <1>1, <1>8 DEF Spells
  <2> QED BY <1>2, <2>1, <2>2
<1>9. CASE h.type \in {"integer", "float"}
  <2>1. SkipNumber(Tail(u)) = Tail(u)
    BY <1>9, NumberWhole DEF h, Number
  <2>2. ReadNumber(u)
    BY <1>9 DEF h, ReadValue, ReadContainer, ReadStringValue, ReadMinus, ReadKeyword,
                NoInitialChar
  <2> DEFINE t == IF h.type = "integer" THEN "Integer" ELSE "Float"
  <2>3. Return(t, h.value) /\ rest' = Tail(u)
    BY <1>9, <2>1, <2>2 DEF h, ReadNumber
  <2>4. x = [type |-> t, value |-> h.value]
    BY <1>1, <1>9 DEF Spells
  <2> HIDE DEF t
  <2> QED BY <1>2, <2>3, <2>4
<1>10. h.type \in {"[", "{", "null", "string", "true", "false", "integer", "float"}
  <2>1. h.type # "]" /\ h.type # "}"
    <3>1. CASE h.type = "]"
      <4>1. x = [type |-> "EndArray", value |-> NoValue]
        BY <1>1, <3>1 DEF Spells
      <4> QED BY <1>3, <4>1 DEF Ends
    <3>2. CASE h.type = "}"
      <4>1. x = [type |-> "EndObject", value |-> NoValue]
        BY <1>1, <3>2 DEF Spells
      <4> QED BY <1>3, <4>1 DEF Ends
    <3> QED BY <3>1, <3>2
  <2>2. Spells(h, x) => h.type \in {"[", "{", "null", "string", "true", "false",
                                    "integer", "float", "]", "}"}
    BY DEF Spells
  <2> QED BY <1>1, <2>1, <2>2
<1> QED BY <1>4, <1>5, <1>6, <1>7, <1>8, <1>9, <1>10

LEMMA ReadNameReads ==
  ASSUME IInv, NEW u \in Seq(Lexeme), u # <<>>, ReadName(u), Head(u).type = "string",
         NEW left \in Seq(Lexeme), Squeeze(Tail(u)) = Cat(<<Punct(":")>>, left)
  PROVE  Reads([type |-> "PropertyName", value |-> Head(u).value], left)
<1> DEFINE w == SkipWhitespace(Tail(u))
<1>1. Tail(u) \in Seq(Lexeme) /\ Punct(":") \in Lexeme /\ Punct(":").type = ":"
  BY HeadTail DEF Punct, Lexeme
<1>2. w # <<>> /\ Head(w).type = ":" /\ Squeeze(Tail(w)) = left
  BY <1>1, SkippedHead
<1>3. Return("PropertyName", Head(u).value) /\ rest' = Tail(w)
  BY <1>2 DEF ReadName
<1> QED BY <1>2, <1>3 DEF Return, Reads

\* A token of type t has its place here.
Fits(t) ==
  \/ /\ t \in Tokens!Scalars \cup Starts
     /\ mode \in {"DocumentStart", "Array"} \/ LastToken = "PropertyName"
  \/ t = "EndArray" /\ mode = "Array"
  \/ t \in {"EndObject", "PropertyName"} /\ mode = "Object" /\ LastToken # "PropertyName"

\* The text of x begins with the lexeme l.
LEMMA FirstLexeme ==
  ASSUME NEW x, Regular(x), NEW left \in Seq(Lexeme)
  PROVE  \E l \in Lexeme, more \in Seq(Lexeme) :
           /\ Cat(TokenText(x), left) = Cat(<<l>>, more)
           /\ \/ /\ x.type # "PropertyName"
                 /\ TokenText(x) = <<l>> /\ Spells(l, x) /\ more = left
              \/ /\ x.type = "PropertyName" /\ l.type = "string"
                 /\ x = [type |-> "PropertyName", value |-> l.value]
                 /\ more = Cat(<<Punct(":")>>, left)
<1>1. CASE x.type # "PropertyName"
  BY <1>1, OneLexeme
<1>2. CASE x.type = "PropertyName"
  <2> DEFINE l == Literal("string", x.value)
             c == Punct(":")
  <2>1. x.value \in Value /\ x = [type |-> "PropertyName", value |-> x.value]
    BY <1>2 DEF Regular, Sound, Starts, Ends
  <2>2. l \in Lexeme /\ c \in Lexeme /\ l.value = x.value /\ l.type = "string"
    BY <2>1 DEF Literal, Punct, Lexeme
  <2>3. TokenText(x) = <<l, c>> /\ c = Punct(":")
    BY <1>2 DEF TokenText
  <2> HIDE DEF l, c
  <2>4. <<l, c>> = Cat(<<l>>, <<c>>)
    BY <2>2, TwoElements DEF Cat
  <2> DEFINE a == <<l>>
             b == <<c>>
  <2>5. a \in Seq(Lexeme) /\ b \in Seq(Lexeme)
    BY <2>2
  <2> HIDE DEF a, b
  <2>6. Cat(Cat(a, b), left) = Cat(a, Cat(b, left)) /\ Cat(b, left) \in Seq(Lexeme)
    BY <2>5, CatConcat
  <2>7. Cat(Cat(<<l>>, <<c>>), left) = Cat(<<l>>, Cat(<<c>>, left))
        /\ Cat(<<c>>, left) \in Seq(Lexeme)
    BY <2>6 DEF a, b
  <2>8. Cat(TokenText(x), left) = Cat(<<l>>, Cat(<<Punct(":")>>, left))
         /\ Cat(<<Punct(":")>>, left) \in Seq(Lexeme)
    BY <2>3, <2>4, <2>7
  <2>9. x = [type |-> "PropertyName", value |-> l.value]
    BY <2>1, <2>2
  <2> QED BY <1>2, <2>2, <2>8, <2>9
<1> QED BY <1>1, <1>2

LEMMA PopModeReads ==
  ASSUME IInv, NEW u, NEW t, PopMode(u, t), mode # "DocumentStart",
         NEW x, x = [type |-> t, value |-> NoValue]
  PROVE  Reads(x, Squeeze(Tail(u)))
<1>1. mode_stack # <<>>
  BY DEF IInv, PopsWhatItPushed
<1> QED BY <1>1 DEF PopMode, Return, Reads

\* Behind a comma.
LEMMA CommaReads ==
  ASSUME IInv, Kinds, Next, EndsIn(rest), NEW x, Regular(x), Fits(x.type),
         CommaDue(x.type), NEW left \in Seq(Lexeme),
         Squeeze(rest) = Cat(<<Punct(",")>>, Cat(TokenText(x), left))
  PROVE  Reads(x, left)
<1> DEFINE s == SkipWhitespace(rest)
           u == SkipWhitespace(Tail(s))
<1>0. /\ rest \in Seq(Lexeme) /\ token_type = LastToken /\ result
      /\ TokenText(x) \in Seq(Lexeme)
      /\ Punct(",") \in Lexeme /\ Punct(",").type = ","
  <2>1. result /\ rest \in Seq(Lexeme)
    BY NextOutcome DEF IInv, TypeOK
  <2>2. TokenText(x) \in Seq(Lexeme)
    BY TokenTextSqueezed DEF Regular
  <2> QED BY <2>1, <2>2 DEF IInv, Punct, Lexeme
<1>1. Cat(TokenText(x), left) \in Seq(Lexeme)
  BY <1>0, CatConcat
<1>2. /\ s \in Seq(Lexeme) /\ s # <<>> /\ Head(s).type = "," /\ Tail(s) \in Seq(Lexeme)
      /\ Squeeze(Tail(s)) = Cat(TokenText(x), left) /\ EndsIn(s)
  BY <1>0, <1>1, SkippedHead
<1>3. PICK l \in Lexeme, more \in Seq(Lexeme) :
           /\ Cat(TokenText(x), left) = Cat(<<l>>, more)
           /\ \/ /\ x.type # "PropertyName"
                 /\ TokenText(x) = <<l>> /\ Spells(l, x) /\ more = left
              \/ /\ x.type = "PropertyName" /\ l.type = "string"
                 /\ x = [type |-> "PropertyName", value |-> l.value]
                 /\ more = Cat(<<Punct(":")>>, left)
  BY FirstLexeme
<1> HIDE DEF s
<1>4. EndsIn(Tail(s))
  BY <1>2, EndsInTail
<1>5. /\ u \in Seq(Lexeme) /\ u # <<>> /\ Head(u) = l /\ Squeeze(Tail(u)) = more
      /\ EndsIn(u)
  <2> DEFINE w == Tail(s)
  <2>1. Squeeze(w) = Cat(<<l>>, more) /\ w \in Seq(Lexeme) /\ EndsIn(w)
    BY <1>2, <1>3, <1>4
  <2>2. u = SkipWhitespace(w)
    OBVIOUS
  <2> HIDE DEF w, u
  <2> QED BY <2>1, <2>2, SkippedHead
<1> HIDE DEF u
<1>6. /\ mode # "DocumentStart" /\ LastToken \notin {"StartArray", "StartObject", "PropertyName"}
      /\ x.type \notin {"EndArray", "EndObject"}
  BY DEF CommaDue, Starts, Ends
<1>7. mode \in {"DocumentStart", "Array", "Object"}
  BY DEF IInv, TypeOK
<1>8. CASE mode = "Array"
  <2>1. NextInArray
    BY <1>2, <1>8 DEF Next, NextAtEnd, NextInDocument, NextInObject, s
  <2>2. AfterComma(s, ReadValue)
    BY <1>0, <1>2, <1>6, <2>1 DEF NextInArray, s
  <2>3. ReadValue(u)
    BY <1>2, <1>5, <2>2 DEF AfterComma, u
  <2>4. x.type \in Tokens!Scalars \cup Starts /\ x.type # "PropertyName"
    BY <1>6, <1>8 DEF Fits, Tokens!Scalars, Starts
  <2>5. TokenText(x) = <<Head(u)>> /\ more = left
    BY <1>3, <1>5, <2>4
  <2> QED BY <1>5, <2>3, <2>4, <2>5, ReadValueReads
<1>9. CASE mode = "Object"
  <2>1. NextInObject
    BY <1>2, <1>9 DEF Next, NextAtEnd, NextInDocument, NextInArray, s
  <2>2. AfterComma(s, ReadName)
    BY <1>0, <1>2, <1>6, <2>1 DEF NextInObject, s
  <2>3. ReadName(u)
    BY <1>2, <1>5, <2>2 DEF AfterComma, u
  <2>4. x.type = "PropertyName"
    BY <1>6, <1>9 DEF Fits
  <2>5. /\ x = [type |-> "PropertyName", value |-> Head(u).value]
        /\ Head(u).type = "string" /\ Squeeze(Tail(u)) = Cat(<<Punct(":")>>, left)
    BY <1>3, <1>5, <2>4
  <2>6. Reads([type |-> "PropertyName", value |-> Head(u).value], left)
    BY <1>5, <2>3, <2>5, ReadNameReads
  <2> QED BY <2>5, <2>6
<1> QED BY <1>6, <1>7, <1>8, <1>9

\* Without a comma.
LEMMA DirectlyReads ==
  ASSUME IInv, Kinds, Next, EndsIn(rest), NEW x, Regular(x), Fits(x.type),
         ~CommaDue(x.type), NEW left \in Seq(Lexeme),
         Squeeze(rest) = Cat(TokenText(x), left)
  PROVE  Reads(x, left)
<1> DEFINE s == SkipWhitespace(rest)
<1>0. rest \in Seq(Lexeme) /\ token_type = LastToken
  <2>1. result
    BY NextOutcome
  <2> QED BY <2>1 DEF IInv, TypeOK
<1>1. PICK l \in Lexeme, more \in Seq(Lexeme) :
           /\ Cat(TokenText(x), left) = Cat(<<l>>, more)
           /\ \/ /\ x.type # "PropertyName"
                 /\ TokenText(x) = <<l>> /\ Spells(l, x) /\ more = left
              \/ /\ x.type = "PropertyName" /\ l.type = "string"
                 /\ x = [type |-> "PropertyName", value |-> l.value]
                 /\ more = Cat(<<Punct(":")>>, left)
  BY FirstLexeme
<1>2. /\ s \in Seq(Lexeme) /\ s # <<>> /\ Head(s) = l /\ Squeeze(Tail(s)) = more
      /\ EndsIn(s)
  BY <1>0, <1>1, SkippedHead
<1> HIDE DEF s
<1>3. ASSUME ReadValue(s), x.type \in Tokens!Scalars \cup Starts
      PROVE  Reads(x, left)
  <2>1. x.type # "PropertyName"
    BY <1>3 DEF Tokens!Scalars, Starts
  <2>2. TokenText(x) = <<Head(s)>> /\ more = left
    BY <1>1, <1>2, <2>1
  <2> QED BY <1>2, <1>3, <2>2, ReadValueReads
<1>4. x.type \in Tokens!Scalars \cup Starts => l.type \notin {"]", "}"}
  <2> SUFFICES ASSUME x.type \in Tokens!Scalars \cup Starts, l.type \in {"]", "}"}
               PROVE  FALSE
    OBVIOUS
  <2>1. x.type \notin {"PropertyName", "EndArray", "EndObject"} /\ Spells(l, x)
    BY <1>1 DEF Tokens!Scalars, Starts
  <2>2. CASE l.type = "]"
    <3>1. x = [type |-> "EndArray", value |-> NoValue]
      BY <2>1, <2>2 DEF Spells
    <3> QED BY <2>1, <3>1
  <2>3. CASE l.type = "}"
    <3>1. x = [type |-> "EndObject", value |-> NoValue]
      BY <2>1, <2>3 DEF Spells
    <3> QED BY <2>1, <3>1
  <2> QED BY <2>2, <2>3
<1>5. mode \in {"DocumentStart", "Array", "Object"}
  BY DEF IInv, TypeOK
<1>6. /\ x.type = "EndArray" => l.type = "]" /\ x = [type |-> "EndArray", value |-> NoValue]
      /\ x.type = "EndObject" => l.type = "}" /\ x = [type |-> "EndObject", value |-> NoValue]
  <2>1. x.type \in {"EndArray", "EndObject"} => TokenText(x) = <<l>>
    BY <1>1
  <2>2. /\ x.type = "EndArray" => TokenText(x) = <<Punct("]")>>
        /\ x.type = "EndObject" => TokenText(x) = <<Punct("}")>>
    BY DEF TokenText
  <2>3. \A a, b : <<a>> = <<b>> => a = b
    OBVIOUS
  <2>4. /\ x.type = "EndArray" => l = Punct("]")
        /\ x.type = "EndObject" => l = Punct("}")
    BY <2>1, <2>2, <2>3
  <2>5. Punct("]").type = "]" /\ Punct("}").type = "}"
    BY DEF Punct
  <2>6. x.type \in {"EndArray", "EndObject"} => x = [type |-> x.type, value |-> NoValue]
    BY DEF Regular, Ends
  <2> QED BY <2>4, <2>5, <2>6
<1>7. CASE mode = "DocumentStart"
  <2>1. ReadValue(s)
    BY <1>2, <1>7 DEF Next, NextAtEnd, NextInDocument, NextInArray, NextInObject, s
  <2> QED BY <1>3, <1>7, <2>1 DEF Fits
<1>8. CASE mode = "Array"
  <2>1. NextInArray
    BY <1>2, <1>8 DEF Next, NextAtEnd, NextInDocument, NextInObject, s
  <2>2. CASE x.type = "EndArray"
    <3>1. PopMode(s, "EndArray")
      BY <1>2, <1>6, <2>1, <2>2 DEF NextInArray, s
    <3>2. Reads(x, Squeeze(Tail(s)))
      BY <1>6, <1>8, <2>2, <3>1, PopModeReads
    <3> QED BY <1>1, <1>2, <2>2, <3>2
  <2>3. CASE x.type # "EndArray"
    <3>1. x.type \in Tokens!Scalars \cup Starts
      BY <1>8, <2>3 DEF Fits
    <3>2. token_type = "StartArray"
      <4>1. x.type \notin Ends
        BY <3>1 DEF Tokens!Scalars, Starts, Ends
      <4> QED BY <1>0, <1>8, <4>1 DEF CommaDue, Kinds, IInv, Starts
    <3>3. ReadValue(s)
      BY <1>2, <1>4, <2>1, <3>1, <3>2 DEF NextInArray, s
    <3> QED BY <1>3, <3>1, <3>3
  <2> QED BY <2>2, <2>3
<1>9. CASE mode = "Object"
  <2>1. NextInObject
    BY <1>2, <1>9 DEF Next, NextAtEnd, NextInDocument, NextInArray, s
  <2>2. CASE LastToken = "PropertyName"
    <3>1. ReadValue(s)
      BY <1>0, <2>1, <2>2 DEF NextInObject, s
    <3> QED BY <1>3, <1>9, <2>2, <3>1 DEF Fits
  <2>3. CASE LastToken # "PropertyName" /\ x.type = "EndObject"
    <3>1. PopMode(s, "EndObject")
      BY <1>0, <1>2, <1>6, <2>1, <2>3 DEF NextInObject, s
    <3>2. Reads(x, Squeeze(Tail(s)))
      BY <1>6, <1>9, <2>3, <3>1, PopModeReads
    <3> QED BY <1>1, <1>2, <2>3, <3>2
  <2>4. CASE LastToken # "PropertyName" /\ x.type = "PropertyName"
    <3>1. token_type = "StartObject"
      BY <1>0, <1>9, <2>4 DEF CommaDue, Kinds, Starts, Ends
    <3>2. /\ x = [type |-> "PropertyName", value |-> Head(s).value]
          /\ Head(s).type = "string" /\ Squeeze(Tail(s)) = Cat(<<Punct(":")>>, left)
      BY <1>1, <1>2, <2>4
    <3>3. ReadName(s)
      BY <2>1, <3>1, <3>2 DEF NextInObject, s
    <3>4. Reads([type |-> "PropertyName", value |-> Head(s).value], left)
      BY <1>2, <3>2, <3>3, ReadNameReads
    <3> QED BY <3>2, <3>4
  <2> QED BY <1>9, <2>2, <2>3, <2>4 DEF Fits
<1> QED BY <1>5, <1>7, <1>8, <1>9

\* Next() returns the token that the text goes on with.
LEMMA NextReads ==
  ASSUME IInv, Kinds, Next, EndsIn(rest), NEW x, Regular(x), Fits(x.type),
         NEW left \in Seq(Lexeme),
         Squeeze(rest) = Cat(CommaText(x.type), Cat(TokenText(x), left))
  PROVE  Reads(x, left)
<1>1. CASE CommaDue(x.type)
  BY <1>1, CommaReads DEF CommaText
<1>2. CASE ~CommaDue(x.type)
  <2> DEFINE y == Cat(TokenText(x), left)
  <2>1. TokenText(x) \in Seq(Lexeme)
    BY TokenTextSqueezed DEF Regular
  <2>2. y \in Seq(Lexeme)
    BY <2>1, CatConcat
  <2>3. Squeeze(rest) = Cat(<<>>, y)
    BY <1>2 DEF CommaText
  <2> HIDE DEF y
  <2>4. Cat(<<>>, y) = y
    BY <2>2, ConcatEmpty DEF Cat
  <2>5. Squeeze(rest) = Cat(TokenText(x), left)
    BY <2>3, <2>4 DEF y
  <2> QED BY <1>2, <2>5, DirectlyReads
<1> QED BY <1>1, <1>2

\* Where nothing but white space is left, Next() returns false, without an error.
LEMMA NextAtTheEnd ==
  ASSUME IInv, Next, Squeeze(rest) = <<>>
  PROVE  result' = FALSE /\ tokens' = tokens /\ error_code' = error_code
<1> DEFINE s == SkipWhitespace(rest)
<1>1. rest \in Seq(Lexeme)
  BY DEF IInv, TypeOK
<1>2. s \in Seq(Lexeme) /\ Squeeze(s) = <<>> /\ (s # <<>> => Head(s) # Space)
  BY <1>1, SkipType, Skipped
<1> HIDE DEF s
<1>3. s = <<>>
  <2> SUFFICES ASSUME s # <<>> PROVE FALSE
    OBVIOUS
  <2>1. Squeeze(s) = Cat(<<Head(s)>>, Squeeze(Tail(s))) /\ Squeeze(Tail(s)) \in Seq(Lexeme)
    BY <1>2, SqueezeHead
  <2>2. Head(s) \in Lexeme
    BY <1>2, HeadTail
  <2>3. \A x \in Lexeme : \A t \in Seq(Lexeme) : <<x>> \o t # <<>>
    OBVIOUS
  <2> QED BY <1>2, <2>1, <2>2, <2>3 DEF Cat
<1>4. NextAtEnd
  BY <1>3 DEF Next, NextInDocument, NextInArray, NextInObject, s
<1> QED BY <1>4 DEF NextAtEnd, FailAtEnd, Fail

(***************************************************************************)
(* A step of JsonTokens, from the containers o and the token p to the      *)
(* token t and the containers q.                                           *)
(***************************************************************************)
Moves(o, p, t, q) ==
  \/ /\ t \in {"String", "Integer", "Float", "Boolean", "Null"}
     /\ o = <<>> \/ o[Len(o)] = "Array" \/ p = "PropertyName"
     /\ q = o
  \/ /\ t \in {"StartArray", "StartObject"}
     /\ o = <<>> \/ o[Len(o)] = "Array" \/ p = "PropertyName"
     /\ q = Append(o, IF t = "StartArray" THEN "Array" ELSE "Object")
  \/ /\ t \in {"EndArray", "EndObject"}
     /\ o # <<>> /\ o[Len(o)] = IF t = "EndArray" THEN "Array" ELSE "Object"
     /\ p # "PropertyName"
     /\ q = SubSeq(o, 1, Len(o) - 1)
  \/ /\ t = "PropertyName"
     /\ o # <<>> /\ o[Len(o)] = "Object"
     /\ p # "PropertyName"
     /\ q = o

LEMMA ReaderMoves ==
  ASSUME IInv, Next, result'
  PROVE  Moves(Open, LastToken, LastToken', Open')
<1>1. Tokens!Next
  BY NextRefines DEF Failed
<1>2. Tokens!ValueDue => Open = <<>> \/ Open[Len(Open)] = "Array" \/ LastToken = "PropertyName"
  BY DEF Tokens!ValueDue, Tokens!Within, Tokens!Named, Tokens!Last
<1>3. CASE Tokens!Scalar
  BY <1>2, <1>3 DEF Tokens!Scalar, Tokens!Scalars, Moves
<1>4. CASE Tokens!Start("Array", "StartArray")
  BY <1>2, <1>4 DEF Tokens!Start, Moves
<1>5. CASE Tokens!Start("Object", "StartObject")
  BY <1>2, <1>5 DEF Tokens!Start, Moves
<1>6. CASE Tokens!End("Array", "EndArray")
  BY <1>6 DEF Tokens!End, Tokens!Within, Tokens!Named, Tokens!Last, Tokens!Front, Moves
<1>7. CASE Tokens!End("Object", "EndObject")
  BY <1>7 DEF Tokens!End, Tokens!Within, Tokens!Named, Tokens!Last, Tokens!Front, Moves
<1>8. CASE Tokens!PropertyName
  BY <1>8 DEF Tokens!PropertyName, Tokens!Within, Tokens!Named, Tokens!Last, Moves
<1> QED BY <1>1, <1>3, <1>4, <1>5, <1>6, <1>7, <1>8 DEF Tokens!Next

LEMMA MovesFits ==
  ASSUME IInv, NEW t, NEW q, Moves(Open, LastToken, t, q)
  PROVE  Fits(t)
<1>1. /\ mode \in {"DocumentStart", "Array", "Object"}
      /\ mode = "DocumentStart" => Open = <<>>
      /\ mode # "DocumentStart" => Open # <<>> /\ Open[Len(Open)] = mode
  BY OpenShape DEF IInv, TypeOK, Last
<1>2. Open = <<>> \/ Open[Len(Open)] = "Array" \/ LastToken = "PropertyName"
        => mode \in {"DocumentStart", "Array"} \/ LastToken = "PropertyName"
  BY <1>1
<1>3. Open # <<>> => mode # "DocumentStart"
  BY <1>1
<1>4. CASE t \in {"String", "Integer", "Float", "Boolean", "Null"}
  BY <1>2, <1>4 DEF Moves, Fits, Tokens!Scalars
<1>5. CASE t \in {"StartArray", "StartObject"}
  BY <1>2, <1>5 DEF Moves, Fits, Starts
<1>6. CASE t \in {"EndArray", "EndObject"}
  BY <1>1, <1>3, <1>6 DEF Moves, Fits
<1>7. CASE t = "PropertyName"
  BY <1>1, <1>3, <1>7 DEF Moves, Fits
<1> QED BY <1>4, <1>5, <1>6, <1>7 DEF Moves

LEMMA MovesOnce ==
  ASSUME NEW o, NEW p, NEW t, NEW q, NEW r, Moves(o, p, t, q), Moves(o, p, t, r)
  PROVE  q = r
BY DEF Moves

(***************************************************************************)
(* JsonWriter and what is read of its text.                                *)
(***************************************************************************)
Mode == {"DocumentStart", "StartArray", "MiddleArray", "StartObject",
         "ObjectPropertyName", "ObjectPropertyValue"}

\* The modes that wait in mode_stack_ for a container to be closed.
Pushed == {"DocumentStart", "MiddleArray", "ObjectPropertyName", "StartObject"}

\* The modes that are pushed when names come first.
NamedModes == {"DocumentStart", "MiddleArray", "ObjectPropertyName"}

Call == [type : Calls!JsonToken, value : Value \cup {NoValue} \cup BOOLEAN]

\* The inductive invariant: the shape of mode_stack_, the indentation, and
\* what mode_ remembers of the last call.
WriterInv ==
  /\ wmode \in Mode
  /\ wmode_stack \in Seq(Pushed)
  /\ wmode = "DocumentStart" <=> wmode_stack = <<>>
  /\ \A i \in DOMAIN wmode_stack : wmode_stack[i] = "DocumentStart" <=> i = 1
  /\ indent = 2 * Len(wmode_stack)
  /\ pack \in Nat
  /\ calls \in Seq(Call)
  /\ LastCall = "PropertyName" <=> wmode = "ObjectPropertyValue"
  /\ LastCall \in Starts => wmode = LastCall
  /\ IndentMatchesDepth

\* While names come first, mode_ is StartObject only right after BeginObject.
NamedInv ==
  NamesFirst => /\ wmode_stack \in Seq(NamedModes)
                /\ wmode \in Starts => LastCall = wmode

(***************************************************************************)
(* The calls, by what they do to the nesting.                              *)
(***************************************************************************)
Made(t, v) ==
  /\ calls' = Append(calls, [type |-> t, value |-> v])
  /\ calls' \in Seq(Call)
  /\ LastCall' = t
  /\ pack' = pack

ScalarMade(t, v) ==
  /\ Made(t, v)
  /\ t \in Calls!Scalars
  /\ wmode # "ObjectPropertyName"
  /\ wmode' = ModeInValue
  /\ UNCHANGED <<wmode_stack, indent>>
  /\ BreakBeforeValue

StartMade(t) ==
  /\ Made(t, NoValue)
  /\ t \in Starts
  /\ wmode # "ObjectPropertyName"
  /\ wmode' = t
  /\ wmode_stack' = Append(wmode_stack, ModeInValue)
  /\ indent' = indent + 2
  /\ BreakBeforeValue

EndMade(t) ==
  /\ Made(t, NoValue)
  /\ \/ t = "EndArray" /\ wmode \in {"StartArray", "MiddleArray"}
     \/ t = "EndObject" /\ wmode \in {"StartObject", "ObjectPropertyName"}
  /\ wmode' = Last(wmode_stack)
  /\ wmode_stack' = Front(wmode_stack)
  /\ indent' = indent - 2
  /\ BreakLine(indent - 2, Len(wmode_stack) - 1)

NameMade(v) ==
  /\ Made("PropertyName", v)
  /\ wmode \in {"StartObject", "ObjectPropertyName"}
  /\ wmode' = "ObjectPropertyValue"
  /\ UNCHANGED <<wmode_stack, indent>>
  /\ BreakLine(indent, Len(wmode_stack))

Packed ==
  /\ pack' \in Nat
  /\ UNCHANGED <<wmode, wmode_stack, indent, text, margins, calls>>

Step ==
  \/ \E t \in Calls!Scalars, v \in Value \cup {NoValue} \cup BOOLEAN :
       ScalarMade(t, v)
  \/ \E t \in Starts : StartMade(t)
  \/ \E t \in Ends : EndMade(t)
  \/ \E v \in Value : NameMade(v)
  \/ Packed

LEMMA CalledMade ==
  ASSUME WriterInv, NEW t \in Calls!JsonToken,
         NEW v \in Value \cup {NoValue} \cup BOOLEAN,
         Called(t, v), pack' = pack
  PROVE  Made(t, v)
<1> DEFINE x == [type |-> t, value |-> v]
<1>1. x \in Call /\ x.type = t
  BY DEF Call
<1>2. calls \in Seq(Call) /\ calls' = Append(calls, x)
  BY DEF WriterInv, Called
<1> HIDE DEF x
<1>3. calls' \in Seq(Call) /\ Len(calls') = Len(calls) + 1
      /\ calls'[Len(calls')] = x
  BY <1>1, <1>2
<1>4. calls' # <<>>
  BY <1>2, <1>3
<1>5. LastCall' = t
  BY <1>1, <1>3, <1>4 DEF LastCall, Last
<1> QED BY <1>2, <1>3, <1>5 DEF Made, x

LEMMA WriterStep ==
  ASSUME WriterInv, WriterNext
  PROVE  Step
<1>0. /\ \A t \in {"String", "Integer", "Boolean", "Null"} :
            t \in Calls!Scalars /\ t \in Calls!JsonToken
      /\ \A t \in Starts \cup Ends \cup {"PropertyName"} : t \in Calls!JsonToken
  BY DEF Calls!Scalars, Calls!JsonToken, Starts, Ends
<1>1. ASSUME NEW t \in {"String", "Integer", "Boolean", "Null"},
             NEW v \in Value \cup {NoValue} \cup BOOLEAN,
             WriteScalar(t, v)
      PROVE  Step
  <2>1. Made(t, v)
    BY <1>0, <1>1, CalledMade DEF WriteScalar
  <2>2. ScalarMade(t, v)
    BY <1>0, <1>1, <2>1 DEF WriteScalar, ScalarMade, MayBeginValue
  <2> QED BY <1>0, <2>2 DEF Step
<1>2. ASSUME NEW t \in Starts, BeginContainer(t, t)
      PROVE  Step
  <2>1. Made(t, NoValue)
    BY <1>0, <1>2, CalledMade DEF BeginContainer
  <2>2. StartMade(t)
    BY <1>2, <2>1 DEF BeginContainer, StartMade, MayBeginValue
  <2> QED BY <2>2 DEF Step
<1>3. CASE EndArray
  <2>1. Made("EndArray", NoValue)
    BY <1>0, <1>3, CalledMade DEF EndArray, EndContainer, Ends
  <2>2. EndMade("EndArray")
    BY <1>3, <2>1 DEF EndArray, EndContainer, EndMade
  <2> QED BY <2>2 DEF Step, Ends
<1>4. CASE EndObject
  <2>1. Made("EndObject", NoValue)
    BY <1>0, <1>4, CalledMade DEF EndObject, EndContainer, Ends
  <2>2. EndMade("EndObject")
    BY <1>4, <2>1 DEF EndObject, EndContainer, EndMade
  <2> QED BY <2>2 DEF Step, Ends
<1>5. ASSUME NEW v \in Value, WritePropertyName(v)
      PROVE  Step
  <2>1. Made("PropertyName", v)
    BY <1>0, <1>5, CalledMade DEF WritePropertyName
  <2>2. NameMade(v)
    BY <1>5, <2>1 DEF WritePropertyName, NameMade
  <2> QED BY <2>2 DEF Step
<1>6. CASE BeginPack \/ EndPack
  BY <1>6 DEF BeginPack, EndPack, Packed, Step, WriterInv
<1> QED BY <1>1, <1>2, <1>3, <1>4, <1>5, <1>6
        DEF WriterNext, WriteAnyScalar, BeginArray, BeginObject, Starts

(***************************************************************************)
(* The invariant is preserved.                                             *)
(***************************************************************************)
LEMMA InitWriterInv == WriterInit => WriterInv
BY DEF WriterInit, WriterInv, Mode, LastCall, Starts, IndentMatchesDepth

LEMMA BreakKeeps ==
  ASSUME IndentMatchesDepth, NEW n \in Nat, BreakLine(2 * n, n)
  PROVE  IndentMatchesDepth'
BY DEF BreakLine, IndentMatchesDepth

LEMMA StepWriterInv ==
  ASSUME WriterInv, Step
  PROVE  WriterInv'
<1>0. /\ wmode \in Mode /\ wmode_stack \in Seq(Pushed)
      /\ wmode = "DocumentStart" <=> wmode_stack = <<>>
      /\ \A i \in DOMAIN wmode_stack : wmode_stack[i] = "DocumentStart" <=> i = 1
      /\ indent = 2 * Len(wmode_stack)
      /\ IndentMatchesDepth /\ pack \in Nat
  BY DEF WriterInv
<1>1. Len(wmode_stack) \in Nat /\ DOMAIN wmode_stack = 1..Len(wmode_stack)
      /\ (wmode = "DocumentStart" <=> Len(wmode_stack) = 0)
  BY <1>0
<1>2. BreakBeforeValue => IndentMatchesDepth'
  BY <1>0, <1>1, BreakKeeps DEF BreakBeforeValue, IndentMatchesDepth
<1>3. wmode # "ObjectPropertyName" =>
        /\ ModeInValue \in Pushed
        /\ ModeInValue \in Mode
        /\ ModeInValue = "DocumentStart" <=> wmode = "DocumentStart"
  BY <1>0 DEF ModeInValue, Mode, Pushed
<1>4. ASSUME NEW t \in Calls!Scalars, NEW v, ScalarMade(t, v)
      PROVE  WriterInv'
  <2>1. t # "PropertyName" /\ t \notin Starts
    BY DEF Calls!Scalars, Starts
  <2>2. wmode' # "ObjectPropertyValue"
    BY <1>3, <1>4 DEF ScalarMade, Pushed
  <2> QED BY <1>0, <1>2, <1>3, <1>4, <2>1, <2>2 DEF ScalarMade, Made, WriterInv
<1>5. ASSUME NEW t \in Starts, StartMade(t)
      PROVE  WriterInv'
  <2>1. t \in {"StartArray", "StartObject"} /\ wmode' = t
        /\ wmode_stack' = Append(wmode_stack, ModeInValue) /\ ModeInValue \in Pushed
        /\ indent' = indent + 2 /\ IndentMatchesDepth'
        /\ calls' \in Seq(Call) /\ LastCall' = t /\ pack' = pack
    BY <1>2, <1>3, <1>5 DEF StartMade, Made, Starts
  <2>2. /\ wmode_stack' \in Seq(Pushed) /\ Len(wmode_stack') = Len(wmode_stack) + 1
        /\ \A i \in 1..Len(wmode_stack) : wmode_stack'[i] = wmode_stack[i]
        /\ wmode_stack'[Len(wmode_stack) + 1] = ModeInValue
    BY <1>0, <2>1
  <2>3. \A i \in DOMAIN wmode_stack' : wmode_stack'[i] = "DocumentStart" <=> i = 1
    <3> TAKE i \in DOMAIN wmode_stack'
    <3>1. CASE i \in 1..Len(wmode_stack)
      BY <1>0, <1>1, <2>2, <3>1
    <3>2. CASE i = Len(wmode_stack) + 1
      BY <1>1, <1>3, <1>5, <2>2, <3>2 DEF StartMade
    <3> QED BY <1>1, <2>2, <3>1, <3>2
  <2>4. wmode_stack' # <<>> /\ indent' = 2 * Len(wmode_stack')
    BY <1>0, <1>1, <2>1, <2>2
  <2> QED BY <1>0, <2>1, <2>2, <2>3, <2>4 DEF WriterInv, Mode, Starts
<1>6. ASSUME NEW t \in Ends, EndMade(t)
      PROVE  WriterInv'
  <2>1. /\ t \notin Starts /\ t # "PropertyName"
        /\ wmode # "DocumentStart"
        /\ wmode' = wmode_stack[Len(wmode_stack)]
        /\ wmode_stack' = SubSeq(wmode_stack, 1, Len(wmode_stack) - 1)
        /\ indent' = indent - 2
        /\ BreakLine(indent - 2, Len(wmode_stack) - 1)
        /\ calls' \in Seq(Call) /\ LastCall' = t /\ pack' = pack
    BY <1>6 DEF EndMade, Made, Ends, Starts, Last, Front
  <2>2. Len(wmode_stack) >= 1
    BY <1>1, <2>1
  <2>3. /\ wmode_stack' \in Seq(Pushed) /\ Len(wmode_stack') = Len(wmode_stack) - 1
        /\ \A i \in 1..(Len(wmode_stack) - 1) : wmode_stack'[i] = wmode_stack[i]
        /\ wmode' \in Pushed
    BY <1>0, <1>1, <2>1, <2>2
  <2>4. wmode' = "DocumentStart" <=> wmode_stack' = <<>>
    BY <1>0, <1>1, <2>1, <2>2, <2>3
  <2>5. \A i \in DOMAIN wmode_stack' : wmode_stack'[i] = "DocumentStart" <=> i = 1
    BY <1>0, <1>1, <2>2, <2>3
  <2>6. Len(wmode_stack) - 1 \in Nat
        /\ indent - 2 = 2 * (Len(wmode_stack) - 1)
    BY <1>0, <1>1, <2>2
  <2>7. IndentMatchesDepth'
    BY <1>0, <2>1, <2>6, BreakKeeps
  <2> QED BY <1>0, <2>1, <2>3, <2>4, <2>5, <2>6, <2>7 DEF WriterInv, Mode, Pushed
<1>7. ASSUME NEW v \in Value, NameMade(v)
      PROVE  WriterInv'
  <2>1. IndentMatchesDepth'
    BY <1>0, <1>1, <1>7, BreakKeeps DEF NameMade
  <2> QED BY <1>0, <1>7, <2>1 DEF NameMade, Made, WriterInv, Mode, Starts
<1>8. CASE Packed
  <2>1. LastCall' = LastCall /\ IndentMatchesDepth'
    BY <1>0, <1>8 DEF Packed, LastCall, IndentMatchesDepth
  <2> QED BY <1>8, <2>1 DEF Packed, WriterInv
<1> QED BY <1>4, <1>5, <1>6, <1>7, <1>8 DEF Step

LEMMA StutterWriterInv == WriterInv /\ UNCHANGED writerVars => WriterInv'
BY DEF WriterInv, writerVars, LastCall, IndentMatchesDepth

\* Names have come first for as long as they do; right after BeginObject
\* there is no value then.
LEMMA NamesBefore ==
  ASSUME WriterInv, NEW x \in Call, calls' = Append(calls, x), NamesFirst'
  PROVE  /\ NamesFirst
         /\ LastCall = "StartObject" => x.type \in {"PropertyName", "EndObject"}
<1> DEFINE n == Len(calls)
           a == calls'
<1>1. /\ n \in Nat /\ Len(a) = n + 1 /\ a[n + 1] = x
      /\ \A i \in 1..n : a[i] = calls[i]
      /\ calls # <<>> <=> n > 0
  BY Appended DEF WriterInv
<1>2. \A i \in 2..(n + 1) : a[i - 1].type = "StartObject" =>
                             a[i].type \in {"PropertyName", "EndObject"}
  BY <1>1 DEF NamesFirst
<1>3. LastCall = IF n = 0 THEN "None" ELSE calls[n].type
  BY <1>1 DEF LastCall, Last
<1> HIDE DEF n, a
<1>4. NamesFirst
  <2>1. ASSUME NEW i \in 2..n
        PROVE  i \in 2..(n + 1) /\ a[i - 1] = calls[i - 1] /\ a[i] = calls[i]
    <3>1. i \in 1..n /\ i - 1 \in 1..n /\ i \in 2..(n + 1)
      BY <1>1
    <3> QED BY <1>1, <3>1
  <2>2. \A i \in 2..n : calls[i - 1].type = "StartObject" =>
                         calls[i].type \in {"PropertyName", "EndObject"}
    BY <1>2, <2>1
  <2> QED BY <2>2 DEF NamesFirst, n
<1>5. LastCall = "StartObject" => x.type \in {"PropertyName", "EndObject"}
  <2> SUFFICES ASSUME LastCall = "StartObject"
               PROVE  x.type \in {"PropertyName", "EndObject"}
    OBVIOUS
  <2>1. n + 1 \in 2..(n + 1) /\ n \in 1..n /\ (n + 1) - 1 = n
        /\ calls[n].type = "StartObject"
    BY <1>1, <1>3
  <2> QED BY <1>1, <1>2, <2>1
<1> QED BY <1>4, <1>5

LEMMA MadeNames ==
  ASSUME WriterInv, NamedInv, NEW t, NEW v, Made(t, v), NamesFirst',
         t \notin {"PropertyName", "EndObject"}
  PROVE  NamesFirst /\ wmode # "StartObject"
<1> DEFINE x == [type |-> t, value |-> v]
<1>1. calls' = Append(calls, x) /\ x.type = t
  BY DEF Made
<1>2. x \in Call
  <2>1. calls \in Seq(Call) /\ calls' \in Seq(Call)
    BY DEF WriterInv, Made
  <2> HIDE DEF x
  <2>2. Len(calls') = Len(calls) + 1 /\ calls'[Len(calls) + 1] = x /\ Len(calls) \in Nat
    BY <1>1, <2>1
  <2> QED BY <2>1, <2>2
<1> HIDE DEF x
<1>3. NamesFirst /\ LastCall # "StartObject"
  BY <1>1, <1>2, NamesBefore
<1> QED BY <1>3 DEF NamedInv, Starts

LEMMA StepNamedInv ==
  ASSUME WriterInv, NamedInv, Step
  PROVE  NamedInv'
<1> SUFFICES ASSUME NamesFirst'
             PROVE  /\ wmode_stack' \in Seq(NamedModes)
                    /\ wmode' \in Starts => LastCall' = wmode'
  BY DEF NamedInv
<1>0. /\ wmode \in Mode
      /\ wmode = "DocumentStart" <=> wmode_stack = <<>>
  BY DEF WriterInv
<1>1. ASSUME NEW t \in Calls!Scalars, NEW v, ScalarMade(t, v)
      PROVE  wmode_stack' \in Seq(NamedModes) /\ wmode' \notin Starts
  <2>1. NamesFirst /\ wmode # "StartObject"
    BY <1>1, MadeNames DEF ScalarMade, Calls!Scalars
  <2>2. wmode' \notin Starts
    BY <1>0, <1>1, <2>1 DEF ScalarMade, ModeInValue, Mode, Starts
  <2> QED BY <1>1, <2>1, <2>2 DEF ScalarMade, NamedInv
<1>2. ASSUME NEW t \in Starts, StartMade(t)
      PROVE  wmode_stack' \in Seq(NamedModes) /\ LastCall' = wmode'
  <2>1. NamesFirst /\ wmode # "StartObject"
    BY <1>2, MadeNames DEF StartMade, Starts
  <2>2. ModeInValue \in NamedModes
    BY <1>0, <1>2, <2>1 DEF StartMade, ModeInValue, Mode, NamedModes
  <2>3. wmode_stack \in Seq(NamedModes)
    BY <2>1 DEF NamedInv
  <2> QED BY <1>2, <2>2, <2>3 DEF StartMade, Made
<1>3. ASSUME NEW x \in Call, calls' = Append(calls, x) PROVE NamesFirst
  BY <1>3, NamesBefore
<1>4. ASSUME NEW t, NEW v, Made(t, v) PROVE NamesFirst
  <2> DEFINE x == [type |-> t, value |-> v]
  <2>1. calls \in Seq(Call) /\ calls' \in Seq(Call) /\ calls' = Append(calls, x)
    BY <1>4 DEF WriterInv, Made
  <2> HIDE DEF x
  <2>2. Len(calls') = Len(calls) + 1 /\ calls'[Len(calls) + 1] = x /\ Len(calls) \in Nat
    BY <2>1
  <2>3. x \in Call
    BY <2>1, <2>2
  <2> QED BY <1>3, <2>1, <2>3
<1>5. ASSUME NEW t \in Ends, EndMade(t)
      PROVE  wmode_stack' \in Seq(NamedModes) /\ wmode' \notin Starts
  <2>1. NamesFirst
    BY <1>4, <1>5 DEF EndMade
  <2>2. wmode_stack \in Seq(NamedModes) /\ wmode_stack # <<>>
    BY <1>0, <1>5, <2>1 DEF NamedInv, EndMade
  <2>3. wmode_stack[Len(wmode_stack)] \in NamedModes
        /\ SubSeq(wmode_stack, 1, Len(wmode_stack) - 1) \in Seq(NamedModes)
    BY <2>2
  <2>4. \A m \in NamedModes : m \notin Starts
    BY DEF NamedModes, Starts
  <2> QED BY <1>5, <2>3, <2>4 DEF EndMade, Last, Front
<1>6. ASSUME NEW v \in Value, NameMade(v)
      PROVE  wmode_stack' \in Seq(NamedModes) /\ wmode' \notin Starts
  <2>1. NamesFirst
    BY <1>4, <1>6 DEF NameMade
  <2> QED BY <1>6, <2>1 DEF NameMade, NamedInv, Starts
<1>7. CASE Packed
  BY <1>7 DEF Packed, NamesFirst, LastCall, NamedInv
<1> QED BY <1>1, <1>2, <1>5, <1>6, <1>7 DEF Step

LEMMA PipeNamedInv == WriterInv /\ NamedInv /\ [PipeNext]_pipeVars => NamedInv'
<1>1. NamedInv /\ UNCHANGED writerVars => NamedInv'
  BY DEF NamedInv, NamesFirst, LastCall, writerVars
<1> QED BY <1>1, WriterStep, StepNamedInv
        DEF PipeNext, Log, OpenLog, Read, pipeVars

LEMMA InitNamedInv == WriterInit => NamedInv
<1>1. <<>> \in Seq(NamedModes)
  OBVIOUS
<1> QED BY <1>1 DEF WriterInit, NamedInv, Starts

LEMMA PipeWriterInv == WriterInv /\ [PipeNext]_pipeVars => WriterInv'
BY WriterStep, StepWriterInv, StutterWriterInv
   DEF PipeNext, Log, OpenLog, Read, writerVars, pipeVars

\* Every line of the log is indented by two columns for each container that
\* is open around it, for every sequence of calls the asserts let through and
\* however packed lines are mixed in.
THEOREM WriterIndents == PipeSpec => []IndentMatchesDepth
<1>1. PipeInit => WriterInv
  BY InitWriterInv DEF PipeInit
<1>2. WriterInv => IndentMatchesDepth
  BY DEF WriterInv
<1> QED BY <1>1, <1>2, PipeWriterInv, PTL DEF PipeSpec

(***************************************************************************)
(* Every call is a step of JsonTokens.                                     *)
(***************************************************************************)
Kind == {"Array", "Object"}

\* The containers that are open when mode_stack_ is ms and mode_ is m, the
\* outermost one first.
OpenOf(ms, m) ==
  LET modes == Tail(Append(ms, m))
  IN  [i \in DOMAIN modes |-> Container(modes[i])]

LEMMA WriterOpenShape ==
  ASSUME NEW ms \in Seq(Mode), NEW m \in Mode
  PROVE  /\ OpenOf(ms, m) \in Seq(Kind)
         /\ Len(OpenOf(ms, m)) = Len(ms)
         /\ \A i \in 1..Len(ms) :
              OpenOf(ms, m)[i] =
                Container(IF i = Len(ms) THEN m ELSE ms[i + 1])
<1> DEFINE t == Tail(Append(ms, m))
           C == [i \in 1..Len(ms) |-> Container(t[i])]
<1>1. /\ t \in Seq(Mode) /\ Len(t) = Len(ms)
      /\ \A i \in 1..Len(ms) : t[i] = IF i = Len(ms) THEN m ELSE ms[i + 1]
  OBVIOUS
<1>2. OpenOf(ms, m) = [i \in DOMAIN t |-> Container(t[i])]
  BY DEF OpenOf
<1> HIDE DEF t
<1>3. DOMAIN t = 1..Len(ms) /\ Len(ms) \in Nat
  BY <1>1
<1>4. OpenOf(ms, m) = C
  BY <1>2, <1>3
<1>5. \A x : Container(x) \in Kind
  BY DEF Container, Kind
<1>6. C \in Seq(Kind) /\ Len(C) = Len(ms)
  BY <1>3, <1>5
<1>7. \A i \in 1..Len(ms) :
        C[i] = Container(IF i = Len(ms) THEN m ELSE ms[i + 1])
  BY <1>1
<1> QED BY <1>4, <1>6, <1>7

LEMMA OpenIs == WriterOpen = OpenOf(wmode_stack, wmode) /\ WriterOpen' = OpenOf(wmode_stack', wmode')
BY DEF WriterOpen, OpenOf

LEMMA PushedModes == Seq(Pushed) \subseteq Seq(Mode)
<1>1. Pushed \subseteq Mode
  BY DEF Pushed, Mode
<1> QED BY <1>1

\* mode_ tells the innermost container, and whether a value may come.
LEMMA OpenLast ==
  ASSUME WriterInv
  PROVE  /\ WriterOpen \in Seq(Kind)
         /\ Len(WriterOpen) = Len(wmode_stack)
         /\ wmode = "DocumentStart" <=> WriterOpen = <<>>
         /\ wmode # "DocumentStart" => WriterOpen[Len(WriterOpen)] = Container(wmode)
         /\ Calls!Named <=> wmode = "ObjectPropertyValue"
<1>1. /\ wmode \in Mode /\ wmode_stack \in Seq(Mode)
      /\ wmode = "DocumentStart" <=> wmode_stack = <<>>
  BY PushedModes DEF WriterInv
<1>2. /\ WriterOpen \in Seq(Kind) /\ Len(WriterOpen) = Len(wmode_stack)
      /\ \A i \in 1..Len(wmode_stack) :
           WriterOpen[i] = Container(IF i = Len(wmode_stack) THEN wmode
                                                     ELSE wmode_stack[i + 1])
  BY <1>1, WriterOpenShape, OpenIs
<1>3. wmode = "DocumentStart" <=> WriterOpen = <<>>
  BY <1>1, <1>2
<1>4. wmode # "DocumentStart" => Len(wmode_stack) >= 1
  BY <1>1
<1> QED BY <1>2, <1>3, <1>4 DEF WriterInv, Calls!Named

LEMMA OpenSame ==
  ASSUME WriterInv, WriterInv', wmode_stack' = wmode_stack,
         wmode # "DocumentStart" => Container(wmode') = Container(wmode)
  PROVE  WriterOpen' = WriterOpen
<1>1. /\ wmode \in Mode /\ wmode' \in Mode /\ wmode_stack \in Seq(Mode)
      /\ wmode = "DocumentStart" <=> wmode_stack = <<>>
  BY PushedModes DEF WriterInv
<1> DEFINE C(m, i) == Container(IF i = Len(wmode_stack) THEN m
                                                      ELSE wmode_stack[i + 1])
<1>2. /\ WriterOpen \in Seq(Kind) /\ Len(WriterOpen) = Len(wmode_stack)
      /\ \A i \in 1..Len(wmode_stack) : WriterOpen[i] = C(wmode, i)
  BY <1>1, WriterOpenShape, OpenIs
<1>3. /\ WriterOpen' \in Seq(Kind) /\ Len(WriterOpen') = Len(wmode_stack)
      /\ \A i \in 1..Len(wmode_stack) : WriterOpen'[i] = C(wmode', i)
  BY <1>1, WriterOpenShape, OpenIs
<1>4. \A i \in 1..Len(wmode_stack) : C(wmode', i) = C(wmode, i)
  <2>1. CASE wmode = "DocumentStart"
    BY <1>1, <2>1
  <2>2. CASE wmode # "DocumentStart"
    BY <2>2
  <2> QED BY <2>1, <2>2
<1> HIDE DEF C
<1> QED BY <1>2, <1>3, <1>4

LEMMA WriterOpenPush ==
  ASSUME WriterInv, WriterInv', NEW t \in Starts, StartMade(t)
  PROVE  WriterOpen' = Append(WriterOpen, Container(t))
<1>1. /\ wmode \in Mode /\ t \in Mode /\ wmode' = t /\ wmode_stack \in Seq(Mode)
      /\ wmode_stack' = Append(wmode_stack, ModeInValue) /\ ModeInValue \in Mode
      /\ wmode = "DocumentStart" <=> wmode_stack = <<>>
      /\ wmode # "DocumentStart" => Container(ModeInValue) = Container(wmode)
  BY PushedModes DEF WriterInv, StartMade, Starts, Mode, ModeInValue, Container
<1>2. /\ wmode_stack' \in Seq(Mode) /\ Len(wmode_stack') = Len(wmode_stack) + 1
      /\ \A i \in 1..Len(wmode_stack) : wmode_stack'[i] = wmode_stack[i]
      /\ wmode_stack'[Len(wmode_stack) + 1] = ModeInValue
      /\ Len(wmode_stack) \in Nat
  BY <1>1
<1>3. /\ WriterOpen \in Seq(Kind) /\ Len(WriterOpen) = Len(wmode_stack)
      /\ \A i \in 1..Len(wmode_stack) :
           WriterOpen[i] = Container(IF i = Len(wmode_stack) THEN wmode
                                                     ELSE wmode_stack[i + 1])
  BY <1>1, WriterOpenShape, OpenIs
<1>4. /\ WriterOpen' \in Seq(Kind) /\ Len(WriterOpen') = Len(wmode_stack')
      /\ \A i \in 1..Len(wmode_stack') :
           WriterOpen'[i] = Container(IF i = Len(wmode_stack') THEN t
                                                       ELSE wmode_stack'[i + 1])
  BY <1>1, <1>2, WriterOpenShape, OpenIs
<1>5. \A i \in 1..Len(wmode_stack) : WriterOpen'[i] = WriterOpen[i]
  <2> TAKE i \in 1..Len(wmode_stack)
  <2>1. WriterOpen'[i] = Container(wmode_stack'[i + 1])
    BY <1>2, <1>4
  <2>2. CASE i = Len(wmode_stack)
    <3>1. wmode # "DocumentStart"
      BY <1>1, <1>2, <2>2
    <3> QED BY <1>1, <1>2, <1>3, <2>1, <2>2, <3>1
  <2>3. CASE i # Len(wmode_stack)
    BY <1>2, <1>3, <2>1, <2>3
  <2> QED BY <2>2, <2>3
<1>6. WriterOpen'[Len(wmode_stack) + 1] = Container(t) /\ Container(t) \in Kind
  BY <1>2, <1>4 DEF Container, Kind
<1> QED BY <1>2, <1>3, <1>4, <1>5, <1>6

LEMMA WriterOpenPop ==
  ASSUME WriterInv, WriterInv', NEW t \in Ends, EndMade(t)
  PROVE  WriterOpen' = Front(WriterOpen)
<1>1. /\ wmode \in Mode /\ wmode' \in Mode /\ wmode_stack \in Seq(Mode)
      /\ wmode' = wmode_stack[Len(wmode_stack)]
      /\ wmode_stack' = SubSeq(wmode_stack, 1, Len(wmode_stack) - 1)
      /\ wmode = "DocumentStart" <=> wmode_stack = <<>>
      /\ wmode # "DocumentStart"
  BY PushedModes DEF WriterInv, EndMade, Last, Front
<1>2. Len(wmode_stack) \in Nat /\ Len(wmode_stack) >= 1
  BY <1>1
<1>3. /\ wmode_stack' \in Seq(Mode) /\ Len(wmode_stack') = Len(wmode_stack) - 1
      /\ \A i \in 1..(Len(wmode_stack) - 1) : wmode_stack'[i] = wmode_stack[i]
  BY <1>1, FrontOf
<1>4. /\ WriterOpen \in Seq(Kind) /\ Len(WriterOpen) = Len(wmode_stack)
      /\ \A i \in 1..Len(wmode_stack) :
           WriterOpen[i] = Container(IF i = Len(wmode_stack) THEN wmode
                                                     ELSE wmode_stack[i + 1])
  BY <1>1, WriterOpenShape, OpenIs
<1>5. /\ WriterOpen' \in Seq(Kind) /\ Len(WriterOpen') = Len(wmode_stack')
      /\ \A i \in 1..Len(wmode_stack') :
           WriterOpen'[i] = Container(IF i = Len(wmode_stack') THEN wmode'
                                                       ELSE wmode_stack'[i + 1])
  BY <1>1, <1>3, WriterOpenShape, OpenIs
<1>6. \A i \in 1..(Len(wmode_stack) - 1) : WriterOpen'[i] = WriterOpen[i]
  <2> TAKE i \in 1..(Len(wmode_stack) - 1)
  <2>1. WriterOpen[i] = Container(wmode_stack[i + 1])
    BY <1>2, <1>4
  <2>2. CASE i = Len(wmode_stack')
    <3>1. i + 1 = Len(wmode_stack) /\ i \in 1..Len(wmode_stack')
      BY <1>2, <1>3, <2>2
    <3>2. WriterOpen'[i] = Container(wmode')
      BY <1>5, <2>2, <3>1
    <3> QED BY <1>1, <2>1, <3>1, <3>2
  <2>3. CASE i # Len(wmode_stack')
    BY <1>2, <1>3, <1>5, <2>1, <2>3
  <2> QED BY <2>2, <2>3
<1> QED BY <1>2, <1>3, <1>4, <1>5, <1>6 DEF Front

LEMMA StepRefines ==
  ASSUME WriterInv, WriterInv', NamedInv, Step
  PROVE  \/ Calls!Next \/ NamelessValue
         \/ Packed /\ UNCHANGED <<WriterOpen, LastCall>>
<1>1. /\ WriterOpen \in Seq(Kind)
      /\ wmode = "DocumentStart" <=> WriterOpen = <<>>
      /\ wmode # "DocumentStart" => WriterOpen[Len(WriterOpen)] = Container(wmode)
      /\ Calls!Named <=> wmode = "ObjectPropertyValue"
      /\ wmode \in Mode
  BY OpenLast DEF WriterInv
<1>2. \A c : Calls!Within(c) <=> wmode # "DocumentStart" /\ Container(wmode) = c
  BY <1>1 DEF Calls!Within, Calls!Last
<1>3. wmode \notin {"StartObject", "ObjectPropertyName"} => Calls!ValueDue
  BY <1>1, <1>2 DEF Calls!ValueDue, Container, Mode
<1>9. wmode = "StartObject" => Calls!Within("Object") /\ ~Calls!Named
  BY <1>1, <1>2 DEF Container
<1>4. ASSUME NEW t \in Calls!Scalars, NEW v, ScalarMade(t, v)
      PROVE  Calls!Next \/ NamelessValue
  <2>1. wmode # "DocumentStart" => Container(wmode') = Container(wmode)
    BY <1>1, <1>4 DEF ScalarMade, ModeInValue, Container, Mode
  <2>2. WriterOpen' = WriterOpen
    BY <1>4, <2>1, OpenSame DEF ScalarMade
  <2>3. CASE wmode # "StartObject"
    BY <1>3, <1>4, <2>2, <2>3 DEF ScalarMade, Made, Calls!Next, Calls!Scalar
  <2>4. CASE wmode = "StartObject"
    <3>1. ~NamesFirst'
      BY <1>4, <2>4, MadeNames DEF ScalarMade, Calls!Scalars
    <3> QED BY <1>4, <1>9, <2>2, <2>4, <3>1 DEF ScalarMade, Made, NamelessValue
  <2> QED BY <2>3, <2>4
<1>5. ASSUME NEW t \in Starts, StartMade(t)
      PROVE  Calls!Next \/ NamelessValue
  <2>1. WriterOpen' = Append(WriterOpen, Container(t)) /\ LastCall' = t
    BY <1>5, WriterOpenPush DEF StartMade, Made
  <2>2. \/ t = "StartArray" /\ Container(t) = "Array"
        \/ t = "StartObject" /\ Container(t) = "Object"
    BY DEF Starts, Container
  <2>3. CASE wmode # "StartObject"
    BY <1>3, <1>5, <2>1, <2>2, <2>3 DEF StartMade, Calls!Next, Calls!Start
  <2>4. CASE wmode = "StartObject"
    <3>1. ~NamesFirst'
      BY <1>5, <2>4, MadeNames DEF StartMade, Starts
    <3> QED BY <1>9, <2>1, <2>2, <2>4, <3>1 DEF NamelessValue
  <2> QED BY <2>3, <2>4
<1>6. ASSUME NEW t \in Ends, EndMade(t)
      PROVE  Calls!Next
  <2>1. WriterOpen' = Front(WriterOpen) /\ LastCall' = t
    BY <1>6, WriterOpenPop DEF EndMade, Made
  <2>2. \/ t = "EndArray" /\ Calls!Within("Array") /\ ~Calls!Named
        \/ t = "EndObject" /\ Calls!Within("Object") /\ ~Calls!Named
    BY <1>1, <1>2, <1>6 DEF EndMade, Container
  <2> QED BY <2>1, <2>2 DEF Calls!Next, Calls!End, Calls!Front, Front
<1>7. ASSUME NEW v, NameMade(v)
      PROVE  Calls!Next
  <2>1. Calls!Within("Object") /\ ~Calls!Named
    BY <1>1, <1>2, <1>7 DEF NameMade, Container
  <2>2. WriterOpen' = WriterOpen
    BY <1>7, OpenSame DEF NameMade, Container
  <2> QED BY <1>7, <2>1, <2>2 DEF NameMade, Made, Calls!Next, Calls!PropertyName
<1>8. CASE Packed
  BY <1>8 DEF Packed, WriterOpen, LastCall
<1> QED BY <1>4, <1>5, <1>6, <1>7, <1>8 DEF Step

\* What the asserts on mode_ let through are the tokens of a stream of JSON
\* values, for every sequence of calls in which no value follows a BeginObject
\* directly: the writer's calls implement the same JsonTokens that the tokens
\* of the reader implement.  Once one has, values without a name are all that
\* is let through besides, and arrays and objects still nest.
THEOREM WriterCallStream == PipeSpec => CallStream
<1>1. PipeInit => WriterInv /\ NamedInv /\ Calls!Init
  <2>1. WriterInit => Calls!Init
    BY DEF WriterInit, Calls!Init, WriterOpen, LastCall
  <2> QED BY <2>1, InitWriterInv, InitNamedInv DEF PipeInit
<1>2. WriterInv /\ NamedInv /\ WriterInv' /\ [PipeNext]_pipeVars
        => [Calls!Next \/ NamelessValue]_<<WriterOpen, LastCall>>
  <2>1. UNCHANGED writerVars => UNCHANGED <<WriterOpen, LastCall>>
    BY DEF writerVars, WriterOpen, LastCall
  <2> QED BY <2>1, WriterStep, StepRefines DEF PipeNext, Log, OpenLog, Read, pipeVars
<1> QED BY <1>1, <1>2, PipeWriterInv, PipeNamedInv, PTL DEF PipeSpec, CallStream

(***************************************************************************)
(* What a call writes: the comma that mode_ asks for, the text of the      *)
(* call, and white space.                                                  *)
(***************************************************************************)
WriterCommaDue(t) == t \notin Ends /\ wmode \in {"MiddleArray", "ObjectPropertyName"}

\* Nothing but commas and white space.
Pads(s) == \A i \in DOMAIN s : s[i].type \in {",", "space"}

LEMMA PadsConcat ==
  ASSUME NEW a \in Seq(Lexeme), NEW b \in Seq(Lexeme), Pads(a), Pads(b)
  PROVE  Pads(a \o b)
<1>1. /\ DOMAIN a = 1..Len(a) /\ DOMAIN b = 1..Len(b) /\ Len(a) \in Nat /\ Len(b) \in Nat
      /\ DOMAIN (a \o b) = 1..(Len(a) + Len(b))
  OBVIOUS
<1>2. ASSUME NEW i \in 1..(Len(a) + Len(b))
      PROVE  (a \o b)[i] = IF i <= Len(a) THEN a[i] ELSE b[i - Len(a)]
  OBVIOUS
<1> DEFINE c == a \o b
<1> HIDE DEF c
<1>3. ASSUME NEW i \in 1..(Len(a) + Len(b))
      PROVE  c[i].type \in {",", "space"}
  <2>1. CASE i <= Len(a)
    <3>1. i \in DOMAIN a /\ c[i] = a[i]
      BY <1>1, <1>2, <2>1 DEF c
    <3> QED BY <3>1 DEF Pads
  <2>2. CASE ~(i <= Len(a))
    <3>1. i - Len(a) \in DOMAIN b /\ c[i] = b[i - Len(a)]
      BY <1>1, <1>2, <2>2 DEF c
    <3> QED BY <3>1 DEF Pads
  <2> QED BY <2>1, <2>2
<1> QED BY <1>1, <1>3 DEF Pads, c

Wrote(x) ==
  \E pre, post \in Seq(Lexeme) :
    /\ Pads(pre) /\ Pads(post)
    /\ text' = ((text \o pre) \o TokenText(x)) \o post
    /\ Squeeze(pre) = IF WriterCommaDue(x.type) THEN <<Punct(",")>> ELSE <<>>
    /\ Squeeze(post) = <<>>

\* Where a call may be made, and how it nests.
Placed(t) ==
  \/ t \in Starts /\ Len(wmode_stack') = Len(wmode_stack) + 1
       /\ wmode # "ObjectPropertyName"
  \/ t \in Ends /\ Len(wmode_stack') = Len(wmode_stack) - 1
  \/ t = "PropertyName" /\ wmode_stack' = wmode_stack
       /\ wmode \in {"StartObject", "ObjectPropertyName"}
  \/ t \in Calls!Scalars /\ wmode_stack' = wmode_stack
       /\ wmode # "ObjectPropertyName"

LEMMA Blanks ==
  /\ LineBreak \in Seq(Lexeme) /\ Squeeze(LineBreak) = <<>>
  /\ Comma \in Seq(Lexeme) /\ Squeeze(Comma) = <<Punct(",")>>
  /\ <<>> \in Seq(Lexeme) /\ Squeeze(<<>>) = <<>>
  /\ <<Space>> \in Seq(Lexeme) /\ Squeeze(<<Space>>) = <<>>
  /\ Pads(LineBreak) /\ Pads(Comma) /\ Pads(<<>>) /\ Pads(<<Space>>)
<1>1. Space \in Lexeme /\ Punct(",") \in Lexeme /\ Punct(",") # Space
  BY DEF Space, Punct, Lexeme
<1>2. /\ <<>> \in Seq(Lexeme) /\ <<Space>> \in Seq(Lexeme)
      /\ <<Punct(",")>> \in Seq(Lexeme)
      /\ Squeeze(<<>>) = <<>> /\ Squeeze(<<Space>>) = <<>>
      /\ Squeeze(<<Punct(",")>>) = <<Punct(",")>>
  <2>1. <<>> \in Seq(Lexeme) /\ \A x \in Lexeme : <<x>> \in Seq(Lexeme)
    OBVIOUS
  <2> QED BY <1>1, <2>1, SqueezeSmall, Zenon
<1>3. LineBreak \in Seq(Lexeme) /\ Squeeze(LineBreak) = <<>>
  BY <1>2 DEF LineBreak
<1>4. <<Punct(","), Space>> = <<Punct(",")>> \o <<Space>>
  BY <1>1, TwoElements
<1>5. /\ <<Punct(",")>> \o <<Space>> \in Seq(Lexeme)
      /\ Squeeze(<<Punct(",")>> \o <<Space>>) = <<Punct(",")>> \o <<>>
  BY <1>2, SqueezeConcat
<1>6. <<Punct(",")>> \o <<>> = <<Punct(",")>>
  BY <1>2, ConcatEmpty
<1>7. Comma \in Seq(Lexeme) /\ Squeeze(Comma) = <<Punct(",")>>
  BY <1>2, <1>4, <1>5, <1>6 DEF Comma
<1>8. Pads(<<>>) /\ Pads(<<Space>>) /\ Pads(<<Punct(",")>>)
  <2>1. Space.type = "space" /\ Punct(",").type = ","
    BY DEF Space, Punct
  <2>2. DOMAIN <<>> = {} /\ DOMAIN <<Space>> = {1} /\ DOMAIN <<Punct(",")>> = {1}
        /\ <<Space>>[1] = Space /\ <<Punct(",")>>[1] = Punct(",")
    OBVIOUS
  <2> DEFINE s == <<Space>>
             c == <<Punct(",")>>
  <2> HIDE DEF s, c
  <2>3. Pads(s)
    <3>1. DOMAIN s = {1} /\ s[1].type = "space"
      BY <2>1, <2>2 DEF s
    <3> QED BY <3>1 DEF Pads
  <2>4. Pads(c)
    <3>1. DOMAIN c = {1} /\ c[1].type = ","
      BY <2>1, <2>2 DEF c
    <3> QED BY <3>1 DEF Pads
  <2> QED BY <2>2, <2>3, <2>4 DEF Pads, s, c
<1>9. Pads(LineBreak) /\ Pads(Comma)
  <2>1. Pads(<<Punct(",")>> \o <<Space>>)
    BY <1>2, <1>8, PadsConcat
  <2> QED BY <1>4, <1>8, <2>1 DEF LineBreak, Comma
<1> QED BY <1>2, <1>3, <1>7, <1>8, <1>9

LEMMA ValuePre ==
  ASSUME WriterInv, NEW t, t \notin Ends, wmode # "ObjectPropertyName"
  PROVE  /\ BeginValueText \in Seq(Lexeme) /\ Pads(BeginValueText)
         /\ Squeeze(BeginValueText) = IF WriterCommaDue(t) THEN <<Punct(",")>> ELSE <<>>
<1> DEFINE a == IF wmode = "MiddleArray" THEN Comma ELSE <<>>
           b == IF InArray THEN LineBreak ELSE <<>>
<1>1. a \in Seq(Lexeme) /\ Pads(a) /\ Squeeze(a) = IF WriterCommaDue(t) THEN <<Punct(",")>> ELSE <<>>
  BY Blanks DEF WriterCommaDue
<1>2. b \in Seq(Lexeme) /\ Pads(b) /\ Squeeze(b) = <<>>
  BY Blanks
<1>3. BeginValueText = a \o b
  BY DEF BeginValueText
<1> HIDE DEF a, b
<1>4. a \o b \in Seq(Lexeme) /\ Squeeze(a \o b) = Squeeze(a) \o <<>> /\ Squeeze(a) \in Seq(Lexeme)
  BY <1>1, <1>2, SqueezeConcat
<1>5. Squeeze(a) \o <<>> = Squeeze(a)
  BY <1>4, ConcatEmpty
<1>6. Pads(a \o b)
  BY <1>1, <1>2, PadsConcat
<1> QED BY <1>1, <1>3, <1>4, <1>5, <1>6

\* What a value writes.
LEMMA ValueWrote ==
  ASSUME WriterInv, NEW x, NEW tt, Sound(x), x.type \notin Ends,
         wmode # "ObjectPropertyName", text \in Seq(Lexeme), tt = TokenText(x),
         text' = (text \o BeginValueText) \o tt
  PROVE  Wrote(x)
<1>1. /\ BeginValueText \in Seq(Lexeme) /\ Pads(BeginValueText)
      /\ Squeeze(BeginValueText) = IF WriterCommaDue(x.type) THEN <<Punct(",")>> ELSE <<>>
  BY ValuePre
<1>2. tt \in Seq(Lexeme)
  BY TokenTextSqueezed
<1>3. text \o BeginValueText \in Seq(Lexeme)
  BY <1>1, Concat
<1>4. (text \o BeginValueText) \o tt \in Seq(Lexeme)
  BY <1>2, <1>3, Concat
<1>5. text' = ((text \o BeginValueText) \o TokenText(x)) \o <<>>
  BY <1>4, ConcatEmpty
<1> QED BY <1>1, <1>5, Blanks DEF Wrote

LEMMA NextWrote ==
  ASSUME WriterInv, WriterNext, text \in Seq(Lexeme)
  PROVE  \/ UNCHANGED <<text, calls, wmode, wmode_stack>>
         \/ \E x \in Call : /\ Regular(x) /\ calls' = Append(calls, x)
                             /\ Wrote(x) /\ Placed(x.type)
<1>0. wmode \in Mode /\ wmode_stack \in Seq(Pushed)
      /\ (wmode = "DocumentStart" <=> wmode_stack = <<>>)
  BY DEF WriterInv
<1>1. ASSUME NEW t \in {"String", "Integer", "Boolean", "Null"}, NEW v,
             \/ t \in {"String", "Integer"} /\ v \in Value
             \/ t = "Boolean" /\ v \in BOOLEAN
             \/ t = "Null" /\ v = NoValue,
             WriteScalar(t, v)
      PROVE  \E x \in Call : /\ Regular(x) /\ calls' = Append(calls, x)
                              /\ Wrote(x) /\ Placed(x.type)
  <2> DEFINE x == [type |-> t, value |-> v]
  <2>1. x.type = t /\ x.value = v /\ x \in Call /\ Sound(x) /\ Regular(x)
    BY <1>1 DEF Regular, Starts, Ends, Sound, Call, Calls!JsonToken, Calls!Scalars
  <2>2. calls' = Append(calls, x) /\ text' = (text \o BeginValueText) \o TokenText(x)
    BY <1>1 DEF WriteScalar, Called
  <2>3. Placed(t) /\ wmode # "ObjectPropertyName" /\ t \notin Ends
    BY <1>1 DEF WriteScalar, Placed, MayBeginValue, Calls!Scalars, Ends
  <2> HIDE DEF x
  <2>4. Wrote(x)
    BY <2>1, <2>2, <2>3, ValueWrote
  <2> QED BY <2>1, <2>2, <2>3, <2>4
<1>2. ASSUME NEW t \in Starts, BeginContainer(t, t)
      PROVE  \E x \in Call : /\ Regular(x) /\ calls' = Append(calls, x)
                              /\ Wrote(x) /\ Placed(x.type)
  <2> DEFINE x == [type |-> t, value |-> NoValue]
  <2>1. x.type = t /\ x \in Call /\ Sound(x) /\ Regular(x)
    BY DEF Regular, Sound, Call, Calls!JsonToken, Calls!Scalars, Starts, Ends
  <2>2. TokenText([type |-> t]) = TokenText(x)
    BY DEF TokenText, Starts
  <2>3. calls' = Append(calls, x)
        /\ text' = (text \o BeginValueText) \o TokenText([type |-> t])
    BY <1>2 DEF BeginContainer, Called
  <2>4. Placed(t) /\ wmode # "ObjectPropertyName" /\ t \notin Ends
    <3>1. Len(Append(wmode_stack, ModeInValue)) = Len(wmode_stack) + 1
      BY <1>0
    <3> QED BY <1>2, <3>1 DEF BeginContainer, Placed, MayBeginValue, Starts, Ends
  <2> HIDE DEF x
  <2>5. Wrote(x)
    BY <2>1, <2>2, <2>3, <2>4, ValueWrote
  <2> QED BY <2>1, <2>3, <2>4, <2>5
<1>3. ASSUME NEW t \in Ends, NEW ms, wmode # "DocumentStart", EndContainer(ms, t)
      PROVE  \E x \in Call : /\ Regular(x) /\ calls' = Append(calls, x)
                              /\ Wrote(x) /\ Placed(x.type)
  <2> DEFINE x == [type |-> t, value |-> NoValue]
  <2>1. x.type = t /\ x \in Call /\ Sound(x) /\ Regular(x)
    BY DEF Regular, Sound, Call, Calls!JsonToken, Calls!Scalars, Starts, Ends
  <2>2. TokenText([type |-> t]) = TokenText(x)
    BY DEF TokenText, Ends
  <2>3. calls' = Append(calls, x)
        /\ text' = (text \o LineBreak) \o TokenText([type |-> t])
    BY <1>3 DEF EndContainer, Called
  <2>4. Placed(t)
    <3>1. wmode_stack # <<>>
      BY <1>0, <1>3
    <3>2. Len(SubSeq(wmode_stack, 1, Len(wmode_stack) - 1)) = Len(wmode_stack) - 1
      BY <1>0, <3>1, FrontOf
    <3> QED BY <1>3, <3>2 DEF EndContainer, Placed, Front
  <2> HIDE DEF x
  <2>5. Wrote(x)
    <3>1. TokenText(x) \in Seq(Lexeme) /\ text \o LineBreak \in Seq(Lexeme)
      BY <2>1, TokenTextSqueezed, Blanks, Concat
    <3>2. (text \o LineBreak) \o TokenText(x) \in Seq(Lexeme)
      BY <3>1, Concat
    <3>3. text' = ((text \o LineBreak) \o TokenText(x)) \o <<>>
      BY <2>2, <2>3, <3>2, ConcatEmpty
    <3>4. ~WriterCommaDue(x.type)
      BY <2>1 DEF WriterCommaDue
    <3> QED BY <3>3, <3>4, Blanks DEF Wrote
  <2> QED BY <2>1, <2>3, <2>4, <2>5
<1>4. ASSUME NEW v \in Value, WritePropertyName(v)
      PROVE  \E x \in Call : /\ Regular(x) /\ calls' = Append(calls, x)
                              /\ Wrote(x) /\ Placed(x.type)
  <2> DEFINE x == [type |-> "PropertyName", value |-> v]
             a == IF wmode = "ObjectPropertyName" THEN Comma ELSE <<>>
             c == IF Indent THEN <<Space>> ELSE <<>>
  <2>1. x.type = "PropertyName" /\ x \in Call /\ Sound(x) /\ Regular(x)
    BY DEF Regular, Sound, Call, Calls!JsonToken, Calls!Scalars, Starts, Ends
  <2>2. calls' = Append(calls, x)
        /\ text' = text \o (a \o (LineBreak \o (TokenText(x) \o c)))
    BY <1>4 DEF WritePropertyName, Called
  <2>3. Placed("PropertyName")
    BY <1>4 DEF WritePropertyName, Placed
  <2>4. /\ a \in Seq(Lexeme) /\ Pads(a)
        /\ Squeeze(a) = IF WriterCommaDue("PropertyName") THEN <<Punct(",")>> ELSE <<>>
    BY <1>4, Blanks DEF WriterCommaDue, Ends, WritePropertyName
  <2>5. c \in Seq(Lexeme) /\ Pads(c) /\ Squeeze(c) = <<>>
    BY Blanks
  <2> HIDE DEF x, a, c
  <2>6. TokenText(x) \in Seq(Lexeme)
    BY <2>1, TokenTextSqueezed
  <2>7. /\ a \o LineBreak \in Seq(Lexeme) /\ Pads(a \o LineBreak)
        /\ Squeeze(a \o LineBreak) = IF WriterCommaDue("PropertyName") THEN <<Punct(",")>> ELSE <<>>
    <3>1. /\ a \o LineBreak \in Seq(Lexeme)
          /\ Squeeze(a \o LineBreak) = Squeeze(a) \o <<>> /\ Squeeze(a) \in Seq(Lexeme)
      BY <2>4, Blanks, SqueezeConcat
    <3>2. Squeeze(a) \o <<>> = Squeeze(a)
      BY <3>1, ConcatEmpty
    <3>3. Pads(a \o LineBreak)
      BY <2>4, Blanks, PadsConcat
    <3> QED BY <2>4, <3>1, <3>2, <3>3
  <2>8. text' = ((text \o (a \o LineBreak)) \o TokenText(x)) \o c
    <3> DEFINE b == LineBreak
               d == TokenText(x)
    <3>1. text \in Seq(Lexeme) /\ a \in Seq(Lexeme) /\ b \in Seq(Lexeme)
          /\ d \in Seq(Lexeme) /\ c \in Seq(Lexeme)
      BY <2>4, <2>5, <2>6, Blanks
    <3> HIDE DEF b, d
    <3>3. Cat(text, Cat(a, Cat(b, Cat(d, c)))) = Cat(Cat(Cat(text, Cat(a, b)), d), c)
      BY <3>1, CatFive
    <3> QED BY <2>2, <3>3 DEF b, d, Cat
  <2>9. Wrote(x)
    BY <2>1, <2>5, <2>7, <2>8 DEF Wrote
  <2> QED BY <2>1, <2>2, <2>3, <2>9
<1>5. CASE BeginPack \/ EndPack
  BY <1>5 DEF BeginPack, EndPack
<1>6. CASE EndArray \/ EndObject
  <2>1. wmode # "DocumentStart"
    BY <1>6 DEF EndArray, EndObject, EndContainer
  <2>2. \E t \in Ends : \E ms : EndContainer(ms, t)
    BY <1>6 DEF EndArray, EndObject, Ends
  <2> QED BY <1>3, <2>1, <2>2
<1>7. CASE BeginArray \/ BeginObject
  BY <1>2, <1>7 DEF BeginArray, BeginObject, Starts
<1>8. CASE WriteAnyScalar
  BY <1>1, <1>8 DEF WriteAnyScalar
<1> QED BY <1>4, <1>5, <1>6, <1>7, <1>8 DEF WriterNext

(***************************************************************************)
(* The inductive invariant of WritesJson: as many containers are open by   *)
(* the calls as mode_stack_ holds.                                         *)
(***************************************************************************)
WrittenInv ==
  /\ text \in Seq(Lexeme)
  /\ AllSound(calls)
  /\ Depth(calls, Len(calls)) = Len(wmode_stack)
  /\ WritesJson

\* mode_ asks for a comma where the grammar does.
LEMMA WriterCommaIsSeparator ==
  ASSUME WriterInv, NamedInv, NamesFirst, WrittenInv,
         NEW x \in Call, Sound(x), Placed(x.type)
  PROVE  Separator(Append(calls, x), Len(calls) + 1) =
           IF WriterCommaDue(x.type) THEN <<Punct(",")>> ELSE <<>>
<1> DEFINE n == Len(calls)
           a == Append(calls, x)
           t == x.type
<1>0. calls \in Seq(Call)
  BY DEF WriterInv
<1>1. /\ n \in Nat /\ a[n + 1] = x /\ \A i \in 1..n : a[i] = calls[i]
      /\ n > 0 <=> calls # <<>>
  BY <1>0, Appended
<1>2. Depth(a, n) = Len(wmode_stack) /\ Len(wmode_stack) \in Nat
  <2>1. Depth(a, n) = Depth(calls, n)
    BY <1>0, <1>1, DepthAppend
  <2> QED BY <2>1 DEF WrittenInv, WriterInv
<1>3. n > 0 => a[n].type = LastCall
  BY <1>1 DEF LastCall, Last
<1>4. n = 0 => Len(wmode_stack) = 0
  <2>1. n = 0 => calls = <<>>
    BY <1>1
  <2>2. n = 0 => Depth(calls, n) = 0
    BY <2>1, DepthNone
  <2> QED BY <2>2 DEF WrittenInv
<1>5. wmode = "DocumentStart" <=> Len(wmode_stack) = 0
  BY DEF WriterInv
<1>6. (n + 1) - 1 = n /\ (n + 1 > 1 <=> n > 0)
  BY <1>1
<1> HIDE DEF a
<1>7. Separator(a, n + 1) =
        IF n > 0 /\ Len(wmode_stack) > 0 /\ t \notin Ends
             /\ LastCall \notin Starts \cup {"PropertyName"}
        THEN <<Punct(",")>> ELSE <<>>
  BY <1>1, <1>2, <1>3, <1>6 DEF Separator
<1>8. WriterCommaDue(t) <=> /\ n > 0 /\ Len(wmode_stack) > 0 /\ t \notin Ends
                      /\ LastCall \notin Starts \cup {"PropertyName"}
  <2>1. wmode \in Mode /\ (LastCall = "PropertyName" <=> wmode = "ObjectPropertyValue")
        /\ (LastCall \in Starts <=> wmode \in {"StartArray", "StartObject"})
    BY DEF WriterInv, NamedInv, Starts
  <2>2. (n > 0 /\ Len(wmode_stack) > 0) <=> wmode # "DocumentStart"
    BY <1>1, <1>2, <1>4, <1>5
  <2>3. wmode \in {"MiddleArray", "ObjectPropertyName"}
          <=> /\ wmode # "DocumentStart"
              /\ LastCall \notin Starts \cup {"PropertyName"}
    BY <2>1 DEF Mode
  <2> QED BY <2>2, <2>3 DEF WriterCommaDue
<1> QED BY <1>7, <1>8 DEF a

LEMMA TextKept ==
  ASSUME WriterInv, NamedInv, WrittenInv, WriterNext
  PROVE  WrittenInv'
<1>1. CASE UNCHANGED <<text, calls, wmode, wmode_stack>>
  BY <1>1 DEF WrittenInv, WritesJson, NamesFirst
<1>2. ASSUME NEW x \in Call, Sound(x), calls' = Append(calls, x), Wrote(x), Placed(x.type)
      PROVE  WrittenInv'
  <2>0. /\ calls \in Seq(Call) /\ AllSound(calls)
        /\ wmode_stack \in Seq(Pushed)
    BY DEF WriterInv, WrittenInv
  <2>1. /\ Len(calls) \in Nat /\ Len(calls') = Len(calls) + 1
        /\ DOMAIN calls' = 1..(Len(calls) + 1) /\ DOMAIN calls = 1..Len(calls)
        /\ \A i \in 1..Len(calls) : calls'[i] = calls[i]
        /\ calls'[Len(calls) + 1] = x
    BY <1>2, <2>0, Appended
  <2>2. AllSound(calls')
    BY <1>2, <2>0, <2>1 DEF AllSound
  <2>3. Depth(calls', Len(calls')) = Len(wmode_stack')
    <3>1. /\ Depth(calls, Len(calls)) = Len(wmode_stack) /\ Len(wmode_stack) \in Nat
      BY <2>0 DEF WrittenInv
    <3>2. Depth(calls', Len(calls) + 1) =
            CASE x.type \in Starts -> Len(wmode_stack) + 1
              [] x.type \in Ends -> Len(wmode_stack) - 1
              [] OTHER -> Len(wmode_stack)
      BY <1>2, <2>0, <3>1, DepthAppend
    <3>3. /\ x.type \in Starts => /\ Len(wmode_stack') = Len(wmode_stack) + 1
                                  /\ x.type \notin Ends
          /\ x.type \in Ends => Len(wmode_stack') = Len(wmode_stack) - 1
          /\ x.type \notin Starts \cup Ends => Len(wmode_stack') = Len(wmode_stack)
      BY <1>2 DEF Placed, Starts, Ends, Calls!Scalars
    <3> QED BY <2>1, <3>2, <3>3
  <2>4. PICK pre \in Seq(Lexeme), post \in Seq(Lexeme) :
          /\ text' = ((text \o pre) \o TokenText(x)) \o post
          /\ Squeeze(pre) = IF WriterCommaDue(x.type) THEN <<Punct(",")>> ELSE <<>>
          /\ Squeeze(post) = <<>>
    BY <1>2 DEF Wrote
  <2> DEFINE tt == TokenText(x)
             sep == Separator(calls', Len(calls) + 1)
  <2>5. tt \in Seq(Lexeme) /\ Squeeze(tt) = tt
    BY <1>2, TokenTextSqueezed
  <2>t. text \in Seq(Lexeme) /\ text' = ((text \o pre) \o tt) \o post
    BY <2>4 DEF WrittenInv
  <2>7. Canonical(calls') = Canonical(calls) \o (sep \o tt)
    BY <1>2, <2>0, CanonicalAppend
  <2> HIDE DEF tt, sep
  <2>8. /\ text \o pre \in Seq(Lexeme)
        /\ Squeeze(text \o pre) = Squeeze(text) \o Squeeze(pre)
        /\ Squeeze(text) \in Seq(Lexeme)
    BY <2>t, SqueezeConcat
  <2>9. /\ (text \o pre) \o tt \in Seq(Lexeme)
        /\ Squeeze((text \o pre) \o tt) = Squeeze(text \o pre) \o Squeeze(tt)
    BY <2>5, <2>8, SqueezeConcat
  <2>10. /\ text' \in Seq(Lexeme)
         /\ Squeeze(text') = Squeeze((text \o pre) \o tt) \o Squeeze(post)
         /\ Squeeze((text \o pre) \o tt) \in Seq(Lexeme)
    BY <2>t, <2>9, SqueezeConcat
  <2>11. Squeeze(text') = Squeeze((text \o pre) \o tt)
    BY <2>4, <2>10, ConcatEmpty
  <2>12. Squeeze(pre) \in Seq(Lexeme)
    BY SqueezeConcat
  <2>14. ASSUME NamesFirst'
         PROVE  Squeeze(text') = Canonical(calls')
    <3>1. NamesFirst
      BY <1>2, <2>14, NamesBefore
    <3>2. Squeeze(text) = Canonical(calls)
      BY <3>1 DEF WrittenInv, WritesJson
    <3>3. sep = Squeeze(pre)
      BY <1>2, <2>4, <3>1, WriterCommaIsSeparator DEF sep
    <3> DEFINE c == Canonical(calls)
    <3>4. c \in Seq(Lexeme) /\ sep \in Seq(Lexeme) /\ tt \in Seq(Lexeme)
      BY <2>5, <2>8, <2>12, <3>2, <3>3
    <3> HIDE DEF c
    <3>5. Cat(Cat(c, sep), tt) = Cat(c, Cat(sep, tt))
      BY <3>4, CatConcat
    <3>6. (Canonical(calls) \o sep) \o tt = Canonical(calls) \o (sep \o tt)
      BY <3>5 DEF c, Cat
    <3> QED BY <2>5, <2>7, <2>8, <2>9, <2>11, <3>2, <3>3, <3>6
  <2> QED BY <2>2, <2>3, <2>10, <2>14 DEF WrittenInv, WritesJson
<1>3. text \in Seq(Lexeme)
  BY DEF WrittenInv
<1> QED BY <1>1, <1>2, <1>3, NextWrote DEF Regular

LEMMA PipeTextInv ==
  WriterInv /\ NamedInv /\ WrittenInv /\ [PipeNext]_pipeVars => WrittenInv'
<1>1. WrittenInv /\ UNCHANGED writerVars => WrittenInv'
  BY DEF WrittenInv, WritesJson, NamesFirst, writerVars
<1> QED BY <1>1, TextKept DEF PipeNext, Log, OpenLog, Read, pipeVars

LEMMA InitWritten == PipeInit => WriterInv /\ NamedInv /\ WrittenInv
<1> SUFFICES ASSUME PipeInit PROVE WriterInv /\ NamedInv /\ WrittenInv
  OBVIOUS
<1>1. text = <<>> /\ calls = <<>> /\ wmode_stack = <<>> /\ WriterInv /\ NamedInv
  BY InitWriterInv, InitNamedInv DEF PipeInit, WriterInit
<1>2. Depth(calls, Len(calls)) = 0 /\ Len(wmode_stack) = 0
  BY <1>1, DepthNone
<1>3. WritesJson
  BY <1>1, CanonicalEmpty, SqueezeSmall DEF WritesJson
<1> QED BY <1>1, <1>2, <1>3 DEF WrittenInv, AllSound

\* For every sequence of calls in which no value follows a BeginObject
\* directly, at every moment and with every mixture of packed and indented
\* lines: what has been written, white space apart, is the text that the
\* grammar gives the calls, commas included.
THEOREM WriterWritesJson == PipeSpec => []WritesJson
<1>1. WrittenInv => WritesJson
  BY DEF WrittenInv
<1> QED BY <1>1, InitWritten, PipeWriterInv, PipeNamedInv, PipeTextInv, PTL DEF PipeSpec

(***************************************************************************)
(* No number that the writer writes runs into what follows it.             *)
(***************************************************************************)
Numeric(s) == s # <<>> /\ Number(s[Len(s)])

LEMMA EndsInConcat ==
  ASSUME NEW a \in Seq(Lexeme), NEW b \in Seq(Lexeme), EndsIn(a), EndsIn(b),
         Numeric(a) /\ b # <<>> => b[1].type \in Delimiters
  PROVE  /\ a \o b \in Seq(Lexeme)
         /\ EndsIn(a \o b)
         /\ Numeric(a \o b) => Numeric(b) \/ (b = <<>> /\ Numeric(a))
<1> DEFINE c == a \o b
<1>1. /\ Len(a) \in Nat /\ Len(b) \in Nat /\ c \in Seq(Lexeme) /\ Len(c) = Len(a) + Len(b)
      /\ a # <<>> <=> Len(a) >= 1
      /\ b # <<>> <=> Len(b) >= 1
      /\ c # <<>> <=> Len(c) >= 1
  OBVIOUS
<1>2. /\ \A i \in 1..Len(a) : c[i] = a[i]
      /\ \A i \in 1..Len(b) : c[Len(a) + i] = b[i]
  OBVIOUS
<1> HIDE DEF c
<1>3. EndsIn(c)
  <2>4. ASSUME NEW i \in 1..Len(c) PROVE c[i].type # "minus"
    <3>1. CASE i \in 1..Len(a)
      BY <1>2, <3>1 DEF EndsIn
    <3>2. CASE i \notin 1..Len(a)
      <4> DEFINE j == i - Len(a)
      <4>1. j \in 1..Len(b) /\ Len(a) + j = i
        BY <1>1, <3>2
      <4> HIDE DEF j
      <4> QED BY <1>2, <4>1 DEF EndsIn
    <3> QED BY <3>1, <3>2
  <2> SUFFICES ASSUME NEW i \in 1..(Len(c) - 1), Number(c[i])
               PROVE  c[i + 1].type \in Delimiters
    BY <2>4 DEF EndsIn
  <2>1. CASE i < Len(a)
    <3>1. i \in 1..(Len(a) - 1) /\ i \in 1..Len(a) /\ i + 1 \in 1..Len(a)
      BY <1>1, <2>1
    <3> QED BY <1>2, <3>1 DEF EndsIn
  <2>2. CASE i = Len(a)
    <3>1. i \in 1..Len(a) /\ 1 \in 1..Len(b) /\ a # <<>> /\ b # <<>>
      BY <1>1, <2>2
    <3>2. c[i] = a[Len(a)] /\ c[i + 1] = b[1]
      BY <1>2, <2>2, <3>1
    <3> QED BY <3>1, <3>2 DEF Numeric
  <2>3. CASE i > Len(a)
    <3> DEFINE j == i - Len(a)
    <3>1. j \in 1..(Len(b) - 1) /\ j \in 1..Len(b) /\ j + 1 \in 1..Len(b)
          /\ Len(a) + j = i /\ Len(a) + (j + 1) = i + 1
      BY <1>1, <2>3
    <3> HIDE DEF j
    <3>2. c[i] = b[j] /\ c[i + 1] = b[j + 1]
      BY <1>2, <3>1
    <3> QED BY <3>1, <3>2 DEF EndsIn
  <2> QED BY <1>1, <2>1, <2>2, <2>3
<1>4. Numeric(c) => Numeric(b) \/ (b = <<>> /\ Numeric(a))
  <2>1. CASE b = <<>>
    <3>1. Len(b) = 0
      BY <2>1
    <3>2. Len(c) = Len(a)
      BY <1>1, <3>1
    <3>3. c # <<>> => a # <<>> /\ Len(a) \in 1..Len(a)
      BY <1>1, <3>2
    <3> QED BY <1>2, <2>1, <3>2, <3>3 DEF Numeric
  <2>2. CASE b # <<>>
    <3>1. Len(b) \in 1..Len(b)
      BY <1>1, <2>2
    <3>2. c[Len(c)] = b[Len(b)]
      BY <1>1, <1>2, <3>1
    <3> QED BY <2>2, <3>2 DEF Numeric
  <2> QED BY <2>1, <2>2
<1> QED BY <1>1, <1>3, <1>4 DEF c

LEMMA PadsEnd ==
  ASSUME NEW s \in Seq(Lexeme), Pads(s)
  PROVE  EndsIn(s) /\ ~Numeric(s) /\ (s # <<>> => s[1].type \in Delimiters)
<1>1. Len(s) \in Nat /\ DOMAIN s = 1..Len(s) /\ (s # <<>> <=> Len(s) >= 1)
  OBVIOUS
<1>2. \A i \in 1..Len(s) : s[i].type \in {",", "space"}
  BY <1>1 DEF Pads
<1>3. \A i \in 1..Len(s) : /\ ~Number(s[i]) /\ s[i].type # "minus"
                          /\ s[i].type \in Delimiters
  BY <1>2 DEF Number, Delimiters
<1> QED BY <1>1, <1>3 DEF EndsIn, Numeric

LEMMA TokenTextEnds ==
  ASSUME NEW x, Regular(x)
  PROVE  /\ TokenText(x) \in Seq(Lexeme) /\ TokenText(x) # <<>> /\ EndsIn(TokenText(x))
         /\ x.type \in Ends => TokenText(x)[1].type \in Delimiters
         /\ Numeric(TokenText(x)) => x.type \in {"Integer", "Float"}
<1>1. TokenText(x) \in Seq(Lexeme)
  BY TokenTextSqueezed DEF Regular
<1>2. CASE x.type = "PropertyName"
  <2> DEFINE a == Literal("string", x.value)
             b == Punct(":")
             t == <<a, b>>
  <2>1. TokenText(x) = t
    BY <1>2 DEF TokenText
  <2>2. a.type = "string" /\ b.type = ":"
    BY DEF Literal, Punct
  <2> HIDE DEF a, b
  <2>3. Len(t) = 2 /\ t[1] = a /\ t[2] = b /\ t # <<>>
    OBVIOUS
  <2> HIDE DEF t
  <2>4. ~Number(a) /\ ~Number(b)
    BY <2>2 DEF Number
  <2>5. EndsIn(t)
    <3>1. /\ \A i \in 1..(Len(t) - 1) : i = 1
          /\ \A i \in 1..Len(t) : i = 1 \/ i = 2
      BY <2>3
    <3> QED BY <2>2, <2>3, <2>4, <3>1 DEF EndsIn
  <2>6. ~Numeric(t)
    BY <2>3, <2>4 DEF Numeric
  <2> QED BY <1>1, <1>2, <2>1, <2>3, <2>5, <2>6 DEF Ends
<1>3. CASE x.type # "PropertyName"
  <2>1. PICK l \in Lexeme : TokenText(x) = <<l>> /\ Spells(l, x)
    BY <1>3, OneLexeme
  <2>2. /\ Len(<<l>>) = 1 /\ <<l>>[1] = l /\ <<l>> # <<>>
        /\ 1..(1 - 1) = {} /\ \A i \in 1..1 : i = 1
    OBVIOUS
  <2>3. EndsIn(TokenText(x))
    <3>1. l.type # "minus"
      BY <2>1 DEF Spells
    <3> QED BY <2>1, <2>2, <3>1 DEF EndsIn
  <2>4. x.type \in Ends => l.type \in Delimiters
    <3>1. /\ x.type = "EndArray" => TokenText(x) = <<Punct("]")>>
          /\ x.type = "EndObject" => TokenText(x) = <<Punct("}")>>
      BY DEF TokenText
    <3>2. \A a, b : <<a>> = <<b>> => a = b
      OBVIOUS
    <3>3. /\ x.type = "EndArray" => l = Punct("]")
          /\ x.type = "EndObject" => l = Punct("}")
      BY <2>1, <3>1, <3>2
    <3>4. Punct("]").type = "]" /\ Punct("}").type = "}"
      BY DEF Punct
    <3> QED BY <3>3, <3>4 DEF Ends, Delimiters
  <2>5. Number(l) => x.type \in {"Integer", "Float"}
    <3>1. l.type = "integer" => x = [type |-> "Integer", value |-> l.value]
      BY <2>1 DEF Spells
    <3>2. l.type = "float" => x = [type |-> "Float", value |-> l.value]
      BY <2>1 DEF Spells
    <3>3. l.type # "hugeNumber"
      BY <2>1 DEF Spells
    <3> QED BY <3>1, <3>2, <3>3 DEF Number
  <2> QED BY <1>1, <2>1, <2>2, <2>3, <2>4, <2>5 DEF Numeric
<1> QED BY <1>2, <1>3

\* What a call writes leaves every number that was written whole.
LEMMA WroteEnds ==
  ASSUME text \in Seq(Lexeme), EndsIn(text),
         Numeric(text) => wmode \in {"MiddleArray", "ObjectPropertyName"},
         NEW x, Regular(x), Wrote(x)
  PROVE  EndsIn(text') /\ (Numeric(text') => x.type \in {"Integer", "Float"})
<1>1. PICK pre \in Seq(Lexeme), post \in Seq(Lexeme) :
        /\ Pads(pre) /\ Pads(post)
        /\ text' = ((text \o pre) \o TokenText(x)) \o post
        /\ Squeeze(pre) = IF WriterCommaDue(x.type) THEN <<Punct(",")>> ELSE <<>>
  BY DEF Wrote
<1> DEFINE tt == TokenText(x)
           a == text \o pre
           b == a \o tt
<1>2. /\ tt \in Seq(Lexeme) /\ tt # <<>> /\ EndsIn(tt)
      /\ x.type \in Ends => tt[1].type \in Delimiters
      /\ Numeric(tt) => x.type \in {"Integer", "Float"}
  BY TokenTextEnds
<1>3. /\ EndsIn(pre) /\ ~Numeric(pre) /\ (pre # <<>> => pre[1].type \in Delimiters)
      /\ EndsIn(post) /\ ~Numeric(post) /\ (post # <<>> => post[1].type \in Delimiters)
  BY <1>1, PadsEnd
<1>4. a \in Seq(Lexeme) /\ EndsIn(a) /\ (Numeric(a) => pre = <<>> /\ Numeric(text))
  BY <1>3, EndsInConcat
<1>5. Numeric(a) => x.type \in Ends
  <2> SUFFICES ASSUME Numeric(a), x.type \notin Ends PROVE FALSE
    OBVIOUS
  <2>1. WriterCommaDue(x.type) /\ pre = <<>>
    BY <1>4 DEF WriterCommaDue
  <2>2. Squeeze(pre) = <<>> /\ Squeeze(pre) = <<Punct(",")>>
    BY <1>1, <2>1, Blanks
  <2>3. \A l : <<l>> # <<>>
    OBVIOUS
  <2> QED BY <2>2, <2>3
<1> HIDE DEF a, tt
<1>6. b \in Seq(Lexeme) /\ EndsIn(b) /\ (Numeric(b) => Numeric(tt))
  BY <1>2, <1>4, <1>5, EndsInConcat
<1> HIDE DEF b
<1>7. EndsIn(b \o post) /\ (Numeric(b \o post) => Numeric(b))
  BY <1>3, <1>6, EndsInConcat
<1>8. text' = b \o post
  BY <1>1 DEF a, b, tt
<1> QED BY <1>2, <1>6, <1>7, <1>8

(***************************************************************************)
(* The containers that are open after each of the tokens ts.               *)
(***************************************************************************)
TypeAt(ts, k) == IF k = 0 THEN "None" ELSE ts[k].type

Nested(ts, f) ==
  /\ f[0] = <<>>
  /\ \A k \in 1..Len(ts) : Moves(f[k - 1], TypeAt(ts, k - 1), ts[k].type, f[k])

\* ts are the tokens of a stream of JSON values, with the containers o open
\* after the first k of them.
NestsTo(ts, k, o) == \E f : Nested(ts, f) /\ f[k] = o

LEMMA NestsAppend ==
  ASSUME NEW C, NEW ts \in Seq(C), NEW x \in C, NEW o, NEW q,
         NestsTo(ts, Len(ts), o), Moves(o, TypeAt(ts, Len(ts)), x.type, q)
  PROVE  NestsTo(Append(ts, x), Len(ts) + 1, q)
<1>1. PICK f : Nested(ts, f) /\ f[Len(ts)] = o
  BY DEF NestsTo
<1> DEFINE n == Len(ts)
           g == [k \in 0..(n + 1) |-> IF k = n + 1 THEN q ELSE f[k]]
           a == Append(ts, x)
<1>2. /\ n \in Nat /\ Len(a) = n + 1 /\ \A i \in 1..n : a[i] = ts[i]
      /\ a[n + 1] = x
  BY Appended
<1>3. g[n + 1] = q /\ \A k \in 0..n : g[k] = f[k]
  BY <1>2
<1>4. \A k \in 0..n : TypeAt(a, k) = TypeAt(ts, k)
  BY <1>2 DEF TypeAt
<1> HIDE DEF g, a, n
<1>5. ASSUME NEW k \in 1..(n + 1)
      PROVE  Moves(g[k - 1], TypeAt(a, k - 1), a[k].type, g[k])
  <2>1. k - 1 \in 0..n
    BY <1>2
  <2>2. g[k - 1] = f[k - 1] /\ TypeAt(a, k - 1) = TypeAt(ts, k - 1)
    BY <1>3, <1>4, <2>1
  <2>3. CASE k = n + 1
    <3>1. k - 1 = n
      BY <1>2, <2>3
    <3>2. a[k] = x /\ g[k] = q /\ f[k - 1] = o
      BY <1>1, <1>2, <1>3, <2>3, <3>1 DEF n
    <3> QED BY <2>2, <3>1, <3>2 DEF n
  <2>4. CASE k # n + 1
    <3>1. k \in 1..n /\ k \in 0..n
      BY <1>2, <2>4
    <3>2. Moves(f[k - 1], TypeAt(ts, k - 1), ts[k].type, f[k])
      BY <1>1, <3>1 DEF Nested, n
    <3> QED BY <1>2, <1>3, <2>2, <3>1, <3>2
  <2> QED BY <2>3, <2>4
<1>6. g[0] = <<>>
  BY <1>1, <1>2, <1>3 DEF Nested
<1>7. Nested(a, g)
  BY <1>2, <1>5, <1>6 DEF Nested
<1> QED BY <1>3, <1>7 DEF NestsTo, a, n

LEMMA NestsNext ==
  ASSUME NEW ts, NEW k \in Nat, Len(ts) \in Nat, k < Len(ts), NEW o, NestsTo(ts, k, o)
  PROVE  \E q : Moves(o, TypeAt(ts, k), ts[k + 1].type, q) /\ NestsTo(ts, k + 1, q)
<1>1. PICK f : Nested(ts, f) /\ f[k] = o
  BY DEF NestsTo
<1> DEFINE m == k + 1
<1>2. m \in 1..Len(ts) /\ m - 1 = k
  OBVIOUS
<1> HIDE DEF m
<1>3. Moves(f[m - 1], TypeAt(ts, m - 1), ts[m].type, f[m])
  BY <1>1, <1>2 DEF Nested
<1>4. Moves(o, TypeAt(ts, k), ts[m].type, f[m]) /\ NestsTo(ts, m, f[m])
  BY <1>1, <1>2, <1>3 DEF NestsTo
<1> QED BY <1>4 DEF m

LEMMA NestsFirst ==
  ASSUME NEW ts, NEW k, NEW o, NestsTo(ts, k, o)
  PROVE  NestsTo(ts, 0, <<>>)
BY DEF NestsTo, Nested

LEMMA NestsNone == NestsTo(<<>>, 0, <<>>)
<1> DEFINE f == [k \in {0} |-> <<>>]
<1>1. f[0] = <<>> /\ \A k \in 1..Len(<<>>) : FALSE
  OBVIOUS
<1> HIDE DEF f
<1>2. Nested(<<>>, f)
  BY <1>1 DEF Nested
<1> QED BY <1>1, <1>2 DEF NestsTo

LEMMA WriterMoves ==
  ASSUME Calls!Next
  PROVE  Moves(WriterOpen, LastCall, LastCall', WriterOpen')
<1>1. Calls!ValueDue => \/ WriterOpen = <<>> \/ WriterOpen[Len(WriterOpen)] = "Array"
                        \/ LastCall = "PropertyName"
  BY DEF Calls!ValueDue, Calls!Within, Calls!Named, Calls!Last
<1>2. CASE Calls!Scalar
  BY <1>1, <1>2 DEF Calls!Scalar, Calls!Scalars, Moves
<1>3. CASE Calls!Start("Array", "StartArray")
  BY <1>1, <1>3 DEF Calls!Start, Moves
<1>4. CASE Calls!Start("Object", "StartObject")
  BY <1>1, <1>4 DEF Calls!Start, Moves
<1>5. CASE Calls!End("Array", "EndArray")
  BY <1>5 DEF Calls!End, Calls!Within, Calls!Named, Calls!Last, Calls!Front, Moves
<1>6. CASE Calls!End("Object", "EndObject")
  BY <1>6 DEF Calls!End, Calls!Within, Calls!Named, Calls!Last, Calls!Front, Moves
<1>7. CASE Calls!PropertyName
  BY <1>7 DEF Calls!PropertyName, Calls!Within, Calls!Named, Calls!Last, Moves
<1> QED BY <1>2, <1>3, <1>4, <1>5, <1>6, <1>7 DEF Calls!Next

(***************************************************************************)
(* The inductive invariant of RoundTrip.  Of what has been logged: the     *)
(* calls nest, and a number at the end of the text is one that a comma, or *)
(* the end of its container, will follow.                                  *)
(***************************************************************************)
AllRegular(ts) == \A i \in DOMAIN ts : Regular(ts[i])

LoggedInv ==
  /\ AllRegular(calls)
  /\ NamesFirst => /\ EndsIn(text)
                   /\ Numeric(text) => wmode \in {"MiddleArray", "ObjectPropertyName"}
                   /\ NestsTo(calls, Len(calls), WriterOpen)

LEMMA LogKeeps ==
  ASSUME WriterInv, WriterInv', NamedInv, NamedInv', WrittenInv, LoggedInv, Log
  PROVE  LoggedInv'
<1>0. WriterNext /\ (wmode = "DocumentStart" => calls' = calls \/ LastCall' \in Starts)
  BY DEF Log
<1>1. CASE UNCHANGED <<text, calls, wmode, wmode_stack>>
  BY <1>1 DEF LoggedInv, WriterOpen, NamesFirst
<1>2. ASSUME NEW x \in Call, Regular(x), calls' = Append(calls, x), Wrote(x), Placed(x.type)
      PROVE  LoggedInv'
  <2>0. calls \in Seq(Call) /\ text \in Seq(Lexeme)
    BY DEF WriterInv, WrittenInv
  <2>1. /\ Len(calls) \in Nat /\ Len(calls') = Len(calls) + 1
        /\ DOMAIN calls' = 1..(Len(calls) + 1) /\ DOMAIN calls = 1..Len(calls)
        /\ \A i \in 1..Len(calls) : calls'[i] = calls[i]
        /\ calls'[Len(calls) + 1] = x
        /\ calls' # <<>> /\ calls' # calls
        /\ Len(calls) = 0 <=> calls = <<>>
    BY <1>2, <2>0, Appended
  <2>2. LastCall' = x.type /\ LastCall = TypeAt(calls, Len(calls))
    BY <2>1 DEF LastCall, Last, TypeAt
  <2>3. AllRegular(calls')
    <3>1. \A i \in 1..Len(calls) : Regular(calls[i])
      BY <2>1 DEF AllRegular, LoggedInv
    <3>2. ASSUME NEW i \in 1..(Len(calls) + 1) PROVE Regular(calls'[i])
      <4>1. CASE i \in 1..Len(calls)
        BY <2>1, <3>1, <4>1, SMTT(40)
      <4>2. CASE i = Len(calls) + 1
        BY <1>2, <2>1, <4>2
      <4> QED BY <2>1, <4>1, <4>2
    <3> QED BY <2>1, <3>2 DEF AllRegular
  <2> SUFFICES ASSUME NamesFirst'
               PROVE  /\ EndsIn(text')
                      /\ Numeric(text') => wmode' \in {"MiddleArray", "ObjectPropertyName"}
                      /\ NestsTo(calls', Len(calls'), WriterOpen')
    BY <2>3 DEF LoggedInv
  <2>7. NamesFirst
    BY <1>2, NamesBefore
  <2>4. EndsIn(text') /\ (Numeric(text') => x.type \in {"Integer", "Float"})
    BY <1>2, <2>0, <2>7, WroteEnds DEF LoggedInv
  <2>5. x.type \in {"Integer", "Float"} => wmode' \in {"MiddleArray", "ObjectPropertyName"}
    <3> SUFFICES ASSUME x.type \in {"Integer", "Float"}
                 PROVE  wmode' \in {"MiddleArray", "ObjectPropertyName"}
      OBVIOUS
    <3>1. x.type \notin Starts /\ x.type \notin Ends /\ x.type # "PropertyName"
      BY SMTT(40) DEF Starts, Ends
    <3>2. wmode # "DocumentStart" /\ wmode_stack' = wmode_stack
      BY <1>0, <1>2, <2>1, <2>2, <3>1 DEF Placed
    <3>3. wmode' # "DocumentStart"
      BY <3>2 DEF WriterInv
    <3>4. wmode' \in Mode /\ wmode' \notin {"ObjectPropertyValue", "StartArray", "StartObject"}
      BY <2>2, <3>1, SMTT(40) DEF WriterInv, NamedInv, Starts
    <3> QED BY <3>3, <3>4 DEF Mode
  <2>6. NestsTo(calls', Len(calls'), WriterOpen')
    <3>1. Step
      BY <1>0, WriterStep
    <3>2. Calls!Next
      BY <2>1, <3>1, StepRefines DEF Packed, NamelessValue
    <3>3. Moves(WriterOpen, TypeAt(calls, Len(calls)), x.type, WriterOpen')
      BY <2>2, <3>2, WriterMoves
    <3>4. NestsTo(calls, Len(calls), WriterOpen)
      BY <2>7 DEF LoggedInv
    <3>5. NestsTo(Append(calls, x), Len(calls) + 1, WriterOpen')
      BY <2>0, <3>3, <3>4, NestsAppend
    <3> QED BY <1>2, <2>1, <3>5
  <2> QED BY <2>4, <2>5, <2>6
<1>3. text \in Seq(Lexeme)
  BY DEF WrittenInv
<1> QED BY <1>0, <1>1, <1>2, <1>3, NextWrote

\* Of what has been read: the tokens are the first calls, and what is left of
\* the text, white space apart, is the text of the other calls.
ReadInv ==
  reading =>
    /\ EndsIn(source)
    /\ Len(tokens) <= Len(calls)
    /\ \A i \in 1..Len(tokens) : tokens[i] = calls[i]
    /\ error_code = "None"
    /\ ~result => Len(tokens) = Len(calls)
    /\ result => /\ Squeeze(rest) = Left(calls, Len(tokens))
                 /\ NestsTo(calls, Len(tokens), Open)

PipeInv ==
  /\ WriterInv /\ NamedInv /\ WrittenInv /\ LoggedInv
  /\ reading \in BOOLEAN
  /\ ~reading => ReaderInit(<<>>)
  /\ TextInv
  /\ ReadInv

LEMMA CallIsToken == Call = Token
BY DEF Call, Token, Calls!JsonToken, Calls!Scalars, Tokens!JsonToken, Tokens!Scalars

\* Next() gives back the next call.
LEMMA ReadNext ==
  ASSUME PipeInv, Read, Len(tokens) < Len(calls)
  PROVE  ReadInv'
<1> DEFINE k == Len(tokens)
           x == calls[k + 1]
           left == Left(calls, k + 1)
<1>0. /\ reading /\ Next /\ calls' = calls /\ IInv /\ Kinds /\ TextInv /\ result
      /\ TextInv' /\ calls \in Seq(Call) /\ tokens \in Seq(Token) /\ AllSound(calls)
      /\ source' = source
  <2>1. result
    BY NextOutcome DEF Read, PipeInv, TextInv
  <2>2. TextInv'
    BY NextTextInv, SMTT(40) DEF Read, PipeInv
  <2>3. source' = source
    BY DEF Read, Next, NextAtEnd, NextInDocument, NextInArray, NextInObject, PopMode,
           AfterComma, ReadValue, ReadName, ReadContainer, ReadStringValue, ReadMinus, ReadNumber,
           ReadKeyword, Refuse, Return, Fail, FailAtEnd
  <2> QED BY <2>1, <2>2, <2>3
          DEF Read, PipeInv, TextInv, IInv, WriterInv, WrittenInv, writerVars
<1>1. /\ EndsIn(source) /\ error_code = "None"
      /\ \A i \in 1..k : tokens[i] = calls[i]
      /\ Squeeze(rest) = Left(calls, k)
      /\ NestsTo(calls, k, Open)
  BY <1>0 DEF PipeInv, ReadInv
<1>2. /\ k \in Nat /\ Len(calls) \in Nat /\ k + 1 \in 1..Len(calls) /\ k + 1 \in 0..Len(calls)
      /\ x \in Call /\ DOMAIN calls = 1..Len(calls)
      /\ k = 0 <=> tokens = <<>>
  BY <1>0
<1>3. Regular(x) /\ x \in Token
  BY <1>2, CallIsToken DEF PipeInv, LoggedInv, AllRegular
<1>4. LastToken = TypeAt(calls, k)
  <2>1. CASE k = 0
    BY <1>2, <2>1 DEF LastToken, TypeAt
  <2>2. CASE k # 0
    <3>1. k \in 1..k
      BY <1>2, <2>2
    <3> QED BY <1>1, <1>2, <2>2, <3>1 DEF LastToken, Last, TypeAt
  <2> QED BY <2>1, <2>2
<1>5. PICK q : Moves(Open, LastToken, x.type, q) /\ NestsTo(calls, k + 1, q)
  BY <1>1, <1>2, <1>4, NestsNext
<1>6. Fits(x.type)
  BY <1>0, <1>5, MovesFits
<1>7. left \in Seq(Lexeme) /\ Left(calls, k) = Cat(Chunk(calls, k + 1), left)
  BY <1>0, <1>2, LeftType, LeftOne
<1>8. Separator(calls, k + 1) = CommaText(x.type)
  <2>1. Separator(Append(tokens, x), k + 1) = CommaText(x.type)
    BY <1>0, <1>3, CommaIsSeparator
  <2> DEFINE a == Append(tokens, x)
  <2>2. a[k + 1] = calls[k + 1] /\ \A i \in 1..k : a[i] = calls[i]
    BY <1>0, <1>1, <1>3, Appended
  <2> HIDE DEF a
  <2>3. \A i \in 1..(k + 1) : a[i] = calls[i]
    BY <1>2, <2>2
  <2>4. Separator(a, k + 1) = Separator(calls, k + 1)
    BY <1>2, <2>3, SeparatorBefore
  <2> QED BY <2>1, <2>4 DEF a
<1>9. Squeeze(rest) = Cat(CommaText(x.type), Cat(TokenText(x), left))
  <2> DEFINE c == CommaText(x.type)
             t == TokenText(x)
  <2>1. c \in Seq(Lexeme) /\ t \in Seq(Lexeme)
    BY <1>3, <1>8, SeparatorType, TokenTextSqueezed DEF Regular
  <2>2. Chunk(calls, k + 1) = Cat(c, t)
    BY <1>8 DEF Chunk, Cat
  <2> HIDE DEF c, t, left
  <2>3. Cat(Cat(c, t), left) = Cat(c, Cat(t, left))
    BY <1>7, <2>1, CatConcat
  <2> QED BY <1>1, <1>7, <2>2, <2>3 DEF c, t
<1>10. EndsIn(rest)
  BY <1>0, <1>1 DEF TextInv
<1> HIDE DEF x, left
<1>11. Reads(x, left)
  BY <1>0, <1>3, <1>6, <1>7, <1>9, <1>10, NextReads
<1>12. /\ result' = TRUE /\ tokens' = Append(tokens, x) /\ error_code' = "None"
       /\ Squeeze(rest') = left
  BY <1>1, <1>11 DEF Reads
<1>13. /\ Len(tokens') = k + 1 /\ tokens'[k + 1] = x /\ tokens' # <<>>
       /\ \A i \in 1..k : tokens'[i] = tokens[i]
  BY <1>0, <1>3, <1>12, Appended
<1>14. Open' = q
  <2>1. LastToken' = x.type
    BY <1>13 DEF LastToken, Last
  <2>2. Moves(Open, LastToken, x.type, Open')
    BY <1>0, <1>12, <2>1, ReaderMoves
  <2> QED BY <1>5, <2>2, MovesOnce
<1>15. \A i \in 1..(k + 1) : tokens'[i] = calls[i]
  BY <1>1, <1>2, <1>13 DEF x
<1>16. Squeeze(rest') = Left(calls, k + 1) /\ NestsTo(calls, k + 1, Open')
  BY <1>5, <1>12, <1>14 DEF left
<1>17. k + 1 <= Len(calls)
  BY <1>2
<1> QED BY <1>0, <1>1, <1>12, <1>13, <1>15, <1>16, <1>17 DEF ReadInv

\* All calls have been given back: Next() returns false.
LEMMA ReadLast ==
  ASSUME PipeInv, Read, ~(Len(tokens) < Len(calls))
  PROVE  ReadInv'
<1>0. /\ reading /\ Next /\ calls' = calls /\ IInv /\ result
      /\ calls \in Seq(Call) /\ tokens \in Seq(Token) /\ source' = source
  <2>1. result
    BY NextOutcome, SMTT(40) DEF Read, PipeInv, TextInv
  <2>2. source' = source
    BY DEF Read, Next, NextAtEnd, NextInDocument, NextInArray, NextInObject, PopMode,
           AfterComma, ReadValue, ReadName, ReadContainer, ReadStringValue, ReadMinus, ReadNumber,
           ReadKeyword, Refuse, Return, Fail, FailAtEnd
  <2> QED BY <2>1, <2>2 DEF Read, PipeInv, TextInv, IInv, WriterInv, writerVars
<1>1. /\ EndsIn(source) /\ error_code = "None" /\ Len(tokens) <= Len(calls)
      /\ \A i \in 1..Len(tokens) : tokens[i] = calls[i]
      /\ Squeeze(rest) = Left(calls, Len(tokens))
  BY <1>0 DEF PipeInv, ReadInv
<1>2. Len(tokens) = Len(calls)
  BY <1>0, <1>1
<1>3. Squeeze(rest) = <<>>
  BY <1>0, <1>1, <1>2, LeftNone
<1>4. result' = FALSE /\ tokens' = tokens /\ error_code' = "None"
  BY <1>0, <1>1, <1>3, NextAtTheEnd
<1> QED BY <1>0, <1>1, <1>2, <1>4 DEF ReadInv

LEMMA InitPipeInv == PipeInit => PipeInv
<1> SUFFICES ASSUME PipeInit PROVE PipeInv
  OBVIOUS
<1>1. WriterInv /\ NamedInv /\ WrittenInv
  BY InitWritten
<1>2. ReaderInit(<<>>) /\ reading = FALSE /\ text = <<>> /\ calls = <<>>
      /\ wmode_stack = <<>> /\ wmode = "DocumentStart"
  BY DEF PipeInit, WriterInit
<1>3. TextInv
  BY <1>2, EmptyText, InitTextInv DEF Fresh
<1>4. LoggedInv
  <2>1. WriterOpen = <<>>
    BY <1>1, <1>2, OpenLast
  <2>2. NestsTo(calls, Len(calls), WriterOpen)
    BY <1>2, <2>1, NestsNone
  <2>3. Pads(<<>>) /\ <<>> \in Seq(Lexeme)
    BY Blanks
  <2>4. EndsIn(text) /\ ~Numeric(text)
    BY <1>2, <2>3, PadsEnd
  <2>5. AllRegular(calls)
    BY <1>2 DEF AllRegular
  <2> QED BY <2>2, <2>4, <2>5 DEF LoggedInv
<1> QED BY <1>1, <1>2, <1>3, <1>4 DEF PipeInv, ReadInv

LEMMA NextPipeInv ==
  ASSUME PipeInv, [PipeNext]_pipeVars,
         WriterInv', NamedInv', WrittenInv', Fresh' => TextInv'
  PROVE  PipeInv'
<1>1. CASE Log
  <2>1. LoggedInv'
    BY <1>1, LogKeeps DEF PipeInv
  <2>2. ~reading /\ reading' = reading /\ UNCHANGED vars
    BY <1>1 DEF Log
  <2>3. TextInv'
    BY <2>2, StutterTextInv DEF PipeInv
  <2>4. ReaderInit(<<>>)'
    BY <2>2 DEF PipeInv, ReaderInit, vars, positionVars, valueVars
  <2> QED BY <2>1, <2>2, <2>3, <2>4 DEF PipeInv, ReadInv
<1>2. CASE OpenLog
  <2>1. LoggedInv'
    BY <1>2 DEF OpenLog, PipeInv, LoggedInv, writerVars, WriterOpen, NamesFirst
  <2>2. /\ ~reading /\ reading' = TRUE /\ rest' = text /\ source' = text
        /\ calls' = calls /\ text' = text
        /\ UNCHANGED <<mode, mode_stack, token_type, error_code, str_value, bool_value,
                       result, tokens>>
    BY <1>2 DEF OpenLog, positionVars, valueVars, writerVars
  <2>3. ReaderInit(<<>>) /\ text \in Seq(Lexeme) /\ calls \in Seq(Call)
        /\ Squeeze(text) = Canonical(calls) /\ EndsIn(text)
        /\ NestsTo(calls, Len(calls), WriterOpen)
    BY <1>2, <2>2 DEF OpenLog, PipeInv, WrittenInv, WriterInv, WritesJson, LoggedInv
  <2>4. ReaderInit(text)'
    BY <2>2, <2>3 DEF ReaderInit
  <2>5. Fresh'
    <3>1. text' \in Seq(Lexeme)
      BY DEF WrittenInv
    <3> QED BY <2>4, <3>1 DEF Fresh
  <2>6. Squeeze(rest') = Left(calls, 0)
    BY <2>2, <2>3, LeftAll
  <2>7. Open' = <<>> /\ tokens' = <<>> /\ result' = TRUE /\ error_code' = "None"
    BY <2>4 DEF ReaderInit, Open
  <2>8. NestsTo(calls, 0, <<>>)
    BY <2>3, NestsFirst
  <2>9. Len(<<>>) = 0 /\ Len(calls) \in Nat
    BY <2>3
  <2>10. ReadInv'
    BY <2>2, <2>3, <2>6, <2>7, <2>8, <2>9 DEF ReadInv
  <2> QED BY <2>1, <2>2, <2>5, <2>10 DEF PipeInv
<1>3. CASE Read
  <2>1. LoggedInv'
    BY <1>3 DEF Read, PipeInv, LoggedInv, writerVars, WriterOpen, NamesFirst
  <2>2. TextInv'
    BY <1>3, NextTextInv DEF Read, PipeInv
  <2>3. ReadInv'
    BY <1>3, ReadNext, ReadLast
  <2>4. reading' = TRUE
    BY <1>3 DEF Read, PipeInv
  <2> QED BY <2>1, <2>2, <2>3, <2>4 DEF PipeInv
<1>4. CASE UNCHANGED pipeVars
  <2>1. UNCHANGED vars /\ UNCHANGED writerVars /\ reading' = reading
    BY <1>4 DEF pipeVars
  <2>2. TextInv'
    BY <2>1, StutterTextInv DEF PipeInv
  <2>3. LoggedInv'
    BY <2>1 DEF PipeInv, LoggedInv, writerVars, WriterOpen, NamesFirst
  <2>4. ReadInv'
    BY <2>1 DEF PipeInv, ReadInv, vars, positionVars, writerVars, Open
  <2>5. (~reading => ReaderInit(<<>>))'
    BY <2>1 DEF PipeInv, ReaderInit, vars, positionVars, valueVars
  <2> QED BY <2>1, <2>2, <2>3, <2>4, <2>5 DEF PipeInv
<1> QED BY <1>1, <1>2, <1>3, <1>4 DEF PipeNext

\* For every sequence of calls, every nesting and every mixture of packed and
\* indented lines: the reader gives back the calls of the writer, one for one
\* and with their values, and ends without an error after the last one.
THEOREM PipeRoundTrip == PipeSpec => []RoundTrip
<1>1. PipeInv => RoundTrip
  <2> SUFFICES ASSUME PipeInv, reading, source = text
               PROVE  /\ IsPrefix(tokens, calls)
                      /\ error_code = "None"
                      /\ ~result => tokens = calls
    BY DEF RoundTrip
  <2>1. /\ tokens \in Seq(Call) /\ calls \in Seq(Call)
        /\ Len(tokens) <= Len(calls) /\ \A i \in 1..Len(tokens) : tokens[i] = calls[i]
        /\ error_code = "None" /\ (~result => Len(tokens) = Len(calls))
    BY CallIsToken DEF PipeInv, ReadInv, TextInv, IInv, WriterInv
  <2>2. SubSeq(tokens, 1, Len(tokens)) = SubSeq(calls, 1, Len(tokens))
    BY <2>1
  <2>3. Len(tokens) = Len(calls) => tokens = calls
    BY <2>1
  <2> QED BY <2>1, <2>2, <2>3 DEF IsPrefix
<1>2. WriterInv /\ NamedInv /\ WrittenInv /\ [PipeNext]_pipeVars
        => WriterInv' /\ NamedInv' /\ WrittenInv'
  BY PipeWriterInv, PipeNamedInv, PipeTextInv
<1>3. PipeInv => WriterInv /\ NamedInv /\ WrittenInv
  BY DEF PipeInv
<1>4. PipeInv /\ [PipeNext]_pipeVars /\ WriterInv' /\ NamedInv' /\ WrittenInv'
        /\ (Fresh' => TextInv') => PipeInv'
  BY NextPipeInv
<1> QED BY <1>1, <1>2, <1>3, <1>4, InitPipeInv, InitTextInv, PTL DEF PipeSpec
=============================================================================
