----------------------------- MODULE TextLemmas -----------------------------
(***************************************************************************)
(* Facts about sequences that the proofs about the streams and about JSON  *)
(* share: cutting, joining, and FlattenSeq of the community modules.       *)
(***************************************************************************)
EXTENDS Integers, Sequences, SequencesExt, FiniteSets, SequenceTheorems,
        FiniteSetTheorems, NaturalsInduction, WellFoundedInduction, TLAPS

\* Induction over the natural numbers, for a set instead of a predicate.
LEMMA Induct ==
  ASSUME NEW S, 0 \in S, \A n \in Nat : n \in S => n + 1 \in S
  PROVE  \A n \in Nat : n \in S
<1> DEFINE T == Nat \ S
           R == OpToRel(<, Nat)
<1> SUFFICES ASSUME T # {} PROVE FALSE
  OBVIOUS
<1>1. PICK x \in T : \A y \in T : ~ (<<y, x>> \in R)
  <2>1. IsWellFoundedOn(R, Nat)
    BY NatLessThanWellFounded
  <2>2. T \subseteq Nat
    OBVIOUS
  <2> HIDE DEF T, R
  <2> QED BY <2>1, <2>2, WFMin
<1>2. x # 0 /\ x - 1 \in Nat
  OBVIOUS
<1>3. <<x - 1, x>> \in R
  BY <1>2 DEF OpToRel
<1>4. x - 1 \in S
  BY <1>1, <1>2, <1>3
<1>5. x - 1 + 1 = x
  OBVIOUS
<1>6. x \in S
  BY <1>2, <1>4, <1>5
<1> QED BY <1>6

\* A set of numbers has a least one.
LEMMA Least ==
  ASSUME NEW S, S \subseteq Nat, S # {}
  PROVE  \E x \in S : \A y \in S : x <= y
<1> DEFINE R == OpToRel(<, Nat)
<1>1. IsWellFoundedOn(R, Nat)
  BY NatLessThanWellFounded
<1> HIDE DEF R
<1>2. PICK x \in S : \A y \in S : ~ (<<y, x>> \in R)
  BY <1>1, WFMin
<1>3. ASSUME NEW y \in S PROVE x <= y
  <2>1. y < x => <<y, x>> \in R
    BY DEF OpToRel, R
  <2> QED BY <1>2, <2>1
<1> QED BY <1>3

\* Concatenation associates.
LEMMA Concat ==
  ASSUME NEW S, NEW a \in Seq(S), NEW b \in Seq(S), NEW c \in Seq(S)
  PROVE  /\ (a \o b) \o c = a \o (b \o c)
         /\ a \o b \in Seq(S)
         /\ Len(a \o b) = Len(a) + Len(b)
OBVIOUS

\* The same, of an operator that the provers need not look into.
Cat(a, b) == a \o b

LEMMA CatConcat ==
  ASSUME NEW S
  PROVE  \A a, b, c \in Seq(S) : /\ Cat(Cat(a, b), c) = Cat(a, Cat(b, c))
                                  /\ Cat(a, b) \in Seq(S)
BY Concat DEF Cat

LEMMA CatFive ==
  ASSUME NEW S, NEW a \in Seq(S), NEW b \in Seq(S), NEW c \in Seq(S),
         NEW d \in Seq(S), NEW e \in Seq(S)
  PROVE  Cat(a, Cat(b, Cat(c, Cat(d, e)))) = Cat(Cat(Cat(a, Cat(b, c)), d), e)
<1>1. \A p, q, r \in Seq(S) : /\ Cat(Cat(p, q), r) = Cat(p, Cat(q, r))
                               /\ Cat(p, q) \in Seq(S)
  BY CatConcat
<1> QED BY <1>1

LEMMA CatFour ==
  ASSUME NEW S, NEW a \in Seq(S), NEW b \in Seq(S), NEW c \in Seq(S), NEW d \in Seq(S)
  PROVE  Cat(a, Cat(b, Cat(c, d))) = Cat(Cat(a, Cat(b, c)), d)
<1>1. \A p, q, r \in Seq(S) : /\ Cat(Cat(p, q), r) = Cat(p, Cat(q, r))
                               /\ Cat(p, q) \in Seq(S)
  BY CatConcat
<1> QED BY <1>1

LEMMA ConcatAt ==
  ASSUME NEW S, NEW a \in Seq(S), NEW b \in Seq(S)
  PROVE  /\ Len(a) \in Nat /\ Len(b) \in Nat
         /\ \A i \in 1..Len(a) : (a \o b)[i] = a[i]
         /\ \A i \in (Len(a) + 1)..(Len(a) + Len(b)) : (a \o b)[i] = b[i - Len(a)]
OBVIOUS

\* One element more at the end.
LEMMA Appended ==
  ASSUME NEW S, NEW s \in Seq(S), NEW x \in S
  PROVE  /\ Len(s) \in Nat
         /\ Append(s, x) \in Seq(S)
         /\ Append(s, x) = s \o <<x>>
         /\ <<x>> \in Seq(S)
         /\ Len(Append(s, x)) = Len(s) + 1
         /\ Append(s, x) # <<>>
         /\ \A i \in 1..Len(s) : Append(s, x)[i] = s[i]
         /\ Append(s, x)[Len(s) + 1] = x
OBVIOUS

\* The empty sequence changes nothing.
LEMMA ConcatEmpty ==
  ASSUME NEW S, NEW a \in Seq(S)
  PROVE  <<>> \in Seq(S) /\ a \o <<>> = a /\ <<>> \o a = a
OBVIOUS

LEMMA TwoElements ==
  ASSUME NEW S, NEW a \in S, NEW b \in S
  PROVE  <<a, b>> = <<a>> \o <<b>>
<1>1. <<a, b>> \in Seq(S) /\ Len(<<a, b>>) = 2 /\ <<a, b>>[1] = a /\ <<a, b>>[2] = b
  OBVIOUS
<1>2. <<a>> \in Seq(S) /\ <<b>> \in Seq(S) /\ Len(<<a>>) = 1 /\ Len(<<b>>) = 1
      /\ <<a>>[1] = a /\ <<b>>[1] = b
  OBVIOUS
<1> DEFINE l == <<a, b>>
           p == <<a>>
           q == <<b>>
<1> HIDE DEF l, p, q
<1>3. p \o q \in Seq(S) /\ Len(p \o q) = 2 /\ (p \o q)[1] = a /\ (p \o q)[2] = b
  BY <1>2 DEF p, q
<1>4. ASSUME NEW i \in 1..Len(l) PROVE l[i] = (p \o q)[i]
  BY <1>1, <1>3 DEF l
<1>5. l = p \o q
  BY <1>1, <1>3, <1>4, SeqEqual DEF l
<1> QED BY <1>5 DEF l, p, q

\* A sequence that is cut in two is its two parts.
LEMMA Cut ==
  ASSUME NEW S, NEW s \in Seq(S), NEW n \in 0..Len(s)
  PROVE  /\ SubSeq(s, 1, n) \in Seq(S)
         /\ Len(SubSeq(s, 1, n)) = n
         /\ SubSeq(s, n + 1, Len(s)) \in Seq(S)
         /\ SubSeq(s, 1, n) \o SubSeq(s, n + 1, Len(s)) = s
<1> DEFINE p == SubSeq(s, 1, n)
           q == SubSeq(s, n + 1, Len(s))
<1>1. /\ p \in Seq(S) /\ Len(p) = n
      /\ \A i \in 1..n : p[i] = s[i]
  OBVIOUS
<1>2. /\ q \in Seq(S) /\ Len(q) = Len(s) - n
      /\ \A i \in 1..(Len(s) - n) : q[i] = s[n + i]
  OBVIOUS
<1> HIDE DEF p, q
<1>3. p \o q \in Seq(S) /\ Len(p \o q) = Len(s)
  <2>1. p \in Seq(S) /\ q \in Seq(S)
    BY <1>1, <1>2
  <2>2. p \o q \in Seq(S) /\ Len(p \o q) = Len(p) + Len(q)
    BY <2>1
  <2>3. Len(s) \in Nat /\ n \in Nat
    OBVIOUS
  <2> QED BY <1>1, <1>2, <2>2, <2>3
<1>4. ASSUME NEW i \in 1..Len(s) PROVE (p \o q)[i] = s[i]
  <2>1. CASE i <= n
    BY <1>1, <1>2, <2>1
  <2>2. CASE i > n
    <3>1. i - n \in 1..(Len(s) - n) /\ n + (i - n) = i
      BY <2>2
    <3>2. (p \o q)[i] = q[i - n]
      BY <1>1, <1>2, <2>2
    <3> QED BY <1>2, <3>1, <3>2
  <2>3. i <= n \/ i > n
    OBVIOUS
  <2> QED BY <2>1, <2>2, <2>3
<1>5. p \o q = s
  BY <1>3, <1>4, SeqEqual
<1> QED BY <1>1, <1>2, <1>5 DEF p, q

(***************************************************************************)
(* FlattenSeq.                                                             *)
(***************************************************************************)
\* f is the function that FlattenSeq(seqs) defines.
Flattens(seqs, f) ==
  f = [i \in 1..Len(seqs) |-> IF i = 1 THEN seqs[i] ELSE f[i - 1] \o seqs[i]]

LEMMA FlattenDef ==
  ASSUME NEW seqs, Len(seqs) # 0
  PROVE  FlattenSeq(seqs) = (CHOOSE f : Flattens(seqs, f))[Len(seqs)]
BY DEF FlattenSeq, Flattens

\* What f has at a place.
LEMMA FlattensAt ==
  ASSUME NEW seqs, Len(seqs) \in Nat, NEW f, Flattens(seqs, f), NEW i \in 1..Len(seqs)
  PROVE  f[i] = IF i = 1 THEN seqs[i] ELSE f[i - 1] \o seqs[i]
BY DEF Flattens

\* There is such a function, built one place at a time, ...
Builds(seqs, n, f) ==
  \A i \in 1..n : f[i] = IF i = 1 THEN seqs[i] ELSE f[i - 1] \o seqs[i]

LEMMA BuildsOneMore ==
  ASSUME NEW S, NEW seqs, NEW n \in Nat, n >= 1,
         NEW f \in [1..n -> Seq(S)], Builds(seqs, n, f),
         seqs[n + 1] \in Seq(S)
  PROVE  \E g \in [1..(n + 1) -> Seq(S)] : Builds(seqs, n + 1, g)
<1> DEFINE x == f[n] \o seqs[n + 1]
           g == [i \in 1..(n + 1) |-> IF i = n + 1 THEN x ELSE f[i]]
<1>1. f[n] \in Seq(S)
  OBVIOUS
<1>2. x \in Seq(S)
  BY <1>1
<1> HIDE DEF x
<1>3. g \in [1..(n + 1) -> Seq(S)] /\ g[n + 1] = x
      /\ \A i \in 1..n : g[i] = f[i]
  BY <1>2
<1> HIDE DEF g
<1>4. ASSUME NEW i \in 1..(n + 1)
      PROVE  g[i] = IF i = 1 THEN seqs[i] ELSE g[i - 1] \o seqs[i]
  <2>1. CASE i = n + 1
    <3>1. i # 1 /\ i - 1 = n /\ n \in 1..n
      BY <2>1
    <3> QED BY <1>3, <2>1, <3>1 DEF x
  <2>2. CASE i \in 1..n
    <3>1. i # 1 => i - 1 \in 1..n
      BY <2>2
    <3>2. f[i] = IF i = 1 THEN seqs[i] ELSE f[i - 1] \o seqs[i]
      BY <2>2 DEF Builds
    <3> QED BY <1>3, <2>2, <3>1, <3>2
  <2> QED BY <2>1, <2>2
<1> QED BY <1>3, <1>4 DEF Builds

LEMMA FlattensExists ==
  ASSUME NEW S, NEW seqs \in Seq(Seq(S)), seqs # <<>>
  PROVE  \E f \in [1..Len(seqs) -> Seq(S)] : Flattens(seqs, f)
<1> DEFINE B(n) == \E f \in [1..n -> Seq(S)] : Builds(seqs, n, f)
           N == {n \in Nat : n < Len(seqs) => B(n + 1)}
<1>0. Len(seqs) \in Nat /\ Len(seqs) >= 1 /\ \A i \in 1..Len(seqs) : seqs[i] \in Seq(S)
  OBVIOUS
<1>1. 0 \in N
  <2> DEFINE f == [i \in 1..1 |-> seqs[1]]
  <2>1. f \in [1..1 -> Seq(S)] /\ \A i \in 1..1 : f[i] = seqs[1] /\ i = 1
    BY <1>0
  <2> HIDE DEF f
  <2>2. Builds(seqs, 1, f)
    BY <2>1 DEF Builds
  <2>3. B(0 + 1)
    BY <2>1, <2>2
  <2> QED BY <2>3
<1>2. ASSUME NEW n \in Nat, n \in N PROVE n + 1 \in N
  <2>1. ASSUME n + 1 < Len(seqs) PROVE B((n + 1) + 1)
    <3>1. n < Len(seqs) /\ n + 1 \in Nat /\ n + 1 >= 1
          /\ (n + 1) + 1 \in 1..Len(seqs)
      BY <1>0, <2>1
    <3>2. B(n + 1)
      BY <1>2, <3>1
    <3>3. PICK f \in [1..(n + 1) -> Seq(S)] : Builds(seqs, n + 1, f)
      BY <3>2
    <3>4. seqs[(n + 1) + 1] \in Seq(S)
      BY <1>0, <3>1
    <3> QED BY <3>1, <3>3, <3>4, BuildsOneMore
  <2> HIDE DEF B
  <2> QED BY <2>1
<1> HIDE DEF N
<1>3. \A n \in Nat : n \in N
  BY <1>1, <1>2, Induct
<1>4. Len(seqs) - 1 \in N /\ (Len(seqs) - 1) + 1 = Len(seqs)
      /\ Len(seqs) - 1 < Len(seqs)
  BY <1>0, <1>3
<1>5. B(Len(seqs))
  <2> HIDE DEF B
  <2> QED BY <1>4 DEF N
<1>6. PICK f \in [1..Len(seqs) -> Seq(S)] : Builds(seqs, Len(seqs), f)
  BY <1>5
<1> QED BY <1>6 DEF Flattens, Builds

\* ... and only one, of which a longer sequence of sequences keeps a part.
Begins(seqs, more) ==
  /\ Len(seqs) \in Nat /\ Len(more) \in Nat /\ Len(seqs) =< Len(more)
  /\ \A i \in 1..Len(seqs) : more[i] = seqs[i]

Agree(f, g, n) == \A i \in 1..n : g[i] = f[i]

LEMMA FlattensUnique ==
  ASSUME NEW seqs, NEW more, Begins(seqs, more),
         NEW f, Flattens(seqs, f), NEW g, Flattens(more, g)
  PROVE  Agree(f, g, Len(seqs))
<1> DEFINE N == {n \in Nat : n \in 1..Len(seqs) => g[n] = f[n]}
<1>0. Len(seqs) \in Nat /\ Len(more) \in Nat /\ Len(seqs) =< Len(more)
      /\ \A i \in 1..Len(seqs) : more[i] = seqs[i]
  BY DEF Begins
<1>1. 0 \in N
  OBVIOUS
<1>2. ASSUME NEW n \in Nat, n \in N PROVE n + 1 \in N
  <2> SUFFICES ASSUME n + 1 \in 1..Len(seqs) PROVE g[n + 1] = f[n + 1]
    OBVIOUS
  <2>1. n + 1 \in 1..Len(more) /\ more[n + 1] = seqs[n + 1]
    BY <1>0
  <2>2. f[n + 1] = IF n + 1 = 1 THEN seqs[n + 1] ELSE f[(n + 1) - 1] \o seqs[n + 1]
    BY <1>0, FlattensAt
  <2>3. g[n + 1] = IF n + 1 = 1 THEN more[n + 1] ELSE g[(n + 1) - 1] \o more[n + 1]
    BY <1>0, <2>1, FlattensAt
  <2>4. (n + 1) - 1 = n /\ (n + 1 # 1 => n \in 1..Len(seqs))
    BY <1>0
  <2> QED BY <1>2, <2>1, <2>2, <2>3, <2>4
<1> HIDE DEF N
<1>3. \A n \in Nat : n \in N
  BY <1>1, <1>2, Induct
<1> QED BY <1>0, <1>3 DEF N, Agree

LEMMA FlattenChosen ==
  ASSUME NEW S, NEW seqs \in Seq(Seq(S)), seqs # <<>>
  PROVE  \E f \in [1..Len(seqs) -> Seq(S)] :
           Flattens(seqs, f) /\ FlattenSeq(seqs) = f[Len(seqs)]
<1>1. PICK f \in [1..Len(seqs) -> Seq(S)] : Flattens(seqs, f)
  BY FlattensExists
<1> DEFINE g == CHOOSE h : Flattens(seqs, h)
<1>2. Flattens(seqs, g)
  BY <1>1
<1>3. Len(seqs) # 0 /\ Len(seqs) \in Nat
  OBVIOUS
<1>4. FlattenSeq(seqs) = g[Len(seqs)]
  BY <1>3, FlattenDef
<1> HIDE DEF g
<1>5. Begins(seqs, seqs)
  BY <1>3 DEF Begins
<1>6. g[Len(seqs)] = f[Len(seqs)]
  BY <1>1, <1>2, <1>3, <1>5, FlattensUnique DEF Agree
<1> QED BY <1>1, <1>4, <1>6

LEMMA FlattenEmpty == FlattenSeq(<<>>) = <<>>
BY DEF FlattenSeq

\* One more sequence at the end.
LEMMA FlattenAppend ==
  ASSUME NEW S, NEW seqs \in Seq(Seq(S)), NEW s \in Seq(S)
  PROVE  /\ FlattenSeq(Append(seqs, s)) = FlattenSeq(seqs) \o s
         /\ FlattenSeq(seqs) \in Seq(S)
<1> DEFINE more == Append(seqs, s)
           n == Len(seqs)
<1>0. /\ n \in Nat /\ more \in Seq(Seq(S)) /\ Len(more) = n + 1 /\ more # <<>>
      /\ \A i \in 1..n : more[i] = seqs[i]
      /\ more[n + 1] = s
  BY Appended
<1> HIDE DEF more
<1>1. PICK g \in [1..Len(more) -> Seq(S)] :
        Flattens(more, g) /\ FlattenSeq(more) = g[Len(more)]
  BY <1>0, FlattenChosen
<1>5. Len(more) \in Nat /\ n + 1 \in 1..Len(more) /\ Len(seqs) =< Len(more)
  BY <1>0
<1>2. g[n + 1] = IF n + 1 = 1 THEN more[n + 1] ELSE g[(n + 1) - 1] \o more[n + 1]
  BY <1>1, <1>5, FlattensAt
<1>3. CASE seqs = <<>>
  <2>1. FlattenSeq(seqs) = <<>> /\ n = 0
    BY <1>3, FlattenEmpty
  <2>2. FlattenSeq(more) = s
    BY <1>0, <1>1, <1>2, <2>1
  <2> QED BY <2>1, <2>2, ConcatEmpty DEF more
<1>4. CASE seqs # <<>>
  <2>1. PICK f \in [1..n -> Seq(S)] : Flattens(seqs, f) /\ FlattenSeq(seqs) = f[n]
    BY <1>4, FlattenChosen
  <2>2. n >= 1 /\ (n + 1) - 1 = n
    BY <1>0, <1>4
  <2>3. \A i \in 1..n : g[i] = f[i]
    <3>1. Begins(seqs, more)
      BY <1>0, <1>5 DEF Begins
    <3>2. Flattens(seqs, f) /\ Flattens(more, g)
      BY <1>1, <2>1
    <3>3. Agree(f, g, Len(seqs))
      BY <3>1, <3>2, FlattensUnique, Zenon
    <3> QED BY <3>3 DEF Agree
  <2>4. FlattenSeq(more) = f[n] \o s /\ f[n] \in Seq(S)
    <3>1. n \in 1..n /\ n + 1 # 1
      BY <1>0, <2>2
    <3>2. f[n] \in Seq(S) /\ g[n] = f[n]
      BY <2>1, <2>3, <3>1
    <3> QED BY <1>0, <1>1, <1>2, <2>2, <3>1, <3>2
  <2> QED BY <2>1, <2>4 DEF more
<1> QED BY <1>3, <1>4

LEMMA FlattenType ==
  ASSUME NEW S, NEW seqs \in Seq(Seq(S))
  PROVE  FlattenSeq(seqs) \in Seq(S)
<1>1. <<>> \in Seq(S)
  OBVIOUS
<1> QED BY <1>1, FlattenAppend

LEMMA FlattenOne ==
  ASSUME NEW S, NEW s \in Seq(S)
  PROVE  FlattenSeq(<<s>>) = s
<1>1. <<>> \in Seq(Seq(S)) /\ Append(<<>>, s) = <<s>>
  OBVIOUS
<1>2. FlattenSeq(Append(<<>>, s)) = FlattenSeq(<<>>) \o s
  BY <1>1, FlattenAppend
<1> QED BY <1>1, <1>2, FlattenEmpty, ConcatEmpty

\* Two sequences of sequences, one behind the other.
LEMMA FlattenConcat ==
  ASSUME NEW S, NEW a \in Seq(Seq(S)), NEW b \in Seq(Seq(S))
  PROVE  FlattenSeq(a \o b) = FlattenSeq(a) \o FlattenSeq(b)
<1> DEFINE P(c) == FlattenSeq(a \o c) = FlattenSeq(a) \o FlattenSeq(c)
           N == {n \in Nat : \A c \in Seq(Seq(S)) : Len(c) = n => P(c)}
<1>0. FlattenSeq(a) \in Seq(S)
  BY FlattenType
<1>1. 0 \in N
  <2> SUFFICES ASSUME NEW c \in Seq(Seq(S)), Len(c) = 0 PROVE P(c)
    OBVIOUS
  <2>1. c = <<>> /\ a \o c = a
    OBVIOUS
  <2>2. FlattenSeq(c) = <<>>
    BY <2>1, FlattenEmpty
  <2> QED BY <1>0, <2>1, <2>2, ConcatEmpty
<1>2. ASSUME NEW n \in Nat, n \in N PROVE n + 1 \in N
  <2> SUFFICES ASSUME NEW c \in Seq(Seq(S)), Len(c) = n + 1 PROVE P(c)
    OBVIOUS
  <2> DEFINE d == SubSeq(c, 1, n)
             x == c[n + 1]
  <2>1. /\ d \in Seq(Seq(S)) /\ Len(d) = n /\ x \in Seq(S) /\ c = Append(d, x)
        /\ a \o c = Append(a \o d, x) /\ a \o d \in Seq(Seq(S))
    <3>1. d \in Seq(Seq(S)) /\ Len(d) = n /\ x \in Seq(S) /\ c = Append(d, x)
      OBVIOUS
    <3> HIDE DEF d, x
    <3>2. a \o Append(d, x) = Append(a \o d, x) /\ a \o d \in Seq(Seq(S))
      BY <3>1
    <3> QED BY <3>1, <3>2
  <2> HIDE DEF d, x
  <2>2. P(d)
    BY <1>2, <2>1
  <2>3. FlattenSeq(a \o c) = FlattenSeq(a \o d) \o x
    BY <2>1, FlattenAppend
  <2>4. FlattenSeq(c) = FlattenSeq(d) \o x /\ FlattenSeq(d) \in Seq(S)
    BY <2>1, FlattenAppend
  <2>5. (FlattenSeq(a) \o FlattenSeq(d)) \o x = FlattenSeq(a) \o (FlattenSeq(d) \o x)
    <3> DEFINE p == FlattenSeq(a)
               q == FlattenSeq(d)
    <3>1. p \in Seq(S) /\ q \in Seq(S) /\ x \in Seq(S)
      BY <1>0, <2>1, <2>4
    <3> HIDE DEF p, q
    <3>2. Cat(Cat(p, q), x) = Cat(p, Cat(q, x))
      BY <3>1, CatConcat
    <3> QED BY <3>2 DEF p, q, Cat
  <2> QED BY <2>2, <2>3, <2>4, <2>5
<1> HIDE DEF N
<1>3. \A n \in Nat : n \in N
  BY <1>1, <1>2, Induct
<1>4. Len(b) \in Nat
  OBVIOUS
<1> QED BY <1>3, <1>4 DEF N

(***************************************************************************)
(* A sequence without the places at which it has an element of x.          *)
(***************************************************************************)
Piece(y, x) == IF y \in x THEN <<>> ELSE <<y>>
Pieces(s, x) == [i \in DOMAIN s |-> Piece(s[i], x)]
Without(s, x) == FlattenSeq(Pieces(s, x))

LEMMA PiecesType ==
  ASSUME NEW S, NEW s \in Seq(S), NEW x
  PROVE  /\ Pieces(s, x) \in Seq(Seq(S))
         /\ Len(Pieces(s, x)) = Len(s)
         /\ \A i \in 1..Len(s) : Pieces(s, x)[i] = Piece(s[i], x)
<1>1. Len(s) \in Nat /\ DOMAIN s = 1..Len(s) /\ \A i \in 1..Len(s) : s[i] \in S
  OBVIOUS
<1>2. \A i \in 1..Len(s) : Piece(s[i], x) \in Seq(S)
  <2>1. \A y \in S : <<y>> \in Seq(S)
    OBVIOUS
  <2>2. <<>> \in Seq(S)
    OBVIOUS
  <2> QED BY <1>1, <2>1, <2>2 DEF Piece
<1>3. Pieces(s, x) = [i \in 1..Len(s) |-> Piece(s[i], x)]
  BY <1>1 DEF Pieces
<1>4. /\ [i \in 1..Len(s) |-> Piece(s[i], x)] \in Seq(Seq(S))
      /\ Len([i \in 1..Len(s) |-> Piece(s[i], x)]) = Len(s)
  BY <1>1, <1>2
<1> QED BY <1>3, <1>4

LEMMA WithoutType ==
  ASSUME NEW S, NEW s \in Seq(S), NEW x
  PROVE  Without(s, x) \in Seq(S)
BY PiecesType, FlattenType DEF Without

LEMMA WithoutEmpty ==
  ASSUME NEW x
  PROVE  Without(<<>>, x) = <<>>
<1>1. Pieces(<<>>, x) = <<>>
  BY DEF Pieces
<1> QED BY <1>1, FlattenEmpty DEF Without

LEMMA WithoutOne ==
  ASSUME NEW S, NEW y \in S, NEW x
  PROVE  Without(<<y>>, x) = Piece(y, x)
<1> DEFINE z == Piece(y, x)
<1>1. z \in Seq(S)
  BY DEF Piece
<1>2. Pieces(<<y>>, x) = <<z>>
  <2>1. <<y>> \in Seq(S) /\ Len(<<y>>) = 1 /\ <<y>>[1] = y
    OBVIOUS
  <2> DEFINE s == <<y>>
  <2>2. Pieces(s, x) \in Seq(Seq(S)) /\ Len(Pieces(s, x)) = 1
        /\ Pieces(s, x)[1] = z
    <3> HIDE DEF s
    <3>1. s \in Seq(S) /\ Len(s) = 1 /\ s[1] = y
      BY <2>1 DEF s
    <3> QED BY <3>1, PiecesType
  <2> HIDE DEF z
  <2> QED BY <1>1, <2>2
<1> HIDE DEF z
<1>3. FlattenSeq(<<z>>) = z
  BY <1>1, FlattenOne
<1> QED BY <1>2, <1>3 DEF Without, z

LEMMA WithoutConcat ==
  ASSUME NEW S, NEW a \in Seq(S), NEW b \in Seq(S), NEW x
  PROVE  Without(a \o b, x) = Without(a, x) \o Without(b, x)
<1>1. /\ Pieces(a, x) \in Seq(Seq(S)) /\ Len(Pieces(a, x)) = Len(a)
      /\ Pieces(b, x) \in Seq(Seq(S)) /\ Len(Pieces(b, x)) = Len(b)
      /\ a \o b \in Seq(S)
  BY PiecesType, Concat
<1>2. Pieces(a \o b, x) = Pieces(a, x) \o Pieces(b, x)
  <2> DEFINE l == Pieces(a \o b, x)
             r == Pieces(a, x) \o Pieces(b, x)
  <2>0. /\ Len(a) \in Nat /\ Len(b) \in Nat /\ Len(a \o b) = Len(a) + Len(b)
        /\ \A i \in 1..Len(a) : (a \o b)[i] = a[i]
        /\ \A i \in (Len(a) + 1)..(Len(a) + Len(b)) : (a \o b)[i] = b[i - Len(a)]
    BY Concat, ConcatAt
  <2>1. /\ l \in Seq(Seq(S)) /\ Len(l) = Len(a) + Len(b)
        /\ \A i \in 1..(Len(a) + Len(b)) : l[i] = Piece((a \o b)[i], x)
    <3> DEFINE ab == a \o b
    <3>1. ab \in Seq(S)
      BY <1>1
    <3>3. Len(ab) = Len(a) + Len(b)
      BY <2>0
    <3> HIDE DEF ab
    <3>2. /\ Pieces(ab, x) \in Seq(Seq(S)) /\ Len(Pieces(ab, x)) = Len(ab)
          /\ \A i \in 1..Len(ab) : Pieces(ab, x)[i] = Piece(ab[i], x)
      BY <3>1, PiecesType
    <3> QED BY <3>2, <3>3 DEF ab
  <2>2. /\ r \in Seq(Seq(S)) /\ Len(r) = Len(a) + Len(b)
        /\ \A i \in 1..Len(a) : r[i] = Pieces(a, x)[i]
        /\ \A i \in (Len(a) + 1)..(Len(a) + Len(b)) : r[i] = Pieces(b, x)[i - Len(a)]
    <3> DEFINE p == Pieces(a, x)
               q == Pieces(b, x)
    <3>1. p \in Seq(Seq(S)) /\ q \in Seq(Seq(S)) /\ Len(p) = Len(a) /\ Len(q) = Len(b)
      BY <1>1
    <3> HIDE DEF p, q
    <3>2. /\ p \o q \in Seq(Seq(S)) /\ Len(p \o q) = Len(p) + Len(q)
          /\ \A i \in 1..Len(p) : (p \o q)[i] = p[i]
          /\ \A i \in (Len(p) + 1)..(Len(p) + Len(q)) : (p \o q)[i] = q[i - Len(p)]
      BY <3>1, Concat, ConcatAt
    <3> QED BY <3>1, <3>2 DEF p, q
  <2>3. /\ \A i \in 1..Len(a) : Pieces(a, x)[i] = Piece(a[i], x)
        /\ \A i \in 1..Len(b) : Pieces(b, x)[i] = Piece(b[i], x)
    BY PiecesType
  <2> HIDE DEF l, r
  <2>4. ASSUME NEW i \in 1..(Len(a) + Len(b)) PROVE l[i] = r[i]
    <3>1. CASE i \in 1..Len(a)
      BY <2>0, <2>1, <2>2, <2>3, <3>1
    <3>2. CASE i \notin 1..Len(a)
      <4>1. i \in (Len(a) + 1)..(Len(a) + Len(b)) /\ i - Len(a) \in 1..Len(b)
        BY <2>0, <3>2
      <4> QED BY <2>0, <2>1, <2>2, <2>3, <4>1
    <3> QED BY <3>1, <3>2
  <2>5. l = r
    BY <2>1, <2>2, <2>4, SeqEqual
  <2> QED BY <2>5 DEF l, r
<1> QED BY <1>1, <1>2, FlattenConcat DEF Without

\* Nothing is taken out of a sequence that has no element of x.
LEMMA WithoutNone ==
  ASSUME NEW S, NEW x, S \cap x = {}
  PROVE  \A s \in Seq(S) : Without(s, x) = s
<1> DEFINE N == {n \in Nat : \A s \in Seq(S) : Len(s) = n => Without(s, x) = s}
<1>1. 0 \in N
  <2> SUFFICES ASSUME NEW s \in Seq(S), Len(s) = 0 PROVE Without(s, x) = s
    OBVIOUS
  <2>1. s = <<>>
    OBVIOUS
  <2> QED BY <2>1, WithoutEmpty
<1>2. ASSUME NEW n \in Nat, n \in N PROVE n + 1 \in N
  <2> SUFFICES ASSUME NEW s \in Seq(S), Len(s) = n + 1 PROVE Without(s, x) = s
    OBVIOUS
  <2> DEFINE d == SubSeq(s, 1, n)
             y == s[n + 1]
  <2>1. d \in Seq(S) /\ Len(d) = n /\ y \in S /\ s = d \o <<y>> /\ <<y>> \in Seq(S)
    <3>1. d \in Seq(S) /\ Len(d) = n /\ y \in S /\ s = Append(d, y)
      OBVIOUS
    <3> HIDE DEF d, y
    <3> QED BY <3>1, Appended
  <2> HIDE DEF d, y
  <2>2. Without(d, x) = d
    BY <1>2, <2>1
  <2>3. Without(<<y>>, x) = <<y>>
    BY <2>1, WithoutOne DEF Piece
  <2>4. Without(d \o <<y>>, x) = Without(d, x) \o Without(<<y>>, x)
    <3> DEFINE z == <<y>>
    <3>1. z \in Seq(S)
      BY <2>1
    <3> HIDE DEF z
    <3>2. Without(d \o z, x) = Without(d, x) \o Without(z, x)
      BY <2>1, <3>1, WithoutConcat
    <3> QED BY <3>2 DEF z
  <2> QED BY <2>1, <2>2, <2>3, <2>4
<1> HIDE DEF N
<1>3. \A n \in Nat : n \in N
  BY <1>1, <1>2, Induct
<1> QED BY <1>3 DEF N

(***************************************************************************)
(* Recursive functions.                                                    *)
(***************************************************************************)
LEMMA Below ==
  ASSUME NEW a \in Nat, NEW k \in Nat, a < k + 1, a # k
  PROVE  a < k
OBVIOUS

\* G gives the value of a function from D to V at i from its values at
\* lower ranks.
RecursionOn(D, V, rank, top, G) ==
  /\ V # {}
  /\ rank \in [D -> Nat] /\ top \in Nat /\ \A i \in D : rank[i] < top
  /\ \A i \in D : \A f \in [D -> V] : G[i][f] \in V
  /\ \A i \in D : \A f, g \in [D -> V] :
       (\A j \in D : rank[j] < rank[i] => f[j] = g[j]) => G[i][f] = G[i][g]

LEMMA Recursion ==
  ASSUME NEW D, NEW V, NEW rank, NEW top, NEW G, RecursionOn(D, V, rank, top, G)
  PROVE  \E f \in [D -> V] : \A i \in D : f[i] = G[i][f]
<1>0. /\ V # {}
      /\ rank \in [D -> Nat] /\ top \in Nat /\ \A i \in D : rank[i] < top
      /\ \A i \in D : \A f \in [D -> V] : G[i][f] \in V
      /\ \A i \in D : \A f, g \in [D -> V] :
           (\A j \in D : rank[j] < rank[i] => f[j] = g[j]) => G[i][f] = G[i][g]
  BY DEF RecursionOn
<1> DEFINE Good(f, k) == \A i \in D : rank[i] < k => f[i] = G[i][f]
           N == {k \in Nat : \E f \in [D -> V] : Good(f, k)}
<1>1. 0 \in N
  <2>1. PICK v \in V : TRUE
    BY <1>0
  <2>2. [i \in D |-> v] \in [D -> V]
    BY <2>1
  <2>3. Good([i \in D |-> v], 0)
    BY <1>0
  <2> QED BY <2>2, <2>3
<1>2. ASSUME NEW k \in Nat, k \in N PROVE k + 1 \in N
  <2>1. PICK f \in [D -> V] : Good(f, k)
    BY <1>2
  <2> DEFINE g == [i \in D |-> IF rank[i] = k THEN G[i][f] ELSE f[i]]
  <2>2. g \in [D -> V] /\ \A i \in D : g[i] = IF rank[i] = k THEN G[i][f] ELSE f[i]
    BY <1>0
  <2> HIDE DEF g
  <2>3. ASSUME NEW i \in D, rank[i] < k + 1 PROVE g[i] = G[i][g]
    <3>1. \A j \in D : rank[j] < rank[i] => f[j] = g[j]
      <4>1. ASSUME NEW j \in D, rank[j] < rank[i] PROVE f[j] = g[j]
        <5>1. rank[j] \in Nat /\ rank[i] \in Nat
          BY <1>0
        <5>2. rank[j] # k
          BY <2>3, <4>1, <5>1
        <5> QED BY <2>2, <5>2
      <4> QED BY <4>1
    <3>2. G[i][f] = G[i][g]
      BY <1>0, <2>2, <3>1
    <3>3. CASE rank[i] = k
      BY <2>2, <3>2, <3>3
    <3>4. CASE rank[i] # k
      <4>1. rank[i] \in Nat
        BY <1>0
      <4>2. rank[i] < k
        BY <2>3, <3>4, <4>1, Below
      <4> QED BY <2>1, <2>2, <3>2, <3>4, <4>2
    <3> QED BY <3>3, <3>4
  <2>4. Good(g, k + 1)
    BY <2>3
  <2> QED BY <2>2, <2>4
<1> HIDE DEF N
<1>3. \A k \in Nat : k \in N
  BY <1>1, <1>2, Induct
<1>4. top \in N
  BY <1>0, <1>3
<1> QED BY <1>0, <1>4 DEF N

\* What holds of all lower ranks holds.
LEMMA RankInduct ==
  ASSUME NEW D, NEW rank \in [D -> Nat], NEW S,
         \A i \in D : (\A j \in D : rank[j] < rank[i] => j \in S) => i \in S
  PROVE  D \subseteq S
<1> DEFINE N == {k \in Nat : \A i \in D : rank[i] < k => i \in S}
<1>1. 0 \in N
  OBVIOUS
<1>2. ASSUME NEW k \in Nat, k \in N PROVE k + 1 \in N
  <2>1. ASSUME NEW i \in D, rank[i] < k + 1 PROVE i \in S
    <3>1. \A j \in D : rank[j] < rank[i] => j \in S
      <4>1. ASSUME NEW j \in D, rank[j] < rank[i] PROVE j \in S
        <5>1. rank[j] \in Nat /\ rank[i] \in Nat
          OBVIOUS
        <5>2. rank[j] < k
          BY <2>1, <4>1, <5>1
        <5> QED BY <1>2, <5>2
      <4> QED BY <4>1
    <3> QED BY <3>1
  <2> QED BY <2>1
<1> HIDE DEF N
<1>3. \A k \in Nat : k \in N
  BY <1>1, <1>2, Induct
<1>4. ASSUME NEW i \in D PROVE i \in S
  <2>1. rank[i] \in Nat /\ rank[i] + 1 \in N /\ rank[i] < rank[i] + 1
    BY <1>3
  <2> QED BY <2>1 DEF N
<1> QED BY <1>4
=============================================================================
