---------------------------- MODULE LogFileProofs ----------------------------
(***************************************************************************)
(* Theorems about BufferedOutputStream, about BufferedInputStream and      *)
(* about the log that goes through both of them, for every size of each    *)
(* buffer, every mixture of calls and every number of bytes that read(2)   *)
(* returns.                                                                *)
(***************************************************************************)
EXTENDS LogFile, TextLemmas

\* Concatenation associates, as a formula for Zenon.
LEMMA Associative ==
  \A a, b, c \in Seq(Byte) : (a \o b) \o c = a \o (b \o c)
BY Concat

(***************************************************************************)
(* BufferedOutputStream.                                                   *)
(***************************************************************************)
\* Between calls nothing is left in the source of the copying loop.
WriterInv ==
  /\ TypeOK
  /\ NothingLost
  /\ FlushReaches
  /\ pc = "idle" => src = <<>>

LEMMA WritesType ==
  ASSUME NEW s \in Writes
  PROVE  s \in Seq(Byte)
BY SizeAssumption DEF Writes

\* Whatever Store does with the bytes it is given, none is lost and there is
\* room in the buffer behind it.
LEMMA StoreKeeps ==
  ASSUME sink \in Seq(Byte), NEW b \in Seq(Byte), Len(b) <= BufferSize, Store(b)
  PROVE  /\ sink' \in Seq(Byte)
         /\ buffer' \in Seq(Byte) /\ Len(buffer') < BufferSize
         /\ sink' \o buffer' = sink \o b
         /\ Len(sink') >= Len(sink)
<1>1. CASE Len(b) = BufferSize
  <2>1. buffer' = <<>> /\ sink' = sink \o b
    BY <1>1 DEF Store
  <2>2. sink \o b \in Seq(Byte) /\ Len(sink \o b) = Len(sink) + Len(b)
    BY Concat
  <2>3. (sink \o b) \o <<>> = sink \o b /\ <<>> \in Seq(Byte)
    BY <2>2, ConcatEmpty
  <2>4. Len(<<>>) < BufferSize
    BY SizeAssumption
  <2> QED BY <2>1, <2>2, <2>3, <2>4
<1>2. CASE Len(b) # BufferSize
  BY <1>2, SizeAssumption DEF Store
<1> QED BY <1>1, <1>2

LEMMA InitWriterInv == Init => WriterInv
BY SizeAssumption, ConcatEmpty DEF Init, WriterInv, TypeOK, NothingLost, FlushReaches

LEMMA NextWriterInv == WriterInv /\ [Next]_vars => WriterInv'
<1> SUFFICES ASSUME WriterInv, [Next]_vars PROVE WriterInv'
  OBVIOUS
<1>0. /\ src \in Seq(Byte) /\ buffer \in Seq(Byte) /\ sink \in Seq(Byte)
      /\ written \in Seq(Byte)
      /\ Len(src) \in Nat /\ Len(buffer) \in Nat /\ Len(sink) \in Nat
      /\ Len(written) \in Nat /\ flushed \in Nat /\ BufferSize \in Nat
      /\ Len(buffer) < BufferSize
      /\ sink \o (buffer \o src) = written
      /\ Len(sink) >= flushed
      /\ pc = "idle" => src = <<>>
      /\ <<>> \in Seq(Byte)
  BY SizeAssumption DEF WriterInv, TypeOK, NothingLost, FlushReaches
<1>9. src \in Seq(Byte) /\ buffer \in Seq(Byte) /\ sink \in Seq(Byte)
      /\ written \in Seq(Byte)
  BY <1>0
<1>1. pc = "idle" => sink \o buffer = written
  BY <1>0, ConcatEmpty
<1>2. ASSUME NEW ch \in Byte, WriteChar(ch) PROVE WriterInv'
  <2> DEFINE b == Append(buffer, ch)
  <2>1. b \in Seq(Byte) /\ Len(b) <= BufferSize /\ Store(b) /\ <<ch>> \in Seq(Byte)
        /\ b = buffer \o <<ch>>
    BY <1>0, <1>2, Appended DEF WriteChar
  <2>2. /\ sink' \in Seq(Byte) /\ buffer' \in Seq(Byte) /\ Len(buffer') < BufferSize
        /\ sink' \o buffer' = sink \o b /\ Len(sink') >= Len(sink)
    BY <1>0, <2>1, StoreKeeps
  <2> HIDE DEF b
  <2>3. written' = written \o <<ch>> /\ written' \in Seq(Byte) /\ UNCHANGED <<pc, src, flushed>>
        /\ pc = "idle" /\ src = <<>>
    BY <1>0, <1>2, Appended DEF WriteChar
  <2>4. sink \o b = written \o <<ch>>
    <3>1. (sink \o buffer) \o <<ch>> = sink \o (buffer \o <<ch>>)
      BY <1>9, <2>1, Associative, Zenon
    <3> QED BY <1>1, <2>1, <2>3, <3>1
  <2>5. sink' \o (buffer' \o src') = written'
    BY <2>2, <2>3, <2>4, ConcatEmpty
  <2>6. Len(sink') >= flushed'
    BY <1>0, <2>2, <2>3
  <2> QED BY <1>0, <2>2, <2>3, <2>5, <2>6
          DEF WriterInv, TypeOK, NothingLost, FlushReaches
<1>3. ASSUME NEW s \in Seq(Byte), WriteLarge(s) PROVE WriterInv'
  <2>1. /\ pc = "idle" /\ src = <<>> /\ buffer' = <<>>
        /\ written' = written \o s /\ sink' = (sink \o buffer) \o s
        /\ UNCHANGED <<pc, src, flushed>>
    BY <1>0, <1>3 DEF WriteLarge
  <2>9. Len(written) = Len(sink) + Len(buffer)
    BY <1>0, <1>1, <2>1, Concat
  <2>10. written \o s \in Seq(Byte) /\ Len(written \o s) = Len(written) + Len(s)
        /\ Len(s) \in Nat
    BY <1>0, Concat
  <2>2. sink' = written' /\ written' \in Seq(Byte) /\ Len(written') >= Len(sink)
    BY <1>0, <1>1, <2>1, <2>9, <2>10
  <2>3. sink' \o (buffer' \o src') = written'
    BY <1>0, <2>1, <2>2, ConcatEmpty
  <2>4. Len(<<>>) < BufferSize
    BY <1>0
  <2> QED BY <1>0, <2>1, <2>2, <2>3, <2>4
          DEF WriterInv, TypeOK, NothingLost, FlushReaches
<1>4. ASSUME NEW s \in Seq(Byte), WriteSmall(s) PROVE WriterInv'
  <2>1. /\ pc = "idle" /\ written' = written \o s /\ src' = s /\ pc' = "copy"
        /\ UNCHANGED <<buffer, sink, flushed>>
    BY <1>4 DEF WriteSmall
  <2>9. (sink \o buffer) \o s = sink \o (buffer \o s)
    BY <1>9, <1>4, Associative, Zenon
  <2>10. written \o s \in Seq(Byte)
    BY <1>9, Concat
  <2>2. sink' \o (buffer' \o src') = written' /\ written' \in Seq(Byte)
    <3>1. sink' \o (buffer' \o src') = sink \o (buffer \o s)
      BY <2>1
    <3>2. sink \o (buffer \o s) = written \o s
      BY <1>1, <2>1, <2>9
    <3> QED BY <2>1, <2>10, <3>1, <3>2
  <2> QED BY <1>0, <2>1, <2>2 DEF WriterInv, TypeOK, NothingLost, FlushReaches
<1>5. CASE Copy
  <2> DEFINE room == BufferSize - Len(buffer)
             n == IF Len(src) < room THEN Len(src) ELSE room
             b == buffer \o SubSeq(src, 1, n)
             r == SubSeq(src, n + 1, Len(src))
  <2>1. pc = "copy" /\ Store(b) /\ src' = r /\ UNCHANGED <<pc, written, flushed>>
    BY <1>5 DEF Copy
  <2>2. n \in 0..Len(src) /\ Len(buffer) + n <= BufferSize
    BY <1>0
  <2> HIDE DEF n
  <2>3. /\ SubSeq(src, 1, n) \in Seq(Byte) /\ Len(SubSeq(src, 1, n)) = n
        /\ r \in Seq(Byte) /\ SubSeq(src, 1, n) \o r = src
    BY <1>0, <2>2, Cut
  <2> HIDE DEF r
  <2>9. b \o r = buffer \o (SubSeq(src, 1, n) \o r)
    BY <1>9, <2>3, Associative, Zenon
  <2>10. b \in Seq(Byte) /\ Len(b) = Len(buffer) + n
    BY <1>9, <2>3, Concat
  <2> HIDE DEF b
  <2>4. b \in Seq(Byte) /\ Len(b) <= BufferSize /\ b \o r = buffer \o src
    <3>1. b \o r = buffer \o src
      BY <2>3, <2>9
    <3> QED BY <1>0, <2>2, <2>10, <3>1
  <2>5. /\ sink' \in Seq(Byte) /\ buffer' \in Seq(Byte) /\ Len(buffer') < BufferSize
        /\ sink' \o buffer' = sink \o b /\ Len(sink') >= Len(sink)
    BY <1>0, <2>1, <2>4, StoreKeeps
  <2>6. sink' \o (buffer' \o src') = (sink \o b) \o r
    <3>0. sink' \in Seq(Byte) /\ buffer' \in Seq(Byte) /\ r \in Seq(Byte)
      BY <2>3, <2>5
    <3>1. (sink' \o buffer') \o r = sink' \o (buffer' \o r)
      BY <3>0, Associative, Zenon
    <3>2. (sink' \o buffer') \o r = (sink \o b) \o r
      BY <2>5
    <3> QED BY <2>1, <3>1, <3>2
  <2>7. (sink \o b) \o r = written
    <3>0. sink \in Seq(Byte) /\ b \in Seq(Byte) /\ r \in Seq(Byte)
      BY <1>9, <2>3, <2>4
    <3>1. (sink \o b) \o r = sink \o (b \o r)
      BY <3>0, Associative, Zenon
    <3> QED BY <1>0, <2>4, <3>1
  <2>8. Len(sink') >= flushed'
    BY <1>0, <2>1, <2>5
  <2> QED BY <1>0, <2>1, <2>3, <2>5, <2>6, <2>7, <2>8
          DEF WriterInv, TypeOK, NothingLost, FlushReaches
<1>6. CASE WriteDone
  BY <1>0, <1>6 DEF WriteDone, WriterInv, TypeOK, NothingLost, FlushReaches
<1>7. CASE Flush
  <2>1. /\ pc = "idle" /\ src = <<>> /\ buffer' = <<>> /\ sink' = written
        /\ flushed' = Len(written) /\ UNCHANGED <<pc, src, written>>
    BY <1>0, <1>1, <1>7 DEF Flush
  <2>2. sink' \o (buffer' \o src') = written'
    BY <1>0, <2>1, ConcatEmpty
  <2>3. Len(<<>>) < BufferSize
    BY <1>0
  <2> QED BY <1>0, <2>1, <2>2, <2>3 DEF WriterInv, TypeOK, NothingLost, FlushReaches
<1>8. CASE UNCHANGED vars
  BY <1>0, <1>8 DEF vars, WriterInv, TypeOK, NothingLost, FlushReaches
<1> QED BY <1>2, <1>3, <1>4, <1>5, <1>6, <1>7, <1>8, WritesType DEF Next

\* The byte that Write(char) stores before it looks always has room in
\* buffer_, whatever the sizes of the writes before it.
THEOREM WriterTypeCorrect == Spec => []TypeOK
BY InitWriterInv, NextWriterInv, PTL DEF Spec, WriterInv

\* For every buffer size and every sequence of writes, the delegatee has been
\* given what was written, in order, but for what is still in the buffer.
THEOREM WriterNothingLost == Spec => []NothingLost
BY InitWriterInv, NextWriterInv, PTL DEF Spec, WriterInv

\* What was written before a Flush stays with the delegatee.
THEOREM WriterFlushReaches == Spec => []FlushReaches
BY InitWriterInv, NextWriterInv, PTL DEF Spec, WriterInv

(***************************************************************************)
(* BufferedInputStream.                                                    *)
(***************************************************************************)
\* An end that was reported stays the end: nothing is left to read.
Ended ==
  \/ call \in {"read", "peek"} /\ result = Reader!EOF
  \/ call = "readn" /\ count > 0 /\ result = 0

ReaderInv ==
  /\ Reader!TypeOK
  /\ Reader!InOrder
  /\ Ended => ahead = <<>> /\ rest = <<>>

\* The bytes that are taken, kept and left by one call are the ones that
\* were kept and left before it.
Flows(t, a, r) == t \o (a \o r) = ahead \o rest

LEMMA LeastBound ==
  ASSUME NEW m \in Nat, NEW n \in Nat
  PROVE  Reader!Least(m, n) \in Nat /\ Reader!Least(m, n) <= m /\ Reader!Least(m, n) <= n
BY DEF Reader!Least

\* A call of the delegatee returns some of the bytes that are left, and none
\* only if none was asked for or none is left.
LEMMA DelegateeGives ==
  ASSUME rest \in Seq(Byte), NEW m \in Nat, NEW n \in Reader!DelegateeReturns(m)
  PROVE  /\ n \in 0 .. Len(rest) /\ n <= m
         /\ n = 0 => m = 0 \/ rest = <<>>
<1>1. Len(rest) \in Nat /\ (rest = <<>> => Len(rest) = 0)
  OBVIOUS
<1>2. CASE m = 0 \/ rest = <<>>
  BY <1>1, <1>2 DEF Reader!DelegateeReturns
<1>3. CASE ~(m = 0 \/ rest = <<>>)
  <2>1. n \in 1 .. Reader!Least(m, Len(rest))
    BY <1>3 DEF Reader!DelegateeReturns
  <2>2. Reader!Least(m, Len(rest)) \in Nat /\ Reader!Least(m, Len(rest)) <= m
        /\ Reader!Least(m, Len(rest)) <= Len(rest)
    BY <1>1, LeastBound
  <2> QED BY <1>1, <2>1, <2>2
<1> QED BY <1>2, <1>3

\* What every call owes to the invariant.
LEMMA StepKeeps ==
  ASSUME ReaderInv, source' = source,
         NEW t \in Seq(Byte), taken' = taken \o t,
         rest' \in Seq(Byte), ahead' \in Seq(Byte), Len(ahead') <= ReadBufferSize,
         Flows(t, ahead', rest')
  PROVE  taken' \in Seq(Byte) /\ Reader!InOrder'
<1>1. /\ taken \in Seq(Byte) /\ ahead \in Seq(Byte) /\ rest \in Seq(Byte)
      /\ taken \o (ahead \o rest) = source
  BY DEF ReaderInv, Reader!TypeOK, Reader!InOrder
<1>2. taken \o t \in Seq(Byte)
  BY <1>1, Concat
<1>3. ahead' \o rest' \in Seq(Byte)
  BY Concat
<1>4. (taken \o t) \o (ahead' \o rest') = taken \o (t \o (ahead' \o rest'))
  <2>1. taken \in Seq(Byte) /\ t \in Seq(Byte) /\ ahead' \o rest' \in Seq(Byte)
    BY <1>1, <1>3
  <2> QED BY <2>1, Associative, Zenon
<1>5. (taken \o t) \o (ahead' \o rest') = source
  BY <1>1, <1>4 DEF Flows
<1> QED BY <1>2, <1>5 DEF Reader!InOrder

\* x is what a call had at hand, with r behind it; t of it goes to the
\* caller and a stays in the buffer.
LEMMA SplitFlows ==
  ASSUME NEW x \in Seq(Byte), NEW r \in Seq(Byte), x \o r = ahead \o rest,
         NEW t \in Seq(Byte), NEW a \in Seq(Byte), t \o a = x
  PROVE  Flows(t, a, r)
<1>1. t \o (a \o r) = (t \o a) \o r
  BY Associative, Zenon
<1> QED BY <1>1 DEF Flows

\* A buffer that was filled with the first n bytes that are left.
LEMMA Filled ==
  ASSUME rest \in Seq(Byte), ahead = <<>>, NEW n \in 0 .. Len(rest),
         NEW b, b = SubSeq(rest, 1, n),
         NEW r, r = SubSeq(rest, n + 1, Len(rest))
  PROVE  /\ b \in Seq(Byte) /\ Len(b) = n /\ r \in Seq(Byte)
         /\ b \o r = ahead \o rest
         /\ rest = <<>> => b = <<>> /\ r = <<>>
<1>1. b \in Seq(Byte) /\ Len(b) = n /\ r \in Seq(Byte) /\ b \o r = rest
  BY Cut
<1>2. <<>> \o rest = rest
  BY ConcatEmpty
<1>3. ASSUME rest = <<>> PROVE b = <<>> /\ r = <<>>
  <2>1. Len(rest) = 0 /\ n = 0
    BY <1>3
  <2>2. Len(b \o r) = Len(b) + Len(r) /\ Len(r) \in Nat
    BY <1>1, Concat
  <2>3. Len(b) = 0 /\ Len(r) = 0
    BY <1>1, <2>1, <2>2
  <2> QED BY <1>1, <2>3, EmptySeq
<1> QED BY <1>1, <1>2, <1>3

LEMMA HeadTail ==
  ASSUME NEW s \in Seq(Byte), s # <<>>
  PROVE  /\ Head(s) \in Byte /\ <<Head(s)>> \in Seq(Byte)
         /\ Tail(s) \in Seq(Byte) /\ Len(Tail(s)) <= Len(s)
         /\ <<Head(s)>> \o Tail(s) = s
         /\ Head(s) # Reader!EOF
<1>1. Head(s) \in Byte /\ <<Head(s)>> \in Seq(Byte)
  OBVIOUS
<1>2. Tail(s) \in Seq(Byte) /\ Len(Tail(s)) = Len(s) - 1
  OBVIOUS
<1>3. Head(s) # Reader!EOF
  BY <1>1, SizeAssumption DEF Reader!EOF
<1>4. <<Head(s)>> \o Tail(s) = s
  OBVIOUS
<1> QED BY <1>1, <1>2, <1>3, <1>4

LEMMA InitReaderInv == Reader!Init => ReaderInv
<1> SUFFICES ASSUME NEW f \in Seq(Byte), Reader!OpenedOn(f) PROVE ReaderInv
  BY DEF Reader!Init
<1>1. source = f /\ rest = f /\ ahead = <<>> /\ taken = <<>>
      /\ call = "none" /\ count = 0 /\ result = 0
  BY DEF Reader!OpenedOn
<1>2. <<>> \in Seq(Byte) /\ Len(<<>>) <= ReadBufferSize
  BY SizeAssumption
<1>3. <<>> \o (<<>> \o f) = f
  BY ConcatEmpty
<1> QED BY <1>1, <1>2, <1>3 DEF ReaderInv, Reader!TypeOK, Reader!InOrder, Ended

\* A call hands over t, keeps ahead' and leaves rest'; if it reports the
\* end, nothing is kept or left.
LEMMA CallKeeps ==
  ASSUME ReaderInv, source' = source,
         NEW t \in Seq(Byte), taken' = taken \o t,
         rest' \in Seq(Byte), ahead' \in Seq(Byte), Len(ahead') <= ReadBufferSize,
         Flows(t, ahead', rest'),
         NEW c \in {"none", "read", "peek", "readn", "aborted"},
         NEW n \in Nat, NEW r \in Int, Reader!Return(c, n, r),
         Ended' => ahead' = <<>> /\ rest' = <<>>
  PROVE  ReaderInv'
<1>1. taken' \in Seq(Byte) /\ Reader!InOrder'
  BY StepKeeps
<1>2. source' \in Seq(Byte)
  BY DEF ReaderInv, Reader!TypeOK
<1>3. call' \in {"none", "read", "peek", "readn", "aborted"}
      /\ count' \in Nat /\ result' \in Int
  BY DEF Reader!Return
<1> QED BY <1>1, <1>2, <1>3 DEF ReaderInv, Reader!TypeOK

LEMMA NextReaderInv == ReaderInv /\ [Reader!Next]_Reader!vars => ReaderInv'
<1> SUFFICES ASSUME ReaderInv, [Reader!Next]_Reader!vars PROVE ReaderInv'
  OBVIOUS
<1>0. /\ source \in Seq(Byte) /\ rest \in Seq(Byte) /\ ahead \in Seq(Byte)
      /\ taken \in Seq(Byte) /\ Len(ahead) <= ReadBufferSize
      /\ ReadBufferSize \in Nat /\ ReadBufferSize # 0 /\ Reader!EOF = -1 /\ Reader!EOF \in Int
      /\ <<>> \in Seq(Byte) /\ Len(<<>>) = 0
      /\ Len(ahead) \in Nat /\ Len(rest) \in Nat
      /\ Byte \subseteq Int
  BY SizeAssumption DEF ReaderInv, Reader!TypeOK, Reader!EOF
<1>1. taken \o <<>> = taken /\ ahead \o rest = <<>> \o (ahead \o rest)
  <2>1. ahead \o rest \in Seq(Byte)
    BY <1>0, Concat
  <2> QED BY <1>0, <2>1, ConcatEmpty
<1> USE DEF Reader!Return
<1>2. ASSUME source' = source, Reader!ReadFast PROVE ReaderInv'
  <2>1. ahead # <<>> /\ taken' = Append(taken, Head(ahead)) /\ ahead' = Tail(ahead)
        /\ rest' = rest /\ Reader!Return("read", 0, Head(ahead))
    BY <1>2 DEF Reader!ReadFast
  <2>2. /\ Head(ahead) \in Byte /\ <<Head(ahead)>> \in Seq(Byte)
        /\ Tail(ahead) \in Seq(Byte) /\ Len(Tail(ahead)) <= Len(ahead)
        /\ <<Head(ahead)>> \o Tail(ahead) = ahead /\ Head(ahead) # Reader!EOF
    BY <1>0, <2>1, HeadTail
  <2>3. taken' = taken \o <<Head(ahead)>>
    BY <1>0, <2>1, <2>2, Appended
  <2>4. Flows(<<Head(ahead)>>, ahead', rest')
    BY <1>0, <2>1, <2>2, SplitFlows
  <2>5. Len(ahead') <= ReadBufferSize /\ Len(Tail(ahead)) \in Nat
    BY <1>0, <2>1, <2>2
  <2>6. ~Ended'
    BY <2>1, <2>2 DEF Ended, Reader!EOF
  <2>7. Head(ahead) \in Int
    BY <1>0, <2>2
  <2> HIDE DEF Reader!Return
  <2> QED BY <1>0, <1>2, <2>1, <2>2, <2>3, <2>4, <2>5, <2>6, <2>7, CallKeeps
<1>3. ASSUME source' = source, Reader!ReadSlowPath PROVE ReaderInv'
  <2>0. PICK n \in Reader!DelegateeReturns(ReadBufferSize) :
          LET b == SubSeq(rest, 1, n)
          IN  /\ rest' = SubSeq(rest, n + 1, Len(rest))
              /\ IF n > 0
                 THEN /\ Reader!Return("read", 0, Head(b))
                      /\ ahead' = Tail(b)
                      /\ taken' = Append(taken, Head(b))
                 ELSE Reader!Return("read", 0, Reader!EOF) /\ UNCHANGED <<ahead, taken>>
    BY <1>3 DEF Reader!ReadSlowPath
  <2>1. ahead = <<>> /\ n \in 0 .. Len(rest) /\ n <= ReadBufferSize
        /\ (n = 0 => rest = <<>>)
    BY <1>0, <1>3, DelegateeGives DEF Reader!ReadSlowPath
  <2> DEFINE b == SubSeq(rest, 1, n)
  <2>2. /\ b \in Seq(Byte) /\ Len(b) = n /\ rest' \in Seq(Byte)
        /\ b \o rest' = ahead \o rest
        /\ rest = <<>> => b = <<>> /\ rest' = <<>>
    BY <1>0, <2>0, <2>1, Filled
  <2>3. CASE n > 0
    <3>1. Reader!Return("read", 0, Head(b)) /\ ahead' = Tail(b)
          /\ taken' = Append(taken, Head(b))
      BY <2>0, <2>3
    <3> HIDE DEF b
    <3>2. b # <<>>
      BY <1>0, <2>2, <2>3
    <3>3. /\ Head(b) \in Byte /\ <<Head(b)>> \in Seq(Byte)
          /\ Tail(b) \in Seq(Byte) /\ Len(Tail(b)) <= Len(b)
          /\ <<Head(b)>> \o Tail(b) = b /\ Head(b) # Reader!EOF
      BY <2>2, <3>2, HeadTail
    <3>4. taken' = taken \o <<Head(b)>>
      BY <1>0, <3>1, <3>3, Appended
    <3>5. Flows(<<Head(b)>>, ahead', rest')
      BY <2>2, <3>1, <3>3, SplitFlows
    <3>6. Len(ahead') <= ReadBufferSize
      BY <1>0, <2>1, <2>2, <3>1, <3>3
    <3>7. ~Ended'
      BY <3>1, <3>3 DEF Ended, Reader!EOF
    <3>8. Head(b) \in Int
      BY <1>0, <3>3
    <3> HIDE DEF Reader!Return
    <3> QED BY <1>0, <1>3, <2>2, <3>1, <3>3, <3>4, <3>5, <3>6, <3>7, <3>8, CallKeeps
  <2>4. CASE n = 0
    <3>1. Reader!Return("read", 0, Reader!EOF) /\ ahead' = <<>> /\ taken' = taken \o <<>>
      BY <1>1, <2>0, <2>1, <2>4
    <3>2. b = <<>> /\ rest' = <<>>
      BY <2>1, <2>2, <2>4
    <3>3. Flows(<<>>, ahead', rest')
      BY <1>0, <2>1, <2>2, <2>4, <3>1, <3>2, ConcatEmpty, SplitFlows
    <3>4. Len(ahead') <= ReadBufferSize
      BY <1>0, <3>1
    <3> HIDE DEF Reader!Return, b
    <3> QED BY <1>0, <1>3, <2>2, <3>1, <3>2, <3>3, <3>4, CallKeeps
  <2> QED BY <1>0, <2>1, <2>3, <2>4
<1>4. ASSUME source' = source, Reader!PeekFast PROVE ReaderInv'
  <2>1. ahead # <<>> /\ Reader!Return("peek", 0, Head(ahead))
        /\ UNCHANGED <<rest, ahead, taken>>
    BY <1>4 DEF Reader!PeekFast
  <2>2. Head(ahead) \in Byte /\ Head(ahead) # Reader!EOF /\ Head(ahead) \in Int
    BY <1>0, <2>1, HeadTail
  <2>3. ~Ended'
    BY <2>1, <2>2 DEF Ended, Reader!EOF
  <2>4. taken' = taken \o <<>> /\ Flows(<<>>, ahead', rest')
    BY <1>1, <2>1 DEF Flows
  <2> HIDE DEF Reader!Return
  <2> QED BY <1>0, <1>4, <2>1, <2>2, <2>3, <2>4, CallKeeps
<1>5. ASSUME source' = source, Reader!PeekSlowPath PROVE ReaderInv'
  <2>0. PICK n \in Reader!DelegateeReturns(ReadBufferSize) :
          LET b == SubSeq(rest, 1, n)
          IN  /\ rest' = SubSeq(rest, n + 1, Len(rest))
              /\ ahead' = b
              /\ Reader!Return("peek", 0, IF n > 0 THEN Head(b) ELSE Reader!EOF)
              /\ UNCHANGED taken
    BY <1>5 DEF Reader!PeekSlowPath
  <2>1. ahead = <<>> /\ n \in 0 .. Len(rest) /\ n <= ReadBufferSize
        /\ (n = 0 => rest = <<>>)
    BY <1>0, <1>5, DelegateeGives DEF Reader!PeekSlowPath
  <2>2. /\ ahead' \in Seq(Byte) /\ Len(ahead') = n /\ rest' \in Seq(Byte)
        /\ ahead' \o rest' = ahead \o rest
        /\ rest = <<>> => ahead' = <<>> /\ rest' = <<>>
    BY <1>0, <2>0, <2>1, Filled
  <2>3. <<>> \o ahead' = ahead'
    BY <2>2, ConcatEmpty
  <2>4. taken' = taken \o <<>> /\ Flows(<<>>, ahead', rest')
    BY <1>0, <1>1, <2>0, <2>2, <2>3, SplitFlows
  <2> DEFINE x == IF n > 0 THEN Head(ahead') ELSE Reader!EOF
  <2>5. Reader!Return("peek", 0, x)
    BY <2>0
  <2>6. n > 0 => Head(ahead') \in Byte /\ Head(ahead') # Reader!EOF
    <3>1. n > 0 => ahead' # <<>>
      BY <1>0, <2>2
    <3> QED BY <2>2, <3>1, HeadTail
  <2>7. x \in Int /\ (n > 0 => x # Reader!EOF)
    BY <1>0, <2>6
  <2> HIDE DEF x
  <2>8. Ended' => ahead' = <<>> /\ rest' = <<>>
    BY <2>1, <2>2, <2>5, <2>7 DEF Ended, Reader!EOF
  <2> HIDE DEF Reader!Return
  <2> QED BY <1>0, <1>5, <2>1, <2>2, <2>4, <2>5, <2>7, <2>8, CallKeeps
<1>6. ASSUME source' = source, NEW c \in Nat, NEW b \in Seq(Byte), Reader!Deliver(b, c),
             Len(b) <= ReadBufferSize, rest' \in Seq(Byte), b \o rest' = ahead \o rest,
             b = <<>> => rest' = <<>>
      PROVE  ReaderInv'
  <2> DEFINE k == Reader!Least(Len(b), c)
             t == SubSeq(b, 1, k)
             a == SubSeq(b, k + 1, Len(b))
  <2>1. Reader!Return("readn", c, k) /\ taken' = taken \o t /\ ahead' = a
    BY <1>6 DEF Reader!Deliver
  <2>2. Len(b) \in Nat /\ k \in 0 .. Len(b) /\ (k = 0 => Len(b) = 0 \/ c = 0)
    BY <1>6 DEF Reader!Least
  <2> HIDE DEF k
  <2>3. t \in Seq(Byte) /\ Len(t) = k /\ a \in Seq(Byte) /\ t \o a = b
    BY <2>2, Cut
  <2> HIDE DEF t, a
  <2>4. Flows(t, ahead', rest')
    BY <1>6, <2>1, <2>3, SplitFlows
  <2>5. Len(b) = Len(t) + Len(a) /\ Len(a) \in Nat
    <3>1. Len(t \o a) = Len(t) + Len(a)
      BY <2>3, Concat
    <3> QED BY <2>3, <3>1
  <2>6. Len(ahead') <= ReadBufferSize
    BY <1>0, <1>6, <2>1, <2>2, <2>3, <2>5
  <2>7. Ended' => ahead' = <<>> /\ rest' = <<>>
    <3> SUFFICES ASSUME Ended' PROVE ahead' = <<>> /\ rest' = <<>>
      OBVIOUS
    <3>1. c > 0 /\ k = 0
      BY <2>1 DEF Ended
    <3>2. Len(b) = 0 /\ Len(a) = 0
      BY <1>6, <2>2, <2>3, <2>5, <3>1
    <3>3. b = <<>> /\ a = <<>>
      BY <1>6, <2>3, <3>2, EmptySeq
    <3> QED BY <1>6, <2>1, <3>3
  <2>8. k \in Int
    BY <2>2
  <2> HIDE DEF Reader!Return
  <2> QED BY <1>6, <2>1, <2>3, <2>4, <2>6, <2>7, <2>8, CallKeeps
<1>7. ASSUME source' = source, NEW c \in 0 .. MaxCount, Reader!ReadAvailable(c) PROVE ReaderInv'
  <2>1. ahead # <<>> /\ Reader!Deliver(ahead, c) /\ rest' = rest
    BY <1>7 DEF Reader!ReadAvailable
  <2>2. c \in Nat
    BY SizeAssumption
  <2> QED BY <1>0, <1>6, <1>7, <2>1, <2>2
<1>8. ASSUME source' = source, NEW c \in 0 .. MaxCount, Reader!ReadDirect(c) PROVE ReaderInv'
  <2>0. c \in Nat
    BY SizeAssumption
  <2>1. PICK n \in Reader!DelegateeReturns(c) :
          /\ Reader!Return("readn", c, n)
          /\ taken' = taken \o SubSeq(rest, 1, n)
          /\ rest' = SubSeq(rest, n + 1, Len(rest))
    BY <1>8 DEF Reader!ReadDirect
  <2>2. ahead = <<>> /\ ahead' = <<>> /\ n \in 0 .. Len(rest)
        /\ (n = 0 => c = 0 \/ rest = <<>>)
    BY <1>0, <1>8, <2>0, DelegateeGives DEF Reader!ReadDirect
  <2> DEFINE t == SubSeq(rest, 1, n)
  <2>3. /\ t \in Seq(Byte) /\ Len(t) = n /\ rest' \in Seq(Byte)
        /\ t \o rest' = ahead \o rest
        /\ rest = <<>> => t = <<>> /\ rest' = <<>>
    BY <1>0, <2>1, <2>2, Filled
  <2>4. taken' = taken \o t /\ Reader!Return("readn", c, n) /\ n \in Int
    BY <2>1, <2>2
  <2> HIDE DEF t
  <2>5. t \o <<>> = t
    BY <2>3, ConcatEmpty
  <2>6. Flows(t, ahead', rest')
    BY <1>0, <2>2, <2>3, <2>5, SplitFlows
  <2>7. Ended' => ahead' = <<>> /\ rest' = <<>>
    BY <2>0, <2>2, <2>3, <2>4 DEF Ended
  <2>8. Len(ahead') <= ReadBufferSize
    BY <1>0, <2>2
  <2> HIDE DEF Reader!Return
  <2> QED BY <1>0, <1>8, <2>0, <2>2, <2>3, <2>4, <2>6, <2>7, <2>8, CallKeeps
<1>9. ASSUME source' = source, NEW c \in 0 .. MaxCount, Reader!ReadFill(c) PROVE ReaderInv'
  <2>0. c \in Nat
    BY SizeAssumption
  <2>1. PICK n \in Reader!DelegateeReturns(ReadBufferSize) :
          /\ Reader!Deliver(SubSeq(rest, 1, n), c)
          /\ rest' = SubSeq(rest, n + 1, Len(rest))
    BY <1>9 DEF Reader!ReadFill
  <2>2. ahead = <<>> /\ n \in 0 .. Len(rest) /\ n <= ReadBufferSize
        /\ (n = 0 => rest = <<>>)
    BY <1>0, <1>9, DelegateeGives DEF Reader!ReadFill
  <2> DEFINE b == SubSeq(rest, 1, n)
  <2>3. /\ b \in Seq(Byte) /\ Len(b) = n /\ rest' \in Seq(Byte)
        /\ b \o rest' = ahead \o rest
        /\ rest = <<>> => b = <<>> /\ rest' = <<>>
    BY <1>0, <2>1, <2>2, Filled
  <2>4. Reader!Deliver(b, c) /\ Len(b) <= ReadBufferSize
    BY <2>1, <2>2, <2>3
  <2> HIDE DEF b
  <2>5. b = <<>> => rest' = <<>>
    BY <1>0, <2>2, <2>3
  <2>6. source' = source /\ b \in Seq(Byte) /\ rest' \in Seq(Byte)
        /\ b \o rest' = ahead \o rest
    BY <1>9, <2>3
  <2> QED BY <1>6, <2>0, <2>4, <2>5, <2>6
<1>10. ASSUME source' = source, Reader!DelegateeFails PROVE ReaderInv'
  <2>1. Reader!Return("aborted", 0, 0) /\ UNCHANGED <<rest, ahead, taken>>
    BY <1>10 DEF Reader!DelegateeFails
  <2>2. ~Ended'
    BY <2>1 DEF Ended
  <2>3. taken' = taken \o <<>> /\ Flows(<<>>, ahead', rest')
    BY <1>1, <2>1 DEF Flows
  <2> HIDE DEF Reader!Return
  <2>4. rest' \in Seq(Byte) /\ ahead' \in Seq(Byte) /\ Len(ahead') <= ReadBufferSize
        /\ <<>> \in Seq(Byte) /\ source' = source /\ 0 \in Nat /\ 0 \in Int
    BY <1>0, <1>10, <2>1
  <2>5. "aborted" \in {"none", "read", "peek", "readn", "aborted"}
    OBVIOUS
  <2> QED BY <2>1, <2>2, <2>3, <2>4, <2>5, CallKeeps
<1>11. CASE UNCHANGED Reader!vars
  BY <1>11 DEF Reader!vars, ReaderInv, Reader!TypeOK, Reader!InOrder, Ended
<1> QED
  BY <1>2, <1>3, <1>4, <1>5, <1>7, <1>8, <1>9, <1>10, <1>11 DEF Reader!Next

\* The stream keeps to its buffer, for every buffer size and every file.
THEOREM StreamTypeCorrect == Reader!Spec => []Reader!TypeOK
BY InitReaderInv, NextReaderInv, PTL DEF Reader!Spec, ReaderInv

\* Whatever is read, peeked and read in blocks, and however few bytes come
\* at a time, the callers get the bytes of the file in their order, each
\* once.
THEOREM StreamInOrder == Reader!Spec => []Reader!InOrder
BY InitReaderInv, NextReaderInv, PTL DEF Reader!Spec, ReaderInv

LEMMA EndInReaderInv == ReaderInv => Reader!EndIsTheEnd
<1> SUFFICES ASSUME ReaderInv, Ended PROVE taken = source
  BY DEF Reader!EndIsTheEnd, Ended
<1>1. ahead = <<>> /\ rest = <<>> /\ taken \in Seq(Byte)
      /\ taken \o (ahead \o rest) = source
  BY DEF ReaderInv, Reader!TypeOK, Reader!InOrder
<1>2. <<>> \o <<>> = <<>> /\ taken \o <<>> = taken
  BY <1>1, ConcatEmpty
<1> QED BY <1>1, <1>2

\* The end of the file is reported only to a caller that has been given all
\* of it: a short read is never taken for the end.
THEOREM StreamEndIsTheEnd == Reader!Spec => []Reader!EndIsTheEnd
BY InitReaderInv, NextReaderInv, EndInReaderInv, PTL DEF Reader!Spec

\* Peek leaves what it has shown at the front of the buffer, or it has seen
\* the end.
PeekInv ==
  call = "peek" => IF ahead = <<>> THEN rest = <<>> /\ result = Reader!EOF
                                   ELSE result = Head(ahead)

LEMMA NextPeekInv == ReaderInv /\ PeekInv /\ [Reader!Next]_Reader!vars => PeekInv'
<1> SUFFICES ASSUME ReaderInv, PeekInv, [Reader!Next]_Reader!vars, call' = "peek"
             PROVE  IF ahead' = <<>> THEN rest' = <<>> /\ result' = Reader!EOF
                                     ELSE result' = Head(ahead')
  BY DEF PeekInv
<1>1. CASE UNCHANGED Reader!vars
  BY <1>1 DEF Reader!vars, PeekInv
<1>2. CASE Reader!PeekFast
  BY <1>2 DEF Reader!PeekFast, Reader!Return
<1>3. CASE Reader!PeekSlowPath
  <2>0. rest \in Seq(Byte) /\ ReadBufferSize \in Nat /\ ReadBufferSize # 0
    BY SizeAssumption DEF ReaderInv, Reader!TypeOK
  <2>1. PICK n \in Reader!DelegateeReturns(ReadBufferSize) :
          /\ rest' = SubSeq(rest, n + 1, Len(rest))
          /\ ahead' = SubSeq(rest, 1, n)
          /\ result' = IF n > 0 THEN Head(SubSeq(rest, 1, n)) ELSE Reader!EOF
    BY <1>3 DEF Reader!PeekSlowPath, Reader!Return
  <2>2. n \in 0..Len(rest) /\ (n = 0 => rest = <<>>) /\ ahead = <<>>
    BY <1>3, <2>0, DelegateeGives DEF Reader!PeekSlowPath
  <2>3. /\ ahead' \in Seq(Byte) /\ Len(ahead') = n
        /\ rest = <<>> => ahead' = <<>> /\ rest' = <<>>
    BY <2>0, <2>1, <2>2, Filled
  <2>4. CASE n = 0
    BY <2>1, <2>2, <2>3, <2>4
  <2>5. CASE n # 0
    <3>1. n > 0 /\ ahead' # <<>>
      BY <2>2, <2>3, <2>5
    <3> QED BY <2>1, <3>1
  <2> QED BY <2>4, <2>5
<1>4. CASE Reader!Next /\ ~Reader!PeekFast /\ ~Reader!PeekSlowPath
  <2>1. call' \in {"read", "readn", "aborted"}
    BY <1>4 DEF Reader!Next, Reader!ReadFast, Reader!ReadSlowPath,
                Reader!ReadAvailable, Reader!ReadDirect, Reader!ReadFill,
                Reader!Deliver, Reader!DelegateeFails, Reader!Return
  <2> QED BY <2>1
<1> QED BY <1>1, <1>2, <1>3, <1>4

LEMMA ReadAfterPeek ==
  ASSUME ReaderInv, PeekInv, Reader!Next, call = "peek", call' = "read"
  PROVE  result' = result
<1>1. Reader!ReadFast \/ Reader!ReadSlowPath
  BY DEF Reader!Next, Reader!PeekFast, Reader!PeekSlowPath, Reader!ReadAvailable,
         Reader!ReadDirect, Reader!ReadFill, Reader!Deliver,
         Reader!DelegateeFails, Reader!Return
<1>2. CASE Reader!ReadFast
  BY <1>2 DEF PeekInv, Reader!ReadFast, Reader!Return
<1>3. CASE Reader!ReadSlowPath
  <2>0. rest \in Seq(Byte) /\ ReadBufferSize \in Nat
    BY SizeAssumption DEF ReaderInv, Reader!TypeOK
  <2>1. rest = <<>> /\ result = Reader!EOF
    BY <1>3 DEF PeekInv, Reader!ReadSlowPath
  <2>2. PICK n \in Reader!DelegateeReturns(ReadBufferSize) :
          n = 0 => result' = Reader!EOF
    BY <1>3 DEF Reader!ReadSlowPath, Reader!Return
  <2>3. n = 0
    BY <2>1 DEF Reader!DelegateeReturns
  <2> QED BY <2>1, <2>2, <2>3
<1> QED BY <1>1, <1>2, <1>3

(***************************************************************************)
(* The log on its way through both.                                        *)
(***************************************************************************)
\* What FileOutputStream has been given and has not begun to write.
Offered == IF fpc # "idle" /\ total_bytes_written = 0 THEN buf ELSE <<>>

FileInv ==
  /\ fpc \in {"idle", "loop", "aborted"}
  /\ buf \in Seq(Byte)
  /\ file \in Seq(Byte)
  /\ todo \in Seq(Seq(Byte))
  /\ total_bytes_written \in Nat
  /\ ~short => total_bytes_written = 0 \/ total_bytes_written >= Len(buf)
  /\ WholeWritesIntact
  /\ settled \in Nat
  /\ ~short => Len(file) >= settled

\* The reader is not used before cheaproute is gone, and then it reads a file
\* that changes no more.
PlayInv ==
  /\ ReaderInv
  /\ PeekInv
  /\ ~playing => taken = <<>> /\ ahead = <<>> /\ call = "none" /\ count = 0
                   /\ result = 0
  /\ playing => source = file /\ ~short

LogInv == WriterInv /\ FileInv /\ PlayInv

LEMMA IntactIs ==
  WholeWritesIntact <=> (~short => (file \o Offered) \o FlattenSeq(todo) = sink)
BY DEF WholeWritesIntact, Offered

\* Once the calls have returned, the file holds what was handed down, so that
\* what was flushed may be taken as settled.
LEMMA SettleKeeps ==
  ASSUME WriterInv', WholeWritesIntact', file' \in Seq(Byte), Settle,
         settled \in Nat, ~short' => Len(file') >= settled
  PROVE  settled' \in Nat /\ (~short' => Len(file') >= settled')
<1>1. flushed' \in Nat /\ Len(sink') >= flushed'
  BY DEF WriterInv, TypeOK, FlushReaches
<1>2. CASE Returned'
  <2>1. settled' = flushed'
    BY <1>2 DEF Settle
  <2>2. Offered' = <<>> /\ FlattenSeq(todo') = <<>>
    BY <1>2, FlattenEmpty DEF Returned, Offered
  <2>3. (file' \o <<>>) \o <<>> = file'
    BY ConcatEmpty
  <2>4. ~short' => file' = sink'
    BY <2>2, <2>3 DEF WholeWritesIntact, Offered
  <2> QED BY <1>1, <2>1, <2>4
<1>3. CASE ~Returned'
  BY <1>3 DEF Settle
<1> QED BY <1>2, <1>3

LEMMA OfferedType == FileInv => Offered \in Seq(Byte)
BY DEF FileInv, Offered

\* A caller's bytes are bytes.
LEMMA BytesType ==
  ASSUME WriterInv, NEW n \in Sizes
  PROVE  Bytes(n) \in Writes /\ Bytes(n) \in Seq(Byte)
<1>1. Len(written) \in Nat /\ n \in 0..MaxWrite /\ Len(written) + n <= MaxLen
  BY DEF WriterInv, TypeOK, Sizes
<1>2. MaxLen \in Nat /\ MaxWrite \in Nat
  BY SizeAssumption
<1>3. \A i \in 1..n : Len(written) + i \in 1..MaxLen
  BY <1>1, <1>2
<1>4. Bytes(n) \in [1..n -> Byte] /\ n \in Nat
  BY <1>1, <1>2, <1>3, LogAssumption DEF Bytes
<1>5. Bytes(n) \in Writes
  BY <1>1, <1>4 DEF Writes
<1> QED BY <1>5, WritesType

LEMMA CallsOf ==
  ASSUME NEW b \in Seq(Byte)
  PROVE  Calls(b) \in Seq(Seq(Byte)) /\ FlattenSeq(Calls(b)) = b
<1>1. <<>> \in Seq(Seq(Byte)) /\ <<b>> \in Seq(Seq(Byte))
  OBVIOUS
<1>2. CASE b = <<>>
  BY <1>1, <1>2, FlattenEmpty DEF Calls
<1>3. CASE b # <<>>
  BY <1>1, <1>3, FlattenOne DEF Calls
<1> QED BY <1>2, <1>3

\* What was behind a is what a cut at its length leaves.
LEMMA Behind ==
  ASSUME NEW a \in Seq(Byte), NEW b \in Seq(Byte)
  PROVE  SubSeq(a \o b, Len(a) + 1, Len(a \o b)) = b
<1> DEFINE c == a \o b
           s == SubSeq(c, Len(a) + 1, Len(c))
<1>1. c \in Seq(Byte) /\ Len(c) = Len(a) + Len(b) /\ Len(a) \in Nat /\ Len(b) \in Nat
      /\ \A i \in 1..Len(b) : c[Len(a) + i] = b[i]
  OBVIOUS
<1> HIDE DEF c
<1>2. s \in Seq(Byte) /\ Len(s) = Len(b)
      /\ \A i \in 1..Len(b) : s[i] = c[Len(a) + i]
  BY <1>1
<1> HIDE DEF s
<1>3. s = b
  BY <1>1, <1>2, SeqEqual
<1> QED BY <1>3 DEF s, c

\* A step of the buffered stream is one of BufferedOutputStream, and leaves to
\* the delegatee, in order, what it adds to sink.
LEMMA BufferHands ==
  ASSUME WriterInv, Buffer
  PROVE  Next /\ todo' \in Seq(Seq(Byte)) /\ sink' = sink \o FlattenSeq(todo')
<1>0. sink \in Seq(Byte) /\ buffer \in Seq(Byte) /\ src \in Seq(Byte)
      /\ written \in Seq(Byte) /\ <<>> \in Seq(Byte)
  BY DEF WriterInv, TypeOK
<1>1. ASSUME NEW n \in Sizes, WriteLarge(Bytes(n)),
             todo' = Calls(buffer) \o Calls(Bytes(n))
      PROVE  Next /\ todo' \in Seq(Seq(Byte)) /\ sink' = sink \o FlattenSeq(todo')
  <2> DEFINE b == Bytes(n)
  <2>1. b \in Writes /\ b \in Seq(Byte)
    BY BytesType
  <2>2. sink' = (sink \o buffer) \o b
    BY <1>1 DEF WriteLarge
  <2>3. Next
    BY <1>1, <2>1 DEF Next
  <2> HIDE DEF b
  <2>4. Calls(buffer) \in Seq(Seq(Byte)) /\ Calls(b) \in Seq(Seq(Byte))
        /\ FlattenSeq(Calls(buffer)) = buffer /\ FlattenSeq(Calls(b)) = b
    BY <1>0, <2>1, CallsOf
  <2>5. todo' \in Seq(Seq(Byte)) /\ FlattenSeq(todo') = buffer \o b
    <3>1. todo' = Calls(buffer) \o Calls(b)
      BY <1>1 DEF b
    <3>2. FlattenSeq(Calls(buffer) \o Calls(b))
            = FlattenSeq(Calls(buffer)) \o FlattenSeq(Calls(b))
      BY <2>4, FlattenConcat
    <3>3. Calls(buffer) \o Calls(b) \in Seq(Seq(Byte))
      BY <2>4, Concat
    <3> QED BY <2>4, <3>1, <3>2, <3>3
  <2>6. (sink \o buffer) \o b = sink \o (buffer \o b)
    BY <1>0, <2>1, Associative, Zenon
  <2> QED BY <2>2, <2>3, <2>5, <2>6
<1>2. ASSUME NEW b \in Seq(Byte), sink' = sink \o b, todo' = Calls(Handed)
      PROVE  todo' \in Seq(Seq(Byte)) /\ sink' = sink \o FlattenSeq(todo')
  <2>1. Handed = b
    BY <1>0, <1>2, Behind DEF Handed
  <2> QED BY <1>2, <2>1, CallsOf
<1>3. ASSUME NEW b \in Seq(Byte), Store(b)
      PROVE  \E c \in Seq(Byte) : sink' = sink \o c
  BY <1>0, <1>3, ConcatEmpty DEF Store
<1>4. UNCHANGED sink => \E c \in Seq(Byte) : sink' = sink \o c
  BY <1>0, ConcatEmpty
<1>5. ASSUME NEW b \in {Len(written) + 1}, WriteChar(b)
      PROVE  Next /\ \E c \in Seq(Byte) : sink' = sink \o c
  <2>1. b \in Byte
    <3>1. Len(written) \in Nat /\ Len(written) < MaxLen /\ MaxLen \in Nat
      BY <1>0, <1>5, SizeAssumption DEF WriteChar
    <3>2. b \in 1..MaxLen
      BY <3>1
    <3> QED BY <3>2, LogAssumption
  <2>2. Append(buffer, b) \in Seq(Byte)
    BY <1>0, <2>1, Appended
  <2> QED BY <1>3, <1>5, <2>1, <2>2 DEF WriteChar, Next
<1>6. ASSUME NEW n \in Sizes, WriteSmall(Bytes(n))
      PROVE  Next /\ \E c \in Seq(Byte) : sink' = sink \o c
  BY <1>4, <1>6, BytesType DEF WriteSmall, Next
<1>7. ASSUME Copy
      PROVE  Next /\ \E c \in Seq(Byte) : sink' = sink \o c
  <2> DEFINE room == BufferSize - Len(buffer)
             n == IF Len(src) < room THEN Len(src) ELSE room
             b == buffer \o SubSeq(src, 1, n)
  <2>1. Store(b)
    BY <1>7 DEF Copy
  <2>2. n \in 0..Len(src)
    BY <1>0, SizeAssumption DEF WriterInv, TypeOK
  <2> HIDE DEF n
  <2>3. SubSeq(src, 1, n) \in Seq(Byte)
    BY <1>0, <2>2, Cut
  <2>4. b \in Seq(Byte)
    BY <1>0, <2>3, Concat
  <2> QED BY <1>3, <1>7, <2>1, <2>4 DEF Next
<1>8. ASSUME WriteDone
      PROVE  Next /\ \E c \in Seq(Byte) : sink' = sink \o c
  BY <1>4, <1>8 DEF WriteDone, Next
<1>9. ASSUME Flush
      PROVE  Next /\ \E c \in Seq(Byte) : sink' = sink \o c
  BY <1>0, <1>9 DEF Flush, Next
<1> QED BY <1>1, <1>2, <1>5, <1>6, <1>7, <1>8, <1>9 DEF Buffer

LEMMA InitLogInv == LogInit => LogInv
<1> SUFFICES ASSUME LogInit PROVE LogInv
  OBVIOUS
<1>1. WriterInv
  BY InitWriterInv DEF LogInit
<1>2. <<>> \in Seq(Byte) /\ <<>> \in Seq(Seq(Byte)) /\ (<<>> \o <<>>) \o <<>> = <<>>
  OBVIOUS
<1>3. /\ fpc = "idle" /\ buf = <<>> /\ file = <<>> /\ todo = <<>>
      /\ total_bytes_written = 0 /\ short = FALSE /\ sink = <<>> /\ playing = FALSE
      /\ settled = 0 /\ Reader!OpenedOn(<<>>)
  BY DEF LogInit, File!Init, Init
<1>4. FlattenSeq(todo) = <<>>
  BY <1>3, FlattenEmpty
<1>5. WholeWritesIntact
  BY <1>2, <1>3, <1>4, IntactIs DEF Offered
<1>6. FileInv
  BY <1>2, <1>3, <1>5 DEF FileInv
<1>7. ReaderInv
  BY <1>2, <1>3, InitReaderInv DEF Reader!Init
<1>8. PlayInv
  BY <1>3, <1>7 DEF PlayInv, PeekInv, Reader!OpenedOn
<1> QED BY <1>1, <1>6, <1>8 DEF LogInv

LEMMA BufferKeeps ==
  ASSUME LogInv, Buffer
  PROVE  LogInv'
<1>1. WriterInv /\ FileInv /\ PlayInv
  BY DEF LogInv
<1>2. Next /\ todo' \in Seq(Seq(Byte)) /\ sink' = sink \o FlattenSeq(todo')
  BY <1>1, BufferHands
<1>3. WriterInv'
  BY <1>1, <1>2, NextWriterInv
<1>4. todo = <<>> /\ fpc = "idle" /\ UNCHANGED fileVars
      /\ UNCHANGED <<playing, readerVars>>
  BY DEF Buffer, Returned
<1>5. FlattenSeq(todo') \in Seq(Byte)
  BY <1>2, FlattenType
<1>6. WholeWritesIntact'
  <2>1. Offered = <<>> /\ Offered' = <<>>
    BY <1>4 DEF Offered, fileVars
  <2>2. FlattenSeq(todo) = <<>>
    BY <1>4, FlattenEmpty
  <2>3. file \in Seq(Byte) /\ file \o <<>> = file
    BY <1>1, ConcatEmpty DEF FileInv
  <2>4. ~short => file = sink
    BY <1>1, <2>1, <2>2, <2>3, IntactIs DEF FileInv
  <2>5. ~short' => (file' \o Offered') \o FlattenSeq(todo') = sink'
    BY <1>2, <1>4, <2>1, <2>3, <2>4 DEF fileVars
  <2> QED BY <2>5 DEF WholeWritesIntact, Offered
<1>9. settled' \in Nat /\ (~short' => Len(file') >= settled')
  BY <1>1, <1>3, <1>4, <1>6, SettleKeeps DEF Buffer, FileInv, fileVars
<1>7. FileInv'
  BY <1>1, <1>2, <1>4, <1>6, <1>9 DEF FileInv, fileVars
<1>8. PlayInv'
  BY <1>1, <1>4 DEF PlayInv, readerVars, fileVars, ReaderInv, PeekInv, Ended,
                    Reader!TypeOK, Reader!InOrder
<1> QED BY <1>3, <1>7, <1>8 DEF LogInv

LEMMA PlayUnchanged ==
  ASSUME PlayInv, ~playing, UNCHANGED <<playing, readerVars>>
  PROVE  PlayInv'
BY DEF PlayInv, readerVars, ReaderInv, PeekInv, Ended, Reader!TypeOK, Reader!InOrder

LEMMA WriterUnchanged ==
  ASSUME WriterInv, UNCHANGED vars
  PROVE  WriterInv'
BY NextWriterInv

LEMMA CallKept ==
  ASSUME LogInv, CallDelegatee
  PROVE  LogInv'
<1>1. WriterInv /\ FileInv /\ PlayInv
  BY DEF LogInv
<1>2. /\ ~playing /\ todo # <<>> /\ fpc = "idle" /\ buf' = Head(todo)
      /\ total_bytes_written' = 0 /\ fpc' = "loop" /\ todo' = Tail(todo)
      /\ UNCHANGED <<file, short, settled>> /\ UNCHANGED vars
      /\ UNCHANGED <<playing, readerVars>>
  BY DEF CallDelegatee, File!Write
<1> DEFINE h == Head(todo)
           t == Tail(todo)
           T == Seq(Byte)
<1>3. todo \in Seq(T) /\ file \in Seq(Byte)
  BY <1>1 DEF FileInv
<1> HIDE DEF T
<1>4. h \in T /\ t \in Seq(T) /\ <<h>> \in Seq(T) /\ <<h>> \o t = todo
  BY <1>2, <1>3
<1> HIDE DEF h, t
<1>5. /\ FlattenSeq(todo) = h \o FlattenSeq(t)
      /\ FlattenSeq(t) \in Seq(Byte) /\ h \in Seq(Byte)
  <2>1. h \in Seq(Byte) /\ t \in Seq(Seq(Byte)) /\ <<h>> \in Seq(Seq(Byte))
    BY <1>4 DEF T
  <2>2. FlattenSeq(<<h>> \o t) = FlattenSeq(<<h>>) \o FlattenSeq(t)
    BY <2>1, FlattenConcat
  <2>3. FlattenSeq(<<h>>) = h /\ FlattenSeq(t) \in Seq(Byte)
    BY <2>1, FlattenOne, FlattenType
  <2> QED BY <1>4, <2>1, <2>2, <2>3
<1>6. Offered = <<>> /\ Offered' = h
  BY <1>2 DEF Offered, h
<1>7. file \o <<>> = file
  BY <1>3, ConcatEmpty
<1>8. (file \o h) \o FlattenSeq(t) = file \o (h \o FlattenSeq(t))
  BY <1>3, <1>5, Associative, Zenon
<1>9. ~short' => (file' \o Offered') \o FlattenSeq(todo') = sink'
  <2>1. ~short => file \o FlattenSeq(todo) = sink
    BY <1>1, <1>6, <1>7, IntactIs DEF FileInv
  <2>2. todo' = t /\ sink' = sink
    BY <1>2 DEF t, vars
  <2> QED BY <1>2, <1>5, <1>6, <1>8, <2>1, <2>2
<1>10. WholeWritesIntact'
  BY <1>9 DEF WholeWritesIntact, Offered
<1>11. FileInv'
  BY <1>1, <1>2, <1>4, <1>5, <1>10 DEF FileInv, h, t, T
<1>12. PlayInv' /\ WriterInv'
  BY <1>1, <1>2, PlayUnchanged, WriterUnchanged
<1> QED BY <1>11, <1>12 DEF LogInv

LEMMA KernelKeeps ==
  ASSUME LogInv, Kernel
  PROVE  LogInv'
<1>1. WriterInv /\ FileInv /\ PlayInv
  BY DEF LogInv
<1>2. /\ ~playing /\ File!Loop /\ UNCHANGED vars /\ todo' = todo
      /\ UNCHANGED <<playing, readerVars>> /\ sink' = sink
  BY DEF Kernel, vars
<1>3. PlayInv' /\ WriterInv'
  BY <1>1, <1>2, PlayUnchanged, WriterUnchanged
<1>4. /\ buf \in Seq(Byte) /\ file \in Seq(Byte) /\ todo \in Seq(Seq(Byte))
      /\ total_bytes_written \in Nat /\ Len(buf) \in Nat
      /\ ~short => total_bytes_written = 0 \/ total_bytes_written >= Len(buf)
      /\ ~short => (file \o Offered) \o FlattenSeq(todo) = sink
      /\ settled \in Nat /\ (~short => Len(file) >= settled)
  BY <1>1, IntactIs DEF FileInv
<1>5. ASSUME ~short' => (file' \o Offered') \o FlattenSeq(todo') = sink',
             fpc' \in {"idle", "loop", "aborted"}, buf' \in Seq(Byte),
             file' \in Seq(Byte), total_bytes_written' \in Nat,
             ~short' => total_bytes_written' = 0 \/ total_bytes_written' >= Len(buf'),
             ~short' => Len(file') >= settled
      PROVE  LogInv'
  <2>1. WholeWritesIntact'
    BY <1>5 DEF WholeWritesIntact, Offered
  <2>2. settled' \in Nat /\ (~short' => Len(file') >= settled')
    BY <1>3, <1>4, <1>5, <2>1, SettleKeeps DEF Kernel
  <2> QED BY <1>2, <1>3, <1>4, <1>5, <2>1, <2>2 DEF LogInv, FileInv
<1>6. ASSUME NEW n \in 0..Len(buf), File!KernelTakes(n)
      PROVE  LogInv'
  <2>1. /\ fpc = "loop" /\ total_bytes_written < Len(buf) /\ n > 0
        /\ file' = file \o SubSeq(buf, 1, n)
        /\ total_bytes_written' = total_bytes_written + n
        /\ short' = (short \/ n < Len(buf)) /\ fpc' = fpc /\ buf' = buf
    BY <1>6 DEF File!KernelTakes
  <2>2. SubSeq(buf, 1, n) \in Seq(Byte)
    BY <1>4, Cut
  <2>3. file' \in Seq(Byte) /\ Len(file') >= Len(file)
    BY <1>4, <2>1, <2>2, Concat
  <2>5. ~short' => Len(file') >= settled
    <3>1. ~short' => ~short
      BY <2>1, Zenon
    <3> QED BY <1>4, <2>3, <3>1
  <2>4. ASSUME ~short'
        PROVE  /\ (file' \o Offered') \o FlattenSeq(todo') = sink'
               /\ total_bytes_written' >= Len(buf')
    <3>0. ~short /\ ~(n < Len(buf))
      BY <2>1, <2>4, Zenon
    <3>1. ~short /\ n = Len(buf) /\ total_bytes_written = 0
      BY <1>4, <2>1, <3>0
    <3>2. SubSeq(buf, 1, n) = buf
      BY <1>4, <3>1
    <3>3. file' = file \o buf /\ Offered = buf /\ Offered' = <<>>
      BY <1>4, <2>1, <3>1, <3>2 DEF Offered
    <3>4. file' \o <<>> = file'
      BY <2>3, ConcatEmpty
    <3> QED BY <1>2, <1>4, <2>1, <3>1, <3>3, <3>4
  <2> QED BY <1>4, <1>5, <2>1, <2>3, <2>4, <2>5
<1>7. CASE File!KernelFails
  <2>1. fpc = "loop" /\ fpc' = "aborted"
        /\ UNCHANGED <<buf, total_bytes_written, file, short>>
    BY <1>7 DEF File!KernelFails
  <2>2. Offered' = Offered
    BY <2>1 DEF Offered
  <2> QED BY <1>2, <1>4, <1>5, <2>1, <2>2
<1>8. CASE File!WriteDone
  <2>1. fpc = "loop" /\ fpc' = "idle" /\ total_bytes_written >= Len(buf)
        /\ UNCHANGED <<buf, total_bytes_written, file, short>>
    BY <1>8 DEF File!WriteDone
  <2>2. Offered' = Offered
    <3>1. total_bytes_written = 0 => buf = <<>>
      BY <1>4, <2>1
    <3> QED BY <2>1, <3>1 DEF Offered
  <2> QED BY <1>2, <1>4, <1>5, <2>1, <2>2
<1> QED BY <1>2, <1>6, <1>7, <1>8 DEF File!Loop

LEMMA OpenKeeps ==
  ASSUME LogInv, OpenLog
  PROVE  LogInv'
<1>1. WriterInv /\ FileInv /\ PlayInv
  BY DEF LogInv
<1>2. /\ ~playing /\ ~short /\ playing' = TRUE /\ source' = file /\ rest' = file
      /\ UNCHANGED vars /\ UNCHANGED fileVars
      /\ UNCHANGED <<todo, settled, ahead, taken, call, count, result>>
  BY DEF OpenLog
<1>3. WriterInv'
  BY <1>1, <1>2, WriterUnchanged
<1>4. FileInv'
  BY <1>1, <1>2 DEF FileInv, fileVars, WholeWritesIntact, vars
<1>5. /\ file \in Seq(Byte) /\ taken = <<>> /\ ahead = <<>> /\ call = "none"
      /\ count = 0 /\ result = 0
  BY <1>1, <1>2 DEF FileInv, PlayInv
<1>6. <<>> \o (<<>> \o file) = file /\ Len(<<>>) <= ReadBufferSize /\ <<>> \in Seq(Byte)
  BY <1>5, ConcatEmpty, SizeAssumption
<1>7. ReaderInv'
  BY <1>2, <1>5, <1>6 DEF ReaderInv, Reader!TypeOK, Reader!InOrder, Ended
<1>8. PlayInv'
  BY <1>2, <1>5, <1>7 DEF PlayInv, PeekInv, fileVars
<1> QED BY <1>3, <1>4, <1>8 DEF LogInv

LEMMA ReadKeeps ==
  ASSUME LogInv, Read
  PROVE  LogInv'
<1>1. WriterInv /\ FileInv /\ PlayInv
  BY DEF LogInv
<1>2. playing /\ Reader!Next /\ UNCHANGED vars /\ UNCHANGED fileVars
      /\ todo' = todo /\ settled' = settled /\ playing' = playing
  BY DEF Read
<1>3. WriterInv'
  BY <1>1, <1>2, WriterUnchanged
<1>4. FileInv'
  BY <1>1, <1>2 DEF FileInv, fileVars, WholeWritesIntact, vars
<1>5. ReaderInv' /\ PeekInv'
  BY <1>1, <1>2, NextReaderInv, NextPeekInv DEF PlayInv
<1>6. PlayInv'
  BY <1>1, <1>2, <1>5 DEF PlayInv, Reader!Next, fileVars
<1> QED BY <1>3, <1>4, <1>6 DEF LogInv

LEMMA NextLogInv == LogInv /\ [LogNext]_logVars => LogInv'
<1>1. ASSUME LogInv, UNCHANGED logVars PROVE LogInv'
  <2>1. WriterInv'
    BY <1>1, WriterUnchanged DEF LogInv, logVars
  <2>2. FileInv'
    BY <1>1 DEF LogInv, logVars, FileInv, fileVars, WholeWritesIntact, vars
  <2>3. PlayInv'
    BY <1>1 DEF LogInv, logVars, PlayInv, readerVars, fileVars, ReaderInv, PeekInv,
                Ended, Reader!TypeOK, Reader!InOrder
  <2> QED BY <2>1, <2>2, <2>3 DEF LogInv
<1> QED BY <1>1, BufferKeeps, CallKept, KernelKeeps, OpenKeeps, ReadKeeps
        DEF LogNext

\* As long as write(2) takes every buffer whole, the file and the calls still
\* to be made are at every moment what the buffered stream has handed down,
\* for every buffer size.
THEOREM LogWholeWritesIntact == LogSpec => []WholeWritesIntact
<1>1. LogInv => WholeWritesIntact
  BY DEF LogInv, FileInv
<1> QED BY <1>1, InitLogInv, NextLogInv, PTL DEF LogSpec

\* No byte is lost, repeated or overtaken between the callers and the file's
\* stream in the composed system either.
THEOREM LogNothingLost == LogSpec => []NothingLost
<1>1. LogInv => NothingLost
  BY DEF LogInv, WriterInv
<1> QED BY <1>1, InitLogInv, NextLogInv, PTL DEF LogSpec

LEMMA PrefixOf ==
  ASSUME NEW a \in Seq(Byte), NEW b \in Seq(Byte)
  PROVE  IsPrefix(a, a \o b)
BY DEF IsPrefix

LEMMA ReadsBack == LogInv => LogReadsBack
<1> SUFFICES ASSUME LogInv, ~short PROVE LogReadsBack
  BY DEF LogReadsBack
<1>1. /\ sink \in Seq(Byte) /\ buffer \in Seq(Byte) /\ src \in Seq(Byte)
      /\ sink \o (buffer \o src) = written /\ Len(sink) >= flushed
      /\ written \in Seq(Byte)
  BY DEF LogInv, WriterInv, TypeOK, NothingLost, FlushReaches
<1>2. /\ file \in Seq(Byte) /\ Offered \in Seq(Byte)
      /\ FlattenSeq(todo) \in Seq(Byte)
      /\ (file \o Offered) \o FlattenSeq(todo) = sink
  BY OfferedType, FlattenType, IntactIs DEF LogInv, FileInv
<1>3. CASE ~playing
  <2>1. taken = <<>>
    BY <1>3 DEF LogInv, PlayInv
  <2>2. IsPrefix(<<>>, written)
    <3>1. <<>> \in Seq(Byte) /\ <<>> \o written = written
      BY <1>1, ConcatEmpty
    <3> QED BY <1>1, <3>1, PrefixOf
  <2> QED BY <1>3, <2>1, <2>2 DEF LogReadsBack
<1>4. CASE playing
  <2>1. /\ taken \in Seq(Byte) /\ ahead \in Seq(Byte) /\ rest \in Seq(Byte)
        /\ taken \o (ahead \o rest) = file
        /\ Reader!EndIsTheEnd
    BY <1>4, EndInReaderInv
       DEF LogInv, PlayInv, ReaderInv, Reader!TypeOK, Reader!InOrder
  <2> DEFINE x == ahead \o rest
             y == Offered \o FlattenSeq(todo)
             z == buffer \o src
  <2>2. x \in Seq(Byte) /\ y \in Seq(Byte) /\ z \in Seq(Byte)
    BY <1>1, <1>2, <2>1, Concat
  <2>3. file \o y = sink
    BY <1>2, Associative, Zenon
  <2>4. taken \o x = file /\ sink \o z = written
    BY <1>1, <2>1
  <2> HIDE DEF x, y, z
  <2>5. written = taken \o ((x \o y) \o z) /\ (x \o y) \o z \in Seq(Byte)
    <3>1. x \o y \in Seq(Byte) /\ (x \o y) \o z \in Seq(Byte)
      BY <2>2, Concat
    <3>2. ((taken \o x) \o y) \o z = (taken \o (x \o y)) \o z
      BY <2>1, <2>2, Associative, Zenon
    <3>3. (taken \o (x \o y)) \o z = taken \o ((x \o y) \o z)
      <4> DEFINE w == x \o y
      <4>1. taken \in Seq(Byte) /\ w \in Seq(Byte) /\ z \in Seq(Byte)
        BY <2>1, <2>2, <3>1
      <4> HIDE DEF w
      <4>2. (taken \o w) \o z = taken \o (w \o z)
        BY <4>1, Associative, Zenon
      <4> QED BY <4>2 DEF w
    <3> QED BY <2>3, <2>4, <3>1, <3>2, <3>3
  <2>6. IsPrefix(taken, written)
    BY <2>1, <2>5, PrefixOf
  <2>7. ASSUME call = "read", result = Reader!EOF
        PROVE  Len(taken) >= settled
    <3>1. taken = source /\ source = file
      BY <1>4, <2>1, <2>7 DEF Reader!EndIsTheEnd, LogInv, PlayInv
    <3> QED BY <3>1 DEF LogInv, FileInv
  <2> QED BY <2>6, <2>7 DEF LogReadsBack
<1> QED BY <1>3, <1>4

\* What playbacktun reads is the beginning of what PacketLogger wrote, and at
\* the end it has read all up to the last Flush that returned, for every buffer
\* size of each of the two programs, every pattern of short reads and every
\* moment at which the first one is killed, within a call or between two.
THEOREM LogLogReadsBack == LogSpec => []LogReadsBack
BY ReadsBack, InitLogInv, NextLogInv, PTL DEF LogSpec

\* Peek promises what Read returns, also when the buffer has to be filled and
\* whatever read(2) gives.
THEOREM LogPeekIsNext == LogSpec => PeekIsNext
<1> DEFINE A == call = "peek" /\ call' = "read" => result' = result
<1>1. LogInv /\ [LogNext]_logVars => [A]_Reader!vars
  <2> SUFFICES ASSUME LogInv, [LogNext]_logVars PROVE A \/ UNCHANGED Reader!vars
    OBVIOUS
  <2>1. CASE Read
    BY <2>1, ReadAfterPeek DEF Read, LogInv, PlayInv
  <2>2. CASE OpenLog
    BY <2>2 DEF OpenLog
  <2>3. CASE Buffer \/ CallDelegatee \/ Kernel \/ UNCHANGED logVars
    BY <2>3 DEF Buffer, CallDelegatee, Kernel, logVars, readerVars, Reader!vars
  <2> QED BY <2>1, <2>2, <2>3 DEF LogNext
<1> QED BY <1>1, InitLogInv, NextLogInv, PTL DEF LogSpec, PeekIsNext, Reader!PeekIsNext
=============================================================================
