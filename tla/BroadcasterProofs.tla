-------------------------- MODULE BroadcasterProofs --------------------------
(***************************************************************************)
(* Theorems about Broadcaster, for any set of listeners.                   *)
(***************************************************************************)
EXTENDS Broadcaster, SequenceTheorems, TLAPS

IInv ==
  /\ TypeOK
  /\ pc = "calling" => alive
  /\ HandlesRegister
  /\ CallsInOrder
  /\ UndefinedExplained

\* The memory behind a vector that push_back has made grow.
LEMMA GrownMemory ==
  ASSUME slots \in Seq(Listener \cup {Garbage}), size = Len(slots),
         NEW l \in Listener, PushBack(l)
  PROVE  /\ slots' \in Seq(Listener \cup {Garbage})
         /\ Len(slots') >= size + 1
         /\ \A k \in 1..size : slots'[k] = slots[k]
         /\ slots'[size + 1] = l
<1> DEFINE n == Grown - size - 1
           old == Append(slots, l)
           new == [k \in 1..n |-> Garbage]
<1>1. n \in Nat
  <2>1. slots = <<>> => Len(slots) = 0
    OBVIOUS
  <2>2. slots # <<>> => Len(slots) # 0
    BY EmptySeq
  <2> QED BY <2>1, <2>2 DEF Grown
<1>2. slots' = old \o new
  <2>1. ~(size < Len(slots))
    OBVIOUS
  <2> QED BY <2>1 DEF PushBack
<1> HIDE DEF n
<1>3. old \in Seq(Listener \cup {Garbage}) /\ Len(old) = size + 1
      /\ (\A k \in 1..size : old[k] = slots[k]) /\ old[size + 1] = l
  OBVIOUS
<1>4. new \in Seq(Listener \cup {Garbage}) /\ Len(new) = n
  <2>1. new \in [1..n -> Listener \cup {Garbage}]
    OBVIOUS
  <2> QED BY <1>1, <2>1
<1> HIDE DEF old, new
<1>5. /\ old \o new \in Seq(Listener \cup {Garbage})
      /\ Len(old \o new) = Len(old) + Len(new)
      /\ \A k \in 1..Len(old) : (old \o new)[k] = old[k]
  BY <1>3, <1>4
<1>6. size \in Nat
  OBVIOUS
<1> QED BY <1>1, <1>2, <1>3, <1>4, <1>5, <1>6

\* Whether it grows or not, push_back leaves the listeners where they are
\* and puts the new one behind them.
LEMMA Pushed ==
  ASSUME TypeOK, NEW l \in Listener, PushBack(l)
  PROVE  /\ slots' \in Seq(Listener \cup {Garbage})
         /\ size' = size + 1 /\ size' \in 0 .. Len(slots')
         /\ \A k \in 1..size : slots'[k] = slots[k]
         /\ slots'[size + 1] = l
<1>1. slots \in Seq(Listener \cup {Garbage}) /\ size \in 0 .. Len(slots)
      /\ size \in Nat /\ size' = size + 1 /\ Len(slots) \in Nat
  BY DEF TypeOK, PushBack
<1>2. CASE size = Len(slots)
  BY <1>1, <1>2, GrownMemory
<1>3. CASE size < Len(slots)
  <2>1. slots' = [slots EXCEPT ![size + 1] = l]
    BY <1>3 DEF PushBack
  <2>2. size + 1 \in 1 .. Len(slots)
    BY <1>1, <1>3
  <2> QED BY <1>1, <2>1, <2>2
<1> QED BY <1>1, <1>2, <1>3

\* A listener that is registered once is taken out and the others keep their
\* order; the ones before it keep their slots.
LEMMA Removed ==
  ASSUME TypeOK, NEW l \in Registered, RemoveListener(l),
         \A j, k \in 1..size : slots[j] = slots[k] => j = k
  PROVE  \E at \in 1..size :
           /\ slots[at] = l
           /\ slots' \in Seq(Listener \cup {Garbage}) /\ Len(slots') = Len(slots)
           /\ size' = size - 1
           /\ \A k \in 1 .. at - 1 : slots'[k] = slots[k]
           /\ \A k \in at .. size - 1 : slots'[k] = slots[k + 1]
           /\ disturbed' = (disturbed \/ (pc = "calling" /\ at <= i))
           /\ pc' = pc
<1> DEFINE at == CHOOSE k \in 1..size : slots[k] = l
<1>1. slots \in Seq(Listener \cup {Garbage}) /\ size \in 0 .. Len(slots)
      /\ size \in Nat /\ Len(slots) \in Nat
  BY DEF TypeOK
<1>2. \E k \in 1..size : slots[k] = l
  BY DEF Registered
<1>3. at \in 1..size /\ slots[at] = l
  BY <1>2
<1>4. /\ slots' = [k \in DOMAIN slots |->
                     IF at <= k /\ k < size THEN slots[k + 1] ELSE slots[k]]
      /\ size' = size - 1
      /\ disturbed' = (disturbed \/ (pc = "calling" /\ at <= i))
      /\ pc' = pc
  BY DEF RemoveListener
<1> HIDE DEF at
<1>5. DOMAIN slots = 1 .. Len(slots)
  BY <1>1
<1>6. ASSUME NEW k \in 1 .. Len(slots)
      PROVE  slots'[k] \in Listener \cup {Garbage}
             /\ slots'[k] = IF at <= k /\ k < size THEN slots[k + 1] ELSE slots[k]
  BY <1>1, <1>3, <1>4, <1>5
<1>7. slots' \in Seq(Listener \cup {Garbage}) /\ Len(slots') = Len(slots)
  <2>1. slots' \in [1 .. Len(slots) -> Listener \cup {Garbage}]
    BY <1>4, <1>5, <1>6
  <2> QED BY <1>1, <2>1
<1>8. \A k \in 1 .. at - 1 : slots'[k] = slots[k]
  BY <1>1, <1>3, <1>6
<1>9. \A k \in at .. size - 1 : slots'[k] = slots[k + 1]
  BY <1>1, <1>3, <1>6
<1> QED BY <1>3, <1>4, <1>7, <1>8, <1>9

LEMMA InitIInv == Init => IInv
<1> SUFFICES ASSUME Init PROVE IInv
  OBVIOUS
<1>1. <<>> \in Seq(Listener \cup {Garbage}) /\ <<>> \in Seq(Listener) /\ Len(<<>>) = 0
  OBVIOUS
<1>2. TypeOK
  <2>1. /\ slots \in Seq(Listener \cup {Garbage}) /\ called \in Seq(Listener)
        /\ size \in 0 .. Len(slots) /\ i \in Nat
    BY <1>1 DEF Init
  <2>2. alive \in BOOLEAN /\ moved \in BOOLEAN /\ disturbed \in BOOLEAN
    BY Zenon DEF Init
  <2>3. handles \subseteq Listener /\ pc \in {"idle", "calling", "aborted", "undefined"}
    BY DEF Init
  <2> QED BY <2>1, <2>2, <2>3 DEF TypeOK
<1>3. HandlesRegister
  <2>1. 1..size = {} /\ handles = {}
    BY DEF Init
  <2>2. Registered = {}
    BY <2>1, Zenon DEF Registered
  <2> QED BY <2>1, <2>2 DEF HandlesRegister
<1> QED BY <1>2, <1>3 DEF Init, IInv, CallsInOrder, UndefinedExplained

\* Sequences that agree on their first n elements.
LEMMA SamePrefix ==
  ASSUME NEW S, NEW s \in Seq(S), NEW t \in Seq(S), NEW n \in Nat,
         n <= Len(s), n <= Len(t), \A k \in 1..n : s[k] = t[k]
  PROVE  SubSeq(s, 1, n) = SubSeq(t, 1, n)
<1>1. /\ SubSeq(s, 1, n) \in Seq(S) /\ Len(SubSeq(s, 1, n)) = n
      /\ \A k \in 1..n : SubSeq(s, 1, n)[k] = s[k]
  OBVIOUS
<1>2. /\ SubSeq(t, 1, n) \in Seq(S) /\ Len(SubSeq(t, 1, n)) = n
      /\ \A k \in 1..n : SubSeq(t, 1, n)[k] = t[k]
  OBVIOUS
<1> QED BY <1>1, <1>2, SeqEqual

\* A prefix grows by the element behind it.
LEMMA PrefixAppend ==
  ASSUME NEW S, NEW s \in Seq(S), NEW n \in Nat, n + 1 <= Len(s)
  PROVE  Append(SubSeq(s, 1, n), s[n + 1]) = SubSeq(s, 1, n + 1)
<1> DEFINE p == SubSeq(s, 1, n)
           q == SubSeq(s, 1, n + 1)
<1>1. p \in Seq(S) /\ Len(p) = n /\ \A k \in 1..n : p[k] = s[k]
  OBVIOUS
<1>2. q \in Seq(S) /\ Len(q) = n + 1 /\ \A k \in 1..(n + 1) : q[k] = s[k]
  OBVIOUS
<1>3. s[n + 1] \in S
  OBVIOUS
<1> HIDE DEF p, q
<1>4. /\ Append(p, s[n + 1]) \in Seq(S) /\ Len(Append(p, s[n + 1])) = n + 1
      /\ \A k \in 1..(n + 1) : Append(p, s[n + 1])[k] = s[k]
  BY <1>1, <1>3
<1>5. Append(p, s[n + 1]) = q
  BY <1>2, <1>4, SeqEqual
<1> QED BY <1>5 DEF p, q

\* One step of the loop of Broadcast, from its start or from a callback.
LEMMA VisitKeeps ==
  ASSUME IInv, alive, pc \in {"idle", "calling"},
         NEW n \in Nat, NEW before \in Seq(Listener), Visit(n + 1, before),
         moved' \in BOOLEAN, disturbed' \in BOOLEAN,
         ~moved' /\ ~disturbed' => n \in 0..size /\ before = SubSeq(slots, 1, n)
  PROVE  IInv'
<1>0. /\ slots \in Seq(Listener \cup {Garbage}) /\ size \in 0 .. Len(slots)
      /\ size \in Nat /\ Len(slots) \in Nat /\ handles \subseteq Listener
      /\ Registered = handles
      /\ \A j, k \in 1..size : slots[j] = slots[k] => j = k
  BY DEF IInv, TypeOK, HandlesRegister
<1>1. /\ i' = n + 1 /\ UNCHANGED <<slots, size, handles, alive>>
      /\ pc' \in {"idle", "calling", "undefined"}
  BY DEF Visit
<1>2. called' \in Seq(Listener)
  <2>1. CASE ~moved' /\ n + 1 = size + 1
    BY <2>1 DEF Visit
  <2>2. CASE /\ ~(~moved' /\ n + 1 = size + 1)
             /\ ~moved' /\ n + 1 \in DOMAIN slots /\ slots[n + 1] # Garbage
    <3>1. called' = Append(before, slots[n + 1])
      BY <2>2 DEF Visit
    <3>2. slots[n + 1] \in Listener
      BY <1>0, <2>2
    <3> QED BY <3>1, <3>2
  <2>3. CASE /\ ~(~moved' /\ n + 1 = size + 1)
             /\ ~(~moved' /\ n + 1 \in DOMAIN slots /\ slots[n + 1] # Garbage)
    BY <2>3 DEF Visit
  <2> QED BY <2>1, <2>2, <2>3
<1>3. TypeOK'
  BY <1>0, <1>1, <1>2 DEF IInv, TypeOK
<1>4. HandlesRegister'
  BY <1>0, <1>1 DEF HandlesRegister, Registered
<1>5. ASSUME ~moved', ~disturbed'
      PROVE  \/ pc' = "idle"
             \/ /\ pc' = "calling" /\ n + 1 \in 1..size
                /\ called' = SubSeq(slots, 1, n + 1)
  <2>1. n \in 0..size /\ before = SubSeq(slots, 1, n)
    BY <1>5
  <2>2. CASE n = size
    BY <1>5, <2>2 DEF Visit
  <2>3. CASE n # size
    <3>1. n + 1 \in 1..size /\ n + 1 <= Len(slots) /\ n + 1 \in DOMAIN slots
          /\ n + 1 # size + 1
      BY <1>0, <2>1, <2>3
    <3>2. slots[n + 1] \in Listener
      BY <1>0, <3>1 DEF Registered
    <3>3. slots[n + 1] # Garbage
      BY <3>2, GarbageAssumption
    <3>4. pc' = "calling" /\ called' = Append(before, slots[n + 1])
      BY <1>5, <3>1, <3>3 DEF Visit
    <3>5. called' = SubSeq(slots, 1, n + 1)
      BY <1>0, <2>1, <3>1, <3>4, PrefixAppend
    <3> QED BY <3>1, <3>4, <3>5
  <2> QED BY <2>2, <2>3
<1>6. CallsInOrder' /\ UndefinedExplained'
  BY <1>1, <1>5 DEF CallsInOrder, UndefinedExplained
<1> QED BY <1>1, <1>3, <1>4, <1>6 DEF IInv

LEMMA NextIInv == IInv /\ [Next]_vars => IInv'
<1> SUFFICES ASSUME IInv, [Next]_vars PROVE IInv'
  OBVIOUS
<1>0. /\ slots \in Seq(Listener \cup {Garbage}) /\ size \in 0 .. Len(slots)
      /\ size \in Nat /\ Len(slots) \in Nat /\ handles \subseteq Listener
      /\ i \in Nat /\ called \in Seq(Listener) /\ TypeOK
      /\ moved \in BOOLEAN /\ disturbed \in BOOLEAN /\ alive \in BOOLEAN
      /\ pc \in {"idle", "calling", "aborted", "undefined"}
  BY DEF IInv, TypeOK
<1>1. ASSUME NEW l \in Listener, AddListener(l) PROVE IInv'
  <2>1. /\ alive /\ pc \in {"idle", "calling"} /\ l \notin Registered /\ PushBack(l)
        /\ handles' = handles \cup {l} /\ UNCHANGED <<alive, pc, i, called, disturbed>>
        /\ moved' = (moved \/ (pc = "calling" /\ size = Len(slots)))
    BY <1>1 DEF AddListener, CallerRuns, PushBack
  <2>2. /\ slots' \in Seq(Listener \cup {Garbage})
        /\ size' = size + 1 /\ size' \in 0 .. Len(slots')
        /\ \A k \in 1..size : slots'[k] = slots[k]
        /\ slots'[size + 1] = l
    BY <1>0, <2>1, Pushed
  <2>3. Registered = handles /\ \A j, k \in 1..size : slots[j] = slots[k] => j = k
    BY <2>1 DEF IInv, HandlesRegister
  <2>4. HandlesRegister'
    <3>1. Registered' = Registered \cup {l}
      <4>1. 1 .. size + 1 = (1..size) \cup {size + 1}
        BY <1>0
      <4> QED BY <2>2, <4>1 DEF Registered
    <3>2. ASSUME NEW j \in 1 .. size + 1, NEW k \in 1 .. size + 1, slots'[j] = slots'[k]
          PROVE  j = k
      <4>1. \A m \in 1..size : slots'[m] # l
        BY <2>1, <2>2 DEF Registered
      <4>2. CASE j \in 1..size /\ k \in 1..size
        BY <2>2, <2>3, <3>2, <4>2
      <4>3. CASE j = size + 1 \/ k = size + 1
        BY <1>0, <2>2, <3>2, <4>1, <4>3
      <4> QED BY <1>0, <4>2, <4>3
    <3> QED BY <2>1, <2>2, <2>3, <3>1, <3>2 DEF HandlesRegister
  <2>5. CallsInOrder'
    <3> SUFFICES ASSUME pc' = "calling", ~moved', ~disturbed'
                 PROVE  i' \in 1..size' /\ called' = SubSeq(slots', 1, i')
      BY DEF CallsInOrder
    <3>1. i \in 1..size /\ called = SubSeq(slots, 1, i)
      BY <2>1 DEF IInv, CallsInOrder
    <3>2. SubSeq(slots', 1, i) = SubSeq(slots, 1, i)
      BY <1>0, <2>2, <3>1, SamePrefix
    <3> QED BY <1>0, <2>1, <2>2, <3>1, <3>2
  <2>6. TypeOK'
    BY <1>0, <2>1, <2>2 DEF TypeOK
  <2> QED BY <2>1, <2>4, <2>5, <2>6 DEF IInv, UndefinedExplained
<1>2. ASSUME NEW l \in Listener, DropHandle(l) PROVE IInv'
  <2>1. /\ alive /\ pc \in {"idle", "calling"} /\ l \in handles /\ RemoveListener(l)
        /\ handles' = handles \ {l} /\ UNCHANGED <<alive, i, called, moved>>
    BY <1>2 DEF DropHandle, CallerRuns
  <2>2. Registered = handles /\ \A j, k \in 1..size : slots[j] = slots[k] => j = k
    BY <2>1 DEF IInv, HandlesRegister
  <2>3. PICK at \in 1..size :
           /\ slots[at] = l
           /\ slots' \in Seq(Listener \cup {Garbage}) /\ Len(slots') = Len(slots)
           /\ size' = size - 1
           /\ \A k \in 1 .. at - 1 : slots'[k] = slots[k]
           /\ \A k \in at .. size - 1 : slots'[k] = slots[k + 1]
           /\ disturbed' = (disturbed \/ (pc = "calling" /\ at <= i))
           /\ pc' = pc
    BY <1>0, <2>1, <2>2, Removed
  <2>4. HandlesRegister'
    <3> DEFINE from(k) == IF k < at THEN k ELSE k + 1
    <3>1. \A k \in 1 .. size - 1 : from(k) \in 1..size /\ from(k) # at
                                   /\ slots'[k] = slots[from(k)]
      BY <1>0, <2>3
    <3>2. \A j, k \in 1 .. size - 1 : from(j) = from(k) => j = k
      BY <1>0, <2>3
    <3>3. \A m \in 1..size : m # at => \E k \in 1 .. size - 1 : from(k) = m
      <4> SUFFICES ASSUME NEW m \in 1..size, m # at
                   PROVE  \E k \in 1 .. size - 1 : from(k) = m
        OBVIOUS
      <4>1. CASE m < at
        BY <1>0, <2>3, <4>1
      <4>2. CASE m > at
        <5>1. m - 1 \in 1 .. size - 1 /\ from(m - 1) = m
          BY <1>0, <2>3, <4>2
        <5> QED BY <5>1
      <4> QED BY <1>0, <2>3, <4>1, <4>2
    <3> HIDE DEF from
    <3>4. Registered' = Registered \ {l}
      <4>1. Registered' = {slots'[k] : k \in 1 .. size - 1}
        BY <2>3 DEF Registered
      <4>2. ASSUME NEW k \in 1 .. size - 1 PROVE slots'[k] \in Registered \ {l}
        BY <2>2, <2>3, <3>1 DEF Registered
      <4>3. ASSUME NEW y \in Registered \ {l}
            PROVE  \E k \in 1 .. size - 1 : y = slots'[k]
        <5>1. PICK m \in 1..size : y = slots[m] /\ m # at
          BY <2>3, <4>3 DEF Registered
        <5> QED BY <3>1, <3>3, <5>1
      <4> QED BY <4>1, <4>2, <4>3
    <3>5. \A j, k \in 1 .. size - 1 : slots'[j] = slots'[k] => j = k
      BY <2>2, <3>1, <3>2
    <3> QED BY <2>1, <2>2, <2>3, <3>4, <3>5 DEF HandlesRegister
  <2>5. CallsInOrder'
    <3> SUFFICES ASSUME pc' = "calling", ~moved', ~disturbed'
                 PROVE  i' \in 1..size' /\ called' = SubSeq(slots', 1, i')
      BY DEF CallsInOrder
    <3>0. pc = "calling" /\ ~moved /\ ~disturbed /\ ~(at <= i)
      BY <2>1, <2>3, Zenon
    <3>1. i \in 1..size /\ called = SubSeq(slots, 1, i) /\ i < at
      BY <1>0, <2>3, <3>0 DEF IInv, CallsInOrder
    <3>2. \A k \in 1..i : slots'[k] = slots[k]
      BY <1>0, <2>3, <3>1
    <3>3. SubSeq(slots', 1, i) = SubSeq(slots, 1, i)
      BY <1>0, <2>3, <3>1, <3>2, SamePrefix
    <3> QED BY <1>0, <2>1, <2>3, <3>1, <3>3
  <2>6. TypeOK'
    BY <1>0, <2>1, <2>3 DEF TypeOK
  <2> QED BY <2>1, <2>3, <2>4, <2>5, <2>6 DEF IInv, UndefinedExplained
<1>3. ASSUME NEW l \in Listener, DropLateHandle(l) PROVE IInv'
  BY <1>0, <1>3 DEF DropLateHandle, IInv, TypeOK, HandlesRegister, CallsInOrder,
                    UndefinedExplained
<1>4. CASE AddListenerRefused
  BY <1>0, <1>4 DEF AddListenerRefused, CallerRuns, IInv, TypeOK, HandlesRegister,
                    Registered, CallsInOrder, UndefinedExplained
<1>5. CASE DestroyBroadcaster
  BY <1>0, <1>5 DEF DestroyBroadcaster, IInv, TypeOK, HandlesRegister, CallsInOrder,
                    UndefinedExplained
<1>6. CASE Broadcast
  <2>1. alive /\ pc = "idle" /\ moved' = FALSE /\ disturbed' = FALSE
        /\ Visit(0 + 1, <<>>)
    BY <1>6 DEF Broadcast
  <2>2. <<>> \in Seq(Listener) /\ 0 \in 0..size /\ <<>> = SubSeq(slots, 1, 0)
    BY <1>0
  <2> QED BY <2>1, <2>2, VisitKeeps
<1>7. CASE CallbackReturns
  <2>1. pc = "calling" /\ alive /\ UNCHANGED <<moved, disturbed>>
        /\ Visit(i + 1, called)
    BY <1>7 DEF CallbackReturns, IInv
  <2>2. ~moved' /\ ~disturbed' => i \in 0..size /\ called = SubSeq(slots, 1, i)
    BY <1>0, <2>1 DEF IInv, CallsInOrder
  <2> QED BY <1>0, <2>1, <2>2, VisitKeeps
<1>8. CASE UNCHANGED vars
  BY <1>8 DEF vars, IInv, TypeOK, HandlesRegister, Registered, CallsInOrder,
              UndefinedExplained
<1> QED BY <1>1, <1>2, <1>3, <1>4, <1>5, <1>6, <1>7, <1>8 DEF Next

\* The vector stays within its memory.
THEOREM BroadcasterTypeCorrect == Spec => []TypeOK
BY InitIInv, NextIInv, PTL DEF Spec, IInv

\* For any number of listeners, registered and removed in any order, inside
\* callbacks and outside: a listener is in the vector, once, exactly as long
\* as its handle exists, so that RemoveListener always finds it.
THEOREM BroadcasterHandlesRegister == Spec => []HandlesRegister
BY InitIInv, NextIInv, PTL DEF Spec, IInv

\* Nobody is skipped, called twice or called after its removal as long as
\* callbacks leave alone what has been called and do not outgrow the vector.
THEOREM BroadcasterCallsInOrder == Spec => []CallsInOrder
BY InitIInv, NextIInv, PTL DEF Spec, IInv

\* Broadcast goes astray only after such a removal or such growth.
THEOREM BroadcasterUndefinedExplained == Spec => []UndefinedExplained
BY InitIInv, NextIInv, PTL DEF Spec, IInv

LEMMA AllCalledStep ==
  ASSUME IInv, [Next]_vars, pc = "calling", pc' = "idle", ~disturbed
  PROVE  called = listeners_
<1>1. CallbackReturns
  <2>1. ASSUME NEW l \in Listener, RemoveListener(l) PROVE FALSE
    BY <2>1 DEF RemoveListener
  <2> QED BY <2>1 DEF Next, vars, AddListener, DropHandle, DropLateHandle,
                      AddListenerRefused, DestroyBroadcaster, Broadcast
<1>2. ~moved /\ i + 1 = size + 1
  BY <1>1 DEF CallbackReturns, Visit
<1>3. i \in Nat /\ size \in Nat /\ called = SubSeq(slots, 1, i)
  BY <1>2 DEF IInv, TypeOK, CallsInOrder
<1>4. i = size
  BY <1>2, <1>3
<1> QED BY <1>3, <1>4 DEF listeners_

\* Every broadcast that was not disturbed has called all listeners that are
\* registered when it ends.
THEOREM BroadcasterAllCalled == Spec => AllCalled
<1>1. IInv /\ [Next]_vars
        => [pc = "calling" /\ pc' = "idle" /\ ~disturbed => called = listeners_]_vars
  BY AllCalledStep
<1> QED BY <1>1, InitIInv, NextIInv, PTL DEF Spec, AllCalled
=============================================================================
