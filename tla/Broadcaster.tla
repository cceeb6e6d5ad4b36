---------------------------- MODULE Broadcaster ----------------------------
(***************************************************************************)
(* Broadcaster and the handles it gives out (src/base/broadcaster.h), the  *)
(* way NetlinkMonitor and TunInterface reach their listeners.  listeners_  *)
(* is a vector of plain pointers and Broadcast walks over it with a plain  *)
(* iterator while the callbacks run, which may register listeners or drop  *)
(* handles.  The vector is modelled as it lies in memory: its slots, the   *)
(* ones behind size included, which keep what they held.                   *)
(***************************************************************************)
EXTENDS Naturals, Sequences

CONSTANTS
  Listener,
  Garbage    \* what a slot holds before it is first written

ASSUME GarbageAssumption == Garbage \notin Listener

VARIABLES
  slots,      \* the memory of listeners_; its length is the capacity
  size,
  handles,    \* the listeners whose ListenerHandle still exists
  alive,      \* the Broadcaster still exists
  pc,         \* "idle", "calling", "aborted", or "undefined"
  i,          \* in Broadcast: the slot whose listener is being called
  called,     \* history: the listeners called in this broadcast
  moved,      \* in Broadcast: a callback has made the vector move, and i
              \* points into memory that has been given back
  disturbed   \* history: a callback of this broadcast has removed a listener
              \* that had been called

vars == <<slots, size, handles, alive, pc, i, called, moved, disturbed>>

Init ==
  /\ slots = <<>>
  /\ size = 0
  /\ handles = {}
  /\ alive = TRUE
  /\ pc = "idle"
  /\ i = 0
  /\ called = <<>>
  /\ moved = FALSE
  /\ disturbed = FALSE

listeners_ == SubSeq(slots, 1, size)
Registered == {slots[k] : k \in 1..size}

\* Code outside the Broadcaster runs: between broadcasts or in a callback.
CallerRuns == alive /\ pc \in {"idle", "calling"}

\* Faulty variant: the listener goes to the front.
PushFront(l) ==
  /\ slots' = <<l>> \o slots
  /\ size' = size + 1
  /\ moved' = moved

\* push_back doubles the capacity of a full vector.
Grown == IF slots = <<>> THEN 1 ELSE 2 * Len(slots)
PushBack(l) ==
  /\ slots' = IF size < Len(slots)
              THEN [slots EXCEPT ![size + 1] = l]
              ELSE Append(slots, l) \o [k \in 1 .. Grown - size - 1 |-> Garbage]
  /\ size' = size + 1
  /\ moved' = (moved \/ (pc = "calling" /\ size = Len(slots)))

\* Faulty variant: nothing keeps a listener from being registered twice.
AddListenerAgain(l) ==
  /\ CallerRuns
  /\ PushBack(l)
  /\ handles' = handles \cup {l}
  /\ UNCHANGED <<alive, pc, i, called, disturbed>>

AddListener(l) ==
  /\ CallerRuns
  /\ l \notin Registered
  /\ PushBack(l)
  /\ handles' = handles \cup {l}
  /\ UNCHANGED <<alive, pc, i, called, disturbed>>

\* CheckNotNull (of any caller's NULL) and the assertion that listener is
\* not registered yet end the process.
AddListenerRefused ==
  /\ CallerRuns
  /\ pc' = "aborted"
  /\ UNCHANGED <<slots, size, handles, alive, i, called, moved, disturbed>>

\* remove moves the listeners behind l one slot down; erase then shortens
\* the vector by one, and the slot behind it keeps what it held.  erase of
\* end(), when l is not there, is undefined.
RemoveListener(l) ==
  LET at == CHOOSE k \in 1..size : slots[k] = l
  IN  IF l \in Registered
      THEN /\ slots' = [k \in DOMAIN slots |->
                          IF at <= k /\ k < size THEN slots[k + 1] ELSE slots[k]]
           /\ size' = size - 1
           /\ disturbed' = (disturbed \/ (pc = "calling" /\ at <= i))
           /\ UNCHANGED pc
      ELSE pc' = "undefined" /\ UNCHANGED <<slots, size, disturbed>>

\* ~MyListenerHandle, while broadcaster_.lock() finds the Broadcaster ...
DropHandle(l) ==
  /\ CallerRuns
  /\ l \in handles
  /\ RemoveListener(l)
  /\ handles' = handles \ {l}
  /\ UNCHANGED <<alive, i, called, moved>>

\* ... and when it does not.
DropLateHandle(l) ==
  /\ ~alive
  /\ l \in handles
  /\ handles' = handles \ {l}
  /\ UNCHANGED <<slots, size, alive, pc, i, called, moved, disturbed>>

\* The owner of the Broadcaster (a NetlinkMonitor, a TunInterface) is gone.
DestroyBroadcaster ==
  /\ alive
  /\ pc = "idle"
  /\ alive' = FALSE
  /\ UNCHANGED <<slots, size, handles, pc, i, called, moved, disturbed>>

\* Faulty variant: the iterator is stopped one listener too late.
VisitOneMore(k, before) ==
  /\ i' = k
  /\ IF ~moved' /\ k = size + 2
     THEN pc' = "idle" /\ called' = <<>>
     ELSE IF ~moved' /\ k \in DOMAIN slots /\ slots[k] # Garbage
     THEN pc' = "calling" /\ called' = Append(before, slots[k])
     ELSE pc' = "undefined" /\ called' = before
  /\ UNCHANGED <<slots, size, handles, alive>>

\* Faulty variant: the last listener is left out.
VisitOneLess(k, before) ==
  /\ i' = k
  /\ IF ~moved' /\ k >= size
     THEN pc' = "idle" /\ called' = <<>>
     ELSE IF ~moved' /\ k \in DOMAIN slots /\ slots[k] # Garbage
     THEN pc' = "calling" /\ called' = Append(before, slots[k])
     ELSE pc' = "undefined" /\ called' = before
  /\ UNCHANGED <<slots, size, handles, alive>>

\* i is compared with end(), as it is now, and the listener is called.  An
\* iterator that has passed end() goes on through the memory behind it, and
\* one whose vector has moved may find anything.
Visit(k, before) ==
  /\ i' = k
  /\ IF ~moved' /\ k = size + 1
     THEN pc' = "idle" /\ called' = <<>>
     ELSE IF ~moved' /\ k \in DOMAIN slots /\ slots[k] # Garbage
     THEN pc' = "calling" /\ called' = Append(before, slots[k])
     ELSE pc' = "undefined" /\ called' = before
  /\ UNCHANGED <<slots, size, handles, alive>>

Broadcast ==
  /\ alive
  /\ pc = "idle"
  /\ moved' = FALSE
  /\ disturbed' = FALSE
  /\ Visit(1, <<>>)

\* i++, and the next round of the loop.
CallbackReturns ==
  /\ pc = "calling"
  /\ UNCHANGED <<moved, disturbed>>
  /\ Visit(i + 1, called)

Next ==
  \/ \E l \in Listener : AddListener(l) \/ DropHandle(l) \/ DropLateHandle(l)
  \/ AddListenerRefused
  \/ DestroyBroadcaster
  \/ Broadcast \/ CallbackReturns

Spec == Init /\ [][Next]_vars

(***************************************************************************)
(* Properties.                                                             *)
(***************************************************************************)
\* Every variable has its type, and the vector its size within its memory.
TypeOK ==
  /\ slots \in Seq(Listener \cup {Garbage})
  /\ size \in 0 .. Len(slots)
  /\ handles \subseteq Listener
  /\ alive \in BOOLEAN /\ moved \in BOOLEAN /\ disturbed \in BOOLEAN
  /\ pc \in {"idle", "calling", "aborted", "undefined"}
  /\ i \in Nat
  /\ called \in Seq(Listener)

\* A listener is registered exactly as long as its handle exists, and once,
\* in whatever order handles are given out and dropped, from callbacks too:
\* RemoveListener always finds its listener and takes out no other.
HandlesRegister ==
  alive /\ pc # "undefined" =>
    /\ Registered = handles
    /\ \A j, k \in 1..size : slots[j] = slots[k] => j = k

\* As long as callbacks remove only listeners that are still to be called,
\* and register only as many as the vector has room for, the listeners that
\* have been called are the first ones that are registered: none is skipped,
\* called twice or called although it was removed before its turn, and one
\* that is added is called last, in the same broadcast.
CallsInOrder ==
  pc = "calling" /\ ~moved /\ ~disturbed =>
    /\ i \in 1..size
    /\ called = SubSeq(slots, 1, i)

\* A broadcast that ends without such a removal has called every listener
\* that is registered when it ends.
AllCalled ==
  [][pc = "calling" /\ pc' = "idle" /\ ~disturbed => called = listeners_]_vars

\* A broadcast goes astray (past the end of the vector or into memory that
\* was given back) only if a callback removed a listener that had already
\* been called, or registered one for which there was no room.
UndefinedExplained == pc = "undefined" => moved \/ disturbed
=============================================================================
