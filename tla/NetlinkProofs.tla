---------------------------- MODULE NetlinkProofs ----------------------------
(***************************************************************************)
(* Theorems about NetlinkMonitor, alone and with InterfaceActivator.       *)
(***************************************************************************)
EXTENDS InterfaceActivator, SequenceTheorems, TLAPS

(***************************************************************************)
(* The inductive invariant behind NeverBusy and AnswersInOrder.            *)
(***************************************************************************)
\* The places of the answers in a sequence of messages.
Acks(s) == {k \in DOMAIN s : IsAck(s[k])}

\* A query is with the kernel, or its answer is on the way.
Waiting == Dumping \/ Acks(sock) # {} \/ Acks(datagram) # {}

\* The one answer in s, if any, is to the oldest unanswered query.
OnlyAck(s) ==
  \A k \in Acks(s) : /\ s[k].seq = last_received_seq + 1
                     /\ s[k].errno # "EBUSY"
                     /\ \A l \in Acks(s) : l = k

\* At most one query is out, and it is the oldest one unanswered.
OneQuery ==
  /\ Dumping => Acks(sock) = {} /\ Acks(datagram) = {}
                  /\ dump.seq = last_received_seq + 1
  /\ Acks(sock) = {} \/ Acks(datagram) = {}
  /\ OnlyAck(sock)
  /\ OnlyAck(datagram)

\* The rest are in the queue, in order; while none is out the queue is being
\* flushed or there is nothing left to ask.
QueueInv ==
  /\ Waiting =>
       /\ sequence_number = last_received_seq + 1 + Len(unsent_messages)
       /\ pc \in Reading => old_last_received_seq = last_received_seq
  /\ ~Waiting =>
       /\ sequence_number = last_received_seq + Len(unsent_messages)
       /\ unsent_messages # <<>> =>
            /\ pc \in Reading \cup {"aborted", "refused"}
            /\ last_received_seq = old_last_received_seq + 1
  /\ \A j \in DOMAIN unsent_messages :
       unsent_messages[j].seq = sequence_number - Len(unsent_messages) + j

\* The datagram holds a message where HandleRead looks at one, and only there.
DatagramInv ==
  /\ pc \notin {"aborted", "refused"} => (datagram # <<>> <=> pc \in Reading \ {"flush"})
  /\ pc \in {"created", "address", "flags"} => IsLink(Head(datagram))
  /\ pc \in {"created", "address"} =>
       /\ event.index = Head(datagram).index
       /\ event.info.name = Head(datagram).name
       /\ event.info.name # NoName

(***************************************************************************)
(* The inductive invariant behind CaughtUp.  For every fact the monitor    *)
(* keeps (an address of an interface, a link's state, its existence) the   *)
(* last message on its way to HandleRead that speaks of it tells the truth *)
(* about the kernel; if none does, the table already agrees, or misses     *)
(* something that a dump has still to report.  An IPv4 address shares its  *)
(* fate with those the table takes for it, so that the last word about     *)
(* any of them counts (KeyKnown).                                          *)
(***************************************************************************)
\* The messages that HandleRead has not finished with.
Coming == datagram \o sock

\* No message of s is in B; the message at place k is the last that is.
Silent(s, B) == \A k \in DOMAIN s : s[k] \notin B
LastWord(s, B, k) == s[k] \in B /\ \A l \in DOMAIN s : l > k => s[l] \notin B

AboutAddr(i, a) == {m \in AddrMsg : m.index = i /\ m.addr = a}
\* Addresses that the table takes for one another.
Rivals(a, b) == a = b \/ (a \in Ip4Info /\ b \in Ip4Info /\ SameAddress(a, b))
AboutKey(i, a) == {m \in AddrMsg : m.index = i /\ Rivals(a, m.addr)}
AboutLink(i) == {m \in LinkMsg : m.index = i}
NamesLink(i) == {m \in AboutLink(i) : m.name # NoName}

\* The queries that Init has still to make when it is at place p.
ToAsk(p) == CASE p \in {"down", "link"} -> {"link", "inet", "inet6"}
              [] p = "inet"  -> {"inet", "inet6"}
              [] p = "inet6" -> {"inet6"}
              [] OTHER -> {}

\* The answer to the query of this kind may still report entry e, or the
\* query has failed.
Awaited(kind, e) ==
  \/ kind \in ToAsk(pc)
  \/ \E j \in DOMAIN unsent_messages : unsent_messages[j].kind = kind
  \/ dump.kind = kind /\ e \in dump.todo
  \/ kind \in failed

LinkEntry(i) == [index |-> i, addr |-> NoAddr]
AddrEntry(i, a) == [index |-> i, addr |-> a]
KindOf(a) == IF a \in Ip4Info THEN "inet" ELSE "inet6"

\* The kernel has, and the table holds, address a of interface i.
Has(i, a) == a \in dev[i].ip4 \cup dev[i].ip6
Holds(i, a) ==
  a \in interfaces_by_index[i].ip4_addresses \cup interfaces_by_index[i].ip6_addresses

\* No other address of the device was ever taken for a.
Lone(i, a) == a \in Ip6Address \/ ~dev[i].clashed

AddrKnown(i, a) ==
  /\ \A k \in DOMAIN Coming : LastWord(Coming, AboutAddr(i, a), k) =>
       (Coming[k].type = "RTM_NEWADDR" <=> Has(i, a))
  /\ Silent(Coming, AboutAddr(i, a)) => (Holds(i, a) => Has(i, a))

KeyKnown(i, a) ==
  Lone(i, a) /\ Has(i, a) =>
    /\ \A k \in DOMAIN Coming : LastWord(Coming, AboutKey(i, a), k) =>
         Coming[k].type = "RTM_NEWADDR" /\ Coming[k].addr = a
    /\ Silent(Coming, AboutKey(i, a)) =>
         Holds(i, a) \/ Awaited(KindOf(a), AddrEntry(i, a))

LinkKnown(i) ==
  /\ \A k \in DOMAIN Coming : LastWord(Coming, AboutLink(i), k) =>
       Coming[k].up = dev[i].up
  /\ Silent(Coming, AboutLink(i)) =>
       /\ interfaces_by_index[i].link_active => dev[i].up
       /\ dev[i].up => \/ interfaces_by_index[i].link_active
                       \/ Awaited("link", LinkEntry(i))

NameKnown(i) ==
  dev[i].state = "present" => \/ interfaces_by_index[i].is_public
                              \/ ~Silent(Coming, NamesLink(i))
                              \/ Awaited("link", LinkEntry(i))

\* Once the socket is bound nothing can be lost but to an overrun.
KnownInv ==
  subscribed /\ ~overrun =>
    \A i \in Index : /\ LinkKnown(i)
                     /\ NameKnown(i)
                     /\ \A a \in Ip4Info \cup Ip6Address :
                          AddrKnown(i, a) /\ KeyKnown(i, a)

\* A device that is not there has no state; one that is has a name.  Two
\* addresses with one key leave a mark.
GoodDevice(d) ==
  /\ IF d.state = "present" THEN d.name # NoName
     ELSE ~d.up /\ d.ip4 = {} /\ d.ip6 = {}
  /\ d.state = "unborn" => d.name = NoName /\ ~d.renamed /\ ~d.clashed
  /\ ~d.clashed => \A a, b \in d.ip4 : SameAddress(a, b) => a = b

DevInv == \A i \in Index : GoodDevice(dev[i])

\* Whoever speaks of a device that keeps its name calls it by that name.
NameRight(i) ==
  \/ dev[i].renamed
  \/ /\ \A k \in DOMAIN Coming :
          Coming[k] \in NamesLink(i) => Coming[k].name = dev[i].name
     /\ interfaces_by_index[i].is_public =>
          /\ interfaces_by_index[i].name = dev[i].name
          /\ dev[i].name # NoName

NamesInv == \A i \in Index : NameRight(i)

\* Before Bind nothing has happened; from then on every change is notified.
StartInv ==
  /\ subscribed <=> pc # "down"
  /\ pc = "down" =>
       /\ sock = <<>> /\ datagram = <<>> /\ dump = NoDump
       /\ interfaces_by_index = [i \in Index |-> Listener!NewInterfaceInfo]

\* Once a message has announced an interface it is public.
PublicInv ==
  pc \in {"created", "address", "flags"} =>
    interfaces_by_index[Head(datagram).index].is_public

CaughtUpInv == KnownInv /\ DevInv /\ NamesInv /\ StartInv /\ PublicInv

(***************************************************************************)
(* Messages and sequences of messages.                                     *)
(***************************************************************************)
\* The type of a message tells its format.
LEMMA MsgCases ==
  ASSUME NEW m \in Msg
  PROVE  /\ IsLink(m) => m \in LinkMsg /\ ~IsAddr(m) /\ ~IsAck(m)
         /\ IsAddr(m) => m \in AddrMsg /\ ~IsAck(m)
         /\ IsAck(m) => m \in AckMsg
BY DEF Msg, LinkMsg, AddrMsg, AckMsg, IsLink, IsAddr, IsAck

LEMMA AppendOther ==
  ASSUME NEW s \in Seq(Msg), NEW m \in Msg, ~IsAck(m)
  PROVE  /\ Append(s, m) \in Seq(Msg)
         /\ Acks(Append(s, m)) = Acks(s)
         /\ \A k \in Acks(s) : Append(s, m)[k] = s[k]
BY DEF Acks

LEMMA AppendAck ==
  ASSUME NEW s \in Seq(Msg), NEW m \in Msg, IsAck(m), Acks(s) = {}
  PROVE  /\ Append(s, m) \in Seq(Msg)
         /\ Acks(Append(s, m)) # {}
         /\ \A k \in Acks(Append(s, m)) :
              k = Len(s) + 1 /\ Append(s, m)[k] = m
BY DEF Acks

LEMMA TailOther ==
  ASSUME NEW s \in Seq(Msg), s # <<>>
  PROVE  /\ Tail(s) \in Seq(Msg)
         /\ Head(s) \in Msg
         /\ ~IsAck(Head(s)) /\ Acks(s) # {} => Acks(Tail(s)) # {}
         /\ \A k \in Acks(Tail(s)) : k + 1 \in Acks(s) /\ Tail(s)[k] = s[k + 1]
         /\ IsAck(Head(s)) => 1 \in Acks(s) /\ s[1] = Head(s)
<1>1. /\ Tail(s) \in Seq(Msg) /\ Len(s) >= 1 /\ Len(Tail(s)) = Len(s) - 1
      /\ Head(s) = s[1] /\ s[1] \in Msg
      /\ \A k \in 1..(Len(s) - 1) : Tail(s)[k] = s[k + 1]
  OBVIOUS
<1>2. \A k \in Acks(Tail(s)) : k + 1 \in Acks(s) /\ Tail(s)[k] = s[k + 1]
  BY <1>1 DEF Acks
<1>3. ASSUME ~IsAck(Head(s)), NEW k \in Acks(s)
      PROVE  Acks(Tail(s)) # {}
  <2>1. k \in 2..Len(s) /\ IsAck(s[k])
    BY <1>1, <1>3 DEF Acks
  <2>2. k - 1 \in 1..Len(Tail(s)) /\ Tail(s)[k - 1] = s[k]
    BY <1>1, <2>1
  <2> QED BY <1>1, <2>1, <2>2 DEF Acks
<1>4. IsAck(Head(s)) => 1 \in Acks(s) /\ s[1] = Head(s)
  BY <1>1 DEF Acks
<1> QED BY <1>1, <1>2, <1>3, <1>4

\* Cutting the first n messages off.
LEMMA Split ==
  ASSUME NEW s \in Seq(Msg), NEW n \in 1..Len(s)
  PROVE  \A t, u :
           t = SubSeq(s, 1, n) /\ u = SubSeq(s, n + 1, Len(s)) =>
             /\ t \in Seq(Msg) /\ t # <<>>
             /\ u \in Seq(Msg)
             /\ \A k \in Acks(t) : k \in Acks(s) /\ k <= n /\ t[k] = s[k]
             /\ \A k \in Acks(u) : k + n \in Acks(s) /\ u[k] = s[k + n]
             /\ Acks(s) # {} => Acks(t) # {} \/ Acks(u) # {}
<1> SUFFICES
      ASSUME NEW t, NEW u, t = SubSeq(s, 1, n), u = SubSeq(s, n + 1, Len(s))
      PROVE  /\ t \in Seq(Msg) /\ t # <<>>
             /\ u \in Seq(Msg)
             /\ \A k \in Acks(t) : k \in Acks(s) /\ k <= n /\ t[k] = s[k]
             /\ \A k \in Acks(u) : k + n \in Acks(s) /\ u[k] = s[k + n]
             /\ Acks(s) # {} => Acks(t) # {} \/ Acks(u) # {}
  OBVIOUS
<1>1. /\ t \in Seq(Msg) /\ Len(t) = n
      /\ \A k \in 1..n : t[k] = s[k]
  OBVIOUS
<1>2. /\ u \in Seq(Msg) /\ Len(u) = Len(s) - n
      /\ \A k \in 1..(Len(s) - n) : u[k] = s[k + n]
  OBVIOUS
<1>3. \A k \in Acks(t) : k \in Acks(s) /\ k <= n /\ t[k] = s[k]
  BY <1>1 DEF Acks
<1>4. \A k \in Acks(u) : k + n \in Acks(s) /\ u[k] = s[k + n]
  BY <1>2 DEF Acks
<1>5. ASSUME NEW k \in Acks(s)
      PROVE  Acks(t) # {} \/ Acks(u) # {}
  <2>1. CASE k <= n
    BY <1>1, <2>1 DEF Acks
  <2>2. CASE k > n
    <3>1. k - n \in 1..(Len(s) - n) /\ u[k - n] = s[k]
      BY <1>2, <2>2 DEF Acks
    <3> QED BY <1>2, <3>1 DEF Acks
  <2> QED BY <2>1, <2>2 DEF Acks
<1>6. t # <<>>
  <2>1. Len(t) # 0
    BY <1>1
  <2> QED BY <2>1
<1> QED BY <1>1, <1>2, <1>3, <1>4, <1>5, <1>6

(***************************************************************************)
(* Steps that leave the conversation with the kernel alone: s and t hold   *)
(* the same answers.                                                       *)
(***************************************************************************)
SameAcks(s, t) ==
  /\ Acks(s) = {} <=> Acks(t) = {}
  /\ \A k \in Acks(t) : \E j \in Acks(s) : t[k] = s[j]
  /\ (\A k, l \in Acks(s) : k = l) => (\A k, l \in Acks(t) : k = l)

LEMMA SameAcksRefl == ASSUME NEW s PROVE SameAcks(s, s)
BY DEF SameAcks

LEMMA SameAcksAppend ==
  ASSUME NEW s \in Seq(Msg), NEW m \in Msg, ~IsAck(m)
  PROVE  SameAcks(s, Append(s, m))
BY AppendOther DEF SameAcks

LEMMA SameAcksTail ==
  ASSUME NEW s \in Seq(Msg), s # <<>>, ~IsAck(Head(s))
  PROVE  SameAcks(s, Tail(s))
<1>1. \A k \in Acks(Tail(s)) : k + 1 \in Acks(s) /\ Tail(s)[k] = s[k + 1]
  BY TailOther
<1>2. Acks(s) = {} <=> Acks(Tail(s)) = {}
  BY TailOther
<1>3. \A k \in Acks(Tail(s)) : k \in Nat
  BY TailOther DEF Acks
<1>4. (\A k, l \in Acks(s) : k = l) => (\A k, l \in Acks(Tail(s)) : k = l)
  BY <1>1, <1>3
<1> QED BY <1>1, <1>2, <1>4 DEF SameAcks

SeqInv == OneQuery /\ QueueInv

LEMMA Frame ==
  ASSUME SeqInv, SameAcks(sock, sock'), SameAcks(datagram, datagram'),
         dump'.kind = dump.kind, dump'.seq = dump.seq,
         UNCHANGED <<sequence_number, last_received_seq, unsent_messages,
                     old_last_received_seq>>,
         pc' \in Reading => pc \in Reading,
         pc \in Reading \cup {"aborted", "refused"} /\ ~Waiting /\ unsent_messages # <<>>
           => pc' \in Reading \cup {"aborted", "refused"}
  PROVE  SeqInv'
<1>1. (Waiting)' <=> Waiting
  BY DEF SameAcks, Waiting, Dumping
<1>2. OnlyAck(sock)' /\ OnlyAck(datagram)'
  BY DEF SameAcks, OnlyAck, SeqInv, OneQuery
<1>3. OneQuery'
  BY <1>2 DEF SameAcks, SeqInv, OneQuery, Dumping
<1>4. QueueInv'
  BY <1>1 DEF SeqInv, QueueInv
<1> QED BY <1>3, <1>4 DEF SeqInv

(***************************************************************************)
(* The inductive invariant, first under the steps of the environment.      *)
(***************************************************************************)
Inv == TypeOK /\ SeqInv /\ DatagramInv

LEMMA NotifyKeeps ==
  ASSUME TypeOK, NEW m \in Msg, ~IsAck(m), Notify(m)
  PROVE  /\ sock' \in Seq(Msg)
         /\ overrun' \in BOOLEAN
         /\ SameAcks(sock, sock')
<1>1. sock \in Seq(Msg) /\ overrun \in BOOLEAN
  BY DEF TypeOK, KernelTypeOK
<1>2. sock' = Append(sock, m) \/ sock' = sock
  BY DEF Notify
<1>3. overrun' \in BOOLEAN
  BY <1>1 DEF Notify
<1> QED BY <1>1, <1>2, <1>3, SameAcksAppend, SameAcksRefl, AppendOther

LEMMA ChangeKeeps ==
  ASSUME Inv, NEW i \in Index, NEW d \in Device, NEW m \in Msg, ~IsAck(m),
         NEW who \in SUBSET Index, Change(i, d, m, who), UNCHANGED monitorVars
  PROVE  Inv'
<1>1. /\ dev' = [dev EXCEPT ![i] = d] /\ Notify(m)
      /\ changes' = changes + 1 /\ tampered' = tampered \cup who
      /\ UNCHANGED <<subscribed, dump, failed>>
  BY DEF Change, ChangeDev
<1>2. sock' \in Seq(Msg) /\ overrun' \in BOOLEAN /\ SameAcks(sock, sock')
  BY <1>1, NotifyKeeps DEF Inv
<1>3. dev' \in [Index -> Device]
  BY <1>1 DEF Inv, TypeOK, KernelTypeOK
<1>4. KernelTypeOK'
  BY <1>1, <1>2, <1>3 DEF Inv, TypeOK, KernelTypeOK
<1>5. MonitorTypeOK' /\ DatagramInv'
  BY DEF Inv, TypeOK, MonitorTypeOK, DatagramInv, monitorVars
<1>6. SeqInv'
  BY <1>1, <1>2, SameAcksRefl, Frame DEF Inv, monitorVars
<1> QED BY <1>4, <1>5, <1>6 DEF Inv, TypeOK

\* A link message about a device, and an address message, are messages.
LEMMA LinkIsMsg ==
  ASSUME NEW t \in {"RTM_NEWLINK", "RTM_DELLINK"}, NEW i \in Index,
         NEW d \in Device
  PROVE  Link(t, i, d) \in Msg /\ ~IsAck(Link(t, i, d))
BY DEF Link, Msg, LinkMsg, IsAck, Device

LEMMA AddrIsMsg ==
  ASSUME NEW t \in {"RTM_NEWADDR", "RTM_DELADDR"}, NEW i \in Index,
         NEW a \in Ip4Info \cup Ip6Address
  PROVE  Addr(t, i, a) \in Msg /\ ~IsAck(Addr(t, i, a))
BY DEF Addr, Msg, AddrMsg, IsAck

LEMMA WithAddr4Type ==
  ASSUME NEW d \in Device, NEW a \in Ip4Info
  PROVE  /\ WithAddr4(d, a) \in Device
         /\ WithAddr4(d, a) = [d EXCEPT !.ip4 = d.ip4 \cup {a},
                                       !.clashed = WithAddr4(d, a).clashed]
         /\ d.clashed => WithAddr4(d, a).clashed
<1> DEFINE c == d.clashed \/ \E b \in d.ip4 : SameAddress(a, b)
<1>1. WithAddr4(d, a) = [d EXCEPT !.ip4 = d.ip4 \cup {a}, !.clashed = c]
  BY DEF WithAddr4, Device
<1>2. c \in BOOLEAN
  BY DEF Device
<1>5. WithAddr4(d, a) = [state |-> d.state, name |-> d.name, up |-> d.up,
                         ip4 |-> d.ip4 \cup {a}, ip6 |-> d.ip6,
                         renamed |-> d.renamed, clashed |-> c]
  BY <1>1 DEF Device
<1> HIDE DEF c
<1>3. WithAddr4(d, a) \in Device
  BY <1>2, <1>5 DEF Device
<1>4. WithAddr4(d, a).clashed = c
  BY <1>1 DEF Device
<1> QED BY <1>1, <1>3, <1>4 DEF c

LEMMA OtherProgramsKeep ==
  ASSUME Inv, OtherPrograms, UNCHANGED monitorVars
  PROVE  Inv'
<1>1. PICK i \in Index :
        \/ \E n \in Name : CreateLink(i, n) \/ RenameLink(i, n)
        \/ SetLinkFlag(i) \/ NamelessNotice(i) \/ RemoveLink(i)
        \/ \E a \in Ip4Info : AddAddr4(i, a) \/ DelAddr4(i, a)
        \/ \E a \in Ip6Address : AddAddr6(i, a) \/ DelAddr6(i, a)
  BY DEF OtherPrograms
<1>2. dev[i] \in Device
  BY DEF Inv, TypeOK, KernelTypeOK
<1>3. ASSUME NEW n \in Name, CreateLink(i, n)
      PROVE  Inv'
  <2> DEFINE d == [Unborn EXCEPT !.state = "present", !.name = n]
  <2>1. d \in Device
    BY DEF Device, Unborn
  <2>2. Change(i, d, Link("RTM_NEWLINK", i, d), {})
    BY <1>3 DEF CreateLink
  <2> HIDE DEF d
  <2> QED BY <2>1, <2>2, LinkIsMsg, ChangeKeeps
<1>4. ASSUME NEW n \in Name, RenameLink(i, n)
      PROVE  Inv'
  <2> DEFINE d == [dev[i] EXCEPT !.name = n, !.renamed = subscribed]
  <2>1. d \in Device
    <3>1. subscribed \in BOOLEAN
      BY DEF Inv, TypeOK, KernelTypeOK
    <3> QED BY <1>2, <3>1 DEF Device
  <2>2. Change(i, d, Link("RTM_NEWLINK", i, d), {i})
    BY <1>4 DEF RenameLink
  <2> HIDE DEF d
  <2> QED BY <2>1, <2>2, LinkIsMsg, ChangeKeeps
<1>5. CASE SetLinkFlag(i)
  <2> DEFINE d == [dev[i] EXCEPT !.up = ~@]
  <2>1. d \in Device
    BY <1>2 DEF Device
  <2>2. Change(i, d, Link("RTM_NEWLINK", i, d), {i})
    BY <1>5 DEF SetLinkFlag
  <2> HIDE DEF d
  <2> QED BY <2>1, <2>2, LinkIsMsg, ChangeKeeps
<1>6. CASE NamelessNotice(i)
  <2> DEFINE d == [dev[i] EXCEPT !.name = NoName]
  <2>1. d \in Device
    BY <1>2 DEF Device
  <2>2. Change(i, dev[i], Link("RTM_NEWLINK", i, d), {})
    BY <1>6 DEF NamelessNotice
  <2> HIDE DEF d
  <2> QED BY <1>2, <2>1, <2>2, LinkIsMsg, ChangeKeeps
<1>7. CASE RemoveLink(i)
  <2> DEFINE d == [dev[i] EXCEPT !.state = "gone"]
  <2>1. d \in Device
    BY <1>2 DEF Device
  <2>2. Change(i, d, Link("RTM_DELLINK", i, dev[i]), {i})
    BY <1>7 DEF RemoveLink
  <2> HIDE DEF d
  <2> QED BY <1>2, <2>1, <2>2, LinkIsMsg, ChangeKeeps
<1>8. ASSUME NEW a \in Ip4Info, AddAddr4(i, a) \/ DelAddr4(i, a)
      PROVE  Inv'
  <2> DEFINE dA == WithAddr4(dev[i], a)
             dD == [dev[i] EXCEPT !.ip4 = @ \ {a}]
  <2>1. dA \in Device /\ dD \in Device
    BY <1>2, WithAddr4Type DEF Device
  <2>2. \/ Change(i, dA, Addr("RTM_NEWADDR", i, a), {i})
        \/ Change(i, dD, Addr("RTM_DELADDR", i, a), {i})
    BY <1>8 DEF AddAddr4, DelAddr4
  <2> HIDE DEF dA, dD
  <2> QED BY <2>1, <2>2, AddrIsMsg, ChangeKeeps
<1>9. ASSUME NEW a \in Ip6Address, AddAddr6(i, a) \/ DelAddr6(i, a)
      PROVE  Inv'
  <2> DEFINE dA == [dev[i] EXCEPT !.ip6 = @ \cup {a}]
             dD == [dev[i] EXCEPT !.ip6 = @ \ {a}]
  <2>1. dA \in Device /\ dD \in Device
    BY <1>2 DEF Device
  <2>2. \/ Change(i, dA, Addr("RTM_NEWADDR", i, a), {})
        \/ Change(i, dD, Addr("RTM_DELADDR", i, a), {})
    BY <1>9 DEF AddAddr6, DelAddr6
  <2> HIDE DEF dA, dD
  <2> QED BY <2>1, <2>2, AddrIsMsg, ChangeKeeps
<1> QED BY <1>1, <1>3, <1>4, <1>5, <1>6, <1>7, <1>8, <1>9

LEMMA DumpEntryKeeps ==
  ASSUME Inv, NEW e \in Entry, DumpEntry(e), UNCHANGED monitorVars
  PROVE  Inv'
<1>1. e.index \in Index /\ e.addr \in Ip4Info \cup Ip6Address \cup {NoAddr}
  BY DEF Entry
<1>2. EntryMsg(e) \in Msg /\ ~IsAck(EntryMsg(e))
  <2>1. dev[e.index] \in Device
    BY <1>1 DEF Inv, TypeOK, KernelTypeOK
  <2> QED BY <1>1, <2>1, LinkIsMsg, AddrIsMsg DEF EntryMsg
<1>3. sock' \in Seq(Msg) /\ SameAcks(sock, sock')
  <2>1. sock \in Seq(Msg)
    BY DEF Inv, TypeOK, KernelTypeOK
  <2>2. sock' = Append(sock, EntryMsg(e)) \/ sock' = sock
    BY DEF DumpEntry
  <2> QED BY <1>2, <2>1, <2>2, AppendOther, SameAcksAppend, SameAcksRefl
<1>4. dump' \in Dump /\ dump'.kind = dump.kind /\ dump'.seq = dump.seq
  <2>1. dump \in Dump
    BY DEF Inv, TypeOK, KernelTypeOK
  <2> QED BY <2>1 DEF DumpEntry, Dump
<1>5. KernelTypeOK'
  BY <1>3, <1>4 DEF Inv, TypeOK, KernelTypeOK, DumpEntry
<1>6. MonitorTypeOK' /\ DatagramInv'
  BY DEF Inv, TypeOK, MonitorTypeOK, DatagramInv, monitorVars
<1>7. SeqInv'
  BY <1>3, <1>4, SameAcksRefl, Frame DEF Inv, monitorVars
<1> QED BY <1>5, <1>6, <1>7 DEF Inv, TypeOK

\* The dump is over, well or badly, and its answer is in the socket.
LEMMA DumpEndKeeps ==
  ASSUME Inv, DumpDone \/ DumpFails, UNCHANGED monitorVars
  PROVE  Inv'
<1>1. /\ sock \in Seq(Msg)
      /\ dump \in Dump
      /\ dump.kind # "none"
  BY DEF Inv, TypeOK, KernelTypeOK, DumpDone, DumpFails, Dumping
<1>2. PICK m \in Msg : /\ IsAck(m)
                       /\ m.errno # "EBUSY"
                       /\ m.seq = dump.seq
                       /\ sock' = Append(sock, m)
  <2>1. /\ Ack("NLMSG_DONE", dump.seq, "OK") \in Msg
        /\ Ack("NLMSG_ERROR", dump.seq, "ENOMEM") \in Msg
    BY <1>1 DEF Ack, Msg, AckMsg, Dump
  <2> QED BY <2>1 DEF DumpDone, DumpFails, Ack, IsAck
<1>3. Acks(sock) = {} /\ Acks(datagram) = {} /\ dump.seq = last_received_seq + 1
  BY <1>1 DEF Inv, SeqInv, OneQuery, Dumping
<1>4. /\ sock' \in Seq(Msg)
      /\ Acks(sock') # {}
      /\ \A k \in Acks(sock') : k = Len(sock) + 1 /\ sock'[k] = m
  BY <1>1, <1>2, <1>3, AppendAck
<1>5. dump' = NoDump /\ UNCHANGED <<dev, subscribed, overrun, tampered, changes>>
  BY DEF DumpDone, DumpFails
<1>6. KernelTypeOK'
  <2>1. failed' \subseteq Kinds
    BY <1>1 DEF Inv, TypeOK, KernelTypeOK, DumpDone, DumpFails, Dump
  <2>2. NoDump \in Dump
    BY DEF NoDump, Dump
  <2> QED BY <1>4, <1>5, <2>1, <2>2 DEF Inv, TypeOK, KernelTypeOK
<1>7. MonitorTypeOK' /\ DatagramInv'
  BY DEF Inv, TypeOK, MonitorTypeOK, DatagramInv, monitorVars
<1>8. OneQuery'
  <2>1. ~Dumping'
    BY <1>5 DEF Dumping, NoDump
  <2>2. datagram' = datagram /\ last_received_seq' = last_received_seq
    BY DEF monitorVars
  <2>3. OnlyAck(sock)'
    BY <1>2, <1>3, <1>4, <2>2 DEF OnlyAck
  <2>4. OnlyAck(datagram)'
    BY <1>3, <2>2 DEF OnlyAck
  <2> QED BY <1>3, <2>1, <2>2, <2>3, <2>4 DEF OneQuery
<1>9. QueueInv'
  <2>1. Waiting /\ Waiting'
    BY <1>1, <1>4 DEF Waiting, Dumping
  <2> QED BY <2>1 DEF Inv, SeqInv, QueueInv, monitorVars
<1> QED BY <1>6, <1>7, <1>8, <1>9 DEF Inv, TypeOK, SeqInv

LEMMA KernelStepKeeps ==
  ASSUME Inv, KernelStep
  PROVE  Inv'
BY OtherProgramsKeep, DumpEntryKeeps, DumpEndKeeps DEF KernelStep, DumpStep

(***************************************************************************)
(* The steps of the monitor.                                               *)
(***************************************************************************)
\* Steps that only move from one place to another.
LEMMA MoveKeeps ==
  ASSUME Inv, UNCHANGED <<kernelVars, datagram, seqVars, tableVars>>,
         \/ HandleRead \/ ReceiveFails \/ ReceiveNothing \/ FlushDone
         \/ ListenersReturn \/ Refused
  PROVE  Inv'
<1>1. /\ UNCHANGED <<sequence_number, last_received_seq, unsent_messages,
                     old_last_received_seq, sock, dump, datagram>>
  BY DEF kernelVars, seqVars
<1>2. pc' \in Reading => pc \in Reading
  BY DEF HandleRead, ReceiveFails, ReceiveNothing, FlushDone,
         ListenersReturn, Refused, Reading
<1>3. ASSUME pc \in Reading \cup {"aborted", "refused"}, ~Waiting, unsent_messages # <<>>
      PROVE  pc' \in Reading \cup {"aborted", "refused"}
  <2>1. last_received_seq = old_last_received_seq + 1
    BY <1>3 DEF Inv, SeqInv, QueueInv
  <2>2. old_last_received_seq \in Nat /\ last_received_seq \in Nat
    BY DEF Inv, TypeOK, MonitorTypeOK
  <2> QED BY <1>3, <2>1, <2>2 DEF HandleRead, ReceiveFails, ReceiveNothing,
                                  FlushDone, ListenersReturn, Refused, Reading
<1>4. SeqInv'
  BY <1>1, <1>2, <1>3, SameAcksRefl, Frame DEF Inv
<1>5. KernelTypeOK'
  BY DEF Inv, TypeOK, KernelTypeOK, kernelVars
<1>6. MonitorTypeOK'
  BY DEF Inv, TypeOK, MonitorTypeOK, seqVars, tableVars, Reading,
     HandleRead, ReceiveFails, ReceiveNothing, FlushDone, ListenersReturn,
     Refused
<1>7. DatagramInv'
  BY DEF Inv, DatagramInv, tableVars, Reading,
     HandleRead, ReceiveFails, ReceiveNothing, FlushDone, ListenersReturn,
     Refused
<1> QED BY <1>4, <1>5, <1>6, <1>7 DEF Inv, TypeOK

LEMMA BindKeeps ==
  ASSUME Inv, Bind
  PROVE  Inv'
<1>1. SeqInv'
  BY SameAcksRefl, Frame DEF Inv, Bind, seqVars, Reading
<1>2. TypeOK'
  BY DEF Inv, Bind, seqVars, tableVars, TypeOK, KernelTypeOK, MonitorTypeOK
<1>3. DatagramInv'
  BY DEF Inv, Bind, DatagramInv, Reading
<1> QED BY <1>1, <1>2, <1>3 DEF Inv

\* A query goes to the kernel while none is out.
LEMMA RequestKeeps ==
  ASSUME Inv, ~Waiting, NEW kind \in Kinds, NEW s \in Nat,
         s = last_received_seq + 1, RequestDump(kind, s),
         UNCHANGED <<datagram, last_received_seq>>
  PROVE  /\ sock' = sock /\ dump' \in Dump
         /\ OneQuery'
         /\ Waiting'
<1>1. ~Dumping /\ Acks(sock) = {} /\ Acks(datagram) = {}
  BY DEF Waiting
<1>2. sock' = sock /\ dump' = [kind |-> kind, seq |-> s, todo |-> Entries(kind)]
  BY <1>1 DEF RequestDump
<1>3. dump' \in Dump
  <2>1. Entries(kind) \subseteq Entry
    BY DEF Entries, Entry, Kinds
  <2> QED BY <1>2, <2>1 DEF Dump
<1>4. Waiting'
  BY <1>2 DEF Waiting, Dumping, Kinds
<1>5. OnlyAck(sock)' /\ OnlyAck(datagram)'
  BY <1>1, <1>2 DEF OnlyAck
<1>6. OneQuery'
  BY <1>1, <1>2, <1>5 DEF OneQuery
<1> QED BY <1>2, <1>3, <1>4, <1>6

LEMMA BeginQueryKeeps ==
  ASSUME Inv, NEW kind \in Kinds, NEW next \in {"inet", "inet6", "idle"},
         BeginQuery(kind, next)
  PROVE  Inv'
<1>1. /\ pc = kind /\ pc' = next /\ SendMessage(kind)
      /\ UNCHANGED <<dev, subscribed, overrun, failed, tampered, changes, datagram,
                     old_last_received_seq, last_received_seq,
                     interfaces_by_index, event>>
  BY DEF BeginQuery, worldVars, tableVars
<1>2. /\ last_received_seq \in Nat /\ sequence_number \in Nat
      /\ unsent_messages \in Seq([kind : Kinds, seq : Nat])
      /\ sequence_number' = sequence_number + 1
  BY <1>1 DEF Inv, TypeOK, MonitorTypeOK, SendMessage
<1>3. /\ pc \notin Reading \cup {"aborted", "refused"}
      /\ pc' \notin Reading \cup {"aborted", "refused"}
  BY <1>1 DEF Reading, Kinds
<1>4. DatagramInv'
  BY <1>1, <1>3 DEF Inv, DatagramInv, Reading
<1>5. CASE Waiting
  <2> DEFINE q == [kind |-> kind, seq |-> sequence_number']
  <2>1. sequence_number = last_received_seq + 1 + Len(unsent_messages)
    BY <1>5 DEF Inv, SeqInv, QueueInv
  <2>2. Len(unsent_messages) \in Nat
    BY <1>2
  <2>3. /\ unsent_messages' = Append(unsent_messages, q)
        /\ UNCHANGED <<sock, dump>>
    BY <1>1, <1>2, <2>1, <2>2 DEF SendMessage
  <2>4. q \in [kind : Kinds, seq : Nat]
    BY <1>2
  <2>5. TypeOK'
    BY <1>1, <1>2, <2>3, <2>4 DEF Inv, TypeOK, KernelTypeOK, MonitorTypeOK
  <2>6. Waiting'
    BY <1>1, <1>5, <2>3 DEF Waiting, Dumping
  <2>7. OneQuery'
    BY <1>1, <2>3 DEF Inv, SeqInv, OneQuery, OnlyAck, Dumping
  <2>8. QueueInv'
    <3>1. Len(unsent_messages') = Len(unsent_messages) + 1
      BY <1>2, <2>3
    <3>2. sequence_number' = last_received_seq' + 1 + Len(unsent_messages')
      BY <1>1, <1>2, <2>1, <2>2, <3>1
    <3>3. ASSUME NEW j \in DOMAIN unsent_messages'
          PROVE  unsent_messages'[j].seq =
                   sequence_number' - Len(unsent_messages') + j
      <4>1. j \in 1..(Len(unsent_messages) + 1)
        BY <1>2, <2>3
      <4>2. CASE j = Len(unsent_messages) + 1
        BY <1>2, <2>2, <2>3, <3>1, <4>2
      <4>3. CASE j \in 1..Len(unsent_messages)
        <5>1. unsent_messages'[j] = unsent_messages[j]
          BY <1>2, <2>3, <4>3
        <5>2. unsent_messages[j].seq =
                sequence_number - Len(unsent_messages) + j
          BY <1>2, <4>3 DEF Inv, SeqInv, QueueInv
        <5> QED BY <1>2, <2>2, <3>1, <4>1, <5>1, <5>2
      <4> QED BY <2>2, <4>1, <4>2, <4>3
    <3> QED BY <1>3, <2>6, <3>2, <3>3 DEF QueueInv
  <2> QED BY <1>4, <2>5, <2>7, <2>8 DEF Inv, SeqInv
<1>6. CASE ~Waiting
  <2>1. unsent_messages = <<>> /\ sequence_number = last_received_seq
    <3>1. unsent_messages = <<>>
      BY <1>3, <1>6 DEF Inv, SeqInv, QueueInv
    <3> QED BY <1>2, <1>6, <3>1 DEF Inv, SeqInv, QueueInv
  <2>2. RequestDump(kind, sequence_number') /\ UNCHANGED unsent_messages
    BY <1>1, <1>2, <2>1 DEF SendMessage
  <2>3. sock' = sock /\ dump' \in Dump /\ OneQuery' /\ Waiting'
    BY <1>1, <1>2, <1>6, <2>1, <2>2, RequestKeeps
  <2>4. TypeOK'
    BY <1>1, <1>2, <2>2, <2>3 DEF Inv, TypeOK, KernelTypeOK, MonitorTypeOK
  <2>5. QueueInv'
    BY <1>1, <1>2, <1>3, <2>1, <2>2, <2>3 DEF QueueInv
  <2> QED BY <1>4, <2>3, <2>4, <2>5 DEF Inv, SeqInv
<1> QED BY <1>5, <1>6

LEMMA ReceiveDatagramKeeps ==
  ASSUME Inv, NEW n \in 1..Len(sock), ReceiveDatagram(n)
  PROVE  Inv'
<1>1. /\ pc = "receive" /\ pc' = "message"
      /\ datagram' = SubSeq(sock, 1, n)
      /\ sock' = SubSeq(sock, n + 1, Len(sock))
      /\ old_last_received_seq' = last_received_seq
      /\ UNCHANGED <<dev, subscribed, overrun, failed, tampered, changes, dump,
                     sequence_number, last_received_seq, unsent_messages,
                     interfaces_by_index, event>>
  BY DEF ReceiveDatagram, worldVars, tableVars
<1>2. sock \in Seq(Msg) /\ last_received_seq \in Nat
  BY DEF Inv, TypeOK, KernelTypeOK, MonitorTypeOK
<1>3. Acks(datagram) = {}
  <2>1. datagram = <<>>
    BY <1>1 DEF Inv, DatagramInv, Reading
  <2> QED BY <2>1 DEF Acks
<1>4. /\ datagram' \in Seq(Msg) /\ datagram' # <<>>
      /\ sock' \in Seq(Msg)
      /\ \A k \in Acks(datagram') : k \in Acks(sock) /\ k <= n
                                      /\ datagram'[k] = sock[k]
      /\ \A k \in Acks(sock') : k + n \in Acks(sock) /\ sock'[k] = sock[k + n]
      /\ Acks(sock) # {} => Acks(datagram') # {} \/ Acks(sock') # {}
  <2>1. datagram' = SubSeq(sock, 1, n) /\ sock' = SubSeq(sock, n + 1, Len(sock))
    BY <1>1
  <2>2. \A t, u :
           t = SubSeq(sock, 1, n) /\ u = SubSeq(sock, n + 1, Len(sock)) =>
             /\ t \in Seq(Msg) /\ t # <<>>
             /\ u \in Seq(Msg)
             /\ \A k \in Acks(t) : k \in Acks(sock) /\ k <= n /\ t[k] = sock[k]
             /\ \A k \in Acks(u) : k + n \in Acks(sock) /\ u[k] = sock[k + n]
             /\ Acks(sock) # {} => Acks(t) # {} \/ Acks(u) # {}
    BY <1>2, Split
  <2> QED BY <2>1, <2>2
<1>5. TypeOK'
  BY <1>1, <1>2, <1>4 DEF Inv, TypeOK, KernelTypeOK, MonitorTypeOK, Reading
<1>6. DatagramInv'
  BY <1>1, <1>4 DEF DatagramInv, Reading
<1>7. Waiting' <=> Waiting
  BY <1>1, <1>3, <1>4 DEF Waiting, Dumping
<1>8. \A k \in Acks(sock') : k \in Nat \ {0}
  BY <1>4 DEF Acks
<1>9. n \in Nat
  BY <1>2
<1>10. OneQuery'
  <2>1. Dumping' => Acks(sock') = {} /\ Acks(datagram') = {}
                      /\ dump'.seq = last_received_seq' + 1
    BY <1>1, <1>4 DEF Inv, SeqInv, OneQuery, Dumping
  <2>2. \A k, l \in Acks(sock) : k = l
    BY DEF Inv, SeqInv, OneQuery, OnlyAck
  <2>3. Acks(sock') = {} \/ Acks(datagram') = {}
    <3> SUFFICES ASSUME NEW k \in Acks(sock'), NEW l \in Acks(datagram')
                 PROVE  FALSE
      OBVIOUS
    <3>1. k + n = l /\ l <= n
      BY <1>4, <2>2
    <3> QED BY <1>8, <1>9, <3>1
  <2>4. OnlyAck(sock)'
    <3>1. \A k, l \in Acks(sock') : k = l
      BY <1>4, <1>8, <1>9, <2>2
    <3>2. \A k \in Acks(sock') : /\ sock'[k].seq = last_received_seq + 1
                                 /\ sock'[k].errno # "EBUSY"
      BY <1>4 DEF Inv, SeqInv, OneQuery, OnlyAck
    <3> QED BY <1>1, <3>1, <3>2 DEF OnlyAck
  <2>5. OnlyAck(datagram)'
    BY <1>1, <1>4, <2>2 DEF Inv, SeqInv, OneQuery, OnlyAck
  <2> QED BY <2>1, <2>3, <2>4, <2>5 DEF OneQuery
<1>11. QueueInv'
  <2>1. ~Waiting => unsent_messages = <<>>
    BY <1>1 DEF Inv, SeqInv, QueueInv, Reading
  <2> QED BY <1>1, <1>7, <2>1 DEF Inv, SeqInv, QueueInv
<1> QED BY <1>5, <1>6, <1>10, <1>11 DEF Inv, SeqInv

\* Going on to the next message.
LEMMA NextMessageKeeps ==
  ASSUME Inv, NextMessage, pc \in Reading \ {"flush"}
  PROVE  /\ Head(datagram) \in Msg
         /\ datagram' = Tail(datagram) /\ datagram' \in Seq(Msg)
         /\ pc' \in {"message", "flush"}
         /\ DatagramInv'
         /\ ~IsAck(Head(datagram)) => SameAcks(datagram, datagram')
<1>1. datagram \in Seq(Msg) /\ datagram # <<>>
  BY DEF Inv, TypeOK, MonitorTypeOK, DatagramInv, Reading
<1>2. datagram' = Tail(datagram) /\ pc' = IF datagram' = <<>> THEN "flush" ELSE "message"
  BY DEF NextMessage
<1>3. Head(datagram) \in Msg /\ Tail(datagram) \in Seq(Msg)
  BY <1>1
<1>4. DatagramInv'
  BY <1>2 DEF DatagramInv, Reading
<1> QED BY <1>1, <1>2, <1>3, <1>4, SameAcksTail

LEMMA HandleAckKeeps ==
  ASSUME Inv, HandleAck
  PROVE  Inv' /\ last_received_seq' = last_received_seq + 1
<1>1. /\ pc = "message" /\ IsAck(Head(datagram)) /\ NextMessage
      /\ last_received_seq' = Head(datagram).seq
      /\ UNCHANGED <<kernelVars, old_last_received_seq, sequence_number,
                     unsent_messages, interfaces_by_index, event>>
  BY DEF HandleAck, tableVars
<1>2. /\ Head(datagram) \in Msg
      /\ datagram' = Tail(datagram) /\ datagram' \in Seq(Msg)
      /\ pc' \in {"message", "flush"}
      /\ DatagramInv'
  BY <1>1, NextMessageKeeps DEF Reading
<1>3. datagram \in Seq(Msg) /\ datagram # <<>>
  BY <1>1 DEF Inv, TypeOK, MonitorTypeOK, DatagramInv, Reading
<1>4. /\ 1 \in Acks(datagram) /\ datagram[1] = Head(datagram)
      /\ \A k \in Acks(datagram') : k + 1 \in Acks(datagram)
  BY <1>1, <1>2, <1>3, TailOther
<1>5. /\ last_received_seq' = last_received_seq + 1
      /\ \A k \in Acks(datagram) : k = 1
      /\ Acks(sock) = {} /\ ~Dumping /\ Waiting
  BY <1>1, <1>4 DEF Inv, SeqInv, OneQuery, OnlyAck, Waiting
<1>6. Acks(datagram') = {}
  BY <1>2, <1>4, <1>5 DEF Acks
<1>7. last_received_seq \in Nat
  BY DEF Inv, TypeOK, MonitorTypeOK
<1>8. UNCHANGED <<dev, subscribed, sock, overrun, dump, failed, tampered, changes>>
  BY <1>1 DEF kernelVars
<1>9. TypeOK'
  BY <1>1, <1>2, <1>5, <1>7, <1>8
  DEF Inv, TypeOK, KernelTypeOK, MonitorTypeOK, Reading
<1>10. ~Waiting' /\ OneQuery'
  BY <1>5, <1>6, <1>8 DEF Waiting, OneQuery, OnlyAck, Dumping
<1>11. QueueInv'
  <2>1. /\ sequence_number = last_received_seq + 1 + Len(unsent_messages)
        /\ old_last_received_seq = last_received_seq
        /\ \A j \in DOMAIN unsent_messages :
             unsent_messages[j].seq = sequence_number - Len(unsent_messages) + j
    BY <1>1, <1>5 DEF Inv, SeqInv, QueueInv, Reading
  <2> QED BY <1>1, <1>2, <1>5, <1>10, <2>1 DEF QueueInv, Reading
<1> QED BY <1>2, <1>5, <1>9, <1>10, <1>11 DEF Inv, SeqInv

\* Steps that handle a link or address message: the table and the event
\* change, and perhaps the message is done.
LEMMA TableKeeps ==
  ASSUME Inv, NEW i \in Index, NEW info \in Listener!NetInterfaceInfo,
         SetInfo(i, info),
         pc \in Reading \ {"flush"}, ~IsAck(Head(datagram)), NextMessage,
         UNCHANGED <<kernelVars, seqVars>>
  PROVE  Inv'
<1>1. /\ Head(datagram) \in Msg
      /\ datagram' = Tail(datagram) /\ datagram' \in Seq(Msg)
      /\ pc' \in {"message", "flush"}
      /\ DatagramInv'
      /\ SameAcks(datagram, datagram')
  BY NextMessageKeeps
<1>2. interfaces_by_index' \in [Index -> Listener!NetInterfaceInfo]
  BY DEF SetInfo, Inv, TypeOK, MonitorTypeOK
<1>3. TypeOK'
  BY <1>1, <1>2 DEF Inv, TypeOK, KernelTypeOK, MonitorTypeOK, Reading,
                    kernelVars, seqVars
<1>4. /\ UNCHANGED <<sequence_number, last_received_seq, unsent_messages,
                     old_last_received_seq, sock, dump>>
  BY DEF kernelVars, seqVars
<1>5. SeqInv'
  BY <1>1, <1>4, SameAcksRefl, Frame DEF Inv, Reading
<1> QED BY <1>1, <1>3, <1>5 DEF Inv

LEMMA AnnounceKeeps ==
  ASSUME Inv, Announce
  PROVE  Inv'
<1> DEFINE m == Head(datagram)
           info == [interfaces_by_index[m.index] EXCEPT !.name = m.name,
                                                        !.is_public = TRUE]
<1>1. /\ pc = "message" /\ pc' = "created" /\ IsLink(m) /\ ShouldAnnounce(m)
      /\ SetInfo(m.index, info)
      /\ Broadcast("InterfaceCreated", m.index, info, NoAddr)
      /\ UNCHANGED <<kernelVars, datagram, seqVars>>
  BY DEF Announce
<1>2. datagram # <<>> /\ datagram \in Seq(Msg)
  BY <1>1 DEF Inv, TypeOK, MonitorTypeOK, DatagramInv, Reading
<1>3. m \in LinkMsg
  <2>1. m \in Msg
    BY <1>2
  <2> QED BY <1>1, <2>1, MsgCases
<1>4. interfaces_by_index[m.index] \in Listener!NetInterfaceInfo
  BY <1>3 DEF Inv, TypeOK, MonitorTypeOK, LinkMsg
<1>5. info \in Listener!NetInterfaceInfo /\ info.name = m.name
  BY <1>3, <1>4 DEF Listener!NetInterfaceInfo, LinkMsg
<1> HIDE DEF info
<1>6. event'.index = m.index /\ event'.info.name = m.name
  BY <1>1, <1>5 DEF Broadcast, Listener!Event
<1>7. DatagramInv'
  BY <1>1, <1>2, <1>6 DEF DatagramInv, Reading, ShouldAnnounce
<1>8. interfaces_by_index' \in [Index -> Listener!NetInterfaceInfo]
  BY <1>1, <1>5 DEF SetInfo, Inv, TypeOK, MonitorTypeOK
<1>9. TypeOK'
  BY <1>1, <1>8 DEF Inv, TypeOK, KernelTypeOK, MonitorTypeOK, Reading,
                    kernelVars, seqVars
<1>10. /\ UNCHANGED <<sequence_number, last_received_seq, unsent_messages,
                      old_last_received_seq, sock, dump, datagram>>
  BY <1>1 DEF kernelVars, seqVars
<1>11. SeqInv'
  BY <1>1, <1>10, SameAcksRefl, Frame DEF Inv, Reading
<1> QED BY <1>7, <1>9, <1>11 DEF Inv

LEMMA UpdateLinkActiveKeeps ==
  ASSUME Inv, UpdateLinkActive
  PROVE  Inv'
<1> DEFINE m == Head(datagram)
           info == [interfaces_by_index[m.index] EXCEPT !.link_active = m.up]
<1>1. /\ pc \in {"flags", "message"} /\ IsLink(m)
      /\ SetInfo(m.index, info) /\ NextMessage
      /\ UNCHANGED <<kernelVars, seqVars>>
  BY DEF UpdateLinkActive, Inv, DatagramInv
<1>2. m \in LinkMsg /\ ~IsAck(m)
  <2>1. datagram # <<>> /\ datagram \in Seq(Msg)
    BY <1>1 DEF Inv, TypeOK, MonitorTypeOK, DatagramInv, Reading
  <2>2. m \in Msg
    BY <2>1
  <2> QED BY <1>1, <2>2, MsgCases
<1>3. m.index \in Index /\ info \in Listener!NetInterfaceInfo
  <2>1. interfaces_by_index[m.index] \in Listener!NetInterfaceInfo
    BY <1>2 DEF Inv, TypeOK, MonitorTypeOK, LinkMsg
  <2> QED BY <1>2, <2>1 DEF Listener!NetInterfaceInfo, LinkMsg
<1>4. pc \in Reading \ {"flush"}
  BY <1>1 DEF Reading
<1> HIDE DEF info, m
<1>5. ~IsAck(Head(datagram))
  BY <1>2 DEF m
<1> QED BY <1>1, <1>3, <1>4, <1>5, TableKeeps

LEMMA AddrInfoType ==
  ASSUME TypeOK, NEW m \in AddrMsg
  PROVE  AddrInfo(m) \in Listener!NetInterfaceInfo
<1> DEFINE old == interfaces_by_index[m.index]
<1>1. /\ m.index \in Index
      /\ m.addr \in Ip4Info \cup Ip6Address
      /\ old \in Listener!NetInterfaceInfo
  BY DEF TypeOK, MonitorTypeOK, AddrMsg
<1>2. ASSUME NEW s \in SUBSET Ip4Info
      PROVE  [old EXCEPT !.ip4_addresses = s] \in Listener!NetInterfaceInfo
  BY <1>1 DEF Listener!NetInterfaceInfo
<1>3. ASSUME NEW s \in SUBSET Ip6Address
      PROVE  [old EXCEPT !.ip6_addresses = s] \in Listener!NetInterfaceInfo
  BY <1>1 DEF Listener!NetInterfaceInfo
<1>4. old.ip4_addresses \in SUBSET Ip4Info /\ old.ip6_addresses \in SUBSET Ip6Address
  BY <1>1 DEF Listener!NetInterfaceInfo
<1> HIDE DEF old
<1>5. AddrInfo(m) =
        IF m.addr \in Ip4Info
        THEN [old EXCEPT !.ip4_addresses =
                IF m.type = "RTM_NEWADDR" THEN Insert4(old.ip4_addresses, m.addr)
                                          ELSE Erase4(old.ip4_addresses, m.addr)]
        ELSE [old EXCEPT !.ip6_addresses =
                IF m.type = "RTM_NEWADDR" THEN old.ip6_addresses \cup {m.addr}
                                          ELSE old.ip6_addresses \ {m.addr}]
  BY DEF AddrInfo, old
<1>6. m.addr \in Ip4Info => /\ Insert4(old.ip4_addresses, m.addr) \in SUBSET Ip4Info
                            /\ Erase4(old.ip4_addresses, m.addr) \in SUBSET Ip4Info
  BY <1>4 DEF Insert4, Erase4
<1>7. m.addr \notin Ip4Info =>
        /\ old.ip6_addresses \cup {m.addr} \in SUBSET Ip6Address
        /\ old.ip6_addresses \ {m.addr} \in SUBSET Ip6Address
  BY <1>1, <1>4
<1> QED BY <1>2, <1>3, <1>5, <1>6, <1>7

LEMMA HandleAddrKeeps ==
  ASSUME Inv, HandleAddr
  PROVE  Inv'
<1> DEFINE m == Head(datagram)
<1>1. /\ pc = "message" /\ IsAddr(m)
      /\ SetInfo(m.index, AddrInfo(m)) /\ NextMessage
      /\ UNCHANGED <<kernelVars, seqVars>>
  BY DEF HandleAddr
<1>2. m \in AddrMsg /\ ~IsAck(m)
  <2>1. datagram # <<>> /\ datagram \in Seq(Msg)
    BY <1>1 DEF Inv, TypeOK, MonitorTypeOK, DatagramInv, Reading
  <2>2. m \in Msg
    BY <2>1
  <2> QED BY <1>1, <2>2, MsgCases
<1>3. m.index \in Index /\ AddrInfo(m) \in Listener!NetInterfaceInfo
  BY <1>2, AddrInfoType DEF Inv, AddrMsg
<1>4. pc \in Reading \ {"flush"}
  BY <1>1 DEF Reading
<1> HIDE DEF m
<1>5. ~IsAck(Head(datagram))
  BY <1>2 DEF m
<1> QED BY <1>1, <1>3, <1>4, <1>5, TableKeeps

LEMMA HeadOf ==
  ASSUME NEW S, NEW s \in Seq(S), s # <<>>
  PROVE  Head(s) = s[1] /\ Head(s) \in S
OBVIOUS

LEMMA SendUnsentKeeps ==
  ASSUME Inv, SendUnsent
  PROVE  Inv'
<1> DEFINE q == Head(unsent_messages)
<1>1. /\ pc = "flush" /\ pc' = pc
      /\ unsent_messages # <<>>
      /\ old_last_received_seq < last_received_seq
      /\ RequestDump(q.kind, q.seq)
      /\ unsent_messages' = Tail(unsent_messages)
      /\ old_last_received_seq' = old_last_received_seq + 1
      /\ UNCHANGED <<dev, subscribed, overrun, failed, tampered, changes,
                     datagram, sequence_number, last_received_seq,
                     interfaces_by_index, event>>
  BY DEF SendUnsent, worldVars, tableVars
<1>2. /\ last_received_seq \in Nat /\ sequence_number \in Nat
      /\ old_last_received_seq \in Nat
      /\ unsent_messages \in Seq([kind : Kinds, seq : Nat])
  BY DEF Inv, TypeOK, MonitorTypeOK
<1>3. /\ Len(unsent_messages) \in Nat \ {0}
      /\ q = unsent_messages[1] /\ q \in [kind : Kinds, seq : Nat]
      /\ unsent_messages' \in Seq([kind : Kinds, seq : Nat])
      /\ Len(unsent_messages') = Len(unsent_messages) - 1
      /\ DOMAIN unsent_messages' = 1..(Len(unsent_messages) - 1)
      /\ DOMAIN unsent_messages = 1..Len(unsent_messages)
      /\ \A j \in 1..(Len(unsent_messages) - 1) :
           unsent_messages'[j] = unsent_messages[j + 1]
  <2>1. Len(unsent_messages) \in Nat \ {0}
    BY <1>1, <1>2
  <2>2. q = unsent_messages[1] /\ q \in [kind : Kinds, seq : Nat]
    BY <1>1, <1>2, HeadOf
  <2>3. /\ Tail(unsent_messages) \in Seq([kind : Kinds, seq : Nat])
        /\ Len(Tail(unsent_messages)) = Len(unsent_messages) - 1
        /\ \A j \in 1..(Len(unsent_messages) - 1) :
             Tail(unsent_messages)[j] = unsent_messages[j + 1]
    BY <1>1, <1>2, <2>1
  <2>4. DOMAIN Tail(unsent_messages) = 1..(Len(unsent_messages) - 1)
    BY <2>3
  <2>5. DOMAIN unsent_messages = 1..Len(unsent_messages)
    BY <1>2
  <2> QED BY <1>1, <2>1, <2>2, <2>3, <2>4, <2>5
<1>4. pc \in Reading /\ ~Waiting
  <2>1. pc \in Reading
    BY <1>1 DEF Reading
  <2>2. Waiting => old_last_received_seq = last_received_seq
    BY <2>1 DEF Inv, SeqInv, QueueInv
  <2> QED BY <1>1, <1>2, <2>1, <2>2
<1>5. /\ sequence_number = last_received_seq + Len(unsent_messages)
      /\ last_received_seq = old_last_received_seq + 1
      /\ \A j \in 1..Len(unsent_messages) :
           unsent_messages[j].seq = sequence_number - Len(unsent_messages) + j
  BY <1>1, <1>3, <1>4 DEF Inv, SeqInv, QueueInv
<1>6. q.kind \in Kinds /\ q.seq = last_received_seq + 1
  BY <1>2, <1>3, <1>5
<1> HIDE DEF q
<1>7. sock' = sock /\ dump' \in Dump /\ OneQuery' /\ Waiting'
  <2>1. q.seq \in Nat
    BY <1>2, <1>6
  <2> QED BY <1>1, <1>4, <1>6, <2>1, RequestKeeps
<1>8. TypeOK'
  BY <1>1, <1>2, <1>3, <1>7 DEF Inv, TypeOK, KernelTypeOK, MonitorTypeOK
<1>9. DatagramInv'
  BY <1>1 DEF Inv, DatagramInv
<1>10. QueueInv'
  <2>1. sequence_number' = last_received_seq' + 1 + Len(unsent_messages')
    BY <1>1, <1>2, <1>3, <1>5
  <2>2. old_last_received_seq' = last_received_seq'
    BY <1>1, <1>5
  <2>3. ASSUME NEW j \in DOMAIN unsent_messages'
        PROVE  unsent_messages'[j].seq =
                 sequence_number' - Len(unsent_messages') + j
    <3>1. j \in 1..(Len(unsent_messages) - 1) /\ j + 1 \in 1..Len(unsent_messages)
      BY <1>3
    <3>2. unsent_messages'[j].seq =
            sequence_number - Len(unsent_messages) + (j + 1)
      BY <1>3, <1>5, <3>1
    <3> QED BY <1>1, <1>2, <1>3, <3>1, <3>2
  <2> QED BY <1>7, <2>1, <2>2, <2>3 DEF QueueInv
<1> QED BY <1>7, <1>8, <1>9, <1>10 DEF Inv, SeqInv

LEMMA MonitorStepKeeps ==
  ASSUME Inv, MonitorStep
  PROVE  Inv'
<1>1. CASE HandleRead \/ ReceiveFails \/ ReceiveNothing \/ FlushDone
  BY <1>1, MoveKeeps DEF HandleRead, ReceiveFails, ReceiveNothing, FlushDone
<1>4. CASE BindRefused \/ SendRefused \/ ReceiveRefused
  <2>1. Refused
    BY <1>4 DEF BindRefused, SendRefused, ReceiveRefused
  <2> QED BY <2>1, MoveKeeps DEF Refused
<1>2. CASE BeginLinkQuery \/ BeginAddrQuery
  BY <1>2, BeginQueryKeeps DEF BeginLinkQuery, BeginAddrQuery, Kinds
<1>3. CASE \E n \in 1..Len(sock) : ReceiveDatagram(n)
  BY <1>3, ReceiveDatagramKeeps
<1> QED BY <1>1, <1>2, <1>3, <1>4, BindKeeps, HandleAckKeeps, AnnounceKeeps,
           UpdateLinkActiveKeeps, HandleAddrKeeps, SendUnsentKeeps
    DEF MonitorStep

LEMMA StutterKeeps ==
  ASSUME Inv, UNCHANGED vars
  PROVE  Inv'
<1>1. UNCHANGED <<kernelVars, monitorVars>>
  BY DEF vars
<1>2. UNCHANGED <<sequence_number, last_received_seq, unsent_messages,
                  old_last_received_seq, sock, dump, datagram, pc>>
  BY <1>1 DEF kernelVars, monitorVars
<1>3. SeqInv'
  BY <1>2, SameAcksRefl, Frame DEF Inv
<1>4. TypeOK' /\ DatagramInv'
  BY <1>1 DEF Inv, TypeOK, KernelTypeOK, MonitorTypeOK, DatagramInv,
              kernelVars, monitorVars
<1> QED BY <1>3, <1>4 DEF Inv

LEMMA InitInv ==
  ASSUME Init
  PROVE  Inv
<1>1. TypeOK
  <2>1. NoDump \in Dump
    BY DEF NoDump, Dump
  <2>2. KernelTypeOK
    <3>1. dev \in [Index -> Device]
      BY ConstantsAssumption DEF Init, KernelInit
    <3>2. sock \in Seq(Msg) /\ tampered \subseteq Index /\ failed \subseteq Kinds
      BY DEF Init, KernelInit
    <3> QED BY <2>1, <3>1, <3>2 DEF Init, KernelInit, KernelTypeOK
  <2>3. Listener!NewInterfaceInfo \in Listener!NetInterfaceInfo
    BY DEF Listener!NewInterfaceInfo, Listener!NetInterfaceInfo
  <2>4. MonitorTypeOK
    BY <2>3 DEF Init, MonitorInit, MonitorTypeOK, FirstSeq
  <2> QED BY <2>2, <2>4 DEF TypeOK
<1>2. DatagramInv
  BY DEF Init, MonitorInit, DatagramInv, Reading
<1>3. Acks(sock) = {} /\ Acks(datagram) = {}
  BY DEF Init, KernelInit, MonitorInit, Acks
<1>4. ~Dumping /\ ~Waiting
  BY <1>3 DEF Init, KernelInit, Dumping, NoDump, Waiting
<1>5. OneQuery
  BY <1>3, <1>4 DEF OneQuery, OnlyAck
<1>6. QueueInv
  BY <1>4 DEF Init, MonitorInit, QueueInv, FirstSeq
<1> QED BY <1>1, <1>2, <1>5, <1>6 DEF Inv, SeqInv

LEMMA NextKeeps ==
  ASSUME Inv, [Next]_vars
  PROVE  Inv'
<1>1. CASE ListenersReturn
  BY <1>1, MoveKeeps DEF ListenersReturn
<1> QED BY <1>1, MonitorStepKeeps, KernelStepKeeps, StutterKeeps DEF Next

LEMMA SpecInv == Spec => []Inv
<1>1. Init => Inv
  BY InitInv
<1>2. Inv /\ [Next]_vars => Inv'
  BY NextKeeps
<1> QED BY <1>1, <1>2, PTL DEF Spec

\* Every reachable state of the monitor is well typed, whatever the kernel
\* and other programs do and however long they do it.
THEOREM MonitorTypeCorrect == Spec => []TypeOK
<1>1. Inv => TypeOK
  BY DEF Inv
<1> QED BY <1>1, SpecInv, PTL

LEMMA InvNeverBusy == ASSUME Inv PROVE NeverBusy
<1>1. /\ \A k \in Acks(sock) : sock[k].errno # "EBUSY"
      /\ \A k \in Acks(datagram) : datagram[k].errno # "EBUSY"
  BY DEF Inv, SeqInv, OneQuery, OnlyAck
<1> QED BY <1>1 DEF NeverBusy, Acks

\* For any number of interfaces, addresses and changes, and whatever the
\* kernel puts into a datagram, SendMessage and the loop that sends
\* unsent_messages never have two queries out: none is refused.
THEOREM MonitorNeverBusy == Spec => []NeverBusy
<1>1. Inv => NeverBusy
  BY InvNeverBusy
<1> QED BY <1>1, SpecInv, PTL

LEMMA StepAnswers ==
  ASSUME Inv, MonitorStep \/ ListenersReturn \/ InterfaceCreated \/ KernelStep
                \/ UNCHANGED vars
  PROVE  last_received_seq' \in {last_received_seq, last_received_seq + 1}
<1>1. CASE MonitorStep
  <2>1. CASE HandleAck
    BY <2>1, HandleAckKeeps
  <2>2. CASE ~HandleAck
    BY <1>1, <2>2 DEF MonitorStep, Bind, BeginLinkQuery, BeginAddrQuery, BeginQuery,
       HandleRead, ReceiveFails, ReceiveNothing, ReceiveDatagram, Announce,
       UpdateLinkActive, HandleAddr, SendUnsent, FlushDone, seqVars,
       BindRefused, SendRefused, ReceiveRefused, Refused
  <2> QED BY <2>1, <2>2
<1>2. CASE InterfaceCreated
  BY <1>2 DEF InterfaceCreated, IgnoreInterface, SetDeviceStatus,
     SetDeviceStatusFails, SetDeviceStatusRefused, SetDeviceIp4AddressInfo,
     SetDeviceIp4AddressInfoFails, SetDeviceIp4AddressInfoRefused, Refused,
     seqVars
<1> QED BY <1>1, <1>2 DEF ListenersReturn, KernelStep, vars, monitorVars, seqVars

\* Answers are taken in the order of the queries, none twice and none
\* skipped, so that one waiting query goes out for each answer.
THEOREM MonitorAnswersInOrder == Spec => AnswersInOrder
<1>1. Inv /\ [Next]_vars
        => [last_received_seq' \in {last_received_seq, last_received_seq + 1}]_vars
  BY StepAnswers DEF Next
<1> QED BY <1>1, SpecInv, PTL DEF Spec, AnswersInOrder

(***************************************************************************)
(* The monitor implements NetlinkListener.                                 *)
(***************************************************************************)
LEMMA KnownAfter ==
  ASSUME TypeOK, NEW i \in Index, NEW info \in Listener!NetInterfaceInfo,
         SetInfo(i, info), info.is_public
  PROVE  Known' = [Known EXCEPT ![i] = info]
BY DEF Known, SetInfo, TypeOK, MonitorTypeOK

LEMMA KnownSilent ==
  ASSUME TypeOK, NEW i \in Index, NEW info \in Listener!NetInterfaceInfo,
         SetInfo(i, info), ~info.is_public, ~interfaces_by_index[i].is_public
  PROVE  Known' = Known
BY DEF Known, SetInfo, TypeOK, MonitorTypeOK

LEMMA KnownPublic ==
  ASSUME NEW i \in Index, interfaces_by_index[i].is_public
  PROVE  Known[i] = interfaces_by_index[i]
BY DEF Known

LEMMA AnnounceRefines ==
  ASSUME Inv, Announce
  PROVE  Listener!Next
<1> DEFINE m == Head(datagram)
           info == [interfaces_by_index[m.index] EXCEPT !.name = m.name,
                                                        !.is_public = TRUE]
<1>1. /\ pc = "message" /\ IsLink(m) /\ ShouldAnnounce(m)
      /\ SetInfo(m.index, info)
      /\ event' = Listener!Event("InterfaceCreated", m.index, info, NoAddr)
  BY DEF Announce, Broadcast
<1>2. m \in LinkMsg
  <2>1. datagram # <<>> /\ datagram \in Seq(Msg)
    BY <1>1 DEF Inv, TypeOK, MonitorTypeOK, DatagramInv, Reading
  <2>2. m \in Msg
    BY <2>1
  <2> QED BY <1>1, <2>2, MsgCases
<1>3. /\ m.index \in Index
      /\ interfaces_by_index[m.index] \in Listener!NetInterfaceInfo
  BY <1>2 DEF Inv, TypeOK, MonitorTypeOK, LinkMsg
<1>4. /\ info \in Listener!NetInterfaceInfo
      /\ info.is_public /\ info.name \in Name
  BY <1>1, <1>2, <1>3 DEF Listener!NetInterfaceInfo, LinkMsg, ShouldAnnounce
<1>5. ~Known[m.index].is_public
  BY <1>1, <1>3 DEF ShouldAnnounce, Known
<1> HIDE DEF info, m
<1>6. Known' = [Known EXCEPT ![m.index] = info]
  BY <1>1, <1>3, <1>4, KnownAfter DEF Inv
<1>7. Listener!Tell("InterfaceCreated", m.index, info, NoAddr)
  BY <1>1, <1>6 DEF Listener!Tell
<1>8. Listener!InterfaceCreated(m.index)
  BY <1>4, <1>5, <1>7 DEF Listener!InterfaceCreated
<1> QED BY <1>3, <1>8 DEF Listener!Next

LEMMA UpdateLinkActiveRefines ==
  ASSUME Inv, UpdateLinkActive
  PROVE  Listener!Next \/ UNCHANGED <<Known, event>>
<1> DEFINE m == Head(datagram)
           old == interfaces_by_index[m.index]
           info == [old EXCEPT !.link_active = m.up]
<1>1. /\ pc \in {"flags", "message"} /\ IsLink(m)
      /\ SetInfo(m.index, info)
      /\ IF info # old /\ info.is_public
         THEN event' = Listener!Event(IF m.up THEN "LinkUp" ELSE "LinkDown",
                                      m.index, info, NoAddr)
         ELSE UNCHANGED event
  BY DEF UpdateLinkActive, Inv, DatagramInv, Broadcast
<1>2. m \in LinkMsg
  <2>1. datagram # <<>> /\ datagram \in Seq(Msg)
    BY <1>1 DEF Inv, TypeOK, MonitorTypeOK, DatagramInv, Reading
  <2>2. m \in Msg
    BY <2>1
  <2> QED BY <1>1, <2>2, MsgCases
<1>3. m.index \in Index /\ m.up \in BOOLEAN /\ old \in Listener!NetInterfaceInfo
  BY <1>2 DEF Inv, TypeOK, MonitorTypeOK, LinkMsg
<1>4. /\ info \in Listener!NetInterfaceInfo
      /\ info.is_public = old.is_public
      /\ info # old => old.link_active = ~m.up
  BY <1>3 DEF Listener!NetInterfaceInfo
<1>5. CASE ~old.is_public
  BY <1>1, <1>3, <1>4, <1>5, KnownSilent DEF Inv
<1>6. CASE old.is_public
  <2>1. Known' = [Known EXCEPT ![m.index] = info]
    BY <1>1, <1>3, <1>4, <1>6, KnownAfter DEF Inv
  <2>2. Known[m.index] = old
    BY <1>3, <1>6, KnownPublic
  <2>3. CASE info = old
    <3>1. Known' = Known
      BY <2>1, <2>2, <2>3 DEF Known
    <3> QED BY <1>1, <2>3, <3>1
  <2>4. CASE info # old /\ m.up
    <3>1. info = [Known[m.index] EXCEPT !.link_active = TRUE]
      BY <2>2, <2>4
    <3>2. Listener!Tell("LinkUp", m.index, info, NoAddr)
      BY <1>1, <1>4, <1>6, <2>1, <2>4 DEF Listener!Tell
    <3>3. Known[m.index].is_public /\ ~Known[m.index].link_active
      BY <1>4, <1>6, <2>2, <2>4
    <3>4. Listener!LinkUp(m.index)
      BY <3>1, <3>2, <3>3 DEF Listener!LinkUp
    <3> QED BY <1>3, <3>4 DEF Listener!Next
  <2>5. CASE info # old /\ ~m.up
    <3>1. info = [Known[m.index] EXCEPT !.link_active = FALSE]
      BY <1>3, <2>2, <2>5
    <3>2. Listener!Tell("LinkDown", m.index, info, NoAddr)
      BY <1>1, <1>4, <1>6, <2>1, <2>5 DEF Listener!Tell
    <3>3. Known[m.index].is_public /\ Known[m.index].link_active
      BY <1>4, <1>6, <2>2, <2>5
    <3>4. Listener!LinkDown(m.index)
      BY <3>1, <3>2, <3>3 DEF Listener!LinkDown
    <3> QED BY <1>3, <3>4 DEF Listener!Next
  <2> QED BY <2>3, <2>4, <2>5
<1> QED BY <1>5, <1>6

LEMMA HandleAddrRefines ==
  ASSUME Inv, HandleAddr
  PROVE  Listener!Next \/ UNCHANGED <<Known, event>>
<1> DEFINE m == Head(datagram)
           old == interfaces_by_index[m.index]
           info == AddrInfo(m)
<1>1. /\ pc = "message" /\ IsAddr(m)
      /\ SetInfo(m.index, info)
      /\ IF info # old /\ info.is_public
         THEN event' = Listener!Event(AddrCallback(m), m.index, info, m.addr)
         ELSE UNCHANGED event
  BY DEF HandleAddr, Broadcast
<1>2. m \in AddrMsg
  <2>1. datagram # <<>> /\ datagram \in Seq(Msg)
    BY <1>1 DEF Inv, TypeOK, MonitorTypeOK, DatagramInv, Reading
  <2>2. m \in Msg
    BY <2>1
  <2> QED BY <1>1, <2>2, MsgCases
<1>3. /\ m.index \in Index /\ m.addr \in Ip4Info \cup Ip6Address
      /\ old \in Listener!NetInterfaceInfo
  BY <1>2 DEF Inv, TypeOK, MonitorTypeOK, AddrMsg
<1>4. info \in Listener!NetInterfaceInfo
  BY <1>2, AddrInfoType DEF Inv
<1>5. info.is_public = old.is_public
  BY <1>3 DEF AddrInfo, Listener!NetInterfaceInfo
<1>6. CASE ~old.is_public
  BY <1>1, <1>3, <1>4, <1>5, <1>6, KnownSilent DEF Inv
<1>7. CASE old.is_public
  <2>1. Known' = [Known EXCEPT ![m.index] = info]
    BY <1>1, <1>3, <1>4, <1>5, <1>7, KnownAfter DEF Inv
  <2>2. Known[m.index] = old
    BY <1>3, <1>7, KnownPublic
  <2>3. CASE info = old
    <3>1. Known' = Known
      BY <2>1, <2>2, <2>3 DEF Known
    <3> QED BY <1>1, <2>3, <3>1
  <2>4. CASE info # old
    <3>1. Listener!Tell(AddrCallback(m), m.index, info, m.addr)
      BY <1>1, <1>5, <1>7, <2>1, <2>4 DEF Listener!Tell
    <3>2. CASE m.addr \in Ip4Info /\ m.type = "RTM_NEWADDR"
      <4>1. info = [old EXCEPT !.ip4_addresses = Insert4(@, m.addr)]
        BY <3>2 DEF AddrInfo
      <4>2. \A b \in old.ip4_addresses : ~Listener!SameKey(m.addr, b)
        BY <1>3, <2>4, <4>1 DEF Insert4, Listener!NetInterfaceInfo
      <4>3. info = [old EXCEPT !.ip4_addresses = @ \cup {m.addr}]
        BY <4>1, <4>2 DEF Insert4
      <4>4. Listener!Ip4AddressAdded(m.index, m.addr)
        BY <1>7, <2>2, <3>1, <3>2, <4>2, <4>3
        DEF Listener!Ip4AddressAdded, AddrCallback
      <4> QED BY <1>3, <3>2, <4>4 DEF Listener!Next
    <3>3. CASE m.addr \in Ip4Info /\ m.type # "RTM_NEWADDR"
      <4>1. info = [old EXCEPT !.ip4_addresses = Erase4(@, m.addr)]
        BY <3>3 DEF AddrInfo
      <4>2. \E b \in old.ip4_addresses : Listener!SameKey(m.addr, b)
        <5> SUFFICES ASSUME \A b \in old.ip4_addresses :
                              ~Listener!SameKey(m.addr, b)
                     PROVE  FALSE
          OBVIOUS
        <5>1. Erase4(old.ip4_addresses, m.addr) = old.ip4_addresses
          BY DEF Erase4
        <5> QED BY <1>3, <2>4, <4>1, <5>1 DEF Listener!NetInterfaceInfo
      <4>3. info = [old EXCEPT !.ip4_addresses =
                      {b \in @ : ~Listener!SameKey(m.addr, b)}]
        BY <4>1 DEF Erase4
      <4>4. Listener!Ip4AddressRemoved(m.index, m.addr)
        BY <1>7, <2>2, <3>1, <3>3, <4>2, <4>3
        DEF Listener!Ip4AddressRemoved, AddrCallback
      <4> QED BY <1>3, <3>3, <4>4 DEF Listener!Next
    <3>4. CASE m.addr \notin Ip4Info /\ m.type = "RTM_NEWADDR"
      <4>1. info = [old EXCEPT !.ip6_addresses = @ \cup {m.addr}]
        BY <3>4 DEF AddrInfo
      <4>2. m.addr \notin old.ip6_addresses
        <5> SUFFICES ASSUME m.addr \in old.ip6_addresses PROVE FALSE
          OBVIOUS
        <5>1. old.ip6_addresses \cup {m.addr} = old.ip6_addresses
          OBVIOUS
        <5> QED BY <1>3, <2>4, <4>1, <5>1 DEF Listener!NetInterfaceInfo
      <4>3. Listener!Ip6AddressAdded(m.index, m.addr)
        BY <1>7, <2>2, <3>1, <3>4, <4>1, <4>2
        DEF Listener!Ip6AddressAdded, AddrCallback
      <4> QED BY <1>3, <3>4, <4>3 DEF Listener!Next
    <3>5. CASE m.addr \notin Ip4Info /\ m.type # "RTM_NEWADDR"
      <4>1. info = [old EXCEPT !.ip6_addresses = @ \ {m.addr}]
        BY <3>5 DEF AddrInfo
      <4>2. m.addr \in old.ip6_addresses
        <5> SUFFICES ASSUME m.addr \notin old.ip6_addresses PROVE FALSE
          OBVIOUS
        <5>1. old.ip6_addresses \ {m.addr} = old.ip6_addresses
          OBVIOUS
        <5> QED BY <1>3, <2>4, <4>1, <5>1 DEF Listener!NetInterfaceInfo
      <4>3. Listener!Ip6AddressRemoved(m.index, m.addr)
        BY <1>7, <2>2, <3>1, <3>5, <4>1, <4>2
        DEF Listener!Ip6AddressRemoved, AddrCallback
      <4> QED BY <1>3, <3>5, <4>3 DEF Listener!Next
    <3> QED BY <3>2, <3>3, <3>4, <3>5
  <2> QED BY <2>3, <2>4
<1> QED BY <1>6, <1>7

LEMMA StepRefines ==
  ASSUME Inv, MonitorStep \/ ListenersReturn \/ InterfaceCreated \/ KernelStep
                \/ UNCHANGED vars
  PROVE  Listener!Next \/ UNCHANGED <<Known, event>>
<1>1. CASE Announce \/ UpdateLinkActive \/ HandleAddr
  BY <1>1, AnnounceRefines, UpdateLinkActiveRefines, HandleAddrRefines
<1>2. CASE ~(Announce \/ UpdateLinkActive \/ HandleAddr)
  <2>1. UNCHANGED <<interfaces_by_index, event>>
    BY <1>2 DEF MonitorStep, Bind, BeginLinkQuery, BeginAddrQuery, BeginQuery,
       HandleRead, ReceiveFails, ReceiveNothing, ReceiveDatagram, HandleAck,
       SendUnsent, FlushDone, ListenersReturn, InterfaceCreated,
       IgnoreInterface, SetDeviceStatus, SetDeviceStatusFails,
       SetDeviceIp4AddressInfo, SetDeviceIp4AddressInfoFails, KernelStep,
       BindRefused, SendRefused, ReceiveRefused, SetDeviceStatusRefused,
       SetDeviceIp4AddressInfoRefused, Refused, tableVars, vars, monitorVars
  <2> QED BY <2>1 DEF Known
<1> QED BY <1>1, <1>2

LEMMA InitRefines == ASSUME Init PROVE Listener!Init
BY DEF Init, MonitorInit, Listener!Init, Known, Listener!NewInterfaceInfo

\* The monitor implements the abstract specification of its callbacks: an
\* interface is announced once and before anything else about it, and every
\* later callback reports one real change of what was told before.
THEOREM MonitorImplementsListener == Spec => ListenerSpec
<1>1. Init => Listener!Init
  BY InitRefines
<1>2. Inv /\ [Next]_vars => [Listener!Next]_<<Known, event>>
  BY StepRefines DEF Next
<1> QED BY <1>1, <1>2, SpecInv, PTL DEF Spec, ListenerSpec, Listener!Spec

(***************************************************************************)
(* CaughtUp.  First what one more message, or one less, does to the last   *)
(* word about something.                                                   *)
(***************************************************************************)
LEMMA WordAppended ==
  ASSUME NEW s \in Seq(Msg), NEW m \in Msg, NEW B, m \in B
  PROVE  /\ ~Silent(Append(s, m), B)
         /\ \A k \in DOMAIN Append(s, m) :
              LastWord(Append(s, m), B, k) => Append(s, m)[k] = m
<1> DEFINE t == Append(s, m)
<1>1. Len(t) \in DOMAIN t /\ t[Len(t)] = m /\ DOMAIN t = 1..Len(t) /\ Len(t) \in Nat
  OBVIOUS
<1> HIDE DEF t
<1> QED BY <1>1 DEF t, Silent, LastWord

LEMMA OtherAppended ==
  ASSUME NEW s \in Seq(Msg), NEW m \in Msg, NEW B, m \notin B
  PROVE  /\ Silent(Append(s, m), B) <=> Silent(s, B)
         /\ \A k \in DOMAIN Append(s, m) :
              LastWord(Append(s, m), B, k) =>
                k \in DOMAIN s /\ Append(s, m)[k] = s[k] /\ LastWord(s, B, k)
<1> DEFINE t == Append(s, m)
<1>1. /\ DOMAIN t = 1..(Len(s) + 1) /\ DOMAIN s = 1..Len(s) /\ Len(s) \in Nat
      /\ \A k \in DOMAIN s : k \in DOMAIN t /\ t[k] = s[k]
      /\ t[Len(s) + 1] = m
  OBVIOUS
<1> HIDE DEF t
<1>2. \A k \in DOMAIN t : k \in DOMAIN s \/ t[k] = m
  BY <1>1
<1> QED BY <1>1, <1>2 DEF t, Silent, LastWord

LEMMA WordTaken ==
  ASSUME NEW s \in Seq(Msg), s # <<>>, NEW B
  PROVE  /\ \A k \in DOMAIN Tail(s) :
              LastWord(Tail(s), B, k) =>
                k + 1 \in DOMAIN s /\ Tail(s)[k] = s[k + 1] /\ LastWord(s, B, k + 1)
         /\ Head(s) \notin B => (Silent(Tail(s), B) <=> Silent(s, B))
         /\ Head(s) \in B /\ Silent(Tail(s), B) =>
              1 \in DOMAIN s /\ s[1] = Head(s) /\ LastWord(s, B, 1)
<1> DEFINE t == Tail(s)
<1>1. /\ Len(s) \in Nat \ {0} /\ DOMAIN s = 1..Len(s) /\ DOMAIN t = 1..(Len(s) - 1)
      /\ Head(s) = s[1]
      /\ \A k \in 1..(Len(s) - 1) : t[k] = s[k + 1]
  OBVIOUS
<1> HIDE DEF t
<1>2. \A l \in DOMAIN s : l = 1 \/ (l - 1 \in DOMAIN t /\ t[l - 1] = s[l])
  BY <1>1
<1>3. \A k \in DOMAIN t : k + 1 \in DOMAIN s /\ t[k] = s[k + 1]
  BY <1>1
<1>4. ASSUME NEW k \in DOMAIN t, LastWord(t, B, k)
      PROVE  LastWord(s, B, k + 1)
  <2>1. ASSUME NEW l \in DOMAIN s, l > k + 1 PROVE s[l] \notin B
    <3>1. l - 1 \in DOMAIN t /\ t[l - 1] = s[l] /\ l - 1 > k
      BY <1>1, <1>2, <2>1
    <3> QED BY <3>1, <1>4 DEF LastWord
  <2> QED BY <2>1, <1>3, <1>4 DEF LastWord
<1>5. Head(s) \notin B => (Silent(t, B) <=> Silent(s, B))
  BY <1>1, <1>2, <1>3 DEF Silent
<1>6. ASSUME Head(s) \in B, Silent(t, B)
      PROVE  LastWord(s, B, 1)
  <2>1. ASSUME NEW l \in DOMAIN s, l > 1 PROVE s[l] \notin B
    <3>1. l - 1 \in DOMAIN t /\ t[l - 1] = s[l]
      BY <1>1, <1>2, <2>1
    <3> QED BY <3>1, <1>6 DEF Silent
  <2> QED BY <2>1, <1>1, <1>6 DEF LastWord
<1> QED BY <1>1, <1>3, <1>4, <1>5, <1>6 DEF t

\* The three things that can happen to the messages on their way.
LEMMA ComingType ==
  ASSUME TypeOK
  PROVE  datagram \in Seq(Msg) /\ sock \in Seq(Msg) /\ Coming \in Seq(Msg)
BY DEF TypeOK, KernelTypeOK, MonitorTypeOK, Coming

LEMMA ComingAppended ==
  ASSUME TypeOK, NEW m \in Msg, sock' = Append(sock, m), UNCHANGED datagram
  PROVE  Coming' = Append(Coming, m)
<1>1. datagram \in Seq(Msg) /\ sock \in Seq(Msg)
  BY ComingType
<1>2. \A s, t \in Seq(Msg) : s \o Append(t, m) = Append(s \o t, m)
  OBVIOUS
<1> QED BY <1>1, <1>2 DEF Coming

LEMMA ComingTaken ==
  ASSUME TypeOK, datagram # <<>>, datagram' = Tail(datagram), UNCHANGED sock
  PROVE  /\ Coming' = Tail(Coming)
         /\ Coming # <<>>
         /\ Head(Coming) = Head(datagram)
<1>1. datagram \in Seq(Msg) /\ sock \in Seq(Msg)
  BY ComingType
<1>2. ASSUME NEW s \in Seq(Msg), NEW t \in Seq(Msg), s # <<>>
      PROVE  Tail(s) \o t = Tail(s \o t) /\ s \o t # <<>> /\ Head(s \o t) = Head(s)
  <2>1. /\ s \o t \in Seq(Msg) /\ Len(s \o t) = Len(s) + Len(t) /\ Len(s) >= 1
        /\ Tail(s) \in Seq(Msg) /\ Len(Tail(s)) = Len(s) - 1 /\ Len(t) >= 0
    BY <1>2
  <2>2. s \o t # <<>> /\ Head(s \o t) = Head(s)
    BY <1>2, <2>1
  <2>3. /\ Tail(s \o t) \in Seq(Msg) /\ Len(Tail(s \o t)) = Len(s) + Len(t) - 1
        /\ Tail(s) \o t \in Seq(Msg) /\ Len(Tail(s) \o t) = Len(s) + Len(t) - 1
    BY <2>1, <2>2
  <2>4. ASSUME NEW k \in 1..(Len(s) + Len(t) - 1)
        PROVE  (Tail(s) \o t)[k] = Tail(s \o t)[k]
    BY <2>1, <2>2, <1>2
  <2> QED BY <2>2, <2>3, <2>4, SeqEqual
<1> QED BY <1>1, <1>2 DEF Coming

LEMMA ComingReceived ==
  ASSUME TypeOK, datagram = <<>>, NEW n \in 1..Len(sock),
         datagram' = SubSeq(sock, 1, n), sock' = SubSeq(sock, n + 1, Len(sock))
  PROVE  Coming' = Coming
<1>1. datagram \in Seq(Msg) /\ sock \in Seq(Msg)
  BY ComingType
<1>2. ASSUME NEW s \in Seq(Msg), n \in 1..Len(s)
      PROVE  SubSeq(s, 1, n) \o SubSeq(s, n + 1, Len(s)) = s /\ <<>> \o s = s
  BY <1>2, ConcatAdjacentSubSeq, SubSeqFull
<1> QED BY <1>1, <1>2 DEF Coming

(***************************************************************************)
(* What each of the three means for a fact of the table: the link's flag,  *)
(* its existence, and an address.                                          *)
(***************************************************************************)
LEMMA LinkSame ==
  ASSUME NEW i \in Index, LinkKnown(i), Coming' = Coming,
         dev'[i].up = dev[i].up,
         interfaces_by_index'[i].link_active = interfaces_by_index[i].link_active,
         dev[i].up /\ Awaited("link", LinkEntry(i)) => Awaited("link", LinkEntry(i))'
  PROVE  LinkKnown(i)'
BY DEF LinkKnown

LEMMA LinkAppended ==
  ASSUME NEW i \in Index, LinkKnown(i), TypeOK, NEW m \in Msg,
         Coming' = Append(Coming, m),
         IF m \in AboutLink(i)
         THEN m.up = dev'[i].up
         ELSE /\ dev'[i].up = dev[i].up
              /\ interfaces_by_index'[i].link_active = interfaces_by_index[i].link_active
              /\ Awaited("link", LinkEntry(i)) => Awaited("link", LinkEntry(i))'
  PROVE  LinkKnown(i)'
<1>1. Coming \in Seq(Msg)
  BY ComingType
<1>2. CASE m \in AboutLink(i)
  BY <1>1, <1>2, WordAppended DEF LinkKnown
<1>3. CASE m \notin AboutLink(i)
  BY <1>1, <1>3, OtherAppended DEF LinkKnown
<1> QED BY <1>2, <1>3

LEMMA LinkTaken ==
  ASSUME NEW i \in Index, LinkKnown(i), TypeOK, Coming # <<>>,
         Coming' = Tail(Coming), dev'[i].up = dev[i].up,
         IF Head(Coming) \in AboutLink(i)
         THEN interfaces_by_index'[i].link_active = Head(Coming).up
         ELSE /\ interfaces_by_index'[i].link_active = interfaces_by_index[i].link_active
              /\ Awaited("link", LinkEntry(i)) => Awaited("link", LinkEntry(i))'
  PROVE  LinkKnown(i)'
<1>1. Coming \in Seq(Msg)
  BY ComingType
<1>2. ASSUME NEW k \in DOMAIN Tail(Coming), LastWord(Tail(Coming), AboutLink(i), k)
      PROVE  Tail(Coming)[k].up = dev'[i].up
  BY <1>1, <1>2, WordTaken DEF LinkKnown
<1>3. CASE Head(Coming) \in AboutLink(i)
  <2>1. Silent(Tail(Coming), AboutLink(i)) => Head(Coming).up = dev[i].up
    BY <1>1, <1>3, WordTaken DEF LinkKnown
  <2> QED BY <1>2, <1>3, <2>1 DEF LinkKnown
<1>4. CASE Head(Coming) \notin AboutLink(i)
  BY <1>1, <1>2, <1>4, WordTaken DEF LinkKnown
<1> QED BY <1>3, <1>4

LEMMA NameSame ==
  ASSUME NEW i \in Index, NameKnown(i), Coming' = Coming,
         dev'[i].state = "present" => dev[i].state = "present",
         interfaces_by_index[i].is_public => interfaces_by_index'[i].is_public,
         dev[i].state = "present" /\ Awaited("link", LinkEntry(i))
           => Awaited("link", LinkEntry(i))'
  PROVE  NameKnown(i)'
BY DEF NameKnown

LEMMA NameAppended ==
  ASSUME NEW i \in Index, NameKnown(i), TypeOK, NEW m \in Msg,
         Coming' = Append(Coming, m),
         \/ m \in NamesLink(i)
         \/ /\ dev'[i].state = "present" => dev[i].state = "present"
            /\ interfaces_by_index[i].is_public => interfaces_by_index'[i].is_public
            /\ Awaited("link", LinkEntry(i)) => Awaited("link", LinkEntry(i))'
  PROVE  NameKnown(i)'
<1>1. Coming \in Seq(Msg)
  BY ComingType
<1>2. CASE m \in NamesLink(i)
  BY <1>1, <1>2, WordAppended DEF NameKnown
<1>3. CASE m \notin NamesLink(i)
  BY <1>1, <1>3, OtherAppended DEF NameKnown
<1> QED BY <1>2, <1>3

LEMMA NameTaken ==
  ASSUME NEW i \in Index, NameKnown(i), TypeOK, Coming # <<>>,
         Coming' = Tail(Coming),
         dev'[i].state = "present" => dev[i].state = "present",
         interfaces_by_index[i].is_public => interfaces_by_index'[i].is_public,
         Awaited("link", LinkEntry(i)) => Awaited("link", LinkEntry(i))',
         Head(Coming) \in NamesLink(i) => interfaces_by_index'[i].is_public
  PROVE  NameKnown(i)'
<1>1. Coming \in Seq(Msg)
  BY ComingType
<1>2. CASE Head(Coming) \in NamesLink(i)
  BY <1>2 DEF NameKnown
<1>3. CASE Head(Coming) \notin NamesLink(i)
  BY <1>1, <1>3, WordTaken DEF NameKnown
<1> QED BY <1>2, <1>3

AnyAddr == Ip4Info \cup Ip6Address

LEMMA AddrSame ==
  ASSUME NEW i \in Index, NEW a \in AnyAddr, AddrKnown(i, a), Coming' = Coming,
         Has(i, a)' <=> Has(i, a), Holds(i, a)' => Holds(i, a)
  PROVE  AddrKnown(i, a)'
BY DEF AddrKnown

LEMMA AddrAppended ==
  ASSUME NEW i \in Index, NEW a \in AnyAddr, AddrKnown(i, a), TypeOK,
         NEW m \in Msg, Coming' = Append(Coming, m),
         IF m \in AboutAddr(i, a)
         THEN m.type = "RTM_NEWADDR" <=> Has(i, a)'
         ELSE /\ Has(i, a)' <=> Has(i, a)
              /\ Holds(i, a)' <=> Holds(i, a)
  PROVE  AddrKnown(i, a)'
<1>1. Coming \in Seq(Msg)
  BY ComingType
<1>2. CASE m \in AboutAddr(i, a)
  BY <1>1, <1>2, WordAppended DEF AddrKnown
<1>3. CASE m \notin AboutAddr(i, a)
  BY <1>1, <1>3, OtherAppended DEF AddrKnown
<1> QED BY <1>2, <1>3

LEMMA AddrTaken ==
  ASSUME NEW i \in Index, NEW a \in AnyAddr, AddrKnown(i, a), TypeOK,
         Coming # <<>>, Coming' = Tail(Coming), Has(i, a)' <=> Has(i, a),
         Holds(i, a)' => IF Head(Coming) \in AboutAddr(i, a)
                         THEN Head(Coming).type = "RTM_NEWADDR"
                         ELSE Holds(i, a)
  PROVE  AddrKnown(i, a)'
<1>1. Coming \in Seq(Msg)
  BY ComingType
<1>2. ASSUME NEW k \in DOMAIN Tail(Coming), LastWord(Tail(Coming), AboutAddr(i, a), k)
      PROVE  Tail(Coming)[k].type = "RTM_NEWADDR" <=> Has(i, a)'
  BY <1>1, <1>2, WordTaken DEF AddrKnown
<1>3. CASE Head(Coming) \in AboutAddr(i, a)
  <2>1. Silent(Tail(Coming), AboutAddr(i, a)) =>
          (Head(Coming).type = "RTM_NEWADDR" <=> Has(i, a))
    BY <1>1, <1>3, WordTaken DEF AddrKnown
  <2> QED BY <1>2, <1>3, <2>1 DEF AddrKnown
<1>4. CASE Head(Coming) \notin AboutAddr(i, a)
  BY <1>1, <1>2, <1>4, WordTaken DEF AddrKnown
<1> QED BY <1>3, <1>4

LEMMA KeySame ==
  ASSUME NEW i \in Index, NEW a \in AnyAddr, KeyKnown(i, a), Coming' = Coming,
         Lone(i, a)' => Lone(i, a), Has(i, a)' => Has(i, a),
         Holds(i, a) => Holds(i, a)',
         Has(i, a) /\ Awaited(KindOf(a), AddrEntry(i, a))
           => Awaited(KindOf(a), AddrEntry(i, a))'
  PROVE  KeyKnown(i, a)'
BY DEF KeyKnown

LEMMA KeyAppended ==
  ASSUME NEW i \in Index, NEW a \in AnyAddr, KeyKnown(i, a), TypeOK,
         NEW m \in Msg, Coming' = Append(Coming, m),
         Lone(i, a)' /\ Has(i, a)' =>
           IF m \in AboutKey(i, a)
           THEN m.type = "RTM_NEWADDR" /\ m.addr = a
           ELSE /\ Lone(i, a) /\ Has(i, a)
                /\ Holds(i, a) => Holds(i, a)'
                /\ Awaited(KindOf(a), AddrEntry(i, a))
                     => Awaited(KindOf(a), AddrEntry(i, a))'
  PROVE  KeyKnown(i, a)'
<1>1. Coming \in Seq(Msg)
  BY ComingType
<1>2. CASE m \in AboutKey(i, a)
  BY <1>1, <1>2, WordAppended DEF KeyKnown
<1>3. CASE m \notin AboutKey(i, a)
  BY <1>1, <1>3, OtherAppended DEF KeyKnown
<1> QED BY <1>2, <1>3

LEMMA KeyTaken ==
  ASSUME NEW i \in Index, NEW a \in AnyAddr, KeyKnown(i, a), TypeOK,
         Coming # <<>>, Coming' = Tail(Coming),
         Lone(i, a)' => Lone(i, a), Has(i, a)' => Has(i, a),
         Awaited(KindOf(a), AddrEntry(i, a)) => Awaited(KindOf(a), AddrEntry(i, a))',
         IF Head(Coming) \in AboutKey(i, a)
         THEN Lone(i, a) /\ Has(i, a) /\ Silent(Tail(Coming), AboutKey(i, a))
                /\ Head(Coming).type = "RTM_NEWADDR" /\ Head(Coming).addr = a
                  => Holds(i, a)'
         ELSE Holds(i, a) => Holds(i, a)'
  PROVE  KeyKnown(i, a)'
<1> SUFFICES ASSUME Lone(i, a), Has(i, a)
             PROVE  /\ \A k \in DOMAIN Tail(Coming) :
                         LastWord(Tail(Coming), AboutKey(i, a), k) =>
                           Tail(Coming)[k].type = "RTM_NEWADDR" /\ Tail(Coming)[k].addr = a
                    /\ Silent(Tail(Coming), AboutKey(i, a)) =>
                         Holds(i, a)' \/ Awaited(KindOf(a), AddrEntry(i, a))'
  BY DEF KeyKnown
<1>1. Coming \in Seq(Msg)
  BY ComingType
<1>2. ASSUME NEW k \in DOMAIN Tail(Coming), LastWord(Tail(Coming), AboutKey(i, a), k)
      PROVE  Tail(Coming)[k].type = "RTM_NEWADDR" /\ Tail(Coming)[k].addr = a
  BY <1>1, <1>2, WordTaken DEF KeyKnown
<1>3. CASE Head(Coming) \in AboutKey(i, a)
  <2>1. Silent(Tail(Coming), AboutKey(i, a)) =>
          Head(Coming).type = "RTM_NEWADDR" /\ Head(Coming).addr = a
    BY <1>1, <1>3, WordTaken DEF KeyKnown
  <2> QED BY <1>2, <1>3, <2>1
<1>4. CASE Head(Coming) \notin AboutKey(i, a)
  BY <1>1, <1>2, <1>4, WordTaken DEF KeyKnown
<1> QED BY <1>3, <1>4

\* Nothing new is said about names.
LEMMA NameStaysRight ==
  ASSUME NEW i \in Index, NameRight(i),
         dev'[i].renamed = dev[i].renamed, dev'[i].name = dev[i].name,
         \A k \in DOMAIN Coming' :
           \/ \E l \in DOMAIN Coming : Coming'[k] = Coming[l]
           \/ Coming'[k] \in NamesLink(i) => Coming'[k].name = dev[i].name,
         interfaces_by_index'[i].is_public =>
           /\ interfaces_by_index'[i].name = dev[i].name
           /\ dev[i].name # NoName
  PROVE  NameRight(i)'
BY DEF NameRight

(***************************************************************************)
(* No step but the report of an entry makes an entry that is awaited       *)
(* unawaited.                                                              *)
(***************************************************************************)
AwaitKept == \A kind \in Kinds : \A e \in Entries(kind) :
               Awaited(kind, e) => Awaited(kind, e)'

LEMMA QuietKeepsAwaited ==
  ASSUME UNCHANGED <<unsent_messages, dump, failed>>, ToAsk(pc) \subseteq ToAsk(pc')
  PROVE  AwaitKept
BY DEF AwaitKept, Awaited

LEMMA RequestKeepsAwaited ==
  ASSUME Inv, NEW kind \in Kinds, NEW s, ~Dumping, RequestDump(kind, s),
         ToAsk(pc) \subseteq ToAsk(pc') \cup {kind}, UNCHANGED failed,
         \A j \in DOMAIN unsent_messages :
           \/ unsent_messages[j].kind = kind
           \/ \E l \in DOMAIN unsent_messages' : unsent_messages'[l] = unsent_messages[j]
  PROVE  AwaitKept
<1> SUFFICES ASSUME NEW k \in Kinds, NEW e \in Entries(k), Awaited(k, e)
             PROVE  Awaited(k, e)'
  BY DEF AwaitKept
<1>1. dump' = [kind |-> kind, seq |-> s, todo |-> Entries(kind)]
  BY DEF RequestDump
<1>2. dump.kind # k
  BY DEF Dumping, Kinds
<1>3. CASE k = kind
  BY <1>1, <1>3 DEF Awaited
<1>4. CASE k # kind
  BY <1>2, <1>4 DEF Awaited
<1> QED BY <1>3, <1>4

LEMMA AskingPlaces ==
  /\ ToAsk("down") = Kinds /\ ToAsk("link") = Kinds
  /\ ToAsk("inet") = {"inet", "inet6"}
  /\ ToAsk("inet6") = {"inet6"}
  /\ \A p : p \notin {"down", "link", "inet", "inet6"} => ToAsk(p) = {}
BY DEF ToAsk, Kinds

LEMMA BeginQueryKeepsAwaited ==
  ASSUME Inv, BeginLinkQuery \/ BeginAddrQuery
  PROVE  AwaitKept
<1>1. PICK kind \in Kinds, next \in {"inet", "inet6", "idle"} :
        /\ BeginQuery(kind, next)
        /\ ToAsk(kind) = ToAsk(next) \cup {kind}
  <2>1. CASE BeginQuery("link", "inet")
    BY <2>1, AskingPlaces, Zenon DEF Kinds
  <2>2. CASE BeginQuery("inet", "inet6")
    BY <2>2, AskingPlaces, Zenon DEF Kinds
  <2>3. CASE BeginQuery("inet6", "idle")
    BY <2>3, AskingPlaces, Zenon DEF Kinds
  <2> QED BY <2>1, <2>2, <2>3 DEF BeginLinkQuery, BeginAddrQuery
<1>2. /\ SendMessage(kind) /\ pc = kind /\ pc' = next /\ failed' = failed
  BY <1>1 DEF BeginQuery, worldVars
<1>3. /\ unsent_messages \in Seq([kind : Kinds, seq : Nat])
      /\ sequence_number \in Nat /\ last_received_seq \in Nat
  BY DEF Inv, TypeOK, MonitorTypeOK
<1>4. CASE last_received_seq + 1 = sequence_number'
  <2>1. RequestDump(kind, sequence_number') /\ UNCHANGED unsent_messages
    BY <1>2, <1>4 DEF SendMessage
  <2>2. ~Dumping
    <3>1. sequence_number = last_received_seq /\ Len(unsent_messages) \in Nat
      BY <1>2, <1>3, <1>4 DEF SendMessage
    <3>2. ~Waiting
      BY <1>3, <3>1 DEF Inv, SeqInv, QueueInv
    <3> QED BY <3>2 DEF Waiting
  <2> QED BY <1>1, <1>2, <2>1, <2>2, RequestKeepsAwaited
<1>5. CASE last_received_seq + 1 # sequence_number'
  <2> DEFINE q == [kind |-> kind, seq |-> sequence_number']
  <2>1. unsent_messages' = Append(unsent_messages, q) /\ UNCHANGED dump
    BY <1>2, <1>5 DEF SendMessage
  <2>2. q \in [kind : Kinds, seq : Nat] /\ q.kind = kind
    BY <1>2, <1>3 DEF SendMessage
  <2> HIDE DEF q
  <2>3. /\ \A j \in DOMAIN unsent_messages : j \in DOMAIN unsent_messages'
                                /\ unsent_messages'[j] = unsent_messages[j]
        /\ \E j \in DOMAIN unsent_messages' : unsent_messages'[j] = q
    BY <1>3, <2>1, <2>2
  <2> QED BY <1>1, <1>2, <2>1, <2>2, <2>3 DEF AwaitKept, Awaited
<1> QED BY <1>4, <1>5

LEMMA SendUnsentKeepsAwaited ==
  ASSUME Inv, SendUnsent
  PROVE  AwaitKept
<1> DEFINE q == Head(unsent_messages)
<1>1. /\ unsent_messages # <<>> /\ unsent_messages' = Tail(unsent_messages)
      /\ RequestDump(q.kind, q.seq) /\ UNCHANGED <<failed, pc>>
      /\ pc = "flush" /\ old_last_received_seq < last_received_seq
  BY DEF SendUnsent, worldVars
<1>2. /\ unsent_messages \in Seq([kind : Kinds, seq : Nat])
      /\ old_last_received_seq \in Nat /\ last_received_seq \in Nat
  BY DEF Inv, TypeOK, MonitorTypeOK
<1>3. q = unsent_messages[1] /\ q \in [kind : Kinds, seq : Nat]
  BY <1>1, <1>2, HeadOf
<1>4. ~Dumping
  BY <1>1, <1>2 DEF Inv, SeqInv, QueueInv, Waiting, Reading
<1>5. \A j \in DOMAIN unsent_messages :
        \/ j = 1
        \/ j - 1 \in DOMAIN Tail(unsent_messages)
             /\ Tail(unsent_messages)[j - 1] = unsent_messages[j]
  BY <1>1, <1>2
<1> HIDE DEF q
<1> QED BY <1>1, <1>3, <1>4, <1>5, RequestKeepsAwaited

\* A dump ends with nothing left to report, or has failed.
LEMMA DumpEndKeepsAwaited ==
  ASSUME DumpDone \/ DumpFails, UNCHANGED monitorVars
  PROVE  AwaitKept
BY DEF DumpDone, DumpFails, monitorVars, AwaitKept, Awaited

LEMMA DumpEntryKeepsAwaited ==
  ASSUME TypeOK, NEW e0 \in Entry, DumpEntry(e0), UNCHANGED monitorVars,
         NEW kind \in Kinds, NEW e \in Entries(kind), e # e0, Awaited(kind, e)
  PROVE  Awaited(kind, e)'
<1>1. dump' = [dump EXCEPT !.todo = @ \ {e0}] /\ dump \in Dump /\ failed' = failed
  BY DEF DumpEntry, TypeOK, KernelTypeOK
<1>2. dump'.kind = dump.kind /\ dump'.todo = dump.todo \ {e0}
  BY <1>1 DEF Dump
<1> QED BY <1>1, <1>2 DEF Awaited, monitorVars

\* The entries that the facts are about.
LEMMA EntriesOf ==
  ASSUME NEW i \in Index
  PROVE  /\ LinkEntry(i) \in Entries("link")
         /\ \A a \in AnyAddr : /\ KindOf(a) \in Kinds
                               /\ AddrEntry(i, a) \in Entries(KindOf(a))
BY DEF LinkEntry, AddrEntry, Entries, KindOf, Kinds, AnyAddr

LEMMA AwaitKeptOf ==
  ASSUME AwaitKept, NEW i \in Index
  PROVE  /\ Awaited("link", LinkEntry(i)) => Awaited("link", LinkEntry(i))'
         /\ \A a \in AnyAddr : Awaited(KindOf(a), AddrEntry(i, a))
                                 => Awaited(KindOf(a), AddrEntry(i, a))'
BY EntriesOf DEF AwaitKept, Kinds

(***************************************************************************)
(* KnownInv, step by step.                                                 *)
(***************************************************************************)
\* Nothing on its way, nothing known, everything still to ask.
LEMMA BindKnows ==
  ASSUME TypeOK, StartInv, Bind
  PROVE  KnownInv'
<1>1. /\ sock' = <<>> /\ datagram' = <<>> /\ pc' = "link"
      /\ interfaces_by_index' = [i \in Index |-> Listener!NewInterfaceInfo]
  BY DEF StartInv, Bind, tableVars
<1>2. Coming' = <<>>
  BY <1>1 DEF Coming
<1>3. \A kind \in Kinds : \A e : Awaited(kind, e)'
  BY <1>1, AskingPlaces DEF Awaited
<1>4. ASSUME NEW i \in Index
      PROVE  /\ ~interfaces_by_index'[i].link_active
             /\ interfaces_by_index'[i].ip4_addresses = {}
             /\ interfaces_by_index'[i].ip6_addresses = {}
  BY <1>1 DEF Listener!NewInterfaceInfo
<1>5. ASSUME NEW i \in Index PROVE LinkKnown(i)' /\ NameKnown(i)'
  BY <1>2, <1>3, <1>4 DEF LinkKnown, NameKnown, Kinds
<1>6. ASSUME NEW i \in Index, NEW a \in AnyAddr
      PROVE  AddrKnown(i, a)' /\ KeyKnown(i, a)'
  BY <1>2, <1>3, <1>4, EntriesOf DEF AddrKnown, KeyKnown, Holds
<1> QED BY <1>5, <1>6 DEF KnownInv, AnyAddr

\* Steps that neither bring nor take a message nor change a device.
LEMMA SameKnows ==
  ASSUME KnownInv, Coming' = Coming, AwaitKept,
         UNCHANGED <<subscribed, overrun, dev, interfaces_by_index>>
  PROVE  KnownInv'
<1> SUFFICES ASSUME subscribed, ~overrun, NEW i \in Index
             PROVE  /\ LinkKnown(i)' /\ NameKnown(i)'
                    /\ \A a \in AnyAddr : AddrKnown(i, a)' /\ KeyKnown(i, a)'
  BY DEF KnownInv, AnyAddr
<1>1. /\ LinkKnown(i) /\ NameKnown(i)
      /\ \A a \in AnyAddr : AddrKnown(i, a) /\ KeyKnown(i, a)
  BY DEF KnownInv, AnyAddr
<1>2. LinkKnown(i)'
  BY <1>1, AwaitKeptOf, LinkSame
<1>3. NameKnown(i)'
  BY <1>1, AwaitKeptOf, NameSame
<1>4. ASSUME NEW a \in AnyAddr PROVE AddrKnown(i, a)' /\ KeyKnown(i, a)'
  <2>1. /\ (Has(i, a)' <=> Has(i, a)) /\ (Holds(i, a)' <=> Holds(i, a))
        /\ Lone(i, a)' <=> Lone(i, a)
    BY DEF Has, Holds, Lone
  <2> QED BY <1>1, <2>1, AwaitKeptOf, AddrSame, KeySame
<1> QED BY <1>2, <1>3, <1>4

\* Messages that tell which facts they are about.
LEMMA AboutLinkMsg ==
  ASSUME NEW m \in LinkMsg, NEW i \in Index
  PROVE  /\ m \in Msg /\ ~IsAck(m)
         /\ m \in AboutLink(i) <=> i = m.index
         /\ m \in NamesLink(i) <=> i = m.index /\ m.name # NoName
         /\ \A a : m \notin AboutAddr(i, a) /\ m \notin AboutKey(i, a)
BY DEF Msg, LinkMsg, AddrMsg, IsAck, AboutLink, NamesLink, AboutAddr, AboutKey

LEMMA AboutAddrMsg ==
  ASSUME NEW m \in AddrMsg, NEW i \in Index
  PROVE  /\ m \in Msg /\ ~IsAck(m)
         /\ m \notin AboutLink(i)
         /\ m \notin NamesLink(i)
         /\ \A a : m \in AboutAddr(i, a) <=> i = m.index /\ a = m.addr
         /\ \A a : m \in AboutKey(i, a) <=> i = m.index /\ Rivals(a, m.addr)
BY DEF Msg, LinkMsg, AddrMsg, IsAck, AboutLink, NamesLink, AboutAddr, AboutKey

LEMMA AboutAckMsg ==
  ASSUME NEW m \in AckMsg, NEW i \in Index
  PROVE  /\ m \in Msg /\ IsAck(m)
         /\ m \notin AboutLink(i)
         /\ m \notin NamesLink(i)
         /\ \A a : m \notin AboutAddr(i, a) /\ m \notin AboutKey(i, a)
BY DEF Msg, LinkMsg, AddrMsg, AckMsg, IsAck, AboutLink, NamesLink, AboutAddr, AboutKey

\* The answer to a query tells of no device.
LEMMA DumpEndKnows ==
  ASSUME TypeOK, KnownInv, DumpDone \/ DumpFails, UNCHANGED monitorVars
  PROVE  KnownInv'
<1>1. dump \in Dump
  BY DEF TypeOK, KernelTypeOK
<1>2. PICK m \in AckMsg : sock' = Append(sock, m)
  BY <1>1 DEF DumpDone, DumpFails, Ack, AckMsg, Dump
<1>3. UNCHANGED <<subscribed, overrun, dev, interfaces_by_index, datagram>>
  BY DEF DumpDone, DumpFails, monitorVars
<1>4. AwaitKept
  BY DumpEndKeepsAwaited
<1> SUFFICES ASSUME subscribed, ~overrun, NEW i \in Index
             PROVE  /\ LinkKnown(i)' /\ NameKnown(i)'
                    /\ \A a \in AnyAddr : AddrKnown(i, a)' /\ KeyKnown(i, a)'
  BY <1>3 DEF KnownInv, AnyAddr
<1>5. /\ LinkKnown(i) /\ NameKnown(i)
      /\ \A a \in AnyAddr : AddrKnown(i, a) /\ KeyKnown(i, a)
  BY DEF KnownInv, AnyAddr
<1>6. Coming' = Append(Coming, m) /\ m \in Msg
  BY <1>2, <1>3, AboutAckMsg, ComingAppended
<1>7. LinkKnown(i)'
  BY <1>3, <1>4, <1>5, <1>6, AboutAckMsg, AwaitKeptOf, LinkAppended
<1>8. NameKnown(i)'
  BY <1>3, <1>4, <1>5, <1>6, AwaitKeptOf, NameAppended
<1>9. ASSUME NEW a \in AnyAddr PROVE AddrKnown(i, a)' /\ KeyKnown(i, a)'
  <2>1. /\ (Has(i, a)' <=> Has(i, a)) /\ (Holds(i, a)' <=> Holds(i, a))
        /\ Lone(i, a)' <=> Lone(i, a)
    BY <1>3 DEF Has, Holds, Lone
  <2>2. AddrKnown(i, a)'
    BY <1>4, <1>5, <1>6, <2>1, AboutAckMsg, AddrAppended
  <2>3. KeyKnown(i, a)'
    BY <1>4, <1>5, <1>6, <2>1, AboutAckMsg, AwaitKeptOf, KeyAppended
  <2> QED BY <2>2, <2>3
<1> QED BY <1>7, <1>8, <1>9

\* A device that never had two addresses with one key has no rivals.
LEMMA OneOfAKey ==
  ASSUME TypeOK, DevInv, NEW i \in Index, NEW a \in AnyAddr, NEW b \in AnyAddr,
         Lone(i, a), Has(i, a), Has(i, b), Rivals(a, b)
  PROVE  a = b
<1>1. /\ dev[i] \in Device /\ Ip4Info \cap Ip6Address = {}
      /\ GoodDevice(dev[i])
  BY ConstantsAssumption DEF TypeOK, KernelTypeOK, DevInv
<1>2. CASE a \in Ip6Address
  BY <1>1, <1>2 DEF Rivals
<1>3. CASE a \notin Ip6Address /\ a # b
  <2>1. a \in Ip4Info /\ b \in Ip4Info /\ SameAddress(a, b) /\ ~dev[i].clashed
    BY <1>3 DEF Rivals, Lone
  <2>2. a \in dev[i].ip4 /\ b \in dev[i].ip4
    BY <1>1, <2>1 DEF Has, Device
  <2> QED BY <1>1, <2>1, <2>2 DEF GoodDevice
<1> QED BY <1>2, <1>3

\* What a dump reports is true when it is reported, and what is not there
\* need not be reported.
LEMMA DumpEntryKnows ==
  ASSUME TypeOK, DevInv, KnownInv, NEW e \in Entry, DumpEntry(e),
         UNCHANGED monitorVars
  PROVE  KnownInv'
<1>1. UNCHANGED <<subscribed, overrun, dev, interfaces_by_index, datagram>>
  BY DEF DumpEntry, monitorVars
<1> SUFFICES ASSUME subscribed, ~overrun, NEW i \in Index
             PROVE  /\ LinkKnown(i)' /\ NameKnown(i)'
                    /\ \A a \in AnyAddr : AddrKnown(i, a)' /\ KeyKnown(i, a)'
  BY <1>1 DEF KnownInv, AnyAddr
<1>2. /\ LinkKnown(i) /\ NameKnown(i)
      /\ \A a \in AnyAddr : AddrKnown(i, a) /\ KeyKnown(i, a)
  BY DEF KnownInv, AnyAddr
<1>3. /\ e.index \in Index /\ e.addr \in AnyAddr \cup {NoAddr}
      /\ e = [index |-> e.index, addr |-> e.addr]
      /\ NoAddr \notin AnyAddr
  BY ConstantsAssumption DEF Entry, AnyAddr
<1>4. dev[e.index] \in Device /\ dev[i] \in Device
  BY <1>3 DEF TypeOK, KernelTypeOK
<1>5. e # LinkEntry(i) /\ Awaited("link", LinkEntry(i))
        => Awaited("link", LinkEntry(i))'
  BY EntriesOf, DumpEntryKeepsAwaited DEF Kinds
<1>6. ASSUME NEW a \in AnyAddr, e # AddrEntry(i, a),
             Awaited(KindOf(a), AddrEntry(i, a))
      PROVE  Awaited(KindOf(a), AddrEntry(i, a))'
  BY <1>6, EntriesOf, DumpEntryKeepsAwaited
<1>7. ASSUME NEW a \in AnyAddr
      PROVE  /\ (Has(i, a)' <=> Has(i, a)) /\ (Holds(i, a)' <=> Holds(i, a))
             /\ Lone(i, a)' <=> Lone(i, a)
  BY <1>1 DEF Has, Holds, Lone
<1>8. CASE ~Exists(e)
  <2>1. Coming' = Coming
    BY <1>1, <1>8 DEF DumpEntry, Coming
  <2>2. e = LinkEntry(i) => dev[i].state # "present" /\ ~dev[i].up
    BY <1>8 DEF Exists, LinkEntry, DevInv, GoodDevice
  <2>3. ASSUME NEW a \in AnyAddr, e = AddrEntry(i, a) PROVE ~Has(i, a)
    BY <1>8, <2>3 DEF Exists, AddrEntry, Has, DevInv, GoodDevice
  <2>4. LinkKnown(i)'
    BY <1>1, <1>2, <1>5, <2>1, <2>2, LinkSame
  <2>5. NameKnown(i)'
    BY <1>1, <1>2, <1>5, <2>1, <2>2, NameSame
  <2>6. ASSUME NEW a \in AnyAddr PROVE AddrKnown(i, a)' /\ KeyKnown(i, a)'
    BY <1>2, <1>6, <1>7, <2>1, <2>3, AddrSame, KeySame
  <2> QED BY <2>4, <2>5, <2>6
<1>9. CASE Exists(e) /\ e.addr = NoAddr
  <2> DEFINE m == Link("RTM_NEWLINK", e.index, dev[e.index])
  <2>1. m \in LinkMsg /\ m.index = e.index /\ m.up = dev[e.index].up
          /\ m.name = dev[e.index].name
    BY <1>3, <1>4 DEF Link, LinkMsg, Device
  <2>2. sock' = Append(sock, m)
    BY <1>9 DEF DumpEntry, EntryMsg
  <2>3. m.name # NoName
    BY <1>3, <1>9, <2>1 DEF Exists, DevInv, GoodDevice
  <2> HIDE DEF m
  <2>4. Coming' = Append(Coming, m) /\ m \in Msg
    BY <1>1, <1>3, <2>1, <2>2, AboutLinkMsg, ComingAppended
  <2>5. e = LinkEntry(i) <=> i = e.index
    BY <1>3, <1>9 DEF LinkEntry
  <2>6. \A a \in AnyAddr : e # AddrEntry(i, a)
    BY <1>3, <1>9 DEF AddrEntry
  <2>7. LinkKnown(i)'
    BY <1>1, <1>2, <1>5, <2>1, <2>4, <2>5, AboutLinkMsg, LinkAppended
  <2>8. NameKnown(i)'
    BY <1>1, <1>2, <1>5, <2>1, <2>3, <2>4, <2>5, AboutLinkMsg, NameAppended
  <2>9. ASSUME NEW a \in AnyAddr PROVE AddrKnown(i, a)' /\ KeyKnown(i, a)'
    <3>1. AddrKnown(i, a)'
      BY <1>2, <1>7, <2>1, <2>4, AboutLinkMsg, AddrAppended
    <3>2. KeyKnown(i, a)'
      BY <1>2, <1>6, <1>7, <2>1, <2>4, <2>6, AboutLinkMsg, KeyAppended
    <3> QED BY <3>1, <3>2
  <2> QED BY <2>7, <2>8, <2>9
<1>10. CASE Exists(e) /\ e.addr # NoAddr
  <2> DEFINE m == Addr("RTM_NEWADDR", e.index, e.addr)
  <2>1. m \in AddrMsg /\ m.index = e.index /\ m.addr = e.addr
          /\ m.type = "RTM_NEWADDR"
    BY <1>3, <1>10 DEF Addr, AddrMsg, AnyAddr
  <2>2. sock' = Append(sock, m)
    BY <1>10 DEF DumpEntry, EntryMsg
  <2>3. e.addr \in dev[e.index].ip4 \cup dev[e.index].ip6
    BY <1>10 DEF Exists
  <2> HIDE DEF m
  <2>4. Coming' = Append(Coming, m) /\ m \in Msg
    BY <1>1, <1>3, <2>1, <2>2, AboutAddrMsg, ComingAppended
  <2>5. e # LinkEntry(i)
    BY <1>10 DEF LinkEntry
  <2>6. \A a \in AnyAddr : e = AddrEntry(i, a) <=> i = e.index /\ a = e.addr
    BY <1>3 DEF AddrEntry
  <2>7. LinkKnown(i)'
    BY <1>1, <1>2, <1>5, <2>1, <2>4, <2>5, AboutAddrMsg, LinkAppended
  <2>8. NameKnown(i)'
    BY <1>1, <1>2, <1>5, <2>4, <2>5, NameAppended
  <2>9. ASSUME NEW a \in AnyAddr PROVE AddrKnown(i, a)' /\ KeyKnown(i, a)'
    <3>1. m \in AboutAddr(i, a) => Has(i, a)
      BY <2>1, <2>3, AboutAddrMsg DEF Has
    <3>2. AddrKnown(i, a)'
      BY <1>2, <1>7, <2>1, <2>4, <3>1, AboutAddrMsg, AddrAppended
    <3>3. ASSUME m \in AboutKey(i, a), Lone(i, a), Has(i, a)
          PROVE  m.addr = a
      <4>1. i = e.index /\ Rivals(a, e.addr) /\ e.addr \in AnyAddr
        BY <1>3, <1>10, <2>1, <3>3, AboutAddrMsg
      <4>2. Has(i, e.addr)
        BY <2>3, <4>1 DEF Has
      <4> QED BY <2>1, <3>3, <4>1, <4>2, OneOfAKey
    <3>4. m \notin AboutKey(i, a) => e # AddrEntry(i, a)
      BY <2>1, <2>6, AboutAddrMsg DEF Rivals
    <3>5. KeyKnown(i, a)'
      BY <1>2, <1>6, <1>7, <2>1, <2>4, <3>3, <3>4, KeyAppended
    <3> QED BY <3>2, <3>5
  <2> QED BY <2>7, <2>8, <2>9
<1> QED BY <1>8, <1>9, <1>10

(***************************************************************************)
(* A change of a device is told as it is: message m says all there is to   *)
(* say about device i becoming d.                                          *)
(***************************************************************************)
AddrsOf(d) == d.ip4 \cup d.ip6

Tells(m, i, d) ==
  /\ m.index = i
  /\ dev[i].clashed => d.clashed
  /\ m \in LinkMsg =>
       /\ m.up = d.up
       /\ AddrsOf(d) = AddrsOf(dev[i])
       /\ m.name # NoName \/ d.state = dev[i].state \/ d.state = "gone"
  /\ m \in AddrMsg =>
       /\ d.up = dev[i].up /\ d.state = dev[i].state
       /\ \A a \in AddrsOf(d) : Rivals(a, m.addr) => a = m.addr \/ d.clashed
       /\ m.type = "RTM_NEWADDR" <=> m.addr \in AddrsOf(d)
       /\ \A a \in AnyAddr \ {m.addr} : a \in AddrsOf(d) <=> a \in AddrsOf(dev[i])

LEMMA ChangeKnows ==
  ASSUME TypeOK, KnownInv, NEW j \in Index, NEW d \in Device,
         NEW m \in LinkMsg \cup AddrMsg, ChangeDev(j, d, m), Tells(m, j, d),
         AwaitKept, UNCHANGED <<subscribed, interfaces_by_index, datagram>>
  PROVE  KnownInv'
<1> SUFFICES ASSUME subscribed', ~overrun', NEW i \in Index
             PROVE  /\ LinkKnown(i)' /\ NameKnown(i)'
                    /\ \A a \in AnyAddr : AddrKnown(i, a)' /\ KeyKnown(i, a)'
  BY DEF KnownInv, AnyAddr
<1>1. /\ dev' = [dev EXCEPT ![j] = d] /\ dev \in [Index -> Device]
      /\ subscribed /\ ~overrun /\ sock' = Append(sock, m)
  BY DEF ChangeDev, Notify, TypeOK, KernelTypeOK
<1>2. /\ LinkKnown(i) /\ NameKnown(i)
      /\ \A a \in AnyAddr : AddrKnown(i, a) /\ KeyKnown(i, a)
  BY <1>1 DEF KnownInv, AnyAddr
<1>3. m \in Msg
  BY DEF Msg
<1>4. Coming' = Append(Coming, m)
  BY <1>1, <1>3, ComingAppended
<1>5. dev'[i] = IF i = j THEN d ELSE dev[i]
  BY <1>1
<1>6. m.index = j
  BY DEF Tells
<1>7. ASSUME NEW a \in AnyAddr
      PROVE  /\ Has(i, a)' <=> a \in AddrsOf(dev'[i])
             /\ Has(i, a) <=> a \in AddrsOf(dev[i])
             /\ Holds(i, a)' <=> Holds(i, a)
  BY DEF Has, Holds, AddrsOf
<1>10. ASSUME NEW a \in AnyAddr, Lone(i, a)' PROVE Lone(i, a)
  BY <1>5, <1>10 DEF Lone, Tells
<1>8. CASE m \in LinkMsg
  <2>1. LinkKnown(i)'
    BY <1>2, <1>3, <1>4, <1>5, <1>6, <1>8, AboutLinkMsg, AwaitKeptOf, LinkAppended
    DEF Tells
  <2>2. NameKnown(i)'
    BY <1>2, <1>3, <1>4, <1>5, <1>6, <1>8, AboutLinkMsg, AwaitKeptOf, NameAppended
    DEF Tells
  <2>3. ASSUME NEW a \in AnyAddr PROVE AddrKnown(i, a)' /\ KeyKnown(i, a)'
    <3>1. Has(i, a)' <=> Has(i, a)
      BY <1>5, <1>7, <1>8 DEF Tells
    <3>2. AddrKnown(i, a)'
      BY <1>2, <1>3, <1>4, <1>7, <1>8, <3>1, AboutLinkMsg, AddrAppended
    <3>3. KeyKnown(i, a)'
      BY <1>2, <1>3, <1>4, <1>7, <1>8, <1>10, <3>1, AboutLinkMsg, AwaitKeptOf,
         KeyAppended
    <3> QED BY <3>2, <3>3
  <2> QED BY <2>1, <2>2, <2>3
<1>9. CASE m \in AddrMsg
  <2>1. dev'[i].up = dev[i].up /\ dev'[i].state = dev[i].state
    BY <1>5, <1>9 DEF Tells
  <2>2. LinkKnown(i)'
    BY <1>2, <1>3, <1>4, <1>9, <2>1, AboutAddrMsg, AwaitKeptOf, LinkAppended
  <2>3. NameKnown(i)'
    BY <1>2, <1>3, <1>4, <2>1, AwaitKeptOf, NameAppended
  <2>4. ASSUME NEW a \in AnyAddr, i # j \/ a # m.addr
        PROVE  Has(i, a)' <=> Has(i, a)
    BY <1>5, <1>7, <1>9, <2>4 DEF Tells
  <2>5. ASSUME NEW a \in AnyAddr PROVE AddrKnown(i, a)'
    <3>1. CASE i = j /\ a = m.addr
      <4>1. m \in AboutAddr(i, a)
        BY <1>6, <1>9, <3>1, AboutAddrMsg
      <4>2. m.type = "RTM_NEWADDR" <=> Has(i, a)'
        BY <1>5, <1>7, <1>9, <3>1 DEF Tells
      <4> QED BY <1>2, <1>3, <1>4, <4>1, <4>2, AddrAppended
    <3>2. CASE ~(i = j /\ a = m.addr)
      <4>1. m \notin AboutAddr(i, a)
        BY <1>6, <1>9, <3>2, AboutAddrMsg
      <4> QED BY <1>2, <1>3, <1>4, <1>7, <2>4, <3>2, <4>1, AddrAppended
    <3> QED BY <3>1, <3>2
  <2>6. ASSUME NEW a \in AnyAddr PROVE KeyKnown(i, a)'
    <3>1. CASE i = j /\ Rivals(a, m.addr)
      <4>1. m \in AboutKey(i, a)
        BY <1>6, <1>9, <3>1, AboutAddrMsg
      <4>2. ASSUME Lone(i, a)', Has(i, a)'
            PROVE  m.type = "RTM_NEWADDR" /\ m.addr = a
        <5>1. a \in AddrsOf(d) /\ dev'[i] = d
          BY <1>5, <1>7, <3>1, <4>2
        <5>2. a = m.addr
          <6>1. a \in Ip6Address => a = m.addr
            BY <3>1, ConstantsAssumption DEF Rivals
          <6>2. a \notin Ip6Address => ~d.clashed
            BY <4>2, <5>1 DEF Lone
          <6> QED BY <1>9, <3>1, <5>1, <6>1, <6>2 DEF Tells
        <5> QED BY <1>9, <3>1, <5>1, <5>2 DEF Tells
      <4> QED BY <1>2, <1>3, <1>4, <4>1, <4>2, KeyAppended
    <3>2. CASE ~(i = j /\ Rivals(a, m.addr))
      <4>1. m \notin AboutKey(i, a) /\ (i # j \/ a # m.addr)
        BY <1>6, <1>9, <3>2, AboutAddrMsg DEF Rivals
      <4> QED BY <1>2, <1>3, <1>4, <1>7, <1>10, <2>4, <4>1, AwaitKeptOf, KeyAppended
    <3> QED BY <3>1, <3>2
  <2> QED BY <2>2, <2>3, <2>5, <2>6
<1> QED BY <1>8, <1>9

\* A message that names device i names it as it is once its record is d.
NamesIt(m, i, d) ==
  /\ m \in LinkMsg => m.index = i /\ m.name \in {NoName, d.name}
  /\ \/ d.renamed
     \/ ~subscribed
     \/ d.name = dev[i].name /\ ~dev[i].renamed
     \/ dev[i].state = "unborn"

LEMMA ChangeKeepsNames ==
  ASSUME TypeOK, pc # "refused", DevInv, NamesInv, StartInv, NEW j \in Index,
         NEW d \in Device, NEW m \in LinkMsg \cup AddrMsg, ChangeDev(j, d, m),
         NamesIt(m, j, d), UNCHANGED <<interfaces_by_index, datagram>>
  PROVE  NamesInv'
<1> SUFFICES ASSUME NEW i \in Index PROVE NameRight(i)'
  BY DEF NamesInv
<1>1. /\ dev' = [dev EXCEPT ![j] = d] /\ dev \in [Index -> Device]
      /\ m \in Msg
      /\ (sock' = Append(sock, m) /\ subscribed) \/ sock' = sock
  BY DEF ChangeDev, Notify, TypeOK, KernelTypeOK, Msg
<1>2. Coming \in Seq(Msg) /\ (Coming' = Append(Coming, m) \/ Coming' = Coming)
  BY <1>1, ComingType, ComingAppended DEF Coming
<1>3. \A k \in DOMAIN Coming' :
        (\E l \in DOMAIN Coming : Coming'[k] = Coming[l]) \/ Coming'[k] = m
  <2>1. CASE Coming' = Append(Coming, m)
    BY <1>2, <2>1
  <2> QED BY <1>2, <2>1
<1>4. NameRight(i)
  BY DEF NamesInv
<1>5. CASE i # j
  <2>1. dev'[i] = dev[i] /\ m \notin NamesLink(i)
    BY <1>1, <1>5 DEF NamesIt, NamesLink, AboutLink
  <2>2. CASE dev[i].renamed
    BY <2>1, <2>2 DEF NameRight
  <2>3. CASE ~dev[i].renamed
    BY <1>3, <1>4, <2>1, <2>3, NameStaysRight DEF NameRight
  <2> QED BY <2>2, <2>3
<1>6. CASE i = j
  <2>1. dev'[i] = d /\ (m \in NamesLink(i) => m.name = d.name)
    BY <1>1, <1>6 DEF NamesIt, NamesLink, AboutLink
  <2>2. CASE d.renamed
    BY <2>1, <2>2 DEF NameRight
  <2>3. CASE ~subscribed
    <3>1. /\ sock = <<>> /\ datagram = <<>>
          /\ interfaces_by_index = [k \in Index |-> Listener!NewInterfaceInfo]
      BY <2>3 DEF StartInv
    <3>2. sock' = <<>>
      BY <2>3, <3>1 DEF ChangeDev, Notify
    <3>3. Coming' = <<>>
      BY <3>1, <3>2 DEF Coming
    <3> QED BY <3>1, <3>3 DEF NameRight, Listener!NewInterfaceInfo
  <2>4. CASE d.name = dev[i].name /\ ~dev[i].renamed
    BY <1>3, <1>4, <2>1, <2>4 DEF NameRight
  <2>5. CASE dev[i].state = "unborn"
    <3>1. dev[i].name = NoName /\ ~dev[i].renamed
      BY <2>5 DEF DevInv, GoodDevice
    <3>2. /\ \A k \in DOMAIN Coming : Coming[k] \notin NamesLink(i)
          /\ ~interfaces_by_index[i].is_public
      BY <1>4, <3>1 DEF NameRight, NamesLink
    <3> QED BY <1>3, <2>1, <3>2 DEF NameRight
  <2> QED BY <1>6, <2>2, <2>3, <2>4, <2>5 DEF NamesIt
<1> QED BY <1>5, <1>6

LEMMA WithAddr4Fields ==
  ASSUME NEW d \in Device, NEW a \in Ip4Info, NEW e, e = WithAddr4(d, a)
  PROVE  /\ e \in Device /\ e.up = d.up /\ e.state = d.state
         /\ e.name = d.name /\ e.renamed = d.renamed
         /\ AddrsOf(e) = AddrsOf(d) \cup {a}
         /\ d.clashed => e.clashed
         /\ e.ip4 = d.ip4 \cup {a} /\ e.ip6 = d.ip6
         /\ \A b \in d.ip4 : SameAddress(a, b) => e.clashed
<1>1. e \in Device
  BY WithAddr4Type
<1>2. /\ e.up = d.up /\ e.state = d.state /\ e.name = d.name
      /\ e.renamed = d.renamed /\ e.ip4 = d.ip4 \cup {a} /\ e.ip6 = d.ip6
      /\ e.clashed = (d.clashed \/ \E b \in d.ip4 : SameAddress(a, b))
  BY DEF WithAddr4, Device
<1> QED BY <1>1, <1>2 DEF AddrsOf

\* A change of another program, with the rest of CaughtUpInv.
LEMMA ChangeCatchesUp ==
  ASSUME TypeOK, CaughtUpInv, NEW j \in Index, NEW d \in Device, GoodDevice(d),
         NEW m \in LinkMsg \cup AddrMsg, Tells(m, j, d), NamesIt(m, j, d),
         ChangeDev(j, d, m), pc # "refused",
         UNCHANGED <<subscribed, dump, failed, monitorVars>>
  PROVE  CaughtUpInv'
<1>1. UNCHANGED <<pc, datagram, interfaces_by_index, unsent_messages>>
  BY DEF monitorVars
<1>2. KnownInv'
  <2>1. AwaitKept
    BY <1>1, QuietKeepsAwaited
  <2> QED BY <1>1, <2>1, ChangeKnows DEF CaughtUpInv
<1>3. DevInv'
  <2>1. dev' = [dev EXCEPT ![j] = d] /\ dev \in [Index -> Device]
    BY DEF ChangeDev, TypeOK, KernelTypeOK
  <2> QED BY <2>1 DEF CaughtUpInv, DevInv
<1>4. StartInv'
  BY <1>1 DEF CaughtUpInv, StartInv, ChangeDev, Notify
<1>5. PublicInv'
  BY <1>1 DEF CaughtUpInv, PublicInv
<1>6. NamesInv'
  BY <1>1, ChangeKeepsNames DEF CaughtUpInv
<1> QED BY <1>2, <1>3, <1>4, <1>5, <1>6 DEF CaughtUpInv

LEMMA OtherProgramsCatchUp ==
  ASSUME TypeOK, CaughtUpInv, pc # "refused", OtherPrograms, UNCHANGED monitorVars
  PROVE  CaughtUpInv'
<1>1. PICK i \in Index :
        \/ \E n \in Name : CreateLink(i, n) \/ RenameLink(i, n)
        \/ SetLinkFlag(i) \/ NamelessNotice(i) \/ RemoveLink(i)
        \/ \E a \in Ip4Info : AddAddr4(i, a) \/ DelAddr4(i, a)
        \/ \E a \in Ip6Address : AddAddr6(i, a) \/ DelAddr6(i, a)
  BY DEF OtherPrograms
<1>2. /\ dev[i] \in Device
      /\ GoodDevice(dev[i])
  BY DEF TypeOK, KernelTypeOK, CaughtUpInv, DevInv
<1>3. ASSUME NEW d \in Device, NEW t \in {"RTM_NEWLINK", "RTM_DELLINK"}, NEW c \in Device,
             NEW who, Change(i, d, Link(t, i, c), who), GoodDevice(d), c.up = d.up,
             AddrsOf(d) = AddrsOf(dev[i]), dev[i].clashed => d.clashed,
             c.name \in {NoName, d.name},
             \/ d.renamed = subscribed
             \/ d.name = dev[i].name /\ d.renamed = dev[i].renamed
             \/ dev[i].state = "unborn",
             c.name # NoName \/ d.state = dev[i].state \/ d.state = "gone"
      PROVE  CaughtUpInv'
  <2>1. Link(t, i, c) \in LinkMsg /\ Link(t, i, c) \notin AddrMsg
    BY DEF Link, LinkMsg, AddrMsg, Device
  <2>2. Tells(Link(t, i, c), i, d)
    BY <1>3, <2>1 DEF Tells, Link
  <2>3. NamesIt(Link(t, i, c), i, d)
    BY <1>3 DEF NamesIt, Link
  <2> QED BY <1>3, <2>1, <2>2, <2>3, ChangeCatchesUp DEF Change
<1>4. ASSUME NEW d \in Device, NEW t \in {"RTM_NEWADDR", "RTM_DELADDR"}, NEW a \in AnyAddr,
             NEW who, Change(i, d, Addr(t, i, a), who), GoodDevice(d),
             d.up = dev[i].up, d.state = dev[i].state, d.name = dev[i].name,
             d.renamed = dev[i].renamed, dev[i].clashed => d.clashed,
             \A b \in AddrsOf(d) : Rivals(b, a) => b = a \/ d.clashed,
             AddrsOf(d) = IF t = "RTM_NEWADDR" THEN AddrsOf(dev[i]) \cup {a}
                          ELSE AddrsOf(dev[i]) \ {a}
      PROVE  CaughtUpInv'
  <2>1. Addr(t, i, a) \in AddrMsg /\ Addr(t, i, a) \notin LinkMsg
    BY DEF Addr, LinkMsg, AddrMsg, AnyAddr
  <2>2. Tells(Addr(t, i, a), i, d)
    BY <1>4, <2>1 DEF Tells, Addr
  <2>3. NamesIt(Addr(t, i, a), i, d)
    BY <1>4, <2>1 DEF NamesIt
  <2> QED BY <1>4, <2>1, <2>2, <2>3, ChangeCatchesUp DEF Change
<1>5. ASSUME NEW n \in Name, CreateLink(i, n)
      PROVE  CaughtUpInv'
  <2> DEFINE d == [Unborn EXCEPT !.state = "present", !.name = n]
  <2>1. d \in Device /\ d.up = FALSE /\ d.name = n /\ d.state = "present"
          /\ d.ip4 = {} /\ d.ip6 = {}
    BY DEF Device, Unborn
  <2>2. Change(i, d, Link("RTM_NEWLINK", i, d), {}) /\ dev[i].state = "unborn"
    BY <1>5 DEF CreateLink
  <2>3. GoodDevice(d) /\ d.name # NoName /\ AddrsOf(d) = AddrsOf(dev[i])
    BY <1>2, <2>1, <2>2, ConstantsAssumption DEF GoodDevice, AddrsOf
  <2>4. ~dev[i].clashed
    BY <1>2, <2>2 DEF GoodDevice
  <2> HIDE DEF d
  <2> QED BY <1>3, <2>1, <2>2, <2>3, <2>4
<1>6. ASSUME NEW n \in Name, RenameLink(i, n)
      PROVE  CaughtUpInv'
  <2> DEFINE d == [dev[i] EXCEPT !.name = n, !.renamed = subscribed]
  <2>4. subscribed \in BOOLEAN
    BY DEF TypeOK, KernelTypeOK
  <2>1. d \in Device /\ d.up = dev[i].up /\ d.name = n /\ d.state = dev[i].state
          /\ AddrsOf(d) = AddrsOf(dev[i]) /\ d.renamed = subscribed
          /\ d.ip4 = dev[i].ip4 /\ d.clashed = dev[i].clashed
    BY <1>2, <2>4 DEF Device, AddrsOf
  <2>2. Change(i, d, Link("RTM_NEWLINK", i, d), {i}) /\ dev[i].state = "present"
    BY <1>6 DEF RenameLink
  <2>3. GoodDevice(d)
    BY <1>2, <2>1, <2>2, ConstantsAssumption DEF GoodDevice
  <2> HIDE DEF d
  <2> QED BY <1>3, <2>1, <2>2, <2>3
<1>7. CASE SetLinkFlag(i)
  <2> DEFINE d == [dev[i] EXCEPT !.up = ~@]
  <2>1. d \in Device /\ d.name = dev[i].name /\ d.state = dev[i].state
          /\ AddrsOf(d) = AddrsOf(dev[i]) /\ d.renamed = dev[i].renamed
          /\ d.ip4 = dev[i].ip4 /\ d.clashed = dev[i].clashed
    BY <1>2 DEF Device, AddrsOf
  <2>2. Change(i, d, Link("RTM_NEWLINK", i, d), {i}) /\ dev[i].state = "present"
    BY <1>7 DEF SetLinkFlag
  <2>3. GoodDevice(d)
    BY <1>2, <2>1, <2>2 DEF GoodDevice
  <2> HIDE DEF d
  <2> QED BY <1>3, <2>1, <2>2, <2>3
<1>8. CASE NamelessNotice(i)
  <2> DEFINE c == [dev[i] EXCEPT !.name = NoName]
  <2>1. c \in Device /\ c.up = dev[i].up /\ c.name = NoName
    BY <1>2 DEF Device
  <2>2. Change(i, dev[i], Link("RTM_NEWLINK", i, c), {})
    BY <1>8 DEF NamelessNotice
  <2> HIDE DEF c
  <2> QED BY <1>2, <1>3, <2>1, <2>2
<1>9. CASE RemoveLink(i)
  <2> DEFINE d == [dev[i] EXCEPT !.state = "gone"]
  <2>1. d \in Device /\ d.up = dev[i].up /\ d.state = "gone"
          /\ d.ip4 = dev[i].ip4 /\ d.ip6 = dev[i].ip6 /\ d.name = dev[i].name
          /\ d.renamed = dev[i].renamed /\ d.clashed = dev[i].clashed
    BY <1>2 DEF Device
  <2>2. /\ Change(i, d, Link("RTM_DELLINK", i, dev[i]), {i})
        /\ ~dev[i].up /\ dev[i].ip4 = {} /\ dev[i].ip6 = {}
    BY <1>9 DEF RemoveLink
  <2>3. GoodDevice(d) /\ AddrsOf(d) = AddrsOf(dev[i])
    BY <2>1, <2>2 DEF GoodDevice, AddrsOf
  <2> HIDE DEF d
  <2> QED BY <1>2, <1>3, <2>1, <2>2, <2>3
<1>10. ASSUME NEW a \in Ip4Info, AddAddr4(i, a) \/ DelAddr4(i, a)
       PROVE  CaughtUpInv'
  <2> DEFINE dA == WithAddr4(dev[i], a)
             dD == [dev[i] EXCEPT !.ip4 = @ \ {a}]
  <2>1. dev[i].state = "present" /\ Ip4Info \cap Ip6Address = {}
    BY <1>10, ConstantsAssumption DEF AddAddr4, DelAddr4
  <2>2. CASE AddAddr4(i, a)
    <3>1. Change(i, dA, Addr("RTM_NEWADDR", i, a), {i})
      BY <2>2 DEF AddAddr4
    <3>2. /\ dA \in Device /\ dA.up = dev[i].up /\ dA.state = dev[i].state
          /\ dA.name = dev[i].name /\ dA.renamed = dev[i].renamed
          /\ AddrsOf(dA) = AddrsOf(dev[i]) \cup {a}
          /\ dev[i].clashed => dA.clashed
          /\ dA.ip4 = dev[i].ip4 \cup {a} /\ dA.ip6 = dev[i].ip6
          /\ \A b \in dev[i].ip4 : SameAddress(a, b) => dA.clashed
      BY <1>2, WithAddr4Fields
    <3> HIDE DEF dA
    <3>3. GoodDevice(dA)
      BY <1>2, <2>1, <3>2 DEF GoodDevice, SameAddress
    <3>4. ASSUME NEW b \in AddrsOf(dA), Rivals(b, a)
          PROVE  b = a \/ dA.clashed
      BY <1>2, <2>1, <3>2, <3>4 DEF Rivals, AddrsOf, SameAddress, Device
    <3> QED BY <1>4, <3>1, <3>2, <3>3, <3>4 DEF AnyAddr
  <2>3. CASE DelAddr4(i, a)
    <3>1. Change(i, dD, Addr("RTM_DELADDR", i, a), {i}) /\ a \in dev[i].ip4
      BY <2>3 DEF DelAddr4
    <3>2. /\ dD \in Device /\ dD.up = dev[i].up /\ dD.state = dev[i].state
          /\ dD.name = dev[i].name /\ dD.renamed = dev[i].renamed
          /\ dD.clashed = dev[i].clashed
          /\ dD.ip4 = dev[i].ip4 \ {a} /\ dD.ip6 = dev[i].ip6
      BY <1>2 DEF Device
    <3> HIDE DEF dD
    <3>3. AddrsOf(dD) = AddrsOf(dev[i]) \ {a}
      BY <1>2, <2>1, <3>2 DEF AddrsOf, Device
    <3>4. GoodDevice(dD)
      BY <1>2, <2>1, <3>2 DEF GoodDevice
    <3>5. ASSUME NEW b \in AddrsOf(dD), Rivals(b, a)
          PROVE  b = a \/ dD.clashed
      BY <1>2, <2>1, <3>1, <3>2, <3>5 DEF Rivals, AddrsOf, GoodDevice, Device
    <3> QED BY <1>4, <3>1, <3>2, <3>3, <3>4, <3>5 DEF AnyAddr
  <2> QED BY <1>10, <2>2, <2>3
<1>11. ASSUME NEW a \in Ip6Address, AddAddr6(i, a) \/ DelAddr6(i, a)
       PROVE  CaughtUpInv'
  <2> DEFINE dA == [dev[i] EXCEPT !.ip6 = @ \cup {a}]
             dD == [dev[i] EXCEPT !.ip6 = @ \ {a}]
  <2>1. /\ dA \in Device /\ dA.up = dev[i].up /\ dA.state = dev[i].state
        /\ dA.name = dev[i].name /\ AddrsOf(dA) = AddrsOf(dev[i]) \cup {a}
        /\ dA.renamed = dev[i].renamed /\ dA.clashed = dev[i].clashed
        /\ dA.ip4 = dev[i].ip4
    BY <1>2 DEF Device, AddrsOf
  <2>2. /\ dD \in Device /\ dD.up = dev[i].up /\ dD.state = dev[i].state
        /\ dD.name = dev[i].name /\ AddrsOf(dD) = AddrsOf(dev[i]) \ {a}
        /\ dD.renamed = dev[i].renamed /\ dD.clashed = dev[i].clashed
        /\ dD.ip4 = dev[i].ip4
    BY <1>2, ConstantsAssumption DEF Device, AddrsOf
  <2>3. /\ dev[i].state = "present"
        /\ \/ Change(i, dA, Addr("RTM_NEWADDR", i, a), {})
           \/ Change(i, dD, Addr("RTM_DELADDR", i, a), {})
    BY <1>11 DEF AddAddr6, DelAddr6
  <2>4. GoodDevice(dA) /\ GoodDevice(dD)
    BY <1>2, <2>1, <2>2, <2>3 DEF GoodDevice
  <2>5. \A b \in AnyAddr : Rivals(b, a) => b = a
    BY ConstantsAssumption DEF Rivals
  <2>6. AddrsOf(dA) \subseteq AnyAddr /\ AddrsOf(dD) \subseteq AnyAddr
    BY <2>1, <2>2 DEF AddrsOf, Device, AnyAddr
  <2> HIDE DEF dA, dD
  <2>7. CASE Change(i, dA, Addr("RTM_NEWADDR", i, a), {})
    BY <1>4, <2>1, <2>3, <2>4, <2>5, <2>6, <2>7 DEF AnyAddr
  <2>8. CASE Change(i, dD, Addr("RTM_DELADDR", i, a), {})
    BY <1>4, <2>2, <2>3, <2>4, <2>5, <2>6, <2>8 DEF AnyAddr
  <2> QED BY <2>3, <2>7, <2>8
<1> QED BY <1>1, <1>5, <1>6, <1>7, <1>8, <1>9, <1>10, <1>11

(***************************************************************************)
(* The monitor takes the next message out of the datagram.                 *)
(***************************************************************************)
LEMMA TakesMessage ==
  ASSUME Inv, pc \in {"message", "created", "address", "flags"}
  PROVE  /\ datagram # <<>> /\ datagram \in Seq(Msg)
         /\ Head(datagram) \in Msg
BY HeadOf DEF Inv, TypeOK, MonitorTypeOK, DatagramInv, Reading

LEMMA TakenAwaits ==
  ASSUME pc \in {"message", "flags"}, NextMessage,
         UNCHANGED <<unsent_messages, kernelVars>>
  PROVE  AwaitKept /\ pc' \in {"message", "flush"}
<1>1. pc' \in {"message", "flush"}
  BY DEF NextMessage
<1>2. ToAsk(pc) = {}
  BY AskingPlaces
<1> QED BY <1>1, <1>2, QuietKeepsAwaited DEF kernelVars

LEMMA HandleAckKnows ==
  ASSUME Inv, KnownInv, HandleAck
  PROVE  KnownInv'
<1> DEFINE m == Head(datagram)
<1>1. /\ pc = "message" /\ IsAck(m) /\ NextMessage /\ datagram' = Tail(datagram)
      /\ UNCHANGED <<kernelVars, unsent_messages, interfaces_by_index>>
  BY DEF HandleAck, tableVars, NextMessage
<1>2. UNCHANGED <<dev, subscribed, overrun, sock>> /\ AwaitKept
  BY <1>1, TakenAwaits DEF kernelVars
<1>3. datagram # <<>> /\ m \in AckMsg
  BY <1>1, TakesMessage, MsgCases
<1>4. TypeOK /\ Coming' = Tail(Coming) /\ Coming # <<>> /\ Head(Coming) = m
  BY <1>1, <1>2, <1>3, ComingTaken DEF Inv
<1> HIDE DEF m
<1> SUFFICES ASSUME subscribed, ~overrun, NEW i \in Index
             PROVE  /\ LinkKnown(i)' /\ NameKnown(i)'
                    /\ \A a \in AnyAddr : AddrKnown(i, a)' /\ KeyKnown(i, a)'
  BY <1>2 DEF KnownInv, AnyAddr
<1>5. /\ LinkKnown(i) /\ NameKnown(i)
      /\ \A a \in AnyAddr : AddrKnown(i, a) /\ KeyKnown(i, a)
  BY DEF KnownInv, AnyAddr
<1>6. LinkKnown(i)'
  BY <1>1, <1>2, <1>3, <1>4, <1>5, AboutAckMsg, AwaitKeptOf, LinkTaken
<1>7. NameKnown(i)'
  BY <1>1, <1>2, <1>3, <1>4, <1>5, AboutAckMsg, AwaitKeptOf, NameTaken
<1>8. ASSUME NEW a \in AnyAddr PROVE AddrKnown(i, a)' /\ KeyKnown(i, a)'
  <2>1. /\ (Has(i, a)' <=> Has(i, a)) /\ (Holds(i, a)' <=> Holds(i, a))
        /\ Lone(i, a)' <=> Lone(i, a)
    BY <1>1, <1>2 DEF Has, Holds, Lone
  <2>2. AddrKnown(i, a)'
    BY <1>3, <1>4, <1>5, <2>1, AboutAckMsg, AddrTaken
  <2>3. KeyKnown(i, a)'
    BY <1>2, <1>3, <1>4, <1>5, <2>1, AboutAckMsg, AwaitKeptOf, KeyTaken
  <2> QED BY <2>2, <2>3
<1> QED BY <1>6, <1>7, <1>8

LEMMA UpdateLinkActiveKnows ==
  ASSUME Inv, KnownInv, PublicInv, UpdateLinkActive
  PROVE  KnownInv'
<1> DEFINE m == Head(datagram)
           old == interfaces_by_index[m.index]
           info == [old EXCEPT !.link_active = m.up]
<1>1. /\ pc \in {"message", "flags"} /\ IsLink(m)
      /\ pc = "message" => ~ShouldAnnounce(m)
      /\ SetInfo(m.index, info) /\ NextMessage /\ datagram' = Tail(datagram)
      /\ UNCHANGED <<kernelVars, unsent_messages>>
  BY DEF UpdateLinkActive, Inv, DatagramInv, seqVars, NextMessage
<1>2. UNCHANGED <<dev, subscribed, overrun, sock>> /\ AwaitKept
  BY <1>1, TakenAwaits DEF kernelVars
<1>3. datagram # <<>> /\ m \in LinkMsg
  BY <1>1, TakesMessage, MsgCases
<1>4. TypeOK /\ Coming' = Tail(Coming) /\ Coming # <<>> /\ Head(Coming) = m
  BY <1>1, <1>2, <1>3, ComingTaken DEF Inv
<1>5. /\ m.index \in Index /\ old \in Listener!NetInterfaceInfo
      /\ interfaces_by_index \in [Index -> Listener!NetInterfaceInfo]
  BY <1>3 DEF Inv, TypeOK, MonitorTypeOK, LinkMsg
<1>6. /\ info.link_active = m.up /\ info.is_public = old.is_public
      /\ info.ip4_addresses = old.ip4_addresses
      /\ info.ip6_addresses = old.ip6_addresses
  BY <1>5 DEF Listener!NetInterfaceInfo
<1>7. m.name # NoName => old.is_public
  BY <1>1 DEF PublicInv, ShouldAnnounce
<1> HIDE DEF m, info
<1> SUFFICES ASSUME subscribed, ~overrun, NEW i \in Index
             PROVE  /\ LinkKnown(i)' /\ NameKnown(i)'
                    /\ \A a \in AnyAddr : AddrKnown(i, a)' /\ KeyKnown(i, a)'
  BY <1>2 DEF KnownInv, AnyAddr
<1>8. /\ LinkKnown(i) /\ NameKnown(i)
      /\ \A a \in AnyAddr : AddrKnown(i, a) /\ KeyKnown(i, a)
  BY DEF KnownInv, AnyAddr
<1>9. interfaces_by_index'[i] = IF i = m.index THEN info ELSE interfaces_by_index[i]
  BY <1>1, <1>5 DEF SetInfo
<1>10. LinkKnown(i)'
  BY <1>2, <1>3, <1>4, <1>6, <1>8, <1>9, AboutLinkMsg, AwaitKeptOf, LinkTaken
<1>11. NameKnown(i)'
  BY <1>2, <1>3, <1>4, <1>6, <1>7, <1>8, <1>9, AboutLinkMsg, AwaitKeptOf, NameTaken
<1>12. ASSUME NEW a \in AnyAddr PROVE AddrKnown(i, a)' /\ KeyKnown(i, a)'
  <2>1. /\ (Has(i, a)' <=> Has(i, a)) /\ (Holds(i, a)' <=> Holds(i, a))
        /\ Lone(i, a)' <=> Lone(i, a)
    BY <1>2, <1>6, <1>9 DEF Has, Holds, Lone
  <2>2. AddrKnown(i, a)'
    BY <1>3, <1>4, <1>8, <2>1, AboutLinkMsg, AddrTaken
  <2>3. KeyKnown(i, a)'
    BY <1>2, <1>3, <1>4, <1>8, <2>1, AboutLinkMsg, AwaitKeptOf, KeyTaken
  <2> QED BY <2>2, <2>3
<1> QED BY <1>10, <1>11, <1>12

\* What HandleRead's insert and erase do to the addresses of an interface.
AddrsIn(info) == info.ip4_addresses \cup info.ip6_addresses

LEMMA AddrInfoHolds ==
  ASSUME TypeOK, NEW m \in AddrMsg, NEW a \in AnyAddr,
         NEW before, before = AddrsIn(interfaces_by_index[m.index]),
         NEW after, after = AddrsIn(AddrInfo(m))
  PROVE  /\ a \in after => IF a = m.addr THEN m.type = "RTM_NEWADDR" ELSE a \in before
         /\ a \in before /\ ~Rivals(a, m.addr) => a \in after
         /\ a = m.addr /\ m.type = "RTM_NEWADDR"
              /\ (\A b \in before : Rivals(a, b) => a = b) => a \in after
<1> DEFINE old == interfaces_by_index[m.index]
           new == AddrInfo(m)
<1>1. /\ old \in Listener!NetInterfaceInfo
      /\ old.ip4_addresses \subseteq Ip4Info
      /\ old.ip6_addresses \subseteq Ip6Address
      /\ m.addr \in AnyAddr
  BY DEF TypeOK, MonitorTypeOK, AddrMsg, Listener!NetInterfaceInfo, AnyAddr
<1>2. Ip4Info \cap Ip6Address = {}
  BY ConstantsAssumption
<1>3. CASE m.addr \in Ip4Info
  <2>1. new.ip6_addresses = old.ip6_addresses
    BY <1>1, <1>3 DEF AddrInfo, Listener!NetInterfaceInfo
  <2>2. CASE m.type = "RTM_NEWADDR"
    <3>1. new.ip4_addresses = Insert4(old.ip4_addresses, m.addr)
      BY <1>1, <1>3, <2>2 DEF AddrInfo, Listener!NetInterfaceInfo
    <3>2. /\ Insert4(old.ip4_addresses, m.addr) \subseteq old.ip4_addresses \cup {m.addr}
          /\ old.ip4_addresses \subseteq Insert4(old.ip4_addresses, m.addr)
      BY DEF Insert4
    <3>3. (\A b \in old.ip4_addresses : Rivals(m.addr, b) => m.addr = b)
            => m.addr \in Insert4(old.ip4_addresses, m.addr)
      BY <1>1, <1>3 DEF Insert4, Rivals, SameAddress, Listener!SameKey
    <3> QED BY <1>1, <1>2, <1>3, <2>1, <2>2, <3>1, <3>2, <3>3 DEF AddrsIn
  <2>3. CASE m.type # "RTM_NEWADDR"
    <3>1. new.ip4_addresses = Erase4(old.ip4_addresses, m.addr)
      BY <1>1, <1>3, <2>3 DEF AddrInfo, Listener!NetInterfaceInfo
    <3>2. /\ Erase4(old.ip4_addresses, m.addr) \subseteq old.ip4_addresses \ {m.addr}
          /\ \A b \in old.ip4_addresses :
               ~Rivals(b, m.addr) => b \in Erase4(old.ip4_addresses, m.addr)
      BY <1>1, <1>3 DEF Erase4, Rivals, SameAddress, Listener!SameKey
    <3> QED BY <1>1, <1>2, <1>3, <2>1, <2>3, <3>1, <3>2 DEF AddrsIn
  <2> QED BY <2>2, <2>3
<1>4. CASE m.addr \notin Ip4Info
  <2>1. /\ new.ip4_addresses = old.ip4_addresses
        /\ new.ip6_addresses = IF m.type = "RTM_NEWADDR"
                               THEN old.ip6_addresses \cup {m.addr}
                               ELSE old.ip6_addresses \ {m.addr}
    BY <1>1, <1>4 DEF AddrInfo, Listener!NetInterfaceInfo
  <2> HIDE DEF new, old
  <2> QED BY <1>1, <1>4, <2>1 DEF AddrsIn, Rivals, new, old
<1> QED BY <1>3, <1>4

LEMMA HandleAddrKnows ==
  ASSUME Inv, KnownInv, DevInv, HandleAddr
  PROVE  KnownInv'
<1> DEFINE m == Head(datagram)
           old == interfaces_by_index[m.index]
           info == AddrInfo(m)
<1>1. /\ pc = "message" /\ IsAddr(m)
      /\ SetInfo(m.index, info) /\ NextMessage /\ datagram' = Tail(datagram)
      /\ UNCHANGED <<kernelVars, unsent_messages>>
  BY DEF HandleAddr, seqVars, NextMessage
<1>2. UNCHANGED <<dev, subscribed, overrun, sock>> /\ AwaitKept
  BY <1>1, TakenAwaits DEF kernelVars
<1>3. datagram # <<>> /\ m \in AddrMsg
  BY <1>1, TakesMessage, MsgCases
<1>4. TypeOK /\ Coming' = Tail(Coming) /\ Coming # <<>> /\ Head(Coming) = m
  BY <1>1, <1>2, <1>3, ComingTaken DEF Inv
<1>5. /\ m.index \in Index /\ old \in Listener!NetInterfaceInfo
      /\ interfaces_by_index \in [Index -> Listener!NetInterfaceInfo]
  BY <1>3 DEF Inv, TypeOK, MonitorTypeOK, AddrMsg
<1>6. info.link_active = old.link_active /\ info.is_public = old.is_public
  BY <1>5 DEF AddrInfo, Listener!NetInterfaceInfo
<1> HIDE DEF m
<1> SUFFICES ASSUME subscribed, ~overrun, NEW i \in Index
             PROVE  /\ LinkKnown(i)' /\ NameKnown(i)'
                    /\ \A a \in AnyAddr : AddrKnown(i, a)' /\ KeyKnown(i, a)'
  BY <1>2 DEF KnownInv, AnyAddr
<1>7. /\ LinkKnown(i) /\ NameKnown(i)
      /\ \A a \in AnyAddr : AddrKnown(i, a) /\ KeyKnown(i, a)
  BY DEF KnownInv, AnyAddr
<1>8. interfaces_by_index'[i] = IF i = m.index THEN info ELSE interfaces_by_index[i]
  BY <1>1, <1>5 DEF SetInfo
<1>9. ASSUME NEW a \in AnyAddr PROVE AddrKnown(i, a)' /\ KeyKnown(i, a)'
  <2>1. (Has(i, a)' <=> Has(i, a)) /\ (Lone(i, a)' <=> Lone(i, a))
    BY <1>2 DEF Has, Lone
  <2>2. /\ Holds(i, a)' <=> a \in AddrsIn(interfaces_by_index'[i])
        /\ Holds(i, a) <=> a \in AddrsIn(interfaces_by_index[i])
    BY DEF Holds, AddrsIn
  <2>3. Holds(i, a)' => IF m \in AboutAddr(i, a) THEN m.type = "RTM_NEWADDR"
                        ELSE Holds(i, a)
    <3>1. CASE i = m.index
      BY <1>3, <1>4, <1>8, <2>2, <3>1, AboutAddrMsg, AddrInfoHolds
    <3>2. CASE i # m.index
      BY <1>3, <1>8, <2>2, <3>2, AboutAddrMsg
    <3> QED BY <3>1, <3>2
  <2>4. AddrKnown(i, a)'
    BY <1>4, <1>7, <2>1, <2>3, AddrTaken
  <2>5. ASSUME m \in AboutKey(i, a), Lone(i, a), Has(i, a), m.type = "RTM_NEWADDR",
               m.addr = a, Silent(Tail(Coming), AboutKey(i, a))
        PROVE  Holds(i, a)'
    <3>1. i = m.index
      BY <1>3, <2>5, AboutAddrMsg
    <3>2. ASSUME NEW b \in AddrsIn(old), Rivals(a, b), a # b
          PROVE  FALSE
      <4>1. b \in AnyAddr /\ Holds(i, b)
        BY <1>5, <3>1, <3>2 DEF AddrsIn, Holds, AnyAddr, Listener!NetInterfaceInfo
      <4>2. AboutAddr(i, b) \subseteq AboutKey(i, a) /\ m \notin AboutAddr(i, b)
        BY <2>5, <3>2 DEF AboutAddr, AboutKey
      <4>3. Silent(Tail(Coming), AboutAddr(i, b))
        BY <2>5, <4>2 DEF Silent
      <4>4. Silent(Coming, AboutAddr(i, b))
        BY <1>4, <4>2, <4>3, ComingType, WordTaken
      <4>5. Has(i, b)
        BY <1>7, <4>1, <4>4 DEF AddrKnown
      <4> QED BY <1>4, <2>5, <3>2, <4>1, <4>5, OneOfAKey
    <3> QED BY <1>3, <1>4, <1>8, <2>2, <2>5, <3>1, <3>2, AddrInfoHolds
  <2>6. ASSUME m \notin AboutKey(i, a), Holds(i, a)
        PROVE  Holds(i, a)'
    <3>1. CASE i = m.index
      <4>1. ~Rivals(a, m.addr)
        BY <1>3, <2>6, <3>1, AboutAddrMsg
      <4> QED BY <1>3, <1>4, <1>8, <2>2, <2>6, <3>1, <4>1, AddrInfoHolds
    <3>2. CASE i # m.index
      BY <1>8, <2>2, <2>6, <3>2
    <3> QED BY <3>1, <3>2
  <2>7. KeyKnown(i, a)'
    BY <1>2, <1>4, <1>7, <2>1, <2>5, <2>6, AwaitKeptOf, KeyTaken
  <2> QED BY <2>4, <2>7
<1> HIDE DEF info
<1>10. LinkKnown(i)'
  BY <1>2, <1>3, <1>4, <1>6, <1>7, <1>8, AboutAddrMsg, AwaitKeptOf, LinkTaken
<1>11. NameKnown(i)'
  BY <1>2, <1>3, <1>4, <1>6, <1>7, <1>8, AboutAddrMsg, AwaitKeptOf, NameTaken
<1> QED BY <1>9, <1>10, <1>11

LEMMA AnnounceKnows ==
  ASSUME Inv, KnownInv, Announce
  PROVE  KnownInv' /\ PublicInv'
<1> DEFINE m == Head(datagram)
           old == interfaces_by_index[m.index]
           info == [old EXCEPT !.name = m.name, !.is_public = TRUE]
<1>1. /\ pc = "message" /\ pc' = "created" /\ IsLink(m) /\ SetInfo(m.index, info)
      /\ UNCHANGED <<dev, subscribed, overrun, sock, datagram, dump, failed,
                     unsent_messages>>
  BY DEF Announce, kernelVars, seqVars
<1>2. AwaitKept /\ Coming' = Coming
  BY <1>1, AskingPlaces, QuietKeepsAwaited DEF Coming
<1>3. datagram # <<>> /\ m \in LinkMsg
  BY <1>1, TakesMessage, MsgCases
<1>4. /\ m.index \in Index /\ old \in Listener!NetInterfaceInfo
      /\ interfaces_by_index \in [Index -> Listener!NetInterfaceInfo]
  BY <1>3 DEF Inv, TypeOK, MonitorTypeOK, LinkMsg
<1>5. /\ info.link_active = old.link_active /\ info.is_public
      /\ info.ip4_addresses = old.ip4_addresses
      /\ info.ip6_addresses = old.ip6_addresses
  BY <1>4 DEF Listener!NetInterfaceInfo
<1> HIDE DEF info
<1>6. PublicInv'
  BY <1>1, <1>4, <1>5 DEF PublicInv, SetInfo
<1> HIDE DEF m
<1> SUFFICES ASSUME subscribed, ~overrun, NEW i \in Index
             PROVE  /\ LinkKnown(i)' /\ NameKnown(i)'
                    /\ \A a \in AnyAddr : AddrKnown(i, a)' /\ KeyKnown(i, a)'
  BY <1>1, <1>6 DEF KnownInv, AnyAddr
<1>7. /\ LinkKnown(i) /\ NameKnown(i)
      /\ \A a \in AnyAddr : AddrKnown(i, a) /\ KeyKnown(i, a)
  BY DEF KnownInv, AnyAddr
<1>8. interfaces_by_index'[i] = IF i = m.index THEN info ELSE interfaces_by_index[i]
  BY <1>1, <1>4 DEF SetInfo
<1>9. LinkKnown(i)'
  BY <1>1, <1>2, <1>5, <1>7, <1>8, AwaitKeptOf, LinkSame
<1>10. NameKnown(i)'
  BY <1>1, <1>2, <1>5, <1>7, <1>8, AwaitKeptOf, NameSame
<1>11. ASSUME NEW a \in AnyAddr PROVE AddrKnown(i, a)' /\ KeyKnown(i, a)'
  <2>1. /\ (Has(i, a)' <=> Has(i, a)) /\ (Holds(i, a)' <=> Holds(i, a))
        /\ Lone(i, a)' <=> Lone(i, a)
    BY <1>1, <1>5, <1>8 DEF Has, Holds, Lone
  <2> QED BY <1>2, <1>7, <2>1, AwaitKeptOf, AddrSame, KeySame
<1> QED BY <1>9, <1>10, <1>11

(***************************************************************************)
(* CaughtUpInv is inductive.                                               *)
(***************************************************************************)
\* No step of the monitor or of a dump gives a device another name than it has.
LEMMA NamesStayRight ==
  ASSUME NamesInv, UNCHANGED <<dev, interfaces_by_index>>,
         \A k \in DOMAIN Coming' : \E l \in DOMAIN Coming : Coming'[k] = Coming[l]
  PROVE  NamesInv'
BY DEF NamesInv, NameRight

LEMMA DumpKeepsNames ==
  ASSUME TypeOK, NamesInv, DumpStep, UNCHANGED <<interfaces_by_index, datagram>>
  PROVE  NamesInv'
<1>1. Coming \in Seq(Msg) /\ dev' = dev
  BY ComingType DEF DumpStep, DumpEntry, DumpDone, DumpFails
<1>2. ASSUME NEW m \in Msg, sock' = Append(sock, m),
             \A i \in Index : m \in NamesLink(i) => m.name = dev[i].name
      PROVE  NamesInv'
  <2>1. Coming' = Append(Coming, m)
    BY <1>2, ComingAppended
  <2>2. \A k \in DOMAIN Coming' :
          (\E l \in DOMAIN Coming : Coming'[k] = Coming[l]) \/ Coming'[k] = m
    BY <1>1, <2>1
  <2> QED BY <1>1, <1>2, <2>2 DEF NamesInv, NameRight
<1>3. ASSUME NEW e \in Entry, DumpEntry(e)
      PROVE  NamesInv'
  <2>1. e.index \in Index /\ dev[e.index] \in Device
    BY DEF Entry, TypeOK, KernelTypeOK
  <2>2. CASE ~Exists(e)
    <3>1. Coming' = Coming
      BY <1>3, <2>2 DEF DumpEntry, Coming
    <3> QED BY <1>1, <3>1, NamesStayRight
  <2>3. CASE Exists(e) /\ e.addr = NoAddr
    <3> DEFINE m == Link("RTM_NEWLINK", e.index, dev[e.index])
    <3>1. m \in Msg
      BY <2>1, LinkIsMsg
    <3>2. m.index = e.index /\ m.name = dev[e.index].name
      BY DEF Link
    <3>3. sock' = Append(sock, m)
      BY <1>3, <2>3 DEF DumpEntry, EntryMsg
    <3> HIDE DEF m
    <3> QED BY <1>2, <3>1, <3>2, <3>3 DEF NamesLink, AboutLink
  <2>4. CASE Exists(e) /\ e.addr # NoAddr
    <3> DEFINE m == Addr("RTM_NEWADDR", e.index, e.addr)
    <3>1. m \in AddrMsg
      BY <2>1, <2>4 DEF Addr, AddrMsg, Entry
    <3>2. sock' = Append(sock, m)
      BY <1>3, <2>4 DEF DumpEntry, EntryMsg
    <3> HIDE DEF m
    <3>3. m \in Msg /\ \A i \in Index : m \notin NamesLink(i)
      BY <3>1, AboutAddrMsg DEF Msg
    <3> QED BY <1>2, <3>2, <3>3
  <2> QED BY <2>2, <2>3, <2>4
<1>4. ASSUME DumpDone \/ DumpFails
      PROVE  NamesInv'
  <2>1. dump \in Dump
    BY DEF TypeOK, KernelTypeOK
  <2>2. PICK m \in AckMsg : sock' = Append(sock, m)
    BY <1>4, <2>1 DEF DumpDone, DumpFails, Ack, AckMsg, Dump
  <2>3. m \in Msg /\ \A i \in Index : m \notin NamesLink(i)
    BY AboutAckMsg DEF Msg
  <2> QED BY <1>2, <2>2, <2>3
<1> QED BY <1>3, <1>4 DEF DumpStep

LEMMA MessageKeepsNames ==
  ASSUME Inv, NamesInv, HandleAck \/ UpdateLinkActive \/ HandleAddr \/ Announce
  PROVE  NamesInv'
<1> DEFINE m == Head(datagram)
<1>1. /\ pc \in {"message", "flags"} /\ UNCHANGED <<dev, sock>>
      /\ datagram' \in {datagram, Tail(datagram)}
  BY DEF HandleAck, UpdateLinkActive, HandleAddr, Announce, NextMessage, kernelVars
<1>2. datagram # <<>> /\ m \in Msg /\ TypeOK /\ Coming \in Seq(Msg)
  BY <1>1, TakesMessage, ComingType DEF Inv
<1>3. Coming # <<>> /\ Head(Coming) = m /\ m = Coming[1] /\ 1 \in DOMAIN Coming
  <2>1. \A s, t \in Seq(Msg) : s # <<>> =>
          s \o t # <<>> /\ Head(s \o t) = Head(s)
    OBVIOUS
  <2>2. Coming # <<>> /\ Head(Coming) = m
    BY <1>2, <2>1, ComingType DEF Coming
  <2> QED BY <1>2, <2>2
<1>4. \A k \in DOMAIN Coming' : \E l \in DOMAIN Coming : Coming'[k] = Coming[l]
  <2>1. CASE datagram' = datagram
    BY <1>1, <2>1 DEF Coming
  <2>2. CASE datagram' = Tail(datagram)
    <3>1. Coming' = Tail(Coming)
      BY <1>1, <1>2, <2>2, ComingTaken
    <3> QED BY <1>2, <1>3, <3>1
  <2> QED BY <1>1, <2>1, <2>2
<1>5. interfaces_by_index \in [Index -> Listener!NetInterfaceInfo]
  BY <1>2 DEF TypeOK, MonitorTypeOK
<1>6. CASE HandleAck
  BY <1>1, <1>4, <1>6, NamesStayRight DEF HandleAck, tableVars
<1>7. CASE UpdateLinkActive \/ HandleAddr
  <2>1. PICK info : /\ SetInfo(m.index, info)
                    /\ info \in {[interfaces_by_index[m.index] EXCEPT !.link_active = m.up],
                                 AddrInfo(m)}
    BY <1>7 DEF UpdateLinkActive, HandleAddr
  <2>2. \A i \in Index : /\ interfaces_by_index'[i].name = interfaces_by_index[i].name
                          /\ interfaces_by_index'[i].is_public
                               = interfaces_by_index[i].is_public
    BY <1>5, <2>1 DEF SetInfo, AddrInfo, Listener!NetInterfaceInfo
  <2> QED BY <1>1, <1>4, <2>2 DEF NamesInv, NameRight
<1>8. CASE Announce
  <2> DEFINE info == [interfaces_by_index[m.index] EXCEPT !.name = m.name,
                                                          !.is_public = TRUE]
  <2>1. IsLink(m) /\ m.name # NoName /\ SetInfo(m.index, info)
    BY <1>8 DEF Announce, ShouldAnnounce
  <2>2. m \in LinkMsg
    BY <1>2, <2>1, MsgCases
  <2>3. m.index \in Index /\ m \in NamesLink(m.index)
    BY <2>1, <2>2 DEF NamesLink, AboutLink, LinkMsg
  <2>4. info.name = m.name
    BY <1>5, <2>3 DEF Listener!NetInterfaceInfo
  <2> HIDE DEF info
  <2>5. \A i \in Index : interfaces_by_index'[i] = IF i = m.index THEN info
                                                   ELSE interfaces_by_index[i]
    BY <1>5, <2>1 DEF SetInfo
  <2> HIDE DEF m
  <2> SUFFICES ASSUME NEW i \in Index PROVE NameRight(i)'
    BY DEF NamesInv
  <2>6. NameRight(i)
    BY DEF NamesInv
  <2>7. CASE i # m.index
    BY <1>1, <1>4, <2>5, <2>6, <2>7 DEF NameRight
  <2>8. CASE i = m.index /\ ~dev[i].renamed
    <3>1. dev[i].name = m.name
      BY <1>3, <2>3, <2>6, <2>8 DEF NameRight
    <3> QED BY <1>1, <1>4, <2>1, <2>4, <2>5, <2>6, <2>8, <3>1 DEF NameRight
  <2>9. CASE dev[i].renamed
    BY <1>1, <2>9 DEF NameRight
  <2> QED BY <2>7, <2>8, <2>9
<1> QED BY <1>6, <1>7, <1>8

LEMMA KernelStepCatchesUp ==
  ASSUME TypeOK, CaughtUpInv, pc # "refused", KernelStep
  PROVE  CaughtUpInv'
<1>1. CASE OtherPrograms
  BY <1>1, OtherProgramsCatchUp DEF KernelStep
<1>2. CASE DumpStep
  <2>1. KnownInv'
    BY <1>2, DumpEntryKnows, DumpEndKnows DEF DumpStep, KernelStep, CaughtUpInv
  <2>2. UNCHANGED <<dev, subscribed, pc, interfaces_by_index, datagram>>
    BY <1>2 DEF DumpStep, DumpEntry, DumpDone, DumpFails, KernelStep, monitorVars
  <2>3. pc # "down"
    BY <1>2 DEF DumpStep, DumpEntry, DumpDone, DumpFails, Dumping, CaughtUpInv,
                StartInv, NoDump
  <2>4. NamesInv'
    BY <1>2, <2>2, DumpKeepsNames DEF CaughtUpInv, KernelStep
  <2> QED BY <2>1, <2>2, <2>3, <2>4 DEF CaughtUpInv, DevInv, StartInv, PublicInv
<1> QED BY <1>1, <1>2 DEF KernelStep

\* Steps that only move from one place to another.
LEMMA MoveCatchesUp ==
  ASSUME CaughtUpInv, UNCHANGED <<kernelVars, datagram, seqVars, tableVars>>,
         \/ HandleRead \/ ReceiveFails \/ ReceiveNothing \/ FlushDone
         \/ ListenersReturn
  PROVE  CaughtUpInv'
<1>1. UNCHANGED <<dev, subscribed, sock, overrun, dump, failed, datagram,
                  unsent_messages, interfaces_by_index>>
  BY DEF kernelVars, seqVars, tableVars
<1>2. /\ pc \in {"idle", "receive", "flush", "created"}
      /\ pc' \in {"receive", "aborted", "idle", "flags"}
      /\ pc' = "flags" => pc = "created"
  BY DEF HandleRead, ReceiveFails, ReceiveNothing, FlushDone, ListenersReturn
<1>3. KnownInv'
  <2>1. AwaitKept
    BY <1>1, <1>2, AskingPlaces, QuietKeepsAwaited
  <2> QED BY <1>1, <2>1, SameKnows DEF CaughtUpInv, Coming
<1>4. NamesInv'
  BY <1>1, NamesStayRight DEF CaughtUpInv, Coming
<1> QED BY <1>1, <1>2, <1>3, <1>4 DEF CaughtUpInv, DevInv, StartInv, PublicInv

LEMMA BeginQueryCatchesUp ==
  ASSUME Inv, CaughtUpInv, BeginLinkQuery \/ BeginAddrQuery
  PROVE  CaughtUpInv'
<1>1. PICK kind \in Kinds, next \in {"inet", "inet6", "idle"} : BeginQuery(kind, next)
  BY DEF BeginLinkQuery, BeginAddrQuery, Kinds
<1>2. /\ UNCHANGED <<dev, subscribed, overrun, datagram, interfaces_by_index>>
      /\ pc \in Kinds /\ pc' \in {"inet", "inet6", "idle"}
  BY <1>1 DEF BeginQuery, worldVars, tableVars
<1>3. sock' = sock
  <2>1. SendMessage(kind)
    BY <1>1 DEF BeginQuery
  <2>2. sequence_number \in Nat /\ last_received_seq \in Nat
          /\ Len(unsent_messages) \in Nat
    BY DEF Inv, TypeOK, MonitorTypeOK
  <2>3. CASE last_received_seq + 1 = sequence_number'
    <3>1. sequence_number = last_received_seq
      BY <2>1, <2>2, <2>3 DEF SendMessage
    <3>2. ~Waiting
      BY <2>2, <3>1 DEF Inv, SeqInv, QueueInv
    <3> QED BY <2>1, <2>3, <3>2 DEF SendMessage, RequestDump, Waiting
  <2>4. CASE last_received_seq + 1 # sequence_number'
    BY <2>1, <2>4 DEF SendMessage
  <2> QED BY <2>3, <2>4
<1>4. KnownInv'
  BY <1>2, <1>3, BeginQueryKeepsAwaited, SameKnows DEF CaughtUpInv, Coming
<1>5. NamesInv'
  BY <1>2, <1>3, NamesStayRight DEF CaughtUpInv, Coming
<1> QED BY <1>2, <1>4, <1>5 DEF CaughtUpInv, DevInv, StartInv, PublicInv, Kinds

LEMMA SendUnsentCatchesUp ==
  ASSUME Inv, CaughtUpInv, SendUnsent
  PROVE  CaughtUpInv'
<1>1. /\ UNCHANGED <<dev, subscribed, overrun, datagram, interfaces_by_index, pc>>
      /\ pc = "flush" /\ old_last_received_seq < last_received_seq
      /\ RequestDump(Head(unsent_messages).kind, Head(unsent_messages).seq)
  BY DEF SendUnsent, worldVars, tableVars
<1>2. old_last_received_seq \in Nat /\ last_received_seq \in Nat
  BY DEF Inv, TypeOK, MonitorTypeOK
<1>3. ~Dumping
  BY <1>1, <1>2 DEF Inv, SeqInv, QueueInv, Waiting, Reading
<1>4. sock' = sock
  BY <1>1, <1>3 DEF RequestDump
<1>5. KnownInv'
  BY <1>1, <1>4, SendUnsentKeepsAwaited, SameKnows DEF CaughtUpInv, Coming
<1>6. NamesInv'
  BY <1>1, <1>4, NamesStayRight DEF CaughtUpInv, Coming
<1> QED BY <1>1, <1>5, <1>6 DEF CaughtUpInv, DevInv, StartInv, PublicInv

LEMMA ReceiveDatagramCatchesUp ==
  ASSUME Inv, CaughtUpInv, NEW n \in 1..Len(sock), ReceiveDatagram(n)
  PROVE  CaughtUpInv'
<1>1. /\ UNCHANGED <<dev, subscribed, overrun, dump, failed, unsent_messages,
                     interfaces_by_index>>
      /\ pc = "receive" /\ pc' = "message"
      /\ datagram' = SubSeq(sock, 1, n) /\ sock' = SubSeq(sock, n + 1, Len(sock))
  BY DEF ReceiveDatagram, worldVars, tableVars
<1>2. datagram = <<>>
  BY <1>1 DEF Inv, DatagramInv, Reading
<1>3. Coming' = Coming
  BY <1>1, <1>2, ComingReceived DEF Inv
<1>4. AwaitKept
  BY <1>1, AskingPlaces, QuietKeepsAwaited
<1>5. KnownInv'
  BY <1>1, <1>3, <1>4, SameKnows DEF CaughtUpInv
<1>6. NamesInv'
  BY <1>1, <1>3, NamesStayRight DEF CaughtUpInv
<1> QED BY <1>1, <1>5, <1>6 DEF CaughtUpInv, DevInv, StartInv, PublicInv

LEMMA MessageCatchesUp ==
  ASSUME Inv, CaughtUpInv, HandleAck \/ UpdateLinkActive \/ HandleAddr \/ Announce
  PROVE  CaughtUpInv'
<1>1. KnownInv'
  BY HandleAckKnows, UpdateLinkActiveKnows, HandleAddrKnows, AnnounceKnows
  DEF CaughtUpInv
<1>2. /\ UNCHANGED <<dev, subscribed>>
      /\ pc \in {"message", "flags"}
      /\ \/ pc' \in {"message", "flush"}
         \/ Announce /\ pc' = "created"
  BY DEF HandleAck, UpdateLinkActive, HandleAddr, Announce, NextMessage, kernelVars
<1>3. PublicInv'
  BY <1>2, AnnounceKnows DEF CaughtUpInv, PublicInv
<1>4. NamesInv'
  BY MessageKeepsNames DEF CaughtUpInv
<1> QED BY <1>1, <1>2, <1>3, <1>4 DEF CaughtUpInv, DevInv, StartInv

LEMMA MonitorStepCatchesUp ==
  ASSUME Inv, CaughtUpInv, MonitorStep, pc' # "refused"
  PROVE  CaughtUpInv'
<1>1. CASE Bind
  <2>1. KnownInv'
    BY <1>1, BindKnows DEF Inv, CaughtUpInv
  <2>2. NamesInv'
    BY <1>1, NamesStayRight DEF Bind, CaughtUpInv, Coming, tableVars
  <2> QED BY <1>1, <2>1, <2>2 DEF Bind, CaughtUpInv, DevInv, StartInv, PublicInv
<1>2. CASE HandleRead \/ ReceiveFails \/ ReceiveNothing \/ FlushDone
  BY <1>2, MoveCatchesUp DEF HandleRead, ReceiveFails, ReceiveNothing, FlushDone
<1>3. CASE HandleAck \/ UpdateLinkActive \/ HandleAddr \/ Announce
  BY <1>3, MessageCatchesUp
<1> QED BY <1>1, <1>2, <1>3, BeginQueryCatchesUp, ReceiveDatagramCatchesUp,
           SendUnsentCatchesUp
    DEF MonitorStep, BindRefused, SendRefused, ReceiveRefused, Refused

LEMMA StutterCatchesUp ==
  ASSUME CaughtUpInv, UNCHANGED vars
  PROVE  CaughtUpInv'
<1>1. UNCHANGED <<dev, subscribed, sock, overrun, dump, failed, datagram,
                  unsent_messages, interfaces_by_index, pc>>
  BY DEF vars, kernelVars, monitorVars
<1>2. KnownInv'
  <2>1. AwaitKept
    BY <1>1, QuietKeepsAwaited
  <2> QED BY <1>1, <2>1, SameKnows DEF CaughtUpInv, Coming
<1>3. NamesInv'
  BY <1>1, NamesStayRight DEF CaughtUpInv, Coming
<1> QED BY <1>1, <1>2, <1>3 DEF CaughtUpInv, DevInv, StartInv, PublicInv

LEMMA InitCaughtUpInv ==
  ASSUME Init
  PROVE  CaughtUpInv
<1>1. DevInv
  <2> SUFFICES ASSUME NEW i \in Index PROVE GoodDevice(dev[i])
    BY DEF DevInv
  <2>1. \/ dev[i] = Unborn
        \/ /\ dev[i].state = "present" /\ dev[i].name # NoName
           /\ \A a, b \in dev[i].ip4 : SameAddress(a, b) => a = b \/ dev[i].clashed
    BY ConstantsAssumption DEF Init, KernelInit
  <2>2. /\ Unborn.state = "unborn" /\ ~Unborn.up /\ Unborn.ip4 = {} /\ Unborn.ip6 = {}
        /\ Unborn.name = NoName /\ ~Unborn.renamed /\ ~Unborn.clashed
    BY DEF Unborn
  <2> QED BY <2>1, <2>2 DEF GoodDevice
<1>2. NamesInv
  <2>1. Coming = <<>> /\ \A i \in Index : ~interfaces_by_index[i].is_public
    BY DEF Init, KernelInit, MonitorInit, Coming, Listener!NewInterfaceInfo
  <2>2. DOMAIN Coming = {}
    BY <2>1
  <2> QED BY <2>1, <2>2 DEF NamesInv, NameRight
<1> QED BY <1>1, <1>2 DEF Init, KernelInit, MonitorInit, CaughtUpInv, KnownInv, StartInv,
                    PublicInv

(***************************************************************************)
(* When there is nothing left to read or to ask, CaughtUpInv says that     *)
(* the table agrees with the kernel.                                       *)
(***************************************************************************)
LEMMA CaughtUpInvSuffices ==
  ASSUME Inv, CaughtUpInv
  PROVE  CaughtUp
<1> SUFFICES ASSUME Quiescent, NEW i \in Index PROVE Agrees(i)
  BY DEF CaughtUp
<1>1. /\ pc = "idle" /\ sock = <<>> /\ ~overrun /\ unsent_messages = <<>>
      /\ last_received_seq = sequence_number
  BY DEF Quiescent
<1>2. Coming = <<>>
  <2>1. datagram = <<>>
    BY <1>1 DEF Inv, DatagramInv, Reading
  <2> QED BY <1>1, <2>1 DEF Coming
<1>3. ~Dumping
  <2>1. last_received_seq \in Nat
    BY DEF Inv, TypeOK, MonitorTypeOK
  <2>2. ~Waiting
    BY <1>1, <2>1 DEF Inv, SeqInv, QueueInv
  <2> QED BY <2>2 DEF Waiting
<1>4. \A kind \in Kinds : \A e : Awaited(kind, e) => kind \in failed
  BY <1>1, <1>3, AskingPlaces DEF Awaited, Dumping, Kinds
<1>5. /\ LinkKnown(i) /\ NameKnown(i)
      /\ \A a \in AnyAddr : AddrKnown(i, a) /\ KeyKnown(i, a)
  BY <1>1 DEF CaughtUpInv, KnownInv, StartInv, AnyAddr
<1>6. \A B : Silent(Coming, B)
  BY <1>2 DEF Silent
<1>7. /\ dev[i] \in Device /\ interfaces_by_index[i] \in Listener!NetInterfaceInfo
  BY DEF Inv, TypeOK, KernelTypeOK, MonitorTypeOK
<1>8. /\ dev[i].ip4 \subseteq Ip4Info /\ dev[i].ip6 \subseteq Ip6Address
      /\ interfaces_by_index[i].ip4_addresses \subseteq Ip4Info
      /\ interfaces_by_index[i].ip6_addresses \subseteq Ip6Address
      /\ dev[i].up \in BOOLEAN /\ interfaces_by_index[i].link_active \in BOOLEAN
  BY <1>7 DEF Device, Listener!NetInterfaceInfo
<1>9. /\ interfaces_by_index[i].link_active => dev[i].up
      /\ dev[i].up => interfaces_by_index[i].link_active \/ "link" \in failed
  BY <1>4, <1>5, <1>6 DEF LinkKnown, Kinds
<1>10. dev[i].state = "present" => interfaces_by_index[i].is_public \/ "link" \in failed
  BY <1>4, <1>5, <1>6 DEF NameKnown, Kinds
<1>11. dev[i].state # "present" => ~dev[i].up
  BY DEF CaughtUpInv, DevInv, GoodDevice
<1>16. interfaces_by_index[i].is_public /\ ~dev[i].renamed
         => interfaces_by_index[i].name = dev[i].name
  BY DEF CaughtUpInv, NamesInv, NameRight
<1>12. ASSUME NEW a \in AnyAddr
       PROVE  /\ Holds(i, a) => Has(i, a)
              /\ Has(i, a) /\ Lone(i, a) => Holds(i, a) \/ KindOf(a) \in failed
  BY <1>4, <1>5, <1>6, EntriesOf DEF AddrKnown, KeyKnown
<1>13. Ip4Info \cap Ip6Address = {}
  BY ConstantsAssumption
<1>14. ASSUME NEW a \in Ip4Info
       PROVE  /\ a \in interfaces_by_index[i].ip4_addresses => a \in dev[i].ip4
              /\ ~dev[i].clashed /\ "inet" \notin failed /\ a \in dev[i].ip4
                   => a \in interfaces_by_index[i].ip4_addresses
  BY <1>8, <1>12, <1>13 DEF Holds, Has, Lone, KindOf, AnyAddr
<1>15. ASSUME NEW a \in Ip6Address
       PROVE  /\ a \in interfaces_by_index[i].ip6_addresses => a \in dev[i].ip6
              /\ "inet6" \notin failed /\ a \in dev[i].ip6
                   => a \in interfaces_by_index[i].ip6_addresses
  BY <1>8, <1>12, <1>13 DEF Holds, Has, Lone, KindOf, AnyAddr
<1> QED BY <1>8, <1>9, <1>10, <1>11, <1>14, <1>15, <1>16 DEF Agrees

\* However dumps, notifications and changes interleave, and for any number
\* of interfaces, addresses and changes, once the monitor is back in the event
\* loop with nothing left to read the table of NetlinkMonitor has the kernel's
\* flags and addresses, and the names of the devices that were not renamed;
\* an IPv4 address can be missing only from a device that has had two that
\* differ in the prefix alone.
THEOREM MonitorCaughtUp == Spec => []CaughtUp
<1>1. Init => Inv /\ (pc = "refused" \/ CaughtUpInv)
  BY InitInv, InitCaughtUpInv
<1>2. Inv /\ (pc = "refused" \/ CaughtUpInv) /\ [Next]_vars
        => (Inv /\ (pc = "refused" \/ CaughtUpInv))'
  <2>1. ASSUME Inv, CaughtUpInv, ListenersReturn PROVE CaughtUpInv'
    BY <2>1, MoveCatchesUp DEF ListenersReturn
  <2>2. ASSUME Inv, CaughtUpInv, Next, pc' # "refused" PROVE CaughtUpInv'
    BY <2>1, <2>2, MonitorStepCatchesUp, KernelStepCatchesUp DEF Next, Inv, Ended
  <2>3. ASSUME pc = "refused" PROVE ~Next
    BY <2>3 DEF Next, Ended
  <2>4. UNCHANGED vars => UNCHANGED pc
    BY DEF vars, monitorVars
  <2> QED BY <2>2, <2>3, <2>4, NextKeeps, StutterCatchesUp
<1>3. Inv /\ (pc = "refused" \/ CaughtUpInv) => CaughtUp
  <2>1. pc = "refused" => CaughtUp
    BY DEF CaughtUp, Quiescent
  <2> QED BY <2>1, CaughtUpInvSuffices
<1> QED BY <1>1, <1>2, <1>3, PTL DEF Spec

(***************************************************************************)
(* The monitor's own invariant survives the calls of the activator.        *)
(***************************************************************************)
LEMMA TargetIsIndex ==
  ASSUME Inv, pc \in {"created", "address"}
  PROVE  /\ Target \in Index
         /\ datagram # <<>> /\ Head(datagram) \in Msg
         /\ IsLink(Head(datagram))
         /\ event.info.name \in Name
<1>1. /\ datagram # <<>> /\ datagram \in Seq(Msg) /\ IsLink(Head(datagram))
      /\ event.index = Head(datagram).index
      /\ event.info.name = Head(datagram).name /\ event.info.name # NoName
  BY DEF Inv, TypeOK, MonitorTypeOK, DatagramInv, Reading
<1>2. Head(datagram) \in Msg
  BY <1>1
<1>3. Head(datagram) \in LinkMsg
  BY <1>1, <1>2, MsgCases
<1> QED BY <1>1, <1>2, <1>3 DEF Target, LinkMsg

\* A step of the activator: a move within the callback or to "aborted" that
\* may change the target device and cause one notification.
LEMMA CallKeeps ==
  ASSUME Inv, pc \in {"created", "address"},
         pc' \in {"address", "flags", "aborted", "refused"},
         dev' \in [Index -> Device], sock' \in Seq(Msg), SameAcks(sock, sock'),
         overrun' \in BOOLEAN,
         UNCHANGED <<subscribed, dump, failed, tampered, changes,
                     datagram, seqVars, tableVars>>
  PROVE  Inv'
<1>1. UNCHANGED <<sequence_number, last_received_seq, unsent_messages,
                  old_last_received_seq, interfaces_by_index, event>>
  BY DEF seqVars, tableVars
<1>2. SeqInv'
  BY <1>1, SameAcksRefl, Frame DEF Inv, Reading
<1>3. TypeOK'
  BY <1>1 DEF Inv, TypeOK, KernelTypeOK, MonitorTypeOK, Reading
<1>4. DatagramInv'
  BY <1>1 DEF Inv, DatagramInv, Reading
<1> QED BY <1>2, <1>3, <1>4 DEF Inv

LEMMA InterfaceCreatedKeeps ==
  ASSUME Inv, ConfiguredInv, InterfaceCreated
  PROVE  Inv' /\ ConfiguredInv'
<1>1. /\ pc \in {"created", "address"}
      /\ pc' \in {"address", "flags", "aborted", "refused"}
      /\ UNCHANGED <<subscribed, dump, failed, tampered, changes,
                     datagram, seqVars, tableVars>>
  BY DEF InterfaceCreated, IgnoreInterface, SetDeviceStatus,
     SetDeviceStatusFails, SetDeviceIp4AddressInfo,
     SetDeviceIp4AddressInfoFails, SetDeviceStatusRefused, SetDeviceIp4AddressInfoRefused, Refused,
     kernelVars
<1>2. /\ Target \in Index /\ dev \in [Index -> Device] /\ sock \in Seq(Msg)
      /\ overrun \in BOOLEAN /\ dev[Target] \in Device
  BY <1>1, TargetIsIndex DEF Inv, TypeOK, KernelTypeOK
<1>3. ASSUME NEW d \in Device, NEW m \in Msg, ~IsAck(m), ChangeDev(Target, d, m)
      PROVE  Inv'
  <2>1. dev' \in [Index -> Device]
    BY <1>2, <1>3 DEF ChangeDev
  <2>2. sock' \in Seq(Msg) /\ overrun' \in BOOLEAN /\ SameAcks(sock, sock')
    BY <1>3, NotifyKeeps DEF ChangeDev, Inv
  <2> QED BY <1>1, <2>1, <2>2, CallKeeps
<1>4. ASSUME UNCHANGED <<dev, sock, overrun>>
      PROVE  Inv'
  BY <1>1, <1>2, <1>4, SameAcksRefl, CallKeeps
<1>5. CASE SetDeviceStatus
  <2> DEFINE d == [dev[Target] EXCEPT !.up = TRUE]
  <2>1. \/ UNCHANGED <<dev, sock, overrun>>
        \/ ChangeDev(Target, d, Link("RTM_NEWLINK", Target, d))
    BY <1>5 DEF SetDeviceStatus
  <2>2. d \in Device
    BY <1>2 DEF Device
  <2> HIDE DEF d
  <2>3. Inv'
    BY <1>2, <1>3, <1>4, <2>1, <2>2, LinkIsMsg
  <2>4. ConfiguredInv'
    BY <1>5 DEF SetDeviceStatus, ConfiguredInv, tableVars
  <2> QED BY <2>3, <2>4
<1>6. CASE SetDeviceIp4AddressInfo
  <2> DEFINE a == AddressFor[event.info.name]
             d == WithAddr4(dev[Target], a)
  <2>1. ChangeDev(Target, d, Addr("RTM_NEWADDR", Target, a)) /\ pc' = "flags"
    BY <1>6 DEF SetDeviceIp4AddressInfo
  <2>2. a \in Ip4Info
    BY <1>6, ActivatorAssumption DEF ConfiguredInv, SetDeviceIp4AddressInfo
  <2>3. d \in Device
    BY <1>2, <2>2, WithAddr4Type
  <2> HIDE DEF d, a
  <2>4. Addr("RTM_NEWADDR", Target, a) \in Msg
        /\ ~IsAck(Addr("RTM_NEWADDR", Target, a))
    BY <1>2, <2>2, AddrIsMsg
  <2>5. Inv'
    BY <1>3, <2>1, <2>3, <2>4
  <2> QED BY <2>1, <2>5 DEF ConfiguredInv
<1>7. CASE \/ IgnoreInterface \/ SetDeviceStatusFails \/ SetDeviceIp4AddressInfoFails
          \/ SetDeviceStatusRefused \/ SetDeviceIp4AddressInfoRefused
  <2>1. UNCHANGED <<dev, sock, overrun>> /\ pc' \in {"flags", "aborted", "refused"}
    BY <1>7 DEF IgnoreInterface, SetDeviceStatusFails,
                SetDeviceIp4AddressInfoFails, SetDeviceStatusRefused,
                SetDeviceIp4AddressInfoRefused, Refused, kernelVars
  <2> QED BY <1>4, <2>1 DEF ConfiguredInv
<1> QED BY <1>5, <1>6, <1>7 DEF InterfaceCreated

LEMMA OthersKeepConfigured ==
  ASSUME ConfiguredInv, MonitorStep \/ KernelStep \/ UNCHANGED vars
  PROVE  ConfiguredInv'
<1>1. CASE MonitorStep
  <2>1. pc' # "address"
    BY <1>1 DEF MonitorStep, Bind, BeginLinkQuery, BeginAddrQuery, BeginQuery,
       HandleRead, ReceiveFails, ReceiveNothing, ReceiveDatagram, HandleAck,
       Announce, UpdateLinkActive, HandleAddr, SendUnsent, FlushDone,
       NextMessage, BindRefused, SendRefused, ReceiveRefused, Refused
  <2> QED BY <2>1 DEF ConfiguredInv
<1>2. CASE KernelStep \/ UNCHANGED vars
  BY <1>2 DEF KernelStep, vars, monitorVars, ConfiguredInv
<1> QED BY <1>1, <1>2

LEMMA ActivatorNextKeeps ==
  ASSUME Inv, ConfiguredInv, [ActivatorNext]_vars
  PROVE  Inv' /\ ConfiguredInv'
BY InterfaceCreatedKeeps, OthersKeepConfigured, MonitorStepKeeps,
   KernelStepKeeps, StutterKeeps DEF ActivatorNext

LEMMA ActivatorSpecInv == ActivatorSpec => [](Inv /\ ConfiguredInv)
<1>1. Init => Inv /\ ConfiguredInv
  <2>1. Init => ConfiguredInv
    BY DEF Init, MonitorInit, ConfiguredInv
  <2> QED BY <2>1, InitInv
<1>2. Inv /\ ConfiguredInv /\ [ActivatorNext]_vars => (Inv /\ ConfiguredInv)'
  BY ActivatorNextKeeps
<1> QED BY <1>1, <1>2, PTL DEF ActivatorSpec

\* With the activator attached, whose calls put notifications into the
\* socket while HandleRead is reading it, the queue of queries still works.
THEOREM ActivatorNeverBusy == ActivatorSpec => [](TypeOK /\ NeverBusy)
<1>1. Inv => TypeOK /\ NeverBusy
  BY InvNeverBusy DEF Inv
<1> QED BY <1>1, ActivatorSpecInv, PTL

\* The listeners, of which the activator is one, get the callbacks that
\* NetlinkListener describes although one of them changes the devices.
THEOREM ActivatorKeepsListenerSpec == ActivatorSpec => ListenerSpec
<1>1. Init => Listener!Init
  BY InitRefines
<1>2. Inv /\ [ActivatorNext]_vars => [Listener!Next]_<<Known, event>>
  BY StepRefines DEF ActivatorNext
<1> QED BY <1>1, <1>2, ActivatorSpecInv, PTL
    DEF ActivatorSpec, ListenerSpec, Listener!Spec

(***************************************************************************)
(* Messages stay true until another program interferes.                    *)
(***************************************************************************)
\* A device that is there stays, under its name, or is marked as tampered.
WorldMonotone ==
  /\ tampered \subseteq tampered'
  /\ \A i \in Index : \/ i \in tampered'
                      \/ dev[i].state # "present"
                      \/ dev'[i].state = "present" /\ dev'[i].name = dev[i].name

LEMMA StillTrueKept ==
  ASSUME WorldMonotone, NEW m \in Msg, StillTrue(m)
  PROVE  StillTrue(m)'
<1>1. CASE IsAck(m)
  BY <1>1 DEF StillTrue
<1>2. CASE ~IsAck(m)
  <2>1. m.index \in Index
    BY <1>2 DEF Msg, LinkMsg, AddrMsg, AckMsg, IsAck
  <2> QED BY <1>2, <2>1 DEF WorldMonotone, StillTrue
<1> QED BY <1>1, <1>2

\* At most one message joins the socket, and it is true.
LEMMA AppendKeepsMessages ==
  ASSUME TypeOK, MessagesInv, WorldMonotone, NEW m, StillTrue(m)',
         sock' = sock \/ sock' = Append(sock, m), UNCHANGED datagram
  PROVE  MessagesInv'
<1>1. sock \in Seq(Msg) /\ datagram \in Seq(Msg)
  BY DEF TypeOK, KernelTypeOK, MonitorTypeOK
<1>2. \A k \in DOMAIN sock : sock[k] \in Msg /\ StillTrue(sock[k])
  BY <1>1 DEF MessagesInv
<1>3. \A k \in DOMAIN datagram : datagram[k] \in Msg /\ StillTrue(datagram[k])
  BY <1>1 DEF MessagesInv
<1>4. ASSUME NEW k \in DOMAIN sock'
      PROVE  \E x : x = sock'[k] /\ StillTrue(x)'
  <2>1. sock'[k] = m \/ (k \in DOMAIN sock /\ sock'[k] = sock[k])
    BY <1>1
  <2>2. CASE sock'[k] = m
    BY <2>2
  <2>3. CASE k \in DOMAIN sock /\ sock'[k] = sock[k]
    <3>1. PICK x \in Msg : x = sock[k] /\ StillTrue(x)
      BY <1>2, <2>3
    <3>2. StillTrue(x)'
      BY <3>1, StillTrueKept
    <3> QED BY <2>3, <3>1, <3>2
  <2> QED BY <2>1, <2>2, <2>3
<1>5. ASSUME NEW k \in DOMAIN datagram'
      PROVE  \E x : x = datagram'[k] /\ StillTrue(x)'
  <2>1. PICK x \in Msg : x = datagram[k] /\ StillTrue(x)
    BY <1>3
  <2>2. StillTrue(x)'
    BY <2>1, StillTrueKept
  <2> QED BY <2>1, <2>2
<1> QED BY <1>4, <1>5 DEF MessagesInv, StillTrue

(***************************************************************************)
(* MessagesInv and PristineInv under the steps of other programs, of a     *)
(* dump, of the monitor and of the activator.                              *)
(***************************************************************************)
WorldInv == MessagesInv /\ PristineInv

\* Device i becomes d, m is multicast, and the devices in who are marked.
LEMMA ChangeKeepsWorld ==
  ASSUME Inv, WorldInv, NEW i \in Index, NEW d, NEW m, NEW who \in SUBSET Index,
         Change(i, d, m, who), UNCHANGED monitorVars,
         m.index = i, ~IsAck(m),
         i \in who \/ /\ dev[i].state = "present" => d.name = dev[i].name
                      /\ d.state = "present"
                      /\ IsLink(m) => m.name \in {NoName, d.name}
                      /\ d.ip4 = {} \/ d.ip4 = dev[i].ip4
  PROVE  WorldInv'
<1>1. /\ dev' = [dev EXCEPT ![i] = d] /\ Notify(m)
      /\ tampered' = tampered \cup who
      /\ dev \in [Index -> Device]
  BY DEF Change, ChangeDev, Inv, TypeOK, KernelTypeOK
<1>2. WorldMonotone
  BY <1>1 DEF WorldMonotone
<1>3. StillTrue(m)'
  BY <1>1 DEF StillTrue
<1>4. MessagesInv'
  <2>1. sock' = sock \/ sock' = Append(sock, m)
    BY <1>1 DEF Notify
  <2>2. TypeOK /\ MessagesInv /\ UNCHANGED datagram
    BY DEF Inv, WorldInv, monitorVars
  <2> QED BY <1>2, <1>3, <2>1, <2>2, AppendKeepsMessages
<1>5. PristineInv'
  BY <1>1 DEF WorldInv, PristineInv, monitorVars
<1> QED BY <1>4, <1>5 DEF WorldInv

LEMMA OtherProgramsKeepWorld ==
  ASSUME Inv, WorldInv, OtherPrograms, UNCHANGED monitorVars
  PROVE  WorldInv'
<1>1. PICK i \in Index :
        \/ \E n \in Name : CreateLink(i, n) \/ RenameLink(i, n)
        \/ SetLinkFlag(i) \/ NamelessNotice(i) \/ RemoveLink(i)
        \/ \E a \in Ip4Info : AddAddr4(i, a) \/ DelAddr4(i, a)
        \/ \E a \in Ip6Address : AddAddr6(i, a) \/ DelAddr6(i, a)
  BY DEF OtherPrograms
<1>2. dev[i] \in Device
  BY DEF Inv, TypeOK, KernelTypeOK
<1>3. ASSUME NEW t \in {"RTM_NEWLINK", "RTM_DELLINK"}, NEW x
      PROVE  /\ Link(t, i, x).index = i /\ Link(t, i, x).name = x.name
             /\ ~IsAck(Link(t, i, x))
  BY DEF Link, IsAck
<1>4. ASSUME NEW t \in {"RTM_NEWADDR", "RTM_DELADDR"}, NEW a
      PROVE  /\ Addr(t, i, a).index = i
             /\ ~IsAck(Addr(t, i, a)) /\ ~IsLink(Addr(t, i, a))
  BY DEF Addr, IsAck, IsLink
<1>5. ASSUME NEW n \in Name, CreateLink(i, n)
      PROVE  WorldInv'
  <2> DEFINE d == [Unborn EXCEPT !.state = "present", !.name = n]
  <2>1. Change(i, d, Link("RTM_NEWLINK", i, d), {}) /\ dev[i].state = "unborn"
    BY <1>5 DEF CreateLink
  <2>2. d.state = "present" /\ d.ip4 = {}
    BY DEF Unborn
  <2> HIDE DEF d
  <2> QED BY <1>3, <2>1, <2>2, ChangeKeepsWorld
<1>6. CASE NamelessNotice(i)
  <2> DEFINE x == [dev[i] EXCEPT !.name = NoName]
  <2>1. Change(i, dev[i], Link("RTM_NEWLINK", i, x), {})
        /\ dev[i].state = "present"
    BY <1>6 DEF NamelessNotice
  <2>2. x.name = NoName
    BY <1>2 DEF Device
  <2> HIDE DEF x
  <2> QED BY <1>3, <2>1, <2>2, ChangeKeepsWorld
<1>7. ASSUME NEW a \in Ip6Address, AddAddr6(i, a) \/ DelAddr6(i, a)
      PROVE  WorldInv'
  <2> DEFINE dA == [dev[i] EXCEPT !.ip6 = @ \cup {a}]
             dD == [dev[i] EXCEPT !.ip6 = @ \ {a}]
  <2>1. dev[i].state = "present"
    BY <1>7 DEF AddAddr6, DelAddr6
  <2>2. /\ dA.state = "present" /\ dA.name = dev[i].name /\ dA.ip4 = dev[i].ip4
        /\ dD.state = "present" /\ dD.name = dev[i].name /\ dD.ip4 = dev[i].ip4
    BY <1>2, <2>1 DEF Device
  <2>3. \/ Change(i, dA, Addr("RTM_NEWADDR", i, a), {})
        \/ Change(i, dD, Addr("RTM_DELADDR", i, a), {})
    BY <1>7 DEF AddAddr6, DelAddr6
  <2> HIDE DEF dA, dD
  <2> QED BY <1>4, <2>2, <2>3, ChangeKeepsWorld
<1>8. ASSUME \/ \E n \in Name : RenameLink(i, n)
             \/ SetLinkFlag(i) \/ RemoveLink(i)
      PROVE  WorldInv'
  <2>1. PICK d, x, t :
          t \in {"RTM_NEWLINK", "RTM_DELLINK"} /\ Change(i, d, Link(t, i, x), {i})
    BY <1>8 DEF RenameLink, SetLinkFlag, RemoveLink
  <2> QED BY <1>3, <2>1, ChangeKeepsWorld
<1>9. ASSUME NEW a \in Ip4Info, AddAddr4(i, a) \/ DelAddr4(i, a)
      PROVE  WorldInv'
  <2>1. PICK d, t :
          t \in {"RTM_NEWADDR", "RTM_DELADDR"} /\ Change(i, d, Addr(t, i, a), {i})
    BY <1>9 DEF AddAddr4, DelAddr4
  <2> QED BY <1>4, <2>1, ChangeKeepsWorld
<1> QED BY <1>1, <1>5, <1>6, <1>7, <1>8, <1>9

LEMMA DumpKeepsWorld ==
  ASSUME Inv, WorldInv, DumpStep, UNCHANGED monitorVars
  PROVE  WorldInv'
<1>1. UNCHANGED <<dev, tampered>>
  BY DEF DumpStep, DumpEntry, DumpDone, DumpFails
<1>2. WorldMonotone
  BY <1>1 DEF WorldMonotone
<1>3. PICK m : StillTrue(m)' /\ (sock' = sock \/ sock' = Append(sock, m))
  <2>1. ASSUME NEW e \in Entry, DumpEntry(e)
        PROVE  \E m : StillTrue(m)' /\ (sock' = sock \/ sock' = Append(sock, m))
    <3>1. PICK m : m = EntryMsg(e)
      OBVIOUS
    <3>2. CASE Exists(e)
      <4>1. sock' = Append(sock, m)
        BY <2>1, <3>1, <3>2 DEF DumpEntry
      <4>2. StillTrue(m)
        BY <3>1, <3>2 DEF StillTrue, EntryMsg, Exists, Link, Addr, IsLink
      <4>3. StillTrue(m)'
        BY <1>1, <4>2 DEF StillTrue
      <4> QED BY <4>1, <4>3
    <3>3. CASE ~Exists(e)
      <4>1. sock' = sock
        BY <2>1, <3>3 DEF DumpEntry
      <4>2. StillTrue(Ack("NLMSG_DONE", 0, "OK"))'
        BY DEF StillTrue, Ack, IsAck
      <4> QED BY <4>1, <4>2
    <3> QED BY <3>2, <3>3
  <2>2. CASE DumpDone \/ DumpFails
    <3>1. PICK m : IsAck(m) /\ sock' = Append(sock, m)
      BY <2>2 DEF DumpDone, DumpFails, Ack, IsAck
    <3>2. StillTrue(m)'
      BY <3>1 DEF StillTrue
    <3> QED BY <3>1, <3>2
  <2> QED BY <2>1, <2>2 DEF DumpStep
<1>4. MessagesInv'
  <2>1. TypeOK /\ MessagesInv /\ UNCHANGED datagram
    BY DEF Inv, WorldInv, monitorVars
  <2> QED BY <1>2, <1>3, <2>1, AppendKeepsMessages
<1>5. PristineInv'
  BY <1>1 DEF WorldInv, PristineInv, monitorVars
<1> QED BY <1>4, <1>5 DEF WorldInv

\* The monitor only moves messages along.
LEMMA MonitorKeepsMessages ==
  ASSUME Inv, WorldInv, MonitorStep
  PROVE  MessagesInv' /\ UNCHANGED <<dev, tampered>>
<1>1. sock \in Seq(Msg) /\ datagram \in Seq(Msg)
  BY DEF Inv, TypeOK, KernelTypeOK, MonitorTypeOK
<1>2. UNCHANGED <<dev, tampered>>
  BY DEF MonitorStep, Bind, BeginLinkQuery, BeginAddrQuery, BeginQuery,
     HandleRead, ReceiveFails, ReceiveNothing, ReceiveDatagram, HandleAck,
     Announce, UpdateLinkActive, HandleAddr, SendUnsent, FlushDone,
     BindRefused, SendRefused, ReceiveRefused, Refused, kernelVars, worldVars
<1>3. WorldMonotone
  BY <1>2 DEF WorldMonotone
<1>4. CASE \E n \in 1..Len(sock) : ReceiveDatagram(n)
  <2>1. PICK n \in 1..Len(sock) : ReceiveDatagram(n)
    BY <1>4
  <2>2. /\ datagram' = SubSeq(sock, 1, n)
        /\ sock' = SubSeq(sock, n + 1, Len(sock))
    BY <2>1 DEF ReceiveDatagram
  <2>3. \A k \in DOMAIN datagram' : k \in DOMAIN sock /\ datagram'[k] = sock[k]
    BY <1>1, <2>2
  <2>4. \A k \in DOMAIN sock' : k + n \in DOMAIN sock /\ sock'[k] = sock[k + n]
    BY <1>1, <2>2
  <2> QED BY <1>2, <2>3, <2>4 DEF WorldInv, MessagesInv, StillTrue
<1>5. CASE HandleAck \/ UpdateLinkActive \/ HandleAddr
  <2>1. sock' = sock /\ datagram' = Tail(datagram) /\ pc \in Reading \ {"flush"}
    BY <1>5 DEF HandleAck, UpdateLinkActive, HandleAddr, NextMessage,
                kernelVars, Reading
  <2>2. datagram # <<>>
    BY <2>1 DEF Inv, DatagramInv, Reading
  <2>3. \A k \in DOMAIN datagram' :
          k + 1 \in DOMAIN datagram /\ datagram'[k] = datagram[k + 1]
    BY <1>1, <2>1, <2>2
  <2> QED BY <1>2, <2>1, <2>3 DEF WorldInv, MessagesInv, StillTrue
<1>6. CASE BeginLinkQuery \/ BeginAddrQuery \/ SendUnsent
  <2>1. datagram' = datagram
    BY <1>6 DEF BeginLinkQuery, BeginAddrQuery, BeginQuery, SendUnsent
  <2>2. \E m : IsAck(m) /\ (sock' = sock \/ sock' = Append(sock, m))
    <3>1. ASSUME NEW q, NEW s, RequestDump(q, s)
          PROVE  \E m : IsAck(m) /\ (sock' = sock \/ sock' = Append(sock, m))
      <4>1. IsAck(Ack("NLMSG_ERROR", s, "EBUSY"))
        BY DEF Ack, IsAck
      <4> QED BY <3>1, <4>1 DEF RequestDump
    <3>2. ASSUME sock' = sock
          PROVE  \E m : IsAck(m) /\ (sock' = sock \/ sock' = Append(sock, m))
      <4>1. IsAck(Ack("NLMSG_ERROR", 0, "EBUSY"))
        BY DEF Ack, IsAck
      <4> QED BY <3>2, <4>1
    <3> QED BY <1>6, <3>1, <3>2
        DEF BeginLinkQuery, BeginAddrQuery, BeginQuery, SendMessage, SendUnsent
  <2>3. PICK m : IsAck(m) /\ (sock' = sock \/ sock' = Append(sock, m))
    BY <2>2
  <2>4. StillTrue(m)'
    BY <2>3 DEF StillTrue
  <2> QED BY <1>2, <1>3, <2>1, <2>3, <2>4, AppendKeepsMessages DEF Inv, WorldInv
<1>7. CASE \/ Bind \/ HandleRead \/ ReceiveFails \/ ReceiveNothing \/ Announce
          \/ FlushDone \/ BindRefused \/ SendRefused \/ ReceiveRefused
  <2>1. sock' = sock /\ datagram' = datagram
    BY <1>7 DEF Bind, HandleRead, ReceiveFails, ReceiveNothing, Announce,
                FlushDone, BindRefused, SendRefused, ReceiveRefused, Refused, kernelVars
  <2> QED BY <1>2, <2>1 DEF WorldInv, MessagesInv, StillTrue
<1> QED BY <1>2, <1>4, <1>5, <1>6, <1>7 DEF MonitorStep

\* Apart from Announce, no step of the monitor enters a callback or takes
\* an announcement back.
LEMMA PublicStays ==
  ASSUME Inv, MonitorStep, ~Announce
  PROVE  /\ pc' \notin {"created", "address"}
         /\ \A i \in Index : interfaces_by_index[i].is_public =>
                               interfaces_by_index'[i].is_public
<1>1. pc' \notin {"created", "address"}
  BY DEF MonitorStep, Bind, BeginLinkQuery, BeginAddrQuery, BeginQuery,
     HandleRead, ReceiveFails, ReceiveNothing, ReceiveDatagram, HandleAck,
     UpdateLinkActive, HandleAddr, SendUnsent, FlushDone, NextMessage,
     BindRefused, SendRefused, ReceiveRefused, Refused
<1>2. interfaces_by_index \in [Index -> Listener!NetInterfaceInfo]
  BY DEF Inv, TypeOK, MonitorTypeOK
<1>3. CASE UpdateLinkActive
  <2> DEFINE j == Head(datagram).index
             old == interfaces_by_index[j]
             info == [old EXCEPT !.link_active = Head(datagram).up]
  <2>1. SetInfo(j, info)
    BY <1>3 DEF UpdateLinkActive
  <2>2. j \in Index => info.is_public = old.is_public
    BY <1>2 DEF Listener!NetInterfaceInfo
  <2> HIDE DEF info
  <2>3. \A i \in Index : interfaces_by_index'[i] = IF i = j THEN info
                                                   ELSE interfaces_by_index[i]
    BY <1>2, <2>1 DEF SetInfo
  <2> QED BY <1>1, <2>2, <2>3
<1>4. CASE HandleAddr
  <2> DEFINE m == Head(datagram)
             old == interfaces_by_index[m.index]
  <2>1. SetInfo(m.index, AddrInfo(m))
    BY <1>4 DEF HandleAddr
  <2>2. m.index \in Index => AddrInfo(m).is_public = old.is_public
    BY <1>2 DEF AddrInfo, Listener!NetInterfaceInfo
  <2>3. \A i \in Index : interfaces_by_index'[i] = IF i = m.index THEN AddrInfo(m)
                                                   ELSE interfaces_by_index[i]
    BY <1>2, <2>1 DEF SetInfo
  <2> QED BY <1>1, <2>2, <2>3
<1>5. CASE ~UpdateLinkActive /\ ~HandleAddr
  <2>1. UNCHANGED interfaces_by_index
    BY <1>5 DEF MonitorStep, Bind, BeginLinkQuery, BeginAddrQuery, BeginQuery,
       HandleRead, ReceiveFails, ReceiveNothing, ReceiveDatagram, HandleAck,
       SendUnsent, FlushDone, BindRefused, SendRefused, ReceiveRefused, Refused,
       tableVars
  <2> QED BY <1>1, <2>1
<1> QED BY <1>3, <1>4, <1>5

LEMMA MonitorKeepsWorld ==
  ASSUME Inv, WorldInv, MonitorStep
  PROVE  WorldInv'
<1>1. MessagesInv' /\ UNCHANGED <<dev, tampered>>
  BY MonitorKeepsMessages
<1>2. CASE Announce
  <2> DEFINE j == Head(datagram).index
             info == [interfaces_by_index[j] EXCEPT !.name = Head(datagram).name,
                                                    !.is_public = TRUE]
  <2>1. /\ SetInfo(j, info)
        /\ event' = Listener!Event("InterfaceCreated", j, info, NoAddr)
        /\ ~interfaces_by_index[j].is_public
        /\ pc = "message" /\ pc' = "created"
    BY <1>2 DEF Announce, Broadcast, ShouldAnnounce
  <2>2. event'.index = j
    BY <2>1 DEF Listener!Event
  <2>3. interfaces_by_index'[j].is_public
    <3>1. datagram # <<>> /\ datagram \in Seq(Msg) /\ IsLink(Head(datagram))
      BY <1>2, <2>1 DEF Announce, Inv, TypeOK, MonitorTypeOK, DatagramInv, Reading
    <3>2. Head(datagram) \in Msg
      BY <3>1
    <3>3. j \in Index
      BY <3>1, <3>2, MsgCases DEF LinkMsg
    <3>4. info.is_public
      BY <3>3 DEF Inv, TypeOK, MonitorTypeOK, Listener!NetInterfaceInfo
    <3> HIDE DEF info
    <3> QED BY <2>1, <3>3, <3>4 DEF SetInfo, Inv, TypeOK, MonitorTypeOK
  <2> HIDE DEF info
  <2>4. \A i \in Index \ {j} : interfaces_by_index'[i] = interfaces_by_index[i]
    BY <2>1 DEF SetInfo, Inv, TypeOK, MonitorTypeOK
  <2>5. PristineInv'
    BY <1>1, <2>1, <2>2, <2>3, <2>4 DEF WorldInv, PristineInv
  <2> QED BY <1>1, <2>5 DEF WorldInv
<1>3. CASE ~Announce
  <2>1. PristineInv'
    BY <1>1, <1>3, PublicStays DEF WorldInv, PristineInv
  <2> QED BY <1>1, <2>1 DEF WorldInv
<1> QED BY <1>2, <1>3

\* In a callback the interface has just been announced: left alone it is
\* there, under the name of the callback.
LEMMA TargetPristine ==
  ASSUME Inv, WorldInv, pc \in {"created", "address"}, Target \notin tampered
  PROVE  /\ TargetPresent
         /\ dev[Target].name = event.info.name
         /\ dev[Target].ip4 = {}
<1>1. /\ Target \in Index
      /\ datagram # <<>> /\ Head(datagram) \in Msg
      /\ IsLink(Head(datagram))
  BY TargetIsIndex
<1>2. /\ Target = Head(datagram).index
      /\ event.info.name = Head(datagram).name /\ event.info.name # NoName
  BY DEF Inv, DatagramInv, Target
<1>3. StillTrue(Head(datagram))
  <2>1. datagram \in Seq(Msg)
    BY DEF Inv, TypeOK, MonitorTypeOK
  <2>2. 1 \in DOMAIN datagram /\ Head(datagram) = datagram[1]
    BY <1>1, <2>1
  <2> QED BY <2>2 DEF WorldInv, MessagesInv
<1>4. ~IsAck(Head(datagram))
  BY <1>1, MsgCases
<1>5. TargetPresent /\ dev[Target].name = event.info.name
  BY <1>1, <1>2, <1>3, <1>4 DEF StillTrue, TargetPresent
<1>6. dev[Target].ip4 = {}
  BY <1>1 DEF WorldInv, PristineInv, Target
<1> QED BY <1>5, <1>6

\* A call of the activator changes the target, but not its name.
LEMMA CallKeepsWorld ==
  ASSUME Inv, WorldInv, pc \in {"created", "address"}, NEW d, NEW m,
         ChangeDev(Target, d, m),
         d.state = "present", d.name = dev[Target].name, TargetPresent,
         m.index = Target, ~IsAck(m), IsLink(m) => m.name = d.name,
         d.ip4 = dev[Target].ip4 \/ pc' = "flags",
         pc' \in {"address", "flags"},
         UNCHANGED <<tampered, datagram, tableVars>>
  PROVE  WorldInv'
<1>1. Target \in Index /\ dev \in [Index -> Device]
  BY TargetIsIndex DEF Inv, TypeOK, KernelTypeOK
<1>2. dev' = [dev EXCEPT ![Target] = d] /\ Notify(m)
  BY DEF ChangeDev
<1>3. WorldMonotone
  BY <1>1, <1>2 DEF WorldMonotone, TargetPresent
<1>4. StillTrue(m)'
  BY <1>1, <1>2 DEF StillTrue
<1>5. MessagesInv'
  <2>1. sock' = sock \/ sock' = Append(sock, m)
    BY <1>2 DEF Notify
  <2> QED BY <1>3, <1>4, <2>1, AppendKeepsMessages DEF Inv, WorldInv
<1>6. PristineInv'
  <2>1. UNCHANGED <<interfaces_by_index, event>>
    BY DEF tableVars
  <2> QED BY <1>1, <1>2, <2>1 DEF WorldInv, PristineInv, Target
<1> QED BY <1>5, <1>6 DEF WorldInv

LEMMA InterfaceCreatedKeepsWorld ==
  ASSUME Inv, ConfiguredInv, WorldInv, InterfaceCreated
  PROVE  WorldInv'
<1>1. /\ pc \in {"created", "address"}
      /\ UNCHANGED <<tampered, datagram, tableVars>>
  BY DEF InterfaceCreated, IgnoreInterface, SetDeviceStatus,
     SetDeviceStatusFails, SetDeviceIp4AddressInfo,
     SetDeviceIp4AddressInfoFails, SetDeviceStatusRefused, SetDeviceIp4AddressInfoRefused, Refused,
     kernelVars
<1>2. Target \in Index /\ dev[Target] \in Device
  BY <1>1, TargetIsIndex DEF Inv, TypeOK, KernelTypeOK
<1>3. ASSUME UNCHANGED <<dev, sock>>,
             pc' \in {"created", "address"} => pc \in {"created", "address"}
      PROVE  WorldInv'
  BY <1>1, <1>3 DEF WorldInv, MessagesInv, PristineInv, StillTrue, tableVars
<1>4. CASE SetDeviceStatus
  <2> DEFINE d == [dev[Target] EXCEPT !.up = TRUE]
             m == Link("RTM_NEWLINK", Target, d)
  <2>1. /\ UNCHANGED <<dev, sock>> \/ ChangeDev(Target, d, m)
        /\ pc' = "address" /\ TargetPresent
    BY <1>4 DEF SetDeviceStatus
  <2>2. d.state = "present" /\ d.name = dev[Target].name /\ d.ip4 = dev[Target].ip4
    BY <1>2, <2>1 DEF Device, TargetPresent
  <2> HIDE DEF d
  <2>3. m.index = Target /\ ~IsAck(m) /\ m.name = d.name
    BY DEF Link, IsAck
  <2> HIDE DEF m
  <2> QED BY <1>1, <1>3, <2>1, <2>2, <2>3, CallKeepsWorld
<1>5. CASE SetDeviceIp4AddressInfo
  <2> DEFINE a == AddressFor[event.info.name]
             d == WithAddr4(dev[Target], a)
             m == Addr("RTM_NEWADDR", Target, a)
  <2>1. ChangeDev(Target, d, m) /\ pc' = "flags" /\ TargetPresent
    BY <1>5 DEF SetDeviceIp4AddressInfo
  <2>4. a \in Ip4Info
    BY <1>5, ActivatorAssumption DEF ConfiguredInv, SetDeviceIp4AddressInfo
  <2>2. d.state = "present" /\ d.name = dev[Target].name
    BY <1>2, <2>1, <2>4, WithAddr4Fields DEF TargetPresent
  <2> HIDE DEF d
  <2>3. m.index = Target /\ ~IsAck(m) /\ ~IsLink(m)
    BY DEF Addr, IsAck, IsLink
  <2> HIDE DEF m
  <2> QED BY <1>1, <2>1, <2>2, <2>3, CallKeepsWorld
<1>6. CASE \/ IgnoreInterface \/ SetDeviceStatusFails \/ SetDeviceIp4AddressInfoFails
          \/ SetDeviceStatusRefused \/ SetDeviceIp4AddressInfoRefused
  BY <1>3, <1>6 DEF IgnoreInterface, SetDeviceStatusFails,
                    SetDeviceIp4AddressInfoFails, SetDeviceStatusRefused,
                    SetDeviceIp4AddressInfoRefused, Refused, kernelVars
<1> QED BY <1>4, <1>5, <1>6 DEF InterfaceCreated

ActivatorInv == Inv /\ ConfiguredInv /\ WorldInv

LEMMA ActivatorSpecWorld == ActivatorSpec => []ActivatorInv
<1>1. Init => ActivatorInv
  <2> SUFFICES ASSUME Init PROVE ActivatorInv
    OBVIOUS
  <2>1. ConfiguredInv /\ MessagesInv /\ PristineInv
    BY DEF Init, KernelInit, MonitorInit, ConfiguredInv, MessagesInv, PristineInv
  <2> QED BY <2>1, InitInv DEF ActivatorInv, WorldInv
<1>2. ActivatorInv /\ [ActivatorNext]_vars => ActivatorInv'
  <2> SUFFICES ASSUME ActivatorInv, [ActivatorNext]_vars PROVE ActivatorInv'
    OBVIOUS
  <2>1. Inv' /\ ConfiguredInv'
    BY ActivatorNextKeeps DEF ActivatorInv
  <2>2. CASE KernelStep
    BY <2>1, <2>2, OtherProgramsKeepWorld, DumpKeepsWorld
    DEF KernelStep, ActivatorInv
  <2>3. CASE UNCHANGED vars
    BY <2>1, <2>3 DEF ActivatorInv, WorldInv, MessagesInv, PristineInv, StillTrue,
                vars, kernelVars, monitorVars
  <2>4. CASE MonitorStep \/ InterfaceCreated
    BY <2>1, <2>4, MonitorKeepsWorld, InterfaceCreatedKeepsWorld DEF ActivatorInv
  <2> QED BY <2>2, <2>3, <2>4 DEF ActivatorNext
<1> QED BY <1>1, <1>2, PTL DEF ActivatorSpec

\* Unless the kernel refuses a system call for a reason of its own, the
\* activator aborts the program only over an interface that another program
\* removed, renamed or numbered, or after lost notifications: nothing it does
\* itself, and no order of messages, makes its calls fail.
THEOREM ActivatorAbortExplained == ActivatorSpec => []AbortExplained
<1>1. Init => AbortExplained
  BY DEF Init, MonitorInit, AbortExplained
<1>2. ActivatorInv /\ AbortExplained /\ [ActivatorNext]_vars => AbortExplained'
  <2> SUFFICES ASSUME ActivatorInv, AbortExplained, [ActivatorNext]_vars,
                      pc' = "aborted"
               PROVE  overrun' \/ (Target \in tampered)'
    BY DEF AbortExplained
  <2>1. CASE UNCHANGED vars
    BY <2>1 DEF AbortExplained, vars, kernelVars, monitorVars, Target
  <2>2. CASE MonitorStep
    BY <2>2 DEF MonitorStep, Bind, BeginLinkQuery, BeginAddrQuery, BeginQuery,
       HandleRead, ReceiveFails, ReceiveNothing, ReceiveDatagram, HandleAck,
       Announce, UpdateLinkActive, HandleAddr, SendUnsent, FlushDone,
       NextMessage, BindRefused, SendRefused, ReceiveRefused, Refused, kernelVars
  <2>3. CASE InterfaceCreated
    <3>1. CASE SetDeviceStatusFails \/ SetDeviceIp4AddressInfoFails
      <4>1. pc \in {"created", "address"} /\ UNCHANGED <<tampered, event>>
        BY <3>1 DEF SetDeviceStatusFails, SetDeviceIp4AddressInfoFails,
                    kernelVars, tableVars
      <4>2. Target \notin tampered => TargetPresent /\ dev[Target].ip4 = {}
        BY <4>1, TargetPristine DEF ActivatorInv
      <4>3. Target \in tampered
        BY <3>1, <4>2 DEF SetDeviceStatusFails, SetDeviceIp4AddressInfoFails
      <4> QED BY <4>1, <4>3 DEF Target
    <3> QED BY <2>3, <3>1
        DEF InterfaceCreated, IgnoreInterface, SetDeviceStatus,
            SetDeviceIp4AddressInfo, SetDeviceStatusRefused, SetDeviceIp4AddressInfoRefused, Refused
  <2>4. CASE pc # "aborted" /\ KernelStep
    BY <2>4 DEF KernelStep, monitorVars
  <2> QED BY <2>1, <2>2, <2>3, <2>4 DEF ActivatorNext, Ended
<1> QED BY <1>1, <1>2, ActivatorSpecWorld, PTL DEF ActivatorSpec

\* The device that a callback changes is, unless another program renamed or
\* replaced it, the one that bears the configured name, and it is given the
\* address configured for that name.
THEOREM ActivatorRightDevice == ActivatorSpec => RightDevice
<1> DEFINE Right(i) ==
             (pc \in {"created", "address"} /\ changes' = changes
                /\ dev'[i] # dev[i] /\ i \notin tampered) =>
               /\ dev[i].name \in Configured
               /\ dev'[i].ip4 \subseteq dev[i].ip4 \cup {AddressFor[dev[i].name]}
<1>1. ActivatorInv /\ [ActivatorNext]_vars => [\A i \in Index : Right(i)]_vars
  <2> SUFFICES ASSUME ActivatorInv, ActivatorNext, NEW i \in Index,
                      pc \in {"created", "address"}, changes' = changes,
                      dev'[i] # dev[i], i \notin tampered
               PROVE  /\ dev[i].name \in Configured
                      /\ dev'[i].ip4 \subseteq
                           dev[i].ip4 \cup {AddressFor[dev[i].name]}
    OBVIOUS
  <2>1. ~MonitorStep
    BY MonitorKeepsMessages DEF ActivatorInv
  <2>2. ~KernelStep
    <3>1. ~DumpStep
      BY DEF DumpStep, DumpEntry, DumpDone, DumpFails
    <3>2. changes \in Nat
      BY DEF ActivatorInv, Inv, TypeOK, KernelTypeOK
    <3>3. OtherPrograms => changes' = changes + 1
      <4>1. ASSUME NEW j, NEW n, CreateLink(j, n) \/ RenameLink(j, n)
            PROVE  changes' = changes + 1
        BY <4>1 DEF CreateLink, RenameLink, Change
      <4>2. ASSUME NEW j, SetLinkFlag(j) \/ NamelessNotice(j) \/ RemoveLink(j)
            PROVE  changes' = changes + 1
        BY <4>2 DEF SetLinkFlag, NamelessNotice, RemoveLink, Change
      <4>3. ASSUME NEW j, NEW a, \/ AddAddr4(j, a) \/ DelAddr4(j, a)
                                 \/ AddAddr6(j, a) \/ DelAddr6(j, a)
            PROVE  changes' = changes + 1
        BY <4>3 DEF AddAddr4, DelAddr4, AddAddr6, DelAddr6, Change
      <4> QED BY <4>1, <4>2, <4>3 DEF OtherPrograms
    <3> QED BY <3>1, <3>2, <3>3 DEF KernelStep
  <2>3. SetDeviceStatus \/ SetDeviceIp4AddressInfo
    BY <2>1, <2>2 DEF ActivatorNext, InterfaceCreated, IgnoreInterface,
       SetDeviceStatusFails, SetDeviceIp4AddressInfoFails,
       SetDeviceStatusRefused, SetDeviceIp4AddressInfoRefused, Refused, kernelVars
  <2>4. dev \in [Index -> Device] /\ Target \in Index
    BY TargetIsIndex DEF ActivatorInv, Inv, TypeOK, KernelTypeOK
  <2>5. i = Target
    BY <2>3, <2>4 DEF SetDeviceStatus, SetDeviceIp4AddressInfo, ChangeDev
  <2>6. dev[i].name = event.info.name
    BY <2>5, TargetPristine DEF ActivatorInv
  <2>7. event.info.name \in Configured
    BY <2>3 DEF SetDeviceStatus, SetDeviceIp4AddressInfo, ActivatorInv,
                ConfiguredInv
  <2>8. dev'[i].ip4 \subseteq dev[i].ip4 \cup {AddressFor[event.info.name]}
    <3>1. dev[i] \in Device
      BY <2>4
    <3>2. CASE SetDeviceStatus
      BY <2>4, <2>5, <3>1, <3>2 DEF SetDeviceStatus, ChangeDev, Device
    <3>3. CASE SetDeviceIp4AddressInfo
      <4> DEFINE a == AddressFor[event.info.name]
                 e == WithAddr4(dev[i], a)
      <4>1. a \in Ip4Info
        BY <2>7, ActivatorAssumption
      <4>2. e.ip4 = dev[i].ip4 \cup {a}
        BY <3>1, <4>1, WithAddr4Fields
      <4>3. dev' = [dev EXCEPT ![i] = e]
        BY <2>5, <3>3 DEF SetDeviceIp4AddressInfo, ChangeDev
      <4> HIDE DEF e
      <4> QED BY <2>4, <4>2, <4>3
    <3> QED BY <2>3, <3>2, <3>3
  <2> QED BY <2>6, <2>7, <2>8
<1> HIDE DEF Right
<1>2. ActivatorSpec => [][\A i \in Index : Right(i)]_vars
  BY <1>1, ActivatorSpecWorld, PTL DEF ActivatorSpec
<1> QED BY <1>2 DEF RightDevice, Right

(***************************************************************************)
(* The monitor still catches up when its listener changes the devices.     *)
(***************************************************************************)
LEMMA CallCatchesUp ==
  ASSUME CaughtUpInv, pc \in {"created", "address"},
         pc' \in {"address", "flags", "aborted"}, KnownInv', DevInv', NamesInv',
         UNCHANGED <<subscribed, datagram, interfaces_by_index>>
  PROVE  CaughtUpInv'
BY DEF CaughtUpInv, StartInv, PublicInv

LEMMA InterfaceCreatedCatchesUp ==
  ASSUME Inv, ConfiguredInv, CaughtUpInv, InterfaceCreated, pc' # "refused"
  PROVE  CaughtUpInv'
<1>1. /\ pc \in {"created", "address"}
      /\ pc' \in {"address", "flags", "aborted"}
      /\ UNCHANGED <<subscribed, dump, failed, datagram, unsent_messages,
                     interfaces_by_index>>
  BY DEF InterfaceCreated, IgnoreInterface, SetDeviceStatus,
     SetDeviceStatusFails, SetDeviceIp4AddressInfo,
     SetDeviceIp4AddressInfoFails, SetDeviceStatusRefused, SetDeviceIp4AddressInfoRefused, Refused,
     kernelVars, seqVars, tableVars
<1>2. /\ Target \in Index /\ dev \in [Index -> Device]
      /\ event.info.name \in Name /\ dev[Target] \in Device
      /\ TypeOK /\ KnownInv /\ DevInv /\ NamesInv /\ StartInv
      /\ GoodDevice(dev[Target])
  BY <1>1, TargetIsIndex DEF Inv, TypeOK, KernelTypeOK, CaughtUpInv, DevInv
<1>3. AwaitKept
  BY <1>1, AskingPlaces, QuietKeepsAwaited
<1>4. ASSUME UNCHANGED <<dev, sock, overrun>>
      PROVE  CaughtUpInv'
  <2>1. KnownInv' /\ DevInv'
    BY <1>1, <1>2, <1>3, <1>4, SameKnows DEF Coming, DevInv
  <2>2. NamesInv'
    BY <1>1, <1>2, <1>4, NamesStayRight DEF Coming
  <2> QED BY <1>1, <2>1, <2>2, CallCatchesUp
<1>5. ASSUME NEW d \in Device, NEW m \in LinkMsg \cup AddrMsg,
             ChangeDev(Target, d, m), Tells(m, Target, d), NamesIt(m, Target, d),
             GoodDevice(d)
      PROVE  CaughtUpInv'
  <2>1. KnownInv'
    BY <1>1, <1>2, <1>3, <1>5, ChangeKnows
  <2>2. dev' = [dev EXCEPT ![Target] = d]
    BY <1>5 DEF ChangeDev
  <2>3. DevInv'
    BY <1>2, <1>5, <2>2 DEF DevInv, GoodDevice
  <2>4. NamesInv'
    BY <1>1, <1>2, <1>5, ChangeKeepsNames
  <2> QED BY <1>1, <2>1, <2>3, <2>4, CallCatchesUp
<1>6. CASE SetDeviceStatus
  <2> DEFINE d == [dev[Target] EXCEPT !.up = TRUE]
             m == Link("RTM_NEWLINK", Target, d)
  <2>1. /\ dev[Target].state = "present"
        /\ UNCHANGED <<dev, sock, overrun>> \/ ChangeDev(Target, d, m)
    BY <1>6 DEF SetDeviceStatus, TargetPresent
  <2>2. /\ d \in Device /\ d.up /\ d.state = dev[Target].state
        /\ d.name = dev[Target].name /\ AddrsOf(d) = AddrsOf(dev[Target])
        /\ d.renamed = dev[Target].renamed /\ d.clashed = dev[Target].clashed
        /\ d.ip4 = dev[Target].ip4
    BY <1>2 DEF Device, AddrsOf
  <2>3. GoodDevice(d)
    BY <1>2, <2>1, <2>2 DEF GoodDevice, DevInv
  <2> HIDE DEF d
  <2>4. /\ m \in LinkMsg /\ m \notin AddrMsg
        /\ Tells(m, Target, d) /\ NamesIt(m, Target, d)
    BY <1>2, <2>2 DEF Link, LinkMsg, AddrMsg, Device, Tells, NamesIt
  <2> QED BY <1>4, <1>5, <2>1, <2>2, <2>3, <2>4
<1>7. CASE SetDeviceIp4AddressInfo
  <2> DEFINE a == AddressFor[event.info.name]
             d == WithAddr4(dev[Target], a)
             m == Addr("RTM_NEWADDR", Target, a)
  <2>1. dev[Target].state = "present" /\ pc = "address" /\ ChangeDev(Target, d, m)
    BY <1>7 DEF SetDeviceIp4AddressInfo, TargetPresent
  <2>2. a \in Ip4Info
    BY <2>1, ActivatorAssumption DEF ConfiguredInv
  <2> HIDE DEF a
  <2>3. /\ d \in Device /\ d.up = dev[Target].up /\ d.state = dev[Target].state
        /\ d.name = dev[Target].name /\ d.renamed = dev[Target].renamed
        /\ AddrsOf(d) = AddrsOf(dev[Target]) \cup {a}
        /\ dev[Target].clashed => d.clashed
        /\ d.ip4 = dev[Target].ip4 \cup {a} /\ d.ip6 = dev[Target].ip6
        /\ \A b \in dev[Target].ip4 : SameAddress(a, b) => d.clashed
    BY <1>2, <2>2, WithAddr4Fields
  <2> HIDE DEF d
  <2>4. GoodDevice(d)
    BY <1>2, <2>1, <2>3 DEF GoodDevice, SameAddress
  <2>6. ASSUME NEW b \in AddrsOf(d), Rivals(b, a)
        PROVE  b = a \/ d.clashed
    <3>1. Ip4Info \cap Ip6Address = {} /\ dev[Target].ip6 \subseteq Ip6Address
      BY <1>2, ConstantsAssumption DEF Device
    <3> QED BY <2>2, <2>3, <2>6, <3>1 DEF Rivals, AddrsOf, SameAddress
  <2>5. /\ m \in AddrMsg /\ m \notin LinkMsg
        /\ Tells(m, Target, d) /\ NamesIt(m, Target, d)
    <3>1. m \in AddrMsg /\ m \notin LinkMsg
            /\ m.index = Target /\ m.addr = a /\ m.type = "RTM_NEWADDR"
      BY <1>2, <2>2 DEF Addr, LinkMsg, AddrMsg, AnyAddr
    <3> QED BY <2>3, <2>6, <3>1 DEF Tells, NamesIt
  <2> QED BY <1>5, <2>1, <2>3, <2>4, <2>5
<1>8. CASE IgnoreInterface \/ SetDeviceStatusFails \/ SetDeviceIp4AddressInfoFails
  BY <1>4, <1>8 DEF IgnoreInterface, SetDeviceStatusFails,
                    SetDeviceIp4AddressInfoFails, kernelVars
<1> QED BY <1>6, <1>7, <1>8
    DEF InterfaceCreated, SetDeviceStatusRefused, SetDeviceIp4AddressInfoRefused, Refused

\* The changes that InterfaceActivator makes in the middle of a datagram are
\* caught up with like any others, in flags, addresses and names: the
\* notifications they cause are behind the messages the monitor has still to
\* handle.
THEOREM ActivatorCaughtUp == ActivatorSpec => []CaughtUp
<1>1. Init => pc = "refused" \/ CaughtUpInv
  BY InitCaughtUpInv
<1>2. Inv /\ ConfiguredInv /\ (pc = "refused" \/ CaughtUpInv) /\ [ActivatorNext]_vars
        => (pc = "refused" \/ CaughtUpInv)'
  <2>1. ASSUME Inv, ConfiguredInv, CaughtUpInv, ActivatorNext, pc' # "refused"
        PROVE  CaughtUpInv'
    BY <2>1, InterfaceCreatedCatchesUp, MonitorStepCatchesUp, KernelStepCatchesUp
    DEF ActivatorNext, Inv, Ended
  <2>2. ASSUME pc = "refused" PROVE ~ActivatorNext
    BY <2>2 DEF ActivatorNext, Ended
  <2>3. UNCHANGED vars => UNCHANGED pc
    BY DEF vars, monitorVars
  <2> QED BY <2>1, <2>2, <2>3, StutterCatchesUp
<1>3. Inv /\ (pc = "refused" \/ CaughtUpInv) => CaughtUp
  <2>1. pc = "refused" => CaughtUp
    BY DEF CaughtUp, Quiescent
  <2> QED BY <2>1, CaughtUpInvSuffices
<1> QED BY <1>1, <1>2, <1>3, ActivatorSpecInv, PTL DEF ActivatorSpec

(***************************************************************************)
(* A device that is gone was removed by another program.                   *)
(***************************************************************************)
GoneInv == \A i \in Index : dev[i].state = "gone" => i \in tampered

LEMMA ChangeKeepsGone ==
  ASSUME TypeOK, GoneInv, NEW i \in Index, NEW d, NEW m,
         ChangeDev(i, d, m), tampered \subseteq tampered',
         d.state = "gone" => i \in tampered'
  PROVE  GoneInv'
BY DEF TypeOK, KernelTypeOK, GoneInv, ChangeDev

LEMMA OtherProgramsKeepGone ==
  ASSUME TypeOK, GoneInv, OtherPrograms
  PROVE  GoneInv'
<1>1. PICK i \in Index :
        \/ \E n \in Name : CreateLink(i, n) \/ RenameLink(i, n)
        \/ SetLinkFlag(i) \/ NamelessNotice(i) \/ RemoveLink(i)
        \/ \E a \in Ip4Info : AddAddr4(i, a) \/ DelAddr4(i, a)
        \/ \E a \in Ip6Address : AddAddr6(i, a) \/ DelAddr6(i, a)
  BY DEF OtherPrograms
<1>2. dev[i] \in Device
  BY DEF TypeOK, KernelTypeOK
<1>3. ASSUME NEW d, NEW m, NEW who, Change(i, d, m, who),
             d.state # "gone" \/ i \in who
      PROVE  GoneInv'
  BY <1>3, ChangeKeepsGone DEF Change
<1>4. ASSUME NEW n \in Name, CreateLink(i, n)
      PROVE  GoneInv'
  <2>1. [Unborn EXCEPT !.state = "present", !.name = n].state # "gone"
    BY DEF Unborn
  <2> QED BY <1>3, <1>4, <2>1 DEF CreateLink
<1>5. CASE NamelessNotice(i)
  BY <1>3, <1>5 DEF NamelessNotice
<1>6. ASSUME NEW a \in Ip6Address, AddAddr6(i, a) \/ DelAddr6(i, a)
      PROVE  GoneInv'
  <2>1. /\ dev[i].state # "gone"
        /\ [dev[i] EXCEPT !.ip6 = @ \cup {a}].state = dev[i].state
        /\ [dev[i] EXCEPT !.ip6 = @ \ {a}].state = dev[i].state
    BY <1>2, <1>6 DEF AddAddr6, DelAddr6, Device
  <2>2. \/ Change(i, [dev[i] EXCEPT !.ip6 = @ \cup {a}],
                  Addr("RTM_NEWADDR", i, a), {})
        \/ Change(i, [dev[i] EXCEPT !.ip6 = @ \ {a}],
                  Addr("RTM_DELADDR", i, a), {})
    BY <1>6 DEF AddAddr6, DelAddr6
  <2> QED BY <1>3, <2>1, <2>2
<1>7. ASSUME \/ \E n \in Name : RenameLink(i, n)
             \/ SetLinkFlag(i) \/ RemoveLink(i)
             \/ \E a \in Ip4Info : AddAddr4(i, a) \/ DelAddr4(i, a)
      PROVE  GoneInv'
  <2>1. PICK d, m : Change(i, d, m, {i})
    BY <1>7 DEF RenameLink, SetLinkFlag, RemoveLink, AddAddr4, DelAddr4
  <2> QED BY <1>3, <2>1
<1> QED BY <1>1, <1>4, <1>5, <1>6, <1>7

LEMMA ActivatorKeepsGone ==
  ActivatorInv /\ GoneInv /\ [ActivatorNext]_vars => GoneInv'
<1> SUFFICES ASSUME ActivatorInv, GoneInv, [ActivatorNext]_vars PROVE GoneInv'
  OBVIOUS
<1>0. TypeOK /\ Inv /\ WorldInv
  BY DEF ActivatorInv, Inv
<1>1. ASSUME UNCHANGED <<dev, tampered>> PROVE GoneInv'
  BY <1>1 DEF GoneInv
<1>2. CASE MonitorStep
  BY <1>0, <1>1, <1>2, MonitorKeepsMessages
<1>3. CASE KernelStep
  <2>1. CASE OtherPrograms
    BY <1>0, <2>1, OtherProgramsKeepGone
  <2>2. CASE DumpStep
    BY <1>1, <2>2 DEF DumpStep, DumpEntry, DumpDone, DumpFails
  <2> QED BY <1>3, <2>1, <2>2 DEF KernelStep
<1>4. CASE SetDeviceStatus \/ SetDeviceIp4AddressInfo
  <2>1. Target \in Index /\ dev[Target] \in Device
    BY <1>0, <1>4, TargetIsIndex
    DEF SetDeviceStatus, SetDeviceIp4AddressInfo, TypeOK, KernelTypeOK
  <2> DEFINE a == AddressFor[event.info.name]
             dU == [dev[Target] EXCEPT !.up = TRUE]
             dA == WithAddr4(dev[Target], a)
  <2>2. dU.state = dev[Target].state /\ dA.state = dev[Target].state
    BY <2>1 DEF Device, WithAddr4
  <2>3. /\ TargetPresent /\ UNCHANGED tampered
        /\ \/ UNCHANGED dev
           \/ ChangeDev(Target, dU, Link("RTM_NEWLINK", Target, dU))
           \/ ChangeDev(Target, dA, Addr("RTM_NEWADDR", Target, a))
    BY <1>4 DEF SetDeviceStatus, SetDeviceIp4AddressInfo
  <2> HIDE DEF dU, dA, a
  <2> QED BY <1>0, <1>1, <2>1, <2>2, <2>3, ChangeKeepsGone DEF TargetPresent
<1>5. CASE \/ IgnoreInterface \/ SetDeviceStatusFails \/ SetDeviceIp4AddressInfoFails
          \/ SetDeviceStatusRefused \/ SetDeviceIp4AddressInfoRefused
  BY <1>1, <1>5 DEF IgnoreInterface, SetDeviceStatusFails,
                    SetDeviceIp4AddressInfoFails, SetDeviceStatusRefused,
                    SetDeviceIp4AddressInfoRefused, Refused, kernelVars
<1>6. CASE UNCHANGED vars
  BY <1>1, <1>6 DEF vars, kernelVars
<1> QED
  BY <1>2, <1>3, <1>4, <1>5, <1>6 DEF ActivatorNext, InterfaceCreated
=============================================================================
