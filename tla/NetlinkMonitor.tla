--------------------------- MODULE NetlinkMonitor ---------------------------
(***************************************************************************)
(* NetlinkMonitor (src/net/netlink_monitor.{h,cc}) with the receiver of    *)
(* src/net/netlink_util.h.  It mirrors the kernel's interfaces by asking   *)
(* for three dumps, one at a time, while it reads the notifications that   *)
(* arrive on the same socket, and tells its listeners what changed.        *)
(*                                                                         *)
(* pc is the place in the single thread of the program: the three queries  *)
(* of Init, the event loop ("idle"), and the loops of HandleRead.  The     *)
(* kernel and other programs can act between any two of the thread's       *)
(* steps.  AbortWith... and CheckFdOp end the program: pc = "aborted" when  *)
(* what the model holds is the cause, pc = "refused" when a system call    *)
(* failed for any other reason (no memory, no permission, a full disk).    *)
(***************************************************************************)
EXTENDS RtNetlink

VARIABLES
  pc,
  datagram,               \* messages of the received buffer still to handle
  old_last_received_seq,  \* local of HandleRead
  sequence_number,
  last_received_seq,
  unsent_messages,        \* queries that wait for their turn
  interfaces_by_index,    \* a blank entry stands for a missing one
  event                   \* the last callback that was broadcast

monitorVars == <<pc, datagram, old_last_received_seq, sequence_number,
                 last_received_seq, unsent_messages, interfaces_by_index,
                 event>>
seqVars == <<old_last_received_seq, sequence_number, last_received_seq,
             unsent_messages>>
tableVars == <<interfaces_by_index, event>>
\* Kernel state that reading and querying do not touch.
worldVars == <<dev, subscribed, overrun, failed, tampered, changes>>
vars == <<kernelVars, monitorVars>>

\* What the listeners have been told.
Known == [i \in Index |-> IF interfaces_by_index[i].is_public
                          THEN interfaces_by_index[i]
                          ELSE [name |-> NoName, link_active |-> FALSE,
                                is_public |-> FALSE,
                                ip4_addresses |-> {}, ip6_addresses |-> {}]]

Listener == INSTANCE NetlinkListener WITH known <- Known

Ended == pc \in {"aborted", "refused"}

\* The places inside HandleRead after ReceiveFromNonBlock.  "created" and
\* "address" are inside the InterfaceCreated callbacks it makes.
Reading == {"message", "created", "address", "flags", "flush"}

FirstSeq == 36

MonitorTypeOK ==
  /\ pc \in {"down", "link", "inet", "inet6", "idle", "receive", "aborted",
             "refused"} \cup Reading
  /\ datagram \in Seq(Msg)
  /\ old_last_received_seq \in Nat
  /\ sequence_number \in Nat
  /\ last_received_seq \in Nat
  /\ unsent_messages \in Seq([kind : Kinds, seq : Nat])
  /\ interfaces_by_index \in [Index -> Listener!NetInterfaceInfo]

MonitorInit ==
  /\ pc = "down"
  /\ datagram = <<>>
  /\ old_last_received_seq = FirstSeq
  /\ sequence_number = FirstSeq
  /\ last_received_seq = FirstSeq
  /\ unsent_messages = <<>>
  /\ interfaces_by_index = [i \in Index |-> Listener!NewInterfaceInfo]
  /\ event = Listener!NoEvent

(***************************************************************************)
(* Init: bind the socket, then BeginLinkQuery and two BeginAddrQuery.      *)
(***************************************************************************)
Bind ==
  /\ pc = "down"
  /\ subscribed' = TRUE
  /\ pc' = "link"
  /\ UNCHANGED <<dev, sock, overrun, dump, failed, tampered, changes,
                 datagram, seqVars, tableVars>>

\* A system call is refused and the program ends.
Refused ==
  /\ pc' = "refused"
  /\ UNCHANGED <<kernelVars, datagram, seqVars, tableVars>>

\* socket or bind fails, here or in Netlink::Init just before.
BindRefused == pc = "down" /\ Refused

\* Faulty variant: every query is sent at once.
SendMessageUnqueued(kind) ==
  /\ sequence_number' = sequence_number + 1
  /\ RequestDump(kind, sequence_number')
  /\ UNCHANGED unsent_messages

\* A query is sent at once only if every earlier one has been answered.
SendMessage(kind) ==
  /\ sequence_number' = sequence_number + 1
  /\ IF last_received_seq + 1 = sequence_number'
     THEN /\ RequestDump(kind, sequence_number')
          /\ UNCHANGED unsent_messages
     ELSE /\ unsent_messages' =
               Append(unsent_messages, [kind |-> kind, seq |-> sequence_number'])
          /\ UNCHANGED <<sock, dump>>

BeginQuery(kind, next) ==
  /\ pc = kind
  /\ SendMessage(kind)
  /\ pc' = next
  /\ UNCHANGED <<worldVars, datagram, old_last_received_seq,
                 last_received_seq, tableVars>>

\* SendMessageNow aborts when sendmsg fails, in Init and in HandleRead.
SendRefused ==
  /\ \/ pc \in Kinds /\ last_received_seq = sequence_number
     \/ /\ pc = "flush"
        /\ unsent_messages # <<>>
        /\ old_last_received_seq < last_received_seq
  /\ Refused

BeginLinkQuery == BeginQuery("link", "inet")
BeginAddrQuery == BeginQuery("inet", "inet6") \/ BeginQuery("inet6", "idle")

(***************************************************************************)
(* HandleRead: receive a datagram, handle its messages, send what waited.  *)
(***************************************************************************)
\* The event loop sees the socket readable (an error makes it readable too).
HandleRead ==
  /\ pc = "idle"
  /\ sock # <<>> \/ overrun
  /\ pc' = "receive"
  /\ UNCHANGED <<kernelVars, datagram, seqVars, tableVars>>

\* recvmsg fails with ENOBUFS, which CheckFdOp does not forgive.
ReceiveFails ==
  /\ pc = "receive"
  /\ overrun
  /\ pc' = "aborted"
  /\ UNCHANGED <<kernelVars, datagram, seqVars, tableVars>>

\* It fails otherwise.
ReceiveRefused == pc = "receive" /\ Refused

\* EAGAIN: back to the event loop.
ReceiveNothing ==
  /\ pc = "receive"
  /\ ~overrun
  /\ sock = <<>>
  /\ pc' = "idle"
  /\ UNCHANGED <<kernelVars, datagram, seqVars, tableVars>>

\* The kernel packs any number of messages into a datagram.
ReceiveDatagram(n) ==
  /\ pc = "receive"
  /\ ~overrun
  /\ datagram' = SubSeq(sock, 1, n)
  /\ sock' = SubSeq(sock, n + 1, Len(sock))
  /\ old_last_received_seq' = last_received_seq
  /\ pc' = "message"
  /\ UNCHANGED <<worldVars, dump, sequence_number, last_received_seq,
                 unsent_messages, tableVars>>

\* receiver.Next(): the message at the head of the datagram is done.
NextMessage ==
  /\ datagram' = Tail(datagram)
  /\ pc' = IF datagram' = <<>> THEN "flush" ELSE "message"

\* Faulty variant: a query that failed is not taken as answered.
HandleAckDoneOnly ==
  /\ pc = "message"
  /\ IsAck(Head(datagram))
  /\ last_received_seq' = IF Head(datagram).type = "NLMSG_DONE"
                          THEN Head(datagram).seq ELSE last_received_seq
  /\ NextMessage
  /\ UNCHANGED <<kernelVars, old_last_received_seq, sequence_number,
                 unsent_messages, tableVars>>

\* NLMSG_DONE and NLMSG_ERROR both count as the answer to a query.
HandleAck ==
  /\ pc = "message"
  /\ IsAck(Head(datagram))
  /\ last_received_seq' = Head(datagram).seq
  /\ NextMessage
  /\ UNCHANGED <<kernelVars, old_last_received_seq, sequence_number,
                 unsent_messages, tableVars>>

Broadcast(kind, i, info, a) == event' = Listener!Event(kind, i, info, a)

SetInfo(i, info) ==
  interfaces_by_index' = [interfaces_by_index EXCEPT ![i] = info]

\* Faulty variant: is_public is forgotten.
ShouldAnnounceAgain(m) == m.name # NoName

ShouldAnnounce(m) ==
  ~interfaces_by_index[m.index].is_public /\ m.name # NoName

\* RTM_NEWLINK and RTM_DELLINK, first half: an interface gets its name once.
Announce ==
  LET m == Head(datagram)
      info == [interfaces_by_index[m.index] EXCEPT !.name = m.name,
                                                   !.is_public = TRUE]
  IN  /\ pc = "message"
      /\ IsLink(m)
      /\ ShouldAnnounce(m)
      /\ SetInfo(m.index, info)
      /\ Broadcast("InterfaceCreated", m.index, info, NoAddr)
      /\ pc' = "created"
      /\ UNCHANGED <<kernelVars, datagram, seqVars>>

\* The InterfaceCreated callbacks return.
ListenersReturn ==
  /\ pc = "created"
  /\ pc' = "flags"
  /\ UNCHANGED <<kernelVars, datagram, seqVars, tableVars>>

\* Second half: IFF_UP, whatever the type of the message.
UpdateLinkActive ==
  LET m == Head(datagram)
      info == [interfaces_by_index[m.index] EXCEPT !.link_active = m.up]
  IN  /\ \/ pc = "flags"
         \/ pc = "message" /\ IsLink(m) /\ ~ShouldAnnounce(m)
      /\ SetInfo(m.index, info)
      /\ IF info # interfaces_by_index[m.index] /\ info.is_public
         THEN Broadcast(IF m.up THEN "LinkUp" ELSE "LinkDown",
                        m.index, info, NoAddr)
         ELSE UNCHANGED event
      /\ NextMessage
      /\ UNCHANGED <<kernelVars, seqVars>>

\* set<Ip4AddressInfo>::insert and erase compare the address alone.
Insert4(s, a) == IF \E b \in s : Listener!SameKey(a, b) THEN s ELSE s \cup {a}
Erase4(s, a) == {b \in s : ~Listener!SameKey(a, b)}

\* Faulty variant: RTM_DELADDR is treated like RTM_NEWADDR, as RTM_DELLINK is
\* like RTM_NEWLINK.
AddrInfoKeepsDeleted(m) ==
  IF m.addr \in Ip4Info
  THEN [interfaces_by_index[m.index] EXCEPT
          !.ip4_addresses = Insert4(@, m.addr)]
  ELSE [interfaces_by_index[m.index] EXCEPT
          !.ip6_addresses = @ \cup {m.addr}]

\* The entry of message m's interface after m: its set of addresses changes.
AddrInfo(m) ==
  LET old == interfaces_by_index[m.index]
      new == m.type = "RTM_NEWADDR"
  IN  IF m.addr \in Ip4Info
      THEN [old EXCEPT !.ip4_addresses =
              IF new THEN Insert4(@, m.addr) ELSE Erase4(@, m.addr)]
      ELSE [old EXCEPT !.ip6_addresses =
              IF new THEN @ \cup {m.addr} ELSE @ \ {m.addr}]

AddrCallback(m) ==
  IF m.addr \in Ip4Info
  THEN IF m.type = "RTM_NEWADDR" THEN "Ip4AddressAdded" ELSE "Ip4AddressRemoved"
  ELSE IF m.type = "RTM_NEWADDR" THEN "Ip6AddressAdded" ELSE "Ip6AddressRemoved"

\* RTM_NEWADDR and RTM_DELADDR; an unannounced interface changes in silence.
HandleAddr ==
  LET m == Head(datagram)
      info == AddrInfo(m)
  IN  /\ pc = "message"
      /\ IsAddr(m)
      /\ SetInfo(m.index, info)
      /\ IF info # interfaces_by_index[m.index] /\ info.is_public
         THEN Broadcast(AddrCallback(m), m.index, info, m.addr)
         ELSE UNCHANGED event
      /\ NextMessage
      /\ UNCHANGED <<kernelVars, seqVars>>

\* Faulty variant: the queue is flushed without waiting for an answer.
SendUnsentUngated ==
  /\ pc = "flush"
  /\ unsent_messages # <<>>
  /\ RequestDump(Head(unsent_messages).kind, Head(unsent_messages).seq)
  /\ unsent_messages' = Tail(unsent_messages)
  /\ UNCHANGED <<worldVars, pc, datagram, old_last_received_seq,
                 sequence_number, last_received_seq, tableVars>>

\* One waiting query goes out for each answer that came in.
SendUnsent ==
  /\ pc = "flush"
  /\ unsent_messages # <<>>
  /\ old_last_received_seq < last_received_seq
  /\ RequestDump(Head(unsent_messages).kind, Head(unsent_messages).seq)
  /\ unsent_messages' = Tail(unsent_messages)
  /\ old_last_received_seq' = old_last_received_seq + 1
  /\ UNCHANGED <<worldVars, pc, datagram, sequence_number, last_received_seq,
                 tableVars>>

FlushDone ==
  /\ pc = "flush"
  /\ unsent_messages = <<>> \/ old_last_received_seq >= last_received_seq
  /\ pc' = "receive"
  /\ UNCHANGED <<kernelVars, datagram, seqVars, tableVars>>

(***************************************************************************)
(* The specification.                                                      *)
(***************************************************************************)
MonitorStep ==
  \/ Bind \/ BindRefused
  \/ BeginLinkQuery \/ BeginAddrQuery \/ SendRefused
  \/ HandleRead \/ ReceiveFails \/ ReceiveRefused \/ ReceiveNothing
  \/ \E n \in 1..Len(sock) : ReceiveDatagram(n)
  \/ HandleAck \/ Announce \/ UpdateLinkActive \/ HandleAddr
  \/ SendUnsent \/ FlushDone

KernelStep == (DumpStep \/ OtherPrograms) /\ UNCHANGED monitorVars

Init == KernelInit /\ MonitorInit

Next == ~Ended /\ (MonitorStep \/ ListenersReturn \/ KernelStep)

Spec == Init /\ [][Next]_vars

\* A dump goes on as long as there is room in the socket.
DumpProgress ==
  /\ ~Ended
  /\ (\E e \in Entry : DumpEntry(e)) \/ DumpDone
  /\ UNCHANGED monitorVars

\* The thread keeps running, and the kernel keeps working on a dump.
FairSpec ==
  Spec /\ WF_vars(MonitorStep \/ ListenersReturn) /\ WF_vars(DumpProgress)

(***************************************************************************)
(* Properties.                                                             *)
(***************************************************************************)
\* Every variable has its type.
TypeOK == KernelTypeOK /\ MonitorTypeOK

\* The queue of unsent_messages works: no query ever reaches the kernel
\* while it is still answering an earlier one, so none is refused (EBUSY).
NeverBusy ==
  \A m \in {sock[k] : k \in DOMAIN sock}
           \cup {datagram[k] : k \in DOMAIN datagram} :
    IsAck(m) => m.errno # "EBUSY"

\* HandleRead takes the answers in the order of the queries, each one once;
\* its count of answers (old_last_received_seq) relies on it.
AnswersInOrder ==
  [][last_received_seq' \in {last_received_seq, last_received_seq + 1}]_vars

\* Everything there was to read or to send has been read and sent.
Quiescent ==
  /\ pc = "idle"
  /\ sock = <<>>
  /\ ~overrun
  /\ unsent_messages = <<>>
  /\ last_received_seq = sequence_number

\* The table of interfaces says of interface i what the kernel says: the
\* flag, the addresses and the name.  The code does not follow a renaming,
\* and it keeps one of two IPv4 addresses that differ in the prefix only.
Agrees(i) ==
  LET info == interfaces_by_index[i]
      present == dev[i].state = "present"
  IN  /\ "link" \notin failed /\ present =>
           info.is_public /\ info.link_active = dev[i].up
      /\ ~present => ~info.link_active
      /\ info.is_public /\ ~dev[i].renamed => info.name = dev[i].name
      /\ info.ip4_addresses \subseteq dev[i].ip4
      /\ info.ip6_addresses \subseteq dev[i].ip6
      /\ "inet" \notin failed /\ ~dev[i].clashed =>
           dev[i].ip4 \subseteq info.ip4_addresses
      /\ "inet6" \notin failed => dev[i].ip6 \subseteq info.ip6_addresses

\* However dumps, notifications and changes interleave, once the monitor is
\* back in the event loop with nothing left to read its table agrees with the
\* kernel: no change of a flag or an address is missed between a dump and the
\* notifications around it.  A name is stale only after a renaming, an IPv4
\* address is missing only if the device has had two with one key at a time.
CaughtUp == Quiescent => \A i \in Index : Agrees(i)

\* The listeners get exactly the callbacks that NetlinkListener describes.
ListenerSpec == Listener!Spec

\* When other programs stop changing devices the monitor comes to rest with
\* all three queries answered and no notification lost, or it has ended.
ComesToRest == <>[](Ended \/ Quiescent)
=============================================================================
