------------------------------ MODULE RtNetlink ------------------------------
(***************************************************************************)
(* The rtnetlink service of the Linux kernel, as cheaproute uses it.  It   *)
(* is not part of the repository: this module is the environment of        *)
(* NetlinkMonitor and Netlink (src/net/netlink_monitor.cc, netlink.cc).    *)
(*                                                                         *)
(*  - dev is the kernel's table of network devices.  Other programs change *)
(*    it at any time; every change is multicast to the monitor's socket.   *)
(*  - A query (RTM_GETLINK, RTM_GETADDR) starts a dump: the kernel walks   *)
(*    its objects one by one, so changes can fall between two entries, and *)
(*    finishes with NLMSG_DONE, or with NLMSG_ERROR when it runs out of    *)
(*    memory.  A socket runs one dump at a time: a second query is refused *)
(*    with NLMSG_ERROR (EBUSY).                                            *)
(*  - The socket holds SockCap notifications.  One that does not fit is    *)
(*    dropped, and the next recvmsg fails with ENOBUFS.                    *)
(***************************************************************************)
EXTENDS Naturals, Sequences

CONSTANTS
  Index,       \* interface indices; the kernel does not reuse one
  Name,        \* interface names
  NoName,      \* stands for a link message without IFLA_IFNAME
  Ip4Info,     \* the Ip4AddressInfo values: records with fields address, ...
  Ip6Address,  \* the IPv6 addresses
  NoAddr,      \* the address field of a link entry in a dump
  InitDev,     \* the device tables the program may find when it starts
  SockCap,     \* capacity of the monitor's socket, in messages
  MaxChanges   \* bound on the number of changes made by other programs

VARIABLES
  dev,         \* dev[i]: the kernel's record of device i
  subscribed,  \* the monitor's socket is bound to its multicast groups
  sock,        \* messages waiting in the monitor's socket
  overrun,     \* a notification was dropped (sk_err = ENOBUFS)
  dump,        \* the dump that is running on the monitor's socket
  failed,      \* history: queries the kernel gave up for lack of memory
  tampered,    \* history: devices whose flags, name, IPv4 addresses or
               \* existence are also in the hands of other programs
  changes      \* number of changes made by other programs so far

kernelVars ==
  <<dev, subscribed, sock, overrun, dump, failed, tampered, changes>>

Kinds == {"link", "inet", "inet6"}

\* renamed and clashed are history: the device was renamed after the socket
\* was bound, and it had two IPv4 addresses that differ in the prefix only.
Device == [state   : {"unborn", "present", "gone"},
           name    : Name \cup {NoName},
           up      : BOOLEAN,
           ip4     : SUBSET Ip4Info,
           ip6     : SUBSET Ip6Address,
           renamed : BOOLEAN,
           clashed : BOOLEAN]

Unborn == [state |-> "unborn", name |-> NoName, up |-> FALSE,
           ip4 |-> {}, ip6 |-> {}, renamed |-> FALSE, clashed |-> FALSE]

SameAddress(a, b) == a.address = b.address
WithAddr4(d, a) ==
  [d EXCEPT !.ip4 = @ \cup {a},
            !.clashed = @ \/ \E b \in d.ip4 : SameAddress(a, b)]

ASSUME ConstantsAssumption ==
  /\ NoName \notin Name
  /\ NoAddr \notin Ip4Info \cup Ip6Address
  /\ Ip4Info \cap Ip6Address = {}
  /\ InitDev \subseteq [Index -> Device]
  /\ \A d \in InitDev, i \in Index :
       \/ d[i] = Unborn
       \/ /\ d[i].state = "present"
          /\ d[i].name # NoName
          /\ \A a, b \in d[i].ip4 : SameAddress(a, b) => a = b \/ d[i].clashed
  /\ SockCap \in Nat
  /\ MaxChanges \in Nat

(***************************************************************************)
(* Messages.                                                               *)
(***************************************************************************)
LinkMsg == [type : {"RTM_NEWLINK", "RTM_DELLINK"}, index : Index,
            name : Name \cup {NoName}, up : BOOLEAN]
AddrMsg == [type : {"RTM_NEWADDR", "RTM_DELADDR"}, index : Index,
            addr : Ip4Info \cup Ip6Address]
AckMsg  == [type : {"NLMSG_DONE", "NLMSG_ERROR"}, seq : Nat,
            errno : {"OK", "EBUSY", "ENOMEM"}]
Msg == LinkMsg \cup AddrMsg \cup AckMsg

IsLink(m) == m.type \in {"RTM_NEWLINK", "RTM_DELLINK"}
IsAddr(m) == m.type \in {"RTM_NEWADDR", "RTM_DELADDR"}
IsAck(m)  == m.type \in {"NLMSG_DONE", "NLMSG_ERROR"}

Link(t, i, d) == [type |-> t, index |-> i, name |-> d.name, up |-> d.up]
Addr(t, i, a) == [type |-> t, index |-> i, addr |-> a]
Ack(t, s, e)  == [type |-> t, seq |-> s, errno |-> e]

(***************************************************************************)
(* Dumps.  An entry of a dump is a device or an address of a device.       *)
(***************************************************************************)
Entry == [index : Index, addr : Ip4Info \cup Ip6Address \cup {NoAddr}]
Entries(kind) ==
  [index : Index,
   addr  : CASE kind = "link"  -> {NoAddr}
             [] kind = "inet"  -> Ip4Info
             [] kind = "inet6" -> Ip6Address]

Dump == [kind : Kinds \cup {"none"}, seq : Nat, todo : SUBSET Entry]
NoDump == [kind |-> "none", seq |-> 0, todo |-> {}]
Dumping == dump.kind # "none"

Exists(e) ==
  /\ dev[e.index].state = "present"
  /\ e.addr \in {NoAddr} \cup dev[e.index].ip4 \cup dev[e.index].ip6

EntryMsg(e) == IF e.addr = NoAddr
               THEN Link("RTM_NEWLINK", e.index, dev[e.index])
               ELSE Addr("RTM_NEWADDR", e.index, e.addr)

KernelTypeOK ==
  /\ dev \in [Index -> Device]
  /\ subscribed \in BOOLEAN
  /\ sock \in Seq(Msg)
  /\ overrun \in BOOLEAN
  /\ dump \in Dump
  /\ failed \subseteq Kinds
  /\ tampered \subseteq Index
  /\ changes \in Nat

KernelInit ==
  /\ dev \in InitDev
  /\ subscribed = FALSE
  /\ sock = <<>>
  /\ overrun = FALSE
  /\ dump = NoDump
  /\ failed = {}
  /\ tampered = {i \in Index : dev[i].ip4 # {}}
  /\ changes = 0

(***************************************************************************)
(* The effect of a change of device i: its record becomes d and m is       *)
(* multicast.                                                              *)
(***************************************************************************)
Notify(m) ==
  \/ /\ subscribed
     /\ Len(sock) < SockCap
     /\ sock' = Append(sock, m)
     /\ UNCHANGED overrun
  \/ /\ subscribed
     /\ Len(sock) >= SockCap
     /\ overrun' = TRUE
     /\ UNCHANGED sock
  \/ /\ ~subscribed
     /\ UNCHANGED <<sock, overrun>>

ChangeDev(i, d, m) ==
  /\ dev' = [dev EXCEPT ![i] = d]
  /\ Notify(m)

(***************************************************************************)
(* The services the program calls.  RequestDump is the kernel's side of a  *)
(* query; it returns at once.                                              *)
(***************************************************************************)
RequestDump(kind, s) ==
  IF Dumping
  THEN /\ sock' = Append(sock, Ack("NLMSG_ERROR", s, "EBUSY"))
       /\ UNCHANGED dump
  ELSE /\ dump' = [kind |-> kind, seq |-> s, todo |-> Entries(kind)]
       /\ UNCHANGED sock

(***************************************************************************)
(* The progress of a dump.                                                 *)
(***************************************************************************)
DumpEntry(e) ==
  /\ e \in dump.todo
  /\ Len(sock) < SockCap
  /\ dump' = [dump EXCEPT !.todo = @ \ {e}]
  /\ sock' = IF Exists(e) THEN Append(sock, EntryMsg(e)) ELSE sock
  /\ UNCHANGED <<dev, subscribed, overrun, failed, tampered, changes>>

DumpDone ==
  /\ Dumping
  /\ dump.todo = {}
  /\ Len(sock) < SockCap
  /\ sock' = Append(sock, Ack("NLMSG_DONE", dump.seq, "OK"))
  /\ dump' = NoDump
  /\ UNCHANGED <<dev, subscribed, overrun, failed, tampered, changes>>

DumpFails ==
  /\ Dumping
  /\ Len(sock) < SockCap
  /\ sock' = Append(sock, Ack("NLMSG_ERROR", dump.seq, "ENOMEM"))
  /\ failed' = failed \cup {dump.kind}
  /\ dump' = NoDump
  /\ UNCHANGED <<dev, subscribed, overrun, tampered, changes>>

(***************************************************************************)
(* What other programs do to the devices.  A device is removed only when   *)
(* it is down and its addresses are gone: the kernel takes these steps,    *)
(* each with its own notification, before it sends RTM_DELLINK.            *)
(***************************************************************************)
Change(i, d, m, who) ==
  /\ changes < MaxChanges
  /\ changes' = changes + 1
  /\ ChangeDev(i, d, m)
  /\ tampered' = tampered \cup who
  /\ UNCHANGED <<subscribed, dump, failed>>

NameFree(n) == \A i \in Index : dev[i].state = "present" => dev[i].name # n

CreateLink(i, n) ==
  LET d == [Unborn EXCEPT !.state = "present", !.name = n]
  IN  /\ dev[i].state = "unborn"
      /\ NameFree(n)
      /\ Change(i, d, Link("RTM_NEWLINK", i, d), {})

SetLinkFlag(i) ==
  LET d == [dev[i] EXCEPT !.up = ~@]
  IN  /\ dev[i].state = "present"
      /\ Change(i, d, Link("RTM_NEWLINK", i, d), {i})

RenameLink(i, n) ==
  LET d == [dev[i] EXCEPT !.name = n, !.renamed = subscribed]
  IN  /\ dev[i].state = "present"
      /\ NameFree(n)
      /\ Change(i, d, Link("RTM_NEWLINK", i, d), {i})

\* A link notification that does not carry the name, which the monitor allows.
NamelessNotice(i) ==
  LET m == Link("RTM_NEWLINK", i, [dev[i] EXCEPT !.name = NoName])
  IN  /\ dev[i].state = "present"
      /\ subscribed
      /\ Change(i, dev[i], m, {})

AddAddr4(i, a) ==
  /\ dev[i].state = "present"
  /\ a \notin dev[i].ip4
  /\ Change(i, WithAddr4(dev[i], a), Addr("RTM_NEWADDR", i, a), {i})

DelAddr4(i, a) ==
  /\ dev[i].state = "present"
  /\ a \in dev[i].ip4
  /\ Change(i, [dev[i] EXCEPT !.ip4 = @ \ {a}],
            Addr("RTM_DELADDR", i, a), {i})

AddAddr6(i, a) ==
  /\ dev[i].state = "present"
  /\ a \notin dev[i].ip6
  /\ Change(i, [dev[i] EXCEPT !.ip6 = @ \cup {a}],
            Addr("RTM_NEWADDR", i, a), {})

DelAddr6(i, a) ==
  /\ dev[i].state = "present"
  /\ a \in dev[i].ip6
  /\ Change(i, [dev[i] EXCEPT !.ip6 = @ \ {a}],
            Addr("RTM_DELADDR", i, a), {})

RemoveLink(i) ==
  /\ dev[i].state = "present"
  /\ ~dev[i].up
  /\ dev[i].ip4 = {}
  /\ dev[i].ip6 = {}
  /\ Change(i, [dev[i] EXCEPT !.state = "gone"],
            Link("RTM_DELLINK", i, dev[i]), {i})

OtherPrograms ==
  \E i \in Index :
    \/ \E n \in Name : CreateLink(i, n) \/ RenameLink(i, n)
    \/ SetLinkFlag(i) \/ NamelessNotice(i) \/ RemoveLink(i)
    \/ \E a \in Ip4Info : AddAddr4(i, a) \/ DelAddr4(i, a)
    \/ \E a \in Ip6Address : AddAddr6(i, a) \/ DelAddr6(i, a)

DumpStep == (\E e \in Entry : DumpEntry(e)) \/ DumpDone \/ DumpFails
=============================================================================
