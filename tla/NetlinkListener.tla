--------------------------- MODULE NetlinkListener ---------------------------
(***************************************************************************)
(* What NetlinkMonitor promises its listeners (class NetlinkListener and   *)
(* struct NetInterfaceInfo in src/net/netlink_monitor.h), without saying   *)
(* how it comes to know it.                                                *)
(*                                                                         *)
(* known[i] is what the listeners have been told about interface i; it is  *)
(* blank until InterfaceCreated.  Each callback reports exactly one change *)
(* of known, carries the information as it is after the change, and comes  *)
(* only when it is news: no LinkUp for a link that was reported up, no     *)
(* address added twice or removed before it was added, and nothing at all  *)
(* about an interface that has not been announced.                         *)
(***************************************************************************)
CONSTANTS Index, Name, NoName, Ip4Info, Ip6Address, NoAddr

VARIABLES
  known,   \* known[i]: what the listeners know of interface i
  event    \* the last callback

NetInterfaceInfo == [name           : Name \cup {NoName},
                     link_active    : BOOLEAN,
                     is_public      : BOOLEAN,
                     ip4_addresses  : SUBSET Ip4Info,
                     ip6_addresses  : SUBSET Ip6Address]

\* The constructor NetInterfaceInfo(index).
NewInterfaceInfo == [name |-> NoName, link_active |-> FALSE,
                     is_public |-> FALSE,
                     ip4_addresses |-> {}, ip6_addresses |-> {}]

Event(kind, i, info, a) ==
  [kind |-> kind, index |-> i, info |-> info, addr |-> a]
NoEvent == [kind |-> "none"]

\* set<Ip4AddressInfo> orders its elements by their address alone.
SameKey(a, b) == a.address = b.address

Init ==
  /\ known = [i \in Index |-> NewInterfaceInfo]
  /\ event = NoEvent

\* Interface i is now known as info, and the listeners are called back.
Tell(kind, i, info, a) ==
  /\ known' = [known EXCEPT ![i] = info]
  /\ event' = Event(kind, i, info, a)

InterfaceCreated(i) ==
  /\ ~known[i].is_public
  /\ \E info \in NetInterfaceInfo :
       /\ info.is_public
       /\ info.name \in Name
       /\ Tell("InterfaceCreated", i, info, NoAddr)

LinkUp(i) ==
  /\ known[i].is_public
  /\ ~known[i].link_active
  /\ Tell("LinkUp", i, [known[i] EXCEPT !.link_active = TRUE], NoAddr)

LinkDown(i) ==
  /\ known[i].is_public
  /\ known[i].link_active
  /\ Tell("LinkDown", i, [known[i] EXCEPT !.link_active = FALSE], NoAddr)

Ip4AddressAdded(i, a) ==
  /\ known[i].is_public
  /\ \A b \in known[i].ip4_addresses : ~SameKey(a, b)
  /\ Tell("Ip4AddressAdded", i,
          [known[i] EXCEPT !.ip4_addresses = @ \cup {a}], a)

Ip4AddressRemoved(i, a) ==
  /\ known[i].is_public
  /\ \E b \in known[i].ip4_addresses : SameKey(a, b)
  /\ Tell("Ip4AddressRemoved", i,
          [known[i] EXCEPT !.ip4_addresses = {b \in @ : ~SameKey(a, b)}], a)

Ip6AddressAdded(i, a) ==
  /\ known[i].is_public
  /\ a \notin known[i].ip6_addresses
  /\ Tell("Ip6AddressAdded", i,
          [known[i] EXCEPT !.ip6_addresses = @ \cup {a}], a)

Ip6AddressRemoved(i, a) ==
  /\ known[i].is_public
  /\ a \in known[i].ip6_addresses
  /\ Tell("Ip6AddressRemoved", i,
          [known[i] EXCEPT !.ip6_addresses = @ \ {a}], a)

Next ==
  \E i \in Index :
    \/ InterfaceCreated(i) \/ LinkUp(i) \/ LinkDown(i)
    \/ \E a \in Ip4Info : Ip4AddressAdded(i, a) \/ Ip4AddressRemoved(i, a)
    \/ \E a \in Ip6Address : Ip6AddressAdded(i, a) \/ Ip6AddressRemoved(i, a)

Spec == Init /\ [][Next]_<<known, event>>
=============================================================================
